------------------------------- MODULE MCCompile -------------------------------
(* Instances of Compile: functions of two inputs, 1 and 2, in SSA form and in   *)
(* CIR, with an if, a loop, and one inside the other, with every choice of a     *)
(* pool at each place.                                                          *)
EXTENDS Compile

\* Operations that make t from x and y.
Makes(t, x, y) == {
  <<Assign("SUB", t, <<Var(x), Var(y)>>)>>,
  <<Assign("IMM", t, <<Imm(1)>>), Do("STORE", <<Var(t)>>)>>,
  <<Do("STORE", <<Var(x)>>), Assign("SUB", t, <<Var(x), Imm(1)>>)>>}

Branches(t, x, y) == {Block(<<>>, ops, <<o>>) : ops \in Makes(t, x, y), o \in {t, y}}
Ifs(o, t1, t2, c, x, y) ==
  {If(<<o>>, Var(c), then, else) : then \in Branches(t1, x, y), else \in Branches(t2, y, x)}
Leaving(o, t, c, x, y) ==
  UNION {LET leave == Block(<<>>, <<Leave(id, <<Var(x)>>)>>, <<x>>) IN
         {If(<<o>>, Var(c), leave, b), If(<<o>>, Var(c), b, leave)} :
           id \in {"BREAK", "CONTINUE"}, b \in Branches(t, x, y)}

Cond(i, c) == {Block(<<i>>, <<Assign("IMM", c, <<Var(i)>>)>>, <<c>>)}
\* A loop of one state, i in the body, which ops in the body turns into next.
Looped(o, init, i, ops, next) ==
  {While(<<o>>, <<Var(init)>>, cond, Block(<<i>>, ops, <<next>>)) : cond \in Cond(i + 1, i + 2)}

Function(ops, outs, k) ==
  [root |-> Block(<<1, 2>>, ops, outs), n |-> k, cir |-> FALSE, ifEval |-> FALSE]

JustIf == {Function(<<op>>, <<5, 1>>, 5) : op \in Ifs(5, 3, 4, 1, 1, 2)}
IfInIf == {Function(<<If(<<9>>, Var(2), Block(<<>>, <<inner>>, <<5>>), else)>>, <<9>>, 9) :
             inner \in Ifs(5, 3, 4, 1, 1, 2),
             else \in {b \in Branches(6, 2, 1) : b.outs = <<6>>}}
JustLoop == UNION {Looped(3, 1, 4, ops, next) : ops \in Makes(7, 4, 2), next \in {4, 7}}
Loop == {Function(<<op>>, <<3, 1>>, 7) : op \in JustLoop}
IfInLoop == {Function(<<op>>, <<3>>, 9) :
  op \in UNION {Looped(3, 1, 4, <<inner>>, 9) :
                  inner \in Ifs(9, 7, 8, 4, 4, 2) \cup Leaving(9, 7, 2, 4, 2)
                              \cup Leaving(9, 7, 4, 4, 2)}}
LoopInIf == {Function(<<If(<<9>>, Var(2), Block(<<>>, <<op>>, <<3>>), else)>>, <<9, 2>>, 9) :
               op \in JustLoop, else \in Branches(8, 2, 1)}
LoopInLoop == {Function(<<op>>, <<12>>, 14) :
  op \in UNION {Looped(12, 1, 8, <<inner>> \o ops, 11) :
                  inner \in UNION {Looped(3, 8, 4, Assigned, 7) :
                                     Assigned \in Makes(7, 4, 2)},
                  ops \in Makes(11, 3, 2)}}
\* Two states, the next values of which are made in the order of the states.
TwoStates(nexts) ==
  {Function(<<While(<<3, 4>>, <<Var(1), Var(2)>>,
                    Block(<<5, 6>>, <<Assign("IMM", 7, <<Var(5)>>)>>, <<7>>),
                    Block(<<8, 9>>, <<Assign("SUB", 10, <<Var(9), Var(8)>>),
                                      Assign("SUB", 11, <<Var(8), Imm(1)>>)>>, next))>>,
            <<4, 3>>, 11) : next \in nexts}
\* The body starts before its first state has a value.
LateState == {Function(<<While(<<3, 4>>, <<Uninit, Var(1)>>,
                               Block(<<5, 6>>, <<Assign("IMM", 7, <<Var(6)>>)>>, <<7>>),
                               Block(<<8, 9>>, <<Assign("IMM", 10, <<Imm(2)>>),
                                                 Assign("SUB", 11, <<Var(9), Imm(1)>>)>>,
                                     <<10, 11>>))>>, <<4>>, 11)}

Ssa ==
  JustIf \cup IfInIf \cup Loop \cup IfInLoop \cup LoopInIf \cup LoopInLoop
    \cup TwoStates({<<11, 10>>}) \cup LateState

(***************************************************************************)
(* CIR, in which 3 and 4 are variables that are assigned more than once.     *)
(***************************************************************************)
Cir(ops, outs, k) == [root |-> Block(<<1, 2>>, ops, outs), n |-> k, cir |-> TRUE, ifEval |-> FALSE]
\* Assignments to v, from x and y.
Sets(v, x, y) == {
  <<Assign("SUB", v, <<Var(x), Var(y)>>)>>,
  <<Assign("IMM", v, <<Imm(1)>>), Do("STORE", <<Var(v)>>), Assign("SUB", v, <<Var(v), Var(x)>>)>>,
  <<Do("STORE", <<Var(y)>>), Assign("IMM", v, <<Var(y)>>)>>}
CirIf(c, then, else) == If(<<>>, Var(c), Block(<<>>, then, <<>>), Block(<<>>, else, <<>>))
CirIfs(v, c, x, y) == {CirIf(c, then, else) : then \in Sets(v, x, y), else \in Sets(v, y, x)}
CirWhile(c, t, ops) == While(<<>>, <<>>, Block(<<>>, <<Assign("IMM", t, <<Var(c)>>)>>, <<t>>), Block(<<>>, ops, <<>>))

Straight == {Cir(a \o b \o <<Do("STORE", <<Var(3)>>)>> \o c, <<3, 4>>, 4) :
               a \in Sets(3, 1, 2), b \in Sets(4, 3, 2), c \in Sets(3, 4, 1)}
Cases == {Cir(a \o <<op>> \o b, <<3, 4>>, 4) :
            a \in Sets(3, 1, 2), op \in CirIfs(3, 2, 1, 2), b \in Sets(4, 3, 1)}
Counted == {Cir(a \o <<CirWhile(3, 5, b)>> \o c, <<3, 4>>, 5) :
              a \in Sets(3, 1, 2), c \in Sets(4, 3, 1),
              b \in {<<Do("STORE", <<Var(3)>>), Assign("SUB", 3, <<Var(3), Imm(1)>>)>>,
                     <<Assign("SUB", 3, <<Var(3), Imm(1)>>), Do("STORE", <<Var(3)>>),
                       Assign("SUB", 3, <<Var(3), Imm(1)>>)>>}}
CLoop == {Cir(a \o <<CFor(Block(<<>>, <<Assign("IMM", 3, <<Var(2)>>)>>, <<>>),
                         Block(<<>>, <<Assign("IMM", 5, <<Var(3)>>)>>, <<5>>),
                         Block(<<>>, <<Assign("SUB", 3, <<Var(3), Imm(1)>>)>>, <<>>),
                         Block(<<>>, b, <<>>))>>, <<4, 3>>, 6) :
            a \in Sets(4, 1, 2),
            b \in {<<Assign("ADD", 4, <<Var(4), Var(3)>>)>>, <<Do("STORE", <<Var(3)>>)>>,
                   <<CFor(Block(<<>>, <<Assign("IMM", 6, <<Var(3)>>)>>, <<>>),
                          Block(<<>>, <<Assign("IMM", 5, <<Var(6)>>)>>, <<5>>),
                          Block(<<>>, <<Assign("SUB", 6, <<Var(6), Imm(1)>>)>>, <<>>),
                          Block(<<>>, <<Assign("ADD", 4, <<Var(4), Var(1)>>)>>, <<>>))>>}}
InCir == Straight \cup Cases \cup Counted \cup CLoop

(***************************************************************************)
(* With if_eval: conditions that are known.                                  *)
(***************************************************************************)
Known(fs) == {[f EXCEPT !.ifEval = TRUE,
                        !.root.ops = <<Assign("IMM", f.n + 1, <<Imm(k)>>),
                                       Assign("IMM", f.n + 2, <<Var(f.n + 1)>>)>> \o
                          Each(@, LAMBDA op : IF op.id = "IF" THEN [op EXCEPT !.params[1] = Var(f.n + 2)]
                                              ELSE op),
                        !.n = @ + 2] : f \in fs, k \in 0..1}

MCFunctions == Ssa \cup InCir \cup Known(JustIf \cup LoopInIf \cup Loop)

\* The next first state is the second one, as in the Fibonacci numbers.
MCShifted == TwoStates({<<9, 10>>})

MCEnvs == {[v \in 1..MaxVars |-> IF v = 1 THEN p[1] ELSE IF v = 2 THEN p[2] ELSE 2] :
             p \in {<<0, 1>>, <<1, 0>>, <<2, 1>>, <<2, 2>>}}

================================================================================
