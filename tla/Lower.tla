-------------------------------- MODULE Lower --------------------------------
(***************************************************************************)
(* From nested blocks to a flat one: loops become infinite loops with a      *)
(* conditional break, ifs get the shape that needs fewest jumps, and then    *)
(* every if and loop becomes labels and jumps.                               *)
(***************************************************************************)
EXTENDS Ssair

CONSTANTS
  MaxVars,      \* bound: no function needs more variables than this on the way
  MaxLabels,    \* bound: nor more labels
  NoVar, NoLabel

\* The flat block, and the passes over it.
Ll == INSTANCE LlPasses WITH NumVars <- MaxVars, Labels <- 1..MaxLabels

(***************************************************************************)
(* The passes before it.                                                    *)
(***************************************************************************)
\* Variants with a plausible bug, which the properties tell from the code.
WhileToInfinite_InputsKept(op, n) ==
  LET cond == op.blocks["cond"]
      body == op.blocks["do"]
      copies == [i \in DOMAIN cond.ins |-> Assign("IMM", cond.ins[i], <<Var(body.ins[i])>>)]
      results == [i \in DOMAIN body.outs |-> n + i]
      exit == Block(<<>>, <<Leave("BREAK", VarsOf(body.ins))>>, body.ins) IN
  [op |-> Infinite(op.outs, op.args,
                   Block(body.ins, Append(copies \o cond.ops,
                                          If(results, Var(cond.outs[1]), body, exit)), results)),
   n |-> n + Len(body.outs)]

\* while (cond) body  =>  for (;;) { cond; if (!cond) break; body }: the states
\* are the inputs of the new body, copied to those of the condition.
WhileToInfinite(op, n) ==
  LET cond == op.blocks["cond"]
      body == op.blocks["do"]
      copies == [i \in DOMAIN cond.ins |-> Assign("IMM", cond.ins[i], <<Var(body.ins[i])>>)]
      results == [i \in DOMAIN body.outs |-> n + i]
      exit == Block(<<>>, <<Leave("BREAK", VarsOf(body.ins))>>, body.ins)
      branch == If(results, Var(cond.outs[1]), [body EXCEPT !.ins = <<>>], exit) IN
  [op |-> Infinite(op.outs, op.args,
                   Block(body.ins, Append(copies \o cond.ops, branch), results)),
   n |-> n + Len(body.outs)]

RECURSIVE PreLowerLoops(_, _)
PreLowerLoops(block, n) ==
  OnOps(block, n, LAMBDA op, k :
    LET r == OnBlocks(op, k, PreLowerLoops)
        w == IF op.id = "WHILE" THEN WhileToInfinite(r.op, r.n) ELSE r IN
    [ops |-> <<w.op>>, n |-> w.n])

Inverted_Uncounted(op, v, n) ==
  [ops |-> <<Assign("NOT", n + 1, <<v>>), [op EXCEPT !.params[1] = Var(n + 1)]>>, n |-> n]

\* The operation NOT of v, in front of op, which then tests its result n + 1.
Inverted(op, v, n) ==
  [ops |-> <<Assign("NOT", n + 1, <<v>>), [op EXCEPT !.params[1] = Var(n + 1)]>>, n |-> n + 1]

\* An if whose else case is only a break or continue has its cases swapped.  The
\* condition is taken for a variable whatever it is: an immediate n is read as the
\* variable of that number, of which the first is 0.
CondVar(val) == IF val.kind = "var" THEN val ELSE Var(val.n + 1)
SwapsCases(op) ==
  /\ op.id = "IF"
  /\ Len(op.blocks["else"].ops) = 1
  /\ op.blocks["else"].ops[1].id \in {"BREAK", "CONTINUE"}
SwappedCases(op) ==
  [op EXCEPT !.blocks = "then" :> op.blocks["else"] @@ "else" :> op.blocks["then"]]

IfSwapCases(block, n) ==
  OnOps(block, n, LAMBDA op, k :
    IF SwapsCases(op) THEN Inverted(SwappedCases(op), CondVar(op.params[1]), k)
    ELSE [ops |-> <<op>>, n |-> k])

\* An if with only a then case gets only an else case.
OnlyThen(op) == op.id = "IF" /\ DOMAIN op.blocks = {"then"}
MovedToElse(op) == [op EXCEPT !.blocks = "else" :> op.blocks["then"]]

IfInvert(block, n) ==
  OnOps(block, n, LAMBDA op, k :
    IF OnlyThen(op) THEN Inverted(MovedToElse(op), op.params[1], k)
    ELSE [ops |-> <<op>>, n |-> k])

(***************************************************************************)
(* lower_into.  f is what has been built so far: [ops, outs, labels], with   *)
(* the outputs of the function and the number of labels made; loop is the    *)
(* loop around: its two labels and its operation.                            *)
(***************************************************************************)
Flat(op) ==
  CASE op.id \in Pure -> Ll!Assign(op.id, op.outs[1], op.params)
    [] op.id = "STORE" -> Ll!Do("STORE", op.params)
    [] op.id = "CALL" -> Ll!Do("STORE", op.args)
    [] op.id = "RETURN" -> Ll!Do("RETURN", op.args)

Emit(f, op) == [f EXCEPT !.ops = Append(@, op)]
Moves(f, vs, vals, n) ==
  [f EXCEPT !.ops = @ \o [i \in 1..n |-> Ll!Assign("IMM", vs[i], <<vals[i]>>)]]
Goto(f, label) == Emit(f, Ll!Branch("GOTO", <<>>, label))
NewLabel_Reused(f) == [f EXCEPT !.labels = IF @ = 0 THEN 1 ELSE @]

NewLabel(f) == [f EXCEPT !.labels = @ + 1]
LabelOp(f, label) == Emit(f, Ll!Branch("LABEL", <<>>, label))
AppendLabelOp(f) == LabelOp(NewLabel(f), f.labels + 1)
\* The jump at place i, whose label was not known yet, gets the newest one.
Aim(f, i) == [f EXCEPT !.ops[i].label = f.labels]
RenameFlat(f, old, new) ==
  [f EXCEPT !.ops = Each(@, LAMBDA op : [op EXCEPT !.out = Renamed(@, old, new),
                                           !.args = Each(@, LAMBDA val : RenamedVal(val, old, new))]),
            !.outs = Each(@, LAMBDA v : Renamed(v, old, new))]

\* Whether output v of a branch has to be copied to the output of the if, or the
\* operation that makes it can make that instead.  A label with the number of v
\* has overwritten the record of where v is declared (vx_IrBlock_newLabel).
DeclAt(ops, v) == SelectInSeq(ops, LAMBDA op : Declares(op, v))
UsedLater(ops, v) ==
  \E i \in DeclAt(ops, v) + 1..Len(ops) :
    Var(v) \in ToSet(ops[i].params) \/ \E b \in BlocksOf(ops[i]) : VarUsed(b, v)
MustCopy_OnlyIfReadLater(f, src, v) == DeclAt(src.ops, v) # 0 /\ UsedLater(src.ops, v)

MustCopy(f, src, v) == v <= f.labels \/ DeclAt(src.ops, v) = 0 \/ UsedLater(src.ops, v)

Redeclared(op, old, new) ==
  LET i == SelectInSeq(op.outs, LAMBDA v : v = old) IN
  IF i = 0 THEN op ELSE [op EXCEPT !.outs[i] = new]
\* The outputs that are not copied are made under the name of the if's output.
Direct(f, src, outs) ==
  FoldLeft(LAMBDA b, i : IF MustCopy(f, b, src.outs[i]) THEN b
                         ELSE [b EXCEPT !.ops[DeclAt(src.ops, src.outs[i])] =
                                 Redeclared(@, src.outs[i], outs[i])],
           src, [i \in DOMAIN outs |-> i])
Copied(f, src, outs) == SelectSeq([i \in DOMAIN outs |-> i], LAMBDA i : MustCopy(f, src, src.outs[i]))

Initialised(val) == IF val = Uninit THEN Imm(69 % Modulus) ELSE val

RECURSIVE LowerInto(_, _, _)
Into(f, src, outs, loop) ==
  LET copied == Copied(f, src, outs)
      g == LowerInto(f, Direct(f, src, outs), loop) IN
  Moves(g, [i \in DOMAIN copied |-> outs[copied[i]]],
        [i \in DOMAIN copied |-> Var(src.outs[copied[i]])], Len(copied))

\*   cond .then COND / ELSE / goto .end / .then: THEN / .end:
LowerIfBoth(f, op, loop) ==
  LET at == Len(f.ops) + 1
      else == Into(Emit(f, Ll!Branch("COND", op.params, NoLabel)), op.blocks["else"], op.outs, loop)
      end == Len(else.ops) + 1
      labelled == AppendLabelOp(Emit(else, Ll!Branch("GOTO", <<>>, NoLabel)))
      then == Into(Aim(labelled, at), op.blocks["then"], op.outs, loop) IN
  Aim(AppendLabelOp(then), end)

LowerIfElse(f, op, loop) ==
  LET at == Len(f.ops) + 1
      else == Into(Emit(f, Ll!Branch("COND", op.params, NoLabel)), op.blocks["else"], op.outs, loop) IN
  Aim(AppendLabelOp(else), at)

LowerIf(f, op, loop) ==
  CASE DOMAIN op.blocks = {} -> f
    [] DOMAIN op.blocks = {"then", "else"} -> LowerIfBoth(f, op, loop)
    [] DOMAIN op.blocks = {"else"} -> LowerIfElse(f, op, loop)

\* The states live in the outputs of the loop.
LowerInfinite(f, op) ==
  LET n == Len(op.outs)
      body == FoldLeft(LAMBDA b, i : RenameBoth(b, b.ins[i], op.outs[i]),
                       op.blocks["do"], [i \in 1..n |-> i])
      start == AppendLabelOp(Moves(f, op.outs, op.args, n))
      continue == start.labels
      break == continue + 1
      inner == LowerInto(NewLabel(start), body,
                         [continue |-> continue, break |-> break, outs |-> op.outs])
      renamed == FoldLeft(LAMBDA g, i : RenameFlat(g, body.outs[i], op.outs[i]),
                          inner, [i \in 1..n |-> i]) IN
  LabelOp(Goto(renamed, continue), break)

\* As many states are set as the block around, not the loop, has outputs.
StatesSet(block, loop) == Len(block.outs)
LowerLeave(f, block, op, loop) ==
  Goto(Moves(f, loop.outs, op.args, StatesSet(block, loop)),
       IF op.id = "CONTINUE" THEN loop.continue ELSE loop.break)

LowerOp(f, block, uninitOp, loop) ==
  LET op == [uninitOp EXCEPT !.params = Each(@, Initialised), !.args = Each(@, Initialised)] IN
  CASE op.id = "IF" -> LowerIf(f, op, loop)
    [] op.id = "INFINITE" -> LowerInfinite(f, op)
    [] op.id \in {"CONTINUE", "BREAK"} -> LowerLeave(f, block, op, loop)
    [] OTHER -> Emit(f, Flat(op))

LowerInto(f, block, loop) ==
  FoldLeft(LAMBDA g, op : LowerOp(g, block, op, loop), f, block.ops)

LlirLower(root) ==
  LET start == [ops |-> <<>>, outs |-> root.outs, labels |-> 0]
      f == LowerInto(start, root, [continue |-> NoLabel, break |-> NoLabel, outs |-> <<>>]) IN
  Emit(f, Ll!Do("RETURN", VarsOf(f.outs))).ops

(***************************************************************************)
(* llir_fix_decl: which operation declares each variable and label.          *)
(***************************************************************************)
FixDecl_FirstMention(prog) ==
  [vars |-> [v \in 1..MaxVars |-> SelectInSeq(prog, LAMBDA op : op.out = v)],
   labels |-> [l \in 1..MaxLabels |-> SelectInSeq(prog, LAMBDA op : op.label = l)]]

FixDecl(prog) ==
  [vars |-> [v \in 1..MaxVars |-> SelectInSeq(prog, LAMBDA op : op.out = v)],
   labels |-> [l \in 1..MaxLabels |->
                 SelectInSeq(prog, LAMBDA op : op.id = "LABEL" /\ op.label = l)]]

================================================================================
