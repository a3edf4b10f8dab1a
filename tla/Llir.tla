--------------------------------- MODULE Llir ---------------------------------
(***************************************************************************)
(* The flat intermediate representation (LLIR) between lowering and code    *)
(* generation: a root block is one sequence of operations, with labels and  *)
(* jumps (src/ir/ir.h, src/ir/ops.cdef).  Run says what a block does; every *)
(* pass over it must leave that unchanged.                                  *)
(*                                                                          *)
(* Of the operations, those the passes treat alike are one: SUB stands for  *)
(* every pure operation whose operands may not be swapped, ADD for those    *)
(* whose may, STORE for everything with a side effect.                      *)
(***************************************************************************)
EXTENDS Integers, SequencesExt

CONSTANTS
  NumVars,      \* the variables of the block are 1..NumVars
  Labels,       \* label ids
  NoVar, NoLabel,
  Modulus       \* values are 0..Modulus-1

ASSUME LlirAssumption == Modulus \in Nat \ {0, 1}

Vars == 1..NumVars
Num == 0..Modulus - 1

Pure == {"IMM", "ADD", "SUB", "NOT", "CMOV"}
Jumps == {"GOTO", "COND"}
Ids == Pure \cup Jumps \cup {"STORE", "LABEL", "RETURN"}

Value == [kind : {"var"}, n : Vars] \cup [kind : {"imm"}, n : Num]
Var(v) == [kind |-> "var", n |-> v]
Imm(n) == [kind |-> "imm", n |-> n]

\* The operands of each operation.  CMOV: the condition, the value if it holds,
\* and until cmov_expand the value if it does not.
Tuples(n) == [1..n -> Value]

Op ==
  [id : {"IMM", "NOT"}, out : Vars, args : Tuples(1), label : {NoLabel}]
  \cup [id : {"ADD", "SUB"}, out : Vars, args : Tuples(2), label : {NoLabel}]
  \cup [id : {"CMOV"}, out : Vars, args : Tuples(2) \cup Tuples(3), label : {NoLabel}]
  \cup [id : {"STORE"}, out : {NoVar}, args : Tuples(1), label : {NoLabel}]
  \cup [id : {"RETURN"}, out : {NoVar}, args : Seq(Value), label : {NoLabel}]
  \cup [id : {"COND"}, out : {NoVar}, args : Tuples(1), label : Labels]
  \cup [id : {"GOTO", "LABEL"}, out : {NoVar}, args : Tuples(0), label : Labels]

Assign(id, out, args) == [id |-> id, out |-> out, args |-> args, label |-> NoLabel]
Do(id, args) == [id |-> id, out |-> NoVar, args |-> args, label |-> NoLabel]
Branch(id, args, label) == [id |-> id, out |-> NoVar, args |-> args, label |-> label]

EndsFlow(op) == op.id \in {"GOTO", "RETURN"}
HasEffect(op) == op.id # "LABEL"
HasSideEffect_NotReturn(op) == op.id \notin Pure \cup {"RETURN"}
HasSideEffect(op) == op.id \notin Pure

Reads(op, v) == Var(v) \in ToSet(op.args)
Writes(op, v) == op.out = v
VarUsed(prog, v) == \E i \in DOMAIN prog : Reads(prog[i], v)

LabelAt(prog, label) ==
  CHOOSE i \in DOMAIN prog : prog[i].id = "LABEL" /\ prog[i].label = label
Declared(prog, label) == \E i \in DOMAIN prog : prog[i].id = "LABEL" /\ prog[i].label = label

\* Blocks as lowering leaves them: every jump has its label, no label is
\* declared twice, and the last operation leaves the block.
JumpsHaveLabels(prog) ==
  \A i \in DOMAIN prog : prog[i].id \in Jumps => Declared(prog, prog[i].label)
LabelsUnique(prog) ==
  \A i, j \in DOMAIN prog :
    prog[i].id = "LABEL" /\ prog[j].id = "LABEL" /\ prog[i].label = prog[j].label => i = j
Leaves(prog) == prog # <<>> /\ EndsFlow(Last(prog))

WellFormed(prog) == JumpsHaveLabels(prog) /\ LabelsUnique(prog) /\ Leaves(prog)

(***************************************************************************)
(* What a block does: the values it stores, in order, and the values it     *)
(* returns, from given values of its variables.                             *)
(***************************************************************************)
Eval(env, val) == IF val.kind = "var" THEN env[val.n] ELSE val.n

Result(env, op) ==
  LET a(i) == Eval(env, op.args[i]) IN
  CASE op.id = "IMM" -> a(1)
    [] op.id = "ADD" -> (a(1) + a(2)) % Modulus
    [] op.id = "SUB" -> (a(1) - a(2)) % Modulus
    [] op.id = "NOT" -> IF a(1) = 0 THEN 1 ELSE 0
    [] op.id = "CMOV" -> IF a(1) # 0 THEN a(2)
                         ELSE IF Len(op.args) = 3 THEN a(3) ELSE env[op.out]

ExecStep(prog, s) ==
  LET op == prog[s.pc]
      next == [s EXCEPT !.pc = @ + 1] IN
  CASE s.done -> s
    [] ~s.done /\ op.id \in Pure -> [next EXCEPT !.env[op.out] = Result(s.env, op)]
    [] ~s.done /\ op.id = "STORE" -> [next EXCEPT !.trace = Append(@, Eval(s.env, op.args[1]))]
    [] ~s.done /\ op.id = "LABEL" -> next
    [] ~s.done /\ op.id = "GOTO" -> [s EXCEPT !.pc = LabelAt(prog, op.label)]
    [] ~s.done /\ op.id = "COND" -> IF Eval(s.env, op.args[1]) # 0
                                    THEN [s EXCEPT !.pc = LabelAt(prog, op.label)] ELSE next
    [] ~s.done /\ op.id = "RETURN" ->
         [s EXCEPT !.done = TRUE,
                   !.trace = @ \o [i \in DOMAIN op.args |-> Eval(s.env, op.args[i])]]

Start(env) == [pc |-> 1, env |-> env, trace |-> <<>>, done |-> FALSE]

\* What can be seen of a state: the trace, and whether the block has returned.
Seen(s) == [trace |-> s.trace, done |-> s.done]

\* What a block has done after n operations.
Run(prog, env, n) ==
  LET run[i \in 0..n] == IF i = 0 THEN Start(env) ELSE ExecStep(prog, run[i - 1])
  IN Seen(run[n])

\* The state after n operations, and all that was seen on the way there.
Execution(prog, env, n) ==
  LET run[i \in 0..n] ==
        IF i = 0 THEN [state |-> Start(env), seen |-> {Seen(Start(env))}]
        ELSE LET before == run[i - 1]
                 s == ExecStep(prog, before.state)
             IN [state |-> s, seen |-> before.seen \cup {Seen(s)}]
  IN run[n]

Observations(prog, env, n) == Execution(prog, env, n).seen

\* new does what old does, no less and no more: all that is seen of one in so
\* many steps is seen of the other, which may take more of them.
SameBehaviour(old, new, envs, steps, more) ==
  \A env \in envs, n \in steps : \E m \in more :
    /\ Observations(old, env, n) \subseteq Observations(new, env, m)
    /\ Observations(new, env, n) \subseteq Observations(old, env, m)

================================================================================
