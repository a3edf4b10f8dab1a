-------------------------------- MODULE Ssair --------------------------------
(***************************************************************************)
(* The nested intermediate representation, in which the frontend writes a  *)
(* function (CIR) and which the optimiser works on once it is in SSA form:  *)
(* a block has inputs, operations and outputs, and conditionals and loops   *)
(* are operations that hold blocks (src/ir/ir.h, src/ir/ops.cdef).  Outcome *)
(* says what a function does; construction, optimisation and lowering must  *)
(* leave that unchanged.                                                    *)
(*                                                                          *)
(* SUB stands for every pure operation of two operands whose order matters, *)
(* ADD for those whose does not.  Memory is one cell: STORE writes it,      *)
(* LOAD reads it.  CALL has its operands in args, the others in params.     *)
(***************************************************************************)
EXTENDS Integers, SequencesExt, TLC

CONSTANT Modulus      \* values are 0..Modulus-1

Var(v) == [kind |-> "var", n |-> v]
Imm(n) == [kind |-> "imm", n |-> n]
Uninit == [kind |-> "uninit", n |-> 0]

\* F of every element, of every block.  (A function TLC were left to evaluate later,
\* and FlattenSeq inside of FlattenSeq, come out wrong: hence \o, @@ and Concat.)
Each(seq, F(_)) == <<>> \o [i \in DOMAIN seq |-> F(seq[i])]
EachBlock(blocks, F(_)) == [name \in DOMAIN blocks |-> F(blocks[name])] @@ <<>>
Concat(seqs) == FoldLeft(LAMBDA acc, seq : acc \o seq, <<>>, seqs)
VarsOf(vs) == Each(vs, Var)

NoBlocks == <<>>        \* from names to blocks
Block(ins, ops, outs) == [ins |-> ins, ops |-> ops, outs |-> outs]
Op(id, outs, params, args, blocks) ==
  [id |-> id, outs |-> outs, params |-> params, args |-> args, blocks |-> blocks]
Assign(id, v, params) == Op(id, <<v>>, params, <<>>, NoBlocks)
Do(id, params) == Op(id, <<>>, params, <<>>, NoBlocks)
Leave(id, args) == Op(id, <<>>, <<>>, args, NoBlocks)    \* RETURN, BREAK, CONTINUE, CALL
If(outs, cond, then, else) == Op("IF", outs, <<cond>>, <<>>, "then" :> then @@ "else" :> else)
While(outs, args, cond, do) == Op("WHILE", outs, <<>>, args, "cond" :> cond @@ "do" :> do)
Infinite(outs, args, do) == Op("INFINITE", outs, <<>>, args, "do" :> do)
CFor(start, cond, end, do) ==
  Op("CFOR", <<>>, <<>>, <<>>, "start" :> start @@ "cond" :> cond @@ "end" :> end @@ "do" :> do)

Pure == {"IMM", "ADD", "SUB", "NOT", "CMOV", "LOAD"}
Loops == {"WHILE", "INFINITE"}

\* The order of the blocks among the parameters of an operation.
BlockNames == <<"start", "cond", "end", "do", "then", "else">>

(***************************************************************************)
(* What the analyses of src/ir/analysis.c compute.                          *)
(***************************************************************************)
Inputs(op) == ToSet(op.params) \cup ToSet(op.args)
BlocksOf(op) == {op.blocks[name] : name \in DOMAIN op.blocks}
Names(op) == SelectSeq(BlockNames, LAMBDA name : name \in DOMAIN op.blocks)
BlockSeq(op) == Each(Names(op), LAMBDA name : op.blocks[name])

\* A block reads v if it returns it or if an operation in it, however deep, does.
RECURSIVE VarUsed(_, _)
OpUsesVar(op, v) == Var(v) \in Inputs(op) \/ \E b \in BlocksOf(op) : VarUsed(b, v)
VarUsed(block, v) ==
  v \in ToSet(block.outs) \/ \E i \in DOMAIN block.ops : OpUsesVar(block.ops[i], v)

Declares(op, v) == v \in ToSet(op.outs)
VarDeclNoRec(ops, v) == \E i \in DOMAIN ops : Declares(ops[i], v)
RECURSIVE VarDeclRec(_, _)
VarDeclRec(ops, v) ==
  \E i \in DOMAIN ops : Declares(ops[i], v) \/ \E b \in BlocksOf(ops[i]) : VarDeclRec(b.ops, v)

RECURSIVE EndsFlow(_)
BlockEndsFlow(block) == \E i \in DOMAIN block.ops : EndsFlow(block.ops[i])
EndsFlow(op) ==
  \/ op.id = "IF" /\ BlockEndsFlow(op.blocks["then"]) /\ BlockEndsFlow(op.blocks["else"])
  \/ op.id \in {"RETURN", "BREAK", "CONTINUE", "INFINITE"}

RECURSIVE HasSideEffect(_)
BlockHasSideEffect(block) == \E i \in DOMAIN block.ops : HasSideEffect(block.ops[i])
HasSideEffect(op) ==
  \/ op.id \in {"STORE", "CALL", "RETURN", "BREAK", "CONTINUE"}
  \/ \E b \in BlocksOf(op) : BlockHasSideEffect(b)

\* Every name of old in the operations, declarations and uses, at any depth;
\* inputs and outputs of the outermost block only if asked.
Renamed(v, old, new) == IF v = old THEN new ELSE v
RenamedVal(val, old, new) == IF val = Var(old) THEN Var(new) ELSE val
RECURSIVE RenameOps(_, _, _)
RenameVar(block, inputs, outputs, old, new) ==
  [ins |-> IF inputs THEN Each(block.ins, LAMBDA v : Renamed(v, old, new)) ELSE block.ins,
   ops |-> RenameOps(block.ops, old, new),
   outs |-> IF outputs THEN Each(block.outs, LAMBDA v : Renamed(v, old, new)) ELSE block.outs]
RenameBoth(block, old, new) == RenameVar(block, TRUE, TRUE, old, new)
RenameOps(ops, old, new) ==
  Each(ops, LAMBDA op : [op EXCEPT
    !.outs = Each(@, LAMBDA v : Renamed(v, old, new)),
    !.params = Each(@, LAMBDA val : RenamedVal(val, old, new)),
    !.args = Each(@, LAMBDA val : RenamedVal(val, old, new)),
    !.blocks = EachBlock(@, LAMBDA b : RenameBoth(b, old, new))])

(***************************************************************************)
(* Passes over nested blocks.  A pass that makes variables takes the number  *)
(* of those there are and gives it back with the block: [block, n].          *)
(***************************************************************************)
\* pass on the blocks of op, in the order of its parameters, then on op.
OnBlocks(op, n, pass(_, _)) ==
  FoldLeft(LAMBDA acc, name :
             LET r == pass(acc.op.blocks[name], acc.n) IN
             [op |-> [acc.op EXCEPT !.blocks[name] = r.block], n |-> r.n],
           [op |-> op, n |-> n], Names(op))

\* visit(op, n) gives the operations op becomes: [ops, n].
OnOps(block, n, visit(_, _)) ==
  LET r == FoldLeft(LAMBDA acc, op : LET v == visit(op, acc.n) IN
                                     [ops |-> acc.ops \o v.ops, n |-> v.n],
                    [ops |-> <<>>, n |-> n], block.ops) IN
  [block |-> [block EXCEPT !.ops = r.ops], n |-> r.n]

\* A block in root: the places and names of the blocks that lead to it.
Step(i, name) == [op |-> i, name |-> name]
BlockAt(root, path) == FoldLeft(LAMBDA b, step : b.ops[step.op].blocks[step.name], root, path)
RECURSIVE PutBlock(_, _, _)
PutBlock(root, path, block) ==
  IF path = <<>> THEN block
  ELSE [root EXCEPT !.ops[Head(path).op].blocks[Head(path).name] = PutBlock(@, Tail(path), block)]

\* The blocks in block, itself last: those inside an operation before it.
RECURSIVE InsideOut(_, _)
InsideOut(block, path) ==
  Append(Concat([i \in DOMAIN block.ops |->
           Concat([k \in DOMAIN Names(block.ops[i]) |->
             LET name == Names(block.ops[i])[k] IN
             InsideOut(block.ops[i].blocks[name], Append(path, Step(i, name)))])]), path)

(***************************************************************************)
(* What a function does.  An operation run in s gives the state after it:   *)
(* ctl is "run", or how the block is being left, with the values passed on  *)
(* in vals; "out" when the fuel of loop iterations is used up.              *)
(***************************************************************************)
Eval(env, val) == IF val.kind = "var" THEN env[val.n] ELSE val.n
Values(env, vals) == Each(vals, LAMBDA val : Eval(env, val))
Bind(env, vs, vals) == [v \in ToSet(vs) |-> vals[CHOOSE i \in DOMAIN vs : vs[i] = v]] @@ env

Result(s, op) ==
  LET a(i) == Eval(s.env, op.params[i]) IN
  CASE op.id = "IMM" -> a(1)
    [] op.id = "ADD" -> (a(1) + a(2)) % Modulus
    [] op.id = "SUB" -> (a(1) - a(2)) % Modulus
    [] op.id = "NOT" -> IF a(1) = 0 THEN 1 ELSE 0
    [] op.id = "CMOV" -> IF a(1) # 0 THEN a(2) ELSE a(3)
    [] op.id = "LOAD" -> s.cell

RECURSIVE Exec(_, _)
ExecOps(ops, s) == FoldLeft(LAMBDA t, op : IF t.ctl = "run" THEN Exec(op, t) ELSE t, s, ops)

\* The block from the values of its inputs; in vals, those of its outputs.
AtEnd(block, s) ==
  IF s.ctl = "run" THEN [s EXCEPT !.vals = Values(s.env, VarsOf(block.outs))] ELSE s
Enter(block, s, vals) ==
  AtEnd(block, ExecOps(block.ops, [s EXCEPT !.env = Bind(@, block.ins, vals)]))

\* The operation ends with these outputs.
Deliver(op, s, vals) == [s EXCEPT !.ctl = "run", !.env = Bind(@, op.outs, vals)]

\* One more iteration, or none, in the state a block of the loop has left.
RECURSIVE Iterate(_, _, _)
AfterBody(op, s) ==
  CASE s.ctl \in {"run", "continue"} -> Iterate(op, [s EXCEPT !.ctl = "run"], s.vals)
    [] s.ctl = "break" -> Deliver(op, s, s.vals)
    [] OTHER -> s
Body(op, s, states) == AfterBody(op, Enter(op.blocks["do"], [s EXCEPT !.fuel = @ - 1], states))
AfterCond(op, s, states) ==
  IF s.vals[1] = 0 THEN Deliver(op, s, states) ELSE Body(op, s, states)
Iterate(op, s, states) ==
  IF s.fuel = 0 THEN [s EXCEPT !.ctl = "out"]
  ELSE IF op.id = "WHILE" THEN AfterCond(op, Enter(op.blocks["cond"], s, states), states)
  ELSE Body(op, s, states)

\* A loop as in C, on variables that are assigned more than once.
RECURSIVE IterateCFor(_, _)
AfterCForBody(op, s) ==
  IF s.ctl = "run" THEN IterateCFor(op, Enter(op.blocks["end"], s, <<>>)) ELSE s
AfterCForCond(op, s) ==
  IF s.vals[1] = 0 THEN s
  ELSE AfterCForBody(op, Enter(op.blocks["do"], [s EXCEPT !.fuel = @ - 1], <<>>))
IterateCFor(op, s) ==
  IF s.fuel = 0 THEN [s EXCEPT !.ctl = "out"]
  ELSE AfterCForCond(op, Enter(op.blocks["cond"], s, <<>>))

AfterCase(op, s) == IF s.ctl = "run" THEN Deliver(op, s, s.vals) ELSE s
EnterCase(op, s, branch) ==
  IF branch \in DOMAIN op.blocks THEN Enter(op.blocks[branch], s, <<>>) ELSE s

Exec(op, s) ==
  CASE op.id \in Pure -> Deliver(op, s, <<Result(s, op)>>)
    [] op.id = "STORE" -> LET n == Eval(s.env, op.params[1]) IN
                          [s EXCEPT !.cell = n, !.trace = Append(@, n)]
    [] op.id = "CALL" -> [s EXCEPT !.trace = @ \o Values(s.env, op.args)]
    [] op.id \in {"RETURN", "BREAK", "CONTINUE"} ->
         [s EXCEPT !.vals = Values(s.env, op.args),
                   !.ctl = CASE op.id = "RETURN" -> "return"
                             [] op.id = "BREAK" -> "break"
                             [] op.id = "CONTINUE" -> "continue"]
    [] op.id = "IF" ->
         AfterCase(op, EnterCase(op, s, IF Eval(s.env, op.params[1]) # 0 THEN "then" ELSE "else"))
    [] op.id \in Loops -> Iterate(op, s, Values(s.env, op.args))
    [] op.id = "CFOR" -> IterateCFor(op, Enter(op.blocks["start"], s, <<>>))

\* What the function stored, called with and returned, and whether it ended.
Outcome(root, env, fuel) ==
  LET s == [env |-> env, cell |-> 0, trace |-> <<>>, vals |-> <<>>, ctl |-> "run", fuel |-> fuel]
      t == Enter(root, s, Values(env, VarsOf(root.ins))) IN
  IF t.ctl = "out" THEN [trace |-> t.trace, done |-> FALSE]
  ELSE [trace |-> t.trace \o t.vals, done |-> TRUE]

Follows(a, b) == IF a.done THEN b = a ELSE IsPrefix(a.trace, b.trace)

================================================================================
