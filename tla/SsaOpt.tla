-------------------------------- MODULE SsaOpt --------------------------------
(***************************************************************************)
(* The passes of vx_opt over the blocks of a function in SSA form, with      *)
(* ifs, loops and what leaves them.  What they do to comparisons, addresses   *)
(* and machine words is in Words.                                            *)
(*                                                                          *)
(* f is [root, n]: the function and the number of its variables.  A pass      *)
(* works on the block at path in the root.                                   *)
(***************************************************************************)
EXTENDS Ssair

InBlock(f, path, F(_)) == [f EXCEPT !.root = PutBlock(@, path, F(BlockAt(@, path)))]

\* The operation that declares v (vars[v].decl), as the set of it, or of none.
RECURSIVE DeclsIn(_, _)
DeclsIn(ops, v) ==
  UNION {IF Declares(ops[i], v) THEN {ops[i]}
         ELSE UNION {DeclsIn(b.ops, v) : b \in BlocksOf(ops[i])} : i \in DOMAIN ops}

\* vx_IrBlock_eval_var and vx_Irblock_eval: what IMMs make of the value; it is
\* taken only if that is not a variable.
RECURSIVE ImmValue(_, _)
ImmValue(root, val) ==
  LET imms == {op \in DeclsIn(root.ops, val.n) : op.id = "IMM"} IN
  IF val.kind # "var" \/ imms = {} THEN val
  ELSE ImmValue(root, (CHOOSE op \in imms : TRUE).params[1])
Evaluated(root, val) ==
  LET result == ImmValue(root, val) IN IF result.kind = "var" THEN val ELSE result

(***************************************************************************)
(* vx_opt_inline_vars: at every IMM in the block, however deep, its output   *)
(* is replaced by its value in the whole block; not in what RETURN returns,   *)
(* and in the outputs of blocks that have operations only by a variable.      *)
(***************************************************************************)
RECURSIVE Substituted(_, _, _)
Substituted(block, v, new) ==
  LET in(val) == IF val = Var(v) THEN new ELSE val IN
  IF block.ops = <<>> THEN block ELSE
  [block EXCEPT
    !.outs = Each(@, LAMBDA w : IF w = v /\ new.kind = "var" THEN new.n ELSE w),
    !.ops = Each(@, LAMBDA op :
      [op EXCEPT !.params = IF op.id = "RETURN" THEN @ ELSE Each(@, in),
                 !.args = IF op.id = "RETURN" THEN @ ELSE Each(@, in),
                 !.blocks = EachBlock(@, LAMBDA b : Substituted(b, v, new))])]

\* In the order of vx_IrBlock_deepTraverse: what is inside an operation first.
RECURSIVE InlineFrom(_, _)
InlineFrom(block, path) ==
  LET inside(b, i) ==
        FoldLeft(LAMBDA c, name : InlineFrom(c, Append(path, Step(i, name))),
                 b, Names(BlockAt(b, path).ops[i]))
      visit(b, i) ==
        LET op == BlockAt(b, path).ops[i] IN
        IF op.id = "IMM" THEN Substituted(b, op.outs[1], op.params[1]) ELSE b IN
  FoldLeft(LAMBDA b, i : visit(inside(b, i), i), block, [i \in DOMAIN BlockAt(block, path).ops |-> i])
InlineVars(block) == InlineFrom(block, <<>>)

(***************************************************************************)
(* vx_opt_vars: operations of the block without side effect whose outputs     *)
(* nothing in the function reads, and copies of a variable to itself.         *)
(***************************************************************************)
Unused(f, path, op) ==
  /\ ~HasSideEffect(op)
  /\ \/ op.id = "IMM" /\ op.params[1] = Var(op.outs[1])
     \/ \A v \in ToSet(op.outs) : ~VarUsed(f.root, v)

RECURSIVE RemoveUnused(_, _, _)
RemoveUnused(f, path, i) ==
  LET ops == BlockAt(f.root, path).ops IN
  IF i > Len(ops) THEN f
  ELSE IF Unused(f, path, ops[i])
  THEN RemoveUnused(InBlock(f, path, LAMBDA b : [b EXCEPT !.ops = RemoveAt(@, i)]), path, i)
  ELSE RemoveUnused(f, path, i + 1)

(***************************************************************************)
(* vx_opt_constant_eval, for the operations that are not left to Words.       *)
(***************************************************************************)
Fold(op) ==
  LET n(k) == op.params[k].n IN
  IF op.id \notin {"ADD", "SUB", "NOT"} \/ \E k \in DOMAIN op.params : op.params[k].kind # "imm" THEN op
  ELSE Assign("IMM", op.outs[1], <<Imm(
         CASE op.id = "ADD" -> (n(1) + n(2)) % Modulus
           [] op.id = "SUB" -> (n(1) - n(2)) % Modulus
           [] op.id = "NOT" -> IF n(1) = 0 THEN 1 ELSE 0)>>)

\* Operands are evaluated by what is known when the operation is reached.
ConstantEval(f, path) ==
  FoldLeft(LAMBDA g, i :
             InBlock(g, path, LAMBDA b : [b EXCEPT !.ops[i] =
               IF @.id \in {"ADD", "SUB", "NOT"}
               THEN Fold([@ EXCEPT !.params = Each(@, LAMBDA val : Evaluated(g.root, val))]) ELSE @]),
           f, [i \in DOMAIN BlockAt(f.root, path).ops |-> i])

(***************************************************************************)
(* vx_opt_join_compute: an operation like an earlier one copies its result.   *)
(* Earlier ones are those before it in its block, at any depth, and before    *)
(* the operations its block is inside of, not inside of others.               *)
(***************************************************************************)
Same(a, b) ==
  /\ a.id = b.id /\ a.params = b.params /\ a.args = b.args /\ Len(a.outs) = Len(b.outs)
  /\ a.blocks = NoBlocks /\ b.blocks = NoBlocks       \* compared by identity

RECURSIVE Matches(_, _)
Matches(ops, op) ==
  Concat([i \in DOMAIN ops |-> (IF Same(ops[i], op) THEN <<ops[i]>> ELSE <<>>)
    \o Concat([k \in DOMAIN BlockSeq(ops[i]) |-> Matches(BlockSeq(ops[i])[k].ops, op)])])
RECURSIVE MatchesAround(_, _, _)
MatchesAround(root, path, op) ==
  IF path = <<>> THEN <<>>
  ELSE SelectSeq(SubSeq(BlockAt(root, Front(path)).ops, 1, Last(path).op - 1), LAMBDA o : Same(o, op))
         \o MatchesAround(root, Front(path), op)

JoinedWith_Anywhere(f, path, i) ==
  LET op == BlockAt(f.root, path).ops[i] IN
  SelectSeq(Matches(f.root.ops, op), LAMBDA o : o # op)

JoinedWith(f, path, i) ==
  LET ops == BlockAt(f.root, path).ops IN
  Matches(SubSeq(ops, 1, i - 1), ops[i]) \o MatchesAround(f.root, path, ops[i])

JoinCompute(f, path) ==
  FoldLeft(LAMBDA g, i :
             LET op == BlockAt(g.root, path).ops[i]
                 found == JoinedWith(g, path, i) IN
             IF HasSideEffect(op) \/ found = <<>> THEN g
             ELSE InBlock(g, path, LAMBDA b :
                    [b EXCEPT !.ops[i] = Assign("IMM", op.outs[1], <<Var(found[1].outs[1])>>)]),
           f, [i \in DOMAIN BlockAt(f.root, path).ops |-> i])

(***************************************************************************)
(* vx_opt_reduce_if: an if whose condition is taken to be known is replaced   *)
(* by the case it takes.  vx_Irblock_mightbe says that only what is known to  *)
(* be zero might be, so that is every if with a then case.                    *)
(***************************************************************************)
IsZero(root, val) == Evaluated(root, val) = Imm(0)

CaseTaken(root, op) ==
  CASE "then" \in DOMAIN op.blocks /\ ~IsZero(root, op.params[1]) -> {"then"}
    [] "else" \in DOMAIN op.blocks /\ IsZero(root, op.params[1]) -> {"else"}
    [] OTHER -> {}

IsEmpty(block) == block.ops = <<>> /\ block.outs = <<>>

\* The outputs of the if get the names of those of the case, whose operations
\* take its place.
Spliced(block, i, name) ==
  LET renamed == FoldLeft(LAMBDA b, k : RenameBoth(b, b.ops[i].outs[k], b.ops[i].blocks[name].outs[k]),
                          block, [k \in DOMAIN block.ops[i].outs |-> k]) IN
  [renamed EXCEPT !.ops = SubSeq(@, 1, i - 1) \o @[i].blocks[name].ops \o SubSeq(@, i + 1, Len(@))]

KeptOutputs(root, op) ==
  LET used == SelectSeq([j \in DOMAIN op.outs |-> j], LAMBDA j : VarUsed(root, op.outs[j]))
      kept(outs) == Each(used, LAMBDA j : outs[j]) IN
  [op EXCEPT !.outs = kept(@), !.blocks = EachBlock(@, LAMBDA b : [b EXCEPT !.outs = kept(@)])]

RECURSIVE ReduceIf(_, _, _)
ReduceIf(f, path, i) ==
  LET ops == BlockAt(f.root, path).ops
      again(F(_)) == ReduceIf(InBlock(f, path, F), path, i) IN
  IF i > Len(ops) THEN f
  ELSE IF ops[i].id # "IF" THEN ReduceIf(f, path, i + 1)
  ELSE IF \A b \in BlocksOf(ops[i]) : IsEmpty(b) THEN again(LAMBDA b : [b EXCEPT !.ops = RemoveAt(@, i)])
  ELSE IF CaseTaken(f.root, ops[i]) # {}
  THEN again(LAMBDA b : Spliced(b, i, CHOOSE name \in CaseTaken(f.root, ops[i]) : TRUE))
  ELSE ReduceIf(InBlock(f, path, LAMBDA b : [b EXCEPT !.ops[i] = KeptOutputs(f.root, @)]), path, i + 1)

(***************************************************************************)
(* vx_opt_if_opts: what follows an operation that ends the flow goes away    *)
(* (vx_opt_ll_dce).  What it does to ifs it never does: none with a then case *)
(* is left by vx_opt_reduce_if, which runs before it.                        *)
(***************************************************************************)
Dce(ops) ==
  LET i == SelectInSeq(ops, EndsFlow) IN IF i = 0 THEN ops ELSE SubSeq(ops, 1, i)
IfOpts(f, path) == InBlock(f, path, LAMBDA b : [b EXCEPT !.ops = Dce(@)])

\* A pass of vx_opt on the block at path.
OptPass(pass, f, path) ==
  CASE pass = "inline_vars" -> InBlock(f, path, InlineVars)
    [] pass = "vars" -> RemoveUnused(f, path, 1)
    [] pass = "constant_eval" -> ConstantEval(f, path)
    [] pass = "join_compute" -> JoinCompute(f, path)
    [] pass = "reduce_if" -> ReduceIf(f, path, 1)
    [] pass = "if_opts" -> IfOpts(f, path)

================================================================================
