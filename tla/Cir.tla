---------------------------------- MODULE Cir ----------------------------------
(***************************************************************************)
(* From what a frontend writes, where a variable is assigned as often as it  *)
(* likes and loops have no states (CIR), to SSA: C loops become while loops,  *)
(* variables assigned in conditionals and loops become their outputs and      *)
(* states, and every assignment gets a variable of its own.                   *)
(*                                                                          *)
(* f is [root, n]: the function and the number of its variables.             *)
(***************************************************************************)
EXTENDS Ssair

(***************************************************************************)
(* vx_CIrBlock_normalize: a C loop becomes its start and a while loop, which  *)
(* are visited in turn.                                                      *)
(***************************************************************************)
NormalizedLoop_EndFirst(op) ==
  Append(op.blocks["start"].ops,
         While(<<>>, <<>>, op.blocks["cond"],
               Block(<<>>, op.blocks["end"].ops \o op.blocks["do"].ops, <<>>)))

NormalizedLoop(op) ==
  Append(op.blocks["start"].ops,
         While(<<>>, <<>>, op.blocks["cond"],
               Block(<<>>, op.blocks["do"].ops \o op.blocks["end"].ops, <<>>)))

RECURSIVE NormalizeOps(_)
NormalizeOp(op) ==
  IF op.id = "CFOR" THEN NormalizeOps(NormalizedLoop(op))
  ELSE <<[op EXCEPT !.blocks = EachBlock(@, LAMBDA b : [b EXCEPT !.ops = NormalizeOps(@)])]>>
NormalizeOps(ops) == Concat(Each(ops, NormalizeOp))
Normalize(f) == [f EXCEPT !.root.ops = NormalizeOps(@)]

(***************************************************************************)
(* vx_IrBlock_vardeclOutBefore: the block in which v is declared before      *)
(* operation i of the block at path, nearest first, at any depth; as the set  *)
(* of its path, or of none.  Inputs do not count.                            *)
(***************************************************************************)
DeclaredIn(op, v) == Declares(op, v) \/ \E b \in BlocksOf(op) : VarDeclRec(b.ops, v)

RECURSIVE DeclPath(_, _, _)
DeclPath(ops, v, path) ==
  LET i == SelectInSeq(ops, LAMBDA op : DeclaredIn(op, v))
      name == BlockNames[SelectInSeq(BlockNames, LAMBDA nm :
                nm \in DOMAIN ops[i].blocks /\ VarDeclRec(ops[i].blocks[nm].ops, v))] IN
  IF Declares(ops[i], v) THEN path
  ELSE DeclPath(ops[i].blocks[name].ops, v, Append(path, Step(i, name)))

RECURSIVE DeclBefore(_, _, _, _)
DeclBefore(root, path, i, v) ==
  LET ops == BlockAt(root, path).ops
      found == {j \in 1..i - 1 : DeclaredIn(ops[j], v)}
      steps == DeclPath(<<ops[Max(found)]>>, v, <<>>) IN
  CASE found # {} /\ Declares(ops[Max(found)], v) -> {path}
    [] found # {} /\ ~Declares(ops[Max(found)], v) ->
         {path \o <<Step(Max(found), steps[1].name)>> \o Tail(steps)}
    [] found = {} /\ path = <<>> -> {}
    [] OTHER -> DeclBefore(root, Front(path), Last(path).op, v)

(***************************************************************************)
(* vx_CIrBlock_mksa_states.                                                  *)
(***************************************************************************)
\* megic: v, which a case of the if at i assigns and the block at outer did before,
\* becomes a result of both cases, and has another name from there on.
RenamedCase(block, v, new) ==
  LET b == RenameBoth(block, v, new) IN [b EXCEPT !.outs = Append(@, new)]
ElseOf(op, v) == IF "else" \in DOMAIN op.blocks THEN op.blocks["else"] ELSE Block(<<>>, <<>>, <<v>>)

MergeCases(f, path, i, outer, v) ==
  LET block == BlockAt(f.root, path)
      op == block.ops[i]
      merged == f.n + 3
      if == If(Append(op.outs, merged), op.params[1],
               RenamedCase(op.blocks["then"], v, f.n + 1),
               RenamedCase(ElseOf(op, v), v, f.n + 2))
      renamed == [block EXCEPT !.ops = Append(SubSeq(@, 1, i - 1), if)
                                         \o RenameOps(SubSeq(@, i + 1, Len(@)), v, merged)]
      put == PutBlock(f.root, path, renamed)
      around == BlockAt(put, outer) IN
  [root |-> PutBlock(put, outer, [RenameBoth(around, v, merged) EXCEPT !.ops = around.ops]),
   n |-> merged]

\* Every assignment directly in a case of the if at i.
CaseStates(f, path, i) ==
  LET ofCase(g, name) == BlockAt(g.root, path).ops[i].blocks[name]
      assigned(g, name, j) ==
        FoldLeft(LAMBDA h, k :
                   LET v == ofCase(h, name).ops[j].outs[k]
                       outer == DeclBefore(h.root, path, i, v) IN
                   IF outer = {} THEN h ELSE MergeCases(h, path, i, CHOOSE p \in outer : TRUE, v),
                 g, [k \in DOMAIN ofCase(g, name).ops[j].outs |-> k]) IN
  FoldLeft(LAMBDA g, name : FoldLeft(LAMBDA h, j : assigned(h, name, j), g,
                                     [j \in DOMAIN ofCase(g, name).ops |-> j]),
           f, Names(BlockAt(f.root, path).ops[i]))

RECURSIVE DeclaredVars(_)
DeclaredVars(ops) ==
  Concat([i \in DOMAIN ops |-> ops[i].outs
    \o Concat([k \in DOMAIN BlockSeq(ops[i]) |-> DeclaredVars(BlockSeq(ops[i])[k].ops)])])

\* A variable assigned in the body of the loop at i and before becomes its state.
AddState_NoResult(f, path, i, v) ==
  LET block == BlockAt(f.root, path)
      op == block.ops[i]
      bound(b, new) == LET r == RenameBoth(b, v, new) IN [r EXCEPT !.ins = Append(@, new)]
      body == [bound(op.blocks["do"], f.n + 2) EXCEPT !.outs = Append(@, f.n + 2)] IN
  [root |-> PutBlock(f.root, path,
              [block EXCEPT !.ops[i] =
                 While(op.outs, Append(op.args, Var(v)), bound(op.blocks["cond"], f.n + 1), body)]),
   n |-> f.n + 2]

AddState(f, path, i, v) ==
  LET block == BlockAt(f.root, path)
      op == block.ops[i]
      bound(b, new) == LET r == RenameBoth(b, v, new) IN [r EXCEPT !.ins = Append(@, new)]
      body == [bound(op.blocks["do"], f.n + 2) EXCEPT !.outs = Append(@, f.n + 2)] IN
  [root |-> PutBlock(f.root, path,
              [block EXCEPT !.ops[i] =
                 While(Append(op.outs, v), Append(op.args, Var(v)), bound(op.blocks["cond"], f.n + 1), body)]),
   n |-> f.n + 2]

LoopStates(f, path, i) ==
  FoldLeft(LAMBDA g, v :
             IF /\ VarDeclRec(BlockAt(g.root, path).ops[i].blocks["do"].ops, v)
                /\ DeclBefore(g.root, path, i, v) # {}
             THEN AddState(g, path, i, v) ELSE g,
           f, DeclaredVars(BlockAt(f.root, path).ops[i].blocks["do"].ops))

\* Inside out, except that the cases of an if are not entered.
RECURSIVE MksaStates(_, _)
MksaStates(f, path) ==
  LET inner(g, i) ==
        FoldLeft(LAMBDA h, name : MksaStates(h, Append(path, Step(i, name))),
                 g, Names(BlockAt(g.root, path).ops[i]))
      visit(g, i) ==
        LET id == BlockAt(g.root, path).ops[i].id IN
        CASE id = "IF" -> CaseStates(g, path, i)
          [] id = "WHILE" -> LoopStates(inner(g, i), path, i)
          [] OTHER -> inner(g, i) IN
  FoldLeft(visit, f, [i \in DOMAIN BlockAt(f.root, path).ops |-> i])

(***************************************************************************)
(* vx_CIrBlock_mksa_final: every output of an operation gets a new name, in   *)
(* the operations after it and the outputs of the block too.                  *)
(***************************************************************************)
NewName(acc, i, k) ==
  LET old == acc.block.ops[i].outs[k]
      new == acc.n + 1
      ops == acc.block.ops IN
  [block |-> [acc.block EXCEPT
                !.ops = Append(SubSeq(ops, 1, i - 1), [ops[i] EXCEPT !.outs[k] = new])
                          \o RenameOps(SubSeq(ops, i + 1, Len(ops)), old, new),
                !.outs = Each(@, LAMBDA v : Renamed(v, old, new))],
   n |-> new]

RECURSIVE MksaFinal(_, _)
MksaFinal(block, n) ==
  FoldLeft(LAMBDA acc, i :
             LET r == OnBlocks(acc.block.ops[i], acc.n, MksaFinal) IN
             FoldLeft(LAMBDA named, k : NewName(named, i, k),
                      [block |-> [acc.block EXCEPT !.ops[i] = r.op], n |-> r.n],
                      [k \in DOMAIN r.op.outs |-> k]),
           [block |-> block, n |-> n], [i \in DOMAIN block.ops |-> i])

(***************************************************************************)
(* vx_IrBlock_verify, except for parents and types.                          *)
(***************************************************************************)
LoopValid(op) ==
  /\ Len(op.outs) = Len(op.args)
  /\ "do" \in DOMAIN op.blocks /\ Len(op.blocks["do"].outs) = Len(op.outs)
IfValid(op) ==
  /\ DOMAIN op.blocks = {"then", "else"}
  /\ \A b \in BlocksOf(op) : Len(b.outs) = Len(op.outs)

\* ins: the inputs of block and of those around it.
RECURSIVE VerifySsaBased(_, _, _)
VerifySsaBased(root, block, ins) ==
  \A i \in DOMAIN block.ops : LET op == block.ops[i] IN
    /\ op.id \in Loops => LoopValid(op)
    /\ op.id = "IF" => IfValid(op)
    /\ \A val \in Inputs(op) : val.kind = "var" => VarDeclRec(root.ops, val.n) \/ val.n \in ins
    /\ \A b \in BlocksOf(op) : VerifySsaBased(root, b, ins \cup ToSet(b.ins))

\* Every declaration, by operations and as inputs of their blocks.
RECURSIVE Declarations(_)
Declarations(ops) ==
  Concat([i \in DOMAIN ops |-> ops[i].outs
    \o Concat([k \in DOMAIN BlockSeq(ops[i]) |->
         BlockSeq(ops[i])[k].ins \o Declarations(BlockSeq(ops[i])[k].ops)])])

Verify(root) ==
  /\ VerifySsaBased(root, root, ToSet(root.ins))
  /\ \A v \in ToSet(DeclaredVars(root.ops)) :
       Len(SelectSeq(Declarations(root.ops), LAMBDA w : w = v)) = 1

================================================================================
