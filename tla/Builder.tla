-------------------------------- MODULE Builder --------------------------------
(***************************************************************************)
(* Blocks as src/ir/builder.c keeps them, operations linked by next with a    *)
(* pointer to their block, and the passes that edit a block while they walk   *)
(* over it: for (op = block->first; op; op = op->next).  An operation is not  *)
(* freed when it is unlinked; its next still leads on.                        *)
(*                                                                          *)
(* A heap is [id, inner, bparent, parent, first, next].                       *)
(***************************************************************************)
EXTENDS Integers, SequencesExt, FiniteSets, TLC

CONSTANTS Ops, Blocks, Root, Functions, NULL

ASSUME BuilderAssumption ==
  /\ Ops \subseteq Nat /\ IsFiniteSet(Ops) /\ IsFiniteSet(Blocks)
  /\ Root \in Blocks /\ Blocks \subseteq Nat /\ NULL \notin Ops \cup Blocks

Kinds == {"none", "plain", "IF", "WHILE", "CFOR", "INFINITE"}

\* No operation of a function is in two places and no block is held twice; the
\* blocks that are not used yet are empty.
IsTree(f) ==
  /\ f.kind \in [Ops -> Kinds] /\ f.held \in [Ops -> Seq(Blocks)] /\ f.lists \in [Blocks -> Seq(Ops)]
  /\ \A b, c \in Blocks : \A i \in DOMAIN f.lists[b], j \in DOMAIN f.lists[c] :
       f.lists[b][i] = f.lists[c][j] => b = c /\ i = j
  /\ \A o, p \in Ops : \A i \in DOMAIN f.held[o], j \in DOMAIN f.held[p] :
       f.held[o][i] = f.held[p][j] => o = p /\ i = j
  /\ \A b \in Blocks : \A i \in DOMAIN f.lists[b] : f.kind[f.lists[b][i]] # "none"
  /\ \A o \in Ops : /\ Root \notin ToSet(f.held[o])
                    /\ f.kind[o] = "WHILE" => Len(f.held[o]) = 2
                    /\ f.kind[o] = "CFOR" => Len(f.held[o]) = 4
  /\ \A b \in Blocks \ {Root} : (\A o \in Ops : b \notin ToSet(f.held[o])) => f.lists[b] = <<>>

ASSUME FunctionsAssumption == \A f \in Functions : IsTree(f)

VARIABLES
  heap,
  fresh,    \* the blocks not yet allocated
  moved,    \* the blocks whose operations were given to another one, and that no one uses again
  walk      \* the loops going on, the innermost last: [block, op]

vars == <<heap, fresh, moved, walk>>

--------------------------------------------------------------------------------
(***************************************************************************)
(* Functions of builder.c and ir.c.                                         *)
(***************************************************************************)
\* The operations from o on; one more than there are if they go in a circle.
Chain(h, o) ==
  LET from[k \in 0..Cardinality(Ops) + 1] ==
        [at \in Ops \cup {NULL} |-> IF at = NULL \/ k = 0 THEN <<>> ELSE <<at>> \o from[k - 1][h.next[at]]] IN
  from[Cardinality(Ops) + 1][o]
OpsOf(h, b) == Chain(h, h.first[b])
Tail_(h, b) == IF OpsOf(h, b) = <<>> THEN NULL ELSE Last(OpsOf(h, b))
InnerBlocks(h, ops) == UNION {ToSet(h.inner[o]) : o \in ops}

UpdateParent_OpsOnly(h, ops, to) ==
  [h EXCEPT !.parent = [o \in Ops |-> IF o \in ops THEN to ELSE h.parent[o]]]
UpdateParent(h, ops, to) ==
  [h EXCEPT !.parent = [o \in Ops |-> IF o \in ops THEN to ELSE h.parent[o]],
            !.bparent = [b \in Blocks |-> IF b \in InnerBlocks(h, ops) THEN to ELSE h.bparent[b]]]

\* after, or first in the block if that is NULL, leads to o.
Link(h, b, after, o) == IF after = NULL THEN [h EXCEPT !.first[b] = o] ELSE [h EXCEPT !.next[after] = o]
NextOf(h, b, after) == IF after = NULL THEN h.first[b] ELSE h.next[after]

AddAllOp(h, dest, src) ==
  UpdateParent(Link(h, dest, Tail_(h, dest), h.first[src]), ToSet(OpsOf(h, src)), dest)

InsertAllOpAfter_NextLast(h, dest, src, after) ==
  LET parents == UpdateParent(h, ToSet(OpsOf(h, src)), dest)
      linked == Link(parents, dest, after, h.first[src]) IN
  IF OpsOf(h, src) = <<>> THEN h
  ELSE [linked EXCEPT !.next[Tail_(h, src)] = NextOf(linked, dest, after)]

InsertAllOpAfter(h, dest, src, after) ==
  LET parents == UpdateParent(h, ToSet(OpsOf(h, src)), dest)
      joined == [parents EXCEPT !.next[Tail_(h, src)] = NextOf(h, dest, after)] IN
  IF OpsOf(h, src) = <<>> THEN h ELSE Link(joined, dest, after, h.first[src])

\* vx_IrOp_init
InitOp(h, o, id, b) ==
  [h EXCEPT !.next[o] = NULL, !.parent[o] = b, !.id[o] = id, !.inner[o] = <<>>]
AddOp(h, b, o, id) == InitOp(Link(h, b, Tail_(h, b), o), o, id, b)
InsertOpAfter(h, b, after, o, id) ==
  Link([InitOp(h, o, id, b) EXCEPT !.next[o] = NextOf(h, b, after)], b, after, o)
\* vx_IrOp_addParam_s, of a block
AddInner(h, o, b) == [h EXCEPT !.inner[o] = Append(@, b)]
InitBlock(h, b, parent) == [h EXCEPT !.bparent[b] = parent, !.first[b] = NULL]

Predecessor(h, o) ==
  LET before == {p \in ToSet(OpsOf(h, h.parent[o])) : h.next[p] = o} IN
  IF h.first[h.parent[o]] = o \/ before = {} THEN NULL ELSE CHOOSE p \in before : TRUE

RemoveSuccessor_Cleared(h, o) ==
  IF h.next[o] = NULL THEN h
  ELSE [h EXCEPT !.next = h.next[o] :> NULL @@ o :> h.next[h.next[o]] @@ @]
RemoveSuccessor(h, o) == IF h.next[o] = NULL THEN h ELSE [h EXCEPT !.next[o] = h.next[h.next[o]]]

RemoveOp(h, o) ==
  LET b == h.parent[o] IN
  IF h.first[b] = o THEN [h EXCEPT !.first[b] = h.next[o]]
  ELSE IF Predecessor(h, o) = NULL THEN h ELSE RemoveSuccessor(h, Predecessor(h, o))

--------------------------------------------------------------------------------
(***************************************************************************)
(* What the passes do at the operation they are at.                          *)
(***************************************************************************)
\* The heap of a function given by its lists.
HeapOf(f) ==
  LET inList(o, b) == o \in ToSet(f.lists[b])
      where(o) == IF \E b \in Blocks : inList(o, b) THEN CHOOSE b \in Blocks : inList(o, b) ELSE NULL
      holder(b) == {o \in Ops : b \in ToSet(f.held[o])}
      behind(o) == LET list == f.lists[where(o)] IN
                   IF where(o) = NULL \/ Last(list) = o THEN NULL ELSE list[(CHOOSE i \in DOMAIN list : list[i] = o) + 1] IN
  [id |-> f.kind, inner |-> f.held,
   parent |-> [o \in Ops |-> where(o)],
   bparent |-> [b \in Blocks |-> IF holder(b) = {} THEN NULL ELSE where(CHOOSE o \in holder(b) : TRUE)],
   first |-> [b \in Blocks |-> IF f.lists[b] = <<>> THEN NULL ELSE f.lists[b][1]],
   next |-> [o \in Ops |-> behind(o)]]

Init ==
  /\ \E f \in Functions :
       /\ heap = HeapOf(f)
       /\ fresh = {b \in Blocks \ {Root} : \A o \in Ops : b \notin ToSet(f.held[o])}
  /\ moved = {}
  /\ walk = <<>>

block == Last(walk).block
op == Last(walk).op
Visiting == walk # <<>> /\ op # NULL
\* op = op->next, in the heap h the visit made.
GoOn(h) == heap' = h /\ walk' = Append(Front(walk), [block |-> block, op |-> h.next[op]])
NoBlocks == UNCHANGED <<fresh, moved>>

FreshOps == {o \in Ops : heap.id[o] = "none"}
Lowest(s) == CHOOSE x \in s : \A y \in s : x <= y
NewOp == Lowest(FreshOps)

Start == walk = <<>> /\ walk' = <<[block |-> Root, op |-> heap.first[Root]]>> /\ UNCHANGED heap /\ NoBlocks
\* The pass calls itself on a block of the operation.
Descend ==
  /\ Visiting
  /\ \E b \in ToSet(heap.inner[op]) : walk' = Append(walk, [block |-> b, op |-> heap.first[b]])
  /\ UNCHANGED heap /\ NoBlocks
Finish == walk # <<>> /\ op = NULL /\ walk' = Front(walk) /\ UNCHANGED heap /\ NoBlocks
Keep == Visiting /\ GoOn(heap) /\ NoBlocks

\* vx_opt_vars, and part1 of vx_opt_ll_jumps
RemoveHere == Visiting /\ GoOn(RemoveOp(heap, op)) /\ NoBlocks

\* vx_opt_ll_dce: rmcode_before_label, up to any label
RemoveCode ==
  /\ Visiting
  /\ LET behind == Chain(heap, heap.next[op])
         left[k \in 0..Len(behind)] == IF k = 0 THEN heap ELSE RemoveOp(left[k - 1], behind[k]) IN
     \E k \in 1..Len(behind) : GoOn(left[k])
  /\ NoBlocks

\* An operation is put before the one visited: vx_opt_if_swapCases, ll_if_invert, tests
InsertBefore ==
  /\ Visiting /\ FreshOps # {}
  /\ GoOn(InsertOpAfter(heap, block, Predecessor(heap, op), NewOp, "plain"))
  /\ NoBlocks

\* SETCC behind a comparison
InsertBehind ==
  /\ Visiting /\ FreshOps # {}
  /\ GoOn(InsertOpAfter(heap, block, op, NewOp, "plain"))
  /\ NoBlocks

\* vx_opt_join_compute, for an operation with one output
JoinCompute ==
  /\ Visiting /\ FreshOps # {}
  /\ GoOn([InsertOpAfter(heap, block, Predecessor(heap, op), NewOp, "plain")
             EXCEPT !.next[NewOp] = heap.next[op]])
  /\ NoBlocks

\* vx_opt_reduce_if, once it knows the case that is taken
ReduceIf ==
  /\ Visiting /\ heap.id[op] = "IF"
  /\ \E b \in ToSet(heap.inner[op]) :
       /\ GoOn(RemoveOp(InsertAllOpAfter(heap, block, b, op), op))
       /\ moved' = moved \cup {b}
  /\ UNCHANGED fresh

\* vx_CIrBlock_normalize
Normalize ==
  /\ Visiting /\ heap.id[op] = "CFOR" /\ FreshOps # {}
  /\ Cardinality(fresh) > 1
  /\ LET new == Lowest(fresh)
         do == Lowest(fresh \ {new})
         start == heap.inner[op][1]
         cond == heap.inner[op][2]
         end == heap.inner[op][3]
         body == heap.inner[op][4]
         h1 == AddAllOp(InitBlock([heap EXCEPT !.inner[op] = <<>>], new, block), new, start)
         h2 == AddInner(AddOp(h1, new, NewOp, "WHILE"), NewOp, cond)
         h3 == AddAllOp(AddAllOp(InitBlock(h2, do, new), do, body), do, end)
         h4 == InsertAllOpAfter(AddInner(h3, NewOp, do), block, new, op) IN
     /\ GoOn(RemoveOp(h4, op))
     /\ moved' = moved \cup {new, start, body, end}
     /\ fresh' = fresh \ {new, do}

\* vx_IrBlock_llir_preLower_loops, with as many moves as the condition has inputs
LowerLoop ==
  /\ Visiting /\ heap.id[op] = "WHILE" /\ Cardinality(FreshOps) > 1
  /\ Cardinality(fresh) > 1
  /\ \E moves \in {m \in {<<>>, <<NewOp>>} : Cardinality(FreshOps) > Len(m) + 1} :
       LET newBody == Lowest(fresh)
           els == Lowest(fresh \ {newBody})
           cond == heap.inner[op][1]
           body == heap.inner[op][2]
           left == FreshOps \ ToSet(moves)
           ifOp == Lowest(left)
           brk == Lowest(left \ {ifOp})
           h1 == InitBlock([heap EXCEPT !.inner[op] = <<>>], newBody, block)
           h2 == AddAllOp(IF moves = <<>> THEN h1 ELSE AddOp(h1, newBody, NewOp, "plain"), newBody, cond)
           h3 == AddOp(h2, newBody, ifOp, "IF")
           h4 == AddInner([h3 EXCEPT !.bparent[body] = h3.parent[ifOp]], ifOp, body)
           h5 == AddOp(InitBlock(h4, els, h4.parent[ifOp]), els, brk, "plain") IN
       /\ GoOn([AddInner(AddInner(h5, ifOp, els), op, newBody) EXCEPT !.id[op] = "INFINITE"])
       /\ moved' = moved \cup {cond}
       /\ fresh' = fresh \ {newBody, els}

Next ==
  \/ Start \/ Descend \/ Finish \/ Keep \/ RemoveHere \/ RemoveCode
  \/ InsertBefore \/ InsertBehind \/ JoinCompute \/ ReduceIf \/ Normalize \/ LowerLoop

Spec == Init /\ [][Next]_vars

--------------------------------------------------------------------------------
(***************************************************************************)
(* Properties.                                                              *)
(***************************************************************************)
\* Every pointer has its type, and no list goes in a circle: the loops of the
\* passes and vx_IrBlock_tail end.
TypeOK ==
  /\ heap.parent \in [Ops -> Blocks \cup {NULL}]
  /\ heap.bparent \in [Blocks -> Blocks \cup {NULL}]
  /\ heap.first \in [Blocks -> Ops \cup {NULL}] /\ heap.next \in [Ops -> Ops \cup {NULL}]
  /\ heap.inner \in [Ops -> Seq(Blocks)]
  /\ \A i \in DOMAIN walk : walk[i].block \in Blocks /\ walk[i].op \in Ops \cup {NULL}
  /\ \A b \in Blocks : Len(OpsOf(heap, b)) <= Cardinality(Ops)

\* What an operation says its block is, is the block in whose list it is, so none is
\* in two; the same for the blocks it holds, none of which was given away
\* (verify_common.c, "Invalid parent"; vx_IrOp_remove does nothing otherwise).
ParentsRight ==
  \A b \in Blocks \ moved : \A o \in ToSet(OpsOf(heap, b)) :
    /\ heap.parent[o] = b
    /\ \A c \in ToSet(heap.inner[o]) : heap.bparent[c] = b /\ c \notin moved

\* The lists of operations and what the loops going on have still to visit.
Listed == [b \in Blocks |-> IF b \in moved THEN <<>> ELSE OpsOf(heap, b)]
Walks == [i \in DOMAIN walk |-> [block |-> walk[i].block, rest |-> Chain(heap, walk[i].op)]]

\* The lists are sequences, edited at the operation that is visited, and the loop goes
\* on behind it, with what was put there and without what was removed.
Lists == INSTANCE OpLists WITH kind <- heap.id, held <- heap.inner, lists <- Listed, stack <- Walks
ImplementsLists == Lists!Spec

================================================================================
