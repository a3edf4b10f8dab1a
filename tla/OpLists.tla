-------------------------------- MODULE OpLists --------------------------------
(***************************************************************************)
(* What the builder promises the passes: a block is a sequence of            *)
(* operations, an operation holds blocks, and a pass that walks over a block  *)
(* and edits it where it stands goes on with what then follows.               *)
(***************************************************************************)
EXTENDS Integers, SequencesExt

CONSTANTS
  Ops, Blocks,
  Root,       \* the block of the function
  Functions   \* [kind, held, lists]: the functions passes start from

VARIABLES
  kind,     \* of every operation: "plain", "IF", "WHILE", "CFOR", or "none" if there is none yet
  held,     \* the blocks it holds: then and else; cond and do; start, cond, end and do
  lists,    \* the operations of every block
  stack     \* the walks going on, the innermost last: [block, rest], rest still to be visited

vars == <<kind, held, lists, stack>>

FreshOps == {o \in Ops : kind[o] = "none"}
FreshBlocks ==
  {b \in Blocks \ {Root} : lists[b] = <<>> /\ \A o \in Ops : b \notin ToSet(held[o])}

Init ==
  /\ \E f \in Functions : kind = f.kind /\ held = f.held /\ lists = f.lists
  /\ stack = <<>>

Block == Last(stack).block
Rest == Last(stack).rest
Here == Head(Rest)
Behind == Tail(Rest)
Before == SubSeq(lists[Block], 1, Len(lists[Block]) - Len(Rest))
Visiting == stack # <<>> /\ Rest # <<>>

GoOn(rest) == stack' = Append(Front(stack), [block |-> Block, rest |-> rest])
Unmade == UNCHANGED <<kind, held>>
Make(o, k, blocks) == kind' = [kind EXCEPT ![o] = k] /\ held' = [held EXCEPT ![o] = blocks]

Start == stack = <<>> /\ stack' = <<[block |-> Root, rest |-> lists[Root]]>> /\ UNCHANGED lists /\ Unmade
Descend ==
  /\ Visiting
  /\ \E b \in ToSet(held[Here]) : stack' = Append(stack, [block |-> b, rest |-> lists[b]])
  /\ UNCHANGED lists /\ Unmade
Finish == stack # <<>> /\ Rest = <<>> /\ stack' = Front(stack) /\ UNCHANGED lists /\ Unmade
Keep == Visiting /\ GoOn(Behind) /\ UNCHANGED lists /\ Unmade

Drop ==
  /\ Visiting /\ GoOn(Behind)
  /\ lists' = [lists EXCEPT ![Block] = Before \o Behind]
  /\ Unmade
\* What follows goes away, up to one place.
DropBehind ==
  /\ Visiting
  /\ \E i \in 1..Len(Behind) : LET left == SubSeq(Behind, i + 1, Len(Behind)) IN
       GoOn(left) /\ lists' = [lists EXCEPT ![Block] = Append(Before, Here) \o left]
  /\ Unmade

PutBefore ==
  /\ Visiting /\ GoOn(Behind)
  /\ \E o \in FreshOps :
       Make(o, "plain", <<>>) /\ lists' = [lists EXCEPT ![Block] = Before \o <<o, Here>> \o Behind]
PutBehind ==
  /\ Visiting
  /\ \E o \in FreshOps :
       /\ Make(o, "plain", <<>>)
       /\ GoOn(<<o>> \o Behind)
       /\ lists' = [lists EXCEPT ![Block] = Before \o <<Here, o>> \o Behind]
Exchange ==
  /\ Visiting /\ GoOn(Behind)
  /\ \E o \in FreshOps :
       Make(o, "plain", <<>>) /\ lists' = [lists EXCEPT ![Block] = Append(Before, o) \o Behind]

\* One of its cases takes the place of an if, and is walked over next.
Splice ==
  /\ Visiting /\ kind[Here] = "IF"
  /\ \E b \in ToSet(held[Here]) :
       /\ lists' = [lists EXCEPT ![Block] = Before \o lists[b] \o Behind, ![b] = <<>>]
       /\ GoOn(lists[b] \o Behind)
  /\ Unmade

\* A C loop becomes its start and a while loop of its body followed by its end.
Normalize ==
  /\ Visiting /\ kind[Here] = "CFOR"
  /\ \E o \in FreshOps, do \in FreshBlocks :
       LET start == held[Here][1]
           cond == held[Here][2]
           end == held[Here][3]
           body == held[Here][4]
           new == Append(lists[start], o) IN
       /\ kind' = [kind EXCEPT ![o] = "WHILE"]
       /\ held' = [held EXCEPT ![Here] = <<>>, ![o] = <<cond, do>>]
       /\ lists' = [lists EXCEPT ![Block] = Before \o new \o Behind,
                                 ![do] = lists[body] \o lists[end],
                                 ![start] = <<>>, ![body] = <<>>, ![end] = <<>>]
       /\ GoOn(new \o Behind)

\* A while loop becomes an infinite one of moves, its condition, and an if around
\* its body, with a break in the other case.
Lowered(if, brk, moves, do, else) ==
  LET cond == held[Here][1]
      body == held[Here][2]
      plain == {brk} \cup ToSet(moves) IN
  /\ kind' = [o \in Ops |-> IF o = Here THEN "INFINITE" ELSE IF o = if THEN "IF"
                            ELSE IF o \in plain THEN "plain" ELSE kind[o]]
  /\ held' = [o \in Ops |-> IF o = Here THEN <<do>> ELSE IF o = if THEN <<body, else>>
                            ELSE IF o \in plain THEN <<>> ELSE held[o]]
  /\ lists' = [lists EXCEPT ![do] = Append(moves \o lists[cond], if), ![else] = <<brk>>, ![cond] = <<>>]
LowerLoop ==
  /\ Visiting /\ kind[Here] = "WHILE"
  /\ \E if, brk \in FreshOps, moves \in {<<>>} \cup {<<o>> : o \in FreshOps}, do, else \in FreshBlocks :
       /\ if # brk /\ do # else /\ {if, brk} \cap ToSet(moves) = {}
       /\ Lowered(if, brk, moves, do, else)
  /\ GoOn(Behind)

Next ==
  \/ Start \/ Descend \/ Finish \/ Keep \/ Drop \/ DropBehind
  \/ PutBefore \/ PutBehind \/ Exchange \/ Splice \/ Normalize \/ LowerLoop

Spec == Init /\ [][Next]_vars

================================================================================
