------------------------------- MODULE MCBuilder -------------------------------
(* Instances of Builder: a function with an if, a while loop or a C loop among    *)
(* other operations, and one with an if inside of a C loop.                     *)
EXTENDS Builder

Function(kinds, holds, contents) ==
  [kind |-> [o \in Ops |-> IF o \in DOMAIN kinds THEN kinds[o] ELSE "none"],
   held |-> [o \in Ops |-> IF o \in DOMAIN holds THEN holds[o] ELSE <<>>],
   lists |-> [b \in Blocks |-> IF b \in DOMAIN contents THEN contents[b] ELSE <<>>]]

\* spare of the operations are left for the passes to make.
Spare(f, spare) ==
  [f EXCEPT !.kind = [o \in Ops |-> IF @[o] = "none" /\ o <= Cardinality(Ops) - spare THEN "plain" ELSE @[o]]]
Plain(ops) == [o \in ops |-> "plain"]
Ifs ==
  {Spare(Function(2 :> "IF" @@ Plain({1, 3, 4, 5}), 2 :> <<1, 2>>,
                  0 :> root @@ 1 :> <<4, 5>> @@ 2 :> <<>>), 2) : root \in {<<2>>, <<1, 2, 3>>}}
Whiles ==
  {Spare(Function(2 :> "WHILE" @@ Plain({1, 3, 4}), 2 :> <<1, 2>>,
                  0 :> c.root @@ 1 :> c.cond @@ 2 :> <<3>>), 3) :
     c \in {[root |-> <<2>>, cond |-> <<>>], [root |-> <<1, 2>>, cond |-> <<4>>]}}
CFors == {
  Spare(Function(1 :> "CFOR" @@ Plain({2, 3}), 1 :> <<1, 2, 3, 4>>, 0 :> <<1>> @@ 3 :> <<2>> @@ 4 :> <<3>>), 3),
  Spare(Function(1 :> "CFOR" @@ 3 :> "IF" @@ Plain({2, 4, 5}), 1 :> <<1, 2, 3, 4>> @@ 3 :> <<5>>,
                 0 :> <<1, 2>> @@ 1 :> <<4>> @@ 4 :> <<3>> @@ 5 :> <<5>>), 1)}

MCFunctions == Ifs \cup Whiles \cup CFors
MCOps == 1..7
MCBlocks == 0..7
================================================================================
