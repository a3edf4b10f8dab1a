--------------------------------- MODULE LlPrep ---------------------------------
(***************************************************************************)
(* vx_llir_prep_lower (src/ir/passes.c:88-99): variables whose lifetimes do *)
(* not meet are merged so that they share a register or slot, and the block *)
(* is tidied for the two-operand machine.                                   *)
(*                                                                          *)
(* The computed lifetime of a variable is the set of operations it is       *)
(* marked for.  Operations do not write a variable they also have as an     *)
(* argument (params are not arguments), so a priority is a mark count.      *)
(***************************************************************************)
EXTENDS LlPasses, FiniteSets

CONSTANTS
  Programs,     \* the blocks vx_opt_ll leaves
  Ins,          \* the parameters of the block
  SizeOf,       \* SizeOf[v]: size of the type of a variable
  Envs,         \* values of the variables on entry
  Steps, More   \* how many operations are executed when behaviours are
                \* compared, of one and of the other block

\* The operations of p at which the old value of v may still be needed: those
\* that read it, and those control goes on from to one that does.
Successors(p, i) ==
  (IF EndsFlow(p[i]) THEN {} ELSE {i + 1})
  \cup (IF p[i].id \in Jumps THEN {LabelAt(p, p[i].label)} ELSE {})

NeedsOld(op, v) == Reads(op, v) \/ (op.id = "CMOV" /\ Len(op.args) = 2 /\ Writes(op, v))

LiveBefore(p, v, live) ==
  {i \in DOMAIN p : \/ NeedsOld(p[i], v)
                    \/ ~Writes(p[i], v) /\ Successors(p, i) \cap live # {}}

LiveAt(p, v) ==
  LET live[n \in 0..Len(p)] == IF n = 0 THEN {} ELSE LiveBefore(p, v, live[n - 1])
  IN live[Len(p)]

\* SSA construction has given every variable but the parameters a value before
\* it is read.
Assigned(p) == \A v \in Vars \ Ins : 1 \notin LiveAt(p, v)

ASSUME LlPrepAssumption ==
  /\ NumVars \in Nat /\ NoVar \notin Vars
  /\ Ins \subseteq Vars
  /\ SizeOf \in [Vars -> Nat]
  /\ Steps \subseteq Nat /\ More \subseteq Nat
  /\ Envs \subseteq [Vars -> Num]
  /\ \A p \in Programs : p \in Seq(Op) /\ WellFormed(p) /\ Assigned(p)

VARIABLES
  source,       \* the block before
  prog,         \* the block now
  pass,         \* the pass running, an index of Passes
  at,           \* the operation the loop of a pass is at
  alive,        \* used_in_op: the operations a variable is marked for
  renamed,      \* variables merged into another one
  var, var2     \* the loops of share_slots

vars == <<source, prog, pass, at, alive, renamed, var, var2>>

Passes == <<"lifetimes", "share_slots", "inlineVars", "inlineVars", "binary">>

Init ==
  /\ source \in Programs
  /\ prog = source
  /\ pass = 1
  /\ at = 1
  /\ alive = [v \in Vars |-> {}]
  /\ renamed = {}
  /\ var = 1
  /\ var2 = 1

Done == pass > Len(Passes)
Running(name) == ~Done /\ Passes[pass] = name

(***************************************************************************)
(* vx_IrBlock_lifetimes: the operations that touch v, and those between two *)
(* that do unless one in between always leaves.                             *)
(***************************************************************************)
Touches_ReadOnly(op, v) == Reads(op, v)
Touches(op, v) == Reads(op, v) \/ Writes(op, v)

Extends(p, from, to) == \A i \in from + 1..to - 1 : ~EndsFlow(p[i])

Lifetime(p, v) ==
  LET uses == {i \in DOMAIN p : Touches(p[i], v)} IN
  uses \cup {i \in DOMAIN p : \E from, to \in uses : from < i /\ i < to /\ Extends(p, from, to)}

Lifetimes ==
  /\ Running("lifetimes")
  /\ alive' = [v \in Vars |-> Lifetime(prog, v)]
  /\ pass' = pass + 1
  /\ UNCHANGED <<source, prog, at, renamed, var, var2>>

(***************************************************************************)
(* vx_IrBlock_ll_share_slots: each variable is compared with every other,   *)
(* and merged with the first it may share a slot with; the one marked for   *)
(* more operations keeps its name.                                          *)
(***************************************************************************)
LastVar_TooFar == NumVars + 1
LastVar == NumVars

Typed(v) == \E i \in DOMAIN source : Writes(source[i], v)
Candidate(v) == v \notin Ins \cup renamed /\ Typed(v)

FirstOf(set) == IF set = {} THEN Len(prog) + 1 ELSE Min(set)
LastOf(set) == IF set = {} THEN 1 ELSE Max(set)

CanMerge(a, b) ==
  \/ alive[a] \cap alive[b] = {}
  \/ LastOf(alive[a]) = FirstOf(alive[b])
  \/ FirstOf(alive[a]) = LastOf(alive[b])

Matches == var2 # var /\ Candidate(var2) /\ SizeOf[var] = SizeOf[var2] /\ CanMerge(var, var2)

Priority(v) == Cardinality(alive[v])

Rename(old, new) ==
  LET name(v) == IF v = old THEN new ELSE v IN
  [i \in DOMAIN prog |->
     [prog[i] EXCEPT !.out = name(@),
                     !.args = [j \in DOMAIN @ |-> IF @[j] = Var(old) THEN Var(new) ELSE @[j]]]]

Merge_Unmarked(old, new) ==
  /\ prog' = Rename(old, new)
  /\ alive' = [alive EXCEPT ![new] = @ \cup alive[old]]
  /\ UNCHANGED renamed
Merge(old, new) ==
  /\ prog' = Rename(old, new)
  /\ renamed' = renamed \cup {old}
  /\ alive' = [alive EXCEPT ![new] = @ \cup alive[old]]

Sharing == Running("share_slots") /\ var <= LastVar

NextVar ==
  /\ Sharing
  /\ ~Candidate(var) \/ var2 > LastVar
  /\ var' = var + 1
  /\ var2' = 1
  /\ UNCHANGED <<source, prog, pass, at, alive, renamed>>

NextVar2 ==
  /\ Sharing
  /\ Candidate(var) /\ var2 <= LastVar
  /\ ~Matches
  /\ var2' = var2 + 1
  /\ UNCHANGED <<source, prog, pass, at, alive, renamed, var>>

\* var2 becomes var, which is then compared with all the others again.
Absorb ==
  /\ Sharing
  /\ Candidate(var) /\ var2 <= LastVar
  /\ Matches
  /\ Priority(var) > Priority(var2)
  /\ Merge(var2, var)
  /\ var2' = 1
  /\ UNCHANGED <<source, pass, at, var>>

\* var becomes var2, and the next variable is looked at.
GiveUp ==
  /\ Sharing
  /\ Candidate(var) /\ var2 <= LastVar
  /\ Matches
  /\ Priority(var) <= Priority(var2)
  /\ Merge(var, var2)
  /\ var' = var + 1
  /\ var2' = 1
  /\ UNCHANGED <<source, pass, at>>

ShareEnd ==
  /\ Running("share_slots")
  /\ var > LastVar
  /\ pass' = pass + 1
  /\ UNCHANGED <<source, prog, at, alive, renamed, var, var2>>

(***************************************************************************)
(* The passes over the merged block, one iteration of their loop per step.  *)
(***************************************************************************)
Visit(name) ==
  /\ Running(name)
  /\ at <= Len(prog)
  /\ LET r == Iterate(name, prog, at) IN prog' = r.prog /\ at' = r.next
  /\ UNCHANGED <<source, pass, alive, renamed, var, var2>>

NextPass ==
  /\ Running("inlineVars") \/ Running("binary")
  /\ at > Len(prog)
  /\ pass' = pass + 1
  /\ at' = 1
  /\ UNCHANGED <<source, prog, alive, renamed, var, var2>>

Next ==
  \/ Lifetimes
  \/ NextVar \/ NextVar2 \/ Absorb \/ GiveUp \/ ShareEnd
  \/ Visit("inlineVars") \/ Visit("binary") \/ NextPass

\* The compiler is sequential code: a loop that can go on does.
Spec == Init /\ [][Next]_vars /\ WF_vars(Next)

--------------------------------------------------------------------------------
(***************************************************************************)
(* Properties.                                                              *)
(***************************************************************************)

\* Every variable has its type; the loops stay within the variables.
TypeOK ==
  /\ source \in Seq(Op)
  /\ prog \in Seq(Op)
  /\ pass \in 1..Len(Passes) + 1
  /\ at \in 1..Len(prog) + 1
  /\ alive \in [Vars -> SUBSET (1..Len(source))]
  /\ renamed \subseteq Vars
  /\ var \in 1..NumVars + 1
  /\ var2 \in 1..NumVars + 1

\* Merging variables, and the tidying after it, leaves what the block does
\* alone ("merge lifetimes", share_slots.c:70): a merged variable is never
\* overwritten while its value is still needed.
BehaviourPreserved == SameBehaviour(source, prog, Envs, Steps, More)

\* A variable is marked for every operation it is alive in ("re-name to
\* alive_in_op", ir.h:100), and stays so when others are merged into it:
\* share_slots has nothing else to go by.
AliveInOp ==
  Running("share_slots") => \A v \in Vars \ (Ins \cup renamed) : LiveAt(prog, v) \subseteq alive[v]

\* All loops end, though share_slots starts over after each merge.
Terminates == <>Done

================================================================================
