------------------------------ MODULE LlOptProofs ------------------------------
(***************************************************************************)
(* vx_opt_ll changes nothing a block does, whatever the block, and however  *)
(* often its passes run: the invariants of LlOpt, for every value of its    *)
(* constants.                                                               *)
(***************************************************************************)
EXTENDS LlOpt, LlPassesProofs

--------------------------------------------------------------------------------
(***************************************************************************)
(* The inductive invariant.  The passes that only drop or copy leave CMOVs  *)
(* apart until cmov_expand begins; in its loop the CMOVs with an else value *)
(* are all ahead, and after it there are none.                              *)
(***************************************************************************)
NoElse(p) == \A i \in DOMAIN p : ~HasElse(p[i])
ElseAhead(p, k) == \A i \in DOMAIN p : HasElse(p[i]) => i >= k /\ ~Clobbers(p[i])

Expanding == ~Done /\ Passes[pass] = "cmov_expand"

CmovInv ==
  \/ CmovsApart(prog) /\ (Expanding => at = 1)
  \/ Expanding /\ ElseAhead(prog, at)
  \/ NoElse(prog)

Blocks == source \in Code /\ prog \in Code
Same == CmovsApart(source) => CmovInv /\ Equivalent(source, prog)

IInv == TypeOK /\ Blocks /\ Same

LEMMA PassesType == Len(Passes) \in Nat
<1>1. ConstevalIterations \in Nat /\ JumpIterations \in Nat
  BY LlOptAssumption
<1>2. \A n \in Nat, s \in Seq(PassNames) : Times(n, s) \in Seq(PassNames)
  <2> SUFFICES ASSUME NEW n \in Nat, NEW s \in Seq(PassNames)
               PROVE  Times(n, s) \in Seq(PassNames)
    OBVIOUS
  <2> DEFINE len == Len(s)
  <2>1. len \in Nat /\ n * len \in Nat
    OBVIOUS
  <2>2. ASSUME NEW i \in 1..n * len
        PROVE  s[((i - 1) % len) + 1] \in PassNames
    <3>1. len # 0
      BY <2>1
    <3>2. (i - 1) % len \in 0..len - 1
      BY <2>1, <3>1
    <3>3. ((i - 1) % len) + 1 \in 1..len
      BY <2>1, <3>1, <3>2
    <3>4. QED
      BY <3>3
  <2> HIDE DEF len
  <2>3. [i \in 1..n * len |-> s[((i - 1) % len) + 1]] \in Seq(PassNames)
    BY <2>1, <2>2, IsASeq
  <2>4. QED
    BY <2>3 DEF Times, len
<1>3. /\ Dce \in Seq(PassNames) /\ <<"inlineVars", "vars">> \in Seq(PassNames)
      /\ <<"jumps_part1", "jumps_part2">> \o Dce \in Seq(PassNames)
      /\ <<"cmov_expand">> \in Seq(PassNames)
  <2>1. /\ Dce \in Seq(PassNames) /\ <<"inlineVars", "vars">> \in Seq(PassNames)
        /\ <<"jumps_part1", "jumps_part2">> \in Seq(PassNames) /\ <<"cmov_expand">> \in Seq(PassNames)
    BY DEF Dce, PassNames
  <2>2. <<"jumps_part1", "jumps_part2">> \o Dce \in Seq(PassNames)
    BY <2>1, ConcatProperties
  <2>3. QED
    BY <2>1, <2>2
<1> DEFINE inline == Times(ConstevalIterations, <<"inlineVars", "vars">>)
           jumps == Times(JumpIterations, <<"jumps_part1", "jumps_part2">> \o Dce)
<1>4. inline \in Seq(PassNames) /\ jumps \in Seq(PassNames)
  BY <1>1, <1>2, <1>3
<1>5. Passes = Dce \o inline \o <<"cmov_expand">> \o jumps \o inline
  BY DEF Passes
<1> HIDE DEF inline, jumps
<1>6. Passes \in Seq(PassNames)
  BY <1>3, <1>4, <1>5
<1>7. QED
  BY <1>6

--------------------------------------------------------------------------------
(***************************************************************************)
(* What an iteration does to the CMOVs.                                     *)
(***************************************************************************)

\* An operation with its operands replaced by values of IMMs is still apart.
LEMMA DerivedApart ==
  ASSUME NEW p \in Code, NEW q \in Code, Derived(p, q)
  PROVE  /\ CmovsApart(p) => CmovsApart(q)
         /\ NoElse(p) => NoElse(q)
<1>1. DOMAIN p = 1..Len(p) /\ DOMAIN q = 1..Len(q)
  BY CodeType
<1>2. ASSUME NEW j \in 1..Len(q), NEW i \in 1..Len(p), From(p, q[j], p[i])
      PROVE  HasElse(q[j]) <=> HasElse(p[i])
  BY <1>2 DEF From, HasElse
<1>3. NoElse(p) => NoElse(q)
  BY <1>1, <1>2 DEF NoElse, Derived
<1>4. ASSUME CmovsApart(p), NEW j \in 1..Len(q), HasElse(q[j])
      PROVE  ~Clobbers(q[j])
  <2>1. PICK i \in 1..Len(p) : From(p, q[j], p[i])
    BY DEF Derived
  <2>2. /\ HasElse(p[i]) /\ ~Clobbers(p[i])
        /\ \A m \in 1..Len(p) : p[m].id = "IMM" => p[m].args[1] # Var(p[i].out)
    BY <1>1, <1>2, <1>4, <2>1 DEF CmovsApart
  <2>3. q[j].out = p[i].out /\ Len(p[i].args) = 3 /\ 1 \in 1..3 /\ 2 \in 1..3
    BY <2>1, <2>2 DEF From, HasElse
  <2>4. ArgFrom(p, q[j], p[i], 1) /\ ArgFrom(p, q[j], p[i], 2)
    BY <2>1, <2>3 DEF From
  <2>5. Var(p[i].out) # p[i].args[1] /\ Var(p[i].out) # p[i].args[2]
    BY <2>2 DEF Clobbers
  <2>6. Var(p[i].out) # q[j].args[1] /\ Var(p[i].out) # q[j].args[2]
    BY <2>2, <2>4, <2>5 DEF ArgFrom
  <2>7. QED
    BY <2>3, <2>6 DEF Clobbers
<1>5. ASSUME CmovsApart(p), NEW j \in 1..Len(q), HasElse(q[j]),
             NEW m \in 1..Len(q), q[m].id = "IMM"
      PROVE  q[m].args[1] # Var(q[j].out)
  <2>1. PICK i \in 1..Len(p) : From(p, q[j], p[i])
    BY DEF Derived
  <2>2. PICK n \in 1..Len(p) : From(p, q[m], p[n])
    BY DEF Derived
  <2>3. /\ HasElse(p[i]) /\ q[j].out = p[i].out
        /\ \A k \in 1..Len(p) : p[k].id = "IMM" => p[k].args[1] # Var(p[i].out)
    BY <1>1, <1>2, <1>5, <2>1 DEF CmovsApart, From
  <2>4. p[n].id = "IMM" /\ p[n] \in Op
    BY <1>5, <2>2, CodeType DEF From
  <2>5. Len(p[n].args) = 1 /\ 1 \in 1..1
    BY <2>4, OpFields
  <2>6. ArgFrom(p, q[m], p[n], 1)
    BY <2>2, <2>5 DEF From
  <2>7. QED
    BY <2>3, <2>4, <2>6 DEF ArgFrom
<1>6. CmovsApart(p) => CmovsApart(q)
  BY <1>1, <1>4, <1>5 DEF CmovsApart
<1>7. QED
  BY <1>3, <1>6

\* An iteration of cmov_expand leaves the CMOVs with an else value ahead of it.
LEMMA ExpandAhead ==
  ASSUME NEW p \in Code, NEW k \in 1..Len(p)
  PROVE  LET r == CmovExpand(p, k) IN
         /\ ElseAhead(p, k) => ElseAhead(r.prog, r.next)
         /\ NoElse(p) => NoElse(r.prog)
<1>1. DOMAIN p = 1..Len(p) /\ p \in Seq(Op) /\ Len(p) \in Nat /\ p[k] \in Op
  BY CodeType
<1>2. CASE ~HasElse(p[k])
  <2>1. CmovExpand(p, k) = [prog |-> p, next |-> k + 1]
    BY <1>2 DEF CmovExpand, Unchanged
  <2>2. ASSUME ElseAhead(p, k), NEW i \in 1..Len(p), HasElse(p[i])
        PROVE  i >= k + 1
    <3>1. i >= k /\ i # k
      BY <1>1, <1>2, <2>2 DEF ElseAhead
    <3>2. QED
      BY <3>1
  <2>3. ElseAhead(p, k) => ElseAhead(p, k + 1)
    BY <1>1, <2>2 DEF ElseAhead
  <2>4. QED
    BY <2>1, <2>3
<1>3. CASE HasElse(p[k])
  <2> DEFINE q == Expanded(p, k)
  <2>1. CmovExpand(p, k) = [prog |-> q, next |-> k + 2]
    BY <1>3 DEF CmovExpand, Expanded, ElseFirst, WithoutElse
  <2>2. /\ q \in Seq(Op) /\ Len(q) = Len(p) + 1
        /\ q[k] = ElseFirst(p[k]) /\ q[k + 1] = WithoutElse(p[k])
        /\ \A i \in 1..Len(p) : i # k => q[Up(k, i)] = p[i]
    BY <1>1, <1>3, ExpandedIs
  <2> HIDE DEF q
  <2>3. DOMAIN q = 1..Len(p) + 1 /\ ~HasElse(q[k]) /\ ~HasElse(q[k + 1])
    BY <1>1, <1>3, <2>2, ElseOps DEF HasElse
  <2>4. ASSUME NEW j \in 1..Len(p) + 1, HasElse(q[j])
        PROVE  \E i \in 1..Len(p) : i # k /\ j = Up(k, i) /\ q[j] = p[i]
    <3>1. j # k /\ j # k + 1
      BY <2>3, <2>4
    <3>2. CASE j < k
      <4>1. j \in 1..Len(p) /\ j # k /\ j = Up(k, j)
        BY <1>1, <3>2 DEF Up
      <4>2. QED
        BY <2>2, <4>1
    <3>3. CASE j > k + 1
      <4>1. j - 1 \in 1..Len(p) /\ j - 1 # k /\ j = Up(k, j - 1)
        BY <1>1, <3>3 DEF Up
      <4>2. QED
        BY <2>2, <4>1
    <3>4. QED
      BY <1>1, <3>1, <3>2, <3>3
  <2>5. ASSUME ElseAhead(p, k), NEW j \in 1..Len(p) + 1, HasElse(q[j])
        PROVE  j >= k + 2 /\ ~Clobbers(q[j])
    <3>1. PICK i \in 1..Len(p) : i # k /\ j = Up(k, i) /\ q[j] = p[i]
      BY <2>4, <2>5
    <3>2. i >= k /\ ~Clobbers(p[i])
      BY <1>1, <2>5, <3>1 DEF ElseAhead
    <3>3. j >= k + 2
      BY <3>1, <3>2 DEF Up
    <3>4. QED
      BY <3>1, <3>2, <3>3
  <2>6. ElseAhead(p, k) => ElseAhead(q, k + 2)
    BY <2>3, <2>5 DEF ElseAhead
  <2>7. NoElse(p) => NoElse(q)
    BY <1>1, <1>3 DEF NoElse
  <2>8. QED
    BY <2>1, <2>6, <2>7
<1>4. QED
  BY <1>2, <1>3

--------------------------------------------------------------------------------
(***************************************************************************)
(* The invariant is inductive.                                              *)
(***************************************************************************)
LEMMA Initially == Init => IInv
<1> SUFFICES ASSUME Init PROVE IInv
  OBVIOUS
<1>1. source \in Code /\ prog \in Code /\ prog = source /\ pass = 1 /\ at = 1
  BY LlOptAssumption DEF Init, Code
<1>2. Len(prog) \in Nat /\ prog \in Seq(Op)
  BY <1>1, CodeType
<1>3. TypeOK
  BY <1>1, <1>2, PassesType DEF TypeOK
<1>4. Same
  BY <1>1, EquivalentReflexive DEF Same, CmovInv
<1>5. QED
  BY <1>1, <1>3, <1>4 DEF IInv, Blocks

\* An iteration of a pass keeps the invariant.
LEMMA VisitKeeps ==
  ASSUME IInv, NEW name \in PassNames \ {"binary"}, Visit(name)
  PROVE  IInv'
<1>1. /\ source \in Code /\ prog \in Code /\ source' = source /\ pass' = pass /\ ~Done
      /\ Passes[pass] = name /\ at \in 1..Len(prog)
      /\ source \in Seq(Op) /\ pass \in 1..Len(Passes) + 1
  BY CodeType DEF IInv, TypeOK, Blocks, Visit
<1> DEFINE r == Iterate(name, prog, at)
<1>2. prog' = r.prog /\ at' = r.next
  BY DEF Visit
<1>3. name \in PassNames
  OBVIOUS
<1>4. r.prog \in Code /\ r.next \in 1..Len(r.prog) + 1
  BY <1>1, <1>3, IterateCode
<1>5. prog' \in Code /\ at' \in 1..Len(prog') + 1
  BY <1>2, <1>4
<1>6. TypeOK' /\ Blocks'
  <2>1. prog' \in Seq(Op)
    BY <1>5, CodeType
  <2>2. Passes' = Passes
    BY DEF Passes, Times, Dce
  <2>3. QED
    BY <1>1, <1>5, <2>1, <2>2 DEF TypeOK, Blocks
<1>7. Expanding <=> name = "cmov_expand"
  BY <1>1 DEF Expanding
<1>8. Expanding' <=> name = "cmov_expand"
  BY <1>1 DEF Expanding, Done, Passes, Times, Dce
<1>9. ASSUME CmovsApart(source)
      PROVE  CmovInv' /\ Equivalent(source, prog')
  <2>1. CmovInv /\ Equivalent(source, prog)
    BY <1>9 DEF IInv, Same
  <2>2. CASE name = "cmov_expand"
    <3>1. ElseAhead(prog, at) \/ NoElse(prog)
      <4>1. CASE CmovsApart(prog) /\ at = 1
        <5>1. \A i \in DOMAIN prog : i >= 1
          BY <1>1, CodeType
        <5>2. ElseAhead(prog, at)
          BY <4>1, <5>1 DEF ElseAhead, CmovsApart
        <5>3. QED
          BY <5>2
      <4>2. QED
        BY <1>7, <2>1, <2>2, <4>1 DEF CmovInv
    <3>2. r = CmovExpand(prog, at)
      BY <2>2 DEF Iterate
    <3>3. ~Clobbers(prog[at])
      BY <1>1, <3>1, CodeType DEF ElseAhead, NoElse, Clobbers
    <3>4. Improves(prog, r)
      BY <1>1, <1>3, <3>3, IterateImproves
    <3> HIDE DEF r
    <3>5. Equivalent(source, prog')
      BY <1>2, <2>1, <3>4, EquivalentTransitive DEF Improves
    <3>6. ElseAhead(prog', at') \/ NoElse(prog')
      BY <1>1, <1>2, <3>1, <3>2, ExpandAhead
    <3>7. QED
      BY <1>8, <2>2, <3>5, <3>6 DEF CmovInv
  <2>3. CASE name # "cmov_expand"
    <3>1. CmovsApart(prog) \/ NoElse(prog)
      BY <1>7, <2>1, <2>3 DEF CmovInv
    <3>2. Improves(prog, r)
      BY <1>1, <1>3, <2>3, IterateImproves
    <3>3. Derived(prog, r.prog)
      BY <1>1, <2>3, IterateDerived
    <3> HIDE DEF r
    <3>4. Equivalent(source, prog')
      BY <1>2, <2>1, <3>2, EquivalentTransitive DEF Improves
    <3>5. CmovsApart(prog') \/ NoElse(prog')
      BY <1>1, <1>2, <1>5, <3>1, <3>3, DerivedApart
    <3>6. QED
      BY <1>8, <2>3, <3>4, <3>5 DEF CmovInv
  <2>4. QED
    BY <2>2, <2>3
<1>10. Same'
  BY <1>1, <1>9 DEF Same
<1>11. QED
  BY <1>6, <1>10 DEF IInv

LEMMA NextPassKeeps ==
  ASSUME IInv, NextPass
  PROVE  IInv'
<1>1. /\ source' = source /\ prog' = prog /\ pass' = pass + 1 /\ at' = 1
      /\ source \in Code /\ prog \in Code /\ at \in 1..Len(prog) + 1 /\ at > Len(prog)
      /\ pass \in 1..Len(Passes) + 1 /\ ~(pass > Len(Passes))
  BY DEF IInv, TypeOK, Blocks, NextPass, Done
<1>2. Len(Passes) \in Nat /\ Passes' = Passes
  BY PassesType DEF Passes, Times, Dce
<1>3. TypeOK'
  <2>1. source \in Seq(Op) /\ prog \in Seq(Op) /\ Len(prog) \in Nat
    BY <1>1, CodeType
  <2>2. pass + 1 \in 1..Len(Passes) + 1 /\ 1 \in 1..Len(prog) + 1
    BY <1>1, <1>2, <2>1
  <2>3. QED
    BY <1>1, <1>2, <2>1, <2>2 DEF TypeOK
<1>4. ASSUME CmovsApart(source)
      PROVE  CmovInv'
  <2>1. CmovInv
    BY <1>4 DEF IInv, Same
  <2>2. CASE CmovsApart(prog)
    BY <1>1, <2>2 DEF CmovInv
  <2>3. CASE ElseAhead(prog, at)
    <3>1. \A i \in DOMAIN prog : ~(i >= at)
      BY <1>1, CodeType
    <3>2. NoElse(prog)
      BY <2>3, <3>1 DEF ElseAhead, NoElse
    <3>3. QED
      BY <1>1, <3>2 DEF CmovInv
  <2>4. CASE NoElse(prog)
    BY <1>1, <2>4 DEF CmovInv
  <2>5. QED
    BY <2>1, <2>2, <2>3, <2>4 DEF CmovInv
<1>5. QED
  BY <1>1, <1>3, <1>4 DEF IInv, Blocks, Same

LEMMA Inductive == IInv /\ [Next]_vars => IInv'
<1> SUFFICES ASSUME IInv, [Next]_vars PROVE IInv'
  OBVIOUS
<1>1. ASSUME NEW name \in {"dce_labels", "dce_code", "inlineVars", "vars", "cmov_expand",
                            "jumps_part1", "jumps_part2"}, Visit(name)
      PROVE  IInv'
  BY <1>1, VisitKeeps DEF PassNames
<1>2. CASE NextPass
  BY <1>2, NextPassKeeps
<1>3. CASE UNCHANGED vars
  BY <1>3 DEF vars, IInv, TypeOK, Blocks, Same, CmovInv, Expanding, Done, Passes, Times, Dce
<1>4. QED
  BY <1>1, <1>2, <1>3 DEF Next

LEMMA Always == Spec => []IInv
  BY Initially, Inductive, PTL DEF Spec

--------------------------------------------------------------------------------
(***************************************************************************)
(* The properties.                                                          *)
(***************************************************************************)

\* The block, and where the loop of the pass stands in it, keep their types:
\* a loop never runs past the block it grows and shrinks.
THEOREM TypesKept == Spec => []TypeOK
<1>1. IInv => TypeOK
  BY DEF IInv
<1>2. QED
  BY <1>1, Always, PTL

\* No pass drops a label that a jump needs (vx_opt_ll_dce, ll_jumps.c).
THEOREM JumpsFindLabels == Spec => []JumpsDeclared
<1>1. IInv => JumpsDeclared
  BY DEF IInv, Blocks, Code, WellFormed, JumpsDeclared
<1>2. QED
  BY <1>1, Always, PTL

\* Whatever code and jumps are dropped, the last operation leaves the block.
THEOREM NeverRunsOff == Spec => []EndsWithExit
<1>1. IInv => EndsWithExit
  BY DEF IInv, Blocks, Code, WellFormed, EndsWithExit
<1>2. QED
  BY <1>1, Always, PTL

\* vx_opt_ll preserves what the block does: of all it stores and returns, in
\* any number of steps and from any values of its variables, nothing is lost,
\* added or reordered, at any point of any pass.
THEOREM OptimiserCorrect ==
  ASSUME More = Nat
  PROVE  Spec => []BehaviourPreserved
<1>1. IInv => BehaviourPreserved
  <2> SUFFICES ASSUME IInv, CmovsApart(source)
               PROVE  SameBehaviour(source, prog, Envs, Steps, More)
    BY DEF BehaviourPreserved
  <2>1. source \in Code /\ prog \in Code /\ Equivalent(source, prog)
    BY DEF IInv, Blocks, Same
  <2>2. Envs \in SUBSET [Vars -> Num] /\ Steps \in SUBSET Nat
    BY LlOptAssumption
  <2>3. QED
    BY <2>1, <2>2, EquivalentBehaves
<1>2. QED
  BY <1>1, Always, PTL
================================================================================
