------------------------------ MODULE LlirProofs ------------------------------
(***************************************************************************)
(* Lemmas about flat blocks and what they do, for any number of variables,   *)
(* labels and values; and about deterministic executions: the states that   *)
(* can be reached with a step function, and why two executions that stay     *)
(* related see the same.  What is reached is the smallest set closed under   *)
(* the step, so a fact about every reached state is proved by naming a       *)
(* closed set.                                                              *)
(***************************************************************************)
EXTENDS Llir, SequenceTheorems, WellFoundedInduction, TLAPS

Closed(T, C) == \A x \in C : T[x] \in C

\* The states T leads to from s, s included.
Reach(T, s) ==
  {x \in DOMAIN T : \A C \in SUBSET DOMAIN T : s \in C /\ Closed(T, C) => x \in C}

LEMMA ReachType ==
  ASSUME NEW S, NEW T \in [S -> S], NEW s \in S
  PROVE  Reach(T, s) \subseteq S /\ s \in Reach(T, s)
  BY DEF Reach

\* What is reached from s goes on being reached.
LEMMA ReachStep ==
  ASSUME NEW S, NEW T \in [S -> S], NEW s \in S, NEW x \in Reach(T, s)
  PROVE  T[x] \in Reach(T, s)
  BY DEF Reach, Closed

LEMMA ReachInClosed ==
  ASSUME NEW S, NEW T \in [S -> S], NEW s \in S,
         NEW C \in SUBSET S, s \in C, \A x \in C : T[x] \in C
  PROVE  Reach(T, s) \subseteq C
  BY DEF Reach, Closed

LEMMA ReachTransitive ==
  ASSUME NEW S, NEW T \in [S -> S], NEW s \in S, NEW x \in Reach(T, s)
  PROVE  Reach(T, x) \subseteq Reach(T, s)
<1>1. Reach(T, s) \subseteq S
  BY ReachType
<1>2. \A y \in Reach(T, s) : T[y] \in Reach(T, s)
  BY ReachStep
<1>3. QED
  BY <1>1, <1>2, ReachInClosed

\* Where states are related, a step of T1 is answered by some steps of T2, or
\* none, that restore the relation.
Answered(T1, T2, R) ==
  \A x \in DOMAIN T1, y \in DOMAIN T2 :
    <<x, y>> \in R => \E z \in Reach(T2, y) : <<T1[x], z>> \in R

\* Then one execution follows the other.
LEMMA Follows ==
  ASSUME NEW S1, NEW T1 \in [S1 -> S1], NEW a \in S1,
         NEW S2, NEW T2 \in [S2 -> S2], NEW b \in S2,
         NEW R, <<a, b>> \in R, Answered(T1, T2, R)
  PROVE  \A x \in Reach(T1, a) : \E y \in Reach(T2, b) : <<x, y>> \in R
<1> DEFINE C == {x \in S1 : \E y \in Reach(T2, b) : <<x, y>> \in R}
<1>1. a \in C
  BY ReachType
<1>2. ASSUME NEW x \in C
      PROVE  T1[x] \in C
  <2>1. PICK y \in Reach(T2, b) : <<x, y>> \in R
    OBVIOUS
  <2>2. y \in S2
    BY ReachType
  <2>3. PICK z \in Reach(T2, y) : <<T1[x], z>> \in R
    BY <2>1, <2>2 DEF Answered
  <2>4. z \in Reach(T2, b)
    BY <2>3, ReachTransitive
  <2>5. QED
    BY <2>3, <2>4
<1>3. Reach(T1, a) \subseteq C
  BY <1>1, <1>2, ReachInClosed
<1>4. QED
  BY <1>3

\* Related states look the same, and each side answers the other.
Bisimulates(T1, T2, R) ==
  \A x \in DOMAIN T1, y \in DOMAIN T2 : <<x, y>> \in R =>
    /\ Seen(x) = Seen(y)
    /\ \E z \in Reach(T2, y) : <<T1[x], z>> \in R
    /\ \E z \in Reach(T1, x) : <<z, T2[y]>> \in R

SeenAlike(A, B) ==
  /\ \A x \in A : \E y \in B : Seen(x) = Seen(y)
  /\ \A y \in B : \E x \in A : Seen(x) = Seen(y)

\* If each follows the other, the same is seen of both.
LEMMA BothFollow ==
  ASSUME NEW S1, NEW T1 \in [S1 -> S1], NEW a \in S1,
         NEW S2, NEW T2 \in [S2 -> S2], NEW b \in S2,
         NEW R \in SUBSET (S1 \X S2), <<a, b>> \in R, Bisimulates(T1, T2, R)
  PROVE  SeenAlike(Reach(T1, a), Reach(T2, b))
<1>0. \A x \in S1, y \in S2 : <<x, y>> \in R =>
        /\ Seen(x) = Seen(y)
        /\ \E z \in Reach(T2, y) : <<T1[x], z>> \in R
        /\ \E z \in Reach(T1, x) : <<z, T2[y]>> \in R
  BY DEF Bisimulates
<1> DEFINE Q == {u \in S2 \X S1 : <<u[2], u[1]>> \in R}
<1>1. Answered(T1, T2, R)
  BY <1>0 DEF Answered
<1>2. \A x \in Reach(T1, a) : \E y \in Reach(T2, b) : <<x, y>> \in R
  BY <1>1, Follows
<1>3. <<b, a>> \in Q
  OBVIOUS
<1>4. \A y \in S2, x \in S1 : <<y, x>> \in Q <=> <<x, y>> \in R
  OBVIOUS
<1> HIDE DEF Q
<1>5. Answered(T2, T1, Q)
  <2> SUFFICES ASSUME NEW y \in S2, NEW x \in S1, <<y, x>> \in Q
               PROVE  \E z \in Reach(T1, x) : <<T2[y], z>> \in Q
    BY DEF Answered
  <2>1. PICK z \in Reach(T1, x) : <<z, T2[y]>> \in R
    BY <1>0, <1>4
  <2>2. z \in S1 /\ T2[y] \in S2
    BY ReachType
  <2>3. QED
    BY <1>4, <2>1, <2>2
<1>6. \A y \in Reach(T2, b) : \E x \in Reach(T1, a) : <<y, x>> \in Q
  BY <1>3, <1>5, Follows
<1>7. Reach(T1, a) \subseteq S1 /\ Reach(T2, b) \subseteq S2
  BY ReachType
<1>8. ASSUME NEW x \in Reach(T1, a)
      PROVE  \E y \in Reach(T2, b) : Seen(x) = Seen(y)
  BY <1>0, <1>2, <1>7
<1>9. ASSUME NEW y \in Reach(T2, b)
      PROVE  \E x \in Reach(T1, a) : Seen(x) = Seen(y)
  <2>1. PICK x \in Reach(T1, a) : <<y, x>> \in Q
    BY <1>6
  <2>2. x \in S1 /\ y \in S2
    BY <1>7
  <2>3. <<x, y>> \in R
    BY <1>4, <2>1, <2>2
  <2>4. QED
    BY <1>0, <2>2, <2>3
<1>10. QED
  BY <1>8, <1>9 DEF SeenAlike

--------------------------------------------------------------------------------
(***************************************************************************)
(* Induction over the natural numbers, and the execution as a sequence.     *)
(***************************************************************************)
LEMMA LeastNat ==
  ASSUME NEW C \in SUBSET Nat, C # {}
  PROVE  \E n \in C : \A m \in C : n <= m
<1>1. PICK x \in C : \A y \in C : ~(<<y, x>> \in OpToRel(<, Nat))
  BY NatLessThanWellFounded, WFMin
<1>2. \A y \in C : ~(y < x)
  BY <1>1 DEF OpToRel
<1>3. QED
  BY <1>2

LEMMA SetInduction ==
  ASSUME NEW C, 0 \in C, \A n \in Nat : n \in C => n + 1 \in C
  PROVE  Nat \subseteq C
<1> SUFFICES ASSUME Nat \ C # {}
             PROVE  FALSE
  OBVIOUS
<1>1. PICK n \in Nat \ C : \A m \in Nat \ C : n <= m
  BY LeastNat
<1>2. QED
  BY <1>1, n - 1 \in Nat

\* f is the first n steps from s.
IsRun(T, s, n, f) ==
  /\ f \in [0..n -> DOMAIN T]
  /\ f[0] = s
  /\ \A i \in 0..n - 1 : f[i + 1] = T[f[i]]

LEMMA RunsAgree ==
  ASSUME NEW S, NEW T \in [S -> S], NEW s \in S,
         NEW m \in Nat, NEW n \in Nat, NEW f, NEW g,
         IsRun(T, s, m, f), IsRun(T, s, n, g)
  PROVE  \A i \in 0..m : i <= n => f[i] = g[i]
<1> DEFINE C == {i \in Nat : i <= m /\ i <= n => f[i] = g[i]}
<1>1. 0 \in C
  BY DEF IsRun
<1>2. ASSUME NEW i \in Nat, i \in C
      PROVE  i + 1 \in C
  <2> SUFFICES ASSUME i + 1 <= m, i + 1 <= n
               PROVE  f[i + 1] = g[i + 1]
    OBVIOUS
  <2>1. f[i] = g[i] /\ i \in 0..m - 1 /\ i \in 0..n - 1
    BY <1>2
  <2>2. QED
    BY <2>1 DEF IsRun
<1>3. Nat \subseteq C
  BY <1>1, <1>2, SetInduction
<1>4. QED
  BY <1>3

LEMMA RunExists ==
  ASSUME NEW S, NEW T \in [S -> S], NEW s \in S
  PROVE  \A n \in Nat : \E f : IsRun(T, s, n, f)
<1> DEFINE C == {n \in Nat : \E f : IsRun(T, s, n, f)}
<1>1. 0 \in C
  <2>1. IsRun(T, s, 0, [i \in 0..0 |-> s])
    BY DEF IsRun
  <2>2. QED
    BY <2>1
<1>2. ASSUME NEW n \in Nat, n \in C
      PROVE  n + 1 \in C
  <2>1. PICK f : IsRun(T, s, n, f)
    BY <1>2
  <2> DEFINE g == [i \in 0..n + 1 |-> IF i = n + 1 THEN T[f[n]] ELSE f[i]]
  <2>2. g \in [0..n + 1 -> S] /\ g[0] = s
    BY <2>1 DEF IsRun
  <2>3. ASSUME NEW i \in 0..n
        PROVE  g[i + 1] = T[g[i]]
    <3>1. CASE i = n
      BY <3>1
    <3>2. CASE i < n
      <4>1. i \in 0..n - 1 /\ i + 1 \in 0..n + 1 /\ i + 1 # n + 1 /\ i \in 0..n + 1 /\ i # n + 1
        BY <3>2
      <4>2. QED
        BY <4>1, <2>1 DEF IsRun
    <3>3. QED
      BY <3>1, <3>2
  <2>4. IsRun(T, s, n + 1, g)
    BY <2>2, <2>3 DEF IsRun
  <2>5. QED
    BY <2>4
<1>3. Nat \subseteq C
  BY <1>1, <1>2, SetInduction
<1>4. QED
  BY <1>3

\* The whole execution from s, as a sequence of states.
IsOrbit(S, T, s, g) ==
  /\ g \in [Nat -> S]
  /\ g[0] = s
  /\ \A n \in Nat : g[n + 1] = T[g[n]]

LEMMA Orbit ==
  ASSUME NEW S, NEW T \in [S -> S], NEW s \in S
  PROVE  \E g : IsOrbit(S, T, s, g)
<1>1. \E F : \A n \in Nat : IsRun(T, s, n, F[n])
  <2> DEFINE F == [n \in Nat |-> CHOOSE f : IsRun(T, s, n, f)]
  <2>1. \A n \in Nat : IsRun(T, s, n, F[n])
    BY RunExists
  <2>2. QED
    BY <2>1
<1>2. PICK F : \A n \in Nat : IsRun(T, s, n, F[n])
  BY <1>1
<1> DEFINE g == [n \in Nat |-> F[n][n]]
<1>3. g \in [Nat -> S] /\ g[0] = s
  <2>1. \A n \in Nat : F[n][n] \in S
    BY <1>2 DEF IsRun
  <2>2. QED
    BY <1>2, <2>1 DEF IsRun
<1>4. ASSUME NEW n \in Nat
      PROVE  g[n + 1] = T[g[n]]
  <2>1. IsRun(T, s, n, F[n]) /\ IsRun(T, s, n + 1, F[n + 1]) /\ n + 1 \in Nat
    BY <1>2
  <2>2. F[n][n] = F[n + 1][n]
    BY <2>1, RunsAgree
  <2>3. F[n + 1][n + 1] = T[F[n + 1][n]]
    BY <2>1 DEF IsRun
  <2>4. QED
    BY <2>2, <2>3
<1> HIDE DEF g
<1>5. IsOrbit(S, T, s, g)
  BY <1>3, <1>4 DEF IsOrbit
<1>6. QED
  BY <1>5

\* The states of the sequence are those that are reached.
LEMMA OrbitIsReach ==
  ASSUME NEW S, NEW T \in [S -> S], NEW s \in S,
         NEW g \in [Nat -> S], g[0] = s, \A n \in Nat : g[n + 1] = T[g[n]]
  PROVE  Reach(T, s) = {g[n] : n \in Nat}
<1> DEFINE C == {n \in Nat : g[n] \in Reach(T, s)}
           D == {g[n] : n \in Nat}
<1>1. 0 \in C
  BY ReachType
<1>2. \A n \in Nat : n \in C => n + 1 \in C
  BY ReachStep
<1>3. Nat \subseteq C
  BY <1>1, <1>2, SetInduction
<1>4. D \subseteq S /\ s \in D
  OBVIOUS
<1>5. ASSUME NEW x \in D
      PROVE  T[x] \in D
  <2>1. PICK n \in Nat : x = g[n]
    OBVIOUS
  <2>2. T[x] = g[n + 1] /\ n + 1 \in Nat
    BY <2>1
  <2>3. QED
    BY <2>2
<1>6. Reach(T, s) \subseteq D
  BY <1>4, <1>5, ReachInClosed
<1>7. QED
  BY <1>3, <1>6

\* What comes in the first n steps of one comes in the first m of the other.
Within(o, n, u, m) == \A i \in 0..n : \E j \in 0..m : o[i] = u[j]

LEMMA SeenWithin ==
  ASSUME NEW o, NEW u, \A i \in Nat : \E j \in Nat : o[i] = u[j]
  PROVE  \A n \in Nat : \E m \in Nat : Within(o, n, u, m)
<1> DEFINE C == {n \in Nat : \E m \in Nat : Within(o, n, u, m)}
<1>1. 0 \in C
  <2>1. PICK j \in Nat : o[0] = u[j]
    OBVIOUS
  <2>2. Within(o, 0, u, j)
    BY <2>1 DEF Within
  <2>3. QED
    BY <2>2
<1>2. ASSUME NEW k \in Nat, k \in C
      PROVE  k + 1 \in C
  <2>1. PICK m \in Nat : Within(o, k, u, m)
    BY <1>2
  <2>2. PICK j \in Nat : o[k + 1] = u[j]
    OBVIOUS
  <2>3. ASSUME NEW i \in 0..k + 1
        PROVE  \E l \in 0..m + j : o[i] = u[l]
    <3>1. CASE i = k + 1
      BY <2>2, <3>1
    <3>2. CASE i # k + 1
      <4>1. i \in 0..k
        BY <3>2
      <4>2. PICK l \in 0..m : o[i] = u[l]
        BY <2>1, <4>1 DEF Within
      <4>3. QED
        BY <4>2
    <3>3. QED
      BY <3>1, <3>2
  <2>4. Within(o, k + 1, u, m + j) /\ m + j \in Nat
    BY <2>3 DEF Within
  <2>5. QED
    BY <2>4
<1>3. Nat \subseteq C
  BY <1>1, <1>2, SetInduction
<1>4. QED
  BY <1>3

--------------------------------------------------------------------------------
(***************************************************************************)
(* Blocks and the states of their executions.                               *)
(***************************************************************************)

Code == {p \in Seq(Op) : WellFormed(p)}

States(p) == [pc : 1..Len(p), env : [Vars -> Num], trace : Seq(Num), done : BOOLEAN]
Step(p) == [s \in States(p) |-> ExecStep(p, s)]

--------------------------------------------------------------------------------
(***************************************************************************)
(* Types.                                                                   *)
(***************************************************************************)
LEMMA TuplesType ==
  ASSUME NEW n \in Nat, NEW args \in Tuples(n)
  PROVE  args \in Seq(Value) /\ Len(args) = n
<1>1. args = [i \in 1..n |-> args[i]] /\ \A i \in 1..n : args[i] \in Value
  BY DEF Tuples
<1>2. [i \in 1..n |-> args[i]] \in Seq(Value)
  BY <1>1, IsASeq
<1>3. DOMAIN args = 1..n
  BY DEF Tuples
<1>4. QED
  BY <1>1, <1>2, <1>3

\* The fields of an operation, by its kind.
LEMMA OpFields ==
  ASSUME NEW op \in Op
  PROVE  /\ op.id \in Ids
         /\ op.args \in Seq(Value)
         /\ op.id \in Pure => op.out \in Vars
         /\ op.id \in Jumps \cup {"LABEL"} => op.label \in Labels
         /\ op.id \in {"IMM", "NOT", "STORE", "COND"} => Len(op.args) = 1
         /\ op.id \in {"ADD", "SUB"} => Len(op.args) = 2
         /\ op.id = "CMOV" => Len(op.args) \in {2, 3}
         /\ op.id \in {"GOTO", "LABEL"} => Len(op.args) = 0
         /\ op.id \notin Pure => op.out = NoVar
<1>1. CASE op \in [id : {"IMM", "NOT"}, out : Vars, args : Tuples(1), label : {NoLabel}]
  BY <1>1, TuplesType DEF Ids, Pure, Jumps
<1>2. CASE op \in [id : {"ADD", "SUB"}, out : Vars, args : Tuples(2), label : {NoLabel}]
  BY <1>2, TuplesType DEF Ids, Pure, Jumps
<1>3. CASE op \in [id : {"CMOV"}, out : Vars, args : Tuples(2) \cup Tuples(3), label : {NoLabel}]
  BY <1>3, TuplesType DEF Ids, Pure, Jumps
<1>4. CASE op \in [id : {"STORE"}, out : {NoVar}, args : Tuples(1), label : {NoLabel}]
  BY <1>4, TuplesType DEF Ids, Pure, Jumps
<1>5. CASE op \in [id : {"RETURN"}, out : {NoVar}, args : Seq(Value), label : {NoLabel}]
  BY <1>5 DEF Ids, Pure, Jumps
<1>6. CASE op \in [id : {"COND"}, out : {NoVar}, args : Tuples(1), label : Labels]
  BY <1>6, TuplesType DEF Ids, Pure, Jumps
<1>7. CASE op \in [id : {"GOTO", "LABEL"}, out : {NoVar}, args : Tuples(0), label : Labels]
  BY <1>7, TuplesType DEF Ids, Pure, Jumps
<1>8. QED
  BY <1>1, <1>2, <1>3, <1>4, <1>5, <1>6, <1>7 DEF Op

LEMMA CodeType ==
  ASSUME NEW p \in Code
  PROVE  /\ p \in Seq(Op) /\ WellFormed(p)
         /\ Len(p) \in Nat \ {0} /\ DOMAIN p = 1..Len(p)
         /\ \A i \in 1..Len(p) : p[i] \in Op
         /\ EndsFlow(p[Len(p)])
  BY DEF Code, WellFormed, Leaves, Last

LEMMA EvalType ==
  ASSUME NEW env \in [Vars -> Num], NEW val \in Value
  PROVE  Eval(env, val) \in Num
  BY DEF Eval, Value

LEMMA ResultType ==
  ASSUME NEW env \in [Vars -> Num], NEW op \in Op, op.id \in Pure
  PROVE  Result(env, op) \in Num
<1> DEFINE a(i) == Eval(env, op.args[i])
<1>1. \A i \in 1..Len(op.args) : a(i) \in Num
  BY OpFields, EvalType
<1>2. Modulus \in Nat /\ Modulus > 1 /\ 0 \in Num /\ 1 \in Num
  BY LlirAssumption DEF Num
<1>3. op.id \in {"IMM", "ADD", "SUB", "NOT", "CMOV"} /\ op.out \in Vars
  BY OpFields DEF Pure
<1>4. CASE op.id = "IMM"
  <2>1. Result(env, op) = a(1)
    BY <1>4 DEF Result
  <2>2. QED
    BY <1>1, <1>4, <2>1, OpFields
<1>5. CASE op.id = "ADD"
  <2>1. Result(env, op) = (a(1) + a(2)) % Modulus
    BY <1>5 DEF Result
  <2>2. a(1) \in Int /\ a(2) \in Int
    BY <1>1, <1>2, <1>5, OpFields DEF Num
  <2>3. QED
    BY <1>2, <2>1, <2>2 DEF Num
<1>6. CASE op.id = "SUB"
  <2>1. Result(env, op) = (a(1) - a(2)) % Modulus
    BY <1>6 DEF Result
  <2>2. a(1) \in Int /\ a(2) \in Int
    BY <1>1, <1>2, <1>6, OpFields DEF Num
  <2>3. QED
    BY <1>2, <2>1, <2>2 DEF Num
<1>7. CASE op.id = "NOT"
  <2>1. Result(env, op) \in {0, 1}
    BY <1>7 DEF Result
  <2>2. QED
    BY <1>2, <2>1
<1>8. CASE op.id = "CMOV"
  <2>1. \/ Result(env, op) = a(2)
        \/ Len(op.args) = 3 /\ Result(env, op) = a(3)
        \/ Result(env, op) = env[op.out]
    BY <1>8 DEF Result
  <2>2. Len(op.args) \in {2, 3}
    BY <1>8, OpFields
  <2>3. QED
    BY <1>1, <1>3, <2>1, <2>2
<1>9. QED
  BY <1>3, <1>4, <1>5, <1>6, <1>7, <1>8

--------------------------------------------------------------------------------
(***************************************************************************)
(* Labels.                                                                  *)
(***************************************************************************)
LEMMA LabelFound ==
  ASSUME NEW p \in Code, NEW i \in 1..Len(p), p[i].id = "LABEL"
  PROVE  LabelAt(p, p[i].label) = i
<1>1. \E j \in DOMAIN p : p[j].id = "LABEL" /\ p[j].label = p[i].label
  BY CodeType
<1>2. \A j \in DOMAIN p : p[j].id = "LABEL" /\ p[j].label = p[i].label => j = i
  BY CodeType DEF WellFormed, LabelsUnique
<1>3. QED
  BY <1>1, <1>2 DEF LabelAt

LEMMA JumpFindsLabel ==
  ASSUME NEW p \in Code, NEW i \in 1..Len(p), p[i].id \in Jumps
  PROVE  /\ LabelAt(p, p[i].label) \in 1..Len(p)
         /\ p[LabelAt(p, p[i].label)].id = "LABEL"
         /\ p[LabelAt(p, p[i].label)].label = p[i].label
<1>1. \E j \in DOMAIN p : p[j].id = "LABEL" /\ p[j].label = p[i].label
  BY CodeType DEF WellFormed, JumpsHaveLabels, Declared
<1>2. QED
  BY <1>1, CodeType DEF LabelAt

\* What does not end the flow is not last.
LEMMA NotLast ==
  ASSUME NEW p \in Code, NEW i \in 1..Len(p), ~EndsFlow(p[i])
  PROVE  i < Len(p)
  BY CodeType

--------------------------------------------------------------------------------
(***************************************************************************)
(* One step of execution, by the kind of the operation.                     *)
(***************************************************************************)
LEMMA StateFields ==
  ASSUME NEW p \in Code, NEW s \in States(p)
  PROVE  /\ s.pc \in 1..Len(p) /\ s.env \in [Vars -> Num] /\ s.trace \in Seq(Num) /\ s.done \in BOOLEAN
         /\ s = [pc |-> s.pc, env |-> s.env, trace |-> s.trace, done |-> s.done]
         /\ p[s.pc] \in Op
  BY CodeType DEF States

LEMMA ExecDone ==
  ASSUME NEW p, NEW s, s.done
  PROVE  ExecStep(p, s) = s
  BY DEF ExecStep

LEMMA ExecPure ==
  ASSUME NEW p \in Code, NEW s \in States(p), ~s.done, p[s.pc].id \in Pure
  PROVE  ExecStep(p, s) = [pc |-> s.pc + 1,
                           env |-> [s.env EXCEPT ![p[s.pc].out] = Result(s.env, p[s.pc])],
                           trace |-> s.trace, done |-> FALSE]
<1>1. s = [pc |-> s.pc, env |-> s.env, trace |-> s.trace, done |-> s.done] /\ s.done \in BOOLEAN
  BY StateFields
<1>2. ExecStep(p, s) = [s EXCEPT !.pc = s.pc + 1, !.env = [s.env EXCEPT ![p[s.pc].out] = Result(s.env, p[s.pc])]]
  BY <1>1 DEF ExecStep, Pure
<1>3. QED
  BY <1>1, <1>2

LEMMA ExecStore ==
  ASSUME NEW p \in Code, NEW s \in States(p), ~s.done, p[s.pc].id = "STORE"
  PROVE  ExecStep(p, s) = [pc |-> s.pc + 1, env |-> s.env,
                           trace |-> Append(s.trace, Eval(s.env, p[s.pc].args[1])), done |-> FALSE]
<1>1. s = [pc |-> s.pc, env |-> s.env, trace |-> s.trace, done |-> s.done] /\ s.done \in BOOLEAN
  BY StateFields
<1>2. ExecStep(p, s) = [s EXCEPT !.pc = s.pc + 1, !.trace = Append(s.trace, Eval(s.env, p[s.pc].args[1]))]
  BY <1>1 DEF ExecStep, Pure
<1>3. QED
  BY <1>1, <1>2

LEMMA ExecLabel ==
  ASSUME NEW p \in Code, NEW s \in States(p), ~s.done, p[s.pc].id = "LABEL"
  PROVE  ExecStep(p, s) = [pc |-> s.pc + 1, env |-> s.env, trace |-> s.trace, done |-> FALSE]
<1>1. s = [pc |-> s.pc, env |-> s.env, trace |-> s.trace, done |-> s.done] /\ s.done \in BOOLEAN
  BY StateFields
<1>2. ExecStep(p, s) = [s EXCEPT !.pc = s.pc + 1]
  BY <1>1 DEF ExecStep, Pure
<1>3. QED
  BY <1>1, <1>2

LEMMA ExecReturn ==
  ASSUME NEW p \in Code, NEW s \in States(p), ~s.done, p[s.pc].id = "RETURN"
  PROVE  ExecStep(p, s) =
           [pc |-> s.pc, env |-> s.env, done |-> TRUE,
            trace |-> s.trace \o [i \in DOMAIN p[s.pc].args |-> Eval(s.env, p[s.pc].args[i])]]
<1>1. s = [pc |-> s.pc, env |-> s.env, trace |-> s.trace, done |-> s.done] /\ s.done \in BOOLEAN
  BY StateFields
<1>2. ExecStep(p, s) = [s EXCEPT !.done = TRUE,
                            !.trace = s.trace \o [i \in DOMAIN p[s.pc].args |-> Eval(s.env, p[s.pc].args[i])]]
  BY <1>1 DEF ExecStep, Pure
<1>3. QED
  BY <1>1, <1>2

\* A jump is taken: always, or if the value of its condition is not zero.
Taken(op, env) ==
  \/ op.id = "GOTO"
  \/ op.id = "COND" /\ Eval(env, op.args[1]) # 0

LEMMA ExecJump ==
  ASSUME NEW p \in Code, NEW s \in States(p), ~s.done, p[s.pc].id \in Jumps
  PROVE  ExecStep(p, s) = [pc |-> IF Taken(p[s.pc], s.env) THEN LabelAt(p, p[s.pc].label) ELSE s.pc + 1,
                           env |-> s.env, trace |-> s.trace, done |-> FALSE]
<1>1. s = [pc |-> s.pc, env |-> s.env, trace |-> s.trace, done |-> s.done] /\ s.done \in BOOLEAN
  BY StateFields
<1>2. CASE p[s.pc].id = "GOTO"
  <2>1. ExecStep(p, s) = [s EXCEPT !.pc = LabelAt(p, p[s.pc].label)]
    BY <1>1, <1>2 DEF ExecStep, Pure
  <2>2. QED
    BY <1>1, <1>2, <2>1 DEF Taken
<1>3. CASE p[s.pc].id = "COND"
  <2>1. ExecStep(p, s) = IF Eval(s.env, p[s.pc].args[1]) # 0
                         THEN [s EXCEPT !.pc = LabelAt(p, p[s.pc].label)] ELSE [s EXCEPT !.pc = s.pc + 1]
    BY <1>1, <1>3 DEF ExecStep, Pure
  <2>2. QED
    BY <1>1, <1>3, <2>1 DEF Taken
<1>4. QED
  BY <1>2, <1>3 DEF Jumps

LEMMA StateType ==
  ASSUME NEW p, NEW i \in 1..Len(p), NEW env \in [Vars -> Num], NEW trace \in Seq(Num),
         NEW done \in BOOLEAN
  PROVE  [pc |-> i, env |-> env, trace |-> trace, done |-> done] \in States(p)
  BY DEF States

LEMMA StepType ==
  ASSUME NEW p \in Code
  PROVE  Step(p) \in [States(p) -> States(p)]
<1> SUFFICES ASSUME NEW s \in States(p)
             PROVE  ExecStep(p, s) \in States(p)
  BY DEF Step
<1> DEFINE op == p[s.pc]
<1>1. /\ s.pc \in 1..Len(p) /\ s.env \in [Vars -> Num] /\ s.trace \in Seq(Num) /\ s.done \in BOOLEAN
      /\ op \in Op /\ Len(p) \in Nat
  BY CodeType, StateFields
<1>2. CASE s.done
  BY <1>2, ExecDone
<1>3. CASE ~s.done /\ op.id = "RETURN"
  <2>1. op.args \in Seq(Value) /\ \A i \in 1..Len(op.args) : Eval(s.env, op.args[i]) \in Num
    BY <1>1, OpFields, EvalType
  <2>2. DOMAIN op.args = 1..Len(op.args) /\ Len(op.args) \in Nat
    BY <2>1
  <2> DEFINE returned == [i \in DOMAIN op.args |-> Eval(s.env, op.args[i])]
  <2>3. returned \in Seq(Num)
    <3>1. [i \in 1..Len(op.args) |-> Eval(s.env, op.args[i])] \in Seq(Num)
      BY <2>1, <2>2, IsASeq
    <3>2. QED
      BY <3>1, <2>2
  <2>4. s.trace \o returned \in Seq(Num)
    BY <1>1, <2>3, ConcatProperties
  <2>5. ExecStep(p, s) = [pc |-> s.pc, env |-> s.env, done |-> TRUE, trace |-> s.trace \o returned]
    BY <1>3, ExecReturn
  <2> HIDE DEF returned
  <2>6. QED
    BY <1>1, <2>4, <2>5 DEF States
<1>4. CASE ~s.done /\ op.id \in Jumps
  <2>1. LabelAt(p, op.label) \in 1..Len(p)
    BY <1>1, <1>4, JumpFindsLabel
  <2>2. ~Taken(op, s.env) => s.pc + 1 \in 1..Len(p)
    BY <1>1, <1>4, NotLast DEF EndsFlow, Taken, Jumps
  <2>3. ExecStep(p, s) = [pc |-> IF Taken(op, s.env) THEN LabelAt(p, op.label) ELSE s.pc + 1,
                          env |-> s.env, trace |-> s.trace, done |-> FALSE]
    BY <1>4, ExecJump
  <2>4. (IF Taken(op, s.env) THEN LabelAt(p, op.label) ELSE s.pc + 1) \in 1..Len(p)
    BY <2>1, <2>2
  <2>5. QED
    BY <1>1, <2>3, <2>4, StateType
<1>5. CASE ~s.done /\ op.id \in Pure \cup {"STORE", "LABEL"}
  <2>1. s.pc + 1 \in 1..Len(p)
    BY <1>1, <1>5, NotLast DEF EndsFlow, Pure
  <2>2. CASE op.id \in Pure
    <3> DEFINE env2 == [s.env EXCEPT ![op.out] = Result(s.env, op)]
    <3>1. env2 \in [Vars -> Num]
      BY <1>1, <2>2, OpFields, ResultType
    <3>2. ExecStep(p, s) = [pc |-> s.pc + 1, env |-> env2, trace |-> s.trace, done |-> FALSE]
      BY <1>5, <2>2, ExecPure
    <3> HIDE DEF env2
    <3>3. QED
      BY <1>1, <2>1, <3>1, <3>2, StateType
  <2>3. CASE op.id = "STORE"
    <3>1. Eval(s.env, op.args[1]) \in Num
      BY <1>1, <2>3, OpFields, EvalType
    <3>2. Append(s.trace, Eval(s.env, op.args[1])) \in Seq(Num)
      BY <1>1, <3>1, AppendProperties
    <3>3. ExecStep(p, s) = [pc |-> s.pc + 1, env |-> s.env,
                            trace |-> Append(s.trace, Eval(s.env, op.args[1])), done |-> FALSE]
      BY <1>5, <2>3, ExecStore
    <3>4. QED
      BY <1>1, <2>1, <3>2, <3>3, StateType
  <2>4. CASE op.id = "LABEL"
    <3>1. ExecStep(p, s) = [pc |-> s.pc + 1, env |-> s.env, trace |-> s.trace, done |-> FALSE]
      BY <1>5, <2>4, ExecLabel
    <3>2. QED
      BY <1>1, <2>1, <3>1, StateType
  <2>5. QED
    BY <1>5, <2>2, <2>3, <2>4
<1>6. QED
  BY <1>1, <1>2, <1>3, <1>4, <1>5, OpFields DEF Ids, Jumps

\* The states differ at most in the variables D.
Agree(D, s, t) ==
  /\ s.trace = t.trace
  /\ s.done = t.done
  /\ \A v \in Vars \ D : s.env[v] = t.env[v]

\* The operations do the same with the same values.
Alike(op1, env1, op2, env2) ==
  /\ op1.id = op2.id /\ op1.out = op2.out /\ op1.label = op2.label
  /\ Len(op1.args) = Len(op2.args)
  /\ \A i \in 1..Len(op1.args) : Eval(env1, op1.args[i]) = Eval(env2, op2.args[i])

LEMMA ResultAlike ==
  ASSUME NEW op1 \in Op, NEW op2 \in Op, NEW env1, NEW env2,
         op1.id \in Pure, Alike(op1, env1, op2, env2), env1[op1.out] = env2[op1.out]
  PROVE  Result(env1, op1) = Result(env2, op2)
<1>1. op1.id \in {"IMM", "ADD", "SUB", "NOT", "CMOV"}
  BY DEF Pure
<1>2. /\ op1.id \in {"IMM", "NOT"} => Len(op1.args) = 1
      /\ op1.id \in {"ADD", "SUB"} => Len(op1.args) = 2
      /\ op1.id = "CMOV" => Len(op1.args) \in {2, 3}
  BY OpFields
<1>3. CASE op1.id \in {"IMM", "NOT"}
  BY <1>2, <1>3 DEF Result, Alike
<1>4. CASE op1.id \in {"ADD", "SUB"}
  BY <1>2, <1>4 DEF Result, Alike
<1>5. CASE op1.id = "CMOV"
  BY <1>2, <1>5 DEF Result, Alike
<1>6. QED
  BY <1>1, <1>3, <1>4, <1>5

\* Two operations that are alike, executed in states that agree.
LEMMA StepAlike ==
  ASSUME NEW p \in Code, NEW q \in Code, NEW D \in SUBSET Vars,
         NEW s \in States(p), NEW t \in States(q),
         Agree(D, s, t), ~s.done, Alike(p[s.pc], s.env, q[t.pc], t.env)
  PROVE  LET op == p[s.pc]
             n == ExecStep(p, s)
             m == ExecStep(q, t) IN
         /\ Agree(D, n, m)
         /\ \/ n.pc = s.pc + 1 /\ m.pc = t.pc + 1 /\ ~EndsFlow(op)
            \/ n.pc = s.pc /\ m.pc = t.pc /\ n.done
            \/ op.id \in Jumps /\ n.pc = LabelAt(p, op.label) /\ m.pc = LabelAt(q, op.label)
<1> DEFINE op == p[s.pc]
           op2 == q[t.pc]
<1>1. /\ s.env \in [Vars -> Num] /\ t.env \in [Vars -> Num]
      /\ op \in Op /\ op2 \in Op
      /\ s.trace = t.trace /\ ~s.done /\ ~t.done
      /\ \A v \in Vars \ D : s.env[v] = t.env[v]
  BY StateFields DEF Agree
<1>2. /\ op2.id = op.id /\ op2.out = op.out /\ op2.label = op.label
      /\ Len(op2.args) = Len(op.args)
      /\ \A i \in 1..Len(op.args) : Eval(s.env, op.args[i]) = Eval(t.env, op2.args[i])
  BY DEF Alike
<1>3. CASE op.id \in Pure
  <2>1. op.out \in Vars
    BY <1>1, <1>3, OpFields
  <2>2. ExecStep(p, s) = [pc |-> s.pc + 1, env |-> [s.env EXCEPT ![op.out] = Result(s.env, op)],
                          trace |-> s.trace, done |-> FALSE]
    BY <1>1, <1>3, ExecPure
  <2>3. ExecStep(q, t) = [pc |-> t.pc + 1, env |-> [t.env EXCEPT ![op2.out] = Result(t.env, op2)],
                          trace |-> t.trace, done |-> FALSE]
    BY <1>1, <1>2, <1>3, ExecPure
  <2>4. op.out \notin D => Result(s.env, op) = Result(t.env, op2)
    BY <1>1, <1>3, <2>1, ResultAlike
  <2>5. \A v \in Vars \ D : [s.env EXCEPT ![op.out] = Result(s.env, op)][v]
                              = [t.env EXCEPT ![op2.out] = Result(t.env, op2)][v]
    BY <1>1, <1>2, <2>1, <2>4
  <2>6. ~EndsFlow(op)
    BY <1>3 DEF Pure, EndsFlow
  <2>7. QED
    BY <1>1, <2>2, <2>3, <2>5, <2>6 DEF Agree
<1>4. CASE op.id = "STORE"
  <2>1. Eval(s.env, op.args[1]) = Eval(t.env, op2.args[1])
    BY <1>1, <1>2, <1>4, OpFields
  <2>2. ExecStep(p, s) = [pc |-> s.pc + 1, env |-> s.env,
                          trace |-> Append(s.trace, Eval(s.env, op.args[1])), done |-> FALSE]
    BY <1>1, <1>4, ExecStore
  <2>3. ExecStep(q, t) = [pc |-> t.pc + 1, env |-> t.env,
                          trace |-> Append(t.trace, Eval(t.env, op2.args[1])), done |-> FALSE]
    BY <1>1, <1>2, <1>4, ExecStore
  <2>4. ~EndsFlow(op)
    BY <1>4 DEF EndsFlow
  <2>5. QED
    BY <1>1, <2>1, <2>2, <2>3, <2>4 DEF Agree
<1>5. CASE op.id = "LABEL"
  <2>1. ExecStep(p, s) = [pc |-> s.pc + 1, env |-> s.env, trace |-> s.trace, done |-> FALSE]
    BY <1>1, <1>5, ExecLabel
  <2>2. ExecStep(q, t) = [pc |-> t.pc + 1, env |-> t.env, trace |-> t.trace, done |-> FALSE]
    BY <1>1, <1>2, <1>5, ExecLabel
  <2>3. ~EndsFlow(op)
    BY <1>5 DEF EndsFlow
  <2>4. QED
    BY <1>1, <2>1, <2>2, <2>3 DEF Agree
<1>6. CASE op.id \in Jumps
  <2>1. Taken(op, s.env) <=> Taken(op2, t.env)
    BY <1>1, <1>2, <1>6, OpFields DEF Taken
  <2>2. ExecStep(p, s) = [pc |-> IF Taken(op, s.env) THEN LabelAt(p, op.label) ELSE s.pc + 1,
                          env |-> s.env, trace |-> s.trace, done |-> FALSE]
    BY <1>1, <1>6, ExecJump
  <2>3. ExecStep(q, t) = [pc |-> IF Taken(op2, t.env) THEN LabelAt(q, op2.label) ELSE t.pc + 1,
                          env |-> t.env, trace |-> t.trace, done |-> FALSE]
    BY <1>1, <1>2, <1>6, ExecJump
  <2>4. ~Taken(op, s.env) => ~EndsFlow(op)
    BY <1>6 DEF EndsFlow, Jumps, Taken
  <2>5. CASE Taken(op, s.env)
    BY <1>1, <1>2, <1>6, <2>1, <2>2, <2>3, <2>5 DEF Agree
  <2>6. CASE ~Taken(op, s.env)
    BY <1>1, <2>1, <2>2, <2>3, <2>4, <2>6 DEF Agree
  <2>7. QED
    BY <2>5, <2>6
<1>7. CASE op.id = "RETURN"
  <2>1. DOMAIN op.args = 1..Len(op.args) /\ DOMAIN op2.args = 1..Len(op.args)
    BY <1>1, <1>2, OpFields
  <2> DEFINE returned == [i \in DOMAIN op.args |-> Eval(s.env, op.args[i])]
             returned2 == [i \in DOMAIN op2.args |-> Eval(t.env, op2.args[i])]
  <2>2. returned = returned2
    BY <1>2, <2>1
  <2>3. ExecStep(p, s) = [pc |-> s.pc, env |-> s.env, done |-> TRUE, trace |-> s.trace \o returned]
    BY <1>1, <1>7, ExecReturn
  <2>4. ExecStep(q, t) = [pc |-> t.pc, env |-> t.env, done |-> TRUE, trace |-> t.trace \o returned2]
    BY <1>1, <1>2, <1>7, ExecReturn
  <2> HIDE DEF returned, returned2
  <2>5. QED
    BY <1>1, <2>2, <2>3, <2>4 DEF Agree
<1>8. QED
  BY <1>1, <1>3, <1>4, <1>5, <1>6, <1>7, OpFields DEF Ids

--------------------------------------------------------------------------------
(***************************************************************************)
(* What a block does, for any number of steps.                              *)
(***************************************************************************)

\* All that can ever be seen of an execution.
Outcomes(p, env) == {Seen(s) : s \in Reach(Step(p), Start(env))}

Equivalent(p, q) == \A env \in [Vars -> Num] : Outcomes(p, env) = Outcomes(q, env)

LEMMA EquivalentReflexive == ASSUME NEW p PROVE Equivalent(p, p)
  BY DEF Equivalent

LEMMA EquivalentTransitive ==
  ASSUME NEW p, NEW q, NEW r, Equivalent(p, q), Equivalent(q, r)
  PROVE  Equivalent(p, r)
  BY DEF Equivalent

LEMMA StartType ==
  ASSUME NEW p \in Code, NEW env \in [Vars -> Num]
  PROVE  Start(env) \in States(p)
<1>1. 1 \in 1..Len(p) /\ <<>> \in Seq(Num)
  BY CodeType
<1>2. QED
  BY <1>1, StateType DEF Start

\* Two blocks are equivalent if some relation between their states is kept up,
\* whichever of the two takes a step and the other answers.
LEMMA Bisimulation ==
  ASSUME NEW p \in Code, NEW q \in Code, NEW R \in SUBSET (States(p) \X States(q)),
         \A env \in [Vars -> Num] : <<Start(env), Start(env)>> \in R,
         \A s \in States(p), t \in States(q) : <<s, t>> \in R =>
           /\ Seen(s) = Seen(t)
           /\ \E n \in Reach(Step(q), t) : <<ExecStep(p, s), n>> \in R
           /\ \E n \in Reach(Step(p), s) : <<n, ExecStep(q, t)>> \in R
  PROVE  Equivalent(p, q)
<1> SUFFICES ASSUME NEW env \in [Vars -> Num]
             PROVE  Outcomes(p, env) = Outcomes(q, env)
  BY DEF Equivalent
<1>1. /\ Step(p) \in [States(p) -> States(p)] /\ Step(q) \in [States(q) -> States(q)]
      /\ \A s \in States(p) : Step(p)[s] = ExecStep(p, s)
      /\ \A t \in States(q) : Step(q)[t] = ExecStep(q, t)
  BY StepType DEF Step
<1>2. Start(env) \in States(p) /\ Start(env) \in States(q) /\ <<Start(env), Start(env)>> \in R
  BY StartType
<1>3. Bisimulates(Step(p), Step(q), R)
  BY <1>1 DEF Bisimulates
<1>4. SeenAlike(Reach(Step(p), Start(env)), Reach(Step(q), Start(env)))
  BY <1>1, <1>2, <1>3, BothFollow
<1>5. QED
  BY <1>4 DEF Outcomes, SeenAlike

\* The executions TLC compares are these, cut off after a number of steps.
Unfolding(p, env, n, run) ==
  run = [i \in 0..n |->
          IF i = 0 THEN [state |-> Start(env), seen |-> {Seen(Start(env))}]
          ELSE LET before == run[i - 1]
                   s == ExecStep(p, before.state)
               IN [state |-> s, seen |-> before.seen \cup {Seen(s)}]]

LEMMA ExecutionUnfolds ==
  ASSUME NEW p, NEW env, NEW n \in Nat, NEW h, Unfolding(p, env, n, h)
  PROVE  Execution(p, env, n) = h[n]
<1>1. ASSUME NEW f, Unfolding(p, env, n, f)
      PROVE  f = h
  <2> DEFINE C == {i \in Nat : i <= n => f[i] = h[i]}
  <2>1. 0 \in C
    BY <1>1 DEF Unfolding
  <2>2. ASSUME NEW i \in Nat, i \in C
        PROVE  i + 1 \in C
    <3> SUFFICES ASSUME i + 1 <= n
                 PROVE  f[i + 1] = h[i + 1]
      OBVIOUS
    <3>1. f[i] = h[i] /\ i + 1 \in 0..n /\ i + 1 # 0 /\ (i + 1) - 1 = i
      BY <2>2
    <3> DEFINE next(b) == [state |-> ExecStep(p, b.state),
                           seen |-> b.seen \cup {Seen(ExecStep(p, b.state))}]
    <3>2. f[i + 1] = next(f[i])
      BY <1>1, <3>1 DEF Unfolding
    <3>3. h[i + 1] = next(h[i])
      BY <3>1 DEF Unfolding
    <3>4. QED
      BY <3>1, <3>2, <3>3
  <2>3. Nat \subseteq C
    BY <2>1, <2>2, SetInduction
  <2>4. \A i \in 0..n : f[i] = h[i]
    BY <2>3
  <2>5. f = [i \in 0..n |-> f[i]] /\ h = [i \in 0..n |-> h[i]]
    BY <1>1 DEF Unfolding
  <2>6. [i \in 0..n |-> f[i]] = [i \in 0..n |-> h[i]]
    BY <2>4
  <2>7. QED
    BY <2>5, <2>6
<1> DEFINE R == CHOOSE f : Unfolding(p, env, n, f)
<1>2. R = h
  BY <1>1
<1>3. Execution(p, env, n) = R[n]
  BY DEF Execution, Unfolding
<1>4. QED
  BY <1>2, <1>3

LEMMA ExecutionIs ==
  ASSUME NEW p, NEW env, NEW n \in Nat, NEW g, g[0] = Start(env),
         \A i \in Nat : g[i + 1] = ExecStep(p, g[i])
  PROVE  Observations(p, env, n) = {Seen(g[i]) : i \in 0..n}
<1> DEFINE seen(i) == {Seen(g[j]) : j \in 0..i}
           h == [i \in 0..n |-> [state |-> g[i], seen |-> seen(i)]]
<1>1. seen(0) = {Seen(Start(env))}
  BY 0..0 = {0}
<1>2. \A i \in Nat : i # 0 => seen(i) = seen(i - 1) \cup {Seen(g[i])}
  <2> SUFFICES ASSUME NEW i \in Nat, i # 0
               PROVE  seen(i) = seen(i - 1) \cup {Seen(g[i])}
    OBVIOUS
  <2>1. 0..i = 0..i - 1 \cup {i}
    OBVIOUS
  <2>2. QED
    BY <2>1
<1>3. \A i \in Nat : i # 0 => g[i] = ExecStep(p, g[i - 1])
  <2> SUFFICES ASSUME NEW i \in Nat, i # 0
               PROVE  g[i] = ExecStep(p, g[i - 1])
    OBVIOUS
  <2>1. i - 1 \in Nat /\ (i - 1) + 1 = i
    OBVIOUS
  <2>2. QED
    BY <2>1
<1> HIDE DEF seen
<1>4. \A i \in 0..n : h[i] = [state |-> g[i], seen |-> seen(i)]
  OBVIOUS
<1>5. ASSUME NEW i \in 0..n
      PROVE  h[i] = IF i = 0 THEN [state |-> Start(env), seen |-> {Seen(Start(env))}]
                    ELSE LET before == h[i - 1]
                             s == ExecStep(p, before.state)
                         IN [state |-> s, seen |-> before.seen \cup {Seen(s)}]
  <2>1. CASE i = 0
    BY <1>1, <1>4, <2>1
  <2>2. CASE i # 0
    <3>1. i - 1 \in 0..n /\ i \in Nat
      BY <2>2
    <3>2. h[i - 1].state = g[i - 1] /\ h[i - 1].seen = seen(i - 1)
      BY <1>4, <3>1
    <3>3. QED
      BY <1>2, <1>3, <1>4, <2>2, <3>1, <3>2
  <2>3. QED
    BY <2>1, <2>2
<1>6. Unfolding(p, env, n, h)
  BY <1>5 DEF Unfolding
<1>7. h[n].seen = seen(n)
  BY <1>4
<1> HIDE DEF h
<1>8. Execution(p, env, n) = h[n]
  BY <1>6, ExecutionUnfolds
<1>9. QED
  BY <1>7, <1>8 DEF Observations, seen

\* An execution as a sequence of states: what is observed in n steps, and in all.
LEMMA Trajectory ==
  ASSUME NEW p \in Code, NEW env \in [Vars -> Num]
  PROVE  \E o : /\ \A n \in Nat : Observations(p, env, n) = {o[i] : i \in 0..n}
                /\ Outcomes(p, env) = {o[i] : i \in Nat}
<1> DEFINE T == Step(p)
           S == States(p)
<1>1. T \in [S -> S] /\ Start(env) \in S /\ \A s \in S : T[s] = ExecStep(p, s)
  BY StepType, StartType DEF Step
<1>2. PICK g \in [Nat -> S] : g[0] = Start(env) /\ \A n \in Nat : g[n + 1] = T[g[n]]
  <2>1. PICK g : IsOrbit(S, T, Start(env), g)
    BY <1>1, Orbit
  <2>2. QED
    BY <2>1 DEF IsOrbit
<1>3. \A n \in Nat : g[n + 1] = ExecStep(p, g[n])
  BY <1>1, <1>2
<1> DEFINE o == [i \in Nat |-> Seen(g[i])]
<1>4. ASSUME NEW n \in Nat
      PROVE  Observations(p, env, n) = {o[i] : i \in 0..n}
  <2>1. Observations(p, env, n) = {Seen(g[i]) : i \in 0..n}
    BY <1>2, <1>3, ExecutionIs
  <2>2. QED
    BY <2>1
<1>5. Reach(T, Start(env)) = {g[n] : n \in Nat}
  BY <1>1, <1>2, OrbitIsReach
<1>6. Outcomes(p, env) = {o[i] : i \in Nat}
  BY <1>5 DEF Outcomes
<1>7. QED
  BY <1>4, <1>6

LEMMA ObservationsGrow ==
  ASSUME NEW p \in Code, NEW env \in [Vars -> Num], NEW m \in Nat, NEW n \in Nat, m <= n
  PROVE  Observations(p, env, m) \subseteq Observations(p, env, n)
<1>1. PICK o : \A k \in Nat : Observations(p, env, k) = {o[i] : i \in 0..k}
  BY Trajectory
<1>2. QED
  BY <1>1

\* All that one block shows in n steps, an equivalent one shows in some number.
LEMMA OutcomesObserved ==
  ASSUME NEW p \in Code, NEW q \in Code, NEW env \in [Vars -> Num],
         Outcomes(p, env) = Outcomes(q, env)
  PROVE  \A n \in Nat : \E m \in Nat : Observations(p, env, n) \subseteq Observations(q, env, m)
<1>1. PICK o : /\ \A n \in Nat : Observations(p, env, n) = {o[i] : i \in 0..n}
               /\ Outcomes(p, env) = {o[i] : i \in Nat}
  BY Trajectory
<1>2. PICK u : /\ \A n \in Nat : Observations(q, env, n) = {u[i] : i \in 0..n}
               /\ Outcomes(q, env) = {u[i] : i \in Nat}
  BY Trajectory
<1>3. \A i \in Nat : \E j \in Nat : o[i] = u[j]
  BY <1>1, <1>2
<1>4. ASSUME NEW n \in Nat
      PROVE  \E m \in Nat : Observations(p, env, n) \subseteq Observations(q, env, m)
  <2>1. PICK m \in Nat : Within(o, n, u, m)
    BY <1>3, SeenWithin
  <2>2. QED
    BY <1>1, <1>2, <2>1 DEF Within
<1>5. QED
  BY <1>4

\* Equivalent blocks have the same behaviour, however many steps are looked at.
THEOREM EquivalentBehaves ==
  ASSUME NEW p \in Code, NEW q \in Code, Equivalent(p, q),
         NEW envs \in SUBSET [Vars -> Num], NEW steps \in SUBSET Nat
  PROVE  SameBehaviour(p, q, envs, steps, Nat)
<1> SUFFICES ASSUME NEW env \in envs, NEW n \in steps
             PROVE  \E m \in Nat : /\ Observations(p, env, n) \subseteq Observations(q, env, m)
                                   /\ Observations(q, env, n) \subseteq Observations(p, env, m)
  BY DEF SameBehaviour
<1>1. env \in [Vars -> Num] /\ n \in Nat /\ Outcomes(p, env) = Outcomes(q, env)
  BY DEF Equivalent
<1>2. PICK m1 \in Nat : Observations(p, env, n) \subseteq Observations(q, env, m1)
  BY <1>1, OutcomesObserved
<1>3. PICK m2 \in Nat : Observations(q, env, n) \subseteq Observations(p, env, m2)
  BY <1>1, OutcomesObserved
<1>4. /\ Observations(q, env, m1) \subseteq Observations(q, env, m1 + m2)
      /\ Observations(p, env, m2) \subseteq Observations(p, env, m1 + m2)
  BY <1>1, ObservationsGrow
<1>5. m1 + m2 \in Nat
  OBVIOUS
<1>6. QED
  BY <1>2, <1>3, <1>4, <1>5
================================================================================
