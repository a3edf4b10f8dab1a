------------------------------ MODULE LlPrepProofs ------------------------------
(***************************************************************************)
(* Merging variables is right on every block whose lifetimes cover where     *)
(* its variables are alive, and they do on every block that runs down.       *)
(***************************************************************************)
EXTENDS LlPrep, LlPassesProofs, FiniteSetTheorems

--------------------------------------------------------------------------------
(***************************************************************************)
(* Where a variable is alive: the rounds of LiveAt end at the smallest set   *)
(* of operations closed under going back from a successor.                   *)
(***************************************************************************)
Places(p) == SUBSET DOMAIN p
NoPlaces(p) == {}
Rounds(p, v) == [live \in Places(p) |-> LiveBefore(p, v, live)]

IsLive(p, v, f) ==
  f = [n \in 0..Len(p) |-> IF n = 0 THEN {} ELSE LiveBefore(p, v, f[n - 1])]

LEMMA LiveBeforeType ==
  ASSUME NEW p, NEW v, NEW live
  PROVE  LiveBefore(p, v, live) \in SUBSET DOMAIN p
  BY DEF LiveBefore

LEMMA LiveBeforeGrows ==
  ASSUME NEW p, NEW v, NEW live, NEW more, live \subseteq more
  PROVE  LiveBefore(p, v, live) \subseteq LiveBefore(p, v, more)
  BY DEF LiveBefore

\* The rounds as one sequence, of which LiveAt is the one numbered Len(p).
LEMMA RoundsExist ==
  ASSUME NEW p \in Code, NEW v
  PROVE  \E g \in [Nat -> SUBSET DOMAIN p] :
           /\ g[0] = {}
           /\ \A n \in Nat : g[n + 1] = LiveBefore(p, v, g[n])
           /\ LiveAt(p, v) = g[Len(p)]
<1> DEFINE S == Places(p)
           T == Rounds(p, v)
<1>1. T \in [S -> S] /\ NoPlaces(p) \in S /\ \A live \in S : T[live] = LiveBefore(p, v, live)
  <2>1. \A live \in S : LiveBefore(p, v, live) \in S
    BY LiveBeforeType DEF Places
  <2>2. NoPlaces(p) \in S
    BY DEF Places, NoPlaces
  <2>3. T = [live \in S |-> LiveBefore(p, v, live)]
    BY DEF Rounds
  <2> HIDE DEF T
  <2>4. T \in [S -> S]
    BY <2>1, <2>3
  <2>5. \A live \in S : T[live] = LiveBefore(p, v, live)
    BY <2>3
  <2>6. QED
    BY <2>2, <2>4, <2>5
<1>2. PICK g \in [Nat -> S] : g[0] = NoPlaces(p) /\ \A n \in Nat : g[n + 1] = T[g[n]]
  <2>1. PICK g : IsOrbit(S, T, NoPlaces(p), g)
    BY <1>1, Orbit
  <2>2. QED
    BY <2>1 DEF IsOrbit
<1> USE DEF Places, NoPlaces
<1>3. \A n \in Nat : g[n + 1] = LiveBefore(p, v, g[n])
  BY <1>1, <1>2
<1>4. Len(p) \in Nat
  BY CodeType
<1> DEFINE h == [n \in 0..Len(p) |-> g[n]]
<1>5. \A n \in 0..Len(p) : h[n] = IF n = 0 THEN {} ELSE LiveBefore(p, v, h[n - 1])
  <2> SUFFICES ASSUME NEW n \in 0..Len(p), n # 0
               PROVE  g[n] = LiveBefore(p, v, g[n - 1]) /\ n - 1 \in 0..Len(p)
    BY <1>2, <1>4
  <2>1. n - 1 \in Nat /\ (n - 1) + 1 = n /\ n - 1 \in 0..Len(p)
    BY <1>4
  <2>2. QED
    BY <1>3, <2>1
<1> HIDE DEF h
<1>6. IsLive(p, v, h)
  <2>1. h = [n \in 0..Len(p) |-> h[n]]
    BY DEF h
  <2>2. [n \in 0..Len(p) |-> h[n]] = [n \in 0..Len(p) |-> IF n = 0 THEN {} ELSE LiveBefore(p, v, h[n - 1])]
    BY <1>5
  <2>3. QED
    BY <2>1, <2>2 DEF IsLive
<1>7. ASSUME NEW f, IsLive(p, v, f)
      PROVE  f = h
  <2> DEFINE C == {n \in Nat : n <= Len(p) => f[n] = h[n]}
  <2>1. 0 \in C
    BY <1>4, <1>6, <1>7 DEF IsLive
  <2>2. ASSUME NEW n \in Nat, n \in C
        PROVE  n + 1 \in C
    <3> SUFFICES ASSUME n + 1 <= Len(p)
                 PROVE  f[n + 1] = h[n + 1]
      OBVIOUS
    <3>1. f[n] = h[n] /\ n + 1 \in 0..Len(p) /\ n + 1 # 0 /\ (n + 1) - 1 = n
      BY <1>4, <2>2
    <3>2. f[n + 1] = LiveBefore(p, v, f[n])
      BY <1>7, <3>1 DEF IsLive
    <3>3. h[n + 1] = LiveBefore(p, v, h[n])
      BY <1>5, <3>1
    <3>4. QED
      BY <3>1, <3>2, <3>3
  <2>3. Nat \subseteq C
    BY <2>1, <2>2, SetInduction
  <2>4. \A n \in 0..Len(p) : f[n] = h[n]
    BY <1>4, <2>3
  <2>5. f = [n \in 0..Len(p) |-> f[n]] /\ h = [n \in 0..Len(p) |-> h[n]]
    BY <1>6, <1>7 DEF IsLive
  <2>6. [n \in 0..Len(p) |-> f[n]] = [n \in 0..Len(p) |-> h[n]]
    BY <2>4
  <2>7. QED
    BY <2>5, <2>6
<1> DEFINE F == CHOOSE f : IsLive(p, v, f)
<1>8. F = h
  BY <1>6, <1>7
<1>9. LiveAt(p, v) = F[Len(p)]
  BY DEF LiveAt, IsLive
<1>10. h[Len(p)] = g[Len(p)]
  BY <1>4 DEF h
<1>11. QED
  BY <1>2, <1>3, <1>8, <1>9, <1>10

\* A set with what is alive before it is a set live variables never leave.
Backwards(p, v, C) == \A i \in LiveBefore(p, v, C) : i \in C

LEMMA LiveAtLeast ==
  ASSUME NEW p \in Code, NEW v, NEW C, Backwards(p, v, C)
  PROVE  LiveAt(p, v) \subseteq C
<1>1. PICK g \in [Nat -> SUBSET DOMAIN p] :
        /\ g[0] = {}
        /\ \A n \in Nat : g[n + 1] = LiveBefore(p, v, g[n])
        /\ LiveAt(p, v) = g[Len(p)]
  BY RoundsExist
<1> DEFINE D == {n \in Nat : g[n] \subseteq C}
<1>2. 0 \in D
  BY <1>1
<1>3. ASSUME NEW n \in Nat, n \in D
      PROVE  n + 1 \in D
  <2>1. g[n] \subseteq C
    BY <1>3
  <2>2. g[n + 1] = LiveBefore(p, v, g[n])
    BY <1>1
  <2>3. LiveBefore(p, v, g[n]) \subseteq LiveBefore(p, v, C)
    BY <2>1, LiveBeforeGrows
  <2>4. QED
    BY <2>2, <2>3 DEF Backwards
<1>4. Nat \subseteq D
  BY <1>2, <1>3, SetInduction
<1>5. QED
  BY <1>1, <1>4, CodeType

\* Each round but the last ones adds an operation, so Len(p) rounds are enough.
LEMMA LiveAtClosed ==
  ASSUME NEW p \in Code, NEW v
  PROVE  LiveBefore(p, v, LiveAt(p, v)) = LiveAt(p, v)
<1>1. PICK g \in [Nat -> SUBSET DOMAIN p] :
        /\ g[0] = {}
        /\ \A n \in Nat : g[n + 1] = LiveBefore(p, v, g[n])
        /\ LiveAt(p, v) = g[Len(p)]
  BY RoundsExist
<1>2. Len(p) \in Nat /\ DOMAIN p = 1..Len(p)
  BY CodeType
<1>3. /\ IsFiniteSet(1..Len(p)) /\ Cardinality(1..Len(p)) = Len(p)
      /\ \A A \in SUBSET (1..Len(p)) : IsFiniteSet(A) /\ Cardinality(A) \in Nat
  <2>1. IsFiniteSet(1..Len(p)) /\ Cardinality(1..Len(p)) = Len(p)
    <3>1. 1 \in Int /\ Len(p) \in Int
      BY <1>2
    <3>2. /\ IsFiniteSet(1..Len(p))
          /\ Cardinality(1..Len(p)) = IF 1 > Len(p) THEN 0 ELSE Len(p) - 1 + 1
      BY <3>1, FS_Interval
    <3>3. QED
      BY <1>2, <3>2
  <2>2. \A A \in SUBSET (1..Len(p)) : IsFiniteSet(A)
    BY <2>1, FS_Subset
  <2>3. QED
    BY <2>1, <2>2, FS_CardinalityType
<1> DEFINE G == {n \in Nat : g[n] \subseteq g[n + 1]}
<1>4. \A n \in Nat : g[n] \subseteq g[n + 1]
  <2>1. 0 \in G
    BY <1>1
  <2>2. ASSUME NEW n \in Nat, n \in G
        PROVE  n + 1 \in G
    <3>1. LiveBefore(p, v, g[n]) \subseteq LiveBefore(p, v, g[n + 1])
      BY <2>2, LiveBeforeGrows
    <3>2. g[n + 1] = LiveBefore(p, v, g[n]) /\ g[(n + 1) + 1] = LiveBefore(p, v, g[n + 1])
      BY <1>1
    <3>3. QED
      BY <3>1, <3>2
  <2>3. Nat \subseteq G
    BY <2>1, <2>2, SetInduction
  <2>4. QED
    BY <2>3
<1> DEFINE Settled(n) == g[n + 1] = g[n]
           E == {n \in Nat : Settled(n) \/ Cardinality(g[n]) >= n}
<1>5. 0 \in E
  <2>1. Cardinality(g[0]) \in Nat
    BY <1>2, <1>3
  <2>2. QED
    BY <2>1
<1>6. ASSUME NEW n \in Nat, n \in E
      PROVE  n + 1 \in E
  <2>1. CASE Settled(n)
    <3>1. g[(n + 1) + 1] = LiveBefore(p, v, g[n + 1]) /\ g[n + 1] = LiveBefore(p, v, g[n])
      BY <1>1
    <3>2. Settled(n + 1)
      BY <2>1, <3>1
    <3>3. QED
      BY <3>2
  <2>2. CASE ~Settled(n)
    <3>1. Cardinality(g[n]) >= n
      BY <1>6, <2>2
    <3>2. g[n] \subseteq g[n + 1] /\ g[n] # g[n + 1]
      BY <1>4, <2>2
    <3>3. /\ g[n] \in SUBSET (1..Len(p)) /\ g[n + 1] \in SUBSET (1..Len(p))
          /\ IsFiniteSet(g[n + 1]) /\ Cardinality(g[n]) \in Nat /\ Cardinality(g[n + 1]) \in Nat
      BY <1>2, <1>3
    <3>4. Cardinality(g[n]) < Cardinality(g[n + 1])
      BY <3>2, <3>3, FS_Subset
    <3>5. Cardinality(g[n + 1]) >= n + 1
      BY <3>1, <3>3, <3>4
    <3>6. QED
      BY <3>5
  <2>3. QED
    BY <2>1, <2>2
<1>7. Nat \subseteq E
  BY <1>5, <1>6, SetInduction
<1>8. Settled(Len(p))
  <2>1. CASE Settled(Len(p))
    BY <2>1
  <2>2. CASE Cardinality(g[Len(p)]) >= Len(p)
    <3>1. g[Len(p)] = 1..Len(p)
      BY <1>2, <1>3, <2>2, FS_Subset
    <3>2. g[Len(p) + 1] \subseteq 1..Len(p)
      BY <1>2
    <3>3. QED
      BY <1>2, <1>4, <3>1, <3>2
  <2>3. QED
    BY <1>2, <1>7, <2>1, <2>2
<1>9. QED
  BY <1>1, <1>2, <1>8

\* A variable is alive where its old value is needed, and wherever control goes
\* on, unwritten, to where it is alive.
LEMMA LiveAtType ==
  ASSUME NEW p \in Code, NEW v
  PROVE  \A i \in LiveAt(p, v) : i \in 1..Len(p)
<1>1. \A i \in LiveBefore(p, v, LiveAt(p, v)) : i \in DOMAIN p
  BY DEF LiveBefore
<1>2. QED
  BY <1>1, LiveAtClosed, CodeType

LEMMA LiveWhereNeeded ==
  ASSUME NEW p \in Code, NEW v, NEW i \in 1..Len(p), NeedsOld(p[i], v)
  PROVE  i \in LiveAt(p, v)
<1>1. i \in LiveBefore(p, v, LiveAt(p, v))
  BY CodeType DEF LiveBefore
<1>2. QED
  BY <1>1, LiveAtClosed

LEMMA LiveBackwards ==
  ASSUME NEW p \in Code, NEW v, NEW i \in 1..Len(p), ~Writes(p[i], v),
         NEW k \in Successors(p, i), k \in LiveAt(p, v)
  PROVE  i \in LiveAt(p, v)
<1>1. i \in LiveBefore(p, v, LiveAt(p, v))
  BY CodeType DEF LiveBefore
<1>2. QED
  BY <1>1, LiveAtClosed

--------------------------------------------------------------------------------
(***************************************************************************)
(* Marks that tell where a variable is alive: they are on all operations     *)
(* that touch it and all it is alive at, and begin before it is alive.       *)
(***************************************************************************)
Marked(p, v, marks) ==
  /\ \A i \in DOMAIN p : Touches(p[i], v) => i \in marks
  /\ \A i \in LiveAt(p, v) : i \in marks /\ \E j \in marks : j < i

LifetimesCover(p) == \A v \in Vars \ Ins : Marked(p, v, Lifetime(p, v))

\* Control only goes down, and leaves the block with its last operation.
RunsDown(p) ==
  \A i \in DOMAIN p :
    /\ EndsFlow(p[i]) => i = Len(p)
    /\ p[i].id \in Jumps => LabelAt(p, p[i].label) > i

\* Then what is alive is touched further down.
LEMMA TouchedBelow ==
  ASSUME NEW p \in Code, RunsDown(p), NEW v, NEW i \in LiveAt(p, v)
  PROVE  \E to \in 1..Len(p) : i <= to /\ Touches(p[to], v)
<1> DEFINE C == {k \in 1..Len(p) : \E to \in 1..Len(p) : k <= to /\ Touches(p[to], v)}
<1>1. Len(p) \in Nat /\ DOMAIN p = 1..Len(p)
  BY CodeType
<1>2. ASSUME NEW k \in LiveBefore(p, v, C)
      PROVE  k \in C
  <2>1. k \in 1..Len(p)
    BY <1>1 DEF LiveBefore
  <2>2. CASE NeedsOld(p[k], v)
    <3>1. k <= k /\ Touches(p[k], v)
      BY <2>1, <2>2 DEF NeedsOld, Touches
    <3>2. QED
      BY <2>1, <3>1
  <2>3. CASE Successors(p, k) \cap C # {}
    <3>1. PICK next \in Successors(p, k) : next \in C
      BY <2>3
    <3>2. next > k
      BY <1>1, <2>1, <3>1 DEF Successors, RunsDown
    <3>3. PICK to \in 1..Len(p) : next <= to /\ Touches(p[to], v)
      BY <3>1
    <3>4. next \in 1..Len(p)
      BY <3>1
    <3> HIDE DEF C
    <3>5. k <= to
      BY <1>1, <2>1, <3>2, <3>3, <3>4
    <3>6. QED
      BY <2>1, <3>3, <3>5 DEF C
  <2>4. QED
    BY <2>2, <2>3 DEF LiveBefore
<1>3. LiveAt(p, v) \subseteq C
  <2> HIDE DEF C
  <2>1. Backwards(p, v, C)
    BY <1>2 DEF Backwards
  <2>2. QED
    BY <2>1, LiveAtLeast
<1>4. QED
  BY <1>3

\* And has been written further up.
LEMMA WrittenAbove ==
  ASSUME NEW p \in Code, RunsDown(p), Assigned(p), NEW v \in Vars \ Ins, NEW i \in LiveAt(p, v)
  PROVE  \E from \in 1..Len(p) : from < i /\ Writes(p[from], v)
<1>1. Len(p) \in Nat /\ DOMAIN p = 1..Len(p) /\ i \in 1..Len(p) /\ 1 \notin LiveAt(p, v)
  BY CodeType, LiveAtType DEF Assigned
<1> SUFFICES ASSUME \A from \in 1..Len(p) : from < i => ~Writes(p[from], v)
             PROVE  FALSE
  OBVIOUS
<1> DEFINE C == LiveAt(p, v)
<1>2. C \in SUBSET Nat /\ C # {}
  <2>1. \A k \in C : k \in 1..Len(p)
    BY LiveAtType
  <2>2. i \in C
    OBVIOUS
  <2> HIDE DEF C
  <2>3. \A k \in C : k \in Nat
    BY <2>1
  <2>4. QED
    BY <2>2, <2>3
<1>3. PICK k \in C : \A m \in C : k <= m
  BY <1>2, LeastNat
<1>4. k \in 1..Len(p) /\ k <= i /\ k # 1
  BY <1>1, <1>3, LiveAtType
<1>5. k - 1 \in 1..Len(p) /\ k - 1 < i /\ k - 1 < Len(p) /\ (k - 1) + 1 = k
  BY <1>1, <1>4
<1>6. ~EndsFlow(p[k - 1])
  BY <1>1, <1>5 DEF RunsDown
<1>7. k \in Successors(p, k - 1)
  BY <1>5, <1>6 DEF Successors
<1>8. ~Writes(p[k - 1], v)
  BY <1>5
<1>9. k - 1 \in C
  BY <1>3, <1>5, <1>7, <1>8, LiveBackwards
<1>10. ~(k <= k - 1)
  BY <1>4
<1>11. QED
  BY <1>3, <1>9, <1>10

\* vx_IrBlock_lifetimes tells where variables are alive if control only goes
\* down: not if it goes around a loop, nor past the other case of an if.
THEOREM LifetimesRight ==
  ASSUME NEW p \in Code, RunsDown(p), Assigned(p)
  PROVE  LifetimesCover(p)
<1> SUFFICES ASSUME NEW v \in Vars \ Ins
             PROVE  Marked(p, v, Lifetime(p, v))
  BY DEF LifetimesCover
<1> DEFINE uses == {i \in DOMAIN p : Touches(p[i], v)}
<1>1. Len(p) \in Nat /\ DOMAIN p = 1..Len(p)
  BY CodeType
<1>2. \A i \in uses : i \in Lifetime(p, v)
  BY DEF Lifetime
<1>3. \A i \in DOMAIN p : Touches(p[i], v) => i \in Lifetime(p, v)
  BY <1>2
<1>4. ASSUME NEW i \in LiveAt(p, v)
      PROVE  i \in Lifetime(p, v) /\ \E j \in Lifetime(p, v) : j < i
  <2>1. i \in 1..Len(p)
    BY LiveAtType
  <2>2. PICK from \in 1..Len(p) : from < i /\ Writes(p[from], v)
    BY WrittenAbove
  <2>3. PICK to \in 1..Len(p) : i <= to /\ Touches(p[to], v)
    BY TouchedBelow
  <2>4. from \in uses /\ to \in uses
    BY <1>1, <2>2, <2>3 DEF Touches
  <2>5. from \in Lifetime(p, v)
    BY <1>2, <2>4
  <2>6. CASE i = to
    BY <1>2, <2>2, <2>4, <2>5, <2>6
  <2>7. CASE i < to
    <3>1. Extends(p, from, to)
      <4> SUFFICES ASSUME NEW k \in from + 1..to - 1
                   PROVE  ~EndsFlow(p[k])
        BY DEF Extends
      <4>1. from \in Nat /\ to \in Nat /\ from >= 1 /\ to <= Len(p)
        BY <1>1
      <4> DEFINE len == Len(p)
      <4>2. k \in 1..len /\ k # len
        <5> HIDE DEF len
        <5>1. len \in Nat /\ to <= len
          BY <1>1, <4>1 DEF len
        <5>2. k \in Int /\ from + 1 <= k /\ k <= to - 1
          BY <4>1
        <5>3. QED
          BY <4>1, <5>1, <5>2
      <4>3. QED
        BY <1>1, <4>2 DEF RunsDown
    <3>2. \E a, b \in uses : a < i /\ i < b /\ Extends(p, a, b)
      BY <2>2, <2>4, <2>7, <3>1
    <3>3. i \in Lifetime(p, v)
      BY <1>1, <2>1, <3>2 DEF Lifetime
    <3>4. QED
      BY <2>2, <2>5, <3>3
  <2>8. QED
    BY <1>1, <2>1, <2>3, <2>6, <2>7
<1>5. QED
  BY <1>3, <1>4 DEF Marked

--------------------------------------------------------------------------------
(***************************************************************************)
(* Renaming a variable.                                                     *)
(***************************************************************************)
NameOf(old, new, v) == IF v = old THEN new ELSE v
ArgOf(old, new, arg) == IF arg = Var(old) THEN Var(new) ELSE arg

RenamedOp(op, op2, old, new) ==
  /\ op2.id = op.id /\ op2.label = op.label
  /\ op2.out = NameOf(old, new, op.out)
  /\ Len(op2.args) = Len(op.args)
  /\ \A k \in 1..Len(op.args) : op2.args[k] = ArgOf(old, new, op.args[k])

Renamed(p, q, old, new) ==
  /\ q \in Seq(Op) /\ Len(q) = Len(p)
  /\ \A i \in 1..Len(p) : RenamedOp(p[i], q[i], old, new)

LEMMA OtherOperands ==
  ASSUME NEW op \in Op, NEW args \in Seq(Value), Len(args) = Len(op.args),
         NEW out, op.out \in Vars => out \in Vars, op.out = NoVar => out = NoVar
  PROVE  [op EXCEPT !.out = out, !.args = args] \in Op
<1>1. Len(args) \in Nat /\ args \in [1..Len(args) -> Value]
  BY LenProperties
<1>2. \A n \in Nat : op.args \in Tuples(n) => args \in Tuples(n)
  <2> SUFFICES ASSUME NEW n \in Nat, op.args \in Tuples(n)
               PROVE  args \in Tuples(n)
    OBVIOUS
  <2>1. Len(op.args) = n
    BY TuplesType
  <2>2. QED
    BY <1>1, <2>1 DEF Tuples
<1>3. CASE op \in [id : {"IMM", "NOT"}, out : Vars, args : Tuples(1), label : {NoLabel}]
  BY <1>2, <1>3 DEF Op
<1>4. CASE op \in [id : {"ADD", "SUB"}, out : Vars, args : Tuples(2), label : {NoLabel}]
  BY <1>2, <1>4 DEF Op
<1>5. CASE op \in [id : {"CMOV"}, out : Vars, args : Tuples(2) \cup Tuples(3), label : {NoLabel}]
  BY <1>2, <1>5 DEF Op
<1>6. CASE op \in [id : {"STORE"}, out : {NoVar}, args : Tuples(1), label : {NoLabel}]
  BY <1>2, <1>6 DEF Op
<1>7. CASE op \in [id : {"RETURN"}, out : {NoVar}, args : Seq(Value), label : {NoLabel}]
  BY <1>7 DEF Op
<1>8. CASE op \in [id : {"COND"}, out : {NoVar}, args : Tuples(1), label : Labels]
  BY <1>2, <1>8 DEF Op
<1>9. CASE op \in [id : {"GOTO", "LABEL"}, out : {NoVar}, args : Tuples(0), label : Labels]
  BY <1>2, <1>9 DEF Op
<1>10. QED
  BY <1>3, <1>4, <1>5, <1>6, <1>7, <1>8, <1>9 DEF Op

LEMMA RenameIs ==
  ASSUME prog \in Code, NEW old \in Vars, NEW new \in Vars
  PROVE  Renamed(prog, Rename(old, new), old, new)
<1> DEFINE args(op) == [k \in DOMAIN op.args |-> IF op.args[k] = Var(old) THEN Var(new) ELSE op.args[k]]
           out(op) == IF op.out = old THEN new ELSE op.out
           With(op) == [op EXCEPT !.out = out(op), !.args = args(op)]
           q == [i \in DOMAIN prog |-> With(prog[i])]
<1>1. Len(prog) \in Nat /\ DOMAIN prog = 1..Len(prog) /\ \A i \in 1..Len(prog) : prog[i] \in Op
  BY CodeType
<1>2. Rename(old, new) = q
  BY DEF Rename
<1>3. ASSUME NEW op \in Op
      PROVE  With(op) \in Op /\ RenamedOp(op, With(op), old, new)
  <2>1. op.args \in Seq(Value) /\ Len(op.args) \in Nat /\ DOMAIN op.args = 1..Len(op.args)
    BY OpFields
  <2>2. \A k \in 1..Len(op.args) : args(op)[k] = ArgOf(old, new, op.args[k])
    BY <2>1 DEF ArgOf
  <2>3. args(op) \in Seq(Value) /\ Len(args(op)) = Len(op.args)
    <3>1. \A k \in 1..Len(op.args) : ArgOf(old, new, op.args[k]) \in Value
      BY <2>1 DEF ArgOf, Var, Value
    <3>2. args(op) = [k \in 1..Len(op.args) |-> ArgOf(old, new, op.args[k])]
      BY <2>1 DEF ArgOf
    <3>3. [k \in 1..Len(op.args) |-> ArgOf(old, new, op.args[k])] \in Seq(Value)
      BY <2>1, <3>1, IsASeq
    <3>4. Len([k \in 1..Len(op.args) |-> ArgOf(old, new, op.args[k])]) = Len(op.args)
      BY <2>1
    <3>5. QED
      BY <3>2, <3>3, <3>4
  <2>4. op.out \in Vars => out(op) \in Vars
    OBVIOUS
  <2>5. op.out = NoVar => out(op) = NoVar
    BY LlPrepAssumption
  <2> HIDE DEF args, out
  <2>6. With(op) \in Op
    BY <2>3, <2>4, <2>5, OtherOperands
  <2>7. /\ With(op).id = op.id /\ With(op).label = op.label
        /\ With(op).out = out(op) /\ With(op).args = args(op)
    BY DEF Op
  <2>8. RenamedOp(op, With(op), old, new)
    BY <2>2, <2>3, <2>7 DEF RenamedOp, NameOf, out
  <2>9. QED
    BY <2>6, <2>8
<1> HIDE DEF With
<1>4. q = [i \in 1..Len(prog) |-> With(prog[i])]
  BY <1>1
<1>5. [i \in 1..Len(prog) |-> With(prog[i])] \in Seq(Op)
  BY <1>1, <1>3, IsASeq
<1>6. Len([i \in 1..Len(prog) |-> With(prog[i])]) = Len(prog)
  BY <1>1
<1>7. \A i \in 1..Len(prog) : q[i] = With(prog[i])
  BY <1>1
<1> HIDE DEF q
<1>8. QED
  BY <1>1, <1>2, <1>3, <1>4, <1>5, <1>6, <1>7 DEF Renamed

LEMMA RenamedCode ==
  ASSUME NEW p \in Code, NEW q, NEW old, NEW new, Renamed(p, q, old, new)
  PROVE  /\ q \in Code /\ Len(q) = Len(p)
         /\ \A i \in 1..Len(p) : Successors(q, i) = Successors(p, i)
         /\ \A i \in 1..Len(p) : p[i].id \in Jumps => LabelAt(q, p[i].label) = LabelAt(p, p[i].label)
<1>1. SameShape(p, q)
  BY DEF Renamed, RenamedOp, SameShape
<1>2. q \in Code
  BY <1>1, SameShapeCode
<1>3. \A i \in 1..Len(p) : p[i].id \in Jumps => LabelAt(q, p[i].label) = LabelAt(p, p[i].label)
  BY <1>1, SameShapeCode
<1>4. ASSUME NEW i \in 1..Len(p)
      PROVE  Successors(q, i) = Successors(p, i)
  BY <1>1, <1>3 DEF Successors, EndsFlow, SameShape
<1>5. QED
  BY <1>1, <1>2, <1>3, <1>4 DEF SameShape

\* What the new name stands for in the renamed operation.
LEMMA RenamedUses ==
  ASSUME NEW op \in Op, NEW op2 \in Op, NEW old \in Vars, NEW new \in Vars, old # new,
         RenamedOp(op, op2, old, new), NEW v \in Vars
  PROVE  /\ Reads(op2, v) => v # old /\ (Reads(op, v) \/ (v = new /\ Reads(op, old)))
         /\ Writes(op2, v) <=> v # old /\ (Writes(op, v) \/ (v = new /\ Writes(op, old)))
<1>1. /\ Len(op.args) \in Nat /\ DOMAIN op.args = 1..Len(op.args) /\ DOMAIN op2.args = 1..Len(op.args)
      /\ op2.out = NameOf(old, new, op.out)
      /\ \A k \in 1..Len(op.args) : op2.args[k] = ArgOf(old, new, op.args[k])
  BY OpFields DEF RenamedOp
<1>2. \A a, b \in Vars : Var(a) = Var(b) => a = b
  BY DEF Var
<1>3. ASSUME Reads(op2, v)
      PROVE  v # old /\ (Reads(op, v) \/ (v = new /\ Reads(op, old)))
  <2>1. PICK k \in 1..Len(op.args) : ArgOf(old, new, op.args[k]) = Var(v)
    BY <1>1, <1>3 DEF Reads, ToSet
  <2>2. CASE op.args[k] = Var(old)
    <3>1. v = new /\ Reads(op, old)
      BY <1>1, <1>2, <2>1, <2>2 DEF ArgOf, Reads, ToSet
    <3>2. QED
      BY <3>1
  <2>3. CASE op.args[k] # Var(old)
    <3>1. op.args[k] = Var(v)
      BY <2>1, <2>3 DEF ArgOf
    <3>2. QED
      BY <1>1, <2>3, <3>1 DEF Reads, ToSet
  <2>4. QED
    BY <2>2, <2>3
<1>4. Writes(op2, v) <=> v # old /\ (Writes(op, v) \/ (v = new /\ Writes(op, old)))
  BY <1>1 DEF Writes, NameOf
<1>5. QED
  BY <1>3, <1>4

LEMMA RenamedNeeds ==
  ASSUME NEW op \in Op, NEW op2 \in Op, NEW old \in Vars, NEW new \in Vars, old # new,
         RenamedOp(op, op2, old, new), NEW v \in Vars, NeedsOld(op2, v)
  PROVE  v # old /\ (NeedsOld(op, v) \/ (v = new /\ NeedsOld(op, old)))
<1>1. op2.id = op.id /\ Len(op2.args) = Len(op.args)
  BY DEF RenamedOp
<1>2. CASE Reads(op2, v)
  BY <1>2, RenamedUses DEF NeedsOld
<1>3. CASE op2.id = "CMOV" /\ Len(op2.args) = 2 /\ Writes(op2, v)
  BY <1>1, <1>3, RenamedUses DEF NeedsOld
<1>4. QED
  BY <1>2, <1>3 DEF NeedsOld

\* The new name is alive at most where one of the two variables was.
LEMMA RenamedLive ==
  ASSUME NEW p \in Code, NEW q, NEW old \in Vars, NEW new \in Vars, old # new,
         Renamed(p, q, old, new), NEW v \in Vars, NEW i \in LiveAt(q, v)
  PROVE  v # old /\ (i \in LiveAt(p, v) \/ (v = new /\ i \in LiveAt(p, old)))
<1> DEFINE C == {k \in 1..Len(p) : v # old /\ (k \in LiveAt(p, v) \/ (v = new /\ k \in LiveAt(p, old)))}
<1>1. /\ q \in Code /\ Len(q) = Len(p) /\ Len(p) \in Nat
      /\ \A k \in 1..Len(p) : Successors(q, k) = Successors(p, k)
  BY RenamedCode, CodeType
<1>2. ASSUME NEW k \in LiveBefore(q, v, C)
      PROVE  k \in C
  <2>1. k \in 1..Len(p) /\ DOMAIN q = 1..Len(p)
    BY <1>1, CodeType DEF LiveBefore
  <2>2. p[k] \in Op /\ q[k] \in Op /\ RenamedOp(p[k], q[k], old, new)
    BY <1>1, <2>1, CodeType DEF Renamed
  <2>3. CASE NeedsOld(q[k], v)
    <3>1. v # old /\ (NeedsOld(p[k], v) \/ (v = new /\ NeedsOld(p[k], old)))
      BY <2>2, <2>3, RenamedNeeds
    <3>2. QED
      BY <2>1, <3>1, LiveWhereNeeded
  <2>4. CASE ~Writes(q[k], v) /\ Successors(q, k) \cap C # {}
    <3>1. PICK next \in Successors(p, k) : next \in C
      BY <1>1, <2>1, <2>4
    <3>2. v # old /\ (next \in LiveAt(p, v) \/ (v = new /\ next \in LiveAt(p, old)))
      BY <3>1
    <3>3. ~Writes(p[k], v) /\ (v = new => ~Writes(p[k], old))
      BY <2>2, <2>4, <3>2, RenamedUses
    <3>4. k \in LiveAt(p, v) \/ (v = new /\ k \in LiveAt(p, old))
      BY <2>1, <3>2, <3>3, LiveBackwards
    <3>5. QED
      BY <2>1, <3>2, <3>4
  <2>5. QED
    BY <2>3, <2>4 DEF LiveBefore
<1>3. Backwards(q, v, C)
  BY <1>2 DEF Backwards
<1>4. LiveAt(q, v) \subseteq C
  <2> HIDE DEF C
  <2>1. QED
    BY <1>1, <1>3, LiveAtLeast
<1>5. i \in C
  BY <1>4
<1>6. QED
  BY <1>5

\* Merged variables are marked for all that either was.
AllMarked(p, marks) == \A v \in Vars \ Ins : Marked(p, v, marks[v])

Joined(marks, marks2, old, new) ==
  /\ marks2[new] = marks[new] \cup marks[old]
  /\ \A v \in Vars : v # new => marks2[v] = marks[v]

LEMMA MergeMarked ==
  ASSUME NEW p \in Code, NEW q, NEW old \in Vars \ Ins, NEW new \in Vars \ Ins, old # new,
         Renamed(p, q, old, new), NEW marks, AllMarked(p, marks),
         NEW marks2, Joined(marks, marks2, old, new)
  PROVE  AllMarked(q, marks2)
<1> SUFFICES ASSUME NEW v \in Vars \ Ins
             PROVE  Marked(q, v, marks2[v])
  BY DEF AllMarked
<1>1. q \in Code /\ DOMAIN q = 1..Len(p) /\ DOMAIN p = 1..Len(p)
  BY RenamedCode, CodeType
<1>2. \A i \in marks[v] : i \in marks2[v]
  BY DEF Joined
<1>3. v = new => \A i \in marks[old] : i \in marks2[v]
  BY DEF Joined
<1>4. Marked(p, v, marks[v]) /\ Marked(p, old, marks[old])
  BY DEF AllMarked
<1>5. ASSUME NEW i \in 1..Len(p), Touches(q[i], v)
      PROVE  i \in marks2[v]
  <2>1. p[i] \in Op /\ q[i] \in Op /\ RenamedOp(p[i], q[i], old, new)
    BY <1>1, CodeType DEF Renamed
  <2>2. Touches(p[i], v) \/ (v = new /\ Touches(p[i], old))
    BY <1>5, <2>1, RenamedUses DEF Touches
  <2>3. i \in marks[v] \/ (v = new /\ i \in marks[old])
    BY <1>1, <1>4, <2>2 DEF Marked
  <2>4. QED
    BY <1>2, <1>3, <2>3
<1>6. ASSUME NEW i \in LiveAt(q, v)
      PROVE  i \in marks2[v] /\ \E j \in marks2[v] : j < i
  <2>1. i \in LiveAt(p, v) \/ (v = new /\ i \in LiveAt(p, old))
    BY RenamedLive
  <2>2. CASE i \in LiveAt(p, v)
    <3>1. i \in marks[v] /\ \E j \in marks[v] : j < i
      BY <1>4, <2>2 DEF Marked
    <3>2. QED
      BY <1>2, <3>1
  <2>3. CASE v = new /\ i \in LiveAt(p, old)
    <3>1. i \in marks[old] /\ \E j \in marks[old] : j < i
      BY <1>4, <2>3 DEF Marked
    <3>2. QED
      BY <1>3, <2>3, <3>1
  <2>4. QED
    BY <2>1, <2>2, <2>3
<1>7. QED
  BY <1>1, <1>5, <1>6 DEF Marked

--------------------------------------------------------------------------------
(***************************************************************************)
(* Which variables share_slots merges.                                      *)
(***************************************************************************)

\* Marks of which none is strictly among the others.
Apart(a, b) ==
  \/ a \cap b = {}
  \/ \A i \in a, j \in b : i <= j
  \/ \A i \in a, j \in b : j <= i

LEMMA MaxIs ==
  ASSUME NEW n \in Nat, NEW C \in SUBSET (1..n), C # {}
  PROVE  Max(C) \in C /\ \A i \in C : i <= Max(C)
<1> DEFINE D == {n - i : i \in C}
<1>1. \A i \in C : i \in Int /\ n - i \in Nat /\ n - i \in D
  OBVIOUS
<1>2. D \in SUBSET Nat /\ D # {}
  BY <1>1
<1>3. PICK d \in D : \A e \in D : d <= e
  BY <1>2, LeastNat
<1>4. PICK i \in C : d = n - i
  BY <1>3
<1>5. ASSUME NEW j \in C
      PROVE  i >= j
  <2>1. n - j \in D
    BY <1>1
  <2>2. i \in Int /\ j \in Int
    BY <1>1
  <2> HIDE DEF D
  <2>3. n - i <= n - j
    BY <1>3, <1>4, <2>1
  <2>4. QED
    BY <2>2, <2>3
<1> HIDE DEF D
<1>6. Max(C) \in C /\ \A j \in C : Max(C) >= j
  BY <1>5 DEF Max
<1>7. \A j \in C : j \in Int
  BY <1>1
<1>8. QED
  BY <1>6, <1>7

\* The test of share_slots.
LEMMA CanMergeApart ==
  ASSUME NEW n \in Nat, NEW a, NEW b, alive[a] \in SUBSET (1..n), alive[b] \in SUBSET (1..n),
         CanMerge(a, b)
  PROVE  Apart(alive[a], alive[b])
<1> SUFFICES ASSUME alive[a] \cap alive[b] # {}
             PROVE  Apart(alive[a], alive[b])
  BY DEF Apart
<1>1. alive[a] # {} /\ alive[b] # {}
  OBVIOUS
<1>2. \A i \in alive[a] \cup alive[b] : i \in Int
  OBVIOUS
<1>3. alive[a] \in SUBSET Nat /\ alive[b] \in SUBSET Nat
  OBVIOUS
<1>4. /\ FirstOf(alive[a]) \in alive[a] /\ \A i \in alive[a] : FirstOf(alive[a]) <= i
      /\ FirstOf(alive[b]) \in alive[b] /\ \A i \in alive[b] : FirstOf(alive[b]) <= i
  BY <1>1, <1>3, MinIs DEF FirstOf
<1>5. /\ LastOf(alive[a]) \in alive[a] /\ \A i \in alive[a] : i <= LastOf(alive[a])
      /\ LastOf(alive[b]) \in alive[b] /\ \A i \in alive[b] : i <= LastOf(alive[b])
  BY <1>1, MaxIs DEF LastOf
<1>6. CASE LastOf(alive[a]) = FirstOf(alive[b])
  <2>1. \A i \in alive[a], j \in alive[b] : i <= j
    <3> SUFFICES ASSUME NEW i \in alive[a], NEW j \in alive[b]
                 PROVE  i <= j
      OBVIOUS
    <3>1. i <= LastOf(alive[a]) /\ FirstOf(alive[b]) <= j
      BY <1>4, <1>5
    <3>2. i \in Int /\ j \in Int /\ FirstOf(alive[b]) \in Int
      BY <1>2, <1>4
    <3>3. QED
      BY <1>6, <3>1, <3>2
  <2>2. QED
    BY <2>1 DEF Apart
<1>7. CASE FirstOf(alive[a]) = LastOf(alive[b])
  <2>1. \A i \in alive[a], j \in alive[b] : j <= i
    <3> SUFFICES ASSUME NEW i \in alive[a], NEW j \in alive[b]
                 PROVE  j <= i
      OBVIOUS
    <3>1. FirstOf(alive[a]) <= i /\ j <= LastOf(alive[b])
      BY <1>4, <1>5
    <3>2. i \in Int /\ j \in Int /\ FirstOf(alive[a]) \in Int
      BY <1>2, <1>4
    <3>3. QED
      BY <1>7, <3>1, <3>2
  <2>2. QED
    BY <2>1 DEF Apart
<1>8. QED
  BY <1>6, <1>7 DEF CanMerge

\* Where one variable is written, the other is not alive.
NoClash(p, x, y) ==
  \A i \in 1..Len(p) : Writes(p[i], x) => \A k \in Successors(p, i) : k \notin LiveAt(p, y)

LEMMA ApartNoClash ==
  ASSUME NEW p \in Code, NEW x \in Vars, NEW y \in Vars, x # y,
         NEW a, NEW b, \A i \in a \cup b : i \in Int,
         Marked(p, x, a), Marked(p, y, b), Apart(a, b)
  PROVE  NoClash(p, x, y)
<1> SUFFICES ASSUME NEW i \in 1..Len(p), Writes(p[i], x),
                    NEW k \in Successors(p, i), k \in LiveAt(p, y)
             PROVE  FALSE
  BY DEF NoClash
<1>1. p[i] \in Op /\ DOMAIN p = 1..Len(p)
  BY CodeType
<1>2. i \in a
  BY <1>1 DEF Marked, Touches
<1>3. i \in LiveAt(p, y)
  <2>1. ~Writes(p[i], y)
    BY DEF Writes
  <2>2. QED
    BY <2>1, LiveBackwards
<1>4. i \in b /\ k \in b
  BY <1>3 DEF Marked
<1>5. PICK j \in b : j < i
  BY <1>3 DEF Marked
<1>6. p[i].id \in Pure
  <2>1. p[i].out # NoVar
    BY LlPrepAssumption DEF Writes
  <2>2. QED
    BY <1>1, <2>1, OpFields
<1>7. k = i + 1
  BY <1>6 DEF Successors, Pure, Jumps, EndsFlow
<1>8. i \in Int /\ j \in Int
  BY <1>2, <1>5
<1>9. ~(i <= j) /\ ~(k <= i)
  BY <1>5, <1>7, <1>8
<1>10. QED
  BY <1>2, <1>4, <1>5, <1>9 DEF Apart

--------------------------------------------------------------------------------
(***************************************************************************)
(* Renaming changes nothing the block does if neither variable is written   *)
(* where the other is alive.                                                *)
(***************************************************************************)

\* The operations do the same, though one may write another variable.
SameArgs(op1, env1, op2, env2) ==
  /\ op2.id = op1.id /\ op2.label = op1.label
  /\ Len(op2.args) = Len(op1.args)
  /\ \A i \in 1..Len(op1.args) : Eval(env1, op1.args[i]) = Eval(env2, op2.args[i])

KeepsOut(op1, env1, op2, env2) ==
  op1.id = "CMOV" /\ Len(op1.args) = 2 => env1[op1.out] = env2[op2.out]

LEMMA ResultSame ==
  ASSUME NEW op1 \in Op, NEW op2 \in Op, NEW env1, NEW env2,
         op1.id \in Pure, SameArgs(op1, env1, op2, env2), KeepsOut(op1, env1, op2, env2)
  PROVE  Result(env1, op1) = Result(env2, op2)
<1>1. op1.id \in {"IMM", "ADD", "SUB", "NOT", "CMOV"}
  BY DEF Pure
<1>2. /\ op1.id \in {"IMM", "NOT"} => Len(op1.args) = 1
      /\ op1.id \in {"ADD", "SUB"} => Len(op1.args) = 2
      /\ op1.id = "CMOV" => Len(op1.args) \in {2, 3}
  BY OpFields
<1>3. CASE op1.id \in {"IMM", "NOT"}
  BY <1>2, <1>3 DEF Result, SameArgs
<1>4. CASE op1.id \in {"ADD", "SUB"}
  BY <1>2, <1>4 DEF Result, SameArgs
<1>5. CASE op1.id = "CMOV"
  BY <1>2, <1>5 DEF Result, SameArgs, KeepsOut
<1>6. QED
  BY <1>1, <1>3, <1>4, <1>5

\* The states are at the same place, and the same was seen.
Together(s, t) == s.pc = t.pc /\ s.trace = t.trace /\ s.done = t.done

\* A step goes on to a successor, unless the block is left.
LEMMA StepTogether ==
  ASSUME NEW p \in Code, NEW q \in Code, NEW s \in States(p), NEW t \in States(q),
         Together(s, t), ~s.done, SameArgs(p[s.pc], s.env, q[t.pc], t.env),
         p[s.pc].id \in Jumps => LabelAt(q, p[s.pc].label) = LabelAt(p, p[s.pc].label)
  PROVE  /\ Together(ExecStep(p, s), ExecStep(q, t))
         /\ ~ExecStep(p, s).done => ExecStep(p, s).pc \in Successors(p, s.pc)
<1> DEFINE op == p[s.pc]
           op2 == q[t.pc]
<1>1. /\ op \in Op /\ op2 \in Op /\ s.pc = t.pc /\ s.trace = t.trace /\ ~s.done /\ ~t.done
      /\ s.pc \in 1..Len(p)
  BY StateFields DEF Together
<1>2. /\ op2.id = op.id /\ op2.label = op.label /\ Len(op2.args) = Len(op.args)
      /\ \A i \in 1..Len(op.args) : Eval(s.env, op.args[i]) = Eval(t.env, op2.args[i])
  BY DEF SameArgs
<1>3. ~EndsFlow(op) => s.pc + 1 \in Successors(p, s.pc)
  BY DEF Successors
<1>4. CASE op.id \in Pure
  <2> DEFINE env1 == [s.env EXCEPT ![op.out] = Result(s.env, op)]
             env2 == [t.env EXCEPT ![op2.out] = Result(t.env, op2)]
  <2>1. ExecStep(p, s) = [pc |-> s.pc + 1, env |-> env1, trace |-> s.trace, done |-> FALSE]
    BY <1>1, <1>4, ExecPure
  <2>2. ExecStep(q, t) = [pc |-> t.pc + 1, env |-> env2, trace |-> t.trace, done |-> FALSE]
    BY <1>1, <1>2, <1>4, ExecPure
  <2>3. ~EndsFlow(op)
    BY <1>4 DEF Pure, EndsFlow
  <2> HIDE DEF env1, env2
  <2>4. QED
    BY <1>1, <1>3, <2>1, <2>2, <2>3 DEF Together
<1>5. CASE op.id = "STORE"
  <2>1. Eval(s.env, op.args[1]) = Eval(t.env, op2.args[1])
    BY <1>1, <1>2, <1>5, OpFields
  <2>2. ExecStep(p, s) = [pc |-> s.pc + 1, env |-> s.env,
                          trace |-> Append(s.trace, Eval(s.env, op.args[1])), done |-> FALSE]
    BY <1>1, <1>5, ExecStore
  <2>3. ExecStep(q, t) = [pc |-> t.pc + 1, env |-> t.env,
                          trace |-> Append(t.trace, Eval(t.env, op2.args[1])), done |-> FALSE]
    BY <1>1, <1>2, <1>5, ExecStore
  <2>4. ~EndsFlow(op)
    BY <1>5 DEF EndsFlow
  <2>5. QED
    BY <1>1, <1>3, <2>1, <2>2, <2>3, <2>4 DEF Together
<1>6. CASE op.id = "LABEL"
  <2>1. ExecStep(p, s) = [pc |-> s.pc + 1, env |-> s.env, trace |-> s.trace, done |-> FALSE]
    BY <1>1, <1>6, ExecLabel
  <2>2. ExecStep(q, t) = [pc |-> t.pc + 1, env |-> t.env, trace |-> t.trace, done |-> FALSE]
    BY <1>1, <1>2, <1>6, ExecLabel
  <2>3. ~EndsFlow(op)
    BY <1>6 DEF EndsFlow
  <2>4. QED
    BY <1>1, <1>3, <2>1, <2>2, <2>3 DEF Together
<1>7. CASE op.id \in Jumps
  <2>1. Taken(op, s.env) <=> Taken(op2, t.env)
    BY <1>1, <1>2, <1>7, OpFields DEF Taken
  <2>2. ExecStep(p, s) = [pc |-> IF Taken(op, s.env) THEN LabelAt(p, op.label) ELSE s.pc + 1,
                          env |-> s.env, trace |-> s.trace, done |-> FALSE]
    BY <1>1, <1>7, ExecJump
  <2>3. ExecStep(q, t) = [pc |-> IF Taken(op2, t.env) THEN LabelAt(q, op2.label) ELSE t.pc + 1,
                          env |-> t.env, trace |-> t.trace, done |-> FALSE]
    BY <1>1, <1>2, <1>7, ExecJump
  <2>4. LabelAt(q, op2.label) = LabelAt(p, op.label) /\ LabelAt(p, op.label) \in Successors(p, s.pc)
    BY <1>2, <1>7 DEF Successors
  <2>5. ~Taken(op, s.env) => ~EndsFlow(op)
    BY <1>7 DEF EndsFlow, Jumps, Taken
  <2>6. CASE Taken(op, s.env)
    BY <1>1, <2>1, <2>2, <2>3, <2>4, <2>6 DEF Together
  <2>7. CASE ~Taken(op, s.env)
    BY <1>1, <1>3, <2>1, <2>2, <2>3, <2>5, <2>7 DEF Together
  <2>8. QED
    BY <2>6, <2>7
<1>8. CASE op.id = "RETURN"
  <2>1. DOMAIN op.args = 1..Len(op.args) /\ DOMAIN op2.args = 1..Len(op.args)
    BY <1>1, <1>2, OpFields
  <2> DEFINE returned == [i \in DOMAIN op.args |-> Eval(s.env, op.args[i])]
             returned2 == [i \in DOMAIN op2.args |-> Eval(t.env, op2.args[i])]
  <2>2. returned = returned2
    BY <1>2, <2>1
  <2>3. ExecStep(p, s) = [pc |-> s.pc, env |-> s.env, done |-> TRUE, trace |-> s.trace \o returned]
    BY <1>1, <1>8, ExecReturn
  <2>4. ExecStep(q, t) = [pc |-> t.pc, env |-> t.env, done |-> TRUE, trace |-> t.trace \o returned2]
    BY <1>1, <1>2, <1>8, ExecReturn
  <2> HIDE DEF returned, returned2
  <2>5. QED
    BY <1>1, <2>2, <2>3, <2>4 DEF Together
<1>9. QED
  BY <1>1, <1>4, <1>5, <1>6, <1>7, <1>8, OpFields DEF Ids

\* The variables alive are equal under their new names.
Equal(p, old, new, s, t) ==
  \A v \in Vars : s.pc \in LiveAt(p, v) => t.env[NameOf(old, new, v)] = s.env[v]

Mirrors(p, old, new, s, t) == Together(s, t) /\ (s.done \/ Equal(p, old, new, s, t))

\* Then the operation and its renamed one do the same.
LEMMA RenamedSame ==
  ASSUME NEW p \in Code, NEW q \in Code, NEW old \in Vars, NEW new \in Vars,
         Renamed(p, q, old, new), NEW s \in States(p), NEW t \in States(q),
         s.pc = t.pc, Equal(p, old, new, s, t)
  PROVE  /\ SameArgs(p[s.pc], s.env, q[t.pc], t.env)
         /\ KeepsOut(p[s.pc], s.env, q[t.pc], t.env)
<1> DEFINE op == p[s.pc]
           op2 == q[t.pc]
<1>1. op \in Op /\ s.pc \in 1..Len(p) /\ RenamedOp(op, op2, old, new)
  BY StateFields DEF Renamed
<1>2. \A v \in Vars : NeedsOld(op, v) => t.env[NameOf(old, new, v)] = s.env[v]
  BY <1>1, LiveWhereNeeded DEF Equal
<1>3. op.args \in Seq(Value) /\ DOMAIN op.args = 1..Len(op.args)
  BY <1>1, OpFields
<1>4. ASSUME NEW k \in 1..Len(op.args)
      PROVE  Eval(s.env, op.args[k]) = Eval(t.env, op2.args[k])
  <2>1. op.args[k] \in Value /\ op2.args[k] = ArgOf(old, new, op.args[k])
    BY <1>1, <1>3 DEF RenamedOp
  <2>2. CASE op.args[k].kind = "var"
    <3>1. PICK v \in Vars : op.args[k] = Var(v)
      BY <2>1, <2>2 DEF Value, Var
    <3>2. NeedsOld(op, v)
      BY <1>3, <3>1 DEF NeedsOld, Reads, ToSet
    <3>3. \A w : Var(w).kind = "var" /\ Var(w).n = w
      BY DEF Var
    <3>4. op2.args[k] = Var(NameOf(old, new, v))
      <4>1. op.args[k] = Var(old) <=> v = old
        BY <3>1, <3>3
      <4>2. QED
        BY <2>1, <3>1, <4>1 DEF ArgOf, NameOf
    <3>5. QED
      BY <1>2, <3>1, <3>2, <3>3, <3>4 DEF Eval
  <2>3. CASE op.args[k].kind # "var"
    <3>1. op.args[k] # Var(old)
      BY <2>3 DEF Var
    <3>2. QED
      BY <2>1, <2>3, <3>1 DEF ArgOf, Eval
  <2>4. QED
    BY <2>2, <2>3
<1>5. SameArgs(op, s.env, op2, t.env)
  BY <1>1, <1>4 DEF SameArgs, RenamedOp
<1>6. ASSUME op.id = "CMOV", Len(op.args) = 2
      PROVE  s.env[op.out] = t.env[op2.out]
  <2>1. op.out \in Vars /\ op2.out = NameOf(old, new, op.out)
    BY <1>1, <1>6, OpFields DEF Pure, RenamedOp
  <2>2. NeedsOld(op, op.out)
    BY <1>6 DEF NeedsOld, Writes
  <2>3. QED
    BY <1>2, <2>1, <2>2
<1>7. QED
  BY <1>5, <1>6 DEF KeepsOut

LEMMA StepMirrors ==
  ASSUME NEW p \in Code, NEW q, NEW old \in Vars, NEW new \in Vars, old # new,
         Renamed(p, q, old, new), NoClash(p, old, new), NoClash(p, new, old),
         NEW s \in States(p), NEW t \in States(q), Mirrors(p, old, new, s, t)
  PROVE  Mirrors(p, old, new, ExecStep(p, s), ExecStep(q, t))
<1>1. CASE s.done
  <2>1. s.done /\ t.done
    BY <1>1 DEF Mirrors, Together
  <2>2. QED
    BY <2>1, ExecDone
<1>2. CASE ~s.done
  <2> DEFINE op == p[s.pc]
             op2 == q[t.pc]
             n == ExecStep(p, s)
             m == ExecStep(q, t)
  <2>1. /\ Together(s, t) /\ Equal(p, old, new, s, t) /\ s.pc = t.pc /\ ~t.done
    BY <1>2 DEF Mirrors, Together
  <2>2. q \in Code /\ \A i \in 1..Len(p) : p[i].id \in Jumps => LabelAt(q, p[i].label) = LabelAt(p, p[i].label)
    BY RenamedCode
  <2>3. op \in Op /\ op2 \in Op /\ s.pc \in 1..Len(p) /\ s.env \in [Vars -> Num] /\ t.env \in [Vars -> Num]
    BY <2>2, StateFields
  <2>4. SameArgs(op, s.env, op2, t.env) /\ KeepsOut(op, s.env, op2, t.env)
    BY <2>1, <2>2, RenamedSame
  <2>5. Together(n, m) /\ (~n.done => n.pc \in Successors(p, s.pc))
    BY <1>2, <2>1, <2>2, <2>3, <2>4, StepTogether
  <2>6. op2.id = op.id /\ op2.out = NameOf(old, new, op.out)
    BY <2>1, <2>3 DEF Renamed, RenamedOp
  <2>7. ASSUME ~n.done, NEW v \in Vars, n.pc \in LiveAt(p, v)
        PROVE  m.env[NameOf(old, new, v)] = n.env[v]
    <3>1. n.pc \in Successors(p, s.pc)
      BY <2>5, <2>7
    <3>2. NameOf(old, new, v) \in Vars
      BY DEF NameOf
    <3>3. ~Writes(op, v) => t.env[NameOf(old, new, v)] = s.env[v]
      <4>1. ~Writes(op, v) => s.pc \in LiveAt(p, v)
        BY <2>3, <2>7, <3>1, LiveBackwards
      <4>2. QED
        BY <2>1, <4>1 DEF Equal
    <3>4. CASE op.id \notin Pure
      <4>1. n.env = s.env /\ m.env = t.env
        BY <1>2, <2>1, <2>2, <2>6, <3>4, StepEffect
      <4>2. ~Writes(op, v)
        <5>1. op.out = NoVar
          BY <2>3, <3>4, OpFields
        <5>2. QED
          BY <5>1, LlPrepAssumption DEF Writes
      <4>3. QED
        BY <3>3, <4>1, <4>2
    <3>5. CASE op.id \in Pure
      <4>1. n.env = [s.env EXCEPT ![op.out] = Result(s.env, op)]
        BY <1>2, <3>5, StepEffect
      <4>2. m.env = [t.env EXCEPT ![op2.out] = Result(t.env, op2)]
        BY <2>1, <2>2, <2>6, <3>5, StepEffect
      <4>3. Result(s.env, op) = Result(t.env, op2)
        BY <2>3, <2>4, <3>5, ResultSame
      <4>4. op.out \in Vars /\ op2.out \in Vars
        BY <2>3, <2>6, <3>5, OpFields
      <4> HIDE DEF n, m
      <4>5. CASE op.out = v
        <5>1. n.env[v] = Result(s.env, op)
          BY <2>3, <4>1, <4>5
        <5>2. m.env[op2.out] = Result(t.env, op2)
          BY <2>3, <4>2, <4>4
        <5>3. QED
          BY <2>6, <4>3, <4>5, <5>1, <5>2
      <4>6. CASE op.out # v
        <5>1. t.env[NameOf(old, new, v)] = s.env[v]
          BY <3>3, <4>6 DEF Writes
        <5>2. op2.out # NameOf(old, new, v)
          <6>1. ~(op.out = old /\ v = new) /\ ~(op.out = new /\ v = old)
            BY <2>3, <2>7, <3>1 DEF NoClash, Writes
          <6>2. QED
            BY <2>6, <4>6, <6>1 DEF NameOf
        <5>3. n.env[v] = s.env[v]
          BY <2>3, <4>1, <4>6
        <5>4. m.env[NameOf(old, new, v)] = t.env[NameOf(old, new, v)]
          BY <2>3, <3>2, <4>2, <5>2
        <5>5. QED
          BY <5>1, <5>3, <5>4
      <4>7. QED
        BY <4>5, <4>6
    <3>6. QED
      BY <3>4, <3>5
  <2> HIDE DEF n, m
  <2>8. n.done \/ Equal(p, old, new, n, m)
    BY <2>7 DEF Equal
  <2>9. Mirrors(p, old, new, n, m)
    BY <2>5, <2>8 DEF Mirrors
  <2>10. QED
    BY <2>9 DEF n, m
<1>3. QED
  BY <1>1, <1>2

\* The renamed block does the same.
LEMMA RenamedEquivalent ==
  ASSUME NEW p \in Code, NEW q, NEW old \in Vars, NEW new \in Vars, old # new,
         Renamed(p, q, old, new), NoClash(p, old, new), NoClash(p, new, old),
         1 \notin LiveAt(p, old)
  PROVE  Equivalent(p, q)
<1> DEFINE R == {x \in States(p) \X States(q) : Mirrors(p, old, new, x[1], x[2])}
<1>1. q \in Code
  BY RenamedCode
<1>2. \A s \in States(p), t \in States(q) : <<s, t>> \in R <=> Mirrors(p, old, new, s, t)
  OBVIOUS
<1>3. R \in SUBSET (States(p) \X States(q))
  OBVIOUS
<1> HIDE DEF R
<1>4. ASSUME NEW env \in [Vars -> Num]
      PROVE  <<Start(env), Start(env)>> \in R
  <2>1. Start(env) \in States(p) /\ Start(env) \in States(q)
    BY <1>1, StartType
  <2>2. \A v \in Vars : 1 \in LiveAt(p, v) => env[NameOf(old, new, v)] = env[v]
    BY DEF NameOf
  <2>3. Mirrors(p, old, new, Start(env), Start(env))
    BY <2>2 DEF Mirrors, Together, Equal, Start
  <2>4. QED
    BY <1>2, <2>1, <2>3
<1>5. ASSUME NEW s \in States(p), NEW t \in States(q), <<s, t>> \in R
      PROVE  /\ Seen(s) = Seen(t)
             /\ \E n \in Reach(Step(q), t) : <<ExecStep(p, s), n>> \in R
             /\ \E n \in Reach(Step(p), s) : <<n, ExecStep(q, t)>> \in R
  <2>1. Mirrors(p, old, new, s, t)
    BY <1>2, <1>5
  <2>2. /\ ExecStep(p, s) \in Reach(Step(p), s) /\ ExecStep(p, s) \in States(p)
        /\ ExecStep(q, t) \in Reach(Step(q), t) /\ ExecStep(q, t) \in States(q)
    BY <1>1, ReachExec
  <2>3. Mirrors(p, old, new, ExecStep(p, s), ExecStep(q, t))
    BY <2>1, StepMirrors
  <2>4. <<ExecStep(p, s), ExecStep(q, t)>> \in R
    BY <1>2, <2>2, <2>3
  <2>5. Seen(s) = Seen(t)
    BY <2>1 DEF Mirrors, Together, Seen
  <2>6. QED
    BY <2>2, <2>4, <2>5
<1>6. QED
  BY <1>1, <1>3, <1>4, <1>5, Bisimulation

--------------------------------------------------------------------------------
(***************************************************************************)
(* The inductive invariant.  The block is only renamed until slots are       *)
(* shared, so marks and operations correspond; if the lifetimes cover where  *)
(* the variables of the block are alive, the marks go on to.                 *)
(***************************************************************************)
Blocks == source \in Code /\ prog \in Code /\ Assigned(source)

Phase ==
  /\ pass = 1 => prog = source
  /\ pass <= 2 => at = 1 /\ Len(prog) = Len(source)

Merged ==
  LifetimesCover(source) => Equivalent(source, prog) /\ (pass = 2 => AllMarked(prog, alive))

IInv == TypeOK /\ Blocks /\ Phase /\ Merged

LEMMA PassesAre ==
  /\ Len(Passes) = 5
  /\ Done <=> pass > 5
  /\ TypeOK /\ Running("lifetimes") => pass = 1
  /\ pass = 2 => Running("share_slots")
  /\ TypeOK /\ Running("share_slots") => pass = 2
  /\ TypeOK /\ (Running("inlineVars") \/ Running("binary")) => pass \in 3..5
<1>1. /\ Len(Passes) = 5
      /\ Passes[1] = "lifetimes" /\ Passes[2] = "share_slots" /\ Passes[3] = "inlineVars"
      /\ Passes[4] = "inlineVars" /\ Passes[5] = "binary"
  BY DEF Passes
<1>2. Done <=> pass > 5
  BY <1>1 DEF Done
<1>3. TypeOK => pass \in 1..6
  BY <1>1 DEF TypeOK
<1>4. TypeOK /\ ~Done => pass \in {1, 2, 3, 4, 5}
  BY <1>2, <1>3
<1>5. /\ TypeOK /\ Running("lifetimes") => pass = 1
      /\ TypeOK /\ Running("share_slots") => pass = 2
      /\ TypeOK /\ (Running("inlineVars") \/ Running("binary")) => pass \in 3..5
  BY <1>1, <1>4 DEF Running
<1>6. pass = 2 => Running("share_slots")
  BY <1>1, <1>2 DEF Running
<1>7. QED
  BY <1>1, <1>2, <1>5, <1>6

LEMMA Initially == Init => IInv
<1> SUFFICES ASSUME Init PROVE IInv
  OBVIOUS
<1>1. /\ source \in Code /\ prog = source /\ pass = 1 /\ at = 1 /\ Assigned(source)
      /\ alive = [v \in Vars |-> {}] /\ renamed = {} /\ var = 1 /\ var2 = 1
  BY LlPrepAssumption DEF Init, Code
<1>2. Len(source) \in Nat /\ source \in Seq(Op)
  BY <1>1, CodeType
<1>3. TypeOK
  <2>1. 1 \in 1..Len(Passes) + 1
    BY PassesAre
  <2>2. 1 \in 1..Len(source) + 1 /\ 1 \in 1..NumVars + 1
    BY <1>2, LlPrepAssumption
  <2>3. alive \in [Vars -> SUBSET (1..Len(source))]
    BY <1>1
  <2>4. QED
    BY <1>1, <1>2, <2>1, <2>2, <2>3 DEF TypeOK
<1>4. Phase
  BY <1>1 DEF Phase
<1>5. Merged
  BY <1>1, EquivalentReflexive DEF Merged
<1>6. QED
  BY <1>1, <1>3, <1>4, <1>5 DEF IInv, Blocks

\* The lifetimes are marked for the block they were computed for.
LEMMA LifetimesKeeps ==
  ASSUME IInv, Lifetimes
  PROVE  IInv'
<1>1. /\ pass = 1 /\ prog = source /\ at = 1 /\ source \in Code /\ Assigned(source)
      /\ pass' = 2 /\ source' = source /\ prog' = prog /\ at' = at
      /\ renamed' = renamed /\ var' = var /\ var2' = var2
      /\ alive' = [v \in Vars |-> Lifetime(prog, v)]
  BY PassesAre DEF Lifetimes, IInv, Blocks, Phase
<1>2. Passes' = Passes
  BY DEF Passes
<1>3. TypeOK'
  <2>1. \A v \in Vars : Lifetime(prog, v) \in SUBSET (1..Len(source))
    BY <1>1, CodeType DEF Lifetime
  <2>2. alive' \in [Vars -> SUBSET (1..Len(source))]
    BY <1>1, <2>1
  <2>3. 2 \in 1..Len(Passes) + 1
    BY PassesAre
  <2>4. QED
    BY <1>1, <1>2, <2>2, <2>3 DEF IInv, TypeOK
<1>4. Phase'
  BY <1>1 DEF Phase
<1>5. LifetimesCover(source) => AllMarked(prog, alive)'
  BY <1>1 DEF LifetimesCover, AllMarked
<1>6. Merged'
  BY <1>1, <1>5, EquivalentReflexive DEF Merged
<1>7. QED
  BY <1>1, <1>3, <1>4, <1>6 DEF IInv, Blocks

\* The loops of share_slots go on to another variable.
LEMMA NextVarKeeps ==
  ASSUME IInv, NextVar \/ NextVar2
  PROVE  IInv'
<1>1. /\ source' = source /\ prog' = prog /\ pass' = pass /\ at' = at
      /\ alive' = alive /\ renamed' = renamed
  BY DEF NextVar, NextVar2
<1>2. var' \in 1..NumVars + 1 /\ var2' \in 1..NumVars + 1
  <2>1. /\ NumVars \in Nat /\ var \in 1..NumVars + 1 /\ var2 \in 1..NumVars + 1
        /\ var <= NumVars
    BY LlPrepAssumption DEF IInv, TypeOK, NextVar, NextVar2, Sharing, LastVar
  <2>2. CASE NextVar
    BY <2>1, <2>2 DEF NextVar
  <2>3. CASE NextVar2
    BY <2>1, <2>3 DEF NextVar2, LastVar
  <2>4. QED
    BY <2>2, <2>3
<1>3. TypeOK'
  BY <1>1, <1>2 DEF IInv, TypeOK, Passes
<1>4. Blocks' /\ Phase' /\ Merged'
  BY <1>1 DEF IInv, Blocks, Phase, Merged
<1>5. QED
  BY <1>3, <1>4 DEF IInv

\* Two candidates are merged.
LEMMA MergeKeeps ==
  ASSUME IInv, Running("share_slots"), NEW old \in Vars, NEW new \in Vars, old # new,
         Candidate(old), Candidate(new), CanMerge(old, new) \/ CanMerge(new, old),
         Merge(old, new), UNCHANGED <<source, pass, at>>,
         var' \in 1..NumVars + 1, var2' \in 1..NumVars + 1
  PROVE  IInv'
<1>1. /\ source \in Code /\ prog \in Code /\ pass = 2 /\ at = 1 /\ Len(prog) = Len(source)
      /\ source' = source /\ pass' = pass /\ at' = at
      /\ alive \in [Vars -> SUBSET (1..Len(source))] /\ renamed \subseteq Vars
      /\ old \in Vars \ Ins /\ new \in Vars \ Ins
  <2>1. pass = 2
    BY PassesAre DEF IInv
  <2>2. QED
    BY <2>1 DEF IInv, Blocks, Phase, TypeOK, Candidate
<1>2. /\ prog' = Rename(old, new) /\ renamed' = renamed \cup {old}
      /\ alive' = [alive EXCEPT ![new] = alive[new] \cup alive[old]]
  BY DEF Merge
<1>3. Renamed(prog, prog', old, new)
  BY <1>1, <1>2, RenameIs
<1>4. prog' \in Code /\ Len(prog') = Len(prog)
  BY <1>1, <1>3, RenamedCode
<1>5. alive' \in [Vars -> SUBSET (1..Len(source))]
  BY <1>1, <1>2
<1>6. alive'[new] = alive[new] \cup alive[old] /\ \A v \in Vars : v # new => alive'[v] = alive[v]
  BY <1>1, <1>2
<1>7. TypeOK'
  <2>1. prog' \in Seq(Op) /\ Len(prog') \in Nat \ {0} /\ Passes' = Passes
    BY <1>4, CodeType DEF Passes
  <2>2. source \in Seq(Op) /\ pass \in 1..Len(Passes) + 1 /\ 1 \in 1..Len(prog') + 1
    BY <2>1 DEF IInv, TypeOK
  <2>3. QED
    BY <1>1, <1>2, <1>5, <2>1, <2>2 DEF TypeOK
<1>8. Blocks' /\ Phase'
  BY <1>1, <1>4 DEF IInv, Blocks, Phase
<1>9. ASSUME LifetimesCover(source)
      PROVE  Equivalent(source, prog') /\ AllMarked(prog', alive')
  <2>1. Equivalent(source, prog) /\ AllMarked(prog, alive)
    BY <1>1, <1>9 DEF IInv, Merged
  <2>2. AllMarked(prog', alive')
    <3>1. Joined(alive, alive', old, new)
      BY <1>6 DEF Joined
    <3>2. QED
      BY <1>1, <1>3, <2>1, <3>1, MergeMarked
  <2>3. Marked(prog, old, alive[old]) /\ Marked(prog, new, alive[new])
    BY <1>1, <2>1 DEF AllMarked
  <2>4. /\ alive[old] \in SUBSET (1..Len(prog)) /\ alive[new] \in SUBSET (1..Len(prog))
        /\ Len(prog) \in Nat
    BY <1>1, CodeType
  <2>5. Apart(alive[old], alive[new]) /\ Apart(alive[new], alive[old])
    <3>1. Apart(alive[old], alive[new]) \/ Apart(alive[new], alive[old])
      BY <2>4, CanMergeApart
    <3>2. QED
      BY <3>1 DEF Apart
  <2>6. \A i \in alive[old] \cup alive[new] : i \in Int
    BY <2>4
  <2>7. NoClash(prog, old, new) /\ NoClash(prog, new, old)
    BY <1>1, <2>3, <2>5, <2>6, ApartNoClash
  <2>8. 1 \notin LiveAt(prog, old)
    <3>1. \A j \in alive[old] : ~(j < 1)
      BY <2>4
    <3>2. QED
      BY <2>3, <3>1 DEF Marked
  <2>9. Equivalent(prog, prog')
    BY <1>1, <1>3, <2>7, <2>8, RenamedEquivalent
  <2>10. QED
    BY <2>1, <2>2, <2>9, EquivalentTransitive
<1>10. Merged'
  BY <1>1, <1>9 DEF Merged
<1>11. QED
  BY <1>7, <1>8, <1>10 DEF IInv

LEMMA SharingKeeps ==
  ASSUME IInv, Absorb \/ GiveUp
  PROVE  IInv'
<1>1. /\ Running("share_slots") /\ var \in Vars /\ var2 \in Vars /\ var # var2 /\ NumVars \in Nat
      /\ Candidate(var) /\ Candidate(var2) /\ CanMerge(var, var2)
      /\ UNCHANGED <<source, pass, at>>
  <2>1. /\ NumVars \in Nat /\ var \in 1..NumVars + 1 /\ var2 \in 1..NumVars + 1
        /\ var <= NumVars /\ var2 <= NumVars
    BY LlPrepAssumption DEF IInv, TypeOK, Absorb, GiveUp, Sharing, LastVar
  <2>2. var \in Vars /\ var2 \in Vars
    BY <2>1 DEF Vars
  <2>3. QED
    BY <2>1, <2>2 DEF Absorb, GiveUp, Sharing, Matches
<1>2. CASE Absorb
  <2>1. Merge(var2, var) /\ var' = var /\ var2' = 1
    BY <1>2 DEF Absorb
  <2>2. var' \in 1..NumVars + 1 /\ var2' \in 1..NumVars + 1
    BY <1>1, <2>1 DEF Vars
  <2>3. QED
    BY <1>1, <2>1, <2>2, MergeKeeps
<1>3. CASE GiveUp
  <2>1. Merge(var, var2) /\ var' = var + 1 /\ var2' = 1
    BY <1>3 DEF GiveUp
  <2>2. var' \in 1..NumVars + 1 /\ var2' \in 1..NumVars + 1
    BY <1>1, <2>1 DEF Vars
  <2>3. QED
    BY <1>1, <2>1, <2>2, MergeKeeps
<1>4. QED
  BY <1>2, <1>3

\* An iteration of one of the passes over the merged block.
LEMMA VisitKeeps ==
  ASSUME IInv, NEW name \in {"inlineVars", "binary"}, Visit(name)
  PROVE  IInv'
<1>1. /\ source \in Code /\ prog \in Code /\ source' = source /\ pass' = pass
      /\ alive' = alive /\ renamed' = renamed /\ var' = var /\ var2' = var2
      /\ at \in 1..Len(prog) /\ pass \in 3..5
  <2>1. /\ source' = source /\ pass' = pass /\ at <= Len(prog) /\ Running(name)
        /\ alive' = alive /\ renamed' = renamed /\ var' = var /\ var2' = var2
    BY DEF Visit
  <2>2. TypeOK /\ source \in Code /\ prog \in Code
    BY DEF IInv, Blocks
  <2>3. at \in 1..Len(prog)
    BY <2>1, <2>2, CodeType DEF TypeOK
  <2>4. pass \in 3..5
    BY <2>1, <2>2, PassesAre
  <2>5. QED
    BY <2>1, <2>2, <2>3, <2>4
<1> DEFINE r == Iterate(name, prog, at)
<1>2. prog' = r.prog /\ at' = r.next
  BY DEF Visit
<1>3. name \in PassNames /\ name # "cmov_expand"
  BY DEF PassNames
<1>4. Improves(prog, r)
  BY <1>1, <1>3, IterateImproves
<1> HIDE DEF r
<1>5. prog' \in Code /\ at' \in 1..Len(prog') + 1 /\ Equivalent(prog, prog')
  BY <1>2, <1>4 DEF Improves
<1>6. TypeOK'
  <2>1. prog' \in Seq(Op) /\ Passes' = Passes
    BY <1>5, CodeType DEF Passes
  <2>2. QED
    BY <1>1, <1>5, <2>1 DEF IInv, TypeOK
<1>7. Phase'
  <2>1. ~(pass' = 1) /\ ~(pass' <= 2)
    BY <1>1
  <2>2. QED
    BY <2>1 DEF Phase
<1>8. Merged'
  <2>1. ~(pass' = 2)
    BY <1>1
  <2>2. LifetimesCover(source) => Equivalent(source, prog')
    BY <1>5, EquivalentTransitive DEF IInv, Merged
  <2>3. QED
    BY <1>1, <2>1, <2>2 DEF Merged
<1>9. QED
  BY <1>1, <1>5, <1>6, <1>7, <1>8 DEF IInv, Blocks

LEMMA PassEndsKeeps ==
  ASSUME IInv, ShareEnd \/ NextPass
  PROVE  IInv'
<1>1. /\ source' = source /\ prog' = prog /\ pass' = pass + 1 /\ at' \in {at, 1}
      /\ alive' = alive /\ renamed' = renamed /\ var' = var /\ var2' = var2
  BY DEF ShareEnd, NextPass
<1>2. pass \in 2..5
  <2>1. TypeOK
    BY DEF IInv
  <2>2. pass = 2 \/ pass \in 3..5
    BY <2>1, PassesAre DEF ShareEnd, NextPass
  <2>3. QED
    BY <2>2
<1>3. TypeOK'
  <2>1. Passes' = Passes /\ Len(Passes) = 5
    BY PassesAre DEF Passes
  <2>2. pass' \in 1..Len(Passes) + 1
    BY <1>1, <1>2, <2>1
  <2>3. at' \in 1..Len(prog) + 1
    <3>1. Len(prog) \in Nat
      BY CodeType DEF IInv, Blocks
    <3>2. QED
      BY <1>1, <3>1 DEF IInv, TypeOK
  <2>4. QED
    BY <1>1, <2>1, <2>2, <2>3 DEF IInv, TypeOK
<1>4. ~(pass' <= 2) /\ ~(pass' = 1) /\ ~(pass' = 2)
  BY <1>1, <1>2
<1>5. Blocks' /\ Phase' /\ Merged'
  BY <1>1, <1>4 DEF IInv, Blocks, Phase, Merged
<1>6. QED
  BY <1>3, <1>5 DEF IInv

LEMMA Inductive == IInv /\ [Next]_vars => IInv'
<1> SUFFICES ASSUME IInv, [Next]_vars PROVE IInv'
  OBVIOUS
<1>1. CASE Lifetimes
  BY <1>1, LifetimesKeeps
<1>2. CASE NextVar \/ NextVar2
  BY <1>2, NextVarKeeps
<1>3. CASE Absorb \/ GiveUp
  BY <1>3, SharingKeeps
<1>4. CASE ShareEnd \/ NextPass
  BY <1>4, PassEndsKeeps
<1>5. CASE Visit("inlineVars") \/ Visit("binary")
  BY <1>5, VisitKeeps
<1>6. CASE UNCHANGED vars
  BY <1>6 DEF vars, IInv, TypeOK, Blocks, Phase, Merged, Passes
<1>7. QED
  BY <1>1, <1>2, <1>3, <1>4, <1>5, <1>6 DEF Next

LEMMA Always == Spec => []IInv
  BY Initially, Inductive, PTL DEF Spec

--------------------------------------------------------------------------------
(***************************************************************************)
(* The properties.                                                          *)
(***************************************************************************)

\* The block, the marks and the loops of vx_llir_prep_lower keep their types: a
\* variable is only ever marked for operations the block has.
THEOREM TypesKept == Spec => []TypeOK
<1>1. IInv => TypeOK
  BY DEF IInv
<1>2. QED
  BY <1>1, Always, PTL

\* Merging keeps the marks right (share_slots.c:143-149): if lifetimes.c has
\* marked every variable where it is alive, a variable others were merged into
\* is still marked wherever it is alive.
THEOREM SharingKeepsMarks ==
  Spec => [](LifetimesCover(source) => AliveInOp)
<1>1. IInv => (LifetimesCover(source) => AliveInOp)
  <2> SUFFICES ASSUME IInv, LifetimesCover(source), Running("share_slots"),
                      NEW v \in Vars \ (Ins \cup renamed)
               PROVE  LiveAt(prog, v) \subseteq alive[v]
    BY DEF AliveInOp
  <2>1. pass = 2
    BY PassesAre DEF IInv
  <2>2. Marked(prog, v, alive[v])
    BY <2>1 DEF IInv, Merged, AllMarked
  <2>3. QED
    BY <2>2 DEF Marked
<1>2. QED
  BY <1>1, Always, PTL

\* Then no variable is overwritten while its value is needed: merging variables
\* and tidying the merged block changes nothing of what the block stores and
\* returns, in any number of steps (share_slots.c:132-157).
THEOREM SharingCorrect ==
  ASSUME More = Nat
  PROVE  Spec => [](LifetimesCover(source) => BehaviourPreserved)
<1>1. IInv => (LifetimesCover(source) => BehaviourPreserved)
  <2> SUFFICES ASSUME IInv, LifetimesCover(source)
               PROVE  SameBehaviour(source, prog, Envs, Steps, More)
    BY DEF BehaviourPreserved
  <2>1. source \in Code /\ prog \in Code /\ Equivalent(source, prog)
    BY DEF IInv, Blocks, Merged
  <2>2. Envs \in SUBSET [Vars -> Num] /\ Steps \in SUBSET Nat
    BY LlPrepAssumption
  <2>3. QED
    BY <2>1, <2>2, EquivalentBehaves
<1>2. QED
  BY <1>1, Always, PTL

\* vx_llir_prep_lower is right on every block in which control only goes down
\* and leaves at the end: no loops, and ifs without an else.
THEOREM PreparationCorrect ==
  ASSUME More = Nat
  PROVE  Spec => [](RunsDown(source) => BehaviourPreserved)
<1>1. IInv => (RunsDown(source) => LifetimesCover(source))
  BY LifetimesRight DEF IInv, Blocks
<1>2. Spec => [](LifetimesCover(source) => BehaviourPreserved)
  BY SharingCorrect
<1>3. QED
  BY <1>1, <1>2, Always, PTL
================================================================================
