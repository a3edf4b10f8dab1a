----------------------------- MODULE BuilderProofs -----------------------------
(***************************************************************************)
(* The heap of linked operations is a function's lists, whatever pass edits  *)
(* it and however its functions are nested; see Builder and OpLists.         *)
(***************************************************************************)
EXTENDS Builder, SequenceTheorems, FiniteSetTheorems, WellFoundedInduction, TLAPS

--------------------------------------------------------------------------------
(***************************************************************************)
(* Induction over the natural numbers, by sets of them.                     *)
(***************************************************************************)
LEMMA LeastNat ==
  ASSUME NEW C \in SUBSET Nat, C # {}
  PROVE  \E n \in C : \A m \in C : n <= m
<1>1. PICK x \in C : \A y \in C : ~(<<y, x>> \in OpToRel(<, Nat))
  BY NatLessThanWellFounded, WFMin
<1>2. \A y \in C : ~(y < x)
  BY <1>1 DEF OpToRel
<1>3. QED
  BY <1>2

LEMMA SetInduction ==
  ASSUME NEW C, 0 \in C, \A n \in Nat : n \in C => n + 1 \in C
  PROVE  Nat \subseteq C
<1> SUFFICES ASSUME Nat \ C # {}
             PROVE  FALSE
  OBVIOUS
<1>1. PICK n \in Nat \ C : \A m \in Nat \ C : n <= m
  BY LeastNat
<1>2. QED
  BY <1>1, n - 1 \in Nat

--------------------------------------------------------------------------------
(***************************************************************************)
(* Lists in a heap.                                                         *)
(***************************************************************************)
Heap == [id : [Ops -> Kinds], inner : [Ops -> Seq(Blocks)],
         bparent : [Blocks -> Blocks \cup {NULL}], parent : [Ops -> Blocks \cup {NULL}],
         first : [Blocks -> Ops \cup {NULL}], next : [Ops -> Ops \cup {NULL}]]

At(s, i, e) == IF i <= Len(s) THEN s[i] ELSE e

\* From o, the pointers lead through the operations s to e.
Path(h, o, s, e) == o = At(s, 1, e) /\ \A i \in 1..Len(s) : h.next[s[i]] = At(s, i + 1, e)

\* No operations, in a list or removed, lead only to each other.
Acyclic(h) == \A X \in SUBSET Ops : (\A o \in X : h.next[o] \in X) => X = {}

Distinct(s) == \A i, j \in 1..Len(s) : s[i] = s[j] => i = j
EndOf(s) == IF s = <<>> THEN NULL ELSE s[Len(s)]

\* The blocks U have the lists L.
Rep(h, L, U) ==
  /\ h \in Heap /\ Acyclic(h)
  /\ L \in [Blocks -> Seq(Ops)]
  /\ U \subseteq Blocks
  /\ \A b \in U : Path(h, h.first[b], L[b], NULL)
  /\ \A b \in U : \A o \in ToSet(L[b]) : h.parent[o] = b
  /\ \A b \in Blocks \ U : L[b] = <<>>

\* A block is held once, and knows the block of the operation that holds it.
Unshared(inner) ==
  \A o, p \in Ops : \A i \in 1..Len(inner[o]), j \in 1..Len(inner[p]) :
    inner[o][i] = inner[p][j] => o = p /\ i = j
NotHeld(inner, b) == \A o \in Ops : b \notin ToSet(inner[o])
HeldBut(h, L, U, X) ==
  /\ Unshared(h.inner) /\ NotHeld(h.inner, Root)
  /\ \A b \in U : \A o \in ToSet(L[b]) \ X : \A c \in ToSet(h.inner[o]) : c \in U /\ h.bparent[c] = b
Held(h, L, U) == HeldBut(h, L, U, {})
Kinded(h, L, U) ==
  \A b \in U : \A o \in ToSet(L[b]) :
    /\ h.id[o] # "none"
    /\ h.id[o] = "WHILE" => Len(h.inner[o]) = 2
    /\ h.id[o] = "CFOR" => Len(h.inner[o]) = 4
Unused(h, L, U, F) == F \subseteq U \ {Root} /\ \A b \in F : L[b] = <<>> /\ NotHeld(h.inner, b)

\* The loops going on are at operations of their blocks, each in a block of the one before.
Place == [block : Blocks, op : Ops \cup {NULL}]
Walking(h, L, U, w) ==
  /\ w \in Seq(Place)
  /\ \A i \in 1..Len(w) : w[i].block \in U /\ w[i].op \in ToSet(L[w[i].block]) \cup {NULL}
  /\ \A i \in 1..Len(w) - 1 : w[i].op # NULL /\ w[i + 1].block \in ToSet(h.inner[w[i].op])
  /\ w # <<>> => w[1].block = Root
  /\ \A i, j \in 1..Len(w) : w[i].block = w[j].block => i = j

Used == Blocks \ moved

IInv ==
  /\ moved \subseteq Blocks \ {Root}
  /\ Rep(heap, Listed, Used)
  /\ Held(heap, Listed, Used)
  /\ Kinded(heap, Listed, Used)
  /\ Unused(heap, Listed, Used, fresh)
  /\ Walking(heap, Listed, Used, walk)

--------------------------------------------------------------------------------
(***************************************************************************)
(* Paths.                                                                   *)
(***************************************************************************)
LEMMA Sequences ==
  ASSUME NEW s \in Seq(Ops), NEW t \in Seq(Ops)
  PROVE  /\ Len(s) \in Nat /\ Len(t) \in Nat /\ s \o t \in Seq(Ops)
         /\ Len(s \o t) = Len(s) + Len(t)
         /\ \A i \in 1..Len(s) : s[i] \in Ops /\ (s \o t)[i] = s[i]
         /\ \A i \in 1..Len(t) : t[i] \in Ops /\ (s \o t)[Len(s) + i] = t[i]
<1>1. /\ Len(s) \in Nat /\ Len(t) \in Nat
      /\ (\A i \in 1..Len(s) : s[i] \in Ops) /\ (\A i \in 1..Len(t) : t[i] \in Ops)
  OBVIOUS
<1>2. /\ s \o t \in Seq(Ops) /\ Len(s \o t) = Len(s) + Len(t)
      /\ \A i \in 1..Len(s) + Len(t) : (s \o t)[i] = IF i <= Len(s) THEN s[i] ELSE t[i - Len(s)]
  BY ConcatProperties
<1>3. \A i \in 1..Len(s) : (s \o t)[i] = s[i]
  BY <1>1, <1>2
<1>4. ASSUME NEW i \in 1..Len(t)
      PROVE  (s \o t)[Len(s) + i] = t[i]
  <2>1. Len(s) + i \in 1..Len(s) + Len(t) /\ ~(Len(s) + i <= Len(s)) /\ (Len(s) + i) - Len(s) = i
    BY <1>1
  <2>2. QED
    BY <1>2, <2>1
<1>5. QED
  BY <1>1, <1>2, <1>3, <1>4

LEMMA ToSetIs ==
  ASSUME NEW S, NEW s \in Seq(S)
  PROVE  /\ ToSet(s) \subseteq S
         /\ \A i \in 1..Len(s) : s[i] \in ToSet(s)
         /\ \A x \in ToSet(s) : \E i \in 1..Len(s) : s[i] = x
<1>1. DOMAIN s = 1..Len(s) /\ \A i \in 1..Len(s) : s[i] \in S
  OBVIOUS
<1>2. QED
  BY <1>1 DEF ToSet

LEMMA ToSetConcat ==
  ASSUME NEW s \in Seq(Ops), NEW t \in Seq(Ops)
  PROVE  ToSet(s \o t) = ToSet(s) \cup ToSet(t)
<1>1. /\ Len(s) \in Nat /\ Len(t) \in Nat /\ s \o t \in Seq(Ops) /\ Len(s \o t) = Len(s) + Len(t)
      /\ \A i \in 1..Len(s) : (s \o t)[i] = s[i]
      /\ \A i \in 1..Len(t) : (s \o t)[Len(s) + i] = t[i]
  BY Sequences
<1>2. /\ \A i \in 1..Len(s \o t) : (s \o t)[i] \in ToSet(s \o t)
      /\ \A x \in ToSet(s \o t) : \E i \in 1..Len(s \o t) : (s \o t)[i] = x
  BY <1>1, ToSetIs
<1>3. /\ \A i \in 1..Len(s) : s[i] \in ToSet(s)
      /\ \A x \in ToSet(s) : \E i \in 1..Len(s) : s[i] = x
  BY ToSetIs
<1>4. /\ \A i \in 1..Len(t) : t[i] \in ToSet(t)
      /\ \A x \in ToSet(t) : \E i \in 1..Len(t) : t[i] = x
  BY ToSetIs
<1>5. ASSUME NEW x \in ToSet(s)
      PROVE  x \in ToSet(s \o t)
  <2>1. PICK i \in 1..Len(s) : s[i] = x
    BY <1>3
  <2>2. i \in 1..Len(s \o t) /\ (s \o t)[i] = x
    BY <1>1, <2>1
  <2>3. QED
    BY <1>2, <2>2
<1>6. ASSUME NEW x \in ToSet(t)
      PROVE  x \in ToSet(s \o t)
  <2>1. PICK i \in 1..Len(t) : t[i] = x
    BY <1>4
  <2>2. Len(s) + i \in 1..Len(s \o t) /\ (s \o t)[Len(s) + i] = x
    BY <1>1, <2>1
  <2>3. QED
    BY <1>2, <2>2
<1>7. ASSUME NEW x \in ToSet(s \o t)
      PROVE  x \in ToSet(s) \cup ToSet(t)
  <2>1. PICK i \in 1..Len(s \o t) : (s \o t)[i] = x
    BY <1>2
  <2>2. CASE i \in 1..Len(s)
    BY <1>1, <1>3, <2>1, <2>2
  <2>3. CASE i > Len(s)
    <3> DEFINE j == i - Len(s)
    <3>1. j \in 1..Len(t) /\ i = Len(s) + j
      BY <1>1, <2>3
    <3> HIDE DEF j
    <3>2. QED
      BY <1>1, <1>4, <2>1, <3>1
  <2>4. QED
    BY <1>1, <2>2, <2>3
<1>8. QED
  BY <1>5, <1>6, <1>7

LEMMA Single ==
  ASSUME NEW S, NEW x \in S
  PROVE  /\ <<x>> \in Seq(S) /\ Len(<<x>>) = 1 /\ <<x>>[1] = x
         /\ ToSet(<<x>>) = {x} /\ <<x>> # <<>> /\ EndOf(<<x>>) = x
<1>1. <<x>> \in Seq(S) /\ Len(<<x>>) = 1 /\ <<x>>[1] = x
  OBVIOUS
<1>2. <<x>> # <<>>
  BY <1>1, EmptySeq
<1>3. ToSet(<<x>>) = {x}
  BY <1>1, ToSetIs
<1>4. QED
  BY <1>1, <1>2, <1>3 DEF EndOf

LEMMA Empty ==
  ASSUME NEW S
  PROVE  <<>> \in Seq(S) /\ Len(<<>>) = 0 /\ ToSet(<<>>) = {} /\ EndOf(<<>>) = NULL
<1>1. <<>> \in Seq(S) /\ Len(<<>>) = 0
  BY EmptySeq
<1>2. \A x \in ToSet(<<>>) : \E i \in 1..Len(<<>>) : <<>>[i] = x
  BY <1>1, ToSetIs
<1>3. ToSet(<<>>) = {}
  BY <1>1, <1>2
<1>4. QED
  BY <1>1, <1>3 DEF EndOf

LEMMA EndIsLast ==
  ASSUME NEW s \in Seq(Ops), s # <<>>
  PROVE  EndOf(s) = s[Len(s)] /\ EndOf(s) \in ToSet(s) /\ EndOf(s) \in Ops /\ EndOf(s) # NULL
         /\ Len(s) \in 1..Len(s)
<1>1. Len(s) \in Nat \ {0}
  BY EmptySeq
<1>2. Len(s) \in 1..Len(s)
  BY <1>1
<1>3. s[Len(s)] \in ToSet(s) /\ s[Len(s)] \in Ops
  BY <1>2, ToSetIs
<1>4. QED
  BY <1>2, <1>3, BuilderAssumption DEF EndOf

LEMMA PathFrame ==
  ASSUME NEW h, NEW g, NEW o, NEW e, NEW s \in Seq(Ops),
         Path(h, o, s, e), \A p \in ToSet(s) : g.next[p] = h.next[p]
  PROVE  Path(g, o, s, e)
<1>1. \A i \in 1..Len(s) : s[i] \in ToSet(s)
  BY ToSetIs
<1>2. QED
  BY <1>1 DEF Path

LEMMA PathJoin ==
  ASSUME NEW h, NEW o, NEW m, NEW e, NEW s \in Seq(Ops), NEW t \in Seq(Ops),
         Path(h, o, s, m), Path(h, m, t, e)
  PROVE  Path(h, o, s \o t, e)
<1>1. /\ Len(s) \in Nat /\ Len(t) \in Nat /\ Len(s \o t) = Len(s) + Len(t)
      /\ \A i \in 1..Len(s) : (s \o t)[i] = s[i]
      /\ \A i \in 1..Len(t) : (s \o t)[Len(s) + i] = t[i]
  BY Sequences
<1>2. m = At(s \o t, Len(s) + 1, e)
  <2>1. m = IF 1 <= Len(t) THEN t[1] ELSE e
    BY DEF Path, At
  <2>2. CASE Len(t) = 0
    BY <1>1, <2>1, <2>2 DEF At
  <2>3. CASE Len(t) # 0
    <3>1. 1 \in 1..Len(t) /\ Len(s) + 1 <= Len(s \o t)
      BY <1>1, <2>3
    <3>2. QED
      BY <1>1, <2>1, <3>1 DEF At
  <2>4. QED
    BY <2>2, <2>3
<1>3. \A i \in 1..Len(s) + 1 : At(s \o t, i, e) = At(s, i, m)
  <2> SUFFICES ASSUME NEW i \in 1..Len(s) + 1
               PROVE  At(s \o t, i, e) = At(s, i, m)
    OBVIOUS
  <2>1. CASE i \in 1..Len(s)
    BY <1>1, <2>1 DEF At
  <2>2. CASE i = Len(s) + 1
    BY <1>1, <1>2, <2>2 DEF At
  <2>3. QED
    BY <1>1, <2>1, <2>2
<1>4. ASSUME NEW i \in 1..Len(s)
      PROVE  h.next[(s \o t)[i]] = At(s \o t, i + 1, e)
  <2>1. h.next[s[i]] = At(s, i + 1, m) /\ i + 1 \in 1..Len(s) + 1
    BY <1>1 DEF Path
  <2>2. QED
    BY <1>1, <1>3, <2>1
<1>5. ASSUME NEW i \in 1..Len(t)
      PROVE  h.next[(s \o t)[Len(s) + i]] = At(s \o t, Len(s) + i + 1, e)
  <2>1. h.next[t[i]] = At(t, i + 1, e)
    BY DEF Path
  <2>2. At(s \o t, Len(s) + (i + 1), e) = At(t, i + 1, e)
    <3>1. CASE i = Len(t)
      BY <1>1, <3>1 DEF At
    <3>2. CASE i + 1 \in 1..Len(t)
      <4>1. Len(s) + (i + 1) <= Len(s \o t) /\ i + 1 <= Len(t)
        BY <1>1, <3>2
      <4>2. QED
        BY <1>1, <3>2, <4>1 DEF At
    <3>3. QED
      BY <1>1, <3>1, <3>2
  <2>3. Len(s) + i + 1 = Len(s) + (i + 1)
    BY <1>1
  <2>4. QED
    BY <1>1, <2>1, <2>2, <2>3
<1>6. ASSUME NEW i \in 1..Len(s \o t)
      PROVE  h.next[(s \o t)[i]] = At(s \o t, i + 1, e)
  <2>1. CASE i \in 1..Len(s)
    BY <1>4, <2>1
  <2>2. CASE i > Len(s)
    <3> DEFINE j == i - Len(s)
    <3>1. j \in 1..Len(t) /\ i = Len(s) + j
      BY <1>1, <2>2
    <3> HIDE DEF j
    <3>2. QED
      BY <1>5, <3>1
  <2>3. QED
    BY <1>1, <2>1, <2>2
<1>7. o = At(s \o t, 1, e)
  <2>1. 1 \in 1..Len(s) + 1 /\ o = At(s, 1, m)
    BY <1>1 DEF Path
  <2>2. QED
    BY <1>3, <2>1
<1>8. QED
  BY <1>6, <1>7 DEF Path

LEMMA PathSplit ==
  ASSUME NEW h, NEW o, NEW e, NEW s \in Seq(Ops), NEW t \in Seq(Ops), Path(h, o, s \o t, e)
  PROVE  Path(h, o, s, At(t, 1, e)) /\ Path(h, At(t, 1, e), t, e)
<1>1. /\ Len(s) \in Nat /\ Len(t) \in Nat /\ Len(s \o t) = Len(s) + Len(t)
      /\ \A i \in 1..Len(s) : (s \o t)[i] = s[i]
      /\ \A i \in 1..Len(t) : (s \o t)[Len(s) + i] = t[i]
  BY Sequences
<1> DEFINE m == At(t, 1, e)
<1>2. \A i \in 1..Len(t) + 1 : At(s \o t, Len(s) + i, e) = At(t, i, e)
  <2> SUFFICES ASSUME NEW i \in 1..Len(t) + 1
               PROVE  At(s \o t, Len(s) + i, e) = At(t, i, e)
    OBVIOUS
  <2>1. CASE i \in 1..Len(t)
    <3>1. Len(s) + i <= Len(s \o t) /\ i <= Len(t)
      BY <1>1, <2>1
    <3>2. QED
      BY <1>1, <2>1, <3>1 DEF At
  <2>2. CASE i = Len(t) + 1
    BY <1>1, <2>2 DEF At
  <2>3. QED
    BY <1>1, <2>1, <2>2
<1>3. \A i \in 1..Len(s) + 1 : At(s \o t, i, e) = At(s, i, m)
  <2> SUFFICES ASSUME NEW i \in 1..Len(s) + 1
               PROVE  At(s \o t, i, e) = At(s, i, m)
    OBVIOUS
  <2>1. CASE i \in 1..Len(s)
    BY <1>1, <2>1 DEF At
  <2>2. CASE i = Len(s) + 1
    <3>1. 1 \in 1..Len(t) + 1 /\ ~(i <= Len(s))
      BY <1>1, <2>2
    <3>2. At(s \o t, Len(s) + 1, e) = m
      BY <1>2, <3>1
    <3>3. At(s, i, m) = m
      BY <3>1 DEF At
    <3>4. QED
      BY <2>2, <3>2, <3>3
  <2>3. QED
    BY <1>1, <2>1, <2>2
<1>4. Path(h, o, s, m)
  <2>1. o = At(s, 1, m)
    <3>1. 1 \in 1..Len(s) + 1 /\ o = At(s \o t, 1, e)
      BY <1>1 DEF Path
    <3>2. QED
      BY <1>3, <3>1
  <2>2. ASSUME NEW i \in 1..Len(s)
        PROVE  h.next[s[i]] = At(s, i + 1, m)
    <3>1. i \in 1..Len(s \o t) /\ i + 1 \in 1..Len(s) + 1
      BY <1>1
    <3>2. h.next[(s \o t)[i]] = At(s \o t, i + 1, e)
      BY <3>1 DEF Path
    <3>3. QED
      BY <1>1, <1>3, <3>1, <3>2
  <2>3. QED
    BY <2>1, <2>2 DEF Path
<1>5. Path(h, m, t, e)
  <2>1. ASSUME NEW i \in 1..Len(t)
        PROVE  h.next[t[i]] = At(t, i + 1, e)
    <3>1. Len(s) + i \in 1..Len(s \o t) /\ i + 1 \in 1..Len(t) + 1 /\ (Len(s) + i) + 1 = Len(s) + (i + 1)
      BY <1>1
    <3>2. h.next[(s \o t)[Len(s) + i]] = At(s \o t, (Len(s) + i) + 1, e)
      BY <3>1 DEF Path
    <3>3. QED
      BY <1>1, <1>2, <3>1, <3>2
  <2>2. QED
    BY <2>1 DEF Path
<1>6. QED
  BY <1>4, <1>5

Redirected(g, h, o, e) == g.next[o] = e /\ \A p \in Ops : p # o => g.next[p] = h.next[p]

\* The last operation of a path is made to lead elsewhere.
LEMMA PathRedirect ==
  ASSUME NEW h, NEW g, NEW o, NEW m, NEW e, NEW s \in Seq(Ops), s # <<>>, Distinct(s),
         Path(h, o, s, m), Redirected(g, h, EndOf(s), e)
  PROVE  Path(g, o, s, e)
<1>1. /\ Len(s) \in Nat \ {0} /\ Len(s) \in 1..Len(s)
      /\ \A i \in 1..Len(s) : s[i] \in Ops
  <2>1. Len(s) \in Nat \ {0}
    BY EmptySeq
  <2>2. \A i \in 1..Len(s) : s[i] \in Ops
    OBVIOUS
  <2>3. QED
    BY <2>1, <2>2
<1>2. o = At(s, 1, e)
  BY <1>1 DEF Path, At
<1>3. ASSUME NEW i \in 1..Len(s), i # Len(s)
      PROVE  g.next[s[i]] = At(s, i + 1, e)
  <2>1. s[i] # EndOf(s) /\ s[i] \in Ops /\ i + 1 <= Len(s)
    BY <1>1, <1>3 DEF EndOf, Distinct
  <2>2. g.next[s[i]] = At(s, i + 1, m)
    BY <2>1 DEF Path, Redirected
  <2>3. QED
    BY <2>1, <2>2 DEF At
<1>4. At(s, Len(s) + 1, e) = e
  BY <1>1 DEF At
<1>5. QED
  BY <1>2, <1>3, <1>4 DEF Path, EndOf, Redirected

--------------------------------------------------------------------------------
(***************************************************************************)
(* No circles.                                                              *)
(***************************************************************************)
\* No operation of a list that ends is in a set that is not left.
LEMMA ListLeaves ==
  ASSUME NEW h, NEW o, NEW s \in Seq(Ops), Path(h, o, s, NULL),
         NEW X \in SUBSET Ops, \A p \in X : h.next[p] \in X
  PROVE  \A i \in 1..Len(s) : s[i] \notin X
<1> DEFINE C == {n \in Nat : \A i \in 1..Len(s) : i + n = Len(s) => s[i] \notin X}
<1>1. Len(s) \in Nat
  OBVIOUS
<1>2. 0 \in C
  <2> SUFFICES ASSUME Len(s) \in 1..Len(s)
               PROVE  s[Len(s)] \notin X
    BY <1>1
  <2>1. h.next[s[Len(s)]] = NULL
    BY <1>1 DEF Path, At
  <2>2. QED
    BY <2>1, BuilderAssumption
<1>3. ASSUME NEW n \in Nat, n \in C
      PROVE  n + 1 \in C
  <2> SUFFICES ASSUME NEW i \in 1..Len(s), i + (n + 1) = Len(s)
               PROVE  s[i] \notin X
    OBVIOUS
  <2>1. i + 1 \in 1..Len(s) /\ (i + 1) + n = Len(s)
    BY <1>1
  <2>2. s[i + 1] \notin X
    BY <1>3, <2>1
  <2>3. h.next[s[i]] = s[i + 1]
    BY <2>1 DEF Path, At
  <2>4. QED
    BY <2>2, <2>3
<1>4. Nat \subseteq C
  BY ZenonT(60), <1>2, <1>3, SetInduction
<1>5. ASSUME NEW i \in 1..Len(s)
      PROVE  s[i] \notin X
  <2>1. Len(s) - i \in Nat /\ i + (Len(s) - i) = Len(s)
    BY <1>1
  <2>2. QED
    BY ZenonT(60), <1>4, <2>1
<1>6. QED
  BY <1>5

\* Changing where operations lead makes no circle if they are in lists that end then.
LEMMA AcyclicKept ==
  ASSUME NEW h, NEW g, Acyclic(h),
         \A o \in Ops : g.next[o] # h.next[o] =>
           \E p, s : s \in Seq(Ops) /\ Path(g, p, s, NULL) /\ o \in ToSet(s)
  PROVE  Acyclic(g)
<1> SUFFICES ASSUME NEW X \in SUBSET Ops, \A o \in X : g.next[o] \in X
             PROVE  X = {}
  BY DEF Acyclic
<1>1. ASSUME NEW o \in X
      PROVE  g.next[o] = h.next[o]
  <2> SUFFICES ASSUME g.next[o] # h.next[o]
               PROVE  FALSE
    OBVIOUS
  <2>1. PICK p, s : s \in Seq(Ops) /\ Path(g, p, s, NULL) /\ o \in ToSet(s)
    OBVIOUS
  <2>2. \A i \in 1..Len(s) : s[i] \notin X
    BY <2>1, ListLeaves
  <2>3. QED
    BY <2>1, <2>2, ToSetIs
<1>2. \A o \in X : h.next[o] \in X
  BY <1>1
<1>3. QED
  BY <1>2 DEF Acyclic

LEMMA PathInjective ==
  ASSUME NEW h, NEW o, NEW e, NEW s \in Seq(Ops), Acyclic(h), Path(h, o, s, e),
         NEW i \in 1..Len(s), NEW j \in 1..Len(s), s[i] = s[j]
  PROVE  i = j
<1>1. ASSUME NEW a \in 1..Len(s), NEW b \in 1..Len(s), s[a] = s[b], a < b
      PROVE  FALSE
  <2> DEFINE X == {s[k] : k \in a..b - 1}
  <2>1. Len(s) \in Nat /\ \A k \in a..b - 1 : k \in 1..Len(s) /\ s[k] \in Ops
    OBVIOUS
  <2>2. X \in SUBSET Ops /\ s[a] \in X
    BY <1>1, <2>1
  <2>3. ASSUME NEW k \in a..b - 1
        PROVE  h.next[s[k]] \in X
    <3>1. k \in 1..Len(s) /\ k + 1 \in 1..Len(s) /\ k + 1 <= Len(s)
      BY <2>1
    <3>2. h.next[s[k]] = s[k + 1]
      BY <3>1 DEF Path, At
    <3>3. CASE k + 1 = b
      BY <1>1, <2>2, <3>2, <3>3
    <3>4. CASE k + 1 # b
      <4>1. k + 1 \in a..b - 1
        BY <2>1, <3>4
      <4>2. QED
        BY <3>2, <4>1
    <3>5. QED
      BY <3>3, <3>4
  <2>4. \A p \in X : h.next[p] \in X
    BY <2>3
  <2> HIDE DEF X
  <2>5. QED
    BY <2>2, <2>4 DEF Acyclic
<1>2. i < j \/ j < i \/ i = j
  OBVIOUS
<1>3. QED
  BY <1>1, <1>2

LEMMA PathDistinct ==
  ASSUME NEW h, NEW o, NEW e, NEW s \in Seq(Ops), Acyclic(h), Path(h, o, s, e)
  PROVE  Distinct(s)
  BY PathInjective DEF Distinct

LEMMA PathFits ==
  ASSUME NEW h, NEW o, NEW e, NEW s \in Seq(Ops), Acyclic(h), Path(h, o, s, e)
  PROVE  Len(s) <= Cardinality(Ops)
<1> DEFINE f == [i \in 1..Len(s) |-> s[i]]
<1>1. Len(s) \in Nat /\ \A i \in 1..Len(s) : s[i] \in Ops
  OBVIOUS
<1>2. f \in Injection(1..Len(s), Ops)
  BY <1>1, PathInjective DEF Injection, IsInjective
<1>3. IsFiniteSet(1..Len(s)) /\ Cardinality(1..Len(s)) = Len(s)
  <2>1. Cardinality(1..Len(s)) = IF 1 > Len(s) THEN 0 ELSE Len(s) - 1 + 1
    BY <1>1, FS_Interval
  <2>2. IsFiniteSet(1..Len(s))
    BY <1>1, FS_Interval
  <2>3. QED
    BY <1>1, <2>1, <2>2
<1>4. Cardinality(1..Len(s)) <= Cardinality(Ops)
  BY <1>2, BuilderAssumption, FS_Injection
<1>5. QED
  BY <1>3, <1>4

\* From every operation the pointers lead to NULL.
LEMMA PathExists ==
  ASSUME NEW h \in Heap, Acyclic(h), NEW o \in Ops \cup {NULL}
  PROVE  \E s \in Seq(Ops) : Path(h, o, s, NULL)
<1> DEFINE X == {p \in Ops : ~ \E s \in Seq(Ops) : Path(h, p, s, NULL)}
<1>1. Path(h, NULL, <<>>, NULL) /\ <<>> \in Seq(Ops)
  BY EmptySeq DEF Path, At
<1>2. ASSUME NEW p \in Ops, NEW s \in Seq(Ops), Path(h, h.next[p], s, NULL)
      PROVE  Path(h, p, <<p>> \o s, NULL) /\ <<p>> \o s \in Seq(Ops)
  <2>1. <<p>> \in Seq(Ops) /\ Len(<<p>>) = 1 /\ <<p>>[1] = p
    OBVIOUS
  <2>2. Path(h, p, <<p>>, h.next[p])
    BY <2>1 DEF Path, At
  <2>3. Path(h, p, <<p>> \o s, NULL)
    BY <1>2, <2>1, <2>2, PathJoin
  <2>4. QED
    BY <2>1, <2>3
<1>3. ASSUME NEW p \in X
      PROVE  h.next[p] \in X
  <2>1. h.next[p] \in Ops \cup {NULL}
    BY DEF Heap
  <2>2. ~ \E s \in Seq(Ops) : Path(h, h.next[p], s, NULL)
    BY <1>2
  <2>3. h.next[p] # NULL
    BY <1>1, <2>2
  <2>4. QED
    BY <2>1, <2>2, <2>3
<1>4. X = {}
  BY <1>3 DEF Acyclic
<1>5. QED
  BY <1>1, <1>4

--------------------------------------------------------------------------------
(***************************************************************************)
(* What the loops that follow the pointers find.                            *)
(***************************************************************************)
Following(h, n, f) ==
  f = [k \in 0..n |-> [at \in Ops \cup {NULL} |->
         IF at = NULL \/ k = 0 THEN <<>> ELSE <<at>> \o f[k - 1][h.next[at]]]]

LEMMA FollowingExists ==
  ASSUME NEW h, NEW n \in Nat
  PROVE  \E f : Following(h, n, f)
<1> DEFINE N == Ops \cup {NULL}
           row(k, f) == [at \in N |-> IF at = NULL \/ k = 0 THEN <<>> ELSE <<at>> \o f[k - 1][h.next[at]]]
           C == {m \in Nat : \E f : Following(h, m, f)}
<1>1. 0 \in C
  <2> DEFINE f == [k \in 0..0 |-> [at \in N |-> <<>>]]
  <2>1. \A k \in 0..0 : row(k, f) = [at \in N |-> <<>>]
    OBVIOUS
  <2>2. f = [k \in 0..0 |-> row(k, f)]
    BY <2>1
  <2>3. Following(h, 0, f)
    BY <2>2 DEF Following
  <2>4. QED
    BY <2>3
<1>2. ASSUME NEW m \in Nat, m \in C
      PROVE  m + 1 \in C
  <2>1. PICK f : Following(h, m, f)
    BY <1>2
  <2>2. f = [k \in 0..m |-> row(k, f)]
    BY <2>1 DEF Following
  <2> DEFINE last == row(m + 1, f)
             g == [k \in 0..m + 1 |-> IF k = m + 1 THEN last ELSE f[k]]
  <2>11. last = row(m + 1, f)
    OBVIOUS
  <2> HIDE DEF row, last
  <2>12. \A k \in 0..m : f[k] = row(k, f)
    BY <2>2
  <2>3. \A k \in 0..m : g[k] = f[k] /\ f[k] = row(k, f)
    <3>1. \A k \in 0..m : k \in 0..m + 1 /\ k # m + 1
      OBVIOUS
    <3>2. QED
      BY <2>12, <3>1
  <2>4. \A k \in 0..m + 1 : k # 0 => k - 1 \in 0..m
    OBVIOUS
  <2>5. \A k \in 0..m + 1 : row(k, g) = row(k, f)
    <3> SUFFICES ASSUME NEW k \in 0..m + 1
                 PROVE  row(k, g) = row(k, f)
      OBVIOUS
    <3>1. k # 0 => g[k - 1] = f[k - 1]
      BY <2>3, <2>4
    <3> HIDE DEF g
    <3>2. QED
      BY <3>1 DEF row
  <2>6. \A k \in 0..m + 1 : g[k] = row(k, f)
    <3>1. g[m + 1] = row(m + 1, f)
      BY <2>11
    <3>2. \A k \in 0..m + 1 : k = m + 1 \/ k \in 0..m
      OBVIOUS
    <3> HIDE DEF g
    <3>3. QED
      BY <2>3, <3>1, <3>2
  <2>7. g = [k \in 0..m + 1 |-> g[k]]
    OBVIOUS
  <2> HIDE DEF g
  <2>8. g = [k \in 0..m + 1 |-> row(k, g)]
    BY <2>5, <2>6, <2>7
  <2>9. Following(h, m + 1, g)
    BY <2>8 DEF Following, row
  <2>10. QED
    BY <2>9
<1>3. Nat \subseteq C
  BY <1>1, <1>2, SetInduction
<1>4. QED
  BY <1>3

LEMMA ChainIs ==
  ASSUME NEW h \in Heap, Acyclic(h), NEW o \in Ops \cup {NULL}, NEW s \in Seq(Ops), Path(h, o, s, NULL)
  PROVE  Chain(h, o) = s
<1> DEFINE n == Cardinality(Ops) + 1
           f == CHOOSE x : Following(h, n, x)
           C == {k \in Nat : \A p \in Ops \cup {NULL}, t \in Seq(Ops) :
                   k \in 0..n /\ Len(t) <= k /\ Path(h, p, t, NULL) => f[k][p] = t}
<1>1. n \in Nat
  BY BuilderAssumption, FS_CardinalityType
<1>2. Following(h, n, f)
  BY <1>1, FollowingExists
<1>3. \A k \in 0..n : \A p \in Ops \cup {NULL} :
        f[k][p] = IF p = NULL \/ k = 0 THEN <<>> ELSE <<p>> \o f[k - 1][h.next[p]]
  <2>1. \A k \in 0..n : f[k] = [at \in Ops \cup {NULL} |->
         IF at = NULL \/ k = 0 THEN <<>> ELSE <<at>> \o f[k - 1][h.next[at]]]
    BY ZenonT(60), <1>2 DEF Following
  <2> HIDE DEF f, n
  <2>2. QED
    BY ZenonT(60), <2>1
<1>4. Chain(h, o) = f[n][o]
  BY DEF Chain, Following
<1> HIDE DEF f, n
<1>5. \A t \in Seq(Ops) : Len(t) \in Nat /\ (t # <<>> => Len(t) # 0) /\ (t = <<>> => Len(t) = 0)
  BY EmptySeq
<1>6. ASSUME NEW p \in Ops \cup {NULL}, NEW t \in Seq(Ops), Path(h, p, t, NULL)
      PROVE  p = NULL <=> t = <<>>
  <2>1. p = IF 1 <= Len(t) THEN t[1] ELSE NULL
    BY <1>6 DEF Path, At
  <2>2. t # <<>> => 1 \in 1..Len(t) /\ t[1] \in Ops
    BY <1>5
  <2>3. QED
    BY <1>5, <2>1, <2>2, BuilderAssumption
<1>7. 0 \in C
  <2> SUFFICES ASSUME NEW p \in Ops \cup {NULL}, NEW t \in Seq(Ops), 0 \in 0..n, Len(t) <= 0
               PROVE  f[0][p] = t
    OBVIOUS
  <2>1. t = <<>>
    BY <1>5
  <2>2. QED
    BY <1>3, <2>1
<1>8. ASSUME NEW k \in Nat, k \in C
      PROVE  k + 1 \in C
  <2> SUFFICES ASSUME NEW p \in Ops \cup {NULL}, NEW t \in Seq(Ops),
                      k + 1 \in 0..n, Len(t) <= k + 1, Path(h, p, t, NULL)
               PROVE  f[k + 1][p] = t
    OBVIOUS
  <2>1. CASE p = NULL
    BY <1>3, <1>6, <2>1
  <2>2. CASE p # NULL
    <3>1. t # <<>> /\ p \in Ops
      BY <1>6, <2>2
    <3> DEFINE u == Tail(t)
    <3>2. /\ u \in Seq(Ops) /\ Len(u) = Len(t) - 1 /\ \A i \in 1..Len(u) : u[i] = t[i + 1]
      BY <3>1, HeadTailProperties
    <3>3. p = t[1]
      <4>1. 1 <= Len(t)
        BY <1>5, <3>1
      <4>2. QED
        BY <4>1 DEF Path, At
    <3>4. t = <<p>> \o u
      <4>1. <<p>> \in Seq(Ops) /\ Len(<<p>>) = 1 /\ <<p>>[1] = p
        BY <3>1
      <4>2. /\ <<p>> \o u \in Seq(Ops) /\ Len(<<p>> \o u) = 1 + Len(u)
            /\ (<<p>> \o u)[1] = p
            /\ \A i \in 1..Len(u) : (<<p>> \o u)[1 + i] = u[i]
        <5> HIDE DEF u
        <5>1. /\ <<p>> \o u \in Seq(Ops) /\ Len(<<p>> \o u) = Len(<<p>>) + Len(u)
              /\ \A i \in 1..Len(<<p>>) : (<<p>> \o u)[i] = <<p>>[i]
              /\ \A i \in 1..Len(u) : (<<p>> \o u)[Len(<<p>>) + i] = u[i]
          BY <3>2, <4>1, Sequences
        <5>2. QED
          BY <4>1, <5>1
      <4> HIDE DEF u
      <4>3. Len(t) = Len(<<p>> \o u)
        BY <1>5, <3>2, <4>2
      <4>4. ASSUME NEW i \in 1..Len(t)
            PROVE  t[i] = (<<p>> \o u)[i]
        <5>1. CASE i = 1
          BY <3>3, <4>2, <5>1
        <5>2. CASE i # 1
          <6>1. i - 1 \in 1..Len(u) /\ 1 + (i - 1) = i /\ (i - 1) + 1 = i
            BY <1>5, <3>2, <5>2
          <6>2. QED
            BY <3>2, <4>2, <6>1
        <5>3. QED
          BY <5>1, <5>2
      <4>5. QED
        BY <4>2, <4>3, <4>4, SeqEqual
    <3> HIDE DEF u
    <3>5. Path(h, h.next[p], u, NULL)
      <4>1. <<p>> \in Seq(Ops) /\ Len(<<p>>) = 1 /\ <<p>>[1] = p /\ 1 \in 1..Len(<<p>>)
        BY <3>1
      <4>2. Path(h, p, <<p>>, At(u, 1, NULL)) /\ Path(h, At(u, 1, NULL), u, NULL)
        BY <3>2, <3>4, <4>1, PathSplit
      <4>3. h.next[<<p>>[1]] = At(<<p>>, 1 + 1, At(u, 1, NULL))
        BY <4>1, <4>2 DEF Path
      <4>4. At(<<p>>, 1 + 1, At(u, 1, NULL)) = At(u, 1, NULL)
        BY <4>1 DEF At
      <4>5. QED
        BY <4>1, <4>2, <4>3, <4>4
    <3>6. h.next[p] \in Ops \cup {NULL} /\ k \in 0..n /\ Len(u) <= k
      BY <1>1, <1>5, <3>1, <3>2 DEF Heap
    <3>7. f[k][h.next[p]] = u
      BY <1>8, <3>2, <3>5, <3>6
    <3>8. f[k + 1][p] = <<p>> \o f[k][h.next[p]]
      <4>1. k + 1 # 0 /\ (k + 1) - 1 = k
        OBVIOUS
      <4>2. QED
        BY ZenonT(60), <1>3, <2>2, <4>1
    <3>9. QED
      BY <3>4, <3>7, <3>8
  <2>3. QED
    BY <2>1, <2>2
<1>9. Nat \subseteq C
  BY <1>7, <1>8, SetInduction
<1>10. n \in C /\ Len(s) <= n /\ n \in 0..n
  <2>1. Len(s) <= Cardinality(Ops)
    BY PathFits
  <2>2. QED
    BY <1>1, <1>5, <1>9, <2>1, BuilderAssumption, FS_CardinalityType DEF n
<1>11. QED
  BY <1>4, <1>10

--------------------------------------------------------------------------------
(***************************************************************************)
(* The fields of an edited heap.                                            *)
(***************************************************************************)
WithNext(h, o, e) == [h EXCEPT !.next[o] = e]
WithFirst(h, b, e) == [h EXCEPT !.first[b] = e]
WithParent(h, o, b) == [h EXCEPT !.parent[o] = b]
WithBparent(h, b, e) == [h EXCEPT !.bparent[b] = e]
WithId(h, o, k) == [h EXCEPT !.id[o] = k]
WithInner(h, o, s) == [h EXCEPT !.inner[o] = s]

SameLinks(g, h) == g.first = h.first /\ g.next = h.next
SameOwners(g, h) == g.parent = h.parent /\ g.bparent = h.bparent
SameNodes(g, h) == g.id = h.id /\ g.inner = h.inner

LEMMA WithNextIs ==
  ASSUME NEW h \in Heap, NEW o \in Ops, NEW e \in Ops \cup {NULL}
  PROVE  LET g == WithNext(h, o, e) IN
         /\ g \in Heap /\ g.first = h.first /\ SameOwners(g, h) /\ SameNodes(g, h)
         /\ g.next[o] = e /\ \A p \in Ops : p # o => g.next[p] = h.next[p]
  BY DEF Heap, WithNext, SameOwners, SameNodes

LEMMA WithFirstIs ==
  ASSUME NEW h \in Heap, NEW b \in Blocks, NEW e \in Ops \cup {NULL}
  PROVE  LET g == WithFirst(h, b, e) IN
         /\ g \in Heap /\ g.next = h.next /\ SameOwners(g, h) /\ SameNodes(g, h)
         /\ g.first[b] = e /\ \A c \in Blocks : c # b => g.first[c] = h.first[c]
  BY DEF Heap, WithFirst, SameOwners, SameNodes

LEMMA WithParentIs ==
  ASSUME NEW h \in Heap, NEW o \in Ops, NEW b \in Blocks \cup {NULL}
  PROVE  LET g == WithParent(h, o, b) IN
         /\ g \in Heap /\ SameLinks(g, h) /\ g.bparent = h.bparent /\ SameNodes(g, h)
         /\ g.parent[o] = b /\ \A p \in Ops : p # o => g.parent[p] = h.parent[p]
  BY DEF Heap, WithParent, SameLinks, SameNodes

LEMMA WithBparentIs ==
  ASSUME NEW h \in Heap, NEW b \in Blocks, NEW e \in Blocks \cup {NULL}
  PROVE  LET g == WithBparent(h, b, e) IN
         /\ g \in Heap /\ SameLinks(g, h) /\ g.parent = h.parent /\ SameNodes(g, h)
         /\ g.bparent[b] = e /\ \A c \in Blocks : c # b => g.bparent[c] = h.bparent[c]
  BY DEF Heap, WithBparent, SameLinks, SameNodes

LEMMA WithIdIs ==
  ASSUME NEW h \in Heap, NEW o \in Ops, NEW k \in Kinds
  PROVE  LET g == WithId(h, o, k) IN
         /\ g \in Heap /\ SameLinks(g, h) /\ SameOwners(g, h) /\ g.inner = h.inner
         /\ g.id[o] = k /\ \A p \in Ops : p # o => g.id[p] = h.id[p]
  BY DEF Heap, WithId, SameLinks, SameOwners

LEMMA WithInnerIs ==
  ASSUME NEW h \in Heap, NEW o \in Ops, NEW s \in Seq(Blocks)
  PROVE  LET g == WithInner(h, o, s) IN
         /\ g \in Heap /\ SameLinks(g, h) /\ SameOwners(g, h) /\ g.id = h.id
         /\ g.inner[o] = s /\ \A p \in Ops : p # o => g.inner[p] = h.inner[p]
  BY DEF Heap, WithInner, SameLinks, SameOwners

LEMMA InitOpIs ==
  ASSUME NEW h \in Heap, NEW o \in Ops, NEW id \in Kinds, NEW b \in Blocks
  PROVE  LET g == InitOp(h, o, id, b) IN
         /\ g \in Heap /\ g.first = h.first /\ g.bparent = h.bparent
         /\ g.next[o] = NULL /\ \A p \in Ops : p # o => g.next[p] = h.next[p]
         /\ g.parent[o] = b /\ \A p \in Ops : p # o => g.parent[p] = h.parent[p]
         /\ g.id[o] = id /\ \A p \in Ops : p # o => g.id[p] = h.id[p]
         /\ g.inner[o] = <<>> /\ \A p \in Ops : p # o => g.inner[p] = h.inner[p]
<1> DEFINE h1 == WithNext(h, o, NULL)
           h2 == WithParent(h1, o, b)
           h3 == WithId(h2, o, id)
           h4 == WithInner(h3, o, <<>>)
<1>1. InitOp(h, o, id, b) = h4
  BY DEF InitOp, WithNext, WithParent, WithId, WithInner
<1>2. <<>> \in Seq(Blocks)
  BY Empty
<1>3. /\ h1 \in Heap /\ h1.first = h.first /\ SameOwners(h1, h) /\ SameNodes(h1, h)
      /\ h1.next[o] = NULL /\ \A p \in Ops : p # o => h1.next[p] = h.next[p]
  BY WithNextIs
<1> HIDE DEF h1
<1>4. /\ h2 \in Heap /\ SameLinks(h2, h1) /\ h2.bparent = h1.bparent /\ SameNodes(h2, h1)
      /\ h2.parent[o] = b /\ \A p \in Ops : p # o => h2.parent[p] = h1.parent[p]
  BY <1>3, WithParentIs
<1> HIDE DEF h2
<1>5. /\ h3 \in Heap /\ SameLinks(h3, h2) /\ SameOwners(h3, h2) /\ h3.inner = h2.inner
      /\ h3.id[o] = id /\ \A p \in Ops : p # o => h3.id[p] = h2.id[p]
  BY <1>4, WithIdIs
<1> HIDE DEF h3
<1>6. /\ h4 \in Heap /\ SameLinks(h4, h3) /\ SameOwners(h4, h3) /\ h4.id = h3.id
      /\ h4.inner[o] = <<>> /\ \A p \in Ops : p # o => h4.inner[p] = h3.inner[p]
  BY <1>2, <1>5, WithInnerIs
<1> HIDE DEF h4
<1>7. h4.first = h.first /\ h4.bparent = h.bparent /\ h4.next = h1.next /\ h4.parent = h2.parent
  BY <1>3, <1>4, <1>5, <1>6 DEF SameLinks, SameOwners
<1>8. h1.parent = h.parent /\ h3.inner = h.inner /\ h2.id = h.id
  BY <1>3, <1>4, <1>5 DEF SameOwners, SameNodes
<1>9. QED
  BY <1>1, <1>3, <1>4, <1>5, <1>6, <1>7, <1>8

LEMMA InitBlockIs ==
  ASSUME NEW h \in Heap, NEW b \in Blocks, NEW to \in Blocks \cup {NULL}
  PROVE  LET g == InitBlock(h, b, to) IN
         /\ g \in Heap /\ g.next = h.next /\ g.parent = h.parent /\ SameNodes(g, h)
         /\ g.first[b] = NULL /\ \A c \in Blocks : c # b => g.first[c] = h.first[c]
         /\ g.bparent[b] = to /\ \A c \in Blocks : c # b => g.bparent[c] = h.bparent[c]
<1> DEFINE h1 == WithBparent(h, b, to)
           h2 == WithFirst(h1, b, NULL)
<1>1. InitBlock(h, b, to) = h2
  BY DEF InitBlock, WithBparent, WithFirst
<1>2. /\ h1 \in Heap /\ SameLinks(h1, h) /\ h1.parent = h.parent /\ SameNodes(h1, h)
      /\ h1.bparent[b] = to /\ \A c \in Blocks : c # b => h1.bparent[c] = h.bparent[c]
  BY WithBparentIs
<1> HIDE DEF h1
<1>3. /\ h2 \in Heap /\ h2.next = h1.next /\ SameOwners(h2, h1) /\ SameNodes(h2, h1)
      /\ h2.first[b] = NULL /\ \A c \in Blocks : c # b => h2.first[c] = h1.first[c]
  BY <1>2, WithFirstIs
<1> HIDE DEF h2
<1>4. QED
  BY <1>1, <1>2, <1>3 DEF SameLinks, SameOwners, SameNodes

\* The operations and the blocks they hold were given to a block.
Given(g, h, ops, to) ==
  /\ g \in Heap /\ SameLinks(g, h) /\ SameNodes(g, h)
  /\ \A o \in ops : g.parent[o] = to
  /\ \A o \in Ops \ ops : g.parent[o] = h.parent[o]
  /\ \A b \in Blocks : b \in InnerBlocks(h, ops) => g.bparent[b] = to
  /\ \A b \in Blocks : b \notin InnerBlocks(h, ops) => g.bparent[b] = h.bparent[b]

LEMMA UpdateParentIs ==
  ASSUME NEW h \in Heap, NEW ops \in SUBSET Ops, NEW to \in Blocks
  PROVE  Given(UpdateParent(h, ops, to), h, ops, to)
<1> DEFINE owners == [o \in Ops |-> IF o \in ops THEN to ELSE h.parent[o]]
           outer == [b \in Blocks |-> IF b \in InnerBlocks(h, ops) THEN to ELSE h.bparent[b]]
           h1 == [h EXCEPT !.parent = owners]
           h2 == [h1 EXCEPT !.bparent = outer]
<1>1. owners \in [Ops -> Blocks \cup {NULL}] /\ outer \in [Blocks -> Blocks \cup {NULL}]
  BY DEF Heap
<1>2. /\ \A o \in Ops : owners[o] = IF o \in ops THEN to ELSE h.parent[o]
      /\ \A b \in Blocks : outer[b] = IF b \in InnerBlocks(h, ops) THEN to ELSE h.bparent[b]
  OBVIOUS
<1>3. UpdateParent(h, ops, to) = h2
  BY DEF UpdateParent
<1> HIDE DEF owners, outer
<1>4. /\ h1 \in Heap /\ h1.parent = owners /\ h1.bparent = h.bparent /\ SameLinks(h1, h) /\ SameNodes(h1, h)
  BY <1>1 DEF Heap, SameLinks, SameNodes
<1> HIDE DEF h1
<1>5. /\ h2 \in Heap /\ h2.parent = owners /\ h2.bparent = outer /\ SameLinks(h2, h1) /\ SameNodes(h2, h1)
  BY <1>1, <1>4 DEF Heap, SameLinks, SameNodes
<1> HIDE DEF h2
<1>6. QED
  BY <1>2, <1>3, <1>4, <1>5 DEF SameLinks, SameNodes, Given

--------------------------------------------------------------------------------
(***************************************************************************)
(* Linking operations.                                                      *)
(***************************************************************************)
\* What comes behind the operations s of a block is changed to x.
Linked(g, h, b, s, x) ==
  /\ g \in Heap /\ Path(g, g.first[b], s, x)
  /\ \A c \in Blocks : c # b => g.first[c] = h.first[c]
  /\ \A o \in Ops : o # EndOf(s) => g.next[o] = h.next[o]
  /\ SameOwners(g, h) /\ SameNodes(g, h)

LEMMA LinkIs ==
  ASSUME NEW h \in Heap, NEW b \in Blocks, NEW s \in Seq(Ops), Distinct(s), NEW m,
         Path(h, h.first[b], s, m), NEW x \in Ops \cup {NULL}
  PROVE  /\ Linked(Link(h, b, EndOf(s), x), h, b, s, x)
         /\ NextOf(h, b, EndOf(s)) = m
<1> DEFINE g == Link(h, b, EndOf(s), x)
<1>1. CASE s = <<>>
  <2>1. EndOf(s) = NULL
    BY <1>1, Empty
  <2>2. g = WithFirst(h, b, x) /\ NextOf(h, b, EndOf(s)) = h.first[b]
    BY <2>1 DEF Link, NextOf, WithFirst
  <2> HIDE DEF g
  <2>3. /\ g \in Heap /\ g.next = h.next /\ SameOwners(g, h) /\ SameNodes(g, h)
        /\ g.first[b] = x /\ \A c \in Blocks : c # b => g.first[c] = h.first[c]
    BY <2>2, WithFirstIs
  <2>4. h.first[b] = m
    BY <1>1, Empty DEF Path, At
  <2>5. Path(g, x, s, x)
    BY <1>1, Empty DEF Path, At
  <2>6. QED
    BY <2>2, <2>3, <2>4, <2>5 DEF g, Linked
<1>2. CASE s # <<>>
  <2>1. EndOf(s) = s[Len(s)] /\ EndOf(s) \in Ops /\ EndOf(s) # NULL /\ Len(s) \in 1..Len(s)
    BY <1>2, EndIsLast
  <2>2. g = WithNext(h, EndOf(s), x) /\ NextOf(h, b, EndOf(s)) = h.next[EndOf(s)]
    BY <2>1 DEF Link, NextOf, WithNext
  <2> HIDE DEF g
  <2>3. /\ g \in Heap /\ g.first = h.first /\ SameOwners(g, h) /\ SameNodes(g, h)
        /\ g.next[EndOf(s)] = x /\ \A o \in Ops : o # EndOf(s) => g.next[o] = h.next[o]
    BY ZenonT(60), <2>1, <2>2, WithNextIs
  <2>4. h.next[EndOf(s)] = m
    BY <2>1 DEF Path, At
  <2>6. Path(g, h.first[b], s, x)
    BY <1>2, <2>3, PathRedirect DEF Redirected
  <2>7. QED
    BY <2>2, <2>3, <2>4, <2>6 DEF g, Linked
<1>3. QED
  BY <1>1, <1>2

LEMMA RepHeap ==
  ASSUME NEW h, NEW L, NEW U, Rep(h, L, U)
  PROVE  /\ h \in Heap /\ Acyclic(h) /\ U \subseteq Blocks
         /\ h.first \in [Blocks -> Ops \cup {NULL}] /\ h.next \in [Ops -> Ops \cup {NULL}]
         /\ h.parent \in [Ops -> Blocks \cup {NULL}] /\ h.bparent \in [Blocks -> Blocks \cup {NULL}]
         /\ h.inner \in [Ops -> Seq(Blocks)] /\ h.id \in [Ops -> Kinds]
<1>1. h \in Heap /\ Acyclic(h) /\ U \subseteq Blocks
  BY DEF Rep
<1>2. QED
  BY <1>1 DEF Heap

LEMMA RepList ==
  ASSUME NEW h, NEW L, NEW U, Rep(h, L, U), NEW b \in U
  PROVE  /\ b \in Blocks /\ h.first[b] \in Ops \cup {NULL}
         /\ L[b] \in Seq(Ops) /\ ToSet(L[b]) \subseteq Ops
         /\ Path(h, h.first[b], L[b], NULL)
         /\ OpsOf(h, b) = L[b]
         /\ \A o \in ToSet(L[b]) : h.parent[o] = b
<1>1. b \in Blocks /\ h.first[b] \in Ops \cup {NULL}
  BY RepHeap
<1>2. L[b] \in Seq(Ops) /\ Path(h, h.first[b], L[b], NULL) /\ \A o \in ToSet(L[b]) : h.parent[o] = b
  BY <1>1 DEF Rep
<1>3. ToSet(L[b]) \subseteq Ops
  BY <1>2, ToSetIs
<1>4. OpsOf(h, b) = L[b]
  <2>1. h \in Heap /\ Acyclic(h)
    BY RepHeap
  <2>2. QED
    BY <1>1, <1>2, <2>1, ChainIs DEF OpsOf
<1>5. QED
  BY <1>1, <1>2, <1>3, <1>4

LEMMA RepTail ==
  ASSUME NEW h, NEW L, NEW U, Rep(h, L, U), NEW b \in U
  PROVE  Tail_(h, b) = EndOf(L[b]) /\ (EndOf(L[b]) \in ToSet(L[b]) \/ EndOf(L[b]) \notin Ops)
<1>1. L[b] \in Seq(Ops) /\ OpsOf(h, b) = L[b]
  BY RepList
<1>2. CASE L[b] = <<>>
  BY <1>1, <1>2, BuilderAssumption DEF Tail_, EndOf
<1>3. CASE L[b] # <<>>
  <2>1. Last(L[b]) = L[b][Len(L[b])]
    BY DEF Last
  <2>2. EndOf(L[b]) \in ToSet(L[b])
    BY <1>1, <1>3, EndIsLast
  <2>3. QED
    BY <1>1, <1>3, <2>1, <2>2 DEF Tail_, EndOf
<1>4. QED
  BY <1>2, <1>3

LEMMA RepApart ==
  ASSUME NEW h, NEW L, NEW U, Rep(h, L, U), NEW b \in U, NEW c \in U, b # c
  PROVE  ToSet(L[b]) \cap ToSet(L[c]) = {}
<1>1. \A o \in ToSet(L[b]) : h.parent[o] = b
  BY RepList
<1>2. \A o \in ToSet(L[c]) : h.parent[o] = c
  BY RepList
<1>3. QED
  BY <1>1, <1>2

\* One list of a heap is changed; what is not in V is not used any more.
Changed(L, V, b, s) == [c \in Blocks |-> IF c = b THEN s ELSE IF c \in V THEN L[c] ELSE <<>>]

LEMMA RepChanged ==
  ASSUME NEW h, NEW L, NEW U, Rep(h, L, U), NEW g \in Heap,
         NEW V \in SUBSET U, NEW b \in V, NEW s \in Seq(Ops),
         Path(g, g.first[b], s, NULL),
         \A o \in ToSet(s) : g.parent[o] = b,
         \A c \in V : c # b => g.first[c] = h.first[c],
         \A o \in Ops : g.next[o] # h.next[o] => o \in ToSet(s),
         \A c \in V : c # b => \A o \in ToSet(L[c]) : g.next[o] = h.next[o] /\ g.parent[o] = h.parent[o]
  PROVE  Rep(g, Changed(L, V, b, s), V)
<1> DEFINE M == Changed(L, V, b, s)
<1>1. /\ U \subseteq Blocks /\ Acyclic(h) /\ \A c \in Blocks : L[c] \in Seq(Ops)
      /\ \A c \in U : Path(h, h.first[c], L[c], NULL) /\ \A o \in ToSet(L[c]) : h.parent[o] = c
  BY DEF Rep
<1>2. Acyclic(g)
  BY <1>1, AcyclicKept
<1>3. <<>> \in Seq(Ops)
  BY Empty
<1>4. M \in [Blocks -> Seq(Ops)] /\ \A c \in Blocks : M[c] = IF c = b THEN s ELSE IF c \in V THEN L[c] ELSE <<>>
  BY <1>1, <1>3 DEF Changed
<1> HIDE DEF M
<1>5. \A c \in V : Path(g, g.first[c], M[c], NULL)
  <2> SUFFICES ASSUME NEW c \in V
               PROVE  Path(g, g.first[c], M[c], NULL)
    OBVIOUS
  <2>1. CASE c = b
    BY <1>1, <1>4, <2>1
  <2>2. CASE c # b
    <3>1. L[c] \in Seq(Ops) /\ Path(h, h.first[c], L[c], NULL)
      BY <1>1
    <3>2. Path(g, h.first[c], L[c], NULL)
      BY <2>2, <3>1, PathFrame
    <3>3. M[c] = L[c] /\ g.first[c] = h.first[c]
      BY <1>1, <1>4, <2>2
    <3>4. QED
      BY <3>2, <3>3
  <2>3. QED
    BY <2>1, <2>2
<1>6. \A c \in V : \A o \in ToSet(M[c]) : g.parent[o] = c
  BY <1>1, <1>4
<1>7. \A c \in Blocks \ V : M[c] = <<>>
  BY <1>1, <1>4
<1>8. Rep(g, M, V)
  BY <1>1, <1>2, <1>4, <1>5, <1>6, <1>7 DEF Rep
<1>9. QED
  BY <1>8 DEF M

\* No operation is twice in a path.
LEMMA PathApart ==
  ASSUME NEW h, Acyclic(h), NEW o, NEW e, NEW s \in Seq(Ops), NEW t \in Seq(Ops), Path(h, o, s \o t, e)
  PROVE  ToSet(s) \cap ToSet(t) = {}
<1> SUFFICES ASSUME NEW p \in ToSet(s), p \in ToSet(t)
             PROVE  FALSE
  OBVIOUS
<1>1. PICK i \in 1..Len(s) : s[i] = p
  BY ToSetIs
<1>2. PICK j \in 1..Len(t) : t[j] = p
  BY ToSetIs
<1>3. /\ Len(s) \in Nat /\ Len(t) \in Nat /\ s \o t \in Seq(Ops) /\ Len(s \o t) = Len(s) + Len(t)
      /\ (s \o t)[i] = s[i] /\ (s \o t)[Len(s) + j] = t[j]
  BY Sequences
<1>4. i \in 1..Len(s \o t) /\ Len(s) + j \in 1..Len(s \o t) /\ i # Len(s) + j
  BY <1>3
<1> DEFINE u == s \o t
           k == Len(s) + j
<1>5. u \in Seq(Ops) /\ Path(h, o, u, e) /\ i \in 1..Len(u) /\ k \in 1..Len(u) /\ i # k /\ u[i] = u[k]
  BY <1>1, <1>2, <1>3, <1>4
<1> HIDE DEF u, k
<1>6. QED
  BY <1>5, PathInjective

LEMMA HeldOnce ==
  ASSUME NEW inner \in [Ops -> Seq(Blocks)], Unshared(inner), NEW o \in Ops, NEW p \in Ops,
         NEW c, c \in ToSet(inner[o]), c \in ToSet(inner[p])
  PROVE  o = p
<1>1. inner[o] \in Seq(Blocks) /\ inner[p] \in Seq(Blocks)
  OBVIOUS
<1>2. PICK i \in 1..Len(inner[o]) : inner[o][i] = c
  BY <1>1, ToSetIs
<1>3. PICK j \in 1..Len(inner[p]) : inner[p][j] = c
  BY <1>1, ToSetIs
<1>4. inner[o][i] = inner[p][j]
  BY <1>2, <1>3
<1>5. \A k \in 1..Len(inner[o]), l \in 1..Len(inner[p]) : inner[o][k] = inner[p][l] => o = p
  BY Zenon DEF Unshared
<1>6. QED
  BY <1>4, <1>5

--------------------------------------------------------------------------------
(***************************************************************************)
(* What the functions of builder.c do to the lists.                         *)
(***************************************************************************)
\* The operations of src went to dest, which now has list.
HandedOver(g, h, L, U, dest, src, list) ==
  /\ Rep(g, Changed(L, U \ {src}, dest, list), U \ {src})
  /\ SameNodes(g, h)
  /\ \A b \in Blocks : b \in InnerBlocks(h, ToSet(L[src])) => g.bparent[b] = dest
  /\ \A b \in Blocks : b \notin InnerBlocks(h, ToSet(L[src])) => g.bparent[b] = h.bparent[b]

\* vx_IrBlock_addAllOp
LEMMA AddAllOpIs ==
  ASSUME NEW h, NEW L, NEW U, Rep(h, L, U), NEW dest \in U, NEW src \in U, dest # src
  PROVE  HandedOver(AddAllOp(h, dest, src), h, L, U, dest, src, L[dest] \o L[src])
<1> DEFINE s == L[dest]
           t == L[src]
           x == h.first[src]
           k == Link(h, dest, EndOf(s), x)
           g == AddAllOp(h, dest, src)
           u == s \o t
           V == U \ {src}
<1>1. h \in Heap /\ Acyclic(h) /\ U \subseteq Blocks
  BY RepHeap
<1>2. /\ dest \in Blocks /\ s \in Seq(Ops) /\ ToSet(s) \subseteq Ops
      /\ Path(h, h.first[dest], s, NULL)
      /\ \A o \in ToSet(s) : h.parent[o] = dest
  BY RepList
<1>3. /\ src \in Blocks /\ x \in Ops \cup {NULL} /\ t \in Seq(Ops) /\ ToSet(t) \subseteq Ops
      /\ Path(h, x, t, NULL) /\ OpsOf(h, src) = t
      /\ \A o \in ToSet(t) : h.parent[o] = src
  BY RepList
<1>4. Tail_(h, dest) = EndOf(s) /\ (EndOf(s) \in ToSet(s) \/ EndOf(s) \notin Ops)
  BY RepTail
<1>5. g = UpdateParent(k, ToSet(t), dest)
  BY <1>3, <1>4 DEF AddAllOp
<1>6. \A c \in V : L[c] \in Seq(Ops) /\ c \in Blocks /\ \A o \in ToSet(L[c]) : o \in Ops /\ h.parent[o] = c
  BY RepList
<1> HIDE DEF g, s, t, x
<1>7. /\ k \in Heap /\ Path(k, k.first[dest], s, x)
      /\ \A c \in Blocks : c # dest => k.first[c] = h.first[c]
      /\ \A o \in Ops : o # EndOf(s) => k.next[o] = h.next[o]
      /\ SameOwners(k, h) /\ SameNodes(k, h)
  <2>1. h \in Heap
    BY <1>1
  <2>2. Distinct(s)
    BY <1>1, <1>2, PathDistinct
  <2>3. dest \in Blocks
    BY <1>2
  <2>4. s \in Seq(Ops)
    BY <1>2
  <2>5. Path(h, h.first[dest], s, NULL)
    BY <1>2
  <2>6. x \in Ops \cup {NULL}
    BY <1>3
  <2>7. Linked(k, h, dest, s, x)
    BY <2>1, <2>2, <2>3, <2>4, <2>5, <2>6, LinkIs
  <2>8. QED
    BY <2>7 DEF Linked
<1> HIDE DEF k
<1>8. /\ g \in Heap /\ SameLinks(g, k) /\ SameNodes(g, k)
      /\ \A o \in ToSet(t) : g.parent[o] = dest
      /\ \A o \in Ops \ ToSet(t) : g.parent[o] = k.parent[o]
      /\ \A b \in Blocks : b \in InnerBlocks(k, ToSet(t)) => g.bparent[b] = dest
      /\ \A b \in Blocks : b \notin InnerBlocks(k, ToSet(t)) => g.bparent[b] = k.bparent[b]
  <2>1. k \in Heap
    BY <1>7
  <2>2. dest \in Blocks
    BY <1>2
  <2>3. ToSet(t) \in SUBSET Ops
    BY <1>3
  <2>4. Given(UpdateParent(k, ToSet(t), dest), k, ToSet(t), dest)
    BY <2>1, <2>2, <2>3, UpdateParentIs
  <2>5. Given(g, k, ToSet(t), dest)
    BY <1>5, <2>4
  <2>6. QED
    BY <2>5 DEF Given
<1>9. InnerBlocks(k, ToSet(t)) = InnerBlocks(h, ToSet(t)) /\ k.parent = h.parent /\ k.bparent = h.bparent
  BY <1>7 DEF InnerBlocks, SameNodes, SameOwners
<1>10. Path(k, x, t, NULL)
  <2>1. \A o \in ToSet(t) : o \in Ops /\ o \notin ToSet(s)
    BY <1>2, <1>3
  <2>2. \A o \in ToSet(t) : k.next[o] = h.next[o]
    BY <1>4, <1>7, <2>1
  <2>3. QED
    BY <1>3, <2>2, PathFrame
<1>11. u \in Seq(Ops) /\ ToSet(u) = ToSet(s) \cup ToSet(t)
  BY <1>2, <1>3, Sequences, ToSetConcat
<1>12. Path(k, k.first[dest], u, NULL)
  BY <1>2, <1>3, <1>7, <1>10, PathJoin
<1> HIDE DEF u
<1>13. Path(g, g.first[dest], u, NULL)
  <2>1. g.first = k.first /\ g.next = k.next
    BY <1>8 DEF SameLinks
  <2>2. QED
    BY <1>11, <1>12, <2>1, PathFrame
<1>14. \A o \in ToSet(u) : g.parent[o] = dest
  BY <1>2, <1>3, <1>8, <1>9, <1>11
<1>15. \A o \in Ops : g.next[o] # h.next[o] => o \in ToSet(u)
  BY <1>4, <1>7, <1>8, <1>11 DEF SameLinks
<1>16. \A c \in V : c # dest => g.first[c] = h.first[c]
  BY <1>1, <1>7, <1>8 DEF SameLinks
<1>17. \A c \in V : c # dest => \A o \in ToSet(L[c]) : g.next[o] = h.next[o] /\ g.parent[o] = h.parent[o]
  <2> SUFFICES ASSUME NEW c \in V, c # dest, NEW o \in ToSet(L[c])
               PROVE  g.next[o] = h.next[o] /\ g.parent[o] = h.parent[o]
    OBVIOUS
  <2>1. o \in Ops /\ h.parent[o] = c /\ c # src
    BY <1>6
  <2>2. o \notin ToSet(s) /\ o \notin ToSet(t)
    BY <1>2, <1>3, <2>1
  <2>3. k.next[o] = h.next[o]
    BY <1>4, <1>7, <2>1, <2>2
  <2>4. QED
    BY <1>8, <1>9, <2>1, <2>2, <2>3 DEF SameLinks
<1>18. V \in SUBSET U /\ dest \in V /\ g \in Heap
  BY <1>8
<1> HIDE DEF V
<1>19. Rep(g, Changed(L, V, dest, u), V)
  BY <1>11, <1>13, <1>14, <1>15, <1>16, <1>17, <1>18, RepChanged
<1>20. SameNodes(g, h)
  BY <1>7, <1>8 DEF SameNodes
<1>21. QED
  BY <1>8, <1>9, <1>19, <1>20 DEF g, s, t, u, V, HandedOver

\* o is a new operation of b that holds nothing.
Created(g, h, b, o, id) ==
  /\ g.bparent = h.bparent /\ g.parent[o] = b
  /\ g.id[o] = id /\ \A p \in Ops : p # o => g.id[p] = h.id[p]
  /\ g.inner[o] = <<>> /\ \A p \in Ops : p # o => g.inner[p] = h.inner[p]
Added(g, h, L, U, b, o, id) ==
  Rep(g, Changed(L, U, b, L[b] \o <<o>>), U) /\ Created(g, h, b, o, id)

\* vx_IrBlock_addOpBuilding, of an operation that is in no list
LEMMA AddOpIs ==
  ASSUME NEW h, NEW L, NEW U, Rep(h, L, U), NEW b \in U, NEW o \in Ops, NEW id \in Kinds,
         \A c \in U : o \notin ToSet(L[c])
  PROVE  Added(AddOp(h, b, o, id), h, L, U, b, o, id)
<1> DEFINE s == L[b]
           k == Link(h, b, EndOf(s), o)
           g == AddOp(h, b, o, id)
           u == s \o <<o>>
<1>1. h \in Heap /\ Acyclic(h) /\ U \subseteq Blocks
  BY RepHeap
<1>2. /\ b \in Blocks /\ s \in Seq(Ops) /\ ToSet(s) \subseteq Ops
      /\ Path(h, h.first[b], s, NULL)
      /\ \A p \in ToSet(s) : h.parent[p] = b
  BY RepList
<1>3. Tail_(h, b) = EndOf(s) /\ (EndOf(s) \in ToSet(s) \/ EndOf(s) \notin Ops)
  BY RepTail
<1>4. g = InitOp(k, o, id, b)
  BY <1>3 DEF AddOp
<1>5. o \notin ToSet(s) /\ o \in Ops \cup {NULL}
  OBVIOUS
<1>6. \A c \in U : L[c] \in Seq(Ops) /\ c \in Blocks /\ \A p \in ToSet(L[c]) : p \in Ops /\ h.parent[p] = c /\ p # o
  BY RepList
<1> HIDE DEF g, s
<1>7. /\ k \in Heap /\ Path(k, k.first[b], s, o)
      /\ \A c \in Blocks : c # b => k.first[c] = h.first[c]
      /\ \A p \in Ops : p # EndOf(s) => k.next[p] = h.next[p]
      /\ SameOwners(k, h) /\ SameNodes(k, h)
  <2>1. h \in Heap
    BY <1>1
  <2>2. Distinct(s)
    BY <1>1, <1>2, PathDistinct
  <2>3. b \in Blocks
    BY <1>2
  <2>4. s \in Seq(Ops)
    BY <1>2
  <2>5. Path(h, h.first[b], s, NULL)
    BY <1>2
  <2>6. o \in Ops \cup {NULL}
    BY <1>5
  <2>7. Linked(k, h, b, s, o)
    BY <2>1, <2>2, <2>3, <2>4, <2>5, <2>6, LinkIs
  <2>8. QED
    BY <2>7 DEF Linked
<1> HIDE DEF k
<1>8. /\ g \in Heap /\ g.first = k.first /\ g.bparent = k.bparent
      /\ g.next[o] = NULL /\ \A p \in Ops : p # o => g.next[p] = k.next[p]
      /\ g.parent[o] = b /\ \A p \in Ops : p # o => g.parent[p] = k.parent[p]
      /\ g.id[o] = id /\ \A p \in Ops : p # o => g.id[p] = k.id[p]
      /\ g.inner[o] = <<>> /\ \A p \in Ops : p # o => g.inner[p] = k.inner[p]
  BY <1>2, <1>4, <1>7, InitOpIs
<1>9. k.parent = h.parent /\ k.bparent = h.bparent /\ k.id = h.id /\ k.inner = h.inner
  BY <1>7 DEF SameNodes, SameOwners
<1>10. <<o>> \in Seq(Ops) /\ Len(<<o>>) = 1 /\ <<o>>[1] = o /\ ToSet(<<o>>) = {o}
  BY Single
<1>11. Path(g, o, <<o>>, NULL)
  BY <1>8, <1>10 DEF Path, At
<1>12. Path(g, g.first[b], s, o)
  <2>1. \A p \in ToSet(s) : g.next[p] = k.next[p]
    BY <1>2, <1>5, <1>8
  <2>2. Path(g, k.first[b], s, o)
    BY <1>2, <1>7, <2>1, PathFrame
  <2>3. QED
    BY <1>8, <2>2
<1>13. u \in Seq(Ops) /\ ToSet(u) = ToSet(s) \cup {o}
  <2>1. s \in Seq(Ops) /\ <<o>> \in Seq(Ops)
    BY <1>2, <1>10
  <2>2. u \in Seq(Ops)
    BY <2>1, Sequences
  <2>3. ToSet(u) = ToSet(s) \cup ToSet(<<o>>)
    BY <2>1, ToSetConcat
  <2>4. QED
    BY <1>10, <2>2, <2>3
<1>14. Path(g, g.first[b], u, NULL)
  BY <1>2, <1>10, <1>11, <1>12, PathJoin
<1> HIDE DEF u
<1>15. \A p \in ToSet(u) : g.parent[p] = b
  BY <1>2, <1>5, <1>8, <1>9, <1>13
<1>16. \A p \in Ops : g.next[p] # h.next[p] => p \in ToSet(u)
  BY <1>3, <1>7, <1>8, <1>13
<1>17. \A c \in U : c # b => g.first[c] = h.first[c]
  BY <1>1, <1>7, <1>8
<1>18. \A c \in U : c # b => \A p \in ToSet(L[c]) : g.next[p] = h.next[p] /\ g.parent[p] = h.parent[p]
  <2> SUFFICES ASSUME NEW c \in U, c # b, NEW p \in ToSet(L[c])
               PROVE  g.next[p] = h.next[p] /\ g.parent[p] = h.parent[p]
    OBVIOUS
  <2>1. p \in Ops /\ h.parent[p] = c /\ p # o
    BY <1>6
  <2>2. p \notin ToSet(s)
    BY <1>2, <2>1
  <2>3. QED
    BY <1>3, <1>7, <1>8, <1>9, <2>1, <2>2
<1>19. U \in SUBSET U /\ b \in U /\ g \in Heap
  BY <1>8
<1>20. Rep(g, Changed(L, U, b, u), U)
  BY <1>13, <1>14, <1>15, <1>16, <1>17, <1>18, <1>19, RepChanged
<1>21. QED
  BY <1>8, <1>9, <1>20 DEF g, s, u, Added, Created

\* The list of b is s and then t.
Split(h, L, b, s, t) ==
  /\ Path(h, h.first[b], s, At(t, 1, NULL)) /\ Path(h, At(t, 1, NULL), t, NULL)
  /\ At(t, 1, NULL) \in Ops \cup {NULL}
  /\ ToSet(s) \subseteq Ops /\ ToSet(t) \subseteq Ops /\ ToSet(L[b]) = ToSet(s) \cup ToSet(t)
  /\ ToSet(s) \cap ToSet(t) = {} /\ Distinct(s) /\ Distinct(t)
  /\ EndOf(s) \in ToSet(s) \/ EndOf(s) \notin Ops

LEMMA RepSplit ==
  ASSUME NEW h, NEW L, NEW U, Rep(h, L, U), NEW b \in U,
         NEW s \in Seq(Ops), NEW t \in Seq(Ops), L[b] = s \o t
  PROVE  Split(h, L, b, s, t)
<1>1. h \in Heap /\ Acyclic(h)
  BY RepHeap
<1>2. L[b] \in Seq(Ops) /\ Path(h, h.first[b], L[b], NULL)
  BY RepList
<1>3. Path(h, h.first[b], s, At(t, 1, NULL)) /\ Path(h, At(t, 1, NULL), t, NULL)
  BY <1>2, PathSplit
<1>4. Distinct(s) /\ Distinct(t)
  BY <1>1, <1>3, PathDistinct
<1>5. ToSet(s) \cap ToSet(t) = {}
  BY <1>1, <1>2, PathApart
<1>6. ToSet(s) \subseteq Ops /\ ToSet(t) \subseteq Ops
  BY ToSetIs
<1>7. ToSet(L[b]) = ToSet(s) \cup ToSet(t)
  BY ToSetConcat
<1>8. At(t, 1, NULL) \in Ops \cup {NULL}
  <2>1. Len(t) \in Nat /\ \A i \in 1..Len(t) : t[i] \in Ops
    OBVIOUS
  <2>2. QED
    BY <2>1 DEF At
<1>9. EndOf(s) \in ToSet(s) \/ EndOf(s) \notin Ops
  BY EndIsLast, Empty, BuilderAssumption
<1>10. QED
  BY <1>3, <1>4, <1>5, <1>6, <1>7, <1>8, <1>9 DEF Split

\* There is such an operation between s and t.
Inserted(g, h, L, U, b, s, t, o, id) ==
  Rep(g, Changed(L, U, b, s \o (<<o>> \o t)), U) /\ Created(g, h, b, o, id)

\* vx_IrOp_init and the pointers vx_IrBlock_insertOpAfterCreate sets
LEMMA InsertOpAfterIs ==
  ASSUME NEW h, NEW L, NEW U, Rep(h, L, U), NEW b \in U, NEW s \in Seq(Ops), NEW t \in Seq(Ops),
         L[b] = s \o t, NEW o \in Ops, NEW id \in Kinds, \A c \in U : o \notin ToSet(L[c])
  PROVE  Inserted(InsertOpAfter(h, b, EndOf(s), o, id), h, L, U, b, s, t, o, id)
<1> DEFINE m == At(t, 1, NULL)
           h1 == InitOp(h, o, id, b)
           h2 == WithNext(h1, o, m)
           g == Link(h2, b, EndOf(s), o)
           v == <<o>> \o t
           u == s \o v
<1>1. h \in Heap /\ U \subseteq Blocks /\ b \in Blocks
  BY RepHeap
<1>2. /\ Path(h, h.first[b], s, m) /\ Path(h, m, t, NULL)
      /\ m \in Ops \cup {NULL}
      /\ ToSet(s) \subseteq Ops /\ ToSet(t) \subseteq Ops /\ ToSet(L[b]) = ToSet(s) \cup ToSet(t)
      /\ ToSet(s) \cap ToSet(t) = {} /\ Distinct(s)
      /\ EndOf(s) \in ToSet(s) \/ EndOf(s) \notin Ops
  <2>1. Split(h, L, b, s, t)
    BY RepSplit
  <2>2. QED
    BY <2>1 DEF Split
<1>3. \A p \in ToSet(L[b]) : h.parent[p] = b
  BY ZenonT(60), RepList
<1>4. o \notin ToSet(s) /\ o \notin ToSet(t)
  BY <1>2
<1> HIDE DEF m
<1>5. NextOf(h, b, EndOf(s)) = m
  <2>1. m \in Ops \cup {NULL}
    BY <1>2
  <2>2. Distinct(s)
    BY <1>2
  <2>3. Path(h, h.first[b], s, m)
    BY <1>2
  <2>4. QED
    BY <1>1, <2>1, <2>2, <2>3, LinkIs
<1>6. InsertOpAfter(h, b, EndOf(s), o, id) = g
  BY <1>5 DEF InsertOpAfter, WithNext
<1>7. /\ h1 \in Heap /\ h1.first = h.first /\ h1.bparent = h.bparent
      /\ h1.next[o] = NULL /\ \A p \in Ops : p # o => h1.next[p] = h.next[p]
      /\ h1.parent[o] = b /\ \A p \in Ops : p # o => h1.parent[p] = h.parent[p]
      /\ h1.id[o] = id /\ \A p \in Ops : p # o => h1.id[p] = h.id[p]
      /\ h1.inner[o] = <<>> /\ \A p \in Ops : p # o => h1.inner[p] = h.inner[p]
  BY <1>1, InitOpIs
<1> HIDE DEF h1
<1>8. /\ h2 \in Heap /\ h2.first = h1.first /\ SameOwners(h2, h1) /\ SameNodes(h2, h1)
      /\ h2.next[o] = m /\ \A p \in Ops : p # o => h2.next[p] = h1.next[p]
  BY <1>2, <1>7, WithNextIs
<1> HIDE DEF h2
<1>9. Linked(g, h2, b, s, o)
  <2>1. \A p \in ToSet(s) : h2.next[p] = h.next[p]
    BY <1>2, <1>4, <1>7, <1>8
  <2>2. Path(h2, h.first[b], s, m)
    BY <1>2, <2>1, PathFrame
  <2>3. h2.first[b] = h.first[b]
    BY <1>7, <1>8
  <2>4. Path(h2, h2.first[b], s, m)
    BY <2>2, <2>3
  <2>5. h2 \in Heap
    BY <1>8
  <2>6. Distinct(s)
    BY <1>2
  <2>7. o \in Ops \cup {NULL} /\ b \in Blocks
    BY <1>1
  <2>8. QED
    BY <2>4, <2>5, <2>6, <2>7, LinkIs
<1> HIDE DEF g
<1>10. /\ g \in Heap /\ Path(g, g.first[b], s, o)
       /\ \A c \in Blocks : c # b => g.first[c] = h2.first[c]
       /\ \A p \in Ops : p # EndOf(s) => g.next[p] = h2.next[p]
       /\ SameOwners(g, h2) /\ SameNodes(g, h2)
  BY <1>9 DEF Linked
<1>11. o # EndOf(s) /\ g.next[o] = m
  BY <1>2, <1>4, <1>8, <1>10
<1>12. \A p \in Ops : p \notin ToSet(s) /\ p # o => g.next[p] = h.next[p]
  BY <1>2, <1>7, <1>8, <1>10
<1>13. Path(g, m, t, NULL)
  <2>1. \A p \in ToSet(t) : g.next[p] = h.next[p]
    BY <1>2, <1>4, <1>12
  <2>2. QED
    BY <1>2, <2>1, PathFrame
<1>14. <<o>> \in Seq(Ops) /\ Len(<<o>>) = 1 /\ <<o>>[1] = o /\ ToSet(<<o>>) = {o}
  BY Single
<1>15. Path(g, o, <<o>>, m)
  BY <1>11, <1>14 DEF Path, At
<1>16. Path(g, o, v, NULL)
  BY <1>13, <1>14, <1>15, PathJoin
<1>17. v \in Seq(Ops) /\ ToSet(v) = {o} \cup ToSet(t)
  <2>1. v \in Seq(Ops)
    BY <1>14, Sequences
  <2>2. ToSet(v) = ToSet(<<o>>) \cup ToSet(t)
    BY <1>14, ToSetConcat
  <2>3. QED
    BY <1>14, <2>1, <2>2
<1> HIDE DEF v
<1>18. Path(g, g.first[b], u, NULL)
  BY <1>10, <1>16, <1>17, PathJoin
<1>19. u \in Seq(Ops) /\ ToSet(u) = ToSet(s) \cup {o} \cup ToSet(t)
  <2>1. u \in Seq(Ops)
    BY <1>17, Sequences
  <2>2. ToSet(u) = ToSet(s) \cup ToSet(v)
    BY <1>17, ToSetConcat
  <2>3. QED
    BY <1>17, <2>1, <2>2
<1> HIDE DEF u
<1>20. /\ g.parent[o] = b /\ g.bparent = h.bparent /\ \A p \in Ops : p # o => g.parent[p] = h.parent[p]
  BY <1>7, <1>8, <1>10 DEF SameOwners
<1>21. \A p \in ToSet(u) : g.parent[p] = b
  BY <1>2, <1>3, <1>19, <1>20
<1>22. \A p \in Ops : g.next[p] # h.next[p] => p \in ToSet(u)
  BY <1>12, <1>19
<1>23. \A c \in U : c # b => g.first[c] = h.first[c]
  BY <1>1, <1>7, <1>8, <1>10
<1>24. \A c \in U : c # b => \A p \in ToSet(L[c]) : g.next[p] = h.next[p] /\ g.parent[p] = h.parent[p]
  <2> SUFFICES ASSUME NEW c \in U, c # b, NEW p \in ToSet(L[c])
               PROVE  g.next[p] = h.next[p] /\ g.parent[p] = h.parent[p]
    OBVIOUS
  <2>1. p \in Ops
    BY RepList
  <2>2. ToSet(L[b]) \cap ToSet(L[c]) = {}
    BY RepApart
  <2>3. p \notin ToSet(s) /\ p # o
    BY <1>2, <2>2
  <2>4. QED
    BY <1>12, <1>20, <2>1, <2>3
<1>25. U \in SUBSET U /\ b \in U /\ g \in Heap
  BY <1>10
<1>26. Rep(g, Changed(L, U, b, u), U)
  BY <1>18, <1>19, <1>21, <1>22, <1>23, <1>24, <1>25, RepChanged
<1>27. Created(g, h, b, o, id)
  BY <1>7, <1>8, <1>10, <1>20 DEF Created, SameNodes
<1>28. QED
  BY <1>6, <1>26, <1>27 DEF u, v, Inserted

\* The operation between s and t is in the list no more.
Skipped(g, h, L, U, b, s, t, o) ==
  /\ Rep(g, Changed(L, U, b, s \o t), U)
  /\ SameOwners(g, h) /\ SameNodes(g, h)
  /\ g.next[o] = h.next[o]

\* What is before an operation is made to lead to what is behind it.
LEMMA SkipIs ==
  ASSUME NEW h, NEW L, NEW U, Rep(h, L, U), NEW b \in U, NEW s \in Seq(Ops), NEW t \in Seq(Ops),
         NEW o \in Ops, L[b] = s \o (<<o>> \o t)
  PROVE  Skipped(Link(h, b, EndOf(s), h.next[o]), h, L, U, b, s, t, o)
<1> DEFINE v == <<o>> \o t
           x == h.next[o]
           g == Link(h, b, EndOf(s), x)
           u == s \o t
<1>1. h \in Heap /\ U \subseteq Blocks /\ b \in Blocks /\ x \in Ops \cup {NULL}
  BY RepHeap
<1>2. <<o>> \in Seq(Ops) /\ Len(<<o>>) = 1 /\ <<o>>[1] = o /\ ToSet(<<o>>) = {o}
  BY Single
<1>3. v \in Seq(Ops) /\ Len(v) = 1 + Len(t) /\ v[1] = o /\ Len(t) \in Nat /\ L[b] = s \o v
  <2>1. v \in Seq(Ops) /\ Len(v) = Len(<<o>>) + Len(t) /\ Len(t) \in Nat
        /\ \A i \in 1..Len(<<o>>) : v[i] = <<o>>[i]
    BY <1>2, Sequences
  <2>2. QED
    BY <1>2, <2>1
<1>4. ToSet(v) = {o} \cup ToSet(t)
  BY <1>2, ToSetConcat
<1>5. Path(h, o, v, NULL) => Path(h, x, t, NULL)
  <2> SUFFICES ASSUME Path(h, o, v, NULL)
               PROVE  Path(h, x, t, NULL)
    OBVIOUS
  <2>1. Path(h, o, <<o>>, At(t, 1, NULL)) /\ Path(h, At(t, 1, NULL), t, NULL)
    BY <1>2, PathSplit
  <2>2. 1 \in 1..Len(<<o>>)
    BY <1>2
  <2>3. h.next[<<o>>[1]] = At(<<o>>, 1 + 1, At(t, 1, NULL))
    BY <2>1, <2>2 DEF Path
  <2>4. At(<<o>>, 1 + 1, At(t, 1, NULL)) = At(t, 1, NULL)
    BY <1>2 DEF At
  <2>5. QED
    BY <1>2, <2>1, <2>3, <2>4
<1> HIDE DEF v
<1>6. At(v, 1, NULL) = o
  BY <1>3 DEF At
<1>7. /\ Path(h, h.first[b], s, o) /\ Path(h, o, v, NULL)
      /\ ToSet(s) \subseteq Ops /\ ToSet(v) \subseteq Ops /\ ToSet(L[b]) = ToSet(s) \cup ToSet(v)
      /\ ToSet(s) \cap ToSet(v) = {} /\ Distinct(s)
      /\ EndOf(s) \in ToSet(s) \/ EndOf(s) \notin Ops
  <2>1. Split(h, L, b, s, v)
    BY <1>3, RepSplit
  <2>2. QED
    BY <1>6, <2>1 DEF Split
<1>8. \A p \in ToSet(L[b]) : h.parent[p] = b
  BY ZenonT(60), RepList
<1> HIDE DEF x
<1>9. Linked(g, h, b, s, x)
  <2>1. Path(h, h.first[b], s, o)
    BY <1>7
  <2>2. Distinct(s)
    BY <1>7
  <2>3. QED
    BY <1>1, <2>1, <2>2, LinkIs
<1> HIDE DEF g
<1>10. /\ g \in Heap /\ Path(g, g.first[b], s, x)
       /\ \A c \in Blocks : c # b => g.first[c] = h.first[c]
       /\ \A p \in Ops : p # EndOf(s) => g.next[p] = h.next[p]
       /\ SameOwners(g, h) /\ SameNodes(g, h)
  BY <1>9 DEF Linked
<1>11. \A p \in Ops : p \notin ToSet(s) => g.next[p] = h.next[p]
  BY <1>7, <1>10
<1>12. Path(g, x, t, NULL)
  <2>1. Path(h, x, t, NULL)
    BY <1>5, <1>7
  <2>2. \A p \in ToSet(t) : g.next[p] = h.next[p]
    BY <1>4, <1>7, <1>11
  <2>3. QED
    BY <2>1, <2>2, PathFrame
<1>13. Path(g, g.first[b], u, NULL)
  BY <1>10, <1>12, PathJoin
<1>14. u \in Seq(Ops) /\ ToSet(u) = ToSet(s) \cup ToSet(t)
  BY Sequences, ToSetConcat
<1> HIDE DEF u
<1>15. \A p \in ToSet(u) : g.parent[p] = b
  BY <1>4, <1>7, <1>8, <1>10, <1>14 DEF SameOwners
<1>16. \A p \in Ops : g.next[p] # h.next[p] => p \in ToSet(u)
  BY <1>11, <1>14
<1>17. \A c \in U : c # b => g.first[c] = h.first[c]
  BY <1>1, <1>10
<1>18. \A c \in U : c # b => \A p \in ToSet(L[c]) : g.next[p] = h.next[p] /\ g.parent[p] = h.parent[p]
  <2> SUFFICES ASSUME NEW c \in U, c # b, NEW p \in ToSet(L[c])
               PROVE  g.next[p] = h.next[p] /\ g.parent[p] = h.parent[p]
    OBVIOUS
  <2>1. p \in Ops
    BY RepList
  <2>2. ToSet(L[b]) \cap ToSet(L[c]) = {}
    BY RepApart
  <2>3. p \notin ToSet(s)
    BY <1>7, <2>2
  <2>4. QED
    BY <1>10, <1>11, <2>1, <2>3 DEF SameOwners
<1>19. U \in SUBSET U /\ b \in U /\ g \in Heap
  BY <1>10
<1>20. Rep(g, Changed(L, U, b, u), U)
  BY <1>13, <1>14, <1>15, <1>16, <1>17, <1>18, <1>19, RepChanged
<1>21. g.next[o] = x
  BY <1>4, <1>7, <1>11 DEF x
<1>22. QED
  BY <1>10, <1>20, <1>21 DEF u, g, x, Skipped

\* o is found behind s.
FoundBehind(h, b, s, o) ==
  /\ Predecessor(h, o) = EndOf(s) /\ h.parent[o] = b /\ (h.first[b] = o <=> s = <<>>)
  /\ s # <<>> => h.next[EndOf(s)] = o /\ EndOf(s) \in Ops

LEMMA PredecessorIs ==
  ASSUME NEW h, NEW L, NEW U, Rep(h, L, U), NEW b \in U, NEW s \in Seq(Ops), NEW t \in Seq(Ops),
         NEW o \in Ops, L[b] = s \o (<<o>> \o t)
  PROVE  FoundBehind(h, b, s, o)
<1> DEFINE v == <<o>> \o t
           before == {p \in ToSet(OpsOf(h, h.parent[o])) : h.next[p] = o}
<1>1. <<o>> \in Seq(Ops) /\ Len(<<o>>) = 1 /\ <<o>>[1] = o /\ ToSet(<<o>>) = {o}
  BY Single
<1>2. v \in Seq(Ops) /\ v[1] = o /\ Len(v) \in Nat /\ 1 <= Len(v) /\ L[b] = s \o v
  <2>1. v \in Seq(Ops) /\ Len(v) = Len(<<o>>) + Len(t) /\ Len(t) \in Nat
        /\ \A i \in 1..Len(<<o>>) : v[i] = <<o>>[i]
    BY <1>1, Sequences
  <2>2. QED
    BY <1>1, <2>1
<1> HIDE DEF v
<1>3. At(v, 1, NULL) = o /\ o \in ToSet(v)
  BY <1>2, ToSetIs DEF At
<1>4. Split(h, L, b, s, v)
  BY <1>2, RepSplit
<1>5. /\ Path(h, h.first[b], s, o) /\ Path(h, o, v, NULL)
      /\ ToSet(s) \subseteq Ops /\ ToSet(L[b]) = ToSet(s) \cup ToSet(v)
      /\ ToSet(s) \cap ToSet(v) = {} /\ Distinct(v)
  BY <1>3, <1>4 DEF Split
<1>6. h.parent[o] = b /\ OpsOf(h, b) = L[b]
  <2>1. o \in ToSet(L[b])
    BY <1>3, <1>5
  <2>2. QED
    <3>1. OpsOf(h, b) = L[b]
      BY RepList
    <3>2. \A p \in ToSet(L[b]) : h.parent[p] = b
      BY RepList
    <3>3. QED
      BY <2>1, <3>1, <3>2
<1>7. ASSUME NEW p \in ToSet(s), h.next[p] = o
      PROVE  p = s[Len(s)]
  <2>1. PICK i \in 1..Len(s) : s[i] = p
    BY ToSetIs
  <2>2. o = At(s, i + 1, o)
    BY <1>5, <1>7, <2>1 DEF Path
  <2>3. CASE i = Len(s)
    BY <2>1, <2>3
  <2>4. CASE i # Len(s)
    <3>1. i + 1 \in 1..Len(s) /\ i + 1 <= Len(s)
      BY <2>4
    <3>2. o = s[i + 1]
      BY <2>2, <3>1 DEF At
    <3>3. o \in ToSet(s)
      BY <3>1, <3>2, ToSetIs
    <3>4. QED
      BY <1>3, <1>5, <3>3
  <2>5. QED
    BY <2>3, <2>4
<1>8. ASSUME NEW p \in ToSet(v), h.next[p] = o
      PROVE  FALSE
  <2>1. PICK i \in 1..Len(v) : v[i] = p
    BY <1>2, ToSetIs
  <2>2. o = At(v, i + 1, NULL)
    BY <1>5, <1>8, <2>1 DEF Path
  <2>3. CASE i = Len(v)
    BY <1>2, <2>2, <2>3, BuilderAssumption DEF At
  <2>4. CASE i # Len(v)
    <3>1. i + 1 \in 1..Len(v) /\ i + 1 <= Len(v) /\ i + 1 # 1 /\ 1 \in 1..Len(v)
      BY <1>2, <2>4
    <3>2. v[i + 1] = v[1]
      BY <1>2, <2>2, <3>1 DEF At
    <3>3. QED
      BY <1>5, <3>1, <3>2 DEF Distinct
  <2>5. QED
    BY <2>3, <2>4
<1>9. CASE s = <<>>
  <2>1. h.first[b] = o
    BY <1>5, <1>9, Empty DEF Path, At
  <2>2. QED
    BY <1>6, <1>9, <2>1, Empty DEF Predecessor, FoundBehind
<1>10. CASE s # <<>>
  <2>1. /\ EndOf(s) = s[Len(s)] /\ EndOf(s) \in ToSet(s) /\ EndOf(s) \in Ops
        /\ Len(s) \in 1..Len(s)
    BY <1>10, EndIsLast
  <2>2. h.next[EndOf(s)] = o
    BY <1>5, <2>1 DEF Path, At
  <2>3. before = {EndOf(s)}
    BY <1>5, <1>6, <1>7, <1>8, <2>1, <2>2
  <2>4. h.first[b] # o
    <3>1. Len(s) \in Nat /\ 1 <= Len(s) /\ 1 \in 1..Len(s)
      BY <2>1
    <3>2. h.first[b] = s[1] /\ s[1] \in ToSet(s)
      BY <1>5, <3>1, ToSetIs DEF Path, At
    <3>3. QED
      BY <1>3, <1>5, <3>2
  <2>5. Predecessor(h, o) = CHOOSE p \in before : TRUE
    BY <1>6, <2>3, <2>4 DEF Predecessor
  <2>6. QED
    BY <1>6, <1>10, <2>1, <2>2, <2>3, <2>4, <2>5 DEF FoundBehind
<1>11. QED
  BY <1>9, <1>10

\* vx_IrOp_remove
LEMMA RemoveOpIs ==
  ASSUME NEW h, NEW L, NEW U, Rep(h, L, U), NEW b \in U, NEW s \in Seq(Ops), NEW t \in Seq(Ops),
         NEW o \in Ops, L[b] = s \o (<<o>> \o t)
  PROVE  Skipped(RemoveOp(h, o), h, L, U, b, s, t, o)
<1>1. FoundBehind(h, b, s, o)
  BY PredecessorIs
<1>2. RemoveOp(h, o) = Link(h, b, EndOf(s), h.next[o])
  <2>1. CASE s = <<>>
    BY <1>1, <2>1, Empty DEF RemoveOp, Link, FoundBehind
  <2>2. CASE s # <<>>
    <3>1. EndOf(s) # NULL /\ o # NULL
      BY <2>2, EndIsLast, BuilderAssumption
    <3>2. QED
      BY <1>1, <2>2, <3>1 DEF RemoveOp, RemoveSuccessor, Link, FoundBehind
  <2>3. QED
    BY <2>1, <2>2
<1>3. Skipped(Link(h, b, EndOf(s), h.next[o]), h, L, U, b, s, t, o)
  BY SkipIs
<1>4. QED
  BY <1>2, <1>3

LEMMA InitBlockKeeps ==
  ASSUME NEW h, NEW L, NEW U, Rep(h, L, U), NEW b \in U, L[b] = <<>>, NEW to \in Blocks \cup {NULL}
  PROVE  Rep(InitBlock(h, b, to), L, U)
<1> DEFINE g == InitBlock(h, b, to)
<1>1. h \in Heap /\ Acyclic(h) /\ U \subseteq Blocks /\ b \in Blocks
  BY RepHeap
<1>2. /\ g \in Heap /\ g.next = h.next /\ g.parent = h.parent
      /\ g.first[b] = NULL /\ \A c \in Blocks : c # b => g.first[c] = h.first[c]
  BY <1>1, InitBlockIs
<1> HIDE DEF g
<1>3. h.first[b] = NULL
  <2>1. Path(h, h.first[b], L[b], NULL)
    BY RepList
  <2>2. QED
    BY <2>1, Empty DEF Path, At
<1>4. \A c \in U : g.first[c] = h.first[c]
  BY <1>1, <1>2, <1>3
<1>5. Acyclic(g)
  BY <1>1, <1>2 DEF Acyclic
<1>6. \A c \in U : Path(g, g.first[c], L[c], NULL)
  <2> SUFFICES ASSUME NEW c \in U
               PROVE  Path(g, g.first[c], L[c], NULL)
    OBVIOUS
  <2>1. L[c] \in Seq(Ops) /\ Path(h, h.first[c], L[c], NULL)
    BY RepList
  <2>2. Path(g, h.first[c], L[c], NULL)
    BY <1>2, <2>1, PathFrame
  <2>3. QED
    BY <1>4, <2>2
<1>7. Rep(g, L, U)
  BY <1>1, <1>2, <1>5, <1>6 DEF Rep
<1>8. QED
  BY <1>7 DEF g

\* Changes that are not to the links or to what an operation is in keep the lists.
LEMMA RepSame ==
  ASSUME NEW h, NEW L, NEW U, Rep(h, L, U), NEW g \in Heap, SameLinks(g, h), g.parent = h.parent
  PROVE  Rep(g, L, U)
<1>1. /\ U \subseteq Blocks /\ g.next = h.next /\ g.first = h.first /\ Acyclic(h)
  BY DEF SameLinks, Rep
<1>2. Acyclic(g)
  BY <1>1 DEF Acyclic
<1>3. \A c \in U : Path(g, g.first[c], L[c], NULL)
  <2> SUFFICES ASSUME NEW c \in U
               PROVE  Path(g, g.first[c], L[c], NULL)
    OBVIOUS
  <2>1. L[c] \in Seq(Ops) /\ Path(h, h.first[c], L[c], NULL)
    BY RepList
  <2>2. QED
    BY <1>1, <2>1, PathFrame
<1>4. QED
  BY <1>2, <1>3 DEF Rep

\* vx_IrBlock_insertAllOpAfter
LEMMA InsertAllOpAfterIs ==
  ASSUME NEW h, NEW L, NEW U, Rep(h, L, U), NEW dest \in U, NEW src \in U, dest # src,
         NEW s \in Seq(Ops), NEW t \in Seq(Ops), L[dest] = s \o t
  PROVE  HandedOver(InsertAllOpAfter(h, dest, src, EndOf(s)), h, L, U, dest, src, s \o (L[src] \o t))
<1> DEFINE u == L[src]
           m == At(t, 1, NULL)
           x == h.first[src]
           h1 == UpdateParent(h, ToSet(u), dest)
           h2 == WithNext(h1, EndOf(u), m)
           g == InsertAllOpAfter(h, dest, src, EndOf(s))
           v == u \o t
           w == s \o v
           V == U \ {src}
<1>1. h \in Heap /\ U \subseteq Blocks /\ Acyclic(h) /\ dest \in Blocks
  BY RepHeap
<1>2. /\ x \in Ops \cup {NULL} /\ u \in Seq(Ops) /\ ToSet(u) \subseteq Ops
      /\ Path(h, x, u, NULL) /\ OpsOf(h, src) = u
  BY RepList
<1>3. Tail_(h, src) = EndOf(u)
  BY RepTail
<1>4. /\ Path(h, h.first[dest], s, m) /\ Path(h, m, t, NULL)
      /\ m \in Ops \cup {NULL}
      /\ ToSet(s) \subseteq Ops /\ ToSet(t) \subseteq Ops /\ ToSet(L[dest]) = ToSet(s) \cup ToSet(t)
      /\ ToSet(s) \cap ToSet(t) = {} /\ Distinct(s)
      /\ EndOf(s) \in ToSet(s) \/ EndOf(s) \notin Ops
  <2>1. Split(h, L, dest, s, t)
    BY RepSplit
  <2>2. QED
    BY <2>1 DEF Split
<1>5. \A p \in ToSet(L[dest]) : h.parent[p] = dest
  BY ZenonT(60), RepList
<1>6. ToSet(u) \cap ToSet(L[dest]) = {}
  BY RepApart
<1>7. Distinct(u)
  BY <1>1, <1>2, PathDistinct
<1>8. v \in Seq(Ops) /\ ToSet(v) = ToSet(u) \cup ToSet(t)
  BY <1>2, Sequences, ToSetConcat
<1> HIDE DEF m, x, u
<1>9. V \in SUBSET U /\ dest \in V
  OBVIOUS
<1>10. \A c \in V : L[c] \in Seq(Ops) /\ c \in Blocks /\ \A p \in ToSet(L[c]) : p \in Ops /\ h.parent[p] = c
  BY RepList
<1>11. CASE u = <<>>
  <2>1. g = h
    BY <1>2, <1>11 DEF InsertAllOpAfter
  <2>2. v = t
    BY <1>11, ConcatEmptySeq
  <2>3. w = L[dest]
    BY <2>2
  <2> HIDE DEF g, w, v, V, h1, h2
  <2>31. L[dest] \in Seq(Ops) /\ Path(h, h.first[dest], L[dest], NULL)
    BY RepList
  <2>32. w \in Seq(Ops) /\ Path(h, h.first[dest], w, NULL)
    BY <2>3, <2>31
  <2>4. Rep(h, Changed(L, V, dest, w), V)
    BY <1>1, <1>5, <1>9, <2>3, <2>32, RepChanged
  <2>5. InnerBlocks(h, ToSet(u)) = {}
    BY <1>11, Empty DEF InnerBlocks
  <2>6. SameNodes(h, h)
    BY DEF SameNodes
  <2>7. QED
    BY <2>1, <2>4, <2>5, <2>6 DEF g, v, w, V, u, HandedOver
<1>12. CASE u # <<>>
  <2>1. /\ EndOf(u) \in ToSet(u) /\ EndOf(u) \in Ops
    BY <1>2, <1>12, EndIsLast
  <2>2. NextOf(h, dest, EndOf(s)) = m
    <3>1. Path(h, h.first[dest], s, m)
      BY <1>4
    <3>2. Distinct(s)
      BY <1>4
    <3>3. QED
      BY <1>1, <1>2, <3>1, <3>2, LinkIs
  <2>3. g = Link(h2, dest, EndOf(s), x)
    BY <1>2, <1>3, <1>12, <2>2 DEF InsertAllOpAfter, WithNext, x
  <2> HIDE DEF g, v, w, V
  <2>4. Given(h1, h, ToSet(u), dest)
    <3>1. ToSet(u) \in SUBSET Ops
      BY <1>2
    <3>2. QED
      BY <1>1, <3>1, UpdateParentIs
  <2> HIDE DEF h1
  <2>5. /\ h1 \in Heap /\ h1.first = h.first /\ h1.next = h.next /\ SameNodes(h1, h)
        /\ \A o \in ToSet(u) : h1.parent[o] = dest
        /\ \A o \in Ops \ ToSet(u) : h1.parent[o] = h.parent[o]
        /\ \A b \in Blocks : b \in InnerBlocks(h, ToSet(u)) => h1.bparent[b] = dest
        /\ \A b \in Blocks : b \notin InnerBlocks(h, ToSet(u)) => h1.bparent[b] = h.bparent[b]
    BY <2>4 DEF Given, SameLinks
  <2>6. /\ h2 \in Heap /\ h2.first = h1.first /\ SameOwners(h2, h1) /\ SameNodes(h2, h1)
        /\ h2.next[EndOf(u)] = m /\ \A p \in Ops : p # EndOf(u) => h2.next[p] = h1.next[p]
    <3>1. h1 \in Heap
      BY <2>5
    <3>2. m \in Ops \cup {NULL}
      BY <1>4
    <3>3. EndOf(u) \in Ops
      BY <2>1
    <3>4. QED
      BY <3>1, <3>2, <3>3, WithNextIs
  <2> HIDE DEF h2
  <2>7. Linked(g, h2, dest, s, x)
    <3>1. \A p \in ToSet(s) : h2.next[p] = h.next[p]
      BY <1>4, <1>6, <2>1, <2>5, <2>6
    <3>2. Path(h2, h.first[dest], s, m)
      BY <1>4, <3>1, PathFrame
    <3>3. Path(h2, h2.first[dest], s, m)
      BY <2>5, <2>6, <3>2
    <3>4. Distinct(s)
      BY <1>4
    <3>5. x \in Ops \cup {NULL} /\ h2 \in Heap
      BY <1>2, <2>6
    <3>6. Linked(Link(h2, dest, EndOf(s), x), h2, dest, s, x)
      BY <1>1, <3>3, <3>4, <3>5, LinkIs
    <3>7. QED
      BY <2>3, <3>6
  <2>8. /\ g \in Heap /\ Path(g, g.first[dest], s, x)
        /\ \A c \in Blocks : c # dest => g.first[c] = h2.first[c]
        /\ \A p \in Ops : p # EndOf(s) => g.next[p] = h2.next[p]
        /\ SameOwners(g, h2) /\ SameNodes(g, h2)
    BY <2>7 DEF Linked
  <2>9. \A p \in Ops : p \notin ToSet(s) /\ p # EndOf(u) => g.next[p] = h.next[p]
    BY <1>4, <2>5, <2>6, <2>8
  <2>10. g.next[EndOf(u)] = m
    BY <1>4, <1>6, <2>1, <2>6, <2>8
  <2>11. Path(g, x, u, m)
    <3> DEFINE k == WithNext(h, EndOf(u), m)
    <3>1. /\ k.next[EndOf(u)] = m /\ \A p \in Ops : p # EndOf(u) => k.next[p] = h.next[p]
      BY <1>1, <1>4, <2>1, WithNextIs
    <3> HIDE DEF k
    <3>2. Path(k, x, u, m)
      <4>1. u \in Seq(Ops)
        BY <1>2
      <4>2. Path(h, x, u, NULL)
        BY <1>2
      <4>3. Redirected(k, h, EndOf(u), m)
        BY <3>1 DEF Redirected
      <4>4. QED
        BY <1>7, <1>12, <4>1, <4>2, <4>3, PathRedirect
    <3>3. \A p \in ToSet(u) : p \in Ops /\ p \notin ToSet(s)
      BY <1>2, <1>4, <1>6
    <3>4. \A p \in ToSet(u) : g.next[p] = k.next[p]
      BY <2>9, <2>10, <3>1, <3>3
    <3>5. QED
      BY <1>2, <3>2, <3>4, PathFrame
  <2>12. Path(g, m, t, NULL)
    <3>1. \A p \in ToSet(t) : p \in Ops /\ p \notin ToSet(s) /\ p # EndOf(u)
      BY <1>4, <1>6, <2>1
    <3>2. \A p \in ToSet(t) : g.next[p] = h.next[p]
      BY <2>9, <3>1
    <3>3. QED
      BY <1>4, <3>2, PathFrame
  <2>13. Path(g, x, v, NULL)
    BY <1>2, <2>11, <2>12, PathJoin DEF v
  <2>14. Path(g, g.first[dest], w, NULL)
    BY <1>8, <2>8, <2>13, PathJoin DEF w
  <2>15. w \in Seq(Ops) /\ ToSet(w) = ToSet(s) \cup ToSet(u) \cup ToSet(t)
    <3>1. ToSet(w) = ToSet(s) \cup ToSet(v)
      BY <1>8, ToSetConcat DEF w
    <3>2. QED
      BY <1>8, <3>1, Sequences DEF w
  <2>16. /\ \A o \in ToSet(u) : g.parent[o] = dest
         /\ \A o \in Ops \ ToSet(u) : g.parent[o] = h.parent[o]
         /\ g.bparent = h1.bparent
    BY <2>5, <2>6, <2>8 DEF SameOwners
  <2>17. \A o \in ToSet(w) : g.parent[o] = dest
    BY <1>4, <1>5, <2>15, <2>16
  <2>18. \A o \in Ops : g.next[o] # h.next[o] => o \in ToSet(w)
    BY <2>1, <2>9, <2>15
  <2>19. \A c \in V : c # dest => g.first[c] = h.first[c]
    BY <1>10, <2>5, <2>6, <2>8
  <2>20. \A c \in V : c # dest => \A o \in ToSet(L[c]) : g.next[o] = h.next[o] /\ g.parent[o] = h.parent[o]
    <3> SUFFICES ASSUME NEW c \in V, c # dest, NEW o \in ToSet(L[c])
                 PROVE  g.next[o] = h.next[o] /\ g.parent[o] = h.parent[o]
      OBVIOUS
    <3>1. o \in Ops /\ c \in U /\ c # src
      BY <1>10 DEF V
    <3>2. ToSet(L[dest]) \cap ToSet(L[c]) = {}
      BY <3>1, RepApart
    <3>3. ToSet(u) \cap ToSet(L[c]) = {}
      BY <3>1, RepApart DEF u
    <3>4. o \notin ToSet(s) /\ o \notin ToSet(u)
      BY <1>4, <3>2, <3>3
    <3>5. QED
      BY <2>1, <2>9, <2>16, <3>1, <3>4
  <2>21. g \in Heap
    BY <2>8
  <2>22. Rep(g, Changed(L, V, dest, w), V)
    BY <1>9, <2>14, <2>15, <2>17, <2>18, <2>19, <2>20, <2>21, RepChanged
  <2>23. SameNodes(g, h)
    BY <2>5, <2>6, <2>8 DEF SameNodes
  <2>24. QED
    BY <2>5, <2>16, <2>22, <2>23 DEF g, V, w, v, u, HandedOver
<1>13. QED
  BY <1>11, <1>12

--------------------------------------------------------------------------------
(***************************************************************************)
(* The loops going on.                                                      *)
(***************************************************************************)
LEMMA Located ==
  ASSUME NEW s \in Seq(Ops), NEW o \in ToSet(s)
  PROVE  \E a, c \in Seq(Ops) : s = a \o (<<o>> \o c)
<1>1. PICK i \in 1..Len(s) : s[i] = o
  BY ToSetIs
<1>2. Len(s) \in Nat /\ \A k \in 1..Len(s) : s[k] \in Ops
  OBVIOUS
<1> DEFINE a == SubSeq(s, 1, i - 1)
           c == SubSeq(s, i + 1, Len(s))
           r == SubSeq(s, i, Len(s))
<1>3. a \in Seq(Ops) /\ c \in Seq(Ops)
  <2>1. \A k \in 1..i - 1 : s[k] \in Ops
    BY <1>2
  <2>2. \A k \in i + 1..Len(s) : s[k] \in Ops
    BY <1>2
  <2>3. 1 \in Int /\ i - 1 \in Int /\ i + 1 \in Int /\ Len(s) \in Int
    BY <1>2
  <2>4. QED
    BY <2>1, <2>2, <2>3, SubSeqProperties
<1>4. r = <<o>> \o c
  <2>1. i \in 1..Len(s) /\ Len(s) \in i..Len(s)
    BY <1>2
  <2>2. QED
    BY <1>1, <2>1, SubSeqRecursiveFirst
<1>5. s = a \o r
  <2>1. SubSeq(s, 1, i - 1) \o SubSeq(s, (i - 1) + 1, Len(s)) = SubSeq(s, 1, Len(s))
    <3>1. 1 \in 1..Len(s) + 1 /\ i - 1 \in 1 - 1..Len(s) /\ Len(s) \in i - 1..Len(s)
      BY <1>2
    <3>2. QED
      BY <3>1, ConcatAdjacentSubSeq
  <2>2. SubSeq(s, 1, Len(s)) = s
    BY SubSeqFull
  <2>3. (i - 1) + 1 = i
    OBVIOUS
  <2>4. QED
    BY <2>1, <2>2, <2>3
<1> HIDE DEF a, c, r
<1>6. QED
  BY <1>3, <1>4, <1>5

\* The operations of a list lead on through the rest of it.
LEMMA ChainInList ==
  ASSUME NEW h, NEW L, NEW U, Rep(h, L, U), NEW b \in U, NEW s \in Seq(Ops), NEW t \in Seq(Ops),
         L[b] = s \o t
  PROVE  Chain(h, At(t, 1, NULL)) = t
<1>1. Split(h, L, b, s, t)
  BY RepSplit
<1>2. Path(h, At(t, 1, NULL), t, NULL) /\ At(t, 1, NULL) \in Ops \cup {NULL}
  BY <1>1 DEF Split
<1>3. h \in Heap /\ Acyclic(h)
  BY RepHeap
<1>4. QED
  BY <1>2, <1>3, ChainIs

LEMMA ConsIs ==
  ASSUME NEW o \in Ops, NEW t \in Seq(Ops)
  PROVE  /\ <<o>> \o t \in Seq(Ops) /\ At(<<o>> \o t, 1, NULL) = o
         /\ ToSet(<<o>> \o t) = {o} \cup ToSet(t)
         /\ <<o>> \o t # <<>> /\ Head(<<o>> \o t) = o /\ Tail(<<o>> \o t) = t
<1> DEFINE v == <<o>> \o t
<1>1. <<o>> \in Seq(Ops) /\ Len(<<o>>) = 1 /\ <<o>>[1] = o /\ ToSet(<<o>>) = {o}
  BY Single
<1>2. /\ v \in Seq(Ops) /\ Len(v) = 1 + Len(t) /\ v[1] = o /\ Len(t) \in Nat
      /\ \A i \in 1..Len(t) : v[1 + i] = t[i]
  <2>1. v \in Seq(Ops) /\ Len(v) = Len(<<o>>) + Len(t) /\ Len(t) \in Nat
        /\ (\A i \in 1..Len(<<o>>) : v[i] = <<o>>[i])
        /\ \A i \in 1..Len(t) : v[Len(<<o>>) + i] = t[i]
    BY <1>1, Sequences
  <2>2. QED
    BY <1>1, <2>1
<1>3. ToSet(v) = {o} \cup ToSet(t)
  BY <1>1, ToSetConcat
<1> HIDE DEF v
<1>4. v # <<>> /\ At(v, 1, NULL) = o
  BY <1>2, EmptySeq DEF At
<1>5. Head(v) = o
  BY <1>2, <1>4
<1>6. Tail(v) = t
  <2>1. Tail(v) \in Seq(Ops) /\ Len(Tail(v)) = Len(v) - 1 /\ \A i \in 1..Len(Tail(v)) : Tail(v)[i] = v[i + 1]
    BY <1>2, <1>4, HeadTailProperties
  <2>2. Len(Tail(v)) = Len(t)
    BY <1>2, <2>1
  <2>3. \A i \in 1..Len(Tail(v)) : Tail(v)[i] = t[i]
    <3> SUFFICES ASSUME NEW i \in 1..Len(Tail(v))
                 PROVE  Tail(v)[i] = t[i]
      OBVIOUS
    <3>1. i \in 1..Len(t) /\ i + 1 = 1 + i
      BY <2>2
    <3>2. QED
      BY <1>2, <2>1, <3>1
  <2>4. QED
    BY <2>1, <2>2, <2>3, SeqEqual
<1>7. QED
  BY <1>2, <1>3, <1>4, <1>5, <1>6 DEF v

LeadsTo(h, o, t) == h.next[o] = At(t, 1, NULL)

LEMMA NextInList ==
  ASSUME NEW h, NEW L, NEW U, Rep(h, L, U), NEW b \in U, NEW s \in Seq(Ops), NEW t \in Seq(Ops),
         NEW o \in Ops, L[b] = s \o (<<o>> \o t)
  PROVE  LeadsTo(h, o, t)
<1> DEFINE v == <<o>> \o t
<1>1. v \in Seq(Ops) /\ At(v, 1, NULL) = o /\ L[b] = s \o v
  BY ConsIs
<1> HIDE DEF v
<1>2. Split(h, L, b, s, v)
  BY <1>1, RepSplit
<1>3. Path(h, o, <<o>> \o t, NULL)
  BY <1>1, <1>2 DEF Split, v
<1>4. <<o>> \in Seq(Ops) /\ Len(<<o>>) = 1 /\ <<o>>[1] = o /\ 1 \in 1..Len(<<o>>)
  BY Single
<1>5. Path(h, o, <<o>>, At(t, 1, NULL))
  BY <1>3, <1>4, PathSplit
<1>6. h.next[<<o>>[1]] = At(<<o>>, 1 + 1, At(t, 1, NULL))
  BY <1>4, <1>5 DEF Path
<1>7. At(<<o>>, 1 + 1, At(t, 1, NULL)) = At(t, 1, NULL)
  BY <1>4 DEF At
<1>8. QED
  BY <1>4, <1>6, <1>7 DEF LeadsTo

LEMMA ChainOfNull ==
  ASSUME NEW h \in Heap, Acyclic(h)
  PROVE  Chain(h, NULL) = <<>>
<1>1. <<>> \in Seq(Ops) /\ Path(h, NULL, <<>>, NULL)
  BY Empty DEF Path, At
<1>2. QED
  BY <1>1, ChainIs

LEMMA ChainKept ==
  ASSUME NEW h, NEW L, NEW U, Rep(h, L, U), NEW g, NEW M, NEW V, Rep(g, M, V),
         NEW b \in U, b \in V, M[b] = L[b], NEW o \in ToSet(L[b]) \cup {NULL}
  PROVE  Chain(g, o) = Chain(h, o)
<1>1. CASE o = NULL
  <2>1. h \in Heap /\ Acyclic(h)
    BY RepHeap
  <2>2. g \in Heap /\ Acyclic(g)
    BY RepHeap
  <2>3. QED
    BY <1>1, <2>1, <2>2, ChainOfNull
<1>2. CASE o # NULL
  <2>1. L[b] \in Seq(Ops) /\ ToSet(L[b]) \subseteq Ops
    BY RepList
  <2>2. o \in ToSet(L[b]) /\ o \in Ops
    BY <1>2, <2>1
  <2>3. PICK a, c \in Seq(Ops) : L[b] = a \o (<<o>> \o c)
    BY <2>1, <2>2, Located
  <2> DEFINE v == <<o>> \o c
  <2>4. v \in Seq(Ops) /\ At(v, 1, NULL) = o
    BY <2>2, ConsIs
  <2> HIDE DEF v
  <2>5. L[b] = a \o v /\ M[b] = a \o v
    BY <2>3 DEF v
  <2>6. Chain(h, At(v, 1, NULL)) = v
    BY <2>4, <2>5, ChainInList
  <2>7. Chain(g, At(v, 1, NULL)) = v
    BY <2>4, <2>5, ChainInList
  <2>8. QED
    BY <2>4, <2>6, <2>7
<1>3. QED
  BY <1>1, <1>2

\* The innermost of the loops goes on.
LastReplaced(z, S, s, x) ==
  z \in Seq(S) /\ Len(z) = Len(s) /\ z[Len(s)] = x /\ \A i \in 1..Len(s) - 1 : z[i] = s[i]

LEMMA FrontIs ==
  ASSUME NEW S, NEW s \in Seq(S), s # <<>>, NEW x \in S
  PROVE  /\ LastReplaced(Append(Front(s), x), S, s, x)
         /\ Front(s) \in Seq(S) /\ Len(Front(s)) = Len(s) - 1
         /\ \A i \in 1..Len(s) - 1 : Front(s)[i] = s[i]
<1>1. Len(s) \in Nat /\ 1 <= Len(s) /\ \A i \in 1..Len(s) : s[i] \in S
  BY EmptySeq
<1>2. Front(s) = SubSeq(s, 1, Len(s) - 1)
  BY DEF Front
<1>3. Front(s) \in Seq(S) /\ Len(Front(s)) = Len(s) - 1 /\ \A i \in 1..Len(s) - 1 : Front(s)[i] = s[i]
  <2>1. \A i \in 1..Len(s) - 1 : s[i] \in S
    BY <1>1
  <2>2. 1 \in Int /\ Len(s) - 1 \in Int
    BY <1>1
  <2>3. /\ SubSeq(s, 1, Len(s) - 1) \in Seq(S)
        /\ Len(SubSeq(s, 1, Len(s) - 1)) = IF 1 <= Len(s) - 1 THEN (Len(s) - 1) - 1 + 1 ELSE 0
        /\ \A i \in 1..(Len(s) - 1) - 1 + 1 : SubSeq(s, 1, Len(s) - 1)[i] = s[1 + i - 1]
    BY <2>1, <2>2, SubSeqProperties
  <2>4. \A i \in 1..Len(s) - 1 : i \in 1..(Len(s) - 1) - 1 + 1 /\ 1 + i - 1 = i
    BY <1>1
  <2>5. Front(s) \in Seq(S)
    BY <1>2, <2>3
  <2>6. Len(Front(s)) = Len(s) - 1
    <3> DEFINE n == Len(s)
               l == Len(SubSeq(s, 1, n - 1))
    <3>1. n \in Nat /\ 1 <= n /\ l = IF 1 <= n - 1 THEN (n - 1) - 1 + 1 ELSE 0
      BY <1>1, <2>3
    <3> HIDE DEF n, l
    <3>2. l = n - 1
      <4>1. CASE n = 1
        BY <3>1, <4>1
      <4>2. CASE n # 1
        BY <3>1, <4>2
      <4>3. QED
        BY <4>1, <4>2
    <3>3. QED
      BY <1>2, <3>2 DEF n, l
  <2>7. ASSUME NEW i \in 1..Len(s) - 1
        PROVE  SubSeq(s, 1, Len(s) - 1)[i] = s[i]
    <3>1. i \in 1..(Len(s) - 1) - 1 + 1 /\ 1 + i - 1 = i
      BY <2>4
    <3>2. SubSeq(s, 1, Len(s) - 1)[i] = s[1 + i - 1]
      BY <2>3, <3>1
    <3>3. QED
      BY <3>1, <3>2
  <2>8. QED
    BY <1>2, <2>5, <2>6, <2>7
<1> HIDE DEF Front
<1> DEFINE f == Front(s)
<1> HIDE DEF f
<1>5. f \in Seq(S) /\ Len(f) = Len(s) - 1 /\ \A i \in 1..Len(s) - 1 : f[i] = s[i]
  BY <1>3 DEF f
<1>6. /\ Append(f, x) \in Seq(S) /\ Len(Append(f, x)) = Len(f) + 1
      /\ Append(f, x)[Len(f) + 1] = x /\ \A i \in 1..Len(f) : Append(f, x)[i] = f[i]
  BY <1>5
<1>7. /\ Len(Append(f, x)) = Len(s) /\ Append(f, x)[Len(s)] = x
      /\ \A i \in 1..Len(s) - 1 : Append(f, x)[i] = s[i]
  BY <1>1, <1>5, <1>6
<1>8. QED
  BY <1>1, <1>3, <1>6, <1>7 DEF f, LastReplaced

\* Where the loops w are and what they have still to visit.
Todo == [block : Blocks, rest : Seq(Ops)]
Rests(h, w) == [i \in DOMAIN w |-> [block |-> w[i].block, rest |-> Chain(h, w[i].op)]]

LEMMA RestsIs ==
  ASSUME NEW h \in Heap, Acyclic(h), NEW w \in Seq(Place)
  PROVE  /\ Rests(h, w) \in Seq(Todo) /\ Len(Rests(h, w)) = Len(w)
         /\ \A i \in 1..Len(w) : Rests(h, w)[i] = [block |-> w[i].block, rest |-> Chain(h, w[i].op)]
<1> DEFINE r == Rests(h, w)
<1>1. Len(w) \in Nat /\ DOMAIN w = 1..Len(w) /\ \A i \in 1..Len(w) : w[i] \in Place
  OBVIOUS
<1>2. ASSUME NEW i \in 1..Len(w)
      PROVE  [block |-> w[i].block, rest |-> Chain(h, w[i].op)] \in Todo
  <2>1. w[i].block \in Blocks /\ w[i].op \in Ops \cup {NULL}
    BY <1>1 DEF Place
  <2>2. PICK s \in Seq(Ops) : Path(h, w[i].op, s, NULL)
    BY <2>1, PathExists
  <2>3. Chain(h, w[i].op) = s
    BY <2>1, <2>2, ChainIs
  <2>4. QED
    BY <2>1, <2>3 DEF Todo
<1>3. r \in [1..Len(w) -> Todo]
  BY <1>1, <1>2 DEF Rests
<1>4. r \in Seq(Todo)
  <2>1. r \in UNION {[1..n -> Todo] : n \in Nat}
    BY <1>1, <1>3
  <2>2. QED
    BY SMTT(60), <2>1, SeqDef
<1>5. \A i \in 1..Len(w) : r[i] = [block |-> w[i].block, rest |-> Chain(h, w[i].op)]
  BY <1>1 DEF Rests
<1> HIDE DEF r
<1>6. Len(r) = Len(w)
  <2>1. Len(r) \in Nat /\ DOMAIN r = 1..Len(r) /\ DOMAIN r = 1..Len(w)
    BY SMTT(60), <1>3, <1>4, LenProperties
  <2> DEFINE m == Len(r)
             n == Len(w)
  <2>2. m \in Nat /\ n \in Nat /\ 1..m = 1..n
    BY ZenonT(60), <1>1, <2>1
  <2> HIDE DEF m, n
  <2>3. m = n
    BY <2>2
  <2>4. QED
    BY <2>3 DEF m, n
<1>7. QED
  BY <1>4, <1>5, <1>6 DEF r

\* The walks are at op, between the operations B and R of its block.
Standing(B, R) ==
  /\ Len(walk) \in Nat /\ 1 <= Len(walk) /\ walk # <<>>
  /\ block = walk[Len(walk)].block /\ op = walk[Len(walk)].op
  /\ block \in Used /\ op \in Ops /\ op \in ToSet(Listed[block])
  /\ Listed[block] = B \o (<<op>> \o R)
  /\ Predecessor(heap, op) = EndOf(B) /\ heap.parent[op] = block
  /\ heap.next[op] = At(R, 1, NULL) /\ Chain(heap, heap.next[op]) = R
AbstractlyStanding(B, R) ==
  /\ Lists!Visiting /\ Lists!Block = block
  /\ Lists!Here = op /\ Lists!Before = B /\ Lists!Behind = R

LEMMA FrontOfConcat ==
  ASSUME NEW s \in Seq(Ops), NEW t \in Seq(Ops)
  PROVE  SubSeq(s \o t, 1, Len(s \o t) - Len(t)) = s
<1>1. Len(s) \in Nat /\ Len(t) \in Nat /\ Len(s \o t) = Len(s) + Len(t)
  BY Sequences
<1>2. Len(s \o t) - Len(t) = Len(s)
  BY <1>1
<1>3. CASE Len(s) = 0
  <2>1. s = <<>>
    BY <1>3, EmptySeq
  <2>2. 1 \in Int /\ 0 \in Int /\ 0 < 1
    OBVIOUS
  <2>3. SubSeq(s \o t, 1, 0) = <<>>
    BY <2>2, SubSeqEmpty
  <2>4. QED
    BY <1>2, <1>3, <2>1, <2>3
<1>4. CASE Len(s) # 0
  <2>1. 1 \in 1..Len(s) /\ Len(s) \in 1..Len(s)
    BY <1>1, <1>4
  <2>2. SubSeq(s \o t, 1, Len(s)) = SubSeq(s, 1, Len(s))
    BY <2>1, SubSeqOfConcat1
  <2>3. SubSeq(s, 1, Len(s)) = s
    BY SubSeqFull
  <2>4. QED
    BY <1>2, <2>2, <2>3
<1>5. QED
  BY <1>3, <1>4

LEMMA WalkFacts ==
  ASSUME IInv
  PROVE  /\ walk \in Seq(Place) /\ Len(walk) \in Nat
         /\ \A i \in 1..Len(walk) : /\ walk[i].block \in Used
                                    /\ walk[i].op \in ToSet(Listed[walk[i].block]) \cup {NULL}
         /\ \A i \in 1..Len(walk) - 1 : walk[i].op # NULL /\ walk[i + 1].block \in ToSet(heap.inner[walk[i].op])
         /\ walk # <<>> => walk[1].block = Root
         /\ \A i, j \in 1..Len(walk) : walk[i].block = walk[j].block => i = j
<1>1. Walking(heap, Listed, Used, walk)
  BY DEF IInv
<1>2. walk \in Seq(Place)
  BY <1>1 DEF Walking
<1>3. Len(walk) \in Nat
  BY <1>2
<1>4. QED
  BY <1>1, <1>3 DEF Walking

LEMMA Visited ==
  ASSUME IInv, Visiting
  PROVE  \E B, R \in Seq(Ops) : Standing(B, R) /\ AbstractlyStanding(B, R)
<1> DEFINE n == Len(walk)
<1>1. Rep(heap, Listed, Used)
  BY DEF IInv
<1>2. walk # <<>> /\ op # NULL /\ walk \in Seq(Place) /\ n \in Nat
  BY WalkFacts DEF Visiting
<1>3. 1 <= n /\ n \in 1..n /\ block = walk[n].block /\ op = walk[n].op
  <2>1. n \in Nat \ {0}
    BY <1>2, EmptySeq
  <2>2. Last(walk) = walk[n]
    BY DEF Last
  <2>3. QED
    BY <2>1, <2>2 DEF block, op
<1>4. block \in Used /\ op \in ToSet(Listed[block])
  BY <1>2, <1>3, WalkFacts
<1>5. Listed[block] \in Seq(Ops) /\ ToSet(Listed[block]) \subseteq Ops
  BY <1>1, <1>4, RepList
<1>6. op \in Ops
  BY <1>4, <1>5
<1>7. PICK B, R \in Seq(Ops) : Listed[block] = B \o (<<op>> \o R)
  BY <1>4, <1>5, Located
<1> DEFINE v == <<op>> \o R
<1>8. /\ v \in Seq(Ops) /\ At(v, 1, NULL) = op /\ v # <<>> /\ Head(v) = op /\ Tail(v) = R
  BY <1>6, ConsIs
<1>9. Listed[block] = B \o v
  BY <1>7
<1> HIDE DEF v
<1>10. Chain(heap, op) = v
  <2>1. Chain(heap, At(v, 1, NULL)) = v
    BY <1>1, <1>4, <1>8, <1>9, ChainInList
  <2>2. QED
    BY <1>8, <2>1
<1>11. FoundBehind(heap, block, B, op)
  BY <1>1, <1>4, <1>6, <1>7, PredecessorIs
<1>12. heap.next[op] = At(R, 1, NULL) /\ Chain(heap, heap.next[op]) = R
  <2> DEFINE f == B \o <<op>>
  <2>1. <<op>> \in Seq(Ops) /\ f \in Seq(Ops)
    BY <1>6, Single, Sequences
  <2>2. Listed[block] = f \o R
    BY <1>7, <2>1, ConcatAssociative
  <2> HIDE DEF f
  <2>3. heap.next[op] = At(R, 1, NULL)
    <3>1. block \in Used
      BY <1>4
    <3>2. Listed[block] = B \o (<<op>> \o R)
      BY <1>7
    <3>3. LeadsTo(heap, op, R)
      BY <1>1, <1>6, <3>1, <3>2, NextInList
    <3>4. QED
      BY <3>3 DEF LeadsTo
  <2>4. Chain(heap, At(R, 1, NULL)) = R
    BY <1>1, <1>4, <2>1, <2>2, ChainInList
  <2>5. QED
    BY <2>3, <2>4
<1>13. heap \in Heap /\ Acyclic(heap)
  BY <1>1, RepHeap
<1>14. Walks \in Seq(Todo) /\ Len(Walks) = n /\ Walks[n] = [block |-> block, rest |-> v]
  <2>1. Walks = Rests(heap, walk)
    BY DEF Walks, Rests
  <2>2. QED
    BY <1>2, <1>3, <1>10, <1>13, <2>1, RestsIs
<1>15. Last(Walks) = [block |-> block, rest |-> v] /\ Walks # <<>>
  BY <1>2, <1>3, <1>14, EmptySeq DEF Last
<1>16. Lists!Block = block /\ Lists!Rest = v
  <2>1. Lists!Last(Walks) = Last(Walks)
    BY DEF Lists!Last, Last
  <2>2. QED
    BY <1>15, <2>1 DEF Lists!Block, Lists!Rest
<1>17. Lists!Before = B
  <2>1. SubSeq(B \o v, 1, Len(B \o v) - Len(v)) = B
    BY <1>8, FrontOfConcat
  <2>2. QED
    BY <1>9, <1>16, <2>1 DEF Lists!Before
<1>18. Lists!Visiting /\ Lists!Here = op /\ Lists!Behind = R
  BY <1>8, <1>15, <1>16 DEF Lists!Visiting, Lists!Here, Lists!Behind
<1>19. Standing(B, R)
  BY <1>2, <1>3, <1>4, <1>6, <1>7, <1>11, <1>12 DEF Standing, FoundBehind
<1>20. QED
  BY <1>16, <1>17, <1>18, <1>19 DEF AbstractlyStanding

\* No loop is in a block of the operation the innermost one is at.
LEMMA HeldElsewhere ==
  ASSUME IInv, Visiting, NEW c \in ToSet(heap.inner[op]), NEW i \in 1..Len(walk)
  PROVE  walk[i].block # c
<1>1. PICK B, R \in Seq(Ops) : Standing(B, R)
  BY Visited
<1>2. /\ Len(walk) \in Nat /\ walk # <<>> /\ 1 <= Len(walk) /\ op \in Ops
      /\ op = walk[Len(walk)].op /\ block = walk[Len(walk)].block
  BY <1>1 DEF Standing
<1>3. Rep(heap, Listed, Used) /\ Unshared(heap.inner) /\ NotHeld(heap.inner, Root)
  BY DEF IInv, Held, HeldBut
<1>4. heap.inner \in [Ops -> Seq(Blocks)]
  BY <1>3, RepHeap
<1> SUFFICES ASSUME walk[i].block = c
             PROVE  FALSE
  OBVIOUS
<1>5. CASE i = 1
  BY <1>2, <1>3, <1>5, WalkFacts DEF NotHeld
<1>6. CASE i # 1
  <2> DEFINE k == i - 1
  <2>1. k \in 1..Len(walk) - 1 /\ k + 1 = i /\ k \in 1..Len(walk) /\ k # Len(walk) /\ Len(walk) \in 1..Len(walk)
    BY <1>2, <1>6
  <2> HIDE DEF k
  <2>2. walk[k].op # NULL /\ c \in ToSet(heap.inner[walk[k].op]) /\ walk[k].block \in Used
        /\ walk[k].op \in ToSet(Listed[walk[k].block]) \cup {NULL}
    BY <2>1, WalkFacts
  <2>3. walk[k].op \in ToSet(Listed[walk[k].block])
    BY <2>2
  <2>4. walk[k].op \in Ops
    BY <1>3, <2>2, <2>3, RepList
  <2>5. walk[k].op = op
    <3> DEFINE p == walk[k].op
    <3>1. p \in Ops /\ c \in ToSet(heap.inner[p])
      BY <2>2, <2>4
    <3> HIDE DEF p
    <3>2. p = op
      BY <1>2, <1>3, <1>4, <3>1, HeldOnce
    <3>3. QED
      BY <3>2 DEF p
  <2>6. walk[k].block = block
    <3>1. block \in Used /\ op \in ToSet(Listed[block])
      BY <1>1 DEF Standing
    <3>2. QED
      BY <1>3, <2>2, <2>3, <2>5, <3>1, RepApart
  <2>7. QED
    BY <1>2, <2>1, <2>6, WalkFacts
<1>7. QED
  BY <1>5, <1>6

LEMMA OuterLoops ==
  ASSUME IInv, Visiting, NEW i \in 1..Len(walk) - 1
  PROVE  /\ walk[i].block \in Used /\ walk[i].block # block
         /\ walk[i].block \notin ToSet(heap.inner[op]) /\ walk[i].block \notin fresh
         /\ walk[i].op \in Ops /\ walk[i].op # op /\ walk[i].op \notin FreshOps
         /\ walk[i].op \in ToSet(Listed[walk[i].block])
<1>1. PICK B, R \in Seq(Ops) : Standing(B, R)
  BY Visited
<1>2. /\ Len(walk) \in Nat /\ walk # <<>> /\ 1 <= Len(walk) /\ op \in Ops
      /\ op = walk[Len(walk)].op /\ block = walk[Len(walk)].block
      /\ block \in Used /\ op \in ToSet(Listed[block])
  BY <1>1 DEF Standing
<1>3. Rep(heap, Listed, Used) /\ Kinded(heap, Listed, Used) /\ Unused(heap, Listed, Used, fresh)
  BY DEF IInv
<1>4. i \in 1..Len(walk) /\ i # Len(walk) /\ Len(walk) \in 1..Len(walk)
  BY <1>2
<1>5. walk[i].op # NULL /\ walk[i].block \in Used /\ walk[i].op \in ToSet(Listed[walk[i].block]) \cup {NULL}
  BY <1>4, WalkFacts
<1>6. walk[i].op \in ToSet(Listed[walk[i].block])
  BY <1>5
<1>7. walk[i].op \in Ops
  BY <1>3, <1>5, <1>6, RepList
<1>8. walk[i].block # block
  BY <1>2, <1>4, WalkFacts
<1>9. walk[i].op # op
  BY <1>2, <1>3, <1>5, <1>6, <1>8, RepApart
<1>10. walk[i].block \notin fresh
  <2> SUFFICES ASSUME walk[i].block \in fresh
               PROVE  FALSE
    OBVIOUS
  <2>1. Listed[walk[i].block] = <<>>
    BY <1>3 DEF Unused
  <2>2. QED
    BY <1>6, <2>1, Empty
<1>11. walk[i].op \notin FreshOps
  BY <1>3, <1>5, <1>6 DEF Kinded, FreshOps
<1>12. walk[i].block \notin ToSet(heap.inner[op])
  BY <1>4, HeldElsewhere
<1>13. QED
  BY <1>5, <1>6, <1>7, <1>8, <1>9, <1>10, <1>11, <1>12

\* A visit changes the block it is in, and otherwise only blocks the operation holds
\* and blocks and operations that were not used before.
Local(g, M, V) ==
  /\ \A c \in Used : c # block /\ c \notin ToSet(heap.inner[op]) /\ c \notin fresh => c \in V /\ M[c] = Listed[c]
  /\ \A p \in Ops : p # op /\ p \notin FreshOps => g.inner[p] = heap.inner[p]

\* It leaves lists, and goes on with rest.
Done(g, M, V, front, rest) ==
  /\ moved' \subseteq Blocks \ {Root} /\ V = Blocks \ moved'
  /\ Rep(g, M, V) /\ Held(g, M, V) /\ Kinded(g, M, V) /\ Unused(g, M, V, fresh') /\ Local(g, M, V)
  /\ block \in V /\ M[block] = front \o rest /\ g.next[op] = At(rest, 1, NULL)

LEMMA GoneOn ==
  ASSUME IInv, Visiting, NEW g, NEW M, NEW V, NEW front \in Seq(Ops), NEW rest \in Seq(Ops),
         Done(g, M, V, front, rest), GoOn(g)
  PROVE  IInv' /\ Listed' = M /\ Lists!GoOn(rest)
<1> DEFINE n == Len(walk)
           x == [block |-> block, op |-> g.next[op]]
           w == Append(Front(walk), x)
<1>1. PICK B, R \in Seq(Ops) : Standing(B, R) /\ AbstractlyStanding(B, R)
  BY Visited
<1>2. /\ walk \in Seq(Place) /\ walk # <<>> /\ n \in Nat /\ 1 <= n
      /\ block = walk[n].block /\ op = walk[n].op /\ block \in Used /\ op \in Ops
  BY <1>1, WalkFacts DEF Standing
<1>3. Rep(g, M, V) /\ V = Blocks \ moved' /\ V \subseteq Blocks
  BY DEF Done
<1>4. block \in V /\ M[block] = front \o rest /\ g.next[op] = At(rest, 1, NULL) /\ Local(g, M, V)
  BY DEF Done
<1>5. heap' = g /\ walk' = w
  BY DEF GoOn
<1>6. g \in Heap /\ Acyclic(g) /\ g.next[op] \in Ops \cup {NULL} /\ V \subseteq Blocks
  <2>1. g \in Heap /\ Acyclic(g) /\ g.next \in [Ops -> Ops \cup {NULL}]
    BY <1>3, RepHeap
  <2>2. QED
    BY <1>2, <1>3, <2>1
<1>7. x \in Place
  BY <1>2, <1>6 DEF Place, Used
<1>8. /\ w \in Seq(Place) /\ Len(w) = n /\ w[n] = x /\ \A i \in 1..n - 1 : w[i] = walk[i]
  <2>1. LastReplaced(w, Place, walk, x)
    BY <1>2, <1>7, FrontIs
  <2>2. QED
    BY <2>1 DEF LastReplaced
<1>9. Listed' = M
  <2>1. \A b \in Blocks : Listed'[b] = IF b \in moved' THEN <<>> ELSE OpsOf(heap', b)
    BY DEF Listed
  <2>2. Listed' = [b \in Blocks |-> Listed'[b]]
    BY DEF Listed
  <2>3. \A b \in V : OpsOf(heap', b) = M[b]
    BY <1>5, <1>3, RepList
  <2>4. M \in [Blocks -> Seq(Ops)] /\ \A b \in Blocks \ V : M[b] = <<>>
    BY <1>3 DEF Rep
  <2>5. \A b \in Blocks : Listed'[b] = M[b]
    BY <1>3, <2>1, <2>3, <2>4
  <2>6. M = [b \in Blocks |-> M[b]]
    BY <2>4
  <2>7. [b \in Blocks |-> Listed'[b]] = [b \in Blocks |-> M[b]]
    BY <2>5
  <2>8. QED
    BY <2>2, <2>6, <2>7
<1>10. \A i \in 1..n - 1 : /\ walk[i].block \in V /\ M[walk[i].block] = Listed[walk[i].block]
                          /\ walk[i].block \in Used /\ walk[i].block # block
                          /\ walk[i].op \in ToSet(Listed[walk[i].block]) /\ walk[i].op # NULL
                          /\ g.inner[walk[i].op] = heap.inner[walk[i].op]
  <2> SUFFICES ASSUME NEW i \in 1..n - 1
               PROVE  /\ walk[i].block \in V /\ M[walk[i].block] = Listed[walk[i].block]
                      /\ walk[i].block \in Used /\ walk[i].block # block
                      /\ walk[i].op \in ToSet(Listed[walk[i].block]) /\ walk[i].op # NULL
                      /\ g.inner[walk[i].op] = heap.inner[walk[i].op]
    OBVIOUS
  <2>1. /\ walk[i].block \in Used /\ walk[i].block # block
        /\ walk[i].block \notin ToSet(heap.inner[op]) /\ walk[i].block \notin fresh
        /\ walk[i].op \in Ops /\ walk[i].op # op /\ walk[i].op \notin FreshOps
        /\ walk[i].op \in ToSet(Listed[walk[i].block])
    BY OuterLoops
  <2>2. QED
    BY <1>4, <2>1, BuilderAssumption DEF Local
<1> HIDE DEF x, w, n
<1>11. Walking(g, M, V, w)
  <2>1. g.next[op] \in ToSet(M[block]) \cup {NULL}
    <3>1. Split(g, M, block, front, rest)
      BY <1>3, <1>4, RepSplit
    <3>2. ToSet(rest) \subseteq ToSet(M[block])
      BY <3>1 DEF Split
    <3>3. At(rest, 1, NULL) \in ToSet(rest) \cup {NULL}
      <4>1. Len(rest) \in Nat /\ (1 <= Len(rest) => 1 \in 1..Len(rest))
        OBVIOUS
      <4>2. QED
        BY <4>1, ToSetIs DEF At
    <3>4. QED
      BY <1>4, <3>2, <3>3
  <2>2. ASSUME NEW i \in 1..n
        PROVE  w[i].block = walk[i].block /\ w[i].block \in V /\ w[i].op \in ToSet(M[w[i].block]) \cup {NULL}
    <3>1. CASE i = n
      <4>1. w[i] = x /\ x.block = block /\ x.op = g.next[op]
        BY <1>8, <3>1 DEF x
      <4>2. QED
          BY <1>2, <1>4, <2>1, <3>1, <4>1
    <3>2. CASE i # n
      <4>1. i \in 1..n - 1
        BY <1>2, <3>2
      <4>2. QED
        BY <1>8, <1>10, <4>1
    <3>3. QED
      BY <3>1, <3>2
  <2>3. ASSUME NEW i \in 1..n - 1
        PROVE  w[i].op # NULL /\ w[i + 1].block \in ToSet(g.inner[w[i].op])
    <3>1. walk[i].op # NULL /\ walk[i + 1].block \in ToSet(heap.inner[walk[i].op])
      BY WalkFacts DEF n
    <3>2. w[i].op = walk[i].op /\ g.inner[w[i].op] = heap.inner[walk[i].op]
      BY <1>8, <1>10
    <3>3. i + 1 \in 1..n
      BY <1>2
    <3>4. w[i + 1].block = walk[i + 1].block
      BY <2>2, <3>3
    <3>5. QED
      BY <3>1, <3>2, <3>4
  <2>4. w[1].block = Root
    <3>1. 1 \in 1..n
      BY <1>2
    <3>2. walk[1].block = Root
      BY <1>2, WalkFacts
    <3>3. QED
      BY <2>2, <3>1, <3>2
  <2>5. ASSUME NEW i \in 1..n, NEW j \in 1..n, w[i].block = w[j].block
        PROVE  i = j
    <3>1. walk[i].block = walk[j].block
      BY <2>2, <2>5
    <3>2. QED
      BY <3>1, WalkFacts DEF n
  <2>6. QED
    BY <1>8, <2>2, <2>3, <2>4, <2>5 DEF Walking
<1>12. IInv'
  <2>1. Used' = V
    BY <1>3 DEF Used
  <2>2. QED
    BY <1>5, <1>9, <1>11, <2>1 DEF IInv, Done
<1>13. Lists!GoOn(rest)
  <2> DEFINE y == [block |-> block, rest |-> rest]
             r == Rests(heap, walk)
             r1 == Rests(g, w)
             z == Append(Front(r), y)
  <2>1. Walks = r /\ Walks' = r1
    BY <1>5 DEF Walks, Rests
  <2>2. heap \in Heap /\ Acyclic(heap)
    <3>1. Rep(heap, Listed, Used)
      BY DEF IInv
    <3>2. QED
      BY <3>1, RepHeap
  <2>3. /\ r \in Seq(Todo) /\ Len(r) = n
        /\ \A i \in 1..n : r[i] = [block |-> walk[i].block, rest |-> Chain(heap, walk[i].op)]
    BY <1>2, <2>2, RestsIs DEF n
  <2>4. /\ r1 \in Seq(Todo) /\ Len(r1) = n
        /\ \A i \in 1..n : r1[i] = [block |-> w[i].block, rest |-> Chain(g, w[i].op)]
    BY <1>6, <1>8, RestsIs
  <2>5. y \in Todo /\ r # <<>>
    BY <1>2, <2>3, EmptySeq DEF Todo, Used
  <2> HIDE DEF r, r1, y
  <2>6. z \in Seq(Todo) /\ Len(z) = n /\ z[n] = y /\ \A i \in 1..n - 1 : z[i] = r[i]
    <3>1. LastReplaced(z, Todo, r, y)
      BY <2>3, <2>5, FrontIs
    <3>2. QED
      BY <2>3, <3>1 DEF LastReplaced
  <2> HIDE DEF z
  <2>7. Chain(g, g.next[op]) = rest
    <3>1. Chain(g, At(rest, 1, NULL)) = rest
      <4>1. Rep(g, M, V)
        BY <1>3
      <4>2. block \in V
        BY <1>4
      <4>3. M[block] = front \o rest
        BY <1>4
      <4>4. QED
        BY ZenonT(60), <4>1, <4>2, <4>3, ChainInList
    <3>2. QED
      BY <1>4, <3>1
  <2>8. \A i \in 1..n : r1[i] = z[i]
    <3> SUFFICES ASSUME NEW i \in 1..n
                 PROVE  r1[i] = z[i]
      OBVIOUS
    <3>1. CASE i = n
      BY <1>8, <2>4, <2>6, <2>7, <3>1 DEF x, y
    <3>2. CASE i # n
      <4>1. i \in 1..n - 1
        BY <1>2, <3>2
      <4>2. Chain(g, walk[i].op) = Chain(heap, walk[i].op)
        <5> DEFINE b == walk[i].block
                   o == walk[i].op
        <5>1. b \in V /\ b \in Used /\ M[b] = Listed[b] /\ o \in ToSet(Listed[b]) \cup {NULL}
          BY <1>10, <4>1
        <5>2. Rep(heap, Listed, Used)
          BY DEF IInv
        <5> HIDE DEF b, o
        <5>3. Chain(g, o) = Chain(heap, o)
          <6>1. b \in V
            BY <5>1
          <6>2. b \in Used
            BY <5>1
          <6>3. M[b] = Listed[b]
            BY <5>1
          <6>4. o \in ToSet(Listed[b]) \cup {NULL}
            BY <5>1
          <6>5. QED
            BY <1>3, <5>2, <6>1, <6>2, <6>3, <6>4, ChainKept
        <5>4. QED
          BY <5>3 DEF o
      <4>3. r1[i] = [block |-> w[i].block, rest |-> Chain(g, w[i].op)]
        BY <2>4
      <4>4. w[i] = walk[i]
        BY <1>8, <4>1
      <4>5. z[i] = [block |-> walk[i].block, rest |-> Chain(heap, walk[i].op)]
        BY <2>3, <2>6, <4>1
      <4>6. QED
        BY <4>2, <4>3, <4>4, <4>5
    <3>3. QED
      BY <3>1, <3>2
  <2>9. r1 = z
    BY <2>4, <2>6, <2>8, SeqEqual
  <2>10. Lists!Front(r) = Front(r)
    BY DEF Lists!Front, Front
  <2>11. QED
    BY <1>1, <2>1, <2>9, <2>10 DEF Lists!GoOn, AbstractlyStanding, z, y
<1>14. QED
  BY <1>9, <1>12, <1>13

--------------------------------------------------------------------------------
(***************************************************************************)
(* What a visit may do without changing who holds what.                      *)
(***************************************************************************)
OneChanged(M, L, b, s) ==
  M = [L EXCEPT ![b] = s] /\ M[b] = s /\ \A c \in Blocks : c # b => M[c] = L[c]

LEMMA ChangedIs ==
  ASSUME NEW h, NEW L, NEW U, Rep(h, L, U), NEW b \in U, NEW s \in Seq(Ops)
  PROVE  OneChanged(Changed(L, U, b, s), L, b, s)
<1>1. L \in [Blocks -> Seq(Ops)] /\ U \subseteq Blocks /\ (\A c \in Blocks \ U : L[c] = <<>>) /\ b \in Blocks
  BY DEF Rep
<1>2. \A c \in Blocks : Changed(L, U, b, s)[c] = IF c = b THEN s ELSE IF c \in U THEN L[c] ELSE <<>>
  BY DEF Changed
<1>3. \A c \in Blocks : c # b => Changed(L, U, b, s)[c] = L[c]
  BY <1>1, <1>2
<1>4. Changed(L, U, b, s)[b] = s
  BY <1>1, <1>2
<1> DEFINE M == [L EXCEPT ![b] = s]
<1>5. M = [c \in Blocks |-> M[c]] /\ \A c \in Blocks : M[c] = IF c = b THEN s ELSE L[c]
  BY <1>1
<1> HIDE DEF M
<1>6. Changed(L, U, b, s) = [c \in Blocks |-> Changed(L, U, b, s)[c]]
  BY DEF Changed
<1>7. \A c \in Blocks : M[c] = Changed(L, U, b, s)[c]
  BY <1>3, <1>4, <1>5
<1>8. M = Changed(L, U, b, s)
  BY <1>5, <1>6, <1>7
<1>9. QED
  BY <1>3, <1>4, <1>8 DEF M, OneChanged

WellHeld(h, L, U, F) == Held(h, L, U) /\ Kinded(h, L, U) /\ Unused(h, L, U, F)

\* Operations left a list.
LEMMA Thinned ==
  ASSUME NEW h, NEW L, NEW U, NEW F, WellHeld(h, L, U, F),
         NEW g, SameOwners(g, h), SameNodes(g, h), NEW M, M \in [Blocks -> Seq(Ops)], U \subseteq Blocks,
         \A c \in U : ToSet(M[c]) \subseteq ToSet(L[c])
  PROVE  WellHeld(g, M, U, F)
<1>1. g.inner = h.inner /\ g.id = h.id /\ g.bparent = h.bparent
  BY DEF SameOwners, SameNodes
<1>2. Held(g, M, U)
  <2>1. /\ Unshared(g.inner) /\ NotHeld(g.inner, Root)
        /\ \A b \in U : \A o \in ToSet(L[b]) : \A c \in ToSet(h.inner[o]) : c \in U /\ h.bparent[c] = b
    BY <1>1 DEF WellHeld, Held, HeldBut
  <2>2. ASSUME NEW b \in U, NEW o \in ToSet(M[b]) \ {}, NEW c \in ToSet(g.inner[o])
        PROVE  c \in U /\ g.bparent[c] = b
    <3>1. o \in ToSet(L[b]) /\ c \in ToSet(h.inner[o])
      BY <1>1
    <3>2. QED
      BY <1>1, <2>1, <3>1
  <2>3. QED
    BY <2>1, <2>2 DEF Held, HeldBut
<1>3. Kinded(g, M, U)
  BY <1>1 DEF WellHeld, Kinded
<1>4. Unused(g, M, U, F)
  <2>1. ASSUME NEW b \in F
        PROVE  M[b] = <<>> /\ NotHeld(g.inner, b)
    <3>1. b \in U /\ b \in Blocks /\ L[b] = <<>> /\ NotHeld(h.inner, b)
      BY DEF WellHeld, Unused
    <3>2. ToSet(M[b]) = {} /\ M[b] \in Seq(Ops)
      BY <3>1, Empty
    <3>3. M[b] = <<>>
      BY <3>2, EndIsLast
    <3>4. QED
      BY <1>1, <3>1, <3>3
  <2>2. QED
    BY <2>1 DEF WellHeld, Unused
<1>5. QED
  BY <1>2, <1>3, <1>4 DEF WellHeld

\* A plain operation came to a list that was not empty.
GrownBy(g, h, M, L, U, b, o) ==
  /\ b \in U /\ o \in Ops /\ Created(g, h, b, o, "plain")
  /\ h \in Heap /\ g \in Heap /\ U \subseteq Blocks
  /\ M \in [Blocks -> Seq(Ops)] /\ L \in [Blocks -> Seq(Ops)] /\ L[b] # <<>>
  /\ \A c \in U : ToSet(M[c]) \subseteq ToSet(L[c]) \cup {o}
  /\ \A c \in Blocks : c # b => M[c] = L[c]

LEMMA Grown ==
  ASSUME NEW h, NEW L, NEW U, NEW F, WellHeld(h, L, U, F), NEW g, NEW M, NEW b, NEW o, GrownBy(g, h, M, L, U, b, o)
  PROVE  WellHeld(g, M, U, F)
<1>0. /\ b \in U /\ o \in Ops /\ Created(g, h, b, o, "plain")
      /\ h \in Heap /\ g \in Heap /\ U \subseteq Blocks
      /\ M \in [Blocks -> Seq(Ops)] /\ L \in [Blocks -> Seq(Ops)] /\ L[b] # <<>>
      /\ \A c \in U : ToSet(M[c]) \subseteq ToSet(L[c]) \cup {o}
      /\ \A c \in Blocks : c # b => M[c] = L[c]
  BY DEF GrownBy
<1> USE <1>0
<1>1. /\ g.bparent = h.bparent
      /\ g.id[o] = "plain" /\ \A p \in Ops : p # o => g.id[p] = h.id[p]
      /\ g.inner[o] = <<>> /\ \A p \in Ops : p # o => g.inner[p] = h.inner[p]
  BY DEF Created
<1>2. ToSet(g.inner[o]) = {} /\ Len(g.inner[o]) = 0
  BY <1>1, Empty
<1>3. \A c \in U : \A p \in ToSet(M[c]) : p \in Ops
  <2> SUFFICES ASSUME NEW c \in U
               PROVE  ToSet(M[c]) \subseteq Ops
    OBVIOUS
  <2>1. M[c] \in Seq(Ops)
    OBVIOUS
  <2>2. QED
    BY <2>1, ToSetIs
<1>4. \A p \in Ops : ToSet(g.inner[p]) \subseteq ToSet(h.inner[p])
  BY <1>1, <1>2
<1>5. Held(g, M, U)
  <2>1. Unshared(h.inner) /\ NotHeld(h.inner, Root)
    BY DEF WellHeld, Held, HeldBut
  <2>2. Unshared(g.inner)
    <3> SUFFICES ASSUME NEW p \in Ops, NEW q \in Ops, NEW i \in 1..Len(g.inner[p]), NEW j \in 1..Len(g.inner[q]),
                        g.inner[p][i] = g.inner[q][j]
                 PROVE  p = q /\ i = j
      BY DEF Unshared
    <3>1. p # o /\ q # o
      BY <1>2
    <3>2. g.inner[p] = h.inner[p] /\ g.inner[q] = h.inner[q]
      BY <1>1, <3>1
    <3>3. \A k \in 1..Len(h.inner[p]), l \in 1..Len(h.inner[q]) : h.inner[p][k] = h.inner[q][l] => p = q /\ k = l
      BY <2>1 DEF Unshared
    <3>4. QED
      BY <3>2, <3>3
  <2>3. NotHeld(g.inner, Root)
    BY <1>4, <2>1 DEF NotHeld
  <2>4. \A c \in U : \A p \in ToSet(M[c]) : \A d \in ToSet(g.inner[p]) : d \in U /\ g.bparent[d] = c
    <3> SUFFICES ASSUME NEW c \in U, NEW p \in ToSet(M[c]), NEW d \in ToSet(g.inner[p])
                 PROVE  d \in U /\ h.bparent[d] = c
      BY <1>1
    <3>1. p # o /\ p \in ToSet(L[c])
      BY <1>2
    <3>2. d \in ToSet(h.inner[p])
      BY <1>3, <1>4
    <3>3. QED
      BY <3>1, <3>2 DEF WellHeld, Held, HeldBut
  <2>5. QED
    BY <2>2, <2>3, <2>4 DEF Held, HeldBut
<1>6. Kinded(g, M, U)
  <2> SUFFICES ASSUME NEW c \in U, NEW p \in ToSet(M[c])
               PROVE  /\ g.id[p] # "none"
                      /\ g.id[p] = "WHILE" => Len(g.inner[p]) = 2
                      /\ g.id[p] = "CFOR" => Len(g.inner[p]) = 4
    BY DEF Kinded
  <2>1. CASE p = o
    BY <1>1, <2>1
  <2>2. CASE p # o
    <3>1. p \in ToSet(L[c]) /\ p \in Ops
      BY <1>3, <2>2
    <3>2. QED
      BY ZenonT(60), <1>1, <2>2, <3>1 DEF WellHeld, Kinded
  <2>3. QED
    BY <2>1, <2>2
<1>7. Unused(g, M, U, F)
  <2>1. ASSUME NEW c \in F
        PROVE  M[c] = <<>> /\ NotHeld(g.inner, c)
    <3>1. c \in U /\ c \in Blocks /\ L[c] = <<>> /\ NotHeld(h.inner, c)
      BY DEF WellHeld, Unused
    <3>2. c # b
      BY <3>1
    <3>3. QED
      BY <1>4, <3>1, <3>2 DEF NotHeld
  <2>2. QED
    BY <2>1 DEF WellHeld, Unused
<1>8. QED
  BY <1>5, <1>6, <1>7 DEF WellHeld

--------------------------------------------------------------------------------
(****************************************************************************)
(* Passes that keep an operation or remove it.                              *)
(****************************************************************************)
Kept(g, M) == Rep(g, M, Used) /\ WellHeld(g, M, Used, fresh)

LEMMA InvIs ==
  ASSUME IInv
  PROVE  /\ moved \subseteq Blocks \ {Root} /\ Rep(heap, Listed, Used)
         /\ Held(heap, Listed, Used) /\ Kinded(heap, Listed, Used) /\ Unused(heap, Listed, Used, fresh)
         /\ heap \in Heap /\ Listed \in [Blocks -> Seq(Ops)] /\ Used \subseteq Blocks
<1>1. Rep(heap, Listed, Used)
  BY DEF IInv
<1>2. QED
  BY <1>1 DEF IInv, Rep

\* A visit that moves no blocks leaves the list s in its block.
LEMMA GoneOnHere ==
  ASSUME IInv, Visiting, NoBlocks, NEW g, NEW s \in Seq(Ops), NEW front \in Seq(Ops), NEW rest \in Seq(Ops),
         s = front \o rest, Kept(g, Changed(Listed, Used, block, s)),
         \A p \in Ops : p # op /\ p \notin FreshOps => g.inner[p] = heap.inner[p],
         LeadsTo(g, op, rest), GoOn(g)
  PROVE  IInv' /\ Listed' = [Listed EXCEPT ![block] = s] /\ Lists!GoOn(rest)
<1> DEFINE M == Changed(Listed, Used, block, s)
<1>1. PICK B, R \in Seq(Ops) : Standing(B, R)
  BY Visited
<1>2. block \in Used
  BY <1>1 DEF Standing
<1>3. Rep(heap, Listed, Used) /\ moved \subseteq Blocks \ {Root} /\ Used \subseteq Blocks
  BY InvIs
<1>4. M = [Listed EXCEPT ![block] = s] /\ M[block] = s /\ \A c \in Blocks : c # block => M[c] = Listed[c]
  <2>1. OneChanged(M, Listed, block, s)
    BY <1>2, <1>3, ChangedIs
  <2>2. QED
    BY <2>1 DEF OneChanged
<1>5. Kept(g, M)
  OBVIOUS
<1> HIDE DEF M
<1>6. Local(g, M, Used)
  BY <1>3, <1>4 DEF Local
<1>7. Done(g, M, Used, front, rest)
  <2>1. Used = Blocks \ moved' /\ moved' \subseteq Blocks \ {Root} /\ fresh' = fresh
    BY <1>3 DEF NoBlocks, Used
  <2>2. Rep(g, M, Used) /\ Held(g, M, Used) /\ Kinded(g, M, Used) /\ Unused(g, M, Used, fresh)
    BY <1>5 DEF Kept, WellHeld
  <2>3. M[block] = front \o rest /\ g.next[op] = At(rest, 1, NULL)
    BY <1>4 DEF LeadsTo
  <2>4. QED
    BY <1>2, <1>6, <2>1, <2>2, <2>3 DEF Done
<1>8. IInv' /\ Listed' = M /\ Lists!GoOn(rest)
  BY <1>7, GoneOn
<1>9. QED
  BY <1>4, <1>8

LEMMA KeepIs ==
  ASSUME IInv, Keep
  PROVE  IInv' /\ Lists!Keep
<1>1. Visiting /\ GoOn(heap) /\ NoBlocks
  BY DEF Keep
<1>2. PICK B, R \in Seq(Ops) : Standing(B, R) /\ AbstractlyStanding(B, R)
  BY <1>1, Visited
<1>3. /\ block \in Used /\ op \in Ops /\ Listed[block] = B \o (<<op>> \o R)
      /\ heap.next[op] = At(R, 1, NULL)
  BY <1>2 DEF Standing
<1> DEFINE front == B \o <<op>>
<1>4. front \in Seq(Ops) /\ Listed[block] = front \o R
  <2>1. <<op>> \in Seq(Ops)
    BY <1>3, Single
  <2>2. (B \o <<op>>) \o R = B \o (<<op>> \o R)
    BY <2>1, ConcatAssociative
  <2>3. QED
    BY <1>3, <2>1, <2>2, Sequences
<1> HIDE DEF front
<1>5. Done(heap, Listed, Used, front, R)
  <2>1. /\ moved \subseteq Blocks \ {Root} /\ Rep(heap, Listed, Used)
        /\ Held(heap, Listed, Used) /\ Kinded(heap, Listed, Used) /\ Unused(heap, Listed, Used, fresh)
    BY InvIs
  <2>2. Used = Blocks \ moved' /\ moved' \subseteq Blocks \ {Root} /\ fresh' = fresh
    BY <1>1, <2>1 DEF NoBlocks, Used
  <2>3. Local(heap, Listed, Used)
    BY DEF Local
  <2>4. QED
    BY <1>3, <1>4, <2>1, <2>2, <2>3 DEF Done
<1>6. IInv' /\ Listed' = Listed /\ Lists!GoOn(R)
  BY <1>1, <1>4, <1>5, GoneOn
<1>7. heap' = heap
  BY <1>1 DEF GoOn
<1>8. QED
  BY <1>2, <1>6, <1>7 DEF AbstractlyStanding, Lists!Keep, Lists!Unmade

\* Operations of the block are removed.
LEMMA KeptShorter ==
  ASSUME IInv, Visiting, NEW g, NEW s \in Seq(Ops), ToSet(s) \subseteq ToSet(Listed[block]),
         Rep(g, Changed(Listed, Used, block, s), Used), SameOwners(g, heap), SameNodes(g, heap)
  PROVE  Kept(g, Changed(Listed, Used, block, s))
<1> DEFINE M == Changed(Listed, Used, block, s)
<1>1. PICK B, R \in Seq(Ops) : Standing(B, R)
  BY Visited
<1>2. block \in Used
  BY <1>1 DEF Standing
<1>3. /\ Rep(heap, Listed, Used) /\ Used \subseteq Blocks
      /\ Held(heap, Listed, Used) /\ Kinded(heap, Listed, Used) /\ Unused(heap, Listed, Used, fresh)
  BY InvIs
<1>4. OneChanged(M, Listed, block, s)
  BY <1>2, <1>3, ChangedIs
<1>5. Rep(g, M, Used) /\ M[block] = s /\ \A c \in Blocks : c # block => M[c] = Listed[c]
  BY <1>4 DEF OneChanged
<1> HIDE DEF M
<1>6. \A c \in Used : ToSet(M[c]) \subseteq ToSet(Listed[c])
  BY <1>3, <1>5
<1>7. M \in [Blocks -> Seq(Ops)]
  BY <1>5 DEF Rep
<1>8. WellHeld(g, M, Used, fresh)
  <2>1. WellHeld(heap, Listed, Used, fresh)
    BY <1>3 DEF WellHeld
  <2>2. QED
    BY <1>3, <1>6, <1>7, <2>1, Thinned
<1>9. Kept(g, M)
  BY <1>5, <1>8 DEF Kept
<1>10. QED
  BY <1>9 DEF M

LEMMA RemoveHereIs ==
  ASSUME IInv, RemoveHere
  PROVE  IInv' /\ Lists!Drop
<1> DEFINE g == RemoveOp(heap, op)
<1>1. Visiting /\ GoOn(g) /\ NoBlocks
  BY DEF RemoveHere
<1>2. PICK B, R \in Seq(Ops) : Standing(B, R) /\ AbstractlyStanding(B, R)
  BY <1>1, Visited
<1>3. /\ block \in Used /\ op \in Ops /\ Listed[block] = B \o (<<op>> \o R)
      /\ heap.next[op] = At(R, 1, NULL) /\ Rep(heap, Listed, Used)
  BY <1>2, InvIs DEF Standing
<1>4. Skipped(g, heap, Listed, Used, block, B, R, op)
  BY <1>3, RemoveOpIs
<1> HIDE DEF g
<1>5. /\ Rep(g, Changed(Listed, Used, block, B \o R), Used)
      /\ SameOwners(g, heap) /\ SameNodes(g, heap) /\ g.next[op] = heap.next[op]
  BY <1>4 DEF Skipped
<1> DEFINE s == B \o R
<1>6. s \in Seq(Ops) /\ ToSet(s) \subseteq ToSet(Listed[block])
  <2>1. ToSet(s) = ToSet(B) \cup ToSet(R)
    BY ToSetConcat
  <2>2. <<op>> \o R \in Seq(Ops) /\ ToSet(<<op>> \o R) = {op} \cup ToSet(R)
    BY <1>3, ConsIs
  <2>3. ToSet(Listed[block]) = ToSet(B) \cup ToSet(<<op>> \o R)
    BY <1>3, <2>2, ToSetConcat
  <2>4. s \in Seq(Ops)
    BY Sequences
  <2>5. QED
    BY <2>1, <2>2, <2>3, <2>4
<1>7. s = B \o R
  OBVIOUS
<1> HIDE DEF s
<1>8. Kept(g, Changed(Listed, Used, block, s))
  BY <1>1, <1>5, <1>6, <1>7, KeptShorter
<1>9. LeadsTo(g, op, R)
  BY <1>3, <1>5 DEF LeadsTo
<1>10. g.inner = heap.inner /\ g.id = heap.id
  BY <1>5 DEF SameNodes
<1>11. IInv' /\ Listed' = [Listed EXCEPT ![block] = s] /\ Lists!GoOn(R)
  BY <1>1, <1>6, <1>7, <1>8, <1>9, <1>10, GoneOnHere
<1>12. heap' = g
  BY <1>1 DEF GoOn
<1>13. QED
  BY <1>2, <1>7, <1>10, <1>11, <1>12 DEF AbstractlyStanding, Lists!Drop, Lists!Unmade

LEMMA ChangedTwice ==
  ASSUME NEW L, NEW U, NEW b, NEW s, NEW t
  PROVE  Changed(Changed(L, U, b, s), U, b, t) = Changed(L, U, b, t)
<1>1. \A c \in Blocks : c \in U /\ c # b => Changed(L, U, b, s)[c] = L[c]
  BY DEF Changed
<1> DEFINE M == Changed(L, U, b, s)
<1>2. \A c \in Blocks : c \in U /\ c # b => M[c] = L[c]
  BY <1>1
<1> HIDE DEF M
<1>3. Changed(M, U, b, t) = Changed(L, U, b, t)
  BY <1>2 DEF Changed
<1>4. QED
  BY <1>3 DEF M

\* rmcode_before_label: f[k] is left after k removals.
Removing(h, R, n, f) == f = [k \in 0..n |-> IF k = 0 THEN h ELSE RemoveOp(f[k - 1], R[k])]

LEMMA RemovingExists ==
  ASSUME NEW h, NEW R, NEW n \in Nat
  PROVE  \E f : Removing(h, R, n, f)
<1> DEFINE row(k, f) == IF k = 0 THEN h ELSE RemoveOp(f[k - 1], R[k])
           C == {m \in Nat : \E f : Removing(h, R, m, f)}
<1>1. 0 \in C
  <2> DEFINE f == [k \in 0..0 |-> h]
  <2>1. f = [k \in 0..0 |-> row(k, f)]
    OBVIOUS
  <2>2. Removing(h, R, 0, f)
    BY <2>1 DEF Removing
  <2>3. QED
    BY <2>2
<1>2. ASSUME NEW m \in Nat, m \in C
      PROVE  m + 1 \in C
  <2>1. PICK f : Removing(h, R, m, f)
    BY <1>2
  <2>2. f = [k \in 0..m |-> row(k, f)]
    BY <2>1 DEF Removing
  <2> DEFINE last == row(m + 1, f)
             g == [k \in 0..m + 1 |-> IF k = m + 1 THEN last ELSE f[k]]
  <2>3. last = row(m + 1, f)
    OBVIOUS
  <2> HIDE DEF row, last
  <2>4. \A k \in 0..m : f[k] = row(k, f)
    BY <2>2
  <2>5. \A k \in 0..m : g[k] = f[k] /\ f[k] = row(k, f)
    <3>1. \A k \in 0..m : k \in 0..m + 1 /\ k # m + 1
      OBVIOUS
    <3>2. QED
      BY <2>4, <3>1
  <2>6. \A k \in 0..m + 1 : k # 0 => k - 1 \in 0..m
    OBVIOUS
  <2>7. \A k \in 0..m + 1 : row(k, g) = row(k, f)
    <3> SUFFICES ASSUME NEW k \in 0..m + 1
                 PROVE  row(k, g) = row(k, f)
      OBVIOUS
    <3>1. k # 0 => g[k - 1] = f[k - 1]
      BY <2>5, <2>6
    <3> HIDE DEF g
    <3>2. QED
      BY <3>1 DEF row
  <2>8. \A k \in 0..m + 1 : g[k] = row(k, f)
    <3>1. g[m + 1] = row(m + 1, f)
      BY <2>3
    <3>2. \A k \in 0..m + 1 : k = m + 1 \/ k \in 0..m
      OBVIOUS
    <3> HIDE DEF g
    <3>3. QED
      BY <2>5, <3>1, <3>2
  <2>9. g = [k \in 0..m + 1 |-> g[k]]
    OBVIOUS
  <2> HIDE DEF g
  <2>10. g = [k \in 0..m + 1 |-> row(k, g)]
    BY <2>7, <2>8, <2>9
  <2>11. Removing(h, R, m + 1, g)
    BY <2>10 DEF Removing, row
  <2>12. QED
    BY <2>11
<1>3. Nat \subseteq C
  BY <1>1, <1>2, SetInduction
<1>4. QED
  BY <1>3

Shortened(g, h, L, U, b, s, t) ==
  /\ Rep(g, Changed(L, U, b, s \o t), U)
  /\ SameOwners(g, h) /\ SameNodes(g, h)

LEMMA RemovingIs ==
  ASSUME NEW h, NEW L, NEW U, Rep(h, L, U), NEW b \in U, NEW s \in Seq(Ops), NEW R \in Seq(Ops),
         L[b] = s \o R, NEW f, Removing(h, R, Len(R), f), NEW k \in 0..Len(R)
  PROVE  Shortened(f[k], h, L, U, b, s, SubSeq(R, k + 1, Len(R)))
<1> DEFINE n == Len(R)
           t(j) == SubSeq(R, j + 1, n)
           C == {j \in Nat : j \in 0..n => Shortened(f[j], h, L, U, b, s, t(j))}
<1>1. n \in Nat
  BY Sequences
<1>2. \A j \in 0..n : f[j] = IF j = 0 THEN h ELSE RemoveOp(f[j - 1], R[j])
  <2>1. f = [j \in 0..n |-> IF j = 0 THEN h ELSE RemoveOp(f[j - 1], R[j])]
    BY DEF Removing
  <2> HIDE DEF n
  <2>2. QED
    BY <2>1
<1>3. 0 \in C
  <2>1. f[0] = h /\ t(0) = R
    BY <1>1, <1>2, SubSeqFull
  <2>2. Changed(L, U, b, L[b]) = L
    <3>1. L \in [Blocks -> Seq(Ops)] /\ \A c \in Blocks \ U : L[c] = <<>>
      BY DEF Rep
    <3>2. QED
      BY <3>1 DEF Changed
  <2>3. Shortened(h, h, L, U, b, s, R)
    BY <2>2 DEF Shortened, SameOwners, SameNodes
  <2>4. QED
    BY <2>1, <2>3
<1>4. ASSUME NEW j \in Nat, j \in C
      PROVE  j + 1 \in C
  <2> SUFFICES ASSUME j + 1 \in 0..n
               PROVE  Shortened(f[j + 1], h, L, U, b, s, t(j + 1))
    OBVIOUS
  <2>1. j \in 0..n /\ j + 1 \in 1..n /\ n \in j + 1..n /\ (j + 1) - 1 = j /\ j + 1 # 0
    BY <1>1
  <2>2. Shortened(f[j], h, L, U, b, s, t(j))
    BY <1>4, <2>1
  <2> DEFINE r == R[j + 1]
             u == t(j + 1)
  <2>3. r \in Ops
    BY <2>1, Sequences
  <2>4. u \in Seq(Ops)
    <3>1. \A i \in (j + 1) + 1..n : R[i] \in Ops
      BY <1>1, Sequences
    <3>2. (j + 1) + 1 \in Int /\ n \in Int
      BY <1>1
    <3>3. QED
      BY <3>1, <3>2, SubSeqProperties
  <2>5. t(j) = <<r>> \o u
    BY <2>1, SubSeqRecursiveFirst
  <2>6. f[j + 1] = RemoveOp(f[j], r)
    BY <1>2, <2>1
  <2> DEFINE g == f[j]
             M == Changed(L, U, b, s \o (<<r>> \o u))
  <2>7. Shortened(g, h, L, U, b, s, <<r>> \o u)
    BY <2>2, <2>5
  <2> HIDE DEF u, r, t, g
  <2>8. Rep(g, M, U) /\ SameOwners(g, h) /\ SameNodes(g, h)
    BY <2>7 DEF Shortened
  <2>9. M[b] = s \o (<<r>> \o u)
    <3>1. b \in Blocks
      BY DEF Rep
    <3>2. QED
      BY <3>1 DEF Changed
  <2>10. Changed(M, U, b, s \o u) = Changed(L, U, b, s \o u)
    BY ChangedTwice
  <2> HIDE DEF M
  <2>11. Skipped(RemoveOp(g, r), g, M, U, b, s, u, r)
    BY <2>3, <2>4, <2>8, <2>9, RemoveOpIs
  <2>12. Shortened(RemoveOp(g, r), h, L, U, b, s, u)
    BY <2>8, <2>10, <2>11 DEF Skipped, Shortened, SameOwners, SameNodes
  <2>13. QED
    BY <2>6, <2>12 DEF u, g
<1>5. Nat \subseteq C
  <2> HIDE DEF C
  <2>1. QED
    BY <1>3, <1>4, SetInduction
<1>6. k \in Nat /\ k \in 0..n
  BY <1>1
<1>7. QED
  BY <1>5, <1>6

LeftOf(h, R) == CHOOSE f : Removing(h, R, Len(R), f)

LEMMA RemoveCodeIs ==
  ASSUME IInv, RemoveCode
  PROVE  IInv' /\ Lists!DropBehind
<1>1. Visiting /\ NoBlocks
  BY DEF RemoveCode
<1>2. PICK B, R \in Seq(Ops) : Standing(B, R) /\ AbstractlyStanding(B, R)
  BY <1>1, Visited
<1>3. /\ block \in Used /\ op \in Ops /\ Listed[block] = B \o (<<op>> \o R)
      /\ heap.next[op] = At(R, 1, NULL) /\ Chain(heap, heap.next[op]) = R
  BY <1>2 DEF Standing
<1>4. Rep(heap, Listed, Used)
  BY InvIs
<1>5. \E k \in 1..Len(R) : GoOn(LeftOf(heap, R)[k])
  <2> DEFINE behind == Chain(heap, heap.next[op])
  <2>1. \E k \in 1..Len(behind) : GoOn(LeftOf(heap, behind)[k])
    BY DEF RemoveCode, LeftOf, Removing
  <2>2. behind = R
    BY <1>3
  <2> HIDE DEF behind
  <2>3. QED
    BY <2>1, <2>2
<1>6. PICK k \in 1..Len(R) : GoOn(LeftOf(heap, R)[k])
  BY <1>5
<1>7. Len(R) \in Nat /\ k \in 0..Len(R) /\ k \in Nat /\ k + 1 \in Nat
  BY Sequences
<1>8. Removing(heap, R, Len(R), LeftOf(heap, R))
  BY <1>7, RemovingExists DEF LeftOf
<1> DEFINE A == B \o <<op>>
           T == SubSeq(R, k + 1, Len(R))
           g == LeftOf(heap, R)[k]
<1>9. A \in Seq(Ops) /\ Listed[block] = A \o R /\ <<op>> \in Seq(Ops)
  <2>1. <<op>> \in Seq(Ops)
    BY <1>3, Single
  <2>2. (B \o <<op>>) \o R = B \o (<<op>> \o R)
    BY <2>1, ConcatAssociative
  <2>3. QED
    BY <1>3, <2>1, <2>2, Sequences
<1>10. Shortened(g, heap, Listed, Used, block, A, T)
  <2> HIDE DEF A
  <2>1. QED
    BY <1>3, <1>4, <1>7, <1>8, <1>9, RemovingIs
<1>11. T \in Seq(Ops) /\ ToSet(T) \subseteq ToSet(R)
  <2>1. \A i \in k + 1..Len(R) : R[i] \in ToSet(R)
    <3>1. \A i \in 1..Len(R) : R[i] \in ToSet(R)
      BY ToSetIs
    <3>2. QED
      BY <1>7, <3>1
  <2>2. T \in Seq(ToSet(R))
    <3>1. k + 1 \in Int /\ Len(R) \in Int
      BY <1>7
    <3>2. QED
      BY <2>1, <3>1, SubSeqProperties
  <2> HIDE DEF T
  <2>3. ToSet(R) \subseteq Ops /\ ToSet(T) \subseteq ToSet(R)
    BY <2>2, ToSetIs
  <2>4. T \in Seq(Ops)
    <3>1. \A i \in 1..Len(T) : T[i] \in Ops
      BY <2>2, <2>3, ElementOfSeq
    <3>2. QED
      BY <2>2, <2>3, SeqMonotonic
  <2>5. QED
    BY <2>3, <2>4
<1> HIDE DEF A, T, g
<1> DEFINE s == A \o T
<1>12. s \in Seq(Ops) /\ ToSet(s) \subseteq ToSet(Listed[block])
  <2>1. ToSet(s) = ToSet(A) \cup ToSet(T)
    BY <1>9, <1>11, ToSetConcat
  <2>2. ToSet(Listed[block]) = ToSet(A) \cup ToSet(R)
    BY <1>9, ToSetConcat
  <2>3. s \in Seq(Ops)
    BY <1>9, <1>11, Sequences
  <2>4. QED
    BY <1>11, <2>1, <2>2, <2>3
<1>13. /\ Rep(g, Changed(Listed, Used, block, s), Used)
       /\ SameOwners(g, heap) /\ SameNodes(g, heap)
  BY <1>10 DEF Shortened
<1>14. s = A \o T
  OBVIOUS
<1>15. s = B \o (<<op>> \o T)
  BY SMTT(60), <1>9, <1>11, <1>14, ConcatAssociative DEF A
<1> HIDE DEF s
<1>16. Kept(g, Changed(Listed, Used, block, s))
  BY <1>1, <1>12, <1>13, KeptShorter
<1>17. LeadsTo(g, op, T)
  <2> DEFINE M == Changed(Listed, Used, block, s)
  <2>1. Rep(g, M, Used)
    BY <1>13
  <2>2. M[block] = B \o (<<op>> \o T)
    BY <1>3, <1>15 DEF Changed, Used
  <2> HIDE DEF M
  <2>3. QED
    BY <1>3, <1>11, <2>1, <2>2, NextInList
<1>18. g.inner = heap.inner /\ g.id = heap.id
  BY <1>13 DEF SameNodes
<1>19. GoOn(g)
  BY <1>6 DEF g
<1>20. IInv' /\ Listed' = [Listed EXCEPT ![block] = s] /\ Lists!GoOn(T)
  BY <1>1, <1>9, <1>11, <1>12, <1>14, <1>16, <1>17, <1>18, <1>19, GoneOnHere
<1>21. heap' = g
  BY <1>19 DEF GoOn
<1>22. /\ Lists!Visiting /\ Lists!Block = block
       /\ Lists!Here = op /\ Lists!Before = B /\ Lists!Behind = R
  BY <1>2 DEF AbstractlyStanding
<1>23. Append(B, op) = A
  BY <1>3, AppendIsConcat DEF A
<1>24. \E i \in 1..Len(R) : Lists!GoOn(SubSeq(R, i + 1, Len(R)))
          /\ Listed' = [Listed EXCEPT ![block] = Append(B, op) \o SubSeq(R, i + 1, Len(R))]
  BY <1>14, <1>20, <1>23 DEF T
<1>25. Lists!Unmade
  BY <1>18, <1>21 DEF Lists!Unmade
<1>26. QED
  BY <1>20, <1>22, <1>24, <1>25 DEF Lists!DropBehind

--------------------------------------------------------------------------------
(***************************************************************************)
(* The passes that put one operation into a block.                          *)
(***************************************************************************)
LEMMA LowestIs ==
  ASSUME NEW S \in SUBSET Nat, S # {}
  PROVE  Lowest(S) \in S
<1>1. \E x \in S : \A y \in S : x <= y
  BY LeastNat
<1>2. QED
  BY <1>1 DEF Lowest

LEMMA NewOpIs ==
  ASSUME IInv, FreshOps # {}
  PROVE  NewOp \in Ops /\ NewOp \in FreshOps /\ \A c \in Used : NewOp \notin ToSet(Listed[c])
<1>1. FreshOps \in SUBSET Nat
  BY BuilderAssumption DEF FreshOps
<1>2. NewOp \in FreshOps
  BY <1>1, LowestIs DEF NewOp
<1>3. heap.id[NewOp] = "none" /\ NewOp \in Ops
  BY <1>2 DEF FreshOps
<1>4. Kinded(heap, Listed, Used)
  BY InvIs
<1>5. QED
  BY <1>2, <1>3, <1>4 DEF Kinded

LEMMA EndIs ==
  ASSUME NEW s \in Seq(Ops), NEW o \in Ops
  PROVE  EndOf(s \o <<o>>) = o /\ s \o <<o>> \in Seq(Ops)
<1>1. <<o>> \in Seq(Ops) /\ Len(<<o>>) = 1 /\ <<o>>[1] = o
  BY Single
<1> DEFINE u == s \o <<o>>
<1>2. /\ Len(s) \in Nat /\ u \in Seq(Ops) /\ Len(u) = Len(s) + Len(<<o>>)
      /\ \A i \in 1..Len(<<o>>) : u[Len(s) + i] = <<o>>[i]
  BY <1>1, Sequences
<1> HIDE DEF u
<1>3. Len(u) = Len(s) + 1 /\ u[Len(s) + 1] = o
  BY <1>1, <1>2
<1>4. u # <<>>
  BY <1>2, <1>3, EmptySeq
<1>5. EndOf(u) = o
  BY <1>3, <1>4 DEF EndOf
<1>6. QED
  BY <1>2, <1>5 DEF u

LEMMA Pair ==
  ASSUME NEW p \in Ops, NEW q \in Ops
  PROVE  <<p, q>> = <<p>> \o <<q>>
<1> DEFINE P == <<p>>
           Q == <<q>>
           u == P \o Q
           v == <<p, q>>
<1>1. P \in Seq(Ops) /\ Q \in Seq(Ops) /\ Len(P) = 1 /\ Len(Q) = 1 /\ P[1] = p /\ Q[1] = q
  BY Single
<1> HIDE DEF P, Q
<1>2. /\ u \in Seq(Ops) /\ Len(u) = Len(P) + Len(Q)
      /\ \A i \in 1..Len(P) : u[i] = P[i]
      /\ \A i \in 1..Len(Q) : u[Len(P) + i] = Q[i]
  BY <1>1, Sequences
<1> HIDE DEF u
<1>3. Len(u) = 2 /\ u[1] = p /\ u[1 + 1] = q
  BY <1>1, <1>2
<1>4. v \in Seq(Ops) /\ Len(v) = 2 /\ v[1] = p /\ v[2] = q
  OBVIOUS
<1> HIDE DEF v
<1>5. \A i \in 1..Len(u) : u[i] = v[i]
  BY <1>3, <1>4
<1>6. u = v
  BY <1>2, <1>3, <1>4, <1>5, SeqEqual
<1>7. QED
  BY <1>6 DEF u, v, P, Q

LEMMA Assoc ==
  ASSUME NEW a \in Seq(Ops), NEW b \in Seq(Ops), NEW c \in Seq(Ops)
  PROVE  (a \o b) \o c = a \o (b \o c)
BY ConcatAssociative

Grouped(B, p, q, R) ==
  LET s == B \o (<<p>> \o (<<q>> \o R)) IN
  /\ s \in Seq(Ops) /\ B \o <<p>> \in Seq(Ops) /\ (B \o <<p>>) \o <<q>> \in Seq(Ops) /\ <<q>> \o R \in Seq(Ops)
  /\ s = (B \o <<p>>) \o (<<q>> \o R) /\ s = ((B \o <<p>>) \o <<q>>) \o R /\ s = (B \o <<p, q>>) \o R
  /\ ToSet(s) = ToSet(B) \cup {p, q} \cup ToSet(R)
  /\ EndOf(B \o <<p>>) = p

LEMMA Grouping ==
  ASSUME NEW B \in Seq(Ops), NEW R \in Seq(Ops), NEW p \in Ops, NEW q \in Ops
  PROVE  Grouped(B, p, q, R)
<1> DEFINE P == <<p>>
           Q == <<q>>
           v == Q \o R
           u == P \o v
<1>1. P \in Seq(Ops) /\ Q \in Seq(Ops)
  BY Single
<1>2. v \in Seq(Ops) /\ ToSet(v) = {q} \cup ToSet(R)
  BY ConsIs
<1>3. <<p, q>> = P \o Q
  BY Pair
<1>4. EndOf(B \o P) = p
  BY EndIs
<1> HIDE DEF v
<1>5. u \in Seq(Ops) /\ ToSet(u) = {p} \cup ToSet(v)
  BY <1>2, ConsIs
<1> HIDE DEF u
<1>6. B \o u \in Seq(Ops) /\ ToSet(B \o u) = ToSet(B) \cup ToSet(u)
  BY <1>5, Sequences, ToSetConcat
<1>7. B \o P \in Seq(Ops)
  BY <1>1, Sequences
<1> HIDE DEF P, Q
<1>8. (B \o P) \o Q \in Seq(Ops)
  BY <1>1, <1>7, Sequences
<1>9. B \o u = (B \o P) \o v
  <2>1. (B \o P) \o v = B \o (P \o v)
    BY SMTT(60), <1>1, <1>2, Assoc
  <2>2. QED
    BY <2>1 DEF u
<1>10. (B \o P) \o v = ((B \o P) \o Q) \o R
  <2> DEFINE A == B \o P
  <2>1. A \in Seq(Ops)
    BY <1>7
  <2> HIDE DEF A
  <2>2. A \o (Q \o R) = (A \o Q) \o R
    BY <1>1, <2>1, Assoc
  <2>3. QED
    BY <2>2 DEF A, v
<1>11. (B \o P) \o Q = B \o (P \o Q)
  BY <1>1, Assoc
<1>12. B \o u = (B \o <<p, q>>) \o R
  BY <1>3, <1>9, <1>10, <1>11
<1>13. ToSet(B \o u) = ToSet(B) \cup {p, q} \cup ToSet(R)
  BY <1>2, <1>5, <1>6
<1>14. QED
  BY <1>2, <1>4, <1>6, <1>7, <1>8, <1>9, <1>10, <1>12, <1>13 DEF Grouped, u, v, P, Q

\* An operation came to the block.
LEMMA KeptLonger ==
  ASSUME IInv, Visiting, FreshOps # {}, NEW g, NEW s \in Seq(Ops), ToSet(s) \subseteq ToSet(Listed[block]) \cup {NewOp},
         Rep(g, Changed(Listed, Used, block, s), Used), Created(g, heap, block, NewOp, "plain")
  PROVE  Kept(g, Changed(Listed, Used, block, s))
<1> DEFINE M == Changed(Listed, Used, block, s)
<1>1. PICK B, R \in Seq(Ops) : Standing(B, R)
  BY Visited
<1>2. block \in Used /\ op \in ToSet(Listed[block])
  BY <1>1 DEF Standing
<1>3. /\ Rep(heap, Listed, Used) /\ Used \subseteq Blocks /\ heap \in Heap /\ Listed \in [Blocks -> Seq(Ops)]
      /\ Held(heap, Listed, Used) /\ Kinded(heap, Listed, Used) /\ Unused(heap, Listed, Used, fresh)
  BY InvIs
<1>4. OneChanged(M, Listed, block, s)
  BY <1>2, <1>3, ChangedIs
<1>5. Rep(g, M, Used) /\ M[block] = s /\ \A c \in Blocks : c # block => M[c] = Listed[c]
  BY <1>4 DEF OneChanged
<1> HIDE DEF M
<1>6. \A c \in Used : ToSet(M[c]) \subseteq ToSet(Listed[c]) \cup {NewOp}
  BY <1>3, <1>5
<1>7. M \in [Blocks -> Seq(Ops)] /\ g \in Heap
  BY <1>5 DEF Rep
<1>8. NewOp \in Ops
  BY NewOpIs
<1>9. Listed[block] # <<>>
  BY <1>2, Empty
<1>10. WellHeld(g, M, Used, fresh)
  <2>1. WellHeld(heap, Listed, Used, fresh)
    BY <1>3 DEF WellHeld
  <2>2. /\ block \in Used /\ heap \in Heap /\ g \in Heap /\ NewOp \in Ops /\ Used \subseteq Blocks
        /\ Listed \in [Blocks -> Seq(Ops)] /\ M \in [Blocks -> Seq(Ops)]
    BY <1>2, <1>3, <1>7, <1>8
  <2>3. \A c \in Blocks : c # block => M[c] = Listed[c]
    BY <1>5
  <2>4. QED
    <3>1. GrownBy(g, heap, M, Listed, Used, block, NewOp)
      BY <1>6, <1>9, <2>2, <2>3 DEF GrownBy
    <3>2. QED
      BY <2>1, <3>1, Grown
<1>11. Kept(g, M)
  BY <1>5, <1>10 DEF Kept
<1>12. QED
  BY <1>11 DEF M

Made(g, h, o, k) == g.id = [h.id EXCEPT ![o] = k] /\ g.inner = [h.inner EXCEPT ![o] = <<>>]

LEMMA MadeIs ==
  ASSUME NEW h \in Heap, NEW g \in Heap, NEW b, NEW o \in Ops, NEW k, Created(g, h, b, o, k)
  PROVE  Made(g, h, o, k)
<1>1. h.id \in [Ops -> Kinds] /\ g.id \in [Ops -> Kinds] /\ h.inner \in [Ops -> Seq(Blocks)] /\ g.inner \in [Ops -> Seq(Blocks)]
  BY DEF Heap
<1>2. /\ g.id[o] = k /\ \A p \in Ops : p # o => g.id[p] = h.id[p]
      /\ g.inner[o] = <<>> /\ \A p \in Ops : p # o => g.inner[p] = h.inner[p]
  BY DEF Created
<1>3. g.id = [h.id EXCEPT ![o] = k]
  BY <1>1, <1>2
<1>4. g.inner = [h.inner EXCEPT ![o] = <<>>]
  BY <1>1, <1>2
<1>5. QED
  BY <1>3, <1>4 DEF Made

LEMMA StandingAmong ==
  ASSUME NEW B \in Seq(Ops), NEW R \in Seq(Ops), Standing(B, R)
  PROVE  ToSet(Listed[block]) = ToSet(B) \cup {op} \cup ToSet(R)
<1> DEFINE v == <<op>> \o R
<1>1. op \in Ops /\ Listed[block] = B \o v
  BY DEF Standing
<1>2. v \in Seq(Ops) /\ ToSet(v) = {op} \cup ToSet(R)
  BY <1>1, ConsIs
<1> HIDE DEF v
<1>3. ToSet(B \o v) = ToSet(B) \cup ToSet(v)
  BY <1>2, ToSetConcat
<1>4. QED
  BY <1>1, <1>2, <1>3

Put(rest, s) ==
  /\ Listed' = [Listed EXCEPT ![block] = s]
  /\ Lists!GoOn(rest) /\ Lists!Make(NewOp, "plain", <<>>) /\ NewOp \in Lists!FreshOps

LEMMA PutIs ==
  ASSUME IInv, Visiting, NoBlocks, FreshOps # {}, NEW g, NEW s \in Seq(Ops), NEW front \in Seq(Ops), NEW rest \in Seq(Ops),
         s = front \o rest, ToSet(s) \subseteq ToSet(Listed[block]) \cup {NewOp},
         Rep(g, Changed(Listed, Used, block, s), Used), Created(g, heap, block, NewOp, "plain"),
         LeadsTo(g, op, rest), GoOn(g)
  PROVE  IInv' /\ Put(rest, s)
<1>1. Kept(g, Changed(Listed, Used, block, s))
  BY KeptLonger
<1>2. NewOp \in Ops /\ NewOp \in FreshOps
  BY NewOpIs
<1>3. \A p \in Ops : p # op /\ p \notin FreshOps => g.inner[p] = heap.inner[p]
  BY <1>2 DEF Created
<1>4. IInv' /\ Listed' = [Listed EXCEPT ![block] = s] /\ Lists!GoOn(rest)
  BY <1>1, <1>3, GoneOnHere
<1>5. heap' = g
  BY DEF GoOn
<1>6. heap \in Heap /\ g \in Heap
  <2>1. g \in Heap
    BY DEF Rep
  <2>2. QED
    BY <2>1, InvIs
<1>7. Made(g, heap, NewOp, "plain")
  BY <1>2, <1>6, MadeIs
<1>8. Lists!Make(NewOp, "plain", <<>>)
  BY <1>5, <1>7 DEF Made, Lists!Make
<1>9. NewOp \in Lists!FreshOps
  BY <1>2 DEF FreshOps, Lists!FreshOps
<1>10. QED
  BY <1>4, <1>8, <1>9 DEF Put

LEMMA InsertBehindIs ==
  ASSUME IInv, InsertBehind
  PROVE  IInv' /\ Lists!PutBehind
<1> DEFINE o == NewOp
           g == InsertOpAfter(heap, block, op, o, "plain")
<1>1. Visiting /\ FreshOps # {} /\ GoOn(g) /\ NoBlocks
  BY DEF InsertBehind
<1>2. PICK B, R \in Seq(Ops) : Standing(B, R) /\ AbstractlyStanding(B, R)
  BY <1>1, Visited
<1>3. /\ block \in Used /\ op \in Ops /\ Listed[block] = B \o (<<op>> \o R) /\ Rep(heap, Listed, Used)
  BY <1>2, InvIs DEF Standing
<1>4. o \in Ops /\ o \in FreshOps /\ \A c \in Used : o \notin ToSet(Listed[c])
  BY <1>1, NewOpIs
<1> HIDE DEF o
<1> DEFINE A == B \o <<op>>
           rest == <<o>> \o R
           s == B \o (<<op>> \o rest)
<1>5. Grouped(B, op, o, R)
  BY <1>3, <1>4, Grouping
<1>6. /\ s \in Seq(Ops) /\ A \in Seq(Ops) /\ rest \in Seq(Ops)
      /\ s = A \o rest /\ s = (B \o <<op, o>>) \o R
      /\ ToSet(s) = ToSet(B) \cup {op, o} \cup ToSet(R) /\ EndOf(A) = op
  BY <1>5 DEF Grouped
<1>7. Listed[block] = A \o R
  <2>1. <<op>> \in Seq(Ops)
    BY <1>3, Single
  <2>2. QED
    BY <1>3, <2>1, Assoc
<1>8. ToSet(Listed[block]) = ToSet(B) \cup {op} \cup ToSet(R)
  BY <1>2, StandingAmong
<1>9. s = B \o (<<op>> \o rest)
  OBVIOUS
<1> HIDE DEF A, s
<1>10. Inserted(g, heap, Listed, Used, block, A, R, o, "plain")
  <2>1. "plain" \in Kinds
    BY DEF Kinds
  <2>2. Inserted(InsertOpAfter(heap, block, EndOf(A), o, "plain"), heap, Listed, Used, block, A, R, o, "plain")
    BY <1>3, <1>4, <1>6, <1>7, <2>1, InsertOpAfterIs
  <2>3. QED
    BY <1>6, <2>2
<1> HIDE DEF g
<1>11. Rep(g, Changed(Listed, Used, block, s), Used) /\ Created(g, heap, block, o, "plain")
  BY <1>6, <1>10 DEF Inserted
<1> HIDE DEF rest
<1>12. LeadsTo(g, op, rest)
  <2> DEFINE M == Changed(Listed, Used, block, s)
  <2>1. Rep(g, M, Used)
    BY <1>11
  <2>2. M[block] = B \o (<<op>> \o rest)
    BY <1>3, <1>9 DEF Changed, Used
  <2> HIDE DEF M
  <2>3. QED
    BY <1>3, <1>6, <2>1, <2>2, NextInList
<1>13. ToSet(s) \subseteq ToSet(Listed[block]) \cup {o}
  BY <1>6, <1>8
<1>14. IInv' /\ Put(rest, s)
  BY <1>1, <1>6, <1>11, <1>12, <1>13, PutIs DEF o
<1>15. QED
  BY <1>2, <1>6, <1>14 DEF Put, AbstractlyStanding, Lists!PutBehind, rest, o

LEMMA InsertBeforeIs ==
  ASSUME IInv, InsertBefore
  PROVE  IInv' /\ Lists!PutBefore
<1> DEFINE o == NewOp
           g == InsertOpAfter(heap, block, Predecessor(heap, op), o, "plain")
<1>1. Visiting /\ FreshOps # {} /\ GoOn(g) /\ NoBlocks
  BY DEF InsertBefore
<1>2. PICK B, R \in Seq(Ops) : Standing(B, R) /\ AbstractlyStanding(B, R)
  BY <1>1, Visited
<1>3. /\ block \in Used /\ op \in Ops /\ Listed[block] = B \o (<<op>> \o R) /\ Rep(heap, Listed, Used)
      /\ Predecessor(heap, op) = EndOf(B)
  BY <1>2, InvIs DEF Standing
<1>4. o \in Ops /\ o \in FreshOps /\ \A c \in Used : o \notin ToSet(Listed[c])
  BY <1>1, NewOpIs
<1> HIDE DEF o
<1> DEFINE A == (B \o <<o>>) \o <<op>>
           s == B \o (<<o>> \o (<<op>> \o R))
<1>5. Grouped(B, o, op, R)
  BY <1>3, <1>4, Grouping
<1>6. /\ s \in Seq(Ops) /\ A \in Seq(Ops) /\ B \o <<o>> \in Seq(Ops) /\ <<op>> \o R \in Seq(Ops)
      /\ s = A \o R /\ s = (B \o <<o, op>>) \o R /\ s = (B \o <<o>>) \o (<<op>> \o R)
      /\ ToSet(s) = ToSet(B) \cup {op, o} \cup ToSet(R)
  BY <1>5 DEF Grouped
<1>7. ToSet(Listed[block]) = ToSet(B) \cup {op} \cup ToSet(R)
  BY <1>2, StandingAmong
<1>8. Inserted(g, heap, Listed, Used, block, B, <<op>> \o R, o, "plain")
  <2>1. "plain" \in Kinds
    BY DEF Kinds
  <2>2. Inserted(InsertOpAfter(heap, block, EndOf(B), o, "plain"), heap, Listed, Used, block, B, <<op>> \o R, o, "plain")
    BY <1>3, <1>4, <1>6, <2>1, InsertOpAfterIs
  <2>3. QED
    BY <1>3, <2>2
<1> HIDE DEF g
<1>9. Rep(g, Changed(Listed, Used, block, s), Used) /\ Created(g, heap, block, o, "plain")
  BY <1>8 DEF Inserted
<1> HIDE DEF A, s
<1>10. LeadsTo(g, op, R)
  <2> DEFINE M == Changed(Listed, Used, block, s)
             C == B \o <<o>>
  <2>1. Rep(g, M, Used)
    BY <1>9
  <2>2. M[block] = C \o (<<op>> \o R) /\ C \in Seq(Ops)
    BY <1>3, <1>6 DEF Changed, Used
  <2> HIDE DEF M, C
  <2>3. QED
    BY <1>3, <2>1, <2>2, NextInList
<1>11. ToSet(s) \subseteq ToSet(Listed[block]) \cup {o}
  BY <1>6, <1>7
<1>12. IInv' /\ Put(R, s)
  BY <1>1, <1>6, <1>9, <1>10, <1>11, PutIs DEF o
<1>13. QED
  BY <1>2, <1>6, <1>12 DEF Put, AbstractlyStanding, Lists!PutBefore, o

LEMMA JoinComputeIs ==
  ASSUME IInv, JoinCompute
  PROVE  IInv' /\ Lists!Exchange
<1> DEFINE o == NewOp
           g == InsertOpAfter(heap, block, Predecessor(heap, op), o, "plain")
           k == WithNext(g, o, heap.next[op])
<1>1. Visiting /\ FreshOps # {} /\ GoOn(k) /\ NoBlocks
  BY DEF JoinCompute, WithNext
<1>2. PICK B, R \in Seq(Ops) : Standing(B, R) /\ AbstractlyStanding(B, R)
  BY <1>1, Visited
<1>3. /\ block \in Used /\ op \in Ops /\ Listed[block] = B \o (<<op>> \o R) /\ Rep(heap, Listed, Used)
      /\ Predecessor(heap, op) = EndOf(B) /\ heap.next[op] = At(R, 1, NULL)
  BY <1>2, InvIs DEF Standing
<1>4. o \in Ops /\ o \in FreshOps /\ \A c \in Used : o \notin ToSet(Listed[c])
  BY <1>1, NewOpIs
<1> HIDE DEF o
<1> DEFINE A == B \o <<o>>
           s == B \o (<<o>> \o (<<op>> \o R))
<1>5. Grouped(B, o, op, R)
  BY <1>3, <1>4, Grouping
<1>6. /\ s \in Seq(Ops) /\ A \in Seq(Ops) /\ <<op>> \o R \in Seq(Ops)
      /\ s = A \o (<<op>> \o R) /\ EndOf(A) = o
      /\ ToSet(s) = ToSet(B) \cup {op, o} \cup ToSet(R)
  BY <1>5 DEF Grouped
<1>7. ToSet(Listed[block]) = ToSet(B) \cup {op} \cup ToSet(R)
  BY <1>2, StandingAmong
<1>8. Inserted(g, heap, Listed, Used, block, B, <<op>> \o R, o, "plain")
  <2>1. "plain" \in Kinds
    BY DEF Kinds
  <2>2. Inserted(InsertOpAfter(heap, block, EndOf(B), o, "plain"), heap, Listed, Used, block, B, <<op>> \o R, o, "plain")
    BY <1>3, <1>4, <1>6, <2>1, InsertOpAfterIs
  <2>3. QED
    BY <1>3, <2>2
<1> HIDE DEF g
<1> DEFINE M == Changed(Listed, Used, block, s)
           N == Changed(Listed, Used, block, A \o R)
<1>9. Rep(g, M, Used) /\ Created(g, heap, block, o, "plain")
  BY <1>8 DEF Inserted
<1> HIDE DEF s
<1>10. M[block] = A \o (<<op>> \o R)
  BY <1>3, <1>6 DEF Changed, Used
<1>11. N = Changed(M, Used, block, A \o R)
  BY ChangedTwice
<1> HIDE DEF M, N, A
<1>12. LeadsTo(g, op, R)
  BY <1>3, <1>6, <1>9, <1>10, NextInList
<1>13. k = Link(g, block, EndOf(A), g.next[op])
  <2>1. o # NULL
    BY <1>4, BuilderAssumption
  <2>2. heap.next[op] = g.next[op]
    BY <1>3, <1>12 DEF LeadsTo
  <2>3. k = WithNext(g, o, g.next[op])
    BY <2>2
  <2>4. QED
    BY <1>6, <2>1, <2>3 DEF Link, WithNext
<1> HIDE DEF k
<1>14. Skipped(k, g, M, Used, block, A, R, op)
  <2>1. Skipped(Link(g, block, EndOf(A), g.next[op]), g, M, Used, block, A, R, op)
    BY <1>3, <1>6, <1>9, <1>10, SkipIs
  <2>2. QED
    BY <1>13, <2>1
<1>15. Rep(k, N, Used) /\ SameOwners(k, g) /\ SameNodes(k, g) /\ k.next[op] = g.next[op]
  BY <1>11, <1>14 DEF Skipped
<1>16. Created(k, heap, block, o, "plain")
  BY <1>9, <1>15 DEF Created, SameOwners, SameNodes
<1>17. LeadsTo(k, op, R)
  BY <1>12, <1>15 DEF LeadsTo
<1> DEFINE u == A \o R
<1>18. u \in Seq(Ops) /\ ToSet(u) \subseteq ToSet(Listed[block]) \cup {o}
  <2>1. ToSet(u) = ToSet(A) \cup ToSet(R) /\ u \in Seq(Ops)
    BY <1>6, ToSetConcat, Sequences
  <2>2. ToSet(A) = ToSet(B) \cup {o}
    <3>1. <<o>> \in Seq(Ops) /\ ToSet(<<o>>) = {o}
      BY <1>4, Single
    <3>2. QED
      BY <3>1, ToSetConcat DEF A
  <2>3. QED
    BY <1>7, <2>1, <2>2
<1>19. Rep(k, Changed(Listed, Used, block, u), Used) /\ u = A \o R
  BY <1>15 DEF N
<1> HIDE DEF u
<1>20. IInv' /\ Put(R, u)
  BY <1>1, <1>6, <1>16, <1>17, <1>18, <1>19, PutIs DEF o
<1>21. Append(B, o) = A
  BY <1>4, AppendIsConcat DEF A
<1>22. QED
  BY <1>2, <1>19, <1>20, <1>21 DEF Put, AbstractlyStanding, Lists!Exchange, o

--------------------------------------------------------------------------------
(***************************************************************************)
(* Who holds what, from one call of the builder to the next.                *)
(***************************************************************************)
\* All but the operations X know where the blocks are that they hold.
Stage(h, L, U, X) == Rep(h, L, U) /\ HeldBut(h, L, U, X)
Unheld(h, L, U, X, b) == \A c \in U : \A o \in ToSet(L[c]) \ X : b \notin ToSet(h.inner[o])

LEMMA StageIs ==
  ASSUME NEW h, NEW L, NEW U, NEW X, Stage(h, L, U, X)
  PROVE  /\ Rep(h, L, U) /\ h \in Heap /\ U \subseteq Blocks /\ h.inner \in [Ops -> Seq(Blocks)]
         /\ L \in [Blocks -> Seq(Ops)]
         /\ Unshared(h.inner) /\ NotHeld(h.inner, Root)
         /\ \A b \in U : \A o \in ToSet(L[b]) \ X : \A c \in ToSet(h.inner[o]) : c \in U /\ h.bparent[c] = b
         /\ \A b \in U : \A o \in ToSet(L[b]) : o \in Ops
<1>1. Rep(h, L, U)
  BY DEF Stage
<1>2. h \in Heap /\ U \subseteq Blocks /\ h.inner \in [Ops -> Seq(Blocks)]
  BY <1>1, RepHeap
<1>3. \A b \in U : \A o \in ToSet(L[b]) : o \in Ops
  BY <1>1, RepList
<1>4. L \in [Blocks -> Seq(Ops)]
  BY <1>1 DEF Rep
<1>5. QED
  BY <1>1, <1>2, <1>3, <1>4 DEF Stage, HeldBut

LEMMA HandOverStage ==
  ASSUME NEW h, NEW L, NEW U, NEW X, Stage(h, L, U, X), NEW dest \in U, NEW src \in U, dest # src,
         NEW g, NEW list \in Seq(Ops), HandedOver(g, h, L, U, dest, src, list),
         ToSet(list) \subseteq ToSet(L[dest]) \cup ToSet(L[src]), Unheld(h, L, U, X, src)
  PROVE  Stage(g, Changed(L, U \ {src}, dest, list), U \ {src}, X)
<1> DEFINE V == U \ {src}
           M == Changed(L, V, dest, list)
<1>1. /\ Rep(h, L, U) /\ U \subseteq Blocks /\ h.inner \in [Ops -> Seq(Blocks)]
      /\ Unshared(h.inner) /\ NotHeld(h.inner, Root)
      /\ \A b \in U : \A o \in ToSet(L[b]) \ X : \A c \in ToSet(h.inner[o]) : c \in U /\ h.bparent[c] = b
      /\ \A b \in U : \A o \in ToSet(L[b]) : o \in Ops
  BY StageIs
<1>2. /\ Rep(g, M, V) /\ g.inner = h.inner
      /\ \A b \in Blocks : b \in InnerBlocks(h, ToSet(L[src])) => g.bparent[b] = dest
      /\ \A b \in Blocks : b \notin InnerBlocks(h, ToSet(L[src])) => g.bparent[b] = h.bparent[b]
  BY DEF HandedOver, SameNodes
<1>3. M[dest] = list /\ \A c \in V : c # dest => M[c] = L[c]
  BY <1>1 DEF Changed
<1> HIDE DEF M
<1>4. ASSUME NEW c \in V, NEW o \in ToSet(M[c]) \ X, NEW d \in ToSet(h.inner[o])
      PROVE  d \in V /\ g.bparent[d] = c
  <2>1. PICK b \in U : o \in ToSet(L[b]) /\ (b = c \/ (b = src /\ c = dest))
    BY <1>3
  <2>2. d \in U /\ h.bparent[d] = b /\ o \in Ops /\ d \in Blocks
    BY <1>1, <2>1
  <2>3. d # src
    BY <2>1 DEF Unheld
  <2>4. CASE b = src
    <3>1. d \in InnerBlocks(h, ToSet(L[src]))
      BY <2>1, <2>4 DEF InnerBlocks
    <3>2. QED
      BY <1>2, <2>1, <2>2, <2>3, <2>4, <3>1
  <2>5. CASE b # src
    <3>1. b = c
      BY <2>1, <2>5
    <3>2. ASSUME d \in InnerBlocks(h, ToSet(L[src]))
          PROVE  FALSE
      <4>1. PICK p \in ToSet(L[src]) : d \in ToSet(h.inner[p])
        BY <3>2 DEF InnerBlocks
      <4>2. p \in Ops
        BY <1>1
      <4>3. p = o
        BY <1>1, <2>2, <4>1, <4>2, HeldOnce
      <4>4. ToSet(L[b]) \cap ToSet(L[src]) = {}
        BY <1>1, <2>5, RepApart
      <4>5. QED
        BY <2>1, <4>3, <4>4
    <3>3. QED
      BY <1>2, <2>2, <2>3, <3>1, <3>2
  <2>6. QED
    BY <2>4, <2>5
<1>5. HeldBut(g, M, V, X)
  BY <1>1, <1>2, <1>4 DEF HeldBut
<1>6. Stage(g, M, V, X)
  BY <1>2, <1>5 DEF Stage
<1>7. QED
  BY <1>6 DEF M

LEMMA InitBlockStage ==
  ASSUME NEW h, NEW L, NEW U, NEW X, Stage(h, L, U, X), NEW b \in U, L[b] = <<>>, NotHeld(h.inner, b),
         NEW to \in Blocks
  PROVE  Stage(InitBlock(h, b, to), L, U, X)
<1> DEFINE g == InitBlock(h, b, to)
<1>1. /\ Rep(h, L, U) /\ h \in Heap /\ U \subseteq Blocks /\ Unshared(h.inner) /\ NotHeld(h.inner, Root)
      /\ \A c \in U : \A o \in ToSet(L[c]) \ X : \A d \in ToSet(h.inner[o]) : d \in U /\ h.bparent[d] = c
      /\ \A c \in U : \A o \in ToSet(L[c]) : o \in Ops
  BY StageIs
<1>2. Rep(g, L, U)
  BY <1>1, InitBlockKeeps
<1>3. SameNodes(g, h) /\ \A c \in Blocks : c # b => g.bparent[c] = h.bparent[c]
  BY <1>1, InitBlockIs
<1> HIDE DEF g
<1>4. g.inner = h.inner
  BY <1>3 DEF SameNodes
<1>5. HeldBut(g, L, U, X)
  <2> SUFFICES ASSUME NEW c \in U, NEW o \in ToSet(L[c]) \ X, NEW d \in ToSet(h.inner[o])
               PROVE  d \in U /\ g.bparent[d] = c
    BY <1>1, <1>4 DEF HeldBut
  <2>1. d \in U /\ h.bparent[d] = c /\ o \in Ops
    BY <1>1
  <2>2. d # b
    BY <2>1 DEF NotHeld
  <2>3. QED
    BY <1>1, <1>3, <2>1, <2>2
<1>6. Stage(g, L, U, X)
  BY <1>2, <1>5 DEF Stage
<1>7. QED
  BY <1>6 DEF g

LEMMA WithBparentStage ==
  ASSUME NEW h, NEW L, NEW U, NEW X, Stage(h, L, U, X), NEW b \in U, NotHeld(h.inner, b), NEW to \in Blocks
  PROVE  Stage(WithBparent(h, b, to), L, U, X)
<1> DEFINE g == WithBparent(h, b, to)
<1>1. /\ Rep(h, L, U) /\ h \in Heap /\ U \subseteq Blocks /\ Unshared(h.inner) /\ NotHeld(h.inner, Root)
      /\ \A c \in U : \A o \in ToSet(L[c]) \ X : \A d \in ToSet(h.inner[o]) : d \in U /\ h.bparent[d] = c
      /\ \A c \in U : \A o \in ToSet(L[c]) : o \in Ops
  BY StageIs
<1>2. /\ g \in Heap /\ SameLinks(g, h) /\ g.parent = h.parent /\ SameNodes(g, h)
      /\ \A c \in Blocks : c # b => g.bparent[c] = h.bparent[c]
  BY <1>1, WithBparentIs
<1> HIDE DEF g
<1>3. Rep(g, L, U)
  BY <1>1, <1>2, RepSame
<1>4. g.inner = h.inner
  BY <1>2 DEF SameNodes
<1>5. HeldBut(g, L, U, X)
  <2> SUFFICES ASSUME NEW c \in U, NEW o \in ToSet(L[c]) \ X, NEW d \in ToSet(h.inner[o])
               PROVE  d \in U /\ g.bparent[d] = c
    BY <1>1, <1>4 DEF HeldBut
  <2>1. d \in U /\ h.bparent[d] = c /\ o \in Ops
    BY <1>1
  <2>2. d # b
    BY <2>1 DEF NotHeld
  <2>3. QED
    BY <1>1, <1>2, <2>1, <2>2
<1>6. Stage(g, L, U, X)
  BY <1>3, <1>5 DEF Stage
<1>7. QED
  BY <1>6 DEF g

InnerSet(g, h, o, s) ==
  /\ g \in Heap /\ SameLinks(g, h) /\ SameOwners(g, h) /\ g.id = h.id
  /\ g.inner[o] = s /\ \A p \in Ops : p # o => g.inner[p] = h.inner[p]

LEMMA InnerSetIs ==
  ASSUME NEW h \in Heap, NEW o \in Ops, NEW s \in Seq(Blocks)
  PROVE  InnerSet(WithInner(h, o, s), h, o, s)
BY WithInnerIs DEF InnerSet

LEMMA EmptiedIs ==
  ASSUME NEW h \in Heap, NEW o \in Ops
  PROVE  InnerSet(WithInner(h, o, <<>>), h, o, <<>>)
<1> DEFINE e == <<>>
<1>1. e \in Seq(Blocks)
  BY Empty
<1> HIDE DEF e
<1>2. InnerSet(WithInner(h, o, e), h, o, e)
  BY <1>1, InnerSetIs
<1>3. QED
  BY <1>2 DEF e

LEMMA EmptiedStage ==
  ASSUME NEW h, NEW L, NEW U, NEW X, Stage(h, L, U, X), NEW o \in Ops
  PROVE  Stage(WithInner(h, o, <<>>), L, U, X)
<1> DEFINE g == WithInner(h, o, <<>>)
<1>1. /\ Rep(h, L, U) /\ h \in Heap /\ U \subseteq Blocks /\ Unshared(h.inner) /\ NotHeld(h.inner, Root)
      /\ \A c \in U : \A p \in ToSet(L[c]) \ X : \A d \in ToSet(h.inner[p]) : d \in U /\ h.bparent[d] = c
      /\ \A c \in U : \A p \in ToSet(L[c]) : p \in Ops
  BY StageIs
<1>2. <<>> \in Seq(Blocks) /\ ToSet(<<>>) = {} /\ Len(<<>>) = 0
  BY Empty
<1>3. /\ g \in Heap /\ SameLinks(g, h) /\ SameOwners(g, h)
      /\ g.inner[o] = <<>> /\ \A p \in Ops : p # o => g.inner[p] = h.inner[p]
  <2>1. InnerSet(g, h, o, <<>>)
    BY <1>1, EmptiedIs
  <2>2. QED
    BY <2>1 DEF InnerSet
<1> HIDE DEF g
<1>4. g.parent = h.parent /\ g.bparent = h.bparent
  BY <1>3 DEF SameOwners
<1>5. Rep(g, L, U)
  BY <1>1, <1>3, <1>4, RepSame
<1>6. \A p \in Ops : g.inner[p] = h.inner[p] \/ (ToSet(g.inner[p]) = {} /\ Len(g.inner[p]) = 0)
  BY <1>2, <1>3
<1>7. Unshared(g.inner)
  <2> SUFFICES ASSUME NEW p \in Ops, NEW q \in Ops, NEW i \in 1..Len(g.inner[p]), NEW j \in 1..Len(g.inner[q]),
                      g.inner[p][i] = g.inner[q][j]
               PROVE  p = q /\ i = j
    BY DEF Unshared
  <2>1. g.inner[p] = h.inner[p] /\ g.inner[q] = h.inner[q]
    BY <1>6
  <2>2. \A k \in 1..Len(h.inner[p]), l \in 1..Len(h.inner[q]) : h.inner[p][k] = h.inner[q][l] => p = q /\ k = l
    BY <1>1 DEF Unshared
  <2>3. QED
    BY <2>1, <2>2
<1>8. \A p \in Ops : ToSet(g.inner[p]) \subseteq ToSet(h.inner[p])
  BY <1>6
<1>9. NotHeld(g.inner, Root)
  BY <1>1, <1>8 DEF NotHeld
<1>10. \A c \in U : \A p \in ToSet(L[c]) \ X : \A d \in ToSet(g.inner[p]) : d \in U /\ g.bparent[d] = c
  BY <1>1, <1>4, <1>8
<1>11. HeldBut(g, L, U, X)
  BY <1>7, <1>9, <1>10 DEF HeldBut
<1>12. Stage(g, L, U, X)
  BY <1>5, <1>11 DEF Stage
<1>13. QED
  BY <1>12 DEF g

LEMMA RevealedStage ==
  ASSUME NEW h, NEW L, NEW U, NEW X, NEW Y, Stage(h, L, U, X),
         \A b \in U : \A o \in ToSet(L[b]) : o \in X /\ o \notin Y =>
           \A c \in ToSet(h.inner[o]) : c \in U /\ h.bparent[c] = b
  PROVE  Stage(h, L, U, Y)
<1>1. Rep(h, L, U) /\ HeldBut(h, L, U, X)
  BY DEF Stage
<1>2. HeldBut(h, L, U, Y)
  BY <1>1 DEF HeldBut
<1>3. QED
  BY <1>1, <1>2 DEF Stage

LEMMA AddOpStage ==
  ASSUME NEW h, NEW L, NEW U, NEW X, Stage(h, L, U, X), NEW b \in U, NEW o \in Ops, NEW id \in Kinds,
         \A c \in U : o \notin ToSet(L[c])
  PROVE  /\ Stage(AddOp(h, b, o, id), Changed(L, U, b, L[b] \o <<o>>), U, X)
         /\ Created(AddOp(h, b, o, id), h, b, o, id)
<1> DEFINE g == AddOp(h, b, o, id)
           list == L[b] \o <<o>>
           M == Changed(L, U, b, list)
<1>1. /\ Rep(h, L, U) /\ h \in Heap /\ U \subseteq Blocks /\ Unshared(h.inner) /\ NotHeld(h.inner, Root)
      /\ \A c \in U : \A p \in ToSet(L[c]) \ X : \A d \in ToSet(h.inner[p]) : d \in U /\ h.bparent[d] = c
      /\ \A c \in U : \A p \in ToSet(L[c]) : p \in Ops
  BY StageIs
<1>2. L[b] \in Seq(Ops)
  BY <1>1, RepList
<1>3. ToSet(list) = ToSet(L[b]) \cup {o}
  <2>1. <<o>> \in Seq(Ops) /\ ToSet(<<o>>) = {o}
    BY Single
  <2>2. QED
    BY <1>2, <2>1, ToSetConcat
<1>4. Added(g, h, L, U, b, o, id)
  BY <1>1, AddOpIs
<1>5. Rep(g, M, U) /\ Created(g, h, b, o, id)
  BY <1>4 DEF Added
<1>6. /\ g.bparent = h.bparent
      /\ g.inner[o] = <<>> /\ \A p \in Ops : p # o => g.inner[p] = h.inner[p]
  BY <1>5 DEF Created
<1>7. M[b] = list /\ \A c \in U : c # b => M[c] = L[c]
  BY <1>1 DEF Changed
<1> HIDE DEF g, list, M
<1>8. ToSet(<<>>) = {} /\ Len(<<>>) = 0
  BY Empty
<1>9. \A p \in Ops : g.inner[p] = h.inner[p] \/ (ToSet(g.inner[p]) = {} /\ Len(g.inner[p]) = 0)
  BY <1>6, <1>8
<1>10. Unshared(g.inner)
  <2> SUFFICES ASSUME NEW p \in Ops, NEW q \in Ops, NEW i \in 1..Len(g.inner[p]), NEW j \in 1..Len(g.inner[q]),
                      g.inner[p][i] = g.inner[q][j]
               PROVE  p = q /\ i = j
    BY DEF Unshared
  <2>1. g.inner[p] = h.inner[p] /\ g.inner[q] = h.inner[q]
    BY <1>9
  <2>2. \A k \in 1..Len(h.inner[p]), l \in 1..Len(h.inner[q]) : h.inner[p][k] = h.inner[q][l] => p = q /\ k = l
    BY <1>1 DEF Unshared
  <2>3. QED
    BY <2>1, <2>2
<1>11. NotHeld(g.inner, Root)
  BY <1>1, <1>9 DEF NotHeld
<1>12. ASSUME NEW c \in U, NEW p \in ToSet(M[c]) \ X, NEW d \in ToSet(g.inner[p])
       PROVE  d \in U /\ g.bparent[d] = c
  <2>1. p # o
    BY <1>6, <1>8
  <2>2. p \in ToSet(L[c])
    BY <1>3, <1>7, <2>1
  <2>3. QED
    BY <1>1, <1>6, <2>1, <2>2
<1>13. HeldBut(g, M, U, X)
  BY <1>10, <1>11, <1>12 DEF HeldBut
<1>14. Stage(g, M, U, X)
  BY <1>5, <1>13 DEF Stage
<1>15. QED
  BY <1>5, <1>14 DEF g, list, M

\* vx_IrOp_addParam_s, of a block that no operation holds
LEMMA AddInnerIs ==
  ASSUME NEW h \in Heap, NEW o \in Ops, NEW b \in Blocks
  PROVE  InnerSet(AddInner(h, o, b), h, o, Append(h.inner[o], b))
<1> DEFINE s == Append(h.inner[o], b)
<1>1. h.inner[o] \in Seq(Blocks)
  BY DEF Heap
<1>2. s \in Seq(Blocks)
  BY <1>1, AppendProperties
<1>3. AddInner(h, o, b) = WithInner(h, o, s)
  BY DEF AddInner, WithInner
<1> HIDE DEF s
<1>4. InnerSet(WithInner(h, o, s), h, o, s)
  BY <1>2, InnerSetIs
<1>5. QED
  BY <1>3, <1>4 DEF s

LEMMA AddInnerStage ==
  ASSUME NEW h, NEW L, NEW U, NEW X, Stage(h, L, U, X), NEW o \in Ops, NEW b \in Blocks \ {Root}, NotHeld(h.inner, b)
  PROVE  Stage(AddInner(h, o, b), L, U, X \cup {o})
<1> DEFINE g == AddInner(h, o, b)
           s == h.inner[o]
           t == Append(s, b)
<1>1. /\ Rep(h, L, U) /\ h \in Heap /\ U \subseteq Blocks /\ Unshared(h.inner) /\ NotHeld(h.inner, Root)
      /\ \A c \in U : \A p \in ToSet(L[c]) \ X : \A d \in ToSet(h.inner[p]) : d \in U /\ h.bparent[d] = c
      /\ \A c \in U : \A p \in ToSet(L[c]) : p \in Ops
      /\ h.inner \in [Ops -> Seq(Blocks)]
  BY StageIs
<1>2. InnerSet(g, h, o, t)
  BY <1>1, AddInnerIs
<1>3. /\ g \in Heap /\ SameLinks(g, h) /\ g.parent = h.parent /\ g.bparent = h.bparent
      /\ g.inner[o] = t /\ \A p \in Ops : p # o => g.inner[p] = h.inner[p]
  BY <1>2 DEF InnerSet, SameOwners
<1>4. /\ s \in Seq(Blocks) /\ t \in Seq(Blocks) /\ Len(s) \in Nat /\ Len(t) = Len(s) + 1
      /\ t[Len(s) + 1] = b /\ \A i \in 1..Len(s) : t[i] = s[i]
  <2>1. s \in Seq(Blocks)
    BY <1>1
  <2> HIDE DEF s
  <2>2. QED
    BY <2>1, AppendProperties
<1> HIDE DEF g, t
<1>5. Rep(g, L, U)
  BY <1>1, <1>3, RepSame
<1>6. b # Root /\ b \in Blocks /\ \A p \in Ops : \A i \in 1..Len(h.inner[p]) : h.inner[p][i] # b
  <2>1. \A p \in Ops : h.inner[p] \in Seq(Blocks) /\ b \notin ToSet(h.inner[p])
    BY <1>1 DEF NotHeld
  <2>2. \A p \in Ops : \A i \in 1..Len(h.inner[p]) : h.inner[p][i] \in ToSet(h.inner[p])
    BY <2>1, ToSetIs
  <2>3. QED
    BY <2>1, <2>2
<1>7. \A p \in Ops : \A i \in 1..Len(g.inner[p]) :
        \/ i \in 1..Len(h.inner[p]) /\ g.inner[p][i] = h.inner[p][i]
        \/ p = o /\ i = Len(s) + 1 /\ g.inner[p][i] = b
  <2>1. \A i \in 1..Len(t) : i \in 1..Len(s) \/ i = Len(s) + 1
    BY <1>4
  <2>2. s = h.inner[o]
    OBVIOUS
  <2> HIDE DEF s
  <2>3. ASSUME NEW p \in Ops, NEW i \in 1..Len(g.inner[p])
        PROVE  \/ i \in 1..Len(h.inner[p]) /\ g.inner[p][i] = h.inner[p][i]
               \/ p = o /\ i = Len(s) + 1 /\ g.inner[p][i] = b
    <3>1. CASE p # o
      BY <1>3, <3>1
    <3>2. CASE p = o
      BY <1>3, <1>4, <2>1, <2>2, <3>2
    <3>3. QED
      BY <3>1, <3>2
  <2>4. QED
    BY <2>3
<1> HIDE DEF s
<1>8. Unshared(g.inner)
  <2> SUFFICES ASSUME NEW p \in Ops, NEW q \in Ops, NEW i \in 1..Len(g.inner[p]), NEW j \in 1..Len(g.inner[q]),
                      g.inner[p][i] = g.inner[q][j]
               PROVE  p = q /\ i = j
    BY DEF Unshared
  <2>1. \A k \in 1..Len(h.inner[p]), l \in 1..Len(h.inner[q]) : h.inner[p][k] = h.inner[q][l] => p = q /\ k = l
    BY <1>1 DEF Unshared
  <2>2. \/ i \in 1..Len(h.inner[p]) /\ g.inner[p][i] = h.inner[p][i]
        \/ p = o /\ i = Len(s) + 1 /\ g.inner[p][i] = b
    BY <1>7
  <2>3. \/ j \in 1..Len(h.inner[q]) /\ g.inner[q][j] = h.inner[q][j]
        \/ q = o /\ j = Len(s) + 1 /\ g.inner[q][j] = b
    BY <1>7
  <2> DEFINE x == g.inner[p][i]
             y == g.inner[q][j]
  <2>4. x = y
    OBVIOUS
  <2>5. \/ i \in 1..Len(h.inner[p]) /\ x = h.inner[p][i] /\ x # b
        \/ p = o /\ i = Len(s) + 1 /\ x = b
    BY <1>6, <2>2
  <2>6. \/ j \in 1..Len(h.inner[q]) /\ y = h.inner[q][j] /\ y # b
        \/ q = o /\ j = Len(s) + 1 /\ y = b
    BY <1>6, <2>3
  <2> HIDE DEF x, y
  <2>7. QED
    BY <2>1, <2>4, <2>5, <2>6
<1>9. \A p \in Ops : g.inner[p] \in Seq(Blocks)
  BY <1>3 DEF Heap
<1>10. NotHeld(g.inner, Root)
  <2> SUFFICES ASSUME NEW p \in Ops, Root \in ToSet(g.inner[p])
               PROVE  FALSE
    BY DEF NotHeld
  <2>1. PICK i \in 1..Len(g.inner[p]) : g.inner[p][i] = Root
    BY <1>9, ToSetIs
  <2>2. i \in 1..Len(h.inner[p]) /\ h.inner[p][i] = Root
    BY <1>6, <1>7, <2>1
  <2>3. h.inner[p] \in Seq(Blocks)
    BY <1>1
  <2>4. Root \in ToSet(h.inner[p])
    BY <2>2, <2>3, ToSetIs
  <2>5. QED
    BY <1>1, <2>4 DEF NotHeld
<1>11. ASSUME NEW c \in U, NEW p \in ToSet(L[c]) \ (X \cup {o}), NEW d \in ToSet(g.inner[p])
       PROVE  d \in U /\ g.bparent[d] = c
  BY <1>1, <1>3
<1>12. HeldBut(g, L, U, X \cup {o})
  BY <1>8, <1>10, <1>11 DEF HeldBut
<1>13. Stage(g, L, U, X \cup {o})
  BY <1>5, <1>12 DEF Stage
<1>14. QED
  BY <1>13 DEF g

\* An operation is removed, who knows what it holds.
LEMMA SkippedStage ==
  ASSUME NEW h, NEW L, NEW U, NEW o \in Ops, Stage(h, L, U, {o}), NEW b \in U, NEW s \in Seq(Ops), NEW t \in Seq(Ops),
         L[b] = s \o (<<o>> \o t), NEW g, Skipped(g, h, L, U, b, s, t, o)
  PROVE  Stage(g, Changed(L, U, b, s \o t), U, {})
<1> DEFINE M == Changed(L, U, b, s \o t)
           v == <<o>> \o t
<1>1. /\ Rep(h, L, U) /\ U \subseteq Blocks /\ Unshared(h.inner) /\ NotHeld(h.inner, Root)
      /\ \A c \in U : \A p \in ToSet(L[c]) \ {o} : \A d \in ToSet(h.inner[p]) : d \in U /\ h.bparent[d] = c
  <2> DEFINE X == {o}
  <2>1. Stage(h, L, U, X)
    OBVIOUS
  <2>2. X = {o}
    OBVIOUS
  <2> HIDE DEF X
  <2>3. /\ Rep(h, L, U) /\ U \subseteq Blocks /\ Unshared(h.inner) /\ NotHeld(h.inner, Root)
        /\ \A c \in U : \A p \in ToSet(L[c]) \ X : \A d \in ToSet(h.inner[p]) : d \in U /\ h.bparent[d] = c
    BY <2>1, StageIs
  <2>4. QED
    BY <2>2, <2>3
<1>2. Rep(g, M, U) /\ g.inner = h.inner /\ g.bparent = h.bparent
  BY DEF Skipped, SameNodes, SameOwners
<1>3. M[b] = s \o t /\ \A c \in U : c # b => M[c] = L[c]
  BY <1>1 DEF Changed
<1>4. v \in Seq(Ops) /\ ToSet(v) = {o} \cup ToSet(t)
  BY ConsIs
<1>5. L[b] = s \o v
  OBVIOUS
<1> HIDE DEF M, v
<1>6. ToSet(L[b]) = ToSet(s) \cup ToSet(v) /\ ToSet(s) \cap ToSet(v) = {}
  <2>1. Split(h, L, b, s, v)
    BY <1>1, <1>4, <1>5, RepSplit
  <2>2. QED
    BY <2>1 DEF Split
<1>7. o \notin ToSet(t)
  <2> DEFINE P == <<o>>
             A == s \o P
  <2>1. P \in Seq(Ops) /\ o \in ToSet(P)
    BY Single
  <2>2. A \o t = s \o v
    BY <2>1, Assoc DEF v
  <2>3. A \in Seq(Ops) /\ ToSet(A) = ToSet(s) \cup ToSet(P)
    BY <2>1, Sequences, ToSetConcat
  <2> HIDE DEF A, P
  <2>4. L[b] = A \o t
    BY <1>5, <2>2
  <2>5. Split(h, L, b, A, t)
    BY <1>1, <2>3, <2>4, RepSplit
  <2>6. QED
    BY <2>1, <2>3, <2>5 DEF Split
<1>8. ToSet(M[b]) = ToSet(s) \cup ToSet(t)
  BY <1>3, ToSetConcat
<1>9. \A c \in U : c # b => o \notin ToSet(L[c])
  BY <1>1, <1>4, <1>6, RepApart
<1>10. \A c \in U : \A p \in ToSet(M[c]) : p # o /\ p \in ToSet(L[c])
  BY <1>3, <1>4, <1>6, <1>7, <1>8, <1>9
<1>11. HeldBut(g, M, U, {})
  BY ZenonT(60), <1>1, <1>2, <1>10 DEF HeldBut
<1>12. Stage(g, M, U, {})
  BY <1>2, <1>11 DEF Stage
<1>13. QED
  BY <1>12 DEF M

--------------------------------------------------------------------------------
(***************************************************************************)
(* The passes that move blocks.                                             *)
(***************************************************************************)
LEMMA HeldHere ==
  ASSUME IInv, Visiting, NEW c \in ToSet(heap.inner[op])
  PROVE  /\ c \in Used /\ c \in Blocks /\ c # Root /\ c # block /\ c \notin fresh /\ heap.bparent[c] = block
         /\ c \notin moved /\ \A p \in Ops : c \in ToSet(heap.inner[p]) => p = op
<1>1. PICK B, R \in Seq(Ops) : Standing(B, R)
  BY Visited
<1>2. /\ block \in Used /\ op \in Ops /\ op \in ToSet(Listed[block])
      /\ 1 <= Len(walk) /\ Len(walk) \in Nat /\ block = walk[Len(walk)].block
  BY <1>1 DEF Standing
<1>3. Rep(heap, Listed, Used) /\ Held(heap, Listed, Used) /\ Unused(heap, Listed, Used, fresh)
  BY InvIs
<1>4. c \in Used /\ heap.bparent[c] = block /\ Unshared(heap.inner) /\ NotHeld(heap.inner, Root)
  BY <1>2, <1>3 DEF Held, HeldBut
<1>5. c \in Blocks /\ c \notin moved
  BY <1>4 DEF Used
<1>6. c # Root
  BY <1>2, <1>4 DEF NotHeld
<1>7. c # block
  <2>1. Len(walk) \in 1..Len(walk)
    BY <1>2
  <2>2. QED
    BY <1>2, <2>1, HeldElsewhere
<1>8. c \notin fresh
  BY <1>2, <1>3 DEF Unused, NotHeld
<1>9. \A p \in Ops : c \in ToSet(heap.inner[p]) => p = op
  <2>1. heap.inner \in [Ops -> Seq(Blocks)]
    BY <1>3, RepHeap
  <2>2. QED
    BY <1>2, <1>4, <2>1, HeldOnce
<1>10. QED
  BY <1>4, <1>5, <1>6, <1>7, <1>8, <1>9

LEMMA StageHere ==
  ASSUME IInv
  PROVE  Stage(heap, Listed, Used, {})
BY InvIs DEF Stage, Held

LEMMA FreshHere ==
  ASSUME IInv, Visiting
  PROVE  block \notin fresh
<1>1. PICK B, R \in Seq(Ops) : Standing(B, R)
  BY Visited
<1>2. op \in ToSet(Listed[block])
  BY <1>1 DEF Standing
<1>3. Unused(heap, Listed, Used, fresh)
  BY InvIs
<1>4. QED
  BY <1>2, <1>3, Empty DEF Unused

LEMMA ReduceIfIs ==
  ASSUME IInv, ReduceIf
  PROVE  IInv' /\ Lists!Splice
<1>1. Visiting /\ heap.id[op] = "IF" /\ fresh' = fresh
  BY DEF ReduceIf
<1>2. PICK b \in ToSet(heap.inner[op]) : /\ GoOn(RemoveOp(InsertAllOpAfter(heap, block, b, op), op))
                                        /\ moved' = moved \cup {b}
  BY DEF ReduceIf
<1>3. PICK B, R \in Seq(Ops) : Standing(B, R) /\ AbstractlyStanding(B, R)
  BY <1>1, Visited
<1>4. /\ block \in Used /\ op \in Ops /\ Listed[block] = B \o (<<op>> \o R)
  BY <1>3 DEF Standing
<1>5. /\ b \in Used /\ b \in Blocks /\ b # Root /\ b # block /\ b \notin fresh
      /\ b \notin moved /\ \A p \in Ops : b \in ToSet(heap.inner[p]) => p = op
  BY <1>1, HeldHere
<1>6. /\ moved \subseteq Blocks \ {Root} /\ Rep(heap, Listed, Used) /\ Used \subseteq Blocks
      /\ Kinded(heap, Listed, Used) /\ Unused(heap, Listed, Used, fresh)
  BY InvIs
<1> DEFINE g == InsertAllOpAfter(heap, block, b, op)
           k == RemoveOp(g, op)
           V == Used \ {b}
           A == B \o <<op>>
           rest == Listed[b] \o R
           list == A \o rest
           X == {op}
           M == Changed(Listed, V, block, list)
           N == Changed(Listed, V, block, B \o rest)
<1>7. Listed[b] \in Seq(Ops) /\ \A c \in Used : Listed[c] \in Seq(Ops) /\ ToSet(Listed[c]) \subseteq Ops
  BY <1>5, <1>6, RepList
<1>8. A \in Seq(Ops) /\ Listed[block] = A \o R /\ <<op>> \in Seq(Ops) /\ EndOf(A) = op /\ ToSet(A) = ToSet(B) \cup {op}
  <2>1. <<op>> \in Seq(Ops) /\ ToSet(<<op>>) = {op}
    BY <1>4, Single
  <2>2. Listed[block] = A \o R
    BY <1>4, <2>1, Assoc
  <2>3. EndOf(A) = op /\ A \in Seq(Ops)
    BY <1>4, EndIs
  <2>4. ToSet(A) = ToSet(B) \cup {op}
    BY <2>1, ToSetConcat
  <2>5. QED
    BY <2>1, <2>2, <2>3, <2>4
<1>9. rest \in Seq(Ops) /\ ToSet(rest) = ToSet(Listed[b]) \cup ToSet(R)
  BY <1>7, Sequences, ToSetConcat
<1>10. HandedOver(g, heap, Listed, Used, block, b, list)
  <2>1. HandedOver(InsertAllOpAfter(heap, block, b, EndOf(A)), heap, Listed, Used, block, b, A \o (Listed[b] \o R))
    <3> HIDE DEF A
    <3>1. QED
      BY <1>4, <1>5, <1>6, <1>8, InsertAllOpAfterIs
  <2>2. QED
    BY <1>8, <2>1
<1>11. list = B \o (<<op>> \o rest)
  <2> HIDE DEF rest
  <2>1. QED
    BY <1>8, <1>9, Assoc
<1>12. GoOn(k)
  BY <1>2
<1>13. rest = Listed[b] \o R
  OBVIOUS
<1> HIDE DEF g, k, A, rest
<1>14. list \in Seq(Ops) /\ ToSet(list) = ToSet(A) \cup ToSet(rest)
  BY <1>8, <1>9, Sequences, ToSetConcat
<1>15. ToSet(Listed[block]) = ToSet(B) \cup {op} \cup ToSet(R)
  BY <1>3, StandingAmong
<1> HIDE DEF list
<1>16. Stage(g, M, V, X)
  <2>1. Stage(heap, Listed, Used, X)
    <3>1. Stage(heap, Listed, Used, {})
      BY StageHere
    <3>2. \A c \in Used : \A o \in ToSet(Listed[c]) : o \in {} /\ o \notin X =>
            \A d \in ToSet(heap.inner[o]) : d \in Used /\ heap.bparent[d] = c
      OBVIOUS
    <3>3. QED
      BY <3>1, <3>2, RevealedStage
  <2>2. X = {op}
    OBVIOUS
  <2> HIDE DEF X
  <2>3. Unheld(heap, Listed, Used, X, b)
    BY <1>5, <1>7, <2>2 DEF Unheld
  <2>4. ToSet(list) \subseteq ToSet(Listed[block]) \cup ToSet(Listed[b])
    BY <1>8, <1>9, <1>14, <1>15
  <2>5. QED
    BY <1>4, <1>5, <1>10, <1>14, <2>1, <2>3, <2>4, HandOverStage
<1>17. /\ block \in V /\ block \in Blocks /\ M[block] = list /\ N[block] = B \o rest
       /\ \A c \in V : c # block => N[c] = Listed[c] /\ M[c] = Listed[c]
       /\ \A c \in Blocks \ V : N[c] = <<>>
  BY <1>4, <1>5 DEF Changed, Used
<1>18. N = Changed(M, V, block, B \o rest)
  BY ChangedTwice
<1>19. M[block] = B \o (<<op>> \o rest)
  BY <1>11, <1>17
<1> HIDE DEF M, N
<1>20. Rep(g, M, V)
  BY <1>16 DEF Stage
<1>21. Skipped(k, g, M, V, block, B, rest, op)
  BY <1>4, <1>9, <1>17, <1>19, <1>20, RemoveOpIs DEF k
<1>22. Stage(k, N, V, {})
  <2>1. Stage(g, M, V, {op})
    BY <1>16
  <2>2. Stage(k, Changed(M, V, block, B \o rest), V, {})
    BY <1>4, <1>9, <1>17, <1>19, <1>21, <2>1, SkippedStage
  <2>3. QED
    BY <1>18, <2>2
<1>23. Rep(k, N, V) /\ Held(k, N, V)
  BY <1>22 DEF Stage, Held
<1>24. LeadsTo(g, op, rest)
  BY ZenonT(60), <1>4, <1>9, <1>17, <1>19, <1>20, NextInList
<1>25. k.next[op] = At(rest, 1, NULL) /\ k.id = heap.id /\ k.inner = heap.inner
  BY <1>10, <1>21, <1>24 DEF Skipped, LeadsTo, SameNodes, HandedOver
<1>26. \A c \in V : \A o \in ToSet(N[c]) : \E a \in Used : o \in ToSet(Listed[a])
  <2>1. ToSet(B \o rest) = ToSet(B) \cup ToSet(rest)
    BY <1>9, ToSetConcat
  <2>2. QED
    BY <1>4, <1>5, <1>9, <1>15, <1>17, <2>1
<1>27. Kinded(k, N, V)
  BY ZenonT(60), <1>6, <1>25, <1>26 DEF Kinded
<1>28. Unused(k, N, V, fresh)
  <2>1. block \notin fresh
    BY <1>1, FreshHere
  <2>2. QED
    BY <1>5, <1>6, <1>17, <1>25, <2>1 DEF Unused
<1>29. Local(k, N, V)
  BY <1>17, <1>25 DEF Local
<1>30. Done(k, N, V, B, rest)
  <2>1. moved' \subseteq Blocks \ {Root} /\ V = Blocks \ moved'
    BY <1>2, <1>5, <1>6 DEF Used
  <2>2. QED
    BY <1>1, <1>17, <1>23, <1>25, <1>27, <1>28, <1>29, <2>1 DEF Done
<1> HIDE DEF V
<1>31. IInv' /\ Listed' = N /\ Lists!GoOn(rest)
  BY <1>1, <1>9, <1>12, <1>30, GoneOn
<1>32. heap' = k
  BY <1>12 DEF GoOn
<1>33. N = [Listed EXCEPT ![block] = (B \o Listed[b]) \o R, ![b] = <<>>]
  <2>1. (B \o Listed[b]) \o R = B \o rest
    BY <1>7, <1>13, Assoc
  <2>2. Listed \in [Blocks -> Seq(Ops)] /\ \A c \in Blocks \ Used : Listed[c] = <<>>
    BY <1>6 DEF Rep
  <2>3. N = [c \in Blocks |-> N[c]]
    BY <1>23 DEF Rep
  <2>4. \A c \in Blocks : N[c] = IF c = b THEN <<>> ELSE IF c = block THEN B \o rest ELSE Listed[c]
    BY <1>5, <1>17, <2>2 DEF V
  <2> DEFINE E == [Listed EXCEPT ![block] = B \o rest, ![b] = <<>>]
  <2>5. E = [c \in Blocks |-> E[c]] /\ \A c \in Blocks : E[c] = IF c = b THEN <<>> ELSE IF c = block THEN B \o rest ELSE Listed[c]
    BY <2>2
  <2> HIDE DEF E
  <2>6. \A c \in Blocks : E[c] = N[c]
    BY <2>4, <2>5
  <2>7. E = N
    BY <2>3, <2>5, <2>6
  <2>8. QED
    BY <2>1, <2>7 DEF E
<1>34. Lists!Unmade
  BY <1>25, <1>32 DEF Lists!Unmade
<1>35. Lists!Visiting /\ Lists!Block = block /\ Lists!Here = op /\ Lists!Before = B /\ Lists!Behind = R
  BY <1>3 DEF AbstractlyStanding
<1>36. Lists!GoOn(Listed[b] \o R) /\ Listed' = [Listed EXCEPT ![block] = (B \o Listed[b]) \o R, ![b] = <<>>]
  BY <1>31, <1>33, <1>13
<1>37. b \in Lists!ToSet(heap.inner[op])
  BY DEF Lists!ToSet, ToSet
<1>38. QED
  BY <1>1, <1>31, <1>34, <1>35, <1>36, <1>37 DEF Lists!Splice

--------------------------------------------------------------------------------
(****************************************************************************)
(* A C loop becomes a while loop.                                           *)
(****************************************************************************)
LEMMA TwoOf ==
  ASSUME NEW S \in SUBSET Nat, IsFiniteSet(S), Cardinality(S) > 1
  PROVE  Lowest(S) \in S /\ Lowest(S \ {Lowest(S)}) \in S \ {Lowest(S)}
<1> DEFINE x == Lowest(S)
<1>1. S # {}
  BY FS_EmptySet
<1>2. x \in S
  BY <1>1, LowestIs
<1> HIDE DEF x
<1>3. S \ {x} # {}
  <2> SUFFICES ASSUME S \ {x} = {}
               PROVE  FALSE
    OBVIOUS
  <2>1. S = {x}
    BY <1>2
  <2>2. Cardinality({x}) = 1
    BY FS_Singleton
  <2>3. QED
    BY <2>1, <2>2
<1> DEFINE T == S \ {x}
<1>4. T \in SUBSET Nat /\ T # {}
  BY <1>3
<1> HIDE DEF T
<1>5. Lowest(T) \in T
  BY <1>4, LowestIs
<1>6. QED
  BY <1>2, <1>5 DEF x, T

LEMMA FreshTwo ==
  ASSUME IInv, Cardinality(fresh) > 1
  PROVE  /\ Lowest(fresh) \in fresh /\ Lowest(fresh \ {Lowest(fresh)}) \in fresh \ {Lowest(fresh)}
         /\ \A b \in fresh : /\ b \in Used /\ b \in Blocks /\ b # Root /\ b \notin moved
                             /\ Listed[b] = <<>> /\ NotHeld(heap.inner, b) /\ b \in Lists!FreshBlocks
<1>1. Unused(heap, Listed, Used, fresh)
  BY InvIs
<1>2. fresh \subseteq Blocks /\ fresh \in SUBSET Nat /\ IsFiniteSet(fresh)
  <2>1. fresh \subseteq Blocks
    BY <1>1 DEF Unused, Used
  <2>2. QED
    BY <2>1, BuilderAssumption, FS_Subset
<1>3. Lowest(fresh) \in fresh /\ Lowest(fresh \ {Lowest(fresh)}) \in fresh \ {Lowest(fresh)}
  BY <1>2, TwoOf
<1>4. \A b \in fresh : /\ b \in Used /\ b \in Blocks /\ b # Root /\ b \notin moved
                       /\ Listed[b] = <<>> /\ NotHeld(heap.inner, b)
  BY <1>1 DEF Unused, Used
<1>5. \A b \in fresh : b \in Lists!FreshBlocks
  BY <1>4 DEF NotHeld, Lists!FreshBlocks, Lists!ToSet, ToSet
<1>6. QED
  BY <1>3, <1>4, <1>5

LEMMA StandingOnce ==
  ASSUME IInv, NEW B \in Seq(Ops), NEW R \in Seq(Ops), Standing(B, R)
  PROVE  /\ op \notin ToSet(B) /\ op \notin ToSet(R)
         /\ \A c \in Used : c # block => op \notin ToSet(Listed[c])
<1> DEFINE P == <<op>>
           v == P \o R
           A == B \o P
<1>1. block \in Used /\ op \in Ops /\ op \in ToSet(Listed[block]) /\ Listed[block] = B \o v
  BY DEF Standing
<1>2. Rep(heap, Listed, Used)
  BY InvIs
<1>3. P \in Seq(Ops) /\ op \in ToSet(P)
  BY <1>1, Single
<1>4. v \in Seq(Ops) /\ ToSet(v) = {op} \cup ToSet(R)
  BY <1>1, ConsIs
<1>5. A \in Seq(Ops) /\ ToSet(A) = ToSet(B) \cup ToSet(P)
  BY <1>3, Sequences, ToSetConcat
<1>6. A \o R = B \o v
  BY <1>3, Assoc
<1> HIDE DEF P, v, A
<1>7. op \notin ToSet(B)
  <2>1. Split(heap, Listed, block, B, v)
    BY <1>1, <1>2, <1>4, RepSplit
  <2>2. QED
    BY <1>4, <2>1 DEF Split
<1>8. op \notin ToSet(R)
  <2>1. Listed[block] = A \o R
    BY <1>1, <1>6
  <2>2. Split(heap, Listed, block, A, R)
    BY <1>1, <1>2, <1>5, <2>1, RepSplit
  <2>3. QED
    BY <1>3, <1>5, <2>2 DEF Split
<1>9. \A c \in Used : c # block => op \notin ToSet(Listed[c])
  BY <1>1, <1>2, RepApart
<1>10. QED
  BY <1>7, <1>8, <1>9

\* The blocks a C loop becomes, and those it holds.
Loop(new, do, start, cond, end, body, o) ==
  /\ o \in Ops /\ o \in FreshOps /\ \A c \in Used : o \notin ToSet(Listed[c])
  /\ o # op /\ op \in Ops /\ block \in Used /\ block \in Blocks
  /\ new \in fresh /\ do \in fresh /\ new # do
  /\ {new, do, start, cond, end, body} \subseteq Used \ {block, Root}
  /\ {start, cond, end, body} \subseteq ToSet(heap.inner[op]) \ fresh
  /\ start # cond /\ start # end /\ start # body /\ cond # end /\ cond # body /\ end # body
  /\ \A b \in {new, do} : Listed[b] = <<>> /\ NotHeld(heap.inner, b)
  /\ \A b \in {start, cond, end, body}, p \in Ops : b \in ToSet(heap.inner[p]) => p = op

LEMMA LoopIs ==
  ASSUME IInv, Visiting, heap.id[op] = "CFOR", FreshOps # {}, Cardinality(fresh) > 1
  PROVE  Loop(Lowest(fresh), Lowest(fresh \ {Lowest(fresh)}),
              heap.inner[op][1], heap.inner[op][2], heap.inner[op][3], heap.inner[op][4], NewOp)
<1> DEFINE new == Lowest(fresh)
           do == Lowest(fresh \ {Lowest(fresh)})
           s == heap.inner[op]
           o == NewOp
<1>1. PICK B, R \in Seq(Ops) : Standing(B, R)
  BY Visited
<1>2. block \in Used /\ op \in Ops /\ op \in ToSet(Listed[block])
  BY <1>1 DEF Standing
<1>3. o \in Ops /\ o \in FreshOps /\ \A c \in Used : o \notin ToSet(Listed[c])
  BY NewOpIs
<1> HIDE DEF o
<1>4. o # op /\ block \in Blocks
  BY <1>2, <1>3 DEF Used
<1>5. new \in fresh /\ do \in fresh /\ new # do
  BY FreshTwo
<1>6. \A b \in fresh : b \in Used /\ b # Root /\ Listed[b] = <<>> /\ NotHeld(heap.inner, b)
  BY FreshTwo
<1>7. block \notin fresh
  BY FreshHere
<1> HIDE DEF new, do
<1>8. s \in Seq(Blocks) /\ Len(s) = 4 /\ Unshared(heap.inner)
  <2>1. Kinded(heap, Listed, Used) /\ Held(heap, Listed, Used) /\ heap \in Heap
    BY InvIs
  <2>2. QED
    BY <1>2, <2>1 DEF Kinded, Held, HeldBut, Heap
<1>9. \A b \in ToSet(s) : /\ b \in Used /\ b # Root /\ b # block /\ b \notin fresh
                          /\ \A p \in Ops : b \in ToSet(heap.inner[p]) => p = op
  BY HeldHere
<1>10. \A i, j \in 1..4 : s[i] = s[j] => i = j
  <2>1. \A i, j \in 1..Len(heap.inner[op]) : heap.inner[op][i] = heap.inner[op][j] => i = j
    BY <1>2, <1>8 DEF Unshared
  <2>2. QED
    BY <1>8, <2>1
<1>11. \A i \in 1..4 : s[i] \in ToSet(s)
  BY <1>8, ToSetIs
<1> HIDE DEF s
<1>12. s[1] \in ToSet(s) /\ s[2] \in ToSet(s) /\ s[3] \in ToSet(s) /\ s[4] \in ToSet(s)
  BY <1>11
<1>13. s[1] # s[2] /\ s[1] # s[3] /\ s[1] # s[4] /\ s[2] # s[3] /\ s[2] # s[4] /\ s[3] # s[4]
  BY <1>10
<1>14. s = heap.inner[op]
  BY DEF s
<1>15. Loop(new, do, s[1], s[2], s[3], s[4], o)
  BY <1>2, <1>3, <1>4, <1>5, <1>6, <1>7, <1>9, <1>12, <1>13, <1>14 DEF Loop
<1>16. QED
  BY <1>15 DEF new, do, s, o

Having(M, V, b, s, c, t) == M[b] = s /\ M[c] = t /\ \A d \in V : d # b /\ d # c => M[d] = Listed[d]
Nodes(h, o, k, s) ==
  /\ h.id[o] = k /\ h.inner[o] = s /\ h.inner[op] = <<>>
  /\ \A p \in Ops : p # o => h.id[p] = heap.id[p]
  /\ \A p \in Ops : p # o /\ p # op => h.inner[p] = heap.inner[p]

LEMMA AppendTo ==
  ASSUME NEW S, NEW x \in S, NEW y \in S
  PROVE  Append(<<>>, x) = <<x>> /\ Append(<<x>>, y) = <<x, y>>
<1> DEFINE e == <<>>
           s == <<x>>
           u == Append(s, y)
           v == <<x, y>>
<1>1. e \in Seq(S) /\ Len(e) = 0 /\ s \in Seq(S) /\ Len(s) = 1 /\ s[1] = x
  BY EmptySeq
<1>2. v \in Seq(S) /\ Len(v) = 2 /\ v[1] = x /\ v[2] = y
  OBVIOUS
<1> HIDE DEF e, s, v
<1>3. Append(e, x) = s
  <2>1. Append(e, x) \in Seq(S) /\ Len(Append(e, x)) = Len(e) + 1 /\ Append(e, x)[Len(e) + 1] = x
    BY <1>1, AppendProperties
  <2> DEFINE w == Append(e, x)
  <2>2. w \in Seq(S) /\ Len(w) = 1 /\ w[1] = x
    BY <1>1, <2>1
  <2> HIDE DEF w
  <2>3. \A i \in 1..Len(w) : w[i] = s[i]
    BY <1>1, <2>2
  <2>4. w = s
    BY <1>1, <2>2, <2>3, SeqEqual
  <2>5. QED
    BY <2>4 DEF w
<1>4. u = v
  <2>1. s \in Seq(S)
    BY <1>1
  <2>2. u \in Seq(S)
    BY <2>1, AppendProperties
  <2>3. Len(u) = Len(s) + 1 /\ (\A i \in 1..Len(s) : u[i] = s[i]) /\ u[Len(s) + 1] = y
    BY <2>1, AppendProperties
  <2> HIDE DEF u
  <2>4. Len(u) = 2 /\ u[1] = x /\ u[2] = y
    BY <1>1, <2>3
  <2>5. \A i \in 1..Len(u) : u[i] = v[i]
    BY <1>2, <2>4
  <2>6. QED
    BY <1>2, <2>2, <2>4, <2>5, SeqEqual
<1>5. QED
  BY <1>3, <1>4 DEF e, s, u, v

LEMMA ConcatEmpty ==
  ASSUME NEW s \in Seq(Ops)
  PROVE  <<>> \o s = s /\ s \o <<>> = s
<1>1. <<>> \in Seq(Ops)
  BY Empty
<1>2. QED
  BY <1>1, ConcatEmptySeq

\* The pieces of the sequence of calls, the operation no longer holding blocks.
Opened(new) == InitBlock(WithInner(heap, op, <<>>), new, block)

LEMMA OpenedIs ==
  ASSUME IInv, NEW new \in Used, Listed[new] = <<>>, NotHeld(heap.inner, new), op \in Ops, block \in Blocks
  PROVE  /\ Stage(Opened(new), Listed, Used, {})
         /\ Opened(new).id = heap.id /\ Opened(new).inner[op] = <<>>
         /\ \A p \in Ops : p # op => Opened(new).inner[p] = heap.inner[p]
         /\ Opened(new).bparent[new] = block
<1> DEFINE h0 == WithInner(heap, op, <<>>)
           h1 == InitBlock(h0, new, block)
<1>1. Stage(heap, Listed, Used, {}) /\ heap \in Heap /\ Used \subseteq Blocks
  BY StageHere, InvIs
<1>2. Stage(h0, Listed, Used, {})
  BY <1>1, EmptiedStage
<1>3. InnerSet(h0, heap, op, <<>>)
  BY <1>1, EmptiedIs
<1> HIDE DEF h0
<1>4. h0 \in Heap /\ h0.id = heap.id /\ h0.inner[op] = <<>> /\ \A p \in Ops : p # op => h0.inner[p] = heap.inner[p]
  BY <1>3 DEF InnerSet
<1>5. NotHeld(h0.inner, new)
  BY <1>4, Empty DEF NotHeld
<1>6. Stage(h1, Listed, Used, {})
  BY <1>2, <1>5, InitBlockStage
<1>7. SameNodes(h1, h0) /\ h1.bparent[new] = block
  BY <1>1, <1>4, InitBlockIs
<1>8. Opened(new) = h1
  BY DEF Opened, h0
<1> HIDE DEF h1
<1>9. QED
  BY <1>4, <1>6, <1>7, <1>8 DEF SameNodes

Headed(new, start, cond, o) == AddInner(AddOp(AddAllOp(Opened(new), new, start), new, o, "WHILE"), o, cond)

LEMMA HeadedIs ==
  ASSUME IInv, NEW new, NEW do, NEW start, NEW cond, NEW end, NEW body, NEW o,
         Loop(new, do, start, cond, end, body, o)
  PROVE  \E M : /\ Stage(Headed(new, start, cond, o), M, Used \ {start}, {o})
                /\ Having(M, Used \ {start}, new, Listed[start] \o <<o>>, do, <<>>)
                /\ Nodes(Headed(new, start, cond, o), o, "WHILE", <<cond>>)
<1> DEFINE h1 == Opened(new)
           h2 == AddAllOp(h1, new, start)
           h3 == AddOp(h2, new, o, "WHILE")
           h4 == AddInner(h3, o, cond)
           V == Used \ {start}
           X == {o}
           M == Changed(Listed, V, new, Listed[start])
           N == Changed(Listed, V, new, Listed[start] \o <<o>>)
<1>1. /\ o \in Ops /\ \A c \in Used : o \notin ToSet(Listed[c])
      /\ o # op /\ op \in Ops /\ block \in Blocks
      /\ new \in Used /\ start \in Used /\ cond \in Used /\ do \in Used /\ new # start /\ new # do /\ do # start /\ cond # Root
      /\ Listed[new] = <<>> /\ Listed[do] = <<>> /\ NotHeld(heap.inner, new)
      /\ \A b \in {start, cond}, p \in Ops : b \in ToSet(heap.inner[p]) => p = op
  BY DEF Loop
<1>2. /\ Stage(h1, Listed, Used, {})
      /\ h1.id = heap.id /\ h1.inner[op] = <<>>
      /\ \A p \in Ops : p # op => h1.inner[p] = heap.inner[p]
  BY <1>1, OpenedIs
<1>3. \A b \in {start, cond} : NotHeld(h1.inner, b)
  BY <1>1, <1>2, Empty DEF NotHeld
<1> HIDE DEF h1
<1>4. Rep(h1, Listed, Used) /\ Used \subseteq Blocks
  BY <1>2, StageIs
<1>5. Listed[start] \in Seq(Ops)
  BY <1>1, <1>4, RepList
<1>6. HandedOver(h2, h1, Listed, Used, new, start, Listed[start])
  <2>1. HandedOver(h2, h1, Listed, Used, new, start, Listed[new] \o Listed[start])
    BY <1>1, <1>4, AddAllOpIs
  <2>2. Listed[new] \o Listed[start] = Listed[start]
    BY <1>1, <1>5, ConcatEmpty
  <2>3. QED
    BY <2>1, <2>2
<1> HIDE DEF h2
<1>7. Stage(h2, M, V, {})
  <2>1. Unheld(h1, Listed, Used, {}, start)
    <3>1. \A c \in Used : \A p \in ToSet(Listed[c]) : p \in Ops
      BY <1>2, StageIs
    <3>2. QED
      BY <1>3, <3>1 DEF Unheld, NotHeld
  <2>2. ToSet(Listed[start]) \subseteq ToSet(Listed[new]) \cup ToSet(Listed[start])
    OBVIOUS
  <2>3. QED
    BY <1>1, <1>2, <1>5, <1>6, <2>1, <2>2, HandOverStage
<1>8. h2.id = h1.id /\ h2.inner = h1.inner
  BY <1>6 DEF HandedOver, SameNodes
<1>9. M[new] = Listed[start] /\ \A c \in V : c # new => M[c] = Listed[c]
  BY <1>1, <1>4 DEF Changed
<1>10. N[new] = Listed[start] \o <<o>> /\ \A c \in V : c # new => N[c] = Listed[c]
  BY <1>1, <1>4 DEF Changed
<1>11. Changed(M, V, new, Listed[start] \o <<o>>) = N
  BY ChangedTwice
<1> HIDE DEF M, N
<1>12. \A c \in V : o \notin ToSet(M[c])
  BY <1>1, <1>9
<1>13. Stage(h3, N, V, {}) /\ Created(h3, h2, new, o, "WHILE")
  <2>1. "WHILE" \in Kinds /\ new \in V
    BY <1>1 DEF Kinds
  <2>2. Stage(h3, Changed(M, V, new, M[new] \o <<o>>), V, {}) /\ Created(h3, h2, new, o, "WHILE")
    BY <1>1, <1>7, <1>12, <2>1, AddOpStage
  <2>3. QED
    BY <1>9, <1>11, <2>2
<1> HIDE DEF h3
<1>14. /\ h3.id[o] = "WHILE" /\ \A p \in Ops : p # o => h3.id[p] = heap.id[p]
       /\ h3.inner[o] = <<>> /\ \A p \in Ops : p # o => h3.inner[p] = h1.inner[p]
  BY <1>2, <1>8, <1>13 DEF Created
<1>15. NotHeld(h3.inner, cond)
  BY <1>3, <1>14, Empty DEF NotHeld
<1>16. h3 \in Heap /\ cond \in Blocks
  BY <1>1, <1>4, <1>13, StageIs
<1>17. Stage(h4, N, V, {o})
  <2>1. Stage(h4, N, V, {} \cup {o})
    BY <1>1, <1>13, <1>15, <1>16, AddInnerStage
  <2>2. {} \cup {o} = {o}
    OBVIOUS
  <2>3. QED
    BY <2>1, <2>2
<1>18. InnerSet(h4, h3, o, Append(h3.inner[o], cond))
  BY <1>1, <1>16, AddInnerIs
<1> HIDE DEF h4
<1>19. h4.id = h3.id /\ h4.inner[o] = <<cond>> /\ \A p \in Ops : p # o => h4.inner[p] = h3.inner[p]
  BY <1>14, <1>18, AppendTo DEF InnerSet
<1>20. Nodes(h4, o, "WHILE", <<cond>>)
  BY <1>1, <1>2, <1>14, <1>19 DEF Nodes
<1>21. Having(N, V, new, Listed[start] \o <<o>>, do, <<>>)
  BY <1>1, <1>10 DEF Having
<1>22. h4 = Headed(new, start, cond, o)
  BY DEF h4, h3, h2, h1, Headed
<1>23. QED
  BY <1>17, <1>20, <1>21, <1>22

Bodied(h, new, do, body, end, o) == AddInner(AddAllOp(AddAllOp(InitBlock(h, do, new), do, body), do, end), o, do)

LEMMA BodiedIs ==
  ASSUME IInv, NEW new, NEW do, NEW start, NEW cond, NEW end, NEW body, NEW o,
         Loop(new, do, start, cond, end, body, o), NEW h, NEW M, NEW s,
         Stage(h, M, Used \ {start}, {o}), Having(M, Used \ {start}, new, s, do, <<>>), Nodes(h, o, "WHILE", <<cond>>)
  PROVE  \E N : /\ Stage(Bodied(h, new, do, body, end, o), N, Used \ {start, body, end}, {o})
                /\ Having(N, Used \ {start, body, end}, new, s, do, Listed[body] \o Listed[end])
                /\ Nodes(Bodied(h, new, do, body, end, o), o, "WHILE", <<cond, do>>)
<1> DEFINE V == Used \ {start}
           W == V \ {body}
           Z == W \ {end}
           X == {o}
           h1 == InitBlock(h, do, new)
           h2 == AddAllOp(h1, do, body)
           h3 == AddAllOp(h2, do, end)
           g == AddInner(h3, o, do)
           N1 == Changed(M, W, do, Listed[body])
           N == Changed(N1, Z, do, Listed[body] \o Listed[end])
<1>1. /\ o \in Ops /\ o # op /\ op \in Ops
      /\ {new, do, cond, body, end} \subseteq V /\ do # Root
      /\ new # do /\ new # body /\ new # end /\ do # body /\ do # end /\ body # end
      /\ cond # do /\ cond # body /\ cond # end
      /\ NotHeld(heap.inner, do)
      /\ \A b \in {end, body}, p \in Ops : b \in ToSet(heap.inner[p]) => p = op
  BY DEF Loop, NotHeld
<1>2. M[new] = s /\ M[do] = <<>> /\ \A c \in V : c # new /\ c # do => M[c] = Listed[c]
  BY DEF Having
<1>3. /\ h.id[o] = "WHILE" /\ h.inner[o] = <<cond>> /\ h.inner[op] = <<>>
      /\ \A p \in Ops : p # o => h.id[p] = heap.id[p]
      /\ \A p \in Ops : p # o /\ p # op => h.inner[p] = heap.inner[p]
  BY DEF Nodes
<1>4. Stage(h, M, V, X) /\ Rep(h, M, V) /\ h \in Heap /\ V \subseteq Blocks
  <2>1. Stage(h, M, V, X)
    OBVIOUS
  <2> HIDE DEF V, X
  <2>2. QED
    BY <2>1, StageIs
<1>5. \A b \in {do, end, body} : NotHeld(h.inner, b)
  <2>1. ToSet(<<cond>>) = {cond}
    BY Single
  <2>2. ToSet(<<>>) = {}
    BY Empty
  <2>3. QED
    BY <1>1, <1>3, <2>1, <2>2 DEF NotHeld
<1>6. Used \ {start, body, end} = Z
  OBVIOUS
<1> HIDE DEF X, V
<1>7. Stage(h1, M, V, X) /\ SameNodes(h1, h)
  <2>1. new \in Blocks /\ do \in Blocks
    BY <1>1, <1>4
  <2>2. Stage(h1, M, V, X)
    BY <1>1, <1>2, <1>4, <1>5, <2>1, InitBlockStage
  <2>3. SameNodes(h1, h)
    BY <1>4, <2>1, InitBlockIs
  <2>4. QED
    BY <2>2, <2>3
<1> HIDE DEF h1
<1>8. h1.id = h.id /\ h1.inner = h.inner
  BY <1>7 DEF SameNodes
<1>9. M[body] = Listed[body] /\ M[end] = Listed[end]
  BY <1>1, <1>2
<1>10. Rep(h1, M, V)
  BY <1>7, StageIs
<1>11. Listed[body] \in Seq(Ops) /\ Listed[end] \in Seq(Ops)
  <2>1. M[body] \in Seq(Ops) /\ M[end] \in Seq(Ops)
    BY <1>1, <1>10, RepList
  <2>2. QED
    BY <1>9, <2>1
<1>12. HandedOver(h2, h1, M, V, do, body, Listed[body])
  <2>1. HandedOver(h2, h1, M, V, do, body, M[do] \o M[body])
    BY <1>1, <1>10, AddAllOpIs
  <2>2. M[do] \o M[body] = Listed[body]
    BY <1>2, <1>9, <1>11, ConcatEmpty
  <2>3. QED
    BY <2>1, <2>2
<1> HIDE DEF h2
<1>13. Stage(h2, N1, W, X)
  <2>1. Unheld(h1, M, V, X, body)
    <3>1. \A c \in V : \A p \in ToSet(M[c]) : p \in Ops
      BY <1>7, StageIs
    <3>2. QED
      BY <1>5, <1>8, <3>1 DEF Unheld, NotHeld
  <2>2. ToSet(Listed[body]) \subseteq ToSet(M[do]) \cup ToSet(M[body])
    BY <1>9
  <2>3. QED
    BY <1>1, <1>7, <1>11, <1>12, <2>1, <2>2, HandOverStage
<1>14. h2.id = h.id /\ h2.inner = h.inner
  BY <1>8, <1>12 DEF HandedOver, SameNodes
<1>15. N1[do] = Listed[body] /\ \A c \in W : c # do => N1[c] = M[c]
  BY <1>1, <1>4 DEF Changed
<1>16. do \in W /\ end \in W /\ W \subseteq Blocks
  BY <1>1, <1>4
<1> HIDE DEF N1, W
<1>17. Rep(h2, N1, W)
  BY <1>13, StageIs
<1>18. N1[end] = Listed[end]
  BY <1>1, <1>9, <1>15, <1>16
<1>19. HandedOver(h3, h2, N1, W, do, end, Listed[body] \o Listed[end])
  <2>1. HandedOver(h3, h2, N1, W, do, end, N1[do] \o N1[end])
    BY <1>1, <1>16, <1>17, AddAllOpIs
  <2>2. QED
    BY <1>15, <1>18, <2>1
<1> HIDE DEF h3
<1>20. Listed[body] \o Listed[end] \in Seq(Ops)
       /\ ToSet(Listed[body] \o Listed[end]) = ToSet(Listed[body]) \cup ToSet(Listed[end])
  BY <1>11, Sequences, ToSetConcat
<1>21. Stage(h3, N, Z, X)
  <2>1. Unheld(h2, N1, W, X, end)
    <3>1. \A c \in W : \A p \in ToSet(N1[c]) : p \in Ops
      BY <1>13, StageIs
    <3>2. QED
      BY <1>5, <1>14, <3>1 DEF Unheld, NotHeld
  <2> DEFINE t == Listed[body] \o Listed[end]
  <2>2. t \in Seq(Ops) /\ ToSet(t) \subseteq ToSet(N1[do]) \cup ToSet(N1[end])
    BY <1>15, <1>18, <1>20
  <2>3. HandedOver(h3, h2, N1, W, do, end, t)
    BY <1>19
  <2>4. N = Changed(N1, Z, do, t)
    OBVIOUS
  <2> HIDE DEF t, N
  <2>5. Stage(h3, Changed(N1, Z, do, t), Z, X)
    BY <1>1, <1>13, <1>16, <2>1, <2>2, <2>3, HandOverStage
  <2>6. QED
    BY <2>4, <2>5
<1>22. h3.id = h.id /\ h3.inner = h.inner
  BY <1>14, <1>19 DEF HandedOver, SameNodes
<1>23. N[do] = Listed[body] \o Listed[end] /\ \A c \in Z : c # do => N[c] = N1[c]
  BY <1>1, <1>16 DEF Changed
<1> HIDE DEF N, Z
<1>24. h3 \in Heap
  BY <1>21, StageIs
<1>25. Stage(g, N, Z, X)
  <2>1. do \in Blocks \ {Root} /\ NotHeld(h3.inner, do)
    BY <1>1, <1>5, <1>16, <1>22
  <2>2. Stage(g, N, Z, X \cup {o})
    BY <1>1, <1>21, <2>1, AddInnerStage
  <2>3. X \cup {o} = X
    BY DEF X
  <2>4. QED
    BY <2>2, <2>3
<1>26. InnerSet(g, h3, o, Append(h3.inner[o], do))
  BY <1>1, <1>16, <1>24, AddInnerIs
<1> HIDE DEF g
<1>27. /\ g.id = h3.id /\ g.inner[o] = Append(h3.inner[o], do)
       /\ \A p \in Ops : p # o => g.inner[p] = h3.inner[p]
  BY <1>26 DEF InnerSet
<1>28. g.inner[o] = <<cond, do>>
  <2>1. cond \in Blocks /\ do \in Blocks
    BY <1>1, <1>4
  <2>2. Append(<<cond>>, do) = <<cond, do>>
    BY <2>1, AppendTo
  <2>3. QED
    BY <1>3, <1>22, <1>27, <2>2
<1>29. Nodes(g, o, "WHILE", <<cond, do>>)
  BY <1>1, <1>3, <1>22, <1>27, <1>28 DEF Nodes
<1>30. Having(N, Z, new, s, do, Listed[body] \o Listed[end])
  BY <1>1, <1>2, <1>15, <1>23 DEF Having, W, Z
<1>31. g = Bodied(h, new, do, body, end, o)
  BY DEF g, h3, h2, h1, Bodied
<1>32. Stage(g, N, Used \ {start, body, end}, {o}) /\ Having(N, Used \ {start, body, end}, new, s, do, Listed[body] \o Listed[end])
  BY <1>6, <1>25, <1>30 DEF X
<1>33. QED
  BY <1>29, <1>31, <1>32

LEMMA PairSet ==
  ASSUME NEW S, NEW x \in S, NEW y \in S
  PROVE  ToSet(<<x, y>>) = {x, y}
<1> DEFINE s == <<x, y>>
<1>1. s \in Seq(S) /\ 1 \in 1..Len(s) /\ 2 \in 1..Len(s) /\ s[1] = x /\ s[2] = y /\ \A i \in 1..Len(s) : i = 1 \/ i = 2
  OBVIOUS
<1> HIDE DEF s
<1>2. \A i \in 1..Len(s) : s[i] \in ToSet(s)
  BY <1>1, ToSetIs
<1>3. \A z \in ToSet(s) : \E i \in 1..Len(s) : s[i] = z
  BY <1>1, ToSetIs
<1>4. x \in ToSet(s) /\ y \in ToSet(s)
  BY <1>1, <1>2
<1>5. \A z \in ToSet(s) : z \in {x, y}
  BY <1>1, <1>3
<1>6. ToSet(s) = {x, y}
  BY <1>4, <1>5
<1>7. QED
  BY <1>6 DEF s

Replaced(h, new) == RemoveOp(InsertAllOpAfter(h, block, new, op), op)

LEMMA ReplacedIs ==
  ASSUME IInv, NEW B \in Seq(Ops), NEW R \in Seq(Ops), Standing(B, R),
         NEW new, NEW do, NEW start, NEW cond, NEW end, NEW body, NEW o,
         Loop(new, do, start, cond, end, body, o), NEW h, NEW M, NEW s, NEW t,
         s = Listed[start] \o <<o>>, t = Listed[body] \o Listed[end],
         Stage(h, M, Used \ {start, body, end}, {o}), Having(M, Used \ {start, body, end}, new, s, do, t),
         Nodes(h, o, "WHILE", <<cond, do>>)
  PROVE  \E N : /\ Stage(Replaced(h, new), N, Used \ {new, start, body, end}, {})
                /\ Having(N, Used \ {new, start, body, end}, block, B \o (s \o R), do, t)
                /\ Nodes(Replaced(h, new), o, "WHILE", <<cond, do>>) /\ LeadsTo(Replaced(h, new), op, s \o R)
<1> DEFINE Z == Used \ {start, body, end}
           Y == Z \ {new}
           X == {o}
           A == B \o <<op>>
           rest == s \o R
           list == A \o rest
           k == InsertAllOpAfter(h, block, new, op)
           g == RemoveOp(k, op)
           N1 == Changed(M, Y, block, list)
           N == Changed(M, Y, block, B \o rest)
<1>1. /\ o \in Ops /\ o # op /\ op \in Ops /\ block \in Used /\ block \in Blocks
      /\ {new, do, start, cond, end, body} \subseteq Used \ {block}
      /\ new # do /\ new # start /\ new # cond /\ new # body /\ new # end
      /\ do # start /\ do # cond /\ do # body /\ do # end
      /\ cond # body /\ cond # end /\ cond # start
      /\ NotHeld(heap.inner, new) /\ \A c \in Used : o \notin ToSet(Listed[c])
  BY DEF Loop
<1>2. M[new] = s /\ M[do] = t /\ \A c \in Z : c # new /\ c # do => M[c] = Listed[c]
  BY DEF Having
<1>3. /\ h.id[o] = "WHILE" /\ h.inner[o] = <<cond, do>> /\ h.inner[op] = <<>>
      /\ \A p \in Ops : p # o => h.id[p] = heap.id[p]
      /\ \A p \in Ops : p # o /\ p # op => h.inner[p] = heap.inner[p]
  BY DEF Nodes
<1>4. block \in Z /\ new \in Z /\ do \in Y /\ cond \in Y /\ block \in Y /\ block # do /\ block # new /\ cond # do
  BY <1>1
<1>5. Used \ {new, start, body, end} = Y
  OBVIOUS
<1>6. Stage(h, M, Z, X) /\ Rep(h, M, Z) /\ Z \subseteq Blocks
  <2>1. Stage(h, M, Z, X)
    OBVIOUS
  <2> HIDE DEF Z, X
  <2>2. QED
    BY <2>1, StageIs
<1>7. Rep(heap, Listed, Used)
  BY InvIs
<1>8. Listed[start] \in Seq(Ops) /\ Listed[body] \in Seq(Ops) /\ Listed[end] \in Seq(Ops)
  BY <1>1, <1>7, RepList
<1>9. s \in Seq(Ops) /\ o \in ToSet(s)
  <2>1. <<o>> \in Seq(Ops) /\ ToSet(<<o>>) = {o}
    BY <1>1, Single
  <2> DEFINE P == <<o>>
  <2>2. P \in Seq(Ops) /\ o \in ToSet(P) /\ s = Listed[start] \o P
    BY <2>1
  <2> HIDE DEF P
  <2>3. Listed[start] \o P \in Seq(Ops) /\ ToSet(Listed[start] \o P) = ToSet(Listed[start]) \cup ToSet(P)
    BY <1>8, <2>2, Sequences, ToSetConcat
  <2>4. QED
    BY <2>2, <2>3
<1>10. o \notin ToSet(t)
  <2>1. ToSet(Listed[body] \o Listed[end]) = ToSet(Listed[body]) \cup ToSet(Listed[end])
    BY <1>8, ToSetConcat
  <2>2. QED
    BY <1>1, <2>1
<1>11. M[block] = Listed[block]
  BY <1>2, <1>4
<1>12. Listed[block] = B \o (<<op>> \o R)
  BY DEF Standing
<1>13. A \in Seq(Ops) /\ Listed[block] = A \o R /\ <<op>> \in Seq(Ops) /\ EndOf(A) = op /\ ToSet(A) = ToSet(B) \cup {op}
  <2>1. <<op>> \in Seq(Ops) /\ ToSet(<<op>>) = {op}
    BY <1>1, Single
  <2>2. Listed[block] = A \o R
    BY <1>12, <2>1, Assoc
  <2>3. EndOf(A) = op /\ A \in Seq(Ops)
    BY <1>1, EndIs
  <2>4. ToSet(A) = ToSet(B) \cup {op}
    BY <2>1, ToSetConcat
  <2>5. QED
    BY <2>1, <2>2, <2>3, <2>4
<1>14. rest \in Seq(Ops) /\ ToSet(rest) = ToSet(s) \cup ToSet(R)
  BY <1>9, Sequences, ToSetConcat
<1>15. HandedOver(k, h, M, Z, block, new, list)
  <2>1. HandedOver(InsertAllOpAfter(h, block, new, EndOf(A)), h, M, Z, block, new, A \o (M[new] \o R))
    <3>1. M[block] = A \o R
      BY <1>11, <1>13
    <3> HIDE DEF A, Z
    <3>2. QED
      BY <1>4, <1>6, <1>13, <3>1, InsertAllOpAfterIs
  <2>2. QED
    BY <1>2, <1>13, <2>1
<1>16. list = B \o (<<op>> \o rest)
  <2> HIDE DEF rest
  <2>1. QED
    BY <1>13, <1>14, Assoc
<1> HIDE DEF k, g, A, rest, Z, X
<1>17. list \in Seq(Ops) /\ ToSet(list) = ToSet(A) \cup ToSet(rest)
  BY <1>13, <1>14, Sequences, ToSetConcat
<1>18. ToSet(Listed[block]) = ToSet(B) \cup {op} \cup ToSet(R)
  BY StandingAmong
<1> HIDE DEF list
<1>19. Stage(k, N1, Y, X)
  <2>1. Unheld(h, M, Z, X, new)
    <3>1. \A c \in Z : \A p \in ToSet(M[c]) : p \in Ops
      BY <1>6, StageIs
    <3>2. QED
      BY <1>1, <1>3, <3>1, Empty DEF Unheld, NotHeld, X
  <2>2. ToSet(list) \subseteq ToSet(M[block]) \cup ToSet(M[new])
    BY <1>2, <1>11, <1>13, <1>14, <1>17, <1>18
  <2>3. QED
    BY <1>4, <1>6, <1>15, <1>17, <2>1, <2>2, HandOverStage
<1>20. Y \subseteq Z /\ Y \subseteq Blocks
  BY <1>6
<1>21. /\ N1[block] = list /\ N[block] = B \o rest
       /\ \A c \in Y : c # block => N[c] = M[c] /\ N1[c] = M[c]
  BY <1>4, <1>20 DEF Changed
<1>22. N = Changed(N1, Y, block, B \o rest)
  BY ChangedTwice
<1>23. N1[block] = B \o (<<op>> \o rest)
  BY <1>16, <1>21
<1>24. \A c \in Y : c # new
  OBVIOUS
<1> HIDE DEF N1, N, Y
<1>25. /\ Rep(k, N1, Y) /\ SameNodes(k, h)
       /\ \A b \in Blocks : b \in InnerBlocks(h, ToSet(M[new])) => k.bparent[b] = block
  BY <1>15, <1>19, StageIs DEF HandedOver
<1>26. k.inner = h.inner /\ k.id = h.id
  BY <1>25 DEF SameNodes
<1>27. Stage(k, N1, Y, {op})
  <2>1. \A c \in Y : o \in ToSet(N1[c]) => c = block
    BY <1>1, <1>2, <1>10, <1>20, <1>21, <1>24 DEF Z
  <2>2. \A d \in {cond, do} : d \in Y /\ k.bparent[d] = block
    <3>1. ToSet(<<cond, do>>) = {cond, do}
      BY PairSet
    <3>2. \A d \in {cond, do} : d \in InnerBlocks(h, ToSet(M[new]))
      BY <1>2, <1>3, <1>9, <3>1 DEF InnerBlocks
    <3>3. QED
      BY <1>4, <1>20, <1>25, <3>2
  <2>3. \A d \in ToSet(k.inner[o]) : d \in {cond, do}
    <3>1. ToSet(<<cond, do>>) = {cond, do}
      BY PairSet
    <3>2. k.inner[o] = <<cond, do>>
      BY <1>3, <1>26
    <3>3. QED
      BY <3>1, <3>2
  <2>4. ASSUME NEW c \in Y, NEW p \in ToSet(N1[c]), p \in X /\ p \notin {op}, NEW d \in ToSet(k.inner[p])
        PROVE  d \in Y /\ k.bparent[d] = c
    <3>1. p = o
      BY <2>4 DEF X
    <3>2. c = block
      BY <2>1, <3>1
    <3>3. d \in {cond, do}
      BY <2>3, <3>1
    <3>4. QED
      BY <2>2, <3>2, <3>3
  <2>5. QED
    BY <1>19, <2>4, RevealedStage
<1>28. Skipped(g, k, N1, Y, block, B, rest, op)
  BY <1>1, <1>4, <1>14, <1>23, <1>25, RemoveOpIs DEF g
<1>29. Stage(g, N, Y, {})
  BY <1>1, <1>4, <1>14, <1>22, <1>23, <1>27, <1>28, SkippedStage
<1>30. LeadsTo(k, op, rest)
  BY <1>1, <1>4, <1>14, <1>23, <1>25, NextInList
<1>31. LeadsTo(g, op, rest) /\ g.id = h.id /\ g.inner = h.inner
  BY <1>26, <1>28, <1>30 DEF Skipped, LeadsTo, SameNodes
<1>32. Nodes(g, o, "WHILE", <<cond, do>>)
  BY <1>3, <1>31 DEF Nodes
<1>33. Having(N, Y, block, B \o rest, do, t)
  BY <1>2, <1>4, <1>20, <1>21, <1>24 DEF Having
<1>34. g = Replaced(h, new)
  BY DEF g, k, Replaced
<1>35. Used \ {new, start, body, end} = Y /\ rest = s \o R
  BY <1>5 DEF rest
<1>36. QED
  BY <1>29, <1>31, <1>32, <1>33, <1>34, <1>35

LEMMA AppendIs ==
  ASSUME NEW s \in Seq(Ops), NEW o \in Ops
  PROVE  Append(s, o) = s \o <<o>>
OBVIOUS

Normalized(new, do, start, cond, end, body, o) ==
  Replaced(Bodied(Headed(new, start, cond, o), new, do, body, end, o), new)

Rolled(g, N, V, B, R, do, start, cond, end, body, o) ==
  /\ Stage(g, N, V, {})
  /\ Having(N, V, block, B \o ((Listed[start] \o <<o>>) \o R), do, Listed[body] \o Listed[end])
  /\ Nodes(g, o, "WHILE", <<cond, do>>) /\ LeadsTo(g, op, (Listed[start] \o <<o>>) \o R)

LEMMA NormalizedIs ==
  ASSUME IInv, NEW B \in Seq(Ops), NEW R \in Seq(Ops), Standing(B, R),
         NEW new, NEW do, NEW start, NEW cond, NEW end, NEW body, NEW o,
         Loop(new, do, start, cond, end, body, o)
  PROVE  \E N : Rolled(Normalized(new, do, start, cond, end, body, o), N, Used \ {new, start, body, end},
                       B, R, do, start, cond, end, body, o)
<1> DEFINE s == Listed[start] \o <<o>>
           t == Listed[body] \o Listed[end]
           h1 == Headed(new, start, cond, o)
           h2 == Bodied(h1, new, do, body, end, o)
<1>1. s = Listed[start] \o <<o>> /\ t = Listed[body] \o Listed[end] /\ Normalized(new, do, start, cond, end, body, o) = Replaced(h2, new)
  BY DEF Normalized
<1>2. PICK L : /\ Stage(h1, L, Used \ {start}, {o})
               /\ Having(L, Used \ {start}, new, s, do, <<>>)
               /\ Nodes(h1, o, "WHILE", <<cond>>)
  BY HeadedIs
<1> HIDE DEF h1, s
<1>3. PICK M : /\ Stage(h2, M, Used \ {start, body, end}, {o})
               /\ Having(M, Used \ {start, body, end}, new, s, do, t)
               /\ Nodes(h2, o, "WHILE", <<cond, do>>)
  BY <1>2, BodiedIs
<1> HIDE DEF h2, t
<1>4. \E N : /\ Stage(Replaced(h2, new), N, Used \ {new, start, body, end}, {})
             /\ Having(N, Used \ {new, start, body, end}, block, B \o (s \o R), do, t)
             /\ Nodes(Replaced(h2, new), o, "WHILE", <<cond, do>>) /\ LeadsTo(Replaced(h2, new), op, s \o R)
  BY ZenonT(60), <1>1, <1>3, ReplacedIs
<1>5. QED
  BY <1>1, <1>4 DEF Rolled

\* What a C loop leaves is as it should be.
LEMMA RolledDone ==
  ASSUME IInv, NEW B \in Seq(Ops), NEW R \in Seq(Ops), Standing(B, R),
         NEW new, NEW do, NEW start, NEW cond, NEW end, NEW body, NEW o,
         Loop(new, do, start, cond, end, body, o), NEW g, NEW N,
         Rolled(g, N, Used \ {new, start, body, end}, B, R, do, start, cond, end, body, o),
         moved' = moved \cup {new, start, body, end}, fresh' = fresh \ {new, do}
  PROVE  /\ Done(g, N, Used \ {new, start, body, end}, B, (Listed[start] \o <<o>>) \o R)
         /\ (Listed[start] \o <<o>>) \o R \in Seq(Ops)
<1> DEFINE V == Used \ {new, start, body, end}
           s == Listed[start] \o <<o>>
           t == Listed[body] \o Listed[end]
           rest == s \o R
<1>1. /\ o \in Ops /\ o \in FreshOps /\ \A c \in Used : o \notin ToSet(Listed[c])
      /\ o # op /\ op \in Ops /\ block \in Used /\ block \in Blocks
      /\ new \in fresh /\ do \in fresh /\ new # do
      /\ {new, do, start, cond, end, body} \subseteq Used \ {block, Root}
      /\ {start, cond, end, body} \subseteq ToSet(heap.inner[op]) \ fresh
      /\ cond # start /\ cond # end /\ cond # body
  BY DEF Loop
<1>2. Stage(g, N, V, {}) /\ Having(N, V, block, B \o rest, do, t)
      /\ Nodes(g, o, "WHILE", <<cond, do>>) /\ LeadsTo(g, op, rest)
  BY DEF Rolled
<1>3. /\ moved \subseteq Blocks \ {Root} /\ Rep(heap, Listed, Used) /\ Used \subseteq Blocks
      /\ Kinded(heap, Listed, Used) /\ Unused(heap, Listed, Used, fresh)
  BY InvIs
<1>4. N[block] = B \o rest /\ N[do] = t /\ \A c \in V : c # block /\ c # do => N[c] = Listed[c]
  BY <1>2 DEF Having
<1>5. /\ g.id[o] = "WHILE" /\ g.inner[o] = <<cond, do>> /\ g.inner[op] = <<>>
      /\ \A p \in Ops : p # o => g.id[p] = heap.id[p]
      /\ \A p \in Ops : p # o /\ p # op => g.inner[p] = heap.inner[p]
  BY <1>2 DEF Nodes
<1>6. \A c \in Used : Listed[c] \in Seq(Ops) /\ ToSet(Listed[c]) \subseteq Ops
  BY <1>3, RepList
<1>7. s \in Seq(Ops) /\ ToSet(s) = ToSet(Listed[start]) \cup {o}
  <2> DEFINE P == <<o>>
  <2>1. P \in Seq(Ops) /\ ToSet(P) = {o}
    BY <1>1, Single
  <2>2. start \in Used
    BY <1>1
  <2> HIDE DEF P
  <2>3. Listed[start] \o P \in Seq(Ops) /\ ToSet(Listed[start] \o P) = ToSet(Listed[start]) \cup ToSet(P)
    BY <1>6, <2>1, <2>2, Sequences, ToSetConcat
  <2>4. QED
    BY <2>1, <2>3 DEF P
<1>8. ToSet(t) = ToSet(Listed[body]) \cup ToSet(Listed[end])
  BY <1>1, <1>6, ToSetConcat
<1> HIDE DEF s, t
<1>9. rest \in Seq(Ops) /\ ToSet(rest) = ToSet(s) \cup ToSet(R)
  BY <1>7, Sequences, ToSetConcat
<1> HIDE DEF rest
<1>10. ToSet(B \o rest) = ToSet(B) \cup ToSet(rest)
  BY <1>9, ToSetConcat
<1>11. /\ op \notin ToSet(B) /\ op \notin ToSet(R)
       /\ \A c \in Used : c # block => op \notin ToSet(Listed[c])
  BY StandingOnce
<1>12. ToSet(Listed[block]) = ToSet(B) \cup {op} \cup ToSet(R)
  BY StandingAmong
<1>13. ASSUME NEW c \in V, NEW p \in ToSet(N[c]), p # o
       PROVE  p # op /\ p \in Ops /\ \E a \in Used : p \in ToSet(Listed[a])
  <2>1. CASE c = block
    <3>1. p \in ToSet(B) \/ p \in ToSet(R) \/ p \in ToSet(Listed[start])
      BY <1>4, <1>7, <1>9, <1>10, <1>13, <2>1
    <3>2. QED
      BY <1>1, <1>6, <1>11, <1>12, <3>1
  <2>2. CASE c = do
    <3>1. p \in ToSet(Listed[body]) \/ p \in ToSet(Listed[end])
      BY <1>4, <1>8, <2>2
    <3>2. QED
      BY <1>1, <1>6, <1>11, <3>1
  <2>3. CASE c # block /\ c # do
    BY <1>1, <1>4, <1>6, <1>11, <2>3
  <2>4. QED
    BY <2>1, <2>2, <2>3
<1>14. ToSet(<<cond, do>>) = {cond, do} /\ Len(<<cond, do>>) = 2
  BY PairSet
<1>15. Kinded(g, N, V)
  <2> SUFFICES ASSUME NEW c \in V, NEW p \in ToSet(N[c])
               PROVE  /\ g.id[p] # "none"
                      /\ g.id[p] = "WHILE" => Len(g.inner[p]) = 2
                      /\ g.id[p] = "CFOR" => Len(g.inner[p]) = 4
    BY DEF Kinded
  <2>1. CASE p = o
    BY <1>5, <1>14, <2>1
  <2>2. CASE p # o
    <3>1. p # op /\ p \in Ops /\ \E a \in Used : p \in ToSet(Listed[a])
      BY <1>13, <2>2
    <3>2. g.id[p] = heap.id[p] /\ g.inner[p] = heap.inner[p]
      BY <1>5, <2>2, <3>1
    <3>3. QED
      BY <1>3, <3>1, <3>2 DEF Kinded
  <2>3. QED
    BY <2>1, <2>2
<1>16. Unused(g, N, V, fresh')
  <2>1. block \notin fresh /\ fresh \subseteq Used \ {Root} /\ \A b \in fresh : Listed[b] = <<>> /\ NotHeld(heap.inner, b)
    <3>1. block \notin fresh
      <4>1. Visiting
        BY BuilderAssumption DEF Standing, Visiting
      <4>2. QED
        BY <4>1, FreshHere
    <3>2. QED
      BY <1>3, <3>1 DEF Unused
  <2>2. fresh' \subseteq V \ {Root}
    BY <1>1, <2>1
  <2>3. \A b \in fresh' : N[b] = <<>>
    BY <1>4, <2>1, <2>2
  <2>4. \A b \in fresh' : NotHeld(g.inner, b)
    <3> SUFFICES ASSUME NEW b \in fresh', NEW p \in Ops
                 PROVE  b \notin ToSet(g.inner[p])
      BY DEF NotHeld
    <3>1. b \in fresh /\ b # do /\ b # cond
      BY <1>1
    <3>2. CASE p = o
      BY <1>5, <1>14, <3>1, <3>2
    <3>3. CASE p = op
      BY <1>5, <3>3, Empty
    <3>4. CASE p # o /\ p # op
      BY <1>5, <2>1, <3>1, <3>4 DEF NotHeld
    <3>5. QED
      BY <3>2, <3>3, <3>4
  <2>5. QED
    BY <2>2, <2>3, <2>4 DEF Unused
<1>17. Local(g, N, V)
  BY <1>1, <1>4, <1>5 DEF Local
<1>18. Rep(g, N, V) /\ Held(g, N, V)
  BY <1>2 DEF Stage, Held
<1>19. moved' \subseteq Blocks \ {Root} /\ V = Blocks \ moved'
  BY <1>1, <1>3 DEF Used
<1>20. block \in V /\ g.next[op] = At(rest, 1, NULL)
  BY <1>1, <1>2 DEF LeadsTo
<1>21. Done(g, N, V, B, rest)
  BY <1>4, <1>15, <1>16, <1>17, <1>18, <1>19, <1>20 DEF Done
<1>22. QED
  BY <1>9, <1>21 DEF rest, s

LEMMA NormalizeIs ==
  ASSUME IInv, Normalize
  PROVE  IInv' /\ Lists!Normalize
<1> DEFINE new == Lowest(fresh)
           do == Lowest(fresh \ {Lowest(fresh)})
           start == heap.inner[op][1]
           cond == heap.inner[op][2]
           end == heap.inner[op][3]
           body == heap.inner[op][4]
           o == NewOp
           g == Normalized(new, do, start, cond, end, body, o)
           V == Used \ {new, start, body, end}
           s == Listed[start] \o <<o>>
           t == Listed[body] \o Listed[end]
<1>1. Visiting /\ heap.id[op] = "CFOR" /\ FreshOps # {} /\ Cardinality(fresh) > 1
  BY DEF Normalize
<1>2. GoOn(g) /\ moved' = moved \cup {new, start, body, end} /\ fresh' = fresh \ {new, do}
  BY DEF Normalize, Normalized, Replaced, Bodied, Headed, Opened, WithInner
<1>3. Loop(new, do, start, cond, end, body, o)
  BY <1>1, LoopIs
<1>4. do \in Lists!FreshBlocks
  BY <1>1, FreshTwo
<1>5. PICK B, R \in Seq(Ops) : Standing(B, R) /\ AbstractlyStanding(B, R)
  BY <1>1, Visited
<1>6. o \in Lists!FreshOps
  BY <1>1, NewOpIs DEF FreshOps, Lists!FreshOps
<1>7. start = heap.inner[op][1] /\ cond = heap.inner[op][2] /\ end = heap.inner[op][3] /\ body = heap.inner[op][4]
  OBVIOUS
<1> HIDE DEF new, do, start, cond, end, body, o
<1>8. PICK N : Rolled(g, N, V, B, R, do, start, cond, end, body, o)
  BY <1>3, <1>5, NormalizedIs
<1> DEFINE z == (Listed[start] \o <<o>>) \o R
<1>9. Done(g, N, V, B, z) /\ z \in Seq(Ops)
  BY <1>2, <1>3, <1>5, <1>8, RolledDone
<1> HIDE DEF g
<1>10. Stage(g, N, V, {}) /\ Having(N, V, block, B \o z, do, t) /\ Nodes(g, o, "WHILE", <<cond, do>>)
  BY <1>8 DEF Rolled
<1>11. /\ o \in Ops /\ o # op /\ op \in Ops /\ block \in Used /\ block \in Blocks
       /\ new \in fresh /\ do \in fresh /\ new # do
       /\ {new, do, start, cond, end, body} \subseteq Used \ {block, Root}
       /\ {start, cond, end, body} \cap fresh = {}
       /\ Listed[new] = <<>>
  BY <1>3 DEF Loop
<1>12. /\ Rep(heap, Listed, Used) /\ Used \subseteq Blocks /\ heap \in Heap
  BY InvIs
<1>13. Listed[start] \in Seq(Ops) /\ s \in Seq(Ops)
  <2>1. start \in Used /\ <<o>> \in Seq(Ops)
    BY <1>11, Single
  <2>2. Listed[start] \in Seq(Ops)
    BY <1>12, <2>1, RepList
  <2> DEFINE P == <<o>>
  <2>3. P \in Seq(Ops)
    BY <2>1
  <2> HIDE DEF P
  <2>4. Listed[start] \o P \in Seq(Ops)
    BY <2>2, <2>3, Sequences
  <2>5. QED
    BY <2>2, <2>4 DEF P
<1>14. s = Append(Listed[start], o)
  BY <1>11, <1>13, AppendIs
<1>15. z = s \o R
  OBVIOUS
<1> HIDE DEF s, z
<1>16. (B \o s) \o R = B \o z
  BY <1>13, <1>15, Assoc
<1>17. IInv' /\ Listed' = N /\ Lists!GoOn(z)
  BY <1>1, <1>2, <1>9, GoneOn
<1>18. heap' = g
  BY <1>2 DEF GoOn
<1>19. g.id = [heap.id EXCEPT ![o] = "WHILE"]
  <2>1. g.id \in [Ops -> Kinds] /\ heap.id \in [Ops -> Kinds]
    BY <1>10, <1>12, StageIs DEF Heap
  <2>2. g.id[o] = "WHILE" /\ \A p \in Ops : p # o => g.id[p] = heap.id[p]
    BY <1>10 DEF Nodes
  <2>3. QED
    BY <1>11, <2>1, <2>2
<1>20. g.inner = [heap.inner EXCEPT ![op] = <<>>, ![o] = <<cond, do>>]
  <2>1. g.inner \in [Ops -> Seq(Blocks)] /\ heap.inner \in [Ops -> Seq(Blocks)]
    BY <1>10, <1>12, StageIs DEF Heap
  <2> DEFINE P == <<cond, do>>
             Q == <<>>
             E == [heap.inner EXCEPT ![op] = Q, ![o] = P]
  <2>2. g.inner[o] = P /\ g.inner[op] = Q /\ \A p \in Ops : p # o /\ p # op => g.inner[p] = heap.inner[p]
    BY <1>10 DEF Nodes
  <2> HIDE DEF P, Q
  <2>3. E = [p \in Ops |-> E[p]] /\ \A p \in Ops : E[p] = IF p = o THEN P ELSE IF p = op THEN Q ELSE heap.inner[p]
    BY <1>11, <2>1
  <2> HIDE DEF E
  <2>4. \A p \in Ops : g.inner[p] = E[p]
    BY <2>2, <2>3
  <2>5. g.inner = [p \in Ops |-> g.inner[p]]
    BY <2>1
  <2>6. g.inner = E
    BY <2>3, <2>4, <2>5
  <2>7. QED
    BY <2>6 DEF E, P, Q
<1>21. N = [Listed EXCEPT ![block] = B \o z, ![do] = t, ![start] = <<>>, ![body] = <<>>, ![end] = <<>>]
  <2>1. Listed \in [Blocks -> Seq(Ops)] /\ \A c \in Blocks \ Used : Listed[c] = <<>>
    BY <1>12 DEF Rep
  <2>2. N = [c \in Blocks |-> N[c]] /\ \A c \in Blocks \ V : N[c] = <<>>
    BY <1>10 DEF Stage, Rep
  <2>3. N[block] = B \o z /\ N[do] = t /\ \A c \in V : c # block /\ c # do => N[c] = Listed[c]
    BY <1>10 DEF Having
  <2> DEFINE Q == <<>>
             y == B \o z
             E == [Listed EXCEPT ![block] = y, ![do] = t, ![start] = Q, ![body] = Q, ![end] = Q]
  <2>4. /\ N[block] = y /\ \A c \in Blocks \ V : N[c] = Q
        /\ Listed[new] = Q /\ \A c \in Blocks \ Used : Listed[c] = Q
    BY <1>11, <2>1, <2>2, <2>3
  <2> HIDE DEF Q, y, t
  <2>5. E = [c \in Blocks |-> E[c]]
        /\ \A c \in Blocks : E[c] = IF c \in {start, body, end} THEN Q ELSE IF c = do THEN t ELSE IF c = block THEN y ELSE Listed[c]
    BY <1>11, <2>1
  <2> HIDE DEF E
  <2>6. ASSUME NEW c \in Blocks
        PROVE  E[c] = N[c]
    <3>1. CASE c \in {start, body, end}
      BY <2>4, <2>5, <3>1
    <3>2. CASE c = do
      BY <1>11, <2>3, <2>5, <3>2
    <3>3. CASE c = block
      BY <1>11, <2>4, <2>5, <3>3
    <3>4. CASE c = new \/ c \notin Used
      BY <1>11, <2>4, <2>5, <3>4
    <3>5. CASE c \in V /\ c # do /\ c # block
      BY <2>3, <2>5, <3>5
    <3>6. QED
      BY <3>1, <3>2, <3>3, <3>4, <3>5
  <2>7. E = N
    BY <2>2, <2>5, <2>6
  <2>8. QED
    BY <2>7 DEF E, Q, y
<1>22. Lists!Visiting /\ Lists!Block = block /\ Lists!Here = op /\ Lists!Before = B /\ Lists!Behind = R
  BY <1>5 DEF AbstractlyStanding
<1> HIDE DEF t
<1>23. /\ heap'.id = [heap.id EXCEPT ![o] = "WHILE"]
       /\ heap'.inner = [heap.inner EXCEPT ![op] = <<>>, ![o] = <<cond, do>>]
       /\ Listed' = [Listed EXCEPT ![block] = (B \o s) \o R, ![do] = t, ![start] = <<>>, ![body] = <<>>, ![end] = <<>>]
       /\ Lists!GoOn(s \o R)
  BY SMTT(60), <1>15, <1>16, <1>17, <1>18, <1>19, <1>20, <1>21
<1>24. Lists!Normalize
  BY ZenonT(60), <1>1, <1>4, <1>6, <1>7, <1>14, <1>22, <1>23 DEF Lists!Normalize, t
<1>25. QED
  BY <1>17, <1>24

--------------------------------------------------------------------------------
(****************************************************************************)
(* A while loop becomes an infinite one.                                    *)
(****************************************************************************)
\* The blocks and operations a while loop becomes, and those it holds.
Wrap(new, els, cond, body, i, k, m) ==
  /\ i \in FreshOps /\ k \in FreshOps /\ i # k /\ m \in Seq(Ops) /\ ToSet(m) \subseteq FreshOps
  /\ m = <<>> \/ m = <<NewOp>>
  /\ i \notin ToSet(m) /\ k \notin ToSet(m)
  /\ \A p \in FreshOps : p \in Ops /\ p # op /\ \A c \in Used : p \notin ToSet(Listed[c])
  /\ op \in Ops /\ block \in Used /\ block \in Blocks
  /\ new \in fresh /\ els \in fresh /\ new # els
  /\ {new, els, cond, body} \subseteq Used \ {block, Root}
  /\ {cond, body} \subseteq ToSet(heap.inner[op]) \ fresh
  /\ cond # body
  /\ \A b \in {new, els} : Listed[b] = <<>> /\ NotHeld(heap.inner, b)
  /\ \A b \in {cond, body}, p \in Ops : b \in ToSet(heap.inner[p]) => p = op

LEMMA FreshOpsIs ==
  ASSUME IInv, Visiting
  PROVE  /\ FreshOps \in SUBSET Nat /\ IsFiniteSet(FreshOps)
         /\ \A p \in FreshOps : p \in Ops /\ p # op /\ \A c \in Used : p \notin ToSet(Listed[c])
<1>1. FreshOps \in SUBSET Nat /\ IsFiniteSet(FreshOps)
  <2>1. FreshOps \subseteq Ops
    BY DEF FreshOps
  <2>2. QED
    BY <2>1, BuilderAssumption, FS_Subset
<1>2. PICK B, R \in Seq(Ops) : Standing(B, R)
  BY Visited
<1>3. block \in Used /\ op \in ToSet(Listed[block])
  BY <1>2 DEF Standing
<1>4. Kinded(heap, Listed, Used)
  BY InvIs
<1>5. \A p \in FreshOps : p \in Ops /\ \A c \in Used : p \notin ToSet(Listed[c])
  BY <1>4 DEF FreshOps, Kinded
<1>6. QED
  BY <1>1, <1>3, <1>5

LEMMA LeftIs ==
  ASSUME IInv, Visiting, Cardinality(FreshOps) > 1,
         NEW m, m \in {<<>>, <<NewOp>>}, Cardinality(FreshOps) > Len(m) + 1
  PROVE  LET left == FreshOps \ ToSet(m) IN
         /\ m \in Seq(Ops) /\ ToSet(m) \subseteq FreshOps
         /\ Lowest(left) \in left /\ Lowest(left \ {Lowest(left)}) \in left \ {Lowest(left)}
<1> DEFINE left == FreshOps \ ToSet(m)
<1>1. FreshOps \in SUBSET Nat /\ IsFiniteSet(FreshOps) /\ FreshOps \subseteq Ops
  BY FreshOpsIs
<1>2. NewOp \in FreshOps
  <2>1. FreshOps # {}
    BY FS_EmptySet
  <2>2. QED
    BY <2>1, NewOpIs
<1>3. m \in Seq(Ops) /\ ToSet(m) \subseteq FreshOps /\ Cardinality(left) > 1
  <2>1. CASE m = <<>>
    <3>1. m \in Seq(Ops) /\ ToSet(m) = {}
      BY <2>1, Empty
    <3>2. left = FreshOps
      BY <3>1
    <3>3. QED
      BY <3>1, <3>2
  <2>2. CASE m = <<NewOp>>
    <3> DEFINE q == NewOp
    <3>1. q \in FreshOps /\ q \in Ops /\ m = <<q>>
      BY <1>1, <1>2, <2>2
    <3> HIDE DEF q
    <3>2. m \in Seq(Ops) /\ ToSet(m) = {q} /\ Len(m) = 1
      BY <3>1, Single
    <3>3. left = FreshOps \ {q}
      BY <3>2
    <3>4. Cardinality(FreshOps \ {q}) = Cardinality(FreshOps) - 1 /\ Cardinality(FreshOps) \in Nat
      BY <1>1, <3>1, FS_RemoveElement, FS_CardinalityType
    <3>5. m \in Seq(Ops) /\ ToSet(m) \subseteq FreshOps
      BY <3>1, <3>2
    <3>6. Cardinality(left) = Cardinality(FreshOps) - 1
      BY <3>3, <3>4
    <3> HIDE DEF left
    <3>7. Cardinality(left) > 1
      BY <3>2, <3>4, <3>6
    <3>8. QED
      BY <3>5, <3>7
  <2>3. QED
    BY <2>1, <2>2
<1>4. left \in SUBSET Nat /\ IsFiniteSet(left)
  BY <1>1, FS_Subset
<1> HIDE DEF left
<1>5. Lowest(left) \in left /\ Lowest(left \ {Lowest(left)}) \in left \ {Lowest(left)}
  BY <1>3, <1>4, TwoOf
<1>6. QED
  BY <1>3, <1>5 DEF left

LEMMA WrapIs ==
  ASSUME IInv, Visiting, heap.id[op] = "WHILE", Cardinality(FreshOps) > 1, Cardinality(fresh) > 1,
         NEW m, m \in {<<>>, <<NewOp>>}, Cardinality(FreshOps) > Len(m) + 1
  PROVE  LET left == FreshOps \ ToSet(m) IN
         Wrap(Lowest(fresh), Lowest(fresh \ {Lowest(fresh)}), heap.inner[op][1], heap.inner[op][2],
              Lowest(left), Lowest(left \ {Lowest(left)}), m)
<1> DEFINE new == Lowest(fresh)
           els == Lowest(fresh \ {Lowest(fresh)})
           s == heap.inner[op]
           left == FreshOps \ ToSet(m)
           i == Lowest(left)
           k == Lowest(left \ {Lowest(left)})
<1>1. PICK B, R \in Seq(Ops) : Standing(B, R)
  BY Visited
<1>2. block \in Used /\ op \in Ops /\ op \in ToSet(Listed[block])
  BY <1>1 DEF Standing
<1>3. \A p \in FreshOps : p \in Ops /\ p # op /\ \A c \in Used : p \notin ToSet(Listed[c])
  BY FreshOpsIs
<1>4. m \in Seq(Ops) /\ ToSet(m) \subseteq FreshOps /\ i \in left /\ k \in left \ {i}
  BY LeftIs
<1>5. i \in FreshOps /\ k \in FreshOps /\ i # k /\ i \notin ToSet(m) /\ k \notin ToSet(m)
  BY <1>4
<1> HIDE DEF i, k
<1>6. new \in fresh /\ els \in fresh /\ new # els
  BY FreshTwo
<1>7. \A b \in fresh : b \in Used /\ b # Root /\ Listed[b] = <<>> /\ NotHeld(heap.inner, b)
  BY FreshTwo
<1>8. block \notin fresh /\ block \in Blocks
  BY <1>2, FreshHere DEF Used
<1> HIDE DEF new, els
<1>9. s \in Seq(Blocks) /\ Len(s) = 2 /\ Unshared(heap.inner)
  <2>1. Kinded(heap, Listed, Used) /\ Held(heap, Listed, Used) /\ heap \in Heap
    BY InvIs
  <2>2. QED
    BY <1>2, <2>1 DEF Kinded, Held, HeldBut, Heap
<1>10. \A b \in ToSet(s) : /\ b \in Used /\ b # Root /\ b # block /\ b \notin fresh
                           /\ \A p \in Ops : b \in ToSet(heap.inner[p]) => p = op
  BY HeldHere
<1>11. s[1] # s[2]
  <2>1. \A a, b \in 1..2 : s[a] = s[b] => a = b
    BY <1>2, <1>9 DEF Unshared
  <2>2. QED
    BY <2>1
<1>12. s[1] \in ToSet(s) /\ s[2] \in ToSet(s)
  BY <1>9, ToSetIs
<1>13. s = heap.inner[op]
  OBVIOUS
<1> HIDE DEF s
<1>14. Wrap(new, els, s[1], s[2], i, k, m)
  BY <1>2, <1>3, <1>4, <1>5, <1>6, <1>7, <1>8, <1>10, <1>11, <1>12, <1>13 DEF Wrap
<1>15. QED
  BY <1>14 DEF new, els, s, i, k

\* P are new operations, I new ones that hold s; the one visited holds t.
Formed(h, P, I, s, t) ==
  \A p \in Ops :
    /\ h.id[p] = IF p \in P THEN "plain" ELSE IF p \in I THEN "IF" ELSE heap.id[p]
    /\ h.inner[p] = IF p \in P THEN <<>> ELSE IF p \in I THEN s ELSE IF p = op THEN t ELSE heap.inner[p]

\* The steps that lower a while loop.
MovedTo(h, M, m, new, els) ==
  /\ Stage(h, M, Used, {}) /\ Having(M, Used, new, m, els, <<>>)
  /\ Formed(h, ToSet(m), {}, <<>>, <<>>) /\ h.bparent[new] = block
TestedTo(h, N, w, m, new, els, cond, i) ==
  /\ Stage(h, N, Used \ {cond}, {}) /\ Having(N, Used \ {cond}, new, w, els, <<>>)
  /\ Formed(h, ToSet(m), {i}, <<>>, <<>>)
  /\ h.bparent[new] = block /\ h.parent[i] = new
FilledTo(h, N, w, m, new, els, cond, body, i) ==
  /\ Stage(h, N, Used \ {cond}, {i}) /\ Having(N, Used \ {cond}, new, w, els, <<>>)
  /\ Formed(h, ToSet(m), {i}, <<body>>, <<>>)
  /\ h.bparent[new] = block /\ h.bparent[body] = new /\ h.parent[i] = new
BrokenTo(h, N, w, m, new, els, cond, body, i, k) ==
  /\ Stage(h, N, Used \ {cond}, {i}) /\ Having(N, Used \ {cond}, new, w, els, <<k>>)
  /\ Formed(h, ToSet(m) \cup {k}, {i}, <<body>>, <<>>)
  /\ h.bparent[new] = block /\ h.bparent[body] = new /\ h.bparent[els] = new

Moved(new, m) == IF m = <<>> THEN Opened(new) ELSE AddOp(Opened(new), new, NewOp, "plain")

LEMMA MovedIs ==
  ASSUME IInv, NEW new, NEW els, NEW cond, NEW body, NEW i, NEW k, NEW m, Wrap(new, els, cond, body, i, k, m)
  PROVE  \E M : MovedTo(Moved(new, m), M, m, new, els)
<1> SUFFICES \E M : /\ Stage(Moved(new, m), M, Used, {}) /\ Having(M, Used, new, m, els, <<>>)
               /\ Formed(Moved(new, m), ToSet(m), {}, <<>>, <<>>) /\ Moved(new, m).bparent[new] = block
  BY DEF MovedTo
<1> DEFINE h == Opened(new)
           Q == <<>>
<1>1. /\ m = <<>> \/ m = <<NewOp>>
      /\ op \in Ops /\ block \in Blocks /\ new \in Used /\ els \in Used /\ new # els
      /\ Listed[new] = <<>> /\ Listed[els] = <<>> /\ NotHeld(heap.inner, new)
      /\ ToSet(m) \subseteq FreshOps
      /\ \A p \in FreshOps : p \in Ops /\ p # op /\ \A c \in Used : p \notin ToSet(Listed[c])
  BY DEF Wrap
<1>2. /\ Stage(h, Listed, Used, {})
      /\ h.id = heap.id /\ h.inner[op] = Q
      /\ \A p \in Ops : p # op => h.inner[p] = heap.inner[p]
      /\ h.bparent[new] = block
  BY <1>1, OpenedIs
<1>3. CASE m = <<>>
  <2>1. Moved(new, m) = h /\ ToSet(m) = {}
    BY <1>3, Empty DEF Moved
  <2> HIDE DEF h, Q
  <2>2. Having(Listed, Used, new, m, els, <<>>)
    BY <1>1, <1>3 DEF Having
  <2>3. Formed(h, {}, {}, Q, Q)
    BY <1>2 DEF Formed
  <2>4. QED
    BY <1>2, <2>1, <2>2, <2>3 DEF Q
<1>4. CASE m = <<NewOp>>
  <2> DEFINE q == NewOp
             g == AddOp(h, new, q, "plain")
             M == Changed(Listed, Used, new, <<q>>)
  <2>1. q \in Ops /\ ToSet(m) = {q} /\ m = <<q>> /\ m # <<>> /\ m \in Seq(Ops) /\ q # op /\ \A c \in Used : q \notin ToSet(Listed[c])
    <3>1. m = <<q>>
      BY <1>4
    <3> HIDE DEF q
    <3>2. ToSet(<<q>>) = {q}
      BY Single
    <3>3. q \in FreshOps
      BY <1>1, <3>1, <3>2
    <3>4. <<q>> \in Seq(Ops) /\ <<q>> # <<>> /\ q \in Ops
      BY <1>1, <3>3, Single
    <3>5. QED
      BY <1>1, <3>1, <3>2, <3>3, <3>4
  <2>2. Moved(new, m) = g
    BY <2>1 DEF Moved
  <2> HIDE DEF h, q, Q
  <2>3. Listed[new] \o <<q>> = <<q>>
    BY <1>1, <2>1, ConcatEmpty
  <2>4. Stage(g, M, Used, {}) /\ Created(g, h, new, q, "plain")
    <3>1. "plain" \in Kinds
      BY DEF Kinds
    <3>2. Stage(g, Changed(Listed, Used, new, Listed[new] \o <<q>>), Used, {}) /\ Created(g, h, new, q, "plain")
      BY <1>1, <1>2, <2>1, <3>1, AddOpStage
    <3>3. QED
      BY <2>3, <3>2
  <2>5. M[new] = m /\ \A c \in Used : c # new => M[c] = Listed[c]
    <3>1. Used \subseteq Blocks
      BY InvIs
    <3>2. QED
      BY <1>1, <2>1, <3>1 DEF Changed
  <2> HIDE DEF g, M
  <2>6. Having(M, Used, new, m, els, <<>>)
    BY <1>1, <2>5 DEF Having
  <2>7. Formed(g, {q}, {}, Q, Q)
    BY <1>2, <2>1, <2>4 DEF Formed, Created, Q
  <2>8. g.bparent[new] = block
    BY <1>2, <2>4 DEF Created
  <2>9. QED
    BY <2>1, <2>2, <2>4, <2>6, <2>7, <2>8 DEF Q
<1>5. QED
  BY <1>1, <1>3, <1>4

Tested(h, new, cond, i) == AddOp(AddAllOp(h, new, cond), new, i, "IF")

LEMMA TestedIs ==
  ASSUME IInv, NEW new, NEW els, NEW cond, NEW body, NEW i, NEW k, NEW m, Wrap(new, els, cond, body, i, k, m),
         NEW h, NEW M, NEW w, w = (m \o Listed[cond]) \o <<i>>,
         MovedTo(h, M, m, new, els)
  PROVE  \E N : TestedTo(Tested(h, new, cond, i), N, w, m, new, els, cond, i)
<1> SUFFICES ASSUME Stage(h, M, Used, {}), Having(M, Used, new, m, els, <<>>),
                    Formed(h, ToSet(m), {}, <<>>, <<>>), h.bparent[new] = block
             PROVE  \E N : /\ Stage(Tested(h, new, cond, i), N, Used \ {cond}, {})
                           /\ Having(N, Used \ {cond}, new, w, els, <<>>)
                           /\ Formed(Tested(h, new, cond, i), ToSet(m), {i}, <<>>, <<>>)
                           /\ Tested(h, new, cond, i).bparent[new] = block
                           /\ Tested(h, new, cond, i).parent[i] = new
  BY DEF MovedTo, TestedTo
<1> DEFINE V == Used \ {cond}
           z == m \o Listed[cond]
           h1 == AddAllOp(h, new, cond)
           g == AddOp(h1, new, i, "IF")
           L == Changed(M, V, new, z)
           N == Changed(M, V, new, w)
           Q == <<>>
           P == ToSet(m)
<1>1. /\ i \in Ops /\ i # op /\ op \in Ops /\ \A c \in Used : i \notin ToSet(Listed[c])
      /\ m \in Seq(Ops) /\ i \notin ToSet(m)
      /\ new \in Used /\ els \in Used /\ cond \in Used /\ new # els /\ new # cond /\ els # cond
      /\ NotHeld(heap.inner, new)
      /\ \A p \in Ops : cond \in ToSet(heap.inner[p]) => p = op
  <2>1. /\ i \in FreshOps /\ \A p \in FreshOps : p \in Ops /\ p # op /\ \A c \in Used : p \notin ToSet(Listed[c])
    BY DEF Wrap
  <2>2. /\ op \in Ops /\ m \in Seq(Ops) /\ i \notin ToSet(m)
        /\ new \in fresh /\ els \in fresh /\ new # els /\ {new, els, cond, body} \subseteq Used
        /\ cond \notin fresh /\ NotHeld(heap.inner, new)
        /\ \A p \in Ops : cond \in ToSet(heap.inner[p]) => p = op
    BY DEF Wrap
  <2>3. QED
    BY <2>1, <2>2
<1>2. /\ Stage(h, M, Used, {}) /\ Rep(h, M, Used) /\ Used \subseteq Blocks
      /\ M \in [Blocks -> Seq(Ops)] /\ \A c \in Used : \A p \in ToSet(M[c]) : p \in Ops
  BY StageIs
<1>3. M[new] = m /\ M[els] = Q /\ \A c \in Used : c # new /\ c # els => M[c] = Listed[c]
  BY DEF Having
<1>4. \A p \in Ops : /\ h.id[p] = IF p \in P THEN "plain" ELSE heap.id[p]
                     /\ h.inner[p] = IF p \in P THEN Q ELSE IF p = op THEN Q ELSE heap.inner[p]
  BY DEF Formed
<1>5. ToSet(Q) = {}
  BY Empty
<1>6. NotHeld(h.inner, new) /\ NotHeld(h.inner, cond)
  <2> HIDE DEF Q, P
  <2>1. QED
    BY <1>1, <1>4, <1>5 DEF NotHeld
<1>7. M[cond] = Listed[cond] /\ Listed[cond] \in Seq(Ops)
  BY <1>1, <1>2, <1>3
<1>8. z \in Seq(Ops) /\ ToSet(z) = ToSet(M[new]) \cup ToSet(M[cond])
  BY <1>1, <1>3, <1>7, Sequences, ToSetConcat
<1>9. HandedOver(h1, h, M, Used, new, cond, z)
  <2>1. HandedOver(h1, h, M, Used, new, cond, M[new] \o M[cond])
    BY <1>1, <1>2, AddAllOpIs
  <2>2. QED
    BY <1>3, <1>7, <2>1
<1> HIDE DEF z, h1
<1>10. Stage(h1, L, V, {})
  <2>1. Unheld(h, M, Used, {}, cond)
    BY <1>2, <1>6 DEF Unheld, NotHeld
  <2>2. ToSet(z) \subseteq ToSet(M[new]) \cup ToSet(M[cond])
    BY <1>8
  <2>3. QED
    BY <1>1, <1>2, <1>8, <1>9, <2>1, <2>2, HandOverStage
<1>11. h1.id = h.id /\ h1.inner = h.inner /\ h1.bparent[new] = block
  <2>1. new \in Blocks /\ new \notin InnerBlocks(h, ToSet(M[cond]))
    BY <1>1, <1>2, <1>6 DEF InnerBlocks, NotHeld
  <2>2. QED
    BY <1>9, <2>1 DEF HandedOver, SameNodes
<1>12. L[new] = z /\ \A c \in V : c # new => L[c] = M[c]
  BY <1>1, <1>2 DEF Changed
<1>13. N[new] = w /\ \A c \in V : c # new => N[c] = M[c]
  BY <1>1, <1>2 DEF Changed
<1>14. N = Changed(L, V, new, w)
  BY ChangedTwice
<1> HIDE DEF L, N
<1>15. \A c \in V : i \notin ToSet(L[c])
  <2>1. i \notin ToSet(z)
    BY <1>1, <1>3, <1>7, <1>8
  <2>2. \A c \in V : c # new => i \notin ToSet(L[c])
    BY <1>1, <1>3, <1>5, <1>12
  <2>3. QED
    BY <1>12, <2>1, <2>2
<1>16. Stage(g, N, V, {}) /\ Created(g, h1, new, i, "IF")
  <2>1. "IF" \in Kinds /\ new \in V
    BY <1>1 DEF Kinds
  <2>2. Stage(g, Changed(L, V, new, L[new] \o <<i>>), V, {}) /\ Created(g, h1, new, i, "IF")
    BY <1>1, <1>10, <1>15, <2>1, AddOpStage
  <2>3. w = L[new] \o <<i>>
    BY <1>12 DEF z
  <2>4. QED
    BY <1>14, <2>2, <2>3
<1> HIDE DEF g, P
<1>17. /\ g.bparent[new] = block /\ g.parent[i] = new
       /\ g.id[i] = "IF" /\ \A p \in Ops : p # i => g.id[p] = h.id[p]
       /\ g.inner[i] = Q /\ \A p \in Ops : p # i => g.inner[p] = h.inner[p]
  BY <1>11, <1>16 DEF Created
<1>18. Having(N, V, new, w, els, <<>>)
  BY <1>1, <1>3, <1>13 DEF Having
<1>19. Formed(g, P, {i}, Q, Q)
  <2>1. i \notin P
    BY <1>1 DEF P
  <2> HIDE DEF Q
  <2>2. ASSUME NEW p \in Ops
        PROVE  /\ g.id[p] = IF p \in P THEN "plain" ELSE IF p \in {i} THEN "IF" ELSE heap.id[p]
               /\ g.inner[p] = IF p \in P THEN Q ELSE IF p \in {i} THEN Q ELSE IF p = op THEN Q ELSE heap.inner[p]
    <3>1. CASE p = i
      BY <1>17, <2>1, <3>1
    <3>2. CASE p # i
      BY <1>4, <1>17, <3>2
    <3>3. QED
      BY <3>1, <3>2
  <2>3. QED
    BY <2>2 DEF Formed, Q
<1>20. Tested(h, new, cond, i) = g
  BY DEF Tested, g, h1
<1>21. QED
  BY <1>16, <1>17, <1>18, <1>19, <1>20 DEF P

Filled(h, body, i) == AddInner(WithBparent(h, body, h.parent[i]), i, body)

LEMMA FilledIs ==
  ASSUME IInv, NEW new, NEW els, NEW cond, NEW body, NEW i, NEW k, NEW m, Wrap(new, els, cond, body, i, k, m),
         NEW h, NEW N, NEW w, TestedTo(h, N, w, m, new, els, cond, i)
  PROVE  FilledTo(Filled(h, body, i), N, w, m, new, els, cond, body, i)
<1> SUFFICES ASSUME Stage(h, N, Used \ {cond}, {}), Formed(h, ToSet(m), {i}, <<>>, <<>>),
                    h.bparent[new] = block, h.parent[i] = new
             PROVE  /\ Stage(Filled(h, body, i), N, Used \ {cond}, {i})
                    /\ Formed(Filled(h, body, i), ToSet(m), {i}, <<body>>, <<>>)
                    /\ Filled(h, body, i).bparent[new] = block /\ Filled(h, body, i).bparent[body] = new
                    /\ Filled(h, body, i).parent[i] = new
  BY DEF TestedTo, FilledTo
<1> DEFINE V == Used \ {cond}
           h1 == WithBparent(h, body, h.parent[i])
           g == AddInner(h1, i, body)
           Q == <<>>
           P == ToSet(m)
<1>1. /\ i \in Ops /\ i # op /\ op \in Ops /\ i \notin P
      /\ new \in V /\ body \in V /\ new # body /\ body # Root
      /\ \A p \in Ops : body \in ToSet(heap.inner[p]) => p = op
  <2>1. /\ i \in FreshOps /\ \A p \in FreshOps : p \in Ops /\ p # op
    BY DEF Wrap
  <2>2. /\ op \in Ops /\ i \notin ToSet(m)
        /\ new \in fresh /\ {new, els, cond, body} \subseteq Used \ {Root}
        /\ cond \notin fresh /\ body \notin fresh /\ cond # body
        /\ \A p \in Ops : body \in ToSet(heap.inner[p]) => p = op
    BY DEF Wrap
  <2>3. QED
    BY <2>1, <2>2
<1>2. Stage(h, N, V, {}) /\ V \subseteq Blocks /\ h \in Heap
  <2>1. Stage(h, N, V, {})
    OBVIOUS
  <2> HIDE DEF V
  <2>2. QED
    BY <2>1, StageIs
<1>3. \A p \in Ops : /\ h.id[p] = IF p \in P THEN "plain" ELSE IF p \in {i} THEN "IF" ELSE heap.id[p]
                     /\ h.inner[p] = IF p \in P THEN Q ELSE IF p \in {i} THEN Q ELSE IF p = op THEN Q ELSE heap.inner[p]
  BY DEF Formed
<1>4. ToSet(Q) = {}
  BY Empty
<1> HIDE DEF Q, P, V
<1>5. NotHeld(h.inner, body)
  BY <1>1, <1>3, <1>4 DEF NotHeld
<1>6. new \in Blocks /\ body \in Blocks
  BY <1>1, <1>2
<1>7. Stage(h1, N, V, {}) /\ h1 \in Heap /\ SameNodes(h1, h)
      /\ h1.parent = h.parent /\ h1.bparent[body] = new /\ h1.bparent[new] = block
  <2>1. h1 = WithBparent(h, body, new)
    OBVIOUS
  <2> HIDE DEF h1
  <2>2. Stage(WithBparent(h, body, new), N, V, {})
    BY <1>1, <1>2, <1>5, <1>6, WithBparentStage
  <2>3. /\ WithBparent(h, body, new) \in Heap /\ SameNodes(WithBparent(h, body, new), h)
        /\ WithBparent(h, body, new).parent = h.parent
        /\ WithBparent(h, body, new).bparent[body] = new
        /\ \A c \in Blocks : c # body => WithBparent(h, body, new).bparent[c] = h.bparent[c]
    BY <1>2, <1>6, WithBparentIs
  <2>4. QED
    BY <1>1, <1>6, <2>1, <2>2, <2>3
<1> HIDE DEF h1
<1>8. h1.id = h.id /\ h1.inner = h.inner
  BY <1>7 DEF SameNodes
<1>9. Stage(g, N, V, {} \cup {i})
  <2>1. NotHeld(h1.inner, body) /\ body \in Blocks \ {Root}
    BY <1>1, <1>5, <1>6, <1>8
  <2>2. QED
    BY <1>1, <1>7, <2>1, AddInnerStage
<1>10. InnerSet(g, h1, i, Append(h1.inner[i], body))
  BY <1>1, <1>6, <1>7, AddInnerIs
<1> HIDE DEF g
<1>11. h1.inner[i] = <<>>
  BY <1>1, <1>3, <1>8 DEF Q
<1>12. /\ g.id = h.id /\ g.inner[i] = <<body>> /\ \A p \in Ops : p # i => g.inner[p] = h.inner[p]
       /\ g.parent = h.parent /\ g.bparent = h1.bparent
  <2>1. Append(<<>>, body) = <<body>>
    BY <1>6, AppendTo
  <2>2. InnerSet(g, h1, i, <<body>>)
    BY <1>10, <1>11, <2>1
  <2>3. QED
    BY <1>7, <1>8, <2>2 DEF InnerSet, SameOwners
<1>13. Formed(g, P, {i}, <<body>>, Q)
  <2> DEFINE s == <<body>>
  <2>1. g.inner[i] = s
    BY <1>12
  <2> HIDE DEF s
  <2>2. ASSUME NEW p \in Ops
        PROVE  /\ g.id[p] = IF p \in P THEN "plain" ELSE IF p \in {i} THEN "IF" ELSE heap.id[p]
               /\ g.inner[p] = IF p \in P THEN Q ELSE IF p \in {i} THEN s ELSE IF p = op THEN Q ELSE heap.inner[p]
    <3>1. CASE p = i
      BY <1>1, <1>3, <1>12, <2>1, <3>1
    <3>2. CASE p # i
      BY <1>3, <1>12, <3>2
    <3>3. QED
      BY <3>1, <3>2
  <2>3. QED
    BY <2>2 DEF Formed, s, Q
<1>14. g = Filled(h, body, i)
  BY DEF g, h1, Filled
<1>15. {} \cup {i} = {i}
  OBVIOUS
<1>16. Stage(g, N, V, {i})
  BY <1>9, <1>15
<1>17. g.bparent[new] = block /\ g.bparent[body] = new /\ g.parent[i] = new
  BY <1>7, <1>12
<1>18. QED
  BY <1>13, <1>14, <1>16, <1>17 DEF Q, P, V

LEMMA EndedBy ==
  ASSUME NEW m \in Seq(Ops), NEW y \in Seq(Ops), NEW i \in Ops
  PROVE  (m \o y) \o <<i>> \in Seq(Ops) /\ ToSet((m \o y) \o <<i>>) = ToSet(m) \cup ToSet(y) \cup {i}
<1> DEFINE I == <<i>>
           z == m \o y
<1>1. I \in Seq(Ops) /\ ToSet(I) = {i}
  BY Single
<1> HIDE DEF I
<1>2. z \in Seq(Ops) /\ ToSet(z) = ToSet(m) \cup ToSet(y)
  BY Sequences, ToSetConcat
<1> HIDE DEF z
<1>3. z \o I \in Seq(Ops) /\ ToSet(z \o I) = ToSet(z) \cup ToSet(I)
  BY <1>1, <1>2, Sequences, ToSetConcat
<1>4. QED
  BY <1>1, <1>2, <1>3 DEF I, z

Broken(h, els, i, k) == AddOp(InitBlock(h, els, h.parent[i]), els, k, "plain")

LEMMA BrokenIs ==
  ASSUME IInv, NEW new, NEW els, NEW cond, NEW body, NEW i, NEW k, NEW m, Wrap(new, els, cond, body, i, k, m),
         NEW h, NEW M, NEW w, w = (m \o Listed[cond]) \o <<i>>,
         FilledTo(h, M, w, m, new, els, cond, body, i)
  PROVE  \E N : BrokenTo(Broken(h, els, i, k), N, w, m, new, els, cond, body, i, k)
<1> SUFFICES ASSUME Stage(h, M, Used \ {cond}, {i}), Having(M, Used \ {cond}, new, w, els, <<>>),
                    Formed(h, ToSet(m), {i}, <<body>>, <<>>),
                    h.bparent[new] = block, h.bparent[body] = new, h.parent[i] = new
             PROVE  \E N : /\ Stage(Broken(h, els, i, k), N, Used \ {cond}, {i})
                           /\ Having(N, Used \ {cond}, new, w, els, <<k>>)
                           /\ Formed(Broken(h, els, i, k), ToSet(m) \cup {k}, {i}, <<body>>, <<>>)
                           /\ Broken(h, els, i, k).bparent[new] = block
                           /\ Broken(h, els, i, k).bparent[body] = new
                           /\ Broken(h, els, i, k).bparent[els] = new
  BY DEF FilledTo, BrokenTo
<1> DEFINE V == Used \ {cond}
           h1 == InitBlock(h, els, h.parent[i])
           g == AddOp(h1, els, k, "plain")
           one == <<k>>
           N == Changed(M, V, els, one)
           Q == <<>>
           P == ToSet(m)
           s == <<body>>
           X == {i}
<1>1. /\ i \in Ops /\ i # op /\ op \in Ops /\ i \notin P /\ k \in Ops /\ k # op /\ k # i /\ k \notin P
      /\ m \in Seq(Ops) /\ cond \in Used
      /\ \A c \in Used : k \notin ToSet(Listed[c])
      /\ new \in V /\ body \in V /\ els \in V /\ els # new /\ els # body
      /\ NotHeld(heap.inner, els)
  <2>1. /\ i \in FreshOps /\ k \in FreshOps /\ i # k
        /\ \A p \in FreshOps : p \in Ops /\ p # op /\ \A c \in Used : p \notin ToSet(Listed[c])
    BY DEF Wrap
  <2>2. /\ op \in Ops /\ i \notin ToSet(m) /\ k \notin ToSet(m) /\ m \in Seq(Ops)
        /\ new \in fresh /\ els \in fresh /\ new # els /\ {new, els, cond, body} \subseteq Used \ {Root}
        /\ cond \notin fresh /\ body \notin fresh /\ cond # body
        /\ NotHeld(heap.inner, els)
    BY DEF Wrap
  <2>3. QED
    BY <2>1, <2>2
<1>2. Stage(h, M, V, X) /\ V \subseteq Blocks /\ h \in Heap
  <2>1. Stage(h, M, V, X)
    OBVIOUS
  <2> HIDE DEF V, X
  <2>2. QED
    BY <2>1, StageIs
<1>3. \A p \in Ops : /\ h.id[p] = IF p \in P THEN "plain" ELSE IF p \in {i} THEN "IF" ELSE heap.id[p]
                     /\ h.inner[p] = IF p \in P THEN Q ELSE IF p \in {i} THEN s ELSE IF p = op THEN Q ELSE heap.inner[p]
  BY DEF Formed
<1>4. ToSet(Q) = {} /\ ToSet(s) = {body}
  BY Empty, Single
<1>5. M[new] = w /\ M[els] = Q /\ \A c \in V : c # new /\ c # els => M[c] = Listed[c]
  BY DEF Having
<1>6. k \notin ToSet(w)
  <2>1. Listed[cond] \in Seq(Ops)
    <3>1. Rep(heap, Listed, Used)
      BY InvIs
    <3>2. QED
      BY <1>1, <3>1, RepList
  <2>2. ToSet(w) = ToSet(m) \cup ToSet(Listed[cond]) \cup {i}
    BY <1>1, <2>1, EndedBy
  <2>3. QED
    BY <1>1, <2>2
<1>7. N[els] = one /\ \A c \in V : c # els => N[c] = M[c]
  BY <1>1, <1>2 DEF Changed
<1> HIDE DEF Q, P, s, X
<1>8. NotHeld(h.inner, els)
  BY <1>1, <1>3, <1>4 DEF NotHeld
<1>9. \A c \in V : k \notin ToSet(M[c])
  <2>1. \A c \in V : c \in Used
    OBVIOUS
  <2> HIDE DEF V
  <2>2. QED
    BY <1>1, <1>4, <1>5, <1>6, <2>1
<1>10. new \in Blocks /\ els \in Blocks /\ body \in Blocks
  BY <1>1, <1>2
<1> HIDE DEF V
<1>11. Stage(h1, M, V, X) /\ SameNodes(h1, h) /\ h1.parent = h.parent
       /\ h1.bparent[els] = new /\ h1.bparent[new] = block /\ h1.bparent[body] = new
  <2>1. h1 = InitBlock(h, els, new)
    OBVIOUS
  <2>2. M[els] = <<>>
    BY <1>5 DEF Q
  <2> HIDE DEF h1
  <2>3. Stage(InitBlock(h, els, new), M, V, X)
    BY <1>1, <1>2, <1>8, <1>10, <2>2, InitBlockStage
  <2>4. /\ SameNodes(InitBlock(h, els, new), h) /\ InitBlock(h, els, new).parent = h.parent
        /\ InitBlock(h, els, new).bparent[els] = new
        /\ \A c \in Blocks : c # els => InitBlock(h, els, new).bparent[c] = h.bparent[c]
    BY <1>2, <1>10, InitBlockIs
  <2>5. QED
    BY <1>1, <1>10, <2>1, <2>3, <2>4
<1> HIDE DEF h1
<1>12. h1.id = h.id /\ h1.inner = h.inner
  BY <1>11 DEF SameNodes
<1>13. Stage(g, N, V, X) /\ Created(g, h1, els, k, "plain")
  <2>1. "plain" \in Kinds
    BY DEF Kinds
  <2>2. Stage(g, Changed(M, V, els, M[els] \o <<k>>), V, X) /\ Created(g, h1, els, k, "plain")
    BY <1>1, <1>9, <1>11, <2>1, AddOpStage
  <2>3. M[els] \o <<k>> = one
    BY <1>1, <1>5, Single, ConcatEmpty DEF Q
  <2>4. QED
    BY <2>2, <2>3
<1> HIDE DEF g, N
<1>14. /\ g.bparent[new] = block /\ g.bparent[body] = new /\ g.bparent[els] = new
       /\ g.id[k] = "plain" /\ \A p \in Ops : p # k => g.id[p] = h.id[p]
       /\ g.inner[k] = Q /\ \A p \in Ops : p # k => g.inner[p] = h.inner[p]
  BY <1>11, <1>12, <1>13 DEF Created, Q
<1>15. Having(N, V, new, w, els, one)
  BY <1>1, <1>5, <1>7 DEF Having
<1>16. Formed(g, P \cup {k}, {i}, s, Q)
  <2>1. ASSUME NEW p \in Ops
        PROVE  /\ g.id[p] = IF p \in P \cup {k} THEN "plain" ELSE IF p \in {i} THEN "IF" ELSE heap.id[p]
               /\ g.inner[p] = IF p \in P \cup {k} THEN Q ELSE IF p \in {i} THEN s ELSE IF p = op THEN Q ELSE heap.inner[p]
    <3>1. CASE p = k
      BY <1>14, <3>1
    <3>2. CASE p # k
      BY <1>3, <1>14, <3>2
    <3>3. QED
      BY <3>1, <3>2
  <2>2. QED
    BY <2>1 DEF Formed, Q
<1>17. g = Broken(h, els, i, k)
  BY DEF g, h1, Broken
<1>18. QED
  BY <1>13, <1>14, <1>15, <1>16, <1>17 DEF P, Q, V, X, s

\* P are new operations, i is a new if that holds s; the one visited is a loop of t.
Settled(h, P, i, s, t) ==
  \A p \in Ops :
    /\ h.id[p] = IF p \in P THEN "plain" ELSE IF p = i THEN "IF" ELSE IF p = op THEN "INFINITE" ELSE heap.id[p]
    /\ h.inner[p] = IF p \in P THEN <<>> ELSE IF p = i THEN s ELSE IF p = op THEN t ELSE heap.inner[p]

Looped(h, els, i, new) == WithId(AddInner(AddInner(h, i, els), op, new), op, "INFINITE")

Closing(g, N, V, R, new, els, cond, body, i, k, m) ==
  /\ Stage(g, N, V, {})
  /\ Having(N, V, new, (m \o Listed[cond]) \o <<i>>, els, <<k>>)
  /\ Settled(g, ToSet(m) \cup {k}, i, <<body, els>>, <<new>>)
  /\ LeadsTo(g, op, R)

LEMMA RenamedStage ==
  ASSUME NEW h, NEW L, NEW U, NEW X, Stage(h, L, U, X), NEW o \in Ops, NEW k \in Kinds
  PROVE  Stage(WithId(h, o, k), L, U, X)
<1> DEFINE g == WithId(h, o, k)
<1>1. Rep(h, L, U) /\ h \in Heap /\ HeldBut(h, L, U, X)
  BY StageIs DEF Stage
<1>2. g \in Heap /\ SameLinks(g, h) /\ SameOwners(g, h) /\ g.inner = h.inner
  BY <1>1, WithIdIs
<1> HIDE DEF g
<1>3. g.parent = h.parent /\ g.bparent = h.bparent
  BY <1>2 DEF SameOwners
<1>4. Rep(g, L, U)
  BY <1>1, <1>2, <1>3, RepSame
<1>5. HeldBut(g, L, U, X)
  BY <1>1, <1>2, <1>3 DEF HeldBut
<1>6. QED
  BY <1>4, <1>5 DEF Stage, g

LEMMA LoopedIs ==
  ASSUME IInv, NEW B \in Seq(Ops), NEW R \in Seq(Ops), Standing(B, R),
         NEW new, NEW els, NEW cond, NEW body, NEW i, NEW k, NEW m, Wrap(new, els, cond, body, i, k, m),
         NEW h, NEW N, NEW w, w = (m \o Listed[cond]) \o <<i>>,
         BrokenTo(h, N, w, m, new, els, cond, body, i, k)
  PROVE  Closing(Looped(h, els, i, new), N, Used \ {cond}, R, new, els, cond, body, i, k, m)
<1> SUFFICES ASSUME Stage(h, N, Used \ {cond}, {i}), Having(N, Used \ {cond}, new, w, els, <<k>>),
                    Formed(h, ToSet(m) \cup {k}, {i}, <<body>>, <<>>),
                    h.bparent[new] = block, h.bparent[body] = new, h.bparent[els] = new
             PROVE  /\ Stage(Looped(h, els, i, new), N, Used \ {cond}, {})
                    /\ Settled(Looped(h, els, i, new), ToSet(m) \cup {k}, i, <<body, els>>, <<new>>)
                    /\ LeadsTo(Looped(h, els, i, new), op, R)
  BY DEF BrokenTo, Closing
<1> DEFINE V == Used \ {cond}
           h6 == AddInner(h, i, els)
           h7 == AddInner(h6, op, new)
           g == WithId(h7, op, "INFINITE")
           Q == <<>>
           P == ToSet(m) \cup {k}
           s == <<body>>
           s2 == <<body, els>>
           t == <<new>>
           X == {i}
<1>1. /\ i \in Ops /\ i # op /\ op \in Ops /\ i \notin P /\ k \in Ops /\ k # op /\ k # i /\ op \notin P
      /\ m \in Seq(Ops) /\ cond \in Used /\ cond # block /\ i \notin ToSet(m) /\ op \notin ToSet(m)
      /\ \A c \in Used : i \notin ToSet(Listed[c])
      /\ new \in V /\ body \in V /\ els \in V /\ els # new /\ els # body /\ els # Root /\ new # Root /\ new # body
      /\ NotHeld(heap.inner, els) /\ NotHeld(heap.inner, new)
  <2>1. /\ i \in FreshOps /\ k \in FreshOps /\ i # k
        /\ \A p \in FreshOps : p \in Ops /\ p # op /\ \A c \in Used : p \notin ToSet(Listed[c])
    BY DEF Wrap
  <2>2. /\ op \in Ops /\ i \notin ToSet(m) /\ k \notin ToSet(m) /\ m \in Seq(Ops) /\ ToSet(m) \subseteq FreshOps
        /\ new \in fresh /\ els \in fresh /\ new # els /\ {new, els, cond, body} \subseteq Used \ {block, Root}
        /\ cond \notin fresh /\ body \notin fresh /\ cond # body
        /\ NotHeld(heap.inner, els) /\ NotHeld(heap.inner, new)
    BY DEF Wrap
  <2>3. QED
    BY <2>1, <2>2
<1>2. Stage(h, N, V, X) /\ V \subseteq Blocks /\ h \in Heap
  <2>1. Stage(h, N, V, X)
    OBVIOUS
  <2> HIDE DEF V, X
  <2>2. QED
    BY <2>1, StageIs
<1>3. \A p \in Ops : /\ h.id[p] = IF p \in P THEN "plain" ELSE IF p \in {i} THEN "IF" ELSE heap.id[p]
                     /\ h.inner[p] = IF p \in P THEN Q ELSE IF p \in {i} THEN s ELSE IF p = op THEN Q ELSE heap.inner[p]
  BY DEF Formed
<1>4. ToSet(Q) = {} /\ ToSet(s) = {body} /\ ToSet(s2) = {body, els} /\ ToSet(t) = {new}
  BY Empty, Single, PairSet
<1>5. N[new] = w /\ N[els] = <<k>> /\ \A c \in V : c # new /\ c # els => N[c] = Listed[c]
  BY DEF Having
<1>6. ToSet(w) = ToSet(m) \cup ToSet(Listed[cond]) \cup {i} /\ ToSet(<<k>>) = {k}
  <2>1. Listed[cond] \in Seq(Ops)
    <3>1. Rep(heap, Listed, Used)
      BY InvIs
    <3>2. QED
      BY <1>1, <3>1, RepList
  <2>2. ToSet(w) = ToSet(m) \cup ToSet(Listed[cond]) \cup {i}
    BY <1>1, <2>1, EndedBy
  <2>3. ToSet(<<k>>) = {k}
    BY <1>1, Single
  <2>4. QED
    BY <2>2, <2>3
<1>7. op \notin ToSet(Listed[cond]) /\ \A c \in Used : c # block => op \notin ToSet(Listed[c])
  BY <1>1, StandingOnce
<1>8. \A c \in V : /\ i \in ToSet(N[c]) => c = new
                   /\ op \in ToSet(N[c]) => c = block
  <2>1. \A c \in V : c \in Used
    OBVIOUS
  <2> HIDE DEF V
  <2>2. QED
    BY <1>1, <1>5, <1>6, <1>7, <2>1
<1>9. block \in V /\ block # new /\ block # els
  <2>1. block \in Used
    BY DEF Standing
  <2>2. \A b \in {new, els} : b # block
    BY DEF Wrap
  <2>3. QED
    BY <1>1, <2>1, <2>2
<1> HIDE DEF Q, P, s, s2, t, X, V
<1>10. NotHeld(h.inner, els) /\ NotHeld(h.inner, new)
  BY <1>1, <1>3, <1>4 DEF NotHeld
<1>11. new \in Blocks /\ els \in Blocks /\ body \in Blocks
  BY <1>1, <1>2
<1>12. Stage(h6, N, V, X \cup {i})
  BY <1>1, <1>2, <1>10, <1>11, AddInnerStage
<1>13. InnerSet(h6, h, i, s2)
  <2>1. InnerSet(h6, h, i, Append(h.inner[i], els))
    BY <1>1, <1>2, <1>11, AddInnerIs
  <2>2. h.inner[i] = <<body>>
    BY <1>1, <1>3 DEF s
  <2>3. Append(<<body>>, els) = <<body, els>>
    BY <1>11, AppendTo
  <2>4. QED
    BY <2>1, <2>2, <2>3 DEF s2
<1> HIDE DEF h6
<1>14. /\ h6 \in Heap /\ h6.id = h.id /\ h6.bparent = h.bparent
       /\ h6.inner[i] = s2 /\ \A p \in Ops : p # i => h6.inner[p] = h.inner[p]
  BY <1>13 DEF InnerSet, SameOwners
<1>15. Stage(h6, N, V, {})
  <2>1. ASSUME NEW c \in V, NEW p \in ToSet(N[c]), p \in X \cup {i} /\ p \notin {}, NEW d \in ToSet(h6.inner[p])
        PROVE  d \in V /\ h6.bparent[d] = c
    <3>1. p = i
      BY <2>1 DEF X
    <3>2. c = new
      BY <1>8, <3>1
    <3>3. d = body \/ d = els
      BY <1>4, <1>14, <3>1
    <3>4. QED
      BY <1>1, <1>14, <3>2, <3>3
  <2>2. QED
    BY <1>12, <2>1, RevealedStage
<1>16. NotHeld(h6.inner, new)
  BY <1>1, <1>4, <1>10, <1>14 DEF NotHeld
<1>17. Stage(h7, N, V, {} \cup {op})
  BY <1>1, <1>11, <1>15, <1>16, AddInnerStage
<1>18. InnerSet(h7, h6, op, t)
  <2>1. InnerSet(h7, h6, op, Append(h6.inner[op], new))
    BY <1>1, <1>11, <1>14, AddInnerIs
  <2>2. h6.inner[op] = <<>>
    BY <1>1, <1>3, <1>14 DEF Q
  <2>3. Append(<<>>, new) = <<new>>
    BY <1>11, AppendTo
  <2>4. QED
    BY <2>1, <2>2, <2>3 DEF t
<1> HIDE DEF h7
<1>19. /\ h7 \in Heap /\ h7.id = h.id /\ h7.bparent = h.bparent
       /\ h7.inner[op] = t /\ \A p \in Ops : p # op => h7.inner[p] = h6.inner[p]
  BY <1>14, <1>18 DEF InnerSet, SameOwners
<1>20. Stage(h7, N, V, {})
  <2>1. ASSUME NEW c \in V, NEW p \in ToSet(N[c]), p \in {} \cup {op} /\ p \notin {}, NEW d \in ToSet(h7.inner[p])
        PROVE  d \in V /\ h7.bparent[d] = c
    <3>1. p = op
      BY <2>1
    <3>2. c = block
      BY <1>8, <3>1
    <3>3. d = new
      BY <1>4, <1>19, <3>1
    <3>4. QED
      BY <1>1, <1>19, <3>2, <3>3
  <2>2. QED
    BY <1>17, <2>1, RevealedStage
<1>21. "INFINITE" \in Kinds
  BY DEF Kinds
<1>22. Stage(g, N, V, {})
  BY <1>1, <1>20, <1>21, RenamedStage
<1>23. /\ g.inner = h7.inner /\ g.id[op] = "INFINITE" /\ \A p \in Ops : p # op => g.id[p] = h7.id[p]
  BY <1>1, <1>19, <1>21, WithIdIs
<1> HIDE DEF g
<1>24. Settled(g, P, i, s2, t)
  <2>1. ASSUME NEW p \in Ops
        PROVE  /\ g.id[p] = IF p \in P THEN "plain" ELSE IF p = i THEN "IF" ELSE IF p = op THEN "INFINITE" ELSE heap.id[p]
               /\ g.inner[p] = IF p \in P THEN Q ELSE IF p = i THEN s2 ELSE IF p = op THEN t ELSE heap.inner[p]
    <3>1. CASE p = i
      BY <1>1, <1>3, <1>14, <1>19, <1>23, <3>1
    <3>2. CASE p = op
      BY <1>1, <1>3, <1>14, <1>19, <1>23, <3>2
    <3>3. CASE p # i /\ p # op
      BY <1>3, <1>14, <1>19, <1>23, <3>3
    <3>4. QED
      BY <3>1, <3>2, <3>3
  <2>2. QED
    BY <2>1 DEF Settled, Q
<1>25. LeadsTo(g, op, R)
  <2>1. N[block] = B \o (<<op>> \o R)
    BY <1>5, <1>9 DEF Standing
  <2>2. Rep(g, N, V)
    BY <1>22, StageIs
  <2>3. QED
    BY <1>1, <1>9, <2>1, <2>2, NextInList
<1>26. g = Looped(h, els, i, new)
  BY DEF g, h7, h6, Looped
<1>27. QED
  BY <1>22, <1>24, <1>25, <1>26 DEF P, s2, t, V

Lowered(new, els, cond, body, i, k, m) ==
  Looped(Broken(Filled(Tested(Moved(new, m), new, cond, i), body, i), els, i, k), els, i, new)

LEMMA LoweredIs ==
  ASSUME IInv, NEW B \in Seq(Ops), NEW R \in Seq(Ops), Standing(B, R),
         NEW new, NEW els, NEW cond, NEW body, NEW i, NEW k, NEW m, Wrap(new, els, cond, body, i, k, m)
  PROVE  \E N : Closing(Lowered(new, els, cond, body, i, k, m), N, Used \ {cond}, R, new, els, cond, body, i, k, m)
<1> DEFINE h1 == Moved(new, m)
           h2 == Tested(h1, new, cond, i)
           h3 == Filled(h2, body, i)
           h4 == Broken(h3, els, i, k)
           w == (m \o Listed[cond]) \o <<i>>
<1>1. PICK L : MovedTo(h1, L, m, new, els)
  BY MovedIs
<1>2. w = (m \o Listed[cond]) \o <<i>> /\ Lowered(new, els, cond, body, i, k, m) = Looped(h4, els, i, new)
  BY DEF Lowered
<1> HIDE DEF h1, w
<1>3. PICK M : TestedTo(h2, M, w, m, new, els, cond, i)
  BY <1>1, <1>2, TestedIs
<1> HIDE DEF h2
<1>4. FilledTo(h3, M, w, m, new, els, cond, body, i)
  BY <1>3, FilledIs
<1> HIDE DEF h3
<1>5. PICK N : BrokenTo(h4, N, w, m, new, els, cond, body, i, k)
  BY <1>2, <1>4, BrokenIs
<1> HIDE DEF h4
<1>6. Closing(Looped(h4, els, i, new), N, Used \ {cond}, R, new, els, cond, body, i, k, m)
  BY <1>2, <1>5, LoopedIs
<1>7. QED
  BY <1>2, <1>6

\* What a while loop leaves is as it should be.
LEMMA ClosingDone ==
  ASSUME IInv, NEW B \in Seq(Ops), NEW R \in Seq(Ops), Standing(B, R),
         NEW new, NEW els, NEW cond, NEW body, NEW i, NEW k, NEW m, Wrap(new, els, cond, body, i, k, m),
         NEW g, NEW N, Closing(g, N, Used \ {cond}, R, new, els, cond, body, i, k, m),
         moved' = moved \cup {cond}, fresh' = fresh \ {new, els}
  PROVE  Done(g, N, Used \ {cond}, B \o <<op>>, R) /\ B \o <<op>> \in Seq(Ops)
<1> DEFINE V == Used \ {cond}
           w == (m \o Listed[cond]) \o <<i>>
           P == ToSet(m) \cup {k}
           s == <<body, els>>
           t == <<new>>
           Q == <<>>
<1>1. /\ op \in Ops /\ block \in Used /\ i \in Ops /\ i # op /\ k \in Ops /\ i \notin P /\ op \notin P /\ m \in Seq(Ops)
      /\ P \cup {i} \subseteq FreshOps /\ FreshOps \subseteq Ops
      /\ new \in fresh /\ els \in fresh /\ new # els
      /\ cond \in Used /\ cond # Root /\ cond # block /\ cond \notin fresh /\ cond \in ToSet(heap.inner[op])
      /\ {new, els, cond, body} \subseteq Used \ {block, Root} /\ body \notin fresh
  <2>1. /\ i \in FreshOps /\ k \in FreshOps /\ i # k
        /\ \A p \in FreshOps : p \in Ops /\ p # op
    BY DEF Wrap
  <2>2. /\ op \in Ops /\ i \notin ToSet(m) /\ k \notin ToSet(m) /\ m \in Seq(Ops) /\ ToSet(m) \subseteq FreshOps
        /\ new \in fresh /\ els \in fresh /\ new # els /\ {new, els, cond, body} \subseteq Used \ {block, Root}
        /\ {cond, body} \subseteq ToSet(heap.inner[op]) \ fresh /\ block \in Used
    BY DEF Wrap
  <2>3. QED
    BY <2>1, <2>2
<1>2. Stage(g, N, V, {}) /\ Having(N, V, new, w, els, <<k>>) /\ Settled(g, P, i, s, t) /\ LeadsTo(g, op, R)
  BY DEF Closing
<1>3. /\ moved \subseteq Blocks \ {Root} /\ Rep(heap, Listed, Used) /\ Used \subseteq Blocks
      /\ Kinded(heap, Listed, Used) /\ Unused(heap, Listed, Used, fresh)
  BY InvIs
<1>4. N[new] = w /\ N[els] = <<k>> /\ \A c \in V : c # new /\ c # els => N[c] = Listed[c]
  BY <1>2 DEF Having
<1>5. \A p \in Ops :
        /\ g.id[p] = IF p \in P THEN "plain" ELSE IF p = i THEN "IF" ELSE IF p = op THEN "INFINITE" ELSE heap.id[p]
        /\ g.inner[p] = IF p \in P THEN Q ELSE IF p = i THEN s ELSE IF p = op THEN t ELSE heap.inner[p]
  BY <1>2 DEF Settled
<1>6. \A c \in Used : Listed[c] \in Seq(Ops) /\ ToSet(Listed[c]) \subseteq Ops
  BY <1>3, RepList
<1>7. ToSet(w) = ToSet(m) \cup ToSet(Listed[cond]) \cup {i} /\ ToSet(<<k>>) = {k}
  <2>1. ToSet(w) = ToSet(m) \cup ToSet(Listed[cond]) \cup {i}
    BY <1>1, <1>6, EndedBy
  <2>2. ToSet(<<k>>) = {k}
    BY <1>1, Single
  <2>3. QED
    BY <2>1, <2>2
<1>8. ToSet(Q) = {} /\ ToSet(s) = {body, els} /\ ToSet(t) = {new} /\ Len(s) = 2
  BY Empty, Single, PairSet
<1> HIDE DEF w, P, s, t, Q, V
<1>9. ASSUME NEW c \in V, NEW p \in ToSet(N[c])
      PROVE  p \in P \/ p = i \/ \E a \in Used : p \in ToSet(Listed[a])
  <2>1. c \in Used
    BY DEF V
  <2>2. CASE c = new
    BY <1>1, <1>4, <1>7, <2>2 DEF P
  <2>3. CASE c = els
    BY <1>4, <1>7, <2>3 DEF P
  <2>4. CASE c # new /\ c # els
    BY <1>4, <2>1, <2>4
  <2>5. QED
    BY <2>2, <2>3, <2>4
<1>10. Kinded(g, N, V)
  <2> SUFFICES ASSUME NEW c \in V, NEW p \in ToSet(N[c])
               PROVE  /\ g.id[p] # "none"
                      /\ g.id[p] = "WHILE" => Len(g.inner[p]) = 2
                      /\ g.id[p] = "CFOR" => Len(g.inner[p]) = 4
    BY DEF Kinded
  <2>1. CASE p \in P \/ p = i
    <3>1. p \in Ops
      BY <1>1, <2>1
    <3>2. g.id[p] = "plain" \/ g.id[p] = "IF"
      BY <1>1, <1>5, <2>1, <3>1
    <3>3. QED
      BY <3>2
  <2>2. CASE p \notin P /\ p # i
    <3>1. PICK a \in Used : p \in ToSet(Listed[a])
      BY <1>9, <2>2
    <3>2. p \in Ops
      BY <1>6, <3>1
    <3>3. CASE p = op
      BY <1>1, <1>5, <2>2, <3>3
    <3>4. CASE p # op
      <4>1. g.id[p] = heap.id[p] /\ g.inner[p] = heap.inner[p]
        BY <1>5, <2>2, <3>2, <3>4
      <4>2. QED
        BY <1>3, <3>1, <4>1 DEF Kinded
    <3>5. QED
      BY <3>3, <3>4
  <2>3. QED
    BY <2>1, <2>2
<1>11. Unused(g, N, V, fresh')
  <2>1. fresh \subseteq Used \ {Root} /\ \A b \in fresh : Listed[b] = <<>> /\ NotHeld(heap.inner, b)
    BY <1>3 DEF Unused
  <2>2. fresh' \subseteq V \ {Root}
    BY <1>1, <2>1 DEF V
  <2>3. \A b \in fresh' : N[b] = <<>>
    BY <1>4, <2>1, <2>2
  <2>4. \A b \in fresh' : NotHeld(g.inner, b)
    <3> SUFFICES ASSUME NEW b \in fresh', NEW p \in Ops
                 PROVE  b \notin ToSet(g.inner[p])
      BY DEF NotHeld
    <3>1. b \in fresh /\ b # new /\ b # els /\ b # body
      BY <1>1
    <3>2. CASE p \in P
      BY <1>5, <1>8, <3>2
    <3>3. CASE p = i
      BY <1>1, <1>5, <1>8, <3>1, <3>3
    <3>4. CASE p = op
      BY <1>1, <1>5, <1>8, <3>1, <3>4
    <3>5. CASE p \notin P /\ p # i /\ p # op
      BY <1>5, <2>1, <3>1, <3>5 DEF NotHeld
    <3>6. QED
      BY <3>2, <3>3, <3>4, <3>5
  <2>5. QED
    BY <2>2, <2>3, <2>4 DEF Unused
<1>12. Local(g, N, V)
  <2>1. \A c \in Used : c # block /\ c \notin ToSet(heap.inner[op]) /\ c \notin fresh => c \in V /\ N[c] = Listed[c]
    BY <1>1, <1>4 DEF V
  <2>2. \A p \in Ops : p # op /\ p \notin FreshOps => g.inner[p] = heap.inner[p]
    BY <1>1, <1>5
  <2>3. QED
    BY <2>1, <2>2 DEF Local
<1>13. Rep(g, N, V) /\ Held(g, N, V)
  BY <1>2 DEF Stage, Held
<1>14. moved' \subseteq Blocks \ {Root} /\ V = Blocks \ moved'
  BY <1>1, <1>3 DEF Used, V
<1>15. block \in V /\ g.next[op] = At(R, 1, NULL)
  BY <1>1, <1>2 DEF LeadsTo, V
<1>16. N[block] = (B \o <<op>>) \o R /\ B \o <<op>> \in Seq(Ops)
  <2>1. N[block] = B \o (<<op>> \o R)
    <3>1. block # new /\ block # els
      BY <1>1
    <3>2. QED
      BY <1>4, <1>15, <3>1 DEF Standing
  <2> DEFINE O == <<op>>
  <2>2. O \in Seq(Ops) /\ N[block] = B \o (O \o R)
    BY <1>1, <2>1, Single
  <2> HIDE DEF O
  <2>3. (B \o O) \o R = B \o (O \o R) /\ B \o O \in Seq(Ops)
    BY SMTT(60), <2>2, Assoc, Sequences
  <2>4. QED
    BY <2>2, <2>3 DEF O
<1>17. Done(g, N, V, B \o <<op>>, R)
  BY <1>10, <1>11, <1>12, <1>13, <1>14, <1>15, <1>16 DEF Done
<1>18. QED
  BY <1>16, <1>17 DEF V

KindsThen(i, k, M) == [p \in Ops |-> IF p = op THEN "INFINITE" ELSE IF p = i THEN "IF"
                                      ELSE IF p \in {k} \cup M THEN "plain" ELSE heap.id[p]]
HeldThen(i, k, M, s, t) == [p \in Ops |-> IF p = op THEN t ELSE IF p = i THEN s
                                           ELSE IF p \in {k} \cup M THEN <<>> ELSE heap.inner[p]]
SettledThen(g, i, k, M, s, t) == g.id = KindsThen(i, k, M) /\ g.inner = HeldThen(i, k, M, s, t)

LEMMA SettledIs ==
  ASSUME NEW g \in Heap, NEW P, NEW i, NEW k, NEW m, NEW s, NEW t, Settled(g, P, i, s, t),
         i \notin P, op \notin P, i # op, P = {k} \cup ToSet(m)
  PROVE  SettledThen(g, i, k, ToSet(m), s, t)
<1> DEFINE Q == <<>>
           K == [p \in Ops |-> IF p = op THEN "INFINITE" ELSE IF p = i THEN "IF" ELSE IF p \in P THEN "plain" ELSE heap.id[p]]
           H == [p \in Ops |-> IF p = op THEN t ELSE IF p = i THEN s ELSE IF p \in P THEN Q ELSE heap.inner[p]]
<1>1. \A p \in Ops :
        /\ g.id[p] = IF p \in P THEN "plain" ELSE IF p = i THEN "IF" ELSE IF p = op THEN "INFINITE" ELSE heap.id[p]
        /\ g.inner[p] = IF p \in P THEN Q ELSE IF p = i THEN s ELSE IF p = op THEN t ELSE heap.inner[p]
  BY DEF Settled
<1> HIDE DEF Q
<1>2. ASSUME NEW p \in Ops
      PROVE  g.id[p] = K[p] /\ g.inner[p] = H[p]
  <2>1. CASE p \in P
    BY <1>1, <2>1
  <2>2. CASE p = i
    BY <1>1, <2>2
  <2>3. CASE p = op
    BY <1>1, <2>3
  <2>4. CASE p \notin P /\ p # i /\ p # op
    BY <1>1, <2>4
  <2>5. QED
    BY <2>1, <2>2, <2>3, <2>4
<1>3. /\ g.id = [p \in Ops |-> g.id[p]] /\ K = [p \in Ops |-> K[p]]
      /\ g.inner = [p \in Ops |-> g.inner[p]] /\ H = [p \in Ops |-> H[p]]
  BY DEF Heap
<1> HIDE DEF K, H
<1>4. g.id = K /\ g.inner = H
  BY <1>2, <1>3
<1>5. QED
  BY <1>4 DEF K, H, Q, SettledThen, KindsThen, HeldThen

LEMMA LowerLoopIs ==
  ASSUME IInv, LowerLoop
  PROVE  IInv' /\ Lists!LowerLoop
<1> DEFINE new == Lowest(fresh)
           els == Lowest(fresh \ {Lowest(fresh)})
           cond == heap.inner[op][1]
           body == heap.inner[op][2]
<1>1. Visiting /\ heap.id[op] = "WHILE" /\ Cardinality(FreshOps) > 1 /\ Cardinality(fresh) > 1
  BY ZenonT(60) DEF LowerLoop
<1>2. PICK m \in {m \in {<<>>, <<NewOp>>} : Cardinality(FreshOps) > Len(m) + 1} :
        LET left == FreshOps \ ToSet(m)
            i == Lowest(left)
            k == Lowest(left \ {i}) IN
        /\ GoOn(Lowered(new, els, cond, body, i, k, m))
        /\ moved' = moved \cup {cond} /\ fresh' = fresh \ {new, els}
  BY ZenonT(60) DEF LowerLoop, Lowered, Looped, Broken, Filled, Tested, Moved, Opened, WithInner, WithBparent, WithId
<1> DEFINE left == FreshOps \ ToSet(m)
           i == Lowest(left)
           k == Lowest(left \ {Lowest(left)})
           g == Lowered(new, els, cond, body, i, k, m)
           V == Used \ {cond}
           w == (m \o Listed[cond]) \o <<i>>
           P == ToSet(m) \cup {k}
<1>3. GoOn(g) /\ moved' = moved \cup {cond} /\ fresh' = fresh \ {new, els}
  BY <1>2
<1>4. Wrap(new, els, cond, body, i, k, m)
  <2>1. m \in {<<>>, <<NewOp>>} /\ Cardinality(FreshOps) > Len(m) + 1
    BY <1>2
  <2>2. QED
    BY <1>1, <2>1, WrapIs
<1>5. new \in Lists!FreshBlocks /\ els \in Lists!FreshBlocks
  BY <1>1, FreshTwo
<1>6. PICK B, R \in Seq(Ops) : Standing(B, R) /\ AbstractlyStanding(B, R)
  BY <1>1, Visited
<1>7. cond = heap.inner[op][1] /\ body = heap.inner[op][2]
  OBVIOUS
<1> HIDE DEF new, els, cond, body, left, i, k
<1>8. PICK N : Closing(g, N, V, R, new, els, cond, body, i, k, m)
  BY <1>4, <1>6, LoweredIs
<1>9. Done(g, N, V, B \o <<op>>, R) /\ B \o <<op>> \in Seq(Ops)
  BY <1>3, <1>4, <1>6, <1>8, ClosingDone
<1> HIDE DEF g
<1>10. Stage(g, N, V, {}) /\ Having(N, V, new, w, els, <<k>>) /\ Settled(g, P, i, <<body, els>>, <<new>>)
  BY <1>8 DEF Closing
<1>11. /\ op \in Ops /\ block \in Used /\ i \in FreshOps /\ k \in FreshOps /\ i # op /\ k # op /\ i # k
       /\ i \in Ops /\ k \in Ops /\ m \in Seq(Ops) /\ ToSet(m) \subseteq FreshOps
       /\ i \notin ToSet(m) /\ k \notin ToSet(m) /\ op \notin ToSet(m)
       /\ {new, els, cond, body} \subseteq Used \ {block, Root}
       /\ new # els /\ new # cond /\ els # cond
       /\ m = <<>> \/ m = <<NewOp>>
  <2>1. /\ i \in FreshOps /\ k \in FreshOps /\ i # k
        /\ \A p \in FreshOps : p \in Ops /\ p # op
    BY <1>4 DEF Wrap
  <2>2. /\ op \in Ops /\ i \notin ToSet(m) /\ k \notin ToSet(m) /\ m \in Seq(Ops) /\ ToSet(m) \subseteq FreshOps
        /\ new \in fresh /\ els \in fresh /\ new # els /\ {new, els, cond, body} \subseteq Used \ {block, Root}
        /\ {cond, body} \subseteq ToSet(heap.inner[op]) \ fresh /\ block \in Used
        /\ m = <<>> \/ m = <<NewOp>>
    BY <1>4 DEF Wrap
  <2>3. QED
    BY <2>1, <2>2
<1>12. /\ Rep(heap, Listed, Used) /\ Used \subseteq Blocks /\ heap \in Heap
  BY InvIs
<1>13. w = Append(m \o Listed[cond], i)
  <2> DEFINE z == m \o Listed[cond]
  <2>1. Listed[cond] \in Seq(Ops)
    BY <1>11, <1>12, RepList
  <2>2. z \in Seq(Ops)
    BY <1>11, <2>1, Sequences
  <2> HIDE DEF z
  <2>3. Append(z, i) = z \o <<i>>
    BY <1>11, <2>2, AppendIs
  <2>4. QED
    BY <2>3 DEF z
<1>14. IInv' /\ Listed' = N /\ Lists!GoOn(R)
  BY <1>1, <1>3, <1>9, GoneOn
<1>15. heap' = g
  BY <1>3 DEF GoOn
<1>16. g.id = KindsThen(i, k, ToSet(m)) /\ g.inner = HeldThen(i, k, ToSet(m), <<body, els>>, <<new>>)
  <2>1. g \in Heap
    BY <1>10, StageIs
  <2>2. i \notin P /\ op \notin P /\ P = {k} \cup ToSet(m)
    BY <1>11
  <2> DEFINE s == <<body, els>>
             t == <<new>>
  <2>3. Settled(g, P, i, s, t)
    BY <1>10
  <2> HIDE DEF P, s, t
  <2>4. SettledThen(g, i, k, ToSet(m), s, t)
    BY <1>11, <2>1, <2>2, <2>3, SettledIs
  <2>5. QED
    BY <2>4 DEF s, t, SettledThen
<1>17. N = [Listed EXCEPT ![new] = w, ![els] = <<k>>, ![cond] = <<>>]
  <2>1. Listed \in [Blocks -> Seq(Ops)] /\ \A c \in Blocks \ Used : Listed[c] = <<>>
    BY <1>12 DEF Rep
  <2>2. N = [c \in Blocks |-> N[c]] /\ \A c \in Blocks \ V : N[c] = <<>>
    BY <1>10 DEF Stage, Rep
  <2> DEFINE Q == <<>>
             y == <<k>>
             E == [Listed EXCEPT ![new] = w, ![els] = y, ![cond] = Q]
  <2>3. N[new] = w /\ N[els] = y /\ \A c \in V : c # new /\ c # els => N[c] = Listed[c]
    BY <1>10 DEF Having
  <2>4. (\A c \in Blocks \ V : N[c] = Q) /\ \A c \in Blocks \ Used : Listed[c] = Q
    BY <2>1, <2>2
  <2> HIDE DEF Q, y, w
  <2>5. E = [c \in Blocks |-> E[c]]
        /\ \A c \in Blocks : E[c] = IF c = cond THEN Q ELSE IF c = els THEN y ELSE IF c = new THEN w ELSE Listed[c]
    BY <1>11, <2>1
  <2> HIDE DEF E
  <2>6. ASSUME NEW c \in Blocks
        PROVE  E[c] = N[c]
    <3>1. CASE c = cond
      BY <2>4, <2>5, <3>1
    <3>2. CASE c = els
      BY <1>11, <2>3, <2>5, <3>2
    <3>3. CASE c = new
      BY <1>11, <2>3, <2>5, <3>3
    <3>4. CASE c # cond /\ c \notin Used
      BY <1>11, <2>4, <2>5, <3>4
    <3>5. CASE c \in V /\ c # new /\ c # els
      BY <2>3, <2>5, <3>5
    <3>6. QED
      BY <3>1, <3>2, <3>3, <3>4, <3>5
  <2>7. E = N
    BY <2>2, <2>5, <2>6
  <2>8. QED
    BY <2>7 DEF E, Q, y
<1>18. Lists!Visiting /\ Lists!Block = block /\ Lists!Here = op /\ Lists!Before = B /\ Lists!Behind = R
  BY <1>6 DEF AbstractlyStanding
<1>19. ToSet(m) = Lists!ToSet(m)
  BY DEF Lists!ToSet, ToSet
<1>20. i \in Lists!FreshOps /\ k \in Lists!FreshOps /\ m \in {<<>>} \cup {<<p>> : p \in Lists!FreshOps}
  <2>1. NewOp \in FreshOps
    <3>1. FreshOps # {}
      BY <1>11
    <3>2. QED
      BY <3>1, NewOpIs
  <2>2. FreshOps = Lists!FreshOps
    BY DEF FreshOps, Lists!FreshOps
  <2>3. m \in {<<>>} \cup {<<p>> : p \in Lists!FreshOps}
    BY <1>11, <2>1, <2>2
  <2>4. QED
    BY <1>11, <2>2, <2>3
<1>21. heap'.id = KindsThen(i, k, Lists!ToSet(m)) /\ heap'.inner = HeldThen(i, k, Lists!ToSet(m), <<body, els>>, <<new>>)
  BY <1>15, <1>16, <1>19
<1>22. Listed' = [Listed EXCEPT ![new] = Append(m \o Listed[cond], i), ![els] = <<k>>, ![cond] = <<>>]
  BY <1>13, <1>14, <1>17
<1>23. i # k /\ new # els /\ {i, k} \cap Lists!ToSet(m) = {}
  BY <1>11, <1>19
<1> HIDE DEF w, P, V
<1>24. Lists!LowerLoop
  <2>1. Lists!Lowered(i, k, m, new, els)
    BY <1>7, <1>18, <1>21, <1>22 DEF Lists!Lowered, KindsThen, HeldThen
  <2>2. \E if, brk \in Lists!FreshOps, moves \in {<<>>} \cup {<<p>> : p \in Lists!FreshOps}, do, else \in Lists!FreshBlocks :
          /\ if # brk /\ do # else /\ {if, brk} \cap Lists!ToSet(moves) = {}
          /\ Lists!Lowered(if, brk, moves, do, else)
    <3> USE <1>5, <1>20
    <3> WITNESS i \in Lists!FreshOps, k \in Lists!FreshOps, m \in {<<>>} \cup {<<p>> : p \in Lists!FreshOps},
                new \in Lists!FreshBlocks, els \in Lists!FreshBlocks
    <3> QED
      BY <1>23, <2>1
  <2>3. Lists!GoOn(Lists!Behind)
    BY <1>14, <1>18
  <2>4. Lists!Visiting /\ heap.id[Lists!Here] = "WHILE"
    BY <1>1, <1>18
  <2>5. QED
    BY <2>2, <2>3, <2>4 DEF Lists!LowerLoop
<1>25. QED
  BY SMTT(60), <1>14, <1>24

--------------------------------------------------------------------------------
(****************************************************************************)
(* A loop starts, goes into a block, and ends.                              *)
(****************************************************************************)
LEMMA Unedited ==
  ASSUME IInv, UNCHANGED <<heap, fresh, moved>>, Walking(heap, Listed, Used, walk')
  PROVE  IInv' /\ Listed' = Listed /\ Lists!Unmade /\ Walks' = Rests(heap, walk') /\ Walks = Rests(heap, walk)
<1>1. Listed' = Listed /\ Used' = Used
  BY DEF Listed, Used
<1>2. IInv'
  BY <1>1 DEF IInv
<1>3. Lists!Unmade
  BY DEF Lists!Unmade
<1>4. Walks' = Rests(heap, walk') /\ Walks = Rests(heap, walk)
  BY DEF Walks, Rests
<1>5. QED
  BY <1>1, <1>2, <1>3, <1>4

LEMMA WalksIs ==
  ASSUME IInv
  PROVE  /\ heap \in Heap /\ Acyclic(heap)
         /\ Walks = Rests(heap, walk) /\ Walks \in Seq(Todo) /\ Len(Walks) = Len(walk)
         /\ \A i \in 1..Len(walk) : Walks[i] = [block |-> walk[i].block, rest |-> Chain(heap, walk[i].op)]
         /\ Walks = <<>> <=> walk = <<>>
<1>1. heap \in Heap /\ Acyclic(heap)
  BY InvIs, RepHeap
<1>2. Walks = Rests(heap, walk)
  BY DEF Walks, Rests
<1>3. walk \in Seq(Place) /\ Len(walk) \in Nat
  BY WalkFacts
<1>4. /\ Rests(heap, walk) \in Seq(Todo) /\ Len(Rests(heap, walk)) = Len(walk)
      /\ \A i \in 1..Len(walk) : Rests(heap, walk)[i] = [block |-> walk[i].block, rest |-> Chain(heap, walk[i].op)]
  BY <1>1, <1>3, RestsIs
<1>5. Walks \in Seq(Todo) /\ Len(Walks) = Len(walk)
  BY <1>2, <1>4
<1>6. Walks = <<>> <=> walk = <<>>
  BY <1>3, <1>5, EmptySeq
<1>7. QED
  BY <1>1, <1>2, <1>4, <1>5, <1>6

\* A loop is at the first operation of a block.
LEMMA FirstIs ==
  ASSUME IInv, NEW b \in Used
  PROVE  /\ [block |-> b, op |-> heap.first[b]] \in Place
         /\ heap.first[b] \in ToSet(Listed[b]) \cup {NULL} /\ Chain(heap, heap.first[b]) = Listed[b]
         /\ [block |-> b, rest |-> Listed[b]] \in Todo
<1>1. Rep(heap, Listed, Used)
  BY InvIs
<1>2. /\ b \in Blocks /\ heap.first[b] \in Ops \cup {NULL} /\ Listed[b] \in Seq(Ops)
      /\ Path(heap, heap.first[b], Listed[b], NULL) /\ OpsOf(heap, b) = Listed[b]
  BY <1>1, RepList
<1>3. heap.first[b] = At(Listed[b], 1, NULL)
  BY <1>2 DEF Path
<1>4. At(Listed[b], 1, NULL) \in ToSet(Listed[b]) \cup {NULL}
  <2>1. Len(Listed[b]) \in Nat /\ (1 <= Len(Listed[b]) => 1 \in 1..Len(Listed[b]))
    BY <1>2
  <2>2. QED
    BY <1>2, <2>1, ToSetIs DEF At
<1>5. QED
  BY <1>2, <1>3, <1>4 DEF OpsOf, Place, Todo

Longer(z, S, s, x) ==
  z \in Seq(S) /\ Len(z) = Len(s) + 1 /\ z[Len(s) + 1] = x /\ \A i \in 1..Len(s) : z[i] = s[i]

LEMMA AppendLonger ==
  ASSUME NEW S, NEW s \in Seq(S), NEW x \in S
  PROVE  Longer(Append(s, x), S, s, x)
BY DEF Longer

\* One more loop has one more rest.
LEMMA RestsAppend ==
  ASSUME IInv, NEW x \in Place, NEW y \in Todo, y = [block |-> x.block, rest |-> Chain(heap, x.op)]
  PROVE  Rests(heap, Append(walk, x)) = Append(Walks, y)
<1> DEFINE n == Len(walk)
           w == Append(walk, x)
           z == Append(Walks, y)
           r == Rests(heap, w)
<1>1. walk \in Seq(Place) /\ n \in Nat
  BY WalkFacts
<1>2. /\ heap \in Heap /\ Acyclic(heap)
      /\ Walks \in Seq(Todo) /\ Len(Walks) = n
      /\ \A i \in 1..n : Walks[i] = [block |-> walk[i].block, rest |-> Chain(heap, walk[i].op)]
  BY WalksIs
<1>3. Longer(w, Place, walk, x) /\ Longer(z, Todo, Walks, y)
  BY <1>1, <1>2, AppendLonger
<1> HIDE DEF w, z
<1>4. /\ w \in Seq(Place) /\ Len(w) = n + 1 /\ w[n + 1] = x /\ \A i \in 1..n : w[i] = walk[i]
      /\ z \in Seq(Todo) /\ Len(z) = n + 1 /\ z[n + 1] = y /\ \A i \in 1..n : z[i] = Walks[i]
  BY <1>2, <1>3 DEF Longer
<1>5. /\ r \in Seq(Todo) /\ Len(r) = n + 1
      /\ \A i \in 1..n + 1 : r[i] = [block |-> w[i].block, rest |-> Chain(heap, w[i].op)]
  BY <1>2, <1>4, RestsIs
<1> HIDE DEF r, n
<1>6. ASSUME NEW i \in 1..n + 1
      PROVE  r[i] = z[i]
  <2>1. CASE i = n + 1
    BY <1>4, <1>5, <2>1
  <2>2. CASE i \in 1..n
    BY <1>2, <1>4, <1>5, <2>2
  <2>3. QED
    BY <1>1, <2>1, <2>2
<1>7. r = z
  BY <1>4, <1>5, <1>6, SeqEqual
<1>8. QED
  BY <1>7 DEF r, z, w

LEMMA StartIs ==
  ASSUME IInv, Start
  PROVE  IInv' /\ Lists!Start
<1> DEFINE x == [block |-> Root, op |-> heap.first[Root]]
           y == [block |-> Root, rest |-> Listed[Root]]
<1>1. walk = <<>> /\ walk' = <<x>> /\ UNCHANGED <<heap, fresh, moved>>
  BY DEF Start, NoBlocks
<1>2. Root \in Used
  BY InvIs, BuilderAssumption DEF Used
<1>3. x \in Place /\ heap.first[Root] \in ToSet(Listed[Root]) \cup {NULL} /\ Chain(heap, heap.first[Root]) = Listed[Root]
      /\ y \in Todo
  BY <1>2, FirstIs
<1>4. x.block = Root /\ x.op = heap.first[Root] /\ y = [block |-> x.block, rest |-> Chain(heap, x.op)]
  BY <1>3
<1> HIDE DEF x, y
<1>5. walk' \in Seq(Place) /\ Len(walk') = 1 /\ walk'[1] = x
  BY <1>1, <1>3
<1>6. Walking(heap, Listed, Used, walk')
  BY <1>2, <1>3, <1>4, <1>5 DEF Walking
<1>7. IInv' /\ Listed' = Listed /\ Lists!Unmade /\ Walks' = Rests(heap, walk')
  BY <1>1, <1>6, Unedited
<1>8. Walks = <<>>
  BY <1>1, WalksIs
<1>9. Walks' = <<y>>
  <2>1. Rests(heap, Append(walk, x)) = Append(Walks, y)
    BY <1>3, <1>4, RestsAppend
  <2>2. Append(walk, x) = <<x>> /\ Append(Walks, y) = <<y>>
    BY <1>1, <1>8
  <2>3. QED
    BY <1>1, <1>7, <2>1, <2>2
<1>10. QED
  BY <1>7, <1>8, <1>9 DEF Lists!Start, y

LEMMA DescendIs ==
  ASSUME IInv, Descend
  PROVE  IInv' /\ Lists!Descend
<1>1. Visiting /\ UNCHANGED <<heap, fresh, moved>>
  BY DEF Descend, NoBlocks
<1>2. PICK b \in ToSet(heap.inner[op]) : walk' = Append(walk, [block |-> b, op |-> heap.first[b]])
  BY DEF Descend
<1> DEFINE x == [block |-> b, op |-> heap.first[b]]
           y == [block |-> b, rest |-> Listed[b]]
           n == Len(walk)
<1>3. b \in Used
  BY <1>1, HeldHere
<1>4. x \in Place /\ heap.first[b] \in ToSet(Listed[b]) \cup {NULL} /\ Chain(heap, heap.first[b]) = Listed[b] /\ y \in Todo
  BY <1>3, FirstIs
<1>5. x.block = b /\ x.op = heap.first[b] /\ y = [block |-> x.block, rest |-> Chain(heap, x.op)] /\ walk' = Append(walk, x)
  BY <1>2, <1>4
<1> HIDE DEF x, y
<1>6. /\ walk \in Seq(Place) /\ n \in Nat /\ walk # <<>>
      /\ \A i \in 1..n : walk[i].block \in Used /\ walk[i].op \in ToSet(Listed[walk[i].block]) \cup {NULL}
      /\ \A i \in 1..n - 1 : walk[i].op # NULL /\ walk[i + 1].block \in ToSet(heap.inner[walk[i].op])
      /\ walk[1].block = Root
      /\ \A i, j \in 1..n : walk[i].block = walk[j].block => i = j
  BY <1>1, WalkFacts DEF Visiting
<1>7. Longer(walk', Place, walk, x)
  BY <1>4, <1>5, <1>6, AppendLonger
<1>8. /\ walk' \in Seq(Place) /\ Len(walk') = n + 1 /\ walk'[n + 1] = x /\ \A i \in 1..n : walk'[i] = walk[i]
  BY <1>7 DEF Longer
<1>9. PICK B, R \in Seq(Ops) : Standing(B, R) /\ AbstractlyStanding(B, R)
  BY <1>1, Visited
<1>10. 1 <= n /\ op = walk[n].op /\ op # NULL
  BY <1>1, <1>9 DEF Standing, Visiting
<1>11. \A i \in 1..n : walk[i].block # b
  BY <1>1, HeldElsewhere
<1> HIDE DEF n
<1>12. Walking(heap, Listed, Used, walk')
  <2>1. ASSUME NEW i \in 1..n + 1
        PROVE  walk'[i].block \in Used /\ walk'[i].op \in ToSet(Listed[walk'[i].block]) \cup {NULL}
    <3>1. CASE i = n + 1
      BY <1>3, <1>4, <1>5, <1>8, <3>1
    <3>2. CASE i \in 1..n
      BY <1>6, <1>8, <3>2
    <3>3. QED
      BY <1>6, <3>1, <3>2
  <2>2. ASSUME NEW i \in 1..n
        PROVE  walk'[i].op # NULL /\ walk'[i + 1].block \in ToSet(heap.inner[walk'[i].op])
    <3>1. CASE i = n
      BY <1>2, <1>5, <1>8, <1>10, <3>1
    <3>2. CASE i # n
      <4>1. i \in 1..n - 1 /\ i + 1 \in 1..n
        BY <1>6, <3>2
      <4>2. walk'[i] = walk[i] /\ walk'[i + 1] = walk[i + 1]
        BY <1>8, <4>1
      <4>3. QED
        BY <1>6, <4>1, <4>2
    <3>3. QED
      BY <3>1, <3>2
  <2>3. walk'[1].block = Root
    BY <1>6, <1>8, <1>10
  <2>4. ASSUME NEW i \in 1..n + 1, NEW j \in 1..n + 1, walk'[i].block = walk'[j].block
        PROVE  i = j
    <3>1. CASE i \in 1..n /\ j \in 1..n
      BY <1>6, <1>8, <2>4, <3>1
    <3>2. CASE i \in 1..n /\ j = n + 1
      BY <1>5, <1>8, <1>11, <2>4, <3>2
    <3>3. CASE i = n + 1 /\ j \in 1..n
      BY <1>5, <1>8, <1>11, <2>4, <3>3
    <3>4. QED
      BY <1>6, <3>1, <3>2, <3>3
  <2>5. Len(walk') - 1 = n
    BY <1>6, <1>8
  <2>6. QED
    BY <1>8, <2>1, <2>2, <2>3, <2>4, <2>5 DEF Walking
<1>13. IInv' /\ Listed' = Listed /\ Lists!Unmade /\ Walks' = Rests(heap, walk')
  BY <1>1, <1>12, Unedited
<1>14. Walks' = Append(Walks, y)
  <2>1. Rests(heap, Append(walk, x)) = Append(Walks, y)
    BY <1>4, <1>5, RestsAppend
  <2>2. QED
    BY <1>5, <1>13, <2>1
<1>15. b \in Lists!ToSet(heap.inner[Lists!Here])
  <2>1. Lists!Here = op
    BY <1>9 DEF AbstractlyStanding
  <2>2. QED
    BY <2>1 DEF Lists!ToSet, ToSet
<1>16. Lists!Visiting
  BY <1>9 DEF AbstractlyStanding
<1>17. QED
  BY <1>13, <1>14, <1>15, <1>16 DEF Lists!Descend, y

LEMMA FinishIs ==
  ASSUME IInv, Finish
  PROVE  IInv' /\ Lists!Finish
<1> DEFINE n == Len(walk)
           z == Front(Walks)
           r == Rests(heap, walk')
<1>1. walk # <<>> /\ op = NULL /\ walk' = Front(walk) /\ UNCHANGED <<heap, fresh, moved>>
  BY DEF Finish, NoBlocks
<1>2. /\ walk \in Seq(Place) /\ n \in Nat
      /\ \A i \in 1..n : walk[i].block \in Used /\ walk[i].op \in ToSet(Listed[walk[i].block]) \cup {NULL}
      /\ \A i \in 1..n - 1 : walk[i].op # NULL /\ walk[i + 1].block \in ToSet(heap.inner[walk[i].op])
      /\ walk[1].block = Root
      /\ \A i, j \in 1..n : walk[i].block = walk[j].block => i = j
  BY <1>1, WalkFacts
<1>3. 1 <= n /\ op = walk[n].op
  BY <1>1, <1>2, EmptySeq DEF op, Last
<1>4. /\ heap \in Heap /\ Acyclic(heap)
      /\ Walks \in Seq(Todo) /\ Len(Walks) = n /\ Walks # <<>>
      /\ \A i \in 1..n : Walks[i] = [block |-> walk[i].block, rest |-> Chain(heap, walk[i].op)]
  BY <1>1, WalksIs
<1>5. walk' \in Seq(Place) /\ Len(walk') = n - 1 /\ \A i \in 1..n - 1 : walk'[i] = walk[i]
  <2>1. PICK x \in Place : TRUE
    BY <1>2, <1>3
  <2>2. /\ Front(walk) \in Seq(Place) /\ Len(Front(walk)) = Len(walk) - 1
        /\ \A i \in 1..Len(walk) - 1 : Front(walk)[i] = walk[i]
    BY <1>1, <1>2, <2>1, FrontIs
  <2>3. QED
    BY <1>1, <2>2
<1>6. z \in Seq(Todo) /\ Len(z) = n - 1 /\ \A i \in 1..n - 1 : z[i] = Walks[i]
  <2>1. PICK x \in Todo : TRUE
    BY <1>3, <1>4
  <2>2. /\ Front(Walks) \in Seq(Todo) /\ Len(Front(Walks)) = Len(Walks) - 1
        /\ \A i \in 1..Len(Walks) - 1 : Front(Walks)[i] = Walks[i]
    BY <1>4, <2>1, FrontIs
  <2>3. QED
    BY <1>4, <2>2
<1>7. Lists!Front(Walks) = z
  BY DEF Lists!Front, Front
<1>8. Walks[n].rest = <<>>
  <2>1. Chain(heap, NULL) = <<>>
    BY <1>4, ChainOfNull
  <2>2. n \in 1..n
    BY <1>2, <1>3
  <2> HIDE DEF n, z, r
  <2>3. Walks[n] = [block |-> walk[n].block, rest |-> Chain(heap, walk[n].op)]
    BY <1>4, <2>2
  <2>4. walk[n].op = NULL
    BY <1>1, <1>3
  <2>5. QED
    BY <2>1, <2>3, <2>4
<1>9. Lists!Rest = <<>>
  BY <1>4, <1>8 DEF Lists!Rest, Lists!Last
<1> HIDE DEF z, n
<1>10. Walking(heap, Listed, Used, walk')
  <2>1. \A i \in 1..Len(walk') : i \in 1..n - 1 /\ i \in 1..n
    BY <1>2, <1>5
  <2>2. \A i \in 1..Len(walk') - 1 : i \in 1..n - 1 /\ i + 1 \in 1..n - 1
    BY <1>2, <1>5
  <2>3. \A i \in 1..Len(walk') : walk'[i].block \in Used /\ walk'[i].op \in ToSet(Listed[walk'[i].block]) \cup {NULL}
    BY <1>2, <1>5, <2>1
  <2>4. \A i \in 1..Len(walk') - 1 : walk'[i].op # NULL /\ walk'[i + 1].block \in ToSet(heap.inner[walk'[i].op])
    BY <1>2, <1>5, <2>2
  <2>5. walk' # <<>> => walk'[1].block = Root
    <3> SUFFICES ASSUME walk' # <<>>
                 PROVE  walk'[1].block = Root
      OBVIOUS
    <3>1. Len(walk') # 0
      BY <1>5, EmptySeq
    <3>2. 1 \in 1..n - 1
      BY <1>2, <1>3, <1>5, <3>1
    <3>3. QED
      BY <1>2, <1>5, <3>2
  <2>6. \A i, j \in 1..Len(walk') : walk'[i].block = walk'[j].block => i = j
    BY <1>2, <1>5, <2>1
  <2>7. QED
    BY <1>5, <2>3, <2>4, <2>5, <2>6 DEF Walking
<1>11. IInv' /\ Listed' = Listed /\ Lists!Unmade /\ Walks' = r
  BY <1>1, <1>10, Unedited
<1>12. /\ r \in Seq(Todo) /\ Len(r) = n - 1
       /\ \A i \in 1..n - 1 : r[i] = [block |-> walk'[i].block, rest |-> Chain(heap, walk'[i].op)]
  BY <1>4, <1>5, RestsIs
<1> HIDE DEF r
<1>13. \A i \in 1..n - 1 : r[i] = z[i]
  <2>1. \A i \in 1..n - 1 : i \in 1..n
    BY <1>2
  <2>2. QED
    BY <1>4, <1>5, <1>6, <1>12, <2>1
<1>14. r = z
  BY <1>6, <1>12, <1>13, SeqEqual
<1>15. QED
  BY <1>4, <1>7, <1>9, <1>11, <1>14 DEF Lists!Finish

--------------------------------------------------------------------------------
(****************************************************************************)
(* The heap a function starts as.                                           *)
(****************************************************************************)
Where(f, o) == IF \E b \in Blocks : o \in ToSet(f.lists[b]) THEN CHOOSE b \in Blocks : o \in ToSet(f.lists[b]) ELSE NULL
Holder(f, b) == {o \in Ops : b \in ToSet(f.held[o])}
IndexOf(s, o) == CHOOSE i \in DOMAIN s : s[i] = o
Behind(f, o) ==
  IF Where(f, o) = NULL \/ Last(f.lists[Where(f, o)]) = o THEN NULL
  ELSE f.lists[Where(f, o)][IndexOf(f.lists[Where(f, o)], o) + 1]

LEMMA HeapOfIs ==
  ASSUME NEW f
  PROVE  /\ HeapOf(f).id = f.kind /\ HeapOf(f).inner = f.held
         /\ HeapOf(f).parent = [o \in Ops |-> Where(f, o)]
         /\ HeapOf(f).bparent =
              [b \in Blocks |-> IF Holder(f, b) = {} THEN NULL ELSE Where(f, CHOOSE o \in Holder(f, b) : TRUE)]
         /\ HeapOf(f).first = [b \in Blocks |-> IF f.lists[b] = <<>> THEN NULL ELSE f.lists[b][1]]
         /\ HeapOf(f).next = [o \in Ops |-> Behind(f, o)]
         /\ HeapOf(f) = [id |-> HeapOf(f).id, inner |-> HeapOf(f).inner, parent |-> HeapOf(f).parent,
                         bparent |-> HeapOf(f).bparent, first |-> HeapOf(f).first, next |-> HeapOf(f).next]
<1>1. HeapOf(f) =
        [id |-> f.kind, inner |-> f.held, parent |-> [o \in Ops |-> Where(f, o)],
         bparent |-> [b \in Blocks |-> IF Holder(f, b) = {} THEN NULL ELSE Where(f, CHOOSE o \in Holder(f, b) : TRUE)],
         first |-> [b \in Blocks |-> IF f.lists[b] = <<>> THEN NULL ELSE f.lists[b][1]],
         next |-> [o \in Ops |-> Behind(f, o)]]
  BY DEF HeapOf, Where, Holder, Behind, IndexOf
<1> DEFINE p == [o \in Ops |-> Where(f, o)]
           bp == [b \in Blocks |-> IF Holder(f, b) = {} THEN NULL ELSE Where(f, CHOOSE o \in Holder(f, b) : TRUE)]
           fi == [b \in Blocks |-> IF f.lists[b] = <<>> THEN NULL ELSE f.lists[b][1]]
           ne == [o \in Ops |-> Behind(f, o)]
<1>2. HeapOf(f) = [id |-> f.kind, inner |-> f.held, parent |-> p, bparent |-> bp, first |-> fi, next |-> ne]
  BY <1>1
<1> HIDE DEF p, bp, fi, ne
<1>3. /\ HeapOf(f).id = f.kind /\ HeapOf(f).inner = f.held /\ HeapOf(f).parent = p /\ HeapOf(f).bparent = bp
      /\ HeapOf(f).first = fi /\ HeapOf(f).next = ne
  BY <1>2
<1>4. QED
  BY <1>2, <1>3 DEF p, bp, fi, ne

LEMMA TreeIs ==
  ASSUME NEW f \in Functions
  PROVE  /\ f.kind \in [Ops -> Kinds] /\ f.held \in [Ops -> Seq(Blocks)] /\ f.lists \in [Blocks -> Seq(Ops)]
         /\ \A b \in Blocks : f.lists[b] \in Seq(Ops) /\ ToSet(f.lists[b]) \subseteq Ops /\ Distinct(f.lists[b])
         /\ \A b, c \in Blocks : \A o \in ToSet(f.lists[b]) : o \in ToSet(f.lists[c]) => b = c
         /\ Unshared(f.held) /\ NotHeld(f.held, Root)
         /\ \A b \in Blocks : \A o \in ToSet(f.lists[b]) : f.kind[o] # "none"
         /\ \A o \in Ops : f.kind[o] = "WHILE" => Len(f.held[o]) = 2
         /\ \A o \in Ops : f.kind[o] = "CFOR" => Len(f.held[o]) = 4
         /\ \A b \in Blocks \ {Root} : NotHeld(f.held, b) => f.lists[b] = <<>>
<1>1. IsTree(f)
  BY FunctionsAssumption
<1>2. /\ f.kind \in [Ops -> Kinds] /\ f.held \in [Ops -> Seq(Blocks)] /\ f.lists \in [Blocks -> Seq(Ops)]
      /\ \A b, c \in Blocks : \A i \in DOMAIN f.lists[b], j \in DOMAIN f.lists[c] :
           f.lists[b][i] = f.lists[c][j] => b = c /\ i = j
      /\ \A o, p \in Ops : \A i \in DOMAIN f.held[o], j \in DOMAIN f.held[p] :
           f.held[o][i] = f.held[p][j] => o = p /\ i = j
      /\ \A b \in Blocks : \A i \in DOMAIN f.lists[b] : f.kind[f.lists[b][i]] # "none"
  BY <1>1 DEF IsTree
<1>3. /\ \A o \in Ops : Root \notin ToSet(f.held[o])
      /\ \A o \in Ops : f.kind[o] = "WHILE" => Len(f.held[o]) = 2
      /\ \A o \in Ops : f.kind[o] = "CFOR" => Len(f.held[o]) = 4
      /\ \A b \in Blocks \ {Root} : (\A o \in Ops : b \notin ToSet(f.held[o])) => f.lists[b] = <<>>
  BY <1>1 DEF IsTree
<1>4. \A b \in Blocks : f.lists[b] \in Seq(Ops) /\ DOMAIN f.lists[b] = 1..Len(f.lists[b])
  BY <1>2
<1>5. \A o \in Ops : f.held[o] \in Seq(Blocks) /\ DOMAIN f.held[o] = 1..Len(f.held[o])
  BY <1>2
<1>6. ASSUME NEW b \in Blocks
      PROVE  /\ ToSet(f.lists[b]) \subseteq Ops
             /\ \A o \in ToSet(f.lists[b]) : \E i \in DOMAIN f.lists[b] : f.lists[b][i] = o
  <2>1. f.lists[b] \in Seq(Ops)
    BY <1>4
  <2>2. ToSet(f.lists[b]) \subseteq Ops /\ \A o \in ToSet(f.lists[b]) : \E i \in 1..Len(f.lists[b]) : f.lists[b][i] = o
    BY <2>1, ToSetIs
  <2>3. QED
    BY <1>4, <2>2
<1>7. \A b \in Blocks : Distinct(f.lists[b])
  BY <1>2, <1>4 DEF Distinct
<1>8. ASSUME NEW b \in Blocks, NEW c \in Blocks, NEW o \in ToSet(f.lists[b]), o \in ToSet(f.lists[c])
      PROVE  b = c
  <2>1. PICK i \in DOMAIN f.lists[b] : f.lists[b][i] = o
    BY <1>6
  <2>2. PICK j \in DOMAIN f.lists[c] : f.lists[c][j] = o
    BY <1>6, <1>8
  <2>3. QED
    BY <1>2, <2>1, <2>2
<1>9. Unshared(f.held)
  BY <1>2, <1>5 DEF Unshared
<1>10. ASSUME NEW b \in Blocks, NEW o \in ToSet(f.lists[b])
       PROVE  f.kind[o] # "none"
  <2>1. PICK i \in DOMAIN f.lists[b] : f.lists[b][i] = o
    BY <1>6
  <2>2. QED
    BY <1>2, <2>1
<1>11. NotHeld(f.held, Root) /\ \A b \in Blocks \ {Root} : NotHeld(f.held, b) => f.lists[b] = <<>>
  BY <1>3 DEF NotHeld
<1>12. QED
  BY <1>2, <1>3, <1>4, <1>6, <1>7, <1>8, <1>9, <1>10, <1>11

LEMMA WhereIs ==
  ASSUME NEW f \in Functions, NEW o \in Ops
  PROVE  /\ \A b \in Blocks : o \in ToSet(f.lists[b]) => Where(f, o) = b
         /\ Where(f, o) \in Blocks \cup {NULL}
         /\ Where(f, o) # NULL => o \in ToSet(f.lists[Where(f, o)])
<1>1. \A b, c \in Blocks : o \in ToSet(f.lists[b]) /\ o \in ToSet(f.lists[c]) => b = c
  BY TreeIs
<1>2. CASE \E b \in Blocks : o \in ToSet(f.lists[b])
  <2>1. Where(f, o) \in Blocks /\ o \in ToSet(f.lists[Where(f, o)])
    BY <1>2 DEF Where
  <2>2. QED
    BY <1>1, <2>1
<1>3. CASE \A b \in Blocks : o \notin ToSet(f.lists[b])
  <2>1. Where(f, o) = NULL
    BY <1>3 DEF Where
  <2>2. QED
    BY <1>3, <2>1
<1>4. QED
  BY <1>2, <1>3

\* Every operation of a list leads to the next one.
LEMMA BehindIs ==
  ASSUME NEW f \in Functions, NEW b \in Blocks, NEW i \in 1..Len(f.lists[b])
  PROVE  Behind(f, f.lists[b][i]) = At(f.lists[b], i + 1, NULL)
<1> DEFINE s == f.lists[b]
           o == s[i]
<1>1. s \in Seq(Ops) /\ Distinct(s) /\ Len(s) \in Nat /\ DOMAIN s = 1..Len(s)
  <2>1. s \in Seq(Ops) /\ Distinct(s)
    BY TreeIs
  <2>2. QED
    BY <2>1
<1>2. o \in ToSet(s) /\ o \in Ops
  BY <1>1, ToSetIs
<1>3. s = f.lists[b] /\ o = s[i] /\ i \in 1..Len(s)
  OBVIOUS
<1> HIDE DEF o
<1>4. Where(f, o) = b
  BY <1>2, WhereIs
<1>5. b # NULL
  BY BuilderAssumption
<1> HIDE DEF s
<1>6. Last(s) = s[Len(s)]
  BY DEF Last
<1>7. IndexOf(s, o) = i
  <2>1. \E j \in DOMAIN s : s[j] = o
    BY <1>1, <1>3
  <2>2. IndexOf(s, o) \in DOMAIN s /\ s[IndexOf(s, o)] = o
    BY <2>1 DEF IndexOf
  <2>3. QED
    BY <1>1, <1>3, <2>2 DEF Distinct
<1>8. Behind(f, o) = IF Last(s) = o THEN NULL ELSE s[IndexOf(s, o) + 1]
  BY <1>3, <1>4, <1>5 DEF Behind
<1>9. Last(s) = o <=> i = Len(s)
  <2>1. Len(s) \in 1..Len(s)
    BY <1>1, <1>3
  <2>2. QED
    BY <1>1, <1>3, <1>6, <2>1 DEF Distinct
<1>10. Behind(f, o) = At(s, i + 1, NULL)
  BY <1>1, <1>3, <1>7, <1>8, <1>9 DEF At
<1>11. QED
  BY <1>10 DEF o, s

\* The pointers of the heap a function starts as.
Laid(h, f) ==
  /\ h.id = f.kind /\ h.inner = f.held
  /\ \A o \in Ops : h.parent[o] = Where(f, o)
  /\ \A b \in Blocks : h.bparent[b] = IF Holder(f, b) = {} THEN NULL ELSE Where(f, CHOOSE o \in Holder(f, b) : TRUE)
  /\ \A b \in Blocks : h.first[b] = At(f.lists[b], 1, NULL)
  /\ \A b \in Blocks : Path(h, h.first[b], f.lists[b], NULL)
  /\ \A o \in Ops : Where(f, o) = NULL => h.next[o] = NULL

LEMMA LaidIs ==
  ASSUME NEW f \in Functions
  PROVE  Laid(HeapOf(f), f) /\ HeapOf(f) \in Heap
<1> DEFINE h == HeapOf(f)
<1>1. /\ h.id = f.kind /\ h.inner = f.held
      /\ h.parent = [o \in Ops |-> Where(f, o)]
      /\ h.bparent = [b \in Blocks |-> IF Holder(f, b) = {} THEN NULL ELSE Where(f, CHOOSE o \in Holder(f, b) : TRUE)]
      /\ h.first = [b \in Blocks |-> IF f.lists[b] = <<>> THEN NULL ELSE f.lists[b][1]]
      /\ h.next = [o \in Ops |-> Behind(f, o)]
      /\ h = [id |-> h.id, inner |-> h.inner, parent |-> h.parent,
              bparent |-> h.bparent, first |-> h.first, next |-> h.next]
  BY HeapOfIs
<1>2. /\ f.kind \in [Ops -> Kinds] /\ f.held \in [Ops -> Seq(Blocks)]
      /\ \A b \in Blocks : f.lists[b] \in Seq(Ops) /\ ToSet(f.lists[b]) \subseteq Ops
  BY TreeIs
<1> HIDE DEF h
<1>3. \A o \in Ops : h.parent[o] = Where(f, o) /\ h.next[o] = Behind(f, o)
  BY <1>1
<1>4. \A b \in Blocks :
        h.bparent[b] = IF Holder(f, b) = {} THEN NULL ELSE Where(f, CHOOSE o \in Holder(f, b) : TRUE)
  BY <1>1
<1>5. ASSUME NEW b \in Blocks
      PROVE  h.first[b] = At(f.lists[b], 1, NULL)
  <2>1. h.first[b] = IF f.lists[b] = <<>> THEN NULL ELSE f.lists[b][1]
    BY <1>1
  <2>2. f.lists[b] = <<>> <=> Len(f.lists[b]) = 0
    BY <1>2, EmptySeq
  <2>3. Len(f.lists[b]) \in Nat
    BY <1>2
  <2>4. QED
    BY <2>1, <2>2, <2>3 DEF At
<1>6. ASSUME NEW b \in Blocks, NEW i \in 1..Len(f.lists[b])
      PROVE  h.next[f.lists[b][i]] = At(f.lists[b], i + 1, NULL)
  <2>1. f.lists[b][i] \in Ops
    BY <1>2
  <2>2. Behind(f, f.lists[b][i]) = At(f.lists[b], i + 1, NULL)
    BY BehindIs
  <2>3. QED
    BY <1>3, <2>1, <2>2
<1>7. \A b \in Blocks : Path(h, h.first[b], f.lists[b], NULL)
  BY <1>5, <1>6 DEF Path
<1>8. ASSUME NEW o \in Ops, Where(f, o) = NULL
      PROVE  h.next[o] = NULL
  <2>1. Behind(f, o) = NULL
    BY <1>8 DEF Behind
  <2>2. QED
    BY <1>3, <2>1
<1>9. Laid(h, f)
  BY <1>1, <1>3, <1>4, <1>5, <1>7, <1>8 DEF Laid
<1>10. h.parent \in [Ops -> Blocks \cup {NULL}]
  <2>1. \A o \in Ops : Where(f, o) \in Blocks \cup {NULL}
    BY WhereIs
  <2>2. QED
    BY <1>1, <2>1
<1>11. h.bparent \in [Blocks -> Blocks \cup {NULL}]
  <2>1. ASSUME NEW b \in Blocks, Holder(f, b) # {}
        PROVE  Where(f, CHOOSE o \in Holder(f, b) : TRUE) \in Blocks \cup {NULL}
    <3> DEFINE o == CHOOSE p \in Holder(f, b) : TRUE
    <3>1. o \in Holder(f, b)
      BY <2>1
    <3> HIDE DEF o
    <3>2. o \in Ops
      BY <3>1 DEF Holder
    <3>3. Where(f, o) \in Blocks \cup {NULL}
      BY <3>2, WhereIs
    <3>4. QED
      BY <3>3 DEF o
  <2>2. QED
    BY <1>1, <2>1
<1>12. h.first \in [Blocks -> Ops \cup {NULL}]
  <2>1. \A b \in Blocks : f.lists[b] = <<>> \/ f.lists[b][1] \in Ops
    BY <1>2
  <2>2. QED
    BY <1>1, <2>1
<1>13. h.next \in [Ops -> Ops \cup {NULL}]
  <2>1. ASSUME NEW o \in Ops
        PROVE  h.next[o] \in Ops \cup {NULL}
    <3>1. CASE Where(f, o) = NULL
      BY <1>8, <3>1
    <3>2. CASE Where(f, o) # NULL
      <4>1. PICK b \in Blocks : o \in ToSet(f.lists[b])
        BY <3>2, WhereIs
      <4>2. f.lists[b] \in Seq(Ops) /\ Len(f.lists[b]) \in Nat
        BY <1>2
      <4>3. PICK i \in 1..Len(f.lists[b]) : f.lists[b][i] = o
        BY <4>1, <4>2, ToSetIs
      <4>4. h.next[o] = At(f.lists[b], i + 1, NULL)
        BY <1>6, <4>3
      <4>5. QED
        BY <4>2, <4>4 DEF At
    <3>3. QED
      BY <3>1, <3>2
  <2>2. DOMAIN h.next = Ops /\ h.next = [o \in Ops |-> h.next[o]]
    BY <1>1
  <2>3. QED
    BY <2>1, <2>2
<1>14. h \in Heap
  BY <1>1, <1>2, <1>10, <1>11, <1>12, <1>13 DEF Heap
<1>15. QED
  BY <1>9, <1>14 DEF h

LEMMA LaidAcyclic ==
  ASSUME NEW f \in Functions, NEW h, Laid(h, f)
  PROVE  Acyclic(h)
<1> SUFFICES ASSUME NEW X \in SUBSET Ops, \A o \in X : h.next[o] \in X, NEW o \in X
             PROVE  FALSE
  BY DEF Acyclic
<1>1. o \in Ops /\ NULL \notin Ops
  BY BuilderAssumption
<1>2. Where(f, o) # NULL
  BY <1>1 DEF Laid
<1>3. PICK b \in Blocks : o \in ToSet(f.lists[b])
  BY <1>1, <1>2, WhereIs
<1>4. f.lists[b] \in Seq(Ops)
  BY TreeIs
<1>5. PICK i \in 1..Len(f.lists[b]) : f.lists[b][i] = o
  BY <1>3, <1>4, ToSetIs
<1>6. Path(h, h.first[b], f.lists[b], NULL)
  BY DEF Laid
<1>7. f.lists[b][i] \notin X
  BY <1>4, <1>6, ListLeaves
<1>8. QED
  BY <1>5, <1>7

LEMMA LaidHeld ==
  ASSUME NEW f \in Functions, NEW h, Laid(h, f),
         NEW b \in Blocks, NEW o \in ToSet(f.lists[b]), NEW c \in ToSet(h.inner[o])
  PROVE  c \in Blocks /\ h.bparent[c] = b
<1>1. /\ f.held \in [Ops -> Seq(Blocks)] /\ Unshared(f.held)
      /\ o \in Ops
  BY TreeIs
<1>2. h.inner[o] = f.held[o] /\ f.held[o] \in Seq(Blocks)
  BY <1>1 DEF Laid
<1>3. c \in Blocks
  BY <1>2, ToSetIs
<1>4. ASSUME NEW p \in Holder(f, c)
      PROVE  p = o
  <2>1. p \in Ops /\ c \in ToSet(f.held[p]) /\ f.held[p] \in Seq(Blocks)
    BY <1>1 DEF Holder
  <2>2. PICK j \in 1..Len(f.held[p]) : f.held[p][j] = c
    BY <2>1, ToSetIs
  <2>3. PICK i \in 1..Len(f.held[o]) : f.held[o][i] = c
    BY <1>2, ToSetIs
  <2>4. QED
    BY <1>1, <2>1, <2>2, <2>3 DEF Unshared
<1>5. o \in Holder(f, c)
  BY <1>1, <1>2 DEF Holder
<1> DEFINE p == CHOOSE q \in Holder(f, c) : TRUE
<1>6. p \in Holder(f, c)
  BY <1>5
<1>7. h.bparent[c] = Where(f, p)
  BY <1>3, <1>5 DEF Laid
<1> HIDE DEF p
<1>8. p = o
  BY <1>4, <1>6
<1>9. Where(f, o) = b
  BY <1>1, WhereIs
<1>10. QED
  BY <1>3, <1>7, <1>8, <1>9

LEMMA InitIs ==
  ASSUME Init
  PROVE  IInv /\ Lists!Init
<1>1. PICK f \in Functions :
        /\ heap = HeapOf(f)
        /\ fresh = {b \in Blocks \ {Root} : \A o \in Ops : b \notin ToSet(f.held[o])}
  BY DEF Init
<1>2. moved = {} /\ walk = <<>>
  BY DEF Init
<1>3. Laid(heap, f) /\ heap \in Heap
  BY <1>1, LaidIs
<1>4. Acyclic(heap)
  BY <1>3, LaidAcyclic
<1>5. /\ heap.id = f.kind /\ heap.inner = f.held
      /\ \A o \in Ops : heap.parent[o] = Where(f, o)
      /\ \A b \in Blocks : Path(heap, heap.first[b], f.lists[b], NULL)
  BY <1>3 DEF Laid
<1>6. /\ f.lists \in [Blocks -> Seq(Ops)]
      /\ \A b \in Blocks : f.lists[b] \in Seq(Ops) /\ ToSet(f.lists[b]) \subseteq Ops
      /\ Unshared(f.held) /\ NotHeld(f.held, Root)
      /\ \A b \in Blocks : \A o \in ToSet(f.lists[b]) : f.kind[o] # "none"
      /\ \A o \in Ops : f.kind[o] = "WHILE" => Len(f.held[o]) = 2
      /\ \A o \in Ops : f.kind[o] = "CFOR" => Len(f.held[o]) = 4
      /\ \A b \in Blocks \ {Root} : NotHeld(f.held, b) => f.lists[b] = <<>>
  BY TreeIs
<1>7. ASSUME NEW b \in Blocks
      PROVE  OpsOf(heap, b) = f.lists[b]
  <2>1. heap.first[b] \in Ops \cup {NULL}
    BY <1>3 DEF Heap
  <2>2. Chain(heap, heap.first[b]) = f.lists[b]
    BY <1>3, <1>4, <1>5, <1>6, <2>1, ChainIs
  <2>3. QED
    BY <2>2 DEF OpsOf
<1>8. Used = Blocks
  BY <1>2 DEF Used
<1>9. Listed = f.lists
  <2>1. Listed = [b \in Blocks |-> OpsOf(heap, b)]
    BY <1>2 DEF Listed
  <2>2. QED
    BY <1>6, <1>7, <2>1
<1>10. Rep(heap, f.lists, Blocks)
  <2>1. ASSUME NEW b \in Blocks, NEW o \in ToSet(f.lists[b])
        PROVE  heap.parent[o] = b
    <3>1. o \in Ops
      BY <1>6
    <3>2. QED
      BY <1>5, <3>1, WhereIs
  <2>2. QED
    BY <1>3, <1>4, <1>5, <1>6, <2>1 DEF Rep
<1>11. Held(heap, f.lists, Blocks)
  <2>1. \A b \in Blocks : \A o \in ToSet(f.lists[b]) : \A c \in ToSet(heap.inner[o]) :
          c \in Blocks /\ heap.bparent[c] = b
    BY <1>3, LaidHeld
  <2>2. QED
    BY <1>5, <1>6, <2>1 DEF Held, HeldBut
<1>12. Kinded(heap, f.lists, Blocks)
  BY <1>5, <1>6 DEF Kinded
<1>13. Unused(heap, f.lists, Blocks, fresh)
  <2>1. fresh = {b \in Blocks \ {Root} : NotHeld(f.held, b)}
    BY <1>1 DEF NotHeld
  <2>2. QED
    BY <1>5, <1>6, <2>1 DEF Unused
<1>14. Walking(heap, f.lists, Blocks, walk)
  <2>1. walk \in Seq(Place) /\ Len(walk) = 0
    BY <1>2, Empty
  <2>2. 1..Len(walk) = {} /\ 1..Len(walk) - 1 = {}
    BY <2>1
  <2>3. QED
    BY <1>2, <2>1, <2>2 DEF Walking
<1>15. moved \subseteq Blocks \ {Root}
  BY <1>2
<1>16. IInv
  BY <1>8, <1>9, <1>10, <1>11, <1>12, <1>13, <1>14, <1>15 DEF IInv
<1>17. Walks = <<>>
  BY <1>2, <1>16, WalksIs
<1>18. QED
  BY <1>5, <1>9, <1>16, <1>17 DEF Lists!Init

\* A step that changes nothing.
LEMMA StaysIs ==
  ASSUME IInv, UNCHANGED vars
  PROVE  IInv' /\ UNCHANGED Lists!vars
<1>1. UNCHANGED <<heap, fresh, moved, walk>>
  BY DEF vars
<1>2. Listed' = Listed /\ Used' = Used
  BY <1>1 DEF Listed, Used
<1>3. IInv'
  BY <1>1, <1>2 DEF IInv
<1>4. Walks' = Walks
  BY <1>1 DEF Walks
<1>5. QED
  BY <1>1, <1>2, <1>3, <1>4 DEF Lists!vars

\* Every step of a pass is a step of the lists.
LEMMA NextIs ==
  ASSUME IInv, [Next]_vars
  PROVE  IInv' /\ [Lists!Next]_Lists!vars
<1>1. CASE UNCHANGED vars
  BY <1>1, StaysIs
<1>2. CASE Start
  BY <1>2, StartIs DEF Lists!Next
<1>3. CASE Descend
  BY <1>3, DescendIs DEF Lists!Next
<1>4. CASE Finish
  BY <1>4, FinishIs DEF Lists!Next
<1>5. CASE Keep
  BY <1>5, KeepIs DEF Lists!Next
<1>6. CASE RemoveHere
  BY <1>6, RemoveHereIs DEF Lists!Next
<1>7. CASE RemoveCode
  BY <1>7, RemoveCodeIs DEF Lists!Next
<1>8. CASE InsertBefore
  BY <1>8, InsertBeforeIs DEF Lists!Next
<1>9. CASE InsertBehind
  BY <1>9, InsertBehindIs DEF Lists!Next
<1>10. CASE JoinCompute
  BY <1>10, JoinComputeIs DEF Lists!Next
<1>11. CASE ReduceIf
  BY <1>11, ReduceIfIs DEF Lists!Next
<1>12. CASE Normalize
  BY <1>12, NormalizeIs DEF Lists!Next
<1>13. CASE LowerLoop
  BY <1>13, LowerLoopIs DEF Lists!Next
<1>14. QED
  BY <1>1, <1>2, <1>3, <1>4, <1>5, <1>6, <1>7, <1>8, <1>9, <1>10, <1>11, <1>12, <1>13 DEF Next

LEMMA InvariantHolds == Spec => []IInv
<1>1. Init => IInv
  BY InitIs
<1>2. IInv /\ [Next]_vars => IInv'
  BY NextIs
<1>3. QED
  BY <1>1, <1>2, PTL DEF Spec

(***************************************************************************)
(* What holds for every function the passes may be given.                    *)
(***************************************************************************)
\* Whatever the passes insert, remove, join or give to another block while they walk
\* over it, the block an operation says is its own (op->parent) has it in its list, and
\* what the blocks an operation holds call their parent is the block it is in.
THEOREM ParentsAlwaysRight == Spec => []ParentsRight
<1>1. ASSUME IInv
      PROVE  ParentsRight
  <2>1. Rep(heap, Listed, Used) /\ Held(heap, Listed, Used)
    BY <1>1, InvIs
  <2>2. ASSUME NEW b \in Blocks \ moved, NEW o \in ToSet(OpsOf(heap, b))
        PROVE  /\ heap.parent[o] = b
               /\ \A c \in ToSet(heap.inner[o]) : heap.bparent[c] = b /\ c \notin moved
    <3>1. b \in Used
      BY DEF Used
    <3>2. OpsOf(heap, b) = Listed[b]
      BY <2>1, <3>1, RepList
    <3>3. heap.parent[o] = b
      BY <2>1, <3>1, <3>2, RepList
    <3>4. \A c \in ToSet(heap.inner[o]) : c \in Used /\ heap.bparent[c] = b
      BY <2>1, <3>1, <3>2 DEF Held, HeldBut
    <3>5. QED
      BY <3>3, <3>4 DEF Used
  <2>3. QED
    BY <2>2 DEF ParentsRight
<1>2. QED
  BY <1>1, InvariantHolds, PTL

\* Every pointer has its type, and no list of operations goes in a circle, not even one
\* of a block whose operations were given away: the loops of the passes over next, and
\* the search of vx_IrBlock_tail, come to an end.
THEOREM ListsEnd == Spec => []TypeOK
<1>1. ASSUME IInv
      PROVE  TypeOK
  <2>1. Rep(heap, Listed, Used)
    BY <1>1, InvIs
  <2>2. /\ heap \in Heap /\ Acyclic(heap)
        /\ heap.first \in [Blocks -> Ops \cup {NULL}] /\ heap.next \in [Ops -> Ops \cup {NULL}]
        /\ heap.parent \in [Ops -> Blocks \cup {NULL}] /\ heap.bparent \in [Blocks -> Blocks \cup {NULL}]
        /\ heap.inner \in [Ops -> Seq(Blocks)]
    BY <2>1, RepHeap
  <2>3. ASSUME NEW b \in Blocks
        PROVE  Len(OpsOf(heap, b)) <= Cardinality(Ops)
    <3>1. heap.first[b] \in Ops \cup {NULL}
      BY <2>2
    <3>2. PICK s \in Seq(Ops) : Path(heap, heap.first[b], s, NULL)
      BY <2>2, <3>1, PathExists
    <3>3. OpsOf(heap, b) = s
      BY <2>2, <3>1, <3>2, ChainIs DEF OpsOf
    <3>4. QED
      BY <2>2, <3>2, <3>3, PathFits
  <2>4. \A i \in DOMAIN walk : walk[i].block \in Blocks /\ walk[i].op \in Ops \cup {NULL}
    <3>1. walk \in Seq(Place)
      BY <1>1, WalkFacts
    <3>2. \A i \in DOMAIN walk : walk[i] \in Place
      BY <3>1
    <3>3. QED
      BY <3>2 DEF Place
  <2>5. QED
    BY <2>2, <2>3, <2>4 DEF TypeOK
<1>2. QED
  BY <1>1, InvariantHolds, PTL

\* The linked operations implement sequences: a pass that edits a block where it stands
\* and goes on with op->next edits the sequence there and goes on with what then follows.
THEOREM BuilderImplementsLists == Spec => ImplementsLists
<1>1. Init => IInv /\ Lists!Init
  BY InitIs
<1>2. IInv /\ [Next]_vars => [Lists!Next]_Lists!vars
  BY NextIs
<1>3. QED
  BY <1>1, <1>2, InvariantHolds, PTL DEF Spec, ImplementsLists, Lists!Spec

================================================================================
