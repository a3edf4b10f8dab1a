---------------------------- MODULE LlPassesProofs ----------------------------
(***************************************************************************)
(* Every iteration of a pass over a flat block leaves a block that is well  *)
(* formed and equivalent to the one before: it can show the same stores,    *)
(* returned values and ends, for any number of variables, labels and values *)
(* and for executions of any length.                                        *)
(***************************************************************************)
EXTENDS LlPasses, LlirProofs

--------------------------------------------------------------------------------
(***************************************************************************)
(* Blocks from which the operations a..b-1 are cut out.                     *)
(***************************************************************************)
Cut(p, a, b) == SubSeq(p, 1, a - 1) \o SubSeq(p, b, Len(p))

\* Where the operation at i, or if it was cut out what follows it, is then.
Down(a, b, i) == IF i < a THEN i ELSE IF i < b THEN a ELSE i - (b - a)

LEMMA CutIs ==
  ASSUME NEW S, NEW p \in Seq(S), NEW a \in 1..Len(p) + 1, NEW b \in a..Len(p) + 1
  PROVE  /\ Cut(p, a, b) \in Seq(S)
         /\ Len(Cut(p, a, b)) = Len(p) - (b - a)
         /\ \A i \in 1..Len(p) : i \notin a..b - 1 => Cut(p, a, b)[Down(a, b, i)] = p[i]
<1> DEFINE s1 == SubSeq(p, 1, a - 1)
           s2 == SubSeq(p, b, Len(p))
<1>1. Len(p) \in Nat /\ \A i \in 1..Len(p) : p[i] \in S
  OBVIOUS
<1>2. /\ s1 \in Seq(S) /\ Len(s1) = a - 1
      /\ \A i \in 1..a - 1 : s1[i] = p[i]
  <2>1. \A i \in 1..a - 1 : p[i] \in S
    BY <1>1
  <2>2. /\ s1 \in Seq(S) /\ Len(s1) = IF 1 <= a - 1 THEN (a - 1) - 1 + 1 ELSE 0
        /\ \A i \in 1..(a - 1) - 1 + 1 : s1[i] = p[1 + i - 1]
    BY <2>1, <1>1, SubSeqProperties
  <2>3. QED
    BY <2>2, <1>1
<1>3. /\ s2 \in Seq(S) /\ Len(s2) = Len(p) - b + 1
      /\ \A i \in 1..Len(p) - b + 1 : s2[i] = p[b + i - 1]
  <2>1. \A i \in b..Len(p) : p[i] \in S
    BY <1>1
  <2>2. /\ s2 \in Seq(S) /\ Len(s2) = IF b <= Len(p) THEN Len(p) - b + 1 ELSE 0
        /\ \A i \in 1..Len(p) - b + 1 : s2[i] = p[b + i - 1]
    BY <2>1, <1>1, SubSeqProperties
  <2>3. QED
    BY <2>2, <1>1
<1> HIDE DEF s1, s2
<1>4. /\ s1 \o s2 \in Seq(S) /\ Len(s1 \o s2) = Len(s1) + Len(s2)
      /\ \A i \in 1..Len(s1) + Len(s2) : (s1 \o s2)[i] = IF i <= Len(s1) THEN s1[i] ELSE s2[i - Len(s1)]
  BY <1>2, <1>3, ConcatProperties
<1>5. Cut(p, a, b) = s1 \o s2
  BY DEF Cut, s1, s2
<1>6. ASSUME NEW i \in 1..a - 1
      PROVE  Cut(p, a, b)[Down(a, b, i)] = p[i]
  <2>1. Down(a, b, i) = i /\ i \in 1..Len(s1) + Len(s2) /\ i <= Len(s1)
    BY <1>1, <1>2, <1>3 DEF Down
  <2>2. QED
    BY <1>2, <1>4, <1>5, <2>1
<1>7. ASSUME NEW i \in b..Len(p)
      PROVE  Cut(p, a, b)[Down(a, b, i)] = p[i]
  <2> DEFINE j == i - (b - a)
  <2>1. Down(a, b, i) = j /\ j \in 1..Len(s1) + Len(s2) /\ ~(j <= Len(s1))
    BY <1>1, <1>2, <1>3 DEF Down
  <2>2. j - Len(s1) \in 1..Len(p) - b + 1 /\ b + (j - Len(s1)) - 1 = i
    BY <1>1, <1>2
  <2>3. (s1 \o s2)[j] = s2[j - Len(s1)]
    BY <1>4, <2>1
  <2>4. QED
    BY <1>3, <1>5, <2>1, <2>2, <2>3
<1>8. \A i \in 1..Len(p) : i \notin a..b - 1 => i \in 1..a - 1 \/ i \in b..Len(p)
  BY <1>1
<1>9. Cut(p, a, b) \in Seq(S) /\ Len(Cut(p, a, b)) = Len(p) - (b - a)
  <2>1. Len(s1 \o s2) = Len(p) - (b - a)
    <3>1. /\ Len(s1) = a - 1 /\ Len(s2) = Len(p) - b + 1
          /\ Len(s1 \o s2) = Len(s1) + Len(s2)
      BY <1>2, <1>3, <1>4
    <3>2. QED
      BY <1>1, <3>1
  <2>2. s1 \o s2 \in Seq(S)
    BY <1>4
  <2>3. QED
    BY <1>5, <2>1, <2>2
<1>10. QED
  BY <1>6, <1>7, <1>8, <1>9

\* A cut that keeps the labels jumps need, and an operation that leaves last.
Cuttable(p, a, b) ==
  /\ a \in 1..Len(p) + 1 /\ b \in a..Len(p) + 1
  /\ b = Len(p) + 1 => a > 1 /\ EndsFlow(p[a - 1])
  /\ \A i \in 1..Len(p), j \in a..b - 1 :
       i \notin a..b - 1 /\ p[i].id \in Jumps => ~(p[j].id = "LABEL" /\ p[j].label = p[i].label)

\* The operations of the cut block, each with the one it was.
LEMMA CutOperation ==
  ASSUME NEW p \in Seq(Op), NEW a \in 1..Len(p) + 1, NEW b \in a..Len(p) + 1
  PROVE  /\ \A j \in 1..Len(Cut(p, a, b)) : \E i \in 1..Len(p) :
              i \notin a..b - 1 /\ j = Down(a, b, i) /\ Cut(p, a, b)[j] = p[i]
         /\ \A i \in 1..Len(p) : i \notin a..b - 1 =>
              Down(a, b, i) \in 1..Len(Cut(p, a, b)) /\ Cut(p, a, b)[Down(a, b, i)] = p[i]
<1>1. /\ Len(p) \in Nat /\ Len(Cut(p, a, b)) = Len(p) - (b - a)
      /\ \A i \in 1..Len(p) : i \notin a..b - 1 => Cut(p, a, b)[Down(a, b, i)] = p[i]
  <2>1. Len(p) \in Nat
    OBVIOUS
  <2>2. Len(Cut(p, a, b)) = Len(p) - (b - a)
    BY CutIs
  <2>3. \A i \in 1..Len(p) : i \notin a..b - 1 => Cut(p, a, b)[Down(a, b, i)] = p[i]
    BY CutIs
  <2>4. QED
    BY <2>1, <2>2, <2>3
<1>2. ASSUME NEW j \in 1..Len(Cut(p, a, b))
      PROVE  \E i \in 1..Len(p) : i \notin a..b - 1 /\ j = Down(a, b, i) /\ Cut(p, a, b)[j] = p[i]
  <2>1. CASE j < a
    <3>1. j \in 1..Len(p) /\ j \notin a..b - 1 /\ Down(a, b, j) = j
      BY <1>1, <2>1 DEF Down
    <3>2. QED
      BY <1>1, <3>1
  <2>2. CASE j >= a
    <3> DEFINE i == j + (b - a)
    <3>1. i \in 1..Len(p) /\ i \notin a..b - 1 /\ Down(a, b, i) = j
      BY <1>1, <2>2 DEF Down
    <3> HIDE DEF i
    <3>2. QED
      BY <1>1, <3>1
  <2>3. QED
    BY <1>1, <2>1, <2>2
<1>3. ASSUME NEW i \in 1..Len(p), i \notin a..b - 1
      PROVE  Down(a, b, i) \in 1..Len(Cut(p, a, b)) /\ Cut(p, a, b)[Down(a, b, i)] = p[i]
  <2>1. Down(a, b, i) \in 1..Len(Cut(p, a, b))
    BY <1>1, <1>3 DEF Down
  <2>2. QED
    BY <1>1, <1>3, <2>1
<1>4. QED
  BY <1>2, <1>3

LEMMA CutCode ==
  ASSUME NEW p \in Code, NEW a \in Nat, NEW b \in Nat, Cuttable(p, a, b)
  PROVE  Cut(p, a, b) \in Code
<1> DEFINE q == Cut(p, a, b)
<1>1. /\ p \in Seq(Op) /\ Len(p) \in Nat \ {0} /\ DOMAIN p = 1..Len(p) /\ EndsFlow(p[Len(p)])
      /\ a \in 1..Len(p) + 1 /\ b \in a..Len(p) + 1
  BY CodeType DEF Cuttable
<1>2. q \in Seq(Op) /\ Len(q) = Len(p) - (b - a)
  BY <1>1, CutIs
<1>3. /\ \A j \in 1..Len(q) : \E i \in 1..Len(p) :
           i \notin a..b - 1 /\ j = Down(a, b, i) /\ q[j] = p[i]
      /\ \A i \in 1..Len(p) : i \notin a..b - 1 => Down(a, b, i) \in 1..Len(q) /\ q[Down(a, b, i)] = p[i]
  <2>1. p \in Seq(Op) /\ a \in 1..Len(p) + 1 /\ b \in a..Len(p) + 1
    BY <1>1
  <2>2. /\ \A j \in 1..Len(Cut(p, a, b)) : \E i \in 1..Len(p) :
             i \notin a..b - 1 /\ j = Down(a, b, i) /\ Cut(p, a, b)[j] = p[i]
        /\ \A i \in 1..Len(p) : i \notin a..b - 1 =>
             Down(a, b, i) \in 1..Len(Cut(p, a, b)) /\ Cut(p, a, b)[Down(a, b, i)] = p[i]
    BY <2>1, CutOperation, ZenonT(60)
  <2>3. QED
    BY <2>2, ZenonT(60) DEF q
<1> HIDE DEF q
<1>4. DOMAIN q = 1..Len(q)
  BY <1>2
<1>5. JumpsHaveLabels(q)
  <2> SUFFICES ASSUME NEW j \in DOMAIN q, q[j].id \in Jumps
               PROVE  \E k \in DOMAIN q : q[k].id = "LABEL" /\ q[k].label = q[j].label
    BY DEF JumpsHaveLabels, Declared
  <2>1. PICK i \in 1..Len(p) : i \notin a..b - 1 /\ q[j] = p[i]
    BY <1>3, <1>4
  <2>2. PICK k \in 1..Len(p) : p[k].id = "LABEL" /\ p[k].label = p[i].label
    BY <2>1, JumpFindsLabel
  <2>3. k \notin a..b - 1
    BY <2>1, <2>2 DEF Cuttable
  <2>4. QED
    BY <1>3, <1>4, <2>1, <2>2, <2>3
<1>6. LabelsUnique(q)
  <2> SUFFICES ASSUME NEW j \in DOMAIN q, NEW k \in DOMAIN q,
                      q[j].id = "LABEL", q[k].id = "LABEL", q[j].label = q[k].label
               PROVE  j = k
    BY DEF LabelsUnique
  <2>1. PICK i \in 1..Len(p) : j = Down(a, b, i) /\ q[j] = p[i]
    BY <1>3, <1>4
  <2>2. PICK h \in 1..Len(p) : k = Down(a, b, h) /\ q[k] = p[h]
    BY <1>3, <1>4
  <2>3. i = h
    BY <1>1, <2>1, <2>2, CodeType DEF WellFormed, LabelsUnique
  <2>4. QED
    BY <2>1, <2>2, <2>3
<1>7. Leaves(q)
  <2>1. PICK i \in 1..Len(p) : i \notin a..b - 1 /\ Len(q) = Down(a, b, i) /\ EndsFlow(p[i])
    <3>1. CASE b = Len(p) + 1
      <4>1. a > 1 /\ EndsFlow(p[a - 1]) /\ a - 1 \in 1..Len(p) /\ a - 1 \notin a..b - 1
        BY <1>1, <3>1 DEF Cuttable
      <4>2. Len(q) = Down(a, b, a - 1)
        BY <1>1, <1>2, <3>1 DEF Down
      <4>3. QED
        BY <4>1, <4>2
    <3>2. CASE b <= Len(p)
      <4>1. Len(p) \notin a..b - 1 /\ Len(q) = Down(a, b, Len(p))
        BY <1>1, <1>2, <3>2 DEF Down
      <4>2. QED
        BY <1>1, <4>1
    <3>3. QED
      BY <1>1, <3>1, <3>2
  <2>2. Len(q) \in 1..Len(q) /\ EndsFlow(q[Len(q)])
    BY <1>3, <2>1
  <2>3. QED
    BY <1>2, <2>2 DEF Leaves, Last
<1>8. QED
  BY <1>2, <1>5, <1>6, <1>7 DEF Code, WellFormed, q

\* A step outside what was cut out, and the same step in what is left.
LEMMA CutStep ==
  ASSUME NEW p \in Code, NEW a \in Nat, NEW b \in Nat, Cuttable(p, a, b),
         NEW D \in SUBSET Vars,
         \A i \in 1..Len(p), v \in D : i \notin a..b - 1 => ~Reads(p[i], v),
         NEW s \in States(p), NEW t \in States(Cut(p, a, b)),
         s.pc \notin a..b - 1, t.pc = Down(a, b, s.pc), Agree(D, s, t)
  PROVE  LET n == ExecStep(p, s)
             m == ExecStep(Cut(p, a, b), t) IN
         /\ m.pc = Down(a, b, n.pc)
         /\ Agree(D, n, m)
         /\ n.pc \in a..b - 1 => n.pc = a /\ s.pc = a - 1 /\ ~EndsFlow(p[s.pc])
<1> DEFINE q == Cut(p, a, b)
           op == p[s.pc]
           n == ExecStep(p, s)
           m == ExecStep(q, t)
<1>1. /\ p \in Seq(Op) /\ Len(p) \in Nat \ {0}
      /\ a \in 1..Len(p) + 1 /\ b \in a..Len(p) + 1
      /\ s.pc \in 1..Len(p) /\ op \in Op
      /\ s.env \in [Vars -> Num] /\ t.env \in [Vars -> Num]
  BY CodeType, StateFields DEF Cuttable, States
<1>2. q \in Code
  BY CutCode
<1>3. \A i \in 1..Len(p) : i \notin a..b - 1 => Down(a, b, i) \in 1..Len(q) /\ q[Down(a, b, i)] = p[i]
  <2>1. p \in Seq(Op) /\ a \in 1..Len(p) + 1 /\ b \in a..Len(p) + 1
    BY <1>1
  <2>2. \A i \in 1..Len(p) : i \notin a..b - 1 =>
          Down(a, b, i) \in 1..Len(Cut(p, a, b)) /\ Cut(p, a, b)[Down(a, b, i)] = p[i]
    BY <2>1, CutOperation, ZenonT(60)
  <2>3. QED
    BY <2>2, ZenonT(60) DEF q
<1> HIDE DEF q
<1>4. q[t.pc] = op
  BY <1>1, <1>3
<1>5. CASE s.done
  <2>1. n = s /\ m = t
    BY <1>5, ExecDone DEF Agree
  <2>2. QED
    BY <2>1 DEF q
<1>6. CASE ~s.done
  <2>1. Alike(op, s.env, op, t.env)
    <3>1. op.args \in Seq(Value) /\ \A i \in 1..Len(op.args) : op.args[i] \in Value
      BY <1>1, OpFields
    <3>2. ASSUME NEW i \in 1..Len(op.args)
          PROVE  Eval(s.env, op.args[i]) = Eval(t.env, op.args[i])
      <4>1. CASE op.args[i].kind = "var"
        <5>1. op.args[i].n \in Vars /\ op.args[i] = Var(op.args[i].n)
          BY <3>1, <4>1 DEF Value, Var
        <5>2. op.args[i].n \notin D
          <6>1. op.args[i] \in ToSet(op.args)
            BY <3>1 DEF ToSet
          <6>2. QED
            BY <1>1, <5>1, <6>1 DEF Reads
        <5>3. QED
          BY <4>1, <5>1, <5>2 DEF Agree, Eval
      <4>2. CASE op.args[i].kind # "var"
        BY <4>2 DEF Eval
      <4>3. QED
        BY <4>1, <4>2
    <3>3. QED
      BY <3>2 DEF Alike
  <2>2. /\ Agree(D, n, m)
        /\ \/ n.pc = s.pc + 1 /\ m.pc = t.pc + 1 /\ ~EndsFlow(op)
           \/ n.pc = s.pc /\ m.pc = t.pc /\ n.done
           \/ op.id \in Jumps /\ n.pc = LabelAt(p, op.label) /\ m.pc = LabelAt(q, op.label)
    BY <1>2, <1>4, <1>6, <2>1, StepAlike DEF q
  <2>3. CASE n.pc = s.pc + 1 /\ m.pc = t.pc + 1 /\ ~EndsFlow(op)
    <3>1. m.pc = Down(a, b, n.pc)
      BY <1>1, <2>3 DEF Down
    <3>2. n.pc \in a..b - 1 => n.pc = a /\ s.pc = a - 1
      BY <1>1, <2>3
    <3>3. QED
      BY <2>2, <2>3, <3>1, <3>2 DEF q
  <2>4. CASE n.pc = s.pc /\ m.pc = t.pc
    BY <2>2, <2>4 DEF q
  <2>5. CASE op.id \in Jumps /\ n.pc = LabelAt(p, op.label) /\ m.pc = LabelAt(q, op.label)
    <3>1. n.pc \in 1..Len(p) /\ p[n.pc].id = "LABEL" /\ p[n.pc].label = op.label
      BY <1>1, <2>5, JumpFindsLabel
    <3>2. n.pc \notin a..b - 1
      BY <1>1, <2>5, <3>1 DEF Cuttable
    <3>3. Down(a, b, n.pc) \in 1..Len(q) /\ q[Down(a, b, n.pc)] = p[n.pc]
      BY <1>3, <3>1, <3>2
    <3>4. LabelAt(q, op.label) = Down(a, b, n.pc)
      BY <1>2, <3>1, <3>3, LabelFound
    <3>5. QED
      BY <2>2, <2>5, <3>2, <3>4 DEF q
  <2>6. QED
    BY <2>2, <2>3, <2>4, <2>5
<1>7. QED
  BY <1>5, <1>6

LEMMA ReachExec ==
  ASSUME NEW p \in Code, NEW s \in States(p)
  PROVE  /\ s \in Reach(Step(p), s)
         /\ \A x \in Reach(Step(p), s) : x \in States(p) /\ ExecStep(p, x) \in Reach(Step(p), s)
<1>1. Step(p) \in [States(p) -> States(p)] /\ \A x \in States(p) : Step(p)[x] = ExecStep(p, x)
  BY StepType DEF Step
<1>2. s \in Reach(Step(p), s) /\ Reach(Step(p), s) \subseteq States(p)
  BY <1>1, ReachType
<1>3. \A x \in Reach(Step(p), s) : Step(p)[x] \in Reach(Step(p), s)
  BY <1>1, ReachStep
<1>4. QED
  BY <1>1, <1>2, <1>3

\* Taking out an operation that goes on to the next one and changes at most
\* variables that no other operation reads.
LEMMA DeletionEquivalent ==
  ASSUME NEW p \in Code, NEW d \in 1..Len(p), Cuttable(p, d, d + 1),
         NEW D \in SUBSET Vars,
         \A i \in 1..Len(p), v \in D : i # d => ~Reads(p[i], v),
         \A s \in States(p) : s.pc = d /\ ~s.done =>
           ExecStep(p, s).pc = d + 1 /\ Agree(D, ExecStep(p, s), s)
  PROVE  RemoveAt(p, d) \in Code /\ Equivalent(p, RemoveAt(p, d))
<1> DEFINE q == Cut(p, d, d + 1)
           Related(s, t) == t.pc = Down(d, d + 1, s.pc) /\ Agree(D, s, t)
           R == {x \in States(p) \X States(q) : Related(x[1], x[2])}
<1>1. d \in Nat /\ d + 1 \in Nat /\ Len(p) \in Nat /\ \A i \in Int : i \in d..(d + 1) - 1 <=> i = d
  BY CodeType
<1>2. RemoveAt(p, d) = q
  BY DEF RemoveAt, Cut
<1>3. q \in Code
  BY <1>1, CutCode
<1>4. ASSUME NEW s \in States(p), NEW t \in States(q), Related(s, t), s.pc # d
      PROVE  Related(ExecStep(p, s), ExecStep(q, t))
  <2>1. s.pc \notin d..(d + 1) - 1
    BY <1>1, <1>4
  <2>2. \A i \in 1..Len(p), v \in D : i \notin d..(d + 1) - 1 => ~Reads(p[i], v)
    BY <1>1
  <2>3. QED
    BY <1>1, <1>4, <2>1, <2>2, CutStep
<1>5. \A s \in States(p), t \in States(q) : <<s, t>> \in R <=> Related(s, t)
  OBVIOUS
<1>6. \A env \in [Vars -> Num] : <<Start(env), Start(env)>> \in R
  <2> SUFFICES ASSUME NEW env \in [Vars -> Num]
               PROVE  Related(Start(env), Start(env))
    BY <1>3, <1>5, StartType
  <2>1. QED
    BY DEF Start, Down, Agree
<1> HIDE DEF q, R
<1>7. ASSUME NEW s \in States(p), NEW t \in States(q), <<s, t>> \in R
      PROVE  /\ Seen(s) = Seen(t)
             /\ \E n \in Reach(Step(q), t) : <<ExecStep(p, s), n>> \in R
             /\ \E n \in Reach(Step(p), s) : <<n, ExecStep(q, t)>> \in R
  <2>1. Related(s, t)
    BY <1>5, <1>7
  <2>2. /\ s \in Reach(Step(p), s) /\ ExecStep(p, s) \in Reach(Step(p), s) /\ ExecStep(p, s) \in States(p)
        /\ t \in Reach(Step(q), t) /\ ExecStep(q, t) \in Reach(Step(q), t) /\ ExecStep(q, t) \in States(q)
    BY <1>3, ReachExec
  <2>3. Seen(s) = Seen(t)
    BY <2>1 DEF Agree, Seen
  <2>4. CASE s.pc # d
    BY <1>4, <1>5, <2>1, <2>2, <2>3, <2>4
  <2>5. CASE s.pc = d /\ s.done
    <3>1. ExecStep(p, s) = s /\ ExecStep(q, t) = t
      BY <2>1, <2>5, ExecDone DEF Agree
    <3>2. QED
      BY <1>7, <2>2, <2>3, <3>1
  <2>6. CASE s.pc = d /\ ~s.done
    <3> DEFINE n == ExecStep(p, s)
    <3>1. n.pc = d + 1 /\ Agree(D, n, s)
      BY <2>6
    <3>2. t.pc = Down(d, d + 1, n.pc)
      BY <1>1, <2>1, <2>6, <3>1 DEF Down
    <3>3. Related(n, t)
      BY <2>1, <3>1, <3>2 DEF Agree
    <3>4. n.pc # d
      BY <1>1, <3>1
    <3>5. ExecStep(p, n) \in Reach(Step(p), s) /\ ExecStep(p, n) \in States(p)
      BY <2>2, ReachExec
    <3>6. Related(ExecStep(p, n), ExecStep(q, t))
      BY <1>4, <2>2, <3>3, <3>4
    <3>7. QED
      BY <1>5, <2>2, <2>3, <3>3, <3>5, <3>6
  <2>7. QED
    BY <2>4, <2>5, <2>6
<1>8. R \in SUBSET (States(p) \X States(q))
  BY DEF R
<1>9. Equivalent(p, q)
  BY <1>3, <1>6, <1>7, <1>8, Bisimulation
<1>10. QED
  BY <1>2, <1>3, <1>9

--------------------------------------------------------------------------------
(***************************************************************************)
(* The passes, one iteration each.                                          *)
(***************************************************************************)
Improves(p, r) == r.prog \in Code /\ r.next \in 1..Len(r.prog) + 1 /\ Equivalent(p, r.prog)

LEMMA UnchangedImproves ==
  ASSUME NEW p \in Code, NEW at \in 1..Len(p)
  PROVE  Improves(p, Unchanged(p, at))
  BY CodeType DEF Improves, Unchanged, Equivalent

LEMMA UnlinkImproves ==
  ASSUME NEW p \in Code, NEW at \in 1..Len(p), ~EndsFlow(p[at]),
         RemoveAt(p, at) \in Code, Equivalent(p, RemoveAt(p, at))
  PROVE  Improves(p, Unlink(p, at))
<1>1. at < Len(p)
  BY NotLast
<1>2. Len(Cut(p, at, at + 1)) = Len(p) - ((at + 1) - at)
  <2>1. p \in Seq(Op) /\ at \in 1..Len(p) + 1 /\ at + 1 \in at..Len(p) + 1
    BY CodeType
  <2>2. QED
    BY <2>1, CutIs
<1>3. RemoveAt(p, at) = Cut(p, at, at + 1)
  BY DEF RemoveAt, Cut
<1>4. QED
  BY <1>1, <1>2, <1>3, CodeType DEF Improves, Unlink

\* Operations that may be taken out one at a time.
LEMMA CuttableOne ==
  ASSUME NEW p \in Code, NEW d \in 1..Len(p), ~EndsFlow(p[d]),
         p[d].id = "LABEL" => ~LabelUsed(p, p[d].label)
  PROVE  Cuttable(p, d, d + 1)
<1>1. d < Len(p) /\ DOMAIN p = 1..Len(p) /\ Len(p) \in Nat
  BY NotLast, CodeType
<1>2. d \in 1..Len(p) + 1 /\ d + 1 \in d..Len(p) + 1 /\ d + 1 # Len(p) + 1
  BY <1>1
<1>3. ASSUME NEW i \in 1..Len(p), NEW j \in d..(d + 1) - 1, p[i].id \in Jumps,
             p[j].id = "LABEL", p[j].label = p[i].label
      PROVE  FALSE
  <2>1. j = d
    BY <1>1
  <2>2. QED
    BY <1>1, <1>3, <2>1 DEF LabelUsed
<1>4. QED
  BY <1>2, <1>3 DEF Cuttable

LEMMA DceLabelImproves ==
  ASSUME NEW p \in Code, NEW at \in 1..Len(p)
  PROVE  Improves(p, DceLabel(p, at))
<1>1. CASE p[at].id = "LABEL" /\ ~LabelUsed(p, p[at].label)
  <2>1. ~EndsFlow(p[at])
    BY <1>1 DEF EndsFlow
  <2>2. Cuttable(p, at, at + 1)
    BY <1>1, <2>1, CuttableOne
  <2>3. ASSUME NEW s \in States(p), s.pc = at, ~s.done
        PROVE  ExecStep(p, s).pc = at + 1 /\ Agree({}, ExecStep(p, s), s)
    <3>1. ExecStep(p, s) = [pc |-> s.pc + 1, env |-> s.env, trace |-> s.trace, done |-> FALSE]
      BY <1>1, <2>3, ExecLabel
    <3>2. s.done = FALSE
      BY <2>3, StateFields
    <3> DEFINE n == [pc |-> s.pc + 1, env |-> s.env, trace |-> s.trace, done |-> FALSE]
    <3>3. n.pc = at + 1 /\ n.env = s.env /\ n.trace = s.trace /\ n.done = s.done
      BY <2>3, <3>2
    <3> HIDE DEF n
    <3>4. QED
      BY <3>1, <3>3 DEF Agree, n
  <2>4. RemoveAt(p, at) \in Code /\ Equivalent(p, RemoveAt(p, at))
    BY <2>2, <2>3, DeletionEquivalent, {} \in SUBSET Vars
  <2>5. QED
    BY <1>1, <2>1, <2>4, UnlinkImproves DEF DceLabel
<1>2. QED
  BY <1>1, UnchangedImproves DEF DceLabel

\* An operation without side effect, whose output is read by no other
\* operation, or stays as it is.
LEMMA PureDeletion ==
  ASSUME NEW p \in Code, NEW at \in 1..Len(p), p[at].id \in Pure,
         \/ p[at].id = "IMM" /\ p[at].args[1] = Var(p[at].out)
         \/ ~VarUsed(p, p[at].out)
  PROVE  Improves(p, Unlink(p, at))
<1> DEFINE op == p[at]
           copy == op.id = "IMM" /\ op.args[1] = Var(op.out)
           D == IF copy THEN {} ELSE {op.out}
<1>1. op \in Op /\ op.out \in Vars /\ ~EndsFlow(op) /\ op.id # "LABEL" /\ DOMAIN p = 1..Len(p)
  BY CodeType, OpFields DEF Pure, EndsFlow
<1>2. Cuttable(p, at, at + 1)
  BY <1>1, CuttableOne
<1>3. D \in SUBSET Vars
  BY <1>1
<1>4. \A i \in 1..Len(p), v \in D : i # at => ~Reads(p[i], v)
  BY <1>1 DEF VarUsed
<1>5. ASSUME NEW s \in States(p), s.pc = at, ~s.done
      PROVE  ExecStep(p, s).pc = at + 1 /\ Agree(D, ExecStep(p, s), s)
  <2>1. s.env \in [Vars -> Num] /\ s.done = FALSE
    BY <1>5, StateFields
  <2>2. ExecStep(p, s) = [pc |-> s.pc + 1, env |-> [s.env EXCEPT ![op.out] = Result(s.env, op)],
                          trace |-> s.trace, done |-> FALSE]
    BY <1>5, ExecPure
  <2>3. copy => Result(s.env, op) = s.env[op.out]
    BY DEF Result, Eval, Var
  <2> DEFINE env == [s.env EXCEPT ![op.out] = Result(s.env, op)]
             n == [pc |-> s.pc + 1, env |-> env, trace |-> s.trace, done |-> FALSE]
  <2>4. \A v \in Vars \ D : env[v] = s.env[v]
    BY <1>1, <2>1, <2>3
  <2> HIDE DEF env
  <2>5. n.pc = at + 1 /\ n.env = env /\ n.trace = s.trace /\ n.done = s.done
    BY <1>5, <2>1
  <2>6. ExecStep(p, s) = n
    BY <2>2 DEF env
  <2> HIDE DEF n
  <2>7. QED
    BY <2>4, <2>5, <2>6 DEF Agree
<1> HIDE DEF D
<1>6. RemoveAt(p, at) \in Code /\ Equivalent(p, RemoveAt(p, at))
  BY <1>2, <1>3, <1>4, <1>5, DeletionEquivalent
<1>7. QED
  BY <1>1, <1>6, UnlinkImproves

LEMMA RemoveUnusedImproves ==
  ASSUME NEW p \in Code, NEW at \in 1..Len(p)
  PROVE  Improves(p, RemoveUnused(p, at))
  BY PureDeletion, UnchangedImproves DEF RemoveUnused, Removable, HasSideEffect

LEMMA MinIs ==
  ASSUME NEW C \in SUBSET Nat, C # {}
  PROVE  Min(C) \in C /\ \A i \in C : Min(C) <= i
<1>1. \E i \in C : \A j \in C : i <= j
  BY LeastNat
<1>2. QED
  BY <1>1 DEF Min

LEMMA NextLabelIs ==
  ASSUME NEW p \in Code, NEW from \in 1..Len(p) + 1
  PROVE  /\ NextLabel(p, from) \in from..Len(p) + 1
         /\ \A i \in from..NextLabel(p, from) - 1 : i \in 1..Len(p) /\ p[i].id # "LABEL"
<1> DEFINE found == {i \in from..Len(p) : p[i].id = "LABEL"}
<1>1. Len(p) \in Nat
  BY CodeType
<1>2. CASE found = {}
  BY <1>1, <1>2 DEF NextLabel
<1>3. CASE found # {}
  <2>1. found \in SUBSET Nat /\ \A i \in found : i \in Int
    BY <1>1
  <2>2. \A i \in Int : i \in found <=> i \in from..Len(p) /\ p[i].id = "LABEL"
    BY <1>1
  <2>3. NextLabel(p, from) = Min(found)
    BY <1>3 DEF NextLabel
  <2> HIDE DEF found
  <2>4. Min(found) \in found /\ \A i \in found : Min(found) <= i
    BY <1>3, <2>1, MinIs
  <2>5. Min(found) \in from..Len(p)
    <3>1. Min(found) \in Int
      BY <2>1, <2>4
    <3>2. QED
      BY <2>2, <2>4, <3>1
  <2>6. ASSUME NEW i \in from..Min(found) - 1
        PROVE  i \in 1..Len(p) /\ p[i].id # "LABEL"
    <3>1. i \in Int /\ i \in from..Len(p) /\ ~(Min(found) <= i) /\ i \in 1..Len(p)
      BY <1>1, <2>5
    <3>2. i \notin found
      BY <2>4, <3>1
    <3>3. QED
      BY <2>2, <3>1, <3>2
  <2>7. QED
    BY <1>1, <2>3, <2>5, <2>6
<1>4. QED
  BY <1>2, <1>3

\* Taking out what follows an operation that leaves, and no jump leads to.
LEMMA UnreachableCutEquivalent ==
  ASSUME NEW p \in Code, NEW a \in Nat, NEW b \in Nat, Cuttable(p, a, b),
         a > 1, EndsFlow(p[a - 1])
  PROVE  Cut(p, a, b) \in Code /\ Equivalent(p, Cut(p, a, b))
<1> DEFINE q == Cut(p, a, b)
           Related(s, t) == s.pc \notin a..b - 1 /\ t.pc = Down(a, b, s.pc) /\ Agree({}, s, t)
           R == {x \in States(p) \X States(q) : Related(x[1], x[2])}
<1>1. q \in Code
  BY CutCode
<1>2. ASSUME NEW s \in States(p), NEW t \in States(q), Related(s, t)
      PROVE  Related(ExecStep(p, s), ExecStep(q, t))
  <2> DEFINE n == ExecStep(p, s)
             m == ExecStep(q, t)
  <2>1. {} \in SUBSET Vars /\ \A i \in 1..Len(p), v \in {} : i \notin a..b - 1 => ~Reads(p[i], v)
    OBVIOUS
  <2>2. /\ m.pc = Down(a, b, n.pc)
        /\ Agree({}, n, m)
        /\ n.pc \in a..b - 1 => n.pc = a /\ s.pc = a - 1 /\ ~EndsFlow(p[s.pc])
    BY <1>2, <2>1, CutStep
  <2> HIDE DEF n, m
  <2>3. n.pc \notin a..b - 1
    BY <2>2
  <2>4. QED
    BY <2>2, <2>3 DEF n, m
<1>3. \A s \in States(p), t \in States(q) : <<s, t>> \in R <=> Related(s, t)
  OBVIOUS
<1>4. \A env \in [Vars -> Num] : <<Start(env), Start(env)>> \in R
  <2> SUFFICES ASSUME NEW env \in [Vars -> Num]
               PROVE  Related(Start(env), Start(env))
    BY <1>1, <1>3, StartType
  <2>1. QED
    BY DEF Start, Down, Agree
<1> HIDE DEF q, R
<1>5. ASSUME NEW s \in States(p), NEW t \in States(q), <<s, t>> \in R
      PROVE  /\ Seen(s) = Seen(t)
             /\ \E n \in Reach(Step(q), t) : <<ExecStep(p, s), n>> \in R
             /\ \E n \in Reach(Step(p), s) : <<n, ExecStep(q, t)>> \in R
  <2>1. /\ ExecStep(p, s) \in Reach(Step(p), s) /\ ExecStep(p, s) \in States(p)
        /\ ExecStep(q, t) \in Reach(Step(q), t) /\ ExecStep(q, t) \in States(q)
    BY <1>1, ReachExec
  <2>2. Seen(s) = Seen(t)
    BY <1>3, <1>5 DEF Agree, Seen
  <2>3. <<ExecStep(p, s), ExecStep(q, t)>> \in R
    BY <1>2, <1>3, <1>5, <2>1
  <2>4. QED
    BY <2>1, <2>2, <2>3
<1>6. R \in SUBSET (States(p) \X States(q))
  BY DEF R
<1>7. Equivalent(p, q)
  BY <1>1, <1>4, <1>5, <1>6, Bisimulation
<1>8. QED
  BY <1>1, <1>7 DEF q

LEMMA DceCodeImproves ==
  ASSUME NEW p \in Code, NEW at \in 1..Len(p)
  PROVE  Improves(p, DceCode(p, at))
<1>1. CASE EndsFlow(p[at])
  <2> DEFINE a == at + 1
             b == NextLabel(p, a)
             q == Cut(p, a, b)
  <2>1. Len(p) \in Nat /\ a \in 1..Len(p) + 1 /\ a \in Nat /\ a > 1 /\ a - 1 = at /\ p \in Seq(Op)
    BY CodeType
  <2>2. b \in a..Len(p) + 1 /\ \A i \in a..b - 1 : p[i].id # "LABEL"
    BY <2>1, NextLabelIs
  <2>3. DceCode(p, at) = [prog |-> q, next |-> at + 1]
    BY <1>1, <2>1 DEF DceCode, Cut
  <2> HIDE DEF a, b
  <2>4. b \in Nat /\ Cuttable(p, a, b)
    BY <1>1, <2>1, <2>2 DEF Cuttable
  <2>5. Len(q) = Len(p) - (b - a)
    BY <2>1, <2>2, CutIs
  <2>6. q \in Code /\ Equivalent(p, q)
    BY <1>1, <2>1, <2>4, UnreachableCutEquivalent
  <2>7. at + 1 \in 1..Len(q) + 1
    BY <2>1, <2>2, <2>5
  <2>8. QED
    BY <2>3, <2>6, <2>7 DEF Improves
<1>2. QED
  BY <1>1, UnchangedImproves DEF DceCode

--------------------------------------------------------------------------------
(***************************************************************************)
(* Passes that keep every operation in its place.                           *)
(***************************************************************************)
SameShape(p, q) ==
  /\ q \in Seq(Op) /\ Len(q) = Len(p)
  /\ \A i \in 1..Len(p) : q[i].id = p[i].id /\ q[i].label = p[i].label

LEMMA SameShapeCode ==
  ASSUME NEW p \in Code, NEW q, SameShape(p, q)
  PROVE  /\ q \in Code
         /\ \A i \in 1..Len(p) : p[i].id \in Jumps => LabelAt(q, p[i].label) = LabelAt(p, p[i].label)
<1>1. /\ Len(p) \in Nat \ {0} /\ DOMAIN p = 1..Len(p) /\ EndsFlow(p[Len(p)])
      /\ JumpsHaveLabels(p) /\ LabelsUnique(p)
  BY CodeType DEF WellFormed
<1>2. DOMAIN q = 1..Len(p) /\ Len(p) \in 1..Len(p)
  BY <1>1 DEF SameShape
<1>3. JumpsHaveLabels(q)
  BY <1>1, <1>2 DEF SameShape, JumpsHaveLabels, Declared
<1>4. LabelsUnique(q)
  BY <1>1, <1>2 DEF SameShape, LabelsUnique
<1>5. Leaves(q)
  BY <1>1, <1>2 DEF SameShape, Leaves, Last, EndsFlow
<1>6. q \in Code
  BY <1>3, <1>4, <1>5 DEF SameShape, Code, WellFormed
<1>7. ASSUME NEW i \in 1..Len(p), p[i].id \in Jumps
      PROVE  LabelAt(q, p[i].label) = LabelAt(p, p[i].label)
  <2> DEFINE j == LabelAt(p, p[i].label)
  <2>1. j \in 1..Len(p) /\ p[j].id = "LABEL" /\ p[j].label = p[i].label
    BY <1>7, JumpFindsLabel
  <2>2. j \in 1..Len(q) /\ q[j].id = "LABEL" /\ q[j].label = p[i].label
    BY <2>1 DEF SameShape
  <2> HIDE DEF j
  <2>3. LabelAt(q, q[j].label) = j
    BY <1>6, <2>2, LabelFound
  <2>4. QED
    BY <2>2, <2>3 DEF j
<1>8. QED
  BY <1>6, <1>7

\* Executions through the same states.
LEMMA LockstepEquivalent ==
  ASSUME NEW p \in Code, NEW q \in Code, Len(q) = Len(p),
         NEW K \in SUBSET States(p), \A env \in [Vars -> Num] : Start(env) \in K,
         \A s \in K : ExecStep(q, s) = ExecStep(p, s) /\ ExecStep(p, s) \in K
  PROVE  Equivalent(p, q)
<1> DEFINE R == {x \in States(p) \X States(q) : x[1] \in K /\ x[2] = x[1]}
<1>1. States(q) = States(p)
  BY DEF States
<1>2. \A s \in States(p), t \in States(q) : <<s, t>> \in R <=> s \in K /\ t = s
  OBVIOUS
<1>3. \A env \in [Vars -> Num] : <<Start(env), Start(env)>> \in R
  BY <1>1, <1>2
<1>4. R \in SUBSET (States(p) \X States(q))
  OBVIOUS
<1> HIDE DEF R
<1>5. ASSUME NEW s \in States(p), NEW t \in States(q), <<s, t>> \in R
      PROVE  /\ Seen(s) = Seen(t)
             /\ \E n \in Reach(Step(q), t) : <<ExecStep(p, s), n>> \in R
             /\ \E n \in Reach(Step(p), s) : <<n, ExecStep(q, t)>> \in R
  <2>1. s \in K /\ t = s
    BY <1>2, <1>5
  <2>2. /\ ExecStep(p, s) \in Reach(Step(p), s) /\ ExecStep(p, s) \in States(p)
        /\ ExecStep(q, t) \in Reach(Step(q), t) /\ ExecStep(q, t) \in States(q)
    BY ReachExec
  <2>3. <<ExecStep(p, s), ExecStep(q, t)>> \in R
    BY <1>2, <2>1, <2>2
  <2>4. QED
    BY <2>1, <2>2, <2>3
<1>6. QED
  BY <1>3, <1>4, <1>5, Bisimulation

\* The same operation does the same where its label, if it jumps, is the same.
LEMMA SameOperation ==
  ASSUME NEW p \in Code, NEW q \in Code, NEW s \in States(p), s \in States(q), ~s.done,
         Alike(p[s.pc], s.env, q[s.pc], s.env),
         p[s.pc].id \in Jumps => LabelAt(q, p[s.pc].label) = LabelAt(p, p[s.pc].label)
  PROVE  ExecStep(q, s) = ExecStep(p, s)
<1> DEFINE op == p[s.pc]
           n == ExecStep(p, s)
           m == ExecStep(q, s)
<1>1. Agree({}, s, s) /\ {} \in SUBSET Vars
  BY DEF Agree
<1>2. /\ Agree({}, n, m)
      /\ \/ n.pc = s.pc + 1 /\ m.pc = s.pc + 1
         \/ n.pc = s.pc /\ m.pc = s.pc
         \/ op.id \in Jumps /\ n.pc = LabelAt(p, op.label) /\ m.pc = LabelAt(q, op.label)
  BY <1>1, StepAlike
<1>3. n.pc = m.pc
  BY <1>2
<1>4. n \in States(p) /\ m \in States(q)
  BY ReachExec
<1> HIDE DEF n, m
<1>5. /\ n.env \in [Vars -> Num] /\ m.env \in [Vars -> Num]
      /\ n = [pc |-> n.pc, env |-> n.env, trace |-> n.trace, done |-> n.done]
      /\ m = [pc |-> m.pc, env |-> m.env, trace |-> m.trace, done |-> m.done]
  BY <1>4, StateFields
<1>6. n.env = m.env /\ n.trace = m.trace /\ n.done = m.done
  BY <1>2, <1>5 DEF Agree
<1>7. n = m
  BY <1>3, <1>5, <1>6
<1>8. QED
  BY <1>7 DEF n, m

\* An operation that is alike does the same where the labels are the same.
LEMMA AlikeSame ==
  ASSUME NEW p \in Code, NEW q, SameShape(p, q),
         NEW s \in States(p), ~s.done, Alike(p[s.pc], s.env, q[s.pc], s.env)
  PROVE  ExecStep(q, s) = ExecStep(p, s)
<1>1. /\ q \in Code
      /\ \A i \in 1..Len(p) : p[i].id \in Jumps => LabelAt(q, p[i].label) = LabelAt(p, p[i].label)
  BY SameShapeCode
<1>2. s \in States(q) /\ s.pc \in 1..Len(p)
  BY StateFields DEF States, SameShape
<1>3. QED
  BY <1>1, <1>2, SameOperation

\* Where a step goes and what it changes, in short.
LEMMA StepEffect ==
  ASSUME NEW p \in Code, NEW s \in States(p), ~s.done
  PROVE  LET op == p[s.pc]
             n == ExecStep(p, s) IN
         /\ \/ n.pc = s.pc + 1
            \/ n.pc = s.pc
            \/ n.pc \in 1..Len(p) /\ p[n.pc].id = "LABEL"
         /\ op.id \in Pure => n.pc = s.pc + 1 /\ n.env = [s.env EXCEPT ![op.out] = Result(s.env, op)]
         /\ op.id \notin Pure => n.env = s.env
<1> DEFINE op == p[s.pc]
<1>1. s.pc \in 1..Len(p) /\ op.id \in Ids
  BY StateFields, OpFields
<1>2. CASE op.id \in Pure
  BY <1>2, ExecPure
<1>3. CASE op.id = "STORE"
  BY <1>3, ExecStore DEF Pure
<1>4. CASE op.id = "LABEL"
  BY <1>4, ExecLabel DEF Pure
<1>5. CASE op.id = "RETURN"
  <2> DEFINE trace == s.trace \o [i \in DOMAIN op.args |-> Eval(s.env, op.args[i])]
  <2>1. ExecStep(p, s) = [pc |-> s.pc, env |-> s.env, done |-> TRUE, trace |-> trace]
    BY <1>5, ExecReturn
  <2> HIDE DEF trace
  <2>2. op.id \notin Pure
    BY <1>5 DEF Pure
  <2>3. QED
    BY <2>1, <2>2
<1>6. CASE op.id \in Jumps
  <2>1. LabelAt(p, op.label) \in 1..Len(p) /\ p[LabelAt(p, op.label)].id = "LABEL"
    BY <1>1, <1>6, JumpFindsLabel
  <2>2. op.id \notin Pure
    BY <1>6 DEF Jumps, Pure
  <2>3. QED
    BY <1>6, <2>1, <2>2, ExecJump
<1>7. QED
  BY <1>1, <1>2, <1>3, <1>4, <1>5, <1>6 DEF Ids

--------------------------------------------------------------------------------
\* Other operands, or another label.
LEMMA OtherArgs ==
  ASSUME NEW op \in Op, op.id # "RETURN", NEW args \in [1..Len(op.args) -> Value]
  PROVE  [op EXCEPT !.args = args] \in Op
<1> DEFINE new == [op EXCEPT !.args = args]
<1>1. \A n \in Nat : op.args \in Tuples(n) => args \in Tuples(n)
  <2> SUFFICES ASSUME NEW n \in Nat, op.args \in Tuples(n)
               PROVE  args \in Tuples(n)
    OBVIOUS
  <2>1. Len(op.args) = n
    BY TuplesType
  <2>2. QED
    BY <2>1 DEF Tuples
<1>2. CASE op \in [id : {"IMM", "NOT"}, out : Vars, args : Tuples(1), label : {NoLabel}]
  BY <1>1, <1>2 DEF Op
<1>3. CASE op \in [id : {"ADD", "SUB"}, out : Vars, args : Tuples(2), label : {NoLabel}]
  BY <1>1, <1>3 DEF Op
<1>4. CASE op \in [id : {"CMOV"}, out : Vars, args : Tuples(2) \cup Tuples(3), label : {NoLabel}]
  BY <1>1, <1>4 DEF Op
<1>5. CASE op \in [id : {"STORE"}, out : {NoVar}, args : Tuples(1), label : {NoLabel}]
  BY <1>1, <1>5 DEF Op
<1>6. CASE op \in [id : {"COND"}, out : {NoVar}, args : Tuples(1), label : Labels]
  BY <1>1, <1>6 DEF Op
<1>7. CASE op \in [id : {"GOTO", "LABEL"}, out : {NoVar}, args : Tuples(0), label : Labels]
  BY <1>1, <1>7 DEF Op
<1>8. CASE op \in [id : {"RETURN"}, out : {NoVar}, args : Seq(Value), label : {NoLabel}]
  BY <1>8
<1>9. QED
  BY <1>2, <1>3, <1>4, <1>5, <1>6, <1>7, <1>8 DEF Op

LEMMA OtherLabel ==
  ASSUME NEW op \in Op, op.id \in Jumps, NEW label \in Labels
  PROVE  [op EXCEPT !.label = label] \in Op
  BY DEF Op, Jumps

LEMMA InlinedOp ==
  ASSUME NEW op \in Op, NEW out \in Vars, NEW val \in Value
  PROVE  LET new == Inlined(op, out, val) IN
         /\ new \in Op
         /\ new.id = op.id /\ new.out = op.out /\ new.label = op.label
         /\ Len(new.args) = Len(op.args)
         /\ \A j \in 1..Len(op.args) :
              new.args[j] = op.args[j] \/ (op.args[j] = Var(out) /\ new.args[j] = val)
<1>1. CASE op.id = "RETURN"
  BY <1>1 DEF Inlined
<1>2. CASE op.id # "RETURN"
  <2> DEFINE args == [j \in DOMAIN op.args |-> IF op.args[j] = Var(out) THEN val ELSE op.args[j]]
             new == [op EXCEPT !.args = args]
  <2>1. op.args \in Seq(Value) /\ DOMAIN op.args = 1..Len(op.args) /\ Len(op.args) \in Nat
    BY OpFields
  <2>2. args \in [1..Len(op.args) -> Value]
    BY <2>1
  <2>3. /\ Len(args) = Len(op.args)
        /\ \A j \in 1..Len(op.args) : args[j] = op.args[j] \/ (op.args[j] = Var(out) /\ args[j] = val)
    BY <2>1
  <2>4. Inlined(op, out, val) = new
    BY <1>2 DEF Inlined
  <2> HIDE DEF args
  <2>5. new \in Op
    BY <1>2, <2>2, OtherArgs
  <2>6. new.id = op.id /\ new.out = op.out /\ new.label = op.label /\ new.args = args
    BY DEF Op
  <2> HIDE DEF new
  <2>7. QED
    BY <2>3, <2>4, <2>5, <2>6
<1>3. QED
  BY <1>1, <1>2

\* inlineVars stops below an IMM where its output or its value may change.
LEMMA InlineEndIs ==
  ASSUME NEW p \in Code, NEW at \in 1..Len(p)
  PROVE  /\ InlineEnd(p, at) \in at..Len(p)
         /\ \A i \in at + 1..InlineEnd(p, at) : p[i].id # "LABEL"
         /\ \A i \in at + 1..InlineEnd(p, at) - 1 : ~Overwrites(p[i], p[at])
<1> DEFINE stops == {i \in at + 1..Len(p) : p[i].id = "LABEL" \/ Overwrites(p[i], p[at])}
<1>1. Len(p) \in Nat /\ \A i \in Int :
        i \in stops <=> i \in at + 1..Len(p) /\ (p[i].id = "LABEL" \/ Overwrites(p[i], p[at]))
  BY CodeType
<1>2. stops \in SUBSET Nat /\ \A i \in stops : i \in Int
  BY <1>1
<1>3. CASE stops = {}
  <2>1. InlineEnd(p, at) = Len(p)
    BY <1>3 DEF InlineEnd
  <2> HIDE DEF stops
  <2>2. \A i \in at + 1..Len(p) : i \in Int /\ i \notin stops
    BY <1>3
  <2>3. QED
    BY <1>1, <2>1, <2>2
<1>4. CASE stops # {}
  <2> DEFINE m == Min(stops)
  <2>1. /\ p[m].id = "LABEL" => InlineEnd(p, at) = m - 1
        /\ p[m].id # "LABEL" => InlineEnd(p, at) = m
    BY <1>4 DEF InlineEnd
  <2> HIDE DEF stops
  <2>2. m \in stops /\ \A i \in stops : m <= i
    BY <1>2, <1>4, MinIs
  <2> HIDE DEF m
  <2>3. m \in Int /\ m \in at + 1..Len(p)
    BY <1>1, <1>2, <2>2
  <2>4. ASSUME NEW i \in at + 1..m - 1
        PROVE  p[i].id # "LABEL" /\ ~Overwrites(p[i], p[at])
    <3>1. i \in Int /\ i \in at + 1..Len(p) /\ ~(m <= i)
      BY <1>1, <2>3
    <3>2. i \notin stops
      BY <2>2, <3>1
    <3>3. QED
      BY <1>1, <3>1, <3>2
  <2>5. CASE p[m].id = "LABEL"
    <3>1. InlineEnd(p, at) = m - 1 /\ m - 1 \in at..Len(p)
      BY <1>1, <2>1, <2>3, <2>5
    <3>2. \A i \in at + 1..(m - 1) - 1 : i \in at + 1..m - 1
      BY <2>3
    <3>3. QED
      BY <2>4, <3>1, <3>2
  <2>6. CASE p[m].id # "LABEL"
    <3>1. InlineEnd(p, at) = m /\ m \in at..Len(p)
      BY <1>1, <2>1, <2>3, <2>6
    <3>2. \A i \in at + 1..m : i = m \/ i \in at + 1..m - 1
      BY <2>3
    <3>3. QED
      BY <2>4, <2>6, <3>1, <3>2
  <2>7. QED
    BY <2>5, <2>6
<1>5. QED
  BY <1>3, <1>4

\* The value of an IMM, below it, is the value of its output.
LEMMA InlineImproves ==
  ASSUME NEW p \in Code, NEW at \in 1..Len(p), p[at].id = "IMM", p[at].args[1] # Var(p[at].out)
  PROVE  Improves(p, InlineVar(p, at))
<1> DEFINE imm == p[at]
           out == imm.out
           val == imm.args[1]
           e == InlineEnd(p, at)
           q == [i \in DOMAIN p |-> IF i \in at + 1..e THEN Inlined(p[i], out, val) ELSE p[i]]
           K == {s \in States(p) : s.pc \in at + 1..e => s.env[out] = Eval(s.env, val)}
<1>1. /\ p \in Seq(Op) /\ Len(p) \in Nat /\ DOMAIN p = 1..Len(p) /\ \A i \in 1..Len(p) : p[i] \in Op
      /\ imm \in Op /\ out \in Vars /\ val \in Value
  <2>1. Len(imm.args) = 1 /\ imm.args \in Seq(Value) /\ out \in Vars /\ imm \in Op
    BY CodeType, OpFields DEF Pure
  <2>2. QED
    BY <2>1, CodeType
<1>2. /\ e \in at..Len(p)
      /\ \A i \in at + 1..e : p[i].id # "LABEL"
      /\ \A i \in at + 1..e - 1 : ~Overwrites(p[i], imm)
  BY InlineEndIs
<1>3. val # Var(out)
  OBVIOUS
<1>4. InlineVar(p, at) = [prog |-> q, next |-> at + 1]
  BY DEF InlineVar
<1> HIDE DEF e
<1>5. \A i \in 1..Len(p) : q[i] = IF i \in at + 1..e THEN Inlined(p[i], out, val) ELSE p[i]
  BY <1>1
<1>6. \A i \in 1..Len(p) : q[i] \in Op /\ q[i].id = p[i].id /\ q[i].label = p[i].label
  BY <1>1, <1>5, InlinedOp
<1>7. q \in Seq(Op) /\ Len(q) = Len(p)
  <2>1. q = [i \in 1..Len(p) |-> q[i]]
    BY <1>1
  <2> HIDE DEF q
  <2>2. [i \in 1..Len(p) |-> q[i]] \in Seq(Op)
    BY <1>1, <1>6, IsASeq
  <2>3. Len([i \in 1..Len(p) |-> q[i]]) = Len(p)
    BY <1>1
  <2>4. QED
    BY <2>1, <2>2, <2>3
<1> HIDE DEF q
<1>8. SameShape(p, q)
  BY <1>6, <1>7 DEF SameShape
<1>9. \A env \in [Vars -> Num] : Start(env) \in K
  <2>1. \A env \in [Vars -> Num] : Start(env) \in States(p) /\ Start(env).pc = 1
    BY StartType DEF Start
  <2>2. 1 \notin at + 1..e
    BY <1>1, <1>2
  <2>3. QED
    BY <2>1, <2>2
<1> HIDE DEF out, val
<1>10. ASSUME NEW s \in K
       PROVE  ExecStep(q, s) = ExecStep(p, s) /\ ExecStep(p, s) \in K
  <2> DEFINE op == p[s.pc]
             n == ExecStep(p, s)
  <2>1. /\ s \in States(p) /\ s.pc \in 1..Len(p) /\ s.env \in [Vars -> Num] /\ op \in Op
        /\ s.pc \in at + 1..e => s.env[out] = Eval(s.env, val)
    BY StateFields
  <2>2. CASE s.done
    BY <2>2, ExecDone
  <2>3. CASE ~s.done
    <3>1. ASSUME NEW j \in 1..Len(op.args), s.pc \in at + 1..e
          PROVE  Eval(s.env, op.args[j]) = Eval(s.env, Inlined(op, out, val).args[j])
      <4>1. \/ Inlined(op, out, val).args[j] = op.args[j]
            \/ op.args[j] = Var(out) /\ Inlined(op, out, val).args[j] = val
        BY <1>1, <2>1, InlinedOp
      <4>2. Eval(s.env, Var(out)) = s.env[out]
        BY DEF Eval, Var
      <4>3. QED
        BY <2>1, <3>1, <4>1, <4>2
    <3>2. Alike(op, s.env, q[s.pc], s.env)
      <4>1. CASE s.pc \in at + 1..e
        <5>1. /\ Inlined(op, out, val).id = op.id /\ Inlined(op, out, val).out = op.out
              /\ Inlined(op, out, val).label = op.label
              /\ Len(Inlined(op, out, val).args) = Len(op.args)
          BY <1>1, <2>1, InlinedOp
        <5>2. q[s.pc] = Inlined(op, out, val)
          BY <1>5, <2>1, <4>1
        <5>3. QED
          BY <3>1, <4>1, <5>1, <5>2 DEF Alike
      <4>2. CASE s.pc \notin at + 1..e
        BY <1>5, <2>1, <4>2 DEF Alike
      <4>3. QED
        BY <4>1, <4>2
    <3>3. ExecStep(q, s) = n
      BY <1>8, <2>1, <2>3, <3>2, AlikeSame
    <3>4. n \in States(p) /\ n.pc \in 1..Len(p) /\ n.env \in [Vars -> Num]
      BY <2>1, ReachExec, StateFields
    <3>5. /\ \/ n.pc = s.pc + 1
             \/ n.pc = s.pc
             \/ n.pc \in 1..Len(p) /\ p[n.pc].id = "LABEL"
          /\ op.id \in Pure => n.pc = s.pc + 1 /\ n.env = [s.env EXCEPT ![op.out] = Result(s.env, op)]
          /\ op.id \notin Pure => n.env = s.env
      BY <2>1, <2>3, StepEffect
    <3>6. ASSUME n.pc \in at + 1..e
          PROVE  n.env[out] = Eval(n.env, val)
      <4>1. n.pc = s.pc + 1 \/ n.pc = s.pc
        BY <1>2, <3>5, <3>6
      <4>2. CASE s.pc = at
        <5>1. n.env = [s.env EXCEPT ![out] = Eval(s.env, val)]
          <6>1. Result(s.env, imm) = Eval(s.env, val)
            BY DEF Result, val
          <6>2. imm.id \in Pure
            BY DEF Pure
          <6>3. QED
            BY <3>5, <4>2, <6>1, <6>2 DEF out
        <5>2. n.env[out] = Eval(s.env, val)
          BY <1>1, <2>1, <5>1
        <5>3. val.kind = "var" => val.n # out
          BY <1>1, <1>3 DEF Value, Var
        <5>4. val.kind = "var" => n.env[val.n] = s.env[val.n]
          BY <1>1, <2>1, <5>1, <5>3 DEF Value
        <5>5. Eval(n.env, val) = Eval(s.env, val)
          BY <5>4 DEF Eval
        <5>6. QED
          BY <5>2, <5>5
      <4>3. CASE s.pc # at
        <5>1. s.pc \in at + 1..e
          BY <1>1, <1>2, <2>1, <3>6, <4>1, <4>3
        <5>2. s.env[out] = Eval(s.env, val)
          BY <2>1, <5>1
        <5>3. CASE op.id \in Pure
          <6>1. s.pc \in at + 1..e - 1
            BY <1>1, <1>2, <2>1, <3>5, <3>6, <5>1, <5>3
          <6>2. op.out # out /\ (val.kind = "var" => op.out # val.n)
            BY <1>2, <6>1 DEF Overwrites, Writes, out, val
          <6>3. n.env[out] = s.env[out] /\ (val.kind = "var" => n.env[val.n] = s.env[val.n])
            BY <1>1, <2>1, <3>5, <5>3, <6>2 DEF Value
          <6>4. Eval(n.env, val) = Eval(s.env, val)
            BY <6>3 DEF Eval
          <6>5. QED
            BY <5>2, <6>3, <6>4
        <5>4. CASE op.id \notin Pure
          BY <3>5, <5>2, <5>4
        <5>5. QED
          BY <5>3, <5>4
      <4>4. QED
        BY <4>2, <4>3
    <3> HIDE DEF n
    <3>7. n \in K
      BY <3>4, <3>6
    <3>8. QED
      BY <3>3, <3>7 DEF n
  <2>4. QED
    BY <2>2, <2>3
<1>11. K \in SUBSET States(p)
  OBVIOUS
<1>12. q \in Code
  BY <1>8, SameShapeCode
<1> HIDE DEF K
<1>13. Equivalent(p, q)
  BY <1>7, <1>9, <1>10, <1>11, <1>12, LockstepEquivalent
<1>14. at + 1 \in 1..Len(q) + 1
  BY <1>1, <1>7
<1>15. QED
  BY <1>4, <1>12, <1>13, <1>14 DEF Improves, out, val

LEMMA InlineVarImproves ==
  ASSUME NEW p \in Code, NEW at \in 1..Len(p)
  PROVE  Improves(p, InlineVar(p, at))
<1>1. CASE p[at].id # "IMM"
  BY <1>1, UnchangedImproves DEF InlineVar
<1>2. CASE p[at].id = "IMM" /\ p[at].args[1] = Var(p[at].out)
  <2>1. InlineVar(p, at) = Unlink(p, at)
    BY <1>2 DEF InlineVar
  <2>2. Improves(p, Unlink(p, at))
    BY <1>2, PureDeletion DEF Pure
  <2>3. QED
    BY <2>1, <2>2
<1>3. CASE p[at].id = "IMM" /\ p[at].args[1] # Var(p[at].out)
  BY <1>3, InlineImproves
<1>4. QED
  BY <1>1, <1>2, <1>3

LEMMA ReplaceIs ==
  ASSUME NEW p \in Code, NEW at \in 1..Len(p), NEW new \in Op
  PROVE  LET q == ReplaceAt(p, at, new) IN
         /\ q \in Seq(Op) /\ Len(q) = Len(p)
         /\ q[at] = new /\ \A i \in 1..Len(p) : i # at => q[i] = p[i]
<1>1. p \in Seq(Op)
  BY CodeType
<1>2. QED
  BY <1>1, ExceptSeq DEF ReplaceAt

\* The operands of an addition may be swapped.
LEMMA SwapOperandsImproves ==
  ASSUME NEW p \in Code, NEW at \in 1..Len(p)
  PROVE  Improves(p, SwapOperands(p, at))
<1> DEFINE op == p[at]
<1>1. CASE Commutes(op) /\ op.args[2] = Var(op.out)
  <2> DEFINE args == Reverse(op.args)
             new == [op EXCEPT !.args = args]
             q == ReplaceAt(p, at, new)
  <2>1. /\ op \in Op /\ op.id = "ADD" /\ op.id \in Pure /\ op.out \in Vars
        /\ op.args \in Seq(Value) /\ Len(op.args) = 2 /\ Len(p) \in Nat
    BY <1>1, CodeType, OpFields DEF Commutes, Pure
  <2>2. args \in [1..Len(op.args) -> Value] /\ args[1] = op.args[2] /\ args[2] = op.args[1]
    BY <2>1 DEF Reverse
  <2>3. SwapOperands(p, at) = [prog |-> q, next |-> at + 1]
    BY <1>1 DEF SwapOperands, Replace
  <2> HIDE DEF args
  <2>4. new \in Op
    BY <2>1, <2>2, OtherArgs
  <2>5. new.id = op.id /\ new.out = op.out /\ new.label = op.label /\ new.args = args
    BY <2>1 DEF Op
  <2> HIDE DEF new
  <2>6. /\ q \in Seq(Op) /\ Len(q) = Len(p)
        /\ q[at] = new /\ \A i \in 1..Len(p) : i # at => q[i] = p[i]
    BY <2>4, ReplaceIs
  <2> HIDE DEF q
  <2>7. SameShape(p, q)
    BY <2>5, <2>6 DEF SameShape
  <2>8. q \in Code
    BY <2>7, SameShapeCode
  <2>9. ASSUME NEW s \in States(p)
        PROVE  ExecStep(q, s) = ExecStep(p, s) /\ ExecStep(p, s) \in States(p)
    <3>1. s.pc \in 1..Len(p) /\ s.env \in [Vars -> Num] /\ ExecStep(p, s) \in States(p)
      BY StateFields, ReachExec
    <3>2. CASE s.done
      BY <3>1, <3>2, ExecDone
    <3>3. CASE ~s.done /\ s.pc # at
      <4>1. Alike(p[s.pc], s.env, q[s.pc], s.env)
        BY <2>6, <3>1, <3>3 DEF Alike
      <4>2. QED
        BY <2>7, <3>1, <3>3, <4>1, AlikeSame
    <3>4. CASE ~s.done /\ s.pc = at
      <4>1. Eval(s.env, op.args[1]) \in Int /\ Eval(s.env, op.args[2]) \in Int
        BY <2>1, <3>1, EvalType, LlirAssumption DEF Num
      <4>2. Result(s.env, new) = Result(s.env, op)
        <5>1. Result(s.env, op) = (Eval(s.env, op.args[1]) + Eval(s.env, op.args[2])) % Modulus
          BY <2>1 DEF Result
        <5>2. Result(s.env, new) = (Eval(s.env, op.args[2]) + Eval(s.env, op.args[1])) % Modulus
          BY <2>1, <2>2, <2>5 DEF Result
        <5>3. QED
          BY <4>1, <5>1, <5>2
      <4>3. s \in States(q)
        BY <2>6 DEF States
      <4>4. ExecStep(p, s) = [pc |-> s.pc + 1, env |-> [s.env EXCEPT ![op.out] = Result(s.env, op)],
                              trace |-> s.trace, done |-> FALSE]
        BY <2>1, <3>4, ExecPure
      <4>5. ExecStep(q, s) = [pc |-> s.pc + 1, env |-> [s.env EXCEPT ![new.out] = Result(s.env, new)],
                              trace |-> s.trace, done |-> FALSE]
        BY <2>1, <2>5, <2>6, <2>8, <3>4, <4>3, ExecPure
      <4>6. QED
        BY <2>5, <3>1, <4>2, <4>4, <4>5
    <3>5. QED
      BY <3>2, <3>3, <3>4
  <2>10. Equivalent(p, q)
    BY <2>6, <2>8, <2>9, StartType, LockstepEquivalent, States(p) \in SUBSET States(p)
  <2>11. at + 1 \in 1..Len(q) + 1
    BY <2>1, <2>6
  <2>12. QED
    BY <2>3, <2>8, <2>10, <2>11 DEF Improves
<1>2. QED
  BY <1>1, UnchangedImproves DEF SwapOperands

--------------------------------------------------------------------------------
(***************************************************************************)
(* vx_opt_ll_jumps.                                                         *)
(***************************************************************************)

\* The state somewhere else in the block.
Moved(s, i) == [pc |-> i, env |-> s.env, trace |-> s.trace, done |-> s.done]

LEMMA MovedType ==
  ASSUME NEW p \in Code, NEW s \in States(p), NEW i \in 1..Len(p)
  PROVE  /\ Moved(s, i) \in States(p)
         /\ Moved(s, i).pc = i /\ Moved(s, i).env = s.env
         /\ Moved(s, i).trace = s.trace /\ Moved(s, i).done = s.done
         /\ Moved(s, s.pc) = s
         /\ Seen(Moved(s, i)) = Seen(s)
         /\ \A j : Moved(Moved(s, i), j) = Moved(s, j)
<1>1. /\ s.env \in [Vars -> Num] /\ s.trace \in Seq(Num) /\ s.done \in BOOLEAN
      /\ s = [pc |-> s.pc, env |-> s.env, trace |-> s.trace, done |-> s.done]
  BY StateFields
<1>2. Moved(s, i) \in States(p)
  BY <1>1, StateType DEF Moved
<1>3. QED
  BY <1>1, <1>2 DEF Moved, Seen

LEMMA LabelMoves ==
  ASSUME NEW p \in Code, NEW s \in States(p), ~s.done, p[s.pc].id = "LABEL"
  PROVE  ExecStep(p, s) = Moved(s, s.pc + 1)
<1>1. ExecStep(p, s) = [pc |-> s.pc + 1, env |-> s.env, trace |-> s.trace, done |-> FALSE]
  BY ExecLabel
<1>2. s.done = FALSE
  BY StateFields
<1>3. QED
  BY <1>1, <1>2 DEF Moved

LEMMA JumpMoves ==
  ASSUME NEW p \in Code, NEW s \in States(p), ~s.done, p[s.pc].id \in Jumps
  PROVE  ExecStep(p, s) = Moved(s, IF Taken(p[s.pc], s.env) THEN LabelAt(p, p[s.pc].label) ELSE s.pc + 1)
<1>1. ExecStep(p, s) = [pc |-> IF Taken(p[s.pc], s.env) THEN LabelAt(p, p[s.pc].label) ELSE s.pc + 1,
                        env |-> s.env, trace |-> s.trace, done |-> FALSE]
  BY ExecJump
<1>2. s.done = FALSE
  BY StateFields
<1>3. QED
  BY <1>1, <1>2 DEF Moved

\* The block with the jump at going to another label.
LEMMA RelabelCode ==
  ASSUME NEW p \in Code, NEW at \in 1..Len(p), p[at].id \in Jumps,
         NEW to \in 1..Len(p), p[to].id = "LABEL"
  PROVE  LET q == ReplaceAt(p, at, [p[at] EXCEPT !.label = p[to].label]) IN
         /\ q \in Code /\ Len(q) = Len(p)
         /\ \A i \in 1..Len(p) : i # at => q[i] = p[i]
         /\ q[at].id = p[at].id /\ q[at].args = p[at].args /\ q[at].label = p[to].label
         /\ \A i \in 1..Len(p) : p[i].id \in Jumps => LabelAt(q, p[i].label) = LabelAt(p, p[i].label)
         /\ LabelAt(q, p[to].label) = to
<1> DEFINE new == [p[at] EXCEPT !.label = p[to].label]
           q == ReplaceAt(p, at, new)
<1>1. /\ p[at] \in Op /\ p[to].label \in Labels /\ DOMAIN p = 1..Len(p) /\ Len(p) \in Nat \ {0}
      /\ EndsFlow(p[Len(p)]) /\ JumpsHaveLabels(p) /\ LabelsUnique(p)
  BY CodeType, OpFields DEF WellFormed
<1>2. new \in Op /\ new.id = p[at].id /\ new.args = p[at].args /\ new.label = p[to].label
  <2>1. new \in Op
    BY <1>1, OtherLabel
  <2>2. QED
    BY <1>1, <2>1 DEF Op
<1> HIDE DEF new
<1>3. /\ q \in Seq(Op) /\ Len(q) = Len(p)
      /\ q[at] = new /\ \A i \in 1..Len(p) : i # at => q[i] = p[i]
  BY <1>2, ReplaceIs
<1> HIDE DEF q
<1>4. DOMAIN q = 1..Len(p)
  BY <1>3
<1>5. /\ \A i \in 1..Len(p) : q[i].id = p[i].id
      /\ \A i \in 1..Len(p) : p[i].id = "LABEL" => q[i] = p[i]
  BY <1>2, <1>3 DEF Jumps
<1>6. JumpsHaveLabels(q)
  <2> SUFFICES ASSUME NEW i \in 1..Len(p), q[i].id \in Jumps
               PROVE  \E j \in 1..Len(p) : q[j].id = "LABEL" /\ q[j].label = q[i].label
    BY <1>4 DEF JumpsHaveLabels, Declared
  <2>1. CASE i = at
    BY <1>2, <1>3, <1>5, <2>1
  <2>2. CASE i # at
    <3>1. q[i] = p[i]
      BY <1>3, <2>2
    <3>2. PICK j \in 1..Len(p) : p[j].id = "LABEL" /\ p[j].label = p[i].label
      BY <3>1, JumpFindsLabel
    <3>3. QED
      BY <1>5, <3>1, <3>2
  <2>3. QED
    BY <2>1, <2>2
<1>7. LabelsUnique(q)
  BY <1>1, <1>4, <1>5 DEF LabelsUnique
<1>8. Leaves(q)
  <2>1. EndsFlow(q[Len(q)]) /\ q # <<>>
    BY <1>1, <1>3, <1>5 DEF EndsFlow
  <2>2. QED
    BY <2>1 DEF Leaves, Last
<1>9. q \in Code
  BY <1>3, <1>6, <1>7, <1>8 DEF Code, WellFormed
<1>10. ASSUME NEW i \in 1..Len(p), p[i].id \in Jumps
       PROVE  LabelAt(q, p[i].label) = LabelAt(p, p[i].label)
  <2> DEFINE j == LabelAt(p, p[i].label)
  <2>1. j \in 1..Len(p) /\ p[j].id = "LABEL" /\ p[j].label = p[i].label
    BY <1>10, JumpFindsLabel
  <2> HIDE DEF j
  <2>2. q[j].id = "LABEL" /\ q[j].label = p[i].label /\ j \in 1..Len(q)
    BY <1>3, <1>5, <2>1
  <2>3. LabelAt(q, q[j].label) = j
    BY <1>9, <2>2, LabelFound
  <2>4. QED
    BY <2>2, <2>3 DEF j
<1>11. LabelAt(q, p[to].label) = to
  <2>1. q[to].id = "LABEL" /\ q[to].label = p[to].label /\ to \in 1..Len(q)
    BY <1>3, <1>5
  <2>2. QED
    BY <1>9, <2>1, LabelFound
<1>12. QED
  BY <1>2, <1>3, <1>9, <1>10, <1>11 DEF q, new

\* A jump to a goto may go where that one goes: the other execution catches up.
LEMMA JumpToJumpImproves ==
  ASSUME NEW p \in Code, NEW at \in 1..Len(p)
  PROVE  Improves(p, JumpToJump(p, at))
<1> DEFINE to == LabelAt(p, p[at].label)
           to2 == LabelAt(p, p[to + 1].label)
           guard == p[at].id \in Jumps /\ to < Len(p) /\ Forwards(p[to + 1])
<1>1. CASE ~guard
  BY <1>1, UnchangedImproves DEF JumpToJump
<1>2. CASE guard
  <2> DEFINE q == ReplaceAt(p, at, [p[at] EXCEPT !.label = p[to2].label])
             Skew(s, t) == /\ s.pc \in {to, to + 1} /\ ~s.done
                           /\ Taken(p[at], s.env) /\ t = Moved(s, at)
             Related(s, t) == t = s \/ Skew(s, t)
             R == {x \in States(p) \X States(q) : Related(x[1], x[2])}
  <2>1. /\ Len(p) \in Nat /\ to \in 1..Len(p) /\ p[to].id = "LABEL"
        /\ to + 1 \in 1..Len(p) /\ p[to + 1].id = "GOTO" /\ p[at].id \in Jumps
    <3>1. Len(p) \in Nat /\ to \in 1..Len(p) /\ p[to].id = "LABEL"
      BY <1>2, CodeType, JumpFindsLabel
    <3>2. QED
      BY <1>2, <3>1 DEF Forwards
  <2>2. to2 \in 1..Len(p) /\ p[to2].id = "LABEL" /\ p[to2].label = p[to + 1].label
    BY <2>1, JumpFindsLabel DEF Jumps
  <2>3. JumpToJump(p, at) = [prog |-> q, next |-> at + 1]
    BY <1>2, <2>2 DEF JumpToJump, Replace
  <2> HIDE DEF to, to2
  <2>4. /\ q \in Code /\ Len(q) = Len(p)
        /\ \A i \in 1..Len(p) : i # at => q[i] = p[i]
        /\ q[at].id = p[at].id /\ q[at].args = p[at].args /\ q[at].label = p[to2].label
        /\ \A i \in 1..Len(p) : p[i].id \in Jumps => LabelAt(q, p[i].label) = LabelAt(p, p[i].label)
        /\ LabelAt(q, p[to2].label) = to2
    BY <2>1, <2>2, RelabelCode
  <2> HIDE DEF q
  <2>5. States(q) = States(p)
    BY <2>4 DEF States
  <2>6. ASSUME NEW s \in States(p), ~s.done, s.pc = to
        PROVE  ExecStep(p, s) = Moved(s, to + 1)
    BY <2>1, <2>6, LabelMoves
  <2>7. ASSUME NEW s \in States(p), ~s.done, s.pc = to + 1
        PROVE  ExecStep(p, s) = Moved(s, to2)
    <3>1. p[s.pc].id \in Jumps /\ Taken(p[s.pc], s.env)
      BY <2>1, <2>7 DEF Jumps, Taken
    <3>2. QED
      BY <2>7, <3>1, JumpMoves DEF to2
  <2>8. ASSUME NEW s \in States(p), ~s.done, s.pc = at, Taken(p[at], s.env)
        PROVE  ExecStep(p, s) = Moved(s, to) /\ ExecStep(q, s) = Moved(s, to2)
    <3>1. ExecStep(p, s) = Moved(s, to)
      BY <2>1, <2>8, JumpMoves DEF to
    <3>2. Taken(q[at], s.env)
      BY <2>4, <2>8 DEF Taken
    <3>3. QED
      BY <2>1, <2>4, <2>5, <2>8, <3>1, <3>2, JumpMoves
  <2>9. ASSUME NEW s \in States(p), ~(~s.done /\ s.pc = at /\ Taken(p[at], s.env))
        PROVE  ExecStep(q, s) = ExecStep(p, s)
    <3>1. CASE s.done
      BY <3>1, ExecDone
    <3>2. CASE ~s.done /\ s.pc = at
      <4>1. ~Taken(q[at], s.env)
        BY <2>4, <2>9, <3>2 DEF Taken
      <4>2. QED
        BY <2>1, <2>4, <2>5, <2>9, <3>2, <4>1, JumpMoves
    <3>3. CASE ~s.done /\ s.pc # at
      <4>1. q[s.pc] = p[s.pc]
        BY <2>4, <3>3, StateFields
      <4>2. p[s.pc].id \in Jumps => LabelAt(q, p[s.pc].label) = LabelAt(p, p[s.pc].label)
        BY <2>4, StateFields
      <4>3. QED
        BY <2>4, <2>5, <3>3, <4>1, <4>2, SameOperation DEF Alike
    <3>4. QED
      BY <3>1, <3>2, <3>3
  <2>10. \A s \in States(p), t \in States(q) : <<s, t>> \in R <=> Related(s, t)
    OBVIOUS
  <2>11. \A env \in [Vars -> Num] : <<Start(env), Start(env)>> \in R
    BY <2>5, <2>10, StartType
  <2>12. R \in SUBSET (States(p) \X States(q))
    OBVIOUS
  <2> HIDE DEF R
  <2>13. ASSUME NEW s \in States(p), NEW t \in States(q), <<s, t>> \in R
         PROVE  /\ Seen(s) = Seen(t)
                /\ \E n \in Reach(Step(q), t) : <<ExecStep(p, s), n>> \in R
                /\ \E n \in Reach(Step(p), s) : <<n, ExecStep(q, t)>> \in R
    <3> DEFINE n == ExecStep(p, s)
               m == ExecStep(q, t)
               there == Moved(s, to2)
    <3>1. /\ s \in Reach(Step(p), s) /\ n \in Reach(Step(p), s) /\ n \in States(p)
          /\ t \in Reach(Step(q), t) /\ m \in Reach(Step(q), t) /\ m \in States(q)
      BY <2>4, ReachExec
    <3>2. /\ there \in States(p) /\ <<there, there>> \in R
      BY <2>2, <2>5, <2>10, MovedType
    <3>3. Related(s, t)
      BY <2>10, <2>13
    <3>4. CASE t = s /\ ~(~s.done /\ s.pc = at /\ Taken(p[at], s.env))
      <4>1. n = m /\ <<n, m>> \in R
        BY <2>5, <2>9, <2>10, <3>1, <3>4
      <4>2. QED
        BY <3>1, <3>4, <4>1
    <3>5. CASE t = s /\ ~s.done /\ s.pc = at /\ Taken(p[at], s.env)
      <4>1. n = Moved(s, to) /\ m = there
        BY <2>8, <3>5
      <4>2. n.pc = to /\ ~n.done /\ n.env = s.env /\ t = Moved(n, at)
        BY <2>1, <3>5, <4>1, MovedType
      <4>3. <<n, t>> \in R
        BY <2>10, <3>1, <3>5, <4>2
      <4>4. ExecStep(p, n) = Moved(n, to + 1) /\ Moved(n, to + 1) = Moved(s, to + 1)
        BY <2>1, <2>6, <3>1, <4>1, <4>2, MovedType
      <4>5. ExecStep(p, n) \in Reach(Step(p), s) /\ ExecStep(p, n) \in States(p)
        BY <3>1, ReachExec
      <4>6. ExecStep(p, ExecStep(p, n)) = there
        <5> DEFINE k == ExecStep(p, n)
        <5>1. k.pc = to + 1 /\ ~k.done /\ Moved(k, to2) = Moved(s, to2)
          BY <2>1, <2>2, <3>5, <4>4, MovedType
        <5>2. QED
          BY <2>7, <4>5, <5>1
      <4>7. there \in Reach(Step(p), s)
        BY <4>5, <4>6, ReachExec
      <4>8. QED
        BY <3>1, <3>2, <3>5, <4>1, <4>3, <4>7
    <3>6. CASE Skew(s, t)
      <4>1. t.pc = at /\ t.env = s.env /\ ~t.done /\ Moved(t, to2) = there /\ Seen(s) = Seen(t)
        BY <3>6, MovedType
      <4>2. m = there
        BY <2>5, <2>8, <3>6, <4>1
      <4>3. CASE s.pc = to + 1
        <5>1. n = there
          BY <2>7, <3>6, <4>3
        <5>2. QED
          BY <3>1, <3>2, <4>1, <4>2, <5>1
      <4>4. CASE s.pc = to
        <5>1. n = Moved(s, to + 1)
          BY <2>6, <3>6, <4>4
        <5>2. /\ n.pc = to + 1 /\ ~n.done /\ n.env = s.env
              /\ Moved(n, at) = Moved(s, at) /\ Moved(n, to2) = there
          BY <2>1, <3>6, <5>1, MovedType
        <5>3. <<n, t>> \in R
          BY <2>10, <3>1, <3>6, <5>2
        <5>4. ExecStep(p, n) = there /\ ExecStep(p, n) \in Reach(Step(p), s)
          BY <2>7, <3>1, <5>2, ReachExec
        <5>5. QED
          BY <3>1, <3>2, <4>1, <4>2, <5>3, <5>4
      <4>5. QED
        BY <3>6, <4>3, <4>4
    <3>7. QED
      BY <3>3, <3>4, <3>5, <3>6
  <2>14. Equivalent(p, q)
    BY <2>4, <2>11, <2>12, <2>13, Bisimulation
  <2>15. at + 1 \in 1..Len(q) + 1
    BY <2>1, <2>4
  <2>16. QED
    BY <2>3, <2>4, <2>14, <2>15 DEF Improves
<1>3. QED
  BY <1>1, <1>2

\* A run of labels is passed.
LEMMA LabelsRun ==
  ASSUME NEW p \in Code, NEW s \in States(p), ~s.done,
         NEW j \in s.pc..Len(p), \A k \in s.pc..j - 1 : p[k].id = "LABEL"
  PROVE  Moved(s, j) \in Reach(Step(p), s)
<1> DEFINE i == s.pc
           C == {k \in Nat : i + k <= j => Moved(s, i + k) \in Reach(Step(p), s)}
<1>1. i \in 1..Len(p) /\ Len(p) \in Nat /\ i \in Nat /\ i >= 1 /\ j \in Nat /\ i <= j /\ j <= Len(p)
  <2>1. i \in 1..Len(p) /\ Len(p) \in Nat
    BY CodeType, StateFields
  <2>2. QED
    BY <2>1
<1>2. 0 \in C
  <2>1. i + 0 = i /\ Moved(s, i) = s
    BY <1>1, MovedType
  <2>2. QED
    BY <2>1, ReachExec
<1>3. ASSUME NEW k \in Nat, k \in C
      PROVE  k + 1 \in C
  <2> SUFFICES ASSUME i + (k + 1) <= j
               PROVE  Moved(s, i + (k + 1)) \in Reach(Step(p), s)
    OBVIOUS
  <2> DEFINE x == Moved(s, i + k)
  <2>1. i + k \in 1..Len(p) /\ i + k \in i..j - 1 /\ (i + k) + 1 = i + (k + 1) /\ i + (k + 1) \in 1..Len(p)
    <3> HIDE DEF i
    <3>1. QED
      BY <1>1
  <2>2. x \in Reach(Step(p), s)
    BY <1>3, <2>1
  <2>3. x \in States(p) /\ ExecStep(p, x) \in Reach(Step(p), s)
    BY <2>2, ReachExec
  <2>4. x.pc = i + k /\ ~x.done /\ p[x.pc].id = "LABEL" /\ Moved(x, i + (k + 1)) = Moved(s, i + (k + 1))
    BY <2>1, MovedType
  <2> HIDE DEF x
  <2>5. ExecStep(p, x) = Moved(x, x.pc + 1)
    BY <2>3, <2>4, LabelMoves
  <2>6. QED
    BY <2>1, <2>3, <2>4, <2>5
<1>4. Nat \subseteq C
  BY <1>2, <1>3, SetInduction
<1>5. j - i \in Nat /\ i + (j - i) = j
  BY <1>1
<1>6. j - i \in C
  BY <1>4, <1>5
<1>7. QED
  BY <1>5, <1>6

\* Without a jump over labels, the other execution walks through them.
LEMMA JumpOverNothingImproves ==
  ASSUME NEW p \in Code, NEW at \in 1..Len(p)
  PROVE  Improves(p, JumpOverNothing(p, at))
<1> DEFINE to == LabelAt(p, p[at].label)
           guard == p[at].id \in Jumps /\ to > at /\ \A i \in at + 1..to - 1 : ~HasEffect(p[i])
<1>1. CASE ~guard
  BY <1>1, UnchangedImproves DEF JumpOverNothing
<1>2. CASE guard
  <2> DEFINE q == Cut(p, at, at + 1)
             Behind(s, t) == /\ s.pc = to /\ ~s.done
                             /\ t.pc \in at..to - 1 /\ t = Moved(s, t.pc)
             Related(s, t) == t = Moved(s, Down(at, at + 1, s.pc)) \/ Behind(s, t)
             R == {x \in States(p) \X States(q) : Related(x[1], x[2])}
  <2>1. /\ Len(p) \in Nat /\ p \in Seq(Op) /\ to \in at + 1..Len(p) /\ p[at].id \in Jumps
        /\ \A i \in at + 1..to : i \in 1..Len(p) /\ p[i].id = "LABEL"
    <3>1. Len(p) \in Nat /\ p \in Seq(Op) /\ to \in 1..Len(p) /\ p[to].id = "LABEL"
      BY <1>2, CodeType, JumpFindsLabel
    <3>2. \A i \in at + 1..to : i = to \/ i \in at + 1..to - 1
      BY <3>1
    <3>3. QED
      BY <1>2, <3>1, <3>2 DEF HasEffect
  <2>2. JumpOverNothing(p, at) = [prog |-> q, next |-> at]
    BY <1>2 DEF JumpOverNothing, Unlink, RemoveAt, Cut
  <2> HIDE DEF to
  <2>3. Cuttable(p, at, at + 1)
    <3>1. \A j \in at..(at + 1) - 1 : p[j].id # "LABEL"
      BY <2>1 DEF Jumps
    <3>2. at \in 1..Len(p) + 1 /\ at + 1 \in at..Len(p) + 1 /\ at + 1 # Len(p) + 1
      BY <2>1
    <3>3. QED
      BY <3>1, <3>2 DEF Cuttable
  <2>4. /\ q \in Code /\ Len(q) = Len(p) - 1
        /\ \A i \in 1..Len(p) : i # at =>
             Down(at, at + 1, i) \in 1..Len(q) /\ q[Down(at, at + 1, i)] = p[i]
    <3>1. at \in 1..Len(p) + 1 /\ at + 1 \in at..Len(p) + 1 /\ at \in Nat /\ at + 1 \in Nat
      BY <2>1
    <3>2. Len(q) = Len(p) - ((at + 1) - at)
      BY <2>1, <3>1, CutIs
    <3>3. \A i \in 1..Len(p) : i \notin at..(at + 1) - 1 =>
             Down(at, at + 1, i) \in 1..Len(q) /\ q[Down(at, at + 1, i)] = p[i]
      BY <2>1, <3>1, CutOperation
    <3>4. q \in Code
      BY <2>3, <3>1, CutCode
    <3>5. QED
      BY <2>1, <3>2, <3>3, <3>4
  <2>5. ASSUME NEW s \in States(p), NEW t \in States(q),
               t = Moved(s, Down(at, at + 1, s.pc)), s.pc # at
        PROVE  ExecStep(q, t) = Moved(ExecStep(p, s), Down(at, at + 1, ExecStep(p, s).pc))
    <3> DEFINE n == ExecStep(p, s)
               m == ExecStep(q, t)
    <3>1. /\ at \in Nat /\ at + 1 \in Nat /\ s.pc \notin at..(at + 1) - 1
          /\ t.pc = Down(at, at + 1, s.pc) /\ Agree({}, s, t)
          /\ {} \in SUBSET Vars
          /\ \A i \in 1..Len(p), v \in {} : i \notin at..(at + 1) - 1 => ~Reads(p[i], v)
      BY <2>1, <2>5, StateFields DEF Moved, Agree
    <3>2. m.pc = Down(at, at + 1, n.pc) /\ Agree({}, n, m)
      BY <2>3, <3>1, CutStep
    <3>3. n \in States(p) /\ m \in States(q)
      BY <2>4, ReachExec
    <3> HIDE DEF n, m, q
    <3>4. /\ n.env \in [Vars -> Num] /\ m.env \in [Vars -> Num]
          /\ m = [pc |-> m.pc, env |-> m.env, trace |-> m.trace, done |-> m.done]
      BY <2>4, <3>3, StateFields
    <3>5. n.env = m.env /\ n.trace = m.trace /\ n.done = m.done
      BY <3>2, <3>4 DEF Agree
    <3>6. m = Moved(n, Down(at, at + 1, n.pc))
      BY <3>2, <3>4, <3>5 DEF Moved
    <3>7. QED
      BY <3>6 DEF n, m, q
  <2>6. \A s \in States(p), t \in States(q) : <<s, t>> \in R <=> Related(s, t)
    OBVIOUS
  <2>7. \A env \in [Vars -> Num] : <<Start(env), Start(env)>> \in R
    <3> SUFFICES ASSUME NEW env \in [Vars -> Num]
                 PROVE  Related(Start(env), Start(env))
      BY <2>4, <2>6, StartType
    <3>1. Down(at, at + 1, Start(env).pc) = Start(env).pc
      BY DEF Down, Start
    <3>2. Start(env) = Moved(Start(env), Start(env).pc)
      BY DEF Start, Moved
    <3>3. QED
      BY <3>1, <3>2
  <2>8. R \in SUBSET (States(p) \X States(q))
    OBVIOUS
  <2> HIDE DEF R, q
  <2>9. ASSUME NEW s \in States(p), NEW t \in States(q), Related(s, t), s.pc # at
        PROVE  /\ \E n \in Reach(Step(q), t) : <<ExecStep(p, s), n>> \in R
               /\ \E n \in Reach(Step(p), s) : <<n, ExecStep(q, t)>> \in R
    <3> DEFINE n == ExecStep(p, s)
               m == ExecStep(q, t)
    <3>1. /\ s \in Reach(Step(p), s) /\ n \in Reach(Step(p), s) /\ n \in States(p)
          /\ t \in Reach(Step(q), t) /\ m \in Reach(Step(q), t) /\ m \in States(q)
      BY <2>4, ReachExec
    <3>2. CASE t = Moved(s, Down(at, at + 1, s.pc))
      <4>1. <<n, m>> \in R
        BY <2>5, <2>6, <2>9, <3>1, <3>2
      <4>2. QED
        BY <3>1, <4>1
    <3>3. CASE Behind(s, t)
      <4>1. s.pc = to /\ to + 1 \in 1..Len(p) /\ to \in 1..Len(q)
        <5>1. ~EndsFlow(p[to]) /\ to \in 1..Len(p)
          BY <2>1 DEF EndsFlow
        <5>2. to < Len(p)
          BY <5>1, NotLast
        <5>3. QED
          BY <2>1, <2>4, <3>3, <5>2
      <4>2. n = Moved(s, to + 1) /\ n.pc = to + 1
        <5>1. p[s.pc].id = "LABEL"
          BY <2>1, <3>3
        <5>2. QED
          BY <3>3, <4>1, <5>1, LabelMoves, MovedType
      <4>3. Moved(n, Down(at, at + 1, n.pc)) = Moved(s, to)
        <5>1. Down(at, at + 1, to + 1) = to
          BY <2>1 DEF Down
        <5>2. QED
          BY <4>1, <4>2, <5>1, MovedType
      <4>4. /\ t.pc \in at..to - 1 /\ ~t.done /\ \A j : Moved(t, j) = Moved(s, j)
        BY <3>3 DEF Moved
      <4>5. \A k \in t.pc..to - 1 : q[k].id = "LABEL"
        <5> SUFFICES ASSUME NEW k \in t.pc..to - 1
                     PROVE  q[k].id = "LABEL"
          OBVIOUS
        <5>1. k + 1 \in at + 1..to /\ k + 1 \in 1..Len(p) /\ k + 1 # at /\ Down(at, at + 1, k + 1) = k
          BY <2>1, <4>4 DEF Down
        <5>2. QED
          BY <2>1, <2>4, <5>1
      <4>6. Moved(t, to) \in Reach(Step(q), t) /\ Moved(t, to) \in States(q)
        <5>1. to \in t.pc..Len(q)
          BY <4>1, <4>4
        <5>2. QED
          BY <2>4, <4>1, <4>4, <4>5, <5>1, LabelsRun, MovedType
      <4>7. <<n, Moved(t, to)>> \in R
        BY <2>6, <3>1, <4>3, <4>4, <4>6
      <4>8. m = Moved(t, t.pc + 1)
        <5>1. t.pc \in t.pc..to - 1
          BY <2>1, <4>4
        <5>2. QED
          BY <2>4, <4>4, <4>5, <5>1, LabelMoves
      <4>9. CASE t.pc + 1 = to
        <5>1. m = Moved(t, to)
          BY <4>8, <4>9
        <5>2. QED
          BY <3>1, <4>6, <4>7, <5>1
      <4>10. CASE t.pc + 1 # to
        <5>1. t.pc + 1 \in at..to - 1
          BY <2>1, <4>4, <4>10
        <5>2. m.pc = t.pc + 1 /\ m = Moved(s, t.pc + 1)
          BY <4>4, <4>8 DEF Moved
        <5>3. <<s, m>> \in R
          BY <2>6, <3>1, <3>3, <5>1, <5>2
        <5>4. QED
          BY <3>1, <4>6, <4>7, <5>3
      <4>11. QED
        BY <4>9, <4>10
    <3>4. QED
      BY <2>9, <3>2, <3>3
  <2>10. ASSUME NEW s \in States(p), NEW t \in States(q), <<s, t>> \in R
         PROVE  /\ Seen(s) = Seen(t)
                /\ \E n \in Reach(Step(q), t) : <<ExecStep(p, s), n>> \in R
                /\ \E n \in Reach(Step(p), s) : <<n, ExecStep(q, t)>> \in R
    <3> DEFINE n == ExecStep(p, s)
    <3>1. Related(s, t)
      BY <2>6, <2>10
    <3>2. Seen(s) = Seen(t)
      BY <3>1 DEF Moved, Seen
    <3>3. /\ s \in Reach(Step(p), s) /\ n \in Reach(Step(p), s) /\ n \in States(p)
          /\ t \in Reach(Step(q), t)
      BY <2>4, ReachExec
    <3>4. CASE s.pc # at
      BY <2>9, <3>1, <3>2, <3>4
    <3>5. CASE s.pc = at /\ s.done
      <4>1. n = s /\ ExecStep(q, t) = t
        BY <3>1, <3>5, ExecDone DEF Moved
      <4>2. QED
        BY <2>10, <3>2, <3>3, <4>1
    <3>6. CASE s.pc = at /\ ~s.done
      <4>1. Down(at, at + 1, at) = at /\ Down(at, at + 1, at + 1) = at
        BY <2>1 DEF Down
      <4>2. t = Moved(s, at)
        BY <2>1, <3>1, <3>6, <4>1
      <4>3. n = Moved(s, IF Taken(p[at], s.env) THEN to ELSE at + 1)
        BY <2>1, <3>6, JumpMoves DEF to
      <4>4. Related(n, t) /\ n.pc # at
        <5>1. CASE Taken(p[at], s.env)
          <6>1. n.pc = to /\ ~n.done /\ t = Moved(n, at) /\ t.pc = at
            BY <3>6, <4>2, <4>3, <5>1 DEF Moved
          <6>2. QED
            BY <2>1, <6>1
        <5>2. CASE ~Taken(p[at], s.env)
          <6>1. n.pc = at + 1 /\ t = Moved(n, at)
            BY <4>2, <4>3, <5>2 DEF Moved
          <6>2. QED
            BY <2>1, <4>1, <6>1
        <5>3. QED
          BY <5>1, <5>2
      <4>5. <<n, t>> \in R
        BY <2>6, <3>3, <4>4
      <4>6. PICK k \in Reach(Step(p), n) : <<k, ExecStep(q, t)>> \in R
        BY <2>9, <3>3, <4>4
      <4>7. k \in Reach(Step(p), s)
        BY <3>3, <4>6, StepType, ReachTransitive
      <4>8. QED
        BY <3>2, <3>3, <4>5, <4>6, <4>7
    <3>7. QED
      BY <3>4, <3>5, <3>6
  <2>11. Equivalent(p, q)
    BY <2>4, <2>7, <2>8, <2>10, Bisimulation
  <2>12. at \in 1..Len(q) + 1
    BY <2>1, <2>4
  <2>13. QED
    BY <2>2, <2>4, <2>11, <2>12 DEF Improves
<1>3. QED
  BY <1>1, <1>2

--------------------------------------------------------------------------------
(***************************************************************************)
(* vx_IrBlock_ll_cmov_expand.                                               *)
(***************************************************************************)
Up(at, i) == IF i <= at THEN i ELSE i + 1

ElseFirst(op) == Assign("IMM", op.out, <<op.args[3]>>)
WithoutElse(op) == [op EXCEPT !.args = SubSeq(@, 1, 2)]
Expanded(p, at) ==
  SubSeq(p, 1, at - 1) \o <<ElseFirst(p[at]), WithoutElse(p[at])>> \o SubSeq(p, at + 1, Len(p))

LEMMA ElseOps ==
  ASSUME NEW op \in Op, HasElse(op)
  PROVE  /\ ElseFirst(op) \in Op /\ ElseFirst(op).id = "IMM" /\ ElseFirst(op).out = op.out
         /\ ElseFirst(op).args[1] = op.args[3]
         /\ WithoutElse(op) \in Op /\ WithoutElse(op).id = "CMOV" /\ WithoutElse(op).out = op.out
         /\ Len(WithoutElse(op).args) = 2
         /\ WithoutElse(op).args[1] = op.args[1] /\ WithoutElse(op).args[2] = op.args[2]
         /\ op.out \in Vars /\ op.args[1] \in Value /\ op.args[2] \in Value /\ op.args[3] \in Value
<1>1. /\ op \in [id : {"CMOV"}, out : Vars, args : Tuples(2) \cup Tuples(3), label : {NoLabel}]
      /\ op.args \in Seq(Value) /\ Len(op.args) = 3
  <2>1. op.id = "CMOV" /\ op.args \in Seq(Value) /\ Len(op.args) = 3
    BY OpFields DEF HasElse
  <2>2. QED
    BY <2>1 DEF Op
<1>2. op.args[1] \in Value /\ op.args[2] \in Value /\ op.args[3] \in Value /\ op.out \in Vars
  BY <1>1
<1>3. <<op.args[3]>> \in Tuples(1)
  BY <1>2 DEF Tuples
<1>4. /\ ElseFirst(op) \in Op /\ ElseFirst(op).id = "IMM" /\ ElseFirst(op).out = op.out
      /\ ElseFirst(op).args[1] = op.args[3]
  <2>1. ElseFirst(op) \in [id : {"IMM", "NOT"}, out : Vars, args : Tuples(1), label : {NoLabel}]
    BY <1>2, <1>3 DEF ElseFirst, Assign
  <2>2. QED
    BY <2>1 DEF Op, ElseFirst, Assign
<1> DEFINE args == SubSeq(op.args, 1, 2)
<1>5. args \in Seq(Value) /\ Len(args) = 2 /\ args[1] = op.args[1] /\ args[2] = op.args[2]
  <2>1. \A i \in 1..2 : op.args[i] \in Value
    BY <1>2
  <2>2. /\ args \in Seq(Value) /\ Len(args) = IF 1 <= 2 THEN 2 - 1 + 1 ELSE 0
        /\ \A i \in 1..2 - 1 + 1 : args[i] = op.args[1 + i - 1]
    BY <2>1, SubSeqProperties
  <2>3. args[1] = op.args[1 + 1 - 1] /\ args[2] = op.args[1 + 2 - 1]
    BY <2>2
  <2>4. QED
    BY <2>2, <2>3
<1> HIDE DEF args
<1>6. args \in Tuples(2)
  <2>1. args \in [1..Len(args) -> Value]
    BY <1>5, LenProperties
  <2>2. QED
    BY <1>5, <2>1 DEF Tuples
<1>7. WithoutElse(op) = [op EXCEPT !.args = args]
  BY DEF WithoutElse, args
<1>8. WithoutElse(op) \in [id : {"CMOV"}, out : Vars, args : Tuples(2) \cup Tuples(3), label : {NoLabel}]
  BY <1>1, <1>6, <1>7
<1>9. /\ WithoutElse(op).id = "CMOV" /\ WithoutElse(op).out = op.out /\ WithoutElse(op).args = args
  BY <1>1, <1>7
<1>10. WithoutElse(op) \in Op
  BY <1>8 DEF Op
<1>11. QED
  BY <1>2, <1>4, <1>5, <1>9, <1>10

LEMMA ExpandedIs ==
  ASSUME NEW p \in Seq(Op), NEW at \in 1..Len(p), HasElse(p[at])
  PROVE  LET q == Expanded(p, at) IN
         /\ q \in Seq(Op) /\ Len(q) = Len(p) + 1
         /\ q[at] = ElseFirst(p[at]) /\ q[at + 1] = WithoutElse(p[at])
         /\ \A i \in 1..Len(p) : i # at => q[Up(at, i)] = p[i]
<1> DEFINE s1 == SubSeq(p, 1, at - 1)
           two == <<ElseFirst(p[at]), WithoutElse(p[at])>>
           s2 == SubSeq(p, at + 1, Len(p))
<1>1. Len(p) \in Nat /\ at \in Nat /\ at >= 1 /\ at <= Len(p) /\ \A i \in 1..Len(p) : p[i] \in Op
  OBVIOUS
<1>2. /\ s1 \in Seq(Op) /\ Len(s1) = at - 1
      /\ \A i \in 1..at - 1 : s1[i] = p[i]
  <2>1. \A i \in 1..at - 1 : p[i] \in Op
    BY <1>1
  <2>2. /\ s1 \in Seq(Op) /\ Len(s1) = IF 1 <= at - 1 THEN (at - 1) - 1 + 1 ELSE 0
        /\ \A i \in 1..(at - 1) - 1 + 1 : s1[i] = p[1 + i - 1]
    BY <1>1, <2>1, SubSeqProperties
  <2>3. QED
    BY <1>1, <2>2
<1>3. /\ s2 \in Seq(Op) /\ Len(s2) = Len(p) - at
      /\ \A i \in 1..Len(p) - at : s2[i] = p[at + i]
  <2>1. \A i \in at + 1..Len(p) : p[i] \in Op
    BY <1>1
  <2>2. /\ s2 \in Seq(Op) /\ Len(s2) = IF at + 1 <= Len(p) THEN Len(p) - (at + 1) + 1 ELSE 0
        /\ \A i \in 1..Len(p) - (at + 1) + 1 : s2[i] = p[(at + 1) + i - 1]
    BY <1>1, <2>1, SubSeqProperties
  <2>3. QED
    BY <1>1, <2>2
<1>4. two \in Seq(Op) /\ Len(two) = 2 /\ two[1] = ElseFirst(p[at]) /\ two[2] = WithoutElse(p[at])
  BY <1>1, ElseOps
<1>5. Expanded(p, at) = s1 \o two \o s2
  BY DEF Expanded
<1> HIDE DEF s1, two, s2
<1> DEFINE front == s1 \o two
<1>6. /\ front \in Seq(Op) /\ Len(front) = at + 1
      /\ \A i \in 1..at + 1 : front[i] = IF i <= at - 1 THEN s1[i] ELSE two[i - (at - 1)]
  <2>1. /\ front \in Seq(Op) /\ Len(front) = Len(s1) + Len(two)
        /\ \A i \in 1..Len(s1) + Len(two) : front[i] = IF i <= Len(s1) THEN s1[i] ELSE two[i - Len(s1)]
    BY <1>2, <1>4, ConcatProperties
  <2>2. Len(s1) + Len(two) = at + 1
    BY <1>1, <1>2, <1>4
  <2>3. QED
    BY <1>2, <2>1, <2>2
<1> HIDE DEF front
<1> DEFINE q == front \o s2
<1>7. /\ q \in Seq(Op) /\ Len(q) = Len(p) + 1
      /\ \A i \in 1..Len(p) + 1 : q[i] = IF i <= at + 1 THEN front[i] ELSE s2[i - (at + 1)]
  <2>1. /\ q \in Seq(Op) /\ Len(q) = Len(front) + Len(s2)
        /\ \A i \in 1..Len(front) + Len(s2) : q[i] = IF i <= Len(front) THEN front[i] ELSE s2[i - Len(front)]
    BY <1>3, <1>6, ConcatProperties
  <2>2. Len(front) + Len(s2) = Len(p) + 1
    BY <1>1, <1>3, <1>6
  <2>3. QED
    BY <1>6, <2>1, <2>2
<1>8. Expanded(p, at) = q
  BY <1>5 DEF front
<1> HIDE DEF q
<1>9. q[at] = ElseFirst(p[at]) /\ q[at + 1] = WithoutElse(p[at])
  <2>1. /\ at \in 1..Len(p) + 1 /\ at \in 1..at + 1 /\ ~(at <= at - 1) /\ at <= at + 1 /\ at - (at - 1) = 1
        /\ at + 1 \in 1..Len(p) + 1 /\ at + 1 \in 1..at + 1 /\ ~(at + 1 <= at - 1)
        /\ (at + 1) - (at - 1) = 2
    BY <1>1
  <2>2. q[at] = two[1] /\ q[at + 1] = two[2]
    BY <1>6, <1>7, <2>1
  <2>3. QED
    BY <1>4, <2>2
<1>10. ASSUME NEW i \in 1..Len(p), i # at
       PROVE  q[Up(at, i)] = p[i]
  <2>1. CASE i < at
    <3>1. Up(at, i) = i /\ i \in 1..Len(p) + 1 /\ i <= at + 1 /\ i \in 1..at + 1 /\ i <= at - 1 /\ i \in 1..at - 1
      BY <1>1, <2>1 DEF Up
    <3>2. QED
      BY <1>2, <1>6, <1>7, <3>1
  <2>2. CASE i > at
    <3>1. /\ Up(at, i) = i + 1 /\ i + 1 \in 1..Len(p) + 1 /\ ~(i + 1 <= at + 1)
          /\ (i + 1) - (at + 1) \in 1..Len(p) - at /\ at + ((i + 1) - (at + 1)) = i
      BY <1>1, <2>2 DEF Up
    <3>2. q[i + 1] = s2[(i + 1) - (at + 1)]
      BY <1>7, <3>1
    <3>3. QED
      BY <1>3, <3>1, <3>2
  <2>3. QED
    BY <1>1, <1>10, <2>1, <2>2
<1>11. QED
  BY <1>7, <1>8, <1>9, <1>10

LEMMA ExpandedCode ==
  ASSUME NEW p \in Code, NEW at \in 1..Len(p), HasElse(p[at])
  PROVE  LET q == Expanded(p, at) IN
         /\ q \in Code
         /\ \A i \in 1..Len(p) : p[i].id \in Jumps =>
              LabelAt(q, p[i].label) = Up(at, LabelAt(p, p[i].label))
<1> DEFINE q == Expanded(p, at)
<1>1. /\ p \in Seq(Op) /\ Len(p) \in Nat \ {0} /\ DOMAIN p = 1..Len(p) /\ \A i \in 1..Len(p) : p[i] \in Op
      /\ EndsFlow(p[Len(p)]) /\ JumpsHaveLabels(p) /\ LabelsUnique(p)
      /\ p[at] \in Op /\ p[at].id = "CMOV"
  BY CodeType DEF WellFormed, HasElse
<1>2. /\ q \in Seq(Op) /\ Len(q) = Len(p) + 1
      /\ q[at] = ElseFirst(p[at]) /\ q[at + 1] = WithoutElse(p[at])
      /\ \A i \in 1..Len(p) : i # at => q[Up(at, i)] = p[i]
  BY <1>1, ExpandedIs
<1> HIDE DEF q
<1>3. q[at].id = "IMM" /\ q[at + 1].id = "CMOV"
  BY <1>1, <1>2, ElseOps
<1>4. \A j \in 1..Len(q) : j = at \/ j = at + 1 \/ \E i \in 1..Len(p) : i # at /\ j = Up(at, i) /\ q[j] = p[i]
  <2> SUFFICES ASSUME NEW j \in 1..Len(q), j # at, j # at + 1
               PROVE  \E i \in 1..Len(p) : i # at /\ j = Up(at, i)
    BY <1>2
  <2>1. CASE j < at
    <3>1. j \in 1..Len(p) /\ j # at /\ j = Up(at, j)
      BY <1>1, <1>2, <2>1 DEF Up
    <3>2. QED
      BY <3>1
  <2>2. CASE j > at
    <3>1. j - 1 \in 1..Len(p) /\ j - 1 # at /\ j = Up(at, j - 1)
      BY <1>1, <1>2, <2>2 DEF Up
    <3>2. QED
      BY <3>1
  <2>3. QED
    BY <1>1, <1>2, <2>1, <2>2
<1>5. \A i \in 1..Len(p) : Up(at, i) \in 1..Len(q)
  BY <1>1, <1>2 DEF Up
<1>6. DOMAIN q = 1..Len(q)
  BY <1>2
<1>7. \A j \in 1..Len(q) : q[j].id \in Jumps \cup {"LABEL"} =>
        \E i \in 1..Len(p) : i # at /\ j = Up(at, i) /\ q[j] = p[i]
  BY <1>3, <1>4 DEF Jumps
<1>8. ASSUME NEW i \in 1..Len(p), p[i].id \in Jumps
      PROVE  LET j == Up(at, LabelAt(p, p[i].label)) IN
             j \in 1..Len(q) /\ q[j].id = "LABEL" /\ q[j].label = p[i].label
  <2> DEFINE k == LabelAt(p, p[i].label)
  <2>1. k \in 1..Len(p) /\ p[k].id = "LABEL" /\ p[k].label = p[i].label
    BY <1>8, JumpFindsLabel
  <2> HIDE DEF k
  <2>2. k # at
    BY <1>1, <2>1
  <2>3. Up(at, k) \in 1..Len(q) /\ q[Up(at, k)] = p[k]
    BY <1>2, <1>5, <2>1, <2>2
  <2>4. QED
    BY <2>1, <2>3 DEF k
<1>9. JumpsHaveLabels(q)
  <2> SUFFICES ASSUME NEW j \in 1..Len(q), q[j].id \in Jumps
               PROVE  \E k \in 1..Len(q) : q[k].id = "LABEL" /\ q[k].label = q[j].label
    BY <1>6 DEF JumpsHaveLabels, Declared
  <2>1. PICK i \in 1..Len(p) : q[j] = p[i]
    BY <1>7
  <2>2. QED
    BY <1>8, <2>1
<1>10. LabelsUnique(q)
  <2> SUFFICES ASSUME NEW j \in 1..Len(q), NEW k \in 1..Len(q),
                      q[j].id = "LABEL", q[k].id = "LABEL", q[j].label = q[k].label
               PROVE  j = k
    BY <1>6 DEF LabelsUnique
  <2>1. PICK i \in 1..Len(p) : j = Up(at, i) /\ q[j] = p[i]
    BY <1>7
  <2>2. PICK h \in 1..Len(p) : k = Up(at, h) /\ q[k] = p[h]
    BY <1>7
  <2>3. i = h
    BY <1>1, <2>1, <2>2 DEF LabelsUnique
  <2>4. QED
    BY <2>1, <2>2, <2>3
<1>11. Leaves(q)
  <2>1. at < Len(p) /\ Len(p) \in Nat \ {0} /\ at \in Nat
    <3>1. ~EndsFlow(p[at])
      BY <1>1 DEF EndsFlow
    <3>2. at < Len(p)
      BY <3>1, NotLast
    <3>3. QED
      BY <1>1, <3>2
  <2>2. Len(p) \in 1..Len(p) /\ Len(p) # at
    BY <2>1
  <2>3. ~(Len(p) <= at)
    BY <2>1
  <2>4. Up(at, Len(p)) = Len(q)
    BY <1>2, <2>3 DEF Up
  <2>5. EndsFlow(q[Len(q)]) /\ q # <<>>
    <3>1. q[Len(q)] = p[Len(p)]
      BY <1>2, <2>2, <2>4
    <3>2. q # <<>>
      BY <1>1, <1>2
    <3>3. QED
      BY <1>1, <3>1, <3>2
  <2>6. QED
    BY <2>5 DEF Leaves, Last
<1>12. q \in Code
  BY <1>2, <1>9, <1>10, <1>11 DEF Code, WellFormed
<1>13. ASSUME NEW i \in 1..Len(p), p[i].id \in Jumps
       PROVE  LabelAt(q, p[i].label) = Up(at, LabelAt(p, p[i].label))
  <2> DEFINE j == Up(at, LabelAt(p, p[i].label))
  <2>1. j \in 1..Len(q) /\ q[j].id = "LABEL" /\ q[j].label = p[i].label
    BY <1>8, <1>13
  <2> HIDE DEF j
  <2>2. LabelAt(q, q[j].label) = j
    BY <1>12, <2>1, LabelFound
  <2>3. QED
    BY <2>1, <2>2 DEF j
<1>14. QED
  BY <1>12, <1>13 DEF q

\* The IMM and the CMOV behind it do what the CMOV with an else value does, if
\* the IMM does not overwrite what the CMOV reads.
LEMMA ExpandedResult ==
  ASSUME NEW op \in Op, HasElse(op), ~Clobbers(op), NEW env \in [Vars -> Num]
  PROVE  LET env1 == [env EXCEPT ![op.out] = Result(env, ElseFirst(op))] IN
         /\ env1 \in [Vars -> Num]
         /\ [env1 EXCEPT ![op.out] = Result(env1, WithoutElse(op))]
              = [env EXCEPT ![op.out] = Result(env, op)]
<1> DEFINE a(i) == Eval(env, op.args[i])
           env1 == [env EXCEPT ![op.out] = Result(env, ElseFirst(op))]
           b(i) == Eval(env1, op.args[i])
<1>1. /\ ElseFirst(op) \in Op /\ ElseFirst(op).id = "IMM" /\ ElseFirst(op).args[1] = op.args[3]
      /\ WithoutElse(op).id = "CMOV" /\ WithoutElse(op).out = op.out
      /\ Len(WithoutElse(op).args) = 2
      /\ WithoutElse(op).args[1] = op.args[1] /\ WithoutElse(op).args[2] = op.args[2]
      /\ op.out \in Vars /\ op.args[1] \in Value /\ op.args[2] \in Value
  BY ElseOps
<1>2. Result(env, ElseFirst(op)) = a(3) /\ Result(env, ElseFirst(op)) \in Num
  BY <1>1, ResultType DEF Result, Pure
<1>3. env1 \in [Vars -> Num] /\ env1[op.out] = a(3) /\ \A v \in Vars : v # op.out => env1[v] = env[v]
  BY <1>1, <1>2
<1>4. op.args[1] # Var(op.out) /\ op.args[2] # Var(op.out)
  BY DEF Clobbers
<1>5. ASSUME NEW val \in Value, val # Var(op.out)
      PROVE  Eval(env1, val) = Eval(env, val)
  <2>1. val.kind = "var" => val.n \in Vars /\ val.n # op.out
    BY <1>5 DEF Value, Var
  <2>2. QED
    BY <1>3, <2>1 DEF Eval
<1>6. b(1) = a(1) /\ b(2) = a(2)
  BY <1>1, <1>4, <1>5
<1>7. Result(env, op) = IF a(1) # 0 THEN a(2) ELSE a(3)
  BY DEF Result, HasElse
<1>8. Result(env1, WithoutElse(op)) = IF b(1) # 0 THEN b(2) ELSE env1[op.out]
  BY <1>1 DEF Result
<1>9. Result(env1, WithoutElse(op)) = Result(env, op)
  BY <1>3, <1>6, <1>7, <1>8
<1> DEFINE x == Result(env, op)
<1>10. [env1 EXCEPT ![op.out] = x] = [env EXCEPT ![op.out] = x]
  <2> HIDE DEF x
  <2>1. [env1 EXCEPT ![op.out] = x] = [v \in Vars |-> IF v = op.out THEN x ELSE env[v]]
    BY <1>3
  <2>2. [env EXCEPT ![op.out] = x] = [v \in Vars |-> IF v = op.out THEN x ELSE env[v]]
    OBVIOUS
  <2>3. QED
    BY <2>1, <2>2
<1>11. QED
  BY <1>3, <1>9, <1>10

LEMMA CmovExpandImproves ==
  ASSUME NEW p \in Code, NEW at \in 1..Len(p), ~Clobbers(p[at])
  PROVE  Improves(p, CmovExpand(p, at))
<1>1. CASE ~HasElse(p[at])
  BY <1>1, UnchangedImproves DEF CmovExpand
<1>2. CASE HasElse(p[at])
  <2> DEFINE q == Expanded(p, at)
             op == p[at]
             Env1(s) == [s.env EXCEPT ![op.out] = Result(s.env, ElseFirst(op))]
             Env2(s) == [s.env EXCEPT ![op.out] = Result(s.env, op)]
             Between(s) == [pc |-> at + 1, env |-> Env1(s), trace |-> s.trace, done |-> FALSE]
             Behind(s) == [pc |-> at + 2, env |-> Env2(s), trace |-> s.trace, done |-> FALSE]
             Skew(s, t) == s.pc = at /\ ~s.done /\ t = Between(s)
             Related(s, t) == t = Moved(s, Up(at, s.pc)) \/ Skew(s, t)
             R == {x \in States(p) \X States(q) : Related(x[1], x[2])}
  <2>1. /\ p \in Seq(Op) /\ Len(p) \in Nat /\ op \in Op /\ at < Len(p) /\ at \in Nat
        /\ op.id = "CMOV" /\ op.id \in Pure /\ op.out \in Vars
    <3>1. p \in Seq(Op) /\ Len(p) \in Nat /\ op \in Op /\ op.id = "CMOV" /\ op.id \in Pure
      BY <1>2, CodeType DEF HasElse, Pure
    <3>2. ~EndsFlow(op)
      BY <3>1 DEF EndsFlow
    <3>3. QED
      BY <3>1, <3>2, NotLast, OpFields
  <2>2. /\ Len(q) = Len(p) + 1
        /\ q[at] = ElseFirst(op) /\ q[at + 1] = WithoutElse(op)
        /\ \A i \in 1..Len(p) : i # at => q[Up(at, i)] = p[i]
        /\ q \in Code
        /\ \A i \in 1..Len(p) : p[i].id \in Jumps => LabelAt(q, p[i].label) = Up(at, LabelAt(p, p[i].label))
    BY <1>2, <2>1, ExpandedIs, ExpandedCode
  <2>3. CmovExpand(p, at) = [prog |-> q, next |-> at + 2]
    BY <1>2 DEF CmovExpand, Expanded, ElseFirst, WithoutElse
  <2> HIDE DEF q
  <2>4. \A i \in 1..Len(p) : Up(at, i) \in 1..Len(q)
    BY <2>1, <2>2 DEF Up
  <2>5. ASSUME NEW s \in States(p), NEW t \in States(q),
               t = Moved(s, Up(at, s.pc)), s.pc # at \/ s.done
        PROVE  ExecStep(q, t) = Moved(ExecStep(p, s), Up(at, ExecStep(p, s).pc))
    <3> DEFINE n == ExecStep(p, s)
               m == ExecStep(q, t)
    <3>1. CASE s.done
      <4>1. n = s /\ m = t
        BY <2>5, <3>1, ExecDone DEF Moved
      <4>2. QED
        BY <2>5, <4>1
    <3>2. CASE ~s.done /\ s.pc # at
      <4>1. /\ s.pc \in 1..Len(p) /\ t.pc = Up(at, s.pc) /\ t.env = s.env /\ Agree({}, s, t)
            /\ {} \in SUBSET Vars
        BY <2>5, StateFields DEF Moved, Agree
      <4>2. q[t.pc] = p[s.pc]
        BY <2>2, <3>2, <4>1
      <4>3. Alike(p[s.pc], s.env, q[t.pc], t.env)
        BY <4>1, <4>2 DEF Alike
      <4>4. /\ Agree({}, n, m)
            /\ \/ n.pc = s.pc + 1 /\ m.pc = t.pc + 1
               \/ n.pc = s.pc /\ m.pc = t.pc
               \/ /\ p[s.pc].id \in Jumps
                  /\ n.pc = LabelAt(p, p[s.pc].label) /\ m.pc = LabelAt(q, p[s.pc].label)
        BY <2>2, <3>2, <4>1, <4>3, StepAlike
      <4>5. Up(at, s.pc + 1) = Up(at, s.pc) + 1
        BY <2>1, <3>2, <4>1 DEF Up
      <4>6. m.pc = Up(at, n.pc)
        BY <2>2, <4>1, <4>4, <4>5
      <4>7. n \in States(p) /\ m \in States(q)
        BY <2>2, ReachExec
      <4> HIDE DEF n, m
      <4>8. /\ n.env \in [Vars -> Num] /\ m.env \in [Vars -> Num]
            /\ m = [pc |-> m.pc, env |-> m.env, trace |-> m.trace, done |-> m.done]
        BY <2>2, <4>7, StateFields
      <4>9. n.env = m.env /\ n.trace = m.trace /\ n.done = m.done
        BY <4>4, <4>8 DEF Agree
      <4>10. m = Moved(n, Up(at, n.pc))
        BY <4>6, <4>8, <4>9 DEF Moved
      <4>11. QED
        BY <4>10 DEF n, m
    <3>3. QED
      BY <2>5, <3>1, <3>2
  <2>6. ASSUME NEW s \in States(p), s.pc = at, ~s.done
        PROVE  /\ ExecStep(p, s) \in States(p) /\ Moved(ExecStep(p, s), Up(at, ExecStep(p, s).pc)) = Behind(s)
               /\ Between(s) \in States(q) /\ ExecStep(q, Between(s)) = Behind(s)
               /\ Moved(s, Up(at, s.pc)) \in States(q) /\ ExecStep(q, Moved(s, Up(at, s.pc))) = Between(s)
    <3> DEFINE x == Moved(s, at)
    <3>1. /\ s.env \in [Vars -> Num] /\ s.trace \in Seq(Num) /\ at \in 1..Len(q) /\ at + 1 \in 1..Len(q)
          /\ Up(at, at) = at /\ Up(at, at + 1) = at + 2 /\ s.done = FALSE
      BY <2>1, <2>2, <2>6, StateFields DEF Up
    <3>2. Env1(s) \in [Vars -> Num] /\ [Env1(s) EXCEPT ![op.out] = Result(Env1(s), WithoutElse(op))] = Env2(s)
      BY <1>2, <2>1, <3>1, ExpandedResult
    <3>3. /\ ElseFirst(op).id = "IMM" /\ ElseFirst(op).out = op.out
          /\ WithoutElse(op).id = "CMOV" /\ WithoutElse(op).out = op.out
      BY <1>2, <2>1, ElseOps
    <3>4. ExecStep(p, s) = [pc |-> at + 1, env |-> Env2(s), trace |-> s.trace, done |-> FALSE]
      BY <2>1, <2>6, ExecPure
    <3>5. Between(s) \in States(q)
      BY <3>1, <3>2, StateType
    <3>6. x \in States(q)
      BY <3>1, StateType DEF Moved
    <3>7. ExecStep(q, x) = Between(s)
      <4>1. x.pc = at /\ ~x.done /\ x.env = s.env /\ x.trace = s.trace
        BY <2>6 DEF Moved
      <4> HIDE DEF x
      <4>2. q[x.pc].id \in Pure /\ q[x.pc].out = op.out
        BY <2>2, <3>3, <4>1 DEF Pure
      <4>3. ExecStep(q, x) = [pc |-> x.pc + 1, env |-> [x.env EXCEPT ![q[x.pc].out] = Result(x.env, q[x.pc])],
                              trace |-> x.trace, done |-> FALSE]
        BY <2>2, <3>6, <4>1, <4>2, ExecPure
      <4>4. QED
        BY <2>2, <3>3, <4>1, <4>3
    <3>8. ExecStep(q, Between(s)) = Behind(s)
      <4> DEFINE y == Between(s)
      <4>1. y.pc = at + 1 /\ ~y.done /\ y.env = Env1(s) /\ y.trace = s.trace
        OBVIOUS
      <4> HIDE DEF y
      <4>2. q[y.pc].id \in Pure /\ q[y.pc].out = op.out
        BY <2>2, <3>3, <4>1 DEF Pure
      <4>3. ExecStep(q, y) = [pc |-> y.pc + 1, env |-> [y.env EXCEPT ![q[y.pc].out] = Result(y.env, q[y.pc])],
                              trace |-> y.trace, done |-> FALSE]
        BY <2>2, <3>5, <4>1, <4>2, ExecPure DEF y
      <4>4. [y.env EXCEPT ![q[y.pc].out] = Result(y.env, q[y.pc])] = Env2(s)
        BY <2>2, <3>2, <4>1, <4>2
      <4>5. y.pc + 1 = at + 2
        BY <2>1, <4>1
      <4>6. ExecStep(q, y) = Behind(s)
        BY <4>1, <4>3, <4>4, <4>5
      <4>7. QED
        BY <4>6 DEF y
    <3>9. Moved(ExecStep(p, s), Up(at, ExecStep(p, s).pc)) = Behind(s)
      <4> DEFINE env == Env2(s)
                 n == ExecStep(p, s)
      <4> HIDE DEF env
      <4>1. n = [pc |-> at + 1, env |-> env, trace |-> s.trace, done |-> FALSE]
        BY <3>4 DEF env
      <4> HIDE DEF n
      <4>2. n.pc = at + 1 /\ n.env = env /\ n.trace = s.trace /\ n.done = FALSE
        BY <4>1
      <4>3. Moved(n, Up(at, n.pc)) = [pc |-> at + 2, env |-> env, trace |-> s.trace, done |-> FALSE]
        BY <3>1, <4>2 DEF Moved
      <4>4. QED
        BY <4>3 DEF n, env
    <3>10. ExecStep(p, s) \in States(p)
      BY ReachExec
    <3>11. QED
      BY <2>6, <3>1, <3>5, <3>6, <3>7, <3>8, <3>9, <3>10
  <2>7. \A s \in States(p), t \in States(q) : <<s, t>> \in R <=> Related(s, t)
    OBVIOUS
  <2>8. \A env \in [Vars -> Num] : <<Start(env), Start(env)>> \in R
    <3> SUFFICES ASSUME NEW env \in [Vars -> Num]
                 PROVE  Related(Start(env), Start(env))
      BY <2>2, <2>7, StartType
    <3>1. Up(at, Start(env).pc) = Start(env).pc
      BY <2>1 DEF Up, Start
    <3>2. Start(env) = Moved(Start(env), Start(env).pc)
      BY DEF Start, Moved
    <3>3. QED
      BY <3>1, <3>2
  <2>9. R \in SUBSET (States(p) \X States(q))
    OBVIOUS
  <2>10. ASSUME NEW s \in States(p), NEW t, Skew(s, t)
         PROVE  Seen(s) = Seen(t)
    <3>1. s.done = FALSE
      BY <2>10, StateFields
    <3>2. t.trace = s.trace /\ t.done = FALSE
      BY <2>10
    <3>3. QED
      BY <3>1, <3>2 DEF Seen
  <2> HIDE DEF R, Between, Behind
  <2>11. ASSUME NEW s \in States(p), NEW t \in States(q), <<s, t>> \in R
         PROVE  /\ Seen(s) = Seen(t)
                /\ \E n \in Reach(Step(q), t) : <<ExecStep(p, s), n>> \in R
                /\ \E n \in Reach(Step(p), s) : <<n, ExecStep(q, t)>> \in R
    <3> DEFINE n == ExecStep(p, s)
               m == ExecStep(q, t)
    <3>1. /\ s \in Reach(Step(p), s) /\ n \in Reach(Step(p), s) /\ n \in States(p)
          /\ t \in Reach(Step(q), t) /\ m \in Reach(Step(q), t) /\ m \in States(q)
          /\ ExecStep(q, m) \in Reach(Step(q), t) /\ ExecStep(q, m) \in States(q)
      BY <2>2, ReachExec
    <3>2. Related(s, t)
      BY <2>7, <2>11
    <3>3. CASE t = Moved(s, Up(at, s.pc))
      <4>1. Seen(s) = Seen(t)
        BY <3>3 DEF Moved, Seen
      <4>2. CASE s.pc # at \/ s.done
        <5>1. <<n, m>> \in R
          BY <2>5, <2>7, <3>1, <3>3, <4>2
        <5>2. QED
          BY <3>1, <4>1, <5>1
      <4>3. CASE s.pc = at /\ ~s.done
        <5>1. m = Between(s)
          BY <2>6, <3>3, <4>3
        <5>2. <<s, m>> \in R
          BY <2>7, <3>1, <4>3, <5>1
        <5>3. ExecStep(q, m) = Moved(n, Up(at, n.pc))
          BY <2>6, <4>3, <5>1
        <5>4. <<n, ExecStep(q, m)>> \in R
          BY <2>7, <3>1, <5>3
        <5>5. QED
          BY <3>1, <4>1, <5>2, <5>4
      <4>4. QED
        BY <4>2, <4>3
    <3>4. CASE Skew(s, t)
      <4>1. Seen(s) = Seen(t)
        BY <2>10, <3>4
      <4>2. m = Moved(n, Up(at, n.pc))
        BY <2>6, <3>4
      <4>3. <<n, m>> \in R
        BY <2>7, <3>1, <4>2
      <4>4. QED
        BY <3>1, <4>1, <4>3
    <3>5. QED
      BY <3>2, <3>3, <3>4
  <2>12. Equivalent(p, q)
    BY <2>2, <2>8, <2>9, <2>11, Bisimulation
  <2>13. at + 2 \in 1..Len(q) + 1
    BY <2>1, <2>2
  <2>14. QED
    BY <2>2, <2>3, <2>12, <2>13 DEF Improves
<1>3. QED
  BY <1>1, <1>2

--------------------------------------------------------------------------------
(***************************************************************************)
(* All passes together.                                                     *)
(***************************************************************************)
PassNames ==
  {"dce_labels", "dce_code", "inlineVars", "vars", "cmov_expand", "jumps_part1", "jumps_part2", "binary"}

\* One iteration of any pass leaves a well-formed block that does the same;
\* cmov_expand does if the IMM it puts in front overwrites nothing the CMOV
\* reads.
THEOREM IterateImproves ==
  ASSUME NEW p \in Code, NEW at \in 1..Len(p), NEW pass \in PassNames,
         pass = "cmov_expand" => ~Clobbers(p[at])
  PROVE  Improves(p, Iterate(pass, p, at))
<1>1. CASE pass = "dce_labels"
  BY <1>1, DceLabelImproves DEF Iterate
<1>2. CASE pass = "dce_code"
  BY <1>2, DceCodeImproves DEF Iterate
<1>3. CASE pass = "inlineVars"
  BY <1>3, InlineVarImproves DEF Iterate
<1>4. CASE pass = "vars"
  BY <1>4, RemoveUnusedImproves DEF Iterate
<1>5. CASE pass = "cmov_expand"
  BY <1>5, CmovExpandImproves DEF Iterate
<1>6. CASE pass = "jumps_part1"
  BY <1>6, JumpOverNothingImproves DEF Iterate
<1>7. CASE pass = "jumps_part2"
  BY <1>7, JumpToJumpImproves DEF Iterate
<1>8. CASE pass = "binary"
  BY <1>8, SwapOperandsImproves DEF Iterate
<1>9. QED
  BY <1>1, <1>2, <1>3, <1>4, <1>5, <1>6, <1>7, <1>8 DEF PassNames

\* Whether the block does the same or not, it stays well formed.
LEMMA IterateCode ==
  ASSUME NEW p \in Code, NEW at \in 1..Len(p), NEW pass \in PassNames
  PROVE  /\ Iterate(pass, p, at).prog \in Code
         /\ Iterate(pass, p, at).next \in 1..Len(Iterate(pass, p, at).prog) + 1
<1>1. CASE pass = "cmov_expand"
  <2>1. CASE HasElse(p[at])
    <3>1. CmovExpand(p, at) = [prog |-> Expanded(p, at), next |-> at + 2]
      BY <2>1 DEF CmovExpand, Expanded, ElseFirst, WithoutElse
    <3>2. Expanded(p, at) \in Code /\ Len(Expanded(p, at)) = Len(p) + 1
      BY <2>1, ExpandedCode, ExpandedIs, CodeType
    <3>3. at + 2 \in 1..Len(Expanded(p, at)) + 1
      BY <3>2, CodeType
    <3>4. QED
      BY <1>1, <3>1, <3>2, <3>3 DEF Iterate
  <2>2. CASE ~HasElse(p[at])
    <3>1. Improves(p, CmovExpand(p, at))
      BY <2>2, UnchangedImproves DEF CmovExpand
    <3>2. QED
      BY <1>1, <3>1 DEF Iterate, Improves
  <2>3. QED
    BY <2>1, <2>2
<1>2. CASE pass # "cmov_expand"
  BY <1>2, IterateImproves DEF Improves
<1>3. QED
  BY <1>1, <1>2

\* Each operation is one of those before, with the same operands or with the
\* values of IMMs in their place.
ArgFrom(p, op, old, k) ==
  \/ op.args[k] = old.args[k]
  \/ \E m \in 1..Len(p) : p[m].id = "IMM" /\ op.args[k] = p[m].args[1]

From(p, op, old) ==
  /\ op.id = old.id /\ op.out = old.out
  /\ Len(op.args) = Len(old.args)
  /\ \A k \in 1..Len(old.args) : ArgFrom(p, op, old, k)

Derived(p, q) == \A j \in 1..Len(q) : \E i \in 1..Len(p) : From(p, q[j], p[i])

LEMMA FromSame ==
  ASSUME NEW p, NEW op
  PROVE  From(p, op, op)
  BY DEF From, ArgFrom

LEMMA CutDerived ==
  ASSUME NEW p \in Seq(Op), NEW a \in 1..Len(p) + 1, NEW b \in a..Len(p) + 1
  PROVE  Derived(p, Cut(p, a, b))
<1>1. ASSUME NEW j \in 1..Len(Cut(p, a, b))
      PROVE  \E i \in 1..Len(p) : Cut(p, a, b)[j] = p[i]
  <2>1. \E i \in 1..Len(p) : i \notin a..b - 1 /\ j = Down(a, b, i) /\ Cut(p, a, b)[j] = p[i]
    BY CutOperation
  <2>2. QED
    BY <2>1
<1>2. QED
  BY <1>1, FromSame DEF Derived

LEMMA RemoveDerived ==
  ASSUME NEW p \in Code, NEW at \in 1..Len(p)
  PROVE  Derived(p, Unlink(p, at).prog)
<1>1. p \in Seq(Op) /\ at \in 1..Len(p) + 1 /\ at + 1 \in at..Len(p) + 1
  BY CodeType
<1>2. Unlink(p, at).prog = Cut(p, at, at + 1)
  BY DEF Unlink, RemoveAt, Cut
<1>3. QED
  BY <1>1, <1>2, CutDerived

LEMMA UnchangedDerived ==
  ASSUME NEW p, NEW at
  PROVE  Derived(p, Unchanged(p, at).prog)
  BY FromSame DEF Unchanged, Derived

LEMMA InlineVarDerived ==
  ASSUME NEW p \in Code, NEW at \in 1..Len(p)
  PROVE  Derived(p, InlineVar(p, at).prog)
<1> DEFINE imm == p[at]
           out == imm.out
           val == imm.args[1]
           e == InlineEnd(p, at)
           q == [i \in DOMAIN p |-> IF i \in at + 1..e THEN Inlined(p[i], out, val) ELSE p[i]]
<1>1. CASE imm.id # "IMM"
  BY <1>1, UnchangedDerived DEF InlineVar
<1>2. CASE imm.id = "IMM" /\ val = Var(out)
  BY <1>2, RemoveDerived DEF InlineVar
<1>3. CASE imm.id = "IMM" /\ val # Var(out)
  <2>1. /\ DOMAIN p = 1..Len(p) /\ Len(p) \in Nat /\ \A i \in 1..Len(p) : p[i] \in Op
        /\ out \in Vars /\ val \in Value
    <3>1. Len(imm.args) = 1 /\ imm.args \in Seq(Value) /\ out \in Vars
      BY <1>3, CodeType, OpFields DEF Pure
    <3>2. QED
      BY <3>1, CodeType
  <2>2. InlineVar(p, at).prog = q
    BY <1>3 DEF InlineVar
  <2> HIDE DEF out, e
  <2>3. Len(q) = Len(p)
    BY <2>1
  <2>4. ASSUME NEW j \in 1..Len(p)
        PROVE  From(p, q[j], p[j])
    <3>1. CASE j \notin at + 1..e
      <4>1. q[j] = p[j]
        BY <2>1, <3>1
      <4>2. QED
        BY <4>1, FromSame
    <3>2. CASE j \in at + 1..e
      <4>1. q[j] = Inlined(p[j], out, val)
        BY <2>1, <3>2
      <4> DEFINE new == Inlined(p[j], out, val)
      <4>2. /\ new.id = p[j].id /\ new.out = p[j].out /\ Len(new.args) = Len(p[j].args)
            /\ \A k \in 1..Len(p[j].args) : new.args[k] = p[j].args[k] \/ new.args[k] = val
        BY <2>1, InlinedOp
      <4> HIDE DEF new
      <4>3. \A k \in 1..Len(p[j].args) : ArgFrom(p, new, p[j], k)
        BY <1>3, <4>2 DEF ArgFrom
      <4>4. From(p, new, p[j])
        BY <4>2, <4>3 DEF From
      <4>5. QED
        BY <4>1, <4>4 DEF new
    <3>3. QED
      BY <3>1, <3>2
  <2> HIDE DEF q
  <2>5. QED
    BY <2>2, <2>3, <2>4 DEF Derived
<1>4. QED
  BY <1>1, <1>2, <1>3

LEMMA DceCodeDerived ==
  ASSUME NEW p \in Code, NEW at \in 1..Len(p)
  PROVE  Derived(p, DceCode(p, at).prog)
<1>1. CASE EndsFlow(p[at])
  <2> DEFINE a == at + 1
             b == NextLabel(p, a)
  <2>1. p \in Seq(Op) /\ a \in 1..Len(p) + 1 /\ a - 1 = at
    BY CodeType
  <2>2. b \in a..Len(p) + 1
    BY <2>1, NextLabelIs
  <2>3. DceCode(p, at).prog = Cut(p, a, b)
    BY <1>1, <2>1 DEF DceCode, Cut
  <2> HIDE DEF a, b
  <2>4. QED
    BY <2>1, <2>2, <2>3, CutDerived
<1>2. CASE ~EndsFlow(p[at])
  BY <1>2, UnchangedDerived DEF DceCode
<1>3. QED
  BY <1>1, <1>2

LEMMA JumpToJumpDerived ==
  ASSUME NEW p \in Code, NEW at \in 1..Len(p)
  PROVE  Derived(p, JumpToJump(p, at).prog)
<1> DEFINE to == LabelAt(p, p[at].label)
           guard == p[at].id \in Jumps /\ to < Len(p) /\ Forwards(p[to + 1])
           new == [p[at] EXCEPT !.label = p[to + 1].label]
           q == ReplaceAt(p, at, new)
<1>1. CASE ~guard
  BY <1>1, UnchangedDerived DEF JumpToJump
<1>2. CASE guard
  <2>1. JumpToJump(p, at).prog = q
    BY <1>2 DEF JumpToJump, Replace
  <2>2. p[at] \in Op /\ p[at].id \in Jumps /\ to \in 1..Len(p) /\ to + 1 \in 1..Len(p)
    <3>1. p[at] \in Op /\ to \in 1..Len(p) /\ Len(p) \in Nat
      BY <1>2, CodeType, JumpFindsLabel
    <3>2. QED
      BY <1>2, <3>1
  <2>3. p[to + 1].label \in Labels
    BY <1>2, <2>2, CodeType, OpFields DEF Forwards, Jumps
  <2> HIDE DEF to
  <2>4. new \in Op /\ new.id = p[at].id /\ new.out = p[at].out /\ new.args = p[at].args
    <3>1. new \in Op
      BY <2>2, <2>3, OtherLabel
    <3>2. QED
      BY <2>2, <3>1 DEF Op
  <2> HIDE DEF new
  <2>5. Len(q) = Len(p) /\ q[at] = new /\ \A i \in 1..Len(p) : i # at => q[i] = p[i]
    BY <2>4, ReplaceIs
  <2> HIDE DEF q
  <2>6. From(p, new, p[at])
    BY <2>4 DEF From, ArgFrom
  <2>7. \A j \in 1..Len(p) : From(p, q[j], p[j])
    BY <2>5, <2>6, FromSame
  <2>8. QED
    BY <2>1, <2>5, <2>7 DEF Derived
<1>3. QED
  BY <1>1, <1>2

LEMMA IterateDerived ==
  ASSUME NEW p \in Code, NEW at \in 1..Len(p), NEW pass \in PassNames \ {"cmov_expand", "binary"}
  PROVE  Derived(p, Iterate(pass, p, at).prog)
<1>1. CASE pass = "dce_labels"
  BY <1>1, RemoveDerived, UnchangedDerived DEF Iterate, DceLabel
<1>2. CASE pass = "dce_code"
  BY <1>2, DceCodeDerived DEF Iterate
<1>3. CASE pass = "inlineVars"
  BY <1>3, InlineVarDerived DEF Iterate
<1>4. CASE pass = "vars"
  BY <1>4, RemoveDerived, UnchangedDerived DEF Iterate, RemoveUnused
<1>5. CASE pass = "jumps_part1"
  BY <1>5, RemoveDerived, UnchangedDerived DEF Iterate, JumpOverNothing
<1>6. CASE pass = "jumps_part2"
  BY <1>6, JumpToJumpDerived DEF Iterate
<1>7. QED
  BY <1>1, <1>2, <1>3, <1>4, <1>5, <1>6 DEF PassNames
================================================================================
