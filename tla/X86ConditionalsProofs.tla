------------------------- MODULE X86ConditionalsProofs -------------------------
(***************************************************************************)
(* Theorems about vx_llir_x86: whatever block it starts from, its walks     *)
(* insert operations in front of and behind the one they are at without     *)
(* leaving a comparison or a conditional behind, and where the flags of the *)
(* comparisons reach the conditionals, the block does what it did: a         *)
(* comparison in two operations, a conditional that reads flags, and a       *)
(* removed operation are each shown to be indistinguishable from before.     *)
(***************************************************************************)
EXTENDS X86Conditionals, LlirProofs

FlagOps == {"X86_CMP", "X86_BITTEST", "X86_JMPCC"}
AnyId == Ids \cup Compared \cup FlagOps \cup {"X86_SETCC", "X86_CMOV"}
Codes == {CcOf[id] : id \in Comparisons} \cup {"", "ne"}

\* What stands in a block at any moment of the pass.
Arg == Value \cup [kind : {"cc"}, cc : Codes]
Operation == [id : AnyId, out : Vars \cup {NoVar}, args : Seq(Arg), label : Labels \cup {NoLabel}]

\* COND is here because it becomes X86_JMPCC, and has to have no output by then.
Fits(op) ==
  /\ op.id \in FlagOps \cup {"COND"} => op.out = NoVar
  /\ op.id \in Compared => op.out \in Vars
  /\ op.id \in Conditionals => op.args # <<>>

Converted(op) == op.id \notin Compared

Typed ==
  /\ prog \in Seq(Operation)
  /\ pass \in {"fuse", "rest", "unused", "done"}
  /\ at \in 1..Len(prog) + 1
  /\ look \in 0..Len(prog) + 1
  /\ cmp \in [out : Vars \cup {NoVar}, cc : Codes]

\* The inner loop runs inside the first walk, behind its comparison.
Loops ==
  /\ pass # "fuse" => look = 0
  /\ look > 0 => at < look /\ at <= Len(prog)

\* The comparison at hand has already been replaced while its users are looked
\* for, so the walk is one further then.
Walked == IF look = 0 THEN at - 1 ELSE at
NoComparison ==
  \A i \in 1..Len(prog) : (pass = "fuse" => i <= Walked) => Converted(prog[i])
NoConditional ==
  \A i \in 1..Len(prog) :
    pass \in {"unused", "done"} \/ (pass = "rest" /\ i < at) => prog[i].id \notin Conditionals

IInv ==
  /\ Typed /\ Loops /\ NoComparison /\ NoConditional
  /\ \A i \in 1..Len(prog) : Fits(prog[i])

--------------------------------------------------------------------------------
(***************************************************************************)
(* Operations and blocks.                                                   *)
(***************************************************************************)
LEMMA ComparedIds == Compared = {"UGT", "ULT", "UGTE", "ULTE", "SGT", "SLT", "SGTE", "SLTE", "EQ", "NEQ", "BITEXTRACT"}
  BY DEF Compared, MeansOf

\* Neither is a conditional, and conditionals are not compared.
LEMMA Apart == /\ Compared \cap Conditionals = {}
               /\ Compared \cap (FlagOps \cup {"X86_SETCC", "X86_CMOV"}) = {}
               /\ Conditionals \cap (FlagOps \cup {"X86_SETCC", "X86_CMOV"}) = {}
  BY ComparedIds DEF Conditionals, FlagOps

LEMMA ArgsType ==
  ASSUME NEW args \in Seq(Value)
  PROVE  args \in Seq(Arg)
  BY DEF Arg

LEMMA SourceOpType ==
  ASSUME NEW op \in SourceOp
  PROVE  op \in Operation /\ Fits(op)
<1>1. op.args \in Seq(Arg)
  <2>1. CASE op \in Op
    BY <2>1, OpFields, ArgsType
  <2>2. CASE op.args \in Tuples(2)
    BY <2>2, TuplesType, ArgsType
  <2>3. QED
    BY <2>1, <2>2 DEF SourceOp
<1>2. op.id \in AnyId
  BY DEF SourceOp, Op, AnyId, Ids, Pure, Jumps
<1>3. op \in Operation
  <2>1. op.out \in Vars \cup {NoVar} /\ op.label \in Labels \cup {NoLabel}
    BY DEF SourceOp, Op
  <2>2. op = [id |-> op.id, out |-> op.out, args |-> op.args, label |-> op.label]
    BY DEF SourceOp, Op
  <2>3. QED
    BY <1>1, <1>2, <2>1, <2>2 DEF Operation
<1>4. op.id \in Conditionals => op.args # <<>>
  <2>1. op.id \in Conditionals => op \in Op
    BY Apart DEF SourceOp
  <2>2. op \in Op => (op.id \in Conditionals => Len(op.args) \in {1, 2, 3})
    BY OpFields DEF Conditionals
  <2>3. QED
    BY <2>1, <2>2
<1>5. Fits(op)
  BY <1>4, ComparedIds DEF SourceOp, Op, Fits, FlagOps
<1>6. QED
  BY <1>3, <1>5

LEMMA Part ==
  ASSUME NEW S, NEW p \in Seq(S), NEW i \in 0..Len(p)
  PROVE  /\ SubSeq(p, 1, i) \in Seq(S) /\ Len(SubSeq(p, 1, i)) = i
         /\ \A j \in 1..i : SubSeq(p, 1, i)[j] = p[j]
         /\ SubSeq(p, i + 1, Len(p)) \in Seq(S) /\ Len(SubSeq(p, i + 1, Len(p))) = Len(p) - i
         /\ \A j \in 1..Len(p) - i : SubSeq(p, i + 1, Len(p))[j] = p[i + j]
<1>1. Len(p) \in Nat /\ i \in Int /\ i + 1 \in Int /\ Len(p) \in Int
  OBVIOUS
<1>2. (\A j \in 1..i : p[j] \in S) /\ (\A j \in i + 1..Len(p) : p[j] \in S)
  BY ElementOfSeq, <1>1
<1>3. /\ SubSeq(p, 1, i) \in Seq(S)
      /\ Len(SubSeq(p, 1, i)) = IF 1 <= i THEN i - 1 + 1 ELSE 0
      /\ \A j \in 1..i - 1 + 1 : SubSeq(p, 1, i)[j] = p[1 + j - 1]
  BY <1>1, <1>2, SubSeqProperties
<1>4. /\ SubSeq(p, i + 1, Len(p)) \in Seq(S)
      /\ Len(SubSeq(p, i + 1, Len(p))) = IF i + 1 <= Len(p) THEN Len(p) - (i + 1) + 1 ELSE 0
      /\ \A j \in 1..Len(p) - (i + 1) + 1 : SubSeq(p, i + 1, Len(p))[j] = p[i + 1 + j - 1]
  BY <1>1, <1>2, SubSeqProperties
<1>5. QED
  BY <1>1, <1>3, <1>4

LEMMA Widened ==
  ASSUME NEW S, NEW T, NEW p \in Seq(S), \A i \in 1..Len(p) : p[i] \in T
  PROVE  p \in Seq(T)
  OBVIOUS

LEMMA Inserted ==
  ASSUME NEW S, NEW p \in Seq(S), NEW i \in 0..Len(p), NEW op \in S
  PROVE  LET q == InsertAfter(p, i, op) IN
         /\ q \in Seq(S) /\ Len(q) = Len(p) + 1
         /\ \A j \in 1..Len(q) : q[j] = IF j <= i THEN p[j] ELSE IF j = i + 1 THEN op ELSE p[j - 1]
<1> DEFINE a == SubSeq(p, 1, i)
           b == SubSeq(p, i + 1, Len(p))
<1>1. a \in Seq(S) /\ Len(a) = i /\ \A j \in 1..i : a[j] = p[j]
  BY Part
<1>2. b \in Seq(S) /\ Len(b) = Len(p) - i /\ \A j \in 1..Len(p) - i : b[j] = p[i + j]
  BY Part
<1>3. <<op>> \in Seq(S) /\ Len(<<op>>) = 1 /\ <<op>>[1] = op
  OBVIOUS
<1> HIDE DEF a, b
<1> DEFINE c == a \o <<op>>
<1>4. c \in Seq(S) /\ Len(c) = i + 1 /\ \A j \in 1..i + 1 : c[j] = IF j <= i THEN p[j] ELSE op
  BY <1>1, <1>3, ConcatProperties
<1> HIDE DEF c
<1>5. /\ c \o b \in Seq(S) /\ Len(c \o b) = Len(c) + Len(b)
      /\ \A j \in 1..Len(c) + Len(b) : (c \o b)[j] = IF j <= Len(c) THEN c[j] ELSE b[j - Len(c)]
  BY <1>2, <1>4, ConcatProperties
<1>6. InsertAfter(p, i, op) = c \o b
  BY DEF InsertAfter, a, b, c
<1> DEFINE q == c \o b
<1> HIDE DEF q
<1>7. Len(p) \in Nat /\ i \in 0..Len(p)
  OBVIOUS
<1>8. q \in Seq(S) /\ Len(q) = Len(p) + 1
  BY <1>2, <1>4, <1>5, <1>7 DEF q
<1>9. ASSUME NEW j \in 1..Len(p) + 1
      PROVE  q[j] = IF j <= i THEN p[j] ELSE IF j = i + 1 THEN op ELSE p[j - 1]
  <2>1. q[j] = IF j <= i + 1 THEN c[j] ELSE b[j - (i + 1)]
    BY <1>2, <1>4, <1>5, <1>7 DEF q
  <2>2. CASE j <= i + 1
    BY <1>4, <1>7, <2>1, <2>2
  <2>3. CASE j > i + 1
    <3>1. j - (i + 1) \in 1..Len(p) - i /\ i + (j - (i + 1)) = j - 1 /\ ~(j <= i + 1)
      BY <1>7, <2>3
    <3>2. q[j] = p[j - 1]
      BY <1>2, <2>1, <3>1
    <3>3. QED
      BY <1>7, <2>3, <3>2
  <2>4. QED
    BY <1>7, <2>2, <2>3
<1>10. QED
  BY <1>6, <1>8, <1>9 DEF q

LEMMA Removed ==
  ASSUME NEW S, NEW p \in Seq(S), NEW i \in 1..Len(p)
  PROVE  LET q == RemoveAt(p, i) IN
         /\ q \in Seq(S) /\ Len(q) = Len(p) - 1
         /\ \A j \in 1..Len(q) : q[j] = IF j < i THEN p[j] ELSE p[j + 1]
<1> DEFINE a == SubSeq(p, 1, i - 1)
           b == SubSeq(p, i + 1, Len(p))
<1>1. a \in Seq(S) /\ Len(a) = i - 1 /\ \A j \in 1..i - 1 : a[j] = p[j]
  BY Part
<1>2. b \in Seq(S) /\ Len(b) = Len(p) - i /\ \A j \in 1..Len(p) - i : b[j] = p[i + j]
  BY Part
<1> HIDE DEF a, b
<1>3. /\ a \o b \in Seq(S) /\ Len(a \o b) = Len(a) + Len(b)
      /\ \A j \in 1..Len(a) + Len(b) : (a \o b)[j] = IF j <= Len(a) THEN a[j] ELSE b[j - Len(a)]
  BY <1>1, <1>2, ConcatProperties
<1>4. RemoveAt(p, i) = a \o b
  BY DEF RemoveAt, a, b
<1> DEFINE q == a \o b
<1> HIDE DEF q
<1>5. Len(p) \in Nat /\ i \in 1..Len(p)
  OBVIOUS
<1>6. q \in Seq(S) /\ Len(q) = Len(p) - 1
  BY <1>1, <1>2, <1>3, <1>5 DEF q
<1>7. ASSUME NEW j \in 1..Len(p) - 1
      PROVE  q[j] = IF j < i THEN p[j] ELSE p[j + 1]
  <2>1. q[j] = IF j <= i - 1 THEN a[j] ELSE b[j - (i - 1)]
    BY <1>1, <1>2, <1>3, <1>5 DEF q
  <2>2. CASE j < i
    BY <1>1, <1>5, <2>1, <2>2
  <2>3. CASE j >= i
    <3>1. j - (i - 1) \in 1..Len(p) - i /\ i + (j - (i - 1)) = j + 1 /\ ~(j <= i - 1)
      BY <1>5, <2>3
    <3>2. q[j] = p[j + 1]
      BY <1>2, <2>1, <3>1
    <3>3. QED
      BY <1>5, <2>3, <3>2
  <2>4. QED
    BY <1>5, <2>2, <2>3
<1>8. QED
  BY <1>4, <1>6, <1>7 DEF q

LEMMA Replaced ==
  ASSUME NEW S, NEW p \in Seq(S), NEW i \in 1..Len(p), NEW op \in S
  PROVE  LET q == ReplaceAt(p, i, op) IN
         /\ q \in Seq(S) /\ Len(q) = Len(p)
         /\ \A j \in 1..Len(q) : q[j] = IF j = i THEN op ELSE p[j]
  BY ExceptSeq DEF ReplaceAt

\* The operations the pass makes.
LEMMA FlagsOpType ==
  ASSUME NEW op \in Operation, op.id \in Comparisons
  PROVE  FlagsOp(op) \in Operation /\ Fits(FlagsOp(op)) /\ FlagsOp(op).id \in {"X86_CMP", "X86_BITTEST"}
<1> DEFINE id == IF op.id = "BITEXTRACT" THEN "X86_BITTEST" ELSE "X86_CMP"
<1>1. id \in {"X86_CMP", "X86_BITTEST"}
  OBVIOUS
<1> HIDE DEF id
<1>2. FlagsOp(op) = [id |-> id, out |-> NoVar, args |-> op.args, label |-> NoLabel]
  BY DEF FlagsOp, Do, id
<1>3. FlagsOp(op) \in Operation
  BY <1>1, <1>2 DEF Operation, AnyId, FlagOps
<1>4. id \notin Compared
  BY <1>1, ComparedIds
<1>5. FlagsOp(op).id = id /\ id \notin Conditionals
  BY <1>1, <1>2, Apart DEF FlagOps
<1>6. QED
  BY <1>1, <1>2, <1>3, <1>4, <1>5 DEF Fits, FlagOps

LEMMA Rewritten ==
  ASSUME NEW op \in Operation, NEW id, NEW args
  PROVE  [op EXCEPT !.id = id, !.args = args]
           = [id |-> id, out |-> op.out, args |-> args, label |-> op.label]
<1> DEFINE half == [op EXCEPT !.id = id]
<1>1. op = [id |-> op.id, out |-> op.out, args |-> op.args, label |-> op.label]
  BY DEF Operation
<1>2. half = [id |-> id, out |-> op.out, args |-> op.args, label |-> op.label]
  BY <1>1
<1>3. [op EXCEPT !.id = id, !.args = args] = [half EXCEPT !.args = args]
  BY Zenon DEF half
<1> HIDE DEF half
<1>4. [half EXCEPT !.args = args] = [id |-> id, out |-> op.out, args |-> args, label |-> op.label]
  BY <1>2
<1>5. QED
  BY <1>3, <1>4, Zenon

\* A conditional that reads the flags of code cc, by its first or last argument.
LEMMA FlagReader ==
  ASSUME NEW op \in Operation, Fits(op), op.id \in Conditionals, NEW args \in Seq(Arg)
  PROVE  LET new == [op EXCEPT !.id = IF op.id = "COND" THEN "X86_JMPCC" ELSE "X86_CMOV",
                               !.args = args] IN
         new \in Operation /\ Fits(new) /\ new.id \in {"X86_JMPCC", "X86_CMOV"}
<1> DEFINE id == IF op.id = "COND" THEN "X86_JMPCC" ELSE "X86_CMOV"
           new == [op EXCEPT !.id = id, !.args = args]
<1>1. /\ op.out \in Vars \cup {NoVar} /\ op.label \in Labels \cup {NoLabel}
      /\ op = [id |-> op.id, out |-> op.out, args |-> op.args, label |-> op.label]
  BY DEF Operation
<1>2. id \in {"X86_JMPCC", "X86_CMOV"} /\ (id = "X86_JMPCC" => op.id = "COND")
  BY DEF Conditionals
<1> HIDE DEF id
<1>3. new = [id |-> id, out |-> op.out, args |-> args, label |-> op.label]
  BY Rewritten, Zenon DEF new
<1> HIDE DEF new
<1>4. new \in Operation
  BY <1>1, <1>2, <1>3 DEF Operation, AnyId, FlagOps
<1>5. id \notin Compared
  BY <1>2, ComparedIds
<1>6. Fits(new)
  <2>1. new.id = id /\ new.out = op.out
    BY <1>3
  <2>2. id = "X86_JMPCC" => op.out = NoVar
    BY <1>2 DEF Fits
  <2>3. id \notin Conditionals
    BY <1>2 DEF Conditionals
  <2>4. QED
    BY <1>2, <1>5, <2>1, <2>2, <2>3 DEF Fits, FlagOps
<1>7. QED
  BY <1>2, <1>3, <1>4, <1>6 DEF new, id

LEMMA TestType ==
  ASSUME NEW op \in Operation, Fits(op), op.id \in Conditionals
  PROVE  LET new == Do("X86_CMP", <<op.args[1], Imm(0)>>) IN
         new \in Operation /\ Fits(new) /\ new.id = "X86_CMP"
<1> DEFINE args == <<op.args[1], Imm(0)>>
           new == Do("X86_CMP", args)
<1>1. op.args \in Seq(Arg)
  BY DEF Operation
<1>2. op.args[1] \in Arg
  <2>1. op.args # <<>>
    BY DEF Fits
  <2>2. 1 \in 1..Len(op.args)
    BY <1>1, <2>1
  <2>3. QED
    BY <1>1, <2>2, ElementOfSeq
<1>3. Imm(0) \in Arg
  BY LlirAssumption DEF Imm, Arg, Value, Num
<1>4. args \in Seq(Arg)
  BY <1>2, <1>3
<1> HIDE DEF args
<1>5. new = [id |-> "X86_CMP", out |-> NoVar, args |-> args, label |-> NoLabel]
  BY DEF Do
<1> HIDE DEF new
<1>6. new \in Operation
  BY <1>4, <1>5 DEF Operation, AnyId, FlagOps
<1>7. Fits(new)
  BY <1>5, Apart DEF Fits, FlagOps
<1>8. QED
  BY <1>5, <1>6, <1>7 DEF new, args

LEMMA CcType ==
  ASSUME NEW cc \in Codes
  PROVE  Cc(cc) \in Arg
  BY DEF Cc, Arg

LEMMA SetCcType ==
  ASSUME NEW v \in Vars \cup {NoVar}, NEW cc \in Codes
  PROVE  LET new == Assign("X86_SETCC", v, <<Cc(cc)>>) IN
         new \in Operation /\ Fits(new) /\ new.id = "X86_SETCC"
<1> DEFINE args == <<Cc(cc)>>
<1>1. args \in Seq(Arg)
  BY CcType
<1> HIDE DEF args
<1>2. Assign("X86_SETCC", v, args) = [id |-> "X86_SETCC", out |-> v, args |-> args, label |-> NoLabel]
  BY DEF Assign
<1>3. Assign("X86_SETCC", v, args) \in Operation
  BY <1>1, <1>2 DEF Operation, AnyId
<1>4. Fits(Assign("X86_SETCC", v, args))
  BY <1>2, Apart DEF Fits, FlagOps
<1>5. QED
  BY <1>2, <1>3, <1>4 DEF args

LEMMA CodesKnown ==
  ASSUME NEW id \in Comparisons
  PROVE  CcOf[id] \in Codes
  BY DEF Codes

LEMMA ComparisonsAreCompared == Comparisons = Compared
  BY ComparedIds DEF Comparisons, CcOf

--------------------------------------------------------------------------------
(***************************************************************************)
(* Every step keeps the invariant.                                          *)
(***************************************************************************)
LEMMA IInvFields ==
  ASSUME IInv
  PROVE  /\ prog \in Seq(Operation) /\ Len(prog) \in Nat
         /\ at \in 1..Len(prog) + 1 /\ look \in 0..Len(prog) + 1
         /\ cmp.out \in Vars \cup {NoVar} /\ cmp.cc \in Codes
         /\ \A i \in 1..Len(prog) : prog[i] \in Operation /\ Fits(prog[i])
  BY ElementOfSeq DEF IInv, Typed

LEMMA Initially == Init => IInv
<1> SUFFICES ASSUME Init PROVE IInv
  OBVIOUS
<1>1. prog \in Seq(SourceOp) /\ pass = "fuse" /\ at = 1 /\ look = 0 /\ cmp = [out |-> NoVar, cc |-> ""]
  BY ProgramsAssumption DEF Init
<1>2. \A i \in 1..Len(prog) : prog[i] \in Operation /\ Fits(prog[i])
  BY <1>1, ElementOfSeq, SourceOpType
<1>3. prog \in Seq(Operation) /\ Len(prog) \in Nat
  <2>1. \A i \in 1..Len(prog) : prog[i] \in Operation
    BY <1>2
  <2>2. prog \in Seq(SourceOp)
    BY <1>1
  <2>3. Len(prog) \in Nat
    BY <2>2
  <2>4. prog \in Seq(Operation)
    BY <2>1, <2>2, Widened
  <2>5. QED
    BY <2>3, <2>4
<1>4. cmp \in [out : Vars \cup {NoVar}, cc : Codes]
  <2>1. "" \in Codes
    BY DEF Codes
  <2>2. QED
    BY <1>1, <2>1
<1>5. Typed
  <2>1. Len(prog) \in Nat /\ at = 1 /\ look = 0
    BY <1>1, <1>3
  <2>2. at \in 1..Len(prog) + 1 /\ look \in 0..Len(prog) + 1
    BY <2>1
  <2>3. QED
    BY <1>1, <1>3, <1>4, <2>2 DEF Typed
<1>6. Loops /\ NoComparison /\ NoConditional
  <2>1. Len(prog) \in Nat /\ pass = "fuse" /\ at = 1 /\ look = 0
    BY <1>1, <1>3
  <2>2. QED
    BY <2>1 DEF Loops, NoComparison, NoConditional, Walked
<1>7. QED
  BY <1>2, <1>5, <1>6 DEF IInv

LEMMA CompareKeeps ==
  ASSUME IInv, Compare
  PROVE  IInv'
<1> DEFINE op == FlagsOp(prog[at])
<1>1. /\ pass = "fuse" /\ at <= Len(prog) /\ look = 0 /\ prog[at].id \in Comparisons
      /\ cmp' = [out |-> prog[at].out, cc |-> CcOf[prog[at].id]]
      /\ prog' = ReplaceAt(prog, at, op) /\ look' = at + 1 /\ pass' = "fuse" /\ at' = at
  BY DEF Compare, Walking, InPass
<1>2. at \in 1..Len(prog) /\ Len(prog) \in Nat /\ prog[at] \in Operation
  BY <1>1, IInvFields
<1>3. op \in Operation /\ Fits(op) /\ Converted(op)
  BY <1>1, <1>2, FlagsOpType, Apart DEF Converted, FlagOps
<1> HIDE DEF op
<1>4. /\ prog' \in Seq(Operation) /\ Len(prog') = Len(prog)
      /\ \A j \in 1..Len(prog) : prog'[j] = IF j = at THEN op ELSE prog[j]
  <2>1. prog \in Seq(Operation)
    BY IInvFields
  <2> DEFINE q == ReplaceAt(prog, at, op)
  <2>2. at \in 1..Len(prog) /\ op \in Operation
    BY <1>2, <1>3
  <2>3. /\ q \in Seq(Operation) /\ Len(q) = Len(prog)
        /\ \A j \in 1..Len(q) : q[j] = IF j = at THEN op ELSE prog[j]
    BY <2>1, <2>2, Replaced
  <2>4. prog' = q
    BY <1>1
  <2> HIDE DEF q
  <2>5. QED
    BY <2>3, <2>4
<1>5. cmp' \in [out : Vars \cup {NoVar}, cc : Codes]
  BY <1>1, <1>2, CodesKnown DEF Operation
<1>6. Typed' /\ Loops'
  BY <1>1, <1>2, <1>4, <1>5 DEF Typed, Loops
<1>7. NoComparison'
  <2>1. \A i \in 1..at - 1 : Converted(prog[i])
    BY <1>1, <1>2 DEF IInv, NoComparison, Walked
  <2>2. \A i \in 1..at : Converted(prog'[i])
    BY <1>2, <1>3, <1>4, <2>1
  <2>3. QED
    BY <1>1, <1>2, <1>4, <2>2 DEF NoComparison, Walked
<1>8. NoConditional'
  BY <1>1 DEF NoConditional
<1>9. \A i \in 1..Len(prog') : Fits(prog'[i])
  BY <1>3, <1>4, IInvFields
<1>10. QED
  BY <1>6, <1>7, <1>8, <1>9 DEF IInv

LEMMA SkipOtherKeeps ==
  ASSUME IInv, SkipOther
  PROVE  IInv'
<1>1. /\ pass = "fuse" /\ at <= Len(prog) /\ look = 0 /\ prog[at].id \notin Comparisons
      /\ at' = at + 1 /\ prog' = prog /\ pass' = pass /\ look' = look /\ cmp' = cmp
  BY DEF SkipOther, Walking, InPass
<1>2. at \in 1..Len(prog) /\ Len(prog) \in Nat
  BY <1>1, IInvFields
<1>3. Typed' /\ Loops' /\ NoConditional'
  BY <1>1, <1>2 DEF IInv, Typed, Loops, NoConditional
<1>4. NoComparison'
  BY <1>1, <1>2, ComparisonsAreCompared DEF IInv, NoComparison, Walked, Converted
<1>5. QED
  BY <1>1, <1>3, <1>4 DEF IInv

\* Whatever the condition is, the operation that results still fits.
LEMMA FusedType ==
  ASSUME IInv, NEW op \in Operation, Fits(op), op.id \in Conditionals
  PROVE  Fused(op) \in Operation /\ Fits(Fused(op)) /\ Converted(Fused(op))
<1> DEFINE args == [op.args EXCEPT ![1] = Cc(cmp.cc)]
           id == IF op.id = "COND" THEN "X86_JMPCC" ELSE "X86_CMOV"
<1>1. op.args \in Seq(Arg) /\ Cc(cmp.cc) \in Arg
  BY IInvFields, CcType DEF Operation
<1>2. args \in Seq(Arg)
  <2> DEFINE old == op.args
             new == Cc(cmp.cc)
  <2>1. old \in Seq(Arg) /\ new \in Arg
    BY <1>1
  <2> HIDE DEF old, new
  <2>2. [old EXCEPT ![1] = new] \in Seq(Arg)
    <3>1. [old EXCEPT ![1] = new] = [i \in 1..Len(old) |-> IF i = 1 THEN new ELSE old[i]] /\ Len(old) \in Nat
      BY <2>1
    <3>2. \A i \in 1..Len(old) : (IF i = 1 THEN new ELSE old[i]) \in Arg
      BY <2>1, ElementOfSeq
    <3>3. [i \in 1..Len(old) |-> IF i = 1 THEN new ELSE old[i]] \in Seq(Arg)
      BY <3>1, <3>2, IsASeq
    <3>4. QED
      BY <3>1, <3>3
  <2>3. QED
    BY <2>2 DEF old, new
<1> HIDE DEF args
<1>3. Fused_All(op) = [op EXCEPT !.id = id, !.args = args]
  BY Zenon DEF Fused_All, args, id
<1>4. Fused_All(op) \in Operation /\ Fits(Fused_All(op)) /\ Fused_All(op).id \in {"X86_JMPCC", "X86_CMOV"}
  <2> DEFINE new == [op EXCEPT !.id = id, !.args = args]
  <2>1. new \in Operation /\ Fits(new) /\ new.id \in {"X86_JMPCC", "X86_CMOV"}
    BY <1>2, FlagReader, Zenon
  <2> HIDE DEF new
  <2>2. Fused_All(op) = new
    BY <1>3 DEF new
  <2>3. QED
    BY <2>1, <2>2, Zenon
<1>5. Converted(op) /\ Converted(Fused_All(op))
  BY <1>4, Apart DEF Converted, FlagOps
<1>6. QED
  BY <1>4, <1>5 DEF Fused

LEMMA FuseKeeps ==
  ASSUME IInv, Fuse
  PROVE  IInv'
<1> DEFINE op == Fused(prog[look])
<1>1. /\ pass = "fuse" /\ look > 0 /\ look <= Len(prog) /\ prog[look].id \in Conditionals
      /\ prog' = ReplaceAt(prog, look, op) /\ look' = look + 1
      /\ pass' = pass /\ at' = at /\ cmp' = cmp
  BY DEF Fuse, Looking
<1>2. look \in 1..Len(prog) /\ Len(prog) \in Nat /\ at \in 1..Len(prog) /\ at < look
  BY <1>1, IInvFields DEF IInv, Loops
<1>3. op \in Operation /\ Fits(op) /\ Converted(op)
  BY <1>1, <1>2, IInvFields, FusedType
<1> HIDE DEF op
<1>4. /\ prog' \in Seq(Operation) /\ Len(prog') = Len(prog)
      /\ \A j \in 1..Len(prog) : prog'[j] = IF j = look THEN op ELSE prog[j]
  <2>1. prog \in Seq(Operation)
    BY IInvFields
  <2> DEFINE q == ReplaceAt(prog, look, op)
  <2>2. look \in 1..Len(prog) /\ op \in Operation
    BY <1>2, <1>3
  <2>3. /\ q \in Seq(Operation) /\ Len(q) = Len(prog)
        /\ \A j \in 1..Len(q) : q[j] = IF j = look THEN op ELSE prog[j]
    BY <2>1, <2>2, Replaced
  <2>4. prog' = q
    BY <1>1
  <2> HIDE DEF q
  <2>5. QED
    BY <2>3, <2>4
<1>5. Typed' /\ Loops' /\ NoConditional'
  BY <1>1, <1>2, <1>4 DEF IInv, Typed, Loops, NoConditional
<1>6. NoComparison'
  BY <1>1, <1>2, <1>3, <1>4 DEF IInv, NoComparison, Walked
<1>7. \A i \in 1..Len(prog') : Fits(prog'[i])
  BY <1>3, <1>4, IInvFields
<1>8. QED
  BY <1>5, <1>6, <1>7 DEF IInv

LEMMA LookOnKeeps ==
  ASSUME IInv, LookOn
  PROVE  IInv'
<1>1. /\ pass = "fuse" /\ look > 0 /\ look <= Len(prog)
      /\ prog' = prog /\ look' = look + 1 /\ pass' = pass /\ at' = at /\ cmp' = cmp
  BY DEF LookOn, Looking
<1>2. look \in 1..Len(prog) /\ Len(prog) \in Nat /\ at \in 1..Len(prog) /\ at < look
  BY <1>1, IInvFields DEF IInv, Loops
<1>3. Typed' /\ Loops' /\ NoConditional'
  BY <1>1, <1>2 DEF IInv, Typed, Loops, NoConditional
<1>4. NoComparison'
  BY <1>1, <1>2 DEF IInv, NoComparison, Walked
<1>5. QED
  BY <1>1, <1>3, <1>4 DEF IInv

\* The output is set behind the comparison, in front of all that is unseen.
LEMMA StopLookingKeeps ==
  ASSUME IInv, StopLooking
  PROVE  IInv'
<1> DEFINE op == Assign("X86_SETCC", cmp.out, <<Cc(cmp.cc)>>)
<1>1. /\ pass = "fuse" /\ look > 0 /\ prog' = InsertAfter(prog, at, op) /\ look' = 0 /\ at' = at + 1
      /\ pass' = pass /\ cmp' = cmp
  BY DEF StopLooking, Looking, SetCc
<1>2. Len(prog) \in Nat /\ at \in 1..Len(prog)
  BY <1>1, IInvFields DEF IInv, Loops
<1>3. op \in Operation /\ Fits(op) /\ op.id = "X86_SETCC"
  BY IInvFields, SetCcType
<1>4. Converted(op)
  BY <1>3, Apart DEF Converted
<1> HIDE DEF op
<1>5. /\ prog' \in Seq(Operation) /\ Len(prog') = Len(prog) + 1
      /\ \A j \in 1..Len(prog) + 1 :
           prog'[j] = IF j <= at THEN prog[j] ELSE IF j = at + 1 THEN op ELSE prog[j - 1]
  <2>1. at \in 0..Len(prog) /\ prog \in Seq(Operation)
    BY <1>2, IInvFields
  <2> DEFINE q == InsertAfter(prog, at, op)
  <2>2. /\ q \in Seq(Operation) /\ Len(q) = Len(prog) + 1
        /\ \A j \in 1..Len(q) :
             q[j] = IF j <= at THEN prog[j] ELSE IF j = at + 1 THEN op ELSE prog[j - 1]
    BY <1>3, <2>1, Inserted
  <2>3. prog' = q
    BY <1>1
  <2> HIDE DEF q
  <2>4. QED
    BY <2>2, <2>3
<1>6. Typed' /\ Loops' /\ NoConditional'
  BY <1>1, <1>2, <1>5 DEF IInv, Typed, Loops, NoConditional
<1>7. NoComparison'
  <2>1. \A i \in 1..at : Converted(prog[i])
    BY <1>1, <1>2 DEF IInv, NoComparison, Walked
  <2>2. \A i \in 1..at + 1 : i \in 1..Len(prog) + 1
    BY <1>2
  <2>3. \A i \in 1..at : Converted(prog'[i])
    BY <1>2, <1>5, <2>1, <2>2
  <2>4. QED
    BY <1>1, <1>2, <1>5, <2>3 DEF NoComparison, Walked
<1>8. ASSUME NEW i \in 1..Len(prog')
      PROVE  Fits(prog'[i])
  <2>1. i \in 1..Len(prog) + 1
    BY <1>5
  <2>2. CASE i <= at
    BY <1>2, <1>5, <2>1, <2>2, IInvFields
  <2>3. CASE i = at + 1
    BY <1>2, <1>3, <1>5, <2>1, <2>3
  <2>4. CASE i > at + 1
    <3>1. i - 1 \in 1..Len(prog) /\ prog'[i] = prog[i - 1]
      BY <1>2, <1>5, <2>1, <2>4
    <3>2. QED
      BY <3>1, IInvFields
  <2>5. QED
    BY <1>2, <2>1, <2>2, <2>3, <2>4
<1>9. QED
  BY <1>6, <1>7, <1>8 DEF IInv

LEMMA TestVarKeeps ==
  ASSUME IInv, TestVar
  PROVE  IInv'
<1> DEFINE op == prog[at]
           args == Append(op.args, Cc("ne"))
           tested == [op EXCEPT !.id = IF op.id = "COND" THEN "X86_JMPCC" ELSE "X86_CMOV", !.args = args]
           test == Do("X86_CMP", <<op.args[1], Imm(0)>>)
           replaced == ReplaceAt(prog, at, tested)
           new == InsertAfter(replaced, at - 1, test)
<1>1. /\ pass = "rest" /\ at <= Len(prog) /\ prog[at].id \in Conditionals
      /\ prog' = InsertAfter(ReplaceAt(prog, at,
                     [prog[at] EXCEPT !.id = IF @ = "COND" THEN "X86_JMPCC" ELSE "X86_CMOV",
                                      !.args = Append(@, Cc("ne"))]), at - 1,
                   Do("X86_CMP", <<prog[at].args[1], Imm(0)>>))
      /\ at' = at + 2 /\ pass' = pass /\ look' = look /\ cmp' = cmp
  BY DEF TestVar, InPass
<1>2. prog' = new
  BY <1>1
<1>3. at \in 1..Len(prog) /\ Len(prog) \in Nat /\ prog \in Seq(Operation) /\ look = 0
  BY <1>1, IInvFields DEF IInv, Loops
<1>4. op \in Operation /\ Fits(op) /\ op.id \in Conditionals
  BY <1>1, <1>3, IInvFields
<1>5. tested \in Operation /\ Fits(tested) /\ tested.id \in {"X86_JMPCC", "X86_CMOV"}
  <2>1. "ne" \in Codes
    BY DEF Codes
  <2>2. args \in Seq(Arg)
    BY <1>4, <2>1, CcType DEF Operation
  <2>3. QED
    BY <1>4, <2>2, FlagReader, Zenon
<1>6. test \in Operation /\ Fits(test) /\ test.id = "X86_CMP"
  BY <1>4, TestType
<1> HIDE DEF tested, test
<1>7. /\ replaced \in Seq(Operation) /\ Len(replaced) = Len(prog)
      /\ \A j \in 1..Len(prog) : replaced[j] = IF j = at THEN tested ELSE prog[j]
  <2>1. at \in 1..Len(prog) /\ tested \in Operation
    BY <1>3, <1>5
  <2>2. prog \in Seq(Operation)
    BY <1>3
  <2>3. /\ replaced \in Seq(Operation) /\ Len(replaced) = Len(prog)
        /\ \A j \in 1..Len(replaced) : replaced[j] = IF j = at THEN tested ELSE prog[j]
    BY <2>1, <2>2, Replaced
  <2> HIDE DEF replaced
  <2>4. QED
    BY <2>3
<1> HIDE DEF replaced
<1>8. /\ new \in Seq(Operation) /\ Len(new) = Len(prog) + 1
      /\ \A j \in 1..Len(prog) + 1 :
           new[j] = IF j <= at - 1 THEN replaced[j] ELSE IF j = at - 1 + 1 THEN test ELSE replaced[j - 1]
  <2> DEFINE i == at - 1
  <2>1. i \in 0..Len(replaced) /\ test \in Operation /\ i + 1 = at
    BY <1>3, <1>6, <1>7
  <2>2. new = InsertAfter(replaced, i, test)
    OBVIOUS
  <2>3. replaced \in Seq(Operation)
    BY <1>7
  <2> HIDE DEF i, new
  <2>4. LET q == InsertAfter(replaced, i, test) IN
        /\ q \in Seq(Operation) /\ Len(q) = Len(replaced) + 1
        /\ \A j \in 1..Len(q) :
             q[j] = IF j <= i THEN replaced[j] ELSE IF j = i + 1 THEN test ELSE replaced[j - 1]
    BY <2>1, <2>3, Inserted
  <2>5. /\ new \in Seq(Operation) /\ Len(new) = Len(replaced) + 1
        /\ \A j \in 1..Len(new) :
             new[j] = IF j <= i THEN replaced[j] ELSE IF j = i + 1 THEN test ELSE replaced[j - 1]
    BY <2>2, <2>4, Zenon
  <2>6. QED
    BY <1>7, <2>5 DEF i
<1> HIDE DEF new
<1>9. /\ prog' \in Seq(Operation) /\ Len(prog') = Len(prog) + 1
      /\ \A j \in 1..at - 1 : prog'[j] = prog[j]
      /\ prog'[at] = test /\ prog'[at + 1] = tested
      /\ \A j \in at + 2..Len(prog) + 1 : prog'[j] = prog[j - 1] /\ j - 1 \in 1..Len(prog)
  <2>1. prog' \in Seq(Operation) /\ Len(prog') = Len(prog) + 1
    BY <1>2, <1>8
  <2>2. ASSUME NEW j \in 1..at - 1 PROVE prog'[j] = prog[j]
    <3>1. j \in 1..Len(prog) /\ j \in 1..Len(prog) + 1 /\ j <= at - 1 /\ j # at
      BY <1>3
    <3>2. QED
      BY <1>2, <1>7, <1>8, <3>1
  <2>3. prog'[at] = test
    <3>1. at \in 1..Len(prog) + 1 /\ ~(at <= at - 1) /\ at = at - 1 + 1
      BY <1>3
    <3>2. QED
      BY <1>2, <1>8, <3>1
  <2>4. prog'[at + 1] = tested
    <3>1. /\ at + 1 \in 1..Len(prog) + 1 /\ ~(at + 1 <= at - 1) /\ at + 1 # at - 1 + 1 /\ at + 1 - 1 = at
          /\ at \in 1..Len(prog)
      BY <1>3
    <3>2. QED
      BY <1>2, <1>7, <1>8, <3>1
  <2>5. ASSUME NEW j \in at + 2..Len(prog) + 1
        PROVE  prog'[j] = prog[j - 1] /\ j - 1 \in 1..Len(prog)
    <3>1. /\ j \in 1..Len(prog) + 1 /\ ~(j <= at - 1) /\ j # at - 1 + 1
          /\ j - 1 \in 1..Len(prog) /\ j - 1 # at
      BY <1>3
    <3>2. QED
      BY <1>2, <1>7, <1>8, <3>1
  <2>6. QED
    BY <2>1, <2>2, <2>3, <2>4, <2>5
<1>10. Typed' /\ Loops'
  BY <1>1, <1>3, <1>9 DEF IInv, Typed, Loops
\* Every operation is a new one or was there before.
<1>11. ASSUME NEW i \in 1..Len(prog')
       PROVE  \/ prog'[i] \in {test, tested} /\ i \in {at, at + 1}
              \/ \E j \in 1..Len(prog) : prog'[i] = prog[j] /\ (i < at => j = i) /\ (i > at + 1 => j = i - 1)
                                         /\ i \notin {at, at + 1}
  <2>1. i \in Int /\ 1 <= i /\ i <= Len(prog) + 1
    BY <1>3, <1>9
  <2>2. CASE i < at
    BY <1>3, <1>9, <2>1, <2>2
  <2>3. CASE i \in {at, at + 1}
    BY <1>9, <2>3
  <2>4. CASE i > at + 1
    <3>1. i \in at + 2..Len(prog) + 1 /\ ~(i < at) /\ i \notin {at, at + 1}
      BY <1>3, <2>1, <2>4
    <3>2. prog'[i] = prog[i - 1] /\ i - 1 \in 1..Len(prog)
      BY <1>9, <3>1
    <3>3. QED
      BY <3>1, <3>2
  <2>5. QED
    BY <1>3, <2>1, <2>2, <2>3, <2>4
<1>12. Converted(test) /\ Converted(tested) /\ test.id \notin Conditionals /\ tested.id \notin Conditionals
  BY <1>5, <1>6, Apart DEF Converted, FlagOps
<1>13. NoComparison'
  <2>1. \A j \in 1..Len(prog) : Converted(prog[j])
    BY <1>1 DEF IInv, NoComparison
  <2>2. ASSUME NEW i \in 1..Len(prog') PROVE Converted(prog'[i])
    BY <1>11, <1>12, <2>1
  <2>3. ASSUME NEW i \in 1..Len(prog') PROVE Converted(prog[i])'
    BY <2>2 DEF Converted
  <2>4. QED
    BY <2>3 DEF NoComparison
<1>14. NoConditional'
  <2>1. \A j \in 1..Len(prog) : j < at => prog[j].id \notin Conditionals
    BY <1>1 DEF IInv, NoConditional
  <2>2. ASSUME NEW i \in 1..Len(prog'), i < at + 2 PROVE prog'[i].id \notin Conditionals
    <3>1. CASE i \in {at, at + 1}
      BY <1>11, <1>12, <3>1
    <3>2. CASE i \notin {at, at + 1}
      <4>1. i < at /\ i \in 1..at - 1 /\ i \in 1..Len(prog)
        BY <1>3, <1>9, <2>2, <3>2
      <4>2. QED
        BY <1>9, <2>1, <4>1
    <3>3. QED
      BY <3>1, <3>2
  <2>3. QED
    BY <1>1, <2>2 DEF NoConditional
<1>15. ASSUME NEW i \in 1..Len(prog') PROVE Fits(prog'[i])
  BY <1>5, <1>6, <1>11, IInvFields
<1>16. QED
  BY <1>10, <1>13, <1>14, <1>15 DEF IInv

LEMMA KeepOtherKeeps ==
  ASSUME IInv, KeepOther
  PROVE  IInv'
<1>1. /\ pass = "rest" /\ at <= Len(prog) /\ prog[at].id \notin Conditionals
      /\ at' = at + 1 /\ prog' = prog /\ pass' = pass /\ look' = look /\ cmp' = cmp
  BY DEF KeepOther, InPass
<1>2. at \in 1..Len(prog) /\ Len(prog) \in Nat
  BY <1>1, IInvFields
<1>3. Typed' /\ Loops' /\ NoComparison'
  BY <1>1, <1>2 DEF IInv, Typed, Loops, NoComparison
<1>4. NoConditional'
  BY <1>1, <1>2 DEF IInv, NoConditional
<1>5. QED
  BY <1>1, <1>3, <1>4 DEF IInv

LEMMA RemoveOneKeeps ==
  ASSUME IInv, RemoveOne
  PROVE  IInv'
<1>1. /\ pass = "unused" /\ at <= Len(prog) /\ pass' = pass /\ look' = look /\ cmp' = cmp
      /\ \/ prog' = RemoveAt(prog, at) /\ at' = at
         \/ prog' = prog /\ at' = at + 1
  BY DEF RemoveOne, InPass
<1>2. at \in 1..Len(prog) /\ Len(prog) \in Nat /\ prog \in Seq(Operation) /\ look = 0
  BY <1>1, IInvFields DEF IInv, Loops
<1>3. CASE prog' = prog /\ at' = at + 1
  <2>1. Typed' /\ Loops' /\ NoComparison' /\ NoConditional'
    BY <1>1, <1>2, <1>3 DEF IInv, Typed, Loops, NoComparison, NoConditional
  <2>2. QED
    BY <1>3, <2>1 DEF IInv
<1>4. CASE prog' = RemoveAt(prog, at) /\ at' = at
  <2> DEFINE q == RemoveAt(prog, at)
  <2>1. /\ q \in Seq(Operation) /\ Len(q) = Len(prog) - 1
        /\ \A j \in 1..Len(q) : q[j] = IF j < at THEN prog[j] ELSE prog[j + 1]
    BY <1>2, Removed
  <2>2. prog' = q
    BY <1>4
  <2> HIDE DEF q
  <2>3. Typed' /\ Loops'
    BY <1>1, <1>2, <1>4, <2>1, <2>2 DEF IInv, Typed, Loops
  <2>4. ASSUME NEW i \in 1..Len(prog')
        PROVE  \E j \in 1..Len(prog) : prog'[i] = prog[j]
    <3>1. i \in 1..Len(prog) /\ i + 1 \in 1..Len(prog)
      BY <1>2, <2>1, <2>2
    <3>2. prog'[i] = prog[i] \/ prog'[i] = prog[i + 1]
      BY <2>1, <2>2
    <3>3. QED
      BY <3>1, <3>2
  <2>5. \A i \in 1..Len(prog) : Converted(prog[i]) /\ prog[i].id \notin Conditionals
    BY <1>1 DEF IInv, NoComparison, NoConditional
  <2>6. NoComparison' /\ NoConditional'
    BY <2>4, <2>5 DEF NoComparison, NoConditional, Converted
  <2>7. \A i \in 1..Len(prog') : Fits(prog'[i])
    BY <2>4, IInvFields
  <2>8. QED
    BY <2>3, <2>6, <2>7 DEF IInv
<1>5. QED
  BY <1>1, <1>3, <1>4

LEMMA NextPassKeeps ==
  ASSUME IInv, NextPass
  PROVE  IInv'
<1>1. /\ pass # "done" /\ at > Len(prog) /\ at' = 1 /\ prog' = prog /\ look' = look /\ cmp' = cmp
      /\ pass' = [fuse |-> "rest", rest |-> "unused", unused |-> "done"][pass]
  BY DEF NextPass
<1>2. Len(prog) \in Nat /\ at = Len(prog) + 1 /\ pass \in {"fuse", "rest", "unused"}
  BY <1>1, IInvFields DEF IInv, Typed
<1>3. look = 0
  BY <1>1, <1>2, IInvFields DEF IInv, Loops
<1>4. /\ pass = "fuse" => pass' = "rest"
      /\ pass = "rest" => pass' = "unused"
      /\ pass = "unused" => pass' = "done"
  BY <1>1
<1>5. \A i \in 1..Len(prog) : Converted(prog[i])
  BY <1>2, <1>3 DEF IInv, NoComparison, Walked
<1>6. \A i \in 1..Len(prog) : pass # "fuse" => prog[i].id \notin Conditionals
  BY <1>2 DEF IInv, NoConditional
<1>7. Typed' /\ Loops'
  BY <1>1, <1>2, <1>3, <1>4 DEF IInv, Typed, Loops
<1>8. NoComparison'
  BY <1>1, <1>5 DEF NoComparison, Converted
<1>9. NoConditional'
  BY <1>1, <1>2, <1>4, <1>6 DEF NoConditional
<1>10. QED
  BY <1>1, <1>7, <1>8, <1>9 DEF IInv

LEMMA Inductive == IInv /\ [Next]_vars => IInv'
<1> SUFFICES ASSUME IInv, [Next]_vars PROVE IInv'
  OBVIOUS
<1>1. CASE UNCHANGED vars
  BY <1>1 DEF vars, IInv, Typed, Loops, NoComparison, NoConditional, Walked
<1>2. QED
  BY <1>1, CompareKeeps, SkipOtherKeeps, FuseKeeps, LookOnKeeps, StopLookingKeeps, TestVarKeeps,
     KeepOtherKeeps, RemoveOneKeeps, NextPassKeeps DEF Next

LEMMA Always == Spec => []IInv
  BY Initially, Inductive, PTL DEF Spec

--------------------------------------------------------------------------------
(***************************************************************************)
(* The properties.                                                          *)
(***************************************************************************)

\* The walks stay within the block they grow and shrink, and a conditional jump
\* or an operation that only sets the flags never has an output
\* (llir_conditionals.c:4-86).
THEOREM TypesKept == Spec => []TypeOK
<1>1. IInv => TypeOK
  <2> SUFFICES ASSUME IInv PROVE TypeOK
    OBVIOUS
  <2>1. DOMAIN prog = 1..Len(prog)
    BY IInvFields
  <2>2. \A i \in DOMAIN prog :
          prog[i].id \in {"X86_CMP", "X86_BITTEST", "X86_JMPCC"} => prog[i].out = NoVar
    BY <2>1, IInvFields DEF Fits, FlagOps
  <2>3. QED
    BY <2>2, IInvFields DEF IInv, Typed, TypeOK
<1>2. QED
  BY <1>1, Always, PTL

\* Code generation meets no comparison and no conditional (cg.c:1309): the
\* walks leave none behind, in any block and whatever they insert.
THEOREM AllConvertedAlways == Spec => []AllConverted
<1>1. IInv => AllConverted
  <2> SUFFICES ASSUME IInv PROVE AllConverted
    OBVIOUS
  <2>1. DOMAIN prog = 1..Len(prog) /\ Len(prog) \in Nat /\ at \in 1..Len(prog) + 1
    BY IInvFields
  <2>2. pass \in {"fuse", "rest", "unused", "done"}
    BY DEF IInv, Typed
  <2>3. ASSUME NEW i \in 1..Len(prog), pass = "fuse" => look = 0 /\ i < at
        PROVE  prog[i].id \notin Compared
    BY <2>1, <2>3 DEF IInv, NoComparison, Walked, Converted
  <2>4. ASSUME NEW i \in 1..Len(prog), pass # "fuse", pass = "rest" => i < at
        PROVE  prog[i].id \notin Conditionals
    BY <2>2, <2>4 DEF IInv, NoConditional
  <2>5. QED
    BY <2>1, <2>3, <2>4 DEF AllConverted
<1>2. QED
  BY <1>1, Always, PTL

--------------------------------------------------------------------------------
(***************************************************************************)
(* The machine with flags, one step at a time.                              *)
(***************************************************************************)
CcArg == [kind : {"cc"}, cc : Codes]

\* The operations of a block all of whose conditionals have been fused, or
\* will be: no bit tests, and no conditional that tests a variable.
CmpOps == [id : {"X86_CMP"}, out : {NoVar}, args : Tuples(2), label : {NoLabel}]
SetccOps == [id : {"X86_SETCC"}, out : Vars, args : {<<c>> : c \in CcArg}, label : {NoLabel}]
JmpccOps == [id : {"X86_JMPCC"}, out : {NoVar}, args : {<<c>> : c \in CcArg}, label : Labels]
CmovOps == [id : {"X86_CMOV"}, out : Vars, args : {<<c, v>> : c \in CcArg, v \in Value}, label : {NoLabel}]
OpX86 == {op \in SourceOp : op.id # "BITEXTRACT"} \cup CmpOps \cup SetccOps \cup JmpccOps \cup CmovOps

JumpsX86 == Jumps \cup {"X86_JMPCC"}

CodeX86 ==
  {p \in Seq(OpX86) :
     /\ Leaves(p) /\ LabelsUnique(p)
     /\ \A i \in 1..Len(p) : p[i].id \in JumpsX86 => Declared(p, p[i].label)}

Flags == {Clobbered} \cup [by : {"cmp"}, a : Num, b : Num]

\* -1 is what a block that reads flags nobody has set is lost with.
Shown == Num \cup {-1}
StatesX86(p) ==
  [pc : 1..Len(p), env : [Vars -> Num], trace : Seq(Shown), done : BOOLEAN, flags : Flags]
StepX86(p) == [s \in StatesX86(p) |-> ExecX86(p, s)]

\* A step by what it does to each part of the state.
Loses(op, flags) == op.id \in FlagReaders /\ flags.by # "cmp"
Sets(op, flags) ==
  \/ op.id \in Pure \cup Compared
  \/ op.id = "X86_SETCC" /\ flags.by = "cmp"
  \/ op.id = "X86_CMOV" /\ flags.by = "cmp" /\ Holds(flags, op.args[1])
Jumped(op, env, flags) ==
  \/ op.id = "GOTO"
  \/ op.id = "COND" /\ Eval(env, op.args[1]) # 0
  \/ op.id = "X86_JMPCC" /\ flags.by = "cmp" /\ Holds(flags, op.args[1])

ValueSet(op, env, flags) ==
  IF op.id \in Compared THEN CompareResult(env, op)
  ELSE IF op.id = "X86_SETCC" THEN ToNum(Holds(flags, op.args[1]))
  ELSE IF op.id = "X86_CMOV" THEN Eval(env, op.args[2])
  ELSE Result(env, op)
EnvNext(op, env, flags) ==
  IF Sets(op, flags) THEN [env EXCEPT ![op.out] = ValueSet(op, env, flags)] ELSE env
FlagsNext(op, env, flags) ==
  IF op.id = "X86_CMP" THEN FlagsAfter(env, op) ELSE IF ClobbersFlags(op) THEN Clobbered ELSE flags
TraceNext(op, env, flags, trace) ==
  IF Loses(op, flags) THEN Append(trace, -1)
  ELSE IF op.id = "STORE" THEN Append(trace, Eval(env, op.args[1]))
  ELSE IF op.id = "RETURN" THEN trace \o [i \in DOMAIN op.args |-> Eval(env, op.args[i])]
  ELSE trace
Stops(op, flags) == Loses(op, flags) \/ op.id = "RETURN"

Parts(op, s, n) ==
  /\ n.flags = FlagsNext(op, s.env, s.flags)
  /\ n.env = EnvNext(op, s.env, s.flags)
  /\ n.trace = TraceNext(op, s.env, s.flags, s.trace)
  /\ n.done \in BOOLEAN /\ (n.done <=> Stops(op, s.flags))
  /\ n = [pc |-> n.pc, env |-> n.env, trace |-> n.trace, done |-> n.done, flags |-> n.flags]
Effect(p, op, s, n) ==
  /\ Parts(op, s, n)
  /\ n.pc = IF Jumped(op, s.env, s.flags) THEN LabelAt(p, op.label)
            ELSE IF Stops(op, s.flags) THEN s.pc ELSE s.pc + 1

LEMMA OpX86Fields ==
  ASSUME NEW op \in OpX86
  PROVE  /\ op.id \in Ids \cup Compared \cup {"X86_CMP"} \cup FlagReaders
         /\ op.id \in Ids => op \in Op
         /\ op.id \in Pure \cup Compared \cup {"X86_SETCC", "X86_CMOV"} => op.out \in Vars
         /\ op.id \in Compared \cup {"X86_CMP"} =>
              op.args \in Seq(Value) /\ Len(op.args) = 2 /\ op.args[1] \in Value /\ op.args[2] \in Value
         /\ op.id \in FlagReaders => op.args[1].kind = "cc" /\ op.args[1] \in CcArg
         /\ op.id \in {"X86_SETCC", "X86_JMPCC"} => op.args = <<op.args[1]>>
         /\ op.id = "X86_CMOV" => op.args = <<op.args[1], op.args[2]>> /\ op.args[2] \in Value
         /\ op.id \in JumpsX86 \cup {"LABEL"} => op.label \in Labels
         /\ op.id = "CMOV" => Len(op.args) = 2
<1>1. CASE op \in Op /\ (op.id = "CMOV" => op.args \in Tuples(2))
  <2>1. op.id \in Ids
    BY <1>1, OpFields
  <2>2. op.id \notin Compared \cup {"X86_CMP"} \cup FlagReaders
    BY <2>1, ComparedIds DEF Ids, Pure, Jumps, FlagReaders
  <2>3. op.id = "CMOV" => Len(op.args) = 2
    BY <1>1, TuplesType
  <2>4. op.id \in Pure => op.out \in Vars
    BY <1>1, OpFields
  <2>5. op.id \in Jumps \cup {"LABEL"} => op.label \in Labels
    BY <1>1, OpFields
  <2>6. QED
    BY <1>1, <2>1, <2>2, <2>3, <2>4, <2>5 DEF JumpsX86, FlagReaders
<1>2. CASE op \in [id : Compared, out : Vars, args : Tuples(2), label : {NoLabel}]
  <2>1. op.id \in Compared /\ op.out \in Vars
    BY <1>2
  <2>2. op.args \in Seq(Value) /\ Len(op.args) = 2
    BY <1>2, TuplesType
  <2>3. op.args[1] \in Value /\ op.args[2] \in Value
    BY <2>2
  <2>4. op.id \notin Ids \cup FlagReaders \cup JumpsX86
    BY <2>1, ComparedIds DEF Ids, Pure, Jumps, FlagReaders, JumpsX86
  <2>5. QED
    BY <2>1, <2>2, <2>3, <2>4 DEF Ids, FlagReaders
<1>3. CASE op \in CmpOps
  <2>1. op.id = "X86_CMP"
    BY <1>3 DEF CmpOps
  <2>2. op.args \in Seq(Value) /\ Len(op.args) = 2
    BY <1>3, TuplesType DEF CmpOps
  <2>3. op.args[1] \in Value /\ op.args[2] \in Value
    BY <2>2
  <2>4. op.id \notin Ids \cup FlagReaders \cup JumpsX86 \cup Compared
    BY <2>1, ComparedIds DEF Ids, Pure, Jumps, FlagReaders, JumpsX86
  <2>5. QED
    BY <2>1, <2>2, <2>3, <2>4 DEF Ids, FlagReaders
<1>4. CASE op \in SetccOps
  <2>1. op.id = "X86_SETCC" /\ op.out \in Vars
    BY <1>4 DEF SetccOps
  <2>2. PICK c \in CcArg : op.args = <<c>>
    BY <1>4 DEF SetccOps
  <2>3. op.args[1] = c /\ c.kind = "cc"
    BY <2>2 DEF CcArg
  <2>4. op.id \notin Ids \cup JumpsX86 \cup Compared
    BY <2>1, ComparedIds DEF Ids, Pure, Jumps, FlagReaders, JumpsX86
  <2>5. QED
    BY <2>1, <2>2, <2>3, <2>4 DEF Ids, FlagReaders
<1>5. CASE op \in JmpccOps
  <2>1. op.id = "X86_JMPCC" /\ op.label \in Labels
    BY <1>5 DEF JmpccOps
  <2>2. PICK c \in CcArg : op.args = <<c>>
    BY <1>5 DEF JmpccOps
  <2>3. op.args[1] = c /\ c.kind = "cc"
    BY <2>2 DEF CcArg
  <2>4. op.id \notin Ids \cup Compared
    BY <2>1, ComparedIds DEF Ids, Pure, Jumps, FlagReaders, JumpsX86
  <2>5. QED
    BY <2>1, <2>2, <2>3, <2>4 DEF Ids, FlagReaders, Pure
<1>6. CASE op \in CmovOps
  <2>1. op.id = "X86_CMOV" /\ op.out \in Vars
    BY <1>6 DEF CmovOps
  <2>2. PICK c \in CcArg, v \in Value : op.args = <<c, v>>
    BY <1>6 DEF CmovOps
  <2>3. op.args[1] = c /\ c.kind = "cc" /\ op.args[2] = v
    BY <2>2 DEF CcArg
  <2>4. op.id \notin Ids \cup JumpsX86 \cup Compared
    BY <2>1, ComparedIds DEF Ids, Pure, Jumps, FlagReaders, JumpsX86
  <2>5. QED
    BY <2>1, <2>2, <2>3, <2>4 DEF Ids, FlagReaders
<1>7. QED
  BY <1>1, <1>2, <1>3, <1>4, <1>5, <1>6 DEF OpX86, SourceOp

LEMMA NoBitTest ==
  ASSUME NEW op \in OpX86
  PROVE  op.id # "BITEXTRACT"
<1>1. CASE op \in {o \in SourceOp : o.id # "BITEXTRACT"}
  BY <1>1
<1>2. CASE op \in CmpOps
  BY <1>2 DEF CmpOps
<1>3. CASE op \in SetccOps
  BY <1>3 DEF SetccOps
<1>4. CASE op \in JmpccOps
  BY <1>4 DEF JmpccOps
<1>5. CASE op \in CmovOps
  BY <1>5 DEF CmovOps
<1>6. QED
  BY <1>1, <1>2, <1>3, <1>4, <1>5 DEF OpX86

LEMMA CodeX86Type ==
  ASSUME NEW p \in CodeX86
  PROVE  /\ p \in Seq(OpX86) /\ Len(p) \in Nat \ {0} /\ DOMAIN p = 1..Len(p)
         /\ \A i \in 1..Len(p) : p[i] \in OpX86
         /\ EndsFlow(p[Len(p)])
         /\ LabelsUnique(p)
         /\ \A i \in 1..Len(p) : p[i].id \in JumpsX86 => Declared(p, p[i].label)
  BY DEF CodeX86, Leaves, Last

LEMMA StateX86Fields ==
  ASSUME NEW p \in CodeX86, NEW s \in StatesX86(p)
  PROVE  /\ s.pc \in 1..Len(p) /\ s.env \in [Vars -> Num] /\ s.trace \in Seq(Shown) /\ s.done \in BOOLEAN
         /\ s.flags \in Flags
         /\ s = [pc |-> s.pc, env |-> s.env, trace |-> s.trace, done |-> s.done, flags |-> s.flags]
         /\ p[s.pc] \in OpX86
  BY CodeX86Type DEF StatesX86

LEMMA ClobbersWhat ==
  ASSUME NEW op, ClobbersFlags(op)
  PROVE  op.id \in {"ADD", "SUB", "X86_BITTEST", "IMM"}
  BY DEF ClobbersFlags

\* The parts of the effect, by the kind of the operation.
LEMMA ComparedEffect ==
  ASSUME NEW op, NEW env, NEW flags, NEW trace, op.id \in Compared
  PROVE  /\ ~Loses(op, flags) /\ Sets(op, flags) /\ ~Jumped(op, env, flags) /\ ~Stops(op, flags)
         /\ ValueSet(op, env, flags) = CompareResult(env, op)
         /\ FlagsNext(op, env, flags) = flags
         /\ TraceNext(op, env, flags, trace) = trace
<1>1. op.id \notin FlagReaders \cup {"X86_CMP", "STORE", "RETURN", "GOTO", "COND", "X86_JMPCC"}
  BY ComparedIds DEF FlagReaders
<1>2. ~ClobbersFlags(op)
  BY ClobbersWhat, ComparedIds
<1>3. ~Loses(op, flags)
  BY <1>1 DEF Loses
<1>4. Sets(op, flags) /\ ~Jumped(op, env, flags)
  BY <1>1 DEF Sets, Jumped
<1>5. ~Stops(op, flags)
  BY <1>1, <1>3 DEF Stops
<1>6. QED
  BY <1>1, <1>2, <1>3, <1>4, <1>5 DEF ValueSet, FlagsNext, TraceNext

LEMMA CmpEffect ==
  ASSUME NEW op, NEW env, NEW flags, NEW trace, op.id = "X86_CMP"
  PROVE  /\ ~Loses(op, flags) /\ ~Sets(op, flags) /\ ~Jumped(op, env, flags) /\ ~Stops(op, flags)
         /\ FlagsNext(op, env, flags) = [by |-> "cmp", a |-> Eval(env, op.args[1]), b |-> Eval(env, op.args[2])]
         /\ TraceNext(op, env, flags, trace) = trace
<1>1. op.id \notin FlagReaders \cup Compared \cup Pure
  BY ComparedIds DEF FlagReaders, Pure
<1>2. ~Loses(op, flags)
  BY <1>1 DEF Loses
<1>3. ~Sets(op, flags) /\ ~Jumped(op, env, flags)
  BY <1>1 DEF Sets, Jumped
<1>4. ~Stops(op, flags)
  BY <1>2 DEF Stops
<1>5. QED
  BY <1>1, <1>2, <1>3, <1>4 DEF FlagsNext, FlagsAfter, TraceNext

LEMMA LostEffect ==
  ASSUME NEW op, NEW env, NEW flags, NEW trace, op.id \in FlagReaders, flags.by # "cmp"
  PROVE  /\ Loses(op, flags) /\ ~Sets(op, flags) /\ ~Jumped(op, env, flags) /\ Stops(op, flags)
         /\ FlagsNext(op, env, flags) = flags
         /\ TraceNext(op, env, flags, trace) = Append(trace, -1)
<1>1. op.id \notin Compared \cup Pure \cup {"X86_CMP", "GOTO", "COND"}
  BY ComparedIds DEF FlagReaders, Pure
<1>2. ~ClobbersFlags(op)
  BY ClobbersWhat DEF FlagReaders
<1>3. Loses(op, flags)
  BY DEF Loses
<1>4. ~Sets(op, flags) /\ ~Jumped(op, env, flags)
  BY <1>1 DEF Sets, Jumped
<1>5. QED
  BY <1>1, <1>2, <1>3, <1>4 DEF FlagsNext, TraceNext, Stops

\* Reading flags that a comparison has set.
LEMMA ReaderEffect ==
  ASSUME NEW op, NEW env, NEW flags, NEW trace, op.id \in FlagReaders, flags.by = "cmp"
  PROVE  /\ ~Loses(op, flags) /\ ~Stops(op, flags)
         /\ FlagsNext(op, env, flags) = flags
         /\ TraceNext(op, env, flags, trace) = trace
         /\ op.id = "X86_SETCC" =>
              /\ Sets(op, flags) /\ ~Jumped(op, env, flags)
              /\ ValueSet(op, env, flags) = ToNum(Holds(flags, op.args[1]))
         /\ op.id = "X86_CMOV" =>
              /\ Sets(op, flags) <=> Holds(flags, op.args[1])
              /\ ~Jumped(op, env, flags)
              /\ ValueSet(op, env, flags) = Eval(env, op.args[2])
         /\ op.id = "X86_JMPCC" =>
              /\ ~Sets(op, flags)
              /\ Jumped(op, env, flags) <=> Holds(flags, op.args[1])
<1>1. op.id \notin Compared \cup Pure \cup {"X86_CMP", "GOTO", "COND", "STORE", "RETURN"}
  BY ComparedIds DEF FlagReaders, Pure
<1>2. ~ClobbersFlags(op)
  BY ClobbersWhat DEF FlagReaders
<1>3. ~Loses(op, flags)
  BY DEF Loses
<1>4. /\ op.id = "X86_SETCC" => Sets(op, flags) /\ ~Jumped(op, env, flags)
      /\ op.id = "X86_CMOV" => (Sets(op, flags) <=> Holds(flags, op.args[1])) /\ ~Jumped(op, env, flags)
      /\ op.id = "X86_JMPCC" => ~Sets(op, flags) /\ (Jumped(op, env, flags) <=> Holds(flags, op.args[1]))
  BY <1>1 DEF Sets, Jumped
<1>5. /\ op.id = "X86_SETCC" => ValueSet(op, env, flags) = ToNum(Holds(flags, op.args[1]))
      /\ op.id = "X86_CMOV" => ValueSet(op, env, flags) = Eval(env, op.args[2])
  BY <1>1 DEF ValueSet
<1>6. FlagsNext(op, env, flags) = flags /\ TraceNext(op, env, flags, trace) = trace /\ ~Stops(op, flags)
  BY <1>1, <1>2, <1>3 DEF FlagsNext, TraceNext, Stops
<1>7. QED
  BY <1>3, <1>4, <1>5, <1>6

\* An operation of Llir does what it does there.
LEMMA SourceEffect ==
  ASSUME NEW op, NEW env, NEW flags, NEW trace, op.id \in Ids
  PROVE  /\ ~Loses(op, flags)
         /\ Sets(op, flags) <=> op.id \in Pure
         /\ op.id \in Pure => ValueSet(op, env, flags) = Result(env, op)
         /\ Jumped(op, env, flags) <=> Taken(op, env)
         /\ Stops(op, flags) <=> op.id = "RETURN"
         /\ FlagsNext(op, env, flags) = IF ClobbersFlags(op) THEN Clobbered ELSE flags
         /\ op.id = "STORE" => TraceNext(op, env, flags, trace) = Append(trace, Eval(env, op.args[1]))
         /\ op.id = "RETURN" =>
              TraceNext(op, env, flags, trace) = trace \o [i \in DOMAIN op.args |-> Eval(env, op.args[i])]
         /\ op.id \notin {"STORE", "RETURN"} => TraceNext(op, env, flags, trace) = trace
<1>1. op.id \notin Compared \cup FlagReaders \cup {"X86_CMP", "X86_SETCC", "X86_CMOV", "X86_JMPCC"}
  BY ComparedIds DEF FlagReaders, Ids, Pure, Jumps
<1>2. ~Loses(op, flags)
  BY <1>1 DEF Loses
<1>3. Sets(op, flags) <=> op.id \in Pure
  BY <1>1 DEF Sets
<1>4. ValueSet(op, env, flags) = Result(env, op)
  BY <1>1 DEF ValueSet
<1>5. Jumped(op, env, flags) <=> Taken(op, env)
  BY <1>1 DEF Jumped, Taken
<1>6. Stops(op, flags) <=> op.id = "RETURN"
  BY <1>2 DEF Stops
<1>7. FlagsNext(op, env, flags) = IF ClobbersFlags(op) THEN Clobbered ELSE flags
  BY <1>1 DEF FlagsNext
<1>8. /\ op.id = "STORE" => TraceNext(op, env, flags, trace) = Append(trace, Eval(env, op.args[1]))
      /\ op.id = "RETURN" =>
           TraceNext(op, env, flags, trace) = trace \o [i \in DOMAIN op.args |-> Eval(env, op.args[i])]
      /\ op.id \notin {"STORE", "RETURN"} => TraceNext(op, env, flags, trace) = trace
  BY <1>2 DEF TraceNext
<1>9. QED
  BY <1>2, <1>3, <1>4, <1>5, <1>6, <1>7, <1>8

LEMMA Stepped ==
  ASSUME NEW s, NEW x, NEW y,
         s = [pc |-> s.pc, env |-> s.env, trace |-> s.trace, done |-> s.done, flags |-> s.flags]
  PROVE  [s EXCEPT !.pc = x, !.flags = y]
           = [pc |-> x, env |-> s.env, trace |-> s.trace, done |-> s.done, flags |-> y]
<1>1. [s EXCEPT !.pc = x] = [pc |-> x, env |-> s.env, trace |-> s.trace, done |-> s.done, flags |-> s.flags]
  OBVIOUS
<1> DEFINE r == [s EXCEPT !.pc = x]
<1>2. r = [pc |-> x, env |-> s.env, trace |-> s.trace, done |-> s.done, flags |-> s.flags]
  BY <1>1
<1>3. [s EXCEPT !.pc = x, !.flags = y] = [r EXCEPT !.flags = y]
  OBVIOUS
<1> HIDE DEF r
<1>4. [r EXCEPT !.flags = y] = [pc |-> x, env |-> s.env, trace |-> s.trace, done |-> s.done, flags |-> y]
  BY <1>2
<1>5. QED
  BY <1>3, <1>4

\* Whatever it is, an operation has this effect.
LEMMA ExecEffect ==
  ASSUME NEW p \in CodeX86, NEW s \in StatesX86(p), ~s.done
  PROVE  Effect(p, p[s.pc], s, ExecX86(p, s))
<1> DEFINE op == p[s.pc]
           n == ExecX86(p, s)
           usable == Defined(s.flags, op.args[1])
           flags == IF ClobbersFlags(op) THEN Clobbered ELSE s.flags
           next == [s EXCEPT !.pc = @ + 1, !.flags = flags]
<1> SUFFICES Effect(p, op, s, n)
  OBVIOUS
<1>1. /\ s = [pc |-> s.pc, env |-> s.env, trace |-> s.trace, done |-> s.done, flags |-> s.flags]
      /\ s.done = FALSE /\ op \in OpX86
  BY StateX86Fields
<1>2. op.id \in FlagReaders => (usable <=> s.flags.by = "cmp")
  BY <1>1, OpX86Fields DEF Defined
<1>3. next = [pc |-> s.pc + 1, env |-> s.env, trace |-> s.trace, done |-> FALSE, flags |-> flags]
  BY <1>1, Stepped
<1>4. op.id \in FlagReaders \cup Compared \cup {"X86_CMP"} => flags = s.flags
  BY ClobbersWhat, ComparedIds DEF FlagReaders
<1>5. n = CASE op.id \in Compared -> [next EXCEPT !.env[op.out] = CompareResult(s.env, op)]
            [] op.id \in {"X86_CMP", "X86_BITTEST"} -> [next EXCEPT !.flags = FlagsAfter(s.env, op)]
            [] op.id \in FlagReaders /\ ~usable -> Lost(s)
            [] op.id = "X86_SETCC" /\ usable ->
                 [next EXCEPT !.env[op.out] = ToNum(Holds(s.flags, op.args[1]))]
            [] op.id = "X86_JMPCC" /\ usable -> IF Holds(s.flags, op.args[1])
                                                THEN [s EXCEPT !.pc = LabelAt(p, op.label)] ELSE next
            [] op.id = "X86_CMOV" /\ usable ->
                 IF Holds(s.flags, op.args[1]) THEN [next EXCEPT !.env[op.out] = Eval(s.env, op.args[2])]
                                               ELSE next
            [] OTHER -> [ExecStep(p, s) EXCEPT !.flags = next.flags]
  BY Zenon DEF ExecX86
<1> HIDE DEF n, usable, next, flags
<1>6. CASE op.id \in Compared
  <2>1. op.id \notin FlagReaders \cup {"X86_CMP", "X86_BITTEST", "STORE", "RETURN", "GOTO", "COND"}
    BY <1>6, ComparedIds DEF FlagReaders
  <2>2. n = [next EXCEPT !.env[op.out] = CompareResult(s.env, op)]
    BY <1>5, <1>6, <2>1 DEF FlagReaders
  <2>3. n = [pc |-> s.pc + 1, env |-> [s.env EXCEPT ![op.out] = CompareResult(s.env, op)],
             trace |-> s.trace, done |-> FALSE, flags |-> s.flags]
    BY <1>3, <1>4, <1>6, <2>2
  <2>4. /\ ~Loses(op, s.flags) /\ Sets(op, s.flags) /\ ~Jumped(op, s.env, s.flags) /\ ~Stops(op, s.flags)
        /\ ValueSet(op, s.env, s.flags) = CompareResult(s.env, op)
        /\ FlagsNext(op, s.env, s.flags) = s.flags
        /\ TraceNext(op, s.env, s.flags, s.trace) = s.trace
    BY <1>6, ComparedEffect
  <2>5. Parts(op, s, n)
    BY <2>3, <2>4 DEF Parts, EnvNext
  <2>6. QED
    BY <2>3, <2>4, <2>5 DEF Effect
<1>7. CASE op.id = "X86_CMP"
  <2>1. op.id \notin FlagReaders \cup Compared \cup Pure \cup {"STORE", "RETURN", "GOTO", "COND"}
    BY <1>7, ComparedIds DEF FlagReaders, Pure
  <2>2. n = [next EXCEPT !.flags = FlagsAfter(s.env, op)]
    BY <1>5, <1>7, <2>1 DEF FlagReaders
  <2>3. n = [pc |-> s.pc + 1, env |-> s.env,
             trace |-> s.trace, done |-> FALSE, flags |-> FlagsAfter(s.env, op)]
    BY <1>3, <1>4, <1>7, <2>2
  <2>4. /\ ~Loses(op, s.flags) /\ ~Sets(op, s.flags) /\ ~Jumped(op, s.env, s.flags) /\ ~Stops(op, s.flags)
        /\ FlagsNext(op, s.env, s.flags) = [by |-> "cmp", a |-> Eval(s.env, op.args[1]), b |-> Eval(s.env, op.args[2])]
        /\ TraceNext(op, s.env, s.flags, s.trace) = s.trace
    BY <1>4, <1>7, <2>1, CmpEffect
  <2>5. Parts(op, s, n)
    BY <1>7, <2>3, <2>4 DEF Parts, EnvNext, FlagsAfter
  <2>6. QED
    BY <2>3, <2>4, <2>5 DEF Effect
<1>8. CASE op.id \in FlagReaders /\ s.flags.by # "cmp"
  <2>1. op.id \notin Compared \cup Pure \cup {"X86_CMP", "X86_BITTEST", "STORE", "RETURN", "GOTO", "COND"}
    BY <1>8, ComparedIds DEF FlagReaders, Pure
  <2>2. n = Lost(s)
    BY <1>2, <1>5, <1>8, <2>1 DEF FlagReaders
  <2>3. n = [pc |-> s.pc, env |-> s.env, trace |-> Append(s.trace, -1), done |-> TRUE, flags |-> s.flags]
    BY <1>1, <2>2 DEF Lost
  <2>4. /\ ~Sets(op, s.flags) /\ ~Jumped(op, s.env, s.flags) /\ Stops(op, s.flags)
        /\ FlagsNext(op, s.env, s.flags) = s.flags
        /\ TraceNext(op, s.env, s.flags, s.trace) = Append(s.trace, -1)
    BY <1>4, <1>8, <2>1, LostEffect
  <2>5. Parts(op, s, n)
    BY <2>3, <2>4 DEF Parts, EnvNext
  <2>6. QED
    BY <2>3, <2>4, <2>5 DEF Effect
<1>9. CASE op.id = "X86_SETCC" /\ s.flags.by = "cmp"
  <2>1. op.id \notin Compared \cup Pure /\ op.id \in FlagReaders /\ usable
    BY <1>2, <1>9, ComparedIds DEF FlagReaders, Pure
  <2>2. n = [next EXCEPT !.env[op.out] = ToNum(Holds(s.flags, op.args[1]))]
    BY <1>5, <1>9, <2>1
  <2>3. n = [pc |-> s.pc + 1, env |-> [s.env EXCEPT ![op.out] = ToNum(Holds(s.flags, op.args[1]))],
             trace |-> s.trace, done |-> FALSE, flags |-> s.flags]
    BY <1>3, <1>4, <2>1, <2>2
  <2>4. /\ ~Stops(op, s.flags)
        /\ FlagsNext(op, s.env, s.flags) = s.flags
        /\ TraceNext(op, s.env, s.flags, s.trace) = s.trace
        /\ Sets(op, s.flags) /\ ~Jumped(op, s.env, s.flags)
        /\ ValueSet(op, s.env, s.flags) = ToNum(Holds(s.flags, op.args[1]))
    BY <1>4, <1>9, <2>1, ReaderEffect
  <2>5. Parts(op, s, n)
    BY <2>3, <2>4 DEF Parts, EnvNext
  <2>6. QED
    BY <2>3, <2>4, <2>5 DEF Effect
<1>10. CASE op.id = "X86_JMPCC" /\ s.flags.by = "cmp"
  <2>1. op.id \notin Compared \cup Pure /\ op.id \in FlagReaders /\ usable
    BY <1>2, <1>10, ComparedIds DEF FlagReaders, Pure
  <2>2. n = IF Holds(s.flags, op.args[1]) THEN [s EXCEPT !.pc = LabelAt(p, op.label)] ELSE next
    BY <1>5, <1>10, <2>1
  <2>3. n = [pc |-> IF Holds(s.flags, op.args[1]) THEN LabelAt(p, op.label) ELSE s.pc + 1,
             env |-> s.env, trace |-> s.trace, done |-> FALSE, flags |-> s.flags]
    BY <1>1, <1>3, <1>4, <2>1, <2>2
  <2>4. /\ ~Stops(op, s.flags)
        /\ FlagsNext(op, s.env, s.flags) = s.flags
        /\ TraceNext(op, s.env, s.flags, s.trace) = s.trace
        /\ ~Sets(op, s.flags)
        /\ Jumped(op, s.env, s.flags) <=> Holds(s.flags, op.args[1])
    BY <1>4, <1>10, <2>1, ReaderEffect
  <2>5. Parts(op, s, n)
    BY <2>3, <2>4 DEF Parts, EnvNext
  <2>6. QED
    BY <2>3, <2>4, <2>5 DEF Effect
<1>11. CASE op.id = "X86_CMOV" /\ s.flags.by = "cmp"
  <2>1. op.id \notin Compared \cup Pure /\ op.id \in FlagReaders /\ usable
    BY <1>2, <1>11, ComparedIds DEF FlagReaders, Pure
  <2>2. n = IF Holds(s.flags, op.args[1]) THEN [next EXCEPT !.env[op.out] = Eval(s.env, op.args[2])] ELSE next
    BY <1>5, <1>11, <2>1
  <2>3. n = [pc |-> s.pc + 1,
             env |-> IF Holds(s.flags, op.args[1])
                     THEN [s.env EXCEPT ![op.out] = Eval(s.env, op.args[2])] ELSE s.env,
             trace |-> s.trace, done |-> FALSE, flags |-> s.flags]
    BY <1>3, <1>4, <2>1, <2>2
  <2>4. /\ ~Stops(op, s.flags)
        /\ FlagsNext(op, s.env, s.flags) = s.flags
        /\ TraceNext(op, s.env, s.flags, s.trace) = s.trace
        /\ Sets(op, s.flags) <=> Holds(s.flags, op.args[1])
        /\ ~Jumped(op, s.env, s.flags)
        /\ ValueSet(op, s.env, s.flags) = Eval(s.env, op.args[2])
    BY <1>4, <1>11, <2>1, ReaderEffect
  <2>5. Parts(op, s, n)
    BY <2>3, <2>4 DEF Parts, EnvNext
  <2>6. QED
    BY <2>3, <2>4, <2>5 DEF Effect
<1>12. CASE op.id \in Ids
  <2>1. op.id \notin Compared \cup FlagReaders \cup {"X86_CMP", "X86_BITTEST"}
    BY <1>12, ComparedIds DEF Ids, Pure, Jumps, FlagReaders
  <2> DEFINE m == ExecStep(p, s)
  <2>2. n = [m EXCEPT !.flags = next.flags]
    BY <1>5, <2>1 DEF FlagReaders
  <2>3. next.flags = flags
    BY <1>3
  <2>9. /\ ~Loses(op, s.flags)
        /\ Sets(op, s.flags) <=> op.id \in Pure
        /\ op.id \in Pure => ValueSet(op, s.env, s.flags) = Result(s.env, op)
        /\ Jumped(op, s.env, s.flags) <=> Taken(op, s.env)
        /\ Stops(op, s.flags) <=> op.id = "RETURN"
        /\ FlagsNext(op, s.env, s.flags) = flags
        /\ op.id = "STORE" => TraceNext(op, s.env, s.flags, s.trace) = Append(s.trace, Eval(s.env, op.args[1]))
        /\ op.id = "RETURN" =>
             TraceNext(op, s.env, s.flags, s.trace) = s.trace \o [i \in DOMAIN op.args |-> Eval(s.env, op.args[i])]
        /\ op.id \notin {"STORE", "RETURN"} => TraceNext(op, s.env, s.flags, s.trace) = s.trace
    <3> HIDE DEF op
    <3>1. FlagsNext(op, s.env, s.flags) = flags
      BY <1>12, SourceEffect DEF flags
    <3>2. /\ op.id = "STORE" => TraceNext(op, s.env, s.flags, s.trace) = Append(s.trace, Eval(s.env, op.args[1]))
          /\ op.id \notin {"STORE", "RETURN"} => TraceNext(op, s.env, s.flags, s.trace) = s.trace
      BY <1>12, SourceEffect
    <3>3. op.id = "RETURN" =>
            TraceNext(op, s.env, s.flags, s.trace) = s.trace \o [i \in DOMAIN op.args |-> Eval(s.env, op.args[i])]
      BY <1>12, SourceEffect
    <3>4. ~Loses(op, s.flags) /\ (Sets(op, s.flags) <=> op.id \in Pure)
      BY <1>12, SourceEffect
    <3>5. op.id \in Pure => ValueSet(op, s.env, s.flags) = Result(s.env, op)
      BY <1>12, SourceEffect
    <3>6. (Jumped(op, s.env, s.flags) <=> Taken(op, s.env)) /\ (Stops(op, s.flags) <=> op.id = "RETURN")
      BY <1>12, SourceEffect
    <3>7. QED
      BY <3>1, <3>2, <3>3, <3>4, <3>5, <3>6
  <2>4. CASE op.id \in Pure
    <3>1. m = [s EXCEPT !.pc = s.pc + 1, !.env = [s.env EXCEPT ![op.out] = Result(s.env, op)]]
      BY <1>1, <2>4 DEF ExecStep, Pure
    <3>2. m = [pc |-> s.pc + 1, env |-> [s.env EXCEPT ![op.out] = Result(s.env, op)],
               trace |-> s.trace, done |-> FALSE, flags |-> s.flags]
      BY <1>1, <3>1
    <3> HIDE DEF m
    <3>3. n = [pc |-> s.pc + 1, env |-> [s.env EXCEPT ![op.out] = Result(s.env, op)],
               trace |-> s.trace, done |-> FALSE, flags |-> flags]
      BY <2>2, <2>3, <3>2
    <3>4. op.id \notin {"STORE", "RETURN", "GOTO", "COND"}
      BY <2>4 DEF Pure
    <3>5. /\ FlagsNext(op, s.env, s.flags) = flags
          /\ Sets(op, s.flags) /\ ~Jumped(op, s.env, s.flags) /\ ~Stops(op, s.flags)
          /\ ValueSet(op, s.env, s.flags) = Result(s.env, op)
          /\ TraceNext(op, s.env, s.flags, s.trace) = s.trace
      BY <1>12, <2>1, <2>4, <3>4, <2>9 DEF Taken
    <3>6. Parts(op, s, n)
      BY <3>3, <3>5 DEF Parts, EnvNext
    <3>7. QED
      BY <3>3, <3>5, <3>6 DEF Effect
  <2>5. CASE op.id = "STORE"
    <3>1. m = [s EXCEPT !.pc = s.pc + 1, !.trace = Append(s.trace, Eval(s.env, op.args[1]))]
      BY <1>1, <2>5 DEF ExecStep, Pure
    <3>2. m = [pc |-> s.pc + 1, env |-> s.env,
               trace |-> Append(s.trace, Eval(s.env, op.args[1])), done |-> FALSE, flags |-> s.flags]
      BY <1>1, <3>1
    <3> HIDE DEF m
    <3>3. n = [pc |-> s.pc + 1, env |-> s.env,
               trace |-> Append(s.trace, Eval(s.env, op.args[1])), done |-> FALSE, flags |-> flags]
      BY <2>2, <2>3, <3>2
    <3>4. op.id \notin Pure
      BY <2>5 DEF Pure
    <3>5. /\ FlagsNext(op, s.env, s.flags) = flags
          /\ ~Sets(op, s.flags) /\ ~Jumped(op, s.env, s.flags) /\ ~Stops(op, s.flags)
          /\ TraceNext(op, s.env, s.flags, s.trace) = Append(s.trace, Eval(s.env, op.args[1]))
      BY <1>12, <2>1, <2>5, <3>4, <2>9 DEF Taken
    <3>6. Parts(op, s, n)
      BY <3>3, <3>5 DEF Parts, EnvNext
    <3>7. QED
      BY <3>3, <3>5, <3>6 DEF Effect
  <2>6. CASE op.id = "LABEL"
    <3>1. m = [s EXCEPT !.pc = s.pc + 1]
      BY <1>1, <2>6 DEF ExecStep, Pure
    <3>2. m = [pc |-> s.pc + 1, env |-> s.env, trace |-> s.trace, done |-> FALSE, flags |-> s.flags]
      BY <1>1, <3>1
    <3> HIDE DEF m
    <3>3. n = [pc |-> s.pc + 1, env |-> s.env, trace |-> s.trace, done |-> FALSE, flags |-> flags]
      BY <2>2, <2>3, <3>2
    <3>4. op.id \notin Pure
      BY <2>6 DEF Pure
    <3>5. /\ FlagsNext(op, s.env, s.flags) = flags
          /\ ~Sets(op, s.flags) /\ ~Jumped(op, s.env, s.flags) /\ ~Stops(op, s.flags)
          /\ TraceNext(op, s.env, s.flags, s.trace) = s.trace
      BY <1>12, <2>1, <2>6, <3>4, <2>9 DEF Taken
    <3>6. Parts(op, s, n)
      BY <3>3, <3>5 DEF Parts, EnvNext
    <3>7. QED
      BY <3>3, <3>5, <3>6 DEF Effect
  <2>7. CASE op.id \in Jumps
    <3> DEFINE pc == IF op.id = "GOTO" \/ Eval(s.env, op.args[1]) # 0 THEN LabelAt(p, op.label) ELSE s.pc + 1
    <3>1. op.id \in {"GOTO", "COND"} /\ op.id \notin Pure
      BY <2>7 DEF Jumps, Pure
    <3>2. m = [s EXCEPT !.pc = pc]
      <4>1. op.id = "GOTO" => m = [s EXCEPT !.pc = LabelAt(p, op.label)]
        BY <1>1, <3>1 DEF ExecStep, Pure
      <4>2. op.id = "COND" => m = IF Eval(s.env, op.args[1]) # 0
                                  THEN [s EXCEPT !.pc = LabelAt(p, op.label)] ELSE [s EXCEPT !.pc = s.pc + 1]
        BY <1>1, <3>1 DEF ExecStep, Pure
      <4> HIDE DEF m
      <4>3. QED
        BY <3>1, <4>1, <4>2
    <3> HIDE DEF pc, m
    <3>3. m = [pc |-> pc, env |-> s.env, trace |-> s.trace, done |-> FALSE, flags |-> s.flags]
      BY <1>1, <3>2
    <3>4. n = [pc |-> pc, env |-> s.env, trace |-> s.trace, done |-> FALSE, flags |-> flags]
      BY <2>2, <2>3, <3>3
    <3>5. /\ FlagsNext(op, s.env, s.flags) = flags
          /\ ~Sets(op, s.flags) /\ ~Stops(op, s.flags)
          /\ Jumped(op, s.env, s.flags) <=> op.id = "GOTO" \/ Eval(s.env, op.args[1]) # 0
          /\ TraceNext(op, s.env, s.flags, s.trace) = s.trace
      BY <1>12, <2>1, <3>1, <2>9 DEF Taken
    <3>6. Parts(op, s, n)
      BY <3>4, <3>5 DEF Parts, EnvNext
    <3>7. QED
      BY <3>4, <3>5, <3>6 DEF Effect, pc
  <2>8. CASE op.id = "RETURN"
    <3> DEFINE trace == s.trace \o [i \in DOMAIN op.args |-> Eval(s.env, op.args[i])]
    <3>1. m = [s EXCEPT !.done = TRUE, !.trace = trace]
      BY <1>1, <2>8 DEF ExecStep, Pure
    <3> HIDE DEF trace
    <3>2. m = [pc |-> s.pc, env |-> s.env, trace |-> trace, done |-> TRUE, flags |-> s.flags]
      BY <1>1, <3>1
    <3> HIDE DEF m
    <3>3. n = [pc |-> s.pc, env |-> s.env, trace |-> trace, done |-> TRUE, flags |-> flags]
      BY <2>2, <2>3, <3>2
    <3>4. op.id \notin Pure
      BY <2>8 DEF Pure
    <3>5. /\ FlagsNext(op, s.env, s.flags) = flags
          /\ ~Sets(op, s.flags) /\ ~Jumped(op, s.env, s.flags) /\ Stops(op, s.flags)
          /\ TraceNext(op, s.env, s.flags, s.trace) = trace
      BY <1>12, <2>1, <2>8, <3>4, <2>9 DEF Taken, trace
    <3>6. Parts(op, s, n)
      BY <3>3, <3>5 DEF Parts, EnvNext
    <3>7. QED
      BY <3>3, <3>5, <3>6 DEF Effect
  <2>10. QED
    BY <1>12, <2>4, <2>5, <2>6, <2>7, <2>8 DEF Ids
<1>13. QED
  <2>1. op.id \in Ids \cup Compared \cup {"X86_CMP"} \cup FlagReaders
    BY <1>1, OpX86Fields
  <2>2. QED
    BY <1>6, <1>7, <1>8, <1>9, <1>10, <1>11, <1>12, <2>1 DEF n, FlagReaders

\* Labels.
LEMMA LabelFoundX86 ==
  ASSUME NEW p \in CodeX86, NEW i \in 1..Len(p), p[i].id = "LABEL"
  PROVE  LabelAt(p, p[i].label) = i
<1>1. \E j \in DOMAIN p : p[j].id = "LABEL" /\ p[j].label = p[i].label
  BY CodeX86Type
<1>2. \A j \in DOMAIN p : p[j].id = "LABEL" /\ p[j].label = p[i].label => j = i
  BY CodeX86Type DEF LabelsUnique
<1>3. QED
  BY <1>1, <1>2 DEF LabelAt

LEMMA JumpFindsLabelX86 ==
  ASSUME NEW p \in CodeX86, NEW i \in 1..Len(p), p[i].id \in JumpsX86
  PROVE  /\ LabelAt(p, p[i].label) \in 1..Len(p)
         /\ p[LabelAt(p, p[i].label)].id = "LABEL"
         /\ p[LabelAt(p, p[i].label)].label = p[i].label
<1>1. \E j \in DOMAIN p : p[j].id = "LABEL" /\ p[j].label = p[i].label
  BY CodeX86Type DEF Declared
<1>2. QED
  BY <1>1, CodeX86Type DEF LabelAt

LEMMA ToNumType == ASSUME NEW b PROVE ToNum(b) \in {0, 1}
  BY DEF ToNum

LEMMA ZeroOne == 0 \in Num /\ 1 \in Num
  BY LlirAssumption DEF Num

\* What an operation sets is a value, and so are the flags it leaves.
LEMMA ValueSetType ==
  ASSUME NEW op \in OpX86, NEW env \in [Vars -> Num], NEW flags \in Flags, Sets(op, flags)
  PROVE  ValueSet(op, env, flags) \in Num /\ op.out \in Vars
<1>1. op.id \in Pure \cup Compared \cup {"X86_SETCC", "X86_CMOV"}
  BY DEF Sets
<1>2. op.out \in Vars
  BY <1>1, OpX86Fields
<1>3. CASE op.id \in Compared
  <2>1. ValueSet(op, env, flags) = ToNum(Compares(MeansOf[op.id], Eval(env, op.args[1]), Eval(env, op.args[2])))
    BY <1>3, NoBitTest DEF ValueSet, CompareResult
  <2>2. QED
    BY <1>2, <2>1, ToNumType, ZeroOne
<1>4. CASE op.id = "X86_SETCC"
  <2>1. ValueSet(op, env, flags) = ToNum(Holds(flags, op.args[1]))
    BY <1>4, ComparedIds DEF ValueSet
  <2>2. QED
    BY <1>2, <2>1, ToNumType, ZeroOne
<1>5. CASE op.id = "X86_CMOV"
  <2>1. ValueSet(op, env, flags) = Eval(env, op.args[2]) /\ op.args[2] \in Value
    BY <1>5, ComparedIds, OpX86Fields DEF ValueSet
  <2>2. QED
    BY <1>2, <2>1, EvalType
<1>6. CASE op.id \in Pure
  <2>1. op.id \in Ids
    BY <1>6 DEF Ids
  <2>2. op \in Op
    BY <2>1, OpX86Fields
  <2>3. ValueSet(op, env, flags) = Result(env, op)
    BY <1>6, <2>1, SourceEffect
  <2>4. QED
    BY <1>2, <1>6, <2>2, <2>3, ResultType
<1>7. QED
  BY <1>1, <1>3, <1>4, <1>5, <1>6

LEMMA FlagsNextType ==
  ASSUME NEW op \in OpX86, NEW env \in [Vars -> Num], NEW flags \in Flags
  PROVE  FlagsNext(op, env, flags) \in Flags
<1>1. CASE op.id = "X86_CMP"
  <2>1. Eval(env, op.args[1]) \in Num /\ Eval(env, op.args[2]) \in Num
    BY <1>1, OpX86Fields, EvalType
  <2>2. FlagsNext(op, env, flags) = [by |-> "cmp", a |-> Eval(env, op.args[1]), b |-> Eval(env, op.args[2])]
    BY <1>1 DEF FlagsNext, FlagsAfter
  <2>3. QED
    BY <2>1, <2>2 DEF Flags
<1>2. CASE op.id # "X86_CMP"
  BY <1>2 DEF FlagsNext, Flags
<1>3. QED
  BY <1>1, <1>2

LEMMA TraceNextType ==
  ASSUME NEW op \in OpX86, NEW env \in [Vars -> Num], NEW flags \in Flags, NEW trace \in Seq(Shown)
  PROVE  TraceNext(op, env, flags, trace) \in Seq(Shown)
<1>1. CASE Loses(op, flags)
  <2>1. TraceNext(op, env, flags, trace) = Append(trace, -1) /\ -1 \in Shown
    BY <1>1 DEF TraceNext, Shown
  <2>2. QED
    BY <2>1, AppendProperties
<1>2. CASE ~Loses(op, flags) /\ op.id = "STORE"
  <2>1. op \in Op
    BY <1>2, OpX86Fields DEF Ids
  <2>2. Eval(env, op.args[1]) \in Shown
    BY <1>2, <2>1, OpFields, EvalType DEF Shown
  <2>3. TraceNext(op, env, flags, trace) = Append(trace, Eval(env, op.args[1]))
    BY <1>2 DEF TraceNext
  <2>4. QED
    BY <2>2, <2>3, AppendProperties
<1>3. CASE ~Loses(op, flags) /\ op.id = "RETURN"
  <2>1. op \in Op
    BY <1>3, OpX86Fields DEF Ids
  <2>2. op.args \in Seq(Value) /\ DOMAIN op.args = 1..Len(op.args) /\ Len(op.args) \in Nat
    BY <2>1, OpFields
  <2> DEFINE returned == [i \in DOMAIN op.args |-> Eval(env, op.args[i])]
  <2>3. returned \in Seq(Shown)
    <3>1. \A i \in 1..Len(op.args) : Eval(env, op.args[i]) \in Shown
      BY <2>2, EvalType DEF Shown
    <3>2. [i \in 1..Len(op.args) |-> Eval(env, op.args[i])] \in Seq(Shown)
      BY <2>2, <3>1, IsASeq
    <3>3. QED
      BY <3>2, <2>2
  <2>4. TraceNext(op, env, flags, trace) = trace \o returned
    BY <1>3 DEF TraceNext
  <2> HIDE DEF returned
  <2>5. QED
    BY <2>3, <2>4, ConcatProperties
<1>4. CASE ~Loses(op, flags) /\ op.id \notin {"STORE", "RETURN"}
  BY <1>4 DEF TraceNext
<1>5. QED
  BY <1>1, <1>2, <1>3, <1>4

LEMMA NotLastX86 ==
  ASSUME NEW p \in CodeX86, NEW i \in 1..Len(p), ~EndsFlow(p[i])
  PROVE  i + 1 \in 1..Len(p)
  BY CodeX86Type

LEMMA ExecDoneX86 ==
  ASSUME NEW p, NEW s, s.done
  PROVE  ExecX86(p, s) = s
  BY DEF ExecX86

\* Where the next operation is.
LEMMA PlaceNext ==
  ASSUME NEW p \in CodeX86, NEW s \in StatesX86(p), ~s.done
  PROVE  LET op == p[s.pc]
             n == ExecX86(p, s) IN
         /\ n.pc \in 1..Len(p)
         /\ \/ n.pc = s.pc + 1 /\ ~Stops(op, s.flags) /\ ~EndsFlow(op) /\ ~Jumped(op, s.env, s.flags)
            \/ n.pc = s.pc /\ Stops(op, s.flags)
            \/ /\ Jumped(op, s.env, s.flags) /\ ~Stops(op, s.flags) /\ op.id \in JumpsX86
               /\ n.pc = LabelAt(p, op.label) /\ p[n.pc].id = "LABEL"
<1> DEFINE op == p[s.pc]
           n == ExecX86(p, s)
<1>1. /\ s.pc \in 1..Len(p)
      /\ n.pc = IF Jumped(op, s.env, s.flags) THEN LabelAt(p, op.label)
                ELSE IF Stops(op, s.flags) THEN s.pc ELSE s.pc + 1
  BY ExecEffect, StateX86Fields DEF Effect
<1> HIDE DEF n
<1>2. CASE Jumped(op, s.env, s.flags)
  <2>1. op.id \in JumpsX86
    BY <1>2 DEF Jumped, JumpsX86, Jumps
  <2>2. LabelAt(p, op.label) \in 1..Len(p) /\ p[LabelAt(p, op.label)].id = "LABEL"
    BY <1>1, <2>1, JumpFindsLabelX86
  <2>3. ~Stops(op, s.flags)
    BY <1>2 DEF Jumped, Stops, Loses, FlagReaders
  <2>4. QED
    BY <1>1, <1>2, <2>1, <2>2, <2>3 DEF n
<1>3. CASE ~Jumped(op, s.env, s.flags) /\ Stops(op, s.flags)
  BY <1>1, <1>3 DEF n
<1>4. CASE ~Jumped(op, s.env, s.flags) /\ ~Stops(op, s.flags)
  <2>1. ~EndsFlow(op)
    BY <1>4 DEF EndsFlow, Jumped, Stops
  <2>2. s.pc + 1 \in 1..Len(p)
    BY <1>1, <2>1, NotLastX86
  <2>3. QED
    BY <1>1, <1>4, <2>1, <2>2 DEF n
<1>5. QED
  BY <1>2, <1>3, <1>4

LEMMA StateX86Type ==
  ASSUME NEW p, NEW i \in 1..Len(p), NEW env \in [Vars -> Num], NEW trace \in Seq(Shown),
         NEW done \in BOOLEAN, NEW flags \in Flags
  PROVE  [pc |-> i, env |-> env, trace |-> trace, done |-> done, flags |-> flags] \in StatesX86(p)
  BY DEF StatesX86

LEMMA StepX86Type ==
  ASSUME NEW p \in CodeX86
  PROVE  /\ StepX86(p) \in [StatesX86(p) -> StatesX86(p)]
         /\ \A s \in StatesX86(p) : StepX86(p)[s] = ExecX86(p, s) /\ ExecX86(p, s) \in StatesX86(p)
<1>1. ASSUME NEW s \in StatesX86(p)
      PROVE  ExecX86(p, s) \in StatesX86(p)
  <2> DEFINE op == p[s.pc]
             n == ExecX86(p, s)
  <2>1. CASE s.done
    BY <2>1, ExecDoneX86
  <2>2. CASE ~s.done
    <3>1. /\ op \in OpX86 /\ s.env \in [Vars -> Num] /\ s.trace \in Seq(Shown) /\ s.flags \in Flags
      BY StateX86Fields
    <3>2. n.pc \in 1..Len(p)
      BY <2>2, PlaceNext
    <3>3. Parts(op, s, n)
      BY <2>2, ExecEffect DEF Effect
    <3> HIDE DEF op, n
    <3>4. n.flags \in Flags /\ n.trace \in Seq(Shown) /\ n.done \in BOOLEAN
      BY <3>1, <3>3, FlagsNextType, TraceNextType DEF Parts
    <3>5. n.env \in [Vars -> Num]
      <4>1. CASE Sets(op, s.flags)
        <5>1. ValueSet(op, s.env, s.flags) \in Num /\ op.out \in Vars
          BY <3>1, <4>1, ValueSetType
        <5>2. n.env = [s.env EXCEPT ![op.out] = ValueSet(op, s.env, s.flags)]
          BY <3>3, <4>1 DEF Parts, EnvNext
        <5>3. QED
          BY <3>1, <5>1, <5>2
      <4>2. CASE ~Sets(op, s.flags)
        BY <3>1, <3>3, <4>2 DEF Parts, EnvNext
      <4>3. QED
        BY <4>1, <4>2
    <3>6. n = [pc |-> n.pc, env |-> n.env, trace |-> n.trace, done |-> n.done, flags |-> n.flags]
      BY <3>3 DEF Parts
    <3>7. [pc |-> n.pc, env |-> n.env, trace |-> n.trace, done |-> n.done, flags |-> n.flags] \in StatesX86(p)
      BY <3>2, <3>4, <3>5, StateX86Type
    <3>8. QED
      BY <3>6, <3>7 DEF n
  <2>3. QED
    BY <2>1, <2>2
<1>2. QED
  BY <1>1 DEF StepX86

\* All that can ever be seen of an execution with flags.
OutcomesX86(p, env) == {Seen(s) : s \in Reach(StepX86(p), StartX86(env))}

EquivalentX86(p, q) == \A env \in [Vars -> Num] : OutcomesX86(p, env) = OutcomesX86(q, env)

LEMMA EquivalentX86Reflexive == ASSUME NEW p PROVE EquivalentX86(p, p)
  BY DEF EquivalentX86

LEMMA EquivalentX86Transitive ==
  ASSUME NEW p, NEW q, NEW r, EquivalentX86(p, q), EquivalentX86(q, r)
  PROVE  EquivalentX86(p, r)
  BY DEF EquivalentX86

LEMMA StartX86Type ==
  ASSUME NEW p \in CodeX86, NEW env \in [Vars -> Num]
  PROVE  StartX86(env) \in StatesX86(p)
<1>1. 1 \in 1..Len(p) /\ <<>> \in Seq(Shown) /\ Clobbered \in Flags
  BY CodeX86Type DEF Flags
<1>2. QED
  BY <1>1, StateX86Type DEF StartX86

LEMMA BisimulationX86 ==
  ASSUME NEW p \in CodeX86, NEW q \in CodeX86, NEW R \in SUBSET (StatesX86(p) \X StatesX86(q)),
         \A env \in [Vars -> Num] : <<StartX86(env), StartX86(env)>> \in R,
         Bisimulates(StepX86(p), StepX86(q), R)
  PROVE  EquivalentX86(p, q)
<1> SUFFICES ASSUME NEW env \in [Vars -> Num]
             PROVE  OutcomesX86(p, env) = OutcomesX86(q, env)
  BY DEF EquivalentX86
<1>1. /\ StepX86(p) \in [StatesX86(p) -> StatesX86(p)] /\ StepX86(q) \in [StatesX86(q) -> StatesX86(q)]
      /\ StartX86(env) \in StatesX86(p) /\ StartX86(env) \in StatesX86(q)
      /\ <<StartX86(env), StartX86(env)>> \in R
  BY StepX86Type, StartX86Type
<1>2. SeenAlike(Reach(StepX86(p), StartX86(env)), Reach(StepX86(q), StartX86(env)))
  BY <1>1, BothFollow
<1>3. QED
  BY <1>2 DEF OutcomesX86, SeenAlike

\* The same machine from a state on, wherever some fact is kept.
LEMMA SameReach ==
  ASSUME NEW S, NEW T1 \in [S -> S], NEW T2 \in [S -> S], NEW s \in S,
         NEW C \in SUBSET S, s \in C,
         \A x \in C : T1[x] \in C /\ T1[x] = T2[x]
  PROVE  Reach(T1, s) = Reach(T2, s)
<1>1. Reach(T1, s) \subseteq C /\ Reach(T2, s) \subseteq C
  BY ReachInClosed
<1>2. s \in Reach(T1, s) /\ s \in Reach(T2, s) /\ Reach(T1, s) \subseteq S /\ Reach(T2, s) \subseteq S
  BY ReachType
<1>3. ASSUME NEW x \in Reach(T1, s) PROVE T2[x] \in Reach(T1, s)
  BY <1>1, ReachStep
<1>4. ASSUME NEW x \in Reach(T2, s) PROVE T1[x] \in Reach(T2, s)
  BY <1>1, ReachStep
<1>5. Reach(T2, s) \subseteq Reach(T1, s)
  BY <1>2, <1>3, ReachInClosed
<1>6. Reach(T1, s) \subseteq Reach(T2, s)
  BY <1>2, <1>4, ReachInClosed
<1>7. QED
  BY <1>5, <1>6

\* The executions TLC compares are these, cut off after a number of steps.
UnfoldingX86(p, env, n, run) ==
  run = [i \in 0..n |->
          IF i = 0 THEN [state |-> StartX86(env), seen |-> {Seen(StartX86(env))}]
          ELSE LET before == run[i - 1]
                   s == ExecX86(p, before.state)
               IN [state |-> s, seen |-> before.seen \cup {Seen(s)}]]

LEMMA RunX86Unfolds ==
  ASSUME NEW p, NEW env, NEW n \in Nat, NEW h, UnfoldingX86(p, env, n, h)
  PROVE  RunX86(p, env, n) = h[n]
<1>1. ASSUME NEW f, UnfoldingX86(p, env, n, f)
      PROVE  f = h
  <2> DEFINE C == {i \in Nat : i <= n => f[i] = h[i]}
  <2>1. 0 \in C
    BY <1>1 DEF UnfoldingX86
  <2>2. ASSUME NEW i \in Nat, i \in C
        PROVE  i + 1 \in C
    <3> SUFFICES ASSUME i + 1 <= n
                 PROVE  f[i + 1] = h[i + 1]
      OBVIOUS
    <3>1. f[i] = h[i] /\ i + 1 \in 0..n /\ i + 1 # 0 /\ (i + 1) - 1 = i
      BY <2>2
    <3> DEFINE next(b) == [state |-> ExecX86(p, b.state),
                           seen |-> b.seen \cup {Seen(ExecX86(p, b.state))}]
    <3>2. f[i + 1] = next(f[i])
      BY <1>1, <3>1 DEF UnfoldingX86
    <3>3. h[i + 1] = next(h[i])
      BY <3>1 DEF UnfoldingX86
    <3>4. QED
      BY <3>1, <3>2, <3>3
  <2>3. Nat \subseteq C
    BY <2>1, <2>2, SetInduction
  <2>4. \A i \in 0..n : f[i] = h[i]
    BY <2>3
  <2>5. f = [i \in 0..n |-> f[i]] /\ h = [i \in 0..n |-> h[i]]
    BY <1>1 DEF UnfoldingX86
  <2>6. [i \in 0..n |-> f[i]] = [i \in 0..n |-> h[i]]
    BY <2>4
  <2>7. QED
    BY <2>5, <2>6
<1> DEFINE R == CHOOSE f : UnfoldingX86(p, env, n, f)
<1>2. R = h
  BY <1>1
<1>3. RunX86(p, env, n) = R[n]
  BY DEF RunX86, UnfoldingX86
<1>4. QED
  BY <1>2, <1>3

LEMMA RunX86Is ==
  ASSUME NEW p, NEW env, NEW n \in Nat, NEW g, g[0] = StartX86(env),
         \A i \in Nat : g[i + 1] = ExecX86(p, g[i])
  PROVE  ObservationsX86(p, env, n) = {Seen(g[i]) : i \in 0..n}
<1> DEFINE seen(i) == {Seen(g[j]) : j \in 0..i}
           h == [i \in 0..n |-> [state |-> g[i], seen |-> seen(i)]]
<1>1. seen(0) = {Seen(StartX86(env))}
  BY 0..0 = {0}
<1>2. \A i \in Nat : i # 0 => seen(i) = seen(i - 1) \cup {Seen(g[i])}
  <2> SUFFICES ASSUME NEW i \in Nat, i # 0
               PROVE  seen(i) = seen(i - 1) \cup {Seen(g[i])}
    OBVIOUS
  <2>1. 0..i = 0..i - 1 \cup {i}
    OBVIOUS
  <2>2. QED
    BY <2>1
<1>3. \A i \in Nat : i # 0 => g[i] = ExecX86(p, g[i - 1])
  <2> SUFFICES ASSUME NEW i \in Nat, i # 0
               PROVE  g[i] = ExecX86(p, g[i - 1])
    OBVIOUS
  <2>1. i - 1 \in Nat /\ (i - 1) + 1 = i
    OBVIOUS
  <2>2. QED
    BY <2>1
<1> HIDE DEF seen
<1>4. \A i \in 0..n : h[i] = [state |-> g[i], seen |-> seen(i)]
  OBVIOUS
<1>5. ASSUME NEW i \in 0..n
      PROVE  h[i] = IF i = 0 THEN [state |-> StartX86(env), seen |-> {Seen(StartX86(env))}]
                    ELSE LET before == h[i - 1]
                             s == ExecX86(p, before.state)
                         IN [state |-> s, seen |-> before.seen \cup {Seen(s)}]
  <2>1. CASE i = 0
    BY <1>1, <1>4, <2>1
  <2>2. CASE i # 0
    <3>1. i - 1 \in 0..n /\ i \in Nat
      BY <2>2
    <3>2. h[i - 1].state = g[i - 1] /\ h[i - 1].seen = seen(i - 1)
      BY <1>4, <3>1
    <3>3. QED
      BY <1>2, <1>3, <1>4, <2>2, <3>1, <3>2
  <2>3. QED
    BY <2>1, <2>2
<1>6. UnfoldingX86(p, env, n, h)
  BY <1>5 DEF UnfoldingX86
<1>7. h[n].seen = seen(n)
  BY <1>4
<1> HIDE DEF h
<1>8. RunX86(p, env, n) = h[n]
  BY <1>6, RunX86Unfolds
<1>9. QED
  BY <1>7, <1>8 DEF ObservationsX86, seen

LEMMA TrajectoryX86 ==
  ASSUME NEW p \in CodeX86, NEW env \in [Vars -> Num]
  PROVE  \E o : /\ \A n \in Nat : ObservationsX86(p, env, n) = {o[i] : i \in 0..n}
                /\ OutcomesX86(p, env) = {o[i] : i \in Nat}
<1> DEFINE T == StepX86(p)
           S == StatesX86(p)
<1>1. T \in [S -> S] /\ StartX86(env) \in S /\ \A s \in S : T[s] = ExecX86(p, s)
  BY StepX86Type, StartX86Type
<1>2. PICK g \in [Nat -> S] : g[0] = StartX86(env) /\ \A n \in Nat : g[n + 1] = T[g[n]]
  <2>1. PICK g : IsOrbit(S, T, StartX86(env), g)
    BY <1>1, Orbit
  <2>2. QED
    BY <2>1 DEF IsOrbit
<1>3. \A n \in Nat : g[n + 1] = ExecX86(p, g[n])
  BY <1>1, <1>2
<1> DEFINE o == [i \in Nat |-> Seen(g[i])]
<1>4. ASSUME NEW n \in Nat
      PROVE  ObservationsX86(p, env, n) = {o[i] : i \in 0..n}
  <2>1. ObservationsX86(p, env, n) = {Seen(g[i]) : i \in 0..n}
    BY <1>2, <1>3, RunX86Is
  <2>2. QED
    BY <2>1
<1>5. Reach(T, StartX86(env)) = {g[n] : n \in Nat}
  BY <1>1, <1>2, OrbitIsReach
<1>6. OutcomesX86(p, env) = {o[i] : i \in Nat}
  BY <1>5 DEF OutcomesX86
<1>7. QED
  BY <1>4, <1>6

LEMMA OutcomesX86Observed ==
  ASSUME NEW p \in CodeX86, NEW q \in CodeX86, NEW env \in [Vars -> Num],
         OutcomesX86(p, env) = OutcomesX86(q, env)
  PROVE  \A n \in Nat : \E m \in Nat : \A k \in Nat : k >= m =>
           ObservationsX86(p, env, n) \subseteq ObservationsX86(q, env, k)
<1>1. PICK o : /\ \A n \in Nat : ObservationsX86(p, env, n) = {o[i] : i \in 0..n}
               /\ OutcomesX86(p, env) = {o[i] : i \in Nat}
  BY TrajectoryX86
<1>2. PICK u : /\ \A n \in Nat : ObservationsX86(q, env, n) = {u[i] : i \in 0..n}
               /\ OutcomesX86(q, env) = {u[i] : i \in Nat}
  BY TrajectoryX86
<1>3. \A i \in Nat : \E j \in Nat : o[i] = u[j]
  BY <1>1, <1>2
<1>4. ASSUME NEW n \in Nat
      PROVE  \E m \in Nat : \A k \in Nat : k >= m =>
               ObservationsX86(p, env, n) \subseteq ObservationsX86(q, env, k)
  <2>1. PICK m \in Nat : Within(o, n, u, m)
    BY <1>3, SeenWithin
  <2>2. ASSUME NEW k \in Nat, k >= m
        PROVE  ObservationsX86(p, env, n) \subseteq ObservationsX86(q, env, k)
    <3>1. \A i \in 0..n : \E j \in 0..k : o[i] = u[j]
      BY <2>1, <2>2 DEF Within
    <3>2. QED
      BY <1>1, <1>2, <3>1
  <2>3. QED
    BY <2>2
<1>5. QED
  BY <1>4

\* Equivalent blocks are the same in every environment and number of steps.
LEMMA EquivalentIsSame ==
  ASSUME NEW p \in CodeX86, original \in CodeX86, EquivalentX86(original, p), More = Nat
  PROVE  Same(p)
<1> SUFFICES ASSUME NEW env \in Envs, NEW n \in Steps
             PROVE  \E m \in More : /\ ObservationsX86(original, env, n) \subseteq ObservationsX86(p, env, m)
                                    /\ ObservationsX86(p, env, n) \subseteq ObservationsX86(original, env, m)
  BY DEF Same
<1>1. env \in [Vars -> Num] /\ n \in Nat /\ OutcomesX86(original, env) = OutcomesX86(p, env)
  BY X86ConditionalsAssumption DEF EquivalentX86
<1>2. PICK m1 \in Nat : \A k \in Nat : k >= m1 =>
        ObservationsX86(original, env, n) \subseteq ObservationsX86(p, env, k)
  BY <1>1, OutcomesX86Observed
<1>3. PICK m2 \in Nat : \A k \in Nat : k >= m2 =>
        ObservationsX86(p, env, n) \subseteq ObservationsX86(original, env, k)
  BY <1>1, OutcomesX86Observed
<1>4. m1 + m2 \in Nat /\ m1 + m2 >= m1 /\ m1 + m2 >= m2
  OBVIOUS
<1>5. QED
  BY <1>2, <1>3, <1>4

\* The flags set by the comparison at i are still there, and read, at j.
Carried(p, i, j) ==
  /\ p[i].id = "X86_CMP"
  /\ \A k \in i + 1..j - 1 : p[k].id \notin Compared \cup {"X86_CMP"} /\ ~ClobbersFlags(p[k])
  /\ \A k \in i + 1..j : p[k].id # "LABEL"

\* Whatever reads the flags has a comparison to read them from.
FlagsOk(p) ==
  \A j \in 1..Len(p) : p[j].id \in FlagReaders => \E i \in 1..j - 1 : Carried(p, i, j)

\* Flags that somebody may still read are the same.
FlagsAgree(p, s, t) ==
  \A i \in 1..s.pc - 1 : Carried(p, i, s.pc) => s.flags = t.flags /\ s.flags.by = "cmp"

LEMMA ReadersAgree ==
  ASSUME NEW p \in CodeX86, FlagsOk(p), NEW s \in StatesX86(p), NEW t,
         FlagsAgree(p, s, t), p[s.pc].id \in FlagReaders
  PROVE  s.flags = t.flags /\ s.flags.by = "cmp"
<1>1. s.pc \in 1..Len(p)
  BY StateX86Fields
<1>2. PICK i \in 1..s.pc - 1 : Carried(p, i, s.pc)
  BY <1>1 DEF FlagsOk
<1>3. QED
  BY <1>2 DEF FlagsAgree

\* The same operation does the same in states that agree on what it reads.
DoesAlike(op, D, s, t) ==
  /\ Loses(op, s.flags) <=> Loses(op, t.flags)
  /\ Sets(op, s.flags) <=> Sets(op, t.flags)
  /\ Jumped(op, s.env, s.flags) <=> Jumped(op, t.env, t.flags)
  /\ Stops(op, s.flags) <=> Stops(op, t.flags)
  /\ Sets(op, s.flags) /\ op.out \notin D => ValueSet(op, s.env, s.flags) = ValueSet(op, t.env, t.flags)
  /\ TraceNext(op, s.env, s.flags, s.trace) = TraceNext(op, t.env, t.flags, t.trace)
  /\ op.id = "X86_CMP" => FlagsNext(op, s.env, s.flags) = FlagsNext(op, t.env, t.flags)

SameOff(D, env1, env2) == \A v \in Vars \ D : env1[v] = env2[v]
NoneRead(D, args) == \A v \in D : Var(v) \notin ToSet(args)
EvalAlike(args, env1, env2) == \A i \in 1..Len(args) : Eval(env1, args[i]) = Eval(env2, args[i])

LEMMA ArgsAlike ==
  ASSUME NEW args \in Seq(Value), NEW D \in SUBSET Vars, NEW env1, NEW env2,
         SameOff(D, env1, env2), NoneRead(D, args)
  PROVE  EvalAlike(args, env1, env2)
<1> SUFFICES ASSUME NEW i \in 1..Len(args)
             PROVE  Eval(env1, args[i]) = Eval(env2, args[i])
  BY DEF EvalAlike
<1>1. args[i] \in Value /\ args[i] \in ToSet(args)
  BY DEF ToSet
<1>2. CASE args[i] \in [kind : {"var"}, n : Vars]
  <2>1. args[i].n \in Vars /\ args[i].kind = "var" /\ args[i] = [kind |-> "var", n |-> args[i].n]
    BY <1>2
  <2>2. args[i].n \notin D
    BY <1>1, <2>1 DEF Var, NoneRead
  <2>3. QED
    BY <2>1, <2>2 DEF Eval, SameOff
<1>3. CASE args[i] \in [kind : {"imm"}, n : Num]
  BY <1>3 DEF Eval
<1>4. QED
  BY <1>1, <1>2, <1>3 DEF Value

LEMMA OpDoesAlike ==
  ASSUME NEW op \in OpX86, NEW D \in SUBSET Vars, NEW s, NEW t, Agree(D, s, t),
         \A v \in D : ~Reads(op, v),
         op.id \in FlagReaders => s.flags = t.flags /\ s.flags.by = "cmp"
  PROVE  DoesAlike(op, D, s, t)
<1>1. s.trace = t.trace /\ \A v \in Vars \ D : s.env[v] = t.env[v]
  BY DEF Agree
<1>2. SameOff(D, s.env, t.env) /\ NoneRead(D, op.args)
  BY <1>1 DEF Reads, SameOff, NoneRead
<1>3. CASE op.id \in Compared
  <2>1. op.args \in Seq(Value) /\ Len(op.args) = 2
    BY <1>3, OpX86Fields
  <2>2. Eval(s.env, op.args[1]) = Eval(t.env, op.args[1]) /\ Eval(s.env, op.args[2]) = Eval(t.env, op.args[2])
    <3>1. EvalAlike(op.args, s.env, t.env)
      BY <1>2, <2>1, ArgsAlike
    <3>2. QED
      BY <2>1, <3>1 DEF EvalAlike
  <2>3. CompareResult(s.env, op) = CompareResult(t.env, op)
    BY <2>2 DEF CompareResult
  <2>4. op.id \notin FlagReaders \cup {"X86_CMP", "STORE", "RETURN", "GOTO", "COND", "X86_JMPCC"}
    BY <1>3, ComparedIds DEF FlagReaders
  <2>5. ~Loses(op, s.flags) /\ ~Loses(op, t.flags)
    BY <2>4 DEF Loses
  <2>6. ~Stops(op, s.flags) /\ ~Stops(op, t.flags)
    BY <2>4, <2>5 DEF Stops
  <2>7. Sets(op, s.flags) /\ Sets(op, t.flags) /\ ~Jumped(op, s.env, s.flags) /\ ~Jumped(op, t.env, t.flags)
    BY <1>3, <2>4 DEF Sets, Jumped
  <2>8. ValueSet(op, s.env, s.flags) = ValueSet(op, t.env, t.flags)
    BY <1>3, <2>3 DEF ValueSet
  <2>9. TraceNext(op, s.env, s.flags, s.trace) = TraceNext(op, t.env, t.flags, t.trace)
    BY <1>1, <2>4, <2>5 DEF TraceNext
  <2>10. QED
    BY <2>4, <2>5, <2>6, <2>7, <2>8, <2>9 DEF DoesAlike
<1>4. CASE op.id = "X86_CMP"
  <2>1. op.args \in Seq(Value) /\ Len(op.args) = 2
    BY <1>4, OpX86Fields
  <2>2. Eval(s.env, op.args[1]) = Eval(t.env, op.args[1]) /\ Eval(s.env, op.args[2]) = Eval(t.env, op.args[2])
    <3>1. EvalAlike(op.args, s.env, t.env)
      BY <1>2, <2>1, ArgsAlike
    <3>2. QED
      BY <2>1, <3>1 DEF EvalAlike
  <2>3. op.id \notin FlagReaders \cup Compared \cup Pure \cup {"STORE", "RETURN", "GOTO", "COND"}
    BY <1>4, ComparedIds DEF FlagReaders, Pure
  <2>4. ~Loses(op, s.flags) /\ ~Loses(op, t.flags)
    BY <2>3 DEF Loses
  <2>5. ~Stops(op, s.flags) /\ ~Stops(op, t.flags)
    BY <2>3, <2>4 DEF Stops
  <2>6. ~Sets(op, s.flags) /\ ~Sets(op, t.flags) /\ ~Jumped(op, s.env, s.flags) /\ ~Jumped(op, t.env, t.flags)
    BY <1>4, <2>3 DEF Sets, Jumped
  <2>7. TraceNext(op, s.env, s.flags, s.trace) = TraceNext(op, t.env, t.flags, t.trace)
    BY <1>1, <2>3, <2>4 DEF TraceNext
  <2>8. FlagsNext(op, s.env, s.flags) = FlagsNext(op, t.env, t.flags)
    BY <1>4, <2>2 DEF FlagsNext, FlagsAfter
  <2>9. QED
    BY <2>4, <2>5, <2>6, <2>7, <2>8 DEF DoesAlike
<1>5. CASE op.id \in FlagReaders
  <2>1. s.flags = t.flags /\ s.flags.by = "cmp"
    BY <1>5
  <2>2. op.id \notin Compared \cup Pure \cup {"X86_CMP", "GOTO", "COND", "STORE", "RETURN"}
    BY <1>5, ComparedIds DEF FlagReaders, Pure
  <2>3. ~Loses(op, s.flags)
    BY <2>1 DEF Loses
  <2>4. TraceNext(op, s.env, s.flags, s.trace) = TraceNext(op, t.env, s.flags, t.trace)
    BY <1>1, <2>2, <2>3 DEF TraceNext
  <2>5. Jumped(op, s.env, s.flags) <=> Jumped(op, t.env, s.flags)
    BY <2>2 DEF Jumped
  <2>6. Sets(op, s.flags) => ValueSet(op, s.env, s.flags) = ValueSet(op, t.env, s.flags)
    <3>1. CASE op.id = "X86_SETCC"
      BY <2>2, <3>1 DEF ValueSet
    <3>2. CASE op.id = "X86_CMOV"
      <4>1. op.args = <<op.args[1], op.args[2]>> /\ op.args[2] \in Value
        BY <3>2, OpX86Fields
      <4>2. op.args[2] \in ToSet(op.args)
        <5>1. 2 \in DOMAIN op.args
          BY <4>1
        <5>2. QED
          BY <5>1 DEF ToSet
      <4>3. <<op.args[2]>> \in Seq(Value) /\ Len(<<op.args[2]>>) = 1 /\ <<op.args[2]>>[1] = op.args[2]
        BY <4>1
      <4>4. NoneRead(D, <<op.args[2]>>)
        BY <1>2, <4>2 DEF ToSet, NoneRead
      <4>5. Eval(s.env, op.args[2]) = Eval(t.env, op.args[2])
        <5>1. EvalAlike(<<op.args[2]>>, s.env, t.env)
          BY <1>2, <4>3, <4>4, ArgsAlike
        <5>2. QED
          BY <4>3, <5>1 DEF EvalAlike
      <4>6. QED
        BY <2>2, <3>2, <4>5 DEF ValueSet
    <3>3. CASE op.id = "X86_JMPCC"
      BY <2>2, <3>3 DEF Sets
    <3>4. QED
      BY <1>5, <3>1, <3>2, <3>3 DEF FlagReaders
  <2> DEFINE f == s.flags
  <2>7. t.flags = f /\ s.flags = f
    BY <2>1
  <2> HIDE DEF f
  <2>8. QED
    BY <2>2, <2>4, <2>5, <2>6, <2>7 DEF DoesAlike
<1>6. CASE op.id \in Ids
  <2>1. op \in Op /\ op.id \notin {"X86_CMP"} \cup Compared \cup FlagReaders
    BY <1>6, OpX86Fields, ComparedIds DEF Ids, Pure, Jumps, FlagReaders
  <2>2. op.args \in Seq(Value) /\ DOMAIN op.args = 1..Len(op.args)
    BY <2>1, OpFields
  <2>3. \A i \in 1..Len(op.args) : Eval(s.env, op.args[i]) = Eval(t.env, op.args[i])
    <3>1. EvalAlike(op.args, s.env, t.env)
      BY <1>2, <2>2, ArgsAlike
    <3>2. QED
      BY <3>1 DEF EvalAlike
  <2>4. op.id \in Pure /\ op.out \notin D => ValueSet(op, s.env, s.flags) = ValueSet(op, t.env, t.flags)
    <3> SUFFICES ASSUME op.id \in Pure, op.out \notin D
                 PROVE  ValueSet(op, s.env, s.flags) = ValueSet(op, t.env, t.flags)
      OBVIOUS
    <3>1. op.out \in Vars
      BY <2>1, OpFields
    <3>2. s.env[op.out] = t.env[op.out] /\ Alike(op, s.env, op, t.env)
      BY <1>1, <2>3, <3>1 DEF Alike
    <3>3. Result(s.env, op) = Result(t.env, op)
      BY <2>1, <3>2, ResultAlike
    <3>4. QED
      BY <2>1, <3>3 DEF ValueSet, FlagReaders
  <2>5. Taken(op, s.env) <=> Taken(op, t.env)
    BY <2>1, <2>3, OpFields DEF Taken
  <2>6. ~Loses(op, s.flags) /\ ~Loses(op, t.flags)
    BY <2>1 DEF Loses
  <2>7. TraceNext(op, s.env, s.flags, s.trace) = TraceNext(op, t.env, t.flags, t.trace)
    <3>1. CASE op.id = "STORE"
      <4>1. Eval(s.env, op.args[1]) = Eval(t.env, op.args[1])
        BY <2>1, <2>3, <3>1, OpFields
      <4>2. QED
        BY <1>1, <2>6, <3>1, <4>1 DEF TraceNext
    <3>2. CASE op.id = "RETURN"
      <4> DEFINE a == [i \in DOMAIN op.args |-> Eval(s.env, op.args[i])]
                 b == [i \in DOMAIN op.args |-> Eval(t.env, op.args[i])]
      <4>1. a = b
        BY <2>2, <2>3
      <4>2. TraceNext(op, s.env, s.flags, s.trace) = s.trace \o a
        BY <2>6, <3>2 DEF TraceNext
      <4>3. TraceNext(op, t.env, t.flags, t.trace) = t.trace \o b
        BY <2>6, <3>2 DEF TraceNext
      <4> HIDE DEF a, b
      <4>4. QED
        BY <1>1, <4>1, <4>2, <4>3
    <3>3. CASE op.id \notin {"STORE", "RETURN"}
      BY <1>1, <2>6, <3>3 DEF TraceNext
    <3>4. QED
      BY <3>1, <3>2, <3>3
  <2>8. /\ Sets(op, s.flags) <=> op.id \in Pure
        /\ Sets(op, t.flags) <=> op.id \in Pure
    BY <2>1 DEF Sets, FlagReaders
  <2>9. /\ Jumped(op, s.env, s.flags) <=> Taken(op, s.env)
        /\ Jumped(op, t.env, t.flags) <=> Taken(op, t.env)
    BY <2>1 DEF Jumped, Taken, FlagReaders
  <2>10. /\ Stops(op, s.flags) <=> op.id = "RETURN"
         /\ Stops(op, t.flags) <=> op.id = "RETURN"
    BY <2>6 DEF Stops
  <2>11. QED
    BY <2>1, <2>4, <2>5, <2>6, <2>7, <2>8, <2>9, <2>10 DEF DoesAlike
<1>7. QED
  BY <1>3, <1>4, <1>5, <1>6, OpX86Fields

\* Both go on to the next operation, both stop, or both jump.
Together(p, q, s, t, n, m) ==
  \/ n.pc = s.pc + 1 /\ m.pc = t.pc + 1 /\ ~EndsFlow(p[s.pc])
  \/ n.pc = s.pc /\ m.pc = t.pc /\ n.done
  \/ /\ p[s.pc].id \in JumpsX86
     /\ n.pc = LabelAt(p, p[s.pc].label) /\ m.pc = LabelAt(q, p[s.pc].label)

\* What is still there behind an operation was there before it, or it set it.
LEMMA CarriedOn ==
  ASSUME NEW p, NEW j \in Nat, NEW i \in 1..j, Carried(p, i, j + 1)
  PROVE  \/ i = j /\ p[j].id = "X86_CMP"
         \/ i \in 1..j - 1 /\ Carried(p, i, j) /\ p[j].id # "X86_CMP" /\ ~ClobbersFlags(p[j])
  BY DEF Carried

LEMMA StepsAlike ==
  ASSUME NEW p \in CodeX86, FlagsOk(p), NEW q \in CodeX86, NEW D \in SUBSET Vars,
         NEW s \in StatesX86(p), NEW t \in StatesX86(q), ~s.done,
         Agree(D, s, t), FlagsAgree(p, s, t),
         q[t.pc] = p[s.pc], \A v \in D : ~Reads(p[s.pc], v)
  PROVE  /\ Agree(D, ExecX86(p, s), ExecX86(q, t))
         /\ FlagsAgree(p, ExecX86(p, s), ExecX86(q, t))
         /\ Together(p, q, s, t, ExecX86(p, s), ExecX86(q, t))
<1> DEFINE op == p[s.pc]
           n == ExecX86(p, s)
           m == ExecX86(q, t)
<1> SUFFICES Agree(D, n, m) /\ FlagsAgree(p, n, m) /\ Together(p, q, s, t, n, m)
  OBVIOUS
<1>1. /\ s.pc \in 1..Len(p) /\ op \in OpX86 /\ s.env \in [Vars -> Num] /\ t.env \in [Vars -> Num]
      /\ t.pc \in 1..Len(q) /\ q[t.pc] = op
      /\ s.trace = t.trace /\ s.done = FALSE /\ t.done = FALSE
      /\ \A v \in Vars \ D : s.env[v] = t.env[v]
      /\ s.flags \in Flags
  BY StateX86Fields DEF Agree
<1>2. op.id \in FlagReaders => s.flags = t.flags /\ s.flags.by = "cmp"
  BY ReadersAgree
<1>3. DoesAlike(op, D, s, t)
  BY <1>1, <1>2, OpDoesAlike
<1>4. Parts(op, s, n) /\ Parts(op, t, m)
  BY <1>1, ExecEffect DEF Effect
<1>5. /\ n.pc \in 1..Len(p)
      /\ \/ n.pc = s.pc + 1 /\ ~Stops(op, s.flags) /\ ~EndsFlow(op) /\ ~Jumped(op, s.env, s.flags)
         \/ n.pc = s.pc /\ Stops(op, s.flags)
         \/ /\ Jumped(op, s.env, s.flags) /\ ~Stops(op, s.flags) /\ op.id \in JumpsX86
            /\ n.pc = LabelAt(p, op.label) /\ p[n.pc].id = "LABEL"
  BY <1>1, PlaceNext
<1>6. m.pc = IF Jumped(op, t.env, t.flags) THEN LabelAt(q, op.label)
             ELSE IF Stops(op, t.flags) THEN t.pc ELSE t.pc + 1
  BY <1>1, ExecEffect DEF Effect
<1> HIDE DEF op, n, m
<1>7. Agree(D, n, m)
  <2>1. n.trace = m.trace
    BY <1>3, <1>4 DEF Parts, DoesAlike
  <2>2. n.done = m.done
    BY <1>3, <1>4 DEF Parts, DoesAlike
  <2>3. ASSUME NEW v \in Vars \ D
        PROVE  n.env[v] = m.env[v]
    <3>1. CASE Sets(op, s.flags)
      <4>1. /\ n.env = [s.env EXCEPT ![op.out] = ValueSet(op, s.env, s.flags)]
            /\ m.env = [t.env EXCEPT ![op.out] = ValueSet(op, t.env, t.flags)]
        BY <1>3, <1>4, <3>1 DEF Parts, EnvNext, DoesAlike
      <4>2. op.out \notin D => ValueSet(op, s.env, s.flags) = ValueSet(op, t.env, t.flags)
        BY <1>3, <3>1 DEF DoesAlike
      <4>3. QED
        BY <1>1, <4>1, <4>2
    <3>2. CASE ~Sets(op, s.flags)
      BY <1>1, <1>3, <1>4, <3>2 DEF Parts, EnvNext, DoesAlike
    <3>3. QED
      BY <3>1, <3>2
  <2>4. QED
    BY <2>1, <2>2, <2>3 DEF Agree
<1>8. FlagsAgree(p, n, m)
  <2> SUFFICES ASSUME NEW i \in 1..n.pc - 1, Carried(p, i, n.pc)
               PROVE  n.flags = m.flags /\ n.flags.by = "cmp"
    BY DEF FlagsAgree
  <2>0. /\ n.flags = FlagsNext(op, s.env, s.flags) /\ m.flags = FlagsNext(op, t.env, t.flags)
        /\ op = p[s.pc]
    BY <1>4 DEF Parts, op
  <2>1. CASE n.pc = s.pc + 1
    <3>1. s.pc \in Nat /\ i \in 1..s.pc /\ Carried(p, i, s.pc + 1)
      BY <1>1, <2>1
    <3>2. \/ i = s.pc /\ op.id = "X86_CMP"
          \/ i \in 1..s.pc - 1 /\ Carried(p, i, s.pc) /\ op.id # "X86_CMP" /\ ~ClobbersFlags(op)
      BY <2>0, <3>1, CarriedOn
    <3>3. CASE op.id = "X86_CMP"
      <4>1. n.flags = m.flags
        BY <1>3, <2>0, <3>3 DEF DoesAlike
      <4>2. n.flags.by = "cmp"
        BY <2>0, <3>3 DEF FlagsNext, FlagsAfter
      <4>3. QED
        BY <4>1, <4>2
    <3>4. CASE i \in 1..s.pc - 1 /\ Carried(p, i, s.pc) /\ op.id # "X86_CMP" /\ ~ClobbersFlags(op)
      <4>1. s.flags = t.flags /\ s.flags.by = "cmp"
        BY <3>4 DEF FlagsAgree
      <4>2. QED
        BY <2>0, <3>4, <4>1 DEF FlagsNext
    <3>5. QED
      BY <3>2, <3>3, <3>4
  <2>2. CASE n.pc = s.pc /\ Stops(op, s.flags)
    <3>1. s.flags = t.flags /\ s.flags.by = "cmp"
      BY <2>2 DEF FlagsAgree
    <3>2. op.id = "RETURN" \/ op.id \in FlagReaders
      BY <2>2 DEF Stops, Loses
    <3>3. op.id # "X86_CMP" /\ ~ClobbersFlags(op)
      BY <3>2, ClobbersWhat DEF FlagReaders
    <3>4. QED
      BY <2>0, <3>1, <3>3 DEF FlagsNext
  <2>3. CASE p[n.pc].id = "LABEL"
    <3>1. n.pc \in i + 1..n.pc
      BY <1>5
    <3>2. QED
      BY <2>3, <3>1 DEF Carried
  <2>4. QED
    BY <1>5, <2>1, <2>2, <2>3
<1>9. Together(p, q, s, t, n, m)
  <2>1. (Jumped(op, s.env, s.flags) <=> Jumped(op, t.env, t.flags)) /\ (Stops(op, s.flags) <=> Stops(op, t.flags))
    BY <1>3 DEF DoesAlike
  <2>2. CASE n.pc = s.pc + 1 /\ ~Stops(op, s.flags) /\ ~EndsFlow(op) /\ ~Jumped(op, s.env, s.flags)
    BY <1>6, <2>1, <2>2 DEF Together, op
  <2>3. CASE n.pc = s.pc /\ Stops(op, s.flags)
    <3>1. ~Jumped(op, s.env, s.flags)
      BY <2>3 DEF Stops, Jumped, Loses, FlagReaders
    <3>2. n.done
      BY <1>4, <2>3 DEF Parts
    <3>3. QED
      BY <1>6, <2>1, <2>3, <3>1, <3>2 DEF Together
  <2>4. CASE Jumped(op, s.env, s.flags) /\ op.id \in JumpsX86 /\ n.pc = LabelAt(p, op.label)
    BY <1>6, <2>1, <2>4 DEF Together, op
  <2>5. QED
    BY <1>5, <2>2, <2>3, <2>4
<1>10. QED
  BY <1>7, <1>8, <1>9

--------------------------------------------------------------------------------
(***************************************************************************)
(* A comparison becomes two operations: one sets the flags, the next one     *)
(* the output.                                                              *)
(***************************************************************************)
SetsOut(op) == Assign("X86_SETCC", op.out, <<Cc(CcOf[op.id])>>)
Split(p, i) == InsertAfter(ReplaceAt(p, i, FlagsOp(p[i])), i, SetsOut(p[i]))

\* Where the operation at k is when one has been inserted behind i.
Up(i, k) == IF k <= i THEN k ELSE k + 1

LEMMA ComparisonFields ==
  ASSUME NEW op \in OpX86, op.id \in Compared
  PROVE  /\ op.id \in DOMAIN MeansOf /\ CcOf[op.id] = MeansOf[op.id] /\ CcOf[op.id] \in Codes
         /\ op.out \in Vars /\ op.args \in Tuples(2)
         /\ FlagsOp(op) = [id |-> "X86_CMP", out |-> NoVar, args |-> op.args, label |-> NoLabel]
         /\ SetsOut(op) = [id |-> "X86_SETCC", out |-> op.out, args |-> <<Cc(CcOf[op.id])>>, label |-> NoLabel]
         /\ FlagsOp(op) \in OpX86 /\ SetsOut(op) \in OpX86
<1>1. op.id # "BITEXTRACT"
  BY NoBitTest
<1>2. op.id \in DOMAIN MeansOf /\ op.id \in Comparisons
  BY <1>1, ComparisonsAreCompared DEF Compared
<1>3. CcOf[op.id] = MeansOf[op.id] /\ CcOf[op.id] \in Codes
  BY <1>2, CodesKnown DEF CcOf, MeansOf
<1>4. op.out \in Vars /\ op.args \in Tuples(2)
  <2>1. op.id \notin Ids \cup {"X86_CMP"} \cup FlagReaders
    BY ComparedIds DEF Ids, Pure, Jumps, FlagReaders
  <2>2. op \notin Op
    BY <2>1, OpFields
  <2>3. op \in SourceOp \/ op.id \in {"X86_CMP"} \cup FlagReaders
    <3>1. op \in SourceOp \/ op \in CmpOps \/ op \in SetccOps \/ op \in JmpccOps \/ op \in CmovOps
      BY DEF OpX86
    <3>2. op \in SetccOps \/ op \in JmpccOps \/ op \in CmovOps => op.id \in FlagReaders
      BY DEF FlagReaders, SetccOps, JmpccOps, CmovOps
    <3>3. op \in CmpOps => op.id = "X86_CMP"
      BY DEF CmpOps
    <3>4. QED
      BY <3>1, <3>2, <3>3
  <2>4. op \in [id : Compared, out : Vars, args : Tuples(2), label : {NoLabel}]
    BY <2>1, <2>2, <2>3 DEF SourceOp
  <2>5. QED
    BY <2>4
<1>5. FlagsOp(op) = [id |-> "X86_CMP", out |-> NoVar, args |-> op.args, label |-> NoLabel]
  BY <1>1 DEF FlagsOp, Do
<1>6. SetsOut(op) = [id |-> "X86_SETCC", out |-> op.out, args |-> <<Cc(CcOf[op.id])>>, label |-> NoLabel]
  BY DEF SetsOut, Assign
<1>7. FlagsOp(op) \in CmpOps
  BY <1>4, <1>5 DEF CmpOps
<1>8. SetsOut(op) \in SetccOps
  <2>1. Cc(CcOf[op.id]) \in CcArg
    BY <1>3 DEF Cc, CcArg
  <2>2. <<Cc(CcOf[op.id])>> \in {<<c>> : c \in CcArg}
    BY <2>1
  <2>3. QED
    BY <1>4, <1>6, <2>2 DEF SetccOps
<1>9. FlagsOp(op) \in OpX86 /\ SetsOut(op) \in OpX86
  BY <1>7, <1>8 DEF OpX86
<1>10. QED
  BY <1>2, <1>3, <1>4, <1>5, <1>6, <1>9

IsInsert(S, p, i, op, q) ==
  /\ q \in Seq(S) /\ Len(q) = Len(p) + 1
  /\ \A j \in 1..Len(q) : q[j] = IF j <= i THEN p[j] ELSE IF j = i + 1 THEN op ELSE p[j - 1]

LEMMA InsertIs ==
  ASSUME NEW S, NEW p \in Seq(S), NEW i \in 0..Len(p), NEW op \in S
  PROVE  IsInsert(S, p, i, op, InsertAfter(p, i, op))
  BY Inserted DEF IsInsert

IsReplaced(S, p, i, op, q) ==
  /\ q \in Seq(S) /\ Len(q) = Len(p)
  /\ \A j \in 1..Len(q) : q[j] = IF j = i THEN op ELSE p[j]

LEMMA ReplaceIs ==
  ASSUME NEW S, NEW p \in Seq(S), NEW i \in 1..Len(p), NEW op \in S
  PROVE  IsReplaced(S, p, i, op, ReplaceAt(p, i, op))
  BY Replaced DEF IsReplaced

\* q is p with the comparison at i in two.
IsSplit(p, i, q) ==
  /\ i \in 1..Len(p) /\ p[i].id \in Compared
  /\ q \in Seq(OpX86) /\ Len(q) = Len(p) + 1
  /\ q[i] = FlagsOp(p[i]) /\ q[i + 1] = SetsOut(p[i])
  /\ \A k \in 1..Len(p) : k # i => q[Up(i, k)] = p[k]

LEMMA SplitIs ==
  ASSUME NEW p \in CodeX86, NEW i \in 1..Len(p), p[i].id \in Compared
  PROVE  IsSplit(p, i, Split(p, i))
<1> DEFINE r == ReplaceAt(p, i, FlagsOp(p[i]))
           q == Split(p, i)
<1>1. p \in Seq(OpX86) /\ Len(p) \in Nat /\ p[i] \in OpX86
  BY CodeX86Type
<1>2. FlagsOp(p[i]) \in OpX86 /\ SetsOut(p[i]) \in OpX86
  BY <1>1, ComparisonFields
<1>3. r \in Seq(OpX86) /\ Len(r) = Len(p) /\ \A j \in 1..Len(r) : r[j] = IF j = i THEN FlagsOp(p[i]) ELSE p[j]
  <2>1. IsReplaced(OpX86, p, i, FlagsOp(p[i]), r)
    BY <1>1, <1>2, ReplaceIs
  <2>2. QED
    BY <2>1 DEF IsReplaced
<1>4. q = InsertAfter(r, i, SetsOut(p[i]))
  BY DEF Split
<1> DEFINE x == SetsOut(p[i])
<1>5. i \in 0..Len(r) /\ r \in Seq(OpX86) /\ x \in OpX86 /\ q = InsertAfter(r, i, x)
  BY <1>1, <1>2, <1>3, <1>4
<1> HIDE DEF r, q, x
<1>6. /\ q \in Seq(OpX86) /\ Len(q) = Len(r) + 1
      /\ \A j \in 1..Len(q) : q[j] = IF j <= i THEN r[j] ELSE IF j = i + 1 THEN x ELSE r[j - 1]
  <2>1. IsInsert(OpX86, r, i, x, InsertAfter(r, i, x))
    BY <1>5, InsertIs
  <2>2. QED
    BY <1>5, <2>1 DEF IsInsert
<1>7. q[i] = FlagsOp(p[i])
  <2>1. i \in 1..Len(q) /\ i <= i /\ i \in 1..Len(r)
    BY <1>1, <1>3, <1>6
  <2>2. QED
    BY <1>3, <1>6, <2>1
<1>8. q[i + 1] = SetsOut(p[i])
  <2>1. i + 1 \in 1..Len(q) /\ ~(i + 1 <= i)
    BY <1>1, <1>3, <1>6
  <2>2. QED
    BY <1>6, <2>1 DEF x
<1>9. ASSUME NEW k \in 1..Len(p), k # i
      PROVE  q[Up(i, k)] = p[k]
  <2>1. CASE k < i
    <3>1. Up(i, k) = k /\ k \in 1..Len(q) /\ k <= i /\ k \in 1..Len(r)
      BY <1>1, <1>3, <1>6, <2>1 DEF Up
    <3>2. QED
      BY <1>3, <1>6, <1>9, <3>1
  <2>2. CASE k > i
    <3>1. Up(i, k) = k + 1 /\ k + 1 \in 1..Len(q) /\ ~(k + 1 <= i) /\ k + 1 # i + 1 /\ k + 1 - 1 = k /\ k \in 1..Len(r)
      BY <1>1, <1>3, <1>6, <2>2 DEF Up
    <3>2. QED
      BY <1>3, <1>6, <1>9, <3>1
  <2>3. QED
    BY <1>9, <2>1, <2>2
<1>10. QED
  BY <1>1, <1>3, <1>6, <1>7, <1>8, <1>9 DEF IsSplit, q

\* Every operation of the split block is one of the two, or was there before.
LEMMA SplitPlaces ==
  ASSUME NEW p \in CodeX86, NEW i, NEW q, IsSplit(p, i, q), NEW k \in 1..Len(q), k \notin {i, i + 1}
  PROVE  \E j \in 1..Len(p) : j # i /\ k = Up(i, j) /\ q[k] = p[j]
<1>1. Len(p) \in Nat /\ i \in 1..Len(p) /\ Len(q) = Len(p) + 1
  BY CodeX86Type DEF IsSplit
<1>2. CASE k < i
  <2>1. k \in 1..Len(p) /\ k # i /\ Up(i, k) = k
    BY <1>1, <1>2 DEF Up
  <2>2. QED
    BY <2>1 DEF IsSplit
<1>3. CASE k > i + 1
  <2>1. k - 1 \in 1..Len(p) /\ k - 1 # i /\ Up(i, k - 1) = k
    BY <1>1, <1>3 DEF Up
  <2>2. QED
    BY <2>1 DEF IsSplit
<1>4. QED
  BY <1>1, <1>2, <1>3

LEMMA SplitIds ==
  ASSUME NEW p \in CodeX86, NEW i, NEW q, IsSplit(p, i, q)
  PROVE  /\ q[i].id = "X86_CMP" /\ q[i + 1].id = "X86_SETCC"
         /\ p[i].id \notin {"LABEL", "X86_CMP"} \cup JumpsX86 \cup FlagReaders
         /\ ~EndsFlow(p[i])
<1>1. p[i] \in OpX86 /\ p[i].id \in Compared
  BY CodeX86Type DEF IsSplit
<1>2. QED
  BY <1>1, ComparisonFields, ComparedIds DEF IsSplit, JumpsX86, Jumps, FlagReaders, EndsFlow

LEMMA SplitCode ==
  ASSUME NEW p \in CodeX86, NEW i, NEW q, IsSplit(p, i, q)
  PROVE  q \in CodeX86
<1>1. /\ Len(p) \in Nat \ {0} /\ i \in 1..Len(p) /\ Len(q) = Len(p) + 1 /\ DOMAIN q = 1..Len(q) /\ DOMAIN p = 1..Len(p)
      /\ q \in Seq(OpX86)
  BY CodeX86Type DEF IsSplit
<1>2. Leaves(q)
  <2>1. i # Len(p)
    BY <1>1, SplitIds, CodeX86Type
  <2>2. Up(i, Len(p)) = Len(q) /\ Len(p) \in 1..Len(p)
    <3> DEFINE n == Len(p)
    <3>0. n \in Nat \ {0} /\ i \in 1..n /\ i # n /\ Len(q) = n + 1
      BY <1>1, <2>1
    <3> HIDE DEF n
    <3>1. n \in Nat \ {0} /\ ~(n <= i) /\ Len(q) = n + 1
      BY <3>0
    <3>2. Up(i, n) = n + 1
      BY <3>1 DEF Up
    <3>3. QED
      BY <3>1, <3>2 DEF n
  <2>3. q[Len(q)] = p[Len(p)]
    BY <2>1, <2>2 DEF IsSplit
  <2>4. EndsFlow(q[Len(q)]) /\ q # <<>>
    BY <1>1, <2>3, CodeX86Type
  <2>5. QED
    BY <2>4 DEF Leaves, Last
<1>3. LabelsUnique(q)
  <2> SUFFICES ASSUME NEW a \in 1..Len(q), NEW b \in 1..Len(q), q[a].id = "LABEL", q[b].id = "LABEL",
                      q[a].label = q[b].label
               PROVE  a = b
    BY <1>1 DEF LabelsUnique
  <2>1. a \notin {i, i + 1} /\ b \notin {i, i + 1}
    BY SplitIds
  <2>2. PICK j \in 1..Len(p) : j # i /\ a = Up(i, j) /\ q[a] = p[j]
    BY <2>1, SplitPlaces
  <2>3. PICK l \in 1..Len(p) : l # i /\ b = Up(i, l) /\ q[b] = p[l]
    BY <2>1, SplitPlaces
  <2>4. j = l
    BY <1>1, <2>2, <2>3, CodeX86Type DEF LabelsUnique
  <2>5. QED
    BY <2>2, <2>3, <2>4
<1>4. ASSUME NEW a \in 1..Len(q), q[a].id \in JumpsX86
      PROVE  Declared(q, q[a].label)
  <2>1. a \notin {i, i + 1}
    BY <1>4, SplitIds DEF JumpsX86, Jumps
  <2>2. PICK j \in 1..Len(p) : j # i /\ a = Up(i, j) /\ q[a] = p[j]
    BY <2>1, SplitPlaces
  <2>3. PICK l \in 1..Len(p) : p[l].id = "LABEL" /\ p[l].label = q[a].label
    BY <1>1, <1>4, <2>2, CodeX86Type DEF Declared
  <2>4. l # i /\ Up(i, l) \in 1..Len(q)
    BY <1>1, <2>3, SplitIds DEF Up
  <2>5. q[Up(i, l)] = p[l]
    BY <2>4 DEF IsSplit
  <2>6. QED
    BY <1>1, <2>3, <2>4, <2>5 DEF Declared
<1>5. QED
  BY <1>1, <1>2, <1>3, <1>4 DEF CodeX86

LEMMA SplitFlagsOk ==
  ASSUME NEW p \in CodeX86, FlagsOk(p), NEW i, NEW q, IsSplit(p, i, q)
  PROVE  FlagsOk(q)
<1>1. Len(p) \in Nat \ {0} /\ i \in 1..Len(p) /\ Len(q) = Len(p) + 1 /\ p[i].id \in Compared
  BY CodeX86Type DEF IsSplit
<1>2. \A k \in 1..Len(p) : k # i => q[Up(i, k)] = p[k]
  BY DEF IsSplit
<1> SUFFICES ASSUME NEW j \in 1..Len(q), q[j].id \in FlagReaders
             PROVE  \E h \in 1..j - 1 : Carried(q, h, j)
  BY DEF FlagsOk
<1>3. CASE j \in {i, i + 1}
  <2>1. j = i + 1
    BY <1>3, SplitIds DEF FlagReaders
  <2>2. Carried(q, i, i + 1)
    <3>1. i + 1..(i + 1) - 1 = {} /\ i + 1..i + 1 = {i + 1}
      BY <1>1
    <3>2. QED
      BY <3>1, SplitIds DEF Carried
  <2>3. QED
    BY <1>1, <2>1, <2>2
<1>4. CASE j \notin {i, i + 1}
  <2>1. PICK l \in 1..Len(p) : l # i /\ j = Up(i, l) /\ q[j] = p[l]
    BY <1>4, SplitPlaces
  <2>2. PICK h \in 1..l - 1 : Carried(p, h, l)
    BY <2>1 DEF FlagsOk
  <2>3. h # i
    BY <2>2, SplitIds DEF Carried
  <2>4. i \notin h + 1..l - 1
    BY <1>1, <2>2 DEF Carried
  <2>5. (i < h \/ i > l) /\ h \in 1..Len(p) /\ h < l
    BY <1>1, <2>1, <2>3, <2>4
  <2> DEFINE d == IF i < h THEN 1 ELSE 0
  <2>6. d \in {0, 1} /\ \A k \in h..l : k # i /\ k \in 1..Len(p) /\ Up(i, k) = k + d
    BY <1>1, <2>1, <2>5 DEF Up
  <2> HIDE DEF d
  <2>7. \A k \in h..l : q[k + d] = p[k]
    BY <1>2, <2>6
  <2>8. h \in h..l /\ l \in h..l /\ j = l + d
    BY <2>1, <2>5, <2>6
  <2>9. Carried(q, h + d, j)
    <3>1. q[h + d].id = "X86_CMP"
      BY <2>2, <2>7, <2>8 DEF Carried
    <3>2. ASSUME NEW k \in (h + d) + 1..j - 1
          PROVE  q[k].id \notin Compared \cup {"X86_CMP"} /\ ~ClobbersFlags(q[k])
      <4>1. k - d \in h + 1..l - 1 /\ k - d \in h..l /\ (k - d) + d = k
        BY <2>6, <2>8
      <4>2. q[k] = p[k - d]
        BY <2>7, <4>1
      <4>3. QED
        BY <2>2, <4>1, <4>2 DEF Carried
    <3>3. ASSUME NEW k \in (h + d) + 1..j
          PROVE  q[k].id # "LABEL"
      <4>1. k - d \in h + 1..l /\ k - d \in h..l /\ (k - d) + d = k
        BY <2>6, <2>8
      <4>2. q[k] = p[k - d]
        BY <2>7, <4>1
      <4>3. QED
        BY <2>2, <4>1, <4>2 DEF Carried
    <3>4. QED
      BY <3>1, <3>2, <3>3 DEF Carried
  <2>10. h + d \in 1..j - 1
    BY <2>5, <2>6, <2>8
  <2>11. QED
    BY <2>9, <2>10
<1>5. QED
  BY <1>3, <1>4

\* A jump leads to the same label.
LEMMA SplitJump ==
  ASSUME NEW p \in CodeX86, NEW i, NEW q \in CodeX86, IsSplit(p, i, q),
         NEW j \in 1..Len(p), p[j].id \in JumpsX86
  PROVE  LabelAt(q, p[j].label) = Up(i, LabelAt(p, p[j].label))
<1> DEFINE l == LabelAt(p, p[j].label)
<1>1. l \in 1..Len(p) /\ p[l].id = "LABEL" /\ p[l].label = p[j].label
  BY JumpFindsLabelX86
<1> HIDE DEF l
<1>2. l # i /\ Len(p) \in Nat /\ i \in 1..Len(p) /\ Len(q) = Len(p) + 1
  <2>1. l # i
    BY <1>1, SplitIds
  <2>2. QED
    BY <2>1, CodeX86Type DEF IsSplit
<1>3. q[Up(i, l)] = p[l] /\ Up(i, l) \in 1..Len(q)
  BY <1>1, <1>2 DEF IsSplit, Up
<1>4. LabelAt(q, q[Up(i, l)].label) = Up(i, l)
  BY <1>1, <1>3, LabelFoundX86
<1>5. QED
  BY <1>1, <1>3, <1>4 DEF l

\* The blocks side by side: nothing has happened to the comparison yet, or the
\* flags have been set and its output has not.
SplitBefore(p, i, s, t) ==
  t.pc = Up(i, s.pc) /\ Agree({}, s, t) /\ FlagsAgree(p, s, t)
SplitBetween(p, i, s, t) ==
  /\ s.pc = i /\ t.pc = i + 1 /\ ~s.done /\ Agree({}, s, t)
  /\ t.flags = [by |-> "cmp", a |-> Eval(s.env, p[i].args[1]), b |-> Eval(s.env, p[i].args[2])]
SplitRelated(p, i, s, t) == SplitBefore(p, i, s, t) \/ SplitBetween(p, i, s, t)

\* Everything else does the same in both.
LEMMA SplitElsewhere ==
  ASSUME NEW p \in CodeX86, FlagsOk(p), NEW i, NEW q \in CodeX86, IsSplit(p, i, q),
         NEW s \in StatesX86(p), NEW t \in StatesX86(q), SplitBefore(p, i, s, t), ~s.done, s.pc # i
  PROVE  SplitBefore(p, i, ExecX86(p, s), ExecX86(q, t))
<1> DEFINE n == ExecX86(p, s)
           m == ExecX86(q, t)
<1>1. Agree({}, s, t) /\ FlagsAgree(p, s, t) /\ t.pc = Up(i, s.pc) /\ s.pc \in 1..Len(p)
  BY StateX86Fields DEF SplitBefore
<1>2. q[t.pc] = p[s.pc]
  BY <1>1 DEF IsSplit
<1>3. Agree({}, n, m) /\ FlagsAgree(p, n, m) /\ Together(p, q, s, t, n, m)
  BY <1>1, <1>2, StepsAlike
<1> HIDE DEF n, m
<1>4. i \in 1..Len(p) /\ Len(p) \in Nat
  BY CodeX86Type DEF IsSplit
<1>5. m.pc = Up(i, n.pc)
  <2>1. CASE n.pc = s.pc + 1 /\ m.pc = t.pc + 1
    BY <1>1, <1>4, <2>1 DEF Up
  <2>2. CASE n.pc = s.pc /\ m.pc = t.pc
    BY <1>1, <2>2
  <2>3. CASE p[s.pc].id \in JumpsX86 /\ n.pc = LabelAt(p, p[s.pc].label) /\ m.pc = LabelAt(q, p[s.pc].label)
    BY <1>1, <2>3, SplitJump
  <2>4. QED
    BY <1>3, <2>1, <2>2, <2>3 DEF Together
<1>6. QED
  BY <1>3, <1>5 DEF SplitBefore, n, m

\* First the flags are set...
LEMMA SplitFirst ==
  ASSUME NEW p \in CodeX86, NEW i, NEW q \in CodeX86, IsSplit(p, i, q),
         NEW s \in StatesX86(p), NEW t \in StatesX86(q), SplitBefore(p, i, s, t), ~s.done, s.pc = i
  PROVE  SplitBetween(p, i, s, ExecX86(q, t))
<1> DEFINE m == ExecX86(q, t)
           op == q[t.pc]
<1>1. /\ Agree({}, s, t) /\ i \in 1..Len(p) /\ p[i] \in OpX86 /\ p[i].id \in Compared /\ t.pc = i
      /\ s.env \in [Vars -> Num] /\ t.env \in [Vars -> Num] /\ ~t.done /\ t.done = FALSE
  BY StateX86Fields, CodeX86Type DEF SplitBefore, IsSplit, Up, Agree
<1>2. s.env = t.env
  BY <1>1 DEF Agree
<1>3. op.id = "X86_CMP" /\ op.args = p[i].args
  BY <1>1, ComparisonFields DEF IsSplit
<1>4. Effect(q, op, t, m)
  BY <1>1, ExecEffect
<1> HIDE DEF op, m
<1>5. /\ ~Sets(op, t.flags) /\ ~Jumped(op, t.env, t.flags) /\ ~Stops(op, t.flags) /\ ~Loses(op, t.flags)
      /\ FlagsNext(op, t.env, t.flags) = [by |-> "cmp", a |-> Eval(t.env, op.args[1]), b |-> Eval(t.env, op.args[2])]
  BY <1>3, CmpEffect
<1>6. TraceNext(op, t.env, t.flags, t.trace) = t.trace
  BY <1>3, <1>5 DEF TraceNext
<1>7. /\ m.pc = i + 1 /\ m.env = t.env /\ m.trace = t.trace /\ m.done = FALSE
      /\ m.flags = [by |-> "cmp", a |-> Eval(s.env, p[i].args[1]), b |-> Eval(s.env, p[i].args[2])]
  <2>1. m.pc = i + 1
    BY <1>1, <1>4, <1>5 DEF Effect
  <2>2. m.env = t.env /\ m.trace = t.trace
    BY <1>4, <1>5, <1>6 DEF Effect, Parts, EnvNext
  <2>3. m.done = FALSE
    BY <1>4, <1>5 DEF Effect, Parts
  <2>4. m.flags = [by |-> "cmp", a |-> Eval(t.env, op.args[1]), b |-> Eval(t.env, op.args[2])]
    BY <1>4, <1>5 DEF Effect, Parts
  <2>5. QED
    BY <1>2, <1>3, <2>1, <2>2, <2>3, <2>4
<1>8. Agree({}, s, m)
  BY <1>1, <1>7 DEF Agree
<1>9. QED
  BY <1>7, <1>8 DEF SplitBetween, m

\* ... then the output, to what the comparison would have set it to.
LEMMA SplitSecond ==
  ASSUME NEW p \in CodeX86, NEW i, NEW q \in CodeX86, IsSplit(p, i, q),
         NEW s \in StatesX86(p), NEW t \in StatesX86(q), SplitBetween(p, i, s, t)
  PROVE  SplitBefore(p, i, ExecX86(p, s), ExecX86(q, t))
<1> DEFINE n == ExecX86(p, s)
           m == ExecX86(q, t)
           c == p[i]
           op == q[t.pc]
<1>1. /\ Agree({}, s, t) /\ i \in 1..Len(p) /\ c \in OpX86 /\ c.id \in Compared /\ t.pc = i + 1 /\ s.pc = i
      /\ s.env \in [Vars -> Num] /\ t.env \in [Vars -> Num] /\ ~t.done /\ ~s.done
  BY StateX86Fields, CodeX86Type DEF SplitBetween, IsSplit, Agree
<1>2. s.env = t.env /\ s.trace = t.trace
  BY <1>1 DEF Agree
<1>3. /\ op.id = "X86_SETCC" /\ op.out = c.out /\ op.args[1] = Cc(CcOf[c.id])
      /\ c.out \in Vars /\ c.id \in DOMAIN MeansOf /\ CcOf[c.id] = MeansOf[c.id]
  BY <1>1, ComparisonFields DEF IsSplit
<1>4. Effect(q, op, t, m) /\ Effect(p, c, s, n)
  BY <1>1, ExecEffect
<1>5. t.flags = [by |-> "cmp", a |-> Eval(s.env, c.args[1]), b |-> Eval(s.env, c.args[2])]
  BY DEF SplitBetween
<1>6. CompareResult(s.env, c) = ToNum(Holds(t.flags, op.args[1]))
  <2>1. c.id # "BITEXTRACT"
    BY <1>1, NoBitTest
  <2>2. CompareResult(s.env, c) = ToNum(Compares(MeansOf[c.id], Eval(s.env, c.args[1]), Eval(s.env, c.args[2])))
    BY <2>1 DEF CompareResult
  <2>3. Holds(t.flags, op.args[1]) = Compares(CcOf[c.id], Eval(s.env, c.args[1]), Eval(s.env, c.args[2]))
    BY <1>3, <1>5 DEF Holds, Cc
  <2>4. QED
    BY <1>3, <2>2, <2>3
<1> HIDE DEF op, c, n, m
<1>7. /\ n.pc = i + 1 /\ n.env = [s.env EXCEPT ![c.out] = CompareResult(s.env, c)]
      /\ n.trace = s.trace /\ n.done = FALSE
  <2>1. /\ ~Loses(c, s.flags) /\ Sets(c, s.flags) /\ ~Jumped(c, s.env, s.flags) /\ ~Stops(c, s.flags)
        /\ ValueSet(c, s.env, s.flags) = CompareResult(s.env, c)
    BY <1>1, ComparedEffect
  <2>2. TraceNext(c, s.env, s.flags, s.trace) = s.trace
    <3>1. c.id \notin {"STORE", "RETURN"}
      BY <1>1, ComparedIds
    <3>2. QED
      BY <2>1, <3>1 DEF TraceNext
  <2>3. QED
    BY <1>1, <1>4, <2>1, <2>2 DEF Effect, Parts, EnvNext
<1>8. /\ m.pc = i + 2 /\ m.env = [t.env EXCEPT ![c.out] = ToNum(Holds(t.flags, op.args[1]))]
      /\ m.trace = t.trace /\ m.done = FALSE
  <2>1. t.flags.by = "cmp" /\ op.id \in FlagReaders
    BY <1>3, <1>5 DEF FlagReaders
  <2>2. /\ ~Loses(op, t.flags) /\ ~Stops(op, t.flags)
        /\ Sets(op, t.flags) /\ ~Jumped(op, t.env, t.flags)
        /\ ValueSet(op, t.env, t.flags) = ToNum(Holds(t.flags, op.args[1]))
    BY <1>3, <2>1, ReaderEffect
  <2>3. TraceNext(op, t.env, t.flags, t.trace) = t.trace
    BY <1>3, <2>2 DEF TraceNext
  <2>4. QED
    BY <1>1, <1>3, <1>4, <2>2, <2>3 DEF Effect, Parts, EnvNext
<1>9. Agree({}, n, m)
  BY <1>2, <1>6, <1>7, <1>8 DEF Agree
<1>10. FlagsAgree(p, n, m)
  <2> SUFFICES ASSUME NEW h \in 1..i, Carried(p, h, i + 1)
               PROVE  FALSE
    BY <1>1, <1>7 DEF FlagsAgree
  <2>1. c.id # "X86_CMP"
    BY <1>1, ComparedIds
  <2>2. h # i
    BY <2>1 DEF Carried, c
  <2>3. i \in h + 1..(i + 1) - 1
    BY <1>1, <2>2
  <2>4. QED
    BY <1>1, <2>3 DEF Carried, c
<1>11. m.pc = Up(i, n.pc)
  BY <1>1, <1>7, <1>8 DEF Up
<1>12. QED
  BY <1>9, <1>10, <1>11 DEF SplitBefore, n, m

\* A comparison may be split wherever the flags it overwrites are not read.
LEMMA SplitEquivalent ==
  ASSUME NEW p \in CodeX86, FlagsOk(p), NEW i, NEW q, IsSplit(p, i, q)
  PROVE  EquivalentX86(p, q)
<1>1. q \in CodeX86
  BY SplitCode
<1> DEFINE R == {u \in StatesX86(p) \X StatesX86(q) : SplitRelated(p, i, u[1], u[2])}
           T1 == StepX86(p)
           T2 == StepX86(q)
<1>2. \A s \in StatesX86(p), t \in StatesX86(q) : <<s, t>> \in R <=> SplitRelated(p, i, s, t)
  OBVIOUS
<1>3. ASSUME NEW env \in [Vars -> Num]
      PROVE  <<StartX86(env), StartX86(env)>> \in R
  <2>1. i \in 1..Len(p)
    BY DEF IsSplit
  <2>2. SplitBefore(p, i, StartX86(env), StartX86(env))
    BY <2>1 DEF SplitBefore, StartX86, Up, Agree, FlagsAgree
  <2>3. StartX86(env) \in StatesX86(p) /\ StartX86(env) \in StatesX86(q)
    BY <1>1, StartX86Type
  <2>4. QED
    BY <1>2, <2>2, <2>3 DEF SplitRelated
<1>4. /\ T1 \in [StatesX86(p) -> StatesX86(p)] /\ T2 \in [StatesX86(q) -> StatesX86(q)]
      /\ \A s \in StatesX86(p) : T1[s] = ExecX86(p, s)
      /\ \A t \in StatesX86(q) : T2[t] = ExecX86(q, t)
  BY <1>1, StepX86Type
<1> HIDE DEF R, T1, T2
<1>5. ASSUME NEW s \in StatesX86(p), NEW t \in StatesX86(q), <<s, t>> \in R
      PROVE  /\ Seen(s) = Seen(t)
             /\ \E z \in Reach(T2, t) : <<T1[s], z>> \in R
             /\ \E z \in Reach(T1, s) : <<z, T2[t]>> \in R
  <2>1. SplitRelated(p, i, s, t)
    BY <1>2, <1>5
  <2>2. Agree({}, s, t)
    BY <2>1 DEF SplitRelated, SplitBefore, SplitBetween
  <2>3. Seen(s) = Seen(t)
    BY <2>2 DEF Agree, Seen
  <2>4. /\ s \in Reach(T1, s) /\ t \in Reach(T2, t) /\ T1[s] \in Reach(T1, s) /\ T2[t] \in Reach(T2, t)
        /\ T2[T2[t]] \in Reach(T2, t)
        /\ T1[s] \in StatesX86(p) /\ T2[t] \in StatesX86(q) /\ T2[T2[t]] \in StatesX86(q)
    <3>1. /\ s \in Reach(T1, s) /\ t \in Reach(T2, t)
          /\ T1[s] \in StatesX86(p) /\ T2[t] \in StatesX86(q)
      BY <1>4, ReachType
    <3>2. T1[s] \in Reach(T1, s) /\ T2[t] \in Reach(T2, t)
      BY <1>4, <3>1, ReachStep
    <3>3. T2[T2[t]] \in Reach(T2, t) /\ T2[T2[t]] \in StatesX86(q)
      BY <1>4, <3>1, <3>2, ReachStep
    <3>4. QED
      BY <3>1, <3>2, <3>3
  <2>5. T1[s] = ExecX86(p, s) /\ T2[t] = ExecX86(q, t) /\ T2[T2[t]] = ExecX86(q, T2[t])
    BY <1>4, <2>4
  <2>6. CASE s.done
    <3>1. T1[s] = s /\ T2[t] = t
      BY <2>2, <2>5, <2>6, ExecDoneX86 DEF Agree
    <3>2. QED
      BY <1>5, <2>3, <2>4, <3>1
  <2>7. CASE ~s.done /\ SplitBefore(p, i, s, t) /\ s.pc # i
    <3>1. SplitRelated(p, i, T1[s], T2[t])
      BY <1>1, <2>5, <2>7, SplitElsewhere DEF SplitRelated
    <3>2. <<T1[s], T2[t]>> \in R
      BY <1>2, <2>4, <3>1
    <3>3. QED
      BY <2>3, <2>4, <3>2
  <2>8. CASE ~s.done /\ SplitBefore(p, i, s, t) /\ s.pc = i
    <3>1. SplitBetween(p, i, s, T2[t])
      BY <1>1, <2>5, <2>8, SplitFirst
    <3>2. SplitBefore(p, i, T1[s], T2[T2[t]])
      BY <1>1, <2>4, <2>5, <3>1, SplitSecond
    <3>3. <<s, T2[t]>> \in R
      BY <1>2, <2>4, <3>1 DEF SplitRelated
    <3>4. <<T1[s], T2[T2[t]]>> \in R
      BY <1>2, <2>4, <3>2 DEF SplitRelated
    <3>5. QED
      BY <2>3, <2>4, <3>3, <3>4
  <2>9. CASE SplitBetween(p, i, s, t)
    <3>1. SplitBefore(p, i, T1[s], T2[t])
      BY <1>1, <2>5, <2>9, SplitSecond
    <3>2. <<T1[s], T2[t]>> \in R
      BY <1>2, <2>4, <3>1 DEF SplitRelated
    <3>3. QED
      BY <2>3, <2>4, <3>2
  <2>10. QED
    BY <2>1, <2>6, <2>7, <2>8, <2>9 DEF SplitRelated
<1>6. Bisimulates(T1, T2, R)
  BY <1>4, <1>5 DEF Bisimulates
<1>7. R \in SUBSET (StatesX86(p) \X StatesX86(q))
  BY DEF R
<1>8. QED
  BY <1>1, <1>3, <1>6, <1>7, BisimulationX86 DEF T1, T2

--------------------------------------------------------------------------------
(***************************************************************************)
(* A conditional reads the flags instead of the variable that says the same. *)
(***************************************************************************)
FusedWith(op, cc) ==
  [op EXCEPT !.id = IF @ = "COND" THEN "X86_JMPCC" ELSE "X86_CMOV", !.args[1] = Cc(cc)]

LEMMA ConditionalFields ==
  ASSUME NEW op \in OpX86, op.id \in Conditionals
  PROVE  /\ op = [id |-> op.id, out |-> op.out, args |-> op.args, label |-> op.label]
         /\ op.id = "COND" => Len(op.args) = 1 /\ op.out = NoVar /\ op.label \in Labels
         /\ op.id = "CMOV" => Len(op.args) = 2 /\ op.out \in Vars /\ op.label = NoLabel
         /\ op \in Op /\ op.args \in Seq(Value)
<1>1. op.id \in Ids
  BY DEF Conditionals, Ids, Pure, Jumps
<1>2. op \in Op
  BY <1>1, OpX86Fields
<1>3. op.args \in Seq(Value)
  BY <1>2, OpFields
<1>4. op.id = "COND" => Len(op.args) = 1 /\ op.out = NoVar /\ op.label \in Labels
  BY <1>2, OpFields DEF Jumps, Pure
<1>5. op.id = "CMOV" => Len(op.args) = 2 /\ op.out \in Vars
  BY <1>2, OpX86Fields DEF Pure
<1>6. /\ op = [id |-> op.id, out |-> op.out, args |-> op.args, label |-> op.label]
      /\ op.id = "CMOV" => op.label = NoLabel
  BY <1>2 DEF Op
<1>7. QED
  BY <1>2, <1>3, <1>4, <1>5, <1>6

LEMMA FusedFields ==
  ASSUME NEW op \in OpX86, op.id \in Conditionals, NEW cc \in Codes
  PROVE  /\ op.id = "COND" =>
              FusedWith(op, cc) = [id |-> "X86_JMPCC", out |-> op.out, args |-> <<Cc(cc)>>, label |-> op.label]
         /\ op.id = "CMOV" =>
              FusedWith(op, cc) = [id |-> "X86_CMOV", out |-> op.out, args |-> <<Cc(cc), op.args[2]>>,
                                   label |-> op.label]
         /\ FusedWith(op, cc) \in OpX86
<1>1. /\ op = [id |-> op.id, out |-> op.out, args |-> op.args, label |-> op.label]
      /\ op.id = "COND" => Len(op.args) = 1 /\ op.out = NoVar /\ op.label \in Labels
      /\ op.id = "CMOV" => Len(op.args) = 2 /\ op.out \in Vars /\ op.label = NoLabel
      /\ op.args \in Seq(Value)
  BY ConditionalFields
<1> DEFINE id == IF op.id = "COND" THEN "X86_JMPCC" ELSE "X86_CMOV"
           args == [op.args EXCEPT ![1] = Cc(cc)]
           half == [op EXCEPT !.id = id]
<1>2. FusedWith(op, cc) = [half EXCEPT !.args = args]
  <2>1. half.args = op.args
    BY <1>1
  <2>2. FusedWith(op, cc) = [[op EXCEPT !.id = id] EXCEPT !.args[1] = Cc(cc)]
    BY DEF FusedWith
  <2>3. FusedWith(op, cc) = [half EXCEPT !.args[1] = Cc(cc)]
    BY <2>2
  <2> HIDE DEF half
  <2>4. [half EXCEPT !.args[1] = Cc(cc)] = [half EXCEPT !.args = [half.args EXCEPT ![1] = Cc(cc)]]
    OBVIOUS
  <2>5. QED
    BY <2>1, <2>3, <2>4
<1> HIDE DEF args, id
<1>3. half = [id |-> id, out |-> op.out, args |-> op.args, label |-> op.label]
  BY <1>1
<1> HIDE DEF half
<1>4. FusedWith(op, cc) = [id |-> id, out |-> op.out, args |-> args, label |-> op.label]
  BY <1>2, <1>3
<1>5. op.id = "COND" => args = <<Cc(cc)>>
  <2> SUFFICES ASSUME op.id = "COND" PROVE args = <<Cc(cc)>>
    OBVIOUS
  <2>1. Len(op.args) = 1 /\ op.args \in Seq(Value) /\ DOMAIN op.args = 1..1
    BY <1>1
  <2>2. args = [k \in 1..1 |-> IF k = 1 THEN Cc(cc) ELSE op.args[k]]
    BY <2>1 DEF args
  <2>3. QED
    BY <2>2
<1>6. op.id = "CMOV" => args = <<Cc(cc), op.args[2]>>
  <2> SUFFICES ASSUME op.id = "CMOV" PROVE args = <<Cc(cc), op.args[2]>>
    OBVIOUS
  <2>1. Len(op.args) = 2 /\ op.args \in Seq(Value) /\ DOMAIN op.args = 1..2
    BY <1>1
  <2>2. args = [k \in 1..2 |-> IF k = 1 THEN Cc(cc) ELSE op.args[k]]
    BY <2>1 DEF args
  <2>3. QED
    BY <2>2
<1>7. Cc(cc) \in CcArg
  BY DEF Cc, CcArg
<1>8. CASE op.id = "COND"
  <2>1. id = "X86_JMPCC"
    BY <1>8 DEF id
  <2>2. <<Cc(cc)>> \in {<<c>> : c \in CcArg}
    BY <1>7
  <2>3. FusedWith(op, cc) \in JmpccOps
    BY <1>1, <1>4, <1>5, <1>8, <2>1, <2>2 DEF JmpccOps
  <2>4. QED
    BY <1>4, <1>5, <1>8, <2>1, <2>3 DEF OpX86
<1>9. CASE op.id = "CMOV"
  <2>1. id = "X86_CMOV"
    BY <1>9 DEF id
  <2>2. op.args[2] \in Value
    BY <1>1, <1>9
  <2>3. <<Cc(cc), op.args[2]>> \in {<<c, v>> : c \in CcArg, v \in Value}
    BY <1>7, <2>2
  <2>4. FusedWith(op, cc) \in CmovOps
    BY <1>1, <1>4, <1>6, <1>9, <2>1, <2>3 DEF CmovOps
  <2>5. QED
    BY <1>4, <1>6, <1>9, <2>1, <2>4 DEF OpX86
<1>10. QED
  BY <1>8, <1>9 DEF Conditionals

\* The comparison at i, whose result is set right behind it, decides the
\* conditional at j.
CanFuse(p, i, j, v, cc) ==
  /\ i \in 1..Len(p) /\ j \in i + 2..Len(p) /\ v \in Vars /\ cc \in Codes
  /\ p[i].id = "X86_CMP"
  /\ p[i + 1].id = "X86_SETCC" /\ p[i + 1].out = v /\ p[i + 1].args[1] = Cc(cc)
  /\ p[j].id \in Conditionals /\ p[j].args[1] = Var(v)
  /\ \A k \in i + 2..j - 1 :
       /\ p[k].out # v /\ p[k].id \notin Compared \cup {"LABEL"}
       /\ ~AffectsFlags(p[k]) /\ ~ClobbersFlags(p[k])

IsFused(p, j, cc, q) ==
  /\ q \in Seq(OpX86) /\ Len(q) = Len(p)
  /\ \A k \in 1..Len(p) : q[k] = IF k = j THEN FusedWith(p[j], cc) ELSE p[k]

LEMMA FusedIds ==
  ASSUME NEW p \in CodeX86, NEW i, NEW j, NEW v, NEW cc, CanFuse(p, i, j, v, cc), NEW q, IsFused(p, j, cc, q)
  PROVE  /\ p[j] \in OpX86 /\ q[j] = FusedWith(p[j], cc)
         /\ p[j].id = "COND" => q[j].id = "X86_JMPCC"
         /\ p[j].id = "CMOV" => q[j].id = "X86_CMOV"
         /\ q[j].out = p[j].out /\ q[j].label = p[j].label /\ q[j].args[1] = Cc(cc)
         /\ p[j].id = "CMOV" => q[j].args[2] = p[j].args[2]
         /\ p[j].id \in {"COND", "CMOV"}
<1>1. j \in 1..Len(p) /\ cc \in Codes /\ p[j].id \in Conditionals
  BY CodeX86Type DEF CanFuse
<1>2. p[j] \in OpX86 /\ q[j] = FusedWith(p[j], cc)
  BY <1>1, CodeX86Type DEF IsFused
<1>3. QED
  BY <1>1, <1>2, FusedFields DEF Conditionals

LEMMA FusedCode ==
  ASSUME NEW p \in CodeX86, NEW i, NEW j, NEW v, NEW cc, CanFuse(p, i, j, v, cc), NEW q, IsFused(p, j, cc, q)
  PROVE  q \in CodeX86
<1>1. /\ Len(p) \in Nat \ {0} /\ Len(q) = Len(p) /\ DOMAIN q = 1..Len(p) /\ DOMAIN p = 1..Len(p)
      /\ q \in Seq(OpX86)
  BY CodeX86Type DEF IsFused
<1>2. \A k \in 1..Len(p) : k # j => q[k] = p[k]
  BY DEF IsFused
<1>3. p[j].id \in {"COND", "CMOV"} /\ q[j].id \in {"X86_JMPCC", "X86_CMOV"} /\ q[j].label = p[j].label
      /\ (q[j].id = "X86_JMPCC" => p[j].id = "COND") /\ j \in 1..Len(p)
  <2>1. j \in 1..Len(p)
    BY CodeX86Type DEF CanFuse
  <2>2. q[j].label = p[j].label /\ p[j].id \in {"COND", "CMOV"}
    BY FusedIds
  <2>3. /\ p[j].id = "COND" => q[j].id = "X86_JMPCC"
        /\ p[j].id = "CMOV" => q[j].id = "X86_CMOV"
    BY FusedIds
  <2>4. QED
    BY <2>1, <2>2, <2>3
<1>4. Leaves(q)
  <2>1. EndsFlow(p[Len(p)]) /\ Len(p) # j
    BY <1>3, CodeX86Type DEF EndsFlow
  <2>2. q[Len(q)] = p[Len(p)] /\ q # <<>>
    BY <1>1, <1>2, <2>1
  <2>3. QED
    BY <2>1, <2>2 DEF Leaves, Last
<1>5. \A k \in 1..Len(p) : q[k].id = "LABEL" => k # j /\ q[k] = p[k]
  BY <1>2, <1>3
<1>6. LabelsUnique(q)
  BY <1>1, <1>5, CodeX86Type DEF LabelsUnique
<1>7. ASSUME NEW a \in 1..Len(q), q[a].id \in JumpsX86
      PROVE  Declared(q, q[a].label)
  <2>1. p[a].id \in JumpsX86 /\ p[a].label = q[a].label
    <3>1. CASE a = j
      BY <1>3, <1>7, <3>1 DEF JumpsX86, Jumps
    <3>2. CASE a # j
      BY <1>1, <1>2, <1>7, <3>2
    <3>3. QED
      BY <3>1, <3>2
  <2>2. PICK l \in 1..Len(p) : p[l].id = "LABEL" /\ p[l].label = q[a].label
    BY <1>1, <2>1, CodeX86Type DEF Declared
  <2>3. l # j
    BY <1>3, <2>2
  <2>4. QED
    BY <1>1, <1>2, <2>2, <2>3 DEF Declared
<1>8. QED
  BY <1>1, <1>4, <1>6, <1>7 DEF CodeX86

LEMMA FusedFlagsOk ==
  ASSUME NEW p \in CodeX86, FlagsOk(p), NEW i, NEW j, NEW v, NEW cc, CanFuse(p, i, j, v, cc),
         NEW q, IsFused(p, j, cc, q)
  PROVE  FlagsOk(q)
<1>1. /\ Len(p) \in Nat \ {0} /\ Len(q) = Len(p) /\ i \in 1..Len(p) /\ j \in i + 2..Len(p)
  BY CodeX86Type DEF IsFused, CanFuse
<1>2. \A k \in 1..Len(p) : k # j => q[k] = p[k]
  BY DEF IsFused
<1>3. p[j].id \in {"COND", "CMOV"} /\ q[j].id \in {"X86_JMPCC", "X86_CMOV"}
  BY FusedIds
<1>4. q[j].id \notin Compared \cup {"X86_CMP", "LABEL"} /\ ~ClobbersFlags(q[j])
  BY <1>3, ComparedIds, ClobbersWhat
<1> SUFFICES ASSUME NEW l \in 1..Len(q), q[l].id \in FlagReaders
             PROVE  \E h \in 1..l - 1 : Carried(q, h, l)
  BY DEF FlagsOk
<1>5. CASE l = j
  <2>1. q[i].id = "X86_CMP"
    BY <1>1, <1>2 DEF CanFuse
  <2>2. ASSUME NEW k \in i + 1..j - 1
        PROVE  q[k].id \notin Compared \cup {"X86_CMP", "LABEL"} /\ ~ClobbersFlags(q[k])
    <3>1. q[k] = p[k]
      BY <1>1, <1>2
    <3>2. CASE k = i + 1
      <4>1. q[k].id = "X86_SETCC"
        BY <3>1, <3>2 DEF CanFuse
      <4>2. QED
        BY <4>1, ComparedIds, ClobbersWhat
    <3>3. CASE k \in i + 2..j - 1
      BY <3>1, <3>3 DEF CanFuse, AffectsFlags
    <3>4. QED
      BY <1>1, <3>2, <3>3
  <2>3. Carried(q, i, j)
    <3>1. \A k \in i + 1..j : q[k].id # "LABEL"
      <4>1. \A k \in i + 1..j : k = j \/ k \in i + 1..j - 1
        BY <1>1
      <4>2. QED
        BY <1>4, <2>2, <4>1
    <3>2. QED
      BY <2>1, <2>2, <3>1 DEF Carried
  <2>4. QED
    BY <1>1, <1>5, <2>3
<1>6. CASE l # j
  <2>1. q[l] = p[l] /\ p[l].id \in FlagReaders
    BY <1>1, <1>2, <1>6
  <2>2. PICK h \in 1..l - 1 : Carried(p, h, l)
    BY <1>1, <2>1 DEF FlagsOk
  <2>3. h # j
    BY <1>3, <2>2 DEF Carried
  <2>4. Carried(q, h, l)
    <3>1. q[h].id = "X86_CMP"
      BY <1>1, <1>2, <2>2, <2>3 DEF Carried
    <3>2. ASSUME NEW k \in h + 1..l - 1
          PROVE  q[k].id \notin Compared \cup {"X86_CMP"} /\ ~ClobbersFlags(q[k])
      <4>1. k \in 1..Len(p)
        BY <1>1
      <4>2. QED
        BY <1>2, <1>4, <2>2, <4>1 DEF Carried
    <3>3. ASSUME NEW k \in h + 1..l
          PROVE  q[k].id # "LABEL"
      <4>1. k \in 1..Len(p)
        BY <1>1
      <4>2. QED
        BY <1>2, <1>4, <2>2, <4>1 DEF Carried
    <3>4. QED
      BY <3>1, <3>2, <3>3 DEF Carried
  <2>5. QED
    BY <2>4
<1>7. QED
  BY <1>5, <1>6

\* Behind the comparison, its flags are there; behind what sets its result,
\* that says the same as the flags.
Decided(i, j, v, cc, s) ==
  /\ s.pc = i + 1 => s.flags.by = "cmp"
  /\ s.pc \in i + 2..j => s.flags.by = "cmp" /\ s.env[v] = ToNum(Compares(cc, s.flags.a, s.flags.b))

LEMMA StoppedParts ==
  ASSUME NEW op \in OpX86, NEW s, NEW n, Parts(op, s, n), Stops(op, s.flags)
  PROVE  n.flags = s.flags /\ n.env = s.env
<1>1. op.id = "RETURN" \/ Loses(op, s.flags)
  BY DEF Stops
<1>2. op.id \in {"RETURN"} \cup FlagReaders
  BY <1>1 DEF Loses
<1>3. op.id # "X86_CMP" /\ ~ClobbersFlags(op)
  BY <1>2, ClobbersWhat DEF FlagReaders
<1>4. ~Sets(op, s.flags)
  BY <1>1, <1>2, ComparedIds DEF Sets, Loses, FlagReaders, Pure
<1>5. QED
  BY <1>3, <1>4 DEF Parts, FlagsNext, EnvNext

LEMMA DecidedOn ==
  ASSUME NEW p \in CodeX86, NEW i, NEW j, NEW v, NEW cc, CanFuse(p, i, j, v, cc),
         NEW s \in StatesX86(p), Decided(i, j, v, cc, s)
  PROVE  Decided(i, j, v, cc, ExecX86(p, s))
<1> DEFINE op == p[s.pc]
           n == ExecX86(p, s)
<1>1. CASE s.done
  BY <1>1, ExecDoneX86
<1>2. CASE ~s.done
  <2>1. /\ s.pc \in 1..Len(p) /\ op \in OpX86 /\ s.env \in [Vars -> Num] /\ op = p[s.pc] /\ Len(p) \in Nat
        /\ i \in 1..Len(p) /\ j \in i + 2..Len(p) /\ v \in Vars
    BY StateX86Fields, CodeX86Type DEF CanFuse
  <2>2. Parts(op, s, n)
    BY <1>2, ExecEffect DEF Effect
  <2>3. /\ n.pc \in 1..Len(p)
        /\ \/ n.pc = s.pc + 1 /\ ~Stops(op, s.flags) /\ ~EndsFlow(op) /\ ~Jumped(op, s.env, s.flags)
           \/ n.pc = s.pc /\ Stops(op, s.flags)
           \/ /\ Jumped(op, s.env, s.flags) /\ ~Stops(op, s.flags) /\ op.id \in JumpsX86
              /\ n.pc = LabelAt(p, op.label) /\ p[n.pc].id = "LABEL"
    BY <1>2, PlaceNext
  <2> HIDE DEF op, n
  <2>4. CASE n.pc = s.pc /\ Stops(op, s.flags)
    <3>1. n.flags = s.flags /\ n.env = s.env
      BY <2>1, <2>2, <2>4, StoppedParts
    <3>2. QED
      BY <2>4, <3>1 DEF Decided, n
  <2>5. CASE p[n.pc].id = "LABEL"
    <3>1. n.pc # i + 1 /\ n.pc # j
      BY <2>5 DEF CanFuse, Conditionals
    <3>2. n.pc \notin i + 2..j - 1
      BY <2>5 DEF CanFuse
    <3>3. n.pc \notin i + 2..j
      BY <2>1, <2>3, <3>1, <3>2
    <3>4. QED
      BY <3>1, <3>3 DEF Decided, n
  <2>6. CASE n.pc = s.pc + 1 /\ s.pc = i
    <3>1. op.id = "X86_CMP"
      BY <2>1, <2>6 DEF CanFuse
    <3>2. n.flags.by = "cmp"
      BY <2>2, <3>1, CmpEffect DEF Parts
    <3>3. n.pc \notin i + 2..j
      BY <2>1, <2>6
    <3>4. QED
      BY <3>2, <3>3 DEF Decided, n
  <2>7. CASE n.pc = s.pc + 1 /\ s.pc = i + 1
    <3>1. op.id = "X86_SETCC" /\ op.out = v /\ op.args[1] = Cc(cc) /\ op.id \in FlagReaders
      BY <2>1, <2>7 DEF CanFuse, FlagReaders
    <3>2. s.flags.by = "cmp"
      BY <2>7 DEF Decided
    <3>3. /\ FlagsNext(op, s.env, s.flags) = s.flags /\ Sets(op, s.flags)
          /\ ValueSet(op, s.env, s.flags) = ToNum(Holds(s.flags, op.args[1]))
      BY <3>1, <3>2, ReaderEffect
    <3>4. n.flags = s.flags
      BY <2>2, <3>3 DEF Parts
    <3>5. n.env = [s.env EXCEPT ![v] = ToNum(Holds(s.flags, op.args[1]))]
      BY <2>2, <3>1, <3>3 DEF Parts, EnvNext
    <3>6. n.env[v] = ToNum(Compares(cc, s.flags.a, s.flags.b))
      <4>1. Holds(s.flags, op.args[1]) = Compares(cc, s.flags.a, s.flags.b)
        BY <3>1 DEF Holds, Cc
      <4>2. QED
        BY <2>1, <3>5, <4>1
    <3>7. n.pc # i + 1
      BY <2>1, <2>7
    <3>8. QED
      BY <3>2, <3>4, <3>6, <3>7 DEF Decided, n
  <2>8. CASE n.pc = s.pc + 1 /\ s.pc \in i + 2..j - 1
    <3>1. op.out # v /\ op.id # "X86_CMP" /\ ~ClobbersFlags(op)
      BY <2>1, <2>8 DEF CanFuse, AffectsFlags
    <3>2. s.flags.by = "cmp" /\ s.env[v] = ToNum(Compares(cc, s.flags.a, s.flags.b))
      <4>1. s.pc \in i + 2..j
        BY <2>1, <2>8
      <4>2. QED
        BY <4>1 DEF Decided
    <3>3. n.flags = s.flags
      BY <2>2, <3>1 DEF Parts, FlagsNext
    <3>4. n.env[v] = s.env[v]
      <4>1. n.env = EnvNext(op, s.env, s.flags)
        BY <2>2 DEF Parts
      <4>2. QED
        BY <2>1, <3>1, <4>1 DEF EnvNext
    <3>5. QED
      BY <3>2, <3>3, <3>4 DEF Decided, n
  <2>9. CASE n.pc = s.pc + 1 /\ s.pc \notin {i, i + 1} \cup i + 2..j - 1
    <3>1. n.pc # i + 1 /\ n.pc \notin i + 2..j
      BY <2>1, <2>9
    <3>2. QED
      BY <3>1 DEF Decided, n
  <2>10. QED
    BY <2>3, <2>4, <2>5, <2>6, <2>7, <2>8, <2>9
<1>3. QED
  BY <1>1, <1>2, StateX86Fields

LEMMA FusedJump ==
  ASSUME NEW p \in CodeX86, NEW i, NEW j, NEW v, NEW cc, CanFuse(p, i, j, v, cc),
         NEW q \in CodeX86, IsFused(p, j, cc, q), NEW k \in 1..Len(p), p[k].id \in JumpsX86
  PROVE  LabelAt(q, p[k].label) = LabelAt(p, p[k].label)
<1> DEFINE l == LabelAt(p, p[k].label)
<1>1. l \in 1..Len(p) /\ p[l].id = "LABEL" /\ p[l].label = p[k].label
  BY JumpFindsLabelX86
<1> HIDE DEF l
<1>2. l # j
  BY <1>1 DEF CanFuse, Conditionals
<1>3. q[l] = p[l] /\ l \in 1..Len(q)
  BY <1>1, <1>2 DEF IsFused
<1>4. LabelAt(q, q[l].label) = l
  BY <1>1, <1>3, LabelFoundX86
<1>5. QED
  BY <1>1, <1>3, <1>4 DEF l

\* Steps with the same effect end in the same state.
SameEffect(op1, op2, env, flags, trace) ==
  /\ FlagsNext(op1, env, flags) = FlagsNext(op2, env, flags)
  /\ EnvNext(op1, env, flags) = EnvNext(op2, env, flags)
  /\ TraceNext(op1, env, flags, trace) = TraceNext(op2, env, flags, trace)
  /\ Jumped(op1, env, flags) <=> Jumped(op2, env, flags)
  /\ Stops(op1, flags) <=> Stops(op2, flags)

LEMMA EffectSame ==
  ASSUME NEW p, NEW q, NEW op1, NEW op2, NEW s, NEW n, NEW m, Effect(p, op1, s, n), Effect(q, op2, s, m),
         SameEffect(op1, op2, s.env, s.flags, s.trace),
         Jumped(op1, s.env, s.flags) => LabelAt(p, op1.label) = LabelAt(q, op2.label)
  PROVE  n = m
<1>1. n.pc = m.pc
  BY DEF Effect, SameEffect
<1>2. n.env = m.env /\ n.flags = m.flags /\ n.trace = m.trace
  BY DEF Effect, Parts, SameEffect
<1>3. n.done = m.done
  BY DEF Effect, Parts, SameEffect
<1>4. /\ n = [pc |-> n.pc, env |-> n.env, trace |-> n.trace, done |-> n.done, flags |-> n.flags]
      /\ m = [pc |-> m.pc, env |-> m.env, trace |-> m.trace, done |-> m.done, flags |-> m.flags]
  BY DEF Effect, Parts
<1>5. QED
  BY <1>1, <1>2, <1>3, <1>4

\* Testing the result or reading the flags: the same.
LEMMA ReadsTheSame ==
  ASSUME NEW p \in CodeX86, NEW i, NEW j, NEW v, NEW cc, CanFuse(p, i, j, v, cc),
         NEW q, IsFused(p, j, cc, q),
         NEW s, s.env \in [Vars -> Num], s.pc = j, Decided(i, j, v, cc, s)
  PROVE  SameEffect(p[j], q[j], s.env, s.flags, s.trace)
<1> DEFINE op == p[j]
           new == q[j]
           c == Compares(cc, s.flags.a, s.flags.b)
<1> SUFFICES SameEffect(op, new, s.env, s.flags, s.trace)
  OBVIOUS
<1>1. /\ op \in OpX86 /\ new.out = op.out /\ new.args[1] = Cc(cc)
      /\ op.id \in {"COND", "CMOV"} /\ op.args[1] = Var(v)
      /\ op.id = "COND" => new.id = "X86_JMPCC"
      /\ op.id = "CMOV" => new.id = "X86_CMOV"
      /\ op.id = "CMOV" => new.args[2] = op.args[2]
  <2>1. op.args[1] = Var(v)
    BY DEF CanFuse
  <2>2. op \in OpX86 /\ new.out = op.out /\ new.args[1] = Cc(cc) /\ op.id \in {"COND", "CMOV"}
    BY FusedIds
  <2>3. op.id = "COND" => new.id = "X86_JMPCC"
    BY FusedIds
  <2>4. op.id = "CMOV" => new.id = "X86_CMOV"
    BY FusedIds
  <2>5. op.id = "CMOV" => new.args[2] = op.args[2]
    BY FusedIds
  <2>6. QED
    BY <2>1, <2>2, <2>3, <2>4, <2>5
<1>2. s.flags.by = "cmp" /\ s.env[v] = ToNum(c)
  <2>1. j \in i + 2..j
    BY DEF CanFuse
  <2>2. QED
    BY <2>1 DEF Decided
<1>3. Eval(s.env, op.args[1]) = ToNum(c) /\ Holds(s.flags, new.args[1]) = c
  BY <1>1, <1>2 DEF Eval, Var, Holds, Cc
<1> HIDE DEF op, new, c
<1>4. op.id \in Ids /\ new.id \in FlagReaders /\ ~ClobbersFlags(op)
  BY <1>1, ClobbersWhat DEF Ids, Pure, Jumps, FlagReaders
<1>5. /\ ~Stops(op, s.flags) /\ FlagsNext(op, s.env, s.flags) = s.flags
      /\ TraceNext(op, s.env, s.flags, s.trace) = s.trace
  <2>1. op.id \notin {"STORE", "RETURN", "X86_CMP"} \cup FlagReaders
    BY <1>1 DEF FlagReaders
  <2>2. ~Stops(op, s.flags) /\ ~Loses(op, s.flags)
    BY <2>1 DEF Stops, Loses
  <2>3. QED
    BY <1>4, <2>1, <2>2 DEF FlagsNext, TraceNext
<1>6. /\ ~Stops(new, s.flags) /\ FlagsNext(new, s.env, s.flags) = s.flags
      /\ TraceNext(new, s.env, s.flags, s.trace) = s.trace
  BY <1>2, <1>4, ReaderEffect
<1>7. CASE op.id = "COND"
  <2>1. ~Sets(new, s.flags) /\ (Jumped(new, s.env, s.flags) <=> c)
    BY <1>1, <1>2, <1>3, <1>4, <1>7, ReaderEffect
  <2>2. ~Sets(op, s.flags)
    BY <1>4, <1>7, SourceEffect DEF Pure
  <2>3. Jumped(op, s.env, s.flags) <=> Eval(s.env, op.args[1]) # 0
    BY <1>7 DEF Jumped
  <2>4. Jumped(op, s.env, s.flags) <=> c
    BY <1>3, <2>3 DEF ToNum
  <2>5. QED
    BY <1>5, <1>6, <2>1, <2>2, <2>4 DEF SameEffect, EnvNext
<1>8. CASE op.id = "CMOV"
  <2>1. (Sets(new, s.flags) <=> c) /\ ~Jumped(new, s.env, s.flags) /\ ValueSet(new, s.env, s.flags) = Eval(s.env, op.args[2])
    BY <1>1, <1>2, <1>3, <1>4, <1>8, ReaderEffect
  <2>2. Sets(op, s.flags) /\ ValueSet(op, s.env, s.flags) = Result(s.env, op)
    BY <1>4, <1>8, SourceEffect DEF Pure
  <2>3. ~Jumped(op, s.env, s.flags)
    BY <1>8 DEF Jumped
  <2>4. Len(op.args) = 2 /\ op.out \in Vars
    BY <1>1, <1>8, OpX86Fields DEF Pure
  <2>5. Result(s.env, op) = IF c THEN Eval(s.env, op.args[2]) ELSE s.env[op.out]
    <3>1. Result(s.env, op) = IF Eval(s.env, op.args[1]) # 0 THEN Eval(s.env, op.args[2]) ELSE s.env[op.out]
      BY <1>8, <2>4 DEF Result
    <3>2. QED
      BY <1>3, <3>1 DEF ToNum
  <2>6. EnvNext(op, s.env, s.flags) = [s.env EXCEPT ![op.out] = Result(s.env, op)]
    BY <2>2 DEF EnvNext
  <2>7. EnvNext(op, s.env, s.flags) = EnvNext(new, s.env, s.flags)
    <3>1. CASE c
      BY <1>1, <2>1, <2>5, <2>6, <3>1 DEF EnvNext
    <3>2. CASE ~c
      <4>1. EnvNext(new, s.env, s.flags) = s.env
        BY <2>1, <3>2 DEF EnvNext
      <4>2. EnvNext(op, s.env, s.flags) = [s.env EXCEPT ![op.out] = s.env[op.out]]
        BY <2>5, <2>6, <3>2
      <4>3. QED
        BY <2>4, <4>1, <4>2
    <3>3. QED
      BY <3>1, <3>2
  <2>8. QED
    BY <1>5, <1>6, <2>1, <2>3, <2>7 DEF SameEffect
<1>9. QED
  BY <1>1, <1>7, <1>8

LEMMA FusedSteps ==
  ASSUME NEW p \in CodeX86, NEW i, NEW j, NEW v, NEW cc, CanFuse(p, i, j, v, cc),
         NEW q \in CodeX86, IsFused(p, j, cc, q),
         NEW s \in StatesX86(p), Decided(i, j, v, cc, s)
  PROVE  ExecX86(p, s) = ExecX86(q, s)
<1>1. CASE s.done
  BY <1>1, ExecDoneX86
<1>2. CASE ~s.done
  <2>1. StatesX86(q) = StatesX86(p)
    BY DEF StatesX86, IsFused
  <2>2. Effect(p, p[s.pc], s, ExecX86(p, s)) /\ Effect(q, q[s.pc], s, ExecX86(q, s))
    BY <1>2, <2>1, ExecEffect
  <2>3. s.pc \in 1..Len(p) /\ s.env \in [Vars -> Num]
    BY StateX86Fields
  <2>4. SameEffect(p[s.pc], q[s.pc], s.env, s.flags, s.trace)
    <3>1. CASE s.pc = j
      BY <2>3, <3>1, ReadsTheSame
    <3>2. CASE s.pc # j
      <4>1. q[s.pc] = p[s.pc]
        BY <2>3, <3>2 DEF IsFused
      <4>2. QED
        BY <4>1 DEF SameEffect
    <3>3. QED
      BY <3>1, <3>2
  <2>5. ASSUME Jumped(p[s.pc], s.env, s.flags)
        PROVE  LabelAt(p, p[s.pc].label) = LabelAt(q, q[s.pc].label)
    <3>1. p[s.pc].id \in JumpsX86
      BY <2>5 DEF Jumped, JumpsX86, Jumps
    <3>2. LabelAt(q, p[s.pc].label) = LabelAt(p, p[s.pc].label)
      BY <2>3, <3>1, FusedJump
    <3>3. q[s.pc].label = p[s.pc].label
      <4>1. CASE s.pc = j
        BY <4>1, FusedIds
      <4>2. CASE s.pc # j
        BY <2>3, <4>2 DEF IsFused
      <4>3. QED
        BY <4>1, <4>2
    <3>4. QED
      BY <3>2, <3>3
  <2>6. QED
    BY <2>2, <2>4, <2>5, EffectSame
<1>3. QED
  BY <1>1, <1>2, StateX86Fields

\* A conditional may read the flags of the comparison that decides it.
LEMMA FusedEquivalent ==
  ASSUME NEW p \in CodeX86, NEW i, NEW j, NEW v, NEW cc, CanFuse(p, i, j, v, cc),
         NEW q, IsFused(p, j, cc, q)
  PROVE  EquivalentX86(p, q)
<1>1. q \in CodeX86
  BY FusedCode
<1> DEFINE S == StatesX86(p)
           C == {s \in S : Decided(i, j, v, cc, s)}
           T1 == StepX86(p)
           T2 == StepX86(q)
<1>2. StatesX86(q) = S
  BY DEF StatesX86, IsFused
<1>3. T1 \in [S -> S] /\ T2 \in [S -> S] /\ \A s \in S : T1[s] = ExecX86(p, s) /\ T2[s] = ExecX86(q, s)
  BY <1>1, <1>2, StepX86Type
<1>4. ASSUME NEW s \in C
      PROVE  T1[s] \in C /\ T1[s] = T2[s]
  <2>1. s \in S /\ Decided(i, j, v, cc, s)
    OBVIOUS
  <2>2. T1[s] = ExecX86(p, s) /\ T2[s] = ExecX86(q, s) /\ T1[s] \in S
    BY <1>3, <2>1
  <2>3. Decided(i, j, v, cc, ExecX86(p, s))
    BY <2>1, DecidedOn
  <2>4. ExecX86(p, s) = ExecX86(q, s)
    BY <1>1, <2>1, FusedSteps
  <2>5. QED
    BY <2>2, <2>3, <2>4
<1>5. ASSUME NEW env \in [Vars -> Num]
      PROVE  StartX86(env) \in C
  <2>1. i \in Nat \ {0} /\ j \in Nat
    BY CodeX86Type DEF CanFuse
  <2>2. 1 # i + 1 /\ 1 \notin i + 2..j
    BY <2>1
  <2>3. StartX86(env).pc = 1
    BY DEF StartX86
  <2>4. Decided(i, j, v, cc, StartX86(env))
    BY <2>2, <2>3 DEF Decided
  <2>5. QED
    BY <2>4, StartX86Type
<1>6. C \in SUBSET S
  OBVIOUS
<1> HIDE DEF S, C, T1, T2
<1>7. ASSUME NEW env \in [Vars -> Num]
      PROVE  Reach(T1, StartX86(env)) = Reach(T2, StartX86(env))
  <2>1. StartX86(env) \in C /\ StartX86(env) \in S
    BY <1>5, <1>6
  <2>2. QED
    BY <1>3, <1>4, <1>6, <2>1, SameReach
<1>8. QED
  BY <1>7 DEF EquivalentX86, OutcomesX86, T1, T2

--------------------------------------------------------------------------------
(***************************************************************************)
(* An operation whose output nobody reads is removed.                       *)
(***************************************************************************)
\* D is what may differ then.
Unneeded(p, i, D) ==
  /\ i \in 1..Len(p) /\ p[i].id \in {"X86_SETCC", "X86_CMOV", "ADD", "SUB", "NOT", "IMM"}
  /\ D \in SUBSET Vars /\ \A v \in D, k \in 1..Len(p) : ~Reads(p[k], v)
  /\ p[i].out \in D \/ (p[i].id = "IMM" /\ p[i].args[1] = Var(p[i].out))

\* Where the operation at k was, and where it has gone.
Past(i, k) == IF k < i THEN k ELSE k + 1
Down(i, k) == IF k <= i THEN k ELSE k - 1

IsRemoved(p, i, q) ==
  /\ q \in Seq(OpX86) /\ Len(q) = Len(p) - 1
  /\ \A k \in 1..Len(q) : q[k] = p[Past(i, k)]

LEMMA UnneededIs ==
  ASSUME NEW p \in CodeX86, NEW i, NEW D, Unneeded(p, i, D)
  PROVE  /\ p[i] \in OpX86 /\ i \in 1..Len(p) - 1 /\ p[i].out \in Vars
         /\ p[i].id \notin {"LABEL", "X86_CMP", "RETURN", "STORE"} \cup JumpsX86 \cup Compared
<1>1. p[i] \in OpX86 /\ i \in 1..Len(p) /\ p[i].id \in {"X86_SETCC", "X86_CMOV", "ADD", "SUB", "NOT", "IMM"}
  BY CodeX86Type DEF Unneeded
<1>2. p[i].id \notin {"LABEL", "X86_CMP", "RETURN", "STORE"} \cup JumpsX86 \cup Compared
  BY <1>1, ComparedIds DEF JumpsX86, Jumps
<1>3. p[i].out \in Vars
  BY <1>1, OpX86Fields DEF Pure
<1>4. i # Len(p)
  BY <1>1, CodeX86Type DEF EndsFlow
<1>5. QED
  BY <1>1, <1>2, <1>3, <1>4, CodeX86Type

MovedUp(p, i, q) ==
  /\ \A k \in 1..Len(q) : Past(i, k) \in 1..Len(p) /\ Past(i, k) # i /\ Down(i, Past(i, k)) = k
  /\ \A k \in 1..Len(p) : k # i => Down(i, k) \in 1..Len(q) /\ Past(i, Down(i, k)) = k

LEMMA Places ==
  ASSUME NEW p \in CodeX86, NEW i \in 1..Len(p), NEW q, IsRemoved(p, i, q)
  PROVE  MovedUp(p, i, q)
<1> DEFINE n == Len(p)
<1>1. n \in Nat \ {0} /\ i \in 1..n /\ Len(q) = n - 1
  BY CodeX86Type DEF IsRemoved
<1> HIDE DEF n
<1>2. \A k \in 1..n - 1 : Past(i, k) \in 1..n /\ Past(i, k) # i /\ Down(i, Past(i, k)) = k
  BY <1>1 DEF Past, Down
<1>3. \A k \in 1..n : k # i => Down(i, k) \in 1..n - 1 /\ Past(i, Down(i, k)) = k
  BY <1>1 DEF Past, Down
<1>4. QED
  BY <1>1, <1>2, <1>3 DEF n, MovedUp

LEMMA RemovedOps ==
  ASSUME NEW p \in CodeX86, NEW i \in 1..Len(p), NEW q, IsRemoved(p, i, q), NEW k \in 1..Len(p), k # i
  PROVE  Down(i, k) \in 1..Len(q) /\ q[Down(i, k)] = p[k]
<1>1. Down(i, k) \in 1..Len(q) /\ Past(i, Down(i, k)) = k
  BY Places DEF MovedUp
<1>2. QED
  BY <1>1 DEF IsRemoved

LEMMA RemovedCode ==
  ASSUME NEW p \in CodeX86, NEW i, NEW D, Unneeded(p, i, D), NEW q, IsRemoved(p, i, q)
  PROVE  q \in CodeX86
<1>1. /\ Len(p) \in Nat \ {0} /\ i \in 1..Len(p) - 1 /\ i \in 1..Len(p) /\ Len(q) = Len(p) - 1
      /\ DOMAIN q = 1..Len(q) /\ DOMAIN p = 1..Len(p) /\ q \in Seq(OpX86)
  <2>1. i \in 1..Len(p) - 1
    BY UnneededIs
  <2>2. i \in 1..Len(p)
    BY DEF Unneeded
  <2>3. Len(p) \in Nat \ {0} /\ DOMAIN p = 1..Len(p)
    BY CodeX86Type
  <2>4. q \in Seq(OpX86) /\ Len(q) = Len(p) - 1
    BY DEF IsRemoved
  <2>5. DOMAIN q = 1..Len(q)
    BY <2>4
  <2>6. QED
    BY <2>1, <2>2, <2>3, <2>4, <2>5
<1>2. \A k \in 1..Len(q) : q[k] = p[Past(i, k)] /\ Past(i, k) \in 1..Len(p) /\ Down(i, Past(i, k)) = k
  <2>1. MovedUp(p, i, q)
    BY <1>1, Places
  <2>2. \A k \in 1..Len(q) : q[k] = p[Past(i, k)]
    BY DEF IsRemoved
  <2>3. QED
    BY <2>1, <2>2 DEF MovedUp
<1>3. Leaves(q)
  <2>1. Len(p) \in 1..Len(p) /\ Len(p) # i /\ Down(i, Len(p)) = Len(q)
    <3> DEFINE n == Len(p)
    <3>1. n \in Nat \ {0} /\ i \in 1..n - 1 /\ Len(q) = n - 1
      BY <1>1
    <3> HIDE DEF n
    <3>2. n \in 1..n /\ n # i /\ Down(i, n) = n - 1
      BY <3>1 DEF Down
    <3>3. QED
      BY <3>1, <3>2 DEF n
  <2>2. Len(q) \in 1..Len(q) /\ q[Len(q)] = p[Len(p)]
    <3>1. Down(i, Len(p)) \in 1..Len(q) /\ q[Down(i, Len(p))] = p[Len(p)]
      BY <1>1, <2>1, RemovedOps
    <3>2. QED
      BY <2>1, <3>1
  <2>3. EndsFlow(q[Len(q)]) /\ q # <<>>
    <3>1. q # <<>>
      BY <2>2
    <3>2. QED
      BY <2>2, <3>1, CodeX86Type
  <2>4. QED
    BY <2>3 DEF Leaves, Last
<1>4. LabelsUnique(q)
  <2> SUFFICES ASSUME NEW a \in 1..Len(q), NEW b \in 1..Len(q), q[a].id = "LABEL", q[b].id = "LABEL",
                      q[a].label = q[b].label
               PROVE  a = b
    BY <1>1 DEF LabelsUnique
  <2>1. Past(i, a) = Past(i, b)
    BY <1>1, <1>2, CodeX86Type DEF LabelsUnique
  <2>2. QED
    BY <1>2, <2>1
<1>5. ASSUME NEW a \in 1..Len(q), q[a].id \in JumpsX86
      PROVE  Declared(q, q[a].label)
  <2>0. Declared(p, q[a].label)
    <3>1. q[a] = p[Past(i, a)] /\ Past(i, a) \in 1..Len(p)
      BY <1>2
    <3>2. Declared(p, p[Past(i, a)].label)
      BY <1>5, <3>1, CodeX86Type
    <3>3. QED
      BY <3>1, <3>2
  <2>1. PICK l \in 1..Len(p) : p[l].id = "LABEL" /\ p[l].label = q[a].label
    BY <1>1, <2>0 DEF Declared
  <2>2. l # i
    BY <2>1, UnneededIs
  <2>3. Down(i, l) \in 1..Len(q) /\ q[Down(i, l)] = p[l]
    BY <1>1, <2>2, RemovedOps
  <2>4. QED
    BY <1>1, <2>1, <2>3 DEF Declared
<1>6. QED
  BY <1>1, <1>3, <1>4, <1>5 DEF CodeX86

LEMMA RemovedFlagsOk ==
  ASSUME NEW p \in CodeX86, FlagsOk(p), NEW i, NEW D, Unneeded(p, i, D), NEW q, IsRemoved(p, i, q)
  PROVE  FlagsOk(q)
<1>1. /\ Len(p) \in Nat \ {0} /\ i \in 1..Len(p) /\ Len(q) = Len(p) - 1
  BY CodeX86Type DEF IsRemoved, Unneeded
<1>2. \A k \in 1..Len(q) : q[k] = p[Past(i, k)] /\ Past(i, k) \in 1..Len(p) /\ Past(i, k) # i
  <2>1. MovedUp(p, i, q)
    BY <1>1, Places
  <2>2. \A k \in 1..Len(q) : q[k] = p[Past(i, k)]
    BY DEF IsRemoved
  <2>3. QED
    BY <2>1, <2>2 DEF MovedUp
<1> SUFFICES ASSUME NEW l \in 1..Len(q), q[l].id \in FlagReaders
             PROVE  \E h \in 1..l - 1 : Carried(q, h, l)
  BY DEF FlagsOk
<1> DEFINE j == Past(i, l)
<1>3. j \in 1..Len(p) /\ p[j].id \in FlagReaders /\ j # i
  BY <1>2
<1>4. PICK h \in 1..j - 1 : Carried(p, h, j)
  BY <1>3 DEF FlagsOk
<1>5. h # i
  BY <1>4, UnneededIs DEF Carried
<1> DEFINE g == Down(i, h)
<1>6. /\ i \in Int /\ l \in Int /\ h \in Int /\ h >= 1 /\ l >= 1 /\ i >= 1 /\ h <= j - 1
  BY <1>1, <1>3
<1>7. /\ g \in 1..l - 1
      /\ \A k \in Int : k >= g + 1 /\ k <= l - 1 =>
           Past(i, k) >= h + 1 /\ Past(i, k) <= j - 1 /\ Past(i, k) \in Int
  BY <1>5, <1>6 DEF Past, Down
<1>8. \A k \in Int : k >= g + 1 /\ k <= l => Past(i, k) >= h + 1 /\ Past(i, k) <= j /\ Past(i, k) \in Int
  BY <1>5, <1>6 DEF Past, Down
<1>9. h \in 1..Len(p)
  BY <1>1, <1>3
<1>10. q[g] = p[h]
  BY <1>1, <1>5, <1>9, RemovedOps
<1> HIDE DEF g, j
<1>11. ASSUME NEW k \in g + 1..l - 1
       PROVE  q[k].id \notin Compared \cup {"X86_CMP"} /\ ~ClobbersFlags(q[k])
  <2>1. k \in 1..Len(q) /\ k \in Int /\ k >= g + 1 /\ k <= l - 1
    BY <1>1, <1>7
  <2>2. Past(i, k) \in h + 1..j - 1
    BY <1>6, <1>7, <2>1
  <2>3. QED
    BY <1>2, <1>4, <2>1, <2>2 DEF Carried
<1>12. ASSUME NEW k \in g + 1..l
       PROVE  q[k].id # "LABEL"
  <2>1. k \in 1..Len(q) /\ k \in Int /\ k >= g + 1 /\ k <= l
    BY <1>1, <1>7
  <2>2. Past(i, k) \in h + 1..j
    BY <1>6, <1>8, <2>1
  <2>3. QED
    BY <1>2, <1>4, <2>1, <2>2 DEF Carried
<1>13. Carried(q, g, l)
  BY <1>4, <1>10, <1>11, <1>12 DEF Carried
<1>14. QED
  BY <1>7, <1>13

LEMMA RemovedJump ==
  ASSUME NEW p \in CodeX86, NEW i, NEW D, Unneeded(p, i, D), NEW q \in CodeX86, IsRemoved(p, i, q),
         NEW j \in 1..Len(p), p[j].id \in JumpsX86
  PROVE  LabelAt(q, p[j].label) = Down(i, LabelAt(p, p[j].label))
<1> DEFINE l == LabelAt(p, p[j].label)
<1>1. l \in 1..Len(p) /\ p[l].id = "LABEL" /\ p[l].label = p[j].label
  BY JumpFindsLabelX86
<1> HIDE DEF l
<1>2. l # i /\ i \in 1..Len(p)
  <2>1. l # i
    BY <1>1, UnneededIs
  <2>2. QED
    BY <2>1 DEF Unneeded
<1>3. q[Down(i, l)] = p[l] /\ Down(i, l) \in 1..Len(q)
  BY <1>1, <1>2, RemovedOps
<1>4. LabelAt(q, q[Down(i, l)].label) = Down(i, l)
  BY <1>1, <1>3, LabelFoundX86
<1>5. QED
  BY <1>1, <1>3, <1>4 DEF l

RemovedRelated(p, i, D, s, t) ==
  t.pc = Down(i, s.pc) /\ Agree(D, s, t) /\ FlagsAgree(p, s, t)

LEMMA RemovedElsewhere ==
  ASSUME NEW p \in CodeX86, FlagsOk(p), NEW i, NEW D, Unneeded(p, i, D), NEW q \in CodeX86, IsRemoved(p, i, q),
         NEW s \in StatesX86(p), NEW t \in StatesX86(q), RemovedRelated(p, i, D, s, t), ~s.done, s.pc # i
  PROVE  RemovedRelated(p, i, D, ExecX86(p, s), ExecX86(q, t))
<1> DEFINE n == ExecX86(p, s)
           m == ExecX86(q, t)
<1>1. Agree(D, s, t) /\ FlagsAgree(p, s, t) /\ t.pc = Down(i, s.pc) /\ s.pc \in 1..Len(p)
  BY StateX86Fields DEF RemovedRelated
<1>2. i \in 1..Len(p) /\ Len(p) \in Nat /\ D \in SUBSET Vars /\ \A v \in D : ~Reads(p[s.pc], v)
  BY <1>1, CodeX86Type DEF Unneeded
<1>3. q[t.pc] = p[s.pc]
  BY <1>1, <1>2, RemovedOps
<1>4. Agree(D, n, m) /\ FlagsAgree(p, n, m) /\ Together(p, q, s, t, n, m)
  BY <1>1, <1>2, <1>3, StepsAlike
<1> HIDE DEF n, m
<1>5. m.pc = Down(i, n.pc)
  <2>1. CASE n.pc = s.pc + 1 /\ m.pc = t.pc + 1
    BY <1>1, <1>2, <2>1 DEF Down
  <2>2. CASE n.pc = s.pc /\ m.pc = t.pc
    BY <1>1, <2>2
  <2>3. CASE p[s.pc].id \in JumpsX86 /\ n.pc = LabelAt(p, p[s.pc].label) /\ m.pc = LabelAt(q, p[s.pc].label)
    BY <1>1, <2>3, RemovedJump
  <2>4. QED
    BY <1>4, <2>1, <2>2, <2>3 DEF Together
<1>6. QED
  BY <1>4, <1>5 DEF RemovedRelated, n, m

\* The removed operation does nothing that is seen.
LEMMA RemovedAlone ==
  ASSUME NEW p \in CodeX86, FlagsOk(p), NEW i, NEW D, Unneeded(p, i, D), NEW q \in CodeX86, IsRemoved(p, i, q),
         NEW s \in StatesX86(p), NEW t \in StatesX86(q), RemovedRelated(p, i, D, s, t), ~s.done, s.pc = i
  PROVE  /\ RemovedRelated(p, i, D, ExecX86(p, s), t)
         /\ ExecX86(p, s).pc = i + 1 /\ ~ExecX86(p, s).done
<1> DEFINE n == ExecX86(p, s)
           op == p[s.pc]
<1> SUFFICES RemovedRelated(p, i, D, n, t) /\ n.pc = i + 1 /\ ~n.done
  OBVIOUS
<1>1. /\ Agree(D, s, t) /\ FlagsAgree(p, s, t) /\ t.pc = Down(i, s.pc) /\ s.pc \in 1..Len(p)
      /\ s.env \in [Vars -> Num] /\ i \in 1..Len(p) /\ s.done = FALSE /\ t.done = FALSE
  BY StateX86Fields DEF RemovedRelated, Agree, Unneeded
<1>2. /\ op \in OpX86 /\ op.out \in Vars /\ op = p[i]
      /\ op.id \notin {"LABEL", "X86_CMP", "RETURN", "STORE"} \cup JumpsX86 \cup Compared
  BY UnneededIs
<1>3. op.id \in FlagReaders => s.flags.by = "cmp"
  BY <1>1, ReadersAgree
<1>4. Effect(p, op, s, n)
  BY ExecEffect
<1>5. /\ op.out \in D \/ (op.id = "IMM" /\ op.args[1] = Var(op.out))
      /\ op.id \in {"X86_SETCC", "X86_CMOV", "ADD", "SUB", "NOT", "IMM"}
  BY <1>2 DEF Unneeded
<1> HIDE DEF n, op
<1>6. ~Loses(op, s.flags) /\ ~Stops(op, s.flags) /\ ~Jumped(op, s.env, s.flags)
  <2>1. ~Loses(op, s.flags)
    BY <1>3 DEF Loses
  <2>2. QED
    BY <1>2, <2>1 DEF Stops, Jumped, JumpsX86, Jumps
<1>7. TraceNext(op, s.env, s.flags, s.trace) = s.trace
  BY <1>2, <1>6 DEF TraceNext
<1>8. n.pc = i + 1 /\ n.trace = s.trace /\ n.done = FALSE /\ n.env = EnvNext(op, s.env, s.flags)
      /\ n.flags = FlagsNext(op, s.env, s.flags)
  BY <1>4, <1>6, <1>7 DEF Effect, Parts
<1>9. \A v \in Vars \ D : n.env[v] = s.env[v]
  <2>1. CASE op.out \in D
    BY <1>1, <1>2, <1>8, <2>1 DEF EnvNext
  <2>2. CASE op.id = "IMM" /\ op.args[1] = Var(op.out)
    <3>1. ValueSet(op, s.env, s.flags) = Result(s.env, op)
      BY <1>2, <2>2 DEF ValueSet
    <3>2. Result(s.env, op) = s.env[op.out]
      BY <2>2 DEF Result, Eval, Var
    <3>3. QED
      BY <1>1, <1>2, <1>8, <3>1, <3>2 DEF EnvNext
  <2>3. QED
    BY <1>5, <2>1, <2>2
<1>10. Agree(D, n, t)
  BY <1>1, <1>8, <1>9 DEF Agree
<1>11. FlagsAgree(p, n, t)
  <2> SUFFICES ASSUME NEW h \in 1..i, Carried(p, h, i + 1)
               PROVE  n.flags = t.flags /\ n.flags.by = "cmp"
    BY <1>1, <1>8 DEF FlagsAgree
  <2>1. h \in 1..i - 1 /\ Carried(p, h, i) /\ ~ClobbersFlags(op)
    BY <1>1, <1>2, CarriedOn
  <2>2. s.flags = t.flags /\ s.flags.by = "cmp"
    BY <1>1, <2>1 DEF FlagsAgree
  <2>3. QED
    BY <1>2, <1>8, <2>1, <2>2 DEF FlagsNext
<1>12. t.pc = Down(i, n.pc)
  BY <1>1, <1>8 DEF Down
<1>13. QED
  BY <1>8, <1>10, <1>11, <1>12 DEF RemovedRelated

\* An operation nobody needs may be removed.
LEMMA RemovedEquivalent ==
  ASSUME NEW p \in CodeX86, FlagsOk(p), NEW i, NEW D, Unneeded(p, i, D), NEW q, IsRemoved(p, i, q)
  PROVE  EquivalentX86(p, q)
<1>1. q \in CodeX86
  BY RemovedCode
<1> DEFINE R == {u \in StatesX86(p) \X StatesX86(q) : RemovedRelated(p, i, D, u[1], u[2])}
           T1 == StepX86(p)
           T2 == StepX86(q)
<1>2. \A s \in StatesX86(p), t \in StatesX86(q) : <<s, t>> \in R <=> RemovedRelated(p, i, D, s, t)
  OBVIOUS
<1>3. ASSUME NEW env \in [Vars -> Num]
      PROVE  <<StartX86(env), StartX86(env)>> \in R
  <2>1. i \in 1..Len(p)
    BY DEF Unneeded
  <2>2. RemovedRelated(p, i, D, StartX86(env), StartX86(env))
    BY <2>1 DEF RemovedRelated, StartX86, Down, Agree, FlagsAgree
  <2>3. StartX86(env) \in StatesX86(p) /\ StartX86(env) \in StatesX86(q)
    BY <1>1, StartX86Type
  <2>4. QED
    BY <1>2, <2>2, <2>3
<1>4. /\ T1 \in [StatesX86(p) -> StatesX86(p)] /\ T2 \in [StatesX86(q) -> StatesX86(q)]
      /\ \A s \in StatesX86(p) : T1[s] = ExecX86(p, s)
      /\ \A t \in StatesX86(q) : T2[t] = ExecX86(q, t)
  BY <1>1, StepX86Type
<1> HIDE DEF R, T1, T2
<1>5. ASSUME NEW s \in StatesX86(p), NEW t \in StatesX86(q), <<s, t>> \in R
      PROVE  /\ Seen(s) = Seen(t)
             /\ \E z \in Reach(T2, t) : <<T1[s], z>> \in R
             /\ \E z \in Reach(T1, s) : <<z, T2[t]>> \in R
  <2>1. RemovedRelated(p, i, D, s, t)
    BY <1>2, <1>5
  <2>2. Agree(D, s, t)
    BY <2>1 DEF RemovedRelated
  <2>3. Seen(s) = Seen(t)
    BY <2>2 DEF Agree, Seen
  <2>4. /\ s \in Reach(T1, s) /\ t \in Reach(T2, t) /\ T1[s] \in Reach(T1, s) /\ T2[t] \in Reach(T2, t)
        /\ T1[T1[s]] \in Reach(T1, s)
        /\ T1[s] \in StatesX86(p) /\ T2[t] \in StatesX86(q) /\ T1[T1[s]] \in StatesX86(p)
    <3>1. /\ s \in Reach(T1, s) /\ t \in Reach(T2, t)
          /\ T1[s] \in StatesX86(p) /\ T2[t] \in StatesX86(q)
      BY <1>4, ReachType
    <3>2. T1[s] \in Reach(T1, s) /\ T2[t] \in Reach(T2, t)
      BY <1>4, <3>1, ReachStep
    <3>3. T1[T1[s]] \in Reach(T1, s) /\ T1[T1[s]] \in StatesX86(p)
      BY <1>4, <3>1, <3>2, ReachStep
    <3>4. QED
      BY <3>1, <3>2, <3>3
  <2>5. T1[s] = ExecX86(p, s) /\ T2[t] = ExecX86(q, t) /\ T1[T1[s]] = ExecX86(p, T1[s])
    BY <1>4, <2>4
  <2>6. CASE s.done
    <3>1. T1[s] = s /\ T2[t] = t
      BY <2>2, <2>5, <2>6, ExecDoneX86 DEF Agree
    <3>2. QED
      BY <1>5, <2>3, <2>4, <3>1
  <2>7. CASE ~s.done /\ s.pc # i
    <3>1. RemovedRelated(p, i, D, T1[s], T2[t])
      BY <1>1, <2>1, <2>5, <2>7, RemovedElsewhere
    <3>2. <<T1[s], T2[t]>> \in R
      BY <1>2, <2>4, <3>1
    <3>3. QED
      BY <2>3, <2>4, <3>2
  <2>8. CASE ~s.done /\ s.pc = i
    <3>1. RemovedRelated(p, i, D, T1[s], t) /\ T1[s].pc = i + 1 /\ ~T1[s].done
      BY <1>1, <2>1, <2>5, <2>8, RemovedAlone
    <3>2. T1[s].pc # i
      <4>1. i \in Nat
        BY CodeX86Type DEF Unneeded
      <4>2. QED
        BY <3>1, <4>1
    <3>3. RemovedRelated(p, i, D, T1[T1[s]], T2[t])
      BY <1>1, <2>4, <2>5, <3>1, <3>2, RemovedElsewhere
    <3>4. <<T1[s], t>> \in R
      BY <1>2, <2>4, <3>1
    <3>5. <<T1[T1[s]], T2[t]>> \in R
      BY <1>2, <2>4, <3>3
    <3>6. QED
      BY <2>3, <2>4, <3>4, <3>5
  <2>9. QED
    BY <2>6, <2>7, <2>8, StateX86Fields
<1>6. Bisimulates(T1, T2, R)
  BY <1>4, <1>5 DEF Bisimulates
<1>7. R \in SUBSET (StatesX86(p) \X StatesX86(q))
  BY DEF R
<1>8. QED
  BY <1>1, <1>3, <1>6, <1>7, BisimulationX86 DEF T1, T2

--------------------------------------------------------------------------------
(***************************************************************************)
(* What is still to be fused.                                               *)
(***************************************************************************)
Undisturbed(p, v, a, b) ==
  \A k \in a..b :
    /\ p[k].out # v
    /\ p[k].id \notin Compared \cup {"LABEL"}
    /\ ~AffectsFlags(p[k]) /\ ~ClobbersFlags(p[k])
Ended(p, h, i) == \E k \in h + 1..i : AffectsFlags(p[k])

\* The walk at a has the comparisons of all conditionals in front of it.
Pending(p, a, j) == p[j].args[1].kind = "var" /\ \E i \in a..j - 1 : Decides(p, i, j)
Walks(p, a) == \A j \in 1..Len(p) : p[j].id \in Conditionals => Pending(p, a, j)

\* While the users of a comparison at a are looked for from l on, a conditional
\* goes by a later comparison, which the search does not get to, or by this one.
Later(p, a, c, j) ==
  \E i \in a + 1..j - 1 : Decides(p, i, j) /\ (p[i].out = c.out => Ended(p, a, i))
Now(p, a, l, c, j) ==
  j >= l /\ p[j].args[1].n = c.out /\ Undisturbed(p, c.out, a + 1, j - 1)
Sought(p, a, l, c, j) == p[j].args[1].kind = "var" /\ (Later(p, a, c, j) \/ Now(p, a, l, c, j))
Searches(p, a, l, c) ==
  /\ p \in Seq(OpX86) /\ a \in 1..Len(p) /\ l \in a + 1..Len(p) + 1
  /\ p[a].id = "X86_CMP" /\ c.out \in Vars /\ c.cc \in Codes
  /\ \A k \in a + 1..l - 1 : ~AffectsFlags(p[k])
  /\ \A j \in 1..Len(p) : p[j].id \in Conditionals => Sought(p, a, l, c, j)

LEMMA DecidesIs ==
  ASSUME NEW p, NEW i, NEW j
  PROVE  Decides(p, i, j) <=>
           /\ p[i].id \in Compared /\ p[i].out = p[j].args[1].n
           /\ Undisturbed(p, p[i].out, i + 1, j - 1)
           /\ \A h \in 1..i - 1 : p[h].id \in Compared /\ p[h].out = p[i].out => Ended(p, h, i)
  BY DEF Decides, Undisturbed, Ended

\* An operation for another that counts as little is no matter.
Unmoved(p, q, b) ==
  /\ Len(q) = Len(p)
  /\ \A k \in 1..Len(p) : k # b => q[k] = p[k]

LEMMA StillDecides ==
  ASSUME NEW p, NEW q, Len(p) \in Nat, NEW b \in 1..Len(p), Unmoved(p, q, b),
         NEW i \in 1..Len(p), NEW j \in i + 1..Len(p), i # b, j # b, Decides(p, i, j),
         AffectsFlags(p[b]) => AffectsFlags(q[b]),
         q[b].id \notin Compared,
         b > i => q[b].out = p[b].out /\ q[b].id # "LABEL" /\ ~AffectsFlags(q[b]) /\ ~ClobbersFlags(q[b])
  PROVE  Decides(q, i, j)
<1>1. /\ p[i].id \in Compared /\ p[i].out = p[j].args[1].n
      /\ Undisturbed(p, p[i].out, i + 1, j - 1)
      /\ \A h \in 1..i - 1 : p[h].id \in Compared /\ p[h].out = p[i].out => Ended(p, h, i)
  BY DecidesIs
<1>2. q[i] = p[i] /\ q[j] = p[j]
  <2>1. j \in 1..Len(p)
    OBVIOUS
  <2>2. QED
    BY <2>1 DEF Unmoved
<1>3. Undisturbed(q, q[i].out, i + 1, j - 1)
  <2> SUFFICES ASSUME NEW k \in i + 1..j - 1
               PROVE  /\ q[k].out # p[i].out
                      /\ q[k].id \notin Compared \cup {"LABEL"}
                      /\ ~AffectsFlags(q[k]) /\ ~ClobbersFlags(q[k])
    BY <1>2 DEF Undisturbed
  <2>1. /\ p[k].out # p[i].out
        /\ p[k].id \notin Compared \cup {"LABEL"}
        /\ ~AffectsFlags(p[k]) /\ ~ClobbersFlags(p[k])
    BY <1>1 DEF Undisturbed
  <2>2. k \in 1..Len(p) /\ k > i
    OBVIOUS
  <2>3. CASE k = b
    BY <2>1, <2>2, <2>3
  <2>4. CASE k # b
    BY <2>1, <2>2, <2>4 DEF Unmoved
  <2>5. QED
    BY <2>3, <2>4
<1>4. ASSUME NEW h \in 1..i - 1, q[h].id \in Compared, q[h].out = q[i].out
      PROVE  Ended(q, h, i)
  <2>1. h # b /\ h \in 1..Len(p)
    BY <1>4
  <2>2. q[h] = p[h]
    BY <2>1 DEF Unmoved
  <2>3. Ended(p, h, i)
    BY <1>1, <1>2, <1>4, <2>2
  <2>4. PICK k \in h + 1..i : AffectsFlags(p[k])
    BY <2>3 DEF Ended
  <2>5. AffectsFlags(q[k])
    <3>1. k \in 1..Len(p)
      BY <2>1
    <3>2. CASE k = b
      BY <2>4, <3>2
    <3>3. CASE k # b
      BY <2>4, <3>1, <3>3 DEF Unmoved
    <3>4. QED
      BY <3>2, <3>3
  <2>6. QED
    BY <2>5 DEF Ended
<1>5. QED
  BY <1>1, <1>2, <1>3, <1>4, DecidesIs

SetAfter(p, a, c) == InsertAfter(p, a, Assign("X86_SETCC", c.out, <<Cc(c.cc)>>))

LEMMA SetAfterIs ==
  ASSUME NEW p \in Seq(OpX86), NEW a \in 1..Len(p), NEW c, c.out \in Vars, c.cc \in Codes
  PROVE  IsInsert(OpX86, p, a, [id |-> "X86_SETCC", out |-> c.out, args |-> <<Cc(c.cc)>>, label |-> NoLabel],
                  SetAfter(p, a, c))
<1> DEFINE args == <<Cc(c.cc)>>
           op == [id |-> "X86_SETCC", out |-> c.out, args |-> args, label |-> NoLabel]
<1>1. args \in {<<x>> : x \in CcArg}
  BY DEF Cc, CcArg
<1> HIDE DEF args
<1>2. op \in OpX86
  BY <1>1 DEF OpX86, SetccOps
<1>3. Assign("X86_SETCC", c.out, args) = op
  BY DEF Assign
<1> HIDE DEF op
<1>4. a \in 0..Len(p)
  OBVIOUS
<1>5. IsInsert(OpX86, p, a, op, InsertAfter(p, a, op))
  BY <1>2, <1>4, InsertIs
<1>6. SetAfter(p, a, c) = InsertAfter(p, a, op)
  BY <1>3 DEF SetAfter, args
<1>7. QED
  BY <1>5, <1>6 DEF op, args

\* The comparison at hand becomes the one that sets the flags.
LEMMA CompareSearches ==
  ASSUME NEW p \in CodeX86, NEW a \in 1..Len(p), p[a].id \in Compared, Walks(p, a),
         NEW c, c = [out |-> p[a].out, cc |-> CcOf[p[a].id]],
         NEW q, q = ReplaceAt(p, a, FlagsOp(p[a]))
  PROVE  Searches(q, a, a + 1, c)
<1>1. p \in Seq(OpX86) /\ Len(p) \in Nat /\ p[a] \in OpX86
  BY CodeX86Type
<1>2. /\ FlagsOp(p[a]) = [id |-> "X86_CMP", out |-> NoVar, args |-> p[a].args, label |-> NoLabel]
      /\ FlagsOp(p[a]) \in OpX86 /\ c.out \in Vars /\ c.cc \in Codes /\ c.out = p[a].out
  BY <1>1, ComparisonFields
<1> DEFINE new == FlagsOp(p[a])
<1>3. q \in Seq(OpX86) /\ Len(q) = Len(p) /\ \A j \in 1..Len(q) : q[j] = IF j = a THEN new ELSE p[j]
  <2>1. new \in OpX86 /\ q = ReplaceAt(p, a, new)
    BY <1>2
  <2> HIDE DEF new
  <2>2. IsReplaced(OpX86, p, a, new, ReplaceAt(p, a, new))
    BY <1>1, <2>1, ReplaceIs
  <2>3. QED
    BY <2>1, <2>2 DEF IsReplaced
<1>4. q[a].id = "X86_CMP" /\ Unmoved(p, q, a)
  BY <1>1, <1>2, <1>3 DEF Unmoved
<1>5. AffectsFlags(q[a]) /\ q[a].id \notin Compared
  BY <1>4, ComparedIds DEF AffectsFlags
<1>6. ASSUME NEW j \in 1..Len(q), q[j].id \in Conditionals
      PROVE  Sought(q, a, a + 1, c, j)
  <2>1. j # a /\ q[j] = p[j]
    BY <1>3, <1>4, <1>6 DEF Conditionals
  <2>2. Pending(p, a, j)
    BY <1>3, <1>6, <2>1 DEF Walks
  <2>3. PICK i \in a..j - 1 : Decides(p, i, j)
    BY <2>2 DEF Pending
  <2>4. i \in 1..Len(p) /\ j \in i + 1..Len(p)
    BY <1>1, <1>3
  <2>5. /\ p[i].id \in Compared /\ p[i].out = p[j].args[1].n
        /\ Undisturbed(p, p[i].out, i + 1, j - 1)
        /\ \A h \in 1..i - 1 : p[h].id \in Compared /\ p[h].out = p[i].out => Ended(p, h, i)
    BY <2>3, DecidesIs
  <2>6. CASE i = a
    <3>1. Undisturbed(q, c.out, a + 1, j - 1)
      <4> SUFFICES ASSUME NEW k \in a + 1..j - 1
                   PROVE  q[k] = p[k]
        BY <1>2, <2>5, <2>6 DEF Undisturbed
      <4>1. k \in 1..Len(q) /\ k # a
        BY <1>1, <1>3
      <4>2. QED
        BY <1>3, <4>1
    <3>2. j >= a + 1
      BY <2>4, <2>6
    <3>3. q[j].args[1].n = c.out
      BY <1>2, <2>1, <2>5, <2>6
    <3>4. QED
      BY <2>1, <2>2, <3>1, <3>2, <3>3 DEF Sought, Now, Pending
  <2>7. CASE i # a
    <3>1. i > a /\ a \in 1..i - 1 /\ i \in a + 1..j - 1
      BY <2>4, <2>7
    <3>2. Decides(q, i, j)
      BY <1>1, <1>4, <1>5, <2>1, <2>3, <2>4, <3>1, StillDecides
    <3>3. q[i] = p[i]
      BY <1>3, <2>4, <2>7
    <3>4. ASSUME q[i].out = c.out
          PROVE  Ended(q, a, i)
      <4>1. Ended(p, a, i)
        BY <1>2, <2>5, <3>1, <3>3, <3>4
      <4>2. PICK k \in a + 1..i : AffectsFlags(p[k])
        BY <4>1 DEF Ended
      <4>3. k \in 1..Len(q) /\ k # a
        BY <1>3, <2>4
      <4>4. AffectsFlags(q[k])
        BY <1>3, <4>2, <4>3
      <4>5. QED
        BY <4>4 DEF Ended
    <3>5. Later(q, a, c, j)
      BY <3>1, <3>2, <3>4 DEF Later
    <3>6. QED
      BY <2>1, <2>2, <3>5 DEF Sought, Pending
  <2>8. QED
    BY <2>6, <2>7
<1>7. a + 1..(a + 1) - 1 = {} /\ a + 1 \in a + 1..Len(q) + 1 /\ a \in 1..Len(q)
  BY <1>1, <1>3
<1>8. \A k \in a + 1..(a + 1) - 1 : ~AffectsFlags(q[k])
  BY <1>7
<1>9. QED
  BY <1>2, <1>3, <1>4, <1>6, <1>7, <1>8 DEF Searches

LEMMA CompareSplits ==
  ASSUME NEW p \in CodeX86, NEW a \in 1..Len(p), p[a].id \in Compared,
         NEW c, c = [out |-> p[a].out, cc |-> CcOf[p[a].id]],
         NEW q, q = ReplaceAt(p, a, FlagsOp(p[a]))
  PROVE  IsSplit(p, a, SetAfter(q, a, c))
<1>1. SetAfter(q, a, c) = Split(p, a)
  BY DEF SetAfter, Split, SetsOut
<1>2. QED
  BY <1>1, SplitIs

ConditionalAt(p, l) == l <= Len(p) /\ p[l].id \in Conditionals

LEMMA SearchFields ==
  ASSUME NEW p, NEW a, NEW l, NEW c, Searches(p, a, l, c)
  PROVE  /\ p \in Seq(OpX86) /\ Len(p) \in Nat /\ a \in 1..Len(p) /\ l \in a + 1..Len(p) + 1 /\ a \in Nat /\ l \in Nat
         /\ \A k \in 1..Len(p) : p[k] \in OpX86
         /\ c.out \in Vars /\ c.cc \in Codes /\ p[a].id = "X86_CMP"
         /\ l <= Len(p) => l \in 1..Len(p)
  BY DEF Searches

\* The search goes on past an operation that leaves the flags.
LEMMA LookOnSearches ==
  ASSUME NEW p, NEW a, NEW l, NEW c, Searches(p, a, l, c), l <= Len(p), ~AffectsFlags(p[l]),
         ~(p[l].id \in Conditionals /\ p[l].args[1].n = c.out)
  PROVE  Searches(p, a, l + 1, c)
<1>1. /\ Len(p) \in Nat /\ a \in 1..Len(p) /\ l \in a + 1..Len(p) + 1 /\ a \in Nat /\ l \in Nat
  BY SearchFields
<1>2. ASSUME NEW j \in 1..Len(p), p[j].id \in Conditionals
      PROVE  Sought(p, a, l + 1, c, j)
  <2>1. Sought(p, a, l, c, j)
    BY <1>2 DEF Searches
  <2>2. Now(p, a, l, c, j) => Now(p, a, l + 1, c, j)
    <3> SUFFICES ASSUME Now(p, a, l, c, j) PROVE j >= l + 1
      BY DEF Now
    <3>1. j >= l /\ j # l
      BY <1>2 DEF Now
    <3>2. QED
      BY <1>1, <3>1
  <2>3. QED
    BY <2>1, <2>2 DEF Sought
<1>3. \A k \in a + 1..(l + 1) - 1 : ~AffectsFlags(p[k])
  <2>1. \A k \in a + 1..(l + 1) - 1 : k = l \/ k \in a + 1..l - 1
    BY <1>1
  <2>2. QED
    BY <2>1 DEF Searches
<1>4. l + 1 \in a + 1..Len(p) + 1
  BY <1>1
<1>5. QED
  BY <1>2, <1>3, <1>4 DEF Searches

\* A conditional on the output of the comparison goes by this comparison: a
\* later one would have ended the search.
LEMMA FusesNow ==
  ASSUME NEW p, NEW a, NEW l, NEW c, Searches(p, a, l, c), ConditionalAt(p, l), p[l].args[1].n = c.out
  PROVE  Now(p, a, l, c, l) /\ p[l].args[1] = Var(c.out) /\ p[l] \in OpX86 /\ ~AffectsFlags(p[l])
<1>1. /\ Len(p) \in Nat /\ a \in Nat /\ l \in Nat /\ l \in 1..Len(p) /\ l \in a + 1..Len(p) + 1 /\ p[l] \in OpX86
      /\ p[l].id \in Conditionals
  BY SearchFields DEF ConditionalAt
<1>2. Sought(p, a, l, c, l)
  BY <1>1 DEF Searches
<1>3. ~Later(p, a, c, l)
  <2> SUFFICES ASSUME NEW i \in a + 1..l - 1, Decides(p, i, l), p[i].out = c.out => Ended(p, a, i)
               PROVE  FALSE
    BY DEF Later
  <2>1. p[i].out = c.out
    BY DecidesIs
  <2>2. PICK k \in a + 1..i : AffectsFlags(p[k])
    BY <2>1 DEF Ended
  <2>3. k \in a + 1..l - 1
    BY <1>1
  <2>4. QED
    BY <2>2, <2>3 DEF Searches
<1>4. p[l].args[1] = Var(c.out)
  <2>1. p[l].args \in Seq(Value) /\ Len(p[l].args) \in {1, 2}
    BY <1>1, ConditionalFields DEF Conditionals
  <2>2. p[l].args[1] \in Value /\ p[l].args[1].kind = "var"
    BY <1>2, <2>1 DEF Sought
  <2>3. p[l].args[1] = [kind |-> "var", n |-> p[l].args[1].n]
    BY <2>2 DEF Value
  <2>4. QED
    BY <2>3 DEF Var
<1>5. ~AffectsFlags(p[l])
  BY <1>1, Apart DEF AffectsFlags, Conditionals
<1>6. QED
  BY <1>1, <1>2, <1>3, <1>4, <1>5 DEF Sought

LEMMA FuseCan ==
  ASSUME NEW p, NEW a, NEW l, NEW c, Searches(p, a, l, c), ConditionalAt(p, l), p[l].args[1].n = c.out
  PROVE  CanFuse(SetAfter(p, a, c), a, l + 1, c.out, c.cc)
<1> DEFINE w == SetAfter(p, a, c)
           set == [id |-> "X86_SETCC", out |-> c.out, args |-> <<Cc(c.cc)>>, label |-> NoLabel]
<1>1. /\ p \in Seq(OpX86) /\ Len(p) \in Nat /\ a \in 1..Len(p) /\ l \in a + 1..Len(p) + 1 /\ a \in Nat /\ l \in Nat
      /\ c.out \in Vars /\ c.cc \in Codes /\ p[a].id = "X86_CMP" /\ l \in 1..Len(p) /\ p[l].id \in Conditionals
  BY SearchFields DEF ConditionalAt
<1>2. Now(p, a, l, c, l) /\ p[l].args[1] = Var(c.out)
  BY FusesNow
<1>3. IsInsert(OpX86, p, a, set, w)
  BY <1>1, SetAfterIs
<1> HIDE DEF w
<1>4. /\ Len(w) = Len(p) + 1
      /\ \A j \in 1..Len(w) : w[j] = IF j <= a THEN p[j] ELSE IF j = a + 1 THEN set ELSE p[j - 1]
  BY <1>3 DEF IsInsert
<1>5. /\ a \in 1..Len(w) /\ a <= a /\ a + 1 \in 1..Len(w) /\ ~(a + 1 <= a)
      /\ l + 1 \in 1..Len(w) /\ ~(l + 1 <= a) /\ l + 1 # a + 1 /\ (l + 1) - 1 = l
      /\ l + 1 \in a + 2..Len(w)
  BY <1>1, <1>4
<1>6. w[a] = p[a] /\ w[a + 1] = set /\ w[l + 1] = p[l]
  BY <1>4, <1>5
<1>7. ASSUME NEW k \in a + 2..(l + 1) - 1
      PROVE  /\ w[k].out # c.out /\ w[k].id \notin Compared \cup {"LABEL"}
             /\ ~AffectsFlags(w[k]) /\ ~ClobbersFlags(w[k])
  <2>1. k \in 1..Len(w) /\ ~(k <= a) /\ k # a + 1 /\ k - 1 \in a + 1..l - 1
    BY <1>1, <1>4
  <2>2. w[k] = p[k - 1]
    BY <1>4, <2>1
  <2>3. QED
    BY <1>2, <2>1, <2>2 DEF Now, Undisturbed
<1>8. set.id = "X86_SETCC" /\ set.out = c.out /\ set.args[1] = Cc(c.cc)
  OBVIOUS
<1> HIDE DEF set
<1>9. CanFuse(w, a, l + 1, c.out, c.cc)
  BY <1>1, <1>2, <1>5, <1>6, <1>7, <1>8 DEF CanFuse
<1>10. QED
  BY <1>9 DEF w

LEMMA FuseReplaces ==
  ASSUME NEW p, NEW a, NEW l, NEW c, Searches(p, a, l, c), ConditionalAt(p, l),
         NEW q, q = ReplaceAt(p, l, FusedWith(p[l], c.cc))
  PROVE  /\ q \in Seq(OpX86) /\ Len(q) = Len(p)
         /\ \A k \in 1..Len(q) : q[k] = IF k = l THEN FusedWith(p[l], c.cc) ELSE p[k]
         /\ q[l].out = p[l].out /\ q[l].id \in {"X86_JMPCC", "X86_CMOV"}
         /\ Unmoved(p, q, l)
<1>1. /\ p \in Seq(OpX86) /\ Len(p) \in Nat /\ c.cc \in Codes /\ l \in 1..Len(p) /\ p[l].id \in Conditionals /\ p[l] \in OpX86
  BY SearchFields DEF ConditionalAt
<1> DEFINE new == FusedWith(p[l], c.cc)
<1>2. new \in OpX86 /\ new.out = p[l].out /\ new.id \in {"X86_JMPCC", "X86_CMOV"}
  <2>1. p[l].id = "COND" =>
          new = [id |-> "X86_JMPCC", out |-> p[l].out, args |-> <<Cc(c.cc)>>, label |-> p[l].label]
    BY <1>1, FusedFields
  <2>2. p[l].id = "CMOV" =>
          new = [id |-> "X86_CMOV", out |-> p[l].out, args |-> <<Cc(c.cc), p[l].args[2]>>, label |-> p[l].label]
    BY <1>1, FusedFields
  <2>3. new \in OpX86
    BY <1>1, FusedFields
  <2>4. p[l].id \in {"COND", "CMOV"}
    BY <1>1 DEF Conditionals
  <2> HIDE DEF new
  <2>5. QED
    BY <2>1, <2>2, <2>3, <2>4
<1>3. q = ReplaceAt(p, l, new)
  OBVIOUS
<1> HIDE DEF new
<1>4. IsReplaced(OpX86, p, l, new, ReplaceAt(p, l, new))
  BY <1>1, <1>2, ReplaceIs
<1>5. q \in Seq(OpX86) /\ Len(q) = Len(p) /\ \A k \in 1..Len(q) : q[k] = IF k = l THEN new ELSE p[k]
  BY <1>3, <1>4 DEF IsReplaced
<1>6. q[l] = new
  BY <1>1, <1>5
<1>7. Unmoved(p, q, l)
  BY <1>5 DEF Unmoved
<1>8. QED
  BY <1>2, <1>5, <1>6, <1>7 DEF new

LEMMA FuseFuses ==
  ASSUME NEW p, NEW a, NEW l, NEW c, Searches(p, a, l, c), ConditionalAt(p, l),
         NEW q, q = ReplaceAt(p, l, FusedWith(p[l], c.cc))
  PROVE  IsFused(SetAfter(p, a, c), l + 1, c.cc, SetAfter(q, a, c))
<1> DEFINE w == SetAfter(p, a, c)
           x == SetAfter(q, a, c)
           set == [id |-> "X86_SETCC", out |-> c.out, args |-> <<Cc(c.cc)>>, label |-> NoLabel]
<1>1. /\ p \in Seq(OpX86) /\ Len(p) \in Nat /\ a \in 1..Len(p) /\ l \in a + 1..Len(p) + 1 /\ a \in Nat /\ l \in Nat
      /\ c.out \in Vars /\ c.cc \in Codes /\ l \in 1..Len(p)
  BY SearchFields DEF ConditionalAt
<1>2. q \in Seq(OpX86) /\ Len(q) = Len(p) /\ \A k \in 1..Len(q) : q[k] = IF k = l THEN FusedWith(p[l], c.cc) ELSE p[k]
  BY FuseReplaces
<1>3. IsInsert(OpX86, p, a, set, w)
  BY <1>1, SetAfterIs
<1>4. IsInsert(OpX86, q, a, set, x)
  <2>1. a \in 1..Len(q)
    BY <1>1, <1>2
  <2>2. QED
    BY <1>1, <1>2, <2>1, SetAfterIs
<1> HIDE DEF w, x, set
<1>5. /\ Len(w) = Len(p) + 1
      /\ \A j \in 1..Len(w) : w[j] = IF j <= a THEN p[j] ELSE IF j = a + 1 THEN set ELSE p[j - 1]
  BY <1>3 DEF IsInsert
<1>6. /\ Len(x) = Len(p) + 1 /\ x \in Seq(OpX86)
      /\ \A j \in 1..Len(x) : x[j] = IF j <= a THEN q[j] ELSE IF j = a + 1 THEN set ELSE q[j - 1]
  BY <1>2, <1>4 DEF IsInsert
<1>7. w[l + 1] = p[l]
  BY <1>1, <1>5
<1>8. ASSUME NEW k \in 1..Len(w)
      PROVE  x[k] = IF k = l + 1 THEN FusedWith(w[l + 1], c.cc) ELSE w[k]
  <2>1. CASE k <= a
    <3>1. k # l + 1 /\ k # l /\ k \in 1..Len(q) /\ k \in 1..Len(x)
      BY <1>1, <1>2, <1>5, <1>6, <2>1
    <3>2. x[k] = q[k] /\ w[k] = p[k] /\ q[k] = p[k]
      BY <1>2, <1>5, <1>6, <2>1, <3>1
    <3>3. QED
      BY <3>1, <3>2
  <2>2. CASE k = a + 1
    <3>1. k # l + 1 /\ ~(k <= a) /\ k \in 1..Len(x)
      BY <1>1, <1>5, <1>6, <2>2
    <3>2. x[k] = set /\ w[k] = set
      BY <1>5, <1>6, <2>2, <3>1
    <3>3. QED
      BY <3>1, <3>2
  <2>3. CASE k > a + 1
    <3>1. ~(k <= a) /\ k # a + 1 /\ k \in 1..Len(x) /\ k - 1 \in 1..Len(q) /\ (k - 1 = l <=> k = l + 1)
      BY <1>1, <1>2, <1>5, <1>6, <2>3
    <3>2. x[k] = q[k - 1] /\ w[k] = p[k - 1]
      BY <1>5, <1>6, <3>1
    <3>3. q[k - 1] = IF k - 1 = l THEN FusedWith(p[l], c.cc) ELSE p[k - 1]
      BY <1>2, <3>1
    <3>4. QED
      BY <1>7, <3>1, <3>2, <3>3
  <2>4. QED
    BY <1>1, <1>5, <2>1, <2>2, <2>3
<1>9. IsFused(w, l + 1, c.cc, x)
  BY <1>5, <1>6, <1>8 DEF IsFused
<1>10. QED
  BY <1>9 DEF w, x

LEMMA FuseSearches ==
  ASSUME NEW p, NEW a, NEW l, NEW c, Searches(p, a, l, c), ConditionalAt(p, l),
         NEW q, q = ReplaceAt(p, l, FusedWith(p[l], c.cc))
  PROVE  Searches(q, a, l + 1, c)
<1>1. /\ Len(p) \in Nat /\ a \in 1..Len(p) /\ l \in a + 1..Len(p) + 1 /\ a \in Nat /\ l \in Nat
      /\ c.out \in Vars /\ c.cc \in Codes /\ l \in 1..Len(p) /\ p[a].id = "X86_CMP" /\ p[l].id \in Conditionals
  BY SearchFields DEF ConditionalAt
<1>2. q \in Seq(OpX86) /\ Len(q) = Len(p) /\ \A k \in 1..Len(q) : q[k] = IF k = l THEN FusedWith(p[l], c.cc) ELSE p[k]
  BY FuseReplaces
<1>3. q[l].out = p[l].out /\ q[l].id \in {"X86_JMPCC", "X86_CMOV"} /\ Unmoved(p, q, l)
  BY FuseReplaces
<1>4. /\ q[l].id \notin Compared \cup {"LABEL"} \cup Conditionals /\ ~AffectsFlags(q[l]) /\ ~ClobbersFlags(q[l])
      /\ ~AffectsFlags(p[l]) /\ p[l].id \notin Compared
  BY <1>1, <1>3, Apart, ComparedIds, ClobbersWhat DEF AffectsFlags, Conditionals
<1>5. \A k \in 1..Len(p) : k # l => q[k] = p[k]
  BY <1>2
<1>6. ASSUME NEW j \in 1..Len(q), q[j].id \in Conditionals
      PROVE  Sought(q, a, l + 1, c, j)
  <2>1. j # l /\ q[j] = p[j] /\ j \in 1..Len(p)
    BY <1>2, <1>4, <1>5, <1>6
  <2>2. Sought(p, a, l, c, j)
    BY <1>6, <2>1 DEF Searches
  <2>3. CASE Later(p, a, c, j)
    <3>1. PICK i \in a + 1..j - 1 : Decides(p, i, j) /\ (p[i].out = c.out => Ended(p, a, i))
      BY <2>3 DEF Later
    <3>2. p[i].id \in Compared
      BY <3>1, DecidesIs
    <3>3. i # l /\ i \in 1..Len(p) /\ j \in i + 1..Len(p)
      BY <1>1, <1>4, <2>1, <3>2
    <3>4. Decides(q, i, j)
      BY <1>1, <1>3, <1>4, <2>1, <3>1, <3>3, StillDecides
    <3>5. q[i] = p[i]
      BY <1>5, <3>3
    <3>6. Ended(p, a, i) => Ended(q, a, i)
      <4> SUFFICES ASSUME NEW k \in a + 1..i, AffectsFlags(p[k])
                   PROVE  AffectsFlags(q[k])
        BY DEF Ended
      <4>1. k # l /\ k \in 1..Len(p)
        BY <1>1, <1>4, <3>3
      <4>2. QED
        BY <1>5, <4>1
    <3>7. Later(q, a, c, j)
      BY <3>1, <3>4, <3>5, <3>6 DEF Later
    <3>8. QED
      BY <2>1, <2>2, <3>7 DEF Sought
  <2>4. CASE Now(p, a, l, c, j)
    <3>1. j >= l + 1
      BY <1>1, <2>1, <2>4 DEF Now
    <3>2. Undisturbed(q, c.out, a + 1, j - 1)
      <4> SUFFICES ASSUME NEW k \in a + 1..j - 1
                   PROVE  /\ q[k].out # c.out
                          /\ q[k].id \notin Compared \cup {"LABEL"}
                          /\ ~AffectsFlags(q[k]) /\ ~ClobbersFlags(q[k])
        BY DEF Undisturbed
      <4>1. /\ p[k].out # c.out
            /\ p[k].id \notin Compared \cup {"LABEL"}
            /\ ~AffectsFlags(p[k]) /\ ~ClobbersFlags(p[k])
        BY <2>4 DEF Now, Undisturbed
      <4>2. k \in 1..Len(p)
        BY <1>1, <2>1
      <4>3. CASE k = l
        BY <1>3, <1>4, <4>1, <4>3
      <4>4. CASE k # l
        BY <1>5, <4>1, <4>2, <4>4
      <4>5. QED
        BY <4>3, <4>4
    <3>3. QED
      BY <2>1, <2>2, <2>4, <3>1, <3>2 DEF Sought, Now
  <2>5. QED
    BY <2>2, <2>3, <2>4 DEF Sought
<1>7. \A k \in a + 1..(l + 1) - 1 : ~AffectsFlags(q[k])
  <2> SUFFICES ASSUME NEW k \in a + 1..(l + 1) - 1 PROVE ~AffectsFlags(q[k])
    OBVIOUS
  <2>1. CASE k = l
    BY <1>4, <2>1
  <2>2. CASE k # l
    <3>1. k \in a + 1..l - 1 /\ k \in 1..Len(p)
      BY <1>1, <2>2
    <3>2. QED
      BY <1>5, <2>2, <3>1 DEF Searches
  <2>3. QED
    BY <2>1, <2>2
<1>8. q[a].id = "X86_CMP" /\ a \in 1..Len(q) /\ l + 1 \in a + 1..Len(q) + 1
  <2>1. a # l
    BY <1>1
  <2>2. QED
    BY <1>1, <1>2, <1>5, <2>1
<1>9. QED
  BY <1>1, <1>2, <1>6, <1>7, <1>8 DEF Searches

\* When the search is over, the conditionals left go by later comparisons.
LEMMA StopWalks ==
  ASSUME NEW p, NEW a, NEW l, NEW c, Searches(p, a, l, c),
         l <= Len(p) => p[l].id \notin Conditionals /\ AffectsFlags(p[l]),
         \A k \in 1..a : p[k].id \notin Compared
  PROVE  Walks(SetAfter(p, a, c), a + 1)
<1> DEFINE w == SetAfter(p, a, c)
           set == [id |-> "X86_SETCC", out |-> c.out, args |-> <<Cc(c.cc)>>, label |-> NoLabel]
<1>1. /\ p \in Seq(OpX86) /\ Len(p) \in Nat /\ a \in 1..Len(p) /\ l \in a + 1..Len(p) + 1 /\ a \in Nat /\ l \in Nat
      /\ c.out \in Vars /\ c.cc \in Codes
  BY SearchFields
<1>2. IsInsert(OpX86, p, a, set, w)
  BY <1>1, SetAfterIs
<1>3. set.id = "X86_SETCC"
  OBVIOUS
<1> SUFFICES Walks(w, a + 1)
  OBVIOUS
<1> HIDE DEF w, set
<1>4. /\ Len(w) = Len(p) + 1
      /\ \A j \in 1..Len(w) : w[j] = IF j <= a THEN p[j] ELSE IF j = a + 1 THEN set ELSE p[j - 1]
  BY <1>2 DEF IsInsert
<1>5. /\ w[a + 1] = set
      /\ \A k \in 1..Len(p) : k <= a => w[k] = p[k]
      /\ \A k \in 1..Len(p) : k > a => w[k + 1] = p[k]
  BY <1>1, <1>4
<1>6. ASSUME NEW j \in 1..Len(p), p[j].id \in Conditionals
      PROVE  p[j].args[1].kind = "var" /\ Later(p, a, c, j)
  <2>1. Sought(p, a, l, c, j)
    BY <1>6 DEF Searches
  <2>2. ~Now(p, a, l, c, j)
    <3> SUFFICES ASSUME Now(p, a, l, c, j) PROVE FALSE
      OBVIOUS
    <3>1. j >= l /\ l <= Len(p)
      BY <1>1 DEF Now
    <3>2. j # l
      BY <1>6, <3>1
    <3>3. l \in a + 1..j - 1
      BY <1>1, <3>1, <3>2
    <3>4. QED
      BY <3>1, <3>3 DEF Now, Undisturbed
  <2>3. QED
    BY <2>1, <2>2 DEF Sought
<1>7. ASSUME NEW j \in 1..Len(w), w[j].id \in Conditionals
      PROVE  Pending(w, a + 1, j)
  <2>1. j # a + 1
    BY <1>3, <1>5, <1>7 DEF Conditionals
  <2>2. ~(j <= a)
    <3> SUFFICES ASSUME j <= a PROVE FALSE
      OBVIOUS
    <3>1. j \in 1..Len(p) /\ w[j] = p[j]
      BY <1>1, <1>4, <1>5
    <3>2. PICK i \in a + 1..j - 1 : TRUE
      BY <1>6, <1>7, <3>1 DEF Later
    <3>3. QED
      BY <1>1, <3>2
  <2> DEFINE m == j - 1
  <2>3. m \in 1..Len(p) /\ m > a /\ j = m + 1 /\ w[j] = p[m]
    BY <1>1, <1>4, <1>5, <2>1, <2>2
  <2> HIDE DEF m
  <2>4. p[m].args[1].kind = "var" /\ Later(p, a, c, m)
    BY <1>6, <1>7, <2>3
  <2>5. PICK i \in a + 1..m - 1 : Decides(p, i, m)
    BY <2>4 DEF Later
  <2>6. /\ p[i].id \in Compared /\ p[i].out = p[m].args[1].n
        /\ Undisturbed(p, p[i].out, i + 1, m - 1)
        /\ \A h \in 1..i - 1 : p[h].id \in Compared /\ p[h].out = p[i].out => Ended(p, h, i)
    BY <2>5, DecidesIs
  <2>a. i \in 1..Len(p) /\ i > a
    BY <1>1, <2>3
  <2>7. i \in 1..Len(p) /\ i > a /\ w[i + 1] = p[i]
    BY <1>5, <2>a
  <2>8. Undisturbed(w, w[i + 1].out, (i + 1) + 1, j - 1)
    <3> SUFFICES ASSUME NEW k \in (i + 1) + 1..j - 1
                 PROVE  w[k] = p[k - 1] /\ k - 1 \in i + 1..m - 1
      BY <2>6, <2>7 DEF Undisturbed
    <3>1. k - 1 \in 1..Len(p) /\ k - 1 > a /\ (k - 1) + 1 = k /\ k - 1 \in i + 1..m - 1
      BY <1>1, <2>3, <2>a
    <3>2. QED
      BY <1>5, <3>1
  <2>9. ASSUME NEW h \in 1..(i + 1) - 1, w[h].id \in Compared, w[h].out = w[i + 1].out
        PROVE  Ended(w, h, i + 1)
    <3>1. h # a + 1
      BY <1>3, <1>5, <2>9, ComparedIds
    <3>2. ~(h <= a)
      <4> SUFFICES ASSUME h <= a PROVE FALSE
        OBVIOUS
      <4>1. h \in 1..Len(p) /\ h \in 1..a
        BY <1>1
      <4>2. w[h] = p[h]
        BY <1>5, <4>1
      <4>3. QED
        BY <2>9, <4>1, <4>2
    <3> DEFINE g == h - 1
    <3>a. g \in 1..Len(p) /\ g > a /\ g + 1 = h /\ g \in 1..i - 1
      BY <1>1, <2>7, <3>1, <3>2
    <3> HIDE DEF g
    <3>3. g \in 1..Len(p) /\ g > a /\ g + 1 = h /\ g \in 1..i - 1 /\ w[h] = p[g]
      BY <1>5, <3>a
    <3>4. Ended(p, g, i)
      BY <2>6, <2>7, <2>9, <3>3
    <3>5. PICK k \in g + 1..i : AffectsFlags(p[k])
      BY <3>4 DEF Ended
    <3>6. k \in 1..Len(p) /\ k > a /\ k + 1 \in h + 1..i + 1
      BY <1>1, <2>a, <3>a
    <3>7. w[k + 1] = p[k]
      BY <1>5, <3>6
    <3>8. QED
      BY <3>5, <3>6, <3>7 DEF Ended
  <2>10. Decides(w, i + 1, j)
    BY <2>3, <2>6, <2>7, <2>8, <2>9, DecidesIs
  <2>11. i + 1 \in a + 1..j - 1
    BY <1>1, <2>3, <2>7
  <2>12. QED
    BY <2>3, <2>4, <2>10, <2>11 DEF Pending
<1>8. QED
  BY <1>7 DEF Walks

--------------------------------------------------------------------------------
(***************************************************************************)
(* The pass, one step at a time.                                            *)
(***************************************************************************)
\* The block as it would be left if the search ended now.
Whole == IF look = 0 THEN prog ELSE SetAfter(prog, at, cmp)

\* It does what the original does, and only reads flags that were set for it.
Sound(old, new) ==
  old \in CodeX86 /\ new \in CodeX86 /\ FlagsOk(new) /\ EquivalentX86(old, new)

Right ==
  /\ Sound(original, Whole)
  /\ pass = "fuse" /\ look = 0 => Walks(prog, at)
  /\ look > 0 => Searches(prog, at, look, cmp)
  /\ pass # "fuse" => \A j \in 1..Len(prog) : prog[j].id \notin Conditionals

Kept == FlagsSurvive(original) => Right

LEMMA SplitSound ==
  ASSUME NEW o, NEW p, Sound(o, p), NEW i, NEW q, IsSplit(p, i, q)
  PROVE  Sound(o, q)
<1>1. p \in CodeX86 /\ FlagsOk(p) /\ o \in CodeX86 /\ EquivalentX86(o, p)
  BY DEF Sound
<1>2. q \in CodeX86 /\ FlagsOk(q) /\ EquivalentX86(p, q)
  BY <1>1, SplitCode, SplitFlagsOk, SplitEquivalent
<1>3. QED
  BY <1>1, <1>2, EquivalentX86Transitive DEF Sound

LEMMA FuseSound ==
  ASSUME NEW o, NEW p, Sound(o, p), NEW i, NEW j, NEW v, NEW cc, CanFuse(p, i, j, v, cc), NEW q, IsFused(p, j, cc, q)
  PROVE  Sound(o, q)
<1>1. p \in CodeX86 /\ FlagsOk(p) /\ o \in CodeX86 /\ EquivalentX86(o, p)
  BY DEF Sound
<1>2. q \in CodeX86 /\ FlagsOk(q) /\ EquivalentX86(p, q)
  BY <1>1, FusedCode, FusedFlagsOk, FusedEquivalent
<1>3. QED
  BY <1>1, <1>2, EquivalentX86Transitive DEF Sound

LEMMA RemoveSound ==
  ASSUME NEW o, NEW p, Sound(o, p), NEW i, NEW D, Unneeded(p, i, D), NEW q, IsRemoved(p, i, q)
  PROVE  Sound(o, q)
<1>1. p \in CodeX86 /\ FlagsOk(p) /\ o \in CodeX86 /\ EquivalentX86(o, p)
  BY DEF Sound
<1>2. q \in CodeX86 /\ FlagsOk(q) /\ EquivalentX86(p, q)
  BY <1>1, RemovedCode, RemovedFlagsOk, RemovedEquivalent
<1>3. QED
  BY <1>1, <1>2, EquivalentX86Transitive DEF Sound

LEMMA KeptAtFirst ==
  ASSUME Init, FlagsSurvive(original)
  PROVE  Right
<1>1. /\ original \in Seq(SourceOp) /\ WellFormed(original) /\ prog = original /\ pass = "fuse" /\ at = 1 /\ look = 0
  BY ProgramsAssumption DEF Init
<1>2. DOMAIN original = 1..Len(original) /\ Len(original) \in Nat
  BY <1>1
<1>3. \A i \in 1..Len(original) : original[i] \in SourceOp /\ original[i].id # "BITEXTRACT"
  BY <1>1, <1>2, ElementOfSeq DEF FlagsSurvive
<1>4. \A i \in 1..Len(original) : original[i] \in OpX86
  BY <1>3 DEF OpX86
<1>5. original \in Seq(OpX86)
  BY <1>1, <1>4, Widened
<1>6. ASSUME NEW i \in 1..Len(original)
      PROVE  original[i].id \notin FlagReaders \cup {"X86_JMPCC"}
  <2>1. original[i] \in SourceOp
    BY <1>3
  <2>2. original[i].id \in Ids \cup Compared
    BY <2>1, OpFields DEF SourceOp
  <2>3. QED
    BY <2>2, ComparedIds DEF FlagReaders, Ids, Pure, Jumps
<1>7. original \in CodeX86
  <2>1. \A i \in 1..Len(original) : original[i].id \in JumpsX86 => Declared(original, original[i].label)
    BY <1>1, <1>2, <1>6 DEF JumpsX86, WellFormed, JumpsHaveLabels
  <2>2. QED
    BY <1>1, <1>5, <2>1 DEF CodeX86, WellFormed
<1>8. FlagsOk(original)
  BY <1>6 DEF FlagsOk
<1>9. Sound(original, Whole)
  BY <1>1, <1>7, <1>8, EquivalentX86Reflexive DEF Sound, Whole
<1>10. Walks(original, 1)
  BY <1>2 DEF FlagsSurvive, Walks, Pending
<1>11. QED
  BY <1>1, <1>9, <1>10 DEF Right

LEMMA CompareKept ==
  ASSUME IInv, Right, Compare
  PROVE  Right'
<1> DEFINE c == [out |-> prog[at].out, cc |-> CcOf[prog[at].id]]
           q == ReplaceAt(prog, at, FlagsOp(prog[at]))
<1>1. /\ pass = "fuse" /\ look = 0 /\ at <= Len(prog) /\ prog[at].id \in Compared
      /\ cmp' = c /\ prog' = q /\ look' = at + 1 /\ original' = original /\ pass' = pass /\ at' = at
  BY ComparisonsAreCompared DEF Compare, Walking, InPass
<1>2. at \in 1..Len(prog) /\ at + 1 # 0 /\ at + 1 > 0
  BY <1>1, IInvFields
<1>3. prog \in CodeX86 /\ Walks(prog, at) /\ Sound(original, prog)
  BY <1>1 DEF Right, Whole, Sound
<1>4. Searches(q, at, at + 1, c)
  BY <1>1, <1>2, <1>3, CompareSearches
<1>5. IsSplit(prog, at, SetAfter(q, at, c))
  BY <1>1, <1>2, <1>3, CompareSplits
<1>6. Sound(original, SetAfter(q, at, c))
  BY <1>3, <1>5, SplitSound
<1> HIDE DEF c, q
<1>7. Whole' = SetAfter(q, at, c)
  BY <1>1, <1>2 DEF Whole
<1>8. QED
  BY <1>1, <1>2, <1>4, <1>6, <1>7 DEF Right

LEMMA SkipOtherKept ==
  ASSUME IInv, Right, SkipOther
  PROVE  Right'
<1>1. /\ pass = "fuse" /\ look = 0 /\ at <= Len(prog) /\ prog[at].id \notin Compared
      /\ cmp' = cmp /\ prog' = prog /\ look' = look /\ original' = original /\ pass' = pass /\ at' = at + 1
  BY ComparisonsAreCompared DEF SkipOther, Walking, InPass
<1>2. at \in Nat
  BY IInvFields
<1>3. Walks(prog, at + 1)
  <2> SUFFICES ASSUME NEW j \in 1..Len(prog), Pending(prog, at, j)
               PROVE  Pending(prog, at + 1, j)
    BY <1>1 DEF Right, Walks
  <2>1. PICK i \in at..j - 1 : Decides(prog, i, j)
    BY DEF Pending
  <2>2. i # at
    BY <1>1, <2>1, DecidesIs
  <2>3. i \in at + 1..j - 1
    BY <1>2, <2>2
  <2>4. QED
    BY <2>1, <2>3 DEF Pending
<1>4. QED
  BY <1>1, <1>3 DEF Right, Whole

LEMMA FuseKept ==
  ASSUME IInv, Right, Fuse
  PROVE  Right'
<1>1. /\ pass = "fuse" /\ look > 0 /\ look <= Len(prog) /\ prog[look].id \in Conditionals
      /\ prog' = ReplaceAt(prog, look, Fused(prog[look])) /\ look' = look + 1
      /\ pass' = pass /\ at' = at /\ cmp' = cmp /\ original' = original
  BY DEF Fuse, Looking
<1>2. Searches(prog, at, look, cmp) /\ ConditionalAt(prog, look) /\ look # 0 /\ look + 1 > 0 /\ look + 1 # 0
  BY <1>1, IInvFields DEF Right, ConditionalAt
<1>3. Sound(original, SetAfter(prog, at, cmp))
  BY <1>2 DEF Right, Whole
<1>4. CASE prog[look].args[1].n = cmp.out
  <2> DEFINE q == ReplaceAt(prog, look, FusedWith(prog[look], cmp.cc))
  <2>1. prog' = q
    BY <1>1, <1>4 DEF Fused, Fused_All, FusedWith
  <2>2. CanFuse(SetAfter(prog, at, cmp), at, look + 1, cmp.out, cmp.cc)
    BY <1>2, <1>4, FuseCan
  <2>3. IsFused(SetAfter(prog, at, cmp), look + 1, cmp.cc, SetAfter(q, at, cmp))
    BY <1>2, FuseFuses
  <2>4. Searches(q, at, look + 1, cmp)
    BY <1>2, FuseSearches
  <2> HIDE DEF q
  <2>5. Sound(original, SetAfter(q, at, cmp))
    BY <1>3, <2>2, <2>3, FuseSound
  <2>6. Whole' = SetAfter(q, at, cmp)
    BY <1>1, <1>2, <2>1 DEF Whole
  <2>7. QED
    BY <1>1, <1>2, <2>1, <2>4, <2>5, <2>6 DEF Right
<1>5. CASE prog[look].args[1].n # cmp.out
  <2>1. prog' = prog
    BY <1>1, <1>5, IInvFields DEF Fused, ReplaceAt
  <2>2. ~AffectsFlags(prog[look])
    BY <1>1, Apart DEF AffectsFlags, Conditionals
  <2>3. Searches(prog, at, look + 1, cmp)
    BY <1>1, <1>2, <1>5, <2>2, LookOnSearches
  <2>4. Whole' = SetAfter(prog, at, cmp)
    BY <1>1, <1>2, <2>1 DEF Whole
  <2>5. QED
    BY <1>1, <1>2, <1>3, <2>1, <2>3, <2>4 DEF Right
<1>6. QED
  BY <1>4, <1>5

LEMMA LookOnKept ==
  ASSUME IInv, Right, LookOn
  PROVE  Right'
<1>1. /\ pass = "fuse" /\ look > 0 /\ look <= Len(prog) /\ prog[look].id \notin Conditionals /\ ~AffectsFlags(prog[look])
      /\ prog' = prog /\ look' = look + 1
      /\ pass' = pass /\ at' = at /\ cmp' = cmp /\ original' = original
  BY DEF LookOn, Looking
<1>2. Searches(prog, at, look, cmp) /\ look # 0 /\ look + 1 > 0 /\ look + 1 # 0
  BY <1>1, IInvFields DEF Right
<1>3. Searches(prog, at, look + 1, cmp)
  BY <1>1, <1>2, LookOnSearches
<1>4. Whole' = Whole
  BY <1>1, <1>2 DEF Whole
<1>5. QED
  BY <1>1, <1>2, <1>3, <1>4 DEF Right

LEMMA StopLookingKept ==
  ASSUME IInv, Right, StopLooking
  PROVE  Right'
<1>1. /\ pass = "fuse" /\ look > 0
      /\ look <= Len(prog) => prog[look].id \notin Conditionals /\ AffectsFlags(prog[look])
      /\ prog' = SetAfter(prog, at, cmp) /\ look' = 0 /\ at' = at + 1
      /\ pass' = pass /\ cmp' = cmp /\ original' = original
  BY DEF StopLooking, Looking, SetCc, SetAfter
<1>2. Searches(prog, at, look, cmp) /\ look # 0 /\ at \in 1..Len(prog)
  BY <1>1, IInvFields DEF Right, Searches
<1>3. \A k \in 1..at : prog[k].id \notin Compared
  <2>1. \A k \in 1..at : k \in 1..Len(prog) /\ k <= at
    BY <1>2, IInvFields
  <2>2. Walked = at
    BY <1>2 DEF Walked
  <2>3. QED
    BY <2>1, <2>2 DEF IInv, NoComparison, Converted
<1>4. Walks(SetAfter(prog, at, cmp), at + 1)
  BY <1>1, <1>2, <1>3, StopWalks
<1>5. Whole' = Whole
  BY <1>1, <1>2 DEF Whole
<1>6. QED
  BY <1>1, <1>4, <1>5 DEF Right

\* There is nothing left to test.
LEMMA TestVarKept ==
  ASSUME IInv, Right, TestVar
  PROVE  Right'
<1>1. pass = "rest" /\ at <= Len(prog) /\ prog[at].id \in Conditionals
  BY DEF TestVar, InPass
<1>2. at \in 1..Len(prog)
  BY <1>1, IInvFields
<1>3. QED
  BY <1>1, <1>2 DEF Right

LEMMA KeepOtherKept ==
  ASSUME IInv, Right, KeepOther
  PROVE  Right'
<1>1. /\ pass = "rest" /\ look = 0
      /\ prog' = prog /\ look' = look /\ pass' = pass /\ cmp' = cmp /\ original' = original
  BY DEF KeepOther, InPass, IInv, Loops
<1>2. QED
  BY <1>1 DEF Right, Whole

LEMMA RemoveOneKept ==
  ASSUME IInv, Right, RemoveOne
  PROVE  Right'
<1>1. /\ pass = "unused" /\ look = 0 /\ at <= Len(prog)
      /\ look' = look /\ pass' = pass /\ cmp' = cmp /\ original' = original
      /\ \/ UnusedX86(prog[at]) /\ prog' = RemoveAt(prog, at)
         \/ prog' = prog
  BY DEF RemoveOne, InPass, IInv, Loops
<1>2. CASE prog' = prog
  BY <1>1, <1>2 DEF Right, Whole
<1>3. CASE UnusedX86(prog[at]) /\ prog' = RemoveAt(prog, at)
  <2> DEFINE q == RemoveAt(prog, at)
             v == prog[at].out
             D == IF VarUsed(prog, v) THEN {} ELSE {v}
  <2>1. at \in 1..Len(prog) /\ Len(prog) \in Nat
    BY <1>1, IInvFields
  <2>2. Sound(original, prog) /\ prog \in CodeX86
    BY <1>1 DEF Right, Whole, Sound
  <2>3. IsRemoved(prog, at, q)
    <3>1. prog \in Seq(OpX86)
      BY <2>2, CodeX86Type
    <3>2. /\ q \in Seq(OpX86) /\ Len(q) = Len(prog) - 1
          /\ \A j \in 1..Len(q) : q[j] = IF j < at THEN prog[j] ELSE prog[j + 1]
      BY <2>1, <3>1, Removed
    <3>3. QED
      BY <3>2 DEF IsRemoved, Past
  <2>4. Unneeded(prog, at, D)
    <3>1. /\ prog[at].id \in {"X86_SETCC", "X86_CMOV", "ADD", "SUB", "NOT", "IMM"}
          /\ ~VarUsed(prog, v) \/ (prog[at].id = "IMM" /\ prog[at].args[1] = Var(v))
      BY <1>3 DEF UnusedX86
    <3>2. v \in Vars
      <4>1. prog[at] \in OpX86
        BY <2>1, <2>2, CodeX86Type
      <4>2. QED
        BY <3>1, <4>1, OpX86Fields DEF Pure
    <3>3. ASSUME NEW x \in D, NEW k \in 1..Len(prog)
          PROVE  ~Reads(prog[k], x)
      BY <2>2, CodeX86Type DEF VarUsed
    <3> DEFINE used == VarUsed(prog, v)
    <3>4. D = IF used THEN {} ELSE {v}
      OBVIOUS
    <3> HIDE DEF used
    <3>5. D \in SUBSET Vars
      BY <3>2, <3>4
    <3>6. v \in D \/ (prog[at].id = "IMM" /\ prog[at].args[1] = Var(v))
      BY <3>1, <3>4 DEF used
    <3> HIDE DEF D
    <3>7. QED
      BY <2>1, <3>1, <3>3, <3>5, <3>6 DEF Unneeded
  <2> HIDE DEF q, D
  <2>5. Sound(original, q)
    BY <2>2, <2>3, <2>4, RemoveSound
  <2>6. prog' = q /\ Whole' = q
    BY <1>1, <1>3 DEF Whole, q
  <2>7. ASSUME NEW j \in 1..Len(q)
        PROVE  q[j].id \notin Conditionals
    <3>1. Past(at, j) \in 1..Len(prog)
      <4>1. MovedUp(prog, at, q)
        BY <2>1, <2>2, <2>3, Places
      <4>2. QED
        BY <4>1 DEF MovedUp
    <3>2. q[j] = prog[Past(at, j)]
      BY <2>3 DEF IsRemoved
    <3>3. QED
      BY <1>1, <3>1, <3>2 DEF Right
  <2>8. QED
    BY <1>1, <2>5, <2>6, <2>7 DEF Right
<1>4. QED
  BY <1>1, <1>2, <1>3

LEMMA NextPassKept ==
  ASSUME IInv, Right, NextPass
  PROVE  Right'
<1>1. /\ pass \in {"fuse", "rest", "unused"} /\ at > Len(prog)
      /\ pass' = [fuse |-> "rest", rest |-> "unused", unused |-> "done"][pass]
      /\ prog' = prog /\ look' = look /\ cmp' = cmp /\ original' = original
  BY DEF NextPass, IInv, Typed
<1>2. pass' # "fuse"
  BY <1>1
<1>3. Len(prog) \in Nat /\ at \in 1..Len(prog) + 1 /\ look \in Nat
  BY IInvFields
<1>4. look = 0
  BY <1>1, <1>3 DEF IInv, Loops
<1>5. \A j \in 1..Len(prog) : prog[j].id \notin Conditionals
  <2>1. CASE pass = "fuse"
    <3>1. \A j \in 1..Len(prog) : ~Pending(prog, at, j)
      BY <1>1, <1>3 DEF Pending
    <3>2. QED
      BY <1>4, <2>1, <3>1 DEF Right, Walks
  <2>2. CASE pass # "fuse"
    BY <2>2 DEF Right
  <2>3. QED
    BY <2>1, <2>2
<1>6. Whole' = Whole
  BY <1>1, <1>4 DEF Whole
<1>7. QED
  BY <1>1, <1>2, <1>4, <1>5, <1>6 DEF Right

LEMMA KeptOn ==
  ASSUME IInv, Kept, [Next]_vars
  PROVE  Kept'
<1>1. original' = original
  BY DEF Next, Compare, SkipOther, Fuse, LookOn, StopLooking, TestVar, KeepOther, RemoveOne, NextPass, vars
<1> SUFFICES ASSUME FlagsSurvive(original), Right
             PROVE  Right'
  BY <1>1 DEF Kept
<1>2. CASE UNCHANGED vars
  BY <1>2 DEF vars, Right, Whole
<1>3. QED
  BY <1>2, CompareKept, SkipOtherKept, FuseKept, LookOnKept, StopLookingKept, TestVarKept,
     KeepOtherKept, RemoveOneKept, NextPassKept DEF Next

\* Where the flags of every comparison are still there when its result is used
\* as a condition, the block does, between any two steps of the walks
\* (llir_conditionals.c:4-86) and after them, what the original does.
THEOREM FusingCorrect ==
  ASSUME More = Nat
  PROVE  Spec => []ConditionsKept
<1>1. Init => Kept
  BY KeptAtFirst DEF Kept
<1>2. IInv /\ Kept /\ [Next]_vars => Kept'
  BY KeptOn
<1>3. Kept => ConditionsKept
  <2> SUFFICES ASSUME Kept, look = 0, FlagsSurvive(original)
               PROVE  Same(prog)
    BY DEF ConditionsKept
  <2>1. Sound(original, prog)
    BY DEF Kept, Right, Whole
  <2>2. QED
    BY <2>1, EquivalentIsSame DEF Sound
<1>4. Spec => []IInv
  BY Always
<1>5. QED
  BY <1>1, <1>2, <1>3, <1>4, PTL DEF Spec

================================================================================
