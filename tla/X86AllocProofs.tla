---------------------------- MODULE X86AllocProofs ----------------------------
(***************************************************************************)
(* For every block, every number of variables and every pair of argument    *)
(* register lists: no two variables share a register or a byte of the       *)
(* stack, no variable lives in a scratch register or in an argument         *)
(* register of a call, and the frame holds every slot.                      *)
(***************************************************************************)
EXTENDS X86Alloc, SequenceTheorems, FiniteSetTheorems, TLAPS

(***************************************************************************)
(* Where a register came from tells which variables can have it.            *)
(***************************************************************************)
FromRax(v) ==
  /\ loc[v].reg = "RAX"
  /\ UseRax
  /\ v = block.lastRet
  /\ pc \notin {"calls", "hot", "ret"}

FromHot(v) ==
  \E j \in FirstHot..LastHot :
    /\ loc[v].reg = HotReg(j)
    /\ pc # "calls"
    /\ pc = "hot" => j < k

FromInt(v) ==
  \E j \in 1..NInt : calledInt < j /\ j <= idI /\ loc[v].reg = IntArgRegs[j]

FromXmm(v) ==
  \E j \in 1..NXmm : j <= idF /\ loc[v].reg = XmmArgRegs[j]

Known(v) ==
  loc[v].reg \in {"none", "stack"} \/ FromRax(v) \/ FromHot(v) \/ FromInt(v) \/ FromXmm(v)

Accounted == \A v \in Vars : Known(v)

Counters ==
  /\ pc \in {"calls", "hot", "ret"} => idI = 0 /\ idF = 0
  /\ pc = "calls" => /\ k \in 1..Len(block.calls) + 1
                    /\ \A v \in Vars : loc[v].reg = "none"
  /\ pc = "hot" => k >= FirstHot
  /\ pc = "rest" => k > 0
  /\ pc = "args" => k \in 1..Len(block.ins) + 1 /\ idI + idF = k - 1
  /\ idI <= Len(block.ins)

CallsCounted ==
  \A c \in 1..Len(block.calls) :
    (pc = "calls" /\ c >= k) \/ block.calls[c].int <= calledInt

Types ==
  /\ block \in BlockType /\ WellFormed(block)
  /\ pc \in {"calls", "hot", "ret", "args", "rest", "moves", "done"}
  /\ k \in Nat
  /\ calledInt \in Nat
  /\ hot \subseteq Vars
  /\ loc \in [Vars -> Location]
  /\ idI \in Nat
  /\ idF \in Nat
  /\ stackOff \in Nat

IInv == Types /\ Counters /\ CallsCounted /\ Accounted /\ RegistersUnshared

--------------------------------------------------------------------------------
(***************************************************************************)
(* The registers: constants only.                                           *)
(***************************************************************************)
LEMMA Lengths == NInt \in Nat /\ NXmm \in Nat
BY X86AllocAssumption, LenProperties DEF NInt, NXmm

\* An argument register is none of the fixed ones.
LEMMA ArgRegFacts ==
  /\ \A i \in 1..NInt : IntArgRegs[i] \in Regs \ (Fixed \cup {"none", "stack"})
  /\ \A i \in 1..NXmm : XmmArgRegs[i] \in Regs \ (Fixed \cup {"none", "stack"})
<1>1. ASSUME NEW r \in ArgRegs PROVE r \in Regs \ (Fixed \cup {"none", "stack"})
  <2>1. r \notin Fixed \cup {"none", "stack"}
    BY <1>1, X86AllocAssumption
  <2> QED
    BY <2>1 DEF Regs
<1>2. \A i \in 1..NInt : IntArgRegs[i] \in ArgRegs
  BY DEF ArgRegs
<1>3. \A i \in 1..NXmm : XmmArgRegs[i] \in ArgRegs
  BY DEF ArgRegs
<1> QED
  BY <1>1, <1>2, <1>3

\* Argument registers are pairwise different.
LEMMA ArgRegsDiffer ==
  /\ \A i, j \in 1..NInt : IntArgRegs[i] = IntArgRegs[j] => i = j
  /\ \A i \in 1..NInt, j \in 1..NXmm : IntArgRegs[i] # XmmArgRegs[j]
BY X86AllocAssumption

LEMMA FixedRegs ==
  /\ {"RAX", "R10", "R11", "RBP", "RSP"} \subseteq Regs
  /\ "none" \notin Regs /\ "stack" \notin Regs
BY X86AllocAssumption DEF Fixed, Regs, ArgRegs

LEMMA InRegIsLocation ==
  ASSUME NEW r \in Regs PROVE InReg(r) \in Location /\ InReg(r).reg = r
BY DEF InReg, Location

\* The bounds of the registers given to hot variables.
LEMMA HotBounds ==
  ASSUME Types
  PROVE  /\ LastHot \in 0..NInt
         /\ FirstHot \in 0..1
         /\ LastHot > 0 => /\ NInt - LastHot >= Len(block.ins)
                           /\ NInt - LastHot >= calledInt
<1>1. Len(block.ins) \in Nat
  BY LenProperties DEF Types, BlockType
<1>2. calledInt \in Nat
  BY DEF Types
<1>3. AnyInt \in Nat /\ AnyInt >= Len(block.ins) /\ AnyInt >= calledInt
  BY <1>1, <1>2 DEF AnyInt, Larger
<1>4. LastHot \in 0..NInt /\ (LastHot > 0 => LastHot = NInt - AnyInt)
  BY <1>3, Lengths DEF LastHot
<1>5. FirstHot \in 0..1
  BY DEF FirstHot
<1> QED
  BY <1>1, <1>2, <1>3, <1>4, <1>5, Lengths

\* Two hot registers differ, and only register 0 is R11.
LEMMA HotRegFacts ==
  ASSUME Types, NEW i \in 0..LastHot
  PROVE  /\ HotReg(i) \in Regs \ {"RAX", "R10", "RBP", "RSP", "none", "stack"}
         /\ HotReg(i) = "R11" <=> i = 0
         /\ \A j \in 0..LastHot : HotReg(i) = HotReg(j) => i = j
         /\ i > 0 => HotReg(i) = IntArgRegs[NInt + 1 - i] /\ NInt + 1 - i \in 1..NInt
<1>1. \A j \in 1..LastHot : /\ NInt + 1 - j \in 1..NInt
                            /\ HotReg(j) = IntArgRegs[NInt + 1 - j]
                            /\ HotReg(j) \in Regs \ (Fixed \cup {"none", "stack"})
  BY HotBounds, Lengths, ArgRegFacts DEF HotReg
<1>2. HotReg(0) = "R11"
  BY DEF HotReg
<1>3. "R11" \in Regs \ {"RAX", "R10", "RBP", "RSP", "none", "stack"} /\ "R11" \in Fixed
  BY FixedRegs DEF Fixed
<1>4. \A a, b \in 1..LastHot : HotReg(a) = HotReg(b) => a = b
  <2> SUFFICES ASSUME NEW a \in 1..LastHot, NEW b \in 1..LastHot, HotReg(a) = HotReg(b)
               PROVE  a = b
    OBVIOUS
  <2>1. IntArgRegs[NInt + 1 - a] = IntArgRegs[NInt + 1 - b]
    BY <1>1
  <2>2. NInt + 1 - a = NInt + 1 - b
    BY <1>1, <2>1, X86AllocAssumption
  <2> QED
    BY <2>2, Lengths, HotBounds
<1>5. \A j \in 1..LastHot : HotReg(j) # "R11"
  BY <1>1, <1>3
<1>6. i = 0 \/ i \in 1..LastHot
  BY HotBounds, Lengths
<1>7. \A j \in 0..LastHot : j = 0 \/ j \in 1..LastHot
  BY HotBounds, Lengths
<1>8. HotReg(i) \in Regs \ {"RAX", "R10", "RBP", "RSP", "none", "stack"}
  BY <1>1, <1>2, <1>3, <1>6 DEF Fixed
<1>9. \A j \in 0..LastHot : HotReg(i) = HotReg(j) => i = j
  BY <1>2, <1>4, <1>5, <1>6, <1>7
<1> QED
  BY <1>1, <1>2, <1>5, <1>6, <1>8, <1>9

--------------------------------------------------------------------------------
(***************************************************************************)
(* A register about to be given out is free.                                *)
(***************************************************************************)
LEMMA ClassFacts ==
  ASSUME IInv, NEW v \in Vars
  PROVE  /\ FromRax(v) => loc[v].reg = "RAX"
         /\ FromHot(v) => loc[v].reg \in Regs \ {"RAX", "R10", "RBP", "RSP", "none", "stack"}
         /\ FromInt(v) => loc[v].reg \in Regs \ (Fixed \cup {"none", "stack"})
         /\ FromXmm(v) => loc[v].reg \in Regs \ (Fixed \cup {"none", "stack"})
<1>1. FromHot(v) => loc[v].reg \in Regs \ {"RAX", "R10", "RBP", "RSP", "none", "stack"}
  <2> SUFFICES ASSUME FromHot(v)
               PROVE  loc[v].reg \in Regs \ {"RAX", "R10", "RBP", "RSP", "none", "stack"}
    OBVIOUS
  <2>1. PICK j \in FirstHot..LastHot : loc[v].reg = HotReg(j)
    BY DEF FromHot
  <2>2. j \in 0..LastHot
    BY HotBounds DEF IInv
  <2> QED
    BY <2>1, <2>2, HotRegFacts DEF IInv
<1> QED
  BY <1>1, ArgRegFacts DEF FromRax, FromInt, FromXmm

\* The next hot register.
LEMMA HotFree ==
  ASSUME IInv, pc = "hot", k <= LastHot, NEW v \in Vars
  PROVE  HotReg(k) \in Regs /\ loc[v].reg # HotReg(k)
<1>1. k \in 0..LastHot
  BY HotBounds DEF IInv, Types, Counters
<1>2. HotReg(k) \in Regs \ {"RAX", "R10", "RBP", "RSP", "none", "stack"}
  BY <1>1, HotRegFacts DEF IInv
<1>3. ~FromInt(v) /\ ~FromXmm(v)
  BY Lengths DEF FromInt, FromXmm, IInv, Counters, Types
<1>4. ~FromRax(v)
  BY DEF FromRax
<1>5. ASSUME FromHot(v) PROVE loc[v].reg # HotReg(k)
  <2>1. PICK j \in FirstHot..LastHot : loc[v].reg = HotReg(j) /\ j < k
    BY <1>5 DEF FromHot
  <2>2. j \in 0..LastHot /\ j # k
    BY <2>1, HotBounds DEF IInv
  <2> QED
    BY <1>1, <2>1, <2>2, HotRegFacts DEF IInv
<1> QED
  BY <1>2, <1>3, <1>4, <1>5 DEF IInv, Accounted, Known

\* RAX, until the returned variable gets it.
LEMMA RaxFree ==
  ASSUME IInv, pc = "ret", NEW v \in Vars
  PROVE  loc[v].reg # "RAX"
<1>1. ~FromRax(v)
  BY DEF FromRax
<1> QED
  BY <1>1, ClassFacts DEF IInv, Accounted, Known, Fixed

\* The register of the next integer argument, whether or not it stays there.
LEMMA IntFree ==
  ASSUME IInv, pc = "args", k <= Len(block.ins), idI < NInt, NEW v \in Vars
  PROVE  /\ IntArgRegs[idI + 1] \in Regs \ (Fixed \cup {"none", "stack"})
         /\ loc[v].reg # IntArgRegs[idI + 1]
<1> DEFINE r == IntArgRegs[idI + 1]
<1>1. idI + 1 \in 1..NInt
  BY Lengths DEF IInv, Types
<1>2. r \in Regs \ (Fixed \cup {"none", "stack"})
  BY <1>1, ArgRegFacts
<1>3. ~(FromRax(v) /\ loc[v].reg = r)
  BY <1>2 DEF FromRax, Fixed
<1>4. ~(FromInt(v) /\ loc[v].reg = r)
  BY <1>1, X86AllocAssumption DEF FromInt, IInv, Types
<1>5. ~(FromXmm(v) /\ loc[v].reg = r)
  BY <1>1, X86AllocAssumption DEF FromXmm
<1>6. ASSUME FromHot(v) PROVE loc[v].reg # r
  <2>1. PICK j \in FirstHot..LastHot : loc[v].reg = HotReg(j)
    BY <1>6 DEF FromHot
  <2>2. j \in 0..LastHot
    BY HotBounds DEF IInv
  <2>3. CASE j = 0
    BY <1>2, <2>1, <2>2, <2>3, HotRegFacts DEF Fixed, IInv
  <2>4. CASE j > 0
    <3>1. HotReg(j) = IntArgRegs[NInt + 1 - j] /\ NInt + 1 - j \in 1..NInt
      BY <2>2, <2>4, HotRegFacts DEF IInv
    <3>2. NInt - LastHot >= Len(block.ins) /\ LastHot \in Nat
      BY <2>2, <2>4, HotBounds DEF IInv
    <3>3. Len(block.ins) \in Nat
      BY LenProperties DEF IInv, Types, BlockType
    <3>4. idI < k /\ k \in Nat /\ idI \in Nat
      BY DEF IInv, Types, Counters
    <3>5. NInt + 1 - j # idI + 1
      BY <2>2, <3>2, <3>3, <3>4, Lengths
    <3> QED
      BY <1>1, <2>1, <3>1, <3>5, X86AllocAssumption
  <2> QED
    BY <2>2, <2>3, <2>4, HotBounds DEF IInv
<1> HIDE DEF r
<1>7. loc[v].reg # r
  BY <1>2, <1>3, <1>4, <1>5, <1>6 DEF IInv, Accounted, Known
<1> QED
  BY <1>2, <1>7 DEF r

\* The register of the next float argument.
LEMMA XmmFree ==
  ASSUME IInv, pc = "args", idF < NXmm, NEW v \in Vars
  PROVE  /\ XmmArgRegs[idF + 1] \in Regs \ (Fixed \cup {"none", "stack"})
         /\ loc[v].reg # XmmArgRegs[idF + 1]
<1> DEFINE r == XmmArgRegs[idF + 1]
<1>1. idF + 1 \in 1..NXmm
  BY Lengths DEF IInv, Types
<1>2. r \in Regs \ (Fixed \cup {"none", "stack"})
  BY <1>1, ArgRegFacts
<1>3. ~(FromRax(v) /\ loc[v].reg = r)
  BY <1>2 DEF FromRax, Fixed
<1>4. ~(FromInt(v) /\ loc[v].reg = r)
  BY <1>1, X86AllocAssumption DEF FromInt
<1>5. ~(FromXmm(v) /\ loc[v].reg = r)
  BY <1>1, X86AllocAssumption DEF FromXmm, IInv, Types
<1>6. ASSUME FromHot(v) PROVE loc[v].reg # r
  <2>1. PICK j \in FirstHot..LastHot : loc[v].reg = HotReg(j)
    BY <1>6 DEF FromHot
  <2>2. j \in 0..LastHot
    BY HotBounds DEF IInv
  <2>3. CASE j = 0
    BY <1>2, <2>1, <2>2, <2>3, HotRegFacts DEF Fixed, IInv
  <2>4. CASE j > 0
    <3>1. HotReg(j) = IntArgRegs[NInt + 1 - j] /\ NInt + 1 - j \in 1..NInt
      BY <2>2, <2>4, HotRegFacts DEF IInv
    <3> QED
      BY <1>1, <2>1, <3>1, X86AllocAssumption
  <2> QED
    BY <2>2, <2>3, <2>4, HotBounds DEF IInv
<1> HIDE DEF r
<1>7. loc[v].reg # r
  BY <1>2, <1>3, <1>4, <1>5, <1>6 DEF IInv, Accounted, Known
<1> QED
  BY <1>2, <1>7 DEF r

--------------------------------------------------------------------------------
(***************************************************************************)
(* What the steps have in common.                                           *)
(***************************************************************************)
\* A variable whose register a step leaves alone stays accounted for.
LEMMA KnownCarries ==
  ASSUME IInv, NEW v \in Vars,
         loc'[v].reg = loc[v].reg,
         pc # "calls", pc' # "calls",
         pc \notin {"calls", "hot", "ret"} => pc' \notin {"calls", "hot", "ret"},
         pc' = "hot" => pc = "hot" /\ k' \in Nat /\ k' >= k,
         block' = block, calledInt' = calledInt,
         idI' \in Nat, idF' \in Nat, idI' >= idI, idF' >= idF
  PROVE  Known(v)'
<1>1. /\ UseRax' = UseRax
      /\ FirstHot' = FirstHot
      /\ LastHot' = LastHot
  BY DEF UseRax, Leaf, FirstHot, LastHot, AnyInt
<1>2. FromRax(v) => FromRax(v)'
  BY <1>1 DEF FromRax
<1>3. ASSUME FromHot(v) PROVE FromHot(v)'
  <2>1. PICK j \in FirstHot..LastHot : loc[v].reg = HotReg(j) /\ (pc = "hot" => j < k)
    BY <1>3 DEF FromHot
  <2>2. j \in Nat
    BY HotBounds DEF IInv
  <2>3. pc' = "hot" => j < k'
    BY <2>1, <2>2 DEF IInv, Types
  <2>4. j \in (FirstHot..LastHot)'
    BY <1>1
  <2> QED
    BY <2>1, <2>3, <2>4 DEF FromHot
<1>4. FromInt(v) => FromInt(v)'
  BY Lengths DEF FromInt, IInv, Types
<1>5. FromXmm(v) => FromXmm(v)'
  BY Lengths DEF FromXmm, IInv, Types
<1> QED
  BY <1>2, <1>3, <1>4, <1>5 DEF IInv, Accounted, Known

\* Giving a free register to a variable.
LEMMA NewRegister ==
  ASSUME IInv, NEW v \in Vars, NEW r \in Regs,
         \A w \in Vars : loc[w].reg # r,
         loc' = [loc EXCEPT ![v] = InReg(r)]
  PROVE  /\ loc' \in [Vars -> Location]
         /\ loc'[v].reg = r
         /\ \A w \in Vars : w # v => loc'[w] = loc[w]
         /\ RegistersUnshared'
<1>1. /\ loc' \in [Vars -> Location]
      /\ loc'[v].reg = r
      /\ \A w \in Vars : w # v => loc'[w] = loc[w]
  BY InRegIsLocation DEF IInv, Types
<1>2. ASSUME NEW a \in Vars, NEW b \in Vars, a # b, loc'[a].reg \in Regs
      PROVE  loc'[a].reg # loc'[b].reg
  <2>1. CASE a = v
    BY <1>1, <1>2, <2>1
  <2>2. CASE b = v
    BY <1>1, <1>2, <2>2
  <2>3. CASE a # v /\ b # v
    BY <1>1, <1>2, <2>3 DEF IInv, RegistersUnshared, Allocated
  <2> QED
    BY <2>1, <2>2, <2>3
<1> QED
  BY <1>1, <1>2 DEF RegistersUnshared, Allocated

\* Giving a stack slot to a variable.
LEMMA NewSlot ==
  ASSUME IInv, NEW v \in Vars, NEW off \in Nat, NEW size \in Nat,
         loc' = [loc EXCEPT ![v] = Slot(off, size)]
  PROVE  /\ loc' \in [Vars -> Location]
         /\ loc'[v].reg = "stack"
         /\ \A w \in Vars : w # v => loc'[w] = loc[w]
         /\ RegistersUnshared'
<1>1. Slot(off, size) \in Location /\ Slot(off, size).reg = "stack"
  BY DEF Slot, Location
<1>2. /\ loc' \in [Vars -> Location]
      /\ loc'[v].reg = "stack"
      /\ \A w \in Vars : w # v => loc'[w] = loc[w]
  BY <1>1 DEF IInv, Types
<1>3. ASSUME NEW a \in Vars, NEW b \in Vars, a # b, loc'[a].reg \in Regs
      PROVE  loc'[a].reg # loc'[b].reg
  <2>1. a # v
    BY <1>2, <1>3, FixedRegs
  <2>2. CASE b = v
    BY <1>2, <1>3, <2>2, FixedRegs
  <2>3. CASE b # v
    BY <1>2, <1>3, <2>1, <2>3 DEF IInv, RegistersUnshared, Allocated
  <2> QED
    BY <2>2, <2>3
<1> QED
  BY <1>2, <1>3 DEF RegistersUnshared, Allocated

LEMMA InfoTypes ==
  ASSUME IInv, NEW v \in Vars
  PROVE  /\ Info(v).size \in Nat
         /\ Width(Info(v).size) \in Nat
         /\ Info(v).float \in BOOLEAN
<1>1. block.var[v] \in VarInfo
  BY DEF IInv, Types, BlockType
<1>2. Info(v).size \in Nat /\ Info(v).float \in BOOLEAN
  BY <1>1 DEF VarInfo, Info
<1> QED
  BY <1>2 DEF Width

LEMMA ArgIsVar ==
  ASSUME IInv, NEW i \in 1..Len(block.ins) PROVE block.ins[i] \in Vars
BY ElementOfSeq DEF IInv, Types, BlockType

--------------------------------------------------------------------------------
(***************************************************************************)
(* The invariant holds initially and every step keeps it.                   *)
(***************************************************************************)
LEMMA InitInv == Init => IInv
<1> SUFFICES ASSUME Init PROVE IInv
  OBVIOUS
<1>1. block \in BlockType /\ WellFormed(block)
  BY X86AllocAssumption DEF Init
<1>2. Len(block.ins) \in Nat /\ Len(block.calls) \in Nat
  BY <1>1, LenProperties DEF BlockType
<1>3. NoLocation \in Location /\ NoLocation.reg = "none"
  BY DEF NoLocation, Location
<1>4. Types
  BY <1>1, <1>3 DEF Init, Types
<1>5. Counters
  BY <1>2, <1>3 DEF Init, Counters
<1>6. CallsCounted
  BY DEF Init, CallsCounted
<1>7. \A v \in Vars : loc[v].reg = "none"
  BY <1>3 DEF Init
<1>8. Accounted /\ RegistersUnshared
  BY <1>7, FixedRegs DEF Accounted, Known, RegistersUnshared, Allocated
<1> QED
  BY <1>4, <1>5, <1>6, <1>8 DEF IInv

LEMMA ScanCallStep == IInv /\ ScanCall => IInv'
<1> SUFFICES ASSUME IInv, ScanCall PROVE IInv'
  OBVIOUS
<1> USE DEF ScanCall
<1>1. k \in 1..Len(block.calls) /\ Len(block.calls) \in Nat
  BY LenProperties DEF IInv, Types, Counters, BlockType
<1>2. block.calls[k] \in Call
  BY <1>1, ElementOfSeq DEF IInv, Types, BlockType
<1>3. /\ calledInt' \in Nat
      /\ calledInt' >= calledInt
      /\ calledInt' >= block.calls[k].int
  BY <1>2 DEF IInv, Types, CalledInt, Larger, Call
<1>4. Types'
  BY <1>3 DEF IInv, Types
<1>5. Counters'
  BY <1>1 DEF IInv, Counters
<1>6. CallsCounted'
  <2> SUFFICES ASSUME NEW c \in 1..Len(block.calls), c < k + 1
               PROVE  block.calls[c].int <= calledInt'
    BY <1>1 DEF CallsCounted
  <2>1. block.calls[c] \in Call
    BY ElementOfSeq DEF IInv, Types, BlockType
  <2>2. CASE c = k
    BY <1>3, <2>2
  <2>3. CASE c < k
    BY <1>1, <1>3, <2>1, <2>3 DEF IInv, CallsCounted, Types, Call
  <2> QED
    BY <1>1, <2>2, <2>3
<1>7. Accounted' /\ RegistersUnshared'
  BY DEF IInv, Counters, Accounted, Known, RegistersUnshared, Allocated
<1> QED
  BY <1>4, <1>5, <1>6, <1>7 DEF IInv

LEMMA ScanCallsEndStep == IInv /\ ScanCallsEnd => IInv'
<1> SUFFICES ASSUME IInv, ScanCallsEnd PROVE IInv'
  OBVIOUS
<1> USE DEF ScanCallsEnd
<1>1. FirstHot \in 0..1 /\ FirstHot' = FirstHot
  BY HotBounds DEF IInv, FirstHot, UseRax, Leaf
<1>2. Types'
  BY <1>1 DEF IInv, Types
<1>3. Counters'
  BY <1>1 DEF IInv, Counters
<1>4. k > Len(block.calls) /\ k \in Nat /\ Len(block.calls) \in Nat
  BY LenProperties DEF IInv, Types, BlockType
<1>5. CallsCounted'
  BY <1>4 DEF IInv, CallsCounted
<1>6. Accounted' /\ RegistersUnshared'
  BY DEF IInv, Counters, Accounted, Known, RegistersUnshared, Allocated
<1> QED
  BY <1>2, <1>3, <1>5, <1>6 DEF IInv

LEMMA NextHotStep == IInv /\ NextHot => IInv'
<1> SUFFICES ASSUME IInv, NextHot PROVE IInv'
  OBVIOUS
<1>1. PICK v \in hot :
        /\ hot' = hot \ {v}
        /\ \/ FitsRegister(v) /\ loc' = [loc EXCEPT ![v] = InReg(HotReg(k))] /\ k' = k + 1
           \/ ~FitsRegister(v) /\ UNCHANGED <<loc, k>>
  BY DEF NextHot
<1>2. /\ pc = "hot" /\ pc' = "hot" /\ k <= LastHot /\ k \in Nat /\ k >= FirstHot
      /\ UNCHANGED <<block, calledInt, idI, idF, stackOff>>
  BY DEF NextHot, IInv, Types, Counters
<1>3. k' \in Nat /\ k' >= k
  BY <1>1, <1>2
<1>4. v \in Vars /\ hot' \subseteq Vars
  BY <1>1 DEF IInv, Types
<1>5. FirstHot' = FirstHot /\ FirstHot \in 0..1 /\ LastHot' = LastHot
  BY <1>2, HotBounds DEF IInv, FirstHot, LastHot, AnyInt, UseRax, Leaf
<1>6. Counters'
  BY <1>2, <1>3, <1>5 DEF IInv, Counters
<1>7. CallsCounted'
  BY <1>2 DEF IInv, CallsCounted
<1>8. CASE UNCHANGED <<loc, k>>
  <2>1. \A w \in Vars : Known(w)'
    BY <1>2, <1>8, KnownCarries DEF IInv, Types
  <2>2. Types' /\ RegistersUnshared'
    BY <1>2, <1>4, <1>8 DEF IInv, Types, RegistersUnshared, Allocated
  <2> QED
    BY <1>6, <1>7, <2>1, <2>2 DEF IInv, Accounted
<1>9. CASE loc' = [loc EXCEPT ![v] = InReg(HotReg(k))] /\ k' = k + 1
  <2> DEFINE r == HotReg(k)
  <2>1. r \in Regs /\ \A w \in Vars : loc[w].reg # r
    BY <1>2, <1>4, HotFree
  <2> HIDE DEF r
  <2>2. loc' = [loc EXCEPT ![v] = InReg(r)]
    BY <1>9 DEF r
  <2>3. /\ loc' \in [Vars -> Location]
        /\ loc'[v].reg = r
        /\ \A w \in Vars : w # v => loc'[w] = loc[w]
        /\ RegistersUnshared'
    BY <1>4, <2>1, <2>2, NewRegister
  <2>4. Known(v)'
    <3>1. k \in (FirstHot..LastHot)'
      BY <1>2, <1>5, HotBounds DEF IInv
    <3>2. loc'[v].reg = HotReg(k) /\ k < k'
      BY <1>2, <1>9, <2>3 DEF r
    <3> QED
      BY <1>2, <3>1, <3>2 DEF Known, FromHot
  <2>5. ASSUME NEW w \in Vars, w # v PROVE Known(w)'
    BY <1>2, <1>3, <2>3, <2>5, KnownCarries DEF IInv, Types
  <2>6. Types'
    BY <1>2, <1>3, <1>4, <2>3 DEF IInv, Types
  <2> QED
    BY <1>6, <1>7, <2>3, <2>4, <2>5, <2>6 DEF IInv, Accounted
<1> QED
  BY <1>1, <1>8, <1>9

LEMMA HotEndStep == IInv /\ HotEnd => IInv'
<1> SUFFICES ASSUME IInv, HotEnd PROVE IInv'
  OBVIOUS
<1> USE DEF HotEnd
<1>1. Types' /\ Counters' /\ CallsCounted' /\ RegistersUnshared'
  BY DEF IInv, Types, Counters, CallsCounted, RegistersUnshared, Allocated
<1>2. Accounted'
  BY KnownCarries DEF IInv, Types, Accounted
<1> QED
  BY <1>1, <1>2 DEF IInv

LEMMA ReturnInRaxStep == IInv /\ ReturnInRax => IInv'
<1> SUFFICES ASSUME IInv, ReturnInRax PROVE IInv'
  OBVIOUS
<1> USE DEF ReturnInRax
<1>1. Len(block.ins) \in Nat
  BY LenProperties DEF IInv, Types, BlockType
<1>2. Counters' /\ CallsCounted'
  BY <1>1 DEF IInv, Counters, CallsCounted
<1>3. CASE UseRax
  <2> DEFINE v == block.lastRet
  <2>1. v \in Vars /\ UseRax'
    BY <1>3 DEF UseRax, Leaf, IInv, Types, BlockType
  <2>2. "RAX" \in Regs /\ \A w \in Vars : loc[w].reg # "RAX"
    BY RaxFree, FixedRegs
  <2>3. /\ loc' \in [Vars -> Location]
        /\ loc'[v].reg = "RAX"
        /\ \A w \in Vars : w # v => loc'[w] = loc[w]
        /\ RegistersUnshared'
    BY <1>3, <2>1, <2>2, NewRegister
  <2>4. Known(v)'
    BY <2>1, <2>3 DEF Known, FromRax
  <2>5. ASSUME NEW w \in Vars, w # v PROVE Known(w)'
    BY <2>3, <2>5, KnownCarries DEF IInv, Types
  <2>6. Types'
    BY <2>3 DEF IInv, Types
  <2> QED
    BY <1>2, <2>3, <2>4, <2>5, <2>6 DEF IInv, Accounted
<1>4. CASE ~UseRax
  <2>1. \A w \in Vars : Known(w)'
    BY <1>4, KnownCarries DEF IInv, Types
  <2>2. Types' /\ RegistersUnshared'
    BY <1>4 DEF IInv, Types, RegistersUnshared, Allocated
  <2> QED
    BY <1>2, <2>1, <2>2 DEF IInv, Accounted
<1> QED
  BY <1>3, <1>4

\* What assigning an argument changes besides its location.
LEMMA AssignArgFrame ==
  ASSUME IInv, AssignArg
  PROVE  /\ block.ins[k] \in Vars
         /\ pc = "args" /\ pc' = "args" /\ k \in Nat /\ k' = k + 1 /\ k <= Len(block.ins)
         /\ block' = block /\ calledInt' = calledInt /\ hot' = hot
         /\ idI' \in Nat /\ idF' \in Nat /\ idI' >= idI /\ idF' >= idF
         /\ Info(block.ins[k]).float => idI' = idI /\ idF' = idF + 1
         /\ ~Info(block.ins[k]).float => idI' = idI + 1 /\ idF' = idF
         /\ Counters' /\ CallsCounted'
<1> USE DEF AssignArg
<1>1. Len(block.ins) \in Nat
  BY LenProperties DEF IInv, Types, BlockType
<1>2. k \in 1..Len(block.ins) /\ idI + idF = k - 1 /\ idI \in Nat /\ idF \in Nat
  BY <1>1 DEF IInv, Counters, Types
<1>3. block.ins[k] \in Vars
  BY <1>2, ArgIsVar
<1>4. Info(block.ins[k]).float \in BOOLEAN
  BY <1>3, InfoTypes
<1>5. /\ Info(block.ins[k]).float => idI' = idI /\ idF' = idF + 1
      /\ ~Info(block.ins[k]).float => idI' = idI + 1 /\ idF' = idF
  OBVIOUS
<1>6. idI' \in Nat /\ idF' \in Nat /\ idI' >= idI /\ idF' >= idF /\ idI' + idF' = k
  BY <1>2, <1>4, <1>5
<1>7. Counters'
  BY <1>1, <1>2, <1>6 DEF Counters
<1>8. CallsCounted'
  BY DEF IInv, CallsCounted
<1> QED
  BY <1>2, <1>3, <1>5, <1>6, <1>7, <1>8

LEMMA AssignArgStep == IInv /\ AssignArg => IInv'
<1> SUFFICES ASSUME IInv, AssignArg PROVE IInv'
  OBVIOUS
<1> PICK v \in Vars : v = block.ins[k]
  BY AssignArgFrame
<1> DEFINE float == Info(v).float
           rank == IF float THEN idF ELSE idI
<1>1. /\ v \in Vars
      /\ pc = "args" /\ pc' = "args" /\ k \in Nat /\ k' = k + 1 /\ k <= Len(block.ins)
      /\ block' = block /\ calledInt' = calledInt /\ hot' = hot
      /\ idI' \in Nat /\ idF' \in Nat /\ idI' >= idI /\ idF' >= idF
      /\ float => idF' = idF + 1
      /\ ~float => idI' = idI + 1
      /\ Counters' /\ CallsCounted'
  BY AssignArgFrame
<1>2. Info(v).size \in Nat /\ Width(Info(v).size) \in Nat /\ float \in BOOLEAN
  BY <1>1, InfoTypes
<1>3. stackOff \in Nat /\ idI \in Nat /\ idF \in Nat /\ hot \subseteq Vars
  BY DEF IInv, Types
<1>4. ASSUME loc' \in [Vars -> Location], stackOff' \in Nat PROVE Types'
  BY <1>1, <1>3, <1>4 DEF IInv, Types
<1>5. ASSUME NEW w \in Vars, loc'[w] = loc[w] PROVE Known(w)'
  BY <1>1, <1>5, KnownCarries
<1>6. ASSUME UNCHANGED loc, stackOff' \in Nat PROVE IInv'
  <2>1. \A w \in Vars : Known(w)'
    BY <1>5, <1>6
  <2>2. Types' /\ RegistersUnshared'
    BY <1>4, <1>6 DEF IInv, Types, RegistersUnshared, Allocated
  <2> QED
    BY <1>1, <2>1, <2>2 DEF IInv, Accounted
<1>7. ASSUME NEW size \in Nat, loc' = [loc EXCEPT ![v] = Slot(stackOff, size)],
             stackOff' \in Nat
      PROVE  IInv'
  <2>1. /\ loc' \in [Vars -> Location]
        /\ loc'[v].reg = "stack"
        /\ \A w \in Vars : w # v => loc'[w] = loc[w]
        /\ RegistersUnshared'
    BY <1>1, <1>3, <1>7, NewSlot
  <2>2. Known(v)'
    BY <2>1 DEF Known
  <2>3. \A w \in Vars : Known(w)'
    BY <1>5, <2>1, <2>2
  <2> QED
    BY <1>1, <1>4, <1>7, <2>1, <2>3 DEF IInv, Accounted
<1>8. ASSUME InRegister(float, rank), ArgStays(float, rank),
             loc' = [loc EXCEPT ![v] = InReg(ArgReg(float, rank))], stackOff' = stackOff
      PROVE  IInv'
  <2> DEFINE r == ArgReg(float, rank)
  <2>1. r \in Regs /\ \A w \in Vars : loc[w].reg # r
    BY <1>1, <1>2, <1>8, IntFree, XmmFree DEF ArgReg, InRegister
  <2>2. loc'[v].reg = r => Known(v)'
    <3>1. CASE float
      <4>1. r = XmmArgRegs[idF + 1] /\ idF < NXmm
        BY <1>8, <3>1 DEF ArgReg, InRegister
      <4>2. idF + 1 \in 1..NXmm /\ idF + 1 <= idF'
        BY <1>1, <1>3, <3>1, <4>1, Lengths
      <4> QED
        BY <4>1, <4>2 DEF Known, FromXmm
    <3>2. CASE ~float
      <4>1. r = IntArgRegs[idI + 1] /\ idI < NInt /\ idI >= calledInt
        BY <1>8, <3>2 DEF ArgReg, InRegister, ArgStays
      <4>2. idI + 1 \in 1..NInt /\ idI + 1 <= idI' /\ calledInt' < idI + 1
        BY <1>1, <1>3, <3>2, <4>1, Lengths DEF IInv, Types
      <4> QED
        BY <4>1, <4>2 DEF Known, FromInt
    <3> QED
      BY <1>2, <3>1, <3>2
  <2> HIDE DEF r
  <2>3. loc' = [loc EXCEPT ![v] = InReg(r)]
    BY <1>8 DEF r
  <2>4. /\ loc' \in [Vars -> Location]
        /\ loc'[v].reg = r
        /\ \A w \in Vars : w # v => loc'[w] = loc[w]
        /\ RegistersUnshared'
    BY <1>1, <2>1, <2>3, NewRegister
  <2>5. \A w \in Vars : Known(w)'
    BY <1>5, <2>2, <2>4
  <2> QED
    BY <1>1, <1>3, <1>4, <1>8, <2>4, <2>5 DEF IInv, Accounted
<1>9. \/ PlacedArg(v, float, rank)
      \/ RegisterArg(v, float, rank)
      \/ StackArg(v, float, rank)
  BY DEF AssignArg
<1>10. CASE PlacedArg(v, float, rank)
  <2>1. PICK size \in Nat : size = Width(Info(v).size)
    BY <1>2
  <2>2. loc' = [loc EXCEPT ![v] = Slot(stackOff, size)] /\ stackOff' \in Nat
    BY <1>3, <1>10, <2>1 DEF PlacedArg, SlotEnd
  <2> QED
    BY <1>7, <2>2
<1>11. CASE RegisterArg(v, float, rank)
  BY <1>3, <1>6, <1>8, <1>11 DEF RegisterArg, KeepOrMove
<1>12. CASE StackArg(v, float, rank)
  BY <1>2, <1>3, <1>6, <1>7, <1>12 DEF StackArg, KeepOrMove, SlotEnd
<1> QED
  BY <1>9, <1>10, <1>11, <1>12

LEMMA ArgsEndStep == IInv /\ ArgsEnd => IInv'
<1> SUFFICES ASSUME IInv, ArgsEnd PROVE IInv'
  OBVIOUS
<1> USE DEF ArgsEnd
<1>1. Types' /\ Counters' /\ CallsCounted' /\ RegistersUnshared'
  BY DEF IInv, Types, Counters, CallsCounted, RegistersUnshared, Allocated
<1>2. Accounted'
  BY KnownCarries DEF IInv, Types, Accounted
<1> QED
  BY <1>1, <1>2 DEF IInv

LEMMA AssignSlotStep == IInv /\ AssignSlot => IInv'
<1> SUFFICES ASSUME IInv, AssignSlot PROVE IInv'
  OBVIOUS
<1>1. /\ pc = "rest" /\ pc' = "rest" /\ k' = k + 1
      /\ UNCHANGED <<block, calledInt, hot, idI, idF>>
  BY DEF AssignSlot
<1>2. Counters' /\ CallsCounted'
  BY <1>1 DEF IInv, Types, Counters, CallsCounted
<1>3. ASSUME NEW w \in Vars, loc'[w] = loc[w] PROVE Known(w)'
  BY <1>1, <1>3, KnownCarries DEF IInv, Types
<1>4. CASE UNCHANGED <<loc, stackOff>>
  <2>1. \A w \in Vars : Known(w)'
    BY <1>3, <1>4
  <2>2. Types' /\ RegistersUnshared'
    BY <1>1, <1>4 DEF IInv, Types, RegistersUnshared, Allocated
  <2> QED
    BY <1>2, <2>1, <2>2 DEF IInv, Accounted
<1>5. CASE /\ NeedsSlot(k)
           /\ loc' = [loc EXCEPT ![k] = Slot(stackOff, Info(k).size)]
           /\ stackOff' = SlotEnd(stackOff, Info(k).size)
  <2>1. k \in Vars
    <3>1. k # 0
      BY DEF AssignSlot, IInv, Counters
    <3> QED
      BY <3>1, X86AllocAssumption DEF AssignSlot, IInv, Types, Vars
  <2>2. Info(k).size \in Nat /\ stackOff \in Nat
    BY <2>1, InfoTypes DEF IInv, Types
  <2>3. /\ loc' \in [Vars -> Location]
        /\ loc'[k].reg = "stack"
        /\ \A w \in Vars : w # k => loc'[w] = loc[w]
        /\ RegistersUnshared'
    BY <1>5, <2>1, <2>2, NewSlot
  <2>4. \A w \in Vars : Known(w)'
    BY <1>3, <2>3 DEF Known
  <2>5. Types'
    BY <1>1, <1>5, <2>2, <2>3 DEF IInv, Types, SlotEnd
  <2> QED
    BY <1>2, <2>3, <2>4, <2>5 DEF IInv, Accounted
<1> QED
  BY <1>4, <1>5 DEF AssignSlot

\* The prologue and the moves change no location.
LEMMA EmitStep == IInv /\ (Prologue \/ MoveArg \/ MovesEnd) => IInv'
<1> SUFFICES ASSUME IInv, Prologue \/ MoveArg \/ MovesEnd PROVE IInv'
  OBVIOUS
<1>1. /\ pc \in {"rest", "moves"} /\ pc' \in {"moves", "done"} /\ k' \in Nat
      /\ UNCHANGED <<block, calledInt, hot, loc, idI, idF, stackOff>>
  BY DEF Prologue, MoveArg, MovesEnd, IInv, Types
<1>2. Types' /\ Counters' /\ CallsCounted' /\ RegistersUnshared'
  BY <1>1 DEF IInv, Types, Counters, CallsCounted, RegistersUnshared, Allocated
<1>3. Accounted'
  BY <1>1, KnownCarries DEF IInv, Types, Accounted
<1> QED
  BY <1>2, <1>3 DEF IInv

LEMMA StutterStep == IInv /\ UNCHANGED vars => IInv'
BY DEF IInv, Types, Counters, CallsCounted, Accounted, Known, FromRax, FromHot, FromInt, FromXmm,
       RegistersUnshared, Allocated, UseRax, Leaf, FirstHot, LastHot, AnyInt, vars

LEMMA InductiveInvariant == Spec => []IInv
<1>1. IInv /\ [Next]_vars => IInv'
  BY ScanCallStep, ScanCallsEndStep, NextHotStep, HotEndStep, ReturnInRaxStep, AssignArgStep,
     ArgsEndStep, AssignSlotStep, EmitStep, StutterStep DEF Next
<1> QED
  BY InitInv, <1>1, PTL DEF Spec

--------------------------------------------------------------------------------
\* No two variables ever share a register, whatever the block, its heats, its
\* arguments and its calls, and however many argument registers there are.
THEOREM Unshared == Spec => []RegistersUnshared
<1>1. IInv => RegistersUnshared
  BY DEF IInv
<1> QED
  BY <1>1, InductiveInvariant, PTL

LEMMA ScratchKept == IInv => ScratchFree
<1> SUFFICES ASSUME IInv, NEW v \in Vars PROVE loc[v].reg \notin {Scratch, "R10", "RBP", "RSP"}
  BY DEF ScratchFree
<1>1. CASE FromRax(v)
  BY <1>1 DEF FromRax, Scratch
<1>2. CASE FromHot(v)
  <2>1. PICK j \in FirstHot..LastHot : loc[v].reg = HotReg(j)
    BY <1>2 DEF FromHot
  <2>2. j \in 0..LastHot
    BY HotBounds DEF IInv
  <2>3. UseRax => j # 0
    BY HotBounds DEF FirstHot, IInv
  <2> QED
    BY <2>1, <2>2, <2>3, HotRegFacts DEF Scratch, IInv
<1>3. CASE FromInt(v) \/ FromXmm(v)
  BY <1>3, ClassFacts DEF Scratch, Fixed
<1>4. CASE loc[v].reg \in {"none", "stack"}
  BY <1>4 DEF Scratch
<1> QED
  BY <1>1, <1>2, <1>3, <1>4 DEF IInv, Accounted, Known

\* No variable ever lives in a register the emitter clobbers on its own.
THEOREM ScratchRegistersFree == Spec => []ScratchFree
  BY ScratchKept, InductiveInvariant, PTL

\* Once calls are counted, no variable lives in a register that loading the
\* arguments of a call will overwrite.
THEOREM CallArgumentRegistersFree == Spec => []CallRegistersFree
<1>1. IInv => CallRegistersFree
  <2> SUFFICES ASSUME IInv, pc \in {"rest", "moves", "done"},
                      NEW c \in 1..Len(block.calls), NEW v \in Vars, NEW i \in 1..NInt,
                      i <= block.calls[c].int, loc[v].reg = IntArgRegs[i]
               PROVE  FALSE
    BY DEF CallRegistersFree
  <2>1. block.calls[c] \in Call
    BY ElementOfSeq DEF IInv, Types, BlockType
  <2>2. i <= calledInt /\ calledInt \in Nat
    BY <2>1, Lengths DEF IInv, CallsCounted, Call, Types
  <2>3. IntArgRegs[i] \in Regs \ (Fixed \cup {"none", "stack"})
    BY ArgRegFacts
  <2>4. CASE FromHot(v)
    <3>1. PICK j \in FirstHot..LastHot : loc[v].reg = HotReg(j)
      BY <2>4 DEF FromHot
    <3>2. j \in 0..LastHot /\ j # 0
      <4>1. j \in 0..LastHot
        BY HotBounds DEF IInv
      <4> QED
        BY <2>3, <3>1, <4>1, HotRegFacts DEF IInv, Fixed
    <3>3. HotReg(j) = IntArgRegs[NInt + 1 - j] /\ NInt + 1 - j \in 1..NInt
      BY <3>2, HotRegFacts, HotBounds DEF IInv
    <3>4. NInt - LastHot >= calledInt
      BY <3>2, HotBounds DEF IInv
    <3>5. NInt + 1 - j > i
      BY <2>2, <3>2, <3>4, Lengths, HotBounds DEF IInv
    <3>6. i = NInt + 1 - j
      BY <3>1, <3>3, ArgRegsDiffer
    <3> QED
      BY <3>5, <3>6, Lengths
  <2>5. CASE FromInt(v)
    <3>1. PICK j \in 1..NInt : calledInt < j /\ loc[v].reg = IntArgRegs[j]
      BY <2>5 DEF FromInt
    <3>2. i = j
      BY <3>1, ArgRegsDiffer
    <3> QED
      BY <2>2, <3>1, <3>2, Lengths
  <2>6. CASE FromXmm(v)
    BY <2>6, ArgRegsDiffer DEF FromXmm
  <2>7. CASE FromRax(v)
    BY <2>3, <2>7 DEF FromRax, Fixed
  <2> QED
    BY <2>3, <2>4, <2>5, <2>6, <2>7 DEF IInv, Accounted, Known
<1> QED
  BY <1>1, InductiveInvariant, PTL

--------------------------------------------------------------------------------
(***************************************************************************)
(* Stack slots.  Each one ends where the next one starts, and stackOff is   *)
(* the end of the last one; the prologue makes room for stackOff bytes.     *)
(***************************************************************************)
OnStack(v) == loc[v].reg = "stack"

SlotsBelow ==
  \A v \in Vars : OnStack(v) => loc[v].off + loc[v].size \in 1..stackOff

RoomForSlots ==
  /\ below \in Int
  /\ pc \in {"moves", "done"} /\ ~block.noRedzone /\ stackOff > 0 =>
       entered /\ stackOff <= below + (IF Leaf THEN 128 ELSE 0)

SlotInv == SlotsBelow /\ SlotsDisjoint

\* A step that gives out no slot.
LEMMA SlotsKept ==
  ASSUME IInv, SlotInv, stackOff' = stackOff,
         \A v \in Vars : loc'[v].reg = "stack" => loc'[v] = loc[v]
  PROVE  SlotInv'
BY DEF SlotInv, SlotsBelow, SlotsDisjoint, OnStack

\* A step that gives variable v the next slot, or leaves a gap in its place.
LEMMA SlotAdded ==
  ASSUME IInv, SlotInv, NEW v \in Vars, NEW size \in Nat, size > 0,
         \/ loc' = [loc EXCEPT ![v] = Slot(stackOff, size)]
         \/ loc' = loc,
         stackOff' = SlotEnd(stackOff, size)
  PROVE  SlotInv'
<1>1. stackOff \in Nat /\ stackOff' = stackOff + size
  BY DEF SlotEnd, IInv, Types
<1>2. \A w \in Vars : loc[w].off \in Nat /\ loc[w].size \in Nat
  BY DEF IInv, Types, Location
<1>3. \A w \in Vars : w # v => loc'[w] = loc[w]
  BY DEF IInv, Types
<1>4. \/ loc'[v].reg = "stack" /\ loc'[v].off = stackOff /\ loc'[v].size = size
      \/ loc'[v] = loc[v]
  BY DEF IInv, Types, Slot
<1>5. SlotsBelow'
  <2> SUFFICES ASSUME NEW w \in Vars, loc'[w].reg = "stack"
               PROVE  loc'[w].off + loc'[w].size \in 1..stackOff'
    BY DEF SlotsBelow, OnStack
  <2>1. CASE loc'[w] = loc[w]
    <3>1. loc[w].off + loc[w].size \in 1..stackOff
      BY <2>1 DEF SlotInv, SlotsBelow, OnStack
    <3> QED
      BY <1>1, <1>2, <2>1, <3>1
  <2>2. CASE loc'[w].off = stackOff /\ loc'[w].size = size
    BY <1>1, <2>2
  <2> QED
    BY <1>3, <1>4, <2>1, <2>2
<1>6. \A w \in Vars : loc[w].reg = "stack" => loc[w].off + loc[w].size <= stackOff
  BY <1>1, <1>2 DEF SlotInv, SlotsBelow, OnStack
<1>7. SlotsDisjoint'
  <2> SUFFICES ASSUME NEW a \in Vars, NEW b \in Vars, a # b,
                      loc'[a].reg = "stack", loc'[b].reg = "stack"
               PROVE  \/ loc'[a].off + loc'[a].size <= loc'[b].off
                      \/ loc'[b].off + loc'[b].size <= loc'[a].off
    BY DEF SlotsDisjoint
  <2>1. CASE loc'[a] = loc[a] /\ loc'[b] = loc[b]
    BY <2>1 DEF SlotInv, SlotsDisjoint
  <2>2. CASE a = v /\ loc'[v].off = stackOff
    BY <1>3, <1>6, <2>2
  <2>3. CASE b = v /\ loc'[v].off = stackOff
    BY <1>3, <1>6, <2>3
  <2> QED
    BY <1>3, <1>4, <2>1, <2>2, <2>3
<1> QED
  BY <1>5, <1>7 DEF SlotInv

LEMMA SlotInit == Init => SlotInv
BY DEF Init, SlotInv, SlotsBelow, SlotsDisjoint, OnStack, NoLocation

\* Registers are no stack slots.
LEMMA SlotRegisterStep == IInv /\ SlotInv /\ (NextHot \/ ReturnInRax) => SlotInv'
<1> SUFFICES ASSUME IInv, SlotInv, NextHot \/ ReturnInRax PROVE SlotInv'
  OBVIOUS
<1>1. stackOff' = stackOff
  BY DEF NextHot, ReturnInRax
<1>2. ASSUME NEW v \in Vars, NEW r \in Regs, loc' = [loc EXCEPT ![v] = InReg(r)]
      PROVE  SlotInv'
  <2>1. \A w \in Vars : loc'[w].reg = "stack" => loc'[w] = loc[w]
    BY <1>2, InRegIsLocation, FixedRegs DEF IInv, Types
  <2> QED
    BY <1>1, <2>1, SlotsKept
<1>3. CASE NextHot
  <2>1. PICK v \in hot : \/ loc' = [loc EXCEPT ![v] = InReg(HotReg(k))]
                         \/ UNCHANGED loc
    BY <1>3 DEF NextHot
  <2>2. v \in Vars
    BY <2>1 DEF IInv, Types
  <2>3. HotReg(k) \in Regs
    BY <1>3, <2>2, HotFree DEF NextHot
  <2> QED
    BY <1>1, <1>2, <2>1, <2>2, <2>3, SlotsKept
<1>4. CASE ReturnInRax
  <2>1. CASE UseRax
    <3>1. block.lastRet \in Vars
      BY <2>1 DEF UseRax, IInv, Types, BlockType
    <3> QED
      BY <1>2, <1>4, <2>1, <3>1, FixedRegs DEF ReturnInRax
  <2>2. CASE ~UseRax
    BY <1>1, <1>4, <2>2, SlotsKept DEF ReturnInRax
  <2> QED
    BY <2>1, <2>2
<1> QED
  BY <1>3, <1>4

\* Arguments have a size, so their slots are not empty.
LEMMA SlotArgStep == IInv /\ SlotInv /\ AssignArg => SlotInv'
<1> SUFFICES ASSUME IInv, SlotInv, AssignArg PROVE SlotInv'
  OBVIOUS
<1>1. k \in 1..Len(block.ins) /\ Len(block.ins) \in Nat
  BY LenProperties DEF AssignArg, IInv, Types, Counters, BlockType
<1> PICK v \in Vars : v = block.ins[k]
  BY AssignArgFrame
<1> DEFINE float == Info(v).float
           rank == IF float THEN idF ELSE idI
           at == ArgReg(float, rank)
<1>2. Info(v).size \in 1..64
  BY <1>1 DEF IInv, Types, WellFormed, Info
<1>3. Width(Info(v).size) \in Nat /\ Width(Info(v).size) > 0
  BY <1>2 DEF Width
<1>4. \/ PlacedArg(v, float, rank)
      \/ RegisterArg(v, float, rank)
      \/ StackArg(v, float, rank)
  BY DEF AssignArg
<1>5. CASE PlacedArg(v, float, rank)
  <2>1. PICK size \in Nat : size = Width(Info(v).size) /\ size > 0
    BY <1>3
  <2>2. loc' = [loc EXCEPT ![v] = Slot(stackOff, size)] /\ stackOff' = SlotEnd(stackOff, size)
    BY <1>5, <2>1 DEF PlacedArg
  <2> QED
    BY <2>1, <2>2, SlotAdded
<1>6. CASE StackArg(v, float, rank)
  <2>1. PICK size \in Nat : size = Info(v).size /\ size > 0
    BY <1>2
  <2>2. /\ loc' = [loc EXCEPT ![v] = Slot(stackOff, size)] \/ loc' = loc
        /\ stackOff' = SlotEnd(stackOff, size)
    BY <1>6, <2>1 DEF StackArg, KeepOrMove
  <2> QED
    BY <2>1, <2>2, SlotAdded
<1>7. CASE RegisterArg(v, float, rank)
  <2>1. stackOff' = stackOff /\ (loc' = [loc EXCEPT ![v] = InReg(at)] \/ loc' = loc)
    BY <1>7 DEF RegisterArg, KeepOrMove
  <2>2. at \in Regs
    <3>1. pc = "args" /\ k <= Len(block.ins)
      BY DEF AssignArg
    <3>2. CASE float
      BY <1>7, <3>1, <3>2, XmmFree DEF RegisterArg, InRegister, ArgReg
    <3>3. CASE ~float
      BY <1>7, <3>1, <3>3, IntFree DEF RegisterArg, InRegister, ArgReg
    <3> QED
      BY <3>2, <3>3
  <2> HIDE DEF at
  <2>3. \A w \in Vars : loc'[w].reg = "stack" => loc'[w] = loc[w]
    BY <2>1, <2>2, InRegIsLocation, FixedRegs DEF IInv, Types
  <2> QED
    BY <2>1, <2>3, SlotsKept
<1> QED
  BY <1>4, <1>5, <1>6, <1>7

LEMMA SlotRestStep == IInv /\ SlotInv /\ AssignSlot => SlotInv'
<1> SUFFICES ASSUME IInv, SlotInv, AssignSlot PROVE SlotInv'
  OBVIOUS
<1>1. k \in Vars
  <2>1. k # 0
    BY DEF AssignSlot, IInv, Counters
  <2> QED
    BY <2>1, X86AllocAssumption DEF AssignSlot, IInv, Types, Vars
<1>2. CASE NeedsSlot(k)
  <2>1. PICK size \in Nat : size = Info(k).size /\ size > 0
    BY <1>1, <1>2, InfoTypes DEF NeedsSlot
  <2>2. loc' = [loc EXCEPT ![k] = Slot(stackOff, size)] /\ stackOff' = SlotEnd(stackOff, size)
    BY <1>2, <2>1 DEF AssignSlot
  <2> QED
    BY <1>1, <2>1, <2>2, SlotAdded
<1>3. CASE ~NeedsSlot(k)
  BY <1>3, SlotsKept DEF AssignSlot
<1> QED
  BY <1>2, <1>3

\* The other steps change neither a location nor stackOff.
LEMMA SlotOtherStep ==
  IInv /\ SlotInv /\ (ScanCall \/ ScanCallsEnd \/ HotEnd \/ ArgsEnd \/ Prologue \/ MoveArg
                      \/ MovesEnd \/ UNCHANGED vars) => SlotInv'
<1> SUFFICES ASSUME IInv, SlotInv, UNCHANGED <<loc, stackOff>> PROVE SlotInv'
  BY DEF ScanCall, ScanCallsEnd, HotEnd, ArgsEnd, Prologue, MoveArg, MovesEnd, vars
<1> QED
  BY SlotsKept

LEMMA SlotInvariant == Spec => []SlotInv
<1>1. IInv /\ SlotInv /\ [Next]_vars => SlotInv'
  BY SlotRegisterStep, SlotArgStep, SlotRestStep, SlotOtherStep DEF Next
<1> QED
  BY SlotInit, <1>1, InductiveInvariant, PTL DEF Spec

LEMMA RoomInvariant == Spec => []RoomForSlots
<1>1. Init => RoomForSlots
  BY DEF Init, RoomForSlots
<1>2. IInv /\ RoomForSlots /\ [Next]_vars => RoomForSlots'
  <2> SUFFICES ASSUME IInv, RoomForSlots, [Next]_vars PROVE RoomForSlots'
    OBVIOUS
  <2>1. CASE Prologue
    <3>0. below' \in Int
      BY <2>1 DEF Prologue, Reserved, IInv, Types
    <3> SUFFICES ASSUME ~block.noRedzone, stackOff > 0
                 PROVE  entered' /\ stackOff <= below' + (IF Leaf THEN 128 ELSE 0)
      BY <2>1, <3>0 DEF Prologue, RoomForSlots, Leaf
    <3>1. entered'
      BY <2>1 DEF Prologue, AnyPlaced
    <3>2. stackOff <= below' + (IF Leaf THEN 128 ELSE 0)
      <4>1. CASE NeedProlog
        <5>1. below' = stackOff
          BY <2>1, <4>1 DEF Prologue, Reserved
        <5> QED
          BY <5>1 DEF IInv, Types
      <4>2. CASE ~NeedProlog
        <5>1. below' = 0
          BY <2>1, <4>2 DEF Prologue, Reserved
        <5>2. Leaf /\ ~(stackOff > 128)
          BY <4>2 DEF NeedProlog
        <5> QED
          BY <5>1, <5>2 DEF IInv, Types
      <4> QED
        BY <4>1, <4>2
    <3> QED
      BY <3>1, <3>2
  <2>2. CASE MoveArg \/ MovesEnd \/ UNCHANGED vars
    BY <2>2 DEF MoveArg, MovesEnd, vars, RoomForSlots, Leaf
  <2>3. CASE \/ ScanCall \/ ScanCallsEnd \/ NextHot \/ HotEnd
             \/ ReturnInRax \/ AssignArg \/ ArgsEnd \/ AssignSlot
    <3>1. pc' \notin {"moves", "done"} /\ below' = below
      BY <2>3 DEF ScanCall, ScanCallsEnd, NextHot, HotEnd, ReturnInRax, AssignArg, ArgsEnd,
                  AssignSlot
    <3> QED
      BY <3>1 DEF RoomForSlots
  <2> QED
    BY <2>1, <2>2, <2>3 DEF Next
<1> QED
  BY <1>1, <1>2, InductiveInvariant, PTL DEF Spec

\* No two stack slots overlap, whatever the sizes of the variables and however
\* many of them are arguments.
THEOREM SlotsNeverOverlap == Spec => []SlotsDisjoint
<1>1. SlotInv => SlotsDisjoint
  BY DEF SlotInv
<1> QED
  BY <1>1, SlotInvariant, PTL

\* When the body of a function that may use the red zone starts, all its slots
\* lie in its frame, and the frame pointer they are relative to is set up.
THEOREM FrameHoldsSlots == Spec => []FrameCovered
<1>1. IInv /\ SlotInv /\ RoomForSlots => FrameCovered
  <2> SUFFICES ASSUME IInv, SlotInv, RoomForSlots, pc = "done", ~block.noRedzone,
                      NEW v \in Vars, loc[v].reg = "stack"
               PROVE  entered /\ loc[v].off + loc[v].size
                                   <= below + (IF Leaf THEN 128 ELSE 0)
    BY DEF FrameCovered
  <2>1. /\ loc[v].off + loc[v].size \in 1..stackOff
        /\ stackOff \in Nat /\ loc[v].off \in Nat /\ loc[v].size \in Nat
    BY DEF SlotInv, SlotsBelow, OnStack, IInv, Types, Location
  <2>2. stackOff > 0
    BY <2>1
  <2>3. entered /\ stackOff <= below + (IF Leaf THEN 128 ELSE 0)
    BY <2>2 DEF RoomForSlots
  <2>4. below \in Int
    BY DEF RoomForSlots
  <2> QED
    BY <2>1, <2>3, <2>4
<1> QED
  BY <1>1, InductiveInvariant, SlotInvariant, RoomInvariant, PTL

--------------------------------------------------------------------------------
(***************************************************************************)
(* The arguments.  Nothing but its own variable is ever put where an        *)
(* argument arrives, so it is still there when its move reads it; and the   *)
(* moves go to locations that no other variable has.                        *)
(***************************************************************************)
\* The arguments of a class before argument n.
Earlier(b, float, n) == {j \in 1..n - 1 : b.var[b.ins[j]].float = float}

\* Where argument i is when the function is entered.
Arrive(i) == InReg(ArgReg(Info(block.ins[i]).float, Rank(block, i)))
HoldsOnly(l, v) == {u \in Vars : <<l, u>> \in content} = {v}

\* id_i and id_f are the rank of the argument looked at.
Counted ==
  pc = "args" => /\ idI = Cardinality(Earlier(block, FALSE, k))
                 /\ idF = Cardinality(Earlier(block, TRUE, k))

\* No other variable is put where an argument arrives.
OwnRegister ==
  \A i \in RegisterArgs(block), w \in Vars :
    loc[w].reg = Arrive(i).reg => w = block.ins[i]

\* A move of an argument is from where it arrives.
MovesFrom ==
  \A m \in 1..Len(toMove), i \in RegisterArgs(block) :
    toMove[m].var = block.ins[i] => toMove[m].from = Arrive(i)

Passed(i) == pc \in {"rest", "moves", "done"} \/ (pc = "args" /\ i < k)

\* An argument that was looked at stays where it arrives, or moves.
Settled ==
  \A i \in RegisterArgs(block) :
    Passed(i) => \/ loc[block.ins[i]] = Arrive(i)
                 \/ \E m \in 1..Len(toMove) : toMove[m].var = block.ins[i]

\* When the moves begin, every argument has a location to move to.
Located ==
  \A i \in RegisterArgs(block) :
    pc \in {"moves", "done"} \/ (pc = "rest" /\ block.ins[i] < k)
      => loc[block.ins[i]] # NoLocation

\* Locations are told apart by what they are: a slot is not empty.
Shaped ==
  \A v \in Vars :
    /\ loc[v].reg = "none" => loc[v] = NoLocation
    /\ loc[v].reg = "stack" => loc[v].size > 0
    /\ loc[v].reg \in Regs => loc[v] = InReg(loc[v].reg)

Arrived == \A i \in RegisterArgs(block) : HoldsOnly(Arrive(i), block.ins[i])

\* The argument of a move that was done is where its variable lives.
Delivered ==
  \A m \in 1..Len(toMove), i \in RegisterArgs(block) :
    pc \in {"moves", "done"} /\ m < k /\ toMove[m].var = block.ins[i]
      => HoldsOnly(loc[block.ins[i]], block.ins[i])

MovesCounted ==
  /\ pc = "moves" => k > 0
  /\ pc = "done" => k > Len(toMove)

Typed ==
  /\ calledXmm \in Nat
  /\ toMove \in Seq([var : Vars, from : Location])
  /\ entered \in BOOLEAN
  /\ below \in Int
  /\ content \in SUBSET (Location \X Vars)

DeliveryInv ==
  /\ Typed
  /\ Counted /\ OwnRegister /\ MovesFrom /\ Settled /\ Located /\ Shaped
  /\ Arrived /\ Delivered /\ MovesCounted

(***************************************************************************)
(* Ranks: how many arguments of a class come before an argument.            *)
(***************************************************************************)
LEMMA EarlierCount ==
  ASSUME NEW b, NEW float, NEW n \in Nat \ {0}
  PROVE  /\ IsFiniteSet(Earlier(b, float, n))
         /\ Cardinality(Earlier(b, float, n)) \in Nat
         /\ Cardinality(Earlier(b, float, n)) <= n - 1
<1>1. IsFiniteSet(1..n - 1) /\ Cardinality(1..n - 1) = n - 1
  BY FS_Interval
<1>2. Earlier(b, float, n) \in SUBSET (1..n - 1)
  BY DEF Earlier
<1>3. QED
  BY <1>1, <1>2, FS_Subset, FS_CardinalityType

LEMMA CountFirst ==
  ASSUME NEW b, NEW float
  PROVE  Cardinality(Earlier(b, float, 1)) = 0
<1>1. Earlier(b, float, 1) = {}
  BY DEF Earlier
<1>2. QED
  BY <1>1, FS_EmptySet

LEMMA CountNext ==
  ASSUME NEW b, NEW float, NEW n \in Nat \ {0}
  PROVE  Cardinality(Earlier(b, float, n + 1)) =
           IF b.var[b.ins[n]].float = float THEN Cardinality(Earlier(b, float, n)) + 1
           ELSE Cardinality(Earlier(b, float, n))
<1>1. 1..(n + 1) - 1 = 1..n - 1 \cup {n} /\ n \notin 1..n - 1
  OBVIOUS
<1>2. CASE b.var[b.ins[n]].float = float
  <2>1. Earlier(b, float, n + 1) = Earlier(b, float, n) \cup {n} /\ n \notin Earlier(b, float, n)
    BY <1>1, <1>2 DEF Earlier
  <2>2. QED
    BY <1>2, <2>1, EarlierCount, FS_AddElement
<1>3. CASE b.var[b.ins[n]].float # float
  <2>1. Earlier(b, float, n + 1) = Earlier(b, float, n)
    BY <1>1, <1>3 DEF Earlier
  <2>2. QED
    BY <1>3, <2>1
<1>4. QED
  BY <1>2, <1>3

LEMMA RanksDiffer ==
  ASSUME NEW b, NEW i \in Nat \ {0}, NEW j \in Nat \ {0}, i < j,
         b.var[b.ins[i]].float = b.var[b.ins[j]].float
  PROVE  Rank(b, i) # Rank(b, j)
<1> DEFINE float == b.var[b.ins[i]].float
<1>1. Rank(b, i) = Cardinality(Earlier(b, float, i)) /\ Rank(b, j) = Cardinality(Earlier(b, float, j))
  BY DEF Rank, Earlier
<1>2. Cardinality(Earlier(b, float, i + 1)) = Cardinality(Earlier(b, float, i)) + 1
  BY CountNext
<1>3. Earlier(b, float, i + 1) \in SUBSET Earlier(b, float, j)
  BY DEF Earlier
<1>4. Cardinality(Earlier(b, float, i + 1)) <= Cardinality(Earlier(b, float, j))
  BY <1>3, EarlierCount, FS_Subset
<1>5. Cardinality(Earlier(b, float, i)) \in Nat /\ Cardinality(Earlier(b, float, j)) \in Nat
  BY EarlierCount
<1> HIDE DEF float
<1>6. QED
  BY <1>1, <1>2, <1>4, <1>5

\* Where an argument arrives: in an argument register.
LEMMA ArriveRegister ==
  ASSUME IInv, NEW i \in RegisterArgs(block)
  PROVE  /\ i \in 1..Len(block.ins) /\ block.ins[i] \in Vars
         /\ Rank(block, i) \in Nat /\ Rank(block, i) < i
         /\ \/ /\ Info(block.ins[i]).float /\ Rank(block, i) + 1 \in 1..NXmm
               /\ Arrive(i).reg = XmmArgRegs[Rank(block, i) + 1]
            \/ /\ ~Info(block.ins[i]).float /\ Rank(block, i) + 1 \in 1..NInt
               /\ Arrive(i).reg = IntArgRegs[Rank(block, i) + 1]
<1>1. i \in 1..Len(block.ins) /\ block.ins[i] \in Vars /\ Len(block.ins) \in Nat
  BY ArgIsVar, LenProperties DEF RegisterArgs, IInv, Types, BlockType
<1>2. Rank(block, i) = Cardinality(Earlier(block, Info(block.ins[i]).float, i))
  BY DEF Rank, Earlier, Info
<1>3. Rank(block, i) \in Nat /\ Rank(block, i) < i
  BY <1>1, <1>2, EarlierCount
<1>4. InRegister(Info(block.ins[i]).float, Rank(block, i)) /\ Info(block.ins[i]).float \in BOOLEAN
  BY <1>1, InfoTypes DEF RegisterArgs, Info
<1>5. QED
  BY <1>1, <1>3, <1>4, Lengths DEF Arrive, InReg, ArgReg, InRegister

LEMMA ArriveType ==
  ASSUME IInv, NEW i \in RegisterArgs(block)
  PROVE  /\ Arrive(i).reg \in Regs \ (Fixed \cup {"none", "stack"})
         /\ Arrive(i) = InReg(Arrive(i).reg)
         /\ Arrive(i) \in Location
<1>1. Arrive(i).reg \in Regs \ (Fixed \cup {"none", "stack"})
  BY ArriveRegister, ArgRegFacts
<1>2. Arrive(i) = InReg(Arrive(i).reg)
  BY DEF Arrive, InReg
<1>3. QED
  BY <1>1, <1>2, InRegIsLocation

\* No two arguments arrive in one register.
LEMMA ArriveDiffer ==
  ASSUME IInv, NEW i \in RegisterArgs(block), NEW j \in RegisterArgs(block),
         Arrive(i).reg = Arrive(j).reg
  PROVE  i = j
<1>1. i \in Nat \ {0} /\ j \in Nat \ {0}
  BY ArriveRegister
<1>2. Info(block.ins[i]).float \in BOOLEAN /\ Info(block.ins[j]).float \in BOOLEAN
  BY ArriveRegister, InfoTypes
<1>3. Info(block.ins[i]).float = Info(block.ins[j]).float /\ Rank(block, i) = Rank(block, j)
  <2>1. CASE Info(block.ins[i]).float /\ Info(block.ins[j]).float
    <3>1. Rank(block, i) + 1 = Rank(block, j) + 1
      BY <2>1, ArriveRegister, X86AllocAssumption
    <3>2. QED
      BY <2>1, <3>1, ArriveRegister
  <2>2. CASE ~Info(block.ins[i]).float /\ ~Info(block.ins[j]).float
    <3>1. Rank(block, i) + 1 = Rank(block, j) + 1
      BY <2>2, ArriveRegister, X86AllocAssumption
    <3>2. QED
      BY <1>2, <2>2, <3>1, ArriveRegister
  <2>3. CASE Info(block.ins[i]).float # Info(block.ins[j]).float
    BY <1>2, <2>3, ArriveRegister, ArgRegsDiffer
  <2>4. QED
    BY <1>2, <2>1, <2>2, <2>3
<1>4. QED
  BY <1>1, <1>3, RanksDiffer DEF Info

\* Every argument is one variable.
LEMMA ArgOnce ==
  ASSUME IInv, NEW i \in 1..Len(block.ins), NEW j \in 1..Len(block.ins), block.ins[i] = block.ins[j]
  PROVE  i = j
BY DEF IInv, Types, WellFormed

(***************************************************************************)
(* The steps.                                                               *)
(***************************************************************************)
LEMMA DeliveryInit == Init => DeliveryInv
<1> SUFFICES ASSUME Init PROVE DeliveryInv
  OBVIOUS
<1>1. IInv
  BY InitInv
<1>2. content = {<<Arrive(i), block.ins[i]>> : i \in RegisterArgs(block)}
  BY DEF Init, EntryContent, Arrive, Info
<1>3. \A i \in RegisterArgs(block) : Arrive(i) \in Location /\ block.ins[i] \in Vars
  BY <1>1, ArriveType, ArriveRegister
<1>4. Typed
  <2>1. content \in SUBSET (Location \X Vars)
    BY <1>2, <1>3
  <2>2. toMove \in Seq([var : Vars, from : Location])
    BY DEF Init
  <2>3. calledXmm = 0 /\ entered = FALSE /\ below = 0
    BY DEF Init
  <2>4. calledXmm \in Nat /\ below \in Int
    BY <2>3
  <2>5. entered \in BOOLEAN
    BY <2>3
  <2>6. QED
    BY <2>1, <2>2, <2>4, <2>5 DEF Typed
<1>5. Arrived
  <2> SUFFICES ASSUME NEW i \in RegisterArgs(block)
               PROVE  {u \in Vars : <<Arrive(i), u>> \in content} = {block.ins[i]}
    BY DEF Arrived, HoldsOnly
  <2>1. <<Arrive(i), block.ins[i]>> \in content /\ block.ins[i] \in Vars
    BY <1>2, <1>3
  <2>2. ASSUME NEW u \in Vars, <<Arrive(i), u>> \in content
        PROVE  u = block.ins[i]
    <3>1. PICK j \in RegisterArgs(block) : <<Arrive(i), u>> = <<Arrive(j), block.ins[j]>>
      BY <1>2, <2>2
    <3>2. i = j
      BY <1>1, <3>1, ArriveDiffer
    <3>3. QED
      BY <3>1, <3>2
  <2>3. QED
    BY <2>1, <2>2
<1>6. \A v \in Vars : loc[v] = NoLocation /\ loc[v].reg = "none"
  BY DEF Init, NoLocation
<1>7. OwnRegister
  <2>1. \A i \in RegisterArgs(block) : Arrive(i).reg # "none"
    BY <1>1, ArriveType
  <2>2. QED
    BY <1>6, <2>1 DEF OwnRegister
<1>8. Shaped
  BY <1>6, FixedRegs DEF Shaped
<1>9. pc = "calls" /\ toMove = <<>> /\ Len(toMove) = 0
  BY DEF Init
<1>10. Counted /\ MovesFrom /\ Settled /\ Located /\ Delivered /\ MovesCounted
  BY <1>9 DEF Counted, MovesFrom, Settled, Passed, Located, Delivered, MovesCounted
<1>11. QED
  BY <1>4, <1>5, <1>7, <1>8, <1>10 DEF DeliveryInv

\* The parts that speak of one state component each.
LEMMA SameLocations ==
  ASSUME DeliveryInv, block' = block, loc' = loc
  PROVE  OwnRegister' /\ Shaped'
BY DEF DeliveryInv, OwnRegister, Shaped, Arrive, Info

LEMMA SameMoves ==
  ASSUME DeliveryInv, block' = block, toMove' = toMove
  PROVE  MovesFrom'
BY DEF DeliveryInv, MovesFrom, Arrive, Info

LEMMA SameContent ==
  ASSUME DeliveryInv, block' = block, content' = content
  PROVE  Arrived'
BY DEF DeliveryInv, Arrived, HoldsOnly, Arrive, Info

LEMMA NewLocation ==
  ASSUME IInv, DeliveryInv, NEW v \in Vars, NEW l \in Location, block' = block,
         loc' = [loc EXCEPT ![v] = l],
         \/ l.reg = "stack" /\ l.size > 0
         \/ l.reg \in Regs /\ l = InReg(l.reg),
         \A i \in RegisterArgs(block) : l.reg = Arrive(i).reg => v = block.ins[i]
  PROVE  OwnRegister' /\ Shaped'
<1>1. loc'[v] = l /\ \A w \in Vars : w # v => loc'[w] = loc[w]
  BY DEF IInv, Types
<1>2. \A i : Arrive(i)' = Arrive(i)
  BY DEF Arrive, Info
<1>3. OwnRegister'
  BY <1>1, <1>2 DEF OwnRegister, DeliveryInv
<1>4. Shaped'
  BY <1>1, FixedRegs DEF Shaped, DeliveryInv
<1>5. QED
  BY <1>3, <1>4

\* Before the arguments are looked at, nothing is claimed of them.
LEMMA DeliveryEarly ==
  ASSUME IInv, DeliveryInv, pc' \in {"calls", "hot", "ret"},
         UNCHANGED <<block, toMove, entered, below, content>>, calledXmm' \in Nat,
         OwnRegister' /\ Shaped'
  PROVE  DeliveryInv'
<1>1. Typed'
  BY DEF DeliveryInv, Typed
<1>2. Counted' /\ Settled' /\ Located' /\ Delivered' /\ MovesCounted'
  BY DEF Counted, Settled, Passed, Located, Delivered, MovesCounted
<1>3. QED
  BY <1>1, <1>2, SameMoves, SameContent DEF DeliveryInv

LEMMA DeliveryScan ==
  IInv /\ DeliveryInv /\ (ScanCall \/ ScanCallsEnd \/ HotEnd) => DeliveryInv'
<1> SUFFICES ASSUME IInv, DeliveryInv, ScanCall \/ ScanCallsEnd \/ HotEnd PROVE DeliveryInv'
  OBVIOUS
<1>1. /\ pc' \in {"calls", "hot", "ret"}
      /\ UNCHANGED <<block, loc, toMove, entered, below, content>>
  BY DEF ScanCall, ScanCallsEnd, HotEnd
<1>2. calledXmm' \in Nat
  <2>1. CASE ScanCall
    <3>1. block.calls[k] \in Call
      BY <2>1, ElementOfSeq, LenProperties DEF ScanCall, IInv, Types, Counters, BlockType
    <3>2. QED
      BY <2>1, <3>1 DEF ScanCall, Call, Larger, DeliveryInv, Typed
  <2>2. CASE ScanCallsEnd \/ HotEnd
    BY <2>2 DEF ScanCallsEnd, HotEnd, DeliveryInv, Typed
  <2>3. QED
    BY <2>1, <2>2
<1>3. QED
  BY <1>1, <1>2, SameLocations, DeliveryEarly

\* No argument arrives in a register that a hot variable gets.
LEMMA DeliveryHot == IInv /\ DeliveryInv /\ NextHot => DeliveryInv'
<1> SUFFICES ASSUME IInv, DeliveryInv, NextHot PROVE DeliveryInv'
  OBVIOUS
<1>1. /\ pc = "hot" /\ pc' = "hot" /\ k <= LastHot /\ k \in Nat
      /\ UNCHANGED <<block, toMove, entered, below, content, calledXmm>>
  BY DEF NextHot, IInv, Types
<1>2. calledXmm' \in Nat
  BY <1>1 DEF DeliveryInv, Typed
<1>3. PICK v \in hot : \/ loc' = [loc EXCEPT ![v] = InReg(HotReg(k))]
                       \/ UNCHANGED loc
  BY DEF NextHot
<1>4. v \in Vars
  BY DEF IInv, Types
<1> DEFINE r == HotReg(k)
<1>5. k \in 0..LastHot /\ LastHot \in 0..NInt
  BY <1>1, HotBounds DEF IInv
<1>6. ASSUME NEW i \in RegisterArgs(block) PROVE r # Arrive(i).reg
  <2>1. CASE k = 0
    BY <1>5, <2>1, HotRegFacts, ArriveType DEF Fixed, IInv
  <2>2. CASE k > 0
    <3>1. r = IntArgRegs[NInt + 1 - k] /\ NInt + 1 - k \in 1..NInt
      BY <1>5, <2>2, HotRegFacts DEF IInv
    <3>2. NInt - LastHot >= Len(block.ins)
      BY <1>5, <2>2, HotBounds DEF IInv
    <3> HIDE DEF r
    <3>3. i <= Len(block.ins) /\ Rank(block, i) < i /\ Rank(block, i) \in Nat /\ i \in Nat
          /\ Len(block.ins) \in Nat
      BY ArriveRegister, LenProperties DEF IInv, Types, BlockType
    <3>4. NInt + 1 - k # Rank(block, i) + 1
      BY <1>5, <3>2, <3>3, Lengths
    <3>5. QED
      BY <3>1, <3>4, ArriveRegister, ArgRegsDiffer
  <2>3. QED
    BY <1>1, <2>1, <2>2
<1>7. r \in Regs
  BY <1>5, HotRegFacts DEF IInv
<1> HIDE DEF r
<1>8. CASE loc' = [loc EXCEPT ![v] = InReg(r)]
  <2>1. InReg(r) \in Location /\ InReg(r).reg = r
    BY <1>7, InRegIsLocation
  <2> DEFINE l == InReg(r)
  <2>2. l = InReg(l.reg) /\ l.reg \in Regs /\ l \in Location /\ l.reg = r
    BY <1>7, <2>1
  <2>3. loc' = [loc EXCEPT ![v] = l]
    BY <1>8
  <2> HIDE DEF l
  <2>4. OwnRegister' /\ Shaped'
    BY <1>1, <1>4, <1>6, <2>2, <2>3, NewLocation
  <2>5. QED
    BY <1>1, <1>2, <2>4, DeliveryEarly
<1>9. CASE UNCHANGED loc
  BY <1>1, <1>2, <1>9, SameLocations, DeliveryEarly
<1>10. QED
  BY <1>3, <1>8, <1>9 DEF r

LEMMA DeliveryRet == IInv /\ DeliveryInv /\ ReturnInRax => DeliveryInv'
<1> SUFFICES ASSUME IInv, DeliveryInv, ReturnInRax PROVE DeliveryInv'
  OBVIOUS
<1>1. /\ pc = "ret" /\ pc' = "args" /\ k' = 1
      /\ UNCHANGED <<block, calledXmm, idI, idF, toMove, entered, below, content>>
  BY DEF ReturnInRax
<1>2. Typed' /\ MovesFrom' /\ Arrived'
  BY <1>1, SameMoves, SameContent DEF DeliveryInv, Typed
<1>3. Counted'
  BY <1>1, CountFirst DEF Counted, IInv, Counters
<1>4. Settled' /\ Located' /\ Delivered' /\ MovesCounted'
  <2>1. \A i \in RegisterArgs(block) : ~(i < 1)
    BY ArriveRegister
  <2>2. QED
    BY <1>1, <2>1 DEF Settled, Passed, Located, Delivered, MovesCounted
<1>5. OwnRegister' /\ Shaped'
  <2>1. CASE UseRax
    <3> DEFINE l == InReg("RAX")
    <3>1. l.reg = "RAX" /\ l = InReg(l.reg) /\ l.reg \in Regs /\ l \in Location
      BY FixedRegs, InRegIsLocation
    <3>2. block.lastRet \in Vars
      BY <2>1 DEF UseRax, IInv, Types, BlockType
    <3>3. loc' = [loc EXCEPT ![block.lastRet] = l]
      BY <2>1 DEF ReturnInRax
    <3> HIDE DEF l
    <3>4. \A i \in RegisterArgs(block) : l.reg # Arrive(i).reg
      BY <3>1, ArriveType DEF Fixed
    <3>5. QED
      BY <1>1, <3>1, <3>2, <3>3, <3>4, NewLocation
  <2>2. CASE ~UseRax
    BY <1>1, <2>2, SameLocations DEF ReturnInRax
  <2>3. QED
    BY <2>1, <2>2
<1>6. QED
  BY <1>2, <1>3, <1>4, <1>5 DEF DeliveryInv

\* An argument that has to move is added to the moves.
LEMMA MoveAdded ==
  ASSUME IInv, DeliveryInv, NEW v \in Vars, NEW from \in Location, block' = block,
         toMove' = Append(toMove, [var |-> v, from |-> from]),
         \A i \in RegisterArgs(block) : v = block.ins[i] => from = Arrive(i)
  PROVE  /\ toMove' \in Seq([var : Vars, from : Location])
         /\ MovesFrom'
         /\ Len(toMove) \in Nat /\ Len(toMove') = Len(toMove) + 1
         /\ \A m \in 1..Len(toMove) : toMove'[m] = toMove[m]
         /\ toMove'[Len(toMove) + 1].var = v
<1> DEFINE new == [var |-> v, from |-> from]
<1>1. new \in [var : Vars, from : Location] /\ new.var = v /\ new.from = from
  OBVIOUS
<1>2. toMove \in Seq([var : Vars, from : Location])
  BY DEF DeliveryInv, Typed
<1>3. toMove' = Append(toMove, new)
  OBVIOUS
<1> HIDE DEF new
<1>4. /\ toMove' \in Seq([var : Vars, from : Location])
      /\ Len(toMove) \in Nat /\ Len(toMove') = Len(toMove) + 1
      /\ \A m \in 1..Len(toMove) : toMove'[m] = toMove[m]
      /\ toMove'[Len(toMove) + 1] = new
  BY <1>1, <1>2, <1>3, AppendProperties
<1>5. MovesFrom'
  <2>1. \A i : Arrive(i)' = Arrive(i)
    BY DEF Arrive, Info
  <2>2. ASSUME NEW m \in 1..Len(toMove) + 1, NEW i \in RegisterArgs(block), toMove'[m].var = block.ins[i]
        PROVE  toMove'[m].from = Arrive(i)
    <3>1. CASE m \in 1..Len(toMove)
      BY <1>4, <2>2, <3>1 DEF DeliveryInv, MovesFrom
    <3>2. CASE m = Len(toMove) + 1
      BY <1>1, <1>4, <2>2, <3>2
    <3>3. QED
      BY <1>4, <3>1, <3>2
  <2>3. QED
    BY <1>4, <2>1, <2>2 DEF MovesFrom
<1>6. QED
  BY <1>1, <1>4, <1>5

\* What is to show of the argument just assigned.
LEMMA DeliveryArg ==
  ASSUME IInv, DeliveryInv, AssignArg,
         toMove' \in Seq([var : Vars, from : Location]),
         MovesFrom', OwnRegister', Shaped', Counted',
         Len(toMove) <= Len(toMove'), \A m \in 1..Len(toMove) : toMove'[m] = toMove[m],
         k \in RegisterArgs(block) =>
           \/ loc'[block.ins[k]] = Arrive(k)
           \/ \E m \in 1..Len(toMove') : toMove'[m].var = block.ins[k]
  PROVE  DeliveryInv'
<1>1. /\ pc = "args" /\ pc' = "args" /\ k \in Nat /\ k' = k + 1 /\ k \in 1..Len(block.ins)
      /\ block' = block /\ UNCHANGED <<calledXmm, entered, below, content>>
      /\ block.ins[k] \in Vars
  BY AssignArgFrame DEF AssignArg, IInv, Counters
<1>2. Len(toMove) \in Nat /\ Len(toMove') \in Nat
  BY DEF DeliveryInv, Typed
<1>3. Typed' /\ Arrived'
  BY <1>1, SameContent DEF DeliveryInv, Typed
<1>4. Located' /\ Delivered' /\ MovesCounted'
  BY <1>1 DEF Located, Delivered, MovesCounted
<1>5. \A w \in Vars : w # block.ins[k] => loc'[w] = loc[w]
  BY DEF AssignArg, PlacedArg, RegisterArg, StackArg, KeepOrMove, IInv, Types
<1>6. ASSUME NEW i \in RegisterArgs(block), i < k + 1
      PROVE  \/ loc'[block.ins[i]] = Arrive(i)
             \/ \E m \in 1..Len(toMove') : toMove'[m].var = block.ins[i]
  <2>1. CASE i = k
    BY <2>1
  <2>2. CASE i # k
    <3>1. i \in 1..Len(block.ins) /\ i \in Nat /\ i < k /\ block.ins[i] \in Vars
      BY <1>1, <1>6, <2>2, ArriveRegister
    <3>2. block.ins[i] # block.ins[k]
      BY <1>1, <2>2, <3>1, ArgOnce
    <3>3. \/ loc[block.ins[i]] = Arrive(i)
          \/ \E m \in 1..Len(toMove) : toMove[m].var = block.ins[i]
      BY <1>1, <3>1 DEF DeliveryInv, Settled, Passed
    <3>4. \A m \in 1..Len(toMove) : m \in 1..Len(toMove')
      BY <1>2
    <3>5. QED
      BY <1>5, <3>1, <3>2, <3>3, <3>4
  <2>3. QED
    BY <2>1, <2>2
<1>7. Settled'
  <2>1. \A i : Arrive(i)' = Arrive(i)
    BY <1>1 DEF Arrive, Info
  <2>2. QED
    BY <1>1, <1>6, <2>1 DEF Settled, Passed
<1>8. QED
  BY <1>3, <1>4, <1>7 DEF DeliveryInv

LEMMA ArgRank ==
  ASSUME IInv, DeliveryInv, AssignArg
  PROVE  LET float == Info(block.ins[k]).float
             rank == IF float THEN idF ELSE idI IN
         /\ rank = Rank(block, k)
         /\ k \in RegisterArgs(block) <=> InRegister(float, rank)
         /\ k \in RegisterArgs(block) => Arrive(k) = InReg(ArgReg(float, rank))
         /\ Counted'
<1>1. /\ pc = "args" /\ pc' = "args" /\ k \in Nat \ {0} /\ k' = k + 1 /\ k \in 1..Len(block.ins)
      /\ block' = block /\ block.ins[k] \in Vars
      /\ Info(block.ins[k]).float => idI' = idI /\ idF' = idF + 1
      /\ ~Info(block.ins[k]).float => idI' = idI + 1 /\ idF' = idF
  BY AssignArgFrame DEF AssignArg, IInv, Counters
<1>2. Info(block.ins[k]).float \in BOOLEAN
  BY <1>1, InfoTypes
<1>3. idI = Cardinality(Earlier(block, FALSE, k)) /\ idF = Cardinality(Earlier(block, TRUE, k))
  BY <1>1 DEF DeliveryInv, Counted
<1> DEFINE float == Info(block.ins[k]).float
           rank == IF float THEN idF ELSE idI
<1>4. Rank(block, k) = Cardinality(Earlier(block, float, k))
  BY DEF Rank, Earlier, Info
<1>5. rank = Rank(block, k)
  BY <1>2, <1>3, <1>4
<1>6. Counted'
  <2>1. /\ Cardinality(Earlier(block, FALSE, k + 1)) = IF float = FALSE THEN idI + 1 ELSE idI
        /\ Cardinality(Earlier(block, TRUE, k + 1)) = IF float = TRUE THEN idF + 1 ELSE idF
    BY <1>1, <1>3, CountNext DEF Info
  <2>2. idI' = Cardinality(Earlier(block, FALSE, k + 1)) /\ idF' = Cardinality(Earlier(block, TRUE, k + 1))
    BY <1>1, <1>2, <2>1
  <2>3. QED
    BY <1>1, <2>2 DEF Counted, Earlier
<1> HIDE DEF rank
<1>7. k \in RegisterArgs(block) <=> InRegister(float, rank)
  BY <1>1, <1>5 DEF RegisterArgs, Info
<1>8. Arrive(k) = InReg(ArgReg(float, rank))
  BY <1>5 DEF Arrive
<1>9. QED
  BY <1>5, <1>6, <1>7, <1>8 DEF rank

LEMMA DeliveryArgs == IInv /\ DeliveryInv /\ AssignArg => DeliveryInv'
<1> SUFFICES ASSUME IInv, DeliveryInv, AssignArg PROVE DeliveryInv'
  OBVIOUS
<1>1. /\ k \in 1..Len(block.ins) /\ block' = block /\ pc = "args" /\ k <= Len(block.ins)
  BY AssignArgFrame DEF AssignArg, IInv, Counters
<1> PICK v \in Vars : v = block.ins[k]
  BY AssignArgFrame
<1> DEFINE float == Info(v).float
           rank == IF float THEN idF ELSE idI
<1>2. /\ k \in RegisterArgs(block) <=> InRegister(float, rank)
      /\ k \in RegisterArgs(block) => Arrive(k) = InReg(ArgReg(float, rank))
      /\ Counted'
  BY ArgRank
<1>3. Info(v).size \in 1..64 /\ Width(Info(v).size) \in Nat /\ Width(Info(v).size) > 0
  <2>1. Info(v).size \in 1..64
    BY <1>1 DEF IInv, Types, WellFormed, Info
  <2>2. QED
    BY <2>1 DEF Width
<1>4. stackOff \in Nat /\ Len(toMove) \in Nat /\ toMove \in Seq([var : Vars, from : Location])
  BY DEF IInv, Types, DeliveryInv, Typed
<1>5. \A i \in RegisterArgs(block) : v = block.ins[i] => i = k
  BY <1>1, ArriveRegister, ArgOnce
<1>6. \/ PlacedArg(v, float, rank)
      \/ RegisterArg(v, float, rank)
      \/ StackArg(v, float, rank)
  BY DEF AssignArg
<1> HIDE DEF rank
<1>7. ASSUME NEW size \in Nat, size > 0, loc' = [loc EXCEPT ![v] = Slot(stackOff, size)]
      PROVE  OwnRegister' /\ Shaped'
  <2> DEFINE l == Slot(stackOff, size)
  <2>1. l \in Location /\ l.reg = "stack" /\ l.size > 0
    BY <1>4, <1>7 DEF Slot, Location
  <2>2. loc' = [loc EXCEPT ![v] = l]
    BY <1>7
  <2> HIDE DEF l
  <2>3. \A i \in RegisterArgs(block) : l.reg # Arrive(i).reg
    BY <2>1, ArriveType
  <2>4. QED
    BY <1>1, <2>1, <2>2, <2>3, NewLocation
<1>8. ASSUME NEW from \in Location, MoveLater(v, from), OwnRegister', Shaped',
             k \in RegisterArgs(block) => from = Arrive(k)
      PROVE  DeliveryInv'
  <2>1. /\ toMove' \in Seq([var : Vars, from : Location])
        /\ MovesFrom'
        /\ Len(toMove') = Len(toMove) + 1
        /\ \A m \in 1..Len(toMove) : toMove'[m] = toMove[m]
        /\ toMove'[Len(toMove) + 1].var = v
    BY <1>1, <1>5, <1>8, MoveAdded DEF MoveLater
  <2>2. \E m \in 1..Len(toMove') : toMove'[m].var = v
    BY <1>4, <2>1
  <2>3. Len(toMove) <= Len(toMove')
    BY <1>4, <2>1
  <2>4. QED
    BY <1>2, <1>8, <2>1, <2>2, <2>3, DeliveryArg
<1>9. ASSUME toMove' = toMove, OwnRegister', Shaped',
             k \in RegisterArgs(block) => loc'[v] = Arrive(k)
      PROVE  DeliveryInv'
  <2>1. MovesFrom' /\ Len(toMove) <= Len(toMove')
    BY <1>1, <1>4, <1>9, SameMoves
  <2>2. QED
    BY <1>2, <1>4, <1>9, <2>1, DeliveryArg
<1>10. CASE PlacedArg(v, float, rank)
  <2>1. k \in RegisterArgs(block) /\ MoveLater(v, Arrive(k))
    BY <1>2, <1>10 DEF PlacedArg
  <2>2. loc' = [loc EXCEPT ![v] = Slot(stackOff, Width(Info(v).size))]
    BY <1>10 DEF PlacedArg
  <2>3. OwnRegister' /\ Shaped'
    BY <1>3, <1>7, <2>2
  <2>4. Arrive(k) \in Location
    BY <2>1, ArriveType
  <2>5. QED
    BY <1>8, <2>1, <2>3, <2>4
<1>11. CASE RegisterArg(v, float, rank)
  <2>1. k \in RegisterArgs(block) /\ Arrive(k) \in Location /\ KeepOrMove(v, float, rank, Arrive(k))
    BY <1>2, <1>11, ArriveType DEF RegisterArg
  <2>2. CASE loc' = [loc EXCEPT ![v] = Arrive(k)] /\ toMove' = toMove
    <3> DEFINE l == Arrive(k)
    <3>1. l \in Location /\ l.reg \in Regs /\ l = InReg(l.reg)
      BY <2>1, ArriveType
    <3>2. loc'[v] = l
      BY <2>2 DEF IInv, Types
    <3>3. \A i \in RegisterArgs(block) : l.reg = Arrive(i).reg => v = block.ins[i]
      BY <2>1, ArriveDiffer
    <3>4. loc' = [loc EXCEPT ![v] = l]
      BY <2>2
    <3> HIDE DEF l
    <3>5. OwnRegister' /\ Shaped'
      BY <1>1, <3>1, <3>3, <3>4, NewLocation
    <3>6. QED
      BY <1>9, <2>2, <3>2, <3>5 DEF l
  <2>3. CASE loc' = loc /\ MoveLater(v, Arrive(k))
    BY <1>1, <1>8, <2>1, <2>3, SameLocations
  <2>4. QED
    BY <2>1, <2>2, <2>3 DEF KeepOrMove
<1>12. CASE StackArg(v, float, rank)
  <2> PICK size \in Nat : size = Info(v).size /\ size > 0
    BY <1>3
  <2> DEFINE l == Slot(stackOff, size)
  <2>1. k \notin RegisterArgs(block) /\ l \in Location /\ KeepOrMove(v, float, rank, l)
    <3>1. l \in Location
      BY <1>4 DEF Slot, Location
    <3>2. k \notin RegisterArgs(block) /\ KeepOrMove(v, float, rank, l)
      BY <1>2, <1>12 DEF StackArg
    <3>3. QED
      BY <3>1, <3>2
  <2>2. CASE loc' = [loc EXCEPT ![v] = l] /\ toMove' = toMove
    <3>1. OwnRegister' /\ Shaped'
      BY <1>7, <2>2
    <3>2. QED
      BY <1>9, <2>1, <2>2, <3>1
  <2> HIDE DEF l
  <2>3. CASE loc' = loc /\ MoveLater(v, l)
    BY <1>1, <1>8, <2>1, <2>3, SameLocations
  <2>4. QED
    BY <2>1, <2>2, <2>3 DEF KeepOrMove
<1>13. QED
  BY <1>6, <1>10, <1>11, <1>12

\* After the arguments, slots are given to variables without a location only,
\* and no argument is left without one.
LEMMA DeliveryRest == IInv /\ DeliveryInv /\ (ArgsEnd \/ AssignSlot \/ Prologue) => DeliveryInv'
<1> SUFFICES ASSUME IInv, DeliveryInv, ArgsEnd \/ AssignSlot \/ Prologue PROVE DeliveryInv'
  OBVIOUS
<1>1. /\ pc' \in {"rest", "moves"} /\ k' \in Nat
      /\ UNCHANGED <<block, calledXmm, toMove, content>>
  BY DEF ArgsEnd, AssignSlot, Prologue, IInv, Types
<1>2. entered' \in BOOLEAN /\ below' \in Int
  <2>1. CASE Prologue
    <3>1. Reserved \in Int
      BY DEF Reserved, IInv, Types
    <3>2. QED
      BY <2>1, <3>1 DEF Prologue
  <2>2. CASE ~Prologue
    BY <2>2 DEF ArgsEnd, AssignSlot, DeliveryInv, Typed
  <2>3. QED
    BY <2>1, <2>2
<1>3. Typed' /\ MovesFrom' /\ Arrived'
  BY <1>1, <1>2, SameMoves, SameContent DEF DeliveryInv, Typed
<1>4. Counted' /\ MovesCounted'
  <2>1. pc' = "rest" \/ (pc' = "moves" /\ k' = 1)
    BY DEF ArgsEnd, AssignSlot, Prologue
  <2>2. pc' # "args" /\ pc' # "done" /\ (pc' = "moves" => k' > 0)
    BY <2>1
  <2>3. QED
    BY <2>2 DEF Counted, MovesCounted
<1>5. \A i : Arrive(i)' = Arrive(i)
  BY <1>1 DEF Arrive, Info
<1>6. ASSUME NEW i \in RegisterArgs(block)
      PROVE  /\ block.ins[i] \in Vars /\ i \in Nat /\ Arrive(i) # NoLocation
             /\ Info(block.ins[i]).size > 0 /\ Info(block.ins[i]).heat > 0
  <2>1. block.ins[i] \in Vars /\ i \in Nat /\ i \in 1..Len(block.ins)
    BY ArriveRegister
  <2>2. Arrive(i) # NoLocation
    BY ArriveType DEF NoLocation
  <2>3. Info(block.ins[i]).size \in 1..64 /\ Info(block.ins[i]).heat > 0
    BY <2>1 DEF IInv, Types, WellFormed, Info
  <2>4. Info(block.ins[i]).size > 0
    BY <2>3
  <2>5. QED
    BY <2>1, <2>2, <2>3, <2>4
<1>7. CASE ArgsEnd
  <2>1. pc = "args" /\ pc' = "rest" /\ k > Len(block.ins) /\ k' = 1 /\ loc' = loc
    BY <1>7 DEF ArgsEnd
  <2>2. OwnRegister' /\ Shaped'
    BY <1>1, <2>1, SameLocations
  <2>3. \A i \in RegisterArgs(block) : Passed(i)
    <3>1. Len(block.ins) \in Nat /\ k \in Nat
      BY LenProperties DEF IInv, Types, BlockType
    <3>2. QED
      BY <2>1, <3>1, ArriveRegister DEF Passed
  <2>4. Settled'
    BY <1>1, <1>5, <2>1, <2>3 DEF DeliveryInv, Settled
  <2>5. Located'
    <3>1. \A w \in Vars : ~(w < 1)
      BY X86AllocAssumption DEF Vars
    <3>2. QED
      BY <1>1, <1>6, <2>1, <3>1 DEF Located
  <2>6. Delivered'
    BY <1>1, <2>1 DEF Delivered
  <2>7. QED
    BY <1>3, <1>4, <2>2, <2>4, <2>5, <2>6 DEF DeliveryInv
<1>8. CASE AssignSlot
  <2>1. pc = "rest" /\ pc' = "rest" /\ k' = k + 1 /\ k \in Vars
    <3>1. k # 0 /\ k \in Nat /\ k <= NumVars
      BY <1>8 DEF AssignSlot, IInv, Counters, Types
    <3>2. QED
      BY <1>8, <3>1, X86AllocAssumption DEF AssignSlot, Vars
  <2>2. \/ /\ NeedsSlot(k)
           /\ loc' = [loc EXCEPT ![k] = Slot(stackOff, Info(k).size)]
        \/ ~NeedsSlot(k) /\ loc' = loc
    BY <1>8 DEF AssignSlot
  <2>3. /\ \A w \in Vars : loc[w] # NoLocation => loc'[w] = loc[w]
        /\ NeedsSlot(k) => loc'[k] # NoLocation
    BY <2>1, <2>2 DEF NeedsSlot, IInv, Types, Slot, NoLocation
  <2>4. OwnRegister' /\ Shaped'
    <3>1. CASE NeedsSlot(k)
      <4> PICK size \in Nat : size = Info(k).size /\ size > 0
        BY <2>1, <3>1, InfoTypes DEF NeedsSlot
      <4> DEFINE l == Slot(stackOff, size)
      <4>1. l \in Location /\ l.reg = "stack" /\ l.size > 0
        BY DEF Slot, Location, IInv, Types
      <4>2. loc' = [loc EXCEPT ![k] = l]
        BY <2>2, <3>1
      <4> HIDE DEF l
      <4>3. \A i \in RegisterArgs(block) : l.reg # Arrive(i).reg
        BY <4>1, ArriveType
      <4>4. QED
        BY <1>1, <2>1, <4>1, <4>2, <4>3, NewLocation
    <3>2. CASE ~NeedsSlot(k)
      BY <1>1, <2>2, <3>2, SameLocations
    <3>3. QED
      BY <3>1, <3>2
  <2>5. Settled'
    <3>1. \A i \in RegisterArgs(block) : loc[block.ins[i]] = Arrive(i) => loc'[block.ins[i]] = Arrive(i)
      BY <1>6, <2>3
    <3>2. \A i \in RegisterArgs(block) : Passed(i)
      BY <2>1 DEF Passed
    <3>3. QED
      BY <1>1, <1>5, <3>1, <3>2 DEF DeliveryInv, Settled
  <2>6. Located'
    <3> SUFFICES ASSUME NEW i \in RegisterArgs(block), block.ins[i] < k + 1
                 PROVE  loc'[block.ins[i]] # NoLocation
      BY <1>1, <2>1 DEF Located
    <3>1. CASE block.ins[i] = k
      BY <1>6, <2>1, <2>3, <3>1 DEF NeedsSlot
    <3>2. CASE block.ins[i] # k
      <4>1. block.ins[i] < k
        BY <1>6, <2>1, <3>2, X86AllocAssumption DEF Vars
      <4>2. QED
        BY <1>6, <2>1, <2>3, <4>1 DEF DeliveryInv, Located
    <3>3. QED
      BY <3>1, <3>2
  <2>7. Delivered'
    BY <2>1 DEF Delivered
  <2>8. QED
    BY <1>3, <1>4, <2>4, <2>5, <2>6, <2>7 DEF DeliveryInv
<1>9. CASE Prologue
  <2>1. pc = "rest" /\ pc' = "moves" /\ k > NumVars /\ k' = 1 /\ loc' = loc
    BY <1>9 DEF Prologue
  <2>2. OwnRegister' /\ Shaped'
    BY <1>1, <2>1, SameLocations
  <2>3. Settled'
    BY <1>1, <1>5, <2>1 DEF DeliveryInv, Settled, Passed
  <2>4. Located'
    <3>1. \A w \in Vars : w < k
      BY <2>1, X86AllocAssumption DEF Vars, IInv, Types
    <3>2. QED
      BY <1>1, <1>6, <2>1, <3>1 DEF DeliveryInv, Located
  <2>5. Delivered'
    BY <1>1, <2>1 DEF Delivered
  <2>6. QED
    BY <1>3, <1>4, <2>2, <2>3, <2>4, <2>5 DEF DeliveryInv
<1>10. QED
  BY <1>7, <1>8, <1>9

\* What a copy does to what locations hold.
LEMMA CopiedHolds ==
  ASSUME NEW c \in SUBSET (Location \X Vars), NEW from \in Location, NEW to \in Location
  PROVE  /\ Copied(c, from, to) \in SUBSET (Location \X Vars)
         /\ \A u \in Vars : <<to, u>> \in Copied(c, from, to) <=> <<from, u>> \in c
         /\ \A l \in Location, u \in Vars :
              l # to => (<<l, u>> \in Copied(c, from, to) <=> <<l, u>> \in c)
<1>1. ASSUME NEW p \in c
      PROVE  p[1] \in Location /\ p[2] \in Vars /\ p = <<p[1], p[2]>>
  OBVIOUS
<1>2. Copied(c, from, to) \in SUBSET (Location \X Vars)
  BY <1>1 DEF Copied
<1>3. ASSUME NEW u \in Vars
      PROVE  <<to, u>> \in Copied(c, from, to) <=> <<from, u>> \in c
  <2>1. ASSUME <<from, u>> \in c PROVE <<to, u>> \in Copied(c, from, to)
    BY <2>1 DEF Copied
  <2>2. ASSUME <<to, u>> \in Copied(c, from, to) PROVE <<from, u>> \in c
    <3>1. PICK q \in c : q[1] = from /\ <<to, u>> = <<to, q[2]>>
      BY <2>2 DEF Copied
    <3>2. q = <<from, u>>
      BY <1>1, <3>1
    <3>3. QED
      BY <3>2
  <2>3. QED
    BY <2>1, <2>2
<1>4. ASSUME NEW l \in Location, NEW u \in Vars, l # to
      PROVE  <<l, u>> \in Copied(c, from, to) <=> <<l, u>> \in c
  BY <1>4 DEF Copied
<1>5. QED
  BY <1>2, <1>3, <1>4

\* Two variables that have a location have different ones.
LEMMA HomesDiffer ==
  ASSUME IInv, SlotInv, DeliveryInv, NEW v \in Vars, NEW w \in Vars, v # w,
         loc[v] # NoLocation
  PROVE  loc[w] # loc[v]
<1>1. loc[v] \in Location /\ loc[w] \in Location
  BY DEF IInv, Types
<1>2. CASE loc[v].reg \in Regs
  BY <1>2 DEF IInv, RegistersUnshared, Allocated
<1>3. CASE loc[v].reg = "none"
  BY <1>3 DEF DeliveryInv, Shaped
<1>4. CASE loc[v].reg = "stack"
  <2>1. ASSUME loc[w] = loc[v] PROVE FALSE
    <3>1. loc[v].off + loc[v].size <= loc[v].off
      BY <1>4, <2>1 DEF SlotInv, SlotsDisjoint
    <3>2. loc[v].off \in Nat /\ loc[v].size \in Nat
      BY <1>1 DEF Location
    <3>3. loc[v].size > 0
      BY <1>4 DEF DeliveryInv, Shaped
    <3>4. QED
      BY <3>1, <3>2, <3>3
  <2>2. QED
    BY <2>1
<1>5. QED
  BY <1>1, <1>2, <1>3, <1>4 DEF Location

\* What a move does: its target holds what its source held, and other homes
\* and the places of arrival hold what they did, the scratch register aside.
LEMMA MoveHolds ==
  ASSUME IInv, DeliveryInv, MoveArg
  PROVE  LET from == toMove[k].from
             to == loc[toMove[k].var] IN
         /\ toMove[k].var \in Vars
         /\ content' \in SUBSET (Location \X Vars)
         /\ \A u \in Vars : <<to, u>> \in content' <=> <<from, u>> \in content
         /\ \A l \in Location, u \in Vars :
              l # to /\ l # InReg(Scratch) => (<<l, u>> \in content' <=> <<l, u>> \in content)
<1>1. k \in 1..Len(toMove)
  <2>1. k \in Nat /\ k # 0 /\ Len(toMove) \in Nat /\ k <= Len(toMove)
    BY DEF MoveArg, IInv, Types, DeliveryInv, Typed, MovesCounted
  <2>2. QED
    BY <2>1
<1>2. toMove[k] \in [var : Vars, from : Location]
  BY <1>1, ElementOfSeq DEF DeliveryInv, Typed
<1> PICK from \in Location : from = toMove[k].from
  BY <1>2
<1> PICK to \in Location : to = loc[toMove[k].var]
  BY <1>2 DEF IInv, Types
<1> DEFINE s == InReg(Scratch)
<1>3. s \in Location
  BY FixedRegs, InRegIsLocation DEF Scratch
<1>4. content \in SUBSET (Location \X Vars)
  BY DEF DeliveryInv, Typed
<1>5. \/ content' = Copied(Copied(content, from, s), s, to)
      \/ content' = Copied(content, from, to)
  BY DEF MoveArg
<1> HIDE DEF s
<1>6. CASE content' = Copied(content, from, to)
  BY <1>2, <1>4, <1>6, CopiedHolds DEF s
<1>7. CASE content' = Copied(Copied(content, from, s), s, to)
  <2> DEFINE mid == Copied(content, from, s)
  <2>1. /\ mid \in SUBSET (Location \X Vars)
        /\ \A u \in Vars : <<s, u>> \in mid <=> <<from, u>> \in content
        /\ \A l \in Location, u \in Vars : l # s => (<<l, u>> \in mid <=> <<l, u>> \in content)
    BY <1>3, <1>4, CopiedHolds
  <2>2. content' = Copied(mid, s, to)
    BY <1>7
  <2> HIDE DEF mid
  <2>3. /\ content' \in SUBSET (Location \X Vars)
        /\ \A u \in Vars : <<to, u>> \in content' <=> <<s, u>> \in mid
        /\ \A l \in Location, u \in Vars : l # to => (<<l, u>> \in content' <=> <<l, u>> \in mid)
    BY <1>3, <2>1, <2>2, CopiedHolds
  <2>4. QED
    BY <1>2, <2>1, <2>3 DEF s
<1>8. QED
  BY <1>5, <1>6, <1>7

LEMMA DeliveryMove == IInv /\ SlotInv /\ ScratchFree /\ DeliveryInv /\ MoveArg => DeliveryInv'
<1> SUFFICES ASSUME IInv, SlotInv, ScratchFree, DeliveryInv, MoveArg PROVE DeliveryInv'
  OBVIOUS
<1>1. /\ pc = "moves" /\ pc' = "moves" /\ k' = k + 1 /\ k \in Nat /\ k <= Len(toMove)
      /\ UNCHANGED <<block, calledXmm, loc, toMove, entered, below>>
  BY DEF MoveArg, IInv, Types
<1>2. k \in 1..Len(toMove)
  BY <1>1 DEF DeliveryInv, MovesCounted
<1> DEFINE from == toMove[k].from
           w == toMove[k].var
           to == loc[w]
           s == InReg(Scratch)
<1>3. /\ w \in Vars
      /\ content' \in SUBSET (Location \X Vars)
      /\ \A u \in Vars : <<to, u>> \in content' <=> <<from, u>> \in content
      /\ \A l \in Location, u \in Vars :
           l # to /\ l # s => (<<l, u>> \in content' <=> <<l, u>> \in content)
  BY MoveHolds
<1>4. Typed' /\ MovesCounted'
  BY <1>1, <1>2, <1>3 DEF DeliveryInv, Typed, MovesCounted
<1>5. OwnRegister' /\ Shaped' /\ MovesFrom'
  BY <1>1, SameLocations, SameMoves
<1>6. \A i : Arrive(i)' = Arrive(i)
  BY <1>1 DEF Arrive, Info
<1>7. Counted' /\ Settled' /\ Located'
  BY <1>1, <1>6 DEF DeliveryInv, Counted, Settled, Passed, Located
<1>8. \A i \in RegisterArgs(block) :
        /\ block.ins[i] \in Vars /\ Arrive(i) \in Location /\ Arrive(i).reg \in Regs
        /\ Arrive(i) # s /\ loc[block.ins[i]] \in Location
        /\ loc[block.ins[i]] # NoLocation /\ loc[block.ins[i]] # s
  <2> SUFFICES ASSUME NEW i \in RegisterArgs(block)
               PROVE  /\ block.ins[i] \in Vars /\ Arrive(i) \in Location /\ Arrive(i).reg \in Regs
                      /\ Arrive(i) # s /\ loc[block.ins[i]] \in Location
                      /\ loc[block.ins[i]] # NoLocation /\ loc[block.ins[i]] # s
    OBVIOUS
  <2>1. block.ins[i] \in Vars /\ Arrive(i) \in Location /\ Arrive(i).reg \in Regs \ Fixed
    BY ArriveRegister, ArriveType
  <2>2. s.reg = Scratch /\ Scratch \in Fixed
    BY DEF InReg, Scratch, Fixed
  <2>3. loc[block.ins[i]] \in Location /\ loc[block.ins[i]] # s
    BY <2>1, <2>2 DEF ScratchFree, IInv, Types
  <2>4. loc[block.ins[i]] # NoLocation
    BY <1>1 DEF DeliveryInv, Located
  <2>5. QED
    BY <2>1, <2>2, <2>3, <2>4
<1> HIDE DEF s, from, w
<1>9. ASSUME NEW i \in RegisterArgs(block)
      PROVE  HoldsOnly(Arrive(i), block.ins[i])'
  <2>1. HoldsOnly(Arrive(i), block.ins[i])
    BY DEF DeliveryInv, Arrived
  <2>2. \A u \in Vars : <<Arrive(i), u>> \in content' <=> <<Arrive(i), u>> \in content
    <3>1. CASE to # Arrive(i)
      BY <1>3, <1>8, <3>1
    <3>2. CASE to = Arrive(i)
      <4>1. w = block.ins[i]
        BY <1>3, <3>2 DEF DeliveryInv, OwnRegister
      <4>2. from = Arrive(i)
        BY <1>2, <4>1 DEF DeliveryInv, MovesFrom, from, w
      <4>3. QED
        BY <1>3, <3>2, <4>2
    <3>3. QED
      BY <3>1, <3>2
  <2>3. QED
    BY <1>1, <1>6, <2>1, <2>2 DEF HoldsOnly
<1>10. Arrived'
  BY <1>1, <1>9 DEF Arrived
<1>11. ASSUME NEW m \in 1..Len(toMove), NEW i \in RegisterArgs(block), m < k + 1,
              toMove[m].var = block.ins[i]
       PROVE  HoldsOnly(loc[block.ins[i]], block.ins[i])'
  <2> DEFINE v == block.ins[i]
  <2>1. CASE w = v
    <3>1. from = Arrive(i)
      BY <1>2, <2>1 DEF DeliveryInv, MovesFrom, from, w
    <3>2. HoldsOnly(Arrive(i), v)
      BY DEF DeliveryInv, Arrived
    <3>3. \A u \in Vars : <<loc[v], u>> \in content' <=> <<Arrive(i), u>> \in content
      BY <1>3, <2>1, <3>1
    <3>4. QED
      BY <1>1, <3>2, <3>3 DEF HoldsOnly
  <2>2. CASE w # v
    <3>1. m < k
      BY <1>1, <1>11, <2>2 DEF w
    <3>2. HoldsOnly(loc[v], v)
      BY <1>1, <1>11, <3>1 DEF DeliveryInv, Delivered
    <3>3. to # loc[v]
      BY <1>3, <1>8, <2>2, HomesDiffer
    <3>4. \A u \in Vars : <<loc[v], u>> \in content' <=> <<loc[v], u>> \in content
      BY <1>3, <1>8, <3>3
    <3>5. QED
      BY <1>1, <3>2, <3>4 DEF HoldsOnly
  <2>3. QED
    BY <2>1, <2>2
<1>12. Delivered'
  BY <1>1, <1>11 DEF Delivered
<1>13. QED
  BY <1>4, <1>5, <1>7, <1>10, <1>12 DEF DeliveryInv

LEMMA DeliveryEnd == IInv /\ DeliveryInv /\ (MovesEnd \/ UNCHANGED vars) => DeliveryInv'
<1> SUFFICES ASSUME IInv, DeliveryInv, MovesEnd \/ UNCHANGED vars PROVE DeliveryInv'
  OBVIOUS
<1>1. /\ UNCHANGED <<block, k, calledInt, calledXmm, hot, loc, idI, idF, stackOff, toMove,
                     entered, below, content>>
      /\ pc' = pc \/ (pc = "moves" /\ pc' = "done" /\ k > Len(toMove))
  BY DEF MovesEnd, vars
<1>2. \A i : Arrive(i)' = Arrive(i)
  BY <1>1 DEF Arrive, Info
<1>3. Typed' /\ MovesCounted'
  BY <1>1 DEF DeliveryInv, Typed, MovesCounted
<1>4. Counted'
  BY <1>1 DEF DeliveryInv, Counted, Earlier
<1>5. Settled' /\ Located'
  BY <1>1, <1>2 DEF DeliveryInv, Settled, Passed, Located
<1>6. Delivered'
  BY <1>1, <1>2 DEF DeliveryInv, Delivered, HoldsOnly
<1>7. QED
  BY <1>1, <1>3, <1>4, <1>5, <1>6, SameLocations, SameMoves, SameContent DEF DeliveryInv

LEMMA DeliveryInvariant == Spec => []DeliveryInv
<1>1. IInv /\ SlotInv /\ DeliveryInv /\ [Next]_vars => DeliveryInv'
  BY DeliveryScan, DeliveryHot, DeliveryRet, DeliveryArgs, DeliveryRest, DeliveryMove, DeliveryEnd,
     ScratchKept DEF Next
<1>2. QED
  BY DeliveryInit, <1>1, InductiveInvariant, SlotInvariant, PTL DEF Spec

(***************************************************************************)
(* The theorems.                                                            *)
(***************************************************************************)

\* Every argument that arrives in a register is where its variable lives when
\* the body of the function starts, and alone there, in whatever order the
\* prologue's moves are done and whatever got registers before.
THEOREM ArgumentsArrive == Spec => []ArgumentsDelivered
<1>1. IInv /\ DeliveryInv => ArgumentsDelivered
  <2> SUFFICES ASSUME IInv, DeliveryInv, pc = "done", NEW i \in RegisterArgs(block)
               PROVE  HoldsOnly(loc[block.ins[i]], block.ins[i])
    BY DEF ArgumentsDelivered, HoldsOnly
  <2>1. CASE loc[block.ins[i]] = Arrive(i)
    BY <2>1 DEF DeliveryInv, Arrived
  <2>2. CASE \E m \in 1..Len(toMove) : toMove[m].var = block.ins[i]
    <3>1. PICK m \in 1..Len(toMove) : toMove[m].var = block.ins[i]
      BY <2>2
    <3>2. m < k
      <4>1. k > Len(toMove) /\ k \in Nat /\ Len(toMove) \in Nat
        BY DEF DeliveryInv, MovesCounted, Typed, IInv, Types
      <4>2. QED
        BY <4>1
    <3>3. QED
      BY <3>1, <3>2 DEF DeliveryInv, Delivered
  <2>3. QED
    BY <2>1, <2>2 DEF DeliveryInv, Settled, Passed
<1>2. QED
  BY <1>1, InductiveInvariant, DeliveryInvariant, PTL

\* The locals of vx_cg_x86stupid_gen keep their types.
THEOREM TypesKept == Spec => []TypeOK
<1>1. IInv /\ DeliveryInv => TypeOK
  BY DEF IInv, Types, DeliveryInv, Typed, TypeOK
<1>2. QED
  BY <1>1, InductiveInvariant, DeliveryInvariant, PTL

================================================================================
