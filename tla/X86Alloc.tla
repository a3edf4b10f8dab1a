------------------------------- MODULE X86Alloc -------------------------------
(***************************************************************************)
(* Register and stack allocation of the x86 code generator, up to the end   *)
(* of the function's prologue (src/targets/x86/cg.c:1384-1691).  It runs    *)
(* once per function, over the variables of the lowered block:              *)
(*                                                                          *)
(*   "calls"  how many argument registers do the calls of the body need?    *)
(*   "hot"    the hottest variables get the registers nobody else needs     *)
(*   "ret"    the returned variable of a leaf lives in RAX                  *)
(*   "args"   the arguments stay in their registers, or must move           *)
(*   "rest"   every other live variable gets a stack slot                   *)
(*   "moves"  the prologue moves the arguments that must                    *)
(*   "done"   the body of the function starts                               *)
(*                                                                          *)
(* A stack slot [off, size] is the bytes rbp-(off+size) up to rbp-off.      *)
(***************************************************************************)
EXTENDS Integers, Sequences, FiniteSets

CONSTANTS
  NumVars,      \* the variables of a block are 1..NumVars
  Blocks,       \* the blocks handed to the code generator
  IntArgRegs,   \* RDI, RSI, RDX, RCX, R8, R9 (cg.c:1565)
  XmmArgRegs,   \* XMM0 .. XMM7
  NoVar         \* no variable

Vars == 1..NumVars
NInt == Len(IntArgRegs)
NXmm == Len(XmmArgRegs)

Fixed == {"RAX", "R10", "R11", "RBP", "RSP"}
ArgRegs == {IntArgRegs[i] : i \in 1..NInt} \cup {XmmArgRegs[i] : i \in 1..NXmm}
Regs == Fixed \cup ArgRegs

(***************************************************************************)
(* A block, as vx_IrBlock_llir_fix_decl and vx_IrBlock_llir_varsHeat leave  *)
(* it.  size 0: the variable has no type any more.  heat 0: it is unused.   *)
(* calls counts the integer and the float parameters of each called         *)
(* function; outSize is the size of the first result, 0 when there is none; *)
(* lastRet is the variable the last RETURN returns first.                   *)
(***************************************************************************)
VarInfo == [size : Nat, float : BOOLEAN, heat : Nat, placed : BOOLEAN]
Call == [int : Nat, xmm : Nat]
BlockType == [var : [Vars -> VarInfo], ins : Seq(Vars), calls : Seq(Call),
              outSize : Nat, lastRet : Vars \cup {NoVar}, noRedzone : BOOLEAN]

WellFormed(b) ==
  /\ \A i, j \in 1..Len(b.ins) : b.ins[i] = b.ins[j] => i = j
  /\ \A i \in 1..Len(b.ins) : b.var[b.ins[i]].size \in 1..64 /\ b.var[b.ins[i]].heat > 0
  /\ b.lastRet # NoVar => b.var[b.lastRet].size > 0 /\ b.var[b.lastRet].heat > 0
  /\ \A v \in Vars : b.var[v].placed => b.var[v].size > 0 /\ b.var[v].heat > 0

ASSUME X86AllocAssumption ==
  /\ NumVars \in Nat
  /\ NoVar \notin Vars
  /\ IntArgRegs \in Seq(STRING)
  /\ XmmArgRegs \in Seq(STRING)
  /\ \A i, j \in 1..NInt : IntArgRegs[i] = IntArgRegs[j] => i = j
  /\ \A i, j \in 1..NXmm : XmmArgRegs[i] = XmmArgRegs[j] => i = j
  /\ \A i \in 1..NInt, j \in 1..NXmm : IntArgRegs[i] # XmmArgRegs[j]
  /\ ArgRegs \cap (Fixed \cup {"none", "stack"}) = {}
  /\ Blocks \subseteq BlockType
  /\ \A b \in Blocks : WellFormed(b)

VARIABLES
  block,        \* the block being compiled
  pc,           \* the stage
  k,            \* the loop counter of the stage
  calledInt,    \* anyCalledIntArgsCount
  calledXmm,    \* anyCalledXmmArgsCount
  hot,          \* varsHotFirst, from varId on
  loc,          \* varData[v].location
  idI, idF,     \* id_i and id_f: integer and float arguments seen
  stackOff,     \* bytes of stack slots given out
  toMove,       \* arguments the prologue has to move
  entered,      \* push rbp; mov rbp, rsp was emitted
  below,        \* how far rsp is below rbp
  content       \* <<location, v>>: the location holds the value of argument v

vars == <<block, pc, k, calledInt, calledXmm, hot, loc, idI, idF, stackOff,
          toMove, entered, below, content>>

Location == [reg : Regs \cup {"none", "stack"}, off : Nat, size : Nat]
NoLocation == [reg |-> "none", off |-> 0, size |-> 0]
InReg(r) == [reg |-> r, off |-> 0, size |-> 0]
Slot(off, size) == [reg |-> "stack", off |-> off, size |-> size]

Info(v) == block.var[v]

\* The i-th argument's rank among the arguments of its class, from 0, and
\* whether the calling convention passes that argument in a register.
Rank(b, i) == Cardinality({j \in 1..i-1 : b.var[b.ins[j]].float = b.var[b.ins[i]].float})
InRegister(float, rank) == rank < (IF float THEN NXmm ELSE NInt)
ArgReg(float, rank) == IF float THEN XmmArgRegs[rank + 1] ELSE IntArgRegs[rank + 1]

RegisterArgs(b) == {i \in 1..Len(b.ins) : InRegister(b.var[b.ins[i]].float, Rank(b, i))}
EntryContent(b) ==
  {<<InReg(ArgReg(b.var[b.ins[i]].float, Rank(b, i))), b.ins[i]>> : i \in RegisterArgs(b)}

Leaf == block.calls = <<>>
UseRax == Leaf /\ block.outSize \in 1..8 /\ block.lastRet # NoVar
Scratch == IF UseRax THEN "R11" ELSE "RAX"

Larger(a, b) == IF a > b THEN a ELSE b

\* widthToWidthWidth
Width(size) ==
  CASE size \in 0..2 -> size
    [] size \in 3..4 -> 4
    [] size \in 5..8 -> 8
    [] size \in 9..16 -> 16
    [] size \in 17..32 -> 32
    [] OTHER -> 64

Init ==
  /\ block \in Blocks
  /\ pc = "calls"
  /\ k = 1
  /\ calledInt = 0
  /\ calledXmm = 0
  /\ hot = {v \in Vars : Info(v).heat > 0}
  /\ loc = [v \in Vars |-> NoLocation]
  /\ idI = 0
  /\ idF = 0
  /\ stackOff = 0
  /\ toMove = <<>>
  /\ entered = FALSE
  /\ below = 0
  /\ content = EntryContent(block)

(***************************************************************************)
(* "calls": the most integer and float arguments any call needs.            *)
(***************************************************************************)
CalledInt_LastCall == block.calls[k].int
CalledInt == Larger(calledInt, block.calls[k].int)

ScanCall ==
  /\ pc = "calls"
  /\ k <= Len(block.calls)
  /\ calledInt' = CalledInt
  /\ calledXmm' = Larger(calledXmm, block.calls[k].xmm)
  /\ k' = k + 1
  /\ UNCHANGED <<block, pc, hot, loc, idI, idF, stackOff, toMove, entered, below, content>>

\* Registers are numbered in the order they are given out: 0 is R11, which is
\* left out when it is the scratch register, then the argument registers no
\* call and no argument needs, the last one first.
FirstHot_AlwaysR11 == 0
FirstHot == IF UseRax THEN 1 ELSE 0

ScanCallsEnd ==
  /\ pc = "calls"
  /\ k > Len(block.calls)
  /\ pc' = "hot"
  /\ k' = FirstHot
  /\ UNCHANGED <<block, calledInt, calledXmm, hot, loc, idI, idF, stackOff, toMove,
                 entered, below, content>>

(***************************************************************************)
(* "hot": each free register goes to the hottest variable left that fits a  *)
(* register and whose address is never taken.                               *)
(***************************************************************************)
AnyInt_CallsOnly == calledInt
AnyInt == Larger(Len(block.ins), calledInt)

LastHot == IF AnyInt < NInt THEN NInt - AnyInt ELSE 0
HotReg(j) == IF j = 0 THEN "R11" ELSE IntArgRegs[NInt + 1 - j]

Hottest(v) ==
  \A w \in hot : \/ Info(w).heat < Info(v).heat
                 \/ Info(w).heat = Info(v).heat /\ w >= v

FitsRegister(v) == Info(v).size \in 1..8 /\ ~Info(v).placed

NextHot ==
  /\ pc = "hot"
  /\ k <= LastHot
  /\ \E v \in hot :
       /\ Hottest(v)
       /\ hot' = hot \ {v}
       /\ \/ FitsRegister(v) /\ loc' = [loc EXCEPT ![v] = InReg(HotReg(k))] /\ k' = k + 1
          \/ ~FitsRegister(v) /\ UNCHANGED <<loc, k>>
  /\ UNCHANGED <<block, pc, calledInt, calledXmm, idI, idF, stackOff, toMove,
                 entered, below, content>>

HotEnd ==
  /\ pc = "hot"
  /\ k > LastHot \/ hot = {}
  /\ pc' = "ret"
  /\ UNCHANGED <<block, k, calledInt, calledXmm, hot, loc, idI, idF, stackOff, toMove,
                 entered, below, content>>

(***************************************************************************)
(* "ret": whatever it had before, the returned variable moves to RAX.       *)
(***************************************************************************)
ReturnInRax ==
  /\ pc = "ret"
  /\ loc' = IF UseRax THEN [loc EXCEPT ![block.lastRet] = InReg("RAX")] ELSE loc
  /\ pc' = "args"
  /\ k' = 1
  /\ UNCHANGED <<block, calledInt, calledXmm, hot, idI, idF, stackOff, toMove,
                 entered, below, content>>

(***************************************************************************)
(* "args": argument k arrives in a register, or in what the code takes for  *)
(* its stack slot.  It stays there unless its address is taken or a call of *)
(* the body needs the register.                                             *)
(***************************************************************************)
ArgStays(float, rank) == rank >= (IF float THEN calledXmm ELSE calledInt)

MoveLater_Overwrites(v, from) == toMove' = <<[var |-> v, from |-> from]>>
MoveLater(v, from) == toMove' = Append(toMove, [var |-> v, from |-> from])

SlotEnd_Downwards(off, size) == off - size
SlotEnd_Rewound(off, size) == off
SlotEnd(off, size) == off + size

PlacedArg(v, float, rank) ==
  /\ Info(v).placed
  /\ InRegister(float, rank)
  /\ loc' = [loc EXCEPT ![v] = Slot(stackOff, Width(Info(v).size))]
  /\ stackOff' = SlotEnd(stackOff, Width(Info(v).size))
  /\ MoveLater(v, InReg(ArgReg(float, rank)))

KeepOrMove(v, float, rank, at) ==
  \/ ArgStays(float, rank) /\ loc' = [loc EXCEPT ![v] = at] /\ UNCHANGED toMove
  \/ ~ArgStays(float, rank) /\ MoveLater(v, at) /\ UNCHANGED loc

RegisterArg(v, float, rank) ==
  /\ ~Info(v).placed
  /\ InRegister(float, rank)
  /\ KeepOrMove(v, float, rank, InReg(ArgReg(float, rank)))
  /\ UNCHANGED stackOff

StackArg(v, float, rank) ==
  /\ ~InRegister(float, rank)
  /\ KeepOrMove(v, float, rank, Slot(stackOff, Info(v).size))
  /\ stackOff' = SlotEnd(stackOff, Info(v).size)

AssignArg ==
  /\ pc = "args"
  /\ k <= Len(block.ins)
  /\ LET v == block.ins[k]
         float == Info(v).float
         rank == IF float THEN idF ELSE idI IN
     /\ \/ PlacedArg(v, float, rank)
        \/ RegisterArg(v, float, rank)
        \/ StackArg(v, float, rank)
     /\ idF' = IF float THEN idF + 1 ELSE idF
     /\ idI' = IF float THEN idI ELSE idI + 1
  /\ k' = k + 1
  /\ UNCHANGED <<block, pc, calledInt, calledXmm, hot, entered, below, content>>

ArgsEnd ==
  /\ pc = "args"
  /\ k > Len(block.ins)
  /\ pc' = "rest"
  /\ k' = 1
  /\ UNCHANGED <<block, calledInt, calledXmm, hot, loc, idI, idF, stackOff, toMove,
                 entered, below, content>>

(***************************************************************************)
(* "rest": every live variable without a location gets a stack slot.        *)
(***************************************************************************)
NeedsSlot(v) == loc[v] = NoLocation /\ Info(v).size > 0 /\ Info(v).heat > 0

AssignSlot ==
  /\ pc = "rest"
  /\ k <= NumVars
  /\ \/ /\ NeedsSlot(k)
        /\ loc' = [loc EXCEPT ![k] = Slot(stackOff, Info(k).size)]
        /\ stackOff' = SlotEnd(stackOff, Info(k).size)
     \/ ~NeedsSlot(k) /\ UNCHANGED <<loc, stackOff>>
  /\ k' = k + 1
  /\ UNCHANGED <<block, pc, calledInt, calledXmm, hot, idI, idF, toMove, entered, below,
                 content>>

(***************************************************************************)
(* The prologue.  The subtraction at line 1680 is on size_t; the assembler  *)
(* reads what it wraps to as the negative number it stands for.             *)
(***************************************************************************)
NeedProlog_NonLeafOnly == stackOff > 0 /\ ~Leaf
NeedProlog ==
  \/ stackOff > 0 /\ ~Leaf
  \/ stackOff > 128
  \/ stackOff > 0 /\ block.noRedzone

AnyPlaced == stackOff > 0 \/ \E v \in Vars : Info(v).placed

Reserved ==
  IF ~NeedProlog THEN 0
  ELSE IF Leaf /\ block.noRedzone THEN 128 - stackOff ELSE stackOff

Prologue ==
  /\ pc = "rest"
  /\ k > NumVars
  /\ entered' = (AnyPlaced \/ NeedProlog)
  /\ below' = Reserved
  /\ pc' = "moves"
  /\ k' = 1
  /\ UNCHANGED <<block, calledInt, calledXmm, hot, loc, idI, idF, stackOff, toMove, content>>

(***************************************************************************)
(* "moves": one move after the other; memory to memory goes through the     *)
(* scratch register.                                                        *)
(***************************************************************************)
Copied(c, from, to) == {p \in c : p[1] # to} \cup {<<to, p[2]>> : p \in {q \in c : q[1] = from}}

MoveArg ==
  /\ pc = "moves"
  /\ k <= Len(toMove)
  /\ LET from == toMove[k].from
         to == loc[toMove[k].var] IN
     content' = IF from.reg = "stack" /\ to.reg = "stack" /\ from # to
                THEN Copied(Copied(content, from, InReg(Scratch)), InReg(Scratch), to)
                ELSE Copied(content, from, to)
  /\ k' = k + 1
  /\ UNCHANGED <<block, pc, calledInt, calledXmm, hot, loc, idI, idF, stackOff, toMove,
                 entered, below>>

MovesEnd ==
  /\ pc = "moves"
  /\ k > Len(toMove)
  /\ pc' = "done"
  /\ UNCHANGED <<block, k, calledInt, calledXmm, hot, loc, idI, idF, stackOff, toMove,
                 entered, below, content>>

Next ==
  \/ ScanCall \/ ScanCallsEnd
  \/ NextHot \/ HotEnd
  \/ ReturnInRax
  \/ AssignArg \/ ArgsEnd
  \/ AssignSlot \/ Prologue
  \/ MoveArg \/ MovesEnd

Spec == Init /\ [][Next]_vars

--------------------------------------------------------------------------------
(***************************************************************************)
(* Properties.                                                              *)
(***************************************************************************)

\* Every variable has its type (the locals of vx_cg_x86stupid_gen).
TypeOK ==
  /\ block \in BlockType /\ WellFormed(block)
  /\ pc \in {"calls", "hot", "ret", "args", "rest", "moves", "done"}
  /\ k \in Nat
  /\ calledInt \in Nat
  /\ calledXmm \in Nat
  /\ hot \subseteq Vars
  /\ loc \in [Vars -> Location]
  /\ idI \in Nat
  /\ idF \in Nat
  /\ stackOff \in Nat
  /\ toMove \in Seq([var : Vars, from : Location])
  /\ entered \in BOOLEAN
  /\ below \in Int
  /\ content \in SUBSET (Location \X Vars)

Allocated(v) == loc[v].reg \in Regs

\* No two variables live in the same register, although three loops that know
\* nothing of each other give registers out and the later ones overwrite what
\* the earlier ones did.
RegistersUnshared ==
  \A v, w \in Vars : v # w /\ Allocated(v) => loc[v].reg # loc[w].reg

\* The scratch registers every instruction may clobber, and the frame
\* registers, hold no variable: R11 and RAX swap roles with UseRax.
ScratchFree ==
  \A v \in Vars : loc[v].reg \notin {Scratch, "R10", "RBP", "RSP"}

\* Stack slots never overlap, those of arguments and of other variables
\* together.
SlotsDisjoint ==
  \A v, w \in Vars :
    v # w /\ loc[v].reg = "stack" /\ loc[w].reg = "stack"
      => \/ loc[v].off + loc[v].size <= loc[w].off
         \/ loc[w].off + loc[w].size <= loc[v].off

\* Loading the arguments of a call (cg.c:700-720, one move after the other
\* into the first registers) overwrites no variable: no variable lives in an
\* argument register of a call.  For calls without float parameters.
CallRegistersFree ==
  pc \in {"rest", "moves", "done"} =>
    \A c \in 1..Len(block.calls) :
      block.calls[c].xmm = 0 =>
        \A v \in Vars, i \in 1..NInt :
          i <= block.calls[c].int => loc[v].reg # IntArgRegs[i]

\* When the body starts, every argument passed in a register is where its
\* variable is: no register was handed to another variable before its argument
\* moved out, and the moves, done in order, overwrite no argument still to move.
ArgumentsDelivered ==
  pc = "done" =>
    \A i \in RegisterArgs(block) :
      LET v == block.ins[i] IN {u \in Vars : <<loc[v], u>> \in content} = {v}

\* Everything on the stack belongs to the frame: rbp is set up, and the slots
\* are above rsp or, in a leaf that may use the red zone, in the 128 bytes below it.
FrameCovered ==
  pc = "done" /\ ~block.noRedzone =>
    \A v \in Vars :
      loc[v].reg = "stack" =>
        entered /\ loc[v].off + loc[v].size <= below + (IF Leaf THEN 128 ELSE 0)

================================================================================
