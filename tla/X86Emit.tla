------------------------------- MODULE X86Emit -------------------------------
(***************************************************************************)
(* The emission of x86 instructions, one operation of the lowered block at  *)
(* a time (src/targets/x86/cg.c, emiti and what it calls).  Every variable  *)
(* has the location X86Alloc chose; two scratch registers are all there is   *)
(* to bring operands into a form the instructions take.                      *)
(*                                                                          *)
(* An operation is emitted knowing nothing of those before it.  So Next takes *)
(* any operation, emits it and runs what it emitted on the machine: the       *)
(* behaviours are the paths through all functions.  Next to the machine,      *)
(* meant holds what the operations mean.                                     *)
(***************************************************************************)
EXTENDS FiniteSets, X86Machine

CONSTANTS
  Frames,       \* locations of the variables, and the frame they are in
  Starts,       \* what registers and memory may hold, and what was compared, at the start
  Ops,          \* the operations, for each of Frames
  MaxOps        \* bound: the operations of a path

(***************************************************************************)
(* Variables.                                                               *)
(***************************************************************************)
VARIABLES
  frame,        \* [loc, placed, scratch, entered, below, leaf]: see X86Alloc
  machine,      \* [reg, mem, flags, trace]
  meant,        \* [env, heap, flags, trace, caller]: variables and cells by the meaning of the
                \* operations, and the frame of the caller
  code,         \* what was emitted for the last operation
  done,         \* operations so far
  returned      \* the function has ended

vars == <<frame, machine, meant, code, done, returned>>

Var(v) == [kind |-> "var", n |-> v]
Num(k) == [kind |-> "imm", n |-> k]
NoVal == [kind |-> "uninit", n |-> 0]
NoVar == 0

Loc(v) == IF v = NoVar THEN NoLoc ELSE frame.loc[v]
AsLoc(w, val) ==
  CASE val.kind = "var" -> frame.loc[val.n]
    [] val.kind = "imm" -> Imm(val.n, w)
    [] val.kind = "uninit" -> Invalid

(***************************************************************************)
(* Emission.  k is the number of scratch registers in use; they are given     *)
(* back in the opposite order.  What prepares an operand gives its location,  *)
(* the instructions that fill it, and the number then in use.                *)
(***************************************************************************)
Scratch_OnlyOne(k, w) == Reg(frame.scratch, w)
Scratch(k, w) ==
  IF k < 2 THEN Reg(<<frame.scratch, "R10">>[k + 1], w) ELSE NoScratch
Same(l, k) == [loc |-> l, code |-> <<>>, k |-> k]

\* The same place, whatever the width.  A missing offset is never equal to another.
RECURSIVE Equal(_, _)
Equal(a, b) ==
  a.type = b.type /\
  CASE a.type = "reg" -> a.r = b.r
    [] a.type = "mem" -> Equal(a.addr, b.addr)
    [] a.type = "imm" -> a.n = b.n
    [] a.type = "ea" -> /\ Equal(a.base, b.base) /\ Equal(a.off, b.off)
                        /\ a.mul = NoLoc /\ b.mul = NoLoc /\ a.sign = b.sign
    [] OTHER -> FALSE

Zero(dest) ==
  IF dest.type = "reg" THEN LET d == Reg(dest.r, IF dest.w = 8 THEN 4 ELSE dest.w) IN <<Ins("xor", d, d)>>
  ELSE <<Ins("mov", dest, Imm(0, dest.w))>>

RECURSIVE Move(_, _, _, _)
Lea(src, dest, k) ==
  IF dest.type # "mem" THEN <<Ins("lea", dest, src)>>
  ELSE LET s == Scratch(k, dest.w) IN <<Ins("lea", s, src)>> \o Move(s, dest, FALSE, k + 1)

Extended(src, dest, signExt) ==
  IF src.w = dest.w THEN Ins("mov", dest, src)
  ELSE IF signExt THEN Ins("movsx", dest, src)
  ELSE IF dest.w = 8 /\ src.w = 4 THEN Ins("mov", [dest EXCEPT !.w = 4], src)
  ELSE Ins("movzx", dest, src)

Move(src, dest, signExt, k) ==
  CASE src = Invalid -> <<>>
    [] src.type = "imm" /\ src.n = 0 -> Zero(dest)
    [] Equal(src, dest) -> <<>>
    [] src.type = "ea" -> Lea(src, dest, k)
    [] src.type = "mem" /\ dest.type = "mem" ->
         LET s == Scratch(k, src.w) IN Move(src, s, signExt, k + 1) \o Move(s, dest, signExt, k + 1)
    [] OTHER ->
         <<Extended([src EXCEPT !.w = IF @ > dest.w THEN dest.w ELSE @], dest, signExt)>>

AsPrimitive(l, k) ==
  IF l.type \notin {"ea", "mem"} THEN Same(l, k)
  ELSE LET s == Scratch(k, l.w) IN [loc |-> s, code |-> Move(l, s, FALSE, k + 1), k |-> k + 1]

\* A missing location stays missing.
AsPrimitiveOpt(l, k) == IF l = NoLoc THEN Same(l, k) ELSE AsPrimitive(l, k)

AsSize(w, l, k) ==
  IF l.w >= w \/ l.type # "reg" THEN Same([l EXCEPT !.w = w], k)
  ELSE LET s == Scratch(k, w) IN [loc |-> s, code |-> Move(s, l, FALSE, k + 1), k |-> k + 1]

StoreCond(dest, cc, k) ==
  IF dest.w = 1 THEN <<Ins("set", dest, cc)>>
  ELSE LET s == Scratch(k, 1) IN <<Ins("set", s, cc)>> \o Move(s, dest, FALSE, k + 1)

Cmp0(a, k) ==
  IF a.type \in {"reg", "mem"} THEN <<Ins("cmp", a, Imm(0, a.w))>>
  ELSE LET s == Scratch(k, a.w) IN Move(a, s, FALSE, k + 1) \o <<Ins("cmp", s, Imm(0, a.w))>>

RECURSIVE Cmp(_, _, _)
Cmp(a, b, k) ==
  IF a.w # b.w THEN LET s == AsSize(a.w, b, k) IN s.code \o Cmp(a, s.loc, s.k)
  ELSE IF b.type = "imm" /\ b.n = 0 THEN Cmp0(a, k)
  ELSE IF a.type = "imm"
  THEN LET s == Scratch(k, a.w) IN Move(a, s, FALSE, k + 1) \o Cmp(s, b, k + 1)
  ELSE LET p == AsPrimitive(b, k) IN Append(p.code, Ins("cmp", a, p.loc))

RECURSIVE Binary(_, _, _, _, _)
Binary(id, a, b, o, k) ==
  IF a.type = "mem" /\ b.type = "mem"
  THEN LET p == AsPrimitive(b, k) IN p.code \o Binary(id, a, p.loc, o, p.k)
  ELSE IF a.w # o.w THEN LET s == AsSize(o.w, a, k) IN s.code \o Binary(id, s.loc, b, o, s.k)
  ELSE IF b.w # o.w THEN LET s == AsSize(o.w, b, k) IN s.code \o Binary(id, a, s.loc, o, s.k)
  ELSE IF a = o THEN <<Ins(id, a, b)>>
  ELSE IF b = o
  THEN LET s == Scratch(k, o.w) IN
       Move(a, s, FALSE, k + 1) \o Binary(id, s, b, s, k + 1) \o Move(s, o, FALSE, k + 1)
  ELSE Move(a, o, FALSE, k) \o Binary(id, o, b, o, k)

Unary(id, v, o, k) ==
  IF v = o THEN <<Ins(id, v, v)>>
  ELSE IF o.type = "mem"
  THEN LET s == Scratch(k, v.w) IN
       Move(v, s, FALSE, k + 1) \o <<Ins(id, s, s)>> \o Move(s, o, FALSE, k + 1)
  ELSE Append(Move(v, o, FALSE, k), Ins(id, o, o))

\* No variable's register is marked as in use: nothing is pushed or popped.
DivMod(a, b, o, mod) ==
  Move(a, Reg("RAX", a.w), FALSE, 0)
    \o <<Ins("cqo", Reg("RDX", a.w), NoLoc), Ins("idiv", b, NoLoc)>>
    \o (IF mod THEN Move(Reg("RDX", o.w), o, FALSE, 0) ELSE <<>>)
Shift(a, b) == Append(Move(b, Reg("RCX", 1), FALSE, 0), Ins("shl", a, Reg("RCX", 1)))

(***************************************************************************)
(* emiti: the instructions of an operation [id, out, p, args], p from names   *)
(* to values.                                                               *)
(***************************************************************************)
Param(op, name, w) == IF name \in DOMAIN op.p THEN AsLoc(w, op.p[name]) ELSE NoLoc
ValWidth(val) == IF val.kind = "var" THEN frame.loc[val.n].w ELSE Pointer

EmitAccess(op, mem) ==
  LET o == Loc(op.out)
      val == op.p["val"] IN
  IF op.id \in {"LOAD", "LOAD_EA"} THEN Move(Mem(mem.loc, o.w), o, FALSE, mem.k)
  ELSE Move(AsLoc(ValWidth(val), val), Mem(mem.loc, ValWidth(val)), FALSE, mem.k)

EmitEa(op) ==
  LET o == Loc(op.out)
      w == IF op.id = "EA" THEN o.w ELSE Pointer
      base == Param(op, "addr", w)
      idx == Param(op, "idx", w)
      elsize == Param(op, "elsize", w)
      inMemory == Cardinality({i \in 1..3 : <<base, idx, elsize>>[i].type = "mem"})
      factors == Cardinality({i \in 1..2 : <<idx, elsize>>[i].type \notin {"imm", "none"}})
      b == AsPrimitiveOpt(base, 0)
      i == AsPrimitiveOpt(idx, b.k)
      e == AsPrimitiveOpt(elsize, i.k)
      ea == Ea(b.loc, 1, i.loc, e.loc, Pointer)
      product == Scratch(0, w) IN
  IF op.id # "EA"
  THEN b.code \o i.code \o e.code \o EmitAccess(op, [loc |-> ea, k |-> e.k])
  ELSE IF inMemory < 2 /\ factors < 2
  THEN b.code \o i.code \o e.code \o Move(ea, o, FALSE, e.k)
  ELSE IF elsize = NoLoc THEN Binary("add", base, idx, o, 0)
  ELSE Binary("imul", idx, elsize, product, 1) \o Binary("add", base, product, o, 1)

X86Name == [ADD |-> "add", SUB |-> "sub", MUL |-> "imul", AND |-> "and"]

\* An addition to a register that must be kept is a lea.
EmitBinary_LeaOfDifference(op) ==
  LET o == Loc(op.out)
      a == AsLoc(o.w, op.p["a"])
      b == AsLoc(o.w, op.p["b"]) IN
  IF op.id \in {"ADD", "SUB"} /\ ~Equal(o, a) /\ a.type = "reg"
  THEN Move(Ea(a, IF op.id = "ADD" THEN 1 ELSE -1, b, NoLoc, o.w), o, FALSE, 0)
  ELSE Binary(X86Name[op.id], a, b, o, 0)
EmitBinary(op) ==
  LET o == Loc(op.out)
      a == AsLoc(o.w, op.p["a"])
      b == AsLoc(o.w, op.p["b"]) IN
  IF /\ op.id \in {"ADD", "SUB"} /\ ~Equal(o, a) /\ a.type = "reg"
     /\ op.id = "SUB" => b.type # "reg"
  THEN Move(Ea(a, IF op.id = "ADD" THEN 1 ELSE -1, b, NoLoc, o.w), o, FALSE, 0)
  ELSE Binary(X86Name[op.id], a, b, o, 0)

\* Arguments are of the width of a pointer.
EmitCallArgLoad(op) ==
  FoldLeft(LAMBDA acc, i : acc \o Move(AsLoc(Pointer, op.args[i]), Reg(ArgRegs[i], Pointer), FALSE, 0),
           <<>>, [i \in DOMAIN op.args |-> i])
EmitJump(id, op) ==
  LET p == AsPrimitive(AsLoc(Pointer, op.p["addr"]), 0) IN
  Append(p.code, Ins(id, p.loc, Len(op.args)))
EmitCallRetStore(op) ==
  IF op.out = NoVar THEN <<>> ELSE Move(Reg("RAX", Loc(op.out).w), Loc(op.out), FALSE, 0)

Enter == <<Ins("push", RBP, NoLoc), Ins("mov", RBP, RSP)>>
EmitLeave == <<Ins("pop", RBP, NoLoc)>>
EmitRet(op) ==
  FoldLeft(LAMBDA acc, i : LET src == frame.loc[op.args[i].n] IN
                           acc \o Move(src, Reg(<<"RAX", "RDX">>[i], src.w), FALSE, 0),
           <<>>, [i \in DOMAIN op.args |-> i])
    \o (IF frame.entered THEN EmitLeave ELSE <<>>)
    \o <<Ins("ret", NoLoc, [i \in DOMAIN op.args |-> frame.loc[op.args[i].n].w])>>

Emit(op) ==
  LET o == Loc(op.out) IN
  CASE op.id \in {"IMM", "BITCAST", "ZEROEXT"} -> Move(AsLoc(o.w, op.p["val"]), o, FALSE, 0)
    [] op.id = "SIGNEXT" -> Move(AsLoc(o.w, op.p["val"]), o, TRUE, 0)
    [] op.id \in {"LOAD", "STORE"} ->
         LET addr == AsPrimitive(AsLoc(Pointer, op.p["addr"]), 0) IN
         addr.code \o EmitAccess(op, addr)
    [] op.id = "PLACE" -> Move(frame.loc[op.p["var"].n].addr, o, FALSE, 0)
    [] op.id \in {"EA", "LOAD_EA", "STORE_EA"} -> EmitEa(op)
    [] op.id \in DOMAIN X86Name -> EmitBinary(op)
    [] op.id = "BITWISE_NOT" -> Unary("not", AsLoc(o.w, op.p["val"]), o, 0)
    [] op.id \in {"SDIV", "SMOD"} ->
         DivMod(AsLoc(o.w, op.p["a"]), AsLoc(o.w, op.p["b"]), o, op.id = "SMOD")
    [] op.id = "SHL" -> Shift(AsLoc(o.w, op.p["a"]), AsLoc(o.w, op.p["b"]))
    [] op.id = "X86_CMP" -> Cmp(AsLoc(Pointer, op.p["a"]), AsLoc(Pointer, op.p["b"]), 0)
    [] op.id = "X86_SETCC" -> StoreCond(o, op.p["cond"], 0)
    [] op.id = "X86_JMPCC" -> <<Ins("j", NoLoc, op.p["cond"])>>
    [] op.id = "CALL" -> EmitCallArgLoad(op) \o EmitJump("call", op) \o EmitCallRetStore(op)
    [] op.id = "TAILCALL" -> EmitCallArgLoad(op) \o EmitJump("jmp", op)
    [] op.id = "RETURN" -> EmitRet(op)

(***************************************************************************)
(* What the operations mean.                                                *)
(***************************************************************************)
Env(val, w) == (IF val.kind = "var" THEN meant.env[val.n] ELSE val.n) % Words[w]
VarWidth(v) == frame.loc[v].w
Cell(v) == Value(machine, frame.loc[v].addr)
At(addr) == {v \in frame.placed : Cell(v) = addr}

Address(op) ==
  LET has(name) == name \in DOMAIN op.p IN
  (Env(op.p["addr"], Pointer)
    + (IF ~has("idx") THEN 0
       ELSE Env(op.p["idx"], Pointer) * (IF has("elsize") THEN op.p["elsize"].n ELSE 1))) % Words[Pointer]

Loaded(addr) == IF At(addr) = {} THEN meant.heap[addr] ELSE meant.env[CHOOSE v \in At(addr) : TRUE]
Stored(addr, x, w) ==
  IF At(addr) = {} THEN [meant EXCEPT !.heap[addr] = Overwrite(@, x, w)]
  ELSE [meant EXCEPT !.env[CHOOSE v \in At(addr) : TRUE] = x % Words[w]]

Computed(op, w) ==
  LET x(name) == Env(op.p[name], w)
      s(name) == Signed(x(name), w) IN
  CASE op.id \in {"IMM", "BITCAST", "ZEROEXT"} ->
         IF op.p["val"].kind = "uninit" THEN Value(machine, Loc(op.out)) ELSE Env(op.p["val"], w)
    [] op.id = "SIGNEXT" -> Signed(meant.env[op.p["val"].n], VarWidth(op.p["val"].n))
    [] op.id \in {"LOAD", "LOAD_EA"} -> Loaded(Address(op))
    [] op.id = "PLACE" -> Cell(op.p["var"].n)
    [] op.id = "EA" -> Address(op)
    [] op.id \in DOMAIN X86Name -> Arithmetic(X86Name[op.id], x("a"), x("b"))
    [] op.id = "BITWISE_NOT" -> -x("val") - 1
    [] op.id = "SDIV" -> Quotient(s("a"), s("b"))
    [] op.id = "SMOD" -> Remainder(s("a"), s("b"))
    [] op.id = "SHL" -> x("a") * 2^x("b")
    [] op.id = "X86_SETCC" -> Truth(Holds(op.p["cond"], meant.flags))

\* The values of variables in registers that a call may change are lost.
AfterCall(op) ==
  LET kept == {v \in DOMAIN meant.env : frame.loc[v].type = "mem"}
      env == [v \in kept |-> meant.env[v]] IN
  [Observe(meant, "call", <<Env(op.p["addr"], Pointer)>> \o [i \in DOMAIN op.args |-> Env(op.args[i], Pointer)])
     EXCEPT !.env = IF op.out = NoVar THEN env ELSE (op.out :> Result % Words[VarWidth(op.out)]) @@ env]

(***************************************************************************)
(* Which operations there are.  WellTyped is what the frontend and the passes *)
(* before guarantee.                                                         *)
(***************************************************************************)
Operands(op) == {op.p[name] : name \in DOMAIN op.p \ {"cond"}} \cup ToSet(op.args)
Reads(op) == {val.n : val \in {x \in Operands(op) : x.kind = "var"}}
Accesses == {"LOAD", "STORE", "LOAD_EA", "STORE_EA"}
Arithmetical == DOMAIN X86Name \cup {"BITWISE_NOT", "SDIV", "SMOD", "SHL"}
Tests == {"X86_SETCC", "X86_JMPCC"}
IsReg(v) == frame.loc[v].type = "reg"
InMemory(val) == val.kind = "var" /\ ~IsReg(val.n)
In(v, r) == IsReg(v) /\ frame.loc[v].r = r

AccessWidth(op) == IF op.out # NoVar THEN VarWidth(op.out) ELSE ValWidth(op.p["val"])
AddressValid(op) ==
  /\ \A v \in Reads([op EXCEPT !.p = [name \in DOMAIN @ \ {"val"} |-> @[name]]]) : VarWidth(v) = Pointer
  /\ LET addr == Address(op) IN
     addr \in Heap \/ \E v \in At(addr) : v \in DOMAIN meant.env /\ VarWidth(v) = AccessWidth(op)

Shiftable(op) == Env(op.p["b"], VarWidth(op.out)) < 2
Divisible(op) ==
  LET w == VarWidth(op.out)
      d == Signed(Env(op.p["b"], w), w) IN
  d # 0 /\ ~(d = -1 /\ 2 * Env(op.p["a"], w) = Words[w])

WellTyped(op) ==
  /\ op.out \in DOMAIN frame.loc \cup {NoVar}
  /\ Reads(op) \subseteq DOMAIN meant.env
  /\ op.id \in Arithmetical => \A v \in Reads(op) : VarWidth(v) = VarWidth(op.out)
  /\ op.id \in Accesses => AddressValid(op)
  /\ op.id = "PLACE" => op.p["var"].n \in frame.placed /\ VarWidth(op.out) = Pointer
  /\ op.id = "EA" => \A v \in Reads(op) \cup {op.out} : VarWidth(v) = Pointer
  /\ op.id \in {"IMM", "BITCAST"} => \A v \in Reads(op) : VarWidth(v) = VarWidth(op.out)
  /\ op.id \in {"ZEROEXT", "SIGNEXT"} => \A v \in Reads(op) : VarWidth(v) < VarWidth(op.out)
  /\ op.id \in {"SDIV", "SMOD"} => Divisible(op)
  /\ op.id = "SHL" => Shiftable(op)
  /\ op.id = "X86_CMP" => \A v, x \in Reads(op) : VarWidth(v) = VarWidth(x)
  /\ op.id \in Tests => meant.flags # NoFlags
  /\ op.id \in {"CALL", "TAILCALL"} =>
       /\ ~frame.leaf
       /\ \A v \in Reads(op) \cup ({op.out} \ {NoVar}) : VarWidth(v) = Pointer
  /\ op.id = "TAILCALL" => ~frame.entered

(***************************************************************************)
(* Operands the code generator has no right instructions for; each is among   *)
(* the hazards, with its line.                                              *)
(***************************************************************************)
AddSupported(op) ==                 \* lea of a word in memory, or of a byte
  LET o == Loc(op.out) IN
  op.p["a"].kind = "var" /\ IsReg(op.p["a"].n) /\ op.p["a"].n # op.out
    => ~InMemory(op.p["b"]) /\ o.w >= 4
MulSupported(op) == IsReg(op.out) /\ VarWidth(op.out) >= 4    \* imul has no other output
DivSupported(op) ==                 \* RAX and RDX are overwritten
  /\ VarWidth(op.out) >= 4
  /\ op.p["b"].kind = "var" /\ ~In(op.p["b"].n, "RAX")
  /\ \A v \in DOMAIN meant.env : v # op.out => ~In(v, "RAX") /\ ~In(v, "RDX")
  /\ op.id = "SDIV" => In(op.out, "RAX")
ShiftSupported(op) ==               \* shifted in place, and RCX is overwritten
  /\ op.p["a"] = Var(op.out)
  /\ \A v \in DOMAIN meant.env : Var(v) # op.p["b"] => ~In(v, "RCX")
EaSupported(op) ==                  \* two scratch registers
  op.id # "EA" =>
    Cardinality({name \in {"addr", "idx", "val"} \cap DOMAIN op.p : InMemory(op.p[name])})
      + (IF op.out # NoVar /\ ~IsReg(op.out) THEN 1 ELSE 0) <= 2
CmpSupported(op) ==                 \* a narrow variable compared with a number on its left
  op.p["a"].kind = "imm" => \A v \in Reads(op) : VarWidth(v) = Pointer
RetSupported(op) ==                 \* rsp is not put back; the first result overwrites RAX
  /\ frame.below = 0
  /\ Len(op.args) = 2 => ~In(op.args[2].n, "RAX")

Supported(op) ==
  CASE op.id \in {"ADD", "SUB"} -> AddSupported(op)
    [] op.id = "MUL" -> MulSupported(op)
    [] op.id \in {"SDIV", "SMOD"} -> DivSupported(op)
    [] op.id = "SHL" -> ShiftSupported(op)
    [] op.id \in {"LOAD_EA", "STORE_EA", "EA"} -> EaSupported(op)
    [] op.id \in {"ZEROEXT", "SIGNEXT"} -> IsReg(op.out)      \* movzx to memory
    [] op.id = "X86_SETCC" -> IsReg(op.out) \/ VarWidth(op.out) = 1
    [] op.id = "X86_CMP" -> CmpSupported(op)
    [] op.id = "RETURN" -> RetSupported(op)
    [] OTHER -> TRUE

(***************************************************************************)
(* The state machine.                                                       *)
(***************************************************************************)
Prologue(f) ==
  (IF f.entered THEN Enter ELSE <<>>)
    \o (IF f.below > 0 THEN <<Ins("sub", RSP, Imm(f.below, Pointer))>> ELSE <<>>)

Init ==
  /\ frame \in Frames
  /\ \E start \in Starts :
       LET m == [reg |-> start.reg, mem |-> start.mem, flags |-> start.flags, trace |-> <<>>] IN
       /\ machine = [RunAll(m, Prologue(frame)) EXCEPT !.flags = start.flags]
       /\ meant = [env |-> [v \in DOMAIN frame.loc |-> Value(machine, frame.loc[v])],
                   heap |-> [c \in Heap |-> machine.mem[c]],
                   flags |-> start.flags, trace |-> <<>>, caller |-> CallerFrame(m)]
  /\ code = <<>>
  /\ done = 0
  /\ returned = FALSE

Emitting(op) ==
  /\ WellTyped(op) /\ Supported(op)
  /\ code' = Emit(op)
  /\ machine' = RunAll(machine, Emit(op))
  /\ done' = done + 1
  /\ UNCHANGED frame

\* LOAD, STORE, PLACE and jumps leave the flags alone, and so does what they become.
KeepFlags == Accesses \cup {"PLACE"} \cup Tests
Flags(op) == IF op.id \in KeepFlags THEN meant.flags ELSE NoFlags
Assigned(v, x) == (v :> x % Words[VarWidth(v)]) @@ meant.env

EmitComputation(op) ==
  /\ op.out # NoVar /\ op.id # "CALL"
  /\ Emitting(op)
  /\ meant' = [meant EXCEPT !.env = Assigned(op.out, Computed(op, VarWidth(op.out))),
                            !.flags = Flags(op)]
  /\ UNCHANGED returned
EmitStore(op) ==
  /\ op.id \in {"STORE", "STORE_EA"}
  /\ Emitting(op)
  /\ LET w == ValWidth(op.p["val"]) IN meant' = Stored(Address(op), Env(op.p["val"], w), w)
  /\ UNCHANGED returned
EmitCmp(op) ==
  /\ op.id = "X86_CMP"
  /\ Emitting(op)
  /\ LET w == IF Reads(op) = {} THEN Pointer ELSE VarWidth(CHOOSE v \in Reads(op) : TRUE) IN
     meant' = [meant EXCEPT !.flags = Compared(Env(op.p["a"], w), Env(op.p["b"], w), w)]
  /\ UNCHANGED returned
EmitJumpCond(op) ==
  /\ op.id = "X86_JMPCC"
  /\ Emitting(op)
  /\ meant' = Observe(meant, "jump", <<Truth(Holds(op.p["cond"], meant.flags))>>)
  /\ UNCHANGED returned
EmitCall(op) ==
  /\ op.id = "CALL"
  /\ Emitting(op)
  /\ meant' = [AfterCall(op) EXCEPT !.flags = NoFlags]
  /\ UNCHANGED returned
EmitTailCall(op) ==
  /\ op.id = "TAILCALL"
  /\ Emitting(op)
  /\ meant' = Observe(meant, "tailcall",
       <<Env(op.p["addr"], Pointer)>> \o [i \in DOMAIN op.args |-> Env(op.args[i], Pointer)] \o meant.caller)
  /\ returned' = TRUE
EmitReturn(op) ==
  /\ op.id = "RETURN"
  /\ Emitting(op)
  /\ meant' = Observe(meant, "return", [i \in DOMAIN op.args |-> meant.env[op.args[i].n]] \o meant.caller)
  /\ returned' = TRUE

Following == IF returned \/ done = MaxOps THEN {} ELSE Ops[frame]

Next ==
  \E op \in Following :
    \/ EmitComputation(op) \/ EmitStore(op) \/ EmitCmp(op) \/ EmitJumpCond(op)
    \/ EmitCall(op) \/ EmitTailCall(op) \/ EmitReturn(op)

Spec == Init /\ [][Next]_vars

--------------------------------------------------------------------------------
(***************************************************************************)
(* Properties.                                                              *)
(***************************************************************************)

\* Every variable has its type.
TypeOK ==
  /\ frame \in Frames
  /\ \A r \in DOMAIN machine.reg : machine.reg[r] \in 0..Words[Pointer] - 1
  /\ \A c \in DOMAIN machine.mem : machine.mem[c] \in 0..Words[Pointer] - 1
  /\ \A v \in DOMAIN meant.env : meant.env[v] \in 0..Words[VarWidth(v)] - 1
  /\ done \in 0..MaxOps
  /\ returned \in BOOLEAN

\* Whatever the locations of the operands and of the result, the instructions of an
\* operation leave in every variable and cell of memory what the operation means:
\* no operand is overwritten before it is read, no scratch register is used for two
\* things, no other variable changes.  Calls get their arguments, jumps their
\* condition, and the caller gets the results and its frame.
BehaviourPreserved ==
  /\ ~returned => \A v \in DOMAIN meant.env : Value(machine, frame.loc[v]) = meant.env[v]
  /\ \A c \in Heap : machine.mem[c] = meant.heap[c]
  /\ meant.flags # NoFlags => machine.flags = meant.flags
  /\ machine.trace = meant.trace

\* Every instruction is one the assembler takes: never two operands in memory, none
\* in an address, and no third scratch register is asked for (cg.c:206, 1731).
Encodable == \A i \in DOMAIN code : Assembles(code[i])

================================================================================
