------------------------------ MODULE X86Machine ------------------------------
(***************************************************************************)
(* Locations of values, and what the instructions that src/targets/x86/cg.c  *)
(* writes do to registers, memory, flags and the world outside of a function. *)
(*                                                                          *)
(* Widths are in bytes; a word of width w has the values 0..Words[w]-1, an    *)
(* address stands for a memory cell that holds a word of the greatest width.  *)
(***************************************************************************)
EXTENDS Integers, SequencesExt, TLC

CONSTANTS
  Words,        \* the number of values of each width
  Heap          \* the cells that are not the function's stack

Pointer == 8                                    \* PTRSIZE
ArgRegs == <<"RDI", "RSI", "RDX", "RCX", "R8", "R9">>
CallerSaved == {"RAX", "R10", "R11"} \cup ToSet(ArgRegs)

(***************************************************************************)
(* Locations.  NoLoc is the null pointer, Invalid the location of a value    *)
(* nobody gave, NoScratch that of a third scratch register.                  *)
(***************************************************************************)
Reg(r, w) == [type |-> "reg", r |-> r, w |-> w]
Mem(addr, w) == [type |-> "mem", addr |-> addr, w |-> w]
Imm(n, w) == [type |-> "imm", n |-> n, w |-> w]
Ea(base, sign, off, mul, w) ==
  [type |-> "ea", base |-> base, sign |-> sign, off |-> off, mul |-> mul, w |-> w]
NoLoc == [type |-> "none", w |-> 0]
Invalid == [type |-> "invalid", w |-> 0]
NoScratch == [type |-> "noScratch", w |-> 0]

RBP == Reg("RBP", Pointer)
RSP == Reg("RSP", Pointer)
Slot(k, w) == Mem(Ea(RBP, -1, Imm(k, Pointer), NoLoc, w), w)

(***************************************************************************)
(* The machine.                                                             *)
(***************************************************************************)
Ins(id, dest, src) == [id |-> id, dest |-> dest, src |-> src]
Signed(x, w) == LET half == Words[w] \div 2 IN ((x + half) % Words[w]) - half
Truth(b) == IF b THEN 1 ELSE 0
Abs(x) == IF x < 0 THEN -x ELSE x
Quotient(x, d) == (IF (x < 0) = (d < 0) THEN 1 ELSE -1) * (Abs(x) \div Abs(d))
Remainder(x, d) == x - d * Quotient(x, d)
Overwrite_Whole(old, x, w) == (old - (old % Words[w])) + x
Overwrite(old, x, w) == (old - (old % Words[w])) + (x % Words[w])

RECURSIVE Value(_, _)
Value(m, l) ==
  CASE l.type = "reg" -> m.reg[l.r] % Words[l.w]
    [] l.type = "mem" -> m.mem[Value(m, l.addr)] % Words[l.w]
    [] l.type = "imm" -> l.n % Words[l.w]
    [] l.type = "ea" ->
         (Value(m, l.base)
           + (IF l.off = NoLoc THEN 0
              ELSE l.sign * Value(m, l.off) * (IF l.mul = NoLoc THEN 1 ELSE l.mul.n))) % Words[Pointer]

\* Writing 4 bytes of a register clears the others, writing 1 byte does not.
Write(m, l, n) ==
  IF l.type = "mem" THEN [m EXCEPT !.mem[Value(m, l.addr)] = Overwrite(@, n, l.w)]
  ELSE [m EXCEPT !.reg[l.r] = IF l.w = 1 THEN Overwrite(@, n, 1) ELSE n % Words[l.w]]

Arithmetic(id, x, y) ==
  CASE id = "add" -> x + y
    [] id = "sub" -> x - y
    [] id = "imul" -> x * y
    [] id = "and" -> IF x < y THEN x ELSE y     \* stands for and, or
    [] id = "shl" -> x * 2^y
Arithmetics == {"add", "sub", "imul", "and", "shl"}

NoFlags == [a |-> 0, b |-> 0, w |-> 0]          \* nothing compared
Compared(x, y, w) == [a |-> x, b |-> y, w |-> w]
Holds(cc, f) ==
  CASE cc = "e" -> f.a = f.b
    [] cc = "b" -> f.a < f.b
    [] cc = "l" -> Signed(f.a, f.w) < Signed(f.b, f.w)

Event(kind, vals) == <<kind>> \o vals
Observe(s, kind, vals) == [s EXCEPT !.trace = Append(@, Event(kind, vals))]
Push(m, n) == LET sp == m.reg["RSP"] - 1 IN [m EXCEPT !.reg["RSP"] = sp, !.mem[sp] = n]
\* The frame of the caller when its function is left: rbp, rsp, where to go on.
CallerFrame(m) == <<m.reg["RBP"], m.reg["RSP"], m.mem[m.reg["RSP"]]>>
Result == 6                                     \* what a called function returns

\* A called function leaves nothing of the registers it need not save, nor of the
\* cells below the stack pointer.
Called(m, target, n) ==
  LET seen == Observe(m, "call", <<Value(m, target)>> \o [i \in 1..n |-> m.reg[ArgRegs[i]]]) IN
  [seen EXCEPT
    !.reg = [r \in DOMAIN m.reg |-> IF r = "RAX" THEN Result
                                    ELSE IF r \in CallerSaved THEN (m.reg[r] + 7) % Words[Pointer]
                                    ELSE m.reg[r]],
    !.mem = [c \in DOMAIN m.mem |-> IF c \notin Heap /\ c < m.reg["RSP"] THEN 0 ELSE m.mem[c]]]

Run(m, i) ==
  LET x == Value(m, i.dest)
      y == Value(m, i.src) IN
  CASE i.id \in {"mov", "movzx", "lea"} -> Write(m, i.dest, y)
    [] i.id = "movsx" -> Write(m, i.dest, Signed(y, i.src.w))
    [] i.id \in Arithmetics -> [Write(m, i.dest, Arithmetic(i.id, x, y)) EXCEPT !.flags = NoFlags]
    [] i.id = "xor" -> [Write(m, i.dest, 0) EXCEPT !.flags = NoFlags]
    [] i.id = "not" -> Write(m, i.dest, -x - 1)
    [] i.id = "cmp" -> [m EXCEPT !.flags = Compared(x, y, i.dest.w)]
    [] i.id = "set" -> Write(m, i.dest, Truth(Holds(i.src, m.flags)))
    [] i.id = "j" -> Observe(m, "jump", <<Truth(Holds(i.src, m.flags))>>)
    [] i.id = "cqo" -> Write(m, i.dest, IF Signed(m.reg["RAX"], i.dest.w) < 0 THEN -1 ELSE 0)
    [] i.id = "idiv" ->
         LET w == i.dest.w
             dividend == Signed(m.reg["RDX"], w) * Words[w] + (m.reg["RAX"] % Words[w])
             d == Signed(x, w) IN
         [Write(Write(m, Reg("RAX", w), Quotient(dividend, d)), Reg("RDX", w), Remainder(dividend, d)) EXCEPT !.flags = NoFlags]
    [] i.id = "push" -> Push(m, x)
    [] i.id = "pop" -> [Write(m, i.dest, m.mem[m.reg["RSP"]]) EXCEPT !.reg["RSP"] = m.reg["RSP"] + 1]
    [] i.id = "call" -> Called(m, i.dest, i.src)
    [] i.id = "jmp" -> Observe(m, "tailcall", <<x>> \o [k \in 1..i.src |-> m.reg[ArgRegs[k]]]
                                               \o CallerFrame(m))
    [] i.id = "ret" -> 
         Observe(m, "return", [k \in DOMAIN i.src |-> m.reg[<<"RAX", "RDX">>[k]] % Words[i.src[k]]]
                                \o CallerFrame(m))
RunAll(m, code) == FoldLeft(Run, m, code)

\* What an assembler takes: one operand in memory, addresses of registers and numbers.
AddressForms(l) ==
  \/ l.type \in {"reg", "imm"} /\ l.w >= 4
  \/ /\ l.type = "ea" /\ l.base.type = "reg" /\ l.base.w >= 4
     /\ \/ l.off = NoLoc
        \/ l.off.type = "imm" /\ l.mul = NoLoc
        \/ /\ l.off.type = "reg" /\ l.sign = 1 /\ l.off.w = l.base.w
           /\ l.mul.type \in {"none", "imm"}
           /\ l.mul.type = "imm" => l.mul.n \in {1, 2, 4, 8}
Operand(l) == l.type \in {"reg", "imm"} \/ (l.type = "mem" /\ AddressForms(l.addr))
Assembles(i) ==
  LET dest == i.dest
      src == i.src IN
  CASE i.id = "lea" -> dest.type = "reg" /\ dest.w >= 4 /\ src.type = "ea" /\ AddressForms(src)
    [] i.id \in {"movzx", "movsx"} ->
         dest.type = "reg" /\ src.type \in {"reg", "mem"} /\ Operand(src) /\ src.w < dest.w
    [] i.id \in {"set", "push", "pop", "not", "idiv"} -> Operand(dest) /\ dest.type # "imm"
    [] i.id = "imul" -> dest.type = "reg" /\ dest.w >= 4 /\ Operand(src) /\ src.w = dest.w
    [] i.id \in {"call", "jmp"} -> dest.type \in {"reg", "imm"}
    [] i.id \in {"j", "ret", "cqo"} -> TRUE
    [] i.id = "shl" -> Operand(dest) /\ dest.type # "imm" /\ src = Reg("RCX", 1)
    [] OTHER -> /\ Operand(dest) /\ Operand(src) /\ dest.type # "imm"
                /\ ~(dest.type = "mem" /\ src.type = "mem") /\ dest.w = src.w

================================================================================
