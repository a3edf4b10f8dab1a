---------------------------- MODULE X86Conditionals ----------------------------
(***************************************************************************)
(* vx_llir_x86 (src/targets/x86/x86.c, llir_conditionals.c): comparisons    *)
(* become instructions that set the processor's flags, and conditional      *)
(* jumps and moves read the flags instead of a variable.  Between the two,   *)
(* nothing may touch the flags: the pass relies on x86_affect_flags of the   *)
(* operation table for that, and on reading the block from top to bottom.    *)
(*                                                                          *)
(* RunX86 executes a block with flags, as the emitted instructions do       *)
(* (src/targets/x86/cg.c); operations not yet converted mean what ops.cdef   *)
(* says, so a block can be run between any two steps of the pass.           *)
(***************************************************************************)
EXTENDS Llir

CONSTANTS
  Programs,     \* the blocks the pass starts from
  InRegister,   \* the variables the allocator keeps in registers
  Envs,
  Steps, More   \* how many operations are executed when behaviours are
                \* compared, as in SameBehaviour

ASSUME X86ConditionalsAssumption ==
  /\ InRegister \subseteq Vars
  /\ Envs \subseteq [Vars -> Num]
  /\ Steps \subseteq Nat /\ More \subseteq Nat

VARIABLES original, prog, pass, at,
          look,     \* position of the inner loop, 0 outside of it
          cmp       \* output and condition code of the comparison at hand
vars == <<original, prog, pass, at, look, cmp>>

\* What a comparison is, by its description in the operation table.
MeansOf == [UGT |-> "a", ULT |-> "b", UGTE |-> "ae", ULTE |-> "be",
            SGT |-> "g", SLT |-> "l", SGTE |-> "ge", SLTE |-> "le",
            EQ |-> "e", NEQ |-> "ne"]
Compared == DOMAIN MeansOf \cup {"BITEXTRACT"}

\* Before the pass, nothing else is there than what ops.cdef describes, after
\* cmov_expand.
SourceOp ==
  {op \in Op : op.id = "CMOV" => op.args \in Tuples(2)}
  \cup [id : Compared, out : Vars, args : Tuples(2), label : {NoLabel}]

ASSUME ProgramsAssumption == \A p \in Programs : p \in Seq(SourceOp) /\ WellFormed(p)

CcOf_NoNeq == [id \in DOMAIN MeansOf \ {"NEQ"} |-> MeansOf[id]]
CcOf == [UGT |-> "a", ULT |-> "b", UGTE |-> "ae", ULTE |-> "be",
         SGT |-> "g", SLT |-> "l", SGTE |-> "ge", SLTE |-> "le",
         EQ |-> "e", NEQ |-> "ne", BITEXTRACT |-> "nz"]
Comparisons == DOMAIN CcOf
Conditionals == {"COND", "CMOV"}
FlagReaders == {"X86_SETCC", "X86_JMPCC", "X86_CMOV"}

\* The column x86_affect_flags of the operation table, in which UGT,
\* BITEXTRACT and IMM are missing.
AffectsFlags(op) ==
  op.id \in (Compared \ {"UGT", "BITEXTRACT"})
             \cup {"ADD", "SUB", "NOT", "X86_CMP", "X86_BITTEST"}
Cc(cc) == [kind |-> "cc", cc |-> cc]
FlagsOp_KeepsOut(op) ==
  [op EXCEPT !.id = IF @ = "BITEXTRACT" THEN "X86_BITTEST" ELSE "X86_CMP"]
FlagsOp(op) ==
  Do(IF op.id = "BITEXTRACT" THEN "X86_BITTEST" ELSE "X86_CMP", op.args)
InsertAfter(p, i, op) == SubSeq(p, 1, i) \o <<op>> \o SubSeq(p, i + 1, Len(p))

(***************************************************************************)
(* Execution.  Flags remember what set them: a comparison of two values, a  *)
(* bit test (which sets the carry flag only), or anything else.             *)
(***************************************************************************)
Signed(n) == IF 2 * n >= Modulus THEN n - Modulus ELSE n
Bit(n, i) == (n \div 2 ^ i) % 2

Compares(cc, a, b) ==
  CASE cc = "a" -> a > b   [] cc = "ae" -> a >= b
    [] cc = "b" -> a < b   [] cc = "be" -> a <= b
    [] cc = "g" -> Signed(a) > Signed(b) [] cc = "ge" -> Signed(a) >= Signed(b)
    [] cc = "l" -> Signed(a) < Signed(b) [] cc = "le" -> Signed(a) <= Signed(b)
    [] cc \in {"e"} -> a = b [] cc \in {"ne", "nz"} -> a # b

Clobbered == [by |-> "other"]
FlagsAfter(env, op) ==
  IF op.id = "X86_CMP"
  THEN [by |-> "cmp", a |-> Eval(env, op.args[1]), b |-> Eval(env, op.args[2])]
  ELSE Clobbered

Defined(flags, arg) == arg.kind = "cc" /\ flags.by = "cmp"
Holds(flags, arg) == Compares(arg.cc, flags.a, flags.b)
ToNum(b) == IF b THEN 1 ELSE 0

CompareResult(env, op) ==
  LET a == Eval(env, op.args[1])
      b == Eval(env, op.args[2]) IN
  IF op.id = "BITEXTRACT" THEN Bit(a, b) * 2 ^ b
  ELSE ToNum(Compares(MeansOf[op.id], a, b))

\* emiti_zero: a zero is moved into a register with xor.
ClobbersFlags(op) ==
  \/ op.id \in {"ADD", "SUB", "X86_BITTEST"}
  \/ op.id = "IMM" /\ op.args[1] = Imm(0) /\ op.out \in InRegister

Lost(s) == [s EXCEPT !.done = TRUE, !.trace = Append(@, -1)]

ExecX86(p, s) ==
  LET op == p[s.pc]
      next == [s EXCEPT !.pc = @ + 1,
                        !.flags = IF ClobbersFlags(op) THEN Clobbered ELSE @]
      usable == Defined(s.flags, op.args[1])
      jump == [s EXCEPT !.pc = LabelAt(p, op.label)] IN
  IF s.done THEN s ELSE
  CASE op.id \in Compared -> [next EXCEPT !.env[op.out] = CompareResult(s.env, op)]
    [] op.id \in {"X86_CMP", "X86_BITTEST"} -> [next EXCEPT !.flags = FlagsAfter(s.env, op)]
    [] op.id \in FlagReaders /\ ~usable -> Lost(s)
    [] op.id = "X86_SETCC" /\ usable ->
         [next EXCEPT !.env[op.out] = ToNum(Holds(s.flags, op.args[1]))]
    [] op.id = "X86_JMPCC" /\ usable -> IF Holds(s.flags, op.args[1]) THEN jump ELSE next
    [] op.id = "X86_CMOV" /\ usable ->
         IF Holds(s.flags, op.args[1]) THEN [next EXCEPT !.env[op.out] = Eval(s.env, op.args[2])]
                                       ELSE next
    [] OTHER -> [ExecStep(p, s) EXCEPT !.flags = next.flags]

StartX86(env) ==
  [pc |-> 1, env |-> env, trace |-> <<>>, done |-> FALSE, flags |-> Clobbered]

\* The state after n operations, and all that was seen on the way there.
RunX86(p, env, n) ==
  LET run[i \in 0..n] ==
        IF i = 0 THEN [state |-> StartX86(env), seen |-> {Seen(StartX86(env))}]
        ELSE LET before == run[i - 1]
                 s == ExecX86(p, before.state)
             IN [state |-> s, seen |-> before.seen \cup {Seen(s)}]
  IN run[n]

ObservationsX86(p, env, n) == RunX86(p, env, n).seen

(***************************************************************************)
(* The pass.                                                                *)
(***************************************************************************)
Init ==
  /\ original \in Programs
  /\ prog = original /\ pass = "fuse" /\ at = 1 /\ look = 0
  /\ cmp = [out |-> NoVar, cc |-> ""]

InPass(name) == pass = name /\ at <= Len(prog)
Walking == InPass("fuse") /\ look = 0
Looking == pass = "fuse" /\ look > 0

\* A comparison loses its output; the code after it is searched for its users.
Compare ==
  /\ Walking /\ prog[at].id \in Comparisons
  /\ cmp' = [out |-> prog[at].out, cc |-> CcOf[prog[at].id]]
  /\ prog' = ReplaceAt(prog, at, FlagsOp(prog[at]))
  /\ look' = at + 1
  /\ UNCHANGED <<original, pass, at>>

SkipOther ==
  /\ Walking /\ prog[at].id \notin Comparisons
  /\ at' = at + 1
  /\ UNCHANGED <<original, prog, pass, look, cmp>>

\* next_cond->var is compared whatever kind of value the condition is.
Fused_All(op) == [op EXCEPT !.id = IF @ = "COND" THEN "X86_JMPCC" ELSE "X86_CMOV",
                            !.args[1] = Cc(cmp.cc)]
Fused(op) == IF op.args[1].n = cmp.out THEN Fused_All(op) ELSE op

Fuse ==
  /\ Looking /\ look <= Len(prog) /\ prog[look].id \in Conditionals
  /\ prog' = ReplaceAt(prog, look, Fused(prog[look]))
  /\ look' = look + 1
  /\ UNCHANGED <<original, pass, at, cmp>>

LookOn ==
  /\ Looking /\ look <= Len(prog) /\ prog[look].id \notin Conditionals
  /\ ~AffectsFlags(prog[look])
  /\ look' = look + 1
  /\ UNCHANGED <<original, prog, pass, at, cmp>>

\* The search is over: the output is set right after the comparison.
SetCc == InsertAfter(prog, at, Assign("X86_SETCC", cmp.out, <<Cc(cmp.cc)>>))

StopLooking ==
  /\ Looking
  /\ look <= Len(prog) => prog[look].id \notin Conditionals /\ AffectsFlags(prog[look])
  /\ prog' = SetCc
  /\ look' = 0 /\ at' = at + 1
  /\ UNCHANGED <<original, pass, cmp>>

\* A conditional whose comparison was not found tests its variable.  The new
\* condition is added behind the old one, which stays the first.
TestVar ==
  /\ InPass("rest") /\ prog[at].id \in Conditionals
  /\ LET op == prog[at]
         tested == [op EXCEPT !.id = IF @ = "COND" THEN "X86_JMPCC" ELSE "X86_CMOV",
                              !.args = Append(@, Cc("ne"))]
     IN prog' = InsertAfter(ReplaceAt(prog, at, tested), at - 1,
                            Do("X86_CMP", <<op.args[1], Imm(0)>>))
  /\ at' = at + 2
  /\ UNCHANGED <<original, pass, look, cmp>>

KeepOther ==
  /\ InPass("rest") /\ prog[at].id \notin Conditionals
  /\ at' = at + 1
  /\ UNCHANGED <<original, prog, pass, look, cmp>>

\* vx_opt_vars: outputs nobody reads any more are not computed.
UnusedX86(op) ==
  /\ op.id \in {"X86_SETCC", "X86_CMOV", "ADD", "SUB", "NOT", "IMM"}
  /\ ~VarUsed(prog, op.out) \/ (op.id = "IMM" /\ op.args[1] = Var(op.out))

RemoveOne ==
  /\ InPass("unused")
  /\ IF UnusedX86(prog[at])
     THEN prog' = RemoveAt(prog, at) /\ at' = at
     ELSE prog' = prog /\ at' = at + 1
  /\ UNCHANGED <<original, pass, look, cmp>>

NextPass ==
  /\ pass # "done" /\ at > Len(prog)
  /\ pass' = [fuse |-> "rest", rest |-> "unused", unused |-> "done"][pass]
  /\ at' = 1
  /\ UNCHANGED <<original, prog, look, cmp>>

Next == Compare \/ SkipOther \/ Fuse \/ LookOn \/ StopLooking
        \/ TestVar \/ KeepOther \/ RemoveOne \/ NextPass
Spec == Init /\ [][Next]_vars

(***************************************************************************)
(* Properties.                                                              *)
(***************************************************************************)

\* The state stays well formed: positions lie in the block or just behind it,
\* and an operation that only sets the flags or jumps has no output.
TypeOK ==
  /\ pass \in {"fuse", "rest", "unused", "done"}
  /\ at \in 1..Len(prog) + 1 /\ look \in 0..Len(prog) + 1
  /\ cmp.out \in Vars \cup {NoVar}
  /\ \A i \in DOMAIN prog :
       prog[i].id \in {"X86_CMP", "X86_BITTEST", "X86_JMPCC"} => prog[i].out = NoVar

\* The conditional at j goes by the comparison at i: between them are only
\* operations that leave the flags, and the result, and do not end the search
\* for users; and a comparison before i with the same output has ended its own.
Decides(p, i, j) ==
  /\ p[i].id \in Compared /\ p[i].out = p[j].args[1].n
  /\ \A k \in i + 1..j - 1 :
       /\ p[k].out # p[i].out
       /\ p[k].id \notin Compared \cup {"LABEL"}
       /\ ~AffectsFlags(p[k]) /\ ~ClobbersFlags(p[k])
  /\ \A h \in 1..i - 1 :
       p[h].id \in Compared /\ p[h].out = p[i].out => \E k \in h + 1..i : AffectsFlags(p[k])

\* The blocks on which the flags of every comparison are still there where its
\* result is used as a condition.
FlagsSurvive(p) ==
  /\ \A i \in DOMAIN p : p[i].id # "BITEXTRACT"
  /\ \A j \in DOMAIN p : p[j].id \in Conditionals =>
       /\ p[j].args[1].kind = "var"
       /\ \E i \in 1..j - 1 : Decides(p, i, j)

Same(p) ==
  \A env \in Envs, n \in Steps : \E m \in More :
    /\ ObservationsX86(original, env, n) \subseteq ObservationsX86(p, env, m)
    /\ ObservationsX86(p, env, n) \subseteq ObservationsX86(original, env, m)

\* Where the flags survive, the emitted instructions take the jumps, make the
\* moves and compute the results the comparisons decide, after every step of
\* the pass (llir_conditionals.c:4-86) that leaves a complete block.
ConditionsKept == look = 0 /\ FlagsSurvive(original) => Same(prog)

\* No comparison and no conditional stays behind the walks, whatever they insert
\* on their way (the assertion "forgot to run x86_llir_conditionals pass?",
\* cg.c:1309).
AllConverted ==
  \A i \in DOMAIN prog :
    /\ (pass = "fuse" => look = 0 /\ i < at) => prog[i].id \notin Compared
    /\ (pass # "fuse" /\ (pass = "rest" => i < at)) => prog[i].id \notin Conditionals

\* What ops.cdef says of comparisons and conditionals, for every block.  A
\* conditional goes by the comparison of its condition, with whatever lies
\* between (llir_conditionals.c:33-65), when no conditional is left to the end.
ConditionsDecide == pass = "rest" /\ at = 1 => Same(prog)

================================================================================
