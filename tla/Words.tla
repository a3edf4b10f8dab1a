-------------------------------- MODULE Words --------------------------------
(***************************************************************************)
(* The passes of vx_opt that rewrite single operations on machine words:    *)
(* constants are folded, comparisons brought into a normal form, address    *)
(* computations and bit masks recognised, equal computations joined.  They   *)
(* work with the immediates of the intermediate representation, which are    *)
(* LongBits wide (long long, ir.h) whatever the type of the operation: it    *)
(* has Width bits.                                                           *)
(*                                                                          *)
(* The block is one without nested blocks; every variable has one word.      *)
(***************************************************************************)
EXTENDS Bitwise, Integers, SequencesExt

CONSTANTS
  Width,          \* bits of a variable
  LongBits,       \* bits of an immediate
  Programs,       \* [ops, outs]: a block in SSA form
  Inputs,         \* the variables that are inputs of the block
  Envs,           \* values of the inputs
  Iterations      \* consteval_iterations

ASSUME WordsAssumption ==
  /\ Width \in 1..LongBits /\ Iterations \in Nat
  /\ Envs \subseteq [Inputs -> 0..2^Width - 1]

Var(v) == [kind |-> "var", n |-> v]
Imm(n) == [kind |-> "imm", n |-> n]
NoVar == 0

Unary(id, v, x) == [id |-> id, out |-> v, params |-> "val" :> x]
Binary(id, v, x, y) == [id |-> id, out |-> v, params |-> "a" :> x @@ "b" :> y]
Load(v, addr) == [id |-> "LOAD", out |-> v, params |-> "addr" :> addr]
Store(addr, x) == [id |-> "STORE", out |-> NoVar, params |-> "addr" :> addr @@ "val" :> x]

Unsigned == {"ULT", "ULTE", "UGT", "UGTE"}
Signed == {"SLT", "SLTE", "SGT", "SGTE"}
Comparisons == {"EQ", "NEQ"} \cup Unsigned \cup Signed
Folded == {"ADD", "SUB", "MUL", "UDIV", "SDIV", "UMOD", "SMOD", "AND", "OR", "BITWISE_AND",
           "BITIWSE_OR", "SHL", "SHR", "ASHR"} \cup Comparisons
HasSideEffect(op) == op.id \in {"STORE", "STORE_EA"}

(***************************************************************************)
(* What an operation computes on words of the given number of bits, as C     *)
(* and the processor do it; operand and result may be off by multiples of    *)
(* 2^bits.                                                                   *)
(***************************************************************************)
AsUnsigned(x, bits) == x % 2^bits
AsSigned(x, bits) == ((x + 2^(bits - 1)) % 2^bits) - 2^(bits - 1)
Truth(b) == IF b THEN 1 ELSE 0
Abs(x) == IF x < 0 THEN -x ELSE x
Quotient(x, y) == IF (x < 0) = (y < 0) THEN Abs(x) \div Abs(y) ELSE -(Abs(x) \div Abs(y))

Compute(id, x, y, bits) ==
  LET u == AsUnsigned(x, bits)
      v == AsUnsigned(y, bits)
      s == AsSigned(x, bits)
      t == AsSigned(y, bits) IN
  CASE id = "ADD" -> u + v
    [] id = "SUB" -> u - v
    [] id = "MUL" -> u * v
    [] id = "UDIV" -> u \div v
    [] id = "SDIV" -> Quotient(s, t)
    [] id = "UMOD" -> u % v
    [] id = "SMOD" -> s - t * Quotient(s, t)
    [] id = "AND" -> Truth(u # 0 /\ v # 0)
    [] id = "OR" -> Truth(u # 0 \/ v # 0)
    [] id = "BITWISE_AND" -> u & v
    [] id = "BITIWSE_OR" -> u | v
    [] id = "SHL" -> IF v < bits THEN u * 2^v ELSE 0
    [] id = "SHR" -> IF v < bits THEN u \div 2^v ELSE 0
    [] id = "ASHR" -> IF v < bits THEN s \div 2^v ELSE 0
    [] id = "EQ" -> Truth(u = v)
    [] id = "NEQ" -> Truth(u # v)
    [] id = "ULT" -> Truth(u < v)
    [] id = "ULTE" -> Truth(u <= v)
    [] id = "UGT" -> Truth(u > v)
    [] id = "UGTE" -> Truth(u >= v)
    [] id = "SLT" -> Truth(s < t)
    [] id = "SLTE" -> Truth(s <= t)
    [] id = "SGT" -> Truth(s > t)
    [] id = "SGTE" -> Truth(s >= t)

\* The address base + idx * elsize, where parameters may be missing.
Address(params, value(_)) ==
  value(params["addr"])
    + (IF "idx" \in DOMAIN params
       THEN value(params["idx"]) * (IF "elsize" \in DOMAIN params THEN value(params["elsize"]) ELSE 1)
       ELSE 0)

\* s has the values of the variables, the memory and what was stored so far.
Perform(s, op) ==
  LET value(val) == IF val.kind = "var" THEN s.env[val.n] ELSE AsUnsigned(val.n, Width)
      p(name) == value(op.params[name])
      address == AsUnsigned(Address(op.params, value), Width)
      set(n) == [s EXCEPT !.env = op.out :> AsUnsigned(n, Width) @@ s.env] IN
  CASE op.id = "IMM" -> set(p("val"))
    [] op.id \in Folded -> set(Compute(op.id, p("a"), p("b"), Width))
    [] op.id = "NOT" -> set(Truth(p("val") = 0))
    [] op.id = "BITWISE_NOT" -> set(-p("val") - 1)
    [] op.id = "BITMASK" -> set(Compute("SHL", 1, p("idx"), Width))
    [] op.id = "BITEXTRACT" -> set(Compute("SHL", 1, p("idx"), Width) & p("val"))
    [] op.id = "EA" -> set(address)
    [] op.id \in {"LOAD", "LOAD_EA"} -> set(s.mem[address])
    [] op.id \in {"STORE", "STORE_EA"} ->
         [s EXCEPT !.mem[address] = p("val"), !.trace = Append(@, <<address, p("val")>>)]

\* The stores of a block and the values it returns.
Outcome(prog, env) ==
  LET start == [env |-> env, mem |-> [a \in 0..2^Width - 1 |-> a], trace |-> <<>>]
      s == FoldLeft(Perform, start, prog.ops) IN
  [trace |-> s.trace, outs |-> [i \in DOMAIN prog.outs |-> s.env[prog.outs[i]]]]

(***************************************************************************)
(* The passes.  Each visits the operations in order; a visit gives the block *)
(* and whether the compiler has read through a null pointer.                 *)
(***************************************************************************)
Each(seq, F(_)) == <<>> \o [i \in DOMAIN seq |-> F(seq[i])]
EachParam(params, F(_)) == [name \in DOMAIN params |-> F(params[name])] @@ <<>>
EachOp(prog, visit(_, _)) == FoldLeft(visit, prog, [i \in DOMAIN prog.ops |-> i])
Put(prog, i, op) == [prog EXCEPT !.ops[i] = op]

\* The operation that declares v.  (vars[v].decl may still point to an operation
\* that join_compute has replaced; nothing asks for it before inlining has
\* removed the last use of v.)
Declared(ops, v) == \E i \in DOMAIN ops : ops[i].out = v
Decl(ops, v) == SelectInSeq(ops, LAMBDA op : op.out = v)
DeclaredBy(ops, val, id) ==
  val.kind = "var" /\ Declared(ops, val.n) /\ ops[Decl(ops, val.n)].id = id
DeclOf(ops, val) == ops[Decl(ops, val.n)]

\* vx_opt_inline_vars
InlineImm(prog, i) ==
  LET op == prog.ops[i]
      new == op.params["val"] IN
  IF op.id # "IMM" THEN prog
  ELSE [prog EXCEPT
    !.ops = Each(@, LAMBDA o : [o EXCEPT !.params =
              EachParam(@, LAMBDA val : IF val = Var(op.out) THEN new ELSE val)]),
    !.outs = Each(@, LAMBDA v : IF v = op.out /\ new.kind = "var" THEN new.n ELSE v)]
InlineVars(prog) == EachOp(prog, InlineImm)

\* vx_opt_vars; operations that are removed while it goes on do not shift it.
ReadBy(op, v) == Var(v) \in {op.params[name] : name \in DOMAIN op.params}
VarUsed_ByOps(prog, v) == \E i \in DOMAIN prog.ops : ReadBy(prog.ops[i], v)
VarUsed(prog, v) == v \in ToSet(prog.outs) \/ \E i \in DOMAIN prog.ops : ReadBy(prog.ops[i], v)
Unused(prog, op) ==
  /\ ~HasSideEffect(op)
  /\ (op.id = "IMM" /\ op.params["val"] = Var(op.out)) \/ ~VarUsed(prog, op.out)
RemoveUnused(prog) ==
  FoldLeft(LAMBDA p, op : IF Unused(p, op)
                          THEN [p EXCEPT !.ops = SelectSeq(@, LAMBDA o : o # op)] ELSE p,
           prog, prog.ops)

\* vx_Irblock_eval: what IMMs make of the value, if that is not a variable.
RECURSIVE ImmValue(_, _)
ImmValue(ops, val) ==
  IF DeclaredBy(ops, val, "IMM") THEN ImmValue(ops, DeclOf(ops, val).params["val"]) ELSE val
Evaluated(ops, val) ==
  LET result == ImmValue(ops, val) IN IF result.kind = "var" THEN val ELSE result

Fold(id, x, y) == AsSigned(Compute(id, x, y, LongBits), LongBits)
FoldOp(prog, i) ==
  LET op == [prog.ops[i] EXCEPT !.params = EachParam(@, LAMBDA val : Evaluated(prog.ops, val))]
      imm(name) == op.params[name].kind = "imm"
      p(name) == op.params[name].n IN
  CASE op.id \in Folded ->
         Put(prog, i, IF imm("a") /\ imm("b")
                      THEN Unary("IMM", op.out, Imm(Fold(op.id, p("a"), p("b")))) ELSE op)
    [] op.id = "NOT" ->
         Put(prog, i, IF imm("val") THEN Unary("IMM", op.out, Imm(Truth(p("val") = 0))) ELSE op)
    [] op.id = "BITWISE_NOT" ->
         Put(prog, i, IF imm("val") THEN Unary("IMM", op.out, Imm(-p("val") - 1)) ELSE op)
    [] OTHER -> prog
ConstantEval(prog) == EachOp(prog, FoldOp)

\* vx_opt_simple_patterns
Elements(addr, mul) ==
  "addr" :> addr @@ "elsize" :> mul.params["a"] @@ "idx" :> mul.params["b"]
Joined_Unnamed(op) == op.params

\* The address parameters a LOAD or STORE takes from op, which made its address.
Joined(op) ==
  CASE op.id = "EA" -> op.params
    [] op.id = "ADD" -> "addr" :> op.params["a"] @@ "idx" :> op.params["b"]
Pattern(prog, i) ==
  LET op == prog.ops[i]
      p == op.params
      declared(name, id) == DeclaredBy(prog.ops, p[name], id)
      decl(name) == DeclOf(prog.ops, p[name])
      becomes(id, params) == Put(prog, i, [op EXCEPT !.id = id, !.params = params])
      extract(mask, val) ==
        becomes("BITEXTRACT", "idx" :> decl(mask).params["idx"] @@ "val" :> p[val])
      unknown == p["addr"].kind = "var" /\ ~Declared(prog.ops, p["addr"].n)
      pointed == declared("addr", "EA") \/ declared("addr", "ADD") IN
  CASE op.id = "SHL" /\ p["a"] = Imm(1) -> becomes("BITMASK", "idx" :> p["b"])
    [] op.id = "BITWISE_AND" /\ declared("a", "BITMASK") -> extract("a", "b")
    [] op.id = "BITWISE_AND" /\ ~declared("a", "BITMASK") /\ declared("b", "BITMASK") ->
         extract("b", "a")
    [] op.id = "ADD" /\ declared("a", "MUL") -> becomes("EA", Elements(p["b"], decl("a")))
    [] op.id = "ADD" /\ ~declared("a", "MUL") /\ declared("b", "MUL") ->
         becomes("EA", Elements(p["a"], decl("b")))
    [] op.id \in {"LOAD", "STORE"} /\ unknown -> [prog EXCEPT !.crashed = TRUE]
    [] op.id \in {"LOAD", "STORE"} /\ ~unknown /\ pointed ->
         becomes(op.id \o "_EA", Joined(decl("addr")) @@ p)
    [] OTHER -> prog
SimplePatterns(prog) == EachOp(prog, Pattern)

\* vx_opt_comparisions
BoolInv_Mirrored(id) ==
  CASE id = "EQ" -> "NEQ" [] id = "NEQ" -> "EQ"
    [] id = "ULT" -> "UGT" [] id = "UGT" -> "ULT" [] id = "ULTE" -> "UGTE" [] id = "UGTE" -> "ULTE"
    [] id = "SLT" -> "SGT" [] id = "SGT" -> "SLT" [] id = "SLTE" -> "SGTE" [] id = "SGTE" -> "SLTE"

\* boolInv: the comparison that holds when this one does not.
BoolInv(id) ==
  CASE id = "EQ" -> "NEQ" [] id = "NEQ" -> "EQ"
    [] id = "ULT" -> "UGTE" [] id = "UGTE" -> "ULT" [] id = "ULTE" -> "UGT" [] id = "UGT" -> "ULTE"
    [] id = "SLT" -> "SGTE" [] id = "SGTE" -> "SLT" [] id = "SLTE" -> "SGT" [] id = "SGT" -> "SLTE"

Plus(val, n) == Imm(AsSigned(val.n + n, LongBits))
Swapped_EqualityOnly(id) == CASE id = "EQ" -> "EQ" [] id = "NEQ" -> "NEQ"
                              [] OTHER -> "no"
\* The comparison with the operands the other way round.
Swapped(id) ==
  CASE id = "EQ" -> "EQ" [] id = "NEQ" -> "NEQ"
    [] id = "ULT" -> "UGT" [] id = "UGT" -> "ULT" [] id = "SLT" -> "SGT" [] id = "SGT" -> "SLT"
    [] OTHER -> "no"

Compare(prog, i) ==
  LET op == prog.ops[i]
      p == op.params
      before == SubSeq(prog.ops, 1, i - 1)
      cmp == DeclOf(before, p["val"])
      imm(name) == p[name].kind = "imm"
      to(id, x, y) == Put(prog, i, Binary(id, op.out, x, y)) IN
  CASE op.id = "NOT" /\ p["val"].kind = "var" /\ Declared(before, p["val"].n)
         /\ cmp.id \in Comparisons -> to(BoolInv(cmp.id), cmp.params["a"], cmp.params["b"])
    [] op.id = "ULTE" /\ imm("b") -> to("ULT", p["a"], Plus(p["b"], 1))
    [] op.id = "SLTE" /\ imm("b") -> to("SLT", p["a"], Plus(p["b"], 1))
    [] op.id = "UGTE" /\ imm("b") /\ p["b"] # Imm(0) -> to("UGT", p["a"], Plus(p["b"], -1))
    [] op.id = "SGTE" /\ imm("b") /\ p["b"] # Imm(0) -> to("SGT", p["a"], Plus(p["b"], -1))
    [] op.id \in Comparisons /\ Swapped(op.id) # "no" /\ imm("a") ->
         to(Swapped(op.id), p["b"], p["a"])
    [] OTHER -> prog
Comparisions(prog) == EachOp(prog, Compare)

\* vx_opt_join_compute: an operation like an earlier one copies its result.
Same(a, b) == a.id = b.id /\ a.params = b.params
Join(prog, i) ==
  LET op == prog.ops[i]
      earlier == SelectInSeq(prog.ops, LAMBDA o : Same(o, op)) IN
  IF HasSideEffect(op) \/ earlier = i THEN prog
  ELSE Put(prog, i, Unary("IMM", op.out, Var(prog.ops[earlier].out)))
JoinCompute(prog) == EachOp(prog, Join)

Apply(pass, prog) ==
  CASE pass = "inline_vars" -> InlineVars(prog)
    [] pass = "vars" -> RemoveUnused(prog)
    [] pass = "constant_eval" -> ConstantEval(prog)
    [] pass = "simple_patterns" -> SimplePatterns(prog)
    [] pass = "comparisions" -> Comparisions(prog)
    [] pass = "join_compute" -> JoinCompute(prog)

\* opt_pre, and of vx_opt and vx_opt_preLower what concerns a flat block.
OptPre ==
  <<"inline_vars", "vars">>
    \o FlattenSeq([i \in 1..Iterations |-> <<"constant_eval", "inline_vars">>])
    \o <<"simple_patterns", "comparisions">>
Opt == OptPre \o <<"join_compute">> \o OptPre \o OptPre
PreLower == OptPre \o <<"join_compute", "comparisions">> \o OptPre
Passes == Opt \o PreLower

--------------------------------------------------------------------------------
VARIABLES
  source,   \* the block as it was
  block,    \* the block now: [ops, outs, crashed]
  at        \* the place in Passes of the next one

vars == <<source, block, at>>

Init ==
  /\ source \in Programs
  /\ block = [ops |-> source.ops, outs |-> source.outs, crashed |-> FALSE]
  /\ at = 1

Pass(name) ==
  /\ ~block.crashed
  /\ at \in DOMAIN Passes
  /\ Passes[at] = name
  /\ block' = Apply(name, block)
  /\ at' = at + 1
  /\ UNCHANGED source

Next ==
  \/ Pass("inline_vars") \/ Pass("vars") \/ Pass("constant_eval")
  \/ Pass("simple_patterns") \/ Pass("comparisions") \/ Pass("join_compute")

Spec == Init /\ [][Next]_vars

--------------------------------------------------------------------------------
(***************************************************************************)
(* Properties.                                                              *)
(***************************************************************************)
ParamsOf(id) ==
  CASE id \in {"IMM", "NOT", "BITWISE_NOT"} -> {{"val"}}
    [] id \in Folded -> {{"a", "b"}}
    [] id = "BITMASK" -> {{"idx"}}
    [] id = "BITEXTRACT" -> {{"idx", "val"}}
    [] id = "EA" -> {{"addr", "elsize", "idx"}}
    [] id = "LOAD" -> {{"addr"}}
    [] id = "STORE" -> {{"addr", "val"}}
    [] id = "LOAD_EA" -> {{"addr", "idx"}, {"addr", "idx", "elsize"}}
    [] id = "STORE_EA" -> {{"addr", "idx", "val"}, {"addr", "idx", "elsize", "val"}}

\* Every operation has the parameters the emission asks for under its new name,
\* and every immediate fits long long.
TypeOK ==
  /\ at \in 1..Len(Passes) + 1
  /\ block.crashed \in BOOLEAN
  /\ \A i \in DOMAIN block.ops : LET p == block.ops[i].params IN
       /\ DOMAIN p \in ParamsOf(block.ops[i].id)
       /\ \A name \in DOMAIN p :
            p[name].kind = "imm" => p[name].n \in -(2^(LongBits - 1))..2^(LongBits - 1) - 1

\* After every pass the block stores and returns what it did, whatever the inputs:
\* folding, comparing with constant + 1, joined computations and addresses included.
BehaviourPreserved == \A env \in Envs : Outcome(block, env) = Outcome(source, env)

\* What is read has been made before: nothing that is still read, as an operand or
\* as a result of the block, is removed, moved up to an earlier operation, or
\* replaced by a variable that is made later.
UsesDeclared ==
  LET known(i) == Inputs \cup {block.ops[j].out : j \in 1..i - 1} IN
  /\ \A i \in DOMAIN block.ops : LET p == block.ops[i].params IN
       \A name \in DOMAIN p : p[name].kind = "var" => p[name].n \in known(i)
  /\ ToSet(block.outs) \subseteq known(Len(block.ops) + 1)

\* In the end comparisons are in the forms listed at vx_opt_comparisions, although
\* one pass makes what only a later one brings into form: an inverted comparison
\* is visited as a NOT, and constants reach operands between the passes.
NormalForm(op) ==
  op.id \in Comparisons =>
    /\ op.params["a"].kind = "imm" => op.id \in {"ULTE", "UGTE", "SLTE", "SGTE"}
    /\ op.params["b"].kind = "imm" =>
         op.id \notin {"ULTE", "SLTE"} /\ (op.id \in {"UGTE", "SGTE"} => op.params["b"] = Imm(0))
Normalised ==
  at > Len(Passes) =>
    \A i \in DOMAIN block.ops :
      /\ NormalForm(block.ops[i])
      /\ block.ops[i].id = "NOT" =>
           \A id \in Comparisons : ~DeclaredBy(block.ops, block.ops[i].params["val"], id)

================================================================================
