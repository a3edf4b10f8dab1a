------------------------------- MODULE MCWords -------------------------------
(* Instances of Words: blocks of two inputs, 1 and 2, and a constant, 3, with  *)
(* every operation on them that the passes know, and what they may make of it.  *)
EXTENDS Words

K == {0, 1, 2}
Arithmetic == {"ADD", "SUB", "MUL", "AND", "OR", "BITWISE_AND", "BITIWSE_OR", "SHL"}
Dividing == {"UDIV", "SDIV", "UMOD", "SMOD"}
Shifting == {"SHR", "ASHR"}
Operand == {Var(1), Var(3)} \cup {Imm(k) : k \in K}

Const(k) == Unary("IMM", 3, Imm(k))
Prog(ops, outs) == [ops |-> ops, outs |-> outs]
Then(x) == {Unary("NOT", 5, x), Unary("BITWISE_NOT", 5, x), Binary("ADD", 5, x, Var(2)),
            Binary("MUL", 5, Var(2), x), Binary("UDIV", 5, Imm(2), Imm(1))}

\* Constants stay such that they are the same number signed and unsigned, and so is
\* the next one: what is folded in long long is then what the operation computes.
Small(prog) ==
  LET values == FoldLeft(LAMBDA f, op :
        LET known(name) == op.params[name].kind = "imm" \/ op.params[name].n \in DOMAIN f
            n(name) == IF op.params[name].kind = "imm" THEN op.params[name].n ELSE f[op.params[name].n] IN
        IF \E name \in DOMAIN op.params : ~known(name) THEN f
        ELSE CASE op.id \in Folded -> op.out :> Compute(op.id, n("a"), n("b"), LongBits) @@ f
               [] op.id = "IMM" -> op.out :> n("val") @@ f
               [] op.id = "NOT" -> op.out :> Truth(n("val") = 0) @@ f
               [] OTHER -> f, <<>>, prog.ops) IN
  \A v \in DOMAIN values : values[v] \in K

Computing ==
  {Prog(<<Const(k), Binary(id, 4, x, y), then>>, <<5, 4>>) :
     k \in K, id \in Arithmetic \cup Shifting, x \in {Var(1), Var(3)}, y \in {Var(3), Imm(1)},
     then \in Then(Var(4))}
  \cup {Prog(<<Const(k), Binary(id, 4, x, Var(3)), then>>, <<5, 4>>) :
     k \in K \ {0}, id \in Dividing, x \in {Var(1), Var(3), Imm(2)}, then \in Then(Var(4))}

Comparing ==
  {Prog(<<Const(k), Binary(id, 4, x, y), Unary("NOT", 5, Var(4))>>, outs) :
     k \in K, id \in Comparisons, x \in {Var(1), Var(3)}, y \in {Var(1), Var(2), Var(3)},
     outs \in {<<5>>, <<4, 5>>}}

Masking ==
  {Prog(<<Const(k), Binary("SHL", 4, x, y), Binary("BITWISE_AND", 5, v, w)>>, outs) :
     k \in K, x \in {Imm(1), Var(3), Var(1)}, y \in {Var(3), Var(2), Imm(2)},
     v \in {Var(4), Var(1)}, w \in {Var(4), Imm(2)}, outs \in {<<5>>, <<5, 4>>}}

\* An element of an array, read, and written after it was.
Addressing ==
  {Prog(<<Const(k), Binary("MUL", 4, Var(1), x), Binary("ADD", 5, y, z), Load(6, Imm(k))>>
          \o <<Load(8, Var(5)), Store(Var(5), v), Binary("ADD", 7, Var(4), Var(8))>>, <<7, 6>>) :
     k \in K, x \in {Var(3), Imm(2)}, y \in {Var(2), Var(4)}, z \in {Var(4), Var(3)},
     v \in {Var(1), Var(6)}}

\* One computation twice, the second time after the first was used.
Joining ==
  {Prog(<<Const(k), Binary(id, 4, x, y), Binary("ADD", 5, Var(4), Var(2)), Binary(other, 6, x, y)>>,
        <<6, 5>>) :
     k \in {2}, id \in {"ADD", "MUL", "ULT"}, other \in {"ADD", "MUL", "ULT"},
     x \in {Var(1), Var(3)}, y \in {Var(2), Var(3)}}

MCPrograms == {p \in Computing \cup Comparing \cup Masking \cup Addressing \cup Joining : Small(p)}

MCInputs == {1, 2}
MCEnvs == {<<0, 5>>, <<1, 2>>, <<2, 1>>, <<3, 7>>, <<7, 0>>}
================================================================================
