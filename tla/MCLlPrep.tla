-------------------------------- MODULE MCLlPrep --------------------------------
(* Instances of LlPrep: blocks of Length operations from a pool and a RETURN,  *)
(* whole or with a part that a forward jump skips (an if without else); and    *)
(* blocks with the jumps of an if with both cases, or of a loop.               *)
EXTENDS LlPrep

CONSTANTS L1, L2, Length, Fuel

\* 1 is the parameter; 2, 3 and 4 may be merged, 5 has another size.
Pool == {
  Assign("IMM", 2, <<Imm(1)>>), Assign("IMM", 5, <<Imm(2)>>),
  Assign("ADD", 2, <<Var(1), Var(1)>>), Assign("ADD", 3, <<Var(1), Var(2)>>),
  Assign("SUB", 4, <<Var(2), Var(3)>>), Assign("SUB", 4, <<Var(1), Var(2)>>),
  Assign("IMM", 3, <<Var(5)>>), Assign("CMOV", 3, <<Var(1), Var(2)>>),
  Do("STORE", <<Var(2)>>), Do("STORE", <<Var(4)>>)}

CondL1 == Branch("COND", <<Var(1)>>, L1)
Label(label) == Branch("LABEL", <<>>, label)
Goto(label) == Branch("GOTO", <<>>, label)
Returns == {Do("RETURN", <<Var(v)>>) : v \in {1, 3, 4}}

Bodies(low, high) == UNION {[1..n -> Pool] : n \in low..high}
Begin(high) == {b \in Bodies(1, high) : Assigned(Append(b, Do("RETURN", <<Var(1)>>)))}
Straight == {Append(b, r) : b \in Begin(Length), r \in Returns}
Skipping == {b \o <<CondL1>> \o c \o <<Label(L1)>> \o d \o <<r>> :
               b \in Begin(Length - 1), c \in Bodies(1, 1), d \in Bodies(0, 1), r \in Returns}

Ok(p) == WellFormed(p) /\ Assigned(p)
MCPrograms == {p \in Straight \cup Skipping : Ok(p)}

\* if (p1) { .. } else { .. }
IfElse == {b \o <<CondL1>> \o c \o <<Goto(L2), Label(L1)>> \o d \o <<Label(L2), r>> :
             b \in Begin(2), c, d \in Bodies(1, 1), r \in Returns}
MCIfElse == {p \in IfElse : Ok(p)}

MCSizeOf == [v \in 1..5 |-> IF v = 5 THEN 1 ELSE 8]
MCSteps == {Fuel}
MCMore == {2 * Fuel}
MCEnvs == {<<p, a, 2 * a, a, a>> : p \in {0, 2}, a \in {0, 1}}
================================================================================
