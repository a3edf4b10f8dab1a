-------------------------------- MODULE MCLlOpt --------------------------------
(* Instance of LlOpt: blocks of the shapes lowering makes of an if with both    *)
(* cases and of a loop, with any operation of a pool, or none, at each place;  *)
(* and every well-formed block of up to Length operations and a RETURN.        *)
EXTENDS LlOpt

CONSTANTS L1, L2, Length, Fuel

Simple == {
  Assign("IMM", 1, <<Var(2)>>), Assign("IMM", 2, <<Var(1)>>), Assign("IMM", 2, <<Imm(1)>>),
  Assign("SUB", 1, <<Var(1), Var(2)>>),
  Assign("CMOV", 3, <<Var(1), Var(2), Imm(0)>>), Assign("CMOV", 1, <<Var(3), Imm(1), Var(2)>>),
  Assign("CMOV", 1, <<Var(2), Imm(1), Imm(0)>>),
  Do("STORE", <<Var(1)>>)}

CondL1 == Branch("COND", <<Var(3)>>, L1)
CondL2 == Branch("COND", <<Var(1)>>, L2)
Goto(label) == Branch("GOTO", <<>>, label)
Label(label) == Branch("LABEL", <<>>, label)
Return == Do("RETURN", <<Var(1), Var(3)>>)

Places == {<<>>} \cup {<<op>> : op \in Simple}

IfElse == {a \o <<CondL1>> \o b \o <<Goto(L2), Label(L1)>> \o c \o <<Label(L2), Return>> :
             a, b, c \in Places}
Loop == {a \o <<Label(L1)>> \o b \o <<CondL2>> \o c \o <<Goto(L1), Label(L2), Return>> :
             a, b, c \in Places}

Pool == Simple \cup {CondL1, CondL2, Goto(L1), Goto(L2), Label(L1), Label(L2)}
Short == {Append(s, Return) : s \in UNION {[1..n -> Pool] : n \in 1..Length}}

MCPrograms == {p \in IfElse \cup Loop \cup Short : WellFormed(p)}

MCSteps == {Fuel}
MCMore == {3 * Fuel}

MCEnvs == {<<1, 0, 0>>, <<0, 1, 2>>}
================================================================================
