--------------------------- MODULE MCX86Conditionals ---------------------------
(* Instances of X86Conditionals: blocks of a comparison, up to Length further  *)
(* operations from a pool, and an end that stores what was computed.           *)
EXTENDS X86Conditionals

CONSTANTS L1, L2, Length, Fuel

\* 1 and 2 are parameters, 3 and 4 take results.
Test(id, out) == Assign(id, out, <<Var(1), Var(2)>>)
Cond(v, label) == Branch("COND", <<Var(v)>>, label)
Label(label) == Branch("LABEL", <<>>, label)

Pool == {
  Test("ULT", 4), Test("EQ", 3), Assign("UGT", 4, <<Var(1), Imm(0)>>), Test("UGT", 3),
  Assign("IMM", 4, <<Imm(0)>>), Assign("IMM", 4, <<Var(1)>>), Assign("ADD", 4, <<Var(1), Var(2)>>),
  Assign("NOT", 4, <<Var(1)>>),
  Assign("CMOV", 4, <<Var(3), Var(1)>>), Cond(3, L1), Cond(4, L1),
  Do("STORE", <<Var(3)>>), Do("STORE", <<Var(2)>>), Label(L2)}
\* A jump to L1 skips a store.
Ends == {<<Do("STORE", <<Var(2)>>), Label(L1), Do("STORE", <<Var(4)>>), Do("RETURN", <<Var(2)>>)>>}

Bodies(low, high) == UNION {[1..n -> Pool] : n \in low..high}
Started(ids, high) == {<<Test(id, 3)>> \o b \o e : id \in ids, b \in Bodies(0, high), e \in Ends}

\* Every comparison with every single user, and the longer blocks.
MCPrograms ==
  {p \in Started(Compared \ {"BITEXTRACT"}, 1) \cup Started({"SGT", "ULT"}, Length) : WellFormed(p)}

\* A jump on a comparison with another comparison between.
MCBetween ==
  {<<Test("ULT", 3), Assign(id, 4, <<Var(1), Imm(0)>>)>> \o b \o <<Cond(3, L1)>> \o e :
     id \in {"UGT", "EQ"}, b \in {<<>>, <<Do("STORE", <<Var(4)>>)>>}, e \in Ends}

\* No block has more operations, and the pass at most doubles them.
MCSteps == {Fuel}
MCMore == {2 * Fuel}

\* Less, equal and greater, with and without a change of the sign.
MCEnvs == {<<0, 1, 0, 2>>, <<1, 1, 0, 2>>, <<3, 1, 0, 2>>, <<1, 3, 0, 2>>, <<1, 0, 0, 0>>}
================================================================================
