------------------------------ MODULE MCX86Alloc ------------------------------
(* Instance of X86Alloc: three variables of every kind the allocator tells     *)
(* apart, two integer argument registers and one float one instead of six and  *)
(* eight, so that both kinds run out.                                          *)
EXTENDS X86Alloc

MCIntArgRegs == <<"RDI", "RSI">>
MCXmmArgRegs == <<"XMM0">>

Kind(size, float, heat, placed) ==
  [size |-> size, float |-> float, heat |-> heat, placed |-> placed]

Kinds == {
  Kind(3, FALSE, 1, FALSE),   \* rounded up when it is an argument on the stack
  Kind(8, FALSE, 2, FALSE),
  Kind(8, TRUE, 1, FALSE),
  Kind(3, FALSE, 2, TRUE),    \* its address is taken
  Kind(8, FALSE, 0, FALSE),   \* unused
  Kind(0, FALSE, 1, FALSE),   \* no declaration left
  Kind(64, FALSE, 1, FALSE),  \* larger than a register
  Kind(72, FALSE, 1, FALSE) }

Arguments == {<<>>, <<2>>, <<2, 1>>, <<1, 2, 3>>}

CallLists == {<<>>, <<[int |-> 0, xmm |-> 0]>>, <<[int |-> 1, xmm |-> 1]>>,
              <<[int |-> 2, xmm |-> 0], [int |-> 1, xmm |-> 0]>>,
              <<[int |-> 3, xmm |-> 0]>>}

Returns == {<<0, NoVar>>, <<8, NoVar>>, <<8, 1>>, <<8, 3>>}

MCBlocks == {b \in
  {[var |-> var, ins |-> ins, calls |-> calls, outSize |-> ret[1], lastRet |-> ret[2],
    noRedzone |-> noRedzone] :
     var \in [Vars -> Kinds], ins \in Arguments, calls \in CallLists, ret \in Returns,
     noRedzone \in BOOLEAN} : WellFormed(b)}
================================================================================
