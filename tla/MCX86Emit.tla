------------------------------ MODULE MCX86Emit ------------------------------
(* Instances of X86Emit: a leaf with variables in registers and in the red zone, *)
(* a function with calls and no stack, one with calls and stack slots; every     *)
(* operation on every choice of variables and numbers.                          *)
EXTENDS X86Emit

MCWords == 1 :> 4 @@ 4 :> 8 @@ 8 :> 16
MCHeap == {10, 11, 12}

Leaf == [loc |-> <<Reg("RAX", 8), Reg("RDI", 8), Slot(1, 8), Slot(2, 8),
                   Reg("RSI", 1), Slot(3, 1), Reg("RCX", 4), Slot(4, 4)>>,
         placed |-> {4}, scratch |-> "R11", entered |-> TRUE, below |-> 0, leaf |-> TRUE]
Calling == [loc |-> <<Reg("R11", 8), Reg("R9", 8), Reg("R8", 8), Reg("RCX", 1)>>,
            placed |-> {}, scratch |-> "RAX", entered |-> FALSE, below |-> 0, leaf |-> FALSE]
CallingWithSlots == [loc |-> <<Reg("R11", 8), Slot(1, 8), Slot(2, 8), Slot(3, 1)>>,
                     placed |-> {3}, scratch |-> "RAX", entered |-> TRUE, below |-> 3, leaf |-> FALSE]
MCFrames == {Leaf, Calling, CallingWithSlots}

Registers == {"RAX", "RCX", "RDX", "RSI", "RDI", "R8", "R9", "R10", "R11"}
Start(k) == [reg |-> [r \in Registers |-> (CASE r = "RAX" -> 10 [] r = "RDI" -> 11 [] r = "RSI" -> 13
                                             [] r = "RCX" -> 6 [] r = "RDX" -> 9 [] r = "R8" -> 3
                                             [] r = "R9" -> 12 [] r = "R10" -> 5 [] r = "R11" -> 10)
                                           + k] @@ [r \in {"RSP"} |-> 8] @@ [r \in {"RBP"} |-> 14],
             mem |-> [c \in 0..15 |-> (7 * c + 5 + k) % 16],
             flags |-> <<NoFlags, Compared(3, 12, Pointer), Compared(7, 2, 4), Compared(1, 1, 1)>>[k + 1]]
MCStarts == {Start(k) : k \in {0, 1, 2}}

Op(id, out, p) == [id |-> id, out |-> out, p |-> p, args |-> <<>>]
Ending(id, out, p, args) == [id |-> id, out |-> out, p |-> p, args |-> args]
Conds == {"e", "b", "l"}

OpsOn(V, Wide) ==
  LET Some == {Var(v) : v \in V}
      Vals == Some \cup {Num(0), Num(3)}
      Pointers == {Var(v) : v \in Wide} IN
  {Op("IMM", o, "val" :> x) : o \in V, x \in Vals \cup {NoVal}}
  \cup {Op(id, o, "val" :> x) : id \in {"BITCAST", "ZEROEXT", "SIGNEXT", "BITWISE_NOT"}, o \in V, x \in Some}
  \cup {Op("LOAD", o, "addr" :> x) : o \in V, x \in Pointers}
  \cup {Op("STORE", NoVar, "addr" :> x @@ "val" :> y) : x \in Pointers, y \in Vals}
  \cup {Op("PLACE", o, "var" :> x) : o \in V, x \in Some}
  \cup {Op("LOAD_EA", o, "addr" :> x @@ "idx" :> y) : o \in V, x \in Pointers, y \in Pointers \cup {Num(1)}}
  \cup {Op("STORE_EA", NoVar, "addr" :> x @@ "idx" :> y @@ "elsize" :> Num(2) @@ "val" :> z) :
          x \in Pointers, y \in Pointers, z \in Vals}
  \cup {Op("EA", o, "addr" :> x @@ "idx" :> y) : o \in Wide, x \in Pointers, y \in Pointers}
  \cup {Op("EA", o, "addr" :> x @@ "idx" :> y @@ "elsize" :> Num(2)) :
          o \in Wide, x \in Pointers, y \in Pointers}
  \cup {Op(id, o, "a" :> x @@ "b" :> y) :
          id \in {"ADD", "SUB", "MUL", "AND", "SDIV", "SMOD", "SHL"}, o \in V, x \in Vals, y \in Vals}
  \cup {Op("X86_CMP", NoVar, "a" :> x @@ "b" :> y) : x \in Vals, y \in Vals}
  \cup {Op("X86_SETCC", o, "cond" :> c) : o \in V, c \in Conds}
  \cup {Op("X86_JMPCC", NoVar, "cond" :> c) : c \in Conds}
  \cup {Ending("CALL", o, "addr" :> x, args) :
          o \in Wide \cup {NoVar}, x \in Pointers \cup {Num(9)}, args \in {<<>>, <<Var(2), Num(0)>>, <<Var(3), Var(1)>>}}
  \cup {Ending("TAILCALL", NoVar, "addr" :> x, args) :
          x \in {Num(9), Var(1)}, args \in {<<>>, <<Var(2), Var(3)>>}}
  \cup {Ending("RETURN", NoVar, <<>>, args) :
          args \in {<<>>} \cup {<<x>> : x \in Some} \cup {<<x, y>> : x \in Some, y \in Some}}

\* Arithmetic on operands of one width only.
OneWidth(f, op) ==
  op.id \in Arithmetical =>
    \A x \in {op.p[name] : name \in DOMAIN op.p} : x.kind = "var" => f.loc[x.n].w = f.loc[op.out].w
MCOps ==
  [f \in MCFrames |->
    {op \in OpsOn(DOMAIN f.loc, {v \in DOMAIN f.loc : f.loc[v].w = Pointer}) : OneWidth(f, op)}] @@ <<>>

================================================================================
