------------------------------- MODULE LlPasses -------------------------------
(***************************************************************************)
(* The passes over a flat block.  Each is a loop over its operations; one   *)
(* iteration, at position at, takes the block prog to [prog, next]: the     *)
(* changed block and the position where the loop goes on.  An operation     *)
(* that is unlinked keeps its next pointer, so the loop goes on with the    *)
(* operation that took its place.                                           *)
(***************************************************************************)
EXTENDS Llir

Unchanged(prog, at) == [prog |-> prog, next |-> at + 1]
Replace_Again(prog, at, op) == [prog |-> ReplaceAt(prog, at, op), next |-> at]
Replace(prog, at, op) == [prog |-> ReplaceAt(prog, at, op), next |-> at + 1]
Unlink(prog, at) == [prog |-> RemoveAt(prog, at), next |-> at]

(***************************************************************************)
(* vx_opt_ll_dce: unused labels, then the code no jump can reach.           *)
(***************************************************************************)
LabelUsed_GotoOnly(prog, label) ==
  \E i \in DOMAIN prog : prog[i].id = "GOTO" /\ prog[i].label = label
LabelUsed(prog, label) == \E i \in DOMAIN prog : prog[i].id \in Jumps /\ prog[i].label = label

DceLabel(prog, at) ==
  IF prog[at].id = "LABEL" /\ ~LabelUsed(prog, prog[at].label)
  THEN Unlink(prog, at) ELSE Unchanged(prog, at)

\* rmcode_before_label
NextLabel(prog, from) ==
  LET found == {i \in from..Len(prog) : prog[i].id = "LABEL"} IN
  IF found = {} THEN Len(prog) + 1 ELSE Min(found)

DceCode(prog, at) ==
  IF EndsFlow(prog[at])
  THEN [prog |-> SubSeq(prog, 1, at) \o SubSeq(prog, NextLabel(prog, at + 1), Len(prog)),
        next |-> at + 1]
  ELSE Unchanged(prog, at)

(***************************************************************************)
(* vx_opt_ll_inlineVars: below an IMM, its output is replaced by its value, *)
(* up to the next label, or up to and with the operation that overwrites    *)
(* the output or the value.  RETURN needs variables and is left alone.      *)
(***************************************************************************)
Overwrites_OutOnly(op, imm) == Writes(op, imm.out)
Overwrites(op, imm) ==
  \/ Writes(op, imm.out)
  \/ imm.args[1].kind = "var" /\ Writes(op, imm.args[1].n)

InlineEnd(prog, at) ==
  LET stops == {i \in at + 1..Len(prog) : prog[i].id = "LABEL" \/ Overwrites(prog[i], prog[at])} IN
  CASE stops = {} -> Len(prog)
    [] stops # {} /\ prog[Min(stops)].id = "LABEL" -> Min(stops) - 1
    [] OTHER -> Min(stops)

Inlined(op, out, val) ==
  IF op.id = "RETURN" THEN op
  ELSE [op EXCEPT !.args = [i \in DOMAIN @ |-> IF @[i] = Var(out) THEN val ELSE @[i]]]

InlineVar(prog, at) ==
  LET imm == prog[at] IN
  CASE imm.id # "IMM" -> Unchanged(prog, at)
    [] imm.id = "IMM" /\ imm.args[1] = Var(imm.out) -> Unlink(prog, at)
    [] OTHER ->
         [prog |-> [i \in DOMAIN prog |->
                      IF i \in at + 1..InlineEnd(prog, at)
                      THEN Inlined(prog[i], imm.out, imm.args[1]) ELSE prog[i]],
          next |-> at + 1]

(***************************************************************************)
(* vx_opt_vars: operations without side effect whose output nothing reads,  *)
(* and copies of a variable to itself.                                      *)
(***************************************************************************)
Removable(prog, op) ==
  /\ ~HasSideEffect(op)
  /\ \/ op.id = "IMM" /\ op.args[1] = Var(op.out)
     \/ ~VarUsed(prog, op.out)

RemoveUnused(prog, at) ==
  IF Removable(prog, prog[at]) THEN Unlink(prog, at) ELSE Unchanged(prog, at)

(***************************************************************************)
(* vx_IrBlock_ll_cmov_expand: the else value becomes an IMM in front.       *)
(***************************************************************************)
HasElse(op) == op.id = "CMOV" /\ Len(op.args) = 3

\* The IMM overwrites what the CMOV behind it reads.
Clobbers(op) == HasElse(op) /\ Var(op.out) \in {op.args[1], op.args[2]}

CmovExpand(prog, at) ==
  LET op == prog[at] IN
  IF HasElse(op)
  THEN [prog |-> SubSeq(prog, 1, at - 1)
                 \o <<Assign("IMM", op.out, <<op.args[3]>>),
                      [op EXCEPT !.args = SubSeq(@, 1, 2)]>>
                 \o SubSeq(prog, at + 1, Len(prog)),
        next |-> at + 2]
  ELSE Unchanged(prog, at)

(***************************************************************************)
(* vx_opt_ll_jumps: a jump over nothing goes away; a jump to a goto jumps   *)
(* to where that one goes.                                                  *)
(***************************************************************************)
JumpOverNothing(prog, at) ==
  LET to == LabelAt(prog, prog[at].label) IN
  IF /\ prog[at].id \in Jumps
     /\ to > at
     /\ \A i \in at + 1..to - 1 : ~HasEffect(prog[i])
  THEN Unlink(prog, at) ELSE Unchanged(prog, at)

Forwards_Ending(op) == EndsFlow(op)
Forwards(op) == op.id = "GOTO"

JumpToJump(prog, at) ==
  LET to == LabelAt(prog, prog[at].label) IN
  IF prog[at].id \in Jumps /\ to < Len(prog) /\ Forwards(prog[to + 1])
  THEN Replace(prog, at, [prog[at] EXCEPT !.label = prog[to + 1].label])
  ELSE Unchanged(prog, at)

(***************************************************************************)
(* vx_opt_ll_binary: the output as second operand becomes the first one.    *)
(***************************************************************************)
Commutes_Binary(op) == op.id \in {"ADD", "SUB"}
Commutes(op) == op.id = "ADD"

SwapOperands(prog, at) ==
  LET op == prog[at] IN
  IF Commutes(op) /\ op.args[2] = Var(op.out)
  THEN Replace(prog, at, [op EXCEPT !.args = Reverse(@)]) ELSE Unchanged(prog, at)

Iterate(pass, prog, at) ==
  CASE pass = "dce_labels" -> DceLabel(prog, at)
    [] pass = "dce_code" -> DceCode(prog, at)
    [] pass = "inlineVars" -> InlineVar(prog, at)
    [] pass = "vars" -> RemoveUnused(prog, at)
    [] pass = "cmov_expand" -> CmovExpand(prog, at)
    [] pass = "jumps_part1" -> JumpOverNothing(prog, at)
    [] pass = "jumps_part2" -> JumpToJump(prog, at)
    [] pass = "binary" -> SwapOperands(prog, at)

================================================================================
