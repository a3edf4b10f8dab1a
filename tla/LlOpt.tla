--------------------------------- MODULE LlOpt ---------------------------------
(***************************************************************************)
(* vx_opt_ll (src/ir/passes.c:68-86): the optimisation of a lowered block,  *)
(* as the sequence of passes it calls, one iteration of a pass per step.    *)
(***************************************************************************)
EXTENDS LlPasses

CONSTANTS
  Programs,     \* the lowered blocks
  ConstevalIterations,  \* cu->opt.consteval_iterations, 6 by default
  JumpIterations,       \* 4 in the code
  Envs,         \* values of the variables on entry
  Steps, More   \* how many operations are executed when behaviours are
                \* compared, of one and of the other block

ASSUME LlOptAssumption ==
  /\ ConstevalIterations \in Nat
  /\ JumpIterations \in Nat
  /\ Steps \subseteq Nat /\ More \subseteq Nat
  /\ Envs \subseteq [Vars -> Num]
  /\ \A p \in Programs : p \in Seq(Op) /\ WellFormed(p)

VARIABLES
  source,       \* the block as lowered
  prog,         \* the block now
  pass,         \* the pass running, an index of Passes
  at            \* the operation its loop is at

vars == <<source, prog, pass, at>>

Times(n, passes) == [i \in 1..n * Len(passes) |-> passes[((i - 1) % Len(passes)) + 1]]

Dce == <<"dce_labels", "dce_code">>
Passes ==
  Dce
  \o Times(ConstevalIterations, <<"inlineVars", "vars">>)
  \o <<"cmov_expand">>
  \o Times(JumpIterations, <<"jumps_part1", "jumps_part2">> \o Dce)
  \o Times(ConstevalIterations, <<"inlineVars", "vars">>)

Init ==
  /\ source \in Programs
  /\ prog = source
  /\ pass = 1
  /\ at = 1

Done == pass > Len(Passes)

\* One iteration of the loop of the pass.
Visit(name) ==
  /\ ~Done
  /\ Passes[pass] = name
  /\ at <= Len(prog)
  /\ LET r == Iterate(name, prog, at) IN prog' = r.prog /\ at' = r.next
  /\ UNCHANGED <<source, pass>>

\* The loop of a pass ends, and the next pass begins.
NextPass ==
  /\ ~Done
  /\ at > Len(prog)
  /\ pass' = pass + 1
  /\ at' = 1
  /\ UNCHANGED <<source, prog>>

Next ==
  \/ Visit("dce_labels") \/ Visit("dce_code")
  \/ Visit("inlineVars") \/ Visit("vars")
  \/ Visit("cmov_expand")
  \/ Visit("jumps_part1") \/ Visit("jumps_part2")
  \/ NextPass

\* The compiler is sequential code: a pass that can go on does.
Spec == Init /\ [][Next]_vars /\ WF_vars(Next)

--------------------------------------------------------------------------------
(***************************************************************************)
(* Properties.                                                              *)
(***************************************************************************)

\* Every variable has its type (the block and the loops over it).
TypeOK ==
  /\ source \in Seq(Op)
  /\ prog \in Seq(Op)
  /\ pass \in 1..Len(Passes) + 1
  /\ at \in 1..Len(prog) + 1

\* Blocks in which no CMOV with an else value has its output as condition or
\* value, and none of their outputs is copied: a copy could make inlineVars put
\* the output there.  SSA form has no such CMOV; a frontend's loop state can be
\* the output and the value of one.
CmovsApart(p) ==
  \A i \in DOMAIN p : HasElse(p[i]) =>
    /\ ~Clobbers(p[i])
    /\ \A j \in DOMAIN p : p[j].id = "IMM" => p[j].args[1] # Var(p[i].out)

\* Whatever was rewritten so far, by every pass before and by the part of the
\* loop done, the block stores and returns what the lowered block did, and runs
\* forever silently only where that did.
BehaviourPreserved == CmovsApart(source) => SameBehaviour(source, prog, Envs, Steps, More)

\* A jump always has a label to go to: what dce takes for unused, or for
\* unreachable, is never what a jump, retargeted or not, needs
\* (assert(decl), ll_jumps.c:17).
JumpsDeclared == JumpsHaveLabels(prog)

\* The block never runs off its end: passes that drop jumps and code keep an
\* operation that leaves it last.
EndsWithExit == Leaves(prog)

\* All passes end, though loops grow and shrink what they run over and jumps
\* are redirected while they are followed.
Terminates == <>Done

================================================================================
