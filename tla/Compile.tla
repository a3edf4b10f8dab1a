-------------------------------- MODULE Compile --------------------------------
(***************************************************************************)
(* vx_CU_compile for one function, from what the frontend made to the        *)
(* optimised flat block: construction of SSA from CIR, vx_opt, lowering and   *)
(* vx_opt_ll, pass by pass (src/ir/ir.c, src/ir/passes.c).                    *)
(***************************************************************************)
EXTENDS Cir, SsaOpt, Lower

CONSTANTS
  Functions,    \* [root, n, cir, ifEval]: a function, the number of its variables, whether
                \* it is CIR (FROM_CIR) or SSA (FROM_IR), and cu->opt.if_eval
  Iterations,       \* cu->opt.consteval_iterations, 6 by default
  JumpIterations,   \* 4 in the code
  Envs,         \* values of the variables on entry
  Fuel,         \* bound: iterations of loops executed when behaviours are compared
  FlatFuel      \* bound: operations of the flat block executed for them

ASSUME CompileAssumption ==
  /\ MaxVars \in Nat /\ MaxLabels \in Nat /\ Fuel \in Nat /\ FlatFuel \in Nat
  /\ Iterations \in Nat /\ JumpIterations \in Nat
  /\ Envs \subseteq [1..MaxVars -> 0..Modulus - 1]
  /\ \A f \in Functions : f.n \in 0..MaxVars /\ f.cir \in BOOLEAN /\ f.ifEval \in BOOLEAN

Times(k, passes) == Concat([i \in 1..k |-> passes])
OptPre == <<"inline_vars", "vars">> \o Times(Iterations, <<"constant_eval", "inline_vars">>)
Opt(ifEval) ==
  OptPre \o <<"join_compute">> \o (IF ifEval THEN <<"reduce_if", "if_opts">> ELSE <<>>)
    \o OptPre \o OptPre
OptPreLower == <<"opt_pre", "join_compute", "swapCases", "if_invert", "opt_pre">>
LlDce == <<"dce_labels", "dce_code">>
OptLl ==
  LlDce \o Times(Iterations, <<"inlineVars", "vars">>) \o <<"cmov_expand">>
    \o Times(JumpIterations, <<"jumps_part1", "jumps_part2">> \o LlDce)
    \o Times(Iterations, <<"inlineVars", "vars">>)

\* What is to be done next: a pass, in a stage, on the block at path.
Todo(stage, passes, path) == [i \in DOMAIN passes |-> [stage |-> stage, pass |-> passes[i], path |-> path]]
FromCir == Todo("cir", <<"normalize", "mksa_states", "mksa_final", "verify">>, <<>>)
FromIr ==
  Todo("ir", <<"opt", "verify", "loops">>, <<>>)
    \o Todo("preLower", OptPreLower, <<>>)
    \o Todo("ir", <<"lower", "fix_decl">>, <<>>)
FromLl == Todo("ll", OptLl, <<>>)

VARIABLES
  source,       \* the function as it was: [root, n, cir, ifEval]
  fn,           \* the function now, nested: [root, n]
  prog,         \* the flat block, once lowered
  decl,         \* the declarations fix_decl found
  todo,
  status

vars == <<source, fn, prog, decl, todo, status>>

Init ==
  /\ source \in Functions
  /\ fn = [root |-> source.root, n |-> source.n]
  /\ prog = <<>>
  /\ decl = FixDecl(<<>>)
  /\ todo = (IF source.cir THEN FromCir ELSE <<>>) \o FromIr \o FromLl
  /\ status = "nested"

Doing(stage, pass) ==
  /\ status # "rejected" /\ todo # <<>>
  /\ Head(todo).stage = stage /\ Head(todo).pass = pass
  /\ UNCHANGED source
Rest == todo' = Tail(todo)
\* The pass gives [root, n] of the function.
Gives(r) == fn' = r /\ Rest /\ UNCHANGED <<prog, decl, status>>
GivesBlock(r) == Gives([root |-> r.block, n |-> r.n])

NormalizePass == Doing("cir", "normalize") /\ Gives(Normalize(fn))
MksaStatesPass == Doing("cir", "mksa_states") /\ Gives(MksaStates(fn, <<>>))
MksaFinalPass == Doing("cir", "mksa_final") /\ GivesBlock(MksaFinal(fn.root, fn.n))

\* vx_ir_verify: with an error vx_CU_compile ends there.
VerifyPass ==
  /\ \E stage \in {"cir", "ir"} : Doing(stage, "verify")
  /\ Rest
  /\ status' = IF Verify(fn.root) THEN status ELSE "rejected"
  /\ UNCHANGED <<fn, prog, decl>>

\* The passes on every block, those inside an operation first: all of them on one
\* block before the next.
OnEveryBlock(passes) ==
  LET paths == InsideOut(fn.root, <<>>) IN
  Concat([i \in DOMAIN paths |-> Todo("block", passes, paths[i])])

\* vx_opt, which calls itself for the blocks of every operation.
OptBegin ==
  /\ Doing("ir", "opt")
  /\ todo' = OnEveryBlock(Opt(source.ifEval)) \o Tail(todo)
  /\ UNCHANGED <<fn, prog, decl, status>>

\* vx_opt_preLower: a function on every block, before the next one is called.
RecCallInOut(call) ==
  /\ Doing("preLower", call)
  /\ todo' = OnEveryBlock(<<call>>) \o Tail(todo)
  /\ UNCHANGED <<fn, prog, decl, status>>

IfPass(f, path, F(_, _)) ==
  LET r == F(BlockAt(f.root, path), f.n) IN
  [root |-> PutBlock(f.root, path, r.block), n |-> r.n]
OnBlock(pass, f, path) ==
  CASE pass = "opt_pre" -> FoldLeft(LAMBDA g, p : OptPass(p, g, path), f, OptPre)
    [] pass = "swapCases" -> IfPass(f, path, IfSwapCases)
    [] pass = "if_invert" -> IfPass(f, path, IfInvert)
    [] OTHER -> OptPass(pass, f, path)
BlockPass(pass) ==
  /\ Doing("block", pass)
  /\ fn' = OnBlock(pass, fn, Head(todo).path)
  /\ Rest
  /\ UNCHANGED <<prog, decl, status>>

PreLowerLoopsPass == Doing("ir", "loops") /\ GivesBlock(PreLowerLoops(fn.root, fn.n))

LowerPass ==
  /\ Doing("ir", "lower")
  /\ prog' = LlirLower(fn.root)
  /\ status' = "flat"
  /\ Rest
  /\ UNCHANGED <<fn, decl>>

FixDeclPass ==
  /\ Doing("ir", "fix_decl")
  /\ decl' = FixDecl(prog)
  /\ Rest
  /\ UNCHANGED <<fn, prog, status>>

\* The whole loop of a pass over the flat block (LlOpt takes it step by step).
RECURSIVE Sweep(_, _, _)
Sweep(pass, block, at) ==
  IF at > Len(block) THEN block
  ELSE LET r == Ll!Iterate(pass, block, at) IN Sweep(pass, r.prog, r.next)
LlPass(pass) ==
  /\ Doing("ll", pass)
  /\ prog' = Sweep(pass, prog, 1)
  /\ Rest
  /\ UNCHANGED <<fn, decl, status>>

Next ==
  \/ NormalizePass \/ MksaStatesPass \/ MksaFinalPass \/ VerifyPass \/ OptBegin
  \/ PreLowerLoopsPass
  \/ \E call \in ToSet(OptPreLower) : RecCallInOut(call)
  \/ \E pass \in ToSet(Opt(TRUE) \o OptPreLower) : BlockPass(pass)
  \/ LowerPass \/ FixDeclPass
  \/ \E pass \in ToSet(OptLl) : LlPass(pass)

Spec == Init /\ [][Next]_vars

--------------------------------------------------------------------------------
(***************************************************************************)
(* Properties.                                                              *)
(***************************************************************************)
Fixed == status = "flat" /\ (todo # <<>> => Head(todo).stage = "ll")

\* Every variable has its type, and every variable an operation names exists.
RECURSIVE BlockOK(_)
OpOK(op) ==
  /\ op.id \in Pure \cup Loops \cup {"STORE", "CALL", "RETURN", "BREAK", "CONTINUE", "IF", "CFOR"}
  /\ \A val \in Inputs(op) : val.kind = "var" => val.n \in 1..fn.n
  /\ \A b \in BlocksOf(op) : BlockOK(b)
BlockOK(block) ==
  /\ ToSet(block.ins) \cup ToSet(block.outs) \subseteq 1..fn.n
  /\ \A i \in DOMAIN block.ops : ToSet(block.ops[i].outs) \subseteq 1..fn.n /\ OpOK(block.ops[i])
TypeOK ==
  /\ source \in Functions
  /\ status \in {"nested", "flat", "rejected"}
  /\ fn.n \in 0..MaxVars
  /\ BlockOK(fn.root)
  /\ \A i \in DOMAIN prog : prog[i] \in Ll!Op
  /\ decl \in [vars : [1..MaxVars -> Nat], labels : [1..MaxLabels -> Nat]]

\* After every pass the function stores, calls with and returns what the one the
\* frontend made does, whatever was renamed, moved, joined, removed or flattened.
BehaviourPreserved ==
  \A env \in Envs :
    Follows(Outcome(source.root, env, Fuel),
            IF status = "flat" THEN Ll!Run(prog, env, FlatFuel)
            ELSE Outcome(fn.root, env, 2 * Fuel))

\* From construction to lowering no variable is declared twice, whatever moves from
\* one block to another (verify_ssa.c, "Variable assigned more than once").
Constructed == todo # <<>> => Head(todo).stage # "cir" \/ Head(todo).pass = "verify"
SingleAssignment ==
  status = "nested" /\ Constructed =>
    LET declared == fn.root.ins \o Declarations(fn.root.ops) IN
    Cardinality(ToSet(declared)) = Len(declared)

\* The verifier finds nothing wrong with what the passes before it made of a
\* function it should accept: ifs have as many results as their cases, loops have
\* their states, what is read has been declared.
NotRejected == status # "rejected"

\* The flat block is one the passes over it can work on: every jump made on the
\* way, those whose label came later included, has its label, once.
LoweredWellFormed == status = "flat" => Ll!WellFormed(prog)

\* What fix_decl recorded is what the jumps need: the label of every jump.
JustFixed == Fixed /\ Len(todo) = Len(FromLl)
JumpsFindLabels ==
  JustFixed =>
    \A i \in DOMAIN prog : prog[i].id \in Ll!Jumps =>
      LET at == decl.labels[prog[i].label] IN
      at # 0 /\ prog[at].id = "LABEL" /\ prog[at].label = prog[i].label

================================================================================
