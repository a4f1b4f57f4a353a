-------------------------- MODULE RuntimeSnapshot --------------------------
(***************************************************************************)
(* What the control plane promises about the state it reports as the       *)
(* runtime: it only ever moves by installing a whole ruleset or by         *)
(* re-expanding the installed one over the processes that run now, one     *)
(* generation at a time.  ControlPlane implements it.                      *)
(***************************************************************************)
EXTENDS Integers

CONSTANTS
    Rulesets,       \* rulesets that load and validate
    NoRuleset,      \* the zero Ruleset{} of a service that has loaded nothing
    Scanning,       \* rulesets with an enabled executable rule
    Views,          \* the process tables a compilation may see
    CompileOf,      \* ruleset -> process table -> compiled policies
    NothingCompiled \* the zero Compiled{}

VARIABLES loaded, ruleset, compiled, generation,
    revision        \* installs so far

vars == <<loaded, ruleset, compiled, generation, revision>>

Init ==
    /\ loaded = FALSE
    /\ ruleset = NoRuleset
    /\ compiled = NothingCompiled
    /\ generation = 0
    /\ revision = 0

Install(rs, v) ==
    /\ loaded' = TRUE
    /\ ruleset' = rs
    /\ compiled' = CompileOf[rs][v]
    /\ generation' = generation + 1
    /\ revision' = revision + 1

(* The same ruleset, over another process table: a new generation only if *)
(* that changes a policy.                                                  *)
Resync(v) ==
    /\ loaded
    /\ ruleset \in Scanning
    /\ CompileOf[ruleset][v] # compiled
    /\ compiled' = CompileOf[ruleset][v]
    /\ generation' = generation + 1
    /\ UNCHANGED <<loaded, ruleset, revision>>

Next == \E v \in Views : Resync(v) \/ \E rs \in Rulesets : Install(rs, v)

Spec == Init /\ [][Next]_vars

=============================================================================
