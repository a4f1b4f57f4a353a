------------------------------ MODULE Compiler ------------------------------
(***************************************************************************)
(* The ruleset compiler: validation and CompileWithReport, which flattens  *)
(* the rules into one policy per pid and one per comm.                     *)
(*                                                                         *)
(* The loop over the rules is one step per rule.  A rule stands for the    *)
(* policy built from it, an id for its place in the order of strings.      *)
(***************************************************************************)
EXTENDS Integers, Sequences

CONSTANTS
    Ids,            \* integers, ordered as the id strings are
    Pids, Comms, Exes,
    Priorities,     \* integers
    None,
    MaxRules,       \* bound: rules in rules.d
    ExeOf,          \* the view of /proc: pid -> executable, None if unreadable
    CommOf          \* pid -> the name bpf_get_current_comm returns

ASSUME IdsAssumption == Ids \subseteq Int
ASSUME PrioritiesAssumption == Priorities \subseteq Int
ASSUME KeysAssumption == Pids \cap Comms = {}
ASSUME BoundAssumption == MaxRules \in Nat
ASSUME ViewAssumption ==
    /\ ExeOf \in [Pids -> Exes \cup {None}]
    /\ CommOf \in [Pids -> Comms]
    /\ None \notin Exes

Matches == [sel : {"pid"}, on : Pids] \cup [sel : {"comm"}, on : Comms]
           \cup [sel : {"exe"}, on : Exes]

Rule == [id : Ids, enabled : BOOLEAN, priority : Priorities,
         match : Matches, action : {"hide", "rewrite"}]

ASSUME NoneAssumption == None \notin Rule

Keys == Pids \cup Comms     \* of policy_map and of comm_policy_map

VARIABLES
    rules,      \* the merged ruleset
    at,         \* the rule the loop is at, 0 before validation
    candidates, \* pidCandidates and commCandidates: per key a rule or None
    warnings,   \* the report
    failed      \* validation returned an error

vars == <<rules, at, candidates, warnings, failed>>

Done == at > Len(rules)

IsRuleset(seq) == \E n \in 0..MaxRules : seq \in [1..n -> Rule]

Init ==
    /\ \E n \in 0..MaxRules : rules \in [1..n -> Rule]
    /\ at = 0
    /\ candidates = [k \in Keys |-> None]
    /\ warnings = {}
    /\ failed = FALSE

DuplicateIds == \E i, j \in 1..Len(rules) : i # j /\ rules[i].id = rules[j].id

(* ValidateRulesetReport, as far as it relates rules: ids are unique, those *)
(* of disabled rules too.                                                   *)
Validate ==
    /\ at = 0
    /\ ~ failed
    /\ IF DuplicateIds
       THEN failed' = TRUE /\ UNCHANGED at
       ELSE at' = 1 /\ UNCHANGED failed
    /\ UNCHANGED <<rules, candidates, warnings>>

Specificity(r) ==
    CASE r.match.sel = "pid" -> 3
      [] r.match.sel = "exe" -> 2
      [] r.match.sel = "comm" -> 1

(* Mutant: the priority is compared first. *)
ShouldReplaceByPriorityFirst(current, next) ==
    IF next.priority # current.priority
    THEN next.priority < current.priority
    ELSE IF Specificity(next) # Specificity(current)
    THEN Specificity(next) > Specificity(current)
    ELSE IF next.action # current.action
    THEN next.action = "hide"
    ELSE next.id < current.id

ShouldReplace(current, next) ==
    IF Specificity(next) # Specificity(current)
    THEN Specificity(next) > Specificity(current)
    ELSE IF next.priority # current.priority
    THEN next.priority < current.priority
    ELSE IF next.action # current.action
    THEN next.action = "hide"
    ELSE next.id < current.id

(* The keys a rule puts a policy under, in this view of the processes. *)
Selected(r) ==
    IF r.match.sel = "exe" THEN {pid \in Pids : ExeOf[pid] = r.match.on}
                           ELSE {r.match.on}

(* Mutant: only the rule that is replaced is reported. *)
ShadowedOnReplace(r) ==
    {[lost |-> candidates[k], kept |-> r, target |-> k] :
        k \in {key \in Selected(r) : /\ candidates[key] # None
                                     /\ ShouldReplace(candidates[key], r)}}

(* The warnings of the two branches of "!ok || shouldReplace". *)
Shadowed(r) ==
    {[lost |-> IF ShouldReplace(candidates[k], r) THEN candidates[k] ELSE r,
      kept |-> IF ShouldReplace(candidates[k], r) THEN r ELSE candidates[k],
      target |-> k] : k \in {key \in Selected(r) : candidates[key] # None}}

(* Mutant: the executable is taken for a key. *)
UnmatchedByExe(r) ==
    IF Selected(r) = {} THEN {[lost |-> r, kept |-> None, target |-> r.match.on]} ELSE {}

(* match.exe matched no running processes *)
Unmatched(r) ==
    IF Selected(r) = {} THEN {[lost |-> r, kept |-> None, target |-> None]} ELSE {}

CompileRule ==
    LET r == rules[at] IN
    /\ at > 0
    /\ ~ Done
    /\ at' = at + 1
    /\ IF r.enabled
       THEN /\ candidates' =
                  [k \in Keys |->
                      IF /\ k \in Selected(r)
                         /\ candidates[k] = None \/ ShouldReplace(candidates[k], r)
                      THEN r ELSE candidates[k]]
            /\ warnings' = warnings \cup Shadowed(r) \cup Unmatched(r)
       ELSE UNCHANGED <<candidates, warnings>>
    /\ UNCHANGED <<rules, failed>>

Next == Validate \/ CompileRule

Spec == Init /\ [][Next]_vars

-----------------------------------------------------------------------------
(* Properties *)

(* Types of every variable. *)
TypeOK ==
    /\ IsRuleset(rules)
    /\ at \in 0..(Len(rules) + 1)
    /\ candidates \in [Keys -> Rule \cup {None}]
    /\ warnings \subseteq [lost : Rule, kept : Rule \cup {None}, target : Keys \cup {None}]
    /\ failed \in BOOLEAN

(* The order of doc/config-persistence-design.md:263-269 between two rules:  *)
(* selector, then priority, then hide before rewrite, then the id.           *)
Rank(r) == <<- Specificity(r), r.priority, IF r.action = "hide" THEN 0 ELSE 1, r.id>>

Precedes(r, s) ==
    \E n \in 1..4 : /\ Rank(r)[n] < Rank(s)[n]
                    /\ \A m \in 1..(n - 1) : Rank(r)[m] = Rank(s)[m]

(* The enabled rules that name a process, by pid, executable or name. *)
Matching(pid) ==
    {r \in {rules[i] : i \in 1..Len(rules)} :
        /\ r.enabled
        /\ \/ r.match.sel = "pid" /\ r.match.on = pid
           \/ r.match.sel = "exe" /\ r.match.on = ExeOf[pid]
           \/ r.match.sel = "comm" /\ r.match.on = CommOf[pid]}

(* What lookup_policy finds for a process in the compiled maps. *)
Effective(pid) ==
    IF candidates[pid] # None THEN candidates[pid] ELSE candidates[CommOf[pid]]

(* Of all the rules that name a process, the one lookup_policy finds is the *)
(* first in the documented order, in whatever order rules and processes     *)
(* are met (compiler.go:77-146, 189-200, agentguardian.bpf.c:125-139).      *)
DocumentedRuleWins ==
    Done => \A pid \in Pids :
        IF Matching(pid) = {}
        THEN Effective(pid) = None
        ELSE /\ Effective(pid) \in Matching(pid)
             /\ \A r \in Matching(pid) \ {Effective(pid)} : Precedes(Effective(pid), r)

(* Every enabled rule that loses a key, or has none, is reported, and no     *)
(* rule is reported lost where it is in force (compiler.go:95-102, 131-142).  *)
LosersReported ==
    Done => \A i \in {j \in 1..Len(rules) : rules[j].enabled} :
        /\ \A k \in Selected(rules[i]) :
              candidates[k] # rules[i] <=>
                  \E w \in warnings : w.lost = rules[i] /\ w.target = k
        /\ Selected(rules[i]) = {} => \E w \in warnings : w.lost = rules[i]

=============================================================================
