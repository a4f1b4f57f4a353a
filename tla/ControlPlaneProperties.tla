----------------------- MODULE ControlPlaneProperties -----------------------
(***************************************************************************)
(* What the control plane should guarantee, apart from how it works.       *)
(***************************************************************************)
EXTENDS ControlPlane

(* The reported runtime as the abstract specification sees it. *)
Snapshot == INSTANCE RuntimeSnapshot WITH
    loaded <- runtimeLoaded, ruleset <- runtimeRuleset,
    compiled <- runtimeCompiled, revision <- syncRevision,
    NothingCompiled <- EmptyTable

(* The record moves only as RuntimeSnapshot allows: by whole installs and by  *)
(* resyncs of the installed ruleset that change a policy (service.go:291-335).*)
SnapshotSpec == Snapshot!Spec

AllCompilations == UNION {Compilations(rs) : rs \in Rulesets}

(* The writers of the maps as the abstract specification sees them: they    *)
(* are given nothing but compilations of rulesets that load.                *)
Replacement == INSTANCE PolicyReplacement WITH
    table <- tables, work <- Work, shut <- closed,
    Targets <- AllCompilations

(* However handlers and sync loops interleave in the maps, each apply deals  *)
(* with every key at most once, brings it to what its own ruleset says, in   *)
(* the order of rules/compiler.go:159-227, and fails only for a full map, a  *)
(* map that is changed while it is listed, or maps that are being closed.    *)
ReplacementSpec == Replacement!Spec

(* Types of every variable, the bounded counters included. *)
TypeOK ==
    /\ tables \in Tables
    /\ writer \in [Writers -> WriterState]
    /\ view \in Views
    /\ moves \in 0..MaxMoves
    /\ faults \in 0..MaxFaults
    /\ runtimeRuleset \in Rulesets \cup {NoRuleset}
    /\ runtimeCompiled \in Tables
    /\ runtimeLoaded \in BOOLEAN
    /\ runtimeError \in BOOLEAN
    /\ generation \in Nat
    /\ syncRevision \in 0..MaxRevision
    /\ syncCancel \in 0..MaxRevision
    /\ cancelled \subseteq Loops
    /\ closed \in BOOLEAN
    /\ handler \in [Handlers -> HandlerState]
    /\ loop \in [Loops -> LoopState]

(* The record is never a mix of two rulesets: whatever handlers and sync    *)
(* loops are in flight (service.go:291-301, 325-335), the compiled policies *)
(* reported are a compilation of the ruleset reported with them.            *)
RecordCoherent ==
    IF runtimeLoaded
    THEN runtimeRuleset \in Rulesets /\ runtimeCompiled \in Compilations(runtimeRuleset)
    ELSE runtimeRuleset = NoRuleset /\ runtimeCompiled = EmptyTable

(* restartSyncLocked keeps at most one loop that is not cancelled, it is of *)
(* the last revision, and it expands the ruleset that is the runtime; a     *)
(* runtime with executable rules has one unless the service is closed.      *)
SyncLoopMatchesRuntime ==
    /\ \A l \in Loops : Live(l) /\ l \notin cancelled =>
          /\ l = syncRevision
          /\ l = syncCancel
          /\ loop[l].rs = runtimeRuleset
    /\ runtimeRuleset \in Scanning /\ ~closed => Live(syncRevision) /\ syncRevision \notin cancelled

(* What is in flight is always a compilation of its own ruleset, and a loop  *)
(* of the current revision only applies what the record does not say yet.    *)
InFlightCoherent ==
    /\ \A h \in Handlers : handler[h].pc = "apply" =>
          /\ handler[h].rs \in Rulesets
          /\ writer[h].target \in Compilations(handler[h].rs)
    /\ \A l \in Loops : loop[l].pc \in {"check", "apply"} =>
          loop[l].compiled \in Compilations(loop[l].rs)
    /\ \A l \in Loops : loop[l].pc = "apply" /\ l = syncRevision =>
          loop[l].compiled # runtimeCompiled

(* Loops are born in the order of their revisions, each for a scanning      *)
(* ruleset; the newest expands the ruleset that is the runtime, even when    *)
(* Close has cancelled it.                                                   *)
RevisionsInOrder ==
    /\ \A l \in Loops : l > syncRevision => loop[l].pc = "unborn"
    /\ \A l \in Loops : Live(l) => loop[l].rs \in Scanning
    /\ \A l \in Loops : Live(l) /\ l = syncRevision => loop[l].rs = runtimeRuleset
    /\ \A l \in cancelled : l <= syncRevision
    /\ syncCancel \in {0, syncRevision}

(* Nobody is between calling ApplyCompiled and recording its result. *)
Quiescent ==
    /\ \A h \in Handlers : handler[h].pc # "apply"
    /\ \A l \in Loops : loop[l].pc # "apply"

(* README.md:195-196: the runtime is the snapshot that is in the BPF maps.  *)
(* When nobody is at work and the runtime is reported valid, the maps hold  *)
(* exactly the recorded policies.                                           *)
SnapshotInstalled == Quiescent /\ RuntimeValid => tables = runtimeCompiled

(* While an apply runs over maps that matched the record, a process sees    *)
(* under each key what the old or the new ruleset says, and nothing else:   *)
(* entries are overwritten in place (m.Put), never removed and put back.    *)
OldOrNew ==
    \A w \in Writers : writer[w].pc # "idle" /\ RuntimeValid =>
        \A k \in Keys : tables[k] \in {runtimeCompiled[k], writer[w].target[k]}

(* doc/config-persistence-design.md:335: an apply leaves no gap.  A process *)
(* that both the old and the new ruleset give a policy has one all along.   *)
NoPolicyGap ==
    \A w \in Writers : writer[w].pc # "idle" /\ RuntimeValid =>
        \A pid \in PidKeys, comm \in CommKeys :
            /\ Lookup(runtimeCompiled, pid, comm) # NoPolicy
            /\ Lookup(writer[w].target, pid, comm) # NoPolicy
            => Lookup(tables, pid, comm) # NoPolicy

(* That promise is broken in one case only: a process that has its policy   *)
(* from its pid alone is given one by its name alone.  Every other change of *)
(* ruleset leaves no gap, for policy_map is replaced before comm_policy_map  *)
(* and puts come before deletes (rules/compiler.go:159-227).                 *)
GapOnlyFromPidToName ==
    \A w \in Writers : writer[w].pc # "idle" /\ RuntimeValid =>
        \A pid \in PidKeys, comm \in CommKeys :
            LET old == runtimeCompiled
                new == writer[w].target
            IN  /\ Lookup(old, pid, comm) # NoPolicy
                /\ Lookup(new, pid, comm) # NoPolicy
                /\ Lookup(tables, pid, comm) = NoPolicy
                => /\ old[pid] # NoPolicy /\ old[comm] = NoPolicy
                   /\ new[pid] = NoPolicy /\ new[comm] # NoPolicy


(* The record follows the process table: once processes stop coming and     *)
(* going, the sync loop of a service that is not closed brings the recorded *)
(* policies up to date for good (service.go:261-303).                       *)
RecordFollowsProcesses ==
    <>[](runtimeRuleset \in Scanning /\ ~closed =>
             runtimeCompiled = CompileOf[runtimeRuleset][view])

(* A loop that has been cancelled ends, though it may run once more first.  *)
CancelledLoopsEnd == \A l \in Loops : l \in cancelled ~> loop[l].pc = "exited"

(* Every request is answered, also with other writers in the maps. *)
RequestsAnswered == \A h \in Handlers : handler[h].pc # "idle" ~> handler[h].pc = "idle"

=============================================================================
