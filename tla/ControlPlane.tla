---------------------------- MODULE ControlPlane ----------------------------
(***************************************************************************)
(* agentguardd's control plane (control.Service): request handlers that    *)
(* compile a ruleset, apply it to the BPF maps and record it as the        *)
(* runtime, and the background sync loop that re-expands executable rules  *)
(* over the running processes.                                             *)
(*                                                                         *)
(* The service lock (s.mu) is held only to read or write the record.       *)
(* ApplyCompiled runs outside it, so handlers, the current sync loop and   *)
(* sync loops that are already cancelled all may write the maps at once:   *)
(* each is a writer of PolicyMaps.  An action here is one critical section *)
(* or one call between two of them.                                        *)
(***************************************************************************)
EXTENDS PolicyMaps

CONSTANTS
    Handlers,       \* goroutines that serve Reload / ApplyRuntime
    Rulesets,       \* rulesets that load and validate
    NoRuleset,      \* a ruleset that does not load or validate, or Ruleset{}
    Scanning,       \* rulesets for which NeedsProcessScan holds
    Views,          \* what a listing of /proc may show
    CompileOf,      \* ruleset -> view -> Compiled
    MaxRevision,    \* bound: requests that may install a ruleset
    MaxMoves,       \* bound: changes of the process table
    MaxFaults       \* bound: failed listings of /proc

(* A sync loop is named by the revision it was started for. *)
Loops == 1..MaxRevision
Writers == Handlers \cup Loops

ASSUME HandlersAssumption == Handlers \cap Nat = {}
ASSUME RulesetsAssumption == NoRuleset \notin Rulesets /\ Scanning \subseteq Rulesets
ASSUME BoundsAssumption == MaxRevision \in Nat /\ MaxMoves \in Nat /\ MaxFaults \in Nat
ASSUME CompileAssumption ==
    /\ CompileOf \in [Rulesets -> [Views -> Tables]]
    /\ \A rs \in Rulesets \ Scanning : \A v, w \in Views : CompileOf[rs][v] = CompileOf[rs][w]

VARIABLES
    view,               \* the processes running now
    moves, faults,      \* what is left of MaxMoves and MaxFaults
    runtimeRuleset, runtimeCompiled, runtimeLoaded, generation,
    runtimeError,       \* runtimeError # ""
    syncRevision,
    syncCancel,         \* the loop this cancel function stops, 0 for nil
    cancelled,          \* loops whose context is done
    closed,             \* Service.Close has run
    handler,            \* per handler: where it is, the ruleset it installs
    loop                \* per sync loop: where it is, its ruleset, what it compiled

envVars == <<view, moves, faults>>
recordVars == <<runtimeRuleset, runtimeCompiled, runtimeLoaded, generation>>
syncVars == <<syncRevision, syncCancel, cancelled, closed>>
controlVars == <<envVars, recordVars, runtimeError, syncVars, handler, loop>>
mapVars == <<tables, writer>>
vars == <<mapVars, controlVars>>

HandlerState == [pc : {"idle", "compile", "apply"}, rs : Rulesets \cup {NoRuleset}]
IdleHandler == [pc |-> "idle", rs |-> NoRuleset]

LoopState ==
    [pc : {"unborn", "wait", "check", "apply", "exited"},
     rs : Scanning \cup {NoRuleset},
     compiled : Tables]
UnbornLoop == [pc |-> "unborn", rs |-> NoRuleset, compiled |-> EmptyTable]

(* What a Compile of rs can return, for some listing of /proc. *)
Compilations(rs) == {CompileOf[rs][v] : v \in Views}

(* RulesetState.Valid of the runtime (runtimeStateLocked). *)
RuntimeValid == runtimeLoaded /\ ~runtimeError

Busy == {h \in Handlers : handler[h].pc # "idle"}
Live(l) == loop[l].pc \notin {"unborn", "exited"}

Init ==
    /\ tables = EmptyTable
    /\ writer = [w \in Writers |-> IdleWriter]
    /\ view \in Views
    /\ moves = MaxMoves
    /\ faults = MaxFaults
    /\ runtimeRuleset = NoRuleset
    /\ runtimeCompiled = EmptyTable
    /\ runtimeLoaded = FALSE
    /\ runtimeError = FALSE
    /\ generation = 0
    /\ syncRevision = 0
    /\ syncCancel = 0
    /\ cancelled = {}
    /\ closed = FALSE
    /\ handler = [h \in Handlers |-> IdleHandler]
    /\ loop = [l \in Loops |-> UnbornLoop]

-----------------------------------------------------------------------------
(* Request handlers *)

(* Reload and ApplyRuntime.  rules.d may hold anything when Reload reads it,  *)
(* and ApplyRuntime is given any ruleset; either may not load or validate.   *)
(* Nothing refuses a request that begins after Close: the server is shut     *)
(* down later.                                                               *)
Request(h) ==
    /\ handler[h].pc = "idle"
    /\ syncRevision + Cardinality(Busy) < MaxRevision
    /\ \E rs \in Rulesets \cup {NoRuleset} :
          handler' = [handler EXCEPT ![h] = [pc |-> "compile", rs |-> rs]]
    /\ UNCHANGED <<mapVars, envVars, recordVars, runtimeError, syncVars, loop>>

(* The ruleset does not load or validate: the error is the reply and the *)
(* runtime is left alone.                                                 *)
Rejected(h) ==
    /\ handler[h].pc = "compile"
    /\ handler[h].rs = NoRuleset
    /\ handler' = [handler EXCEPT ![h] = IdleHandler]
    /\ UNCHANGED <<mapVars, envVars, recordVars, runtimeError, syncVars, loop>>

(* An executable rule needs /proc and /proc cannot be listed. *)
HandlerScanFails(h) ==
    /\ handler[h].pc = "compile"
    /\ handler[h].rs \in Scanning
    /\ faults > 0
    /\ faults' = faults - 1
    /\ handler' = [handler EXCEPT ![h] = IdleHandler]
    /\ UNCHANGED <<mapVars, view, moves, recordVars, runtimeError, syncVars, loop>>

(* CompileWithReport, and the call of ApplyCompiled it leads to. *)
HandlerCompile(h) ==
    /\ handler[h].pc = "compile"
    /\ handler[h].rs \in Rulesets
    /\ handler' = [handler EXCEPT ![h].pc = "apply"]
    /\ writer' = [writer EXCEPT ![h] = BeginApply(CompileOf[handler[h].rs][view])]
    /\ UNCHANGED <<tables, envVars, recordVars, runtimeError, syncVars, loop>>

(* Mutant: the failure is only in the reply, not in the record. *)
HandlerApplyFailedSilently(h) ==
    /\ handler[h].pc = "apply"
    /\ writer[h].pc = "failed"
    /\ handler' = [handler EXCEPT ![h] = IdleHandler]
    /\ writer' = [writer EXCEPT ![h] = IdleWriter]
    /\ UNCHANGED <<tables, envVars, recordVars, runtimeError, syncVars, loop>>

HandlerApplyFailed(h) ==
    /\ handler[h].pc = "apply"
    /\ writer[h].pc = "failed"
    /\ runtimeError' = TRUE
    /\ handler' = [handler EXCEPT ![h] = IdleHandler]
    /\ writer' = [writer EXCEPT ![h] = IdleWriter]
    /\ UNCHANGED <<tables, envVars, recordVars, syncVars, loop>>

(* Mutant: every ruleset gets a sync loop. *)
RestartSyncAlways(rs) ==
    LET revision == syncRevision + 1 IN
    /\ revision \in Loops
    /\ syncRevision' = revision
    /\ cancelled' = cancelled \cup ({syncCancel} \ {0})
    /\ syncCancel' = revision
    /\ loop' = [loop EXCEPT ![revision] = [UnbornLoop EXCEPT !.pc = "wait", !.rs = rs]]
    /\ UNCHANGED closed

(* Mutant: the old loop is left running when the new ruleset needs none. *)
RestartSyncUncancelled(rs) ==
    LET revision == syncRevision + 1 IN
    /\ revision \in Loops
    /\ syncRevision' = revision
    /\ IF rs \in Scanning
       THEN /\ cancelled' = cancelled \cup ({syncCancel} \ {0})
            /\ syncCancel' = revision
            /\ loop' = [loop EXCEPT ![revision] = [UnbornLoop EXCEPT !.pc = "wait", !.rs = rs]]
       ELSE UNCHANGED <<cancelled, syncCancel, loop>>
    /\ UNCHANGED closed

(* restartSyncLocked: a new revision, the old loop cancelled, and a loop of *)
(* its own for a ruleset that needs one.                                     *)
RestartSync(rs) ==
    LET revision == syncRevision + 1 IN
    /\ revision \in Loops
    /\ syncRevision' = revision
    /\ cancelled' = cancelled \cup ({syncCancel} \ {0})
    /\ syncCancel' = IF rs \in Scanning THEN revision ELSE 0
    /\ loop' = IF rs \in Scanning
               THEN [loop EXCEPT ![revision] = [UnbornLoop EXCEPT !.pc = "wait", !.rs = rs]]
               ELSE loop
    /\ UNCHANGED closed

(* The second half of applyRuntime, one critical section. *)
Publish(h) ==
    /\ handler[h].pc = "apply"
    /\ writer[h].pc = "applied"
    /\ runtimeRuleset' = handler[h].rs
    /\ runtimeCompiled' = writer[h].target
    /\ runtimeLoaded' = TRUE
    /\ runtimeError' = FALSE
    /\ generation' = generation + 1
    /\ RestartSync(handler[h].rs)
    /\ handler' = [handler EXCEPT ![h] = IdleHandler]
    /\ writer' = [writer EXCEPT ![h] = IdleWriter]
    /\ UNCHANGED <<tables, envVars>>

HandlerStep(h) ==
    \/ Rejected(h) \/ HandlerScanFails(h) \/ HandlerCompile(h)
    \/ HandlerApplyFailed(h) \/ Publish(h)

-----------------------------------------------------------------------------
(* The sync loop *)

(* A tick, and the compilation that follows it.  When the context is done  *)
(* as well, select picks either case: a cancelled loop may run once more.  *)
LoopCompile(l) ==
    /\ loop[l].pc = "wait"
    /\ loop' = [loop EXCEPT ![l] = [@ EXCEPT !.pc = "check", !.compiled = CompileOf[loop[l].rs][view]]]
    /\ UNCHANGED <<mapVars, envVars, recordVars, runtimeError, syncVars, handler>>

(* Mutant: the loop returns on an error, where the code goes on. *)
LoopReturnsOnError(l) ==
    /\ loop[l].pc = "wait"
    /\ faults > 0
    /\ faults' = faults - 1
    /\ runtimeError' = TRUE
    /\ loop' = [loop EXCEPT ![l] = [UnbornLoop EXCEPT !.pc = "exited"]]
    /\ UNCHANGED <<mapVars, view, moves, recordVars, syncVars, handler>>

LoopScanFails(l) ==
    /\ loop[l].pc = "wait"
    /\ faults > 0
    /\ faults' = faults - 1
    /\ runtimeError' = TRUE
    /\ UNCHANGED <<mapVars, view, moves, recordVars, syncVars, handler, loop>>

(* Mutant: the loop watches the service, not its own context. *)
LoopExitOnClose(l) ==
    /\ loop[l].pc = "wait"
    /\ closed
    /\ loop' = [loop EXCEPT ![l] = [UnbornLoop EXCEPT !.pc = "exited"]]
    /\ UNCHANGED <<mapVars, envVars, recordVars, runtimeError, syncVars, handler>>

LoopExit(l) ==
    /\ loop[l].pc = "wait"
    /\ l \in cancelled
    /\ loop' = [loop EXCEPT ![l] = [UnbornLoop EXCEPT !.pc = "exited"]]
    /\ UNCHANGED <<mapVars, envVars, recordVars, runtimeError, syncVars, handler>>

(* Mutant: the record is not compared. *)
ReplacedOnly(l) == syncRevision # l

(* What the loop does under the read lock: nothing to do if the record     *)
(* already says so, or if the loop has been replaced.                      *)
UpToDate(l) == loop[l].compiled = runtimeCompiled \/ syncRevision # l

LoopSkip(l) ==
    /\ loop[l].pc = "check"
    /\ UpToDate(l)
    /\ loop' = [loop EXCEPT ![l] = [@ EXCEPT !.pc = "wait", !.compiled = EmptyTable]]
    /\ UNCHANGED <<mapVars, envVars, recordVars, runtimeError, syncVars, handler>>

LoopApply(l) ==
    /\ loop[l].pc = "check"
    /\ ~UpToDate(l)
    /\ loop' = [loop EXCEPT ![l].pc = "apply"]
    /\ writer' = [writer EXCEPT ![l] = BeginApply(loop[l].compiled)]
    /\ UNCHANGED <<tables, envVars, recordVars, runtimeError, syncVars, handler>>

LoopBackToWait(l) ==
    /\ loop' = [loop EXCEPT ![l] = [@ EXCEPT !.pc = "wait", !.compiled = EmptyTable]]
    /\ writer' = [writer EXCEPT ![l] = IdleWriter]
    /\ UNCHANGED <<tables, envVars, syncVars, handler>>

LoopApplyFailed(l) ==
    /\ loop[l].pc = "apply"
    /\ writer[l].pc = "failed"
    /\ runtimeError' = TRUE
    /\ UNCHANGED recordVars
    /\ LoopBackToWait(l)

(* The revision is checked again before the result is recorded. *)
LoopDiscard(l) ==
    /\ loop[l].pc = "apply"
    /\ writer[l].pc = "applied"
    /\ syncRevision # l
    /\ UNCHANGED <<recordVars, runtimeError>>
    /\ LoopBackToWait(l)

(* Mutant: the revision is not checked again. *)
LoopPublishUnchecked(l) ==
    /\ loop[l].pc = "apply"
    /\ writer[l].pc = "applied"
    /\ runtimeCompiled' = loop[l].compiled
    /\ runtimeError' = FALSE
    /\ generation' = generation + 1
    /\ UNCHANGED <<runtimeRuleset, runtimeLoaded>>
    /\ LoopBackToWait(l)

LoopPublish(l) ==
    /\ loop[l].pc = "apply"
    /\ writer[l].pc = "applied"
    /\ syncRevision = l
    /\ runtimeCompiled' = loop[l].compiled
    /\ runtimeError' = FALSE
    /\ generation' = generation + 1
    /\ UNCHANGED <<runtimeRuleset, runtimeLoaded>>
    /\ LoopBackToWait(l)

LoopStep(l) ==
    \/ LoopCompile(l) \/ LoopScanFails(l) \/ LoopSkip(l) \/ LoopApply(l)
    \/ LoopApplyFailed(l) \/ LoopDiscard(l) \/ LoopPublish(l)

-----------------------------------------------------------------------------

(* Service.Close; main calls it, and calls it again when it returns. *)
ServiceClose ==
    /\ ~closed \/ syncCancel # 0
    /\ closed' = TRUE
    /\ cancelled' = cancelled \cup ({syncCancel} \ {0})
    /\ syncCancel' = 0
    /\ UNCHANGED <<mapVars, envVars, recordVars, runtimeError, syncRevision, handler, loop>>

MapStep(w) == ApplyStep(w) /\ UNCHANGED controlVars

(* main closes the maps after it has called Close; requests that hang and  *)
(* the loops' last passes may still be at work in them.                     *)
MapClosed(w) == closed /\ CallFails(w) /\ UNCHANGED controlVars

(* The environment: processes start and end. *)
ProcessesChange ==
    /\ moves > 0
    /\ moves' = moves - 1
    /\ \E v \in Views \ {view} : view' = v
    /\ UNCHANGED <<mapVars, faults, recordVars, runtimeError, syncVars, handler, loop>>

Next ==
    \/ \E h \in Handlers : Request(h) \/ HandlerStep(h)
    \/ \E l \in Loops : LoopStep(l) \/ LoopExit(l)
    \/ \E w \in Writers : MapStep(w) \/ MapClosed(w)
    \/ ServiceClose
    \/ ProcessesChange

Spec == Init /\ [][Next]_vars

(* Every goroutine is scheduled, system calls return, and a done context   *)
(* is not passed over by select for ever (Go picks a ready case at random).*)
Fairness ==
    /\ \A h \in Handlers : WF_vars(HandlerStep(h))
    /\ \A l \in Loops : WF_vars(LoopStep(l)) /\ SF_vars(LoopExit(l))
    /\ \A w \in Writers : WF_vars(MapStep(w))

FairSpec == Spec /\ Fairness
=============================================================================
