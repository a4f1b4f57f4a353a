---------------------------- MODULE CommandLine ----------------------------
(***************************************************************************)
(* cmd/agentguardian: the program without a daemon.  It either applies a   *)
(* ruleset (-rules) or the policies its flags name, and then follows the   *)
(* running processes from one goroutine, the only writer of the maps.      *)
(*                                                                         *)
(* Rules mode replaces both maps on every tick (SyncCompiledPolicies).     *)
(* Flags mode puts and deletes only what executables add to policy_map     *)
(* (SyncExecutablePolicies), beside the policies it put there at start.    *)
(***************************************************************************)
EXTENDS PolicyMaps, Sequences

CONSTANTS
    Rulesets, Scanning, \* rulesets that load; those with executable rules
    Configs,            \* parsed flags without -rules
    Exes,               \* executables, as canonical paths
    Views,              \* what a listing of /proc may show
    CompileOf,          \* ruleset -> view -> Compiled
    ExeOf,              \* view -> pid -> executable, None if there is none
    Hide, Rewrite,      \* the policies built from -path, -find and -replace
    None,               \* pid 0, no executable
    MaxMoves,           \* bound: changes of the process table
    MaxFaults           \* bound: failed listings of /proc

Config ==
    [rewritePid : PidKeys \cup {None}, explicit : BOOLEAN, hidePid : PidKeys \cup {None},
     rewriteComms : Seq(CommKeys), hideComms : Seq(CommKeys),
     rewriteExes : SUBSET Exes, hideExes : SUBSET Exes,
     text : {"none", "ok", "bad"}]      \* -find and -replace

ASSUME ConfigsAssumption == Configs \subseteq Config /\ Configs \cap Rulesets = {}
ASSUME RulesetsAssumption == Scanning \subseteq Rulesets
ASSUME CompileAssumption ==
    /\ CompileOf \in [Rulesets -> [Views -> Tables]]
    /\ \A rs \in Rulesets \ Scanning : \A v, w \in Views : CompileOf[rs][v] = CompileOf[rs][w]
ASSUME ViewsAssumption == ExeOf \in [Views -> [PidKeys -> Exes \cup {None}]]
ASSUME PoliciesAssumption == Policies = {Hide, Rewrite} /\ Hide # Rewrite
ASSUME NoneAssumption == None \notin PidKeys /\ None \notin Exes
ASSUME KeysFinite == IsFiniteSet(Keys)
ASSUME MapsAssumption == PidMax \in Nat /\ CommMax \in Nat
ASSUME BoundsAssumption == MaxMoves \in Nat /\ MaxFaults \in Nat

VARIABLES
    cfg,            \* a ruleset or the flags
    view,           \* the processes running now
    moves, faults,  \* what is left of MaxMoves and MaxFaults
    done,           \* the context is done
    pc,
    todo,           \* flags mode: the puts of config.Apply that are left
    last            \* flags mode: pids of the last pass that succeeded

envVars == <<cfg, view, moves, faults, done>>
vars == <<tables, writer, envVars, pc, todo, last>>

Sync == "sync"      \* the writer

RulesMode == cfg \in Rulesets

Init ==
    /\ tables = EmptyTable
    /\ writer = [w \in {Sync} |-> IdleWriter]
    /\ cfg \in Rulesets \cup Configs
    /\ view \in Views
    /\ moves = MaxMoves
    /\ faults = MaxFaults
    /\ done = FALSE
    /\ pc = "start"
    /\ todo = << >>
    /\ last = {}

-----------------------------------------------------------------------------
(* Flags *)

RewriteRequested(c) ==
    c.explicit \/ c.rewriteComms # << >> \/ c.rewriteExes # {} \/ c.text # "none"

(* Mutant: pid 0 is taken for a process. *)
ShouldApplyRewritePIDZero(c) ==
    /\ RewriteRequested(c)
    /\ c.explicit \/ (c.rewriteComms = << >> /\ c.rewriteExes = {})

ShouldApplyRewritePID(c) ==
    /\ RewriteRequested(c)
    /\ c.rewritePid # None
    /\ c.explicit \/ (c.rewriteComms = << >> /\ c.rewriteExes = {})

EffectiveRewritePID(c) == IF ShouldApplyRewritePID(c) THEN c.rewritePid ELSE None

(* Mutant: only the pid to hide from is static. *)
IsHidePID(c, pid) == pid = c.hidePid

IsStaticPID(c, pid) == pid = EffectiveRewritePID(c) \/ pid = c.hidePid

PutPID(pid, policy) == <<[key |-> pid, policy |-> policy]>>
PutComms(comms, policy) == [n \in DOMAIN comms |-> [key |-> comms[n], policy |-> policy]]

(* The puts of config.Apply, in its order. *)
RewritePuts(c) ==
    IF RewriteRequested(c)
    THEN (IF ShouldApplyRewritePID(c) THEN PutPID(c.rewritePid, Rewrite) ELSE << >>)
         \o PutComms(c.rewriteComms, Rewrite)
    ELSE << >>

HidePuts(c) ==
    (IF c.hidePid # None THEN PutPID(c.hidePid, Hide) ELSE << >>)
    \o PutComms(c.hideComms, Hide)

StaticPuts(c) == RewritePuts(c) \o HidePuts(c)

(* buildExecutablePolicies: hiding wins over rewriting. *)
ExecutablePolicies(c, v) ==
    [k \in Keys |->
        IF k \notin PidKeys \/ ExeOf[v][k] = None THEN NoPolicy
        ELSE IF ExeOf[v][k] \in c.hideExes THEN Hide
        ELSE IF ExeOf[v][k] \in c.rewriteExes THEN Rewrite
        ELSE NoPolicy]

NeedsProcessScan ==
    IF RulesMode THEN cfg \in Scanning ELSE cfg.rewriteExes \cup cfg.hideExes # {}

-----------------------------------------------------------------------------
(* Start: any failure is fatal (log.Fatalf). *)

Fatal == pc' = "fatal"

StartScanFails ==
    /\ pc = "start"
    /\ RulesMode /\ NeedsProcessScan
    /\ faults > 0
    /\ faults' = faults - 1
    /\ Fatal
    /\ UNCHANGED <<tables, writer, cfg, view, moves, done, todo, last>>

StartRules ==
    /\ pc = "start"
    /\ RulesMode
    /\ pc' = "install"
    /\ writer' = [writer EXCEPT ![Sync] = BeginApply(CompileOf[cfg][view])]
    /\ UNCHANGED <<tables, envVars, todo, last>>

InstallEnds ==
    /\ pc = "install"
    /\ writer[Sync].pc \in {"applied", "failed"}
    /\ pc' = IF writer[Sync].pc = "applied" THEN "wait" ELSE "fatal"
    /\ writer' = [writer EXCEPT ![Sync] = IdleWriter]
    /\ UNCHANGED <<tables, envVars, todo, last>>

(* The rewriting policy is built before anything is put. *)
StartFlags ==
    /\ pc = "start"
    /\ ~ RulesMode
    /\ IF RewriteRequested(cfg) /\ cfg.text # "ok"
       THEN Fatal /\ UNCHANGED todo
       ELSE pc' = "static" /\ todo' = StaticPuts(cfg)
    /\ UNCHANGED <<tables, writer, envVars, last>>

MapOf(k) == IF k \in PidKeys THEN "pid" ELSE "comm"

StaticPut ==
    /\ pc = "static"
    /\ todo # << >>
    /\ IF HasRoom(Head(todo).key, MapOf(Head(todo).key))
       THEN /\ tables' = [tables EXCEPT ![Head(todo).key] = Head(todo).policy]
            /\ todo' = Tail(todo)
            /\ UNCHANGED pc
       ELSE Fatal /\ UNCHANGED <<tables, todo>>
    /\ UNCHANGED <<writer, envVars, last>>

(* SyncExecutablePolicies begins with a pass, SyncCompiledPolicies with a tick. *)
StaticDone ==
    /\ pc = "static"
    /\ todo = << >>
    /\ pc' = "pass"
    /\ UNCHANGED <<tables, writer, envVars, todo, last>>

-----------------------------------------------------------------------------
(* The passes *)

(* A ruleset without executable rules has no ticks. *)
Tick ==
    /\ pc = "wait"
    /\ RulesMode => NeedsProcessScan
    /\ pc' = "pass"
    /\ UNCHANGED <<tables, writer, envVars, todo, last>>

(* Mutant: the goroutine returns on an error. *)
PassScanFailsReturns ==
    /\ pc = "pass"
    /\ NeedsProcessScan
    /\ faults > 0
    /\ faults' = faults - 1
    /\ pc' = "returned"
    /\ UNCHANGED <<tables, writer, cfg, view, moves, done, todo, last>>

PassScanFails ==
    /\ pc = "pass"
    /\ NeedsProcessScan
    /\ faults > 0
    /\ faults' = faults - 1
    /\ pc' = "wait"
    /\ UNCHANGED <<tables, writer, cfg, view, moves, done, todo, last>>

PassCompile ==
    /\ pc = "pass"
    /\ RulesMode
    /\ pc' = "apply"
    /\ writer' = [writer EXCEPT ![Sync] = BeginApply(CompileOf[cfg][view])]
    /\ UNCHANGED <<tables, envVars, todo, last>>

(* The call of reconcileExecutablePolicies: what to put, what to delete. *)
PassReconcile ==
    LET current == ExecutablePolicies(cfg, view) IN
    /\ pc = "pass"
    /\ ~ RulesMode
    /\ pc' = "reconcile"
    /\ writer' = [writer EXCEPT ![Sync] =
          [pc |-> "replace", map |-> "pid", target |-> current,
           puts |-> Present(current),
           dels |-> {pid \in last \ Present(current) : ~ IsStaticPID(cfg, pid)}]]
    /\ UNCHANGED <<tables, envVars, todo, last>>

(* Both modes log a failed pass and wait for the next tick. *)
PassFails ==
    /\ pc \in {"apply", "reconcile"}
    /\ writer[Sync].pc = "failed"
    /\ pc' = "wait"
    /\ writer' = [writer EXCEPT ![Sync] = IdleWriter]
    /\ UNCHANGED <<tables, envVars, todo, last>>

ApplyDone ==
    /\ pc = "apply"
    /\ writer[Sync].pc = "applied"
    /\ pc' = "wait"
    /\ writer' = [writer EXCEPT ![Sync] = IdleWriter]
    /\ UNCHANGED <<tables, envVars, todo, last>>

(* Mutant: pids that are still there are not remembered again. *)
ReconcileDoneNewOnly ==
    /\ pc = "reconcile"
    /\ writer[Sync].pc = "replace" /\ writer[Sync].puts = {} /\ writer[Sync].dels = {}
    /\ pc' = "wait"
    /\ last' = Present(writer[Sync].target) \ last
    /\ writer' = [writer EXCEPT ![Sync] = IdleWriter]
    /\ UNCHANGED <<tables, envVars, todo>>

ReconcileDone ==
    /\ pc = "reconcile"
    /\ writer[Sync].pc = "replace" /\ writer[Sync].puts = {} /\ writer[Sync].dels = {}
    /\ pc' = "wait"
    /\ last' = Present(writer[Sync].target)
    /\ writer' = [writer EXCEPT ![Sync] = IdleWriter]
    /\ UNCHANGED <<tables, envVars, todo>>

(* The bpf calls of a pass. *)
ApplyCall == pc \in {"install", "apply"} /\ ApplyStep(Sync) /\ UNCHANGED <<envVars, pc, todo, last>>
ReconcileCall ==
    /\ pc = "reconcile"
    /\ \E k \in PidKeys : Put(Sync, k) \/ PutFails(Sync, k) \/ Delete(Sync, k)
    /\ UNCHANGED <<envVars, pc, todo, last>>

(* The context is done: select may still take a tick first. *)
SyncReturns ==
    /\ pc = "wait"
    /\ done
    /\ pc' = "returned"
    /\ UNCHANGED <<tables, writer, envVars, todo, last>>

-----------------------------------------------------------------------------

(* SIGINT or SIGTERM. *)
Interrupt ==
    /\ ~ done
    /\ done' = TRUE
    /\ UNCHANGED <<tables, writer, cfg, view, moves, faults, pc, todo, last>>

ProcessesChange ==
    /\ moves > 0
    /\ moves' = moves - 1
    /\ \E v \in Views \ {view} : view' = v
    /\ UNCHANGED <<tables, writer, cfg, faults, done, pc, todo, last>>

Program ==
    \/ StartScanFails \/ StartRules \/ InstallEnds
    \/ StartFlags \/ StaticPut \/ StaticDone
    \/ Tick \/ PassScanFails \/ PassCompile \/ PassReconcile
    \/ PassFails \/ ApplyDone \/ ReconcileDone
    \/ ApplyCall \/ ReconcileCall
    \/ SyncReturns

Next == Program \/ Interrupt \/ ProcessesChange

Spec == Init /\ [][Next]_vars

(* The goroutine is scheduled and its system calls return. *)
FairSpec == Spec /\ WF_vars(Program)

-----------------------------------------------------------------------------
(* Properties *)

(* Types of every variable. *)
TypeOK ==
    /\ tables \in Tables
    /\ writer \in [{Sync} -> WriterState]
    /\ cfg \in Rulesets \cup Configs
    /\ view \in Views
    /\ moves \in 0..MaxMoves
    /\ faults \in 0..MaxFaults
    /\ done \in BOOLEAN
    /\ pc \in {"start", "install", "static", "wait", "pass", "apply", "reconcile",
               "returned", "fatal"}
    /\ todo \in Seq([key : Keys, policy : Policies])
    /\ last \subseteq PidKeys

(* What the flags name by pid or by name. *)
StaticKeys == {StaticPuts(cfg)[n].key : n \in DOMAIN StaticPuts(cfg)}

Started == pc \in {"wait", "pass", "apply", "reconcile", "returned"}

(* A process named by a flag is never without a policy once the program has *)
(* started, whatever executables it runs, and a name keeps the policy its   *)
(* flag gives it: passes delete only what executables have added            *)
(* (config/store.go:152-154, 172-174).                                      *)
StaticKept ==
    Started /\ ~ RulesMode =>
        /\ \A k \in StaticKeys : tables[k] # NoPolicy
        /\ \A n \in DOMAIN cfg.hideComms : tables[cfg.hideComms[n]] = Hide
        /\ \A comm \in CommKeys \ StaticKeys : tables[comm] = NoPolicy

(* The maps hold what a listing of /proc asks for: in rules mode exactly     *)
(* that; in flags mode also some policy for the pids the flags name.         *)
InstalledFor(v) ==
    IF RulesMode THEN tables = CompileOf[cfg][v]
    ELSE \A pid \in PidKeys :
            IF ExecutablePolicies(cfg, v)[pid] # NoPolicy
            THEN tables[pid] = ExecutablePolicies(cfg, v)[pid]
            ELSE tables[pid] = NoPolicy \/ pid \in StaticKeys

(* Both maps have room for what two listings in a row ask for together: new *)
(* entries are put before old ones are deleted.                             *)
Wanted(v) ==
    IF RulesMode THEN Present(CompileOf[cfg][v])
    ELSE Present(ExecutablePolicies(cfg, v)) \cup StaticKeys

Fits == \A v, w \in Views, map \in {"pid", "comm"} :
    Cardinality((Wanted(v) \cup Wanted(w)) \cap KeysOf(map)) <= MaxOf(map)

(* With that room the maps between passes are those of one listing of /proc, *)
(* though processes change while a pass runs: nothing of an earlier one is   *)
(* left behind (config/store.go:51-72, 145-161, rules/sync.go:27-37).  Until *)
(* its first pass, flags mode has the static policies alone.                 *)
OneListing ==
    pc = "wait" /\ Fits =>
        \/ \E v \in Views : InstalledFor(v)
        \/ ~ RulesMode /\ \A pid \in PidKeys : tables[pid] = NoPolicy \/ pid \in StaticKeys

(* Rules mode as PolicyReplacement sees it; flags mode, whose passes replace *)
(* only what executables have added, takes no step there.                   *)
AllCompilations == {CompileOf[rs][v] : rs \in Rulesets, v \in Views}

MapsReplaced == IF RulesMode THEN tables ELSE EmptyTable
WorkReplacing ==
    IF RulesMode THEN Work
    ELSE [w \in {Sync} |-> [status |-> "idle", target |-> EmptyTable, left |-> {}]]

Replacement == INSTANCE PolicyReplacement WITH
    table <- MapsReplaced, work <- WorkReplacing, shut <- FALSE, Targets <- AllCompilations

(* The install and the ticks of rules mode each replace the maps as a whole, *)
(* or stop at a full map (rules/compiler.go:159-227, rules/sync.go:18-37).   *)
ReplacementSpec == Replacement!Spec

(* Once processes stop coming and going, the maps are brought up to date for *)
(* good, also after failed listings, while the program runs and they fit.    *)
MapsFollowProcesses == <>[](Started /\ ~ done /\ Fits => InstalledFor(view))

=============================================================================
