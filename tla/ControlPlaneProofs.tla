------------------------- MODULE ControlPlaneProofs -------------------------
(***************************************************************************)
(* The control plane's invariants, for any number of handlers, rulesets,   *)
(* policies and requests.                                                  *)
(***************************************************************************)
EXTENDS ControlPlaneProperties, PolicyMapsProofs

(* The records of idle goroutines have their types. *)
LEMMA IdleTypes ==
    /\ EmptyTable \in Tables
    /\ IdleWriter \in WriterState
    /\ IdleHandler \in HandlerState
    /\ UnbornLoop \in LoopState
BY IdleWriterTypes DEF IdleHandler, HandlerState, UnbornLoop, LoopState

(* A compilation of a loadable ruleset is a table. *)
LEMMA CompileType ==
    ASSUME NEW rs \in Rulesets, NEW v \in Views
    PROVE  CompileOf[rs][v] \in Tables
BY CompileAssumption

LEMMA InitTypeOK == Init => TypeOK
<1> SUFFICES ASSUME Init PROVE TypeOK
  OBVIOUS
<1>1. /\ tables \in Tables
      /\ runtimeCompiled \in Tables
      /\ writer \in [Writers -> WriterState]
      /\ handler \in [Handlers -> HandlerState]
      /\ loop \in [Loops -> LoopState]
  BY IdleTypes DEF Init
<1>2. /\ moves \in 0..MaxMoves
      /\ faults \in 0..MaxFaults
      /\ syncRevision \in 0..MaxRevision
      /\ syncCancel \in 0..MaxRevision
  BY BoundsAssumption DEF Init
<1>3. /\ view \in Views
      /\ runtimeRuleset \in Rulesets \cup {NoRuleset}
      /\ runtimeLoaded \in BOOLEAN
      /\ runtimeError \in BOOLEAN
      /\ generation \in Nat
      /\ cancelled \subseteq Loops
      /\ closed \in BOOLEAN
  BY DEF Init
<1> QED
  BY <1>1, <1>2, <1>3 DEF TypeOK

(* Handlers keep every type. *)
LEMMA HandlerTypes ==
    ASSUME TypeOK, NEW h \in Handlers,
           Request(h) \/ HandlerStep(h)
    PROVE  TypeOK'
<1>1. CASE Request(h)
  BY <1>1 DEF TypeOK, Request, HandlerState, mapVars, envVars, recordVars, syncVars
<1>2. CASE Rejected(h)
  BY <1>2, IdleTypes DEF TypeOK, Rejected, mapVars, envVars, recordVars, syncVars
<1>3. CASE HandlerScanFails(h)
  BY <1>3, IdleTypes, BoundsAssumption DEF TypeOK, HandlerScanFails, mapVars, recordVars, syncVars
<1>4. CASE HandlerCompile(h)
  <2>1. BeginApply(CompileOf[handler[h].rs][view]) \in WriterState
    BY <1>4, CompileType, BeginApplyType DEF HandlerCompile, TypeOK
  <2> QED
    BY <1>4, <2>1 DEF TypeOK, HandlerCompile, HandlerState, Writers, envVars, recordVars, syncVars
<1>5. CASE HandlerApplyFailed(h)
  BY <1>5, IdleTypes DEF TypeOK, HandlerApplyFailed, Writers, envVars, recordVars, syncVars
<1>6. CASE Publish(h)
  <2>1. /\ writer[h].target \in Tables
        /\ handler[h].rs \in Rulesets \cup {NoRuleset}
    BY DEF TypeOK, WriterState, HandlerState, Writers
  <2>2. syncRevision' \in 0..MaxRevision /\ syncCancel' \in 0..MaxRevision
    BY <1>6, BoundsAssumption DEF Publish, RestartSync, Loops, TypeOK
  <2>3. cancelled' \subseteq Loops
    BY <1>6, BoundsAssumption DEF Publish, RestartSync, Loops, TypeOK
  <2>4. loop' \in [Loops -> LoopState]
    BY <1>6, IdleTypes DEF Publish, RestartSync, TypeOK, LoopState, UnbornLoop
  <2>5. writer' \in [Writers -> WriterState] /\ handler' \in [Handlers -> HandlerState]
    BY <1>6, IdleTypes DEF Publish, TypeOK, Writers
  <2>6. /\ runtimeRuleset' \in Rulesets \cup {NoRuleset}
        /\ runtimeCompiled' \in Tables
        /\ generation' \in Nat
    BY <1>6, <2>1 DEF Publish, TypeOK
  <2>8. runtimeLoaded' \in BOOLEAN /\ runtimeError' \in BOOLEAN
    BY <1>6 DEF Publish
  <2>7. UNCHANGED <<tables, envVars, closed>>
    BY <1>6 DEF Publish, RestartSync
  <2> QED
    BY <2>2, <2>3, <2>4, <2>5, <2>6, <2>7, <2>8 DEF TypeOK, envVars
<1> QED
  BY <1>1, <1>2, <1>3, <1>4, <1>5, <1>6 DEF TypeOK, HandlerStep

(* Sync loops keep every type. *)
LEMMA LoopTypes ==
    ASSUME TypeOK, NEW l \in Loops, LoopStep(l) \/ LoopExit(l)
           , loop[l].pc = "wait" => loop[l].rs \in Scanning
    PROVE  TypeOK'
<1>1. CASE LoopCompile(l)
  <2>1. CompileOf[loop[l].rs][view] \in Tables
    BY <1>1, CompileType, RulesetsAssumption DEF LoopCompile, TypeOK
  <2> QED
    BY <1>1, <2>1 DEF TypeOK, LoopCompile, LoopState, mapVars, envVars, recordVars, syncVars
<1>2. CASE LoopScanFails(l)
  BY <1>2, BoundsAssumption DEF TypeOK, LoopScanFails, mapVars, recordVars, syncVars
<1>3. CASE LoopSkip(l)
  BY <1>3, IdleTypes DEF TypeOK, LoopSkip, LoopState, mapVars, envVars, recordVars, syncVars
<1>4. CASE LoopApply(l)
  <2>1. BeginApply(loop[l].compiled) \in WriterState
    BY BeginApplyType DEF TypeOK, LoopState
  <2> QED
    BY <1>4, <2>1 DEF TypeOK, LoopApply, LoopState, Writers, envVars, recordVars, syncVars
<1>5. ASSUME LoopBackToWait(l)
      PROVE  /\ writer' \in [Writers -> WriterState] /\ loop' \in [Loops -> LoopState]
             /\ UNCHANGED <<tables, envVars, syncVars, handler>>
  BY <1>5, IdleTypes DEF TypeOK, LoopBackToWait, LoopState, Writers
<1>6. CASE LoopApplyFailed(l)
  BY <1>5, <1>6 DEF TypeOK, LoopApplyFailed, envVars, recordVars, syncVars
<1>7. CASE LoopDiscard(l)
  BY <1>5, <1>7 DEF TypeOK, LoopDiscard, envVars, recordVars, syncVars
<1>8. CASE LoopPublish(l)
  <2>1. /\ runtimeCompiled' \in Tables
        /\ generation' \in Nat
        /\ UNCHANGED <<runtimeRuleset, runtimeLoaded>>
    BY <1>8 DEF TypeOK, LoopPublish, LoopState
  <2>3. runtimeError' \in BOOLEAN
    BY <1>8 DEF LoopPublish
  <2>2. LoopBackToWait(l)
    BY <1>8 DEF LoopPublish
  <2> QED
    BY <1>5, <2>1, <2>2, <2>3 DEF TypeOK, envVars, syncVars
<1>9. CASE LoopExit(l)
  BY <1>9, IdleTypes DEF TypeOK, LoopExit, LoopState, UnbornLoop, mapVars, envVars, recordVars, syncVars
<1> QED
  BY <1>1, <1>2, <1>3, <1>4, <1>6, <1>7, <1>8, <1>9 DEF LoopStep

-----------------------------------------------------------------------------
(* The invariant of the control plane: its types, what is in flight, and   *)
(* the revisions, which together make the record coherent.                  *)
Inv ==
    /\ TypeOK
    /\ RecordCoherent
    /\ InFlightCoherent
    /\ RevisionsInOrder
    /\ SyncLoopMatchesRuntime

(* What the invariant says of the sync loops only. *)
SyncInv == RevisionsInOrder /\ SyncLoopMatchesRuntime

(* Handlers and loops are different goroutines. *)
LEMMA WritersDistinct ==
    ASSUME NEW h \in Handlers, NEW l \in Loops
    PROVE  h # l
BY HandlersAssumption, BoundsAssumption DEF Loops

LEMMA InitInv == Init => Inv
<1> SUFFICES ASSUME Init PROVE Inv
  OBVIOUS
<1>1. TypeOK
  BY InitTypeOK
<1>2. RecordCoherent
  BY DEF Init, RecordCoherent
<1>3. InFlightCoherent
  BY DEF Init, InFlightCoherent, IdleHandler, UnbornLoop
<1>4. RevisionsInOrder
  BY DEF Init, RevisionsInOrder, UnbornLoop, Live
<1>5. SyncLoopMatchesRuntime
  BY RulesetsAssumption DEF Init, SyncLoopMatchesRuntime, UnbornLoop, Live
<1> QED
  BY <1>1, <1>2, <1>3, <1>4, <1>5 DEF Inv

(* A step that leaves the loops and the revisions alone keeps what is said  *)
(* of them.                                                                  *)
LEMMA SyncUnchanged ==
    ASSUME SyncInv, UNCHANGED <<syncVars, loop, runtimeRuleset>>
    PROVE  SyncInv'
BY DEF SyncInv, RevisionsInOrder, SyncLoopMatchesRuntime, Live, syncVars

(* What is in flight depends on the record through two variables only.      *)
LEMMA InFlightUnchanged ==
    ASSUME InFlightCoherent, RecordCoherent,
           UNCHANGED <<handler, loop, recordVars, syncRevision>>,
           \A h \in Handlers : writer'[h].target = writer[h].target
    PROVE  InFlightCoherent' /\ RecordCoherent'
BY DEF InFlightCoherent, RecordCoherent, Compilations, recordVars

(* A handler that is not about to record changes nothing but its own state. *)
LEMMA HandlerQuietInv ==
    ASSUME Inv, NEW h \in Handlers, TypeOK',
           NEW s \in HandlerState,
           handler' = [handler EXCEPT ![h] = s],
           s.pc = "apply" =>
               /\ s.rs \in Rulesets
               /\ writer'[h].target \in Compilations(s.rs),
           \A g \in Handlers \ {h} : writer'[g] = writer[g],
           UNCHANGED <<recordVars, syncVars, loop>>
    PROVE  Inv'
<1>1. SyncInv'
  BY SyncUnchanged DEF Inv, SyncInv, recordVars
<1>2. RecordCoherent'
  BY DEF Inv, RecordCoherent, Compilations, recordVars
<1>3. InFlightCoherent'
  <2>1. ASSUME NEW g \in Handlers, handler'[g].pc = "apply"
        PROVE  /\ handler'[g].rs \in Rulesets
               /\ writer'[g].target \in Compilations(handler'[g].rs)
    <3>1. CASE g = h
      BY <2>1, <3>1 DEF Inv, TypeOK
    <3>2. CASE g # h
      BY <2>1, <3>2 DEF Inv, TypeOK, InFlightCoherent
    <3> QED
      BY <3>1, <3>2
  <2>2. UNCHANGED <<loop, syncRevision, runtimeCompiled>>
    BY DEF recordVars, syncVars
  <2> QED
    BY <2>1, <2>2 DEF Inv, InFlightCoherent, Compilations
<1> QED
  BY <1>1, <1>2, <1>3 DEF Inv, SyncInv

(* Publish installs a new revision: the record, its loop and the cancelled *)
(* predecessor change together.                                             *)
LEMMA PublishInv ==
    ASSUME Inv, NEW h \in Handlers, Publish(h), TypeOK'
    PROVE  Inv'
<1> DEFINE rs == handler[h].rs
           revision == syncRevision + 1
           born == [UnbornLoop EXCEPT !.pc = "wait", !.rs = rs]
<1>1. /\ TypeOK /\ RecordCoherent /\ InFlightCoherent
      /\ RevisionsInOrder /\ SyncLoopMatchesRuntime
  BY DEF Inv
<1>2. /\ revision \in Loops
      /\ syncRevision \in Nat
      /\ syncRevision' = revision
      /\ cancelled' = cancelled \cup ({syncCancel} \ {0})
      /\ syncCancel' = IF rs \in Scanning THEN revision ELSE 0
      /\ loop' = IF rs \in Scanning THEN [loop EXCEPT ![revision] = born] ELSE loop
      /\ closed' = closed
  BY <1>1 DEF Publish, RestartSync, TypeOK
<1>3. /\ runtimeRuleset' = rs
      /\ runtimeCompiled' = writer[h].target
      /\ runtimeLoaded' = TRUE
      /\ handler' = [handler EXCEPT ![h] = IdleHandler]
      /\ writer' = [writer EXCEPT ![h] = IdleWriter]
      /\ rs \in Rulesets
      /\ writer[h].target \in Compilations(rs)
  BY <1>1 DEF Publish, InFlightCoherent
<1>4. RecordCoherent'
  BY <1>3 DEF RecordCoherent, Compilations
<1>5. /\ loop[revision].pc = "unborn"
      /\ revision \notin cancelled
      /\ syncCancel # revision
      /\ cancelled \subseteq Loops
      /\ \A l \in Loops : l \in Nat
  BY <1>1, <1>2, BoundsAssumption DEF RevisionsInOrder, TypeOK, Loops
<1>6. /\ revision \notin cancelled'
      /\ \A l \in Loops : Live(l) => l \in cancelled'
  <2>1. revision \notin cancelled'
    BY <1>2, <1>5
  <2>2. ASSUME NEW l \in Loops, Live(l), l \notin cancelled PROVE l \in cancelled'
    BY <1>1, <1>2, <2>2, BoundsAssumption DEF SyncLoopMatchesRuntime, Loops
  <2> QED
    BY <1>2, <2>1, <2>2
<1>7. \A l \in Loops \ {revision} : loop'[l] = loop[l]
  BY <1>1, <1>2 DEF TypeOK
<1>8. CASE rs \in Scanning
  <2>1. loop'[revision] = born /\ syncCancel' = revision
    BY <1>1, <1>2, <1>8 DEF TypeOK
  <2>2. born.pc = "wait" /\ born.rs = rs
    BY DEF UnbornLoop
  <2>3. RevisionsInOrder'
    BY <1>1, <1>2, <1>3, <1>5, <1>7, <1>8, <2>1, <2>2 DEF RevisionsInOrder, Live
  <2>4. SyncLoopMatchesRuntime'
    BY <1>2, <1>3, <1>6, <1>7, <2>1, <2>2 DEF SyncLoopMatchesRuntime, Live
  <2>5. InFlightCoherent'
    <3>1. \A g \in Handlers : handler'[g].pc = "apply" => g # h /\ handler[g].pc = "apply"
      BY <1>1, <1>3 DEF TypeOK, IdleHandler
    <3>2. \A g \in Handlers \ {h} : handler'[g] = handler[g] /\ writer'[g] = writer[g]
      BY <1>1, <1>3 DEF TypeOK, Writers
    <3>3. \A g \in Handlers : handler'[g].pc = "apply" =>
             /\ handler'[g].rs \in Rulesets
             /\ writer'[g].target \in Compilations(handler'[g].rs)
      BY <1>1, <3>1, <3>2 DEF InFlightCoherent
    <3>4. \A l \in Loops : loop'[l].pc \in {"check", "apply"} =>
             loop'[l].compiled \in Compilations(loop'[l].rs)
      BY <1>1, <1>7, <2>1, <2>2 DEF InFlightCoherent
    <3>5. \A l \in Loops : loop'[l].pc = "apply" => l # syncRevision'
      BY <1>2, <1>5, <1>6, <1>7, <2>1, <2>2, <1>1 DEF RevisionsInOrder
    <3> QED
      BY <3>3, <3>4, <3>5 DEF InFlightCoherent, Compilations
  <2> QED
    BY <1>4, <2>3, <2>4, <2>5 DEF Inv
<1>9. CASE rs \notin Scanning
  <2>1. loop' = loop /\ syncCancel' = 0
    BY <1>2, <1>9
  <2>2. RevisionsInOrder'
    BY <1>1, <1>2, <1>5, <2>1 DEF RevisionsInOrder, Live
  <2>3. SyncLoopMatchesRuntime'
    BY <1>2, <1>3, <1>6, <1>9, <2>1 DEF SyncLoopMatchesRuntime, Live
  <2>4. InFlightCoherent'
    <3>1. \A g \in Handlers : handler'[g].pc = "apply" => g # h /\ handler[g].pc = "apply"
      BY <1>1, <1>3 DEF TypeOK, IdleHandler
    <3>2. \A g \in Handlers \ {h} : handler'[g] = handler[g] /\ writer'[g] = writer[g]
      BY <1>1, <1>3 DEF TypeOK, Writers
    <3> QED
      BY <1>1, <1>2, <1>5, <2>1, <3>1, <3>2 DEF InFlightCoherent, Compilations
  <2> QED
    BY <1>4, <2>2, <2>3, <2>4 DEF Inv
<1> QED
  BY <1>8, <1>9

(* Sync loops that do not record change nothing but their own state. *)
LEMMA LoopQuietInv ==
    ASSUME Inv, NEW l \in Loops, TypeOK',
           NEW s \in LoopState,
           loop' = [loop EXCEPT ![l] = s],
           s.pc # "unborn", loop[l].pc # "unborn",
           s.pc = "exited" => l \in cancelled,
           s.pc # "exited" => Live(l) /\ s.rs = loop[l].rs,
           s.pc \in {"check", "apply"} => s.compiled \in Compilations(s.rs),
           s.pc = "apply" /\ l = syncRevision => s.compiled # runtimeCompiled,
           \A h \in Handlers : writer'[h] = writer[h],
           UNCHANGED <<recordVars, syncVars, handler>>
    PROVE  Inv'
<1>1. /\ TypeOK /\ RecordCoherent /\ InFlightCoherent
      /\ RevisionsInOrder /\ SyncLoopMatchesRuntime
  BY DEF Inv
<1>2. /\ UNCHANGED <<runtimeRuleset, runtimeCompiled, runtimeLoaded, generation>>
      /\ UNCHANGED <<syncRevision, syncCancel, cancelled, closed>>
  BY DEF recordVars, syncVars
<1>3. loop'[l] = s /\ \A m \in Loops \ {l} : loop'[m] = loop[m]
  BY <1>1 DEF TypeOK
<1>4. RecordCoherent'
  BY <1>1, <1>2 DEF RecordCoherent, Compilations
<1>5. InFlightCoherent'
  <2>1. \A m \in Loops : loop'[m].pc \in {"check", "apply"} =>
           loop'[m].compiled \in Compilations(loop'[m].rs)
    BY <1>1, <1>3 DEF InFlightCoherent
  <2>2. \A m \in Loops : loop'[m].pc = "apply" /\ m = syncRevision =>
           loop'[m].compiled # runtimeCompiled
    BY <1>1, <1>3 DEF InFlightCoherent
  <2> QED
    BY <1>1, <1>2, <2>1, <2>2 DEF InFlightCoherent, Compilations
<1>6. RevisionsInOrder'
  BY <1>1, <1>2, <1>3 DEF RevisionsInOrder, Live
<1>7. SyncLoopMatchesRuntime'
  <2>1. ASSUME NEW m \in Loops, Live(m)', m \notin cancelled
        PROVE  m = syncRevision /\ m = syncCancel /\ loop'[m].rs = runtimeRuleset
    <3>1. Live(m) /\ loop'[m].rs = loop[m].rs
      BY <1>3, <2>1 DEF Live
    <3> QED
      BY <1>1, <2>1, <3>1 DEF SyncLoopMatchesRuntime
  <2>2. ASSUME runtimeRuleset \in Scanning, ~closed
        PROVE  Live(syncRevision)' /\ syncRevision \notin cancelled
    <3>1. Live(syncRevision) /\ syncRevision \notin cancelled
      BY <1>1, <2>2 DEF SyncLoopMatchesRuntime
    <3>2. CASE l = syncRevision
      BY <1>2, <1>3, <3>1, <3>2 DEF Live
    <3>3. CASE l # syncRevision
      BY <1>1, <1>2, <3>1, <3>3 DEF Live, TypeOK
    <3> QED
      BY <3>1, <3>2, <3>3
  <2> QED
    BY <1>2, <2>1, <2>2 DEF SyncLoopMatchesRuntime
<1> QED
  BY <1>4, <1>5, <1>6, <1>7 DEF Inv

(* A loop that records is of the current revision, and what it records is a *)
(* compilation of the ruleset that is the runtime.                           *)
LEMMA LoopPublishInv ==
    ASSUME Inv, NEW l \in Loops, LoopPublish(l), TypeOK'
    PROVE  Inv'
<1>1. /\ TypeOK /\ RecordCoherent /\ InFlightCoherent
      /\ RevisionsInOrder /\ SyncLoopMatchesRuntime
  BY DEF Inv
<1>2. /\ loop[l].pc = "apply" /\ l = syncRevision
      /\ runtimeCompiled' = loop[l].compiled
      /\ UNCHANGED <<runtimeRuleset, runtimeLoaded, handler>>
      /\ UNCHANGED <<syncRevision, syncCancel, cancelled, closed>>
      /\ loop' = [loop EXCEPT ![l] = [@ EXCEPT !.pc = "wait", !.compiled = EmptyTable]]
      /\ writer' = [writer EXCEPT ![l] = IdleWriter]
  BY DEF LoopPublish, LoopBackToWait, syncVars
<1>3. /\ loop'[l].pc = "wait" /\ loop'[l].rs = loop[l].rs
      /\ \A m \in Loops \ {l} : loop'[m] = loop[m]
  BY <1>1, <1>2 DEF TypeOK, LoopState
<1>4. /\ Live(l) /\ loop[l].rs = runtimeRuleset /\ runtimeRuleset \in Scanning
      /\ loop[l].compiled \in Compilations(runtimeRuleset)
  BY <1>1, <1>2 DEF RevisionsInOrder, InFlightCoherent, Live
<1>5. RecordCoherent'
  BY <1>1, <1>2, <1>4, RulesetsAssumption DEF RecordCoherent, Compilations
<1>6. InFlightCoherent'
  <2>1. \A h \in Handlers : writer'[h] = writer[h]
    BY <1>1, <1>2, WritersDistinct DEF TypeOK, Writers
  <2> QED
    BY <1>1, <1>2, <1>3, <2>1 DEF InFlightCoherent, Compilations
<1>7. RevisionsInOrder'
  BY <1>1, <1>2, <1>3, <1>4 DEF RevisionsInOrder, Live
<1>8. SyncLoopMatchesRuntime'
  BY <1>1, <1>2, <1>3, <1>4 DEF SyncLoopMatchesRuntime, Live
<1> QED
  BY <1>5, <1>6, <1>7, <1>8 DEF Inv

(* Requests and their handlers. *)
LEMMA HandlerInv ==
    ASSUME Inv, NEW h \in Handlers, Request(h) \/ HandlerStep(h)
    PROVE  Inv'
<1>1. TypeOK /\ TypeOK'
  BY HandlerTypes DEF Inv
<1>2. CASE Request(h)
  <2>1. PICK rs \in Rulesets \cup {NoRuleset} :
           handler' = [handler EXCEPT ![h] = [pc |-> "compile", rs |-> rs]]
    BY <1>2 DEF Request
  <2>2. [pc |-> "compile", rs |-> rs] \in HandlerState
    BY DEF HandlerState
  <2>3. UNCHANGED <<writer, recordVars, syncVars, loop>>
    BY <1>2 DEF Request, mapVars
  <2> QED
    BY <1>1, <2>1, <2>2, <2>3, HandlerQuietInv
<1>3. CASE Rejected(h)
  BY <1>1, <1>3, IdleTypes, HandlerQuietInv DEF Rejected, mapVars, IdleHandler
<1>4. CASE HandlerScanFails(h)
  BY <1>1, <1>4, IdleTypes, HandlerQuietInv DEF HandlerScanFails, mapVars, IdleHandler
<1>5. CASE HandlerCompile(h)
  <2> DEFINE s == [handler[h] EXCEPT !.pc = "apply"]
             t == CompileOf[handler[h].rs][view]
  <2>1. /\ s \in HandlerState /\ s.pc = "apply" /\ s.rs = handler[h].rs
        /\ handler' = [handler EXCEPT ![h] = s]
        /\ s.rs \in Rulesets
    BY <1>1, <1>5 DEF HandlerCompile, TypeOK, HandlerState
  <2>2. writer'[h].target = t /\ \A g \in Handlers \ {h} : writer'[g] = writer[g]
    BY <1>1, <1>5 DEF HandlerCompile, TypeOK, Writers, BeginApply, IdleWriter
  <2>3. t \in Compilations(s.rs)
    BY <1>1, <2>1 DEF Compilations, TypeOK
  <2>4. UNCHANGED <<recordVars, syncVars, loop>>
    BY <1>5 DEF HandlerCompile
  <2> HIDE DEF s, t
  <2> QED
    BY <1>1, <2>1, <2>2, <2>3, <2>4, HandlerQuietInv
<1>6. CASE HandlerApplyFailed(h)
  <2>1. \A g \in Handlers \ {h} : writer'[g] = writer[g]
    BY <1>1, <1>6 DEF HandlerApplyFailed, TypeOK, Writers
  <2> QED
    BY <1>1, <1>6, <2>1, IdleTypes, HandlerQuietInv DEF HandlerApplyFailed, IdleHandler
<1>7. CASE Publish(h)
  BY <1>1, <1>7, PublishInv
<1> QED
  BY <1>1, <1>2, <1>3, <1>4, <1>5, <1>6, <1>7 DEF HandlerStep, TypeOK

(* Sync loops. *)
LEMMA LoopInv ==
    ASSUME Inv, NEW l \in Loops, LoopStep(l) \/ LoopExit(l)
    PROVE  Inv'
<1>1. TypeOK /\ InFlightCoherent /\ RevisionsInOrder
  BY DEF Inv
<1>2. TypeOK'
  BY <1>1, LoopTypes DEF RevisionsInOrder, Live
<1>3. loop[l] \in LoopState
  BY <1>1 DEF TypeOK
<1> DEFINE back == [loop[l] EXCEPT !.pc = "wait", !.compiled = EmptyTable]
<1>4. back \in LoopState /\ back.pc = "wait" /\ back.rs = loop[l].rs
  BY <1>3, IdleTypes DEF LoopState
<1>5. CASE LoopCompile(l)
  <2> DEFINE t == CompileOf[loop[l].rs][view]
             s == [loop[l] EXCEPT !.pc = "check", !.compiled = t]
  <2>1. Live(l) /\ loop[l].rs \in Rulesets
    BY <1>1, <1>5, RulesetsAssumption DEF LoopCompile, RevisionsInOrder, Live
  <2>2. t \in Tables /\ t \in Compilations(loop[l].rs)
    BY <1>1, <2>1, CompileType DEF Compilations, TypeOK
  <2>3. s \in LoopState /\ s.pc = "check" /\ s.rs = loop[l].rs /\ s.compiled = t
    BY <1>3, <2>2 DEF LoopState
  <2>4. /\ loop' = [loop EXCEPT ![l] = s]
        /\ UNCHANGED <<writer, recordVars, syncVars, handler>>
    BY <1>5 DEF LoopCompile, mapVars
  <2> HIDE DEF s, t
  <2> QED
    BY <1>2, <2>1, <2>2, <2>3, <2>4, LoopQuietInv DEF Live
<1>6. CASE LoopScanFails(l)
  <2>1. /\ UNCHANGED <<writer, recordVars, syncVars, handler, loop>>
    BY <1>6 DEF LoopScanFails, mapVars
  <2> QED
    BY <1>2, <2>1, InFlightUnchanged, SyncUnchanged DEF Inv, SyncInv, recordVars, syncVars
<1>7. CASE LoopSkip(l)
  <2>1. /\ loop' = [loop EXCEPT ![l] = back] /\ loop[l].pc = "check"
        /\ UNCHANGED <<writer, recordVars, syncVars, handler>>
    BY <1>7 DEF LoopSkip, mapVars
  <2> HIDE DEF back
  <2> QED
    BY <1>2, <1>4, <2>1, LoopQuietInv DEF Live
<1>8. CASE LoopApply(l)
  <2> DEFINE s == [loop[l] EXCEPT !.pc = "apply"]
  <2>1. /\ s \in LoopState /\ s.pc = "apply" /\ s.rs = loop[l].rs
        /\ s.compiled = loop[l].compiled
    BY <1>3 DEF LoopState
  <2>2. /\ loop' = [loop EXCEPT ![l] = s] /\ loop[l].pc = "check"
        /\ UNCHANGED <<recordVars, syncVars, handler>>
        /\ \A h \in Handlers : writer'[h] = writer[h]
    BY <1>1, <1>8, WritersDistinct DEF LoopApply, TypeOK, Writers
  <2>3. /\ s.compiled \in Compilations(s.rs)
        /\ l = syncRevision => s.compiled # runtimeCompiled
    BY <1>1, <1>8, <2>1, <2>2 DEF InFlightCoherent, LoopApply, UpToDate
  <2> HIDE DEF s
  <2> QED
    BY <1>2, <2>1, <2>2, <2>3, LoopQuietInv DEF Live
<1>9. ASSUME LoopBackToWait(l), loop[l].pc = "apply", UNCHANGED recordVars
      PROVE  Inv'
  <2>1. /\ loop' = [loop EXCEPT ![l] = back]
        /\ UNCHANGED <<recordVars, syncVars, handler>>
        /\ \A h \in Handlers : writer'[h] = writer[h]
    BY <1>1, <1>9, WritersDistinct DEF LoopBackToWait, TypeOK, Writers
  <2> HIDE DEF back
  <2> QED
    BY <1>2, <1>4, <1>9, <2>1, LoopQuietInv DEF Live
<1>10. CASE LoopApplyFailed(l)
  BY <1>9, <1>10 DEF LoopApplyFailed
<1>11. CASE LoopDiscard(l)
  BY <1>9, <1>11 DEF LoopDiscard, recordVars
<1>12. CASE LoopPublish(l)
  BY <1>2, <1>12, LoopPublishInv
<1>13. CASE LoopExit(l)
  <2> DEFINE s == [UnbornLoop EXCEPT !.pc = "exited"]
  <2>1. s \in LoopState /\ s.pc = "exited"
    BY IdleTypes DEF LoopState, UnbornLoop
  <2>2. /\ loop' = [loop EXCEPT ![l] = s] /\ loop[l].pc = "wait" /\ l \in cancelled
        /\ UNCHANGED <<writer, recordVars, syncVars, handler>>
    BY <1>13 DEF LoopExit, mapVars
  <2> HIDE DEF s
  <2> QED
    BY <1>2, <2>1, <2>2, LoopQuietInv
<1> QED
  BY <1>5, <1>6, <1>7, <1>8, <1>10, <1>11, <1>12, <1>13 DEF LoopStep

(* Writers, Close and the environment. *)
LEMMA OtherInv ==
    ASSUME Inv,
           \/ \E w \in Writers : MapStep(w) \/ MapClosed(w)
           \/ ServiceClose \/ ProcessesChange
           \/ UNCHANGED vars
    PROVE  Inv'
<1>1. /\ TypeOK /\ RecordCoherent /\ InFlightCoherent
      /\ RevisionsInOrder /\ SyncLoopMatchesRuntime
  BY DEF Inv
<1>2. ASSUME NEW w \in Writers, MapStep(w) PROVE Inv'
  <2>1. tables' \in Tables /\ writer' \in [Writers -> WriterState]
    BY <1>1, <1>2, ApplyStepTypes DEF MapStep, TypeOK
  <2>2. TypeOK'
    BY <1>1, <1>2, <2>1 DEF TypeOK, MapStep, controlVars, envVars, recordVars, syncVars
  <2>3. \A h \in Handlers : writer'[h].target = writer[h].target
    <3>1. writer \in [Writers -> WriterState] /\ ApplyStep(w)
      BY <1>1, <1>2 DEF MapStep, TypeOK
    <3>2. \A v \in Writers : writer'[v].target = writer[v].target
      BY <3>1, ApplyStepKeepsTargets
    <3> QED
      BY <3>2 DEF Writers
  <2>4. UNCHANGED <<handler, loop, recordVars, syncVars>>
    BY <1>2 DEF MapStep, controlVars
  <2> QED
    BY <1>1, <2>2, <2>3, <2>4, InFlightUnchanged, SyncUnchanged DEF Inv, SyncInv, recordVars, syncVars
<1>8. ASSUME NEW w \in Writers, MapClosed(w) PROVE Inv'
  <2>1. /\ tables' = tables /\ writer' \in [Writers -> WriterState]
        /\ writer'[w].target = writer[w].target
        /\ \A v \in Writers \ {w} : writer'[v] = writer[v]
    BY <1>1, <1>8, CallFailsStops DEF MapClosed, TypeOK
  <2>2. TypeOK'
    BY <1>1, <1>8, <2>1 DEF TypeOK, MapClosed, controlVars, envVars, recordVars, syncVars
  <2>3. \A h \in Handlers : writer'[h].target = writer[h].target
    BY <2>1 DEF Writers
  <2>4. UNCHANGED <<handler, loop, recordVars, syncVars>>
    BY <1>8 DEF MapClosed, controlVars
  <2> QED
    BY <1>1, <2>2, <2>3, <2>4, InFlightUnchanged, SyncUnchanged DEF Inv, SyncInv, recordVars, syncVars
<1>3. CASE ServiceClose
  <2>1. /\ UNCHANGED <<mapVars, envVars, recordVars, runtimeError, syncRevision, handler, loop>>
        /\ closed' = TRUE /\ syncCancel' = 0
        /\ cancelled' = cancelled \cup ({syncCancel} \ {0})
    BY <1>3 DEF ServiceClose
  <2>2. /\ syncCancel' \in 0..MaxRevision /\ closed' \in BOOLEAN
        /\ cancelled' \subseteq Loops
    BY <1>1, <2>1, BoundsAssumption DEF TypeOK, Loops
  <2>3. TypeOK'
    BY <1>1, <2>1, <2>2 DEF TypeOK, mapVars, envVars, recordVars
  <2>4. InFlightCoherent' /\ RecordCoherent'
    BY <1>1, <2>1, InFlightUnchanged DEF mapVars
  <2>5. RevisionsInOrder'
    BY <1>1, <2>1 DEF RevisionsInOrder, Live, recordVars, TypeOK
  <2>6. SyncLoopMatchesRuntime'
    BY <1>1, <2>1 DEF SyncLoopMatchesRuntime, Live, recordVars, Loops
  <2> QED
    BY <2>3, <2>4, <2>5, <2>6 DEF Inv
<1>4. ASSUME UNCHANGED <<writer, handler, loop, recordVars, syncVars>>, TypeOK' PROVE Inv'
  BY <1>1, <1>4, InFlightUnchanged, SyncUnchanged DEF Inv, SyncInv, recordVars, syncVars
<1>6. CASE ProcessesChange
  <2>1. TypeOK'
    BY <1>1, <1>6, BoundsAssumption
    DEF ProcessesChange, TypeOK, mapVars, recordVars, syncVars
  <2> QED
    BY <1>4, <1>6, <2>1 DEF ProcessesChange, mapVars
<1>7. CASE UNCHANGED vars
  <2>1. TypeOK'
    BY <1>1, <1>7 DEF TypeOK, vars, mapVars, controlVars, envVars, recordVars, syncVars
  <2> QED
    BY <1>4, <1>7, <2>1 DEF vars, mapVars, controlVars
<1> QED
  BY <1>2, <1>3, <1>6, <1>7, <1>8

LEMMA StepInv == Inv /\ [Next]_vars => Inv'
BY HandlerInv, LoopInv, OtherInv DEF Next

(* The invariant holds in every state of every instance. *)
LEMMA SpecInv == Spec => []Inv
<1>1. Init => Inv
  BY InitInv
<1>2. Inv /\ [Next]_vars => Inv'
  BY StepInv
<1> QED
  BY <1>1, <1>2, PTL DEF Spec

(* Every variable keeps its type, whatever interleaves. *)
THEOREM TypeCorrect == Spec => []TypeOK
<1>1. Inv => TypeOK
  BY DEF Inv
<1> QED
  BY SpecInv, <1>1, PTL

(* The record is always a compilation of the ruleset it names: no handler  *)
(* and no stale sync loop mixes two rulesets in it.                         *)
THEOREM RecordIsCoherent == Spec => []RecordCoherent
<1>1. Inv => RecordCoherent
  BY DEF Inv
<1> QED
  BY SpecInv, <1>1, PTL

(* At most one sync loop is not cancelled, and it expands the runtime. *)
THEOREM OneSyncLoop == Spec => []SyncLoopMatchesRuntime
<1>1. Inv => SyncLoopMatchesRuntime
  BY DEF Inv
<1> QED
  BY SpecInv, <1>1, PTL

-----------------------------------------------------------------------------
(* Refinement of RuntimeSnapshot *)

(* Handlers and loops move the record by Publish and LoopPublish only. *)
LEMMA RecordMoves ==
    ASSUME [Next]_vars,
           \A h \in Handlers : ~Publish(h),
           \A l \in Loops : ~LoopPublish(l)
    PROVE  UNCHANGED <<recordVars, syncRevision>>
<1>1. ASSUME NEW h \in Handlers, Request(h) \/ HandlerStep(h)
      PROVE  UNCHANGED <<recordVars, syncRevision>>
  BY <1>1 DEF Request, HandlerStep, Rejected, HandlerScanFails,
              HandlerCompile, HandlerApplyFailed, syncVars
<1>2. ASSUME NEW l \in Loops, LoopStep(l) \/ LoopExit(l)
      PROVE  UNCHANGED <<recordVars, syncRevision>>
  BY <1>2 DEF LoopStep, LoopExit, LoopCompile, LoopScanFails, LoopSkip, LoopApply,
              LoopApplyFailed, LoopDiscard, LoopBackToWait, recordVars, syncVars
<1>3. ASSUME NEW w \in Writers, MapStep(w) \/ MapClosed(w)
      PROVE  UNCHANGED <<recordVars, syncRevision>>
  BY <1>3 DEF MapStep, MapClosed, controlVars, syncVars
<1>4. CASE ServiceClose \/ ProcessesChange
  BY <1>4 DEF ServiceClose, ProcessesChange, syncVars
<1>5. CASE UNCHANGED vars
  BY <1>5 DEF vars, controlVars, syncVars
<1> QED
  BY <1>1, <1>2, <1>3, <1>4, <1>5 DEF Next

LEMMA SnapshotStep == Inv /\ [Next]_vars => [Snapshot!Next]_(Snapshot!vars)
<1> SUFFICES ASSUME Inv, [Next]_vars PROVE [Snapshot!Next]_(Snapshot!vars)
  OBVIOUS
<1>1. ASSUME NEW h \in Handlers, Publish(h) PROVE Snapshot!Next
  <2>1. handler[h].rs \in Rulesets /\ writer[h].target \in Compilations(handler[h].rs)
    BY <1>1 DEF Inv, InFlightCoherent, Publish
  <2>2. PICK v \in Views : writer[h].target = CompileOf[handler[h].rs][v]
    BY <2>1 DEF Compilations
  <2>3. Snapshot!Install(handler[h].rs, v)
    BY <1>1, <2>2 DEF Publish, RestartSync, Snapshot!Install
  <2> QED
    BY <2>1, <2>2, <2>3 DEF Snapshot!Next
<1>2. ASSUME NEW l \in Loops, LoopPublish(l) PROVE Snapshot!Next
  <2>1. loop[l].pc = "apply" /\ l = syncRevision
    BY <1>2 DEF LoopPublish
  <2>2. /\ runtimeRuleset \in Scanning
        /\ loop[l].compiled \in Compilations(runtimeRuleset)
        /\ loop[l].compiled # runtimeCompiled
    BY <2>1 DEF Inv, InFlightCoherent, RevisionsInOrder, Live
  <2>3. runtimeLoaded
    BY <2>2, RulesetsAssumption DEF Inv, RecordCoherent
  <2>4. PICK v \in Views : loop[l].compiled = CompileOf[runtimeRuleset][v]
    BY <2>2 DEF Compilations
  <2>5. Snapshot!Resync(v)
    BY <1>2, <2>2, <2>3, <2>4 DEF LoopPublish, LoopBackToWait, syncVars, Snapshot!Resync
  <2> QED
    BY <2>4, <2>5 DEF Snapshot!Next
<1>3. CASE /\ \A h \in Handlers : ~Publish(h)
           /\ \A l \in Loops : ~LoopPublish(l)
  BY <1>3, RecordMoves DEF Snapshot!vars, recordVars
<1> QED
  BY <1>1, <1>2, <1>3

(* The runtime that is reported moves as RuntimeSnapshot says: by whole     *)
(* installs, and by resyncs of the installed ruleset that change something. *)
THEOREM RuntimeIsSnapshot == Spec => SnapshotSpec
<1>1. Init => Snapshot!Init
  BY DEF Init, Snapshot!Init
<1>2. Inv /\ [Next]_vars => [Snapshot!Next]_(Snapshot!vars)
  BY SnapshotStep
<1> QED
  BY <1>1, <1>2, SpecInv, PTL DEF Spec, SnapshotSpec, Snapshot!Spec

-----------------------------------------------------------------------------
(* Refinement of PolicyReplacement *)

(* A goroutine is a writer of the maps from its call of ApplyCompiled until *)
(* it has recorded the result, and every writer is coherent.                *)
WritersInv ==
    /\ \A w \in Writers : WriterCoherent(writer[w])
    /\ \A h \in Handlers : handler[h].pc = "apply" <=> writer[h].pc # "idle"
    /\ \A l \in Loops : loop[l].pc = "apply" <=> writer[l].pc # "idle"

LEMMA InitWritersInv == Init => WritersInv /\ Replacement!Init
<1> SUFFICES ASSUME Init PROVE WritersInv /\ Replacement!Init
  OBVIOUS
<1>1. tables = EmptyTable /\ writer = [w \in Writers |-> IdleWriter] /\ closed = FALSE
  BY DEF Init
<1>2. AnyTables!Init /\ \A w \in Writers : WriterCoherent(writer[w])
  BY <1>1, IdleReplaces
<1>3. /\ \A h \in Handlers : handler[h].pc # "apply" /\ writer[h].pc = "idle"
      /\ \A l \in Loops : loop[l].pc # "apply" /\ writer[l].pc = "idle"
  BY DEF Init, Writers, IdleWriter, IdleHandler, UnbornLoop
<1>4. Replacement!Init
  BY <1>1, <1>2 DEF AnyTables!Init, AnyTables!Resting, AnyTables!NoTable, AnyTables!Keys,
              Replacement!Init, Replacement!Resting, Replacement!NoTable, Replacement!Keys
<1> QED
  BY <1>2, <1>3, <1>4 DEF WritersInv

(* The goroutine of writer w is between its call and its record. *)
Applying(w) == IF w \in Handlers THEN handler[w].pc = "apply" ELSE loop[w].pc = "apply"

(* If one goroutine alone moves, as a writer and in its own state together, *)
(* the correspondence stays.                                                 *)
LEMMA WritersInvMoves ==
    ASSUME Inv, WritersInv, TypeOK', NEW w \in Writers,
           \A v \in Writers \ {w} : writer'[v] = writer[v] /\ (Applying(v)' <=> Applying(v)),
           WriterCoherent(writer'[w]),
           Applying(w)' <=> writer'[w].pc # "idle"
    PROVE  WritersInv'
<1>1. \A v \in Writers : Applying(v) <=> writer[v].pc # "idle"
  BY WritersDistinct DEF WritersInv, Applying, Writers
<1>2. \A v \in Writers : Applying(v)' <=> writer'[v].pc # "idle"
  BY <1>1
<1>3. \A v \in Writers : WriterCoherent(writer'[v])
  BY DEF WritersInv
<1>4. \A h \in Handlers : h \in Writers /\ (Applying(h)' <=> handler'[h].pc = "apply")
  BY DEF Applying, Writers
<1>5. \A l \in Loops : l \in Writers /\ (Applying(l)' <=> loop'[l].pc = "apply")
  BY WritersDistinct DEF Applying, Writers
<1> QED
  BY <1>2, <1>3, <1>4, <1>5 DEF WritersInv

(* Calls of ApplyCompiled are for compilations of rulesets that load. *)
LEMMA CallStep ==
    ASSUME TypeOK, NEW w \in Writers, NEW t \in AllCompilations,
           writer[w].pc = "idle", UNCHANGED <<tables, closed>>,
           writer' = [writer EXCEPT ![w] = BeginApply(t)]
    PROVE  Replacement!Next /\ WriterCoherent(writer'[w]) /\ writer'[w].pc # "idle"
<1>1. t \in Tables
  BY CompileType DEF AllCompilations, Compilations
<1>2. writer \in [Writers -> WriterState]
  BY DEF TypeOK
<1>3. /\ WriterCoherent(writer'[w]) /\ writer'[w].pc # "idle"
      /\ w \in DOMAIN Work /\ Work[w].status = "idle"
      /\ Work' = [Work EXCEPT ![w] = [status |-> "replacing", target |-> t, left |-> Keys]]
  BY <1>1, <1>2, CallReplaces
<1>4. Replacement!Begin(w)
  BY <1>3 DEF Replacement!Begin, Replacement!Keys, Keys
<1> QED
  BY <1>3, <1>4 DEF Replacement!Next, Replacement!Step

LEMMA ReturnStep ==
    ASSUME TypeOK, NEW w \in Writers,
           writer[w].pc \in {"applied", "failed"}, UNCHANGED <<tables, closed>>,
           writer' = [writer EXCEPT ![w] = IdleWriter]
    PROVE  Replacement!Next /\ WriterCoherent(writer'[w]) /\ writer'[w].pc = "idle"
<1>1. writer \in [Writers -> WriterState]
  BY DEF TypeOK
<1>2. /\ WriterCoherent(writer'[w]) /\ writer'[w].pc = "idle"
      /\ w \in DOMAIN Work /\ AnyTables!Return(w)
  BY <1>1, ReturnReplaces
<1>3. Replacement!Return(w)
  BY <1>2 DEF AnyTables!Return, AnyTables!Resting, AnyTables!NoTable, AnyTables!Keys,
              Replacement!Return, Replacement!Resting, Replacement!NoTable, Replacement!Keys
<1> QED
  BY <1>2, <1>3 DEF Replacement!Next, Replacement!Step

(* A bpf call of any writer. *)
LEMMA MapStepReplaces ==
    ASSUME TypeOK, WritersInv, NEW w \in Writers, MapStep(w)
    PROVE  Replacement!Next \/ UNCHANGED Replacement!vars
<1>1. /\ tables \in Tables /\ writer \in [Writers -> WriterState]
      /\ ApplyStep(w) /\ \A v \in Writers : WriterCoherent(writer[v])
      /\ closed' = closed
  BY DEF TypeOK, WritersInv, MapStep, controlVars, syncVars
<1>2. \/ \E k \in Work[w].left : AnyTables!Replace(w, k)
      \/ AnyTables!PassBy(w) \/ AnyTables!Succeed(w) \/ AnyTables!Fail(w)
      \/ tables' = tables /\ Work' = Work
  BY <1>1, ApplyStepReplaces
<1>3. w \in DOMAIN Work
  BY <1>1 DEF Work
<1>4. ASSUME NEW k PROVE AnyTables!Turn(w, k) <=> Replacement!Turn(w, k)
  BY DEF AnyTables!Turn, AnyTables!MapWith, Replacement!Turn, Replacement!MapWith
<1>5. ASSUME NEW S PROVE AnyTables!Cardinality(S) = Replacement!Cardinality(S)
  BY DEF AnyTables!Cardinality, Replacement!Cardinality
<1>6. ASSUME NEW k PROVE AnyTables!Room(k) <=> Replacement!Room(k)
  BY <1>5 DEF AnyTables!Room, AnyTables!MapWith, Replacement!Room, Replacement!MapWith
<1>7. ASSUME NEW k \in Work[w].left, AnyTables!Replace(w, k) PROVE Replacement!Next
  BY <1>1, <1>3, <1>4, <1>6, <1>7 DEF AnyTables!Replace, Replacement!Replace, Replacement!Next, Replacement!Step
<1>8. CASE AnyTables!PassBy(w)
  BY <1>1, <1>3, <1>8 DEF AnyTables!PassBy, Replacement!PassBy, Replacement!Next, Replacement!Step
<1>9. CASE AnyTables!Succeed(w)
  BY <1>1, <1>3, <1>9 DEF AnyTables!Succeed, Replacement!Succeed, Replacement!Next, Replacement!Step
<1>10. CASE AnyTables!Fail(w)
  BY <1>1, <1>3, <1>4, <1>6, <1>10 DEF AnyTables!Fail, Replacement!Fail, Replacement!Next, Replacement!Step
<1> QED
  BY <1>1, <1>2, <1>7, <1>8, <1>9, <1>10 DEF Replacement!vars

(* A call that fails while main closes the maps. *)
LEMMA MapClosedReplaces ==
    ASSUME TypeOK, NEW w \in Writers, MapClosed(w)
    PROVE  Replacement!Next
<1>1. /\ writer \in [Writers -> WriterState] /\ CallFails(w)
      /\ closed /\ closed' = closed /\ tables' = tables
  BY DEF TypeOK, MapClosed, CallFails, controlVars, syncVars
<1>2. /\ w \in DOMAIN Work /\ Work[w].status = "replacing"
      /\ Work' = [Work EXCEPT ![w].status = "failed", ![w].left = {}]
  BY <1>1, CallFailsWork
<1>3. Replacement!CallFails(w)
  BY <1>1, <1>2 DEF Replacement!CallFails
<1> QED
  BY <1>1, <1>2, <1>3 DEF Replacement!Next, Replacement!Step

LEMMA ReplacementStep ==
    ASSUME Inv, WritersInv, [Next]_vars
    PROVE  WritersInv' /\ [Replacement!Next]_(Replacement!vars)
<1> DEFINE Goal == WritersInv' /\ [Replacement!Next]_(Replacement!vars)
<1>1. /\ TypeOK /\ TypeOK' /\ InFlightCoherent /\ RevisionsInOrder
      /\ writer \in [Writers -> WriterState] /\ writer' \in [Writers -> WriterState]
      /\ handler \in [Handlers -> HandlerState] /\ loop \in [Loops -> LoopState]
      /\ Handlers \subseteq Writers /\ Loops \subseteq Writers
  BY StepInv DEF Inv, TypeOK, Writers
<1>2. \A l \in Loops : l \notin Handlers
  BY WritersDistinct
<1>3. ASSUME UNCHANGED <<tables, writer>>, UNCHANGED closed \/ closed' = TRUE,
             \A h \in Handlers : handler'[h].pc = "apply" <=> handler[h].pc = "apply",
             \A l \in Loops : loop'[l].pc = "apply" <=> loop[l].pc = "apply"
      PROVE  Goal
  <2>1. UNCHANGED <<tables, Work>>
    BY <1>3 DEF Work
  <2>2. [Replacement!Next]_(Replacement!vars)
    BY <1>3, <2>1 DEF Replacement!vars, Replacement!Next, Replacement!Shut
  <2>3. WritersInv'
    BY <1>3 DEF WritersInv
  <2> QED
    BY <2>2, <2>3
<1>4. ASSUME NEW h \in Handlers, Request(h) \/ HandlerStep(h)
      PROVE  Goal
  <2>1. ASSUME UNCHANGED loop,
               \A g \in Handlers \ {h} : handler'[g] = handler[g],
               NEW v \in Writers \ {h}
        PROVE  Applying(v)' <=> Applying(v)
    BY <2>1 DEF Applying
  <2>2. CASE Request(h) \/ Rejected(h) \/ HandlerScanFails(h)
    <3>1. /\ UNCHANGED <<tables, writer, loop, closed>>
          /\ \A g \in Handlers \ {h} : handler'[g] = handler[g]
          /\ handler[h].pc # "apply" /\ handler'[h].pc # "apply"
      BY <1>1, <2>2 DEF Request, Rejected, HandlerScanFails, mapVars, syncVars, IdleHandler
    <3> QED
      BY <1>3, <3>1
  <2>3. CASE HandlerCompile(h)
    <3> DEFINE t == CompileOf[handler[h].rs][view]
    <3>1. /\ handler[h].pc = "compile" /\ handler'[h].pc = "apply"
          /\ handler[h].rs \in Rulesets
          /\ writer' = [writer EXCEPT ![h] = BeginApply(t)]
          /\ UNCHANGED <<tables, loop, closed>>
          /\ \A g \in Handlers \ {h} : handler'[g] = handler[g]
      BY <1>1, <2>3 DEF HandlerCompile, HandlerState, syncVars
    <3>2. t \in AllCompilations
      BY <1>1, <3>1 DEF AllCompilations, Compilations, TypeOK
    <3>3. writer[h].pc = "idle"
      BY <3>1 DEF WritersInv
    <3> HIDE DEF t
    <3>4. Replacement!Next /\ WriterCoherent(writer'[h]) /\ writer'[h].pc # "idle"
      BY <1>1, <3>1, <3>2, <3>3, CallStep
    <3>5. Applying(h)'
      BY <3>1 DEF Applying
    <3>6. \A v \in Writers \ {h} : writer'[v] = writer[v] /\ (Applying(v)' <=> Applying(v))
      BY <1>1, <2>1, <3>1
    <3>7. WritersInv'
      BY <1>1, <3>4, <3>5, <3>6, WritersInvMoves
    <3> QED
      BY <3>4, <3>7
  <2>4. CASE HandlerApplyFailed(h) \/ Publish(h)
    <3>1. /\ handler'[h].pc # "apply"
          /\ writer[h].pc \in {"applied", "failed"}
          /\ writer' = [writer EXCEPT ![h] = IdleWriter]
          /\ UNCHANGED <<tables, closed>>
          /\ \A g \in Handlers \ {h} : handler'[g] = handler[g]
      BY <1>1, <2>4 DEF HandlerApplyFailed, Publish, RestartSync, IdleHandler, syncVars
    <3>2. \A l \in Loops : loop'[l].pc = "apply" <=> loop[l].pc = "apply"
      <4>1. CASE UNCHANGED loop
        BY <4>1
      <4>2. CASE Publish(h) /\ ~ UNCHANGED loop
        <5> DEFINE new == syncRevision + 1
        <5>1. /\ new \in Loops
              /\ loop' = [loop EXCEPT ![new] = [UnbornLoop EXCEPT !.pc = "wait", !.rs = handler[h].rs]]
          BY <4>2 DEF Publish, RestartSync
        <5>2. new > syncRevision
          BY <1>1 DEF TypeOK
        <5>3. loop[new].pc = "unborn"
          BY <1>1, <5>1, <5>2 DEF RevisionsInOrder
        <5>4. loop'[new].pc = "wait" /\ \A l \in Loops \ {new} : loop'[l] = loop[l]
          BY <1>1, <5>1 DEF UnbornLoop
        <5> QED
          BY <5>3, <5>4
      <4> QED
        BY <2>4, <4>1, <4>2 DEF HandlerApplyFailed
    <3>3. Replacement!Next /\ WriterCoherent(writer'[h]) /\ writer'[h].pc = "idle"
      BY <1>1, <3>1, ReturnStep
    <3>4. ~ Applying(h)'
      BY <3>1 DEF Applying
    <3>5. \A v \in Writers \ {h} : writer'[v] = writer[v] /\ (Applying(v)' <=> Applying(v))
      BY <1>1, <3>1, <3>2 DEF Applying, Writers
    <3>6. WritersInv'
      BY <1>1, <3>3, <3>4, <3>5, WritersInvMoves
    <3> QED
      BY <3>3, <3>6
  <2> QED
    BY <1>4, <2>2, <2>3, <2>4 DEF HandlerStep
<1>5. ASSUME NEW l \in Loops, LoopStep(l) \/ LoopExit(l)
      PROVE  Goal
  <2>1. ASSUME UNCHANGED handler,
               \A m \in Loops \ {l} : loop'[m] = loop[m],
               NEW v \in Writers \ {l}
        PROVE  Applying(v)' <=> Applying(v)
    BY <2>1 DEF Applying, Writers
  <2>2. CASE LoopCompile(l) \/ LoopScanFails(l) \/ LoopSkip(l) \/ LoopExit(l)
    <3>1. /\ UNCHANGED <<tables, writer, handler, closed>>
          /\ \A m \in Loops \ {l} : loop'[m] = loop[m]
          /\ loop[l].pc # "apply" /\ loop'[l].pc # "apply"
      BY <1>1, <2>2 DEF LoopCompile, LoopScanFails, LoopSkip, LoopExit, mapVars, syncVars, LoopState, UnbornLoop
    <3> QED
      BY <1>3, <3>1
  <2>3. CASE LoopApply(l)
    <3> DEFINE t == loop[l].compiled
    <3>1. /\ loop[l].pc = "check" /\ loop'[l].pc = "apply"
          /\ writer' = [writer EXCEPT ![l] = BeginApply(t)]
          /\ UNCHANGED <<tables, handler, closed>>
          /\ \A m \in Loops \ {l} : loop'[m] = loop[m]
      BY <1>1, <2>3 DEF LoopApply, LoopState, syncVars
    <3>2. t \in AllCompilations
      BY <1>1, <3>1, RulesetsAssumption
      DEF AllCompilations, InFlightCoherent, RevisionsInOrder, Live
    <3>3. writer[l].pc = "idle"
      BY <3>1 DEF WritersInv
    <3> HIDE DEF t
    <3>4. Replacement!Next /\ WriterCoherent(writer'[l]) /\ writer'[l].pc # "idle"
      BY <1>1, <3>1, <3>2, <3>3, CallStep
    <3>5. Applying(l)'
      BY <1>2, <3>1 DEF Applying
    <3>6. \A v \in Writers \ {l} : writer'[v] = writer[v] /\ (Applying(v)' <=> Applying(v))
      BY <1>1, <2>1, <3>1
    <3>7. WritersInv'
      BY <1>1, <3>4, <3>5, <3>6, WritersInvMoves
    <3> QED
      BY <3>4, <3>7
  <2>4. CASE LoopApplyFailed(l) \/ LoopDiscard(l) \/ LoopPublish(l)
    <3>1. /\ writer[l].pc \in {"applied", "failed"} /\ LoopBackToWait(l)
      BY <2>4 DEF LoopApplyFailed, LoopDiscard, LoopPublish
    <3>2. /\ loop'[l].pc # "apply"
          /\ writer' = [writer EXCEPT ![l] = IdleWriter]
          /\ UNCHANGED <<tables, handler, closed>>
          /\ \A m \in Loops \ {l} : loop'[m] = loop[m]
      BY <1>1, <3>1 DEF LoopBackToWait, LoopState, syncVars
    <3>3. Replacement!Next /\ WriterCoherent(writer'[l]) /\ writer'[l].pc = "idle"
      BY <1>1, <3>1, <3>2, ReturnStep
    <3>4. ~ Applying(l)'
      BY <1>2, <3>2 DEF Applying
    <3>5. \A v \in Writers \ {l} : writer'[v] = writer[v] /\ (Applying(v)' <=> Applying(v))
      BY <1>1, <2>1, <3>2
    <3>6. WritersInv'
      BY <1>1, <3>3, <3>4, <3>5, WritersInvMoves
    <3> QED
      BY <3>3, <3>6
  <2> QED
    BY <1>5, <2>2, <2>3, <2>4 DEF LoopStep
<1>6. ASSUME NEW w \in Writers, MapStep(w) PROVE Goal
  <2>1. ApplyStep(w) /\ UNCHANGED <<handler, loop>>
    BY <1>6 DEF MapStep, controlVars
  <2>2. /\ writer[w].pc # "idle" /\ writer'[w].pc # "idle"
        /\ \A v \in Writers \ {w} : writer'[v] = writer[v]
    BY <1>1, <2>1, ApplyStepBusy
  <2>3. WriterCoherent(writer'[w])
    BY <1>1, <2>1, ApplyStepCoherent DEF TypeOK, WritersInv
  <2>4. \A v \in Writers : Applying(v)' <=> Applying(v)
    BY <2>1 DEF Applying
  <2>5. Applying(w)
    BY <1>2, <2>2 DEF Applying, WritersInv, Writers
  <2>6. WritersInv'
    BY <1>1, <2>2, <2>3, <2>4, <2>5, WritersInvMoves
  <2> QED
    BY <1>1, <1>6, <2>6, MapStepReplaces
<1>8. ASSUME NEW w \in Writers, MapClosed(w) PROVE Goal
  <2>1. CallFails(w) /\ UNCHANGED <<handler, loop>>
    BY <1>8 DEF MapClosed, controlVars
  <2>2. /\ writer[w].pc # "idle" /\ writer'[w].pc # "idle"
        /\ \A v \in Writers \ {w} : writer'[v] = writer[v]
    BY <1>1, <2>1, CallFailsStops
  <2>3. WriterCoherent(writer'[w])
    BY <1>1, <2>1, CallFailsKeeps DEF WritersInv
  <2>4. \A v \in Writers : Applying(v)' <=> Applying(v)
    BY <2>1 DEF Applying
  <2>5. Applying(w)
    BY <1>2, <2>2 DEF Applying, WritersInv, Writers
  <2>6. WritersInv'
    BY <1>1, <2>2, <2>3, <2>4, <2>5, WritersInvMoves
  <2> QED
    BY <1>1, <1>8, <2>6, MapClosedReplaces
<1>7. CASE ServiceClose \/ ProcessesChange \/ UNCHANGED vars
  <2>1. UNCHANGED <<tables, writer, handler, loop>> /\ (UNCHANGED closed \/ closed' = TRUE)
    BY <1>7 DEF ServiceClose, ProcessesChange, vars, mapVars, controlVars, syncVars
  <2> QED
    BY <1>3, <2>1
<1> QED
  BY <1>4, <1>5, <1>6, <1>7, <1>8 DEF Next

(* Whatever handlers and sync loops are at, the maps move as                *)
(* PolicyReplacement says: each apply is of one compilation of a ruleset    *)
(* that loads, takes each key once and in order, and ends applied only when *)
(* no key is left.                                                           *)
THEOREM AppliesReplace == Spec => ReplacementSpec
<1>1. Init => Inv /\ WritersInv /\ Replacement!Init
  BY InitInv, InitWritersInv
<1>2. Inv /\ WritersInv /\ [Next]_vars => (Inv /\ WritersInv)' /\ [Replacement!Next]_(Replacement!vars)
  BY StepInv, ReplacementStep
<1> QED
  BY <1>1, <1>2, PTL DEF Spec, ReplacementSpec, Replacement!Spec

-----------------------------------------------------------------------------
(* An apply ends, whatever the others do *)

InApply(w) == writer[w].pc \in {"collect", "replace"}

(* Only its own calls move a writer that is in ApplyCompiled. *)
LEMMA BusyMovesItself ==
    ASSUME Inv, WritersInv, [Next]_vars, NEW w \in Writers, InApply(w)
    PROVE  writer'[w] = writer[w] \/ ApplyStep(w) \/ CallFails(w)
<1> DEFINE Goal == writer'[w] = writer[w] \/ ApplyStep(w) \/ CallFails(w)
<1>1. /\ writer \in [Writers -> WriterState]
      /\ Handlers \subseteq Writers /\ Loops \subseteq Writers
  BY DEF Inv, TypeOK, Writers
<1>2. ASSUME NEW v \in Writers, ~ InApply(v), NEW r, writer' = [writer EXCEPT ![v] = r]
      PROVE  Goal
  BY <1>1, <1>2
<1>3. ASSUME writer' = writer PROVE Goal
  BY <1>3
<1>4. ASSUME NEW h \in Handlers, Request(h) \/ HandlerStep(h) PROVE Goal
  <2>1. CASE Request(h) \/ Rejected(h) \/ HandlerScanFails(h)
    BY <1>3, <2>1 DEF Request, Rejected, HandlerScanFails, mapVars
  <2>2. CASE HandlerCompile(h)
    <3>1. writer[h].pc = "idle"
      BY <2>2 DEF HandlerCompile, WritersInv
    <3> QED
      BY <1>1, <1>2, <2>2, <3>1 DEF HandlerCompile, InApply
  <2>3. CASE HandlerApplyFailed(h) \/ Publish(h)
    BY <1>1, <1>2, <2>3 DEF HandlerApplyFailed, Publish, InApply
  <2> QED
    BY <1>4, <2>1, <2>2, <2>3 DEF HandlerStep
<1>5. ASSUME NEW l \in Loops, LoopStep(l) \/ LoopExit(l) PROVE Goal
  <2>1. CASE LoopCompile(l) \/ LoopScanFails(l) \/ LoopSkip(l) \/ LoopExit(l)
    BY <1>3, <2>1 DEF LoopCompile, LoopScanFails, LoopSkip, LoopExit, mapVars
  <2>2. CASE LoopApply(l)
    <3>1. writer[l].pc = "idle"
      BY <2>2 DEF LoopApply, WritersInv
    <3> QED
      BY <1>1, <1>2, <2>2, <3>1 DEF LoopApply, InApply
  <2>3. CASE LoopApplyFailed(l) \/ LoopDiscard(l) \/ LoopPublish(l)
    BY <1>1, <1>2, <2>3 DEF LoopApplyFailed, LoopDiscard, LoopPublish, LoopBackToWait, InApply
  <2> QED
    BY <1>5, <2>1, <2>2, <2>3 DEF LoopStep
<1>6. ASSUME NEW v \in Writers, MapStep(v) PROVE Goal
  <2>1. ApplyStep(v)
    BY <1>6 DEF MapStep
  <2> QED
    BY <1>1, <2>1, ApplyStepBusy
<1>8. ASSUME NEW v \in Writers, MapClosed(v) PROVE Goal
  <2>1. CallFails(v)
    BY <1>8 DEF MapClosed
  <2> QED
    BY <1>1, <2>1, CallFailsStops
<1>7. CASE ServiceClose \/ ProcessesChange \/ UNCHANGED vars
  BY <1>3, <1>7 DEF ServiceClose, ProcessesChange, vars, mapVars
<1> QED
  BY <1>4, <1>5, <1>6, <1>7, <1>8 DEF Next

(* Handlers and sync loops that apply at the same time put and delete each   *)
(* other's entries, but none keeps another from its end: with finitely many  *)
(* keys an apply makes a bounded number of calls, each of which leaves it    *)
(* fewer (rules/compiler.go, ApplyCompiled: an entry that is already gone is *)
(* not tried again).                                                         *)
ApplyDescends ==
    /\ [](\A w \in Writers : CallsLeft(writer[w]) \in 0..(2 * Cardinality(Keys) + 4))
    /\ [][\A w \in Writers : InApply(w) =>
            writer'[w] = writer[w] \/ CallsLeft(writer'[w]) < CallsLeft(writer[w])]_vars

(* So no two applies can keep each other busy for ever: what RequestsAnswered *)
(* adds is that goroutines are scheduled and listings return.                *)
THEOREM AppliesEnd ==
    ASSUME IsFiniteSet(Keys)
    PROVE  Spec => ApplyDescends
<1>1. Init => Inv /\ WritersInv
  BY InitInv, InitWritersInv
<1>2. Inv /\ WritersInv /\ [Next]_vars => (Inv /\ WritersInv)'
  BY StepInv, ReplacementStep
<1>3. ASSUME Inv PROVE \A w \in Writers : CallsLeft(writer[w]) \in 0..(2 * Cardinality(Keys) + 4)
  BY <1>3, CallsCounted DEF Inv, TypeOK
<1>4. ASSUME Inv, WritersInv, [Next]_vars, NEW w \in Writers, InApply(w)
      PROVE  writer'[w] = writer[w] \/ CallsLeft(writer'[w]) < CallsLeft(writer[w])
  <2>1. /\ tables \in Tables /\ writer \in [Writers -> WriterState]
        /\ WriterCoherent(writer[w])
    BY <1>4 DEF Inv, TypeOK, WritersInv
  <2> QED
    BY <1>4, <2>1, BusyMovesItself, ApplyStepDescends, CallFailsDescends
<1>5. Inv /\ WritersInv /\ [Next]_vars =>
         [\A w \in Writers : InApply(w) =>
            writer'[w] = writer[w] \/ CallsLeft(writer'[w]) < CallsLeft(writer[w])]_vars
  BY <1>4
<1> QED
  BY <1>1, <1>2, <1>3, <1>5, PTL DEF Spec, ApplyDescends

-----------------------------------------------------------------------------
(* One handler and no executable rule, hence no sync loop: ApplyCompiled    *)
(* has the maps to itself, and they hold what the record says.              *)

(* One handler and no sync loop: where the maps are, besides Inv. *)
SoleInv(h) ==
    /\ \A l \in Loops : writer[l].pc = "idle"
    /\ handler[h].pc # "apply" =>
          /\ writer[h].pc = "idle"
          /\ RuntimeValid => tables = runtimeCompiled
    /\ handler[h].pc = "apply" =>
          /\ ApplyProgress(h)
          /\ RuntimeValid => \A k \in Keys :
                tables[k] \in {runtimeCompiled[k], writer[h].target[k]}

(* Idle writers take no step, and without scanning rulesets no loop lives. *)
LEMMA OnlyHandlerActs ==
    ASSUME NEW h, Handlers = {h}, Scanning = {}, Inv, SoleInv(h), [Next]_vars
    PROVE  \/ Request(h) \/ HandlerStep(h) \/ MapStep(h) \/ MapClosed(h)
           \/ ServiceClose \/ ProcessesChange \/ UNCHANGED vars
<1>1. ASSUME NEW l \in Loops PROVE loop[l].pc \notin {"wait", "check", "apply"}
  BY DEF Inv, RevisionsInOrder, Live
<1>2. ASSUME NEW l \in Loops PROVE ~(LoopStep(l) \/ LoopExit(l))
  BY <1>1 DEF LoopStep, LoopExit, LoopCompile, LoopScanFails, LoopSkip, LoopApply,
              LoopApplyFailed, LoopDiscard, LoopPublish
<1>3. ASSUME NEW w \in Writers, writer[w].pc = "idle" PROVE ~(MapStep(w) \/ MapClosed(w))
  BY <1>3 DEF MapStep, MapClosed, ApplyStep, Collect, CollectFails, Put, PutFails, Delete,
              FinishMap, CallFails
<1>4. ASSUME NEW w \in Writers, MapStep(w) \/ MapClosed(w) PROVE w = h
  BY <1>3, <1>4 DEF SoleInv, Writers
<1> QED
  BY <1>2, <1>4 DEF Next

LEMMA SoleInvStep ==
    ASSUME NEW h, Handlers = {h}, Scanning = {}, Inv, SoleInv(h), [Next]_vars
    PROVE  SoleInv(h)'
<1>1. /\ tables \in Tables /\ runtimeCompiled \in Tables
      /\ writer \in [Writers -> WriterState]
      /\ handler \in [Handlers -> HandlerState]
      /\ h \in Writers /\ h \in Handlers
      /\ Loops \subseteq Writers
  BY DEF Inv, TypeOK, Writers
<1>2. \A l \in Loops : l # h
  BY <1>1, WritersDistinct
<1>3. ASSUME UNCHANGED <<tables, writer, recordVars, runtimeError>>,
             handler'[h].pc = "apply" <=> handler[h].pc = "apply"
      PROVE  SoleInv(h)'
  BY <1>3 DEF SoleInv, ApplyProgress, RuntimeValid, recordVars
<1>4. CASE Request(h) \/ Rejected(h) \/ HandlerScanFails(h)
  <2>1. UNCHANGED <<tables, writer, recordVars, runtimeError>>
    BY <1>4 DEF Request, Rejected, HandlerScanFails, mapVars
  <2>2. handler[h].pc # "apply" /\ handler'[h].pc # "apply"
    BY <1>1, <1>4 DEF Request, Rejected, HandlerScanFails, IdleHandler
  <2> QED
    BY <1>3, <2>1, <2>2
<1>5. CASE HandlerCompile(h)
  <2> DEFINE begun == BeginApply(CompileOf[handler[h].rs][view])
  <2>1. /\ handler[h].pc = "compile" /\ handler'[h].pc = "apply"
        /\ writer' = [writer EXCEPT ![h] = begun]
        /\ UNCHANGED <<tables, recordVars, runtimeError>>
    BY <1>1, <1>5 DEF HandlerCompile, HandlerState
  <2>2. /\ begun.puts = {} /\ begun.dels = {} /\ begun.map = "pid" /\ begun.pc = "collect"
    BY DEF BeginApply, IdleWriter
  <2>3. writer'[h] = begun /\ \A l \in Loops : writer'[l] = writer[l]
    BY <1>1, <1>2, <2>1
  <2> HIDE DEF begun
  <2>4. ApplyProgress(h)'
    BY <2>2, <2>3 DEF ApplyProgress
  <2>5. RuntimeValid' => tables' = runtimeCompiled'
    BY <2>1 DEF SoleInv, RuntimeValid, recordVars
  <2> QED
    BY <2>1, <2>3, <2>4, <2>5 DEF SoleInv
<1>6. CASE HandlerApplyFailed(h)
  <2>1. /\ handler'[h].pc # "apply" /\ writer'[h].pc = "idle"
        /\ ~RuntimeValid'
        /\ \A l \in Loops : writer'[l] = writer[l]
    BY <1>1, <1>2, <1>6 DEF HandlerApplyFailed, IdleHandler, IdleWriter, RuntimeValid
  <2> QED
    BY <2>1 DEF SoleInv
<1>7. CASE Publish(h)
  <2>1. /\ handler'[h].pc # "apply" /\ writer'[h].pc = "idle"
        /\ \A l \in Loops : writer'[l] = writer[l]
    BY <1>1, <1>2, <1>7 DEF Publish, IdleHandler, IdleWriter
  <2>2. tables = writer[h].target
    BY <1>7 DEF SoleInv, ApplyProgress, Publish
  <2>3. tables' = runtimeCompiled'
    BY <1>7, <2>2 DEF Publish
  <2> QED
    BY <2>1, <2>3 DEF SoleInv
<1>8. CASE MapStep(h)
  <2>1. /\ ApplyStep(h) /\ writer[h].pc # "idle"
        /\ UNCHANGED <<handler, recordVars, runtimeError>>
    BY <1>8 DEF MapStep, controlVars, ApplyStep, Collect, CollectFails, Put, PutFails,
                Delete, FinishMap
  <2>2. handler[h].pc = "apply" /\ ApplyProgress(h)
    BY <2>1 DEF SoleInv
  <2>3. /\ ApplyProgress(h)'
        /\ \A k \in Keys : tables'[k] \in {tables[k], writer[h].target[k]}
    BY <1>1, <2>1, <2>2, ApplyStepProgress
  <2>4. writer'[h].target = writer[h].target
    BY <1>1, <2>1, ApplyStepKeepsTargets DEF Inv
  <2>5. \A l \in Loops : writer'[l] = writer[l]
    BY <1>1, <1>2, <2>1 DEF ApplyStep, Collect, CollectFails, Put, PutFails, Delete, FinishMap
  <2>6. RuntimeValid' => \A k \in Keys :
           tables'[k] \in {runtimeCompiled'[k], writer'[h].target[k]}
    BY <2>1, <2>2, <2>3, <2>4 DEF SoleInv, RuntimeValid, recordVars
  <2> QED
    BY <2>1, <2>2, <2>3, <2>5, <2>6 DEF SoleInv
<1>10. CASE MapClosed(h)
  <2>1. CallFails(h) /\ UNCHANGED <<handler, recordVars, runtimeError>>
    BY <1>10 DEF MapClosed, controlVars
  <2>2. /\ tables' = tables /\ writer[h].pc # "idle"
        /\ writer'[h].target = writer[h].target
        /\ \A l \in Loops : writer'[l] = writer[l]
    BY <1>1, <1>2, <2>1, CallFailsStops
  <2>3. handler[h].pc = "apply" /\ ApplyProgress(h)
    BY <2>2 DEF SoleInv
  <2>4. ApplyProgress(h)'
    BY <1>1, <2>1, <2>3, CallFailsKeeps
  <2> QED
    BY <2>1, <2>2, <2>3, <2>4 DEF SoleInv, RuntimeValid, recordVars
<1>9. CASE ServiceClose \/ ProcessesChange \/ UNCHANGED vars
  <2>1. UNCHANGED <<tables, writer, recordVars, runtimeError, handler>>
    BY <1>9 DEF ServiceClose, ProcessesChange, vars, mapVars, controlVars
  <2> QED
    BY <1>3, <2>1
<1> QED
  BY <1>4, <1>5, <1>6, <1>7, <1>8, <1>9, <1>10, OnlyHandlerActs DEF HandlerStep

LEMMA SoleInvInit ==
    ASSUME NEW h, Handlers = {h}, Init
    PROVE  SoleInv(h)
BY DEF Init, SoleInv, Writers, IdleWriter, IdleHandler, RuntimeValid

LEMMA SpecSoleInv ==
    ASSUME NEW CONSTANT h, Handlers = {h}, Scanning = {}
    PROVE  Spec => [](Inv /\ SoleInv(h))
<1>1. Init => Inv /\ SoleInv(h)
  BY InitInv, SoleInvInit
<1>2. Inv /\ SoleInv(h) /\ [Next]_vars => (Inv /\ SoleInv(h))'
  BY StepInv, SoleInvStep
<1> QED
  BY <1>1, <1>2, PTL DEF Spec

(* With one handler and no executable rule, whenever nobody is applying and *)
(* the runtime is reported valid, the maps hold exactly what is recorded,    *)
(* however many applies have failed half way before.                         *)
THEOREM SoleWriterInstalls ==
    ASSUME NEW CONSTANT h, Handlers = {h}, Scanning = {}
    PROVE  Spec => []SnapshotInstalled
<1>1. Inv /\ SoleInv(h) => SnapshotInstalled
  BY DEF SoleInv, SnapshotInstalled, Quiescent
<1> QED
  BY <1>1, SpecSoleInv, PTL

(* And while it applies, every key holds the old or the new policy. *)
THEOREM SoleWriterOldOrNew ==
    ASSUME NEW CONSTANT h, Handlers = {h}, Scanning = {}
    PROVE  Spec => []OldOrNew
<1>1. Inv /\ SoleInv(h) => OldOrNew
  <2> SUFFICES ASSUME Inv, SoleInv(h), RuntimeValid,
                      NEW w \in Writers, writer[w].pc # "idle", NEW k \in Keys
               PROVE  tables[k] \in {runtimeCompiled[k], writer[w].target[k]}
    BY DEF OldOrNew
  <2>1. w = h
    BY DEF SoleInv, Writers
  <2> QED
    BY <2>1 DEF SoleInv
<1> QED
  BY <1>1, SpecSoleInv, PTL

(* While policy_map is replaced, comm_policy_map still is the old one. *)
SoleOrder(h) ==
    handler[h].pc = "apply" /\ RuntimeValid /\ writer[h].map = "pid" =>
        \A k \in CommKeys : tables[k] = runtimeCompiled[k]

LEMMA SoleOrderStep ==
    ASSUME NEW h, Handlers = {h}, Scanning = {}, Inv, SoleInv(h), SoleOrder(h), [Next]_vars
    PROVE  SoleOrder(h)'
<1>1. /\ tables \in Tables
      /\ writer \in [Writers -> WriterState]
      /\ handler \in [Handlers -> HandlerState]
      /\ h \in Writers /\ h \in Handlers
  BY DEF Inv, TypeOK, Writers
<1>2. CASE Request(h) \/ Rejected(h) \/ HandlerScanFails(h)
           \/ HandlerApplyFailed(h) \/ Publish(h)
  BY <1>1, <1>2 DEF SoleOrder, Request, Rejected, HandlerScanFails,
                    HandlerApplyFailed, Publish, IdleHandler
<1>3. CASE HandlerCompile(h)
  <2>1. handler[h].pc = "compile" /\ UNCHANGED <<tables, recordVars, runtimeError>>
    BY <1>3 DEF HandlerCompile
  <2>2. RuntimeValid => tables = runtimeCompiled
    BY <2>1 DEF SoleInv
  <2> QED
    BY <2>1, <2>2 DEF SoleOrder, RuntimeValid, recordVars
<1>4. CASE MapStep(h)
  <2>1. ApplyStep(h) /\ UNCHANGED <<handler, recordVars, runtimeError>>
    BY <1>4 DEF MapStep, controlVars
  <2>2. handler[h].pc = "apply" => ApplyProgress(h)
    BY DEF SoleInv
  <2>3. ASSUME handler[h].pc = "apply", writer'[h].map = "pid"
        PROVE  writer[h].map = "pid" /\ \A k \in CommKeys : tables'[k] = tables[k]
    BY <1>1, <2>1, <2>2, <2>3, ApplyStepOrder
  <2> QED
    BY <2>1, <2>3 DEF SoleOrder, RuntimeValid, recordVars
<1>6. CASE MapClosed(h)
  <2>1. CallFails(h) /\ UNCHANGED <<handler, recordVars, runtimeError>>
    BY <1>6 DEF MapClosed, controlVars
  <2>2. tables' = tables /\ writer'[h].map = writer[h].map
    BY <1>1, <2>1, CallFailsStops
  <2> QED
    BY <2>1, <2>2 DEF SoleOrder, RuntimeValid, recordVars
<1>5. CASE ServiceClose \/ ProcessesChange \/ UNCHANGED vars
  <2>1. UNCHANGED <<tables, writer, recordVars, runtimeError, handler>>
    BY <1>5 DEF ServiceClose, ProcessesChange, vars, mapVars, controlVars
  <2> QED
    BY <2>1 DEF SoleOrder, RuntimeValid, recordVars
<1> QED
  BY <1>2, <1>3, <1>4, <1>5, <1>6, OnlyHandlerActs DEF HandlerStep

(* With a sole writer, a process that both rulesets give a policy is without *)
(* one only while it passes from its pid alone to its name alone.            *)
THEOREM SoleWriterGap ==
    ASSUME NEW CONSTANT h, Handlers = {h}, Scanning = {}
    PROVE  Spec => []GapOnlyFromPidToName
<1>1. Init => SoleOrder(h)
  BY DEF Init, SoleOrder, RuntimeValid
<1>2. Inv /\ SoleInv(h) /\ SoleOrder(h) /\ [Next]_vars => SoleOrder(h)'
  BY SoleOrderStep
<1>3. Inv /\ SoleInv(h) /\ SoleOrder(h) => GapOnlyFromPidToName
  <2> SUFFICES ASSUME Inv, SoleInv(h), SoleOrder(h), RuntimeValid,
                      NEW w \in Writers, writer[w].pc # "idle",
                      NEW pid \in PidKeys, NEW comm \in CommKeys,
                      Lookup(runtimeCompiled, pid, comm) # NoPolicy,
                      Lookup(writer[w].target, pid, comm) # NoPolicy,
                      Lookup(tables, pid, comm) = NoPolicy
               PROVE  /\ runtimeCompiled[pid] # NoPolicy /\ runtimeCompiled[comm] = NoPolicy
                      /\ writer[w].target[pid] = NoPolicy /\ writer[w].target[comm] # NoPolicy
    BY DEF GapOnlyFromPidToName
  <2>1. w = h /\ handler[h].pc = "apply" /\ writer[h].map \in {"pid", "comm"}
    BY DEF SoleInv, Writers, Inv, TypeOK, WriterState
  <2> DEFINE old == runtimeCompiled
             new == writer[h].target
  <2>2. /\ tables[pid] \in {old[pid], new[pid]}
        /\ tables[comm] \in {old[comm], new[comm]}
        /\ writer[h].map = "comm" => tables[pid] = new[pid]
    BY <2>1 DEF SoleInv, ApplyProgress, Keys
  <2>3. writer[h].map = "pid" => tables[comm] = old[comm]
    BY <2>1 DEF SoleOrder
  <2>4. tables[pid] = NoPolicy /\ tables[comm] = NoPolicy
    BY DEF Lookup
  <2>5. old[pid] # NoPolicy \/ old[comm] # NoPolicy
    BY DEF Lookup
  <2>6. new[pid] # NoPolicy \/ new[comm] # NoPolicy
    BY <2>1 DEF Lookup
  <2> HIDE DEF old, new
  <2>7. old[pid] # NoPolicy /\ old[comm] = NoPolicy /\ new[pid] = NoPolicy /\ new[comm] # NoPolicy
    BY <2>1, <2>2, <2>3, <2>4, <2>5, <2>6
  <2> QED
    BY <2>1, <2>7 DEF old, new
<1> QED
  BY <1>1, <1>2, <1>3, SpecSoleInv, PTL DEF Spec
=============================================================================
