-------------------------- MODULE PolicyMapsProofs --------------------------
(***************************************************************************)
(* What a step of ApplyCompiled does, for any writers W.                   *)
(***************************************************************************)
EXTENDS PolicyMaps, FiniteSetTheorems, TLAPS

(* The empty table and the record of an idle writer have their types. *)
LEMMA IdleWriterTypes == EmptyTable \in Tables /\ IdleWriter \in WriterState
<1>1. EmptyTable \in Tables
  BY DEF EmptyTable, Tables
<1> QED
  BY <1>1 DEF IdleWriter, WriterState

(* A writer that is about to apply a table is a writer. *)
LEMMA BeginApplyType ==
    ASSUME NEW t \in Tables
    PROVE  BeginApply(t) \in WriterState
BY IdleWriterTypes DEF BeginApply, IdleWriter, WriterState

(* A step of a writer keeps the types of the maps and of the writers. *)
LEMMA ApplyStepTypes ==
    ASSUME NEW W, tables \in Tables, writer \in [W -> WriterState],
           NEW w \in W, ApplyStep(w)
    PROVE  tables' \in Tables /\ writer' \in [W -> WriterState]
<1> DEFINE Goal == tables' \in Tables /\ writer' \in [W -> WriterState]
<1>0. writer[w] \in WriterState
  OBVIOUS
<1>1. CASE Collect(w)
  <2> DEFINE m == writer[w].map
             wanted == Present(writer[w].target) \cap KeysOf(m)
             stale == (Present(tables) \cap KeysOf(m)) \ wanted
             after == [writer[w] EXCEPT !.pc = "replace", !.puts = wanted, !.dels = stale]
  <2>1. wanted \in SUBSET Keys /\ stale \in SUBSET Keys
    BY DEF Present
  <2>2. tables' = tables /\ writer' = [writer EXCEPT ![w] = after]
    BY <1>1 DEF Collect
  <2> HIDE DEF wanted, stale
  <2>3. after \in WriterState
    BY <1>0, <2>1 DEF WriterState
  <2> QED
    BY <2>2, <2>3
<1>2. CASE CollectFails(w)
  BY <1>2 DEF CollectFails, WriterState
<1>3. ASSUME NEW k \in Keys, Put(w, k) PROVE Goal
  BY <1>3 DEF Put, WriterState, Tables
<1>4. ASSUME NEW k \in Keys, PutFails(w, k) PROVE Goal
  BY <1>4 DEF PutFails, WriterState
<1>5. ASSUME NEW k \in Keys, Delete(w, k) PROVE Goal
  BY <1>5 DEF Delete, WriterState, Tables
<1>6. CASE FinishMap(w)
  <2> DEFINE next == IF writer[w].map = "pid" THEN "collect" ELSE "applied"
             after == [writer[w] EXCEPT !.pc = next, !.map = "comm"]
  <2>1. tables' = tables /\ writer' = [writer EXCEPT ![w] = after]
    BY <1>6 DEF FinishMap
  <2>2. after \in WriterState
    BY <1>0 DEF WriterState
  <2> QED
    BY <2>1, <2>2
<1> QED
  BY <1>1, <1>2, <1>3, <1>4, <1>5, <1>6 DEF ApplyStep

(* A step of ApplyCompiled moves neither what a writer is to install nor *)
(* anything outside the maps.                                             *)
LEMMA ApplyStepKeepsTargets ==
    ASSUME NEW W, writer \in [W -> WriterState], NEW w \in W, ApplyStep(w)
    PROVE  \A v \in W : writer'[v].target = writer[v].target
<1> DEFINE Same == \A v \in W : writer'[v].target = writer[v].target
<1>0. writer \in [W -> WriterState]
  OBVIOUS
<1>1. CASE Collect(w)
  BY <1>0, <1>1 DEF Collect, WriterState
<1>2. CASE CollectFails(w)
  BY <1>0, <1>2 DEF CollectFails, WriterState
<1>3. ASSUME NEW k \in Keys, Put(w, k) PROVE Same
  BY <1>0, <1>3 DEF Put, WriterState
<1>4. ASSUME NEW k \in Keys, PutFails(w, k) PROVE Same
  BY <1>0, <1>4 DEF PutFails, WriterState
<1>5. ASSUME NEW k \in Keys, Delete(w, k) PROVE Same
  BY <1>0, <1>5 DEF Delete, WriterState
<1>6. CASE FinishMap(w)
  BY <1>0, <1>6 DEF FinishMap, WriterState
<1> QED
  BY <1>1, <1>2, <1>3, <1>4, <1>5, <1>6 DEF ApplyStep

(* A key of the table is a key of one of the two maps. *)
LEMMA KeysOfMaps ==
    /\ KeysOf("pid") = PidKeys
    /\ KeysOf("comm") = CommKeys
    /\ \A m \in {"pid", "comm"} : KeysOf(m) \subseteq Keys
BY DEF KeysOf, Keys

(* The steps of a writer that is alone bring it nearer to its target. *)
LEMMA ApplyStepProgress ==
    ASSUME NEW W, tables \in Tables, writer \in [W -> WriterState],
           NEW w \in W, ApplyProgress(w), ApplyStep(w)
    PROVE  /\ ApplyProgress(w)'
           /\ \A k \in Keys : tables'[k] \in {tables[k], writer[w].target[k]}
<1> DEFINE t == writer[w].target
           m == writer[w].map
           Goal == /\ ApplyProgress(w)'
                   /\ \A k \in Keys : tables'[k] \in {tables[k], t[k]}
<1>0. /\ writer[w] \in WriterState
      /\ m \in {"pid", "comm"} /\ t \in Tables
      /\ KeysOf(m) \subseteq Keys
  BY KeysOfMaps DEF WriterState
<1>1. CASE Collect(w)
  <2> DEFINE wanted == Present(t) \cap KeysOf(m)
             stale == (Present(tables) \cap KeysOf(m)) \ wanted
  <2>1. /\ tables' = tables
        /\ writer'[w] = [writer[w] EXCEPT !.pc = "replace", !.puts = wanted, !.dels = stale]
    BY <1>1 DEF Collect
  <2>2. /\ writer'[w].pc = "replace" /\ writer'[w].map = m /\ writer'[w].target = t
        /\ writer'[w].puts = wanted /\ writer'[w].dels = stale
    BY <1>0, <2>1 DEF WriterState
  <2>3. ASSUME NEW k \in KeysOf(m), k \notin wanted, k \notin stale
        PROVE  tables[k] = t[k]
    BY <1>0, <2>3 DEF Present
  <2>4. ASSUME NEW k \in stale PROVE t[k] = NoPolicy
    BY <1>0, <2>4 DEF Present
  <2> HIDE DEF t, m
  <2> QED
    BY <2>1, <2>2, <2>3, <2>4 DEF ApplyProgress, t, m
<1>2. CASE CollectFails(w)
  <2>1. tables' = tables /\ writer'[w] = [writer[w] EXCEPT !.pc = "failed"]
    BY <1>2 DEF CollectFails
  <2> QED
    BY <1>0, <2>1 DEF ApplyProgress, WriterState
<1>3. ASSUME NEW k \in Keys, Put(w, k) PROVE Goal
  <2>1. /\ tables' = [tables EXCEPT ![k] = t[k]]
        /\ writer'[w] = [writer[w] EXCEPT !.puts = @ \ {k}]
        /\ writer[w].pc = "replace" /\ k \in writer[w].puts
    BY <1>3 DEF Put
  <2>2. /\ writer'[w].pc = "replace" /\ writer'[w].map = m /\ writer'[w].target = t
        /\ writer'[w].puts = writer[w].puts \ {k} /\ writer'[w].dels = writer[w].dels
    BY <1>0, <2>1 DEF WriterState
  <2>3. tables'[k] = t[k] /\ \A j \in Keys \ {k} : tables'[j] = tables[j]
    BY <2>1 DEF Tables
  <2> HIDE DEF t, m
  <2> QED
    BY <1>0, <2>1, <2>2, <2>3, KeysOfMaps DEF ApplyProgress, t, m, Keys
<1>4. ASSUME NEW k \in Keys, PutFails(w, k) PROVE Goal
  <2>1. tables' = tables /\ writer'[w] = [writer[w] EXCEPT !.pc = "failed"]
    BY <1>4 DEF PutFails
  <2> QED
    BY <1>0, <2>1 DEF ApplyProgress, WriterState
<1>5. ASSUME NEW k \in Keys, Delete(w, k) PROVE Goal
  <2>1. /\ tables' = [tables EXCEPT ![k] = NoPolicy]
        /\ writer'[w] = [writer[w] EXCEPT !.dels = @ \ {k}]
        /\ writer[w].pc = "replace" /\ k \in writer[w].dels
    BY <1>5 DEF Delete
  <2>2. /\ writer'[w].pc = "replace" /\ writer'[w].map = m /\ writer'[w].target = t
        /\ writer'[w].puts = writer[w].puts /\ writer'[w].dels = writer[w].dels \ {k}
    BY <1>0, <2>1 DEF WriterState
  <2>3. t[k] = NoPolicy
    BY <2>1 DEF ApplyProgress
  <2>4. tables'[k] = t[k] /\ \A j \in Keys \ {k} : tables'[j] = tables[j]
    BY <2>1, <2>3 DEF Tables
  <2> HIDE DEF t, m
  <2> QED
    BY <1>0, <2>1, <2>2, <2>4, KeysOfMaps DEF ApplyProgress, t, m, Keys
<1>6. CASE FinishMap(w)
  <2>1. /\ tables' = tables
        /\ writer'[w] = [writer[w] EXCEPT !.pc = IF m = "pid" THEN "collect" ELSE "applied",
                                          !.map = "comm"]
        /\ writer[w].pc = "replace" /\ writer[w].puts = {} /\ writer[w].dels = {}
    BY <1>6 DEF FinishMap
  <2>2. /\ writer'[w].map = "comm" /\ writer'[w].target = t
        /\ writer'[w].puts = {} /\ writer'[w].dels = {}
    BY <1>0, <2>1 DEF WriterState
  <2>3. \A k \in KeysOf(m) : tables[k] = t[k]
    BY <2>1 DEF ApplyProgress
  <2>4. \A k \in PidKeys : tables[k] = t[k]
    BY <1>0, <2>3, KeysOfMaps DEF ApplyProgress
  <2>5. CASE m = "pid"
    <3>1. writer'[w].pc = "collect"
      BY <1>0, <2>1, <2>5 DEF WriterState
    <3> QED
      BY <2>1, <2>2, <2>4, <3>1 DEF ApplyProgress
  <2>6. CASE m = "comm"
    <3>1. writer'[w].pc = "applied"
      BY <1>0, <2>1, <2>6 DEF WriterState
    <3>2. \A k \in Keys : tables[k] = t[k]
      BY <2>3, <2>4, <2>6, KeysOfMaps DEF Keys
    <3>3. tables = t
      BY <1>0, <3>2 DEF Tables
    <3> QED
      BY <2>1, <2>2, <2>4, <3>1, <3>3 DEF ApplyProgress
  <2> QED
    BY <1>0, <2>5, <2>6
<1> QED
  BY <1>1, <1>2, <1>3, <1>4, <1>5, <1>6 DEF ApplyStep

(* comm_policy_map is left alone until policy_map is done. *)
LEMMA ApplyStepOrder ==
    ASSUME NEW W, tables \in Tables, writer \in [W -> WriterState],
           NEW w \in W, ApplyProgress(w), ApplyStep(w), writer'[w].map = "pid"
    PROVE  writer[w].map = "pid" /\ \A k \in CommKeys : tables'[k] = tables[k]
<1> DEFINE Goal == writer[w].map = "pid" /\ \A k \in CommKeys : tables'[k] = tables[k]
<1>0. writer[w] \in WriterState /\ writer[w].puts \cup writer[w].dels \subseteq KeysOf(writer[w].map)
  BY DEF ApplyProgress
<1>1. CASE Collect(w)
  BY <1>1 DEF Collect, WriterState
<1>2. CASE CollectFails(w)
  BY <1>2 DEF CollectFails, WriterState
<1>3. ASSUME NEW k \in Keys, Put(w, k) \/ Delete(w, k) PROVE Goal
  <2>1. writer[w].map = "pid" /\ k \in writer[w].puts \cup writer[w].dels
    BY <1>3 DEF Put, Delete, WriterState
  <2>2. k \notin CommKeys
    BY <1>0, <2>1, KeysOfMaps, KeysAssumption
  <2> QED
    BY <1>3, <2>1, <2>2 DEF Put, Delete, Tables, Keys
<1>4. ASSUME NEW k \in Keys, PutFails(w, k) PROVE Goal
  BY <1>4 DEF PutFails, WriterState
<1>5. CASE FinishMap(w)
  BY <1>5 DEF FinishMap, WriterState
<1> QED
  BY <1>1, <1>2, <1>3, <1>4, <1>5 DEF ApplyStep

-----------------------------------------------------------------------------
(* ApplyCompiled is a replacement in the sense of PolicyReplacement. *)

AnyTables == INSTANCE PolicyReplacement WITH
    table <- tables, work <- Work, shut <- FALSE, Targets <- Tables

(* What the abstract specification sees of a writer changes with it alone. *)
LEMMA WorkStep ==
    ASSUME NEW W, writer \in [W -> WriterState], NEW w \in W, NEW r,
           writer' = [writer EXCEPT ![w] = r]
    PROVE  /\ DOMAIN Work = W
           /\ \A v \in W : Work[v] = Seen(writer[v])
           /\ Work' = [Work EXCEPT ![w] = Seen(r)]
<1>1. DOMAIN writer = W /\ DOMAIN writer' = W
  OBVIOUS
<1>2. Work = [v \in W |-> Seen(writer[v])] /\ Work' = [v \in W |-> Seen(writer'[v])]
  BY <1>1 DEF Work
<1> QED
  BY <1>2

SeenState ==
    [status : {"idle", "replacing", "applied", "failed"}, target : Tables, left : SUBSET Keys]

LEMMA SeenType ==
    ASSUME NEW r \in WriterState
    PROVE  /\ Status(r) \in {"idle", "replacing", "applied", "failed"}
           /\ Left(r) \in SUBSET Keys
           /\ Seen(r) \in SeenState
<1>1. Status(r) \in {"idle", "replacing", "applied", "failed"}
  BY DEF Status, WriterState
<1>2. Left(r) \in SUBSET Keys
  BY KeysOfMaps DEF Left, WriterState, Keys
<1>3. r.target \in Tables
  BY DEF WriterState
<1> QED
  BY <1>1, <1>2, <1>3 DEF Seen, SeenState

(* The two modules count with the same Cardinality. *)
LEMMA SameCardinality ==
    ASSUME NEW S
    PROVE  AnyTables!Cardinality(S) = Cardinality(S)
BY DEF AnyTables!Cardinality, Cardinality

(* A writer that keeps its target changes in its status and in what is left. *)
LEMMA WorkMoves ==
    ASSUME NEW W, writer \in [W -> WriterState], NEW w \in W, NEW r \in WriterState,
           writer' = [writer EXCEPT ![w] = r],
           r.target = writer[w].target
    PROVE  /\ Work \in [W -> SeenState]
           /\ Work[w].target = writer[w].target
           /\ Work[w].status = Status(writer[w])
           /\ Work[w].left = Left(writer[w])
           /\ Work' = [Work EXCEPT ![w] =
                  [status |-> Status(r), target |-> Work[w].target, left |-> Left(r)]]
<1>1. \A v \in W : Work[v] = Seen(writer[v]) /\ Seen(writer[v]) \in SeenState
  BY WorkStep, SeenType
<1>2. Work \in [W -> SeenState]
  BY <1>1, WorkStep DEF Work
<1>3. /\ Work[w].target = writer[w].target
      /\ Work[w].status = Status(writer[w])
      /\ Work[w].left = Left(writer[w])
  <2>1. Work[w] = Seen(writer[w])
    BY <1>1
  <2> QED
    BY <2>1 DEF Seen
<1>4. Work' = [Work EXCEPT ![w] =
                  [status |-> Status(r), target |-> Work[w].target, left |-> Left(r)]]
  <2>1. Work' = [Work EXCEPT ![w] = Seen(r)]
    BY WorkStep
  <2>2. Seen(r) = [status |-> Status(r), target |-> Work[w].target, left |-> Left(r)]
    BY <1>3 DEF Seen
  <2> QED
    BY <2>1, <2>2
<1> QED
  BY <1>2, <1>3, <1>4

(* Every step of ApplyCompiled keeps its writer coherent. *)
LEMMA ApplyStepCoherent ==
    ASSUME NEW W, tables \in Tables, writer \in [W -> WriterState],
           NEW w \in W, ApplyStep(w), WriterCoherent(writer[w])
    PROVE  /\ WriterCoherent(writer'[w])
           /\ \A v \in W \ {w} : writer'[v] = writer[v]
<1> DEFINE r == writer[w]
           Goal == /\ WriterCoherent(writer'[w])
                   /\ \A v \in W \ {w} : writer'[v] = writer[v]
<1>0. r \in WriterState
  OBVIOUS
<1>1. CASE Collect(w)
  <2> DEFINE wanted == Present(r.target) \cap KeysOf(r.map)
             stale == (Present(tables) \cap KeysOf(r.map)) \ wanted
             after == [r EXCEPT !.pc = "replace", !.puts = wanted, !.dels = stale]
  <2>1. writer' = [writer EXCEPT ![w] = after]
    BY <1>1 DEF Collect
  <2>2. /\ after.pc = "replace" /\ after.map = r.map /\ after.target = r.target
        /\ after.puts = wanted /\ after.dels = stale
    BY <1>0 DEF WriterState
  <2>3. /\ \A k \in wanted : r.target[k] # NoPolicy
        /\ \A k \in stale : r.target[k] = NoPolicy
        /\ wanted \cup stale \subseteq KeysOf(r.map)
    BY DEF Present
  <2> HIDE DEF after, wanted, stale
  <2>4. WriterCoherent(after)
    BY <2>2, <2>3 DEF WriterCoherent
  <2> QED
    BY <2>1, <2>4
<1>2. ASSUME CollectFails(w) \/ \E k \in Keys : PutFails(w, k) PROVE Goal
  <2>1. writer' = [writer EXCEPT ![w].pc = "failed"]
    BY <1>2 DEF CollectFails, PutFails
  <2> QED
    BY <1>0, <2>1 DEF WriterCoherent, WriterState
<1>3. ASSUME NEW k \in Keys, Put(w, k) PROVE Goal
  BY <1>0, <1>3 DEF Put, WriterCoherent, WriterState
<1>4. ASSUME NEW k \in Keys, Delete(w, k) PROVE Goal
  BY <1>0, <1>4 DEF Delete, WriterCoherent, WriterState
<1>5. CASE FinishMap(w)
  <2> DEFINE next == IF r.map = "pid" THEN "collect" ELSE "applied"
             after == [r EXCEPT !.pc = next, !.map = "comm"]
  <2>1. /\ writer' = [writer EXCEPT ![w] = after]
        /\ r.puts = {} /\ r.dels = {}
    BY <1>5 DEF FinishMap
  <2>2. /\ after.pc # "idle" /\ after.puts = {} /\ after.dels = {}
    BY <1>0, <2>1 DEF WriterState
  <2> HIDE DEF after
  <2>3. WriterCoherent(after)
    BY <2>2 DEF WriterCoherent
  <2> QED
    BY <2>1, <2>3
<1> QED
  BY <1>1, <1>2, <1>3, <1>4, <1>5 DEF ApplyStep

(* What Seen shows of a writer that is replacing a map. *)
LEMMA SeenReplacing ==
    ASSUME NEW r \in WriterState, r.pc = "replace", WriterCoherent(r)
    PROVE  /\ Seen(r).status = "replacing"
           /\ Seen(r).target = r.target
           /\ Seen(r).left = (IF r.map = "pid" THEN CommKeys ELSE {}) \cup r.puts \cup r.dels
           /\ Seen(r).left \cap KeysOf(r.map) = r.puts \cup r.dels
           /\ r.map = "comm" => Seen(r).left \cap PidKeys = {}
<1>1. Seen(r).left = (IF r.map = "pid" THEN CommKeys ELSE {}) \cup r.puts \cup r.dels
  BY DEF Seen, Left, Status
<1>2. r.puts \cup r.dels \subseteq KeysOf(r.map) /\ r.map \in {"pid", "comm"}
  BY DEF WriterCoherent, WriterState
<1> QED
  BY <1>1, <1>2, KeysAssumption, KeysOfMaps DEF Seen, Status

(* The abstract map of a key is the map that is being replaced, and it has  *)
(* room for the key when that has.                                          *)
LEMMA SameMap ==
    ASSUME NEW m \in {"pid", "comm"}, NEW k \in KeysOf(m)
    PROVE  /\ AnyTables!MapWith(k) = KeysOf(m)
           /\ AnyTables!Room(k) <=> HasRoom(k, m)
<1>1. k \in PidKeys <=> m = "pid"
  BY KeysAssumption DEF KeysOf
<1>2. AnyTables!MapWith(k) = KeysOf(m)
  BY <1>1 DEF AnyTables!MapWith, KeysOf
<1>3. {j \in AnyTables!MapWith(k) : tables[j] # NoPolicy} = Present(tables) \cap KeysOf(m)
  BY <1>2, KeysOfMaps DEF Present
<1>4. (IF k \in PidKeys THEN PidMax ELSE CommMax) = MaxOf(m)
  BY <1>1 DEF MaxOf
<1> QED
  <2> DEFINE there == Present(tables) \cap KeysOf(m)
  <2>1. AnyTables!Room(k) <=> tables[k] # NoPolicy \/ Cardinality(there) < MaxOf(m)
    <3> HIDE DEF there
    <3>1. CASE k \in PidKeys
      BY <1>3, <1>4, <3>1, SameCardinality DEF AnyTables!Room, there
    <3>2. CASE k \notin PidKeys
      BY <1>3, <1>4, <3>2, SameCardinality DEF AnyTables!Room, there
    <3> QED
      BY <3>1, <3>2
  <2> QED
    BY <1>2, <2>1 DEF HasRoom

(* Whose turn it is: the puts of a map in any order, then its deletes. *)
LEMMA TurnOf ==
    ASSUME NEW W, writer \in [W -> WriterState], NEW w \in W,
           WriterCoherent(writer[w]), writer[w].pc = "replace",
           NEW k \in writer[w].puts \cup writer[w].dels,
           k \in writer[w].dels => writer[w].puts = {}
    PROVE  /\ AnyTables!Turn(w, k)
           /\ k \in KeysOf(writer[w].map)
<1> DEFINE r == writer[w]
<1>1. r \in WriterState /\ r.map \in {"pid", "comm"}
  BY DEF WriterState
<1>2. Work[w] = Seen(r)
  BY DEF Work
<1>3. /\ k \in KeysOf(r.map)
      /\ r.target[k] = NoPolicy => k \in r.dels
      /\ \A j \in r.dels : r.target[j] = NoPolicy
  BY DEF WriterCoherent
<1>4. k \in CommKeys => r.map = "comm"
  BY <1>1, <1>3, KeysAssumption DEF KeysOf
<1>5. AnyTables!MapWith(k) = KeysOf(r.map)
  BY <1>1, <1>3, SameMap
<1>6. /\ Seen(r).status = "replacing" /\ Seen(r).target = r.target
      /\ k \in Seen(r).left
      /\ Seen(r).left \cap KeysOf(r.map) = r.puts \cup r.dels
      /\ r.map = "comm" => Seen(r).left \cap PidKeys = {}
  BY <1>1, SeenReplacing
<1> HIDE DEF r
<1> QED
  BY <1>2, <1>3, <1>4, <1>5, <1>6 DEF AnyTables!Turn, r

(* Any step of ApplyCompiled, whatever other writers are at, is a step of   *)
(* the replacement or invisible there.                                      *)
LEMMA ApplyStepReplaces ==
    ASSUME NEW W, tables \in Tables, writer \in [W -> WriterState],
           NEW w \in W, ApplyStep(w), \A v \in W : WriterCoherent(writer[v])
    PROVE  \/ \E k \in Work[w].left : AnyTables!Replace(w, k)
           \/ AnyTables!PassBy(w) \/ AnyTables!Succeed(w) \/ AnyTables!Fail(w)
           \/ tables' = tables /\ Work' = Work
<1> DEFINE r == writer[w]
           Goal == \/ \E k \in Work[w].left : AnyTables!Replace(w, k)
                   \/ AnyTables!PassBy(w) \/ AnyTables!Succeed(w) \/ AnyTables!Fail(w)
                   \/ tables' = tables /\ Work' = Work
<1>0. /\ r \in WriterState /\ WriterCoherent(r) /\ r.map \in {"pid", "comm"}
      /\ r.target \in Tables
      /\ DOMAIN Work = W /\ Work[w] = Seen(r)
      /\ \A v \in W : Work[v] = Seen(writer[v]) /\ writer[v] \in WriterState
  BY DEF WriterState, Work
<1>1. CASE Collect(w)
  <2> DEFINE wanted == Present(r.target) \cap KeysOf(r.map)
             stale == (Present(tables) \cap KeysOf(r.map)) \ wanted
             after == [r EXCEPT !.pc = "replace", !.puts = wanted, !.dels = stale]
             passed == {k \in KeysOf(r.map) : tables[k] = NoPolicy /\ r.target[k] = NoPolicy}
             rest == IF r.map = "pid" THEN CommKeys ELSE {}
  <2>1. tables' = tables /\ writer' = [writer EXCEPT ![w] = after] /\ r.pc = "collect"
    BY <1>1 DEF Collect
  <2>0. after \in WriterState
    <3>1. wanted \in SUBSET Keys /\ stale \in SUBSET Keys
      BY DEF Present
    <3> HIDE DEF wanted, stale
    <3> QED
      BY <1>0, <3>1 DEF WriterState
  <2>2. /\ after.pc = "replace" /\ after.map = r.map /\ after.target = r.target
        /\ after.puts = wanted /\ after.dels = stale
    BY <1>0 DEF WriterState
  <2>3. wanted \cup stale = KeysOf(r.map) \ passed
    BY <1>0, KeysOfMaps DEF Present
  <2>4. Status(r) = "replacing" /\ Left(r) = rest \cup KeysOf(r.map)
    BY <2>1 DEF Left, Status
  <2>5. Status(after) = "replacing" /\ Left(after) = rest \cup wanted \cup stale
    BY <2>2 DEF Left, Status
  <2>6. rest \cap KeysOf(r.map) = {}
    BY <1>0, KeysAssumption DEF KeysOf
  <2>7. Left(after) = Left(r) \ passed
    BY <2>3, <2>4, <2>5, <2>6
  <2>8. Work[w].status = "replacing" /\ Work[w].target = r.target /\ Work[w].left = Left(r)
    BY <1>0, <2>4 DEF Seen
  <2>9. Work' = [Work EXCEPT ![w].left = Left(after)]
    <3> HIDE DEF after
    <3>1. /\ Work \in [W -> SeenState] /\ Work[w].status = Status(r)
          /\ Work' = [Work EXCEPT ![w] =
                [status |-> Status(after), target |-> Work[w].target, left |-> Left(after)]]
      BY <2>0, <2>1, <2>2, WorkMoves
    <3>2. Left(after) \in SUBSET Keys
      BY <2>0, SeenType
    <3> QED
      BY <2>4, <2>5, <3>1, <3>2 DEF SeenState
  <2>10. /\ KeysOf(r.map) \in {PidKeys, CommKeys}
         /\ KeysOf(r.map) = CommKeys => Left(r) \cap PidKeys = {}
    BY <1>0, <2>4, KeysAssumption DEF KeysOf
  <2> DEFINE pass(map) == {k \in map : tables[k] = NoPolicy /\ Work[w].target[k] = NoPolicy}
  <2>11. passed = pass(KeysOf(r.map))
    BY <2>8
  <2>12. Work' = [Work EXCEPT ![w].left = Work[w].left \ pass(KeysOf(r.map))]
    BY <2>7, <2>8, <2>9, <2>11
  <2>13. \E map \in {PidKeys, CommKeys} :
            /\ map = CommKeys => Work[w].left \cap PidKeys = {}
            /\ Work' = [Work EXCEPT ![w].left = Work[w].left \ pass(map)]
    <3> HIDE DEF pass
    <3> QED
      BY <2>8, <2>10, <2>12
  <2>14. AnyTables!PassBy(w)
    BY <2>1, <2>8, <2>13, Zenon DEF AnyTables!PassBy
  <2> QED
    BY <2>14
<1>2. ASSUME NEW k \in Keys, Put(w, k) \/ Delete(w, k) PROVE Goal
  <2>1. /\ r.pc = "replace" /\ k \in r.puts \cup r.dels
        /\ k \in r.dels => r.puts = {}
    BY <1>0, <1>2 DEF Put, Delete, WriterCoherent
  <2>2. PICK after : /\ writer' = [writer EXCEPT ![w] = after]
                     /\ \/ k \in r.puts /\ after = [r EXCEPT !.puts = @ \ {k}]
                        \/ k \in r.dels /\ after = [r EXCEPT !.dels = @ \ {k}]
    BY <1>2 DEF Put, Delete
  <2>3. AnyTables!Turn(w, k) /\ k \in KeysOf(r.map)
    BY <1>0, <2>1, TurnOf
  <2>4. /\ tables' = [tables EXCEPT ![k] = r.target[k]]
        /\ r.target[k] # NoPolicy => HasRoom(k, r.map)
    BY <1>0, <1>2 DEF Put, Delete, WriterCoherent
  <2>5. AnyTables!Room(k) <=> HasRoom(k, r.map)
    BY <1>0, <2>3, SameMap
  <2>6. /\ after.pc = "replace" /\ after.map = r.map /\ after.target = r.target
        /\ after.puts \cup after.dels = (r.puts \cup r.dels) \ {k}
    BY <1>0, <2>1, <2>2 DEF WriterCoherent, WriterState
  <2>7. (IF r.map = "pid" THEN CommKeys ELSE {}) \ {k} = IF r.map = "pid" THEN CommKeys ELSE {}
    BY <1>0, <2>3, KeysAssumption DEF KeysOf
  <2>8. /\ Status(after) = Status(r)
        /\ Left(after) = Left(r) \ {k}
    BY <2>1, <2>6, <2>7 DEF Left, Status
  <2>14. after \in WriterState
    BY <1>0, <2>2 DEF WriterState
  <2>9. Work' = [Work EXCEPT ![w].left = Left(r) \ {k}]
    <3>1. /\ Work \in [W -> SeenState] /\ Work[w].status = Status(r)
          /\ Work' = [Work EXCEPT ![w] =
                [status |-> Status(after), target |-> Work[w].target, left |-> Left(after)]]
      BY <2>2, <2>6, <2>14, WorkMoves
    <3>2. Left(after) \in SUBSET Keys /\ Status(r) \in {"idle", "replacing", "applied", "failed"}
      BY <1>0, <2>14, SeenType
    <3>3. Work' = [Work EXCEPT ![w].left = Left(after)]
      BY <2>8, <3>1, <3>2 DEF SeenState
    <3> QED
      BY <2>8, <3>3
  <2>10. Work' = [Work EXCEPT ![w].left = @ \ {k}]
    BY <1>0, <2>9 DEF Seen
  <2>11. Seen(r).target = r.target
    BY DEF Seen
  <2>12. k \in Work[w].left
    BY <2>3 DEF AnyTables!Turn
  <2> HIDE DEF r
  <2>13. AnyTables!Replace(w, k)
    BY <1>0, <2>3, <2>4, <2>5, <2>10, <2>11 DEF AnyTables!Replace
  <2> QED
    BY <2>12, <2>13
<1>3. ASSUME tables' = tables, writer' = [writer EXCEPT ![w].pc = "failed"],
             Seen(r).status = "replacing",
             \/ \E k \in Work[w].left :
                   AnyTables!Turn(w, k) /\ r.target[k] # NoPolicy /\ ~AnyTables!Room(k)
             \/ \E v \in W \ {w} :
                   /\ Seen(writer[v]).status = "replacing"
                   /\ \E k \in Seen(writer[v]).left \cap Seen(r).left :
                         writer[v].target[k] = NoPolicy
      PROVE  AnyTables!Fail(w)
  <2> DEFINE after == [r EXCEPT !.pc = "failed"]
  <2>1. after \in WriterState /\ after.pc = "failed" /\ after.target = r.target
    BY <1>0 DEF WriterState
  <2>2. Status(after) = "failed" /\ Left(after) = {}
    BY <2>1 DEF Status, Left
  <2>3. Work' = [Work EXCEPT ![w].status = "failed", ![w].left = {}]
    <3>1. writer' = [writer EXCEPT ![w] = after]
      BY <1>3
    <3> HIDE DEF after
    <3>2. /\ Work \in [W -> SeenState]
          /\ Work' = [Work EXCEPT ![w] =
                [status |-> Status(after), target |-> Work[w].target, left |-> Left(after)]]
      BY <2>1, <3>1, WorkMoves
    <3> QED
      BY <2>2, <3>2 DEF SeenState
  <2>4. \A v \in W : Seen(writer[v]).target = writer[v].target
    BY DEF Seen
  <2> HIDE DEF after
  <2> QED
    BY <1>0, <1>3, <2>3, <2>4 DEF AnyTables!Fail
<1>4. CASE CollectFails(w)
  <2>1. PICK v \in W \ {w} : /\ writer[v].pc = "replace" /\ writer[v].map = r.map
                            /\ writer[v].dels # {}
    BY <1>4 DEF CollectFails
  <2>2. PICK k \in writer[v].dels : TRUE
    BY <2>1
  <2>3. /\ Seen(writer[v]).status = "replacing" /\ k \in Seen(writer[v]).left
        /\ writer[v].target[k] = NoPolicy /\ k \in KeysOf(r.map)
    BY <1>0, <2>1, <2>2 DEF Seen, Status, Left, WriterCoherent
  <2>4. Seen(r).status = "replacing" /\ k \in Seen(r).left
    BY <1>4, <2>3 DEF CollectFails, Seen, Status, Left
  <2> QED
    BY <1>3, <1>4, <2>3, <2>4 DEF CollectFails
<1>5. ASSUME NEW k \in Keys, PutFails(w, k) PROVE Goal
  <2>1. /\ r.pc = "replace" /\ k \in r.puts /\ ~HasRoom(k, r.map)
        /\ tables' = tables /\ writer' = [writer EXCEPT ![w].pc = "failed"]
        /\ r.target[k] # NoPolicy /\ k \notin r.dels
    BY <1>0, <1>5 DEF PutFails, WriterCoherent
  <2>2. AnyTables!Turn(w, k) /\ k \in KeysOf(r.map)
    BY <1>0, <2>1, TurnOf
  <2>3. ~AnyTables!Room(k) /\ k \in Work[w].left
    BY <1>0, <2>1, <2>2, SameMap DEF AnyTables!Turn
  <2>4. Seen(r).status = "replacing"
    BY <2>1 DEF Seen, Status
  <2> QED
    BY <1>3, <2>1, <2>2, <2>3, <2>4
<1>6. CASE FinishMap(w)
  <2> DEFINE next == IF r.map = "pid" THEN "collect" ELSE "applied"
             after == [r EXCEPT !.pc = next, !.map = "comm"]
  <2>1. /\ tables' = tables /\ writer' = [writer EXCEPT ![w] = after]
        /\ r.pc = "replace" /\ r.puts = {} /\ r.dels = {}
    BY <1>6 DEF FinishMap
  <2>2. /\ after \in WriterState
        /\ after.pc = next /\ after.map = "comm" /\ after.target = r.target
    BY <1>0 DEF WriterState
  <2>3. CASE r.map = "pid"
    <3>1. Seen(r) = [status |-> "replacing", target |-> r.target, left |-> CommKeys]
      BY <2>1, <2>3 DEF Seen, Status, Left
    <3>2. Seen(after) = [status |-> "replacing", target |-> r.target, left |-> CommKeys]
      BY <2>2, <2>3, KeysOfMaps DEF Seen, Status, Left
    <3> HIDE DEF after
    <3>3. Work[w] = Seen(after) /\ Work' = [Work EXCEPT ![w] = Seen(after)]
      <4>1. Work[w] = Seen(after)
        BY <1>0, <3>1, <3>2
      <4>2. Work' = [Work EXCEPT ![w] = Seen(after)]
        BY <2>1, WorkStep
      <4> QED
        BY <4>1, <4>2
    <3>4. Work' = Work
      BY <3>3 DEF Work
    <3> QED
      BY <2>1, <3>4
  <2>4. CASE r.map = "comm"
    <3>1. Status(r) = "replacing" /\ Left(r) = {}
      BY <2>1, <2>4 DEF Status, Left
    <3>2. Status(after) = "applied" /\ Left(after) = {}
      BY <2>2, <2>4 DEF Status, Left
    <3> HIDE DEF after
    <3>3. Work' = [Work EXCEPT ![w].status = "applied"]
      <4>1. /\ Work \in [W -> SeenState] /\ Work[w].left = Left(r)
            /\ Work' = [Work EXCEPT ![w] =
                  [status |-> Status(after), target |-> Work[w].target, left |-> Left(after)]]
        BY <2>1, <2>2, WorkMoves
      <4> QED
        BY <3>1, <3>2, <4>1 DEF SeenState
    <3>4. Work[w].status = "replacing" /\ Work[w].left = {}
      BY <1>0, <3>1 DEF Seen
    <3>5. AnyTables!Succeed(w)
      BY <2>1, <3>3, <3>4 DEF AnyTables!Succeed
    <3> QED
      BY <3>5
  <2> QED
    BY <1>0, <2>3, <2>4
<1> QED
  BY <1>1, <1>2, <1>4, <1>5, <1>6 DEF ApplyStep

(* A writer that takes a step is at work, and still is after it. *)
LEMMA ApplyStepBusy ==
    ASSUME NEW W, writer \in [W -> WriterState], NEW w \in W, ApplyStep(w)
    PROVE  /\ writer[w].pc \in {"collect", "replace"}
           /\ writer'[w].pc # "idle"
           /\ \A v \in W \ {w} : writer'[v] = writer[v]
<1> DEFINE Goal == /\ writer[w].pc \in {"collect", "replace"}
                   /\ writer'[w].pc # "idle"
                   /\ \A v \in W \ {w} : writer'[v] = writer[v]
<1>1. CASE Collect(w)
  BY <1>1 DEF Collect, WriterState
<1>2. CASE CollectFails(w)
  BY <1>2 DEF CollectFails, WriterState
<1>3. ASSUME NEW k \in Keys, Put(w, k) \/ PutFails(w, k) \/ Delete(w, k) PROVE Goal
  BY <1>3 DEF Put, PutFails, Delete, WriterState
<1>4. CASE FinishMap(w)
  BY <1>4 DEF FinishMap, WriterState
<1> QED
  BY <1>1, <1>2, <1>3, <1>4 DEF ApplyStep

(* The call of ApplyCompiled and its return. *)
LEMMA CallReplaces ==
    ASSUME NEW W, writer \in [W -> WriterState], NEW w \in W, NEW t \in Tables,
           writer[w].pc = "idle",
           writer' = [writer EXCEPT ![w] = BeginApply(t)]
    PROVE  /\ WriterCoherent(writer'[w]) /\ writer'[w].pc # "idle"
           /\ w \in DOMAIN Work
           /\ Work[w].status = "idle"
           /\ Work' = [Work EXCEPT ![w] = [status |-> "replacing", target |-> t, left |-> Keys]]
<1> DEFINE b == BeginApply(t)
<1>1. /\ b.pc = "collect" /\ b.map = "pid" /\ b.target = t /\ b.puts = {} /\ b.dels = {}
  BY DEF BeginApply, IdleWriter
<1>2. writer'[w] = b
  OBVIOUS
<1> HIDE DEF b
<1>3. Seen(b) = [status |-> "replacing", target |-> t, left |-> Keys]
  <2>1. Left(b) = Keys
    BY <1>1, KeysOfMaps DEF Left, Status, Keys
  <2> QED
    BY <1>1, <2>1 DEF Seen, Status
<1>4. /\ DOMAIN Work = W /\ Work[w] = Seen(writer[w])
      /\ Work' = [Work EXCEPT ![w] = Seen(b)]
  BY WorkStep DEF b
<1>5. Work[w].status = "idle"
  BY <1>4 DEF Seen, Status
<1> QED
  BY <1>1, <1>2, <1>3, <1>4, <1>5 DEF WriterCoherent

LEMMA ReturnReplaces ==
    ASSUME NEW W, writer \in [W -> WriterState], NEW w \in W, tables' = tables,
           writer[w].pc \in {"applied", "failed"},
           writer' = [writer EXCEPT ![w] = IdleWriter]
    PROVE  /\ WriterCoherent(writer'[w])
           /\ writer'[w].pc = "idle"
           /\ w \in DOMAIN Work
           /\ AnyTables!Return(w)
<1>1. writer'[w] = IdleWriter
  OBVIOUS
<1>2. Seen(IdleWriter) = AnyTables!Resting
  BY DEF Seen, Status, Left, IdleWriter, EmptyTable, Keys,
         AnyTables!Resting, AnyTables!NoTable, AnyTables!Keys
<1>3. /\ DOMAIN Work = W /\ Work[w] = Seen(writer[w])
      /\ Work' = [Work EXCEPT ![w] = AnyTables!Resting]
  BY <1>2, WorkStep
<1>4. Work[w].status \in {"applied", "failed"}
  BY <1>3 DEF Seen, Status
<1>5. AnyTables!Return(w)
  BY <1>3, <1>4 DEF AnyTables!Return
<1>6. WriterCoherent(IdleWriter) /\ IdleWriter.pc = "idle"
  BY DEF WriterCoherent, IdleWriter
<1> QED
  BY <1>1, <1>3, <1>5, <1>6

(* Idle writers replace nothing. *)
LEMMA IdleReplaces ==
    ASSUME NEW W, tables = EmptyTable, writer = [w \in W |-> IdleWriter]
    PROVE  AnyTables!Init /\ \A w \in W : WriterCoherent(writer[w])
<1>1. Seen(IdleWriter) = AnyTables!Resting
  BY DEF Seen, Status, Left, IdleWriter, EmptyTable, Keys,
         AnyTables!Resting, AnyTables!NoTable, AnyTables!Keys
<1>2. DOMAIN writer = W /\ DOMAIN Work = W
  BY DEF Work
<1>3. Work = [w \in DOMAIN Work |-> AnyTables!Resting]
  BY <1>1, <1>2 DEF Work
<1>4. EmptyTable = AnyTables!NoTable
  BY DEF EmptyTable, Keys, AnyTables!NoTable, AnyTables!Keys
<1>5. WriterCoherent(IdleWriter)
  BY DEF WriterCoherent, IdleWriter
<1> QED
  BY <1>3, <1>4, <1>5 DEF AnyTables!Init

-----------------------------------------------------------------------------
(* An apply ends *)

(* The most calls a writer has before it: the entries it knows of, and those *)
(* that it may yet find in a map it has not read.                            *)
CallsLeft(r) ==
    LET known == Cardinality(r.puts \cup r.dels)
        all == Cardinality(Keys)
    IN  CASE r.pc = "collect" /\ r.map = "pid" -> 2 * all + 4
          [] r.pc = "replace" /\ r.map = "pid" -> known + all + 3
          [] r.pc = "collect" /\ r.map = "comm" -> all + 2
          [] r.pc = "replace" /\ r.map = "comm" -> known + 1
          [] OTHER -> 0

LEMMA CallsCounted ==
    ASSUME IsFiniteSet(Keys), NEW r \in WriterState
    PROVE  /\ Cardinality(Keys) \in Nat
           /\ IsFiniteSet(r.puts \cup r.dels)
           /\ Cardinality(r.puts \cup r.dels) \in 0..Cardinality(Keys)
           /\ CallsLeft(r) \in 0..(2 * Cardinality(Keys) + 4)
<1> DEFINE S == r.puts \cup r.dels
           all == Cardinality(Keys)
           known == Cardinality(S)
<1>1. S \in SUBSET Keys
  BY DEF WriterState
<1> HIDE DEF S
<1>2. IsFiniteSet(S) /\ known <= all
  BY <1>1, FS_Subset
<1>3. all \in Nat /\ known \in Nat
  BY <1>2, FS_CardinalityType
<1>4. known \in 0..all
  BY <1>2, <1>3
<1> HIDE DEF known, all
<1>5. CallsLeft(r) \in {2 * all + 4, known + all + 3, all + 2, known + 1, 0}
  BY DEF CallsLeft, known, all, S
<1>6. CallsLeft(r) \in 0..(2 * all + 4)
  BY <1>3, <1>4, <1>5
<1> QED
  BY <1>2, <1>3, <1>4, <1>6 DEF S, all, known

(* Every step of ApplyCompiled leaves its writer fewer, whatever the others  *)
(* have put or deleted in the meantime.                                      *)
LEMMA ApplyStepDescends ==
    ASSUME NEW W, IsFiniteSet(Keys), tables \in Tables, writer \in [W -> WriterState],
           NEW w \in W, ApplyStep(w), WriterCoherent(writer[w])
    PROVE  CallsLeft(writer'[w]) < CallsLeft(writer[w])
<1> DEFINE r == writer[w]
           x == writer'[w]
           all == Cardinality(Keys)
           Goal == CallsLeft(x) < CallsLeft(r)
<1>0. writer' \in [W -> WriterState] /\ r \in WriterState
  BY ApplyStepTypes
<1>1. /\ x \in WriterState /\ r.map \in {"pid", "comm"} /\ all \in Nat
      /\ Cardinality(r.puts \cup r.dels) \in 0..all /\ IsFiniteSet(r.puts \cup r.dels)
      /\ Cardinality(x.puts \cup x.dels) \in 0..all
  BY <1>0, CallsCounted DEF WriterState
<1>2. ASSUME Collect(w) PROVE Goal
  <2>1. r.pc = "collect" /\ x.pc = "replace" /\ x.map = r.map
    BY <1>0, <1>2 DEF Collect, WriterState
  <2> HIDE DEF r, x
  <2> QED
    BY <1>1, <2>1 DEF CallsLeft
<1>3. ASSUME x.pc = "failed", r.pc \in {"collect", "replace"} PROVE Goal
  BY <1>1, <1>3 DEF CallsLeft
<1>4. CASE CollectFails(w)
  BY <1>0, <1>3, <1>4 DEF CollectFails, WriterState
<1>5. ASSUME NEW k \in Keys, PutFails(w, k) PROVE Goal
  BY <1>0, <1>3, <1>5 DEF PutFails, WriterState
<1>6. ASSUME NEW k \in Keys, Put(w, k) \/ Delete(w, k) PROVE Goal
  <2>1. /\ r.pc = "replace" /\ x.pc = "replace" /\ x.map = r.map
        /\ k \in r.puts \cup r.dels
        /\ x.puts \cup x.dels = (r.puts \cup r.dels) \ {k}
    BY <1>0, <1>6 DEF Put, Delete, WriterCoherent, WriterState
  <2> HIDE DEF r, x
  <2> DEFINE S == r.puts \cup r.dels
  <2>2. Cardinality(S \ {k}) = Cardinality(S) - 1
    <3>1. IsFiniteSet(S) /\ k \in S
      BY <1>1, <2>1
    <3> HIDE DEF S
    <3> QED
      BY <3>1, FS_RemoveElement
  <2>3. Cardinality(x.puts \cup x.dels) = Cardinality(r.puts \cup r.dels) - 1
    BY <2>1, <2>2
  <2> QED
    BY <1>1, <2>1, <2>3 DEF CallsLeft
<1>7. ASSUME FinishMap(w) PROVE Goal
  <2>1. /\ r.pc = "replace" /\ r.puts = {} /\ r.dels = {} /\ x.map = "comm"
        /\ x.pc = IF r.map = "pid" THEN "collect" ELSE "applied"
    BY <1>0, <1>7 DEF FinishMap, WriterState
  <2> HIDE DEF r, x
  <2> QED
    BY <1>1, <2>1 DEF CallsLeft
<1> QED
  BY <1>2, <1>4, <1>5, <1>6, <1>7 DEF ApplyStep

-----------------------------------------------------------------------------
(* A call that fails as the maps are closed: the writer is done, and nothing *)
(* else has changed.                                                         *)
LEMMA CallFailsStops ==
    ASSUME NEW W, writer \in [W -> WriterState], NEW w \in W, CallFails(w)
    PROVE  /\ tables' = tables
           /\ writer' \in [W -> WriterState]
           /\ writer[w].pc \in {"collect", "replace"}
           /\ writer'[w].pc = "failed"
           /\ writer'[w].target = writer[w].target
           /\ writer'[w].map = writer[w].map
           /\ \A v \in W \ {w} : writer'[v] = writer[v]
<1> DEFINE after == [writer[w] EXCEPT !.pc = "failed"]
<1>1. /\ after \in WriterState /\ after.pc = "failed"
      /\ after.target = writer[w].target /\ after.map = writer[w].map
  BY DEF WriterState
<1>2. /\ writer' = [writer EXCEPT ![w] = after] /\ tables' = tables
      /\ writer[w].pc \in {"collect", "replace"}
  BY DEF CallFails
<1> HIDE DEF after
<1>3. writer' \in [W -> WriterState] /\ writer'[w] = after
      /\ \A v \in W \ {w} : writer'[v] = writer[v]
  BY <1>1, <1>2
<1> QED
  BY <1>1, <1>2, <1>3

LEMMA CallFailsKeeps ==
    ASSUME NEW W, writer \in [W -> WriterState], NEW w \in W, CallFails(w)
    PROVE  /\ WriterCoherent(writer[w]) => WriterCoherent(writer'[w])
           /\ ApplyProgress(w) => ApplyProgress(w)'
<1> DEFINE after == [writer[w] EXCEPT !.pc = "failed"]
<1>1. /\ after.pc = "failed" /\ after.map = writer[w].map /\ after.target = writer[w].target
      /\ after.puts = writer[w].puts /\ after.dels = writer[w].dels
  BY DEF WriterState
<1>2. tables' = tables /\ writer'[w] = after
  BY DEF CallFails
<1> HIDE DEF after
<1> QED
  BY <1>1, <1>2 DEF WriterCoherent, ApplyProgress

LEMMA CallFailsWork ==
    ASSUME NEW W, writer \in [W -> WriterState], NEW w \in W, CallFails(w)
    PROVE  /\ w \in DOMAIN Work
           /\ Work[w].status = "replacing"
           /\ Work' = [Work EXCEPT ![w].status = "failed", ![w].left = {}]
<1> DEFINE after == [writer[w] EXCEPT !.pc = "failed"]
<1>1. /\ after \in WriterState /\ after.pc = "failed" /\ after.target = writer[w].target
      /\ writer' = [writer EXCEPT ![w] = after]
      /\ writer[w].pc \in {"collect", "replace"}
  BY DEF CallFails, WriterState
<1> HIDE DEF after
<1>2. Status(after) = "failed" /\ Left(after) = {} /\ Status(writer[w]) = "replacing"
  BY <1>1 DEF Status, Left
<1>3. /\ Work \in [W -> SeenState] /\ Work[w].status = Status(writer[w])
      /\ Work' = [Work EXCEPT ![w] =
            [status |-> Status(after), target |-> Work[w].target, left |-> Left(after)]]
  BY <1>1, WorkMoves
<1> QED
  BY <1>2, <1>3 DEF SeenState

LEMMA CallFailsDescends ==
    ASSUME NEW W, IsFiniteSet(Keys), writer \in [W -> WriterState], NEW w \in W, CallFails(w)
    PROVE  CallsLeft(writer'[w]) < CallsLeft(writer[w])
<1> DEFINE r == writer[w]
           x == writer'[w]
<1>1. /\ r.pc \in {"collect", "replace"} /\ r.map \in {"pid", "comm"} /\ x.pc = "failed"
      /\ Cardinality(Keys) \in Nat
      /\ Cardinality(r.puts \cup r.dels) \in 0..Cardinality(Keys)
  BY CallFailsStops, CallsCounted DEF WriterState
<1> HIDE DEF r, x
<1>2. CallsLeft(x) < CallsLeft(r)
  BY <1>1 DEF CallsLeft
<1> QED
  BY <1>2 DEF r, x

=============================================================================
