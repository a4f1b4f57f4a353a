------------------------- MODULE PolicyReplacement -------------------------
(***************************************************************************)
(* What ApplyCompiled promises of the two policy maps, whoever calls it    *)
(* and whatever other writers do: it takes one table, deals with every key *)
(* at most once, and either brings each to what the table says or fails    *)
(* for a reason.  policy_map comes before comm_policy_map, and in each map *)
(* the entries that stay come before those that go.                        *)
(*                                                                         *)
(* A writer has only the keys that are left to it; how it finds the old    *)
(* ones is the implementation's.  ControlPlane and CommandLine implement   *)
(* this specification.                                                     *)
(***************************************************************************)
EXTENDS Integers, FiniteSets

CONSTANTS
    PidKeys, CommKeys,  \* the keys of the two maps
    PidMax, CommMax,    \* and their max_entries
    NoPolicy,           \* no entry under a key
    Targets             \* tables that a caller may ask for

VARIABLES
    table,              \* the maps: key -> policy or NoPolicy
    work,               \* per writer: its status, its table, the keys left
    shut                \* the maps may be closed under their writers

vars == <<table, work, shut>>

Keys == PidKeys \cup CommKeys
NoTable == [k \in Keys |-> NoPolicy]

(* The map that key k is in, and whether it can take an entry under k. *)
MapWith(k) == IF k \in PidKeys THEN PidKeys ELSE CommKeys
Room(k) ==
    \/ table[k] # NoPolicy
    \/ Cardinality({j \in MapWith(k) : table[j] # NoPolicy})
           < (IF k \in PidKeys THEN PidMax ELSE CommMax)

Resting == [status |-> "idle", target |-> NoTable, left |-> {}]

Init == table = NoTable /\ work = [w \in DOMAIN work |-> Resting] /\ shut = FALSE

Begin(w) ==
    /\ work[w].status = "idle"
    /\ \E t \in Targets :
          work' = [work EXCEPT ![w] = [status |-> "replacing", target |-> t, left |-> Keys]]
    /\ UNCHANGED table

(* Key k may be next: the keys before its map are done, and if it is to go *)
(* the entries of its map that stay are in place.                           *)
Turn(w, k) ==
    /\ work[w].status = "replacing"
    /\ k \in work[w].left
    /\ k \in CommKeys => work[w].left \cap PidKeys = {}
    /\ work[w].target[k] = NoPolicy =>
          \A j \in work[w].left \cap MapWith(k) : work[w].target[j] = NoPolicy

(* One entry is put or deleted. *)
Replace(w, k) ==
    /\ Turn(w, k)
    /\ work[w].target[k] # NoPolicy => Room(k)
    /\ table' = [table EXCEPT ![k] = work[w].target[k]]
    /\ work' = [work EXCEPT ![w].left = @ \ {k}]

(* Keys of a map that hold no entry now and are to hold none are passed by. *)
PassBy(w) ==
    /\ work[w].status = "replacing"
    /\ \E map \in {PidKeys, CommKeys} :
          /\ map = CommKeys => work[w].left \cap PidKeys = {}
          /\ work' = [work EXCEPT ![w].left =
                @ \ {k \in map : table[k] = NoPolicy /\ work[w].target[k] = NoPolicy}]
    /\ UNCHANGED table

Succeed(w) ==
    /\ work[w].status = "replacing"
    /\ work[w].left = {}
    /\ work' = [work EXCEPT ![w].status = "applied"]
    /\ UNCHANGED table

(* A map is full, or another writer still deletes from the map that is read. *)
Fail(w) ==
    /\ work[w].status = "replacing"
    /\ \/ \E k \in work[w].left :
             Turn(w, k) /\ work[w].target[k] # NoPolicy /\ ~Room(k)
       \/ \E v \in DOMAIN work \ {w} :
             /\ work[v].status = "replacing"
             /\ \E k \in work[v].left \cap work[w].left : work[v].target[k] = NoPolicy
    /\ work' = [work EXCEPT ![w].status = "failed", ![w].left = {}]
    /\ UNCHANGED table

(* The maps are closed from here on: a call of any writer may fail. *)
Shut == shut' = TRUE /\ UNCHANGED <<table, work>>

CallFails(w) ==
    /\ shut
    /\ work[w].status = "replacing"
    /\ work' = [work EXCEPT ![w].status = "failed", ![w].left = {}]
    /\ UNCHANGED table

(* The caller has seen the result. *)
Return(w) ==
    /\ work[w].status \in {"applied", "failed"}
    /\ work' = [work EXCEPT ![w] = Resting]
    /\ UNCHANGED table

Step(w) ==
    \/ \E k \in work[w].left : Replace(w, k)
    \/ PassBy(w) \/ Succeed(w) \/ Fail(w) \/ CallFails(w) \/ Return(w) \/ Begin(w)

Next == Shut \/ \E w \in DOMAIN work : Step(w) /\ UNCHANGED shut

Spec == Init /\ [][Next]_vars

=============================================================================
