----------------------------- MODULE PolicyMaps -----------------------------
(***************************************************************************)
(* The two BPF hash maps that hold the enforced policies, and the code     *)
(* that replaces their contents (rules.ApplyCompiled).                     *)
(*                                                                         *)
(* A writer is one run of ApplyCompiled.  It takes no lock: it first       *)
(* replaces policy_map and then comm_policy_map, each by reading the keys  *)
(* that are there, putting every new entry and deleting the rest, with one *)
(* bpf(2) system call per entry.  Other writers, and the programs in the   *)
(* kernel that look policies up, run between any two of those calls.       *)
(***************************************************************************)
EXTENDS Integers, FiniteSets

CONSTANTS
    PidKeys,        \* keys of policy_map (thread group ids)
    CommKeys,       \* keys of comm_policy_map (process names)
    Policies,       \* policies an entry can hold
    NoPolicy,       \* no entry under this key
    PidMax,         \* max_entries of policy_map
    CommMax         \* max_entries of comm_policy_map

ASSUME KeysAssumption == PidKeys \cap CommKeys = {}
ASSUME NoPolicyAssumption == NoPolicy \notin Policies

VARIABLES
    tables,         \* contents of both maps: key -> policy or NoPolicy
    writer          \* one record per goroutine that may run ApplyCompiled

Keys == PidKeys \cup CommKeys

(* A Compiled value: one policy table for both maps. *)
Tables == [Keys -> Policies \cup {NoPolicy}]
EmptyTable == [k \in Keys |-> NoPolicy]

Present(t) == {k \in Keys : t[k] # NoPolicy}

(* Mutant: comm_policy_map is replaced first. *)
KeysOfCommFirst(map) == IF map = "pid" THEN CommKeys ELSE PidKeys

KeysOf(map) == IF map = "pid" THEN PidKeys ELSE CommKeys
MaxOf(map) == IF map = "pid" THEN PidMax ELSE CommMax

WriterState ==
    [pc : {"idle", "collect", "replace", "applied", "failed"},
     map : {"pid", "comm"},
     target : Tables,
     puts : SUBSET Keys,
     dels : SUBSET Keys]

IdleWriter ==
    [pc |-> "idle", map |-> "pid", target |-> EmptyTable, puts |-> {}, dels |-> {}]

(* lookup_policy: what the kernel enforces for a process, pid before comm. *)
Lookup(t, pid, comm) == IF t[pid] # NoPolicy THEN t[pid] ELSE t[comm]

-----------------------------------------------------------------------------

(* The call of ApplyCompiled(t), as a value for the caller's writer record. *)
BeginApply(t) == [IdleWriter EXCEPT !.pc = "collect", !.target = t]

(* Mutant: entries the new policies do not name are left in the map. *)
CollectKeepingOld(w) ==
    /\ writer[w].pc = "collect"
    /\ writer' = [writer EXCEPT ![w] =
          [@ EXCEPT !.pc = "replace",
                    !.puts = Present(writer[w].target) \cap KeysOf(writer[w].map)]]
    /\ UNCHANGED tables

(* collectPIDKeys / collectCommKeys: the keys of the map, read once.  (An    *)
(* iteration that overlaps another writer may also miss some of that writer's *)
(* entries; reading before or between them leaves the same stale entries.)    *)
Collect(w) ==
    LET m == writer[w].map
        wanted == Present(writer[w].target) \cap KeysOf(m)
    IN  /\ writer[w].pc = "collect"
        /\ writer' = [writer EXCEPT ![w] =
              [@ EXCEPT !.pc = "replace",
                        !.puts = wanted,
                        !.dels = (Present(tables) \cap KeysOf(m)) \ wanted]]
        /\ UNCHANGED tables

(* The iteration reports an error (iter.Err) when entries are deleted under *)
(* it, which only another writer does.                                      *)
CollectFails(w) ==
    /\ writer[w].pc = "collect"
    /\ \E v \in DOMAIN writer \ {w} :
          /\ writer[v].pc = "replace"
          /\ writer[v].map = writer[w].map
          /\ writer[v].dels # {}
    /\ writer' = [writer EXCEPT ![w].pc = "failed"]
    /\ UNCHANGED tables

(* There is room for key k: it is there already, or the map is not full. *)
HasRoom(k, map) ==
    \/ tables[k] # NoPolicy
    \/ Cardinality(Present(tables) \cap KeysOf(map)) < MaxOf(map)

(* m.Put of one entry; Go's map iteration picks the entries in any order. *)
Put(w, k) ==
    /\ writer[w].pc = "replace"
    /\ k \in writer[w].puts
    /\ HasRoom(k, writer[w].map)
    /\ tables' = [tables EXCEPT ![k] = writer[w].target[k]]
    /\ writer' = [writer EXCEPT ![w].puts = @ \ {k}]

(* Mutant: a full map is passed over, where the code returns. *)
PutSkipsWhenFull(w, k) ==
    /\ writer[w].pc = "replace"
    /\ k \in writer[w].puts
    /\ ~HasRoom(k, writer[w].map)
    /\ writer' = [writer EXCEPT ![w].puts = @ \ {k}]
    /\ UNCHANGED tables

(* m.Put refused by a full map: the whole ApplyCompiled returns the error *)
(* and leaves the entries it has put.                                     *)
PutFails(w, k) ==
    /\ writer[w].pc = "replace"
    /\ k \in writer[w].puts
    /\ ~HasRoom(k, writer[w].map)
    /\ writer' = [writer EXCEPT ![w].pc = "failed"]
    /\ UNCHANGED tables

(* Mutant: an entry that is already gone is tried again. *)
DeleteUntilFound(w, k) ==
    /\ writer[w].pc = "replace"
    /\ writer[w].puts = {}
    /\ k \in writer[w].dels
    /\ tables' = [tables EXCEPT ![k] = NoPolicy]
    /\ writer' = [writer EXCEPT ![w].dels = IF tables[k] = NoPolicy THEN @ ELSE @ \ {k}]

(* Mutant: old entries may go before the new ones are in place. *)
DeleteAtOnce(w, k) ==
    /\ writer[w].pc = "replace"
    /\ k \in writer[w].dels
    /\ tables' = [tables EXCEPT ![k] = NoPolicy]
    /\ writer' = [writer EXCEPT ![w].dels = @ \ {k}]

(* m.Delete of an old entry, once every new one is in place.  An entry that *)
(* is already gone (ErrKeyNotExist) is not an error.                        *)
Delete(w, k) ==
    /\ writer[w].pc = "replace"
    /\ writer[w].puts = {}
    /\ k \in writer[w].dels
    /\ tables' = [tables EXCEPT ![k] = NoPolicy]
    /\ writer' = [writer EXCEPT ![w].dels = @ \ {k}]

(* One map is done: policy_map first, comm_policy_map second. *)
FinishMap(w) ==
    /\ writer[w].pc = "replace"
    /\ writer[w].puts = {}
    /\ writer[w].dels = {}
    /\ writer' = [writer EXCEPT ![w] =
          [@ EXCEPT !.pc = IF writer[w].map = "pid" THEN "collect" ELSE "applied",
                    !.map = "comm"]]
    /\ UNCHANGED tables

(* A call that fails for a reason of its own, as every one does once the    *)
(* maps are closed: the iteration's error, or that of a Put or a Delete, is *)
(* returned and the map left as it is.  Not a step of ApplyStep: the caller *)
(* says when the maps may be closed under a writer.                         *)
CallFails(w) ==
    /\ \/ writer[w].pc = "collect"
       \/ writer[w].pc = "replace" /\ writer[w].puts \cup writer[w].dels # {}
    /\ writer' = [writer EXCEPT ![w].pc = "failed"]
    /\ UNCHANGED tables

ApplyStep(w) ==
    \/ Collect(w)
    \/ CollectFails(w)
    \/ \E k \in Keys : Put(w, k) \/ PutFails(w, k) \/ Delete(w, k)
    \/ FinishMap(w)

-----------------------------------------------------------------------------

(* How far a writer has come, if nobody else has written since its Collect: *)
(* the keys it has dealt with hold what its target says.                     *)
ApplyProgress(w) ==
    LET t == writer[w].target
        m == writer[w].map
    IN  /\ writer[w].puts \cup writer[w].dels \subseteq KeysOf(m)
        /\ m = "comm" => \A k \in PidKeys : tables[k] = t[k]
        /\ writer[w].pc = "replace" => \A k \in KeysOf(m) :
              /\ k \in writer[w].dels => t[k] = NoPolicy
              /\ k \notin writer[w].puts \cup writer[w].dels => tables[k] = t[k]
        /\ writer[w].pc = "applied" => tables = t

-----------------------------------------------------------------------------
(* A writer as PolicyReplacement sees it: what it is to install, and the   *)
(* keys that it has still to deal with.                                     *)

Status(r) == IF r.pc \in {"collect", "replace"} THEN "replacing" ELSE r.pc

Left(r) ==
    IF Status(r) # "replacing" THEN {}
    ELSE (IF r.map = "pid" THEN CommKeys ELSE {})
         \cup (IF r.pc = "collect" THEN KeysOf(r.map) ELSE r.puts \cup r.dels)

Seen(r) == [status |-> Status(r), target |-> r.target, left |-> Left(r)]

Work == [w \in DOMAIN writer |-> Seen(writer[w])]

(* What is true of a writer whatever others do: what it still has to put,   *)
(* its target wants, and what it still has to delete, its target does not.  *)
WriterCoherent(r) ==
    /\ r.pc = "idle" => r = IdleWriter
    /\ r.puts \cup r.dels \subseteq KeysOf(r.map)
    /\ \A k \in r.puts : r.target[k] # NoPolicy
    /\ \A k \in r.dels : r.target[k] = NoPolicy

=============================================================================
