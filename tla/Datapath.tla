------------------------------ MODULE Datapath ------------------------------
(***************************************************************************)
(* The eBPF programs of agentguardian.bpf.c and the state they keep        *)
(* between the entry and the exit of a system call.                        *)
(*                                                                         *)
(* Each traced call of a thread is three steps: the sys_enter program, the *)
(* kernel's own work (with the lsm/file_open program inside openat), and   *)
(* the sys_exit program.  Other threads, policy changes and calls no       *)
(* program traces run in between.  The kernel's part, a table of open      *)
(* files per process, is external.  What a process may rely on depends on  *)
(* what has happened to it, which two observers record: disturbed, missed. *)
(*                                                                         *)
(* The programs know a path by what they can copy of it: its first bytes,  *)
(* as many as pending.path holds, or nothing.  And they know the policy of *)
(* a thread, not of a process: where its pid has none, its name decides,   *)
(* and the threads of a process may have different names.                  *)
(***************************************************************************)
EXTENDS Integers, FiniteSets

CONSTANTS
    Threads, Procs,
    Fds,            \* file descriptors, numbers
    Paths,          \* files a process may open
    Names,          \* what pending.path and target_path can hold
    Copied,         \* path -> the name that fits in pending.path
    Buffers,        \* user addresses a read may be given
    Policies,       \* records [action, path]: what lookup_policy may return
    None,           \* absent entry, closed descriptor, no policy
    LsmAttached,    \* lsm/file_open could be attached (runtime.go attachPrograms)
    MaxTracked,     \* max_entries of map_fds
    MaxCalls,       \* max_entries of each map keyed by thread
    MaxOpen,        \* bound: files open at once, in all processes
    MaxChanges      \* bound: moments at which policies or, untraced, descriptors change

ASSUME FdsAssumption == Fds \subseteq Nat
ASSUME PathsAssumption == Copied \in [Paths -> Names]
ASSUME PoliciesAssumption == Policies \subseteq [action : {"hide", "rewrite"}, path : Names]
ASSUME LsmAssumption == LsmAttached \in BOOLEAN
ASSUME ChangesAssumption == MaxChanges \in Nat

VARIABLES
    procOf,         \* thread -> process (tgid); never changes
    policy,         \* per thread: what lookup_policy returns to it, None for NULL
    changes,        \* what is left of MaxChanges
    files,          \* kernel: per process and descriptor, the open file
    call,           \* kernel: the call each thread is in
    pending_opens,  \* per thread: the policy latched at the entry of openat
    map_fds,        \* tracked descriptors, as <<process, fd>>
    map_buff_addrs, \* per thread: buffer of a tracked read
    closing_fds,    \* per thread: tracked descriptor being closed
    disturbed,      \* observer: processes whose map_fds entries may be wrong
    missed          \* observer: processes with a path that was not copied or
                    \* an entry that a full map refused

bpfVars == <<pending_opens, map_fds, map_buff_addrs, closing_fds>>
observers == <<disturbed, missed>>
vars == <<procOf, policy, changes, files, call, bpfVars, observers>>

NoCall == [pc |-> "user", path |-> None, fd |-> None, buf |-> None,
           ret |-> "none", policy |-> None]

(* An open file, and the policy for it at the entry of its open, of the    *)
(* thread that opened it; None if it had none.                              *)
File == [path : Paths, policy : Policies \cup {None}]

ASSUME NoneAssumption ==
    /\ None \notin Fds /\ None \notin Paths /\ None \notin Names
    /\ None \notin Buffers /\ None \notin Policies /\ None \notin File

CallState ==
    [pc : {"user", "open", "opened", "read", "filled", "close", "closed"},
     path : Paths \cup {None},          \* file opened or read
     fd : Fds \cup {None},
     buf : Buffers \cup {None},
     ret : {"none", "ok", "error", "denied", "few", "enough"},
     policy : Policies \cup {None}]     \* the opener's for path, at the entry

(* The policy of a thread for a path. *)
PolicyFor(t, path) ==
    IF policy[t] # None /\ policy[t].path = Copied[path] THEN policy[t] ELSE None

Hides(p) == p # None /\ p.action = "hide"
Rewrites(p) == p # None /\ p.action = "rewrite"

ThreadsOf(p) == {t \in Threads : procOf[t] = p}
Free(p) == {fd \in Fds : files[p][fd] = None}
Opened == {o \in Procs \X Fds : files[o[1]][o[2]] # None}

(* bpf_map_update_elem of an entry keyed by the thread: refused by a full map. *)
Fits(map, t) ==
    map[t] # None \/ Cardinality({u \in Threads : map[u] # None}) < MaxCalls

Update(map, t, value) == IF Fits(map, t) THEN [map EXCEPT ![t] = value] ELSE map

(* Two threads of a process are in calls on one descriptor, not both reads. *)
Overlaps(t, pc, fd) ==
    \E u \in ThreadsOf(procOf[t]) \ {t} :
        /\ call[u].pc # "user"
        /\ call[u].fd = fd
        /\ pc # "read" \/ call[u].pc \notin {"read", "filled"}

DisturbedIf(cond, t) == IF cond THEN disturbed \cup {procOf[t]} ELSE disturbed
MissedIf(cond, t) == IF cond THEN missed \cup {procOf[t]} ELSE missed

Init ==
    /\ procOf \in [Threads -> Procs]
    /\ policy \in [Threads -> Policies \cup {None}]
    /\ changes = MaxChanges
    /\ files = [p \in Procs |-> [fd \in Fds |-> None]]
    /\ call = [t \in Threads |-> NoCall]
    /\ pending_opens = [t \in Threads |-> None]
    /\ map_fds = {}
    /\ map_buff_addrs = [t \in Threads |-> None]
    /\ closing_fds = [t \in Threads |-> None]
    /\ disturbed = {}
    /\ missed = {}

(* A thread enters or leaves a system call. *)
Enter(t, c) ==
    /\ call[t].pc = "user"
    /\ call' = [call EXCEPT ![t] = c]

Leave(t, pc) ==
    /\ call[t].pc = pc
    /\ call' = [call EXCEPT ![t] = NoCall]

-----------------------------------------------------------------------------
(* openat, openat2 *)

(* handle_open_enter_impl: latch the policy if its path is what could be    *)
(* copied of the one opened, which is nothing if the copy fails.            *)
OpenEnter(t, path, copied) ==
    LET p == policy[t]
        matches == p # None /\ p.path = copied
        lost == PolicyFor(t, path) # None /\ copied = None
    IN  /\ Enter(t, [NoCall EXCEPT !.pc = "open", !.path = path, !.policy = PolicyFor(t, path)])
        /\ copied \in {Copied[path], None}
        /\ pending_opens' = IF matches THEN Update(pending_opens, t, p) ELSE pending_opens
        /\ missed' = MissedIf(lost \/ (matches /\ ~ Fits(pending_opens, t)), t)
        /\ UNCHANGED <<procOf, policy, changes, files, map_fds, map_buff_addrs,
                       closing_fds, disturbed>>

(* Mutant: the policy is looked up again. *)
BlockedByCurrentPolicy(t) ==
    LsmAttached /\ Hides(PolicyFor(t, call[t].path))

(* enforce_file_open: the latched action decides, whatever the policy now. *)
Blocked(t) ==
    /\ LsmAttached
    /\ Hides(pending_opens[t])

KernelOpenDenied(t) ==
    /\ call[t].pc = "open"
    /\ Blocked(t)
    /\ call' = [call EXCEPT ![t] = [@ EXCEPT !.pc = "opened", !.ret = "denied"]]
    /\ UNCHANGED <<procOf, policy, changes, files, bpfVars, observers>>

KernelOpen(t) ==
    /\ call[t].pc = "open"
    /\ ~ Blocked(t)
    /\ Cardinality(Opened) < MaxOpen
    /\ \E fd \in Free(procOf[t]) :
        /\ \A other \in Free(procOf[t]) : fd <= other
        /\ files' = [files EXCEPT ![procOf[t]] =
              [@ EXCEPT ![fd] = [path |-> call[t].path, policy |-> call[t].policy]]]
        /\ call' = [call EXCEPT ![t] = [@ EXCEPT !.pc = "opened", !.ret = "ok", !.fd = fd]]
        /\ disturbed' = DisturbedIf(Overlaps(t, "opened", fd), t)
    /\ UNCHANGED <<procOf, policy, changes, bpfVars, missed>>

(* The open fails for a reason of its own: no such file, no descriptor left. *)
KernelOpenFails(t) ==
    /\ call[t].pc = "open"
    /\ call' = [call EXCEPT ![t] = [@ EXCEPT !.pc = "opened", !.ret = "error"]]
    /\ UNCHANGED <<procOf, policy, changes, files, bpfVars, observers>>

(* Mutant: the result of the open is not looked at. *)
OpenExitUnchecked(t) ==
    /\ Leave(t, "opened")
    /\ map_fds' = IF Rewrites(pending_opens[t])
                  THEN map_fds \cup {<<procOf[t], call[t].fd>>}
                  ELSE map_fds
    /\ pending_opens' = [pending_opens EXCEPT ![t] = None]
    /\ UNCHANGED <<procOf, policy, changes, files, map_buff_addrs, closing_fds, observers>>

(* handle_open_exit_impl: track the descriptor of a rewritten file, if the *)
(* map has room, and drop the latch.                                        *)
OpenExit(t) ==
    LET key == <<procOf[t], call[t].fd>>
        track == Rewrites(pending_opens[t]) /\ call[t].ret = "ok"
        room == key \in map_fds \/ Cardinality(map_fds) < MaxTracked
    IN  /\ Leave(t, "opened")
        /\ map_fds' = IF track /\ room THEN map_fds \cup {key} ELSE map_fds
        /\ missed' = MissedIf(track /\ ~ room, t)
        /\ pending_opens' = [pending_opens EXCEPT ![t] = None]
        /\ UNCHANGED <<procOf, policy, changes, files, map_buff_addrs, closing_fds,
                       disturbed>>

-----------------------------------------------------------------------------
(* read *)

(* handle_read_enter_impl: remember the buffer of a tracked descriptor. *)
ReadEnter(t, fd, buf) ==
    LET tracked == <<procOf[t], fd>> \in map_fds IN
    /\ Enter(t, [NoCall EXCEPT !.pc = "read", !.fd = fd, !.buf = buf])
    /\ map_buff_addrs' = IF tracked THEN Update(map_buff_addrs, t, buf) ELSE map_buff_addrs
    /\ missed' = MissedIf(tracked /\ ~ Fits(map_buff_addrs, t), t)
    /\ disturbed' = DisturbedIf(Overlaps(t, "read", fd), t)
    /\ UNCHANGED <<procOf, policy, changes, files, pending_opens, map_fds, closing_fds>>

(* Enough bytes for the text to find; or fewer, or an error. *)
KernelRead(t) ==
    LET file == files[procOf[t]][call[t].fd] IN
    /\ call[t].pc = "read"
    /\ \/ call' = [call EXCEPT ![t] = [@ EXCEPT !.pc = "filled", !.ret = "few"]]
       \/ /\ file # None
          /\ call' = [call EXCEPT ![t] = [@ EXCEPT !.pc = "filled", !.ret = "enough",
                                           !.path = file.path, !.policy = file.policy]]
    /\ UNCHANGED <<procOf, policy, changes, files, bpfVars, observers>>

(* prepare_read_rewrite_state: with a buffer remembered, the reader's policy *)
(* is looked up, and a rewriting one, for whatever path, scans the buffer.   *)
(* What the scan does to the bytes is ScanBuffer's.                          *)
Scans(t) ==
    /\ map_buff_addrs[t] # None
    /\ Rewrites(policy[t])
    /\ call[t].ret = "enough"

(* Mutant: the early returns leave the read state in the maps. *)
ReadExitKeepingState(t) ==
    /\ Leave(t, "filled")
    /\ map_buff_addrs' = IF Scans(t) THEN [map_buff_addrs EXCEPT ![t] = None]
                                     ELSE map_buff_addrs
    /\ UNCHANGED <<procOf, policy, changes, files, pending_opens, map_fds, closing_fds,
                   disturbed, missed>>

(* handle_read_exit_impl: the read state is cleared, scanned or not. *)
ReadExit(t) ==
    /\ Leave(t, "filled")
    /\ map_buff_addrs' = [map_buff_addrs EXCEPT ![t] = None]
    /\ UNCHANGED <<procOf, policy, changes, files, pending_opens, map_fds, closing_fds,
                   disturbed, missed>>

-----------------------------------------------------------------------------
(* close *)

(* handle_close_enter: remember a tracked descriptor; if there is no room  *)
(* for that, nothing will forget it.                                       *)
CloseEnter(t, fd) ==
    LET tracked == <<procOf[t], fd>> \in map_fds IN
    /\ Enter(t, [NoCall EXCEPT !.pc = "close", !.fd = fd])
    /\ closing_fds' = IF tracked THEN Update(closing_fds, t, fd) ELSE closing_fds
    /\ disturbed' = DisturbedIf(\/ Overlaps(t, "close", fd)
                                \/ tracked /\ ~ Fits(closing_fds, t), t)
    /\ UNCHANGED <<procOf, policy, changes, files, pending_opens, map_fds, map_buff_addrs,
                   missed>>

(* From here on another thread of the process may be given the descriptor. *)
KernelClose(t) ==
    /\ call[t].pc = "close"
    /\ files' = [files EXCEPT ![procOf[t]] = [@ EXCEPT ![call[t].fd] = None]]
    /\ call' = [call EXCEPT ![t] = [@ EXCEPT !.pc = "closed"]]
    /\ UNCHANGED <<procOf, policy, changes, bpfVars, observers>>

(* Mutant: a closed descriptor stays tracked. *)
CloseExitKeepingFd(t) ==
    /\ Leave(t, "closed")
    /\ closing_fds' = [closing_fds EXCEPT ![t] = None]
    /\ UNCHANGED <<procOf, policy, changes, files, pending_opens, map_fds, map_buff_addrs,
                   observers>>

(* handle_close_exit: forget the descriptor only now. *)
CloseExit(t) ==
    LET fd == closing_fds[t] IN
    /\ Leave(t, "closed")
    /\ IF fd # None
       THEN /\ closing_fds' = [closing_fds EXCEPT ![t] = None]
            /\ map_fds' = map_fds \ {<<procOf[t], fd>>}
            /\ map_buff_addrs' = [map_buff_addrs EXCEPT ![t] = None]
       ELSE UNCHANGED <<closing_fds, map_fds, map_buff_addrs>>
    /\ UNCHANGED <<procOf, policy, changes, files, pending_opens, observers>>

-----------------------------------------------------------------------------

(* What lookup_policy answers changes: an apply updates some entries of     *)
(* policy_map or comm_policy_map, or threads change their names.  Either    *)
(* may be of one process or of several, and of some of its threads.         *)
PolicyChange ==
    /\ changes > 0
    /\ changes' = changes - 1
    /\ \E q \in [Threads -> Policies \cup {None}] \ {policy} : policy' = q
    /\ UNCHANGED <<procOf, files, call, bpfVars, observers>>

(* A descriptor changes by a call no program traces: dup2, close_range,     *)
(* open, exec, fork; or the process ends and another is given its pid.      *)
Untraced(p, fd) ==
    /\ changes > 0
    /\ \E t \in ThreadsOf(p) : call[t].pc = "user"
    /\ changes' = changes - 1
    /\ \E file \in ([path : Paths, policy : {None}] \cup {None}) \ {files[p][fd]} :
          /\ file = None \/ files[p][fd] # None \/ Cardinality(Opened) < MaxOpen
          /\ files' = [files EXCEPT ![p] = [@ EXCEPT ![fd] = file]]
    /\ disturbed' = disturbed \cup {p}
    /\ UNCHANGED <<procOf, policy, call, bpfVars, missed>>

Step(t) ==
    \/ \E path \in Paths, copied \in Names \cup {None} : OpenEnter(t, path, copied)
    \/ KernelOpen(t) \/ KernelOpenDenied(t) \/ KernelOpenFails(t) \/ OpenExit(t)
    \/ \E fd \in Fds, buf \in Buffers : ReadEnter(t, fd, buf)
    \/ KernelRead(t) \/ ReadExit(t)
    \/ \E fd \in Fds : CloseEnter(t, fd)
    \/ KernelClose(t) \/ CloseExit(t)

Next ==
    \/ \E t \in Threads : Step(t)
    \/ PolicyChange
    \/ \E p \in Procs, fd \in Fds : Untraced(p, fd)

Spec == Init /\ [][Next]_vars

-----------------------------------------------------------------------------
(* Properties *)

(* Types of every variable. *)
TypeOK ==
    /\ procOf \in [Threads -> Procs]
    /\ policy \in [Threads -> Policies \cup {None}]
    /\ changes \in 0..MaxChanges
    /\ files \in [Procs -> [Fds -> File \cup {None}]]
    /\ call \in [Threads -> CallState]
    /\ pending_opens \in [Threads -> Policies \cup {None}]
    /\ map_fds \subseteq Procs \X Fds
    /\ map_buff_addrs \in [Threads -> Buffers \cup {None}]
    /\ closing_fds \in [Threads -> Fds \cup {None}]
    /\ disturbed \subseteq Procs
    /\ missed \subseteq Procs

(* What a thread has in the maps belongs to the call it is in: no latch,    *)
(* buffer or closing descriptor outlives its call, so no later call of the  *)
(* thread is blocked by, or rewritten into, what an earlier one left        *)
(* (agentguardian.bpf.c:165-169, 339, 497-499).                             *)
CallStateFresh ==
    \A t \in Threads :
        /\ pending_opens[t] # None =>
              /\ call[t].pc \in {"open", "opened"}
              /\ pending_opens[t].path = Copied[call[t].path]
        /\ map_buff_addrs[t] # None =>
              /\ call[t].pc \in {"read", "filled"}
              /\ map_buff_addrs[t] = call[t].buf
        /\ closing_fds[t] # None =>
              /\ call[t].pc \in {"close", "closed"}
              /\ closing_fds[t] = call[t].fd

(* However the policies change before file_open is reached, the policy of   *)
(* the opening thread at the entry decides: no open is denied that it did    *)
(* not hide, by the first bytes of its path that are copied, and none it hid *)
(* goes through, unless in this process a path could not be copied or a full *)
(* map refused a latch (agentguardian.bpf.c:297-312, 377-383).               *)
OpenDecidedAtEntry ==
    \A t \in Threads : call[t].pc = "opened" =>
        LET hidden == LsmAttached /\ Hides(call[t].policy) IN
        /\ call[t].ret = "denied" => hidden
        /\ call[t].ret = "ok" /\ procOf[t] \notin missed => ~ hidden

(* cmd/agentguardian/integration_test.go:195-197: what a process reads from *)
(* a path that is not the target stays unchanged.                           *)
NonTargetUnchanged ==
    \A t \in Threads : call[t].pc = "filled" /\ Scans(t) =>
        Copied[call[t].path] = policy[t].path

(* Whatever other processes do, however full they make the maps, and however *)
(* the policies change: in a process whose descriptors no untraced call has  *)
(* changed and whose threads never were in two calls on one descriptor, a    *)
(* read is scanned only of a file that was opened by a thread whose policy,  *)
(* then, rewrote it; and every such read is, by a thread that has a policy   *)
(* that rewrites now, whatever its path, and through whatever reuse of       *)
(* descriptors, if no copy failed and no full map refused an entry           *)
(* (agentguardian.bpf.c:297-312, 332-339, 397-402, 418-422, 490-499).        *)
ReadsScannedAsOpened ==
    \A t \in Threads :
        LET p == procOf[t]
            rewritten == Rewrites(call[t].policy)
        IN  call[t].pc = "filled" /\ call[t].ret = "enough" /\ p \notin disturbed =>
               /\ Scans(t) => rewritten
               /\ rewritten /\ Rewrites(policy[t]) /\ p \notin missed => Scans(t)

=============================================================================
