--------------------------- MODULE DatapathProofs ---------------------------
(***************************************************************************)
(* The eBPF programs' invariants, for any number of threads, processes and *)
(* descriptors, any policies and changes, and maps of any size.            *)
(***************************************************************************)
EXTENDS Datapath, TLAPS

(* The fields of a call that the call's progress has filled in. *)
CallOK ==
    \A t \in Threads :
        /\ call[t].pc \in {"user", "open"} => call[t].fd = None
        /\ call[t].pc \in {"open", "opened"} => call[t].path \in Paths
        /\ call[t].pc = "opened" /\ call[t].ret = "ok" => call[t].fd \in Fds
        /\ call[t].pc \in {"read", "filled", "close", "closed"} => call[t].fd \in Fds
        /\ call[t].pc = "read" => call[t].buf \in Buffers

(* The latch of an open is its thread's policy for the path at its entry; it *)
(* is lacking only where a path was not copied or a full map refused one.    *)
Latched ==
    \A t \in Threads : call[t].pc \in {"open", "opened"} =>
        \/ pending_opens[t] = call[t].policy
        \/ pending_opens[t] = None /\ procOf[t] \in missed

Inv == TypeOK /\ CallOK /\ CallStateFresh /\ Latched /\ OpenDecidedAtEntry

(* The part of the state that is a thread's own. *)
Own(u) == <<call[u], pending_opens[u], map_buff_addrs[u], closing_fds[u]>>

LEMMA NoCallType == NoCall \in CallState
BY DEF NoCall, CallState

LEMMA InitInv == Init => Inv
<1> SUFFICES ASSUME Init PROVE Inv
  OBVIOUS
<1>1. TypeOK
  BY NoCallType, ChangesAssumption DEF Init, TypeOK
<1>2. CallOK /\ CallStateFresh /\ Latched /\ OpenDecidedAtEntry
  BY DEF Init, CallOK, CallStateFresh, Latched, OpenDecidedAtEntry, NoCall
<1> QED
  BY <1>1, <1>2 DEF Inv

(* A step of one thread keeps every type. *)
LEMMA StepTypes ==
    ASSUME TypeOK, CallOK, NEW t \in Threads, Step(t)
    PROVE  TypeOK'
<1> USE DEF TypeOK, bpfVars, observers, MissedIf, DisturbedIf, Update
<1>0. call[t] \in CallState /\ NoCall \in CallState /\ procOf[t] \in Procs
  BY NoCallType
<1>1. ASSUME NEW path \in Paths, NEW copied \in Names \cup {None}, OpenEnter(t, path, copied)
      PROVE  TypeOK'
  <2>1. [NoCall EXCEPT !.pc = "open", !.path = path, !.policy = PolicyFor(t, path)] \in CallState
    BY <1>0 DEF NoCall, CallState, PolicyFor
  <2> QED
    BY <1>1, <1>0, <2>1 DEF OpenEnter, Enter
<1>2. CASE KernelOpen(t)
  <2> PICK fd \in Free(procOf[t]) :
        /\ files' = [files EXCEPT ![procOf[t]] =
              [@ EXCEPT ![fd] = [path |-> call[t].path, policy |-> call[t].policy]]]
        /\ call' = [call EXCEPT ![t] = [@ EXCEPT !.pc = "opened", !.ret = "ok", !.fd = fd]]
    BY <1>2 DEF KernelOpen
  <2>1. fd \in Fds /\ [path |-> call[t].path, policy |-> call[t].policy] \in File
    BY <1>2, <1>0 DEF KernelOpen, Free, CallOK, CallState, File
  <2>2. [call[t] EXCEPT !.pc = "opened", !.ret = "ok", !.fd = fd] \in CallState
    BY <1>0, <2>1 DEF CallState
  <2> QED
    BY <1>2, <1>0, <2>1, <2>2 DEF KernelOpen
<1>3. CASE KernelOpenDenied(t)
  <2>1. [call[t] EXCEPT !.pc = "opened", !.ret = "denied"] \in CallState
    BY <1>0 DEF CallState
  <2> QED
    BY <1>3, <2>1 DEF KernelOpenDenied
<1>4. CASE KernelOpenFails(t)
  <2>1. [call[t] EXCEPT !.pc = "opened", !.ret = "error"] \in CallState
    BY <1>0 DEF CallState
  <2> QED
    BY <1>4, <2>1 DEF KernelOpenFails
<1>5. CASE OpenExit(t)
  BY <1>5, <1>0 DEF OpenExit, Leave, CallOK
<1>6. ASSUME NEW fd \in Fds, NEW buf \in Buffers, ReadEnter(t, fd, buf) PROVE TypeOK'
  <2>1. [NoCall EXCEPT !.pc = "read", !.fd = fd, !.buf = buf] \in CallState
    BY <1>0 DEF NoCall, CallState
  <2> QED
    BY <1>6, <1>0, <2>1 DEF ReadEnter, Enter
<1>7. CASE KernelRead(t)
  <2> DEFINE file == files[procOf[t]][call[t].fd]
  <2>1. file \in File \cup {None}
    <3>1. call[t].fd \in Fds
      BY <1>7 DEF KernelRead, CallOK
    <3> QED
      BY <1>0, <3>1
  <2>2. CASE call' = [call EXCEPT ![t] = [@ EXCEPT !.pc = "filled", !.ret = "few"]]
    <3>1. [call[t] EXCEPT !.pc = "filled", !.ret = "few"] \in CallState
      BY <1>0 DEF CallState
    <3> QED
      BY <1>7, <2>2, <3>1 DEF KernelRead
  <2>3. CASE /\ file # None
             /\ call' = [call EXCEPT ![t] = [@ EXCEPT !.pc = "filled", !.ret = "enough",
                                              !.path = file.path, !.policy = file.policy]]
    <3>1. [call[t] EXCEPT !.pc = "filled", !.ret = "enough",
                          !.path = file.path, !.policy = file.policy] \in CallState
      BY <1>0, <2>1, <2>3 DEF CallState, File
    <3> QED
      BY <1>7, <2>3, <3>1 DEF KernelRead
  <2> QED
    BY <1>7, <2>2, <2>3 DEF KernelRead
<1>8. CASE ReadExit(t)
  BY <1>8, <1>0 DEF ReadExit, Leave
<1>9. ASSUME NEW fd \in Fds, CloseEnter(t, fd) PROVE TypeOK'
  <2>1. [NoCall EXCEPT !.pc = "close", !.fd = fd] \in CallState
    BY <1>0 DEF NoCall, CallState
  <2> QED
    BY <1>9, <1>0, <2>1 DEF CloseEnter, Enter
<1>10. CASE KernelClose(t)
  <2>1. [call[t] EXCEPT !.pc = "closed"] \in CallState
    BY <1>0 DEF CallState
  <2>2. [files[procOf[t]] EXCEPT ![call[t].fd] = None] \in [Fds -> File \cup {None}]
    BY <1>0
  <2> QED
    BY <1>10, <1>0, <2>1, <2>2 DEF KernelClose
<1>11. CASE CloseExit(t)
  BY <1>11, <1>0 DEF CloseExit, Leave
<1> QED
  BY <1>1, <1>2, <1>3, <1>4, <1>5, <1>6, <1>7, <1>8, <1>9, <1>10, <1>11 DEF Step

(* A step of one thread leaves what the others have in the per-thread maps. *)
LEMMA StepOthers ==
    ASSUME TypeOK, NEW t \in Threads, Step(t), NEW u \in Threads, u # t
    PROVE  Own(u)' = Own(u)
<1> USE DEF TypeOK, bpfVars, Own, Enter, Leave, Update
<1>1. ASSUME NEW path \in Paths, NEW copied \in Names \cup {None}, OpenEnter(t, path, copied)
      PROVE  Own(u)' = Own(u)
  BY <1>1 DEF OpenEnter
<1>2. CASE KernelOpen(t)
  BY <1>2 DEF KernelOpen
<1>3. CASE KernelOpenDenied(t)
  BY <1>3 DEF KernelOpenDenied
<1>4. CASE KernelOpenFails(t)
  BY <1>4 DEF KernelOpenFails
<1>5. CASE OpenExit(t)
  BY <1>5 DEF OpenExit
<1>6. ASSUME NEW fd \in Fds, NEW buf \in Buffers, ReadEnter(t, fd, buf) PROVE Own(u)' = Own(u)
  BY <1>6 DEF ReadEnter
<1>7. CASE KernelRead(t)
  BY <1>7 DEF KernelRead
<1>8. CASE ReadExit(t)
  BY <1>8 DEF ReadExit
<1>9. ASSUME NEW fd \in Fds, CloseEnter(t, fd) PROVE Own(u)' = Own(u)
  BY <1>9 DEF CloseEnter
<1>10. CASE KernelClose(t)
  BY <1>10 DEF KernelClose
<1>11. CASE CloseExit(t)
  BY <1>11 DEF CloseExit
<1> QED
  BY <1>1, <1>2, <1>3, <1>4, <1>5, <1>6, <1>7, <1>8, <1>9, <1>10, <1>11 DEF Step

(* No thread changes its process, and what the observers record stays. *)
Observed == procOf' = procOf /\ missed \subseteq missed' /\ disturbed \subseteq disturbed'

LEMMA StepObserved ==
    ASSUME TypeOK, NEW t \in Threads, Step(t)
    PROVE  Observed
<1> USE DEF bpfVars, observers, Observed, MissedIf, DisturbedIf
<1>1. ASSUME NEW path \in Paths, NEW copied \in Names \cup {None}, OpenEnter(t, path, copied)
      PROVE  Observed
  BY <1>1 DEF OpenEnter
<1>2. ASSUME KernelOpen(t) PROVE Observed
  BY <1>2 DEF KernelOpen
<1>3. ASSUME KernelOpenDenied(t) PROVE Observed
  BY <1>3 DEF KernelOpenDenied
<1>4. ASSUME KernelOpenFails(t) PROVE Observed
  BY <1>4 DEF KernelOpenFails
<1>5. ASSUME OpenExit(t) PROVE Observed
  BY <1>5 DEF OpenExit
<1>6. ASSUME NEW fd \in Fds, NEW buf \in Buffers, ReadEnter(t, fd, buf) PROVE Observed
  BY <1>6 DEF ReadEnter
<1>7. ASSUME KernelRead(t) PROVE Observed
  BY <1>7 DEF KernelRead
<1>8. ASSUME ReadExit(t) PROVE Observed
  BY <1>8 DEF ReadExit
<1>9. ASSUME NEW fd \in Fds, CloseEnter(t, fd) PROVE Observed
  BY <1>9 DEF CloseEnter
<1>10. ASSUME KernelClose(t) PROVE Observed
  BY <1>10 DEF KernelClose
<1>11. ASSUME CloseExit(t) PROVE Observed
  BY <1>11 DEF CloseExit
<1> QED
  BY <1>1, <1>2, <1>3, <1>4, <1>5, <1>6, <1>7, <1>8, <1>9, <1>10, <1>11 DEF Step

(* The invariants, said of one thread. *)
Fresh(u) ==
    /\ pending_opens[u] # None =>
          call[u].pc \in {"open", "opened"} /\ pending_opens[u].path = Copied[call[u].path]
    /\ map_buff_addrs[u] # None =>
          call[u].pc \in {"read", "filled"} /\ map_buff_addrs[u] = call[u].buf
    /\ closing_fds[u] # None =>
          call[u].pc \in {"close", "closed"} /\ closing_fds[u] = call[u].fd

Filled(u) ==
    /\ call[u].pc \in {"user", "open"} => call[u].fd = None
    /\ call[u].pc \in {"open", "opened"} => call[u].path \in Paths
    /\ call[u].pc = "opened" /\ call[u].ret = "ok" => call[u].fd \in Fds
    /\ call[u].pc \in {"read", "filled", "close", "closed"} => call[u].fd \in Fds
    /\ call[u].pc = "read" => call[u].buf \in Buffers

LatchedBy(u) == call[u].pc \in {"open", "opened"} =>
    \/ pending_opens[u] = call[u].policy
    \/ pending_opens[u] = None /\ procOf[u] \in missed

Hidden(u) == LsmAttached /\ Hides(call[u].policy)

Decided(u) == call[u].pc = "opened" =>
    /\ call[u].ret = "denied" => Hidden(u)
    /\ call[u].ret = "ok" /\ procOf[u] \notin missed => ~ Hidden(u)

ThreadInv(u) == Fresh(u) /\ Filled(u) /\ LatchedBy(u) /\ Decided(u)

LEMMA InvByThread == Inv <=> TypeOK /\ \A u \in Threads : ThreadInv(u)
BY DEF Inv, CallOK, CallStateFresh, Latched, OpenDecidedAtEntry,
       ThreadInv, Fresh, Filled, LatchedBy, Decided, Hidden

LEMMA ThreadInvOther ==
    ASSUME NEW u \in Threads, ThreadInv(u), Own(u)' = Own(u), Observed
    PROVE  ThreadInv(u)'
BY DEF Own, Observed, ThreadInv, Fresh, Filled, LatchedBy, Decided, Hidden, Hides

(* What a thread's own step does to its part of the invariants. *)
LEMMA StepThreadInv ==
    ASSUME TypeOK, NEW t \in Threads, ThreadInv(t), Step(t)
    PROVE  ThreadInv(t)'
<1> USE NoneAssumption DEF TypeOK, bpfVars, observers
<1>0. call[t] \in CallState /\ procOf[t] \in Procs
  OBVIOUS
<1>a. Fresh(t) /\ Filled(t) /\ LatchedBy(t)
  BY DEF ThreadInv
<1>1. ASSUME NEW path \in Paths, NEW copied \in Names \cup {None}, OpenEnter(t, path, copied)
      PROVE  ThreadInv(t)'
  <2> DEFINE p == policy[t]
  <2>1. /\ call[t].pc = "user"
        /\ call'[t] = [NoCall EXCEPT !.pc = "open", !.path = path, !.policy = PolicyFor(t, path)]
        /\ procOf' = procOf
        /\ map_buff_addrs'[t] = map_buff_addrs[t]
        /\ closing_fds'[t] = closing_fds[t]
    BY <1>1 DEF OpenEnter, Enter
  <2>2. pending_opens[t] = None /\ map_buff_addrs[t] = None /\ closing_fds[t] = None
    BY <2>1, <1>a DEF Fresh
  <2>3. Copied[path] \in Names /\ Copied[path] # None /\ (p # None => p.path \in Names)
    BY PathsAssumption, PoliciesAssumption
  <2>4. \/ pending_opens'[t] = PolicyFor(t, path)
        \/ pending_opens'[t] = None /\ procOf[t] \in missed'
    BY <1>1, <2>2, <2>3 DEF OpenEnter, Update, MissedIf, PolicyFor
  <2>5. PolicyFor(t, path) # None => PolicyFor(t, path).path = Copied[path]
    BY DEF PolicyFor
  <2> QED
    BY <2>1, <2>2, <2>4, <2>5 DEF NoCall, ThreadInv, Fresh, Filled, LatchedBy, Decided
<1>2. CASE KernelOpen(t)
  <2> PICK fd \in Free(procOf[t]) :
        call' = [call EXCEPT ![t] = [@ EXCEPT !.pc = "opened", !.ret = "ok", !.fd = fd]]
    BY <1>2 DEF KernelOpen
  <2>1. /\ fd \in Fds
        /\ call[t].pc = "open" /\ ~ Blocked(t)
        /\ call'[t].pc = "opened" /\ call'[t].ret = "ok" /\ call'[t].fd = fd
        /\ call'[t].path = call[t].path /\ call'[t].policy = call[t].policy
        /\ UNCHANGED <<procOf, missed, pending_opens, map_buff_addrs, closing_fds>>
    BY <1>2, <1>0 DEF KernelOpen, Free, CallState
  <2>2. pending_opens[t] = call[t].policy \/ procOf[t] \in missed
    BY <2>1, <1>a DEF LatchedBy
  <2>3. procOf[t] \in missed \/ ~ Hidden(t)
    BY <2>1, <2>2 DEF Blocked, Hides, Hidden
  <2>4. Decided(t)'
    BY <2>1, <2>3 DEF Decided, Hides, Hidden
  <2>5. Fresh(t)' /\ Filled(t)'
    BY <2>1, <1>a DEF Fresh, Filled
  <2>6. LatchedBy(t)'
    BY <2>1, <1>a DEF LatchedBy
  <2> QED
    BY <2>4, <2>5, <2>6 DEF ThreadInv
<1>3. CASE KernelOpenDenied(t)
  <2>1. /\ call[t].pc = "open" /\ Blocked(t)
        /\ call'[t].pc = "opened" /\ call'[t].ret = "denied"
        /\ call'[t].path = call[t].path /\ call'[t].policy = call[t].policy
        /\ UNCHANGED <<procOf, missed, pending_opens, map_buff_addrs, closing_fds>>
    BY <1>3, <1>0 DEF KernelOpenDenied, CallState
  <2>2. pending_opens[t] = call[t].policy
    BY <2>1, <1>a DEF LatchedBy, Blocked, Hides
  <2>3. Hidden(t)
    BY <2>1, <2>2 DEF Blocked, Hides, Hidden
  <2>4. Decided(t)'
    BY <2>1, <2>3 DEF Decided, Hides, Hidden
  <2>5. Fresh(t)' /\ Filled(t)'
    BY <2>1, <1>a DEF Fresh, Filled
  <2>6. LatchedBy(t)'
    BY <2>1, <1>a DEF LatchedBy
  <2> QED
    BY <2>4, <2>5, <2>6 DEF ThreadInv
<1>4. CASE KernelOpenFails(t)
  <2>1. /\ call[t].pc = "open"
        /\ call'[t].pc = "opened" /\ call'[t].ret = "error"
        /\ call'[t].path = call[t].path /\ call'[t].policy = call[t].policy
        /\ UNCHANGED <<procOf, missed, pending_opens, map_buff_addrs, closing_fds>>
    BY <1>4, <1>0 DEF KernelOpenFails, CallState
  <2> QED
    BY <2>1, <1>a DEF ThreadInv, Fresh, Filled, LatchedBy, Decided
<1>5. CASE OpenExit(t)
  BY <1>5, <1>a DEF OpenExit, Leave, NoCall, ThreadInv, Fresh, Filled, LatchedBy, Decided
<1>6. ASSUME NEW fd \in Fds, NEW buf \in Buffers, ReadEnter(t, fd, buf) PROVE ThreadInv(t)'
  <2>1. /\ call[t].pc = "user"
        /\ call'[t] = [NoCall EXCEPT !.pc = "read", !.fd = fd, !.buf = buf]
        /\ map_buff_addrs'[t] \in {buf, map_buff_addrs[t]}
        /\ UNCHANGED <<pending_opens, closing_fds>>
    BY <1>6 DEF ReadEnter, Enter, Update
  <2>2. pending_opens[t] = None /\ map_buff_addrs[t] = None /\ closing_fds[t] = None
    BY <2>1, <1>a DEF Fresh
  <2> QED
    BY <2>1, <2>2 DEF NoCall, ThreadInv, Fresh, Filled, LatchedBy, Decided
<1>7. CASE KernelRead(t)
  <2>1. /\ call[t].pc = "read" /\ call'[t].pc = "filled"
        /\ call'[t].fd = call[t].fd /\ call'[t].buf = call[t].buf
        /\ UNCHANGED <<pending_opens, map_buff_addrs, closing_fds>>
    <3> DEFINE file == files[procOf[t]][call[t].fd]
    <3>1. CASE call' = [call EXCEPT ![t] = [@ EXCEPT !.pc = "filled", !.ret = "few"]]
      BY <1>7, <1>0, <3>1 DEF KernelRead, CallState, bpfVars
    <3>2. CASE call' = [call EXCEPT ![t] = [@ EXCEPT !.pc = "filled", !.ret = "enough",
                                              !.path = file.path, !.policy = file.policy]]
      BY <1>7, <1>0, <3>2 DEF KernelRead, CallState, bpfVars
    <3> QED
      BY <1>7, <3>1, <3>2 DEF KernelRead
  <2> QED
    BY <2>1, <1>a DEF ThreadInv, Fresh, Filled, LatchedBy, Decided
<1>8. CASE ReadExit(t)
  BY <1>8, <1>a DEF ReadExit, Leave, NoCall, ThreadInv, Fresh, Filled, LatchedBy, Decided
<1>9. ASSUME NEW fd \in Fds, CloseEnter(t, fd) PROVE ThreadInv(t)'
  <2>1. /\ call[t].pc = "user"
        /\ call'[t] = [NoCall EXCEPT !.pc = "close", !.fd = fd]
        /\ closing_fds'[t] \in {fd, closing_fds[t]}
        /\ UNCHANGED <<pending_opens, map_buff_addrs>>
    BY <1>9 DEF CloseEnter, Enter, Update
  <2>2. pending_opens[t] = None /\ map_buff_addrs[t] = None /\ closing_fds[t] = None
    BY <2>1, <1>a DEF Fresh
  <2> QED
    BY <2>1, <2>2 DEF NoCall, ThreadInv, Fresh, Filled, LatchedBy, Decided
<1>10. CASE KernelClose(t)
  <2>1. /\ call[t].pc = "close" /\ call'[t].pc = "closed"
        /\ call'[t].fd = call[t].fd
        /\ UNCHANGED <<pending_opens, map_buff_addrs, closing_fds>>
    BY <1>10, <1>0 DEF KernelClose, CallState
  <2> QED
    BY <2>1, <1>a DEF ThreadInv, Fresh, Filled, LatchedBy, Decided
<1>11. CASE CloseExit(t)
  BY <1>11, <1>a DEF CloseExit, Leave, NoCall, ThreadInv, Fresh, Filled, LatchedBy, Decided
<1> QED
  BY <1>1, <1>2, <1>3, <1>4, <1>5, <1>6, <1>7, <1>8, <1>9, <1>10, <1>11 DEF Step

LEMMA StepInv == Inv /\ [Next]_vars => Inv'
<1> SUFFICES ASSUME Inv, [Next]_vars PROVE Inv'
  OBVIOUS
<1>0. TypeOK /\ CallOK /\ \A u \in Threads : ThreadInv(u)
  BY InvByThread DEF Inv
<1>a. ASSUME Observed, \A u \in Threads : Own(u)' = Own(u)
      PROVE  \A u \in Threads : ThreadInv(u)'
  BY <1>0, <1>a, ThreadInvOther
<1>1. ASSUME NEW t \in Threads, Step(t) PROVE TypeOK' /\ \A u \in Threads : ThreadInv(u)'
  <2>1. TypeOK'
    BY <1>0, <1>1, StepTypes
  <2>2. ThreadInv(t)'
    BY <1>0, <1>1, StepThreadInv
  <2>3. ASSUME NEW u \in Threads, u # t PROVE ThreadInv(u)'
    BY <1>0, <1>1, <2>3, StepOthers, StepObserved, ThreadInvOther
  <2> QED
    BY <2>1, <2>2, <2>3
<1>2. ASSUME PolicyChange PROVE TypeOK' /\ \A u \in Threads : ThreadInv(u)'
  <2>1. TypeOK'
    BY <1>0, <1>2, ChangesAssumption DEF TypeOK, PolicyChange, bpfVars, observers
  <2>2. Observed /\ \A u \in Threads : Own(u)' = Own(u)
    BY <1>2 DEF PolicyChange, bpfVars, observers, Own, Observed
  <2> QED
    BY <1>a, <2>1, <2>2
<1>3. ASSUME NEW p \in Procs, NEW fd \in Fds, Untraced(p, fd)
      PROVE  TypeOK' /\ \A u \in Threads : ThreadInv(u)'
  <2>1. TypeOK'
    BY <1>0, <1>3, ChangesAssumption DEF TypeOK, Untraced, bpfVars, File
  <2>2. Observed /\ \A u \in Threads : Own(u)' = Own(u)
    BY <1>3 DEF Untraced, bpfVars, Own, Observed
  <2> QED
    BY <1>a, <2>1, <2>2
<1>4. ASSUME UNCHANGED vars PROVE TypeOK' /\ \A u \in Threads : ThreadInv(u)'
  <2>1. TypeOK'
    BY <1>0, <1>4 DEF TypeOK, vars, bpfVars, observers
  <2>2. Observed /\ \A u \in Threads : Own(u)' = Own(u)
    BY <1>4 DEF vars, bpfVars, observers, Own, Observed
  <2> QED
    BY <1>a, <2>1, <2>2
<1>5. TypeOK' /\ \A u \in Threads : ThreadInv(u)'
  BY <1>1, <1>2, <1>3, <1>4 DEF Next
<1> QED
  BY <1>5 DEF Inv, CallOK, CallStateFresh, Latched, OpenDecidedAtEntry,
              ThreadInv, Fresh, Filled, LatchedBy, Decided, Hidden

THEOREM InvHolds == Spec => []Inv
BY InitInv, StepInv, PTL DEF Spec

(* Every variable keeps its type. *)
THEOREM TypesHold == Spec => []TypeOK
<1>1. Inv => TypeOK
  BY DEF Inv
<1> QED
  BY <1>1, InvHolds, PTL

(* No latch, buffer or closing descriptor outlives the call it is for. *)
THEOREM NothingOutlivesItsCall == Spec => []CallStateFresh
<1>1. Inv => CallStateFresh
  BY DEF Inv
<1> QED
  BY <1>1, InvHolds, PTL

(* An open is denied only if the opening thread's policy at its entry hid    *)
(* the first bytes of the path that are copied, and goes through in spite of *)
(* that only in a process that a copy or a full map has failed.              *)
THEOREM OpensDecidedAtEntry == Spec => []OpenDecidedAtEntry
<1>1. Inv => OpenDecidedAtEntry
  BY DEF Inv
<1> QED
  BY <1>1, InvHolds, PTL

=============================================================================
