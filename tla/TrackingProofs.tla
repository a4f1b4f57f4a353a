--------------------------- MODULE TrackingProofs ---------------------------
(***************************************************************************)
(* Which reads are scanned: map_fds against the descriptor tables, for     *)
(* every process that nothing has disturbed.                               *)
(***************************************************************************)
EXTENDS DatapathProofs

Tracked(p, fd) == <<p, fd>> \in map_fds
Target(p, fd) == files[p][fd] # None /\ Rewrites(files[p][fd].policy)

(* The moments at which map_fds lags behind the descriptor table. *)
Opening(t, fd) == call[t].pc = "opened" /\ call[t].ret = "ok" /\ call[t].fd = fd
Closing(t, fd) == call[t].pc = "closed" /\ closing_fds[t] = fd

OnlyTargets(p) == \A fd \in Fds :
    Tracked(p, fd) => Target(p, fd) \/ \E t \in ThreadsOf(p) : Closing(t, fd)

AllTargets(p) == p \notin missed => \A fd \in Fds :
    Target(p, fd) => Tracked(p, fd) \/ \E t \in ThreadsOf(p) : Opening(t, fd)

(* Only reads share a descriptor. *)
Exclusive(p) == \A t, u \in ThreadsOf(p) :
    t # u /\ call[t].fd # None /\ call[t].fd = call[u].fd =>
        call[t].pc \in {"read", "filled"} /\ call[u].pc \in {"read", "filled"}

(* What the maps and the descriptor table say of the call a thread is in. *)
InCall(t) ==
    LET p == procOf[t] fd == call[t].fd IN
    /\ call[t].pc = "opened" /\ call[t].ret = "ok" =>
          /\ files[p][fd] = [path |-> call[t].path, policy |-> call[t].policy]
          /\ ~ Tracked(p, fd)
    /\ call[t].pc = "read" =>
          /\ map_buff_addrs[t] # None => Tracked(p, fd)
          /\ Tracked(p, fd) /\ p \notin missed => map_buff_addrs[t] # None
    /\ call[t].pc = "filled" /\ call[t].ret = "enough" =>
          /\ map_buff_addrs[t] # None => Rewrites(call[t].policy)
          /\ Rewrites(call[t].policy) /\ p \notin missed => map_buff_addrs[t] # None
    /\ call[t].pc \in {"close", "closed"} => (Tracked(p, fd) <=> closing_fds[t] = fd)
    /\ call[t].pc = "closed" => files[p][fd] = None

Tracking(p) ==
    /\ OnlyTargets(p)
    /\ AllTargets(p)
    /\ Exclusive(p)
    /\ \A t \in ThreadsOf(p) : InCall(t)

TrackingInv == \A p \in Procs : p \notin disturbed => Tracking(p)

LEMMA InitTracking == Init => TrackingInv
<1> SUFFICES ASSUME Init, NEW p \in Procs PROVE Tracking(p)
  BY DEF TrackingInv
<1>1. TypeOK
  BY InitInv DEF Inv
<1>2. /\ \A fd \in Fds : ~ Tracked(p, fd) /\ ~ Target(p, fd)
      /\ \A t \in Threads : call[t].pc = "user" /\ call[t].fd = None
  BY <1>1 DEF Init, Tracked, Target, NoCall
<1> QED
  BY <1>2 DEF Tracking, OnlyTargets, AllTargets, Exclusive, InCall, ThreadsOf

(* What the invariant says of a process reads this much of the state. *)
ProcessState(p) ==
    <<files[p], {fd \in Fds : Tracked(p, fd)}, ThreadsOf(p)>>

LEMMA StepOtherProcess ==
    ASSUME TypeOK, CallStateFresh, NEW t \in Threads, Step(t), NEW q \in Procs, q # procOf[t]
    PROVE  ProcessState(q)' = ProcessState(q)
<1> DEFINE Same == /\ UNCHANGED <<files[q], procOf>>
                   /\ \A fd \in Fds : Tracked(q, fd)' <=> Tracked(q, fd)
<1> USE DEF Tracked, bpfVars, observers
<1>0. procOf[t] \in Procs
  BY DEF TypeOK
<1>1. ASSUME NEW path \in Paths, NEW copied \in Names \cup {None}, OpenEnter(t, path, copied)
      PROVE  Same
  BY <1>1 DEF OpenEnter
<1>2. ASSUME KernelOpen(t) PROVE Same
  BY <1>2, <1>0 DEF KernelOpen, TypeOK
<1>3. ASSUME KernelOpenDenied(t) PROVE Same
  BY <1>3 DEF KernelOpenDenied
<1>4. ASSUME KernelOpenFails(t) PROVE Same
  BY <1>4 DEF KernelOpenFails
<1>5. ASSUME OpenExit(t) PROVE Same
  BY <1>5, <1>0 DEF OpenExit
<1>6. ASSUME NEW fd \in Fds, NEW buf \in Buffers, ReadEnter(t, fd, buf) PROVE Same
  BY <1>6 DEF ReadEnter
<1>7. ASSUME KernelRead(t) PROVE Same
  BY <1>7 DEF KernelRead
<1>8. ASSUME ReadExit(t) PROVE Same
  BY <1>8 DEF ReadExit
<1>9. ASSUME NEW fd \in Fds, CloseEnter(t, fd) PROVE Same
  BY <1>9 DEF CloseEnter
<1>10. ASSUME KernelClose(t) PROVE Same
  BY <1>10, <1>0 DEF KernelClose, TypeOK
<1>11. ASSUME CloseExit(t) PROVE Same
  BY <1>11, <1>0 DEF CloseExit
<1>12. Same
  BY <1>1, <1>2, <1>3, <1>4, <1>5, <1>6, <1>7, <1>8, <1>9, <1>10, <1>11 DEF Step
<1>13. {fd \in Fds : Tracked(q, fd)}' = {fd \in Fds : Tracked(q, fd)}
  BY <1>12
<1> QED
  BY <1>12, <1>13 DEF ProcessState, ThreadsOf

(* A process keeps the invariant while its threads and its state stay. *)
LEMMA TrackingKept ==
    ASSUME Inv, NEW q \in Procs, Tracking(q), Observed, ProcessState(q)' = ProcessState(q),
           \A u \in ThreadsOf(q) : Own(u)' = Own(u)
    PROVE  Tracking(q)'
<1>1. /\ files[q]' = files[q] /\ ThreadsOf(q)' = ThreadsOf(q)
      /\ \A fd \in Fds : Tracked(q, fd)' <=> Tracked(q, fd)
      /\ \A fd \in Fds : Target(q, fd)' <=> Target(q, fd)
      /\ q \in missed => q \in missed'
  <2>1. {fd \in Fds : Tracked(q, fd)}' = {fd \in Fds : Tracked(q, fd)}
    BY DEF ProcessState
  <2>2. \A fd \in Fds : Tracked(q, fd)' <=> Tracked(q, fd)
    BY <2>1
  <2> QED
    BY <2>2 DEF ProcessState, Target, Observed, Rewrites
<1>2. \A u \in ThreadsOf(q) : UNCHANGED <<call[u], map_buff_addrs[u], closing_fds[u]>>
  BY DEF Own
<1>3. OnlyTargets(q)'
  BY <1>1, <1>2 DEF Tracking, OnlyTargets, Closing
<1>4. AllTargets(q)'
  BY <1>1, <1>2 DEF Tracking, AllTargets, Opening
<1>5. Exclusive(q)'
  BY <1>1, <1>2 DEF Tracking, Exclusive
<1>6. ASSUME NEW u \in ThreadsOf(q) PROVE InCall(u)'
  <2>1. procOf[u] = q /\ procOf[u]' = q /\ u \in Threads
    BY <1>1 DEF ThreadsOf
  <2>2. InCall(u) /\ Filled(u)
    BY <2>1, InvByThread DEF Tracking, ThreadInv
  <2> QED
    BY <1>1, <1>2, <2>1, <2>2 DEF InCall, Filled, Rewrites
<1> QED
  BY <1>1, <1>3, <1>4, <1>5, <1>6 DEF Tracking

(* A step of one thread that leaves map_fds and the descriptors alone. *)
LEMMA QuietStep ==
    ASSUME Inv, NEW t \in Threads, NEW p \in Procs, p = procOf[t], Tracking(p), Observed,
           \A u \in Threads : u # t => Own(u)' = Own(u),
           UNCHANGED <<files, map_fds>>,
           call[t].pc \notin {"opened", "closed"},
           Exclusive(p)', InCall(t)'
    PROVE  Tracking(p)'
<1>1. /\ files[p]' = files[p] /\ ThreadsOf(p)' = ThreadsOf(p)
      /\ \A fd \in Fds : Tracked(p, fd)' <=> Tracked(p, fd)
      /\ \A fd \in Fds : Target(p, fd)' <=> Target(p, fd)
      /\ p \in missed => p \in missed'
  BY DEF Tracked, Target, Observed, Rewrites, ThreadsOf
<1>2. \A u \in ThreadsOf(p) : u # t => UNCHANGED <<call[u], map_buff_addrs[u], closing_fds[u]>>
  BY DEF Own, ThreadsOf
<1>3. OnlyTargets(p)'
  BY <1>1, <1>2 DEF Tracking, OnlyTargets, Closing
<1>4. AllTargets(p)'
  BY <1>1, <1>2 DEF Tracking, AllTargets, Opening
<1>5. ASSUME NEW u \in ThreadsOf(p), u # t PROVE InCall(u)'
  <2>1. procOf[u] = p /\ procOf[u]' = p /\ u \in Threads
    BY <1>1 DEF ThreadsOf
  <2>2. InCall(u) /\ Filled(u)
    BY <2>1, InvByThread DEF Tracking, ThreadInv
  <2> QED
    BY <1>1, <1>2, <1>5, <2>1, <2>2 DEF InCall, Filled, Rewrites
<1> QED
  BY <1>1, <1>3, <1>4, <1>5 DEF Tracking

(* A thread that holds no descriptor, or enters a call that overlaps none,  *)
(* leaves the others' descriptors to them.                                  *)
LEMMA ExclusiveKept ==
    ASSUME NEW t \in Threads, NEW p \in Procs, p = procOf[t], Exclusive(p), procOf' = procOf,
           \A u \in Threads : u # t => call'[u] = call[u],
           \/ call'[t].fd = None
           \/ /\ call'[t].fd = call[t].fd
              /\ call[t].pc \in {"read", "filled"} => call'[t].pc \in {"read", "filled"}
           \/ /\ ~ Overlaps(t, call'[t].pc, call'[t].fd)
              /\ \A u \in Threads : call[u].pc = "user" => call[u].fd = None
    PROVE  Exclusive(p)'
<1> SUFFICES ASSUME NEW u \in ThreadsOf(p), u # t, call'[t].fd # None, call'[t].fd = call[u].fd
             PROVE  call'[t].pc \in {"read", "filled"} /\ call[u].pc \in {"read", "filled"}
  BY DEF Exclusive, ThreadsOf
<1>1. CASE /\ call'[t].fd = call[t].fd
           /\ call[t].pc \in {"read", "filled"} => call'[t].pc \in {"read", "filled"}
  BY <1>1 DEF Exclusive, ThreadsOf
<1>2. CASE /\ ~ Overlaps(t, call'[t].pc, call'[t].fd)
           /\ \A v \in Threads : call[v].pc = "user" => call[v].fd = None
  <2>1. u \in Threads /\ call[u].pc # "user"
    BY <1>2 DEF ThreadsOf
  <2> QED
    BY <1>2, <2>1 DEF Overlaps
<1> QED
  BY <1>1, <1>2

(* A thread whose descriptor a step leaves alone stays as it was. *)
LEMMA OtherInCall ==
    ASSUME Inv, NEW p \in Procs, NEW u \in ThreadsOf(p), InCall(u), Observed,
           UNCHANGED <<call[u], map_buff_addrs[u], closing_fds[u]>>,
           files'[p][call[u].fd] = files[p][call[u].fd],
           Tracked(p, call[u].fd)' <=> Tracked(p, call[u].fd)
    PROVE  InCall(u)'
<1>1. procOf[u] = p /\ procOf[u]' = p /\ u \in Threads
  BY DEF Observed, ThreadsOf
<1>2. InCall(u) /\ Filled(u)
  BY <1>1, InvByThread DEF ThreadInv
<1> QED
  BY <1>1, <1>2 DEF InCall, Filled, Rewrites, Observed, Tracked

(* A thread's own step, in a process that it does not disturb. *)
LEMMA OwnStep ==
    ASSUME Inv, NEW t \in Threads, NEW p \in Procs, p = procOf[t], Tracking(p), Step(t),
           p \notin disturbed'
    PROVE  Tracking(p)'
<1>0. /\ call[t] \in CallState /\ t \in ThreadsOf(p) /\ ThreadsOf(p) \subseteq Threads
      /\ Fresh(t) /\ Filled(t) /\ LatchedBy(t) /\ InCall(t)
      /\ OnlyTargets(p) /\ AllTargets(p) /\ Exclusive(p)
      /\ \A u \in Threads : call[u].pc = "user" => call[u].fd = None
  BY InvByThread DEF Inv, TypeOK, ThreadInv, Tracking, ThreadsOf, CallOK
<1>a. TypeOK
  BY DEF Inv
<1>b. Observed /\ procOf' = procOf /\ ThreadsOf(p)' = ThreadsOf(p)
  BY <1>a, StepObserved DEF Observed, ThreadsOf
<1>c. /\ \A u \in Threads : u # t => Own(u)' = Own(u)
      /\ \A u \in Threads : u # t => UNCHANGED <<call[u], map_buff_addrs[u], closing_fds[u]>>
  BY <1>a, StepOthers DEF Own
<1> USE NoneAssumption
<1>1. ASSUME NEW path \in Paths, NEW copied \in Names \cup {None}, OpenEnter(t, path, copied)
      PROVE  Tracking(p)'
  <2>1. /\ call[t].pc = "user"
        /\ call'[t] = [NoCall EXCEPT !.pc = "open", !.path = path, !.policy = PolicyFor(t, path)]
        /\ UNCHANGED <<files, map_fds>>
    BY <1>1, <1>a DEF OpenEnter, Enter, TypeOK
  <2>2. Exclusive(p)'
    BY <2>1, <1>0, <1>b, <1>c, ExclusiveKept DEF NoCall
  <2>3. InCall(t)'
    BY <2>1, <1>b DEF InCall, NoCall
  <2> QED
    BY <2>1, <2>2, <2>3, <1>b, <1>c, QuietStep
<1>2. ASSUME KernelOpenDenied(t) \/ KernelOpenFails(t) PROVE Tracking(p)'
  <2>1. /\ call[t].pc = "open" /\ call'[t].pc = "opened" /\ call'[t].ret # "ok"
        /\ call'[t].fd = call[t].fd /\ call'[t].policy = call[t].policy
        /\ UNCHANGED <<files, map_fds>>
    <3>1. CASE KernelOpenDenied(t)
      BY <3>1, <1>0, <1>a DEF KernelOpenDenied, CallState, TypeOK, bpfVars
    <3>2. CASE KernelOpenFails(t)
      BY <3>2, <1>0, <1>a DEF KernelOpenFails, CallState, TypeOK, bpfVars
    <3> QED
      BY <1>2, <3>1, <3>2
  <2>2. Exclusive(p)'
    BY <2>1, <1>0, <1>b, <1>c, ExclusiveKept
  <2>3. InCall(t)'
    BY <2>1, <1>0, <1>b DEF InCall
  <2> QED
    BY <2>1, <2>2, <2>3, <1>b, <1>c, QuietStep
<1>3. ASSUME NEW fd \in Fds, NEW buf \in Buffers, ReadEnter(t, fd, buf) PROVE Tracking(p)'
  <2>1. /\ call[t].pc = "user"
        /\ call'[t] = [NoCall EXCEPT !.pc = "read", !.fd = fd, !.buf = buf]
        /\ UNCHANGED <<files, map_fds>>
        /\ IF Tracked(p, fd)
           THEN map_buff_addrs'[t] = buf \/ (map_buff_addrs'[t] = map_buff_addrs[t] /\ p \in missed')
           ELSE map_buff_addrs'[t] = map_buff_addrs[t]
        /\ ~ Overlaps(t, "read", fd)
    BY <1>3, <1>a DEF ReadEnter, Enter, Tracked, TypeOK, Update, MissedIf, DisturbedIf
  <2>2. map_buff_addrs[t] = None
    BY <2>1, <1>0 DEF Fresh
  <2>3. Exclusive(p)'
    BY <2>1, <1>0, <1>b, <1>c, ExclusiveKept DEF NoCall
  <2>4. InCall(t)'
    BY <2>1, <2>2, <1>b DEF InCall, NoCall, Tracked
  <2> QED
    BY <2>1, <2>3, <2>4, <1>b, <1>c, QuietStep
<1>4. CASE KernelRead(t)
  <2> DEFINE file == files[p][call[t].fd]
  <2>1. /\ call[t].pc = "read" /\ call'[t].pc = "filled" /\ call[t].fd \in Fds
        /\ call'[t].fd = call[t].fd
        /\ call'[t].ret = "enough" => file # None /\ call'[t].policy = file.policy
        /\ UNCHANGED <<files, map_fds, map_buff_addrs, missed>>
    <3>1. CASE call' = [call EXCEPT ![t] = [@ EXCEPT !.pc = "filled", !.ret = "few"]]
      BY <1>4, <1>0, <1>a, <3>1 DEF KernelRead, CallState, TypeOK, bpfVars, observers, Filled
    <3>2. CASE /\ file # None
               /\ call' = [call EXCEPT ![t] = [@ EXCEPT !.pc = "filled", !.ret = "enough",
                                                !.path = file.path, !.policy = file.policy]]
      BY <1>4, <1>0, <1>a, <3>2 DEF KernelRead, CallState, TypeOK, bpfVars, observers, Filled
    <3> QED
      BY <1>4, <3>1, <3>2 DEF KernelRead
  <2>2. Exclusive(p)'
    BY <2>1, <1>0, <1>b, <1>c, ExclusiveKept
  <2>3. ASSUME NEW u \in ThreadsOf(p) PROVE ~ Closing(u, call[t].fd) /\ ~ Opening(u, call[t].fd)
    <3>1. CASE u = t
      BY <3>1, <2>1 DEF Closing, Opening
    <3>2. CASE u # t
      <4>1. u \in Threads /\ Fresh(u)
        BY InvByThread DEF ThreadsOf, ThreadInv
      <4>2. Closing(u, call[t].fd) \/ Opening(u, call[t].fd) => call[u].fd = call[t].fd
        BY <4>1, <2>1 DEF Closing, Opening, Fresh
      <4>3. call[u].fd = call[t].fd => call[u].pc \in {"read", "filled"}
        BY <3>2, <2>1, <1>0 DEF Exclusive
      <4> QED
        BY <4>2, <4>3 DEF Closing, Opening
    <3> QED
      BY <3>1, <3>2
  <2>4. /\ Tracked(p, call[t].fd) => Target(p, call[t].fd)
        /\ Target(p, call[t].fd) /\ p \notin missed => Tracked(p, call[t].fd)
    BY <2>1, <2>3, <1>0 DEF OnlyTargets, AllTargets
  <2>5. InCall(t)'
    BY <2>1, <2>4, <1>0, <1>b DEF InCall, Target, Rewrites
  <2> QED
    BY <2>1, <2>2, <2>5, <1>b, <1>c, QuietStep
<1>5. CASE ReadExit(t)
  <2>1. /\ call[t].pc = "filled" /\ call'[t] = NoCall
        /\ UNCHANGED <<files, map_fds>>
    BY <1>5, <1>a DEF ReadExit, Leave, TypeOK
  <2>2. Exclusive(p)'
    BY <2>1, <1>0, <1>b, <1>c, ExclusiveKept DEF NoCall
  <2>3. InCall(t)'
    BY <2>1 DEF InCall, NoCall
  <2> QED
    BY <2>1, <2>2, <2>3, <1>b, <1>c, QuietStep
<1>6. ASSUME NEW fd \in Fds, CloseEnter(t, fd) PROVE Tracking(p)'
  <2>1. /\ call[t].pc = "user"
        /\ call'[t] = [NoCall EXCEPT !.pc = "close", !.fd = fd]
        /\ UNCHANGED <<files, map_fds>>
        /\ closing_fds'[t] = IF Tracked(p, fd) THEN fd ELSE closing_fds[t]
        /\ ~ Overlaps(t, "close", fd)
    BY <1>6, <1>a DEF CloseEnter, Enter, Tracked, TypeOK, Update, DisturbedIf
  <2>2. closing_fds[t] = None
    BY <2>1, <1>0 DEF Fresh
  <2>3. Exclusive(p)'
    BY <2>1, <1>0, <1>b, <1>c, ExclusiveKept DEF NoCall
  <2>4. InCall(t)'
    BY <2>1, <2>2, <1>b DEF InCall, NoCall, Tracked
  <2> QED
    BY <2>1, <2>3, <2>4, <1>b, <1>c, QuietStep
<1>d. ASSUME NEW u \in ThreadsOf(p), u # t, call[u].fd = call[t].fd, call[t].fd # None,
             call[t].pc \notin {"read", "filled"}
      PROVE  FALSE
  BY <1>0, <1>d DEF Exclusive
<1>e. \A u \in ThreadsOf(p), fd \in Fds : Closing(u, fd) \/ Opening(u, fd) =>
          call[u].fd = fd /\ call[u].pc \in {"opened", "closed"}
  BY InvByThread DEF ThreadsOf, ThreadInv, Fresh, Closing, Opening
<1>7. CASE KernelOpen(t)
  <2> PICK fd \in Free(p) :
        /\ files' = [files EXCEPT ![p] =
              [@ EXCEPT ![fd] = [path |-> call[t].path, policy |-> call[t].policy]]]
        /\ call' = [call EXCEPT ![t] = [@ EXCEPT !.pc = "opened", !.ret = "ok", !.fd = fd]]
        /\ ~ Overlaps(t, "opened", fd)
    BY <1>7 DEF KernelOpen, DisturbedIf
  <2>1. /\ call[t].pc = "open" /\ fd \in Fds /\ files[p][fd] = None
        /\ call'[t].pc = "opened" /\ call'[t].ret = "ok" /\ call'[t].fd = fd
        /\ call'[t].path = call[t].path /\ call'[t].policy = call[t].policy
        /\ files'[p][fd] = [path |-> call[t].path, policy |-> call[t].policy]
        /\ \A g \in Fds : g # fd => files'[p][g] = files[p][g]
        /\ \A g : g # fd => files'[p][g] = files[p][g]
        /\ UNCHANGED <<map_fds, map_buff_addrs, closing_fds, missed>>
    BY <1>7, <1>0, <1>a DEF KernelOpen, Free, CallState, TypeOK, bpfVars
  <2>2. \A u \in ThreadsOf(p) : u # t => call[u].fd # fd
    BY <2>1, <1>0 DEF Overlaps
  <2>3. ~ Tracked(p, fd)
    BY <2>1, <2>2, <1>0, <1>a, <1>e DEF OnlyTargets, Target, Closing
  <2>4. \A g \in Fds : /\ Tracked(p, g)' <=> Tracked(p, g)
                       /\ g # fd => (Target(p, g)' <=> Target(p, g))
    BY <2>1 DEF Tracked, Target, Rewrites
  <2>5. OnlyTargets(p)'
    BY <2>1, <2>3, <2>4, <1>0, <1>b, <1>c DEF OnlyTargets, Closing
  <2>6. AllTargets(p)'
    BY <2>1, <2>4, <1>0, <1>b, <1>c DEF AllTargets, Opening
  <2>7. Exclusive(p)'
    BY <2>1, <1>0, <1>b, <1>c, ExclusiveKept
  <2>8. InCall(t)'
    BY <2>1, <2>3, <2>4, <1>0, <1>b DEF InCall
  <2>9. ASSUME NEW u \in ThreadsOf(p), u # t PROVE InCall(u)'
    <3>1. Tracked(p, call[u].fd)' <=> Tracked(p, call[u].fd)
      BY <2>1, <2>9, <1>c DEF Tracked, ThreadsOf
    <3>2. files'[p][call[u].fd] = files[p][call[u].fd]
      BY <2>1, <2>2, <2>9
    <3> QED
      BY <3>1, <3>2, <2>1, <2>9, <1>b, <1>c, OtherInCall DEF Tracking, ThreadsOf
  <2> QED
    BY <2>5, <2>6, <2>7, <2>8, <2>9, <1>b DEF Tracking
<1>8. CASE OpenExit(t)
  <2> DEFINE fd == call[t].fd
             track == Rewrites(pending_opens[t]) /\ call[t].ret = "ok"
  <2>1. /\ call[t].pc = "opened" /\ call'[t] = NoCall
        /\ \/ map_fds' = map_fds
           \/ track /\ map_fds' = map_fds \cup {<<p, fd>>}
        /\ track => <<p, fd>> \in map_fds' \/ p \in missed'
        /\ UNCHANGED <<files, map_buff_addrs, closing_fds>>
    BY <1>8, <1>a DEF OpenExit, Leave, TypeOK, MissedIf
  <2>2. call[t].ret = "ok" =>
          /\ fd \in Fds /\ files[p][fd] # None
          /\ files[p][fd] = [path |-> call[t].path, policy |-> call[t].policy]
    <3>1. call[t].ret = "ok" => [path |-> call[t].path, policy |-> call[t].policy] \in File
      BY <2>1, <1>0 DEF File, CallState, Filled
    <3> QED
      BY <2>1, <3>1, <1>0 DEF Filled, InCall
  <2>3. track => Target(p, fd)
    BY <2>1, <2>2, <1>0 DEF LatchedBy, Target, Rewrites
  <2>4. call[t].ret = "ok" /\ Target(p, fd) /\ p \notin missed' => track
    BY <2>1, <2>2, <1>0, <1>b DEF LatchedBy, Target, Rewrites, Observed
  <2>5. \A g \in Fds : /\ Tracked(p, g) => Tracked(p, g)'
                       /\ Tracked(p, g)' => Tracked(p, g) \/ (g = fd /\ track)
                       /\ Target(p, g)' <=> Target(p, g)
    BY <2>1 DEF Tracked, Target, Rewrites
  <2>6. OnlyTargets(p)'
    BY <2>1, <2>3, <2>5, <1>0, <1>b, <1>c DEF OnlyTargets, Closing
  <2>7. AllTargets(p)'
    <3> SUFFICES ASSUME p \notin missed', NEW g \in Fds, Target(p, g)
                 PROVE  Tracked(p, g)' \/ \E u \in ThreadsOf(p) : Opening(u, g)'
      BY <2>5, <1>b DEF AllTargets
    <3>1. Tracked(p, g) \/ \E u \in ThreadsOf(p) : Opening(u, g)
      BY <1>0, <1>b DEF AllTargets, Observed
    <3>2. CASE Opening(t, g)
      BY <3>2, <2>1, <2>4, <2>5 DEF Opening, Tracked
    <3> QED
      BY <3>1, <3>2, <2>5, <1>0, <1>c DEF Opening
  <2>8. Exclusive(p)'
    BY <2>1, <1>0, <1>b, <1>c, ExclusiveKept DEF NoCall
  <2>9. InCall(t)'
    BY <2>1 DEF InCall, NoCall
  <2>10. ASSUME NEW u \in ThreadsOf(p), u # t PROVE InCall(u)'
    <3>1. track => call[u].fd # fd
      BY <2>1, <2>2, <2>10, <1>d
    <3>2. Tracked(p, call[u].fd)' <=> Tracked(p, call[u].fd)
      BY <3>1, <2>1, <2>10, <1>c DEF Tracked, ThreadsOf
    <3> QED
      BY <3>2, <2>1, <2>10, <1>b, <1>c, OtherInCall DEF Tracking, ThreadsOf
  <2> QED
    BY <2>6, <2>7, <2>8, <2>9, <2>10, <1>b DEF Tracking
<1>9. CASE KernelClose(t)
  <2> DEFINE fd == call[t].fd
  <2>1. /\ call[t].pc = "close" /\ fd \in Fds
        /\ call'[t].pc = "closed" /\ call'[t].fd = fd
        /\ files'[p][fd] = None
        /\ \A g : g # fd => files'[p][g] = files[p][g]
        /\ UNCHANGED <<map_fds, map_buff_addrs, closing_fds, missed>>
    BY <1>9, <1>0, <1>a DEF KernelClose, CallState, TypeOK, bpfVars, observers, Inv, CallOK
  <2>2. Tracked(p, fd) <=> closing_fds[t] = fd
    BY <2>1, <1>0 DEF InCall
  <2>3. \A g \in Fds : /\ Tracked(p, g)' <=> Tracked(p, g)
                       /\ g # fd => (Target(p, g)' <=> Target(p, g))
    BY <2>1 DEF Tracked, Target, Rewrites
  <2>4. ~ Target(p, fd)'
    BY <2>1, <1>a DEF Target, Rewrites
  <2>5. OnlyTargets(p)'
    BY <2>1, <2>2, <2>3, <1>0, <1>b, <1>c DEF OnlyTargets, Closing
  <2>6. AllTargets(p)'
    BY <2>1, <2>3, <2>4, <1>0, <1>b, <1>c DEF AllTargets, Opening
  <2>7. Exclusive(p)'
    BY <2>1, <1>0, <1>b, <1>c, ExclusiveKept
  <2>8. InCall(t)'
    BY <2>1, <2>2, <2>3, <1>b DEF InCall
  <2>9. ASSUME NEW u \in ThreadsOf(p), u # t PROVE InCall(u)'
    <3>1. Tracked(p, call[u].fd)' <=> Tracked(p, call[u].fd)
      BY <2>1, <2>9, <1>c DEF Tracked, ThreadsOf
    <3>2. files'[p][call[u].fd] = files[p][call[u].fd]
      BY <2>1, <2>9, <1>d
    <3> QED
      BY <3>1, <3>2, <2>1, <2>9, <1>b, <1>c, OtherInCall DEF Tracking, ThreadsOf
  <2> QED
    BY <2>5, <2>6, <2>7, <2>8, <2>9, <1>b DEF Tracking
<1>10. CASE CloseExit(t)
  <2> DEFINE fd == call[t].fd
  <2>1. /\ call[t].pc = "closed" /\ fd \in Fds /\ call'[t] = NoCall
        /\ UNCHANGED <<files, missed>>
        /\ files[p][fd] = None
        /\ closing_fds[t] \in {None, fd}
        /\ Tracked(p, fd) <=> closing_fds[t] = fd
    BY <1>10, <1>0, <1>a DEF CloseExit, Leave, TypeOK, observers, Inv, CallOK, Fresh, InCall
  <2>2. map_fds' = map_fds \ {<<p, fd>>}
    BY <1>10, <2>1 DEF CloseExit, Tracked
  <2>3. /\ ~ Target(p, fd)
        /\ \A g \in Fds : Tracked(p, g)' <=> Tracked(p, g) /\ g # fd
        /\ \A g \in Fds : Target(p, g)' <=> Target(p, g)
    BY <2>1, <2>2, <1>a DEF Tracked, Target, Rewrites
  <2>4. OnlyTargets(p)'
    BY <2>1, <2>3, <1>0, <1>b, <1>c, <1>e DEF OnlyTargets, Closing
  <2>5. AllTargets(p)'
    BY <2>1, <2>3, <1>0, <1>b, <1>c DEF AllTargets, Opening
  <2>6. Exclusive(p)'
    BY <2>1, <1>0, <1>b, <1>c, ExclusiveKept DEF NoCall
  <2>7. InCall(t)'
    BY <2>1 DEF InCall, NoCall
  <2>8. ASSUME NEW u \in ThreadsOf(p), u # t PROVE InCall(u)'
    <3>1. Tracked(p, call[u].fd)' <=> Tracked(p, call[u].fd)
      BY <2>1, <2>2, <2>8, <1>c, <1>d DEF Tracked, ThreadsOf
    <3>2. UNCHANGED map_buff_addrs[u]
      BY <2>8, <1>c DEF ThreadsOf
    <3> QED
      BY <3>1, <3>2, <2>1, <2>8, <1>b, <1>c, OtherInCall DEF Tracking, ThreadsOf
  <2> QED
    BY <2>4, <2>5, <2>6, <2>7, <2>8, <1>b DEF Tracking
<1> QED
  BY <1>1, <1>2, <1>3, <1>4, <1>5, <1>6, <1>7, <1>8, <1>9, <1>10 DEF Step

(* Every step keeps it, for every process left undisturbed. *)
LEMMA StepTracking == Inv /\ TrackingInv /\ [Next]_vars => TrackingInv'
<1> SUFFICES ASSUME Inv, TrackingInv, [Next]_vars, NEW q \in Procs, q \notin disturbed'
             PROVE  Tracking(q)'
  BY DEF TrackingInv
<1>0. TypeOK /\ CallStateFresh
  BY DEF Inv
<1>1. ASSUME NEW t \in Threads, Step(t) PROVE Tracking(q)'
  <2>1. Observed /\ Tracking(q) /\ procOf[t] \in Procs
    BY <1>0, <1>1, StepObserved DEF Observed, TrackingInv, TypeOK
  <2>2. CASE q = procOf[t]
    BY <1>1, <2>1, <2>2, OwnStep
  <2>3. CASE q # procOf[t]
    <3>1. \A u \in ThreadsOf(q) : Own(u)' = Own(u)
      BY <1>0, <1>1, <2>3, StepOthers DEF ThreadsOf
    <3> QED
      BY <1>0, <1>1, <2>1, <2>3, <3>1, StepOtherProcess, TrackingKept
  <2> QED
    BY <2>2, <2>3
<1>2. ASSUME UNCHANGED <<procOf, files[q], call, bpfVars, missed>>,
             disturbed \subseteq disturbed'
      PROVE  Tracking(q)'
  <2>1. Observed /\ Tracking(q) /\ ProcessState(q)' = ProcessState(q)
    BY <1>2 DEF Observed, TrackingInv, ProcessState, Tracked, ThreadsOf, bpfVars
  <2>2. \A u \in ThreadsOf(q) : Own(u)' = Own(u)
    BY <1>2 DEF Own, bpfVars
  <2> QED
    BY <2>1, <2>2, TrackingKept
<1>3. CASE PolicyChange
  BY <1>2, <1>3 DEF PolicyChange, observers
<1>4. ASSUME NEW p \in Procs, NEW fd \in Fds, Untraced(p, fd) PROVE Tracking(q)'
  <2>1. q # p
    BY <1>4 DEF Untraced
  <2> QED
    BY <1>0, <1>2, <1>4, <2>1 DEF Untraced, TypeOK
<1>5. CASE UNCHANGED vars
  BY <1>2, <1>5 DEF vars, observers
<1> QED
  BY <1>1, <1>3, <1>4, <1>5 DEF Next

(* In a process whose descriptors no untraced call has changed, and whose   *)
(* threads never were in two calls on one descriptor, a read is scanned only *)
(* of a file that its opener's policy rewrote when it opened it, and then by *)
(* every thread whose own policy rewrites now, unless a path of the process  *)
(* was not copied or a full map refused it an entry: for any number of       *)
(* threads, processes and descriptors, any policies of each thread and       *)
(* changes of them, maps of any size and any reuse of descriptors            *)
(* (agentguardian.bpf.c:125-139, 297-312, 332-339, 397-402, 418-422,         *)
(* 490-499).                                                                 *)
THEOREM ReadsAreScannedAsOpened == Spec => []ReadsScannedAsOpened
<1>1. Inv /\ TrackingInv => ReadsScannedAsOpened
  <2> SUFFICES ASSUME Inv, NEW t \in Threads, Tracking(procOf[t]), call[t].pc = "filled",
                      call[t].ret = "enough"
               PROVE  LET p == procOf[t]
                          rewritten == Rewrites(call[t].policy)
                      IN  /\ Scans(t) => rewritten
                          /\ rewritten /\ Rewrites(policy[t]) /\ p \notin missed => Scans(t)
    BY DEF ReadsScannedAsOpened, TrackingInv, Inv, TypeOK
  <2>1. InCall(t)
    BY DEF Tracking, ThreadsOf
  <2> QED
    BY <2>1 DEF InCall, Scans
<1>2. Init => Inv /\ TrackingInv
  BY InitInv, InitTracking
<1>3. Inv /\ TrackingInv /\ [Next]_vars => Inv' /\ TrackingInv'
  BY StepInv, StepTracking
<1> QED
  BY <1>1, <1>2, <1>3, PTL DEF Spec
=============================================================================
