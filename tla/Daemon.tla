------------------------------- MODULE Daemon -------------------------------
(***************************************************************************)
(* agentguardd from start to end (cmd/agentguardd/main.go, ebpf.Runtime):  *)
(* programs are attached, the socket is taken over, the ruleset on disk is *)
(* loaded, requests are served, and all is closed again, while the         *)
(* goroutine that reads events goes on, files are edited, processes are    *)
(* killed and other daemons are started on the same socket and files.      *)
(* What Service does with a loaded ruleset is ControlPlane's.              *)
(***************************************************************************)
EXTENDS Loader, Sequences

CONSTANTS
    MayFail,        \* bound: programs that may fail to attach
    Overlap         \* bound: where main may be while another daemon runs

(* Daemons are numbered in the order in which they are started. *)
Daemons == Loaders

ASSUME DaemonsAssumption == Daemons \subseteq Nat /\ None \notin Daemons

(* attachPrograms, in its order. *)
Programs == << "openat_enter", "openat_exit", "openat2_enter", "openat2_exit",
               "read_enter", "read_exit", "close_enter", "close_exit", "file_open" >>
Optional == {"openat2_enter", "openat2_exit", "file_open"}
Required == {k \in 1..Len(Programs) : Programs[k] \notin Optional}

VARIABLES
    pc,             \* per daemon: where main is
    tried,          \* per daemon: how many programs it has tried to attach
    links,          \* per daemon: the programs attached, by their places in Programs
    reader,         \* per daemon: rt.reader
    events,         \* per daemon: where readEvents is
    request,        \* per daemon: what has become of its last reload
    runtime,        \* per daemon: the files whose rules its maps hold
    socket,         \* the daemon whose listener the socket's path leads to
    overlapped      \* observer: daemons that have not been alone

processVars == <<tried, links, reader, events, request, runtime>>
vars == <<loaderVars, pc, processVars, socket, overlapped>>

NotRunning == {"off", "ended", "killed", "refused", "panicked"}
Listening == {"reload", "serving", "stopping", "shutdown"}
Alive(d) == pc[d] \notin NotRunning
Attached(d) == {Programs[k] : k \in links[d]}

Init ==
    /\ LoaderInit
    /\ pc = [d \in Daemons |-> "off"]
    /\ tried = [d \in Daemons |-> 0]
    /\ links = [d \in Daemons |-> {}]
    /\ reader = [d \in Daemons |-> "none"]
    /\ events = [d \in Daemons |-> "none"]
    /\ request = [d \in Daemons |-> "none"]
    /\ runtime = [d \in Daemons |-> NoFiles]
    /\ socket = None
    /\ overlapped = {}

Go(d, from, to) ==
    /\ pc[d] = from
    /\ (\E e \in Daemons \ {d} : Alive(e)) => to \in Overlap
    /\ pc' = [pc EXCEPT ![d] = to]

(* The process ends: the kernel closes all it had open, but the path stays. *)
Ends(d, how) ==
    /\ pc' = [pc EXCEPT ![d] = how]
    /\ tried' = [tried EXCEPT ![d] = 0]
    /\ links' = [links EXCEPT ![d] = {}]
    /\ reader' = [reader EXCEPT ![d] = "none"]
    /\ events' = [events EXCEPT ![d] = "none"]
    /\ request' = [request EXCEPT ![d] = "none"]
    /\ runtime' = [runtime EXCEPT ![d] = NoFiles]
    /\ load' = [load EXCEPT ![d] = NoLoad]
    /\ versions' = [versions EXCEPT ![d] = NoVersions]
    /\ UNCHANGED <<disk, edits>>

(* A signal that cannot be caught, or log.Fatal: no deferred call runs. *)
Killed(d) ==
    /\ Alive(d)
    /\ Ends(d, "killed")
    /\ UNCHANGED <<socket, overlapped>>

-----------------------------------------------------------------------------
(* ebpf.Load *)

Start(d) ==
    LET others == {e \in Daemons \ {d} : Alive(e)} IN
    /\ Go(d, "off", "attach")
    /\ \A e \in Daemons : e < d => pc[e] # "off"
    /\ \A e \in others : pc[e] \in Overlap
    /\ overlapped' = IF others = {} THEN overlapped ELSE overlapped \cup others \cup {d}
    /\ UNCHANGED <<loaderVars, processVars, socket>>

(* Mutant: programs are counted from zero. *)
AttachFromZero(d) ==
    /\ pc[d] = "attach"
    /\ tried[d] < Len(Programs)
    /\ tried' = [tried EXCEPT ![d] = @ + 1]
    /\ links' = [links EXCEPT ![d] = @ \cup {tried[d]}]
    /\ UNCHANGED <<loaderVars, pc, reader, events, request, runtime, socket, overlapped>>

Attach(d) ==
    /\ pc[d] = "attach"
    /\ tried[d] < Len(Programs)
    /\ tried' = [tried EXCEPT ![d] = @ + 1]
    /\ links' = [links EXCEPT ![d] = @ \cup {tried[d] + 1}]
    /\ UNCHANGED <<loaderVars, pc, reader, events, request, runtime, socket, overlapped>>

(* Mutant: no program is required. *)
AttachFailsSkipped(d) ==
    /\ pc[d] = "attach"
    /\ tried[d] < Len(Programs)
    /\ Programs[tried[d] + 1] \in MayFail
    /\ tried' = [tried EXCEPT ![d] = @ + 1]
    /\ UNCHANGED <<loaderVars, pc, links, reader, events, request, runtime, socket, overlapped>>

(* An optional program is skipped; for a required one Load closes what it   *)
(* has attached, and main ends.                                             *)
AttachFails(d) ==
    /\ pc[d] = "attach"
    /\ tried[d] < Len(Programs)
    /\ LET program == Programs[tried[d] + 1] IN
       /\ program \in MayFail
       /\ IF program \in Optional
          THEN /\ tried' = [tried EXCEPT ![d] = @ + 1]
               /\ UNCHANGED <<loaderVars, pc, links, reader, events, request, runtime>>
          ELSE Ends(d, "killed")
    /\ UNCHANGED <<socket, overlapped>>

(* ringbuf.NewReader; where it or EnsureLayout fails main ends, as Killed. *)
OpenReader(d) ==
    /\ tried[d] = Len(Programs)
    /\ Go(d, "attach", "remove")
    /\ reader' = [reader EXCEPT ![d] = "open"]
    /\ UNCHANGED <<loaderVars, tried, links, events, request, runtime, socket, overlapped>>

-----------------------------------------------------------------------------
(* main *)

(* Mutant: the path of an earlier daemon's socket stays. *)
KeepStaleSocket(d) ==
    /\ Go(d, "remove", "listen")
    /\ UNCHANGED <<loaderVars, processVars, socket, overlapped>>

(* os.Remove: the path may be the socket of a daemon that still runs. *)
RemoveStaleSocket(d) ==
    /\ Go(d, "remove", "listen")
    /\ socket' = None
    /\ UNCHANGED <<loaderVars, processVars, overlapped>>

Listen(d) ==
    /\ socket = None
    /\ Go(d, "listen", "reload")
    /\ socket' = d
    /\ UNCHANGED <<loaderVars, processVars, overlapped>>

AddressInUse(d) ==
    /\ pc[d] = "listen"
    /\ socket # None
    /\ Ends(d, "refused")
    /\ UNCHANGED <<socket, overlapped>>

(* Service.Reload, called by main or for a request; one at a time here. *)
BeginReload(d) ==
    /\ request[d] # "busy"
    /\ \/ pc[d] = "reload" /\ request[d] = "none"
       \/ pc[d] \in {"serving", "stopping", "shutdown"}
    /\ ReadDir(d)
    /\ request' = [request EXCEPT ![d] = "busy"]
    /\ UNCHANGED <<pc, tried, links, reader, events, runtime, socket, overlapped>>

GoOnLoading(d) ==
    /\ LoadStep(d)
    /\ UNCHANGED <<pc, processVars, socket, overlapped>>

LoadRefused(d) ==
    /\ request[d] = "busy"
    /\ load[d].pc = "failed"
    /\ request' = [request EXCEPT ![d] = "failed"]
    /\ UNCHANGED <<loaderVars, pc, tried, links, reader, events, runtime, socket, overlapped>>

Install(d) ==
    /\ request[d] = "busy"
    /\ load[d].pc = "loaded"
    /\ request' = [request EXCEPT ![d] = "installed"]
    /\ runtime' = [runtime EXCEPT ![d] = load[d].parts]
    /\ UNCHANGED <<loaderVars, pc, tried, links, reader, events, socket, overlapped>>

(* It does not compile, or the maps refuse an entry. *)
InstallFails(d) ==
    /\ request[d] = "busy"
    /\ load[d].pc = "loaded"
    /\ request' = [request EXCEPT ![d] = "unapplied"]
    /\ UNCHANGED <<loaderVars, pc, tried, links, reader, events, runtime, socket, overlapped>>

(* Mutant: requests are served while main still loads. *)
ServeAtOnce(d) ==
    /\ Go(d, "reload", "serving")
    /\ events' = [events EXCEPT ![d] = "reading"]
    /\ UNCHANGED <<loaderVars, tried, links, reader, request, runtime, socket, overlapped>>

(* The initial Reload is over; server.Serve and readEvents are started. *)
Serve(d) ==
    /\ request[d] \notin {"none", "busy"}
    /\ Go(d, "reload", "serving")
    /\ events' = [events EXCEPT ![d] = "reading"]
    /\ UNCHANGED <<loaderVars, tried, links, reader, request, runtime, socket, overlapped>>

-----------------------------------------------------------------------------
(* readEvents *)

(* An event, or an error that is logged. *)
ReadEvent(d) ==
    /\ events[d] = "reading"
    /\ reader[d] = "open"
    /\ events' = [events EXCEPT ![d] = "logging"]
    /\ UNCHANGED <<loaderVars, pc, tried, links, reader, request, runtime, socket, overlapped>>

(* Read returns ErrClosed to a goroutine that is in it, or enters it. *)
ReadClosed(d) ==
    /\ events[d] = "reading"
    /\ reader[d] # "open"
    /\ events' = [events EXCEPT ![d] = "none"]
    /\ UNCHANGED <<loaderVars, pc, tried, links, reader, request, runtime, socket, overlapped>>

ReadNext(d) ==
    /\ events[d] = "logging"
    /\ reader[d] # "nil"
    /\ events' = [events EXCEPT ![d] = "reading"]
    /\ UNCHANGED <<loaderVars, pc, tried, links, reader, request, runtime, socket, overlapped>>

(* rt.reader has been set to nil while an event was being logged. *)
ReadPanics(d) ==
    /\ events[d] = "logging"
    /\ reader[d] = "nil"
    /\ Ends(d, "panicked")
    /\ UNCHANGED <<socket, overlapped>>

-----------------------------------------------------------------------------
(* A signal *)

Stop(d) ==
    /\ Go(d, "serving", "stopping")
    /\ UNCHANGED <<loaderVars, processVars, socket, overlapped>>

StopReading(d) ==
    /\ Go(d, "stopping", "shutdown")
    /\ reader' = [reader EXCEPT ![d] = "closed"]
    /\ UNCHANGED <<loaderVars, tried, links, events, request, runtime, socket, overlapped>>

(* server.Shutdown closes the listener, which removes its path ... *)
Shutdown(d) ==
    /\ Go(d, "shutdown", "draining")
    /\ socket' = None
    /\ UNCHANGED <<loaderVars, processVars, overlapped>>

(* ... and waits for the requests ... *)
Drained(d) ==
    /\ request[d] # "busy"
    /\ Go(d, "draining", "unlink")
    /\ UNCHANGED <<loaderVars, processVars, socket, overlapped>>

(* Mutant: there is no end to that. *)
NoDrainTimeout(d) ==
    /\ load[d].pc = "idle"
    /\ Drained(d)

(* ... but no longer than five seconds. *)
DrainTimeout(d) ==
    /\ request[d] = "busy"
    /\ Go(d, "draining", "unlink")
    /\ UNCHANGED <<loaderVars, processVars, socket, overlapped>>

(* The deferred os.Remove, of whatever is there by now. *)
Unlink(d) ==
    /\ Go(d, "unlink", "close")
    /\ socket' = None
    /\ UNCHANGED <<loaderVars, processVars, overlapped>>

(* Runtime.Close *)
CloseRuntime(d) ==
    /\ Go(d, "close", "detach")
    /\ reader' = [reader EXCEPT ![d] = "nil"]
    /\ UNCHANGED <<loaderVars, tried, links, events, request, runtime, socket, overlapped>>

(* Mutant: the last program attached is the first detached. *)
DetachLast(d) ==
    /\ pc[d] = "detach"
    /\ \E last \in links[d] :
        /\ \A k \in links[d] : k <= last
        /\ links' = [links EXCEPT ![d] = @ \ {last}]
    /\ UNCHANGED <<loaderVars, pc, tried, reader, events, request, runtime, socket, overlapped>>

(* closeLinks *)
Detach(d) ==
    /\ pc[d] = "detach"
    /\ \E first \in links[d] :
        /\ \A k \in links[d] : first <= k
        /\ links' = [links EXCEPT ![d] = @ \ {first}]
    /\ UNCHANGED <<loaderVars, pc, tried, reader, events, request, runtime, socket, overlapped>>

Return(d) ==
    /\ pc[d] = "detach"
    /\ links[d] = {}
    /\ Ends(d, "ended")
    /\ UNCHANGED <<socket, overlapped>>

Closing(d) ==
    \/ StopReading(d) \/ Shutdown(d) \/ Drained(d) \/ DrainTimeout(d) \/ Unlink(d)
    \/ CloseRuntime(d) \/ Detach(d) \/ Return(d)

Step(d) ==
    \/ Start(d) \/ Attach(d) \/ AttachFails(d) \/ OpenReader(d)
    \/ RemoveStaleSocket(d) \/ Listen(d) \/ AddressInUse(d)
    \/ BeginReload(d) \/ GoOnLoading(d) \/ LoadRefused(d) \/ Install(d) \/ InstallFails(d)
    \/ Serve(d)
    \/ ReadEvent(d) \/ ReadClosed(d) \/ ReadNext(d) \/ ReadPanics(d)
    \/ Stop(d) \/ Closing(d) \/ Killed(d)

Next ==
    \/ \E d \in Daemons : Step(d)
    \/ Edit /\ UNCHANGED <<pc, processVars, socket, overlapped>>

Spec == Init /\ [][Next]_vars

(* main goes on once it has been told to end; requests may hang. *)
FairSpec == Spec /\ \A d \in Daemons : WF_vars(Closing(d))

-----------------------------------------------------------------------------
(* Properties *)

TypeOK ==
    /\ LoaderTypeOK
    /\ pc \in [Daemons -> NotRunning \cup Listening \cup
                          {"attach", "remove", "listen", "draining", "unlink", "close", "detach"}]
    /\ tried \in [Daemons -> 0..Len(Programs)]
    /\ links \in [Daemons -> SUBSET (1..Len(Programs))]
    /\ reader \in [Daemons -> {"none", "open", "closed", "nil"}]
    /\ events \in [Daemons -> {"none", "reading", "logging"}]
    /\ request \in [Daemons -> {"none", "busy", "installed", "failed", "unapplied"}]
    /\ runtime \in [Daemons -> Files]
    /\ socket \in Daemons \cup {None}
    /\ overlapped \subseteq Daemons

(* A daemon that has had the socket's path to itself is never refused it,   *)
(* whatever its predecessors left there when they were killed, and can be   *)
(* reached for as long as it accepts requests; and the path leads to none   *)
(* that has been told to end and accepts no more, not even if readEvents    *)
(* then panics (main.go:69-80, 122).                                        *)
SocketFollowsDaemon ==
    \A d \in Daemons :
        /\ d \notin overlapped => pc[d] # "refused"
        /\ d \notin overlapped /\ pc[d] \in Listening => socket = d
        /\ pc[d] \in {"draining", "unlink", "close", "detach", "ended", "panicked"} =>
              socket # d

(* What the programs rely on whenever a policy is in the maps: every        *)
(* required one is attached, until they are detached; and in all that time  *)
(* no entry program runs without its exit program, and no read is traced    *)
(* while closes are not (runtime.go:114-126, 137-140).                      *)
EntriesTraced ==
    \A d \in Daemons : runtime[d] # NoFiles =>
        LET on == Attached(d) IN
        /\ pc[d] # "detach" => Required \subseteq links[d]
        /\ "openat_enter" \in on => "openat_exit" \in on
        /\ "read_enter" \in on => {"read_exit", "close_enter", "close_exit"} \subseteq on
        /\ "close_enter" \in on => "close_exit" \in on

(* README.md:194: the files on disk are what a daemon restores its runtime  *)
(* from.  A daemon that serves requests has tried to; and if nothing has    *)
(* changed on disk since its last reload, and it can be loaded and applied, *)
(* that is its runtime, however earlier daemons ended.                      *)
RestoredFromDisk ==
    \A d \in Daemons : pc[d] = "serving" /\ request[d] # "busy" =>
        /\ request[d] # "none"
        /\ (\A n \in Names : versions[d][n] = {disk[n]}) /\ Loadable(disk) =>
              request[d] = "unapplied" \/ runtime[d] = disk

(* A daemon that is told to end does, though a request hangs                *)
(* (main.go:120-124).                                                       *)
ShutdownEnds == \A d \in Daemons : pc[d] = "stopping" ~> ~ Alive(d)

=============================================================================
