---------------------------- MODULE DaemonProofs ----------------------------
(***************************************************************************)
(* The daemon's invariants, for any number of daemons, files, contents and *)
(* edits, whichever programs fail to attach and however many daemons run   *)
(* at once.                                                                *)
(***************************************************************************)
EXTENDS Daemon, FiniteSetTheorems, TLAPS

Places == 1..9

LEMMA ProgramsAre ==
    /\ Len(Programs) = 9
    /\ Programs[1] = "openat_enter" /\ Programs[2] = "openat_exit"
    /\ Programs[3] = "openat2_enter" /\ Programs[4] = "openat2_exit"
    /\ Programs[5] = "read_enter" /\ Programs[6] = "read_exit"
    /\ Programs[7] = "close_enter" /\ Programs[8] = "close_exit"
    /\ Programs[9] = "file_open"
BY DEF Programs

LEMMA RequiredAre == Required = {1, 2, 5, 6, 7, 8}
<1>1. \A k \in Places : Programs[k] \notin Optional <=> k \in {1, 2, 5, 6, 7, 8}
  BY ProgramsAre DEF Places, Optional
<1> QED
  BY <1>1, ProgramsAre DEF Required, Places

-----------------------------------------------------------------------------
(* Types *)

LEMMA NoTypes == NoLoad \in LoadState /\ NoFiles \in Files
BY DEF NoLoad, NoFiles, LoadState, Files

LEMMA InitTypes == Init => TypeOK
BY NoTypes, EditsAssumption, FilesAssumption, ProgramsAre
   DEF Init, LoaderInit, TypeOK, LoaderTypeOK, NoVersions, NotRunning, Listening, Daemons

(* A load, of whatever process, and an edit keep the loader's types. *)
LEMMA LoadTypes ==
    ASSUME LoaderTypeOK, NEW c \in Loaders, ReadDir(c) \/ LoadStep(c)
    PROVE  LoaderTypeOK'
<1> USE DEF LoaderTypeOK
<1>0. load[c] \in LoadState
  OBVIOUS
<1>1. CASE ReadDir(c)
  <2>1. [pc |-> "files", left |-> {n \in Names : disk[n] # None}, parts |-> NoFiles] \in LoadState
    BY NoTypes DEF LoadState
  <2>2. \A n \in Names : disk[n] \in Contents \cup {None}
    BY DEF Files
  <2> QED
    BY <1>1, <2>1, <2>2 DEF ReadDir
<1>2. CASE ReadFile(c)
  <2> PICK n \in Names : load' = [load EXCEPT ![c].left = @ \ {n}, ![c].parts[n] = disk[n]]
    BY <1>2 DEF ReadFile
  <2>1. [load[c].parts EXCEPT ![n] = disk[n]] \in Files
    BY <1>0 DEF LoadState, Files
  <2>2. [load[c] EXCEPT !.left = @ \ {n}, !.parts[n] = disk[n]] \in LoadState
    BY <1>0, <2>1 DEF LoadState
  <2>3. load' = [load EXCEPT ![c] = [load[c] EXCEPT !.left = @ \ {n}, !.parts[n] = disk[n]]]
    BY <1>0 DEF LoadState
  <2> QED
    BY <1>2, <2>2, <2>3 DEF ReadFile
<1>3. CASE ReadFileFails(c)
  <2>1. [load[c] EXCEPT !.pc = "failed"] \in LoadState
    BY <1>0 DEF LoadState
  <2> QED
    BY <1>3, <2>1 DEF ReadFileFails
<1>4. CASE Merge(c)
  <2>1. [load[c] EXCEPT !.pc = IF Mergeable(load[c].parts) THEN "loaded" ELSE "failed"]
            \in LoadState
    BY <1>0 DEF LoadState
  <2> QED
    BY <1>4, <2>1 DEF Merge
<1> QED
  BY <1>1, <1>2, <1>3, <1>4 DEF LoadStep

LEMMA EditTypes == LoaderTypeOK /\ Edit => LoaderTypeOK'
<1> SUFFICES ASSUME LoaderTypeOK, Edit PROVE LoaderTypeOK'
  OBVIOUS
<1>1. PICK files \in Files : ChangeTo(files)
  <2>1. disk \in Files
    BY DEF LoaderTypeOK
  <2>2. PICK n \in Names, m \in Names : Save(n) \/ Remove(n) \/ Rename(n, m)
    BY DEF Edit
  <2>3. CASE Save(n)
    BY <2>1, <2>3 DEF Save, Files
  <2>4. CASE Remove(n)
    BY <2>1, <2>4 DEF Remove, Files
  <2>5. CASE Rename(n, m)
    BY <2>1, <2>5 DEF Rename, Files
  <2> QED
    BY <2>2, <2>3, <2>4, <2>5
<1>2. versions' \in [Loaders -> [Names -> SUBSET (Contents \cup {None})]]
  <2>1. versions \in [Loaders -> [Names -> SUBSET (Contents \cup {None})]]
    BY DEF LoaderTypeOK
  <2>2. \A n \in Names : files[n] \in Contents \cup {None}
    BY <1>1 DEF Files
  <2>3. ASSUME NEW c \in Loaders
        PROVE  [n \in Names |-> versions[c][n] \cup {files[n]}]
                   \in [Names -> SUBSET (Contents \cup {None})]
    <3>1. versions[c] \in [Names -> SUBSET (Contents \cup {None})]
      BY <2>1
    <3>2. \A n \in Names : versions[c][n] \cup {files[n]} \in SUBSET (Contents \cup {None})
      BY <2>2, <3>1
    <3> QED
      BY <3>2
  <2>4. \A c \in Loaders : versions[c] \in [Names -> SUBSET (Contents \cup {None})]
    BY <2>1
  <2> DEFINE After(c) == IF load[c].pc = "idle" THEN versions[c]
                         ELSE [n \in Names |-> versions[c][n] \cup {files[n]}]
  <2>5. \A c \in Loaders : After(c) \in [Names -> SUBSET (Contents \cup {None})]
    BY <2>3, <2>4
  <2>6. versions' = [c \in Loaders |-> After(c)]
    BY <1>1 DEF ChangeTo
  <2> HIDE DEF After
  <2> QED
    BY <2>5, <2>6
<1>3. disk' \in Files /\ load' \in [Loaders -> LoadState]
  BY <1>1 DEF ChangeTo, LoaderTypeOK
<1>4. edits' \in 0..MaxEdits
  BY <1>1, EditsAssumption DEF ChangeTo, LoaderTypeOK
<1> QED
  BY <1>2, <1>3, <1>4 DEF LoaderTypeOK

(* What the end of a process leaves. *)
LEMMA EndsTypes ==
    ASSUME TypeOK, NEW d \in Daemons, NEW how \in NotRunning, Ends(d, how),
           socket' = socket, overlapped' = overlapped
    PROVE  TypeOK'
BY NoTypes DEF TypeOK, LoaderTypeOK, Ends, NoVersions, Daemons

LEMMA LoaderKept == LoaderTypeOK /\ UNCHANGED loaderVars => LoaderTypeOK'
BY DEF LoaderTypeOK, loaderVars

LEMMA StepTypes ==
    ASSUME TypeOK, NEW d \in Daemons, Step(d)
    PROVE  TypeOK'
<1> USE DEF TypeOK, Go, processVars, Listening, NotRunning
<1>0. d \in Loaders
  BY DEF Daemons
<1>1. CASE Start(d)
  BY <1>1, LoaderKept DEF Start
<1>2. CASE Attach(d)
  BY <1>2, LoaderKept, ProgramsAre DEF Attach
<1>3. CASE AttachFails(d)
  <2>1. CASE Ends(d, "killed")
    BY <1>3, <2>1, EndsTypes DEF AttachFails
  <2>2. CASE ~ Ends(d, "killed")
    BY <1>3, <2>2, LoaderKept, ProgramsAre DEF AttachFails
  <2> QED
    BY <2>1, <2>2
<1>4. CASE OpenReader(d)
  BY <1>4, LoaderKept DEF OpenReader
<1>5. CASE RemoveStaleSocket(d)
  BY <1>5, LoaderKept DEF RemoveStaleSocket
<1>6. CASE Listen(d)
  BY <1>6, LoaderKept DEF Listen
<1>7. CASE AddressInUse(d)
  BY <1>7, EndsTypes DEF AddressInUse
<1>8. CASE BeginReload(d)
  BY <1>8, <1>0, LoadTypes DEF BeginReload
<1>9. CASE GoOnLoading(d)
  BY <1>9, <1>0, LoadTypes DEF GoOnLoading
<1>10. CASE LoadRefused(d)
  BY <1>10, LoaderKept DEF LoadRefused
<1>11. CASE Install(d)
  <2>1. load[d].parts \in Files
    BY <1>0 DEF LoaderTypeOK, LoadState
  <2> QED
    BY <1>11, <2>1, LoaderKept DEF Install
<1>12. CASE InstallFails(d)
  BY <1>12, LoaderKept DEF InstallFails
<1>13. CASE Serve(d)
  BY <1>13, LoaderKept DEF Serve
<1>14. CASE ReadEvent(d) \/ ReadClosed(d) \/ ReadNext(d)
  BY <1>14, LoaderKept DEF ReadEvent, ReadClosed, ReadNext
<1>15. CASE ReadPanics(d)
  BY <1>15, EndsTypes DEF ReadPanics
<1>16. CASE Stop(d) \/ StopReading(d)
  BY <1>16, LoaderKept DEF Stop, StopReading
<1>17. CASE Shutdown(d) \/ Drained(d) \/ DrainTimeout(d) \/ Unlink(d)
  BY <1>17, LoaderKept DEF Shutdown, Drained, DrainTimeout, Unlink
<1>18. CASE CloseRuntime(d)
  BY <1>18, LoaderKept DEF CloseRuntime
<1>19. CASE Detach(d)
  BY <1>19, LoaderKept DEF Detach
<1>20. CASE Return(d)
  BY <1>20, EndsTypes DEF Return
<1>21. CASE Killed(d)
  BY <1>21, EndsTypes DEF Killed
<1> QED
  BY <1>1, <1>2, <1>3, <1>4, <1>5, <1>6, <1>7, <1>8, <1>9, <1>10, <1>11, <1>12, <1>13, <1>14,
     <1>15, <1>16, <1>17, <1>18, <1>19, <1>20, <1>21 DEF Step, Closing

LEMMA NextTypes == TypeOK /\ [Next]_vars => TypeOK'
<1> SUFFICES ASSUME TypeOK, [Next]_vars PROVE TypeOK'
  OBVIOUS
<1>1. CASE Edit /\ UNCHANGED <<pc, processVars, socket, overlapped>>
  BY <1>1, EditTypes DEF TypeOK, processVars
<1>2. CASE UNCHANGED vars
  BY <1>2, LoaderKept DEF TypeOK, vars, processVars
<1> QED
  BY <1>1, <1>2, StepTypes DEF Next

(* Types of every variable, for any number of daemons, files and edits. *)
THEOREM TypesHold == Spec => []TypeOK
BY InitTypes, NextTypes, PTL DEF Spec
-----------------------------------------------------------------------------
(* What a step of one process leaves alone *)

Untouched(d) ==
    /\ pc'[d] = pc[d] /\ tried'[d] = tried[d] /\ links'[d] = links[d]
    /\ reader'[d] = reader[d] /\ events'[d] = events[d]
    /\ request'[d] = request[d] /\ runtime'[d] = runtime[d]
    /\ load'[d] = load[d] /\ versions'[d] = versions[d]

LEMMA EndsUntouched ==
    ASSUME TypeOK, NEW e \in Daemons, NEW how \in NotRunning, Ends(e, how),
           NEW d \in Daemons, d # e
    PROVE  Untouched(d) /\ disk' = disk
BY DEF TypeOK, LoaderTypeOK, Daemons, Ends, Untouched

LEMMA OthersUntouched ==
    ASSUME TypeOK, NEW e \in Daemons, Step(e), NEW d \in Daemons, d # e
    PROVE  Untouched(d) /\ disk' = disk
<1> USE DEF TypeOK, LoaderTypeOK, Daemons, Untouched, Go, processVars, loaderVars
<1>1. CASE Start(e) \/ Attach(e) \/ OpenReader(e) \/ RemoveStaleSocket(e) \/ Listen(e)
  BY <1>1 DEF Start, Attach, OpenReader, RemoveStaleSocket, Listen
<1>2. CASE AttachFails(e)
  <2>1. CASE Ends(e, "killed")
    BY <2>1, EndsUntouched DEF NotRunning
  <2>2. CASE ~ Ends(e, "killed")
    BY <1>2, <2>2 DEF AttachFails
  <2> QED
    BY <2>1, <2>2
<1>3. CASE AddressInUse(e) \/ ReadPanics(e) \/ Return(e) \/ Killed(e)
  BY <1>3, EndsUntouched DEF AddressInUse, ReadPanics, Return, Killed, NotRunning
<1>4. CASE BeginReload(e)
  BY <1>4 DEF BeginReload, ReadDir
<1>5. CASE GoOnLoading(e)
  BY <1>5 DEF GoOnLoading, LoadStep, ReadFile, ReadFileFails, Merge
<1>6. CASE LoadRefused(e) \/ Install(e) \/ InstallFails(e) \/ Serve(e)
  BY <1>6 DEF LoadRefused, Install, InstallFails, Serve
<1>7. CASE ReadEvent(e) \/ ReadClosed(e) \/ ReadNext(e)
  BY <1>7 DEF ReadEvent, ReadClosed, ReadNext
<1>8. CASE Stop(e) \/ StopReading(e) \/ Shutdown(e) \/ Drained(e) \/ DrainTimeout(e)
  BY <1>8 DEF Stop, StopReading, Shutdown, Drained, DrainTimeout
<1>9. CASE Unlink(e) \/ CloseRuntime(e) \/ Detach(e)
  BY <1>9 DEF Unlink, CloseRuntime, Detach
<1> QED
  BY <1>1, <1>2, <1>3, <1>4, <1>5, <1>6, <1>7, <1>8, <1>9 DEF Step, Closing

-----------------------------------------------------------------------------
(* Programs *)

(* From attached to about to be detached. *)
AllOn == {"remove", "listen", "draining", "unlink", "close"} \cup Listening

LinksInv(d) ==
    /\ pc[d] = "off" => tried[d] = 0
    /\ pc[d] = "attach" => \A k \in Required : k <= tried[d] => k \in links[d]
    /\ pc[d] \in AllOn => Required \subseteq links[d]
    /\ pc[d] = "detach" => \A k \in links[d], j \in Required : k < j => j \in links[d]
    /\ request[d] # "none" \/ runtime[d] # NoFiles => pc[d] \in AllOn \cup {"detach"}

LEMMA EndsKeepsLinks ==
    ASSUME TypeOK, NEW d \in Daemons, NEW how \in NotRunning, Ends(d, how)
    PROVE  LinksInv(d)'
BY DEF TypeOK, Ends, LinksInv, AllOn, NotRunning, Listening

LEMMA StepKeepsLinks ==
    ASSUME TypeOK, NEW d \in Daemons, LinksInv(d), Step(d)
    PROVE  LinksInv(d)'
<1> USE DEF TypeOK, LinksInv, AllOn, Listening, Go, processVars
<1>1. CASE Start(d)
  BY <1>1, RequiredAre DEF Start
<1>2. CASE Attach(d)
  BY <1>2, RequiredAre DEF Attach
<1>3. CASE AttachFails(d)
  <2>1. CASE Programs[tried[d] + 1] \in Optional
    <3>1. tried[d] \in 0..9 /\ tried[d] < 9
      BY <1>3, ProgramsAre DEF AttachFails
    <3>2. tried[d] + 1 \notin Required
      BY <2>1, <3>1 DEF Required
    <3>3. tried' = [tried EXCEPT ![d] = @ + 1] /\ UNCHANGED <<pc, links, request, runtime>>
      BY <1>3, <2>1 DEF AttachFails
    <3> QED
      BY <3>1, <3>2, <3>3, RequiredAre
  <2>2. CASE Programs[tried[d] + 1] \notin Optional
    BY <1>3, <2>2, EndsKeepsLinks DEF AttachFails, NotRunning
  <2> QED
    BY <2>1, <2>2
<1>4. CASE OpenReader(d)
  BY <1>4, RequiredAre, ProgramsAre DEF OpenReader
<1>5. CASE AddressInUse(d) \/ ReadPanics(d) \/ Return(d) \/ Killed(d)
  BY <1>5, EndsKeepsLinks DEF AddressInUse, ReadPanics, Return, Killed, NotRunning
<1>6. CASE RemoveStaleSocket(d) \/ Listen(d)
  BY <1>6 DEF RemoveStaleSocket, Listen
<1>7. CASE BeginReload(d) \/ GoOnLoading(d)
  BY <1>7 DEF BeginReload, GoOnLoading
<1>8. CASE LoadRefused(d) \/ Install(d) \/ InstallFails(d)
  BY <1>8 DEF LoadRefused, Install, InstallFails
<1>9. CASE Serve(d)
  BY <1>9 DEF Serve
<1>10. CASE ReadEvent(d) \/ ReadClosed(d) \/ ReadNext(d)
  BY <1>10 DEF ReadEvent, ReadClosed, ReadNext
<1>11. CASE Stop(d) \/ StopReading(d) \/ Shutdown(d) \/ Drained(d) \/ DrainTimeout(d) \/ Unlink(d)
  BY <1>11 DEF Stop, StopReading, Shutdown, Drained, DrainTimeout, Unlink
<1>12. CASE CloseRuntime(d)
  <2>1. pc'[d] = "detach" /\ links' = links
    BY <1>12 DEF CloseRuntime
  <2> QED
    BY <1>12, <2>1 DEF CloseRuntime
<1>13. CASE Detach(d)
  <2> PICK first \in links[d] :
        /\ \A k \in links[d] : first <= k
        /\ links' = [links EXCEPT ![d] = @ \ {first}]
    BY <1>13 DEF Detach
  <2>1. pc' = pc /\ request' = request /\ runtime' = runtime /\ pc[d] = "detach"
    BY <1>13 DEF Detach
  <2>2. links[d] \subseteq Int
    BY ProgramsAre
  <2>3. ASSUME NEW k \in links'[d], NEW j \in Required, k < j
        PROVE  j \in links'[d]
    BY <2>1, <2>2, <2>3, RequiredAre
  <2> QED
    BY <2>1, <2>3
<1> QED
  BY <1>1, <1>2, <1>3, <1>4, <1>5, <1>6, <1>7, <1>8, <1>9, <1>10, <1>11, <1>12, <1>13
     DEF Step, Closing

LEMMA NextKeepsLinks ==
    ASSUME TypeOK, [Next]_vars, NEW d \in Daemons, LinksInv(d)
    PROVE  LinksInv(d)'
<1>1. CASE UNCHANGED <<pc, processVars>>
  BY <1>1 DEF LinksInv, processVars
<1>2. CASE \E e \in Daemons : Step(e)
  <2> PICK e \in Daemons : Step(e)
    BY <1>2
  <2>1. CASE e = d
    BY <2>1, StepKeepsLinks
  <2>2. CASE e # d
    BY <2>2, OthersUntouched DEF Untouched, LinksInv
  <2> QED
    BY <2>1, <2>2
<1> QED
  BY <1>1, <1>2 DEF Next, vars

LEMMA LinksTraced == TypeOK /\ (\A d \in Daemons : LinksInv(d)) => EntriesTraced
<1> SUFFICES ASSUME TypeOK, NEW d \in Daemons, LinksInv(d), runtime[d] # NoFiles
             PROVE  LET on == Attached(d) IN
                    /\ pc[d] # "detach" => Required \subseteq links[d]
                    /\ "openat_enter" \in on => "openat_exit" \in on
                    /\ "read_enter" \in on =>
                           {"read_exit", "close_enter", "close_exit"} \subseteq on
                    /\ "close_enter" \in on => "close_exit" \in on
  BY DEF EntriesTraced
<1>1. pc[d] # "detach" => Required \subseteq links[d]
  BY DEF LinksInv
<1>2. \A k \in links[d], j \in Required : k < j => j \in links[d]
  BY <1>1 DEF LinksInv
<1>3. links[d] \subseteq 1..9
  BY ProgramsAre DEF TypeOK
<1>4. /\ "openat_enter" \in Attached(d) => 1 \in links[d]
      /\ "read_enter" \in Attached(d) => 5 \in links[d]
      /\ "close_enter" \in Attached(d) => 7 \in links[d]
  BY <1>3, ProgramsAre DEF Attached
<1>5. /\ 2 \in links[d] => "openat_exit" \in Attached(d)
      /\ 6 \in links[d] => "read_exit" \in Attached(d)
      /\ 7 \in links[d] => "close_enter" \in Attached(d)
      /\ 8 \in links[d] => "close_exit" \in Attached(d)
  BY ProgramsAre DEF Attached
<1> QED
  BY <1>1, <1>2, <1>4, <1>5, RequiredAre

(* Whenever rules are in the maps the programs that follow descriptors are  *)
(* attached, and they are taken away in an order that leaves no entry       *)
(* program without its exit program (runtime.go:95-143).                    *)
THEOREM TracedWhileRulesHold == Spec => []EntriesTraced
<1> DEFINE IInv == TypeOK /\ \A d \in Daemons : LinksInv(d)
<1>1. Init => IInv
  BY InitTypes DEF Init, LinksInv, AllOn, Listening
<1>2. IInv /\ [Next]_vars => IInv'
  BY NextTypes, NextKeepsLinks
<1> QED
  BY <1>1, <1>2, LinksTraced, PTL DEF Spec

-----------------------------------------------------------------------------
(* Loads *)

LoadInv(c) ==
    /\ load[c].pc # "idle" => \A n \in Names : disk[n] \in versions[c][n]
    /\ load[c].pc \in {"files", "loaded"} =>
          \A n \in Names \ load[c].left :
              load[c].parts[n] \in versions[c][n] /\ load[c].parts[n] \notin Broken
    /\ load[c].pc = "files" =>
          \A n \in load[c].left : \E content \in versions[c][n] : content # None
    /\ load[c].pc = "loaded" => load[c].left = {} /\ Mergeable(load[c].parts)
    /\ load[c].pc = "failed" /\ (\A n \in Names : versions[c][n] = {disk[n]}) =>
          ~ Loadable(disk)

LEMMA ReadDirKeepsLoad ==
    ASSUME LoaderTypeOK, NEW c \in Loaders, ReadDir(c)
    PROVE  LoadInv(c)'
<1>1. /\ load'[c] = [pc |-> "files", left |-> {n \in Names : disk[n] # None}, parts |-> NoFiles]
      /\ versions'[c] = [n \in Names |-> {disk[n]}]
      /\ disk' = disk
  BY DEF ReadDir, LoaderTypeOK
<1> QED
  BY <1>1, ContentsAssumption DEF LoadInv, NoFiles

LEMMA StepKeepsLoad ==
    ASSUME LoaderTypeOK, NEW c \in Loaders, LoadInv(c), LoadStep(c)
    PROVE  LoadInv(c)'
<1>0. load[c] \in LoadState /\ versions' = versions /\ disk' = disk
  BY DEF LoaderTypeOK, LoadStep, ReadFile, ReadFileFails, Merge
<1>1. CASE ReadFile(c)
  <2> PICK n \in Names :
        /\ NextFile(c, n)
        /\ disk[n] \notin Broken \cup {None}
        /\ load' = [load EXCEPT ![c].left = @ \ {n}, ![c].parts[n] = disk[n]]
    BY <1>1 DEF ReadFile
  <2>1. /\ load'[c].pc = "files" /\ load[c].pc = "files"
        /\ load'[c].left = load[c].left \ {n}
        /\ load'[c].parts = [load[c].parts EXCEPT ![n] = disk[n]]
    BY <1>0 DEF LoaderTypeOK, LoadState, NextFile
  <2>2. ASSUME NEW m \in Names \ load'[c].left
        PROVE  load'[c].parts[m] \in versions[c][m] /\ load'[c].parts[m] \notin Broken
    <3>1. load[c].parts \in [Names -> Contents \cup {None}]
      BY <1>0 DEF LoadState, Files
    <3>2. CASE m = n
      BY <2>1, <3>1, <3>2 DEF LoadInv
    <3>3. CASE m # n
      <4>1. m \notin load[c].left /\ load'[c].parts[m] = load[c].parts[m]
        BY <2>1, <2>2, <3>1, <3>3
      <4> QED
        BY <2>1, <4>1 DEF LoadInv
    <3> QED
      BY <3>2, <3>3
  <2> QED
    BY <1>0, <2>1, <2>2 DEF LoadInv
<1>2. CASE ReadFileFails(c)
  <2> PICK n \in Names : NextFile(c, n) /\ disk[n] \in Broken \cup {None}
    BY <1>2 DEF ReadFileFails
  <2>1. load[c].pc = "files" /\ n \in load[c].left /\ load'[c].pc = "failed"
    BY <1>0, <1>2 DEF ReadFileFails, LoaderTypeOK, LoadState, NextFile
  <2>2. ASSUME \A m \in Names : versions[c][m] = {disk[m]}
        PROVE  disk[n] \in Broken
    BY <2>1, <2>2 DEF LoadInv
  <2> QED
    BY <1>0, <2>1, <2>2 DEF LoadInv, Loadable
<1>3. CASE Merge(c)
  <2>1. /\ load[c].pc = "files" /\ load[c].left = {}
        /\ load'[c].left = {} /\ load'[c].parts = load[c].parts
        /\ load'[c].pc = IF Mergeable(load[c].parts) THEN "loaded" ELSE "failed"
    BY <1>0, <1>3 DEF Merge, LoaderTypeOK, LoadState
  <2>2. ASSUME \A n \in Names : versions[c][n] = {disk[n]}
        PROVE  load[c].parts = disk
    BY <1>0, <2>1, <2>2 DEF LoadInv, LoaderTypeOK, LoadState, Files
  <2> QED
    BY <1>0, <2>1, <2>2 DEF LoadInv, Loadable
<1> QED
  BY <1>1, <1>2, <1>3 DEF LoadStep

LEMMA EditKeepsLoad ==
    ASSUME LoaderTypeOK, Edit, NEW c \in Loaders, LoadInv(c)
    PROVE  LoadInv(c)'
<1>1. PICK files : ChangeTo(files)
  BY DEF Edit, Save, Remove, Rename
<1>2. load' = load /\ disk' = files
  BY <1>1 DEF ChangeTo
<1>3. CASE load[c].pc = "idle"
  BY <1>2, <1>3 DEF LoadInv
<1>4. CASE load[c].pc # "idle"
  <2>1. versions'[c] = [n \in Names |-> versions[c][n] \cup {files[n]}]
    BY <1>1, <1>4 DEF ChangeTo
  <2>2. \A n \in Names : files[n] \in versions'[c][n] /\ versions[c][n] \subseteq versions'[c][n]
    BY <2>1
  <2>3. disk \in Files /\ disk' \in Files /\ load[c].left \subseteq Names
    BY EditTypes DEF LoaderTypeOK, LoadState
  <2>4. ASSUME load[c].pc = "failed", \A n \in Names : versions'[c][n] = {files[n]}
        PROVE  ~ Loadable(files)
    <3>1. \A n \in Names : disk[n] \in {files[n]}
      BY <1>4, <2>2, <2>4 DEF LoadInv
    <3>2. files = disk
      BY <1>2, <2>3, <3>1 DEF Files
    <3>3. \A n \in Names : versions[c][n] = {disk[n]}
      BY <1>4, <2>2, <2>4, <3>2 DEF LoadInv
    <3> QED
      BY <2>4, <3>2, <3>3 DEF LoadInv
  <2> QED
    BY <1>2, <1>4, <2>2, <2>3, <2>4 DEF LoadInv
<1> QED
  BY <1>3, <1>4

-----------------------------------------------------------------------------
(* What a daemon's runtime has from its loads *)

RestoreInv(d) ==
    /\ pc[d] = "serving" => request[d] # "none"
    /\ request[d] = "installed" => load[d].pc = "loaded" /\ runtime[d] = load[d].parts
    /\ request[d] = "failed" => load[d].pc = "failed"

DaemonInv(d) == LoadInv(d) /\ RestoreInv(d)

LEMMA EndsKeepsDaemon ==
    ASSUME TypeOK, NEW d \in Daemons, NEW how \in NotRunning, Ends(d, how)
    PROVE  DaemonInv(d)'
<1>1. pc'[d] = how /\ request'[d] = "none" /\ load'[d] = NoLoad
  BY DEF Ends, TypeOK, LoaderTypeOK, Daemons
<1> QED
  BY <1>1 DEF DaemonInv, LoadInv, RestoreInv, NoLoad, NotRunning

LEMMA StepKeepsDaemon ==
    ASSUME TypeOK, NEW d \in Daemons, DaemonInv(d), Step(d)
    PROVE  DaemonInv(d)'
<1> USE DEF Go, processVars, loaderVars
<1>0. LoaderTypeOK /\ d \in Loaders
  BY DEF TypeOK, Daemons
<1>1. ASSUME UNCHANGED <<load, versions, disk, request, runtime>>,
             pc'[d] # "serving" \/ pc'[d] = pc[d]
      PROVE  DaemonInv(d)'
  BY <1>1 DEF DaemonInv, LoadInv, RestoreInv, Mergeable, Loadable
<1>2. CASE Start(d) \/ Attach(d) \/ OpenReader(d) \/ RemoveStaleSocket(d) \/ Listen(d)
  BY <1>1, <1>2 DEF Start, Attach, OpenReader, RemoveStaleSocket, Listen, TypeOK
<1>3. CASE AttachFails(d)
  <2>1. CASE Ends(d, "killed")
    BY <2>1, EndsKeepsDaemon DEF NotRunning
  <2>2. CASE ~ Ends(d, "killed")
    BY <1>1, <1>3, <2>2 DEF AttachFails
  <2> QED
    BY <2>1, <2>2
<1>4. CASE AddressInUse(d) \/ ReadPanics(d) \/ Return(d) \/ Killed(d)
  BY <1>4, EndsKeepsDaemon DEF AddressInUse, ReadPanics, Return, Killed, NotRunning
<1>5. CASE BeginReload(d)
  <2>1. LoadInv(d)'
    BY <1>0, <1>5, ReadDirKeepsLoad DEF BeginReload
  <2>2. request'[d] = "busy"
    BY <1>5 DEF BeginReload, TypeOK
  <2> QED
    BY <2>1, <2>2 DEF DaemonInv, RestoreInv
<1>6. CASE GoOnLoading(d)
  <2>1. LoadInv(d)'
    BY <1>0, <1>6, StepKeepsLoad DEF GoOnLoading, DaemonInv
  <2>2. load[d].pc = "files" /\ UNCHANGED <<pc, request, runtime>>
    BY <1>6 DEF GoOnLoading, LoadStep, ReadFile, ReadFileFails, Merge, NextFile
  <2> QED
    BY <2>1, <2>2 DEF DaemonInv, RestoreInv
<1>7. CASE LoadRefused(d) \/ Install(d) \/ InstallFails(d)
  <2>1. /\ UNCHANGED <<load, versions, disk, pc>>
        /\ request'[d] # "none"
        /\ request'[d] = "installed" => load[d].pc = "loaded" /\ runtime'[d] = load[d].parts
        /\ request'[d] = "failed" => load[d].pc = "failed"
    BY <1>7 DEF LoadRefused, Install, InstallFails, TypeOK
  <2> QED
    BY <2>1 DEF DaemonInv, LoadInv, RestoreInv, Mergeable, Loadable
<1>8. CASE Serve(d)
  <2>1. UNCHANGED <<load, versions, disk, request, runtime>> /\ request[d] # "none"
    BY <1>8 DEF Serve
  <2> QED
    BY <2>1 DEF DaemonInv, LoadInv, RestoreInv, Mergeable, Loadable
<1>9. CASE ReadEvent(d) \/ ReadClosed(d) \/ ReadNext(d)
  BY <1>1, <1>9 DEF ReadEvent, ReadClosed, ReadNext
<1>10. CASE Stop(d) \/ StopReading(d) \/ Shutdown(d) \/ Drained(d) \/ DrainTimeout(d)
  BY <1>1, <1>10 DEF Stop, StopReading, Shutdown, Drained, DrainTimeout, TypeOK
<1>11. CASE Unlink(d) \/ CloseRuntime(d) \/ Detach(d)
  BY <1>1, <1>11 DEF Unlink, CloseRuntime, Detach, TypeOK
<1> QED
  BY <1>2, <1>3, <1>4, <1>5, <1>6, <1>7, <1>8, <1>9, <1>10, <1>11 DEF Step, Closing

LEMMA NextKeepsDaemon ==
    ASSUME TypeOK, [Next]_vars, NEW d \in Daemons, DaemonInv(d)
    PROVE  DaemonInv(d)'
<1>0. LoaderTypeOK /\ d \in Loaders
  BY DEF TypeOK, Daemons
<1>1. CASE Edit /\ UNCHANGED <<pc, processVars, socket, overlapped>>
  <2>1. LoadInv(d)'
    BY <1>0, <1>1, EditKeepsLoad DEF DaemonInv
  <2>2. load' = load
    BY <1>1 DEF Edit, Save, Remove, Rename, ChangeTo
  <2> QED
    BY <1>1, <2>1, <2>2 DEF DaemonInv, RestoreInv, processVars
<1>2. CASE UNCHANGED vars
  BY <1>2 DEF DaemonInv, LoadInv, RestoreInv, Mergeable, Loadable, vars, loaderVars, processVars
<1>3. CASE \E e \in Daemons : Step(e)
  <2> PICK e \in Daemons : Step(e)
    BY <1>3
  <2>1. CASE e = d
    BY <2>1, StepKeepsDaemon
  <2>2. CASE e # d
    <3>1. Untouched(d) /\ disk' = disk
      BY <2>2, OthersUntouched
    <3> QED
      BY <3>1 DEF Untouched, DaemonInv, LoadInv, RestoreInv, Mergeable, Loadable
  <2> QED
    BY <2>1, <2>2
<1> QED
  BY <1>1, <1>2, <1>3 DEF Next

LEMMA DaemonsLoad == (\A d \in Daemons : DaemonInv(d)) => LoadedFromDisk
BY DEF DaemonInv, LoadInv, LoadedFromDisk, Loadable, Daemons

LEMMA DaemonsRestore == TypeOK /\ (\A d \in Daemons : DaemonInv(d)) => RestoredFromDisk
<1> SUFFICES ASSUME TypeOK, NEW d \in Daemons, DaemonInv(d),
                    pc[d] = "serving", request[d] # "busy"
             PROVE  /\ request[d] # "none"
                    /\ (\A n \in Names : versions[d][n] = {disk[n]}) /\ Loadable(disk) =>
                          request[d] = "unapplied" \/ runtime[d] = disk
  BY DEF RestoredFromDisk
<1>1. request[d] # "none" /\ request[d] \in {"installed", "failed", "unapplied"}
  BY DEF DaemonInv, RestoreInv, TypeOK
<1>2. ASSUME request[d] = "installed", \A n \in Names : versions[d][n] = {disk[n]}
      PROVE  runtime[d] = disk
  <2>1. runtime[d] = load[d].parts /\ runtime[d] \in Files /\ disk \in Files
    BY <1>2 DEF DaemonInv, RestoreInv, TypeOK, LoaderTypeOK
  <2>2. \A n \in Names : load[d].parts[n] \in versions[d][n]
    BY <1>2 DEF DaemonInv, RestoreInv, LoadInv
  <2> QED
    BY <1>2, <2>1, <2>2 DEF Files
<1> QED
  BY <1>1, <1>2 DEF DaemonInv, RestoreInv, LoadInv

LEMMA DaemonInvInductive ==
    /\ Init => \A d \in Daemons : DaemonInv(d)
    /\ TypeOK /\ [Next]_vars /\ (\A d \in Daemons : DaemonInv(d)) =>
          (\A d \in Daemons : DaemonInv(d))'
<1>1. ASSUME Init, NEW d \in Daemons PROVE DaemonInv(d)
  BY <1>1 DEF Init, LoaderInit, DaemonInv, LoadInv, RestoreInv, NoLoad, Daemons
<1> QED
  BY <1>1, NextKeepsDaemon

(* Whatever is done to the files while they are read, however many daemons  *)
(* read them (loader.go:43-84).                                             *)
THEOREM LoadsAreFromDisk == Spec => []LoadedFromDisk
<1> DEFINE IInv == TypeOK /\ \A d \in Daemons : DaemonInv(d)
<1>1. Init => IInv
  BY InitTypes, DaemonInvInductive
<1>2. IInv /\ [Next]_vars => IInv'
  BY NextTypes, DaemonInvInductive
<1> QED
  BY <1>1, <1>2, DaemonsLoad, PTL DEF Spec

(* However earlier daemons ended, and whatever fails (main.go:82-105).      *)
THEOREM RuntimeIsRestored == Spec => []RestoredFromDisk
<1> DEFINE IInv == TypeOK /\ \A d \in Daemons : DaemonInv(d)
<1>1. Init => IInv
  BY InitTypes, DaemonInvInductive
<1>2. IInv /\ [Next]_vars => IInv'
  BY NextTypes, DaemonInvInductive
<1> QED
  BY <1>1, <1>2, DaemonsRestore, PTL DEF Spec

-----------------------------------------------------------------------------
(* The socket's path *)

Lone(d) == d \notin overlapped

Closed == {"draining", "unlink", "close", "detach", "ended", "panicked"}

SocketInv(d) ==
    /\ Lone(d) /\ Alive(d) => \A e \in Daemons \ {d} : ~ Alive(e)
    /\ Lone(d) /\ pc[d] = "listen" => socket = None
    /\ Lone(d) => pc[d] # "refused"
    /\ Lone(d) /\ pc[d] \in Listening => socket = d
    /\ pc[d] \in Closed => socket # d
    /\ reader[d] = "nil" => pc[d] = "detach"

(* A step of a process that runs, or of one that starts none beside it.     *)
LEMMA OwnStep ==
    ASSUME TypeOK, NEW d \in Daemons, SocketInv(d), overlapped' = overlapped,
           Alive(d), \A e \in Daemons \ {d} : pc'[e] = pc[e],
           Lone(d) /\ pc'[d] = "listen" => socket' = None,
           Lone(d) => pc'[d] # "refused",
           Lone(d) /\ pc'[d] \in Listening => socket' = d,
           pc'[d] \in Closed => socket' # d,
           reader'[d] = "nil" => pc'[d] = "detach"
    PROVE  SocketInv(d)'
BY DEF SocketInv, Lone, Alive

LEMMA EndsKeepsSocket ==
    ASSUME TypeOK, NEW d \in Daemons, SocketInv(d), NEW how \in NotRunning, Ends(d, how),
           UNCHANGED <<socket, overlapped>>, Alive(d),
           how \in Closed => pc[d] \in Closed, how = "refused" => ~ Lone(d)
    PROVE  SocketInv(d)'
<1>1. pc'[d] = how /\ reader'[d] = "none" /\ how \notin Listening \cup {"listen"}
  BY DEF Ends, TypeOK, NotRunning, Listening
<1>2. \A e \in Daemons \ {d} : pc'[e] = pc[e]
  BY DEF Ends, TypeOK
<1> QED
  BY <1>1, <1>2, OwnStep DEF SocketInv

LEMMA StepKeepsSocket ==
    ASSUME TypeOK, NEW d \in Daemons, SocketInv(d), Step(d)
    PROVE  SocketInv(d)'
<1> USE DEF Go, processVars, loaderVars
<1>0. None \notin Daemons
  BY DaemonsAssumption
<1>1. ASSUME UNCHANGED <<pc, reader, socket, overlapped>> PROVE SocketInv(d)'
  BY <1>1 DEF SocketInv, Lone, Alive
<1>2. CASE Start(d)
  <2>1. pc'[d] = "attach" /\ reader' = reader /\ reader[d] # "nil"
    BY <1>2 DEF Start, TypeOK, SocketInv
  <2>2. d \notin overlapped' => \A e \in Daemons \ {d} : ~ Alive(e) /\ pc'[e] = pc[e]
    BY <1>2 DEF Start, TypeOK
  <2> QED
    BY <2>1, <2>2 DEF SocketInv, Lone, Alive, Listening, Closed
<1>3. CASE Attach(d) \/ BeginReload(d) \/ GoOnLoading(d) \/ LoadRefused(d) \/ Install(d)
           \/ InstallFails(d)
  BY <1>1, <1>3 DEF Attach, BeginReload, GoOnLoading, LoadRefused, Install, InstallFails
<1>4. CASE AttachFails(d)
  <2>1. CASE Ends(d, "killed")
    BY <1>4, <2>1, EndsKeepsSocket DEF AttachFails, NotRunning, Alive, Closed
  <2>2. CASE ~ Ends(d, "killed")
    BY <1>1, <1>4, <2>2 DEF AttachFails
  <2> QED
    BY <2>1, <2>2
<1>5. CASE ReadEvent(d) \/ ReadClosed(d) \/ ReadNext(d) \/ Detach(d)
  BY <1>1, <1>5 DEF ReadEvent, ReadClosed, ReadNext, Detach
<1>6. CASE ReadPanics(d)
  BY <1>6, EndsKeepsSocket DEF ReadPanics, SocketInv, NotRunning, Alive, Closed
<1>7. CASE Return(d) \/ Killed(d)
  BY <1>7, EndsKeepsSocket DEF Return, Killed, NotRunning, Alive, Closed
<1>8. CASE AddressInUse(d)
  BY <1>8, EndsKeepsSocket DEF AddressInUse, SocketInv, NotRunning, Alive, Closed
<1>9. CASE OpenReader(d) \/ RemoveStaleSocket(d) \/ Listen(d) \/ Serve(d)
  <2>1. /\ Alive(d) /\ overlapped' = overlapped /\ \A e \in Daemons \ {d} : pc'[e] = pc[e]
        /\ pc'[d] \notin Closed /\ pc'[d] # "refused" /\ reader'[d] # "nil"
    BY <1>9 DEF OpenReader, RemoveStaleSocket, Listen, Serve, TypeOK, SocketInv, Alive,
                NotRunning, Closed
  <2>2. /\ pc'[d] = "listen" => socket' = None
        /\ Lone(d) /\ pc'[d] \in Listening => socket' = d
    BY <1>9 DEF OpenReader, RemoveStaleSocket, Listen, Serve, TypeOK, SocketInv, Listening
  <2> QED
    BY <2>1, <2>2, OwnStep
<1>10. CASE Stop(d) \/ StopReading(d) \/ Shutdown(d) \/ Drained(d) \/ DrainTimeout(d)
            \/ Unlink(d) \/ CloseRuntime(d)
  <2> USE DEF Stop, StopReading, Shutdown, Drained, DrainTimeout, Unlink, CloseRuntime
  <2>1. /\ Alive(d) /\ overlapped' = overlapped /\ \A e \in Daemons \ {d} : pc'[e] = pc[e]
        /\ pc'[d] # "refused" /\ pc'[d] # "listen"
    BY <1>10 DEF TypeOK, Alive, NotRunning
  <2>2. reader'[d] = "nil" => pc'[d] = "detach"
    BY <1>10 DEF TypeOK, SocketInv
  <2>3. pc'[d] \in Listening => pc[d] \in Listening /\ socket' = socket
    BY <1>10 DEF TypeOK, Listening
  <2>4. pc'[d] \in Closed => socket' = None \/ (pc[d] \in Closed /\ socket' = socket)
    BY <1>10 DEF TypeOK, Closed
  <2> QED
    BY <1>0, <2>1, <2>2, <2>3, <2>4, OwnStep DEF SocketInv
<1> QED
  BY <1>2, <1>3, <1>4, <1>5, <1>6, <1>7, <1>8, <1>9, <1>10 DEF Step, Closing

(* What a step of one process does to the path and to who is alone.         *)
LEMMA StepAround ==
    ASSUME TypeOK, NEW e \in Daemons, SocketInv(e), Step(e), NEW d \in Daemons, d # e
    PROVE  /\ overlapped \subseteq overlapped'
           /\ Alive(d) /\ d \notin overlapped' => Alive(e) \/ (~ Alive(e)' /\ socket' = socket)
           /\ socket' \in {socket, None, e}
<1> USE DEF Go, processVars, loaderVars
<1>1. CASE Start(e)
  BY <1>1 DEF Start
<1>2. CASE AttachFails(e) \/ AddressInUse(e) \/ ReadPanics(e) \/ Return(e) \/ Killed(e)
  BY <1>2 DEF AttachFails, AddressInUse, ReadPanics, Return, Killed, SocketInv, Alive, NotRunning
<1>3. CASE Attach(e) \/ OpenReader(e) \/ RemoveStaleSocket(e) \/ Listen(e) \/ Serve(e)
  BY <1>3 DEF Attach, OpenReader, RemoveStaleSocket, Listen, Serve, Alive, NotRunning
<1>4. CASE BeginReload(e) \/ GoOnLoading(e) \/ LoadRefused(e) \/ Install(e) \/ InstallFails(e)
           \/ ReadEvent(e) \/ ReadClosed(e) \/ ReadNext(e)
  BY <1>4 DEF BeginReload, GoOnLoading, LoadRefused, Install, InstallFails, ReadEvent,
              ReadClosed, ReadNext, Alive
<1>5. CASE Stop(e) \/ Closing(e)
  BY <1>5 DEF Stop, Closing, StopReading, Shutdown, Drained, DrainTimeout, Unlink,
              CloseRuntime, Detach, Return, Alive, NotRunning
<1> QED
  BY <1>1, <1>2, <1>3, <1>4, <1>5 DEF Step

LEMMA NextKeepsSocket ==
    ASSUME TypeOK, [Next]_vars, \A e \in Daemons : SocketInv(e), NEW d \in Daemons
    PROVE  SocketInv(d)'
<1>1. CASE UNCHANGED <<pc, processVars, socket, overlapped>>
  BY <1>1 DEF SocketInv, Lone, Alive, processVars
<1>2. CASE \E e \in Daemons : Step(e)
  <2> PICK e \in Daemons : Step(e)
    BY <1>2
  <2>1. CASE e = d
    BY <2>1, StepKeepsSocket
  <2>2. CASE e # d
    <3>1. pc'[d] = pc[d] /\ reader'[d] = reader[d]
      BY <2>2, OthersUntouched DEF Untouched
    <3>2. /\ overlapped \subseteq overlapped'
          /\ Alive(d) /\ d \notin overlapped' => Alive(e) \/ (~ Alive(e)' /\ socket' = socket)
          /\ socket' \in {socket, None, e}
      BY <2>2, StepAround
    <3>3. \A f \in Daemons \ {d, e} : pc'[f] = pc[f]
      BY OthersUntouched DEF Untouched
    <3>4. Lone(d)' => Lone(d)
      BY <3>2 DEF Lone
    <3>5. Lone(d)' /\ Alive(d) => ~ Alive(e)' /\ socket' = socket
      BY <2>2, <3>2, <3>4 DEF SocketInv, Lone
    <3>6. Lone(d)' /\ Alive(d)' => \A f \in Daemons \ {d} : ~ Alive(f)'
      BY <2>2, <3>1, <3>3, <3>4, <3>5 DEF SocketInv, Alive
    <3>7. pc[d] \in Closed => socket' # d
      BY <2>2, <3>2, DaemonsAssumption DEF SocketInv
    <3>8. pc[d] = "listen" \/ pc[d] \in Listening => Alive(d)
      BY DEF Alive, NotRunning, Listening
    <3>9. /\ Lone(d)' /\ pc'[d] = "listen" => socket' = None
          /\ Lone(d)' /\ pc'[d] \in Listening => socket' = d
          /\ Lone(d)' => pc'[d] # "refused"
      BY <3>1, <3>4, <3>5, <3>8 DEF SocketInv
    <3> QED
      BY <3>1, <3>6, <3>7, <3>9 DEF SocketInv
  <2> QED
    BY <2>1, <2>2
<1> QED
  BY <1>1, <1>2 DEF Next, vars

(* Whatever earlier daemons left at the socket's path, and whichever of     *)
(* them ran at once with others (main.go:69-80, 122).                       *)
THEOREM SocketIsFollowed == Spec => []SocketFollowsDaemon
<1> DEFINE IInv == TypeOK /\ \A d \in Daemons : SocketInv(d)
<1>1. Init => IInv
  BY InitTypes DEF Init, SocketInv, Lone, Alive, NotRunning, Listening, Closed
<1>2. IInv /\ [Next]_vars => IInv'
  BY NextTypes, NextKeepsSocket
<1>3. IInv => SocketFollowsDaemon
  BY DEF SocketInv, SocketFollowsDaemon, Lone, Closed
<1> QED
  BY <1>1, <1>2, <1>3, PTL DEF Spec

-----------------------------------------------------------------------------
(* The end of a daemon *)

ToldToEnd == {"stopping", "shutdown", "draining", "unlink", "close", "detach"}

(* The steps from there to main's return: no more than these are left. *)
StepsToEnd(d) ==
    CASE pc[d] = "stopping" -> 16
      [] pc[d] = "shutdown" -> 15
      [] pc[d] = "draining" -> 14
      [] pc[d] = "unlink" -> 13
      [] pc[d] = "close" -> 12
      [] pc[d] = "detach" -> Cardinality(links[d]) + 1
      [] OTHER -> 0

LEMMA LinksCounted ==
    ASSUME NEW L \in SUBSET (1..Len(Programs))
    PROVE  IsFiniteSet(L) /\ Cardinality(L) \in 0..9
<1>1. IsFiniteSet(1..9) /\ Cardinality(1..9) = 9
  <2>1. \A b \in Int : /\ IsFiniteSet(1..b)
                        /\ Cardinality(1..b) = IF 1 > b THEN 0 ELSE b - 1 + 1
    BY FS_Interval
  <2>2. 9 \in Int
    OBVIOUS
  <2>3. IsFiniteSet(1..9) /\ Cardinality(1..9) = IF 1 > 9 THEN 0 ELSE 9 - 1 + 1
    BY <2>1, <2>2, Zenon
  <2> QED
    BY <2>3
<1>2. L \in SUBSET (1..9)
  BY ProgramsAre
<1>3. IsFiniteSet(L) /\ Cardinality(L) <= 9
  BY <1>1, <1>2, FS_Subset
<1>4. Cardinality(L) \in Nat
  BY <1>3, FS_CardinalityType
<1> QED
  BY <1>3, <1>4

LEMMA StepsToEndBounded ==
    ASSUME TypeOK, NEW d \in Daemons
    PROVE  StepsToEnd(d) \in 0..16 /\ (pc[d] \in ToldToEnd <=> StepsToEnd(d) > 0)
<1>1. Cardinality(links[d]) \in 0..9
  BY LinksCounted DEF TypeOK
<1> QED
  BY <1>1 DEF StepsToEnd, ToldToEnd

LEMMA ClosingDescends ==
    ASSUME TypeOK, TypeOK', NEW d \in Daemons, pc[d] \in ToldToEnd, Closing(d)
    PROVE  pc'[d] \in ToldToEnd \cup NotRunning /\ StepsToEnd(d)' < StepsToEnd(d)
<1>1. /\ pc \in [Daemons -> NotRunning \cup Listening \cup
                {"attach", "remove", "listen", "draining", "unlink", "close", "detach"}]
      /\ links[d] \in SUBSET (1..Len(Programs)) /\ links'[d] \in SUBSET (1..Len(Programs))
      /\ links \in [Daemons -> SUBSET (1..Len(Programs))]
  BY DEF TypeOK
<1>2. Cardinality(links[d]) \in 0..9 /\ Cardinality(links'[d]) \in 0..9
  BY <1>1, LinksCounted
<1>3. CASE StopReading(d) \/ Shutdown(d) \/ Drained(d) \/ DrainTimeout(d) \/ Unlink(d)
           \/ CloseRuntime(d)
  BY <1>1, <1>2, <1>3 DEF StopReading, Shutdown, Drained, DrainTimeout, Unlink, CloseRuntime, Go,
                          StepsToEnd, ToldToEnd
<1>4. CASE Detach(d)
  <2>1. PICK first \in links[d] : links' = [links EXCEPT ![d] = @ \ {first}]
    BY <1>4 DEF Detach
  <2>2. pc[d] = "detach" /\ pc'[d] = "detach"
    BY <1>4 DEF Detach
  <2>3. links'[d] = links[d] \ {first}
    BY <1>1, <2>1
  <2>4. Cardinality(links'[d]) = Cardinality(links[d]) - 1
    BY <1>1, <2>3, LinksCounted, FS_RemoveElement
  <2> QED
    BY <1>2, <2>2, <2>4 DEF StepsToEnd, ToldToEnd
<1>5. CASE Return(d)
  <2>1. pc'[d] = "ended" /\ pc[d] = "detach"
    BY <1>1, <1>5 DEF Return, Ends
  <2> QED
    BY <1>2, <2>1 DEF StepsToEnd, ToldToEnd, NotRunning
<1> QED
  BY <1>3, <1>4, <1>5 DEF Closing

LEMMA StepNoHigher ==
    ASSUME TypeOK, TypeOK', NEW d \in Daemons, pc[d] \in ToldToEnd, [Next]_vars
    PROVE  pc'[d] \in ToldToEnd \cup NotRunning /\ StepsToEnd(d)' <= StepsToEnd(d)
<1> DEFINE Goal == pc'[d] \in ToldToEnd \cup NotRunning /\ StepsToEnd(d)' <= StepsToEnd(d)
<1>1. StepsToEnd(d) \in 0..16 /\ StepsToEnd(d)' \in 0..16
  <2>1. Cardinality(links[d]) \in 0..9 /\ Cardinality(links'[d]) \in 0..9
    BY LinksCounted DEF TypeOK
  <2> QED
    BY <2>1 DEF StepsToEnd
<1>2. ASSUME pc'[d] = pc[d], links'[d] = links[d] PROVE Goal
  BY <1>1, <1>2 DEF StepsToEnd
<1>3. ASSUME pc'[d] \in NotRunning PROVE Goal
  BY <1>1, <1>3 DEF StepsToEnd, NotRunning
<1>4. ASSUME NEW e \in Daemons, Step(e), e # d PROVE Goal
  BY <1>2, <1>4, OthersUntouched DEF Untouched
<1>5. ASSUME Step(d) PROVE Goal
  <2>1. CASE Closing(d)
    <3>1. pc'[d] \in ToldToEnd \cup NotRunning /\ StepsToEnd(d)' < StepsToEnd(d)
      BY <2>1, ClosingDescends
    <3> QED
      BY <1>1, <3>1
  <2> USE DEF TypeOK, ToldToEnd
  <2>2. CASE Killed(d) \/ ReadPanics(d)
    BY <1>3, <2>2 DEF Killed, ReadPanics, Ends, NotRunning
  <2>3. CASE BeginReload(d) \/ GoOnLoading(d) \/ LoadRefused(d) \/ Install(d) \/ InstallFails(d)
    BY <1>2, <2>3 DEF BeginReload, GoOnLoading, LoadRefused, Install, InstallFails, processVars
  <2>4. CASE ReadEvent(d) \/ ReadClosed(d) \/ ReadNext(d)
    BY <1>2, <2>4 DEF ReadEvent, ReadClosed, ReadNext
  <2>5. CASE Start(d) \/ Attach(d) \/ AttachFails(d) \/ OpenReader(d) \/ RemoveStaleSocket(d)
             \/ Listen(d) \/ AddressInUse(d) \/ Serve(d) \/ Stop(d)
    BY <2>5 DEF Start, Attach, AttachFails, OpenReader, RemoveStaleSocket, Listen, AddressInUse,
                Serve, Stop, Go
  <2> QED
    BY <1>5, <2>1, <2>2, <2>3, <2>4, <2>5 DEF Step
<1>6. ASSUME UNCHANGED <<pc, links>> PROVE Goal
  BY <1>2, <1>6
<1> QED
  BY <1>4, <1>5, <1>6 DEF Next, vars, processVars

(* A daemon that is told to end is never turned back, and is nearer to its   *)
(* end with every step of its shutdown, whatever requests, events, signals   *)
(* and other daemons come between: sixteen steps are the most that are left  *)
(* (main.go:120-124, runtime.go:95-143).                                     *)
ShutdownDescends ==
    /\ [](\A d \in Daemons : StepsToEnd(d) \in 0..16)
    /\ [][\A d \in Daemons : pc[d] \in ToldToEnd =>
            /\ pc'[d] \in ToldToEnd \cup NotRunning
            /\ StepsToEnd(d)' <= StepsToEnd(d)
            /\ Closing(d) => StepsToEnd(d)' < StepsToEnd(d)]_vars

(* So a shutdown can only stand still, never turn round or run in a circle:  *)
(* what ShutdownEnds adds is that main is scheduled.                         *)
THEOREM ShutdownsAreBounded == Spec => ShutdownDescends
<1>1. Init => TypeOK
  BY InitTypes
<1>2. TypeOK /\ [Next]_vars => TypeOK'
  BY NextTypes
<1>3. TypeOK => \A d \in Daemons : StepsToEnd(d) \in 0..16
  BY StepsToEndBounded
<1>4. ASSUME TypeOK, TypeOK', [Next]_vars
      PROVE  [\A d \in Daemons : pc[d] \in ToldToEnd =>
                /\ pc'[d] \in ToldToEnd \cup NotRunning
                /\ StepsToEnd(d)' <= StepsToEnd(d)
                /\ Closing(d) => StepsToEnd(d)' < StepsToEnd(d)]_vars
  BY <1>4, ClosingDescends, StepNoHigher
<1> QED
  BY <1>1, <1>2, <1>3, <1>4, PTL DEF Spec, ShutdownDescends

=============================================================================
