------------------------------- MODULE Loader -------------------------------
(***************************************************************************)
(* rules.LoadDir: the ruleset of rules.d, read file by file while files    *)
(* are saved, renamed and removed.  A file's content stands for what       *)
(* LoadFile makes of its bytes: rules, of which the ids matter here, or a  *)
(* refusal.  A save that truncates first is two saves.                     *)
(***************************************************************************)
EXTENDS Integers, FiniteSets

CONSTANTS
    Loaders,        \* processes, each with one load at a time
    Names,          \* the files' names: numbers, in the order of sort.Strings
    Contents,       \* what a file may hold
    Broken,         \* contents that do not parse or do not validate
    IdsOf,          \* content -> the ids of its rules
    None,           \* no such file
    FilesAtFirst,   \* what rules.d may hold at first
    MaxEdits        \* bound: changes of rules.d

ASSUME NamesAssumption == Names \subseteq Nat
ASSUME ContentsAssumption == None \notin Contents /\ Broken \subseteq Contents
ASSUME EditsAssumption == MaxEdits \in Nat

VARIABLES
    disk,           \* name -> content
    edits,          \* what is left of MaxEdits
    load,           \* per process: how far its load is, and what it has read
    versions        \* observer: the contents each file has had since the listing

loaderVars == <<disk, edits, load, versions>>

Files == [Names -> Contents \cup {None}]
NoFiles == [n \in Names |-> None]

ASSUME FilesAssumption == FilesAtFirst \subseteq Files

LoadState == [pc : {"idle", "files", "loaded", "failed"}, left : SUBSET Names, parts : Files]
NoVersions == [n \in Names |-> {}]
NoLoad == [pc |-> "idle", left |-> {}, parts |-> NoFiles]

(* ValidateRuleset of the merged rules: no id twice. *)
Mergeable(parts) ==
    \A n, m \in Names : n # m /\ parts[n] # None /\ parts[m] # None =>
        IdsOf[parts[n]] \cap IdsOf[parts[m]] = {}

Loadable(parts) == Mergeable(parts) /\ \A n \in Names : parts[n] \notin Broken

LoaderInit ==
    /\ disk \in FilesAtFirst
    /\ edits = MaxEdits
    /\ load = [c \in Loaders |-> NoLoad]
    /\ versions = [c \in Loaders |-> NoVersions]

(* os.ReadDir *)
ReadDir(c) ==
    /\ load[c].pc # "files"
    /\ load' = [load EXCEPT ![c] = [pc |-> "files", left |-> {n \in Names : disk[n] # None},
                                    parts |-> NoFiles]]
    /\ versions' = [versions EXCEPT ![c] = [n \in Names |-> {disk[n]}]]
    /\ UNCHANGED <<disk, edits>>

NextFile(c, n) ==
    /\ load[c].pc = "files"
    /\ n \in load[c].left
    /\ \A m \in load[c].left : n <= m

(* LoadFile *)
ReadFile(c) ==
    /\ \E n \in Names :
        /\ NextFile(c, n)
        /\ disk[n] \notin Broken \cup {None}
        /\ load' = [load EXCEPT ![c].left = @ \ {n}, ![c].parts[n] = disk[n]]
    /\ UNCHANGED <<disk, edits, versions>>

(* Mutant: a file that cannot be loaded is left out. *)
SkipFile(c) ==
    /\ \E n \in Names :
        /\ NextFile(c, n)
        /\ disk[n] \in Broken \cup {None}
        /\ load' = [load EXCEPT ![c].left = @ \ {n}]
    /\ UNCHANGED <<disk, edits, versions>>

(* The file is gone, or LoadFile refuses it: so does LoadDir. *)
ReadFileFails(c) ==
    /\ \E n \in Names : NextFile(c, n) /\ disk[n] \in Broken \cup {None}
    /\ load' = [load EXCEPT ![c].pc = "failed"]
    /\ UNCHANGED <<disk, edits, versions>>

(* Mutant: the merged ruleset is not validated. *)
MergeUnchecked(c) ==
    /\ load[c].pc = "files"
    /\ load[c].left = {}
    /\ load' = [load EXCEPT ![c].pc = "loaded"]
    /\ UNCHANGED <<disk, edits, versions>>

Merge(c) ==
    /\ load[c].pc = "files"
    /\ load[c].left = {}
    /\ load' = [load EXCEPT ![c].pc =
                   IF Mergeable(load[c].parts) THEN "loaded" ELSE "failed"]
    /\ UNCHANGED <<disk, edits, versions>>

LoadStep(c) == ReadFile(c) \/ ReadFileFails(c) \/ Merge(c)

-----------------------------------------------------------------------------
(* The administrator's files. *)

ChangeTo(files) ==
    /\ edits > 0
    /\ edits' = edits - 1
    /\ disk' = files
    /\ versions' = [c \in Loaders |-> IF load[c].pc = "idle" THEN versions[c]
                                     ELSE [n \in Names |-> versions[c][n] \cup {files[n]}]]
    /\ UNCHANGED load

Save(n) == \E content \in Contents : ChangeTo([disk EXCEPT ![n] = content])

Remove(n) == disk[n] # None /\ ChangeTo([disk EXCEPT ![n] = None])

Rename(n, m) ==
    /\ n # m
    /\ disk[n] # None
    /\ ChangeTo([disk EXCEPT ![n] = None, ![m] = disk[n]])

Edit == \E n, m \in Names : Save(n) \/ Remove(n) \/ Rename(n, m)

-----------------------------------------------------------------------------
(* Properties *)

LoaderTypeOK ==
    /\ disk \in Files
    /\ edits \in 0..MaxEdits
    /\ load \in [Loaders -> LoadState]
    /\ versions \in [Loaders -> [Names -> SUBSET (Contents \cup {None})]]

(* However files change while they are read: a ruleset that loads has of    *)
(* every file a content, whole and valid, that the file had during the      *)
(* load, or nothing of it if it then was missing; and it has no id twice.   *)
(* A load that nothing disturbs is refused only for what is on disk         *)
(* (loader.go:70-81).                                                       *)
LoadedFromDisk ==
    \A c \in Loaders :
        /\ load[c].pc = "loaded" =>
              /\ \A n \in Names : load[c].parts[n] \in versions[c][n]
              /\ Loadable(load[c].parts)
        /\ load[c].pc = "failed" /\ (\A n \in Names : versions[c][n] = {disk[n]}) =>
              ~ Loadable(disk)

=============================================================================
