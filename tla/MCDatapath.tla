----------------------------- MODULE MCDatapath -----------------------------
(***************************************************************************)
(* Small instances of the eBPF programs: two threads, of one process or of *)
(* two, two descriptors, the target path and another file.                 *)
(***************************************************************************)
EXTENDS Datapath, TLC

CONSTANTS P, Q, target, other, longer

MCFds == 3..4
(* longer stands for the target and for every path that begins with it and  *)
(* is too long to be copied whole: nothing else of a path is looked at.      *)
MCNames == {target, other}
MCCopied == [path \in Paths |-> IF path = longer THEN target ELSE path]
Rewrite(name) == [action |-> "rewrite", path |-> name]
Hide(name) == [action |-> "hide", path |-> name]
MCSymmetry == Permutations(Threads) \cup Permutations(Buffers) \cup Permutations(Procs)
TargetPolicies == {Hide(target), Rewrite(target)}
=============================================================================
