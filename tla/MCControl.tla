------------------------------ MODULE MCControl ------------------------------
(***************************************************************************)
(* Small instances of the control plane: two processes, two process names, *)
(* and a few rulesets given by what they compile to in each process table. *)
(***************************************************************************)
EXTENDS ControlPlaneProperties

CONSTANTS p1, p2, c1, c2, hide, rewrite, v1, v2, byComm, byPid, byBoth, byExe

MCPidKeys == {p1, p2}
MCCommKeys == {c1, c2}
MCPolicies == {hide, rewrite}

Policy(keys, action) == [k \in {p1, p2, c1, c2} |-> IF k \in keys THEN action ELSE NoPolicy]

(* byComm names processes, byPid one process, byBoth uses both selectors; *)
(* byExe is an executable that is run by p1 in v1 and by p2 in v2.         *)
CompiledIn(rs, v) ==
    CASE rs = byComm -> Policy({c1}, hide)
      [] rs = byPid  -> Policy({p1}, rewrite)
      [] rs = byBoth -> [Policy({p2}, hide) EXCEPT ![c2] = rewrite]
      [] rs = byExe  -> Policy({IF v = v1 THEN p1 ELSE p2}, rewrite)

MCCompileOf == [rs \in Rulesets |-> [v \in Views |-> CompiledIn(rs, v)]]
=============================================================================
