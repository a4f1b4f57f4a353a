--------------------------- MODULE MCCommandLine ---------------------------
(***************************************************************************)
(* A few rulesets and command lines over three processes that start, end   *)
(* and run another executable.  policy_map has room for two of them.       *)
(***************************************************************************)
EXTENDS CommandLine

CONSTANTS p, q, r, cat, less, bin, tool, v1, v2, v3, byComm, byExe, byPid

MCPidKeys == {p, q, r}
MCCommKeys == {cat, less}
MCPolicies == {Hide, Rewrite}

(* p runs bin, then tool; q runs bin meanwhile, and last alone. *)
MCExeOf == [v \in Views |-> [pid \in {p, q, r} |->
    CASE pid = p /\ v = v1 -> bin
      [] pid = p /\ v = v2 -> tool
      [] pid = q /\ v # v1 -> bin
      [] OTHER -> None]]

Policy(keys, policy) ==
    [k \in {p, q, r, cat, less} |-> IF k \in keys THEN policy ELSE NoPolicy]

MCCompileOf == [rs \in Rulesets |-> [v \in Views |->
    CASE rs = byComm -> Policy({cat}, Hide)
      [] rs = byPid  -> Policy({p, q, r}, Rewrite)
      [] rs = byExe  -> [Policy({pid \in {p, q} : MCExeOf[v][pid] = bin}, Rewrite)
                             EXCEPT ![less] = Hide]]]

(* No flag but -path. *)
Plain == [rewritePid |-> r, explicit |-> FALSE, hidePid |-> None,
          rewriteComms |-> << >>, hideComms |-> << >>,
          rewriteExes |-> {}, hideExes |-> {}, text |-> "none"]

MCConfigs ==
    {Plain,
     [Plain EXCEPT !.text = "bad"],
     [Plain EXCEPT !.text = "ok"],
     [Plain EXCEPT !.text = "ok", !.rewriteComms = <<cat, less>>, !.hideComms = <<less>>],
     [Plain EXCEPT !.text = "ok", !.explicit = TRUE, !.rewritePid = None, !.rewriteExes = {bin}],
     [Plain EXCEPT !.text = "ok", !.rewriteExes = {bin}, !.hideExes = {tool}],
     [Plain EXCEPT !.text = "ok", !.rewriteExes = {bin}, !.hideExes = {bin}, !.hidePid = q],
     [Plain EXCEPT !.text = "ok", !.explicit = TRUE, !.rewritePid = p, !.rewriteExes = {bin}],
     [Plain EXCEPT !.hideExes = {bin}, !.hidePid = r]}
=============================================================================
