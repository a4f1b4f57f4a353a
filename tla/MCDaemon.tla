------------------------------ MODULE MCDaemon ------------------------------
(***************************************************************************)
(* Two daemons, one after the other or both at once, and two files of      *)
(* which each may hold one rule, another rule, or a broken save.           *)
(***************************************************************************)
EXTENDS Daemon

CONSTANTS x, y, torn

MCDaemons == 1..2
MCNames == 1..2

(* One of each kind: no file, one, two, two with one id, and a broken one   *)
(* before or after a valid one.  x and y are alike.                         *)
MCFilesAtFirst ==
    {<<None, None>>, <<x, None>>, <<x, y>>, <<x, x>>, <<torn, x>>, <<x, torn>>}
MCIdsOf == [content \in Contents |-> IF content = torn THEN {} ELSE {content}]
=============================================================================
