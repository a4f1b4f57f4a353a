---------------------------- MODULE MCScanBuffer ----------------------------
(***************************************************************************)
(* Buffers of seven bytes of which five are scanned, two to a program:     *)
(* texts that overlap themselves and each other, replacements that would   *)
(* match again, and one text as long as its field.  b is also the NUL, so  *)
(* that what is left of that one can be met.                               *)
(***************************************************************************)
EXTENDS ScanBuffer

CONSTANTS a, b

MCTexts == {[find |-> <<a, a>>, replace |-> <<b, a>>],
            [find |-> <<b>>, replace |-> <<a>>],
            [find |-> <<a, b, a>>, replace |-> <<a, a, b>>],
            [find |-> <<a, a, b, a>>, replace |-> <<b, a, b, a>>]}
=============================================================================
