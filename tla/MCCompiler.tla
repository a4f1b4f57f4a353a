----------------------------- MODULE MCCompiler -----------------------------
(***************************************************************************)
(* Rulesets of up to three rules over two processes of one executable and  *)
(* one name, and an executable that does not run.                          *)
(***************************************************************************)
EXTENDS Compiler

CONSTANTS p, q, agent, bin, gone

MCIds == 1..3
MCPriorities == 1..2
MCExeOf == [pid \in Pids |-> bin]
MCCommOf == [pid \in Pids |-> agent]
=============================================================================
