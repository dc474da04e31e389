------------------------------- MODULE MCPty -------------------------------
(* Two terminals of small pipes: a screen of two units fills while a send  *)
(* of two waits for a keyboard pipe of one, and two retained units reach   *)
(* the limit with part of a chunk.                                         *)
EXTENDS Pty
===========================================================================
