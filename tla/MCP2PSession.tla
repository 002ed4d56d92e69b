---------------------------- MODULE MCP2PSession ----------------------------
(***************************************************************************)
(* P2PSession on instances small enough for TLC.  The two clients run the  *)
(* same program, so the safety runs treat them as interchangeable.         *)
(***************************************************************************)
EXTENDS P2PSession

Interchangeable == Permutations(Party)
=============================================================================
