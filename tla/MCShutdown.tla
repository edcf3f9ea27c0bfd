----------------------------- MODULE MCShutdown -----------------------------
(***************************************************************************)
(* A small instance of Shutdown for TLC: two listeners, one of them with   *)
(* two clients.                                                            *)
(***************************************************************************)
EXTENDS Shutdown

CONSTANTS mixed, v4, c1, c2, c3

MCOn == [c \in Conns |-> IF c = c3 THEN v4 ELSE mixed]
=============================================================================
