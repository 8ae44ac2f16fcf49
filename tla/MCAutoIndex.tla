---------------------------- MODULE MCAutoIndex ----------------------------
(* Two processes execute run.sh. *)
EXTENDS AutoIndex

CONSTANTS r1, r2
=============================================================================
