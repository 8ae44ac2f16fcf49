------------------------------ MODULE MCServer ------------------------------
(* Two invocations of the signal handler: one that is lost, and one after. *)
EXTENDS Server

CONSTANTS h1, h2
=============================================================================
