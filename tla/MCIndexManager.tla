--------------------------- MODULE MCIndexManager ---------------------------
(* Small instances of IndexManager: two search threads, two index          *)
(* directories; an object's address is a positive number.                  *)
EXTENDS IndexManager, TLC

CONSTANTS t1, t2, p1, p2

ThreadSymmetry == Permutations(Threads)

(* Everything but the history, for a run in which searches go on after     *)
(* every race and whose properties do not look at the races.               *)
NoHistory == <<slots, heap, files, upd, proc, wrk>>
=============================================================================
