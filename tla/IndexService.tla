---------------------------- MODULE IndexService ----------------------------
(***************************************************************************)
(* What the index manager promises the search threads, without its slots,  *)
(* counters and program counters: there is at most one current index, it   *)
(* is a complete one, and a thread that takes it may use it until it gives *)
(* it back; nobody destroys an index while it is current or taken.         *)
(*                                                                         *)
(* The promise is not absolute: it may lapse, and then nothing is promised *)
(* any more.  IndexManager.tla implements this specification with a lapse  *)
(* at the first search that is not counted, or is counted too late.        *)
(***************************************************************************)
CONSTANTS
  Threads,   \* search threads
  Objects,   \* addresses an IndexData object can have
  None       \* no index, not one of Objects

VARIABLES
  current,   \* the index new searches take
  held,      \* held[t]: the index thread t has taken
  live,      \* the objects that exist
  complete,  \* those of them that are completely loaded
  lapsed     \* the promise is void

vars == <<current, held, live, complete, lapsed>>

Init ==
  /\ current = None
  /\ held = [t \in Threads |-> None]
  /\ live = {}
  /\ complete = {}
  /\ lapsed = FALSE

Create(o) ==
  /\ o \notin live
  /\ live' = live \cup {o}
  /\ UNCHANGED <<current, held, complete>>

Complete(o) ==
  /\ o \in live \ complete
  /\ complete' = complete \cup {o}
  /\ UNCHANGED <<current, held, live>>

Publish(o) ==
  /\ o \in complete
  /\ o # current
  /\ current' = o
  /\ UNCHANGED <<held, live, complete>>

(* An object is destroyed only when it is neither current nor taken. *)
Retire(o) ==
  /\ o \in live
  /\ o # current
  /\ \A t \in Threads : held[t] # o
  /\ live' = live \ {o}
  /\ complete' = complete \ {o}
  /\ UNCHANGED <<current, held>>

Take(t) ==
  /\ held[t] = None
  /\ current # None
  /\ held' = [held EXCEPT ![t] = current]
  /\ UNCHANGED <<current, live, complete>>

Release(t) ==
  /\ held[t] # None
  /\ held' = [held EXCEPT ![t] = None]
  /\ UNCHANGED <<current, live, complete>>

Keep ==
  /\ ~lapsed
  /\ ~lapsed'
  /\ \/ \E o \in Objects : Create(o) \/ Complete(o) \/ Publish(o) \/ Retire(o)
     \/ \E t \in Threads : Take(t) \/ Release(t)

(* From here on everything may happen, but the promise does not return. *)
Lapse == lapsed'

Next == Keep \/ Lapse

Spec == Init /\ [][Next]_vars

(***************************************************************************)
(* The guarantee: until the promise lapses the current index and every     *)
(* index a thread has taken exist and are complete.                        *)
(***************************************************************************)
Guarantee ==
  ~lapsed => /\ complete \subseteq live
             /\ current # None => current \in complete
             /\ \A t \in Threads : held[t] # None => held[t] \in complete
=============================================================================
