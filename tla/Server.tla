------------------------------- MODULE Server -------------------------------
(***************************************************************************)
(* The life of the search server's process: main (se/main.cpp), the        *)
(* start-up of its parts (SeService::init and the init of AS, BS and DA),  *)
(* NonBlockingServer::run and stop, and the signal handler, which may run  *)
(* between any two steps of main, on main's thread or on another one.      *)
(*                                                                         *)
(* The thrift library is external: stop() ends the event loop that is      *)
(* running; whether a stop() before the loop begins is remembered is left  *)
(* open.                                                                   *)
(***************************************************************************)
EXTENDS Integers

CONSTANT Handlers   \* bound: invocations of handle_signal

VARIABLES
  main,      \* where main is
  exit,      \* exit code, Running, or Killed by a signal or a NULL pointer
  file,      \* the files of the start-up
  gServer,   \* g_server is set
  server,    \* _server is set
  isStop,    \* _is_stop
  handler,   \* where each invocation of handle_signal is
  on,        \* the thread it runs on
  wedged,    \* a handler waits for a lock that the thread it interrupted holds
  breakLoop, \* library: the loop is to end
  early      \* history: the library's stop() was called before its loop ran

stopVars == <<isStop, breakLoop, early>>
handlerVars == <<handler, on, wedged>>
vars == <<main, exit, file, gServer, server, stopVars, handlerVars>>

(* What the start-up reads.  An "unreadable" file is one that fopen opens  *)
(* and fgets cannot read, a directory for example, or an index.conf whose  *)
(* index cannot be loaded; "missing" stands for every other failure of the *)
(* part that reads the file, except that a missing index.conf is none.     *)
Files == {"catalog_info", "index", "tag", "segment", "catalog"}
Kinds == {"good", "missing", "unreadable"}

Running == -1
Killed == -2

Init ==
  /\ main = "signals"
  /\ exit = Running
  /\ file \in [Files -> Kinds]
  /\ gServer = FALSE
  /\ server = FALSE
  /\ isStop = FALSE
  /\ handler = [h \in Handlers |-> "none"]
  /\ on = [h \in Handlers |-> "main"]
  /\ wedged = FALSE
  /\ breakLoop = FALSE
  /\ early = FALSE

Alive == exit = Running

(* A handler on main's thread comes before main. *)
At(p) ==
  /\ Alive
  /\ main = p
  /\ \A h \in Handlers : on[h] = "main" => handler[h] \in {"none", "left"}

Goto(p) == main' = p /\ UNCHANGED exit
Exit(code) == exit' = code /\ UNCHANGED main

-----------------------------------------------------------------------------
(***************************************************************************)
(* main and SeService::init                                                *)
(***************************************************************************)
SetSignals ==
  /\ At("signals")
  /\ Goto("new")
  /\ UNCHANGED <<file, gServer, server, stopVars, handlerVars>>

NewServer ==
  /\ At("new")
  /\ \/ gServer' = TRUE /\ Goto("as")
     \/ gServer' = FALSE /\ Exit(1)
  /\ UNCHANGED <<file, server, stopVars, handlerVars>>

(* Mutant of AsFails: a read error is not told from the end of the file.   *)
AsFails_UntilEof == file["catalog_info"] = "missing"

(* AS::init looks at feof only after fgets has failed. *)
AsFails == file["catalog_info"] # "good"

InitAs ==
  /\ At("as")
  /\ \/ file["catalog_info"] = "good" /\ Goto("index")
     \/ AsFails /\ Exit(2)
  /\ UNCHANGED <<file, gServer, server, stopVars, handlerVars>>

(* IndexManager::init: the first update(), which takes a missing conf file *)
(* for one that is served, then the switch thread.                         *)
InitIndex ==
  /\ At("index")
  /\ IF file["index"] = "unreadable" THEN Exit(2) ELSE Goto("tag")
  /\ UNCHANGED <<file, gServer, server, stopVars, handlerVars>>

(* TagDataReader::load: while (!feof(fp)).  Nothing gets an unreadable     *)
(* file to its end.                                                        *)
InitTags ==
  /\ At("tag")
  /\ \/ file["tag"] = "good" /\ Goto("segment")
     \/ file["tag"] = "missing" /\ Exit(2)
  /\ UNCHANGED <<file, gServer, server, stopVars, handlerVars>>

InitSegment ==
  /\ At("segment")
  /\ IF file["segment"] = "good" THEN Goto("catalog") ELSE Exit(2)
  /\ UNCHANGED <<file, gServer, server, stopVars, handlerVars>>

(* CatalogDataReader::load has the loop of TagDataReader::load. *)
InitCatalog ==
  /\ At("catalog")
  /\ \/ file["catalog"] = "good" /\ Goto("run")
     \/ file["catalog"] = "missing" /\ Exit(2)
  /\ UNCHANGED <<file, gServer, server, stopVars, handlerVars>>

-----------------------------------------------------------------------------
(***************************************************************************)
(* NonBlockingServer::run                                                  *)
(***************************************************************************)

(* Whatever run returns but 0, main returns 3. *)
RunFailed == 3

EnterRun ==
  /\ At("run")
  /\ IF isStop THEN Exit(RunFailed) ELSE Goto("create")
  /\ UNCHANGED <<file, gServer, server, stopVars, handlerVars>>

(* The library's constructors may throw. *)
Create ==
  /\ At("create")
  /\ \/ server' = TRUE /\ Goto("serve")
     \/ server' = FALSE /\ Exit(RunFailed)
  /\ UNCHANGED <<file, gServer, stopVars, handlerVars>>

(* serve() up to its loop: the port may be in use. *)
Serve ==
  /\ At("serve")
  /\ Goto("loop") \/ Exit(RunFailed)
  /\ UNCHANGED <<file, gServer, server, stopVars, handlerVars>>

LoopEnds ==
  /\ At("loop")
  /\ breakLoop
  /\ Exit(0)
  /\ UNCHANGED <<file, gServer, server, stopVars, handlerVars>>

Main == \/ SetSignals \/ NewServer \/ InitAs \/ InitIndex \/ InitTags
        \/ InitSegment \/ InitCatalog \/ EnterRun \/ Create \/ Serve \/ LoopEnds

-----------------------------------------------------------------------------
(***************************************************************************)
(* handle_signal and stop().  SIGINT and SIGQUIT do not block each other,  *)
(* and another thread may take a second signal: invocations interleave.    *)
(***************************************************************************)
HandlerAt(h, p) == Alive /\ handler[h] = p
HandlerGoto(h, p) == handler' = [handler EXCEPT ![h] = p]

(* The switch thread is the first other thread. *)
Threads ==
  IF main \in {"signals", "new", "as", "index"}
    THEN {"main"}
    ELSE {"main", "other"}

(* Before signal() was called, the signal ends the process.  The handler   *)
(* logs first, which takes the locks of glog and of malloc: on a thread    *)
(* that is inside LOG or malloc itself, as main is in the start-up and a   *)
(* search thread in every request, it waits for that thread for ever.      *)
Signal(h) ==
  /\ HandlerAt(h, "none")
  /\ IF main = "signals"
       THEN Exit(Killed) /\ UNCHANGED handlerVars
       ELSE /\ \E t \in Threads : on' = [on EXCEPT ![h] = t]
            /\ \/ HandlerGoto(h, "log") /\ UNCHANGED wedged
               \/ HandlerGoto(h, "stuck") /\ wedged' = TRUE
            /\ UNCHANGED <<main, exit>>
  /\ UNCHANGED <<file, gServer, server, stopVars>>

(* The first LOG of handle_signal. *)
LogBefore(h) ==
  /\ HandlerAt(h, "log")
  /\ HandlerGoto(h, "enter")
  /\ UNCHANGED <<main, exit, file, gServer, server, stopVars, on, wedged>>

(* g_server->stop(), a virtual call. *)
Enter(h) ==
  /\ HandlerAt(h, "enter")
  /\ IF gServer THEN HandlerGoto(h, "test") /\ UNCHANGED <<main, exit>>
                ELSE Exit(Killed) /\ UNCHANGED handler
  /\ UNCHANGED <<file, gServer, server, stopVars, on, wedged>>

(* Mutants of MayStop: _server is not looked at; the ! was lost.           *)
MayStop_AnyServer == ~isStop
MayStop_IsStop == isStop /\ server

MayStop == ~isStop /\ server

(* Mutant of Refused: _is_stop is set whatever the test says.              *)
Refused_Marks == "mark"

Refused == "over"

TestStop(h) ==
  /\ HandlerAt(h, "test")
  /\ HandlerGoto(h, IF MayStop THEN "call" ELSE Refused)
  /\ UNCHANGED <<main, exit, file, gServer, server, stopVars, on, wedged>>

(* External: the loop that runs will end; one that is still to run may. *)
LoopHears == IF main = "loop" THEN {TRUE} ELSE {breakLoop, TRUE}

(* _server->stop() *)
CallStop(h) ==
  /\ HandlerAt(h, "call")
  /\ IF server
       THEN /\ breakLoop' \in LoopHears
            /\ early' = (early \/ main # "loop")
            /\ HandlerGoto(h, "mark")
            /\ UNCHANGED <<main, exit>>
       ELSE Exit(Killed) /\ UNCHANGED <<breakLoop, early, handler>>
  /\ UNCHANGED <<file, gServer, server, isStop, on, wedged>>

MarkStopped(h) ==
  /\ HandlerAt(h, "mark")
  /\ isStop' = TRUE
  /\ HandlerGoto(h, "over")
  /\ UNCHANGED <<main, exit, file, gServer, server, breakLoop, early, on,
                 wedged>>

(* The last LOG of handle_signal, which then returns. *)
LogAfter(h) ==
  /\ HandlerAt(h, "over")
  /\ HandlerGoto(h, "left")
  /\ UNCHANGED <<main, exit, file, gServer, server, stopVars, on, wedged>>

Handle(h) == \/ LogBefore(h) \/ Enter(h) \/ TestStop(h) \/ CallStop(h)
             \/ MarkStopped(h) \/ LogAfter(h)

Next == Main \/ \E h \in Handlers : Signal(h) \/ Handle(h)

(* Threads run, and a lock that is held for a moment only is waited for;   *)
(* but once a lock is held for ever, any thread that logs may wait for it, *)
(* so that nobody need go on.  Nothing is assumed of whoever sends signals.*)
Fairness ==
  /\ WF_vars(~wedged /\ Main)
  /\ \A h \in Handlers : WF_vars(~wedged /\ Handle(h))

Spec == Init /\ [][Next]_vars /\ Fairness

-----------------------------------------------------------------------------
(* A signal ends the process at once only before handle_signal is set, and *)
(* by a NULL pointer only until g_server is (main.cpp:25-45); stop() does  *)
(* not call a server that is not there (l.127).                            *)
KilledOnlyEarly == exit = Killed => main \in {"signals", "new"}

(* stop() works once: what sets _is_stop has told the loop to end, unless  *)
(* it came between the creation of the server and its loop (l.105-129).    *)
DeafOnlyIfEarly == Alive /\ main = "loop" /\ isStop => breakLoop \/ early

(* A signal that finds the loop running ends the process, on whatever      *)
(* thread it is handled and whatever other signals come, with two          *)
(* exceptions: a stop was lost before the loop, when _is_stop makes the    *)
(* server deaf for good, or a handler interrupted a thread that was        *)
(* logging (main.cpp:28) and waits for it.                                 *)
StopHeard ==
  \A h \in Handlers :
    (handler[h] = "log" /\ main = "loop" /\ ~isStop /\ ~early)
      ~> (~Alive \/ wedged)

(* Whatever files are missing and whatever cannot be read, the start-up    *)
(* comes to serve() or to an exit code, except for the two readers that    *)
(* wait for the end of a file that cannot be read, and for a handler that  *)
(* interrupted a thread that was logging.                                  *)
BootEnds ==
  file["tag"] # "unreadable" /\ file["catalog"] # "unreadable"
    => <>(main = "loop" \/ ~Alive \/ wedged)
=============================================================================
