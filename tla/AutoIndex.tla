----------------------------- MODULE AutoIndex -----------------------------
(***************************************************************************)
(* The index pipeline: run.sh and the scripts it calls (autoindex/) dump   *)
(* the data, build an index in a directory named by the second it started, *)
(* name that directory in index.conf, wait until the search server has     *)
(* written it to its version file, and remove the older directories.  The  *)
(* search server is here only what the scripts see of it (IndexManager is  *)
(* the whole of it): it loads what index.conf names, rewrites the version  *)
(* file, and may crash and boot.                                           *)
(*                                                                         *)
(* Nothing but the flag file keeps two runs apart, and no lock protects    *)
(* the flag: it is tested, and later touched.                              *)
(***************************************************************************)
EXTENDS Integers, FiniteSets

CONSTANTS
  Runs,          \* processes that execute run.sh, one run after the other
  Keep,          \* index directories backup.sh keeps (5)
  Polls,         \* turns of the loop of trans_index.sh (10)
  MaxClock,      \* bound: runs start before this second
  FlagIsAtomic,  \* no run starts between another's test and its touch
  BuildFails     \* makeindex can fail

ASSUME AutoIndexAssumption ==
  /\ Keep \in Nat \ {0}
  /\ Polls \in Nat
  /\ MaxClock \in Nat
  /\ FlagIsAtomic \in BOOLEAN
  /\ BuildFails \in BOOLEAN

VARIABLES
  clock,     \* seconds, as `date +%s' prints them
  pc,        \* where each run is; "off": not running
  path,      \* index_path of each run
  poll,      \* i in trans_index.sh
  flag,      \* the flag file exists
  raw,       \* whose data WORK_DIR holds, or Nobody
  dirs,      \* index directories: second -> how far its build got (States)
  conf,      \* index.conf: a second, or Nothing between truncation and echo
  fresh,     \* index.conf was written after the server last loaded
  server,    \* "down", "up", or "switched": version file not yet written
  served,    \* what the server serves, or served last
  version    \* version file: a second, or Nothing

runVars == <<pc, path, poll>>
serverVars == <<server, served, version>>
vars == <<clock, runVars, flag, raw, dirs, conf, fresh, serverVars>>

Nothing == 0
Nobody == "nobody"

(* The build has not ended with success; it has, although makeindex failed *)
(* and left a part of an index that loads, or one that does not; it made a *)
(* whole index.                                                            *)
States == {"unfinished", "partial", "unusable", "complete"}

(* The server serves an index that was built before. *)
Init ==
  /\ clock = 2
  /\ pc = [r \in Runs |-> "off"]
  /\ path = [r \in Runs |-> Nothing]
  /\ poll = [r \in Runs |-> 0]
  /\ flag = FALSE
  /\ raw = Nobody
  /\ dirs = [d \in {1} |-> "complete"]
  /\ conf = 1
  /\ fresh = FALSE
  /\ server = "up"
  /\ served = 1
  /\ version = 1

Goto(r, there) == pc' = [pc EXCEPT ![r] = there]

-----------------------------------------------------------------------------
(***************************************************************************)
(* run.sh.  `exit 1' leaves the flag file where it is.                     *)
(***************************************************************************)

(* Mutant of MayStart: the flag is not looked at.                          *)
MayStart_Always == TRUE

MayStart == ~flag

TestFlag(r) ==
  /\ pc[r] = "off"
  /\ clock < MaxClock
  /\ MayStart
  /\ FlagIsAtomic => \A s \in Runs : pc[s] # "tested"
  /\ Goto(r, "tested")
  /\ UNCHANGED <<clock, path, poll, flag, raw, dirs, conf, fresh, serverVars>>

(* touch, and index_path. *)
TouchFlag(r) ==
  /\ pc[r] = "tested"
  /\ flag' = TRUE
  /\ path' = [path EXCEPT ![r] = clock]
  /\ clock' \in {clock, clock + 1}
  /\ Goto(r, "data")
  /\ UNCHANGED <<poll, raw, dirs, conf, fresh, serverVars>>

(* get_data.sh: whatever was in WORK_DIR is overwritten, also when it fails. *)
GetData(r) ==
  /\ pc[r] = "data"
  /\ \/ raw' = r /\ Goto(r, "build")
     \/ raw' \in {raw, Nobody} /\ Goto(r, "off")
  /\ UNCHANGED <<clock, path, poll, flag, dirs, conf, fresh, serverVars>>

Built(p, how) == [d \in DOMAIN dirs \cup {p} |-> IF d = p THEN how ELSE dirs[d]]

(* build_index.sh: mkdir, unless the directory is there, and makeindex     *)
(* begins to write.                                                        *)
StartBuild(r) ==
  /\ pc[r] = "build"
  /\ dirs' = Built(path[r], "unfinished")
  /\ Goto(r, "make")
  /\ UNCHANGED <<clock, path, poll, flag, raw, conf, fresh, serverVars>>

(* Mutant of AfterCrash: the status of makeindex is not looked at.         *)
AfterCrash_Trans == "trans"

(* if [ $? -ne 0 ] *)
AfterCrash == "off"

(* makeindex's main returns 0 whatever makeindex() does; only a crash is   *)
(* seen.                                                                   *)
BuildIndex(r) ==
  /\ pc[r] = "make"
  /\ \/ dirs' = Built(path[r], "complete") /\ Goto(r, "trans")
     \/ /\ BuildFails
        /\ \E how \in {"partial", "unusable"} : dirs' = Built(path[r], how)
        /\ Goto(r, "trans")
     \/ BuildFails /\ UNCHANGED dirs /\ Goto(r, AfterCrash)
  /\ UNCHANGED <<clock, path, poll, flag, raw, conf, fresh, serverVars>>

-----------------------------------------------------------------------------
(***************************************************************************)
(* trans_index.sh                                                          *)
(***************************************************************************)
TruncateConf(r) ==
  /\ pc[r] = "trans"
  /\ conf' = Nothing
  /\ fresh' = TRUE
  /\ Goto(r, "echo")
  /\ UNCHANGED <<clock, path, poll, flag, raw, dirs, serverVars>>

(* Mostly in the second of the truncation: that time is seen already. *)
WriteConf(r) ==
  /\ pc[r] = "echo"
  /\ conf' = path[r]
  /\ fresh' \in {fresh, TRUE}
  /\ poll' = [poll EXCEPT ![r] = 0]
  /\ Goto(r, "poll")
  /\ UNCHANGED <<clock, path, flag, raw, dirs, serverVars>>

Transferred(r) == version = path[r]

LastPoll(r) == poll[r] = Polls

(* sleep 5, cat, compare.  An empty version file compares as false. *)
Poll(r) ==
  /\ pc[r] = "poll"
  /\ IF LastPoll(r)
       THEN Goto(r, "off") /\ UNCHANGED <<clock, poll>>
       ELSE /\ clock' = IF clock > path[r] THEN clock ELSE clock + 1
            /\ poll' = [poll EXCEPT ![r] = @ + 1]
            /\ IF Transferred(r) THEN Goto(r, "backup") ELSE UNCHANGED pc
  /\ UNCHANGED <<path, flag, raw, dirs, conf, fresh, serverVars>>

(* Mutant of Kept: one directory too few is listed.                        *)
Kept_Oldest ==
  {d \in DOMAIN dirs : Cardinality({e \in DOMAIN dirs : e < d}) < Keep}

(* sort -r | awk 'NR>5' *)
Kept == {d \in DOMAIN dirs : Cardinality({e \in DOMAIN dirs : e > d}) < Keep}

(* backup.sh: WORK_DIR moves away. *)
Backup(r) ==
  /\ pc[r] = "backup"
  /\ dirs' = [d \in Kept |-> dirs[d]]
  /\ raw' = Nobody
  /\ Goto(r, "end")
  /\ UNCHANGED <<clock, path, poll, flag, conf, fresh, serverVars>>

RemoveFlag(r) ==
  /\ pc[r] = "end"
  /\ flag' = FALSE
  /\ Goto(r, "off")
  /\ UNCHANGED <<clock, path, poll, raw, dirs, conf, fresh, serverVars>>

(* The host goes down, or a script is killed. *)
Killed(r) ==
  /\ pc[r] # "off"
  /\ Goto(r, "off")
  /\ UNCHANGED <<clock, path, poll, flag, raw, dirs, conf, fresh, serverVars>>

(* Someone removes the flag of a run that failed, when nothing runs; not   *)
(* within the second in which it failed.                                   *)
ClearFlag ==
  /\ flag
  /\ \A r \in Runs : pc[r] = "off"
  /\ flag' = FALSE
  /\ clock' = clock + 1
  /\ UNCHANGED <<runVars, raw, dirs, conf, fresh, serverVars>>

-----------------------------------------------------------------------------
(***************************************************************************)
(* The search server                                                       *)
(***************************************************************************)
Loadable == conf \in DOMAIN dirs /\ dirs[conf] # "unusable"

(* IndexManager::update up to update_version_file's fopen(..., "w"). *)
Load ==
  /\ Loadable
  /\ served' = conf
  /\ version' = Nothing
  /\ fresh' = FALSE
  /\ server' = "switched"

(* Mutant of StillFresh: the time is stamped before the load.              *)
StillFresh_Stamped == FALSE

(* A load that fails does not stamp the time: the next update tries again. *)
StillFresh == fresh

Switch ==
  /\ server = "up"
  /\ fresh
  /\ IF Loadable THEN Load
                 ELSE fresh' = StillFresh /\ UNCHANGED serverVars
  /\ UNCHANGED <<clock, runVars, flag, raw, dirs, conf>>

(* Mutant of VersionText: the file names what index.conf holds by now.     *)
VersionText_Conf == conf

VersionText == served

WriteVersion ==
  /\ server = "switched"
  /\ version' = VersionText
  /\ server' = "up"
  /\ UNCHANGED <<clock, runVars, flag, raw, dirs, conf, fresh, served>>

Crash ==
  /\ server # "down"
  /\ server' = "down"
  /\ UNCHANGED <<clock, runVars, flag, raw, dirs, conf, fresh, served, version>>

(* IndexManager::init; without a loadable index the process ends. *)
Boot ==
  /\ server = "down"
  /\ Load
  /\ UNCHANGED <<clock, runVars, flag, raw, dirs, conf>>

Run(r) ==
  \/ TestFlag(r) \/ TouchFlag(r) \/ GetData(r) \/ StartBuild(r) \/ BuildIndex(r)
  \/ TruncateConf(r) \/ WriteConf(r) \/ Poll(r) \/ Backup(r) \/ RemoveFlag(r)

Server == Switch \/ WriteVersion \/ Boot

Next ==
  \/ \E r \in Runs : Run(r) \/ Killed(r)
  \/ ClearFlag
  \/ Server
  \/ Crash

(* The switch thread is an endless loop, and someone starts a server that  *)
(* is down.  Nothing is assumed of the runs.                               *)
Spec == Init /\ [][Next]_vars /\ WF_vars(Server)

-----------------------------------------------------------------------------
(* backup.sh never removes the directory that index.conf names: a server   *)
(* that crashes can always boot from it (backup.sh:5, with the naming by   *)
(* seconds in run.sh:15 and the waiting in trans_index.sh).                *)
ConfDirExists == conf # Nothing => conf \in DOMAIN dirs

(* "transindex finish, se have already trans new index": when the loop has *)
(* seen the new path in the version file, the server serves it, and when   *)
(* it crashes afterwards it comes back with it (trans_index.sh:19-31).     *)
FinishMeansServed ==
  \A r \in Runs :
    pc[r] \in {"backup", "end"} => served = path[r] /\ conf = path[r]

(* An index is built from the data that its own run dumped and merged, not *)
(* from what another run is writing or has moved away (build_index.sh:23). *)
BuildsOwnData == \A r \in Runs : pc[r] \in {"build", "make"} => raw = r

(* The server never goes back to an older index, crashes included.         *)
NoRollback == [][served' >= served]_vars

(* An index.conf that comes to rest and can be loaded is served in the     *)
(* end, also when the server looked between truncation and echo, when the  *)
(* run was killed, and however often the server crashes; if the server     *)
(* comes to stay up, the version file names it (trans_index.sh:14,         *)
(* index_manager.cpp:96-124).                                              *)
ConfReachesServer ==
  <>[][conf' = conf]_vars /\ <>[]Loadable =>
    /\ <>[](served = conf)
    /\ <>[](server # "down") => <>[](version = conf)

(* index.conf never names a directory of which the build did not end, or   *)
(* ended with an error: not the one of a run that was killed in the middle *)
(* of its build, and none that is being built again (run.sh:15,            *)
(* build_index.sh:13-36).                                                  *)
PublishedFinished == conf \in DOMAIN dirs => dirs[conf] # "unfinished"

(* "makeindex error", exit 1 (build_index.sh:31-36): when the build fails, *)
(* index.conf is not changed.                                              *)
PublishedComplete == conf \in DOMAIN dirs => dirs[conf] = "complete"
=============================================================================
