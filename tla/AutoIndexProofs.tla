-------------------------- MODULE AutoIndexProofs --------------------------
(***************************************************************************)
(* Proofs about the index pipeline, for any number of processes that       *)
(* execute run.sh, any number of seconds, of polls and of directories that *)
(* are kept.                                                               *)
(*                                                                         *)
(* What holds of the server alone needs no assumption.  What the scripts   *)
(* promise rests on the flag file, and is proved for starts that are not   *)
(* simultaneous (FlagIsAtomic): run.sh tests the flag and touches it later.*)
(***************************************************************************)
EXTENDS AutoIndex, FiniteSetTheorems, TLAPS

Points == {"off", "tested", "data", "build", "make", "trans", "echo", "poll",
           "backup", "end"}

(* Where a run is that has touched the flag; that has not built yet; that  *)
(* has its path in dirs, built; that has its path in index.conf.           *)
Flagged == {"data", "build", "make", "trans", "echo", "poll", "backup", "end"}
Building == {"data", "build", "make"}
HasDir == {"trans", "echo", "poll", "backup", "end"}
Published == {"poll", "backup", "end"}

(* The path of a run that has passed touch. *)
PathIsSecond == \A r \in Runs : pc[r] \in Flagged => path[r] > 0

(* Index directories have the names of seconds that have come. *)
DirsInv ==
  /\ DOMAIN dirs \subseteq 1 .. clock
  /\ \A d \in DOMAIN dirs : dirs[d] \in States

TypeInv ==
  /\ clock \in Nat \ {0}
  /\ pc \in [Runs -> Points]
  /\ path \in [Runs -> 0 .. clock]
  /\ poll \in [Runs -> Nat]
  /\ flag \in BOOLEAN
  /\ raw \in Runs \cup {Nobody}
  /\ PathIsSecond
  /\ DirsInv
  /\ conf \in 0 .. clock
  /\ fresh \in BOOLEAN
  /\ server \in {"down", "up", "switched"}
  /\ served \in 1 .. clock
  /\ version \in 0 .. clock

(* The version file is empty or names what is served. *)
VersionNamesServed == version \in {Nothing, served}

-----------------------------------------------------------------------------
(***************************************************************************)
(* The invariant behind the promises of the scripts                        *)
(***************************************************************************)

(* One run at a time, and the flag is there as long as it needs it. *)
Solo ==
  /\ \A r, s \in Runs : pc[r] # "off" /\ pc[s] # "off" => r = s
  /\ \A r \in Runs : pc[r] \in Flagged => flag

(* A run's second is the latest so far, of directories and of what is or   *)
(* was served and published.                                               *)
PathIsLatest ==
  \A r \in Runs :
    pc[r] \in Flagged =>
      /\ served <= path[r]
      /\ conf <= path[r]
      /\ DOMAIN dirs \subseteq 1 .. path[r]

(* What the run has done so far. *)
Progress ==
  \A r \in Runs :
    /\ pc[r] \in HasDir => path[r] \in DOMAIN dirs
    /\ pc[r] = "echo" => conf = Nothing
    /\ pc[r] \in Published => conf = path[r]

(* The second in which a run starts has no index in index.conf yet, and    *)
(* what the run publishes is built.                                        *)
BuiltBefore ==
  /\ ~flag => conf < clock
  /\ \A r \in Runs :
       /\ pc[r] = "tested" => ~flag
       /\ pc[r] \in Building => conf < path[r]
       /\ pc[r] \in {"backup", "end"} => path[r] < clock
       /\ pc[r] \in HasDir => dirs[path[r]] # "unfinished"

(* index.conf never names an index older than the one served. *)
ConfNotOlder == conf # Nothing => served <= conf

-----------------------------------------------------------------------------
(* Types, and what the server writes. *)
LEMMA TypeInit == Init => TypeInv /\ VersionNamesServed
<1> SUFFICES ASSUME Init PROVE TypeInv /\ VersionNamesServed
  OBVIOUS
<1>1. DirsInv
  BY DEF Init, DirsInv, States
<1>2. /\ clock \in Nat \ {0}
      /\ conf \in 0 .. clock
      /\ served \in 1 .. clock
      /\ version \in 0 .. clock
  BY DEF Init
<1>3. /\ pc \in [Runs -> Points]
      /\ path \in [Runs -> 0 .. clock]
      /\ poll \in [Runs -> Nat]
      /\ PathIsSecond
  BY DEF Init, Points, Nothing, PathIsSecond, Flagged
<1>4. QED
  BY <1>1, <1>2, <1>3 DEF Init, TypeInv, VersionNamesServed

LEMMA TypeRun ==
  ASSUME TypeInv, VersionNamesServed, NEW r \in Runs, Run(r) \/ Killed(r)
  PROVE  TypeInv' /\ VersionNamesServed'
<1> USE AutoIndexAssumption
    DEF TypeInv, DirsInv, PathIsSecond, VersionNamesServed, Flagged, Goto,
        Points, States, Nothing, serverVars
<1>1. CASE TestFlag(r)
  BY <1>1 DEF TestFlag
<1>2. CASE TouchFlag(r)
  BY <1>2 DEF TouchFlag
<1>3. CASE GetData(r)
  BY <1>3 DEF GetData
<1>4. CASE StartBuild(r) \/ BuildIndex(r)
  <2>1. /\ dirs' = dirs \/ \E how \in States : dirs' = Built(path[r], how)
        /\ pc' \in [Runs -> Points]
    BY <1>4 DEF StartBuild, BuildIndex, AfterCrash
  <2>2. path[r] \in 1 .. clock
    BY <1>4 DEF StartBuild, BuildIndex, PathIsSecond
  <2>3. clock' = clock
    BY <1>4 DEF StartBuild, BuildIndex
  <2>4. DirsInv'
    BY <2>1, <2>2, <2>3 DEF Built
  <2>5. QED
    BY <1>4, <2>1, <2>4 DEF StartBuild, BuildIndex
<1>5. CASE TruncateConf(r)
  BY <1>5 DEF TruncateConf
<1>6. CASE WriteConf(r)
  BY <1>6 DEF WriteConf
<1>7. CASE Poll(r)
  BY <1>7 DEF Poll
<1>8. CASE Backup(r)
  BY <1>8 DEF Backup, Kept
<1>9. CASE RemoveFlag(r)
  BY <1>9 DEF RemoveFlag
<1>10. CASE Killed(r)
  BY <1>10 DEF Killed
<1>11. QED
  BY <1>1, <1>2, <1>3, <1>4, <1>5, <1>6, <1>7, <1>8, <1>9, <1>10 DEF Run

(* What a load serves is a directory that is there, and so has a second.   *)
LEMMA LoadServes ==
  ASSUME TypeInv, Load
  PROVE  /\ conf \in DOMAIN dirs
         /\ served' = conf
         /\ served' \in 1 .. clock
         /\ version' = Nothing
         /\ fresh' = FALSE
         /\ server' = "switched"
<1>1. conf \in DOMAIN dirs
  BY DEF Load, Loadable
<1>2. conf \in 1 .. clock
  BY <1>1 DEF TypeInv, DirsInv
<1>3. QED
  BY <1>1, <1>2 DEF Load

LEMMA TypeServer ==
  ASSUME TypeInv, VersionNamesServed, ClearFlag \/ Server \/ Crash
  PROVE  TypeInv' /\ VersionNamesServed'
<1>0. ASSUME Load
      PROVE  /\ served' \in 1 .. clock
             /\ version' = Nothing
             /\ fresh' = FALSE
             /\ server' = "switched"
  BY <1>0, LoadServes
<1> USE DEF TypeInv, DirsInv, PathIsSecond, VersionNamesServed, Points, States,
            Nothing, serverVars, runVars
<1>1. CASE ClearFlag
  <2>1. /\ clock' = clock + 1
        /\ flag' = FALSE
        /\ UNCHANGED <<pc, path, poll, raw, dirs, conf, fresh, server, served,
                       version>>
    BY <1>1 DEF ClearFlag
  <2>2. 0 .. clock \subseteq 0 .. clock' /\ 1 .. clock \subseteq 1 .. clock'
    BY <2>1
  <2>3. path' \in [Runs -> 0 .. clock']
    BY <2>1, <2>2
  <2>4. DirsInv' /\ PathIsSecond' /\ VersionNamesServed'
    BY <2>1, <2>2
  <2>5. /\ clock' \in Nat \ {0}
        /\ conf' \in 0 .. clock'
        /\ served' \in 1 .. clock'
        /\ version' \in 0 .. clock'
    BY <2>1, <2>2
  <2>6. TypeInv'
    BY <2>1, <2>3, <2>4, <2>5
  <2>7. QED
    BY <2>4, <2>6
<1>2. CASE Switch
  <2>1. CASE Loadable
    <3>1. Load
      BY <1>2, <2>1 DEF Switch
    <3>2. QED
      BY <1>0, <1>2, <3>1 DEF Switch
  <2>2. CASE ~Loadable
    BY <1>2, <2>2 DEF Switch, StillFresh
  <2>3. QED
    BY <2>1, <2>2
<1>3. CASE WriteVersion
  BY <1>3 DEF WriteVersion, VersionText
<1>4. CASE Boot
  BY <1>0, <1>4 DEF Boot
<1>5. CASE Crash
  BY <1>5 DEF Crash
<1>6. QED
  BY <1>1, <1>2, <1>3, <1>4, <1>5 DEF Server

LEMMA TypeNext ==
  ASSUME TypeInv, VersionNamesServed, [Next]_vars
  PROVE  TypeInv' /\ VersionNamesServed'
<1>1. CASE \E r \in Runs : Run(r) \/ Killed(r)
  BY <1>1, TypeRun
<1>2. CASE ClearFlag \/ Server \/ Crash
  BY <1>2, TypeServer
<1>3. CASE UNCHANGED vars
  BY <1>3 DEF vars, runVars, serverVars, TypeInv, DirsInv, PathIsSecond,
     VersionNamesServed
<1>4. QED
  BY <1>1, <1>2, <1>3 DEF Next

(* The variables keep their types, and no directory, path or version is    *)
(* later than the clock, whatever runs overlap and however often the       *)
(* server crashes (run.sh:15).                                             *)
THEOREM TypeCorrect == Spec => []TypeInv
<1>1. Spec => [](TypeInv /\ VersionNamesServed)
  BY TypeInit, TypeNext, PTL DEF Spec
<1>2. QED
  BY <1>1, PTL

(* Whatever overlaps and crashes: a version file that is not empty names   *)
(* the index that is served, or was served last (index_manager.cpp:96-124).*)
THEOREM VersionTruthful == Spec => []VersionNamesServed
<1>1. Spec => [](TypeInv /\ VersionNamesServed)
  BY TypeInit, TypeNext, PTL DEF Spec
<1>2. QED
  BY <1>1, PTL

-----------------------------------------------------------------------------
(***************************************************************************)
(* The promises of the scripts, when no two runs start at the same moment. *)
(***************************************************************************)
Scripts ==
  /\ Solo
  /\ PathIsLatest
  /\ Progress
  /\ ConfNotOlder
  /\ ConfDirExists
  /\ FinishMeansServed
  /\ BuildsOwnData
  /\ BuiltBefore
  /\ PublishedFinished

LEMMA ScriptsInit == Init => Scripts
  BY DEF Init, Scripts, Solo, PathIsLatest, Progress, ConfNotOlder,
         ConfDirExists, FinishMeansServed, BuildsOwnData, BuiltBefore,
         PublishedFinished, Flagged, Building, HasDir, Published

(* The path of the run that backs up is the latest, so no directory is     *)
(* before it in the list of backup.sh.                                     *)
LEMMA LatestIsKept ==
  ASSUME TypeInv, PathIsLatest, Progress, NEW r \in Runs, pc[r] = "backup"
  PROVE  path[r] \in Kept
<1>1. /\ path[r] \in DOMAIN dirs
      /\ DOMAIN dirs \subseteq 1 .. path[r]
      /\ path[r] \in Nat
  BY DEF TypeInv, PathIsLatest, Progress, Flagged, HasDir
<1>2. {e \in DOMAIN dirs : e > path[r]} = {}
  BY <1>1
<1>3. Cardinality({e \in DOMAIN dirs : e > path[r]}) = 0
  BY <1>2, FS_EmptySet
<1>4. QED
  BY <1>1, <1>3, AutoIndexAssumption DEF Kept

(* A start finds nothing running: whoever has touched the flag would have  *)
(* left it, and nobody is about to touch it.                               *)
LEMMA StartsAlone ==
  ASSUME FlagIsAtomic, TypeInv, Solo, NEW r \in Runs, TestFlag(r)
  PROVE  \A s \in Runs : pc[s] = "off"
<1>1. \A s \in Runs : pc[s] # "tested" /\ pc[s] \notin Flagged
  BY DEF TestFlag, MayStart, Solo
<1>2. QED
  BY <1>1 DEF TypeInv, Points, Flagged

(* A step of the only run.  What it does not do itself holds of every      *)
(* other run because that is off.                                          *)
LEMMA ScriptsRun ==
  ASSUME FlagIsAtomic, TypeInv, TypeInv', VersionNamesServed, Scripts,
         NEW r \in Runs, Run(r) \/ Killed(r)
  PROVE  Scripts'
<1>1. \A s \in Runs : s # r => pc[s] = "off" /\ pc'[s] = "off"
  <2>1. \A s \in Runs : s # r => pc[s] = "off"
    <3>1. CASE TestFlag(r)
      BY <3>1, StartsAlone DEF Scripts
    <3>2. CASE pc[r] # "off"
      BY <3>2 DEF Scripts, Solo
    <3>3. QED
      BY <3>1, <3>2 DEF Run, Killed, TouchFlag, GetData, StartBuild,
         BuildIndex, AfterCrash, TruncateConf,
         WriteConf, Poll, Backup, RemoveFlag
  <2>2. \E there \in Points : pc' = [pc EXCEPT ![r] = there]
    BY DEF Run, Killed, TestFlag, TouchFlag, GetData, StartBuild,
         BuildIndex, AfterCrash, TruncateConf,
       WriteConf, Poll, Backup, RemoveFlag, Goto, Points, TypeInv
  <2>3. QED
    BY <2>1, <2>2 DEF TypeInv
<1>2. /\ pc \in [Runs -> Points]
      /\ path \in [Runs -> 0 .. clock]
      /\ clock \in Nat
      /\ conf \in 0 .. clock
      /\ served \in 1 .. clock
      /\ DOMAIN dirs \subseteq 1 .. clock
      /\ pc[r] \in Flagged => path[r] > 0
  BY DEF TypeInv, DirsInv, PathIsSecond
<1> USE <1>1, <1>2
    DEF Scripts, Solo, PathIsLatest, Progress, ConfNotOlder, ConfDirExists,
        FinishMeansServed, BuildsOwnData, BuiltBefore, PublishedFinished,
        Flagged, Building, HasDir, Published, Goto, Nothing, serverVars
<1>3. CASE TestFlag(r)
  <2>1. /\ pc' = [pc EXCEPT ![r] = "tested"]
        /\ ~flag
        /\ UNCHANGED <<clock, path, poll, flag, raw, dirs, conf, fresh, served,
                       version>>
    BY <1>3 DEF TestFlag, MayStart
  <2>2. \A s \in Runs : pc'[s] \in {"off", "tested"}
    BY <2>1
  <2>3. QED
    BY <2>1, <2>2
<1>4. CASE TouchFlag(r)
  BY <1>4 DEF TouchFlag
<1>5. CASE GetData(r)
  BY <1>5 DEF GetData
<1>6. CASE StartBuild(r) \/ BuildIndex(r)
  BY <1>6 DEF StartBuild, BuildIndex, AfterCrash, Built
<1>7. CASE TruncateConf(r)
  BY <1>7 DEF TruncateConf
<1>8. CASE WriteConf(r)
  BY <1>8 DEF WriteConf
<1>9. CASE Poll(r)
  BY <1>9 DEF Poll, Transferred, VersionNamesServed
<1>10. CASE Backup(r)
  <2>1. path[r] \in Kept /\ Kept \subseteq DOMAIN dirs
    BY <1>10, LatestIsKept DEF Backup, Kept
  <2>2. QED
    BY <1>10, <2>1 DEF Backup
<1>11. CASE RemoveFlag(r)
  BY <1>11 DEF RemoveFlag
<1>12. CASE Killed(r)
  BY <1>12 DEF Killed
<1>13. QED
  BY <1>3, <1>4, <1>5, <1>6, <1>7, <1>8, <1>9, <1>10, <1>11, <1>12 DEF Run

(* The server only ever goes to what index.conf names, and a load that     *)
(* finds the conf file empty fails: no directory is second 0.              *)
LEMMA ScriptsServer ==
  ASSUME TypeInv, Scripts, ClearFlag \/ Server \/ Crash
  PROVE  Scripts'
<1>1. ASSUME Load
      PROVE  served' = conf /\ conf # Nothing
  <2>1. conf \in DOMAIN dirs
    BY <1>1, LoadServes
  <2>2. conf # Nothing
    BY <2>1 DEF TypeInv, DirsInv, Nothing
  <2>3. QED
    BY <1>1, <2>2, LoadServes
<1>2. /\ UNCHANGED <<pc, path, raw, dirs, conf>>
      /\ (flag' = flag /\ clock' = clock)
           \/ /\ flag' = FALSE /\ clock' = clock + 1
              /\ \A r \in Runs : pc[r] = "off"
      /\ served' = served \/ (served' = conf /\ conf # Nothing)
  BY <1>1 DEF ClearFlag, Server, Crash, Switch, WriteVersion, Boot, runVars,
     serverVars
<1>3. Solo'
  BY <1>2 DEF Scripts, Solo, Flagged
<1>4. conf \in 0 .. clock /\ clock \in Nat
  BY DEF TypeInv
<1>5. BuiltBefore' /\ PublishedFinished'
  BY <1>2, <1>4 DEF Scripts, BuiltBefore, PublishedFinished, Building, HasDir
<1>6. QED
  BY <1>2, <1>3, <1>4, <1>5 DEF Scripts, PathIsLatest, Progress, ConfNotOlder,
     ConfDirExists, FinishMeansServed, BuildsOwnData, Flagged, Published

LEMMA ScriptsInvariant ==
  ASSUME FlagIsAtomic
  PROVE  Spec => [](TypeInv /\ VersionNamesServed /\ Scripts)
<1> DEFINE Inv == TypeInv /\ VersionNamesServed /\ Scripts
<1>1. Init => Inv
  BY TypeInit, ScriptsInit
<1>2. Inv /\ [Next]_vars => Inv'
  <2> SUFFICES ASSUME Inv, [Next]_vars PROVE Inv'
    OBVIOUS
  <2>1. TypeInv' /\ VersionNamesServed'
    BY TypeNext
  <2>2. CASE \E r \in Runs : Run(r) \/ Killed(r)
    BY <2>1, <2>2, ScriptsRun
  <2>3. CASE ClearFlag \/ Server \/ Crash
    BY <2>1, <2>3, ScriptsServer
  <2>4. CASE UNCHANGED vars
    BY <2>1, <2>4 DEF vars, runVars, serverVars, Scripts, Solo, PathIsLatest,
       Progress, ConfNotOlder, ConfDirExists, FinishMeansServed, BuildsOwnData,
       BuiltBefore, PublishedFinished
  <2>5. QED
    BY <2>2, <2>3, <2>4 DEF Next
<1>3. QED
  BY <1>1, <1>2, PTL DEF Spec

(* backup.sh never removes the directory that index.conf names, whatever   *)
(* number of them it keeps (backup.sh:5).                                  *)
THEOREM ConfDirKept ==
  ASSUME FlagIsAtomic
  PROVE  Spec => []ConfDirExists
<1>1. Scripts => ConfDirExists
  BY DEF Scripts
<1>2. QED
  BY <1>1, ScriptsInvariant, PTL

(* "transindex finish" is true, and stays true until the run has ended     *)
(* (trans_index.sh:19-31).                                                 *)
THEOREM FinishServed ==
  ASSUME FlagIsAtomic
  PROVE  Spec => []FinishMeansServed
<1>1. Scripts => FinishMeansServed
  BY DEF Scripts
<1>2. QED
  BY <1>1, ScriptsInvariant, PTL

(* makeindex reads what its own run has dumped (build_index.sh:23).        *)
THEOREM OwnData ==
  ASSUME FlagIsAtomic
  PROVE  Spec => []BuildsOwnData
<1>1. Scripts => BuildsOwnData
  BY DEF Scripts
<1>2. QED
  BY <1>1, ScriptsInvariant, PTL

(* The server never goes back to an older index, crashes included: what a  *)
(* load finds in index.conf is not older than what is served.              *)
THEOREM NeverBack ==
  ASSUME FlagIsAtomic
  PROVE  Spec => NoRollback
<1>1. ASSUME TypeInv, Scripts, [Next]_vars
      PROVE  [served' >= served]_vars
  <2>1. served \in Nat /\ conf \in Nat
    BY <1>1 DEF TypeInv
  <2>2. ASSUME Load
        PROVE  served' >= served
    <3>1. conf \in DOMAIN dirs /\ served' = conf
      BY <1>1, <2>2, LoadServes
    <3>2. conf # Nothing
      BY <1>1, <3>1 DEF TypeInv, DirsInv, Nothing
    <3>3. QED
      BY <1>1, <2>1, <3>1, <3>2 DEF Scripts, ConfNotOlder
  <2>3. CASE UNCHANGED served
    BY <2>1, <2>3
  <2>4. CASE Load
    BY <2>2, <2>4
  <2>5. ASSUME NEW r \in Runs, Run(r) \/ Killed(r)
        PROVE  UNCHANGED served
    BY <2>5 DEF Run, Killed, TestFlag, TouchFlag, GetData, StartBuild,
       BuildIndex, TruncateConf, WriteConf, Poll, Backup, RemoveFlag, serverVars
  <2>6. CASE ClearFlag \/ Server \/ Crash
    BY <2>3, <2>4, <2>6 DEF ClearFlag, Server, Switch, WriteVersion, Boot,
       Crash, serverVars
  <2>7. QED
    BY <1>1, <2>3, <2>5, <2>6 DEF Next, serverVars, vars
<1>2. QED
  BY <1>1, ScriptsInvariant, PTL DEF Spec, NoRollback

(* A directory of which the build did not end with success is never        *)
(* published, whenever runs are killed and however often a build is begun  *)
(* again: index.conf may name a part of an index only because makeindex    *)
(* reports success when it failed (build_index.sh:31-36).                  *)
THEOREM OnlyFinishedPublished ==
  ASSUME FlagIsAtomic
  PROVE  Spec => []PublishedFinished
<1>1. Scripts => PublishedFinished
  BY DEF Scripts
<1>2. QED
  BY <1>1, ScriptsInvariant, PTL
=============================================================================
