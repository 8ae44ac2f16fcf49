------------------------- MODULE IndexManagerProofs -------------------------
(***************************************************************************)
(* Theorems about IndexManager, for any number of threads, objects and     *)
(* index directories, any bounds, and whether or not memory runs out.      *)
(***************************************************************************)
EXTENDS IndexManager, FiniteSetTheorems, TLAPS

LEMMA VersionIs == Version = {0, 1}
BY DEF Version, VERSION_NUM

USE DEF ConfIsOld, InUse, StampTime, VersionText, UnrefSlot

LEMMA NoVersion == NO_VERSION \notin Version
BY VersionIs DEF NO_VERSION

LEMMA NewVersionType ==
  ASSUME latest \in Version
  PROVE  NewVersion \in Version /\ NewVersion # latest
BY VersionIs DEF NewVersion, VERSION_NUM

LEMMA NewVersionKept ==
  ASSUME latest' = latest
  PROVE  NewVersion' = NewVersion
BY DEF NewVersion

-----------------------------------------------------------------------------
(***************************************************************************)
(* TypeOK is not inductive: get_index_path could copy the content of a     *)
(* missing file, and a search could index the slots with NO_VERSION.       *)
(***************************************************************************)
FileInv ==
  conf.path = NoFile => conf.mtime = 0 /\ upc \in {"sleep", "stat"}

WorkerInv ==
  \A t \in Threads :
    /\ wpc[t] \in {"version", "inc"} => ver[t] \in Version
    /\ wpc[t] \in {"counted", "using", "dec"} => tv[t] \in Version

TypeInv == TypeOK /\ FileInv /\ WorkerInv

LEMMA TypeInit == Init => TypeInv
<1> SUFFICES ASSUME Init PROVE TypeInv
  OBVIOUS
<1>1. conf \in [path : Paths \cup {NoPath, NoFile}, mtime : Nat] /\ FileInv
  BY PathAssumption DEF Init, FileInv
<1>2. TypeOK
  <2>1. /\ latest \in Version
        /\ data \in [Version -> Objects \cup {Null}]
        /\ ref \in [Version -> Int]
        /\ timestamp \in [Version -> Nat]
    BY VersionIs DEF Init
  <2>2. /\ state \in [Objects -> {"free", "loading", "ready"}]
        /\ from \in [Objects -> Paths \cup {NoPath}]
    BY DEF Init
  <2>3. /\ ver \in [Threads -> Version \cup {NO_VERSION}]
        /\ reg \in [Threads -> Int]
        /\ tv \in [Threads -> Version \cup {NO_VERSION}]
        /\ ptr \in [Threads -> Objects \cup {Null}]
    BY DEF Init
  <2>4. fds \in 0 .. FdLimit
    BY NumberAssumption DEF Init
  <2>5. QED
    BY <1>1, <2>1, <2>2, <2>3, <2>4 DEF Init, TypeOK
<1>3. WorkerInv
  BY DEF Init, WorkerInv
<1>4. QED
  BY <1>1, <1>2, <1>3 DEF TypeInv

LEMMA TypeUpdate == TypeInv /\ Update => TypeInv'
<1> SUFFICES ASSUME TypeInv, Update PROVE TypeInv'
  OBVIOUS
<1> USE DEF TypeInv, TypeOK, FileInv, WorkerInv, Return, Note,
            slots, heap, files, proc, wrk
<1> USE PathAssumption, NumberAssumption, NewVersionType
<1>1. CASE Wake
  BY <1>1 DEF Wake
<1>2. CASE NotNewer
  BY <1>2 DEF NotNewer
<1>3. CASE Newer
  BY <1>3 DEF Newer
<1>4. CASE GiveUp
  BY <1>4 DEF GiveUp
<1>5. CASE SlotUnused
  BY <1>5 DEF SlotUnused
<1>6. CASE ReadConf
  <2>1. CASE fds = FdLimit
    BY <1>6, <2>1 DEF ReadConf
  <2>2. CASE fds # FdLimit /\ conf.path = NoPath
    BY <1>6, <2>2 DEF ReadConf
  <2>3. CASE fds # FdLimit /\ conf.path # NoPath
    <3>1. path' \in Paths /\ fds' \in 0 .. FdLimit /\ upc' = "delete"
      BY <1>6, <2>3 DEF ReadConf
    <3>2. QED
      BY <1>6, <2>3, <3>1 DEF ReadConf
  <2>4. QED
    BY <2>1, <2>2, <2>3
<1>7. CASE Delete
  BY <1>7 DEF Delete
<1>8. CASE NewFails
  BY <1>8 DEF NewFails
<1>9. CASE Load
  BY <1>9 DEF Load
<1>10. CASE LoadFails
  BY <1>10 DEF LoadFails
<1>11. CASE Stamp
  BY <1>11 DEF Stamp
<1>12. CASE Publish
  BY <1>12 DEF Publish
<1>13. CASE TruncateVersionFile
  BY <1>13 DEF TruncateVersionFile
<1>14. CASE WriteVersionFile
  BY <1>14 DEF WriteVersionFile
<1>15. ASSUME NEW o \in Objects, New(o) PROVE TypeInv'
  BY <1>15 DEF New
<1>16. QED
  BY <1>1, <1>2, <1>3, <1>4, <1>5, <1>6, <1>7, <1>8, <1>9, <1>10, <1>11,
     <1>12, <1>13, <1>14, <1>15 DEF Update

LEMMA TypeProceed ==
  ASSUME TypeInv, NEW t \in Threads, Proceed(t)
  PROVE  TypeInv'
<1> USE DEF TypeInv, TypeOK, FileInv, WorkerInv, Note,
            slots, heap, files, upd, proc
<1> USE VersionIs, NumberAssumption DEF NO_VERSION, Null
<1>1. CASE IncLoad(t)
  BY <1>1 DEF IncLoad
<1>2. CASE Inc(t)
  BY <1>2 DEF Inc
<1>3. CASE Fetch(t)
  BY <1>3 DEF Fetch
<1>4. CASE DecLoad(t)
  BY <1>4 DEF DecLoad
<1>5. CASE Dec(t)
  BY <1>5 DEF Dec
<1>6. QED
  BY <1>1, <1>2, <1>3, <1>4, <1>5 DEF Proceed

LEMMA TypeSearch ==
  ASSUME TypeInv, NEW t \in Threads, Search(t)
  PROVE  TypeInv'
<1> USE DEF TypeInv, TypeOK, FileInv, WorkerInv, Note,
            slots, heap, files, upd, proc
<1>1. CASE PrepareFails(t)
  BY <1>1 DEF PrepareFails, wrk
<1>2. CASE ReadVersion(t)
  BY <1>2 DEF ReadVersion
<1>3. CASE Throw(t)
  BY <1>3, NumberAssumption DEF Throw, Null
<1>4. QED
  BY <1>1, <1>2, <1>3 DEF Search

LEMMA TypeEnvironment == TypeInv /\ Environment => TypeInv'
<1> SUFFICES ASSUME TypeInv, Environment PROVE TypeInv'
  OBVIOUS
<1> USE DEF TypeInv, TypeOK, FileInv, WorkerInv, slots, heap, upd, proc, wrk
<1>1. CASE TruncateConf
  BY <1>1, PathAssumption, NumberAssumption DEF TruncateConf
<1>2. ASSUME NEW p \in Paths, WriteConf(p) PROVE TypeInv'
  BY <1>2, PathAssumption, NumberAssumption DEF WriteConf
<1>3. QED
  BY <1>1, <1>2 DEF Environment

(* The type invariant, with the two facts about the conf file and the      *)
(* threads that make it inductive.                                         *)
THEOREM TypeCorrect == Spec => [](TypeOK /\ FileInv /\ WorkerInv)
<1>1. TypeInv /\ [Next]_vars => TypeInv'
  <2> SUFFICES ASSUME TypeInv, [Next]_vars PROVE TypeInv'
    OBVIOUS
  <2>1. CASE UNCHANGED vars
    BY <2>1 DEF vars, slots, heap, files, upd, proc, wrk,
                TypeInv, TypeOK, FileInv, WorkerInv
  <2>2. QED
    BY <2>1, TypeUpdate, TypeProceed, TypeSearch, TypeEnvironment DEF Next
<1>2. QED
  BY TypeInit, <1>1, PTL DEF Spec, TypeInv

-----------------------------------------------------------------------------
(***************************************************************************)
(* What is served.  While update() works on the other slot, curr_time is   *)
(* newer than the served index; the two slots never share an object; the   *)
(* slot about to be published is ready, stamped, and holds the directory   *)
(* that was read, and what was published still has the name that goes to   *)
(* the version file; and if the conf file has not changed since the stat,  *)
(* it still names that directory.                                          *)
(***************************************************************************)
SlotInv ==
  /\ data[latest] # Null => data[NewVersion] # data[latest]
  /\ data[latest] # Null => from[data[latest]] \in Paths
  /\ upc \in {"ref", "path", "delete", "new", "load", "stamp", "publish"}
       => curr > timestamp[latest]
  /\ upc \in {"delete", "new", "load", "stamp", "publish"} => path \in Paths
  /\ upc \in {"load", "stamp", "publish"} => data[NewVersion] \in Objects
  /\ upc = "load" => state[data[NewVersion]] = "loading"
  /\ upc \in {"stamp", "publish"}
       => /\ state[data[NewVersion]] = "ready"
          /\ from[data[NewVersion]] = path
  /\ upc = "publish" => timestamp[NewVersion] = curr
  /\ upc \in {"vfile", "write"} => Served = path

TimeInv ==
  /\ curr <= conf.mtime
  /\ \A v \in Version : timestamp[v] <= conf.mtime
  /\ conf.path # NoFile => conf.mtime > 0
  /\ upc \in {"delete", "new", "load", "stamp", "publish"}
       /\ curr >= conf.mtime => path = conf.path

ServedInv == ServedComplete /\ SlotInv /\ ConfNotMissed /\ TimeInv

LEMMA ServedInit == Init => ServedInv
<1> SUFFICES ASSUME Init PROVE ServedInv
  OBVIOUS
<1>1. /\ conf.mtime \in Nat
      /\ conf.path # NoFile => conf.mtime = 1
  BY PathAssumption DEF Init
<1>2. QED
  BY <1>1, VersionIs
     DEF Init, ServedInv, ServedComplete, SlotInv, ConfNotMissed, TimeInv,
         Served

LEMMA ServedUpdate ==
  TypeInv /\ TypeInv' /\ ServedInv /\ Update => ServedInv'
<1> SUFFICES ASSUME TypeInv, TypeInv', ServedInv, Update PROVE ServedInv'
  OBVIOUS
<1> USE DEF TypeInv, TypeOK, ServedInv, ServedComplete, SlotInv, ConfNotMissed,
            TimeInv, Served, Return, slots, heap, files, proc, wrk
<1> USE PathAssumption, NumberAssumption, NewVersionType, NewVersionKept
<1>1. CASE Wake
  BY <1>1 DEF Wake
<1>2. CASE NotNewer
  BY <1>2 DEF NotNewer
<1>3. CASE Newer
  BY <1>3 DEF Newer
<1>4. CASE GiveUp
  BY <1>4 DEF GiveUp
<1>5. CASE SlotUnused
  BY <1>5 DEF SlotUnused
<1>6. CASE ReadConf
  BY <1>6 DEF ReadConf, FileInv
<1>7. CASE Delete
  BY <1>7 DEF Delete
<1>8. CASE NewFails
  BY <1>8 DEF NewFails, Null
<1>9. CASE Load
  BY <1>9 DEF Load
<1>10. CASE LoadFails
  BY <1>10 DEF LoadFails
<1>11. CASE Stamp
  BY <1>11 DEF Stamp
<1>12. CASE Publish
  BY <1>12, VersionIs DEF Publish, NewVersion, VERSION_NUM, Null
<1>13. CASE TruncateVersionFile
  BY <1>13 DEF TruncateVersionFile
<1>14. CASE WriteVersionFile
  BY <1>14 DEF WriteVersionFile
<1>15. ASSUME NEW o \in Objects, New(o) PROVE ServedInv'
  BY <1>15 DEF New, Null
<1>16. QED
  BY <1>1, <1>2, <1>3, <1>4, <1>5, <1>6, <1>7, <1>8, <1>9, <1>10, <1>11,
     <1>12, <1>13, <1>14, <1>15 DEF Update

LEMMA ServedKept ==
  ASSUME ServedInv, UNCHANGED <<latest, data, timestamp, heap, files, upd>>
  PROVE  ServedInv'
BY NewVersionKept DEF ServedInv, ServedComplete, SlotInv, ConfNotMissed,
   TimeInv, Served, heap, files, upd

LEMMA ServedThreads ==
  ASSUME NEW t \in Threads, Proceed(t) \/ Search(t)
  PROVE  UNCHANGED <<latest, data, timestamp, heap, files, upd>>
BY DEF Proceed, Search, IncLoad, Inc, Fetch, DecLoad, Dec, PrepareFails,
   ReadVersion, Throw, slots

LEMMA ServedEnvironment ==
  TypeInv /\ ServedInv /\ Environment => ServedInv'
<1> SUFFICES ASSUME TypeInv, ServedInv, Environment PROVE ServedInv'
  OBVIOUS
<1> USE DEF TypeInv, TypeOK, ServedInv, ServedComplete, SlotInv, ConfNotMissed,
            TimeInv, Served, slots, heap, upd, proc, wrk
<1> USE PathAssumption, NumberAssumption, NewVersionType, NewVersionKept
<1>1. CASE TruncateConf
  <2>1. PICK m \in conf.mtime + 1 .. MaxTime :
          conf' = [path |-> NoPath, mtime |-> m]
    BY <1>1 DEF TruncateConf
  <2>2. m > conf.mtime /\ m \in Nat
    BY <2>1
  <2>3. QED
    BY <1>1, <2>1, <2>2 DEF TruncateConf
<1>2. ASSUME NEW p \in Paths, WriteConf(p) PROVE ServedInv'
  <2>1. PICK m \in conf.mtime .. MaxTime :
          conf' = [path |-> p, mtime |-> m]
    BY <1>2 DEF WriteConf
  <2>2. m >= conf.mtime /\ m \in Nat /\ conf.path = NoPath
    BY <1>2, <2>1 DEF WriteConf
  <2>3. QED
    BY <1>2, <2>1, <2>2 DEF WriteConf
<1>3. QED
  BY <1>1, <1>2 DEF Environment

LEMMA ServedStep ==
  TypeInv /\ TypeInv' /\ ServedInv /\ [Next]_vars => ServedInv'
<1> SUFFICES ASSUME TypeInv, TypeInv', ServedInv, [Next]_vars PROVE ServedInv'
  OBVIOUS
<1>1. CASE UNCHANGED vars
  BY <1>1, ServedKept DEF vars, slots
<1>2. ASSUME NEW t \in Threads, Proceed(t) \/ Search(t) PROVE ServedInv'
  BY <1>2, ServedThreads, ServedKept
<1>3. QED
  BY <1>1, <1>2, ServedUpdate, ServedEnvironment DEF Next

LEMMA ServedInvariant == Spec => [](TypeInv /\ ServedInv)
<1>1. TypeInv /\ TypeInv' /\ ServedInv /\ [Next]_vars => ServedInv'
  BY ServedStep
<1>2. QED
  BY ServedInit, <1>1, TypeCorrect, PTL DEF Spec, TypeInv

(* Whatever the threads do and whatever fails, the slot that is served     *)
(* holds a complete index, or nothing before the first one.                *)
THEOREM ServedCorrect == Spec => []ServedComplete
<1>1. ServedInv => ServedComplete
  BY DEF ServedInv
<1>2. QED
  BY ServedInvariant, <1>1, PTL

(* update() misses no rewrite of the conf file, although it reads its time *)
(* and its content apart (l.96).                                           *)
THEOREM NothingMissed == Spec => []ConfNotMissed
<1>1. ServedInv => ConfNotMissed
  BY DEF ServedInv
<1>2. QED
  BY ServedInvariant, <1>1, PTL

(* New searches never go back to an older index.                           *)
THEOREM ServeIsMonotonic == Spec => MonotonicServe
<1>1. TypeInv /\ TypeInv' /\ ServedInv /\ [Next]_vars
        => [data'[latest'] # data[latest]
              => timestamp'[latest'] > timestamp[latest]]_vars
  <2> SUFFICES ASSUME TypeInv, TypeInv', ServedInv, Next,
                      data'[latest'] # data[latest]
               PROVE  timestamp'[latest'] > timestamp[latest]
    OBVIOUS
  <2> USE DEF TypeInv, TypeOK, ServedInv, SlotInv
  <2>1. CASE Update
    <3>1. CASE Publish
      BY <3>1 DEF Publish
    <3>2. CASE ~Publish
      <4>1. latest' = latest /\ data'[latest] = data[latest]
        <5>1. CASE NewFails \/ Stamp \/ \E o \in Objects : New(o)
          <6>1. /\ latest' = latest
                /\ data' = data \/ \E x : data' = [data EXCEPT ![NewVersion] = x]
            BY <5>1 DEF NewFails, Stamp, New
          <6>2. QED
            BY <6>1, NewVersionType
        <5>2. CASE ~(NewFails \/ Stamp \/ \E o \in Objects : New(o))
          BY <2>1, <3>2, <5>2
             DEF Update, Wake, NotNewer, Newer, GiveUp, SlotUnused, ReadConf,
                 Delete, Load, LoadFails, TruncateVersionFile,
                 WriteVersionFile, slots
        <5>3. QED
          BY <5>1, <5>2
      <4>2. QED
        BY <4>1
    <3>3. QED
      BY <3>1, <3>2
  <2>2. ASSUME NEW t \in Threads, Proceed(t) \/ Search(t) PROVE FALSE
    BY <2>2, ServedThreads
  <2>3. CASE Environment
    BY <2>3 DEF Environment, TruncateConf, WriteConf, slots
  <2>4. QED
    BY <2>1, <2>2, <2>3 DEF Next
<1>2. QED
  BY ServedInvariant, <1>1, PTL DEF Spec, MonotonicServe

(* The version file is emptied, or changed to the directory that is served *)
(* at that moment: what trans_index.sh waits for has happened.             *)
THEOREM VersionFileTruthful == Spec => VersionFileNamesServed
<1>1. TypeInv /\ ServedInv /\ [Next]_vars
        => [vfile' # vfile => vfile' \in {NoPath, Served'}]_vars
  <2> SUFFICES ASSUME TypeInv, ServedInv, Next, vfile' # vfile
               PROVE  vfile' \in {NoPath, Served'}
    OBVIOUS
  <2>1. CASE Update
    <3>1. CASE WriteVersionFile
      <4>1. vfile' \in {NoPath, Served}
        BY <3>1 DEF WriteVersionFile, ServedInv, SlotInv
      <4>2. Served' = Served
        BY <3>1 DEF WriteVersionFile, Served, slots, heap
      <4>3. QED
        BY <4>1, <4>2
    <3>2. CASE TruncateVersionFile
      BY <3>2 DEF TruncateVersionFile
    <3>3. CASE ~WriteVersionFile /\ ~TruncateVersionFile
      BY <2>1, <3>3 DEF Update, Wake, NotNewer, Newer, GiveUp, SlotUnused,
         ReadConf, Delete, NewFails, Load, LoadFails, Stamp, Publish, New, files
    <3>4. QED
      BY <3>1, <3>2, <3>3
  <2>2. ASSUME NEW t \in Threads, Proceed(t) \/ Search(t) PROVE FALSE
    BY <2>2, ServedThreads DEF files
  <2>3. CASE Environment
    BY <2>3 DEF Environment, TruncateConf, WriteConf
  <2>4. QED
    BY <2>1, <2>2, <2>3 DEF Next
<1>2. QED
  BY ServedInvariant, <1>1, PTL DEF Spec, VersionFileNamesServed

-----------------------------------------------------------------------------
(***************************************************************************)
(* The counts.  The invariant says what holds until the first race of each *)
(* kind: a count, and a copy of it in a register, is never below the       *)
(* number of threads that will count themselves off (never another number, *)
(* before any race), so the check of l.99 lets update() work on a slot     *)
(* only when nobody is counted there nor about to be.                      *)
(***************************************************************************)
Refilling == upc \in {"path", "delete", "new", "load", "stamp", "publish"}

WindowInv ==
  /\ \A t \in Threads : InWindow(t) => tv[t] = NO_VERSION
  /\ AllCounted /\ Refilling
       => /\ \A t \in Threads : InWindow(t) => ver[t] = latest
          /\ ref[NewVersion] = 0

(* The slot of a count a thread has loaded and will store. *)
Loaded(t) == IF wpc[t] = "inc" THEN ver[t]
             ELSE IF wpc[t] = "dec" THEN tv[t]
             ELSE NO_VERSION

RegisterInv ==
  \A t \in Threads : Loaded(t) # NO_VERSION =>
    /\ races = {} => reg[t] = ref[Loaded(t)]
    /\ AllCounted => reg[t] >= Cardinality(Counted(Loaded(t)))

(* The slot a thread has chosen or is counted on holds a complete object,  *)
(* if any, and that is what the thread uses.                               *)
LeaseInv ==
  AllCounted =>
    \A t \in Threads :
      /\ InWindow(t) /\ data[ver[t]] # Null => state[data[ver[t]]] = "ready"
      /\ tv[t] # NO_VERSION /\ data[tv[t]] # Null
           => state[data[tv[t]]] = "ready"
      /\ wpc[t] = "using" => ptr[t] = data[tv[t]]

CountInv == RefCounts /\ WindowInv /\ RegisterInv /\ LeaseInv

LEMMA CountedNat ==
  ASSUME NEW v
  PROVE  IsFiniteSet(Counted(v)) /\ Cardinality(Counted(v)) \in Nat
BY ThreadAssumption, FS_Subset, FS_CardinalityType DEF Counted

LEMMA NoneCounted ==
  ASSUME RefCounts, AllCounted, NEW v \in Version, ref[v] = 0
  PROVE  \A t \in Threads : tv[t] # v
<1>1. Cardinality(Counted(v)) = 0
  BY CountedNat DEF RefCounts
<1>2. Counted(v) = {}
  BY <1>1, CountedNat, FS_EmptySet
<1>3. QED
  BY <1>2 DEF Counted

LEMMA CountUp ==
  ASSUME TypeInv, NEW t \in Threads, NEW v \in Version, tv[t] = NO_VERSION,
         tv' = [tv EXCEPT ![t] = v]
  PROVE  \A w \in Version :
           Cardinality(Counted(w)')
             = Cardinality(Counted(w)) + (IF w = v THEN 1 ELSE 0)
<1> SUFFICES ASSUME NEW w \in Version
             PROVE  Cardinality(Counted(w)')
                      = Cardinality(Counted(w)) + (IF w = v THEN 1 ELSE 0)
  OBVIOUS
<1>1. CASE w = v
  <2>1. Counted(w)' = Counted(w) \cup {t} /\ t \notin Counted(w)
    BY <1>1, NoVersion DEF Counted, TypeInv, TypeOK
  <2>2. QED
    BY <1>1, <2>1, CountedNat, FS_AddElement
<1>2. CASE w # v
  <2>1. Counted(w)' = Counted(w)
    BY <1>2, NoVersion DEF Counted, TypeInv, TypeOK
  <2>2. QED
    BY <1>2, <2>1, CountedNat
<1>3. QED
  BY <1>1, <1>2

LEMMA CountDown ==
  ASSUME TypeInv, NEW t \in Threads, tv[t] \in Version,
         tv' = [tv EXCEPT ![t] = NO_VERSION]
  PROVE  \A w \in Version :
           Cardinality(Counted(w)')
             = Cardinality(Counted(w)) - (IF w = tv[t] THEN 1 ELSE 0)
<1> SUFFICES ASSUME NEW w \in Version
             PROVE  Cardinality(Counted(w)')
                      = Cardinality(Counted(w)) - (IF w = tv[t] THEN 1 ELSE 0)
  OBVIOUS
<1>1. CASE w = tv[t]
  <2>1. Counted(w)' = Counted(w) \ {t} /\ t \in Counted(w)
    BY <1>1, NoVersion DEF Counted, TypeInv, TypeOK
  <2>2. QED
    BY <1>1, <2>1, CountedNat, FS_RemoveElement
<1>2. CASE w # tv[t]
  <2>1. Counted(w)' = Counted(w)
    BY <1>2, NoVersion DEF Counted, TypeInv, TypeOK
  <2>2. QED
    BY <1>2, <2>1, CountedNat
<1>3. QED
  BY <1>1, <1>2

(* Steps of update() that leave the counts alone keep what is known of     *)
(* them, and so do steps of a thread that change neither ref nor tv.       *)
LEMMA RegisterKept ==
  ASSUME RefCounts, RegisterInv, UNCHANGED <<ref, wpc, ver, reg, tv, races>>
  PROVE  RefCounts' /\ RegisterInv'
<1>1. \A v : Counted(v)' = Counted(v)
  BY DEF Counted
<1>2. \A t \in Threads : Loaded(t)' = Loaded(t)
  BY DEF Loaded
<1>3. AllCounted' = AllCounted
  BY DEF AllCounted
<1>4. QED
  BY <1>1, <1>2, <1>3 DEF RefCounts, RegisterInv

LEMMA RefCountsKept ==
  ASSUME RefCounts, UNCHANGED <<ref, tv, races>>
  PROVE  RefCounts' /\ \A v : Counted(v)' = Counted(v)
<1>1. \A v : Counted(v)' = Counted(v)
  BY DEF Counted
<1>2. AllCounted' = AllCounted
  BY DEF AllCounted
<1>3. QED
  BY <1>1, <1>2 DEF RefCounts

LEMMA CountInit == Init => CountInv
<1> SUFFICES ASSUME Init PROVE CountInv
  OBVIOUS
<1>1. \A v \in Version : Counted(v) = {}
  BY VersionIs DEF Init, Counted, NO_VERSION
<1>2. RefCounts
  <2>1. \A v \in Version : ref[v] = 0
    BY DEF Init
  <2>2. Cardinality({}) = 0
    BY FS_EmptySet
  <2>3. QED
    BY <1>1, <2>1, <2>2 DEF RefCounts
<1>3. \A t \in Threads : wpc[t] = "fresh" /\ tv[t] = NO_VERSION
  BY DEF Init
<1>4. WindowInv /\ LeaseInv
  BY <1>3 DEF Init, WindowInv, LeaseInv, InWindow, Refilling
<1>5. RegisterInv
  BY <1>3 DEF RegisterInv, Loaded
<1>6. QED
  BY <1>2, <1>4, <1>5 DEF CountInv

LEMMA CountUpdate ==
  ASSUME TypeInv, ServedInv, CountInv, Update
  PROVE  CountInv'
<1> USE DEF TypeInv, TypeOK, WorkerInv, CountInv, WindowInv, LeaseInv,
            InWindow, AllCounted, Refilling, Return, slots, heap, files, proc,
            wrk
<1> USE PathAssumption, NumberAssumption, NewVersionType, NewVersionKept,
        RegisterKept
<1>0. AllCounted /\ Refilling => \A t \in Threads : tv[t] # NewVersion
  BY NoneCounted
<1>1. CASE Wake
  BY <1>1 DEF Wake
<1>2. CASE NotNewer
  BY <1>2 DEF NotNewer
<1>3. CASE Newer
  BY <1>3 DEF Newer
<1>4. CASE GiveUp
  BY <1>4 DEF GiveUp
<1>5. CASE SlotUnused
  <2>1. /\ races \subseteq races'
        /\ UNCHANGED <<ref, wpc, ver, reg, tv>>
    BY <1>5 DEF SlotUnused, Note
  <2>2. /\ \A v : Counted(v)' = Counted(v)
        /\ \A t \in Threads : Loaded(t)' = Loaded(t)
    BY <2>1 DEF Counted, Loaded
  <2>3. RefCounts' /\ RegisterInv'
    BY <2>1, <2>2 DEF RefCounts, RegisterInv
  <2>4. LeaseInv'
    BY <1>5, <2>1 DEF SlotUnused
  <2>5. AllCounted' => \A t \in Threads : InWindow(t) => ver[t] # NewVersion
    BY <1>5 DEF SlotUnused, Note
  <2>6. AllCounted' => \A t \in Threads : InWindow(t) => ver[t] = latest
    BY <2>5, VersionIs DEF NewVersion, VERSION_NUM
  <2>7. WindowInv'
    BY <1>5, <2>1, <2>6 DEF SlotUnused
  <2>8. QED
    BY <2>3, <2>4, <2>7
<1>6. CASE ReadConf
  BY <1>6 DEF ReadConf
<1>7. CASE Delete
  <2>1. data[latest] # Null => state'[data[latest]] = state[data[latest]]
    BY <1>7 DEF Delete, ServedInv, SlotInv
  <2>2. AllCounted => \A t \in Threads :
                        /\ InWindow(t) => ver[t] = latest
                        /\ tv[t] # NO_VERSION => tv[t] = latest
    BY <1>0, <1>7, VersionIs DEF Delete, NewVersion, VERSION_NUM
  <2>3. LeaseInv'
    BY <1>7, <2>1, <2>2, NoVersion DEF Delete
  <2>4. QED
    BY <1>7, <2>3 DEF Delete
<1>8. CASE NewFails
  BY <1>0, <1>8 DEF NewFails
<1>9. CASE Load
  BY <1>9 DEF Load
<1>10. CASE LoadFails
  BY <1>10 DEF LoadFails
<1>11. CASE Stamp
  <2>1. AllCounted => ref' = ref
    BY <1>11 DEF Stamp
  <2>2. UNCHANGED <<latest, data, state, wpc, ver, reg, tv, ptr, races>>
    BY <1>11 DEF Stamp
  <2>3. races = {} => AllCounted
    OBVIOUS
  <2>4. \A v : Counted(v)' = Counted(v)
    BY <2>2 DEF Counted
  <2>5. RefCounts'
    BY <2>1, <2>2, <2>3, <2>4 DEF RefCounts
  <2>6. RegisterInv'
    <3> SUFFICES ASSUME NEW t \in Threads, Loaded(t)' # NO_VERSION
                 PROVE  /\ races' = {} => reg'[t] = ref'[Loaded(t)']
                        /\ AllCounted'
                             => reg'[t] >= Cardinality(Counted(Loaded(t))')
      BY DEF RegisterInv
    <3>1. Loaded(t)' = Loaded(t)
      BY <2>2 DEF Loaded
    <3>2. QED
      BY <2>1, <2>2, <2>3, <2>4, <3>1 DEF RegisterInv
  <2>7. WindowInv' /\ LeaseInv'
    BY <1>11, <2>1, <2>2 DEF Stamp
  <2>8. QED
    BY <2>5, <2>6, <2>7
<1>12. CASE Publish
  BY <1>12 DEF Publish
<1>13. CASE TruncateVersionFile
  BY <1>13 DEF TruncateVersionFile
<1>14. CASE WriteVersionFile
  BY <1>14 DEF WriteVersionFile
<1>15. ASSUME NEW o \in Objects, New(o) PROVE CountInv'
  <2>1. data[latest] # Null => state'[data[latest]] = state[data[latest]]
    BY <1>15 DEF New, ServedInv, ServedComplete
  <2>2. AllCounted => \A t \in Threads :
                        /\ InWindow(t) => ver[t] = latest
                        /\ tv[t] # NO_VERSION => tv[t] = latest
    BY <1>0, <1>15, VersionIs DEF New, NewVersion, VERSION_NUM
  <2>3. data'[latest] = data[latest]
    BY <1>15 DEF New
  <2>4. RefCounts' /\ WindowInv' /\ RegisterInv'
    BY <1>15 DEF New
  <2>5. LeaseInv'
    BY <1>15, <2>1, <2>2, <2>3, NoVersion DEF New
  <2>6. QED
    BY <2>4, <2>5
<1>16. QED
  BY <1>1, <1>2, <1>3, <1>4, <1>5, <1>6, <1>7, <1>8, <1>9, <1>10, <1>11,
     <1>12, <1>13, <1>14, <1>15 DEF Update

(* Thread t changes: the other threads' parts of the invariant are kept,   *)
(* unless t overtakes a thread that has loaded the same count.             *)
LEMMA CountProceed ==
  ASSUME TypeInv, ServedInv, CountInv, NEW t \in Threads, Proceed(t)
  PROVE  CountInv'
<1> USE DEF TypeInv, TypeOK, WorkerInv, CountInv, WindowInv, RegisterInv,
            Loaded, LeaseInv, InWindow, AllCounted, Refilling, Note,
            slots, heap, files, upd, proc
<1> USE NewVersionType, NewVersionKept, NoVersion
<1>1. CASE IncLoad(t)
  <2>1. RefCounts' /\ \A v : Counted(v)' = Counted(v)
    BY <1>1, RefCountsKept DEF IncLoad
  <2>2. reg'[t] = ref[ver[t]] /\ ver[t] \in Version
    BY <1>1 DEF IncLoad
  <2>3. RegisterInv'
    BY <1>1, <2>1, <2>2 DEF IncLoad, RefCounts
  <2>4. QED
    BY <1>1, <2>1, <2>3 DEF IncLoad
<1>2. CASE Inc(t)
  <2> DEFINE v == ver[t]
  <2>1. /\ v \in Version
        /\ tv[t] = NO_VERSION
        /\ Loaded(t) = v
        /\ ref' = [ref EXCEPT ![v] = reg[t] + 1]
        /\ tv' = [tv EXCEPT ![t] = v]
        /\ Loaded(t)' = NO_VERSION
        /\ AllCounted /\ Refilling => v # NewVersion
        /\ races \subseteq races'
    BY <1>2 DEF Inc
  <2>2. \A w \in Version :
          Cardinality(Counted(w)')
            = Cardinality(Counted(w)) + (IF w = v THEN 1 ELSE 0)
    <3> HIDE DEF v
    <3>1. v \in Version /\ tv[t] = NO_VERSION /\ tv' = [tv EXCEPT ![t] = v]
      BY <2>1
    <3>2. TypeInv
      OBVIOUS
    <3> HIDE DEF TypeInv
    <3>3. QED
      BY <3>1, <3>2, CountUp
  <2>3. \A w \in Version : Cardinality(Counted(w)) \in Nat
    BY CountedNat
  <2>4. RefCounts'
    <3> SUFFICES ASSUME NEW w \in Version
                 PROVE  /\ races' = {} => ref'[w] = Cardinality(Counted(w)')
                        /\ AllCounted' => ref'[w] >= Cardinality(Counted(w)')
      BY DEF RefCounts
    <3>1. CASE w = v
      BY <2>1, <2>2, <2>3, <3>1 DEF RefCounts
    <3>2. CASE w # v
      BY <2>1, <2>2, <2>3, <3>2 DEF RefCounts
    <3>3. QED
      BY <3>1, <3>2
  <2>5. RegisterInv'
    <3> SUFFICES ASSUME NEW u \in Threads, Loaded(u)' # NO_VERSION
                 PROVE  /\ races' = {} => reg'[u] = ref'[Loaded(u)']
                        /\ AllCounted'
                             => reg'[u] >= Cardinality(Counted(Loaded(u))')
      BY DEF RegisterInv
    <3>1. /\ u # t
          /\ Loaded(u)' = Loaded(u)
          /\ Loaded(u) \in Version
          /\ reg'[u] = reg[u]
      BY <1>2, <2>1 DEF Inc
    <3>2. AllCounted' => Loaded(u) # v
      BY <1>2, <2>1, <3>1 DEF Inc, WillUndo
    <3>3. AllCounted' => Cardinality(Counted(Loaded(u))')
                           = Cardinality(Counted(Loaded(u)))
      BY <2>2, <2>3, <3>1, <3>2
    <3>4. QED
      BY <2>1, <3>1, <3>2, <3>3
  <2>6. WindowInv'
    BY <1>2, <2>1 DEF Inc
  <2>7. LeaseInv'
    BY <1>2, <2>1 DEF Inc
  <2>8. QED
    BY <2>4, <2>5, <2>6, <2>7
<1>3. CASE Fetch(t)
  <2>1. RefCounts' /\ \A v : Counted(v)' = Counted(v)
    BY <1>3, RefCountsKept DEF Fetch
  <2>2. QED
    BY <1>3, <2>1 DEF Fetch
<1>4. CASE DecLoad(t)
  <2>1. RefCounts' /\ \A v : Counted(v)' = Counted(v)
    BY <1>4, RefCountsKept DEF DecLoad
  <2>2. reg'[t] = ref[tv[t]] /\ tv[t] \in Version
    BY <1>4 DEF DecLoad
  <2>3. RegisterInv'
    BY <1>4, <2>1, <2>2 DEF DecLoad, RefCounts
  <2>4. QED
    BY <1>4, <2>1, <2>3 DEF DecLoad
<1>5. CASE Dec(t)
  <2> DEFINE v == tv[t]
  <2>1. /\ v \in Version
        /\ Loaded(t) = v
        /\ ref' = [ref EXCEPT ![v] = reg[t] - 1]
        /\ tv' = [tv EXCEPT ![t] = NO_VERSION]
        /\ Loaded(t)' = NO_VERSION
        /\ races \subseteq races'
    BY <1>5 DEF Dec
  <2>2. \A w \in Version :
          Cardinality(Counted(w)')
            = Cardinality(Counted(w)) - (IF w = v THEN 1 ELSE 0)
    <3>1. TypeInv
      OBVIOUS
    <3> HIDE DEF TypeInv
    <3>2. QED
      BY <2>1, <3>1, CountDown
  <2>3. \A w \in Version : Cardinality(Counted(w)) \in Nat
    BY CountedNat
  <2>4. RefCounts'
    <3> SUFFICES ASSUME NEW w \in Version
                 PROVE  /\ races' = {} => ref'[w] = Cardinality(Counted(w)')
                        /\ AllCounted' => ref'[w] >= Cardinality(Counted(w)')
      BY DEF RefCounts
    <3>1. CASE w = v
      BY <2>1, <2>2, <2>3, <3>1 DEF RefCounts
    <3>2. CASE w # v
      BY <2>1, <2>2, <2>3, <3>2 DEF RefCounts
    <3>3. QED
      BY <3>1, <3>2
  <2>5. RegisterInv'
    <3> SUFFICES ASSUME NEW u \in Threads, Loaded(u)' # NO_VERSION
                 PROVE  /\ races' = {} => reg'[u] = ref'[Loaded(u)']
                        /\ AllCounted'
                             => reg'[u] >= Cardinality(Counted(Loaded(u))')
      BY DEF RegisterInv
    <3>1. /\ u # t
          /\ Loaded(u)' = Loaded(u)
          /\ Loaded(u) \in Version
          /\ reg'[u] = reg[u]
      BY <1>5, <2>1 DEF Dec
    <3>2. races' = {} => Loaded(u) # v
      BY <1>5, <2>1, <3>1 DEF Dec, WillUndo
    <3>3. Cardinality(Counted(Loaded(u))') <= Cardinality(Counted(Loaded(u)))
      BY <2>2, <2>3, <3>1
    <3>4. Cardinality(Counted(Loaded(u))') \in Int
      BY <2>2, <2>3, <3>1
    <3>5. QED
      BY <2>1, <2>3, <3>1, <3>2, <3>3, <3>4
  <2>6. AllCounted /\ Refilling => v # NewVersion
    BY NoneCounted
  <2>7. WindowInv'
    BY <1>5, <2>1, <2>6 DEF Dec
  <2>8. LeaseInv'
    BY <1>5, <2>1 DEF Dec
  <2>9. QED
    BY <2>4, <2>5, <2>7, <2>8
<1>6. QED
  BY <1>1, <1>2, <1>3, <1>4, <1>5 DEF Proceed

LEMMA CountSearch ==
  ASSUME TypeInv, ServedInv, CountInv, NEW t \in Threads, Search(t)
  PROVE  CountInv'
<1> USE DEF TypeInv, TypeOK, WorkerInv, CountInv, WindowInv, RegisterInv,
            Loaded, LeaseInv, InWindow, AllCounted, Refilling,
            slots, heap, files, upd, proc
<1> USE NewVersionKept
<1>0. RefCounts' /\ \A v : Counted(v)' = Counted(v)
  BY RefCountsKept DEF Search, PrepareFails, ReadVersion, Throw, wrk
<1>1. CASE PrepareFails(t)
  BY <1>0, <1>1 DEF PrepareFails, wrk
<1>2. CASE ReadVersion(t)
  BY <1>0, <1>2 DEF ReadVersion, ServedInv, ServedComplete
<1>3. CASE Throw(t)
  BY <1>0, <1>3 DEF Throw
<1>4. QED
  BY <1>1, <1>2, <1>3 DEF Search

LEMMA CountStep ==
  TypeInv /\ ServedInv /\ CountInv /\ [Next]_vars => CountInv'
<1> SUFFICES ASSUME TypeInv, ServedInv, CountInv, [Next]_vars PROVE CountInv'
  OBVIOUS
<1> USE NewVersionKept
    DEF CountInv, RefCounts, Counted, WindowInv, RegisterInv, Loaded, LeaseInv,
        InWindow, AllCounted, Refilling, slots, heap, upd, wrk
<1>1. CASE UNCHANGED vars
  BY <1>1 DEF vars
<1>2. CASE Environment
  BY <1>2 DEF Environment, TruncateConf, WriteConf
<1>3. QED
  BY <1>1, <1>2, CountUpdate, CountProceed, CountSearch DEF Next

LEMMA CountInvariant == Spec => [](TypeInv /\ ServedInv /\ CountInv)
<1>1. TypeInv /\ ServedInv /\ CountInv /\ [Next]_vars => CountInv'
  BY CountStep
<1>2. QED
  BY ServedInvariant, CountInit, <1>1, PTL DEF Spec

(* A slot's count is the number of threads that will count themselves off, *)
(* until ++ and -- of two threads overlap; it is never below that number   *)
(* until an increment is lost that way or comes after update() looked.     *)
THEOREM CountsHold == Spec => []RefCounts
<1>1. CountInv => RefCounts
  BY DEF CountInv
<1>2. QED
  BY CountInvariant, <1>1, PTL

(* A search works on a deleted or half loaded index only after an          *)
(* increment was lost or came too late: with plain ++ and --, any number   *)
(* of threads and no bound on how slow one is, these are the only ways.    *)
THEOREM LeaseIsKept == Spec => []LeaseKept
<1>1. TypeInv /\ CountInv => LeaseKept
  BY VersionIs, NumberAssumption
     DEF TypeInv, TypeOK, WorkerInv, CountInv, LeaseInv, LeaseKept, LeaseSafe,
         NO_VERSION, Null
<1>2. QED
  BY CountInvariant, <1>1, PTL

-----------------------------------------------------------------------------
(***************************************************************************)
(* Refinement.  The slot of a thread, and with it what the thread holds,   *)
(* changes when it reads the version and when it counts itself off.        *)
(***************************************************************************)
LEMMA RacesGrow == TypeInv /\ [Next]_vars => races \subseteq races'
<1> SUFFICES ASSUME TypeInv, [Next]_vars PROVE races \subseteq races'
  OBVIOUS
<1>1. CASE Update
  BY <1>1 DEF Update, Wake, NotNewer, Newer, GiveUp, SlotUnused, ReadConf,
     Delete, NewFails, Load, LoadFails, Stamp, Publish, TruncateVersionFile,
     WriteVersionFile, New, Note
<1>2. ASSUME NEW t \in Threads, Proceed(t) \/ Search(t)
      PROVE  races \subseteq races'
  BY <1>2 DEF Proceed, Search, IncLoad, Inc, Fetch, DecLoad, Dec,
     PrepareFails, ReadVersion, Throw, Note
<1>3. CASE Environment
  BY <1>3 DEF Environment, TruncateConf, WriteConf
<1>4. QED
  BY <1>1, <1>2, <1>3 DEF Next, vars

LEMMA SlotType ==
  ASSUME TypeInv, NEW t \in Threads
  PROVE  Slot(t) \in Version \cup {NO_VERSION}
BY DEF TypeInv, TypeOK, Slot

LEMMA SlotLatest ==
  ASSUME TypeInv, CountInv, AllCounted, Refilling, NEW t \in Threads,
         Slot(t) # NO_VERSION
  PROVE  Slot(t) = latest
<1>1. tv[t] # NewVersion
  BY NewVersionType, NoneCounted
     DEF TypeInv, TypeOK, CountInv, WindowInv
<1>2. CASE InWindow(t)
  BY <1>2 DEF Slot, CountInv, WindowInv, Refilling
<1>3. CASE ~InWindow(t)
  BY <1>1, <1>3, VersionIs
     DEF Slot, TypeInv, TypeOK, NewVersion, VERSION_NUM
<1>4. QED
  BY <1>2, <1>3

LEMMA ServiceObject ==
  ASSUME NEW o \in Objects,
         \/ Service!Create(o) \/ Service!Complete(o)
         \/ Service!Publish(o) \/ Service!Retire(o),
         AllCounted, AllCounted'
  PROVE  Service!Next
BY DEF Service!Next, Service!Keep

LEMMA ServiceUpdate ==
  ASSUME TypeInv, ServedInv, CountInv, AllCounted, AllCounted', Update
  PROVE  [Service!Next]_(Service!vars)
<1> USE DEF Service!vars
<1> USE NewVersionType, NumberAssumption DEF TypeInv, TypeOK
<1>1. \A t \in Threads : Slot(t)' = Slot(t)
  BY DEF Update, Wake, NotNewer, Newer, GiveUp, SlotUnused, ReadConf, Delete,
         NewFails, Load, LoadFails, Stamp, Publish, TruncateVersionFile,
         WriteVersionFile, New, wrk, Slot, InWindow
<1>2. Refilling => \A t \in Threads : Slot(t) \in {latest, NO_VERSION}
  BY SlotLatest
<1>3. ASSUME UNCHANGED <<latest, data, state>> PROVE UNCHANGED Service!vars
  BY <1>1, <1>3 DEF Held
<1>4. CASE Delete
  <2>1. UNCHANGED <<latest, data>> /\ Refilling
    BY <1>4 DEF Delete, slots, Refilling
  <2>2. \A t \in Threads : Held(t)' = Held(t)
    BY <1>1, <2>1 DEF Held
  <2>3. CASE data[NewVersion] \in Objects /\ state[data[NewVersion]] # "free"
    <3>0. PICK o \in Objects : o = data[NewVersion]
      BY <2>3
    <3>1. o # data[latest]
      BY <2>3, <3>0 DEF ServedInv, SlotInv, Null
    <3>2. \A t \in Threads : Held(t) # o
      BY <1>2, <2>1, <3>1, NumberAssumption DEF Held, Null
    <3>3. state' = [x \in Objects |-> IF x = o THEN "free" ELSE state[x]]
      BY <1>4, <3>0 DEF Delete
    <3>4. Service!Retire(o)
      BY <2>1, <2>2, <2>3, <3>0, <3>1, <3>2, <3>3 DEF Service!Retire
    <3>5. QED
      BY <3>4, ServiceObject
  <2>4. CASE ~(data[NewVersion] \in Objects /\ state[data[NewVersion]] # "free")
    <3>1. state' = state
      BY <1>4, <2>4 DEF Delete
    <3>2. QED
      BY <1>3, <2>1, <3>1
  <2>5. QED
    BY <2>3, <2>4
<1>5. CASE NewFails
  <2>1. UNCHANGED <<latest, state>> /\ Refilling /\ data'[latest] = data[latest]
    BY <1>5 DEF NewFails, heap, Refilling
  <2>2. \A t \in Threads : Held(t)' = Held(t)
    BY <1>1, <1>2, <2>1 DEF Held
  <2>3. QED
    BY <2>1, <2>2
<1>6. ASSUME NEW o \in Objects, New(o) PROVE Service!Create(o)
  <2>1. /\ latest' = latest
        /\ Refilling
        /\ data'[latest] = data[latest]
        /\ state[o] = "free"
        /\ state' = [state EXCEPT ![o] = "loading"]
    BY <1>6 DEF New, Refilling
  <2>2. \A t \in Threads : Held(t)' = Held(t)
    BY <1>1, <1>2, <2>1 DEF Held
  <2>3. QED
    BY <2>1, <2>2 DEF Service!Create
<1>7. CASE Load
  <2>0. PICK o \in Objects : o = data[NewVersion]
    BY <1>7 DEF Load, ServedInv, SlotInv
  <2>1. /\ UNCHANGED <<latest, data>>
        /\ state[o] = "loading"
        /\ state' = [state EXCEPT ![o] = "ready"]
    BY <1>7, <2>0 DEF Load, slots, ServedInv, SlotInv
  <2>2. \A t \in Threads : Held(t)' = Held(t)
    BY <1>1, <2>1 DEF Held
  <2>3. Service!Complete(o)
    BY <2>1, <2>2 DEF Service!Complete
  <2>4. QED
    BY <2>3, ServiceObject
<1>8. CASE Publish
  <2>0. PICK o \in Objects : o = data[NewVersion]
    BY <1>8 DEF Publish, ServedInv, SlotInv
  <2>1. /\ UNCHANGED <<data, state>>
        /\ latest' = NewVersion
        /\ state[o] = "ready"
        /\ o # data[latest]
    BY <1>8, <2>0, NumberAssumption DEF Publish, heap, ServedInv, SlotInv, Null
  <2>2. \A t \in Threads : Held(t)' = Held(t)
    BY <1>1, <2>1 DEF Held
  <2>3. Service!Publish(o)
    BY <2>0, <2>1, <2>2 DEF Service!Publish
  <2>4. QED
    BY <2>3, ServiceObject
<1>9. ASSUME Wake \/ NotNewer \/ Newer \/ GiveUp \/ SlotUnused \/ ReadConf
              \/ LoadFails \/ Stamp \/ TruncateVersionFile
              \/ WriteVersionFile
      PROVE  UNCHANGED <<latest, data, state>>
  BY <1>9 DEF Wake, NotNewer, Newer, GiveUp, SlotUnused, ReadConf, LoadFails,
              Stamp, TruncateVersionFile, WriteVersionFile, slots, heap
<1>10. QED
  BY <1>3, <1>4, <1>5, <1>6, <1>7, <1>8, <1>9, ServiceObject DEF Update

LEMMA ServiceThread ==
  ASSUME TypeInv, AllCounted, AllCounted',
         NEW t \in Threads, Proceed(t) \/ Search(t)
  PROVE  [Service!Next]_(Service!vars)
<1> USE DEF Service!vars, Service!Next, Service!Keep
<1> USE NumberAssumption, NoVersion DEF TypeInv, TypeOK
<1>1. UNCHANGED <<latest, data, state>>
  BY ServedThreads DEF heap
<1>2. \A u \in Threads \ {t} : Held(u)' = Held(u)
  <2>1. \A u \in Threads \ {t} : Slot(u)' = Slot(u)
    BY DEF Proceed, Search, IncLoad, Inc, Fetch, DecLoad, Dec, PrepareFails,
           ReadVersion, Throw, wrk, Slot, InWindow
  <2>2. QED
    BY <1>1, <2>1 DEF Held
<1>3. CASE Slot(t)' = Slot(t)
  <2>1. Held(t)' = Held(t)
    BY <1>1, <1>3 DEF Held
  <2>2. QED
    BY <1>1, <1>2, <2>1
<1>4. CASE Slot(t) = NO_VERSION /\ Slot(t)' = latest
  <2>1. Held(t) = Null /\ Held(t)' = data[latest]
    BY <1>1, <1>4 DEF Held
  <2>2. CASE data[latest] = Null
    BY <1>1, <1>2, <2>1, <2>2
  <2>3. CASE data[latest] # Null
    <3>1. [u \in Threads |-> Held(u)']
            = [[u \in Threads |-> Held(u)] EXCEPT ![t] = data[latest]]
      BY <1>2, <2>1
    <3>2. Service!Take(t)
      BY <1>1, <2>1, <2>3, <3>1 DEF Service!Take
    <3>3. QED
      BY <3>2
  <2>4. QED
    BY <2>2, <2>3
<1>5. CASE Slot(t)' = NO_VERSION
  <2>1. Held(t)' = Null
    BY <1>5 DEF Held
  <2>2. CASE Held(t) = Null
    BY <1>1, <1>2, <2>1, <2>2
  <2>3. CASE Held(t) # Null
    <3>1. [u \in Threads |-> Held(u)']
            = [[u \in Threads |-> Held(u)] EXCEPT ![t] = Null]
      BY <1>2, <2>1
    <3>2. Service!Release(t)
      BY <1>1, <2>3, <3>1 DEF Service!Release
    <3>3. QED
      BY <3>2
  <2>4. QED
    BY <2>2, <2>3
<1>6. CASE IncLoad(t) \/ Inc(t) \/ Fetch(t) \/ DecLoad(t) \/ PrepareFails(t)
  <2>1. Slot(t)' = Slot(t)
    BY <1>6 DEF IncLoad, Inc, Fetch, DecLoad, PrepareFails, wrk, Slot, InWindow
  <2>2. QED
    BY <1>3, <2>1
<1>7. CASE Dec(t) \/ Throw(t)
  <2>1. Slot(t)' = NO_VERSION
    BY <1>7 DEF Dec, Throw, Slot, InWindow
  <2>2. QED
    BY <1>5, <2>1
<1>8. CASE ReadVersion(t)
  <2>1. \/ Slot(t)' = Slot(t)
        \/ Slot(t) = NO_VERSION /\ Slot(t)' = latest
    BY <1>8 DEF ReadVersion, Slot, InWindow
  <2>2. QED
    BY <1>3, <1>4, <2>1
<1>9. QED
  BY <1>6, <1>7, <1>8 DEF Proceed, Search

(* The index manager implements IndexService, which lapses when the first  *)
(* increment is lost or too late: until then an index is only destroyed    *)
(* when it is neither served nor held by a search.                         *)
THEOREM Implements == Spec => ImplementsService
<1>1. Init => Service!Init
  BY NumberAssumption
     DEF Init, Service!Init, Held, Slot, InWindow, Version, VERSION_NUM,
         AllCounted
<1>2. TypeInv /\ ServedInv /\ CountInv /\ [Next]_vars
        => [Service!Next]_(Service!vars)
  <2> SUFFICES ASSUME TypeInv, ServedInv, CountInv, [Next]_vars
               PROVE  [Service!Next]_(Service!vars)
    OBVIOUS
  <2>1. CASE ~AllCounted'
    BY <2>1 DEF Service!Next, Service!Lapse
  <2>2. CASE AllCounted'
    <3>1. AllCounted
      BY <2>2, RacesGrow DEF AllCounted
    <3>2. ASSUME UNCHANGED <<latest, data, state, wrk>>
          PROVE  UNCHANGED Service!vars
      BY <2>2, <3>1, <3>2 DEF Service!vars, Held, Slot, InWindow, wrk
    <3>3. CASE UNCHANGED vars
      BY <3>2, <3>3 DEF vars, slots, heap
    <3>4. CASE Environment
      BY <3>2, <3>4 DEF Environment, TruncateConf, WriteConf, slots, heap
    <3>5. QED
      BY <2>2, <3>1, <3>3, <3>4, ServiceUpdate, ServiceThread DEF Next
  <2>3. QED
    BY <2>1, <2>2
<1>3. QED
  BY CountInvariant, <1>1, <1>2, PTL
     DEF Spec, Service!Spec, ImplementsService

(* What IndexService promises follows from its steps: until it lapses, the *)
(* current index and every index a thread has taken exist and are complete.*)
THEOREM ServiceGuarantee == Service!Spec => []Service!Guarantee
<1> USE DEF Service!Guarantee
<1>1. Service!Init => Service!Guarantee
  BY DEF Service!Init
<1>2. Service!Guarantee /\ [Service!Next]_(Service!vars) => Service!Guarantee'
  BY DEF Service!Next, Service!Keep, Service!Lapse, Service!Create,
     Service!Complete, Service!Publish, Service!Retire, Service!Take,
     Service!Release, Service!vars
<1>3. QED
  BY <1>1, <1>2, PTL DEF Service!Spec

-----------------------------------------------------------------------------
Descriptors == OneDescriptorPerSwitch /\ conf.mtime <= MaxTime

LEMMA DescriptorStep ==
  ASSUME Broken = {}, ~OutOfMemory, FdLimit > MaxTime,
         TypeInv, TypeInv', ServedInv, Descriptors, [Next]_vars
  PROVE  Descriptors'
<1> USE DEF TypeInv, TypeOK, ServedInv, SlotInv, TimeInv, Descriptors,
            OneDescriptorPerSwitch, Return, slots, files, upd, proc
<1> USE NumberAssumption, NewVersionType
<1>1. CASE Update
  <2>0. CASE TruncateVersionFile \/ WriteVersionFile \/ NotNewer \/ GiveUp
    <3>1. /\ UNCHANGED <<latest, timestamp, conf, fds>>
          /\ upc' \in {"sleep", "write"}
          /\ upc \in {"stat", "ref", "vfile", "write"}
      BY <2>0 DEF TruncateVersionFile, WriteVersionFile, NotNewer, GiveUp
    <3>2. QED
      BY <3>1
  <2>1. CASE Wake \/ Newer \/ SlotUnused \/ Delete
    <3>1. /\ UNCHANGED <<latest, timestamp, conf, fds>>
          /\ upc \in {"sleep", "stat", "ref"} \/ upc = "delete"
          /\ upc = "delete" => upc' = "new"
      BY <2>1 DEF Wake, Newer, SlotUnused, Delete
    <3>2. QED
      BY <3>1
  <2>8. CASE Stamp
    <3>1. /\ UNCHANGED <<latest, conf, fds>>
          /\ timestamp'[latest] = timestamp[latest]
          /\ upc = "stamp" /\ upc' = "publish"
      BY <2>8 DEF Stamp
    <3>2. QED
      BY <3>1
  <2>2. CASE ReadConf
    BY <2>2 DEF ReadConf
  <2>3. CASE Load \/ \E o \in Objects : New(o)
    BY <2>3 DEF Load, New
  <2>4. CASE NewFails
    BY <2>4 DEF NewFails
  <2>5. CASE LoadFails
    BY <2>5 DEF LoadFails
  <2>6. CASE Publish
    BY <2>6 DEF Publish
  <2>7. QED
    BY <1>1, <2>0, <2>1, <2>2, <2>3, <2>4, <2>5, <2>6, <2>8 DEF Update
<1>2. ASSUME NEW t \in Threads, Proceed(t) \/ Search(t) PROVE Descriptors'
  BY <1>2, ServedThreads
<1>3. CASE Environment
  BY <1>3 DEF Environment, TruncateConf, WriteConf
<1>4. CASE UNCHANGED vars
  BY <1>4 DEF vars
<1>5. QED
  BY <1>1, <1>2, <1>3, <1>4 DEF Next

(* While no load fails, get_index_path leaks at most one descriptor per    *)
(* switch: waiting for a slow search opens nothing.                        *)
THEOREM DescriptorsBounded ==
  ASSUME Broken = {}, ~OutOfMemory, FdLimit > MaxTime, MaxTime > 0
  PROVE  Spec => []OneDescriptorPerSwitch
<1>1. Init => Descriptors
  <2>1. Init => conf.mtime \in {0, 1}
    BY DEF Init
  <2>2. QED
    BY <2>1, NumberAssumption, VersionIs
       DEF Init, Descriptors, OneDescriptorPerSwitch
<1>2. TypeInv /\ TypeInv' /\ ServedInv /\ Descriptors /\ [Next]_vars
        => Descriptors'
  BY DescriptorStep
<1>3. Descriptors => OneDescriptorPerSwitch
  BY DEF Descriptors
<1>4. TypeInv /\ TypeInv' /\ ServedInv /\ [Next]_vars => ServedInv'
  BY ServedStep
<1>5. QED
  BY ServedInit, <1>1, <1>2, <1>3, <1>4, TypeCorrect, PTL DEF Spec, TypeInv
=============================================================================
