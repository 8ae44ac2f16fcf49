---------------------------- MODULE IndexManager ----------------------------
(***************************************************************************)
(* The double-buffered index of the search server (se/bs/index_manager.cpp)*)
(* as its threads see it: one switch thread that reloads the index when    *)
(* the conf file is newer than the index in use, and the search threads of *)
(* BS::basic_search, which count themselves on a slot, use the IndexData   *)
(* it points to, and count themselves off.  Nothing is locked: every read  *)
(* and write of shared memory is a step of its own.                        *)
(*                                                                         *)
(* The environment is autoindex/script/trans_index.sh, which rewrites the  *)
(* conf file in two steps (the shell truncates, then echo writes).         *)
(***************************************************************************)
EXTENDS Integers, FiniteSets

CONSTANTS
  Threads,         \* search threads of the server's pool
  Objects,         \* addresses an IndexData object can have
  Paths,           \* index directories the conf file can name
  Broken,          \* those of them IndexData::load refuses
  BootConf,        \* what the conf file can hold when the server starts
  NoPath,          \* content of an empty file
  NoFile,          \* there is no file
  MaxTime,         \* bound: the largest modification time
  MaxRef,          \* bound: no search begins while a count is beyond it
  GoesOnAfter,     \* bound: no search begins after other races than these
  FdLimit,         \* file descriptors the process has left for conf reads
  OutOfMemory      \* an allocation may fail

ASSUME PathAssumption ==
  /\ Broken \subseteq Paths
  /\ NoPath \notin Paths
  /\ NoFile \notin Paths
  /\ NoPath # NoFile
  /\ BootConf \subseteq Paths \cup {NoPath, NoFile}

ASSUME NumberAssumption ==
  /\ MaxTime \in Nat
  /\ MaxRef \in Nat
  /\ FdLimit \in Nat
  /\ 0 \notin Objects

ASSUME FlagAssumption == OutOfMemory \in BOOLEAN

ASSUME ThreadAssumption == IsFiniteSet(Threads)

VERSION_NUM == 2
Version == 0 .. VERSION_NUM - 1
NO_VERSION == -1      \* static_cast<uint32_t>(-1)
Null == 0             \* the NULL IndexData*

VARIABLES
  \* IndexManager: _latest_version and the slots _index[v]
  latest, data, ref, timestamp,
  \* the IndexData objects: their life cycle and the directory they hold
  state, from,
  \* conf file (content and mtime) and version file
  conf, vfile,
  \* the thread in update(): where it is, curr_time, index_path, and the
  \* conf streams get_index_path opened and never closed
  upc, curr, path, fds,
  \* IndexManager::init has returned; how the process died, if it did
  booted, dead,
  \* search threads: where they are, local version, loaded count,
  \* _thread_version and gt_thread_data->index_data
  wpc, ver, reg, tv, ptr,
  \* history, read by a bound only: how the counts were ever falsified.  A
  \* thread's increment ("inc") or decrement ("dec") of a count was lost, or
  \* update() found a count at 0 while a thread that had already chosen the
  \* slot was not yet counted there ("window")
  races

slots == <<latest, data, ref, timestamp>>
heap  == <<state, from>>
files == <<conf, vfile>>
upd   == <<upc, curr, path, fds>>
proc  == <<booted, dead>>
wrk   == <<wpc, ver, reg, tv, ptr>>
vars  == <<slots, heap, files, upd, proc, wrk, races>>

(* Mutant of NewVersion: the index is reloaded in place.                   *)
NewVersion_InPlace == latest

NewVersion == (latest + 1) % VERSION_NUM

(* The directory of the index that new searches take. *)
Served == IF data[latest] = Null THEN NoPath ELSE from[data[latest]]

TypeOK ==
  /\ latest \in Version
  /\ data \in [Version -> Objects \cup {Null}]
  /\ ref \in [Version -> Int]
  /\ timestamp \in [Version -> Nat]
  /\ state \in [Objects -> {"free", "loading", "ready"}]
  /\ from \in [Objects -> Paths \cup {NoPath}]
  /\ conf \in [path : Paths \cup {NoPath, NoFile}, mtime : Nat]
  /\ vfile \in Paths \cup {NoPath}
  /\ upc \in {"sleep", "stat", "ref", "path", "delete", "new", "load",
              "stamp", "publish", "vfile", "write"}
  /\ curr \in Nat
  /\ path \in Paths \cup {NoPath}
  /\ fds \in 0 .. FdLimit
  /\ booted \in BOOLEAN
  /\ dead \in {"no", "exit", "null", "wild", "assert", "fclose"}
  /\ wpc \in [Threads -> {"fresh", "idle", "version", "inc", "counted",
                          "using", "dec"}]
  /\ ver \in [Threads -> Version \cup {NO_VERSION}]
  /\ reg \in [Threads -> Int]
  /\ tv \in [Threads -> Version \cup {NO_VERSION}]
  /\ ptr \in [Threads -> Objects \cup {Null}]
  /\ races \subseteq {"inc", "dec", "window"}

(***************************************************************************)
(* IndexManager::init runs the first update() itself; the process has no   *)
(* other thread yet.  A missing conf file has modification time 0.         *)
(***************************************************************************)
Init ==
  /\ latest = 0
  /\ data = [v \in Version |-> Null]
  /\ ref = [v \in Version |-> 0]
  /\ timestamp = [v \in Version |-> 0]
  /\ state = [o \in Objects |-> "free"]
  /\ from = [o \in Objects |-> NoPath]
  /\ conf \in {[path |-> p, mtime |-> IF p = NoFile THEN 0 ELSE 1] :
                 p \in BootConf}
  /\ vfile = NoPath
  /\ upc = "stat"
  /\ curr = 0
  /\ path = NoPath
  /\ fds = 0
  /\ booted = FALSE
  /\ dead = "no"
  /\ wpc = [t \in Threads |-> "fresh"]
  /\ ver = [t \in Threads |-> NO_VERSION]
  /\ reg = [t \in Threads |-> 0]
  /\ tv = [t \in Threads |-> NO_VERSION]
  /\ ptr = [t \in Threads |-> Null]
  /\ races = {}

(***************************************************************************)
(* trans_index.sh: `echo $index_path > $SE_INDEX_CONF`.  Opening the file  *)
(* truncates it and stamps it; writing the path stamps it again, possibly  *)
(* a second later.  The script sleeps 5 seconds before it ends, so two     *)
(* rewrites never fall into the same second.                               *)
(***************************************************************************)
TruncateConf ==
  /\ conf.path # NoPath
  /\ \E m \in conf.mtime + 1 .. MaxTime :
       conf' = [path |-> NoPath, mtime |-> m]
  /\ UNCHANGED <<slots, heap, vfile, upd, proc, wrk, races>>

WriteConf(p) ==
  /\ conf.path = NoPath
  /\ \E m \in conf.mtime .. MaxTime :
       conf' = [path |-> p, mtime |-> m]
  /\ UNCHANGED <<slots, heap, vfile, upd, proc, wrk, races>>

-----------------------------------------------------------------------------
(***************************************************************************)
(* update(), one action per access to memory or files that others see.     *)
(***************************************************************************)

(* A thread between reading _latest_version and counting itself there. *)
InWindow(t) == wpc[t] \in {"version", "inc"}

(* The history: it is remembered that such a thing happened. *)
Note(kind, happened) ==
  races' = IF happened THEN races \cup {kind} ELSE races

(* switch_index_func: the sleep ends. *)
Wake ==
  /\ upc = "sleep"
  /\ upc' = "stat"
  /\ UNCHANGED <<slots, heap, files, curr, path, fds, proc, wrk, races>>

(* update() returns.  If the first one fails, or the switch thread cannot  *)
(* be created after it, init fails and main returns.  Later errors are     *)
(* only logged.                                                            *)
Return(ok) ==
  /\ upc' = "sleep"
  /\ \/ (booted \/ ok) /\ booted' = TRUE /\ UNCHANGED dead
     \/ ~booted /\ (ok => OutOfMemory) /\ dead' = "exit" /\ UNCHANGED booted

(* Mutant of ConfIsOld: a conf file of the same second counts as newer.    *)
ConfIsOld_Strict == timestamp[latest] > conf.mtime

(* last_time >= curr_time *)
ConfIsOld == timestamp[latest] >= conf.mtime

NotNewer ==
  /\ upc = "stat"
  /\ ConfIsOld
  /\ Return(TRUE)
  /\ UNCHANGED <<slots, heap, files, curr, path, fds, wrk, races>>

Newer ==
  /\ upc = "stat"
  /\ ~ConfIsOld
  /\ curr' = conf.mtime
  /\ upc' = "ref"
  /\ UNCHANGED <<slots, heap, files, path, fds, proc, wrk, races>>

(* Mutant of InUse: the count is not looked at.                            *)
InUse_Ignored == FALSE

InUse == ref[NewVersion] # 0

(* "new version index is still using, give up" *)
GiveUp ==
  /\ upc = "ref"
  /\ InUse
  /\ Return(TRUE)
  /\ UNCHANGED <<slots, heap, files, curr, path, fds, wrk, races>>

SlotUnused ==
  /\ upc = "ref"
  /\ ~InUse
  /\ upc' = "path"
  /\ Note("window", \E t \in Threads : InWindow(t) /\ ver[t] = NewVersion)
  /\ UNCHANGED <<slots, heap, files, curr, path, fds, proc, wrk>>

(* get_index_path: fgets fails on the truncated file, which is closed; a   *)
(* file that was read stays open.  When no descriptor is left fopen fails, *)
(* and fclose(NULL) kills the process.                                     *)
ReadConf ==
  /\ upc = "path"
  /\ IF fds = FdLimit
       THEN dead' = "fclose" /\ UNCHANGED <<upc, path, fds, booted>>
     ELSE IF conf.path = NoPath
       THEN Return(FALSE) /\ UNCHANGED <<path, fds>>
     ELSE /\ path' = conf.path
          /\ fds' = fds + 1
          /\ upc' = "delete"
          /\ UNCHANGED proc
  /\ UNCHANGED <<slots, heap, files, curr, wrk, races>>

(* `delete index.data`: the pointer keeps its value until the next step. *)
Delete ==
  /\ upc = "delete"
  /\ state' = [o \in Objects |->
                 IF o = data[NewVersion] THEN "free" ELSE state[o]]
  /\ from' = [o \in Objects |->
                 IF o = data[NewVersion] THEN NoPath ELSE from[o]]
  /\ upc' = "new"
  /\ UNCHANGED <<slots, files, curr, path, fds, proc, wrk, races>>

(* `new(std::nothrow) IndexData`, at any free address *)
New(o) ==
  /\ upc = "new"
  /\ state[o] = "free"
  /\ data' = [data EXCEPT ![NewVersion] = o]
  /\ state' = [state EXCEPT ![o] = "loading"]
  /\ upc' = "load"
  /\ UNCHANGED <<latest, ref, timestamp, from, files, curr, path,
                 fds, proc, wrk, races>>

NewFails ==
  /\ upc = "new"
  /\ OutOfMemory
  /\ data' = [data EXCEPT ![NewVersion] = Null]
  /\ Return(FALSE)
  /\ UNCHANGED <<latest, ref, timestamp, heap, files, curr, path,
                 fds, wrk, races>>

(* IndexData::load, which opens files too.  A failed load leaves the       *)
(* object in the slot.                                                     *)
Load ==
  /\ upc = "load"
  /\ path \notin Broken
  /\ fds < FdLimit
  /\ state' = [state EXCEPT ![data[NewVersion]] = "ready"]
  /\ from' = [from EXCEPT ![data[NewVersion]] = path]
  /\ upc' = "stamp"
  /\ UNCHANGED <<slots, files, curr, path, fds, proc, wrk, races>>

LoadFails ==
  /\ upc = "load"
  /\ path \in Broken \/ OutOfMemory \/ fds = FdLimit
  /\ Return(FALSE)
  /\ UNCHANGED <<slots, heap, files, curr, path, fds, wrk, races>>

(* Mutants of StampTime: the file is looked at again; no stamp.            *)
StampTime_Again == conf.mtime
StampTime_Never == timestamp[NewVersion]

StampTime == curr

(* index.ref = 0; index.timestamp = curr_time *)
Stamp ==
  /\ upc = "stamp"
  /\ ref' = [ref EXCEPT ![NewVersion] = 0]
  /\ timestamp' = [timestamp EXCEPT ![NewVersion] = StampTime]
  /\ upc' = "publish"
  /\ UNCHANGED <<latest, data, heap, files, curr, path, fds, proc, wrk, races>>

Publish ==
  /\ upc = "publish"
  /\ latest' = NewVersion
  /\ upc' = "vfile"
  /\ UNCHANGED <<data, ref, timestamp, heap, files, curr, path, fds,
                 proc, wrk, races>>

(* Mutant of VersionText: the conf file is copied.                         *)
VersionText_FromConf == conf.path

VersionText == path

(* update_version_file: fopen empties the file; if it fails, the file      *)
(* keeps its content and update() returns ...                              *)
TruncateVersionFile ==
  /\ upc = "vfile"
  /\ \/ Return(TRUE) /\ UNCHANGED vfile
     \/ vfile' = NoPath /\ upc' = "write" /\ UNCHANGED proc
  /\ UNCHANGED <<slots, heap, conf, curr, path, fds, wrk, races>>

(* ... the text arrives with fclose, or never: what fprintf and fclose     *)
(* return is ignored.                                                      *)
WriteVersionFile ==
  /\ upc = "write"
  /\ vfile' \in {VersionText, NoPath}
  /\ Return(TRUE)
  /\ UNCHANGED <<slots, heap, conf, curr, path, fds, wrk, races>>

Update ==
  /\ dead = "no"
  /\ \/ Wake \/ NotNewer \/ Newer \/ GiveUp \/ SlotUnused \/ ReadConf
     \/ Delete \/ NewFails \/ Load \/ LoadFails \/ Stamp \/ Publish
     \/ TruncateVersionFile \/ WriteVersionFile
     \/ \E o \in Objects : New(o)

-----------------------------------------------------------------------------
(***************************************************************************)
(* BS::basic_search on thread t.                                           *)
(***************************************************************************)

(* The first search of a thread allocates gt_thread_data.  If that fails,  *)
(* _prepare returns before get_index_data, but basic_search still runs     *)
(* _clean, which decrements _index[NO_VERSION].ref.                        *)
PrepareFails(t) ==
  /\ booted
  /\ wpc[t] = "fresh"
  /\ OutOfMemory
  /\ dead' = "wild"
  /\ UNCHANGED <<slots, heap, files, upd, booted, wrk, races>>

(* get_index_data: the assertion, then version = _latest_version.  Counts  *)
(* of which updates were lost drift without end, hence the bounds.         *)
ReadVersion(t) ==
  /\ booted
  /\ \A v \in Version : ref[v] \in -MaxRef .. MaxRef
  /\ races \subseteq GoesOnAfter
  /\ wpc[t] \in {"fresh", "idle"}
  /\ IF tv[t] # NO_VERSION
       THEN dead' = "assert" /\ UNCHANGED <<wpc, ver>>
       ELSE /\ ver' = [ver EXCEPT ![t] = latest]
            /\ wpc' = [wpc EXCEPT ![t] = "version"]
            /\ UNCHANGED dead
  /\ UNCHANGED <<slots, heap, files, upd, booted, reg, tv, ptr, races>>

(* Mutant of UnrefSlot: the search counts itself off the newest slot.      *)
UnrefSlot_Latest(t) == latest

UnrefSlot(t) == tv[t]

(* A thread other than t has loaded the count of slot v and not yet stored *)
(* it: its store will undo what t stores now.                              *)
WillUndo(t, v) ==
  \E u \in Threads \ {t} : \/ wpc[u] = "inc" /\ ver[u] = v
                           \/ wpc[u] = "dec" /\ UnrefSlot(u) = v

(* ++_index[version].ref: load (and add), store.  Then _thread_version =   *)
(* version.                                                                *)
IncLoad(t) ==
  /\ wpc[t] = "version"
  /\ reg' = [reg EXCEPT ![t] = ref[ver[t]]]
  /\ wpc' = [wpc EXCEPT ![t] = "inc"]
  /\ UNCHANGED <<slots, heap, files, upd, proc, ver, tv, ptr, races>>

Inc(t) ==
  /\ wpc[t] = "inc"
  /\ ref' = [ref EXCEPT ![ver[t]] = reg[t] + 1]
  /\ Note("inc", WillUndo(t, ver[t]))
  /\ tv' = [tv EXCEPT ![t] = ver[t]]
  /\ ver' = [ver EXCEPT ![t] = NO_VERSION]
  /\ reg' = [reg EXCEPT ![t] = 0]
  /\ wpc' = [wpc EXCEPT ![t] = "counted"]
  /\ UNCHANGED <<latest, data, timestamp, heap, files, upd, proc, ptr>>

(* return _index[version].data; the search then works on that object.  A   *)
(* NULL one kills the process when the first token that is not empty is    *)
(* looked up (load_index); a search without one does not notice.           *)
Fetch(t) ==
  /\ wpc[t] = "counted"
  /\ \/ /\ data[tv[t]] = Null
        /\ dead' = "null"
        /\ UNCHANGED <<wpc, ptr>>
     \/ /\ ptr' = [ptr EXCEPT ![t] = data[tv[t]]]
        /\ wpc' = [wpc EXCEPT ![t] = "using"]
        /\ UNCHANGED dead
  /\ UNCHANGED <<slots, heap, files, upd, booted, ver, reg, tv, races>>

(* std::bad_alloc leaves basic_search without _clean; the processor of the *)
(* RPC library catches it and the thread goes on with the next request.    *)
Throw(t) ==
  /\ wpc[t] = "using"
  /\ OutOfMemory
  /\ wpc' = [wpc EXCEPT ![t] = "idle"]
  /\ ptr' = [ptr EXCEPT ![t] = Null]
  /\ UNCHANGED <<slots, heap, files, upd, proc, ver, reg, tv, races>>

(* _clean: --_index[_thread_version].ref, _thread_version = NO_VERSION *)
DecLoad(t) ==
  /\ wpc[t] = "using"
  /\ reg' = [reg EXCEPT ![t] = ref[UnrefSlot(t)]]
  /\ ptr' = [ptr EXCEPT ![t] = Null]
  /\ wpc' = [wpc EXCEPT ![t] = "dec"]
  /\ UNCHANGED <<slots, heap, files, upd, proc, ver, tv, races>>

Dec(t) ==
  /\ wpc[t] = "dec"
  /\ ref' = [ref EXCEPT ![UnrefSlot(t)] = reg[t] - 1]
  /\ Note("dec", WillUndo(t, UnrefSlot(t)))
  /\ tv' = [tv EXCEPT ![t] = NO_VERSION]
  /\ reg' = [reg EXCEPT ![t] = 0]
  /\ wpc' = [wpc EXCEPT ![t] = "idle"]
  /\ UNCHANGED <<latest, data, timestamp, heap, files, upd, proc, ver, ptr>>

(* A search that has begun goes on; nothing makes a new one begin. *)
Proceed(t) ==
  /\ dead = "no"
  /\ IncLoad(t) \/ Inc(t) \/ Fetch(t) \/ DecLoad(t) \/ Dec(t)

Search(t) ==
  /\ dead = "no"
  /\ PrepareFails(t) \/ ReadVersion(t) \/ Throw(t)

-----------------------------------------------------------------------------
Environment ==
  /\ dead = "no"
  /\ TruncateConf \/ \E p \in Paths : WriteConf(p)

Next ==
  \/ Update
  \/ \E t \in Threads : Proceed(t) \/ Search(t)
  \/ Environment

Spec == Init /\ [][Next]_vars

(* The switch thread runs forever and every search that began is finished: *)
(* both are loops over finite data.  Nothing is assumed of the clients or  *)
(* of the writer of the conf file.                                         *)
FairSpec ==
  /\ Spec
  /\ WF_vars(Update)
  /\ \A t \in Threads : WF_vars(Proceed(t))

-----------------------------------------------------------------------------
(***************************************************************************)
(* Properties that hold whatever the threads' interleaving.                *)
(***************************************************************************)

(* The slot new searches take never holds an object that is deleted or     *)
(* half loaded, although update() deletes and loads beside it; it is empty *)
(* exactly until the first index was published (update, l.112-123).        *)
ServedComplete ==
  /\ data[latest] # Null => state[data[latest]] = "ready"
  /\ data[latest] = Null <=> timestamp[latest] = 0

(* Whenever update() would take the conf file for served (the early return *)
(* of l.96), the index that is served is the one the conf file names: no   *)
(* rewrite of the file is missed, although its modification time and its   *)
(* content are read at different times.                                    *)
ConfNotMissed ==
  timestamp[latest] >= conf.mtime /\ conf.path # NoFile
    => Served = conf.path

(* New searches never go back: the served index is only replaced by one    *)
(* loaded for a newer conf file (update, l.96 and l.121-123).              *)
MonotonicServe ==
  [][data'[latest'] # data[latest]
       => timestamp'[latest'] > timestamp[latest]]_vars

(* The version file, by which trans_index.sh knows that the server has     *)
(* switched: a reader finds it empty, or it finds a name that was written  *)
(* while the index of that name was being served.                          *)
VersionFileNamesServed ==
  [][vfile' # vfile => vfile' \in {NoPath, Served'}]_vars

(***************************************************************************)
(* What the reference counts are worth.  Nothing keeps them exact: plain   *)
(* ++ and -- of two threads can overlap, and a thread can be slower than a *)
(* sleep of the switch thread.                                             *)
(***************************************************************************)

(* Every search was counted, in time. *)
AllCounted == races \subseteq {"dec"}

Counted(v) == {t \in Threads : tv[t] = v}

(* A slot's count is the number of threads that will count themselves off, *)
(* until an overlap of ++ and -- makes it wrong; and it errs on the safe   *)
(* side, keeping the slot, until an increment is lost or comes too late.   *)
RefCounts ==
  \A v \in Version :
    /\ races = {}  => ref[v] = Cardinality(Counted(v))
    /\ AllCounted  => ref[v] >= Cardinality(Counted(v))

(* No search works on a deleted or half loaded index: what the counts are  *)
(* for.  The code does not always keep it.                                 *)
LeaseSafe ==
  \A t \in Threads :
    wpc[t] = "using" /\ ptr[t] # Null => state[ptr[t]] = "ready"

(* A search works on a deleted or half loaded index only after an          *)
(* increment was lost or came after the check of l.99; there is no other   *)
(* way, and a lost decrement never leads there.                            *)
LeaseKept == AllCounted => LeaseSafe

(* What l.99-102 promise of a slot whose searches counted themselves in    *)
(* time: while one of them is still using it, it is not given up to the    *)
(* new index.                                                              *)
CountsProtect == "window" \notin races => LeaseSafe

(* get_index_path leaves one descriptor open for every conf file read.     *)
(* While loads succeed that is one per switch, since update() looks at the *)
(* reference count before it reads the file: waiting for a slow search     *)
(* costs nothing.                                                          *)
OneDescriptorPerSwitch ==
  fds <= timestamp[latest]
           + (IF upc \in {"delete", "new", "load", "stamp", "publish"}
                THEN 1 ELSE 0)

(***************************************************************************)
(* Liveness.  If the conf file comes to rest on a loadable index and no    *)
(* ++ or -- was lost, that index is served in the end: the searches on the *)
(* older slot drain.  (A slot whose count is too high is in use for ever.) *)
(***************************************************************************)
ConfServed ==
  \A p \in Paths \ Broken :
    <>[](conf.path = p /\ booted /\ races = {}) => <>[](Served = p)

(***************************************************************************)
(* Refinement.  A thread holds an index from the moment it has chosen the  *)
(* slot, before it is counted.  The promise lapses with the first          *)
(* increment that is lost or too late.                                     *)
(***************************************************************************)
Slot(t) == IF InWindow(t) THEN ver[t]
           ELSE IF wpc[t] \in {"counted", "using", "dec"} THEN tv[t]
           ELSE NO_VERSION

Held(t) == IF Slot(t) = NO_VERSION THEN Null ELSE data[Slot(t)]

Service == INSTANCE IndexService WITH
  None     <- Null,
  current  <- data[latest],
  held     <- [t \in Threads |-> Held(t)],
  live     <- {o \in Objects : state[o] # "free"},
  complete <- {o \in Objects : state[o] = "ready"},
  lapsed   <- ~AllCounted

ImplementsService == Service!Spec
=============================================================================
