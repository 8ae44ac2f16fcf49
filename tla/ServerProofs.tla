---------------------------- MODULE ServerProofs ----------------------------
(***************************************************************************)
(* Proofs about the life of the server's process, for every number of      *)
(* signals, and about the way of a request through one of its threads, for *)
(* every request and every catalog_info.conf.                              *)
(*                                                                         *)
(* The process: the inductive invariant says how far main has come when    *)
(* g_server and _server are set, and what a handler that has passed the    *)
(* test of stop() may count on.                                            *)
(*                                                                         *)
(* The request: the invariant says that an answer is what advance_search   *)
(* makes of the request; the rest is about the loops it runs.              *)
(***************************************************************************)
EXTENDS Server, SearchPath, DataLemmas

MainPoints == {"signals", "new", "as", "index", "tag", "segment", "catalog",
               "run", "create", "serve", "loop"}
HandlerPoints ==
  {"none", "log", "enter", "test", "call", "mark", "over", "left", "stuck"}
ExitCodes == {Running, Killed, 0, 1, 2, RunFailed}

TypeInv ==
  /\ main \in MainPoints
  /\ exit \in ExitCodes
  /\ file \in [Files -> Kinds]
  /\ gServer \in BOOLEAN
  /\ server \in BOOLEAN
  /\ isStop \in BOOLEAN
  /\ handler \in [Handlers -> HandlerPoints]
  /\ on \in [Handlers -> {"main", "other"}]
  /\ wedged \in BOOLEAN
  /\ breakLoop \in BOOLEAN
  /\ early \in BOOLEAN

(* g_server is set once and for all when main goes on after `new'. *)
GlobalSet == main \notin {"signals", "new"} => gServer

(* _server is there from the end of its creation on. *)
ServerSet == server => main \in {"serve", "loop"}

(* No invocation of handle_signal before signal() was called. *)
HandlersSet == \A h \in Handlers : handler[h] # "none" => main # "signals"

(* What stop() has tested still holds when it calls. *)
CallsServer == \A h \in Handlers : handler[h] = "call" => server

(* Whoever sets _is_stop has called the library's stop() before. *)
MarksAfterCall ==
  /\ \A h \in Handlers : handler[h] = "mark" => breakLoop \/ early
  /\ isStop => breakLoop \/ early

Inv ==
  /\ TypeInv
  /\ GlobalSet
  /\ ServerSet
  /\ HandlersSet
  /\ CallsServer
  /\ MarksAfterCall
  /\ KilledOnlyEarly

-----------------------------------------------------------------------------
LEMMA InitInv == Init => Inv
  BY DEF Init, Inv, TypeInv, GlobalSet, ServerSet, HandlersSet, CallsServer,
         MarksAfterCall, KilledOnlyEarly, MainPoints, HandlerPoints, ExitCodes,
         Running, Killed, RunFailed

(* A step of main keeps the invariant: it leaves the handlers and what     *)
(* stop() writes alone, and _server is created before any handler can have *)
(* seen it.                                                                *)
LEMMA MainKeepsInv ==
  ASSUME Inv, Main
  PROVE  Inv'
<1> USE DEF Inv, TypeInv, GlobalSet, ServerSet, HandlersSet, CallsServer,
            MarksAfterCall, KilledOnlyEarly, MainPoints, HandlerPoints,
            ExitCodes, Running, Killed, RunFailed, Alive, At, Goto, Exit,
            stopVars, handlerVars
<1>1. CASE SetSignals
  BY <1>1 DEF SetSignals
<1>2. CASE NewServer
  <2>1. CASE gServer' = TRUE /\ Goto("as")
    BY <1>2, <2>1 DEF NewServer
  <2>2. CASE gServer' = FALSE /\ Exit(1)
    BY <1>2, <2>2 DEF NewServer
  <2>3. QED
    BY <1>2, <2>1, <2>2 DEF NewServer
<1>3. CASE InitAs
  BY <1>3 DEF InitAs, AsFails
<1>4. CASE InitIndex
  BY <1>4 DEF InitIndex
<1>5. CASE InitTags
  BY <1>5 DEF InitTags
<1>6. CASE InitSegment
  BY <1>6 DEF InitSegment
<1>7. CASE InitCatalog
  BY <1>7 DEF InitCatalog
<1>8. CASE EnterRun
  BY <1>8 DEF EnterRun
<1>9. CASE Create
  <2>1. /\ main = "create" /\ exit = Running
        /\ UNCHANGED <<file, gServer, isStop, handler, on, wedged, breakLoop,
                       early>>
        /\ \/ server' = TRUE /\ main' = "serve" /\ exit' = exit
           \/ server' = FALSE /\ main' = main /\ exit' = RunFailed
    BY <1>9 DEF Create
  <2>2. TypeInv'
    BY <2>1
  <2>3. GlobalSet' /\ HandlersSet' /\ MarksAfterCall' /\ KilledOnlyEarly'
    BY <2>1
  <2>4. ServerSet'
    BY <2>1
  <2>5. CallsServer'
    <3>1. ~server
      BY <2>1
    <3>2. QED
      BY <2>1, <3>1
  <2>6. QED
    BY <2>2, <2>3, <2>4, <2>5
<1>10. CASE Serve
  BY <1>10 DEF Serve
<1>11. CASE LoopEnds
  BY <1>11 DEF LoopEnds
<1>12. QED
  BY <1>1, <1>2, <1>3, <1>4, <1>5, <1>6, <1>7, <1>8, <1>9, <1>10, <1>11 DEF Main

(* So does a step of any invocation of handle_signal, whatever thread it   *)
(* runs on and wherever main and the other invocations are.                *)
LEMMA HandlersKeepInv ==
  ASSUME Inv, NEW h \in Handlers, Signal(h) \/ Handle(h)
  PROVE  Inv'
<1> USE DEF Inv, TypeInv, GlobalSet, ServerSet, HandlersSet, CallsServer,
            MarksAfterCall, KilledOnlyEarly, MainPoints, HandlerPoints,
            ExitCodes, Running, Killed, RunFailed, Alive, Exit,
            HandlerAt, HandlerGoto, stopVars, handlerVars
<1>1. CASE Signal(h)
  BY <1>1 DEF Signal, Threads
<1>2. CASE Enter(h)
  BY <1>2 DEF Enter
<1>3. CASE TestStop(h)
  BY <1>3 DEF TestStop, MayStop, Refused
<1>4. CASE CallStop(h)
  BY <1>4 DEF CallStop, LoopHears
<1>5. CASE MarkStopped(h)
  BY <1>5 DEF MarkStopped
<1>6. CASE LogBefore(h)
  BY <1>6 DEF LogBefore
<1>7. CASE LogAfter(h)
  BY <1>7 DEF LogAfter
<1>8. QED
  BY <1>1, <1>2, <1>3, <1>4, <1>5, <1>6, <1>7 DEF Handle

LEMMA Invariant == Spec => []Inv
<1>1. ASSUME Inv, [Next]_vars
      PROVE  Inv'
  <2>1. CASE Main
    BY <1>1, <2>1, MainKeepsInv
  <2>2. CASE \E h \in Handlers : Signal(h) \/ Handle(h)
    BY <1>1, <2>2, HandlersKeepInv
  <2>3. CASE UNCHANGED vars
    BY <1>1, <2>3 DEF vars, stopVars, handlerVars, Inv, TypeInv, GlobalSet,
       ServerSet, HandlersSet, CallsServer, MarksAfterCall, KilledOnlyEarly
  <2>4. QED
    BY <1>1, <2>1, <2>2, <2>3 DEF Next
<1>2. QED
  BY <1>1, InitInv, PTL DEF Spec

(* The variables keep their types, whatever the interleaving of main and   *)
(* the handlers (main.cpp, NonBlockingServer).                             *)
THEOREM TypeCorrect == Spec => []TypeInv
<1>1. Inv => TypeInv
  BY DEF Inv
<1>2. QED
  BY <1>1, Invariant, PTL

(* A signal kills the process, directly or through a NULL pointer, only    *)
(* while main has not yet stored g_server (main.cpp:25-45): stop() never   *)
(* calls a server that is not there, however many handlers interleave with *)
(* run() (se_service.cpp, l.127).                                          *)
THEOREM KillsOnlyEarly == Spec => []KilledOnlyEarly
<1>1. Inv => KilledOnlyEarly
  BY DEF Inv
<1>2. QED
  BY <1>1, Invariant, PTL

(* A server that is in its loop with _is_stop set has been told to end, or *)
(* was told before the loop: _is_stop alone never makes it deaf.           *)
THEOREM DeafOnlyEarly == Spec => []DeafOnlyIfEarly
<1>1. Inv => DeafOnlyIfEarly
  BY DEF Inv, MarksAfterCall, DeafOnlyIfEarly
<1>2. QED
  BY <1>1, Invariant, PTL

-----------------------------------------------------------------------------
(* An answer that is no error is what advance_search makes of the results  *)
(* for the request that is being answered.                                 *)
PathInv ==
  /\ pc \in {"idle", "da", "bs", "answered", "crashed"}
  /\ pc \in {"da", "bs", "answered"} => request \in Requests
  /\ pc = "bs" => \E before \in ByteBefore : da = Analysed(request.query, before)
  /\ pc = "answered" /\ response.err = OK =>
       \E n \in 0 .. MaxFound, before \in ByteBefore :
         response = Result(request, Analysed(request.query, before), n)

LEMMA PathInvariance == RequestSpec => []PathInv
<1>1. RequestInit => PathInv
  BY DEF RequestInit, PathInv
<1>2. ASSUME PathInv, [RequestNext]_requestVars
      PROVE  PathInv'
  <2> USE <1>2 DEF PathInv
  <2>1. ASSUME NEW r \in Requests, Receive(r)
        PROVE  PathInv'
    BY <2>1 DEF Receive
  <2>2. CASE PrepareFails
    BY <2>2 DEF PrepareFails, Answer, Error, OK, ERR_INIT_THREAD_DATA, ERR_INIT_SEGMENT_LOCAL
  <2>3. CASE NullSegment
    BY <2>3 DEF NullSegment
  <2>4. CASE Analyse
    BY <2>4 DEF Analyse
  <2>5. CASE SegmentFails
    BY <2>5 DEF SegmentFails, Answer, Error, OK, ERR_SEGMENT
  <2>6. ASSUME NEW n \in 0 .. MaxFound, Found(n)
        PROVE  PathInv'
    <3>1. /\ pc = "bs" /\ pc' = "answered" /\ request' = request
          /\ response' = Result(request, da, n)
      BY <2>6 DEF Found, Answer
    <3>2. PICK before \in ByteBefore : da = Analysed(request.query, before)
      BY <3>1
    <3>3. response' = Result(request', Analysed(request'.query, before), n)
      BY <3>1, <3>2
    <3>4. QED
      BY <3>1, <3>3
  <2>7. CASE SearchFails
    BY <2>7 DEF SearchFails, Answer, Error, OK, ERR_INIT_THREAD_DATA_BS
  <2>8. CASE Return
    BY <2>8 DEF Return
  <2>9. CASE UNCHANGED requestVars
    BY <2>9 DEF requestVars
  <2>10. QED
    BY <2>1, <2>2, <2>3, <2>4, <2>5, <2>6, <2>7, <2>8, <2>9 DEF RequestNext
<1>3. QED
  BY <1>1, <1>2, PTL DEF RequestSpec

-----------------------------------------------------------------------------
(***************************************************************************)
(* The pages                                                               *)
(***************************************************************************)
LEMMA WrapOfInt ==
  ASSUME NEW n \in Int, -(INT_MAX + 1) <= n, n <= INT_MAX
  PROVE  Wrap(n) = n
<1> DEFINE size == 2 * (INT_MAX + 1)
           m == n + INT_MAX + 1
<1>1. INT_MAX \in Nat
  BY SearchPathAssumption
<1>2. size \in Nat \ {0} /\ m \in Nat /\ m < size
  BY <1>1
<1>3. m % size = m
  <2> HIDE DEF m, size
  <2>1. QED
    BY <1>2
<1>4. QED
  BY <1>1, <1>3 DEF Wrap

LEMMA Quotient ==
  ASSUME NEW k \in Nat, NEW d \in Nat \ {0}, NEW q \in Int
  PROVE  k \div d = q <=> q * d <= k /\ k < (q + 1) * d
<1>1. PICK x, y : x = k \div d /\ y = k % d
  OBVIOUS
<1>2. x \in Int /\ y \in Int /\ 0 <= y /\ y < d /\ k = x * d + y
  BY <1>1
<1>3. x * d <= k /\ k < (x + 1) * d
  BY <1>2
<1>4. ASSUME q * d <= k, k < (q + 1) * d
      PROVE  q = x
  <2>1. CASE q < x
    <3>1. (q + 1) * d <= x * d
      BY <1>2, <2>1
    <3>2. QED
      BY <1>2, <1>3, <1>4, <3>1
  <2>2. CASE x < q
    <3>1. (x + 1) * d <= q * d
      BY <1>2, <2>2
    <3>2. QED
      BY <1>2, <1>3, <1>4, <3>1
  <2>3. QED
    BY <1>2, <2>1, <2>2
<1>5. QED
  BY <1>1, <1>3, <1>4

LEMMA PageOfResults ==
  ASSUME NEW total \in Nat, NEW pn \in Int, NEW rn \in Int, rn > 0,
         (pn + 1) * rn <= INT_MAX, pn * rn >= -(INT_MAX + 1)
  PROVE  ToSet(Page([k \in 1 .. total |-> k], pn, rn))
           = {k \in 1 .. total : (k - 1) \div rn = pn}
<1> DEFINE ids == [k \in 1 .. total |-> k]
           begin == pn * rn
           end == (pn + 1) * rn
           last == IF end < total THEN end ELSE total
<1>1. INT_MAX \in Nat
  BY SearchPathAssumption
<1>2. begin \in Int /\ end \in Int /\ end = begin + rn
  OBVIOUS
<1>3. -(INT_MAX + 1) <= pn + 1 /\ pn + 1 <= INT_MAX
  <2>1. pn + 1 > 0 => pn + 1 <= end
    OBVIOUS
  <2>2. pn < 0 => begin <= pn
    OBVIOUS
  <2> HIDE DEF begin, end
  <2>3. QED
    BY <1>1, <2>1, <2>2 DEF begin, end
<1>4. Wrap(pn * rn) = begin /\ PageEnd(pn, rn) = end
  <2>1. Wrap(pn + 1) = pn + 1
    BY <1>1, <1>3, WrapOfInt
  <2>2. -(INT_MAX + 1) <= begin /\ begin <= INT_MAX /\ -(INT_MAX + 1) <= end
    <3> HIDE DEF begin, end
    <3>1. QED
      BY <1>1, <1>2 DEF begin, end
  <2>3. Wrap(begin) = begin /\ Wrap(end) = end
    <3>1. end <= INT_MAX
      OBVIOUS
    <3> HIDE DEF begin, end
    <3>2. QED
      BY <1>2, <2>2, <3>1, WrapOfInt
  <2>4. QED
    BY <2>1, <2>3 DEF PageEnd
<1>5. ids \in Seq(Nat) /\ Len(ids) = total /\ \A k \in 1 .. total : ids[k] = k
  OBVIOUS
<1>6. Page(ids, pn, rn) = IF begin < 0 THEN <<>> ELSE SubSeq(ids, begin + 1, last)
  <2> HIDE DEF ids, begin, end
  <2>1. QED
    BY <1>4, <1>5 DEF Page
<1>7. \A k \in 1 .. total : (k - 1) \div rn = pn <=> begin <= k - 1 /\ k - 1 < end
  <2> TAKE k \in 1 .. total
  <2>1. k - 1 \in Nat /\ rn \in Nat \ {0}
    OBVIOUS
  <2>2. QED
    BY <2>1, Quotient
<1> HIDE DEF ids, begin, end
<1>8. CASE begin < 0
  <2>1. end <= 0
    <3>1. pn < 0
      BY <1>8 DEF begin
    <3>2. QED
      BY <3>1 DEF end
  <2>2. \A k \in 1 .. total : ~((k - 1) \div rn = pn)
    BY <1>2, <1>7, <2>1
  <2>3. ToSet(<<>>) = {}
    BY DEF ToSet
  <2>4. QED
    BY <1>6, <1>8, <2>2, <2>3 DEF ids
<1>9. CASE ~(begin < 0)
  <2> DEFINE page == SubSeq(ids, begin + 1, last)
  <2>1. begin \in Nat /\ last \in Nat /\ last <= total
    BY <1>2, <1>9
  <2>2. DOMAIN page = IF begin < last THEN 1 .. last - begin ELSE {}
    <3> HIDE DEF last
    <3>1. QED
      BY <1>5, <2>1
  <2>3. \A i \in DOMAIN page : page[i] = begin + i
    <3> HIDE DEF last
    <3>1. QED
      BY <1>5, <2>1, <2>2
  <2> HIDE DEF page
  <2>4. \A k \in 1 .. total : begin <= k - 1 /\ k - 1 < end <=> \E i \in DOMAIN page : page[i] = k
    <3>1. ASSUME NEW k \in 1 .. total, begin <= k - 1, k - 1 < end
          PROVE  \E i \in DOMAIN page : page[i] = k
      <4>1. k <= last /\ begin < last
        BY <1>2, <2>1, <3>1
      <4>2. k - begin \in DOMAIN page
        BY <2>1, <2>2, <3>1, <4>1
      <4>3. page[k - begin] = k
        BY <2>1, <2>3, <4>2
      <4>4. QED
        BY <4>2, <4>3
    <3>2. ASSUME NEW k \in 1 .. total, NEW i \in DOMAIN page, page[i] = k
          PROVE  begin <= k - 1 /\ k - 1 < end
      BY <1>2, <2>1, <2>2, <2>3, <3>2
    <3>3. QED
      BY <3>1, <3>2
  <2>5. \A i \in DOMAIN page : page[i] \in 1 .. total
    BY <2>1, <2>2, <2>3
  <2>6. ToSet(page) = {k \in 1 .. total : (k - 1) \div rn = pn}
    BY <1>7, <2>4, <2>5 DEF ToSet
  <2>7. QED
    BY <1>6, <1>9, <2>6 DEF ids, page
<1>10. QED
  BY <1>8, <1>9

(* The pages of a result are disjoint and together the whole result, for   *)
(* every page number and size whose product is an int (as.cpp:162-165).    *)
THEOREM PagesPartition == RequestSpec => []PageExact
<1>1. PathInv => PageExact
  <2> SUFFICES ASSUME PathInv, Answered, request.rn > 0,
                      (request.pn + 1) * request.rn <= INT_MAX,
                      request.pn * request.rn >= -(INT_MAX + 1)
               PROVE  ToSet(response.id)
                        = {k \in 1 .. response.total : (k - 1) \div request.rn = request.pn}
    BY DEF PageExact
  <2>1. PICK n \in 0 .. MaxFound, before \in ByteBefore :
          response = Result(request, Analysed(request.query, before), n)
    BY DEF PathInv, Answered
  <2>2. n \in Nat /\ request.pn \in Int /\ request.rn \in Int
    BY SearchPathAssumption DEF PathInv, Answered
  <2>3. /\ response.id = Page([k \in 1 .. n |-> k], request.pn, request.rn)
        /\ response.total = n
    BY <2>1 DEF Result
  <2>4. QED
    BY <2>2, <2>3, PageOfResults
<1>2. QED
  BY <1>1, PathInvariance, PTL

-----------------------------------------------------------------------------
(***************************************************************************)
(* The descriptions of the catalogs                                        *)
(***************************************************************************)
Info == [id : Int, name : {""} \cup STRING, groups : Seq(Field)]
ReadState == [info : Info, dict : UNION {[S -> Info] : S \in SUBSET Int}]

Described(k) == {i \in 1 .. k : CatalogInfoConf[i].fields # <<>>}
Groups(line) == Picked(line.fields, {i \in DOMAIN line.fields : line.fields[i].colon})

(* What a dictionary says after k lines. *)
SaysLast(dict, k) ==
  /\ DOMAIN dict = {CatalogInfoConf[i].id : i \in Described(k)}
  /\ \A id \in DOMAIN dict : \E i \in Described(k) :
       /\ CatalogInfoConf[i].id = id
       /\ \A j \in Described(k) : CatalogInfoConf[j].id = id => j <= i
       /\ dict[id] = [id |-> id, name |-> CatalogInfoConf[i].name,
                      groups |-> Groups(CatalogInfoConf[i])]

LEMMA LineAdded ==
  ASSUME NEW read \in ReadState, NEW line \in ConfLine
  PROVE  /\ AddLine(read, line) \in ReadState
         /\ line.fields = <<>> => AddLine(read, line) = read
         /\ line.fields # <<>> =>
              /\ DOMAIN AddLine(read, line).dict = DOMAIN read.dict \cup {line.id}
              /\ \A id \in DOMAIN AddLine(read, line).dict :
                   AddLine(read, line).dict[id] =
                     IF id = line.id
                       THEN [id |-> line.id, name |-> line.name, groups |-> Groups(line)]
                       ELSE read.dict[id]
<1> DEFINE groups == Groups(line)
           info == [id |-> line.id, name |-> line.name,
                    groups |-> GroupsBefore(read.info) \o groups]
           D == DOMAIN read.dict \cup {line.id}
           dict == [id \in D |-> IF id = line.id THEN info ELSE read.dict[id]]
<1>1. groups \in Seq(Field)
  <2>1. {i \in DOMAIN line.fields : line.fields[i].colon} \subseteq DOMAIN line.fields
    OBVIOUS
  <2>2. line.fields \in Seq(Field)
    BY DEF ConfLine
  <2>3. QED
    BY <2>1, <2>2, PickedProperties DEF Groups
<1> HIDE DEF groups
<1>2. GroupsBefore(read.info) \o groups = groups
  BY <1>1 DEF GroupsBefore
<1>3. info = [id |-> line.id, name |-> line.name, groups |-> groups] /\ info \in Info
  BY <1>1, <1>2 DEF Info, ConfLine
<1>4. AddLine(read, line) = IF line.fields = <<>> THEN read ELSE [info |-> info, dict |-> dict]
  BY DEF AddLine, groups, Groups
<1>5. D \in SUBSET Int /\ \A id \in DOMAIN read.dict : read.dict[id] \in Info
  <2>1. read.dict \in UNION {[S -> Info] : S \in SUBSET Int}
    BY DEF ReadState
  <2>2. PICK S \in SUBSET Int : read.dict \in [S -> Info]
    BY <2>1
  <2>3. line.id \in Int
    BY DEF ConfLine
  <2>4. QED
    BY <2>2, <2>3
<1> HIDE DEF info
<1>6. dict \in [D -> Info]
  BY <1>3, <1>5
<1>7. [info |-> info, dict |-> dict] \in ReadState
  <2> HIDE DEF dict, D
  <2>1. QED
    BY <1>3, <1>5, <1>6 DEF ReadState
<1>8. QED
  BY <1>3, <1>4, <1>7 DEF groups

(* The lines are read one after the other. *)
LEMMA ReadLoop ==
  \E read \in [0 .. Len(CatalogInfoConf) -> ReadState] :
    /\ read[0] = [info |-> Undescribed, dict |-> <<>>]
    /\ \A k \in 1 .. Len(CatalogInfoConf) : read[k] = AddLine(read[k - 1], CatalogInfoConf[k])
    /\ catalog_info_dict = read[Len(CatalogInfoConf)].dict
<1> DEFINE n == Len(CatalogInfoConf)
           init == [info |-> Undescribed, dict |-> <<>>]
           step == [k \in Nat |-> [read \in ReadState |->
                     IF k < n THEN AddLine(read, CatalogInfoConf[k + 1]) ELSE read]]
           once(g) == [k \in 0 .. n |->
                         IF k = 0 THEN init ELSE AddLine(g[k - 1], CatalogInfoConf[k])]
           read == CHOOSE g : g = once(g)
<1>1. n \in Nat /\ \A k \in 1 .. n : CatalogInfoConf[k] \in ConfLine
  BY SearchPathAssumption
<1>2. init \in ReadState
  <2>1. Undescribed \in Info
    <3>1. NoCatalog \in Int
      BY DEF NoCatalog
    <3>2. <<>> \in Seq(Field)
      OBVIOUS
    <3>3. "" \in {""} \cup STRING
      OBVIOUS
    <3> DEFINE none == <<>>
    <3> HIDE DEF none
    <3>4. [id |-> NoCatalog, name |-> "", groups |-> none] \in Info
      BY <3>1, <3>2, <3>3 DEF Info, none
    <3>5. QED
      BY <3>4 DEF Undescribed, none
  <2>2. <<>> \in [{} -> Info]
    OBVIOUS
  <2>3. {} \in SUBSET Int
    OBVIOUS
  <2>4. <<>> \in UNION {[S -> Info] : S \in SUBSET Int}
    BY <2>2, <2>3
  <2>5. QED
    BY <2>1, <2>4 DEF ReadState
<1> HIDE DEF n, init
<1>3. \A k \in Nat, r \in ReadState :
        /\ step[k][r] \in ReadState
        /\ k < n => step[k][r] = AddLine(r, CatalogInfoConf[k + 1])
  <2> TAKE k \in Nat, r \in ReadState
  <2>1. k < n => k + 1 \in 1 .. n
    BY <1>1
  <2>2. k < n => AddLine(r, CatalogInfoConf[k + 1]) \in ReadState
    BY <1>1, <2>1, LineAdded
  <2>3. QED
    BY <2>2
<1>4. step \in [Nat -> [ReadState -> ReadState]]
  <2>1. \A k \in Nat : step[k] \in [ReadState -> ReadState]
    BY <1>3
  <2>2. step = [k \in Nat |-> step[k]]
    OBVIOUS
  <2> HIDE DEF step
  <2>3. QED
    BY <2>1, <2>2
<1> HIDE DEF step
<1>5. PICK f : IsLoop(f, n, ReadState, init, step)
  BY <1>1, <1>2, <1>4, Iteration
<1>6. f = once(f)
  <2>1. f \in [0 .. n -> ReadState] /\ f[0] = init
    BY <1>5 DEF IsLoop
  <2>2. \A k \in 1 .. n : f[k] = AddLine(f[k - 1], CatalogInfoConf[k])
    <3> TAKE k \in 1 .. n
    <3>1. k - 1 \in 0 .. n /\ k - 1 \in Nat /\ k - 1 < n /\ (k - 1) + 1 = k
      BY <1>1
    <3>2. f[k] = step[k - 1][f[k - 1]]
      BY <1>5 DEF IsLoop
    <3>3. f[k - 1] \in ReadState
      BY <2>1, <3>1
    <3>4. QED
      BY <1>3, <3>1, <3>2, <3>3
  <2>3. \A k \in 0 .. n : f[k] = IF k = 0 THEN init ELSE AddLine(f[k - 1], CatalogInfoConf[k])
    BY <1>1, <2>1, <2>2
  <2>4. QED
    BY <2>1, <2>3
<1>7. read = once(read)
  <2> HIDE DEF once
  <2>1. QED
    BY <1>6
<1>8. catalog_info_dict = read[n].dict
  BY DEF catalog_info_dict, read, once, n, init
<1> HIDE DEF read
<1>9. /\ read[0] = init
      /\ \A k \in 1 .. n : read[k] = AddLine(read[k - 1], CatalogInfoConf[k])
  <2> DEFINE h == once(read)
  <2>1. h[0] = init /\ \A k \in 1 .. n : h[k] = AddLine(read[k - 1], CatalogInfoConf[k])
    BY <1>1
  <2>2. h = read
    BY <1>7
  <2> HIDE DEF h
  <2>3. QED
    BY <2>1, <2>2
<1>10. \A k \in 0 .. n : read[k] \in ReadState
  <2> DEFINE T == {k \in Nat : k <= n => read[k] \in ReadState}
  <2>1. 0 \in T
    BY <1>2, <1>9
  <2>2. ASSUME NEW k \in Nat, k \in T
        PROVE  k + 1 \in T
    <3>1. k + 1 <= n => k + 1 \in 1 .. n /\ (k + 1) - 1 = k
      BY <1>1
    <3>2. k + 1 <= n => k <= n /\ read[k + 1] = AddLine(read[k], CatalogInfoConf[k + 1])
      BY <1>1, <1>9, <3>1
    <3>3. k + 1 <= n => read[k + 1] \in ReadState
      BY <1>1, <2>2, <3>1, <3>2, LineAdded
    <3>4. QED
      BY <3>3
  <2> HIDE DEF T
  <2>3. Nat \subseteq T
    BY <2>1, <2>2, Induction
  <2>4. QED
    BY <1>1, <2>3 DEF T
<1>11. read = [k \in 0 .. n |-> read[k]]
  BY <1>7
<1>12. read \in [0 .. n -> ReadState]
  BY <1>10, <1>11
<1>13. QED
  BY <1>8, <1>9, <1>12 DEF n, init

LEMMA DictSaysLast == SaysLast(catalog_info_dict, Len(CatalogInfoConf))
<1> DEFINE n == Len(CatalogInfoConf)
<1>1. n \in Nat /\ \A k \in 1 .. n : CatalogInfoConf[k] \in ConfLine
  BY SearchPathAssumption
<1>2. PICK read \in [0 .. n -> ReadState] :
        /\ read[0] = [info |-> Undescribed, dict |-> <<>>]
        /\ \A k \in 1 .. n : read[k] = AddLine(read[k - 1], CatalogInfoConf[k])
        /\ catalog_info_dict = read[n].dict
  BY ReadLoop
<1> HIDE DEF n
<1> DEFINE T == {k \in Nat : k <= n => SaysLast(read[k].dict, k)}
<1>3. 0 \in T
  <2>1. DOMAIN read[0].dict = {} /\ Described(0) = {}
    BY <1>2 DEF Described
  <2>2. SaysLast(read[0].dict, 0)
    BY <2>1 DEF SaysLast
  <2>3. QED
    BY <2>2
<1>4. ASSUME NEW k \in Nat, k \in T
      PROVE  k + 1 \in T
  <2> SUFFICES ASSUME k + 1 <= n
               PROVE  SaysLast(read[k + 1].dict, k + 1)
    OBVIOUS
  <2> DEFINE line == CatalogInfoConf[k + 1]
             old == read[k].dict
             new == read[k + 1].dict
  <2>1. /\ k \in 0 .. n /\ k + 1 \in 1 .. n /\ (k + 1) - 1 = k
        /\ SaysLast(old, k)
    BY <1>1, <1>4
  <2>2. line \in ConfLine /\ read[k] \in ReadState /\ read[k + 1] = AddLine(read[k], line)
    BY <1>1, <1>2, <2>1
  <2>3. /\ line.fields = <<>> => new = old
        /\ line.fields # <<>> =>
             /\ DOMAIN new = DOMAIN old \cup {line.id}
             /\ \A id \in DOMAIN new : new[id] =
                  IF id = line.id
                    THEN [id |-> line.id, name |-> line.name, groups |-> Groups(line)]
                    ELSE old[id]
    BY <2>2, LineAdded
  <2>4. Described(k + 1) = IF line.fields = <<>> THEN Described(k) ELSE Described(k) \cup {k + 1}
    BY DEF Described
  <2>5. \A j \in Described(k) : j \in Nat /\ j <= k
    BY DEF Described
  <2> HIDE DEF old, new
  <2>6. CASE line.fields = <<>>
    <3>1. new = old /\ Described(k + 1) = Described(k)
      BY <2>3, <2>4, <2>6
    <3>2. SaysLast(old, k) <=> SaysLast(old, k + 1)
      BY <3>1 DEF SaysLast
    <3>3. QED
      BY <2>1, <3>1, <3>2 DEF new
  <2>7. CASE line.fields # <<>>
    <3>1. DOMAIN new = {CatalogInfoConf[i].id : i \in Described(k + 1)}
      <4>1. DOMAIN old = {CatalogInfoConf[i].id : i \in Described(k)}
        BY <2>1 DEF SaysLast
      <4>2. DOMAIN new = DOMAIN old \cup {line.id} /\ Described(k + 1) = Described(k) \cup {k + 1}
        BY <2>3, <2>4, <2>7
      <4>3. QED
        BY <4>1, <4>2
    <3>2. ASSUME NEW id \in DOMAIN new
          PROVE  \E i \in Described(k + 1) :
                   /\ CatalogInfoConf[i].id = id
                   /\ \A j \in Described(k + 1) : CatalogInfoConf[j].id = id => j <= i
                   /\ new[id] = [id |-> id, name |-> CatalogInfoConf[i].name,
                                 groups |-> Groups(CatalogInfoConf[i])]
      <4>1. CASE id = line.id
        <5>1. k + 1 \in Described(k + 1)
          BY <2>4, <2>7
        <5>2. \A j \in Described(k + 1) : j <= k + 1
          BY <2>4, <2>5, <2>7
        <5>3. new[id] = [id |-> id, name |-> line.name, groups |-> Groups(line)]
          BY <2>3, <2>7, <4>1
        <5>4. QED
          BY <4>1, <5>1, <5>2, <5>3
      <4>2. CASE id # line.id
        <5>1. id \in DOMAIN old /\ new[id] = old[id]
          BY <2>3, <2>7, <4>2
        <5>2. PICK i \in Described(k) :
                /\ CatalogInfoConf[i].id = id
                /\ \A j \in Described(k) : CatalogInfoConf[j].id = id => j <= i
                /\ old[id] = [id |-> id, name |-> CatalogInfoConf[i].name,
                              groups |-> Groups(CatalogInfoConf[i])]
          BY <2>1, <5>1 DEF SaysLast
        <5>3. i \in Described(k + 1)
          BY <2>4
        <5>4. \A j \in Described(k + 1) : CatalogInfoConf[j].id = id => j \in Described(k)
          BY <2>4, <4>2
        <5>5. QED
          BY <5>1, <5>2, <5>3, <5>4
      <4>3. QED
        BY <4>1, <4>2
    <3>3. SaysLast(new, k + 1)
      BY <3>1, <3>2 DEF SaysLast
    <3>4. QED
      BY <3>3 DEF new
  <2>8. QED
    BY <2>6, <2>7 DEF new
<1> HIDE DEF T
<1>5. Nat \subseteq T
  BY <1>3, <1>4, Induction
<1>6. n \in T
  BY <1>1, <1>5
<1>7. QED
  BY <1>2, <1>6 DEF T, n

(* What a response says of its catalog is what the last line of            *)
(* catalog_info.conf for it says, for files of every length: nothing of    *)
(* another line stays in the one catalog_info that AS::init reads all      *)
(* lines into (as.cpp:38-54).                                              *)
THEOREM CatalogsDescribed == RequestSpec => []DescribedByLine
<1>1. PathInv => DescribedByLine
  <2> SUFFICES ASSUME PathInv, Answered, response.catalog.id # NoCatalog
               PROVE  DescribedByLine
    BY DEF DescribedByLine
  <2> DEFINE n == Len(CatalogInfoConf)
             id == response.catalog.id
             lines == {k \in DOMAIN CatalogInfoConf :
                         /\ CatalogInfoConf[k].id = id
                         /\ CatalogInfoConf[k].fields # <<>>}
  <2>1. PICK m \in 0 .. MaxFound, before \in ByteBefore :
          response = Result(request, Analysed(request.query, before), m)
    BY DEF PathInv, Answered
  <2>2. PICK catalog : response.catalog = Announced(catalog)
    BY <2>1 DEF Result
  <2>3. catalog \in DOMAIN catalog_info_dict /\ response.catalog = catalog_info_dict[catalog]
    <3>1. Undescribed.id = NoCatalog
      BY DEF Undescribed
    <3>2. Announced(catalog) # Undescribed
      BY <2>2, <3>1
    <3>3. QED
      BY <2>2, <3>2 DEF Announced
  <2>4. PICK i \in Described(n) :
          /\ CatalogInfoConf[i].id = catalog
          /\ \A j \in Described(n) : CatalogInfoConf[j].id = catalog => j <= i
          /\ response.catalog = [id |-> catalog, name |-> CatalogInfoConf[i].name,
                                 groups |-> Groups(CatalogInfoConf[i])]
    BY <2>3, DictSaysLast DEF SaysLast
  <2>5. id = catalog
    BY <2>4
  <2>6. /\ DOMAIN CatalogInfoConf = 1 .. n
        /\ \A k \in 1 .. n : CatalogInfoConf[k] \in ConfLine
    BY SearchPathAssumption
  <2> HIDE DEF n, id
  <2>7. lines = {k \in Described(n) : CatalogInfoConf[k].id = catalog}
    BY <2>5, <2>6 DEF Described
  <2>8. i \in lines /\ \A j \in lines : j <= i
    BY <2>4, <2>7
  <2>9. /\ response.catalog.name = CatalogInfoConf[i].name
        /\ response.catalog.groups = Groups(CatalogInfoConf[i])
    BY <2>4
  <2>10. ToSet(Groups(CatalogInfoConf[i]))
           = {f \in ToSet(CatalogInfoConf[i].fields) : f.colon}
    <3> DEFINE fields == CatalogInfoConf[i].fields
               S == {k \in DOMAIN fields : fields[k].colon}
    <3>1. CatalogInfoConf[i] \in ConfLine
      <4>1. i \in 1 .. n
        BY DEF Described
      <4>2. QED
        BY <2>6, <4>1
    <3>2. fields \in Seq(Field)
      BY <3>1 DEF ConfLine
    <3>3. Groups(CatalogInfoConf[i]) = Picked(fields, S)
      BY DEF Groups
    <3> HIDE DEF fields
    <3>4. ToSet(Picked(fields, S)) = {fields[k] : k \in S}
      BY <3>2, PickedProperties DEF ToSet
    <3>5. {fields[k] : k \in S} = {f \in ToSet(fields) : f.colon}
      BY DEF ToSet
    <3>6. QED
      BY <3>3, <3>4, <3>5 DEF fields
  <2> HIDE DEF lines
  <2>11. \E k \in lines :
          /\ \A j \in lines : j <= k
          /\ response.catalog.name = CatalogInfoConf[k].name
          /\ ToSet(response.catalog.groups)
               = {f \in ToSet(CatalogInfoConf[k].fields) : f.colon}
    BY <2>8, <2>9, <2>10
  <2>12. QED
    BY <2>11 DEF DescribedByLine, lines, id
<1>2. QED
  BY <1>1, PathInvariance, PTL

-----------------------------------------------------------------------------
(***************************************************************************)
(* The tags                                                                *)
(***************************************************************************)
Cuts(str) == (0 .. Len(str)) \X Seq(Tag)

(* The recursion of TagFilter, once. *)
CutOnce(str, f) ==
  [at \in Cuts(str) |->
     IF Hats(str, at[1]) = {} THEN at[2] \o Between(str, at[1], Len(str) + 1)
     ELSE f[<<Min(Hats(str, at[1])),
              at[2] \o Between(str, at[1], Min(Hats(str, at[1])))>>]]

Cut(str) == CHOOSE f : f = CutOnce(str, f)

LEMMA FirstHat ==
  ASSUME NEW str \in Seq(Nat), NEW begin \in Nat, Hats(str, begin) # {}
  PROVE  /\ Min(Hats(str, begin)) \in Hats(str, begin)
         /\ \A k \in Hats(str, begin) : Min(Hats(str, begin)) <= k
<1>1. Hats(str, begin) \subseteq Nat
  BY DEF Hats
<1>2. \E k \in Hats(str, begin) : \A j \in Hats(str, begin) : k <= j
  BY <1>1, LeastNat
<1>3. QED
  BY <1>2 DEF Min

LEMMA PieceIsTags == \A p \in Tag : Piece(p) \in Seq(Tag)
  BY DEF Piece

LEMMA BetweenIsTags ==
  ASSUME NEW str \in Seq(Nat), NEW begin \in 0 .. Len(str), NEW end \in begin + 1 .. Len(str) + 1
  PROVE  Between(str, begin, end) \in Seq(Tag)
<1>1. SubSeq(str, begin + 1, end - 1) \in Seq(Nat)
  OBVIOUS
<1>2. QED
  BY <1>1, PieceIsTags DEF Between, Tag

LEMMA CutUnfolds ==
  ASSUME NEW str \in Seq(Nat)
  PROVE  Cut(str) = CutOnce(str, Cut(str))
<1> DEFINE D == Cuts(str)
           n == Len(str)
           V == Seq(Tag)
           stop == {at \in D : Hats(str, at[1]) = {}}
           val == [at \in stop |-> at[2] \o Between(str, at[1], n + 1)]
           end(at) == Min(Hats(str, at[1]))
           next == [at \in D |-> IF at \in stop THEN at
                                 ELSE <<end(at), at[2] \o Between(str, at[1], end(at))>>]
           w == [at \in D |-> n - at[1]]
<1>1. n \in Nat /\ \A at \in D : at[1] \in 0 .. n /\ at[2] \in V
  BY DEF Cuts
<1>2. \A at \in D \ stop : end(at) \in at[1] + 1 .. n
  <2> TAKE at \in D \ stop
  <2>1. at[1] \in Nat
    BY <1>1
  <2>2. end(at) \in Hats(str, at[1])
    BY <2>1, FirstHat
  <2>3. QED
    BY <2>2 DEF Hats
<1>3. stop \in SUBSET D
  OBVIOUS
<1>4. val \in [stop -> V]
  <2>1. \A at \in stop : at[2] \o Between(str, at[1], n + 1) \in V
    <3> TAKE at \in stop
    <3>1. at[2] \in Seq(Tag) /\ at[1] \in 0 .. Len(str) /\ n + 1 \in at[1] + 1 .. Len(str) + 1
      BY <1>1
    <3>2. Between(str, at[1], n + 1) \in Seq(Tag)
      BY <3>1, BetweenIsTags
    <3>3. QED
      BY <3>1, <3>2
  <2> HIDE DEF stop, V
  <2>2. QED
    BY <2>1
<1>5. next \in [D -> D]
  <2>1. \A at \in D \ stop : <<end(at), at[2] \o Between(str, at[1], end(at))>> \in D
    <3> TAKE at \in D \ stop
    <3>1. at[2] \in Seq(Tag) /\ at[1] \in 0 .. Len(str)
      BY <1>1
    <3>2. end(at) \in at[1] + 1 .. Len(str)
      BY <1>2
    <3> HIDE DEF end
    <3>3. end(at) \in 0 .. Len(str) /\ end(at) \in at[1] + 1 .. Len(str) + 1
      BY <3>1, <3>2
    <3>4. Between(str, at[1], end(at)) \in Seq(Tag)
      BY <3>1, <3>3, BetweenIsTags
    <3>5. at[2] \o Between(str, at[1], end(at)) \in Seq(Tag)
      BY <3>1, <3>4
    <3>6. QED
      BY <3>3, <3>5 DEF Cuts
  <2> HIDE DEF stop, D, end
  <2>2. QED
    BY <2>1
<1>6. w \in [D -> Nat]
  <2>1. \A at \in D : n - at[1] \in Nat
    BY <1>1
  <2> HIDE DEF D
  <2>2. QED
    BY <2>1
<1>7. ASSUME NEW at \in D \ stop
      PROVE  w[next[at]] < w[at]
  <2>1. next[at] = <<end(at), at[2] \o Between(str, at[1], end(at))>> /\ next[at] \in D
    BY <1>5
  <2>2. w[next[at]] = n - end(at) /\ w[at] = n - at[1]
    BY <2>1
  <2>3. end(at) \in at[1] + 1 .. n
    BY <1>2
  <2>4. at[1] \in 0 .. n /\ n \in Nat
    BY <1>1
  <2> HIDE DEF end, w, n
  <2>5. QED
    BY <2>2, <2>3, <2>4
<1> HIDE DEF stop, val, next, w, V, end, D, n
<1>8. PICK f \in [D -> V] : Unfolds(f, D, stop, val, next)
  BY <1>3, <1>4, <1>5, <1>6, <1>7, TailRecursion
<1>9. ASSUME NEW at \in D
      PROVE  f[at] = CutOnce(str, f)[at]
  <2>1. f[at] = IF at \in stop THEN val[at] ELSE f[next[at]]
    BY <1>8 DEF Unfolds
  <2>2. CutOnce(str, f)[at] =
          IF at \in stop THEN at[2] \o Between(str, at[1], n + 1)
          ELSE f[<<end(at), at[2] \o Between(str, at[1], end(at))>>]
    BY DEF CutOnce, D, stop, end, n
  <2>3. CASE at \in stop
    BY <2>1, <2>2, <2>3 DEF val
  <2>4. CASE at \notin stop
    BY <2>1, <2>2, <2>4 DEF next
  <2>5. QED
    BY <2>3, <2>4
<1>10. f = CutOnce(str, f)
  BY <1>8, <1>9 DEF CutOnce, D
<1>11. QED
  BY <1>10 DEF Cut

LEMMA CutAt ==
  ASSUME NEW str \in Seq(Nat), NEW begin \in 0 .. Len(str), NEW found \in Seq(Tag)
  PROVE  /\ Hats(str, begin) = {} =>
              Cut(str)[<<begin, found>>] = found \o Between(str, begin, Len(str) + 1)
         /\ Hats(str, begin) # {} =>
              Cut(str)[<<begin, found>>] =
                Cut(str)[<<Min(Hats(str, begin)),
                           found \o Between(str, begin, Min(Hats(str, begin)))>>]
<1> DEFINE f == Cut(str)
           at == <<begin, found>>
<1>1. f = CutOnce(str, f)
  BY CutUnfolds
<1>2. at \in Cuts(str) /\ at[1] = begin /\ at[2] = found
  BY DEF Cuts
<1> HIDE DEF f, at
<1>3. CutOnce(str, f)[at] =
        IF Hats(str, begin) = {} THEN found \o Between(str, begin, Len(str) + 1)
        ELSE f[<<Min(Hats(str, begin)), found \o Between(str, begin, Min(Hats(str, begin)))>>]
  BY <1>2 DEF CutOnce
<1>4. f[at] = CutOnce(str, f)[at]
  BY <1>1
<1>5. QED
  BY <1>3, <1>4 DEF f, at

LEMMA TagAppended ==
  ASSUME NEW s \in Seq(Nat), NEW t \in Seq(Nat)
  PROVE  /\ AppendTag(s, t) \in Seq(Nat)
         /\ Len(AppendTag(s, t)) = Len(s) + 1 + Len(t)
         /\ \A i \in 1 .. Len(s) : AppendTag(s, t)[i] = s[i]
         /\ AppendTag(s, t)[Len(s) + 1] = Hat
         /\ \A i \in 1 .. Len(t) : AppendTag(s, t)[Len(s) + 1 + i] = t[i]
<1>1. PICK h : h = s \o <<Hat>>
  OBVIOUS
<1>2. /\ h \in Seq(Nat) /\ Len(h) = Len(s) + 1 /\ h[Len(s) + 1] = Hat
      /\ \A i \in 1 .. Len(s) : h[i] = s[i]
  BY <1>1 DEF Hat
<1>3. AppendTag(s, t) = h \o t
  BY <1>1 DEF AppendTag
<1>4. Len(s) \in Nat /\ Len(t) \in Nat
  OBVIOUS
<1>5. h \in Seq(Nat)
  BY <1>2
<1>6. h \o t \in Seq(Nat) /\ Len(h \o t) = Len(h) + Len(t)
  BY <1>5
<1>7. \A i \in 1 .. Len(h) : (h \o t)[i] = h[i]
  BY <1>5
<1>8. \A i \in 1 .. Len(t) : (h \o t)[Len(h) + i] = t[i]
  BY <1>5
<1> HIDE DEF Hat
<1>9. PICK a : a = h \o t
  OBVIOUS
<1>10. a \in Seq(Nat) /\ Len(a) = Len(s) + 1 + Len(t)
  BY <1>2, <1>6, <1>9
<1>11. \A i \in 1 .. Len(s) + 1 : a[i] = h[i]
  BY <1>2, <1>7, <1>9
<1>12. a[Len(s) + 1] = Hat /\ \A i \in 1 .. Len(s) : a[i] = s[i]
  <2>1. /\ Len(s) + 1 \in 1 .. Len(s) + 1
        /\ \A i \in 1 .. Len(s) : i \in 1 .. Len(s) + 1
    BY <1>4
  <2>2. h[Len(s) + 1] = Hat /\ \A i \in 1 .. Len(s) : h[i] = s[i]
    BY <1>2
  <2>3. QED
    BY <1>11, <2>1, <2>2, Zenon
<1>13. \A i \in 1 .. Len(t) : a[Len(s) + 1 + i] = t[i]
  <2>1. Len(h) = Len(s) + 1
    BY <1>2
  <2>2. \A i \in 1 .. Len(t) : a[Len(h) + i] = t[i]
    BY <1>8, <1>9
  <2>3. QED
    BY <2>1, <2>2, ZenonT(20)
<1>14. QED
  BY <1>3, <1>9, <1>10, <1>12, <1>13

(* _adapt_input appends one tag after the other. *)
TagLoop(tags, str) ==
  /\ str \in [0 .. Len(tags) -> Seq(Nat)]
  /\ str[0] = <<>>
  /\ \A k \in 1 .. Len(tags) : str[k] = AppendTag(str[k - 1], tags[k])

LEMMA TagStringLoop ==
  ASSUME NEW tags \in Seq(Tag)
  PROVE  \E str : TagLoop(tags, str) /\ TagString(tags) = str[Len(tags)]
<1> DEFINE n == Len(tags)
           V == Seq(Nat)
           init == <<>>
           step == [k \in Nat |-> [s \in V |->
                     IF k < n THEN AppendTag(s, tags[k + 1]) ELSE s]]
           once(g) == [k \in 0 .. n |->
                         IF k = 0 THEN init ELSE AppendTag(g[k - 1], tags[k])]
           str == CHOOSE g : g = once(g)
<1>1. n \in Nat /\ \A k \in 1 .. n : tags[k] \in V
  BY DEF Tag
<1>2. init \in V
  OBVIOUS
<1>3. \A s, t \in V : AppendTag(s, t) \in V
  BY TagAppended
<1> HIDE DEF n, V
<1>4. \A k \in Nat, s \in V :
        /\ step[k][s] \in V
        /\ k < n => step[k][s] = AppendTag(s, tags[k + 1])
  <2> TAKE k \in Nat, s \in V
  <2>1. k < n => k + 1 \in 1 .. n
    BY <1>1
  <2>2. k < n => AppendTag(s, tags[k + 1]) \in V
    BY <1>1, <1>3, <2>1
  <2>3. QED
    BY <2>2
<1>5. step \in [Nat -> [V -> V]]
  <2>1. \A k \in Nat : step[k] \in [V -> V]
    BY <1>4
  <2>2. step = [k \in Nat |-> step[k]]
    OBVIOUS
  <2> HIDE DEF step
  <2>3. QED
    BY <2>1, <2>2
<1> HIDE DEF step, init
<1>6. PICK f : IsLoop(f, n, V, init, step)
  BY <1>1, <1>2, <1>5, Iteration
<1>7. f = once(f)
  <2>1. f \in [0 .. n -> V] /\ f[0] = init
    BY <1>6 DEF IsLoop
  <2>2. \A k \in 1 .. n : f[k] = AppendTag(f[k - 1], tags[k])
    <3> TAKE k \in 1 .. n
    <3>1. k - 1 \in 0 .. n /\ k - 1 \in Nat /\ k - 1 < n /\ (k - 1) + 1 = k
      BY <1>1
    <3>2. f[k] = step[k - 1][f[k - 1]]
      BY <1>6 DEF IsLoop
    <3>3. f[k - 1] \in V
      BY <2>1, <3>1
    <3>4. QED
      BY <1>4, <3>1, <3>2, <3>3
  <2>3. \A k \in 0 .. n : f[k] = IF k = 0 THEN init ELSE AppendTag(f[k - 1], tags[k])
    BY <1>1, <2>1, <2>2
  <2>4. QED
    BY <2>1, <2>3
<1>8. str = once(str)
  <2> HIDE DEF once
  <2>1. QED
    BY <1>7
<1>9. TagString(tags) = str[n]
  BY DEF TagString, str, once, n, init
<1> HIDE DEF str
<1>10. /\ str[0] = init
       /\ \A k \in 1 .. n : str[k] = AppendTag(str[k - 1], tags[k])
  <2> DEFINE h == once(str)
  <2>1. h[0] = init /\ \A k \in 1 .. n : h[k] = AppendTag(str[k - 1], tags[k])
    BY <1>1
  <2>2. h = str
    BY <1>8
  <2> HIDE DEF h
  <2>3. QED
    BY <2>1, <2>2
<1>11. \A k \in 0 .. n : str[k] \in V
  <2> DEFINE T == {k \in Nat : k <= n => str[k] \in V}
  <2>1. 0 \in T
    BY <1>2, <1>10
  <2>2. ASSUME NEW k \in Nat, k \in T
        PROVE  k + 1 \in T
    <3>1. k + 1 <= n => k + 1 \in 1 .. n /\ (k + 1) - 1 = k
      BY <1>1
    <3>2. k + 1 <= n => k <= n /\ str[k + 1] = AppendTag(str[k], tags[k + 1])
      BY <1>1, <1>10, <3>1
    <3>3. k + 1 <= n => str[k + 1] \in V
      BY <1>1, <1>3, <2>2, <3>1, <3>2
    <3>4. QED
      BY <3>3
  <2> HIDE DEF T
  <2>3. Nat \subseteq T
    BY <2>1, <2>2, Induction
  <2>4. QED
    BY <1>1, <2>3 DEF T
<1>12. str = [k \in 0 .. n |-> str[k]]
  BY <1>8
<1>13. str \in [0 .. n -> V]
  BY <1>11, <1>12
<1>14. TagLoop(tags, str)
  BY <1>10, <1>13 DEF TagLoop, init, n, V
<1>15. QED
  BY <1>9, <1>14 DEF n

(* Where tag number k is in the string of all. *)
TagIsAt(tags, str, all, k) ==
  /\ Len(str[k]) = Len(str[k - 1]) + 1 + Len(tags[k])
  /\ all[Len(str[k - 1]) + 1] = Hat
  /\ \A i \in 1 .. Len(tags[k]) : all[Len(str[k - 1]) + 1 + i] = tags[k][i]

LEMMA TagPlaces ==
  ASSUME NEW tags \in Seq(Tag), NEW str, TagLoop(tags, str)
  PROVE  LET all == str[Len(tags)]
         IN  /\ \A k \in 0 .. Len(tags) : Len(str[k]) \in Nat /\ Len(str[k]) <= Len(all)
             /\ \A k \in 1 .. Len(tags) : TagIsAt(tags, str, all, k)
<1> DEFINE n == Len(tags)
           all == str[n]
<1>1. n \in Nat /\ \A k \in 1 .. n : tags[k] \in Seq(Nat)
  BY DEF Tag
<1>2. /\ \A k \in 0 .. n : str[k] \in Seq(Nat)
      /\ \A k \in 1 .. n : str[k] = AppendTag(str[k - 1], tags[k])
  BY DEF TagLoop
<1> HIDE DEF n
<1>3. ASSUME NEW k \in 1 .. n
      PROVE  /\ Len(str[k]) = Len(str[k - 1]) + 1 + Len(tags[k])
             /\ str[k][Len(str[k - 1]) + 1] = Hat
             /\ \A i \in 1 .. Len(tags[k]) : str[k][Len(str[k - 1]) + 1 + i] = tags[k][i]
             /\ \A i \in 1 .. Len(str[k - 1]) : str[k][i] = str[k - 1][i]
  <2>1. str[k - 1] \in Seq(Nat) /\ tags[k] \in Seq(Nat)
    BY <1>1, <1>2
  <2>2. str[k] = AppendTag(str[k - 1], tags[k])
    BY <1>2
  <2>3. PICK s, t : s = str[k - 1] /\ t = tags[k]
    OBVIOUS
  <2>4. s \in Seq(Nat) /\ t \in Seq(Nat) /\ str[k] = AppendTag(s, t)
    BY <2>1, <2>2, <2>3
  <2>5. /\ Len(str[k]) = Len(s) + 1 + Len(t)
        /\ \A i \in 1 .. Len(s) : str[k][i] = s[i]
        /\ str[k][Len(s) + 1] = Hat
        /\ \A i \in 1 .. Len(t) : str[k][Len(s) + 1 + i] = t[i]
    <3>1. PICK r : r = AppendTag(s, t)
      OBVIOUS
    <3>2. /\ Len(r) = Len(s) + 1 + Len(t)
          /\ \A i \in 1 .. Len(s) : r[i] = s[i]
          /\ r[Len(s) + 1] = Hat
          /\ \A i \in 1 .. Len(t) : r[Len(s) + 1 + i] = t[i]
      BY <2>4, <3>1, TagAppended
    <3>3. str[k] = r
      BY <2>4, <3>1
    <3>4. QED
      BY <3>2, <3>3
  <2>6. QED
    BY <2>3, <2>5
<1>4. \A k \in 0 .. n : Len(str[k]) \in Nat
  BY <1>2
<1> DEFINE prefix(k, m) == /\ Len(str[k]) <= Len(str[m])
                           /\ \A i \in 1 .. Len(str[k]) : str[m][i] = str[k][i]
<1>5. ASSUME NEW k \in 0 .. n
      PROVE  prefix(k, n)
  <2> DEFINE T == {d \in Nat : k + d <= n => prefix(k, k + d)}
  <2>1. 0 \in T
    BY <1>4
  <2>2. ASSUME NEW d \in Nat, d \in T
        PROVE  d + 1 \in T
    <3> SUFFICES ASSUME k + (d + 1) <= n
                 PROVE  prefix(k, k + (d + 1))
      OBVIOUS
    <3>1. PICK m \in 1 .. n : m = k + (d + 1) /\ m - 1 = k + d /\ m - 1 \in 0 .. n
      BY <1>1
    <3>2. prefix(k, m - 1)
      BY <2>2, <3>1
    <3>3. prefix(m - 1, m)
      <4>1. Len(tags[m]) \in Nat /\ Len(str[m - 1]) \in Nat
        BY <1>1, <1>4, <3>1
      <4>2. Len(str[m]) = Len(str[m - 1]) + 1 + Len(tags[m])
        BY <1>3
      <4>3. Len(str[m - 1]) <= Len(str[m])
        <5>1. PICK a, b : a = Len(str[m - 1]) /\ b = Len(tags[m])
          OBVIOUS
        <5>2. a \in Nat /\ b \in Nat /\ Len(str[m]) = a + 1 + b
          BY <4>1, <4>2, <5>1
        <5>3. a <= Len(str[m])
          BY <5>2
        <5>4. QED
          BY <5>1, <5>3
      <4>4. \A i \in 1 .. Len(str[m - 1]) : str[m][i] = str[m - 1][i]
        BY <1>3
      <4>5. QED
        BY <4>3, <4>4
    <3>4. Len(str[k]) \in Nat /\ Len(str[m - 1]) \in Nat /\ Len(str[m]) \in Nat
      BY <1>4, <3>1
    <3>5. prefix(k, m)
      <4>1. \A i \in 1 .. Len(str[k]) : i \in 1 .. Len(str[m - 1])
        BY <3>2, <3>4
      <4>2. QED
        BY <3>2, <3>3, <3>4, <4>1
    <3> HIDE DEF prefix
    <3>6. QED
      BY <3>1, <3>5
  <2> HIDE DEF T
  <2>3. Nat \subseteq T
    BY <2>1, <2>2, Induction
  <2>4. n - k \in T /\ k + (n - k) = n
    BY <1>1, <2>3
  <2> HIDE DEF prefix
  <2>5. QED
    BY <1>1, <2>4 DEF T
<1>6. ASSUME NEW k \in 1 .. n
      PROVE  /\ all[Len(str[k - 1]) + 1] = Hat
             /\ \A i \in 1 .. Len(tags[k]) : all[Len(str[k - 1]) + 1 + i] = tags[k][i]
  <2>1. k \in 0 .. n /\ k - 1 \in 0 .. n
    BY <1>1
  <2>2. Len(tags[k]) \in Nat /\ Len(str[k - 1]) \in Nat
    BY <1>1, <1>4, <2>1
  <2>3. \A i \in 1 .. Len(str[k]) : all[i] = str[k][i]
    BY <1>5, <2>1
  <2>4. Len(str[k]) = Len(str[k - 1]) + 1 + Len(tags[k])
    BY <1>3
  <2>5. PICK a, b : a = Len(str[k - 1]) /\ b = Len(tags[k])
    OBVIOUS
  <2>6. a \in Nat /\ b \in Nat /\ Len(str[k]) = a + 1 + b
    BY <2>2, <2>4, <2>5
  <2>7. a + 1 \in 1 .. Len(str[k]) /\ \A i \in 1 .. b : a + 1 + i \in 1 .. Len(str[k])
    BY <2>6
  <2>8. str[k][a + 1] = Hat /\ \A i \in 1 .. b : str[k][a + 1 + i] = tags[k][i]
    BY <1>3, <2>5
  <2>9. all[a + 1] = Hat /\ \A i \in 1 .. b : all[a + 1 + i] = tags[k][i]
    BY <2>3, <2>7, <2>8
  <2>10. QED
    BY <2>5, <2>9
<1>7. QED
  BY <1>3, <1>4, <1>5, <1>6 DEF n, TagIsAt

LEMMA SameSeq ==
  ASSUME NEW A, NEW s \in Seq(A), NEW t \in Seq(A), Len(s) = Len(t),
         \A i \in 1 .. Len(s) : s[i] = t[i]
  PROVE  s = t
<1>1. /\ s = [i \in 1 .. Len(s) |-> s[i]]
      /\ t = [i \in 1 .. Len(t) |-> t[i]]
  OBVIOUS
<1>2. QED
  BY <1>1

LEMMA Slice ==
  ASSUME NEW A, NEW s \in Seq(A), NEW a \in Nat, NEW b \in Nat, a <= b, b <= Len(s),
         NEW t \in Seq(A), Len(t) = b - a, \A i \in 1 .. Len(t) : s[a + i] = t[i]
  PROVE  SubSeq(s, a + 1, b) = t
<1>1. PICK r : r = SubSeq(s, a + 1, b)
  OBVIOUS
<1>2. r \in Seq(A) /\ Len(r) = b - a /\ \A i \in 1 .. b - a : r[i] = s[a + i]
  BY <1>1
<1>3. Len(r) = Len(t) /\ \A i \in 1 .. Len(r) : r[i] = t[i]
  BY <1>2
<1>4. r = t
  BY <1>2, <1>3, SameSeq
<1>5. QED
  BY <1>1, <1>4

(* What _fill_tag_filter has found behind k tags. *)
FoundIn(tags, k) == Picked(tags, {i \in 1 .. k : tags[i] # <<>>})

LEMMA FoundGrows ==
  ASSUME NEW tags \in Seq(Tag)
  PROVE  /\ FoundIn(tags, 0) = <<>>
         /\ \A k \in 0 .. Len(tags) : FoundIn(tags, k) \in Seq(Tag)
         /\ \A k \in 1 .. Len(tags) : FoundIn(tags, k) = FoundIn(tags, k - 1) \o Piece(tags[k])
<1> DEFINE S(k) == {i \in 1 .. k : tags[i] # <<>>}
<1>1. S(0) = {}
  OBVIOUS
<1>2. FoundIn(tags, 0) = <<>>
  BY <1>1, PickedNone DEF FoundIn
<1>3. ASSUME NEW k \in 0 .. Len(tags)
      PROVE  FoundIn(tags, k) \in Seq(Tag)
  <2>1. S(k) \subseteq DOMAIN tags
    OBVIOUS
  <2>2. QED
    BY <2>1, PickedProperties DEF FoundIn
<1>4. ASSUME NEW k \in 1 .. Len(tags)
      PROVE  FoundIn(tags, k) = FoundIn(tags, k - 1) \o Piece(tags[k])
  <2>1. k - 1 \in 0 .. Len(tags) /\ FoundIn(tags, k - 1) \in Seq(Tag)
    BY <1>3
  <2>2. CASE tags[k] = <<>>
    <3>1. S(k) = S(k - 1)
      BY <2>2
    <3>2. Piece(tags[k]) = <<>>
      BY <2>2 DEF Piece
    <3>3. FoundIn(tags, k) = FoundIn(tags, k - 1)
      BY <3>1 DEF FoundIn
    <3>4. \A q \in Seq(Tag) : q \o <<>> = q
      OBVIOUS
    <3>5. QED
      BY <2>1, <3>2, <3>3, <3>4
  <2>3. CASE tags[k] # <<>>
    <3>1. S(k) = S(k - 1) \cup {k}
      BY <2>3
    <3>2. Piece(tags[k]) = <<tags[k]>>
      BY <2>3 DEF Piece
    <3>3. /\ S(k - 1) \subseteq DOMAIN tags /\ k \in DOMAIN tags
          /\ \A y \in S(k - 1) : y < k
      OBVIOUS
    <3>4. Picked(tags, S(k)) = Append(Picked(tags, S(k - 1)), tags[k])
      <4> HIDE DEF S
      <4>1. QED
        BY <3>1, <3>3, PickedOneMore
    <3>5. FoundIn(tags, k) = Append(FoundIn(tags, k - 1), tags[k])
      BY <3>4 DEF FoundIn
    <3>6. tags[k] \in Tag
      OBVIOUS
    <3>7. \A q \in Seq(Tag), t \in Tag : Append(q, t) = q \o <<t>>
      OBVIOUS
    <3>8. QED
      BY <2>1, <3>2, <3>5, <3>6, <3>7
  <2>4. QED
    BY <2>2, <2>3
<1>5. QED
  BY <1>2, <1>3, <1>4

(* The tags of a request come back from its string. *)
LEMMA TagsReturn ==
  ASSUME NEW tags \in Seq(Tag), \A k \in 1 .. Len(tags) : Hat \notin ToSet(tags[k])
  PROVE  TagFilter(TagString(tags)) = Picked(tags, {i \in DOMAIN tags : tags[i] # <<>>})
<1> DEFINE n == Len(tags)
<1>1. PICK str : TagLoop(tags, str) /\ TagString(tags) = str[n]
  BY TagStringLoop
<1> DEFINE all == str[n]
           size == Len(all)
           at(k) == Len(str[k - 1]) + 1
           f == Cut(all)
<1>2. n \in Nat /\ \A k \in 1 .. n : tags[k] \in Seq(Nat) /\ Len(tags[k]) \in Nat
  BY DEF Tag
<1>3. all \in Seq(Nat) /\ str[0] = <<>> /\ size \in Nat
  BY <1>1 DEF TagLoop
<1>4. \A k \in 0 .. n : Len(str[k]) \in Nat /\ Len(str[k]) <= size
  BY <1>1, TagPlaces
<1>5. \A k \in 1 .. n : /\ Len(str[k]) = at(k) + Len(tags[k])
                        /\ all[at(k)] = Hat
                        /\ \A i \in 1 .. Len(tags[k]) : all[at(k) + i] = tags[k][i]
  <2> TAKE k \in 1 .. n
  <2>1. PICK a : a = Len(str[k - 1]) + 1
    OBVIOUS
  <2>2. /\ Len(str[k]) = Len(str[k - 1]) + 1 + Len(tags[k])
        /\ all[Len(str[k - 1]) + 1] = Hat
        /\ \A i \in 1 .. Len(tags[k]) : all[Len(str[k - 1]) + 1 + i] = tags[k][i]
    <3>1. TagIsAt(tags, str, all, k)
      BY <1>1, TagPlaces
    <3> HIDE DEF all, n
    <3>2. QED
      BY <3>1 DEF TagIsAt
  <2> HIDE DEF all, n
  <2>3. QED
    BY <2>1, <2>2
<1>6. TagFilter(TagString(tags)) = f[<<0, <<>> >>]
  BY <1>1 DEF TagFilter, Cut, CutOnce, Cuts
<1> HIDE DEF n, all, size, f
<1>7. \A k \in 1 .. n : at(k) \in 1 .. size /\ at(k) + Len(tags[k]) = Len(str[k])
  <2> TAKE k \in 1 .. n
  <2>1. k - 1 \in 0 .. n /\ k \in 0 .. n
    BY <1>2
  <2>2. PICK a, b : a = Len(str[k - 1]) /\ b = Len(tags[k])
    OBVIOUS
  <2>3. a \in Nat /\ b \in Nat /\ Len(str[k]) = a + 1 + b /\ Len(str[k]) <= size
    BY <1>2, <1>4, <1>5, <2>1, <2>2
  <2>4. a + 1 \in 1 .. size
    BY <1>3, <2>3
  <2>5. QED
    BY <1>5, <2>2, <2>4
<1>8. ASSUME NEW k \in 1 .. n
      PROVE  Between(all, at(k), Len(str[k]) + 1) = Piece(tags[k])
  <2>1. PICK a, b : a = at(k) /\ b = Len(str[k])
    OBVIOUS
  <2>2. a \in Nat /\ b \in Nat /\ b <= size
    BY <1>2, <1>3, <1>4, <1>7, <2>1
  <2>3. Len(tags[k]) \in Nat /\ a + Len(tags[k]) = b /\ tags[k] \in Seq(Nat)
    BY <1>2, <1>7, <2>1
  <2>4. a <= b /\ Len(tags[k]) = b - a
    BY <2>2, <2>3
  <2>5. \A i \in 1 .. Len(tags[k]) : all[a + i] = tags[k][i]
    BY <1>5, <2>1
  <2>6. SubSeq(all, a + 1, b) = tags[k]
    BY <1>3, <2>2, <2>3, <2>4, <2>5, Slice DEF size
  <2>7. (b + 1) - 1 = b
    BY <2>2
  <2>8. QED
    BY <2>1, <2>6, <2>7 DEF Between
<1>9. ASSUME NEW k \in 1 .. n, NEW j \in at(k) + 1 .. Len(str[k])
      PROVE  all[j] # Hat
  <2>1. PICK a, b : a = at(k) /\ b = Len(tags[k])
    OBVIOUS
  <2>2. a \in Nat /\ b \in Nat /\ j \in a + 1 .. a + b
    <3>1. a \in 1 .. size /\ a + b = Len(str[k]) /\ j \in a + 1 .. Len(str[k])
      BY <1>7, <2>1
    <3>2. b \in Nat /\ size \in Nat
      BY <1>2, <1>3, <2>1
    <3>3. QED
      BY <3>1, <3>2
  <2>3. j - a \in 1 .. b /\ a + (j - a) = j
    BY <2>2
  <2>4. all[j] = tags[k][j - a]
    BY <1>5, <2>1, <2>3
  <2>5. tags[k][j - a] \in ToSet(tags[k])
    <3>1. DOMAIN tags[k] = 1 .. b
      BY <1>2, <2>1
    <3>2. QED
      BY <2>3, <3>1 DEF ToSet
  <2>6. QED
    BY <2>4, <2>5 DEF n
<1>10. ASSUME NEW k \in 1 .. n, k < n
       PROVE  Hats(all, at(k)) # {} /\ Min(Hats(all, at(k))) = at(k + 1)
  <2>1. k + 1 \in 1 .. n /\ (k + 1) - 1 = k /\ k \in 0 .. n
    BY <1>2, <1>10
  <2>2. PICK a, b, e : a = at(k) /\ b = Len(tags[k]) /\ e = at(k + 1)
    OBVIOUS
  <2>3. e = Len(str[k]) + 1 /\ all[e] = Hat /\ e \in 1 .. size
    BY <1>5, <1>7, <2>1, <2>2
  <2>4. a \in Nat /\ b \in Nat /\ e = a + b + 1
    <3>1. a \in 1 .. size /\ a + b = Len(str[k])
      BY <1>7, <2>2
    <3>2. b \in Nat /\ size \in Nat
      BY <1>2, <1>3, <2>2
    <3>3. QED
      BY <2>3, <3>1, <3>2
  <2>5. e \in Hats(all, a)
    BY <2>3, <2>4 DEF Hats, size
  <2>6. \A j \in Hats(all, a) : e <= j
    <3> SUFFICES ASSUME NEW j \in Hats(all, a), j < e
                 PROVE  FALSE
      BY <1>3, <2>3, <2>4 DEF Hats, size
    <3>1. j \in a + 1 .. size /\ all[j] = Hat
      BY DEF Hats, size
    <3>2. j \in at(k) + 1 .. Len(str[k])
      <4>1. Len(str[k]) = a + b
        BY <1>7, <2>2
      <4>2. j \in a + 1 .. a + b
        BY <1>3, <2>4, <3>1
      <4>3. QED
        BY <2>2, <4>1, <4>2
    <3>3. QED
      BY <1>9, <3>1, <3>2
  <2>7. Min(Hats(all, a)) \in Hats(all, a) /\ Min(Hats(all, a)) <= e
    BY <1>3, <2>4, <2>5, FirstHat
  <2>8. Min(Hats(all, a)) = e
    <3>1. Min(Hats(all, a)) \in Int
      BY <2>7 DEF Hats
    <3>2. e <= Min(Hats(all, a))
      BY <2>6, <2>7
    <3>3. QED
      BY <2>4, <2>7, <3>1, <3>2
  <2>9. QED
    BY <2>2, <2>5, <2>8
<1>11. ASSUME n > 0
       PROVE  Hats(all, at(n)) = {} /\ Len(str[n]) = size
  <2>1. n \in 1 .. n
    BY <1>2, <1>11
  <2>2. Len(str[n]) = size
    BY DEF size, all
  <2>3. Hats(all, at(n)) = {}
    BY <1>9, <2>1, <2>2 DEF Hats, size
  <2>4. QED
    BY <2>2, <2>3
<1>12. \A k \in 0 .. n : FoundIn(tags, k) \in Seq(Tag)
  BY FoundGrows DEF n
<1>13. \A k \in 1 .. n : FoundIn(tags, k) = FoundIn(tags, k - 1) \o Piece(tags[k])
  BY FoundGrows DEF n
<1>14. FoundIn(tags, 0) = <<>>
  BY FoundGrows
<1> DEFINE T == {k \in Nat : k \in 1 .. n => f[<<0, <<>> >>] = f[<<at(k), FoundIn(tags, k - 1)>>]}
<1>15. ASSUME n > 0
       PROVE  f[<<0, <<>> >>] = f[<<at(1), FoundIn(tags, 0)>>]
  <2>1. 1 \in 1 .. n /\ 1 - 1 = 0
    BY <1>2, <1>15
  <2>2. at(1) = 1
    BY <1>3, <2>1
  <2>3. all[1] = Hat /\ 1 \in 1 .. size
    BY <1>5, <1>7, <2>1, <2>2
  <2>4. 1 \in Hats(all, 0)
    BY <2>3 DEF Hats, size
  <2>5. Min(Hats(all, 0)) = 1
    <3>1. Min(Hats(all, 0)) \in Hats(all, 0) /\ Min(Hats(all, 0)) <= 1
      BY <1>3, <2>4, FirstHat
    <3>2. QED
      BY <3>1 DEF Hats
  <2>6. Between(all, 0, 1) = <<>>
    <3>1. SubSeq(all, 0 + 1, 1 - 1) = <<>>
      BY <1>3
    <3>2. QED
      BY <3>1 DEF Between, Piece
  <2>7. 0 \in 0 .. Len(all) /\ <<>> \in Seq(Tag)
    BY <1>3 DEF size
  <2>8. f[<<0, <<>> >>] = f[<<Min(Hats(all, 0)), <<>> \o Between(all, 0, Min(Hats(all, 0)))>>]
    BY <1>3, <2>4, <2>7, CutAt DEF f
  <2>9. <<>> \o <<>> = <<>>
    OBVIOUS
  <2>10. QED
    BY <1>14, <2>2, <2>5, <2>6, <2>8, <2>9
<1>16. ASSUME NEW k \in 1 .. n
       PROVE  at(k) \in 0 .. Len(all) /\ FoundIn(tags, k - 1) \in Seq(Tag)
  <2>1. k - 1 \in 0 .. n
    BY <1>2
  <2>2. at(k) \in 1 .. size
    BY <1>7
  <2> HIDE DEF at
  <2>3. QED
    BY <1>3, <1>12, <2>1, <2>2 DEF size
<1>17. 0 \in T
  OBVIOUS
<1>18. ASSUME NEW k \in Nat, k \in T
       PROVE  k + 1 \in T
  <2> SUFFICES ASSUME k + 1 \in 1 .. n
               PROVE  f[<<0, <<>> >>] = f[<<at(k + 1), FoundIn(tags, (k + 1) - 1)>>]
    OBVIOUS
  <2>1. (k + 1) - 1 = k
    OBVIOUS
  <2>2. CASE k = 0
    BY <1>2, <1>15, <2>2
  <2>3. CASE k # 0
    <3>1. k \in 1 .. n /\ k < n
      BY <1>2, <2>3
    <3>2. f[<<0, <<>> >>] = f[<<at(k), FoundIn(tags, k - 1)>>]
      BY <1>18, <3>1
    <3>3. Hats(all, at(k)) # {} /\ Min(Hats(all, at(k))) = at(k + 1)
      BY <1>10, <3>1
    <3>4. f[<<at(k), FoundIn(tags, k - 1)>>]
            = f[<<at(k + 1), FoundIn(tags, k - 1) \o Between(all, at(k), at(k + 1))>>]
      <4>1. PICK begin, found : begin = at(k) /\ found = FoundIn(tags, k - 1)
        OBVIOUS
      <4>2. begin \in 0 .. Len(all) /\ found \in Seq(Tag) /\ Hats(all, begin) # {}
        BY <1>16, <3>1, <3>3, <4>1
      <4>3. f[<<begin, found>>] = f[<<Min(Hats(all, begin)),
                                      found \o Between(all, begin, Min(Hats(all, begin)))>>]
        BY <1>3, <4>2, CutAt DEF f
      <4> HIDE DEF at
      <4>4. QED
        BY <3>3, <4>1, <4>3
    <3>5. at(k + 1) = Len(str[k]) + 1
      BY <2>1
    <3>6. FoundIn(tags, k) = FoundIn(tags, k - 1) \o Between(all, at(k), at(k + 1))
      BY <1>8, <1>13, <3>1, <3>5
    <3>7. QED
      BY <2>1, <3>2, <3>4, <3>6
  <2>4. QED
    BY <2>2, <2>3
<1> HIDE DEF T
<1>19. Nat \subseteq T
  BY <1>17, <1>18, Induction
<1>20. f[<<0, <<>> >>] = FoundIn(tags, n)
  <2>1. CASE n = 0
    <3>1. all = <<>> /\ Len(all) = 0
      BY <1>3, <2>1 DEF all
    <3>2. Hats(all, 0) = {}
      BY <3>1 DEF Hats
    <3>3. Between(all, 0, Len(all) + 1) = <<>>
      <4>1. SubSeq(all, 0 + 1, (0 + 1) - 1) = <<>>
        BY <1>3
      <4>2. QED
        BY <3>1, <4>1 DEF Between, Piece
    <3>4. 0 \in 0 .. Len(all) /\ <<>> \in Seq(Tag)
      BY <3>1
    <3>5. f[<<0, <<>> >>] = <<>> \o Between(all, 0, Len(all) + 1)
      BY <1>3, <3>2, <3>4, CutAt DEF f
    <3>6. <<>> \o <<>> = <<>>
      OBVIOUS
    <3>7. QED
      BY <1>14, <2>1, <3>3, <3>5, <3>6
  <2>2. CASE n # 0
    <3>1. n > 0 /\ n \in 1 .. n
      BY <1>2, <2>2
    <3>2. f[<<0, <<>> >>] = f[<<at(n), FoundIn(tags, n - 1)>>]
      BY <1>2, <1>19, <3>1 DEF T
    <3>3. f[<<at(n), FoundIn(tags, n - 1)>>]
            = FoundIn(tags, n - 1) \o Between(all, at(n), Len(all) + 1)
      BY <1>3, <1>11, <1>16, <3>1, CutAt DEF f
    <3>4. Between(all, at(n), Len(all) + 1) = Piece(tags[n])
      BY <1>8, <1>11, <3>1 DEF size
    <3>5. QED
      BY <1>13, <3>1, <3>2, <3>3, <3>4
  <2>3. QED
    BY <2>1, <2>2
<1>21. DOMAIN tags = 1 .. n
  BY DEF n
<1>22. QED
  BY <1>6, <1>20, <1>21 DEF FoundIn

-----------------------------------------------------------------------------
(***************************************************************************)
(* The filters                                                             *)
(***************************************************************************)
CatalogsIn(numeric) ==
  {numeric[k].low : k \in {i \in DOMAIN numeric : numeric[i].name = "catalog"}}

LEMMA NumericFilterProperties ==
  ASSUME NEW r, NEW catalog
  PROVE  CatalogsIn(NumericFilter(r, catalog)) = IF catalog > 0 THEN {catalog} ELSE {}
<1> DEFINE type == Numeric("type", r.type, r.type)
           by == Numeric("catalog", catalog, catalog)
<1>1. type.name # "catalog" /\ by.name = "catalog" /\ by.low = catalog
  BY DEF Numeric
<1> HIDE DEF type, by
<1>2. CASE catalog > 0
  <2>1. PICK s : s = Append(<<type>>, by)
    OBVIOUS
  <2>2. NumericFilter(r, catalog) = s
    BY <1>2, <2>1 DEF NumericFilter, type, by
  <2>3. DOMAIN s = 1 .. 2 /\ s[1] = type /\ s[2] = by
    <3>1. DOMAIN Append(<<type>>, by) = 1 .. 2
      OBVIOUS
    <3>2. Append(<<type>>, by)[1] = type
      OBVIOUS
    <3>3. Append(<<type>>, by)[2] = by
      OBVIOUS
    <3>4. QED
      BY <2>1, <3>1, <3>2, <3>3
  <2>4. {i \in DOMAIN s : s[i].name = "catalog"} = {2}
    BY <1>1, <2>3
  <2>5. CatalogsIn(s) = {s[k].low : k \in {2}}
    BY <2>4 DEF CatalogsIn
  <2>6. QED
    BY <1>1, <1>2, <2>2, <2>3, <2>5
<1>3. CASE ~(catalog > 0)
  <2>1. NumericFilter(r, catalog) = <<type>>
    BY <1>3 DEF NumericFilter, type
  <2>2. {i \in DOMAIN <<type>> : <<type>>[i].name = "catalog"} = {}
    BY <1>1
  <2>3. CatalogsIn(<<type>>) = {}
    BY <2>2 DEF CatalogsIn
  <2>4. QED
    BY <1>3, <2>1, <2>3
<1>4. QED
  BY <1>2, <1>3

(* A search has the filters of its request: the tags come back from the    *)
(* string that _adapt_input makes of them, whatever their number and       *)
(* length (as.cpp:60-80), and the catalog that is announced is the one     *)
(* that was filtered by (l.141-146).                                       *)
THEOREM FiltersMatch == RequestSpec => []FiltersOfRequest
<1>1. PathInv => FiltersOfRequest
  <2> SUFFICES ASSUME PathInv, Answered
               PROVE  FiltersOfRequest
    BY DEF FiltersOfRequest
  <2>1. request \in Requests /\ request.tag \in Seq(Tag)
    BY SearchPathAssumption DEF PathInv, Answered
  <2>2. PICK n \in 0 .. MaxFound, before \in ByteBefore :
          response = Result(request, Analysed(request.query, before), n)
    BY DEF PathInv, Answered
  <2> DEFINE analysed == Analysed(request.query, before)
             catalog == Chosen(request, analysed)
             by == CatalogsIn(response.numeric)
  <2>3. /\ response.tags = TagFilter(TagString(request.tag))
        /\ response.numeric = NumericFilter(request, catalog)
        /\ response.catalog = Announced(catalog)
    BY <2>2 DEF Result
  <2>4. by = IF catalog > 0 THEN {catalog} ELSE {}
    BY <2>3, NumericFilterProperties
  <2>5. request.catalog > 0 => catalog = request.catalog
    BY DEF Chosen
  <2> HIDE DEF analysed, catalog
  <2>6. ASSUME \A t \in ToSet(request.tag) : Hat \notin ToSet(t)
        PROVE  response.tags = Picked(request.tag, {i \in DOMAIN request.tag : request.tag[i] # <<>>})
    <3>1. DOMAIN request.tag = 1 .. Len(request.tag)
      BY <2>1
    <3>2. \A k \in 1 .. Len(request.tag) : Hat \notin ToSet(request.tag[k])
      BY <2>6, <3>1 DEF ToSet
    <3>3. QED
      BY <2>1, <2>3, <3>2, TagsReturn
  <2>7. ASSUME response.catalog.id # NoCatalog
        PROVE  by = {response.catalog.id}
    <3>1. Undescribed.id = NoCatalog
      BY DEF Undescribed
    <3>2. Announced(catalog) # Undescribed
      BY <2>3, <2>7, <3>1
    <3>3. catalog > 0 /\ catalog \in DOMAIN catalog_info_dict /\ response.catalog = catalog_info_dict[catalog]
      BY <2>3, <3>2 DEF Announced
    <3>4. response.catalog.id = catalog
      <4>1. PICK i \in Described(Len(CatalogInfoConf)) :
              catalog_info_dict[catalog] = [id |-> catalog, name |-> CatalogInfoConf[i].name,
                                            groups |-> Groups(CatalogInfoConf[i])]
        BY <3>3, DictSaysLast DEF SaysLast
      <4>2. QED
        BY <3>3, <4>1
    <3>5. QED
      BY <2>4, <3>3, <3>4
  <2>8. request.catalog > 0 => by = {request.catalog}
    BY <2>4, <2>5
  <2>9. QED
    BY <2>6, <2>7, <2>8 DEF FiltersOfRequest, CatalogsIn
<1>2. QED
  BY <1>1, PathInvariance, PTL

-----------------------------------------------------------------------------
(***************************************************************************)
(* normalize_query                                                         *)
(***************************************************************************)
Written(c) == Blank(ToLower(c))

LEMMA CharProperties ==
  \A c \in Char : /\ Written(c) \in Char
                  /\ Written(c) = Space <=> Blank(c) = Space
  BY DEF Written, Blank, ToLower, Char, Upper, Letter, Space, Tab

(* A string of the size of the text, and the place of what was written     *)
(* last.                                                                   *)
States(n) == [q : [1 .. n -> Char], i : Int]

LEMMA TurnStays ==
  ASSUME NEW n \in Nat, NEW j \in 0 .. n - 1, NEW at \in States(n), NEW before \in ByteBefore
  PROVE  Turn(at, j, before) \in States(n)
<1> DEFINE q == [at.q EXCEPT ![j + 1] = Blank(ToLower(@))]
           w == [q EXCEPT ![at.i + 2] = q[j + 1]]
<1>1. at.q \in [1 .. n -> Char] /\ at.i \in Int /\ j + 1 \in 1 .. n
  BY DEF States
<1>2. Blank(ToLower(at.q[j + 1])) \in Char
  BY <1>1, CharProperties DEF Written
<1>3. q \in [1 .. n -> Char]
  BY <1>1, <1>2
<1>4. q[j + 1] \in Char
  BY <1>1, <1>3
<1>5. w \in [1 .. n -> Char]
  <2> HIDE DEF q
  <2>1. QED
    BY <1>1, <1>3, <1>4
<1>6. Turn(at, j, before) = IF Skipped(q, at.i, j, before) THEN [q |-> q, i |-> at.i]
                            ELSE [q |-> w, i |-> at.i + 1]
  BY DEF Turn
<1> HIDE DEF q, w
<1>7. QED
  BY <1>1, <1>3, <1>5, <1>6 DEF States

LEMMA TurnLoop ==
  ASSUME NEW text \in Seq(Char), NEW before \in ByteBefore
  PROVE  \E turns \in [0 .. Len(text) -> States(Len(text))] :
           /\ turns[0] = [q |-> text, i |-> -1]
           /\ \A j \in 1 .. Len(text) : turns[j] = Turn(turns[j - 1], j - 1, before)
           /\ normalize_query(text, before)
                = SubSeq(turns[Len(text)].q, 1, turns[Len(text)].i + 1)
<1> DEFINE n == Len(text)
           V == States(n)
           init == [q |-> text, i |-> -1]
           step == [j \in Nat |-> [at \in V |-> IF j < n THEN Turn(at, j, before) ELSE at]]
           once(g) == [j \in 0 .. n |-> IF j = 0 THEN init ELSE Turn(g[j - 1], j - 1, before)]
           turns == CHOOSE g : g = once(g)
<1>1. n \in Nat
  OBVIOUS
<1>2. init \in V
  BY DEF States
<1>3. \A j \in 0 .. n - 1, at \in V : Turn(at, j, before) \in V
  BY TurnStays
<1>4. normalize_query(text, before) = SubSeq(turns[n].q, 1, turns[n].i + 1)
  BY DEF normalize_query
<1> HIDE DEF n, V
<1>5. \A j \in Nat, at \in V :
        /\ step[j][at] \in V
        /\ j < n => step[j][at] = Turn(at, j, before)
  <2> TAKE j \in Nat, at \in V
  <2>1. j < n => j \in 0 .. n - 1
    BY <1>1
  <2>2. j < n => Turn(at, j, before) \in V
    BY <1>3, <2>1
  <2>3. QED
    BY <2>2
<1>6. step \in [Nat -> [V -> V]]
  <2>1. \A j \in Nat : step[j] \in [V -> V]
    BY <1>5
  <2>2. step = [j \in Nat |-> step[j]]
    OBVIOUS
  <2> HIDE DEF step
  <2>3. QED
    BY <2>1, <2>2
<1> HIDE DEF step, init
<1>7. PICK f : IsLoop(f, n, V, init, step)
  BY <1>1, <1>2, <1>6, Iteration
<1>8. f = once(f)
  <2>1. f \in [0 .. n -> V] /\ f[0] = init
    BY <1>7 DEF IsLoop
  <2>2. \A j \in 1 .. n : f[j] = Turn(f[j - 1], j - 1, before)
    <3> TAKE j \in 1 .. n
    <3>1. j - 1 \in 0 .. n /\ j - 1 \in Nat /\ j - 1 < n
      BY <1>1
    <3>2. f[j] = step[j - 1][f[j - 1]]
      BY <1>7 DEF IsLoop
    <3>3. f[j - 1] \in V
      BY <2>1, <3>1
    <3>4. QED
      BY <1>5, <3>1, <3>2, <3>3
  <2>3. \A j \in 0 .. n : f[j] = IF j = 0 THEN init ELSE Turn(f[j - 1], j - 1, before)
    BY <1>1, <2>1, <2>2
  <2>4. QED
    BY <2>1, <2>3
<1>9. turns = once(turns)
  <2> HIDE DEF once
  <2>1. QED
    BY <1>8
<1> HIDE DEF turns
<1>10. /\ turns[0] = init
       /\ \A j \in 1 .. n : turns[j] = Turn(turns[j - 1], j - 1, before)
  <2> DEFINE h == once(turns)
  <2>1. h[0] = init /\ \A j \in 1 .. n : h[j] = Turn(turns[j - 1], j - 1, before)
    BY <1>1
  <2>2. h = turns
    BY <1>9
  <2> HIDE DEF h
  <2>3. QED
    BY <2>1, <2>2
<1>11. \A j \in 0 .. n : turns[j] \in V
  <2> DEFINE T == {j \in Nat : j <= n => turns[j] \in V}
  <2>1. 0 \in T
    BY <1>2, <1>10
  <2>2. ASSUME NEW j \in Nat, j \in T
        PROVE  j + 1 \in T
    <3>1. j + 1 <= n => j + 1 \in 1 .. n /\ (j + 1) - 1 = j /\ j \in 0 .. n - 1
      BY <1>1
    <3>2. j + 1 <= n => j <= n /\ turns[j + 1] = Turn(turns[j], j, before)
      BY <1>1, <1>10, <3>1
    <3>3. j + 1 <= n => turns[j + 1] \in V
      BY <1>3, <2>2, <3>1, <3>2
    <3>4. QED
      BY <3>3
  <2> HIDE DEF T
  <2>3. Nat \subseteq T
    BY <2>1, <2>2, Induction
  <2>4. QED
    BY <1>1, <2>3 DEF T
<1>12. turns = [j \in 0 .. n |-> turns[j]]
  BY <1>9
<1>13. turns \in [0 .. n -> V]
  BY <1>11, <1>12
<1>14. QED
  BY <1>4, <1>10, <1>13 DEF init, n, V

(* The places of the text whose character stays. *)
First(text, before) ==
  {j \in DOMAIN text : Blank(text[j]) # Space \/ Previous(text, j, before) # Space}
Lowered(kept) == [k \in DOMAIN kept |-> Written(kept[k])]
NormalTo(text, j, before) == Lowered(Picked(text, First(text, before) \cap (1 .. j)))

LEMMA NormalGrows ==
  ASSUME NEW text \in Seq(Char), NEW before \in ByteBefore
  PROVE  /\ NormalTo(text, 0, before) = <<>>
         /\ NormalTo(text, Len(text), before) = Normal(text, before)
         /\ \A j \in 0 .. Len(text) : NormalTo(text, j, before) \in Seq(Char)
         /\ \A j \in 1 .. Len(text) :
              NormalTo(text, j, before) = IF j \in First(text, before)
                                    THEN Append(NormalTo(text, j - 1, before), Written(text[j]))
                                    ELSE NormalTo(text, j - 1, before)
<1> DEFINE n == Len(text)
           S(j) == First(text, before) \cap (1 .. j)
<1>1. n \in Nat /\ DOMAIN text = 1 .. n /\ First(text, before) \subseteq DOMAIN text
  BY DEF First
<1>2. NormalTo(text, 0, before) = <<>>
  <2>1. S(0) = {}
    OBVIOUS
  <2>2. Picked(text, S(0)) = <<>>
    BY <2>1, PickedNone
  <2>3. Lowered(<<>>) = <<>>
    BY DEF Lowered
  <2>4. QED
    BY <2>2, <2>3 DEF NormalTo
<1>3. NormalTo(text, n, before) = Normal(text, before)
  <2>1. S(n) = First(text, before)
    BY <1>1
  <2>2. QED
    BY <2>1 DEF NormalTo, Normal, First, Lowered, Written
<1>4. \A kept \in Seq(Char) : Lowered(kept) \in Seq(Char)
  <2> TAKE kept \in Seq(Char)
  <2>1. DOMAIN kept = 1 .. Len(kept) /\ Len(kept) \in Nat
    OBVIOUS
  <2>2. \A k \in DOMAIN kept : kept[k] \in Char
    OBVIOUS
  <2>3. Lowered(kept) \in [1 .. Len(kept) -> Char]
    BY <2>1, <2>2, CharProperties DEF Lowered
  <2>4. QED
    BY <2>1, <2>3
<1>5. \A j : Picked(text, S(j)) \in Seq(Char)
  BY <1>1, PickedProperties
<1>6. \A j \in 0 .. n : NormalTo(text, j, before) \in Seq(Char)
  BY <1>4, <1>5 DEF NormalTo
<1>7. ASSUME NEW kept \in Seq(Char), NEW c \in Char
      PROVE  Lowered(Append(kept, c)) = Append(Lowered(kept), Written(c))
  <2>1. PICK m : m = Len(kept)
    OBVIOUS
  <2>2. m \in Nat /\ DOMAIN kept = 1 .. m /\ DOMAIN Append(kept, c) = 1 .. m + 1
    BY <2>1
  <2>3. /\ \A k \in 1 .. m : Append(kept, c)[k] = kept[k]
        /\ Append(kept, c)[m + 1] = c
    BY <2>1
  <2>4. Lowered(kept) \in Seq(Char) /\ Written(c) \in Char /\ Append(kept, c) \in Seq(Char)
    BY <1>4, CharProperties
  <2>5. DOMAIN Lowered(kept) = 1 .. m /\ Len(Lowered(kept)) = m
    BY <2>2, <2>4 DEF Lowered
  <2>6. PICK r, s : r = Lowered(Append(kept, c)) /\ s = Append(Lowered(kept), Written(c))
    OBVIOUS
  <2>7. s \in Seq(Char) /\ Len(s) = m + 1
    BY <2>4, <2>5, <2>6
  <2>8. r \in Seq(Char) /\ DOMAIN r = 1 .. m + 1
    BY <1>4, <2>2, <2>4, <2>6 DEF Lowered
  <2>9. \A k \in 1 .. m + 1 : r[k] = Written(Append(kept, c)[k])
    BY <2>2, <2>6 DEF Lowered
  <2>10. \A k \in 1 .. m : s[k] = Lowered(kept)[k]
    BY <2>4, <2>5, <2>6
  <2>11. s[m + 1] = Written(c)
    BY <2>4, <2>5, <2>6
  <2>12. \A k \in 1 .. m + 1 : r[k] = s[k]
    <3> TAKE k \in 1 .. m + 1
    <3>1. CASE k = m + 1
      BY <2>3, <2>9, <2>11, <3>1
    <3>2. CASE k # m + 1
      <4>1. k \in 1 .. m
        BY <2>2, <3>2
      <4>2. Lowered(kept)[k] = Written(kept[k])
        BY <2>2, <4>1 DEF Lowered
      <4>3. QED
        BY <2>3, <2>9, <2>10, <4>1, <4>2
    <3>3. QED
      BY <3>1, <3>2
  <2>13. Len(r) = m + 1
    BY <2>2, <2>8
  <2>14. r = s
    BY <2>7, <2>8, <2>12, <2>13, SameSeq
  <2>15. QED
    BY <2>6, <2>14
<1>8. ASSUME NEW j \in 1 .. n
      PROVE  NormalTo(text, j, before) = IF j \in First(text, before)
                                   THEN Append(NormalTo(text, j - 1, before), Written(text[j]))
                                   ELSE NormalTo(text, j - 1, before)
  <2>1. CASE j \notin First(text, before)
    <3>1. S(j) = S(j - 1)
      BY <1>1, <2>1
    <3>2. QED
      BY <2>1, <3>1 DEF NormalTo
  <2>2. CASE j \in First(text, before)
    <3>1. S(j) = S(j - 1) \cup {j} /\ S(j - 1) \subseteq DOMAIN text /\ j \in DOMAIN text
      BY <1>1, <2>2
    <3>2. \A y \in S(j - 1) : y < j
      OBVIOUS
    <3> HIDE DEF S
    <3>3. Picked(text, S(j)) = Append(Picked(text, S(j - 1)), text[j])
      BY <3>1, <3>2, PickedOneMore
    <3>4. text[j] \in Char
      BY <3>1
    <3>5. Lowered(Picked(text, S(j))) = Append(Lowered(Picked(text, S(j - 1))), Written(text[j]))
      BY <1>5, <1>7, <3>3, <3>4
    <3>6. QED
      BY <2>2, <3>5 DEF NormalTo, S
  <2>3. QED
    BY <2>1, <2>2
<1>9. QED
  BY <1>2, <1>3, <1>6, <1>8

(* Behind j turns the first i + 1 characters are those of the text so far, *)
(* and the character at i is a space if the one read last was blank.       *)
TurnInv(text, at, j, before) ==
  /\ at.i \in -1 .. j - 1
  /\ CharAt(at.q, at.i, before) = Space <=> Previous(text, j + 1, before) = Space
  /\ \A k \in j + 1 .. Len(text) : at.q[k] = text[k]
  /\ SubSeq(at.q, 1, at.i + 1) = NormalTo(text, j, before)

LEMMA TurnKeeps ==
  ASSUME NEW text \in Seq(Char), NEW at \in States(Len(text)),
         NEW before \in ByteBefore, NEW j \in 0 .. Len(text) - 1, TurnInv(text, at, j, before)
  PROVE  TurnInv(text, Turn(at, j, before), j + 1, before)
<1> DEFINE n == Len(text)
           i == at.i
           c == Written(text[j + 1])
           q == [at.q EXCEPT ![j + 1] = Blank(ToLower(@))]
           w == [q EXCEPT ![i + 2] = q[j + 1]]
<1>1. /\ n \in Nat /\ j \in Nat /\ j + 1 \in 1 .. n /\ text[j + 1] \in Char
      /\ c \in Char /\ (c = Space <=> Blank(text[j + 1]) = Space)
  BY CharProperties
<1>2. at.q \in [1 .. n -> Char] /\ i \in Int
  BY DEF States
<1>3. /\ i \in -1 .. j - 1
      /\ CharAt(at.q, i, before) = Space <=> Previous(text, j + 1, before) = Space
      /\ \A k \in j + 1 .. n : at.q[k] = text[k]
      /\ SubSeq(at.q, 1, i + 1) = NormalTo(text, j, before)
  BY DEF TurnInv
<1>4. Turn(at, j, before) = IF Skipped(q, i, j, before) THEN [q |-> q, i |-> i]
                            ELSE [q |-> w, i |-> i + 1]
  BY DEF Turn
<1> HIDE DEF n, i
<1>5. at.q[j + 1] = text[j + 1]
  BY <1>1, <1>3
<1>6. q = [at.q EXCEPT ![j + 1] = c]
  BY <1>5 DEF Written
<1> HIDE DEF q, c
<1>7. /\ q \in [1 .. n -> Char] /\ q[j + 1] = c
      /\ \A k \in 1 .. n : k # j + 1 => q[k] = at.q[k]
  BY <1>1, <1>2, <1>6
<1>8. w \in [1 .. n -> Char] /\ w[i + 2] = c /\ \A k \in 1 .. n : k # i + 2 => w[k] = q[k]
  <2>1. i + 2 \in 1 .. n
    BY <1>1, <1>3
  <2>2. QED
    BY <1>1, <1>7, <2>1
<1> HIDE DEF w
<1>9. SubSeq(q, 1, i + 1) = NormalTo(text, j, before)
  <2>1. at.q \in Seq(Char) /\ q \in Seq(Char) /\ Len(at.q) = n /\ Len(q) = n
    <3>1. \A s \in [1 .. n -> Char] : s \in Seq(Char) /\ Len(s) = n
      BY <1>1
    <3>2. QED
      BY <1>2, <1>7, <3>1
  <2>2. i + 1 \in 0 .. n /\ \A k \in 1 .. i + 1 : q[k] = at.q[k]
    BY <1>1, <1>3, <1>7
  <2>3. SubSeq(q, 1, i + 1) = SubSeq(at.q, 1, i + 1)
    <3>1. PICK r, s : r = SubSeq(q, 1, i + 1) /\ s = SubSeq(at.q, 1, i + 1)
      OBVIOUS
    <3>2. /\ r \in Seq(Char) /\ s \in Seq(Char) /\ Len(r) = i + 1 /\ Len(s) = i + 1
          /\ \A k \in 1 .. i + 1 : r[k] = q[k] /\ s[k] = at.q[k]
      BY <2>1, <2>2, <3>1
    <3>3. \A k \in 1 .. Len(r) : r[k] = s[k]
      BY <2>2, <3>2
    <3>4. r = s
      BY <3>2, <3>3, SameSeq
    <3>5. QED
      BY <3>1, <3>4
  <2>4. QED
    BY <1>3, <2>3
<1>10. Skipped(q, i, j, before) <=> j + 1 \notin First(text, before)
  <2>1. CharAt(q, j, before) = c
    BY <1>1, <1>7 DEF CharAt
  <2>2. CharAt(q, i, before) = CharAt(at.q, i, before)
    <3>1. CASE i = -1
      BY <3>1 DEF CharAt
    <3>2. CASE i # -1
      <4>1. i + 1 \in 1 .. n /\ i + 1 # j + 1
        BY <1>1, <1>3, <3>2
      <4>2. QED
        BY <1>7, <3>2, <4>1 DEF CharAt
    <3>3. QED
      BY <3>1, <3>2
  <2>3. Skipped(q, i, j, before) <=> c = Space /\ CharAt(q, i, before) = Space
    BY <2>1 DEF Skipped
  <2>4. j + 1 \in DOMAIN text
    BY <1>1 DEF n
  <2>5. j + 1 \in First(text, before) <=> \/ Blank(text[j + 1]) # Space
                                         \/ Previous(text, j + 1, before) # Space
    BY <2>4 DEF First
  <2>6. QED
    BY <1>1, <1>3, <2>2, <2>3, <2>5
<1>11. /\ j + 1 \in 1 .. n /\ (j + 1) - 1 = j
       /\ NormalTo(text, j + 1, before) = IF j + 1 \in First(text, before)
                                    THEN Append(NormalTo(text, j, before), c) ELSE NormalTo(text, j, before)
  <2>1. (j + 1) - 1 = j
    BY <1>1
  <2>2. QED
    BY <1>1, <2>1, NormalGrows DEF n, c
<1>12. CASE Skipped(q, i, j, before)
  <2> DEFINE new == Turn(at, j, before)
  <2>1. new.q = q /\ new.i = i
    BY <1>4, <1>12
  <2> HIDE DEF new
  <2>2. c = Space /\ CharAt(q, i, before) = Space
    BY <1>1, <1>7, <1>12 DEF Skipped, CharAt
  <2>4. i \in -1 .. (j + 1) - 1
    BY <1>1, <1>3
  <2>5. Previous(text, (j + 1) + 1, before) = Space
    BY <1>1, <2>2 DEF Previous
  <2>6. \A k \in (j + 1) + 1 .. n : q[k] = text[k]
    BY <1>1, <1>3, <1>7
  <2>7. SubSeq(q, 1, i + 1) = NormalTo(text, j + 1, before)
    BY <1>9, <1>10, <1>11, <1>12
  <2>8. TurnInv(text, new, j + 1, before)
    BY <2>1, <2>2, <2>4, <2>5, <2>6, <2>7 DEF TurnInv, n
  <2>9. QED
    BY <2>8 DEF new
<1>13. CASE ~Skipped(q, i, j, before)
  <2> DEFINE new == Turn(at, j, before)
  <2>1. new.q = w /\ new.i = i + 1
    BY <1>4, <1>13
  <2> HIDE DEF new
  <2>2. i + 1 \in -1 .. (j + 1) - 1 /\ i + 1 >= 0 /\ (i + 1) + 1 = i + 2
    BY <1>1, <1>3
  <2>3. CharAt(w, i + 1, before) = Space <=> Previous(text, (j + 1) + 1, before) = Space
    BY <1>1, <1>8, <2>2 DEF CharAt, Previous
  <2>4. \A k \in (j + 1) + 1 .. n : w[k] = text[k]
    <3> TAKE k \in (j + 1) + 1 .. n
    <3>1. j \in Nat /\ n \in Nat /\ i \in Int /\ i < j
      BY <1>1, <1>3
    <3>2. k \in 1 .. n /\ k # i + 2 /\ k # j + 1 /\ k \in j + 1 .. n
      BY <3>1
    <3>3. QED
      BY <1>3, <1>7, <1>8, <3>2
  <2>5. SubSeq(w, 1, i + 2) = Append(SubSeq(q, 1, i + 1), c)
    <3>1. w \in Seq(Char) /\ q \in Seq(Char) /\ Len(w) = n /\ Len(q) = n
      BY <1>1, <1>7, <1>8
    <3>2. PICK m : m = i + 1
      OBVIOUS
    <3>3. m \in Nat /\ m + 1 <= n /\ m + 1 = i + 2
      BY <1>1, <1>3, <3>2
    <3>4. PICK r, s : r = SubSeq(w, 1, m + 1) /\ s = SubSeq(q, 1, m)
      OBVIOUS
    <3>5. /\ r \in Seq(Char) /\ Len(r) = m + 1 /\ \A k \in 1 .. m + 1 : r[k] = w[k]
          /\ s \in Seq(Char) /\ Len(s) = m /\ \A k \in 1 .. m : s[k] = q[k]
      BY <3>1, <3>3, <3>4
    <3>6. PICK t : t = Append(s, c)
      OBVIOUS
    <3>7. /\ t \in Seq(Char) /\ Len(t) = m + 1 /\ t[m + 1] = c
          /\ \A k \in 1 .. m : t[k] = s[k]
      BY <1>1, <3>5, <3>6
    <3>8. \A k \in 1 .. m : w[k] = q[k]
      <4> TAKE k \in 1 .. m
      <4>1. k \in 1 .. n /\ k # i + 2
        BY <1>1, <3>3
      <4>2. QED
        BY <1>8, <4>1
    <3>9. \A k \in 1 .. m + 1 : r[k] = t[k]
      <4> TAKE k \in 1 .. m + 1
      <4>1. CASE k = m + 1
        BY <1>8, <3>3, <3>5, <3>7, <4>1
      <4>2. CASE k # m + 1
        <5>1. k \in 1 .. m
          BY <3>3, <4>2
        <5>2. QED
          BY <3>5, <3>7, <3>8, <5>1
      <4>3. QED
        BY <4>1, <4>2
    <3>10. r = t
      BY <3>5, <3>7, <3>9, SameSeq
    <3>11. QED
      BY <3>2, <3>3, <3>4, <3>6, <3>10
  <2>6. SubSeq(w, 1, i + 2) = NormalTo(text, j + 1, before)
    BY <1>9, <1>10, <1>11, <1>13, <2>5
  <2>7. TurnInv(text, new, j + 1, before)
    BY <2>1, <2>2, <2>3, <2>4, <2>6 DEF TurnInv, n
  <2>8. QED
    BY <2>7 DEF new
<1>14. QED
  BY <1>12, <1>13

LEMMA NormalizeIsNormal ==
  ASSUME NEW text \in Seq(Char), NEW before \in ByteBefore
  PROVE  normalize_query(text, before) = Normal(text, before)
<1> DEFINE n == Len(text)
<1>1. PICK turns \in [0 .. n -> States(n)] :
        /\ turns[0] = [q |-> text, i |-> -1]
        /\ \A j \in 1 .. n : turns[j] = Turn(turns[j - 1], j - 1, before)
        /\ normalize_query(text, before) = SubSeq(turns[n].q, 1, turns[n].i + 1)
  BY TurnLoop
<1>2. n \in Nat
  OBVIOUS
<1> DEFINE T == {j \in Nat : j <= n => TurnInv(text, turns[j], j, before)}
<1>3. 0 \in T
  <2>1. SubSeq(text, 1, -1 + 1) = NormalTo(text, 0, before)
    <3>1. SubSeq(text, 1, 0) = <<>>
      OBVIOUS
    <3>2. NormalTo(text, 0, before) = <<>>
      BY NormalGrows
    <3>3. QED
      BY <3>1, <3>2
  <2>2. turns[0].q = text /\ turns[0].i = -1
    BY <1>1
  <2>3. TurnInv(text, turns[0], 0, before)
    BY <2>1, <2>2 DEF TurnInv, CharAt, Previous
  <2>4. QED
    BY <2>3
<1>4. ASSUME NEW j \in Nat, j \in T
      PROVE  j + 1 \in T
  <2> SUFFICES ASSUME j + 1 <= n
               PROVE  TurnInv(text, turns[j + 1], j + 1, before)
    OBVIOUS
  <2>1. j + 1 \in 1 .. n /\ (j + 1) - 1 = j /\ j \in 0 .. n - 1 /\ j \in 0 .. n /\ j <= n
    BY <1>2
  <2>2. /\ turns[j + 1] = Turn(turns[j], j, before)
        /\ turns[j] \in States(n) /\ TurnInv(text, turns[j], j, before)
    BY <1>1, <1>4, <2>1
  <2>3. TurnInv(text, Turn(turns[j], j, before), j + 1, before)
    BY <2>1, <2>2, TurnKeeps
  <2>4. QED
    BY <2>2, <2>3
<1> HIDE DEF T
<1>5. Nat \subseteq T
  BY <1>3, <1>4, Induction
<1>6. TurnInv(text, turns[n], n, before)
  BY <1>2, <1>5 DEF T
<1>7. SubSeq(turns[n].q, 1, turns[n].i + 1) = NormalTo(text, n, before)
  BY <1>6 DEF TurnInv
<1>8. QED
  BY <1>1, <1>7, NormalGrows

(* The loop that normalize_query runs in the string it reads writes what   *)
(* its comment says, for queries of every length (da.cpp:128-153).         *)
THEOREM NormalizedIsNormal == RequestSpec => []NormalizeExact
<1>1. PathInv => NormalizeExact
  <2> SUFFICES ASSUME PathInv, pc = "bs"
               PROVE  \E before \in ByteBefore : da.query = Normal(request.query, before)
    BY DEF NormalizeExact
  <2>1. request.query \in Seq(Char)
    BY SearchPathAssumption DEF PathInv
  <2>2. PICK before \in ByteBefore : da = Analysed(request.query, before)
    BY DEF PathInv
  <2>3. da.query = normalize_query(request.query, before)
    BY <2>2 DEF Analysed
  <2>4. QED
    BY <2>1, <2>3, NormalizeIsNormal
<1>2. QED
  BY <1>1, PathInvariance, PTL
=============================================================================
