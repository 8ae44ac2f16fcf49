---------------------------- MODULE EngineProofs ----------------------------
(***************************************************************************)
(* Proofs about the way of the rows to the server: makeindex() is run as   *)
(* a part of the engine, and what load takes was written by its flush.     *)
(***************************************************************************)
EXTENDS Engine, MakeIndexProofs, BasicSearchProofs

(* What was loaded stays as it was loaded. *)
LoadInv ==
  /\ IInv
  /\ loadRet = 0 => ExitsWithZero /\ termFile # <<>>

(* makeindex() does not go on after it has returned. *)
LEMMA BuildIsStep ==
  ASSUME Build
  PROVE  Next /\ ~ExitsWithZero
  BY DEF Build, Next, ExitsWithZero, Started, InitFails, InitBroken, NextLine, ReadLine,
         RefuseLine, WriteBrief, BriefFails, IndexInfo, FinishObj, FinishFails,
         EndOfInput, ReadFails, FlushTerm, FlushFails, FlushDone

LEMMA OthersKeepTheBuild ==
  ASSUME [EngineNext]_engineVars
  PROVE  Build \/ UNCHANGED vars
  BY DEF EngineNext, engineVars, GetData, Load, BeginSearch, ContinueSearch

(* load gives up on a directory without terms. *)
LEMMA LoadedHasTerms ==
  ASSUME Load, loadRet' = 0
  PROVE  termFile # <<>>
<1> SUFFICES ASSUME termFile = <<>>
             PROVE  FALSE
  OBVIOUS
<1>1. TermFileRefused(Directory)
  BY DEF TermFileRefused, Directory
<1>2. load(Directory) \in {{2}, {3}}
  BY <1>1 DEF load
<1>3. QED
  BY <1>2 DEF Load

LEMMA LoadInit ==
  EngineInit => LoadInv
  BY InvariantInit DEF EngineInit, LoadInv, NotLoaded

LEMMA LoadStep ==
  ASSUME LoadInv, [EngineNext]_engineVars
  PROVE  LoadInv'
<1>1. IInv'
  <2>1. [Next]_vars
    BY OthersKeepTheBuild, BuildIsStep
  <2>2. QED
    BY <2>1, InvariantStep DEF LoadInv
<1>2. CASE Build
  BY <1>1, <1>2, BuildIsStep DEF Build, LoadInv
<1>3. CASE Load
  BY <1>1, <1>3, LoadedHasTerms DEF Load, vars, flushVars, LoadInv, ExitsWithZero
<1>4. CASE UNCHANGED <<vars, loadRet>>
  BY <1>1, <1>4 DEF vars, flushVars, LoadInv, ExitsWithZero
<1>5. QED
  BY <1>2, <1>3, <1>4
     DEF EngineNext, engineVars, GetData, BeginSearch, ContinueSearch

(* A build that failed before its flush is not loaded, though makeindex    *)
(* exits with 0.                                                           *)
THEOREM FailureIsSeen ==
  EngineSpec => []FailedBuildRefused
<1>1. LoadInv => FailedBuildRefused
  BY DEF LoadInv, IInv, BrokenInv, ExitsWithZero, FailedBuildRefused
<1>2. QED
  BY <1>1, LoadInit, LoadStep, PTL DEF EngineSpec
-----------------------------------------------------------------------------
(***************************************************************************)
(* The dump                                                                *)
(***************************************************************************)

(* The tables are dumped in order; what the tweets of the database name is *)
(* in the database, what the dumped ones name is in it too, and is dumped  *)
(* after them.                                                             *)
DumpInv ==
  /\ db \in [Tables -> Seq(Rows)]
  /\ inserts \in Seq([table : Tables, row : Rows])
  /\ \A n \in DOMAIN inserts :
       inserts[n].table = "tweet" =>
         ToSet(inserts[n].row.resources)
           \subseteq RidsIn(db["resource"]) \cup RidsBefore(inserts, n)
  /\ NamedIn(db["tweet"]) \subseteq RidsIn(db["resource"])
  /\ DOMAIN dumped \in {{}, {"tweet"}, {"tweet", "zan"}, {"tweet", "zan", "comment"}, Tables}
  /\ "tweet" \in DOMAIN dumped => NamedIn(dumped["tweet"]) \subseteq RidsIn(db["resource"])
  /\ "resource" \in DOMAIN dumped => NamedIn(dumped["tweet"]) \subseteq RidsIn(dumped["resource"])
  /\ ResourcesFound

LEMMA AppendedMembers ==
  ASSUME NEW S, NEW seq \in Seq(S), NEW x \in S
  PROVE  ToSet(Append(seq, x)) = ToSet(seq) \cup {x}
<1> DEFINE new == Append(seq, x)
<1>1. /\ DOMAIN new = 1 .. Len(seq) + 1 /\ DOMAIN seq = 1 .. Len(seq) /\ Len(seq) \in Nat
      /\ \A i \in 1 .. Len(seq) : new[i] = seq[i]
      /\ new[Len(seq) + 1] = x
  OBVIOUS
<1> HIDE DEF new
<1>2. 1 .. Len(seq) + 1 = 1 .. Len(seq) \cup {Len(seq) + 1}
  BY <1>1
<1>3. QED
  BY <1>1, <1>2 DEF ToSet, new

LEMMA AppendedRids ==
  ASSUME NEW S, NEW rows \in Seq(S), NEW row \in S
  PROVE  /\ RidsIn(Append(rows, row)) = RidsIn(rows) \cup {row.rid}
         /\ NamedIn(Append(rows, row)) = NamedIn(rows) \cup ToSet(row.resources)
<1> DEFINE old == ToSet(rows)
           new == ToSet(Append(rows, row))
<1>1. new = old \cup {row}
  BY AppendedMembers
<1> HIDE DEF old, new
<1>2. {r.rid : r \in new} = {r.rid : r \in old} \cup {row.rid}
  BY <1>1
<1>3. UNION {ToSet(r.resources) : r \in new}
        = (UNION {ToSet(r.resources) : r \in old}) \cup ToSet(row.resources)
  <2> DEFINE left == UNION {ToSet(r.resources) : r \in new}
             right == (UNION {ToSet(r.resources) : r \in old}) \cup ToSet(row.resources)
  <2>1. \A x : x \in left <=> \E r \in new : x \in ToSet(r.resources)
    OBVIOUS
  <2>2. \A x : x \in right <=> \/ \E r \in old : x \in ToSet(r.resources)
                              \/ x \in ToSet(row.resources)
    OBVIOUS
  <2> HIDE DEF left, right
  <2>3. \A x : x \in left <=> x \in right
    BY <1>1, <2>1, <2>2
  <2>4. left = right
    BY <2>3
  <2>5. QED
    BY <2>4 DEF left, right
<1>4. /\ RidsIn(Append(rows, row)) = {r.rid : r \in new}
      /\ RidsIn(rows) = {r.rid : r \in old}
  BY DEF RidsIn, old, new
<1>5. /\ NamedIn(Append(rows, row)) = UNION {ToSet(r.resources) : r \in new}
      /\ NamedIn(rows) = UNION {ToSet(r.resources) : r \in old}
  BY DEF NamedIn, old, new
<1>6. QED
  BY <1>2, <1>3, <1>4, <1>5

LEMMA DumpInitOk ==
  DumpInit => DumpInv
<1> SUFFICES ASSUME DumpInit
             PROVE  DumpInv
  OBVIOUS
<1>1. db \in Databases /\ inserts = Inserts /\ stage = "dump" /\ dumped = <<>>
  BY DEF DumpInit
<1>2. DOMAIN dumped = {}
  BY <1>1
<1>3. QED
  BY <1>1, <1>2, ResourcesStored DEF DumpInv, ResourcesFound

(* A row that is inserted names what is stored, and only adds to it. *)
LEMMA InsertOk ==
  ASSUME DumpInv, Insert
  PROVE  /\ db' \in [Tables -> Seq(Rows)]
         /\ inserts' \in Seq([table : Tables, row : Rows])
         /\ RidsIn(db["resource"]) \subseteq RidsIn(db'["resource"])
         /\ NamedIn(db'["tweet"]) \subseteq RidsIn(db'["resource"])
         /\ \A n \in DOMAIN inserts' :
              inserts'[n].table = "tweet" =>
                ToSet(inserts'[n].row.resources)
                  \subseteq RidsIn(db'["resource"]) \cup RidsBefore(inserts', n)
<1> DEFINE new == Head(inserts)
           table == new.table
           I == [table : Tables, row : Rows]
<1>1. /\ inserts # <<>> /\ inserts \in Seq(I) /\ db \in [Tables -> Seq(Rows)]
      /\ inserts' = Tail(inserts)
      /\ db' = [db EXCEPT ![table] = Append(@, new.row)]
  BY DEF Insert, DumpInv
<1> HIDE DEF I
<1>2. /\ new = inserts[1] /\ 1 \in DOMAIN inserts /\ new \in I
      /\ inserts' \in Seq(I)
      /\ \A n \in DOMAIN inserts' : /\ n \in Nat \ {0}
                                     /\ n + 1 \in DOMAIN inserts
                                     /\ inserts'[n] = inserts[n + 1]
      /\ \A n \in DOMAIN inserts : n = 1 \/ n - 1 \in DOMAIN inserts'
      /\ \A n \in DOMAIN inserts : n \in Nat \ {0}
  BY <1>1
<1>3. table \in Tables /\ new.row \in Rows
  BY <1>2 DEF I
<1> HIDE DEF new
<1>4. /\ db' \in [Tables -> Seq(Rows)]
      /\ db'[table] = Append(db[table], new.row)
      /\ \A t \in Tables : t # table => db'[t] = db[t]
      /\ db["resource"] \in Seq(Rows) /\ db["tweet"] \in Seq(Rows)
  <2> DEFINE S == Seq(Rows)
  <2>1. db[table] \in S
    BY <1>1, <1>3
  <2>2. Append(db[table], new.row) \in S
    BY <1>3, <2>1
  <2> HIDE DEF S
  <2>3. db \in [Tables -> S]
    BY <1>1 DEF S
  <2>4. /\ db' \in [Tables -> S]
        /\ db'[table] = Append(db[table], new.row)
        /\ \A t \in Tables : t # table => db'[t] = db[t]
    BY <1>1, <1>3, <2>2, <2>3
  <2>5. db["resource"] \in S /\ db["tweet"] \in S
    BY <2>3 DEF Tables
  <2>6. QED
    BY <2>4, <2>5 DEF S
<1>5. RidsIn(db'["resource"]) = RidsIn(db["resource"])
                                  \cup IF table = "resource" THEN {new.row.rid} ELSE {}
  <2>1. CASE table = "resource"
    <3>1. RidsIn(Append(db["resource"], new.row)) = RidsIn(db["resource"]) \cup {new.row.rid}
      BY <1>3, <1>4, AppendedRids
    <3>2. QED
      BY <1>4, <2>1, <3>1
  <2>2. CASE table # "resource"
    BY <1>4, <2>2 DEF Tables
  <2>3. QED
    BY <2>1, <2>2
<1>6. NamedIn(db'["tweet"]) = NamedIn(db["tweet"])
                                \cup IF table = "tweet" THEN ToSet(new.row.resources) ELSE {}
  <2>1. CASE table = "tweet"
    <3>1. NamedIn(Append(db["tweet"], new.row))
            = NamedIn(db["tweet"]) \cup ToSet(new.row.resources)
      BY <1>3, <1>4, AppendedRids
    <3>2. QED
      BY <1>4, <2>1, <3>1
  <2>2. CASE table # "tweet"
    BY <1>4, <2>2 DEF Tables
  <2>3. QED
    BY <2>1, <2>2
<1>7. table = "tweet" => ToSet(new.row.resources) \subseteq RidsIn(db["resource"])
  <2>1. RidsBefore(inserts, 1) = {}
    BY <1>2 DEF RidsBefore
  <2>2. QED
    BY <1>2, <2>1 DEF DumpInv
<1>8. ASSUME NEW n \in DOMAIN inserts', inserts'[n].table = "tweet"
      PROVE  ToSet(inserts'[n].row.resources)
               \subseteq RidsIn(db'["resource"]) \cup RidsBefore(inserts', n)
  <2>1. /\ n \in Nat \ {0} /\ n + 1 \in DOMAIN inserts
        /\ inserts'[n] = inserts[n + 1]
    BY <1>2
  <2>2. ToSet(inserts[n + 1].row.resources)
          \subseteq RidsIn(db["resource"]) \cup RidsBefore(inserts, n + 1)
    BY <1>8, <2>1 DEF DumpInv
  <2>3. ASSUME NEW r \in RidsBefore(inserts, n + 1)
        PROVE  r \in RidsIn(db'["resource"]) \cup RidsBefore(inserts', n)
    <3>1. PICK j \in DOMAIN inserts :
            j < n + 1 /\ inserts[j].table = "resource" /\ r = inserts[j].row.rid
      BY <2>3 DEF RidsBefore
    <3>2. CASE j = 1
      BY <1>2, <1>5, <3>1, <3>2
    <3>3. CASE j # 1
      <4>1. /\ j \in Nat \ {0} /\ j - 1 \in DOMAIN inserts' /\ j - 1 < n
            /\ inserts'[j - 1] = inserts[j]
        <5>1. j \in Nat \ {0} /\ j - 1 \in DOMAIN inserts'
          BY <1>2, <3>3
        <5>2. inserts'[j - 1] = inserts[(j - 1) + 1]
          BY <1>2, <5>1
        <5>3. (j - 1) + 1 = j /\ j - 1 < n
          BY <2>1, <3>1, <5>1
        <5>4. QED
          BY <5>1, <5>2, <5>3
      <4>2. QED
        BY <3>1, <4>1 DEF RidsBefore
    <3>4. QED
      BY <3>2, <3>3
  <2>4. QED
    BY <1>5, <2>1, <2>2, <2>3
<1>9. NamedIn(db["tweet"]) \subseteq RidsIn(db["resource"])
  BY DEF DumpInv
<1>10. NamedIn(db'["tweet"]) \subseteq RidsIn(db'["resource"])
  BY <1>5, <1>6, <1>7, <1>9
<1>11. inserts' \in Seq([table : Tables, row : Rows])
  BY <1>2 DEF I
<1>12. QED
  BY <1>4, <1>5, <1>8, <1>10, <1>11

(* The next table of DumpOrder is dumped as it is now. *)
LEMMA TableDumped ==
  ASSUME DumpInv, DumpTable
  PROVE  \E table \in Tables :
           /\ table = "tweet" <=> DOMAIN dumped = {}
           /\ table = "zan" <=> DOMAIN dumped = {"tweet"}
           /\ table = "comment" <=> DOMAIN dumped = {"tweet", "zan"}
           /\ table = "resource" <=> DOMAIN dumped = {"tweet", "zan", "comment"}
           /\ dumped' = [t \in DOMAIN dumped \cup {table} |->
                           IF t = table THEN db[table] ELSE dumped[t]]
<1> DEFINE D == DOMAIN dumped
           table == DumpOrder[Cardinality(D) + 1]
<1>1. dumped' = [t \in D \cup {table} |-> IF t = table THEN db[table] ELSE dumped[t]]
  BY DEF DumpTable
<1>2. D # Tables
  <2>1. ToSet(DumpOrder) = Tables
    <3>1. /\ DOMAIN DumpOrder = 1 .. 4
          /\ DumpOrder[1] = "tweet" /\ DumpOrder[2] = "zan"
          /\ DumpOrder[3] = "comment" /\ DumpOrder[4] = "resource"
      BY DEF DumpOrder
    <3> HIDE DEF DumpOrder
    <3>2. 1 .. 4 = {1, 2, 3, 4}
      OBVIOUS
    <3>3. QED
      BY <3>1, <3>2 DEF ToSet, Tables
  <2>2. QED
    BY <2>1 DEF DumpTable, AllDumped
<1>3. D \in {{}, {"tweet"}, {"tweet", "zan"}, {"tweet", "zan", "comment"}}
  BY <1>2 DEF DumpInv
<1>4. /\ Cardinality({}) = 0
      /\ Cardinality({"tweet"}) = 1
      /\ Cardinality({"tweet", "zan"}) = 2
      /\ Cardinality({"tweet", "zan", "comment"}) = 3
  <2>1. IsFiniteSet({}) /\ Cardinality({}) = 0
    BY FS_EmptySet
  <2>2. IsFiniteSet({"tweet"}) /\ Cardinality({"tweet"}) = 1
    BY FS_Singleton
  <2>3. /\ IsFiniteSet({"tweet"} \cup {"zan"})
        /\ Cardinality({"tweet"} \cup {"zan"}) = 2
    BY <2>2, FS_AddElement
  <2>4. {"tweet"} \cup {"zan"} = {"tweet", "zan"}
    OBVIOUS
  <2>5. Cardinality({"tweet", "zan"} \cup {"comment"}) = 3
    BY <2>3, <2>4, FS_AddElement
  <2>6. {"tweet", "zan"} \cup {"comment"} = {"tweet", "zan", "comment"}
    OBVIOUS
  <2>7. QED
    BY <2>1, <2>2, <2>3, <2>4, <2>5, <2>6
<1>5. /\ table \in Tables
      /\ table = "tweet" <=> D = {}
      /\ table = "zan" <=> D = {"tweet"}
      /\ table = "comment" <=> D = {"tweet", "zan"}
      /\ table = "resource" <=> D = {"tweet", "zan", "comment"}
  <2>1. CASE D = {}
    <3>1. table = "tweet"
      BY <1>4, <2>1 DEF DumpOrder
    <3>2. QED
      BY <2>1, <3>1 DEF Tables
  <2>2. CASE D = {"tweet"}
    <3>1. table = "zan"
      BY <1>4, <2>2 DEF DumpOrder
    <3>2. QED
      BY <2>2, <3>1 DEF Tables
  <2>3. CASE D = {"tweet", "zan"}
    <3>1. table = "comment"
      BY <1>4, <2>3 DEF DumpOrder
    <3>2. QED
      BY <2>3, <3>1 DEF Tables
  <2>4. CASE D = {"tweet", "zan", "comment"}
    <3>1. table = "resource"
      BY <1>4, <2>4 DEF DumpOrder
    <3>2. QED
      BY <2>4, <3>1 DEF Tables
  <2>5. QED
    BY <1>3, <2>1, <2>2, <2>3, <2>4
<1> HIDE DEF table
<1>6. QED
  BY <1>1, <1>5

LEMMA DumpStep ==
  ASSUME DumpInv, [EngineNext]_engineVars
  PROVE  DumpInv'
<1>0. /\ db \in [Tables -> Seq(Rows)]
      /\ DOMAIN dumped \in {{}, {"tweet"}, {"tweet", "zan"}, {"tweet", "zan", "comment"}, Tables}
      /\ NamedIn(db["tweet"]) \subseteq RidsIn(db["resource"])
      /\ "tweet" \in DOMAIN dumped => NamedIn(dumped["tweet"]) \subseteq RidsIn(db["resource"])
      /\ "resource" \in DOMAIN dumped =>
           NamedIn(dumped["tweet"]) \subseteq RidsIn(dumped["resource"])
      /\ ResourcesFound
  BY DEF DumpInv
<1>1. CASE UNCHANGED dumpVars
  BY <1>1 DEF dumpVars, DumpInv, ResourcesFound
<1>2. CASE Insert
  <2>1. UNCHANGED <<stage, dumped>>
    BY <1>2 DEF Insert
  <2>2. QED
    BY <1>0, <1>2, <2>1, InsertOk DEF DumpInv, ResourcesFound
<1>3. CASE DumpTable
  <2>1. PICK table \in Tables :
           /\ table = "tweet" <=> DOMAIN dumped = {}
           /\ table = "zan" <=> DOMAIN dumped = {"tweet"}
           /\ table = "comment" <=> DOMAIN dumped = {"tweet", "zan"}
           /\ table = "resource" <=> DOMAIN dumped = {"tweet", "zan", "comment"}
           /\ dumped' = [t \in DOMAIN dumped \cup {table} |->
                           IF t = table THEN db[table] ELSE dumped[t]]
    BY <1>3, TableDumped
  <2>2. UNCHANGED <<db, inserts, stage>>
    BY <1>3 DEF DumpTable
  <2>3. DOMAIN dumped' = DOMAIN dumped \cup {table}
    BY <2>1
  <2>4. dumped'[table] = db[table] /\ \A t \in DOMAIN dumped : t # table => dumped'[t] = dumped[t]
    BY <2>1
  <2>5. DOMAIN dumped' \in {{}, {"tweet"}, {"tweet", "zan"}, {"tweet", "zan", "comment"}, Tables}
    <3>1. CASE table = "tweet"
      BY <2>1, <2>3, <3>1
    <3>2. CASE table = "zan"
      BY <2>1, <2>3, <3>2
    <3>3. CASE table = "comment"
      BY <2>1, <2>3, <3>3
    <3>4. CASE table = "resource"
      BY <2>1, <2>3, <3>4 DEF Tables
    <3>5. QED
      BY <3>1, <3>2, <3>3, <3>4 DEF Tables
  <2>6. "tweet" \in DOMAIN dumped' => NamedIn(dumped'["tweet"]) \subseteq RidsIn(db["resource"])
    BY <1>0, <2>3, <2>4
  <2>7. "resource" \in DOMAIN dumped' =>
          NamedIn(dumped'["tweet"]) \subseteq RidsIn(dumped'["resource"])
    <3>1. CASE table = "resource"
      <4>1. "tweet" \in DOMAIN dumped /\ dumped'["tweet"] = dumped["tweet"]
        BY <2>1, <2>4, <3>1
      <4>2. QED
        BY <1>0, <2>4, <3>1, <4>1
    <3>2. CASE table # "resource"
      <4> SUFFICES ASSUME "resource" \in DOMAIN dumped
                   PROVE  NamedIn(dumped'["tweet"]) \subseteq RidsIn(dumped'["resource"])
        BY <2>3, <3>2
      <4>1. DOMAIN dumped = Tables
        <5> DEFINE D == DOMAIN dumped
        <5>1. D \in {{}, {"tweet"}, {"tweet", "zan"}, {"tweet", "zan", "comment"}, Tables}
          BY <1>0
        <5>2. "resource" \in D
          OBVIOUS
        <5> HIDE DEF D
        <5>3. QED
          BY <5>1, <5>2 DEF D
      <4>2. FALSE
        BY <2>1, <4>1 DEF Tables
      <4>3. QED
        BY <4>2
    <3>3. QED
      BY <3>1, <3>2
  <2>8. QED
    BY <2>2, <2>5, <2>6, <2>7 DEF DumpInv, ResourcesFound
<1>4. CASE DumpFails
  BY <1>4 DEF DumpFails, DumpInv, ResourcesFound
<1>5. CASE Merge
  <2>1. UNCHANGED <<db, inserts, dumped>> /\ AllDumped
    BY <1>5 DEF Merge
  <2>2. "resource" \in DOMAIN dumped
    <3>1. "resource" = DumpOrder[4] /\ 4 \in DOMAIN DumpOrder
      BY DEF DumpOrder
    <3>2. QED
      BY <2>1, <3>1 DEF AllDumped, ToSet
  <2>3. ~KeyError
    BY <1>0, <2>2 DEF KeyError, NamedIn, Rids
  <2>4. stage' = "merged"
    BY <1>5, <2>3 DEF Merge
  <2>5. QED
    BY <2>1, <2>4 DEF DumpInv, ResourcesFound
<1>6. QED
  BY <1>1, <1>2, <1>3, <1>4, <1>5
     DEF EngineNext, engineVars, GetData, DumpNext, Build, Load, BeginSearch, ContinueSearch

(* The merge finds every resource that a dumped tweet names, whatever the  *)
(* application inserts between the four dumps.                             *)
THEOREM NamedAreDumped ==
  EngineSpec => []ResourcesFound
<1>1. EngineInit => DumpInv
  BY DumpInitOk DEF EngineInit
<1>2. DumpInv => ResourcesFound
  BY DEF DumpInv
<1>3. QED
  BY <1>1, <1>2, DumpStep, PTL DEF EngineSpec

-----------------------------------------------------------------------------
(***************************************************************************)
(* What a build leaves is an index that can be searched.                   *)
(***************************************************************************)
LEMMA SequenceIs ==
  ASSUME NEW S, NEW s \in Seq(S)
  PROVE  IsSequence(s)
<1>1. DOMAIN s = 1 .. Len(s) /\ Len(s) \in Nat /\ s = [i \in 1 .. Len(s) |-> s[i]]
  OBVIOUS
<1>2. \A i \in 1 .. Len(s) : s[i] \in ToSet(s)
  BY <1>1 DEF ToSet
<1>3. s \in Seq(ToSet(s))
  BY <1>1, <1>2
<1>4. QED
  BY <1>3 DEF IsSequence

(* The tags of a brief ascend, and have each id as often as the line has   *)
(* names of it.                                                            *)
LEMMA LineTags ==
  ASSUME NEW line \in Lines
  PROVE  /\ TagIds(line) \in Seq(Int)
         /\ Rising(TagIds(line))
         /\ \A id : Occurrences(TagIds(line), id) = Named(line.tag, id)
<1> DEFINE known == {i \in DOMAIN line.tag : line.tag[i] \in DOMAIN tag_map(TagFile)}
           ids == [i \in known |-> get_id(TagFile, line.tag[i])]
<1>1. DOMAIN line.tag = 1 .. Len(line.tag) /\ Len(line.tag) \in Nat
  BY BuilderInput
<1>2. known \subseteq Nat /\ IsFiniteSet(known)
  <2>1. known \in SUBSET DOMAIN line.tag
    OBVIOUS
  <2>2. IsFiniteSet(DOMAIN line.tag) /\ DOMAIN line.tag \subseteq Nat
    BY <1>1, FS_Interval
  <2> HIDE DEF known
  <2>3. QED
    BY <2>1, <2>2, FS_Subset
<1>3. \A i \in known : ids[i] = TagId[line.tag[i]]
  BY EngineInput DEF get_id
<1>4. ids \in [known -> Int]
  <2>1. \A i \in known : line.tag[i] \in DOMAIN TagId
    BY EngineInput
  <2>2. \A i \in known : ids[i] \in Int
    BY <1>3, <2>1, SearchInput
  <2>3. QED
    BY <2>2
<1>5. TagIds(line) = ValuesInOrder(ids)
  BY DEF TagIds
<1>6. ASSUME NEW id
      PROVE  Occurrences(TagIds(line), id) = Named(line.tag, id)
  <2>1. Named(line.tag, id) = Cardinality(Where(ids, known, id))
    <3>1. {i \in DOMAIN line.tag : line.tag[i] \in DOMAIN TagId /\ TagId[line.tag[i]] = id}
            = Where(ids, known, id)
      BY <1>3, EngineInput DEF Where
    <3> HIDE DEF known, ids
    <3>2. QED
      BY <3>1 DEF Named
  <2> HIDE DEF known, ids
  <2>2. Cardinality(Where(ValuesInOrder(ids), DOMAIN ValuesInOrder(ids), id))
          = Cardinality(Where(ids, known, id))
    BY <1>2, <1>4, ValuesInOrderCounts
  <2>3. QED
    BY <1>5, <2>1, <2>2 DEF Occurrences, Where
<1> HIDE DEF known, ids
<1>7. QED
  BY <1>2, <1>4, <1>5, <1>6, ValuesInOrderProperties DEF Rising

LEMMA BriefsAreOk ==
  ASSUME IInv, NEW i \in DOMAIN briefs
  PROVE  BriefOk(briefs[i])
<1>1. PICK n \in DOMAIN read : briefs[i] = BriefOf(n)
  BY DEF IInv, BriefsInv
<1>2. TypeInv /\ read[n] \in Lines
  BY DEF IInv, TypeInv, TypeOK
<1>3. BriefOf(n) \in Brief
  BY <1>2, BriefType
<1>4. BriefOf(n).tags = TagIds(read[n])
  BY DEF BriefOf
<1>5. Rising(BriefOf(n).tags)
  BY <1>2, <1>4, LineTags
<1>6. {"type", "catalog", "tags"} \subseteq DOMAIN BriefOf(n)
  BY DEF BriefOf
<1>7. BriefOf(n).type \in Int /\ BriefOf(n).catalog \in Int /\ BriefOf(n).tags \in Seq(Int)
  BY <1>3 DEF Brief
<1>8. QED
  BY <1>1, <1>5, <1>6, <1>7 DEF BriefOk, Rising

LEMMA TermsAreOk ==
  ASSUME IInv, NEW i \in DOMAIN termFile
  PROVE  TermOk(termFile[i]) /\ termFile[i].sign \in Nat
<1> DEFINE s == termFile[i].sign
           t == terms[s]
<1>1. /\ s \in DOMAIN terms
      /\ termFile[i].num = t.num /\ termFile[i].index = t.index
  BY DEF IInv, FlushInv, TermFileOk
<1> HIDE DEF s
<1>2. t \in Term /\ s \in Nat
  BY <1>1 DEF IInv, TypeInv, TypeOK
<1>3. /\ t.num = Len(t.index)
      /\ \A k, l \in DOMAIN t.index : k < l => t.index[k].obj >= t.index[l].obj
  BY <1>1 DEF IInv, ListsInv, NumMatches, ListsDescend
<1> HIDE DEF t
<1>4. t.num \in Nat \ {0} /\ t.index \in Seq(Node)
  BY <1>2 DEF Term
<1>5. IsSequence(t.index)
  BY <1>4, SequenceIs
<1>6. ASSUME NEW k \in DOMAIN t.index
      PROVE  {t.index[k].obj, t.index[k].num} \subseteq Nat /\ IsFiniteSet(t.index[k].fields)
  <2>1. t.index[k] \in Node
    BY <1>4
  <2>2. t.index[k].fields \in SUBSET (0 .. 255) /\ t.index[k].obj \in Nat /\ t.index[k].num \in Nat
    BY <2>1 DEF Node
  <2>3. IsFiniteSet(0 .. 255)
    <3>1. 0 \in Int /\ 255 \in Int
      OBVIOUS
    <3>2. QED
      BY <3>1, FS_Interval
  <2>4. QED
    BY <2>2, <2>3, FS_Subset
<1>7. QED
  BY <1>1, <1>2, <1>3, <1>4, <1>5, <1>6 DEF TermOk, s

Built == [terms |-> termFile, briefs |-> briefs]

LEMMA BuiltIsOk ==
  ASSUME IInv, termFile # <<>>
  PROVE  IndexOk(Built)
<1>1. IsSequence(termFile) /\ IsSequence(briefs)
  BY SequenceIs DEF IInv, FlushInv, TypeInv, TypeOK
<1>2. \A i, j \in DOMAIN termFile : i < j => termFile[i].sign < termFile[j].sign
  BY DEF IInv, FlushInv, TermFileOk
<1>3. Built.terms = termFile /\ Built.briefs = briefs
  BY DEF Built
<1>4. QED
  BY <1>1, <1>2, <1>3, BriefsAreOk, TermsAreOk DEF IndexOk

-----------------------------------------------------------------------------
(***************************************************************************)
(* The answer.  Once something was loaded the build is over, so that a     *)
(* search works on what the build left.                                    *)
(***************************************************************************)
OutputOk ==
  /\ Len(output) \in Nat /\ DOMAIN output = 1 .. Len(output)
  /\ ToSet(output) = Best
  /\ \A k, l \in DOMAIN output : output[k] = output[l] => k = l
  /\ Best = Passing \/ Len(output) = MaxRecall

AnswerInv ==
  /\ LoadInv
  /\ searched => loadRet = 0 /\ index = Built /\ QueryOk(query)
  /\ phase # "idle" => searched
  /\ SearchInv
  /\ Answered => OutputOk

LEMMA AnswerInit ==
  EngineInit => AnswerInv
  BY LoadInit DEF EngineInit, AnswerInv, SearchInv, Answered

LEMMA ResultCopied ==
  ASSUME SearchInv, CopyResult
  PROVE  OutputOk'
<1>1. /\ phase = "sorted" /\ output' = [k \in DOMAIN obj |-> obj[k].obj]
      /\ UNCHANGED <<index, query>>
  BY DEF CopyResult
<1>2. Recalled = Best /\ ResultOk
  BY <1>1 DEF SearchInv
<1>3. Len(obj) \in Nat /\ DOMAIN obj = 1 .. Len(obj)
  BY <1>2 DEF ResultOk, IsSequence
<1>4. DOMAIN output' = 1 .. Len(obj) /\ Len(output') = Len(obj)
  BY <1>1, <1>3
<1>5. ToSet(output') = Recalled
  BY <1>1 DEF ToSet, Recalled
<1>6. Best' = Best /\ Passing' = Passing
  BY <1>1 DEF Best, Passing, Passes, Matching, Terms, Positions
<1>7. \A k, l \in DOMAIN output' : output'[k] = output'[l] => k = l
  BY <1>1, <1>2 DEF ResultOk
<1>8. QED
  BY <1>2, <1>3, <1>4, <1>5, <1>6, <1>7 DEF OutputOk, ResultOk

LEMMA AnswerStep ==
  ASSUME AnswerInv, [EngineNext]_engineVars
  PROVE  AnswerInv'
<1>0. LoadInv /\ SearchInv
  BY DEF AnswerInv
<1>1. LoadInv'
  BY <1>0, LoadStep
<1>2. CASE \E q \in Queries : BeginSearch(q)
  <2>1. PICK q \in Queries : BeginSearch(q)
    BY <1>2
  <2>2. /\ loadRet = 0 /\ UNCHANGED <<loadRet, termFile, briefs>> /\ searched'
        /\ Begin(Built, q)
    BY <2>1 DEF BeginSearch, IndexLoaded, Built, vars, flushVars
  <2>3. IndexOk(Built) /\ QueryOk(q)
    BY <1>0, <2>2, BuiltIsOk, SearchInput DEF LoadInv
  <2>4. SearchInv'
    BY <2>2, <2>3, BeginInv
  <2>5. index' = Built /\ query' = q /\ phase' # "idle"
    BY <2>2 DEF Begin
  <2>6. Built' = Built
    BY <2>2 DEF Built
  <2>7. QED
    BY <1>1, <2>2, <2>3, <2>4, <2>5, <2>6 DEF AnswerInv, Answered
<1>3. CASE ContinueSearch
  <2>1. /\ UNCHANGED <<loadRet, termFile, briefs, searched, index, query>>
        /\ phase # "idle"
    BY <1>3 DEF ContinueSearch, vars, flushVars, Recall, SortObjects, CopyResult
  <2>2. Built' = Built
    BY <2>1 DEF Built
  <2>3. CASE \E i \in DOMAIN term : Recall(i)
    <3>1. SearchInv' /\ phase' # "idle"
      BY <1>0, <2>3, RecallInv DEF Recall
    <3>2. QED
      BY <1>1, <2>1, <2>2, <3>1 DEF AnswerInv, Answered
  <2>4. CASE SortObjects
    <3>1. SearchInv' /\ phase' # "idle"
      BY <1>0, <2>4, SortInv DEF SortObjects
    <3>2. QED
      BY <1>1, <2>1, <2>2, <3>1 DEF AnswerInv, Answered
  <2>5. CASE CopyResult
    <3>1. SearchInv' /\ OutputOk'
      BY <1>0, <2>5, ResultCopied DEF CopyResult, SearchInv
    <3>2. QED
      BY <1>1, <2>1, <2>2, <3>1 DEF AnswerInv
  <2>6. QED
    BY <1>3, <2>3, <2>4, <2>5 DEF ContinueSearch
<1>4. CASE UNCHANGED <<searched, searchVars>>
  <2>1. UNCHANGED <<index, query, phase, output>>
    BY <1>4 DEF searchVars
  <2>2. SearchInv'
    BY <1>0, <1>4, SearchInvStep
  <2>3. searched => UNCHANGED <<loadRet, termFile, briefs>>
    <3>1. ASSUME searched, Build
          PROVE  FALSE
      BY <1>0, <3>1, BuildIsStep DEF AnswerInv, LoadInv
    <3>2. ASSUME searched, Load
          PROVE  FALSE
      BY <3>2 DEF AnswerInv, Load, NotLoaded
    <3>3. QED
      BY <1>2, <1>3, <3>1, <3>2
         DEF EngineNext, engineVars, GetData, vars, flushVars, BeginSearch, ContinueSearch
  <2>4. searched => Built' = Built
    BY <2>3 DEF Built
  <2>5. Best' = Best /\ Passing' = Passing
    BY <2>1 DEF Best, Passing, Passes, Matching, Terms, Positions
  <2>6. OutputOk => OutputOk'
    BY <2>1, <2>5 DEF OutputOk
  <2>7. QED
    BY <1>1, <1>4, <2>1, <2>2, <2>3, <2>4, <2>6 DEF AnswerInv, Answered
<1>5. QED
  BY <1>2, <1>3, <1>4 DEF EngineNext, engineVars, GetData, Build, Load

(* What is known of an answer: its index is that of the build, which is    *)
(* over, and its objects are the best.                                     *)
LEMMA AnswerFacts ==
  ASSUME AnswerInv, Answered
  PROVE  /\ IInv /\ ExitsWithZero /\ termFile # <<>>
         /\ index = Built /\ index.briefs = briefs /\ index.terms = termFile
         /\ IndexOk(index) /\ QueryOk(query)
         /\ OutputOk
         /\ Passing \subseteq Nat /\ IsFiniteSet(Passing)
         /\ Best \subseteq Passing
         /\ \A o \in Passing : o \in Matching /\ Passes(o) /\ o + 1 \in DOMAIN briefs
<1>1. /\ IInv /\ ExitsWithZero /\ termFile # <<>>
      /\ index = Built /\ QueryOk(query) /\ OutputOk
  BY DEF AnswerInv, LoadInv, Answered
<1>2. index.briefs = briefs /\ index.terms = termFile
  BY <1>1 DEF Built
<1>3. IndexOk(index)
  BY <1>1, BuiltIsOk
<1>4. Passing \subseteq Nat /\ IsFiniteSet(Passing)
  BY <1>1, <1>3, PassingFinite
<1>5. Best \subseteq Passing
  BY DEF Best
<1>6. \A o \in Passing : o \in Matching /\ Passes(o) /\ o + 1 \in DOMAIN briefs
  BY <1>2 DEF Passing, Passes
<1>7. QED
  BY <1>1, <1>2, <1>3, <1>4, <1>5, <1>6

(* Briefs are written in the order of the lines. *)
LEMMA BriefIds ==
  ASSUME IInv
  PROVE  /\ Len(briefs) \in Nat /\ DOMAIN briefs = 1 .. Len(briefs)
         /\ \A i \in DOMAIN briefs : /\ briefs[i].id \in Nat
                                     /\ briefs[i].id \in DOMAIN read
                                     /\ briefs[i] = BriefOf(briefs[i].id)
         /\ \A i, j \in DOMAIN briefs : i < j => briefs[i].id < briefs[j].id
         /\ \A i, j \in DOMAIN briefs : briefs[i].id = briefs[j].id => i = j
<1>1. /\ Len(briefs) \in Nat /\ DOMAIN briefs = 1 .. Len(briefs)
      /\ \A i \in DOMAIN briefs : briefs[i].id \in Nat
  BY BriefsType DEF IInv
<1>2. \A i \in DOMAIN briefs : /\ briefs[i].id \in DOMAIN read
                              /\ \E n \in DOMAIN read : briefs[i] = BriefOf(n)
  BY DEF IInv, BriefsInv
<1>3. \A n : BriefOf(n).id = n
  BY DEF BriefOf
<1>4. \A i, j \in DOMAIN briefs : i < j => briefs[i].id < briefs[j].id
  BY DEF IInv, BriefsInv
<1>5. ASSUME NEW i \in DOMAIN briefs, NEW j \in DOMAIN briefs, briefs[i].id = briefs[j].id
      PROVE  i = j
  BY <1>1, <1>4, <1>5
<1>6. QED
  BY <1>1, <1>2, <1>3, <1>4, <1>5

LineIds(objs) == {index.briefs[o + 1].id : o \in objs}

LEMMA OncePerLine ==
  ASSUME AnswerInv, Answered
  PROVE  /\ Answer = LineIds(Best)
         /\ IsFiniteSet(Answer) /\ Cardinality(Answer) = Len(output)
         /\ \A o \in ToSet(output) : o < Len(index.briefs)
<1> DEFINE n == Len(output)
           f == [k \in 1 .. n |-> briefs[output[k] + 1].id]
<1>1. /\ n \in Nat /\ DOMAIN output = 1 .. n /\ ToSet(output) = Best
      /\ \A k, l \in 1 .. n : output[k] = output[l] => k = l
  BY AnswerFacts DEF OutputOk
<1>2. /\ index.briefs = briefs /\ Best \subseteq Nat
      /\ \A o \in Best : o + 1 \in DOMAIN briefs
  BY AnswerFacts
<1>3. /\ Len(briefs) \in Nat /\ DOMAIN briefs = 1 .. Len(briefs)
      /\ \A i, j \in DOMAIN briefs : briefs[i].id = briefs[j].id => i = j
  BY AnswerFacts, BriefIds
<1>4. \A k \in 1 .. n : output[k] \in Best
  BY <1>1 DEF ToSet
<1>5. \A o \in Best : \E k \in 1 .. n : output[k] = o
  BY <1>1 DEF ToSet
<1>6. Answer = LineIds(Best)
  BY <1>1 DEF Answer, LineIds
<1>7. \A x : x \in Answer <=> \E o \in Best : x = briefs[o + 1].id
  BY <1>2, <1>6 DEF LineIds
<1> HIDE DEF n
<1>8. f \in Bijection(1 .. n, Answer)
  <2>1. f \in [1 .. n -> Answer]
    BY <1>4, <1>7
  <2>2. ASSUME NEW k \in 1 .. n, NEW l \in 1 .. n, f[k] = f[l]
        PROVE  k = l
    <3>1. output[k] + 1 \in DOMAIN briefs /\ output[l] + 1 \in DOMAIN briefs
      BY <1>2, <1>4
    <3>2. output[k] + 1 = output[l] + 1
      BY <1>3, <2>2, <3>1
    <3>3. output[k] \in Nat /\ output[l] \in Nat
      BY <1>2, <1>4
    <3>4. QED
      BY <1>1, <3>2, <3>3
  <2>3. \A x \in Answer : \E k \in 1 .. n : f[k] = x
    <3> TAKE x \in Answer
    <3>1. PICK o \in Best : x = briefs[o + 1].id
      BY <1>7
    <3>2. PICK k \in 1 .. n : output[k] = o
      BY <1>5
    <3>3. QED
      BY <3>1, <3>2
  <2> HIDE DEF f
  <2>4. f \in Injection(1 .. n, Answer)
    BY <2>1, <2>2 DEF Injection, IsInjective
  <2>5. f \in Surjection(1 .. n, Answer)
    BY <2>1, <2>3 DEF Surjection
  <2>6. QED
    BY <2>4, <2>5 DEF Bijection
<1>9. IsFiniteSet(1 .. n) /\ Cardinality(1 .. n) = n
  BY <1>1, FS_Interval DEF n
<1> HIDE DEF f
<1>10. IsFiniteSet(Answer) /\ Cardinality(Answer) = n
  BY <1>8, <1>9, FS_Bijection DEF ExistsBijection
<1>11. \A o \in ToSet(output) : o < Len(index.briefs)
  <2> TAKE o \in ToSet(output)
  <2>1. o \in Nat /\ o + 1 \in 1 .. Len(briefs)
    BY <1>1, <1>2, <1>3
  <2>2. QED
    BY <1>2, <1>3, <2>1
<1>12. QED
  BY <1>6, <1>10, <1>11 DEF n

(* An answer names no line twice and no object without a brief, whatever   *)
(* failed in the build.                                                    *)
THEOREM NoneTwice ==
  EngineSpec => []AnswersOnce
<1>1. AnswerInv => AnswersOnce
  BY OncePerLine DEF AnswersOnce
<1>2. QED
  BY <1>1, AnswerInit, AnswerStep, PTL DEF EngineSpec

-----------------------------------------------------------------------------
(***************************************************************************)
(* What the answer says of the lines                                       *)
(***************************************************************************)
LEMMA ConcatMembers ==
  ASSUME NEW S, NEW s \in Seq(S), NEW t \in Seq(S)
  PROVE  s \o t \in Seq(S) /\ ToSet(s \o t) = ToSet(s) \cup ToSet(t)
<1> DEFINE u == s \o t
           m == Len(s)
           n == Len(t)
<1>1. /\ m \in Nat /\ DOMAIN s = 1 .. m /\ n \in Nat /\ DOMAIN t = 1 .. n
      /\ u \in Seq(S) /\ DOMAIN u = 1 .. m + n
      /\ \A i \in 1 .. m + n : u[i] = IF i <= m THEN s[i] ELSE t[i - m]
  OBVIOUS
<1> HIDE DEF u, m, n
<1>2. ASSUME NEW x \in ToSet(u)
      PROVE  x \in ToSet(s) \cup ToSet(t)
  <2>1. PICK i \in 1 .. m + n : x = u[i]
    BY <1>1 DEF ToSet
  <2>2. i <= m => i \in 1 .. m
    BY <1>1
  <2>3. ~(i <= m) => i - m \in 1 .. n
    BY <1>1
  <2>4. QED
    BY <1>1, <2>1, <2>2, <2>3 DEF ToSet
<1>3. ASSUME NEW x \in ToSet(s)
      PROVE  x \in ToSet(u)
  <2>1. PICK i \in 1 .. m : x = s[i]
    BY <1>1 DEF ToSet
  <2>2. i \in 1 .. m + n /\ i <= m
    BY <1>1
  <2>3. QED
    BY <1>1, <2>1, <2>2 DEF ToSet
<1>4. ASSUME NEW x \in ToSet(t)
      PROVE  x \in ToSet(u)
  <2>1. PICK i \in 1 .. n : x = t[i]
    BY <1>1 DEF ToSet
  <2>2. i + m \in 1 .. m + n /\ ~(i + m <= m) /\ (i + m) - m = i
    BY <1>1
  <2>3. u[i + m] = t[i]
    BY <1>1, <2>2
  <2>4. QED
    BY <1>1, <2>1, <2>2, <2>3 DEF ToSet
<1>5. QED
  BY <1>1, <1>2, <1>3, <1>4 DEF u

(* add_field is called for the texts of the line.                          *)
LEMMA CalledTexts ==
  ASSUME NEW line \in Lines
  PROVE  \A text : text \in Texts(line) <=> \E c \in ToSet(Calls(line)) : c.text = text
<1> DEFINE call(field, texts) ==
             [i \in DOMAIN texts |-> [field |-> field, text |-> texts[i]]]
           both == <<line.f, line.s>>
           a == IF HasCatalog(line) THEN call("catalog", both) ELSE <<>>
           b == call("tag", line.tag)
           c == call("description", line.desc)
           R == [field : FieldNames, text : DOMAIN Tokens]
           T == Seq(DOMAIN Tokens)
<1>1. both \in T /\ line.tag \in T /\ line.desc \in T
  <2>1. line.f \in DOMAIN Tokens /\ line.s \in DOMAIN Tokens
    BY BuilderInput
  <2>2. both \in T
    BY <2>1
  <2>3. line.tag \in T /\ line.desc \in T
    BY BuilderInput
  <2>4. QED
    BY <2>2, <2>3
<1>2. ASSUME NEW texts \in T, NEW field \in FieldNames
      PROVE  /\ call(field, texts) \in Seq(R)
             /\ \A text : text \in ToSet(texts)
                            <=> \E d \in ToSet(call(field, texts)) : d.text = text
  <2>1. /\ DOMAIN texts = 1 .. Len(texts) /\ Len(texts) \in Nat
        /\ \A i \in DOMAIN texts : texts[i] \in DOMAIN Tokens
    OBVIOUS
  <2>2. call(field, texts) \in [1 .. Len(texts) -> R]
    BY <2>1
  <2>3. call(field, texts) \in Seq(R)
    BY <2>1, <2>2
  <2>4. \A text : text \in ToSet(texts) <=> \E i \in DOMAIN texts : texts[i] = text
    BY DEF ToSet
  <2>5. \A d : d \in ToSet(call(field, texts))
                 <=> \E i \in DOMAIN texts : d = [field |-> field, text |-> texts[i]]
    BY DEF ToSet
  <2> HIDE DEF call
  <2>6. ASSUME NEW text
        PROVE  text \in ToSet(texts) <=> \E d \in ToSet(call(field, texts)) : d.text = text
    <3>1. ASSUME text \in ToSet(texts)
          PROVE  \E d \in ToSet(call(field, texts)) : d.text = text
      <4>1. PICK i \in DOMAIN texts : texts[i] = text
        BY <2>4, <3>1
      <4>2. [field |-> field, text |-> texts[i]] \in ToSet(call(field, texts))
        BY <2>5
      <4>3. QED
        BY <4>1, <4>2
    <3>2. ASSUME NEW d \in ToSet(call(field, texts)), d.text = text
          PROVE  text \in ToSet(texts)
      <4>1. PICK i \in DOMAIN texts : d = [field |-> field, text |-> texts[i]]
        BY <2>5, <3>2
      <4>2. QED
        BY <2>4, <3>2, <4>1
    <3>3. QED
      BY <3>1, <3>2
  <2>7. QED
    BY <2>3, <2>6
<1> DEFINE U == Seq(R)
           Is(s, t) == \A text : text \in ToSet(s) <=> \E d \in ToSet(t) : d.text = text
<1>a. \A texts \in T, field \in FieldNames :
        call(field, texts) \in U /\ Is(texts, call(field, texts))
  BY <1>2
<1> HIDE DEF call, both, R, T, U, Is
<1>b. b \in U /\ Is(line.tag, b)
  <2>1. line.tag \in T /\ "tag" \in FieldNames
    BY <1>1 DEF FieldNames
  <2>2. QED
    BY <1>a, <2>1
<1>c. c \in U /\ Is(line.desc, c)
  <2>1. line.desc \in T /\ "description" \in FieldNames
    BY <1>1 DEF FieldNames
  <2>2. QED
    BY <1>a, <2>1
<1>d. call("catalog", both) \in U /\ Is(both, call("catalog", both))
  <2>1. both \in T /\ "catalog" \in FieldNames
    BY <1>1 DEF FieldNames
  <2>2. QED
    BY <1>a, <2>1
<1>3. b \in Seq(R) /\ \A text : text \in ToSet(line.tag) <=> \E d \in ToSet(b) : d.text = text
  BY <1>b DEF U, Is
<1>4. c \in Seq(R) /\ \A text : text \in ToSet(line.desc) <=> \E d \in ToSet(c) : d.text = text
  BY <1>c DEF U, Is
<1>5. a \in Seq(R) /\ \A text : HasCatalog(line) /\ text \in {line.f, line.s}
                                  <=> \E d \in ToSet(a) : d.text = text
  <2>1. CASE HasCatalog(line)
    <3>1. a = call("catalog", both)
      BY <2>1
    <3>2. ToSet(both) = {line.f, line.s}
      <4>1. DOMAIN both = {1, 2} /\ both[1] = line.f /\ both[2] = line.s
        BY DEF both
      <4>2. QED
        BY <4>1 DEF ToSet
    <3> HIDE DEF a
    <3>3. a \in Seq(R) /\ Is(both, a)
      BY <1>d, <3>1 DEF U
    <3>4. QED
      BY <2>1, <3>2, <3>3 DEF Is
  <2>2. CASE ~HasCatalog(line)
    <3>1. a = <<>>
      BY <2>2
    <3>2. ToSet(<<>>) = {} /\ <<>> \in Seq(R)
      BY DEF ToSet
    <3> HIDE DEF a
    <3>3. QED
      BY <2>2, <3>1, <3>2
  <2>3. QED
    BY <2>1, <2>2
<1>6. Calls(line) = a \o b \o c
  BY DEF Calls, call, both
<1> HIDE DEF a, b, c
<1>7. a \o b \in Seq(R) /\ ToSet(a \o b) = ToSet(a) \cup ToSet(b)
  BY <1>3, <1>5, ConcatMembers
<1>8. ToSet(Calls(line)) = ToSet(a) \cup ToSet(b) \cup ToSet(c)
  <2> DEFINE ab == a \o b
  <2>1. ab \in Seq(R) /\ c \in Seq(R)
    BY <1>4, <1>7
  <2>2. Calls(line) = ab \o c
    BY <1>6
  <2> HIDE DEF ab
  <2>3. ToSet(ab \o c) = ToSet(ab) \cup ToSet(c)
    BY <2>1, ConcatMembers
  <2>4. QED
    BY <1>7, <2>2, <2>3 DEF ab
<1>9. \A text : text \in Texts(line) <=> \/ text \in ToSet(line.tag)
                                         \/ text \in ToSet(line.desc)
                                         \/ HasCatalog(line) /\ text \in {line.f, line.s}
  BY DEF Texts
<1>10. QED
  BY <1>3, <1>4, <1>5, <1>8, <1>9

(* A line has fields with a sign iff one of its texts has the sign. *)
LEMMA FieldsOfTexts ==
  ASSUME NEW line \in Lines, NEW s
  PROVE  FieldsWith(line, s) # {} <=> \E text \in Texts(line) : s \in Tokens[text]
<1>1. \A v : v \in FieldsWith(line, s) <=>
               \E c \in ToSet(Calls(line)) : s \in Tokens[c.text] /\ v = FieldMap[c.field]
  BY DEF FieldsWith
<1>2. FieldsWith(line, s) # {} <=> \E c \in ToSet(Calls(line)) : s \in Tokens[c.text]
  BY <1>1
<1>3. QED
  BY <1>2, CalledTexts

(* The ids of the filter, as the names of the query have them.             *)
LEMMA FilterOfNames ==
  ASSUME QueryOk(query)
  PROVE  /\ \A id : id \in ToSet(FilterIds(query)) <=>
                      \E name \in ToSet(query.tags) \cap DOMAIN TagId : id = TagId[name]
         /\ \A id : Occurrences(FilterIds(query), id) = Named(query.tags, id)
<1> DEFINE D == KnownTags(query)
           f == [i \in D |-> TagId[query.tags[i]]]
<1>1. D \subseteq DOMAIN query.tags /\ DOMAIN query.tags = 1 .. Len(query.tags) /\ Len(query.tags) \in Nat
  BY DEF KnownTags, QueryOk
<1>2. D \subseteq Nat /\ IsFiniteSet(D)
  <2>1. IsFiniteSet(1 .. Len(query.tags))
    BY <1>1, FS_Interval
  <2>2. QED
    BY <1>1, <2>1, FS_Subset
<1>3. f \in [D -> Int]
  BY SearchInput DEF KnownTags
<1>4. FilterIds(query) = ValuesInOrder(f)
  BY DEF FilterIds
<1>5. \A id : (\E i \in D : f[i] = id) <=>
                \E name \in ToSet(query.tags) \cap DOMAIN TagId : id = TagId[name]
  BY DEF KnownTags, ToSet
<1>6. \A id : Where(f, D, id) = {i \in DOMAIN query.tags :
                                   query.tags[i] \in DOMAIN TagId /\ TagId[query.tags[i]] = id}
  BY DEF Where, KnownTags
<1> HIDE DEF D, f
<1>7. {ValuesInOrder(f)[k] : k \in DOMAIN ValuesInOrder(f)} = {f[i] : i \in D}
  BY <1>2, <1>3, ValuesInOrderProperties
<1>8. \A id : id \in ToSet(FilterIds(query)) <=> \E i \in D : f[i] = id
  BY <1>4, <1>7 DEF ToSet
<1>9. ASSUME NEW id
      PROVE  Occurrences(FilterIds(query), id) = Named(query.tags, id)
  <2>1. Cardinality(Where(FilterIds(query), DOMAIN FilterIds(query), id))
          = Cardinality(Where(f, D, id))
    BY <1>2, <1>3, <1>4, ValuesInOrderCounts
  <2>2. Occurrences(FilterIds(query), id)
          = Cardinality(Where(FilterIds(query), DOMAIN FilterIds(query), id))
    BY DEF Occurrences, Where
  <2>3. Named(query.tags, id) = Cardinality(Where(f, D, id))
    BY <1>6 DEF Named
  <2>4. QED
    BY <2>1, <2>2, <2>3
<1>10. QED
  BY <1>5, <1>8, <1>9

(* filt decides by the brief what the line says.                           *)
LEMMA PassesIsFilters ==
  ASSUME AnswerInv, Answered, NEW o \in Nat, o + 1 \in DOMAIN briefs
  PROVE  Passes(o) <=> PassesFilters(LineOf(o))
<1> DEFINE brief == briefs[o + 1]
           line == read[brief.id]
           ids == FilterIds(query)
<1>1. /\ IInv /\ QueryOk(query) /\ index.briefs = briefs
  BY AnswerFacts
<1>2. brief = BriefOf(brief.id) /\ brief.id \in DOMAIN read
  BY <1>1, BriefIds
<1>3. line \in Lines
  BY <1>1, <1>2 DEF IInv, TypeInv, TypeOK
<1>4. /\ brief.type = line.type
      /\ brief.catalog = IF HasCatalog(line) THEN catalog_id(line) ELSE 0
      /\ brief.tags = TagIds(line)
  BY <1>2 DEF BriefOf
<1>5. brief["type"] = Value(line, "type") /\ brief["catalog"] = Value(line, "catalog")
  BY <1>4 DEF Value
<1>6. LineOf(o) = line
  BY DEF LineOf
<1>7. Passes(o) <=>
        /\ \A i \in DOMAIN query.numeric :
             LET f == query.numeric[i]
             IN  f.name \in {"type", "catalog"} => brief[f.name] \in f.low .. f.high
        /\ \A id \in ToSet(ids) : Occurrences(ids, id) <= Occurrences(brief.tags, id)
  BY <1>1 DEF Passes
<1> HIDE DEF brief, line, ids
<1>8. \A f : f.name \in {"type", "catalog"} => brief[f.name] = Value(line, f.name)
  BY <1>5
<1>9. (\A i \in DOMAIN query.numeric :
         LET f == query.numeric[i]
         IN  f.name \in {"type", "catalog"} => brief[f.name] \in f.low .. f.high)
      <=> \A i \in DOMAIN query.numeric :
            LET f == query.numeric[i]
            IN  f.name \in {"type", "catalog"} => Value(line, f.name) \in f.low .. f.high
  BY <1>8
<1>10. \A id : /\ Occurrences(ids, id) = Named(query.tags, id)
               /\ Occurrences(brief.tags, id) = Named(line.tag, id)
  BY <1>1, <1>3, <1>4, LineTags, FilterOfNames DEF ids
<1>11. (\A id \in ToSet(ids) : Occurrences(ids, id) <= Occurrences(brief.tags, id))
       <=> \A name \in ToSet(query.tags) \cap DOMAIN TagId :
             Named(query.tags, TagId[name]) <= Named(line.tag, TagId[name])
  <2>1. \A id : id \in ToSet(ids) <=>
                  \E name \in ToSet(query.tags) \cap DOMAIN TagId : id = TagId[name]
    BY <1>1, FilterOfNames DEF ids
  <2>2. QED
    BY <1>10, <2>1
<1>12. QED
  BY <1>6, <1>7, <1>9, <1>11 DEF PassesFilters

(* The lists of a build that is over.                                      *)
LEMMA FinishedLists ==
  ASSUME IInv, Clean, ExitsWithZero, NEW s \in Nat \ {0}
  PROVE  /\ objNum = Len(briefs) /\ ok = {briefs[i].id : i \in DOMAIN briefs}
         /\ \A i \in DOMAIN Listed(s) :
              LET o == Listed(s)[i].obj
              IN  o \in 0 .. objNum - 1 /\ FieldsWith(LineOf(o), s) # {}
         /\ \A o \in 0 .. objNum - 1 :
              FieldsWith(LineOf(o), s) # {} =>
                \E i \in DOMAIN Listed(s) : Listed(s)[i].obj = o
<1>1. objNum \in Nat /\ DOMAIN briefs = 1 .. Len(briefs)
  BY BriefIds DEF IInv, TypeInv, TypeOK
<1>2. pc # "finish"
  BY DEF ExitsWithZero
<1>3. objNum = Len(briefs) /\ ok = {briefs[i].id : i \in DOMAIN briefs}
  BY <1>1, <1>2 DEF IInv, CountInv
<1>4. Matches(Listed(s), Haves(s))
  BY DEF IInv, IndexInv
<1>5. /\ DOMAIN Haves(s) = 0 .. objNum
      /\ \A o \in 0 .. objNum - 1 : o \in 0 .. objNum /\ Haves(s)[o] = FieldsWith(LineOf(o), s)
      /\ Haves(s)[objNum] = {}
  BY <1>1, <1>2 DEF Haves
<1>6. \A o \in 0 .. objNum : o = objNum \/ o \in 0 .. objNum - 1
  BY <1>1
<1>7. ASSUME NEW i \in DOMAIN Listed(s)
      PROVE  /\ Listed(s)[i].obj \in 0 .. objNum - 1
             /\ FieldsWith(LineOf(Listed(s)[i].obj), s) # {}
  <2> DEFINE o == Listed(s)[i].obj
  <2>1. o \in DOMAIN Haves(s) /\ Haves(s)[o] # {}
    BY <1>4 DEF Matches
  <2> HIDE DEF o
  <2>2. QED
    BY <1>5, <1>6, <2>1 DEF o
<1>8. ASSUME NEW o \in 0 .. objNum - 1, FieldsWith(LineOf(o), s) # {}
      PROVE  \E i \in DOMAIN Listed(s) : Listed(s)[i].obj = o
  BY <1>4, <1>5, <1>8 DEF Matches
<1>9. QED
  BY <1>3, <1>7, <1>8

AskedSigns == {query.token[i] : i \in Positions}

LEMMA AskedIs ==
  ASSUME QueryOk(query)
  PROVE  Asked = AskedSigns /\ Asked \subseteq Nat \ {0}
<1>1. \A i \in DOMAIN query.token : query.token[i] \in Nat
  BY DEF QueryOk
<1>2. \A s : s \in Asked <=> \E i \in DOMAIN query.token :
               i <= MaxTerm /\ s = query.token[i] /\ s # 0
  BY DEF Asked, NoSign
<1>3. \A s : s \in AskedSigns <=> \E i \in DOMAIN query.token :
               i <= MaxTerm /\ s = query.token[i] /\ s # 0
  BY DEF AskedSigns, Positions, NoToken
<1>4. QED
  BY <1>1, <1>2, <1>3

(* What matches is in the list of a sign that was asked for. *)
LEMMA MatchingListed ==
  ASSUME AnswerInv, Answered, NEW o
  PROVE  o \in Matching <=>
           \E s \in Asked : /\ \E k \in DOMAIN termFile : termFile[k].sign = s
                            /\ \E i \in DOMAIN Listed(s) : Listed(s)[i].obj = o
<1>1. IInv /\ QueryOk(query) /\ index.terms = termFile
  BY AnswerFacts
<1>2. o \in Matching <=>
        \E k \in DOMAIN termFile :
          /\ \E i \in Positions : termFile[k].sign = query.token[i]
          /\ \E j \in DOMAIN termFile[k].index : termFile[k].index[j].obj = o
  BY <1>1 DEF Matching, Terms, Nodes
<1>3. \A k \in DOMAIN termFile :
        termFile[k].index = Listed(termFile[k].sign)
  BY <1>1 DEF IInv, FlushInv, TermFileOk, Listed
<1>4. \A s : s \in Asked <=> \E i \in Positions : s = query.token[i]
  BY <1>1, AskedIs DEF AskedSigns
<1>5. QED
  BY <1>2, <1>3, <1>4

LEMMA LineMatches ==
  ASSUME AnswerInv, Answered, Clean, NEW o \in Passing
  PROVE  briefs[o + 1].id \in MatchingLines
<1> DEFINE n == briefs[o + 1].id
<1>1. /\ IInv /\ ExitsWithZero /\ QueryOk(query)
      /\ o \in Nat /\ o + 1 \in DOMAIN briefs /\ o \in Matching /\ Passes(o)
  BY AnswerFacts
<1>2. PICK s \in Asked : \E i \in DOMAIN Listed(s) : Listed(s)[i].obj = o
  BY <1>1, MatchingListed
<1>3. s \in Nat \ {0}
  BY <1>1, AskedIs
<1>4. FieldsWith(LineOf(o), s) # {}
  BY <1>1, <1>2, <1>3, FinishedLists
<1>5. LineOf(o) = read[n] /\ read[n] \in Lines
  <2>1. n \in DOMAIN read
    BY <1>1, BriefIds
  <2>2. QED
    BY <1>1, <2>1 DEF LineOf, IInv, TypeInv, TypeOK
<1>6. n \in ok
  BY <1>1, <1>3, FinishedLists
<1> HIDE DEF n
<1>7. \E text \in Texts(read[n]) : s \in Tokens[text]
  BY <1>4, <1>5, FieldsOfTexts
<1>8. PassesFilters(read[n])
  BY <1>1, <1>5, PassesIsFilters
<1>9. n \in MatchingLines
  BY <1>2, <1>6, <1>7, <1>8 DEF MatchingLines
<1>10. QED
  BY <1>9 DEF n

(* Whatever fails, except for finish_obj: an answer has only lines that    *)
(* were accepted, hold a token of the query and pass its filters.          *)
THEOREM AnswersMatch ==
  EngineSpec => []SearchSound
<1>1. AnswerInv => SearchSound
  <2> SUFFICES ASSUME AnswerInv, Answered, Clean, NEW n \in Answer
               PROVE  n \in MatchingLines
    BY DEF SearchSound, Clean
  <2>1. Answer = LineIds(Best) /\ index.briefs = briefs /\ Best \subseteq Passing
    BY AnswerFacts, OncePerLine
  <2>2. PICK o \in Best : n = briefs[o + 1].id
    BY <2>1 DEF LineIds
  <2>3. QED
    BY <2>1, <2>2, LineMatches
<1>2. QED
  BY <1>1, AnswerInit, AnswerStep, PTL DEF EngineSpec
-----------------------------------------------------------------------------
(***************************************************************************)
(* The lines of the merged file are those of tweets that were dumped, a    *)
(* higher score comes later, and makeindex has read a part of it.          *)
(***************************************************************************)
IsMerged(order) ==
  /\ DOMAIN order = DOMAIN raw
  /\ \A i \in DOMAIN order : order[i] \in Scored /\ raw[i].tid = order[i].tid
  /\ ByScore(order)

RawOk ==
  /\ \E n \in Nat : DOMAIN raw = 1 .. n
  /\ \E order : IsMerged(order)

TableOk(rows) == rows \in Seq(Rows) /\ HasKey(ToSet(rows))

DataInv ==
  /\ HasKey(TweetRows(db, inserts))
  /\ "tweet" \in DOMAIN dumped => TableOk(dumped["tweet"])
  /\ stage # "merged" => read = <<>>
  /\ stage = "merged" => RawOk /\ "tweet" \in DOMAIN dumped
  /\ DOMAIN read \subseteq DOMAIN raw

(* What merge_data.py makes of the dumped files does not depend on what    *)
(* the database has by now.                                                *)
LEMMA ScoredStay ==
  ASSUME dumped' = dumped
  PROVE  Scored' = Scored /\ \A a, b : Rises(a, b)' = Rises(a, b)
<1>1. \A row : Content(row)' = Content(row)
  BY DEF Content
<1>2. \A row : Worthless(row)' = Worthless(row)
  BY <1>1 DEF Worthless
<1>3. Scored' = Scored
  BY <1>2 DEF Scored, Tweets
<1>4. \A table, tid : Votes(table, tid)' = Votes(table, tid)
  BY DEF Votes
<1>5. \A row : Points(row)' = Points(row)
  BY <1>4 DEF Points
<1>6. \A a, b : Rises(a, b)' = Rises(a, b)
  BY <1>5 DEF Rises
<1>7. QED
  BY <1>3, <1>6

LEMMA DataInit ==
  EngineInit => DataInv
<1> SUFFICES ASSUME EngineInit
             PROVE  DataInv
  OBVIOUS
<1>1. db \in Databases /\ inserts = Inserts /\ stage = "dump" /\ dumped = <<>>
  BY DEF EngineInit, DumpInit
<1>2. read = <<>>
  BY DEF EngineInit, Init
<1>3. DOMAIN dumped = {} /\ DOMAIN read = {}
  BY <1>1, <1>2
<1>4. HasKey(TweetRows(db, inserts))
  BY <1>1, TidIsKey
<1>5. QED
  BY <1>1, <1>2, <1>3, <1>4 DEF DataInv

(* An insert takes a row from what may come to what is there.              *)
LEMMA InsertMovesRow ==
  ASSUME DumpInv, Insert
  PROVE  TweetRows(db', inserts') \subseteq TweetRows(db, inserts)
<1> DEFINE new == Head(inserts)
           table == new.table
           I == [table : Tables, row : Rows]
           S == Seq(Rows)
<1>1. /\ inserts # <<>> /\ inserts \in Seq(I) /\ db \in [Tables -> S]
      /\ inserts' = Tail(inserts)
      /\ db' = [db EXCEPT ![table] = Append(@, new.row)]
  BY DEF Insert, DumpInv
<1> HIDE DEF I
<1>2. /\ new = inserts[1] /\ 1 \in DOMAIN inserts /\ new \in I
      /\ \A n \in DOMAIN inserts' : /\ n + 1 \in DOMAIN inserts
                                     /\ inserts'[n] = inserts[n + 1]
  BY <1>1
<1>3. table \in Tables /\ new.row \in Rows
  BY <1>2 DEF I
<1> HIDE DEF new, S
<1>4. /\ db'[table] = Append(db[table], new.row)
      /\ \A t \in Tables : t # table => db'[t] = db[t]
      /\ db["tweet"] \in S
  BY <1>1, <1>3 DEF Tables
<1>5. ASSUME NEW row \in ToSet(db'["tweet"])
      PROVE  row \in TweetRows(db, inserts)
  <2>1. CASE table = "tweet"
    <3>1. db["tweet"] \in Seq(Rows)
      BY <1>4 DEF S
    <3>2. ToSet(Append(db["tweet"], new.row)) = ToSet(db["tweet"]) \cup {new.row}
      BY <1>3, <3>1, AppendedMembers
    <3>3. row \in ToSet(db["tweet"]) \/ row = inserts[1].row
      BY <1>2, <1>4, <1>5, <2>1, <3>2
    <3>4. QED
      BY <1>2, <2>1, <3>3 DEF TweetRows
  <2>2. CASE table # "tweet"
    BY <1>4, <1>5, <2>2 DEF TweetRows, Tables
  <2>3. QED
    BY <2>1, <2>2
<1>6. ASSUME NEW n \in DOMAIN inserts', inserts'[n].table = "tweet"
      PROVE  inserts'[n].row \in TweetRows(db, inserts)
  BY <1>2, <1>6 DEF TweetRows
<1>7. QED
  BY <1>5, <1>6 DEF TweetRows

LEMMA ScoredFinite ==
  ASSUME TableOk(dumped["tweet"])
  PROVE  IsFiniteSet(Scored) /\ HasKey(Scored)
<1> DEFINE rows == dumped["tweet"]
<1>1. DOMAIN rows = 1 .. Len(rows) /\ Len(rows) \in Nat
  BY DEF TableOk
<1>2. IsFiniteSet(DOMAIN rows)
  BY <1>1, FS_Interval
<1>3. IsFiniteSet({rows[i] : i \in DOMAIN rows})
  BY <1>2, FiniteImage
<1>4. IsFiniteSet(ToSet(rows))
  BY <1>3 DEF ToSet
<1>5. Scored \in SUBSET ToSet(rows)
  BY DEF Scored, Tweets
<1>6. QED
  BY <1>4, <1>5, FS_Subset DEF TableOk, HasKey

(* sorted() leaves a list of the tweets by score. *)
LEMMA MergedOk ==
  ASSUME DataInv, DumpInv, Merge
  PROVE  /\ UNCHANGED <<db, inserts, dumped>>
         /\ read = <<>>
         /\ stage' = "merged" => RawOk' /\ "tweet" \in DOMAIN dumped
<1>1. UNCHANGED <<db, inserts, dumped>> /\ stage = "dump" /\ AllDumped
  BY DEF Merge
<1>2. read = <<>>
  BY <1>1 DEF DataInv
<1>3. "tweet" \in DOMAIN dumped
  <2>1. "tweet" = DumpOrder[1] /\ 1 \in DOMAIN DumpOrder
    BY DEF DumpOrder
  <2>2. QED
    BY <1>1, <2>1 DEF AllDumped, ToSet
<1>4. ASSUME stage' = "merged"
      PROVE  RawOk'
  <2> DEFINE N == Cardinality(Scored)
  <2>1. N \in Nat
    BY <1>3, ScoredFinite, FS_CardinalityType DEF DataInv
  <2>2. raw' \in Files
    BY <1>4 DEF Merge
  <2>3. PICK order \in SetToSeqs(Scored) :
          /\ ByScore(order)
          /\ raw' = [i \in DOMAIN order |-> [tid |-> order[i].tid, line |-> Line(order[i])]]
    BY <2>2 DEF Files
  <2>4. order \in [1 .. N -> Scored]
    BY <2>3 DEF SetToSeqs
  <2> HIDE DEF N
  <2>5. /\ DOMAIN order = 1 .. N /\ DOMAIN raw' = 1 .. N
        /\ \A i \in 1 .. N : order[i] \in Scored /\ raw'[i].tid = order[i].tid
    BY <2>3, <2>4
  <2>6. Scored' = Scored /\ \A a, b : Rises(a, b)' = Rises(a, b)
    BY <1>1, ScoredStay
  <2>7. ByScore(order)'
    BY <2>3, <2>6 DEF ByScore
  <2>8. IsMerged(order)'
    BY <2>5, <2>6, <2>7 DEF IsMerged
  <2>9. \E n \in Nat : DOMAIN raw' = 1 .. n
    BY <2>1, <2>5
  <2>10. QED
    BY <2>8, <2>9 DEF RawOk
<1>5. QED
  BY <1>1, <1>2, <1>3, <1>4
(* makeindex reads a beginning of the merged file. *)
LEMMA BuildReads ==
  ASSUME RawOk, Build, read' \in Seq(Lines)
  PROVE  DOMAIN read' \subseteq DOMAIN raw
<1> DEFINE new == read'
           file == [n \in DOMAIN raw |-> raw[n].line]
           S == {raw[n].line : n \in DOMAIN raw}
<1>1. PICK n \in Nat : DOMAIN raw = 1 .. n
  BY DEF RawOk
<1>2. IsPrefix(new, file)
  BY DEF Build
<1>3. file \in [1 .. n -> S]
  BY <1>1
<1>4. new \in Seq(Lines)
  OBVIOUS
<1> HIDE DEF file, S, new
<1>5. Len(file) = n
  <2>1. file \in Seq(S) /\ DOMAIN file = 1 .. n
    BY <1>1, <1>3
  <2>2. QED
    BY <1>1, <2>1
<1>6. Len(new) \in Nat /\ Len(new) <= n /\ DOMAIN new = 1 .. Len(new)
  BY <1>2, <1>4, <1>5 DEF IsPrefix
<1>7. DOMAIN new \subseteq DOMAIN raw
  BY <1>1, <1>6
<1>8. QED
  BY <1>7 DEF new

LEMMA DataStep ==
  ASSUME DataInv, DumpInv, LoadInv, [EngineNext]_engineVars
  PROVE  DataInv'
<1>1. LoadInv'
  BY LoadStep
<1>2. read' \in Seq(Lines)
  BY <1>1 DEF LoadInv, IInv, TypeInv, TypeOK
<1>3. /\ HasKey(TweetRows(db, inserts))
      /\ "tweet" \in DOMAIN dumped => TableOk(dumped["tweet"])
      /\ stage # "merged" => read = <<>>
      /\ stage = "merged" => RawOk /\ "tweet" \in DOMAIN dumped
      /\ DOMAIN read \subseteq DOMAIN raw
  BY DEF DataInv
<1>4. ASSUME dumped' = dumped, raw' = raw, RawOk
      PROVE  RawOk'
  <2>1. PICK order : IsMerged(order)
    BY <1>4 DEF RawOk
  <2>2. Scored' = Scored /\ \A a, b : Rises(a, b)' = Rises(a, b)
    BY <1>4, ScoredStay
  <2>3. ByScore(order)'
    BY <2>1, <2>2 DEF ByScore, IsMerged
  <2>4. IsMerged(order)'
    BY <1>4, <2>1, <2>2, <2>3 DEF IsMerged
  <2>5. QED
    BY <1>4, <2>4 DEF RawOk
<1>5. CASE Build
  <2>1. stage = "merged" /\ UNCHANGED dumpVars
    BY <1>5 DEF Build
  <2>2. DOMAIN read' \subseteq DOMAIN raw
    BY <1>2, <1>3, <1>5, <2>1, BuildReads
  <2>3. QED
    BY <1>3, <1>4, <2>1, <2>2 DEF DataInv, dumpVars
<1>6. CASE Insert /\ UNCHANGED vars
  <2>1. /\ stage = "dump" /\ UNCHANGED <<stage, dumped, raw, read>>
        /\ TweetRows(db', inserts') \subseteq TweetRows(db, inserts)
    BY <1>6, InsertMovesRow DEF Insert, vars
  <2>2. HasKey(TweetRows(db', inserts'))
    BY <1>3, <2>1 DEF HasKey
  <2>3. QED
    BY <1>3, <2>1, <2>2 DEF DataInv
<1>7. CASE DumpTable /\ UNCHANGED vars
  <2>1. PICK table \in Tables :
           /\ table = "tweet" <=> DOMAIN dumped = {}
           /\ dumped' = [t \in DOMAIN dumped \cup {table} |->
                           IF t = table THEN db[table] ELSE dumped[t]]
    BY <1>7, TableDumped
  <2>2. stage = "dump" /\ UNCHANGED <<db, inserts, stage, raw, read>>
    BY <1>7 DEF DumpTable, vars
  <2>3. TableOk(db["tweet"])
    <3>1. db["tweet"] \in Seq(Rows)
      BY DEF DumpInv, Tables
    <3>2. ToSet(db["tweet"]) \subseteq TweetRows(db, inserts)
      BY DEF TweetRows
    <3>3. QED
      BY <1>3, <3>1, <3>2 DEF TableOk, HasKey
  <2>4. "tweet" \in DOMAIN dumped' => TableOk(dumped'["tweet"])
    <3>1. CASE table = "tweet"
      BY <2>1, <2>3, <3>1
    <3>2. CASE table # "tweet"
      BY <1>3, <2>1, <3>2
    <3>3. QED
      BY <3>1, <3>2
  <2>5. QED
    BY <1>3, <2>2, <2>4 DEF DataInv
<1>8. CASE Merge /\ UNCHANGED vars
  <2>1. /\ UNCHANGED <<db, inserts, dumped>> /\ read = <<>> /\ read' = read
        /\ stage' = "merged" => RawOk' /\ "tweet" \in DOMAIN dumped
    BY <1>8, MergedOk DEF vars
  <2>2. DOMAIN read' = {}
    BY <2>1
  <2>3. QED
    BY <1>3, <2>1, <2>2 DEF DataInv
<1>9. CASE DumpFails /\ UNCHANGED vars
  BY <1>3, <1>9 DEF DataInv, DumpFails, vars
<1>10. CASE UNCHANGED <<dumpVars, vars>>
  BY <1>3, <1>4, <1>10 DEF DataInv, dumpVars, vars
<1>11. QED
  BY <1>5, <1>6, <1>7, <1>8, <1>9, <1>10
     DEF EngineNext, engineVars, GetData, DumpNext, Load, BeginSearch, ContinueSearch

-----------------------------------------------------------------------------
(***************************************************************************)
(* The answer has the best of the lines.                                   *)
(***************************************************************************)

(* A build of which neither finish_obj nor the flush failed, and that has  *)
(* left a term, was completed.                                             *)
LEMMA WasCompleted ==
  ASSUME AnswerInv, Answered, "flush" \notin faulted
  PROVE  /\ pc = "done"
         /\ \A s \in DOMAIN terms : \E i \in DOMAIN termFile : termFile[i].sign = s
<1>1. IInv /\ ExitsWithZero /\ termFile # <<>>
  BY AnswerFacts
<1>2. pc # "failed"
  BY <1>1 DEF IInv, BrokenInv
<1>3. pc = "done"
  BY <1>1, <1>2 DEF ExitsWithZero
<1>4. QED
  BY <1>1, <1>3 DEF IInv, FlushInv, TermFileOk

(* A line that matches is that of an object that does. *)
LEMMA LineFound ==
  ASSUME AnswerInv, Answered, Clean, "flush" \notin faulted, NEW n \in MatchingLines
  PROVE  \E o \in Passing : n = briefs[o + 1].id
<1>1. IInv /\ ExitsWithZero /\ QueryOk(query) /\ index.briefs = briefs
  BY AnswerFacts
<1>2. n \in ok /\ PassesFilters(read[n])
  BY DEF MatchingLines
<1>3. PICK text \in Texts(read[n]) : Tokens[text] \cap Asked # {}
  BY DEF MatchingLines
<1>4. PICK s \in Asked : s \in Tokens[text]
  BY <1>3
<1>5. s \in Nat \ {0}
  BY <1>1, AskedIs
<1>6. objNum = Len(briefs) /\ ok = {briefs[i].id : i \in DOMAIN briefs}
  BY <1>1, <1>5, FinishedLists
<1>7. PICK i \in DOMAIN briefs : n = briefs[i].id
  BY <1>2, <1>6
<1>8. /\ Len(briefs) \in Nat /\ i \in 1 .. Len(briefs) /\ n \in DOMAIN read
  BY <1>1, <1>7, BriefIds
<1> DEFINE o == i - 1
<1>9. o \in Nat /\ o + 1 = i /\ o \in 0 .. objNum - 1
  BY <1>6, <1>8
<1> HIDE DEF o
<1>10. LineOf(o) = read[n] /\ read[n] \in Lines
  BY <1>1, <1>7, <1>8, <1>9 DEF LineOf, IInv, TypeInv, TypeOK
<1>11. FieldsWith(LineOf(o), s) # {}
  BY <1>3, <1>4, <1>10, FieldsOfTexts
<1>12. \E k \in DOMAIN Listed(s) : Listed(s)[k].obj = o
  BY <1>1, <1>5, <1>9, <1>11, FinishedLists
<1>13. s \in DOMAIN terms
  <2> SUFFICES ASSUME s \notin DOMAIN terms
               PROVE  FALSE
    OBVIOUS
  <2>1. Listed(s) = <<>>
    BY DEF Listed
  <2>2. DOMAIN Listed(s) = {}
    BY <2>1
  <2>3. QED
    BY <1>12, <2>2
<1>14. o \in Matching
  BY <1>4, <1>12, <1>13, WasCompleted, MatchingListed
<1>15. Passes(o)
  BY <1>1, <1>2, <1>7, <1>9, <1>10, PassesIsFilters
<1>16. QED
  BY <1>7, <1>9, <1>14, <1>15 DEF Passing

(* What is not among the best came before them. *)
LEMMA BestAreLast ==
  ASSUME AnswerInv, Answered, NEW o \in Best, NEW p \in Passing \ Best
  PROVE  p < o
<1> DEFINE Newer(x) == {y \in Passing : y > x}
<1>1. Passing \subseteq Nat /\ IsFiniteSet(Passing)
  BY AnswerFacts
<1>2. Cardinality(Newer(o)) < MaxRecall /\ ~(Cardinality(Newer(p)) < MaxRecall)
  BY DEF Best
<1>3. o \in Nat /\ p \in Nat /\ o # p
  BY <1>1 DEF Best
<1>4. IsFiniteSet(Newer(o)) /\ IsFiniteSet(Newer(p))
  <2>1. Newer(o) \in SUBSET Passing /\ Newer(p) \in SUBSET Passing
    OBVIOUS
  <2> HIDE DEF Newer
  <2>2. QED
    BY <1>1, <2>1, FS_Subset
<1>5. o < p => Newer(p) \in SUBSET Newer(o)
  <2>1. \A y \in Passing : y \in Nat
    BY <1>1
  <2>2. \A y \in Passing : o < p /\ y > p => y > o
    BY <1>3, <2>1
  <2>3. QED
    BY <2>2
<1> HIDE DEF Newer
<1>6. o < p => Cardinality(Newer(p)) <= Cardinality(Newer(o))
  BY <1>4, <1>5, FS_Subset
<1>7. Cardinality(Newer(p)) \in Nat /\ Cardinality(Newer(o)) \in Nat
  BY <1>4, FS_CardinalityType
<1>8. MaxRecall \in Nat
  BY SearchAssumption
<1>9. QED
  BY <1>2, <1>3, <1>6, <1>7, <1>8

(* The row of a line that was read is that of its place in the file. *)
LEMMA RowsInOrder ==
  ASSUME DataInv, NEW m \in DOMAIN read, NEW n \in DOMAIN read, m < n
  PROVE  Rises(RowOf(m), RowOf(n))
<1>1. stage = "merged"
  <2>1. DOMAIN read # {}
    OBVIOUS
  <2>2. read # <<>>
    BY <2>1
  <2>3. QED
    BY <2>2 DEF DataInv
<1>2. TableOk(dumped["tweet"]) /\ RawOk /\ DOMAIN read \subseteq DOMAIN raw
  BY <1>1 DEF DataInv
<1>3. HasKey(Scored)
  BY <1>2, ScoredFinite
<1>4. PICK order : IsMerged(order)
  BY <1>2 DEF RawOk
<1>5. \A k \in DOMAIN read : RowOf(k) = order[k]
  <2> TAKE k \in DOMAIN read
  <2>1. order[k] \in Scored /\ raw[k].tid = order[k].tid
    BY <1>2, <1>4 DEF IsMerged
  <2>2. \A row \in Scored : row.tid = raw[k].tid => row = order[k]
    BY <1>3, <2>1 DEF HasKey
  <2>3. QED
    BY <2>1, <2>2 DEF RowOf
<1>6. Rises(order[m], order[n])
  BY <1>2, <1>4 DEF IsMerged, ByScore
<1>7. QED
  BY <1>5, <1>6

(* If neither finish_obj nor the flush failed, an answer has all the lines *)
(* that match, or as many as a search recalls, and none of the others has  *)
(* a higher score.                                                         *)
THEOREM AnswersAreBest ==
  EngineSpec => []SearchComplete
<1>1. AnswerInv /\ DataInv => SearchComplete
  <2> SUFFICES ASSUME AnswerInv, DataInv, Answered, Clean, "flush" \notin faulted
               PROVE  /\ \/ Cardinality(Answer) >= Cardinality(MatchingLines)
                         \/ Cardinality(Answer) = MaxRecall
                      /\ \A n \in Answer, m \in MatchingLines \ Answer :
                           Rises(RowOf(m), RowOf(n))
    BY DEF SearchComplete, Clean
  <2>1. /\ Answer = LineIds(Best) /\ Cardinality(Answer) = Len(output)
        /\ IsFiniteSet(Answer)
    BY OncePerLine
  <2>2. /\ IInv /\ index.briefs = briefs /\ Best \subseteq Passing
        /\ Passing \subseteq Nat
        /\ \A o \in Passing : o + 1 \in DOMAIN briefs
        /\ Best = Passing \/ Len(output) = MaxRecall
    BY AnswerFacts DEF OutputOk
  <2>3. \A x : x \in Answer <=> \E o \in Best : x = briefs[o + 1].id
    BY <2>1, <2>2 DEF LineIds
  <2>4. Cardinality(Answer) >= Cardinality(MatchingLines) \/ Cardinality(Answer) = MaxRecall
    <3>1. CASE Best = Passing
      <4>1. MatchingLines \in SUBSET Answer
        BY <2>3, <3>1, LineFound
      <4>2. Cardinality(MatchingLines) <= Cardinality(Answer) /\ IsFiniteSet(MatchingLines)
        BY <2>1, <4>1, FS_Subset
      <4>3. Cardinality(MatchingLines) \in Nat /\ Cardinality(Answer) \in Nat
        BY <2>1, <4>2, FS_CardinalityType
      <4>4. QED
        BY <4>2, <4>3
    <3>2. QED
      BY <2>1, <2>2, <3>1
  <2>5. ASSUME NEW n \in Answer, NEW m \in MatchingLines \ Answer
        PROVE  Rises(RowOf(m), RowOf(n))
    <3>1. PICK o \in Best : n = briefs[o + 1].id
      BY <2>3
    <3>2. PICK p \in Passing : m = briefs[p + 1].id
      BY LineFound
    <3>3. p \notin Best
      BY <2>3, <3>2
    <3>4. p < o
      BY <3>3, BestAreLast
    <3>5. p + 1 \in DOMAIN briefs /\ o + 1 \in DOMAIN briefs /\ p + 1 < o + 1
      BY <2>2, <3>4
    <3>6. m < n /\ m \in DOMAIN read /\ n \in DOMAIN read
      BY <2>2, <3>1, <3>2, <3>5, BriefIds
    <3>7. QED
      BY <3>6, RowsInOrder
  <2>6. QED
    BY <2>4, <2>5
<1>2. EngineInit => AnswerInv /\ DumpInv /\ DataInv
  BY AnswerInit, DataInit, DumpInitOk DEF EngineInit
<1>3. /\ AnswerInv /\ DumpInv /\ DataInv
      /\ [EngineNext]_engineVars
      => AnswerInv' /\ DumpInv' /\ DataInv'
  BY AnswerStep, DumpStep, DataStep DEF AnswerInv
<1>4. QED
  BY <1>1, <1>2, <1>3, PTL DEF EngineSpec

=============================================================================
