------------------------------ MODULE DumpData ------------------------------
(***************************************************************************)
(* The data of an index: dump_data.sh writes four tables of the database   *)
(* to files, one query after the other while the application goes on, and  *)
(* merge_data.py makes the input of makeindex of them (autoindex/script).  *)
(*                                                                         *)
(* Rows: tweet [tid, type, f, s, tags, resources, imgs, ctime] (resources  *)
(* are ids, imgs the texts in the JSON of its images), zan and comment     *)
(* [tid], resource [rid, text].  A row of tags without any is <<"">>.      *)
(***************************************************************************)
EXTENDS Integers, FiniteSets, SequencesExt

CONSTANTS
  Databases,  \* what the tables may hold when the dump begins
  Inserts,    \* [table, row] that the application adds meanwhile, in order
  Decay       \* ctime -> (hours + 2)^1.8, in some unit, where it is defined

Tables == {"tweet", "zan", "comment", "resource"}

Rows == (UNION {ToSet(d[table]) : d \in Databases, table \in Tables})
          \cup {Inserts[i].row : i \in DOMAIN Inserts}

RidsIn(rows) == {r.rid : r \in ToSet(rows)}
NamedIn(rows) == UNION {ToSet(row.resources) : row \in ToSet(rows)}

(* The rids of the resources that are inserted before insert n. *)
RidsBefore(ins, n) ==
  {ins[j].row.rid : j \in {k \in DOMAIN ins : k < n /\ ins[k].table = "resource"}}

(* The application stores resources before the tweets that name them. *)
ASSUME ResourcesStored ==
  /\ Databases \subseteq [Tables -> Seq(Rows)]
  /\ Inserts \in Seq([table : Tables, row : Rows])
  /\ \A d \in Databases :
       /\ NamedIn(d["tweet"]) \subseteq RidsIn(d["resource"])
       /\ \A n \in DOMAIN Inserts :
            Inserts[n].table = "tweet" =>
              ToSet(Inserts[n].row.resources)
                \subseteq RidsIn(d["resource"]) \cup RidsBefore(Inserts, n)

(* The tweets that the table of a database may come to hold.               *)
TweetRows(d, ins) ==
  ToSet(d["tweet"]) \cup
    {ins[n].row : n \in {k \in DOMAIN ins : ins[k].table = "tweet"}}

HasKey(rows) == \A a, b \in rows : a.tid = b.tid => a = b

(* A tid is the key of its table: merge_data.py fills a dict with it.      *)
ASSUME TidIsKey == \A d \in Databases : HasKey(TweetRows(d, Inserts))

VARIABLES
  db,         \* table -> sequence of rows
  inserts,    \* what the application still has to insert
  stage,      \* "dump", "merged", or "nodump" and "nomerge" for a failure
  dumped,     \* table -> the rows in its file, for the tables dumped so far
  raw         \* the merged file: [tid, line]

dumpVars == <<db, inserts, stage, dumped, raw>>

DumpInit ==
  /\ db \in Databases
  /\ inserts = Inserts
  /\ stage = "dump"
  /\ dumped = <<>>
  /\ raw = <<>>

Insert ==
  /\ stage = "dump"
  /\ inserts # <<>>
  /\ db' = [db EXCEPT ![Head(inserts).table] = Append(@, Head(inserts).row)]
  /\ inserts' = Tail(inserts)
  /\ UNCHANGED <<stage, dumped, raw>>

(* Mutant of DumpOrder: resources first, then what refers to them.         *)
DumpOrder_ResourcesFirst == <<"resource", "tweet", "zan", "comment">>

DumpOrder == <<"tweet", "zan", "comment", "resource">>

AllDumped == DOMAIN dumped = ToSet(DumpOrder)

DumpTable ==
  /\ stage = "dump"
  /\ ~AllDumped
  /\ LET table == DumpOrder[Cardinality(DOMAIN dumped) + 1]
     IN  dumped' = [t \in DOMAIN dumped \cup {table} |->
                      IF t = table THEN db[table] ELSE dumped[t]]
  /\ UNCHANGED <<db, inserts, stage, raw>>

(* mysql fails: exit 1. *)
DumpFails ==
  /\ stage = "dump"
  /\ ~AllDumped
  /\ stage' = "nodump"
  /\ UNCHANGED <<db, inserts, dumped, raw>>

-----------------------------------------------------------------------------
(***************************************************************************)
(* merge_data                                                              *)
(***************************************************************************)
Rids == RidsIn(dumped["resource"])

(* The last row of an id counts. *)
resource_dict(rows, rid) ==
  rows[SelectLastInSeq(rows, LAMBDA r : r.rid = rid)].text

NonEmpty(texts) == SelectSeq(texts, LAMBDA text : text # "")

(* _get_content *)
Content(row) ==
  IF row.resources = <<>>
    THEN NonEmpty(row.imgs)
    ELSE [i \in DOMAIN row.resources |->
            resource_dict(dumped["resource"], row.resources[i])]

(* An exception outside of every try but main's. *)
KeyError == \E row \in ToSet(dumped["tweet"]) : ToSet(row.resources) \ Rids # {}

(* No text, no catalogs and no tags. *)
Worthless(row) ==
  (ToSet(Content(row)) \cup ToSet(row.tags) \cup {row.f, row.s}) \subseteq {""}

(* tweet_dict; a tid is the key of its table. *)
Tweets == {row \in ToSet(dumped["tweet"]) : ~Worthless(row)}

Votes(table, tid) == Cardinality({i \in DOMAIN dumped[table] : dumped[table][i].tid = tid})
Points(row) == 6 * Votes("zan", row.tid) + 4 * Votes("comment", row.tid)

(* _get_score raises for a ctime without a decay, no number or a time more *)
(* than two hours ahead, and the try of merge_data leaves the tweet out.   *)
Scored == {row \in Tweets : row.ctime \in DOMAIN Decay}

(* The score of a is not above that of b: points / decay. *)
Rises(a, b) == Points(a) * Decay[b.ctime] <= Points(b) * Decay[a.ctime]

Line(row) == [type |-> row.type, f |-> row.f, s |-> row.s, tag |-> row.tags,
              desc |-> Content(row)]

(* Mutant of ByScore: the best tweet comes first.                          *)
ByScore_Down(order) == \A i, j \in DOMAIN order : i < j => Rises(order[j], order[i])

(* sorted() by score; tweets of one score are in any order, that of a dict.*)
ByScore(order) == \A i, j \in DOMAIN order : i < j => Rises(order[i], order[j])

Files ==
  {[i \in DOMAIN order |-> [tid |-> order[i].tid, line |-> Line(order[i])]] :
     order \in {o \in SetToSeqs(Scored) : ByScore(o)}}

Merge ==
  /\ stage = "dump"
  /\ AllDumped
  /\ IF KeyError
       THEN stage' = "nomerge" /\ UNCHANGED raw
       ELSE stage' = "merged" /\ raw' \in Files
  /\ UNCHANGED <<db, inserts, dumped>>

DumpNext == Insert \/ DumpTable \/ DumpFails \/ Merge

-----------------------------------------------------------------------------
(* The tables are dumped at different times and nothing makes them agree.  *)
(* The merge still finds every resource that a dumped tweet names, because *)
(* resources are dumped last (dump_data.sh:35-38, merge_data.py:40), given *)
(* an application that stores resources before the tweets that name them.  *)
ResourcesFound == stage # "nomerge"
=============================================================================
