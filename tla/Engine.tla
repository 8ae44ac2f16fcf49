------------------------------- MODULE Engine -------------------------------
(***************************************************************************)
(* From the rows of the database to the answer of a search: DumpData       *)
(* merges them to input lines, MakeIndex builds the index of these lines,  *)
(* build_index.sh sees makeindex's exit status, IndexData!load takes the   *)
(* directory that was built, and BasicSearch searches on what was loaded.  *)
(* The exit status is 0 unless makeindex crashes (makeindex/main.cpp:25),  *)
(* so that the server also meets directories of builds that failed.        *)
(*                                                                         *)
(* What a search makes of briefs that were read out of step (a record was  *)
(* cut off and others follow) is not modelled: the run ends there.         *)
(***************************************************************************)
EXTENDS MakeIndex, DumpData, BasicSearch

(* Builder and server read the same tag file.  Indexes is empty: what is   *)
(* searched here was built.                                                *)
ASSUME EngineInput == TagId = tag_map(TagFile) /\ Indexes = {}

VARIABLES
  loadRet,    \* what IndexData::load returned, or NotLoaded
  searched    \* a search has begun

engineVars == <<vars, dumpVars, loadRet, searched, searchVars>>

NotLoaded == -1
NoQuery == [token |-> <<>>, numeric |-> <<>>, tags |-> <<>>]
NoIndex == [terms |-> <<>>, briefs |-> <<>>]

EngineInit ==
  /\ Init
  /\ DumpInit
  /\ loadRet = NotLoaded
  /\ searched = FALSE
  /\ phase = "idle"
  /\ index = NoIndex
  /\ query = NoQuery
  /\ filtTags = <<>>
  /\ term = <<>>
  /\ heap = {}
  /\ obj = <<>>
  /\ lastFilt = NoObj
  /\ lastValid = NoObj
  /\ output = <<>>

GetData ==
  /\ DumpNext
  /\ UNCHANGED <<vars, loadRet, searched, searchVars>>

(* makeindex reads the raw file to its end. *)
Build ==
  /\ stage = "merged"
  /\ Next
  /\ IsPrefix(read', [n \in DOMAIN raw |-> raw[n].line])
  /\ pc' = "flush" => Len(read') = Len(raw)
  /\ UNCHANGED <<dumpVars, loadRet, searched, searchVars>>

Directory == [groups |-> out.groups, terms |-> termFile, tornTerm |-> out.tornTerm,
              hasBriefs |-> out.hasBriefs, torn |-> out.torn]

(* main of makeindex returns 0 whatever makeindex() has returned. *)
ExitsWithZero == pc \in {"done", "failed"}

Load ==
  /\ ExitsWithZero
  /\ loadRet = NotLoaded
  /\ loadRet' \in load(Directory)
  /\ UNCHANGED <<vars, dumpVars, searched, searchVars>>

IndexLoaded == loadRet = 0 /\ ~out.torn

BeginSearch(q) ==
  /\ IndexLoaded
  /\ ~searched
  /\ searched' = TRUE
  /\ Begin([terms |-> termFile, briefs |-> briefs], q)
  /\ UNCHANGED <<vars, dumpVars, loadRet>>

ContinueSearch ==
  /\ \/ \E i \in DOMAIN term : Recall(i)
     \/ SortObjects
     \/ CopyResult
  /\ UNCHANGED <<vars, dumpVars, loadRet, searched>>

EngineNext ==
  \/ GetData
  \/ Build
  \/ Load
  \/ \E q \in Queries : BeginSearch(q)
  \/ ContinueSearch

EngineSpec == EngineInit /\ [][EngineNext]_engineVars

-----------------------------------------------------------------------------
(***************************************************************************)
(* What an answer should be, in terms of the lines alone.                  *)
(***************************************************************************)
Texts(line) == ToSet(line.tag) \cup ToSet(line.desc)
                 \cup (IF HasCatalog(line) THEN {line.f, line.s} ELSE {})

Asked == {query.token[i] : i \in {j \in DOMAIN query.token : j <= MaxTerm}} \ {NoSign}

Value(line, name) ==
  IF name = "type" THEN line.type
  ELSE IF HasCatalog(line) THEN catalog_id(line) ELSE 0

(* How often a list of names has a tag: names of one id are one tag.       *)
Named(names, id) ==
  Cardinality({i \in DOMAIN names : names[i] \in DOMAIN TagId /\ TagId[names[i]] = id})

PassesFilters(line) ==
  /\ \A i \in DOMAIN query.numeric :
       LET f == query.numeric[i]
       IN  f.name \in {"type", "catalog"} => Value(line, f.name) \in f.low .. f.high
  /\ \A name \in ToSet(query.tags) \cap DOMAIN TagId :
       Named(query.tags, TagId[name]) <= Named(line.tag, TagId[name])

MatchingLines ==
  {n \in ok : /\ \E text \in Texts(read[n]) : Tokens[text] \cap Asked # {}
              /\ PassesFilters(read[n])}

RowOf(n) == CHOOSE row \in Scored : row.tid = raw[n].tid

Answered == searched /\ phase = "idle"
Answer == {index.briefs[o + 1].id : o \in ToSet(output)}

-----------------------------------------------------------------------------
(* makeindex exits with 0 also when it failed.  A build that failed before *)
(* its flush, in the start-up or at a read, and one whose IndexMaker::init *)
(* failed without saying so, is not loaded all the same: its term file is  *)
(* empty, or flush crashes (index_data.cpp:98, index_maker.cpp:105-168).   *)
FailedBuildRefused ==
  loadRet = 0 => ~broken /\ (pc = "done" \/ "flush" \in faulted)

(* Whatever a build could not write, even if its directory is loaded: as   *)
(* long as finish_obj did not fail, an answer has only lines that were     *)
(* accepted, hold a word of the query and pass its filters.                *)
SearchSound ==
  Answered /\ "finish" \notin faulted => Answer \subseteq MatchingLines

(* If flush did not fail either, it has MAX_RECALL_NUM of them, or all,    *)
(* and no other one has a higher score: the search keeps the latest lines, *)
(* and merge_data.py sorts them by rising score (merge_data.py:147).       *)
SearchComplete ==
  Answered /\ faulted \cap {"finish", "flush"} = {} =>
    /\ Cardinality(Answer) >= Cardinality(MatchingLines) \/ Cardinality(Answer) = MaxRecall
    /\ \A n \in Answer, m \in MatchingLines \ Answer : Rises(RowOf(m), RowOf(n))

(* Whatever fails, finish_obj included: an object that was linked in part  *)
(* shares its number with the next one, and a list may hold both, but no   *)
(* answer names a line twice or an object without a brief.                 *)
AnswersOnce ==
  Answered => /\ Cardinality(Answer) = Len(output)
              /\ \A o \in ToSet(output) : o < Len(index.briefs)
=============================================================================
