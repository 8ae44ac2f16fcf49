----------------------------- MODULE SearchPath -----------------------------
(***************************************************************************)
(* A request on its way through one thread of the server: _adapt_input and *)
(* _adapt_response (se/server/thrift), SeService::search (se/service),     *)
(* AS::advance_search (se/as/as.cpp), DA::query_analysis with the          *)
(* segmenter that the thread keeps between requests.  What basic_search    *)
(* finds (BasicSearch.tla) is any list or error here.                      *)
(*                                                                         *)
(* A tag is a sequence of characters, Hat is '^'.  Results are positions.  *)
(***************************************************************************)
EXTENDS QueryAnalysis

CONSTANTS
  Requests,       \* [query, type, tag, catalog, pn, rn]
  CatalogInfoConf,\* lines of catalog_info.conf: [id, name, fields]
  MaxFound,       \* bound: results of basic_search
  INT_MAX         \* the largest int

Tag == Seq(Nat)
Field == [colon : BOOLEAN, group : STRING]
ConfLine == [id : Int, name : STRING, fields : Seq(Field)]

ASSUME SearchPathAssumption ==
  /\ MaxFound \in Nat
  /\ INT_MAX \in Nat
  /\ \A r \in Requests :
       r.query \in Seq(Char) /\ r.tag \in Seq(Tag) /\ r.pn \in Int /\ r.rn \in Int
  /\ CatalogInfoConf \in Seq(ConfLine)

VARIABLES
  pc,         \* "idle", "da", "bs", "answered", "crashed"
  request,
  segment,    \* DA's gt_thread_data: "none", with "null", with a "segment"
  da,         \* da_result
  response

requestVars == <<pc, request, segment, da, response>>

OK == 0
ERR_INIT_THREAD_DATA == 201
ERR_INIT_SEGMENT_LOCAL == 203
ERR_SEGMENT == 205
ERR_INIT_THREAD_DATA_BS == 303
Hat == 9

(* n as an int. *)
Wrap(n) == ((n + INT_MAX + 1) % (2 * (INT_MAX + 1))) - (INT_MAX + 1)

-----------------------------------------------------------------------------
(***************************************************************************)
(* The filters                                                             *)
(***************************************************************************)

AppendTag(str, tag) == str \o <<Hat>> \o tag

(* The request's tags, each after a '^'. *)
TagString(tags) ==
  LET str[k \in 0 .. Len(tags)] ==
        IF k = 0 THEN <<>> ELSE AppendTag(str[k - 1], tags[k])
  IN  str[Len(tags)]

Piece(p) == IF p = <<>> THEN <<>> ELSE <<p>>

(* strchr(begin, '^'), counted from 0, is one of them. *)
Hats(str, begin) == {k \in begin + 1 .. Len(str) : str[k] = Hat}

Between(str, begin, end) == Piece(SubSeq(str, begin + 1, end - 1))

(* _fill_tag_filter: the pieces between the '^' that are not empty. *)
TagFilter(str) ==
  LET cut[at \in (0 .. Len(str)) \X Seq(Tag)] ==
        LET begin == at[1]
            found == at[2]
            end == Min(Hats(str, begin))
        IN  IF Hats(str, begin) = {} THEN found \o Between(str, begin, Len(str) + 1)
            ELSE cut[<<end, found \o Between(str, begin, end)>>]
  IN  cut[<<0, <<>> >>]

(* Mutant of Chosen: what the query says comes before the request's choice.*)
Chosen_QueryFirst(r, analysed) ==
  IF analysed.catalog > 0 THEN analysed.catalog
  ELSE IF r.catalog > 0 THEN r.catalog
  ELSE NoCatalog

Chosen(r, analysed) ==
  IF r.catalog > 0 THEN r.catalog
  ELSE IF analysed.catalog > 0 THEN analysed.catalog
  ELSE NoCatalog

Numeric(name, low, high) == [name |-> name, low |-> low, high |-> high]

(* "^type(t,t)" of _adapt_input, read by _fill_numeric_filter, and         *)
(* _add_numeric_filter.                                                    *)
NumericFilter(r, catalog) ==
  LET asked == << Numeric("type", r.type, r.type) >>
  IN  IF catalog > 0 THEN Append(asked, Numeric("catalog", catalog, catalog)) ELSE asked

(* Mutant of PageEnd: the page is closed at its end.                       *)
PageEnd_Closed(pn, rn) == Wrap(Wrap(pn + 1) * rn) + 1

PageEnd(pn, rn) == Wrap(Wrap(pn + 1) * rn)

(* The loop over bs_output.id.  i < size() compares without sign.          *)
Page(ids, pn, rn) ==
  LET begin == Wrap(pn * rn)
      end == PageEnd(pn, rn)
  IN  IF begin < 0 THEN <<>>
      ELSE SubSeq(ids, begin + 1, IF end < Len(ids) THEN end ELSE Len(ids))

(***************************************************************************)
(* AS::init reads catalog_info.conf into _catalog_info_dict.  The fields   *)
(* after id and name are tag groups [colon, group], those without a colon  *)
(* are skipped; a line without any is skipped too.                         *)
(***************************************************************************)

(* Mutant of GroupsBefore: tag_group is not cleared.                       *)
GroupsBefore_Kept(info) == info.groups

(* One catalog_info serves all lines; its tag_group is cleared. *)
GroupsBefore(info) == <<>>

AddLine(read, line) ==
  LET groups == Picked(line.fields, {i \in DOMAIN line.fields : line.fields[i].colon})
      info == [id |-> line.id, name |-> line.name,
               groups |-> GroupsBefore(read.info) \o groups]
  IN  IF line.fields = <<>> THEN read
      ELSE [info |-> info,
            dict |-> [id \in DOMAIN read.dict \cup {line.id} |->
                        IF id = line.id THEN info ELSE read.dict[id]]]

Undescribed == [id |-> NoCatalog, name |-> "", groups |-> <<>>]
catalog_info_dict ==
  LET read[k \in 0 .. Len(CatalogInfoConf)] ==
        IF k = 0 THEN [info |-> Undescribed, dict |-> <<>>]
        ELSE AddLine(read[k - 1], CatalogInfoConf[k])
  IN  read[Len(CatalogInfoConf)].dict

(* catalog of the response *)
Announced(catalog) ==
  IF catalog > 0 /\ catalog \in DOMAIN catalog_info_dict
    THEN catalog_info_dict[catalog]
    ELSE Undescribed

-----------------------------------------------------------------------------
NoRequest == [pn |-> 0]

(* total_num of an error response is not set. *)
Error(code) == [err |-> code]

(* What advance_search makes of the n results of basic_search. *)
Result(r, analysed, n) ==
  LET catalog == Chosen(r, analysed)
      ids == [k \in 1 .. n |-> k]
  IN  [err |-> OK,
       id |-> Page(ids, r.pn, r.rn),
       total |-> n,
       tags |-> TagFilter(TagString(r.tag)),
       numeric |-> NumericFilter(r, catalog),
       catalog |-> Announced(catalog)]

RequestInit ==
  /\ pc = "idle"
  /\ request = NoRequest
  /\ segment = "none"
  /\ da = NoRequest
  /\ response = Error(OK)

Receive(r) ==
  /\ pc = "idle"
  /\ request' = r
  /\ pc' = "da"
  /\ UNCHANGED <<segment, da, response>>

Answer(resp) ==
  /\ response' = resp
  /\ pc' = "answered"
  /\ UNCHANGED <<request, da>>

(* prepare: no thread_data_t, or no Segment in it. *)
PrepareFails ==
  /\ pc = "da"
  /\ segment = "none"
  /\ \/ Answer(Error(ERR_INIT_THREAD_DATA)) /\ UNCHANGED segment
     \/ Answer(Error(ERR_INIT_SEGMENT_LOCAL)) /\ segment' = "null"

(* prepare only looks at gt_thread_data: after a failure the next request  *)
(* of this thread calls segment() on NULL.                                 *)
NullSegment ==
  /\ pc = "da"
  /\ segment = "null"
  /\ pc' = "crashed"
  /\ UNCHANGED <<request, segment, da, response>>

Analyse ==
  /\ pc = "da"
  /\ segment # "null"
  /\ segment' = "segment"
  /\ \E before \in ByteBefore : da' = Analysed(request.query, before)
  /\ pc' = "bs"
  /\ UNCHANGED <<request, response>>

SegmentFails ==
  /\ pc = "da"
  /\ segment # "null"
  /\ segment' = "segment"
  /\ Answer(Error(ERR_SEGMENT))

(* call_bs_service finds n results, none when there is no token, and the   *)
(* rest of advance_search.                                                 *)
Found(n) ==
  /\ pc = "bs"
  /\ da.token = <<>> => n = 0
  /\ Answer(Result(request, da, n))
  /\ UNCHANGED segment

(* _prepare has no memory for the thread's data: the only error of         *)
(* basic_search, EMPTY_TOKEN is none (IndexManager.tla has what _clean     *)
(* does then).                                                             *)
SearchFails ==
  /\ pc = "bs"
  /\ Answer(Error(ERR_INIT_THREAD_DATA_BS))
  /\ UNCHANGED segment

(* The response is sent; what was local to the request is gone. *)
Return ==
  /\ pc = "answered"
  /\ pc' = "idle"
  /\ request' = NoRequest
  /\ da' = NoRequest
  /\ response' = Error(OK)
  /\ UNCHANGED segment

RequestNext ==
  \/ \E r \in Requests : Receive(r)
  \/ PrepareFails \/ NullSegment \/ Analyse \/ SegmentFails
  \/ \E n \in 0 .. MaxFound : Found(n)
  \/ SearchFails
  \/ Return

RequestSpec == RequestInit /\ [][RequestNext]_requestVars

-----------------------------------------------------------------------------
Answered == pc = "answered" /\ response.err = OK

(* The in-place loop of normalize_query does what its comment says; what   *)
(* the byte before the string is decides no more than whether a query that *)
(* starts with blanks keeps one.                                           *)
NormalizeExact ==
  pc = "bs" => \E before \in ByteBefore : da.query = Normal(request.query, before)

(* A search has the filters of its request.  Tags without '^' come back    *)
(* from the string that _adapt_input makes of them, without the empty ones *)
(* (as.cpp:60-80); the catalog of the request comes before that of its     *)
(* query (l.141-146), and the catalog that a response announces is the one *)
(* its results were filtered by.                                           *)
FiltersOfRequest ==
  Answered =>
    LET by == {response.numeric[k].low : k \in
                 {i \in DOMAIN response.numeric : response.numeric[i].name = "catalog"}}
    IN  /\ (\A t \in ToSet(request.tag) : Hat \notin ToSet(t)) =>
             response.tags = Picked(request.tag, {i \in DOMAIN request.tag : request.tag[i] # <<>>})
        /\ response.catalog.id # NoCatalog => by = {response.catalog.id}
        /\ request.catalog > 0 => by = {request.catalog}

(* What a response says of its catalog, name and tag groups, is what the   *)
(* last line of catalog_info.conf for that catalog says, and nothing of    *)
(* another line (as.cpp:38-54); other catalogs have no description.        *)
DescribedByLine ==
  Answered /\ response.catalog.id # NoCatalog =>
    LET lines == {k \in DOMAIN CatalogInfoConf :
                    /\ CatalogInfoConf[k].id = response.catalog.id
                    /\ CatalogInfoConf[k].fields # <<>>}
    IN  \E k \in lines :
          /\ \A i \in lines : i <= k
          /\ response.catalog.name = CatalogInfoConf[k].name
          /\ ToSet(response.catalog.groups)
               = {f \in ToSet(CatalogInfoConf[k].fields) : f.colon}

(***************************************************************************)
(* The pages of a result are disjoint and together the whole result: the   *)
(* k-th result, from 0, is on page k \div rn (as.cpp:162-165).  It holds   *)
(* as long as (pn + 1) * rn is an int.                                     *)
(***************************************************************************)
PageExact ==
  Answered /\ request.rn > 0 /\ (request.pn + 1) * request.rn <= INT_MAX
           /\ request.pn * request.rn >= -(INT_MAX + 1) =>
    ToSet(response.id) = {k \in 1 .. response.total : (k - 1) \div request.rn = request.pn}

(* "if catalog_ret != 0, look again after segmentation" (da.cpp:116): when *)
(* the words of the query name no catalog but its tokens do, that is it.   *)
SecondLookup ==
  pc = "bs" =>
    \/ da.catalog # NoCatalog
    \/ GetId(da.token) = NoCatalog
=============================================================================
