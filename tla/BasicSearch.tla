---------------------------- MODULE BasicSearch ----------------------------
(***************************************************************************)
(* BS::basic_search on one thread (se/bs/bs.cpp, se/bs/heap.hpp): searches *)
(* one after the other, each on the index that was current when it began.  *)
(* What a search leaves behind in gt_thread_data, above all a heap that is *)
(* not empty when MAX_RECALL_NUM stopped it, is there when the next begins.*)
(*                                                                         *)
(* An index is [terms, briefs]: the term array with each term's list, and  *)
(* the briefs [type, catalog, tags].  A query is [token, numeric, tags]:   *)
(* tokens are signs (NoToken is the empty string), numeric filters [name,  *)
(* low, high], tags are names.                                             *)
(***************************************************************************)
EXTENDS IndexData, Sorting, SequencesExt

CONSTANTS
  Indexes,      \* indexes the server can load
  Queries,      \* queries that AS::advance_search can make
  TagId,        \* tag name -> id, of the tag file
  MaxRecall,    \* MAX_RECALL_NUM
  MaxTerm       \* BS_MAX_TERM_NUM

ASSUME SearchAssumption ==
  /\ MaxRecall \in Nat \ {0}
  /\ MaxTerm \in Nat \ {0}

IsSequence(s) == s \in Seq(ToSet(s))

(* A term's list goes down, and is as long as the term says. *)
TermOk(t) ==
  LET list == t.index
  IN  /\ t.num \in Nat \ {0}
      /\ IsSequence(list) /\ Len(list) = t.num
      /\ \A k \in DOMAIN list : /\ {list[k].obj, list[k].num} \subseteq Nat
                              /\ IsFiniteSet(list[k].fields)
      /\ \A k, l \in DOMAIN list : k < l => list[k].obj >= list[l].obj

BriefOk(brief) ==
  /\ {"type", "catalog", "tags"} \subseteq DOMAIN brief
  /\ {brief.type, brief.catalog} \subseteq Int
  /\ brief.tags \in Seq(Int)
  /\ \A k, l \in DOMAIN brief.tags : k < l => brief.tags[k] <= brief.tags[l]

(* What load takes of a directory: it has a term or more, and their signs  *)
(* rise.  EngineProofs shows that every build leaves such an index.        *)
IndexOk(ix) ==
  LET terms == ix.terms
  IN  /\ IsSequence(terms) /\ terms # <<>>
      /\ \A i \in DOMAIN terms : terms[i].sign \in Nat /\ TermOk(terms[i])
      /\ \A i, j \in DOMAIN terms : i < j => terms[i].sign < terms[j].sign
      /\ IsSequence(ix.briefs)
      /\ \A o \in DOMAIN ix.briefs : BriefOk(ix.briefs[o])

(* What advance_search makes of a request. *)
QueryOk(q) ==
  /\ q.token \in Seq(Nat)
  /\ q.numeric \in Seq([name : STRING, low : Int, high : Int])
  /\ q.tags \in Seq(STRING)

ASSUME SearchInput ==
  /\ \A ix \in Indexes : IndexOk(ix)
  /\ \A q \in Queries : QueryOk(q)
  /\ \A name \in DOMAIN TagId : TagId[name] \in Int

VARIABLES
  phase,        \* between searches, in the loop of _recall, after it
  index,        \* gt_thread_data->index_data
  query,        \* gt_thread_data->input
  filtTags,     \* tag_filt_id
  term,         \* the cursors: [sign, left, at], at a position in the list
  heap,         \* index_heap: the numbers of the cursors in it
  obj,          \* the objects recalled: [obj, weight]
  lastFilt, lastValid,
  output        \* output->id: obj_ids instead of the briefs' ids

searchVars == <<phase, index, query, filtTags, term, heap, obj, lastFilt,
                lastValid, output>>

NoToken == 0
NoObj == -1      \* 2^32 - 1, beyond every obj_id

List(c) == index.terms[locate_term(index.terms, c.sign)].index
NodeAt(c) == List(c)[c.at]

-----------------------------------------------------------------------------
(***************************************************************************)
(* _prepare and load_index                                                 *)
(***************************************************************************)
KnownTags(q) == {i \in DOMAIN q.tags : q.tags[i] \in DOMAIN TagId}
FilterIds(q) == ValuesInOrder([i \in KnownTags(q) |-> TagId[q.tags[i]]])

(* The tokens that load_index looks at and the index has, by position. *)
Loaded(ix, q) ==
  {i \in DOMAIN q.token : /\ i <= MaxTerm
                          /\ q.token[i] # NoToken
                          /\ locate_term(ix.terms, q.token[i]) # NoTerm}

Cursors(ix, q) ==
  [i \in Loaded(ix, q) |->
     LET s == q.token[i]
     IN  [sign |-> s, left |-> ix.terms[locate_term(ix.terms, s)].num, at |-> 1]]

(* Mutant of ClearedObj: the last search's objects stay.                   *)
ClearedObj_Kept == obj

(* obj.clear() *)
ClearedObj == <<>>

(* The cleared heap is filled with all cursors.  Without any, _recall is   *)
(* over (EMPTY_TOKEN); output->id.clear() empties the result.              *)
Begin(ix, q) ==
  /\ phase = "idle"
  /\ index' = ix
  /\ query' = q
  /\ filtTags' = FilterIds(q)
  /\ term' = Cursors(ix, q)
  /\ heap' = Loaded(ix, q)
  /\ obj' = ClearedObj
  /\ lastFilt' = NoObj
  /\ lastValid' = NoObj
  /\ output' = <<>>
  /\ phase' = IF Loaded(ix, q) = {} THEN "sorted" ELSE "recall"

-----------------------------------------------------------------------------
(***************************************************************************)
(* filt                                                                    *)
(***************************************************************************)
numeric_filter(brief, q) ==
  \E i \in DOMAIN q.numeric :
    LET f == q.numeric[i]
    IN  /\ f.name \in {"type", "catalog"}
        /\ brief[f.name] < f.low \/ brief[f.name] > f.high

(* Both tag lists ascend; i and j only go up.  A found tag is used up.     *)
tag_filter(brief, filter) ==
  LET m == Len(filter)
      n == Len(brief.tags)
      missing[at \in (1 .. m + 1) \X (1 .. n + 1)] ==
        LET i == at[1]
            j == at[2]
        IN  /\ i <= m
            /\ j <= n => \/ brief.tags[j] > filter[i]
                         \/ brief.tags[j] < filter[i] /\ missing[<<i, j + 1>>]
                         \/ brief.tags[j] = filter[i] /\ missing[<<i + 1, j + 1>>]
  IN  missing[<<1, 1>>]

filt(o) ==
  LET brief == get_brief(index.briefs, o)
  IN  IF brief = NoBrief
        THEN TRUE
        ELSE numeric_filter(brief, query) \/ tag_filter(brief, filtTags)

-----------------------------------------------------------------------------
(***************************************************************************)
(* add_obj.  Weights are in tenths: 1 + min(0.5, 0.1 * fields * num).      *)
(***************************************************************************)
HitScore(node) ==
  LET score == Cardinality(node.fields) * node.num
  IN  10 + (IF score > 5 THEN 5 ELSE score)

(* Mutant of Weighed: the last token's score replaces the others.          *)
Weighed_Last(weight, node) == HitScore(node)

Weighed(weight, node) == weight + HitScore(node)

(* Mutant of Repeated: obj_num is tested one too high.                     *)
Repeated_OffByOne(objs, node) == Len(objs) > 1 /\ objs[Len(objs)].obj = node.obj

Repeated(objs, node) == Len(objs) > 0 /\ objs[Len(objs)].obj = node.obj

add_obj(objs, node) ==
  LET n == Len(objs)
  IN  IF Repeated(objs, node)
        THEN [objs EXCEPT ![n].weight = Weighed(@, node)]
        ELSE Append(objs, [obj |-> node.obj, weight |-> HitScore(node)])

(* Heap::pop: some cursor that no other one exceeds. *)
Top(i) == /\ i \in heap
          /\ \A j \in heap : NodeAt(term[j]).obj <= NodeAt(term[i]).obj

(* --cursor.left, ++cursor.index, and back into the heap if any are left. *)
Advanced(c) == [c EXCEPT !.left = @ - 1, !.at = IF c.left = 1 THEN @ ELSE @ + 1]

HeapAfter(i) == IF term[i].left = 1 THEN heap \ {i} ELSE heap

Room == Len(obj) < MaxRecall

(* One turn of the loop of _recall. *)
Recall(i) ==
  /\ phase = "recall"
  /\ Room
  /\ Top(i)
  /\ LET node == NodeAt(term[i])
         o == node.obj
     IN  \/ /\ o = lastFilt
            /\ UNCHANGED <<obj, lastFilt, lastValid>>
         \/ /\ o # lastFilt /\ o # lastValid /\ filt(o)
            /\ lastFilt' = o
            /\ UNCHANGED <<obj, lastValid>>
         \/ /\ o # lastFilt /\ (o = lastValid \/ ~filt(o))
            /\ lastValid' = o
            /\ obj' = add_obj(obj, node)
            /\ UNCHANGED lastFilt
  /\ term' = [term EXCEPT ![i] = Advanced(@)]
  /\ heap' = HeapAfter(i)
  /\ UNCHANGED <<phase, index, query, filtTags, output>>

(* stable_sort by weight *)
compare_basic_weight(a, b) == a.weight > b.weight
Sorted(objs) ==
  LET stable(i, j) == \/ compare_basic_weight(objs[i], objs[j])
                      \/ objs[i].weight = objs[j].weight /\ i < j
      order == Ascending(DOMAIN objs, stable)
  IN  [k \in DOMAIN objs |-> objs[order[k]]]

SortObjects ==
  /\ phase = "recall"
  /\ heap = {} \/ ~Room
  /\ obj' = Sorted(obj)
  /\ phase' = "sorted"
  /\ UNCHANGED <<index, query, filtTags, term, heap, lastFilt, lastValid, output>>

(* _copy_result and _clean *)
CopyResult ==
  /\ phase = "sorted"
  /\ output' = [k \in DOMAIN obj |-> obj[k].obj]
  /\ phase' = "idle"
  /\ UNCHANGED <<index, query, filtTags, term, heap, obj, lastFilt, lastValid>>

SearchInit ==
  /\ phase = "idle"
  /\ index \in Indexes
  /\ query \in Queries
  /\ filtTags = <<>>
  /\ term = <<>>
  /\ heap = {}
  /\ obj = <<>>
  /\ lastFilt = NoObj
  /\ lastValid = NoObj
  /\ output = <<>>

SearchNext ==
  \/ \E ix \in Indexes, q \in Queries : Begin(ix, q)
  \/ \E i \in DOMAIN term : Recall(i)
  \/ SortObjects
  \/ CopyResult

SearchSpec == SearchInit /\ [][SearchNext]_searchVars

-----------------------------------------------------------------------------
(***************************************************************************)
(* What a search promises, stated without cursors and heap.                *)
(***************************************************************************)
Terms == {index.terms[k] : k \in DOMAIN index.terms}
Nodes(t) == {t.index[k] : k \in DOMAIN t.index}

Positions == {i \in DOMAIN query.token : i <= MaxTerm /\ query.token[i] # NoToken}

Matching ==
  {n.obj : n \in UNION {Nodes(t) : t \in
     {u \in Terms : \E i \in Positions : u.sign = query.token[i]}}}

Occurrences(seq, x) == Cardinality({k \in DOMAIN seq : seq[k] = x})

(* The object has a brief, its numbers lie within every numeric filter,    *)
(* and it has every tag of the filter, as often as the filter names it.    *)
Passes(o) ==
  /\ o + 1 \in DOMAIN index.briefs
  /\ LET brief == index.briefs[o + 1]
         ids == FilterIds(query)
     IN  /\ \A i \in DOMAIN query.numeric :
              LET f == query.numeric[i]
              IN  f.name \in {"type", "catalog"} => brief[f.name] \in f.low .. f.high
         /\ \A id \in ToSet(ids) :
              Occurrences(ids, id) <= Occurrences(brief.tags, id)

Passing == {o \in Matching : Passes(o)}
Best == {o \in Passing : Cardinality({p \in Passing : p > o}) < MaxRecall}

(* The hits of object o: for which token, in which term, where in its list. *)
HitsOn(o) ==
  UNION {{i} \X {t} \X {k \in DOMAIN index.terms[t].index :
                         /\ index.terms[t].sign = query.token[i]
                         /\ index.terms[t].index[k].obj = o} :
           i \in Positions, t \in DOMAIN index.terms}

Score(h) == HitScore(index.terms[h[2]].index[h[3]])

Weight(o) == FoldFunction(+, 0, [h \in HitsOn(o) |-> Score(h)])

-----------------------------------------------------------------------------
(* A search recalls the best MAX_RECALL_NUM objects that match one of its  *)
(* tokens and pass its filters, and no others, whatever the searches       *)
(* before it left in the thread's data.                                    *)
RecallExact == phase = "sorted" => {obj[k].obj : k \in DOMAIN obj} = Best

(* The result is by weight, and among equal weights the newest first.      *)
(* Every hit of every token counts in an object's weight, except for the   *)
(* last object of a full recall: the loop stops when that is added         *)
(* (_recall, l.248-269, add_obj).                                          *)
RankedByWeight ==
  phase = "sorted" =>
    /\ \A k \in DOMAIN obj :
         LET o == obj[k].obj
         IN  \/ obj[k].weight = Weight(o)
             \/ /\ Len(obj) = MaxRecall
                /\ \A j \in DOMAIN obj : obj[j].obj >= o
                /\ obj[k].weight <= Weight(o)
    /\ \A i, j \in DOMAIN obj :
         i < j => \/ obj[i].weight > obj[j].weight
                  \/ obj[i].weight = obj[j].weight /\ obj[i].obj > obj[j].obj
=============================================================================
