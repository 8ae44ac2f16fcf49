----------------------------- MODULE MakeIndex -----------------------------
(***************************************************************************)
(* The index builder: makeindex() with its start-up and its loop over the  *)
(* merged input lines, handle_line, and the IndexMaker it drives           *)
(* (makeindex/makeindex.cpp, makeindex/index_maker.cpp).                   *)
(*                                                                         *)
(* A line is what handle_line takes from its JSON, [type, f, s, tag, desc]:*)
(* names of the two catalogs, of the tags, and the descriptions.  What can *)
(* go wrong is kept: a start-up that fails, or fails and reports success,  *)
(* a line that is refused, an allocation or a write that fails in the      *)
(* middle of an object.                                                    *)
(***************************************************************************)
EXTENDS IndexData, Tags, Sorting, SequencesExt

CONSTANTS
  Lines,      \* lines the input can hold
  FieldConf,  \* lines of the field conf: [kind, name, id]
  TagFile,    \* lines of the tag file
  CatalogId,  \* <<f, s>> -> what get_catalog_id finds, 0 or less for nothing
  Tokens,     \* a text -> the signs of its unique tokens (segmenter, sign64)
  MaxLines,   \* bound: lines in the input
  HitMod      \* hit_info_t::num has 11 bits: it counts modulo 2^11

ASSUME MakeIndexAssumption ==
  /\ MaxLines \in Nat
  /\ HitMod \in Nat \ {0}

(* The files are well-formed, and no token has the sign 0, which finish_obj *)
(* uses for none: sign64 gives it to one text in 2^64.                      *)
ASSUME BuilderInput ==
  /\ \A text \in DOMAIN Tokens :
       Tokens[text] \subseteq Nat \ {0} /\ IsFiniteSet(Tokens[text])
  /\ \A line \in Lines :
       /\ line.type \in Int
       /\ {line.f, line.s} \subseteq DOMAIN Tokens
       /\ CatalogId[<<line.f, line.s>>] \in Int
       /\ line.tag \in Seq(DOMAIN Tokens)
       /\ line.desc \in Seq(DOMAIN Tokens)
  /\ {FieldConf, TagFile} \subseteq Seq([kind : STRING, name : STRING, id : Int])

VARIABLES
  read,       \* the lines read so far
  pc,         \* where makeindex() is
  broken,     \* IndexMaker::init has failed and returned 0
  infos,      \* _obj_index_buffer, sorted, what finish_obj has not handled
  node,       \* finish_obj's index_node: [obj, fields, num, off]
  lastSign,   \* ... and last_sign
  objNum,     \* _obj_num
  terms,      \* _term_map: sign -> [num, index]
  hits,       \* hit file: <<line number, sign>> of every hit
  briefs,     \* brief file: [id, type, catalog, tags], id the line's number
  out,        \* what else IndexData!load looks at in the output directory
  todo,       \* flush: the signs of _term_arr still to be written
  termFile,   \* term file and index file: [sign, num, index] of every term
  ok,         \* the lines that handle_line has returned 0 for
  faulted     \* history: where an allocation, a read or a write has failed

maker == <<node, lastSign, objNum, terms, hits>>
flushVars == <<todo, termFile>>
vars == <<read, pc, broken, infos, maker, briefs, out, flushVars, ok, faulted>>

NoNode == [obj |-> -1, fields |-> {}, num |-> 0, off |-> 0]
NoSign == 0

-----------------------------------------------------------------------------
(***************************************************************************)
(* What handle_line makes of a line                                        *)
(***************************************************************************)

catalog_id(line) == CatalogId[<<line.f, line.s>>]
HasCatalog(line) == catalog_id(line) > 0

(* The arguments of the add_field calls. *)
Calls(line) ==
  LET call(field, texts) == [i \in DOMAIN texts |-> [field |-> field, text |-> texts[i]]]
  IN  (IF HasCatalog(line) THEN call("catalog", <<line.f, line.s>>) ELSE <<>>)
        \o call("tag", line.tag) \o call("description", line.desc)

(* Names that the tag file does not have are dropped, the ids sorted. *)
TagIds(line) ==
  LET known == {i \in DOMAIN line.tag : line.tag[i] \in DOMAIN tag_map(TagFile)}
  IN  ValuesInOrder([i \in known |-> get_id(TagFile, line.tag[i])])

BriefOf(n) ==
  [id |-> n, type |-> read[n].type, tags |-> TagIds(read[n]),
   catalog |-> IF HasCatalog(read[n]) THEN catalog_id(read[n]) ELSE 0]

(* The last line for a name counts; a field has 8 bits. *)
load_field_conf(lines) ==
  [name \in DOMAIN tag_map(lines) |-> tag_map(lines)[name] % 256]

(* A maker whose start-up was given up has no fields. *)
FieldMap == IF broken THEN <<>> ELSE load_field_conf(FieldConf)

(* The index_info_t that the calls append, one per field and token. *)
InfoSet(calls) ==
  UNION {{[sign |-> s, field |-> FieldMap[calls[no].field], no |-> no] :
            s \in Tokens[calls[no].text]} : no \in DOMAIN calls}

(* index_compare *)
InfoLess(a, b) ==
  \/ a.sign < b.sign
  \/ a.sign = b.sign /\ a.field < b.field
  \/ a.sign = b.sign /\ a.field = b.field /\ a.no < b.no

(* Mutant of StartObj: the infos of the object before stay in the buffer.  *)
StartObj_Kept == ToSet(infos)

(* start_obj *)
StartObj == {}

Infos(calls) == Ascending(StartObj \cup InfoSet(calls), InfoLess)

Init ==
  /\ read = <<>>
  /\ pc = "init"
  /\ broken = FALSE
  /\ infos = <<>>
  /\ node = NoNode
  /\ lastSign = NoSign
  /\ objNum = 0
  /\ terms = <<>>
  /\ hits = <<>>
  /\ briefs = <<>>
  /\ out = [groups |-> FALSE, hasBriefs |-> FALSE, torn |-> FALSE, tornTerm |-> FALSE]
  /\ todo = <<>>
  /\ termFile = <<>>
  /\ ok = {}
  /\ faulted = {}

Fault(where) == faulted' = faulted \cup {where}

-----------------------------------------------------------------------------
(***************************************************************************)
(* init() and IndexMaker::init                                             *)
(***************************************************************************)
Started ==
  /\ pc = "init"
  /\ pc' = "line"
  /\ out' = [out EXCEPT !.groups = TRUE, !.hasBriefs = TRUE]
  /\ UNCHANGED <<read, broken, infos, maker, briefs, flushVars, ok, faulted>>

(* init() returns an error: files were opened up to some point. *)
InitFails ==
  /\ pc = "init"
  /\ pc' = "failed"
  /\ \E groups, brief \in BOOLEAN :
       /\ brief => groups
       /\ out' = [out EXCEPT !.groups = groups, !.hasBriefs = brief]
  /\ Fault("init")
  /\ UNCHANGED <<read, broken, infos, maker, briefs, flushVars, ok>>

(* A `goto fail' that leaves ret 0 (no segmenter, no writer, no term file):*)
(* IndexMaker::init has deleted everything and returns success.            *)
InitBroken ==
  /\ pc = "init"
  /\ pc' = "line"
  /\ broken' = TRUE
  /\ \E groups \in BOOLEAN :
       out' = [out EXCEPT !.groups = groups, !.hasBriefs = TRUE]
  /\ Fault("init")
  /\ UNCHANGED <<read, infos, maker, briefs, flushVars, ok>>

-----------------------------------------------------------------------------
(***************************************************************************)
(* handle_line                                                             *)
(***************************************************************************)
NextLine(line) ==
  /\ pc = "line"
  /\ Len(read) < MaxLines
  /\ read' = Append(read, line)

(* start_obj and the add_field calls succeed. *)
ReadLine(line) ==
  /\ NextLine(line)
  /\ \A no \in DOMAIN Calls(line) : Calls(line)[no].field \in DOMAIN FieldMap
  /\ infos' = Infos(Calls(line))
  /\ pc' = "brief"
  /\ UNCHANGED <<broken, maker, briefs, out, flushVars, ok, faulted>>

(* A JSON exception, or an add_field that fails after some that did not:   *)
(* nothing was written yet, and the next start_obj empties the buffer.     *)
RefuseLine(line) ==
  /\ NextLine(line)
  /\ \E k \in 0 .. Len(Calls(line)) :
       LET calls == SubSeq(Calls(line), 1, k)
       IN  /\ \A no \in 1 .. k : calls[no].field \in DOMAIN FieldMap
           /\ infos' = Infos(calls)
  /\ UNCHANGED <<pc, broken, maker, briefs, out, flushVars, ok, faulted>>

WriteBrief ==
  /\ pc = "brief"
  /\ briefs' = Append(briefs, BriefOf(Len(read)))
  /\ pc' = "finish"
  /\ UNCHANGED <<read, broken, infos, maker, out, flushVars, ok, faulted>>

(* Mutant of AfterBrief: handle_line goes on to finish_obj.                *)
AfterBrief_Finish == "finish"

(* return 8 *)
AfterBrief == "line"

(* Nothing was written, or a part of the record. *)
BriefFails ==
  /\ pc = "brief"
  /\ Fault("brief")
  /\ \E torn \in {out.torn, TRUE} : out' = [out EXCEPT !.torn = torn]
  /\ pc' = AfterBrief
  /\ UNCHANGED <<read, broken, infos, maker, briefs, flushVars, ok>>

-----------------------------------------------------------------------------
(***************************************************************************)
(* finish_obj, one action per turn of its loop over the sorted infos.      *)
(***************************************************************************)

(* The current node is complete: its sign is behind us. *)
NextSign == IF infos = <<>> THEN NoSign ELSE Head(infos).sign

(* Mutant of Linking: a last_sign without a node is linked too.            *)
Linking_NoNode == NextSign # lastSign

Linking == node # NoNode /\ NextSign # lastSign

(* Mutant of WithNode: the node goes to the end.                           *)
WithNode_AtEnd(old) == [num |-> old.num + 1, index |-> Append(old.index, node)]

(* ++num, and the node in front of the list. *)
WithNode(old) == [num |-> old.num + 1, index |-> <<node>> \o old.index]

(* __get_term_info(last_sign) and the link *)
Linked ==
  LET old == IF lastSign \in DOMAIN terms THEN terms[lastSign]
                                          ELSE [num |-> 0, index |-> <<>>]
      new == WithNode(old)
  IN  [s \in DOMAIN terms \cup {lastSign} |->
         IF s = lastSign THEN new ELSE terms[s]]

TermsNow == IF Linking THEN Linked ELSE terms

(* Mutant of NewNode: the run starts after the hit.                        *)
NewNode_RunAfter ==
  [obj |-> objNum, fields |-> {}, num |-> 0, off |-> Len(hits) + 1]

(* A zeroed index_node of the current object, whose run of hits is to      *)
(* start at the end of the hit file.                                       *)
NewNode == [obj |-> objNum, fields |-> {}, num |-> 0, off |-> Len(hits)]

(* The first hit of a sign starts its run in the hit file, the others      *)
(* extend it.                                                              *)
IndexInfo ==
  /\ pc = "finish"
  /\ infos # <<>>
  /\ LET info == Head(infos)
         begun == IF node = NoNode \/ Linking THEN NewNode ELSE node
     IN  /\ node' = [begun EXCEPT !.fields = @ \cup {info.field},
                                  !.num = (@ + 1) % HitMod]
         /\ hits' = Append(hits, <<Len(read), info.sign>>)
         /\ lastSign' = info.sign
  /\ terms' = TermsNow
  /\ infos' = Tail(infos)
  /\ UNCHANGED <<read, pc, broken, objNum, briefs, out, flushVars, ok, faulted>>

(* finish_obj returns: the locals are gone. *)
FinishReturns ==
  /\ pc' = "line"
  /\ node' = NoNode
  /\ lastSign' = NoSign
  /\ UNCHANGED <<read, broken, infos, hits, briefs, out, flushVars>>

(* Mutant of NextObj: an object without tokens is not counted.             *)
NextObj_OnlyIndexed == IF node = NoNode THEN objNum ELSE objNum + 1

(* ++_obj_num, also for an object without tokens.                          *)
NextObj == objNum + 1

(* After the loop.                                                         *)
FinishObj ==
  /\ pc = "finish"
  /\ infos = <<>>
  /\ terms' = TermsNow
  /\ objNum' = NextObj
  /\ ok' = ok \cup {Len(read)}
  /\ UNCHANGED faulted
  /\ FinishReturns

(* A new term_info_t cannot be allocated: the node is lost.  A new node    *)
(* cannot be allocated or its hit not written: the nodes before stay.      *)
FinishFails ==
  /\ pc = "finish"
  /\ Fault("finish")
  /\ \/ Linking /\ lastSign \notin DOMAIN terms /\ terms' = terms
     \/ infos # <<>> /\ terms' = TermsNow
  /\ UNCHANGED <<objNum, ok>>
  /\ FinishReturns

-----------------------------------------------------------------------------
(***************************************************************************)
(* End of the input: flush.                                                *)
(***************************************************************************)

TermCompare(a, b) == a < b

EndOfInput ==
  /\ pc = "line"
  /\ todo' = Ascending(DOMAIN terms, TermCompare)
  /\ pc' = "flush"
  /\ UNCHANGED <<read, broken, infos, maker, briefs, out, termFile, ok, faulted>>

(* makeindex() returns before the flush. *)
ReadFails ==
  /\ pc = "line"
  /\ Fault("read")
  /\ pc' = "failed"
  /\ UNCHANGED <<read, broken, infos, maker, briefs, out, flushVars, ok>>

(* Write one list and its term; "index size doesn't match" is an error. *)
FlushTerm ==
  /\ pc = "flush"
  /\ todo # <<>>
  /\ LET s == Head(todo)
     IN  IF terms[s].num # Len(terms[s].index)
           THEN pc' = "failed" /\ UNCHANGED flushVars
           ELSE /\ termFile' = Append(termFile, [sign |-> s,
                                                 num |-> terms[s].num,
                                                 index |-> terms[s].index])
                /\ todo' = Tail(todo)
                /\ UNCHANGED pc
  /\ UNCHANGED <<read, broken, infos, maker, briefs, out, ok, faulted>>

(* The files are closed by the end of the process; whether index and hit   *)
(* files that were not finished can be opened is the library's.            *)
FlushFails ==
  /\ pc = "flush"
  /\ Fault("flush")
  /\ todo # <<>>
  /\ pc' = "failed"
  /\ \E groups, torn \in BOOLEAN :
       out' = [out EXCEPT !.groups = groups, !.tornTerm = torn]
  /\ UNCHANGED <<read, broken, infos, maker, briefs, flushVars, ok>>

(* The writers of a broken maker are NULL, and so is its term file. *)
FlushDone ==
  /\ pc = "flush"
  /\ todo = <<>>
  /\ pc' = IF broken THEN "crashed" ELSE "done"
  /\ UNCHANGED <<read, broken, infos, maker, briefs, out, flushVars, ok, faulted>>

Next ==
  \/ Started \/ InitFails \/ InitBroken
  \/ \E line \in Lines : ReadLine(line) \/ RefuseLine(line)
  \/ WriteBrief \/ BriefFails
  \/ IndexInfo \/ FinishObj \/ FinishFails
  \/ EndOfInput \/ ReadFails
  \/ FlushTerm \/ FlushFails \/ FlushDone

Spec == Init /\ [][Next]_vars

-----------------------------------------------------------------------------
Node == [obj : Nat, fields : SUBSET (0 .. 255), num : Nat, off : Nat]
Term == [num : Nat \ {0}, index : Seq(Node)]
Brief == [id : Nat, type : Int, catalog : Nat, tags : Seq(Int)]
Steps == {"init", "brief", "finish", "flush", "read"}

TypeOK ==
  /\ read \in Seq(Lines)
  /\ pc \in {"init", "line", "brief", "finish", "flush", "done", "failed", "crashed"}
  /\ broken \in BOOLEAN
  /\ node = NoNode \/ node \in Node
  /\ objNum \in Nat
  /\ \A s \in DOMAIN terms : terms[s] \in Term
  /\ briefs \in Seq(Brief)
  /\ out \in [groups : BOOLEAN, hasBriefs : BOOLEAN, torn : BOOLEAN, tornTerm : BOOLEAN]
  /\ ok \subseteq DOMAIN read
  /\ faulted \subseteq Steps

(* Whatever fails, no list goes up: the search merges lists by taking the  *)
(* largest obj_id first.                                                   *)
ListsDescend ==
  \A s \in DOMAIN terms :
    LET list == terms[s].index
    IN  \A i, j \in DOMAIN list : i < j => list[i].obj >= list[j].obj

BetweenLines == pc \in {"line", "flush", "done"}

(* "otherwise obj and brief no longer correspond" (index_maker.cpp:280):   *)
(* between two lines the briefs are those of the lines that were accepted, *)
(* and there are as many objects, whatever lines are refused, whatever     *)
(* briefs cannot be written and whatever objects have no token, as long as *)
(* finish_obj itself does not fail (handle_line, l.225-240).               *)
Aligned ==
  BetweenLines /\ "finish" \notin faulted =>
    /\ objNum = Len(briefs)
    /\ {briefs[i].id : i \in DOMAIN briefs} = ok

(***************************************************************************)
(* The index is the inverse of the lines, through the briefs: object o is  *)
(* in the list of s, once, iff the line of o's brief has the token s, and  *)
(* its node has the fields of that line that hold s.                       *)
(***************************************************************************)
FieldsWith(line, s) ==
  {FieldMap[c.field] : c \in {d \in ToSet(Calls(line)) : s \in Tokens[d.text]}}

Listed(s) == IF s \in DOMAIN terms THEN terms[s].index ELSE <<>>
Signs == UNION {Tokens[text] : text \in DOMAIN Tokens}
LineOf(o) == read[briefs[o + 1].id]

InvertedIndex ==
  BetweenLines /\ "finish" \notin faulted =>
    \A s \in Signs :
      LET list == Listed(s)
          objs == {o \in 0 .. Len(briefs) - 1 : FieldsWith(LineOf(o), s) # {}}
      IN  /\ {list[i].obj : i \in DOMAIN list} = objs
          /\ Len(list) = Cardinality(objs)
          /\ \A i \in DOMAIN list :
               list[i].fields = FieldsWith(LineOf(list[i].obj), s)

(* A node's run of hits holds the hits of its object and sign and no other *)
(* one, from its offset on, and num counts them in 11 bits: an object with *)
(* 2048 hits of a term counts none of them (struct.h:23).                  *)
HitRuns ==
  "finish" \notin faulted =>
    \A s \in DOMAIN terms : \A i \in DOMAIN terms[s].index :
      LET n == terms[s].index[i]
          run == {h \in DOMAIN hits : hits[h] = <<briefs[n.obj + 1].id, s>>}
      IN  /\ run = n.off + 1 .. n.off + Cardinality(run)
          /\ n.num = Cardinality(run) % HitMod
=============================================================================
