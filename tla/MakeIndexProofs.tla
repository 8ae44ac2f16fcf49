--------------------------- MODULE MakeIndexProofs ---------------------------
(***************************************************************************)
(* Proofs about the index builder: whatever the input and whatever fails,  *)
(* the index is the inverse of the accepted lines (InvertedIndex), and its *)
(* runs of hits are those of the terms (HitRuns).                          *)
(*                                                                         *)
(* The inductive invariant says what holds in the middle of an object: the *)
(* infos are handled in the order of the sort, so that a sign that is      *)
(* behind us does not come back, the lists have the finished objects and   *)
(* the finished signs of the current one, and its node has what was        *)
(* handled of last_sign.                                                   *)
(***************************************************************************)
EXTENDS MakeIndex, DataLemmas, SequenceTheorems

Info == [sign : Nat \ {0}, field : 0 .. 255, no : Nat]

(* The infos of the line that was read last, and those that finish_obj has *)
(* behind it.                                                              *)
LineInfos == InfoSet(Calls(read[Len(read)]))
Handled == LineInfos \ ToSet(infos)

FieldsOf(S, s) == {d.field : d \in {e \in S : e.sign = s}}

TypeInv ==
  /\ TypeOK
  /\ infos \in Seq(Info)
  /\ hits \in Seq(Nat \X Nat)
  /\ lastSign \in Nat
  /\ terms = [s \in DOMAIN terms |-> terms[s]]
  /\ DOMAIN terms \subseteq Nat \ {0}
  /\ IsFiniteSet(DOMAIN terms)
  /\ todo \in Seq(DOMAIN terms)
  /\ pc # "finish" => node = NoNode
  /\ node = NoNode <=> lastSign = NoSign
  /\ pc = "init" => read = <<>>
  /\ pc \in {"brief", "finish"} => read # <<>>

(* A list is as long as it was counted; what ListsDescend rests on. *)
NumMatches ==
  \A s \in DOMAIN terms : terms[s].num = Len(terms[s].index)

ListsInv ==
  /\ NumMatches
  /\ ListsDescend
  /\ node # NoNode => node.obj = objNum
  /\ \A s \in DOMAIN terms : \A i \in DOMAIN terms[s].index :
       terms[s].index[i].obj <= objNum

(* What was handled comes before what was not. *)
OrderInv ==
  pc \in {"brief", "finish"} =>
    /\ LineInfos \subseteq Info
    /\ ToSet(infos) \subseteq LineInfos
    /\ \A i, j \in DOMAIN infos : i < j => InfoLess(infos[i], infos[j])
    /\ \A d \in Handled, e \in ToSet(infos) : InfoLess(d, e)
    /\ node = NoNode => Handled = {}
    /\ node # NoNode =>
         /\ \E d \in Handled : d.sign = lastSign
         /\ \A d \in Handled : d.sign <= lastSign
         /\ node.fields = FieldsOf(Handled, lastSign)

BriefsInv ==
  /\ \A i \in DOMAIN briefs : /\ briefs[i].id \in DOMAIN read
                              /\ \E n \in DOMAIN read : briefs[i] = BriefOf(n)
  /\ \A i, j \in DOMAIN briefs : i < j => briefs[i].id < briefs[j].id
  /\ pc = "brief" => \A i \in DOMAIN briefs : briefs[i].id < Len(read)
  /\ pc = "finish" => briefs # <<>> /\ briefs[Len(briefs)].id = Len(read)

Clean == "finish" \notin faulted

CountInv ==
  Clean =>
    /\ Len(briefs) = IF pc = "finish" THEN objNum + 1 ELSE objNum
    /\ ok = {briefs[i].id : i \in 1 .. objNum}

(* The fields that the list of s should have of each object: the signs of  *)
(* the current object are linked up to the one before last_sign.           *)
Haves(s) ==
  [o \in 0 .. objNum |->
     IF o < objNum THEN FieldsWith(LineOf(o), s)
     ELSE IF pc = "finish" /\ s # lastSign THEN FieldsOf(Handled, s) ELSE {}]

Matches(list, have) ==
  /\ \A o \in DOMAIN have : have[o] # {} => \E i \in DOMAIN list : list[i].obj = o
  /\ \A i \in DOMAIN list : /\ list[i].obj \in DOMAIN have
                            /\ list[i].fields = have[list[i].obj]
                            /\ list[i].fields # {}
  /\ \A i, j \in DOMAIN list : i < j => list[i].obj > list[j].obj

IndexInv == Clean => \A s \in Nat \ {0} : Matches(Listed(s), Haves(s))

Run(file, id, s) == {h \in DOMAIN file : file[h] = <<id, s>>}

HitsInv ==
  Clean =>
    /\ \A h \in DOMAIN hits :
         /\ hits[h][1] <= Len(read)
         /\ pc = "brief" => hits[h][1] < Len(read)
         /\ pc = "finish" /\ hits[h][1] = Len(read) => hits[h][2] <= lastSign
    /\ node # NoNode =>
         /\ node.off < Len(hits)
         /\ Run(hits, Len(read), lastSign) = node.off + 1 .. Len(hits)
         /\ node.num = (Len(hits) - node.off) % HitMod
    /\ HitRuns

(* A maker without fields makes nothing, and nothing is written before the *)
(* flush.                                                                  *)
BrokenInv ==
  /\ broken \/ pc = "init" => infos = <<>> /\ terms = <<>> /\ node = NoNode
  /\ pc \notin {"flush", "done", "failed", "crashed"} => termFile = <<>>
  /\ pc = "failed" /\ termFile # <<>> => "flush" \in faulted
  /\ broken => termFile = <<>>

(* The records of the term file are the terms, in rising order of their    *)
(* signs, and those still to be written come after them.                   *)
TermFileOk ==
  /\ \A i, j \in DOMAIN termFile : i < j => termFile[i].sign < termFile[j].sign
  /\ \A i \in DOMAIN termFile :
       /\ termFile[i].sign \in DOMAIN terms
       /\ termFile[i].num = terms[termFile[i].sign].num
       /\ termFile[i].index = terms[termFile[i].sign].index
  /\ pc = "done" => \A s \in DOMAIN terms : \E i \in DOMAIN termFile : termFile[i].sign = s

FlushInv ==
  /\ TermFileOk
  /\ termFile \in Seq([sign : Nat, num : Nat, index : Seq(Node)])
  /\ \A i, j \in DOMAIN todo : i < j => todo[i] < todo[j]
  /\ \A i \in DOMAIN termFile, j \in DOMAIN todo : termFile[i].sign < todo[j]
  /\ pc \in {"flush", "done"} =>
       \A s \in DOMAIN terms : \/ \E i \in DOMAIN termFile : termFile[i].sign = s
                               \/ s \in ToSet(todo)
  /\ pc = "done" => todo = <<>>

IInv ==
  /\ TypeInv
  /\ ListsInv
  /\ OrderInv
  /\ BriefsInv
  /\ CountInv
  /\ IndexInv
  /\ HitsInv
  /\ BrokenInv
  /\ FlushInv

-----------------------------------------------------------------------------
(***************************************************************************)
(* What the operators of MakeIndex return                                  *)
(***************************************************************************)
FieldNames == {"catalog", "tag", "description"}
Call == [field : FieldNames, text : DOMAIN Tokens]

(* The last line for a name, in tag_map. *)
LEMMA LastOfProperties ==
  ASSUME NEW T, T \subseteq Nat, T # {}, NEW n \in Nat, \A k \in T : k <= n
  PROVE  LastOf(T) \in T /\ \A k \in T : k <= LastOf(T)
<1>1. \E m \in T : \A k \in T : k <= m
  BY GreatestNat
<1>2. QED
  BY <1>1 DEF LastOf

(* tag_map has an id of the file for each of its names. *)
LEMMA TagMapValues ==
  ASSUME NEW Names, NEW lines \in Seq([kind : STRING, name : Names, id : Int])
  PROVE  \A name \in DOMAIN tag_map(lines) : tag_map(lines)[name] \in Int
<1> TAKE name \in DOMAIN tag_map(lines)
<1> DEFINE T == {i \in Parsed(lines) : lines[i].name = name}
<1>1. Len(lines) \in Nat /\ DOMAIN lines = 1 .. Len(lines)
  OBVIOUS
<1>2. T \subseteq Nat /\ T \subseteq DOMAIN lines /\ \A k \in T : k <= Len(lines)
  BY <1>1 DEF Parsed
<1>3. T # {}
  BY DEF tag_map
<1>4. LastOf(T) \in DOMAIN lines
  BY <1>1, <1>2, <1>3, LastOfProperties
<1>5. tag_map(lines)[name] = lines[LastOf(T)].id
  BY DEF tag_map
<1> DEFINE Entries == [kind : STRING, name : Names, id : Int]
<1>6. \A e \in Entries : e.id \in Int
  OBVIOUS
<1>7. \A i \in DOMAIN lines : lines[i].id \in Int
  <2> HIDE DEF Entries
  <2>1. lines \in Seq(Entries)
    BY DEF Entries
  <2>2. \A i \in DOMAIN lines : lines[i] \in Entries
    BY <1>1, <2>1
  <2>3. QED
    BY <1>6, <2>2
<1>8. QED
  BY <1>4, <1>5, <1>7

LEMMA FieldMapValues ==
  \A name \in DOMAIN FieldMap : FieldMap[name] \in 0 .. 255
<1>1. FieldConf \in Seq([kind : STRING, name : STRING, id : Int])
  BY BuilderInput
<1>2. \A name \in DOMAIN tag_map(FieldConf) : tag_map(FieldConf)[name] \in Int
  BY <1>1, TagMapValues
<1>3. \A name \in DOMAIN tag_map(FieldConf) :
        load_field_conf(FieldConf)[name] = tag_map(FieldConf)[name] % 256
  BY DEF load_field_conf
<1>4. \A i \in Int : i % 256 \in 0 .. 255
  OBVIOUS
<1>5. DOMAIN load_field_conf(FieldConf) = DOMAIN tag_map(FieldConf)
  BY DEF load_field_conf
<1>6. \A name \in DOMAIN load_field_conf(FieldConf) :
        load_field_conf(FieldConf)[name] \in 0 .. 255
  BY <1>2, <1>3, <1>4, <1>5
<1>7. CASE broken
  <2>1. DOMAIN FieldMap = {}
    BY <1>7 DEF FieldMap
  <2>2. QED
    BY <2>1
<1>8. CASE ~broken
  BY <1>6, <1>8 DEF FieldMap
<1>9. QED
  BY <1>7, <1>8

LEMMA CallsType ==
  ASSUME NEW line \in Lines
  PROVE  Calls(line) \in Seq(Call)
<1> DEFINE call(field, texts) ==
             [i \in DOMAIN texts |-> [field |-> field, text |-> texts[i]]]
<1>1. ASSUME NEW texts \in Seq(DOMAIN Tokens), NEW field \in FieldNames
      PROVE  call(field, texts) \in Seq(Call)
  <2>1. DOMAIN texts = 1 .. Len(texts) /\ Len(texts) \in Nat
    OBVIOUS
  <2>2. \A i \in 1 .. Len(texts) : texts[i] \in DOMAIN Tokens
    OBVIOUS
  <2>3. call(field, texts) \in [1 .. Len(texts) -> Call]
    BY <2>1, <2>2 DEF Call
  <2>4. QED
    BY <2>1, <2>3
<1>2. <<line.f, line.s>> \in Seq(DOMAIN Tokens)
  <2>1. line.f \in DOMAIN Tokens /\ line.s \in DOMAIN Tokens
    BY BuilderInput
  <2>2. QED
    BY <2>1
<1>3. line.tag \in Seq(DOMAIN Tokens) /\ line.desc \in Seq(DOMAIN Tokens)
  BY BuilderInput
<1> HIDE DEF call
<1>4. /\ call("catalog", <<line.f, line.s>>) \in Seq(Call)
      /\ call("tag", line.tag) \in Seq(Call)
      /\ call("description", line.desc) \in Seq(Call)
  <2> DEFINE T == Seq(DOMAIN Tokens)
             U == Seq(Call)
  <2> HIDE DEF T, U
  <2>0. \A texts \in T, field \in FieldNames : call(field, texts) \in U
    BY <1>1 DEF T, U
  <2>1. <<line.f, line.s>> \in T /\ line.tag \in T /\ line.desc \in T
    BY <1>2, <1>3 DEF T
  <2>2. call("catalog", <<line.f, line.s>>) \in U
    BY <2>0, <2>1 DEF FieldNames
  <2>3. call("tag", line.tag) \in U /\ call("description", line.desc) \in U
    BY <2>0, <2>1 DEF FieldNames
  <2>4. QED
    BY <2>2, <2>3 DEF U
<1> DEFINE first == IF HasCatalog(line) THEN call("catalog", <<line.f, line.s>>) ELSE <<>>
<1>5. first \in Seq(Call)
  BY <1>4
<1>6. Calls(line) = first \o call("tag", line.tag) \o call("description", line.desc)
  BY DEF Calls, call
<1> HIDE DEF first
<1>7. QED
  BY <1>4, <1>5, <1>6, ConcatProperties

(* Calls that add_field has accepted. *)
Accepted(calls) ==
  /\ calls \in Seq(Call)
  /\ \A no \in DOMAIN calls : calls[no].field \in DOMAIN FieldMap

LEMMA InfoSetMembers ==
  ASSUME NEW calls
  PROVE  \A d : d \in InfoSet(calls) <=>
           \E no \in DOMAIN calls : \E s \in Tokens[calls[no].text] :
             d = [sign |-> s, field |-> FieldMap[calls[no].field], no |-> no]
  BY DEF InfoSet

LEMMA InfoSetType ==
  ASSUME NEW calls, Accepted(calls)
  PROVE  InfoSet(calls) \subseteq Info /\ IsFiniteSet(InfoSet(calls))
<1>1. DOMAIN calls = 1 .. Len(calls) /\ Len(calls) \in Nat
  BY DEF Accepted
<1>2. \A no \in DOMAIN calls : calls[no] \in Call
  BY DEF Accepted
<1>3. \A no \in DOMAIN calls : calls[no].text \in DOMAIN Tokens
  BY <1>2 DEF Call
<1>4. \A no \in DOMAIN calls :
        /\ Tokens[calls[no].text] \subseteq Nat \ {0}
        /\ IsFiniteSet(Tokens[calls[no].text])
  BY <1>3, BuilderInput
<1>5. \A no \in DOMAIN calls : FieldMap[calls[no].field] \in 0 .. 255
  BY FieldMapValues DEF Accepted
<1>6. InfoSet(calls) \subseteq Info
  <2> SUFFICES ASSUME NEW d \in InfoSet(calls)
               PROVE  d \in Info
    OBVIOUS
  <2>0. PICK no \in DOMAIN calls : \E s \in Tokens[calls[no].text] :
          d = [sign |-> s, field |-> FieldMap[calls[no].field], no |-> no]
    BY InfoSetMembers
  <2>1. PICK s \in Tokens[calls[no].text] :
          d = [sign |-> s, field |-> FieldMap[calls[no].field], no |-> no]
    BY <2>0
  <2> DEFINE field == FieldMap[calls[no].field]
  <2>2. no \in Nat /\ s \in Nat \ {0} /\ field \in 0 .. 255
    BY <1>1, <1>4, <1>5
  <2> HIDE DEF field
  <2>3. [sign |-> s, field |-> field, no |-> no] \in Info
    BY <2>2 DEF Info
  <2>4. QED
    BY <2>1, <2>3 DEF field
<1>7. IsFiniteSet(InfoSet(calls))
  <2> DEFINE of(no) == {[sign |-> s, field |-> FieldMap[calls[no].field], no |-> no] :
                          s \in Tokens[calls[no].text]}
             family == [no \in DOMAIN calls |-> of(no)]
  <2>1. \A no \in DOMAIN calls : IsFiniteSet(of(no))
    <3> TAKE no \in DOMAIN calls
    <3> DEFINE g == [s \in Tokens[calls[no].text] |->
                       [sign |-> s, field |-> FieldMap[calls[no].field], no |-> no]]
    <3>1. IsFiniteSet({g[s] : s \in DOMAIN g})
      BY <1>4, FiniteImage
    <3>2. of(no) = {g[s] : s \in DOMAIN g}
      OBVIOUS
    <3>3. QED
      BY <3>1, <3>2
  <2> HIDE DEF of
  <2>2. IsFiniteSet({family[no] : no \in DOMAIN family})
    <3>1. DOMAIN family = 1 .. Len(calls) /\ IsFiniteSet(1 .. Len(calls))
      BY <1>1, FS_Interval
    <3>2. QED
      BY <3>1, FiniteImage
  <2>3. IsFiniteSet(UNION {family[no] : no \in DOMAIN family})
    BY <2>1, <2>2, FS_UNION
  <2>4. InfoSet(calls) = UNION {of(no) : no \in DOMAIN calls}
    BY DEF InfoSet, of
  <2>5. {family[no] : no \in DOMAIN family} = {of(no) : no \in DOMAIN calls}
    OBVIOUS
  <2>6. QED
    BY <2>3, <2>4, <2>5
<1>8. QED
  BY <1>6, <1>7

(* index_compare orders the infos of an object strictly. *)
LEMMA InfoOrder ==
  ASSUME NEW S, S \subseteq Info
  PROVE  /\ StrictOrder(S, Ordering(S, InfoLess))
         /\ \A a, b \in S : <<a, b>> \in Ordering(S, InfoLess) <=> InfoLess(a, b)
<1> DEFINE R == Ordering(S, InfoLess)
<1>1. \A a, b \in S : <<a, b>> \in R <=> InfoLess(a, b)
  BY DEF Ordering
<1> HIDE DEF R
<1>2. \A a \in S : a \in Info
  OBVIOUS
<1>3. \A a \in Info : a.sign \in Nat /\ a.field \in Nat /\ a.no \in Nat
  BY DEF Info
<1>4. \A a, b \in Info : a.sign = b.sign /\ a.field = b.field /\ a.no = b.no => a = b
  BY DEF Info
<1>5. \A x \in S : <<x, x>> \notin R
  BY <1>1, <1>2, <1>3 DEF InfoLess
<1>6. \A x, y \in S : x # y => <<x, y>> \in R \/ <<y, x>> \in R
  BY <1>1, <1>2, <1>3, <1>4 DEF InfoLess
<1>7. \A x, y, z \in S : <<x, y>> \in R /\ <<y, z>> \in R => <<x, z>> \in R
  BY <1>1, <1>2, <1>3 DEF InfoLess
<1>8. QED
  BY <1>1, <1>5, <1>6, <1>7 DEF R, StrictOrder

(* The sorted buffer has each info of the accepted calls, in order. *)
LEMMA InfosProperties ==
  ASSUME NEW calls, Accepted(calls)
  PROVE  /\ Infos(calls) \in Seq(Info)
         /\ ToSet(Infos(calls)) = InfoSet(calls)
         /\ \A i, j \in DOMAIN Infos(calls) :
              i < j => InfoLess(Infos(calls)[i], Infos(calls)[j])
<1> DEFINE S == InfoSet(calls)
           R == Ordering(S, InfoLess)
           n == Cardinality(S)
<1>1. S \subseteq Info /\ IsFiniteSet(S)
  BY InfoSetType
<1>2. Infos(calls) = InOrder(S, R)
  BY DEF Infos, StartObj, Ascending
<1>3. /\ StrictOrder(S, R)
      /\ \A a, b \in S : <<a, b>> \in R <=> InfoLess(a, b)
  BY <1>1, InfoOrder
<1> HIDE DEF S, R
<1>4. /\ n \in Nat
      /\ Infos(calls) \in [1 .. n -> S]
      /\ \A x \in S : \E k \in 1 .. n : Infos(calls)[k] = x
      /\ \A i, j \in 1 .. n : i < j => <<Infos(calls)[i], Infos(calls)[j]>> \in R
  BY <1>1, <1>2, <1>3, InOrderProperties
<1> HIDE DEF n
<1>5. DOMAIN Infos(calls) = 1 .. n /\ \A k \in 1 .. n : Infos(calls)[k] \in S
  BY <1>4
<1>6. Infos(calls) \in Seq(Info)
  BY <1>1, <1>4
<1>7. ToSet(Infos(calls)) = S
  BY <1>4, <1>5 DEF ToSet
<1>8. \A i, j \in 1 .. n : i < j => InfoLess(Infos(calls)[i], Infos(calls)[j])
  BY <1>3, <1>4, <1>5
<1>9. QED
  BY <1>5, <1>6, <1>7, <1>8 DEF S

LEMMA FieldsOfMembers ==
  ASSUME NEW S, NEW s, NEW v
  PROVE  v \in FieldsOf(S, s) <=> \E d \in S : d.sign = s /\ v = d.field
  BY DEF FieldsOf

(* The infos of a line, by field, are what FieldsWith says of the line. *)
LEMMA FieldsOfLine ==
  ASSUME NEW line, NEW s
  PROVE  FieldsOf(InfoSet(Calls(line)), s) = FieldsWith(line, s)
<1> DEFINE calls == Calls(line)
<1> HIDE DEF calls
<1>1. ToSet(calls) = {calls[no] : no \in DOMAIN calls}
  BY DEF ToSet
<1>2. ASSUME NEW v \in FieldsOf(InfoSet(calls), s)
      PROVE  \E no \in DOMAIN calls : s \in Tokens[calls[no].text] /\ v = FieldMap[calls[no].field]
  <2>1. PICK d \in InfoSet(calls) : d.sign = s /\ v = d.field
    BY FieldsOfMembers
  <2>2. PICK no \in DOMAIN calls : \E t \in Tokens[calls[no].text] :
          d = [sign |-> t, field |-> FieldMap[calls[no].field], no |-> no]
    BY InfoSetMembers
  <2>3. QED
    BY <2>1, <2>2
<1>3. ASSUME NEW no \in DOMAIN calls, s \in Tokens[calls[no].text]
      PROVE  FieldMap[calls[no].field] \in FieldsOf(InfoSet(calls), s)
  <2> DEFINE d == [sign |-> s, field |-> FieldMap[calls[no].field], no |-> no]
  <2>1. d \in InfoSet(calls)
    BY <1>3, InfoSetMembers
  <2>2. d.sign = s /\ d.field = FieldMap[calls[no].field]
    OBVIOUS
  <2> HIDE DEF d
  <2>3. QED
    BY <2>1, <2>2 DEF FieldsOf
<1> DEFINE W == {FieldMap[c.field] : c \in {d \in ToSet(calls) : s \in Tokens[d.text]}}
<1>4. \A v : v \in W <=> \E no \in DOMAIN calls :
                            s \in Tokens[calls[no].text] /\ v = FieldMap[calls[no].field]
  BY <1>1
<1> HIDE DEF W
<1>5. FieldsOf(InfoSet(calls), s) = W
  <2>1. FieldsOf(InfoSet(calls), s) \subseteq W
    BY <1>2, <1>4
  <2>2. W \subseteq FieldsOf(InfoSet(calls), s)
    BY <1>3, <1>4
  <2>3. QED
    BY <2>1, <2>2
<1>6. QED
  BY <1>5 DEF W, calls, FieldsWith

(* A brief has its types, known tags or none. *)
LEMMA BriefType ==
  ASSUME TypeInv, NEW n \in DOMAIN read
  PROVE  BriefOf(n) \in Brief
<1> DEFINE line == read[n]
<1>1. n \in Nat /\ line \in Lines
  BY DEF TypeInv, TypeOK
<1>2. line.type \in Int /\ catalog_id(line) \in Int /\ line.tag \in Seq(DOMAIN Tokens)
  BY <1>1, BuilderInput DEF catalog_id
<1>3. TagIds(line) \in Seq(Int)
  <2> DEFINE known == {i \in DOMAIN line.tag : line.tag[i] \in DOMAIN tag_map(TagFile)}
             ids == [i \in known |-> get_id(TagFile, line.tag[i])]
  <2>1. DOMAIN line.tag = 1 .. Len(line.tag) /\ Len(line.tag) \in Nat
    BY <1>2
  <2>2. known \subseteq Nat /\ IsFiniteSet(known)
    <3>1. known \in SUBSET DOMAIN line.tag
      OBVIOUS
    <3>2. IsFiniteSet(DOMAIN line.tag) /\ DOMAIN line.tag \subseteq Nat
      BY <2>1, FS_Interval
    <3> HIDE DEF known
    <3>3. QED
      BY <3>1, <3>2, FS_Subset
  <2>3. TagFile \in Seq([kind : STRING, name : STRING, id : Int])
    BY BuilderInput
  <2>4. \A name \in DOMAIN tag_map(TagFile) : tag_map(TagFile)[name] \in Int
    BY <2>3, TagMapValues
  <2>5. \A i \in known : get_id(TagFile, line.tag[i]) \in Int
    BY <2>4 DEF get_id
  <2>6. ids \in [known -> Int]
    BY <2>5
  <2>7. TagIds(line) = ValuesInOrder(ids)
    BY DEF TagIds
  <2> HIDE DEF ids, known
  <2>8. QED
    BY <2>2, <2>6, <2>7, ValuesInOrderProperties
<1>4. (IF HasCatalog(line) THEN catalog_id(line) ELSE 0) \in Nat
  BY <1>2 DEF HasCatalog
<1>5. QED
  BY <1>1, <1>2, <1>3, <1>4 DEF BriefOf, Brief

LEMMA NextInfos ==
  ASSUME NEW line \in Lines, ReadLine(line) \/ RefuseLine(line)
  PROVE  \E calls : Accepted(calls) /\ infos' = Infos(calls)
<1>1. Calls(line) \in Seq(Call)
  BY CallsType
<1>2. CASE ReadLine(line)
  BY <1>1, <1>2 DEF ReadLine, Accepted
<1>3. CASE RefuseLine(line)
  <2>1. PICK k \in 0 .. Len(Calls(line)) :
          LET calls == SubSeq(Calls(line), 1, k)
          IN  /\ \A no \in 1 .. k : calls[no].field \in DOMAIN FieldMap
              /\ infos' = Infos(calls)
    BY <1>3 DEF RefuseLine
  <2> DEFINE calls == SubSeq(Calls(line), 1, k)
  <2>2. k \in Int /\ \A i \in 1 .. k : Calls(line)[i] \in Call
    <3> HIDE DEF Call
    <3>1. QED
      BY <1>1
  <2>3. calls \in Seq(Call) /\ Len(calls) = k
    BY <2>2, SubSeqProperties
  <2>4. DOMAIN calls = 1 .. k
    BY <2>3
  <2>5. QED
    BY <2>1, <2>3, <2>4 DEF Accepted
<1>4. QED
  BY <1>2, <1>3

LEMMA Prepended ==
  ASSUME NEW S, NEW x \in S, NEW list \in Seq(S)
  PROVE  LET new == <<x>> \o list
         IN  /\ new \in Seq(S)
             /\ Len(new) = Len(list) + 1
             /\ DOMAIN new = 1 .. Len(list) + 1
             /\ new[1] = x
             /\ \A i \in DOMAIN new : i # 1 => i - 1 \in DOMAIN list /\ new[i] = list[i - 1]
             /\ \A i \in DOMAIN list : new[i + 1] = list[i]
<1>1. <<x>> \in Seq(S) /\ Len(<<x>>) = 1 /\ <<x>>[1] = x
  OBVIOUS
<1> DEFINE one == <<x>>
<1> HIDE DEF one
<1>2. one \in Seq(S) /\ Len(one) = 1 /\ one[1] = x
  BY <1>1 DEF one
<1>3. /\ one \o list \in Seq(S)
      /\ Len(one \o list) = Len(list) + 1
      /\ \A i \in 1 .. Len(list) + 1 :
           (one \o list)[i] = IF i <= 1 THEN one[i] ELSE list[i - 1]
  <2>1. Len(list) \in Nat
    OBVIOUS
  <2>2. /\ one \o list \in Seq(S)
        /\ Len(one \o list) = Len(one) + Len(list)
        /\ \A i \in 1 .. Len(one) + Len(list) :
             (one \o list)[i] = IF i <= Len(one) THEN one[i] ELSE list[i - Len(one)]
    BY <1>2, ConcatProperties
  <2>3. QED
    BY <1>2, <2>1, <2>2
<1>4. Len(list) \in Nat /\ DOMAIN list = 1 .. Len(list)
  OBVIOUS
<1>5. DOMAIN (one \o list) = 1 .. Len(list) + 1
  BY <1>3, <1>4
<1>6. QED
  BY <1>2, <1>3, <1>4, <1>5 DEF one

OldNum == IF lastSign \in DOMAIN terms THEN terms[lastSign].num ELSE 0
LinkedTerm == [num |-> OldNum + 1, index |-> <<node>> \o Listed(lastSign)]

(* The link changes the term of last_sign and no other. *)
LEMMA TermsNowIs ==
  /\ TermsNow = IF Linking THEN [s \in DOMAIN terms \cup {lastSign} |->
                                    IF s = lastSign THEN LinkedTerm ELSE terms[s]]
                           ELSE terms
<1> DEFINE old == IF lastSign \in DOMAIN terms THEN terms[lastSign]
                                               ELSE [num |-> 0, index |-> <<>>]
<1>1. old.num = OldNum /\ old.index = Listed(lastSign)
  BY DEF OldNum, Listed
<1>2. WithNode(old) = [num |-> old.num + 1, index |-> <<node>> \o old.index]
  BY DEF WithNode
<1>3. WithNode(old) = LinkedTerm
  BY <1>1, <1>2 DEF LinkedTerm
<1>4. Linked = [s \in DOMAIN terms \cup {lastSign} |->
                  IF s = lastSign THEN WithNode(old) ELSE terms[s]]
  BY DEF Linked
<1>5. QED
  BY <1>3, <1>4 DEF TermsNow

TermsType(f) ==
  /\ f = [s \in DOMAIN f |-> f[s]]
  /\ DOMAIN f \subseteq Nat \ {0}
  /\ IsFiniteSet(DOMAIN f)
  /\ \A s \in DOMAIN f : f[s] \in Term

LEMMA ListedType ==
  ASSUME TypeInv, NEW s
  PROVE  /\ Listed(s) \in Seq(Node)
         /\ Len(Listed(s)) \in Nat
         /\ DOMAIN Listed(s) = 1 .. Len(Listed(s))
         /\ \A i \in DOMAIN Listed(s) : Listed(s)[i] \in Node
<1>1. Listed(s) \in Seq(Node)
  <2>1. CASE s \in DOMAIN terms
    <3>1. terms[s] \in Term
      BY <2>1 DEF TypeInv, TypeOK
    <3>2. QED
      BY <2>1, <3>1 DEF Term, Listed
  <2>2. CASE s \notin DOMAIN terms
    BY <2>2 DEF Listed
  <2>3. QED
    BY <2>1, <2>2
<1> HIDE DEF Listed
<1> DEFINE S == Node
<1> HIDE DEF S
<1>2. Listed(s) \in Seq(S)
  BY <1>1 DEF S
<1>3. Len(Listed(s)) \in Nat /\ DOMAIN Listed(s) = 1 .. Len(Listed(s))
  BY <1>2
<1>4. \A i \in DOMAIN Listed(s) : Listed(s)[i] \in S
  BY <1>2, <1>3
<1>5. QED
  BY <1>1, <1>3, <1>4 DEF S

LEMMA TermsNowType ==
  ASSUME TypeInv
  PROVE  /\ TermsType(TermsNow)
         /\ DOMAIN terms \subseteq DOMAIN TermsNow
<1>1. TermsType(terms)
  BY DEF TypeInv, TypeOK, TermsType
<1>2. CASE ~Linking
  BY <1>1, <1>2, TermsNowIs
<1>3. CASE Linking
  <2>1. node \in Node /\ lastSign \in Nat \ {0}
    BY <1>3 DEF Linking, TypeInv, TypeOK, NoSign
  <2>2. <<node>> \o Listed(lastSign) \in Seq(Node)
    BY <2>1, ListedType, Prepended
  <2>3. OldNum \in Nat
    BY <1>1 DEF OldNum, TermsType, Term
  <2>4. LinkedTerm \in Term
    BY <2>2, <2>3 DEF LinkedTerm, Term
  <2>5. TermsNow = [s \in DOMAIN terms \cup {lastSign} |->
                      IF s = lastSign THEN LinkedTerm ELSE terms[s]]
    BY <1>3, TermsNowIs
  <2>6. IsFiniteSet(DOMAIN terms \cup {lastSign})
    BY <1>1, FS_AddElement DEF TermsType
  <2>7. DOMAIN TermsNow = DOMAIN terms \cup {lastSign}
    BY <2>5
  <2>8. \A s \in DOMAIN TermsNow : TermsNow[s] \in Term
    BY <1>1, <2>4, <2>5 DEF TermsType
  <2>9. TermsNow = [s \in DOMAIN TermsNow |-> TermsNow[s]]
    BY <2>5
  <2>10. QED
    BY <1>1, <2>1, <2>6, <2>7, <2>8, <2>9 DEF TermsType
<1>4. QED
  BY <1>2, <1>3

(* flush has every sign of _term_map to write, in rising order. *)
LEMMA SignsInOrder ==
  ASSUME NEW S, S \subseteq Nat, IsFiniteSet(S)
  PROVE  LET signs == Ascending(S, TermCompare)
         IN  /\ signs \in Seq(S)
             /\ ToSet(signs) = S
             /\ \A i, j \in DOMAIN signs : i < j => signs[i] < signs[j]
<1> DEFINE R == Ordering(S, TermCompare)
           n == Cardinality(S)
<1>1. /\ StrictOrder(S, R)
      /\ \A i, j \in S : <<i, j>> \in R <=> i < j
  <2>1. \A i, j \in S : <<i, j>> \in R <=> i < j
    BY DEF Ordering, TermCompare
  <2>2. \A i \in S : i \in Int
    OBVIOUS
  <2> HIDE DEF R
  <2>3. QED
    BY <2>1, <2>2 DEF StrictOrder
<1>2. Ascending(S, TermCompare) = InOrder(S, R)
  BY DEF Ascending
<1> HIDE DEF R
<1>3. /\ n \in Nat
      /\ InOrder(S, R) \in [1 .. n -> S]
      /\ \A x \in S : \E k \in 1 .. n : InOrder(S, R)[k] = x
      /\ \A i, j \in 1 .. n : i < j => <<InOrder(S, R)[i], InOrder(S, R)[j]>> \in R
  BY <1>1, InOrderProperties
<1> DEFINE signs == InOrder(S, R)
<1> HIDE DEF n, signs
<1>4. DOMAIN signs = 1 .. n /\ \A k \in 1 .. n : signs[k] \in S
  BY <1>3 DEF signs
<1>5. signs \in Seq(S)
  BY <1>3 DEF signs
<1>6. ToSet(signs) = S
  BY <1>3, <1>4 DEF ToSet, signs
<1>7. \A i, j \in DOMAIN signs : i < j => signs[i] < signs[j]
  <2>1. \A i, j \in 1 .. n : i < j => <<signs[i], signs[j]>> \in R
    BY <1>3 DEF signs
  <2>2. QED
    BY <1>1, <1>4, <2>1
<1>8. QED
  BY <1>2, <1>5, <1>6, <1>7 DEF signs

-----------------------------------------------------------------------------
(***************************************************************************)
(* Types                                                                   *)
(***************************************************************************)
LEMMA TypeInit ==
  Init => TypeInv
<1> SUFFICES ASSUME Init
             PROVE  TypeInv
  OBVIOUS
<1>1. TypeOK
  <2>1. /\ read \in Seq(Lines) /\ briefs \in Seq(Brief)
        /\ \A s \in DOMAIN terms : terms[s] \in Term
        /\ out \in [groups : BOOLEAN, hasBriefs : BOOLEAN, torn : BOOLEAN, tornTerm : BOOLEAN]
    BY DEF Init
  <2>2. QED
    BY <2>1 DEF Init, TypeOK
<1>2. DOMAIN terms = {} /\ IsFiniteSet(DOMAIN terms)
  BY FS_EmptySet DEF Init
<1>3. QED
  BY <1>1, <1>2 DEF Init, TypeInv, NoSign

LEMMA TypeStep ==
  ASSUME TypeInv, [Next]_vars
  PROVE  TypeInv'
<1>0. /\ TypeOK
      /\ infos \in Seq(Info)
      /\ hits \in Seq(Nat \X Nat)
      /\ lastSign \in Nat
      /\ TermsType(terms)
      /\ todo \in Seq(DOMAIN terms)
      /\ pc # "finish" => node = NoNode
      /\ node = NoNode <=> lastSign = NoSign
      /\ pc = "init" => read = <<>>
      /\ pc \in {"brief", "finish"} => read # <<>>
  BY DEF TypeInv, TypeOK, TermsType
<1>1. CASE Started
  BY <1>0, <1>1 DEF Started, TypeInv, TypeOK, maker, flushVars
<1>2. CASE InitFails
  <2>1. out' \in [groups : BOOLEAN, hasBriefs : BOOLEAN, torn : BOOLEAN, tornTerm : BOOLEAN]
    BY <1>2 DEF InitFails, TypeInv, TypeOK
  <2>2. faulted' \subseteq Steps
    BY <1>2 DEF InitFails, Fault, Steps, TypeInv, TypeOK
  <2>3. /\ pc = "init" /\ pc' = "failed"
        /\ UNCHANGED <<read, broken, infos, maker, briefs, flushVars, ok>>
    BY <1>2 DEF InitFails
  <2>4. QED
    BY <1>0, <2>1, <2>2, <2>3 DEF TypeInv, TypeOK, TermsType, maker, flushVars
<1>3. CASE InitBroken
  BY <1>0, <1>3 DEF InitBroken, Fault, Steps, TypeInv, TypeOK, maker, flushVars
<1>4. ASSUME NEW line \in Lines, ReadLine(line) \/ RefuseLine(line)
      PROVE  TypeInv'
  <2>1. infos' \in Seq(Info)
    BY <1>4, NextInfos, InfosProperties
  <2>2. /\ read' \in Seq(Lines)
        /\ DOMAIN read \subseteq DOMAIN read'
        /\ read' # <<>>
    <3>1. read' = Append(read, line)
      BY <1>4 DEF ReadLine, RefuseLine, NextLine
    <3>2. read \in Seq(Lines)
      BY <1>0 DEF TypeOK
    <3>3. QED
      BY <3>1, <3>2
  <2>3. UNCHANGED <<broken, maker, briefs, out, flushVars, ok, faulted>>
    BY <1>4 DEF ReadLine, RefuseLine
  <2>4. pc = "line" /\ pc' \in {"line", "brief"}
    BY <1>4 DEF ReadLine, RefuseLine, NextLine
  <2>5. QED
    BY <1>0, <2>1, <2>2, <2>3, <2>4 DEF TypeInv, TypeOK, maker, flushVars, TermsType
<1>5. CASE WriteBrief
  <2>1. Len(read) \in DOMAIN read
    BY <1>0, <1>5 DEF WriteBrief, TypeOK
  <2>2. briefs' \in Seq(Brief)
    <3>1. BriefOf(Len(read)) \in Brief
      BY <2>1, BriefType
    <3>2. briefs \in Seq(Brief) /\ briefs' = Append(briefs, BriefOf(Len(read)))
      BY <1>0, <1>5 DEF WriteBrief, TypeOK
    <3>3. QED
      BY <3>1, <3>2
  <2>3. QED
    BY <1>0, <1>5, <2>2 DEF WriteBrief, TypeInv, TypeOK, maker, flushVars, TermsType
<1>6. CASE BriefFails
  BY <1>0, <1>6 DEF BriefFails, AfterBrief, Fault, Steps, TypeInv, TypeOK, maker, flushVars, TermsType
<1>7. CASE IndexInfo
  <2>1. /\ Head(infos) \in Info /\ infos' \in Seq(Info)
    BY <1>0, <1>7 DEF IndexInfo
  <2>2. node' \in Node /\ lastSign' \in Nat \ {0}
    <3> DEFINE info == Head(infos)
               begun == IF node = NoNode \/ Linking THEN NewNode ELSE node
    <3>1. Len(hits) \in Nat /\ objNum \in Nat
      BY <1>0 DEF TypeOK
    <3>2. begun \in Node
      BY <1>0, <3>1 DEF NewNode, Node, TypeOK
    <3>3. info.sign \in Nat \ {0} /\ info.field \in 0 .. 255
      BY <2>1 DEF Info
    <3>4. node' = [begun EXCEPT !.fields = @ \cup {info.field}, !.num = (@ + 1) % HitMod]
      BY <1>7 DEF IndexInfo
    <3>5. lastSign' = info.sign
      BY <1>7 DEF IndexInfo
    <3> HIDE DEF begun, info
    <3>6. (begun.num + 1) % HitMod \in Nat
      BY <3>2, MakeIndexAssumption DEF Node
    <3>7. QED
      BY <3>2, <3>3, <3>4, <3>5, <3>6 DEF Node
  <2>3. hits' \in Seq(Nat \X Nat)
    <3> DEFINE S == Nat \X Nat
               h == <<Len(read), Head(infos).sign>>
    <3>1. Len(read) \in Nat /\ Head(infos).sign \in Nat
      BY <1>0, <2>1 DEF Info, TypeOK
    <3>2. h \in S /\ hits \in Seq(S)
      BY <1>0, <3>1
    <3>3. hits' = Append(hits, h)
      BY <1>7 DEF IndexInfo
    <3> HIDE DEF S, h
    <3>4. hits' \in Seq(S)
      BY <3>2, <3>3
    <3>5. QED
      BY <3>4 DEF S
  <2>4. TermsType(terms') /\ DOMAIN terms \subseteq DOMAIN terms'
    BY <1>7, TermsNowType DEF IndexInfo
  <2>5. todo' \in Seq(DOMAIN terms')
    BY <1>0, <1>7, <2>4, SeqMonotonic DEF IndexInfo, flushVars
  <2>6. UNCHANGED <<read, pc, broken, objNum, briefs, out, ok, faulted>> /\ pc = "finish"
    BY <1>7 DEF IndexInfo
  <2>7. node' # NoNode
    BY <2>2 DEF Node, NoNode
  <2>8. QED
    BY <1>0, <2>1, <2>2, <2>3, <2>4, <2>5, <2>6, <2>7
       DEF TypeInv, TypeOK, TermsType, NoSign
<1>8. CASE FinishObj
  <2>1. TermsType(terms') /\ DOMAIN terms \subseteq DOMAIN terms'
    BY <1>8, TermsNowType DEF FinishObj
  <2>2. todo' \in Seq(DOMAIN terms')
    BY <1>0, <1>8, <2>1, SeqMonotonic DEF FinishObj, FinishReturns, flushVars
  <2>3. ok' \subseteq DOMAIN read'
    BY <1>0, <1>8 DEF FinishObj, FinishReturns, TypeOK
  <2>4. objNum' \in Nat
    BY <1>0, <1>8 DEF FinishObj, NextObj, TypeOK
  <2>5. /\ UNCHANGED <<read, broken, infos, hits, briefs, out, faulted>>
        /\ pc' = "line" /\ node' = NoNode /\ lastSign' = NoSign
    BY <1>8 DEF FinishObj, FinishReturns
  <2>6. QED
    BY <1>0, <2>1, <2>2, <2>3, <2>4, <2>5 DEF TypeInv, TypeOK, TermsType, NoSign
<1>9. CASE FinishFails
  <2>1. TermsType(terms') /\ DOMAIN terms \subseteq DOMAIN terms'
    BY <1>0, <1>9, TermsNowType DEF FinishFails
  <2>2. todo' \in Seq(DOMAIN terms')
    BY <1>0, <1>9, <2>1, SeqMonotonic DEF FinishFails, FinishReturns, flushVars
  <2>3. faulted' \subseteq Steps
    BY <1>0, <1>9 DEF FinishFails, Fault, Steps, TypeOK
  <2>4. /\ UNCHANGED <<read, broken, infos, hits, briefs, out, objNum, ok>>
        /\ pc' = "line" /\ node' = NoNode /\ lastSign' = NoSign
    BY <1>9 DEF FinishFails, FinishReturns
  <2>5. QED
    BY <1>0, <2>1, <2>2, <2>3, <2>4 DEF TypeInv, TypeOK, TermsType, NoSign
<1>10. CASE EndOfInput
  <2>1. todo' \in Seq(DOMAIN terms)
    BY <1>0, <1>10, SignsInOrder DEF EndOfInput, TermsType
  <2>2. QED
    BY <1>0, <1>10, <2>1 DEF EndOfInput, TypeInv, TypeOK, maker, TermsType
<1>11. CASE ReadFails
  BY <1>0, <1>11 DEF ReadFails, Fault, Steps, TypeInv, TypeOK, maker, flushVars, TermsType
<1>12. CASE FlushTerm
  <2>1. todo' \in Seq(DOMAIN terms)
    <3>1. todo' = todo \/ (todo # <<>> /\ todo' = Tail(todo))
      BY <1>12 DEF FlushTerm, flushVars
    <3>2. QED
      BY <1>0, <3>1, HeadTailProperties
  <2>2. pc' \in {"flush", "failed"} /\ pc = "flush"
    BY <1>12 DEF FlushTerm
  <2>3. UNCHANGED <<read, broken, infos, maker, briefs, out, ok, faulted>>
    BY <1>12 DEF FlushTerm
  <2>4. QED
    BY <1>0, <2>1, <2>2, <2>3 DEF TypeInv, TypeOK, maker, TermsType
<1>13. CASE FlushFails
  <2>1. out' \in [groups : BOOLEAN, hasBriefs : BOOLEAN, torn : BOOLEAN, tornTerm : BOOLEAN]
    BY <1>13 DEF FlushFails, TypeInv, TypeOK
  <2>2. faulted' \subseteq Steps
    BY <1>13 DEF FlushFails, Fault, Steps, TypeInv, TypeOK
  <2>3. /\ pc = "flush" /\ pc' = "failed"
        /\ UNCHANGED <<read, broken, infos, maker, briefs, flushVars, ok>>
    BY <1>13 DEF FlushFails
  <2>4. QED
    BY <1>0, <2>1, <2>2, <2>3 DEF TypeInv, TypeOK, TermsType, maker, flushVars
<1>14. CASE FlushDone
  BY <1>0, <1>14 DEF FlushDone, TypeInv, TypeOK, maker, flushVars, TermsType
<1>15. CASE UNCHANGED vars
  BY <1>0, <1>15 DEF vars, TypeInv, TypeOK, maker, flushVars, TermsType
<1>16. QED
  BY <1>1, <1>2, <1>3, <1>4, <1>5, <1>6, <1>7, <1>8, <1>9, <1>10, <1>11,
     <1>12, <1>13, <1>14, <1>15 DEF Next

THEOREM TypeCorrect ==
  Spec => []TypeOK
<1>1. TypeInv => TypeOK
  BY DEF TypeInv
<1>2. QED
  BY <1>1, TypeInit, TypeStep, PTL DEF Spec

-----------------------------------------------------------------------------
(***************************************************************************)
(* Lists                                                                   *)
(***************************************************************************)
ListOk(t) ==
  /\ t.num = Len(t.index)
  /\ \A i, j \in DOMAIN t.index : i < j => t.index[i].obj >= t.index[j].obj
  /\ \A i \in DOMAIN t.index : t.index[i].obj <= objNum

LEMMA ListsInvIs ==
  ListsInv <=> /\ node # NoNode => node.obj = objNum
               /\ \A s \in DOMAIN terms : ListOk(terms[s])
  BY DEF ListsInv, NumMatches, ListsDescend, ListOk

(* The node that is linked is of the current object, the highest so far.   *)
LEMMA LinkedOk ==
  ASSUME TypeInv, ListsInv
  PROVE  \A s \in DOMAIN TermsNow : ListOk(TermsNow[s])
<1>1. CASE ~Linking
  BY <1>1, TermsNowIs, ListsInvIs
<1>2. CASE Linking
  <2>1. node \in Node /\ node.obj = objNum /\ objNum \in Nat
    BY <1>2 DEF Linking, TypeInv, TypeOK, ListsInv
  <2> DEFINE list == Listed(lastSign)
             new == <<node>> \o list
  <2>2. /\ list \in Seq(Node) /\ Len(list) \in Nat
        /\ \A i \in DOMAIN list : list[i] \in Node
        /\ \A i \in DOMAIN list : i \in Nat
    BY ListedType
  <2>3. /\ OldNum = Len(list)
        /\ \A i, j \in DOMAIN list : i < j => list[i].obj >= list[j].obj
        /\ \A i \in DOMAIN list : list[i].obj <= objNum
    <3>1. CASE lastSign \in DOMAIN terms
      <4>1. ListOk(terms[lastSign])
        BY <3>1, ListsInvIs
      <4>2. QED
        BY <3>1, <4>1 DEF ListOk, OldNum, Listed
    <3>2. CASE lastSign \notin DOMAIN terms
      BY <3>2 DEF OldNum, Listed
    <3>3. QED
      BY <3>1, <3>2
  <2> HIDE DEF list
  <2>4. /\ Len(new) = Len(list) + 1
        /\ DOMAIN new = 1 .. Len(list) + 1
        /\ new[1] = node
        /\ \A i \in DOMAIN new : i # 1 => i - 1 \in DOMAIN list /\ new[i] = list[i - 1]
    BY <2>1, <2>2, Prepended
  <2> HIDE DEF new
  <2>5. \A i \in DOMAIN new : new[i].obj <= objNum
    BY <2>1, <2>3, <2>4
  <2>6. \A i, j \in DOMAIN new : i < j => new[i].obj >= new[j].obj
    <3> SUFFICES ASSUME NEW i \in DOMAIN new, NEW j \in DOMAIN new, i < j
                 PROVE  new[i].obj >= new[j].obj
      OBVIOUS
    <3>1. j # 1 /\ i \in Int /\ j \in Int /\ j - 1 \in DOMAIN list
      BY <2>2, <2>4
    <3>2. CASE i = 1
      <4>1. new[j] \in Node
        BY <2>2, <2>4, <3>1
      <4>2. new[j].obj \in Nat
        BY <4>1 DEF Node
      <4>3. QED
        BY <2>1, <2>4, <2>5, <3>2, <4>2
    <3>3. CASE i # 1
      <4>1. i - 1 \in DOMAIN list /\ i - 1 < j - 1
        BY <2>4, <3>1, <3>3
      <4>2. QED
        BY <2>3, <2>4, <3>1, <3>3, <4>1
    <3>4. QED
      BY <3>2, <3>3
  <2>7. ListOk(LinkedTerm)
    BY <2>3, <2>4, <2>5, <2>6 DEF ListOk, LinkedTerm, list, new
  <2>8. TermsNow = [s \in DOMAIN terms \cup {lastSign} |->
                      IF s = lastSign THEN LinkedTerm ELSE terms[s]]
    BY <1>2, TermsNowIs
  <2> HIDE DEF ListOk
  <2>9. \A s \in DOMAIN TermsNow :
          TermsNow[s] = LinkedTerm \/ (s \in DOMAIN terms /\ TermsNow[s] = terms[s])
    BY <2>8
  <2>10. QED
    BY <2>7, <2>9, ListsInvIs
<1>3. QED
  BY <1>1, <1>2

LEMMA ListsStep ==
  ASSUME TypeInv, ListsInv, [Next]_vars
  PROVE  ListsInv'
<1>0. /\ node # NoNode => node.obj = objNum
      /\ \A s \in DOMAIN terms : ListOk(terms[s])
      /\ objNum \in Nat
      /\ \A s \in DOMAIN terms : \A i \in DOMAIN terms[s].index : terms[s].index[i].obj \in Nat
  <2>1. \A s \in DOMAIN terms : \A i \in DOMAIN terms[s].index : terms[s].index[i] \in Node
    BY ListedType DEF Listed
  <2>2. QED
    BY <2>1, ListsInvIs DEF TypeInv, TypeOK, Node
<1>1. CASE UNCHANGED <<node, objNum, terms>>
  BY <1>0, <1>1 DEF ListsInv, NumMatches, ListsDescend, ListOk
<1>2. CASE IndexInfo
  <2>1. \A s \in DOMAIN TermsNow : ListOk(TermsNow[s])
    BY LinkedOk
  <2>2. UNCHANGED objNum /\ terms' = TermsNow
    BY <1>2 DEF IndexInfo
  <2>3. node'.obj = objNum
    <3> DEFINE begun == IF node = NoNode \/ Linking THEN NewNode ELSE node
    <3>1. begun.obj = objNum /\ begun \in Node
      <4>1. Len(hits) \in Nat
        BY DEF TypeInv
      <4>2. QED
        BY <1>0, <4>1 DEF NewNode, TypeInv, TypeOK, Node
    <3>2. node' = [begun EXCEPT !.fields = @ \cup {Head(infos).field},
                                !.num = (@ + 1) % HitMod]
      BY <1>2 DEF IndexInfo
    <3> HIDE DEF begun
    <3>3. QED
      BY <3>1, <3>2 DEF Node
  <2>4. QED
    BY <2>1, <2>2, <2>3 DEF ListsInv, NumMatches, ListsDescend, ListOk
<1>3. CASE FinishObj
  <2>1. \A s \in DOMAIN TermsNow : ListOk(TermsNow[s])
    BY LinkedOk
  <2>2. objNum' = objNum + 1 /\ terms' = TermsNow /\ node' = NoNode
    BY <1>3 DEF FinishObj, FinishReturns, NextObj
  <2>3. TermsType(TermsNow)
    BY TermsNowType
  <2>4. ASSUME NEW s \in DOMAIN TermsNow, NEW i \in DOMAIN TermsNow[s].index
        PROVE  TermsNow[s].index[i].obj <= objNum + 1
    <3>1. TermsNow[s].index[i].obj <= objNum
      BY <2>1 DEF ListOk
    <3>2. TermsNow[s].index \in Seq(Node)
      BY <2>3 DEF TermsType, Term
    <3>3. TermsNow[s].index[i] \in Node
      <4> DEFINE S == Node
      <4> HIDE DEF S
      <4>1. TermsNow[s].index \in Seq(S)
        BY <3>2 DEF S
      <4>2. TermsNow[s].index[i] \in S
        BY <4>1
      <4>3. QED
        BY <4>2 DEF S
    <3>4. QED
      BY <1>0, <3>1, <3>3 DEF Node
  <2>5. QED
    BY <2>1, <2>2, <2>4 DEF ListsInv, NumMatches, ListsDescend, ListOk
<1>4. CASE FinishFails
  <2>1. terms' = terms \/ terms' = TermsNow
    BY <1>4 DEF FinishFails
  <2>2. \A s \in DOMAIN terms' : ListOk(terms'[s])
    BY <1>0, <2>1, LinkedOk
  <2>3. UNCHANGED objNum /\ node' = NoNode
    BY <1>4 DEF FinishFails, FinishReturns
  <2>4. QED
    BY <2>2, <2>3 DEF ListsInv, NumMatches, ListsDescend, ListOk
<1>5. QED
  BY <1>1, <1>2, <1>3, <1>4
     DEF Next, vars, maker, Started, InitFails, InitBroken, ReadLine, RefuseLine,
         WriteBrief, BriefFails, EndOfInput, ReadFails, FlushTerm, FlushFails, FlushDone

(* Every obj_id list of the index goes down, whatever fails. *)
THEOREM ListsCorrect ==
  Spec => []ListsDescend
<1>1. Init => ListsInv
  BY DEF Init, ListsInv, NumMatches, ListsDescend
<1>2. ListsInv => ListsDescend
  BY DEF ListsInv
<1>3. QED
  BY <1>1, <1>2, TypeInit, TypeStep, ListsStep, PTL DEF Spec

-----------------------------------------------------------------------------
(***************************************************************************)
(* The order in which finish_obj handles the infos                         *)
(***************************************************************************)

(* The first info is the next of the sort: all with a smaller sign, and no *)
(* one with a larger, are handled.                                         *)
LEMMA HeadIsNext ==
  ASSUME TypeInv, OrderInv, IndexInfo
  PROVE  LET h == Head(infos)
         IN  /\ h \in Info /\ h \notin Handled
             /\ Handled \subseteq LineInfos
             /\ LineInfos' = LineInfos
             /\ Handled' = Handled \cup {h}
             /\ \A d \in Handled : d.sign <= h.sign
             /\ Linking => lastSign < h.sign
             /\ node # NoNode /\ ~Linking => lastSign = h.sign
             /\ node = NoNode => Handled = {}
             /\ \A e \in ToSet(infos') : InfoLess(h, e) /\ e \in ToSet(infos)
             /\ \A i, j \in DOMAIN infos' : i < j => InfoLess(infos'[i], infos'[j])
<1> DEFINE h == Head(infos)
<1>1. /\ infos \in Seq(Info) /\ infos # <<>> /\ pc = "finish"
      /\ infos' = Tail(infos)
      /\ UNCHANGED <<read, broken>>
  BY DEF IndexInfo, TypeInv
<1>2. /\ LineInfos \subseteq Info
      /\ ToSet(infos) \subseteq LineInfos
      /\ \A i, j \in DOMAIN infos : i < j => InfoLess(infos[i], infos[j])
      /\ \A d \in Handled, e \in ToSet(infos) : InfoLess(d, e)
      /\ node = NoNode => Handled = {}
      /\ node # NoNode => \E d \in Handled : d.sign = lastSign
  BY <1>1 DEF OrderInv
<1>3. /\ Len(infos) \in Nat \ {0} /\ DOMAIN infos = 1 .. Len(infos)
      /\ h \in Info /\ h = infos[1]
      /\ DOMAIN infos' = 1 .. Len(infos) - 1
      /\ \A i \in DOMAIN infos' : infos'[i] = infos[i + 1]
      /\ \A i \in DOMAIN infos : infos[i] \in Info
  <2> DEFINE S == Info
  <2> HIDE DEF S
  <2>1. infos \in Seq(S) /\ infos # <<>> /\ infos' = Tail(infos)
    BY <1>1 DEF S
  <2>2. Len(infos) \in Nat \ {0} /\ DOMAIN infos = 1 .. Len(infos)
    BY <2>1
  <2>3. /\ h \in S /\ h = infos[1]
        /\ DOMAIN infos' = 1 .. Len(infos) - 1
        /\ \A i \in DOMAIN infos' : infos'[i] = infos[i + 1]
        /\ \A i \in DOMAIN infos : infos[i] \in S
    BY <2>1, <2>2, HeadTailProperties
  <2>4. QED
    BY <2>2, <2>3 DEF S
<1>4. h \in ToSet(infos)
  BY <1>3 DEF ToSet
<1>5. \A e : e \in ToSet(infos) <=> e = h \/ e \in ToSet(infos')
  <2>1. ASSUME NEW i \in DOMAIN infos, i # 1
        PROVE  i - 1 \in DOMAIN infos' /\ infos'[i - 1] = infos[i]
    BY <1>3, <2>1
  <2>2. ASSUME NEW i \in DOMAIN infos'
        PROVE  i + 1 \in DOMAIN infos /\ infos'[i] = infos[i + 1]
    BY <1>3
  <2>3. QED
    BY <1>3, <1>4, <2>1, <2>2 DEF ToSet
<1> HIDE DEF h
<1>6. \A e \in ToSet(infos') : InfoLess(h, e) /\ e \in ToSet(infos)
  <2> TAKE e \in ToSet(infos')
  <2>1. PICK i \in DOMAIN infos' : e = infos[i + 1]
    BY <1>3 DEF ToSet
  <2>2. i + 1 \in DOMAIN infos /\ 1 \in DOMAIN infos /\ 1 < i + 1
    BY <1>3
  <2>3. QED
    BY <1>2, <1>3, <1>5, <2>1, <2>2
<1>7. \A i, j \in DOMAIN infos' : i < j => InfoLess(infos'[i], infos'[j])
  <2> SUFFICES ASSUME NEW i \in DOMAIN infos', NEW j \in DOMAIN infos', i < j
               PROVE  InfoLess(infos'[i], infos'[j])
    OBVIOUS
  <2>1. i + 1 \in DOMAIN infos /\ j + 1 \in DOMAIN infos /\ i + 1 < j + 1
    BY <1>3
  <2>2. QED
    BY <1>2, <1>3, <2>1
<1>8. h.sign \in Nat /\ h.field \in 0 .. 255 /\ h.no \in Nat
  <2> HIDE DEF h
  <2>1. QED
    BY <1>3 DEF Info
<1>9. ~InfoLess(h, h)
  BY <1>8 DEF InfoLess
<1>10. h \notin ToSet(infos')
  BY <1>6, <1>9
<1>11. LineInfos' = LineInfos
  BY <1>1 DEF LineInfos, InfoSet, FieldMap
<1>12. Handled' = Handled \cup {h}
  BY <1>2, <1>4, <1>5, <1>10, <1>11 DEF Handled
<1>13. h \notin Handled /\ Handled \subseteq LineInfos
  BY <1>4 DEF Handled
<1>14. \A d \in Handled : d.sign < h.sign \/ d.sign = h.sign
  BY <1>2, <1>4 DEF InfoLess
<1>15. NextSign = h.sign
  BY <1>1 DEF NextSign, h
<1>16. Linking => lastSign < h.sign
  BY <1>2, <1>14, <1>15 DEF Linking
<1>17. node # NoNode /\ ~Linking => lastSign = h.sign
  BY <1>15 DEF Linking
<1>18. \A d \in Handled : d.sign <= h.sign
  BY <1>2, <1>8, <1>13, <1>14 DEF Info
<1>19. QED
  BY <1>2, <1>3, <1>6, <1>7, <1>11, <1>12, <1>13, <1>16, <1>17, <1>18 DEF h

(* The node as the first info finds it, and as it leaves it. *)
LEMMA NodeAfter ==
  ASSUME TypeInv, IndexInfo
  PROVE  LET begun == IF node = NoNode \/ Linking THEN NewNode ELSE node
         IN  /\ begun \in Node
             /\ node' \in Node /\ node' # NoNode
             /\ node'.obj = begun.obj
             /\ node'.off = begun.off
             /\ node'.fields = begun.fields \cup {Head(infos).field}
             /\ node'.num = (begun.num + 1) % HitMod
             /\ Head(infos) \in Info
             /\ lastSign' = Head(infos).sign
<1> DEFINE begun == IF node = NoNode \/ Linking THEN NewNode ELSE node
<1>1. Head(infos) \in Info
  BY DEF TypeInv, IndexInfo
<1>2. begun \in Node
  <2>1. Len(hits) \in Nat
    BY DEF TypeInv
  <2>2. QED
    BY <2>1 DEF NewNode, TypeInv, TypeOK, Node
<1>3. node' = [begun EXCEPT !.fields = @ \cup {Head(infos).field}, !.num = (@ + 1) % HitMod]
  BY DEF IndexInfo
<1>4. lastSign' = Head(infos).sign
  BY DEF IndexInfo
<1> HIDE DEF begun
<1>5. (begun.num + 1) % HitMod \in Nat /\ Head(infos).field \in 0 .. 255
  BY <1>1, <1>2, MakeIndexAssumption DEF Node, Info
<1>6. node' \in Node
  <2> DEFINE field == Head(infos).field
             num == (begun.num + 1) % HitMod
  <2>1. num \in Nat /\ field \in 0 .. 255
    BY <1>5
  <2>2. node' = [begun EXCEPT !.fields = begun.fields \cup {field}, !.num = num]
    BY <1>3
  <2> HIDE DEF field, num
  <2>3. QED
    BY <1>2, <2>1, <2>2 DEF Node
<1>7. node' # NoNode
  BY <1>6 DEF Node, NoNode
<1>8. QED
  BY <1>1, <1>2, <1>3, <1>4, <1>6, <1>7 DEF begun, Node

LEMMA OrderStep ==
  ASSUME TypeInv, OrderInv, [Next]_vars
  PROVE  OrderInv'
<1>1. CASE pc' \notin {"brief", "finish"}
  BY <1>1 DEF OrderInv
<1>2. CASE UNCHANGED <<read, broken, infos, node, lastSign>> /\ pc \in {"brief", "finish"}
  BY <1>2 DEF OrderInv, LineInfos, Handled, InfoSet, FieldMap
<1>3. ASSUME NEW line \in Lines, ReadLine(line)
      PROVE  OrderInv'
  <2>1. /\ read \in Seq(Lines) /\ read' = Append(read, line)
        /\ pc = "line" /\ UNCHANGED <<broken, node>>
        /\ infos' = Infos(Calls(line))
    BY <1>3 DEF ReadLine, NextLine, maker, TypeInv, TypeOK
  <2>2. Accepted(Calls(line))
    BY <1>3, CallsType DEF ReadLine, Accepted
  <2>3. read'[Len(read')] = line
    BY <2>1
  <2>4. LineInfos' = InfoSet(Calls(line))
    BY <2>1, <2>3 DEF LineInfos, InfoSet, FieldMap
  <2>5. ToSet(infos') = LineInfos'
    BY <2>1, <2>2, <2>4, InfosProperties
  <2>6. Handled' = {} /\ LineInfos' \subseteq Info
    BY <2>2, <2>4, <2>5, InfoSetType DEF Handled
  <2>7. \A i, j \in DOMAIN infos' : i < j => InfoLess(infos'[i], infos'[j])
    BY <2>1, <2>2, InfosProperties
  <2>8. node' = NoNode
    BY <2>1 DEF TypeInv
  <2>9. QED
    BY <2>5, <2>6, <2>7, <2>8 DEF OrderInv
<1>4. CASE IndexInfo
  <2> DEFINE h == Head(infos)
             begun == IF node = NoNode \/ Linking THEN NewNode ELSE node
  <2>1. /\ h \in Info /\ h \notin Handled
        /\ Handled \subseteq LineInfos
        /\ LineInfos' = LineInfos
        /\ Handled' = Handled \cup {h}
        /\ \A d \in Handled : d.sign <= h.sign
        /\ Linking => lastSign < h.sign
        /\ node # NoNode /\ ~Linking => lastSign = h.sign
        /\ node = NoNode => Handled = {}
        /\ \A e \in ToSet(infos') : InfoLess(h, e) /\ e \in ToSet(infos)
        /\ \A i, j \in DOMAIN infos' : i < j => InfoLess(infos'[i], infos'[j])
    BY <1>4, HeadIsNext
  <2>2. /\ pc = "finish"
        /\ LineInfos \subseteq Info
        /\ ToSet(infos) \subseteq LineInfos
        /\ \A d \in Handled, e \in ToSet(infos) : InfoLess(d, e)
        /\ node # NoNode => /\ node.fields = FieldsOf(Handled, lastSign)
                            /\ \A d \in Handled : d.sign <= lastSign
    BY <1>4 DEF IndexInfo, OrderInv
  <2>3. /\ node' # NoNode /\ lastSign' = h.sign
        /\ node'.fields = begun.fields \cup {h.field}
    BY <1>4, NodeAfter
  <2>4. h.sign \in Nat /\ lastSign \in Nat /\ \A d \in Handled : d.sign \in Nat
    <3>1. Handled \subseteq Info
      BY <2>1, <2>2
    <3>2. QED
      BY <2>1, <3>1 DEF Info, TypeInv
  <2> HIDE DEF h, begun
  <2>5. node'.fields = FieldsOf(Handled', h.sign)
    <3>1. CASE node # NoNode /\ ~Linking
      <4>1. begun.fields = FieldsOf(Handled, h.sign)
        BY <2>1, <2>2, <3>1 DEF begun
      <4>2. QED
        BY <2>1, <2>3, <4>1 DEF FieldsOf
    <3>2. CASE node = NoNode \/ Linking
      <4>1. begun.fields = {}
        BY <3>2 DEF begun, NewNode
      <4>2. \A d \in Handled : d.sign # h.sign
        BY <2>1, <2>2, <2>4, <3>2 DEF Linking
      <4>3. FieldsOf(Handled', h.sign) = {h.field}
        BY <2>1, <4>2 DEF FieldsOf
      <4>4. QED
        BY <2>3, <4>1, <4>3
    <3>3. QED
      BY <3>1, <3>2
  <2>6. \A d \in Handled', e \in ToSet(infos') : InfoLess(d, e)
    BY <2>1, <2>2
  <2>7. \A d \in Handled' : d.sign <= h.sign
    BY <2>1, <2>4
  <2>8. QED
    BY <2>1, <2>2, <2>3, <2>5, <2>6, <2>7 DEF OrderInv
<1>5. QED
  BY <1>1, <1>2, <1>3, <1>4
     DEF Next, vars, maker, Started, InitFails, InitBroken, RefuseLine, NextLine,
         WriteBrief, BriefFails, AfterBrief, FinishObj, FinishFails, FinishReturns,
         EndOfInput, ReadFails, FlushTerm, FlushFails, FlushDone

-----------------------------------------------------------------------------
(***************************************************************************)
(* Briefs and objects                                                      *)
(***************************************************************************)
LEMMA BriefsType ==
  ASSUME TypeInv
  PROVE  /\ Len(briefs) \in Nat /\ DOMAIN briefs = 1 .. Len(briefs)
         /\ Len(read) \in Nat /\ DOMAIN read = 1 .. Len(read)
         /\ \A i \in DOMAIN briefs : briefs[i].id \in Nat
<1>1. briefs \in Seq(Brief) /\ read \in Seq(Lines)
  BY DEF TypeInv, TypeOK
<1>2. \A b \in Brief : b.id \in Nat
  BY DEF Brief
<1> DEFINE S == Brief
<1> HIDE DEF S
<1>3. briefs \in Seq(S) /\ \A b \in S : b.id \in Nat
  BY <1>1, <1>2 DEF S
<1>4. Len(briefs) \in Nat /\ DOMAIN briefs = 1 .. Len(briefs)
  BY <1>3
<1>5. \A i \in DOMAIN briefs : briefs[i] \in S
  BY <1>3, <1>4
<1>6. QED
  BY <1>1, <1>3, <1>4, <1>5

(* What WriteBrief appends. *)
LEMMA BriefAppended ==
  ASSUME TypeInv, WriteBrief
  PROVE  /\ Len(briefs') = Len(briefs) + 1
         /\ DOMAIN briefs' = 1 .. Len(briefs) + 1
         /\ \A i \in DOMAIN briefs : briefs'[i] = briefs[i]
         /\ briefs'[Len(briefs) + 1].id = Len(read)
        /\ briefs'[Len(briefs) + 1] = BriefOf(Len(read))
<1>1. /\ briefs \in Seq(Brief)
      /\ briefs' = Append(briefs, BriefOf(Len(read)))
      /\ Len(read) \in DOMAIN read
  BY DEF WriteBrief, TypeInv, TypeOK
<1>2. BriefOf(Len(read)) \in Brief
  BY <1>1, BriefType
<1>3. BriefOf(Len(read)).id = Len(read)
  BY DEF BriefOf
<1> DEFINE S == Brief
           b == BriefOf(Len(read))
<1> HIDE DEF S, b
<1>4. briefs \in Seq(S) /\ b \in S /\ briefs' = Append(briefs, b)
  BY <1>1, <1>2 DEF S, b
<1>5. /\ Len(briefs') = Len(briefs) + 1
      /\ DOMAIN briefs' = 1 .. Len(briefs) + 1
      /\ \A i \in DOMAIN briefs : briefs'[i] = briefs[i]
      /\ briefs'[Len(briefs) + 1] = b
  BY <1>4
<1>6. QED
  BY <1>3, <1>5 DEF b

LEMMA BriefsStep ==
  ASSUME TypeInv, BriefsInv, [Next]_vars
  PROVE  BriefsInv'
<1>0. /\ Len(briefs) \in Nat /\ DOMAIN briefs = 1 .. Len(briefs)
      /\ Len(read) \in Nat /\ DOMAIN read = 1 .. Len(read)
      /\ \A i \in DOMAIN briefs : briefs[i].id \in Nat
  BY BriefsType
<1>1. CASE /\ UNCHANGED <<read, briefs>>
           /\ pc' \in {"brief", "finish"} => pc' = pc
  <2>1. \A n : BriefOf(n)' = BriefOf(n)
    BY <1>1 DEF BriefOf
  <2>2. QED
    BY <1>1, <2>1 DEF BriefsInv
<1>2. ASSUME NEW line \in Lines, ReadLine(line) \/ RefuseLine(line)
      PROVE  BriefsInv'
  <2>1. read' = Append(read, line) /\ UNCHANGED briefs /\ pc' # "finish"
    BY <1>2 DEF ReadLine, RefuseLine, NextLine
  <2>2. /\ Len(read') = Len(read) + 1 /\ DOMAIN read' = 1 .. Len(read) + 1
        /\ \A n \in DOMAIN read : read'[n] = read[n]
    BY <2>1 DEF TypeInv, TypeOK
  <2>3. \A n \in DOMAIN read : n \in DOMAIN read' /\ BriefOf(n)' = BriefOf(n)
    BY <1>0, <2>2 DEF BriefOf
  <2>4. \A i \in DOMAIN briefs : \E n \in DOMAIN read : briefs[i] = BriefOf(n)
    BY DEF BriefsInv
  <2>5. \A i \in DOMAIN briefs : \E n \in DOMAIN read' : briefs[i] = BriefOf(n)'
    BY <2>3, <2>4
  <2>6. QED
    BY <1>0, <2>1, <2>2, <2>5 DEF BriefsInv
<1>3. CASE WriteBrief
  <2>1. /\ Len(briefs') = Len(briefs) + 1
        /\ DOMAIN briefs' = 1 .. Len(briefs) + 1
        /\ \A i \in DOMAIN briefs : briefs'[i] = briefs[i]
        /\ briefs'[Len(briefs) + 1].id = Len(read)
        /\ briefs'[Len(briefs) + 1] = BriefOf(Len(read))
    BY <1>3, BriefAppended
  <2>2. pc = "brief" /\ pc' = "finish" /\ UNCHANGED <<read, broken>> /\ Len(read) \in DOMAIN read
    BY <1>3 DEF WriteBrief, TypeInv, TypeOK
  <2>3. \A i \in DOMAIN briefs : /\ briefs[i].id \in DOMAIN read /\ briefs[i].id < Len(read)
                                /\ \E n \in DOMAIN read : briefs[i] = BriefOf(n)
    BY <2>2 DEF BriefsInv
  <2>4. \A i \in DOMAIN briefs' : briefs'[i].id \in DOMAIN read
    BY <1>0, <2>1, <2>2, <2>3
  <2>8. \A n : BriefOf(n)' = BriefOf(n)
    BY <2>2 DEF BriefOf
  <2>9. \A i \in DOMAIN briefs' : \E n \in DOMAIN read' : briefs'[i] = BriefOf(n)'
    <3> TAKE i \in DOMAIN briefs'
    <3>1. CASE i \in DOMAIN briefs
      BY <2>1, <2>2, <2>3, <2>8, <3>1
    <3>2. CASE i \notin DOMAIN briefs
      <4>1. i = Len(briefs) + 1
        BY <1>0, <2>1, <3>2
      <4>2. QED
        BY <2>1, <2>2, <2>8, <4>1
    <3>3. QED
      BY <3>1, <3>2
  <2>5. \A i, j \in DOMAIN briefs' : i < j => briefs'[i].id < briefs'[j].id
    <3> SUFFICES ASSUME NEW i \in DOMAIN briefs', NEW j \in DOMAIN briefs', i < j
                 PROVE  briefs'[i].id < briefs'[j].id
      OBVIOUS
    <3>1. i \in DOMAIN briefs
      BY <1>0, <2>1
    <3>2. CASE j \in DOMAIN briefs
      BY <2>1, <3>1, <3>2 DEF BriefsInv
    <3>3. CASE j \notin DOMAIN briefs
      <4>1. j = Len(briefs) + 1
        BY <1>0, <2>1, <3>3
      <4>2. QED
        BY <2>1, <2>3, <3>1, <4>1
    <3>4. QED
      BY <3>2, <3>3
  <2>6. briefs' # <<>>
    BY <1>0, <2>1
  <2>7. QED
    BY <2>1, <2>2, <2>4, <2>5, <2>6, <2>9 DEF BriefsInv
<1>4. QED
  BY <1>1, <1>2, <1>3
     DEF Next, vars, maker, Started, InitFails, InitBroken, NextLine,
         BriefFails, AfterBrief, IndexInfo, FinishObj, FinishFails, FinishReturns,
         EndOfInput, ReadFails, FlushTerm, FlushFails, FlushDone

LEMMA CountStep ==
  ASSUME TypeInv, BriefsInv, CountInv, [Next]_vars
  PROVE  CountInv'
<1>0. /\ Len(briefs) \in Nat /\ DOMAIN briefs = 1 .. Len(briefs)
      /\ objNum \in Nat
  BY BriefsType DEF TypeInv, TypeOK
<1>1. CASE /\ UNCHANGED <<briefs, objNum, ok>>
           /\ pc' = "finish" <=> pc = "finish"
           /\ Clean' => Clean
  BY <1>1 DEF CountInv
<1>2. CASE WriteBrief
  <2>1. /\ Len(briefs') = Len(briefs) + 1
        /\ \A i \in DOMAIN briefs : briefs'[i] = briefs[i]
    BY <1>2, BriefAppended
  <2>2. /\ pc = "brief" /\ pc' = "finish"
        /\ UNCHANGED <<objNum, ok, faulted>>
    BY <1>2 DEF WriteBrief, maker
  <2>3. QED
    BY <1>0, <2>1, <2>2 DEF CountInv, Clean
<1>3. CASE FinishObj
  <2>1. /\ pc = "finish" /\ pc' = "line"
        /\ UNCHANGED <<briefs, faulted>>
        /\ objNum' = objNum + 1
        /\ ok' = ok \cup {Len(read)}
    BY <1>3 DEF FinishObj, FinishReturns, NextObj
  <2>2. briefs[Len(briefs)].id = Len(read)
    BY <2>1 DEF BriefsInv
  <2>3. ASSUME Clean
        PROVE  /\ Len(briefs) = objNum + 1
               /\ ok = {briefs[i].id : i \in 1 .. objNum}
    BY <2>1, <2>3 DEF CountInv
  <2>4. 1 .. objNum + 1 = (1 .. objNum) \cup {objNum + 1}
    BY <1>0
  <2>5. ASSUME Clean
        PROVE  ok' = {briefs[i].id : i \in 1 .. objNum + 1}
    BY <2>1, <2>2, <2>3, <2>4, <2>5
  <2>6. QED
    BY <2>1, <2>3, <2>5 DEF CountInv, Clean
<1>4. CASE FinishFails
  BY <1>4 DEF FinishFails, Fault, CountInv, Clean
<1>5. QED
  BY <1>1, <1>2, <1>3, <1>4
     DEF Next, vars, maker, Clean, Fault, Started, InitFails, InitBroken, NextLine,
         ReadLine, RefuseLine, BriefFails, AfterBrief, IndexInfo,
         EndOfInput, ReadFails, FlushTerm, FlushFails, FlushDone

LEMMA BriefsInit ==
  Init => BriefsInv /\ CountInv /\ OrderInv
  BY DEF Init, BriefsInv, CountInv, OrderInv

(* Objects and briefs correspond as long as finish_obj does not fail. *)
THEOREM BriefsAligned ==
  Spec => []Aligned
<1>1. TypeInv /\ CountInv => Aligned
  <2> SUFFICES ASSUME TypeInv, CountInv, BetweenLines, Clean
               PROVE  /\ objNum = Len(briefs)
                      /\ {briefs[i].id : i \in DOMAIN briefs} = ok
    BY DEF Aligned, Clean
  <2>1. DOMAIN briefs = 1 .. Len(briefs)
    BY BriefsType
  <2>2. pc # "finish"
    BY DEF BetweenLines
  <2>3. QED
    BY <2>1, <2>2 DEF CountInv
<1>2. QED
  BY <1>1, TypeInit, TypeStep, BriefsInit, BriefsStep, CountStep, PTL DEF Spec

-----------------------------------------------------------------------------
(***************************************************************************)
(* The inverse of the lines                                                *)
(***************************************************************************)
LEMMA PrependMatches ==
  ASSUME NEW n \in Nat, NEW have, DOMAIN have = 0 .. n, have[n] = {},
         NEW list \in Seq(Node), Matches(list, have),
         NEW first \in Node, first.obj = n, first.fields # {}
  PROVE  Matches(<<first>> \o list, [have EXCEPT ![n] = first.fields])
<1> DEFINE new == <<first>> \o list
           more == [have EXCEPT ![n] = first.fields]
<1>1. /\ Len(list) \in Nat
      /\ DOMAIN list = 1 .. Len(list)
      /\ DOMAIN new = 1 .. Len(list) + 1
      /\ new[1] = first
      /\ \A i \in DOMAIN new : i # 1 => i - 1 \in DOMAIN list /\ new[i] = list[i - 1]
      /\ \A i \in DOMAIN list : new[i + 1] = list[i]
  <2> DEFINE S == Node
  <2> HIDE DEF S
  <2>1. list \in Seq(S) /\ first \in S
    BY DEF S
  <2>2. Len(list) \in Nat /\ DOMAIN list = 1 .. Len(list)
    BY <2>1
  <2>3. QED
    BY <2>1, <2>2, Prepended
<1> HIDE DEF new
<1>2. /\ DOMAIN more = 0 .. n
      /\ more[n] = first.fields
      /\ \A o \in 0 .. n : o # n => more[o] = have[o]
  OBVIOUS
<1> HIDE DEF more
<1>3. \A i \in DOMAIN list : /\ list[i].obj \in 0 .. n /\ list[i].obj # n
                             /\ list[i].fields = have[list[i].obj]
                             /\ list[i].fields # {}
  BY DEF Matches
<1>4. \A o \in 0 .. n : have[o] # {} => \E i \in DOMAIN list : list[i].obj = o
  BY DEF Matches
<1>5. \A i, j \in DOMAIN list : i < j => list[i].obj > list[j].obj
  BY DEF Matches
<1>6. ASSUME NEW o \in 0 .. n, more[o] # {}
      PROVE  \E i \in DOMAIN new : new[i].obj = o
  <2>1. CASE o = n
    <3>1. 1 \in DOMAIN new /\ new[1].obj = o
      BY <1>1, <2>1
    <3>2. QED
      BY <3>1
  <2>2. CASE o # n
    <3>1. PICK i \in DOMAIN list : list[i].obj = o
      BY <1>2, <1>4, <1>6, <2>2
    <3>2. i + 1 \in DOMAIN new /\ new[i + 1].obj = o
      BY <1>1, <3>1
    <3>3. QED
      BY <3>2
  <2>3. QED
    BY <2>1, <2>2
<1>7. \A i \in DOMAIN new : /\ new[i].obj \in 0 .. n
                            /\ new[i].fields = more[new[i].obj]
                            /\ new[i].fields # {}
  <2> TAKE i \in DOMAIN new
  <2>1. CASE i = 1
    BY <1>1, <1>2, <2>1
  <2>2. CASE i # 1
    <3>1. i - 1 \in DOMAIN list /\ new[i] = list[i - 1]
      BY <1>1, <2>2
    <3>2. QED
      BY <1>2, <1>3, <3>1
  <2>3. QED
    BY <2>1, <2>2
<1>8. \A i, j \in DOMAIN new : i < j => new[i].obj > new[j].obj
  <2> SUFFICES ASSUME NEW i \in DOMAIN new, NEW j \in DOMAIN new, i < j
               PROVE  new[i].obj > new[j].obj
    OBVIOUS
  <2>1. /\ i \in Nat /\ j \in Nat /\ j # 1
        /\ j - 1 \in DOMAIN list /\ new[j] = list[j - 1]
    BY <1>1
  <2>2. CASE i = 1
    <3>1. new[j].obj \in 0 .. n /\ new[j].obj # n
      BY <1>3, <2>1
    <3>2. QED
      BY <1>1, <2>2, <3>1
  <2>3. CASE i # 1
    <3>1. i - 1 \in DOMAIN list /\ new[i] = list[i - 1] /\ i - 1 < j - 1
      BY <1>1, <2>1, <2>3
    <3>2. QED
      BY <1>5, <2>1, <3>1
  <2>4. QED
    BY <2>2, <2>3
<1>9. QED
  BY <1>2, <1>6, <1>7, <1>8 DEF Matches, new, more

(* The lists after the link, and what they should have then. *)
ListedNow(s) == IF s \in DOMAIN TermsNow THEN TermsNow[s].index ELSE <<>>

HavesNow(s) ==
  [o \in 0 .. objNum |->
     IF o < objNum THEN FieldsWith(LineOf(o), s)
     ELSE IF Linking \/ s # lastSign THEN FieldsOf(Handled, s) ELSE {}]

LEMMA ListedNowIs ==
  \A s : ListedNow(s) = IF Linking /\ s = lastSign THEN <<node>> \o Listed(s)
                                                 ELSE Listed(s)
<1>1. CASE ~Linking
  BY <1>1, TermsNowIs DEF ListedNow, Listed
<1>2. CASE Linking
  <2>1. TermsNow = [s \in DOMAIN terms \cup {lastSign} |->
                      IF s = lastSign THEN LinkedTerm ELSE terms[s]]
    BY <1>2, TermsNowIs
  <2>2. LinkedTerm.index = <<node>> \o Listed(lastSign)
    BY DEF LinkedTerm
  <2>3. /\ DOMAIN TermsNow = DOMAIN terms \cup {lastSign}
        /\ TermsNow[lastSign] = LinkedTerm
        /\ \A s \in DOMAIN terms : s # lastSign => TermsNow[s] = terms[s]
    BY <2>1
  <2>4. ListedNow(lastSign) = <<node>> \o Listed(lastSign)
    BY <2>2, <2>3 DEF ListedNow
  <2>5. \A s : s # lastSign => ListedNow(s) = Listed(s)
    BY <2>3 DEF ListedNow, Listed
  <2>6. QED
    BY <1>2, <2>4, <2>5
<1>3. QED
  BY <1>1, <1>2

LEMMA MatchesNow ==
  ASSUME TypeInv, ListsInv, OrderInv, IndexInv, Clean, pc = "finish",
         NEW s \in Nat \ {0}
  PROVE  Matches(ListedNow(s), HavesNow(s))
<1>1. Matches(Listed(s), Haves(s))
  BY DEF IndexInv
<1>2. CASE ~(Linking /\ s = lastSign)
  <2>1. ListedNow(s) = Listed(s)
    BY <1>2, ListedNowIs
  <2>2. HavesNow(s) = Haves(s)
    BY <1>2 DEF HavesNow, Haves
  <2>3. QED
    BY <1>1, <2>1, <2>2
<1>3. CASE Linking /\ s = lastSign
  <2>1. /\ node \in Node /\ node.obj = objNum /\ objNum \in Nat
        /\ node.fields = FieldsOf(Handled, s)
        /\ \E d \in Handled : d.sign = s
    BY <1>3 DEF Linking, TypeInv, TypeOK, ListsInv, OrderInv
  <2>2. node.fields # {}
    <3>1. PICK d \in Handled : d.sign = s
      BY <2>1
    <3>2. d.field \in FieldsOf(Handled, s)
      BY <3>1, FieldsOfMembers
    <3>3. QED
      BY <2>1, <3>2
  <2>3. /\ DOMAIN Haves(s) = 0 .. objNum
        /\ Haves(s)[objNum] = {}
    BY <1>3, <2>1 DEF Haves
  <2> DEFINE have == Haves(s)
             list == Listed(s)
  <2>4. HavesNow(s) = [have EXCEPT ![objNum] = node.fields]
    <3>1. \A o \in 0 .. objNum : HavesNow(s)[o] =
            IF o < objNum THEN FieldsWith(LineOf(o), s) ELSE node.fields
      BY <1>3, <2>1 DEF HavesNow
    <3>2. \A o \in 0 .. objNum : o < objNum => have[o] = FieldsWith(LineOf(o), s)
      BY DEF Haves
    <3>3. have = [o \in 0 .. objNum |-> have[o]]
      BY DEF Haves
    <3>4. HavesNow(s) = [o \in 0 .. objNum |-> HavesNow(s)[o]]
      BY DEF HavesNow
    <3> HIDE DEF have
    <3>5. \A o \in 0 .. objNum : o # objNum => o < objNum
      BY <2>1
    <3>6. \A o \in 0 .. objNum :
            HavesNow(s)[o] = [have EXCEPT ![objNum] = node.fields][o]
      BY <2>1, <3>1, <3>2, <3>3, <3>5
    <3>7. QED
      BY <2>1, <3>3, <3>4, <3>6
  <2>5. list \in Seq(Node)
    BY ListedType
  <2>6. ListedNow(s) = <<node>> \o list
    BY <1>3, ListedNowIs
  <2> HIDE DEF have, list
  <2>7. Matches(list, have)
    BY <1>1 DEF have, list
  <2>8. DOMAIN have = 0 .. objNum /\ have[objNum] = {}
    BY <2>3 DEF have
  <2>9. Matches(<<node>> \o list, [have EXCEPT ![objNum] = node.fields])
    BY <2>1, <2>2, <2>5, <2>7, <2>8, PrependMatches
  <2>10. QED
    BY <2>4, <2>6, <2>9
<1>4. QED
  BY <1>2, <1>3

(* The line of a finished object stays what it was. *)
LEMMA LinesStay ==
  ASSUME TypeInv, BriefsInv, CountInv, Clean, [Next]_vars
  PROVE  \A s : \A o \in 0 .. objNum :
           \/ o = objNum /\ pc # "finish"
           \/ FieldsWith(LineOf(o), s)' = FieldsWith(LineOf(o), s)
<1>0. /\ Len(briefs) \in Nat /\ DOMAIN briefs = 1 .. Len(briefs)
      /\ DOMAIN read = 1 .. Len(read) /\ Len(read) \in Nat
      /\ \A i \in DOMAIN briefs : briefs[i].id \in DOMAIN read
      /\ objNum \in Nat
      /\ Len(briefs) = IF pc = "finish" THEN objNum + 1 ELSE objNum
  BY BriefsType DEF TypeInv, TypeOK, BriefsInv, CountInv
<1>1. \A n \in DOMAIN read : read'[n] = read[n]
  <2>1. read' = read \/ \E line \in Lines : read' = Append(read, line)
    BY DEF Next, vars, Started, InitFails, InitBroken, ReadLine, RefuseLine, NextLine,
           WriteBrief, BriefFails, IndexInfo, FinishObj, FinishFails, FinishReturns,
           EndOfInput, ReadFails, FlushTerm, FlushFails, FlushDone
  <2>2. read \in Seq(Lines)
    BY DEF TypeInv, TypeOK
  <2>3. QED
    BY <1>0, <2>1, <2>2
<1>2. \A i \in DOMAIN briefs : briefs'[i] = briefs[i]
  <2>1. CASE WriteBrief
    BY <2>1, BriefAppended
  <2>2. CASE UNCHANGED briefs
    BY <2>2
  <2>3. QED
    BY <2>1, <2>2
       DEF Next, vars, Started, InitFails, InitBroken, ReadLine, RefuseLine,
           BriefFails, IndexInfo, FinishObj, FinishFails, FinishReturns,
           EndOfInput, ReadFails, FlushTerm, FlushFails, FlushDone
<1>3. (objNum = 0 /\ pc # "finish") \/ UNCHANGED broken
  <2>1. CASE InitBroken
    <3>1. pc = "init" /\ read = <<>>
      BY <2>1 DEF InitBroken, TypeInv
    <3>2. Len(read) = 0
      BY <3>1
    <3>3. Len(briefs) = 0
      BY <1>0, <3>2
    <3>4. QED
      BY <1>0, <3>1, <3>3
  <2>2. QED
    BY <2>1
       DEF Next, vars, Started, InitFails, ReadLine, RefuseLine,
           WriteBrief, BriefFails, IndexInfo, FinishObj, FinishFails, FinishReturns,
           EndOfInput, ReadFails, FlushTerm, FlushFails, FlushDone
<1>4. ASSUME NEW o \in 0 .. objNum, NEW s, ~(o = objNum /\ pc # "finish")
      PROVE  FieldsWith(LineOf(o), s)' = FieldsWith(LineOf(o), s)
  <2>1. o + 1 \in DOMAIN briefs
    BY <1>0, <1>4
  <2>2. UNCHANGED broken
    BY <1>0, <1>3, <1>4
  <2>3. briefs'[o + 1] = briefs[o + 1] /\ read'[briefs[o + 1].id] = read[briefs[o + 1].id]
    BY <1>0, <1>1, <1>2, <2>1
  <2>4. LineOf(o)' = LineOf(o)
    BY <2>3 DEF LineOf
  <2>5. QED
    BY <2>2, <2>4 DEF FieldsWith, FieldMap
<1>5. QED
  BY <1>4

LEMMA IndexStep ==
  ASSUME TypeInv, TypeInv', ListsInv, OrderInv, OrderInv', BriefsInv, CountInv, IndexInv,
         [Next]_vars
  PROVE  IndexInv'
<1> SUFFICES ASSUME Clean', NEW s \in Nat \ {0}
             PROVE  Matches(Listed(s)', Haves(s)')
  BY DEF IndexInv, Matches
<1>0. objNum \in Nat
  BY DEF TypeInv, TypeOK
<1>1. Clean
  BY DEF Clean, Fault, Next, vars, Started, InitFails, InitBroken, ReadLine, RefuseLine,
         WriteBrief, BriefFails, IndexInfo, FinishObj, FinishFails,
         EndOfInput, ReadFails, FlushTerm, FlushFails, FlushDone
<1>2. \A o \in 0 .. objNum :
        \/ o = objNum /\ pc # "finish"
        \/ FieldsWith(LineOf(o), s)' = FieldsWith(LineOf(o), s)
  BY <1>1, LinesStay
<1>3. Matches(Listed(s), Haves(s))
  BY <1>1 DEF IndexInv
<1>4. CASE /\ UNCHANGED <<terms, objNum>>
           /\ pc # "finish"
           /\ pc' # "finish" \/ Handled' = {}
  <2>1. Listed(s)' = Listed(s)
    BY <1>4 DEF Listed
  <2>2. \A o \in 0 .. objNum : Haves(s)'[o] = Haves(s)[o]
    BY <1>0, <1>2, <1>4 DEF Haves, FieldsOf
  <2>3. Haves(s)' = Haves(s)
    BY <1>4, <2>2 DEF Haves
  <2>4. QED
    BY <1>3, <2>1, <2>3
<1>5. CASE IndexInfo
  <2> DEFINE h == Head(infos)
  <2>1. /\ pc = "finish" /\ pc' = "finish"
        /\ UNCHANGED objNum
        /\ terms' = TermsNow
    BY <1>5 DEF IndexInfo
  <2>2. Listed(s)' = ListedNow(s)
    BY <2>1 DEF Listed, ListedNow
  <2>3. /\ Handled' = Handled \cup {h}
        /\ \A d \in Handled : d.sign <= h.sign
        /\ Linking => lastSign < h.sign
        /\ node # NoNode /\ ~Linking => lastSign = h.sign
        /\ node = NoNode => Handled = {}
        /\ h \in Info
    BY <1>5, HeadIsNext
  <2>4. lastSign' = h.sign
    BY <1>5, NodeAfter
  <2>5. node # NoNode => \A d \in Handled : d.sign <= lastSign /\ d.sign \in Nat
    BY <2>1 DEF OrderInv, Handled, Info
  <2>6. h.sign \in Nat /\ lastSign \in Nat
    BY <2>3 DEF Info, TypeInv
  <2> HIDE DEF h
  <2>7. Haves(s)'[objNum] = HavesNow(s)[objNum]
    <3>1. Haves(s)'[objNum] = IF s # h.sign THEN FieldsOf(Handled \cup {h}, s) ELSE {}
      BY <1>0, <2>1, <2>3, <2>4 DEF Haves
    <3>2. HavesNow(s)[objNum] = IF Linking \/ s # lastSign THEN FieldsOf(Handled, s) ELSE {}
      BY <1>0 DEF HavesNow
    <3>3. CASE s # h.sign
      <4>1. FieldsOf(Handled \cup {h}, s) = FieldsOf(Handled, s)
        BY <3>3 DEF FieldsOf
      <4>2. node = NoNode => FieldsOf(Handled, s) = {}
        BY <2>3 DEF FieldsOf
      <4>3. QED
        BY <2>3, <3>1, <3>2, <3>3, <4>1, <4>2
    <3>4. CASE s = h.sign
      <4>1. Linking => \A d \in Handled : d.sign # s
        BY <2>3, <2>5, <2>6, <3>4 DEF Linking
      <4>2. Linking \/ node = NoNode => FieldsOf(Handled, s) = {}
        BY <2>3, <4>1 DEF FieldsOf
      <4>3. QED
        BY <2>3, <3>1, <3>2, <3>4, <4>2
    <3>5. QED
      BY <3>3, <3>4
  <2>8. \A o \in 0 .. objNum : o # objNum => Haves(s)'[o] = HavesNow(s)[o]
    BY <1>0, <1>2, <2>1 DEF Haves, HavesNow
  <2>9. Haves(s)' = [o \in 0 .. objNum |-> Haves(s)'[o]]
    BY <2>1 DEF Haves
  <2>10. HavesNow(s) = [o \in 0 .. objNum |-> HavesNow(s)[o]]
    BY DEF HavesNow
  <2>11. Haves(s)' = HavesNow(s)
    BY <2>7, <2>8, <2>9, <2>10
  <2>12. QED
    BY <1>1, <2>1, <2>2, <2>11, MatchesNow
<1>6. CASE FinishObj
  <2>1. /\ pc = "finish" /\ pc' = "line"
        /\ objNum' = objNum + 1
        /\ terms' = TermsNow
        /\ infos = <<>>
        /\ UNCHANGED <<read, broken, briefs>>
    BY <1>6 DEF FinishObj, FinishReturns, NextObj
  <2>2. Listed(s)' = ListedNow(s)
    BY <2>1 DEF Listed, ListedNow
  <2>3. Handled = LineInfos
    BY <2>1 DEF Handled, ToSet
  <2>4. FieldsWith(LineOf(objNum), s) = FieldsOf(Handled, s)
    <3>1. LineOf(objNum) = read[Len(read)]
      BY <1>0, <1>1, <2>1 DEF LineOf, BriefsInv, CountInv
    <3>2. QED
      BY <2>3, <3>1, FieldsOfLine DEF LineInfos
  <2>5. ~Linking => node = NoNode
    BY <2>1 DEF Linking, NextSign, TypeInv
  <2>6. ~Linking => FieldsOf(Handled, s) = {}
    BY <2>1, <2>5 DEF OrderInv, FieldsOf
  <2>7. HavesNow(s)[objNum] = FieldsOf(Handled, s)
    BY <1>0, <2>6 DEF HavesNow
  <2> DEFINE now == HavesNow(s)
             then == Haves(s)'
  <2>8. DOMAIN now = 0 .. objNum /\ DOMAIN then = 0 .. objNum + 1
    BY <2>1 DEF Haves, HavesNow
  <2>9. \A o \in 0 .. objNum : then[o] = now[o]
    <3>1. \A o \in 0 .. objNum : then[o] = FieldsWith(LineOf(o), s)'
      BY <1>0, <2>1 DEF Haves
    <3>2. \A o \in 0 .. objNum : FieldsWith(LineOf(o), s)' = FieldsWith(LineOf(o), s)
      BY <1>2, <2>1
    <3>3. \A o \in 0 .. objNum : o # objNum => now[o] = FieldsWith(LineOf(o), s)
      BY <1>0 DEF HavesNow
    <3>4. QED
      BY <2>4, <2>7, <3>1, <3>2, <3>3
  <2>10. then[objNum + 1] = {}
    BY <1>0, <2>1 DEF Haves
  <2>11. Matches(ListedNow(s), now)
    BY <1>1, <2>1, MatchesNow
  <2> HIDE DEF now, then
  <2>12. Matches(ListedNow(s), then)
    <3>1. \A o \in DOMAIN then : then[o] # {} => o \in DOMAIN now
      BY <1>0, <2>8, <2>10
    <3>2. QED
      BY <1>0, <2>8, <2>9, <2>11, <3>1 DEF Matches
  <2>13. QED
    BY <2>2, <2>12 DEF then
<1>7. CASE FinishFails
  BY <1>7 DEF FinishFails, Fault, Clean
<1>8. CASE WriteBrief
  <2>1. /\ pc = "brief" /\ pc' = "finish"
        /\ UNCHANGED <<read, broken, infos, node, terms, objNum>>
    BY <1>8 DEF WriteBrief, maker
  <2>2. node' = NoNode
    BY <2>1 DEF TypeInv
  <2>3. Handled' = {}
    BY <2>1, <2>2 DEF OrderInv
  <2>4. QED
    BY <1>4, <2>1, <2>3
<1>9. CASE vars' = vars
  <2>1. Listed(s)' = Listed(s) /\ Haves(s)' = Haves(s)
    BY <1>9 DEF vars, maker, Listed, Haves, FieldsWith, LineOf, FieldMap, Handled,
                LineInfos, InfoSet
  <2>2. QED
    BY <1>3, <2>1
<1>10. QED
  BY <1>4, <1>5, <1>6, <1>7, <1>8, <1>9
     DEF Next, vars, maker, Started, InitFails, InitBroken, NextLine, ReadLine, RefuseLine,
         BriefFails, AfterBrief, EndOfInput, ReadFails, FlushTerm, FlushFails, FlushDone

LEMMA IndexInit ==
  Init => IndexInv
<1> SUFFICES ASSUME Init, NEW s \in Nat \ {0}
             PROVE  Matches(Listed(s), Haves(s))
  BY DEF IndexInv
<1>1. Listed(s) = <<>>
  BY DEF Init, Listed
<1>2. DOMAIN Haves(s) = {0} /\ Haves(s)[0] = {}
  BY DEF Init, Haves
<1> DEFINE have == Haves(s)
<1> HIDE DEF have
<1>3. Matches(<<>>, have)
  BY <1>2 DEF have, Matches
<1>4. QED
  BY <1>1, <1>3 DEF have

(* A list that goes down has each object once. *)
LEMMA OncePerObject ==
  ASSUME NEW list \in Seq(Node), NEW have, Matches(list, have)
  PROVE  Len(list) = Cardinality({list[i].obj : i \in DOMAIN list})
<1> DEFINE n == Len(list)
           objs == {list[i].obj : i \in DOMAIN list}
           f == [i \in 1 .. n |-> list[i].obj]
<1>1. n \in Nat /\ DOMAIN list = 1 .. n
  <2> DEFINE S == Node
  <2> HIDE DEF S
  <2>1. list \in Seq(S)
    BY DEF S
  <2>2. QED
    BY <2>1
<1>2. \A i \in DOMAIN list : list[i].obj \in Nat
  <2> DEFINE S == Node
  <2>1. \A d \in S : d.obj \in Nat
    BY DEF Node
  <2> HIDE DEF S
  <2>2. list \in Seq(S)
    BY DEF S
  <2>3. QED
    BY <2>1, <2>2
<1>3. \A i, j \in DOMAIN list : i < j => list[i].obj > list[j].obj
  BY DEF Matches
<1>4. f \in Injection(1 .. n, objs)
  <2>1. f \in [1 .. n -> objs]
    BY <1>1
  <2>2. ASSUME NEW i \in 1 .. n, NEW j \in 1 .. n, f[i] = f[j]
        PROVE  i = j
    <3>1. list[i].obj = list[j].obj
      BY <2>2
    <3>2. ~(i < j) /\ ~(j < i)
      BY <1>1, <1>2, <1>3, <3>1
    <3>3. QED
      BY <1>1, <3>2
  <2>3. QED
    BY <2>1, <2>2 DEF Injection, IsInjective
<1>5. f \in Surjection(1 .. n, objs)
  BY <1>1 DEF Surjection
<1>6. IsFiniteSet(1 .. n) /\ Cardinality(1 .. n) = n
  BY <1>1, FS_Interval
<1> HIDE DEF f, objs
<1>7. Cardinality(objs) = Cardinality(1 .. n)
  BY <1>4, <1>5, <1>6, FS_Surjection
<1>8. QED
  BY <1>6, <1>7 DEF objs

(* Between two lines the index is the inverse of the accepted lines. *)
THEOREM IndexInverts ==
  Spec => []InvertedIndex
<1>1. TypeInv /\ CountInv /\ IndexInv => InvertedIndex
  <2> SUFFICES ASSUME TypeInv, CountInv, IndexInv, BetweenLines, Clean,
                      NEW s \in Signs
               PROVE  LET list == Listed(s)
                          objs == {o \in 0 .. Len(briefs) - 1 : FieldsWith(LineOf(o), s) # {}}
                      IN  /\ {list[i].obj : i \in DOMAIN list} = objs
                          /\ Len(list) = Cardinality(objs)
                          /\ \A i \in DOMAIN list :
                               list[i].fields = FieldsWith(LineOf(list[i].obj), s)
    BY DEF InvertedIndex, Clean
  <2>1. s \in Nat \ {0}
    BY BuilderInput DEF Signs
  <2>2. objNum \in Nat /\ Len(briefs) = objNum /\ pc # "finish"
    BY DEF TypeInv, TypeOK, BetweenLines, CountInv
  <2> DEFINE list == Listed(s)
             have == Haves(s)
             fields(o) == FieldsWith(LineOf(o), s)
             objs == {o \in 0 .. Len(briefs) - 1 : fields(o) # {}}
  <2>3. Matches(list, have) /\ list \in Seq(Node)
    BY <2>1, ListedType DEF IndexInv
  <2>4. /\ DOMAIN have = 0 .. objNum
        /\ have[objNum] = {}
        /\ \A o \in 0 .. objNum - 1 : have[o] = fields(o)
    BY <2>2 DEF Haves
  <2>5. Len(list) = Cardinality({list[i].obj : i \in DOMAIN list})
    BY <2>3, OncePerObject
  <2> HIDE DEF list, have, fields
  <2>6. \A i \in DOMAIN list : /\ list[i].obj \in 0 .. objNum - 1
                                /\ list[i].fields = fields(list[i].obj)
                                /\ list[i].fields # {}
    BY <2>2, <2>3, <2>4 DEF Matches
  <2>7. \A o \in objs : \E i \in DOMAIN list : list[i].obj = o
    BY <2>2, <2>3, <2>4 DEF Matches
  <2>8. {list[i].obj : i \in DOMAIN list} = objs
    BY <2>2, <2>6, <2>7
  <2>9. QED
    BY <2>5, <2>6, <2>8 DEF list, fields
<1>2. Init => ListsInv
  BY DEF Init, ListsInv, NumMatches, ListsDescend
<1>3. QED
  BY <1>1, <1>2, TypeInit, TypeStep, ListsStep, BriefsInit, OrderStep, BriefsStep,
     CountStep, IndexInit, IndexStep, PTL DEF Spec

-----------------------------------------------------------------------------
(***************************************************************************)
(* The runs of hits                                                        *)
(***************************************************************************)
RunOk(file, objs, n, s) ==
  LET run == Run(file, objs[n.obj + 1].id, s)
  IN  /\ run = n.off + 1 .. n.off + Cardinality(run)
      /\ n.num = Cardinality(run) % HitMod

LEMMA HitRunsIs ==
  HitRuns <=> (Clean => \A s \in DOMAIN terms : \A i \in DOMAIN terms[s].index :
                          RunOk(hits, briefs, terms[s].index[i], s))
  BY DEF HitRuns, RunOk, Run, Clean

LEMMA HitRunsNext ==
  HitRuns' <=> (Clean' => \A s \in DOMAIN terms' : \A i \in DOMAIN terms'[s].index :
                            RunOk(hits', briefs', terms'[s].index[i], s))
  BY DEF HitRuns, RunOk, Run, Clean

LEMMA HitsType ==
  ASSUME TypeInv
  PROVE  /\ Len(hits) \in Nat /\ DOMAIN hits = 1 .. Len(hits)
         /\ \A h \in DOMAIN hits : /\ hits[h] = <<hits[h][1], hits[h][2]>>
                                   /\ hits[h][1] \in Nat /\ hits[h][2] \in Nat
<1> DEFINE S == Nat \X Nat
<1>1. \A p \in S : p = <<p[1], p[2]>> /\ p[1] \in Nat /\ p[2] \in Nat
  OBVIOUS
<1> HIDE DEF S
<1>2. hits \in Seq(S)
  BY DEF TypeInv, S
<1>3. Len(hits) \in Nat /\ DOMAIN hits = 1 .. Len(hits)
  BY <1>2
<1>4. \A h \in DOMAIN hits : hits[h] \in S
  BY <1>2, <1>3
<1>5. QED
  BY <1>1, <1>3, <1>4

(* The brief of an object before the current one is of an earlier line. *)
LEMMA EarlierLine ==
  ASSUME TypeInv, BriefsInv, CountInv, Clean, pc = "finish"
  PROVE  /\ briefs[objNum + 1].id = Len(read)
         /\ \A o \in 0 .. objNum - 1 :
              briefs[o + 1].id \in Nat /\ briefs[o + 1].id < Len(read)
<1>1. /\ objNum \in Nat
      /\ DOMAIN briefs = 1 .. objNum + 1
      /\ Len(briefs) = objNum + 1
      /\ \A i \in DOMAIN briefs : briefs[i].id \in Nat
  BY BriefsType DEF TypeInv, TypeOK, CountInv
<1>2. briefs[objNum + 1].id = Len(read)
  BY <1>1 DEF BriefsInv
<1>3. ASSUME NEW o \in 0 .. objNum - 1
      PROVE  briefs[o + 1].id \in Nat /\ briefs[o + 1].id < Len(read)
  <2>1. o + 1 \in DOMAIN briefs /\ objNum + 1 \in DOMAIN briefs /\ o + 1 < objNum + 1
    BY <1>1
  <2>2. QED
    BY <1>1, <1>2, <2>1 DEF BriefsInv
<1>4. QED
  BY <1>2, <1>3

(* The node that is linked has its run. *)
LEMMA RunsNow ==
  ASSUME TypeInv, ListsInv, BriefsInv, CountInv, HitsInv, Clean, pc = "finish"
  PROVE  \A s \in DOMAIN TermsNow : \A i \in DOMAIN TermsNow[s].index :
           RunOk(hits, briefs, TermsNow[s].index[i], s)
<1>1. \A s \in DOMAIN terms : \A i \in DOMAIN terms[s].index : RunOk(hits, briefs, terms[s].index[i], s)
  BY HitRunsIs DEF HitsInv
<1>2. CASE ~Linking
  BY <1>1, <1>2, TermsNowIs
<1>3. CASE Linking
  <2>1. /\ node \in Node /\ node.obj = objNum
        /\ node.off < Len(hits)
        /\ Run(hits, Len(read), lastSign) = node.off + 1 .. Len(hits)
        /\ node.num = (Len(hits) - node.off) % HitMod
    BY <1>3 DEF Linking, TypeInv, TypeOK, ListsInv, HitsInv
  <2>2. node.off \in Nat /\ Len(hits) \in Nat
    BY <2>1, HitsType DEF Node
  <2>3. Cardinality(Run(hits, Len(read), lastSign)) = Len(hits) - node.off
    <3>1. node.off + 1 \in Int /\ Len(hits) \in Int /\ ~(node.off + 1 > Len(hits))
      BY <2>1, <2>2
    <3>2. Cardinality(node.off + 1 .. Len(hits)) = Len(hits) - (node.off + 1) + 1
      BY <3>1, FS_Interval
    <3>3. QED
      BY <2>1, <2>2, <3>2
  <2>4. RunOk(hits, briefs, node, lastSign)
    <3>1. briefs[node.obj + 1].id = Len(read)
      BY <2>1, EarlierLine
    <3>2. node.off + (Len(hits) - node.off) = Len(hits)
      BY <2>2
    <3>3. QED
      BY <2>1, <2>3, <3>1, <3>2 DEF RunOk
  <2>5. \A s \in DOMAIN TermsNow : TermsNow[s].index = ListedNow(s)
    BY DEF ListedNow
  <2>6. \A s : ListedNow(s) = IF Linking /\ s = lastSign THEN <<node>> \o Listed(s)
                                                        ELSE Listed(s)
    BY ListedNowIs
  <2>7. \A s : \A i \in DOMAIN Listed(s) : RunOk(hits, briefs, Listed(s)[i], s)
    BY <1>1 DEF Listed
  <2>8. \A i \in DOMAIN (<<node>> \o Listed(lastSign)) :
          RunOk(hits, briefs, (<<node>> \o Listed(lastSign))[i], lastSign)
    <3> DEFINE list == Listed(lastSign)
               new == <<node>> \o list
    <3>1. /\ new[1] = node
          /\ \A i \in DOMAIN new : i # 1 => i - 1 \in DOMAIN list /\ new[i] = list[i - 1]
      BY <2>1, ListedType, Prepended
    <3> HIDE DEF new, list, RunOk
    <3>2. \A i \in DOMAIN list : RunOk(hits, briefs, list[i], lastSign)
      BY <2>7 DEF list
    <3>3. \A i \in DOMAIN new : RunOk(hits, briefs, new[i], lastSign)
      BY <2>4, <3>1, <3>2
    <3>4. QED
      BY <3>3 DEF new, list
  <2> HIDE DEF RunOk
  <2>9. \A s : \A i \in DOMAIN ListedNow(s) : RunOk(hits, briefs, ListedNow(s)[i], s)
    BY <2>6, <2>7, <2>8
  <2>10. QED
    BY <2>5, <2>9
<1>4. QED
  BY <1>2, <1>3

(* A hit of one line and sign does not touch the run of another. *)
LEMMA OtherRuns ==
  ASSUME TypeInv, NEW hit, hits' = Append(hits, hit), NEW id, NEW s, <<id, s>> # hit
  PROVE  Run(hits', id, s) = Run(hits, id, s)
<1>1. hits \in Seq(Nat \X Nat)
  BY DEF TypeInv
<1>2. /\ Len(hits) \in Nat /\ DOMAIN hits = 1 .. Len(hits)
      /\ DOMAIN hits' = 1 .. Len(hits) + 1
      /\ \A h \in DOMAIN hits : hits'[h] = hits[h]
      /\ hits'[Len(hits) + 1] = hit
  <2> DEFINE S == Nat \X Nat
  <2> HIDE DEF S
  <2>1. hits \in Seq(S)
    BY <1>1 DEF S
  <2>2. QED
    BY <2>1
<1>3. \A h \in DOMAIN hits' : h \in DOMAIN hits \/ h = Len(hits) + 1
  BY <1>2
<1> DEFINE A == {h \in DOMAIN hits' : hits'[h] = <<id, s>>}
           B == {h \in DOMAIN hits : hits[h] = <<id, s>>}
<1>4. A = B
  <2>1. \A h \in A : h \in B
    BY <1>2, <1>3
  <2>2. \A h \in B : h \in A
    BY <1>2
  <2>3. QED
    BY <2>1, <2>2
<1>5. QED
  BY <1>4 DEF Run

(* What is in a list, of the current object too, was handled and linked.   *)
LEMMA LinkedObjects ==
  ASSUME TypeInv, ListsInv, OrderInv, IndexInv, Clean, pc = "finish",
         NEW s \in DOMAIN TermsNow, NEW i \in DOMAIN TermsNow[s].index
  PROVE  LET n == TermsNow[s].index[i]
         IN  \/ n.obj \in 0 .. objNum - 1
             \/ /\ n.obj = objNum
                /\ Linking \/ s # lastSign
                /\ \E d \in Handled : d.sign = s
<1> DEFINE n == TermsNow[s].index[i]
<1>1. s \in Nat \ {0} /\ objNum \in Nat
  BY TermsNowType DEF TermsType, TypeInv, TypeOK
<1>2. Matches(ListedNow(s), HavesNow(s))
  BY <1>1, MatchesNow
<1>3. ListedNow(s) = TermsNow[s].index
  BY DEF ListedNow
<1>4. /\ n.obj \in DOMAIN HavesNow(s)
      /\ HavesNow(s)[n.obj] # {}
  BY <1>2, <1>3 DEF Matches
<1> HIDE DEF n
<1>5. n.obj \in 0 .. objNum
  BY <1>4 DEF HavesNow
<1>6. CASE n.obj = objNum
  <2>1. (Linking \/ s # lastSign) /\ FieldsOf(Handled, s) # {}
    BY <1>1, <1>4, <1>5, <1>6 DEF HavesNow
  <2>2. \E d \in Handled : d.sign = s
    BY <2>1 DEF FieldsOf
  <2>3. QED
    BY <1>6, <2>1, <2>2 DEF n
<1>7. CASE n.obj # objNum
  BY <1>1, <1>5, <1>7 DEF n
<1>8. QED
  BY <1>6, <1>7

LEMMA HitsStep ==
  ASSUME TypeInv, ListsInv, OrderInv, BriefsInv, CountInv, IndexInv, HitsInv,
         [Next]_vars
  PROVE  HitsInv'
<1> SUFFICES ASSUME Clean'
             PROVE  HitsInv'
  BY DEF HitsInv
<1>1. Clean
  BY DEF Clean, Fault, Next, vars, Started, InitFails, InitBroken, ReadLine, RefuseLine,
         WriteBrief, BriefFails, IndexInfo, FinishObj, FinishFails,
         EndOfInput, ReadFails, FlushTerm, FlushFails, FlushDone
<1>2. /\ Len(hits) \in Nat /\ DOMAIN hits = 1 .. Len(hits)
      /\ \A h \in DOMAIN hits : /\ hits[h] = <<hits[h][1], hits[h][2]>>
                                /\ hits[h][1] \in Nat /\ hits[h][2] \in Nat
      /\ Len(read) \in Nat /\ objNum \in Nat /\ lastSign \in Nat
      /\ read \in Seq(Lines)
  BY HitsType DEF TypeInv, TypeOK
<1>3. /\ \A h \in DOMAIN hits :
           /\ hits[h][1] <= Len(read)
           /\ pc = "brief" => hits[h][1] < Len(read)
           /\ pc = "finish" /\ hits[h][1] = Len(read) => hits[h][2] <= lastSign
      /\ node # NoNode =>
           /\ node.off < Len(hits)
           /\ Run(hits, Len(read), lastSign) = node.off + 1 .. Len(hits)
           /\ node.num = (Len(hits) - node.off) % HitMod
      /\ \A s \in DOMAIN terms : \A i \in DOMAIN terms[s].index :
           RunOk(hits, briefs, terms[s].index[i], s)
  BY <1>1, HitRunsIs DEF HitsInv
<1>4. CASE /\ UNCHANGED <<read, hits, briefs, terms, node, lastSign>>
           /\ pc' \in {"brief", "finish"} => pc' = pc
  <2>1. HitRuns'
    BY <1>3, <1>4, HitRunsNext
  <2>2. QED
    BY <1>3, <1>4, <2>1 DEF HitsInv
<1>5. ASSUME NEW line \in Lines, ReadLine(line) \/ RefuseLine(line)
      PROVE  HitsInv'
  <2>1. /\ read' = Append(read, line)
        /\ UNCHANGED <<node, terms, hits, briefs>>
        /\ pc = "line" /\ pc' # "finish"
    BY <1>5 DEF ReadLine, RefuseLine, NextLine, maker
  <2>2. node' = NoNode
    BY <2>1 DEF TypeInv
  <2>3. Len(read') = Len(read) + 1
    BY <1>2, <2>1
  <2>4. HitRuns'
    BY <1>3, <2>1, HitRunsNext
  <2>5. \A h \in DOMAIN hits : hits[h][1] < Len(read')
    BY <1>2, <1>3, <2>3
  <2>6. \A h \in DOMAIN hits : hits[h][1] <= Len(read')
    BY <1>2, <2>3, <2>5
  <2>7. QED
    BY <2>1, <2>2, <2>4, <2>5, <2>6 DEF HitsInv
<1>6. CASE WriteBrief
  <2>1. /\ pc = "brief" /\ pc' = "finish"
        /\ UNCHANGED <<read, node, terms, hits>>
    BY <1>6 DEF WriteBrief, maker
  <2>2. node' = NoNode
    BY <2>1 DEF TypeInv
  <2>3. \A h \in DOMAIN hits : hits[h][1] # Len(read)
    BY <1>2, <1>3, <2>1
  <2>4. ASSUME NEW s \in DOMAIN terms, NEW i \in DOMAIN terms[s].index
        PROVE  briefs'[terms[s].index[i].obj + 1] = briefs[terms[s].index[i].obj + 1]
    <3> DEFINE n == terms[s].index[i]
    <3>1. s \in Nat \ {0} /\ Listed(s) = terms[s].index
      BY DEF TypeInv, Listed
    <3>2. n.obj \in DOMAIN Haves(s) /\ Haves(s)[n.obj] # {}
      BY <1>1, <3>1 DEF IndexInv, Matches
    <3> HIDE DEF n
    <3>3. n.obj \in 0 .. objNum
      BY <3>2 DEF Haves
    <3>4. Haves(s)[objNum] = {}
      BY <1>2, <2>1 DEF Haves
    <3>5. n.obj # objNum
      BY <3>2, <3>4
    <3>6. Len(briefs) = objNum
      BY <1>1, <2>1 DEF CountInv
    <3>7. n.obj + 1 \in DOMAIN briefs
      BY <1>2, <3>3, <3>5, <3>6, BriefsType
    <3>8. QED
      BY <1>6, <3>7, BriefAppended DEF n
  <2>5. HitRuns'
    BY <1>3, <2>1, <2>4, HitRunsNext DEF RunOk
  <2>6. QED
    BY <1>3, <2>1, <2>2, <2>3, <2>5 DEF HitsInv
<1>7. CASE IndexInfo
  <2> DEFINE h == Head(infos)
             begun == IF node = NoNode \/ Linking THEN NewNode ELSE node
             hit == <<Len(read), h.sign>>
  <2>1. /\ pc = "finish" /\ pc' = "finish"
        /\ hits' = Append(hits, hit)
        /\ terms' = TermsNow
        /\ UNCHANGED <<read, briefs, objNum>>
    BY <1>7 DEF IndexInfo
  <2>2. /\ h \in Info
        /\ \A d \in Handled : d.sign <= h.sign
        /\ Linking => lastSign < h.sign
        /\ node # NoNode /\ ~Linking => lastSign = h.sign
        /\ node = NoNode => Handled = {}
    BY <1>7, HeadIsNext
  <2>3. /\ node' # NoNode
        /\ node'.off = begun.off
        /\ node'.num = (begun.num + 1) % HitMod
        /\ lastSign' = h.sign
        /\ begun \in Node
    BY <1>7, NodeAfter
  <2>4. h.sign \in Nat \ {0}
    BY <2>2 DEF Info
  <2>5. /\ Len(hits') = Len(hits) + 1
        /\ DOMAIN hits' = 1 .. Len(hits) + 1
        /\ \A k \in DOMAIN hits : hits'[k] = hits[k]
        /\ hits'[Len(hits) + 1] = hit
    <3> DEFINE S == Nat \X Nat
    <3> HIDE DEF S, hit
    <3>1. hits \in Seq(S)
      BY DEF TypeInv, S
    <3>2. QED
      BY <1>2, <2>1, <3>1
  <2>6. node = NoNode => lastSign = 0
    BY DEF TypeInv, NoSign
  <2>7. lastSign <= h.sign
    BY <1>2, <2>2, <2>4, <2>6
  <2> HIDE DEF h, begun
  <2>8. \A k \in DOMAIN hits' : /\ hits'[k][1] <= Len(read)
                                /\ hits'[k][1] = Len(read) => hits'[k][2] <= h.sign
    <3> TAKE k \in DOMAIN hits'
    <3>1. CASE k \in DOMAIN hits
      BY <1>2, <1>3, <2>1, <2>4, <2>5, <2>7, <3>1
    <3>2. CASE k = Len(hits) + 1
      BY <1>2, <2>4, <2>5, <3>2
    <3>3. QED
      BY <1>2, <2>5, <3>1, <3>2
  <2>9. /\ node'.off < Len(hits')
        /\ Run(hits', Len(read), h.sign) = node'.off + 1 .. Len(hits')
        /\ node'.num = (Len(hits') - node'.off) % HitMod
    <3> DEFINE before == Run(hits, Len(read), h.sign)
               after == Run(hits', Len(read), h.sign)
    <3>1. \A k : k \in after <=> k \in before \/ k = Len(hits) + 1
      BY <1>2, <2>5 DEF Run
    <3>2. CASE node # NoNode /\ ~Linking
      <4>1. h.sign = lastSign /\ begun = node
        BY <2>2, <3>2 DEF begun
      <4>2. before = node.off + 1 .. Len(hits) /\ node.off < Len(hits)
        BY <1>3, <3>2, <4>1
      <4>3. node.off \in Nat
        BY <2>3, <4>1 DEF Node
      <4> HIDE DEF before, after
      <4>4. after = node.off + 1 .. Len(hits) + 1
        <5>1. \A k : k \in after <=> k \in node.off + 1 .. Len(hits) + 1
          BY <1>2, <3>1, <4>2, <4>3
        <5>2. QED
          BY <5>1
      <4>5. node.num = (Len(hits) - node.off) % HitMod
        BY <1>3, <3>2
      <4>6. Len(hits) - node.off \in Nat
        BY <1>2, <4>2, <4>3
      <4>7. (node.num + 1) % HitMod = ((Len(hits) - node.off) + 1) % HitMod
        BY <4>5, <4>6, ModSuccessor, MakeIndexAssumption
      <4>8. (Len(hits) - node.off) + 1 = (Len(hits) + 1) - node.off
        BY <1>2, <4>3
      <4>9. QED
        BY <1>2, <2>3, <2>5, <4>1, <4>2, <4>3, <4>4, <4>7, <4>8 DEF after
    <3>3. CASE node = NoNode \/ Linking
      <4>1. begun.off = Len(hits) /\ begun.num = 0
        BY <3>3 DEF begun, NewNode
      <4>2. lastSign < h.sign
        BY <2>2, <2>4, <2>6, <3>3
      <4>3. before = {}
        BY <1>2, <1>3, <2>1, <2>4, <4>2 DEF Run
      <4> HIDE DEF before, after
      <4>4. after = Len(hits) + 1 .. Len(hits) + 1
        BY <1>2, <3>1, <4>3
      <4>5. (Len(hits) + 1) - Len(hits) = 1 /\ Len(hits) < Len(hits) + 1 /\ 0 + 1 = 1
        BY <1>2
      <4>6. QED
        BY <2>3, <2>5, <4>1, <4>4, <4>5 DEF after
    <3>4. QED
      BY <3>2, <3>3
  <2>10. HitRuns'
    <3> SUFFICES ASSUME NEW s \in DOMAIN TermsNow, NEW i \in DOMAIN TermsNow[s].index
                 PROVE  RunOk(hits', briefs, TermsNow[s].index[i], s)
      BY <2>1, HitRunsNext
    <3> DEFINE n == TermsNow[s].index[i]
               id == briefs[n.obj + 1].id
    <3>1. RunOk(hits, briefs, n, s)
      BY <1>1, <2>1, RunsNow
    <3>2. <<id, s>> # hit
      <4>1. \/ n.obj \in 0 .. objNum - 1
            \/ /\ n.obj = objNum
               /\ Linking \/ s # lastSign
               /\ \E d \in Handled : d.sign = s
        BY <1>1, <2>1, LinkedObjects
      <4> HIDE DEF n
      <4>2. CASE n.obj \in 0 .. objNum - 1
        <5>1. id \in Nat /\ id < Len(read)
          BY <1>1, <2>1, <4>2, EarlierLine
        <5>2. QED
          BY <1>2, <5>1
      <4>3. CASE /\ Linking \/ s # lastSign
                 /\ \E d \in Handled : d.sign = s
        <5>1. PICK d \in Handled : d.sign = s
          BY <4>3
        <5>2. node # NoNode
          BY <2>2, <5>1
        <5>3. d.sign <= lastSign /\ s \in Nat
          BY <2>1, <5>1, <5>2 DEF OrderInv, Handled, Info
        <5>4. s # h.sign
          BY <1>2, <2>2, <2>4, <4>3, <5>1, <5>2, <5>3
        <5>5. QED
          BY <5>4
      <4>4. QED
        BY <4>1, <4>2, <4>3
    <3>3. Run(hits', id, s) = Run(hits, id, s)
      BY <2>1, <3>2, OtherRuns
    <3>4. QED
      BY <3>1, <3>3 DEF RunOk
  <2>11. Len(read') = Len(read) /\ Len(read) \in Nat
    BY <1>2, <2>1
  <2>12. \A k \in DOMAIN hits' :
           /\ hits'[k][1] <= Len(read')
           /\ hits'[k][1] = Len(read') => hits'[k][2] <= lastSign'
    <3> TAKE k \in DOMAIN hits'
    <3>1. hits'[k][1] <= Len(read) /\ (hits'[k][1] = Len(read) => hits'[k][2] <= h.sign)
      BY <2>8
    <3>2. QED
      BY <2>3, <2>11, <3>1
  <2>13. /\ node'.off < Len(hits')
         /\ Run(hits', Len(read'), lastSign') = node'.off + 1 .. Len(hits')
         /\ node'.num = (Len(hits') - node'.off) % HitMod
    BY <2>3, <2>9, <2>11
  <2>14. pc' # "brief"
    BY <2>1
  <2>15. QED
    BY <2>10, <2>12, <2>13, <2>14 DEF HitsInv
<1>8. CASE FinishObj
  <2>1. /\ pc = "finish" /\ pc' = "line"
        /\ terms' = TermsNow /\ node' = NoNode
        /\ UNCHANGED <<read, briefs, hits>>
    BY <1>8 DEF FinishObj, FinishReturns
  <2>2. \A s \in DOMAIN TermsNow : \A i \in DOMAIN TermsNow[s].index :
          RunOk(hits, briefs, TermsNow[s].index[i], s)
    BY <1>1, <2>1, RunsNow
  <2>3. HitRuns'
    BY <2>1, <2>2, HitRunsNext
  <2>4. QED
    BY <1>3, <2>1, <2>3 DEF HitsInv
<1>9. CASE FinishFails
  BY <1>9 DEF FinishFails, Fault, Clean
<1>10. QED
  BY <1>4, <1>5, <1>6, <1>7, <1>8, <1>9
     DEF Next, vars, maker, Started, InitFails, InitBroken,
         BriefFails, AfterBrief, EndOfInput, ReadFails, FlushTerm, FlushFails, FlushDone

LEMMA HitsInit ==
  Init => HitsInv
  BY DEF Init, HitsInv, HitRuns

(* The run of a node has the hits of its object and sign, and num counts   *)
(* them in 11 bits.                                                        *)
THEOREM HitsCorrect ==
  Spec => []HitRuns
<1>1. HitsInv => HitRuns
  BY DEF HitsInv, HitRuns, Clean
<1>2. Init => ListsInv
  BY DEF Init, ListsInv, NumMatches, ListsDescend
<1>3. QED
  BY <1>1, <1>2, TypeInit, TypeStep, ListsStep, BriefsInit, OrderStep, BriefsStep,
     CountStep, IndexInit, IndexStep, HitsInit, HitsStep, PTL DEF Spec
-----------------------------------------------------------------------------
(***************************************************************************)
(* What is written, and what is not                                        *)
(***************************************************************************)

(* A maker without fields accepts no call, and makes no info. *)
LEMMA BrokenInfos ==
  ASSUME NEW line \in Lines, ReadLine(line) \/ RefuseLine(line), broken
  PROVE  infos' = <<>>
<1>1. PICK calls : Accepted(calls) /\ infos' = Infos(calls)
  BY NextInfos
<1>2. DOMAIN FieldMap = {}
  BY DEF FieldMap
<1>3. DOMAIN calls = {}
  BY <1>1, <1>2 DEF Accepted
<1>4. InfoSet(calls) = {}
  BY <1>3, InfoSetMembers
<1>5. Infos(calls) \in Seq(Info) /\ ToSet(Infos(calls)) = {}
  BY <1>1, <1>4, InfosProperties
<1> DEFINE seq == Infos(calls)
           S == Info
<1> HIDE DEF seq, S
<1>6. seq \in Seq(S) /\ \A i \in DOMAIN seq : seq[i] \in {}
  BY <1>5 DEF seq, S, ToSet
<1>7. Len(seq) \in Nat /\ DOMAIN seq = 1 .. Len(seq)
  BY <1>6
<1>8. Len(seq) = 0
  <2>1. 1 \notin DOMAIN seq
    BY <1>6
  <2>2. QED
    BY <1>7, <2>1
<1>9. seq = <<>>
  BY <1>6, <1>8
<1>10. QED
  BY <1>1, <1>9 DEF seq

LEMMA BrokenInit ==
  Init => BrokenInv
  BY DEF Init, BrokenInv

LEMMA BrokenStep ==
  ASSUME TypeInv, ListsInv, BrokenInv, [Next]_vars
  PROVE  BrokenInv'
<1>0. /\ broken \/ pc = "init" => infos = <<>> /\ terms = <<>> /\ node = NoNode
      /\ pc \notin {"flush", "done", "failed", "crashed"} => termFile = <<>>
      /\ pc = "failed" /\ termFile # <<>> => "flush" \in faulted
      /\ broken => termFile = <<>>
  BY DEF BrokenInv
<1>1. broken => ~Linking /\ TermsNow = terms
  BY <1>0 DEF Linking, TermsNow
<1>2. CASE Started \/ InitFails
  BY <1>0, <1>2 DEF Started, InitFails, Fault, maker, flushVars, BrokenInv
<1>3. CASE InitBroken
  <2>1. pc = "init" /\ pc' = "line" /\ UNCHANGED <<infos, maker, flushVars>>
    BY <1>3 DEF InitBroken
  <2>2. infos = <<>> /\ terms = <<>> /\ node = NoNode /\ termFile = <<>>
    BY <1>0, <2>1
  <2>3. QED
    BY <2>1, <2>2 DEF BrokenInv, maker, flushVars
<1>4. ASSUME NEW line \in Lines, ReadLine(line) \/ RefuseLine(line)
      PROVE  BrokenInv'
  <2>1. broken => infos' = <<>>
    BY <1>4, BrokenInfos
  <2>2. UNCHANGED <<broken, terms, node, termFile>> /\ pc = "line"
        /\ pc' \in {"line", "brief"}
    BY <1>4 DEF ReadLine, RefuseLine, NextLine, maker, flushVars
  <2>3. QED
    BY <1>0, <2>1, <2>2 DEF BrokenInv
<1>5. CASE WriteBrief \/ BriefFails
  BY <1>0, <1>5 DEF WriteBrief, BriefFails, AfterBrief, Fault, maker, flushVars, BrokenInv
<1>6. CASE IndexInfo
  BY <1>0, <1>6 DEF IndexInfo, flushVars, BrokenInv, TypeInv
<1>7. CASE FinishObj \/ FinishFails
  BY <1>0, <1>1, <1>7 DEF FinishObj, FinishFails, FinishReturns, Fault, flushVars, BrokenInv
<1>8. CASE EndOfInput \/ ReadFails
  BY <1>0, <1>8 DEF EndOfInput, ReadFails, Fault, maker, flushVars, BrokenInv
<1>9. CASE FlushTerm
  <2>1. pc = "flush" /\ todo # <<>> /\ todo \in Seq(DOMAIN terms)
    BY <1>9 DEF FlushTerm, TypeInv
  <2>2. Head(todo) \in DOMAIN terms
    BY <2>1
  <2>3. ~broken
    BY <1>0, <2>2
  <2>4. terms[Head(todo)].num = Len(terms[Head(todo)].index)
    BY <2>2 DEF ListsInv, NumMatches
  <2>5. UNCHANGED <<pc, broken>>
    BY <1>9, <2>4 DEF FlushTerm
  <2>6. QED
    BY <2>1, <2>3, <2>5 DEF BrokenInv
<1>10. CASE FlushFails
  BY <1>0, <1>10 DEF FlushFails, Fault, maker, flushVars, BrokenInv
<1>11. CASE FlushDone
  BY <1>0, <1>11 DEF FlushDone, maker, flushVars, BrokenInv
<1>12. CASE UNCHANGED vars
  BY <1>0, <1>12 DEF vars, maker, flushVars, BrokenInv
<1>13. QED
  BY <1>2, <1>3, <1>4, <1>5, <1>6, <1>7, <1>8, <1>9, <1>10, <1>11, <1>12 DEF Next

(* FlushTerm appends the record of the first sign to be written. *)
LEMMA TermWritten ==
  ASSUME TypeInv, ListsInv, FlushInv, FlushTerm
  PROVE  LET s == Head(todo)
             n == Len(termFile)
         IN  /\ s \in DOMAIN terms
             /\ UNCHANGED <<pc, terms>>
             /\ todo' = Tail(todo)
             /\ termFile' \in Seq([sign : Nat, num : Nat, index : Seq(Node)])
             /\ n \in Nat /\ DOMAIN termFile = 1 .. n /\ DOMAIN termFile' = 1 .. n + 1
             /\ \A i \in 1 .. n : termFile'[i] = termFile[i]
             /\ termFile'[n + 1] = [sign |-> s, num |-> terms[s].num, index |-> terms[s].index]
<1> DEFINE s == Head(todo)
           R == [sign : Nat, num : Nat, index : Seq(Node)]
           r == [sign |-> s, num |-> terms[s].num, index |-> terms[s].index]
<1>1. todo # <<>> /\ todo \in Seq(DOMAIN terms)
  BY DEF FlushTerm, TypeInv
<1>2. s \in DOMAIN terms
  BY <1>1
<1>3. terms[s] \in Term /\ s \in Nat
  BY <1>2 DEF TypeInv, TypeOK
<1>4. terms[s].num = Len(terms[s].index)
  BY <1>2 DEF ListsInv, NumMatches
<1>5. /\ termFile' = Append(termFile, r)
      /\ todo' = Tail(todo)
      /\ UNCHANGED <<pc, terms>>
  BY <1>4 DEF FlushTerm, maker
<1>6. r \in R
  BY <1>3 DEF Term
<1>7. termFile \in Seq(R)
  BY DEF FlushInv
<1> HIDE DEF R, r
<1>8. /\ termFile' \in Seq(R)
      /\ Len(termFile) \in Nat
      /\ DOMAIN termFile = 1 .. Len(termFile)
      /\ DOMAIN termFile' = 1 .. Len(termFile) + 1
      /\ \A i \in 1 .. Len(termFile) : termFile'[i] = termFile[i]
      /\ termFile'[Len(termFile) + 1] = r
  BY <1>5, <1>6, <1>7
<1>9. QED
  BY <1>2, <1>5, <1>8 DEF R, r

LEMMA TodoAfter ==
  ASSUME NEW S, NEW seq \in Seq(S), seq # <<>>
  PROVE  /\ Head(seq) = seq[1] /\ 1 \in DOMAIN seq
         /\ \A j \in DOMAIN Tail(seq) : j + 1 \in DOMAIN seq /\ Tail(seq)[j] = seq[j + 1]
         /\ \A j \in DOMAIN Tail(seq) : j \in Nat \ {0}
         /\ \A j \in DOMAIN seq : j = 1 \/ j - 1 \in DOMAIN Tail(seq)
         /\ \A j \in DOMAIN seq : j \in Nat \ {0}
  OBVIOUS

LEMMA FlushInit ==
  Init => FlushInv
  BY DEF Init, FlushInv, TermFileOk

LEMMA FlushStep ==
  ASSUME TypeInv, ListsInv, BrokenInv, FlushInv, [Next]_vars
  PROVE  FlushInv'
<1>1. CASE /\ UNCHANGED <<terms, todo, termFile>>
           /\ pc' \in {"flush", "done"} => pc' = pc
  BY <1>1 DEF FlushInv, TermFileOk
<1>2. CASE /\ UNCHANGED <<todo, termFile>>
           /\ pc \in {"init", "line", "brief", "finish"}
           /\ pc' \notin {"flush", "done"}
  <2>1. termFile = <<>>
    BY <1>2 DEF BrokenInv
  <2>2. QED
    BY <1>2, <2>1 DEF FlushInv, TermFileOk
<1>3. CASE EndOfInput
  <2>1. /\ pc = "line" /\ pc' = "flush"
        /\ todo' = Ascending(DOMAIN terms, TermCompare)
        /\ UNCHANGED <<terms, termFile>>
    BY <1>3 DEF EndOfInput, maker
  <2>2. termFile = <<>>
    BY <2>1 DEF BrokenInv
  <2>3. DOMAIN terms \subseteq Nat /\ IsFiniteSet(DOMAIN terms)
    BY DEF TypeInv
  <2>4. /\ ToSet(todo') = DOMAIN terms
        /\ \A i, j \in DOMAIN todo' : i < j => todo'[i] < todo'[j]
    BY <2>1, <2>3, SignsInOrder
  <2>5. QED
    BY <2>1, <2>2, <2>4 DEF FlushInv, TermFileOk
<1>4. CASE FlushTerm
  <2> DEFINE s == Head(todo)
             n == Len(termFile)
  <2>1. /\ s \in DOMAIN terms
        /\ UNCHANGED <<pc, terms>>
        /\ todo' = Tail(todo)
        /\ termFile' \in Seq([sign : Nat, num : Nat, index : Seq(Node)])
        /\ n \in Nat /\ DOMAIN termFile = 1 .. n /\ DOMAIN termFile' = 1 .. n + 1
        /\ \A i \in 1 .. n : termFile'[i] = termFile[i]
        /\ termFile'[n + 1] = [sign |-> s, num |-> terms[s].num, index |-> terms[s].index]
    BY <1>4, TermWritten
  <2>2. pc = "flush" /\ todo # <<>> /\ todo \in Seq(DOMAIN terms)
    BY <1>4 DEF FlushTerm, TypeInv
  <2>3. /\ s = todo[1] /\ 1 \in DOMAIN todo
        /\ \A j \in DOMAIN todo' : j + 1 \in DOMAIN todo /\ todo'[j] = todo[j + 1]
        /\ \A j \in DOMAIN todo' : j \in Nat \ {0}
        /\ \A j \in DOMAIN todo : j = 1 \/ j - 1 \in DOMAIN todo'
        /\ \A j \in DOMAIN todo : j \in Nat \ {0}
    BY <2>1, <2>2, TodoAfter
  <2>4. /\ \A i, j \in DOMAIN todo : i < j => todo[i] < todo[j]
        /\ \A i \in DOMAIN termFile, j \in DOMAIN todo : termFile[i].sign < todo[j]
    BY DEF FlushInv
  <2> HIDE DEF s, n
  <2>5. termFile'[n + 1].sign = s
    BY <2>1
  <2>6. \A i, j \in DOMAIN todo' : i < j => todo'[i] < todo'[j]
    BY <2>3, <2>4
  <2>7. \A i \in DOMAIN termFile', j \in DOMAIN todo' : termFile'[i].sign < todo'[j]
    <3> TAKE i \in DOMAIN termFile', j \in DOMAIN todo'
    <3>1. CASE i = n + 1
      BY <2>3, <2>4, <2>5, <3>1
    <3>2. CASE i # n + 1
      <4>1. i \in DOMAIN termFile /\ termFile'[i] = termFile[i]
        BY <2>1, <3>2
      <4>2. QED
        BY <2>3, <2>4, <4>1
    <3>3. QED
      BY <3>1, <3>2
  <2>8. \A i, j \in DOMAIN termFile' : i < j => termFile'[i].sign < termFile'[j].sign
    <3> TAKE i, j \in DOMAIN termFile'
    <3> HAVE i < j
    <3>1. i \in DOMAIN termFile /\ termFile'[i] = termFile[i]
      BY <2>1
    <3>2. CASE j = n + 1
      BY <2>3, <2>4, <2>5, <3>1, <3>2
    <3>3. CASE j # n + 1
      <4>1. j \in 1 .. n + 1 /\ j # n + 1 /\ n \in Nat
        BY <2>1, <3>3
      <4>2. j \in 1 .. n
        BY <4>1
      <4>3. j \in DOMAIN termFile /\ termFile'[j] = termFile[j]
        BY <2>1, <4>2
      <4>4. QED
        BY <3>1, <4>3 DEF FlushInv, TermFileOk
    <3>4. QED
      BY <3>2, <3>3
  <2>9. ASSUME NEW i \in DOMAIN termFile'
        PROVE  /\ termFile'[i].sign \in DOMAIN terms
               /\ termFile'[i].num = terms[termFile'[i].sign].num
               /\ termFile'[i].index = terms[termFile'[i].sign].index
    <3>1. CASE i = n + 1
      BY <2>1, <3>1
    <3>2. CASE i # n + 1
      <4>1. i \in DOMAIN termFile /\ termFile'[i] = termFile[i]
        BY <2>1, <3>2
      <4>2. QED
        BY <4>1 DEF FlushInv, TermFileOk
    <3>3. QED
      BY <3>1, <3>2
  <2>10. ASSUME NEW x \in DOMAIN terms
         PROVE  \/ \E i \in DOMAIN termFile' : termFile'[i].sign = x
                \/ x \in ToSet(todo')
    <3>1. CASE \E i \in DOMAIN termFile : termFile[i].sign = x
      <4>1. PICK i \in DOMAIN termFile : termFile[i].sign = x
        BY <3>1
      <4>2. i \in DOMAIN termFile' /\ termFile'[i] = termFile[i]
        BY <2>1
      <4>3. QED
        BY <4>1, <4>2
    <3>2. CASE x \in ToSet(todo)
      <4>1. PICK j \in DOMAIN todo : x = todo[j]
        BY <3>2 DEF ToSet
      <4>2. CASE j = 1
        <5>1. n + 1 \in DOMAIN termFile'
          BY <2>1
        <5>2. QED
          BY <2>3, <2>5, <4>1, <4>2, <5>1
      <4>3. CASE j # 1
        <5>1. j - 1 \in DOMAIN todo' /\ todo'[j - 1] = todo[j]
          BY <2>3, <4>3
        <5>2. QED
          BY <4>1, <5>1 DEF ToSet
      <4>4. QED
        BY <4>2, <4>3
    <3>3. QED
      BY <2>2, <3>1, <3>2 DEF FlushInv
  <2>11. QED
    BY <2>1, <2>2, <2>6, <2>7, <2>8, <2>9, <2>10 DEF FlushInv, TermFileOk
<1>5. CASE FlushDone
  <2>1. /\ pc = "flush" /\ todo = <<>> /\ pc' \in {"done", "crashed"}
        /\ UNCHANGED <<terms, todo, termFile>>
    BY <1>5 DEF FlushDone, maker, flushVars
  <2>2. ToSet(todo) = {}
    BY <2>1 DEF ToSet
  <2>3. \A s \in DOMAIN terms : \E i \in DOMAIN termFile : termFile[i].sign = s
    BY <2>1, <2>2 DEF FlushInv
  <2>4. QED
    BY <2>1, <2>3 DEF FlushInv, TermFileOk
<1>6. QED
  BY <1>1, <1>2, <1>3, <1>4, <1>5
     DEF Next, vars, maker, flushVars, Started, InitFails, InitBroken, NextLine, ReadLine,
         RefuseLine, WriteBrief, BriefFails, AfterBrief, IndexInfo, FinishObj, FinishFails,
         FinishReturns, ReadFails, FlushFails

(* A directory that was written to its end has every term once, with its   *)
(* list, in the order that locate_term's search by halving needs; also a   *)
(* term file that is cut off has only such records.                        *)
THEOREM TermFileSorted ==
  Spec => []TermFileOk
<1>1. FlushInv => TermFileOk
  BY DEF FlushInv
<1>2. Init => ListsInv
  BY DEF Init, ListsInv, NumMatches, ListsDescend
<1>3. QED
  BY <1>1, <1>2, TypeInit, TypeStep, ListsStep, BrokenInit, BrokenStep, FlushInit,
     FlushStep, PTL DEF Spec

-----------------------------------------------------------------------------
(* The inductive invariant as a whole, for the modules that run makeindex. *)
LEMMA InvariantInit ==
  Init => IInv
<1>1. Init => ListsInv
  BY DEF Init, ListsInv, NumMatches, ListsDescend
<1>2. QED
  BY <1>1, TypeInit, BriefsInit, IndexInit, HitsInit, BrokenInit, FlushInit DEF IInv

LEMMA InvariantStep ==
  ASSUME IInv, [Next]_vars
  PROVE  IInv'
<1>1. /\ TypeInv /\ ListsInv /\ OrderInv /\ BriefsInv /\ CountInv
      /\ IndexInv /\ HitsInv /\ BrokenInv /\ FlushInv
  BY DEF IInv
<1>2. TypeInv' /\ ListsInv' /\ OrderInv' /\ BriefsInv' /\ CountInv'
  BY <1>1, TypeStep, ListsStep, OrderStep, BriefsStep, CountStep
<1>3. IndexInv' /\ HitsInv' /\ BrokenInv' /\ FlushInv'
  BY <1>1, <1>2, IndexStep, HitsStep, BrokenStep, FlushStep
<1>4. QED
  BY <1>2, <1>3 DEF IInv

=============================================================================
