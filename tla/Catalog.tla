------------------------------ MODULE Catalog ------------------------------
(***************************************************************************)
(* CatalogDataReader (shared/catalog_data_reader.cpp): the catalog file is *)
(* read line by line into objects that point to their parents, sorted, and *)
(* every parent is given the range of its children in the sorted list.     *)
(* makeindex looks catalogs up with get_catalog_id, the server with get_id.*)
(*                                                                         *)
(* Names and the words of a query are numbers in the order of the strings. *)
(* The list is numbered from 0, as in the code.  Reading outside of it is  *)
(* undefined in the code: the searches that do it return Wild.             *)
(***************************************************************************)
EXTENDS Integers, FiniteSets, SequencesExt

CONSTANTS
  Lines,      \* lines the file can hold: [id, name, parent], parent 0 on top
  MaxLines,   \* bound: lines in the file
  Words       \* word lists that DA::query_analysis can pass to get_id

ASSUME CatalogAssumption ==
  /\ MaxLines \in Nat
  /\ \A l \in Lines : l.id \in Nat \ {0} /\ l.name \in Nat \ {0} /\ l.parent \in Nat
  /\ Words \subseteq Seq(Nat)

VARIABLES
  file,           \* the lines read so far
  ready,          \* load() has returned
  objects,        \* every catalog_t allocated
  level_one_map,  \* name -> object
  id_cata,        \* id -> object
  catalog_list    \* objects

vars == <<file, ready, objects, level_one_map, id_cata, catalog_list>>

NULL == 0
Junk == -9       \* what `new catalog_t' leaves in a field
NoName == 0
NotFound == -1
Wild == -2

Meta(start, offset) == [start |-> start, offset |-> offset]
Object(id, name, parent_id, parent, children) ==
  [id |-> id, name |-> name, parent_id |-> parent_id, parent |-> parent,
   children |-> children]

Init ==
  /\ file = <<>>
  /\ ready = FALSE
  /\ objects = <<>>
  /\ level_one_map = <<>>
  /\ id_cata = <<>>
  /\ catalog_list = <<>>

-----------------------------------------------------------------------------
(***************************************************************************)
(* parse_line                                                              *)
(***************************************************************************)
New == Len(objects) + 1

(* A key that the map has keeps its value. *)
Insert(map, key, value) ==
  [k \in DOMAIN map \cup {key} |-> IF k \in DOMAIN map THEN map[k] ELSE value]

(* Mutant of Filled: the placeholder stays as it is.                       *)
Filled_Not(objs, line) == objs

(* The object that id_cata already has for the id is brought up to date.   *)
Filled(objs, line) ==
  IF line.id \in DOMAIN id_cata
    THEN [objs EXCEPT ![id_cata[line.id]] =
            Object(line.id, line.name, @.parent_id, NULL, Meta(0, 0))]
    ELSE objs

ParseTop(line) ==
  /\ line.parent = 0
  /\ objects' = Filled(Append(objects,
                  Object(line.id, line.name, 0, NULL, Meta(-1, -1))), line)
  /\ level_one_map' = Insert(level_one_map, line.name, New)
  /\ id_cata' = Insert(id_cata, line.id, New)

(* A parent that was not read yet is allocated with nothing but its id. *)
ParseChild(line) ==
  /\ line.parent # 0
  /\ LET known == line.parent \in DOMAIN id_cata
         parent == IF known THEN id_cata[line.parent] ELSE New + 1
         ct == Object(line.id, line.name, line.parent, parent, Meta(Junk, Junk))
         placeholder == Object(line.parent, NoName, Junk, Junk, Meta(Junk, Junk))
     IN  /\ objects' = objects \o IF known THEN <<ct>> ELSE <<ct, placeholder>>
         /\ id_cata' = Insert(Insert(id_cata, line.parent, parent), line.id, New)
  /\ UNCHANGED level_one_map

ParseLine(line) ==
  /\ ~ready
  /\ Len(file) < MaxLines
  /\ file' = Append(file, line)
  /\ ParseTop(line) \/ ParseChild(line)
  /\ catalog_list' = Append(catalog_list, New)
  /\ UNCHANGED ready

-----------------------------------------------------------------------------
(***************************************************************************)
(* The end of load                                                         *)
(***************************************************************************)

(* Its <= is no strict order: entries with the same key come in any order. *)
catalog_cmp(a, b) ==
  IF a.parent_id # b.parent_id THEN a.parent_id > b.parent_id
                               ELSE a.name <= b.name

(* The orders that the numbers up to n can have. *)
Orders(n) ==
  LET orders[k \in 0 .. n] ==
        IF k = 0 THEN {<<>>}
                 ELSE {InsertAt(s, i, k) : s \in orders[k - 1], i \in 1 .. k}
  IN  orders[n]

InOrderOf(list) ==
  \A i, j \in DOMAIN list :
    i < j => catalog_cmp(objects[list[i]], objects[list[j]])

(* Mutant of First: the range of a parent starts after its first child.    *)
First_After(k) == Meta(k + 1, 1)

First(k) == Meta(k, 1)

(* A turn of the loop over the sorted list; acc.last is last_parent. *)
LinkOne(list, acc, k) ==
  LET p == acc.objects[list[k + 1]].parent
  IN  IF p = NULL THEN acc
      ELSE [objects |-> [acc.objects EXCEPT ![p].children =
                           IF p = acc.last THEN Meta(@.start, @.offset + 1)
                                           ELSE First(k)],
            last |-> p]

Turns(list) ==
  LET loop[n \in 0 .. Len(list)] ==
        IF n = 0 THEN [objects |-> objects, last |-> NULL]
                 ELSE LinkOne(list, loop[n - 1], n - 1)
  IN  loop

Linked(list) == Turns(list)[Len(list)].objects

FinishLoad ==
  /\ ~ready
  /\ ready' = TRUE
  /\ \E order \in Orders(Len(catalog_list)) :
       LET list == [k \in DOMAIN catalog_list |-> catalog_list[order[k]]]
       IN  /\ InOrderOf(list)
           /\ catalog_list' = list
           /\ objects' = Linked(list)
  /\ UNCHANGED <<file, level_one_map, id_cata>>

Next ==
  \/ \E line \in Lines : ParseLine(line)
  \/ FinishLoad

Spec == Init /\ [][Next]_vars

-----------------------------------------------------------------------------
(***************************************************************************)
(* Lookups, on the loaded catalogs                                         *)
(***************************************************************************)
At(k) == objects[catalog_list[k + 1]]

RightEnd(children) == children.start + children.offset

(* The loop of binary_search, between two open ends. *)
Search(name) ==
  LET loop[ends \in {e \in Int \X Int : e[1] < e[2]}] ==
        LET left == ends[1]
            right == ends[2]
            middle == left + (right - left) \div 2
        IN  IF left + 1 = right THEN right
            ELSE IF middle \notin 0 .. Len(catalog_list) - 1 THEN Wild
            ELSE IF At(middle).name < name THEN loop[<<middle, right>>]
            ELSE loop[<<left, middle>>]
  IN  loop

(* A start that no entry has given leads out of the list at once. *)
Narrow(children, name) ==
  IF children.start < 0 THEN Wild
                        ELSE Search(name)[<<children.start - 1, RightEnd(children)>>]

binary_search(children, name) ==
  LET right == Narrow(children, name)
  IN  IF right = Wild THEN Wild
      ELSE IF \/ right >= children.start + children.offset
              \/ At(right).name # name
        THEN NotFound
        ELSE right

(* Mutant of Without: the words before the matched one are dropped too.    *)
Without_Before(words, i) == SubSeq(words, i + 1, Len(words))

(* A matched word is swapped with the last one and popped. *)
Without(words, i) ==
  SubSeq([words EXCEPT ![i] = words[Len(words)]], 1, Len(words) - 1)

(* get_id_in_level with level 0, the only one the callers of get_id reach: *)
(* the first word that binary_search does not give up on.                  *)
get_id_in_level(children, left) ==
  LET found == {i \in DOMAIN left : binary_search(children, left[i]) # NotFound}
      k == binary_search(children, left[Min(found)])
  IN  IF found = {} THEN NotFound
      ELSE IF k = Wild THEN Wild
      ELSE At(k).id

(* get_id with level 1 *)
get_id(seg_list) ==
  LET tops == {i \in DOMAIN seg_list : seg_list[i] \in DOMAIN level_one_map}
      i == Min(tops)
  IN  IF tops = {} THEN NotFound
      ELSE get_id_in_level(objects[level_one_map[seg_list[i]]].children,
                           Without(seg_list, i))

get_catalog_name(id) ==
  IF id \in DOMAIN id_cata THEN objects[id_cata[id]].name ELSE NotFound

(* The parent is NULL or not; a placeholder's is neither. *)
get_parent_catalog_name(id) ==
  IF id \notin DOMAIN id_cata THEN NotFound
  ELSE LET p == objects[id_cata[id]].parent
       IN  IF p = NULL THEN NotFound
           ELSE IF p = Junk THEN Wild
           ELSE objects[p].name

(* Mutant of Hit: position 1 counts as not found too.                      *)
Hit_Later(k) == k > 1

(* Position 0 counts as not found, as binary_search's -1 does. *)
Hit(k) == k > 0

get_catalog_id(f_catalog, s_catalog) ==
  IF f_catalog \notin DOMAIN level_one_map THEN NotFound
  ELSE LET k == binary_search(objects[level_one_map[f_catalog]].children,
                              s_catalog)
       IN  IF k = Wild THEN Wild ELSE IF Hit(k) THEN At(k).id ELSE NotFound

-----------------------------------------------------------------------------
(***************************************************************************)
(* The files the lookups are made for: two levels, no id twice, no name    *)
(* twice at the same place.                                                *)
(***************************************************************************)
FileLines == ToSet(file)
Tops == {l \in FileLines : l.parent = 0}
Below(top) == {l \in FileLines : l.parent = top.id}

DistinctIds ==
  \A i, j \in DOMAIN file : file[i].id = file[j].id => i = j

WellFormed ==
  /\ DistinctIds
  /\ \A l, m \in FileLines : l.parent = m.parent /\ l.name = m.name => l = m
  /\ \A l \in FileLines : l.parent = 0 \/ \E top \in Tops : l \in Below(top)

(* Parents come before their children. *)
ParentsFirst ==
  \A i, j \in DOMAIN file : file[i].parent = file[j].id => j < i

(* Every level one catalog has children. *)
NoEmptyTop == \A top \in Tops : Below(top) # {}

(* After load, in any order of the lines and with any number of levels, the *)
(* range of a parent holds exactly the entries that point to it (l.42-66).  *)
ChildRanges ==
  ready /\ DistinctIds =>
    \A o \in DOMAIN objects :
      LET c == objects[o].children
          kids == {k \in 0 .. Len(catalog_list) - 1 : At(k).parent = o}
      IN  kids # {} => kids = c.start .. c.start + c.offset - 1

(* Names are found by id wherever the parent's line is: a placeholder made *)
(* for a child is completed by the parent's own line (l.96-102).           *)
NamesKnown ==
  ready /\ WellFormed =>
    \A l \in FileLines :
      /\ get_catalog_name(l.id) = l.name
      /\ \A top \in Tops :
           l \in Below(top) => get_parent_catalog_name(l.id) = top.name

(***************************************************************************)
(* get_id (comment at l.182): the first word that names a level one        *)
(* catalog chooses it, and the other words, in whatever order, one of its  *)
(* children.  It finds a child exactly when there is one.                  *)
(***************************************************************************)
ChildrenNamed(words, i, top) ==
  {l.id : l \in {m \in Below(top) :
                   \E j \in DOMAIN words \ {i} : words[j] = m.name}}

GetIdExact ==
  ready /\ WellFormed /\ ParentsFirst /\ NoEmptyTop =>
    \A words \in Words :
      LET named == {i \in DOMAIN words : \E t \in Tops : t.name = words[i]}
          first == CHOOSE i \in named : \A j \in named : i <= j
          top == CHOOSE t \in Tops : t.name = words[first]
          ids == ChildrenNamed(words, first, top)
      IN  IF named = {} \/ ids = {} THEN get_id(words) = NotFound
                                    ELSE get_id(words) \in ids

(* get_catalog_id returns the id of the child, except for the one that is  *)
(* first in the sorted list: the smallest name under the largest parent id.*)
CatalogIdButFirst ==
  ready /\ WellFormed /\ ParentsFirst /\ NoEmptyTop =>
    \A top \in Tops, l \in FileLines :
      LET got == get_catalog_id(top.name, l.name)
      IN  IF \E m \in Below(top) : m.name = l.name /\ m.id # At(0).id
            THEN \E m \in Below(top) : m.name = l.name /\ got = m.id
            ELSE got = NotFound

(* "id map already has it: update the fields, do not new the object again" *)
(* (l.96): a level one catalog is one object, by name and by id.           *)
OneObject ==
  WellFormed =>
    \A top \in Tops : level_one_map[top.name] = id_cata[top.id]
=============================================================================
