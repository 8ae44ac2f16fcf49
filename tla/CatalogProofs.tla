--------------------------- MODULE CatalogProofs ---------------------------
(***************************************************************************)
(* Proofs about the catalogs, for files of any length.  What load promises *)
(* it promises of files with distinct ids, of two levels, and so on.  What *)
(* holds of a whole file holds of the lines read so far: every part of the *)
(* invariant has the conditions that it needs of these.                    *)
(***************************************************************************)
EXTENDS Catalog, DataLemmas

Obj == [id : Int, name : Int, parent_id : Int, parent : Int,
        children : [start : Int, offset : Int]]

TypeInv ==
  /\ file \in Seq(Lines)
  /\ ready \in BOOLEAN
  /\ objects \in Seq(Obj)
  /\ catalog_list \in Seq(Nat)
  /\ \A k \in DOMAIN catalog_list : catalog_list[k] \in DOMAIN objects
  /\ \A id \in DOMAIN id_cata : id_cata[id] \in DOMAIN objects

(* A catalog_t has what its line says, with the parent that ids has.       *)
IsOf(o, line, ids) ==
  /\ o.id = line.id
  /\ o.name = line.name
  /\ o.parent_id = line.parent
  /\ o.parent = IF line.parent = 0 THEN NULL ELSE ids[line.parent]

(* The ids of the lines, and those that they name as parents.              *)
Ids == {file[n].id : n \in DOMAIN file} \cup ({file[n].parent : n \in DOMAIN file} \ {0})

(* The list has an object for every line, and id_cata one for every id; an *)
(* object of both has the id of its line.                                  *)
Entries ==
  /\ \A k \in DOMAIN catalog_list :
       \E n \in DOMAIN file : IsOf(objects[catalog_list[k]], file[n], id_cata)
  /\ \A n \in DOMAIN file :
       \E k \in DOMAIN catalog_list : IsOf(objects[catalog_list[k]], file[n], id_cata)
  /\ DOMAIN id_cata = Ids
  /\ \A id \in Ids :
       \A k \in DOMAIN catalog_list :
         id_cata[id] = catalog_list[k] => objects[catalog_list[k]].id = id
  /\ \A a, b \in Ids : id_cata[a] = id_cata[b] => a = b

(* No catalog is both a parent and a child. *)
TwoLevels ==
  \A i, j \in DOMAIN file : file[i].parent = file[j].id => file[j].parent = 0

NamedById ==
  \A n \in DOMAIN file :
    /\ objects[id_cata[file[n].id]].name = file[n].name
    /\ file[n].parent # 0 =>
         objects[id_cata[file[n].id]].parent = id_cata[file[n].parent]

UniqueNames ==
  \A i, j \in DOMAIN file :
    file[i].parent = file[j].parent /\ file[i].name = file[j].name => i = j

TopsKnown ==
  /\ DOMAIN level_one_map = {file[n].name : n \in {i \in DOMAIN file : file[i].parent = 0}}
  /\ \A n \in DOMAIN file :
       file[n].parent = 0 => level_one_map[file[n].name] = id_cata[file[n].id]

(* After load: the list is sorted, and has the children of each object in  *)
(* the range of that.                                                      *)
SortedList ==
  \A i, j \in DOMAIN catalog_list :
    i < j => LET a == objects[catalog_list[i]]
                 b == objects[catalog_list[j]]
             IN  /\ a.parent_id >= b.parent_id
                 /\ a.parent_id = b.parent_id => a.name <= b.name

Kids(o) == {k \in 0 .. Len(catalog_list) - 1 : At(k).parent = o}

Ranges ==
  \A o \in DOMAIN objects :
    LET c == objects[o].children
    IN  Kids(o) # {} => Kids(o) = c.start .. c.start + c.offset - 1

CatalogInv ==
  /\ TypeInv
  /\ DistinctIds => /\ Entries
                    /\ ready => SortedList /\ Ranges
  /\ DistinctIds /\ TwoLevels => NamedById
  /\ DistinctIds /\ UniqueNames /\ ParentsFirst => TopsKnown

-----------------------------------------------------------------------------
(***************************************************************************)
(* Reading a line                                                          *)
(***************************************************************************)
LEMMA Appended ==
  ASSUME NEW S, NEW s \in Seq(S), NEW x \in S
  PROVE  /\ Append(s, x) \in Seq(S)
         /\ Len(s) \in Nat /\ DOMAIN s = 1 .. Len(s)
         /\ DOMAIN Append(s, x) = 1 .. Len(s) + 1
         /\ \A i \in DOMAIN s : i # Len(s) + 1 /\ i \in DOMAIN Append(s, x) /\ Append(s, x)[i] = s[i]
         /\ Append(s, x)[Len(s) + 1] = x
         /\ \A i \in DOMAIN Append(s, x) : i \in DOMAIN s \/ i = Len(s) + 1
  OBVIOUS

(* What the next line means for the conditions on the lines. *)
LEMMA LineIsNew ==
  ASSUME file \in Seq(Lines), NEW line \in Lines, file' = Append(file, line)
  PROVE  /\ DistinctIds' =>
              DistinctIds /\ \A n \in DOMAIN file : file[n].id # line.id
         /\ TwoLevels' =>
              /\ TwoLevels
              /\ line.parent # 0 =>
                   line.parent # line.id /\ \A n \in DOMAIN file : file[n].parent # line.id
         /\ UniqueNames' =>
              /\ UniqueNames
              /\ \A n \in DOMAIN file : ~(file[n].parent = line.parent /\ file[n].name = line.name)
         /\ ParentsFirst' => ParentsFirst /\ \A n \in DOMAIN file : file[n].parent # line.id
<1> DEFINE new == Append(file, line)
           last == Len(file) + 1
<1>1. /\ Len(file) \in Nat /\ DOMAIN file = 1 .. Len(file)
      /\ DOMAIN new = 1 .. last
      /\ \A i \in DOMAIN file : i # last /\ i \in DOMAIN new /\ new[i] = file[i]
      /\ last \in DOMAIN new /\ new[last] = line
  BY Appended
<1>2. file' = new
  OBVIOUS
<1> HIDE DEF new
<1>3. DistinctIds' => DistinctIds /\ \A n \in DOMAIN file : file[n].id # line.id
  BY <1>1, <1>2 DEF DistinctIds
<1>4. TwoLevels' =>
        /\ TwoLevels
        /\ line.parent # 0 =>
             line.parent # line.id /\ \A n \in DOMAIN file : file[n].parent # line.id
  BY <1>1, <1>2 DEF TwoLevels
<1>5. UniqueNames' =>
        /\ UniqueNames
        /\ \A n \in DOMAIN file : ~(file[n].parent = line.parent /\ file[n].name = line.name)
  BY <1>1, <1>2 DEF UniqueNames
<1>6. ParentsFirst' => ParentsFirst /\ \A n \in DOMAIN file : file[n].parent # line.id
  <2>1. \A n \in DOMAIN file : ~(last < n)
    BY <1>1
  <2>2. QED
    BY <1>1, <1>2, <2>1 DEF ParentsFirst
<1>7. QED
  BY <1>3, <1>4, <1>5, <1>6

LEMMA IdsGrow ==
  ASSUME file \in Seq(Lines), NEW line \in Lines, file' = Append(file, line)
  PROVE  Ids' = Ids \cup {line.id} \cup ({line.parent} \ {0})
<1> DEFINE new == Append(file, line)
           last == Len(file) + 1
<1>1. /\ \A i \in DOMAIN file : i \in DOMAIN new /\ new[i] = file[i]
      /\ last \in DOMAIN new /\ new[last] = line
      /\ \A i \in DOMAIN new : i \in DOMAIN file \/ i = last
  BY Appended
<1>2. file' = new
  OBVIOUS
<1> HIDE DEF new, last
<1>3. {new[n].id : n \in DOMAIN new} = {file[n].id : n \in DOMAIN file} \cup {line.id}
  BY <1>1
<1>4. {new[n].parent : n \in DOMAIN new} = {file[n].parent : n \in DOMAIN file} \cup {line.parent}
  BY <1>1
<1>5. QED
  BY <1>2, <1>3, <1>4 DEF Ids
LEMMA LineRead ==
  ASSUME TypeInv, NEW line \in Lines, ParseLine(line)
  PROVE  /\ TypeInv'
         /\ file' = Append(file, line) /\ catalog_list' = Append(catalog_list, New)
         /\ ready = FALSE /\ ready' = FALSE
         /\ New \notin DOMAIN objects /\ New \in DOMAIN objects'
         /\ \A o \in DOMAIN objects :
              /\ o \in DOMAIN objects'
              /\ \/ objects'[o] = objects[o]
                 \/ line.parent = 0 /\ line.id \in DOMAIN id_cata /\ o = id_cata[line.id]
<1>1. line.id \in Int /\ line.name \in Int /\ line.parent \in Int
  BY CatalogAssumption
<1>2. /\ objects \in Seq(Obj) /\ catalog_list \in Seq(Nat) /\ file \in Seq(Lines)
      /\ Len(objects) \in Nat /\ DOMAIN objects = 1 .. Len(objects)
      /\ New \in Nat /\ New \notin DOMAIN objects
  BY DEF TypeInv, New
<1>3. ASSUME NEW id \in Int, NEW name \in Int, NEW parent_id \in Int, NEW parent \in Int,
             NEW start \in Int, NEW offset \in Int
      PROVE  Object(id, name, parent_id, parent, Meta(start, offset)) \in Obj
  BY DEF Object, Meta, Obj
<1>4. /\ objects' \in Seq(Obj) /\ New \in DOMAIN objects'
      /\ \A o \in DOMAIN objects :
           /\ o \in DOMAIN objects'
           /\ \/ objects'[o] = objects[o]
              \/ line.parent = 0 /\ line.id \in DOMAIN id_cata /\ o = id_cata[line.id]
  <2>1. CASE ParseTop(line)
    <3> DEFINE o1 == Object(line.id, line.name, 0, NULL, Meta(-1, -1))
               objs == Append(objects, o1)
               p == id_cata[line.id]
    <3>1. o1 \in Obj
      BY <1>1, <1>3 DEF NULL
    <3> HIDE DEF o1
    <3>2. /\ objs \in Seq(Obj) /\ DOMAIN objs = 1 .. New
          /\ \A o \in DOMAIN objects : o \in DOMAIN objs /\ objs[o] = objects[o]
      BY <1>2, <3>1, Appended DEF New
    <3>3. objects' = Filled(objs, line)
      BY <2>1 DEF ParseTop, o1
    <3> HIDE DEF objs
    <3>4. CASE line.id \in DOMAIN id_cata
      <4> DEFINE filled == Object(line.id, line.name, objs[p].parent_id, NULL, Meta(0, 0))
      <4>1. objects' = [objs EXCEPT ![p] = filled]
        BY <3>3, <3>4 DEF Filled
      <4>2. filled \in Obj
        <5> DEFINE R == Obj
        <5>1. p \in DOMAIN objs /\ objs \in Seq(R)
          BY <3>2, <3>4 DEF TypeInv
        <5> HIDE DEF R
        <5>2. objs[p] \in R
          BY <5>1
        <5>3. objs[p].parent_id \in Int
          BY <5>2 DEF R, Obj
        <5>4. QED
          BY <1>1, <1>3, <5>3 DEF NULL
      <4> HIDE DEF filled
      <4>3. objects' \in Seq(Obj) /\ DOMAIN objects' = DOMAIN objs
        <5> DEFINE R == Obj
        <5>0. p \in DOMAIN objs /\ objs \in Seq(Obj)
          BY <3>2, <3>4 DEF TypeInv
        <5>1. objs \in Seq(R) /\ filled \in R /\ p \in 1 .. Len(objs)
          BY <4>2, <5>0
        <5> HIDE DEF R, p
        <5>2. [objs EXCEPT ![p] = filled] \in Seq(R) /\ DOMAIN [objs EXCEPT ![p] = filled] = DOMAIN objs
          BY <5>1
        <5>3. QED
          BY <4>1, <5>2 DEF R
      <4>4. \A o \in DOMAIN objs : o # p => objects'[o] = objs[o]
        BY <4>1
      <4>5. New \in DOMAIN objs
        BY <1>2, <3>2 DEF New
      <4>6. QED
        BY <2>1, <3>2, <3>4, <4>3, <4>4, <4>5 DEF ParseTop
    <3>5. CASE line.id \notin DOMAIN id_cata
      <4>1. objects' = objs
        BY <3>3, <3>5 DEF Filled
      <4>2. QED
        BY <1>2, <3>2, <4>1 DEF New
    <3>6. QED
      BY <3>4, <3>5
  <2>2. CASE ParseChild(line)
    <3> DEFINE known == line.parent \in DOMAIN id_cata
               parent == IF known THEN id_cata[line.parent] ELSE New + 1
               ct == Object(line.id, line.name, line.parent, parent, Meta(Junk, Junk))
               placeholder == Object(line.parent, NoName, Junk, Junk, Meta(Junk, Junk))
    <3>1. parent \in Int
      BY <1>2 DEF TypeInv
    <3>2. ct \in Obj /\ placeholder \in Obj
      <4>1. Junk \in Int /\ NoName \in Int
        BY DEF NoName, Junk
      <4> HIDE DEF parent
      <4>2. ct \in Obj
        BY <1>1, <1>3, <3>1, <4>1
      <4>3. placeholder \in Obj
        BY <1>1, <1>3, <4>1
      <4>4. QED
        BY <4>2, <4>3
    <3>3. objects' = objects \o IF known THEN <<ct>> ELSE <<ct, placeholder>>
      BY <2>2 DEF ParseChild
    <3> DEFINE R == Obj
    <3>4. objects \in Seq(R) /\ ct \in R /\ placeholder \in R
      BY <1>2, <3>2
    <3> HIDE DEF ct, placeholder, R
    <3>5. /\ objects \o <<ct>> \in Seq(R) /\ objects \o <<ct, placeholder>> \in Seq(R)
          /\ New \in DOMAIN (objects \o <<ct>>) /\ New \in DOMAIN (objects \o <<ct, placeholder>>)
          /\ \A o \in DOMAIN objects :
               /\ o \in DOMAIN (objects \o <<ct>>) /\ (objects \o <<ct>>)[o] = objects[o]
               /\ o \in DOMAIN (objects \o <<ct, placeholder>>)
               /\ (objects \o <<ct, placeholder>>)[o] = objects[o]
      BY <1>2, <3>4 DEF New
    <3>6. QED
      BY <3>3, <3>5 DEF R
  <2>3. QED
    BY <2>1, <2>2 DEF ParseLine
<1>5. /\ file' = Append(file, line) /\ catalog_list' = Append(catalog_list, New)
      /\ ready = FALSE /\ ready' = FALSE
  BY DEF ParseLine, TypeInv
<1>6. file' \in Seq(Lines)
  BY <1>2, <1>5
<1>7. catalog_list' \in Seq(Nat) /\ \A k \in DOMAIN catalog_list' : catalog_list'[k] \in DOMAIN objects'
  BY <1>2, <1>4, <1>5, Appended DEF TypeInv
<1>8. \A id \in DOMAIN id_cata' : id_cata'[id] \in DOMAIN objects'
  <2>1. CASE ParseTop(line)
    BY <1>4, <2>1 DEF ParseTop, Insert, TypeInv
  <2>2. CASE ParseChild(line)
    <3> DEFINE known == line.parent \in DOMAIN id_cata
               parent == IF known THEN id_cata[line.parent] ELSE New + 1
    <3>1. id_cata' = Insert(Insert(id_cata, line.parent, parent), line.id, New)
      BY <2>2 DEF ParseChild
    <3>2. parent \in DOMAIN objects'
      <4>1. ~known => Len(objects') = New + 1
        BY <1>2, <2>2 DEF ParseChild, New
      <4>2. Len(objects') \in Nat /\ DOMAIN objects' = 1 .. Len(objects')
        BY <1>4
      <4>3. QED
        BY <1>2, <1>4, <4>1, <4>2 DEF TypeInv
    <3> HIDE DEF parent
    <3>3. QED
      BY <1>4, <3>1, <3>2 DEF Insert, TypeInv
  <2>3. QED
    BY <2>1, <2>2 DEF ParseLine
<1>9. QED
  BY <1>2, <1>4, <1>5, <1>6, <1>7, <1>8 DEF TypeInv
(* The object of the line, and the ids that the line adds. *)
LEMMA LineEntered ==
  ASSUME TypeInv, NEW line \in Lines, ParseLine(line)
  PROVE  /\ IsOf(objects'[New], line, id_cata')
         /\ DOMAIN id_cata' = DOMAIN id_cata \cup {line.id} \cup ({line.parent} \ {0})
         /\ \A id \in DOMAIN id_cata : id_cata'[id] = id_cata[id]
         /\ \A id \in DOMAIN id_cata' :
              id \notin DOMAIN id_cata =>
                id_cata'[id] = IF id = line.parent THEN New + 1 ELSE New
<1>1. line.id \in Int /\ line.name \in Int /\ line.parent \in Int
  BY CatalogAssumption
<1>2. /\ Len(objects) \in Nat /\ DOMAIN objects = 1 .. Len(objects)
      /\ New \in Nat /\ New \notin DOMAIN objects
  BY DEF TypeInv, New
<1>3. CASE ParseTop(line)
  <2>1. id_cata' = Insert(id_cata, line.id, New) /\ line.parent = 0
    BY <1>3 DEF ParseTop
  <2>2. line.id # 0
    BY CatalogAssumption
  <2>3. /\ DOMAIN id_cata' = DOMAIN id_cata \cup {line.id}
        /\ \A id \in DOMAIN id_cata : id_cata'[id] = id_cata[id]
        /\ line.id \notin DOMAIN id_cata => id_cata'[line.id] = New
    BY <2>1 DEF Insert
  <2>4. IsOf(objects'[New], line, id_cata')
    <3> DEFINE ct == Object(line.id, line.name, 0, NULL, Meta(-1, -1))
               objs == Append(objects, ct)
    <3>1. objects' = Filled(objs, line)
      BY <1>3 DEF ParseTop
    <3>2. objs[New] = ct
      BY <1>2 DEF New, TypeInv
    <3> HIDE DEF ct, objs
    <3>3. objects'[New] = ct
      <4>1. CASE line.id \in DOMAIN id_cata
        <5>1. id_cata[line.id] # New
          BY <1>2, <4>1 DEF TypeInv
        <5>2. QED
          BY <3>1, <3>2, <4>1, <5>1 DEF Filled
      <4>2. CASE line.id \notin DOMAIN id_cata
        BY <3>1, <3>2, <4>2 DEF Filled
      <4>3. QED
        BY <4>1, <4>2
    <3>4. QED
      BY <2>1, <3>3 DEF ct, Object, IsOf
  <2>5. QED
    BY <2>1, <2>2, <2>3, <2>4
<1>4. CASE ParseChild(line)
  <2> DEFINE known == line.parent \in DOMAIN id_cata
             parent == IF known THEN id_cata[line.parent] ELSE New + 1
             ct == Object(line.id, line.name, line.parent, parent, Meta(Junk, Junk))
             placeholder == Object(line.parent, NoName, Junk, Junk, Meta(Junk, Junk))
  <2>1. /\ line.parent # 0
        /\ objects' = objects \o IF known THEN <<ct>> ELSE <<ct, placeholder>>
        /\ id_cata' = Insert(Insert(id_cata, line.parent, parent), line.id, New)
    BY <1>4 DEF ParseChild
  <2>2. objects'[New] = ct
    <3> HIDE DEF ct, placeholder, known
    <3>1. (objects \o <<ct>>)[New] = ct /\ (objects \o <<ct, placeholder>>)[New] = ct
      BY <1>2 DEF New, TypeInv
    <3>2. QED
      BY <2>1, <3>1
  <2>3. /\ DOMAIN id_cata' = DOMAIN id_cata \cup {line.id} \cup {line.parent}
        /\ \A id \in DOMAIN id_cata : id_cata'[id] = id_cata[id]
        /\ id_cata'[line.parent] = parent
        /\ line.id \notin DOMAIN id_cata => line.id = line.parent \/ id_cata'[line.id] = New
    <3> HIDE DEF parent
    <3>1. parent = id_cata[line.parent] \/ line.parent \notin DOMAIN id_cata
      BY DEF parent
    <3>2. QED
      BY <2>1, <3>1 DEF Insert
  <2>4. IsOf(objects'[New], line, id_cata')
    <3>1. objects'[New].id = line.id /\ objects'[New].name = line.name
          /\ objects'[New].parent_id = line.parent /\ objects'[New].parent = parent
      BY <2>2 DEF Object
    <3>2. QED
      BY <2>1, <2>3, <3>1 DEF IsOf
  <2>5. QED
    BY <2>1, <2>3, <2>4
<1>5. QED
  BY <1>3, <1>4 DEF ParseLine

(* A line with a new id only touches an object that is not in the list. *)
LEMMA ListedUntouched ==
  ASSUME TypeInv, Entries, NEW line \in Lines, ParseLine(line), DistinctIds'
  PROVE  \A k \in DOMAIN catalog_list :
           objects'[catalog_list[k]] = objects[catalog_list[k]]
<1>1. \A n \in DOMAIN file : file[n].id # line.id
  BY LineRead, LineIsNew DEF TypeInv
<1> SUFFICES ASSUME NEW k \in DOMAIN catalog_list,
                    objects'[catalog_list[k]] # objects[catalog_list[k]]
             PROVE  FALSE
  OBVIOUS
<1>2. /\ line.id \in DOMAIN id_cata /\ catalog_list[k] = id_cata[line.id]
  BY LineRead DEF TypeInv
<1>3. objects[catalog_list[k]].id = line.id
  BY <1>2 DEF Entries
<1>4. PICK n \in DOMAIN file : IsOf(objects[catalog_list[k]], file[n], id_cata)
  BY DEF Entries
<1>5. QED
  BY <1>1, <1>3, <1>4 DEF IsOf

LEMMA EntriesRead ==
  ASSUME TypeInv, Entries, NEW line \in Lines, ParseLine(line), DistinctIds'
  PROVE  Entries'
<1>1. /\ file \in Seq(Lines) /\ file' = Append(file, line)
      /\ catalog_list \in Seq(Nat) /\ catalog_list' = Append(catalog_list, New)
      /\ New \notin DOMAIN objects /\ New \in Nat /\ New + 1 \notin DOMAIN objects
  <2>1. /\ Len(objects) \in Nat /\ DOMAIN objects = 1 .. Len(objects)
        /\ file \in Seq(Lines) /\ catalog_list \in Seq(Nat)
    BY DEF TypeInv
  <2>2. New \in Nat /\ New \notin DOMAIN objects /\ New + 1 \notin DOMAIN objects
    BY <2>1 DEF New
  <2>3. QED
    BY <2>1, <2>2, LineRead
<1> DEFINE lines == Append(file, line)
           list == Append(catalog_list, New)
           objs == objects'
           ids == id_cata'
           n1 == Len(file) + 1
           k1 == Len(catalog_list) + 1
<1>2. /\ \A n \in DOMAIN file : n # n1 /\ n \in DOMAIN lines /\ lines[n] = file[n]
      /\ n1 \in DOMAIN lines /\ lines[n1] = line
      /\ \A n \in DOMAIN lines : n \in DOMAIN file \/ n = n1
  BY <1>1, Appended
<1>3. /\ \A k \in DOMAIN catalog_list :
           k # k1 /\ k \in DOMAIN list /\ list[k] = catalog_list[k]
      /\ k1 \in DOMAIN list /\ list[k1] = New
      /\ \A k \in DOMAIN list : k \in DOMAIN catalog_list \/ k = k1
  BY <1>1, Appended
<1>4. /\ IsOf(objs[New], line, ids)
      /\ \A id \in DOMAIN id_cata : ids[id] = id_cata[id]
      /\ \A id \in DOMAIN ids :
           id \notin DOMAIN id_cata => ids[id] = IF id = line.parent THEN New + 1 ELSE New
      /\ DOMAIN ids = DOMAIN id_cata \cup {line.id} \cup ({line.parent} \ {0})
  BY LineEntered
<1>5. \A k \in DOMAIN catalog_list :
        objs[catalog_list[k]] = objects[catalog_list[k]] /\ catalog_list[k] \in DOMAIN objects
  BY ListedUntouched DEF TypeInv
<1>6. file' = lines /\ catalog_list' = list
  BY <1>1
<1> HIDE DEF lines, list, objs, ids, n1, k1
<1>7. ASSUME NEW k \in DOMAIN catalog_list, NEW n \in DOMAIN file,
             IsOf(objects[catalog_list[k]], file[n], id_cata)
      PROVE  IsOf(objs[list[k]], lines[n], ids)
  <2>1. file[n].parent # 0 => file[n].parent \in DOMAIN id_cata
    BY DEF Entries, Ids
  <2>2. QED
    BY <1>2, <1>3, <1>4, <1>5, <1>7, <2>1 DEF IsOf
<1>8. \A k \in DOMAIN list : \E n \in DOMAIN lines : IsOf(objs[list[k]], lines[n], ids)
  <2>1. \A k \in DOMAIN catalog_list :
          \E n \in DOMAIN file : IsOf(objects[catalog_list[k]], file[n], id_cata)
    BY DEF Entries
  <2>2. QED
    BY <1>2, <1>3, <1>4, <1>7, <2>1
<1>9. \A n \in DOMAIN lines : \E k \in DOMAIN list : IsOf(objs[list[k]], lines[n], ids)
  <2>1. \A n \in DOMAIN file :
          \E k \in DOMAIN catalog_list : IsOf(objects[catalog_list[k]], file[n], id_cata)
    BY DEF Entries
  <2>2. QED
    BY <1>2, <1>3, <1>4, <1>7, <2>1
<1>10. DOMAIN ids = Ids'
  BY <1>1, <1>4, IdsGrow DEF Entries
<1>11. \A id \in DOMAIN id_cata : id_cata[id] \in DOMAIN objects
  BY DEF TypeInv
<1>12. ASSUME NEW id \in DOMAIN ids, NEW k \in DOMAIN list, ids[id] = list[k]
       PROVE  objs[list[k]].id = id
  <2>1. CASE k = k1
    <3>1. id \notin DOMAIN id_cata /\ ids[id] = New
      BY <1>1, <1>3, <1>4, <1>11, <1>12, <2>1
    <3>2. id = line.id
      BY <1>1, <1>4, <3>1
    <3>3. QED
      BY <1>3, <1>4, <2>1, <3>2 DEF IsOf
  <2>2. CASE k \in DOMAIN catalog_list
    <3>1. id \in DOMAIN id_cata
      BY <1>1, <1>3, <1>4, <1>5, <1>12, <2>2
    <3>2. objects[catalog_list[k]].id = id
      BY <1>3, <1>4, <1>12, <2>2, <3>1 DEF Entries
    <3>3. QED
      BY <1>3, <1>5, <2>2, <3>2
  <2>3. QED
    BY <1>3, <2>1, <2>2
<1>13. \A a, b \in DOMAIN ids : ids[a] = ids[b] => a = b
  <2>1. \A a, b \in DOMAIN id_cata : id_cata[a] = id_cata[b] => a = b
    BY DEF Entries
  <2>2. \A a, b \in DOMAIN ids :
          a \notin DOMAIN id_cata /\ b \notin DOMAIN id_cata /\ ids[a] = ids[b] => a = b
    BY <1>1, <1>4
  <2>3. \A a, b \in DOMAIN ids : a \notin DOMAIN id_cata /\ b \in DOMAIN id_cata => ids[a] # ids[b]
    BY <1>1, <1>4, <1>11
  <2>4. QED
    BY <1>4, <2>1, <2>2, <2>3
<1>14. QED
  BY <1>6, <1>8, <1>9, <1>10, <1>12, <1>13 DEF Entries, objs, ids
-----------------------------------------------------------------------------
(***************************************************************************)
(* The names under which the lines are known                               *)
(***************************************************************************)
LEMMA NamedRead ==
  ASSUME TypeInv, Entries, NamedById, NEW line \in Lines, ParseLine(line),
         DistinctIds', TwoLevels'
  PROVE  NamedById'
<1> DEFINE lines == Append(file, line)
           objs == objects'
           ids == id_cata'
           n1 == Len(file) + 1
<1>1. /\ \A n \in DOMAIN file : n \in DOMAIN lines /\ lines[n] = file[n]
      /\ lines[n1] = line
      /\ \A n \in DOMAIN lines : n \in DOMAIN file \/ n = n1
  BY Appended DEF TypeInv
<1>2. /\ file' = lines
      /\ New \notin DOMAIN objects /\ New \in DOMAIN objs
      /\ \A o \in DOMAIN objects :
           objs[o] = objects[o] \/ (line.id \in DOMAIN id_cata /\ o = id_cata[line.id])
  BY LineRead
<1>3. /\ IsOf(objs[New], line, ids)
      /\ \A id \in DOMAIN id_cata : ids[id] = id_cata[id]
      /\ \A id \in DOMAIN ids :
           id \notin DOMAIN id_cata => ids[id] = IF id = line.parent THEN New + 1 ELSE New
      /\ DOMAIN ids = DOMAIN id_cata \cup {line.id} \cup ({line.parent} \ {0})
  BY LineEntered
<1>4. file \in Seq(Lines)
  BY DEF TypeInv
<1>5. /\ \A n \in DOMAIN file : file[n].id # line.id
      /\ line.parent # 0 =>
           line.parent # line.id /\ \A n \in DOMAIN file : file[n].parent # line.id
  BY <1>2, <1>4, LineIsNew
<1>6. \A n \in DOMAIN file :
        /\ file[n].id \in DOMAIN id_cata
        /\ file[n].parent # 0 => file[n].parent \in DOMAIN id_cata
  BY DEF Entries, Ids
<1> HIDE DEF lines, objs, ids, n1
<1>7. \A n \in DOMAIN file : objs[ids[file[n].id]] = objects[id_cata[file[n].id]]
  <2>1. \A n \in DOMAIN file :
          /\ id_cata[file[n].id] \in DOMAIN objects
          /\ line.id \in DOMAIN id_cata => id_cata[file[n].id] # id_cata[line.id]
    BY <1>5, <1>6 DEF Entries, TypeInv
  <2>2. QED
    BY <1>2, <1>3, <1>6, <2>1
<1>8. \A n \in DOMAIN file :
        /\ objs[ids[file[n].id]].name = file[n].name
        /\ file[n].parent # 0 => objs[ids[file[n].id]].parent = ids[file[n].parent]
  BY <1>3, <1>6, <1>7 DEF NamedById
<1>9. /\ objs[ids[line.id]].name = line.name
      /\ line.parent # 0 => objs[ids[line.id]].parent = ids[line.parent]
  <2>1. CASE line.id \notin DOMAIN id_cata /\ line.id # line.parent
    <3>1. ids[line.id] = New
      BY <1>3, <2>1
    <3>2. QED
      BY <1>3, <3>1 DEF IsOf
  <2>2. CASE line.id \in DOMAIN id_cata
    <3>1. line.parent = 0
      BY <1>5, <2>2 DEF Entries, Ids
    <3>2. objs = Filled(Append(objects, Object(line.id, line.name, 0, NULL, Meta(-1, -1))), line)
      BY <3>1 DEF ParseLine, ParseTop, ParseChild, objs
    <3> DEFINE o1 == Append(objects, Object(line.id, line.name, 0, NULL, Meta(-1, -1)))
               p == id_cata[line.id]
    <3>3. p \in DOMAIN o1
      BY <2>2 DEF TypeInv
    <3> HIDE DEF o1
    <3>4. objs = [o1 EXCEPT ![p] = Object(line.id, line.name, o1[p].parent_id, NULL, Meta(0, 0))]
      BY <2>2, <3>2 DEF Filled, o1
    <3>5. objs[p].name = line.name
      BY <3>3, <3>4 DEF Object
    <3>6. QED
      BY <1>3, <2>2, <3>1, <3>5
  <2>3. CASE line.id = line.parent
    <3>1. line.id # 0
      BY CatalogAssumption
    <3>2. QED
      BY <1>5, <2>3, <3>1
  <2>4. QED
    BY <2>1, <2>2, <2>3
<1>10. QED
  BY <1>1, <1>2, <1>8, <1>9 DEF NamedById, objs, ids

LEMMA TopsRead ==
  ASSUME TypeInv, Entries, TopsKnown, NEW line \in Lines, ParseLine(line),
         UniqueNames', ParentsFirst', DistinctIds'
  PROVE  TopsKnown'
<1> DEFINE lines == Append(file, line)
           ids == id_cata'
           tops == level_one_map'
           n1 == Len(file) + 1
<1>1. /\ \A n \in DOMAIN file : n \in DOMAIN lines /\ lines[n] = file[n]
      /\ n1 \in DOMAIN lines /\ lines[n1] = line
      /\ \A n \in DOMAIN lines : n \in DOMAIN file \/ n = n1
  BY Appended DEF TypeInv
<1>2. file' = lines
  BY LineRead
<1>3. /\ \A id \in DOMAIN id_cata : ids[id] = id_cata[id]
      /\ \A id \in DOMAIN ids :
           id \notin DOMAIN id_cata => ids[id] = IF id = line.parent THEN New + 1 ELSE New
      /\ DOMAIN ids = DOMAIN id_cata \cup {line.id} \cup ({line.parent} \ {0})
  BY LineEntered
<1>4. file \in Seq(Lines)
  BY DEF TypeInv
<1>5. /\ \A n \in DOMAIN file : file[n].id # line.id
      /\ \A n \in DOMAIN file : ~(file[n].parent = line.parent /\ file[n].name = line.name)
      /\ \A n \in DOMAIN file : file[n].parent # line.id
  BY <1>2, <1>4, LineIsNew
<1>6. \A n \in DOMAIN file : file[n].id \in DOMAIN id_cata
  BY DEF Entries, Ids
<1> HIDE DEF lines, ids, n1, tops
<1>7. CASE line.parent # 0
  <2>1. tops = level_one_map
    BY <1>7 DEF ParseLine, ParseTop, ParseChild, tops
  <2>2. {lines[n].name : n \in {i \in DOMAIN lines : lines[i].parent = 0}}
          = {file[n].name : n \in {i \in DOMAIN file : file[i].parent = 0}}
    BY <1>1, <1>7
  <2>3. \A n \in DOMAIN lines : lines[n].parent = 0 => tops[lines[n].name] = ids[lines[n].id]
    BY <1>1, <1>3, <1>6, <1>7, <2>1 DEF TopsKnown
  <2> DEFINE named == {lines[n].name : n \in {i \in DOMAIN lines : lines[i].parent = 0}}
  <2>4. DOMAIN tops = named
    BY <2>1, <2>2 DEF TopsKnown
  <2>5. named = {file'[n].name : n \in {i \in DOMAIN file' : file'[i].parent = 0}}
    BY <1>2
  <2> HIDE DEF named
  <2>6. QED
    BY <1>2, <2>3, <2>4, <2>5 DEF TopsKnown, tops, ids
<1>8. CASE line.parent = 0
  <2>1. tops = Insert(level_one_map, line.name, New)
    BY <1>8 DEF ParseLine, ParseTop, ParseChild, tops
  <2>2. DOMAIN tops = DOMAIN level_one_map \cup {line.name}
    BY <2>1 DEF Insert
  <2>3. {lines[n].name : n \in {i \in DOMAIN lines : lines[i].parent = 0}}
          = {file[n].name : n \in {i \in DOMAIN file : file[i].parent = 0}} \cup {line.name}
    BY <1>1, <1>8
  <2>4. line.name \notin DOMAIN level_one_map
    BY <1>5, <1>8 DEF TopsKnown
  <2>5. line.id \notin DOMAIN id_cata /\ line.id # 0
    BY <1>5, CatalogAssumption DEF Entries, Ids
  <2>6. tops[line.name] = New /\ ids[line.id] = New
    BY <1>3, <1>8, <2>1, <2>4, <2>5 DEF Insert
  <2>7. \A n \in DOMAIN file :
          file[n].parent = 0 => file[n].name \in DOMAIN level_one_map
    BY DEF TopsKnown
  <2>8. \A n \in DOMAIN file : file[n].parent = 0 => tops[file[n].name] = ids[file[n].id]
    BY <1>3, <1>6, <2>1, <2>7 DEF TopsKnown, Insert
  <2>9. QED
    BY <1>1, <1>2, <2>2, <2>3, <2>6, <2>8 DEF TopsKnown, tops, ids
<1>9. QED
  BY <1>7, <1>8
-----------------------------------------------------------------------------
(***************************************************************************)
(* The loop at the end of load                                             *)
(***************************************************************************)
Acc == [objects : Seq(Obj), last : Int]

(* The numbers from 0 of the entries of list, their parents. *)
Parents(list) == [k \in 0 .. Len(list) - 1 |-> objects[list[k + 1]].parent]

Linkable(list) ==
  /\ list \in Seq(Nat)
  /\ \A k \in DOMAIN list : list[k] \in DOMAIN objects

LEMMA LinkOneType ==
  ASSUME TypeInv, NEW list, Linkable(list), NEW k \in 0 .. Len(list) - 1, NEW acc \in Acc,
         DOMAIN acc.objects = DOMAIN objects
  PROVE  /\ LinkOne(list, acc, k) \in Acc
         /\ DOMAIN LinkOne(list, acc, k).objects = DOMAIN objects
<1>1. k + 1 \in DOMAIN list /\ k \in Int
  BY DEF Linkable
<1> DEFINE p == acc.objects[list[k + 1]].parent
           objs == acc.objects
           c == objs[p].children
           R == Obj
<1>2. objs \in Seq(R) /\ acc.last \in Int
  BY DEF Acc
<1> HIDE DEF R
<1>3. \A o \in DOMAIN objs : objs[o] \in R
  BY <1>2
<1>4. p \in Int
  BY <1>1, <1>3 DEF Linkable, R, Obj
<1> HIDE DEF p
<1>5. CASE p = NULL
  BY <1>5 DEF LinkOne, p
<1>6. CASE p # NULL
  <2> DEFINE d == IF p = acc.last THEN Meta(c.start, c.offset + 1) ELSE First(k)
             o == [objs[p] EXCEPT !.children = d]
  <2>1. LinkOne(list, acc, k) = [objects |-> [objs EXCEPT ![p] = o], last |-> p]
    BY <1>6 DEF LinkOne, p
  <2>2. p \in DOMAIN objs => o \in R
    <3>1. SUFFICES ASSUME p \in DOMAIN objs
                   PROVE  o \in R
      OBVIOUS
    <3>2. PICK x \in Obj : x = objs[p]
      BY <1>3, <3>1 DEF R
    <3>3. x.children.start \in Int /\ x.children.offset \in Int
      BY <3>2 DEF Obj
    <3>4. d \in [start : Int, offset : Int]
      BY <1>1, <3>2, <3>3 DEF Meta, First
    <3> HIDE DEF d
    <3>5. QED
      BY <3>2, <3>4 DEF Obj, R
  <2> HIDE DEF o, objs
  <2>3. [objs EXCEPT ![p] = o] \in Seq(R) /\ DOMAIN [objs EXCEPT ![p] = o] = DOMAIN objs
    <3>1. CASE p \in DOMAIN objs
      <4>1. p \in 1 .. Len(objs) /\ o \in R
        BY <1>2, <2>2, <3>1
      <4>2. QED
        BY <1>2, <4>1
    <3>2. CASE p \notin DOMAIN objs
      <4>1. [objs EXCEPT ![p] = o] = objs
        BY <1>2, <3>2
      <4>2. QED
        BY <1>2, <4>1
    <3>3. QED
      BY <3>1, <3>2
  <2>4. QED
    BY <1>4, <2>1, <2>3 DEF Acc, R, objs
<1>7. QED
  BY <1>5, <1>6
LEMMA TurnsUnfold ==
  ASSUME TypeInv, NEW list, Linkable(list)
  PROVE  /\ DOMAIN Turns(list) = 0 .. Len(list)
         /\ Turns(list)[0] = [objects |-> objects, last |-> NULL]
         /\ \A n \in 1 .. Len(list) : Turns(list)[n] = LinkOne(list, Turns(list)[n - 1], n - 1)
<1> DEFINE V == {acc \in Acc : DOMAIN acc.objects = DOMAIN objects}
           init == [objects |-> objects, last |-> NULL]
           size == Len(list)
           step == [k \in Nat |->
                      [acc \in V |-> IF k \in 0 .. size - 1 THEN LinkOne(list, acc, k) ELSE acc]]
           loop(f) == [n \in 0 .. size |-> IF n = 0 THEN init ELSE LinkOne(list, f[n - 1], n - 1)]
<1>1. size \in Nat
  BY DEF Linkable
<1>2. init \in V
  BY DEF TypeInv, Acc, NULL
<1>3. \A k \in 0 .. size - 1, acc \in V : LinkOne(list, acc, k) \in V
  BY LinkOneType
<1> HIDE DEF V, init
<1>4. step \in [Nat -> [V -> V]]
  BY <1>1, <1>3
<1>5. PICK f : IsLoop(f, size, V, init, step)
  <2> HIDE DEF step, size
  <2>1. \A n \in Nat : \E f : IsLoop(f, n, V, init, step)
    BY <1>2, <1>4, Iteration
  <2>2. QED
    BY <1>1, <2>1
<1>6. \A k \in 1 .. size : step[k - 1][f[k - 1]] = LinkOne(list, f[k - 1], k - 1)
  BY <1>1, <1>5 DEF IsLoop
<1> HIDE DEF step
<1>7. \A n \in 0 .. size : f[n] = IF n = 0 THEN init ELSE LinkOne(list, f[n - 1], n - 1)
  BY <1>1, <1>5, <1>6 DEF IsLoop
<1>8. f = loop(f)
  BY <1>5, <1>7 DEF IsLoop
<1>9. Turns(list) = CHOOSE g : g = loop(g)
  BY DEF Turns, init
<1> HIDE DEF loop
<1>10. Turns(list) = loop(Turns(list))
  BY <1>8, <1>9
<1>11. QED
  BY <1>1, <1>10 DEF loop, init
(* The entries before number m of list that point to o. *)
KidsBelow(list, o, m) == {k \in 0 .. m - 1 : Parents(list)[k] = o}

(* Entries with the same parent follow each other. *)
Contiguous(list) ==
  \A i, j, k \in 0 .. Len(list) - 1 :
    i < j /\ j < k /\ Parents(list)[i] = Parents(list)[k] /\ Parents(list)[i] # NULL
      => Parents(list)[j] = Parents(list)[i]

(* After m turns, children ranges over the entries seen so far.            *)
LinkInv(list, acc, m) ==
  /\ acc \in Acc
  /\ DOMAIN acc.objects = DOMAIN objects
  /\ \A o \in DOMAIN objects :
       /\ acc.objects[o].id = objects[o].id
       /\ acc.objects[o].name = objects[o].name
       /\ acc.objects[o].parent_id = objects[o].parent_id
       /\ acc.objects[o].parent = objects[o].parent
       /\ LET c == acc.objects[o].children
          IN  KidsBelow(list, o, m) # {} =>
                KidsBelow(list, o, m) = c.start .. c.start + c.offset - 1
  /\ m > 0 /\ Parents(list)[m - 1] # NULL => acc.last = Parents(list)[m - 1]
  /\ acc.last # NULL => KidsBelow(list, acc.last, m) # {}

LEMMA LinkStep ==
  ASSUME TypeInv, NEW list, Linkable(list), Contiguous(list),
         \A k \in 0 .. Len(list) - 1 : Parents(list)[k] # NULL => Parents(list)[k] \in DOMAIN objects,
         NEW m \in 0 .. Len(list) - 1, NEW acc, LinkInv(list, acc, m)
  PROVE  LinkInv(list, LinkOne(list, acc, m), m + 1)
<1> DEFINE P == Parents(list)
           next == LinkOne(list, acc, m)
           K(o) == KidsBelow(list, o, m)
           K1(o) == KidsBelow(list, o, m + 1)
           p == P[m]
           objs == acc.objects
<1>1. /\ acc \in Acc /\ DOMAIN objs = DOMAIN objects
      /\ m \in Int /\ m >= 0 /\ m + 1 \in DOMAIN list /\ m \in DOMAIN P
  BY DEF LinkInv, Linkable, Parents
<1>2. next \in Acc /\ DOMAIN next.objects = DOMAIN objects
  BY <1>1, LinkOneType
<1>3. p = objs[list[m + 1]].parent
  BY <1>1 DEF LinkInv, Linkable, Parents
<1>4. \A o : K1(o) = IF p = o THEN K(o) \cup {m} ELSE K(o)
  BY <1>1 DEF KidsBelow
<1>5. \A k \in 0 .. m - 1 : k \in Int /\ k \in 0 .. Len(list) - 1
  BY <1>1
<1> HIDE DEF P, next, p, objs, K, K1
<1>6. CASE p = NULL
  <2>1. next = acc
    BY <1>3, <1>6 DEF LinkOne, next, objs
  <2>2. \A o \in DOMAIN objects : o # NULL
    BY DEF TypeInv, NULL
  <2>3. \A o : o # NULL => K1(o) = K(o)
    BY <1>4, <1>6
  <2>4. (m + 1) - 1 = m
    BY <1>1
  <2>5. QED
    BY <1>2, <1>6, <2>1, <2>2, <2>3, <2>4 DEF LinkInv, K, K1, P, next, p
<1>7. CASE p # NULL
  <2>1. p \in DOMAIN objects
    BY <1>7 DEF P, p
  <2> DEFINE c == objs[p].children
             d == IF p = acc.last THEN Meta(c.start, c.offset + 1) ELSE First(m)
  <2>2. next = [objects |-> [objs EXCEPT ![p] = [@ EXCEPT !.children = d]], last |-> p]
    BY <1>3, <1>7 DEF LinkOne, next, objs
  <2> HIDE DEF d
  <2>3. /\ next.last = p
        /\ next.objects[p] = [objs[p] EXCEPT !.children = d]
        /\ \A o \in DOMAIN objects : o # p => next.objects[o] = objs[o]
    BY <1>1, <2>1, <2>2
  <2>4. objs[p] \in Obj /\ c.start \in Int /\ c.offset \in Int
    <3> DEFINE R == Obj
    <3>1. objs \in Seq(R) /\ p \in DOMAIN objs
      BY <1>1, <2>1 DEF Acc, objs
    <3> HIDE DEF R
    <3>2. objs[p] \in R
      BY <3>1
    <3>3. QED
      BY <3>2 DEF R, Obj
  <2>5. /\ next.objects[p].id = objs[p].id
        /\ next.objects[p].name = objs[p].name
        /\ next.objects[p].parent_id = objs[p].parent_id
        /\ next.objects[p].parent = objs[p].parent
        /\ next.objects[p].children = d
    BY <2>3, <2>4 DEF Obj
  <2>6. K1(p) = d.start .. d.start + d.offset - 1
    <3>1. CASE p = acc.last
      <4>1. K(p) # {}
        BY <1>7, <3>1 DEF LinkInv, K
      <4>2. K(p) = c.start .. c.start + c.offset - 1
        BY <2>1, <4>1 DEF LinkInv, K, objs
      <4>3. m - 1 \in K(p)
        <5>1. PICK k \in 0 .. m - 1 : P[k] = p
          BY <4>1 DEF K, KidsBelow, P
        <5>2. CASE k = m - 1
          BY <1>1, <5>1, <5>2 DEF K, KidsBelow, P
        <5>3. CASE k # m - 1
          <6>1. k < m - 1 /\ m - 1 < m /\ m - 1 \in 0 .. Len(list) - 1
            BY <1>1, <1>5, <5>1, <5>3
          <6>2. P[m - 1] = p
            BY <1>5, <1>7, <5>1, <6>1 DEF Contiguous, P, p
          <6>3. QED
            BY <6>1, <6>2, <1>1, <5>1 DEF K, KidsBelow, P
        <5>4. QED
          BY <5>2, <5>3
      <4>4. \A k \in K(p) : k \in Int /\ k <= m - 1
        BY <1>1 DEF K, KidsBelow
      <4>5. c.start + c.offset - 1 = m - 1 /\ c.start <= m - 1
        <5>1. c.start <= m - 1 /\ m - 1 <= c.start + c.offset - 1
          BY <1>1, <2>4, <4>2, <4>3
        <5>2. c.start + c.offset - 1 \in K(p)
          BY <1>1, <2>4, <4>2, <5>1
        <5>3. QED
          BY <1>1, <2>4, <4>4, <5>1, <5>2
      <4>6. d.start = c.start /\ d.offset = c.offset + 1
        BY <3>1 DEF d, Meta
      <4>7. K1(p) = K(p) \cup {m}
        BY <1>4
      <4> HIDE DEF c
      <4>8. QED
        BY <1>1, <2>4, <4>2, <4>5, <4>6, <4>7
    <3>2. CASE p # acc.last
      <4>1. K(p) = {}
        <5>1. SUFFICES ASSUME NEW k \in 0 .. m - 1, P[k] = p
                       PROVE  FALSE
          BY DEF K, KidsBelow, P
        <5>2. m - 1 \in 0 .. Len(list) - 1 /\ m > 0
          BY <1>1, <5>1
        <5>3. P[m - 1] = p
          <6>1. CASE k = m - 1
            BY <5>1, <6>1
          <6>2. CASE k # m - 1
            <7>1. k < m - 1 /\ m - 1 < m
              BY <1>1, <6>2
            <7>2. QED
              BY <1>5, <1>7, <5>1, <5>2, <7>1 DEF Contiguous, P, p
          <6>3. QED
            BY <6>1, <6>2
        <5>4. QED
          BY <1>7, <3>2, <5>2, <5>3 DEF LinkInv, P
      <4>2. K1(p) = {m}
        BY <1>4, <4>1
      <4>3. d.start = m /\ d.offset = 1
        BY <3>2 DEF d, First, Meta
      <4>4. QED
        BY <1>1, <4>2, <4>3
    <3>3. QED
      BY <3>1, <3>2
  <2>7. \A o : o # p => K1(o) = K(o)
    BY <1>4
  <2>8. K1(p) # {}
    BY <1>4
  <2>9. (m + 1) - 1 = m
    BY <1>1
  <2>10. ASSUME NEW o \in DOMAIN objects
         PROVE  /\ next.objects[o].id = objects[o].id
                /\ next.objects[o].name = objects[o].name
                /\ next.objects[o].parent_id = objects[o].parent_id
                /\ next.objects[o].parent = objects[o].parent
                /\ LET e == next.objects[o].children
                   IN  K1(o) # {} => K1(o) = e.start .. e.start + e.offset - 1
    <3>1. CASE o = p
      BY <2>5, <2>6, <3>1 DEF LinkInv, objs
    <3>2. CASE o # p
      BY <2>3, <2>7, <3>2 DEF LinkInv, objs, K
    <3>3. QED
      BY <3>1, <3>2
  <2>11. next.last = P[(m + 1) - 1]
    BY <2>3, <2>9 DEF p
  <2>12. KidsBelow(list, next.last, m + 1) # {}
    BY <2>3, <2>8 DEF K1
  <2>13. QED
    BY <1>2, <2>10, <2>11, <2>12 DEF LinkInv, K1, P, next
<1>8. QED
  BY <1>6, <1>7
IsOrder(s, n) ==
  /\ s \in Seq(Nat) /\ Len(s) = n
  /\ \A k \in 1 .. n : s[k] \in 1 .. n
  /\ \A k \in 1 .. n : \E j \in 1 .. n : s[j] = k

LEMMA OneMore ==
  ASSUME NEW n \in Nat, NEW s, IsOrder(s, n), NEW i \in 1 .. n + 1
  PROVE  IsOrder(InsertAt(s, i, n + 1), n + 1)
<1> DEFINE t == InsertAt(s, i, n + 1)
<1>1. s \in Seq(Nat) /\ Len(s) = n /\ n + 1 \in Nat /\ i \in Nat /\ i >= 1 /\ i - 1 <= n
  BY DEF IsOrder
<1>2. /\ SubSeq(s, 1, i - 1) \in Seq(Nat) /\ Len(SubSeq(s, 1, i - 1)) = i - 1
      /\ \A k \in 1 .. i - 1 : SubSeq(s, 1, i - 1)[k] = s[k]
      /\ SubSeq(s, i, Len(s)) \in Seq(Nat) /\ Len(SubSeq(s, i, Len(s))) = n - i + 1
      /\ \A k \in 1 .. n - i + 1 : SubSeq(s, i, Len(s))[k] = s[i + k - 1]
  BY <1>1
<1>3. /\ t \in Seq(Nat) /\ Len(t) = n + 1 /\ t[i] = n + 1
      /\ \A k \in 1 .. n + 1 : t[k] = IF k < i THEN s[k] ELSE IF k = i THEN n + 1 ELSE s[k - 1]
  BY <1>1, <1>2 DEF InsertAt
<1> HIDE DEF t
<1>4. ASSUME NEW k \in 1 .. n + 1
      PROVE  t[k] \in 1 .. n + 1
  <2>1. CASE k < i
    <3>1. k \in 1 .. n
      BY <1>1, <2>1
    <3>2. QED
      BY <1>1, <1>3, <2>1, <3>1 DEF IsOrder
  <2>2. CASE k = i
    BY <1>1, <1>3, <2>2
  <2>3. CASE k > i
    <3>1. k - 1 \in 1 .. n
      BY <1>1, <2>3
    <3>2. QED
      BY <1>1, <1>3, <2>3, <3>1 DEF IsOrder
  <2>4. QED
    BY <1>1, <2>1, <2>2, <2>3
<1>5. ASSUME NEW k \in 1 .. n + 1
      PROVE  \E j \in 1 .. n + 1 : t[j] = k
  <2>1. CASE k = n + 1
    BY <1>1, <1>3, <2>1
  <2>2. CASE k # n + 1
    <3>1. PICK j \in 1 .. n : s[j] = k
      BY <2>2 DEF IsOrder
    <3>2. CASE j < i
      BY <1>3, <3>1, <3>2
    <3>3. CASE ~(j < i)
      <4>1. j + 1 \in 1 .. n + 1 /\ ~(j + 1 < i) /\ j + 1 # i /\ (j + 1) - 1 = j
        BY <1>1, <3>3
      <4>2. QED
        BY <1>3, <3>1, <4>1
    <3>4. QED
      BY <3>2, <3>3
  <2>3. QED
    BY <2>1, <2>2
<1>6. QED
  BY <1>3, <1>4, <1>5 DEF IsOrder, t

(* Every member of Orders(n) has each number up to n, and no other. *)
LEMMA OrdersAreOrders ==
  ASSUME NEW n \in Nat
  PROVE  \A s \in Orders(n) : IsOrder(s, n)
<1> DEFINE V == SUBSET Seq(Nat)
           Longer(T, k) == {InsertAt(s, i, k) : s \in T, i \in 1 .. k}
           step == [k \in Nat |-> [T \in V |-> Longer(T, k + 1) \cap Seq(Nat)]]
           loop(f) == [k \in 0 .. n |-> IF k = 0 THEN {<<>>} ELSE Longer(f[k - 1], k)]
           Good(T, k) == \A s \in T : IsOrder(s, k)
<1>1. {<<>>} \in V /\ Good({<<>>}, 0)
  BY DEF IsOrder
<1>2. step \in [Nat -> [V -> V]]
  OBVIOUS
<1> HIDE DEF V
<1>3. PICK f : IsLoop(f, n, V, {<<>>}, step)
  <2> HIDE DEF step
  <2>1. \A k \in Nat : \E f : IsLoop(f, k, V, {<<>>}, step)
    BY <1>1, <1>2, Iteration
  <2>2. QED
    BY <2>1
<1>4. ASSUME NEW k \in Nat, NEW T \in V, Good(T, k)
      PROVE  /\ Longer(T, k + 1) = step[k][T]
             /\ Good(Longer(T, k + 1), k + 1)
  <2>1. \A s \in T, i \in 1 .. k + 1 : IsOrder(InsertAt(s, i, k + 1), k + 1)
    BY <1>4, OneMore
  <2>2. \A x \in Longer(T, k + 1) : IsOrder(x, k + 1)
    BY <2>1
  <2>3. \A x \in Longer(T, k + 1) : x \in Seq(Nat)
    BY <2>2 DEF IsOrder
  <2> HIDE DEF Longer
  <2>4. Longer(T, k + 1) \cap Seq(Nat) = Longer(T, k + 1)
    BY <2>3
  <2>5. QED
    BY <2>2, <2>4
<1>5. Nat \subseteq {k \in Nat : k <= n => Good(f[k], k)}
  <2> DEFINE S == {k \in Nat : k <= n => Good(f[k], k)}
  <2>1. 0 \in S
    BY <1>1, <1>3 DEF IsLoop
  <2>2. ASSUME NEW k \in Nat, k \in S
        PROVE  k + 1 \in S
    <3>1. SUFFICES ASSUME k + 1 <= n
                   PROVE  Good(f[k + 1], k + 1)
      OBVIOUS
    <3>2. k \in 0 .. n /\ k + 1 \in 1 .. n /\ (k + 1) - 1 = k
      BY <3>1
    <3> HIDE DEF step, Longer, Good
    <3>3. f[k] \in V /\ f[k + 1] = step[k][f[k]] /\ Good(f[k], k)
      <4>1. k <= n /\ Good(f[k], k)
        BY <2>2, <3>2
      <4>2. QED
        BY <1>3, <3>2, <4>1 DEF IsLoop
    <3>4. Good(step[k][f[k]], k + 1)
      BY <1>4, <3>3
    <3>5. QED
      BY <3>3, <3>4
  <2>3. QED
    BY <2>1, <2>2, Induction
<1>6. \A k \in 1 .. n : f[k] = Longer(f[k - 1], k)
  <2>1. SUFFICES ASSUME NEW k \in 1 .. n
                 PROVE  f[k] = Longer(f[k - 1], k)
    OBVIOUS
  <2>2. k - 1 \in Nat /\ k - 1 \in 0 .. n /\ (k - 1) + 1 = k /\ k - 1 <= n
    OBVIOUS
  <2>3. f[k - 1] \in V /\ f[k] = step[k - 1][f[k - 1]] /\ Good(f[k - 1], k - 1)
    BY <1>3, <1>5, <2>2 DEF IsLoop
  <2> HIDE DEF step, Longer, Good
  <2>4. Longer(f[k - 1], (k - 1) + 1) = step[k - 1][f[k - 1]]
    BY <1>4, <2>2, <2>3
  <2>5. QED
    BY <2>2, <2>3, <2>4
<1> HIDE DEF step
<1>7. f = loop(f)
  BY <1>3, <1>6 DEF IsLoop
<1> DEFINE O == CHOOSE g : g = loop(g)
<1>8. Orders(n) = O[n]
  BY DEF Orders
<1> HIDE DEF loop
<1>9. O = loop(O)
  BY <1>7
<1> HIDE DEF O
<1>10. Nat \subseteq {k \in Nat : k <= n => O[k] = f[k]}
  <2> DEFINE S == {k \in Nat : k <= n => O[k] = f[k]}
  <2> HIDE DEF Longer
  <2>1. O[0] = {<<>>} /\ \A k \in 1 .. n : O[k] = Longer(O[k - 1], k)
    <3>1. O = [k \in 0 .. n |-> IF k = 0 THEN {<<>>} ELSE Longer(O[k - 1], k)]
      BY <1>9 DEF loop
    <3>2. 0 \in 0 .. n /\ \A k \in 1 .. n : k \in 0 .. n /\ k # 0
      OBVIOUS
    <3>3. O[0] = {<<>>}
      BY <3>1, <3>2
    <3>4. \A k \in 1 .. n : O[k] = Longer(O[k - 1], k)
      BY <3>1, <3>2
    <3>5. QED
      BY <3>3, <3>4
  <2>2. 0 \in S
    BY <1>3, <2>1 DEF IsLoop
  <2>3. ASSUME NEW k \in Nat, k \in S
        PROVE  k + 1 \in S
    <3>1. SUFFICES ASSUME k + 1 <= n
                   PROVE  O[k + 1] = f[k + 1]
      OBVIOUS
    <3>2. k + 1 \in 1 .. n /\ (k + 1) - 1 = k /\ O[k] = f[k]
      BY <2>3, <3>1
    <3> HIDE DEF Longer
    <3>3. QED
      BY <1>6, <2>1, <3>2
  <2>4. QED
    BY <2>2, <2>3, Induction
<1>11. QED
  BY <1>5, <1>8, <1>10
LEMMA TurnsType ==
  ASSUME TypeInv, NEW list, Linkable(list)
  PROVE  \A n \in 0 .. Len(list) :
           Turns(list)[n] \in Acc /\ DOMAIN Turns(list)[n].objects = DOMAIN objects
<1> DEFINE Good(t) == t \in Acc /\ DOMAIN t.objects = DOMAIN objects
           S == {n \in Nat : n <= Len(list) => Good(Turns(list)[n])}
<1>1. Len(list) \in Nat
  BY DEF Linkable
<1>2. 0 \in S
  BY TurnsUnfold DEF TypeInv, Acc, NULL
<1>3. ASSUME NEW n \in Nat, n \in S
      PROVE  n + 1 \in S
  <2>1. SUFFICES ASSUME n + 1 <= Len(list)
                 PROVE  Good(Turns(list)[n + 1])
    OBVIOUS
  <2>2. n + 1 \in 1 .. Len(list) /\ (n + 1) - 1 = n /\ n \in 0 .. Len(list) - 1
    BY <1>1, <2>1
  <2>3. Turns(list)[n + 1] = LinkOne(list, Turns(list)[n], n)
    BY <2>2, TurnsUnfold
  <2>4. Good(Turns(list)[n])
    BY <1>1, <1>3, <2>1
  <2>5. QED
    BY <2>2, <2>3, <2>4, LinkOneType
<1>4. Nat \subseteq S
  BY <1>2, <1>3, Induction
<1>5. QED
  BY <1>4

LEMMA Linking ==
  ASSUME TypeInv, NEW list, Linkable(list), Contiguous(list),
         \A k \in 0 .. Len(list) - 1 : Parents(list)[k] # NULL => Parents(list)[k] \in DOMAIN objects
  PROVE  LinkInv(list, Turns(list)[Len(list)], Len(list))
<1> DEFINE S == {n \in Nat : n <= Len(list) => LinkInv(list, Turns(list)[n], n)}
<1>1. Len(list) \in Nat
  BY DEF Linkable
<1>2. 0 \in S
  <2>1. \A o : KidsBelow(list, o, 0) = {}
    BY DEF KidsBelow
  <2>2. Turns(list)[0] \in Acc
    BY <1>1, TurnsType
  <2>3. LinkInv(list, Turns(list)[0], 0)
    BY <2>1, <2>2, TurnsUnfold DEF LinkInv
  <2>4. QED
    BY <2>3
<1>3. ASSUME NEW n \in Nat, n \in S
      PROVE  n + 1 \in S
  <2>1. SUFFICES ASSUME n + 1 <= Len(list)
                 PROVE  LinkInv(list, Turns(list)[n + 1], n + 1)
    OBVIOUS
  <2>2. n + 1 \in 1 .. Len(list) /\ (n + 1) - 1 = n /\ n \in 0 .. Len(list) - 1
    BY <1>1, <2>1
  <2>3. Turns(list)[n + 1] = LinkOne(list, Turns(list)[n], n)
    BY <2>2, TurnsUnfold
  <2>4. LinkInv(list, Turns(list)[n], n)
    BY <1>1, <1>3, <2>1
  <2>5. QED
    BY <2>2, <2>3, <2>4, LinkStep
<1>4. Nat \subseteq S
  BY <1>2, <1>3, Induction
<1>5. QED
  BY <1>1, <1>4

(* The list that load returns has the same entries as before. *)
LEMMA Sorted ==
  ASSUME TypeInv, FinishLoad
  PROVE  \E list :
           /\ Linkable(list) /\ InOrderOf(list)
           /\ catalog_list' = list /\ objects' = Linked(list)
           /\ DOMAIN list = DOMAIN catalog_list
           /\ \A k \in DOMAIN list : \E l \in DOMAIN catalog_list : list[k] = catalog_list[l]
           /\ \A l \in DOMAIN catalog_list : \E k \in DOMAIN list : list[k] = catalog_list[l]
<1> DEFINE list(order) == [k \in DOMAIN catalog_list |-> catalog_list[order[k]]]
           size == Len(catalog_list)
<1>1. size \in Nat /\ DOMAIN catalog_list = 1 .. size /\ \A k \in 1 .. size : catalog_list[k] \in Nat
  BY DEF TypeInv
<1>2. PICK order \in Orders(size) :
        InOrderOf(list(order)) /\ catalog_list' = list(order) /\ objects' = Linked(list(order))
  BY DEF FinishLoad
<1> DEFINE l == list(order)
<1>3. IsOrder(order, size)
  BY <1>1, <1>2, OrdersAreOrders
<1> HIDE DEF size
<1>4. l \in Seq(Nat) /\ DOMAIN l = 1 .. size /\ \A k \in 1 .. size : l[k] = catalog_list[order[k]]
  BY <1>1, <1>3 DEF IsOrder
<1> HIDE DEF list, l
<1>5. \A k \in 1 .. size : order[k] \in 1 .. size
  BY <1>3 DEF IsOrder
<1>6. \A k \in 1 .. size : \E j \in 1 .. size : order[j] = k
  BY <1>3 DEF IsOrder
<1>7. Linkable(l)
  BY <1>1, <1>4, <1>5 DEF Linkable, TypeInv
<1>8. InOrderOf(l) /\ catalog_list' = l /\ objects' = Linked(l)
  BY <1>2 DEF l
<1>9. /\ DOMAIN l = DOMAIN catalog_list
      /\ \A k \in DOMAIN l : \E j \in DOMAIN catalog_list : l[k] = catalog_list[j]
      /\ \A j \in DOMAIN catalog_list : \E k \in DOMAIN l : l[k] = catalog_list[j]
  <2>1. \A j \in 1 .. size : \E k \in 1 .. size : l[k] = catalog_list[j]
    BY <1>4, <1>6
  <2>2. \A k \in 1 .. size : \E j \in 1 .. size : l[k] = catalog_list[j]
    BY <1>4, <1>5
  <2>3. QED
    BY <1>1, <1>4, <2>1, <2>2
<1>10. QED
  BY <1>7, <1>8, <1>9

(* What load leaves, apart from the order of the list and the ranges. *)
LEMMA Loaded ==
  ASSUME TypeInv, FinishLoad
  PROVE  /\ TypeInv'
         /\ ready' /\ ~ready
         /\ UNCHANGED <<file, level_one_map, id_cata>>
<1>1. PICK list :
        /\ Linkable(list)
        /\ catalog_list' = list /\ objects' = Linked(list)
  BY Sorted
<1>2. Len(list) \in Nat /\ list \in Seq(Nat) /\ \A k \in DOMAIN list : list[k] \in DOMAIN objects
  BY <1>1 DEF Linkable
<1>3. Turns(list)[Len(list)] \in Acc /\ DOMAIN Turns(list)[Len(list)].objects = DOMAIN objects
  BY <1>1, <1>2, TurnsType
<1>4. objects' \in Seq(Obj) /\ DOMAIN objects' = DOMAIN objects
  BY <1>1, <1>3 DEF Acc, Linked
<1>5. ready' = TRUE /\ ~ready /\ UNCHANGED <<file, level_one_map, id_cata>>
  BY DEF FinishLoad
<1>6. QED
  BY <1>1, <1>2, <1>4, <1>5 DEF TypeInv

LEMMA EntriesLoaded ==
  ASSUME TypeInv, Entries, FinishLoad
  PROVE  /\ Entries' /\ SortedList' /\ Ranges'
         /\ \A o \in DOMAIN objects :
              o \in DOMAIN objects' /\ objects'[o].name = objects[o].name
              /\ objects'[o].parent = objects[o].parent
<1>1. PICK list :
        /\ Linkable(list) /\ InOrderOf(list)
        /\ catalog_list' = list /\ objects' = Linked(list)
        /\ DOMAIN list = DOMAIN catalog_list
        /\ \A k \in DOMAIN list : \E l \in DOMAIN catalog_list : list[k] = catalog_list[l]
        /\ \A l \in DOMAIN catalog_list : \E k \in DOMAIN list : list[k] = catalog_list[l]
  BY Sorted
<1> DEFINE size == Len(list)
           P == Parents(list)
           objs == Linked(list)
<1>2. /\ size \in Nat /\ DOMAIN list = 1 .. size
      /\ \A k \in DOMAIN list : list[k] \in DOMAIN objects
      /\ \A k \in 0 .. size - 1 : k + 1 \in DOMAIN list /\ P[k] = objects[list[k + 1]].parent
  BY <1>1 DEF Linkable, Parents
<1>3. /\ \A a, b \in DOMAIN id_cata : id_cata[a] = id_cata[b] => a = b
      /\ \A a \in DOMAIN id_cata : id_cata[a] \in DOMAIN objects
  BY DEF Entries, TypeInv
<1>4. \A k \in DOMAIN list : \E n \in DOMAIN file : IsOf(objects[list[k]], file[n], id_cata)
  BY <1>1 DEF Entries
<1>5. \A n \in DOMAIN file : file[n].parent # 0 => file[n].parent \in DOMAIN id_cata
  BY DEF Entries, Ids
<1>6. ASSUME NEW k \in DOMAIN list
      PROVE  LET o == objects[list[k]]
             IN  \/ o.parent_id = 0 /\ o.parent = NULL
                 \/ o.parent_id \in DOMAIN id_cata /\ o.parent = id_cata[o.parent_id]
  BY <1>4, <1>5 DEF IsOf
<1>7. \A k \in 0 .. size - 1 : P[k] # NULL => P[k] \in DOMAIN objects
  BY <1>2, <1>3, <1>6
<1>8. \A k \in DOMAIN list : objects[list[k]].parent_id \in Int /\ objects[list[k]].name \in Int
  <2> DEFINE R == Obj
  <2>1. objects \in Seq(R)
    BY DEF TypeInv
  <2> HIDE DEF R
  <2>2. \A o \in DOMAIN objects : objects[o] \in R
    BY <2>1
  <2>3. QED
    BY <1>2, <2>2 DEF R, Obj
<1>9. \A i, j \in DOMAIN list :
        i < j => LET a == objects[list[i]]
                     b == objects[list[j]]
                 IN  /\ a.parent_id >= b.parent_id
                     /\ a.parent_id = b.parent_id => a.name <= b.name
  <2>1. ASSUME NEW i \in DOMAIN list, NEW j \in DOMAIN list, i < j
        PROVE  catalog_cmp(objects[list[i]], objects[list[j]])
    BY <1>1, <2>1 DEF InOrderOf
  <2>2. QED
    BY <1>8, <2>1 DEF catalog_cmp
<1>10. NULL \notin DOMAIN objects
  BY DEF TypeInv, NULL
<1> HIDE DEF P
<1>11. Contiguous(list)
  <2>1. SUFFICES ASSUME NEW i \in 0 .. size - 1, NEW j \in 0 .. size - 1, NEW k \in 0 .. size - 1,
                        i < j, j < k, P[i] = P[k], P[i] # NULL
                 PROVE  P[j] = P[i]
    BY DEF Contiguous, P
  <2> DEFINE a == objects[list[i + 1]]
             b == objects[list[j + 1]]
             c == objects[list[k + 1]]
  <2>2. a.parent = P[i] /\ b.parent = P[j] /\ c.parent = P[k]
    BY <1>2
  <2>3. a.parent_id \in DOMAIN id_cata /\ a.parent = id_cata[a.parent_id]
    BY <1>2, <1>6, <2>1, <2>2
  <2>4. c.parent_id \in DOMAIN id_cata /\ c.parent = id_cata[c.parent_id]
    BY <1>2, <1>6, <2>1, <2>2
  <2>5. a.parent_id = c.parent_id
    BY <1>3, <2>1, <2>2, <2>3, <2>4
  <2>6. i + 1 < j + 1 /\ j + 1 < k + 1
    BY <1>2, <2>1
  <2>7. a.parent_id >= b.parent_id /\ b.parent_id >= c.parent_id
    BY <1>2, <1>9, <2>6
  <2>8. b.parent_id = a.parent_id
    BY <1>2, <1>8, <2>5, <2>7
  <2>9. QED
    <3>1. j + 1 \in DOMAIN list /\ i + 1 \in DOMAIN list
      BY <1>2
    <3>2. b.parent_id # 0 => b.parent = id_cata[b.parent_id]
      BY <1>6, <3>1
    <3>3. a.parent_id # 0
      <4>1. \A n \in DOMAIN file : file[n].id # 0
        BY CatalogAssumption DEF TypeInv
      <4>2. QED
        BY <2>3, <4>1 DEF Entries, Ids
    <3>4. QED
      BY <2>2, <2>3, <2>8, <3>2, <3>3
<1>12. LinkInv(list, Turns(list)[size], size)
  BY <1>1, <1>7, <1>11, Linking DEF P
<1>13. /\ DOMAIN objs = DOMAIN objects
       /\ \A o \in DOMAIN objects :
            /\ objs[o].id = objects[o].id
            /\ objs[o].name = objects[o].name
            /\ objs[o].parent_id = objects[o].parent_id
            /\ objs[o].parent = objects[o].parent
            /\ LET c == objs[o].children
               IN  KidsBelow(list, o, size) # {} =>
                     KidsBelow(list, o, size) = c.start .. c.start + c.offset - 1
  BY <1>12 DEF LinkInv, Linked
<1>14. objects' = objs /\ catalog_list' = list /\ UNCHANGED <<file, id_cata>>
  BY <1>1 DEF FinishLoad
<1> HIDE DEF objs
<1>15. \A o : Kids(o)' = KidsBelow(list, o, size)
  <2>1. \A k \in 0 .. size - 1 : objs[list[k + 1]].parent = P[k]
    BY <1>2, <1>13 DEF P
  <2>2. QED
    BY <1>14, <2>1 DEF Kids, KidsBelow, At, P
<1>16. Ranges'
  BY <1>13, <1>14, <1>15 DEF Ranges
<1>17. SortedList'
  BY <1>2, <1>9, <1>13, <1>14 DEF SortedList
<1>18. Entries'
  <2>1. ASSUME NEW k \in DOMAIN list, NEW l \in DOMAIN catalog_list,
               list[k] = catalog_list[l], NEW n
        PROVE  IsOf(objects[catalog_list[l]], file[n], id_cata) <=> IsOf(objs[list[k]], file[n], id_cata)
    BY <1>2, <1>13, <2>1 DEF IsOf
  <2>2. \A k \in DOMAIN list : \E n \in DOMAIN file : IsOf(objs[list[k]], file[n], id_cata)
    BY <1>1, <2>1 DEF Entries
  <2>3. \A n \in DOMAIN file : \E k \in DOMAIN list : IsOf(objs[list[k]], file[n], id_cata)
    BY <1>1, <2>1 DEF Entries
  <2>4. \A id \in Ids, k \in DOMAIN list : id_cata[id] = list[k] => objs[list[k]].id = id
    <3>1. ASSUME NEW id \in Ids, NEW k \in DOMAIN list, id_cata[id] = list[k]
          PROVE  objs[list[k]].id = id
      <4>1. PICK l \in DOMAIN catalog_list : list[k] = catalog_list[l]
        BY <1>1
      <4>2. objects[list[k]].id = id
        BY <3>1, <4>1 DEF Entries
      <4>3. QED
        BY <1>2, <1>13, <4>2
    <3>2. QED
      BY <3>1
  <2>5. Ids' = Ids
    BY <1>14 DEF Ids
  <2>6. DOMAIN id_cata = Ids /\ \A a, b \in Ids : id_cata[a] = id_cata[b] => a = b
    BY DEF Entries
  <2>7. QED
    BY <1>14, <2>2, <2>3, <2>4, <2>5, <2>6 DEF Entries, IsOf
<1>19. QED
  BY <1>13, <1>14, <1>16, <1>17, <1>18
-----------------------------------------------------------------------------
(***************************************************************************)
(* The invariant                                                           *)
(***************************************************************************)
LEMMA CatalogStarts == Init => CatalogInv
<1> SUFFICES ASSUME Init
             PROVE  CatalogInv
  OBVIOUS
<1>1. /\ DOMAIN file = {} /\ DOMAIN objects = {} /\ DOMAIN id_cata = {}
      /\ DOMAIN catalog_list = {} /\ DOMAIN level_one_map = {}
      /\ file \in Seq(Lines) /\ objects \in Seq(Obj) /\ catalog_list \in Seq(Nat)
      /\ ready = FALSE
  BY DEF Init
<1>2. TypeInv
  BY <1>1 DEF TypeInv
<1>3. Ids = {}
  BY <1>1 DEF Ids
<1>4. Entries /\ NamedById /\ TopsKnown
  BY <1>1, <1>3 DEF Entries, NamedById, TopsKnown
<1>5. QED
  BY <1>1, <1>2, <1>4 DEF CatalogInv

LEMMA CatalogKept == CatalogInv /\ [Next]_vars => CatalogInv'
<1> SUFFICES ASSUME CatalogInv, [Next]_vars
             PROVE  CatalogInv'
  OBVIOUS
<1>1. TypeInv
  BY DEF CatalogInv
<1>2. ASSUME NEW line \in Lines, ParseLine(line)
      PROVE  CatalogInv'
  <2>1. TypeInv' /\ file' = Append(file, line) /\ ready' = FALSE
    BY <1>1, <1>2, LineRead
  <2>2. /\ DistinctIds' => DistinctIds
        /\ TwoLevels' => TwoLevels
        /\ UniqueNames' => UniqueNames
        /\ ParentsFirst' => ParentsFirst
    BY <1>1, <2>1, LineIsNew DEF TypeInv
  <2>3. DistinctIds' => Entries'
    BY <1>1, <1>2, <2>2, EntriesRead DEF CatalogInv
  <2>4. DistinctIds' /\ TwoLevels' => NamedById'
    BY <1>1, <1>2, <2>2, NamedRead DEF CatalogInv
  <2>5. DistinctIds' /\ UniqueNames' /\ ParentsFirst' => TopsKnown'
    BY <1>1, <1>2, <2>2, TopsRead DEF CatalogInv
  <2>6. QED
    BY <2>1, <2>3, <2>4, <2>5 DEF CatalogInv
<1>3. CASE FinishLoad
  <2>1. TypeInv' /\ UNCHANGED <<file, level_one_map, id_cata>>
    BY <1>1, <1>3, Loaded
  <2>2. /\ DistinctIds' <=> DistinctIds
        /\ TwoLevels' <=> TwoLevels
        /\ UniqueNames' <=> UniqueNames
        /\ ParentsFirst' <=> ParentsFirst
    BY <2>1 DEF DistinctIds, TwoLevels, UniqueNames, ParentsFirst
  <2>3. DistinctIds => Entries' /\ SortedList' /\ Ranges'
    BY <1>1, <1>3, EntriesLoaded DEF CatalogInv
  <2>4. DistinctIds /\ TwoLevels => NamedById'
    <3>1. SUFFICES ASSUME DistinctIds, TwoLevels
                   PROVE  NamedById'
      OBVIOUS
    <3>2. Entries /\ NamedById
      BY <3>1 DEF CatalogInv
    <3>3. \A o \in DOMAIN objects :
            objects'[o].name = objects[o].name /\ objects'[o].parent = objects[o].parent
      BY <1>1, <1>3, <3>2, EntriesLoaded
    <3>4. \A n \in DOMAIN file : id_cata[file[n].id] \in DOMAIN objects
      BY <1>1, <3>2 DEF TypeInv, Entries, Ids
    <3>5. QED
      BY <2>1, <3>2, <3>3, <3>4 DEF NamedById
  <2>5. TopsKnown => TopsKnown'
    BY <2>1 DEF TopsKnown
  <2>6. QED
    BY <2>1, <2>2, <2>3, <2>4, <2>5 DEF CatalogInv
<1>4. CASE UNCHANGED vars
  <2>1. /\ file' = file /\ ready' = ready /\ objects' = objects
        /\ level_one_map' = level_one_map /\ id_cata' = id_cata /\ catalog_list' = catalog_list
    BY <1>4 DEF vars
  <2>2. TypeInv' = TypeInv /\ DistinctIds' = DistinctIds /\ TwoLevels' = TwoLevels
    BY <2>1 DEF TypeInv, DistinctIds, TwoLevels
  <2>3. UniqueNames' = UniqueNames /\ ParentsFirst' = ParentsFirst
    BY <2>1 DEF UniqueNames, ParentsFirst
  <2>4. Entries' = Entries
    BY <2>1 DEF Entries, Ids, IsOf
  <2>5. SortedList' = SortedList /\ Ranges' = Ranges
    BY <2>1 DEF SortedList, Ranges, Kids, At
  <2>6. NamedById' = NamedById /\ TopsKnown' = TopsKnown
    BY <2>1 DEF NamedById, TopsKnown
  <2>7. QED
    BY <2>1, <2>2, <2>3, <2>4, <2>5, <2>6 DEF CatalogInv
<1>5. QED
  BY <1>2, <1>3, <1>4 DEF Next

(* What is known of the catalogs while the file is read and after load.    *)
THEOREM CatalogInvariance == Spec => []CatalogInv
<1>1. QED
  BY CatalogStarts, CatalogKept, PTL DEF Spec

(* load, l.42-66: however many levels the file has and in whatever order   *)
(* its lines are, the range of a parent has its children and nothing else. *)
THEOREM RangesAreExact == Spec => []ChildRanges
<1>1. CatalogInv => ChildRanges
  BY DEF CatalogInv, ChildRanges, Ranges, Kids
<1>2. QED
  BY <1>1, CatalogInvariance, PTL

(* Files of two levels without a name twice fulfil what the invariant asks. *)
LEMMA WellFormedLines ==
  ASSUME TypeInv, WellFormed
  PROVE  DistinctIds /\ TwoLevels /\ UniqueNames
<1>1. /\ FileLines = {file[n] : n \in DOMAIN file}
      /\ \A n \in DOMAIN file : file[n] \in FileLines /\ file[n] \in Lines
  BY DEF FileLines, ToSet, TypeInv
<1>2. DistinctIds
  BY DEF WellFormed
<1>3. TwoLevels
  <2>1. SUFFICES ASSUME NEW i \in DOMAIN file, NEW j \in DOMAIN file, file[i].parent = file[j].id
                 PROVE  file[j].parent = 0
    BY DEF TwoLevels
  <2>2. file[i].parent # 0
    BY <1>1, <2>1, CatalogAssumption
  <2>3. PICK top \in Tops : file[i] \in Below(top)
    BY <1>1, <2>2 DEF WellFormed
  <2>4. PICK t \in DOMAIN file : file[t] = top
    BY <1>1 DEF Tops
  <2>5. file[t].id = file[j].id /\ file[t].parent = 0
    BY <2>1, <2>3, <2>4 DEF Below, Tops
  <2>6. QED
    BY <1>2, <2>5 DEF DistinctIds
<1>4. UniqueNames
  BY <1>1, <1>2 DEF WellFormed, UniqueNames, DistinctIds
<1>5. QED
  BY <1>2, <1>3, <1>4

(* get_catalog_name and get_parent_catalog_name find the names of every    *)
(* line, even where a child was read before its parent (l.96-102).         *)
THEOREM NamesAreKnown == Spec => []NamesKnown
<1>1. CatalogInv => NamesKnown
  <2>1. SUFFICES ASSUME CatalogInv, WellFormed, NEW l \in FileLines
                 PROVE  /\ get_catalog_name(l.id) = l.name
                        /\ \A top \in Tops :
                             l \in Below(top) => get_parent_catalog_name(l.id) = top.name
    BY DEF NamesKnown
  <2>2. TypeInv /\ Entries /\ NamedById
    BY <2>1, WellFormedLines DEF CatalogInv
  <2>3. FileLines = {file[n] : n \in DOMAIN file}
    BY DEF FileLines, ToSet
  <2>4. PICK n \in DOMAIN file : l = file[n]
    BY <2>1, <2>3
  <2>5. l.id \in DOMAIN id_cata /\ objects[id_cata[l.id]].name = l.name
    BY <2>2, <2>4 DEF Entries, Ids, NamedById
  <2>6. ASSUME NEW top \in Tops, l \in Below(top)
        PROVE  get_parent_catalog_name(l.id) = top.name
    <3>1. PICK t \in DOMAIN file : top = file[t]
      BY <2>3 DEF Tops
    <3>2. l.parent = top.id /\ top.id # 0
      BY <2>2, <2>6, <3>1, CatalogAssumption DEF Below, TypeInv
    <3>3. objects[id_cata[l.id]].parent = id_cata[top.id]
      BY <2>2, <2>4, <3>2 DEF NamedById
    <3>4. top.id \in DOMAIN id_cata /\ objects[id_cata[top.id]].name = top.name
      BY <2>2, <3>1 DEF Entries, Ids, NamedById
    <3>5. id_cata[top.id] # NULL /\ id_cata[top.id] # Junk
      BY <2>2, <3>4 DEF TypeInv, NULL, Junk
    <3>6. QED
      BY <2>5, <3>3, <3>4, <3>5 DEF get_parent_catalog_name
  <2>7. QED
    BY <2>5, <2>6 DEF get_catalog_name
<1>2. QED
  BY <1>1, CatalogInvariance, PTL
-----------------------------------------------------------------------------
(***************************************************************************)
(* The search in the range of a parent                                     *)
(***************************************************************************)
Ends == {e \in Int \X Int : e[1] < e[2]}
Half(e) == e[1] + (e[2] - e[1]) \div 2

LEMMA HalfProperties ==
  \A e \in Ends :
    /\ e = <<e[1], e[2]>> /\ e[1] \in Int /\ e[2] \in Int /\ e[1] < e[2]
    /\ Half(e) \in Int
    /\ e[1] + 1 # e[2] => e[1] < Half(e) /\ Half(e) < e[2]
<1>1. \A d \in Nat : d >= 2 => d \div 2 \in Nat /\ 1 <= d \div 2 /\ d \div 2 < d
  OBVIOUS
<1>2. SUFFICES ASSUME NEW e \in Ends
               PROVE  /\ e = <<e[1], e[2]>> /\ e[1] \in Int /\ e[2] \in Int /\ e[1] < e[2]
                      /\ Half(e) \in Int
                      /\ e[1] + 1 # e[2] => e[1] < Half(e) /\ Half(e) < e[2]
  OBVIOUS
<1>3. e = <<e[1], e[2]>> /\ e[1] \in Int /\ e[2] \in Int /\ e[1] < e[2]
  BY DEF Ends
<1>4. Half(e) \in Int
  BY <1>3 DEF Half
<1>5. e[1] + 1 # e[2] => e[1] < Half(e) /\ Half(e) < e[2]
  <2>1. SUFFICES ASSUME e[1] + 1 # e[2]
                 PROVE  e[1] < Half(e) /\ Half(e) < e[2]
    OBVIOUS
  <2>2. e[2] - e[1] \in Nat /\ e[2] - e[1] >= 2
    BY <1>3, <2>1
  <2>3. PICK d \in Nat : d = e[2] - e[1]
    BY <2>2
  <2>4. d \div 2 \in Nat /\ 1 <= d \div 2 /\ d \div 2 < d
    BY <1>1, <2>2, <2>3
  <2>5. Half(e) = e[1] + d \div 2
    BY <2>3 DEF Half
  <2>6. QED
    BY <1>3, <2>3, <2>4, <2>5
<1>6. QED
  BY <1>3, <1>4, <1>5

(* One turn of the loop of Search. *)
SearchOnce(f, name) ==
  [e \in Ends |->
     IF e[1] + 1 = e[2] THEN e[2]
     ELSE IF Half(e) \notin 0 .. Len(catalog_list) - 1 THEN Wild
     ELSE IF At(Half(e)).name < name THEN f[<<Half(e), e[2]>>]
     ELSE f[<<e[1], Half(e)>>]]

LEMMA SearchEnds ==
  ASSUME NEW name
  PROVE  \E f : f = SearchOnce(f, name)
<1> DEFINE stop == {e \in Ends : e[1] + 1 = e[2] \/ Half(e) \notin 0 .. Len(catalog_list) - 1}
           val == [e \in stop |-> IF e[1] + 1 = e[2] THEN e[2] ELSE Wild]
           low == {e \in Ends : At(Half(e)).name < name}
           next == [e \in Ends |-> IF e \in stop THEN e
                                   ELSE IF e \in low THEN <<Half(e), e[2]>> ELSE <<e[1], Half(e)>>]
           w == [e \in Ends |-> e[2] - e[1]]
<1>1. stop \in SUBSET Ends
  OBVIOUS
<1>2. val \in [stop -> Int]
  BY HalfProperties DEF Wild
<1>3. ASSUME NEW e \in Ends \ stop
      PROVE  /\ <<Half(e), e[2]>> \in Ends /\ <<e[1], Half(e)>> \in Ends
             /\ e[2] - Half(e) < e[2] - e[1] /\ Half(e) - e[1] < e[2] - e[1]
  <2>1. /\ e[1] \in Int /\ e[2] \in Int /\ Half(e) \in Int
        /\ e[1] < Half(e) /\ Half(e) < e[2]
    BY HalfProperties
  <2>2. QED
    BY <2>1 DEF Ends
<1> HIDE DEF low
<1>4. next \in [Ends -> Ends]
  BY <1>3
<1>5. w \in [Ends -> Nat]
  BY HalfProperties
<1>6. ASSUME NEW e \in Ends \ stop
      PROVE  w[next[e]] < w[e]
  <2>1. CASE e \in low
    BY <1>3, <2>1
  <2>2. CASE e \notin low
    BY <1>3, <2>2
  <2>3. QED
    BY <2>1, <2>2
<1> HIDE DEF stop, val, next, w
<1>7. PICK f \in [Ends -> Int] : Unfolds(f, Ends, stop, val, next)
  BY <1>1, <1>2, <1>4, <1>5, <1>6, TailRecursion
<1>8. ASSUME NEW e \in Ends
      PROVE  f[e] = SearchOnce(f, name)[e]
  <2>1. f[e] = IF e \in stop THEN val[e] ELSE f[next[e]]
    BY <1>7 DEF Unfolds
  <2>2. e \in low <=> At(Half(e)).name < name
    BY DEF low
  <2>3. SearchOnce(f, name)[e] =
          IF e[1] + 1 = e[2] THEN e[2]
          ELSE IF Half(e) \notin 0 .. Len(catalog_list) - 1 THEN Wild
          ELSE IF e \in low THEN f[<<Half(e), e[2]>>]
          ELSE f[<<e[1], Half(e)>>]
    BY <2>2 DEF SearchOnce
  <2>4. QED
    BY <2>1, <2>3 DEF stop, val, next
<1>9. f = SearchOnce(f, name)
  BY <1>7, <1>8 DEF SearchOnce
<1>10. QED
  BY <1>9

LEMMA SearchUnfolds ==
  ASSUME NEW name
  PROVE  Search(name) = SearchOnce(Search(name), name)
<1>1. Search(name) = CHOOSE f : f = SearchOnce(f, name)
  BY DEF Search, SearchOnce, Ends, Half
<1>2. \E f : f = SearchOnce(f, name)
  BY SearchEnds
<1> HIDE DEF Search, SearchOnce
<1>3. QED
  BY <1>1, <1>2
(* A range of the list, with its names in order. *)
OrderedRange(first, n) ==
  /\ first \in Nat /\ n \in Nat \ {0} /\ first + n <= Len(catalog_list)
  /\ \A k \in first .. first + n - 1 : At(k).name \in Int
  /\ \A j, k \in first .. first + n - 1 : j <= k => At(j).name <= At(k).name

(* In it the loop finds the first entry whose name is not below name.      *)
LEMMA SearchExact ==
  ASSUME TypeInv, NEW first, NEW n, OrderedRange(first, n), NEW name \in Int
  PROVE  LET r == Search(name)[<<first - 1, first + n>>]
         IN  /\ r \in first .. first + n
             /\ \A k \in first .. r - 1 : At(k).name < name
             /\ \A k \in r .. first + n - 1 : At(k).name >= name
<1> DEFINE S == Search(name)
           last == first + n - 1
           Ready(e) == /\ first - 1 <= e[1] /\ e[2] <= last + 1
                       /\ \A k \in first .. e[1] : At(k).name < name
                       /\ \A k \in e[2] .. last : At(k).name >= name
           Exact(r) == /\ r \in first .. last + 1
                       /\ \A k \in first .. r - 1 : At(k).name < name
                       /\ \A k \in r .. last : At(k).name >= name
           T == {d \in Nat : \A e \in Ends : e[2] - e[1] <= d /\ Ready(e) => Exact(S[e])}
<1>1. /\ first \in Nat /\ n \in Nat /\ n >= 1 /\ last \in Nat /\ last + 1 = first + n
      /\ Len(catalog_list) \in Nat /\ last <= Len(catalog_list) - 1
  BY DEF OrderedRange, TypeInv
<1> HIDE DEF S
<1>2. \A e \in Ends :
        S[e] = IF e[1] + 1 = e[2] THEN e[2]
               ELSE IF Half(e) \notin 0 .. Len(catalog_list) - 1 THEN Wild
               ELSE IF At(Half(e)).name < name THEN S[<<Half(e), e[2]>>]
               ELSE S[<<e[1], Half(e)>>]
  <2>1. S = SearchOnce(S, name)
    BY SearchUnfolds DEF S
  <2>2. QED
    BY <2>1 DEF SearchOnce
<1> HIDE DEF last
<1>3. \A j, k \in first .. last : j <= k => At(j).name <= At(k).name
  BY DEF OrderedRange, last
<1>4. \A k \in first .. last : At(k).name \in Int
  BY DEF OrderedRange, last
<1>5. 0 \in T
  <2>1. \A e \in Ends : ~(e[2] - e[1] <= 0)
    BY HalfProperties
  <2>2. QED
    BY <2>1
<1>6. ASSUME NEW d \in Nat, d \in T
      PROVE  d + 1 \in T
  <2>1. SUFFICES ASSUME NEW e \in Ends, e[2] - e[1] <= d + 1, Ready(e)
                 PROVE  Exact(S[e])
    <3> HIDE DEF Ready, Exact
    <3>1. d + 1 \in Nat
      OBVIOUS
    <3>2. QED
      BY <3>1
  <2>2. e[1] \in Int /\ e[2] \in Int /\ e[1] < e[2] /\ Half(e) \in Int
    BY HalfProperties
  <2>3. CASE e[1] + 1 = e[2]
    <3>1. S[e] = e[2]
      BY <1>2, <2>3
    <3>2. e[2] \in first .. last + 1 /\ e[2] - 1 = e[1]
      BY <1>1, <2>1, <2>2, <2>3
    <3>3. QED
      BY <2>1, <3>1, <3>2
  <2>4. CASE e[1] + 1 # e[2]
    <3> DEFINE h == Half(e)
    <3>1. e[1] < h /\ h < e[2]
      BY <2>4, HalfProperties
    <3>2. h \in first .. last /\ h \in 0 .. Len(catalog_list) - 1
      <4>1. first - 1 <= e[1] /\ e[2] <= last + 1 /\ h \in Int
        BY <2>1, <2>2
      <4> HIDE DEF h
      <4>2. first <= h /\ h <= last
        BY <1>1, <2>2, <3>1, <4>1
      <4>3. QED
        BY <1>1, <4>1, <4>2
    <3>3. <<h, e[2]>> \in Ends /\ <<e[1], h>> \in Ends
      BY <2>2, <3>1 DEF Ends
    <3>4. e[2] - h <= d /\ h - e[1] <= d
      BY <2>1, <2>2, <3>1
    <3> HIDE DEF h
    <3>5. CASE At(h).name < name
      <4>1. S[e] = S[<<h, e[2]>>]
        BY <1>2, <2>4, <3>2, <3>5 DEF h
      <4>2. \A k \in first .. h : At(k).name < name
        <5>1. \A k \in first .. h : k \in first .. last /\ k <= h
          BY <1>1, <3>2
        <5>2. QED
          BY <1>3, <1>4, <3>2, <3>5, <5>1
      <4>3. Ready(<<h, e[2]>>)
        BY <1>1, <2>1, <3>2, <4>2
      <4> HIDE DEF Ready, Exact
      <4>4. QED
        BY <1>6, <3>3, <3>4, <4>1, <4>3
    <3>6. CASE ~(At(h).name < name)
      <4>1. S[e] = S[<<e[1], h>>]
        BY <1>2, <2>4, <3>2, <3>6 DEF h
      <4>2. \A k \in h .. last : At(k).name >= name
        <5>1. \A k \in h .. last : k \in first .. last /\ h <= k
          BY <1>1, <3>2
        <5>2. QED
          BY <1>3, <1>4, <3>2, <3>6, <5>1
      <4>3. Ready(<<e[1], h>>)
        BY <1>1, <2>1, <3>2, <4>2
      <4> HIDE DEF Ready, Exact
      <4>4. QED
        BY <1>6, <3>3, <3>4, <4>1, <4>3
    <3>7. QED
      BY <3>5, <3>6
  <2>5. QED
    BY <2>3, <2>4
<1>7. Nat \subseteq T
  <2> HIDE DEF T
  <2>1. QED
    BY <1>5, <1>6, Induction
<1> DEFINE all == <<first - 1, last + 1>>
<1>8. all \in Ends /\ (last + 1) - (first - 1) \in Nat
  BY <1>1 DEF Ends, last
<1>9. Ready(all)
  BY <1>1
<1>10. Exact(S[all])
  <2>1. (last + 1) - (first - 1) \in T
    BY <1>7, <1>8
  <2>2. all[1] = first - 1 /\ all[2] = last + 1
    OBVIOUS
  <2>3. all[2] - all[1] <= (last + 1) - (first - 1)
    BY <1>1, <2>2
  <2> HIDE DEF all, Ready, Exact
  <2>4. QED
    BY <1>8, <1>9, <2>1, <2>3
<1>11. QED
  BY <1>1, <1>10 DEF S, last

(* binary_search finds the first entry of the name, if the range has one.  *)
LEMMA BinarySearchExact ==
  ASSUME TypeInv, NEW c, OrderedRange(c.start, c.offset), NEW name \in Int
  PROVE  LET k == binary_search(c, name)
             range == c.start .. c.start + c.offset - 1
         IN  \/ k = NotFound /\ \A j \in range : At(j).name # name
             \/ /\ k \in range /\ At(k).name = name
                /\ \A j \in range : j < k => At(j).name # name
<1> DEFINE first == c.start
           n == c.offset
           r == Search(name)[<<first - 1, first + n>>]
<1>1. /\ r \in first .. first + n
      /\ \A k \in first .. r - 1 : At(k).name < name
      /\ \A k \in r .. first + n - 1 : At(k).name >= name
  BY SearchExact
<1>2. /\ first \in Nat /\ n \in Nat
      /\ \A k \in first .. first + n - 1 : At(k).name \in Int
      /\ \A j, k \in first .. first + n - 1 : j <= k => At(j).name <= At(k).name
  BY DEF OrderedRange
<1>3. Narrow(c, name) = r
  BY <1>2 DEF Narrow, RightEnd
<1> HIDE DEF r, first, n
<1>4. r # Wild /\ r \in Int
  BY <1>1, <1>2 DEF Wild
<1>5. CASE r >= first + n \/ At(r).name # name
  <2>1. binary_search(c, name) = NotFound
    BY <1>3, <1>4, <1>5 DEF binary_search, first, n
  <2>2. ASSUME NEW j \in first .. first + n - 1, At(j).name = name
        PROVE  FALSE
    <3>1. ~(j <= r - 1)
      BY <1>1, <1>2, <2>2
    <3>2. r <= j /\ r \in first .. first + n - 1
      BY <1>1, <1>2, <1>4, <3>1
    <3>3. At(r).name <= name /\ At(r).name >= name /\ At(r).name \in Int
      BY <1>1, <1>2, <2>2, <3>2
    <3>4. QED
      BY <1>2, <1>5, <3>2, <3>3
  <2>3. QED
    BY <2>1, <2>2 DEF first, n
<1>6. CASE ~(r >= first + n \/ At(r).name # name)
  <2>1. binary_search(c, name) = r
    BY <1>3, <1>4, <1>6 DEF binary_search, first, n
  <2>2. r \in first .. first + n - 1 /\ At(r).name = name
    BY <1>1, <1>2, <1>4, <1>6
  <2>3. \A j \in first .. first + n - 1 : j < r => At(j).name # name
    <3>1. \A j \in first .. first + n - 1 : j < r => j \in first .. r - 1 /\ At(j).name \in Int
      BY <1>2, <1>4
    <3>2. QED
      BY <1>1, <3>1
  <2>4. QED
    BY <2>1, <2>2, <2>3 DEF first, n
<1>7. QED
  BY <1>5, <1>6
-----------------------------------------------------------------------------
(***************************************************************************)
(* The lookups of well-formed files                                        *)
(***************************************************************************)
LoadedWell == CatalogInv /\ ready /\ WellFormed /\ ParentsFirst /\ NoEmptyTop

ChildrenOf(top) == objects[id_cata[top.id]].children
RangeOf(top) == ChildrenOf(top).start .. ChildrenOf(top).start + ChildrenOf(top).offset - 1

LEMMA WellLoaded ==
  ASSUME LoadedWell
  PROVE  /\ TypeInv /\ Entries /\ SortedList /\ Ranges /\ NamedById /\ TopsKnown
         /\ DistinctIds /\ UniqueNames
         /\ FileLines = {file[n] : n \in DOMAIN file}
         /\ \A l \in FileLines : l.id \in Nat \ {0} /\ l.name \in Nat /\ l.parent \in Nat
<1>1. TypeInv /\ DistinctIds /\ TwoLevels /\ UniqueNames
  BY WellFormedLines DEF LoadedWell, CatalogInv
<1>2. Entries /\ SortedList /\ Ranges /\ NamedById /\ TopsKnown
  BY <1>1 DEF LoadedWell, CatalogInv
<1>3. FileLines = {file[n] : n \in DOMAIN file}
  BY DEF FileLines, ToSet
<1>4. \A n \in DOMAIN file : file[n] \in Lines
  BY <1>1 DEF TypeInv
<1>5. QED
  BY <1>1, <1>2, <1>3, <1>4, CatalogAssumption

(* A level one catalog is known by name, and its range has its children. *)
LEMMA TopRange ==
  ASSUME LoadedWell, NEW top \in Tops
  PROVE  /\ top.name \in DOMAIN level_one_map
         /\ objects[level_one_map[top.name]].children = ChildrenOf(top)
         /\ RangeOf(top) = Kids(id_cata[top.id])
         /\ OrderedRange(ChildrenOf(top).start, ChildrenOf(top).offset)
         /\ \A k \in RangeOf(top) : \E l \in Below(top) : At(k).id = l.id /\ At(k).name = l.name
         /\ \A l \in Below(top) : \E k \in RangeOf(top) : At(k).id = l.id /\ At(k).name = l.name
<1>1. /\ TypeInv /\ Entries /\ SortedList /\ Ranges /\ TopsKnown
      /\ FileLines = {file[n] : n \in DOMAIN file}
      /\ \A l \in FileLines : l.id \in Nat \ {0} /\ l.name \in Nat /\ l.parent \in Nat
  BY WellLoaded
<1>2. PICK t \in DOMAIN file : top = file[t]
  BY <1>1 DEF Tops
<1>3. top.parent = 0 /\ top.id # 0
  BY <1>1 DEF Tops
<1> DEFINE o == id_cata[top.id]
           c == ChildrenOf(top)
           range == RangeOf(top)
<1>4. top.id \in DOMAIN id_cata /\ o \in DOMAIN objects /\ o # NULL
  <2>1. top.id \in DOMAIN id_cata
    BY <1>1, <1>2 DEF Entries, Ids
  <2>2. QED
    BY <1>1, <2>1 DEF TypeInv, NULL
<1>5. top.name \in DOMAIN level_one_map /\ level_one_map[top.name] = o
  BY <1>1, <1>2, <1>3 DEF TopsKnown
<1>6. /\ Len(catalog_list) \in Nat /\ DOMAIN catalog_list = 1 .. Len(catalog_list)
      /\ \A k \in 0 .. Len(catalog_list) - 1 : k \in Int /\ k + 1 \in DOMAIN catalog_list
  BY <1>1 DEF TypeInv
<1>7. /\ c.start \in Int /\ c.offset \in Int
      /\ \A k \in DOMAIN catalog_list : objects[catalog_list[k]].name \in Int
  <2> DEFINE R == Obj
  <2>1. objects \in Seq(R)
    BY <1>1 DEF TypeInv
  <2> HIDE DEF R
  <2>2. \A x \in DOMAIN objects : objects[x] \in R
    BY <2>1
  <2>3. QED
    BY <1>1, <1>4, <2>2 DEF R, Obj, TypeInv, ChildrenOf
<1> HIDE DEF o, c
<1>8. ASSUME NEW k \in Kids(o)
      PROVE  \E l \in Below(top) :
               At(k).id = l.id /\ At(k).name = l.name /\ At(k).parent_id = top.id
  <2>1. k \in 0 .. Len(catalog_list) - 1 /\ At(k).parent = o
    BY DEF Kids
  <2>2. PICK n \in DOMAIN file : IsOf(At(k), file[n], id_cata)
    BY <1>1, <1>6, <2>1 DEF Entries, At
  <2>3. file[n].parent # 0 /\ id_cata[file[n].parent] = id_cata[top.id]
    BY <1>4, <2>1, <2>2 DEF IsOf, o
  <2>4. file[n].parent = top.id
    <3>1. file[n].parent \in Ids /\ top.id \in Ids
      BY <1>1, <1>4, <2>3 DEF Entries, Ids
    <3>2. \A a, b \in Ids : id_cata[a] = id_cata[b] => a = b
      BY <1>1 DEF Entries
    <3>3. QED
      BY <2>3, <3>1, <3>2
  <2>5. file[n] \in Below(top)
    BY <1>1, <2>4 DEF Below
  <2>6. QED
    BY <2>2, <2>4, <2>5 DEF IsOf
<1>9. ASSUME NEW l \in Below(top)
      PROVE  \E k \in Kids(o) : At(k).id = l.id /\ At(k).name = l.name
  <2>1. PICK n \in DOMAIN file : l = file[n]
    BY <1>1 DEF Below
  <2>2. PICK j \in DOMAIN catalog_list : IsOf(objects[catalog_list[j]], file[n], id_cata)
    BY <1>1 DEF Entries
  <2>3. j - 1 \in 0 .. Len(catalog_list) - 1 /\ (j - 1) + 1 = j
    BY <1>6
  <2>4. IsOf(At(j - 1), l, id_cata)
    BY <2>1, <2>2, <2>3 DEF At
  <2>5. At(j - 1).parent = o
    BY <1>3, <2>4 DEF IsOf, Below, o
  <2>6. j - 1 \in Kids(o)
    BY <2>3, <2>5 DEF Kids
  <2>7. QED
    BY <2>4, <2>6 DEF IsOf
<1>10. Kids(o) # {}
  BY <1>9 DEF LoadedWell, NoEmptyTop
<1>11. Kids(o) = range
  BY <1>1, <1>4, <1>10 DEF Ranges, RangeOf, ChildrenOf, o
<1>12. c.start >= 0 /\ c.offset >= 1 /\ c.start + c.offset <= Len(catalog_list)
  <2>1. \A k \in c.start .. c.start + c.offset - 1 : k \in 0 .. Len(catalog_list) - 1
    BY <1>11 DEF Kids, RangeOf, c
  <2>2. c.start <= c.start + c.offset - 1
    BY <1>7, <1>10, <1>11 DEF RangeOf, c
  <2>3. /\ c.start \in c.start .. c.start + c.offset - 1
        /\ c.start + c.offset - 1 \in c.start .. c.start + c.offset - 1
    BY <1>7, <2>2
  <2>4. c.start \in 0 .. Len(catalog_list) - 1 /\ c.start + c.offset - 1 \in 0 .. Len(catalog_list) - 1
    BY <2>1, <2>3
  <2>5. QED
    BY <1>6, <1>7, <2>2, <2>4
<1>13. \A k \in range : At(k).name \in Int
  BY <1>6, <1>7, <1>11 DEF Kids, At
<1>14. \A j, k \in range : j <= k => At(j).name <= At(k).name
  <2>1. SUFFICES ASSUME NEW j \in range, NEW k \in range, j <= k
                 PROVE  At(j).name <= At(k).name
    OBVIOUS
  <2>2. j + 1 \in DOMAIN catalog_list /\ k + 1 \in DOMAIN catalog_list /\ j \in Int /\ k \in Int
    BY <1>6, <1>11 DEF Kids
  <2>3. At(j).parent_id = At(k).parent_id
    BY <1>8, <1>11
  <2>4. CASE j = k
    BY <1>13, <2>4
  <2>5. CASE j < k
    <3>1. j + 1 < k + 1
      BY <2>2, <2>5
    <3>2. QED
      BY <1>1, <2>2, <2>3, <3>1 DEF SortedList, At
  <2>6. QED
    BY <2>1, <2>2, <2>4, <2>5
<1>15. OrderedRange(c.start, c.offset)
  BY <1>7, <1>12, <1>13, <1>14 DEF OrderedRange, RangeOf, c
<1>16. objects[level_one_map[top.name]].children = ChildrenOf(top)
  BY <1>5 DEF ChildrenOf, o
<1> HIDE DEF range
<1>17. QED
  BY <1>5, <1>8, <1>9, <1>11, <1>15, <1>16 DEF c, range, o

(* binary_search among the children of a level one catalog. *)
LEMMA ChildFound ==
  ASSUME LoadedWell, NEW top \in Tops, NEW name \in Int
  PROVE  LET k == binary_search(ChildrenOf(top), name)
         IN  \/ k = NotFound /\ \A l \in Below(top) : l.name # name
             \/ /\ k \in RangeOf(top)
                /\ \E l \in Below(top) : l.name = name /\ At(k).id = l.id
                /\ \A j \in RangeOf(top) : j < k => At(j).name # name
<1> DEFINE k == binary_search(ChildrenOf(top), name)
<1>1. \/ k = NotFound /\ \A j \in RangeOf(top) : At(j).name # name
      \/ /\ k \in RangeOf(top) /\ At(k).name = name
         /\ \A j \in RangeOf(top) : j < k => At(j).name # name
  BY WellLoaded, TopRange, BinarySearchExact DEF RangeOf
<1> HIDE DEF k
<1>2. QED
  BY <1>1, TopRange DEF k
(* The words but the one at place i. *)
LEMMA OtherWords ==
  ASSUME NEW words \in Seq(Nat), NEW i \in DOMAIN words
  PROVE  LET others == Without(words, i)
         IN  /\ others \in Seq(Nat)
             /\ \A j \in DOMAIN others : \E l \in DOMAIN words \ {i} : others[j] = words[l]
             /\ \A l \in DOMAIN words \ {i} : \E j \in DOMAIN others : others[j] = words[l]
<1> DEFINE n == Len(words)
           swapped == [words EXCEPT ![i] = words[n]]
           others == Without(words, i)
<1>1. n \in Nat /\ DOMAIN words = 1 .. n /\ i \in 1 .. n /\ n >= 1
  OBVIOUS
<1>2. swapped \in Seq(Nat) /\ Len(swapped) = n
  BY <1>1
<1>3. \A l \in 1 .. n : swapped[l] = IF l = i THEN words[n] ELSE words[l]
  BY <1>1
<1>4. others = SubSeq(swapped, 1, n - 1)
  BY DEF Without
<1> HIDE DEF swapped, others
<1>5. /\ others \in Seq(Nat) /\ DOMAIN others = 1 .. n - 1
      /\ \A l \in 1 .. n - 1 : others[l] = swapped[l]
  <2>1. n - 1 \in Nat
    BY <1>1
  <2>2. PICK m \in Nat : m = n - 1
    BY <2>1
  <2>3. m <= Len(swapped)
    BY <1>1, <1>2, <2>2
  <2> HIDE DEF n
  <2>4. /\ SubSeq(swapped, 1, m) \in Seq(Nat) /\ DOMAIN SubSeq(swapped, 1, m) = 1 .. m
        /\ \A l \in 1 .. m : SubSeq(swapped, 1, m)[l] = swapped[l]
    BY <1>2, <2>3
  <2>5. QED
    BY <1>4, <2>2, <2>4
<1> HIDE DEF n
<1>6. \A j \in 1 .. n - 1 : j \in 1 .. n /\ j # n
  BY <1>1
<1>7. ASSUME NEW j \in 1 .. n - 1
      PROVE  \E l \in (1 .. n) \ {i} : others[j] = words[l]
  <2>1. CASE j = i
    <3>1. n \in (1 .. n) \ {i}
      BY <1>1, <1>6, <2>1
    <3>2. others[j] = words[n]
      BY <1>3, <1>5, <1>6, <2>1
    <3>3. QED
      BY <3>1, <3>2
  <2>2. CASE j # i
    BY <1>3, <1>5, <1>6, <2>2
  <2>3. QED
    BY <2>1, <2>2
<1>8. ASSUME NEW l \in (1 .. n) \ {i}
      PROVE  \E j \in 1 .. n - 1 : others[j] = words[l]
  <2>1. CASE l = n
    <3>1. i \in 1 .. n - 1 /\ others[i] = words[l]
      BY <1>1, <1>3, <1>5, <2>1
    <3>2. QED
      BY <3>1
  <2>2. CASE l # n
    <3>1. l \in 1 .. n - 1 /\ l \in 1 .. n /\ l # i
      BY <1>1, <2>2
    <3>2. others[l] = words[l]
      BY <1>3, <1>5, <3>1
    <3>3. QED
      BY <3>1, <3>2
  <2>3. QED
    BY <2>1, <2>2
<1>9. QED
  BY <1>1, <1>5, <1>7, <1>8 DEF others

LEMMA MinOf ==
  ASSUME NEW S \in SUBSET Nat, S # {}
  PROVE  Min(S) \in S /\ \A j \in S : Min(S) <= j
  BY LeastNat DEF Min

(* get_id_in_level: one of the children that a word names, if any. *)
LEMMA LevelExact ==
  ASSUME LoadedWell, NEW top \in Tops, NEW left \in Seq(Nat)
  PROVE  LET id == get_id_in_level(ChildrenOf(top), left)
             named == {l \in Below(top) : \E j \in DOMAIN left : left[j] = l.name}
         IN  \/ named = {} /\ id = NotFound
             \/ \E l \in named : id = l.id
<1> DEFINE c == ChildrenOf(top)
           found == {i \in DOMAIN left : binary_search(c, left[i]) # NotFound}
           k == binary_search(c, left[Min(found)])
           named == {l \in Below(top) : \E j \in DOMAIN left : left[j] = l.name}
<1>1. \A i \in DOMAIN left : left[i] \in Int /\ i \in Nat
  OBVIOUS
<1>2. \A i \in DOMAIN left :
        LET r == binary_search(c, left[i])
        IN  \/ r = NotFound /\ \A l \in Below(top) : l.name # left[i]
            \/ r \in RangeOf(top) /\ \E l \in Below(top) : l.name = left[i] /\ At(r).id = l.id
  BY <1>1, ChildFound
<1>3. \A r \in RangeOf(top) : r # Wild /\ r # NotFound
  BY TopRange DEF OrderedRange, RangeOf, Wild, NotFound
<1>4. get_id_in_level(c, left) =
        IF found = {} THEN NotFound ELSE IF k = Wild THEN Wild ELSE At(k).id
  BY DEF get_id_in_level
<1> HIDE DEF c
<1>5. CASE found = {}
  <2>1. named = {}
    BY <1>2, <1>3, <1>5
  <2>2. QED
    BY <1>4, <1>5, <2>1 DEF c
<1>6. CASE found # {}
  <2>1. found \in SUBSET Nat
    BY <1>1
  <2>2. Min(found) \in found
    BY <1>6, <2>1, MinOf
  <2>3. k \in RangeOf(top) /\ \E l \in Below(top) : l.name = left[Min(found)] /\ At(k).id = l.id
    BY <1>2, <2>2
  <2> HIDE DEF k
  <2>4. get_id_in_level(c, left) = At(k).id
    BY <1>3, <1>4, <1>6, <2>3
  <2>5. \E l \in named : At(k).id = l.id
    BY <2>2, <2>3
  <2>6. QED
    BY <2>4, <2>5 DEF c
<1>7. QED
  BY <1>5, <1>6

(* The names of the level one catalogs are the keys of level_one_map. *)
LEMMA TopNames ==
  ASSUME LoadedWell
  PROVE  /\ \A name : name \in DOMAIN level_one_map <=> \E t \in Tops : t.name = name
         /\ \A t, u \in Tops : t.name = u.name => t = u
<1>1. /\ TopsKnown
      /\ FileLines = {file[n] : n \in DOMAIN file}
  BY WellLoaded
<1>2. \A t, u \in Tops : t.name = u.name => t = u
  BY DEF LoadedWell, WellFormed, Tops
<1>3. Tops = {file[n] : n \in {i \in DOMAIN file : file[i].parent = 0}}
  BY <1>1 DEF Tops
<1>4. QED
  BY <1>1, <1>2, <1>3 DEF TopsKnown

(* get_id (l.182-215): the first word that names a level one catalog       *)
(* chooses it, and it has one of the children that the other words name.   *)
THEOREM GetIdFindsChild == Spec => []GetIdExact
<1>1. CatalogInv => GetIdExact
  <2>1. SUFFICES ASSUME LoadedWell, NEW words \in Words
                 PROVE  LET named == {i \in DOMAIN words : \E t \in Tops : t.name = words[i]}
                            first == CHOOSE i \in named : \A j \in named : i <= j
                            top == CHOOSE t \in Tops : t.name = words[first]
                            ids == ChildrenNamed(words, first, top)
                        IN  IF named = {} \/ ids = {} THEN get_id(words) = NotFound
                                                      ELSE get_id(words) \in ids
    BY DEF GetIdExact, LoadedWell
  <2> DEFINE named == {i \in DOMAIN words : \E t \in Tops : t.name = words[i]}
             first == CHOOSE i \in named : \A j \in named : i <= j
             top == CHOOSE t \in Tops : t.name = words[first]
             ids == ChildrenNamed(words, first, top)
             tops == {i \in DOMAIN words : words[i] \in DOMAIN level_one_map}
             i1 == Min(tops)
  <2>2. words \in Seq(Nat)
    BY CatalogAssumption
  <2>3. named = tops
    BY <2>1, TopNames
  <2>4. get_id(words) =
          IF tops = {} THEN NotFound
          ELSE get_id_in_level(objects[level_one_map[words[i1]]].children, Without(words, i1))
    BY DEF get_id
  <2>5. CASE named = {}
    BY <2>3, <2>4, <2>5
  <2>6. CASE named # {}
    <3>1. named \in SUBSET Nat /\ tops \in SUBSET Nat
      BY <2>2
    <3>2. first \in named /\ \A j \in named : first <= j
      <4>1. \E i \in named : \A j \in named : i <= j
        BY <2>6, <3>1, LeastNat
      <4>2. QED
        BY <4>1
    <3>3. i1 \in named /\ \A j \in named : i1 <= j
      BY <2>3, <2>6, <3>1, MinOf
    <3> HIDE DEF first, i1
    <3>4. i1 = first
      <4>1. i1 \in Nat /\ first \in Nat /\ i1 <= first /\ first <= i1
        BY <3>1, <3>2, <3>3
      <4>2. QED
        BY <4>1
    <3>5. first \in DOMAIN words /\ \E t \in Tops : t.name = words[first]
      BY <3>2
    <3>6. top \in Tops /\ top.name = words[first]
      BY <3>5
    <3> DEFINE others == Without(words, first)
    <3> HIDE DEF top
    <3>7. get_id(words) = get_id_in_level(ChildrenOf(top), others)
      BY <2>1, <2>3, <2>4, <2>6, <3>4, <3>6, TopRange
    <3>8. /\ others \in Seq(Nat)
          /\ \A j \in DOMAIN others : \E l \in DOMAIN words \ {first} : others[j] = words[l]
          /\ \A l \in DOMAIN words \ {first} : \E j \in DOMAIN others : others[j] = words[l]
      BY <2>2, <3>5, OtherWords
    <3> HIDE DEF others
    <3> DEFINE chosen == {l \in Below(top) : \E j \in DOMAIN others : others[j] = l.name}
    <3>9. \/ chosen = {} /\ get_id(words) = NotFound
          \/ \E l \in chosen : get_id(words) = l.id
      BY <2>1, <3>6, <3>7, <3>8, LevelExact
    <3>10. chosen = {m \in Below(top) : \E j \in DOMAIN words \ {first} : words[j] = m.name}
      BY <3>8
    <3>11. ids = {l.id : l \in chosen}
      BY <3>10 DEF ChildrenNamed
    <3> HIDE DEF chosen, ids, named
    <3>12. IF named = {} \/ ids = {} THEN get_id(words) = NotFound ELSE get_id(words) \in ids
      <4>1. CASE chosen = {}
        <5>1. ids = {}
          BY <3>11, <4>1
        <5>2. QED
          BY <3>9, <4>1, <5>1
      <4>2. CASE chosen # {}
        <5>1. PICK l \in chosen : get_id(words) = l.id
          BY <3>9, <4>2
        <5>2. get_id(words) \in ids
          BY <3>11, <5>1
        <5>3. QED
          BY <2>6, <5>2
      <4>3. QED
        BY <4>1, <4>2
    <3>13. QED
      BY <3>12 DEF ids, top, first, named
  <2>7. QED
    BY <2>5, <2>6
<1>2. QED
  BY <1>1, CatalogInvariance, PTL

(* get_catalog_id (l.246-257) finds every child of a level one catalog but *)
(* the one at position 0 of the sorted list.                               *)
THEOREM OnlyFirstIsLost == Spec => []CatalogIdButFirst
<1>1. CatalogInv => CatalogIdButFirst
  <2>1. SUFFICES ASSUME LoadedWell, NEW top \in Tops, NEW l \in FileLines
                 PROVE  LET got == get_catalog_id(top.name, l.name)
                        IN  IF \E m \in Below(top) : m.name = l.name /\ m.id # At(0).id
                              THEN \E m \in Below(top) : m.name = l.name /\ got = m.id
                              ELSE got = NotFound
    BY DEF CatalogIdButFirst, LoadedWell
  <2> DEFINE k == binary_search(ChildrenOf(top), l.name)
             got == get_catalog_id(top.name, l.name)
  <2>2. /\ TypeInv /\ Entries /\ DistinctIds
        /\ FileLines = {file[n] : n \in DOMAIN file}
        /\ \A m \in FileLines : m.id \in Nat \ {0} /\ m.name \in Nat /\ m.parent \in Nat
    BY <2>1, WellLoaded
  <2>3. \/ k = NotFound /\ \A m \in Below(top) : m.name # l.name
        \/ /\ k \in RangeOf(top)
           /\ \E m \in Below(top) : m.name = l.name /\ At(k).id = m.id
           /\ \A j \in RangeOf(top) : j < k => At(j).name # l.name
    BY <2>1, <2>2, ChildFound
  <2>4. got = IF k = Wild THEN Wild ELSE IF Hit(k) THEN At(k).id ELSE NotFound
    BY <2>1, TopRange DEF get_catalog_id
  <2> HIDE DEF k, got
  <2>5. CASE k = NotFound /\ \A m \in Below(top) : m.name # l.name
    BY <2>4, <2>5 DEF NotFound, Wild, Hit, got
  <2>6. CASE /\ k \in RangeOf(top)
             /\ \E m \in Below(top) : m.name = l.name /\ At(k).id = m.id
             /\ \A j \in RangeOf(top) : j < k => At(j).name # l.name
    <3>1. PICK m \in Below(top) : m.name = l.name /\ At(k).id = m.id
      BY <2>6
    <3>2. k \in Nat /\ k # Wild
      <4>1. k \in Kids(id_cata[top.id])
        BY <2>1, <2>6, TopRange
      <4>2. k \in 0 .. Len(catalog_list) - 1
        BY <4>1 DEF Kids
      <4>3. Len(catalog_list) \in Nat
        BY <2>2 DEF TypeInv
      <4>4. QED
        BY <4>2, <4>3 DEF Wild
    <3>3. CASE k = 0
      <4>1. got = NotFound
        BY <2>4, <3>2, <3>3 DEF Hit
      <4>2. \A x \in Below(top) : x.name = l.name => x = m
        BY <2>1, <3>1 DEF LoadedWell, WellFormed, Below
      <4>3. QED
        BY <3>1, <3>3, <4>1, <4>2 DEF got
    <3>4. CASE k # 0
      <4>1. got = m.id
        BY <2>4, <3>1, <3>2, <3>4 DEF Hit
      <4>2. m.id # At(0).id
        <5>1. SUFFICES ASSUME m.id = At(0).id
                       PROVE  FALSE
          OBVIOUS
        <5>2. 0 \in 0 .. Len(catalog_list) - 1 /\ 1 \in DOMAIN catalog_list
          <6>1. k \in 0 .. Len(catalog_list) - 1
            BY <2>1, <2>6, TopRange DEF Kids
          <6>2. QED
            BY <2>2, <6>1 DEF TypeInv
        <5>3. PICK n \in DOMAIN file : IsOf(At(0), file[n], id_cata)
          BY <2>2, <5>2 DEF Entries, At
        <5>4. PICK i \in DOMAIN file : m = file[i]
          BY <2>2 DEF Below
        <5>5. file[n] = m
          BY <2>2, <5>1, <5>3, <5>4 DEF DistinctIds, IsOf
        <5>6. At(0).parent = id_cata[top.id] /\ At(0).name = l.name
          <6>1. m.parent = top.id /\ top.id # 0
            BY <2>2 DEF Below, Tops
          <6>2. QED
            BY <3>1, <5>3, <5>5, <6>1 DEF IsOf
        <5>7. 0 \in RangeOf(top)
          BY <2>1, <5>2, <5>6, TopRange DEF Kids
        <5>8. QED
          BY <2>6, <3>2, <3>4, <5>6, <5>7
      <4>3. QED
        BY <3>1, <4>1, <4>2 DEF got
    <3>5. QED
      BY <3>3, <3>4
  <2>7. QED
    BY <2>3, <2>5, <2>6
<1>2. QED
  BY <1>1, CatalogInvariance, PTL

=============================================================================
