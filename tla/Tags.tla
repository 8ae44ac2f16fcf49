-------------------------------- MODULE Tags --------------------------------
(***************************************************************************)
(* TagDataReader (shared/tag_data_reader.cpp): the tag file as the builder *)
(* and the search server read it.  A line of the file is [kind, name, id]  *)
(* with kind "tag", or anything else for an empty line, a comment or one   *)
(* that sscanf does not take: those are skipped and load goes on.  The map *)
(* from ids to names, and get_name, which nothing calls, are left out.     *)
(***************************************************************************)
EXTENDS Integers, Sequences

NoTag == -1      \* get_id returns -1 and sets nothing

Parsed(lines) == {i \in DOMAIN lines : lines[i].kind = "tag"}

(* map[key] = value overwrites what an earlier line has put there. *)
LastOf(S) == CHOOSE i \in S : \A j \in S : j <= i

tag_map(lines) ==
  [name \in {lines[i].name : i \in Parsed(lines)} |->
     lines[LastOf({i \in Parsed(lines) : lines[i].name = name})].id]

get_id(lines, name) ==
  IF name \in DOMAIN tag_map(lines) THEN tag_map(lines)[name] ELSE NoTag
=============================================================================
