----------------------------- MODULE IndexData -----------------------------
(***************************************************************************)
(* The index as the server has it (index/index_data.cpp): what load takes  *)
(* of the files of an index directory, and lookups.  The term array is     *)
(* searched by halving, the briefs are an array.  Arrays are numbered from *)
(* 1 here and from 0 in the code.                                          *)
(*                                                                         *)
(* A directory is [groups, terms, tornTerm, hasBriefs, torn]: the index    *)
(* and hit files can be opened; the records of the term file (none if      *)
(* there is no file) and whether a part of one follows; there is a brief   *)
(* file, and somewhere in it a record was cut off.                         *)
(***************************************************************************)
EXTENDS Integers, Sequences

(* Mutant of TermFileRefused: an empty term file is read as no terms.      *)
TermFileRefused_Torn(dir) == dir.tornTerm

(* fread of 0 bytes does not return 1. *)
TermFileRefused(dir) == dir.tornTerm \/ dir.terms = <<>>

(* What load may return.  A record cut off in the brief file is noticed    *)
(* for sure only at its end; bytes out of step may parse.                  *)
load(dir) ==
  IF ~dir.groups               THEN {2}
  ELSE IF TermFileRefused(dir) THEN {3}
  ELSE IF ~dir.hasBriefs       THEN {4}
  ELSE IF dir.torn             THEN {0, 4}
  ELSE {0}

NoTerm == 0

(* The loop of locate_term on low and high.  mid = 0 leaves the loop: high *)
(* is unsigned and must not become mid - 1.                                *)
Halve(terms, sign) ==
  LET loop[range \in Nat \X Nat] ==
        LET low == range[1]
            high == range[2]
            mid == (low + high) \div 2
        IN  IF low > high                     THEN NoTerm
            ELSE IF terms[mid + 1].sign > sign
              THEN IF mid = 0 THEN NoTerm ELSE loop[<<low, mid - 1>>]
            ELSE IF terms[mid + 1].sign < sign THEN loop[<<mid + 1, high>>]
            ELSE mid + 1
  IN  loop

(* The position of a term, or NoTerm.  load refuses an empty term file, so *)
(* high is not -1 at the start.                                            *)
locate_term(terms, sign) == Halve(terms, sign)[<<0, Len(terms) - 1>>]

NoBrief == [null |-> TRUE]

(* get_brief: an obj_id beyond the briefs has none. *)
get_brief(briefs, obj) ==
  IF obj >= Len(briefs) THEN NoBrief ELSE briefs[obj + 1]
=============================================================================
