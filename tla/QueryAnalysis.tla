--------------------------- MODULE QueryAnalysis ---------------------------
(***************************************************************************)
(* DA::query_analysis (se/da/da.cpp): the query is normalised in place,    *)
(* split at its spaces, looked up in the catalogs, and segmented.  The     *)
(* catalogs (Catalog.tla) and the segmenter, a library, are parameters.    *)
(*                                                                         *)
(* A query is a sequence of characters.                                    *)
(***************************************************************************)
EXTENDS Integers, SequencesExt, Sorting

CONSTANTS
  GetId(_),     \* CatalogDataReader::get_id on a list of words, or NoCatalog
  Tokens(_)     \* the tokens that the segmenter finds in a query

NUL == 0
Space == 1
Tab == 2
Upper == {3}            \* isupper, tolower(3) = 4
Letter == {4, 5}
Char == {Space, Tab} \cup Upper \cup Letter

NoCatalog == -1

ToLower(c) == IF c \in Upper THEN c + 1 ELSE c
Blank(c) == IF c \in {Space, Tab} THEN Space ELSE c

(* query[-1] is outside of the string: a byte of what std::string or the   *)
(* heap keeps there, padding that nobody wrote with some libraries.  It    *)
(* does not change during the loop, and only whether it is a space matters;*)
(* NUL stands for every other byte.                                        *)
ByteBefore == {NUL, Space}
CharAt(q, i, before) == IF i = -1 THEN before ELSE q[i + 1]

(* Mutant of Skipped: a blank is only skipped after a blank of the input.  *)
Skipped_Input(q, i, j, before) ==
  j > 1 /\ CharAt(q, j, before) = Space /\ CharAt(q, j - 1, before) = Space

(* The space to be written follows one that was. *)
Skipped(q, i, j, before) ==
  CharAt(q, j, before) = Space /\ CharAt(q, i, before) = Space

(* normalize_query: the loop reads at j and writes behind i, in one string.*)
Turn(at, j, before) ==
  LET q == [at.q EXCEPT ![j + 1] = Blank(ToLower(@))]
  IN  IF Skipped(q, at.i, j, before) THEN [q |-> q, i |-> at.i]
      ELSE [q |-> [q EXCEPT ![at.i + 2] = q[j + 1]], i |-> at.i + 1]

normalize_query(query, before) ==
  LET size == Len(query)
      turns[j \in 0 .. size] ==
        IF j = 0 THEN [q |-> query, i |-> -1] ELSE Turn(turns[j - 1], j - 1, before)
  IN  SubSeq(turns[size].q, 1, turns[size].i + 1)

(* split: getline yields an empty first word, but no empty last one. *)
Split(query) ==
  LET rest[q \in Seq(Char)] ==
        LET k == SelectInSeq(q, LAMBDA c : c = Space)
        IN  IF q = <<>> THEN <<>>
            ELSE IF k = 0 THEN <<q>>
            ELSE <<SubSeq(q, 1, k - 1)>> \o rest[SubSeq(q, k + 1, Len(q))]
  IN  rest[query]

(* token_map: every token once, at its first place. *)
Unique(seq) ==
  FoldLeft(LAMBDA acc, x : IF x \in ToSet(acc) THEN acc ELSE Append(acc, x),
           <<>>, seq)

(* What query_analysis answers when nothing fails.  Step 5 looks the words *)
(* of the query up again, not the tokens.                                  *)
Analysed(text, before) ==
  LET query == normalize_query(text, before)
      words == Split(query)
      once == GetId(words)
      again == IF once = NoCatalog THEN GetId(words) ELSE once
  IN  [query |-> query, token |-> Unique(Tokens(query)), catalog |-> again]

-----------------------------------------------------------------------------
(* "All white space becomes spaces, and superfluous spaces go" (l.126), as *)
(* a definition: of every run of blanks the first one stays, as a space;   *)
(* of the run that starts the text it stays unless the byte before the     *)
(* text is a space itself.                                                 *)
Previous(text, j, before) == IF j = 1 THEN before ELSE Blank(text[j - 1])
Normal(text, before) ==
  LET first == {j \in DOMAIN text :
                  Blank(text[j]) # Space \/ Previous(text, j, before) # Space}
      kept == Picked(text, first)
  IN  [k \in DOMAIN kept |-> Blank(ToLower(kept[k]))]
=============================================================================
