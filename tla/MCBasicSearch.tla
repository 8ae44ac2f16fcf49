--------------------------- MODULE MCBasicSearch ---------------------------
(* Indexes of three objects over the signs 3 and 5, 3 in any of them, made *)
(* well or with the last brief missing, as a failed build leaves it;       *)
(* queries with repeated, unknown, empty and too many tokens and every     *)
(* filter.                                                                 *)
EXTENDS BasicSearch

b(ty, ca, tags) == [type |-> ty, catalog |-> ca, tags |-> tags]
MCBriefs == << b(1, 2, <<4, 6>>), b(2, 1, <<4, 4, 6>>), b(1, 3, <<6>>) >>
MCFields == << {1}, {1, 2}, {2} >>
MCNum == << 3, 2, 9 >>

(* The list of the objects in a set, from the newest down. *)
ListOf(S) ==
  LET order == SetToSortSeq(S, >)
  IN  [k \in DOMAIN order |->
         LET o == order[k]
         IN  [obj |-> o, fields |-> MCFields[o + 1], num |-> MCNum[o + 1]]]

Entry(s, S) == IF S = {} THEN <<>>
               ELSE << [sign |-> s, num |-> Cardinality(S), index |-> ListOf(S)] >>

Index(A, B, briefs) == [terms |-> Entry(3, A) \o Entry(5, B), briefs |-> briefs]

MCIndexes ==
  { Index(A, B, MCBriefs) :
      A \in SUBSET (0 .. 2), B \in { {0}, {1, 2}, {0, 1, 2} } }
  \cup { Index(A, {0, 2}, SubSeq(MCBriefs, 1, 2)) : A \in SUBSET (0 .. 2) }

MCTagId == [red |-> 6, blue |-> 4, sky |-> 4]

num(f, lo, hi) == [name |-> f, low |-> lo, high |-> hi]
q(token, numeric, tags) == [token |-> token, numeric |-> numeric, tags |-> tags]

MCQueries ==
  { q(<<3, 5>>, <<>>, <<>>), q(<<0, 3, 5>>, <<>>, <<>>), q(<<9, 5, 3>>, <<>>, <<>>),
    q(<<5, 5>>, <<>>, <<>>), q(<<9>>, <<>>, <<"red">>),
    q(<<3, 5>>, << num("catalog", 2, 2) >>, <<>>),
    q(<<3, 5>>, << num("type", 1, 1), num("catalog", 2, 3), num("age", 9, 9) >>, <<>>),
    q(<<3, 5>>, <<>>, <<"red", "blue">>), q(<<3, 5>>, <<>>, <<"blue", "sky">>),
    q(<<5, 3>>, <<>>, <<"green", "blue">>) }
=============================================================================
