------------------------------ MODULE MCEngine ------------------------------
(* Rows with a known catalog and a token of two fields, with an unknown    *)
(* catalog and tags in any order, without any token (the tag of a row      *)
(* without tags is the empty string), with two resources, of which the     *)
(* application adds one, and with nothing at all; queries with every       *)
(* filter.                                                                 *)
EXTENDS Engine

tweet(tid, kind, ctime) ==
  [tid |-> tid, ctime |-> ctime, f |-> IF kind = 5 THEN "" ELSE "art"] @@
    CASE kind = 1 -> [type |-> 1, s |-> "oil", tags |-> <<"">>, resources |-> <<>>,
                      imgs |-> <<"", "horse">>]
      [] kind = 2 -> [type |-> 2, s |-> "ink", tags |-> <<"red", "blue", "dim">>,
                      resources |-> <<>>, imgs |-> <<>>]
      [] kind = 3 -> [type |-> 1, s |-> "ink", tags |-> <<"">>, resources |-> <<>>,
                      imgs |-> <<>>]
      [] kind = 4 -> [type |-> 1, s |-> "oil", tags |-> <<"">>,
                      resources |-> <<8, 9>>, imgs |-> <<>>]
      [] kind = 5 -> [type |-> 2, s |-> "", tags |-> <<"">>, resources |-> <<>>,
                      imgs |-> <<"">>]

MCDatabases ==
  {[tweet |-> <<tweet(11, k, 0), tweet(12, l, 1)>>, zan |-> <<[tid |-> 11]>>,
    comment |-> <<[tid |-> 12], [tid |-> 12]>>,
    resource |-> <<[rid |-> 8, text |-> "horse"]>>] : k \in {1, 2, 3, 5}, l \in 1 .. 3}
  \cup {[tweet |-> <<tweet(11, 1, 2), tweet(12, 2, 1)>>, zan |-> <<>>, comment |-> <<>>,
         resource |-> <<[rid |-> 8, text |-> "horse"]>>]}

insert(table, row) == [table |-> table, row |-> row]
MCInserts == << insert("resource", [rid |-> 9, text |-> "red"]),
                insert("tweet", tweet(13, 4, 1)),
                insert("comment", [tid |-> 13]),
                insert("zan", [tid |-> 13]) >>

(* A young tweet weighs more, one of tomorrow has no score. *)
MCDecay == [ctime \in 0 .. 1 |-> IF ctime = 0 THEN 5 ELSE 2]

line(type, s, tag, desc) == [type |-> type, f |-> "art", s |-> s, tag |-> tag, desc |-> desc]
MCLines == { line(1, "oil", <<"">>, <<"horse">>),
             line(2, "ink", <<"red", "blue", "dim">>, <<>>),
             line(1, "ink", <<"">>, <<>>),
             line(1, "oil", <<"">>, <<"horse", "red">>) }

MCCatalogId == [c \in {"art"} \X {"oil", "ink"} |-> IF c[2] = "oil" THEN 2 ELSE -1]

MCTokens == [text \in {"", "art", "oil", "ink", "red", "blue", "dim", "horse"} |->
               CASE text = ""                   -> {}
                 [] text \in {"art", "blue"}    -> {3}
                 [] text \in {"oil", "horse"}   -> {5}
                 [] OTHER                       -> {7}]

entry(kind, name, id) == [kind |-> kind, name |-> name, id |-> id]
MCTagFile == << entry("tag", "red", 6), entry("comment", "", 0),
                entry("tag", "blue", 4), entry("tag", "red", 8) >>
MCTagId == tag_map(MCTagFile)
MCFieldConf == << entry("tag", "catalog", 1), entry("bad", "", 0), entry("tag", "tag", 2),
                  entry("tag", "description", 260) >>

num(f, lo, hi) == [name |-> f, low |-> lo, high |-> hi]
q(token, numeric, tags) == [token |-> token, numeric |-> numeric, tags |-> tags]

MCQueries == { q(<<3, 5>>, <<>>, <<>>), q(<<7>>, <<>>, <<"blue", "red">>),
               q(<<3>>, << num("catalog", 2, 2) >>, <<"other">>),
               q(<<3, 7, 5>>, << num("type", 2, 2) >>, <<>>) }
=============================================================================
