---------------------------- MODULE MCSearchPath ----------------------------
(* The words <<4>> and <<5>> name the catalog 7.  The segmenter takes every *)
(* letter for a token.  Queries up to five characters, pages at every      *)
(* boundary of an int of five bits.                                        *)
EXTENDS SearchPath

MCGetId(words) ==
  IF <<4>> \in ToSet(words) /\ <<5>> \in ToSet(words) THEN 7 ELSE NoCatalog
MCTokens(query) ==
  LET letters == SelectSeq(query, LAMBDA c : c # Space)
  IN  [k \in DOMAIN letters |-> <<letters[k]>>]

req(query, tag, catalog, pn, rn) ==
  [query |-> query, type |-> 1, tag |-> tag, catalog |-> catalog, pn |-> pn, rn |-> rn]

MCQueries == UNION {[1 .. n -> Char] : n \in 0 .. 4}
MCRequests ==
  { req(q, <<>>, 0, 0, 2) : q \in MCQueries }
  \cup { req(<<4, Space, 5>>, t, c, 1, 3) :
           t \in { <<>>, << <<1>>, <<2, 3>> >>, << <<>>, <<1>>, <<>>, <<2>> >>,
                   << <<1, Hat, 2>> >> },
           c \in {-1, 0, 3, 7} }
  \cup { req(<<4, 4>>, <<>>, 0, pn, rn) : pn \in {-16, -1, 0, 1, 2, 3, 7, 15},
                                          rn \in {-1, 0, 1, 2, 3, 5, 8, 15} }

line(id, name, fields) == [id |-> id, name |-> name, fields |-> fields]
field(colon, group) == [colon |-> colon, group |-> group]
MCCatalogInfoConf ==
  << line(3, "oil", << field(TRUE, "size") >>), line(7, "ink", <<>>),
     line(9, "pen", << field(TRUE, "tip") >>),
     line(3, "oils", << field(FALSE, "junk"), field(TRUE, "size"), field(TRUE, "year") >>),
     line(3, "none", <<>>) >>
=============================================================================
