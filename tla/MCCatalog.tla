----------------------------- MODULE MCCatalog -----------------------------
(* Two level one catalogs, the greater id with the smaller name; children  *)
(* with the same name under both; one line that adds a third level; a line *)
(* that repeats an id.                                                     *)
EXTENDS Catalog

line(id, name, parent) == [id |-> id, name |-> name, parent |-> parent]
MCLines == { line(1, 5, 0), line(2, 4, 0), line(11, 7, 1), line(12, 6, 1),
             line(21, 6, 2), line(22, 8, 2), line(3, 7, 11), line(11, 9, 0) }
MCWords == { <<5, 7>>, <<6, 5>>, <<6, 9, 4>>, <<4, 5, 6>>, <<4>>, <<7, 8, 4, 6>> }
=============================================================================
