----------------------------- MODULE MCCatalog -----------------------------
(* A small instance of the catalog for TLC. *)
EXTENDS Catalog

CONSTANTS mine, other, theirs, f1, f2, one, again, two, bad

ThreeNames == {mine, other, theirs}
TwoFiles   == {f1, f2}

\* Two spellings of one file, another file, and a path that leads nowhere safe.
Paths  == {one, again, two, bad}
Behind ==
    [p \in Paths |-> IF p = two THEN f2 ELSE IF p = bad THEN Unsafe ELSE f1]

\* Every registry of at most two entries.
Written == UNION {[1..n -> Entries] : n \in 0..2}
=============================================================================
