--------------------------- MODULE MCRangeSearch ---------------------------
(* Instance of RangeLists, and of the search in RangeSearch, for TLC: every  *)
(* block list and every allow list of up to two ranges of five addresses,    *)
(* of which a hole or two may make four.  Two names are enough to tell       *)
(* ranges that may be joined, and it does not matter which of them a list    *)
(* has that has only one.                                                    *)
EXTENDS RangeLists
MCTop == 4
MCNames == {"a", "b"}
MCEnds == {r \in [start : 0..MCTop, end : 0..MCTop] : r.start <= r.end}
MCArrays == {r \in UNION {[1..n -> MCEnds] : n \in 1..3} : Disjoint(r)}
MCRanges(names) == {r \in [name : names, start : 0..MCTop, end : 0..MCTop] : r.start <= r.end}
MCBlocks == {{}} \cup {{p, q} : p \in MCRanges({"a"}), q \in MCRanges(MCNames)}
MCAllows == {{}} \cup {{p, q} : p, q \in MCRanges({"a"})}
=============================================================================
