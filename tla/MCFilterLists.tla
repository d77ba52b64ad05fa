--------------------------- MODULE MCFilterLists ---------------------------
(* Instance of FilterLists for TLC: the two IPv4 range lists, which share a *)
(* lock and are searched one after the other, and one port list.            *)
EXTENDS FilterLists, TLC
CONSTANTS allowed, blocked, sourceports, rangeslock, sourceportslock,
          t1, t2, k1, k2, a1, a2, a3, a4, w1, w2, q1, q2
MCLists == {allowed, blocked, sourceports}
MCRangeLists == {allowed, blocked}
MCLocks == {rangeslock, sourceportslock}
MCLockOf == allowed :> rangeslock @@ blocked :> rangeslock @@ sourceports :> sourceportslock
MCAfter == allowed :> blocked @@ blocked :> None @@ sourceports :> None
MCTables == {t1, t2}
MCLength == t1 :> 1 @@ t2 :> 2
MCKeys == {k1, k2}
MCCovers == t1 :> {k1} @@ t2 :> {k1, k2}
MCArrays == {a1, a2, a3}
MCWriters == {w1, w2}
MCReaders == {q1}
MCSymmetry == Permutations(MCArrays) \cup Permutations(MCWriters)
=============================================================================
