-------------------------- MODULE RangeListsProofs --------------------------
(***************************************************************************)
(* The binary search of the driver finds the range that covers an address, *)
(* in every disjoint array and for addresses of every width; and the array *)
(* that LoadLists sends holds the addresses of the block list without      *)
(* those of the allow list, sorted and without overlaps, for any lists.    *)
(* So the searches of the driver run on arrays as RangeSearch assumes      *)
(* them, and what is proved of RangeSearch holds of them.                  *)
(*                                                                         *)
(* The loop invariant of the search is the usual one: what lies before the *)
(* iterator starts before the address, what lies behind the remaining      *)
(* count does not.  After the step back the iterator stands on the last    *)
(* entry that does not start behind the address; because the ranges do not *)
(* overlap, no earlier entry can reach the address.                        *)
(*                                                                         *)
(* The invariant of the lists says which addresses the ranges cover that   *)
(* are still in the works (Covering), and that the list under way is       *)
(* sorted so far (Sorted).  Loading and searching have less to do after    *)
(* each of their steps (WorkLeft, SearchLeft).                             *)
(***************************************************************************)
EXTENDS RangeLists, FiniteSetTheorems, WellFoundedInduction, TLAPS

-----------------------------------------------------------------------------
(* The search (RangeSearch).                                               *)

LoopInv ==
  /\ iter \in 1..(Len(ranges) + 1)
  /\ iter + count <= Len(ranges) + 1
  /\ \A k \in DOMAIN ranges : k < iter => ranges[k].start < ip
  /\ \A k \in DOMAIN ranges : k >= iter + count => ip <= ranges[k].start

LastStart ==
  /\ iter \in 0..Len(ranges)
  /\ \A k \in DOMAIN ranges : k <= iter => ranges[k].start <= ip
  /\ \A k \in DOMAIN ranges : k > iter => ip < ranges[k].start

SearchInv ==
  /\ TypeOK
  /\ pc = "loop" => LoopInv
  /\ pc = "back" => LoopInv /\ count = 0
  /\ pc = "compare" => LastStart

-----------------------------------------------------------------------------
(* Lemmas on the arguments.                                                *)

\* What the assumption says of one array.
LEMMA ArrayFacts ==
  ASSUME NEW r \in Arrays
  PROVE  /\ Len(r) \in Nat
         /\ Len(r) >= 1
         /\ DOMAIN r = 1..Len(r)
         /\ \A k \in 1..Len(r) : r[k].start \in Nat /\ r[k].end \in Nat
         /\ \A k \in 1..Len(r) : r[k].start <= r[k].end
         /\ \A j, k \in 1..Len(r) : j < k => r[j].end < r[k].start
<1>1. r \in Seq(IpRange) /\ r # <<>> /\ Disjoint(r)
  BY SearchAssumption
<1>2. Len(r) \in Nat /\ Len(r) >= 1 /\ DOMAIN r = 1..Len(r)
  BY <1>1
<1>3. \A k \in 1..Len(r) : r[k] \in IpRange
  BY <1>1, <1>2
<1>4. \A k \in 1..Len(r) : r[k].start \in Nat /\ r[k].end \in Nat
  BY <1>3, SearchAssumption DEF IpRange, Address
<1> QED
  BY <1>1, <1>2, <1>4 DEF Disjoint

\* The middle of a non-empty rest lies in it.
LEMMA HalfLess ==
  ASSUME NEW n \in Nat, n > 0
  PROVE  n \div 2 \in Nat /\ n \div 2 < n
OBVIOUS

-----------------------------------------------------------------------------
(* The invariant.                                                          *)

LEMMA SearchInitInv == Init => SearchInv
  BY SearchAssumption DEF Init, SearchInv, TypeOK

\* A turn of the loop keeps the loop invariant on the half that it chooses.
LEMMA ProbeInv ==
  ASSUME SearchInv, Probe
  PROVE  SearchInv'
<1>1. /\ pc = "loop" /\ pc' = "loop" /\ count > 0 /\ TypeOK /\ LoopInv
      /\ ranges' = ranges /\ ip' = ip /\ found' = found
  BY DEF Probe, SearchInv
<1>2. /\ Len(ranges) \in Nat
      /\ DOMAIN ranges = 1..Len(ranges)
      /\ \A k \in 1..Len(ranges) : ranges[k].start \in Nat /\ ranges[k].end \in Nat
      /\ \A k \in 1..Len(ranges) : ranges[k].start <= ranges[k].end
      /\ \A j, k \in 1..Len(ranges) : j < k => ranges[j].end < ranges[k].start
  BY <1>1, ArrayFacts DEF TypeOK
<1>3. Half \in Nat /\ Half < count /\ count \in Nat /\ iter \in Nat /\ ip \in Nat
  BY <1>1, HalfLess, SearchAssumption DEF Half, TypeOK, Address
<1>4. Mid \in 1..Len(ranges) /\ Mid = iter + Half
  BY <1>1, <1>2, <1>3 DEF Mid, LoopInv
<1>5. \A j, k \in 1..Len(ranges) : j <= k => ranges[j].start <= ranges[k].start
  <2> SUFFICES ASSUME NEW j \in 1..Len(ranges), NEW k \in 1..Len(ranges), j < k
               PROVE  ranges[j].start <= ranges[k].start
    BY <1>2
  <2>1. ranges[j].start <= ranges[j].end /\ ranges[j].end < ranges[k].start
    BY <1>2
  <2>2. ranges[j].start \in Nat /\ ranges[j].end \in Nat /\ ranges[k].start \in Nat
    BY <1>2
  <2> QED
    BY <2>1, <2>2
<1>6. CASE ranges[Mid].start < ip
  <2>1. iter' = Mid + 1 /\ count' = count - (Half + 1)
    BY <1>6 DEF Probe
  <2>2. iter' \in 1..(Len(ranges) + 1) /\ count' \in Nat /\ iter' + count' = iter + count
    BY <1>2, <1>3, <1>4, <2>1
  <2>3. \A k \in DOMAIN ranges : k < iter' => ranges[k].start < ip
    <3> SUFFICES ASSUME NEW k \in 1..Len(ranges), k < iter'
                 PROVE  ranges[k].start < ip
      BY <1>2
    <3>1. ranges[k].start <= ranges[Mid].start
      BY <1>3, <1>4, <1>5, <2>1
    <3>2. ranges[k].start \in Nat /\ ranges[Mid].start \in Nat
      BY <1>2, <1>4
    <3> QED
      BY <1>3, <1>6, <3>1, <3>2
  <2>4. \A k \in DOMAIN ranges : k >= iter' + count' => ip <= ranges[k].start
    BY <1>1, <2>2 DEF LoopInv
  <2>5. iter' + count' <= Len(ranges) + 1
    BY <1>1, <2>2 DEF LoopInv
  <2>6. LoopInv'
    BY <1>1, <2>2, <2>3, <2>4, <2>5 DEF LoopInv
  <2>7. TypeOK'
    BY <1>1, <1>2, <2>2 DEF TypeOK
  <2> QED
    BY <1>1, <2>6, <2>7 DEF SearchInv
<1>7. CASE ~(ranges[Mid].start < ip)
  <2>1. iter' = iter /\ count' = Half
    BY <1>7 DEF Probe
  <2>2. \A k \in DOMAIN ranges : k >= iter' + count' => ip <= ranges[k].start
    <3> SUFFICES ASSUME NEW k \in 1..Len(ranges), k >= iter' + count'
                 PROVE  ip <= ranges[k].start
      BY <1>2
    <3>1. ranges[Mid].start <= ranges[k].start
      BY <1>3, <1>4, <1>5, <2>1
    <3>2. ranges[k].start \in Nat /\ ranges[Mid].start \in Nat
      BY <1>2, <1>4
    <3> QED
      BY <1>3, <1>7, <3>1, <3>2
  <2>3. iter' + count' <= Len(ranges) + 1
    BY <1>1, <1>2, <1>3, <2>1 DEF LoopInv
  <2> QED
    BY <1>1, <1>3, <2>1, <2>2, <2>3 DEF SearchInv, TypeOK, LoopInv
<1> QED
  BY <1>6, <1>7

\* From the first entry that does not start before the address the iterator goes
\* to the last one that does not start behind it.
LEMMA StepBackInv ==
  ASSUME SearchInv, StepBack
  PROVE  SearchInv'
<1>1. /\ pc = "back" /\ pc' = "compare" /\ TypeOK /\ LoopInv /\ count = 0
      /\ ranges' = ranges /\ ip' = ip /\ count' = count /\ found' = found
  BY DEF StepBack, SearchInv
<1>2. /\ Len(ranges) \in Nat
      /\ DOMAIN ranges = 1..Len(ranges)
      /\ \A k \in 1..Len(ranges) : ranges[k].start \in Nat /\ ranges[k].end \in Nat
      /\ \A k \in 1..Len(ranges) : ranges[k].start <= ranges[k].end
      /\ \A j, k \in 1..Len(ranges) : j < k => ranges[j].end < ranges[k].start
  BY <1>1, ArrayFacts DEF TypeOK
<1>3. /\ iter \in 1..(Len(ranges) + 1) /\ ip \in Nat
      /\ \A k \in 1..Len(ranges) : k < iter => ranges[k].start < ip
      /\ \A k \in 1..Len(ranges) : k >= iter => ip <= ranges[k].start
  <2>1. iter \in 1..(Len(ranges) + 1) /\ iter + count = iter
    BY <1>1, <1>2 DEF LoopInv
  <2>2. ip \in Nat
    BY <1>1, SearchAssumption DEF TypeOK, Address
  <2> QED
    BY <1>1, <1>2, <2>1, <2>2 DEF LoopInv
<1>4. \A j, k \in 1..Len(ranges) : j < k => ranges[j].start < ranges[k].start
  <2> SUFFICES ASSUME NEW j \in 1..Len(ranges), NEW k \in 1..Len(ranges), j < k
               PROVE  ranges[j].start < ranges[k].start
    OBVIOUS
  <2>1. ranges[j].start <= ranges[j].end /\ ranges[j].end < ranges[k].start
    BY <1>2
  <2>2. ranges[j].start \in Nat /\ ranges[j].end \in Nat /\ ranges[k].start \in Nat
    BY <1>2
  <2> QED
    BY <2>1, <2>2
<1>5. CASE iter # Len(ranges) + 1 /\ ranges[iter].start = ip
  <2>1. iter' = iter /\ iter \in 1..Len(ranges)
    BY <1>2, <1>3, <1>5 DEF StepBack
  <2>2. \A k \in 1..Len(ranges) : k <= iter => ranges[k].start <= ip
    BY <1>2, <1>3, <1>5, <2>1
  <2>3. \A k \in 1..Len(ranges) : k > iter => ip < ranges[k].start
    BY <1>2, <1>3, <1>4, <1>5, <2>1
  <2> QED
    BY <1>1, <1>2, <2>1, <2>2, <2>3 DEF SearchInv, TypeOK, LastStart
<1>6. CASE ~(iter # Len(ranges) + 1 /\ ranges[iter].start = ip)
  <2>1. iter' = iter - 1 /\ iter' \in 0..Len(ranges)
    BY <1>2, <1>3, <1>6 DEF StepBack
  <2>2. \A k \in 1..Len(ranges) : k <= iter' => ranges[k].start <= ip
    BY <1>2, <1>3, <2>1
  <2>3. \A k \in 1..Len(ranges) : k > iter' => ip < ranges[k].start
    <3> SUFFICES ASSUME NEW k \in 1..Len(ranges), k > iter'
                 PROVE  ip < ranges[k].start
      OBVIOUS
    <3>1. k >= iter /\ iter \in 1..Len(ranges) /\ ip <= ranges[k].start /\ ip <= ranges[iter].start
      BY <1>2, <1>3, <2>1
    <3>2. ranges[k].start \in Nat /\ ranges[iter].start \in Nat
      BY <1>2, <3>1
    <3>3. CASE k = iter
      BY <1>2, <1>3, <1>6, <3>1, <3>2, <3>3
    <3>4. CASE k > iter
      BY <1>3, <1>4, <3>1, <3>2, <3>4
    <3> QED
      BY <1>3, <3>1, <3>3, <3>4
  <2> QED
    BY <1>1, <1>2, <2>1, <2>2, <2>3 DEF SearchInv, TypeOK, LastStart
<1> QED
  BY <1>5, <1>6

LEMMA SearchNextInv == SearchInv /\ [Next]_vars => SearchInv'
<1> SUFFICES ASSUME SearchInv, [Next]_vars PROVE SearchInv'
  OBVIOUS
<1>1. ASSUME NEW r \in Arrays, NEW x \in Address, Call(r, x) PROVE SearchInv'
  <2>1. Len(r) \in Nat /\ Len(r) >= 1 /\ DOMAIN r = 1..Len(r)
    BY ArrayFacts
  <2> QED
    BY <1>1, <2>1 DEF Call, SearchInv, TypeOK, LoopInv
<1>2. CASE Probe
  BY <1>2, ProbeInv
<1>3. CASE LoopEnds
  BY <1>3 DEF LoopEnds, SearchInv, TypeOK, LoopInv
<1>4. CASE StepBack
  BY <1>4, StepBackInv
<1>5. CASE Compare
  <2>1. found' \in Nat
    BY <1>5 DEF Compare, SearchInv, TypeOK
  <2> QED
    BY <1>5, <2>1 DEF Compare, SearchInv, TypeOK
<1>6. CASE UNCHANGED vars
  BY <1>6 DEF vars, SearchInv, TypeOK, LoopInv, LastStart
<1> QED
  BY <1>1, <1>2, <1>3, <1>4, <1>5, <1>6 DEF Next

\* Before, during and after the loop of inranges the loop invariant holds.
THEOREM SearchInvariant == Spec => []SearchInv
<1>1. Init => SearchInv
  BY SearchInitInv
<1>2. SearchInv /\ [Next]_vars => SearchInv'
  BY SearchNextInv
<1> QED
  BY <1>1, <1>2, PTL DEF Spec

-----------------------------------------------------------------------------
(* What follows from it.                                                   *)

\* The variables of inranges keep their types; its count never wraps below 0.
THEOREM SearchTyping == Spec => []TypeOK
<1>1. SearchInv => TypeOK
  BY DEF SearchInv
<1> QED
  BY <1>1, SearchInvariant, PTL

\* inranges reads no entry outside of the array, whatever the address.
THEOREM SearchReadsInBounds == Spec => []ReadsInBounds
<1>1. SearchInv => ReadsInBounds
  <2> SUFFICES ASSUME SearchInv PROVE ReadsInBounds
    OBVIOUS
  <2>1. Len(ranges) \in Nat /\ DOMAIN ranges = 1..Len(ranges)
    BY ArrayFacts DEF SearchInv, TypeOK
  <2>2. ASSUME pc = "loop", count > 0 PROVE Mid \in DOMAIN ranges
    <3>1. LoopInv /\ iter \in Nat /\ count \in Nat
      BY <2>2 DEF SearchInv, TypeOK
    <3>2. count \div 2 \in Nat /\ count \div 2 < count
      BY <2>2, <3>1, HalfLess
    <3> QED
      BY <2>1, <3>1, <3>2 DEF Mid, Half, LoopInv
  <2>3. pc = "back" => iter \in 1..(Len(ranges) + 1)
    BY DEF SearchInv, LoopInv
  <2>4. pc = "compare" => iter \in 0..Len(ranges)
    BY DEF SearchInv, LastStart
  <2> QED
    BY <2>2, <2>3, <2>4 DEF ReadsInBounds
<1> QED
  BY <1>1, SearchInvariant, PTL

\* inranges returns the range that covers the address, and NULL only if none does.
THEOREM SearchFindsRange == Spec => FoundIsRight
<1> DEFINE Right ==
      pc = "compare" =>
        IF \E k \in DOMAIN ranges : Covers(k)
        THEN found' \in DOMAIN ranges /\ Covers(found')
        ELSE found' = 0
<1>1. SearchInv /\ [Next]_vars => [Right]_vars
  <2> SUFFICES ASSUME SearchInv, Next, pc = "compare" PROVE Right
    BY DEF Right
  <2>1. Compare
    BY DEF Next, Call, Probe, LoopEnds, StepBack
  <2>2. LastStart /\ ranges \in Arrays /\ ip \in Nat
    BY SearchAssumption DEF SearchInv, TypeOK, Address
  <2>3. /\ Len(ranges) \in Nat
        /\ DOMAIN ranges = 1..Len(ranges)
        /\ \A k \in 1..Len(ranges) : ranges[k].start \in Nat /\ ranges[k].end \in Nat
        /\ \A j, k \in 1..Len(ranges) : j < k => ranges[j].end < ranges[k].start
    BY <2>2, ArrayFacts
  <2>4. ASSUME NEW k \in DOMAIN ranges, Covers(k) PROVE k = iter
    <3>1. ~(k > iter)
      BY <2>2, <2>3, <2>4 DEF LastStart, Covers
    <3>2. ~(k < iter)
      <4> SUFFICES ASSUME k < iter PROVE FALSE
        OBVIOUS
      <4>1. iter \in 1..Len(ranges) /\ k \in 1..Len(ranges)
        BY <2>2, <2>3 DEF LastStart
      <4>2. ranges[k].end < ranges[iter].start /\ ranges[iter].start <= ip /\ ip <= ranges[k].end
        BY <2>2, <2>3, <2>4, <4>1 DEF LastStart, Covers
      <4>3. ranges[k].end \in Nat /\ ranges[iter].start \in Nat
        BY <2>3, <4>1
      <4> QED
        BY <2>2, <4>2, <4>3
    <3> QED
      BY <2>2, <2>3, <3>1, <3>2 DEF LastStart
  <2>5. CASE \E k \in DOMAIN ranges : Covers(k)
    <3>1. iter \in DOMAIN ranges /\ Covers(iter)
      BY <2>4, <2>5
    <3>2. found' = iter
      BY <2>1, <2>3, <3>1 DEF Compare
    <3> QED
      BY <2>5, <3>1, <3>2
  <2>6. CASE ~ \E k \in DOMAIN ranges : Covers(k)
    <3>1. ~(iter >= 1 /\ Covers(iter))
      BY <2>2, <2>3, <2>6 DEF LastStart
    <3>2. found' = 0
      BY <2>1, <3>1 DEF Compare
    <3> QED
      BY <2>6, <3>2
  <2> QED
    BY <2>5, <2>6
<1> QED
  BY <1>1, SearchInvariant, PTL DEF Spec, FoundIsRight

\* What a search has yet to do.
SearchLeft ==
  CASE pc = "loop" -> 3 + count
    [] pc = "back" -> 2
    [] pc = "compare" -> 1
    [] OTHER -> 0

\* A search goes on until it returns: each of its steps brings it nearer to its end, and a turn of
\* the loop leaves at most half of the entries.  So it takes one turn for each binary digit
\* of the length of the array, while it holds a spin lock of the driver.
THEOREM SearchAdvances ==
  Spec => /\ [](SearchLeft \in Nat)
          /\ [][pc # "idle" => SearchLeft' < SearchLeft /\ (Probe => 2 * count' <= count)]_vars
<1> DEFINE Goes == pc # "idle" => SearchLeft' < SearchLeft /\ (Probe => 2 * count' <= count)
<1>1. SearchInv => SearchLeft \in Nat
  BY DEF SearchInv, TypeOK, SearchLeft
<1>2. SearchInv /\ [Next]_vars => [Goes]_vars
  <2> SUFFICES ASSUME SearchInv, Next, pc # "idle" PROVE Goes
    BY DEF Goes
  <2>1. CASE Probe
    <3>1. count \in Nat /\ count > 0 /\ pc' = pc /\ pc = "loop"
      BY <2>1 DEF Probe, SearchInv, TypeOK
    <3>2. count' = Half \/ count' = count - (Half + 1)
      BY <2>1 DEF Probe
    <3>3. Half \in Nat /\ 2 * Half <= count /\ count <= 2 * Half + 1
      BY <3>1 DEF Half
    <3>4. count' < count /\ 2 * count' <= count /\ 3 + count' < 3 + count
      BY <3>1, <3>2, <3>3
    <3>5. SearchLeft' = 3 + count' /\ SearchLeft = 3 + count
      BY <3>1 DEF SearchLeft
    <3>6. SearchLeft' < SearchLeft
      BY <3>4, <3>5, Zenon
    <3> QED
      BY <3>4, <3>6 DEF Goes
  <2>2. CASE LoopEnds
    BY <2>2 DEF Goes, LoopEnds, Probe, SearchLeft
  <2>3. CASE StepBack
    BY <2>3 DEF Goes, StepBack, Probe, SearchLeft
  <2>4. CASE Compare
    BY <2>4 DEF Goes, Compare, Probe, SearchLeft
  <2> QED
    BY <2>1, <2>2, <2>3, <2>4 DEF Next, Call
<1> QED
  BY <1>1, <1>2, SearchInvariant, PTL DEF Spec

-----------------------------------------------------------------------------
(* The lists (RangeLists).                                                 *)

Hit(S, x) == \E r \in S : In(x, r)
HitSeq(s, x) == \E i \in DOMAIN s : In(x, s[i])

\* What the driver is to block.
Want(x) == Hit(block, x) /\ ~(family = "v4" /\ Hit(allow, x))

ListsTyped ==
  /\ family \in {"v4", "v6", "v6only"}
  /\ lpc \in {"compact", "erase", "optimize", "leave", "sent"}
  /\ block \subseteq NamedRange /\ IsFiniteSet(block) /\ allow \subseteq NamedRange
  /\ rest \subseteq NamedRange /\ parts \subseteq NamedRange /\ kept \subseteq NamedRange
  /\ compact \in Seq(NamedRange) /\ out \in Seq(NamedRange)
  /\ lpc # "erase" => parts = {} /\ kept = {}

Sorted ==
  /\ lpc \in {"compact", "optimize"} =>
       /\ Disjoint(out)
       /\ out # <<>> => \A q \in rest : out[Len(out)].start <= q.start
  /\ lpc = "erase" => Disjoint(compact) /\ out = <<>>
  /\ lpc = "sent" => Disjoint(out) \/ family = "v6only"

Covering ==
  /\ lpc \in {"compact", "erase"} => family = "v4"
  /\ lpc = "compact" =>
       \A x \in Address : Hit(allow, x) <=> Hit(rest, x) \/ HitSeq(out, x)
  /\ lpc = "erase" =>
       \A x \in Address :
         /\ HitSeq(compact, x) <=> Hit(allow, x)
         /\ Want(x) <=> ~HitSeq(compact, x) /\ (Hit(rest, x) \/ Hit(parts, x) \/ Hit(kept, x))
         /\ Hit(kept, x) => ~HitSeq(compact, x)
  /\ lpc = "optimize" =>
       \A x \in Address : Want(x) <=> Hit(rest, x) \/ HitSeq(out, x)
  /\ lpc = "leave" => family = "v6only" /\ rest = block
  /\ lpc = "sent" => \A x \in Address : Want(x) <=> HitSeq(out, x)

ListsInv == ListsTyped /\ Sorted /\ Covering

-----------------------------------------------------------------------------
(* Ranges and addresses.                                                   *)

LEMMA RangeFacts ==
  ASSUME NEW r \in NamedRange
  PROVE  /\ r.start \in Address /\ r.end \in Address /\ r.start <= r.end
         /\ r.start \in Nat /\ r.end \in Nat
         /\ r.name \in Names
  BY SearchAssumption DEF NamedRange, Address

LEMMA Neighbours ==
  ASSUME NEW x \in Address
  PROVE  /\ x < Top => Succ(x) = x + 1 /\ Succ(x) \in Address
         /\ x > 0 => Pred(x) = x - 1 /\ Pred(x) \in Address
  BY SearchAssumption DEF Address, Succ, Pred

LEMMA Least ==
  ASSUME NEW T \in SUBSET Nat, T # {}
  PROVE  \E m \in T : \A n \in T : m <= n
<1> DEFINE R == {p \in Nat \X Nat : p[1] < p[2]}
<1>1. R = OpToRel(<, Nat)
  BY Zenon DEF OpToRel
<1>2. IsWellFoundedOn(R, Nat)
  BY <1>1, NatLessThanWellFounded, Zenon
<1> HIDE DEF R
<1>3. PICK m \in T : \A n \in T : ~(<<n, m>> \in R)
  BY <1>2, WFMin
<1>4. \A n \in T : ~(n < m)
  BY <1>3 DEF R
<1> QED
  BY <1>4

\* Of the ranges that start at or before x there is a last one.
LEMMA LastBefore ==
  ASSUME NEW s \in Seq(NamedRange), NEW x \in Address, NEW i \in DOMAIN s, s[i].start <= x
  PROVE  \E j \in DOMAIN s : /\ j >= i /\ s[j].start <= x
                             /\ \A k \in DOMAIN s : k > j => s[k].start > x
<1> DEFINE T == {n \in Nat : \E j \in DOMAIN s : n = Len(s) - j /\ s[j].start <= x}
<1>1. Len(s) \in Nat /\ DOMAIN s = 1..Len(s)
  OBVIOUS
<1>2. Len(s) - i \in T
  BY <1>1
<1>3. PICK n \in T : \A m \in T : n <= m
  BY <1>2, Least
<1>4. PICK j \in DOMAIN s : n = Len(s) - j /\ s[j].start <= x
  OBVIOUS
<1>5. n <= Len(s) - i
  BY <1>2, <1>3
<1>6. ASSUME NEW k \in DOMAIN s, k > j PROVE s[k].start > x
  <2>1. Len(s) - k \notin T
    BY <1>1, <1>3, <1>4, <1>6
  <2>2. ~(s[k].start <= x)
    BY <1>1, <2>1
  <2>3. s[k].start \in Nat /\ x \in Nat
    BY RangeFacts, SearchAssumption DEF Address
  <2> QED
    BY <2>2, <2>3
<1> QED
  BY <1>1, <1>4, <1>5, <1>6

-----------------------------------------------------------------------------
(* One turn of sort and unique: merge_pred and its variants.               *)

Merged(s, r) ==
  LET n == Len(s)
  IN  IF n > 0 /\ (Overlaps(s[n], r) \/ Joins(s[n], r))
      THEN [s EXCEPT ![n].end = IF @ < r.end THEN r.end ELSE @]
      ELSE Append(s, r)

\* The last range grows up to the next one, or the next one lies behind all others: in
\* either case the list keeps its order and covers what both have covered.
LEMMA MergedIsRight ==
  ASSUME NEW s \in Seq(NamedRange), Disjoint(s), NEW r \in NamedRange,
         s # <<>> => s[Len(s)].start <= r.start
  PROVE  /\ Merged(s, r) \in Seq(NamedRange) /\ Merged(s, r) # <<>>
         /\ Disjoint(Merged(s, r))
         /\ Merged(s, r)[Len(Merged(s, r))].start <= r.start
         /\ \A x \in Address : HitSeq(Merged(s, r), x) <=> HitSeq(s, x) \/ In(x, r)
<1> DEFINE n == Len(s)
<1>1. n \in Nat /\ DOMAIN s = 1..n /\ (n > 0 <=> s # <<>>)
  OBVIOUS
<1>2. \A i \in 1..n : s[i] \in NamedRange
  OBVIOUS
<1>3. /\ r.start \in Nat /\ r.end \in Nat /\ r.start <= r.end
      /\ \A i \in 1..n : s[i].start \in Nat /\ s[i].end \in Nat /\ s[i].start <= s[i].end
  BY <1>2, RangeFacts
<1>4. CASE n > 0 /\ (Overlaps(s[n], r) \/ Joins(s[n], r))
  <2> DEFINE e == IF s[n].end < r.end THEN r.end ELSE s[n].end
             t == [s[n] EXCEPT !.end = e]
  <2>1. n \in 1..n /\ s[n].start <= r.start
    BY <1>1, <1>4
  <2>2. r.start <= s[n].end + 1
    <3>1. CASE Overlaps(s[n], r)
      BY <1>3, <2>1, <3>1 DEF Overlaps
    <3>2. CASE Joins(s[n], r)
      <4>1. s[n].end = Pred(r.start) /\ r.start \in Address
        BY <3>2, RangeFacts DEF Joins
      <4>2. CASE r.start > 0
        BY <1>3, <2>1, <4>1, <4>2, Neighbours
      <4>3. CASE r.start = 0
        BY <1>3, <2>1, <4>3
      <4> QED
        BY <1>3, <4>2, <4>3
    <3> QED
      BY <1>4, <3>1, <3>2
  <2>3. t \in NamedRange /\ t.start = s[n].start /\ t.end = e
    BY <1>2, <1>3, <2>1, RangeFacts DEF NamedRange
  <2>4. e \in Nat /\ s[n].end <= e /\ r.end <= e /\ e \in {s[n].end, r.end}
    BY <1>3, <2>1
  <2> HIDE DEF t, e
  <2>5. Merged(s, r) = [s EXCEPT ![n] = t]
    BY <1>4 DEF Merged, t, e
  <2> DEFINE m == [s EXCEPT ![n] = t]
  <2>6. /\ m \in Seq(NamedRange) /\ Len(m) = n /\ DOMAIN m = 1..n /\ m # <<>>
        /\ m[n] = t /\ \A i \in 1..n : i # n => m[i] = s[i]
    BY <1>1, <2>1, <2>3
  <2> HIDE DEF m
  <2>7. Disjoint(m)
    <3>1. ASSUME NEW i \in 1..n PROVE m[i].start <= m[i].end
      <4>1. CASE i = n
        <5>1. s[n].start <= s[n].end /\ s[n].start \in Nat /\ s[n].end \in Nat
          BY <1>3, <2>1
        <5>2. m[i].start = s[n].start /\ m[i].end = e
          BY <2>3, <2>6, <4>1
        <5> QED
          BY <2>4, <5>1, <5>2
      <4>2. CASE i # n
        BY <1>3, <2>6, <4>2
      <4> QED
        BY <4>1, <4>2
    <3>2. ASSUME NEW i \in 1..n, NEW j \in 1..n, i < j PROVE m[i].end < m[j].start
      <4>0. i # n
        <5>1. n \in Nat
          BY <1>1
        <5> HIDE DEF n
        <5> QED
          BY <3>2, <5>1
      <4>1. m[i] = s[i]
        BY <2>6, <4>0
      <4>2. m[j].start = s[j].start
        BY <2>3, <2>6
      <4>3. s[i].end < s[j].start
        BY <1>1, <3>2 DEF Disjoint
      <4> QED
        BY <4>1, <4>2, <4>3
    <3> QED
      BY <2>6, <3>1, <3>2 DEF Disjoint
  <2>8. ASSUME NEW x \in Address PROVE HitSeq(m, x) <=> HitSeq(s, x) \/ In(x, r)
    <3>1. x \in Nat
      BY SearchAssumption DEF Address
    <3>2. In(x, t) <=> In(x, s[n]) \/ In(x, r)
      BY <1>3, <2>1, <2>2, <2>3, <2>4, <3>1 DEF In
    <3>3. HitSeq(m, x) => HitSeq(s, x) \/ In(x, r)
      BY <1>1, <2>1, <2>6, <3>2 DEF HitSeq
    <3>4. HitSeq(s, x) => HitSeq(m, x)
      BY <1>1, <2>1, <2>6, <3>2 DEF HitSeq
    <3>5. In(x, r) => HitSeq(m, x)
      BY <1>1, <2>1, <2>6, <3>2 DEF HitSeq
    <3> QED
      BY <3>3, <3>4, <3>5
  <2>9. Merged(s, r) = m
    BY <2>5 DEF m
  <2> QED
    BY <2>1, <2>3, <2>6, <2>7, <2>8, <2>9
<1>5. CASE ~(n > 0 /\ (Overlaps(s[n], r) \/ Joins(s[n], r)))
  <2> DEFINE m == Append(s, r)
  <2>1. Merged(s, r) = m
    BY <1>5 DEF Merged
  <2>2. /\ m \in Seq(NamedRange) /\ Len(m) = n + 1 /\ DOMAIN m = 1..(n + 1) /\ m # <<>>
        /\ m[n + 1] = r /\ \A i \in 1..n : m[i] = s[i]
    <3>1. m \in Seq(NamedRange) /\ Len(m) = n + 1
      OBVIOUS
    <3>2. m[n + 1] = r /\ \A i \in 1..n : m[i] = s[i]
      BY <1>1
    <3> HIDE DEF m
    <3>3. DOMAIN m = 1..(n + 1) /\ m # <<>>
      BY <1>1, <3>1
    <3> QED
      BY <3>1, <3>2, <3>3
  <2> HIDE DEF m
  <2>3. \A i \in 1..n : s[i].end < r.start
    <3> SUFFICES ASSUME NEW i \in 1..n PROVE s[i].end < r.start
      OBVIOUS
    <3>1. n \in 1..n /\ s[n].end < r.start
      BY <1>1, <1>3, <1>5 DEF Overlaps
    <3>2. CASE i < n
      <4>1. s[i].end < s[n].start /\ s[n].start <= s[n].end
        BY <1>1, <3>1, <3>2 DEF Disjoint
      <4> QED
        BY <1>3, <3>1, <4>1
    <3> QED
      BY <1>1, <3>1, <3>2
  <2>4. Disjoint(m)
    <3>1. \A i \in 1..(n + 1) : m[i].start <= m[i].end
      BY <1>1, <1>3, <2>2
    <3>2. ASSUME NEW i \in 1..(n + 1), NEW j \in 1..(n + 1), i < j PROVE m[i].end < m[j].start
      <4>1. i \in 1..n /\ m[i] = s[i]
        BY <1>1, <2>2, <3>2
      <4>2. CASE j = n + 1
        BY <2>2, <2>3, <4>1, <4>2
      <4>3. CASE j \in 1..n
        BY <1>1, <2>2, <3>2, <4>1, <4>3 DEF Disjoint
      <4> QED
        BY <1>1, <4>2, <4>3
    <3> QED
      BY <2>2, <3>1, <3>2 DEF Disjoint
  <2>5. ASSUME NEW x \in Address PROVE HitSeq(m, x) <=> HitSeq(s, x) \/ In(x, r)
    <3>1. 1..(n + 1) = 1..n \cup {n + 1}
      BY <1>1
    <3> QED
      BY <1>1, <2>2, <3>1 DEF HitSeq
  <2> QED
    BY <1>1, <1>3, <2>1, <2>2, <2>4, <2>5
<1> QED
  BY <1>4, <1>5

-----------------------------------------------------------------------------
(* One turn of masserase_pred: erase_pred.                                 *)

\* What stays of a range and its new part are what the allowed range leaves of it, at
\* both ends of the address space too.
LEMMA CutIsRight ==
  ASSUME NEW r \in NamedRange, NEW a \in NamedRange, a.start <= r.end, r.start <= a.end
  PROVE  /\ Remains(r, a) \subseteq NamedRange /\ NewPart(r, a) \subseteq NamedRange
         /\ \A x \in Address :
              Hit(Remains(r, a), x) \/ Hit(NewPart(r, a), x) <=> In(x, r) /\ ~In(x, a)
<1>1. /\ r.start \in Nat /\ r.end \in Nat /\ r.start <= r.end
      /\ a.start \in Nat /\ a.end \in Nat /\ a.start <= a.end
      /\ r.start \in Address /\ r.end \in Address /\ a.start \in Address /\ a.end \in Address
  BY RangeFacts
<1>2. r.start <= Top /\ r.end <= Top /\ a.start <= Top /\ a.end <= Top /\ Top \in Nat
  BY <1>1, SearchAssumption DEF Address
<1>3. ASSUME a.end < r.end
      PROVE  /\ Back(r, a) \in NamedRange
             /\ Back(r, a).start = a.end + 1 /\ Back(r, a).end = r.end
  <2>1. Succ(a.end) = a.end + 1 /\ a.end + 1 \in Address
    BY <1>1, <1>2, <1>3, Neighbours
  <2> QED
    BY <1>1, <1>3, <2>1 DEF Back, NamedRange
<1>4. ASSUME r.start < a.start
      PROVE  /\ Front(r, a) \in NamedRange
             /\ Front(r, a).start = r.start /\ Front(r, a).end = a.start - 1
  <2>1. Pred(a.start) = a.start - 1 /\ a.start - 1 \in Address
    BY <1>1, <1>2, <1>4, Neighbours
  <2> QED
    BY <1>1, <1>4, <2>1 DEF Front, NamedRange
<1>5. CASE In(r.start, a) /\ In(r.end, a)
  <2>1. Remains(r, a) = {} /\ NewPart(r, a) = {}
    BY <1>5 DEF Remains, NewPart
  <2>2. \A x \in Address : ~(In(x, r) /\ ~In(x, a))
    BY <1>1, <1>5, SearchAssumption DEF In, Address
  <2> QED
    BY <2>1, <2>2 DEF Hit
<1>6. CASE ~(In(r.start, a) /\ In(r.end, a)) /\ Splits(r, a)
  <2>1. Remains(r, a) = {Back(r, a)} /\ NewPart(r, a) = {Front(r, a)}
    BY <1>6 DEF Remains, NewPart
  <2>2. a.end < r.end /\ r.start < a.start
    BY <1>1, <1>6 DEF Splits, In
  <2>3. \A x \in Address : In(x, Back(r, a)) \/ In(x, Front(r, a)) <=> In(x, r) /\ ~In(x, a)
    BY <1>1, <1>3, <1>4, <2>2, SearchAssumption DEF In, Address
  <2> QED
    BY <1>3, <1>4, <2>1, <2>2, <2>3 DEF Hit
<1>7. CASE ~In(r.end, a) /\ ~Splits(r, a) /\ In(r.start, a)
  <2>1. Remains(r, a) = {Back(r, a)} /\ NewPart(r, a) = {}
    BY <1>7 DEF Remains, NewPart
  <2>2. a.end < r.end
    BY <1>1, <1>7 DEF In
  <2>3. \A x \in Address : In(x, Back(r, a)) <=> In(x, r) /\ ~In(x, a)
    BY <1>1, <1>3, <1>7, <2>2, SearchAssumption DEF In, Address
  <2> QED
    BY <1>3, <2>1, <2>2, <2>3 DEF Hit
<1>8. CASE ~In(r.start, a) /\ ~Splits(r, a)
  <2>1. Remains(r, a) = {Front(r, a)} /\ NewPart(r, a) = {}
    BY <1>8 DEF Remains, NewPart
  <2>2. r.start < a.start /\ r.end <= a.end
    BY <1>1, <1>8 DEF In, Splits
  <2>3. \A x \in Address : In(x, Front(r, a)) <=> In(x, r) /\ ~In(x, a)
    BY <1>1, <1>4, <2>2, SearchAssumption DEF In, Address
  <2> QED
    BY <1>4, <2>1, <2>2, <2>3 DEF Hit
<1> QED
  BY <1>5, <1>6, <1>7, <1>8

\* A range in which compact_list finds nothing has no address in common with it.
LEMMA NothingFound ==
  ASSUME compact \in Seq(NamedRange), Disjoint(compact), NEW r \in NamedRange,
         \A i \in DOMAIN compact : ~Finds(i, r), NEW x \in Address, In(x, r)
  PROVE  ~HitSeq(compact, x)
<1> SUFFICES ASSUME NEW i \in DOMAIN compact, In(x, compact[i]) PROVE FALSE
  BY DEF HitSeq
<1>1. /\ compact[i] \in NamedRange /\ x \in Nat /\ r.end \in Address
      /\ r.start \in Nat /\ r.end \in Nat
  BY RangeFacts, SearchAssumption DEF Address
<1>2. compact[i].start \in Nat /\ compact[i].end \in Nat
  BY <1>1, RangeFacts
<1>3. compact[i].start <= r.end /\ r.start <= compact[i].end
  BY <1>1, <1>2 DEF In
<1>4. PICK j \in DOMAIN compact : /\ j >= i /\ compact[j].start <= r.end
                                  /\ \A k \in DOMAIN compact : k > j => compact[k].start > r.end
  BY <1>1, <1>3, LastBefore
<1>5. compact[j] \in NamedRange
  OBVIOUS
<1>6. compact[j].start \in Nat /\ compact[j].end \in Nat /\ compact[j].start <= compact[j].end
  BY <1>5, RangeFacts
<1>7. CASE i = j
  BY <1>3, <1>4, <1>7 DEF Finds
<1>8. CASE i < j
  <2>1. compact[i].end < compact[j].start
    BY <1>8 DEF Disjoint
  <2>2. r.start <= compact[j].end
    BY <1>1, <1>2, <1>3, <1>6, <2>1
  <2> QED
    BY <1>4, <2>2 DEF Finds
<1> QED
  BY <1>4, <1>7, <1>8

-----------------------------------------------------------------------------
(* The invariant.                                                          *)

LEMMA ListsInitInv == ListsInit => ListsInv
<1> SUFFICES ASSUME ListsInit PROVE ListsInv
  OBVIOUS
<1>1. /\ family \in {"v4", "v6", "v6only"}
      /\ block \subseteq NamedRange /\ IsFiniteSet(block) /\ allow \subseteq NamedRange
      /\ family # "v4" => allow = {}
      /\ parts = {} /\ kept = {} /\ compact = <<>> /\ out = <<>>
  BY ListsAssumption DEF ListsInit
<1>2. /\ family = "v4" /\ allow # {} => lpc = "compact" /\ rest = allow
      /\ family = "v6only" => lpc = "leave" /\ rest = block
      /\ family # "v6only" /\ ~(family = "v4" /\ allow # {}) => lpc = "optimize" /\ rest = block
  BY DEF ListsInit, Begin
<1>3. Disjoint(<<>>)
  BY DEF Disjoint
<1>4. \A x : ~HitSeq(<<>>, x) /\ ~Hit({}, x)
  BY DEF Hit, HitSeq
<1>5. ListsTyped
  BY <1>1, <1>2 DEF ListsTyped
<1>6. Sorted
  BY <1>1, <1>2, <1>3 DEF Sorted
<1>7. Covering
  BY <1>1, <1>2, <1>4 DEF Covering, Want
<1> QED
  BY <1>5, <1>6, <1>7 DEF ListsInv

\* Hit(rest, x) when one range is taken out.
LEMMA HitTaken ==
  ASSUME NEW S, NEW r \in S, NEW x
  PROVE  Hit(S, x) <=> Hit(S \ {r}, x) \/ In(x, r)
  BY DEF Hit

LEMMA TakeLeastInv ==
  ASSUME ListsInv, NEW r \in rest, TakeLeast(r)
  PROVE  ListsInv'
<1>1. /\ ListsTyped /\ Sorted /\ Covering
      /\ lpc \in {"compact", "optimize"} /\ lpc' = lpc /\ r \in NamedRange
      /\ rest' = rest \ {r} /\ out' = Merged(out, r)
      /\ family' = family /\ block' = block /\ allow' = allow
      /\ parts' = parts /\ kept' = kept /\ compact' = compact
  BY DEF ListsInv, ListsTyped, TakeLeast, Merged
<1>2. out \in Seq(NamedRange) /\ Disjoint(out) /\ (out # <<>> => out[Len(out)].start <= r.start)
  BY <1>1 DEF ListsTyped, Sorted
<1>3. /\ out' \in Seq(NamedRange) /\ out' # <<>> /\ Disjoint(out')
      /\ out'[Len(out')].start <= r.start
      /\ \A x \in Address : HitSeq(out', x) <=> HitSeq(out, x) \/ In(x, r)
  BY <1>1, <1>2, MergedIsRight
<1>4. \A q \in rest' : out'[Len(out')].start <= q.start
  <2> SUFFICES ASSUME NEW q \in rest' PROVE out'[Len(out')].start <= q.start
    OBVIOUS
  <2>1. q \in rest /\ q \in NamedRange
    BY <1>1 DEF ListsTyped
  <2>2. ~(q.start < r.start)
    BY <2>1 DEF TakeLeast, Less
  <2>3. q.start \in Nat /\ r.start \in Nat
    BY <1>1, <2>1, RangeFacts
  <2>4. out'[Len(out')] \in NamedRange
    BY <1>3
  <2>5. out'[Len(out')].start \in Nat
    BY <2>4, RangeFacts
  <2> QED
    BY <1>3, <2>2, <2>3, <2>5
<1>5. \A x \in Address : Hit(rest', x) \/ HitSeq(out', x) <=> Hit(rest, x) \/ HitSeq(out, x)
  BY <1>1, <1>3, HitTaken
<1>6. ListsTyped'
  BY <1>1, <1>3 DEF ListsTyped
<1>7. Sorted'
  BY <1>1, <1>3, <1>4 DEF Sorted
<1>8. Covering'
  <2>1. lpc' = "compact" => \A x \in Address : Hit(allow', x) <=> Hit(rest', x) \/ HitSeq(out', x)
    BY <1>1, <1>5 DEF Covering
  <2>2. lpc' = "optimize" => \A x \in Address : Want(x)' <=> Hit(rest', x) \/ HitSeq(out', x)
    <3>1. \A x : Want(x)' <=> Want(x)
      BY <1>1 DEF Want, Hit
    <3> QED
      BY <1>1, <1>5, <3>1 DEF Covering
  <2> QED
    BY <1>1, <2>1, <2>2 DEF Covering, Hit, HitSeq
<1> QED
  BY <1>6, <1>7, <1>8 DEF ListsInv

LEMMA CutInv ==
  ASSUME ListsInv, NEW r \in rest, NEW i \in DOMAIN compact, Cut(r, i)
  PROVE  ListsInv'
<1> DEFINE a == compact[i]
<1>1. /\ ListsTyped /\ Sorted /\ Covering
      /\ lpc = "erase" /\ lpc' = lpc /\ r \in NamedRange /\ a \in NamedRange
      /\ a.start <= r.end /\ r.start <= a.end
      /\ rest' = (rest \ {r}) \cup Remains(r, a)
      /\ parts' = parts \cup NewPart(r, a)
      /\ family' = family /\ block' = block /\ allow' = allow
      /\ kept' = kept /\ compact' = compact /\ out' = out
  BY DEF ListsInv, ListsTyped, Cut, Finds
<1>2. /\ Remains(r, a) \subseteq NamedRange /\ NewPart(r, a) \subseteq NamedRange
      /\ \A x \in Address :
           Hit(Remains(r, a), x) \/ Hit(NewPart(r, a), x) <=> In(x, r) /\ ~In(x, a)
  BY <1>1, CutIsRight
<1>3. \A x : In(x, a) => HitSeq(compact, x)
  BY DEF HitSeq
<1> HIDE DEF a
<1>4. ListsTyped'
  BY <1>1, <1>2 DEF ListsTyped
<1>5. Sorted'
  BY <1>1 DEF Sorted
<1>6. ASSUME NEW x \in Address, ~HitSeq(compact, x)
      PROVE  Hit(rest', x) \/ Hit(parts', x) <=> Hit(rest, x) \/ Hit(parts, x)
  <2>1. ~In(x, a)
    BY <1>3, <1>6
  <2>2. Hit(rest', x) <=> Hit(rest \ {r}, x) \/ Hit(Remains(r, a), x)
    BY <1>1 DEF Hit
  <2>3. Hit(parts', x) <=> Hit(parts, x) \/ Hit(NewPart(r, a), x)
    BY <1>1 DEF Hit
  <2>4. Hit(rest, x) <=> Hit(rest \ {r}, x) \/ In(x, r)
    BY HitTaken
  <2> QED
    BY <1>2, <2>1, <2>2, <2>3, <2>4
<1>7. ASSUME NEW x \in Address
      PROVE  /\ Want(x)' <=> Want(x)
             /\ HitSeq(compact', x) <=> HitSeq(compact, x)
             /\ Hit(kept', x) <=> Hit(kept, x)
             /\ Hit(allow', x) <=> Hit(allow, x)
  BY <1>1 DEF Want, Hit, HitSeq
<1>8. Covering'
  BY <1>1, <1>6, <1>7 DEF Covering
<1> QED
  BY <1>4, <1>5, <1>8 DEF ListsInv

LEMMA KeepInv ==
  ASSUME ListsInv, NEW r \in rest, Keep(r)
  PROVE  ListsInv'
<1>1. /\ ListsTyped /\ Sorted /\ Covering
      /\ lpc = "erase" /\ lpc' = lpc /\ r \in NamedRange
      /\ \A i \in DOMAIN compact : ~Finds(i, r)
      /\ rest' = rest \ {r} /\ kept' = kept \cup {r}
      /\ family' = family /\ block' = block /\ allow' = allow
      /\ parts' = parts /\ compact' = compact /\ out' = out
  BY DEF ListsInv, ListsTyped, Keep
<1>2. ASSUME NEW x \in Address
      PROVE  /\ Hit(rest, x) <=> Hit(rest', x) \/ In(x, r)
             /\ Hit(kept', x) <=> Hit(kept, x) \/ In(x, r)
             /\ In(x, r) => ~HitSeq(compact, x)
             /\ Hit(parts', x) <=> Hit(parts, x)
             /\ HitSeq(compact', x) <=> HitSeq(compact, x)
             /\ Want(x)' <=> Want(x)
             /\ Hit(allow', x) <=> Hit(allow, x)
  <2>1. Hit(rest, x) <=> Hit(rest', x) \/ In(x, r)
    BY <1>1, HitTaken
  <2>2. Hit(kept', x) <=> Hit(kept, x) \/ In(x, r)
    BY <1>1 DEF Hit
  <2>3. In(x, r) => ~HitSeq(compact, x)
    BY <1>1, NothingFound DEF ListsTyped, Sorted
  <2> QED
    BY <1>1, <2>1, <2>2, <2>3 DEF Want, Hit, HitSeq
<1>3. ListsTyped'
  BY <1>1 DEF ListsTyped
<1>4. Sorted'
  BY <1>1 DEF Sorted
<1>5. Covering'
  BY <1>1, <1>2 DEF Covering
<1> QED
  BY <1>3, <1>4, <1>5 DEF ListsInv

LEMMA NextPassInv ==
  ASSUME ListsInv, NextPass
  PROVE  ListsInv'
<1>1. /\ ListsTyped /\ Sorted /\ Covering
      /\ lpc = "erase" /\ lpc' = lpc /\ rest = {} /\ rest' = parts /\ parts' = {}
      /\ family' = family /\ block' = block /\ allow' = allow
      /\ kept' = kept /\ compact' = compact /\ out' = out
  BY DEF ListsInv, NextPass
<1>2. ASSUME NEW x \in Address
      PROVE  /\ ~Hit({}, x)
             /\ Want(x)' <=> Want(x)
             /\ Hit(kept', x) <=> Hit(kept, x)
             /\ HitSeq(compact', x) <=> HitSeq(compact, x)
             /\ Hit(allow', x) <=> Hit(allow, x)
  BY <1>1 DEF Want, Hit, HitSeq
<1>3. ListsTyped' /\ Sorted'
  BY <1>1 DEF ListsTyped, Sorted
<1>4. Covering'
  BY <1>1, <1>2 DEF Covering
<1> QED
  BY <1>3, <1>4 DEF ListsInv

LEMMA ErasedInv ==
  ASSUME ListsInv, Erased
  PROVE  ListsInv'
<1>1. /\ ListsTyped /\ Sorted /\ Covering
      /\ lpc = "erase" /\ lpc' = "optimize" /\ rest = {} /\ parts = {} /\ rest' = kept
      /\ parts' = {} /\ kept' = {}
      /\ family' = family /\ block' = block /\ allow' = allow
      /\ compact' = compact /\ out' = out /\ out = <<>>
  BY DEF ListsInv, Erased, AnotherPass, Sorted
<1>2. ASSUME NEW x \in Address
      PROVE  /\ ~Hit({}, x) /\ ~HitSeq(<<>>, x)
             /\ Want(x)' <=> Want(x)
  BY <1>1 DEF Want, Hit, HitSeq
<1>3. ListsTyped'
  BY <1>1 DEF ListsTyped
<1>4. Sorted'
  BY <1>1 DEF Sorted, Disjoint
<1>5. Covering'
  BY <1>1, <1>2 DEF Covering
<1> QED
  BY <1>3, <1>4, <1>5 DEF ListsInv

LEMMA CompactedInv ==
  ASSUME ListsInv, Compacted
  PROVE  ListsInv'
<1>1. /\ ListsTyped /\ Sorted /\ Covering
      /\ lpc = "compact" /\ lpc' = "erase" /\ rest = {} /\ rest' = block
      /\ compact' = out /\ out' = <<>>
      /\ family' = family /\ block' = block /\ allow' = allow
      /\ parts' = parts /\ kept' = kept
  BY DEF ListsInv, Compacted
<1>2. ASSUME NEW x \in Address
      PROVE  /\ ~Hit({}, x)
             /\ Want(x)' <=> Want(x)
             /\ Hit(allow', x) <=> Hit(allow, x)
             /\ Want(x) <=> ~Hit(allow, x) /\ Hit(block, x)
  BY <1>1 DEF Want, Hit, Covering
<1>3. ListsTyped'
  BY <1>1 DEF ListsTyped
<1>4. Sorted'
  BY <1>1 DEF Sorted
<1>5. Covering'
  <2>1. parts' = {} /\ kept' = {}
    BY <1>1 DEF ListsTyped
  <2> QED
    BY <1>1, <1>2, <2>1 DEF Covering
<1> QED
  BY <1>3, <1>4, <1>5 DEF ListsInv

LEMMA OptimizedInv ==
  ASSUME ListsInv, Optimized
  PROVE  ListsInv'
<1>1. /\ ListsTyped /\ Sorted /\ Covering
      /\ lpc = "optimize" /\ lpc' = "sent" /\ rest = {} /\ rest' = rest
      /\ compact' = compact /\ out' = out
      /\ family' = family /\ block' = block /\ allow' = allow
      /\ parts' = parts /\ kept' = kept
  BY DEF ListsInv, Optimized
<1>2. ASSUME NEW x \in Address PROVE ~Hit({}, x) /\ (Want(x)' <=> Want(x))
  BY <1>1 DEF Want, Hit
<1>3. ListsTyped' /\ Sorted'
  BY <1>1 DEF ListsTyped, Sorted
<1>4. Covering'
  BY <1>1, <1>2 DEF Covering
<1> QED
  BY <1>3, <1>4 DEF ListsInv

LEMMA LeftInv ==
  ASSUME ListsInv, Left
  PROVE  ListsInv'
<1>1. /\ ListsTyped /\ Covering
      /\ lpc = "leave" /\ lpc' = "sent" /\ rest = block /\ rest' = {} /\ family = "v6only"
      /\ out' \in [1..Cardinality(rest) -> rest]
      /\ \A r \in rest : \E i \in DOMAIN out' : out'[i] = r
      /\ compact' = compact
      /\ family' = family /\ block' = block /\ allow' = allow
      /\ parts' = parts /\ kept' = kept
  BY DEF ListsInv, Left, Covering
<1>2. Cardinality(rest) \in Nat
  BY <1>1, FS_CardinalityType DEF ListsTyped
<1>3. out' \in Seq(NamedRange)
  <2>1. out' \in [1..Cardinality(rest) -> NamedRange]
    BY <1>1 DEF ListsTyped
  <2> QED
    BY <1>2, <2>1
<1>4. ASSUME NEW x \in Address PROVE Want(x)' <=> HitSeq(out', x)
  BY <1>1 DEF Want, Hit, HitSeq
<1>5. ListsTyped'
  BY <1>1, <1>3 DEF ListsTyped
<1>6. Sorted' /\ Covering'
  BY <1>1, <1>4 DEF Sorted, Covering
<1> QED
  BY <1>5, <1>6 DEF ListsInv

\* The searches leave the lists alone.
LEMMA SearchKeepsLists ==
  ASSUME ListsInv, UNCHANGED listVars
  PROVE  ListsInv'
<1>1. /\ family' = family /\ block' = block /\ allow' = allow /\ lpc' = lpc /\ rest' = rest
      /\ parts' = parts /\ kept' = kept /\ compact' = compact /\ out' = out
  BY DEF listVars
<1>2. ListsTyped' /\ Sorted'
  BY <1>1 DEF ListsInv, ListsTyped, Sorted
<1>3. \A x : Want(x)' <=> Want(x)
  BY <1>1 DEF Want, Hit
<1>4. Covering'
  BY <1>1, <1>3 DEF ListsInv, Covering, Hit, HitSeq
<1> QED
  BY <1>2, <1>4 DEF ListsInv

\* What the ranges in the works cover, and how far the list under way is sorted.
THEOREM ListsInvariant == ListsSpec => []ListsInv
<1>1. ListsInit => ListsInv
  BY ListsInitInv
<1>2. ListsInv /\ [ListsNext]_allVars => ListsInv'
  <2> SUFFICES ASSUME ListsInv, [ListsNext]_allVars PROVE ListsInv'
    OBVIOUS
  <2>1. CASE Load
    BY <2>1, TakeLeastInv, CompactedInv, CutInv, KeepInv, NextPassInv, ErasedInv, OptimizedInv,
       LeftInv DEF Load
  <2>2. CASE SearchStep \/ (\E x \in Address : Search(x)) \/ UNCHANGED allVars
    BY <2>2, SearchKeepsLists DEF SearchStep, Search, allVars
  <2> QED
    BY <2>1, <2>2 DEF ListsNext
<1> QED
  BY <1>1, <1>2, PTL DEF ListsSpec

-----------------------------------------------------------------------------
(* What follows from it.                                                   *)

LEMMA AddressesHit ==
  ASSUME NEW S, S \subseteq NamedRange, NEW x
  PROVE  x \in Addresses(S) <=> x \in Address /\ Hit(S, x)
<1>1. ASSUME NEW r \in S PROVE x \in r.start..r.end <=> x \in Address /\ In(x, r)
  <2>1. r.start \in 0..Top /\ r.end \in 0..Top
    BY RangeFacts DEF Address
  <2> QED
    BY <2>1, SearchAssumption DEF In, Address
<1> QED
  BY <1>1 DEF Addresses, Hit

\* The array that the driver gets has the addresses of the block list without those of the
\* allow list, sorted and without overlaps, unless the list has IPv6 ranges only.
THEOREM SentArrayIsRight == ListsSpec => []SentIsRight
<1>1. ListsInv => SentIsRight
  <2> SUFFICES ASSUME ListsInv, lpc = "sent" PROVE SentIsRight
    BY DEF SentIsRight
  <2> DEFINE S == {out[i] : i \in DOMAIN out}
             A == IF family = "v4" THEN Addresses(allow) ELSE {}
  <2>1. S \subseteq NamedRange /\ block \subseteq NamedRange /\ allow \subseteq NamedRange
    BY DEF ListsInv, ListsTyped
  <2>2. \A x : Hit(S, x) <=> HitSeq(out, x)
    BY DEF Hit, HitSeq
  <2>3. \A x \in Address : Want(x) <=> HitSeq(out, x)
    BY DEF ListsInv, Covering
  <2> HIDE DEF S
  <2>4. ASSUME NEW x PROVE x \in Addresses(S) <=> x \in Addresses(block) \ A
    BY <2>1, <2>2, <2>3, AddressesHit DEF Want
  <2>5. Addresses(S) = Addresses(block) \ A
    BY <2>4
  <2>6. Disjoint(out) => Disjoint(Sent)
    BY DEF Disjoint, Sent
  <2> QED
    BY <2>5, <2>6 DEF SentIsRight, S, ListsInv, Sorted
<1> QED
  BY <1>1, ListsInvariant, PTL

\* Arrays stands for all arrays that list::optimize may leave.
AllArrays == \A r : r \in Seq(IpRange) /\ r # <<>> /\ Disjoint(r) => r \in Arrays

\* The search that runs on the array LoadLists has sent is the one of RangeSearch.
THEOREM ListsImplementSearch ==
  ASSUME AllArrays
  PROVE  ListsSpec => Spec
<1>1. ListsInit => Init
  <2> SUFFICES ASSUME ListsInit PROVE Init
    OBVIOUS
  <2> DEFINE r == <<[start |-> 0, end |-> Top]>>
  <2>1. r \in Seq(IpRange) /\ r # <<>> /\ Disjoint(r)
    BY SearchAssumption DEF IpRange, Address, Disjoint
  <2>2. r \in Arrays
    BY <2>1, AllArrays DEF AllArrays
  <2> QED
    BY <2>2, SearchAssumption DEF ListsInit, Init, Address
<1>2. ListsInv /\ [ListsNext]_allVars => [Next]_vars
  <2> SUFFICES ASSUME ListsInv, [ListsNext]_allVars PROVE [Next]_vars
    OBVIOUS
  <2>1. CASE Load
    BY <2>1 DEF Load, TakeLeast, Compacted, Cut, Keep, NextPass, Erased, Optimized, Left
  <2>2. ASSUME NEW x \in Address, Search(x) PROVE Next
    <3>1. out \in Seq(NamedRange) /\ Sent # <<>> /\ Disjoint(Sent) /\ Call(Sent, x)
      BY <2>2 DEF Search, ListsInv, ListsTyped
    <3>2. Sent \in Seq(IpRange)
      <4>1. \A i \in DOMAIN out : [start |-> out[i].start, end |-> out[i].end] \in IpRange
        BY <3>1, RangeFacts DEF IpRange
      <4> QED
        BY <3>1, <4>1 DEF Sent
    <3> QED
      BY <3>1, <3>2, AllArrays DEF AllArrays, Next
  <2>3. CASE SearchStep
    BY <2>3 DEF SearchStep, Next
  <2>4. CASE UNCHANGED allVars
    BY <2>4 DEF allVars
  <2> QED
    BY <2>1, <2>2, <2>3, <2>4 DEF ListsNext
<1> QED
  BY <1>1, <1>2, ListsInvariant, PTL DEF ListsSpec, Spec

\* So the driver reads no entry outside of that array, and finds the range that covers an
\* address if there is one.
THEOREM SentArrayIsSearched ==
  ASSUME AllArrays
  PROVE  ListsSpec => []ReadsInBounds /\ FoundIsRight
  BY ListsImplementSearch, SearchReadsInBounds, SearchFindsRange, PTL
-----------------------------------------------------------------------------
(* Loading comes to an end.                                                *)

\* The addresses of the ranges of a list, each as often as there are ranges with it.
Pairs(S) == {p \in S \X Address : In(p[2], p[1])}
Size(S) == Cardinality(Pairs(S))
Width(r) == r.end - r.start + 1

\* A cut may make two ranges of one, but they have fewer addresses than it had; a pass over the
\* parts uses up what the last one has made.
WorkLeft == 2 * (Size(rest) + Size(parts)) + (IF AnotherPass THEN 1 ELSE 0)

Stage ==
  CASE lpc = "compact" -> 0
    [] lpc = "erase" -> 1
    [] lpc \in {"optimize", "leave"} -> 2
    [] OTHER -> 3

LoadAdvances == Stage' > Stage \/ (Stage' = Stage /\ WorkLeft' < WorkLeft)

ListsFinite == IsFiniteSet(rest) /\ IsFiniteSet(parts) /\ IsFiniteSet(kept)

LEMMA ListsFiniteNext == ListsInv /\ ListsFinite /\ [ListsNext]_allVars => ListsFinite'
<1> SUFFICES ASSUME ListsInv, ListsFinite, [ListsNext]_allVars PROVE ListsFinite'
  OBVIOUS
<1>1. \A r : IsFiniteSet({r})
  BY FS_Singleton
<1>2. IsFiniteSet({})
  BY FS_EmptySet
<1>3. ASSUME NEW r \in rest, TakeLeast(r) PROVE ListsFinite'
  BY <1>3, FS_RemoveElement DEF TakeLeast, ListsFinite
<1>4. CASE Compacted
  BY <1>4 DEF Compacted, ListsFinite, ListsInv, ListsTyped
<1>5. ASSUME NEW r \in rest, NEW i \in DOMAIN compact, Cut(r, i) PROVE ListsFinite'
  <2>1. IsFiniteSet(rest \ {r})
    BY FS_RemoveElement DEF ListsFinite
  <2>2. IsFiniteSet(Remains(r, compact[i])) /\ IsFiniteSet(NewPart(r, compact[i]))
    BY <1>1, <1>2 DEF Remains, NewPart
  <2>3. IsFiniteSet(rest') /\ IsFiniteSet(parts')
    BY <1>5, <2>1, <2>2, FS_Union DEF Cut, ListsFinite
  <2> QED
    BY <1>5, <2>3 DEF Cut, ListsFinite
<1>6. ASSUME NEW r \in rest, Keep(r) PROVE ListsFinite'
  BY <1>6, FS_RemoveElement, FS_AddElement DEF Keep, ListsFinite
<1>7. CASE NextPass
  BY <1>2, <1>7 DEF NextPass, ListsFinite
<1>8. CASE Erased
  BY <1>2, <1>8, FS_Union DEF Erased, ListsFinite
<1>9. CASE Optimized \/ Left
  BY <1>2, <1>9 DEF Optimized, Left, ListsFinite
<1>10. CASE UNCHANGED listVars
  BY <1>10 DEF listVars, ListsFinite
<1> QED
  BY <1>3, <1>4, <1>5, <1>6, <1>7, <1>8, <1>9, <1>10
     DEF ListsNext, Load, Search, SearchStep, allVars

LEMMA ListsStayFinite == ListsSpec => []ListsFinite
<1>1. ListsInit => ListsFinite
  <2> SUFFICES ASSUME ListsInit PROVE ListsFinite
    OBVIOUS
  <2>1. IsFiniteSet({}) /\ IsFiniteSet(block) /\ IsFiniteSet(allow)
    BY FS_EmptySet, ListsAssumption DEF ListsInit
  <2>2. rest \in {block, allow} /\ parts = {} /\ kept = {}
    BY DEF ListsInit, Begin
  <2> QED
    BY <2>1, <2>2 DEF ListsFinite
<1> QED
  BY <1>1, ListsFiniteNext, ListsInvariant, PTL DEF ListsSpec

LEMMA WidthIs ==
  ASSUME NEW r \in NamedRange
  PROVE  /\ Width(r) \in Nat /\ Width(r) > 0
         /\ IsFiniteSet(Pairs({r})) /\ Size({r}) = Width(r)
<1>1. r.start \in Nat /\ r.end \in Nat /\ r.start <= r.end /\ r.start \in 0..Top /\ r.end \in 0..Top
  BY RangeFacts DEF Address
<1>2. Pairs({r}) = {r} \X (r.start..r.end)
  <2>1. \A x : x \in Address /\ In(x, r) <=> x \in r.start..r.end
    BY <1>1, SearchAssumption DEF In, Address
  <2> QED
    BY <2>1 DEF Pairs
<1>3. IsFiniteSet(r.start..r.end) /\ Cardinality(r.start..r.end) = Width(r)
  <2>1. /\ IsFiniteSet(r.start..r.end)
        /\ Cardinality(r.start..r.end) = IF r.start > r.end THEN 0 ELSE r.end - r.start + 1
    <3>1. r.start \in Int /\ r.end \in Int
      BY <1>1
    <3> QED
      BY <3>1, FS_Interval
  <2> QED
    BY <1>1, <2>1 DEF Width
<1>4. IsFiniteSet({r}) /\ Cardinality({r}) = 1
  BY FS_Singleton
<1>5. Width(r) \in Nat /\ Width(r) > 0
  BY <1>1 DEF Width
<1>6. IsFiniteSet(Pairs({r})) /\ Cardinality(Pairs({r})) = 1 * Width(r)
  <2>1. /\ IsFiniteSet({r} \X (r.start..r.end))
        /\ Cardinality({r} \X (r.start..r.end)) = Cardinality({r}) * Cardinality(r.start..r.end)
    BY <1>3, <1>4, FS_Product
  <2> QED
    BY <1>2, <1>3, <1>4, <2>1
<1> QED
  BY <1>5, <1>6 DEF Size

LEMMA SizeIsNat ==
  ASSUME NEW S, IsFiniteSet(S)
  PROVE  IsFiniteSet(Pairs(S)) /\ Size(S) \in Nat
<1>1. IsFiniteSet(Address)
  BY SearchAssumption, FS_Interval DEF Address
<1>2. IsFiniteSet(S \X Address)
  BY <1>1, FS_Product
<1>3. Pairs(S) \in SUBSET (S \X Address)
  BY DEF Pairs
<1>4. IsFiniteSet(Pairs(S))
  BY <1>2, <1>3, FS_Subset
<1> QED
  BY <1>4, FS_CardinalityType DEF Size

LEMMA SizeOfUnion ==
  ASSUME NEW S, IsFiniteSet(S), NEW T, IsFiniteSet(T)
  PROVE  /\ Size(S \cup T) <= Size(S) + Size(T)
         /\ S \cap T = {} => Size(S \cup T) = Size(S) + Size(T)
<1>1. IsFiniteSet(Pairs(S)) /\ IsFiniteSet(Pairs(T)) /\ Size(S) \in Nat /\ Size(T) \in Nat
  BY SizeIsNat
<1>2. Pairs(S \cup T) = Pairs(S) \cup Pairs(T)
  BY DEF Pairs
<1>3. Size(S \cup T) = Size(S) + Size(T) - Cardinality(Pairs(S) \cap Pairs(T))
  BY <1>1, <1>2, FS_Union DEF Size
<1>4. Pairs(S) \cap Pairs(T) \in SUBSET Pairs(S)
  OBVIOUS
<1>5. Cardinality(Pairs(S) \cap Pairs(T)) \in Nat
  BY <1>1, <1>4, FS_Subset, FS_CardinalityType
<1>6. S \cap T = {} => Pairs(S) \cap Pairs(T) = {}
  BY DEF Pairs
<1>7. S \cap T = {} => Cardinality(Pairs(S) \cap Pairs(T)) = 0
  BY <1>6, FS_EmptySet
<1> QED
  BY <1>1, <1>3, <1>5, <1>7

\* One range less.
LEMMA SizeWithout ==
  ASSUME NEW S, IsFiniteSet(S), NEW r \in S, r \in NamedRange
  PROVE  Size(S \ {r}) \in Nat /\ Size(S) = Size(S \ {r}) + Width(r) /\ Size(S \ {r}) < Size(S)
<1>1. IsFiniteSet(S \ {r}) /\ IsFiniteSet({r})
  BY FS_RemoveElement, FS_Singleton
<1>2. (S \ {r}) \cup {r} = S /\ (S \ {r}) \cap {r} = {}
  OBVIOUS
<1>3. Size(S) = Size(S \ {r}) + Size({r})
  BY <1>1, <1>2, SizeOfUnion
<1>4. Size(S \ {r}) \in Nat /\ Size({r}) = Width(r) /\ Width(r) \in Nat /\ Width(r) > 0
  BY <1>1, SizeIsNat, WidthIs
<1> QED
  BY <1>3, <1>4

\* What a cut leaves of a range is less than the range.
LEMMA CutIsSmaller ==
  ASSUME NEW r \in NamedRange, NEW a \in NamedRange, a.start <= r.end, r.start <= a.end
  PROVE  Size(Remains(r, a)) + Size(NewPart(r, a)) < Width(r)
<1>1. /\ r.start \in Nat /\ r.end \in Nat /\ r.start <= r.end
      /\ a.start \in Nat /\ a.end \in Nat /\ a.start <= a.end
      /\ a.start \in Address /\ a.end \in Address
  BY RangeFacts
<1>2. r.end <= Top /\ Top \in Nat
  BY RangeFacts, SearchAssumption DEF Address
<1>3. Size({}) = 0
  BY FS_EmptySet DEF Size, Pairs
<1>4. Remains(r, a) \subseteq NamedRange /\ NewPart(r, a) \subseteq NamedRange
  BY CutIsRight
<1>5. ASSUME a.end < r.end PROVE Width(Back(r, a)) = r.end - a.end
  <2>1. Succ(a.end) = a.end + 1
    BY <1>1, <1>2, <1>5, Neighbours
  <2> QED
    BY <1>1, <2>1 DEF Back, Width, NamedRange
<1>6. ASSUME r.start < a.start PROVE Width(Front(r, a)) = a.start - r.start
  <2>1. Pred(a.start) = a.start - 1
    BY <1>1, <1>6, Neighbours
  <2> QED
    BY <1>1, <2>1 DEF Front, Width, NamedRange
<1>7. CASE In(r.start, a) /\ In(r.end, a)
  <2>1. Remains(r, a) = {} /\ NewPart(r, a) = {}
    BY <1>7 DEF Remains, NewPart
  <2>2. Width(r) \in Nat /\ Width(r) > 0
    BY WidthIs
  <2> QED
    BY <1>3, <2>1, <2>2
<1>8. CASE ~(In(r.start, a) /\ In(r.end, a)) /\ Splits(r, a)
  <2>1. Remains(r, a) = {Back(r, a)} /\ NewPart(r, a) = {Front(r, a)}
    BY <1>8 DEF Remains, NewPart
  <2>2. a.end < r.end /\ r.start < a.start
    BY <1>1, <1>8 DEF Splits, In
  <2>3. Size(Remains(r, a)) = r.end - a.end /\ Size(NewPart(r, a)) = a.start - r.start
    BY <1>4, <1>5, <1>6, <2>1, <2>2, WidthIs
  <2> QED
    BY <1>1, <2>2, <2>3 DEF Width
<1>9. CASE ~In(r.end, a) /\ ~Splits(r, a) /\ In(r.start, a)
  <2>1. Remains(r, a) = {Back(r, a)} /\ NewPart(r, a) = {}
    BY <1>9 DEF Remains, NewPart
  <2>2. a.end < r.end
    BY <1>1, <1>9 DEF In
  <2>3. Size(Remains(r, a)) = r.end - a.end /\ Size(NewPart(r, a)) = 0
    BY <1>3, <1>4, <1>5, <2>1, <2>2, WidthIs
  <2> QED
    BY <1>1, <2>2, <2>3 DEF Width
<1>10. CASE ~In(r.start, a) /\ ~Splits(r, a)
  <2>1. Remains(r, a) = {Front(r, a)} /\ NewPart(r, a) = {}
    BY <1>10 DEF Remains, NewPart
  <2>2. r.start < a.start /\ r.end <= a.end
    BY <1>1, <1>10 DEF In, Splits
  <2>3. Size(Remains(r, a)) = a.start - r.start /\ Size(NewPart(r, a)) = 0
    BY <1>3, <1>4, <1>6, <2>1, <2>2, WidthIs
  <2> QED
    BY <1>1, <2>2, <2>3 DEF Width
<1> QED
  BY <1>7, <1>8, <1>9, <1>10

LEMMA CutAdvances ==
  ASSUME ListsInv, ListsFinite, NEW r \in rest, NEW i \in DOMAIN compact, Cut(r, i)
  PROVE  LoadAdvances
<1> DEFINE a == compact[i]
<1>1. /\ lpc' = lpc /\ r \in NamedRange /\ a \in NamedRange
      /\ a.start <= r.end /\ r.start <= a.end
      /\ rest' = (rest \ {r}) \cup Remains(r, a)
      /\ parts' = parts \cup NewPart(r, a)
  BY DEF ListsInv, ListsTyped, Cut, Finds
<1> HIDE DEF a
<1>2. /\ IsFiniteSet(rest) /\ IsFiniteSet(parts) /\ IsFiniteSet(rest \ {r})
      /\ IsFiniteSet(Remains(r, a)) /\ IsFiniteSet(NewPart(r, a))
  <2>1. \A x : IsFiniteSet({x}) /\ IsFiniteSet({})
    BY FS_Singleton, FS_EmptySet
  <2> QED
    BY <2>1, FS_RemoveElement DEF ListsFinite, Remains, NewPart
<1>3. /\ Size(Remains(r, a)) + Size(NewPart(r, a)) < Width(r)
      /\ Width(r) \in Nat /\ Size(Remains(r, a)) \in Nat /\ Size(NewPart(r, a)) \in Nat
  BY <1>1, <1>2, CutIsSmaller, WidthIs, SizeIsNat
<1>4. Size(rest \ {r}) \in Nat /\ Size(rest) = Size(rest \ {r}) + Width(r) /\ Size(parts) \in Nat
  BY <1>1, <1>2, SizeWithout, SizeIsNat
<1>5. Size(rest') <= Size(rest \ {r}) + Size(Remains(r, a)) /\ Size(rest') \in Nat
  <2>1. IsFiniteSet(rest')
    BY <1>1, <1>2, FS_Union
  <2> QED
    BY <1>1, <1>2, <2>1, SizeOfUnion, SizeIsNat
<1>6. Size(parts') <= Size(parts) + Size(NewPart(r, a)) /\ Size(parts') \in Nat
  <2>1. IsFiniteSet(parts')
    BY <1>1, <1>2, FS_Union
  <2> QED
    BY <1>1, <1>2, <2>1, SizeOfUnion, SizeIsNat
<1>7. Size(rest') + Size(parts') < Size(rest) + Size(parts)
  BY <1>3, <1>4, <1>5, <1>6
<1>8. Size(rest)' = Size(rest') /\ Size(parts)' = Size(parts')
  BY DEF Size, Pairs
<1>9. Size(rest) \in Nat
  BY <1>2, SizeIsNat
<1>10. WorkLeft' < WorkLeft
  BY <1>4, <1>5, <1>6, <1>7, <1>8, <1>9 DEF WorkLeft
<1> QED
  BY <1>1, <1>10 DEF LoadAdvances, Stage

\* A range is done with: one is merged or kept.
LEMMA RangeDoneAdvances ==
  ASSUME ListsInv, ListsFinite, NEW r \in rest, rest' = rest \ {r}, parts' = parts, lpc' = lpc
  PROVE  LoadAdvances
<1>1. r \in NamedRange /\ IsFiniteSet(rest) /\ IsFiniteSet(parts)
  BY DEF ListsInv, ListsTyped, ListsFinite
<1>2. Size(rest \ {r}) \in Nat /\ Size(rest \ {r}) < Size(rest) /\ Size(rest) \in Nat /\ Size(parts) \in Nat
  BY <1>1, SizeWithout, SizeIsNat
<1>3. Size(rest)' = Size(rest \ {r}) /\ Size(parts)' = Size(parts) /\ (AnotherPass' <=> AnotherPass)
  BY DEF Size, Pairs, AnotherPass
<1>4. WorkLeft' < WorkLeft
  BY <1>2, <1>3 DEF WorkLeft
<1> QED
  BY <1>4 DEF LoadAdvances, Stage

LEMMA LoadStepAdvances ==
  ASSUME ListsInv, ListsFinite, Load
  PROVE  LoadAdvances
<1>1. CASE \E r \in rest : TakeLeast(r) \/ Keep(r)
  BY <1>1, RangeDoneAdvances DEF TakeLeast, Keep
<1>2. CASE \E r \in rest, i \in DOMAIN compact : Cut(r, i)
  BY <1>2, CutAdvances
<1>3. CASE Compacted \/ Erased \/ Optimized \/ Left
  BY <1>3 DEF Compacted, Erased, Optimized, Left, LoadAdvances, Stage
<1>4. CASE NextPass
  <2>1. rest = {} /\ rest' = parts /\ parts' = {} /\ parts # {} /\ lpc' = lpc
    BY <1>4 DEF NextPass, AnotherPass
  <2>2. Size(parts) \in Nat /\ Size({}) \in Nat
    BY FS_EmptySet, SizeIsNat DEF ListsFinite
  <2>3. WorkLeft = 2 * (Size({}) + Size(parts)) + 1
    BY <2>1 DEF WorkLeft, AnotherPass
  <2>4. WorkLeft' = 2 * (Size(parts) + Size({})) + 0
    BY <2>1 DEF WorkLeft, AnotherPass, Size, Pairs
  <2> QED
    BY <2>1, <2>2, <2>3, <2>4 DEF LoadAdvances, Stage
<1> QED
  BY <1>1, <1>2, <1>3, <1>4 DEF Load

\* Loading does not go in circles: every step of it gets on with the stage, or leaves less
\* of it to do, though a cut may make a new range that has to be examined in its turn.
THEOREM LoadingAdvances ==
  ListsSpec => [](WorkLeft \in Nat) /\ [][Load => LoadAdvances]_allVars
<1>1. ListsFinite => WorkLeft \in Nat
  <2>1. ASSUME ListsFinite PROVE Size(rest) \in Nat /\ Size(parts) \in Nat
    BY <2>1, SizeIsNat DEF ListsFinite
  <2> QED
    BY <2>1 DEF WorkLeft
<1>2. ListsInv /\ ListsFinite => (Load => LoadAdvances)
  BY LoadStepAdvances
<1> QED
  BY <1>1, <1>2, ListsInvariant, ListsStayFinite, PTL DEF ListsSpec
=============================================================================
