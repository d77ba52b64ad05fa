----------------------------- MODULE RangeLists -----------------------------
(***************************************************************************)
(* How the application makes the array that the driver searches: the       *)
(* allow list is compacted (compact_list), its ranges are cut out of the   *)
(* block list (list::erase), and what is left is sorted and merged         *)
(* (list::optimize), as LoadLists calls them.  Then the driver searches    *)
(* the array: the actions of RangeSearch.                                  *)
(*                                                                         *)
(* IPv6 ranges differ in three ways: nothing is cut out of them, names do  *)
(* not matter when they are merged, and LoadLists leaves them as they are  *)
(* when the block list has no IPv4 range ("v6only").                       *)
(*                                                                         *)
(* A list is a set of ranges: the order in which they were loaded matters  *)
(* only where a list is not sorted, and then any order is possible.  Of    *)
(* two ranges that start and end alike either may come first.              *)
(***************************************************************************)
EXTENDS RangeSearch, FiniteSets

CONSTANTS
  Names,   \* names of ranges
  Blocks,  \* the block lists that may be loaded
  Allows   \* the allow lists

\* The parsers swap the ends of a range where the second is the smaller one.
NamedRange == {r \in [name : Names, start : Address, end : Address] : r.start <= r.end}

ASSUME ListsAssumption ==
  /\ Blocks \subseteq SUBSET NamedRange
  /\ Allows \subseteq SUBSET NamedRange
  /\ \A b \in Blocks \cup Allows : IsFiniteSet(b)

VARIABLES
  family,   \* "v4", "v6" or "v6only"
  block, allow,  \* the lists that were loaded
  lpc,      \* "compact", "erase", "optimize", "leave" or "sent"
  rest,     \* ranges to come in the current loop
  parts,    \* the list nr of new ranges
  kept,     \* ranges that are done
  compact,  \* the ranges of compact_list
  out       \* the sorted list, as far as it is merged

listVars == <<family, block, allow, lpc, rest, parts, kept, compact, out>>

\* LoadLists calls erase if there is something to erase.
Begin(f, b, a) ==
  CASE f = "v4" /\ a # {} -> [lpc |-> "compact", rest |-> a]
    [] f = "v6only" -> [lpc |-> "leave", rest |-> b]
    [] OTHER -> [lpc |-> "optimize", rest |-> b]

ListsInit ==
  /\ family \in {"v4", "v6", "v6only"}
  /\ block \in Blocks
  /\ allow \in IF family = "v4" THEN Allows ELSE {{}}
  /\ lpc = Begin(family, block, allow).lpc
  /\ rest = Begin(family, block, allow).rest
  /\ parts = {} /\ kept = {} /\ compact = <<>> /\ out = <<>>
  /\ pc = "idle" /\ ranges = <<[start |-> 0, end |-> Top]>> /\ ip = 0
  /\ iter = 1 /\ count = 0 /\ found = 0

-----------------------------------------------------------------------------
(* sort and unique.                                                        *)

Less(p, q) == p.start < q.start \/ (p.start = q.start /\ p.end < q.end)

\* Addresses are unsigned numbers.
Succ(x) == (x + 1) % (Top + 1)
Pred(x) == (x + Top) % (Top + 1)

\* Mutant: the next range has to begin behind the end.
OverlapsInside(left, right) == left.start <= right.start /\ right.start < left.end
Overlaps(left, right) == left.start <= right.start /\ right.start <= left.end

Joins(left, right) ==
  /\ lpc = "optimize" /\ family = "v4"
  /\ left.end = Pred(right.start)
  /\ left.name = right.name

\* merge_pred, merge6_pred or mergepred, with the last range so far and the next one.
TakeLeast(r) ==
  /\ lpc \in {"compact", "optimize"}
  /\ r \in rest /\ \A q \in rest : ~Less(q, r)
  /\ rest' = rest \ {r}
  /\ LET n == Len(out)
     IN  IF n > 0 /\ (Overlaps(out[n], r) \/ Joins(out[n], r))
         THEN out' = [out EXCEPT ![n].end = IF @ < r.end THEN r.end ELSE @]
         ELSE out' = Append(out, r)
  /\ UNCHANGED <<vars, family, block, allow, lpc, parts, kept, compact>>

Compacted ==
  /\ lpc = "compact" /\ rest = {}
  /\ lpc' = "erase"
  /\ compact' = out /\ out' = <<>>
  /\ rest' = block
  /\ UNCHANGED <<vars, family, block, allow, parts, kept>>

-----------------------------------------------------------------------------
(* list::erase.                                                            *)

\* compact_list::operator(): i is the last allowed range that starts before r ends, and
\* they have an address in common.
Finds(i, r) ==
  /\ i \in DOMAIN compact
  /\ compact[i].start <= r.end
  /\ \A j \in DOMAIN compact : j > i => compact[j].start > r.end
  /\ r.start <= compact[i].end

In(x, a) == a.start <= x /\ x <= a.end

Splits(r, a) == r.start # a.start /\ r.end # a.end /\ In(a.start, r) /\ In(a.end, r)

Front(r, a) == [r EXCEPT !.end = Pred(a.start)]
Back(r, a) == [r EXCEPT !.start = Succ(a.end)]

\* erase_pred: what stays of r, if anything, and what goes to nr.
Remains(r, a) ==
  IF In(r.start, a) /\ In(r.end, a) THEN {}
  ELSE IF In(r.start, a) \/ Splits(r, a) THEN {Back(r, a)}
  ELSE {Front(r, a)}
NewPart(r, a) ==
  IF ~(In(r.start, a) /\ In(r.end, a)) /\ Splits(r, a) THEN {Front(r, a)} ELSE {}

\* One turn of the loop of masserase_pred.
Cut(r, i) ==
  /\ lpc = "erase" /\ r \in rest /\ Finds(i, r)
  /\ rest' = (rest \ {r}) \cup Remains(r, compact[i])
  /\ parts' = parts \cup NewPart(r, compact[i])
  /\ UNCHANGED <<vars, family, block, allow, lpc, kept, compact, out>>

Keep(r) ==
  /\ lpc = "erase" /\ r \in rest /\ \A i \in DOMAIN compact : ~Finds(i, r)
  /\ rest' = rest \ {r}
  /\ kept' = kept \cup {r}
  /\ UNCHANGED <<vars, family, block, allow, lpc, parts, compact, out>>

AnotherPass == parts # {}

\* The parts are examined in their turn, until a pass yields no new ones.  (That it
\* also looks at those that are done already has no effect and is left out.)
NextPass ==
  /\ lpc = "erase" /\ rest = {} /\ AnotherPass
  /\ rest' = parts /\ parts' = {}
  /\ UNCHANGED <<vars, family, block, allow, lpc, kept, compact, out>>

Erased ==
  /\ lpc = "erase" /\ rest = {} /\ ~AnotherPass
  /\ lpc' = "optimize"
  /\ rest' = kept \cup parts
  /\ parts' = {} /\ kept' = {}
  /\ UNCHANGED <<vars, family, block, allow, compact, out>>

-----------------------------------------------------------------------------
(* The array for the driver, and its searches.                             *)

Optimized ==
  /\ lpc = "optimize" /\ rest = {}
  /\ lpc' = "sent"
  /\ UNCHANGED <<vars, family, block, allow, rest, parts, kept, compact, out>>

Left ==
  /\ lpc = "leave"
  /\ out' \in {s \in [1..Cardinality(rest) -> rest] : \A r \in rest : \E i \in DOMAIN s : s[i] = r}
  /\ lpc' = "sent" /\ rest' = {}
  /\ UNCHANGED <<vars, family, block, allow, parts, kept, compact>>

\* setranges copies the ends of the ranges.
Sent == [i \in DOMAIN out |-> [start |-> out[i].start, end |-> out[i].end]]

Search(x) ==
  /\ lpc = "sent" /\ Sent # <<>> /\ Disjoint(Sent)
  /\ Call(Sent, x)
  /\ UNCHANGED listVars

SearchStep ==
  /\ Probe \/ LoopEnds \/ StepBack \/ Compare
  /\ UNCHANGED listVars

Load ==
  \/ \E r \in rest : TakeLeast(r)
  \/ Compacted
  \/ \E r \in rest, i \in DOMAIN compact : Cut(r, i)
  \/ \E r \in rest : Keep(r)
  \/ NextPass \/ Erased
  \/ Optimized \/ Left

ListsNext == Load \/ (\E x \in Address : Search(x)) \/ SearchStep

allVars == <<vars, listVars>>

ListsSpec == ListsInit /\ [][ListsNext]_allVars

\* Loading and a search that has begun run to their ends.
FairListsSpec == ListsSpec /\ WF_allVars(Load) /\ WF_allVars(SearchStep)

-----------------------------------------------------------------------------
(* Properties.                                                             *)

Addresses(S) == UNION {r.start..r.end : r \in S}

\* The addresses of the array that is sent are those of the block list without those
\* of the allow list, wherever the allowed ranges cut the blocked ones, at both ends of
\* the address space too (list.cpp:66); and the array is sorted and without overlaps, as the search
\* of the driver needs it, unless the list has IPv6 ranges only (lists.cpp:616).
SentIsRight ==
  lpc = "sent" =>
    /\ Addresses({out[i] : i \in DOMAIN out}) =
         Addresses(block) \ (IF family = "v4" THEN Addresses(allow) ELSE {})
    /\ Disjoint(Sent) \/ family = "v6only"

\* Cutting comes to an end, though each cut may make a new range, and so does every
\* search, which holds a spin lock of the driver.
AnswerComes == (lpc # "sent" \/ pc # "idle") ~> (lpc = "sent" /\ pc = "idle")

=============================================================================
