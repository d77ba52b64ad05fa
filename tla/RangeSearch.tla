---------------------------- MODULE RangeSearch ----------------------------
(***************************************************************************)
(* The binary search of the filter driver (pbfilter/common.c, inranges and *)
(* inranges6, which differ in the width of an address): one call after the *)
(* other, one action per turn of the loop.                                 *)
(*                                                                         *)
(* FilterLists and PbDriver only say which addresses a list covers.  That  *)
(* the search finds exactly those is the subject of this module; it rests  *)
(* on the order in which libp2p's list::optimize leaves the ranges.        *)
(*                                                                         *)
(* Positions count from 1, so a pointer to the end is Len(ranges) + 1 and  *)
(* one before the first entry is 0.                                        *)
(***************************************************************************)
EXTENDS Naturals, Sequences

CONSTANTS
  Top,    \* the greatest address
  Arrays  \* the arrays that are searched

Address == 0..Top
IpRange == [start : Address, end : Address]

\* What list::optimize guarantees: ranges in ascending order that do not overlap.
Disjoint(r) ==
  /\ \A i \in DOMAIN r : r[i].start <= r[i].end
  /\ \A i, j \in DOMAIN r : i < j => r[i].end < r[j].start

\* The callers do not search an empty list.
ASSUME SearchAssumption ==
  /\ Top \in Nat
  /\ \A r \in Arrays : r \in Seq(IpRange) /\ r # <<>> /\ Disjoint(r)

VARIABLES
  pc,      \* "idle", "loop", "back" (after the loop) or "compare"
  ranges,  \* the arguments
  ip,
  iter,    \* position of the iterator
  count,   \* entries left to look at
  found    \* the position that was returned, 0 for NULL

vars == <<pc, ranges, ip, iter, count, found>>

TypeOK ==
  /\ pc \in {"idle", "loop", "back", "compare"}
  /\ ranges \in Arrays
  /\ ip \in Address
  /\ iter \in Nat
  /\ count \in Nat
  /\ found \in Nat

Init ==
  /\ pc = "idle"
  /\ ranges \in Arrays
  /\ ip \in Address
  /\ iter = 1
  /\ count = 0
  /\ found = 0

Call(r, x) ==
  /\ pc = "idle"
  /\ pc' = "loop"
  /\ ranges' = r
  /\ ip' = x
  /\ iter' = 1
  /\ count' = Len(r)
  /\ found' = 0

Half == count \div 2
Mid == iter + Half

\* Mutant: the middle entry stays with those that are left.
ProbeKeepsMiddle ==
  /\ pc = "loop"
  /\ count > 0
  /\ IF ranges[Mid].start < ip
     THEN iter' = Mid + 1 /\ count' = count - (Half + 1)
     ELSE iter' = iter /\ count' = count - Half
  /\ UNCHANGED <<pc, ranges, ip, found>>

Probe ==
  /\ pc = "loop"
  /\ count > 0
  /\ IF ranges[Mid].start < ip
     THEN iter' = Mid + 1 /\ count' = count - (Half + 1)
     ELSE iter' = iter /\ count' = Half
  /\ UNCHANGED <<pc, ranges, ip, found>>

LoopEnds ==
  /\ pc = "loop"
  /\ count = 0
  /\ pc' = "back"
  /\ UNCHANGED <<ranges, ip, iter, count, found>>

\* Mutants: no step back from the end; a step back from an entry that starts at
\* the address.
StepBackNotFromEnd ==
  /\ pc = "back"
  /\ iter' = IF iter # Len(ranges) + 1 /\ ranges[iter].start # ip THEN iter - 1 ELSE iter
  /\ pc' = "compare"
  /\ UNCHANGED <<ranges, ip, count, found>>

StepBackAlways ==
  /\ pc = "back"
  /\ iter' = iter - 1
  /\ pc' = "compare"
  /\ UNCHANGED <<ranges, ip, count, found>>

\* iter is the first entry that does not start before ip, or the end.
StepBack ==
  /\ pc = "back"
  /\ iter' = IF iter # Len(ranges) + 1 /\ ranges[iter].start = ip THEN iter ELSE iter - 1
  /\ pc' = "compare"
  /\ UNCHANGED <<ranges, ip, count, found>>

Covers(k) == ranges[k].start <= ip /\ ip <= ranges[k].end

Compare ==
  /\ pc = "compare"
  /\ found' = IF iter >= 1 /\ Covers(iter) THEN iter ELSE 0
  /\ pc' = "idle"
  /\ UNCHANGED <<ranges, ip, iter, count>>

Next ==
  \/ \E r \in Arrays, x \in Address : Call(r, x)
  \/ Probe
  \/ LoopEnds
  \/ StepBack
  \/ Compare

Spec == Init /\ [][Next]_vars

-----------------------------------------------------------------------------
(* Properties.                                                             *)

\* Every entry that the search reads is an entry of the array, although iter
\* passes the last entry and steps back before the first.
ReadsInBounds ==
  /\ pc = "loop" /\ count > 0 => Mid \in DOMAIN ranges
  /\ pc = "back" => iter \in 1..(Len(ranges) + 1)
  /\ pc = "compare" => iter \in 0..Len(ranges)

\* The search returns the entry that covers the address, and NULL if none does.
FoundIsRight ==
  [][pc = "compare" =>
       IF \E k \in DOMAIN ranges : Covers(k)
       THEN found' \in DOMAIN ranges /\ Covers(found')
       ELSE found' = 0]_vars

=============================================================================
