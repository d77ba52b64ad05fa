---------------------------- MODULE FilterLists ----------------------------
(***************************************************************************)
(* The lists of the filter driver (pbfilter/common.c): the allow and block *)
(* ranges for IPv4 and IPv6 and the two port lists.  A setter copies its   *)
(* input into a fresh pool array, swaps it in under the spin lock of the   *)
(* list and frees the old array after the unlock; a classify callback      *)
(* searches under the lock.  SetRanges, SetRanges6, SetDestinationPorts    *)
(* and SetSourcePorts have the same steps and differ in the test that      *)
(* tells whether there is an old array to free.                            *)
(*                                                                         *)
(* The lock is held over several steps here: an array that a search walks  *)
(* must not change, or be freed, before the search has ended.              *)
(***************************************************************************)
EXTENDS Naturals

CONSTANTS
  Lists,       \* allowedranges, blockedranges, ..., sourceports
  RangeLists,  \* those with labels and a labelsid
  Locks,       \* rangeslock, sourceportslock, destinationportslock
  LockOf,      \* the lock of each list
  After,       \* the list that is searched, in the same critical section, after a miss
  Tables,      \* what a client sends: the entries of one list
  Length,      \* number of entries of a table
  Covers,      \* the keys (addresses, ports) its entries cover
  Keys,
  Arrays,      \* pool allocations
  Writers,     \* threads in a list IOCTL or in cleanup
  Readers,     \* threads in a classify callback
  None

ASSUME ListsAssumption ==
  /\ RangeLists \subseteq Lists
  /\ LockOf \in [Lists -> Locks]
  /\ After \in [Lists -> Lists \cup {None}]
  /\ \A l \in Lists : After[l] # None =>
       /\ LockOf[After[l]] = LockOf[l]
       /\ After[After[l]] = None
       /\ After[l] # l
  /\ Length \in [Tables -> Nat \ {0}]
  /\ Covers \in [Tables -> SUBSET Keys]
  /\ Writers \cap Readers = {}
  /\ None \notin Lists \cup Tables \cup Keys \cup Arrays \cup Writers \cup Readers
  /\ None \notin [list : Lists, key : Keys]

VARIABLES
  table,                    \* per array: the table copied into it, None if free
  ptr, count, labelsid,     \* per list: the fields of PBINTERNAL
  lock,                     \* per lock: who holds it
  wpc, wlist, wtable, warr, \* per writer: where it stands, the list and table it
                            \* sets, the array that only it knows (new, then old)
  rpc, rask, rlist,         \* per reader: where it stands, what it looks up, the
  rarr, rcount, verdict     \* list, array and count it searches, what it found

listVars == <<ptr, count, labelsid>>
writerVars == <<wpc, wlist, wtable, warr>>
readerVars == <<rpc, rask, rlist, rarr, rcount, verdict>>
vars == <<table, listVars, lock, writerVars, readerVars>>

NotFound == [list |-> None, label |-> None, labelsid |-> None]
Verdicts == [list : Lists \cup {None}, label : Tables \cup {None},
             labelsid : Tables \cup {None}]
Questions == [list : Lists, key : Keys]

\* A spin lock is held by a thread inside its critical section, which will release it.
HeldByWriter(k) ==
  \E w \in Writers :
    lock[k] = w /\ wpc[w] \in {"swap", "release"} /\ LockOf[wlist[w]] = k

HeldByReader(k) ==
  \E r \in Readers :
    lock[k] = r /\ rpc[r] \in {"fetch", "search", "release"} /\ LockOf[rlist[r]] = k

LocksHeldInside == \A k \in Locks : lock[k] # None => HeldByWriter(k) \/ HeldByReader(k)

\* Types, and no setter or lookup returns, or goes on to a list of another lock, with
\* the lock of its list still held.
TypeOK ==
  /\ table \in [Arrays -> Tables \cup {None}]
  /\ ptr \in [Lists -> Arrays \cup {None}]
  /\ count \in [Lists -> Nat]
  /\ labelsid \in [RangeLists -> Tables \cup {None}]
  /\ lock \in [Locks -> Writers \cup Readers \cup {None}]
  /\ wpc \in [Writers -> {"idle", "alloc", "acquire", "swap", "release", "free"}]
  /\ wlist \in [Writers -> Lists \cup {None}]
  /\ wtable \in [Writers -> Tables \cup {None}]
  /\ warr \in [Writers -> Arrays \cup {None}]
  /\ rpc \in [Readers -> {"idle", "acquire", "fetch", "search", "release"}]
  /\ rask \in [Readers -> Questions \cup {None}]
  /\ rlist \in [Readers -> Lists \cup {None}]
  /\ rarr \in [Readers -> Arrays \cup {None}]
  /\ rcount \in [Readers -> Nat]
  /\ verdict \in [Readers -> Verdicts]
  /\ LocksHeldInside

Init ==
  /\ table = [a \in Arrays |-> None]
  /\ ptr = [l \in Lists |-> None]
  /\ count = [l \in Lists |-> 0]
  /\ labelsid = [l \in RangeLists |-> None]
  /\ lock = [k \in Locks |-> None]
  /\ wpc = [w \in Writers |-> "idle"]
  /\ wlist = [w \in Writers |-> None]
  /\ wtable = [w \in Writers |-> None]
  /\ warr = [w \in Writers |-> None]
  /\ rpc = [r \in Readers |-> "idle"]
  /\ rask = [r \in Readers |-> None]
  /\ rlist = [r \in Readers |-> None]
  /\ rarr = [r \in Readers |-> None]
  /\ rcount = [r \in Readers |-> 0]
  /\ verdict = [r \in Readers |-> NotFound]

Acquire(k, thread) == lock[k] = None /\ lock' = [lock EXCEPT ![k] = thread]
Release(k) == lock' = [lock EXCEPT ![k] = None]

-----------------------------------------------------------------------------
(* SetRanges, SetRanges6, SetDestinationPorts, SetSourcePorts.             *)

\* No table (no input, or no entry in it) clears the list without an allocation.
SetBegin(w, l, t) ==
  /\ wpc[w] = "idle"
  /\ wpc' = [wpc EXCEPT ![w] = IF t = None THEN "acquire" ELSE "alloc"]
  /\ wlist' = [wlist EXCEPT ![w] = l]
  /\ wtable' = [wtable EXCEPT ![w] = t]
  /\ UNCHANGED <<table, listVars, lock, warr, readerVars>>

SetAlloc(w, a) ==
  /\ wpc[w] = "alloc"
  /\ table[a] = None
  /\ table' = [table EXCEPT ![a] = wtable[w]]
  /\ warr' = [warr EXCEPT ![w] = a]
  /\ wpc' = [wpc EXCEPT ![w] = "acquire"]
  /\ UNCHANGED <<listVars, lock, wlist, wtable, readerVars>>

SetDone(w) ==
  /\ wpc' = [wpc EXCEPT ![w] = "idle"]
  /\ wlist' = [wlist EXCEPT ![w] = None]
  /\ wtable' = [wtable EXCEPT ![w] = None]
  /\ warr' = [warr EXCEPT ![w] = None]

\* The pool is empty: the setter returns, and the list keeps its old content.
SetNoMemory(w) ==
  /\ wpc[w] = "alloc"
  /\ SetDone(w)
  /\ UNCHANGED <<table, listVars, lock, readerVars>>

SetAcquire(w) ==
  /\ wpc[w] = "acquire"
  /\ Acquire(LockOf[wlist[w]], w)
  /\ wpc' = [wpc EXCEPT ![w] = "swap"]
  /\ UNCHANGED <<table, listVars, wlist, wtable, warr, readerVars>>

NewCount(w) == IF wtable[w] = None THEN 0 ELSE Length[wtable[w]]

\* Mutant: the old count is compared with 1.
OldArrayOffByOne(l) == IF l \in RangeLists /\ count[l] <= 1 THEN None ELSE ptr[l]

\* Of a range list the old array counts only if the old count is not 0.
OldArray(l) == IF l \in RangeLists /\ count[l] = 0 THEN None ELSE ptr[l]

\* Mutant: one labelsid for the allow and the block list.
NewLabelsidShared(w) == [l \in RangeLists |-> wtable[w]]

NewLabelsid(w) ==
  [l \in RangeLists |-> IF l = wlist[w] THEN wtable[w] ELSE labelsid[l]]

SetSwap(w) ==
  /\ wpc[w] = "swap"
  /\ warr' = [warr EXCEPT ![w] = OldArray(wlist[w])]
  /\ ptr' = [ptr EXCEPT ![wlist[w]] = warr[w]]
  /\ count' = [count EXCEPT ![wlist[w]] = NewCount(w)]
  /\ labelsid' = NewLabelsid(w)
  /\ wpc' = [wpc EXCEPT ![w] = "release"]
  /\ UNCHANGED <<table, lock, wlist, wtable, readerVars>>

SetRelease(w) ==
  /\ wpc[w] = "release"
  /\ Release(LockOf[wlist[w]])
  /\ wpc' = [wpc EXCEPT ![w] = "free"]
  /\ UNCHANGED <<table, listVars, wlist, wtable, warr, readerVars>>

SetFree(w) ==
  /\ wpc[w] = "free"
  /\ table' = [a \in Arrays |-> IF a = warr[w] THEN None ELSE table[a]]
  /\ SetDone(w)
  /\ UNCHANGED <<listVars, lock, readerVars>>

SetStep(w) ==
  \/ \E a \in Arrays : SetAlloc(w, a)
  \/ SetNoMemory(w)
  \/ SetAcquire(w)
  \/ SetSwap(w)
  \/ SetRelease(w)
  \/ SetFree(w)

-----------------------------------------------------------------------------
(* CheckRanges, CheckRanges6, SourcePortAllowed, DestinationPortAllowed.   *)

\* A lookup starts at the allow list of the address family or at a port list.
FirstLists == {l \in Lists : \A m \in Lists : After[m] # l}

LookupBegin(r, l, x) ==
  /\ rpc[r] = "idle"
  /\ rpc' = [rpc EXCEPT ![r] = "acquire"]
  /\ rask' = [rask EXCEPT ![r] = [list |-> l, key |-> x]]
  /\ rlist' = [rlist EXCEPT ![r] = l]
  /\ verdict' = [verdict EXCEPT ![r] = NotFound]
  /\ UNCHANGED <<table, listVars, lock, writerVars, rarr, rcount>>

\* Mutant: the search does not take the lock.
LookupUnlocked(r) ==
  /\ rpc[r] = "acquire"
  /\ rpc' = [rpc EXCEPT ![r] = "fetch"]
  /\ UNCHANGED <<table, listVars, lock, writerVars, rask, rlist, rarr, rcount, verdict>>

LookupAcquire(r) ==
  /\ rpc[r] = "acquire"
  /\ Acquire(LockOf[rlist[r]], r)
  /\ rpc' = [rpc EXCEPT ![r] = "fetch"]
  /\ UNCHANGED <<table, listVars, writerVars, rask, rlist, rarr, rcount, verdict>>

\* The pointer and the count are passed to the binary search.
LookupFetch(r) ==
  /\ rpc[r] = "fetch"
  /\ count[rlist[r]] > 0
  /\ rarr' = [rarr EXCEPT ![r] = ptr[rlist[r]]]
  /\ rcount' = [rcount EXCEPT ![r] = count[rlist[r]]]
  /\ rpc' = [rpc EXCEPT ![r] = "search"]
  /\ UNCHANGED <<table, listVars, lock, writerVars, rask, rlist, verdict>>

\* The search of this list is over without a hit.
Missed(r) ==
  /\ rlist' = [rlist EXCEPT ![r] = IF After[@] = None THEN @ ELSE After[@]]
  /\ rpc' = [rpc EXCEPT ![r] = IF After[rlist[r]] = None THEN "release" ELSE "fetch"]
  /\ rarr' = [rarr EXCEPT ![r] = None]
  /\ rcount' = [rcount EXCEPT ![r] = 0]

LookupSkip(r) ==
  /\ rpc[r] = "fetch"
  /\ count[rlist[r]] = 0
  /\ Missed(r)
  /\ UNCHANGED <<table, listVars, lock, writerVars, rask, verdict>>

Covered(r) == table[rarr[r]] # None /\ rask[r].key \in Covers[table[rarr[r]]]

\* Mutant: the allow list and the block list are searched under one lock each.
LookupMissUnlocks(r) ==
  /\ rpc[r] = "search"
  /\ ~Covered(r)
  /\ Release(LockOf[rlist[r]])
  /\ rlist' = [rlist EXCEPT ![r] = IF After[@] = None THEN None ELSE After[@]]
  /\ rpc' = [rpc EXCEPT ![r] = IF After[rlist[r]] = None THEN "idle" ELSE "acquire"]
  /\ rarr' = [rarr EXCEPT ![r] = None]
  /\ rcount' = [rcount EXCEPT ![r] = 0]
  /\ rask' = [rask EXCEPT ![r] = IF After[rlist[r]] = None THEN None ELSE @]
  /\ UNCHANGED <<table, listVars, writerVars, verdict>>

LookupMiss(r) ==
  /\ rpc[r] = "search"
  /\ ~Covered(r)
  /\ Missed(r)
  /\ UNCHANGED <<table, listVars, lock, writerVars, rask, verdict>>

\* The label comes from the array, the labelsid from the list.
Labels(r) ==
  IF rlist[r] \in RangeLists
  THEN [list |-> rlist[r], label |-> table[rarr[r]], labelsid |-> labelsid[rlist[r]]]
  ELSE [list |-> rlist[r], label |-> None, labelsid |-> None]

\* Mutant: a hit returns its action at once, past the release of the lock.
LookupHitReturns(r) ==
  /\ rpc[r] = "search"
  /\ Covered(r)
  /\ verdict' = [verdict EXCEPT ![r] = Labels(r)]
  /\ rarr' = [rarr EXCEPT ![r] = None]
  /\ rcount' = [rcount EXCEPT ![r] = 0]
  /\ rpc' = [rpc EXCEPT ![r] = "idle"]
  /\ rask' = [rask EXCEPT ![r] = None]
  /\ rlist' = [rlist EXCEPT ![r] = None]
  /\ UNCHANGED <<table, listVars, lock, writerVars>>

LookupHit(r) ==
  /\ rpc[r] = "search"
  /\ Covered(r)
  /\ verdict' = [verdict EXCEPT ![r] = Labels(r)]
  /\ rarr' = [rarr EXCEPT ![r] = None]
  /\ rcount' = [rcount EXCEPT ![r] = 0]
  /\ rpc' = [rpc EXCEPT ![r] = "release"]
  /\ UNCHANGED <<table, listVars, lock, writerVars, rask, rlist>>

LookupRelease(r) ==
  /\ rpc[r] = "release"
  /\ Release(LockOf[rlist[r]])
  /\ rpc' = [rpc EXCEPT ![r] = "idle"]
  /\ rask' = [rask EXCEPT ![r] = None]
  /\ rlist' = [rlist EXCEPT ![r] = None]
  /\ UNCHANGED <<table, listVars, writerVars, rarr, rcount, verdict>>

LookupStep(r) ==
  \/ LookupAcquire(r)
  \/ LookupFetch(r)
  \/ LookupSkip(r)
  \/ LookupMiss(r)
  \/ LookupHit(r)
  \/ LookupRelease(r)

-----------------------------------------------------------------------------

Next ==
  \/ \E w \in Writers, l \in Lists, t \in Tables \cup {None} : SetBegin(w, l, t)
  \/ \E w \in Writers : SetStep(w)
  \/ \E r \in Readers, l \in FirstLists, x \in Keys : LookupBegin(r, l, x)
  \/ \E r \in Readers : LookupStep(r)

Spec == Init /\ [][Next]_vars

-----------------------------------------------------------------------------
(* Properties.                                                             *)

\* A search walks an array that is still allocated, and no more entries than it
\* has, although setters replace and free arrays on other processors.
SearchInBounds ==
  \A r \in Readers : rpc[r] = "search" =>
    /\ rarr[r] # None
    /\ table[rarr[r]] # None
    /\ rcount[r] <= Length[table[rarr[r]]]

\* Every allocated array is in one place: installed in one list, or known to one
\* setter that will install or free it.  So no array leaks, none is freed twice,
\* and none is freed while it is installed.
ArrayHeldOnce ==
  LET Installed(a) == {l \in Lists : ptr[l] = a}
      Holders(a) == {w \in Writers : warr[w] = a}
  IN  /\ \A a \in Arrays : table[a] # None <=> Installed(a) \cup Holders(a) # {}
      /\ \A a \in Arrays : \A p, q \in Installed(a) \cup Holders(a) : p = q

\* The label that a notification carries is one of the labels its labelsid names:
\* the client dereferences the pointer when the labelsid is the current one.
LabelHasItsId ==
  \A r \in Readers : verdict[r].label = verdict[r].labelsid

\* The lists implement the store: a lookup answers, at one moment, from one
\* content of the allow list and one of the block list.
Content == [l \in Lists |-> IF ptr[l] = None THEN None ELSE table[ptr[l]]]

Asked ==
  [r \in Readers |-> IF rpc[r] \in {"acquire", "fetch", "search"} THEN rask[r] ELSE None]

Store == INSTANCE ListStore WITH content <- Content, asked <- Asked, answer <- verdict

StoreSpec == Store!Spec

=============================================================================
