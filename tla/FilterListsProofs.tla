------------------------- MODULE FilterListsProofs -------------------------
(***************************************************************************)
(* Theorems about FilterLists for any lists, locks, tables, arrays,        *)
(* writers and readers.  The inductive invariant IInv says what the fields *)
(* of a list agree on (Installed), who knows an array (Held), what a       *)
(* setter and a lookup have at each stage (Setting, Looking), that the two *)
(* exclude each other on one lock (SetterLocks, LookupLocks), and that no  *)
(* other thread has a lock (LocksHeldInside, in TypeOK).                   *)
(***************************************************************************)
EXTENDS FilterLists, TLAPS

SetterLocks(w) ==
  wpc[w] \in {"swap", "release"} => lock[LockOf[wlist[w]]] = w

LookupLocks(r) ==
  rpc[r] \in {"fetch", "search", "release"} => lock[LockOf[rlist[r]]] = r

Setting(w) ==
  /\ wpc[w] # "idle" => wlist[w] \in Lists
  /\ wpc[w] \in {"idle", "alloc"} => warr[w] = None
  /\ wpc[w] = "alloc" => wtable[w] # None
  /\ wpc[w] \in {"acquire", "swap"} =>
       IF wtable[w] = None THEN warr[w] = None
       ELSE warr[w] # None /\ table[warr[w]] = wtable[w]

Installed(l) ==
  IF ptr[l] = None
  THEN /\ count[l] = 0
       /\ l \in RangeLists => labelsid[l] = None
  ELSE /\ table[ptr[l]] # None
       /\ count[l] = Length[table[ptr[l]]]
       /\ l \in RangeLists => labelsid[l] = table[ptr[l]]

Held ==
  /\ \A l, m \in Lists : ptr[l] = ptr[m] => l = m \/ ptr[l] = None
  /\ \A v, w \in Writers : warr[v] = warr[w] => v = w \/ warr[v] = None
  /\ \A l \in Lists, w \in Writers : ptr[l] = warr[w] => ptr[l] = None
  /\ \A w \in Writers : warr[w] # None => table[warr[w]] # None
  /\ \A a \in Arrays : table[a] # None =>
       (\E l \in Lists : ptr[l] = a) \/ (\E w \in Writers : warr[w] = a)

\* What a list covers now.
Has(l, x) == ptr[l] # None /\ x \in Covers[table[ptr[l]]]

\* A lookup that has gone on to the second list has missed the first, and still would.
Looking(r) ==
  /\ rpc[r] # "idle" =>
       /\ rask[r] \in Questions
       /\ rlist[r] \in Lists
       /\ rlist[r] \in {rask[r].list, After[rask[r].list]}
  /\ rpc[r] = "acquire" => rlist[r] = rask[r].list
  /\ rpc[r] \in {"acquire", "fetch", "search"} => verdict[r] = NotFound
  /\ rpc[r] = "search" =>
       /\ rarr[r] # None
       /\ rarr[r] = ptr[rlist[r]]
       /\ rcount[r] = count[rlist[r]]
  /\ rpc[r] \in {"fetch", "search"} /\ rlist[r] # rask[r].list =>
       ~Has(rask[r].list, rask[r].key)

IInv ==
  /\ TypeOK
  /\ \A w \in Writers : SetterLocks(w) /\ Setting(w)
  /\ \A l \in Lists : Installed(l)
  /\ Held
  /\ \A r \in Readers : LookupLocks(r) /\ Looking(r)
  /\ LabelHasItsId

-----------------------------------------------------------------------------
(* Each action preserves the invariant.                                    *)

LEMMA SetBeginInv ==
  ASSUME IInv, NEW w \in Writers, NEW l \in Lists, NEW t \in Tables \cup {None}, SetBegin(w, l, t)
  PROVE  IInv'
<1> USE ListsAssumption DEF IInv, TypeOK, SetBegin, listVars, writerVars, readerVars, SetDone, Acquire, Release
<1>0. LocksHeldInside'
  BY DEF LocksHeldInside, HeldByWriter, HeldByReader, Setting, SetterLocks, Looking, LookupLocks, Missed
<1>1. TypeOK'
  BY <1>0 DEF Setting, Looking, Verdicts, Questions, NotFound, Missed, Labels, NewCount, OldArray, NewLabelsid
<1>2. ASSUME NEW v \in Writers
      PROVE  SetterLocks(v)'
  BY DEF SetterLocks, LookupLocks, Setting, Looking
<1>3. ASSUME NEW v \in Writers
      PROVE  Setting(v)'
  BY DEF Setting, Held
<1>4. ASSUME NEW m \in Lists
      PROVE  Installed(m)'
  BY DEF Setting, Installed, Held, NewCount, OldArray, NewLabelsid
<1>5. Held'
  BY DEF Setting, Installed, Held, OldArray
<1>6. ASSUME NEW q \in Readers
      PROVE  LookupLocks(q)'
  BY DEF SetterLocks, LookupLocks, Setting, Looking, Missed
<1>7. ASSUME NEW q \in Readers
      PROVE  Looking(q)'
  BY DEF Looking, Installed, Held, Has, Questions, NotFound, Missed, SetterLocks, LookupLocks, Setting, Covered
<1>8. LabelHasItsId'
  BY DEF LabelHasItsId, Looking, Installed, Labels, NotFound, Missed
<1> QED BY <1>1, <1>2, <1>3, <1>4, <1>5, <1>6, <1>7, <1>8 DEF IInv

LEMMA SetAllocInv ==
  ASSUME IInv, NEW w \in Writers, NEW a \in Arrays, SetAlloc(w, a)
  PROVE  IInv'
<1> USE ListsAssumption DEF IInv, TypeOK, SetAlloc, listVars, writerVars, readerVars, SetDone, Acquire, Release
<1>0. LocksHeldInside'
  BY DEF LocksHeldInside, HeldByWriter, HeldByReader, Setting, SetterLocks, Looking, LookupLocks, Missed
<1>1. TypeOK'
  BY <1>0 DEF Setting, Looking, Verdicts, Questions, NotFound, Missed, Labels, NewCount, OldArray, NewLabelsid
<1>2. ASSUME NEW v \in Writers
      PROVE  SetterLocks(v)'
  BY DEF SetterLocks, LookupLocks, Setting, Looking
<1>3. ASSUME NEW v \in Writers
      PROVE  Setting(v)'
  BY DEF Setting, Held
<1>4. ASSUME NEW m \in Lists
      PROVE  Installed(m)'
  BY DEF Setting, Installed, Held, NewCount, OldArray, NewLabelsid
<1>5. Held'
  BY DEF Setting, Installed, Held, OldArray
<1>6. ASSUME NEW q \in Readers
      PROVE  LookupLocks(q)'
  BY DEF SetterLocks, LookupLocks, Setting, Looking, Missed
<1>7. ASSUME NEW q \in Readers
      PROVE  Looking(q)'
  BY DEF Looking, Installed, Held, Has, Questions, NotFound, Missed, SetterLocks, LookupLocks, Setting, Covered
<1>8. LabelHasItsId'
  BY DEF LabelHasItsId, Looking, Installed, Labels, NotFound, Missed
<1> QED BY <1>1, <1>2, <1>3, <1>4, <1>5, <1>6, <1>7, <1>8 DEF IInv

LEMMA SetNoMemoryInv ==
  ASSUME IInv, NEW w \in Writers, SetNoMemory(w)
  PROVE  IInv'
<1> USE ListsAssumption DEF IInv, TypeOK, SetNoMemory, listVars, writerVars, readerVars, SetDone, Acquire, Release
<1>0. LocksHeldInside'
  BY DEF LocksHeldInside, HeldByWriter, HeldByReader, Setting, SetterLocks, Looking, LookupLocks, Missed
<1>1. TypeOK'
  BY <1>0 DEF Setting, Looking, Verdicts, Questions, NotFound, Missed, Labels, NewCount, OldArray, NewLabelsid
<1>2. ASSUME NEW v \in Writers
      PROVE  SetterLocks(v)'
  BY DEF SetterLocks, LookupLocks, Setting, Looking
<1>3. ASSUME NEW v \in Writers
      PROVE  Setting(v)'
  BY DEF Setting, Held
<1>4. ASSUME NEW m \in Lists
      PROVE  Installed(m)'
  BY DEF Setting, Installed, Held, NewCount, OldArray, NewLabelsid
<1>5. Held'
  <2>1. warr' = warr
    BY DEF Setting
  <2> QED BY <2>1 DEF Held
<1>6. ASSUME NEW q \in Readers
      PROVE  LookupLocks(q)'
  BY DEF SetterLocks, LookupLocks, Setting, Looking, Missed
<1>7. ASSUME NEW q \in Readers
      PROVE  Looking(q)'
  BY DEF Looking, Installed, Held, Has, Questions, NotFound, Missed, SetterLocks, LookupLocks, Setting, Covered
<1>8. LabelHasItsId'
  BY DEF LabelHasItsId, Looking, Installed, Labels, NotFound, Missed
<1> QED BY <1>1, <1>2, <1>3, <1>4, <1>5, <1>6, <1>7, <1>8 DEF IInv

LEMMA SetAcquireInv ==
  ASSUME IInv, NEW w \in Writers, SetAcquire(w)
  PROVE  IInv'
<1> USE ListsAssumption DEF IInv, TypeOK, SetAcquire, listVars, writerVars, readerVars, SetDone, Acquire, Release
<1>0. LocksHeldInside'
  BY DEF LocksHeldInside, HeldByWriter, HeldByReader, Setting, SetterLocks, Looking, LookupLocks, Missed
<1>1. TypeOK'
  BY <1>0 DEF Setting, Looking, Verdicts, Questions, NotFound, Missed, Labels, NewCount, OldArray, NewLabelsid
<1>2. ASSUME NEW v \in Writers
      PROVE  SetterLocks(v)'
  BY DEF SetterLocks, LookupLocks, Setting, Looking
<1>3. ASSUME NEW v \in Writers
      PROVE  Setting(v)'
  BY DEF Setting, Held
<1>4. ASSUME NEW m \in Lists
      PROVE  Installed(m)'
  BY DEF Setting, Installed, Held, NewCount, OldArray, NewLabelsid
<1>5. Held'
  BY DEF Setting, Installed, Held, OldArray
<1>6. ASSUME NEW q \in Readers
      PROVE  LookupLocks(q)'
  BY DEF SetterLocks, LookupLocks, Setting, Looking, Missed
<1>7. ASSUME NEW q \in Readers
      PROVE  Looking(q)'
  BY DEF Looking, Installed, Held, Has, Questions, NotFound, Missed, SetterLocks, LookupLocks, Setting, Covered
<1>8. LabelHasItsId'
  BY DEF LabelHasItsId, Looking, Installed, Labels, NotFound, Missed
<1> QED BY <1>1, <1>2, <1>3, <1>4, <1>5, <1>6, <1>7, <1>8 DEF IInv

LEMMA SetSwapInv ==
  ASSUME IInv, NEW w \in Writers, SetSwap(w)
  PROVE  IInv'
<1> USE ListsAssumption DEF IInv, TypeOK, SetSwap, listVars, writerVars, readerVars, SetDone, Acquire, Release
<1>0. LocksHeldInside'
  BY DEF LocksHeldInside, HeldByWriter, HeldByReader, Setting, SetterLocks, Looking, LookupLocks, Missed
<1>1. TypeOK'
  BY <1>0 DEF Setting, Looking, Verdicts, Questions, NotFound, Missed, Labels, NewCount, OldArray, NewLabelsid
<1>2. ASSUME NEW v \in Writers
      PROVE  SetterLocks(v)'
  BY DEF SetterLocks, LookupLocks, Setting, Looking
<1>3. ASSUME NEW v \in Writers
      PROVE  Setting(v)'
  BY DEF Setting, Held
<1>4. ASSUME NEW m \in Lists
      PROVE  Installed(m)'
  BY DEF Setting, Installed, Held, NewCount, OldArray, NewLabelsid
<1>5. Held'
  <2> DEFINE l == wlist[w]
  <2>1. l \in Lists /\ OldArray(l) = ptr[l]
    BY DEF Setting, Installed, OldArray
  <2>2. /\ ptr' = [ptr EXCEPT ![l] = warr[w]]
        /\ warr' = [warr EXCEPT ![w] = ptr[l]]
        /\ table' = table
    BY <2>1
  <2>3. warr[w] # None => table[warr[w]] # None
    BY DEF Held
  <2>4. ptr[l] # None => table[ptr[l]] # None
    BY <2>1 DEF Installed
  <2>5. ASSUME NEW a \in Arrays, table[a] # None
        PROVE  (\E m \in Lists : ptr'[m] = a) \/ (\E v \in Writers : warr'[v] = a)
    <3>1. CASE \E m \in Lists : ptr[m] = a
      BY <3>1, <2>1, <2>2
    <3>2. CASE \E v \in Writers : warr[v] = a
      BY <3>2, <2>1, <2>2
    <3> QED BY <2>5, <3>1, <3>2 DEF Held
  <2> HIDE DEF l
  <2>6. /\ \A m, n \in Lists : ptr'[m] = ptr'[n] => m = n \/ ptr'[m] = None
        /\ \A u, v \in Writers : warr'[u] = warr'[v] => u = v \/ warr'[u] = None
        /\ \A m \in Lists, v \in Writers : ptr'[m] = warr'[v] => ptr'[m] = None
    BY <2>1, <2>2 DEF Held
  <2>7. \A v \in Writers : warr'[v] # None => table'[warr'[v]] # None
    BY <2>1, <2>2, <2>4 DEF Held
  <2> QED BY <2>2, <2>5, <2>6, <2>7 DEF Held
<1>6. ASSUME NEW q \in Readers
      PROVE  LookupLocks(q)'
  BY DEF SetterLocks, LookupLocks, Setting, Looking, Missed
<1>7. ASSUME NEW q \in Readers
      PROVE  Looking(q)'
  <2>1. UNCHANGED <<rpc, rask, rlist, rarr, rcount, verdict, table>>
    OBVIOUS
  <2>2. wlist[w] \in Lists /\ lock[LockOf[wlist[w]]] = w
    BY DEF Setting, SetterLocks
  <2>3. \A m \in Lists : m # wlist[w] => ptr'[m] = ptr[m] /\ count'[m] = count[m]
    BY <2>2
  <2>4. CASE rpc[q] \in {"fetch", "search"}
    <3>1. rlist[q] \in Lists /\ lock[LockOf[rlist[q]]] = q
      BY <2>4 DEF Looking, LookupLocks
    <3>2. rask[q].list \in Lists /\ LockOf[rask[q].list] = LockOf[rlist[q]]
      BY <2>4 DEF Looking, Questions
    <3>3. rlist[q] # wlist[w] /\ rask[q].list # wlist[w]
      BY <2>2, <3>1, <3>2
    <3> QED BY <2>1, <2>3, <3>1, <3>2, <3>3 DEF Looking, Has
  <2>5. CASE rpc[q] \notin {"fetch", "search"}
    BY <2>1, <2>5 DEF Looking
  <2> QED BY <2>4, <2>5
<1>8. LabelHasItsId'
  BY DEF LabelHasItsId, Looking, Installed, Labels, NotFound, Missed
<1> QED BY <1>1, <1>2, <1>3, <1>4, <1>5, <1>6, <1>7, <1>8 DEF IInv

LEMMA SetReleaseInv ==
  ASSUME IInv, NEW w \in Writers, SetRelease(w)
  PROVE  IInv'
<1> USE ListsAssumption DEF IInv, TypeOK, SetRelease, listVars, writerVars, readerVars, SetDone, Acquire, Release
<1>0. LocksHeldInside'
  BY DEF LocksHeldInside, HeldByWriter, HeldByReader, Setting, SetterLocks, Looking, LookupLocks, Missed
<1>1. TypeOK'
  BY <1>0 DEF Setting, Looking, Verdicts, Questions, NotFound, Missed, Labels, NewCount, OldArray, NewLabelsid
<1>2. ASSUME NEW v \in Writers
      PROVE  SetterLocks(v)'
  BY DEF SetterLocks, LookupLocks, Setting, Looking
<1>3. ASSUME NEW v \in Writers
      PROVE  Setting(v)'
  BY DEF Setting, Held
<1>4. ASSUME NEW m \in Lists
      PROVE  Installed(m)'
  BY DEF Setting, Installed, Held, NewCount, OldArray, NewLabelsid
<1>5. Held'
  BY DEF Setting, Installed, Held, OldArray
<1>6. ASSUME NEW q \in Readers
      PROVE  LookupLocks(q)'
  BY DEF SetterLocks, LookupLocks, Setting, Looking, Missed
<1>7. ASSUME NEW q \in Readers
      PROVE  Looking(q)'
  BY DEF Looking, Installed, Held, Has, Questions, NotFound, Missed, SetterLocks, LookupLocks, Setting, Covered
<1>8. LabelHasItsId'
  BY DEF LabelHasItsId, Looking, Installed, Labels, NotFound, Missed
<1> QED BY <1>1, <1>2, <1>3, <1>4, <1>5, <1>6, <1>7, <1>8 DEF IInv

LEMMA SetFreeInv ==
  ASSUME IInv, NEW w \in Writers, SetFree(w)
  PROVE  IInv'
<1> USE ListsAssumption DEF IInv, TypeOK, SetFree, listVars, writerVars, readerVars, SetDone, Acquire, Release
<1>0. LocksHeldInside'
  BY DEF LocksHeldInside, HeldByWriter, HeldByReader, Setting, SetterLocks, Looking, LookupLocks, Missed
<1>1. TypeOK'
  BY <1>0 DEF Setting, Looking, Verdicts, Questions, NotFound, Missed, Labels, NewCount, OldArray, NewLabelsid
<1>2. ASSUME NEW v \in Writers
      PROVE  SetterLocks(v)'
  BY DEF SetterLocks, LookupLocks, Setting, Looking
<1>3. ASSUME NEW v \in Writers
      PROVE  Setting(v)'
  BY DEF Setting, Held
<1>4. ASSUME NEW m \in Lists
      PROVE  Installed(m)'
  BY DEF Setting, Installed, Held, NewCount, OldArray, NewLabelsid
<1>5. Held'
  BY DEF Setting, Installed, Held, OldArray
<1>6. ASSUME NEW q \in Readers
      PROVE  LookupLocks(q)'
  BY DEF SetterLocks, LookupLocks, Setting, Looking, Missed
<1>7. ASSUME NEW q \in Readers
      PROVE  Looking(q)'
  <2>1. UNCHANGED <<rpc, rask, rlist, rarr, rcount, verdict, ptr, count>>
    OBVIOUS
  <2>2. \A m \in Lists : ptr[m] # None => table'[ptr[m]] = table[ptr[m]]
    BY DEF Held
  <2>3. \A m \in Lists, x \in Keys : Has(m, x)' <=> Has(m, x)
    BY <2>1, <2>2 DEF Has
  <2>4. rpc[q] # "idle" => rask[q].list \in Lists /\ rask[q].key \in Keys
    BY DEF Looking, Questions
  <2> QED BY <2>1, <2>3, <2>4 DEF Looking
<1>8. LabelHasItsId'
  BY DEF LabelHasItsId, Looking, Installed, Labels, NotFound, Missed
<1> QED BY <1>1, <1>2, <1>3, <1>4, <1>5, <1>6, <1>7, <1>8 DEF IInv

LEMMA LookupBeginInv ==
  ASSUME IInv, NEW r \in Readers, NEW l \in Lists, NEW x \in Keys, LookupBegin(r, l, x)
  PROVE  IInv'
<1> USE ListsAssumption DEF IInv, TypeOK, LookupBegin, listVars, writerVars, readerVars, SetDone, Acquire, Release
<1>0. LocksHeldInside'
  BY DEF LocksHeldInside, HeldByWriter, HeldByReader, Setting, SetterLocks, Looking, LookupLocks, Missed
<1>1. TypeOK'
  BY <1>0 DEF Setting, Looking, Verdicts, Questions, NotFound, Missed, Labels, NewCount, OldArray, NewLabelsid
<1>2. ASSUME NEW v \in Writers
      PROVE  SetterLocks(v)'
  BY DEF SetterLocks, LookupLocks, Setting, Looking
<1>3. ASSUME NEW v \in Writers
      PROVE  Setting(v)'
  BY DEF Setting, Held
<1>4. ASSUME NEW m \in Lists
      PROVE  Installed(m)'
  BY DEF Setting, Installed, Held, NewCount, OldArray, NewLabelsid
<1>5. Held'
  BY DEF Setting, Installed, Held, OldArray
<1>6. ASSUME NEW q \in Readers
      PROVE  LookupLocks(q)'
  BY DEF SetterLocks, LookupLocks, Setting, Looking, Missed
<1>7. ASSUME NEW q \in Readers
      PROVE  Looking(q)'
  <2>1. CASE q = r
    <3>1. [list |-> l, key |-> x] \in Questions
      BY DEF Questions
    <3> QED BY <2>1, <3>1 DEF Looking
  <2>2. CASE q # r
    <3>1. UNCHANGED <<rpc[q], rask[q], rlist[q], rarr[q], rcount[q], verdict[q]>>
      BY <2>2
    <3> QED BY <3>1 DEF Looking, Has
  <2> QED BY <2>1, <2>2
<1>8. LabelHasItsId'
  BY DEF LabelHasItsId, Looking, Installed, Labels, NotFound, Missed
<1> QED BY <1>1, <1>2, <1>3, <1>4, <1>5, <1>6, <1>7, <1>8 DEF IInv

LEMMA LookupAcquireInv ==
  ASSUME IInv, NEW r \in Readers, LookupAcquire(r)
  PROVE  IInv'
<1> USE ListsAssumption DEF IInv, TypeOK, LookupAcquire, listVars, writerVars, readerVars, SetDone, Acquire, Release
<1>0. LocksHeldInside'
  BY DEF LocksHeldInside, HeldByWriter, HeldByReader, Setting, SetterLocks, Looking, LookupLocks, Missed
<1>1. TypeOK'
  BY <1>0 DEF Setting, Looking, Verdicts, Questions, NotFound, Missed, Labels, NewCount, OldArray, NewLabelsid
<1>2. ASSUME NEW v \in Writers
      PROVE  SetterLocks(v)'
  BY DEF SetterLocks, LookupLocks, Setting, Looking
<1>3. ASSUME NEW v \in Writers
      PROVE  Setting(v)'
  BY DEF Setting, Held
<1>4. ASSUME NEW m \in Lists
      PROVE  Installed(m)'
  BY DEF Setting, Installed, Held, NewCount, OldArray, NewLabelsid
<1>5. Held'
  BY DEF Setting, Installed, Held, OldArray
<1>6. ASSUME NEW q \in Readers
      PROVE  LookupLocks(q)'
  BY DEF SetterLocks, LookupLocks, Setting, Looking, Missed
<1>7. ASSUME NEW q \in Readers
      PROVE  Looking(q)'
  BY DEF Looking, Installed, Held, Has, Questions, NotFound, Missed, SetterLocks, LookupLocks, Setting, Covered
<1>8. LabelHasItsId'
  BY DEF LabelHasItsId, Looking, Installed, Labels, NotFound, Missed
<1> QED BY <1>1, <1>2, <1>3, <1>4, <1>5, <1>6, <1>7, <1>8 DEF IInv

LEMMA LookupFetchInv ==
  ASSUME IInv, NEW r \in Readers, LookupFetch(r)
  PROVE  IInv'
<1> USE ListsAssumption DEF IInv, TypeOK, LookupFetch, listVars, writerVars, readerVars, SetDone, Acquire, Release
<1>0. LocksHeldInside'
  BY DEF LocksHeldInside, HeldByWriter, HeldByReader, Setting, SetterLocks, Looking, LookupLocks, Missed
<1>1. TypeOK'
  BY <1>0 DEF Setting, Looking, Verdicts, Questions, NotFound, Missed, Labels, NewCount, OldArray, NewLabelsid
<1>2. ASSUME NEW v \in Writers
      PROVE  SetterLocks(v)'
  BY DEF SetterLocks, LookupLocks, Setting, Looking
<1>3. ASSUME NEW v \in Writers
      PROVE  Setting(v)'
  BY DEF Setting, Held
<1>4. ASSUME NEW m \in Lists
      PROVE  Installed(m)'
  BY DEF Setting, Installed, Held, NewCount, OldArray, NewLabelsid
<1>5. Held'
  BY DEF Setting, Installed, Held, OldArray
<1>6. ASSUME NEW q \in Readers
      PROVE  LookupLocks(q)'
  BY DEF SetterLocks, LookupLocks, Setting, Looking, Missed
<1>7. ASSUME NEW q \in Readers
      PROVE  Looking(q)'
  BY DEF Looking, Installed, Held, Has, Questions, NotFound, Missed, SetterLocks, LookupLocks, Setting, Covered
<1>8. LabelHasItsId'
  BY DEF LabelHasItsId, Looking, Installed, Labels, NotFound, Missed
<1> QED BY <1>1, <1>2, <1>3, <1>4, <1>5, <1>6, <1>7, <1>8 DEF IInv

LEMMA LookupSkipInv ==
  ASSUME IInv, NEW r \in Readers, LookupSkip(r)
  PROVE  IInv'
<1> USE ListsAssumption DEF IInv, TypeOK, LookupSkip, listVars, writerVars, readerVars, SetDone, Acquire, Release
<1>0. LocksHeldInside'
  BY DEF LocksHeldInside, HeldByWriter, HeldByReader, Setting, SetterLocks, Looking, LookupLocks, Missed
<1>1. TypeOK'
  BY <1>0 DEF Setting, Looking, Verdicts, Questions, NotFound, Missed, Labels, NewCount, OldArray, NewLabelsid
<1>2. ASSUME NEW v \in Writers
      PROVE  SetterLocks(v)'
  BY DEF SetterLocks, LookupLocks, Setting, Looking
<1>3. ASSUME NEW v \in Writers
      PROVE  Setting(v)'
  BY DEF Setting, Held
<1>4. ASSUME NEW m \in Lists
      PROVE  Installed(m)'
  BY DEF Setting, Installed, Held, NewCount, OldArray, NewLabelsid
<1>5. Held'
  BY DEF Setting, Installed, Held, OldArray
<1>6. ASSUME NEW q \in Readers
      PROVE  LookupLocks(q)'
  BY DEF SetterLocks, LookupLocks, Setting, Looking, Missed
<1>7. ASSUME NEW q \in Readers
      PROVE  Looking(q)'
  BY DEF Looking, Installed, Held, Has, Questions, NotFound, Missed, SetterLocks, LookupLocks, Setting, Covered
<1>8. LabelHasItsId'
  BY DEF LabelHasItsId, Looking, Installed, Labels, NotFound, Missed
<1> QED BY <1>1, <1>2, <1>3, <1>4, <1>5, <1>6, <1>7, <1>8 DEF IInv

LEMMA LookupMissInv ==
  ASSUME IInv, NEW r \in Readers, LookupMiss(r)
  PROVE  IInv'
<1> USE ListsAssumption DEF IInv, TypeOK, LookupMiss, listVars, writerVars, readerVars, SetDone, Acquire, Release
<1>0. LocksHeldInside'
  BY DEF LocksHeldInside, HeldByWriter, HeldByReader, Setting, SetterLocks, Looking, LookupLocks, Missed
<1>1. TypeOK'
  BY <1>0 DEF Setting, Looking, Verdicts, Questions, NotFound, Missed, Labels, NewCount, OldArray, NewLabelsid
<1>2. ASSUME NEW v \in Writers
      PROVE  SetterLocks(v)'
  BY DEF SetterLocks, LookupLocks, Setting, Looking
<1>3. ASSUME NEW v \in Writers
      PROVE  Setting(v)'
  BY DEF Setting, Held
<1>4. ASSUME NEW m \in Lists
      PROVE  Installed(m)'
  BY DEF Setting, Installed, Held, NewCount, OldArray, NewLabelsid
<1>5. Held'
  BY DEF Setting, Installed, Held, OldArray
<1>6. ASSUME NEW q \in Readers
      PROVE  LookupLocks(q)'
  BY DEF SetterLocks, LookupLocks, Setting, Looking, Missed
<1>7. ASSUME NEW q \in Readers
      PROVE  Looking(q)'
  BY DEF Looking, Installed, Held, Has, Questions, NotFound, Missed, SetterLocks, LookupLocks, Setting, Covered
<1>8. LabelHasItsId'
  BY DEF LabelHasItsId, Looking, Installed, Labels, NotFound, Missed
<1> QED BY <1>1, <1>2, <1>3, <1>4, <1>5, <1>6, <1>7, <1>8 DEF IInv

LEMMA LookupHitInv ==
  ASSUME IInv, NEW r \in Readers, LookupHit(r)
  PROVE  IInv'
<1> USE ListsAssumption DEF IInv, TypeOK, LookupHit, listVars, writerVars, readerVars, SetDone, Acquire, Release
<1>0. LocksHeldInside'
  BY DEF LocksHeldInside, HeldByWriter, HeldByReader, Setting, SetterLocks, Looking, LookupLocks, Missed
<1>1. TypeOK'
  BY <1>0 DEF Setting, Looking, Verdicts, Questions, NotFound, Missed, Labels, NewCount, OldArray, NewLabelsid
<1>2. ASSUME NEW v \in Writers
      PROVE  SetterLocks(v)'
  BY DEF SetterLocks, LookupLocks, Setting, Looking
<1>3. ASSUME NEW v \in Writers
      PROVE  Setting(v)'
  BY DEF Setting, Held
<1>4. ASSUME NEW m \in Lists
      PROVE  Installed(m)'
  BY DEF Setting, Installed, Held, NewCount, OldArray, NewLabelsid
<1>5. Held'
  BY DEF Setting, Installed, Held, OldArray
<1>6. ASSUME NEW q \in Readers
      PROVE  LookupLocks(q)'
  BY DEF SetterLocks, LookupLocks, Setting, Looking, Missed
<1>7. ASSUME NEW q \in Readers
      PROVE  Looking(q)'
  BY DEF Looking, Installed, Held, Has, Questions, NotFound, Missed, SetterLocks, LookupLocks, Setting, Covered
<1>8. LabelHasItsId'
  BY DEF LabelHasItsId, Looking, Installed, Labels, NotFound, Missed
<1> QED BY <1>1, <1>2, <1>3, <1>4, <1>5, <1>6, <1>7, <1>8 DEF IInv

LEMMA LookupReleaseInv ==
  ASSUME IInv, NEW r \in Readers, LookupRelease(r)
  PROVE  IInv'
<1> USE ListsAssumption DEF IInv, TypeOK, LookupRelease, listVars, writerVars, readerVars, SetDone, Acquire, Release
<1>0. LocksHeldInside'
  BY DEF LocksHeldInside, HeldByWriter, HeldByReader, Setting, SetterLocks, Looking, LookupLocks, Missed
<1>1. TypeOK'
  BY <1>0 DEF Setting, Looking, Verdicts, Questions, NotFound, Missed, Labels, NewCount, OldArray, NewLabelsid
<1>2. ASSUME NEW v \in Writers
      PROVE  SetterLocks(v)'
  BY DEF SetterLocks, LookupLocks, Setting, Looking
<1>3. ASSUME NEW v \in Writers
      PROVE  Setting(v)'
  BY DEF Setting, Held
<1>4. ASSUME NEW m \in Lists
      PROVE  Installed(m)'
  BY DEF Setting, Installed, Held, NewCount, OldArray, NewLabelsid
<1>5. Held'
  BY DEF Setting, Installed, Held, OldArray
<1>6. ASSUME NEW q \in Readers
      PROVE  LookupLocks(q)'
  BY DEF SetterLocks, LookupLocks, Setting, Looking, Missed
<1>7. ASSUME NEW q \in Readers
      PROVE  Looking(q)'
  <2>1. CASE q = r
    BY <2>1 DEF Looking
  <2>2. CASE q # r
    <3>1. UNCHANGED <<rpc[q], rask[q], rlist[q], rarr[q], rcount[q], verdict[q]>>
      BY <2>2
    <3> QED BY <3>1 DEF Looking, Has
  <2> QED BY <2>1, <2>2
<1>8. LabelHasItsId'
  BY DEF LabelHasItsId, Looking, Installed, Labels, NotFound, Missed
<1> QED BY <1>1, <1>2, <1>3, <1>4, <1>5, <1>6, <1>7, <1>8 DEF IInv

LEMMA NextInv == IInv /\ [Next]_vars => IInv'
<1> SUFFICES ASSUME IInv, [Next]_vars PROVE IInv'
  OBVIOUS
<1>1. ASSUME NEW w \in Writers, SetStep(w)
      PROVE  IInv'
  BY <1>1, SetAllocInv, SetNoMemoryInv, SetAcquireInv, SetSwapInv, SetReleaseInv, SetFreeInv
     DEF SetStep
<1>2. ASSUME NEW r \in Readers, LookupStep(r)
      PROVE  IInv'
  BY <1>2, LookupAcquireInv, LookupFetchInv, LookupSkipInv, LookupMissInv, LookupHitInv,
     LookupReleaseInv DEF LookupStep
<1>3. CASE UNCHANGED vars
  BY <1>3 DEF IInv, TypeOK, LocksHeldInside, HeldByWriter, HeldByReader, SetterLocks, LookupLocks,
              Setting, Installed, Held, Has, Looking, LabelHasItsId, vars, listVars, writerVars, readerVars
<1> QED BY <1>1, <1>2, <1>3, SetBeginInv, LookupBeginInv DEF Next, FirstLists

-----------------------------------------------------------------------------
(* The properties of the module.                                           *)

\* What setters and lookups keep, whoever runs at the same time: IInv holds always.
THEOREM ListsInvariant == Spec => []IInv
<1>1. Init => IInv
  BY ListsAssumption
     DEF Init, IInv, TypeOK, LocksHeldInside, SetterLocks, LookupLocks, Setting, Installed, Held,
         Looking, LabelHasItsId, NotFound, Verdicts
<1> QED BY <1>1, NextInv, PTL DEF Spec

\* Every variable of the lists keeps its type, and a spin lock that is held is held by one
\* thread inside its critical section (TypeOK): no path of a setter or of a lookup, hit or
\* miss, returns without the release.
THEOREM ListsTyping == Spec => []TypeOK
<1>1. IInv => TypeOK
  BY DEF IInv
<1> QED BY <1>1, ListsInvariant, PTL

\* A search never walks a freed array nor past its end (SearchInBounds).
THEOREM SearchesStayInBounds == Spec => []SearchInBounds
<1>1. IInv => SearchInBounds
  <2> SUFFICES ASSUME IInv, NEW r \in Readers, rpc[r] = "search"
               PROVE  /\ rarr[r] # None
                      /\ table[rarr[r]] # None
                      /\ rcount[r] <= Length[table[rarr[r]]]
    BY DEF SearchInBounds
  <2>1. /\ rlist[r] \in Lists /\ rarr[r] # None
        /\ rarr[r] = ptr[rlist[r]] /\ rcount[r] = count[rlist[r]]
    BY DEF IInv, Looking
  <2>2. table[rarr[r]] # None /\ rcount[r] = Length[table[rarr[r]]]
    BY <2>1 DEF IInv, Installed
  <2>3. rcount[r] \in Nat
    BY DEF IInv, TypeOK
  <2> QED BY <2>1, <2>2, <2>3
<1> QED BY <1>1, ListsInvariant, PTL

\* No array leaks, is freed twice, or is freed while it is installed (ArrayHeldOnce).
THEOREM ArraysHeldOnce == Spec => []ArrayHeldOnce
<1>1. IInv => ArrayHeldOnce
  BY ListsAssumption DEF IInv, TypeOK, Held, Installed, ArrayHeldOnce
<1> QED BY <1>1, ListsInvariant, PTL

\* The label and the labelsid of a notification belong together (LabelHasItsId).
THEOREM LabelsHaveTheirId == Spec => []LabelHasItsId
<1>1. IInv => LabelHasItsId
  BY DEF IInv
<1> QED BY <1>1, ListsInvariant, PTL

-----------------------------------------------------------------------------
(* The lists implement the store.                                          *)

\* What a reader waits for and what it has, when its own fields do not change.
LEMMA UnchangedReaders ==
  ASSUME IInv, UNCHANGED <<rpc, rask, verdict>>
  PROVE  UNCHANGED <<Asked, verdict>>
BY DEF Asked

\* A content changes with the swap, and neither with the copy into the new array
\* nor with the release of the old one.
LEMMA SetterSteps ==
  ASSUME IInv, NEW w \in Writers
  PROVE  /\ SetAlloc(w, warr'[w]) \/ SetFree(w) => UNCHANGED Store!vars
         /\ SetSwap(w) => Store!Replace(wlist[w], wtable[w])
<1> USE ListsAssumption DEF IInv, TypeOK
<1>1. ASSUME SetAlloc(w, warr'[w])
      PROVE  UNCHANGED Store!vars
  <2>1. \A m \in Lists : ptr[m] # None => table'[ptr[m]] = table[ptr[m]]
    BY <1>1 DEF SetAlloc, Installed
  <2>2. ptr' = ptr
    BY <1>1 DEF SetAlloc, listVars
  <2>3. Content' = Content
    BY <2>1, <2>2 DEF Content
  <2> QED BY <1>1, <2>3, UnchangedReaders DEF SetAlloc, readerVars, Store!vars
<1>2. ASSUME SetFree(w)
      PROVE  UNCHANGED Store!vars
  <2>1. \A m \in Lists : ptr[m] # None => table'[ptr[m]] = table[ptr[m]]
    BY <1>2 DEF SetFree, Held
  <2>2. ptr' = ptr
    BY <1>2 DEF SetFree, listVars
  <2>3. Content' = Content
    BY <2>1, <2>2 DEF Content
  <2> QED BY <1>2, <2>3, UnchangedReaders DEF SetFree, readerVars, Store!vars
<1>3. ASSUME SetSwap(w)
      PROVE  Store!Replace(wlist[w], wtable[w])
  <2>1. wlist[w] \in Lists
    BY <1>3 DEF SetSwap, Setting
  <2>2. wtable[w] = IF warr[w] = None THEN None ELSE table[warr[w]]
    BY <1>3 DEF SetSwap, Setting
  <2>3. ptr' = [ptr EXCEPT ![wlist[w]] = warr[w]] /\ table' = table
    BY <1>3 DEF SetSwap
  <2>4. Content' = [Content EXCEPT ![wlist[w]] = wtable[w]]
    BY <2>1, <2>2, <2>3 DEF Content
  <2> QED BY <1>3, <2>4, UnchangedReaders DEF SetSwap, readerVars, Store!Replace
<1> QED BY <1>1, <1>2, <1>3

\* A lookup answers with its hit, or with the miss of the last list it searches.
LEMMA LookupSteps ==
  ASSUME IInv, NEW r \in Readers
  PROVE  /\ \A l \in Lists, x \in Keys : LookupBegin(r, l, x) => Store!Ask(r, l, x)
         /\ LookupAcquire(r) \/ LookupFetch(r) \/ LookupRelease(r) => UNCHANGED Store!vars
         /\ LookupSkip(r) \/ LookupMiss(r) => Store!Answer(r) \/ UNCHANGED Store!vars
         /\ LookupHit(r) => Store!Answer(r)
<1> USE ListsAssumption DEF IInv, TypeOK, listVars
<1>1. ASSUME NEW l \in Lists, NEW x \in Keys, LookupBegin(r, l, x)
      PROVE  Store!Ask(r, l, x)
  <2>1. Content' = Content
    BY <1>1 DEF LookupBegin, Content
  <2>2. Asked[r] = None
    BY <1>1 DEF LookupBegin, Asked
  <2>3. Asked' = [Asked EXCEPT ![r] = [list |-> l, key |-> x]]
    BY <1>1 DEF LookupBegin, Asked
  <2> QED BY <1>1, <2>1, <2>2, <2>3 DEF LookupBegin, Store!Ask, NotFound, Store!NotFound
<1>2. ASSUME LookupAcquire(r) \/ LookupFetch(r) \/ LookupRelease(r)
      PROVE  UNCHANGED Store!vars
  <2>1. Content' = Content /\ verdict' = verdict
    BY <1>2 DEF LookupAcquire, LookupFetch, LookupRelease, Content
  <2>2. Asked' = Asked
    BY <1>2 DEF LookupAcquire, LookupFetch, LookupRelease, Asked
  <2> QED BY <2>1, <2>2 DEF Store!vars
<1>3. ASSUME LookupSkip(r) \/ LookupMiss(r)
      PROVE  Store!Answer(r) \/ UNCHANGED Store!vars
  <2>1. Content' = Content /\ verdict' = verdict /\ verdict[r] = NotFound
    BY <1>3 DEF LookupSkip, LookupMiss, Content, Looking
  <2>2. /\ rpc[r] \in {"fetch", "search"}
        /\ rask[r] \in Questions /\ rask[r].list \in Lists /\ rlist[r] \in Lists
        /\ rlist[r] \in {rask[r].list, After[rask[r].list]}
    BY <1>3 DEF LookupSkip, LookupMiss, Looking, Questions
  <2>3. ~Store!Hit(rlist[r], rask[r].key)
    BY <1>3, <2>2 DEF LookupSkip, LookupMiss, Covered, Looking, Installed, Store!Hit, Content
  <2>4. rlist[r] # rask[r].list => ~Store!Hit(rask[r].list, rask[r].key)
    BY <2>2 DEF Looking, Has, Store!Hit, Content
  <2>5. CASE After[rlist[r]] = None
    <3>1. Asked[r] = rask[r] /\ Asked[r] # None
      BY <2>2 DEF Asked, Questions
    <3>2. Asked' = [Asked EXCEPT ![r] = None]
      BY <1>3, <2>5 DEF LookupSkip, LookupMiss, Missed, Asked
    <3>3. Store!Decision(rask[r].list, rask[r].key) = NotFound
      BY <2>2, <2>3, <2>4, <2>5 DEF Store!Decision, NotFound, Store!NotFound
    <3>4. verdict' = [verdict EXCEPT ![r] = NotFound]
      BY <2>1
    <3> QED BY <2>1, <3>1, <3>2, <3>3, <3>4 DEF Store!Answer
  <2>6. CASE After[rlist[r]] # None
    <3>1. Asked' = Asked
      BY <1>3, <2>2, <2>6 DEF LookupSkip, LookupMiss, Missed, Asked
    <3> QED BY <2>1, <3>1 DEF Store!vars
  <2> QED BY <2>5, <2>6
<1>4. ASSUME LookupHit(r)
      PROVE  Store!Answer(r)
  <2>1. Content' = Content
    BY <1>4 DEF LookupHit, Content
  <2>2. /\ rpc[r] = "search"
        /\ rask[r] \in Questions /\ rask[r].list \in Lists /\ rlist[r] \in Lists
        /\ rlist[r] \in {rask[r].list, After[rask[r].list]}
    BY <1>4 DEF LookupHit, Looking, Questions
  <2>3. rarr[r] # None /\ rarr[r] = ptr[rlist[r]] /\ Content[rlist[r]] = table[rarr[r]]
    BY <2>2 DEF Looking, Content
  <2>4. Store!Hit(rlist[r], rask[r].key)
    BY <1>4, <2>2, <2>3 DEF LookupHit, Covered, Store!Hit
  <2>5. rlist[r] # rask[r].list => ~Store!Hit(rask[r].list, rask[r].key)
    BY <2>2 DEF Looking, Has, Store!Hit, Content
  <2>6. Store!Decision(rask[r].list, rask[r].key) = Store!Found(rlist[r])
    BY <2>2, <2>4, <2>5 DEF Store!Decision
  <2>7. Store!Found(rlist[r]) = Labels(r)
    BY <2>2, <2>3 DEF Store!Found, Labels, Installed
  <2>8. Asked[r] = rask[r] /\ Asked[r] # None /\ Asked' = [Asked EXCEPT ![r] = None]
    BY <1>4, <2>2 DEF LookupHit, Asked, Questions
  <2> QED BY <1>4, <2>1, <2>6, <2>7, <2>8 DEF LookupHit, Store!Answer
<1> QED BY <1>1, <1>2, <1>3, <1>4

LEMMA NextImplementsStore == IInv /\ [Next]_vars => [Store!Next]_Store!vars
<1> SUFFICES ASSUME IInv, [Next]_vars PROVE [Store!Next]_Store!vars
  OBVIOUS
<1>1. ASSUME NEW w \in Writers, SetStep(w)
      PROVE  [Store!Next]_Store!vars
  <2>1. ASSUME NEW a \in Arrays, SetAlloc(w, a)
        PROVE  UNCHANGED Store!vars
    <3>1. a = warr'[w]
      BY <2>1 DEF SetAlloc, IInv, TypeOK
    <3> QED BY <2>1, <3>1, SetterSteps
  <2>2. ASSUME SetSwap(w)
        PROVE  Store!Next
    <3>1. wlist[w] \in Lists /\ wtable[w] \in Tables \cup {None}
      BY <2>2 DEF SetSwap, IInv, TypeOK, Setting
    <3> QED BY <2>2, <3>1, SetterSteps DEF Store!Next
  <2>3. ASSUME SetNoMemory(w) \/ SetAcquire(w) \/ SetRelease(w)
        PROVE  UNCHANGED Store!vars
    <3>1. Content' = Content
      BY <2>3 DEF SetNoMemory, SetAcquire, SetRelease, Content, listVars
    <3> QED BY <2>3, <3>1, UnchangedReaders
            DEF SetNoMemory, SetAcquire, SetRelease, readerVars, Store!vars
  <2> QED BY <1>1, <2>1, <2>2, <2>3, SetterSteps DEF SetStep
<1>2. ASSUME NEW r \in Readers, LookupStep(r)
      PROVE  [Store!Next]_Store!vars
  BY <1>2, LookupSteps DEF LookupStep, Store!Next
<1>3. ASSUME NEW w \in Writers, NEW l \in Lists, NEW t \in Tables \cup {None},
             SetBegin(w, l, t)
      PROVE  UNCHANGED Store!vars
  <2>1. Content' = Content
    BY <1>3 DEF SetBegin, Content, listVars
  <2> QED BY <1>3, <2>1, UnchangedReaders DEF SetBegin, readerVars, Store!vars
<1>4. ASSUME NEW r \in Readers, NEW l \in FirstLists, NEW x \in Keys, LookupBegin(r, l, x)
      PROVE  Store!Next
  BY <1>4, LookupSteps DEF FirstLists, Store!Next
<1>5. CASE UNCHANGED vars
  <2>1. Content' = Content
    BY <1>5 DEF vars, listVars, Content
  <2> QED BY <1>5, <2>1, UnchangedReaders DEF vars, readerVars, Store!vars
<1> QED BY <1>1, <1>2, <1>3, <1>4, <1>5 DEF Next

\* The lists implement the store: every lookup answers as if it had searched the
\* allow list and the block list in one instant, whatever setters do.
THEOREM ListsImplementStore == Spec => StoreSpec
<1>1. Init => Store!Init
  BY DEF Init, Store!Init, Content, Asked, NotFound, Store!NotFound
<1> QED BY <1>1, NextImplementsStore, ListsInvariant, PTL DEF Spec, StoreSpec, Store!Spec

=============================================================================
