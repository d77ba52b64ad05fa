------------------------- MODULE NotifyQueueProofs -------------------------
(***************************************************************************)
(* Theorems about NotifyQueue for any number of senders, requests and      *)
(* notes and for any capacity.  The inductive invariant IInv joins the     *)
(* properties of the module with what a thread holds at each stage         *)
(* (Holding) and with the count behind BoundedOvertaking (OvertakeCount).  *)
(* No request that was taken or cancelled is forgotten, and the queue      *)
(* implements the abstract channel.                                        *)
(***************************************************************************)
EXTENDS NotifyQueue, SequenceTheorems, FiniteSetTheorems, TLAPS

-----------------------------------------------------------------------------
(* Sequences without duplicates.                                           *)

\* The cancel-safe queue removes one request and keeps the others in order.
LEMMA RemoveAtElements ==
  ASSUME NEW S, NEW q \in Seq(S), NEW k \in DOMAIN q, IsInjective(q)
  PROVE  /\ RemoveAt(q, k) \in Seq(S)
         /\ IsInjective(RemoveAt(q, k))
         /\ Range(RemoveAt(q, k)) = Range(q) \ {q[k]}
<1> DEFINE a == SubSeq(q, 1, k - 1)
           b == SubSeq(q, k + 1, Len(q))
           r == RemoveAt(q, k)
<1>0. k \in 1..Len(q) /\ DOMAIN q = 1..Len(q)
  OBVIOUS
<1>1. a \in Seq(S) /\ Len(a) = k - 1 /\ \A j \in 1..(k - 1) : a[j] = q[j]
  BY <1>0
<1>2. b \in Seq(S) /\ Len(b) = Len(q) - k /\ \A j \in 1..(Len(q) - k) : b[j] = q[k + j]
  BY <1>0
<1>3. r = a \o b
  BY DEF RemoveAt
<1> HIDE DEF a, b, r
<1>4. /\ r \in Seq(S)
      /\ Len(r) = Len(a) + Len(b)
      /\ \A j \in 1..(Len(a) + Len(b)) :
           r[j] = IF j <= Len(a) THEN a[j] ELSE b[j - Len(a)]
  BY <1>1, <1>2, <1>3, ConcatProperties
<1>5. Len(r) = Len(q) - 1
  BY <1>0, <1>1, <1>2, <1>4
<1>a. ASSUME NEW j \in 1..(Len(q) - 1)
      PROVE  r[j] = IF j < k THEN q[j] ELSE q[j + 1]
  <2>1. CASE j < k
    BY <2>1, <1>0, <1>1, <1>2, <1>4
  <2>2. CASE j >= k
    <3>1. j - (k - 1) \in 1..(Len(q) - k) /\ k + (j - (k - 1)) = j + 1
      BY <2>2, <1>0
    <3>2. r[j] = b[j - (k - 1)]
      BY <2>2, <1>0, <1>1, <1>2, <1>4
    <3>3. b[j - (k - 1)] = q[k + (j - (k - 1))]
      BY <3>1, <1>2
    <3> QED BY <2>2, <3>1, <3>2, <3>3
  <2> QED BY <2>1, <2>2, <1>0
<1>b. DOMAIN r = 1..(Len(q) - 1)
  BY <1>4, <1>5
<1>6. IsInjective(r)
  BY <1>0, <1>a, <1>b DEF IsInjective
<1>7. Range(r) \subseteq Range(q) \ {q[k]}
  BY <1>0, <1>a, <1>b DEF IsInjective, Range
<1>8. ASSUME NEW j \in DOMAIN q, j # k
      PROVE  q[j] \in Range(r)
  <2>1. CASE j < k
    BY <2>1, <1>0, <1>a, <1>b DEF Range
  <2>2. CASE j > k
    <3>1. j - 1 \in 1..(Len(q) - 1) /\ r[j - 1] = q[j]
      BY <2>2, <1>0, <1>a
    <3> QED BY <3>1, <1>b DEF Range
  <2> QED BY <1>0, <1>8, <2>1, <2>2
<1> QED BY <1>4, <1>6, <1>7, <1>8 DEF r, Range

\* A new element at the end.
LEMMA AppendElements ==
  ASSUME NEW S, NEW q \in Seq(S), NEW e \in S, IsInjective(q), e \notin Range(q)
  PROVE  /\ Append(q, e) \in Seq(S)
         /\ Len(Append(q, e)) = Len(q) + 1
         /\ IsInjective(Append(q, e))
         /\ Range(Append(q, e)) = Range(q) \cup {e}
<1> DEFINE r == Append(q, e)
<1>1. r \in Seq(S) /\ Len(r) = Len(q) + 1 /\ DOMAIN q = 1..Len(q)
  OBVIOUS
<1>2. (\A j \in 1..Len(q) : r[j] = q[j]) /\ r[Len(q) + 1] = e
  OBVIOUS
<1> HIDE DEF r
<1>3. IsInjective(r)
  BY <1>1, <1>2 DEF IsInjective, Range
<1>4. Range(r) = Range(q) \cup {e}
  BY <1>1, <1>2 DEF Range
<1> QED BY <1>1, <1>3, <1>4 DEF r

\* The first element leaves.
LEMMA TailElements ==
  ASSUME NEW S, NEW q \in Seq(S), q # <<>>, IsInjective(q)
  PROVE  /\ Head(q) \in Range(q) /\ Head(q) \in S
         /\ Tail(q) \in Seq(S)
         /\ Len(q) \in Nat \ {0}
         /\ Len(Tail(q)) = Len(q) - 1
         /\ IsInjective(Tail(q))
         /\ Range(Tail(q)) = Range(q) \ {Head(q)}
<1> DEFINE r == Tail(q)
<1>1. /\ r \in Seq(S) /\ Len(r) = Len(q) - 1 /\ DOMAIN q = 1..Len(q)
      /\ Len(q) \in Nat \ {0} /\ Head(q) = q[1] /\ Head(q) \in S
  OBVIOUS
<1>2. \A j \in 1..(Len(q) - 1) : r[j] = q[j + 1]
  OBVIOUS
<1> HIDE DEF r
<1>3. IsInjective(r)
  BY <1>1, <1>2 DEF IsInjective
<1>4. Range(r) \subseteq Range(q) \ {q[1]}
  BY <1>1, <1>2 DEF IsInjective, Range
<1>5. ASSUME NEW j \in DOMAIN q, j # 1
      PROVE  q[j] \in Range(r)
  <2>1. j - 1 \in 1..(Len(q) - 1) /\ r[j - 1] = q[j]
    BY <1>1, <1>2, <1>5
  <2> QED BY <2>1, <1>1 DEF Range
<1>6. q[1] \in Range(q)
  BY <1>1 DEF Range
<1> QED BY <1>1, <1>3, <1>4, <1>5, <1>6 DEF r, Range

LEMMA EmptyElements ==
  Range(<<>>) = {} /\ IsInjective(<<>>) /\ Len(<<>>) = 0
  BY DEF Range, IsInjective

-----------------------------------------------------------------------------
(* The inductive invariant.                                                *)

\* What a thread holds at each of its stages, and which buffers are filled.
Holding ==
  /\ \A s \in Senders :
       /\ spc[s] = "idle" <=> snote[s] = None
       /\ spc[s] = "complete" <=> sirp[s] # None
  /\ rpc = "complete" <=> rirp # None
  /\ \A i \in Irps : buffer[i] # None => irp[i] = "success"

\* The requests that may still be handed a note ahead of the stored ones.
Ahead == {i \in Irps : irp[i] \in {"insert", "listed"}}

\* Every newer note that overtook a stored one used up such a request.
OvertakeCount ==
  /\ \A n \in Stored : overtaken[n] + Cardinality(Ahead) <= Cardinality(Irps)
  /\ \A n \in Notes \ Stored : overtaken[n] = 0

IInv ==
  /\ TypeOK
  /\ QueueBounded
  /\ IrpHeldOnce
  /\ NoteHeldOnce
  /\ Holding
  /\ OvertakeCount

LEMMA InitIInv == QueueInit => IInv
<1> SUFFICES ASSUME QueueInit PROVE IInv
  OBVIOUS
<1> USE QueueAssumption DEF QueueInit
<1>1. TypeOK
  BY DEF TypeOK, IrpStage
<1>2. Stored = {} /\ InFlight = {} /\ InBuffers = {}
  BY EmptyElements DEF Stored, InFlight, InBuffers
<1>3. QueueBounded
  BY EmptyElements DEF QueueBounded
<1>4. IrpHeldOnce
  BY EmptyElements DEF IrpHeldOnce
<1>5. NoteHeldOnce
  BY <1>2, EmptyElements DEF NoteHeldOnce
<1>6. Holding
  BY DEF Holding
<1>7. OvertakeCount
  BY <1>2 DEF OvertakeCount
<1> QED BY <1>1, <1>3, <1>4, <1>5, <1>6, <1>7 DEF IInv

-----------------------------------------------------------------------------
(* Notification_Send keeps the invariant.                                  *)

LEMMA SendBeginInv ==
  ASSUME IInv, NEW s \in Senders, NEW n \in Notes, SendBegin(s, n)
  PROVE  IInv'
<1> USE QueueAssumption
    DEF IInv, SendBegin, csqVars, listVars, irpVars, resetVars, TypeOK
<1>1. TypeOK'
  OBVIOUS
<1>2. /\ Stored' = Stored /\ InBuffers' = InBuffers
      /\ InFlight' = InFlight \cup {n}
  BY DEF Stored, InFlight, InBuffers, Holding
<1>3. QueueBounded'
  BY DEF QueueBounded
<1>4. IrpHeldOnce'
  BY DEF IrpHeldOnce
<1>5. NoteHeldOnce'
  BY <1>2 DEF NoteHeldOnce, InFlight
<1>6. Holding'
  BY DEF Holding
<1>7. OvertakeCount'
  BY <1>2 DEF OvertakeCount, Ahead
<1> QED BY <1>1, <1>3, <1>4, <1>5, <1>6, <1>7

\* A request leaves the parked ones for a thread that completes it.
LEMMA TakeIrpFacts ==
  ASSUME IInv, NEW k \in DOMAIN irp_list, TakeIrp(k),
         irp' = [irp EXCEPT ![irp_list[k]] = "taken"]
  PROVE  /\ irp_list[k] \in Irps /\ irp[irp_list[k]] = "listed"
         /\ irp_list' \in Seq(Irps)
         /\ IsInjective(irp_list')
         /\ Range(irp_list') = {i \in Irps : irp'[i] = "listed"}
         /\ cancelling' \subseteq Range(irp_list')
         /\ irp' \in [Irps -> IrpStage]
<1> USE DEF IInv, TypeOK, TakeIrp, FirstTakeable, Takeable
<1>1. irp_list \in Seq(Irps) /\ IsInjective(irp_list)
  BY DEF IrpHeldOnce
<1>2. irp_list[k] \in Irps /\ irp_list[k] \in Range(irp_list)
  BY <1>1 DEF Range
<1>3. irp[irp_list[k]] = "listed"
  BY <1>2 DEF IrpHeldOnce
<1>4. /\ irp_list' \in Seq(Irps) /\ IsInjective(irp_list')
      /\ Range(irp_list') = Range(irp_list) \ {irp_list[k]}
  BY <1>1, RemoveAtElements
<1>5. Range(irp_list') = {i \in Irps : irp'[i] = "listed"}
  BY <1>2, <1>4 DEF IrpHeldOnce
<1>6. cancelling' \subseteq Range(irp_list')
  BY <1>4 DEF IrpHeldOnce
<1> QED BY <1>2, <1>3, <1>4, <1>5, <1>6 DEF IrpStage

LEMMA AheadFinite ==
  /\ IsFiniteSet(Ahead)
  /\ Cardinality(Ahead) \in Nat
  /\ Cardinality(Irps) \in Nat
  /\ Cardinality(Ahead) <= Cardinality(Irps)
<1>1. Ahead \in SUBSET Irps
  BY DEF Ahead
<1>2. IsFiniteSet(Irps)
  BY QueueAssumption
<1>3. IsFiniteSet(Ahead) /\ Cardinality(Ahead) <= Cardinality(Irps)
  BY <1>1, <1>2, FS_Subset
<1> QED BY <1>2, <1>3, FS_CardinalityType

LEMMA SendTakeInv ==
  ASSUME IInv, NEW s \in Senders, NEW k \in DOMAIN irp_list, SendTake(s, k)
  PROVE  IInv'
<1> DEFINE i == irp_list[k]
<1> USE QueueAssumption DEF IInv, SendTake, resetVars, TypeOK
<1>0. irp' = [irp EXCEPT ![i] = "taken"] /\ TakeIrp(k)
  OBVIOUS
<1>1. /\ i \in Irps /\ irp[i] = "listed"
      /\ irp_list' \in Seq(Irps)
      /\ IsInjective(irp_list')
      /\ Range(irp_list') = {j \in Irps : irp'[j] = "listed"}
      /\ cancelling' \subseteq Range(irp_list')
      /\ irp' \in [Irps -> IrpStage]
  BY <1>0, TakeIrpFacts
<1> HIDE DEF i
<1>2. TypeOK'
  BY <1>1 DEF TakeIrp, i
<1>3. Stored' = Stored /\ InBuffers' = InBuffers /\ InFlight' = InFlight
  BY DEF Stored, InFlight, InBuffers
<1>4. QueueBounded'
  BY DEF QueueBounded
<1>5. IrpHeldOnce'
  BY <1>0, <1>1 DEF IrpHeldOnce, Holding, i
<1>6. NoteHeldOnce'
  BY <1>3 DEF NoteHeldOnce
<1>7. Holding'
  BY <1>0, <1>1 DEF Holding, i
<1>8. OvertakeCount'
  <2>1. Ahead' = Ahead \ {i} /\ i \in Ahead
    BY <1>0, <1>1 DEF Ahead
  <2>2. Cardinality(Ahead') = Cardinality(Ahead) - 1 /\ Cardinality(Ahead) \in Nat
    BY <2>1, AheadFinite, FS_RemoveElement
  <2>3. Stored \subseteq Notes
    BY DEF Stored, Range
  <2>4. \A n \in Stored : overtaken'[n] = overtaken[n] + 1
    BY <2>3
  <2>5. \A n \in Notes \ Stored : overtaken'[n] = overtaken[n]
    OBVIOUS
  <2> QED BY <1>3, <2>2, <2>3, <2>4, <2>5, AheadFinite DEF OvertakeCount
<1> QED BY <1>2, <1>4, <1>5, <1>6, <1>7, <1>8

LEMMA SendNoIrpInv ==
  ASSUME IInv, NEW s \in Senders, SendNoIrp(s)
  PROVE  IInv'
<1> USE QueueAssumption
    DEF IInv, SendNoIrp, csqVars, listVars, irpVars, resetVars, TypeOK
<1>1. TypeOK'
  OBVIOUS
<1>2. Stored' = Stored /\ InBuffers' = InBuffers /\ InFlight' = InFlight
  BY DEF Stored, InFlight, InBuffers
<1>3. QueueBounded'
  BY DEF QueueBounded
<1>4. IrpHeldOnce'
  BY DEF IrpHeldOnce
<1>5. NoteHeldOnce'
  BY <1>2 DEF NoteHeldOnce
<1>6. Holding'
  BY DEF Holding
<1>7. OvertakeCount'
  BY <1>2 DEF OvertakeCount, Ahead
<1> QED BY <1>1, <1>3, <1>4, <1>5, <1>6, <1>7

LEMMA SendCompleteInv ==
  ASSUME IInv, NEW s \in Senders, SendComplete(s)
  PROVE  IInv'
<1> DEFINE i == sirp[s]
<1> USE QueueAssumption
    DEF IInv, SendComplete, SendDone, Complete, csqVars, listVars, resetVars, TypeOK
<1>0. /\ i \in Irps /\ irp[i] = "taken" /\ i # rirp
      /\ snote[s] \in Notes /\ snote[s] # None /\ buffer[i] = None
      /\ \A t \in Senders : sirp[t] = i => t = s
  BY DEF IrpHeldOnce, Holding
<1> HIDE DEF i
<1>1. TypeOK'
  BY <1>0 DEF IrpStage, i
<1>2. /\ Stored' = Stored
      /\ InFlight' \subseteq InFlight \ {snote[s]}
      /\ InBuffers' = InBuffers \cup {snote[s]}
  <2>1. Stored' = Stored
    BY DEF Stored
  <2>2. InFlight' \subseteq InFlight \ {snote[s]}
    BY <1>0 DEF InFlight, NoteHeldOnce
  <2>3. InBuffers' = InBuffers \cup {snote[s]}
    BY <1>0 DEF InBuffers, i
  <2> QED BY <2>1, <2>2, <2>3
<1>3. QueueBounded'
  BY DEF QueueBounded
<1>4. IrpHeldOnce'
  BY <1>0 DEF IrpHeldOnce, Holding, i
<1>5. NoteHeldOnce'
  <2>1. snote[s] \in InFlight
    BY <1>0 DEF InFlight
  <2>2. \A j \in Irps : buffer[j] # snote[s]
    BY <1>0, <2>1 DEF NoteHeldOnce, InBuffers
  <2>3. \A j, m \in Irps : buffer'[j] = buffer'[m] => j = m \/ buffer'[j] = None
    BY <2>2 DEF NoteHeldOnce, i
  <2>4. \A t, u \in Senders : snote'[t] = snote'[u] => t = u \/ snote'[t] = None
    BY DEF NoteHeldOnce
  <2> QED BY <1>2, <2>1, <2>3, <2>4 DEF NoteHeldOnce
<1>6. Holding'
  BY <1>0 DEF Holding, i
<1>7. OvertakeCount'
  <2>1. Ahead' = Ahead
    BY <1>0 DEF Ahead, i
  <2> QED BY <1>2, <2>1 DEF OvertakeCount
<1> QED BY <1>1, <1>3, <1>4, <1>5, <1>6, <1>7

LEMMA SendEnqueueInv ==
  ASSUME IInv, NEW s \in Senders, SendEnqueue(s)
  PROVE  IInv'
<1> USE QueueAssumption
    DEF IInv, SendEnqueue, SendDone, csqVars, irpVars, resetVars, TypeOK
<1>0. /\ snote[s] \in Notes /\ snote[s] \in InFlight /\ snote[s] \notin Stored
      /\ sirp[s] = None
  BY DEF Holding, NoteHeldOnce, InFlight
<1>1. /\ notification_list' \in Seq(Notes)
      /\ Len(notification_list') = Len(notification_list) + 1
      /\ IsInjective(notification_list')
      /\ Stored' = Stored \cup {snote[s]}
  BY <1>0, AppendElements DEF Stored, NoteHeldOnce
<1>2. TypeOK'
  BY <1>1
<1>3. InBuffers' = InBuffers /\ InFlight' \subseteq InFlight \ {snote[s]}
  BY <1>0 DEF InFlight, InBuffers, NoteHeldOnce
<1>4. QueueBounded'
  BY <1>1 DEF QueueBounded
<1>5. IrpHeldOnce'
  BY <1>0 DEF IrpHeldOnce
<1>6. NoteHeldOnce'
  BY <1>0, <1>1, <1>3 DEF NoteHeldOnce
<1>7. Holding'
  BY <1>0 DEF Holding
<1>8. OvertakeCount'
  <2>1. Ahead' = Ahead
    BY DEF Ahead
  <2> QED BY <1>0, <1>1, <2>1, AheadFinite DEF OvertakeCount
<1> QED BY <1>2, <1>4, <1>5, <1>6, <1>7, <1>8

LEMMA SendDropInv ==
  ASSUME IInv, NEW s \in Senders, SendDropFull(s) \/ SendDropNoMemory(s)
  PROVE  IInv'
<1> USE QueueAssumption
    DEF IInv, SendDropFull, SendDropNoMemory, SendDone, csqVars, listVars,
        irpVars, resetVars, TypeOK
<1>1. TypeOK' /\ sirp[s] = None
  BY DEF Holding
<1>2. Stored' = Stored /\ InBuffers' = InBuffers /\ InFlight' \subseteq InFlight
  BY DEF Stored, InFlight, InBuffers
<1>3. QueueBounded'
  BY DEF QueueBounded
<1>4. IrpHeldOnce'
  <2>1. sirp' = sirp /\ \A t \in Senders : spc'[t] = "complete" => spc[t] = "complete"
    BY <1>1
  <2> QED BY <2>1 DEF IrpHeldOnce
<1>5. NoteHeldOnce'
  BY <1>2 DEF NoteHeldOnce
<1>6. Holding'
  BY <1>1 DEF Holding
<1>7. OvertakeCount'
  BY <1>2 DEF OvertakeCount, Ahead
<1> QED BY <1>1, <1>3, <1>4, <1>5, <1>6, <1>7

-----------------------------------------------------------------------------
(* Notification_Recieve and the life of a request keep the invariant.      *)

LEMMA RecvPopInv ==
  ASSUME IInv, NEW i \in Irps, RecvPop(i)
  PROVE  IInv'
<1> DEFINE n == Head(notification_list)
<1> USE QueueAssumption
    DEF IInv, RecvPop, Complete, csqVars, sendVars, resetVars, TypeOK
<1>1. /\ n \in Stored /\ n \in Notes
      /\ notification_list' \in Seq(Notes)
      /\ Len(notification_list) \in Nat \ {0}
      /\ Len(notification_list') = Len(notification_list) - 1
      /\ IsInjective(notification_list')
      /\ Stored' = Stored \ {n}
  BY TailElements DEF Stored, NoteHeldOnce
<1> HIDE DEF n
<1>2. buffer[i] = None
  BY DEF Holding
<1>3. TypeOK'
  BY <1>1 DEF QueueBounded, IrpStage, n
<1>4. InFlight' = InFlight /\ InBuffers' = InBuffers \cup {n}
  <2>1. InFlight' = InFlight
    BY DEF InFlight
  <2>2. InBuffers' = InBuffers \cup {n}
    BY <1>1, <1>2 DEF InBuffers, n
  <2> QED BY <2>1, <2>2
<1>5. QueueBounded'
  BY <1>1 DEF QueueBounded
<1>6. IrpHeldOnce'
  BY DEF IrpHeldOnce, Holding
<1>7. NoteHeldOnce'
  <2>1. ASSUME NEW j \in Irps, buffer[j] = n
        PROVE  FALSE
    <3>1. n \in InBuffers
      BY <1>1, <2>1 DEF InBuffers
    <3> QED BY <1>1, <3>1 DEF NoteHeldOnce
  <2>2. \A j, m \in Irps : buffer'[j] = buffer'[m] => j = m \/ buffer'[j] = None
    BY <2>1 DEF NoteHeldOnce, n
  <2> QED BY <1>1, <1>4, <2>2 DEF NoteHeldOnce
<1>8. Holding'
  BY DEF Holding
<1>9. OvertakeCount'
  <2>1. Ahead' = Ahead
    BY DEF Ahead
  <2> QED BY <1>1, <2>1 DEF OvertakeCount, n
<1> QED BY <1>3, <1>5, <1>6, <1>7, <1>8, <1>9

\* The step that makes BoundedOvertaking inductive: a request goes on to park
\* only while nothing is stored.
LEMMA RecvEmptyInv ==
  ASSUME IInv, NEW i \in Irps, RecvEmpty(i)
  PROVE  IInv'
<1> USE QueueAssumption
    DEF IInv, RecvEmpty, csqVars, listVars, sendVars, resetVars, TypeOK
<1>1. TypeOK'
  BY DEF IrpStage
<1>2. /\ Stored' = {} /\ Stored = {} /\ InBuffers' = InBuffers
      /\ InFlight' = InFlight
  BY EmptyElements DEF Stored, InFlight, InBuffers
<1>3. QueueBounded'
  BY DEF QueueBounded
<1>4. IrpHeldOnce'
  BY DEF IrpHeldOnce, Holding
<1>5. NoteHeldOnce'
  BY <1>2 DEF NoteHeldOnce
<1>6. Holding'
  BY DEF Holding
<1>7. OvertakeCount'
  BY <1>2 DEF OvertakeCount
<1> QED BY <1>1, <1>3, <1>4, <1>5, <1>6, <1>7

LEMMA RecvInsertInv ==
  ASSUME IInv, NEW i \in Irps, RecvInsert(i)
  PROVE  IInv'
<1> USE QueueAssumption
    DEF IInv, RecvInsert, listVars, sendVars, resetVars, TypeOK
<1>1. i \notin Range(irp_list) /\ irp_list \in Seq(Irps)
  BY DEF IrpHeldOnce
<1>2. /\ irp_list' \in Seq(Irps) /\ IsInjective(irp_list')
      /\ Range(irp_list') = Range(irp_list) \cup {i}
  BY <1>1, AppendElements DEF IrpHeldOnce
<1>3. TypeOK'
  BY <1>2 DEF IrpStage
<1>4. Stored' = Stored /\ InBuffers' = InBuffers /\ InFlight' = InFlight
  BY DEF Stored, InFlight, InBuffers
<1>5. QueueBounded'
  BY DEF QueueBounded
<1>6. IrpHeldOnce'
  BY <1>2 DEF IrpHeldOnce, Holding
<1>7. NoteHeldOnce'
  BY <1>4 DEF NoteHeldOnce
<1>8. Holding'
  BY DEF Holding
<1>9. OvertakeCount'
  <2>1. Ahead' = Ahead
    BY DEF Ahead
  <2> QED BY <1>4, <2>1 DEF OvertakeCount
<1> QED BY <1>3, <1>5, <1>6, <1>7, <1>8, <1>9

LEMMA RecvBeginInv ==
  ASSUME IInv, NEW i \in Irps, RecvBegin(i)
  PROVE  IInv'
<1> USE QueueAssumption
    DEF IInv, RecvBegin, csqVars, listVars, sendVars, resetVars, TypeOK
<1>1. TypeOK'
  BY DEF IrpStage
<1>2. Stored' = Stored /\ InBuffers' = InBuffers /\ InFlight' = InFlight
  BY DEF Stored, InFlight, InBuffers
<1>3. QueueBounded'
  BY DEF QueueBounded
<1>4. IrpHeldOnce'
  BY DEF IrpHeldOnce, Holding
<1>5. NoteHeldOnce'
  BY <1>2 DEF NoteHeldOnce
<1>6. Holding'
  BY DEF Holding
<1>7. OvertakeCount'
  <2>1. Ahead' = Ahead
    BY DEF Ahead
  <2> QED BY <1>2, <2>1 DEF OvertakeCount
<1> QED BY <1>1, <1>3, <1>4, <1>5, <1>6, <1>7

LEMMA CancelIrpInv ==
  ASSUME IInv, NEW i \in Irps, CancelIrp(i)
  PROVE  IInv'
<1> USE QueueAssumption
    DEF IInv, CancelIrp, irpVars, listVars, sendVars, resetVars, TypeOK
<1>1. TypeOK'
  OBVIOUS
<1>2. Stored' = Stored /\ InBuffers' = InBuffers /\ InFlight' = InFlight
  BY DEF Stored, InFlight, InBuffers
<1>3. QueueBounded'
  BY DEF QueueBounded
<1>4. IrpHeldOnce'
  BY DEF IrpHeldOnce
<1>5. NoteHeldOnce'
  BY <1>2 DEF NoteHeldOnce
<1>6. Holding'
  BY DEF Holding
<1>7. OvertakeCount'
  BY <1>2 DEF OvertakeCount, Ahead
<1> QED BY <1>1, <1>3, <1>4, <1>5, <1>6, <1>7

LEMMA CompleteCanceledIrpInv ==
  ASSUME IInv, NEW k \in DOMAIN irp_list, CompleteCanceledIrp(k)
  PROVE  IInv'
<1> DEFINE i == irp_list[k]
<1> USE QueueAssumption
    DEF IInv, CompleteCanceledIrp, Complete, listVars, sendVars, resetVars, TypeOK
<1>1. /\ i \in Irps /\ irp[i] = "listed" /\ buffer[i] = None
      /\ irp_list \in Seq(Irps) /\ IsInjective(irp_list)
  BY DEF IrpHeldOnce, Holding, Range
<1>2. /\ irp_list' \in Seq(Irps) /\ IsInjective(irp_list')
      /\ Range(irp_list') = Range(irp_list) \ {i}
  BY <1>1, RemoveAtElements
<1> HIDE DEF i
<1>3. irp' = [irp EXCEPT ![i] = "cancelled"] /\ buffer' = buffer
  BY <1>1 DEF i
<1>4. TypeOK'
  BY <1>1, <1>2, <1>3 DEF IrpStage
<1>5. Stored' = Stored /\ InBuffers' = InBuffers /\ InFlight' = InFlight
  BY <1>3 DEF Stored, InFlight, InBuffers
<1>6. QueueBounded'
  BY DEF QueueBounded
<1>7. IrpHeldOnce'
  BY <1>1, <1>2, <1>3 DEF IrpHeldOnce, Holding, i
<1>8. NoteHeldOnce'
  BY <1>3, <1>5 DEF NoteHeldOnce
<1>9. Holding'
  BY <1>1, <1>3 DEF Holding
<1>10. OvertakeCount'
  <2>1. Ahead' = Ahead \ {i} /\ i \in Ahead
    BY <1>1, <1>3 DEF Ahead
  <2>2. Cardinality(Ahead') = Cardinality(Ahead) - 1
    BY <2>1, AheadFinite, FS_RemoveElement
  <2>3. Stored \subseteq Notes
    BY DEF Stored, Range
  <2> QED BY <1>5, <2>2, <2>3, AheadFinite DEF OvertakeCount
<1> QED BY <1>4, <1>6, <1>7, <1>8, <1>9, <1>10

LEMMA ReapInv ==
  ASSUME IInv, NEW i \in Irps, Reap(i)
  PROVE  IInv'
<1> USE QueueAssumption
    DEF IInv, Reap, Completed, Complete, csqVars, listVars, sendVars, resetVars, TypeOK
<1>1. TypeOK'
  BY DEF IrpStage
<1>2. /\ Stored' = Stored /\ InFlight' = InFlight
      /\ InBuffers' \subseteq InBuffers
  BY DEF Stored, InFlight, InBuffers
<1>3. QueueBounded'
  BY DEF QueueBounded
<1>4. IrpHeldOnce'
  BY DEF IrpHeldOnce, Holding
<1>5. NoteHeldOnce'
  BY <1>2 DEF NoteHeldOnce
<1>6. Holding'
  BY DEF Holding
<1>7. OvertakeCount'
  <2>1. Ahead' = Ahead
    BY DEF Ahead
  <2> QED BY <1>2, <2>1 DEF OvertakeCount
<1> QED BY <1>1, <1>3, <1>4, <1>5, <1>6, <1>7

-----------------------------------------------------------------------------
(* ResetNotificationQueue keeps the invariant.                             *)

LEMMA ResetDrainInv ==
  ASSUME IInv, ResetDrain
  PROVE  IInv'
<1> USE QueueAssumption
    DEF IInv, ResetDrain, csqVars, sendVars, irpVars, TypeOK
<1>1. TypeOK'
  OBVIOUS
<1>2. /\ Stored' = {} /\ InBuffers' = InBuffers /\ InFlight' = InFlight
  BY EmptyElements DEF Stored, InFlight, InBuffers
<1>3. QueueBounded'
  BY EmptyElements DEF QueueBounded
<1>4. IrpHeldOnce'
  BY DEF IrpHeldOnce
<1>5. NoteHeldOnce'
  BY <1>2, EmptyElements DEF NoteHeldOnce
<1>6. Holding'
  BY DEF Holding
<1>7. OvertakeCount'
  BY <1>2 DEF OvertakeCount
<1> QED BY <1>1, <1>3, <1>4, <1>5, <1>6, <1>7

LEMMA ResetTakeInv ==
  ASSUME IInv, NEW k \in DOMAIN irp_list, ResetTake(k)
  PROVE  IInv'
<1> DEFINE i == irp_list[k]
<1> USE QueueAssumption DEF IInv, ResetTake, listVars, sendVars, TypeOK
<1>0. irp' = [irp EXCEPT ![i] = "taken"] /\ TakeIrp(k)
  OBVIOUS
<1>1. /\ i \in Irps /\ irp[i] = "listed"
      /\ irp_list' \in Seq(Irps)
      /\ IsInjective(irp_list')
      /\ Range(irp_list') = {j \in Irps : irp'[j] = "listed"}
      /\ cancelling' \subseteq Range(irp_list')
      /\ irp' \in [Irps -> IrpStage]
  BY <1>0, TakeIrpFacts
<1>a. rpc' = "complete" /\ rirp' = i /\ rirp = None
  BY DEF Holding
<1> HIDE DEF i
<1>2. TypeOK'
  BY <1>1, <1>a DEF TakeIrp
<1>3. Stored' = Stored /\ InBuffers' = InBuffers /\ InFlight' = InFlight
  BY DEF Stored, InFlight, InBuffers
<1>4. QueueBounded'
  BY DEF QueueBounded
<1>5. IrpHeldOnce'
  BY <1>0, <1>1, <1>a DEF IrpHeldOnce, Holding
<1>6. NoteHeldOnce'
  BY <1>3 DEF NoteHeldOnce
<1>7. Holding'
  BY <1>0, <1>1, <1>a DEF Holding
<1>8. OvertakeCount'
  <2>1. Ahead' = Ahead \ {i} /\ i \in Ahead
    BY <1>0, <1>1 DEF Ahead
  <2>2. Cardinality(Ahead') = Cardinality(Ahead) - 1
    BY <2>1, AheadFinite, FS_RemoveElement
  <2>3. Stored \subseteq Notes
    BY DEF Stored, Range
  <2> QED BY <1>3, <2>2, <2>3, AheadFinite DEF OvertakeCount
<1> QED BY <1>2, <1>4, <1>5, <1>6, <1>7, <1>8

LEMMA ResetCompleteInv ==
  ASSUME IInv, ResetComplete
  PROVE  IInv'
<1> USE QueueAssumption
    DEF IInv, ResetComplete, Complete, csqVars, listVars, sendVars, TypeOK
<1>0. rirp \in Irps /\ irp[rirp] = "taken" /\ buffer[rirp] = None
  BY DEF Holding, IrpHeldOnce
<1>1. TypeOK' /\ buffer' = buffer
  BY <1>0 DEF IrpStage
<1>2. Stored' = Stored /\ InBuffers' = InBuffers /\ InFlight' = InFlight
  BY <1>1 DEF Stored, InFlight, InBuffers
<1>3. QueueBounded'
  BY DEF QueueBounded
<1>4. IrpHeldOnce'
  BY <1>0 DEF IrpHeldOnce, Holding
<1>5. NoteHeldOnce'
  BY <1>1, <1>2 DEF NoteHeldOnce
<1>6. Holding'
  BY <1>0, <1>1 DEF Holding
<1>7. OvertakeCount'
  <2>1. Ahead' = Ahead
    BY <1>0 DEF Ahead
  <2> QED BY <1>2, <2>1 DEF OvertakeCount
<1> QED BY <1>1, <1>3, <1>4, <1>5, <1>6, <1>7

LEMMA ResetDoneInv ==
  ASSUME IInv, ResetDone
  PROVE  IInv'
<1> USE QueueAssumption
    DEF IInv, ResetDone, csqVars, listVars, sendVars, irpVars, TypeOK
<1>1. TypeOK' /\ Stored' = Stored /\ InBuffers' = InBuffers /\ InFlight' = InFlight
  BY DEF Stored, InFlight, InBuffers
<1>2. QueueBounded' /\ IrpHeldOnce' /\ NoteHeldOnce'
  BY <1>1 DEF QueueBounded, IrpHeldOnce, NoteHeldOnce
<1>3. Holding'
  BY DEF Holding
<1>4. OvertakeCount'
  BY <1>1 DEF OvertakeCount, Ahead
<1> QED BY <1>1, <1>2, <1>3, <1>4

\* Creating and destroying the queue while it is quiet changes nothing but the flag.
LEMMA QuietFrame ==
  ASSUME IInv, DestroyQueue \/ InitQueue
  PROVE  /\ UNCHANGED <<csqVars, listVars, sendVars, irpVars, resetVars>>
         /\ initialized' \in BOOLEAN
<1> USE DEF csqVars, listVars
<1>1. CASE DestroyQueue
  BY <1>1 DEF DestroyQueue
<1>2. CASE InitQueue
  <2>1. irp_list = <<>> /\ notification_list = <<>> /\ queued = 0
    BY <1>2, EmptyElements DEF IInv, InitQueue, Quiet, QueueBounded
  <2> QED BY <1>2, <2>1 DEF InitQueue
<1> QED BY <1>1, <1>2

LEMMA DestroyInitInv ==
  ASSUME IInv, DestroyQueue \/ InitQueue
  PROVE  IInv'
<1> USE QuietFrame DEF IInv, csqVars, listVars, sendVars, irpVars, resetVars
<1>1. TypeOK' /\ Stored' = Stored /\ InBuffers' = InBuffers /\ InFlight' = InFlight
  BY DEF TypeOK, Stored, InFlight, InBuffers
<1>2. QueueBounded' /\ IrpHeldOnce' /\ NoteHeldOnce'
  BY <1>1 DEF QueueBounded, IrpHeldOnce, NoteHeldOnce
<1>3. Holding'
  BY DEF Holding
<1>4. OvertakeCount'
  BY <1>1 DEF OvertakeCount, Ahead
<1> QED BY <1>1, <1>2, <1>3, <1>4

LEMMA StutterInv ==
  ASSUME IInv, UNCHANGED queueVars
  PROVE  IInv'
<1> USE DEF IInv, queueVars, csqVars, listVars, sendVars, irpVars, resetVars
<1>1. TypeOK' /\ Stored' = Stored /\ InBuffers' = InBuffers /\ InFlight' = InFlight
  BY DEF TypeOK, Stored, InFlight, InBuffers
<1>2. QueueBounded' /\ NoteHeldOnce'
  BY <1>1 DEF QueueBounded, NoteHeldOnce
<1>3. IrpHeldOnce' /\ Holding'
  BY DEF IrpHeldOnce, Holding
<1>4. OvertakeCount'
  BY <1>1 DEF OvertakeCount, Ahead
<1> QED BY <1>1, <1>2, <1>3, <1>4

LEMMA NextIInv == IInv /\ [Next]_queueVars => IInv'
<1> SUFFICES ASSUME IInv, [Next]_queueVars
             PROVE  IInv'
  OBVIOUS
<1>1. ASSUME NEW s \in Senders, NEW n \in Notes, SendBegin(s, n)
      PROVE  IInv'
  BY <1>1, SendBeginInv
<1>2. ASSUME NEW s \in Senders, SendStep(s)
      PROVE  IInv'
  BY <1>2, SendTakeInv, SendNoIrpInv, SendCompleteInv, SendEnqueueInv, SendDropInv
     DEF SendStep
<1>3. ASSUME NEW i \in Irps, RecvBegin(i) \/ RecvStep(i) \/ CancelIrp(i) \/ Reap(i)
      PROVE  IInv'
  BY <1>3, RecvBeginInv, RecvPopInv, RecvEmptyInv, RecvInsertInv, CancelIrpInv, ReapInv
     DEF RecvStep
<1>4. ASSUME NEW k \in DOMAIN irp_list, CompleteCanceledIrp(k)
      PROVE  IInv'
  BY <1>4, CompleteCanceledIrpInv
<1>5. CASE ResetDrain
  BY <1>5, ResetDrainInv
<1>6. CASE ResetStep
  BY <1>6, ResetTakeInv, ResetCompleteInv, ResetDoneInv DEF ResetStep
<1>7. CASE UNCHANGED queueVars
  BY <1>7, StutterInv
<1>8. CASE DestroyQueue \/ InitQueue
  BY <1>8, DestroyInitInv
<1> QED BY <1>1, <1>2, <1>3, <1>4, <1>5, <1>6, <1>7, <1>8 DEF Next

-----------------------------------------------------------------------------
(* The theorems.                                                           *)

\* Every reachable state of the queue satisfies the inductive invariant.
THEOREM QueueInvariant == Spec => []IInv
  BY InitIInv, NextIInv, PTL DEF Spec

\* Type correctness.
THEOREM QueueTyping == Spec => []TypeOK
<1>1. IInv => TypeOK
  BY DEF IInv
<1> QED BY <1>1, QueueInvariant, PTL

\* The counter of Notification_Send is the length of the list and keeps its limit.
THEOREM QueueIsBounded == Spec => []QueueBounded
<1>1. IInv => QueueBounded
  BY DEF IInv
<1> QED BY <1>1, QueueInvariant, PTL

\* No request is ever held by two threads that may complete it.
THEOREM RequestsHeldOnce == Spec => []IrpHeldOnce
<1>1. IInv => IrpHeldOnce
  BY DEF IInv
<1> QED BY <1>1, QueueInvariant, PTL

\* No notification is in two places.
THEOREM NotificationsHeldOnce == Spec => []NoteHeldOnce
<1>1. IInv => NoteHeldOnce
  BY DEF IInv
<1> QED BY <1>1, QueueInvariant, PTL

\* A stored notification is overtaken at most once per request of the client.
THEOREM OvertakingIsBounded == Spec => []BoundedOvertaking
<1>1. IInv => BoundedOvertaking
  <2> SUFFICES ASSUME IInv, NEW n \in Stored
               PROVE  overtaken[n] <= Cardinality(Irps)
    BY DEF BoundedOvertaking
  <2>1. n \in Notes /\ overtaken[n] \in Nat
    BY DEF IInv, TypeOK, Stored, Range
  <2> QED BY <2>1, AheadFinite DEF IInv, OvertakeCount
<1> QED BY <1>1, QueueInvariant, PTL

-----------------------------------------------------------------------------
(* No request is lost: what was taken is completed, what is cancelled stays *)
(* where its cancel routine finds it.                                       *)

\* A request that is out of the list is with the thread that will complete it.
Completes(s, i) == spc[s] = "complete" /\ sirp[s] = i
Resets(i) == rpc = "complete" /\ rirp = i
TakenIsOwned ==
  \A i \in Irps : irp[i] = "taken" => Resets(i) \/ \E s \in Senders : Completes(s, i)

LEMMA SendOwned ==
  ASSUME IInv, TakenIsOwned, NEW s \in Senders, SendStep(s)
  PROVE  TakenIsOwned'
<1> USE DEF IInv, TypeOK
<1> SUFFICES ASSUME NEW i \in Irps, irp'[i] = "taken"
             PROVE  Resets(i)' \/ \E t \in Senders : Completes(t, i)'
  BY DEF TakenIsOwned
<1>1. ASSUME irp[i] = "taken", UNCHANGED <<rpc, rirp>>,
             \A t \in Senders : Completes(t, i) => Completes(t, i)'
      PROVE  Resets(i)' \/ \E t \in Senders : Completes(t, i)'
  BY <1>1 DEF TakenIsOwned, Resets
<1>2. ASSUME NEW k \in DOMAIN irp_list, SendTake(s, k)
      PROVE  Resets(i)' \/ \E t \in Senders : Completes(t, i)'
  <2>1. irp_list[k] \in Irps /\ irp' = [irp EXCEPT ![irp_list[k]] = "taken"]
    BY <1>2 DEF SendTake
  <2>2. CASE i = irp_list[k]
    BY <1>2, <2>2 DEF SendTake, Completes
  <2>3. CASE i # irp_list[k]
    <3>1. irp[i] = "taken" /\ UNCHANGED <<rpc, rirp>>
      BY <1>2, <2>1, <2>3 DEF SendTake, resetVars
    <3>2. \A t \in Senders : Completes(t, i) => Completes(t, i)'
      BY <1>2 DEF SendTake, Completes
    <3> QED BY <1>1, <3>1, <3>2
  <2> QED BY <2>2, <2>3
<1>3. CASE SendComplete(s)
  <2>1. sirp[s] \in Irps /\ irp' = [irp EXCEPT ![sirp[s]] = "success"]
    BY <1>3 DEF SendComplete, Complete, IrpHeldOnce, Holding
  <2>2. i # sirp[s] /\ irp[i] = "taken" /\ UNCHANGED <<rpc, rirp>>
    BY <1>3, <2>1 DEF SendComplete, resetVars
  <2>3. \A t \in Senders : Completes(t, i) => Completes(t, i)'
    BY <1>3, <2>2 DEF SendComplete, SendDone, Completes
  <2> QED BY <1>1, <2>2, <2>3
<1>4. CASE SendNoIrp(s) \/ SendEnqueue(s) \/ SendDropFull(s) \/ SendDropNoMemory(s)
  <2>1. UNCHANGED <<irp, rpc, rirp>>
    BY <1>4 DEF SendNoIrp, SendEnqueue, SendDropFull, SendDropNoMemory, irpVars, resetVars
  <2>2. \A t \in Senders : Completes(t, i) => Completes(t, i)'
    BY <1>4 DEF SendNoIrp, SendEnqueue, SendDropFull, SendDropNoMemory, SendDone, Completes
  <2> QED BY <1>1, <2>1, <2>2
<1> QED BY <1>2, <1>3, <1>4 DEF SendStep

LEMMA ResetOwned ==
  ASSUME IInv, TakenIsOwned, ResetDrain \/ ResetStep
  PROVE  TakenIsOwned'
<1> USE DEF IInv, TypeOK
<1>1. CASE ResetDrain \/ ResetDone
  BY <1>1 DEF ResetDrain, ResetDone, TakenIsOwned, Resets, Completes, sendVars, irpVars
<1>2. ASSUME NEW k \in DOMAIN irp_list, ResetTake(k) PROVE TakenIsOwned'
  <2>1. /\ irp_list[k] \in Irps /\ irp' = [irp EXCEPT ![irp_list[k]] = "taken"]
        /\ rpc = "irps" /\ rpc' = "complete" /\ rirp' = irp_list[k] /\ UNCHANGED sendVars
    BY <1>2 DEF ResetTake
  <2> QED BY <2>1 DEF TakenIsOwned, Resets, Completes, sendVars
<1>3. CASE ResetComplete
  <2>1. /\ rirp \in Irps /\ irp' = [irp EXCEPT ![rirp] = "cancelled"]
        /\ rpc = "complete" /\ UNCHANGED sendVars
    BY <1>3 DEF ResetComplete, Complete, Holding
  <2> QED BY <2>1 DEF TakenIsOwned, Resets, Completes, sendVars
<1> QED BY <1>1, <1>2, <1>3 DEF ResetStep

LEMMA OwnedNext == IInv /\ TakenIsOwned /\ [Next]_queueVars => TakenIsOwned'
<1> SUFFICES ASSUME IInv, TakenIsOwned, [Next]_queueVars PROVE TakenIsOwned'
  OBVIOUS
<1>1. ASSUME UNCHANGED <<rpc, rirp, spc, sirp>>,
             \A i \in Irps : irp'[i] = "taken" => irp[i] = "taken"
      PROVE  TakenIsOwned'
  BY <1>1 DEF TakenIsOwned, Resets, Completes
<1> USE DEF IInv, TypeOK
<1>2. ASSUME NEW s \in Senders, NEW n \in Notes, SendBegin(s, n) PROVE TakenIsOwned'
  BY <1>2 DEF SendBegin, TakenIsOwned, Resets, Completes, irpVars, resetVars
<1>3. ASSUME NEW i \in Irps, RecvBegin(i) \/ RecvStep(i) \/ CancelIrp(i) \/ Reap(i)
      PROVE  TakenIsOwned'
  <2>1. UNCHANGED <<rpc, rirp, spc, sirp>>
    BY <1>3 DEF RecvBegin, RecvStep, RecvPop, RecvEmpty, RecvInsert, CancelIrp, Reap,
       sendVars, resetVars
  <2>2. \A j \in Irps : irp'[j] = "taken" => irp[j] = "taken"
    BY <1>3 DEF RecvBegin, RecvStep, RecvPop, RecvEmpty, RecvInsert, CancelIrp, Reap,
       Complete, irpVars
  <2> QED BY <1>1, <2>1, <2>2
<1>4. ASSUME NEW k \in DOMAIN irp_list, CompleteCanceledIrp(k) PROVE TakenIsOwned'
  BY <1>1, <1>4 DEF CompleteCanceledIrp, Complete, sendVars, resetVars
<1>5. CASE DestroyQueue \/ InitQueue \/ UNCHANGED queueVars
  BY <1>1, <1>5 DEF DestroyQueue, InitQueue, queueVars, sendVars, irpVars, resetVars
<1> QED BY <1>2, <1>3, <1>4, <1>5, SendOwned, ResetOwned DEF Next

\* Every read that a send or a reset has taken out of the list is with the thread that
\* completes it: IoCompleteRequest is called for each read, not just at most once.
THEOREM TakenRequestsAreOwned == Spec => []TakenIsOwned
<1>1. QueueInit => TakenIsOwned
  BY DEF QueueInit, TakenIsOwned
<1> QED BY <1>1, OwnedNext, QueueInvariant, PTL DEF Spec

\* A cancelled read is parked where its cancel routine finds it, until that routine
\* completes it.
CancelledStays ==
  \A i \in cancelling :
    \/ i \in cancelling' /\ \E k \in DOMAIN irp_list' : irp_list'[k] = i
    \/ irp'[i] = "cancelled"

LEMMA CancelledStep == IInv /\ IInv' /\ [Next]_queueVars => CancelledStays
<1> SUFFICES ASSUME IInv, IInv', [Next]_queueVars, NEW i \in cancelling, irp'[i] # "cancelled"
             PROVE  i \in cancelling' /\ \E k \in DOMAIN irp_list' : irp_list'[k] = i
  BY DEF CancelledStays
<1>1. cancelling' \subseteq Range(irp_list')
  BY DEF IInv, IrpHeldOnce
<1>2. i \in Irps
  BY DEF IInv, TypeOK
<1> SUFFICES i \in cancelling'
  BY <1>1 DEF Range
<1>3. ASSUME NEW s \in Senders, NEW n \in Notes, SendBegin(s, n) PROVE i \in cancelling'
  BY <1>3 DEF SendBegin, csqVars
<1>4. ASSUME NEW s \in Senders, SendStep(s) PROVE i \in cancelling'
  BY <1>4 DEF SendStep, SendTake, TakeIrp, SendNoIrp, SendComplete, SendEnqueue,
     SendDropFull, SendDropNoMemory, csqVars
<1>5. ASSUME NEW j \in Irps, RecvBegin(j) \/ RecvStep(j) \/ CancelIrp(j) \/ Reap(j)
      PROVE  i \in cancelling'
  BY <1>5 DEF RecvBegin, RecvStep, RecvPop, RecvEmpty, RecvInsert, CancelIrp, Reap, csqVars
<1>6. ASSUME NEW k \in DOMAIN irp_list, CompleteCanceledIrp(k) PROVE i \in cancelling'
  <2>1. irp_list[k] \in Irps
    BY DEF IInv, TypeOK
  <2>2. irp' = [irp EXCEPT ![irp_list[k]] = "cancelled"]
    BY <1>6 DEF CompleteCanceledIrp, Complete
  <2>3. i # irp_list[k]
    BY <1>2, <2>1, <2>2 DEF IInv, TypeOK
  <2> QED BY <1>6, <2>3 DEF CompleteCanceledIrp
<1>7. CASE ResetDrain \/ ResetStep
  BY <1>7 DEF ResetDrain, ResetStep, ResetTake, TakeIrp, ResetComplete, ResetDone, csqVars
<1>8. CASE DestroyQueue \/ InitQueue \/ UNCHANGED queueVars
  BY <1>8 DEF DestroyQueue, InitQueue, queueVars, csqVars
<1> QED BY <1>3, <1>4, <1>5, <1>6, <1>7, <1>8 DEF Next

\* The part of CancelEnds that needs no fairness: no send, no receive and no reset takes
\* a cancelled read away from its cancel routine, and only that ends it.
THEOREM CancelRoutineCompletes == Spec => [][CancelledStays]_queueVars
<1>1. IInv /\ IInv' /\ [Next]_queueVars => [CancelledStays]_queueVars
  BY CancelledStep
<1> QED BY <1>1, QueueInvariant, PTL DEF Spec

-----------------------------------------------------------------------------
(* The queue implements the abstract channel.                              *)

\* The steps that move a note or a request inside the queue change nothing
\* that the two sides of the channel can tell.
LEMMA InternalSteps ==
  ASSUME IInv,
         \/ \E s \in Senders :
              (\E k \in DOMAIN irp_list : SendTake(s, k)) \/ SendNoIrp(s) \/ SendEnqueue(s)
         \/ \E i \in Irps : RecvEmpty(i) \/ RecvInsert(i) \/ CancelIrp(i)
         \/ (\E k \in DOMAIN irp_list : ResetTake(k)) \/ ResetDone
         \/ DestroyQueue \/ InitQueue
         \/ UNCHANGED queueVars
  PROVE  UNCHANGED Channel!vars
<1> USE DEF IInv, TypeOK, csqVars, listVars, sendVars, irpVars, resetVars, queueVars
<1> SUFFICES UNCHANGED <<Pending, ReadStage, buffer>>
  BY DEF Channel!vars
<1>1. ASSUME NEW s \in Senders, NEW k \in DOMAIN irp_list, SendTake(s, k)
      PROVE  UNCHANGED <<Pending, ReadStage, buffer>>
  <2>1. irp_list[k] \in Irps /\ irp[irp_list[k]] = "listed"
    BY <1>1, TakeIrpFacts DEF SendTake
  <2> QED BY <1>1, <2>1 DEF SendTake, Pending, Stored, InFlight, ReadStage
<1>2. ASSUME NEW s \in Senders, SendNoIrp(s)
      PROVE  UNCHANGED <<Pending, ReadStage, buffer>>
  BY <1>2 DEF SendNoIrp, Pending, Stored, InFlight, ReadStage
<1>3. ASSUME NEW s \in Senders, SendEnqueue(s)
      PROVE  UNCHANGED <<Pending, ReadStage, buffer>>
  <2>1. snote[s] \in Notes /\ snote[s] \in InFlight /\ snote[s] \notin Stored /\ snote[s] # None
    BY <1>3, QueueAssumption DEF SendEnqueue, Holding, NoteHeldOnce, InFlight
  <2>2. Stored' = Stored \cup {snote[s]}
    BY <1>3, <2>1, AppendElements DEF SendEnqueue, Stored, NoteHeldOnce
  <2>3. InFlight' = InFlight \ {snote[s]}
    BY <1>3, <2>1 DEF SendEnqueue, SendDone, InFlight, NoteHeldOnce
  <2>4. Pending' = Pending
    BY <2>1, <2>2, <2>3 DEF Pending
  <2> QED BY <1>3, <2>4 DEF SendEnqueue, ReadStage
<1>4. ASSUME NEW i \in Irps, RecvEmpty(i) \/ RecvInsert(i) \/ CancelIrp(i)
      PROVE  UNCHANGED <<Pending, ReadStage, buffer>>
  BY <1>4 DEF RecvEmpty, RecvInsert, CancelIrp, Pending, Stored, InFlight, ReadStage
<1>5. ASSUME NEW k \in DOMAIN irp_list, ResetTake(k)
      PROVE  UNCHANGED <<Pending, ReadStage, buffer>>
  <2>1. irp_list[k] \in Irps /\ irp[irp_list[k]] = "listed"
    BY <1>5, TakeIrpFacts DEF ResetTake
  <2> QED BY <1>5, <2>1 DEF ResetTake, Pending, Stored, InFlight, ReadStage
<1>6. CASE ResetDone
  BY <1>6 DEF ResetDone, Pending, Stored, InFlight, ReadStage
<1>7. CASE UNCHANGED queueVars
  BY <1>7 DEF Pending, Stored, InFlight, ReadStage
<1>8. CASE DestroyQueue \/ InitQueue
  BY <1>8, QuietFrame DEF Pending, Stored, InFlight, ReadStage
<1> QED BY <1>1, <1>2, <1>3, <1>4, <1>5, <1>6, <1>7, <1>8

\* A note enters the channel, or leaves it unread.
LEMMA OfferAndLose ==
  ASSUME IInv
  PROVE  /\ \A s \in Senders, n \in Notes : SendBegin(s, n) => Channel!Offer(n)
         /\ \A s \in Senders : SendDropFull(s) \/ SendDropNoMemory(s) =>
              \E lost \in SUBSET Pending : Channel!Lose(lost)
         /\ ResetDrain => \E lost \in SUBSET Pending : Channel!Lose(lost)
<1> USE DEF IInv, TypeOK, csqVars, listVars, sendVars, irpVars, resetVars
<1>1. ASSUME NEW s \in Senders, NEW n \in Notes, SendBegin(s, n)
      PROVE  Channel!Offer(n)
  <2>1. Stored' = Stored /\ InFlight' = InFlight \cup {n}
    BY <1>1, QueueAssumption DEF SendBegin, Stored, InFlight, Holding
  <2>2. n \notin Pending /\ Pending' = Pending \cup {n}
    BY <1>1, <2>1 DEF SendBegin, Pending
  <2>3. \A r \in Irps : buffer[r] # n
    BY <1>1, QueueAssumption DEF SendBegin, InBuffers
  <2> QED BY <1>1, <2>2, <2>3 DEF SendBegin, Channel!Offer, ReadStage
<1>2. ASSUME NEW s \in Senders, SendDropFull(s) \/ SendDropNoMemory(s)
      PROVE  \E lost \in SUBSET Pending : Channel!Lose(lost)
  <2>1. snote[s] \in InFlight /\ snote[s] \notin Stored /\ snote[s] # None
    BY <1>2 DEF SendDropFull, SendDropNoMemory, Holding, NoteHeldOnce, InFlight
  <2>2. Stored' = Stored /\ InFlight' = InFlight \ {snote[s]}
    BY <1>2, <2>1
       DEF SendDropFull, SendDropNoMemory, SendDone, Stored, InFlight, NoteHeldOnce
  <2>3. Channel!Lose({snote[s]})
    BY <1>2, <2>1, <2>2
       DEF SendDropFull, SendDropNoMemory, Channel!Lose, Pending, ReadStage
  <2> QED BY <2>1, <2>3 DEF Pending
<1>3. ASSUME ResetDrain
      PROVE  \E lost \in SUBSET Pending : Channel!Lose(lost)
  <2>1. Stored' = {} /\ InFlight' = InFlight /\ Stored \cap InFlight = {}
    BY <1>3, EmptyElements DEF ResetDrain, Stored, InFlight, NoteHeldOnce
  <2>2. Channel!Lose(Stored)
    BY <1>3, <2>1 DEF ResetDrain, Channel!Lose, Pending, ReadStage
  <2> QED BY <2>2 DEF Pending
<1> QED BY <1>1, <1>2, <1>3

\* A read starts, ends and is picked up as the channel says.
LEMMA ReadSteps ==
  ASSUME IInv
  PROVE  /\ \A i \in Irps : RecvBegin(i) => Channel!Start(i) \/ Channel!Refuse(i)
         /\ \A s \in Senders : SendComplete(s) => Channel!Answer(sirp[s], snote[s])
         /\ \A i \in Irps : RecvPop(i) => Channel!Answer(i, Head(notification_list))
         /\ \A k \in DOMAIN irp_list :
              CompleteCanceledIrp(k) => Channel!Cancel(irp_list[k])
         /\ ResetComplete => Channel!Cancel(rirp)
         /\ \A i \in Irps : Reap(i) => Channel!Reap(i)
<1> USE DEF IInv, TypeOK, csqVars, listVars, sendVars, irpVars, resetVars, Complete
<1>1. ASSUME NEW i \in Irps, RecvBegin(i)
      PROVE  Channel!Start(i) \/ Channel!Refuse(i)
  <2>1. Pending' = Pending
    BY <1>1 DEF RecvBegin, Pending, Stored, InFlight
  <2>2. CASE initialized
    BY <1>1, <2>1, <2>2 DEF RecvBegin, Channel!Start, ReadStage
  <2>3. CASE ~initialized
    BY <1>1, <2>1, <2>3 DEF RecvBegin, Channel!Refuse, ReadStage
  <2> QED BY <2>2, <2>3
<1>2. ASSUME NEW s \in Senders, SendComplete(s)
      PROVE  Channel!Answer(sirp[s], snote[s])
  <2>1. /\ sirp[s] \in Irps /\ irp[sirp[s]] = "taken" /\ snote[s] # None
        /\ snote[s] \in InFlight /\ snote[s] \notin Stored
    BY <1>2, QueueAssumption DEF SendComplete, Holding, IrpHeldOnce, NoteHeldOnce, InFlight
  <2>2. Stored' = Stored /\ InFlight' = InFlight \ {snote[s]}
    BY <1>2, <2>1 DEF SendComplete, SendDone, Stored, InFlight, NoteHeldOnce
  <2>3. Pending' = Pending \ {snote[s]} /\ snote[s] \in Pending
    BY <2>1, <2>2 DEF Pending
  <2> QED BY <1>2, <2>1, <2>3 DEF SendComplete, Channel!Answer, ReadStage
<1>3. ASSUME NEW i \in Irps, RecvPop(i)
      PROVE  Channel!Answer(i, Head(notification_list))
  <2> DEFINE n == Head(notification_list)
  <2>1. n \in Stored /\ Stored' = Stored \ {n}
    BY <1>3, TailElements DEF RecvPop, Stored, NoteHeldOnce
  <2>2. InFlight' = InFlight /\ n \notin InFlight
    BY <1>3, <2>1 DEF RecvPop, InFlight, NoteHeldOnce
  <2>3. Pending' = Pending \ {n} /\ n \in Pending
    BY <2>1, <2>2 DEF Pending
  <2> QED BY <1>3, <2>3 DEF RecvPop, Channel!Answer, ReadStage
<1>4. ASSUME NEW k \in DOMAIN irp_list, CompleteCanceledIrp(k)
      PROVE  Channel!Cancel(irp_list[k])
  <2>1. irp_list[k] \in Irps /\ irp[irp_list[k]] = "listed" /\ buffer[irp_list[k]] = None
    BY DEF IrpHeldOnce, Holding, Range
  <2>2. buffer' = buffer /\ Pending' = Pending
    BY <1>4, <2>1 DEF CompleteCanceledIrp, Pending, Stored, InFlight
  <2> QED BY <1>4, <2>1, <2>2 DEF CompleteCanceledIrp, Channel!Cancel, ReadStage
<1>5. ASSUME ResetComplete
      PROVE  Channel!Cancel(rirp)
  <2>1. rirp \in Irps /\ irp[rirp] = "taken" /\ buffer[rirp] = None
    BY <1>5 DEF ResetComplete, IrpHeldOnce, Holding
  <2>2. buffer' = buffer /\ Pending' = Pending
    BY <1>5, <2>1 DEF ResetComplete, Pending, Stored, InFlight
  <2> QED BY <1>5, <2>1, <2>2 DEF ResetComplete, Channel!Cancel, ReadStage
<1>6. ASSUME NEW i \in Irps, Reap(i)
      PROVE  Channel!Reap(i)
  <2>1. Pending' = Pending
    BY <1>6 DEF Reap, Pending, Stored, InFlight
  <2> QED BY <1>6, <2>1 DEF Reap, Completed, Channel!Reap, ReadStage
<1> QED BY <1>1, <1>2, <1>3, <1>4, <1>5, <1>6

LEMMA NextImplementsChannel ==
  IInv /\ [Next]_queueVars => [Channel!Next]_Channel!vars
<1> SUFFICES ASSUME IInv, [Next]_queueVars
             PROVE  [Channel!Next]_Channel!vars
  OBVIOUS
<1>1. ASSUME NEW s \in Senders, NEW n \in Notes, SendBegin(s, n)
      PROVE  Channel!Next
  BY <1>1, OfferAndLose DEF Channel!Next
<1>2. ASSUME NEW s \in Senders, SendComplete(s)
      PROVE  Channel!Next
  <2>1. Channel!Answer(sirp[s], snote[s])
    BY <1>2, ReadSteps
  <2>2. sirp[s] \in Irps /\ snote[s] \in Pending
    BY <1>2, <2>1 DEF Channel!Answer, SendComplete, IInv, TypeOK, Holding
  <2> QED BY <2>1, <2>2 DEF Channel!Next
<1>3. ASSUME NEW s \in Senders, SendDropFull(s) \/ SendDropNoMemory(s)
      PROVE  Channel!Next
  BY <1>3, OfferAndLose DEF Channel!Next
<1>4. ASSUME NEW i \in Irps, RecvPop(i)
      PROVE  Channel!Next
  <2>1. Channel!Answer(i, Head(notification_list))
    BY <1>4, ReadSteps
  <2>2. Head(notification_list) \in Pending
    BY <2>1 DEF Channel!Answer
  <2> QED BY <2>1, <2>2 DEF Channel!Next
<1>5. ASSUME NEW i \in Irps, RecvBegin(i) \/ Reap(i)
      PROVE  Channel!Next
  BY <1>5, ReadSteps DEF Channel!Next
<1>6. ASSUME NEW k \in DOMAIN irp_list, CompleteCanceledIrp(k)
      PROVE  Channel!Next
  <2>1. irp_list[k] \in Irps
    BY DEF IInv, TypeOK
  <2> QED BY <1>6, <2>1, ReadSteps DEF Channel!Next
<1>7. CASE ResetDrain
  BY <1>7, OfferAndLose DEF Channel!Next
<1>8. CASE ResetComplete
  <2>1. rirp \in Irps
    BY <1>8 DEF ResetComplete, IInv, TypeOK, Holding
  <2> QED BY <1>8, <2>1, ReadSteps DEF Channel!Next
<1> QED
  BY <1>1, <1>2, <1>3, <1>4, <1>5, <1>6, <1>7, <1>8, InternalSteps
     DEF Next, SendStep, RecvStep, ResetStep

\* The queue implements the lossy channel for any number of senders, reads and
\* notes: no note is read twice, and no read ends twice.
THEOREM QueueImplementsChannel == Spec => ChannelSpec
<1>1. QueueInit => Channel!Init
  <2> SUFFICES ASSUME QueueInit PROVE Channel!Init
    OBVIOUS
  <2>1. Stored = {} /\ InFlight = {}
    BY EmptyElements DEF QueueInit, Stored, InFlight
  <2> QED BY <2>1 DEF QueueInit, Channel!Init, Pending, ReadStage
<1> QED BY <1>1, NextImplementsChannel, QueueInvariant, PTL
        DEF Spec, ChannelSpec, Channel!Spec
=============================================================================
