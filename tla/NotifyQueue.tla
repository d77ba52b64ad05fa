---------------------------- MODULE NotifyQueue ----------------------------
(***************************************************************************)
(* The notification queue of the filter driver (pbfilter/notifyqueue.c).   *)
(*                                                                         *)
(* Classify callbacks on any processor call Notification_Send; the client  *)
(* reads with one or more overlapped GETNOTIFICATION requests (IRPs) that  *)
(* Notification_Recieve either answers from the list or parks in a         *)
(* cancel-safe queue (IoCsq).  Both lists are protected by the same spin   *)
(* lock, but a send and a receive each take it twice: an action below is   *)
(* one critical section, and the program counters say between which two a  *)
(* thread stands.                                                          *)
(*                                                                         *)
(* Notes are tokens: one names the content of a notification from the      *)
(* moment a callback starts to send it until the client has read it or the *)
(* queue has dropped it, and may then name another.                        *)
(***************************************************************************)
EXTENDS Naturals, FiniteSets, SequencesExt

CONSTANTS
  Senders,   \* threads that run a classify callback
  Irps,      \* read requests of the client
  Notes,     \* notification contents in existence
  Capacity,  \* the 64 of Notification_Send
  None       \* no IRP, no note

ASSUME QueueAssumption ==
  /\ IsFiniteSet(Irps)
  /\ Capacity \in Nat \ {0}
  /\ None \notin Irps \cup Notes

VARIABLES
  initialized,        \* NOTIFICATION_QUEUE.initialized
  irp_list,           \* parked requests, oldest first
  notification_list,  \* stored notifications, oldest first
  queued,             \* NOTIFICATION_QUEUE.queued
  cancelling,         \* parked requests whose cancel routine has been called
  spc, snote, sirp,   \* per sender: where it stands, what it sends, the IRP it took
  irp, buffer,        \* per IRP: its stage, and its SystemBuffer
  rpc, rirp,          \* where ResetNotificationQueue stands, the IRP it took
  overtaken           \* history: newer notes handed out while this one was stored

csqVars == <<irp_list, cancelling>>
listVars == <<notification_list, queued, overtaken>>
sendVars == <<spc, snote, sirp>>
irpVars == <<irp, buffer>>
resetVars == <<rpc, rirp>>
queueVars ==
  <<initialized, csqVars, listVars, sendVars, irpVars, resetVars>>

\* Stages of a request.  "lock" and "insert" are inside Notification_Recieve.
IrpStage == {"idle", "lock", "insert", "listed", "taken",
             "success", "cancelled", "notready"}
Completed == {"success", "cancelled", "notready"}

Stored == Range(notification_list)
InFlight == {snote[s] : s \in Senders} \ {None}
InBuffers == {buffer[i] : i \in Irps} \ {None}

TypeOK ==
  /\ initialized \in BOOLEAN
  /\ irp_list \in Seq(Irps)
  /\ notification_list \in Seq(Notes)
  /\ queued \in Nat
  /\ cancelling \in SUBSET Irps
  /\ spc \in [Senders -> {"idle", "peek", "complete", "lock"}]
  /\ snote \in [Senders -> Notes \cup {None}]
  /\ sirp \in [Senders -> Irps \cup {None}]
  /\ irp \in [Irps -> IrpStage]
  /\ buffer \in [Irps -> Notes \cup {None}]
  /\ rpc \in {"idle", "irps", "complete"}
  /\ rirp \in Irps \cup {None}
  /\ overtaken \in [Notes -> Nat]

QueueInit ==
  /\ initialized = TRUE
  /\ irp_list = <<>>
  /\ notification_list = <<>>
  /\ queued = 0
  /\ cancelling = {}
  /\ spc = [s \in Senders |-> "idle"]
  /\ snote = [s \in Senders |-> None]
  /\ sirp = [s \in Senders |-> None]
  /\ irp = [i \in Irps |-> "idle"]
  /\ buffer = [i \in Irps |-> None]
  /\ rpc = "idle"
  /\ rirp = None
  /\ overtaken = [n \in Notes |-> 0]

-----------------------------------------------------------------------------
(* IoCsq: the cancel-safe queue of parked requests.                        *)

\* Mutant: a parked request is taken although its cancel routine already runs.
TakeableCancelled(k) == k \in DOMAIN irp_list

\* IoCsqRemoveNextIrp walks CsqPeekNextIrp past every request whose cancel
\* routine already runs; that routine alone may remove and complete it.
Takeable(k) == k \in DOMAIN irp_list /\ irp_list[k] \notin cancelling

FirstTakeable(k) ==
  /\ Takeable(k)
  /\ \A j \in DOMAIN irp_list : j < k => ~Takeable(j)

NoneTakeable == \A k \in DOMAIN irp_list : ~Takeable(k)

TakeIrp(k) ==
  /\ FirstTakeable(k)
  /\ irp_list' = RemoveAt(irp_list, k)
  /\ cancelling' = cancelling

Complete(i, status, note) ==
  /\ irp' = [irp EXCEPT ![i] = status]
  /\ buffer' = [buffer EXCEPT ![i] = note]

-----------------------------------------------------------------------------
(* Notification_Send.                                                      *)

SendBegin(s, n) ==
  /\ initialized
  /\ spc[s] = "idle"
  /\ n \notin Stored \cup InFlight \cup InBuffers
  /\ spc' = [spc EXCEPT ![s] = "peek"]
  /\ snote' = [snote EXCEPT ![s] = n]
  /\ UNCHANGED <<initialized, csqVars, listVars, sirp, irpVars, resetVars>>

\* First critical section: a parked request is taken for this note, ahead of
\* every note that is stored.
SendTake(s, k) ==
  /\ spc[s] = "peek"
  /\ TakeIrp(k)
  /\ spc' = [spc EXCEPT ![s] = "complete"]
  /\ sirp' = [sirp EXCEPT ![s] = irp_list[k]]
  /\ irp' = [irp EXCEPT ![irp_list[k]] = "taken"]
  /\ overtaken' = [n \in Notes |->
                     IF n \in Stored THEN overtaken[n] + 1 ELSE overtaken[n]]
  /\ UNCHANGED <<initialized, notification_list, queued, snote, buffer, resetVars>>

SendNoIrp(s) ==
  /\ spc[s] = "peek"
  /\ NoneTakeable
  /\ spc' = [spc EXCEPT ![s] = "lock"]
  /\ UNCHANGED <<initialized, csqVars, listVars, snote, sirp, irpVars, resetVars>>

SendDone(s) ==
  /\ spc' = [spc EXCEPT ![s] = "idle"]
  /\ snote' = [snote EXCEPT ![s] = None]
  /\ sirp' = [sirp EXCEPT ![s] = None]

\* Mutant: without the return of the branch, the answered note is stored too.
SendCompleteFallsThrough(s) ==
  /\ spc[s] = "complete"
  /\ Complete(sirp[s], "success", snote[s])
  /\ spc' = [spc EXCEPT ![s] = "lock"]
  /\ sirp' = [sirp EXCEPT ![s] = None]
  /\ UNCHANGED <<initialized, csqVars, listVars, snote, resetVars>>

SendComplete(s) ==
  /\ spc[s] = "complete"
  /\ Complete(sirp[s], "success", snote[s])
  /\ SendDone(s)
  /\ UNCHANGED <<initialized, csqVars, listVars, resetVars>>

\* Second critical section: the note is stored if there is room and the
\* lookaside list yields a node, and is dropped otherwise.
SendEnqueue(s) ==
  /\ spc[s] = "lock"
  /\ queued < Capacity
  /\ notification_list' = Append(notification_list, snote[s])
  /\ queued' = queued + 1
  /\ SendDone(s)
  /\ UNCHANGED <<initialized, csqVars, overtaken, irpVars, resetVars>>

SendDropFull(s) ==
  /\ spc[s] = "lock"
  /\ ~(queued < Capacity)
  /\ SendDone(s)
  /\ UNCHANGED <<initialized, csqVars, listVars, irpVars, resetVars>>

SendDropNoMemory(s) ==
  /\ spc[s] = "lock"
  /\ queued < Capacity
  /\ SendDone(s)
  /\ UNCHANGED <<initialized, csqVars, listVars, irpVars, resetVars>>

SendStep(s) ==
  \/ \E k \in DOMAIN irp_list : SendTake(s, k)
  \/ SendNoIrp(s)
  \/ SendComplete(s)
  \/ SendEnqueue(s)
  \/ SendDropFull(s)
  \/ SendDropNoMemory(s)

-----------------------------------------------------------------------------
(* Notification_Recieve.  The client always passes a buffer of the right   *)
(* size, so STATUS_BUFFER_TOO_SMALL is left out.                           *)

RecvBegin(i) ==
  /\ irp[i] = "idle"
  /\ irp' = [irp EXCEPT ![i] = IF initialized THEN "lock" ELSE "notready"]
  /\ UNCHANGED <<initialized, csqVars, listVars, sendVars, buffer, resetVars>>

\* Mutant: RemoveTailList for RemoveHeadList.
RecvPopNewest(i) ==
  /\ irp[i] = "lock"
  /\ notification_list # <<>>
  /\ notification_list' = Front(notification_list)
  /\ queued' = queued - 1
  /\ overtaken' = [overtaken EXCEPT ![Last(notification_list)] = 0]
  /\ Complete(i, "success", Last(notification_list))
  /\ UNCHANGED <<initialized, csqVars, sendVars, resetVars>>

\* Mutant: the head is copied and stays in the list.
RecvPopKeepsNode(i) ==
  /\ irp[i] = "lock"
  /\ notification_list # <<>>
  /\ Complete(i, "success", Head(notification_list))
  /\ UNCHANGED <<initialized, csqVars, listVars, sendVars, resetVars>>

RecvPop(i) ==
  /\ irp[i] = "lock"
  /\ notification_list # <<>>
  /\ notification_list' = Tail(notification_list)
  /\ queued' = queued - 1
  /\ overtaken' = [overtaken EXCEPT ![Head(notification_list)] = 0]
  /\ Complete(i, "success", Head(notification_list))
  /\ UNCHANGED <<initialized, csqVars, sendVars, resetVars>>

\* Mutant: the request is parked without a look at the list.
RecvUnchecked(i) ==
  /\ irp[i] = "lock"
  /\ irp' = [irp EXCEPT ![i] = "insert"]
  /\ UNCHANGED <<initialized, csqVars, listVars, sendVars, buffer, resetVars>>

RecvEmpty(i) ==
  /\ irp[i] = "lock"
  /\ notification_list = <<>>
  /\ irp' = [irp EXCEPT ![i] = "insert"]
  /\ UNCHANGED <<initialized, csqVars, listVars, sendVars, buffer, resetVars>>

RecvInsert(i) ==
  /\ irp[i] = "insert"
  /\ irp_list' = Append(irp_list, i)
  /\ irp' = [irp EXCEPT ![i] = "listed"]
  /\ UNCHANGED <<initialized, cancelling, listVars, sendVars, buffer, resetVars>>

RecvStep(i) == RecvPop(i) \/ RecvEmpty(i) \/ RecvInsert(i)

-----------------------------------------------------------------------------
(* What happens to a request from outside the queue.                       *)

\* The client (or the end of its thread) cancels a parked request: the I/O
\* manager calls the IoCsq cancel routine, which waits for the lock.
CancelIrp(i) ==
  /\ irp[i] = "listed"
  /\ i \notin cancelling
  /\ cancelling' = cancelling \cup {i}
  /\ UNCHANGED <<initialized, irp_list, listVars, sendVars, irpVars, resetVars>>

CompleteCanceledIrp(k) ==
  /\ irp_list[k] \in cancelling
  /\ irp_list' = RemoveAt(irp_list, k)
  /\ cancelling' = cancelling \ {irp_list[k]}
  /\ Complete(irp_list[k], "cancelled", None)
  /\ UNCHANGED <<initialized, listVars, sendVars, resetVars>>

\* The client picks the result up; the request may be issued again.
Reap(i) ==
  /\ irp[i] \in Completed
  /\ Complete(i, "idle", None)
  /\ UNCHANGED <<initialized, csqVars, listVars, sendVars, resetVars>>

-----------------------------------------------------------------------------
(* ResetNotificationQueue, InitNotificationQueue, DestroyNotificationQueue.*)

\* Mutant: the nodes are freed and the counter keeps its value.
ResetDrainKeepsCount ==
  /\ initialized
  /\ rpc = "idle"
  /\ notification_list' = <<>>
  /\ overtaken' = [n \in Notes |-> 0]
  /\ rpc' = "irps"
  /\ UNCHANGED <<initialized, csqVars, queued, sendVars, irpVars, rirp>>

\* Mutant: the counter is cleared and the nodes stay.
ResetDrainCountOnly ==
  /\ initialized
  /\ rpc = "idle"
  /\ queued' = 0
  /\ rpc' = "irps"
  /\ UNCHANGED <<initialized, csqVars, notification_list, overtaken, sendVars,
                 irpVars, rirp>>

ResetDrain ==
  /\ initialized
  /\ rpc = "idle"
  /\ notification_list' = <<>>
  /\ queued' = 0
  /\ overtaken' = [n \in Notes |-> 0]
  /\ rpc' = "irps"
  /\ UNCHANGED <<initialized, csqVars, sendVars, irpVars, rirp>>

ResetTake(k) ==
  /\ rpc = "irps"
  /\ TakeIrp(k)
  /\ irp' = [irp EXCEPT ![irp_list[k]] = "taken"]
  /\ rirp' = irp_list[k]
  /\ rpc' = "complete"
  /\ UNCHANGED <<initialized, listVars, sendVars, buffer>>

ResetComplete ==
  /\ rpc = "complete"
  /\ Complete(rirp, "cancelled", None)
  /\ rirp' = None
  /\ rpc' = "irps"
  /\ UNCHANGED <<initialized, csqVars, listVars, sendVars>>

ResetDone ==
  /\ rpc = "irps"
  /\ NoneTakeable
  /\ rpc' = "idle"
  /\ UNCHANGED <<initialized, csqVars, listVars, sendVars, irpVars, rirp>>

ResetStep == (\E k \in DOMAIN irp_list : ResetTake(k)) \/ ResetComplete \/ ResetDone

\* What the driver owes the queue when it destroys or creates it: no callback
\* is in Notification_Send, no read is pending and no note is left in the
\* lookaside list, which DestroyNotificationQueue deletes after its reset.
Quiet ==
  /\ \A s \in Senders : spc[s] = "idle"
  /\ \A i \in Irps : irp[i] \in Completed \cup {"idle"}
  /\ rpc = "idle"
  /\ irp_list = <<>>
  /\ notification_list = <<>>

DestroyQueue ==
  /\ initialized
  /\ Quiet
  /\ initialized' = FALSE
  /\ UNCHANGED <<csqVars, listVars, sendVars, irpVars, resetVars>>

InitQueue ==
  /\ ~initialized
  /\ Quiet
  /\ initialized' = TRUE
  /\ irp_list' = <<>>
  /\ notification_list' = <<>>
  /\ queued' = 0
  /\ UNCHANGED <<cancelling, overtaken, sendVars, irpVars, resetVars>>

-----------------------------------------------------------------------------

Next ==
  \/ \E s \in Senders, n \in Notes : SendBegin(s, n)
  \/ \E s \in Senders : SendStep(s)
  \/ \E i \in Irps : RecvBegin(i) \/ RecvStep(i) \/ CancelIrp(i) \/ Reap(i)
  \/ \E k \in DOMAIN irp_list : CompleteCanceledIrp(k)
  \/ ResetDrain
  \/ ResetStep
  \/ DestroyQueue
  \/ InitQueue

\* A thread inside the driver runs on; the client reads again after every
\* answer (pbfilter_base::thread_func); the machine keeps making connections.
\* Nobody has to cancel or to reset.
Fairness ==
  /\ \A s \in Senders : WF_queueVars(SendStep(s))
  /\ \A i \in Irps : WF_queueVars(RecvBegin(i) \/ RecvStep(i) \/ Reap(i))
  /\ \A i \in Irps :
       WF_queueVars(\E k \in DOMAIN irp_list : irp_list[k] = i /\ CompleteCanceledIrp(k))
  /\ WF_queueVars(ResetStep)
  /\ WF_queueVars(\E s \in Senders, n \in Notes : SendBegin(s, n))

Spec == QueueInit /\ [][Next]_queueVars
FairSpec == Spec /\ Fairness

-----------------------------------------------------------------------------
(* Properties.                                                             *)

\* The counter that Notification_Send compares with its limit is the length of
\* the list, and the limit holds, however sends, receives and resets overlap.
QueueBounded ==
  /\ queued = Len(notification_list)
  /\ queued <= Capacity

\* Who holds a request: it is parked, or one sender or the reset is about to
\* complete it, never two of them; a running cancel routine owns it while it
\* is still parked.  So IoCompleteRequest is called once for each read.
IrpHeldOnce ==
  /\ IsInjective(irp_list)
  /\ Range(irp_list) = {i \in Irps : irp[i] = "listed"}
  /\ cancelling \subseteq Range(irp_list)
  /\ \A s \in Senders : spc[s] = "complete" =>
       /\ irp[sirp[s]] = "taken"
       /\ sirp[s] # rirp
       /\ \A t \in Senders : sirp[t] = sirp[s] => t = s
  /\ rpc = "complete" => irp[rirp] = "taken"

\* A notification is in one place: with the callback that sends it, at one
\* position of the list, or in the buffer of one read.  None is read twice.
NoteHeldOnce ==
  /\ IsInjective(notification_list)
  /\ \A s, t \in Senders : snote[s] = snote[t] => s = t \/ snote[s] = None
  /\ \A i, j \in Irps : buffer[i] = buffer[j] => i = j \/ buffer[i] = None
  /\ Stored \cap InFlight = {}
  /\ Stored \cap InBuffers = {}
  /\ InFlight \cap InBuffers = {}

\* The emptiness check of a receive and the parking of its request are two
\* critical sections, and so are the two halves of a send: a note can be
\* stored while requests are parked, and newer notes are then read before it.
\* At most one per request can be, because no request parks while it is stored.
BoundedOvertaking ==
  \A n \in Stored : overtaken[n] <= Cardinality(Irps)

\* While connections keep coming, a stored notification does not stay behind.
StoredIsRead == \A n \in Notes : n \in Stored ~> n \notin Stored

\* A cancelled read ends, whatever sends and resets do to the list meanwhile.
CancelEnds == \A i \in Irps : i \in cancelling ~> irp[i] = "cancelled"

\* The queue implements the lossy channel: every read ends at most once, with a
\* note that no other read gets, and a reset or a full list only loses notes.
Pending == Stored \cup InFlight

ReadStage ==
  [i \in Irps |->
     IF irp[i] \in {"lock", "insert", "listed", "taken"} THEN "waiting" ELSE irp[i]]

Channel == INSTANCE NotifyChannel WITH
  Reads <- Irps, pending <- Pending, read <- ReadStage, answer <- buffer

ChannelSpec == Channel!Spec

=============================================================================
