--------------------------- MODULE NotifyChannel ---------------------------
(***************************************************************************)
(* What the notification queue promises to the two sides that use it: a    *)
(* lossy, unordered channel.  A note that is offered is either lost or is  *)
(* the answer of one read; a read that is started ends once, with a note,  *)
(* cancelled, or refused because the queue is not there.                   *)
(***************************************************************************)
CONSTANTS Reads, Notes, None

VARIABLES
  pending,  \* notes offered and neither lost nor read
  read,     \* per read: "idle", "waiting", or how it ended
  answer    \* per read: the note it returned

vars == <<pending, read, answer>>

Init ==
  /\ pending = {}
  /\ read = [r \in Reads |-> "idle"]
  /\ answer = [r \in Reads |-> None]

Offer(n) ==
  /\ n \notin pending
  /\ \A r \in Reads : answer[r] # n
  /\ pending' = pending \cup {n}
  /\ UNCHANGED <<read, answer>>

Lose(lost) ==
  /\ pending' = pending \ lost
  /\ UNCHANGED <<read, answer>>

Start(r) ==
  /\ read[r] = "idle"
  /\ read' = [read EXCEPT ![r] = "waiting"]
  /\ UNCHANGED <<pending, answer>>

Refuse(r) ==
  /\ read[r] = "idle"
  /\ read' = [read EXCEPT ![r] = "notready"]
  /\ UNCHANGED <<pending, answer>>

Answer(r, n) ==
  /\ read[r] = "waiting"
  /\ n \in pending
  /\ pending' = pending \ {n}
  /\ read' = [read EXCEPT ![r] = "success"]
  /\ answer' = [answer EXCEPT ![r] = n]

Cancel(r) ==
  /\ read[r] = "waiting"
  /\ read' = [read EXCEPT ![r] = "cancelled"]
  /\ UNCHANGED <<pending, answer>>

Reap(r) ==
  /\ read[r] \in {"success", "cancelled", "notready"}
  /\ read' = [read EXCEPT ![r] = "idle"]
  /\ answer' = [answer EXCEPT ![r] = None]
  /\ UNCHANGED pending

Next ==
  \/ \E n \in Notes : Offer(n)
  \/ \E lost \in SUBSET pending : Lose(lost)
  \/ \E r \in Reads :
       \/ Start(r)
       \/ Refuse(r)
       \/ \E n \in pending : Answer(r, n)
       \/ Cancel(r)
       \/ Reap(r)

Spec == Init /\ [][Next]_vars
=============================================================================
