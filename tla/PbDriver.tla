----------------------------- MODULE PbDriver ------------------------------
(***************************************************************************)
(* The WFP filter driver (pbfilter/filter_wfp.c) around its notification   *)
(* queue: the classify callbacks, the device requests of the one client    *)
(* that may have the device open, the cleanup when that client goes away,  *)
(* and loading and unloading of the driver.                                *)
(*                                                                         *)
(* The queue is the module NotifyQueue, with all of its critical sections. *)
(* The lists are what ListStore says of them (FilterLists implements it):  *)
(* a setter replaces one atomically and a lookup reads at one moment.      *)
(* Between two of its reads a callback can be overtaken by anything.       *)
(***************************************************************************)
EXTENDS NotifyQueue

CONSTANTS
  Conns,       \* connections a callback may be called for
  HttpPorts,   \* 80 and 443
  Contents,    \* per list: the contents a client may send
  FlagChoices, \* the sets of flags a client may send
  MaxSessions  \* bound on the number of times the device is opened

Callouts == {"connect4", "accept4", "connect6", "accept6"}
ListNames == {"allowed", "blocked", "allowed6", "blocked6", "destports", "srcports"}
Flags == {"http", "unknown6"}

\* addr and mapped are the keys of the remote address and, for a Teredo or 6to4
\* address, of the IPv4 address in it.
ASSUME DriverAssumption ==
  /\ IsFiniteSet(Senders)
  /\ \A c \in Conns : /\ c.callout \in Callouts
                      /\ c.protocol \in {"tcp", "udp", "other"}
  /\ \A l \in ListNames : {} \in Contents[l]
  /\ FlagChoices \subseteq SUBSET Flags
  /\ MaxSessions \in Nat

VARIABLES
  phase,          \* "unloaded", "entry", "running" or "unloading"
  callouts,       \* registered callouts
  todo,           \* what DriverEntry, cleanup or unload has still to do
  handle,         \* "none", "open", or "closing" from cleanup to close
  session,        \* how often the device was opened
  block, shutting_down, flags, lists,    \* PBINTERNAL
  cpc, conn, action,                     \* per sender: its callback
  cborn,          \* history: session in which the callback began, 0 without a client
  callow,         \* history: the allow list has covered the address ever since
  cexempt,        \* history: a port list has exempted the connection
  born            \* history: per note: session in which its callback began

internalVars == <<block, shutting_down, flags, lists>>
callbackVars == <<cpc, conn, action, cborn>>
historyVars == <<callow, cexempt, born>>
deviceVars == <<phase, callouts, todo, handle, session>>
driverVars == <<deviceVars, internalVars, callbackVars, historyVars>>
vars == <<queueVars, driverVars>>

Clearing ==
  <<"allowed", "blocked", "allowed6", "blocked6", "destports", "srcports">>
EntrySteps == <<"connect4", "accept4", "connect6", "accept6">>

\* Mutants: block stays set; the queue is reset before the callbacks are stopped;
\* it is not reset.
CleanupKeepsBlock == <<"shutting_down">> \o Clearing \o <<"reset", "emptied">>
CleanupResetsFirst == <<"reset", "emptied", "block", "shutting_down">> \o Clearing
CleanupKeepsQueue == <<"block", "shutting_down">> \o Clearing

CleanupSteps == <<"block", "shutting_down">> \o Clearing \o <<"reset", "emptied">>

\* Mutants: the queue is destroyed before the callouts are unregistered; it is
\* destroyed without a reset.
UnloadDestroysFirst ==
  <<"block", "shutting_down">> \o Clearing \o <<"reset", "emptied", "destroy">> \o EntrySteps
UnloadKeepsNotes == <<"block", "shutting_down">> \o EntrySteps \o Clearing \o <<"destroy">>

UnloadSteps ==
  <<"block", "shutting_down">> \o EntrySteps \o Clearing \o <<"reset", "emptied", "destroy">>

\* InstallCallouts unregisters what it has registered, and DriverEntry unloads.
FailedSteps == EntrySteps \o UnloadSteps

CallbackStage ==
  {"idle", "shutting", "destports", "srcports", "http", "ranges", "mapped",
   "send", "sending"}

DeviceTyped ==
  /\ phase \in {"unloaded", "entry", "running", "unloading"}
  /\ callouts \subseteq Callouts
  /\ handle \in {"none", "open", "closing"}
  /\ session \in 0..MaxSessions
  /\ block \in BOOLEAN /\ shutting_down \in BOOLEAN
  /\ flags \subseteq Flags
  /\ lists \in [ListNames -> UNION {Contents[l] : l \in ListNames}]

CallbacksTyped ==
  /\ cpc \in [Senders -> CallbackStage]
  /\ conn \in [Senders -> Conns \cup {None}]
  /\ action \in [Senders -> {0, 1, 2}]
  /\ cborn \in [Senders -> 0..MaxSessions]
  /\ callow \in [Senders -> BOOLEAN] /\ cexempt \in [Senders -> BOOLEAN]
  /\ born \in [Notes -> 0..MaxSessions]

DriverTypeOK == TypeOK /\ DeviceTyped /\ CallbacksTyped

\* The driver has been loaded.
DriverInit ==
  /\ QueueInit
  /\ phase = "running"
  /\ callouts = Callouts
  /\ todo = <<>>
  /\ handle = "none"
  /\ session = 0
  /\ block = FALSE /\ shutting_down = FALSE
  /\ flags = {}
  /\ lists = [l \in ListNames |-> {}]
  /\ cpc = [s \in Senders |-> "idle"]
  /\ conn = [s \in Senders |-> None]
  /\ action = [s \in Senders |-> 0]
  /\ cborn = [s \in Senders |-> 0]
  /\ callow = [s \in Senders |-> FALSE]
  /\ cexempt = [s \in Senders |-> FALSE]
  /\ born = [n \in Notes |-> 0]

-----------------------------------------------------------------------------
(* Histories.                                                              *)

IsV6(c) == c.callout \in {"connect6", "accept6"}
Allowed(c, ls) == c.addr \in ls[IF IsV6(c) THEN "allowed6" ELSE "allowed"]

\* The lists become ls.
Track(ls) == callow' = [s \in Senders |-> callow[s] /\ Allowed(conn[s], ls)]

SetLists(ls) ==
  /\ lists' = ls
  /\ Track(ls)

-----------------------------------------------------------------------------
(* ClassifyV4Connect, ClassifyV4Accept, ClassifyV6Connect, ClassifyV6Accept.*)

Serving(c) == c.callout \in callouts

\* PbIsActive reads block first.  An inactive callback returns without a trace.
ClassifyBegin(s, c) ==
  /\ cpc[s] = "idle"
  /\ Serving(c)
  /\ block
  /\ cpc' = [cpc EXCEPT ![s] = "shutting"]
  /\ conn' = [conn EXCEPT ![s] = c]
  /\ cborn' = [cborn EXCEPT ![s] = IF handle = "none" THEN 0 ELSE session]
  /\ callow' = [callow EXCEPT ![s] = Allowed(c, lists)]
  /\ UNCHANGED <<queueVars, deviceVars, internalVars, action, cexempt, born>>

Idle(s) ==
  /\ cpc' = [cpc EXCEPT ![s] = "idle"]
  /\ conn' = [conn EXCEPT ![s] = None]
  /\ action' = [action EXCEPT ![s] = 0]
  /\ cborn' = [cborn EXCEPT ![s] = 0]
  /\ callow' = [callow EXCEPT ![s] = FALSE]
  /\ cexempt' = [cexempt EXCEPT ![s] = FALSE]

ReadShuttingDown(s) ==
  /\ cpc[s] = "shutting"
  /\ IF shutting_down THEN Idle(s)
     ELSE /\ cpc' = [cpc EXCEPT ![s] = "destports"]
          /\ UNCHANGED <<conn, action, cborn, callow, cexempt>>
  /\ UNCHANGED <<queueVars, deviceVars, internalVars, born>>

\* The callback has its action, or goes on with the next test.
Decide(s, a) == action' = [action EXCEPT ![s] = a]
GoTo(s, stage) == cpc' = [cpc EXCEPT ![s] = stage]
CallbackFrame ==
  UNCHANGED <<queueVars, deviceVars, internalVars, conn, cborn, callow, born>>
StepFrame == CallbackFrame /\ UNCHANGED cexempt
ExemptFrame(s) == CallbackFrame /\ cexempt' = [cexempt EXCEPT ![s] = TRUE]

\* What an action of 2 leads to: for IPv6 there is more to look at.
NoMatch(s) == Decide(s, 2) /\ GoTo(s, IF IsV6(conn[s]) THEN "mapped" ELSE "send")

PortExemptByDestination(s) ==
  /\ cpc[s] = "destports"
  /\ conn[s].protocol # "other"
  /\ conn[s].remotePort \in lists["destports"]
  /\ NoMatch(s)
  /\ ExemptFrame(s)

NotExemptByDestination(s) ==
  /\ cpc[s] = "destports"
  /\ ~(conn[s].protocol # "other" /\ conn[s].remotePort \in lists["destports"])
  /\ GoTo(s, IF conn[s].protocol = "tcp" THEN "srcports" ELSE "http")
  /\ UNCHANGED action
  /\ StepFrame

PortExemptBySource(s) ==
  /\ cpc[s] = "srcports"
  /\ conn[s].localPort \in lists["srcports"]
  /\ NoMatch(s)
  /\ ExemptFrame(s)

NotExemptBySource(s) ==
  /\ cpc[s] = "srcports"
  /\ conn[s].localPort \notin lists["srcports"]
  /\ GoTo(s, "http")
  /\ UNCHANGED action
  /\ StepFrame

HttpPortBlocked(c) ==
  "http" \in flags /\ c.remotePort \in HttpPorts /\ c.protocol # "other"

CheckHttp(s) ==
  /\ cpc[s] = "http"
  /\ IF HttpPortBlocked(conn[s]) THEN Decide(s, 0) /\ GoTo(s, "send")
     ELSE UNCHANGED action /\ GoTo(s, "ranges")
  /\ StepFrame

\* Mutants: a miss of both lists gives an action that filter.h does not know; the
\* block list comes first.
CheckMissUnknown(allow, blocked, key) ==
  IF key \in lists[allow] THEN 1 ELSE IF key \in lists[blocked] THEN 0 ELSE 3

CheckBlockedFirst(allow, blocked, key) ==
  IF key \in lists[blocked] THEN 0 ELSE IF key \in lists[allow] THEN 1 ELSE 2

\* The allow list comes first, in one critical section with the block list.
CheckRanges(allow, blocked, key) ==
  IF key \in lists[allow] THEN 1 ELSE IF key \in lists[blocked] THEN 0 ELSE 2

Ranges(c) ==
  IF IsV6(c) THEN CheckRanges("allowed6", "blocked6", c.addr)
  ELSE CheckRanges("allowed", "blocked", c.addr)

CheckAddress(s) ==
  /\ cpc[s] = "ranges"
  /\ IF Ranges(conn[s]) = 2 THEN NoMatch(s)
     ELSE Decide(s, Ranges(conn[s])) /\ GoTo(s, "send")
  /\ StepFrame

\* IPv6 only, and after a port exemption too.
UnmatchedV6(c) ==
  IF c.mapped # None THEN CheckRanges("allowed", "blocked", c.mapped)
  ELSE IF "unknown6" \in flags THEN 0
  ELSE 2

CheckMapped(s) ==
  /\ cpc[s] = "mapped"
  /\ Decide(s, UnmatchedV6(conn[s]))
  /\ GoTo(s, "send")
  /\ StepFrame

ClassifySend(s, n) ==
  /\ cpc[s] = "send"
  /\ SendBegin(s, n)
  /\ GoTo(s, "sending")
  /\ born' = [born EXCEPT ![n] = cborn[s]]
  /\ UNCHANGED <<deviceVars, internalVars, conn, action, cborn, callow, cexempt>>

\* Notification_Send has returned; so does the callback, with BLOCK or CONTINUE.
ClassifyEnd(s) ==
  /\ cpc[s] = "sending"
  /\ spc[s] = "idle"
  /\ Idle(s)
  /\ UNCHANGED <<queueVars, deviceVars, internalVars, born>>

ClassifyStep(s) ==
  \/ ReadShuttingDown(s)
  \/ PortExemptByDestination(s) \/ NotExemptByDestination(s)
  \/ PortExemptBySource(s) \/ NotExemptBySource(s)
  \/ CheckHttp(s)
  \/ CheckAddress(s)
  \/ CheckMapped(s)
  \/ \E n \in Notes : ClassifySend(s, n)
  \/ ClassifyEnd(s)

-----------------------------------------------------------------------------
(* Driver_OnCreate and Driver_OnDeviceControl.                             *)

\* The device is exclusive: one handle.
Create ==
  /\ phase = "running" /\ handle = "none"
  /\ session < MaxSessions
  /\ handle' = "open"
  /\ session' = session + 1
  /\ shutting_down' = FALSE
  /\ UNCHANGED <<queueVars, phase, callouts, todo, block, flags, lists,
                 callbackVars, historyVars>>

Hook(on) ==
  /\ handle = "open"
  /\ block' = on
  /\ UNCHANGED <<queueVars, deviceVars, shutting_down, flags, lists,
                 callbackVars, historyVars>>

SetList(l, content) ==
  /\ handle = "open"
  /\ SetLists([lists EXCEPT ![l] = content])
  /\ UNCHANGED <<queueVars, deviceVars, block, shutting_down, flags,
                 callbackVars, cexempt, born>>

SetFlags(fs) ==
  /\ handle = "open"
  /\ flags' = fs
  /\ UNCHANGED <<queueVars, deviceVars, block, shutting_down, lists,
                 callbackVars, historyVars>>

\* GETNOTIFICATION
Receive(i) ==
  /\ handle = "open"
  /\ RecvBegin(i)
  /\ UNCHANGED driverVars

-----------------------------------------------------------------------------
(* Driver_OnCleanup, the close request (served by Driver_OnCreate too),    *)
(* Driver_OnUnload and DriverEntry.                                        *)

\* The last handle is closed, by the client or by the end of its process; no
\* thread of it is inside the driver any more, but reads may be parked.
Close ==
  /\ handle = "open"
  /\ \A i \in Irps : irp[i] \notin {"lock", "insert"}
  /\ handle' = "closing"
  /\ todo' = CleanupSteps
  /\ UNCHANGED <<queueVars, phase, callouts, session, internalVars,
                 callbackVars, historyVars>>

Unload ==
  /\ phase = "running" /\ handle = "none"
  /\ phase' = "unloading"
  /\ todo' = UnloadSteps
  /\ UNCHANGED <<queueVars, callouts, handle, session, internalVars,
                 callbackVars, historyVars>>

Do(step) ==
  /\ todo # <<>>
  /\ Head(todo) = step
  /\ todo' = Tail(todo)

ClearBlock ==
  /\ Do("block")
  /\ block' = FALSE
  /\ UNCHANGED <<queueVars, phase, callouts, handle, session, shutting_down, flags,
                 lists, callbackVars, historyVars>>

SetShuttingDown ==
  /\ Do("shutting_down")
  /\ shutting_down' = TRUE
  /\ UNCHANGED <<queueVars, phase, callouts, handle, session, block, flags, lists,
                 callbackVars, historyVars>>

ClearList(l) ==
  /\ Do(l)
  /\ SetLists([lists EXCEPT ![l] = {}])
  /\ UNCHANGED <<queueVars, phase, callouts, handle, session, block, shutting_down,
                 flags, callbackVars, cexempt, born>>

Reset ==
  /\ Do("reset")
  /\ ResetDrain
  /\ UNCHANGED <<phase, callouts, handle, session, internalVars, callbackVars,
                 historyVars>>

ResetEnded ==
  /\ Do("emptied")
  /\ rpc = "idle"
  /\ UNCHANGED <<queueVars, phase, callouts, handle, session, internalVars,
                 callbackVars, historyVars>>

\* FwpsCalloutUnregisterById0 waits for the callbacks of the callout.
Unregister(k) ==
  /\ phase = "unloading"
  /\ Do(k)
  /\ \A s \in Senders : cpc[s] # "idle" => conn[s].callout # k
  /\ callouts' = callouts \ {k}
  /\ UNCHANGED <<queueVars, phase, handle, session, internalVars, callbackVars,
                 historyVars>>

\* DestroyNotificationQueue after its reset; then the device goes.
Destroy ==
  /\ Do("destroy")
  /\ initialized' = FALSE
  /\ phase' = "unloaded"
  /\ UNCHANGED <<csqVars, listVars, sendVars, irpVars, resetVars, callouts, handle,
                 session, internalVars, callbackVars, historyVars>>

\* The close request comes when every read has been completed.
CloseHandle ==
  /\ handle = "closing"
  /\ todo = <<>>
  /\ \A i \in Irps : irp[i] \in Completed \cup {"idle"}
  /\ handle' = "none"
  /\ shutting_down' = FALSE
  /\ UNCHANGED <<queueVars, phase, callouts, todo, session, block, flags, lists,
                 callbackVars, historyVars>>

DriverEntry ==
  /\ phase = "unloaded"
  /\ phase' = "entry"
  /\ todo' = EntrySteps
  /\ initialized' = TRUE
  /\ irp_list' = <<>> /\ notification_list' = <<>> /\ queued' = 0
  /\ block' = FALSE /\ shutting_down' = FALSE /\ flags' = {}
  /\ SetLists([l \in ListNames |-> {}])
  /\ UNCHANGED <<cancelling, overtaken, sendVars, irpVars, resetVars, callouts, handle,
                 session, callbackVars, cexempt, born>>

Register(k) ==
  /\ phase = "entry"
  /\ Do(k)
  /\ callouts' = callouts \cup {k}
  /\ phase' = IF todo' = <<>> THEN "running" ELSE "entry"
  /\ UNCHANGED <<queueVars, handle, session, internalVars, callbackVars, historyVars>>

RegisterFails ==
  /\ phase = "entry"
  /\ todo' = FailedSteps
  /\ phase' = "unloading"
  /\ UNCHANGED <<queueVars, callouts, handle, session, internalVars, callbackVars, historyVars>>

HandlerStep ==
  \/ ClearBlock
  \/ SetShuttingDown
  \/ \E l \in ListNames : ClearList(l)
  \/ Reset \/ ResetEnded
  \/ \E k \in Callouts : Unregister(k)
  \/ Destroy
  \/ \E k \in Callouts : Register(k)

-----------------------------------------------------------------------------

\* Inside the queue.
QueueStep ==
  /\ \/ \E s \in Senders : SendStep(s)
     \/ \E i \in Irps : RecvStep(i) \/ CancelIrp(i) \/ Reap(i)
     \/ \E k \in DOMAIN irp_list : CompleteCanceledIrp(k)
     \/ ResetStep
  /\ UNCHANGED driverVars

ClientStep ==
  \/ Create
  \/ \E on \in BOOLEAN : Hook(on)
  \/ \E l \in ListNames : \E content \in Contents[l] : SetList(l, content)
  \/ \E fs \in FlagChoices : SetFlags(fs)
  \/ \E i \in Irps : Receive(i)
  \/ Close
  \/ CloseHandle

DriverNext ==
  \/ \E s \in Senders, c \in Conns : ClassifyBegin(s, c)
  \/ \E s \in Senders : ClassifyStep(s)
  \/ ClientStep
  \/ HandlerStep
  \/ QueueStep
  \/ Unload \/ DriverEntry \/ RegisterFails

\* What runs inside the driver runs on, and the I/O manager sends the close
\* request when it can.  Nobody has to open, close, unload or cancel.
DriverFairness ==
  /\ \A s \in Senders :
       /\ WF_vars(ClassifyStep(s))
       /\ WF_vars(SendStep(s) /\ UNCHANGED driverVars)
  /\ \A i \in Irps : WF_vars(RecvStep(i) /\ UNCHANGED driverVars)
  /\ WF_vars((\E k \in DOMAIN irp_list : CompleteCanceledIrp(k)) /\ UNCHANGED driverVars)
  /\ WF_vars(ResetStep /\ UNCHANGED driverVars)
  /\ WF_vars(HandlerStep)
  /\ WF_vars(CloseHandle)

DriverSpec == DriverInit /\ [][DriverNext]_vars
FairDriverSpec == DriverSpec /\ DriverFairness

-----------------------------------------------------------------------------
(* Properties.                                                             *)

\* A callback that runs finds the driver's memory and its queue: unload destroys
\* them after the last callout is unregistered, also when DriverEntry has registered
\* only some of them, so that none can be called any more.
NoUseAfterUnload ==
  /\ \A s \in Senders : cpc[s] # "idle" => initialized /\ phase # "unloaded"
  /\ ~initialized => callouts = {}

\* The driver keeps its side of the queue's contract: it creates and destroys the
\* queue only while nothing is in it and nobody is.
QueueSpec == Spec

\* Without a client nothing is filtered: a callback that gets past the test of
\* block has begun before the device was closed.  The close request clears
\* shutting_down again, so it is block that has to stay cleared.
FilterOffWithoutClient ==
  \A s \in Senders : cpc[s] # "idle" => cborn[s] > 0

\* Of an earlier client's notifications a later one finds in the queue at most
\* those of the callbacks that ran across the cleanup, one each.
StaleBounded ==
  Cardinality({n \in Stored : born[n] < session}) <= Cardinality(Senders)

\* The allow list wins: an address that it covers all through the callback is
\* blocked by nothing but the rule for the HTTP ports, whatever happens to the
\* block list and to the ports in between.
BlockedThoughAllowed(s) ==
  /\ cpc[s] \in {"send", "sending"}
  /\ action[s] = 0
  /\ callow[s]
  /\ conn[s].remotePort \notin HttpPorts

AllowListWins == \A s \in Senders : ~BlockedThoughAllowed(s)

\* The same for IPv4, and for IPv6 from ports that are not exempt.
AllowListWinsUnlessExempt ==
  \A s \in Senders : BlockedThoughAllowed(s) => IsV6(conn[s]) /\ cexempt[s]

\* A client that goes away, with reads parked or callbacks running, leaves the
\* device free for the next one.
DeviceIsFreed == handle = "closing" ~> handle = "none"

=============================================================================
