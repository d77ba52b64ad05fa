---------------------------- MODULE FilterClient ----------------------------
(***************************************************************************)
(* The application's end of the driver (pbfilter_base): the lists that it  *)
(* sends, the notifications that it reads, and its shutdown.               *)
(*                                                                         *)
(* A list goes to the driver with pointers into a label buffer of the      *)
(* application.  A notification brings such a pointer back, and the number *)
(* of the list it belongs to: the reader thread follows the pointer only   *)
(* if this is the number of the current list.  The list is replaced        *)
(* without the mutex, by the UI thread (both kinds) or by the thread that  *)
(* updates the lists (the allow list).                                     *)
(*                                                                         *)
(* The reader calls the log with the mutex held, and the log sends window  *)
(* messages, which the UI thread answers only in its message loop.         *)
(*                                                                         *)
(* Two swaps of one vector at the same time are modelled as one after the  *)
(* other; what they could do besides is left out, and so nothing is        *)
(* claimed of a kind of list once two threads have replaced it at once.    *)
(***************************************************************************)
EXTENDS Naturals, Sequences, FiniteSets

CONSTANTS
  MaxSets,    \* bound on the calls of setranges
  QueueBound, \* bound on the notifications in the queue of the driver
  None        \* no list, no notification, no label

ASSUME FilterClientAssumption ==
  /\ MaxSets \in Nat /\ QueueBound \in Nat \ {0}
  /\ None \notin Nat /\ None # "reader"

Kinds == {"allow", "block"}
Families == {"v4", "v6"}
Setters == {"ui", "update"}

\* Buffers are numbered in the order of the calls; 0 stands for one of an earlier client.
Bufs == 0..MaxSets
Lists == [id : Nat, buf : Bufs]
Notes == [kind : Kinds, id : Nat, buf : Bufs]

VARIABLES
  pc,      \* per setter the step it is at
  job,     \* per setter its call of setranges: kind, labelsid, label buffer, new count
  id,      \* m_blocklabelsid, m_allowlabelsid
  held,    \* m_blocklabels, m_allowlabels: the buffer that they own
  alive,   \* label buffers that are not freed
  sets,    \* calls of setranges so far
  driver,  \* per kind and family the list that the driver has
  queue,   \* notifications that have a label
  rpc,     \* the step the reader is at
  note,    \* the notification that the reader has
  shown,   \* the log shows it in its window
  lock,    \* m_lock: who holds it
  action,  \* m_onaction is set
  log,     \* the object it refers to exists
  run, exitevt,  \* m_runthread, m_exitevt
  \* histories:
  at,      \* m_blocklabelsid or m_allowlabelsid as the reader has compared it
  missed,  \* per kind: the driver has not taken over the last list, or a part of it
  raced    \* per kind: two threads have replaced it at once

setVars == <<job, id, held, alive, sets, driver, missed, raced>>
readVars == <<rpc, note, shown, at>>
stopVars == <<action, log, run, exitevt>>
vars == <<pc, setVars, queue, readVars, lock, stopVars>>

\* own: the buffer that the call frees at its end.
Job(k, i, b) == [kind |-> k, id |-> i, buf |-> b, own |-> b, count |-> 0]
NoJob == Job("allow", 0, 0)

Init ==
  /\ pc = [ui |-> "install", update |-> "loop"]
  /\ job = [t \in Setters |-> NoJob]
  /\ id = [k \in Kinds |-> 0]
  /\ held = [k \in Kinds |-> None]
  /\ alive = {} /\ sets = 0
  /\ driver = [k \in Kinds |-> [f \in Families |-> None]]
  /\ queue \in {<<>>} \cup {<<[kind |-> k, id |-> i, buf |-> 0]>> : k \in Kinds, i \in {1}}
  /\ rpc = "check" /\ note = None /\ shown = FALSE /\ at = None
  /\ lock = None
  /\ action = FALSE /\ log = TRUE
  /\ run = TRUE /\ exitevt = FALSE
  /\ missed = [k \in Kinds |-> FALSE] /\ raced = [k \in Kinds |-> FALSE]

-----------------------------------------------------------------------------
(* setranges.                                                              *)

Goto(t, label) == pc' = [pc EXCEPT ![t] = label]

\* Mutant: the number of the current list is used again.
SameId(k) == id[k]
NextId(k) == id[k] + 1

Stages == {"write", "count", "store", "swap", "write6", "free"}
Setting(t, k) == pc[t] \in Stages /\ job[t].kind = k
Overlaps(t, k) == \E u \in Setters \ {t} : Setting(u, k)

\* The labels are in a new buffer, and the number is read.
Begin(t, k) ==
  /\ pc[t] = "loop" /\ sets < MaxSets
  /\ t = "update" => k = "allow"
  /\ sets' = sets + 1
  /\ job' = [job EXCEPT ![t] = Job(k, NextId(k), sets')]
  /\ alive' = alive \cup {sets'}
  /\ raced' = [raced EXCEPT ![k] = @ \/ Overlaps(t, k)]
  /\ Goto(t, "write")
  /\ UNCHANGED <<id, held, driver, missed, queue, readVars, lock, stopVars>>

\* The update thread allows IPv4 addresses only; an empty list has no labels.
MayHave(t, f) == IF t = "update" /\ f = "v6" THEN {FALSE} ELSE BOOLEAN

\* The driver takes over a list; if the pool is empty it keeps the old one and reports
\* success.
SendList(t, f, i) ==
  LET k == job[t].kind
  IN  \E has \in MayHave(t, f), taken \in BOOLEAN :
       LET l == IF has THEN [id |-> i, buf |-> job[t].buf] ELSE None
       IN
        /\ l = None => taken
        /\ driver' = IF taken THEN [driver EXCEPT ![k][f] = l] ELSE driver
        /\ missed' = [missed EXCEPT ![k] = ~taken \/ (f = "v6" /\ @)]

\* The request for the IPv4 ranges succeeds.
WriteRanges(t) ==
  /\ pc[t] = "write"
  /\ SendList(t, "v4", job[t].id)
  /\ Goto(t, "count")
  /\ UNCHANGED <<job, id, held, alive, sets, raced, queue, readVars, lock, stopVars>>

\* It fails: the new buffer is freed, and setranges throws.
WriteFails(t) ==
  /\ pc[t] = "write"
  /\ missed' = [missed EXCEPT ![job[t].kind] = TRUE]
  /\ alive' = alive \ {job[t].buf}
  /\ job' = [job EXCEPT ![t] = NoJob]
  /\ Goto(t, "loop")
  /\ UNCHANGED <<id, held, sets, driver, raced, queue, readVars, lock, stopVars>>

\* ++m_blocklabelsid or ++m_allowlabelsid, a read and a write.
ReadCount(t) ==
  /\ pc[t] = "count"
  /\ job' = [job EXCEPT ![t].count = id[job[t].kind] + 1]
  /\ Goto(t, "store")
  /\ UNCHANGED <<id, held, alive, sets, driver, missed, raced, queue, readVars, lock,
                 stopVars>>

StoreCount(t) ==
  /\ pc[t] = "store"
  /\ id' = [id EXCEPT ![job[t].kind] = job[t].count]
  /\ job' = [job EXCEPT ![t].count = 0]
  /\ Goto(t, "swap")
  /\ UNCHANGED <<held, alive, sets, driver, missed, raced, queue, readVars, lock,
                 stopVars>>

\* From here on the call owns the old buffer.  The IPv6 ranges point into the new one.
SwapLabels(t) ==
  /\ pc[t] = "swap"
  /\ held' = [held EXCEPT ![job[t].kind] = job[t].buf]
  /\ job' = [job EXCEPT ![t].own = held[job[t].kind]]
  /\ Goto(t, "write6")
  /\ UNCHANGED <<id, alive, sets, driver, missed, raced, queue, readVars, lock, stopVars>>

\* The result of this request is ignored.
WriteRanges6(t) ==
  /\ pc[t] = "write6"
  /\ SendList(t, "v6", id[job[t].kind])
  /\ Goto(t, "free")
  /\ UNCHANGED <<job, id, held, alive, sets, raced, queue, readVars, lock, stopVars>>

Return(t) ==
  /\ pc[t] = "free"
  /\ alive' = alive \ {job[t].own}
  /\ job' = [job EXCEPT ![t] = NoJob]
  /\ Goto(t, "loop")
  /\ UNCHANGED <<id, held, sets, driver, missed, raced, queue, readVars, lock,
                 stopVars>>

SetRanges(t) ==
  \/ WriteRanges(t) \/ WriteFails(t)
  \/ ReadCount(t) \/ StoreCount(t) \/ SwapLabels(t)
  \/ WriteRanges6(t) \/ Return(t)

-----------------------------------------------------------------------------
(* The reader thread (thread_func).                                        *)

\* The driver drops a notification when its queue is full.
Notify(k, f) ==
  /\ driver[k][f] # None /\ Len(queue) < QueueBound
  /\ queue' = Append(queue, [kind |-> k, id |-> driver[k][f].id, buf |-> driver[k][f].buf])
  /\ UNCHANGED <<pc, setVars, readVars, lock, stopVars>>

Read ==
  /\ rpc = "check"
  /\ rpc' = IF run THEN "wait" ELSE "ended"
  /\ UNCHANGED <<pc, setVars, queue, note, shown, at, lock, stopVars>>

\* The driver completes the request with the oldest notification.
Complete ==
  /\ rpc \in {"wait", "result"} /\ note = None /\ queue # <<>>
  /\ note' = Head(queue) /\ queue' = Tail(queue)
  /\ UNCHANGED <<pc, setVars, rpc, shown, at, lock, stopVars>>

Wake ==
  /\ rpc = "wait" /\ (note # None \/ exitevt)
  /\ rpc' = IF run THEN "result" ELSE "ended"
  /\ UNCHANGED <<pc, setVars, queue, note, shown, at, lock, stopVars>>

\* getresult waits for the request, and then the mutex is taken.
Lock ==
  /\ rpc = "result" /\ note # None
  /\ lock = None
  /\ lock' = "reader"
  /\ rpc' = "match"
  /\ UNCHANGED <<pc, setVars, queue, note, shown, at, stopVars>>

\* Mutant: the numbers are not compared.
AlwaysMatches == TRUE
Matches == note.id = id[note.kind]

Match ==
  /\ rpc = "match"
  /\ rpc' = IF Matches THEN "copy" ELSE "call"
  /\ at' = IF Matches THEN id[note.kind] ELSE None
  /\ UNCHANGED <<pc, setVars, queue, note, shown, lock, stopVars>>

CopyLabel ==
  /\ rpc = "copy"
  /\ rpc' = "call" /\ at' = None
  /\ UNCHANGED <<pc, setVars, queue, note, shown, lock, stopVars>>

\* The log shows what is blocked, and what is allowed if the user wants that, except
\* connections of the machine with itself.
Call ==
  /\ rpc = "call"
  /\ IF action THEN rpc' = "callback" /\ shown' \in BOOLEAN
               ELSE rpc' = "unlock" /\ UNCHANGED shown
  /\ UNCHANGED <<pc, setVars, queue, note, at, lock, stopVars>>

\* SendMessage returns when the message loop of the UI thread has answered.
Callback ==
  /\ rpc = "callback"
  /\ shown => pc["ui"] = "loop"
  /\ rpc' = "unlock" /\ shown' = FALSE
  /\ UNCHANGED <<pc, setVars, queue, note, at, lock, stopVars>>

Unlock ==
  /\ rpc = "unlock"
  /\ lock' = None /\ note' = None
  /\ rpc' = "check"
  /\ UNCHANGED <<pc, setVars, queue, shown, at, stopVars>>

Reader == Read \/ Wake \/ Lock \/ Match \/ CopyLabel \/ Call \/ Callback \/ Unlock

-----------------------------------------------------------------------------
(* The UI thread: setactionfunc, and the end of the client.                *)

\* setactionfunc, as the log window is created.
Install ==
  /\ pc["ui"] = "install" /\ lock = None
  /\ action' = TRUE
  /\ Goto("ui", "loop")
  /\ UNCHANGED <<setVars, queue, readVars, lock, log, run, exitevt>>

\* The main window is destroyed, and with it the log window.
Destroy ==
  /\ pc["ui"] = "loop"
  /\ Goto("ui", "clear")
  /\ UNCHANGED <<setVars, queue, readVars, lock, stopVars>>

\* Mutant: m_onaction is cleared without the mutex.
ClearsAtOnce == TRUE
MayClear == lock = None

ClearAction ==
  /\ pc["ui"] = "clear" /\ MayClear
  /\ action' = FALSE
  /\ Goto("ui", "drop")
  /\ UNCHANGED <<setVars, queue, readVars, lock, log, run, exitevt>>

DropLog ==
  /\ pc["ui"] = "drop"
  /\ log' = FALSE
  /\ Goto("ui", "stop")
  /\ UNCHANGED <<setVars, queue, readVars, lock, action, run, exitevt>>

\* Mutant: stop_thread sets the event first.
EventFirst == TRUE
RunFirst == FALSE

\* stop_thread, while the filter is destroyed.
StopRun ==
  /\ pc["ui"] = "stop"
  /\ run' = RunFirst /\ exitevt' = RunFirst
  /\ Goto("ui", "signal")
  /\ UNCHANGED <<setVars, queue, readVars, lock, action, log>>

SignalExit ==
  /\ pc["ui"] = "signal"
  /\ run' = FALSE /\ exitevt' = TRUE
  /\ Goto("ui", "join")
  /\ UNCHANGED <<setVars, queue, readVars, lock, action, log>>

Join ==
  /\ pc["ui"] = "join" /\ rpc = "ended"
  /\ Goto("ui", "ended")
  /\ UNCHANGED <<setVars, queue, readVars, lock, stopVars>>

Shutdown == ClearAction \/ DropLog \/ StopRun \/ SignalExit \/ Join

-----------------------------------------------------------------------------

\* The client is gone: its memory is freed.
Gone == pc["ui"] = "ended"

Client ==
  \/ \E t \in Setters : \/ \E k \in Kinds : Begin(t, k)
                        \/ SetRanges(t)
  \/ \E k \in Kinds, f \in Families : Notify(k, f)
  \/ Complete
  \/ Reader
  \/ Install \/ Destroy \/ Shutdown

Next == ~Gone /\ Client

Spec == Init /\ [][Next]_vars

\* The threads are scheduled, the driver completes a request when it can, and a mutex
\* that is free again and again is got at last.
FairSpec ==
  /\ Spec
  /\ WF_vars(~Gone /\ Complete)
  /\ WF_vars(~Gone /\ Reader)
  /\ \A t \in Setters : WF_vars(~Gone /\ SetRanges(t))
  /\ SF_vars(Install) /\ SF_vars(ClearAction)
  /\ WF_vars(DropLog \/ StopRun \/ SignalExit \/ Join)

-----------------------------------------------------------------------------
(* Properties.                                                             *)

InMutex == {"match", "copy", "call", "callback", "unlock"}

SettersTyped ==
  /\ pc \in [Setters -> {"install", "loop", "clear", "drop", "stop", "signal", "join", "ended"}
                       \cup Stages]
  /\ pc["update"] \in {"loop"} \cup Stages
  /\ job \in [Setters -> [kind : Kinds, id : Nat, buf : Bufs, own : Bufs \cup {None},
                         count : Nat]]

ListsTyped ==
  /\ id \in [Kinds -> Nat] /\ held \in [Kinds -> Bufs \cup {None}]
  /\ alive \subseteq Bufs /\ sets \in 0..MaxSets
  /\ driver \in [Kinds -> [Families -> Lists \cup {None}]]
  /\ missed \in [Kinds -> BOOLEAN] /\ raced \in [Kinds -> BOOLEAN]

ReaderTyped ==
  /\ queue \in Seq(Notes)
  /\ note \in Notes \cup {None} /\ (at # None => rpc = "copy")
  /\ rpc \in {"check", "wait", "result", "ended"} \cup InMutex
  /\ lock = IF rpc \in InMutex THEN "reader" ELSE None
  /\ rpc \in InMutex => note # None

\* The mutex is held exactly while a notification is handled.
ClientTypeOK == SettersTyped /\ ListsTyped /\ ReaderTyped

Quiet(k) == \A t \in Setters : ~Setting(t, k)

\* A label that the reader is about to copy is in a buffer that is not freed, as long
\* as the number that it was compared with is the current one.  The reader holds the
\* mutex and setranges does not (pbfilter_base.cpp:199): a list that is replaced between match
\* and copy may free the buffer, and so may two threads that replace one list at
\* once.  A notification for an earlier client is matched like one of this client.
MatchedLabelAlive ==
  rpc = "copy" /\ at = id[note.kind] /\ ~raced[note.kind] /\ note.buf # 0
    => note.buf \in alive

\* When no list is under way the driver has the list that the client thinks it has:
\* a notification made from now on brings a number and a buffer that match.  The
\* exceptions are an old list that the driver has kept, and a list that two threads
\* have replaced at once.
ClientAgrees ==
  \A k \in Kinds, f \in Families :
    Quiet(k) /\ ~raced[k] /\ ~missed[k] /\ driver[k][f] # None
      => driver[k][f] = [id |-> id[k], buf |-> held[k]] /\ held[k] \in alive

\* While the reader calls the log, the log exists, whenever the window is destroyed
\* (logproc.cpp:718).
CallbackHasLog == rpc = "callback" => log

\* The reader waits for the UI thread, and the UI thread for the mutex of the reader:
\* a notification is shown just as the log window is destroyed.
Deadlocked == rpc = "callback" /\ shown /\ pc["ui"] = "clear"

\* The UI thread returns to its message loop after every list that it sends, and the
\* shutdown ends with the reader gone, except in this deadlock (pbfilter_base.cpp:332).
UIReturns == pc["ui"] # "loop" ~> pc["ui"] \in {"loop", "ended"} \/ Deadlocked

=============================================================================
