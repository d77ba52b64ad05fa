------------------------- MODULE FilterClientProofs -------------------------
(***************************************************************************)
(* The application's end of the driver, for any number of lists and any    *)
(* length of the queue: the types of its variables, CallbackHasLog,        *)
(* MatchedLabelAlive and ClientAgrees.                                     *)
(*                                                                         *)
(* Three facts carry the last two.  Every label buffer has one owner, a    *)
(* list of the client or a call of setranges, and lives as long as it does *)
(* (Owners).  A call that was alone all the time knows the number that its *)
(* list has or is about to get (Stage).  And of what the driver has, or    *)
(* has sent, only the entries with the current number point into the       *)
(* current buffer (Good).  Where threads wait, one of them can go on       *)
(* (StopInv).                                                              *)
(***************************************************************************)
EXTENDS FilterClient, TLAPS

Active(t) == pc[t] \in Stages

Bounded == \A t \in Setters : Active(t) => job[t].buf \in 1..sets

\* The log window has let go of the client.
Over == pc["ui"] \in {"drop", "stop", "signal", "join", "ended"}

LogInv ==
  /\ action => ~Over
  /\ rpc = "callback" => ~Over
  /\ log <=> pc["ui"] \notin {"stop", "signal", "join", "ended"}

\* A label buffer has one owner, a list of the client or a call of setranges.
HeldAlive == alive \subseteq 1..sets /\ \A k \in Kinds : held[k] \in alive \cup {None}
HeldOnce == \A k, m \in Kinds : held[k] = held[m] => k = m \/ held[k] = None
OwnAlive ==
  \A t \in Setters : Active(t) => /\ job[t].own \in alive \cup {None}
                                  /\ \A k \in Kinds : job[t].own = held[k] => held[k] = None
OwnOnce ==
  \A t, u \in Setters : Active(t) /\ Active(u) /\ job[t].own = job[u].own
                             => t = u \/ job[t].own = None
OwnNew ==
  \A t \in Setters : pc[t] \in {"write", "count", "store", "swap"} => job[t].own = job[t].buf
Owners == HeldAlive /\ HeldOnce /\ OwnAlive /\ OwnOnce /\ OwnNew

\* Nobody else is replacing the list, and nobody has since the call began.
Alone(t) == Active(t) /\ ~raced[job[t].kind]

Single ==
  \A t, u \in Setters : Alone(t) /\ Active(u) /\ job[t].kind = job[u].kind => t = u
Numbered ==
  \A t \in Setters : Alone(t) =>
    /\ pc[t] \in {"write", "count", "store"} => job[t].id = id[job[t].kind] + 1
    /\ pc[t] = "store" => job[t].count = job[t].id
    /\ pc[t] \in {"swap", "write6", "free"} => job[t].id = id[job[t].kind]
HeldNew ==
  \A t \in Setters : Alone(t) /\ pc[t] \in {"write6", "free"} => held[job[t].kind] = job[t].buf
Sent(t, f) == driver[job[t].kind][f] \in {None, [id |-> job[t].id, buf |-> job[t].buf]}
SentV4 ==
  \A t \in Setters : Alone(t) /\ ~missed[job[t].kind] /\ pc[t] # "write" => Sent(t, "v4")
SentV6 ==
  \A t \in Setters : Alone(t) /\ ~missed[job[t].kind] /\ pc[t] = "free" => Sent(t, "v6")
Agrees ==
  \A k \in Kinds, f \in Families :
    Quiet(k) /\ ~raced[k] /\ ~missed[k] /\ driver[k][f] # None
      => driver[k][f] = [id |-> id[k], buf |-> held[k]]
Stage == Single /\ Numbered /\ HeldNew /\ SentV4 /\ SentV6 /\ Agrees

\* Buffer b is the one of the current list of kind k, which the client does not own before
\* the swap.
Current(k, b) ==
  /\ \A t \in Setters : Setting(t, k) /\ pc[t] = "swap" => b = job[t].buf
  /\ (\A t \in Setters : Setting(t, k) => pc[t] # "swap") => b = held[k]

\* What is known of a list with number i and buffer b that the driver has got.
Good(k, i, b) ==
  b # 0 /\ ~raced[k] =>
    \/ i < id[k]
    \/ i = id[k] /\ Current(k, b)
    \/ \E t \in Setters : /\ Setting(t, k) /\ pc[t] \in {"count", "store"}
                          /\ i = job[t].id /\ b = job[t].buf

DriverGood ==
  \A k \in Kinds, f \in Families :
    driver[k][f] # None => Good(k, driver[k][f].id, driver[k][f].buf)
QueueGood == \A n \in 1..Len(queue) : Good(queue[n].kind, queue[n].id, queue[n].buf)
NoteGood ==
  /\ note # None => Good(note.kind, note.id, note.buf)
  /\ rpc = "copy" => at = note.id
Entries == DriverGood /\ QueueGood /\ NoteGood

-----------------------------------------------------------------------------

UI == Install \/ Destroy \/ Shutdown

\* Setter t is at the step of a call that it was at, or is in none.
Stays(t) == pc'[t] = pc[t] \/ (pc[t] \notin Stages /\ pc'[t] \notin Stages)

\* The start and the shutdown happen outside the calls, and leave the lists alone.
LEMMA UIFrame ==
  ASSUME SettersTyped, UI
  PROVE  UNCHANGED <<setVars, queue>> /\ \A t \in Setters : Stays(t)
<1>1. UNCHANGED <<setVars, queue>>
  BY DEF UI, Shutdown, Install, Destroy, ClearAction, DropLog, StopRun, SignalExit, Join
<1>2. PICK from \in {"install", "loop", "clear", "drop", "stop", "signal", "join"},
           to \in {"loop", "clear", "drop", "stop", "signal", "join", "ended"} :
        pc["ui"] = from /\ pc' = [pc EXCEPT !["ui"] = to]
  BY DEF UI, Shutdown, Install, Destroy, ClearAction, DropLog, StopRun, SignalExit, Join,
     Goto
<1>3. \A t \in Setters : Stays(t)
  BY <1>2 DEF Stays, Stages
<1> QED BY <1>1, <1>3

\* The types.
LEMMA TypingNext ==
  ASSUME ClientTypeOK, Bounded, [Next]_vars
  PROVE  (ClientTypeOK /\ Bounded)'
<1> USE FilterClientAssumption DEF ClientTypeOK
<1>1. ASSUME NEW t \in Setters, NEW k \in Kinds, Begin(t, k) PROVE (ClientTypeOK /\ Bounded)'
  <2>1. ReaderTyped'
    BY <1>1 DEF Begin, ReaderTyped, readVars
  <2>2. SettersTyped'
    BY <1>1 DEF Begin, Job, NextId, Goto, SettersTyped, Stages, Bufs, ListsTyped
  <2>3. ListsTyped'
    BY <1>1 DEF Begin, Job, NextId, Goto, ListsTyped, Setters, Kinds, Bufs, SettersTyped
  <2>4. Bounded'
    BY <1>1 DEF Begin, Job, NextId, Goto, Bounded, Active, SettersTyped, ListsTyped,
       Setters, Bufs
  <2> QED BY <2>1, <2>2, <2>3, <2>4
<1>2. ASSUME NEW t \in Setters, WriteRanges(t) PROVE (ClientTypeOK /\ Bounded)'
  <2>1. ReaderTyped'
    BY <1>2 DEF WriteRanges, ReaderTyped, readVars
  <2>2. SettersTyped'
    BY <1>2 DEF WriteRanges, Goto, SettersTyped, Stages
  <2>3. ListsTyped'
    BY <1>2 DEF WriteRanges, SendList, ListsTyped, Lists, Families, SettersTyped
  <2>4. Bounded'
    BY <1>2 DEF WriteRanges, Goto, Bounded, Active, SettersTyped
  <2> QED BY <2>1, <2>2, <2>3, <2>4
<1>3. ASSUME NEW t \in Setters, WriteFails(t) PROVE (ClientTypeOK /\ Bounded)'
  <2>1. ReaderTyped'
    BY <1>3 DEF WriteFails, ReaderTyped, readVars
  <2>2. SettersTyped'
    BY <1>3 DEF WriteFails, NoJob, Job, Goto, SettersTyped, Setters, Kinds, Bufs
  <2>3. ListsTyped'
    BY <1>3 DEF WriteFails, ListsTyped
  <2>4. Bounded'
    BY <1>3 DEF WriteFails, Goto, Bounded, Active, SettersTyped, Stages, Setters
  <2> QED BY <2>1, <2>2, <2>3, <2>4
<1>4. ASSUME NEW t \in Setters, ReadCount(t) PROVE (ClientTypeOK /\ Bounded)'
  <2>1. ListsTyped' /\ ReaderTyped'
    BY <1>4 DEF ReadCount, ListsTyped, ReaderTyped, readVars
  <2>2. SettersTyped'
    BY <1>4 DEF ReadCount, Goto, SettersTyped, Stages, Kinds, ListsTyped
  <2>3. Bounded'
    BY <1>4 DEF ReadCount, Goto, Bounded, Active, SettersTyped
  <2> QED BY <2>1, <2>2, <2>3
<1>5. ASSUME NEW t \in Setters, StoreCount(t) PROVE (ClientTypeOK /\ Bounded)'
  <2>1. ReaderTyped'
    BY <1>5 DEF StoreCount, ReaderTyped, readVars
  <2>2. SettersTyped'
    BY <1>5 DEF StoreCount, Goto, SettersTyped, Stages
  <2>3. ListsTyped'
    BY <1>5 DEF StoreCount, ListsTyped, SettersTyped
  <2>4. Bounded'
    BY <1>5 DEF StoreCount, Goto, Bounded, Active, SettersTyped
  <2> QED BY <2>1, <2>2, <2>3, <2>4
<1>6. ASSUME NEW t \in Setters, SwapLabels(t) PROVE (ClientTypeOK /\ Bounded)'
  <2>1. ReaderTyped'
    BY <1>6 DEF SwapLabels, ReaderTyped, readVars
  <2>2. SettersTyped'
    <3>1. job[t].kind \in Kinds /\ held[job[t].kind] \in Bufs \cup {None}
      BY <1>6 DEF SettersTyped, ListsTyped
    <3> QED BY <1>6, <3>1 DEF SwapLabels, Goto, SettersTyped, Stages
  <2>3. ListsTyped'
    BY <1>6 DEF SwapLabels, ListsTyped, SettersTyped
  <2>4. Bounded'
    BY <1>6 DEF SwapLabels, Goto, Bounded, Active, SettersTyped
  <2> QED BY <2>1, <2>2, <2>3, <2>4
<1>7. ASSUME NEW t \in Setters, WriteRanges6(t) PROVE (ClientTypeOK /\ Bounded)'
  <2>1. ReaderTyped'
    BY <1>7 DEF WriteRanges6, ReaderTyped, readVars
  <2>2. SettersTyped'
    BY <1>7 DEF WriteRanges6, Goto, SettersTyped, Stages
  <2>3. ListsTyped'
    BY <1>7 DEF WriteRanges6, SendList, ListsTyped, Lists, Families, SettersTyped
  <2>4. Bounded'
    BY <1>7 DEF WriteRanges6, Goto, Bounded, Active, SettersTyped
  <2> QED BY <2>1, <2>2, <2>3, <2>4
<1>8. ASSUME NEW t \in Setters, Return(t) PROVE (ClientTypeOK /\ Bounded)'
  <2>1. ReaderTyped'
    BY <1>8 DEF Return, ReaderTyped, readVars
  <2>2. SettersTyped'
    BY <1>8 DEF Return, NoJob, Job, Goto, SettersTyped, Setters, Kinds, Bufs
  <2>3. ListsTyped'
    BY <1>8 DEF Return, ListsTyped
  <2>4. Bounded'
    BY <1>8 DEF Return, Goto, Bounded, Active, SettersTyped, Stages, Setters
  <2> QED BY <2>1, <2>2, <2>3, <2>4
<1>9. ASSUME NEW k \in Kinds, NEW f \in Families, Notify(k, f) PROVE (ClientTypeOK /\ Bounded)'
  <2>1. SettersTyped' /\ ListsTyped' /\ Bounded'
    BY <1>9 DEF Notify, SettersTyped, ListsTyped, Bounded, Active, setVars
  <2>2. ReaderTyped'
    BY <1>9 DEF Notify, ReaderTyped, Lists, Notes, ListsTyped, readVars
  <2> QED BY <2>1, <2>2
<1>10. CASE Complete
  <2>1. SettersTyped' /\ ListsTyped' /\ Bounded'
    BY <1>10 DEF Complete, SettersTyped, ListsTyped, Bounded, Active, setVars
  <2>2. ReaderTyped'
    BY <1>10 DEF Complete, ReaderTyped
  <2> QED BY <2>1, <2>2
<1>11. CASE Read
  <2>1. SettersTyped' /\ ListsTyped' /\ Bounded'
    BY <1>11 DEF Read, SettersTyped, ListsTyped, Bounded, Active, setVars
  <2>2. ReaderTyped'
    BY <1>11 DEF Read, ReaderTyped, InMutex
  <2> QED BY <2>1, <2>2
<1>12. CASE Wake
  <2>1. SettersTyped' /\ ListsTyped' /\ Bounded'
    BY <1>12 DEF Wake, SettersTyped, ListsTyped, Bounded, Active, setVars
  <2>2. ReaderTyped'
    BY <1>12 DEF Wake, ReaderTyped, InMutex
  <2> QED BY <2>1, <2>2
<1>13. CASE Lock
  <2>1. SettersTyped' /\ ListsTyped' /\ Bounded'
    BY <1>13 DEF Lock, SettersTyped, ListsTyped, Bounded, Active, setVars
  <2>2. ReaderTyped'
    BY <1>13 DEF Lock, ReaderTyped, InMutex
  <2> QED BY <2>1, <2>2
<1>14. CASE Match
  <2>1. SettersTyped' /\ ListsTyped' /\ Bounded'
    BY <1>14 DEF Match, SettersTyped, ListsTyped, Bounded, Active, setVars
  <2>2. ReaderTyped'
    BY <1>14 DEF Match, ReaderTyped, InMutex
  <2> QED BY <2>1, <2>2
<1>15. CASE CopyLabel
  <2>1. SettersTyped' /\ ListsTyped' /\ Bounded'
    BY <1>15 DEF CopyLabel, SettersTyped, ListsTyped, Bounded, Active, setVars
  <2>2. ReaderTyped'
    BY <1>15 DEF CopyLabel, ReaderTyped, InMutex
  <2> QED BY <2>1, <2>2
<1>16. CASE Call
  <2>1. SettersTyped' /\ ListsTyped' /\ Bounded'
    BY <1>16 DEF Call, SettersTyped, ListsTyped, Bounded, Active, setVars
  <2>2. ReaderTyped'
    BY <1>16 DEF Call, ReaderTyped, InMutex
  <2> QED BY <2>1, <2>2
<1>17. CASE Callback
  <2>1. SettersTyped' /\ ListsTyped' /\ Bounded'
    BY <1>17 DEF Callback, SettersTyped, ListsTyped, Bounded, Active, setVars
  <2>2. ReaderTyped'
    BY <1>17 DEF Callback, ReaderTyped, InMutex
  <2> QED BY <2>1, <2>2
<1>18. CASE Unlock
  <2>1. SettersTyped' /\ ListsTyped' /\ Bounded'
    BY <1>18 DEF Unlock, SettersTyped, ListsTyped, Bounded, Active, setVars
  <2>2. ReaderTyped'
    BY <1>18 DEF Unlock, ReaderTyped, InMutex
  <2> QED BY <2>1, <2>2
<1>19. CASE Install
  <2>1. ListsTyped' /\ ReaderTyped'
    BY <1>19 DEF Install, ListsTyped, ReaderTyped, setVars, readVars
  <2>2. SettersTyped'
    BY <1>19 DEF Install, Goto, SettersTyped, Setters, setVars
  <2>3. Bounded'
    BY <1>19 DEF Install, Goto, Bounded, Active, Stages, setVars
  <2> QED BY <2>1, <2>2, <2>3
<1>20. CASE Destroy
  <2>1. ListsTyped' /\ ReaderTyped'
    BY <1>20 DEF Destroy, ListsTyped, ReaderTyped, setVars, readVars
  <2>2. SettersTyped'
    BY <1>20 DEF Destroy, Goto, SettersTyped, Setters, setVars
  <2>3. Bounded'
    BY <1>20 DEF Destroy, Goto, Bounded, Active, Stages, setVars
  <2> QED BY <2>1, <2>2, <2>3
<1>21. CASE ClearAction
  <2>1. ListsTyped' /\ ReaderTyped'
    BY <1>21 DEF ClearAction, ListsTyped, ReaderTyped, setVars, readVars
  <2>2. SettersTyped'
    BY <1>21 DEF ClearAction, Goto, SettersTyped, Setters, setVars
  <2>3. Bounded'
    BY <1>21 DEF ClearAction, Goto, Bounded, Active, Stages, setVars
  <2> QED BY <2>1, <2>2, <2>3
<1>22. CASE DropLog
  <2>1. ListsTyped' /\ ReaderTyped'
    BY <1>22 DEF DropLog, ListsTyped, ReaderTyped, setVars, readVars
  <2>2. SettersTyped'
    BY <1>22 DEF DropLog, Goto, SettersTyped, Setters, setVars
  <2>3. Bounded'
    BY <1>22 DEF DropLog, Goto, Bounded, Active, Stages, setVars
  <2> QED BY <2>1, <2>2, <2>3
<1>23. CASE StopRun
  <2>1. ListsTyped' /\ ReaderTyped'
    BY <1>23 DEF StopRun, ListsTyped, ReaderTyped, setVars, readVars
  <2>2. SettersTyped'
    BY <1>23 DEF StopRun, Goto, SettersTyped, Setters, setVars
  <2>3. Bounded'
    BY <1>23 DEF StopRun, Goto, Bounded, Active, Stages, setVars
  <2> QED BY <2>1, <2>2, <2>3
<1>24. CASE SignalExit
  <2>1. ListsTyped' /\ ReaderTyped'
    BY <1>24 DEF SignalExit, ListsTyped, ReaderTyped, setVars, readVars
  <2>2. SettersTyped'
    BY <1>24 DEF SignalExit, Goto, SettersTyped, Setters, setVars
  <2>3. Bounded'
    BY <1>24 DEF SignalExit, Goto, Bounded, Active, Stages, setVars
  <2> QED BY <2>1, <2>2, <2>3
<1>25. CASE Join
  <2>1. ListsTyped' /\ ReaderTyped'
    BY <1>25 DEF Join, ListsTyped, ReaderTyped, setVars, readVars
  <2>2. SettersTyped'
    BY <1>25 DEF Join, Goto, SettersTyped, Setters, setVars
  <2>3. Bounded'
    BY <1>25 DEF Join, Goto, Bounded, Active, Stages, setVars
  <2> QED BY <2>1, <2>2, <2>3
<1>26. CASE UNCHANGED vars
  BY <1>26 DEF vars, SettersTyped, ListsTyped, ReaderTyped, Bounded, Active, setVars,
     readVars
<1> QED
  BY <1>1, <1>2, <1>3, <1>4, <1>5, <1>6, <1>7, <1>8, <1>9, <1>10, <1>11, <1>12, <1>13,
     <1>14, <1>15, <1>16, <1>17, <1>18, <1>19, <1>20, <1>21, <1>22, <1>23, <1>24, <1>25,
     <1>26 DEF Next, Client, SetRanges, Reader, Shutdown

\* The action function, the log and the mutex.
LEMMA LogNext ==
  ASSUME ClientTypeOK, LogInv, [Next]_vars
  PROVE  LogInv'
<1> USE FilterClientAssumption DEF ClientTypeOK, LogInv
<1>1. ASSUME NEW t \in Setters, NEW k \in Kinds, Begin(t, k) PROVE LogInv'
  <2>1. LogInv'
    BY <1>1 DEF Begin, Goto, LogInv, Over, ReaderTyped, readVars, stopVars
  <2> QED BY <2>1
<1>2. ASSUME NEW t \in Setters, WriteRanges(t) PROVE LogInv'
  <2>1. LogInv'
    BY <1>2 DEF WriteRanges, Goto, LogInv, Over, readVars, stopVars
  <2> QED BY <2>1
<1>3. ASSUME NEW t \in Setters, WriteFails(t) PROVE LogInv'
  <2>1. LogInv'
    BY <1>3 DEF WriteFails, Goto, LogInv, Over, ReaderTyped, readVars, stopVars
  <2> QED BY <2>1
<1>4. ASSUME NEW t \in Setters, ReadCount(t) PROVE LogInv'
  <2>1. LogInv'
    BY <1>4 DEF ReadCount, Goto, LogInv, Over, readVars, stopVars
  <2> QED BY <2>1
<1>5. ASSUME NEW t \in Setters, StoreCount(t) PROVE LogInv'
  <2>1. LogInv'
    BY <1>5 DEF StoreCount, Goto, LogInv, Over, readVars, stopVars
  <2> QED BY <2>1
<1>6. ASSUME NEW t \in Setters, SwapLabels(t) PROVE LogInv'
  <2>1. LogInv'
    BY <1>6 DEF SwapLabels, Goto, LogInv, Over, readVars, stopVars
  <2> QED BY <2>1
<1>7. ASSUME NEW t \in Setters, WriteRanges6(t) PROVE LogInv'
  <2>1. LogInv'
    BY <1>7 DEF WriteRanges6, Goto, LogInv, Over, readVars, stopVars
  <2> QED BY <2>1
<1>8. ASSUME NEW t \in Setters, Return(t) PROVE LogInv'
  <2>1. LogInv'
    BY <1>8 DEF Return, Goto, LogInv, Over, ReaderTyped, readVars, stopVars
  <2> QED BY <2>1
<1>9. ASSUME NEW k \in Kinds, NEW f \in Families, Notify(k, f) PROVE LogInv'
  BY <1>9 DEF Notify, LogInv, Over, readVars, stopVars
<1>10. CASE Read
  <2>1. LogInv'
    BY <1>10 DEF Read, LogInv, Over, stopVars
  <2> QED BY <2>1
<1>11. CASE Wake
  <2>1. LogInv'
    BY <1>11 DEF Wake, LogInv, Over, stopVars
  <2> QED BY <2>1
<1>12. CASE Lock
  <2>1. LogInv'
    BY <1>12 DEF Lock, LogInv, Over, stopVars
  <2> QED BY <2>1
<1>13. CASE Match
  <2>1. LogInv'
    BY <1>13 DEF Match, LogInv, Over, stopVars
  <2> QED BY <2>1
<1>14. CASE CopyLabel
  <2>1. LogInv'
    BY <1>14 DEF CopyLabel, LogInv, Over, stopVars
  <2> QED BY <2>1
<1>15. CASE Call
  <2>1. LogInv'
    BY <1>15 DEF Call, LogInv, Over, stopVars
  <2> QED BY <2>1
<1>16. CASE Callback
  <2>1. LogInv'
    BY <1>16 DEF Callback, LogInv, Over, stopVars
  <2> QED BY <2>1
<1>17. CASE Unlock
  <2>1. LogInv'
    BY <1>17 DEF Unlock, LogInv, Over, stopVars
  <2> QED BY <2>1
<1>18. CASE Install
  <2>1. LogInv'
    BY <1>18 DEF Install, Goto, LogInv, Over
  <2> QED BY <2>1
<1>19. CASE Destroy
  <2>1. LogInv'
    BY <1>19 DEF Destroy, Goto, LogInv, Over, stopVars
  <2> QED BY <2>1
<1>20. CASE ClearAction
  <2>1. LogInv'
    BY <1>20 DEF ClearAction, MayClear, Goto, LogInv, Over, ReaderTyped, readVars
  <2> QED BY <2>1
<1>21. CASE DropLog
  <2>1. LogInv'
    BY <1>21 DEF DropLog, Goto, LogInv, Over, SettersTyped, Setters, readVars
  <2> QED BY <2>1
<1>22. CASE StopRun
  <2>1. LogInv'
    BY <1>22 DEF StopRun, Goto, LogInv, Over, readVars
  <2> QED BY <2>1
<1>23. CASE SignalExit
  <2>1. LogInv'
    BY <1>23 DEF SignalExit, Goto, LogInv, Over, readVars
  <2> QED BY <2>1
<1>24. CASE Join
  <2>1. LogInv'
    BY <1>24 DEF Join, Goto, LogInv, Over, readVars, stopVars
  <2> QED BY <2>1
<1>25. CASE Complete
  <2>1. UNCHANGED <<pc, rpc, action, log>>
    BY <1>25 DEF Complete, stopVars
  <2> QED
    BY <2>1 DEF LogInv, Over
<1>26. CASE UNCHANGED vars
  BY <1>26 DEF vars, LogInv, Over, readVars, stopVars
<1> QED
  BY <1>1, <1>2, <1>3, <1>4, <1>5, <1>6, <1>7, <1>8, <1>9, <1>10, <1>11, <1>12, <1>13,
     <1>14, <1>15, <1>16, <1>17, <1>18, <1>19, <1>20, <1>21, <1>22, <1>23, <1>24, <1>25,
     <1>26 DEF Next, Client, SetRanges, Reader, Shutdown

\* Every label buffer has one owner.
LEMMA OwnersNext ==
  ASSUME ClientTypeOK, Bounded, Owners, [Next]_vars
  PROVE  Owners'
<1> USE FilterClientAssumption DEF ClientTypeOK, Owners
<1>1. ASSUME NEW t \in Setters, NEW k \in Kinds, Begin(t, k) PROVE Owners'
  <2>1. HeldAlive'
    <3>1. sets \in Nat
      BY DEF ListsTyped
    <3>2. alive \subseteq 1..sets /\ sets' = sets + 1 /\ alive' = alive \cup {sets'}
      BY <1>1 DEF Begin, HeldAlive
    <3>3. alive' \subseteq 1..sets'
      BY <3>1, <3>2
    <3>4. \A m \in Kinds : held'[m] \in alive' \cup {None}
      BY <1>1 DEF Begin, HeldAlive
    <3> QED BY <3>3, <3>4 DEF HeldAlive
  <2>2. OwnAlive'
    BY <1>1 DEF Begin, Job, NextId, Goto, OwnAlive, Active, SettersTyped, ListsTyped,
       HeldAlive
  <2>3. OwnOnce'
    BY <1>1 DEF Begin, Job, NextId, Goto, OwnOnce, Active, SettersTyped, ListsTyped,
       OwnAlive, HeldAlive
  <2>4. OwnNew'
    BY <1>1 DEF Begin, Job, NextId, Goto, OwnNew, SettersTyped, ListsTyped, Active
  <2>5. HeldOnce'
    BY <1>1 DEF Begin, HeldOnce
  <2> QED BY <2>1, <2>2, <2>3, <2>4, <2>5
<1>2. ASSUME NEW t \in Setters, WriteRanges(t) PROVE Owners'
  <2>1. OwnAlive'
    BY <1>2 DEF WriteRanges, Goto, OwnAlive, Active, SettersTyped, ListsTyped
  <2>2. OwnOnce'
    BY <1>2 DEF WriteRanges, Goto, OwnOnce, Active, SettersTyped, ListsTyped
  <2>3. OwnNew'
    BY <1>2 DEF WriteRanges, Goto, OwnNew, SettersTyped, ListsTyped, Active
  <2>4. HeldAlive' /\ HeldOnce'
    BY <1>2 DEF WriteRanges, HeldAlive, HeldOnce
  <2> QED BY <2>1, <2>2, <2>3, <2>4
<1>3. ASSUME NEW t \in Setters, WriteFails(t) PROVE Owners'
  <2>1. HeldAlive'
    BY <1>3 DEF WriteFails, HeldAlive, SettersTyped, ListsTyped, OwnNew, OwnAlive, Active
  <2>2. OwnAlive'
    BY <1>3 DEF WriteFails, Goto, OwnAlive, Active, SettersTyped, ListsTyped, Stages,
       OwnNew, HeldOnce, OwnOnce
  <2>3. OwnOnce'
    BY <1>3 DEF WriteFails, Goto, OwnOnce, Active, SettersTyped, ListsTyped, Stages, OwnNew
  <2>4. OwnNew'
    BY <1>3 DEF WriteFails, Goto, OwnNew, SettersTyped, ListsTyped, Active
  <2>5. HeldOnce'
    BY <1>3 DEF WriteFails, HeldOnce
  <2> QED BY <2>1, <2>2, <2>3, <2>4, <2>5
<1>4. ASSUME NEW t \in Setters, ReadCount(t) PROVE Owners'
  <2>1. OwnAlive'
    BY <1>4 DEF ReadCount, Goto, OwnAlive, Active, SettersTyped
  <2>2. OwnOnce'
    BY <1>4 DEF ReadCount, Goto, OwnOnce, Active, SettersTyped, ListsTyped, Stages
  <2>3. OwnNew'
    BY <1>4 DEF ReadCount, Goto, OwnNew, SettersTyped, Active
  <2>4. HeldAlive' /\ HeldOnce'
    BY <1>4 DEF ReadCount, HeldAlive, HeldOnce
  <2> QED BY <2>1, <2>2, <2>3, <2>4
<1>5. ASSUME NEW t \in Setters, StoreCount(t) PROVE Owners'
  <2>1. OwnAlive'
    BY <1>5 DEF StoreCount, Goto, OwnAlive, Active, SettersTyped
  <2>2. OwnOnce'
    BY <1>5 DEF StoreCount, Goto, OwnOnce, Active, SettersTyped, ListsTyped, OwnAlive
  <2>3. OwnNew'
    BY <1>5 DEF StoreCount, Goto, OwnNew, SettersTyped, Active
  <2>4. HeldAlive' /\ HeldOnce'
    BY <1>5 DEF StoreCount, HeldAlive, HeldOnce
  <2> QED BY <2>1, <2>2, <2>3, <2>4
<1>6. ASSUME NEW t \in Setters, SwapLabels(t) PROVE Owners'
  <2>1. HeldAlive'
    BY <1>6 DEF SwapLabels, HeldAlive, SettersTyped, OwnNew, OwnAlive, Active
  <2>2. HeldOnce'
    BY <1>6 DEF SwapLabels, HeldOnce, SettersTyped, ListsTyped, Stages, OwnNew, OwnAlive,
       Active
  <2>3. OwnAlive'
    BY <1>6 DEF SwapLabels, Goto, OwnAlive, Active, SettersTyped, ListsTyped, Stages,
       OwnNew, HeldAlive, HeldOnce, OwnOnce
  <2>4. OwnOnce'
    BY <1>6 DEF SwapLabels, Goto, OwnOnce, Active, SettersTyped, ListsTyped, OwnAlive
  <2>5. OwnNew'
    BY <1>6 DEF SwapLabels, Goto, OwnNew, SettersTyped, Active
  <2> QED BY <2>1, <2>2, <2>3, <2>4, <2>5
<1>7. ASSUME NEW t \in Setters, WriteRanges6(t) PROVE Owners'
  <2>1. OwnAlive'
    BY <1>7 DEF WriteRanges6, Goto, OwnAlive, Active, SettersTyped, ListsTyped
  <2>2. OwnOnce'
    BY <1>7 DEF WriteRanges6, Goto, OwnOnce, Active, SettersTyped, ListsTyped
  <2>3. OwnNew'
    BY <1>7 DEF WriteRanges6, Goto, OwnNew, SettersTyped, ListsTyped, Active
  <2>4. HeldAlive' /\ HeldOnce'
    BY <1>7 DEF WriteRanges6, HeldAlive, HeldOnce
  <2> QED BY <2>1, <2>2, <2>3, <2>4
<1>8. ASSUME NEW t \in Setters, Return(t) PROVE Owners'
  <2>1. HeldAlive'
    BY <1>8 DEF Return, HeldAlive, SettersTyped, ListsTyped, OwnNew, OwnAlive, Active
  <2>2. OwnAlive'
    BY <1>8 DEF Return, Goto, OwnAlive, Active, SettersTyped, ListsTyped, Stages, OwnNew,
       HeldOnce, OwnOnce
  <2>3. OwnOnce'
    BY <1>8 DEF Return, Goto, OwnOnce, Active, SettersTyped, ListsTyped, Stages, OwnNew
  <2>4. OwnNew'
    BY <1>8 DEF Return, Goto, OwnNew, SettersTyped, ListsTyped, Active
  <2>5. HeldOnce'
    BY <1>8 DEF Return, HeldOnce
  <2> QED BY <2>1, <2>2, <2>3, <2>4, <2>5
<1>9. ASSUME NEW k \in Kinds, NEW f \in Families, Notify(k, f) PROVE Owners'
  BY <1>9 DEF Notify, HeldAlive, HeldOnce, OwnAlive, OwnOnce, OwnNew, Active, setVars
<1>10. CASE Complete \/ Read \/ Wake \/ Lock \/ Match \/ CopyLabel \/ Call \/ Callback \/
          Unlock
  <2>1. UNCHANGED <<pc, job, held, alive, sets>>
    BY <1>10 DEF Complete, Read, Wake, Lock, Match, CopyLabel, Call, Callback, Unlock,
       setVars
  <2> QED
    BY <2>1 DEF HeldAlive, HeldOnce, OwnAlive, OwnOnce, OwnNew, Active
<1>11. CASE UI
  <2>1. UNCHANGED setVars /\ \A t \in Setters : Stays(t)
    BY <1>11, UIFrame
  <2>2. HeldAlive'
    BY <2>1 DEF HeldAlive, Stays, setVars
  <2>3. HeldOnce'
    BY <2>1 DEF HeldOnce, Stays, setVars
  <2>4. OwnAlive'
    BY <2>1 DEF OwnAlive, Active, Stays, setVars
  <2>5. OwnOnce'
    BY <2>1 DEF OwnOnce, Active, Stays, setVars
  <2>6. OwnNew'
    BY <2>1 DEF OwnNew, Stays, Stages, setVars
  <2> QED BY <2>2, <2>3, <2>4, <2>5, <2>6
<1>12. CASE UNCHANGED vars
  BY <1>12 DEF vars, HeldAlive, HeldOnce, OwnAlive, OwnOnce, OwnNew, Active, setVars
<1> QED
  BY <1>1, <1>2, <1>3, <1>4, <1>5, <1>6, <1>7, <1>8, <1>9, <1>10, <1>11, <1>12 DEF Next,
     Client, SetRanges, Reader, Shutdown, UI

\* A call that is alone knows the number and the buffer that its list gets.
LEMMA StageNext ==
  ASSUME ClientTypeOK, Stage, [Next]_vars
  PROVE  Stage'
<1> USE FilterClientAssumption DEF ClientTypeOK, Stage
<1>1. ASSUME NEW t \in Setters, NEW k \in Kinds, Begin(t, k) PROVE Stage'
  <2>1. Single'
    <3> SUFFICES ASSUME NEW u \in Setters, NEW v \in Setters, u # v,
                        Alone(u)', Active(v)', job'[u].kind = job'[v].kind
                 PROVE  FALSE
      BY DEF Single
    <3>1. /\ \A w \in Setters \ {t} : job'[w] = job[w] /\ pc'[w] = pc[w]
          /\ job'[t].kind = k
          /\ raced'[k] = (raced[k] \/ Overlaps(t, k))
          /\ \A m \in Kinds : raced[m] => raced'[m]
          /\ job'[u].kind \in Kinds
      BY <1>1 DEF Begin, Job, Goto, SettersTyped, ListsTyped
    <3>2. CASE u = t \/ v = t
      <4>1. Overlaps(t, k)
        BY <3>1, <3>2 DEF Overlaps, Setting, Alone, Active
      <4> QED BY <3>1, <3>2, <4>1 DEF Alone
    <3>3. CASE u # t /\ v # t
      <4>1. Alone(u) /\ Active(v) /\ job[u].kind = job[v].kind
        BY <3>1, <3>3 DEF Alone, Active
      <4> QED BY <4>1 DEF Single
    <3> QED BY <3>2, <3>3
  <2>2. Numbered'
    BY <1>1 DEF Begin, Job, NextId, Goto, Numbered, Alone, Active, SettersTyped, ListsTyped
  <2>3. HeldNew'
    BY <1>1 DEF Begin, NextId, Goto, HeldNew, Alone, Active, ListsTyped
  <2>4. SentV4'
    BY <1>1 DEF Begin, NextId, Goto, SentV4, Alone, Active, Sent, SettersTyped, ListsTyped,
       Numbered
  <2>5. SentV6'
    BY <1>1 DEF Begin, NextId, Goto, SentV6, Alone, Active, Sent, ListsTyped, Single,
       Numbered
  <2>6. Agrees'
    BY <1>1 DEF Begin, NextId, Goto, Agrees, Quiet, Setting, ListsTyped, Stages, Alone
  <2> QED BY <2>1, <2>2, <2>3, <2>4, <2>5, <2>6
<1>2. ASSUME NEW t \in Setters, WriteRanges(t) PROVE Stage'
  <2>1. Single'
    BY <1>2 DEF WriteRanges, Goto, Single, Alone, Active, SettersTyped
  <2>2. Numbered'
    BY <1>2 DEF WriteRanges, Goto, Numbered, Alone, Active, SettersTyped
  <2>3. HeldNew'
    BY <1>2 DEF WriteRanges, Goto, HeldNew, Alone, Active
  <2>4. SentV4'
    <3> SUFFICES ASSUME NEW u \in Setters, Alone(u)', ~missed[job[u].kind]', pc'[u] # "write"
                 PROVE  Sent(u, "v4")'
      BY DEF SentV4
    <3>1. Alone(u) /\ job' = job /\ raced' = raced
      BY <1>2 DEF WriteRanges, Goto, Alone, Active, SettersTyped
    <3>2. CASE u = t
      <4>1. PICK l \in {None, [id |-> job[t].id, buf |-> job[t].buf]} :
              driver' = [driver EXCEPT ![job[t].kind]["v4"] = l]
        BY <1>2, <3>1, <3>2 DEF WriteRanges, SendList, SettersTyped, ListsTyped
      <4>2. driver'[job[t].kind]["v4"] = l
        BY <4>1 DEF SettersTyped, ListsTyped, Families
      <4> QED BY <3>1, <3>2, <4>1, <4>2 DEF Sent
    <3>3. CASE u # t
      <4>1. job[u].kind # job[t].kind
        BY <1>2, <3>1, <3>3 DEF WriteRanges, Single, Active, Stages
      <4>2. /\ driver'[job[u].kind] = driver[job[u].kind]
            /\ missed'[job[u].kind] = missed[job[u].kind]
            /\ pc'[u] = pc[u]
        BY <1>2, <3>3, <4>1 DEF WriteRanges, Goto, SendList
      <4>3. Sent(u, "v4")
        BY <3>1, <4>2 DEF SentV4
      <4> QED BY <3>1, <4>2, <4>3 DEF Sent
    <3> QED BY <3>2, <3>3
  <2>5. SentV6'
    BY <1>2 DEF WriteRanges, SendList, Goto, SentV6, Alone, Active, Sent, Stages, Single,
       Numbered
  <2>6. Agrees'
    BY <1>2 DEF WriteRanges, SendList, Goto, Agrees, Quiet, Setting, Stages, Alone
  <2> QED BY <2>1, <2>2, <2>3, <2>4, <2>5, <2>6
<1>3. ASSUME NEW t \in Setters, WriteFails(t) PROVE Stage'
  <2>1. Single'
    BY <1>3 DEF WriteFails, Goto, Single, Alone, Active, SettersTyped, Stages
  <2>2. Numbered'
    BY <1>3 DEF WriteFails, Goto, Numbered, Alone, Active, SettersTyped, Single
  <2>3. HeldNew'
    BY <1>3 DEF WriteFails, Goto, HeldNew, Alone, Active, Single
  <2>4. SentV4'
    BY <1>3 DEF WriteFails, Goto, SentV4, Alone, Active, Sent, Stages, Single, Numbered
  <2>5. SentV6'
    BY <1>3 DEF WriteFails, Goto, SentV6, Alone, Active, Sent, Single, Numbered
  <2>6. Agrees'
    BY <1>3 DEF WriteFails, Goto, Agrees, Quiet, Setting, ListsTyped, Alone, Single
  <2> QED BY <2>1, <2>2, <2>3, <2>4, <2>5, <2>6
<1>4. ASSUME NEW t \in Setters, ReadCount(t) PROVE Stage'
  <2>1. Single'
    BY <1>4 DEF ReadCount, Goto, Single, Alone, Active, Stages
  <2>2. Numbered'
    BY <1>4 DEF ReadCount, Goto, Numbered, Alone, Active, SettersTyped, Stages
  <2>3. HeldNew'
    BY <1>4 DEF ReadCount, Goto, HeldNew, Alone, Active
  <2>4. SentV4'
    BY <1>4 DEF ReadCount, Goto, SentV4, Alone, Active, Sent, Stages, Numbered
  <2>5. SentV6'
    BY <1>4 DEF ReadCount, Goto, SentV6, Alone, Active, Sent, Numbered
  <2>6. Agrees'
    BY <1>4 DEF ReadCount, Goto, Agrees, Quiet, Setting, Stages
  <2> QED BY <2>1, <2>2, <2>3, <2>4, <2>5, <2>6
<1>5. ASSUME NEW t \in Setters, StoreCount(t) PROVE Stage'
  <2>1. Single'
    BY <1>5 DEF StoreCount, Goto, Single, Alone, Active, Stages
  <2>2. Numbered'
    BY <1>5 DEF StoreCount, Goto, Numbered, Alone, Active, SettersTyped, ListsTyped, Stages,
       Single
  <2>3. HeldNew'
    BY <1>5 DEF StoreCount, Goto, HeldNew, Alone, Active
  <2>4. SentV4'
    BY <1>5 DEF StoreCount, Goto, SentV4, Alone, Active, Sent, Stages, Single, Numbered
  <2>5. SentV6'
    BY <1>5 DEF StoreCount, Goto, SentV6, Alone, Active, Sent, Numbered
  <2>6. Agrees'
    BY <1>5 DEF StoreCount, Goto, Agrees, Quiet, Setting, Stages
  <2> QED BY <2>1, <2>2, <2>3, <2>4, <2>5, <2>6
<1>6. ASSUME NEW t \in Setters, SwapLabels(t) PROVE Stage'
  <2>1. Single'
    BY <1>6 DEF SwapLabels, Goto, Single, Alone, Active, Stages
  <2>2. Numbered'
    BY <1>6 DEF SwapLabels, Goto, Numbered, Alone, Active, Stages
  <2>3. HeldNew'
    BY <1>6 DEF SwapLabels, Goto, HeldNew, Alone, Active, SettersTyped, ListsTyped, Single
  <2>4. SentV4'
    BY <1>6 DEF SwapLabels, Goto, SentV4, Alone, Active, Sent, Stages, Numbered
  <2>5. SentV6'
    BY <1>6 DEF SwapLabels, Goto, SentV6, Alone, Active, Sent, Numbered
  <2>6. Agrees'
    BY <1>6 DEF SwapLabels, Goto, Agrees, Quiet, Setting, Stages
  <2> QED BY <2>1, <2>2, <2>3, <2>4, <2>5, <2>6
<1>7. ASSUME NEW t \in Setters, WriteRanges6(t) PROVE Stage'
  <2>1. Single'
    BY <1>7 DEF WriteRanges6, Goto, Single, Alone, Active, SettersTyped
  <2>2. Numbered'
    BY <1>7 DEF WriteRanges6, Goto, Numbered, Alone, Active, SettersTyped
  <2>3. HeldNew'
    BY <1>7 DEF WriteRanges6, Goto, HeldNew, Alone, Active, SettersTyped
  <2>4. SentV4'
    BY <1>7 DEF WriteRanges6, SendList, Goto, SentV4, Alone, Active, Sent, SettersTyped,
       ListsTyped, Stages, Numbered
  <2>5. SentV6'
    <3> SUFFICES ASSUME NEW u \in Setters, Alone(u)', ~missed[job[u].kind]', pc'[u] = "free"
                 PROVE  Sent(u, "v6")'
      BY DEF SentV6
    <3>1. Alone(u) /\ job' = job /\ raced' = raced
      BY <1>7 DEF WriteRanges6, Goto, Alone, Active, SettersTyped
    <3>2. CASE u = t
      <4>1. PICK l \in {None, [id |-> job[t].id, buf |-> job[t].buf]} :
              driver' = [driver EXCEPT ![job[t].kind]["v6"] = l]
        BY <1>7, <3>1, <3>2 DEF WriteRanges6, SendList, SettersTyped, ListsTyped, Numbered
      <4>2. driver'[job[t].kind]["v6"] = l
        BY <4>1 DEF SettersTyped, ListsTyped, Families
      <4> QED BY <3>1, <3>2, <4>1, <4>2 DEF Sent
    <3>3. CASE u # t
      <4>1. job[u].kind # job[t].kind
        BY <1>7, <3>1, <3>3 DEF WriteRanges6, Single, Active, Stages
      <4>2. /\ driver'[job[u].kind] = driver[job[u].kind]
            /\ missed'[job[u].kind] = missed[job[u].kind]
            /\ pc'[u] = pc[u]
        BY <1>7, <3>3, <4>1 DEF WriteRanges6, Goto, SendList
      <4>3. Sent(u, "v6")
        BY <3>1, <4>2 DEF SentV6
      <4> QED BY <3>1, <4>2, <4>3 DEF Sent
    <3> QED BY <3>2, <3>3
  <2>6. Agrees'
    BY <1>7 DEF WriteRanges6, SendList, Goto, Agrees, Quiet, Setting, Stages, Alone
  <2> QED BY <2>1, <2>2, <2>3, <2>4, <2>5, <2>6
<1>8. ASSUME NEW t \in Setters, Return(t) PROVE Stage'
  <2>1. Single'
    BY <1>8 DEF Return, Goto, Single, Alone, Active, SettersTyped, Stages
  <2>2. Numbered'
    BY <1>8 DEF Return, Goto, Numbered, Alone, Active, SettersTyped, Single
  <2>3. HeldNew'
    BY <1>8 DEF Return, Goto, HeldNew, Alone, Active, SettersTyped, Single
  <2>4. SentV4'
    BY <1>8 DEF Return, Goto, SentV4, Alone, Active, Sent, SettersTyped, Stages, Single,
       Numbered
  <2>5. SentV6'
    BY <1>8 DEF Return, Goto, SentV6, Alone, Active, Sent, SettersTyped, Single, Numbered
  <2>6. Agrees'
    BY <1>8 DEF Return, Goto, Agrees, Quiet, Setting, SettersTyped, Alone, Active, Single,
       Numbered, HeldNew, SentV4, SentV6, Sent, Families
  <2> QED BY <2>1, <2>2, <2>3, <2>4, <2>5, <2>6
<1>9. ASSUME NEW k \in Kinds, NEW f \in Families, Notify(k, f) PROVE Stage'
  BY <1>9 DEF Notify, Single, Numbered, HeldNew, SentV4, SentV6, Agrees, Alone, Active,
     Sent, Quiet, Setting, setVars
<1>10. CASE Complete \/ Read \/ Wake \/ Lock \/ Match \/ CopyLabel \/ Call \/ Callback \/
          Unlock
  <2>1. UNCHANGED <<pc, job, id, held, driver, missed, raced>>
    BY <1>10 DEF Complete, Read, Wake, Lock, Match, CopyLabel, Call, Callback, Unlock,
       setVars
  <2> QED
    BY <2>1 DEF Single, Numbered, HeldNew, SentV4, SentV6, Agrees, Alone, Active, Sent,
       Quiet, Setting
<1>11. CASE UI
  <2>1. UNCHANGED setVars /\ \A t \in Setters : Stays(t)
    BY <1>11, UIFrame
  <2>2. Single'
    BY <2>1 DEF Single, Alone, Active, Stays, setVars
  <2>3. Numbered'
    BY <2>1 DEF Numbered, Alone, Active, Stays, setVars
  <2>4. HeldNew'
    BY <2>1 DEF HeldNew, Alone, Active, Stays, setVars
  <2>5. SentV4'
    BY <2>1 DEF SentV4, Alone, Active, Sent, Stays, setVars
  <2>6. SentV6'
    BY <2>1 DEF SentV6, Alone, Active, Sent, Stays, setVars
  <2>7. Agrees'
    BY <2>1 DEF Agrees, Quiet, Setting, Stays, setVars
  <2> QED BY <2>2, <2>3, <2>4, <2>5, <2>6, <2>7
<1>12. CASE UNCHANGED vars
  BY <1>12 DEF vars, Single, Numbered, HeldNew, SentV4, SentV6, Agrees, Alone, Active, Sent,
     Quiet, Setting, setVars
<1> QED
  BY <1>1, <1>2, <1>3, <1>4, <1>5, <1>6, <1>7, <1>8, <1>9, <1>10, <1>11, <1>12 DEF Next,
     Client, SetRanges, Reader, Shutdown, UI

\* No step makes a list of the driver one that it is not.
LEMMA GoodKept ==
  ASSUME ClientTypeOK, Stage, [Next]_vars, NEW m \in Kinds, NEW i \in Nat, NEW b \in Nat,
         Good(m, i, b)
  PROVE  Good(m, i, b)'
<1> USE FilterClientAssumption DEF ClientTypeOK, Stage, Setting
<1>1. ASSUME NEW t \in Setters, NEW k \in Kinds, Begin(t, k) PROVE Good(m, i, b)'
  BY <1>1 DEF Begin, NextId, Goto, Good, Current, ListsTyped, Overlaps
<1>2. ASSUME NEW t \in Setters, WriteRanges(t) PROVE Good(m, i, b)'
  BY <1>2 DEF WriteRanges, Goto, Good, Current
<1>3. ASSUME NEW t \in Setters, WriteFails(t) PROVE Good(m, i, b)'
  BY <1>3 DEF WriteFails, Goto, Good, Current, Single, Alone
<1>4. ASSUME NEW t \in Setters, ReadCount(t) PROVE Good(m, i, b)'
  <2>1. \A u \in Setters : /\ job'[u].kind = job[u].kind /\ job'[u].id = job[u].id
                            /\ job'[u].buf = job[u].buf
    BY <1>4 DEF ReadCount
  <2>2. \A u \in Setters : pc'[u] = pc[u] \/ (pc[u] = "count" /\ pc'[u] = "store")
    <3>1. pc[t] = "count" /\ pc' = [pc EXCEPT ![t] = "store"]
      BY <1>4 DEF ReadCount, Goto
    <3>2. DOMAIN pc = Setters
      BY DEF SettersTyped
    <3> QED BY <3>1, <3>2
  <2>3. id' = id /\ held' = held /\ raced' = raced
    BY <1>4 DEF ReadCount
  <2> QED BY <2>1, <2>2, <2>3 DEF Good, Current, Stages
<1>5. ASSUME NEW t \in Setters, StoreCount(t) PROVE Good(m, i, b)'
  BY <1>5 DEF StoreCount, Goto, Good, Current, ListsTyped, Stages, Active, Single, Numbered,
     Alone
<1>6. ASSUME NEW t \in Setters, SwapLabels(t) PROVE Good(m, i, b)'
  BY <1>6 DEF SwapLabels, Goto, Good, Current, SettersTyped, ListsTyped, Numbered
<1>7. ASSUME NEW t \in Setters, WriteRanges6(t) PROVE Good(m, i, b)'
  BY <1>7 DEF WriteRanges6, Goto, Good, Current
<1>8. ASSUME NEW t \in Setters, Return(t) PROVE Good(m, i, b)'
  BY <1>8 DEF Return, Goto, Good, Current
<1>9. CASE UI
  <2>1. UNCHANGED setVars /\ \A t \in Setters : Stays(t)
    BY <1>9, UIFrame
  <2> QED BY <2>1 DEF Good, Current, Stays, setVars
<1>10. ASSUME UNCHANGED <<pc, setVars>> PROVE Good(m, i, b)'
  BY <1>10 DEF setVars, Good, Current
<1> QED
  BY <1>1, <1>2, <1>3, <1>4, <1>5, <1>6, <1>7, <1>8, <1>9, <1>10 DEF Next, Client,
     SetRanges, Reader, Shutdown, UI, Notify, Complete, Read, Wake, Lock, Match, CopyLabel,
     Call, Callback, Unlock, vars

\* A list that the driver takes over is such a list.
LEMMA TakesGood ==
  ASSUME ClientTypeOK, Stage, NEW t \in Setters, WriteRanges(t) \/ WriteRanges6(t),
         NEW k \in Kinds, NEW f \in Families, driver'[k][f] \notin {driver[k][f], None}
  PROVE  Good(k, driver[k][f].id, driver[k][f].buf)'
<1> USE FilterClientAssumption DEF ClientTypeOK, Stage
<1>1. CASE WriteRanges(t)
  <2>1. /\ k = job[t].kind
        /\ driver'[k][f] = [id |-> job[t].id, buf |-> job[t].buf]
    BY <1>1 DEF WriteRanges, SendList
  <2>2. Setting(t, k)' /\ pc'[t] = "count" /\ job' = job
    BY <1>1, <2>1 DEF WriteRanges, Goto, Setting, Stages, SettersTyped
  <2> QED BY <2>1, <2>2 DEF Good
<1>2. CASE WriteRanges6(t)
  <2>1. /\ k = job[t].kind
        /\ driver'[k][f] = [id |-> id[k], buf |-> job[t].buf]
    BY <1>2 DEF WriteRanges6, SendList
  <2>2. /\ job' = job /\ id' = id /\ held' = held /\ raced' = raced
        /\ pc[t] = "write6" /\ pc' = [pc EXCEPT ![t] = "free"]
    BY <1>2 DEF WriteRanges6, Goto
  <2>3. CASE ~raced[k]
    <3>1. Alone(t)
      BY <2>1, <2>2, <2>3 DEF Alone, Active, Stages
    <3>2. held[k] = job[t].buf
      BY <2>1, <2>2, <3>1 DEF HeldNew
    <3>3. \A u \in Setters : Setting(u, k) => u = t
      BY <2>1, <3>1 DEF Single, Setting, Active
    <3>4. Current(k, job[t].buf)'
      BY <2>2, <3>2, <3>3 DEF Current, Setting
    <3> QED BY <2>1, <2>2, <3>4 DEF Good
  <2>4. CASE raced[k]
    BY <2>2, <2>4 DEF Good
  <2> QED BY <2>3, <2>4
<1> QED BY <1>1, <1>2

\* The lists of the driver, and the notifications that it makes of them.
LEMMA EntriesNext ==
  ASSUME ClientTypeOK, Stage, Entries, [Next]_vars
  PROVE  Entries'
<1> USE DEF Entries
<1>1. \A k \in Kinds, i \in Nat, b \in Nat : Good(k, i, b) => Good(k, i, b)'
  BY GoodKept
<1>2. DriverGood'
  <2> SUFFICES ASSUME NEW k \in Kinds, NEW f \in Families, driver'[k][f] # None
               PROVE  Good(k, driver[k][f].id, driver[k][f].buf)'
    BY DEF DriverGood
  <2>1. CASE driver'[k][f] = driver[k][f]
    <3>1. driver[k][f].id \in Nat /\ driver[k][f].buf \in Nat
      BY <2>1 DEF ClientTypeOK, ListsTyped, Lists, Bufs
    <3> QED BY <1>1, <2>1, <3>1 DEF DriverGood
  <2>2. CASE driver'[k][f] # driver[k][f]
    <3>1. driver' # driver
      BY <2>2
    <3>2. PICK t \in Setters : WriteRanges(t) \/ WriteRanges6(t)
      BY <3>1 DEF Next, Client, SetRanges, Begin, WriteFails, ReadCount, StoreCount,
         SwapLabels, Return, Notify, Complete, Reader, Read, Wake, Lock, Match, CopyLabel,
         Call, Callback, Unlock, Install, Destroy, Shutdown, ClearAction, DropLog, StopRun,
         SignalExit, Join, vars, setVars
    <3> QED BY <2>2, <3>2, TakesGood
  <2> QED BY <2>1, <2>2
<1>3. \A e \in Notes : Good(e.kind, e.id, e.buf) => Good(e.kind, e.id, e.buf)'
  BY <1>1 DEF Notes, Bufs
<1>4. QueueGood'
  <2>1. CASE queue' = queue
    <3> SUFFICES ASSUME NEW n \in 1..Len(queue)
                 PROVE  Good(queue[n].kind, queue[n].id, queue[n].buf)'
      BY <2>1 DEF QueueGood
    <3>1. queue[n] \in Notes
      BY DEF ClientTypeOK, ReaderTyped
    <3> QED BY <1>3, <2>1, <3>1 DEF QueueGood
  <2>2. ASSUME NEW k \in Kinds, NEW f \in Families, Notify(k, f) PROVE QueueGood'
    <3>1. PICK e \in Notes :
            e = [kind |-> k, id |-> driver[k][f].id, buf |-> driver[k][f].buf]
      BY <2>2 DEF Notify, ClientTypeOK, ListsTyped, Lists, Notes
    <3>2. queue \in Seq(Notes) /\ queue' = Append(queue, e)
      BY <2>2, <3>1 DEF Notify, ClientTypeOK, ReaderTyped
    <3>3. Good(e.kind, e.id, e.buf)
      BY <2>2, <3>1 DEF Notify, DriverGood
    <3>4. Good(e.kind, e.id, e.buf)'
      BY <1>3, <3>3
    <3>5. \A n \in 1..Len(queue') : \/ queue'[n] = e
                                    \/ n \in 1..Len(queue) /\ queue'[n] = queue[n]
      BY <3>2
    <3>6. \A n \in 1..Len(queue) : /\ queue[n] \in Notes
                                   /\ Good(queue[n].kind, queue[n].id, queue[n].buf)
      BY <3>2 DEF QueueGood
    <3> QED BY <1>3, <3>4, <3>5, <3>6 DEF QueueGood
  <2>3. CASE Complete
    <3>1. queue \in Seq(Notes) /\ queue # <<>> /\ queue' = Tail(queue)
      BY <2>3 DEF Complete, ClientTypeOK, ReaderTyped
    <3>2. \A n \in 1..Len(queue') : n + 1 \in 1..Len(queue) /\ queue'[n] = queue[n + 1]
      BY <3>1
    <3> QED BY <1>3, <3>1, <3>2 DEF QueueGood
  <2> QED
    BY <2>1, <2>2, <2>3 DEF Next, Client, SetRanges, Begin, WriteRanges, WriteFails,
       ReadCount, StoreCount, SwapLabels, WriteRanges6, Return, Reader, Read, Wake, Lock,
       Match, CopyLabel, Call, Callback, Unlock, Install, Destroy, Shutdown, ClearAction,
       DropLog, StopRun, SignalExit, Join, vars
<1>5. NoteGood'
  <2>1. CASE note' = note /\ UNCHANGED <<rpc, at>>
    BY <1>3, <2>1 DEF NoteGood, ClientTypeOK, ReaderTyped
  <2>2. CASE Complete
    BY <1>3, <2>2 DEF Complete, NoteGood, QueueGood, ClientTypeOK, ReaderTyped
  <2>3. CASE Match
    BY <1>3, <2>3 DEF Match, Matches, NoteGood, ClientTypeOK, ReaderTyped
  <2>4. CASE note' \in {note, None} /\ rpc' # "copy"
    BY <1>3, <2>4 DEF NoteGood, ClientTypeOK, ReaderTyped
  <2> QED
    BY <2>1, <2>2, <2>3, <2>4 DEF Next, Client, SetRanges, Begin, WriteRanges, WriteFails,
       ReadCount, StoreCount, SwapLabels, WriteRanges6, Return, Notify, Reader, Read, Wake,
       Lock, CopyLabel, Call, Callback, Unlock, Install, Destroy, Shutdown, ClearAction,
       DropLog, StopRun, SignalExit, Join, vars, readVars
<1> QED BY <1>2, <1>4, <1>5

-----------------------------------------------------------------------------

ClientInv == ClientTypeOK /\ Bounded /\ LogInv /\ Owners /\ Stage /\ Entries

\* The invariant holds at the start.
LEMMA ClientInitially == Init => ClientInv
<1> SUFFICES ASSUME Init PROVE ClientInv
  OBVIOUS
<1> USE FilterClientAssumption
<1>1. SettersTyped
  BY DEF Init, SettersTyped, NoJob, Job, Kinds, Bufs, Setters
<1>2. ListsTyped
  BY DEF Init, ListsTyped
<1>3. ReaderTyped
  <2>1. queue \in Seq(Notes)
    <3>1. CASE queue = <<>>
      BY <3>1
    <3>2. CASE queue # <<>>
      <4>1. PICK k \in Kinds : queue = <<[kind |-> k, id |-> 1, buf |-> 0]>>
        BY <3>2 DEF Init
      <4>2. [kind |-> k, id |-> 1, buf |-> 0] \in Notes
        BY DEF Notes, Bufs
      <4> QED BY <4>1, <4>2
    <3> QED BY <3>1, <3>2
  <2> QED BY <2>1 DEF Init, ReaderTyped, InMutex
<1>4. \A t \in Setters : pc[t] \notin Stages
  BY DEF Init, Setters, Stages
<1>5. Bounded
  BY <1>4 DEF Bounded, Active
<1>6. LogInv
  BY DEF Init, LogInv
<1>7. Owners
  BY <1>4 DEF Init, Owners, HeldAlive, HeldOnce, OwnAlive, OwnOnce, OwnNew, Active, Stages
<1>8. Stage
  BY <1>4 DEF Init, Stage, Single, Numbered, HeldNew, SentV4, SentV6, Agrees, Alone, Active
<1>9. Entries
  <2>1. DriverGood
    BY DEF Init, DriverGood
  <2>2. QueueGood
    BY DEF Init, QueueGood, Good
  <2> QED BY <2>1, <2>2 DEF Init, Entries, NoteGood
<1> QED BY <1>1, <1>2, <1>3, <1>5, <1>6, <1>7, <1>8, <1>9 DEF ClientInv, ClientTypeOK

\* It holds in every state of the client.
THEOREM ClientInvariant == Spec => []ClientInv
<1>1. ClientInv /\ [Next]_vars => ClientInv'
  BY TypingNext, LogNext, OwnersNext, StageNext, EntriesNext DEF ClientInv
<1> QED BY ClientInitially, <1>1, PTL DEF Spec

\* The variables keep their types, and the reader holds the mutex exactly while it handles
\* a notification (thread_func, pbfilter_base.cpp:340).
THEOREM ClientTyping == Spec => []ClientTypeOK
<1>1. ClientInv => ClientTypeOK
  BY DEF ClientInv
<1> QED BY ClientInvariant, <1>1, PTL

\* The reader never calls a log that is gone (Log_OnDestroy, logproc.cpp:718).
THEOREM LogOutlivesCall == Spec => []CallbackHasLog
<1>1. ClientInv => CallbackHasLog
  BY DEF ClientInv, LogInv, Over, CallbackHasLog
<1> QED BY ClientInvariant, <1>1, PTL

\* The label of a notification that is matched is not freed, unless the list is replaced
\* between match and copy or by two threads at once (setranges, pbfilter_base.cpp:134).
THEOREM LabelsAlive == Spec => []MatchedLabelAlive
<1>1. ASSUME ClientInv PROVE MatchedLabelAlive
  <2> USE FilterClientAssumption DEF ClientInv, ClientTypeOK, Owners, Entries
  <2> SUFFICES ASSUME rpc = "copy", at = id[note.kind], ~raced[note.kind], note.buf # 0
               PROVE  note.buf \in alive
    BY DEF MatchedLabelAlive
  <2>1. note \in Notes
    BY <1>1 DEF ReaderTyped
  <2> DEFINE k == note.kind
  <2>2. k \in Kinds /\ note.buf \in Nat /\ id[k] \in Nat
    BY <1>1, <2>1 DEF Notes, Bufs, ListsTyped
  <2>3. note.id = id[k] /\ Good(k, note.id, note.buf)
    BY <1>1, <2>1 DEF NoteGood, ReaderTyped
  <2>4. Current(k, note.buf)
    <3>1. ASSUME NEW t \in Setters, Setting(t, k), pc[t] \in {"count", "store"}
          PROVE  job[t].id = id[k] + 1
      BY <1>1, <3>1 DEF Stage, Numbered, Alone, Active, Setting
    <3> QED BY <2>2, <2>3, <3>1 DEF Good
  <2>5. CASE \E t \in Setters : Setting(t, k) /\ pc[t] = "swap"
    BY <1>1, <2>2, <2>4, <2>5 DEF Current, Setting, Active, OwnNew, OwnAlive
  <2>6. CASE \A t \in Setters : Setting(t, k) => pc[t] # "swap"
    BY <1>1, <2>2, <2>4, <2>6 DEF Current, HeldAlive
  <2> QED BY <2>5, <2>6
<1> QED BY ClientInvariant, <1>1, PTL

\* When no list is under way the driver has the list that the client thinks it has, with
\* the exceptions that ClientAgrees names (setranges, pbfilter_base.cpp:204-224).
THEOREM DriverAndClientAgree == Spec => []ClientAgrees
<1>1. ASSUME ClientInv PROVE ClientAgrees
  <2> SUFFICES ASSUME NEW k \in Kinds, NEW f \in Families, Quiet(k), ~raced[k], ~missed[k],
                      driver[k][f] # None
               PROVE  driver[k][f] = [id |-> id[k], buf |-> held[k]] /\ held[k] \in alive
    BY DEF ClientAgrees
  <2>1. driver[k][f] = [id |-> id[k], buf |-> held[k]]
    BY <1>1 DEF ClientInv, Stage, Agrees
  <2>2. held[k] \in Nat
    BY <1>1, <2>1 DEF ClientInv, ClientTypeOK, ListsTyped, Lists, Bufs
  <2>3. held[k] \in alive
    BY <1>1, <2>2, FilterClientAssumption DEF ClientInv, Owners, HeldAlive
  <2> QED BY <2>1, <2>3
<1> QED BY ClientInvariant, <1>1, PTL


-----------------------------------------------------------------------------
(* Who waits for whom.                                                     *)

\* Reading ends once the event is set, a request that is waited for has an answer, and
\* nothing is shown before the log window is there.
StopInv ==
  /\ exitevt => ~run
  /\ pc["ui"] = "join" => exitevt
  /\ rpc = "result" => note # None
  /\ pc["ui"] = "install" => ~action /\ rpc # "callback"

LEMMA StopNext ==
  ASSUME ClientTypeOK, StopInv, [Next]_vars
  PROVE  StopInv'
<1> USE DEF StopInv
<1>1. ASSUME UNCHANGED <<rpc, note, stopVars>>,
             pc'["ui"] = pc["ui"] \/ pc'["ui"] \notin {"install", "join"}
      PROVE  StopInv'
  BY <1>1 DEF stopVars
<1>2. ASSUME NEW t \in Setters, (\E k \in Kinds : Begin(t, k)) \/ SetRanges(t) PROVE StopInv'
  <2>1. UNCHANGED <<readVars, stopVars>>
    BY <1>2 DEF Begin, SetRanges, WriteRanges, WriteFails, ReadCount, StoreCount, SwapLabels,
       WriteRanges6, Return
  <2>2. \E to \in Stages \cup {"loop"} : pc' = [pc EXCEPT ![t] = to]
    BY <1>2 DEF Begin, SetRanges, WriteRanges, WriteFails, ReadCount, StoreCount, SwapLabels,
       WriteRanges6, Return, Goto, Stages
  <2>3. pc'["ui"] = pc["ui"] \/ pc'["ui"] \notin {"install", "join"}
    BY <2>2 DEF ClientTypeOK, SettersTyped, Setters, Stages
  <2> QED BY <1>1, <2>1, <2>3 DEF readVars
<1>3. ASSUME NEW k \in Kinds, NEW f \in Families, Notify(k, f) PROVE StopInv'
  BY <1>1, <1>3 DEF Notify, readVars
<1>4. CASE Complete
  BY <1>4 DEF Complete, stopVars
<1>5. CASE Reader
  <2>1. UNCHANGED <<pc, stopVars>>
    BY <1>5 DEF Reader, Read, Wake, Lock, Match, CopyLabel, Call, Callback, Unlock, stopVars
  <2>2. rpc' = "result" => note' # None
    BY <1>5 DEF Reader, Read, Wake, Lock, Match, CopyLabel, Call, Callback, Unlock
  <2>3. rpc' = "callback" => rpc = "callback" \/ action
    BY <1>5 DEF Reader, Read, Wake, Lock, Match, CopyLabel, Call, Callback, Unlock
  <2> QED BY <2>1, <2>2, <2>3 DEF stopVars
<1>6. CASE Install \/ Destroy \/ ClearAction \/ DropLog \/ StopRun
  <2>1. UNCHANGED <<rpc, note>> /\ (exitevt' => ~run')
    BY <1>6 DEF Install, Destroy, ClearAction, DropLog, StopRun, RunFirst, readVars, stopVars
  <2>2. pc'["ui"] \notin {"install", "join"}
    BY <1>6 DEF Install, Destroy, ClearAction, DropLog, StopRun, Goto, ClientTypeOK,
       SettersTyped, Setters
  <2> QED BY <2>1, <2>2
<1>7. CASE SignalExit \/ Join
  <2>1. /\ UNCHANGED <<rpc, note>> /\ (exitevt' => ~run') /\ pc'["ui"] # "install"
        /\ pc'["ui"] = "join" => exitevt'
    BY <1>7 DEF SignalExit, Join, Goto, readVars, stopVars, ClientTypeOK, SettersTyped, Setters
  <2> QED BY <2>1
<1>8. CASE UNCHANGED vars
  BY <1>8 DEF vars, readVars, stopVars
<1> QED BY <1>2, <1>3, <1>4, <1>5, <1>6, <1>7, <1>8 DEF Next, Client, Shutdown

\* The UI thread waits for the mutex or for the end of the reader.
UIWaits ==
  \/ pc["ui"] \in {"install", "clear"} /\ lock # None
  \/ pc["ui"] = "join" /\ rpc # "ended"

\* The reader has a step that waits for nobody: no notification, no mutex and no window.
ReaderGoesOn ==
  \/ rpc \in {"check", "match", "copy", "call", "unlock"}
  \/ rpc = "wait" /\ (note # None \/ exitevt)
  \/ rpc = "result" /\ note # None /\ lock = None
  \/ rpc = "callback" /\ (shown => pc["ui"] = "loop")

OnlyDeadlock == UIWaits => ReaderGoesOn \/ Deadlocked

\* The part of UIReturns that needs no fairness: whenever the UI thread waits, for the mutex
\* when it installs or clears the action function, or for the end of the reader, the reader
\* has a step that waits for nobody, except in the one deadlock (stop_thread and thread_func,
\* pbfilter_base.cpp:78 and 340).
THEOREM WaitsAreAnswered == Spec => []OnlyDeadlock
<1>1. Init => StopInv
  BY DEF Init, StopInv
<1>2. ClientInv /\ StopInv /\ [Next]_vars => StopInv'
  BY StopNext DEF ClientInv
<1>3. ASSUME ClientInv, StopInv, UIWaits PROVE ReaderGoesOn \/ Deadlocked
  <2> USE DEF ClientInv, ClientTypeOK, ReaderTyped, StopInv, ReaderGoesOn, Deadlocked
  <2>1. CASE pc["ui"] \in {"install", "clear"} /\ lock # None
    <3>1. rpc \in InMutex
      BY <1>3, <2>1
    <3> QED BY <1>3, <2>1, <3>1 DEF InMutex
  <2>2. CASE pc["ui"] = "join" /\ rpc # "ended"
    <3>1. rpc # "callback" /\ exitevt
      BY <1>3, <2>2 DEF LogInv, Over
    <3>2. rpc \in {"check", "wait", "result"} \cup InMutex
      BY <1>3, <2>2
    <3>3. rpc = "result" => lock = None
      BY <1>3 DEF InMutex
    <3> QED BY <1>3, <3>1, <3>2, <3>3 DEF InMutex
  <2> QED BY <1>3, <2>1, <2>2 DEF UIWaits
<1>4. Spec => []StopInv
  BY <1>1, <1>2, ClientInvariant, PTL DEF Spec
<1>5. ClientInv /\ StopInv => OnlyDeadlock
  BY <1>3 DEF OnlyDeadlock
<1> QED BY <1>4, <1>5, ClientInvariant, PTL
=============================================================================
