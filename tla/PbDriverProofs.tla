--------------------------- MODULE PbDriverProofs ---------------------------
(***************************************************************************)
(* Theorems about PbDriver for any number of callback threads, requests,   *)
(* connections, list contents and sessions.  The inductive invariant DInv  *)
(* joins the one of the queue with where the device stands (Phases), what  *)
(* a callback (Calls), the client (Hooked) and the handlers (Drained) rely *)
(* on, how far a verdict has come (Verdicts) and which callbacks can still *)
(* store a notification of an earlier session (Stale).  The queue in the   *)
(* driver is the one of NotifyQueue, and a cleanup gets on until no read   *)
(* is left (Sweeping, CleanupLeft).                                        *)
(***************************************************************************)
EXTENDS PbDriver, NotifyQueueProofs, SequenceTheorems

-----------------------------------------------------------------------------
(* The lists of steps that the handlers work off.                          *)

Steps ==
  Callouts \cup ListNames
    \cup {"block", "shutting_down", "reset", "emptied", "destroy"}

Ordered(t) ==
  /\ t \in Seq(Steps)
  /\ \A i \in DOMAIN t : t[i] = "reset" => i + 1 \in DOMAIN t /\ t[i + 1] = "emptied"

Closing(t) == Ordered(t) /\ \A i \in DOMAIN t : t[i] \notin Callouts \cup {"destroy"}

Unloading(t) ==
  /\ Ordered(t) /\ t # <<>>
  /\ \A i \in DOMAIN t : t[i] = "destroy" <=> i = Len(t)
  /\ \A i \in DOMAIN t : t[i] \in Callouts => \E j \in DOMAIN t : j > i /\ t[j] = "reset"

\* What Driver_OnCleanup does, step by step.
LEMMA CleanupList ==
  /\ Len(CleanupSteps) = 10 /\ CleanupSteps \in Seq(Steps)
  /\ CleanupSteps[1] = "block" /\ CleanupSteps[2] = "shutting_down" /\ CleanupSteps[3] = "allowed"
  /\ CleanupSteps[4] = "blocked" /\ CleanupSteps[5] = "allowed6" /\ CleanupSteps[6] = "blocked6"
  /\ CleanupSteps[7] = "destports" /\ CleanupSteps[8] = "srcports" /\ CleanupSteps[9] = "reset"
  /\ CleanupSteps[10] = "emptied"
<1>1. Len(CleanupSteps) = 10
  BY DEF CleanupSteps, Clearing
<1>2. CleanupSteps \in Seq(Steps)
  BY DEF CleanupSteps, Clearing, Steps, Callouts, ListNames
<1>3. /\ CleanupSteps[1] = "block" /\ CleanupSteps[2] = "shutting_down" /\ CleanupSteps[3] = "allowed"
      /\ CleanupSteps[4] = "blocked" /\ CleanupSteps[5] = "allowed6" /\ CleanupSteps[6] = "blocked6"
      /\ CleanupSteps[7] = "destports" /\ CleanupSteps[8] = "srcports" /\ CleanupSteps[9] = "reset"
      /\ CleanupSteps[10] = "emptied"
  BY DEF CleanupSteps, Clearing
<1> QED BY <1>1, <1>2, <1>3

\* What Driver_OnUnload does, step by step.
LEMMA UnloadList ==
  /\ Len(UnloadSteps) = 15 /\ UnloadSteps \in Seq(Steps)
  /\ UnloadSteps[1] = "block" /\ UnloadSteps[2] = "shutting_down" /\ UnloadSteps[3] = "connect4"
  /\ UnloadSteps[4] = "accept4" /\ UnloadSteps[5] = "connect6" /\ UnloadSteps[6] = "accept6"
  /\ UnloadSteps[7] = "allowed" /\ UnloadSteps[8] = "blocked" /\ UnloadSteps[9] = "allowed6"
  /\ UnloadSteps[10] = "blocked6" /\ UnloadSteps[11] = "destports" /\ UnloadSteps[12] = "srcports"
  /\ UnloadSteps[13] = "reset" /\ UnloadSteps[14] = "emptied" /\ UnloadSteps[15] = "destroy"
<1>1. Len(UnloadSteps) = 15
  BY DEF UnloadSteps, Clearing, EntrySteps
<1>2. UnloadSteps \in Seq(Steps)
  BY DEF UnloadSteps, Clearing, EntrySteps, Steps, Callouts, ListNames
<1>3. /\ UnloadSteps[1] = "block" /\ UnloadSteps[2] = "shutting_down" /\ UnloadSteps[3] = "connect4"
      /\ UnloadSteps[4] = "accept4" /\ UnloadSteps[5] = "connect6" /\ UnloadSteps[6] = "accept6"
      /\ UnloadSteps[7] = "allowed" /\ UnloadSteps[8] = "blocked" /\ UnloadSteps[9] = "allowed6"
      /\ UnloadSteps[10] = "blocked6" /\ UnloadSteps[11] = "destports" /\ UnloadSteps[12] = "srcports"
      /\ UnloadSteps[13] = "reset" /\ UnloadSteps[14] = "emptied" /\ UnloadSteps[15] = "destroy"
  BY DEF UnloadSteps, Clearing, EntrySteps
<1> QED BY <1>1, <1>2, <1>3

\* Cleanup stops the filter first, resets the queue and leaves the callouts alone.
LEMMA CleanupShape ==
  /\ Closing(CleanupSteps) /\ CleanupSteps # <<>> /\ Head(CleanupSteps) = "block"
  /\ \E i \in DOMAIN CleanupSteps : CleanupSteps[i] = "reset"
<1>1. DOMAIN CleanupSteps = 1..10
  BY CleanupList
<1>2. \A i \in 1..10 : i \in {1, 2, 9, 10} \/ i \in 3..8
  OBVIOUS
<1>3. \A i \in 1..10 : CleanupSteps[i] = "reset" => i = 9
  BY <1>2, CleanupList DEF ListNames
<1>4. \A i \in 1..10 : CleanupSteps[i] \notin Callouts \cup {"destroy"}
  BY <1>2, CleanupList DEF Callouts, ListNames
<1>5. Ordered(CleanupSteps)
  BY <1>1, <1>3, CleanupList DEF Ordered
<1>6. 9 \in DOMAIN CleanupSteps /\ CleanupSteps[9] = "reset"
  BY <1>1, CleanupList
<1> QED BY <1>1, <1>4, <1>5, <1>6, CleanupList DEF Closing

\* Unload unregisters every callout and resets the queue before it destroys it.
LEMMA UnloadShape ==
  /\ Unloading(UnloadSteps) /\ Head(UnloadSteps) = "block"
  /\ \A k \in Callouts \cup {"reset"} : \E i \in DOMAIN UnloadSteps : UnloadSteps[i] = k
<1>1. DOMAIN UnloadSteps = 1..15
  BY UnloadList
<1>2. \A i \in 1..15 : i \in {1, 2, 3, 4, 5, 6, 13, 14, 15} \/ i \in 7..12
  OBVIOUS
<1>3. \A i \in 1..15 : UnloadSteps[i] = "destroy" <=> i = 15
  BY <1>2, UnloadList DEF ListNames
<1>4. \A i \in 1..15 : UnloadSteps[i] \in Callouts => i < 13
  BY <1>2, UnloadList DEF Callouts
<1>5. \A i \in 1..15 : UnloadSteps[i] = "reset" => i = 13
  BY <1>2, UnloadList DEF ListNames
<1>6. Ordered(UnloadSteps)
  BY <1>1, <1>5, UnloadList DEF Ordered
<1>7. \A k \in Callouts : k \in {UnloadSteps[3], UnloadSteps[4], UnloadSteps[5], UnloadSteps[6]}
  BY UnloadList DEF Callouts
<1>8. 13 \in DOMAIN UnloadSteps /\ UnloadSteps[13] = "reset"
  BY <1>1, UnloadList
<1>9. Unloading(UnloadSteps)
  BY <1>1, <1>3, <1>4, <1>6, <1>8, UnloadList DEF Unloading
<1>10. \A k \in Callouts : \E i \in DOMAIN UnloadSteps : UnloadSteps[i] = k
  BY <1>1, <1>7
<1> QED BY <1>8, <1>9, <1>10, UnloadList

\* The unload after a failed entry unregisters the callouts twice, and is one more unload.
LEMMA FailedShape ==
  /\ Unloading(FailedSteps)
  /\ \A k \in Callouts \cup {"reset"} : \E i \in DOMAIN FailedSteps : FailedSteps[i] = k
<1> DEFINE f == FailedSteps
<1>1. /\ EntrySteps \in Seq(Steps) /\ Len(EntrySteps) = 4
      /\ UnloadSteps \in Seq(Steps) /\ Len(UnloadSteps) = 15
      /\ \A i \in 1..4 : EntrySteps[i] \in Callouts
  <2>1. EntrySteps \in Seq(Steps) /\ Len(EntrySteps) = 4
    BY DEF EntrySteps, Callouts, Steps
  <2>2. /\ EntrySteps[1] \in Callouts /\ EntrySteps[2] \in Callouts
        /\ EntrySteps[3] \in Callouts /\ EntrySteps[4] \in Callouts
    BY DEF EntrySteps, Callouts
  <2>3. \A i \in 1..4 : i \in {1, 2, 3, 4}
    OBVIOUS
  <2> QED BY <2>1, <2>2, <2>3, UnloadList
<1>2. /\ f \in Seq(Steps) /\ Len(f) = 19 /\ DOMAIN f = 1..19
      /\ \A i \in 1..19 : f[i] = IF i <= 4 THEN EntrySteps[i] ELSE UnloadSteps[i - 4]
  <2>1. /\ f \in Seq(Steps) /\ Len(f) = Len(EntrySteps) + Len(UnloadSteps)
        /\ \A i \in 1..(Len(EntrySteps) + Len(UnloadSteps)) :
              f[i] = IF i <= Len(EntrySteps) THEN EntrySteps[i] ELSE UnloadSteps[i - Len(EntrySteps)]
    BY <1>1, ConcatProperties DEF FailedSteps
  <2> HIDE DEF f
  <2>2. DOMAIN f = 1..Len(f)
    BY <2>1
  <2> QED BY <1>1, <2>1, <2>2
<1>3. \A i \in 1..4 : f[i] \in Callouts
  <2>1. \A i \in 1..4 : i \in 1..19 /\ i <= 4
    OBVIOUS
  <2> QED BY <1>1, <1>2, <2>1
<1>4. \A i \in 1..15 : f[i + 4] = UnloadSteps[i]
  BY <1>2
<1>5. \A i \in 1..19 : i \in 1..4 \/ (i - 4 \in 1..15 /\ f[i] = UnloadSteps[i - 4])
  BY <1>2
<1>6. DOMAIN UnloadSteps = 1..15 /\ UnloadSteps[13] = "reset" /\ f[17] = "reset"
  <2>1. 13 \in 1..15 /\ 13 + 4 = 17
    OBVIOUS
  <2> QED BY <2>1, <1>1, <1>4, UnloadList
<1> HIDE DEF f
<1>7. Ordered(f)
  <2>1. ASSUME NEW i \in 1..19, f[i] = "reset" PROVE i + 1 \in 1..19 /\ f[i + 1] = "emptied"
    <3>1. i \notin 1..4
      BY <1>3, <2>1 DEF Callouts
    <3>2. i - 4 \in 1..15 /\ UnloadSteps[i - 4] = "reset"
      BY <1>5, <2>1, <3>1
    <3>3. (i - 4) + 1 \in 1..15 /\ UnloadSteps[(i - 4) + 1] = "emptied"
      BY <1>6, <3>2, UnloadShape DEF Unloading, Ordered
    <3>4. ((i - 4) + 1) + 4 = i + 1
      OBVIOUS
    <3> QED BY <1>4, <3>3, <3>4
  <2> QED BY <1>2, <2>1 DEF Ordered
<1>8. \A i \in 1..19 : f[i] = "destroy" <=> i = 19
  <2>1. \A i \in 1..15 : UnloadSteps[i] = "destroy" <=> i = 15
    BY <1>1, <1>6, UnloadShape DEF Unloading
  <2>2. \A i \in 1..4 : f[i] # "destroy"
    BY <1>3 DEF Callouts
  <2> QED BY <1>5, <2>1, <2>2
<1>9. \A i \in 1..19 : f[i] \in Callouts => 17 > i
  BY <1>5, UnloadList DEF Callouts
<1>10. Unloading(f)
  <2>1. f # <<>> /\ 17 \in DOMAIN f
    <3>1. 17 \in 1..19
      OBVIOUS
    <3>2. Len(f) # Len(<<>>)
      BY <1>2
    <3> QED BY <1>2, <3>1, <3>2
  <2>2. \A i \in DOMAIN f : f[i] \in Callouts => \E j \in DOMAIN f : j > i /\ f[j] = "reset"
    BY <1>2, <1>6, <1>9, <2>1
  <2> QED BY <1>2, <1>7, <1>8, <2>1, <2>2 DEF Unloading
<1>11. \A k \in Callouts \cup {"reset"} : \E i \in 1..19 : f[i] = k
  <2> SUFFICES ASSUME NEW k \in Callouts \cup {"reset"} PROVE \E i \in 1..19 : f[i] = k
    OBVIOUS
  <2>1. PICK i \in 1..15 : UnloadSteps[i] = k
    BY <1>6, UnloadShape
  <2> QED BY <2>1, <1>4
<1> QED BY <1>2, <1>10, <1>11 DEF f

\* Working off one step leaves such a list.
LEMMA TailShape ==
  ASSUME NEW t \in Seq(Steps), t # <<>>
  PROVE  /\ Closing(t) => Closing(Tail(t))
         /\ Unloading(t) /\ Head(t) # "destroy" => Unloading(Tail(t))
         /\ Head(t) = "reset" /\ Ordered(t) => Tail(t) # <<>> /\ Head(Tail(t)) = "emptied"
<1> DEFINE u == Tail(t)
<1>1. /\ u \in Seq(Steps) /\ Len(u) = Len(t) - 1 /\ DOMAIN u = 1..(Len(t) - 1)
      /\ \A i \in DOMAIN u : i + 1 \in DOMAIN t /\ u[i] = t[i + 1]
  OBVIOUS
<1>2. DOMAIN t = 1..Len(t) /\ Len(t) \in Nat /\ 1 \in DOMAIN t /\ Head(t) = t[1]
  OBVIOUS
<1> HIDE DEF u
<1>3. ASSUME Ordered(t) PROVE Ordered(u)
  <2>1. ASSUME NEW i \in DOMAIN u, u[i] = "reset"
        PROVE  i + 1 \in DOMAIN u /\ u[i + 1] = "emptied"
    <3>1. (i + 1) + 1 \in DOMAIN t /\ t[(i + 1) + 1] = "emptied"
      BY <1>1, <1>3, <2>1 DEF Ordered
    <3>2. i + 1 \in DOMAIN u
      BY <1>1, <1>2, <2>1, <3>1
    <3> QED BY <1>1, <3>1, <3>2
  <2> QED BY <1>1, <2>1 DEF Ordered
<1>4. Closing(t) => Closing(u)
  BY <1>1, <1>3 DEF Closing
<1>5. ASSUME Unloading(t), t[1] # "destroy" PROVE Unloading(u)
  <2>1. u # <<>>
    BY <1>1, <1>2, <1>5 DEF Unloading
  <2>2. \A i \in DOMAIN u : u[i] = "destroy" <=> i = Len(u)
    BY <1>1, <1>2, <1>5 DEF Unloading
  <2>3. ASSUME NEW i \in DOMAIN u, u[i] \in Callouts
        PROVE  \E j \in DOMAIN u : j > i /\ u[j] = "reset"
    <3>1. PICK j \in DOMAIN t : j > i + 1 /\ t[j] = "reset"
      BY <1>1, <1>5, <2>3 DEF Unloading
    <3>2. j - 1 \in DOMAIN u /\ j - 1 > i /\ u[j - 1] = t[j]
      BY <1>1, <1>2, <3>1
    <3> QED BY <3>1, <3>2
  <2> QED BY <1>3, <1>5, <2>1, <2>2, <2>3 DEF Unloading
<1>6. ASSUME t[1] = "reset", Ordered(t) PROVE u # <<>> /\ Head(u) = "emptied"
  <2>1. 2 \in DOMAIN t /\ t[2] = "emptied"
    BY <1>2, <1>6 DEF Ordered
  <2>2. 1 \in DOMAIN u /\ u[1] = t[2]
    BY <1>1, <1>2, <2>1
  <2> QED BY <1>1, <2>1, <2>2
<1> QED BY <1>2, <1>4, <1>5, <1>6 DEF u

-----------------------------------------------------------------------------
(* The device.                                                             *)

Occurs(step) == \E i \in DOMAIN todo : todo[i] = step

Callback ==
  \/ \E s \in Senders, c \in Conns : ClassifyBegin(s, c)
  \/ \E s \in Senders : ClassifyStep(s)

Request ==
  \/ \E on \in BOOLEAN : Hook(on)
  \/ \E l \in ListNames : \E content \in Contents[l] : SetList(l, content)
  \/ \E fs \in FlagChoices : SetFlags(fs)
  \/ \E i \in Irps : Receive(i)

\* Where the device stands.
Phases ==
  /\ handle # "none" => phase = "running"
  /\ phase = "running" /\ handle # "closing" => todo = <<>>
  /\ handle = "closing" => Closing(todo)
  /\ phase = "entry" => todo \in Seq(Callouts)
  /\ phase = "unloading" => Unloading(todo) /\ \A k \in callouts : Occurs(k)
  /\ phase = "unloaded" => todo = <<>> /\ callouts = {}
  /\ initialized <=> phase # "unloaded"

\* A callback changes nothing of the device, of PBINTERNAL and of the lists.
LEMMA CallbackKeeps ==
  ASSUME Callback
  PROVE  UNCHANGED <<deviceVars, internalVars, initialized, csqVars, listVars, irpVars, resetVars>>
<1>1. ASSUME NEW s \in Senders, NEW c \in Conns, ClassifyBegin(s, c)
      PROVE  UNCHANGED <<deviceVars, internalVars, queueVars>>
  BY <1>1 DEF ClassifyBegin
<1>2. ASSUME NEW s \in Senders, NEW n \in Notes, ClassifySend(s, n)
      PROVE  UNCHANGED <<deviceVars, internalVars, initialized, csqVars, listVars, irpVars, resetVars>>
  BY <1>2 DEF ClassifySend, SendBegin
<1>3. ASSUME NEW s \in Senders, ClassifyStep(s), ~\E n \in Notes : ClassifySend(s, n)
      PROVE  UNCHANGED <<deviceVars, internalVars, queueVars>>
  BY <1>3 DEF ClassifyStep, ReadShuttingDown, PortExemptByDestination,
     NotExemptByDestination, PortExemptBySource, NotExemptBySource, CheckHttp,
     CheckAddress, CheckMapped, ClassifyEnd, StepFrame, ExemptFrame, CallbackFrame
<1> QED BY <1>1, <1>2, <1>3 DEF Callback, queueVars

\* A request of the client changes block, flags, a list or a read.
LEMMA RequestKeeps ==
  ASSUME Request
  PROVE  UNCHANGED <<deviceVars, initialized, shutting_down, cpc, conn, action, cborn,
                     cexempt, born, csqVars, listVars, sendVars, resetVars>>
<1>1. ASSUME NEW on \in BOOLEAN, Hook(on)
      PROVE  UNCHANGED <<deviceVars, shutting_down, callbackVars, historyVars, queueVars>>
  BY <1>1 DEF Hook
<1>2. ASSUME NEW l \in ListNames, NEW content \in Contents[l], SetList(l, content)
      PROVE  UNCHANGED <<deviceVars, shutting_down, callbackVars, cexempt, born, queueVars>>
  BY <1>2 DEF SetList
<1>3. ASSUME NEW fs \in FlagChoices, SetFlags(fs)
      PROVE  UNCHANGED <<deviceVars, shutting_down, callbackVars, cexempt, born, queueVars>>
  BY <1>3 DEF SetFlags, historyVars
<1>4. ASSUME NEW i \in Irps, Receive(i)
      PROVE  UNCHANGED <<driverVars, initialized, csqVars, listVars, sendVars, resetVars>>
  BY <1>4 DEF Receive, RecvBegin
<1> QED BY <1>1, <1>2, <1>3, <1>4
        DEF Request, driverVars, callbackVars, historyVars, internalVars, queueVars

\* The queue changes nothing of the driver around it.
LEMMA QueueStepKeeps ==
  ASSUME QueueStep
  PROVE  UNCHANGED driverVars /\ UNCHANGED initialized
<1>1. ASSUME NEW s \in Senders, SendStep(s) PROVE UNCHANGED initialized
  BY <1>1 DEF SendStep, SendTake, SendNoIrp, SendComplete, SendEnqueue, SendDropFull,
     SendDropNoMemory
<1>2. ASSUME NEW i \in Irps, RecvStep(i) \/ CancelIrp(i) \/ Reap(i) PROVE UNCHANGED initialized
  BY <1>2 DEF RecvStep, RecvPop, RecvEmpty, RecvInsert, CancelIrp, Reap
<1>3. ASSUME NEW k \in DOMAIN irp_list, CompleteCanceledIrp(k) PROVE UNCHANGED initialized
  BY <1>3 DEF CompleteCanceledIrp
<1>4. ASSUME ResetStep PROVE UNCHANGED initialized
  BY <1>4 DEF ResetStep, ResetTake, ResetComplete, ResetDone
<1> QED BY <1>1, <1>2, <1>3, <1>4 DEF QueueStep

\* Every step leaves the device where Phases says.
LEMMA PhasesNext ==
  ASSUME DeviceTyped, Phases, [DriverNext]_vars
  PROVE  Phases'
<1>1. ASSUME UNCHANGED <<deviceVars, initialized>> PROVE Phases'
  BY <1>1 DEF deviceVars, Phases, Occurs
<1>2. CASE Callback
  BY <1>1, <1>2, CallbackKeeps
<1>3. CASE Request
  BY <1>1, <1>3, RequestKeeps
<1>4. CASE QueueStep
  BY <1>1, <1>4, QueueStepKeeps DEF driverVars
<1>5. CASE UNCHANGED vars
  BY <1>1, <1>5 DEF vars, driverVars, queueVars
<1>6. CASE Create
  BY <1>6 DEF Create, Phases, queueVars
<1>7. CASE Close
  BY <1>7, CleanupShape DEF Close, Phases, queueVars
<1>8. CASE CloseHandle
  BY <1>8 DEF CloseHandle, Phases, queueVars
<1>9. CASE Unload
  <2>1. todo' = UnloadSteps /\ callouts' \subseteq Callouts
    BY <1>9 DEF Unload, DeviceTyped
  <2>2. \A k \in callouts' : Occurs(k)'
    BY <2>1, UnloadShape DEF Occurs
  <2> QED BY <1>9, <2>1, <2>2, UnloadShape DEF Unload, Phases, queueVars
<1>10. CASE RegisterFails
  <2>1. todo' = FailedSteps /\ callouts' \subseteq Callouts
    BY <1>10 DEF RegisterFails, DeviceTyped
  <2>2. \A k \in callouts' : Occurs(k)'
    BY <2>1, FailedShape DEF Occurs
  <2> QED BY <1>10, <2>1, <2>2, FailedShape DEF RegisterFails, Phases, queueVars
<1>11. CASE DriverEntry
  <2>1. EntrySteps \in Seq(Callouts)
    BY DEF EntrySteps, Callouts
  <2> QED BY <1>11, <2>1 DEF DriverEntry, Phases
<1>12. CASE HandlerStep
  <2>1. todo \in Seq(Steps) /\ todo # <<>>
    <3>1. todo # <<>>
      BY <1>12 DEF HandlerStep, ClearBlock, SetShuttingDown, ClearList, Reset, ResetEnded,
         Unregister, Destroy, Register, Do
    <3>2. todo \in Seq(Callouts) => todo \in Seq(Steps)
      BY DEF Steps
    <3> QED BY <3>1, <3>2 DEF Phases, DeviceTyped, Closing, Unloading, Ordered
  <2>2. ASSUME NEW step \in Steps \ {"destroy"}, Do(step), UNCHANGED <<phase, handle, initialized>>,
               callouts' = callouts \ {step}
        PROVE  Phases'
    <3>1. ASSUME phase = "unloading", NEW k \in callouts, k # step PROVE Occurs(k)'
      <4>1. PICK i \in DOMAIN todo : todo[i] = k
        BY <3>1 DEF Phases, Occurs
      <4>2. i # 1
        BY <2>1, <2>2, <3>1, <4>1 DEF Do
      <4>3. i - 1 \in DOMAIN todo' /\ todo'[i - 1] = k
        BY <2>1, <2>2, <4>1, <4>2 DEF Do
      <4> QED BY <4>3 DEF Occurs
    <3>2. phase = "entry" => todo' \in Seq(Callouts)
      BY <2>1, <2>2 DEF Phases, Do
    <3> QED BY <2>1, <2>2, <3>1, <3>2, TailShape DEF Phases, Do
  <2>3. ASSUME ClearBlock \/ SetShuttingDown \/ (\E l \in ListNames : ClearList(l)) \/ Reset \/ ResetEnded
        PROVE  Phases'
    <3>1. PICK step \in Steps \ (Callouts \cup {"destroy"}) : Do(step)
      BY <2>3 DEF ClearBlock, SetShuttingDown, ClearList, Reset, ResetEnded, Steps, ListNames,
         Callouts
    <3>2. UNCHANGED <<phase, handle, callouts, initialized>>
      BY <2>3 DEF ClearBlock, SetShuttingDown, ClearList, Reset, ResetEnded, ResetDrain, queueVars
    <3> QED BY <2>2, <3>1, <3>2 DEF DeviceTyped
  <2>4. ASSUME NEW k \in Callouts, Unregister(k) PROVE Phases'
    BY <2>2, <2>4 DEF Unregister, Steps, Callouts, queueVars
  <2>5. ASSUME Destroy PROVE Phases'
    <3>1. phase = "unloading"
      BY <2>1, <2>5 DEF Phases, Destroy, Do, Closing, Callouts, DeviceTyped
    <3>2. Len(todo) = 1 /\ todo[1] = "destroy"
      <4>1. 1 \in DOMAIN todo /\ todo[1] = "destroy"
        BY <2>1, <2>5 DEF Destroy, Do
      <4> QED BY <3>1, <4>1 DEF Phases, Unloading
    <3>3. callouts = {}
      BY <2>1, <3>1, <3>2 DEF Phases, Occurs, DeviceTyped, Callouts
    <3>4. todo' = <<>>
      BY <2>1, <2>5, <3>2 DEF Destroy, Do
    <3> QED BY <2>5, <3>1, <3>3, <3>4 DEF Destroy, Phases
  <2>6. ASSUME NEW k \in Callouts, Register(k) PROVE Phases'
    <3>1. todo' \in Seq(Callouts)
      BY <2>1, <2>6 DEF Register, Do, Phases
    <3> QED BY <2>6, <3>1 DEF Register, Phases, queueVars
  <2> QED BY <1>12, <2>3, <2>4, <2>5, <2>6 DEF HandlerStep
<1> QED BY <1>2, <1>3, <1>4, <1>5, <1>6, <1>7, <1>8, <1>9, <1>10, <1>11, <1>12
        DEF DriverNext, ClientStep, Callback, Request

-----------------------------------------------------------------------------
(* What callbacks and queue rely on.                                       *)

\* A callback runs while its callout is registered, and is in Notification_Send
\* in its last stage only.
Calls ==
  /\ \A s \in Senders :
       /\ cpc[s] # "idle" => conn[s] \in Conns /\ conn[s].callout \in callouts
       /\ spc[s] # "idle" => cpc[s] = "sending"
  /\ phase \in {"entry", "unloaded"} => \A s \in Senders : cpc[s] = "idle"

\* Filtering is on while a client has the device, and cleanup ends it first.
Hooked ==
  /\ handle = "none" => ~block
  /\ handle # "none" => session > 0
  /\ handle = "closing" /\ block => todo = CleanupSteps
  /\ \A s \in Senders : cpc[s] # "idle" => cborn[s] > 0

\* A reset is over before the handler goes on; without a client no read is under way;
\* and after the reset on unload no note is stored any more.
Drained ==
  /\ rpc # "idle" => todo # <<>> /\ Head(todo) = "emptied"
  /\ handle = "none" => \A i \in Irps : irp[i] \in Completed \cup {"idle"}
  /\ phase = "unloading" /\ ~Occurs("reset") => notification_list = <<>>
  /\ phase \in {"entry", "unloaded"} => notification_list = <<>>

\* A callback begins, returns, or goes from one stage to the next.
Begins(s) ==
  /\ block /\ cpc[s] = "idle" /\ spc' = spc
  /\ conn'[s] \in Conns /\ conn'[s].callout \in callouts
  /\ cborn'[s] = IF handle = "none" THEN 0 ELSE session
Returns(s) == cpc'[s] = "idle" /\ spc' = spc /\ (cpc[s] = "shutting" \/ spc[s] = "idle")
GoesOn(s) ==
  /\ cpc[s] # "idle" /\ conn'[s] = conn[s] /\ cborn'[s] = cborn[s]
  /\ \/ spc' = spc /\ cpc[s] # "sending"
     \/ cpc'[s] = "sending" /\ \A t \in Senders \ {s} : spc'[t] = spc[t]

\* A step of a callback concerns one sender.
LEMMA CallbackMoves ==
  ASSUME CallbacksTyped, TypeOK, Callback
  PROVE  \E s \in Senders :
           /\ \A t \in Senders \ {s} :
                cpc'[t] = cpc[t] /\ conn'[t] = conn[t] /\ cborn'[t] = cborn[t]
           /\ Begins(s) \/ Returns(s) \/ GoesOn(s)
<1>1. ASSUME NEW s \in Senders, NEW c \in Conns, ClassifyBegin(s, c)
      PROVE  /\ Begins(s)
             /\ \A t \in Senders \ {s} :
                  cpc'[t] = cpc[t] /\ conn'[t] = conn[t] /\ cborn'[t] = cborn[t]
  BY <1>1 DEF ClassifyBegin, Begins, Serving, CallbacksTyped, queueVars, sendVars
<1>2. ASSUME NEW s \in Senders, ReadShuttingDown(s) \/ ClassifyEnd(s)
      PROVE  /\ Returns(s) \/ GoesOn(s)
             /\ \A t \in Senders \ {s} :
                  cpc'[t] = cpc[t] /\ conn'[t] = conn[t] /\ cborn'[t] = cborn[t]
  BY <1>2 DEF ReadShuttingDown, ClassifyEnd, Idle, Returns, GoesOn, CallbacksTyped,
     queueVars, sendVars
<1>3. ASSUME NEW s \in Senders,
             \/ PortExemptByDestination(s) \/ NotExemptByDestination(s)
             \/ PortExemptBySource(s) \/ NotExemptBySource(s)
             \/ CheckHttp(s) \/ CheckAddress(s) \/ CheckMapped(s)
      PROVE  /\ GoesOn(s)
             /\ \A t \in Senders \ {s} :
                  cpc'[t] = cpc[t] /\ conn'[t] = conn[t] /\ cborn'[t] = cborn[t]
  BY <1>3 DEF PortExemptByDestination, NotExemptByDestination, PortExemptBySource,
     NotExemptBySource, CheckHttp, CheckAddress, CheckMapped, NoMatch, GoTo, StepFrame,
     ExemptFrame, CallbackFrame, GoesOn, CallbacksTyped, queueVars, sendVars
<1>4. ASSUME NEW s \in Senders, NEW n \in Notes, ClassifySend(s, n)
      PROVE  /\ GoesOn(s)
             /\ \A t \in Senders \ {s} :
                  cpc'[t] = cpc[t] /\ conn'[t] = conn[t] /\ cborn'[t] = cborn[t]
  BY <1>4 DEF ClassifySend, SendBegin, GoTo, GoesOn, CallbacksTyped, TypeOK
<1> QED BY <1>1, <1>2, <1>3, <1>4 DEF Callback, ClassifyStep

\* The queue lets a thread go idle, and begins nothing.
LEMMA QueueStepMoves ==
  ASSUME IInv, QueueStep
  PROVE  /\ \A s \in Senders : spc'[s] # "idle" => spc[s] # "idle"
         /\ rpc' # "idle" => rpc # "idle"
         /\ notification_list = <<>> /\ notification_list' # <<>>
              => \E s \in Senders : spc[s] # "idle"
         /\ (\A i \in Irps : irp[i] \in Completed \cup {"idle"})
              => \A i \in Irps : irp'[i] \in Completed \cup {"idle"}
<1> DEFINE Over == \A i \in Irps : irp[i] \in Completed \cup {"idle"}
           Goal == /\ \A s \in Senders : spc'[s] # "idle" => spc[s] # "idle"
                   /\ rpc' # "idle" => rpc # "idle"
                   /\ notification_list = <<>> /\ notification_list' # <<>>
                        => \E s \in Senders : spc[s] # "idle"
                   /\ Over => Over'
<1> USE DEF IInv, TypeOK
<1>1. \A k \in DOMAIN irp_list : irp_list[k] \in Irps /\ irp[irp_list[k]] = "listed"
  BY DEF IrpHeldOnce, Range
<1>2. Over => \A k \in DOMAIN irp_list : FALSE
  BY <1>1 DEF Completed
<1>3. ASSUME NEW s \in Senders, SendStep(s) PROVE Goal
  <2>1. spc[s] # "idle" /\ \A t \in Senders \ {s} : spc'[t] = spc[t]
    BY <1>3 DEF SendStep, SendTake, SendNoIrp, SendComplete, SendEnqueue, SendDropFull,
       SendDropNoMemory, SendDone
  <2>2. rpc' = rpc
    BY <1>3 DEF SendStep, SendTake, SendNoIrp, SendComplete, SendEnqueue, SendDropFull,
       SendDropNoMemory, resetVars
  <2>3. Over => spc[s] # "complete"
    <3>1. spc[s] = "complete" => sirp[s] \in Irps
      BY DEF Holding
    <3>2. spc[s] = "complete" => irp[sirp[s]] = "taken"
      BY DEF IrpHeldOnce
    <3> QED BY <3>1, <3>2 DEF Completed
  <2>4. Over => irp' = irp
    BY <1>3, <1>2, <2>3 DEF SendStep, SendTake, SendNoIrp, SendComplete, SendEnqueue,
       SendDropFull, SendDropNoMemory, irpVars
  <2> QED BY <2>1, <2>2, <2>4
<1>4. ASSUME NEW i \in Irps, RecvStep(i) \/ CancelIrp(i) \/ Reap(i) PROVE Goal
  <2>1. spc' = spc /\ rpc' = rpc
    BY <1>4 DEF RecvStep, RecvPop, RecvEmpty, RecvInsert, CancelIrp, Reap, sendVars,
       resetVars
  <2>2. notification_list = <<>> => notification_list' = <<>>
    BY <1>4 DEF RecvStep, RecvPop, RecvEmpty, RecvInsert, CancelIrp, Reap, listVars
  <2>3. Over => Over'
    BY <1>4 DEF RecvStep, RecvPop, RecvEmpty, RecvInsert, CancelIrp, Reap, Complete,
       irpVars, Completed
  <2> QED BY <2>1, <2>2, <2>3
<1>5. ASSUME NEW k \in DOMAIN irp_list, CompleteCanceledIrp(k) PROVE Goal
  BY <1>1, <1>5 DEF CompleteCanceledIrp, Completed, listVars, sendVars, resetVars
<1>6. ASSUME ResetStep PROVE Goal
  <2>1. spc' = spc /\ notification_list' = notification_list /\ rpc # "idle"
    BY <1>6 DEF ResetStep, ResetTake, ResetComplete, ResetDone, sendVars, listVars
  <2>2. Over => irp' = irp
    <3>1. Over => rpc # "complete"
      BY DEF IrpHeldOnce, Holding, Completed
    <3> QED BY <1>6, <1>2, <3>1 DEF ResetStep, ResetTake, ResetComplete, ResetDone, irpVars
  <2> QED BY <2>1, <2>2
<1> QED BY <1>3, <1>4, <1>5, <1>6 DEF QueueStep

\* What the other steps do to callbacks, requests and notes.
Control == Create \/ Close \/ CloseHandle \/ Unload \/ RegisterFails \/ DriverEntry

\* Opening, closing, loading and unloading wait for callbacks and reads.
LEMMA ControlKeeps ==
  ASSUME Control \/ HandlerStep \/ UNCHANGED vars
  PROVE  UNCHANGED <<callbackVars, sendVars, irpVars>>
<1>1. ASSUME Control \/ UNCHANGED vars PROVE UNCHANGED <<callbackVars, sendVars, irpVars>>
  BY <1>1 DEF Control, Create, Close, CloseHandle, Unload, RegisterFails, DriverEntry,
     queueVars, vars, driverVars
<1>2. ASSUME HandlerStep PROVE UNCHANGED <<callbackVars, sendVars, irpVars>>
  BY <1>2 DEF HandlerStep, ClearBlock, SetShuttingDown, ClearList, Reset, ResetDrain,
     ResetEnded, Unregister, Destroy, Register, queueVars
<1> QED BY <1>1, <1>2

\* Unregistering waits for the callbacks, so no callout goes while one runs.
LEMMA CallsNext ==
  ASSUME IInv, DeviceTyped, CallbacksTyped, Phases, Calls, Hooked, [DriverNext]_vars
  PROVE  Calls'
<1>1. CASE Callback
  <2>1. PICK s \in Senders :
          /\ \A t \in Senders \ {s} :
               cpc'[t] = cpc[t] /\ conn'[t] = conn[t] /\ cborn'[t] = cborn[t]
          /\ Begins(s) \/ Returns(s) \/ GoesOn(s)
    BY <1>1, CallbackMoves DEF IInv
  <2>2. UNCHANGED <<callouts, phase>>
    BY <1>1, CallbackKeeps DEF deviceVars
  <2>3. CASE Begins(s)
    <3>1. phase \notin {"entry", "unloaded"}
      BY <2>3 DEF Begins, Hooked, Phases, DeviceTyped
    <3> QED BY <2>1, <2>2, <2>3, <3>1 DEF Begins, Calls
  <2>4. CASE Returns(s)
    BY <2>1, <2>2, <2>4 DEF Returns, Calls
  <2>5. CASE GoesOn(s)
    BY <2>1, <2>2, <2>5 DEF GoesOn, Calls
  <2> QED BY <2>1, <2>3, <2>4, <2>5
<1>2. CASE Request
  BY <1>2, RequestKeeps DEF Calls, deviceVars, sendVars
<1>3. CASE QueueStep
  BY <1>3, QueueStepKeeps, QueueStepMoves DEF Calls, driverVars, deviceVars, callbackVars
<1>4. CASE Control \/ HandlerStep \/ UNCHANGED vars
  <2>1. UNCHANGED <<cpc, conn, spc>>
    BY <1>4, ControlKeeps DEF callbackVars, sendVars
  <2>2. ASSUME UNCHANGED callouts, phase' \in {"entry", "unloaded"} => phase \in {"entry", "unloaded"}
        PROVE  Calls'
    BY <2>1, <2>2 DEF Calls
  <2>3. ASSUME Control, ~RegisterFails PROVE Calls'
    BY <2>2, <2>3 DEF Control, Create, Close, CloseHandle, Unload, DriverEntry
  <2>4. ASSUME RegisterFails PROVE Calls'
    BY <2>1, <2>4 DEF RegisterFails, Calls
  <2>5. ASSUME ClearBlock \/ SetShuttingDown \/ (\E l \in ListNames : ClearList(l)) \/ Reset \/ ResetEnded
        PROVE  Calls'
    BY <2>2, <2>5 DEF ClearBlock, SetShuttingDown, ClearList, Reset, ResetEnded
  <2>6. ASSUME NEW k \in Callouts, Unregister(k) PROVE Calls'
    BY <2>1, <2>6 DEF Unregister, Calls
  <2>7. ASSUME NEW k \in Callouts, Register(k) PROVE Calls'
    BY <2>1, <2>7 DEF Register, Calls
  <2>8. ASSUME Destroy PROVE Calls'
    <3>1. UNCHANGED callouts /\ phase' = "unloaded"
      BY <2>8 DEF Destroy
    <3>2. callouts' = {}
      BY <3>1, PhasesNext DEF Phases
    <3> QED BY <2>1, <3>1, <3>2 DEF Calls
  <2>9. ASSUME UNCHANGED vars PROVE Calls'
    BY <2>2, <2>9 DEF vars, driverVars, deviceVars
  <2> QED BY <1>4, <2>3, <2>4, <2>5, <2>6, <2>7, <2>8, <2>9 DEF HandlerStep
<1> QED BY <1>1, <1>2, <1>3, <1>4 DEF DriverNext, ClientStep, Callback, Request, Control

\* Cleanup clears block before anything else.
LEMMA HookedNext ==
  ASSUME TypeOK, DeviceTyped, CallbacksTyped, Phases, Hooked, [DriverNext]_vars
  PROVE  Hooked'
<1>1. CASE Callback
  <2>1. PICK s \in Senders :
          /\ \A t \in Senders \ {s} :
               cpc'[t] = cpc[t] /\ conn'[t] = conn[t] /\ cborn'[t] = cborn[t]
          /\ Begins(s) \/ Returns(s) \/ GoesOn(s)
    BY <1>1, CallbackMoves
  <2>2. UNCHANGED <<handle, session, block, todo>>
    BY <1>1, CallbackKeeps DEF deviceVars, internalVars
  <2>3. cpc'[s] # "idle" => cborn'[s] > 0
    BY <2>1 DEF Begins, Returns, GoesOn, Hooked
  <2> QED BY <2>1, <2>2, <2>3 DEF Hooked
<1>2. CASE Request
  <2>1. UNCHANGED <<handle, session, todo, cpc, cborn>>
    BY <1>2, RequestKeeps DEF deviceVars
  <2>2. block' = block \/ handle = "open"
    BY <1>2 DEF Request, Hook, SetList, SetFlags, Receive, driverVars, internalVars
  <2> QED BY <2>1, <2>2 DEF Hooked
<1>3. CASE QueueStep
  BY <1>3, QueueStepKeeps DEF Hooked, driverVars, deviceVars, callbackVars, internalVars
<1>4. CASE Control \/ HandlerStep \/ UNCHANGED vars
  <2>1. UNCHANGED <<cpc, cborn>>
    BY <1>4, ControlKeeps DEF callbackVars
  <2>2. CASE Create
    BY <2>1, <2>2 DEF Create, Hooked, DeviceTyped
  <2>3. CASE Close
    BY <2>1, <2>3, CleanupShape DEF Close, Hooked
  <2>4. CASE CloseHandle
    BY <2>1, <2>4, CleanupShape DEF CloseHandle, Hooked, DeviceTyped
  <2>5. CASE Unload \/ RegisterFails \/ DriverEntry
    BY <2>1, <2>5 DEF Unload, RegisterFails, DriverEntry, internalVars, Hooked, Phases
  <2>6. ASSUME NEW step, Do(step), step # "block", UNCHANGED <<handle, session, block>>
        PROVE  Hooked'
    BY <2>1, <2>6, CleanupShape DEF Do, Hooked
  <2>7. CASE ClearBlock
    BY <2>1, <2>7 DEF ClearBlock, Hooked
  <2>8. CASE HandlerStep /\ ~ClearBlock
    <3>1. UNCHANGED <<handle, session, block>>
      BY <2>8 DEF HandlerStep, SetShuttingDown, ClearList, Reset, ResetEnded, Unregister,
         Destroy, Register, internalVars
    <3>2. \E step \in Steps \ {"block"} : Do(step)
      BY <2>8 DEF HandlerStep, SetShuttingDown, ClearList, Reset, ResetEnded, Unregister,
         Destroy, Register, Steps, ListNames, Callouts
    <3> QED BY <2>6, <3>1, <3>2
  <2>9. CASE UNCHANGED vars
    BY <2>9 DEF vars, driverVars, deviceVars, internalVars, callbackVars, Hooked
  <2> QED BY <1>4, <2>2, <2>3, <2>4, <2>5, <2>7, <2>8, <2>9 DEF Control
<1> QED BY <1>1, <1>2, <1>3, <1>4 DEF DriverNext, ClientStep, Callback, Request, Control

\* Any other step leaves the reset to be done.
LEMMA ResetStaysAhead ==
  ASSUME todo \in Seq(Steps), todo # <<>>, NEW step \in Steps \ {"reset"}, Do(step), Occurs("reset")
  PROVE  Occurs("reset")'
<1>1. PICK i \in DOMAIN todo : todo[i] = "reset"
  BY DEF Occurs
<1>2. i # 1
  BY <1>1 DEF Do
<1>3. i - 1 \in DOMAIN todo' /\ todo'[i - 1] = "reset"
  BY <1>1, <1>2 DEF Do
<1> QED BY <1>3 DEF Occurs

\* Unload resets the queue after the last callback that could fill it.
LEMMA DrainedNext ==
  ASSUME IInv, DeviceTyped, Phases, Calls, Drained, [DriverNext]_vars
  PROVE  Drained'
<1>1. CASE Callback \/ UNCHANGED vars
  BY <1>1, CallbackKeeps DEF deviceVars, resetVars, irpVars, listVars, Drained, Occurs, vars,
     driverVars, queueVars
<1>2. CASE Request
  <2>1. UNCHANGED <<deviceVars, rpc, notification_list>>
    BY <1>2, RequestKeeps DEF listVars, resetVars
  <2>2. irp' = irp \/ handle = "open"
    BY <1>2 DEF Request, Hook, SetList, SetFlags, Receive, queueVars, irpVars
  <2> QED BY <2>1, <2>2 DEF Drained, deviceVars, Occurs
<1>3. CASE QueueStep
  <2>1. UNCHANGED <<handle, phase, todo, callouts>>
    BY <1>3, QueueStepKeeps DEF driverVars, deviceVars
  <2>2. ASSUME NEW s \in Senders, spc[s] # "idle"
        PROVE  phase \notin {"entry", "unloaded"} /\ (phase = "unloading" => Occurs("reset"))
    <3>1. conn[s].callout \in callouts /\ phase \notin {"entry", "unloaded"}
      BY <2>2 DEF Calls
    <3>2. ASSUME phase = "unloading" PROVE Occurs("reset")
      BY <3>1, <3>2 DEF Phases, Unloading, Occurs, DeviceTyped
    <3> QED BY <3>1, <3>2
  <2> QED BY <1>3, <2>1, <2>2, QueueStepMoves DEF Drained, Occurs
<1>4. CASE Control
  <2>1. rpc' = rpc /\ irp' = irp
    BY <1>4 DEF Control, Create, Close, CloseHandle, Unload, RegisterFails, DriverEntry, queueVars,
       resetVars, irpVars
  <2>2. rpc = "idle"
    <3>1. \/ todo = <<>>
          \/ todo \in Seq(Callouts) /\ todo # <<>>
      BY <1>4 DEF Control, Create, Close, CloseHandle, Unload, RegisterFails, DriverEntry, Phases
    <3>2. todo \in Seq(Callouts) /\ todo # <<>> => Head(todo) \in Callouts
      OBVIOUS
    <3> QED BY <3>1, <3>2 DEF Drained, Callouts
  <2>3. \A i \in Irps : handle' = "none" => irp[i] \in Completed \cup {"idle"}
    BY <1>4 DEF Control, Create, Close, CloseHandle, Unload, RegisterFails, DriverEntry, Drained, Phases
  <2>4. phase' = "unloading" => Occurs("reset")'
    <3>1. phase' = "unloading" => todo' \in {UnloadSteps, FailedSteps}
      BY <1>4 DEF Control, Create, Close, CloseHandle, Unload, RegisterFails, DriverEntry, Phases
    <3> QED BY <3>1, UnloadShape, FailedShape DEF Occurs
  <2>5. phase' \in {"entry", "unloaded"} => notification_list' = <<>>
    BY <1>4 DEF Control, Create, Close, CloseHandle, Unload, RegisterFails, DriverEntry, queueVars,
       listVars, Drained, Phases
  <2> QED BY <2>1, <2>2, <2>3, <2>4, <2>5 DEF Drained
<1>5. CASE HandlerStep
  <2>1. irp' = irp /\ handle' = handle
    BY <1>5 DEF HandlerStep, ClearBlock, SetShuttingDown, ClearList, Reset, ResetDrain,
       ResetEnded, Unregister, Destroy, Register, queueVars, irpVars
  <2>2. CASE Reset
    <3>1. todo \in Seq(Steps) /\ Ordered(todo)
      BY <2>2 DEF Phases, DeviceTyped, Closing, Unloading, Ordered, Reset, Do, Callouts
    <3>2. todo' # <<>> /\ Head(todo') = "emptied"
      BY <2>2, <3>1, TailShape DEF Reset, Do
    <3>3. notification_list' = <<>> /\ phase' = phase
      BY <2>2 DEF Reset, ResetDrain
    <3> QED BY <2>1, <3>2, <3>3 DEF Drained
  <2>3. CASE ~Reset
    <3>1. UNCHANGED <<rpc, notification_list>>
      BY <1>5, <2>3 DEF HandlerStep, ClearBlock, SetShuttingDown, ClearList,
         ResetEnded, Unregister, Destroy, Register, queueVars, listVars, resetVars
    <3>2. PICK step \in Steps \ {"reset"} : Do(step)
      BY <1>5, <2>3 DEF HandlerStep, ClearBlock, SetShuttingDown, ClearList,
         ResetEnded, Unregister, Destroy, Register, Steps, ListNames, Callouts
    <3>3. rpc = "idle"
      BY <1>5, <2>3 DEF HandlerStep, ClearBlock, SetShuttingDown, ClearList,
         ResetEnded, Unregister, Destroy, Register, ListNames, Callouts, Do, Drained
    <3>4. todo \in Seq(Steps) /\ todo # <<>>
      <4>1. todo \in Seq(Callouts) => todo \in Seq(Steps)
        BY DEF Steps
      <4> QED BY <3>2, <4>1 DEF Phases, DeviceTyped, Closing, Unloading, Ordered, Do
    <3>5. Occurs("reset") => Occurs("reset")'
      BY <3>2, <3>4, ResetStaysAhead
    <3>6. ASSUME phase' = "unloaded" PROVE notification_list = <<>>
      <4>1. Destroy
        BY <1>5, <2>3, <3>6, <3>4 DEF HandlerStep, ClearBlock, SetShuttingDown, ClearList,
           ResetEnded, Unregister, Register, Phases
      <4>2. phase = "unloading"
        BY <3>4, <4>1 DEF Phases, Destroy, Do, Closing, Callouts, DeviceTyped
      <4>3. 1 \in DOMAIN todo /\ todo[1] = "destroy"
        BY <3>4, <4>1 DEF Destroy, Do
      <4>4. Len(todo) = 1
        BY <4>2, <4>3 DEF Phases, Unloading
      <4>5. ~Occurs("reset")
        BY <3>4, <4>3, <4>4 DEF Occurs
      <4> QED BY <4>2, <4>5 DEF Drained
    <3>7. phase' \in {"entry", "unloading"} => phase' = phase
      BY <1>5 DEF HandlerStep, ClearBlock, SetShuttingDown, ClearList, Reset,
         ResetEnded, Unregister, Destroy, Register
    <3> QED BY <2>1, <3>1, <3>3, <3>5, <3>6, <3>7 DEF Drained
  <2> QED BY <2>2, <2>3
<1> QED BY <1>1, <1>2, <1>3, <1>4, <1>5 DEF DriverNext, ClientStep, Callback, Request, Control

-----------------------------------------------------------------------------
(* The queue's contract.                                                   *)

\* Without callouts, client and notes the queue is quiet.
LEMMA QuietWithoutCallouts ==
  ASSUME IInv, Calls, Drained, callouts = {}, handle = "none", rpc = "idle",
         notification_list = <<>>
  PROVE  Quiet
<1>1. \A s \in Senders : spc[s] = "idle"
  BY DEF Calls
<1>2. \A i \in Irps : irp[i] \in Completed \cup {"idle"}
  BY DEF Drained
<1>3. irp_list = <<>>
  <2>1. \A k \in DOMAIN irp_list : irp_list[k] \in Irps /\ irp[irp_list[k]] = "listed"
    BY DEF IInv, TypeOK, IrpHeldOnce, Range
  <2>2. \A k \in DOMAIN irp_list : FALSE
    BY <1>2, <2>1 DEF Completed
  <2>3. irp_list \in Seq(Irps)
    BY DEF IInv, TypeOK
  <2> QED BY <2>2, <2>3
<1> QED BY <1>1, <1>2, <1>3 DEF Quiet

\* Every step of the driver is a step of the queue or leaves it alone.
LEMMA QueueNext ==
  ASSUME IInv, DeviceTyped, Phases, Calls, Drained, [DriverNext]_vars
  PROVE  [Next]_queueVars
<1>1. CASE Callback
  <2>1. ASSUME NEW s \in Senders, NEW n \in Notes, ClassifySend(s, n)
        PROVE  Next
    BY <2>1 DEF ClassifySend, Next
  <2>2. ASSUME ~\E s \in Senders, n \in Notes : ClassifySend(s, n)
        PROVE  UNCHANGED queueVars
    BY <1>1, <2>2 DEF Callback, ClassifyBegin, ClassifyStep, ReadShuttingDown,
       PortExemptByDestination, NotExemptByDestination, PortExemptBySource,
       NotExemptBySource, CheckHttp, CheckAddress, CheckMapped, ClassifyEnd, StepFrame,
       ExemptFrame, CallbackFrame
  <2> QED BY <2>1, <2>2
<1>2. CASE Request
  BY <1>2 DEF Request, Hook, SetList, SetFlags, Receive, Next
<1>3. CASE QueueStep
  BY <1>3 DEF QueueStep, Next
<1>4. CASE (Control /\ ~DriverEntry) \/ UNCHANGED vars
  BY <1>4 DEF Control, Create, Close, CloseHandle, Unload, RegisterFails, vars
<1>5. CASE DriverEntry
  <2>1. rpc = "idle" /\ notification_list = <<>> /\ callouts = {} /\ ~initialized /\ handle = "none"
    BY <1>5 DEF DriverEntry, Phases, Drained, DeviceTyped
  <2> QED BY <1>5, <2>1, QuietWithoutCallouts DEF DriverEntry, InitQueue, Next
<1>6. CASE HandlerStep
  <2>1. CASE Reset
    BY <2>1 DEF Reset, Next
  <2>2. CASE Destroy
    <3>1. todo # <<>> /\ Head(todo) = "destroy" /\ phase' = "unloaded"
      BY <2>2 DEF Destroy, Do
    <3>2. rpc = "idle"
      BY <3>1 DEF Drained
    <3>3. Phases' /\ Drained'
      BY PhasesNext, DrainedNext
    <3>4. callouts = {} /\ notification_list = <<>>
      BY <2>2, <3>1, <3>3 DEF Destroy, Phases, Drained, listVars
    <3>5. phase = "unloading"
      BY <2>2, <3>1 DEF Phases, DeviceTyped, Closing, Callouts
    <3>6. handle = "none" /\ initialized
      BY <3>5 DEF Phases
    <3> QED BY <2>2, <3>2, <3>4, <3>6, QuietWithoutCallouts DEF Destroy, DestroyQueue, Next
  <2>3. CASE ~Reset /\ ~Destroy
    BY <1>6, <2>3 DEF HandlerStep, ClearBlock, SetShuttingDown, ClearList, ResetEnded,
       Unregister, Register
  <2> QED BY <2>1, <2>2, <2>3
<1> QED BY <1>1, <1>2, <1>3, <1>4, <1>5, <1>6
        DEF DriverNext, ClientStep, Callback, Request, Control

-----------------------------------------------------------------------------
(* Types.                                                                  *)

\* The device and PBINTERNAL keep their types.
LEMMA DeviceTypedNext ==
  ASSUME DeviceTyped, Phases, [DriverNext]_vars
  PROVE  DeviceTyped'
<1> DEFINE Content == UNION {Contents[l] : l \in ListNames}
<1> USE DEF DeviceTyped
<1>7. {} \in Content /\ \A l \in ListNames : \A c \in Contents[l] : c \in Content
  BY DriverAssumption DEF ListNames
<1>8. FlagChoices \subseteq SUBSET Flags /\ MaxSessions \in Nat
  BY DriverAssumption
<1>9. lists \in [ListNames -> Content]
  OBVIOUS
<1> HIDE DEF Content
<1>1. CASE Callback
  BY <1>1, CallbackKeeps DEF deviceVars, internalVars
<1>2. CASE QueueStep
  BY <1>2, QueueStepKeeps DEF driverVars, deviceVars, internalVars
<1>3. CASE Request
  <2>1. UNCHANGED <<phase, callouts, handle, session, shutting_down>>
    BY <1>3, RequestKeeps DEF deviceVars
  <2>2. block' \in BOOLEAN
    BY <1>3 DEF Request, Hook, SetList, SetFlags, Receive, driverVars, internalVars
  <2>3. flags' \subseteq Flags
    BY <1>3, <1>8 DEF Request, Hook, SetList, SetFlags, Receive, driverVars, internalVars
  <2>4. lists' \in [ListNames -> Content]
    BY <1>3, <1>7, <1>9 DEF Request, Hook, SetList, SetLists, SetFlags, Receive, driverVars, internalVars
  <2> QED BY <2>1, <2>2, <2>3, <2>4 DEF Content
<1>4. CASE Control
  <2>1. lists' \in [ListNames -> Content]
    BY <1>4, <1>7, <1>9 DEF Control, Create, Close, CloseHandle, Unload, RegisterFails, DriverEntry,
       SetLists, internalVars
  <2>2. UNCHANGED <<block, shutting_down, flags>> \/ Create \/ CloseHandle \/ DriverEntry
    BY <1>4 DEF Control, Close, Unload, RegisterFails, internalVars
  <2>3. block' \in BOOLEAN /\ shutting_down' \in BOOLEAN /\ flags' \subseteq Flags
    BY <2>2 DEF Create, CloseHandle, DriverEntry
  <2>4. /\ phase' \in {"unloaded", "entry", "running", "unloading"}
        /\ callouts' \subseteq Callouts /\ handle' \in {"none", "open", "closing"}
        /\ session' \in 0..MaxSessions
    BY <1>4, <1>8 DEF Control, Create, Close, CloseHandle, Unload, RegisterFails, DriverEntry
  <2> QED BY <2>1, <2>3, <2>4 DEF Content
<1>5. CASE HandlerStep
  <2>1. lists' \in [ListNames -> Content]
    BY <1>5, <1>7, <1>9 DEF HandlerStep, ClearBlock, SetShuttingDown, ClearList, SetLists, Reset,
       ResetEnded, Unregister, Destroy, Register, internalVars
  <2>2. block' \in BOOLEAN /\ shutting_down' \in BOOLEAN /\ flags' \subseteq Flags
    BY <1>5 DEF HandlerStep, ClearBlock, SetShuttingDown, ClearList, Reset,
       ResetEnded, Unregister, Destroy, Register, internalVars
  <2>3. /\ phase' \in {"unloaded", "entry", "running", "unloading"}
        /\ callouts' \subseteq Callouts /\ UNCHANGED <<handle, session>>
    BY <1>5 DEF HandlerStep, ClearBlock, SetShuttingDown, ClearList, Reset,
       ResetEnded, Unregister, Destroy, Register
  <2> QED BY <2>1, <2>2, <2>3 DEF Content
<1>6. CASE UNCHANGED vars
  BY <1>6 DEF vars, driverVars, deviceVars, internalVars
<1> QED BY <1>1, <1>2, <1>3, <1>4, <1>5, <1>6
        DEF DriverNext, ClientStep, Callback, Request, Control

\* The callbacks and the histories keep theirs.
LEMMA CallbacksTypedNext ==
  ASSUME DeviceTyped, CallbacksTyped, Calls, [DriverNext]_vars
  PROVE  CallbacksTyped'
<1> USE DEF CallbacksTyped
<1>1. ASSUME NEW s \in Senders, NEW c \in Conns, ClassifyBegin(s, c) PROVE CallbacksTyped'
  <2>1. cpc' \in [Senders -> CallbackStage] /\ conn' \in [Senders -> Conns \cup {None}]
    BY <1>1 DEF ClassifyBegin, CallbackStage
  <2>2. cborn' \in [Senders -> 0..MaxSessions]
    BY <1>1, DriverAssumption DEF ClassifyBegin, DeviceTyped
  <2>3. Allowed(c, lists) \in BOOLEAN
    BY DEF Allowed
  <2>4. callow' \in [Senders -> BOOLEAN]
    BY <1>1, <2>3 DEF ClassifyBegin
  <2> QED BY <1>1, <2>1, <2>2, <2>4 DEF ClassifyBegin
<1>2. ASSUME NEW s \in Senders, Idle(s), UNCHANGED born PROVE CallbacksTyped'
  BY <1>2, DriverAssumption DEF Idle, CallbackStage
<1>3. ASSUME NEW s \in Senders, ReadShuttingDown(s) PROVE CallbacksTyped'
  BY <1>2, <1>3 DEF ReadShuttingDown, CallbackStage
<1>4. ASSUME NEW s \in Senders, ClassifyEnd(s) PROVE CallbacksTyped'
  BY <1>2, <1>4 DEF ClassifyEnd
<1>5. ASSUME NEW s \in Senders, NEW stage \in CallbackStage, NEW a \in {0, 1, 2},
             GoTo(s, stage), Decide(s, a) \/ UNCHANGED action,
             StepFrame \/ ExemptFrame(s)
      PROVE  CallbacksTyped'
  BY <1>5 DEF GoTo, Decide, StepFrame, ExemptFrame, CallbackFrame
<1>6. \A allow, blocked, key : CheckRanges(allow, blocked, key) \in {0, 1, 2}
  BY DEF CheckRanges
<1>7. ASSUME NEW s \in Senders,
             \/ PortExemptByDestination(s) \/ NotExemptByDestination(s)
             \/ PortExemptBySource(s) \/ NotExemptBySource(s)
             \/ CheckHttp(s) \/ CheckAddress(s) \/ CheckMapped(s)
      PROVE  CallbacksTyped'
  <2>1. Ranges(conn[s]) \in {0, 1, 2} /\ UnmatchedV6(conn[s]) \in {0, 1, 2}
    BY <1>6 DEF Ranges, UnmatchedV6
  <2>2. \E stage \in CallbackStage, a \in {0, 1, 2} :
          GoTo(s, stage) /\ (Decide(s, a) \/ UNCHANGED action)
    BY <1>7, <2>1 DEF PortExemptByDestination, NotExemptByDestination, PortExemptBySource,
       NotExemptBySource, CheckHttp, CheckAddress, CheckMapped, NoMatch, CallbackStage
  <2>3. StepFrame \/ ExemptFrame(s)
    BY <1>7 DEF PortExemptByDestination, NotExemptByDestination, PortExemptBySource,
       NotExemptBySource, CheckHttp, CheckAddress, CheckMapped
  <2> QED BY <1>5, <2>2, <2>3
<1>8. ASSUME NEW s \in Senders, NEW n \in Notes, ClassifySend(s, n) PROVE CallbacksTyped'
  BY <1>8 DEF ClassifySend, GoTo, CallbackStage
<1>9. ASSUME NEW ls, Track(ls), UNCHANGED <<callbackVars, cexempt, born>>
      PROVE  CallbacksTyped'
  <2>1. \A s \in Senders : (callow[s] /\ Allowed(conn[s], ls)) \in BOOLEAN
    OBVIOUS
  <2>2. callow' \in [Senders -> BOOLEAN]
    BY <1>9, <2>1 DEF Track
  <2> QED BY <1>9, <2>2 DEF callbackVars
<1>10. ASSUME UNCHANGED <<callbackVars, historyVars>> PROVE CallbacksTyped'
  BY <1>10 DEF callbackVars, historyVars
<1>11. CASE Request
  BY <1>9, <1>10, <1>11 DEF Request, Hook, SetList, SetLists, SetFlags, Receive, driverVars
<1>12. CASE QueueStep \/ UNCHANGED vars
  BY <1>10, <1>12 DEF QueueStep, vars, driverVars
<1>13. CASE Control
  BY <1>9, <1>10, <1>13 DEF Control, Create, Close, CloseHandle, Unload, RegisterFails,
     DriverEntry, SetLists
<1>14. CASE HandlerStep
  BY <1>9, <1>10, <1>14 DEF HandlerStep, ClearBlock, SetShuttingDown, ClearList, SetLists, Reset,
     ResetEnded, Unregister, Destroy, Register
<1> QED BY <1>1, <1>3, <1>4, <1>7, <1>8, <1>11, <1>12, <1>13, <1>14
        DEF DriverNext, ClientStep, ClassifyStep, Request, Control

-----------------------------------------------------------------------------
(* Verdicts.                                                               *)

\* An address that callow vouches for is on the allow list now; the address in an
\* IPv6 address is looked at only after an exemption or a miss of the allow list.
Verdicts ==
  \A s \in Senders :
    /\ callow[s] => Allowed(conn[s], lists)
    /\ cpc[s] = "mapped" => IsV6(conn[s]) /\ (cexempt[s] \/ ~callow[s])
    /\ BlockedThoughAllowed(s) => IsV6(conn[s]) /\ cexempt[s]

\* Every stage of a callback keeps that.
LEMMA CallbackVerdicts ==
  ASSUME CallbacksTyped, Verdicts, Callback
  PROVE  Verdicts'
<1> USE DEF CallbacksTyped, Verdicts, BlockedThoughAllowed
<1>1. UNCHANGED lists
  BY CallbackKeeps DEF internalVars
<1>2. ASSUME NEW s \in Senders, NEW c \in Conns, ClassifyBegin(s, c) PROVE Verdicts'
  BY <1>1, <1>2 DEF ClassifyBegin
<1>3. ASSUME NEW s \in Senders, ReadShuttingDown(s) \/ ClassifyEnd(s) PROVE Verdicts'
  BY <1>1, <1>3 DEF ReadShuttingDown, ClassifyEnd, Idle
<1>4. ASSUME NEW s \in Senders, PortExemptByDestination(s) \/ PortExemptBySource(s)
      PROVE  Verdicts'
  BY <1>1, <1>4 DEF PortExemptByDestination, PortExemptBySource, NoMatch, Decide, GoTo,
     ExemptFrame, CallbackFrame
<1>5. ASSUME NEW s \in Senders, NotExemptByDestination(s) \/ NotExemptBySource(s)
      PROVE  Verdicts'
  BY <1>1, <1>5 DEF NotExemptByDestination, NotExemptBySource, GoTo, StepFrame, CallbackFrame
<1>6. ASSUME NEW s \in Senders, CheckHttp(s) PROVE Verdicts'
  BY <1>1, <1>6 DEF CheckHttp, HttpPortBlocked, Decide, GoTo, StepFrame, CallbackFrame
<1>7. ASSUME NEW s \in Senders, CheckAddress(s) PROVE Verdicts'
  <2>1. Allowed(conn[s], lists) => Ranges(conn[s]) = 1
    BY DEF Allowed, Ranges, CheckRanges
  <2> QED BY <1>1, <1>7, <2>1 DEF CheckAddress, NoMatch, Decide, GoTo, StepFrame, CallbackFrame
<1>8. ASSUME NEW s \in Senders, CheckMapped(s) PROVE Verdicts'
  BY <1>1, <1>8 DEF CheckMapped, Decide, GoTo, StepFrame, CallbackFrame
<1>9. ASSUME NEW s \in Senders, NEW n \in Notes, ClassifySend(s, n) PROVE Verdicts'
  BY <1>1, <1>9 DEF ClassifySend, GoTo
<1> QED BY <1>2, <1>3, <1>4, <1>5, <1>6, <1>7, <1>8, <1>9 DEF Callback, ClassifyStep

\* The others take the word back with the address.
LEMMA VerdictsNext ==
  ASSUME CallbacksTyped, Verdicts, [DriverNext]_vars
  PROVE  Verdicts'
<1>1. ASSUME UNCHANGED <<cpc, conn, action, cexempt>>,
             UNCHANGED <<lists, callow>> \/ Track(lists')
      PROVE  Verdicts'
  BY <1>1 DEF Verdicts, Track, BlockedThoughAllowed
<1>2. CASE Request
  <2>1. UNCHANGED <<lists, callow>> \/ Track(lists')
    BY <1>2 DEF Request, Hook, SetList, SetLists, SetFlags, Receive, driverVars, internalVars,
       historyVars
  <2> QED BY <1>1, <1>2, <2>1, RequestKeeps
<1>3. CASE QueueStep \/ UNCHANGED vars
  BY <1>1, <1>3 DEF QueueStep, vars, driverVars, internalVars, callbackVars, historyVars
<1>4. CASE Control
  <2>1. UNCHANGED <<lists, callow>> \/ Track(lists')
    BY <1>4 DEF Control, Create, Close, CloseHandle, Unload, RegisterFails, DriverEntry,
       SetLists, internalVars, historyVars
  <2>2. UNCHANGED cexempt
    BY <1>4 DEF Control, Create, Close, CloseHandle, Unload, RegisterFails, DriverEntry,
       historyVars
  <2> QED BY <1>1, <1>4, <2>1, <2>2, ControlKeeps DEF callbackVars
<1>5. CASE HandlerStep
  <2>1. UNCHANGED <<lists, callow>> \/ Track(lists')
    BY <1>5 DEF HandlerStep, ClearBlock, SetShuttingDown, ClearList, SetLists, Reset,
       ResetEnded, Unregister, Destroy, Register, internalVars, historyVars
  <2>2. UNCHANGED cexempt
    BY <1>5 DEF HandlerStep, ClearBlock, SetShuttingDown, ClearList, Reset, ResetEnded,
       Unregister, Destroy, Register, historyVars
  <2> QED BY <1>1, <1>5, <2>1, <2>2, ControlKeeps DEF callbackVars
<1> QED BY <1>2, <1>3, <1>4, <1>5, CallbackVerdicts
        DEF DriverNext, ClientStep, Callback, Request, Control

-----------------------------------------------------------------------------
(* Notifications of earlier clients.                                       *)

\* Sessions before this one are over as far as the queue is concerned.
Cut == IF handle = "open" \/ (handle = "closing" /\ Occurs("reset"))
       THEN session ELSE session + 1

OldStored == {n \in Stored : born[n] < Cut}

\* Callbacks of such a session that may still store a notification.
Late == {s \in Senders : /\ cpc[s] # "idle"
                         /\ cpc[s] = "sending" => spc[s] # "idle"
                         /\ cborn[s] < Cut}

Stale ==
  /\ \A s \in Senders : spc[s] # "idle" => born[snote[s]] = cborn[s]
  /\ IsFiniteSet(OldStored)
  /\ Cardinality(OldStored) + Cardinality(Late) <= Cardinality(Senders)

\* There are finitely many late callbacks.
LEMMA LateFinite ==
  IsFiniteSet(Senders) /\ Late \subseteq Senders /\ IsFiniteSet(Late)
  BY DriverAssumption, FS_Subset DEF Late

\* Nothing old comes in, nobody becomes late.
LEMMA StaleShrinks ==
  ASSUME Stale, \A s \in Senders : spc'[s] # "idle" => born'[snote'[s]] = cborn'[s],
         OldStored' \subseteq OldStored, Late' \subseteq Late
  PROVE  Stale'
<1>1. IsFiniteSet(OldStored) /\ IsFiniteSet(Late) /\ IsFiniteSet(Senders)
  BY LateFinite DEF Stale
<1>2. /\ IsFiniteSet(OldStored') /\ Cardinality(OldStored') <= Cardinality(OldStored)
      /\ IsFiniteSet(Late') /\ Cardinality(Late') <= Cardinality(Late)
  BY <1>1, FS_Subset
<1>3. /\ Cardinality(OldStored) \in Nat /\ Cardinality(OldStored') \in Nat
      /\ Cardinality(Late) \in Nat /\ Cardinality(Late') \in Nat /\ Cardinality(Senders) \in Nat
  BY <1>1, <1>2, FS_CardinalityType
<1>4. Cardinality(OldStored') + Cardinality(Late') <= Cardinality(Senders)
  BY <1>2, <1>3 DEF Stale
<1> QED BY <1>2, <1>4 DEF Stale

\* A reset leaves nothing old behind.
LEMMA StaleEmptied ==
  ASSUME Stale, UNCHANGED <<spc, snote, born, cborn>>, Stored' = {}
  PROVE  Stale'
<1>1. OldStored' = {}
  BY DEF OldStored
<1>2. IsFiniteSet(Late') /\ Late' \subseteq Senders /\ IsFiniteSet(Senders)
  BY DriverAssumption, FS_Subset DEF Late
<1>3. Cardinality(Late') <= Cardinality(Senders)
  BY <1>2, FS_Subset
<1>4. Cardinality(Late') \in Nat /\ Cardinality(Senders) \in Nat
  BY <1>2, FS_CardinalityType
<1>5. IsFiniteSet(OldStored') /\ Cardinality(OldStored') = 0
  BY <1>1, FS_EmptySet
<1>6. Cardinality(OldStored') + Cardinality(Late') <= Cardinality(Senders)
  BY <1>3, <1>4, <1>5
<1>7. \A s \in Senders : spc'[s] # "idle" => born'[snote'[s]] = cborn'[s]
  BY DEF Stale
<1> QED BY <1>5, <1>6, <1>7 DEF Stale

\* A late callback that stores its notification is late no more.
LEMMA StaleStored ==
  ASSUME Stale, NEW s \in Senders, s \in Late, s \notin Late', Late' \subseteq Late,
         OldStored' = OldStored \cup {snote[s]},
         \A t \in Senders : spc'[t] # "idle" => born'[snote'[t]] = cborn'[t]
  PROVE  Stale'
<1>1. IsFiniteSet(OldStored) /\ IsFiniteSet(Late) /\ IsFiniteSet(Senders)
  BY LateFinite DEF Stale
<1>2. /\ IsFiniteSet(Late \ {s}) /\ Cardinality(Late \ {s}) = Cardinality(Late) - 1
  BY <1>1, FS_RemoveElement
<1>3. IsFiniteSet(Late') /\ Cardinality(Late') <= Cardinality(Late \ {s})
  <2>1. Late' \subseteq Late \ {s}
    OBVIOUS
  <2> QED BY <1>2, <2>1, FS_Subset
<1>4. /\ IsFiniteSet(OldStored')
      /\ \/ Cardinality(OldStored') = Cardinality(OldStored) + 1
         \/ Cardinality(OldStored') = Cardinality(OldStored)
  BY <1>1, FS_AddElement
<1>5. /\ Cardinality(OldStored) \in Nat /\ Cardinality(OldStored') \in Nat
      /\ Cardinality(Late) \in Nat /\ Cardinality(Late') \in Nat /\ Cardinality(Senders) \in Nat
  BY <1>1, <1>3, <1>4, FS_CardinalityType
<1>6. Cardinality(OldStored') + Cardinality(Late') <= Cardinality(Senders)
  BY <1>2, <1>3, <1>4, <1>5 DEF Stale
<1> QED BY <1>4, <1>6 DEF Stale

\* The cut moves with a reset only.
LEMMA CutMoves ==
  ASSUME DeviceTyped, Phases, Hooked, [DriverNext]_vars, ~Reset
  PROVE  Cut' = Cut
<1>1. ASSUME UNCHANGED <<handle, session, todo>> PROVE Cut' = Cut
  BY <1>1 DEF Cut, Occurs
<1>2. CASE Callback \/ Request \/ QueueStep \/ UNCHANGED vars
  BY <1>1, <1>2, CallbackKeeps, RequestKeeps, QueueStepKeeps DEF deviceVars, driverVars, vars
<1>3. CASE Create
  BY <1>3 DEF Create, Cut, DeviceTyped
<1>4. CASE Close
  <2>1. Occurs("reset")'
    BY <1>4, CleanupShape DEF Close, Occurs
  <2> QED BY <1>4, <2>1 DEF Close, Cut
<1>5. CASE CloseHandle
  BY <1>5 DEF CloseHandle, Cut, Occurs
<1>6. CASE Unload \/ RegisterFails \/ DriverEntry
  BY <1>6 DEF Unload, RegisterFails, DriverEntry, Cut, Phases
<1>7. CASE HandlerStep
  <2>1. UNCHANGED <<handle, session>>
    BY <1>7 DEF HandlerStep, ClearBlock, SetShuttingDown, ClearList, ResetEnded, Unregister,
       Destroy, Register, Reset
  <2>2. PICK step \in Steps \ {"reset"} : Do(step)
    BY <1>7 DEF HandlerStep, ClearBlock, SetShuttingDown, ClearList, ResetEnded, Unregister,
       Destroy, Register, Steps, ListNames, Callouts
  <2>3. ASSUME handle = "closing" PROVE Occurs("reset")' = Occurs("reset")
    <3>1. todo \in Seq(Steps) /\ todo # <<>>
      BY <2>2, <2>3 DEF Phases, Closing, Ordered, Do
    <3>2. ASSUME NEW i \in DOMAIN todo, todo[i] = "reset"
          PROVE  i - 1 \in DOMAIN todo' /\ todo'[i - 1] = "reset"
      <4>1. i # 1
        BY <2>2, <3>1, <3>2 DEF Do
      <4> QED BY <2>2, <3>1, <3>2, <4>1 DEF Do
    <3>3. ASSUME NEW i \in DOMAIN todo', todo'[i] = "reset"
          PROVE  i + 1 \in DOMAIN todo /\ todo[i + 1] = "reset"
      BY <2>2, <3>1, <3>3 DEF Do
    <3> QED BY <3>2, <3>3 DEF Occurs
  <2> QED BY <2>1, <2>3 DEF Cut
<1> QED BY <1>2, <1>3, <1>4, <1>5, <1>6, <1>7
        DEF DriverNext, ClientStep, Callback, Request

\* A new callback is never late, so a step adds an old note only for one that was.
LEMMA StaleNext ==
  ASSUME IInv, DeviceTyped, CallbacksTyped, Phases, Calls, Hooked, Stale, [DriverNext]_vars
  PROVE  Stale'
<1> USE DEF IInv, TypeOK
<1>1. CASE Reset
  <2>1. Stored' = {}
    BY <1>1, EmptyElements DEF Reset, ResetDrain, Stored
  <2> QED BY <1>1, <2>1, StaleEmptied DEF Reset, ResetDrain, sendVars, callbackVars, historyVars
<1> SUFFICES ASSUME ~Reset PROVE Stale'
  BY <1>1
<1>2. Cut' = Cut
  BY CutMoves
<1>3. ASSUME UNCHANGED <<spc, snote, born, cpc, cborn>>, Stored' \subseteq Stored
      PROVE  Stale'
  BY <1>2, <1>3, StaleShrinks DEF OldStored, Late, Stale
<1>4. CASE Callback
  <2>1. UNCHANGED Stored
    BY <1>4, CallbackKeeps DEF Stored, listVars
  <2>2. ASSUME NEW s \in Senders, NEW n \in Notes, ClassifySend(s, n) PROVE Stale'
    <3>1. n \notin Stored \cup InFlight
      BY <2>2 DEF ClassifySend, SendBegin
    <3>2. /\ spc' = [spc EXCEPT ![s] = "peek"] /\ snote' = [snote EXCEPT ![s] = n]
          /\ born' = [born EXCEPT ![n] = cborn[s]] /\ UNCHANGED cborn
          /\ cpc[s] = "send" /\ cpc' = [cpc EXCEPT ![s] = "sending"]
      BY <2>2 DEF ClassifySend, SendBegin, GoTo
    <3>3. Late' \subseteq Late
      BY <1>2, <3>2 DEF Late, CallbacksTyped
    <3>4. \A m \in Stored : m \in Notes /\ m # n
      BY <3>1 DEF Stored, Range
    <3>5. OldStored' \subseteq OldStored
      BY <1>2, <2>1, <3>2, <3>4 DEF OldStored, CallbacksTyped
    <3>6. \A t \in Senders : spc[t] # "idle" => snote[t] # n /\ snote[t] \in Notes
      BY <3>1 DEF Holding, InFlight
    <3>7. \A t \in Senders : spc'[t] # "idle" => born'[snote'[t]] = cborn'[t]
      BY <3>2, <3>6 DEF Stale, CallbacksTyped
    <3> QED BY <3>3, <3>5, <3>7, StaleShrinks
  <2>3. ASSUME ~\E s \in Senders, n \in Notes : ClassifySend(s, n) PROVE Stale'
    <3>1. UNCHANGED <<spc, snote, born>>
      BY <1>4, <2>3 DEF Callback, ClassifyBegin, ClassifyStep, ReadShuttingDown,
         PortExemptByDestination, NotExemptByDestination, PortExemptBySource,
         NotExemptBySource, CheckHttp, CheckAddress, CheckMapped, ClassifyEnd, StepFrame,
         ExemptFrame, CallbackFrame, queueVars, sendVars
    <3>2. PICK s \in Senders :
            /\ \A t \in Senders \ {s} :
                 cpc'[t] = cpc[t] /\ conn'[t] = conn[t] /\ cborn'[t] = cborn[t]
            /\ Begins(s) \/ Returns(s) \/ GoesOn(s)
      BY <1>4, CallbackMoves
    <3>3. ASSUME Begins(s) PROVE ~(cborn'[s] < Cut)
      <4>1. handle # "none" /\ cborn'[s] = session
        BY <3>3 DEF Begins, Hooked
      <4>2. handle = "closing" => todo = CleanupSteps
        BY <3>3 DEF Begins, Hooked
      <4>3. handle = "closing" => Occurs("reset")
        BY <4>2, CleanupShape DEF Occurs
      <4> QED BY <4>1, <4>3 DEF Cut, DeviceTyped
    <3>4. Late' \subseteq Late
      BY <1>2, <3>1, <3>2, <3>3 DEF Begins, Returns, GoesOn, Late
    <3>5. OldStored' \subseteq OldStored
      BY <1>2, <2>1, <3>1 DEF OldStored
    <3>6. spc[s] # "idle" => cborn'[s] = cborn[s]
      BY <3>1, <3>2 DEF Begins, Returns, GoesOn, Calls
    <3>7. \A t \in Senders : spc'[t] # "idle" => born'[snote'[t]] = cborn'[t]
      BY <3>1, <3>2, <3>6 DEF Stale
    <3> QED BY <3>4, <3>5, <3>7, StaleShrinks
  <2> QED BY <2>2, <2>3
<1>5. CASE QueueStep
  <2>1. UNCHANGED <<cpc, cborn, born>>
    BY <1>5, QueueStepKeeps DEF driverVars, callbackVars, historyVars
  <2>2. ASSUME NEW s \in Senders, SendEnqueue(s) PROVE Stale'
    <3>1. /\ snote[s] \in Notes /\ snote[s] \notin Stored
          /\ spc[s] = "lock" /\ spc' = [spc EXCEPT ![s] = "idle"]
          /\ snote' = [snote EXCEPT ![s] = None]
          /\ notification_list' = Append(notification_list, snote[s])
      BY <2>2 DEF SendEnqueue, SendDone, Holding, NoteHeldOnce, InFlight
    <3>2. Stored' = Stored \cup {snote[s]}
      BY <3>1, AppendElements DEF Stored, NoteHeldOnce
    <3>3. Late' = Late \ {s}
      BY <1>2, <2>1, <3>1 DEF Late, Calls
    <3>4. \A t \in Senders : spc'[t] # "idle" => born'[snote'[t]] = cborn'[t]
      BY <2>1, <3>1 DEF Stale
    <3>5. born[snote[s]] = cborn[s] /\ cpc[s] = "sending"
      BY <3>1 DEF Stale, Calls
    <3>6. CASE cborn[s] < Cut
      <4>1. s \in Late
        BY <3>1, <3>5, <3>6 DEF Late
      <4>2. OldStored' = OldStored \cup {snote[s]}
        BY <1>2, <2>1, <3>2, <3>5, <3>6 DEF OldStored
      <4> QED BY <3>3, <3>4, <4>1, <4>2, StaleStored
    <3>7. CASE ~(cborn[s] < Cut)
      <4>1. OldStored' \subseteq OldStored
        BY <1>2, <2>1, <3>2, <3>5, <3>7 DEF OldStored
      <4> QED BY <3>3, <3>4, <4>1, StaleShrinks
    <3> QED BY <3>6, <3>7
  <2>3. ASSUME NEW s \in Senders, SendStep(s), ~SendEnqueue(s) PROVE Stale'
    <3>1. /\ Stored' = Stored /\ spc[s] # "idle"
          /\ \A t \in Senders \ {s} : spc'[t] = spc[t] /\ snote'[t] = snote[t]
          /\ spc'[s] # "idle" => snote'[s] = snote[s]
      BY <2>3 DEF SendStep, SendTake, SendNoIrp, SendComplete, SendDropFull, SendDropNoMemory,
         SendDone, Stored, listVars
    <3>2. Late' \subseteq Late
      BY <1>2, <2>1, <3>1 DEF Late
    <3>3. OldStored' \subseteq OldStored
      BY <1>2, <2>1, <3>1 DEF OldStored
    <3>4. \A t \in Senders : spc'[t] # "idle" => born'[snote'[t]] = cborn'[t]
      BY <2>1, <3>1 DEF Stale
    <3> QED BY <3>2, <3>3, <3>4, StaleShrinks
  <2>4. ASSUME NEW i \in Irps, RecvPop(i) PROVE Stale'
    <3>1. Stored' \subseteq Stored
      BY <2>4, TailElements DEF RecvPop, Stored, NoteHeldOnce
    <3> QED BY <1>3, <2>1, <2>4, <3>1 DEF RecvPop, sendVars
  <2>5. ASSUME NEW i \in Irps,
               RecvEmpty(i) \/ RecvInsert(i) \/ CancelIrp(i) \/ Reap(i)
        PROVE  Stale'
    <3>1. UNCHANGED <<spc, snote, notification_list>>
      BY <2>5 DEF RecvEmpty, RecvInsert, CancelIrp, Reap, sendVars, listVars
    <3> QED BY <1>3, <2>1, <3>1 DEF Stored
  <2>6. ASSUME (\E k \in DOMAIN irp_list : CompleteCanceledIrp(k)) \/ ResetStep
        PROVE  Stale'
    <3>1. UNCHANGED <<spc, snote, notification_list>>
      BY <2>6 DEF CompleteCanceledIrp, ResetStep, ResetTake, ResetComplete, ResetDone,
         sendVars, listVars
    <3> QED BY <1>3, <2>1, <3>1 DEF Stored
  <2> QED BY <1>5, <2>2, <2>3, <2>4, <2>5, <2>6 DEF QueueStep, RecvStep
<1>6. CASE Request
  BY <1>3, <1>6, RequestKeeps DEF Stored, listVars, sendVars
<1>7. CASE Control \/ HandlerStep \/ UNCHANGED vars
  <2>1. UNCHANGED <<spc, snote, cpc, cborn>>
    BY <1>7, ControlKeeps DEF sendVars, callbackVars
  <2>2. UNCHANGED born
    BY <1>7 DEF Control, Create, Close, CloseHandle, Unload, RegisterFails, DriverEntry,
       HandlerStep, ClearBlock, SetShuttingDown, ClearList, Reset, ResetEnded, Unregister,
       Destroy, Register, vars, driverVars, historyVars
  <2>3. notification_list' \in {<<>>, notification_list}
    BY <1>7 DEF Control, Create, Close, CloseHandle, Unload, RegisterFails, DriverEntry,
       HandlerStep, ClearBlock, SetShuttingDown, ClearList, Reset, ResetDrain, ResetEnded,
       Unregister, Destroy, Register, vars, queueVars, listVars
  <2>4. Stored' \subseteq Stored
    BY <2>3, EmptyElements DEF Stored
  <2> QED BY <1>3, <2>1, <2>2, <2>4
<1> QED BY <1>4, <1>5, <1>6, <1>7
        DEF DriverNext, ClientStep, Callback, Request, Control

-----------------------------------------------------------------------------
(* The inductive invariant and the theorems.                               *)

DInv ==
  /\ IInv
  /\ DeviceTyped /\ CallbacksTyped
  /\ Phases /\ Calls /\ Hooked /\ Drained
  /\ Verdicts
  /\ Stale

\* A driver that has just been loaded satisfies it.
LEMMA DriverInitInv == DriverInit => DInv
<1> SUFFICES ASSUME DriverInit PROVE DInv
  OBVIOUS
<1> USE DEF DriverInit
<1>1. IInv
  BY InitIInv
<1>2. DeviceTyped
  <2>1. {} \in UNION {Contents[l] : l \in ListNames}
    BY DriverAssumption DEF ListNames
  <2>2. lists \in [ListNames -> UNION {Contents[l] : l \in ListNames}]
    BY <2>1
  <2>3. session \in 0..MaxSessions
    BY DriverAssumption
  <2> QED BY <2>2, <2>3 DEF DeviceTyped
<1>3. CallbacksTyped
  BY DriverAssumption DEF CallbacksTyped, CallbackStage
<1>4. Phases /\ Calls /\ Hooked
  BY DEF Phases, Calls, Hooked, QueueInit
<1>5. Drained
  BY DEF Drained, QueueInit
<1>6. Verdicts
  BY DEF Verdicts, BlockedThoughAllowed
<1>7. Stale
  <2>1. OldStored = {} /\ Late = {}
    BY EmptyElements DEF OldStored, Late, Stored, QueueInit
  <2>2. \A s \in Senders : spc[s] = "idle"
    BY DEF QueueInit
  <2>3. Cardinality(Senders) \in Nat
    BY DriverAssumption, FS_CardinalityType
  <2> QED BY <2>1, <2>2, <2>3, FS_EmptySet DEF Stale
<1> QED BY <1>1, <1>2, <1>3, <1>4, <1>5, <1>6, <1>7 DEF DInv

\* Every step keeps it.
LEMMA DriverNextInv == DInv /\ [DriverNext]_vars => DInv'
<1> SUFFICES ASSUME DInv, [DriverNext]_vars PROVE DInv'
  OBVIOUS
<1> USE DEF DInv
<1>1. TypeOK
  BY DEF IInv
<1>2. IInv'
  BY QueueNext, NextIInv
<1>3. DeviceTyped' /\ CallbacksTyped'
  BY DeviceTypedNext, CallbacksTypedNext
<1>4. Phases' /\ Calls' /\ Hooked' /\ Drained'
  BY <1>1, PhasesNext, CallsNext, HookedNext, DrainedNext
<1>5. Verdicts' /\ Stale'
  BY VerdictsNext, StaleNext
<1> QED BY <1>2, <1>3, <1>4, <1>5

\* Every reachable state of the driver satisfies the inductive invariant.
THEOREM DriverInvariant == DriverSpec => []DInv
  BY DriverInitInv, DriverNextInv, PTL DEF DriverSpec

\* Type correctness, of the queue too.
THEOREM DriverTyping == DriverSpec => []DriverTypeOK
<1>1. DInv => DriverTypeOK
  BY DEF DInv, IInv, DriverTypeOK
<1> QED BY <1>1, DriverInvariant, PTL

\* Unload destroys memory and queue only when no callback runs any more.
THEOREM NoUseAfterUnloadHolds == DriverSpec => []NoUseAfterUnload
<1>1. DInv => NoUseAfterUnload
  BY DEF DInv, Calls, Phases, NoUseAfterUnload
<1> QED BY <1>1, DriverInvariant, PTL

\* Every callback that gets past the test of block began with a client.
THEOREM FilterIsOffWithoutClient == DriverSpec => []FilterOffWithoutClient
<1>1. DInv => FilterOffWithoutClient
  BY DEF DInv, Hooked, FilterOffWithoutClient
<1> QED BY <1>1, DriverInvariant, PTL

\* The allow list wins, except for IPv6 from exempt ports.
THEOREM AllowListWinsNearlyAlways == DriverSpec => []AllowListWinsUnlessExempt
<1>1. DInv => AllowListWinsUnlessExempt
  BY DEF DInv, Verdicts, AllowListWinsUnlessExempt
<1> QED BY <1>1, DriverInvariant, PTL

\* A client reads at most one notification of an earlier one per callback thread.
THEOREM StaleNotesAreBounded == DriverSpec => []StaleBounded
<1>1. ASSUME DInv PROVE StaleBounded
  <2> DEFINE Old == {n \in Stored : born[n] < session}
  <2>1. Old \subseteq OldStored
    <3>1. \A n \in Stored : n \in Notes
      BY <1>1 DEF DInv, IInv, TypeOK, Stored, Range
    <3> QED BY <1>1, <3>1 DEF DInv, DeviceTyped, CallbacksTyped, OldStored, Cut
  <2>2. IsFiniteSet(OldStored) /\ IsFiniteSet(Late) /\ IsFiniteSet(Senders)
    BY <1>1, LateFinite DEF DInv, Stale
  <2>3. IsFiniteSet(Old) /\ Cardinality(Old) <= Cardinality(OldStored)
    BY <2>1, <2>2, FS_Subset
  <2>4. /\ Cardinality(Old) \in Nat /\ Cardinality(OldStored) \in Nat
        /\ Cardinality(Late) \in Nat /\ Cardinality(Senders) \in Nat
    BY <2>2, <2>3, FS_CardinalityType
  <2> QED BY <1>1, <2>3, <2>4 DEF DInv, Stale, StaleBounded
<1> QED BY <1>1, DriverInvariant, PTL

\* The driver uses the queue as its contract asks: every theorem about the queue
\* holds of the queue in the driver.
THEOREM DriverKeepsContract == DriverSpec => QueueSpec
<1>1. DriverInit => QueueInit
  BY DEF DriverInit
<1>2. DInv /\ [DriverNext]_vars => [Next]_queueVars
  BY QueueNext DEF DInv
<1> QED BY <1>1, <1>2, DriverInvariant, PTL DEF DriverSpec, QueueSpec, Spec

\* The queue in the driver implements the lossy channel, and keeps its limit, its
\* requests and its notifications as it does alone.
THEOREM DriverImplementsChannel ==
  DriverSpec =>
    /\ ChannelSpec
    /\ [](QueueBounded /\ IrpHeldOnce /\ NoteHeldOnce /\ BoundedOvertaking)
    /\ []TakenIsOwned /\ [][CancelledStays]_queueVars
  BY DriverKeepsContract, QueueImplementsChannel, QueueIsBounded, RequestsHeldOnce,
     NotificationsHeldOnce, OvertakingIsBounded, TakenRequestsAreOwned, CancelRoutineCompletes,
     PTL DEF QueueSpec

-----------------------------------------------------------------------------
(* The end of a client: its reads are completed, and cleanup ends.         *)

\* While the device is closed nobody issues a read, and after the reset the reads that
\* are still parked are those whose cancel routine runs.
Sweeping ==
  /\ handle = "closing" => \A i \in Irps : irp[i] \notin {"lock", "insert"}
  /\ handle = "closing" /\ ~Occurs("reset") /\ rpc = "idle" =>
       \A i \in Irps : irp[i] = "listed" => i \in cancelling

\* What is left of a read that is not being received.
ReadRank(stage) ==
  IF stage = "listed" THEN 3 ELSE IF stage = "taken" THEN 2
  ELSE IF stage \in Completed THEN 1 ELSE 0

\* No step of the queue takes a read back.
LEMMA ReadMoves ==
  ASSUME IInv, QueueStep, \A i \in Irps : irp[i] \notin {"lock", "insert"}
  PROVE  \/ UNCHANGED <<irp, rpc>>
         \/ UNCHANGED <<irp, csqVars>> /\ rpc = "irps" /\ rpc' = "idle" /\ NoneTakeable
         \/ /\ rpc = "idle" <=> rpc' = "idle"
            /\ \E i \in Irps, stage \in IrpStage \ {"lock", "insert"} :
                 /\ irp' = [irp EXCEPT ![i] = stage]
                 /\ ReadRank(stage) < ReadRank(irp[i])
<1> DEFINE Moved == \E i \in Irps, stage \in IrpStage \ {"lock", "insert"} :
                      /\ irp' = [irp EXCEPT ![i] = stage]
                      /\ ReadRank(stage) < ReadRank(irp[i])
<1> USE DEF IInv, TypeOK
<1>1. \A k \in DOMAIN irp_list : irp_list[k] \in Irps /\ irp[irp_list[k]] = "listed"
  BY DEF IrpHeldOnce, Range
<1>2. /\ ReadRank("listed") = 3 /\ ReadRank("taken") = 2
      /\ ReadRank("idle") = 0 /\ \A stage \in Completed : ReadRank(stage) = 1
  BY DEF ReadRank, Completed
<1>3. {"taken", "idle"} \cup Completed \subseteq IrpStage \ {"lock", "insert"}
  BY DEF IrpStage, Completed
<1>0. /\ \A i \in Irps : irp[i] = "listed" /\ irp' = [irp EXCEPT ![i] = "taken"] => Moved
      /\ \A i \in Irps, stage \in Completed :
           irp[i] \in {"listed", "taken"} /\ irp' = [irp EXCEPT ![i] = stage] => Moved
      /\ \A i \in Irps : irp[i] \in Completed /\ irp' = [irp EXCEPT ![i] = "idle"] => Moved
  <2>1. \A i \in Irps, stage \in {"taken", "idle"} \cup Completed :
          irp' = [irp EXCEPT ![i] = stage] /\ ReadRank(stage) < ReadRank(irp[i]) => Moved
    BY <1>3
  <2> HIDE DEF Moved
  <2>2. \A i \in Irps : irp[i] = "listed" => ReadRank("taken") < ReadRank(irp[i])
    BY <1>2
  <2>3. \A i \in Irps, stage \in Completed :
          irp[i] \in {"listed", "taken"} => ReadRank(stage) < ReadRank(irp[i])
    BY <1>2
  <2>4. \A i \in Irps : irp[i] \in Completed => ReadRank("idle") < ReadRank(irp[i])
    BY <1>2
  <2> QED BY <2>1, <2>2, <2>3, <2>4
<1> HIDE DEF Moved
<1>4. ASSUME NEW s \in Senders, SendStep(s) PROVE rpc' = rpc /\ (irp' = irp \/ Moved)
  <2>1. rpc' = rpc
    BY <1>4 DEF SendStep, SendTake, SendNoIrp, SendComplete, SendEnqueue, SendDropFull,
       SendDropNoMemory, resetVars
  <2>2. ASSUME NEW k \in DOMAIN irp_list, SendTake(s, k) PROVE Moved
    <3>1. irp' = [irp EXCEPT ![irp_list[k]] = "taken"]
      BY <2>2 DEF SendTake
    <3> QED BY <1>0, <1>1, <3>1
  <2>3. CASE SendComplete(s)
    <3>1. sirp[s] \in Irps /\ irp[sirp[s]] = "taken"
      BY <2>3 DEF SendComplete, IrpHeldOnce, Holding
    <3>2. irp' = [irp EXCEPT ![sirp[s]] = "success"] /\ "success" \in Completed
      BY <2>3 DEF SendComplete, Complete, Completed
    <3> QED BY <1>0, <2>1, <3>1, <3>2
  <2>4. CASE SendNoIrp(s) \/ SendEnqueue(s) \/ SendDropFull(s) \/ SendDropNoMemory(s)
    BY <2>1, <2>4 DEF SendNoIrp, SendEnqueue, SendDropFull, SendDropNoMemory, irpVars
  <2> QED BY <1>4, <2>1, <2>2, <2>3, <2>4 DEF SendStep
<1>5. ASSUME NEW i \in Irps, RecvStep(i) \/ CancelIrp(i) \/ Reap(i)
      PROVE  rpc' = rpc /\ (irp' = irp \/ Moved)
  <2>1. ~RecvStep(i)
    BY DEF RecvStep, RecvPop, RecvEmpty, RecvInsert
  <2>2. CASE CancelIrp(i)
    BY <2>2 DEF CancelIrp, irpVars, resetVars
  <2>3. CASE Reap(i)
    <3>1. irp' = [irp EXCEPT ![i] = "idle"] /\ irp[i] \in Completed /\ rpc' = rpc
      BY <2>3 DEF Reap, Complete, resetVars
    <3> QED BY <1>0, <3>1
  <2> QED BY <1>5, <2>1, <2>2, <2>3
<1>6. ASSUME NEW k \in DOMAIN irp_list, CompleteCanceledIrp(k) PROVE rpc' = rpc /\ Moved
  <2>1. /\ irp' = [irp EXCEPT ![irp_list[k]] = "cancelled"] /\ "cancelled" \in Completed
        /\ rpc' = rpc
    BY <1>6 DEF CompleteCanceledIrp, Complete, Completed, resetVars
  <2> QED BY <1>0, <1>1, <2>1
<1>7. ASSUME NEW k \in DOMAIN irp_list, ResetTake(k)
      PROVE  rpc # "idle" /\ rpc' # "idle" /\ Moved
  <2>1. irp' = [irp EXCEPT ![irp_list[k]] = "taken"] /\ rpc = "irps" /\ rpc' = "complete"
    BY <1>7 DEF ResetTake
  <2> QED BY <1>0, <1>1, <2>1
<1>8. ASSUME ResetComplete PROVE rpc # "idle" /\ rpc' # "idle" /\ Moved
  <2>1. rirp \in Irps /\ irp[rirp] = "taken"
    BY <1>8 DEF ResetComplete, IrpHeldOnce, Holding
  <2>2. /\ irp' = [irp EXCEPT ![rirp] = "cancelled"] /\ "cancelled" \in Completed
        /\ rpc = "complete" /\ rpc' = "irps"
    BY <1>8 DEF ResetComplete, Complete, Completed
  <2> QED BY <1>0, <2>1, <2>2
<1>9. ASSUME ResetDone
      PROVE  UNCHANGED <<irp, csqVars>> /\ rpc = "irps" /\ rpc' = "idle" /\ NoneTakeable
  BY <1>9 DEF ResetDone, irpVars
<1> QED BY <1>4, <1>5, <1>6, <1>7, <1>8, <1>9 DEF QueueStep, ResetStep, Moved

\* A step of a handler works off the first entry of its list.
LEMMA HandlerMoves ==
  ASSUME HandlerStep
  PROVE  /\ todo # <<>> /\ todo' = Tail(todo)
         /\ UNCHANGED <<irp, cancelling, handle>>
         /\ \/ Do("reset") /\ rpc' = "irps"
            \/ rpc' = rpc /\ \E step \in Steps \ {"reset"} : Do(step)
<1>1. CASE Reset
  BY <1>1 DEF Reset, ResetDrain, Do, csqVars, irpVars
<1>2. CASE ~Reset
  <2>1. UNCHANGED <<irp, cancelling, handle, rpc>>
    BY <1>2 DEF HandlerStep, ClearBlock, SetShuttingDown, ClearList, ResetEnded,
       Unregister, Destroy, Register, queueVars, csqVars, irpVars, resetVars
  <2>2. \E step \in Steps \ {"reset"} : Do(step)
    BY <1>2 DEF HandlerStep, ClearBlock, SetShuttingDown, ClearList, ResetEnded,
       Unregister, Destroy, Register, Steps, ListNames, Callouts
  <2> QED BY <2>1, <2>2 DEF Do
<1> QED BY <1>1, <1>2

LEMMA SweepingNext ==
  ASSUME DInv, Sweeping, [DriverNext]_vars
  PROVE  Sweeping'
<1> USE DEF DInv
<1>1. CASE Callback \/ UNCHANGED vars
  BY <1>1, CallbackKeeps DEF deviceVars, csqVars, resetVars, irpVars, Sweeping, Occurs, vars,
     driverVars, queueVars
<1>2. CASE Request
  BY <1>2 DEF Request, Hook, SetList, SetFlags, Receive, deviceVars, driverVars, Sweeping
<1>3. CASE QueueStep
  <2>1. UNCHANGED <<handle, todo>>
    BY <1>3, QueueStepKeeps DEF driverVars, deviceVars
  <2> SUFFICES ASSUME handle = "closing" PROVE Sweeping'
    BY <2>1 DEF Sweeping
  <2>2. \A i \in Irps : irp[i] \notin {"lock", "insert"}
    BY DEF Sweeping
  <2>3. \A i \in Irps : irp'[i] \notin {"lock", "insert"} /\ (irp'[i] = "listed" => irp[i] = "listed")
    <3>1. ASSUME NEW j \in Irps, NEW stage \in IrpStage \ {"lock", "insert"},
                 irp' = [irp EXCEPT ![j] = stage], ReadRank(stage) < ReadRank(irp[j])
          PROVE  \A i \in Irps : irp'[i] \notin {"lock", "insert"} /\ (irp'[i] = "listed" => irp[i] = "listed")
      <4>1. stage # "listed"
        BY <3>1 DEF ReadRank
      <4> QED BY <2>2, <3>1, <4>1 DEF IInv, TypeOK
    <3> QED BY <1>3, <2>2, <3>1, ReadMoves
  <2>4. ASSUME rpc = "idle", rpc' = "idle", ~Occurs("reset"), NEW i \in Irps, irp'[i] = "listed"
        PROVE  i \in cancelling'
    <3>1. i \in cancelling
      BY <2>3, <2>4 DEF Sweeping
    <3>2. CancelledStays
      BY QueueNext, NextIInv, CancelledStep
    <3> QED BY <2>4, <3>1, <3>2 DEF CancelledStays
  <2>5. ASSUME rpc # "idle", rpc' = "idle", NEW i \in Irps, irp'[i] = "listed"
        PROVE  i \in cancelling'
    <3>1. UNCHANGED <<irp, csqVars>> /\ NoneTakeable
      BY <1>3, <2>2, <2>5, ReadMoves
    <3>2. PICK k \in DOMAIN irp_list : irp_list[k] = i
      BY <2>3, <2>5 DEF IInv, IrpHeldOnce, Range
    <3> QED BY <3>1, <3>2 DEF NoneTakeable, Takeable, csqVars
  <2> QED BY <2>1, <2>3, <2>4, <2>5 DEF Sweeping, Occurs
<1>4. CASE Control
  <2>1. handle' = "closing" => Close
    BY <1>4 DEF Control, Create, CloseHandle, Unload, RegisterFails, DriverEntry, Phases
  <2>2. Close => Occurs("reset")'
    BY CleanupShape DEF Close, Occurs
  <2>3. Close => \A i \in Irps : irp'[i] \notin {"lock", "insert"}
    BY DEF Close, queueVars, irpVars
  <2> QED BY <2>1, <2>2, <2>3 DEF Sweeping
<1>5. CASE HandlerStep
  <2> SUFFICES ASSUME handle = "closing" PROVE Sweeping'
    BY <1>5, HandlerMoves DEF Sweeping
  <2>1. todo \in Seq(Steps) /\ todo # <<>>
    BY <1>5, HandlerMoves DEF Phases, Closing, Ordered
  <2>2. rpc' = "idle" /\ Occurs("reset") => Occurs("reset")'
    BY <1>5, <2>1, HandlerMoves, ResetStaysAhead
  <2>3. rpc' = "idle" => rpc = "idle"
    BY <1>5, HandlerMoves
  <2> QED BY <1>5, <2>2, <2>3, HandlerMoves DEF Sweeping
<1> QED BY <1>1, <1>2, <1>3, <1>4, <1>5
        DEF DriverNext, ClientStep, Callback, Request, Control

\* When the cleanup of a client is over, each of its reads has been completed, or a callback
\* that has taken it is about to complete it, or its cancel routine runs: no read stays
\* parked for a notification that never comes, which would keep the device from the next client.
ReadsLeave ==
  handle = "closing" /\ todo = <<>> =>
    \A i \in Irps :
      \/ irp[i] \in Completed \cup {"idle"}
      \/ i \in cancelling
      \/ \E s \in Senders : Completes(s, i)

LEMMA SweepingHolds == DriverSpec => []Sweeping
<1>1. DriverInit => Sweeping
  BY DEF DriverInit, Sweeping
<1>2. DInv /\ Sweeping /\ [DriverNext]_vars => Sweeping'
  BY SweepingNext
<1> QED BY <1>1, <1>2, DriverInvariant, PTL DEF DriverSpec

THEOREM CleanupCompletesReads == DriverSpec => []ReadsLeave
<1>1. ASSUME DInv, Sweeping, TakenIsOwned PROVE ReadsLeave
  <2> SUFFICES ASSUME handle = "closing", todo = <<>>, NEW i \in Irps,
                      irp[i] \notin Completed \cup {"idle"}
               PROVE  i \in cancelling \/ \E s \in Senders : Completes(s, i)
    BY DEF ReadsLeave
  <2>1. rpc = "idle" /\ ~Occurs("reset")
    BY <1>1 DEF DInv, Drained, Occurs
  <2>2. irp[i] \in {"listed", "taken"}
    BY <1>1 DEF DInv, IInv, TypeOK, IrpStage, Completed, Sweeping
  <2> QED BY <1>1, <2>1, <2>2 DEF Sweeping, TakenIsOwned, Resets
<1>2. DriverSpec => []TakenIsOwned
  BY DriverKeepsContract, TakenRequestsAreOwned, PTL DEF QueueSpec
<1> QED BY <1>1, <1>2, SweepingHolds, DriverInvariant, PTL

\* How far a cleanup is from its end: the steps of the handler, the loop of the reset,
\* and how far each read is from being picked up.
ReadsAt(n) == {i \in Irps : ReadRank(irp[i]) >= n}
ReadsLeft == Cardinality(ReadsAt(1)) + Cardinality(ReadsAt(2)) + Cardinality(ReadsAt(3))
CleanupLeft == 2 * Len(todo) + (IF rpc = "idle" THEN 0 ELSE 1) + ReadsLeft

CleanupAdvancing ==
  handle = "closing" => UNCHANGED <<todo, rpc, irp>> \/ CleanupLeft' < CleanupLeft

LEMMA ReadsCounted == ReadsLeft \in Nat
<1>1. ASSUME NEW n \in Nat PROVE Cardinality(ReadsAt(n)) \in Nat
  <2>1. IsFiniteSet(ReadsAt(n))
    BY QueueAssumption, FS_Subset DEF ReadsAt
  <2> QED BY <2>1, FS_CardinalityType
<1> QED BY <1>1 DEF ReadsLeft

\* A read that comes nearer to its end leaves one of the three sets and enters none.
LEMMA ReadsAdvance ==
  ASSUME TypeOK, NEW i \in Irps, NEW stage \in IrpStage, irp' = [irp EXCEPT ![i] = stage],
         ReadRank(stage) < ReadRank(irp[i])
  PROVE  ReadsLeft' < ReadsLeft
<1>1. irp' \in [Irps -> IrpStage] /\ \A j \in Irps \ {i} : irp'[j] = irp[j]
  BY DEF TypeOK
<1>2. irp'[i] = stage
  BY DEF TypeOK
<1>3. \A x : ReadRank(x) \in 0..3
  BY DEF ReadRank
<1>4. ASSUME NEW n \in 1..3
      PROVE  /\ Cardinality(ReadsAt(n)') \in Nat /\ Cardinality(ReadsAt(n)) \in Nat
             /\ Cardinality(ReadsAt(n)') <= Cardinality(ReadsAt(n))
             /\ n = ReadRank(irp[i]) => Cardinality(ReadsAt(n)') < Cardinality(ReadsAt(n))
  <2>1. ReadsAt(n)' \subseteq ReadsAt(n)
    BY <1>1, <1>2, <1>3 DEF ReadsAt
  <2>2. IsFiniteSet(ReadsAt(n))
    BY QueueAssumption, FS_Subset DEF ReadsAt
  <2>3. IsFiniteSet(ReadsAt(n)') /\ Cardinality(ReadsAt(n)') <= Cardinality(ReadsAt(n))
    BY <2>1, <2>2, FS_Subset
  <2>4. ASSUME n = ReadRank(irp[i]) PROVE Cardinality(ReadsAt(n)') < Cardinality(ReadsAt(n))
    <3>1. i \in ReadsAt(n) /\ i \notin ReadsAt(n)'
      BY <1>2, <1>3, <2>4 DEF ReadsAt
    <3>2. Cardinality(ReadsAt(n)') # Cardinality(ReadsAt(n))
      BY <2>1, <2>2, <3>1, FS_Subset
    <3>3. Cardinality(ReadsAt(n)') \in Nat /\ Cardinality(ReadsAt(n)) \in Nat
      BY <2>2, <2>3, FS_CardinalityType
    <3> QED BY <2>3, <3>2, <3>3
  <2> QED BY <2>2, <2>3, <2>4, FS_CardinalityType
<1>5. ReadRank(irp[i]) \in 1..3
  BY <1>3
<1> HIDE DEF ReadsAt
<1>6. /\ 1 \in 1..3 /\ 2 \in 1..3 /\ 3 \in 1..3
      /\ ReadRank(irp[i]) = 1 \/ ReadRank(irp[i]) = 2 \/ ReadRank(irp[i]) = 3
  BY <1>5
<1> QED BY <1>4, <1>6 DEF ReadsLeft

LEMMA CleanupStep == DInv /\ Sweeping /\ [DriverNext]_vars => CleanupAdvancing
<1> SUFFICES ASSUME DInv, Sweeping, [DriverNext]_vars, handle = "closing"
             PROVE  UNCHANGED <<todo, rpc, irp>> \/ CleanupLeft' < CleanupLeft
  BY DEF CleanupAdvancing
<1> USE DEF DInv
<1>1. ReadsLeft \in Nat /\ ReadsLeft' \in Nat
  <2>1. ReadsLeft \in Nat
    BY ReadsCounted
  <2>2. (ReadsLeft \in Nat)'
    BY ReadsCounted, PTL
  <2> QED BY <2>1, <2>2
<1>2. todo \in Seq(Steps) /\ Len(todo) \in Nat
  BY DEF Phases, Closing, Ordered
<1>3. ASSUME irp' = irp PROVE ReadsLeft' = ReadsLeft
  BY <1>3 DEF ReadsLeft, ReadsAt
<1>4. CleanupLeft = 2 * Len(todo) + (IF rpc = "idle" THEN 0 ELSE 1) + ReadsLeft
  BY DEF CleanupLeft
<1>5. CleanupLeft' = 2 * Len(todo') + (IF rpc' = "idle" THEN 0 ELSE 1) + ReadsLeft'
  BY DEF CleanupLeft
<1>6. CASE Callback \/ UNCHANGED vars
  BY <1>6, CallbackKeeps DEF deviceVars, irpVars, resetVars, vars, driverVars, queueVars
<1>7. CASE Request \/ Control
  BY <1>7 DEF Request, Hook, SetList, SetFlags, Receive, Control, Create, Close, CloseHandle,
     Unload, RegisterFails, DriverEntry, Phases, queueVars, irpVars, resetVars, deviceVars
<1>8. CASE HandlerStep
  <2>1. Len(todo') = Len(todo) - 1 /\ irp' = irp
    BY <1>2, <1>8, HandlerMoves
  <2> QED BY <1>1, <1>2, <1>3, <1>4, <1>5, <2>1
<1>9. CASE QueueStep
  <2>1. todo' = todo
    BY <1>9, QueueStepKeeps DEF driverVars, deviceVars
  <2>2. ASSUME irp' = irp, rpc = "irps", rpc' = "idle" PROVE CleanupLeft' < CleanupLeft
    BY <1>1, <1>2, <1>3, <1>4, <1>5, <2>1, <2>2
  <2>3. ASSUME rpc = "idle" <=> rpc' = "idle", NEW i \in Irps, NEW stage \in IrpStage,
               irp' = [irp EXCEPT ![i] = stage], ReadRank(stage) < ReadRank(irp[i])
        PROVE  CleanupLeft' < CleanupLeft
    <3>1. ReadsLeft' < ReadsLeft
      BY <2>3, ReadsAdvance DEF IInv
    <3> QED BY <1>1, <1>2, <1>4, <1>5, <2>1, <2>3, <3>1
  <2>4. \A i \in Irps : irp[i] \notin {"lock", "insert"}
    BY DEF Sweeping
  <2> QED BY <1>9, <2>1, <2>2, <2>3, <2>4, ReadMoves
<1> QED BY <1>6, <1>7, <1>8, <1>9 DEF DriverNext, ClientStep, Callback, Request, Control

\* The part of DeviceIsFreed that needs no fairness: while the device is being closed every
\* step of its cleanup, of the reset and of a read takes the cleanup nearer to its end, by
\* a measure that is a natural number.
THEOREM CleanupAdvances ==
  DriverSpec => [](handle = "closing" => CleanupLeft \in Nat) /\ [][CleanupAdvancing]_vars
<1>1. DInv /\ Sweeping /\ [DriverNext]_vars => [CleanupAdvancing]_vars
  BY CleanupStep
<1>2. DInv => (handle = "closing" => CleanupLeft \in Nat)
  <2> SUFFICES ASSUME DInv, handle = "closing" PROVE CleanupLeft \in Nat
    OBVIOUS
  <2>1. Len(todo) \in Nat
    BY DEF DInv, Phases, Closing, Ordered
  <2> QED BY <2>1, ReadsCounted DEF CleanupLeft
<1> QED BY <1>1, <1>2, SweepingHolds, DriverInvariant, PTL DEF DriverSpec
=============================================================================
