------------------------ MODULE DriverServiceProofs ------------------------
(***************************************************************************)
(* Proofs about DriverService: its type invariant, the three invariants    *)
(* about our own driver, and that the driver of Windows is left alone, for *)
(* every limit of retries and for both builds.                             *)
(*                                                                         *)
(* The inductive invariant says what is known of the record and of the     *)
(* driver object at each step of the process.  A measure that each step    *)
(* makes less shows that constructors and destructors get on.              *)
(***************************************************************************)
EXTENDS DriverService, TLAPS

PB == "pbfilter"
IP == "IpFilterDriver"

\* Steps of load, and those at which it may be about the service of Windows.
LoadSteps == {"load", "replace", "delete", "recreate", "reopened", "status"}
IpSteps == {"load", "status", "start", "retry"}
OursSteps == {"status", "check", "stop", "start", "retry", "open"}

\* The later steps of a constructor are about pbfilter.
CurIsOurs == pc \notin (IpSteps \cup {"none", "close", "remove"}) => cur = PB

\* The object of IpFilterDriver never allows what would stop or remove it.
IpObject == ~obj[IP].stoppable /\ ~obj[IP].removable /\ ~svc[IP].marked

\* The device is open from the end of start to close, and close is allowed to stop it.
HandleOpen ==
  obj[PB].dev => /\ obj[PB].loaded /\ obj[PB].started /\ obj[PB].stoppable
                 /\ svc[PB] = RunningOurs
                 /\ pc \in {"finish", "up", "close", "remove"}

\* Once load has seen the record, its path is ours.
PathIsOurs == pc \in OursSteps /\ cur = PB => svc[PB].path = "ours"

\* Until then, and until the status is known, a running service of ours was inherited.
RunningIsInherited ==
  pc \in LoadSteps \/ (pc \in {"start", "retry"} /\ cur = IP) =>
    (svc[PB].state = "running" /\ svc[PB].path = "ours" => inherited)

\* Our object is unstoppable until start has succeeded.
NotYetStoppable == pc \notin {"finish", "up", "close", "remove"} => ~obj[PB].stoppable

\* Load leaves the object started only if the service was inherited.
AfterLoad ==
  pc \in {"check", "stop", "start", "retry"} /\ cur = PB =>
    obj[PB].loaded /\ (obj[PB].started => inherited)

Opening == pc = "open" => obj[PB].loaded /\ ~svc[PB].marked

Finished == pc \in {"finish", "up"} /\ ~inherited => obj[PB].dev

\* At most two objects are to be closed, and there is one while one is removed.
ToClose == /\ pc \notin {"close", "remove"} => toClose = <<>>
           /\ pc = "remove" => toClose # <<>>
           /\ pc = "remove" /\ Head(toClose) = PB => ~obj[PB].dev

Gone == \/ svc[PB].state = "absent"
        \/ svc[PB].marked /\ svc[PB].state # "running"

\* An orderly end has still to close our driver, or has removed it.
OrderlyEnd ==
  pc \in {"close", "remove"} /\ ~failed /\ ~inherited =>
    \/ /\ toClose # <<>> /\ Head(toClose) = PB
       /\ obj[PB].loaded /\ obj[PB].removable
       /\ pc = "close" => obj[PB].started /\ obj[PB].stoppable
       /\ pc = "remove" => svc[PB].state # "running"
    \/ Gone

ServiceInv ==
  /\ ServiceTypeOK
  /\ CurIsOurs /\ IpObject /\ HandleOpen /\ PathIsOurs /\ RunningIsInherited
  /\ NotYetStoppable /\ AfterLoad /\ Opening /\ Finished /\ ToClose /\ OrderlyEnd
  /\ CleanExitLeavesNothing

USE DEF PB, IP

-----------------------------------------------------------------------------
(* The invariant holds at the start, and each action preserves it.           *)

\* The two orders in which objects are closed, and what a close leaves of them.
LEMMA ClosingSequences ==
  /\ {<<PB>>, <<PB, IP>>, <<IP, PB>>} \subseteq {q \in Seq(Drivers) : Len(q) <= 2}
  /\ \A q \in Seq(Drivers) : q # <<>> =>
       Head(q) \in Drivers /\ Tail(q) \in Seq(Drivers) /\ Len(Tail(q)) < Len(q)
<1>1. PB \in Drivers /\ IP \in Drivers
  BY DEF Drivers
<1>2. \A c, d \in Drivers : <<c>> \in Seq(Drivers) /\ <<c, d>> \in Seq(Drivers)
  OBVIOUS
<1> QED BY <1>1, <1>2

\* Updates of a record or of an object keep its type.
LEMMA TypedUpdates ==
  ASSUME NEW d \in Drivers, NEW b \in BOOLEAN,
         NEW o \in [Drivers -> Objects], NEW s \in [Drivers -> Records]
  PROVE  /\ [o EXCEPT ![d].loaded = TRUE, ![d].started = b] \in [Drivers -> Objects]
         /\ [o EXCEPT ![d].started = TRUE, ![d].stoppable = b] \in [Drivers -> Objects]
         /\ [o EXCEPT ![d].dev = TRUE, ![d].started = TRUE, ![d].stoppable = TRUE]
              \in [Drivers -> Objects]
         /\ [s EXCEPT ![d].marked = TRUE] \in [Drivers -> Records]
<1>1. /\ [o[d] EXCEPT !.loaded = TRUE, !.started = b] \in Objects
      /\ [o[d] EXCEPT !.started = TRUE, !.stoppable = b] \in Objects
      /\ [o[d] EXCEPT !.dev = TRUE, !.started = TRUE, !.stoppable = TRUE] \in Objects
  BY DEF Objects
<1>2. [s[d] EXCEPT !.marked = TRUE] \in Records
  BY DEF Records
<1> QED BY <1>1, <1>2

LEMMA InitInv == Init => ServiceInv
<1> SUFFICES ASSUME Init PROVE ServiceInv
  OBVIOUS
<1> USE ServiceAssumption DEF Init, NewObject, Drivers
<1>1. svc \in [Drivers -> Records]
  <2> DEFINE R == [state : {"stopped", "running"}, marked : {FALSE}, path : {"ours", "other"}]
  <2>1. R \subseteq Records
    BY DEF Records
  <2>2. Absent \in Records
    BY DEF Absent, Records
  <2>3. svc \in [Drivers -> R \cup {Absent}]
    OBVIOUS
  <2> QED
    BY <2>1, <2>2, <2>3
<1>2. ServiceTypeOK
  <2>1. obj \in [Drivers -> Objects]
    BY DEF Objects
  <2>2. tries \in 0..(MaxRetries - 1)
    OBVIOUS
  <2>3. toClose \in Seq(Drivers) /\ Len(toClose) <= 2
    OBVIOUS
  <2>4. /\ build \in Builds /\ pc \in Steps /\ cur \in Drivers
        /\ inherited \in BOOLEAN /\ failed \in BOOLEAN /\ clean \in BOOLEAN
    BY DEF Steps
  <2> QED BY <1>1, <2>1, <2>2, <2>3, <2>4 DEF ServiceTypeOK
<1>3. /\ CurIsOurs /\ IpObject /\ HandleOpen /\ PathIsOurs /\ RunningIsInherited
      /\ NotYetStoppable
  <2>1. ~svc[IP].marked
    <3>1. CASE svc[IP] = Absent
      BY <3>1 DEF Absent
    <3>2. CASE svc[IP] \in [state : {"stopped", "running"}, marked : {FALSE},
                            path : {"ours", "other"}]
      <4>1. svc[IP].marked \in {FALSE}
        BY <3>2
      <4> QED BY <4>1
    <3> QED BY <3>1, <3>2
  <2> QED
    BY <2>1 DEF CurIsOurs, IpObject, HandleOpen, PathIsOurs, RunningIsInherited,
         NotYetStoppable, LoadSteps, IpSteps, OursSteps
<1>4. AfterLoad /\ Opening /\ Finished /\ ToClose /\ OrderlyEnd /\ CleanExitLeavesNothing
  BY DEF AfterLoad, Opening, Finished, ToClose, OrderlyEnd, CleanExitLeavesNothing
<1> QED
  BY <1>2, <1>3, <1>4 DEF ServiceInv

LEMMA LaunchInv ==
  ASSUME ServiceInv, Launch
  PROVE  ServiceInv'
<1> USE ServiceAssumption DEF ServiceInv, Launch, historyVars, Drivers
<1>1. ServiceTypeOK'
  BY DEF ServiceTypeOK, Records, Objects, Steps
<1>2. CurIsOurs' /\ IpObject' /\ NotYetStoppable'
  BY DEF ServiceTypeOK, Records, Objects, CurIsOurs, IpSteps, IpObject, NotYetStoppable,
         HandleOpen
<1>3. HandleOpen' /\ Opening' /\ Finished'
  BY DEF ServiceTypeOK, Records, Objects, HandleOpen, Opening, Finished, RunningOurs,
         AfterLoad, PathIsOurs, OursSteps, ToClose, CurIsOurs, IpSteps
<1>4. PathIsOurs' /\ RunningIsInherited' /\ AfterLoad'
  BY DEF ServiceTypeOK, Records, Objects, PathIsOurs, OursSteps, RunningIsInherited,
         LoadSteps, AfterLoad, CurIsOurs, IpSteps, NotYetStoppable
<1>5. ToClose' /\ OrderlyEnd' /\ CleanExitLeavesNothing'
  BY DEF ServiceTypeOK, Records, Objects, ToClose, OrderlyEnd, Gone, CleanExitLeavesNothing,
         HandleOpen, Finished, IpObject, RunningOurs
<1> QED BY <1>1, <1>2, <1>3, <1>4, <1>5

LEMMA CrashInv ==
  ASSUME ServiceInv, Crash
  PROVE  ServiceInv'
<1> USE ServiceAssumption DEF ServiceInv, Crash, End, NewObject, Drivers
<1>1. ServiceTypeOK'
  <2> USE DEF ServiceTypeOK
  <2>1. svc' \in [Drivers -> Records]
    BY DEF Records
  <2>2. obj' \in [Drivers -> Objects]
    BY DEF Objects
  <2>3. toClose' \in Seq(Drivers) /\ Len(toClose') <= 2
    BY DEF ToClose
  <2>4. tries' \in 0..(MaxRetries - 1)
    OBVIOUS
  <2>5. build' \in Builds /\ pc' \in Steps /\ cur' \in Drivers
    BY DEF Steps
  <2>6. inherited' \in BOOLEAN /\ failed' \in BOOLEAN /\ clean' \in BOOLEAN
    OBVIOUS
  <2> QED BY <2>1, <2>2, <2>3, <2>4, <2>5, <2>6
<1>2. CurIsOurs' /\ IpObject' /\ NotYetStoppable'
  BY DEF ServiceTypeOK, Records, Objects, CurIsOurs, IpSteps, IpObject, NotYetStoppable,
         HandleOpen
<1>3. HandleOpen' /\ Opening' /\ Finished'
  BY DEF ServiceTypeOK, Records, Objects, HandleOpen, Opening, Finished, RunningOurs,
         AfterLoad, PathIsOurs, OursSteps, ToClose, CurIsOurs, IpSteps
<1>4. PathIsOurs' /\ RunningIsInherited' /\ AfterLoad'
  BY DEF ServiceTypeOK, Records, Objects, PathIsOurs, OursSteps, RunningIsInherited,
         LoadSteps, AfterLoad, CurIsOurs, IpSteps, NotYetStoppable
<1>5. ToClose' /\ OrderlyEnd' /\ CleanExitLeavesNothing'
  BY DEF ServiceTypeOK, Records, Objects, ToClose, OrderlyEnd, Gone, CleanExitLeavesNothing,
         HandleOpen, Finished, IpObject, RunningOurs
<1> QED BY <1>1, <1>2, <1>3, <1>4, <1>5

LEMMA LoadCreatesInv ==
  ASSUME ServiceInv, LoadCreates
  PROVE  ServiceInv'
<1> USE ServiceAssumption DEF ServiceInv, LoadCreates, Goto, historyVars, Drivers,
        Create, Created
<1>1. ServiceTypeOK'
  BY DEF ServiceTypeOK, Records, Objects, Steps
<1>2. CurIsOurs' /\ IpObject' /\ NotYetStoppable'
  BY DEF ServiceTypeOK, Records, Objects, CurIsOurs, IpSteps, IpObject, NotYetStoppable,
         HandleOpen
<1>3. HandleOpen' /\ Opening' /\ Finished'
  BY DEF ServiceTypeOK, Records, Objects, HandleOpen, Opening, Finished, RunningOurs,
         AfterLoad, PathIsOurs, OursSteps, ToClose, CurIsOurs, IpSteps
<1>4. PathIsOurs' /\ RunningIsInherited' /\ AfterLoad'
  BY DEF ServiceTypeOK, Records, Objects, PathIsOurs, OursSteps, RunningIsInherited,
         LoadSteps, AfterLoad, CurIsOurs, IpSteps, NotYetStoppable
<1>5. ToClose' /\ OrderlyEnd' /\ CleanExitLeavesNothing'
  BY DEF ServiceTypeOK, Records, Objects, ToClose, OrderlyEnd, Gone, CleanExitLeavesNothing,
         HandleOpen, Finished, IpObject, RunningOurs
<1> QED BY <1>1, <1>2, <1>3, <1>4, <1>5

LEMMA LoadFindsInv ==
  ASSUME ServiceInv, LoadFinds
  PROVE  ServiceInv'
<1> USE ServiceAssumption DEF ServiceInv, LoadFinds, Goto, historyVars, Drivers,
        PathDiffers
<1>1. ServiceTypeOK'
  BY DEF ServiceTypeOK, Records, Objects, Steps
<1>2. CurIsOurs' /\ IpObject' /\ NotYetStoppable'
  BY DEF ServiceTypeOK, Records, Objects, CurIsOurs, IpSteps, IpObject, NotYetStoppable,
         HandleOpen
<1>3. HandleOpen' /\ Opening' /\ Finished'
  BY DEF ServiceTypeOK, Records, Objects, HandleOpen, Opening, Finished, RunningOurs,
         AfterLoad, PathIsOurs, OursSteps, ToClose, CurIsOurs, IpSteps
<1>4. PathIsOurs' /\ RunningIsInherited' /\ AfterLoad'
  BY DEF ServiceTypeOK, Records, Objects, PathIsOurs, OursSteps, RunningIsInherited,
         LoadSteps, AfterLoad, CurIsOurs, IpSteps, NotYetStoppable
<1>5. ToClose' /\ OrderlyEnd' /\ CleanExitLeavesNothing'
  BY DEF ServiceTypeOK, Records, Objects, ToClose, OrderlyEnd, Gone, CleanExitLeavesNothing,
         HandleOpen, Finished, IpObject, RunningOurs
<1> QED BY <1>1, <1>2, <1>3, <1>4, <1>5

LEMMA LoadFindsOtherInv ==
  ASSUME ServiceInv, LoadFindsOther
  PROVE  ServiceInv'
<1> USE ServiceAssumption DEF ServiceInv, LoadFindsOther, Goto, historyVars,
        Drivers, PathDiffers, Throw
<1>1. ServiceTypeOK'
  <2> USE DEF ServiceTypeOK
  <2>1. svc' \in [Drivers -> Records]
    BY DEF Records
  <2>2. obj' \in [Drivers -> Objects]
    BY DEF Objects
  <2>3. toClose' \in Seq(Drivers) /\ Len(toClose') <= 2
    <3>1. toClose' \in {toClose, <<PB>>, <<PB, IP>>, <<IP, PB>>}
      OBVIOUS
    <3> QED BY <3>1, ClosingSequences
  <2>4. tries' \in 0..(MaxRetries - 1)
    OBVIOUS
  <2>5. build' \in Builds /\ pc' \in Steps /\ cur' \in Drivers
    BY DEF Steps
  <2>6. inherited' \in BOOLEAN /\ failed' \in BOOLEAN /\ clean' \in BOOLEAN
    OBVIOUS
  <2> QED BY <2>1, <2>2, <2>3, <2>4, <2>5, <2>6
<1>2. CurIsOurs' /\ IpObject' /\ NotYetStoppable'
  BY DEF ServiceTypeOK, Records, Objects, CurIsOurs, IpSteps, IpObject, NotYetStoppable,
         HandleOpen
<1>3. HandleOpen' /\ Opening' /\ Finished'
  BY DEF ServiceTypeOK, Records, Objects, HandleOpen, Opening, Finished, RunningOurs,
         AfterLoad, PathIsOurs, OursSteps, ToClose, CurIsOurs, IpSteps
<1>4. PathIsOurs' /\ RunningIsInherited' /\ AfterLoad'
  BY DEF ServiceTypeOK, Records, Objects, PathIsOurs, OursSteps, RunningIsInherited,
         LoadSteps, AfterLoad, CurIsOurs, IpSteps, NotYetStoppable
<1>5. ToClose' /\ OrderlyEnd' /\ CleanExitLeavesNothing'
  BY DEF ServiceTypeOK, Records, Objects, ToClose, OrderlyEnd, Gone, CleanExitLeavesNothing,
         HandleOpen, Finished, IpObject, RunningOurs
<1> QED BY <1>1, <1>2, <1>3, <1>4, <1>5

LEMMA LoadStopsOtherInv ==
  ASSUME ServiceInv, LoadStopsOther
  PROVE  ServiceInv'
<1> USE ServiceAssumption DEF ServiceInv, LoadStopsOther, Goto, historyVars,
        Drivers, Stopped
<1>1. ServiceTypeOK'
  BY DEF ServiceTypeOK, Records, Objects, Steps
<1>2. CurIsOurs' /\ IpObject' /\ NotYetStoppable'
  BY DEF ServiceTypeOK, Records, Objects, CurIsOurs, IpSteps, IpObject, NotYetStoppable,
         HandleOpen
<1>3. HandleOpen' /\ Opening' /\ Finished'
  BY DEF ServiceTypeOK, Records, Objects, HandleOpen, Opening, Finished, RunningOurs,
         AfterLoad, PathIsOurs, OursSteps, ToClose, CurIsOurs, IpSteps
<1>4. PathIsOurs' /\ RunningIsInherited' /\ AfterLoad'
  BY DEF ServiceTypeOK, Records, Objects, PathIsOurs, OursSteps, RunningIsInherited,
         LoadSteps, AfterLoad, CurIsOurs, IpSteps, NotYetStoppable
<1>5. ToClose' /\ OrderlyEnd' /\ CleanExitLeavesNothing'
  BY DEF ServiceTypeOK, Records, Objects, ToClose, OrderlyEnd, Gone, CleanExitLeavesNothing,
         HandleOpen, Finished, IpObject, RunningOurs
<1> QED BY <1>1, <1>2, <1>3, <1>4, <1>5

LEMMA LoadDeletesOtherInv ==
  ASSUME ServiceInv, LoadDeletesOther
  PROVE  ServiceInv'
<1> USE ServiceAssumption DEF ServiceInv, LoadDeletesOther, Goto, historyVars,
        Drivers
<1>1. ServiceTypeOK'
  BY DEF ServiceTypeOK, Records, Objects, Steps
<1>2. CurIsOurs' /\ IpObject' /\ NotYetStoppable'
  BY DEF ServiceTypeOK, Records, Objects, CurIsOurs, IpSteps, IpObject, NotYetStoppable,
         HandleOpen
<1>3. HandleOpen' /\ Opening' /\ Finished'
  BY DEF ServiceTypeOK, Records, Objects, HandleOpen, Opening, Finished, RunningOurs,
         AfterLoad, PathIsOurs, OursSteps, ToClose, CurIsOurs, IpSteps
<1>4. PathIsOurs' /\ RunningIsInherited' /\ AfterLoad'
  BY DEF ServiceTypeOK, Records, Objects, PathIsOurs, OursSteps, RunningIsInherited,
         LoadSteps, AfterLoad, CurIsOurs, IpSteps, NotYetStoppable
<1>5. ToClose' /\ OrderlyEnd' /\ CleanExitLeavesNothing'
  BY DEF ServiceTypeOK, Records, Objects, ToClose, OrderlyEnd, Gone, CleanExitLeavesNothing,
         HandleOpen, Finished, IpObject, RunningOurs
<1> QED BY <1>1, <1>2, <1>3, <1>4, <1>5

LEMMA LoadRecreatesInv ==
  ASSUME ServiceInv, LoadRecreates
  PROVE  ServiceInv'
<1> USE ServiceAssumption DEF ServiceInv, LoadRecreates, Goto, historyVars, Drivers,
        Create, Created
<1>1. ServiceTypeOK'
  BY DEF ServiceTypeOK, Records, Objects, Steps
<1>2. CurIsOurs' /\ IpObject' /\ NotYetStoppable'
  BY DEF ServiceTypeOK, Records, Objects, CurIsOurs, IpSteps, IpObject, NotYetStoppable,
         HandleOpen
<1>3. HandleOpen' /\ Opening' /\ Finished'
  BY DEF ServiceTypeOK, Records, Objects, HandleOpen, Opening, Finished, RunningOurs,
         AfterLoad, PathIsOurs, OursSteps, ToClose, CurIsOurs, IpSteps
<1>4. PathIsOurs' /\ RunningIsInherited' /\ AfterLoad'
  BY DEF ServiceTypeOK, Records, Objects, PathIsOurs, OursSteps, RunningIsInherited,
         LoadSteps, AfterLoad, CurIsOurs, IpSteps, NotYetStoppable
<1>5. ToClose' /\ OrderlyEnd' /\ CleanExitLeavesNothing'
  BY DEF ServiceTypeOK, Records, Objects, ToClose, OrderlyEnd, Gone, CleanExitLeavesNothing,
         HandleOpen, Finished, IpObject, RunningOurs
<1> QED BY <1>1, <1>2, <1>3, <1>4, <1>5

LEMMA LoadReopensInv ==
  ASSUME ServiceInv, LoadReopens
  PROVE  ServiceInv'
<1> USE ServiceAssumption DEF ServiceInv, LoadReopens, Goto, historyVars, Drivers
<1>1. ServiceTypeOK'
  BY DEF ServiceTypeOK, Records, Objects, Steps
<1>2. CurIsOurs' /\ IpObject' /\ NotYetStoppable'
  BY DEF ServiceTypeOK, Records, Objects, CurIsOurs, IpSteps, IpObject, NotYetStoppable,
         HandleOpen
<1>3. HandleOpen' /\ Opening' /\ Finished'
  BY DEF ServiceTypeOK, Records, Objects, HandleOpen, Opening, Finished, RunningOurs,
         AfterLoad, PathIsOurs, OursSteps, ToClose, CurIsOurs, IpSteps
<1>4. PathIsOurs' /\ RunningIsInherited' /\ AfterLoad'
  BY DEF ServiceTypeOK, Records, Objects, PathIsOurs, OursSteps, RunningIsInherited,
         LoadSteps, AfterLoad, CurIsOurs, IpSteps, NotYetStoppable
<1>5. ToClose' /\ OrderlyEnd' /\ CleanExitLeavesNothing'
  BY DEF ServiceTypeOK, Records, Objects, ToClose, OrderlyEnd, Gone, CleanExitLeavesNothing,
         HandleOpen, Finished, IpObject, RunningOurs
<1> QED BY <1>1, <1>2, <1>3, <1>4, <1>5

LEMMA LoadQueriesInv ==
  ASSUME ServiceInv, LoadQueries
  PROVE  ServiceInv'
<1> USE ServiceAssumption DEF ServiceInv, LoadQueries, Goto, historyVars, Drivers,
        CountsAsStarted
<1>1. ServiceTypeOK'
  <2> USE DEF ServiceTypeOK
  <2>1. svc' \in [Drivers -> Records]
    BY DEF Records
  <2>2. obj' \in [Drivers -> Objects]
    <3>1. PICK started \in BOOLEAN :
            obj' = [obj EXCEPT ![cur].loaded = TRUE, ![cur].started = started]
      OBVIOUS
    <3>2. /\ cur \in Drivers /\ FALSE \in BOOLEAN
          /\ obj \in [Drivers -> Objects] /\ svc \in [Drivers -> Records]
      OBVIOUS
    <3> QED BY <3>1, <3>2, TypedUpdates
  <2>3. toClose' \in Seq(Drivers) /\ Len(toClose') <= 2
    BY DEF ToClose
  <2>4. tries' \in 0..(MaxRetries - 1)
    OBVIOUS
  <2>5. build' \in Builds /\ pc' \in Steps /\ cur' \in Drivers
    BY DEF Steps
  <2>6. inherited' \in BOOLEAN /\ failed' \in BOOLEAN /\ clean' \in BOOLEAN
    OBVIOUS
  <2> QED BY <2>1, <2>2, <2>3, <2>4, <2>5, <2>6
<1>2. CurIsOurs' /\ IpObject' /\ NotYetStoppable'
  BY DEF ServiceTypeOK, Records, Objects, CurIsOurs, IpSteps, IpObject, NotYetStoppable,
         HandleOpen
<1>3. HandleOpen' /\ Opening' /\ Finished'
  BY DEF ServiceTypeOK, Records, Objects, HandleOpen, Opening, Finished, RunningOurs,
         AfterLoad, PathIsOurs, OursSteps, ToClose, CurIsOurs, IpSteps
<1>4. PathIsOurs' /\ RunningIsInherited' /\ AfterLoad'
  BY DEF ServiceTypeOK, Records, Objects, PathIsOurs, OursSteps, RunningIsInherited,
         LoadSteps, AfterLoad, CurIsOurs, IpSteps, NotYetStoppable
<1>5. ToClose' /\ OrderlyEnd' /\ CleanExitLeavesNothing'
  BY DEF ServiceTypeOK, Records, Objects, ToClose, OrderlyEnd, Gone, CleanExitLeavesNothing,
         HandleOpen, Finished, IpObject, RunningOurs
<1> QED BY <1>1, <1>2, <1>3, <1>4, <1>5

LEMMA CheckRunningInv ==
  ASSUME ServiceInv, CheckRunning
  PROVE  ServiceInv'
<1> USE ServiceAssumption DEF ServiceInv, CheckRunning, Goto, historyVars, Drivers
<1>1. ServiceTypeOK'
  BY DEF ServiceTypeOK, Records, Objects, Steps
<1>2. CurIsOurs' /\ IpObject' /\ NotYetStoppable'
  BY DEF ServiceTypeOK, Records, Objects, CurIsOurs, IpSteps, IpObject, NotYetStoppable,
         HandleOpen
<1>3. HandleOpen' /\ Opening' /\ Finished'
  BY DEF ServiceTypeOK, Records, Objects, HandleOpen, Opening, Finished, RunningOurs,
         AfterLoad, PathIsOurs, OursSteps, ToClose, CurIsOurs, IpSteps
<1>4. PathIsOurs' /\ RunningIsInherited' /\ AfterLoad'
  BY DEF ServiceTypeOK, Records, Objects, PathIsOurs, OursSteps, RunningIsInherited,
         LoadSteps, AfterLoad, CurIsOurs, IpSteps, NotYetStoppable
<1>5. ToClose' /\ OrderlyEnd' /\ CleanExitLeavesNothing'
  BY DEF ServiceTypeOK, Records, Objects, ToClose, OrderlyEnd, Gone, CleanExitLeavesNothing,
         HandleOpen, Finished, IpObject, RunningOurs
<1> QED BY <1>1, <1>2, <1>3, <1>4, <1>5

LEMMA StopBeforeStartInv ==
  ASSUME ServiceInv, StopBeforeStart
  PROVE  ServiceInv'
<1> USE ServiceAssumption DEF ServiceInv, StopBeforeStart, Goto, historyVars,
        Drivers, Stop, StopSkipped, Stopped
<1>1. ServiceTypeOK'
  BY DEF ServiceTypeOK, Records, Objects, Steps
<1>2. CurIsOurs' /\ IpObject' /\ NotYetStoppable'
  BY DEF ServiceTypeOK, Records, Objects, CurIsOurs, IpSteps, IpObject, NotYetStoppable,
         HandleOpen
<1>3. HandleOpen' /\ Opening' /\ Finished'
  BY DEF ServiceTypeOK, Records, Objects, HandleOpen, Opening, Finished, RunningOurs,
         AfterLoad, PathIsOurs, OursSteps, ToClose, CurIsOurs, IpSteps
<1>4. PathIsOurs' /\ RunningIsInherited' /\ AfterLoad'
  BY DEF ServiceTypeOK, Records, Objects, PathIsOurs, OursSteps, RunningIsInherited,
         LoadSteps, AfterLoad, CurIsOurs, IpSteps, NotYetStoppable
<1>5. ToClose' /\ OrderlyEnd' /\ CleanExitLeavesNothing'
  BY DEF ServiceTypeOK, Records, Objects, ToClose, OrderlyEnd, Gone, CleanExitLeavesNothing,
         HandleOpen, Finished, IpObject, RunningOurs
<1> QED BY <1>1, <1>2, <1>3, <1>4, <1>5

LEMMA StartSkippedInv ==
  ASSUME ServiceInv, StartSkipped
  PROVE  ServiceInv'
<1> USE ServiceAssumption DEF ServiceInv, StartSkipped, AfterStart, StepAfterStart,
        historyVars, Drivers
<1>1. ServiceTypeOK'
  BY DEF ServiceTypeOK, Records, Objects, Steps
<1>2. CurIsOurs' /\ IpObject' /\ NotYetStoppable'
  BY DEF ServiceTypeOK, Records, Objects, CurIsOurs, IpSteps, IpObject, NotYetStoppable,
         HandleOpen
<1>3. HandleOpen' /\ Opening' /\ Finished'
  BY DEF ServiceTypeOK, Records, Objects, HandleOpen, Opening, Finished, RunningOurs,
         AfterLoad, PathIsOurs, OursSteps, ToClose, CurIsOurs, IpSteps
<1>4. PathIsOurs' /\ RunningIsInherited' /\ AfterLoad'
  BY DEF ServiceTypeOK, Records, Objects, PathIsOurs, OursSteps, RunningIsInherited,
         LoadSteps, AfterLoad, CurIsOurs, IpSteps, NotYetStoppable
<1>5. ToClose' /\ OrderlyEnd' /\ CleanExitLeavesNothing'
  BY DEF ServiceTypeOK, Records, Objects, ToClose, OrderlyEnd, Gone, CleanExitLeavesNothing,
         HandleOpen, Finished, IpObject, RunningOurs
<1> QED BY <1>1, <1>2, <1>3, <1>4, <1>5

LEMMA StartServiceInv ==
  ASSUME ServiceInv, StartService
  PROVE  ServiceInv'
<1> USE ServiceAssumption DEF ServiceInv, StartService, Goto, historyVars, Drivers,
        GetsHandle, AfterStart, StepAfterStart, StoppableWithoutHandle
<1>1. ServiceTypeOK'
  <2> USE DEF ServiceTypeOK
  <2>1. svc' \in [Drivers -> Records]
    BY DEF Records
  <2>2. obj' \in [Drivers -> Objects]
    <3>1. \/ obj' = obj
          \/ obj' = [obj EXCEPT ![cur].started = TRUE, ![cur].stoppable = FALSE]
      OBVIOUS
    <3>2. /\ cur \in Drivers /\ FALSE \in BOOLEAN
          /\ obj \in [Drivers -> Objects] /\ svc \in [Drivers -> Records]
      OBVIOUS
    <3>3. CASE obj' = obj
      BY <3>2, <3>3
    <3>4. CASE obj' = [obj EXCEPT ![cur].started = TRUE, ![cur].stoppable = FALSE]
      BY <3>2, <3>4, TypedUpdates
    <3> QED BY <3>1, <3>3, <3>4
  <2>3. toClose' \in Seq(Drivers) /\ Len(toClose') <= 2
    BY DEF ToClose
  <2>4. tries' \in 0..(MaxRetries - 1)
    OBVIOUS
  <2>5. build' \in Builds /\ pc' \in Steps /\ cur' \in Drivers
    BY DEF Steps
  <2>6. inherited' \in BOOLEAN /\ failed' \in BOOLEAN /\ clean' \in BOOLEAN
    OBVIOUS
  <2> QED BY <2>1, <2>2, <2>3, <2>4, <2>5, <2>6
<1>2. CurIsOurs' /\ IpObject' /\ NotYetStoppable'
  BY DEF ServiceTypeOK, Records, Objects, CurIsOurs, IpSteps, IpObject, NotYetStoppable,
         HandleOpen
<1>3. HandleOpen' /\ Opening' /\ Finished'
  BY DEF ServiceTypeOK, Records, Objects, HandleOpen, Opening, Finished, RunningOurs,
         AfterLoad, PathIsOurs, OursSteps, ToClose, CurIsOurs, IpSteps
<1>4. PathIsOurs' /\ RunningIsInherited' /\ AfterLoad'
  BY DEF ServiceTypeOK, Records, Objects, PathIsOurs, OursSteps, RunningIsInherited,
         LoadSteps, AfterLoad, CurIsOurs, IpSteps, NotYetStoppable
<1>5. ToClose' /\ OrderlyEnd' /\ CleanExitLeavesNothing'
  BY DEF ServiceTypeOK, Records, Objects, ToClose, OrderlyEnd, Gone, CleanExitLeavesNothing,
         HandleOpen, Finished, IpObject, RunningOurs
<1> QED BY <1>1, <1>2, <1>3, <1>4, <1>5

LEMMA StartLockedInv ==
  ASSUME ServiceInv, StartLocked
  PROVE  ServiceInv'
<1> USE ServiceAssumption DEF ServiceInv, StartLocked, historyVars, Drivers
<1>1. ServiceTypeOK'
  BY DEF ServiceTypeOK, Records, Objects, Steps
<1>2. CurIsOurs' /\ IpObject' /\ NotYetStoppable'
  BY DEF ServiceTypeOK, Records, Objects, CurIsOurs, IpSteps, IpObject, NotYetStoppable,
         HandleOpen
<1>3. HandleOpen' /\ Opening' /\ Finished'
  BY DEF ServiceTypeOK, Records, Objects, HandleOpen, Opening, Finished, RunningOurs,
         AfterLoad, PathIsOurs, OursSteps, ToClose, CurIsOurs, IpSteps
<1>4. PathIsOurs' /\ RunningIsInherited' /\ AfterLoad'
  BY DEF ServiceTypeOK, Records, Objects, PathIsOurs, OursSteps, RunningIsInherited,
         LoadSteps, AfterLoad, CurIsOurs, IpSteps, NotYetStoppable
<1>5. ToClose' /\ OrderlyEnd' /\ CleanExitLeavesNothing'
  BY DEF ServiceTypeOK, Records, Objects, ToClose, OrderlyEnd, Gone, CleanExitLeavesNothing,
         HandleOpen, Finished, IpObject, RunningOurs
<1> QED BY <1>1, <1>2, <1>3, <1>4, <1>5

LEMMA StartStillLockedInv ==
  ASSUME ServiceInv, StartStillLocked
  PROVE  ServiceInv'
<1> USE ServiceAssumption DEF ServiceInv, StartStillLocked, MayTryAgain, Counted,
        Throw, historyVars, Drivers
<1>1. ServiceTypeOK'
  <2> USE DEF ServiceTypeOK
  <2>1. svc' \in [Drivers -> Records]
    BY DEF Records
  <2>2. obj' \in [Drivers -> Objects]
    BY DEF Objects
  <2>3. toClose' \in Seq(Drivers) /\ Len(toClose') <= 2
    <3>1. toClose' \in {toClose, <<PB>>, <<PB, IP>>, <<IP, PB>>}
      OBVIOUS
    <3> QED BY <3>1, ClosingSequences
  <2>4. tries' \in 0..(MaxRetries - 1)
    OBVIOUS
  <2>5. build' \in Builds /\ pc' \in Steps /\ cur' \in Drivers
    BY DEF Steps
  <2>6. inherited' \in BOOLEAN /\ failed' \in BOOLEAN /\ clean' \in BOOLEAN
    OBVIOUS
  <2> QED BY <2>1, <2>2, <2>3, <2>4, <2>5, <2>6
<1>2. CurIsOurs' /\ IpObject' /\ NotYetStoppable'
  BY DEF ServiceTypeOK, Records, Objects, CurIsOurs, IpSteps, IpObject, NotYetStoppable,
         HandleOpen
<1>3. HandleOpen' /\ Opening' /\ Finished'
  BY DEF ServiceTypeOK, Records, Objects, HandleOpen, Opening, Finished, RunningOurs,
         AfterLoad, PathIsOurs, OursSteps, ToClose, CurIsOurs, IpSteps
<1>4. PathIsOurs' /\ RunningIsInherited' /\ AfterLoad'
  BY DEF ServiceTypeOK, Records, Objects, PathIsOurs, OursSteps, RunningIsInherited,
         LoadSteps, AfterLoad, CurIsOurs, IpSteps, NotYetStoppable
<1>5. ToClose' /\ OrderlyEnd' /\ CleanExitLeavesNothing'
  BY DEF ServiceTypeOK, Records, Objects, ToClose, OrderlyEnd, Gone, CleanExitLeavesNothing,
         HandleOpen, Finished, IpObject, RunningOurs
<1> QED BY <1>1, <1>2, <1>3, <1>4, <1>5

LEMMA OpenDeviceInv ==
  ASSUME ServiceInv, OpenDevice
  PROVE  ServiceInv'
<1> USE ServiceAssumption DEF ServiceInv, OpenDevice, AfterStart, StepAfterStart,
        StoppableWithoutHandle, GetsHandle, historyVars, Drivers
<1>1. ServiceTypeOK'
  <2> USE DEF ServiceTypeOK
  <2>1. svc' \in [Drivers -> Records]
    BY DEF Records
  <2>2. obj' \in [Drivers -> Objects]
    <3>1. /\ cur \in Drivers /\ TRUE \in BOOLEAN
          /\ obj \in [Drivers -> Objects] /\ svc \in [Drivers -> Records]
      OBVIOUS
    <3> QED BY <3>1, TypedUpdates
  <2>3. toClose' \in Seq(Drivers) /\ Len(toClose') <= 2
    BY DEF ToClose
  <2>4. tries' \in 0..(MaxRetries - 1)
    OBVIOUS
  <2>5. build' \in Builds /\ pc' \in Steps /\ cur' \in Drivers
    BY DEF Steps
  <2>6. inherited' \in BOOLEAN /\ failed' \in BOOLEAN /\ clean' \in BOOLEAN
    OBVIOUS
  <2> QED BY <2>1, <2>2, <2>3, <2>4, <2>5, <2>6
<1>2. CurIsOurs' /\ IpObject' /\ NotYetStoppable'
  BY DEF ServiceTypeOK, Records, Objects, CurIsOurs, IpSteps, IpObject, NotYetStoppable,
         HandleOpen
<1>3. HandleOpen' /\ Opening' /\ Finished'
  BY DEF ServiceTypeOK, Records, Objects, HandleOpen, Opening, Finished, RunningOurs,
         AfterLoad, PathIsOurs, OursSteps, ToClose, CurIsOurs, IpSteps
<1>4. PathIsOurs' /\ RunningIsInherited' /\ AfterLoad'
  BY DEF ServiceTypeOK, Records, Objects, PathIsOurs, OursSteps, RunningIsInherited,
         LoadSteps, AfterLoad, CurIsOurs, IpSteps, NotYetStoppable
<1>5. ToClose' /\ OrderlyEnd' /\ CleanExitLeavesNothing'
  BY DEF ServiceTypeOK, Records, Objects, ToClose, OrderlyEnd, Gone, CleanExitLeavesNothing,
         HandleOpen, Finished, IpObject, RunningOurs
<1> QED BY <1>1, <1>2, <1>3, <1>4, <1>5

LEMMA CallFailsInv ==
  ASSUME ServiceInv, CallFails
  PROVE  ServiceInv'
<1> USE ServiceAssumption DEF ServiceInv, CallFails, ConstructorCalls, StopSkipped,
        Throw, Drivers
<1>1. ServiceTypeOK'
  <2> USE DEF ServiceTypeOK
  <2>1. svc' \in [Drivers -> Records]
    BY DEF Records
  <2>2. obj' \in [Drivers -> Objects]
    BY DEF Objects
  <2>3. toClose' \in Seq(Drivers) /\ Len(toClose') <= 2
    <3>1. toClose' \in {toClose, <<PB>>, <<PB, IP>>, <<IP, PB>>}
      OBVIOUS
    <3> QED BY <3>1, ClosingSequences
  <2>4. tries' \in 0..(MaxRetries - 1)
    OBVIOUS
  <2>5. build' \in Builds /\ pc' \in Steps /\ cur' \in Drivers
    BY DEF Steps
  <2>6. inherited' \in BOOLEAN /\ failed' \in BOOLEAN /\ clean' \in BOOLEAN
    OBVIOUS
  <2> QED BY <2>1, <2>2, <2>3, <2>4, <2>5, <2>6
<1>2. CurIsOurs' /\ IpObject' /\ NotYetStoppable'
  BY DEF ServiceTypeOK, Records, Objects, CurIsOurs, IpSteps, IpObject, NotYetStoppable,
         HandleOpen
<1>3. HandleOpen' /\ Opening' /\ Finished'
  BY DEF ServiceTypeOK, Records, Objects, HandleOpen, Opening, Finished, RunningOurs,
         AfterLoad, PathIsOurs, OursSteps, ToClose, CurIsOurs, IpSteps
<1>4. PathIsOurs' /\ RunningIsInherited' /\ AfterLoad'
  BY DEF ServiceTypeOK, Records, Objects, PathIsOurs, OursSteps, RunningIsInherited,
         LoadSteps, AfterLoad, CurIsOurs, IpSteps, NotYetStoppable
<1>5. ToClose' /\ OrderlyEnd' /\ CleanExitLeavesNothing'
  BY DEF ServiceTypeOK, Records, Objects, ToClose, OrderlyEnd, Gone, CleanExitLeavesNothing,
         HandleOpen, Finished, IpObject, RunningOurs
<1> QED BY <1>1, <1>2, <1>3, <1>4, <1>5

LEMMA FinishInv ==
  ASSUME ServiceInv, Finish
  PROVE  ServiceInv'
<1> USE ServiceAssumption DEF ServiceInv, Finish, Goto, historyVars, Drivers
<1>1. ServiceTypeOK'
  BY DEF ServiceTypeOK, Records, Objects, Steps
<1>2. CurIsOurs' /\ IpObject' /\ NotYetStoppable'
  BY DEF ServiceTypeOK, Records, Objects, CurIsOurs, IpSteps, IpObject, NotYetStoppable,
         HandleOpen
<1>3. HandleOpen' /\ Opening' /\ Finished'
  BY DEF ServiceTypeOK, Records, Objects, HandleOpen, Opening, Finished, RunningOurs,
         AfterLoad, PathIsOurs, OursSteps, ToClose, CurIsOurs, IpSteps
<1>4. PathIsOurs' /\ RunningIsInherited' /\ AfterLoad'
  BY DEF ServiceTypeOK, Records, Objects, PathIsOurs, OursSteps, RunningIsInherited,
         LoadSteps, AfterLoad, CurIsOurs, IpSteps, NotYetStoppable
<1>5. ToClose' /\ OrderlyEnd' /\ CleanExitLeavesNothing'
  BY DEF ServiceTypeOK, Records, Objects, ToClose, OrderlyEnd, Gone, CleanExitLeavesNothing,
         HandleOpen, Finished, IpObject, RunningOurs
<1> QED BY <1>1, <1>2, <1>3, <1>4, <1>5

LEMMA CalloutsFailInv ==
  ASSUME ServiceInv, CalloutsFail
  PROVE  ServiceInv'
<1> USE ServiceAssumption DEF ServiceInv, CalloutsFail, Throw, Drivers
<1>1. ServiceTypeOK'
  <2> USE DEF ServiceTypeOK
  <2>1. svc' \in [Drivers -> Records]
    BY DEF Records
  <2>2. obj' \in [Drivers -> Objects]
    BY DEF Objects
  <2>3. toClose' \in Seq(Drivers) /\ Len(toClose') <= 2
    <3>1. toClose' \in {toClose, <<PB>>, <<PB, IP>>, <<IP, PB>>}
      OBVIOUS
    <3> QED BY <3>1, ClosingSequences
  <2>4. tries' \in 0..(MaxRetries - 1)
    OBVIOUS
  <2>5. build' \in Builds /\ pc' \in Steps /\ cur' \in Drivers
    BY DEF Steps
  <2>6. inherited' \in BOOLEAN /\ failed' \in BOOLEAN /\ clean' \in BOOLEAN
    OBVIOUS
  <2> QED BY <2>1, <2>2, <2>3, <2>4, <2>5, <2>6
<1>2. CurIsOurs' /\ IpObject' /\ NotYetStoppable'
  BY DEF ServiceTypeOK, Records, Objects, CurIsOurs, IpSteps, IpObject, NotYetStoppable,
         HandleOpen
<1>3. HandleOpen' /\ Opening' /\ Finished'
  BY DEF ServiceTypeOK, Records, Objects, HandleOpen, Opening, Finished, RunningOurs,
         AfterLoad, PathIsOurs, OursSteps, ToClose, CurIsOurs, IpSteps
<1>4. PathIsOurs' /\ RunningIsInherited' /\ AfterLoad'
  BY DEF ServiceTypeOK, Records, Objects, PathIsOurs, OursSteps, RunningIsInherited,
         LoadSteps, AfterLoad, CurIsOurs, IpSteps, NotYetStoppable
<1>5. ToClose' /\ OrderlyEnd' /\ CleanExitLeavesNothing'
  BY DEF ServiceTypeOK, Records, Objects, ToClose, OrderlyEnd, Gone, CleanExitLeavesNothing,
         HandleOpen, Finished, IpObject, RunningOurs
<1> QED BY <1>1, <1>2, <1>3, <1>4, <1>5

LEMMA QuitInv ==
  ASSUME ServiceInv, Quit
  PROVE  ServiceInv'
<1> USE ServiceAssumption DEF ServiceInv, Quit, RemovableAtEnd, historyVars, Drivers
<1>1. ServiceTypeOK'
  <2> USE DEF ServiceTypeOK
  <2>1. svc' \in [Drivers -> Records]
    BY DEF Records
  <2>2. obj' \in [Drivers -> Objects]
    BY DEF Objects
  <2>3. toClose' \in Seq(Drivers) /\ Len(toClose') <= 2
    <3>1. toClose' \in {toClose, <<PB>>, <<PB, IP>>, <<IP, PB>>}
      OBVIOUS
    <3> QED BY <3>1, ClosingSequences
  <2>4. tries' \in 0..(MaxRetries - 1)
    OBVIOUS
  <2>5. build' \in Builds /\ pc' \in Steps /\ cur' \in Drivers
    BY DEF Steps
  <2>6. inherited' \in BOOLEAN /\ failed' \in BOOLEAN /\ clean' \in BOOLEAN
    OBVIOUS
  <2> QED BY <2>1, <2>2, <2>3, <2>4, <2>5, <2>6
<1>2. CurIsOurs' /\ IpObject' /\ NotYetStoppable'
  BY DEF ServiceTypeOK, Records, Objects, CurIsOurs, IpSteps, IpObject, NotYetStoppable,
         HandleOpen
<1>3. HandleOpen' /\ Opening' /\ Finished'
  BY DEF ServiceTypeOK, Records, Objects, HandleOpen, Opening, Finished, RunningOurs,
         AfterLoad, PathIsOurs, OursSteps, ToClose, CurIsOurs, IpSteps
<1>4. PathIsOurs' /\ RunningIsInherited' /\ AfterLoad'
  BY DEF ServiceTypeOK, Records, Objects, PathIsOurs, OursSteps, RunningIsInherited,
         LoadSteps, AfterLoad, CurIsOurs, IpSteps, NotYetStoppable
<1>5. ToClose' /\ OrderlyEnd' /\ CleanExitLeavesNothing'
  BY DEF ServiceTypeOK, Records, Objects, ToClose, OrderlyEnd, Gone, CleanExitLeavesNothing,
         HandleOpen, Finished, IpObject, RunningOurs
<1> QED BY <1>1, <1>2, <1>3, <1>4, <1>5

LEMMA CloseNotLoadedInv ==
  ASSUME ServiceInv, CloseNotLoaded
  PROVE  ServiceInv'
<1> USE ServiceAssumption DEF ServiceInv, CloseNotLoaded, Closing, historyVars,
        Drivers
<1>0. Closing \in Drivers /\ toClose # <<>>
  BY ClosingSequences DEF ServiceTypeOK, ToClose
<1>1. ServiceTypeOK'
  BY DEF ServiceTypeOK, Records, Objects, Steps
<1>2. CurIsOurs' /\ IpObject' /\ NotYetStoppable'
  BY DEF ServiceTypeOK, Records, Objects, CurIsOurs, IpSteps, IpObject, NotYetStoppable,
         HandleOpen
<1>3. HandleOpen' /\ Opening' /\ Finished'
  BY DEF ServiceTypeOK, Records, Objects, HandleOpen, Opening, Finished, RunningOurs,
         AfterLoad, PathIsOurs, OursSteps, ToClose, CurIsOurs, IpSteps
<1>4. PathIsOurs' /\ RunningIsInherited' /\ AfterLoad'
  BY DEF ServiceTypeOK, Records, Objects, PathIsOurs, OursSteps, RunningIsInherited,
         LoadSteps, AfterLoad, CurIsOurs, IpSteps, NotYetStoppable
<1>5. ToClose' /\ OrderlyEnd' /\ CleanExitLeavesNothing'
  BY DEF ServiceTypeOK, Records, Objects, ToClose, OrderlyEnd, Gone, CleanExitLeavesNothing,
         HandleOpen, Finished, IpObject, RunningOurs
<1> QED BY <1>1, <1>2, <1>3, <1>4, <1>5

LEMMA CloseStopsInv ==
  ASSUME ServiceInv, CloseStops
  PROVE  ServiceInv'
<1> USE ServiceAssumption DEF ServiceInv, CloseStops, Goto, historyVars, Drivers,
        Closing, Stop, StopSkipped, Stopped
<1>0. Closing \in Drivers /\ toClose # <<>>
  BY ClosingSequences DEF ServiceTypeOK, ToClose
<1>1. ServiceTypeOK'
  <2> USE DEF ServiceTypeOK
  <2>1. svc' \in [Drivers -> Records]
    BY <1>0 DEF Records
  <2>2. obj' \in [Drivers -> Objects]
    BY DEF Objects
  <2>3. toClose' \in Seq(Drivers) /\ Len(toClose') <= 2
    BY DEF ToClose
  <2>4. tries' \in 0..(MaxRetries - 1)
    OBVIOUS
  <2>5. build' \in Builds /\ pc' \in Steps /\ cur' \in Drivers
    BY DEF Steps
  <2>6. inherited' \in BOOLEAN /\ failed' \in BOOLEAN /\ clean' \in BOOLEAN
    OBVIOUS
  <2> QED BY <2>1, <2>2, <2>3, <2>4, <2>5, <2>6
<1>2. CurIsOurs' /\ IpObject' /\ NotYetStoppable'
  BY DEF ServiceTypeOK, Records, Objects, CurIsOurs, IpSteps, IpObject, NotYetStoppable,
         HandleOpen
<1>3. HandleOpen' /\ Opening' /\ Finished'
  <2> USE DEF ServiceTypeOK, Records, Objects, HandleOpen, Opening, Finished, RunningOurs
  <2>1. CASE Closing = PB
    BY <2>1
  <2>2. CASE Closing = IP
    <3>1. svc'[PB] = svc[PB] /\ obj'[PB] = obj[PB]
      BY <2>2 DEF IpObject
    <3> QED BY <3>1
  <2> QED BY <1>0, <2>1, <2>2
<1>4. PathIsOurs' /\ RunningIsInherited' /\ AfterLoad'
  BY DEF ServiceTypeOK, Records, Objects, PathIsOurs, OursSteps, RunningIsInherited,
         LoadSteps, AfterLoad, CurIsOurs, IpSteps, NotYetStoppable
<1>5. ToClose' /\ OrderlyEnd' /\ CleanExitLeavesNothing'
  BY DEF ServiceTypeOK, Records, Objects, ToClose, OrderlyEnd, Gone, CleanExitLeavesNothing,
         HandleOpen, Finished, IpObject, RunningOurs
<1> QED BY <1>1, <1>2, <1>3, <1>4, <1>5

LEMMA CloseRemovesInv ==
  ASSUME ServiceInv, CloseRemoves
  PROVE  ServiceInv'
<1> USE ServiceAssumption DEF ServiceInv, CloseRemoves, Closing, Drivers
<1>0. Closing \in Drivers /\ toClose # <<>>
  BY ClosingSequences DEF ServiceTypeOK, ToClose
<1>1. ServiceTypeOK'
  <2> USE DEF ServiceTypeOK
  <2>1. svc' \in [Drivers -> Records]
    <3>1. svc' = svc \/ svc' = [svc EXCEPT ![Closing].marked = TRUE]
      OBVIOUS
    <3>2. TRUE \in BOOLEAN /\ obj \in [Drivers -> Objects] /\ svc \in [Drivers -> Records]
      OBVIOUS
    <3>3. CASE svc' = svc
      BY <3>2, <3>3
    <3>4. CASE svc' = [svc EXCEPT ![Closing].marked = TRUE]
      BY <1>0, <3>2, <3>4, TypedUpdates
    <3> QED BY <3>1, <3>3, <3>4
  <2>2. obj' \in [Drivers -> Objects]
    BY <1>0 DEF Objects
  <2>3. toClose' \in Seq(Drivers) /\ Len(toClose') <= 2
    BY DEF ToClose
  <2>4. tries' \in 0..(MaxRetries - 1)
    OBVIOUS
  <2>5. build' \in Builds /\ pc' \in Steps /\ cur' \in Drivers
    BY DEF Steps
  <2>6. inherited' \in BOOLEAN /\ failed' \in BOOLEAN /\ clean' \in BOOLEAN
    OBVIOUS
  <2> QED BY <2>1, <2>2, <2>3, <2>4, <2>5, <2>6
<1>2. CurIsOurs' /\ IpObject' /\ NotYetStoppable'
  BY DEF ServiceTypeOK, Records, Objects, CurIsOurs, IpSteps, IpObject, NotYetStoppable,
         HandleOpen
<1>3. HandleOpen' /\ Opening' /\ Finished'
  BY DEF ServiceTypeOK, Records, Objects, HandleOpen, Opening, Finished, RunningOurs,
         AfterLoad, PathIsOurs, OursSteps, ToClose, CurIsOurs, IpSteps
<1>4. PathIsOurs' /\ RunningIsInherited' /\ AfterLoad'
  BY DEF ServiceTypeOK, Records, Objects, PathIsOurs, OursSteps, RunningIsInherited,
         LoadSteps, AfterLoad, CurIsOurs, IpSteps, NotYetStoppable
<1>5. ToClose' /\ OrderlyEnd' /\ CleanExitLeavesNothing'
  BY DEF ServiceTypeOK, Records, Objects, ToClose, OrderlyEnd, Gone, CleanExitLeavesNothing,
         HandleOpen, Finished, IpObject, RunningOurs
<1> QED BY <1>1, <1>2, <1>3, <1>4, <1>5

LEMMA CloseFailsInv ==
  ASSUME ServiceInv, CloseFails
  PROVE  ServiceInv'
<1> USE ServiceAssumption DEF ServiceInv, CloseFails, End, NewObject, Drivers
<1>1. ServiceTypeOK'
  <2> USE DEF ServiceTypeOK
  <2>1. svc' \in [Drivers -> Records]
    BY DEF Records
  <2>2. obj' \in [Drivers -> Objects]
    BY DEF Objects
  <2>3. toClose' \in Seq(Drivers) /\ Len(toClose') <= 2
    BY DEF ToClose
  <2>4. tries' \in 0..(MaxRetries - 1)
    OBVIOUS
  <2>5. build' \in Builds /\ pc' \in Steps /\ cur' \in Drivers
    BY DEF Steps
  <2>6. inherited' \in BOOLEAN /\ failed' \in BOOLEAN /\ clean' \in BOOLEAN
    OBVIOUS
  <2> QED BY <2>1, <2>2, <2>3, <2>4, <2>5, <2>6
<1>2. CurIsOurs' /\ IpObject' /\ NotYetStoppable'
  BY DEF ServiceTypeOK, Records, Objects, CurIsOurs, IpSteps, IpObject, NotYetStoppable,
         HandleOpen
<1>3. HandleOpen' /\ Opening' /\ Finished'
  BY DEF ServiceTypeOK, Records, Objects, HandleOpen, Opening, Finished, RunningOurs,
         AfterLoad, PathIsOurs, OursSteps, ToClose, CurIsOurs, IpSteps
<1>4. PathIsOurs' /\ RunningIsInherited' /\ AfterLoad'
  BY DEF ServiceTypeOK, Records, Objects, PathIsOurs, OursSteps, RunningIsInherited,
         LoadSteps, AfterLoad, CurIsOurs, IpSteps, NotYetStoppable
<1>5. ToClose' /\ OrderlyEnd' /\ CleanExitLeavesNothing'
  BY DEF ServiceTypeOK, Records, Objects, ToClose, OrderlyEnd, Gone, CleanExitLeavesNothing,
         HandleOpen, Finished, IpObject, RunningOurs
<1> QED BY <1>1, <1>2, <1>3, <1>4, <1>5

LEMMA CloseDoneInv ==
  ASSUME ServiceInv, CloseDone
  PROVE  ServiceInv'
<1> USE ServiceAssumption DEF ServiceInv, CloseDone, End, NewObject, Drivers
<1>1. ServiceTypeOK'
  <2> USE DEF ServiceTypeOK
  <2>1. svc' \in [Drivers -> Records]
    BY DEF Records
  <2>2. obj' \in [Drivers -> Objects]
    BY DEF Objects
  <2>3. toClose' \in Seq(Drivers) /\ Len(toClose') <= 2
    BY DEF ToClose
  <2>4. tries' \in 0..(MaxRetries - 1)
    OBVIOUS
  <2>5. build' \in Builds /\ pc' \in Steps /\ cur' \in Drivers
    BY DEF Steps
  <2>6. inherited' \in BOOLEAN /\ failed' \in BOOLEAN /\ clean' \in BOOLEAN
    OBVIOUS
  <2> QED BY <2>1, <2>2, <2>3, <2>4, <2>5, <2>6
<1>2. CurIsOurs' /\ IpObject' /\ NotYetStoppable'
  BY DEF ServiceTypeOK, Records, Objects, CurIsOurs, IpSteps, IpObject, NotYetStoppable,
         HandleOpen
<1>3. HandleOpen' /\ Opening' /\ Finished'
  BY DEF ServiceTypeOK, Records, Objects, HandleOpen, Opening, Finished, RunningOurs,
         AfterLoad, PathIsOurs, OursSteps, ToClose, CurIsOurs, IpSteps
<1>4. PathIsOurs' /\ RunningIsInherited' /\ AfterLoad'
  BY DEF ServiceTypeOK, Records, Objects, PathIsOurs, OursSteps, RunningIsInherited,
         LoadSteps, AfterLoad, CurIsOurs, IpSteps, NotYetStoppable
<1>5. ToClose' /\ OrderlyEnd' /\ CleanExitLeavesNothing'
  BY DEF ServiceTypeOK, Records, Objects, ToClose, OrderlyEnd, Gone, CleanExitLeavesNothing,
         HandleOpen, Finished, IpObject, RunningOurs
<1> QED BY <1>1, <1>2, <1>3, <1>4, <1>5

LEMMA StopEndsInv ==
  ASSUME ServiceInv, NEW d \in Drivers, StopEnds(d)
  PROVE  ServiceInv'
<1> USE ServiceAssumption DEF ServiceInv, StopEnds, processVars, historyVars,
        Drivers
<1>1. ServiceTypeOK'
  <2> USE DEF ServiceTypeOK
  <2>1. svc' \in [Drivers -> Records]
    BY DEF Records
  <2>2. obj' \in [Drivers -> Objects]
    BY DEF Objects
  <2>3. toClose' \in Seq(Drivers) /\ Len(toClose') <= 2
    BY DEF ToClose
  <2>4. tries' \in 0..(MaxRetries - 1)
    OBVIOUS
  <2>5. build' \in Builds /\ pc' \in Steps /\ cur' \in Drivers
    BY DEF Steps
  <2>6. inherited' \in BOOLEAN /\ failed' \in BOOLEAN /\ clean' \in BOOLEAN
    OBVIOUS
  <2> QED BY <2>1, <2>2, <2>3, <2>4, <2>5, <2>6
<1>2. CurIsOurs' /\ IpObject' /\ NotYetStoppable'
  BY DEF ServiceTypeOK, Records, Objects, CurIsOurs, IpSteps, IpObject, NotYetStoppable,
         HandleOpen
<1>3. HandleOpen' /\ Opening' /\ Finished'
  <2> USE DEF ServiceTypeOK, Records, Objects, HandleOpen, Opening, Finished, RunningOurs
  <2>1. CASE d = PB
    <3>1. svc[PB] # RunningOurs /\ (pc = "open" => d = IP \/ ~svc'[PB].marked)
      BY <2>1
    <3> QED BY <2>1, <3>1
  <2>2. CASE d = IP
    <3>1. svc'[PB] = svc[PB]
      BY <2>2
    <3> QED BY <3>1
  <2> QED BY <2>1, <2>2
<1>4. PathIsOurs' /\ RunningIsInherited' /\ AfterLoad'
  BY DEF ServiceTypeOK, Records, Objects, PathIsOurs, OursSteps, RunningIsInherited,
         LoadSteps, AfterLoad, CurIsOurs, IpSteps, NotYetStoppable
<1>5. ToClose' /\ OrderlyEnd' /\ CleanExitLeavesNothing'
  BY DEF ServiceTypeOK, Records, Objects, ToClose, OrderlyEnd, Gone, CleanExitLeavesNothing,
         HandleOpen, Finished, IpObject, RunningOurs
<1> QED BY <1>1, <1>2, <1>3, <1>4, <1>5

LEMMA RecordGoesInv ==
  ASSUME ServiceInv, NEW d \in Drivers, RecordGoes(d)
  PROVE  ServiceInv'
<1> USE ServiceAssumption DEF ServiceInv, RecordGoes, WithoutRecord, Absent,
        processVars, historyVars, Drivers
<1>1. ServiceTypeOK'
  <2> USE DEF ServiceTypeOK
  <2>1. svc' \in [Drivers -> Records]
    BY DEF Records
  <2>2. obj' \in [Drivers -> Objects]
    BY DEF Objects
  <2>3. toClose' \in Seq(Drivers) /\ Len(toClose') <= 2
    BY DEF ToClose
  <2>4. tries' \in 0..(MaxRetries - 1)
    OBVIOUS
  <2>5. build' \in Builds /\ pc' \in Steps /\ cur' \in Drivers
    BY DEF Steps
  <2>6. inherited' \in BOOLEAN /\ failed' \in BOOLEAN /\ clean' \in BOOLEAN
    OBVIOUS
  <2> QED BY <2>1, <2>2, <2>3, <2>4, <2>5, <2>6
<1>2. CurIsOurs' /\ IpObject' /\ NotYetStoppable'
  BY DEF ServiceTypeOK, Records, Objects, CurIsOurs, IpSteps, IpObject, NotYetStoppable,
         HandleOpen
<1>3. HandleOpen' /\ Opening' /\ Finished'
  <2> USE DEF ServiceTypeOK, Records, Objects, HandleOpen, Opening, Finished, RunningOurs
  <2>1. CASE d = PB
    <3>1. svc[PB] # RunningOurs /\ (pc = "open" => d = IP \/ ~svc'[PB].marked)
      BY <2>1
    <3> QED BY <2>1, <3>1
  <2>2. CASE d = IP
    <3>1. svc'[PB] = svc[PB]
      BY <2>2
    <3> QED BY <3>1
  <2> QED BY <2>1, <2>2
<1>4. PathIsOurs' /\ RunningIsInherited' /\ AfterLoad'
  BY DEF ServiceTypeOK, Records, Objects, PathIsOurs, OursSteps, RunningIsInherited,
         LoadSteps, AfterLoad, CurIsOurs, IpSteps, NotYetStoppable
<1>5. ToClose' /\ OrderlyEnd' /\ CleanExitLeavesNothing'
  BY DEF ServiceTypeOK, Records, Objects, ToClose, OrderlyEnd, Gone, CleanExitLeavesNothing,
         HandleOpen, Finished, IpObject, RunningOurs
<1> QED BY <1>1, <1>2, <1>3, <1>4, <1>5

LEMMA RebootInv ==
  ASSUME ServiceInv, Reboot
  PROVE  ServiceInv'
<1> USE ServiceAssumption DEF ServiceInv, Reboot, Restarted, Absent, processVars,
        historyVars, Drivers
<1>1. ServiceTypeOK'
  BY DEF ServiceTypeOK, Records, Objects, Steps
<1>2. CurIsOurs' /\ IpObject' /\ NotYetStoppable'
  BY DEF ServiceTypeOK, Records, Objects, CurIsOurs, IpSteps, IpObject, NotYetStoppable,
         HandleOpen
<1>3. HandleOpen' /\ Opening' /\ Finished'
  BY DEF ServiceTypeOK, Records, Objects, HandleOpen, Opening, Finished, RunningOurs,
         AfterLoad, PathIsOurs, OursSteps, ToClose, CurIsOurs, IpSteps
<1>4. PathIsOurs' /\ RunningIsInherited' /\ AfterLoad'
  BY DEF ServiceTypeOK, Records, Objects, PathIsOurs, OursSteps, RunningIsInherited,
         LoadSteps, AfterLoad, CurIsOurs, IpSteps, NotYetStoppable
<1>5. ToClose' /\ OrderlyEnd' /\ CleanExitLeavesNothing'
  BY DEF ServiceTypeOK, Records, Objects, ToClose, OrderlyEnd, Gone, CleanExitLeavesNothing,
         HandleOpen, Finished, IpObject, RunningOurs
<1> QED BY <1>1, <1>2, <1>3, <1>4, <1>5

-----------------------------------------------------------------------------
(* The theorems                                                             *)

LEMMA NextInv == ServiceInv /\ [Next]_vars => ServiceInv'
<1> SUFFICES ASSUME ServiceInv, [Next]_vars
             PROVE  ServiceInv'
  OBVIOUS
<1>1. CASE Load
  BY <1>1, LoadCreatesInv, LoadFindsInv, LoadFindsOtherInv, LoadStopsOtherInv,
     LoadDeletesOtherInv, LoadRecreatesInv, LoadReopensInv, LoadQueriesInv DEF Load
<1>2. CASE Start
  BY <1>2, CheckRunningInv, StopBeforeStartInv, StartSkippedInv, StartServiceInv,
     StartLockedInv, StartStillLockedInv, OpenDeviceInv, FinishInv, CalloutsFailInv DEF Start
<1>3. CASE Close
  BY <1>3, CloseNotLoadedInv, CloseStopsInv, CloseRemovesInv, CloseFailsInv,
     CloseDoneInv DEF Close
<1>4. CASE Manager
  BY <1>4, StopEndsInv, RecordGoesInv, RebootInv DEF Manager
<1>5. CASE UNCHANGED vars
  BY <1>5 DEF vars, processVars, historyVars, ServiceInv, ServiceTypeOK, CurIsOurs,
              IpObject, HandleOpen, PathIsOurs, RunningIsInherited, NotYetStoppable,
              AfterLoad, Opening, Finished, ToClose, OrderlyEnd, Gone,
              CleanExitLeavesNothing
<1> QED
  BY <1>1, <1>2, <1>3, <1>4, <1>5, CallFailsInv, LaunchInv, QuitInv, CrashInv
     DEF Next, Runs

\* The invariant holds of every run of the program and the machine.
THEOREM ServiceInvariant == Spec => []ServiceInv
<1>1. ServiceInv /\ [Next]_vars => ServiceInv'
  BY NextInv
<1> QED
  BY InitInv, <1>1, PTL DEF Spec

\* The records, the driver objects and the steps keep their types, and the loop that
\* waits for the service database its limit.
THEOREM ServiceTyping == Spec => []ServiceTypeOK
<1>1. ServiceInv => ServiceTypeOK
  BY DEF ServiceInv
<1> QED
  BY ServiceInvariant, <1>1, PTL

\* An open device is the running driver of this installation.
THEOREM DeviceIsOurs == Spec => []OpenDeviceIsOurs
<1>1. ServiceInv => OpenDeviceIsOurs
  BY DEF ServiceInv, HandleOpen, OpenDeviceIsOurs
<1> QED
  BY ServiceInvariant, <1>1, PTL

\* A constructor that found no driver of ours running has connected when it returns.
THEOREM ConstructorConnects == Spec => []ConnectedUnlessInherited
<1>1. ServiceInv => ConnectedUnlessInherited
  BY DEF ServiceInv, HandleOpen, Finished, ConnectedUnlessInherited
<1> QED
  BY ServiceInvariant, <1>1, PTL

\* An end without failures leaves no driver running and no record that stays.
THEOREM CleanExitCleans == Spec => []CleanExitLeavesNothing
<1>1. ServiceInv => CleanExitLeavesNothing
  BY DEF ServiceInv
<1> QED
  BY ServiceInvariant, <1>1, PTL

-----------------------------------------------------------------------------
(* The driver of Windows                                                    *)

IpKept ==
  LET ip == svc[IP]
  IN  pc # "none" /\ ip.state # "absent" =>
        /\ ip.state = "running" => svc'[IP].state = "running"
        /\ svc'[IP].marked = ip.marked
        /\ svc'[IP].path = ip.path

LEMMA NextKeepsIp == ServiceInv /\ [Next]_vars => IpKept
<1> SUFFICES ASSUME ServiceInv, [Next]_vars, pc # "none", svc[IP].state # "absent"
             PROVE  /\ svc[IP].state = "running" => svc'[IP].state = "running"
                    /\ svc'[IP].marked = svc[IP].marked
                    /\ svc'[IP].path = svc[IP].path
  BY DEF IpKept
<1> USE DEF ServiceInv, ServiceTypeOK, CurIsOurs, IpSteps, IpObject, Drivers
<1>1. CASE Load
  BY <1>1 DEF Load, LoadCreates, LoadFinds, LoadFindsOther, LoadStopsOther,
     LoadDeletesOther, LoadRecreates, LoadReopens, LoadQueries, Create, Stopped, Throw
<1>2. CASE Start
  <2>1. CASE StartService
    <3>1. cur \in Drivers /\ svc[cur].state \in {"stopped", "running"}
      BY <2>1 DEF StartService
    <3>2. svc' = [svc EXCEPT ![cur].state = "running"]
      BY <2>1 DEF StartService
    <3> QED BY <3>1, <3>2 DEF Records
  <2>2. CASE StopBeforeStart
    BY <2>2 DEF StopBeforeStart, Stop, Stopped
  <2> QED
    BY <1>2, <2>1, <2>2 DEF Start, CheckRunning, StartSkipped, StartLocked,
       StartStillLocked, OpenDevice, Finish, CalloutsFail, Throw
<1>3. CASE Close
  BY <1>3 DEF Close, CloseNotLoaded, CloseStops, CloseRemoves, CloseFails, CloseDone,
     Closing, Stop, StopSkipped, Stopped
<1>4. CASE Manager
  <2>1. ASSUME NEW d \in Drivers, StopEnds(d)
        PROVE  svc'[IP].state = svc[IP].state \/ svc[IP].state = "stopping"
    BY <2>1 DEF StopEnds
  <2>2. ASSUME NEW d \in Drivers, StopEnds(d)
        PROVE  svc'[IP].marked = svc[IP].marked /\ svc'[IP].path = svc[IP].path
    BY <2>2 DEF StopEnds, Records
  <2>3. ASSUME NEW d \in Drivers, RecordGoes(d) PROVE svc'[IP] = svc[IP]
    BY <2>3 DEF RecordGoes
  <2> QED BY <1>4, <2>1, <2>2, <2>3 DEF Manager, Reboot
<1>5. CASE CallFails \/ Launch \/ Quit \/ Crash \/ UNCHANGED vars
  BY <1>5 DEF CallFails, Throw, Launch, Quit, Crash, vars
<1> QED
  BY <1>1, <1>2, <1>3, <1>4, <1>5 DEF Next, Runs

\* A process stops, replaces and deletes nothing of Windows.
THEOREM WindowsDriverKept == Spec => IpFilterLeftAlone
<1>1. ServiceInv /\ [Next]_vars => [IpKept]_vars
  BY NextKeepsIp
<1>2. Spec => [][IpKept]_vars
  BY <1>1, ServiceInvariant, PTL DEF Spec
<1> QED
  BY <1>2 DEF IpKept, IpFilterLeftAlone

-----------------------------------------------------------------------------
(* How far an operation is from its end                                     *)

InProgress == pc \notin {"none", "up"}

\* Ranks of the steps: each comes after those that the step leads to.
StepRank ==
  [none |-> 0, up |-> 0, remove |-> 0, close |-> 1, finish |-> 6, open |-> 7,
   retry |-> 8 + MaxRetries, start |-> 9 + MaxRetries, stop |-> 10 + MaxRetries,
   check |-> 11 + MaxRetries, status |-> 12 + MaxRetries, reopened |-> 13 + MaxRetries,
   recreate |-> 14 + MaxRetries, delete |-> 15 + MaxRetries, replace |-> 16 + MaxRetries,
   load |-> 17 + MaxRetries]

\* A turn of the loop of start counts, every driver object that is still to be
\* closed, and the load of pbfilter after the start of IpFilterDriver.
Remaining ==
  StepRank[pc] + 2 * Len(toClose)
    + (IF cur = IP /\ pc \notin {"none", "up", "close", "remove"} THEN 20 + MaxRetries ELSE 0)
    - (IF pc = "retry" THEN tries ELSE 0)

Advances == UNCHANGED processVars \/ Remaining' < Remaining

\* The ranks one by one.
LEMMA Ranks ==
  /\ StepRank["none"] = 0 /\ StepRank["up"] = 0 /\ StepRank["remove"] = 0
  /\ StepRank["close"] = 1 /\ StepRank["finish"] = 6 /\ StepRank["open"] = 7
  /\ StepRank["retry"] = 8 + MaxRetries /\ StepRank["start"] = 9 + MaxRetries
  /\ StepRank["stop"] = 10 + MaxRetries /\ StepRank["check"] = 11 + MaxRetries
  /\ StepRank["status"] = 12 + MaxRetries /\ StepRank["reopened"] = 13 + MaxRetries
  /\ StepRank["recreate"] = 14 + MaxRetries /\ StepRank["delete"] = 15 + MaxRetries
  /\ StepRank["replace"] = 16 + MaxRetries /\ StepRank["load"] = 17 + MaxRetries
  BY DEF StepRank

\* What is remaining, by the step: the later steps of a constructor have nothing to
\* close, and none but the close of objects is left once they have.
RemainingFacts ==
  /\ pc \in {"none", "up"} => Remaining = 0
  /\ pc = "close" => Remaining = 1 + 2 * Len(toClose)
  /\ pc = "remove" => Remaining = 2 * Len(toClose) /\ Len(toClose) > 0
  /\ pc \in {"finish", "open"} => cur = PB /\ Remaining = StepRank[pc]
  /\ pc \notin {"none", "up", "close", "remove", "retry"} =>
       Remaining = StepRank[pc] + (IF cur = IP THEN 20 + MaxRetries ELSE 0)
  /\ pc = "retry" =>
       Remaining = 8 + MaxRetries - tries + (IF cur = IP THEN 20 + MaxRetries ELSE 0)
  /\ Len(toClose) \in 0..2 /\ tries \in 0..(MaxRetries - 1) /\ MaxRetries \in Nat
  /\ cur \in {PB, IP} /\ pc \in Steps

LEMMA RemainingIs == ServiceInv => RemainingFacts
<1> SUFFICES ASSUME ServiceInv PROVE RemainingFacts
  OBVIOUS
<1>0. \A n \in Nat : n <= 2 => n \in 0..2
  OBVIOUS
<1> USE ServiceAssumption DEF ServiceInv, ServiceTypeOK
<1>1. /\ Len(toClose) \in 0..2 /\ tries \in 0..(MaxRetries - 1) /\ MaxRetries \in Nat
      /\ cur \in {PB, IP} /\ pc \in Steps
  <2>1. Len(toClose) \in Nat /\ Len(toClose) <= 2
    OBVIOUS
  <2>2. Len(toClose) \in 0..2
    BY <1>0, <2>1
  <2>3. tries \in 0..(MaxRetries - 1) /\ MaxRetries \in Nat
    OBVIOUS
  <2>4. cur \in {PB, IP} /\ pc \in Steps
    BY DEF Drivers
  <2> QED BY <2>2, <2>3, <2>4
<1>2. pc \notin {"close", "remove"} => toClose = <<>> /\ Len(toClose) = 0
  BY DEF ToClose
<1>3. pc \in {"finish", "open"} => cur = PB
  BY DEF CurIsOurs, IpSteps
<1>4. pc = "remove" => Len(toClose) > 0
  BY DEF ToClose
<1>5. pc \in {"none", "up"} => Remaining = 0
  BY <1>1, <1>2, Ranks DEF Remaining
<1>6. /\ pc = "close" => Remaining = 1 + 2 * Len(toClose)
      /\ pc = "remove" => Remaining = 2 * Len(toClose)
  BY <1>1, Ranks DEF Remaining
<1>7. StepRank[pc] \in Nat
  BY <1>1, Ranks DEF Steps
<1>8. pc \notin {"none", "up", "close", "remove", "retry"} =>
        Remaining = StepRank[pc] + (IF cur = IP THEN 20 + MaxRetries ELSE 0)
  BY <1>1, <1>2, <1>7 DEF Remaining
<1>9. pc \in {"finish", "open"} => Remaining = StepRank[pc]
  BY <1>3, <1>7, <1>8
<1>10. pc = "retry" =>
        Remaining = 8 + MaxRetries - tries + (IF cur = IP THEN 20 + MaxRetries ELSE 0)
  BY <1>1, <1>2, Ranks DEF Remaining
<1> QED BY <1>1, <1>3, <1>4, <1>5, <1>6, <1>8, <1>9, <1>10 DEF RemainingFacts

\* It is a number, and not 0 in an operation.
LEMMA RemainingIsNat ==
  ServiceInv => Remaining \in Nat /\ (InProgress => Remaining > 0)
<1> SUFFICES ASSUME RemainingFacts
             PROVE  Remaining \in Nat /\ (InProgress => Remaining > 0)
  BY RemainingIs
<1> USE DEF RemainingFacts
<1>1. CASE pc \in {"none", "up", "close", "remove", "retry"}
  BY <1>1 DEF InProgress
<1>2. CASE pc \notin {"none", "up", "close", "remove", "retry"}
  <2>1. StepRank[pc] \in Nat /\ StepRank[pc] > 0
    BY <1>2, Ranks DEF Steps
  <2> QED BY <1>2, <2>1
<1> QED BY <1>1, <1>2

\* The constructor throws from a step before the last: two objects are to be closed at most.
LEMMA ThrowAdvances ==
  ASSUME RemainingFacts, RemainingFacts', Throw, pc \notin {"none", "up", "close", "remove"}
  PROVE  Remaining' < Remaining
<1> USE DEF RemainingFacts
<1>1. pc' = "close"
  BY DEF Throw
<1>2. Remaining' <= 5
  <2>1. Remaining' = 1 + 2 * Len(toClose') /\ Len(toClose') \in 0..2
    BY <1>1
  <2>2. \A n \in 0..2 : 1 + 2 * n <= 5
    OBVIOUS
  <2> QED BY <2>1, <2>2
<1>3. Remaining >= 6 /\ Remaining \in Nat
  <2>1. CASE pc = "retry"
    BY <2>1
  <2>2. CASE pc # "retry"
    <3>1. StepRank[pc] \in Nat /\ StepRank[pc] >= 6
      <4>1. pc \in Steps \ {"none", "up", "close", "remove"} /\ MaxRetries \in Nat
        OBVIOUS
      <4> HIDE DEF RemainingFacts
      <4> QED BY <4>1, Ranks DEF Steps
    <3> QED BY <2>2, <3>1
  <2> QED BY <2>1, <2>2
<1>4. Remaining' \in Nat
  BY <1>1
<1> QED BY <1>2, <1>3, <1>4

\* Each step of a constructor or destructor has less to come after it.
LEMMA LoadAdvances ==
  ASSUME RemainingFacts, RemainingFacts', Load
  PROVE  Remaining' < Remaining
<1> USE Ranks DEF RemainingFacts, Goto
<1>1. CASE LoadFindsOther /\ Throw
  BY <1>1, ThrowAdvances DEF LoadFindsOther
<1>2. CASE LoadFindsOther /\ ~Throw
  BY <1>2 DEF LoadFindsOther
<1>3. CASE LoadCreates \/ LoadFinds
  BY <1>3 DEF LoadCreates, LoadFinds
<1>4. CASE LoadStopsOther \/ LoadDeletesOther
  <2>1. \/ pc = "replace" /\ pc' = "delete"
        \/ pc = "delete" /\ pc' = "recreate"
    BY <1>4 DEF LoadStopsOther, LoadDeletesOther
  <2>2. cur' = cur
    BY <1>4 DEF LoadStopsOther, LoadDeletesOther
  <2> QED BY <2>1, <2>2
<1>5. CASE LoadRecreates \/ LoadReopens
  BY <1>5 DEF LoadRecreates, LoadReopens
<1>6. CASE LoadQueries
  <2>1. pc = "status" /\ pc' \in {"check", "start"} /\ cur' = cur
    BY <1>6 DEF LoadQueries
  <2> QED BY <2>1
<1> QED BY <1>1, <1>2, <1>3, <1>4, <1>5, <1>6 DEF Load

LEMMA StartAdvances ==
  ASSUME RemainingFacts, RemainingFacts', Start
  PROVE  Remaining' < Remaining
<1> USE Ranks DEF RemainingFacts, Goto
<1>1. CASE (StartStillLocked \/ CalloutsFail) /\ Throw
  BY <1>1, ThrowAdvances DEF StartStillLocked, CalloutsFail
<1>2. CASE CheckRunning
  <2>1. pc = "check" /\ pc' \in {"stop", "start"} /\ cur' = cur
    BY <1>2 DEF CheckRunning
  <2> QED BY <2>1
<1>3. CASE StopBeforeStart \/ Finish
  <2>1. \/ pc = "stop" /\ pc' = "start" /\ cur' = cur
        \/ pc = "finish" /\ pc' = "up"
    BY <1>3 DEF StopBeforeStart, Finish
  <2> QED BY <2>1
<1>4. CASE StartLocked
  BY <1>4 DEF StartLocked
<1>5. ASSUME pc \in {"start", "retry"}, AfterStart PROVE Remaining' < Remaining
  <2>1. CASE cur = PB
    <3>1. pc' = "finish" /\ Remaining' = 6
      BY <1>5, <2>1 DEF AfterStart, StepAfterStart
    <3> QED BY <1>5, <3>1
  <2>2. CASE cur = IP
    <3>1. pc' = "load" /\ cur' = PB /\ Remaining' = 17 + MaxRetries
      BY <1>5, <2>2 DEF AfterStart, StepAfterStart
    <3> QED BY <1>5, <2>2, <3>1
  <2> QED BY <2>1, <2>2
<1>6. CASE StartSkipped \/ StartService
  <2>1. pc \in {"start", "retry"} /\ (AfterStart \/ pc' = "open")
    BY <1>6 DEF StartSkipped, StartService
  <2>2. CASE pc' = "open"
    BY <2>1, <2>2
  <2> QED BY <1>5, <2>1, <2>2
<1>7. CASE OpenDevice
  <2>1. pc = "open" /\ cur = PB /\ pc' = "finish"
    BY <1>7 DEF OpenDevice, AfterStart, StepAfterStart
  <2> QED BY <2>1
<1>8. CASE StartStillLocked /\ ~Throw
  <2>1. pc = "retry" /\ pc' = "retry" /\ tries' = tries + 1 /\ cur' = cur
    BY <1>8 DEF StartStillLocked, Counted
  <2> QED BY <2>1
<1>9. CalloutsFail => Throw
  BY DEF CalloutsFail
<1> QED BY <1>1, <1>2, <1>3, <1>4, <1>6, <1>7, <1>8, <1>9 DEF Start

LEMMA CloseAdvances ==
  ASSUME ServiceInv, RemainingFacts, RemainingFacts', Close
  PROVE  Remaining' < Remaining
<1> USE DEF RemainingFacts
<1>1. CASE CloseFails \/ CloseDone
  <2>1. InProgress /\ pc' = "none"
    BY <1>1 DEF CloseFails, CloseDone, End, InProgress
  <2> QED BY <2>1, RemainingIsNat
<1>2. toClose # <<>> => Len(Tail(toClose)) = Len(toClose) - 1
  BY DEF ServiceInv, ServiceTypeOK
<1>3. CASE CloseNotLoaded
  <2>1. pc = "close" /\ pc' = "close" /\ Len(toClose') = Len(toClose) - 1
    BY <1>2, <1>3 DEF CloseNotLoaded
  <2> QED BY <2>1
<1>4. CASE CloseStops
  <2>1. pc = "close" /\ pc' = "remove" /\ Len(toClose') = Len(toClose)
    BY <1>4 DEF CloseStops, Goto
  <2> QED BY <2>1
<1>5. CASE CloseRemoves
  <2>1. pc = "remove" /\ toClose # <<>>
    BY <1>5 DEF CloseRemoves, ServiceInv, ToClose
  <2>2. pc' = "close" /\ Len(toClose') = Len(toClose) - 1
    BY <1>2, <1>5, <2>1 DEF CloseRemoves
  <2> QED BY <2>1, <2>2
<1> QED BY <1>1, <1>3, <1>4, <1>5 DEF Close

LEMMA NextAdvances == ServiceInv /\ [Next]_vars => (InProgress => Advances)
<1> SUFFICES ASSUME ServiceInv, [Next]_vars, InProgress PROVE Advances
  OBVIOUS
<1>1. RemainingFacts /\ RemainingFacts'
  BY NextInv, RemainingIs, PTL
<1>2. CASE CallFails
  BY <1>1, <1>2, ThrowAdvances DEF CallFails, ConstructorCalls, Advances
<1>3. CASE Load \/ Start \/ Close
  BY <1>1, <1>3, LoadAdvances, StartAdvances, CloseAdvances DEF Advances
<1>4. CASE Crash
  <2>1. Remaining' = 0
    BY <1>1, <1>4 DEF Crash, End, RemainingFacts
  <2> QED BY <2>1, RemainingIsNat DEF Advances
<1>5. CASE Manager
  BY <1>5 DEF Manager, StopEnds, RecordGoes, Reboot, Advances
<1>6. CASE UNCHANGED vars
  BY <1>6 DEF vars, Advances
<1> QED BY <1>2, <1>3, <1>4, <1>5, <1>6 DEF Next, Runs, Launch, Quit, InProgress

\* The part of OperationsEnd that needs no fairness: what a constructor or destructor
\* has still to do is a natural number, and every step that the process takes makes it
\* less, the turns of the loop for a locked service database included.
THEOREM OperationsAdvance ==
  Spec => [](Remaining \in Nat) /\ [][InProgress => Advances]_vars
<1>1. ServiceInv => Remaining \in Nat
  BY RemainingIsNat
<1>2. ServiceInv /\ [Next]_vars => [InProgress => Advances]_vars
  BY NextAdvances
<1> QED
  BY <1>1, <1>2, ServiceInvariant, PTL DEF Spec
=============================================================================
