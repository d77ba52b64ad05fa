--------------------------- MODULE DriverService ---------------------------
(***************************************************************************)
(* How one process of the application finds, creates, starts, stops and    *)
(* removes the kernel services it needs (peerblock/driver.cpp, called by   *)
(* the constructors and destructors of pbfilter_wfp.cpp and                *)
(* pbfilter_nt.cpp).                                                       *)
(*                                                                         *)
(* The service manager keeps its records when the process is gone.  Every  *)
(* call to it may fail, and the process may be killed between two calls.   *)
(* The manager itself is external: a stop may take a while, a record that  *)
(* is marked for deletion goes once its service has stopped, and a reboot  *)
(* stops everything.  Nobody else starts, stops or deletes the services,   *)
(* and a kernel service is never seen while it starts.                     *)
(***************************************************************************)
EXTENDS Naturals, Sequences

CONSTANTS
  Builds,     \* builds to consider: "wfp", and "nt", which needs IpFilterDriver too
  MaxRetries  \* turns of the loop that waits for a locked service database

ASSUME ServiceAssumption == /\ Builds \subseteq {"wfp", "nt"}
                            /\ MaxRetries \in Nat \ {0}

Drivers == {"pbfilter", "IpFilterDriver"}

VARIABLES
  svc,       \* per service: state, marked for deletion, path ("ours" or "other")
  build,     \* which program this machine has
  obj,       \* the driver objects of the process
  pc, cur,   \* the step the process is at, and the driver it is about
  tries,     \* start: numRetries
  toClose,   \* driver objects whose close is still to come
  inherited, \* history: our service was running before the process began
  failed,    \* history: a call of this process failed
  clean      \* history: the last process ended without either

historyVars == <<inherited, failed, clean>>
processVars == <<obj, pc, cur, tries, toClose>>
vars == <<svc, build, processVars, historyVars>>

NewObject(d) ==
  [loaded |-> FALSE, started |-> FALSE, stoppable |-> FALSE,
   removable |-> d = "pbfilter", dev |-> FALSE]

Absent == [state |-> "absent", marked |-> FALSE, path |-> "ours"]
Created == [state |-> "stopped", marked |-> FALSE, path |-> "ours"]

\* Another installation may have left its driver running; only a process of this
\* one leaves ours.
Init ==
  /\ svc \in [Drivers -> [state : {"stopped", "running"}, marked : {FALSE},
                          path : {"ours", "other"}] \cup {Absent}]
  /\ svc["pbfilter"].state = "running" => svc["pbfilter"].path = "other"
  /\ build \in Builds
  /\ obj = [d \in Drivers |-> NewObject(d)]
  /\ pc = "none"
  /\ cur = "pbfilter"
  /\ tries = 0
  /\ toClose = <<>>
  /\ inherited = FALSE /\ failed = FALSE /\ clean = FALSE

-----------------------------------------------------------------------------
(* The end of the process, and errors.                                      *)

\* The process is gone, and Windows closes its handles.
End == /\ pc' = "none"
       /\ obj' = [d \in Drivers |-> NewObject(d)]
       /\ toClose' = <<>>
       /\ tries' = 0
       /\ inherited' = FALSE /\ failed' = FALSE
       /\ UNCHANGED <<build, cur>>

\* The constructor of the filter throws: the driver objects it has are destroyed.
Throw ==
  /\ pc' = "close"
  /\ toClose' = IF build = "nt" THEN <<"IpFilterDriver", "pbfilter">> ELSE <<"pbfilter">>
  /\ failed' = TRUE
  /\ tries' = 0
  /\ UNCHANGED <<svc, build, cur, inherited, clean>>

Goto(step) == pc' = step /\ UNCHANGED <<cur, tries, toClose>>

\* The application is started; a second process would see the mutex and leave.
Launch ==
  /\ pc = "none"
  /\ pc' = "load"
  /\ cur' = IF build = "nt" THEN "IpFilterDriver" ELSE "pbfilter"
  /\ inherited' = (svc["pbfilter"].state = "running" /\ svc["pbfilter"].path = "ours")
  /\ failed' = FALSE /\ clean' = FALSE
  /\ UNCHANGED <<svc, build, obj, tries, toClose>>

\* The process is killed.
Crash == /\ pc # "none"
         /\ End
         /\ clean' = FALSE
         /\ UNCHANGED svc

-----------------------------------------------------------------------------
(* driver::load                                                             *)

Create == svc' = [svc EXCEPT ![cur] = Created]

LoadCreates == /\ pc = "load" /\ svc[cur].state = "absent"
               /\ Create
               /\ Goto("status")
               /\ UNCHANGED <<build, obj, historyVars>>

\* Mutant: the path of a service that exists is not compared.
NeverDiffers(d) == FALSE
PathDiffers(d) == svc[d].path # "ours"

LoadFinds == /\ pc = "load" /\ svc[cur].state # "absent"
             /\ ~PathDiffers(cur)
             /\ Goto("status")
             /\ UNCHANGED <<svc, build, obj, historyVars>>

\* A service of that name runs another file: it is replaced, if that is allowed.
LoadFindsOther == /\ pc = "load" /\ svc[cur].state # "absent"
                  /\ PathDiffers(cur)
                  /\ IF obj[cur].removable
                       THEN /\ Goto("replace")
                            /\ UNCHANGED <<svc, build, historyVars>>
                       ELSE Throw
                  /\ UNCHANGED obj

\* What the manager does on SERVICE_CONTROL_STOP.
Stopped(d) == IF svc[d].state = "running"
                THEN {[svc EXCEPT ![d].state = s] : s \in {"stopping", "stopped"}}
                ELSE {svc}

LoadStopsOther == /\ pc = "replace"
                  /\ svc' \in Stopped(cur)
                  /\ Goto("delete")
                  /\ UNCHANGED <<build, obj, historyVars>>

LoadDeletesOther == /\ pc = "delete"
                    /\ svc' = [svc EXCEPT ![cur].marked = TRUE]
                    /\ Goto("recreate")
                    /\ UNCHANGED <<build, obj, historyVars>>

LoadRecreates == /\ pc \in {"recreate", "reopened"} /\ svc[cur].state = "absent"
                 /\ Create
                 /\ Goto("status")
                 /\ UNCHANGED <<build, obj, historyVars>>

\* ERROR_SERVICE_MARKED_FOR_DELETE: close the manager, wait, try once more.
LoadReopens == /\ pc = "recreate" /\ svc[cur].state # "absent"
               /\ Goto("reopened")
               /\ UNCHANGED <<svc, build, obj, historyVars>>

\* Mutant: a service that is still stopping counts as started.
StartedUnlessStopped(d) == svc[d].state \in {"running", "stopping"}
CountsAsStarted(d) == svc[d].state = "running"

\* The query of the status may fail, and then nothing is known of the service.
LoadQueries ==
  /\ pc = "status"
  /\ \E known, started \in BOOLEAN :
       /\ started <=> known /\ CountsAsStarted(cur)
       /\ obj' = [obj EXCEPT ![cur].loaded = TRUE, ![cur].started = started]
       /\ failed' = (failed \/ ~known)
  /\ Goto(IF cur = "pbfilter" THEN "check" ELSE "start")
  /\ UNCHANGED <<svc, build, inherited, clean>>

-----------------------------------------------------------------------------
(* driver::isrunning and driver::stop as the constructor calls them         *)

CheckRunning == /\ pc = "check" /\ svc[cur].state # "absent"
                /\ Goto(IF svc[cur].state = "running" THEN "stop" ELSE "start")
                /\ UNCHANGED <<svc, build, obj, historyVars>>

StopSkipped(d) == ~obj[d].started \/ ~obj[d].stoppable

\* The body of stop when no call fails.
Stop(d) ==
  IF StopSkipped(d)
    THEN UNCHANGED <<svc, obj>>
    ELSE /\ svc[d].state # "absent"
         /\ svc' \in Stopped(d)
         /\ obj' = [obj EXCEPT ![d].dev = FALSE, ![d].started = FALSE]

StopBeforeStart == /\ pc = "stop"
                   /\ Stop(cur)
                   /\ Goto("start")
                   /\ UNCHANGED <<build, historyVars>>

-----------------------------------------------------------------------------
(* driver::start; only pbfilter asks for a handle                           *)

GetsHandle == cur = "pbfilter"

\* What the constructor does after start returned.
StepAfterStart(d) == IF d = "pbfilter" THEN "finish" ELSE "load"
AfterStart == /\ pc' = StepAfterStart(cur)
              /\ cur' = "pbfilter"
              /\ tries' = 0
              /\ UNCHANGED toClose

StartSkipped == /\ pc = "start" /\ obj[cur].started
                /\ AfterStart
                /\ UNCHANGED <<svc, build, obj, historyVars>>

\* Mutant: a driver that was started without a handle can be stopped.
StoppableAnyway == TRUE
StoppableWithoutHandle == FALSE

\* StartService succeeds, or the service runs already.
StartService ==
  /\ pc \in {"start", "retry"}
  /\ ~(pc = "start" /\ obj[cur].started)
  /\ svc[cur].state \in {"stopped", "running"} /\ ~svc[cur].marked
  /\ svc' = [svc EXCEPT ![cur].state = "running"]
  /\ IF GetsHandle
       THEN Goto("open") /\ UNCHANGED obj
       ELSE /\ AfterStart
            /\ obj' = [obj EXCEPT ![cur].started = TRUE,
                                  ![cur].stoppable = StoppableWithoutHandle]
  /\ UNCHANGED <<build, historyVars>>

\* Mutants: the count starts again at the limit; one more turn is allowed.
CountsRound(n) == (n + 1) % MaxRetries
Counted(n) == n + 1
OneMoreTry(n) == n <= MaxRetries
MayTryAgain(n) == n < MaxRetries

\* ERROR_SERVICE_DATABASE_LOCKED, at first and in the loop.
StartLocked == /\ pc = "start" /\ ~obj[cur].started
               /\ pc' = "retry" /\ tries' = 0
               /\ UNCHANGED <<svc, build, obj, cur, toClose, historyVars>>

StartStillLocked ==
  /\ pc = "retry"
  /\ IF MayTryAgain(Counted(tries))
       THEN /\ tries' = Counted(tries)
            /\ UNCHANGED <<svc, build, pc, cur, toClose, historyVars>>
       ELSE Throw
  /\ UNCHANGED obj

OpenDevice ==
  /\ pc = "open" /\ svc[cur].state = "running"
  /\ obj' = [obj EXCEPT ![cur].dev = TRUE, ![cur].started = TRUE,
                        ![cur].stoppable = TRUE]
  /\ AfterStart
  /\ UNCHANGED <<svc, build, historyVars>>

\* Some call of the constructor fails, and the constructor with it; its callees
\* may also return without a call.  In stop the handle has been closed by then.
ConstructorCalls ==
  \/ pc \in {"load", "replace", "delete", "recreate", "reopened", "check", "retry", "open"}
  \/ pc = "stop" /\ ~StopSkipped(cur)
  \/ pc = "start" /\ ~obj[cur].started

CallFails == /\ ConstructorCalls
             /\ obj' = IF pc = "stop" THEN [obj EXCEPT ![cur].dev = FALSE] ELSE obj
             /\ Throw

-----------------------------------------------------------------------------
(* The end of the constructor, and the destructor                           *)

\* removable goes off; the wfp build then installs its callouts.
Finish == /\ pc = "finish"
          /\ obj' = [obj EXCEPT !["pbfilter"].removable = FALSE]
          /\ Goto("up")
          /\ UNCHANGED <<svc, build, historyVars>>

CalloutsFail == /\ pc = "finish" /\ build = "wfp"
                /\ obj' = [obj EXCEPT !["pbfilter"].removable = FALSE]
                /\ Throw

\* Mutant: the service is not to be removed.
StaysUnremovable == FALSE
RemovableAtEnd == TRUE

Quit == /\ pc = "up"
        /\ obj' = [obj EXCEPT !["pbfilter"].removable = RemovableAtEnd]
        /\ pc' = "close"
        /\ toClose' = IF build = "nt" THEN <<"pbfilter", "IpFilterDriver">> ELSE <<"pbfilter">>
        /\ UNCHANGED <<svc, build, cur, tries, historyVars>>

-----------------------------------------------------------------------------
(* driver::close                                                            *)

Closing == Head(toClose)

CloseNotLoaded == /\ pc = "close" /\ toClose # <<>>
                  /\ ~obj[Closing].loaded
                  /\ toClose' = Tail(toClose)
                  /\ UNCHANGED <<svc, build, obj, pc, cur, tries, historyVars>>

CloseStops == /\ pc = "close" /\ toClose # <<>>
              /\ obj[Closing].loaded
              /\ Stop(Closing)
              /\ Goto("remove")
              /\ UNCHANGED <<build, historyVars>>

\* DeleteService may fail: nobody looks.
CloseRemoves ==
  /\ pc = "remove"
  /\ IF obj[Closing].removable
       THEN \E deleted \in BOOLEAN :
              /\ svc[Closing].state # "absent"
              /\ svc' = IF deleted THEN [svc EXCEPT ![Closing].marked = TRUE] ELSE svc
              /\ failed' = (failed \/ ~deleted)
       ELSE UNCHANGED <<svc, failed>>
  /\ obj' = [obj EXCEPT ![Closing].loaded = FALSE]
  /\ toClose' = Tail(toClose)
  /\ pc' = "close"
  /\ UNCHANGED <<build, cur, tries, inherited, clean>>

\* An exception leaves a destructor: the program is terminated.
CloseFails == /\ \/ pc = "close" /\ toClose # <<>> /\ obj[Closing].loaded
                    /\ ~StopSkipped(Closing)
                 \/ pc = "remove" /\ obj[Closing].removable
              /\ End
              /\ clean' = FALSE
              /\ UNCHANGED svc

CloseDone == /\ pc = "close" /\ toClose = <<>>
             /\ End
             /\ clean' = (~failed /\ ~inherited)
             /\ UNCHANGED svc

-----------------------------------------------------------------------------
(* The service manager and the machine                                      *)

StopEnds(d) == /\ svc[d].state = "stopping"
               /\ svc' = [svc EXCEPT ![d].state = "stopped"]
               /\ UNCHANGED <<build, processVars, historyVars>>

\* The process has no handle to the record at these steps.
WithoutRecord == pc \notin {"replace", "delete", "status", "retry"}

RecordGoes(d) == /\ svc[d].marked /\ svc[d].state = "stopped"
                 /\ WithoutRecord \/ cur # d
                 /\ svc' = [svc EXCEPT ![d] = Absent]
                 /\ UNCHANGED <<build, processVars, historyVars>>

Restarted(r) == IF r.marked \/ r.state = "absent" THEN Absent
                ELSE [r EXCEPT !.state = "stopped"]

\* After a power cut, a crash of the process comes first.
Reboot == /\ pc = "none"
          /\ svc' = [d \in Drivers |-> Restarted(svc[d])]
          /\ UNCHANGED <<build, processVars, historyVars>>

-----------------------------------------------------------------------------

Load == LoadCreates \/ LoadFinds \/ LoadFindsOther \/ LoadStopsOther \/ LoadDeletesOther
          \/ LoadRecreates \/ LoadReopens \/ LoadQueries
Start == CheckRunning \/ StopBeforeStart \/ StartSkipped \/ StartService \/ StartLocked
           \/ StartStillLocked \/ OpenDevice \/ Finish \/ CalloutsFail
Close == CloseNotLoaded \/ CloseStops \/ CloseRemoves \/ CloseFails \/ CloseDone
Runs == Load \/ Start \/ Close \/ CallFails
Manager == (\E d \in Drivers : StopEnds(d) \/ RecordGoes(d)) \/ Reboot

Next == Launch \/ Runs \/ Quit \/ Crash \/ Manager

Spec == Init /\ [][Next]_vars

\* A process that has begun an operation goes on; nobody has to start or end it.
FairSpec == Spec /\ WF_vars(Runs)

-----------------------------------------------------------------------------
(* Properties                                                               *)

Steps == {"none", "load", "replace", "delete", "recreate", "reopened", "status", "check",
          "stop", "start", "retry", "open", "finish", "up", "close", "remove"}

Records == [state : {"absent", "stopped", "running", "stopping"},
            marked : BOOLEAN, path : {"ours", "other"}]
Objects == [loaded : BOOLEAN, started : BOOLEAN, stoppable : BOOLEAN,
            removable : BOOLEAN, dev : BOOLEAN]

\* The records, the objects and the process are what they are declared to be, and
\* the loop of start stays below its limit.
ServiceTypeOK ==
  /\ svc \in [Drivers -> Records]
  /\ build \in Builds
  /\ obj \in [Drivers -> Objects]
  /\ pc \in Steps /\ cur \in Drivers
  /\ tries \in 0..(MaxRetries - 1)
  /\ toClose \in Seq(Drivers) /\ Len(toClose) <= 2
  /\ inherited \in BOOLEAN /\ failed \in BOOLEAN /\ clean \in BOOLEAN

RunningOurs == [state |-> "running", marked |-> FALSE, path |-> "ours"]

\* A process that has the device open talks to a running driver of its own
\* installation, whose service nobody is about to delete; so stop closes the
\* handle before it stops the service, and a mismatched path is never opened.
OpenDeviceIsOurs == obj["pbfilter"].dev => svc["pbfilter"] = RunningOurs

\* A constructor that returns has connected to the driver, whatever an earlier
\* process left (a stopped, a marked or a stopping service, another installation's
\* running one), except when it found the driver running already.
ConnectedUnlessInherited ==
  pc = "up" /\ ~inherited =>
    /\ obj["pbfilter"].dev /\ obj["pbfilter"].started /\ obj["pbfilter"].stoppable
    /\ svc["pbfilter"] = RunningOurs

\* After a process that found no running driver and had no call fail, no driver
\* is left running, and no record that stays.
CleanExitLeavesNothing ==
  pc = "none" /\ clean =>
    \/ svc["pbfilter"].state = "absent"
    \/ svc["pbfilter"].marked /\ svc["pbfilter"].state # "running"

\* The process never stops, replaces or deletes the IpFilterDriver of Windows
\* (pbfilter_nt.cpp:69), although the destructor of its driver object calls close.
IpFilterLeftAlone ==
  [][LET ip == svc["IpFilterDriver"]
     IN  pc # "none" /\ ip.state # "absent" =>
           /\ ip.state = "running" => svc'["IpFilterDriver"].state = "running"
           /\ svc'["IpFilterDriver"].marked = ip.marked
           /\ svc'["IpFilterDriver"].path = ip.path]_vars

\* Constructors and destructors end, with the service database locked as well.
OperationsEnd == (pc \notin {"none", "up"}) ~> (pc \in {"none", "up"})

\* The constructor stops a driver that is running already before it starts it
\* (pbfilter_nt.cpp:48 and 50, "pbfilter.sys already running, now stopping it",
\* "stopped pbfilter.sys").
StoppedBeforeStart ==
  pc = "start" /\ cur = "pbfilter" /\ ~failed => svc["pbfilter"].state # "running"
=============================================================================
