------------------------------ MODULE Settings ------------------------------
(***************************************************************************)
(* The settings of the application: the configuration file and its backup  *)
(* (Configuration::Load, ::Save and the start in pb.cpp), the ports that   *)
(* are exempt from filtering (PortSet::Merge and the port dialog), and     *)
(* HTTP allowed for good or for a while (SetBlockHttp, the tray menu and   *)
(* the timer), with what of them reaches the driver.                       *)
(*                                                                         *)
(* Everything runs in the UI thread, one command after the other; between  *)
(* any two steps of a command the process may be killed.  A file may be    *)
(* damaged while the program is not running: it may be gone, or be cut at  *)
(* any place.  The requests to the driver do not fail, but its pool may be *)
(* empty, and then it keeps its ports.                                     *)
(*                                                                         *)
(* A configuration keeps what matters here: AllowHttp, the enabled port    *)
(* profiles, and the number of the user's last choice, HTTP left aside,     *)
(* 0 for the defaults of the program.  Of the flags of the driver only     *)
(* that for HTTP is kept.                                                  *)
(***************************************************************************)
EXTENDS Naturals, FiniteSets

CONSTANTS
  MaxPort,    \* the last port, USHRT_MAX
  HttpPorts,  \* 80 and 443
  Profiles,   \* the profiles that may be enabled: sets of ranges with type, start and end
  MaxChoices, \* bound on the choices the user makes
  MaxDamage,  \* bound on the times a file is damaged
  None        \* no task, no loop, no file

Ports == 0..MaxPort
PortLists == {"destination", "source"}
Files == {"conf", "bak"}
Ranges == [type : {"destination", "source", "both"}, start : Ports, end : Ports]

ASSUME SettingsAssumption ==
  /\ MaxPort \in Nat \ {0}
  /\ HttpPorts \subseteq Ports
  /\ Profiles \subseteq SUBSET Ranges
  /\ MaxChoices \in Nat \ {0} /\ MaxDamage \in Nat

VARIABLES
  files,    \* "conf" and "bak": what is left of each, see File
  config,   \* g_config; lasting is a history, see below
  short, long,  \* TempAllowingHttpShort, TempAllowingHttpLong
  timer,    \* TIMER_TEMPALLOWHTTP is set
  portset,  \* destination and source ports, as Merge has left them
  driver,   \* its destination and source ports and its flag for HTTP
  pc,       \* the step the process is at, "off" when there is none
  task,     \* what it does, and the minutes for SetBlockHttp
  todo, port,  \* Merge: ranges to come, and the loop counter of the current one
  damage,   \* how often a file was damaged
  \* histories:
  missed,   \* per port list: the driver had no memory for the last one
  due,      \* the choice that the next start owes the user
  restored, \* Load has saved the defaults over "conf", and nothing was saved since
  lost      \* a process was killed like that, or "conf" was there and damaged

portVars == <<portset, todo, port>>
httpVars == <<short, long, timer>>
savedVars == <<due, restored, lost>>
vars == <<files, config, httpVars, driver, pc, task, portVars, damage, missed, savedVars>>

\* lasting: the user has allowed HTTP without a time limit.
Configs == [AllowHttp : BOOLEAN, profiles : SUBSET Profiles,
            choices : 0..MaxChoices, lasting : BOOLEAN]
Defaults == [AllowHttp |-> FALSE, profiles |-> {},
             choices |-> 0, lasting |-> FALSE]

\* What a file is for TinyXML: "whole", cut "inside" its root or in the root's name
\* ("misnamed"), cut before the root ("rootless"), or absent or without content
\* ("missing"); and the settings that can be read from it, the defaults if none can.
File(kind, c) == [kind |-> kind, of |-> c]

Task(name) == [name |-> name, time |-> 0, block |-> FALSE, then |-> None]

TaskNames == {"http", "profiles", "save", "quit", "start", "restore", "wizard"}

ASSUME ValuesAssumption ==
  None \notin TaskNames /\ None \notin Files /\ None \notin [at : Ports, of : Ranges]

\* Before the first start there is no file; later an earlier process has saved both.
Init ==
  /\ \/ files = [f \in Files |-> File("missing", Defaults)] /\ due = 0
     \/ \E c \in Configs : /\ c.choices = 1 /\ c.profiles = {} /\ c.lasting = c.AllowHttp
                           /\ files = [f \in Files |-> File("whole", c)]
                           /\ due = 1
  /\ config = Defaults
  /\ short = FALSE /\ long = FALSE /\ timer = FALSE
  /\ portset = [l \in PortLists |-> {}]
  /\ driver = [ports |-> [l \in PortLists |-> {}], blocksHttp |-> FALSE]
  /\ pc = "off"
  /\ task = Task(None)
  /\ todo = {} /\ port = None
  /\ damage = 0
  /\ missed = [l \in PortLists |-> FALSE]
  /\ restored = FALSE /\ lost = FALSE

-----------------------------------------------------------------------------
(* PortSet::Merge and what is sent to the driver.                          *)

SentHttp(c) == IF c.AllowHttp THEN HttpPorts ELSE {}

\* Merge clears both sets, begins with HTTP and goes on with the enabled profiles.
BeginMerge(c) ==
  /\ pc' = "merge"
  /\ portset' = [l \in PortLists |-> IF l = "destination" THEN SentHttp(c) ELSE {}]
  /\ todo' = UNION c.profiles
  /\ port' = None

Lists(r) == IF r.type = "both" THEN {"destination", "source"} ELSE {r.type}

\* The next range; one that ends before it starts is left out.
MergeRange(r) ==
  /\ pc = "merge" /\ port = None
  /\ r \in todo
  /\ IF r.start <= r.end THEN port' = [at |-> r.start, of |-> r] /\ UNCHANGED todo
     ELSE todo' = todo \ {r} /\ UNCHANGED port
  /\ UNCHANGED <<files, config, httpVars, driver, pc, task, portset, damage, missed, savedVars>>

\* Mutant: the last port of a range is left out.
PassedEarly(i, r) == i >= r.end
Passed(i, r) == i > r.end

\* Mutant: the counter is a bit narrower.
NarrowPort(i) == (i + 1) % ((MaxPort + 1) \div 2)
NextPort(i) == (i + 1) % (MaxPort + 1)

\* One turn of "for (USHORT i = pr.Start; i <= pr.End; i++)".
MergePort ==
  /\ pc = "merge" /\ port # None
  /\ IF Passed(port.at, port.of)
     THEN /\ port' = None
          /\ todo' = todo \ {port.of}
          /\ UNCHANGED portset
     ELSE /\ portset' = [l \in PortLists |->
                           portset[l] \cup (IF l \in Lists(port.of) THEN {port.at} ELSE {})]
          /\ port' = [port EXCEPT !.at = NextPort(port.at)]
          /\ UNCHANGED todo
  /\ UNCHANGED <<files, config, httpVars, driver, pc, task, damage, missed, savedVars>>

\* SetBlockHttp sends the destination ports only.
Sent == IF task.name = "http" THEN {"destination"} ELSE PortLists

\* IsHttpBlocked, as ApplyDriverFlags sends it.
IsHttpBlocked(c) == ~c.AllowHttp

AfterSend == CASE task.name = "http" -> "timer"
               [] task.name = "start" -> "write"
               [] OTHER -> "idle"

\* setdestinationports, setsourceports and ApplyDriverFlags.
Send ==
  /\ pc = "merge" /\ port = None /\ todo = {}
  /\ \E full \in {{}, Sent} :
       /\ driver' = [ports |-> [l \in PortLists |->
                        IF l \in Sent \ full THEN portset[l] ELSE driver.ports[l]],
                      blocksHttp |-> IsHttpBlocked(config)]
       /\ missed' = [l \in PortLists |-> IF l \in Sent THEN l \in full ELSE missed[l]]
  /\ pc' = AfterSend
  /\ UNCHANGED <<files, config, httpVars, task, portVars, damage, savedVars>>

-----------------------------------------------------------------------------
(* SetBlockHttp.                                                           *)

\* lasting is what the user has asked for; then is what comes after SetBlockHttp.
SetBlockHttp(block, minutes, lasting, then) ==
  LET c == [config EXCEPT !.AllowHttp = ~block, !.lasting = lasting]
  IN  /\ config' = c
      /\ task' = [name |-> "http", time |-> minutes, block |-> block, then |-> then]
      /\ BeginMerge(c)
      /\ UNCHANGED <<files, httpVars, driver, damage, missed, savedVars>>

KillsTimer(minutes, block) == minutes = 0 \/ block

\* The end of SetBlockHttp: the timer and the two flags of a temporary allow.
SetTimer ==
  /\ pc = "timer"
  /\ IF KillsTimer(task.time, task.block)
     THEN timer' = FALSE /\ short' = FALSE /\ long' = FALSE
     ELSE IF task.time > 0
     THEN timer' = TRUE /\ short' = (task.time < 30) /\ long' = (task.time >= 30)
     ELSE UNCHANGED httpVars
  /\ pc' = IF task.then = None THEN "idle" ELSE "write"
  /\ task' = Task(task.then)
  /\ UNCHANGED <<files, config, driver, portVars, damage, missed, savedVars>>

-----------------------------------------------------------------------------
(* The tray menu, the button and the port dialog (mainproc, logproc,       *)
(* editportsproc).                                                         *)

Toggle == SetBlockHttp(config.AllowHttp, 0, ~config.AllowHttp, None)

TrayBlockHttp ==
  /\ pc = "idle"
  /\ IF short \/ long THEN SetBlockHttp(FALSE, 0, TRUE, None) ELSE Toggle

TrayTempAllow15 ==
  /\ pc = "idle"
  /\ SetBlockHttp(short, IF short THEN 0 ELSE 15, FALSE, None)

TrayTempAllow60 ==
  /\ pc = "idle"
  /\ SetBlockHttp(long, IF long THEN 0 ELSE 60, FALSE, None)

LogHttpButton == pc = "idle" /\ Toggle

PortDialogHttp == pc = "idle" /\ Toggle

\* SavePorts after profiles were added, removed, enabled or disabled.
PortDialogProfiles(ps) ==
  /\ pc = "idle"
  /\ ps # config.profiles /\ config.choices < MaxChoices
  /\ LET c == [config EXCEPT !.profiles = ps, !.choices = @ + 1]
     IN  config' = c /\ BeginMerge(c)
  /\ task' = Task("profiles")
  /\ UNCHANGED <<files, httpVars, driver, damage, missed, savedVars>>

\* Any other setting.
Choose ==
  /\ pc = "idle"
  /\ config.choices < MaxChoices
  /\ config' = [config EXCEPT !.choices = @ + 1]
  /\ UNCHANGED <<files, httpVars, driver, pc, task, portVars, damage, missed, savedVars>>

\* Main_OnTimer, at any time after the timer was set: the trace says "resetting", the
\* code toggles.
TimerFires ==
  /\ pc = "idle" /\ timer
  /\ SetBlockHttp(config.AllowHttp, 0, FALSE, None)

-----------------------------------------------------------------------------
(* Configuration::Save and ::Load, and the life of the process.            *)

\* Mutant: the temporary allow is saved.
SavesAnyway == FALSE
EndsTempAllow == short \/ long

BeginSave(name) ==
  /\ pc' = "write"
  /\ task' = Task(name)
  /\ UNCHANGED portVars

\* A dialog saves, or Main_OnDestroy.
Save(name) ==
  /\ pc = "idle"
  /\ IF EndsTempAllow THEN SetBlockHttp(config.AllowHttp, 0, FALSE, name)
     ELSE /\ BeginSave(name)
          /\ UNCHANGED <<files, config, httpVars, driver, damage, missed, savedVars>>

Target == IF task.name = "start" THEN "bak" ELSE "conf"

\* Mutant: the file itself is opened for writing.
WriteInPlace == [files EXCEPT ![Target] = File("missing", Defaults)]
WriteTempFile == files

Write ==
  /\ pc = "write"
  /\ files' = WriteTempFile
  /\ pc' = "move"
  /\ UNCHANGED <<config, httpVars, driver, task, portVars, damage, missed, savedVars>>

\* The process is gone; the cleanup of the driver clears its ports, not its flag.
Off ==
  /\ pc' = "off" /\ task' = Task(None)
  /\ config' = Defaults
  /\ short' = FALSE /\ long' = FALSE /\ timer' = FALSE
  /\ portset' = [l \in PortLists |-> {}] /\ todo' = {} /\ port' = None
  /\ driver' = [driver EXCEPT !.ports = [l \in PortLists |-> {}]]
  /\ missed' = [l \in PortLists |-> FALSE]
  /\ restored' = FALSE

\* A save that the user, the end of the process or the wizard has asked for is what
\* the next start owes.
MoveFile ==
  /\ pc = "move"
  /\ files' = [files EXCEPT ![Target] = File("whole", config)]
  /\ IF task.name \in {"start", "restore"}
     THEN restored' = (restored \/ task.name = "restore") /\ UNCHANGED <<due, lost>>
     ELSE due' = config.choices /\ restored' = FALSE /\ lost' = FALSE

MoveAndReturn ==
  /\ task.name \in {"save", "start"}
  /\ MoveFile
  /\ pc' = "idle" /\ task' = Task(None)
  /\ UNCHANGED <<config, httpVars, driver, portVars, damage, missed>>

MoveAndQuit ==
  /\ task.name = "quit"
  /\ MoveFile
  /\ Off
  /\ UNCHANGED damage

Start(c) ==
  /\ config' = c
  /\ task' = Task("start")
  /\ BeginMerge(c)

\* The wizard has saved, and Main_OnInitDialog goes on.
MoveAndStart ==
  /\ task.name = "wizard"
  /\ MoveFile
  /\ Start(config)
  /\ UNCHANGED <<httpVars, driver, damage, missed>>

\* LoadFile and Parse: what is cut before the root is a document without an error.
Parsed(f) == files[f].kind \in {"whole", "rootless"}

\* Where the loop of Load stops.
Chosen ==
  IF Parsed("conf") THEN "conf" ELSE IF Parsed("bak") THEN "bak" ELSE None

\* All files are parsed into one document, and a root whose own parse failed stays in it:
\* RootElement() is that of the first file that has one.
Root == files[IF files["conf"].kind = "missing" THEN "bak" ELSE "conf"]

\* The startup wizard with its choice for HTTP, and the save after it.
Wizard ==
  /\ \E allow \in BOOLEAN :
       config' = [Defaults EXCEPT !.AllowHttp = allow, !.lasting = allow, !.choices = 1]
  /\ BeginSave("wizard")

\* The rest of Load, once a file was parsed: without a root it returns false.
ReadRoot ==
  IF Root.kind \in {"whole", "inside"} THEN Start(Root.of) ELSE Wizard

Launch ==
  /\ pc = "off"
  /\ \/ Chosen = "conf" /\ ReadRoot
     \/ Chosen = "bak" /\ BeginSave("restore") /\ UNCHANGED config
     \/ Chosen = None /\ Wizard
  /\ lost' = (lost \/ files["conf"].kind \notin {"whole", "missing"})
  /\ UNCHANGED <<files, httpVars, driver, damage, missed, due, restored>>

\* Load has saved what is in memory, the defaults, and goes on with the document.
MoveAndRestore ==
  /\ task.name = "restore"
  /\ MoveFile
  /\ ReadRoot
  /\ UNCHANGED <<httpVars, driver, damage, missed>>

Crash ==
  /\ pc # "off"
  /\ Off
  /\ lost' = (lost \/ restored)
  /\ UNCHANGED <<files, damage, due>>

\* What is left of the settings when the file is cut: nothing, HTTP and some of the
\* profiles, which come late in it, or, in the end tag of the root, everything.
Cuts(c) ==
  {Defaults, c} \cup {[c EXCEPT !.profiles = ps, !.choices = 0] : ps \in SUBSET c.profiles}

Damaged(file) ==
  {File(kind, Defaults) : kind \in {"missing", "rootless", "misnamed"}}
    \cup {File("inside", c) : c \in Cuts(file.of)}

\* What the next start owes with what is left: without peerblock.conf the backup,
\* which may be older, and without both nothing.
Owed(left) ==
  IF left["conf"].kind = "whole" THEN due
  ELSE IF left["bak"].kind # "whole" THEN 0
  ELSE IF left["bak"].of.choices < due THEN left["bak"].of.choices
  ELSE due

\* A file is damaged.
Damage(f) ==
  /\ pc = "off" /\ damage < MaxDamage
  /\ files[f].kind \in {"whole", "inside"}
  /\ \E file \in Damaged(files[f]) : files' = [files EXCEPT ![f] = file]
  /\ due' = Owed(files')
  /\ damage' = damage + 1
  /\ UNCHANGED <<config, httpVars, driver, pc, task, portVars, missed, restored, lost>>

-----------------------------------------------------------------------------

Merge == (\E r \in todo : MergeRange(r)) \/ MergePort
SaveStep == Write \/ MoveAndReturn \/ MoveAndQuit \/ MoveAndStart \/ MoveAndRestore
Step == Merge \/ Send \/ SetTimer \/ SaveStep

User ==
  \/ TrayBlockHttp \/ TrayTempAllow15 \/ TrayTempAllow60
  \/ LogHttpButton \/ PortDialogHttp
  \/ \E ps \in SUBSET Profiles : PortDialogProfiles(ps)
  \/ Choose
  \/ Save("save") \/ Save("quit")

Next ==
  \/ Step
  \/ User
  \/ TimerFires
  \/ Launch \/ Crash
  \/ \E f \in Files : Damage(f)

Spec == Init /\ [][Next]_vars

\* A command that has begun runs on.
FairSpec == Spec /\ WF_vars(Step)

-----------------------------------------------------------------------------
(* Properties.                                                             *)

\* HTTP is allowed because the user has allowed it for good, or a timer is armed that
\* ends it, never both; and no file that a start may read was saved in between, so a
\* crash or a restart does not turn a temporary allow into a lasting one
\* (configuration.cpp:886, mainproc.cpp:198 and 883).
TempAllowIsTimed ==
  /\ pc = "idle" =>
       /\ short \/ long <=> timer
       /\ ~(short /\ long)
       /\ timer => config.AllowHttp /\ ~config.lasting
       /\ config.AllowHttp => timer \/ config.lasting
  /\ \A f \in Files : files[f].of.AllowHttp => files[f].of.lasting

InProfile(l, i) ==
  \E r \in UNION config.profiles : l \in Lists(r) /\ r.start <= i /\ i <= r.end
Exempt(l) ==
  (IF l = "destination" THEN SentHttp(config) ELSE {}) \cup {i \in Ports : InProfile(l, i)}

\* Between two commands the driver has the rule for HTTP and the exempt ports that
\* the settings say, unless its pool was empty: then it keeps older ports, and HTTP
\* may stay exempt though the settings say that it is blocked.
DriverAgrees ==
  pc = "idle" =>
    /\ driver.blocksHttp <=> ~config.AllowHttp
    /\ \A l \in PortLists : ~missed[l] => driver.ports[l] = Exempt(l)

\* A start finds the settings that were saved last, wherever an earlier process was
\* killed, and those of the backup when peerblock.conf is gone.  The exceptions are a
\* peerblock.conf that is there but cut (BackupIsUsed below), and a process that was
\* killed after a start from the backup, before it saved: Load has put the defaults into
\* peerblock.conf (configuration.cpp:511).
SettingsKept == pc = "idle" /\ ~lost => config.choices >= due

\* Load says that it uses the last-known-good file (configuration.cpp:509, pb.rc:993):
\* the settings of such a start are those of the backup.
FromBackup == pc = "merge" /\ task.name = "start" /\ restored
BackupIsUsed == FromBackup /\ files["bak"].kind = "whole" => config = files["bak"].of

\* Merge ends, and the UI thread with it comes back to its messages, unless an enabled
\* range ends at the last port: the counter then wraps round and never passes the end
\* (configuration.h:147).
EndsAtLastPort == \E r \in UNION config.profiles : r.start <= r.end /\ r.end = MaxPort
MergeEnds == pc = "merge" ~> pc # "merge" \/ EndsAtLastPort

=============================================================================
