--------------------------- MODULE SettingsProofs ---------------------------
(***************************************************************************)
(* The temporary allow of HTTP, the ports and the rule of the driver, and  *)
(* the saved settings, for any profiles, bounds and last port.             *)
(*                                                                         *)
(* A property that is about the time between two commands is not           *)
(* inductive: the invariant says what a command has done at each of its    *)
(* steps (Http, Merging, Sending) and what the two files keep of what the  *)
(* next start owes, at each step of a save or a start (Kept).              *)
(***************************************************************************)
EXTENDS Settings, TLAPS

FileStates ==
  [kind : {"whole", "inside", "misnamed", "rootless", "missing"}, of : Configs]

Typed ==
  /\ files \in [Files -> FileStates]
  /\ config \in Configs
  /\ short \in BOOLEAN /\ long \in BOOLEAN /\ timer \in BOOLEAN
  /\ portset \in [PortLists -> SUBSET Ports]
  /\ driver \in [ports : [PortLists -> SUBSET Ports], blocksHttp : BOOLEAN]
  /\ pc \in {"off", "merge", "timer", "write", "move", "idle"}
  /\ task \in [name : TaskNames \cup {None}, time : {0, 15, 60}, block : BOOLEAN,
               then : {None, "save", "quit"}]
  /\ todo \subseteq Ranges
  /\ port \in [at : Ports, of : Ranges] \cup {None}
  /\ damage \in Nat
  /\ missed \in [PortLists -> BOOLEAN]
  /\ due \in Nat /\ restored \in BOOLEAN /\ lost \in BOOLEAN

\* What a step of the process belongs to.
Steps ==
  /\ pc = "off" => ~restored /\ ~short /\ ~long /\ ~timer /\ config = Defaults
  /\ pc = "merge" => task.name \in {"http", "profiles", "start"}
  /\ pc = "timer" => task.name = "http"
  /\ pc = "idle" => task.name \in {None, "profiles"}
  /\ pc \in {"write", "move"} => task.name \in {"save", "quit", "start", "restore", "wizard"}

\* A temporary allow of HTTP, with its timer.
TempAllow ==
  /\ short \/ long <=> timer
  /\ ~(short /\ long)
  /\ timer => config.AllowHttp /\ ~config.lasting
  /\ config.AllowHttp => timer \/ config.lasting

\* Before SetTimer, the flags are those of the command before.
Http ==
  /\ pc \in {"merge", "timer"} /\ task.name = "http" =>
       /\ config.AllowHttp <=> ~task.block
       /\ config.lasting <=> ~task.block /\ task.time = 0
       /\ task.then # None => task.block
  /\ pc = "idle" \/ (pc = "merge" /\ task.name # "http") => TempAllow
  /\ pc \in {"write", "move"} \/ (pc = "merge" /\ task.name = "start") =>
       ~short /\ ~long /\ ~timer /\ (config.AllowHttp => config.lasting)
  /\ \A f \in Files : files[f].of.AllowHttp => files[f].of.lasting

\* The ports that the ranges in todo have still to add.
Missing(l) ==
  {i \in Ports : \E r \in todo : /\ l \in Lists(r) /\ r.start <= i /\ i <= r.end
                                 /\ port # None /\ port.of = r => i >= port.at}

\* The counter has passed, or will pass, the last port of its range: Merge does not return.
Endless == port # None /\ port.of.end = MaxPort

Merging ==
  pc = "merge" =>
    /\ todo \subseteq UNION config.profiles
    /\ port # None => port.of \in todo /\ port.of.start <= port.of.end
    /\ \/ Endless
       \/ /\ port # None => port.of.start <= port.at /\ port.at <= port.of.end + 1
          /\ \A l \in PortLists : portset[l] \subseteq Exempt(l)
          /\ \A l \in PortLists : Exempt(l) \subseteq portset[l] \cup Missing(l)

\* The ports of the driver; SetBlockHttp leaves its source ports as they were.
Agrees(ls) == \A l \in ls : ~missed[l] => driver.ports[l] = Exempt(l)
Sending ==
  /\ pc = "merge" /\ task.name = "http" => Agrees({"source"})
  /\ pc \in {"timer", "idle"} \/ (pc \in {"write", "move"} /\ task.name \in {"save", "quit", "start"}) =>
       (driver.blocksHttp <=> ~config.AllowHttp) /\ Agrees(PortLists)

\* A start that has found peerblock.conf whole or gone has the settings that were due, and so
\* has the file that the next start would read.
Kept ==
  ~lost =>
    /\ pc # "off" /\ task.name \notin {"restore", "wizard"} => config.choices >= due
    /\ files["conf"].kind = "whole" /\ ~restored => files["conf"].of.choices >= due
    /\ files["conf"].kind # "whole" /\ files["bak"].kind = "whole" =>
         files["bak"].of.choices >= due
    /\ files["conf"].kind # "whole" /\ files["bak"].kind # "whole" => due = 0
    /\ pc \in {"write", "move"} /\ task.name = "restore" =>
         files["conf"].kind = "missing" /\ Parsed("bak")

SettingsInv == Typed /\ Steps /\ Http /\ Merging /\ Sending /\ Kept

-----------------------------------------------------------------------------
(* Lemmas on ports, configurations and the loops of Merge.                 *)

LEMMA PortFacts ==
  ASSUME NEW i \in Ports
  PROVE  /\ i \in Nat /\ MaxPort \in Nat /\ i <= MaxPort
         /\ NextPort(i) \in Ports
         /\ i < MaxPort => NextPort(i) = i + 1
BY SettingsAssumption DEF Ports, NextPort

LEMMA RangeFacts ==
  ASSUME NEW r \in Ranges
  PROVE  /\ r.start \in Ports /\ r.end \in Ports
         /\ Lists(r) \subseteq PortLists
BY DEF Ranges, Lists, PortLists

LEMMA ConfigFacts ==
  ASSUME NEW c \in Configs
  PROVE  /\ c.AllowHttp \in BOOLEAN /\ c.lasting \in BOOLEAN
         /\ c.choices \in Nat
         /\ c.profiles \subseteq Profiles /\ UNION c.profiles \subseteq Ranges
         /\ SentHttp(c) \subseteq Ports
<1>1. c.AllowHttp \in BOOLEAN /\ c.lasting \in BOOLEAN /\ c.choices \in 0..MaxChoices
      /\ c.profiles \subseteq Profiles
  BY DEF Configs
<1> QED
  BY <1>1, SettingsAssumption DEF SentHttp

LEMMA DefaultsFacts ==
  /\ Defaults \in Configs
  /\ ~Defaults.AllowHttp /\ ~Defaults.lasting /\ Defaults.choices = 0
BY SettingsAssumption DEF Defaults, Configs

\* What a file has is a configuration, whatever became of it.
LEMMA FileFacts ==
  ASSUME Typed, NEW f \in Files
  PROVE  /\ files[f] \in FileStates
         /\ files[f].of \in Configs /\ files[f].of.choices \in Nat
<1>1. files[f] \in FileStates
  BY DEF Typed
<1>2. files[f].of \in Configs
  BY <1>1 DEF FileStates
<1> QED
  BY <1>1, <1>2, ConfigFacts

LEMMA TaskFacts ==
  ASSUME NEW name \in TaskNames \cup {None}
  PROVE  /\ Task(name).name = name /\ Task(name).then = None
         /\ Task(name) \in [name : TaskNames \cup {None}, time : {0, 15, 60}, block : BOOLEAN,
                            then : {None, "save", "quit"}]
BY DEF Task

\* A merge begins with HTTP in the set, and everything else to come.
LEMMA MergeBegins ==
  ASSUME config' \in Configs, BeginMerge(config')
  PROVE  /\ portset' \in [PortLists -> SUBSET Ports]
         /\ todo' \subseteq Ranges /\ port' = None
         /\ Merging'
<1>1. UNION (config'.profiles) \subseteq Ranges /\ SentHttp(config') \subseteq Ports
  BY ConfigFacts
<1>2. portset' \in [PortLists -> SUBSET Ports]
  BY <1>1 DEF BeginMerge
<1>3. ASSUME NEW l \in PortLists
      PROVE  /\ portset'[l] = IF l = "destination" THEN SentHttp(config') ELSE {}
             /\ Missing(l)' = {i \in Ports : InProfile(l, i)'}
  BY <1>3 DEF BeginMerge, Missing, InProfile
<1>4. ASSUME NEW l \in PortLists
      PROVE  portset'[l] \subseteq Exempt(l)' /\ Exempt(l)' \subseteq portset'[l] \cup Missing(l)'
  BY <1>3 DEF Exempt
<1> QED
  BY <1>1, <1>2, <1>4 DEF BeginMerge, Merging

\* Merge goes on with the next range, or leaves it out.
LEMMA MergeRangeLemma ==
  ASSUME SettingsInv, NEW r \in todo, MergeRange(r)
  PROVE  SettingsInv'
<1> USE DEF SettingsInv
<1>0. /\ r \in Ranges /\ r.start \in Ports /\ r.end \in Ports
      /\ pc = "merge" /\ port = None /\ pc' = "merge"
      /\ UNCHANGED <<files, config, httpVars, driver, task, portset, damage, missed, savedVars>>
  BY RangeFacts DEF Typed, MergeRange
<1>1. Typed'
  BY <1>0 DEF Typed, MergeRange, httpVars, savedVars
<1>2. Steps' /\ Http' /\ Kept' /\ Sending'
  BY <1>0 DEF Steps, Http, Kept, Parsed, Sending, Agrees, Exempt, InProfile, TempAllow, httpVars, savedVars
<1>3. Merging'
  <2>1. ~Endless /\ todo \subseteq UNION config.profiles
    BY <1>0 DEF Merging, Endless
  <2>2. CASE r.start <= r.end
    <3>1. port' = [at |-> r.start, of |-> r] /\ todo' = todo
      BY <2>2 DEF MergeRange
    <3>2. port' # None /\ port'.of = r /\ port'.at = r.start
      BY <3>1, <1>0, ValuesAssumption
    <3>3. ASSUME NEW l \in PortLists PROVE Missing(l) \subseteq Missing(l)'
      <4>1. \A i \in Ports : r.start <= i => (port'.of = r => i >= port'.at)
        BY <3>2, <1>0, PortFacts
      <4>2. \A q \in todo : port'.of = q => q = r
        BY <3>2
      <4> QED
        BY <4>1, <4>2, <3>1 DEF Missing
    <3>4. \A l \in PortLists : Exempt(l)' = Exempt(l)
      BY <1>0 DEF Exempt, InProfile
    <3>5. r.start <= r.start /\ r.start <= r.end + 1
      BY <1>0, <2>2, SettingsAssumption DEF Ports
    <3> QED
      BY <1>0, <2>1, <2>2, <3>1, <3>2, <3>3, <3>4, <3>5 DEF Merging
  <2>3. CASE ~(r.start <= r.end)
    <3>1. todo' = todo \ {r} /\ port' = None
      BY <2>3, <1>0 DEF MergeRange
    <3>2. ASSUME NEW l \in PortLists PROVE Missing(l) \subseteq Missing(l)'
      <4>1. \A i \in Ports : ~(r.start <= i /\ i <= r.end)
        BY <2>3, <1>0, PortFacts
      <4> QED
        BY <4>1, <3>1, <1>0 DEF Missing
    <3>3. \A l \in PortLists : Exempt(l)' = Exempt(l)
      BY <1>0 DEF Exempt, InProfile
    <3> QED
      BY <1>0, <2>1, <3>1, <3>2, <3>3 DEF Merging
  <2> QED
    BY <2>2, <2>3
<1> QED
  BY <1>1, <1>2, <1>3

\* One turn of the loop over the ports of a range.
LEMMA MergePortLemma ==
  ASSUME SettingsInv, MergePort
  PROVE  SettingsInv'
<1> USE DEF SettingsInv
<1> DEFINE r == port.of
           at == port.at
<1>0. /\ pc = "merge" /\ port # None /\ pc' = "merge"
      /\ port \in [at : Ports, of : Ranges]
      /\ UNCHANGED <<files, config, httpVars, driver, task, damage, missed, savedVars>>
  BY DEF Typed, MergePort
<1>a. r \in Ranges /\ r.start \in Ports /\ r.end \in Ports /\ at \in Ports /\ r \in todo
  BY <1>0, RangeFacts DEF Merging
<1>b. Passed(at, r) <=> at > r.end
  BY DEF Passed
<1>c. /\ Passed(at, r) => port' = None /\ todo' = todo \ {r} /\ UNCHANGED portset
      /\ ~Passed(at, r) =>
           /\ portset' = [l \in PortLists |-> portset[l] \cup (IF l \in Lists(r) THEN {at} ELSE {})]
           /\ port' = [port EXCEPT !.at = NextPort(at)]
           /\ todo' = todo
  BY DEF MergePort
<1>p. /\ MaxPort \in Nat /\ at \in Nat /\ at <= MaxPort
      /\ r.start \in Nat /\ r.end \in Nat /\ r.end <= MaxPort
  BY <1>a, SettingsAssumption DEF Ports
<1>d. NextPort(at) \in Ports
  BY <1>a, PortFacts
<1>1. Typed'
  <2>1. portset' \in [PortLists -> SUBSET Ports]
    BY <1>a, <1>c DEF Typed
  <2>2. todo' \subseteq Ranges /\ port' \in [at : Ports, of : Ranges] \cup {None}
    BY <1>0, <1>c, <1>d DEF Typed
  <2> QED
    BY <1>0, <2>1, <2>2 DEF Typed, httpVars, savedVars
<1>2. Steps' /\ Http' /\ Kept' /\ Sending'
  BY <1>0 DEF Steps, Http, Kept, Parsed, Sending, Agrees, Exempt, InProfile, TempAllow, httpVars, savedVars
<1>3. Merging'
  <2>0. todo \subseteq UNION config.profiles /\ config' = config
    BY <1>0 DEF Merging
  <2>e. \A l \in PortLists : Exempt(l)' = Exempt(l)
    BY <1>0 DEF Exempt, InProfile
  <2>1. CASE Endless
    <3>1. ~Passed(at, r)
      BY <2>1, <1>b, <1>p DEF Endless
    <3>2. Endless' /\ port'.of = r
      BY <2>1, <3>1, <1>c, <1>0, <1>d, ValuesAssumption DEF Endless
    <3> QED
      BY <3>1, <3>2, <2>0, <1>c, <1>a, <1>0 DEF Merging
  <2>2. CASE ~Endless /\ Passed(at, r)
    <3>1. ASSUME NEW l \in PortLists PROVE Missing(l) \subseteq Missing(l)'
      <4>1. \A i \in Ports : i >= at => ~(i <= r.end)
        BY <2>2, <1>b, <1>p DEF Ports
      <4> QED
        BY <4>1, <2>2, <1>c, <1>0 DEF Missing
    <3> QED
      BY <3>1, <2>0, <2>2, <2>e, <1>0, <1>c DEF Merging
  <2>3. CASE ~Endless /\ ~Passed(at, r)
    <3>1. at <= r.end /\ r.end < MaxPort /\ r.start <= at
      BY <2>3, <1>0, <1>a, <1>b, PortFacts DEF Endless, Merging
    <3>2. NextPort(at) = at + 1
      BY <3>1, <1>a, PortFacts
    <3>3. port' # None /\ port'.of = r /\ port'.at = at + 1
      BY <2>3, <3>2, <1>0, <1>a, <1>c, <1>d, ValuesAssumption
    <3>4. r.start <= port'.at /\ port'.at <= r.end + 1
      BY <3>1, <3>3, <1>p
    <3>5. ASSUME NEW l \in PortLists PROVE portset'[l] \subseteq Exempt(l)
      <4>1. l \in Lists(r) => at \in Exempt(l)
        BY <3>1, <1>a, <2>0 DEF Exempt, InProfile
      <4> QED
        BY <4>1, <2>3, <1>0, <1>c, <3>5 DEF Merging
    <3>6. ASSUME NEW l \in PortLists PROVE Missing(l) \subseteq Missing(l)' \cup portset'[l]
      <4> SUFFICES ASSUME NEW i \in Missing(l), i \notin portset'[l] PROVE i \in Missing(l)'
        OBVIOUS
      <4>1. PICK q \in todo : /\ l \in Lists(q) /\ q.start <= i /\ i <= q.end
                              /\ port # None /\ port.of = q => i >= port.at
        BY DEF Missing
      <4>2. i \in Ports
        BY DEF Missing
      <4>3. ASSUME q = r PROVE i >= at + 1
        <5>1. i >= at /\ i # at
          BY <4>1, <4>3, <2>3, <1>0, <1>c, <3>6
        <5> QED
          BY <5>1, <4>2, <1>p DEF Ports
      <4> QED
        BY <4>1, <4>2, <4>3, <3>3, <2>3, <1>c DEF Missing
    <3>7. ASSUME NEW l \in PortLists PROVE portset[l] \subseteq portset'[l]
      BY <2>3, <1>c, <3>7
    <3>8. ASSUME NEW l \in PortLists PROVE Exempt(l) \subseteq portset'[l] \cup Missing(l)'
      BY <2>3, <3>6, <3>7, <3>8, <1>0 DEF Merging
    <3> QED
      BY <3>3, <3>4, <3>5, <3>8, <2>0, <2>3, <2>e, <1>0, <1>a, <1>c DEF Merging
  <2> QED
    BY <2>1, <2>2, <2>3
<1> QED
  BY <1>1, <1>2, <1>3

-----------------------------------------------------------------------------
(* The commands for HTTP and for the ports.                                *)

\* After Merge, portset has the exempt ports.
LEMMA MergedIsExempt ==
  ASSUME SettingsInv, pc = "merge", port = None, todo = {}, NEW l \in PortLists
  PROVE  portset[l] = Exempt(l)
<1>1. ~Endless /\ Missing(l) = {}
  BY DEF Endless, Missing
<1> QED
  BY <1>1 DEF SettingsInv, Merging

LEMMA SendLemma ==
  ASSUME SettingsInv, Send
  PROVE  SettingsInv'
<1> USE DEF SettingsInv
<1>0. /\ pc = "merge" /\ port = None /\ todo = {}
      /\ task.name \in {"http", "profiles", "start"}
      /\ UNCHANGED <<files, config, httpVars, task, portVars, damage, savedVars>>
  BY DEF Send, Steps
<1>1. PICK full \in {{}, Sent} :
        /\ driver' = [ports |-> [l \in PortLists |->
                         IF l \in Sent \ full THEN portset[l] ELSE driver.ports[l]],
                       blocksHttp |-> IsHttpBlocked(config)]
        /\ missed' = [l \in PortLists |-> IF l \in Sent THEN l \in full ELSE missed[l]]
  BY DEF Send
<1>2. pc' = CASE task.name = "http" -> "timer"
              [] task.name = "start" -> "write"
              [] OTHER -> "idle"
  BY DEF Send, AfterSend
<1>2a. /\ task.name = "http" => pc' = "timer"
       /\ task.name = "start" => pc' = "write"
       /\ task.name = "profiles" => pc' = "idle"
  BY <1>2, <1>0
<1>3. Typed'
  <2>1. [l \in PortLists |-> IF l \in Sent \ full THEN portset[l] ELSE driver.ports[l]]
          \in [PortLists -> SUBSET Ports]
    BY DEF Typed
  <2>2. IsHttpBlocked(config) \in BOOLEAN
    BY DEF IsHttpBlocked
  <2>3. missed' \in [PortLists -> BOOLEAN]
    <3>1. ASSUME NEW l \in PortLists
          PROVE  (IF l \in Sent THEN l \in full ELSE missed[l]) \in BOOLEAN
      <4>1. (l \in full) \in BOOLEAN /\ missed[l] \in BOOLEAN
        BY DEF Typed
      <4> QED
        BY <4>1, Zenon
    <3> QED
      BY <1>1, <3>1
  <2>4. pc' \in {"off", "merge", "timer", "write", "move", "idle"}
    BY <1>0, <1>2a
  <2> QED
    BY <1>0, <1>1, <2>1, <2>2, <2>3, <2>4 DEF Typed, httpVars, portVars, savedVars
<1>4. Steps' /\ Merging'
  BY <1>0, <1>2a DEF Steps, Merging, httpVars, savedVars, portVars
<1>5. Http'
  BY <1>0, <1>2a DEF Http, TempAllow, httpVars
<1>6. Kept'
  BY <1>0, <1>2a DEF Kept, Parsed, savedVars
<1>7. Sending'
  <2>1. \A l \in PortLists : Exempt(l)' = Exempt(l)
    BY <1>0 DEF Exempt, InProfile
  <2>2. ASSUME NEW l \in PortLists, ~missed'[l] PROVE driver'.ports[l] = Exempt(l)
    <3>1. driver'.ports[l] = IF l \in Sent \ full THEN portset[l] ELSE driver.ports[l]
      BY <1>1, <2>2
    <3>2. CASE l \in Sent
      BY <3>1, <3>2, <2>2, <1>0, <1>1, MergedIsExempt
    <3>3. CASE l \notin Sent
      <4>1. task.name = "http" /\ l = "source"
        BY <3>3 DEF Sent, PortLists
      <4> QED
        BY <4>1, <3>1, <3>3, <2>2, <1>0, <1>1 DEF Sending, Agrees
    <3> QED
      BY <3>2, <3>3
  <2>3. driver'.blocksHttp <=> ~config'.AllowHttp
    BY <1>0, <1>1 DEF IsHttpBlocked
  <2> QED
    BY <2>1, <2>2, <2>3, <1>0, <1>2a DEF Sending, Agrees
<1> QED
  BY <1>3, <1>4, <1>5, <1>6, <1>7

\* What every caller of SetBlockHttp gives it: minutes only to allow HTTP, and a
\* save that follows only a block.
LEMMA SetBlockHttpLemma ==
  ASSUME SettingsInv, pc = "idle",
         NEW block \in BOOLEAN, NEW minutes \in {0, 15, 60}, NEW lasting \in BOOLEAN,
         NEW then \in {None, "save", "quit"},
         lasting <=> ~block /\ minutes = 0,
         then # None => block,
         SetBlockHttp(block, minutes, lasting, then)
  PROVE  SettingsInv'
<1> USE DEF SettingsInv
<1> DEFINE c == [config EXCEPT !.AllowHttp = ~block, !.lasting = lasting]
<1>0. /\ config' = c
      /\ task' = [name |-> "http", time |-> minutes, block |-> block, then |-> then]
      /\ BeginMerge(config') /\ pc' = "merge"
      /\ UNCHANGED <<files, httpVars, driver, damage, missed, savedVars>>
  BY DEF SetBlockHttp, BeginMerge
<1>1. /\ config' \in Configs
      /\ config'.AllowHttp = ~block /\ config'.lasting = lasting
      /\ config'.profiles = config.profiles /\ config'.choices = config.choices
  BY <1>0 DEF Typed, Configs
<1>2. /\ portset' \in [PortLists -> SUBSET Ports]
      /\ todo' \subseteq Ranges /\ port' = None
      /\ Merging'
  BY <1>0, <1>1, MergeBegins
<1>3. Typed'
  BY <1>0, <1>1, <1>2 DEF Typed, httpVars, savedVars, TaskNames
<1>4. Steps' /\ Http'
  BY <1>0, <1>1 DEF Steps, Http, httpVars, savedVars
<1>5. Sending'
  <2>1. Exempt("source")' = Exempt("source")
    BY <1>1 DEF Exempt, InProfile
  <2>2. Agrees({"source"})
    BY DEF Sending, Agrees, PortLists
  <2> QED
    BY <2>1, <2>2, <1>0 DEF Sending, Agrees
<1>6. Kept'
  <2>1. task.name # "restore" /\ task.name # "wizard"
    BY ValuesAssumption DEF Steps, TaskNames
  <2> QED
    BY <2>1, <1>0, <1>1 DEF Kept, Parsed, savedVars
<1> QED
  BY <1>2, <1>3, <1>4, <1>5, <1>6

LEMMA HttpCommandsLemma ==
  ASSUME SettingsInv,
         \/ TrayBlockHttp \/ TrayTempAllow15 \/ TrayTempAllow60 \/ LogHttpButton
         \/ PortDialogHttp \/ TimerFires
  PROVE  SettingsInv'
<1>0. /\ pc = "idle" /\ TempAllow
      /\ config.AllowHttp \in BOOLEAN /\ short \in BOOLEAN /\ long \in BOOLEAN
  BY ConfigFacts DEF SettingsInv, Typed, Http, TrayBlockHttp, TrayTempAllow15, TrayTempAllow60,
     LogHttpButton, PortDialogHttp, TimerFires
<1>1. CASE SetBlockHttp(FALSE, 0, TRUE, None)
  BY <1>0, <1>1, SetBlockHttpLemma
<1>2. CASE SetBlockHttp(config.AllowHttp, 0, ~config.AllowHttp, None)
  BY <1>0, <1>2, SetBlockHttpLemma
<1>3. CASE SetBlockHttp(short, IF short THEN 0 ELSE 15, FALSE, None)
  <2>1. CASE short
    BY <2>1, <1>0, <1>3, SetBlockHttpLemma
  <2>2. CASE ~short
    <3>1. SetBlockHttp(FALSE, 15, FALSE, None)
      BY <2>2, <1>0, <1>3
    <3>2. 15 \in {0, 15, 60} /\ 15 # 0 /\ FALSE \in BOOLEAN
      OBVIOUS
    <3>3. FALSE <=> ~FALSE /\ 15 = 0
      OBVIOUS
    <3> QED
      BY <3>1, <3>2, <3>3, <1>0, SetBlockHttpLemma
  <2> QED
    BY <2>1, <2>2
<1>4. CASE SetBlockHttp(long, IF long THEN 0 ELSE 60, FALSE, None)
  <2>1. CASE long
    BY <2>1, <1>0, <1>4, SetBlockHttpLemma
  <2>2. CASE ~long
    <3>1. SetBlockHttp(FALSE, 60, FALSE, None)
      BY <2>2, <1>0, <1>4
    <3>2. 60 \in {0, 15, 60} /\ 60 # 0 /\ FALSE \in BOOLEAN
      OBVIOUS
    <3>3. FALSE <=> ~FALSE /\ 60 = 0
      OBVIOUS
    <3> QED
      BY <3>1, <3>2, <3>3, <1>0, SetBlockHttpLemma
  <2> QED
    BY <2>1, <2>2
<1>5. CASE timer /\ SetBlockHttp(config.AllowHttp, 0, FALSE, None)
  <2>1. config.AllowHttp
    BY <1>0, <1>5 DEF TempAllow
  <2> QED
    BY <2>1, <1>0, <1>5, SetBlockHttpLemma
<1> QED
  BY <1>1, <1>2, <1>3, <1>4, <1>5 DEF TrayBlockHttp, TrayTempAllow15, TrayTempAllow60,
     LogHttpButton, PortDialogHttp, TimerFires, Toggle

LEMMA SetTimerLemma ==
  ASSUME SettingsInv, SetTimer
  PROVE  SettingsInv'
<1> USE DEF SettingsInv
<1>0. /\ pc = "timer" /\ task.name = "http"
      /\ task.then \in {None, "save", "quit"} /\ task.time \in {0, 15, 60} /\ task.block \in BOOLEAN
      /\ pc' = IF task.then = None THEN "idle" ELSE "write"
      /\ task' = Task(task.then)
      /\ UNCHANGED <<files, config, driver, portVars, damage, missed, savedVars>>
  BY DEF SetTimer, Steps, Typed
<1>1. /\ KillsTimer(task.time, task.block) => timer' = FALSE /\ short' = FALSE /\ long' = FALSE
      /\ ~KillsTimer(task.time, task.block) =>
           timer' = TRUE /\ short' = (task.time < 30) /\ long' = (task.time >= 30)
      /\ KillsTimer(task.time, task.block) <=> task.time = 0 \/ task.block
  BY <1>0 DEF SetTimer, KillsTimer
<1>1a. short' \in BOOLEAN /\ long' \in BOOLEAN /\ timer' \in BOOLEAN
  <2>1. CASE KillsTimer(task.time, task.block)
    BY <2>1, <1>1
  <2>2. CASE ~KillsTimer(task.time, task.block) /\ task.time < 30
    <3>1. (task.time < 30) = TRUE /\ (task.time >= 30) = FALSE
      BY <2>2, <1>0
    <3> QED
      BY <2>2, <3>1, <1>1
  <2>3. CASE ~KillsTimer(task.time, task.block) /\ ~(task.time < 30)
    <3>1. (task.time < 30) = FALSE /\ (task.time >= 30) = TRUE
      BY <2>3, <1>0
    <3> QED
      BY <2>3, <3>1, <1>1
  <2> QED
    BY <2>1, <2>2, <2>3
<1>2. /\ task'.name = task.then /\ task'.then = None
      /\ task' \in [name : TaskNames \cup {None}, time : {0, 15, 60}, block : BOOLEAN,
                    then : {None, "save", "quit"}]
  BY <1>0, TaskFacts DEF TaskNames
<1>3. Typed'
  BY <1>0, <1>1a, <1>2 DEF Typed, portVars, savedVars
<1>4. None # "http" /\ None # "restore"
  BY ValuesAssumption DEF TaskNames
<1>5. Steps' /\ Merging' /\ Sending' /\ Kept'
  BY <1>0, <1>1, <1>2, <1>4 DEF Steps, Merging, Sending, Agrees, Exempt, InProfile, Kept, Parsed, savedVars
<1>6. Http'
  <2>1. /\ config.AllowHttp <=> ~task.block
        /\ config.lasting <=> ~task.block /\ task.time = 0
        /\ task.then # None => task.block
    BY <1>0 DEF Http
  <2>2. config.AllowHttp \in BOOLEAN /\ config.lasting \in BOOLEAN
    BY ConfigFacts DEF Typed
  <2>3. TempAllow'
    BY <2>1, <2>2, <1>0, <1>1 DEF TempAllow
  <2>4. task.then # None => ~short' /\ ~long' /\ ~timer' /\ (config.AllowHttp => config.lasting)
    BY <2>1, <1>1
  <2> QED
    BY <2>3, <2>4, <1>0 DEF Http
<1> QED
  BY <1>3, <1>5, <1>6

LEMMA ProfilesLemma ==
  ASSUME SettingsInv, NEW ps \in SUBSET Profiles, PortDialogProfiles(ps)
  PROVE  SettingsInv'
<1> USE DEF SettingsInv
<1> DEFINE c == [config EXCEPT !.profiles = ps, !.choices = @ + 1]
<1>0. /\ pc = "idle" /\ pc' = "merge" /\ config.choices < MaxChoices
      /\ config' = c /\ BeginMerge(config')
      /\ task' = Task("profiles")
      /\ UNCHANGED <<files, httpVars, driver, damage, missed, savedVars>>
  BY DEF PortDialogProfiles, BeginMerge
<1>1. /\ config' \in Configs
      /\ config'.AllowHttp = config.AllowHttp /\ config'.lasting = config.lasting
      /\ config'.choices = config.choices + 1
      /\ config.choices \in Nat /\ due \in Nat
  <2>1. config.choices \in 0..MaxChoices /\ config.choices + 1 \in 0..MaxChoices
    BY <1>0, SettingsAssumption DEF Typed, Configs
  <2>2. config' = [AllowHttp |-> config.AllowHttp, profiles |-> ps,
                   choices |-> config.choices + 1, lasting |-> config.lasting]
    BY <1>0 DEF Typed, Configs
  <2>3. config.AllowHttp \in BOOLEAN /\ config.lasting \in BOOLEAN
    BY ConfigFacts DEF Typed
  <2> QED
    BY <2>1, <2>2, <2>3 DEF Typed, Configs
<1>2. /\ portset' \in [PortLists -> SUBSET Ports]
      /\ todo' \subseteq Ranges /\ port' = None
      /\ Merging'
  BY <1>0, <1>1, MergeBegins
<1>3. /\ task'.name = "profiles" /\ task'.then = None
      /\ task' \in [name : TaskNames \cup {None}, time : {0, 15, 60}, block : BOOLEAN,
                    then : {None, "save", "quit"}]
  BY <1>0, TaskFacts DEF TaskNames
<1>4. Typed'
  BY <1>0, <1>1, <1>2, <1>3 DEF Typed, httpVars, savedVars
<1>5. Steps' /\ Http' /\ Sending'
  BY <1>0, <1>1, <1>3 DEF Steps, Http, TempAllow, Sending, httpVars, savedVars
<1>6. Kept'
  <2>1. task.name # "restore" /\ task.name # "wizard"
    BY <1>0, ValuesAssumption DEF Steps, TaskNames
  <2>2. config.choices >= due => config'.choices >= due
    BY <1>1
  <2> QED
    BY <2>1, <2>2, <1>0 DEF Kept, Parsed, savedVars
<1> QED
  BY <1>2, <1>4, <1>5, <1>6

LEMMA ChooseLemma ==
  ASSUME SettingsInv, Choose
  PROVE  SettingsInv'
<1> USE DEF SettingsInv
<1>0. /\ pc = "idle" /\ config.choices < MaxChoices
      /\ config' = [config EXCEPT !.choices = @ + 1]
      /\ UNCHANGED <<files, httpVars, driver, pc, task, portVars, damage, missed, savedVars>>
  BY DEF Choose
<1>1. /\ config' \in Configs
      /\ config'.AllowHttp = config.AllowHttp /\ config'.lasting = config.lasting
      /\ config'.profiles = config.profiles
      /\ config'.choices = config.choices + 1
      /\ config.choices \in Nat /\ due \in Nat
  <2>1. config.choices \in 0..MaxChoices /\ config.choices + 1 \in 0..MaxChoices
    BY <1>0, SettingsAssumption DEF Typed, Configs
  <2> QED
    BY <1>0, <2>1 DEF Typed, Configs
<1>2. Typed'
  BY <1>0, <1>1 DEF Typed, httpVars, portVars, savedVars
<1>3. Steps' /\ Http' /\ Merging'
  BY <1>0, <1>1 DEF Steps, Http, TempAllow, Merging, httpVars, portVars, savedVars
<1>4. Sending'
  <2>1. \A l \in PortLists : Exempt(l)' = Exempt(l)
    BY <1>1 DEF Exempt, InProfile, SentHttp
  <2> QED
    BY <2>1, <1>0, <1>1 DEF Sending, Agrees
<1>5. Kept'
  <2>1. config.choices >= due => config'.choices >= due
    BY <1>1
  <2> QED
    BY <2>1, <1>0 DEF Kept, Parsed, savedVars
<1> QED
  BY <1>2, <1>3, <1>4, <1>5

-----------------------------------------------------------------------------
(* Saving, loading and the life of the process.                            *)

LEMMA SaveLemma ==
  ASSUME SettingsInv, NEW name \in {"save", "quit"}, Save(name)
  PROVE  SettingsInv'
<1> USE DEF SettingsInv
<1>0. /\ pc = "idle" /\ TempAllow /\ task.name # "restore" /\ task.name # "wizard"
      /\ config.AllowHttp \in BOOLEAN /\ config.lasting \in BOOLEAN
  BY ConfigFacts, ValuesAssumption DEF Save, Http, Typed, Steps, TaskNames
<1>1. CASE short \/ long
  <2>1. SetBlockHttp(config.AllowHttp, 0, FALSE, name)
    BY <1>1 DEF Save, EndsTempAllow
  <2>2. config.AllowHttp
    BY <1>0, <1>1 DEF TempAllow
  <2> QED
    BY <2>1, <2>2, <1>0, SetBlockHttpLemma
<1>2. CASE ~(short \/ long)
  <2>0. /\ pc' = "write" /\ task' = Task(name)
        /\ UNCHANGED <<files, config, httpVars, driver, portVars, damage, missed, savedVars>>
    BY <1>2 DEF Save, EndsTempAllow, BeginSave
  <2>1. /\ task'.name = name /\ task'.then = None
        /\ task' \in [name : TaskNames \cup {None}, time : {0, 15, 60}, block : BOOLEAN,
                      then : {None, "save", "quit"}]
    BY <2>0, TaskFacts DEF TaskNames
  <2>2. Typed'
    BY <2>0, <2>1 DEF Typed, httpVars, portVars, savedVars
  <2>3. Steps' /\ Merging' /\ Kept'
    BY <2>0, <2>1, <1>0 DEF Steps, Merging, Kept, Parsed, savedVars
  <2>4. Sending'
    BY <2>0, <2>1, <1>0 DEF Sending, Agrees, Exempt, InProfile
  <2>5. Http'
    BY <2>0, <2>1, <1>0, <1>2 DEF Http, TempAllow, httpVars
  <2> QED
    BY <2>2, <2>3, <2>4, <2>5
<1> QED
  BY <1>1, <1>2

LEMMA WriteLemma ==
  ASSUME SettingsInv, Write
  PROVE  SettingsInv'
<1>0. /\ pc = "write" /\ pc' = "move"
      /\ UNCHANGED <<files, config, httpVars, driver, task, portVars, damage, missed, savedVars>>
  BY DEF Write, WriteTempFile
<1> QED
  BY <1>0 DEF SettingsInv, Typed, Steps, Http, TempAllow, Merging, Sending, Agrees, Exempt,
     InProfile, Kept, Parsed, httpVars, portVars, savedVars

\* What MoveFile does to the two files and to what is due.
LEMMA MoveFacts ==
  ASSUME SettingsInv, MoveFile
  PROVE  /\ files' \in [Files -> FileStates]
         /\ \A f \in Files : files'[f] = IF f = Target THEN File("whole", config) ELSE files[f]
         /\ File("whole", config).kind = "whole" /\ File("whole", config).of = config
         /\ task.name \in {"start", "restore"} =>
              due' = due /\ lost' = lost /\ restored' = (restored \/ task.name = "restore")
         /\ task.name \notin {"start", "restore"} =>
              due' = config.choices /\ ~restored' /\ ~lost'
         /\ due' \in Nat /\ restored' \in BOOLEAN /\ lost' \in BOOLEAN
         /\ Target \in Files /\ config.choices \in Nat /\ due \in Nat
         /\ config.AllowHttp => config.lasting
         /\ ~short /\ ~long /\ ~timer
         /\ pc = "move"
<1>1. /\ config \in Configs /\ config.choices \in Nat /\ due \in Nat /\ Target \in Files
      /\ restored \in BOOLEAN /\ lost \in BOOLEAN
      /\ files \in [Files -> FileStates]
  BY ConfigFacts DEF SettingsInv, Typed, Target, Files
<1>2. File("whole", config) \in FileStates
  BY <1>1 DEF File, FileStates
<1>3. /\ files' = [files EXCEPT ![Target] = File("whole", config)]
      /\ pc = "move"
      /\ task.name \in {"start", "restore"} =>
           restored' = (restored \/ task.name = "restore") /\ due' = due /\ lost' = lost
      /\ task.name \notin {"start", "restore"} =>
           due' = config.choices /\ restored' = FALSE /\ lost' = FALSE
  BY DEF MoveFile
<1>4. (restored \/ task.name = "restore") \in BOOLEAN
  OBVIOUS
<1>5. due' \in Nat /\ restored' \in BOOLEAN /\ lost' \in BOOLEAN
  BY <1>1, <1>3, <1>4
<1>6. ~short /\ ~long /\ ~timer /\ (config.AllowHttp => config.lasting)
  BY <1>3 DEF SettingsInv, Http
<1> QED
  BY <1>1, <1>2, <1>3, <1>5, <1>6 DEF File

LEMMA MoveAndReturnLemma ==
  ASSUME SettingsInv, MoveAndReturn
  PROVE  SettingsInv'
<1> USE DEF SettingsInv
<1>0. /\ task.name \in {"save", "start"}
      /\ pc' = "idle" /\ task' = Task(None)
      /\ UNCHANGED <<config, httpVars, driver, portVars, damage, missed>>
      /\ MoveFile
  BY DEF MoveAndReturn
<1>1. /\ task'.name = None /\ task'.then = None
      /\ task' \in [name : TaskNames \cup {None}, time : {0, 15, 60}, block : BOOLEAN,
                    then : {None, "save", "quit"}]
  BY <1>0, TaskFacts
<1>2. Typed'
  BY <1>0, <1>1, MoveFacts DEF Typed, httpVars, portVars
<1>3. Steps' /\ Merging'
  BY <1>0, <1>1 DEF Steps, Merging
<1>4. Http'
  BY <1>0, <1>1, MoveFacts, ConfigFacts DEF Http, TempAllow, httpVars, Typed
<1>5. Sending'
  BY <1>0, <1>1, MoveFacts DEF Sending, Agrees, Exempt, InProfile
<1>6. Kept'
  <2>1. CASE task.name = "save"
    <3>1. files'["conf"].kind = "whole" /\ files'["conf"].of = config
          /\ due' = config.choices
      BY <2>1, <1>0, MoveFacts DEF Target, Files
    <3> QED
      BY <3>1, <1>0, MoveFacts DEF Kept
  <2>2. CASE task.name = "start"
    <3>1. /\ files'["conf"] = files["conf"]
          /\ files'["bak"].kind = "whole" /\ files'["bak"].of = config
          /\ due' = due /\ lost' = lost /\ restored' = restored
      BY <2>2, <1>0, MoveFacts DEF Target, Files, Typed
    <3>2. ~lost => config.choices >= due
      BY <2>2, <1>0, MoveFacts DEF Kept
    <3> QED
      BY <3>1, <3>2, <1>0 DEF Kept
  <2> QED
    BY <2>1, <2>2, <1>0
<1> QED
  BY <1>2, <1>3, <1>4, <1>5, <1>6

\* The end of the process leaves the files to the next one.
LEMMA OffLemma ==
  ASSUME Typed, Off, damage' \in Nat, due' \in Nat, lost' \in BOOLEAN,
         files' \in [Files -> FileStates]
  PROVE  Typed' /\ Steps' /\ Merging' /\ Sending' /\ pc' = "off" /\ ~restored'
<1>0. /\ pc' = "off" /\ task' = Task(None) /\ config' = Defaults
      /\ short' = FALSE /\ long' = FALSE /\ timer' = FALSE
      /\ portset' = [l \in PortLists |-> {}] /\ todo' = {} /\ port' = None
      /\ driver' = [driver EXCEPT !.ports = [l \in PortLists |-> {}]]
      /\ missed' = [l \in PortLists |-> FALSE]
      /\ restored' = FALSE
  BY DEF Off
<1>1. task' \in [name : TaskNames \cup {None}, time : {0, 15, 60}, block : BOOLEAN,
                 then : {None, "save", "quit"}]
  BY <1>0, TaskFacts
<1>2. driver' \in [ports : [PortLists -> SUBSET Ports], blocksHttp : BOOLEAN]
  <2>1. [l \in PortLists |-> {}] \in [PortLists -> SUBSET Ports]
    OBVIOUS
  <2> QED
    BY <1>0, <2>1 DEF Typed
<1>3. Typed'
  BY <1>0, <1>1, <1>2, DefaultsFacts DEF Typed
<1>4. Steps' /\ Merging' /\ Sending'
  BY <1>0 DEF Steps, Merging, Sending
<1> QED
  BY <1>0, <1>3, <1>4

LEMMA MoveAndQuitLemma ==
  ASSUME SettingsInv, MoveAndQuit
  PROVE  SettingsInv'
<1> USE DEF SettingsInv
<1>0. task.name = "quit" /\ MoveFile /\ Off /\ UNCHANGED damage
  BY DEF MoveAndQuit
<1>1. Typed' /\ Steps' /\ Merging' /\ Sending' /\ pc' = "off" /\ ~restored'
  BY <1>0, MoveFacts, OffLemma DEF Typed
<1>2. Http'
  BY <1>0, <1>1, MoveFacts DEF Http
<1>3. files'["conf"].kind = "whole" /\ files'["conf"].of.choices = due' /\ due' \in Nat
  BY <1>0, MoveFacts DEF Target, Files
<1>4. Kept'
  BY <1>1, <1>3 DEF Kept
<1> QED
  BY <1>1, <1>2, <1>4

\* Main_OnInitDialog merges and sends the ports of the configuration it has.
LEMMA StartLemma ==
  ASSUME Typed, config' \in Configs, Start(config'),
         UNCHANGED <<httpVars, driver, missed>>,
         files' \in [Files -> FileStates],
         damage' \in Nat, due' \in Nat, restored' \in BOOLEAN, lost' \in BOOLEAN
  PROVE  /\ Typed' /\ Steps' /\ Merging' /\ Sending'
         /\ pc' = "merge" /\ task'.name = "start"
<1>1. /\ pc' = "merge" /\ task' = Task("start") /\ BeginMerge(config')
  BY DEF Start, BeginMerge
<1>2. /\ portset' \in [PortLists -> SUBSET Ports]
      /\ todo' \subseteq Ranges /\ port' = None
      /\ Merging'
  BY <1>1, MergeBegins
<1>3. /\ task'.name = "start" /\ task'.then = None
      /\ task' \in [name : TaskNames \cup {None}, time : {0, 15, 60}, block : BOOLEAN,
                    then : {None, "save", "quit"}]
  BY <1>1, TaskFacts DEF TaskNames
<1>4. Typed'
  BY <1>1, <1>2, <1>3 DEF Typed, httpVars
<1>5. Steps' /\ Sending'
  BY <1>1, <1>3 DEF Steps, Sending
<1> QED
  BY <1>1, <1>2, <1>3, <1>4, <1>5

LEMMA MoveAndStartLemma ==
  ASSUME SettingsInv, MoveAndStart
  PROVE  SettingsInv'
<1> USE DEF SettingsInv
<1>0. /\ task.name = "wizard" /\ MoveFile /\ Start(config) /\ config' = config
      /\ UNCHANGED <<httpVars, driver, damage, missed>>
  BY DEF MoveAndStart, Start
<1>1. /\ Typed' /\ Steps' /\ Merging' /\ Sending'
      /\ pc' = "merge" /\ task'.name = "start"
  BY <1>0, MoveFacts, StartLemma DEF Typed
<1>2. Http'
  BY <1>0, <1>1, MoveFacts DEF Http, TempAllow, httpVars
<1>3. /\ files'["conf"].kind = "whole" /\ files'["conf"].of = config
      /\ due' = config.choices /\ config.choices \in Nat
  BY <1>0, MoveFacts DEF Target, Files
<1>4. Kept'
  BY <1>0, <1>1, <1>3 DEF Kept
<1> QED
  BY <1>1, <1>2, <1>4

\* The wizard, whatever Load has found.
LEMMA WizardLemma ==
  ASSUME SettingsInv, Wizard, ~short, ~long, ~timer,
         UNCHANGED <<httpVars, driver, damage, missed>>,
         files' \in [Files -> FileStates],
         \A f \in Files : files'[f].of.AllowHttp => files'[f].of.lasting,
         due' \in Nat, restored' \in BOOLEAN, lost' \in BOOLEAN
  PROVE  /\ Typed' /\ Steps' /\ Merging' /\ Sending' /\ Http'
         /\ pc' = "write" /\ task'.name = "wizard"
<1> USE DEF SettingsInv
<1>1. PICK allow \in BOOLEAN :
        config' = [Defaults EXCEPT !.AllowHttp = allow, !.lasting = allow, !.choices = 1]
  BY DEF Wizard
<1>2. pc' = "write" /\ task' = Task("wizard") /\ UNCHANGED portVars
  BY DEF Wizard, BeginSave
<1>3. config' \in Configs /\ config'.AllowHttp = config'.lasting
  <2>1. config' = [AllowHttp |-> allow, profiles |-> {}, choices |-> 1, lasting |-> allow]
    BY <1>1 DEF Defaults
  <2>2. 1 \in 0..MaxChoices
    BY SettingsAssumption
  <2> QED
    BY <2>1, <2>2 DEF Configs
<1>4. /\ task'.name = "wizard" /\ task'.then = None
      /\ task' \in [name : TaskNames \cup {None}, time : {0, 15, 60}, block : BOOLEAN,
                    then : {None, "save", "quit"}]
  BY <1>2, TaskFacts DEF TaskNames
<1>5. Typed'
  BY <1>2, <1>3, <1>4 DEF Typed, httpVars, portVars
<1>6. Steps' /\ Merging' /\ Sending'
  BY <1>2, <1>4 DEF Steps, Merging, Sending
<1>7. Http'
  BY <1>2, <1>3, <1>4 DEF Http, httpVars
<1> QED
  BY <1>2, <1>4, <1>5, <1>6, <1>7

\* The end of Load: a start with what was read, or the wizard.
LEMMA ReadRootLemma ==
  ASSUME SettingsInv, ReadRoot, ~short, ~long, ~timer,
         UNCHANGED <<httpVars, driver, damage, missed>>,
         files' \in [Files -> FileStates],
         \A f \in Files : files'[f].of.AllowHttp => files'[f].of.lasting,
         due' \in Nat, restored' \in BOOLEAN, lost' \in BOOLEAN
  PROVE  /\ Typed' /\ Steps' /\ Merging' /\ Sending' /\ Http'
         /\ \/ pc' = "merge" /\ task'.name = "start"
               /\ Root.kind \in {"whole", "inside"} /\ config' = Root.of
            \/ pc' = "write" /\ task'.name = "wizard"
<1> USE DEF SettingsInv
<1>1. CASE Root.kind \in {"whole", "inside"}
  <2>1. Start(config') /\ config' = Root.of
    BY <1>1 DEF ReadRoot, Start
  <2>2. \E f \in Files : Root = files[f]
    BY DEF Root, Files
  <2>3. config' \in Configs /\ (config'.AllowHttp => config'.lasting)
    BY <2>1, <2>2, FileFacts DEF Http
  <2>4. /\ Typed' /\ Steps' /\ Merging' /\ Sending'
        /\ pc' = "merge" /\ task'.name = "start"
    BY <2>1, <2>3, StartLemma DEF Typed
  <2>5. Http'
    BY <2>3, <2>4 DEF Http, TempAllow, httpVars
  <2> QED
    BY <1>1, <2>1, <2>4, <2>5
<1>2. CASE Root.kind \notin {"whole", "inside"}
  <2>1. Wizard
    BY <1>2 DEF ReadRoot
  <2> QED
    BY <2>1, WizardLemma
<1> QED
  BY <1>1, <1>2

LEMMA MoveAndRestoreLemma ==
  ASSUME SettingsInv, MoveAndRestore
  PROVE  SettingsInv'
<1> USE DEF SettingsInv
<1>0. /\ task.name = "restore" /\ MoveFile /\ ReadRoot
      /\ UNCHANGED <<httpVars, driver, damage, missed>>
  BY DEF MoveAndRestore
<1>1. /\ files' \in [Files -> FileStates]
      /\ \A f \in Files : files'[f].of.AllowHttp => files'[f].of.lasting
      /\ files'["conf"].kind = "whole"
      /\ due' = due /\ lost' = lost /\ restored'
      /\ due' \in Nat /\ restored' \in BOOLEAN /\ lost' \in BOOLEAN
      /\ ~short /\ ~long /\ ~timer /\ pc = "move"
  BY <1>0, MoveFacts DEF Http, Target, Files
<1>2. /\ Typed' /\ Steps' /\ Merging' /\ Sending' /\ Http'
      /\ \/ pc' = "merge" /\ task'.name = "start"
            /\ Root.kind \in {"whole", "inside"} /\ config' = Root.of
         \/ pc' = "write" /\ task'.name = "wizard"
  BY <1>0, <1>1, ReadRootLemma
<1>3. ~lost => Root = files["bak"] /\ files["bak"].kind \in {"whole", "rootless"}
               /\ files["conf"].kind # "whole"
  BY <1>0, <1>1 DEF Kept, Root, Parsed
<1>4. ~lost /\ Root.kind \in {"whole", "inside"} => Root.of.choices >= due
  BY <1>3 DEF Kept
<1>5. Kept'
  BY <1>1, <1>2, <1>4 DEF Kept
<1> QED
  BY <1>2, <1>5

LEMMA LaunchLemma ==
  ASSUME SettingsInv, Launch
  PROVE  SettingsInv'
<1> USE DEF SettingsInv
<1>0. /\ pc = "off" /\ ~restored /\ ~short /\ ~long /\ ~timer /\ ~config.AllowHttp
      /\ lost' = (lost \/ files["conf"].kind \notin {"whole", "missing"})
      /\ UNCHANGED <<files, httpVars, driver, damage, missed, due, restored>>
  BY DefaultsFacts DEF Launch, Steps
<1>1. /\ files' \in [Files -> FileStates]
      /\ \A f \in Files : files'[f].of.AllowHttp => files'[f].of.lasting
      /\ due' \in Nat /\ restored' \in BOOLEAN /\ lost' \in BOOLEAN
  BY <1>0 DEF Typed, Http
<1>2. /\ ~lost' => ~lost /\ files["conf"].kind \in {"whole", "missing"}
      /\ Parsed("conf") /\ ~lost' => files["conf"].kind = "whole" /\ Root = files["conf"]
  BY <1>0 DEF Parsed, Root
<1>3. CASE Chosen = "conf" /\ ReadRoot
  <2>1. /\ Typed' /\ Steps' /\ Merging' /\ Sending' /\ Http'
        /\ \/ pc' = "merge" /\ task'.name = "start"
              /\ Root.kind \in {"whole", "inside"} /\ config' = Root.of
           \/ pc' = "write" /\ task'.name = "wizard"
    BY <1>0, <1>1, <1>3, ReadRootLemma
  <2>2. Parsed("conf")
    BY <1>3, ValuesAssumption DEF Chosen, Files
  <2>3. Kept'
    BY <2>1, <2>2, <1>0, <1>2 DEF Kept
  <2> QED
    BY <2>1, <2>3
<1>4. CASE Chosen = "bak" /\ BeginSave("restore") /\ UNCHANGED config
  <2>1. /\ pc' = "write" /\ task' = Task("restore")
        /\ UNCHANGED <<files, config, httpVars, driver, portVars, damage, missed, due, restored>>
    BY <1>0, <1>4 DEF BeginSave
  <2>2. /\ task'.name = "restore" /\ task'.then = None
        /\ task' \in [name : TaskNames \cup {None}, time : {0, 15, 60}, block : BOOLEAN,
                      then : {None, "save", "quit"}]
    BY <2>1, TaskFacts DEF TaskNames
  <2>3. Typed'
    BY <2>1, <2>2, <1>1 DEF Typed, httpVars, portVars
  <2>4. Steps' /\ Merging' /\ Sending'
    BY <2>1, <2>2 DEF Steps, Merging, Sending
  <2>5. Http'
    BY <2>1, <2>2, <1>0 DEF Http, httpVars
  <2>6. ~Parsed("conf") /\ Parsed("bak") /\ (~lost' => files["conf"].kind = "missing")
    BY <1>2, <1>4, ValuesAssumption DEF Chosen, Files, Parsed
  <2>7. Kept'
    BY <2>1, <2>2, <2>6, <1>2 DEF Kept, Parsed
  <2> QED
    BY <2>3, <2>4, <2>5, <2>7
<1>5. CASE Chosen = None /\ Wizard
  <2>1. /\ Typed' /\ Steps' /\ Merging' /\ Sending' /\ Http'
        /\ pc' = "write" /\ task'.name = "wizard"
    BY <1>0, <1>1, <1>5, WizardLemma
  <2>2. Kept'
    BY <2>1, <1>0, <1>2 DEF Kept
  <2> QED
    BY <2>1, <2>2
<1> QED
  BY <1>3, <1>4, <1>5 DEF Launch

LEMMA CrashLemma ==
  ASSUME SettingsInv, Crash
  PROVE  SettingsInv'
<1> USE DEF SettingsInv
<1>0. pc # "off" /\ Off /\ lost' = (lost \/ restored) /\ UNCHANGED <<files, damage, due>>
  BY DEF Crash
<1>1. Typed' /\ Steps' /\ Merging' /\ Sending' /\ pc' = "off" /\ ~restored'
  BY <1>0, OffLemma DEF Typed
<1>2. Http' /\ Kept'
  BY <1>0, <1>1 DEF Http, Kept, Parsed
<1> QED
  BY <1>1, <1>2

\* What is left of a file has no HTTP that the user has not allowed for good.
LEMMA CutFacts ==
  ASSUME NEW file \in FileStates, file.of.AllowHttp => file.of.lasting,
         NEW left \in Damaged(file)
  PROVE  /\ left \in FileStates /\ left.kind # "whole"
         /\ left.of.AllowHttp => left.of.lasting
<1>1. file.of \in Configs
  BY DEF FileStates
<1>2. ASSUME NEW c \in Cuts(file.of)
      PROVE  c \in Configs /\ (c.AllowHttp => c.lasting)
  <2>1. CASE c \in {Defaults, file.of}
    BY <2>1, <1>1, DefaultsFacts
  <2>2. CASE \E ps \in SUBSET file.of.profiles : c = [file.of EXCEPT !.profiles = ps, !.choices = 0]
    <3>1. PICK ps \in SUBSET file.of.profiles :
            c = [file.of EXCEPT !.profiles = ps, !.choices = 0]
      BY <2>2
    <3>2. ps \in SUBSET Profiles /\ 0 \in 0..MaxChoices
      BY <1>1, ConfigFacts, SettingsAssumption
    <3>3. c \in Configs /\ c.AllowHttp = file.of.AllowHttp /\ c.lasting = file.of.lasting
      BY <1>1, <3>1, <3>2 DEF Configs
    <3> QED
      BY <3>3
  <2> QED
    BY <1>2, <2>1, <2>2 DEF Cuts
<1>3. CASE \E kind \in {"missing", "rootless", "misnamed"} : left = File(kind, Defaults)
  BY <1>3, DefaultsFacts DEF File, FileStates
<1>4. CASE \E c \in Cuts(file.of) : left = File("inside", c)
  <2>1. PICK c \in Cuts(file.of) : left = File("inside", c)
    BY <1>4
  <2>2. left.kind = "inside" /\ left.of = c
    BY <2>1 DEF File
  <2>3. left \in FileStates
    BY <2>1, <1>2 DEF File, FileStates
  <2> QED
    BY <2>2, <2>3, <1>2
<1> QED
  BY <1>3, <1>4 DEF Damaged

LEMMA DamageLemma ==
  ASSUME SettingsInv, NEW f \in Files, Damage(f)
  PROVE  SettingsInv'
<1> USE DEF SettingsInv
<1>0. /\ pc = "off" /\ ~restored /\ damage' = damage + 1 /\ damage \in Nat /\ due \in Nat
      /\ due' = Owed(files')
      /\ UNCHANGED <<config, httpVars, driver, pc, task, portVars, missed, restored, lost>>
  BY DEF Damage, Steps, Typed
<1>1. PICK left \in Damaged(files[f]) : files' = [files EXCEPT ![f] = left]
  BY DEF Damage
<1>2. /\ left \in FileStates /\ left.kind # "whole"
      /\ left.of.AllowHttp => left.of.lasting
  BY CutFacts, FileFacts DEF Http
<1>3. /\ files' \in [Files -> FileStates]
      /\ \A g \in Files : files'[g] = IF g = f THEN left ELSE files[g]
  BY <1>1, <1>2 DEF Typed
<1>4. \A g \in Files : files'[g].kind = "whole" => files'[g] = files[g]
  BY <1>2, <1>3
<1>5. files'["bak"].of.choices \in Nat
  <2>1. files'["bak"].of \in Configs
    BY <1>3 DEF FileStates, Files
  <2> QED
    BY <2>1, ConfigFacts
<1>6. /\ due' \in Nat
      /\ files'["conf"].kind = "whole" => due' = due
      /\ files'["conf"].kind # "whole" /\ files'["bak"].kind # "whole" => due' = 0
      /\ files'["conf"].kind # "whole" /\ files'["bak"].kind = "whole" =>
           files'["bak"].of.choices >= due'
  BY <1>0, <1>5 DEF Owed
<1>7. Typed'
  BY <1>0, <1>3, <1>6 DEF Typed, httpVars, portVars
<1>8. Steps' /\ Merging' /\ Sending'
  BY <1>0 DEF Steps, Merging, Sending, Agrees, Exempt, InProfile, httpVars
<1>9. Http'
  BY <1>0, <1>2, <1>3 DEF Http, TempAllow, httpVars
<1>10. Kept'
  BY <1>0, <1>4, <1>6 DEF Kept, Files
<1> QED
  BY <1>7, <1>8, <1>9, <1>10

-----------------------------------------------------------------------------
(* The theorems.                                                           *)

LEMMA InitLemma ==
  ASSUME Init
  PROVE  SettingsInv
<1>1. PICK c \in Configs, kind \in {"whole", "missing"} :
        /\ files = [f \in Files |-> File(kind, c)]
        /\ kind = "missing" => due = 0
        /\ kind = "whole" => c.choices = 1 /\ due = 1
        /\ c.AllowHttp => c.lasting
  <2>1. CASE files = [f \in Files |-> File("missing", Defaults)] /\ due = 0
    BY <2>1, DefaultsFacts
  <2>2. CASE \E c \in Configs : /\ c.choices = 1 /\ c.lasting = c.AllowHttp
                               /\ files = [f \in Files |-> File("whole", c)] /\ due = 1
    BY <2>2, ConfigFacts
  <2> QED
    BY <2>1, <2>2 DEF Init
<1>2. Typed
  <2>1. task \in [name : TaskNames \cup {None}, time : {0, 15, 60}, block : BOOLEAN,
                  then : {None, "save", "quit"}]
    BY TaskFacts DEF Init
  <2>2. due \in Nat
    BY <1>1
  <2>3. files \in [Files -> FileStates]
    BY <1>1 DEF File, FileStates
  <2> QED
    BY <2>1, <2>2, <2>3, DefaultsFacts DEF Init, Typed
<1>3. Steps /\ Merging /\ Sending
  BY DEF Init, Steps, Merging, Sending
<1>4. /\ files["conf"].kind = kind /\ files["bak"].kind = kind
      /\ \A f \in Files : files[f].of = c
  BY <1>1 DEF Files, File
<1>5. Http
  BY <1>1, <1>4 DEF Init, Http
<1>6. Kept
  BY <1>1, <1>4 DEF Init, Kept, Files
<1> QED
  BY <1>2, <1>3, <1>5, <1>6 DEF SettingsInv

LEMMA NextLemma ==
  ASSUME SettingsInv, [Next]_vars
  PROVE  SettingsInv'
<1>1. CASE Step
  BY <1>1, MergeRangeLemma, MergePortLemma, SendLemma, SetTimerLemma, WriteLemma,
     MoveAndReturnLemma, MoveAndQuitLemma, MoveAndStartLemma, MoveAndRestoreLemma
  DEF Step, Merge, SaveStep
<1>2. CASE User
  BY <1>2, HttpCommandsLemma, ProfilesLemma, ChooseLemma, SaveLemma DEF User
<1>3. CASE TimerFires \/ Launch \/ Crash \/ \E f \in Files : Damage(f)
  BY <1>3, HttpCommandsLemma, LaunchLemma, CrashLemma, DamageLemma
<1>4. CASE UNCHANGED vars
  BY <1>4 DEF vars, SettingsInv, Typed, Steps, Http, TempAllow, Merging, Endless, Missing,
     Sending, Agrees, Exempt, InProfile, Kept, Parsed, httpVars, portVars, savedVars
<1> QED
  BY <1>1, <1>2, <1>3, <1>4 DEF Next

\* The inductive invariant, for any port numbers, profiles and bounds.
THEOREM SettingsInvariant == Spec => []SettingsInv
<1>1. Init => SettingsInv
  BY InitLemma
<1>2. SettingsInv /\ [Next]_vars => SettingsInv'
  BY NextLemma
<1> QED
  BY <1>1, <1>2, PTL DEF Spec

\* Every variable has its type (the locals of Merge and SetBlockHttp, the files).
THEOREM SettingsTyping == Spec => []Typed
BY SettingsInvariant, PTL DEF SettingsInv

\* A temporary allow of HTTP has its timer and is in no file, whatever the user, the
\* timer and a crash do in whatever order (mainproc.cpp:172, configuration.cpp:885).
THEOREM TempAllowEnds == Spec => []TempAllowIsTimed
<1>1. SettingsInv => TempAllowIsTimed
  <2> SUFFICES ASSUME SettingsInv PROVE TempAllowIsTimed
    OBVIOUS
  <2>1. pc = "idle" => TempAllow
    BY DEF SettingsInv, Http
  <2>2. \A f \in Files : files[f].of.AllowHttp => files[f].of.lasting
    BY DEF SettingsInv, Http
  <2> QED
    BY <2>1, <2>2 DEF TempAllow, TempAllowIsTimed
<1> QED
  BY <1>1, SettingsInvariant, PTL

\* The ports that PortSet::Merge leaves, and so those of the driver, are the ports of
\* the enabled profiles and of HTTP, for any profiles.
THEOREM DriverHasTheSettings == Spec => []DriverAgrees
<1>1. SettingsInv => DriverAgrees
  BY DEF SettingsInv, Sending, Agrees, DriverAgrees
<1> QED
  BY <1>1, SettingsInvariant, PTL

\* A start finds the settings that were saved last, or those of the backup when
\* peerblock.conf is gone, for any number of choices, crashes and damaged files, but for
\* the two cases that lost stands for.
THEOREM SavedSettingsKept == Spec => []SettingsKept
<1>1. SettingsInv => SettingsKept
  <2> SUFFICES ASSUME SettingsInv, pc = "idle", ~lost
               PROVE  config.choices >= due
    BY DEF SettingsKept
  <2>1. task.name \notin {"restore", "wizard"}
    BY ValuesAssumption DEF SettingsInv, Steps, TaskNames
  <2> QED
    BY <2>1 DEF SettingsInv, Kept
<1> QED
  BY <1>1, SettingsInvariant, PTL

\* How far the loop over the ports of a range has still to go.
Rank == IF port = None THEN MaxPort + 2 ELSE (port.of.end + 1) - port.at

\* What MergeEnds needs besides fairness: each turn of the two loops of Merge leaves fewer
\* ranges, or as many and fewer ports of the current one, if no enabled range ends at the
\* last port.  TLC checks MergeEnds itself.
THEOREM MergeDescends ==
  Spec => [][Merge /\ ~EndsAtLastPort =>
               /\ Rank \in Nat /\ Rank' \in Nat
               /\ (todo' = todo /\ Rank' < Rank) \/ (todo' # todo /\ todo' \subseteq todo)]_vars
<1> DEFINE Descends == /\ Rank \in Nat /\ Rank' \in Nat
                       /\ (todo' = todo /\ Rank' < Rank) \/ (todo' # todo /\ todo' \subseteq todo)
<1>0. MaxPort \in Nat
  BY SettingsAssumption
<1>1. ASSUME SettingsInv, NEW r \in todo, MergeRange(r)
      PROVE  Descends
  <2>1. r \in Ranges /\ port = None /\ r.start \in Ports /\ r.end \in Ports
    BY <1>1, RangeFacts DEF SettingsInv, Typed, MergeRange
  <2>2. /\ Rank = MaxPort + 2
        /\ r.start \in Nat /\ r.end \in Nat /\ r.start <= MaxPort /\ r.end <= MaxPort
    BY <2>1, <1>0 DEF Rank, Ports
  <2>3. CASE r.start <= r.end
    <3>1. port' = [at |-> r.start, of |-> r] /\ todo' = todo
      BY <1>1, <2>3 DEF MergeRange
    <3>2. Rank' = (r.end + 1) - r.start
      BY <2>1, <3>1, ValuesAssumption DEF Rank
    <3> QED
      BY <2>2, <2>3, <3>1, <3>2, <1>0
  <2>4. CASE ~(r.start <= r.end)
    <3>1. todo' = todo \ {r} /\ port' = None
      BY <1>1, <2>1, <2>4 DEF MergeRange
    <3>2. Rank' = MaxPort + 2
      BY <3>1 DEF Rank
    <3> QED
      BY <2>2, <3>1, <3>2, <1>0, <1>1
  <2> QED
    BY <2>3, <2>4
<1>2. ASSUME SettingsInv, MergePort, ~Endless
      PROVE  Descends
  <2> DEFINE r == port.of
             at == port.at
  <2>1. /\ port # None /\ port \in [at : Ports, of : Ranges] /\ r \in todo
        /\ r.start <= at /\ at <= r.end + 1
    BY <1>2 DEF SettingsInv, Typed, Merging, MergePort
  <2>2. r.start \in Ports /\ r.end \in Ports /\ at \in Ports
    BY <2>1, RangeFacts
  <2>3. /\ at \in Nat /\ r.end \in Nat /\ r.end < MaxPort
        /\ Rank = (r.end + 1) - at
    BY <1>0, <1>2, <2>1, <2>2 DEF Ports, Endless, Rank
  <2>4. CASE Passed(at, r)
    <3>1. port' = None /\ todo' = todo \ {r}
      BY <1>2, <2>4 DEF MergePort
    <3>2. Rank' = MaxPort + 2
      BY <3>1 DEF Rank
    <3> QED
      BY <2>1, <2>3, <3>1, <3>2, <1>0
  <2>5. CASE ~Passed(at, r)
    <3>1. at <= r.end
      BY <2>3, <2>5 DEF Passed
    <3>2. NextPort(at) = at + 1 /\ NextPort(at) \in Ports
      BY <2>2, <2>3, <3>1, <1>0, PortFacts
    <3>3. port' = [port EXCEPT !.at = at + 1] /\ todo' = todo
      BY <1>2, <2>5, <3>2 DEF MergePort
    <3>4. port' # None /\ port'.of = r /\ port'.at = at + 1
      BY <2>1, <3>2, <3>3, ValuesAssumption
    <3>5. Rank' = (r.end + 1) - (at + 1)
      BY <3>4 DEF Rank
    <3> QED
      BY <2>3, <3>1, <3>3, <3>5
  <2> QED
    BY <2>4, <2>5
<1>3. SettingsInv /\ Merge /\ ~EndsAtLastPort => ~Endless
  BY DEF SettingsInv, Merging, Endless, EndsAtLastPort, Merge, MergeRange, MergePort
<1>4. SettingsInv /\ [Next]_vars => [Merge /\ ~EndsAtLastPort => Descends]_vars
  BY <1>1, <1>2, <1>3 DEF Merge
<1> QED
  BY <1>4, SettingsInvariant, PTL DEF Spec

=============================================================================
