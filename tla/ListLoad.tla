------------------------------ MODULE ListLoad ------------------------------
(***************************************************************************)
(* How the lists get from their files into the driver: LoadLists with the  *)
(* list cache and its checksum, temporary allow rules, the update window   *)
(* with its thread, and the start of the program.                          *)
(*                                                                         *)
(* LoadLists runs in the UI thread, for one command at a time, and the     *)
(* process may be killed between any two steps of it.  The update thread   *)
(* changes files and the allow list of the driver meanwhile, and may go on *)
(* after its window was closed (its handle is closed, it is not awaited).  *)
(*                                                                         *)
(* A list is a set of addresses; the ranges are the subject of RangeLists. *)
(* The files can be read, and a request to the driver succeeds (that it    *)
(* may not is in FilterClient).  A second update does not begin before the *)
(* thread of the first one has ended.                                      *)
(***************************************************************************)
EXTENDS Naturals, FiniteSets

CONSTANTS
  V4, V6,      \* IPv4 and IPv6 addresses
  BlockLists,  \* the lists of either type
  AllowLists,
  DynamicLists, \* those that are downloaded
  Contents,    \* per list what may be in its file
  Choices,     \* the sets of lists that may be enabled
  Hosts,       \* the addresses of the download servers
  Limits,      \* for how long an address may be allowed, as the menu says
  MaxTime,     \* bound on the changes of a file
  None         \* no file

Keys == V4 \cup V6
Lists == BlockLists \cup AllowLists

ASSUME ListLoadAssumption ==
  /\ V4 \cap V6 = {} /\ BlockLists \cap AllowLists = {}
  /\ Hosts \subseteq V4 /\ DynamicLists \subseteq Lists
  /\ Choices \subseteq SUBSET Lists
  /\ Contents \in [Lists -> SUBSET SUBSET Keys]
  /\ MaxTime \in Nat \ {0}

VARIABLES
  files,     \* per list its addresses and the time of the file, 0 if there is none
  enabled,   \* the enabled lists
  crc,       \* g_config.CacheCrc
  disk,      \* enabled and crc in the configuration file
  cache,     \* cache.p2b: None, or its addresses and whether it can be read
  tempallow, \* g_tempallow
  grants,    \* g_allowlist: addresses and limits
  driver,    \* its allow and block lists
  pc,        \* the step of the UI thread, "off" when there is no process
  after,     \* what follows LoadLists
  parent,    \* LoadLists has a window
  work,      \* the block list that LoadLists builds
  upc,       \* the step of the update thread
  aborted, changed, \* UpdateThread
  \* histories:
  rebuilt,   \* the cache was rebuilt and the configuration not saved since
  stale,     \* the cache is not that of the checksum: see DriverHasLists
  unread,    \* the update thread has changed a file after its window was closed
  replaced,  \* the allow list of the driver was replaced by other addresses
  cut        \* addresses of which a rule ran out while another one was in force

confVars == <<enabled, crc>>
grantVars == <<tempallow, grants, cut>>
loadVars == <<pc, after, parent, work>>
updateVars == <<upc, aborted, changed>>
vars == <<files, confVars, disk, cache, grantVars, driver, loadVars, updateVars, rebuilt,
          stale, unread, replaced>>

NoFile == [keys |-> {}, time |-> 0]

Init ==
  /\ files \in [Lists -> {NoFile} \cup [keys : SUBSET Keys, time : {1}]]
  /\ \A l \in Lists : files[l] # NoFile => files[l].keys \in Contents[l]
  /\ disk \in [enabled : Choices, crc : {{}}]
  /\ enabled = {} /\ crc = {}
  /\ cache = None
  /\ tempallow = {} /\ grants = {} /\ cut = {}
  /\ driver = [allow |-> {}, block |-> {}]
  /\ pc = "off" /\ after = "idle" /\ parent = FALSE /\ work = {}
  /\ upc = "ended" /\ aborted = FALSE /\ changed = FALSE
  /\ rebuilt = FALSE /\ stale = FALSE /\ unread = FALSE /\ replaced = FALSE

-----------------------------------------------------------------------------
(* LoadLists.                                                              *)

Read(ls) == UNION {files[l].keys : l \in ls \cap enabled}

LoadLists(window, next) ==
  /\ pc' = "crc" /\ parent' = window /\ after' = next
  /\ UNCHANGED work

\* Mutant: the checksum is that of the names of the lists.
NamesOnly == {[list |-> l, time |-> 0] : l \in enabled}
\* Names, types and times of the files that are there, taken for their checksum.
Checksum == {[list |-> l, time |-> files[l].time] : l \in {m \in enabled : files[m].time > 0}}

\* IsCacheValid: the new checksum is taken over before there is a new cache.
CacheIsValid ==
  /\ pc = "crc"
  /\ Checksum = crc /\ cache # None
  /\ pc' = "read"
  /\ unread' = FALSE
  /\ UNCHANGED <<files, confVars, disk, cache, grantVars, driver, after, parent, work,
                 updateVars, rebuilt, stale, replaced>>

CacheIsInvalid ==
  /\ pc = "crc"
  /\ ~(Checksum = crc /\ cache # None)
  /\ crc' = Checksum
  /\ pc' = "generate"
  /\ unread' = FALSE
  /\ UNCHANGED <<files, enabled, disk, cache, grantVars, driver, after, parent, work,
                 updateVars, rebuilt, stale, replaced>>

\* A cache that cannot be read is removed, and the block list is empty.
ReadCache ==
  /\ pc = "read"
  /\ pc' = "allow"
  /\ IF cache.readable THEN work' = cache.keys /\ UNCHANGED cache
                       ELSE work' = {} /\ cache' = None
  /\ UNCHANGED <<files, confVars, disk, grantVars, driver, after, parent, updateVars,
                 rebuilt, stale, unread, replaced>>

\* GenCacheFuncs reads the files and cuts the allow lists out.
Generate ==
  /\ pc = "generate"
  /\ pc' = "save"
  /\ work' = Read(BlockLists) \ (Read(AllowLists) \cap V4)
  /\ UNCHANGED <<files, confVars, disk, cache, grantVars, driver, after, parent, updateVars,
                 rebuilt, stale, unread, replaced>>

SaveCache ==
  /\ pc = "save"
  /\ pc' = "allow"
  /\ cache' = [keys |-> work, readable |-> TRUE]
  /\ rebuilt' = TRUE /\ stale' = unread
  /\ UNCHANGED <<files, confVars, disk, grantVars, driver, after, parent, work, updateVars,
                 unread, replaced>>

\* It cannot be opened or is not written to its end.  The thread of the loading window
\* reports that; without a window nobody catches the exception.
SaveCacheFails ==
  /\ pc = "save" /\ parent
  /\ pc' = "allow"
  /\ \/ UNCHANGED cache
     \/ cache' = [keys |-> {}, readable |-> FALSE]
  /\ stale' = TRUE
  /\ UNCHANGED <<files, confVars, disk, grantVars, driver, after, parent, work, updateVars,
                 rebuilt, unread, replaced>>

\* Mutant: temporary rules are not among the addresses that are cut out.
PermanentOnly == Read(AllowLists)
Allowed == Read(AllowLists) \cup tempallow

\* An empty allow list is not sent.
SendAllow ==
  /\ pc = "allow"
  /\ pc' = "block"
  /\ work' = work \ (Allowed \cap V4)
  /\ IF Allowed # {} THEN driver' = [driver EXCEPT !.allow = Allowed] /\ replaced' = FALSE
                     ELSE UNCHANGED <<driver, replaced>>
  /\ UNCHANGED <<files, confVars, disk, cache, grantVars, after, parent, updateVars,
                 rebuilt, stale, unread>>

SendBlock ==
  /\ pc = "block"
  /\ driver' = [driver EXCEPT !.block = work]
  /\ pc' = after
  /\ work' = {} /\ parent' = FALSE /\ after' = "idle"
  /\ UNCHANGED <<files, confVars, disk, cache, grantVars, updateVars, rebuilt, stale,
                 unread, replaced>>

Load ==
  \/ CacheIsValid \/ CacheIsInvalid \/ ReadCache
  \/ Generate \/ SaveCache \/ SaveCacheFails
  \/ SendAllow \/ SendBlock

-----------------------------------------------------------------------------
(* The commands of the UI thread that lead to LoadLists.                   *)

\* The list manager: the lists are loaded, and the configuration is not saved.
EditLists(ls) ==
  /\ pc = "idle"
  /\ enabled' = ls
  /\ LoadLists(TRUE, "idle")
  /\ UNCHANGED <<files, crc, disk, cache, grantVars, driver, updateVars, rebuilt, stale,
                 unread, replaced>>

\* "Allow for 15 minutes" and "for one hour" of the log.
TempAllow(k, limit) ==
  /\ pc = "idle"
  /\ tempallow' = tempallow \cup {k}
  /\ grants' = grants \cup {[key |-> k, limit |-> limit]}
  /\ cut' = cut \ {k}
  /\ LoadLists(TRUE, "idle")
  /\ UNCHANGED <<files, confVars, disk, cache, driver, updateVars, rebuilt, stale, unread,
                 replaced>>

\* The timer of the log takes the address away though another rule for it is in force.
Expire(g) ==
  /\ pc \in {"idle", "modal"}
  /\ grants' = grants \ {g}
  /\ tempallow' = tempallow \ {g.key}
  /\ cut' = IF \E h \in grants' : h.key = g.key THEN cut \cup {g.key} ELSE cut \ {g.key}
  /\ LoadLists(FALSE, pc)
  /\ UNCHANGED <<files, confVars, disk, cache, driver, updateVars, rebuilt, stale, unread,
                 replaced>>

\* Configuration::Save.
Save ==
  /\ disk' = [enabled |-> enabled, crc |-> crc]
  /\ rebuilt' = FALSE

SaveSettings ==
  /\ pc = "idle"
  /\ Save
  /\ UNCHANGED <<files, confVars, cache, grantVars, driver, loadVars, updateVars, stale,
                 unread, replaced>>

\* CheckForUpdates.
OpenUpdate ==
  /\ pc = "idle" /\ upc = "ended"
  /\ pc' = "modal"
  /\ upc' = "head" /\ aborted' = FALSE /\ changed' = FALSE
  /\ UNCHANGED <<files, confVars, disk, cache, grantVars, driver, after, parent, work,
                 rebuilt, stale, unread, replaced>>

Abort ==
  /\ pc = "modal"
  /\ aborted' = TRUE
  /\ UNCHANGED <<files, confVars, disk, cache, grantVars, driver, loadVars, upc, changed,
                 rebuilt, stale, unread, replaced>>

\* The window loads the lists as it is destroyed, if a file was changed so far.
CloseUpdate ==
  /\ pc = "modal"
  /\ aborted' = TRUE
  /\ IF changed THEN LoadLists(TRUE, "saveconf")
                ELSE pc' = "saveconf" /\ UNCHANGED <<after, parent, work>>
  /\ UNCHANGED <<files, confVars, disk, cache, grantVars, driver, upc, changed, rebuilt,
                 stale, unread, replaced>>

\* CheckForUpdates goes on: it saves, and loads the lists in any case.
AfterUpdate ==
  /\ pc = "saveconf"
  /\ Save
  /\ LoadLists(TRUE, "idle")
  /\ UNCHANGED <<files, confVars, cache, grantVars, driver, updateVars, stale, unread,
                 replaced>>

-----------------------------------------------------------------------------
(* The update thread.                                                      *)

NextList ==
  /\ upc = "head"
  /\ upc' \in {"ended"} \cup (IF aborted THEN {} ELSE {"connect"})
  /\ UNCHANGED <<files, confVars, disk, cache, grantVars, driver, loadVars, aborted, changed,
                 rebuilt, stale, unread, replaced>>

\* preconnect_func: a server that was not contacted before.
Connect ==
  /\ upc = "connect"
  /\ upc' = "transfer"
  /\ driver' = [driver EXCEPT !.allow = Hosts] /\ replaced' = TRUE
  /\ UNCHANGED <<files, confVars, disk, cache, grantVars, loadVars, aborted, changed, rebuilt,
                 stale, unread>>

\* Any other server, or none.
NoConnect ==
  /\ upc = "connect"
  /\ upc' \in {"transfer", "head"}
  /\ UNCHANGED <<files, confVars, disk, cache, grantVars, driver, loadVars, aborted, changed,
                 rebuilt, stale, unread, replaced>>

NewFile(l, ks) == files' = [files EXCEPT ![l] = [keys |-> ks, time |-> @.time + 1]]

\* A new list is taken if it has IPv4 ranges.
Download(l, ks) ==
  /\ upc = "transfer"
  /\ upc' = "head"
  /\ ks \cap V4 # {}
  /\ files[l].time < MaxTime
  /\ NewFile(l, ks)
  /\ changed' = TRUE
  /\ unread' = (unread \/ pc # "modal")
  /\ UNCHANGED <<confVars, disk, cache, grantVars, driver, loadVars, aborted, rebuilt, stale,
                 replaced>>

DownloadFails ==
  /\ upc = "transfer"
  /\ upc' = "head"
  /\ UNCHANGED <<files, confVars, disk, cache, grantVars, driver, loadVars, aborted, changed,
                 rebuilt, stale, unread, replaced>>

Update ==
  \/ NextList \/ Connect \/ NoConnect \/ DownloadFails
  \/ \E l \in DynamicLists : \E ks \in Contents[l] : Download(l, ks)

-----------------------------------------------------------------------------
(* The life of the process.                                                *)

Launch ==
  /\ pc = "off"
  /\ enabled' = disk.enabled /\ crc' = disk.crc
  /\ LoadLists(TRUE, "startup")
  /\ UNCHANGED <<files, disk, cache, grantVars, driver, updateVars, rebuilt, stale, unread,
                 replaced>>

\* Main_OnInitDialog ends with an allow list of 0.0.0.0 only.
EndStartup ==
  /\ pc = "startup"
  /\ driver' = [driver EXCEPT !.allow = {}] /\ replaced' = TRUE
  /\ pc' = "idle"
  /\ UNCHANGED <<files, confVars, disk, cache, grantVars, after, parent, work, updateVars,
                 rebuilt, stale, unread>>

\* The handle of the driver is closed with the process, and its lists are cleared.
Off ==
  /\ pc' = "off" /\ after' = "idle" /\ parent' = FALSE /\ work' = {}
  /\ enabled' = {} /\ crc' = {}
  /\ tempallow' = {} /\ grants' = {} /\ cut' = {}
  /\ driver' = [allow |-> {}, block |-> {}]
  /\ upc' = "ended" /\ aborted' = FALSE /\ changed' = FALSE
  /\ unread' = FALSE /\ replaced' = FALSE

Quit ==
  /\ pc = "idle"
  /\ Save
  /\ Off
  /\ UNCHANGED <<files, cache, stale>>

\* The process is killed, perhaps in the middle of writing the cache.
Crash ==
  /\ pc # "off"
  /\ cache' \in {cache} \cup (IF pc = "save" THEN {[keys |-> {}, readable |-> FALSE]} ELSE {})
  /\ stale' = (stale \/ rebuilt \/ cache' # cache)
  /\ rebuilt' = FALSE
  /\ Off
  /\ UNCHANGED <<files, disk>>

\* The loading window answers the timer of the log, and LoadLists locks cacheLock a
\* second time in one thread: the mutex throws in a destructor, and the process ends.
RelockEnds ==
  /\ pc \in {"generate", "save"} /\ parent /\ grants # {}
  /\ stale' = (stale \/ rebuilt)
  /\ rebuilt' = FALSE
  /\ Off
  /\ UNCHANGED <<files, disk, cache>>

\* The user puts another file in place of a list that is not downloaded.
EditFile(l, ks) ==
  /\ pc = "off"
  /\ files[l].time < MaxTime
  /\ NewFile(l, ks)
  /\ UNCHANGED <<confVars, disk, cache, grantVars, driver, loadVars, updateVars, rebuilt,
                 stale, unread, replaced>>

Next ==
  \/ Load
  \/ \E ls \in Choices : EditLists(ls)
  \/ \E k \in V4, limit \in Limits : TempAllow(k, limit)
  \/ \E g \in grants : Expire(g)
  \/ SaveSettings
  \/ OpenUpdate \/ Abort \/ CloseUpdate \/ AfterUpdate
  \/ Update
  \/ Launch \/ EndStartup \/ Quit \/ Crash \/ RelockEnds
  \/ \E l \in Lists \ DynamicLists : \E ks \in Contents[l] : EditFile(l, ks)

Spec == Init /\ [][Next]_vars

-----------------------------------------------------------------------------
(* Properties.                                                             *)

\* What is to be allowed: the lists, and the rules in force, but see GrantHolds.
Due == Read(AllowLists) \cup ({g.key : g \in grants} \ cut)

\* Between two commands the driver blocks what the enabled lists say, as the files are
\* now, without what is allowed, and allows what they and the temporary rules say.
\* The exceptions are what this code does not guarantee.  The checksum may be that of
\* another cache (lists.cpp:499): the cache could not be written, a file changed
\* meanwhile, or the process ended after it was rebuilt and before the configuration was
\* saved.  The update thread may go on after its window was closed (updatelists.cpp:1037).
\* And the allow list in the driver is an old one if the new one is empty
\* (lists.cpp:620), and not that of the user after the start (mainproc.cpp:648) or a
\* connection of the update thread (updatelists.cpp:131).
DriverHasLists ==
  pc = "idle" =>
    /\ ~stale /\ ~unread => driver.block = Read(BlockLists) \ (Due \cap V4)
    /\ ~replaced /\ ~unread => Due = {} \/ driver.allow = Due

\* An address that the user has allowed for a while is not blocked before the time is
\* over, whatever happens to the cache and to the allow list of the driver, unless
\* another rule for the address has run out (logproc.cpp:1121).
GrantHolds ==
  pc = "idle" => \A g \in grants : g.key \in cut \/ g.key \notin driver.block \ driver.allow

=============================================================================
