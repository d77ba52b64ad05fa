# PeerBlock, modelled in TLA+

PeerBlock blocks network connections whose remote address is on a list. A kernel
driver (`src/pbfilter`) decides about each connection and reports what it decided;
an application (`src/peerblock`) loads and updates the lists, hands them to the
driver, reads its reports and shows them. `src/lib/libp2p` holds the ranges and the
file formats. Paths below are relative to the root of the repository's sources.

This directory holds models of the driver, of the service that runs it and of the part
of the application that feeds it, the TLC runs over them, and proofs that TLAPS checks.
The parts are modelled in the order in which a mistake would cost most: the driver first
(it runs at raised interrupt level on every processor, and a mistake there stops the
machine or lets a connection through), the process that feeds it next, the user interface
last.

## 1. Inventory

### The driver (`src/pbfilter`)

| part | state | operations | called by |
|---|---|---|---|
| notification queue (`notifyqueue.c`) | `NOTIFICATION_QUEUE`: a list of stored notifications with its counter, a cancel-safe list of parked read requests, one spin lock, `initialized` | Init, Reset, Destroy, `Notification_Send`, `Notification_Recieve`, the IoCsq callbacks | callbacks send; device requests read; cleanup and unload reset and destroy; the I/O manager cancels |
| lists (`common.c`) | four range lists (allow and block, IPv4 and IPv6) with a `labelsid` each, two port lists, three spin locks | `SetRanges`, `SetRanges6`, `SetDestinationPorts`, `SetSourcePorts`; `CheckRanges`, `CheckRanges6`, `DestinationPortAllowed`, `SourcePortAllowed` | device requests and cleanup set; callbacks check |
| binary search (`common.c`) | none between calls | `inranges`, `inranges6` | the range lookups, with the lock held |
| WFP driver (`filter_wfp.c`) | `PBINTERNAL`: `block`, `shutting_down`, `flags`, the callout ids, the queue and the lists | `DriverEntry`, create and close, cleanup, device control (hook, lists, ports, flags, get notification), unload; four classify callbacks | the I/O manager, the network stack |
| packet-filter driver (`filter.c`) | the same for Windows XP, with one callback | the same | the same |

How they interact: a classify callback tests `block`, then `shutting_down`, then the
port lists, the HTTP ports, the range lists and, for IPv6, what it does with
addresses no list knows; it then sends a notification and returns BLOCK or CONTINUE.
Each of these tests reads the state for itself. A client of the driver may replace
any list between two of them. There is one client at a time (the device is
exclusive); when its last handle goes, cleanup clears `block`, sets `shutting_down`,
empties the lists and resets the queue, and the close request follows when the last
read is complete.

What is hard: callbacks run on all processors and are never told that a client has
gone; a list array is freed as soon as the lock is released; each half of a send and
of a read is atomic by itself only; three parties (a sender, a reset and a cancel)
may want to complete the same request; unloading must wait for callbacks.

What makes it correct: every request is completed once, every notification is read
at most once, the queue stays within its bound and what it stores is read; no search
touches freed memory or an entry outside the array, and it finds the range that
covers the address; a decision uses the lists of one moment; the allow list wins;
nothing is filtered without a client; no callback outlives the driver's memory.

### The application (`src/peerblock`) and its library

| part | state | operations | what is hard, and what makes it correct |
|---|---|---|---|
| filter client (`pbfilter_base.cpp`, `filter.h`) | two buffers of labels and their ids, `m_block`, the action function, the reader thread | `setranges`, `setblock`, `setactionfunc`, ports and flags, `thread_func`, `stop_thread` | the buffers are swapped while the reader looks labels up; the reader calls the log with the mutex held, and the log waits for the UI thread. A label is followed only while its buffer lives; the shutdown ends |
| driver service (`driver.cpp`, `pbfilter_wfp.cpp`, `pbfilter_nt.cpp`) | per driver object: `m_loaded`, `m_started`, `m_stoppable`, `removable`, `m_dev`; the service manager keeps the services | `load`, `isrunning`, `start`, `stop`, `close` | each step may fail after the one before it; a service left by a crash must be picked up; the driver of Windows must not be touched |
| range lists (`libp2p/src/list.cpp`, `compact_list.cpp`) | a list of ranges per address family | `insert`, `erase`, `optimize` | neighbours, overlaps and the two ends of the address space; the result must be the same set of addresses, sorted and disjoint |
| list files (`libp2p`, P2P and P2B) | none | `load`, `save` | what a format cannot hold is lost; what the writer makes the reader must take |
| loading of lists (`lists.cpp`) | list files, a cache with a checksum, temporary allows | `LoadLists`, `GenerateCache`, `IsCacheValid` | a crash between two writes, files that change meanwhile; the driver must hold what the files and the temporary rules say |
| list updates (`updatelists.cpp`) | downloads, their threads, allow rules for the hosts | start, progress, finish, abort | it replaces the driver's allow list for a while, as the timers and the user do, and may outlive its window |
| main window and startup (`mainproc.cpp`, `pb.cpp`) | timers, blocking on or off, HTTP blocked, allowed, or allowed for a while | start, stop, timers, `SetBlockHttp`, shutdown | the order of shutdown against the reader thread; timers that fire late or after the choice has changed |
| live log and history (`logproc.cpp`, `historyproc.cpp`) | the entries shown, the SQLite history, temporary allows | the action callback, timers | the callback sends messages to a thread that may wait for the callback |
| configuration (`configuration.cpp`, `configuration.h`) | one XML file and its backup, the port profiles | `Load`, `Save`, `PortSet::Merge` | a crash in the middle of a save; a damaged file; a temporary choice that must not be saved |
| dialogs, trace log, crash handler | forms and diagnostics | - | layout and I/O |

How they interact. The UI thread owns the settings and loads the lists; `LoadLists` and
the update thread both call `setranges`, which sends a list with the address of each label
in a buffer of the application. The driver hands such an address back in a notification;
the reader thread compares the id of the list, follows the pointer and calls the log,
whose window belongs to the UI thread. Settings, lists and the list cache survive the
process in files, the service and the kernel driver in the service manager.

`PROJECT.json` lists the same components, with what is modelled of each, and every
hazard that was found in reading them, at its line, with the properties that cover it
or the reason why none does.

## 2. Modules

| module | what it is | code |
|---|---|---|
| `NotifyChannel` | abstract: a lossy, unordered channel; a note is the answer of at most one read, a read ends once | - |
| `NotifyQueue` | the notification queue, one action per critical section | `notifyqueue.c` |
| `NotifyQueueProofs` | its inductive invariant; it implements `NotifyChannel` | |
| `ListStore` | abstract: lists are replaced as a whole, a lookup decides at one moment | - |
| `FilterLists` | setters and lookups with their locks, allocations and frees | `common.c` |
| `FilterListsProofs` | its inductive invariant; it implements `ListStore` | |
| `RangeSearch` | `inranges` and `inranges6`, one action per turn of the loop | `common.c` |
| `RangeLists` | compacting, cutting and merging of ranges, and then the search of what was sent; EXTENDS `RangeSearch` | `list.cpp`, `compact_list.cpp`, `range.hpp`, `lists.cpp` |
| `RangeListsProofs` | the search reads entries of the array only and finds the covering range; what is sent is right, for any ranges, and implements `RangeSearch`; both get on | |
| `PbDriver` | the WFP driver: callbacks, device requests, cleanup, close, load, unload; EXTENDS `NotifyQueue` | `filter_wfp.c` |
| `PbDriverProofs` | its inductive invariant; it keeps the contract of `NotifyQueue`, so it implements `NotifyChannel`; a cleanup leaves no read | |
| `DriverService` | one process after the other against the service manager: load, start, stop, close | `driver.cpp`, `pbfilter_wfp.cpp`, `pbfilter_nt.cpp` |
| `DriverServiceProofs` | its inductive invariant, what a process may not do to the driver of Windows, and that its operations get on | |
| `Settings` | the configuration file and its backup, exempt ports, HTTP allowed for a while | `configuration.cpp`, `configuration.h`, `mainproc.cpp`, `pb.cpp`, `pbfilter_base.cpp` |
| `SettingsProofs` | its inductive invariant: what each command has done at each step, and what the two files keep of what the next start owes | |
| `FilterClient` | `setranges` in two threads, the reader thread, the action function, the shutdown | `pbfilter_base.cpp`, `filter.h`, `logproc.cpp`, `mainproc.cpp` |
| `FilterClientProofs` | its inductive invariant: who owns a label buffer, which labels may be followed; who may wait for whom | |
| `ListLoad` | list files, cache, checksum, temporary rules, the update thread, crashes | `lists.cpp`, `updatelists.cpp`, `logproc.cpp`, `mainproc.cpp` |
| `ListLoadProofs` | its inductive invariant; what reaches the driver | |
| `MC...` | instances for TLC | |

Composition: `PbDriver` takes the queue in full detail, because the cleanup and the
callbacks meet inside it, and the lists at the level of `ListStore`, which
`FilterLists` is proved to implement: a `SetList` is one step, and a lookup one step.
`FilterLists` in turn takes a table as something that covers a set of keys, and
`RangeSearch` says that the search finds exactly those keys when the array is sorted
and disjoint. `RangeLists` is the other side of that assumption: it makes the array as the
application does, hands it to the actions of `RangeSearch`, and is proved to implement
it. `FilterClient` sees the driver from outside: per list what it has, and a queue that
may lose notifications, as `ListStore` and `NotifyChannel` say. `ListLoad` decides which
addresses are sent and takes from `RangeLists` that a list stands for a set of them.
`Settings` is the rest of what the driver is told. `DriverService` stands by itself: what
it calls the open device is the handle whose opening, cleanup and close `PbDriver` models.

### State and actions against the code

`NotifyQueue`. `notification_list`, `queued`, `irp_list` and `initialized` are the
fields of the structure. `spc` says where a callback stands in `Notification_Send`:
"peek" before `IoCsqRemoveNextIrp`, "complete" with a request it took, "lock" before
the second critical section. `irp` is the stage of a request: "lock" and "insert" are
the two critical sections of `Notification_Recieve`, "listed" is parked, "taken" is
off the list and not yet completed. `rpc` is where `ResetNotificationQueue` stands.
`cancelling` holds the parked requests whose cancel routine was called and waits for
the lock; `IoCsqRemoveNextIrp` passes those over, as the I/O manager's library does
(external code, modelled from its contract). A note is a token, which may be used
again when nothing holds it any more. `overtaken` is a history variable.

`FilterLists`. One setter is allocation, acquire, swap, release, free; one lookup is
acquire, fetch of pointer and count, search, then the next list or the release. The
lock is a variable, because what it protects is that no array is freed under a search.
`warr` is the array that only the setter knows, the new one before the swap and the
old one after it. The four setters differ in one test, in `OldArray`. `TypeOK` says besides
the types that a lock which is held is held by a thread inside its critical section: no
path through the two searches returns without the release.

`RangeSearch`. The variables are the locals of the loop. Positions count from 1.

`RangeLists`. `lpc` is the loop that runs: `compact_list`, `erase` or `optimize`; "leave"
is a list that is sent as it is. `rest` are the ranges it has still to take, `out` what it
has merged so far (the last element is the one that grows), `parts` the list of cut ranges
that `erase` appends, `kept` the ranges it is done with. `sort` and `unique` are the
choice of the least range in `TakeLeast`; two ranges with equal ends are in either order,
as `std::sort` leaves them. `Succ` and `Pred` wrap round at the ends of the address
space, as the unsigned numbers do.

`PbDriver`. `cpc` is the test a callback comes to next; `todo` is what cleanup, unload
or `DriverEntry` have still to do, in the order of their statements: after a registration
that failed, the registered callouts are unregistered one by one, and then the unload does
it again (`FailedSteps`). `Reset` and
`ResetEnded` enclose the reset of the queue, which runs step by step among the
callbacks. `callow`, `cexempt`, `cborn` and `born` are history variables
that the properties need and no guard reads, with one exception: `cborn` is what
`born` is set from. Outside of `src/`: the I/O manager (an exclusive handle; cleanup
after the last handle, with no thread of the client inside the driver; close when all
requests are complete) and `FwpsCalloutUnregisterById0` (returns when no callback of
the callout runs).

`Settings`. `files` are `peerblock.conf` and its backup: the settings that can be read from
each, and what the file is for TinyXML. It is "whole", or it was damaged while the program
was not running (`MaxDamage` times), which leaves it cut "inside" its root, in the name of
the root ("misnamed"), before the root ("rootless"), or absent or without content
("missing"). `config` is `g_config` and `pc` the step the process is at. `Save` writes a
temporary file and moves it over its target, one step each; the target is
`peerblock.conf`, and `peerblock.conf.bak` for the save at the end of a start.
`Launch` and `MoveAndRestore` are `Load`. Its loop stops at the first file that is parsed
without an error (`Chosen`; a "rootless" file is one), and all files are parsed into the
same document, which keeps the root of a file whose parse failed. So the root that is read
is that of the first file which has one (`Root`), which need not be the file that was
chosen; without a root of the right name `Load` returns false and the wizard runs, though
the backup may be good. If the backup was chosen, the settings in memory, still the
defaults, are saved over `peerblock.conf` before the root is read.
`due` is a history, the choice that the next start owes the user: the one that was saved
last, or what the backup has once `peerblock.conf` is gone; `restored` is the time between a
start from the backup and the next save, and `lost` says that a process was killed in it, or
that `peerblock.conf` was there and cut when a process began.
`MergeRange` and `MergePort` are the two loops of `PortSet::Merge`, with the counter that
wraps round at `MaxPort + 1`. `short`, `long` and `timer` are `TempAllowingHttpShort`,
`...Long` and `TIMER_TEMPALLOWHTTP`; the timer may fire whenever it is set.

`FilterClient`. `pc` and `job` are the call of `setranges` a thread is in, from "write" (the
request for the IPv4 ranges) over "count", "store" and "swap" to "write6" and "free";
the new labels are a new number, and `alive` the numbers that are not freed. Buffer 0 is
one of an earlier process, whose notifications the driver may still hold. `rpc` is the
reader: "check" to "result" outside, "match", "copy", "call", "callback" and "unlock"
inside the mutex. `Gone` ends the process once the UI thread is through. The UI thread
sets the action function (`Install`), sends lists from its message loop, and shuts down by
"clear" (`setactionfunc`), "drop" (the log is freed), "stop", "signal", "join". The driver
may keep an old list when its pool is empty, and report success.

`ListLoad`. `pc` is the step of `LoadLists`: "crc", then "read" or "generate" and "save",
"allow" and "block", which send the two lists, and `after` where the command goes on
("startup", "saveconf", the "modal" update window, or "idle"). `crc` and `enabled`
exist twice, in memory and in `disk`. A file is its addresses and its time; `MaxTime`
bounds the changes. `upc` is the update thread. `grants` are `g_allowlist`: addresses with
their time limits. `rebuilt`, `stale`, `unread`, `replaced` and `cut` are histories for
the exceptions that the properties name.

`DriverService`. `svc` is what the service manager knows of the two services, `obj` the
two `driver` objects of the process, field by field. `pc` and `cur` say which call comes
next, and for which object: `load` is "load" to "status", with "replace" to "reopened"
for a service whose path is another one; "check" and "stop" are `isrunning` and `stop`
in the constructor; `start` is "start", "retry" (the locked database) and "open"
(`CreateFile`); "finish" is the rest of the constructor. `toClose` holds the objects
that are to be closed: by `~pbfilter` and the destructors of its members, or, when the
constructor throws, by the latter alone (`Throw`). Every state-changing call of the
manager is a step of its own, so the process may be killed between any two. `CallFails`
stands for all the calls that throw; an exception that leaves a destructor ends the
program (`CloseFails`), as the toolsets of the project do. A constructor that returns
without a device is followed by `SetBlock(true)`, whose request fails; the exception
reaches `_tWinMain`, and the process shuts down as after `Quit`. `inherited`, `failed`
and `clean` are history variables. The service manager is external.

## 3. What the runs check

| run | instance | states | shows |
|---|---|---|---|
| `notify_queue` | 2 senders, 2 requests, 3 notes, capacity 2 | 30,519 | queue and counter agree, requests and notes are held once, bounded overtaking, stored notes are read, cancels end, refines `NotifyChannel` |
| `filter_lists` | 3 lists (2 under one lock), 2 setters, 1 lookup, 3 arrays, 2 tables | 497,063 | no lock is left held, no search in freed memory, no array lost or freed twice, labels go with their id, refines `ListStore` |
| `range_search` | every block list and every allow list of up to 2 ranges over 5 addresses, 2 names, all three families, every address | 1,285,996 | what is sent covers the right addresses, sorted and disjoint; searching it stays in bounds, gives the right answer and ends |
| `sessions` | 1 callback thread, 1 read, 3 notes, 2 sessions, loading, failing to load and unloading | 127,928 | the driver keeps the queue's contract, nothing runs or can be called after unload, nothing is filtered without a client, stale notes are bounded, the device is freed |
| `verdicts` | 5 connections (both families, both directions, TCP and UDP, on an HTTP port and not, a mapped address), every list empty or not, all flags | 1,151,454 | the allow list wins over every change of the lists in the middle of a callback, unless the port is exempt on IPv6 |
| `exempt_ipv6` | as `verdicts` | violation | the allow list does not win on IPv6 when the port is exempt |
| `driver_service` | both builds, every state other programs leave the services in, 2 turns of the retry loop, any number of processes, crashes and reboots | 1,650 | an open device is our running driver; who returns from the constructor is connected unless it inherited a running driver; a clean end leaves nothing; the driver of Windows is left alone; constructors and destructors end |
| `left_running` | as `driver_service` | violation | a driver that a crash left running is not stopped |
| `settings` | 4 ports, one of them HTTP, 2 profiles (one ends at the last port), 2 choices of the user, 2 damages to a file, any number of crashes | 684,795 | HTTP allowed for a while is ended by a timer and never saved; the driver has the settings; a start finds what was saved last, with two named exceptions, one of which the next run shows; the port loop ends, unless a range ends at the last port |
| `backup_used` | as `settings` | violation | a start from the backup has the settings of the file that was cut |
| `filter_client` | 2 calls of `setranges` by the two threads, 1 notification in the queue (one of an earlier client possible), the shutdown at any time | 625,460 | a label that is followed lives; client and driver agree; the log outlives its caller; the UI thread comes back, but for a named deadlock |
| `list_load` | 1 downloaded block list, 1 allow list, 1 IPv4 and 1 IPv6 address, 2 file times, 2 time limits, crashes and the update thread at any time | 4,809,268 | after a load the driver has the lists of the files, but for the histories that are named; an address allowed for a while is not blocked |

Why the bounds are enough. Queue: two senders race for a request, for the last place
and with the reset; two requests are needed to overtake a note twice, and a third note
to find the queue full. Capacity stands for the 64 of the code. Lists: two setters of
one list and a lookup between them are the smallest case of each race; three arrays
let both setters hold one while a third is installed. Search: two blocked ranges with holes make arrays
of up to four entries, which take both halves of the loop and every end of the array; five
addresses leave room for two ranges that touch, overlap or are apart, at both ends. Sessions: the second session is the one
that finds what the first left. Verdicts: with nobody reading (no request) the queue
does not matter; one key per family is enough to tell "on the list" from "not on it".
Service: the turns of the retry loop differ
in their number only (the code has 6); everything else is unbounded and still finite.
Settings: the earlier process has saved the first choice, so with the second the file and
the backup are of two different ages; two damages hit both files, or the same one before and
after a start; ports differ in being HTTP, being inside a range and being the last
one. Client: two calls of `setranges` overlap each other and the reader; a third would find
what the second left. Loads: a file changes once while a cache of the older one exists;
one address of each family is enough, as lists are sets. The one IPv4 address is that of a
download server too, so in the run `Connect` never takes a temporary rule from the driver's
allow list; a second address makes the run too long, and that `GrantHolds` survives it is what
the theorem `GrantsHold` says. Crashes are unbounded.
The bounds in guards are `MaxSessions` (openings of the device), `MaxChoices`
and `MaxDamage` (`Settings`), `MaxSets` (`FilterClient`; `QueueBound` is the capacity of the driver's
queue, which drops what does not fit) and `MaxTime` (`ListLoad`). Deadlock is checked
except in `range_search`, where a call ends, and in `filter_client`, where the
process ends and where the deadlock of `UIReturns` is one that the code really has.

Symmetry is used in runs without liveness only: notes, arrays and setters are
interchangeable there.

Each property is broken on purpose by at least one small change of a definition
(listed under "mutants" in `PROJECT.json`, defined next to the original with a comment
that starts with "Mutant"): a dropped return, a swapped order, an off-by-one, a reset
that leaves something.

### Fairness

`NotifyQueue`: a thread inside the driver runs on (each such section is a spin lock
and a bounded amount of work); a cancel routine that was called runs; the client
reads again after every answer, as `thread_func` does; and new connections keep
coming. The last one is needed for `StoredIsRead`: a note can be stored while two
requests are parked, and stays until the next notes have used those up and the next
read finds it. That is how the code behaves (the send and the read each have a gap
between their critical sections), and `BoundedOvertaking` says how far it can go.
`PbDriver`: what runs inside the driver runs on, and the close request is sent once
it can be. Nobody has to open, close, cancel or unload. `RangeSearch`: a call runs on.
`DriverService`: a process that is inside a constructor or a destructor runs on; no call
has to succeed, no slow stop has to end, nobody has to start or quit the program.
`RangeLists`: a load and a search run on. `Settings`: a command that has begun runs on;
crashes, damage, the timer and the user are not forced. `FilterClient`: the reader and a
call of `setranges` run on (weak fairness), and who waits for the mutex gets it at last
(strong fairness for `Install` and `ClearAction` only: a critical section of Windows lets a
waiting thread in, though the reader takes it again and again). The UI thread need not shut
down.

### What the code does and its documents do not say

- `left_running`. `load` marks a service that is running already as started
  (`driver.cpp:295`), and `m_stoppable` is false until `start` has opened the device. So
  the constructor's `stop` does nothing (`driver.cpp:519`), and neither does `start`
  (`driver.cpp:402`): after a crash, or after a `CreateFile` that failed, no process is
  connected to the driver until a restart of the machine. The traces in
  `pbfilter_nt.cpp:48-50` say "pbfilter.sys already running, now stopping it" and "stopped
  pbfilter.sys"; `driver.cpp:496` says of `m_stoppable` that it "should only be false for
  MS IpFilterDriver". `ConnectedUnlessInherited` is what does hold.
- `exempt_ipv6`. In the two IPv6 callbacks a port exemption gives action 2, the same as
  a miss of both lists, and action 2 goes on to the mapped IPv4 address or to
  `BLOCK_UNKNOWN_V6` (`filter_wfp.c:276`). The allow list for IPv6 was never looked at.
  `FEATURES.md:17` says "Allow-list checked before block-list (v4 and v6)". The
  property that does hold, `AllowListWinsUnlessExempt`, names this exception.
- `backup_used`. `Load` parses all files into one `TiXmlDocument` (`configuration.cpp:447`,
  483), and TinyXML keeps the root of a file whose parse failed. After `peerblock.conf` was
  cut inside its root, `RootElement()` (535) is that of the fragment, though the backup was
  parsed: the start has the settings of the fragment and defaults for the rest, and
  `pb.cpp:232` saves them over the good backup. `pb.rc:993` tells the user that "PeerBlock will
  use the last known good configuration file", and `configuration.cpp:509` traces "using
  last-known-good configuration file". A file cut before its root is worse off still: it
  parses without an error, the backup is not looked at, and the wizard runs.

Two more sentences of the repository are not what the code does, and need no run to see it:

- `BlockUnknownIPv6` is tested for addresses that are neither Teredo nor 6to4 only
  (`filter_wfp.c:292`), which is `UnmatchedV6`; `doc/list-format.txt:26-27` and `FEATURES.md:24`
  say of it that IPv6 on no list is blocked.
- Before it reads the root of the backup, `Load` saves what is in memory over `peerblock.conf`
  (`configuration.cpp:511`): the defaults. The comment there says "save restored config to
  regular file". A process that is killed before the next save leaves the user with the
  defaults; `SettingsKept` excepts it.

The following are disagreements with what one would expect, without a sentence in the
repository that says so plainly. They are exceptions that the properties name, or are left
out of the model, as stated. As exceptions they are not caught by those properties, which
say what holds in all other cases; the entries of `PROJECT.json` under "hazards" say so for
each.

- A block list that has only IPv6 ranges is sent unsorted (`lists.cpp:616`; the driver's
  search then misses addresses). `SentIsRight` excepts it ("v6only").
- The deadlock of `UIReturns`: the reader holds the mutex while `SendMessage` waits for
  the UI thread, which waits for the mutex in `setactionfunc` (`pbfilter_base.cpp:332`).
- A label is compared and copied under the mutex, but `setranges` swaps and frees the
  buffer without it (`pbfilter_base.cpp:199`). `MatchedLabelAlive` says how far it is safe.
- The checksum of the list files is taken over before the cache is written (`lists.cpp:499`),
  an allow list that has become empty is not sent (`lists.cpp:620`), and the allow list of the user
  is replaced after the start (`mainproc.cpp:648`). `DriverHasLists` names all three.
- `PortSet::Merge` never ends for a range that ends at 65535 (`configuration.h:147`):
  `MergeEnds` excepts it.
- If two rules for one address are in force and one runs out, the address is taken from
  the driver's list (`logproc.cpp:1121`): `GrantHolds` excepts it.
- A setter of the driver whose pool is empty reports success (`common.c:207`), and the driver
  keeps the old list. `ClientAgrees` and `DriverAgrees` except the time until the next list is
  taken over ("missed"), in which HTTP may stay exempt though the settings say blocked.
- An update thread whose window was closed goes on (`updatelists.cpp:1037`): `DriverHasLists`
  excepts what it changes ("unread", "replaced").
- The flags of the driver outlive its client (`filter_wfp.c:614`): until a new client has sent
  its own, those of the old one are in force. `DriverAgrees` speaks of the time after that.
- Not modelled: "block for a while" of the log does nothing (`logproc.cpp:967`, the list
  `g_tempblock` is never read); a download with IPv6 ranges only counts as failed
  (`updatelists.cpp:554`); an XML value "true" reads as false (`configuration.cpp:155`);
  the P2B writer has none of the limits of its reader (`list_p2b.cpp:176`), so a cache may be
  unreadable, which `ListLoad` has as a case; a failed `setblock` is not retried
  (`pbfilter_base.cpp:110`).

## 4. What is proved

TLAPS proves, for every number of threads, requests, notes, connections, lists, ranges,
addresses, ports, profiles, sessions and crashes, and for every capacity:

| theorem | from |
|---|---|
| `QueueTyping`, `QueueIsBounded`, `RequestsHeldOnce`, `NotificationsHeldOnce`, `OvertakingIsBounded` | `QueueInvariant` |
| `QueueImplementsChannel`: `Spec => ChannelSpec` | `QueueInvariant`, one lemma per action |
| `TakenRequestsAreOwned`, `CancelRoutineCompletes` | `QueueInvariant` |
| `ListsTyping`, `SearchesStayInBounds`, `ArraysHeldOnce`, `LabelsHaveTheirId` (`FilterLists`) | `ListsInvariant` |
| `ListsImplementStore`: `Spec => StoreSpec` | `ListsInvariant`, one lemma per action |
| `SearchTyping`, `SearchReadsInBounds`, `SearchFindsRange`, `SearchAdvances` | `SearchInvariant` |
| `SentArrayIsRight`, `LoadingAdvances` | `ListsInvariant` of `RangeLists` |
| `ListsImplementSearch`: `ListsSpec` implements the search of `RangeSearch` where its constant `Arrays` has every sorted array (`AllArrays`); `SentArrayIsSearched` | `SentArrayIsRight` and the theorems on the search |
| `DriverTyping`, `NoUseAfterUnloadHolds`, `FilterIsOffWithoutClient`, `AllowListWinsNearlyAlways`, `StaleNotesAreBounded` | `DriverInvariant` |
| `DriverKeepsContract`: `DriverSpec => QueueSpec` | `DriverInvariant` |
| `DriverImplementsChannel`: the queue inside the driver implements the lossy channel, and keeps what it keeps alone | `DriverKeepsContract` and the theorems on the queue |
| `CleanupCompletesReads`, `CleanupAdvances` | `DriverInvariant`, `Sweeping`, `TakenRequestsAreOwned` |
| `ServiceTyping`, `DeviceIsOurs`, `ConstructorConnects`, `CleanExitCleans` | `ServiceInvariant` |
| `WindowsDriverKept`: `Spec => IpFilterLeftAlone` | `ServiceInvariant`, one case per action |
| `OperationsAdvance` | `ServiceInvariant` |
| `ClientTyping`, `LogOutlivesCall`, `LabelsAlive`, `DriverAndClientAgree` | `ClientInvariant` |
| `WaitsAreAnswered` | `ClientInvariant`, `StopInv` |
| `SettingsTyping`, `TempAllowEnds`, `DriverHasTheSettings`, `SavedSettingsKept`, `MergeDescends` | `SettingsInvariant` |
| `GrantsHold`, `DriverHasTheLists` | `LoadInvariant` |

Assumptions: `QueueAssumption` (finitely many requests, a positive capacity, `None` is
none of the values), `ListsAssumption` of `FilterLists` (a list that is searched after
another has the same lock and is the last one; tables have entries; threads are either
setters or readers), `SearchAssumption` (arrays are sorted, disjoint and not empty),
`ListsAssumption` of `RangeLists` (lists are finite and their ranges in order, as the
parsers make them), `DriverAssumption` (finitely many callback threads; a list may always
be sent empty), `ServiceAssumption` (the builds are among the two, and the loop has a
turn), `FilterClientAssumption` and `ListLoadAssumption` (bounds are numbers, address
families and list types do not meet), `SettingsAssumption` (there is more than one port,
the ports of HTTP and of the profiles are among them, the user makes a choice) and
`ValuesAssumption` (`None` is none of the tasks, files and positions). TLC evaluates each
for the instances above. `ListsImplementSearch` and `SentArrayIsSearched` assume in addition
that `Arrays`, which has no meaning in `RangeLists`, is the set of all sorted arrays.

The inductive invariants, and why the properties alone are not inductive:

- Queue. `QueueBounded`, `IrpHeldOnce` and `NoteHeldOnce` need `Holding` (which stage
  holds what). `BoundedOvertaking` needs `OvertakeCount`: for a stored note, how often
  it was overtaken plus the number of requests that are parked or about to park is at
  most the number of requests. A store happens at any time and starts at 0; an
  overtaking uses one such request up; and no request can become one while the note
  is stored, because a read that finds the list not empty takes from it.
- Lists. `Setting` and `SetterLocks` say what a setter holds at each stage, `Looking`
  and `LookupLocks` the same for lookups (at "search" the fetched pointer and count are
  still those of the list, because the thread has the lock), `Installed` that pointer,
  count and array of a list agree, and `Held` that each array is known once. `LocksHeldInside`
  is the converse of the two lock conditions: nobody else has a lock.
- Search. `LoopInv`: all entries before `iter` start before the address, and all from
  `iter + count` on do not; so the entry the search ends at is the last one that does
  not start after the address, and in a disjoint list no other can cover it.
- Service. `HandleOpen` carries from `start` to `close` that the open device is ours;
  it needs `PathIsOurs` (after `load` the path has been compared) and `Opening` (a
  service that was just started is not marked). `Finished` needs `AfterLoad` and
  `RunningIsInherited`: `start` skips its work only for an object that `load` has marked
  as started, and a service of this path that runs while `load` looks was running before
  the process. `OrderlyEnd` says that an end without failures has still to close our
  object first, or has done so. `IpObject` and `CurIsOurs` say why no step that stops,
  marks or recreates a service is about the driver of Windows.
- Range lists. While `compact_list` or `optimize` merges, `out` is sorted and disjoint, every
  range to come starts no earlier than the last of `out`, and both together cover what is
  to be covered; while `erase` cuts, the ranges that are done are clear of the allow list,
  and parts, done and rest together cover the same unallowed addresses as the block list.
  The step that needs the sorting is that of a range against its last predecessor in the
  compacted list: if that one does not meet it, none does.
- Driver. `Phases` relates the device's phase and handle to what is left in `todo`; `Calls`
  says that a callback runs only while its callout is registered, `Hooked` that filtering
  is on only with a client, because cleanup clears `block` first. `Drained` carries from
  the reset on unload, which follows the last unregistered callout, that no note is stored
  any more: with `Calls` this is the contract of the queue when it is destroyed. `Verdicts`
  ties the history of the allow list to the list as it is now, stage by stage. `Stale` counts:
  notes of earlier sessions that are stored, plus callbacks of earlier sessions that may
  still store one, are at most the callback threads. A reset sets the first number to zero,
  and no callback begins late.
- Client. `Owners` says that a buffer is owned once, by the client or by a call under way;
  `Stage` what a call has done at each of its steps. `Good` says of every entry of the driver
  and of every notification that its number is an older one, or the current one with the
  current buffer, or that of a call which has not yet stored its number, unless two threads
  have replaced that list at once.
- Loads. `CacheGood` says for which checksum the cache is good, outside of the histories
  that the property names: times of files only grow, so an equal checksum is one of files that
  have not changed since (`MadeFrom`, `Past`). `Loaded` says at each step of a load what `work`
  and the driver's lists contain, and `NotBlocked` what they do not.
- Settings. All three properties speak of the time between two commands, or of what a start
  will find, so the invariant has to say what holds in the middle. `Http`: from the first
  assignment of `SetBlockHttp` to its last, `AllowHttp` and `lasting` are those of the task
  and the two flags and the timer still those of the command before. `Merging`: the ports in
  the set, with those that the ranges to come have still to add (`Missing`), are the exempt
  ports of the settings; or the counter is on a range up to the last port and the loop does
  not end (`Endless`), so nothing follows that would send a wrong set. `Sending`: between the
  loop and the driver the HTTP rule and the ports are sent; `SetBlockHttp` sends one of the
  two port lists, and the other has been right since the last command. `Kept`: as long as `lost` is false, the choices in memory are at least
  those that are due, from the moment a start has read a file; `peerblock.conf`, when it is
  whole and not the defaults of a start from the backup, has them; if it is not whole the backup
  has them, or nothing is due; and the start from the backup is one without a
  `peerblock.conf`, so the root that is read is the backup's. It has to speak of both files because they may be of different
  ages, and of the steps in between because a start saves in the middle of `Load`.

### The parts of liveness that need no fairness

The prover does not reach fairness, so the liveness properties (`StoredIsRead`,
`CancelEnds`, `AnswerComes`, `DeviceIsFreed`, `OperationsEnd`, `MergeEnds`, `UIReturns`) are
checked by TLC alone. What is proved of most of them is the part that could be wrong whatever
the scheduler does: that the code does not go in circles, and that nobody is forgotten.

- `SearchAdvances` and `LoadingAdvances` (of `AnswerComes`). A turn of the binary search leaves
  at most half of the entries, so a search takes one turn per binary digit of the
  length of the array. A cut of `erase` may make a new range, which the next pass examines:
  what gets less with each cut, and with each range that is done, is the number of addresses
  in the ranges in the works, each counted as often as there are ranges with it (`WorkLeft`).
- `OperationsAdvance` (of `OperationsEnd`). `Remaining` ranks the steps of constructors and
  destructors and counts the turns of the loop in `start`; every step of the process makes it
  less, a failing call and an exception included.
- `CleanupCompletesReads` and `CleanupAdvances` (of `DeviceIsFreed`). While the device is
  closing, each step of the cleanup, of the reset and of a read takes it nearer to its
  end (`CleanupLeft`), and when the cleanup is through, the only reads that are still there are
  those that a callback has taken or whose cancel routine runs. `Sweeping` says why: the client
  can park no read any more, and the reset is still to come or goes on until the list is
  empty. What fairness adds is that those callbacks and routines run.
- `TakenRequestsAreOwned` and `CancelRoutineCompletes` (of `CancelEnds`). A read that is off the
  list is in the hands of someone who completes it, and a cancelled one stays where its cancel
  routine finds it.
- `WaitsAreAnswered` (of `UIReturns`). Whenever the UI thread waits, for the mutex or for the end
  of the reader, the reader has a step that waits for nobody, except in the deadlock that
  the property names. That a thread that waits for the mutex also gets it is the strong
  fairness of the run.
- `MergeDescends` (of `MergeEnds`). Every turn of the two loops of `PortSet::Merge` takes a
  range out, or leaves the ranges and comes nearer to the last port of the current one.

Left to TLC: the liveness properties themselves, `StoredIsRead` altogether (it needs that new
connections keep coming), and the exceptions of the three runs that expect a violation.
There is no recursive operator in any module.

## 5. What is not modelled

In the modelled parts: the sizes of buffers (`Notification_Recieve` and the list
requests refuse a wrong size without a change of state), failing to create the device,
callbacks without an address array, the contents of a notification other than which
callback sent it, and the debug output. The IPv4 address in a Teredo or 6to4 address is a
key (`mapped`); the extraction of its bits is not modelled. `Settings` keeps of all values
HTTP, the port profiles and the number of the last choice. Of the files that `Load` tries it
leaves out the third, `pg2.conf` of the program's ancestor, and the copies it makes of files
that failed. A damaged file is a cut one: any of the profiles may be missing from it, not only the
last ones, a profile that is cut through counts as missing, and bytes that are changed in the
middle of a file are not modelled. `ListLoad` leaves out the
machine's own addresses (`AllowLocal`), archives, and files that cannot be read.
`FilterClient` takes two overlapping swaps of one vector, a data race, as one after the other and
claims nothing of that list from then on.

Not at all: the driver for Windows XP (the same queue and lists with another callback),
`setblock` (see section 3), the history database with its lock, dialogs and drawing, the
XML file, parsers character by character, HTTP transfers and mirrors, the check for a new
version, the trace log and the crash handler. Apart from the first three they are
sequential, or I/O without a state that another part relies on.

Most of the repository is third-party code: SQLite, zlib, libcurl, Boost and others under
`src/thirdparty`. None of it carries the program's own logic, and none of it is
modelled; the share of all lines that the models cover is therefore small whatever is modelled of
`src/src`.

## 6. Plan

1. `PfDriver`: the XP driver, as another instance of the same queue and lists; its cleanup
   destroys the queue for good, so the property to state is that no second client can find
   it destroyed.
2. `BufferCheck`: the arithmetic of `PbValidate...` with its widths, and a theorem that
   what passes lies inside the buffer.
3. `setblock` and the timers of the main window in `FilterClient`, once it is settled what
   is to hold after a failed request.
4. The history database: its lock against the timer that empties it, and the log.
