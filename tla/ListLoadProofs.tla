--------------------------- MODULE ListLoadProofs ---------------------------
(***************************************************************************)
(* What reaches the driver, for any lists, addresses, servers and limits:  *)
(* GrantHolds and DriverHasLists.                                          *)
(*                                                                         *)
(* The times of the files only grow, so a checksum that is equal to an     *)
(* earlier one is taken over files that have not changed since: that is    *)
(* what makes the cache good (MadeFrom).  The invariant CacheGood says for *)
(* which checksum it is good at each step, and Loaded what the lists under *)
(* way and those in the driver are.                                        *)
(***************************************************************************)
EXTENDS ListLoad, TLAPS

\* The checksum and the block list for the enabled lists ls.
Sum(ls) == {[list |-> l, time |-> files[l].time] : l \in {m \in ls : files[m].time > 0}}
KeysOf(all, ls) == UNION {files[l].keys : l \in all \cap ls}
Image(ls) == KeysOf(BlockLists, ls) \ (KeysOf(AllowLists, ls) \cap V4)

\* The cache is good for every choice of lists that has the checksum c.
MadeFrom(c) == \A ls \in SUBSET Lists : Sum(ls) = c => cache.keys = Image(ls)

FilesOK == \A l \in Lists : files[l].time \in Nat /\ (files[l].time = 0 => files[l].keys = {})
Past(c) == \A l \in Lists, t \in Nat : [list |-> l, time |-> t] \in c => t <= files[l].time

Steps == {"crc", "read", "generate", "save", "allow", "block"}
Rests == {"idle", "startup", "saveconf", "modal"}

StepsOK ==
  /\ pc \in {"off"} \cup Steps \cup Rests
  /\ after \in Rests
  /\ enabled \subseteq Lists /\ disk.enabled \subseteq Lists
  /\ files \in [Lists -> [keys : SUBSET Keys, time : Nat]]
  /\ DOMAIN driver = {"allow", "block"}

Temporary ==
  /\ \A g \in grants : g.key \in V4
  /\ tempallow = {g.key : g \in grants} \ cut

\* Between two calls of LoadLists nothing that is allowed for a while is blocked.
NotBlocked ==
  /\ pc = "block" => work \cap tempallow = {}
  /\ pc \in Rests => driver.block \cap tempallow = {}

CacheGood ==
  /\ pc = "off" => ~rebuilt
  /\ ~stale /\ cache # None =>
       /\ cache.readable
       /\ pc \notin {"off", "generate", "save"} => MadeFrom(crc)
       /\ ~rebuilt => MadeFrom(disk.crc)

ToBlock == Image(enabled) \ (Allowed \cap V4)

Loaded ==
  /\ pc \in {"read", "generate", "save"} /\ ~unread => crc = Sum(enabled)
  /\ pc = "read" => cache # None
  /\ pc = "save" /\ ~unread => work = Image(enabled)
  /\ pc = "allow" /\ ~unread /\ ~stale => work = Image(enabled)
  /\ pc = "block" /\ ~unread /\ ~stale => work = ToBlock
  /\ pc \in {"idle", "startup"} /\ ~unread /\ ~stale => driver.block = ToBlock
  /\ pc \in {"block", "idle", "startup"} /\ ~unread /\ ~replaced =>
       Allowed = {} \/ driver.allow = Allowed

LoadInv ==
  /\ StepsOK
  /\ FilesOK /\ Past(crc) /\ Past(disk.crc)
  /\ Temporary /\ NotBlocked
  /\ CacheGood /\ Loaded

-----------------------------------------------------------------------------
(* Checksums.                                                              *)

\* Two choices of lists with one checksum differ in lists without a file only.
LEMMA SameSum ==
  ASSUME FilesOK, NEW E \in SUBSET Lists, NEW F \in SUBSET Lists, Sum(E) = Sum(F)
  PROVE  Image(E) = Image(F)
<1>1. ASSUME NEW C \in SUBSET Lists, NEW D \in SUBSET Lists, Sum(C) = Sum(D),
             NEW l \in C, files[l].keys # {}
      PROVE  l \in D
  <2>1. files[l].time > 0
    BY <1>1 DEF FilesOK
  <2>2. [list |-> l, time |-> files[l].time] \in Sum(D)
    BY <1>1, <2>1 DEF Sum
  <2>3. PICK m \in D : [list |-> l, time |-> files[l].time] = [list |-> m, time |-> files[m].time]
    BY <2>2 DEF Sum
  <2> QED
    BY <2>3
<1>2. ASSUME NEW all \in SUBSET Lists, NEW x
      PROVE  x \in KeysOf(all, E) <=> x \in KeysOf(all, F)
  <2>1. ASSUME NEW l \in all \cap E, x \in files[l].keys PROVE l \in all \cap F
    BY <1>1, <2>1
  <2>2. ASSUME NEW l \in all \cap F, x \in files[l].keys PROVE l \in all \cap E
    BY <1>1, <2>2
  <2> QED
    BY <2>1, <2>2 DEF KeysOf
<1>3. KeysOf(BlockLists, E) = KeysOf(BlockLists, F) /\ KeysOf(AllowLists, E) = KeysOf(AllowLists, F)
  BY <1>2 DEF Lists
<1> QED
  BY <1>3 DEF Image

\* A checksum that was taken before a file changed is not taken again with that file.
LEMMA OldSum ==
  ASSUME FilesOK, NEW c, Past(c), NEW l \in Lists, NEW ks,
         files \in [Lists -> [keys : SUBSET Keys, time : Nat]], NewFile(l, ks),
         NEW E \in SUBSET Lists, Sum(E)' = c
  PROVE  Sum(E) = c /\ Image(E)' = Image(E)
<1>1. /\ files'[l].time = files[l].time + 1 /\ files[l].time \in Nat
      /\ \A m \in Lists : m # l => files'[m] = files[m]
  BY DEF NewFile
<1>2. l \notin E
  <2> SUFFICES ASSUME l \in E PROVE FALSE
    OBVIOUS
  <2>1. [list |-> l, time |-> files'[l].time] \in c
    BY <1>1 DEF Sum
  <2>2. files'[l].time <= files[l].time
    BY <1>1, <2>1 DEF Past
  <2> QED
    BY <1>1, <2>2
<1>3. \A m \in E : files'[m] = files[m]
  BY <1>1, <1>2
<1>4. Sum(E)' = Sum(E)
  BY <1>3 DEF Sum
<1>5. \A all \in SUBSET Lists : KeysOf(all, E)' = KeysOf(all, E)
  BY <1>3 DEF KeysOf
<1>6. KeysOf(BlockLists, E)' = KeysOf(BlockLists, E) /\ KeysOf(AllowLists, E)' = KeysOf(AllowLists, E)
  BY <1>5 DEF Lists
<1> QED
  BY <1>4, <1>6 DEF Image

\* As long as no file changes neither do checksums and block lists.
LEMMA SameFiles ==
  ASSUME files' = files
  PROVE  /\ \A ls : Sum(ls)' = Sum(ls)
         /\ \A ls : Image(ls)' = Image(ls)
  BY DEF Sum, Image, KeysOf

LEMMA SameLists ==
  ASSUME files' = files, enabled' = enabled
  PROVE  /\ Sum(enabled)' = Sum(enabled) /\ Image(enabled)' = Image(enabled)
         /\ tempallow' = tempallow => Allowed' = Allowed /\ ToBlock' = ToBlock
  BY DEF Sum, Image, KeysOf, Allowed, ToBlock, Read

\* In the words of LoadLists.
LEMMA AsLoaded ==
  /\ Checksum = Sum(enabled)
  /\ Image(enabled) = Read(BlockLists) \ (Read(AllowLists) \cap V4)
  BY DEF Sum, Image, KeysOf, Checksum, Read

-----------------------------------------------------------------------------
(* Each part of the invariant is preserved.                                *)

\* The step of the UI thread, and what is enabled.
LEMMA StepsNext ==
  ASSUME StepsOK, [Next]_vars
  PROVE  StepsOK'
<1>1. CASE CacheIsValid \/ CacheIsInvalid \/ ReadCache \/ Generate \/ SaveCache \/
          SaveCacheFails \/ SendAllow \/ SendBlock
  BY <1>1, ListLoadAssumption DEF CacheIsValid, CacheIsInvalid, ReadCache, Generate,
     SaveCache, SaveCacheFails, SendAllow, SendBlock, StepsOK, Steps, Rests, confVars,
     grantVars, loadVars, updateVars
<1>2. CASE SaveSettings \/ OpenUpdate \/ Abort \/ CloseUpdate \/ AfterUpdate
  BY <1>2, ListLoadAssumption DEF SaveSettings, OpenUpdate, Abort, CloseUpdate,
     AfterUpdate, StepsOK, Steps, Rests, LoadLists, Save, confVars, grantVars, loadVars,
     updateVars
<1>3. CASE NextList \/ Connect \/ NoConnect \/ DownloadFails
  BY <1>3, ListLoadAssumption DEF NextList, Connect, NoConnect, DownloadFails, StepsOK,
     Steps, Rests, confVars, grantVars, loadVars, updateVars
<1>4. CASE Launch \/ EndStartup \/ Quit \/ Crash \/ RelockEnds
  BY <1>4, ListLoadAssumption DEF Launch, EndStartup, Quit, Crash, RelockEnds, StepsOK,
     Steps, Rests, LoadLists, Save, Off, confVars, grantVars, loadVars, updateVars
<1>5. ASSUME NEW ls \in Choices, EditLists(ls) PROVE StepsOK'
  BY <1>5, ListLoadAssumption DEF EditLists, StepsOK, Steps, Rests, LoadLists, confVars,
     grantVars, loadVars, updateVars
<1>6. ASSUME NEW k \in V4, NEW limit \in Limits, TempAllow(k, limit) PROVE StepsOK'
  BY <1>6, ListLoadAssumption DEF TempAllow, StepsOK, Steps, Rests, LoadLists, confVars,
     grantVars, loadVars, updateVars
<1>7. ASSUME NEW g \in grants, Expire(g) PROVE StepsOK'
  BY <1>7, ListLoadAssumption DEF Expire, StepsOK, Steps, Rests, LoadLists, confVars,
     grantVars, loadVars, updateVars
<1>8. ASSUME NEW l \in DynamicLists, NEW ks \in Contents[l], Download(l, ks) PROVE StepsOK'
  <2> DEFINE new == [keys |-> ks, time |-> files[l].time + 1]
  <2>0. l \in Lists /\ new \in [keys : SUBSET Keys, time : Nat]
    BY <1>8, ListLoadAssumption DEF StepsOK
  <2>1. files' \in [Lists -> [keys : SUBSET Keys, time : Nat]]
    <3>1. files' = [files EXCEPT ![l] = new]
      BY <1>8 DEF Download, NewFile
    <3> HIDE DEF new
    <3> QED
      BY <2>0, <3>1 DEF StepsOK
  <2> QED
    BY <1>8, <2>1 DEF Download, StepsOK, Steps, Rests, confVars, loadVars
<1>9. ASSUME NEW l \in Lists \ DynamicLists, NEW ks \in Contents[l], EditFile(l, ks) PROVE StepsOK'
  <2> DEFINE new == [keys |-> ks, time |-> files[l].time + 1]
  <2>0. l \in Lists /\ new \in [keys : SUBSET Keys, time : Nat]
    BY <1>9, ListLoadAssumption DEF StepsOK
  <2>1. files' \in [Lists -> [keys : SUBSET Keys, time : Nat]]
    <3>1. files' = [files EXCEPT ![l] = new]
      BY <1>9 DEF EditFile, NewFile
    <3> HIDE DEF new
    <3> QED
      BY <2>0, <3>1 DEF StepsOK
  <2> QED
    BY <1>9, <2>1 DEF EditFile, StepsOK, Steps, Rests, confVars, loadVars
<1>10. CASE UNCHANGED vars
  BY <1>10 DEF vars, StepsOK, Steps, Rests, confVars, grantVars, loadVars, updateVars
<1> QED
  BY <1>1, <1>2, <1>3, <1>4, <1>5, <1>6, <1>7, <1>8, <1>9, <1>10 DEF Next, Load, Update

\* The time of a file is that of its last change, and no checksum has a later one.
LEMMA FilesNext ==
  ASSUME StepsOK, FilesOK, Past(crc), Past(disk.crc), [Next]_vars
  PROVE  (FilesOK /\ Past(crc) /\ Past(disk.crc))'
<1>1. CASE CacheIsInvalid
  <2>1. \A l \in Lists, t \in Nat : [list |-> l, time |-> t] \in Checksum => t <= files[l].time
    <3> SUFFICES ASSUME NEW l \in Lists, NEW t \in Nat, [list |-> l, time |-> t] \in Checksum
                 PROVE  t <= files[l].time
      OBVIOUS
    <3>1. PICK m \in enabled : [list |-> l, time |-> t] = [list |-> m, time |-> files[m].time]
      BY DEF Checksum
    <3>2. l = m /\ t = files[m].time
      BY <3>1
    <3> QED
      BY <3>2
  <2> QED
    BY <1>1, <2>1 DEF CacheIsInvalid, FilesOK, Past
<1>2. CASE CacheIsValid \/ ReadCache \/ Generate \/ SaveCache \/ SaveCacheFails \/ SendAllow
          \/ SendBlock
  BY <1>2, ListLoadAssumption DEF CacheIsValid, ReadCache, Generate, SaveCache,
     SaveCacheFails, SendAllow, SendBlock, StepsOK, FilesOK, Past, confVars, grantVars,
     loadVars, updateVars
<1>3. CASE SaveSettings \/ OpenUpdate \/ Abort \/ CloseUpdate \/ AfterUpdate
  BY <1>3, ListLoadAssumption DEF SaveSettings, OpenUpdate, Abort, CloseUpdate,
     AfterUpdate, StepsOK, FilesOK, Past, LoadLists, Save, confVars, grantVars, loadVars,
     updateVars
<1>4. CASE NextList \/ Connect \/ NoConnect \/ DownloadFails
  BY <1>4, ListLoadAssumption DEF NextList, Connect, NoConnect, DownloadFails, StepsOK,
     FilesOK, Past, confVars, grantVars, loadVars, updateVars
<1>5. CASE Launch \/ EndStartup \/ Quit \/ Crash \/ RelockEnds
  BY <1>5, ListLoadAssumption DEF Launch, EndStartup, Quit, Crash, RelockEnds, StepsOK,
     FilesOK, Past, LoadLists, Save, Off, confVars, grantVars, loadVars, updateVars
<1>6. ASSUME NEW ls \in Choices, EditLists(ls) PROVE (FilesOK /\ Past(crc) /\ Past(disk.crc))'
  BY <1>6, ListLoadAssumption DEF EditLists, StepsOK, FilesOK, Past, LoadLists, confVars,
     grantVars, loadVars, updateVars
<1>7. ASSUME NEW k \in V4, NEW limit \in Limits, TempAllow(k, limit) PROVE (FilesOK /\ Past(crc) /\ Past(disk.crc))'
  BY <1>7, ListLoadAssumption DEF TempAllow, StepsOK, FilesOK, Past, LoadLists, confVars,
     grantVars, loadVars, updateVars
<1>8. ASSUME NEW g \in grants, Expire(g) PROVE (FilesOK /\ Past(crc) /\ Past(disk.crc))'
  BY <1>8, ListLoadAssumption DEF Expire, StepsOK, FilesOK, Past, LoadLists, confVars,
     grantVars, loadVars, updateVars
<1>9. ASSUME NEW l \in DynamicLists, NEW ks \in Contents[l], Download(l, ks) PROVE (FilesOK /\ Past(crc) /\ Past(disk.crc))'
  BY <1>9, ListLoadAssumption DEF Download, StepsOK, FilesOK, Past, NewFile, confVars,
     grantVars, loadVars, updateVars
<1>10. ASSUME NEW l \in Lists \ DynamicLists, NEW ks \in Contents[l], EditFile(l, ks) PROVE (FilesOK /\ Past(crc) /\ Past(disk.crc))'
  BY <1>10, ListLoadAssumption DEF EditFile, StepsOK, FilesOK, Past, NewFile, confVars,
     grantVars, loadVars, updateVars
<1>11. CASE UNCHANGED vars
  BY <1>11 DEF vars, StepsOK, FilesOK, Past, confVars, grantVars, loadVars, updateVars
<1> QED
  BY <1>1, <1>2, <1>3, <1>4, <1>5, <1>6, <1>7, <1>8, <1>9, <1>10, <1>11 DEF Next, Load,
     Update

\* The temporary addresses are those of the rules in force, save those cut short.
LEMMA TemporaryNext ==
  ASSUME Temporary, [Next]_vars
  PROVE  Temporary'
<1>1. CASE CacheIsValid \/ CacheIsInvalid \/ ReadCache \/ Generate \/ SaveCache \/
          SaveCacheFails \/ SendAllow \/ SendBlock
  BY <1>1, ListLoadAssumption DEF CacheIsValid, CacheIsInvalid, ReadCache, Generate,
     SaveCache, SaveCacheFails, SendAllow, SendBlock, Temporary, confVars, grantVars,
     loadVars, updateVars
<1>2. CASE SaveSettings \/ OpenUpdate \/ Abort \/ CloseUpdate \/ AfterUpdate
  BY <1>2, ListLoadAssumption DEF SaveSettings, OpenUpdate, Abort, CloseUpdate,
     AfterUpdate, Temporary, LoadLists, Save, confVars, grantVars, loadVars, updateVars
<1>3. CASE NextList \/ Connect \/ NoConnect \/ DownloadFails
  BY <1>3, ListLoadAssumption DEF NextList, Connect, NoConnect, DownloadFails, Temporary,
     confVars, grantVars, loadVars, updateVars
<1>4. CASE Launch \/ EndStartup \/ Quit \/ Crash \/ RelockEnds
  BY <1>4, ListLoadAssumption DEF Launch, EndStartup, Quit, Crash, RelockEnds, Temporary,
     LoadLists, Save, Off, confVars, grantVars, loadVars, updateVars
<1>5. ASSUME NEW ls \in Choices, EditLists(ls) PROVE Temporary'
  BY <1>5, ListLoadAssumption DEF EditLists, Temporary, LoadLists, confVars, grantVars,
     loadVars, updateVars
<1>6. ASSUME NEW k \in V4, NEW limit \in Limits, TempAllow(k, limit) PROVE Temporary'
  <2> DEFINE new == [key |-> k, limit |-> limit]
  <2>1. {h.key : h \in grants \cup {new}} = {h.key : h \in grants} \cup {k}
    <3>1. new.key = k
      OBVIOUS
    <3> HIDE DEF new
    <3> QED
      BY <3>1
  <2>2. grants' = grants \cup {new} /\ tempallow' = tempallow \cup {k} /\ cut' = cut \ {k}
    BY <1>6 DEF TempAllow
  <2>3. \A h \in grants' : h.key \in V4
    BY <2>2 DEF Temporary
  <2> HIDE DEF new
  <2>4. {h.key : h \in grants'} = {h.key : h \in grants} \cup {k}
    BY <2>1, <2>2
  <2> QED
    BY <2>2, <2>3, <2>4 DEF Temporary
<1>7. ASSUME NEW g \in grants, Expire(g) PROVE Temporary'
  BY <1>7, ListLoadAssumption DEF Expire, Temporary, LoadLists, confVars, grantVars,
     loadVars, updateVars
<1>8. ASSUME NEW l \in DynamicLists, NEW ks \in Contents[l], Download(l, ks) PROVE Temporary'
  BY <1>8, ListLoadAssumption DEF Download, Temporary, NewFile, confVars, grantVars,
     loadVars, updateVars
<1>9. ASSUME NEW l \in Lists \ DynamicLists, NEW ks \in Contents[l], EditFile(l, ks) PROVE Temporary'
  BY <1>9, ListLoadAssumption DEF EditFile, Temporary, NewFile, confVars, grantVars,
     loadVars, updateVars
<1>10. CASE UNCHANGED vars
  BY <1>10 DEF vars, Temporary, confVars, grantVars, loadVars, updateVars
<1> QED
  BY <1>1, <1>2, <1>3, <1>4, <1>5, <1>6, <1>7, <1>8, <1>9, <1>10 DEF Next, Load, Update

\* Each call of LoadLists leaves the temporary addresses out of the block list.
LEMMA NotBlockedNext ==
  ASSUME StepsOK, Temporary, NotBlocked, [Next]_vars
  PROVE  NotBlocked'
<1>1. CASE CacheIsValid
  BY <1>1, ListLoadAssumption DEF CacheIsValid, StepsOK, Temporary, NotBlocked, Steps,
     Rests, Allowed, confVars, grantVars, loadVars, updateVars
<1>2. CASE CacheIsInvalid
  BY <1>2, ListLoadAssumption DEF CacheIsInvalid, StepsOK, Temporary, NotBlocked, Steps,
     Rests, Allowed, confVars, grantVars, loadVars, updateVars
<1>3. CASE ReadCache
  BY <1>3, ListLoadAssumption DEF ReadCache, StepsOK, Temporary, NotBlocked, Steps,
     Rests, Allowed, confVars, grantVars, loadVars, updateVars
<1>4. CASE Generate
  BY <1>4, ListLoadAssumption DEF Generate, StepsOK, Temporary, NotBlocked, Steps, Rests,
     Allowed, confVars, grantVars, loadVars, updateVars
<1>5. CASE SaveCache
  BY <1>5, ListLoadAssumption DEF SaveCache, StepsOK, Temporary, NotBlocked, Steps,
     Rests, Allowed, confVars, grantVars, loadVars, updateVars
<1>6. CASE SaveCacheFails
  BY <1>6, ListLoadAssumption DEF SaveCacheFails, StepsOK, Temporary, NotBlocked, Steps,
     Rests, Allowed, confVars, grantVars, loadVars, updateVars
<1>7. CASE SendAllow
  BY <1>7, ListLoadAssumption DEF SendAllow, StepsOK, Temporary, NotBlocked, Steps,
     Rests, Allowed, confVars, grantVars, loadVars, updateVars
<1>8. CASE SendBlock
  BY <1>8, ListLoadAssumption DEF SendBlock, StepsOK, Temporary, NotBlocked, Steps,
     Rests, Allowed, confVars, grantVars, loadVars, updateVars
<1>9. CASE SaveSettings \/ OpenUpdate \/ Abort \/ CloseUpdate \/ AfterUpdate
  BY <1>9, ListLoadAssumption DEF SaveSettings, OpenUpdate, Abort, CloseUpdate,
     AfterUpdate, StepsOK, Temporary, NotBlocked, Steps, Rests, Allowed, LoadLists, Save,
     confVars, grantVars, loadVars, updateVars
<1>10. CASE NextList
  BY <1>10, ListLoadAssumption DEF NextList, StepsOK, Temporary, NotBlocked, Steps,
     Rests, Allowed, confVars, grantVars, loadVars, updateVars
<1>11. CASE Connect
  BY <1>11, ListLoadAssumption DEF Connect, StepsOK, Temporary, NotBlocked, Steps, Rests,
     Allowed, confVars, grantVars, loadVars, updateVars
<1>12. CASE NoConnect
  BY <1>12, ListLoadAssumption DEF NoConnect, StepsOK, Temporary, NotBlocked, Steps,
     Rests, Allowed, confVars, grantVars, loadVars, updateVars
<1>13. CASE DownloadFails
  BY <1>13, ListLoadAssumption DEF DownloadFails, StepsOK, Temporary, NotBlocked, Steps,
     Rests, Allowed, confVars, grantVars, loadVars, updateVars
<1>14. CASE Launch
  BY <1>14, ListLoadAssumption DEF Launch, StepsOK, Temporary, NotBlocked, Steps, Rests,
     Allowed, LoadLists, confVars, grantVars, loadVars, updateVars
<1>15. CASE EndStartup
  BY <1>15, ListLoadAssumption DEF EndStartup, StepsOK, Temporary, NotBlocked, Steps,
     Rests, Allowed, confVars, grantVars, loadVars, updateVars
<1>16. CASE Quit
  BY <1>16, ListLoadAssumption DEF Quit, StepsOK, Temporary, NotBlocked, Steps, Rests,
     Allowed, Save, Off, confVars, grantVars, loadVars, updateVars
<1>17. CASE Crash
  BY <1>17, ListLoadAssumption DEF Crash, StepsOK, Temporary, NotBlocked, Steps, Rests,
     Allowed, Off, confVars, grantVars, loadVars, updateVars
<1>18. CASE RelockEnds
  BY <1>18, ListLoadAssumption DEF RelockEnds, StepsOK, Temporary, NotBlocked, Steps,
     Rests, Allowed, Off, confVars, grantVars, loadVars, updateVars
<1>19. ASSUME NEW ls \in Choices, EditLists(ls) PROVE NotBlocked'
  BY <1>19, ListLoadAssumption DEF EditLists, StepsOK, Temporary, NotBlocked, Steps,
     Rests, Allowed, LoadLists, confVars, grantVars, loadVars, updateVars
<1>20. ASSUME NEW k \in V4, NEW limit \in Limits, TempAllow(k, limit) PROVE NotBlocked'
  BY <1>20, ListLoadAssumption DEF TempAllow, StepsOK, Temporary, NotBlocked, Steps,
     Rests, Allowed, LoadLists, confVars, grantVars, loadVars, updateVars
<1>21. ASSUME NEW g \in grants, Expire(g) PROVE NotBlocked'
  BY <1>21, ListLoadAssumption DEF Expire, StepsOK, Temporary, NotBlocked, Steps, Rests,
     Allowed, LoadLists, confVars, grantVars, loadVars, updateVars
<1>22. ASSUME NEW l \in DynamicLists, NEW ks \in Contents[l], Download(l, ks) PROVE NotBlocked'
  BY <1>22, ListLoadAssumption DEF Download, StepsOK, Temporary, NotBlocked, Steps,
     Rests, Allowed, NewFile, confVars, grantVars, loadVars, updateVars
<1>23. ASSUME NEW l \in Lists \ DynamicLists, NEW ks \in Contents[l], EditFile(l, ks) PROVE NotBlocked'
  BY <1>23, ListLoadAssumption DEF EditFile, StepsOK, Temporary, NotBlocked, Steps,
     Rests, Allowed, NewFile, confVars, grantVars, loadVars, updateVars
<1>24. CASE UNCHANGED vars
  BY <1>24 DEF vars, StepsOK, Temporary, NotBlocked, Steps, Rests, Allowed, confVars,
     grantVars, loadVars, updateVars
<1> QED
  BY <1>1, <1>2, <1>3, <1>4, <1>5, <1>6, <1>7, <1>8, <1>9, <1>10, <1>11, <1>12, <1>13,
     <1>14, <1>15, <1>16, <1>17, <1>18, <1>19, <1>20, <1>21, <1>22, <1>23, <1>24 DEF Next,
     Load, Update

\* While it is not stale the cache is good for the checksum that the next call compares it
\* with.
LEMMA CacheNext ==
  ASSUME StepsOK, FilesOK, Past(crc), Past(disk.crc), CacheGood, Loaded, [Next]_vars
  PROVE  CacheGood'
<1>1. CASE CacheIsValid \/ CacheIsInvalid \/ ReadCache \/ Generate
  BY <1>1, ListLoadAssumption, SameFiles, SameSum, AsLoaded DEF CacheIsValid,
     CacheIsInvalid, ReadCache, Generate, StepsOK, CacheGood, MadeFrom, Loaded, Steps,
     Rests, confVars, grantVars, loadVars, updateVars
<1>2. CASE SaveCache
  BY <1>2, ListLoadAssumption, SameFiles, SameSum, AsLoaded DEF SaveCache, StepsOK,
     CacheGood, MadeFrom, Loaded, Steps, Rests, confVars, grantVars, loadVars, updateVars
<1>3. CASE SaveCacheFails
  BY <1>3, ListLoadAssumption, SameFiles, SameSum, AsLoaded DEF SaveCacheFails, StepsOK,
     CacheGood, MadeFrom, Loaded, Steps, Rests, confVars, grantVars, loadVars, updateVars
<1>4. CASE SendAllow \/ SendBlock
  BY <1>4, ListLoadAssumption, SameFiles, SameSum, AsLoaded DEF SendAllow, SendBlock,
     StepsOK, CacheGood, MadeFrom, Loaded, Steps, Rests, confVars, grantVars, loadVars,
     updateVars
<1>5. CASE SaveSettings \/ OpenUpdate \/ Abort \/ CloseUpdate \/ AfterUpdate
  BY <1>5, ListLoadAssumption, SameFiles, SameSum, AsLoaded DEF SaveSettings, OpenUpdate,
     Abort, CloseUpdate, AfterUpdate, StepsOK, CacheGood, MadeFrom, Loaded, Steps, Rests,
     LoadLists, Save, confVars, grantVars, loadVars, updateVars
<1>6. CASE NextList \/ Connect \/ NoConnect \/ DownloadFails
  BY <1>6, ListLoadAssumption, SameFiles, SameSum, AsLoaded DEF NextList, Connect,
     NoConnect, DownloadFails, StepsOK, CacheGood, MadeFrom, Loaded, Steps, Rests, confVars,
     grantVars, loadVars, updateVars
<1>7. CASE Launch
  BY <1>7, ListLoadAssumption, SameFiles, SameSum, AsLoaded DEF Launch, StepsOK,
     CacheGood, MadeFrom, Loaded, Steps, Rests, LoadLists, confVars, grantVars, loadVars,
     updateVars
<1>8. CASE EndStartup
  BY <1>8, ListLoadAssumption, SameFiles, SameSum, AsLoaded DEF EndStartup, StepsOK,
     CacheGood, MadeFrom, Loaded, Steps, Rests, confVars, grantVars, loadVars, updateVars
<1>9. CASE Quit
  BY <1>9, ListLoadAssumption, SameFiles, SameSum, AsLoaded DEF Quit, StepsOK, CacheGood,
     MadeFrom, Loaded, Steps, Rests, Save, Off, confVars, grantVars, loadVars, updateVars
<1>10. CASE Crash
  BY <1>10, ListLoadAssumption, SameFiles, SameSum, AsLoaded DEF Crash, StepsOK,
     CacheGood, MadeFrom, Loaded, Steps, Rests, Off, confVars, grantVars, loadVars,
     updateVars
<1>11. CASE RelockEnds
  BY <1>11, ListLoadAssumption, SameFiles, SameSum, AsLoaded DEF RelockEnds, StepsOK,
     CacheGood, MadeFrom, Loaded, Steps, Rests, Off, confVars, grantVars, loadVars,
     updateVars
<1>12. ASSUME NEW ls \in Choices, EditLists(ls) PROVE CacheGood'
  BY <1>12, ListLoadAssumption, SameFiles, SameSum, AsLoaded DEF EditLists, StepsOK,
     CacheGood, MadeFrom, Loaded, Steps, Rests, LoadLists, confVars, grantVars, loadVars,
     updateVars
<1>13. ASSUME NEW k \in V4, NEW limit \in Limits, TempAllow(k, limit) PROVE CacheGood'
  BY <1>13, ListLoadAssumption, SameFiles, SameSum, AsLoaded DEF TempAllow, StepsOK,
     CacheGood, MadeFrom, Loaded, Steps, Rests, LoadLists, confVars, grantVars, loadVars,
     updateVars
<1>14. ASSUME NEW g \in grants, Expire(g) PROVE CacheGood'
  BY <1>14, ListLoadAssumption, SameFiles, SameSum, AsLoaded DEF Expire, StepsOK,
     CacheGood, MadeFrom, Loaded, Steps, Rests, LoadLists, confVars, grantVars, loadVars,
     updateVars
<1>15. ASSUME NEW l \in DynamicLists, NEW ks \in Contents[l], Download(l, ks) PROVE CacheGood'
  <2>1. NewFile(l, ks) /\ l \in Lists
    BY <1>15, ListLoadAssumption DEF Download
  <2>2. \A ls \in SUBSET Lists : Sum(ls)' = crc => Sum(ls) = crc /\ Image(ls)' = Image(ls)
    BY <2>1, OldSum DEF StepsOK
  <2>3. \A ls \in SUBSET Lists : Sum(ls)' = disk.crc => Sum(ls) = disk.crc /\ Image(ls)' = Image(ls)
    BY <2>1, OldSum DEF StepsOK
  <2> QED
    BY <1>15, <2>2, <2>3 DEF Download, CacheGood, MadeFrom, confVars, loadVars
<1>16. ASSUME NEW l \in Lists \ DynamicLists, NEW ks \in Contents[l], EditFile(l, ks) PROVE CacheGood'
  <2>1. NewFile(l, ks) /\ l \in Lists
    BY <1>16, ListLoadAssumption DEF EditFile
  <2>2. \A ls \in SUBSET Lists : Sum(ls)' = crc => Sum(ls) = crc /\ Image(ls)' = Image(ls)
    BY <2>1, OldSum DEF StepsOK
  <2>3. \A ls \in SUBSET Lists : Sum(ls)' = disk.crc => Sum(ls) = disk.crc /\ Image(ls)' = Image(ls)
    BY <2>1, OldSum DEF StepsOK
  <2> QED
    BY <1>16, <2>2, <2>3 DEF EditFile, CacheGood, MadeFrom, confVars, loadVars
<1>17. CASE UNCHANGED vars
  BY <1>17, SameFiles DEF vars, StepsOK, CacheGood, MadeFrom, Loaded, Steps, Rests,
     confVars, grantVars, loadVars, updateVars
<1> QED
  BY <1>1, <1>2, <1>3, <1>4, <1>5, <1>6, <1>7, <1>8, <1>9, <1>10, <1>11, <1>12, <1>13,
     <1>14, <1>15, <1>16, <1>17 DEF Next, Load, Update

\* What LoadLists has in hand, and what it has sent, is what the files say.
LEMMA LoadedNext ==
  ASSUME StepsOK, FilesOK, Temporary, CacheGood, Loaded, [Next]_vars
  PROVE  Loaded'
<1>1. CASE CacheIsValid
  BY <1>1, ListLoadAssumption, SameLists, AsLoaded DEF CacheIsValid, StepsOK, CacheGood,
     MadeFrom, Loaded, Steps, Rests, confVars, grantVars, loadVars, updateVars
<1>2. CASE CacheIsInvalid
  BY <1>2, ListLoadAssumption, SameLists, AsLoaded DEF CacheIsInvalid, StepsOK,
     CacheGood, MadeFrom, Loaded, Steps, Rests, confVars, grantVars, loadVars, updateVars
<1>3. CASE ReadCache
  BY <1>3, ListLoadAssumption, SameLists, AsLoaded DEF ReadCache, StepsOK, CacheGood,
     MadeFrom, Loaded, Steps, Rests, confVars, grantVars, loadVars, updateVars
<1>4. CASE Generate
  BY <1>4, ListLoadAssumption, SameLists, AsLoaded DEF Generate, StepsOK, CacheGood,
     MadeFrom, Loaded, Steps, Rests, confVars, grantVars, loadVars, updateVars
<1>5. CASE SaveCache
  BY <1>5, ListLoadAssumption, SameLists, AsLoaded DEF SaveCache, StepsOK, CacheGood,
     MadeFrom, Loaded, Steps, Rests, confVars, grantVars, loadVars, updateVars
<1>6. CASE SaveCacheFails
  BY <1>6, ListLoadAssumption, SameLists, AsLoaded DEF SaveCacheFails, StepsOK,
     CacheGood, MadeFrom, Loaded, Steps, Rests, confVars, grantVars, loadVars, updateVars
<1>7. CASE SendAllow
  <2>1. /\ pc = "allow" /\ pc' = "block" /\ work' = work \ (Allowed \cap V4)
        /\ files' = files /\ enabled' = enabled /\ tempallow' = tempallow
        /\ stale' = stale /\ unread' = unread
    BY <1>7 DEF SendAllow, confVars, grantVars
  <2>2. Allowed' = Allowed /\ ToBlock' = ToBlock
    BY <2>1, SameLists
  <2>3. ~unread /\ ~stale => work' = ToBlock
    BY <2>1 DEF Loaded, ToBlock
  <2>4. Allowed # {} => driver'.allow = Allowed
    <3>1. Allowed # {} => driver' = [driver EXCEPT !.allow = Allowed]
      BY <1>7 DEF SendAllow
    <3> QED
      BY <3>1 DEF StepsOK
  <2> QED
    BY <2>1, <2>2, <2>3, <2>4 DEF Loaded
<1>8. CASE SendBlock
  BY <1>8, ListLoadAssumption, SameLists, AsLoaded DEF SendBlock, StepsOK, CacheGood,
     MadeFrom, Loaded, Steps, Rests, confVars, grantVars, loadVars, updateVars
<1>9. CASE SaveSettings \/ OpenUpdate \/ Abort \/ CloseUpdate \/ AfterUpdate
  BY <1>9, ListLoadAssumption, SameLists, AsLoaded DEF SaveSettings, OpenUpdate, Abort,
     CloseUpdate, AfterUpdate, StepsOK, CacheGood, MadeFrom, Loaded, Steps, Rests,
     LoadLists, Save, confVars, grantVars, loadVars, updateVars
<1>10. CASE NextList
  BY <1>10, ListLoadAssumption, SameLists, AsLoaded DEF NextList, StepsOK, CacheGood,
     MadeFrom, Loaded, Steps, Rests, confVars, grantVars, loadVars, updateVars
<1>11. CASE Connect
  BY <1>11, ListLoadAssumption, SameLists, AsLoaded DEF Connect, StepsOK, CacheGood,
     MadeFrom, Loaded, Steps, Rests, confVars, grantVars, loadVars, updateVars
<1>12. CASE NoConnect
  BY <1>12, ListLoadAssumption, SameLists, AsLoaded DEF NoConnect, StepsOK, CacheGood,
     MadeFrom, Loaded, Steps, Rests, confVars, grantVars, loadVars, updateVars
<1>13. CASE DownloadFails
  BY <1>13, ListLoadAssumption, SameLists, AsLoaded DEF DownloadFails, StepsOK,
     CacheGood, MadeFrom, Loaded, Steps, Rests, confVars, grantVars, loadVars, updateVars
<1>14. CASE Launch
  BY <1>14, ListLoadAssumption, SameLists, AsLoaded DEF Launch, StepsOK, CacheGood,
     MadeFrom, Loaded, Steps, Rests, LoadLists, confVars, grantVars, loadVars, updateVars
<1>15. CASE EndStartup
  BY <1>15, ListLoadAssumption, SameLists, AsLoaded DEF EndStartup, StepsOK, CacheGood,
     MadeFrom, Loaded, Steps, Rests, confVars, grantVars, loadVars, updateVars
<1>16. CASE Quit
  BY <1>16, ListLoadAssumption, SameLists, AsLoaded DEF Quit, StepsOK, CacheGood,
     MadeFrom, Loaded, Steps, Rests, Save, Off, confVars, grantVars, loadVars, updateVars
<1>17. CASE Crash
  BY <1>17, ListLoadAssumption, SameLists, AsLoaded DEF Crash, StepsOK, CacheGood,
     MadeFrom, Loaded, Steps, Rests, Off, confVars, grantVars, loadVars, updateVars
<1>18. CASE RelockEnds
  BY <1>18, ListLoadAssumption, SameLists, AsLoaded DEF RelockEnds, StepsOK, CacheGood,
     MadeFrom, Loaded, Steps, Rests, Off, confVars, grantVars, loadVars, updateVars
<1>19. ASSUME NEW ls \in Choices, EditLists(ls) PROVE Loaded'
  BY <1>19, ListLoadAssumption, SameLists, AsLoaded DEF EditLists, StepsOK, CacheGood,
     MadeFrom, Loaded, Steps, Rests, LoadLists, confVars, grantVars, loadVars, updateVars
<1>20. ASSUME NEW k \in V4, NEW limit \in Limits, TempAllow(k, limit) PROVE Loaded'
  BY <1>20, ListLoadAssumption, SameLists, AsLoaded DEF TempAllow, StepsOK, CacheGood,
     MadeFrom, Loaded, Steps, Rests, LoadLists, confVars, grantVars, loadVars, updateVars
<1>21. ASSUME NEW g \in grants, Expire(g) PROVE Loaded'
  BY <1>21, ListLoadAssumption, SameLists, AsLoaded DEF Expire, StepsOK, CacheGood,
     MadeFrom, Loaded, Steps, Rests, LoadLists, confVars, grantVars, loadVars, updateVars
<1>22. ASSUME NEW l \in DynamicLists, NEW ks \in Contents[l], Download(l, ks) PROVE Loaded'
  BY <1>22, ListLoadAssumption, SameLists, AsLoaded DEF Download, StepsOK, CacheGood,
     MadeFrom, Loaded, Steps, Rests, NewFile, confVars, grantVars, loadVars, updateVars
<1>23. ASSUME NEW l \in Lists \ DynamicLists, NEW ks \in Contents[l], EditFile(l, ks) PROVE Loaded'
  BY <1>23, ListLoadAssumption, SameLists, AsLoaded DEF EditFile, StepsOK, CacheGood,
     MadeFrom, Loaded, Steps, Rests, NewFile, confVars, grantVars, loadVars, updateVars
<1>24. CASE UNCHANGED vars
  BY <1>24, SameLists DEF vars, StepsOK, CacheGood, MadeFrom, Loaded, Steps, Rests,
     confVars, grantVars, loadVars, updateVars
<1> QED
  BY <1>1, <1>2, <1>3, <1>4, <1>5, <1>6, <1>7, <1>8, <1>9, <1>10, <1>11, <1>12, <1>13,
     <1>14, <1>15, <1>16, <1>17, <1>18, <1>19, <1>20, <1>21, <1>22, <1>23, <1>24 DEF Next,
     Load, Update

-----------------------------------------------------------------------------
(* The invariant.                                                          *)

\* For which checksum the cache is good, and what of the lists is where, at every step
\* of LoadLists and of the commands that call it.
THEOREM LoadInvariant == Spec => []LoadInv
<1>1. Init => LoadInv
  BY ListLoadAssumption DEF Init, LoadInv, StepsOK, FilesOK, Past, Temporary, NotBlocked, CacheGood, Loaded, Steps, Rests, NoFile
<1>2. LoadInv /\ [Next]_vars => LoadInv'
  BY StepsNext, FilesNext, TemporaryNext, NotBlockedNext, CacheNext, LoadedNext DEF LoadInv
<1> QED
  BY <1>1, <1>2, PTL DEF Spec

-----------------------------------------------------------------------------
(* What follows from it.                                                   *)

\* An address that the log has allowed for a while is not blocked while its rule is in
\* force, for any lists, rules, files and updates.
THEOREM GrantsHold == Spec => []GrantHolds
<1>1. LoadInv => GrantHolds
  BY DEF LoadInv, Temporary, NotBlocked, Rests, GrantHolds
<1> QED
  BY <1>1, LoadInvariant, PTL

\* Between two commands the driver has the lists that the files and the rules say, with
\* the exceptions that DriverHasLists names.
THEOREM DriverHasTheLists == Spec => []DriverHasLists
<1>1. LoadInv => DriverHasLists
  <2> SUFFICES ASSUME LoadInv, pc = "idle" PROVE DriverHasLists
    BY DEF DriverHasLists
  <2>1. Allowed = Due
    BY DEF LoadInv, Temporary, Allowed, Due
  <2>2. ToBlock = Read(BlockLists) \ (Due \cap V4)
    BY <2>1, AsLoaded DEF ToBlock, Allowed
  <2> QED
    BY <2>1, <2>2 DEF LoadInv, Loaded, DriverHasLists
<1> QED
  BY <1>1, LoadInvariant, PTL
=============================================================================
