----------------------------- MODULE ListStore -----------------------------
(***************************************************************************)
(* What the lists of the filter driver promise: a list is replaced as a    *)
(* whole, and a lookup sees, at one moment, one content of the list it     *)
(* starts at and of the list that is searched after it.                    *)
(***************************************************************************)
CONSTANTS Lists, RangeLists, After, Tables, Covers, Keys, Readers, None

VARIABLES
  content,  \* per list: the table it holds, or None
  asked,    \* per reader: the list and the key it looks up, or None
  answer    \* per reader: what it found last

vars == <<content, asked, answer>>

NotFound == [list |-> None, label |-> None, labelsid |-> None]

Init ==
  /\ content = [l \in Lists |-> None]
  /\ asked = [r \in Readers |-> None]
  /\ answer = [r \in Readers |-> NotFound]

Hit(l, x) == content[l] # None /\ x \in Covers[content[l]]

\* Labels go with the ranges, not with the ports.
Found(l) ==
  LET label == IF l \in RangeLists THEN content[l] ELSE None
  IN  [list |-> l, label |-> label, labelsid |-> label]

Decision(l, x) ==
  IF Hit(l, x) THEN Found(l)
  ELSE IF After[l] # None /\ Hit(After[l], x) THEN Found(After[l])
  ELSE NotFound

Replace(l, t) ==
  /\ content' = [content EXCEPT ![l] = t]
  /\ UNCHANGED <<asked, answer>>

Ask(r, l, x) ==
  /\ asked[r] = None
  /\ asked' = [asked EXCEPT ![r] = [list |-> l, key |-> x]]
  /\ answer' = [answer EXCEPT ![r] = NotFound]
  /\ UNCHANGED content

Answer(r) ==
  /\ asked[r] # None
  /\ answer' = [answer EXCEPT ![r] = Decision(asked[r].list, asked[r].key)]
  /\ asked' = [asked EXCEPT ![r] = None]
  /\ UNCHANGED content

Next ==
  \/ \E l \in Lists, t \in Tables \cup {None} : Replace(l, t)
  \/ \E r \in Readers, l \in Lists, x \in Keys : Ask(r, l, x)
  \/ \E r \in Readers : Answer(r)

Spec == Init /\ [][Next]_vars
=============================================================================
