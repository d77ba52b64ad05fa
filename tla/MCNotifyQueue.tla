--------------------------- MODULE MCNotifyQueue ---------------------------
(* Instance of NotifyQueue for TLC. *)
EXTENDS NotifyQueue
CONSTANTS s1, s2, r1, r2, n1, n2, n3
MCSenders == {s1, s2}
MCIrps == {r1, r2}
MCNotes == {n1, n2, n3}
=============================================================================
