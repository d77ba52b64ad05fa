---------------------------- MODULE MCPbDriver -----------------------------
(* Instances of PbDriver for TLC: sessions (opening, cleanup, unloading,     *)
(* with the queue in all its stages and two plain connections) and verdicts  *)
(* (all lists, ports and flags, with nobody reading).                        *)
EXTENDS PbDriver, TLC
CONSTANTS s1, r1, n1, n2, n3, n4, x, y, z, p80, p1

Conn(callout, protocol, local, remote, addr, mapped) ==
  [callout |-> callout, protocol |-> protocol, localPort |-> local,
   remotePort |-> remote, addr |-> addr, mapped |-> mapped]

MCSenders == {s1}
MCHttpPorts == {p80}

SessionIrps == {r1}
SessionNotes == {n1, n2, n3}
SessionConns == {Conn("connect4", "other", p1, p1, x, None)}
SessionContents == [l \in ListNames |-> {{}}]
SessionFlags == {{}}

VerdictIrps == {}
VerdictNotes == {n1, n2}
VerdictSymmetry == Permutations(VerdictNotes)
V4Conns == {Conn("connect4", "tcp", p1, p80, x, None),
            Conn("connect4", "tcp", p1, p1, x, None),
            Conn("accept4", "udp", p80, p1, x, None)}
V6Conns == {Conn("connect6", "tcp", p1, p1, y, x),
            Conn("accept6", "udp", p1, p1, z, None)}
VerdictConns == V4Conns \cup V6Conns
VerdictContents ==
  [l \in ListNames |->
     IF l \in {"allowed", "blocked"} THEN {{}, {x}}
     ELSE IF l \in {"allowed6", "blocked6"} THEN {{}, {y, z}}
     ELSE {{}, {p1}}]
VerdictFlags == SUBSET Flags
=============================================================================
