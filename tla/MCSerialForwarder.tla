-------------------------- MODULE MCSerialForwarder --------------------------
(* An instance of SerialForwarder for TLC: two clients, and packets with bytes *)
(* that have to be escaped.                                                    *)
EXTENDS SerialForwarder

MCNoise == <<<<1>>>>
MCFromBase ==
  <<<<P_PACKET_NO_ACK, <<5>>>>, <<P_PACKET_ACK, <<1>>, SYNC_BYTE>>, <<P_PACKET_NO_ACK, <<7>>>>>>
MCFromClients == {<<ESCAPE_BYTE>>, <<<<9>>>>}
Quiet == [connect |-> 0, close |-> 0, faults |-> 0, faulted |-> 0, packets |-> {}, sends |-> 3]
MCBudgets ==
  {[Quiet EXCEPT !.faults = 1],
   [Quiet EXCEPT !.connect = 1, !.packets = MCFromClients],
   [Quiet EXCEPT !.connect = 1, !.packets = {<<ESCAPE_BYTE>>}, !.faults = 1, !.sends = 1],
   [Quiet EXCEPT !.connect = 2, !.close = 1]}
\* Whole frames and odd parts of them.
MCArrivals(n) == {k \in 0 .. n : k % 5 = 0 \/ k = n}

Waits ==
  \/ /\ loop.at = "select" /\ toPC = <<>> /\ serial_source_empty(src) /\ backlog = <<>>
     /\ \A c \in Range(clients) : ~Readable(c)
  \/ loop.at = "dispatch" /\ Full(Head(loop.left))
  \/ loop.at = "accept" /\ conns[Head(backlog)].open /\ conns[Head(backlog)].version = "unsaid"
  \/ loop.at = "read" /\ conns[Head(loop.left)].open /\ ~HasWhole(Head(loop.left))
\* FairSpec, with the steps told apart by what they change.
MCFairSpec ==
  /\ Spec
  /\ []<>Waits \/ []<><<<<loop, src, toPC>>' # <<loop, src, toPC>>>>_vars
  /\ []<>(\A c \in Conns : \A i \in DOMAIN conns[c].inbox : conns[c].open => conns[c].inbox[i].whole)
=============================================================================
