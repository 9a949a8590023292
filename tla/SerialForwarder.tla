--------------------------- MODULE SerialForwarder ---------------------------
(***************************************************************************)
(* The serial forwarder (tools/sf: sf.c, sfsource.c), between a base       *)
(* station and its clients, of which the master's router is one.  It is    *)
(* one thread, which blocks in `select`, but also while it waits for a     *)
(* client's version, for the rest of a client's packet, for room in the    *)
(* socket of a client that does not read, and for the base station's       *)
(* acknowledgement of a packet: loop.at says where.                        *)
(*                                                                         *)
(* The serial stack of the base station is not under src/ and is modelled  *)
(* by what the protocol asks of it.  The line loses, changes and adds      *)
(* bytes.                                                                  *)
(***************************************************************************)
EXTENDS SerialSource, FiniteSets

CONSTANTS
  Conns,        \* the connections clients make
  Noise,        \* bytes that are on the line at the start
  FromBase,     \* the packets the base station sends, in order: [type, data]
  FromClients,  \* the packets clients send
  Room,         \* packets that fit a client's socket until it reads one
  Arrivals(_),  \* bound: how many of n bytes on the line may have arrived, n among them
  Budgets       \* bounds: what clients and the line may do, and how often

ASSUME ForwarderAssumption == Room \in Nat \ {0}

VARIABLES
  src,       \* the serial source
  loop,      \* [at, ready, accept, checks, left, packet]: ready are the readable
             \* descriptors and accept the server's socket at the last select,
             \* checks the calls of check_serial to come, left the clients not
             \* yet written to or looked at
  clients,   \* the list of clients, the newest first
  conns,     \* connection -> [fd, open, version, inbox, unread]: unread packets
             \* have been written to it and not been read
  backlog,   \* connections not yet accepted
  toPC,      \* bytes on the way from the base station
  toBase,    \* frames on the way to it
  base,      \* external: [rx, got, sent]: its receiver, packets got, number sent
  dispatched, acked,  \* history: packets given to clients; written with success
  budget

vars == <<src, loop, clients, conns, backlog, toPC, toBase, base, dispatched, acked, budget>>
outside == <<conns, backlog, base, budget>>

SEQNOS == 256
NoConn == [fd |-> 0, open |-> TRUE, version |-> "unsaid", inbox |-> <<>>, unread |-> 0]
AtSelect == [at |-> "select", ready |-> {}, accept |-> FALSE, checks |-> 0, left |-> <<>>, packet |-> <<>>]

-----------------------------------------------------------------------------
(* The serial side.                                                         *)

\* The source with the first k bytes of the line arrived, and back again.
Arrived(k) == src @@ [device |-> SubSeq(toPC, 1, k), written |-> <<>>]
Source(s) == [f \in DOMAIN src |-> s[f]]
Line(s, k) == s.device \o SubSeq(toPC, k + 1, Len(toPC))

\* A write to the socket of this client waits: new_client has made it blocking.
Full(c) == conns[c].open /\ conns[c].unread = Room

\* dispatch_packet, from the clients of `left` on: one has the packet as soon as
\* there is room for it.  A client is removed if the write to it fails, which it
\* may do when the client has closed.
Dispatch(left, l) ==
  LET full == SelectInSeq(left, Full)
      written == Range(IF full = 0 THEN left ELSE SubSeq(left, 1, full - 1))
      turn == [l EXCEPT !.left = clients']
  IN
  /\ \E failed \in SUBSET {c \in written : ~conns[c].open} :
       clients' = SelectSeq(clients, LAMBDA c : c \notin failed)
  /\ conns' = [c \in Conns |-> IF c \in written /\ conns[c].open
                                THEN [conns[c] EXCEPT !.unread = @ + 1] ELSE conns[c]]
  /\ loop' = CASE full # 0 -> [l EXCEPT !.at = "dispatch", !.left = SubSeq(left, full, Len(left))]
               [] full = 0 /\ l.checks > 0 -> [l EXCEPT !.at = "serial"]
               [] full = 0 /\ l.checks = 0 -> [turn EXCEPT !.at = IF l.accept THEN "accept" ELSE "clients"]

\* check_serial when k bytes have arrived; l is what the turn has left to do.
check_serial(k, l) ==
  \E read \in {read_serial_packet(Arrived(k))} :
    /\ src' = Source(read.src) /\ toPC' = Line(read.src, k)
    /\ toBase' = toBase \o read.src.written
    /\ dispatched' = dispatched \o read.packets
    /\ Dispatch(IF read.packets = <<>> THEN <<>> ELSE clients, l)

Readable(c) == conns[c].inbox # <<>> \/ ~conns[c].open

\* One turn of the main loop, to the first check_serial.  select blocks while
\* nothing is readable, unless the source has something left, which is then
\* checked before the device.
Select(k) ==
  LET ready == {conns[c].fd : c \in {c \in Range(clients) : Readable(c)}}
      checks == (IF serial_source_empty(src) THEN 0 ELSE 1) + (IF k > 0 THEN 1 ELSE 0)
      turn == [AtSelect EXCEPT !.ready = ready, !.accept = backlog # <<>>]
  IN
  /\ loop.at = "select"
  /\ checks > 0 \/ ready # {} \/ backlog # <<>>
  /\ IF checks > 0 THEN check_serial(k, [turn EXCEPT !.checks = checks - 1])
     ELSE Dispatch(<<>>, turn) /\ UNCHANGED <<src, toPC, toBase, dispatched>>
  /\ UNCHANGED <<backlog, base, budget, acked>>
CheckSerial(k) ==
  /\ loop.at = "serial"
  /\ check_serial(k, [loop EXCEPT !.checks = @ - 1])
  /\ UNCHANGED <<backlog, base, budget, acked>>
\* The client that was waited for has read, or closed.
DispatchOn ==
  /\ loop.at = "dispatch" /\ ~Full(Head(loop.left))
  /\ Dispatch(loop.left, loop)
  /\ UNCHANGED <<src, toPC, toBase, dispatched, backlog, base, budget, acked>>

-----------------------------------------------------------------------------
(* The clients.                                                             *)

LeastFree == CHOOSE fd \in 1 .. Len(clients) + 1 :
               /\ \A c \in Range(clients) : conns[c].fd # fd
               /\ \A e \in 1 .. fd - 1 : \E c \in Range(clients) : conns[c].fd = e

\* check_new_client, new_client: init_sf_source waits until the client has said
\* its version or has closed.
NewClient ==
  LET c == Head(backlog) IN
  /\ loop.at = "accept" /\ (conns[c].version # "unsaid" \/ ~conns[c].open)
  /\ clients' = IF conns[c].version = "good" THEN <<c>> \o clients ELSE clients
  /\ conns' = [conns EXCEPT ![c].fd = LeastFree]
  /\ backlog' = Tail(backlog)
  /\ loop' = [loop EXCEPT !.at = "clients", !.accept = FALSE, !.left = clients']
  /\ UNCHANGED <<src, toPC, toBase, base, dispatched, acked, budget>>

Next_(left) == [loop EXCEPT !.at = "clients", !.left = left]

\* check_clients: the next client whose descriptor was readable at the select.
CheckClients ==
  LET ready == SelectSeq(loop.left, LAMBDA c : conns[c].fd \in loop.ready) IN
  /\ loop.at = "clients"
  /\ loop' = IF ready = <<>> THEN AtSelect
             ELSE [Next_(ready) EXCEPT !.at = "read"]
  /\ UNCHANGED <<src, clients, toPC, toBase, outside, dispatched, acked>>

HasWhole(c) == \E i \in DOMAIN conns[c].inbox : i = 1 /\ conns[c].inbox[i].whole

\* read_sf_packet: waits for the whole packet or the end.
ReadWhole ==
  LET c == Head(loop.left) IN
  /\ loop.at = "read" /\ HasWhole(c)
  /\ LET packet == Head(conns[c].inbox).packet
         seqno == (src.seqno + 1) % SEQNOS IN
     /\ src' = [src EXCEPT !.seqno = seqno]
     /\ toBase' = Append(toBase, write_framed_packet(<<P_PACKET_ACK, <<seqno>>>> \o packet))
     /\ loop' = [loop EXCEPT !.at = "write", !.packet = packet]
  /\ conns' = [conns EXCEPT ![c].inbox = Tail(@)]
  /\ UNCHANGED <<clients, backlog, toPC, base, dispatched, acked, budget>>
ReadFails ==
  LET c == Head(loop.left) IN
  /\ loop.at = "read" /\ ~conns[c].open /\ ~HasWhole(c)
  /\ clients' = SelectSeq(clients, LAMBDA d : d # c)
  /\ loop' = Next_(Tail(loop.left))
  /\ UNCHANGED <<src, toPC, toBase, outside, dispatched, acked>>

Written == loop' = [Next_(Tail(loop.left)) EXCEPT !.packet = <<>>]

\* Mutated form, for AckedWasGot: any acknowledgement will do.
Mut_IsAck(ack) == TRUE

IsAck(ack) == ack = <<<<src.seqno>>>>

\* write_serial_packet, once around its loop: what has arrived is processed, and
\* packets for the clients are put aside.
AwaitAck(k) ==
  /\ loop.at = "write" /\ (src.buffer # <<>> \/ k > 0 \/ src.queue[P_ACK] # <<>>)
  /\ \E s \in {read_and_process(Arrived(k))} :
       /\ toPC' = Line(s, k) /\ toBase' = toBase \o s.written
       /\ IF s.queue[P_ACK] = <<>> THEN src' = Source(s) /\ UNCHANGED <<loop, acked>>
          ELSE /\ src' = Source(pop_protocol_packet(s, P_ACK))
               /\ IF IsAck(Head(s.queue[P_ACK])) THEN Written /\ acked' = acked \cup {loop.packet}
                  ELSE UNCHANGED <<loop, acked>>
  /\ UNCHANGED <<clients, outside, dispatched>>
\* The deadline is looked at only when no byte is left in the buffer.
AckTimesOut ==
  /\ loop.at = "write" /\ src.buffer = <<>> /\ src.queue[P_ACK] = <<>>
  /\ Written
  /\ UNCHANGED <<src, clients, toPC, toBase, outside, dispatched, acked>>

-----------------------------------------------------------------------------
(* The clients, the base station and the line.                              *)

Spend(what) == budget[what] > 0 /\ budget' = [budget EXCEPT ![what] = @ - 1]
forwarder == <<src, loop, clients, dispatched, acked>>

Connect(c) ==
  /\ Spend("connect") /\ conns[c] = NoConn /\ c \notin Range(clients) \cup Range(backlog)
  /\ backlog' = Append(backlog, c)
  /\ UNCHANGED <<forwarder, conns, toPC, toBase, base>>
SayVersion(c, version) ==
  /\ c \in Range(backlog) /\ conns[c].version = "unsaid"
  /\ conns' = [conns EXCEPT ![c].version = version]
  /\ UNCHANGED <<forwarder, backlog, toPC, toBase, base, budget>>
BeginPacket(c, p) ==
  /\ c \in Range(clients) /\ conns[c].open /\ p \in budget.packets
  /\ \A i \in DOMAIN conns[c].inbox : conns[c].inbox[i].whole
  /\ budget' = [budget EXCEPT !.packets = @ \ {p}]
  /\ conns' = [conns EXCEPT ![c].inbox = Append(@, [packet |-> p, whole |-> FALSE])]
  /\ UNCHANGED <<forwarder, backlog, toPC, toBase, base>>
EndPacket(c) ==
  /\ conns[c].open /\ conns[c].inbox # <<>> /\ ~Last(conns[c].inbox).whole
  /\ conns' = [conns EXCEPT ![c].inbox[Len(conns[c].inbox)].whole = TRUE]
  /\ UNCHANGED <<forwarder, backlog, toPC, toBase, base, budget>>
\* A client reads what was written to it, or does not.
ClientReads(c) ==
  /\ c \in Range(clients) /\ conns[c].open /\ conns[c].unread > 0
  /\ conns' = [conns EXCEPT ![c].unread = 0]
  /\ UNCHANGED <<forwarder, backlog, toPC, toBase, base, budget>>
Close(c) ==
  /\ Spend("close") /\ conns[c].open /\ c \in Range(clients) \cup Range(backlog)
  /\ conns' = [conns EXCEPT ![c].open = FALSE]
  /\ UNCHANGED <<forwarder, backlog, toPC, toBase, base>>

BaseSends ==
  /\ base.sent < budget.sends
  /\ toPC' = toPC \o write_framed_packet(FromBase[base.sent + 1])
  /\ base' = [base EXCEPT !.sent = @ + 1]
  /\ UNCHANGED <<forwarder, conns, backlog, toBase, budget>>
\* The base station reads a frame, and acknowledges a packet that asks for it.
BaseReads ==
  LET Framed(a, r) == [rx |-> r.src, frames |-> IF r.frame = <<>> THEN a.frames
                                                ELSE Append(a.frames, r.frame)]
      read == FoldLeft(LAMBDA a, b : Framed(a, ReadByte(a.rx, b)),
                       [rx |-> base.rx, frames |-> <<>>], Head(toBase))
  IN
  /\ toBase # <<>> /\ toBase' = Tail(toBase)
  /\ \E packets \in {SelectSeq(read.frames, LAMBDA f : f[1] = P_PACKET_ACK)} :
       /\ base' = [base EXCEPT !.rx = read.rx,
                !.got = @ \o [i \in DOMAIN packets |-> SubSeq(packets[i], 3, Len(packets[i]))]]
       /\ toPC' = toPC \o FlattenSeq([i \in DOMAIN packets |->
                                        write_framed_packet(<<P_ACK, packets[i][2]>>)])
  /\ UNCHANGED <<forwarder, conns, backlog, budget>>

\* One byte is lost, becomes another, or comes from nowhere.
Faulty(bytes) ==
  LET AnyByte == {SYNC_BYTE, ESCAPE_BYTE, <<0>>} IN
  {RemoveAt(bytes, i) : i \in DOMAIN bytes} \cup
  {[bytes EXCEPT ![i] = b] : i \in DOMAIN bytes, b \in AnyByte} \cup
  {InsertAt(bytes, i, b) : i \in 1 .. Len(bytes) + 1, b \in AnyByte}
Fault ==
  budget.faults > 0 /\ budget' = [budget EXCEPT !.faults = @ - 1, !.faulted = @ + 1]
LineToPC ==
  /\ Fault /\ toPC' \in Faulty(toPC) \ {toPC}
  /\ UNCHANGED <<forwarder, conns, backlog, toBase, base>>
LineToBase ==
  /\ Fault /\ toBase # <<>>
  /\ \E bytes \in Faulty(Last(toBase)) : toBase' = Append(Front(toBase), bytes)
  /\ UNCHANGED <<forwarder, conns, backlog, toPC, base>>

-----------------------------------------------------------------------------

Init ==
  /\ src = open_serial_source /\ loop = AtSelect /\ clients = <<>>
  /\ conns = [c \in Conns |-> NoConn] /\ backlog = <<>>
  /\ toPC = Noise /\ toBase = <<>>
  /\ base = [rx |-> open_serial_source, got |-> <<>>, sent |-> 0]
  /\ dispatched = <<>> /\ acked = {} /\ budget \in Budgets

Turn ==
  \/ \E k \in Arrivals(Len(toPC)) : Select(k) \/ CheckSerial(k) \/ AwaitAck(k)
  \/ DispatchOn \/ NewClient \/ CheckClients \/ ReadWhole \/ ReadFails
Next ==
  \/ Turn \/ AckTimesOut
  \/ \E c \in Conns : Connect(c) \/ EndPacket(c) \/ ClientReads(c) \/ Close(c)
  \/ \E c \in Conns, v \in {"good", "bad"} : SayVersion(c, v)
  \/ \E c \in Conns, p \in FromClients : BeginPacket(c, p)
  \/ BaseSends \/ BaseReads \/ LineToPC \/ LineToBase

Spec == Init /\ [][Next]_vars
\* The process runs: what is on the line arrives at the latest when it is at
\* select with nothing else to do.  A client ends the packet it has begun.
FairSpec ==
  /\ Spec
  /\ WF_vars(Turn \/ AckTimesOut)
  /\ \A c \in Conns : WF_vars(EndPacket(c))

-----------------------------------------------------------------------------

NothingLeft == toPC = <<>> /\ src.buffer = <<>> /\ src.queue[P_PACKET_NO_ACK] = <<>>

\* A packet that was written with success is one the base station got, and it
\* gets each packet of the clients at most once, and as it was.
AckedWasGot ==
  /\ acked \subseteq Range(base.got)
  /\ Range(base.got) \subseteq FromClients
  /\ Len(base.got) = Cardinality(Range(base.got))

\* What the clients are given is what the base station sent, in that order; a
\* fault of the line costs no more than the two packets next to it.
AFaultCostsTwo ==
  /\ \E kept \in SUBSET (1 .. base.sent) :
       /\ Len(dispatched) = Cardinality(kept)
       /\ \A i \in kept :
            dispatched[Cardinality({j \in kept : j <= i})] =
              SubSeq(FromBase[i], IF FromBase[i][1] = P_PACKET_ACK THEN 3 ELSE 2, Len(FromBase[i]))
  /\ loop.at = "select" /\ NothingLeft => Len(dispatched) + 2 * budget.faulted >= base.sent

\* What has come over the line does not lie in the forwarder, however packets
\* for clients were read while an acknowledgement was waited for.  It does only
\* while one client holds the whole forwarder up: one that was accepted does not
\* say its version, one that has taken the descriptor of a client that was
\* readable and was removed does not send a packet, or one does not read and its
\* socket is full.
HeldUp ==
  \/ loop.at = "accept"
  \/ loop.at = "read" /\ conns[Head(loop.left)].inbox = <<>>
  \/ loop.at = "dispatch" /\ Full(Head(loop.left))
Served == <>[](NothingLeft \/ HeldUp)

=============================================================================
