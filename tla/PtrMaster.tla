----------------------------- MODULE PtrMaster -----------------------------
(***************************************************************************)
(* The master's packet transport (master/transport/packettransport.c): one *)
(* connection for each task and mote, with at most one packet in hand.     *)
(*                                                                         *)
(* d.ptrcs is m_ptrcs, newest first as add_connection leaves it: the poll  *)
(* takes the first expired alarm of the list.  d.air is what was handed to *)
(* write_routing_msg, which may lose, delay and repeat it.  Estimates of   *)
(* rate and loss, which nothing reads, are left out.                       *)
(***************************************************************************)
EXTENDS TidList

CONSTANT PTR_MAX_NUM_RETX

ASSUME PtrAssumption == PTR_MAX_NUM_RETX \in Nat

NoPacket == "none"
PtrConn == [tid : Tids, addr : Motes, sent : Nat, packet : {NoPacket, "task", "stop"},
            retx : 0 .. PTR_MAX_NUM_RETX, alarm : {"off", "running", "expired"}]

IsPtr(d, tid, addr) == \E i \in DOMAIN d.ptrcs : d.ptrcs[i].tid = tid /\ d.ptrcs[i].addr = addr
PtrAt(d, tid, addr) == CHOOSE i \in DOMAIN d.ptrcs :
                         d.ptrcs[i].tid = tid /\ d.ptrcs[i].addr = addr

\* create_ptr_connection, when there is none.
WithPtr(d, tid, addr) ==
  IF IsPtr(d, tid, addr) THEN d
  ELSE [d EXCEPT !.ptrcs = <<[tid |-> tid, addr |-> addr, sent |-> 0, packet |-> NoPacket,
                              retx |-> 0, alarm |-> "off"]>> \o @]

\* The packet in hand of connection c, as write_routing_msg gets it.
OnAir(c) == [what |-> c.packet, tid |-> c.tid, addr |-> c.addr, seq |-> c.sent, ttl |-> 0]

\* packettransport_send: a packet that waits for its ACK is replaced.
PtrSend(d, tid, addr, what) ==
  LET e == WithPtr(d, tid, addr)
      i == PtrAt(e, tid, addr)
      c == [e.ptrcs[i] EXCEPT !.packet = what, !.retx = 0, !.sent = @ + 1, !.alarm = "running"]
  IN  [d EXCEPT !.ptrcs = [e.ptrcs EXCEPT ![i] = c], !.air = @ \cup {OnAir(c)}]

\* The elements of s at the indices I, in their order.
Sublist(s, I) ==
  [n \in 1 .. Cardinality(I) |-> s[CHOOSE i \in I : Cardinality({j \in I : j <= i}) = n]]

\* packettransport_delete_tid for each of T, packettransport_tid_is_alive.
PtrDelete(d, T) ==
  [d EXCEPT !.ptrcs = Sublist(@, {i \in DOMAIN @ : @[i].tid \notin T})]
PtrAlive(d, tid) == \E i \in DOMAIN d.ptrcs : d.ptrcs[i].tid = tid

\* send_PTR_Done up to its signal: the packet is freed.  Nothing stops the alarm.
PtrFreed(d, i) == [d EXCEPT !.ptrcs[i].packet = NoPacket]

\* PTR_Timer_stop.
PtrStopped(d, i) == [d EXCEPT !.ptrcs[i].alarm = "off"]

\* PTR_Timer_fired while there are retransmissions left.
PtrRetx(d, i) ==
  LET c == [d.ptrcs[i] EXCEPT !.retx = @ + 1, !.alarm = "running"]
  IN  [d EXCEPT !.ptrcs[i] = c, !.air = @ \cup {OnAir(c)}]

\* The connection the poll serves: the first whose alarm has expired.
PtrDue(d) == {i \in DOMAIN d.ptrcs : /\ d.ptrcs[i].alarm = "expired"
                                     /\ \A j \in 1 .. i - 1 : d.ptrcs[j].alarm # "expired"}
=============================================================================
