-------------------------------- MODULE Tcmp --------------------------------
(***************************************************************************)
(* Ping and trace route of the master (master/transport/tcmp.c).           *)
(*                                                                         *)
(* d.tcmps is the list tcmps, newest first.  Each entry has one probe in   *)
(* the network at a time; its number goes up with each report.  `late' is  *)
(* the round trip time being close to TCMP_TIMEOUT or over it.             *)
(***************************************************************************)
EXTENDS PtrMaster

CONSTANTS TCMP_DEFAULT_NUM_PING, TCMP_DEFAULT_NUM_TRACERT

TcmpEntry == [tid : Tids, addr : Motes \cup {BCAST}, type : {"PING", "TRACERT"},
              seq : Nat, ttl : Nat, alarm : {"running", "expired"}]

\* _find_tcmp: an address of either side may be the broadcast address.
Matches(t, tid, addr) == t.tid = tid /\ (t.addr = addr \/ BCAST \in {t.addr, addr})
TcmpFound(d, tid, addr) ==
  {i \in DOMAIN d.tcmps : /\ Matches(d.tcmps[i], tid, addr)
                          /\ \A j \in 1 .. i - 1 : ~Matches(d.tcmps[j], tid, addr)}

\* A mutated form, for ProbeEnds: nothing waits for the answer.
Mut_Probed(d, i) == [d EXCEPT !.tcmps[i].alarm = "off"]

\* TCMP_send_ping and TCMP_send_tracert for an entry on the list.
Probed(d, i) ==
  LET t == d.tcmps[i]
  IN  [d EXCEPT !.tcmps[i].alarm = "running",
                !.air = @ \cup {[what |-> t.type, tid |-> t.tid, addr |-> t.addr,
                                 seq |-> t.seq, ttl |-> t.ttl]}]

\* The same for a new one, after add_tcmp.
TcmpStart(d, tid, addr, type) ==
  Probed([d EXCEPT !.tcmps = <<[tid |-> tid, addr |-> addr, type |-> type,
                                seq |-> 1, ttl |-> 1, alarm |-> "running"]>> \o @], 1)

\* remove_tcmp and tidlist_remove_tid.
TcmpEnd(d, i) == RemoveTid([d EXCEPT !.tcmps = SubSeq(@, 1, i - 1) \o SubSeq(@, i + 1, Len(@))],
                           d.tcmps[i].tid)

\* The report to the client, and seqno++.
Reported(d, i, node) ==
  SendToTid([d EXCEPT !.tcmps[i].seq = @ + 1],
            [type |-> d.tcmps[i].type, tid |-> d.tcmps[i].tid, addr |-> node,
             seq |-> d.tcmps[i].seq])

\* receive_PING_ACK for the entry at i.  A broadcast ping reports what comes
\* in time and ends with its timeout.
PingAck(d, i, from, seqno, late) ==
  LET t == d.tcmps[i]
      timeout == late \/ from = BCAST
      e == IF t.addr # BCAST \/ ~timeout THEN Reported(d, i, from) ELSE d
  IN  IF seqno # t.seq /\ t.addr # BCAST THEN d
      ELSE IF t.addr = BCAST /\ ~timeout THEN e
      ELSE IF t.addr # BCAST /\ seqno < TCMP_DEFAULT_NUM_PING THEN Probed(e, i)
      ELSE TcmpEnd(e, i)

\* receive_TRACERT_ACK.  A timeout counts as an answer of the destination.
TracertAck(d, i, from, seqno) ==
  LET t == d.tcmps[i]
      e == Reported(d, i, from)
  IN  IF seqno # t.seq THEN d
      ELSE IF seqno < TCMP_DEFAULT_NUM_TRACERT * t.ttl THEN Probed(e, i)
      ELSE IF from # t.addr THEN Probed([e EXCEPT !.tcmps[i].ttl = @ + 1], i)
      ELSE TcmpEnd(e, i)

\* TCMP_receive, for the answer m to a probe.
TcmpReceive(d, m, from, late) ==
  LET I == TcmpFound(d, m.tid, IF m.what = "PING" THEN from ELSE BCAST)
  IN  IF I = {} THEN d
      ELSE IF m.what = "PING" THEN PingAck(d, CHOOSE i \in I : TRUE, from, m.seq, late)
      ELSE TracertAck(d, CHOOSE i \in I : TRUE, from, m.seq)

\* polling_tcmp_timer: TCMP_Timer_fired for the first expired entry.
TcmpPolled(d) ==
  LET Due == {i \in DOMAIN d.tcmps : /\ d.tcmps[i].alarm = "expired"
                                     /\ \A j \in 1 .. i - 1 : d.tcmps[j].alarm # "expired"}
      Fire(i) == IF d.tcmps[i].type = "PING"
                 THEN PingAck(d, i, d.tcmps[i].addr, d.tcmps[i].seq, TRUE)
                 ELSE TracertAck(d, i, d.tcmps[i].addr, d.tcmps[i].seq)
  IN  IF Due = {} THEN d ELSE Fire(CHOOSE i \in Due : TRUE)
=============================================================================
