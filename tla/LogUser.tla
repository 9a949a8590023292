------------------------------ MODULE LogUser ------------------------------
(***************************************************************************)
(* The packet log under the use it is made for: packets are written in     *)
(* order, one operation at a time, those that may be asked for again are   *)
(* read, and the log is erased between two connections.  (StreamTransportM *)
(* itself does not always wait for the last operation before it erases;    *)
(* module StrMote has that.)                                               *)
(***************************************************************************)
EXTENDS StrLogger

CONSTANT MaxWrites   \* bound: packets of one connection

VARIABLES
  sent,     \* index of the last packet whose write was accepted
  stored,   \* index of the last packet whose write is done
  busy      \* a write or a read is not done yet

vars == <<logVars, sent, stored, busy>>

Packet(n) == [seqno |-> SeqOf(n), index |-> n]

Init == LoggerInit /\ sent = 0 /\ stored = 0 /\ busy = FALSE

WritePacket ==
  /\ ~busy /\ sent < MaxWrites
  /\ \E ok \in BOOLEAN : /\ Write(Packet(sent + 1), ok)
                         /\ busy' = ok
                         /\ sent' = IF ok THEN sent + 1 ELSE sent
  /\ UNCHANGED stored

\* Writes and erasures succeed here; module StrMote has their failures.
PacketWritten ==
  /\ \E v \in Volumes : WriteDone(v, Packet(sent), TRUE)
  /\ stored' = sent /\ busy' = FALSE
  /\ UNCHANGED sent

\* The packets that may be asked for again.
Wanted == {n \in 1 .. stored : n + TR_VALID_RANGE >= stored}

ReadPacket ==
  /\ ~busy
  /\ \E n \in Wanted, ok \in BOOLEAN : Read(SeqOf(n), ok) /\ busy' = ok
  /\ UNCHANGED <<sent, stored>>

PacketRead ==
  /\ \E v \in Volumes : op[v].kind = "read"
                        /\ ReadDone(v, op[v].seqno, cells[v][Idx(op[v].seqno)])
  /\ busy' = FALSE
  /\ UNCHANGED <<sent, stored>>

EraseLog ==
  /\ ~busy /\ stored > 0
  /\ \E ok \in BOOLEAN : Erase(ok)
  /\ sent' = 0 /\ stored' = 0
  /\ UNCHANGED busy

LogErased ==
  /\ \E v \in Volumes, ev \in {"none", "initDone", "eraseDone"} : EraseDone(v, TRUE, ev)
  /\ UNCHANGED <<sent, stored, busy>>

Next == WritePacket \/ PacketWritten \/ ReadPacket \/ PacketRead \/ EraseLog \/ LogErased

\* Flash operations end.
Spec == Init /\ [][Next]_vars /\ WF_vars(PacketWritten) /\ WF_vars(PacketRead) /\ WF_vars(LogErased)

-----------------------------------------------------------------------------
TypeOK == LoggerTypeOK /\ sent \in 0 .. MaxWrites /\ stored \in 0 .. sent /\ busy \in BOOLEAN

\* Every packet that may be asked for again is where read looks for it, while
\* volumes fill up, are switched and erased and sequence numbers wrap.
RangeReadable ==
  \A n \in Wanted : cells[VolOf(SeqOf(n))][Idx(SeqOf(n))] = Packet(n)

\* A place is written once between two erasures (TrPktLogger.nc:50).
NeverOverwrites ==
  [][\A v \in Volumes, p \in Places : cells'[v][p] = Garbage => cells[v][p] = Garbage]_vars

\* The log does not stay full, nor in the middle of an erasure: the next packet
\* can be written before long.
Writable == b.currVol \notin b.dirty /\ m_state = "IDLE"
LogIsFreed == ~Writable ~> Writable

=============================================================================
