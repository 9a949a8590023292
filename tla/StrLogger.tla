----------------------------- MODULE StrLogger -----------------------------
(***************************************************************************)
(* The mote's packet log (mote/lib/transport/StrLoggerP.nc, one connection: *)
(* STR_2_CON is not defined): two flash volumes used as one ring, of which  *)
(* the older is erased when the newer is full.                             *)
(*                                                                         *)
(* A command is a relation between its result and the change it makes; a   *)
(* completion of BlockStorage is an action that names the event it signals.*)
(* BlockStorage itself is external: a volume does one operation at a time, *)
(* refuses a second one, and completes in its own time.                    *)
(***************************************************************************)
EXTENDS TrSeqno

CONSTANT TR_FLASH_PKTS_PER_CON   \* packets of one volume (250)

\* "TR_MAX_SEQNO should be even-multiples (2,4,6,etc) of this", TrLoggerMote.h;
\* one volume holds more than the packets that may be asked for again.
ASSUME LoggerAssumption ==
  /\ TR_FLASH_PKTS_PER_CON \in Nat /\ TR_FLASH_PKTS_PER_CON > TR_VALID_RANGE
  /\ TR_MAX_SEQNO % (2 * TR_FLASH_PKTS_PER_CON) = 0

VARIABLES
  b,         \* struct bufferInfo: ready, currVol, dirty (of both), nextIndex
  m_state,   \* S_IDLE, S_INIT, S_ERASE_VOL
  op,        \* BlockStorage: the operation each volume is busy with
  cells      \* BlockStorage: what is in each place of each volume

logVars == <<b, m_state, op, cells>>

Volumes == {0, 1}
Places == 0 .. TR_FLASH_PKTS_PER_CON - 1

Erased == [seqno |-> 0]       \* a place that may be written
Garbage == [seqno |-> -1]     \* one that was written twice
Rest == [kind |-> "none"]

Idx(seqno) == (seqno - 1) % TR_FLASH_PKTS_PER_CON

\* A mutated form, for RangeReadable: the last packet of a volume is sought in
\* the next one.
Mut_VolOf(seqno) == (seqno \div TR_FLASH_PKTS_PER_CON) % 2

\* The volume read looks into.
VolOf(seqno) == ((seqno - 1) \div TR_FLASH_PKTS_PER_CON) % 2

\* A call of BlockWrite or BlockRead for volume v.
Start(v, o, ok) ==
  /\ ok = (op[v] = Rest)
  /\ op' = IF ok THEN [op EXCEPT ![v] = o] ELSE op

Erasure == [kind |-> "erase"]

LoggerTypeOK ==
  /\ b \in [ready : BOOLEAN, currVol : Volumes, dirty : SUBSET Volumes, nextIndex : Places]
  /\ m_state \in {"IDLE", "INIT", "ERASE_VOL"}
  /\ \A v \in Volumes : op[v].kind \in {"none", "erase", "write", "read"}
  /\ \A v \in Volumes, p \in Places : cells[v][p].seqno \in Seqno0 \cup {-1}

\* Booted: PktLogger.init has started to erase both volumes, which may hold
\* anything.
LoggerInit ==
  /\ b = [ready |-> FALSE, currVol |-> 0, dirty |-> {}, nextIndex |-> 0]
  /\ m_state = "INIT"
  /\ op = [v \in Volumes |-> IF v = 0 THEN Erasure ELSE Rest]
  /\ cells = [v \in Volumes |-> [p \in Places |-> Garbage]]

-----------------------------------------------------------------------------
(* Commands.                                                                *)

\* PktLogger.erase.  The state has changed even if the volume refuses.
Erase(ok) ==
  \/ m_state # "IDLE" /\ ~ok /\ UNCHANGED logVars
  \/ /\ m_state = "IDLE"
     /\ m_state' = "ERASE_VOL"
     /\ b' = [b EXCEPT !.ready = FALSE, !.currVol = 0, !.nextIndex = 0]
     /\ Start(0, Erasure, ok)
     /\ UNCHANGED cells

CanWrite(seqno) == Idx(seqno) = b.nextIndex /\ b.currVol \notin b.dirty /\ m_state = "IDLE"

NextIndex(seqno) == (Idx(seqno) + 1) % TR_FLASH_PKTS_PER_CON

\* PktLogger.write of packet d, a record with its sequence number.
Write(d, ok) ==
  \/ ~CanWrite(d.seqno) /\ ~ok /\ UNCHANGED logVars
  \/ /\ CanWrite(d.seqno)
     /\ Start(b.currVol, [kind |-> "write", data |-> d], ok)
     /\ b' = IF ok THEN [b EXCEPT !.nextIndex = NextIndex(d.seqno)] ELSE b
     /\ UNCHANGED <<m_state, cells>>

\* PktLogger.read.
Read(seqno, ok) ==
  \/ m_state # "IDLE" /\ ~ok /\ UNCHANGED logVars
  \/ /\ m_state = "IDLE"
     /\ Start(VolOf(seqno), [kind |-> "read", seqno |-> seqno], ok)
     /\ UNCHANGED <<b, m_state, cells>>

-----------------------------------------------------------------------------
(* Completions.                                                             *)

\* BlockStorage has ended what volume v was doing, with the contents it leaves.
Ended(v, place, content) ==
  cells' = [cells EXCEPT ![v][place] = content]

\* A mutated form, for LogIsFreed: the other volume is not erased.
Mut_Follow(v, w) == op' = [op EXCEPT ![v] = Rest]

\* The next operation of the log itself; a volume that is busy ignores it.
Follow(v, w) ==
  op' = [op EXCEPT ![v] = Rest, ![w] = IF w = v \/ op[w] = Rest THEN Erasure ELSE @]

\* _writeDone: a full volume is dirty and the other one is next, erased first
\* unless it is clean.
WriteDone(v, d, ok) ==
  /\ op[v].kind = "write" /\ d = op[v].data
  /\ IF ok THEN Ended(v, Idx(d.seqno), IF cells[v][Idx(d.seqno)] = Erased THEN d ELSE Garbage)
     ELSE UNCHANGED cells
  /\ IF ok /\ b.nextIndex = 0
     THEN LET next == 1 - b.currVol
          IN  /\ b' = [b EXCEPT !.dirty = @ \cup {b.currVol}, !.currVol = next]
              /\ IF next \in b.dirty THEN Follow(v, next) ELSE op' = [op EXCEPT ![v] = Rest]
     ELSE b' = b /\ op' = [op EXCEPT ![v] = Rest]
  /\ UNCHANGED m_state

\* readDone of sequence number s: d is what is there.
ReadDone(v, s, d) ==
  /\ op[v].kind = "read" /\ s = op[v].seqno /\ d = cells[v][Idx(s)]
  /\ op' = [op EXCEPT ![v] = Rest]
  /\ UNCHANGED <<b, m_state, cells>>

\* A mutated form, for NeverOverwrites: both volumes count as clean.
Mut_StillDirty(v) == {}

StillDirty(v) == b.dirty \ {v}

\* eraseDone of volume v; ev is signalled, "none" when it was internal or
\* there is another volume to erase.
EraseDone(v, ok, ev) ==
  LET whole == ok /\ (~b.ready \/ m_state = "INIT")
  IN  /\ op[v] = Erasure
      /\ b' = [b EXCEPT !.dirty = StillDirty(v), !.ready = @ \/ (whole /\ v = 1)]
      /\ cells' = IF ok THEN [cells EXCEPT ![v] = [p \in Places |-> Erased]] ELSE cells
      /\ IF whole /\ v = 0 THEN Follow(0, 1) ELSE op' = [op EXCEPT ![v] = Rest]
      /\ ev = IF ~ok \/ (whole /\ v = 1)
              THEN (CASE m_state = "INIT" -> "initDone" [] m_state = "ERASE_VOL" -> "eraseDone"
                      [] OTHER -> "none")
              ELSE "none"
      /\ m_state' = IF ~ok \/ (whole /\ v = 1) THEN "IDLE" ELSE m_state

=============================================================================
