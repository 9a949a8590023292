--------------------------- MODULE StrMote_proofs ---------------------------
(***************************************************************************)
(* For every number of tasks and packets, every size of the log and every  *)
(* ring of sequence numbers: the packet of a sendDone is in the log, a     *)
(* packet on the air is genuine, and a packet that is asked for is found,  *)
(* until an erasure fails or a connection begins with a cid that something *)
(* on the mote already has.  Sound is inductive.                           *)
(***************************************************************************)
EXTENDS StrMote, TrSeqno_proofs, SequenceTheorems

-----------------------------------------------------------------------------
(* The invariant, part by part.                                            *)

States == {"IDLE", "SYN_SEND", "SYN_ACK_WAIT", "ACTIVE", "FIN_SEND", "FIN_ACK_WAIT"}
TaskNames == {"transmit", "pop_and_send", "send_SYN", "send_FIN", "writeLogger", "readLogger",
              "retransmit", "eraseLogger"}
Elements == {"new", "refused", "OPEN_WAIT", "CONNECTED", "SENDING", "gone"}
AnyPacket == [tid : Nat, run : Nat]
Records == [cid : Nat, seqno : Nat, data : AnyPacket]
OwnPackets == [tid : Tids, run : Nat]
Messages == [flag : {"SYN", "FIN", "DATA", "DATA_RETX"}, tid : Tids, seqno : Nat, data : AnyPacket]
Buffers == [busy : BOOLEAN, packet : Records]
Connections == [state : States, tid : Tids \cup {0}, last : Nat, fin : Nat]
Budgets == [tids : SUBSET Tids, runs : Nat, refusals : Nat, errors : Nat, flash : Nat, erase : Nat,
            nacks : Nat, deletions : Nat]

Types ==
  /\ conn \in Connections
  /\ sending \in BOOLEAN /\ psd \in BOOLEAN
  /\ air = Nothing \/ air \in Messages
  /\ heard \subseteq {"SYN", "FIN"} \X Tids
  /\ wbuf \in Buffers /\ rbuf \in Buffers
  /\ tasks \in Seq(TaskNames)
  /\ elem \in [Tids -> Elements]
  /\ list \in Seq(OwnPackets)
  /\ retry \in OwnPackets \cup {NoPacket} /\ current \in OwnPackets \cup {NoPacket}
  /\ runs \in Nat
  /\ sent \in [Tids -> Seq(OwnPackets)]
  /\ left \in Budgets

\* What a volume is busy with; what is written is what eepromWriteBuf holds.
Writing == [kind |-> "write", data |-> wbuf.packet]
Reading(s) == [kind |-> "read", seqno |-> s]

LogTypes ==
  /\ b \in [ready : BOOLEAN, currVol : Volumes, dirty : SUBSET Volumes, nextIndex : Places]
  /\ m_state \in {"IDLE", "INIT", "ERASE_VOL"}
  /\ op = [v \in Volumes |-> op[v]]
  /\ \A v \in Volumes : \/ op[v] \in {Rest, Erasure, Writing}
                        \/ op[v].kind = "read" /\ op[v] = Reading(op[v].seqno)
  /\ cells \in [Volumes -> [Places -> {Erased, Garbage} \cup Records]]

\* The n-th packet of task t, as the log keeps it.
Record(t, n) == [cid |-> t % U8, seqno |-> SeqOf(n), data |-> sent[t][n]]
Genuine(r) == \E t \in Tids : \E n \in DOMAIN sent[t] : r = Record(t, n)

\* Queues of posted tasks.
In(q, t) == \E i \in DOMAIN q : q[i] = t
Single(q) == \A i, j \in DOMAIN q : q[i] = "transmit" /\ q[j] = "transmit" => i = j
EraseFirst(q) ==
  \A i \in DOMAIN q : q[i] = "eraseLogger" => \E j \in DOMAIN q : i < j /\ q[j] = "transmit"

\* Whatever is in a buffer or in the log was accepted by send; eepromReadBuf
\* may be as it was at the start until something is read.
Buffered ==
  /\ wbuf.busy => Genuine(wbuf.packet)
  /\ \/ Genuine(rbuf.packet) \/ rbuf.packet = Blank
     \/ rbuf.packet.cid = 0 /\ ~In(tasks, "retransmit") /\ "RETRANSMIT" \notin pending
  /\ \A v \in Volumes, p \in Places :
       cells[v][p] \in {Erased, Garbage} \/ Genuine(cells[v][p])

Radio ==
  /\ sending <=> air # Nothing
  /\ In(tasks, "transmit") => air # Nothing
  /\ Single(tasks)
  /\ DataIsGenuine

Number(n) == IF n = 0 THEN 0 ELSE SeqOf(n)

\* A connection sends no packet before it is active, and counts those it sends.
Stage ==
  /\ conn.state = "IDLE" <=> conn.tid = 0
  /\ conn.state \in {"SYN_SEND", "SYN_ACK_WAIT"} => sent[conn.tid] = <<>>
  /\ conn.state = "ACTIVE" => conn.last = Number(Len(sent[conn.tid]))
  /\ conn.tid # 0 /\ sent[conn.tid] # <<>> => conn.last = SeqOf(Len(sent[conn.tid]))

SynOnAir == air.flag = "SYN" /\ air.tid = conn.tid => sent[conn.tid] = <<>>

\* A task that has not begun has done nothing.
Unborn ==
  \A t \in Tids : elem[t] = "new" =>
    /\ conn.tid # t /\ current.tid # t /\ sent[t] = <<>>
    /\ air # Nothing => air.tid # t
    /\ <<"SYN", t>> \notin heard

\* The master has heard the SYN of a connection that is active, and of a task
\* that has sent.  An erasure that is still posted, of the connection before,
\* runs before the SYN of this one reaches the master.
Heard ==
  /\ conn.state = "ACTIVE" => <<"SYN", conn.tid>> \in heard
  /\ \A t \in Tids : sent[t] # <<>> => <<"SYN", t>> \in heard
  /\ conn.tid # 0 /\ In(tasks, "eraseLogger") =>
       /\ <<"SYN", conn.tid>> \notin heard
       /\ air.flag = "SYN" /\ air.tid = conn.tid => EraseFirst(tasks)

Clean(v) == \A p \in Places : cells[v][p] = Erased
LastPlace == TR_FLASH_PKTS_PER_CON - 1

\* The first erasure, of both volumes.
Booting ==
  /\ b.currVol = 0 /\ b.nextIndex = 0 /\ b.dirty = {} /\ ~b.ready
  /\ \/ op[0] = Erasure /\ op[1] = Rest
     \/ op[0] = Rest /\ op[1] = Erasure /\ Clean(0)

\* An erasure between two connections.  A volume may still be busy with what
\* the last connection asked for, and the write that ends then switches the
\* volumes.
Erasing ==
  /\ ~b.ready /\ b.nextIndex = 0
  /\ \A v \in Volumes : op[v].kind = "write" => b.currVol = 0
  /\ op[1] = Erasure =>
       /\ op[0].kind # "write"
       /\ b.currVol = 0 => 0 \in b.dirty \/ op[0] = Erasure \/ Clean(0)
       /\ b.currVol = 1 => op[0] # Erasure /\ (0 \in b.dirty \/ Clean(0))

\* From the next place on the volume is blank, or the packet of its last place
\* is still being written.
TailClean == \A p \in Places : p >= b.nextIndex => cells[b.currVol][p] = Erased
LastPending == b.nextIndex = 0 /\ wbuf.busy /\ Idx(wbuf.packet.seqno) = LastPlace

InUse ==
  /\ b.ready
  /\ \A v \in Volumes : op[v].kind = "write" =>
       v = b.currVol /\ b.nextIndex = NextIndex(wbuf.packet.seqno)
  /\ \A v \in Volumes : op[v] = Erasure => v = b.currVol /\ b.nextIndex = 0
  /\ op[1] = Erasure => 0 \in b.dirty
  /\ 1 - b.currVol \in b.dirty \/ Clean(1 - b.currVol)
  /\ b.currVol \in b.dirty \/ op[b.currVol] = Erasure \/ TailClean \/ LastPending

\* No place is written twice, and a read looks into the volume of its number.
Flash ==
  /\ m_state = "INIT" => Booting
  /\ m_state = "ERASE_VOL" => Erasing
  /\ m_state = "IDLE" => InUse
  /\ m_state # "INIT" => \A v \in Volumes, p \in Places : cells[v][p] # Garbage
  /\ \A v \in Volumes : op[v].kind = "write" =>
       wbuf.busy /\ v \notin b.dirty /\ cells[v][Idx(wbuf.packet.seqno)] = Erased
  /\ op[0].kind = "write" => op[1].kind # "write"
  /\ \A v \in Volumes : op[v].kind = "read" => v = VolOf(op[v].seqno)

\* eepromWriteBuf is left busy by an earlier connection.  It stays so, and no
\* later one can send: then nothing is said of the log.
Mute == wbuf.busy /\ ~Mine(wbuf.packet)

Owner ==
  /\ wbuf.busy /\ Mine(wbuf.packet) =>
       /\ conn.tid # 0 /\ sent[conn.tid] # <<>>
       /\ wbuf.packet = Record(conn.tid, Len(sent[conn.tid]))
  /\ Mute /\ conn.tid # 0 => sent[conn.tid] = <<>>

\* How many packets of the connection the log has.
InLog == IF conn.tid = 0 THEN 0
         ELSE IF wbuf.busy THEN Len(sent[conn.tid]) - 1 ELSE Len(sent[conn.tid])

\* Where the n-th packet goes.
Vol(n) == VolOf(SeqOf(n))
Place(n) == Idx(SeqOf(n))

\* The log stands where the numbers of the connection say, and has the last
\* packets of the connection.
Standing ==
  /\ b.currVol = Vol(InLog + 1)
  /\ \/ b.nextIndex = Place(InLog + 1)
     \/ wbuf.busy /\ b.nextIndex = Place(InLog + 2) /\ op[b.currVol] # Erasure
  /\ m_state # "IDLE" => InLog = 0 /\ b.nextIndex = 0
  /\ \A n \in 1 .. InLog : n + TR_FLASH_PKTS_PER_CON > InLog
       => cells[Vol(n)][Place(n)] = Record(conn.tid, n)

Aligned ==
  /\ ~Mute /\ m_state = "ERASE_VOL" => b.currVol = 0 /\ \A v \in Volumes : op[v].kind # "write"
  /\ ~Mute /\ ~In(tasks, "eraseLogger") => Standing

\* The packet the tasklet waits for is the last one its connection sent.  A
\* sendDone that waits for the log comes after the radio's.
Waited ==
  /\ current # NoPacket /\ conn.tid = current.tid =>
       sent[conn.tid] # <<>> /\ current = sent[conn.tid][Len(sent[conn.tid])]
  /\ psd => /\ current # NoPacket /\ conn.tid = current.tid
            /\ wbuf.busy /\ Mine(wbuf.packet) /\ air.flag # "DATA"
  /\ air.flag = "DATA" /\ Valid(air.tid) => current.tid = air.tid /\ ~psd

MoteInv ==
  /\ Types /\ LogTypes /\ Buffered /\ Radio /\ Stage /\ SynOnAir /\ Unborn /\ Heard
  /\ Flash /\ Owner /\ Aligned /\ Waited

\* A cid is the low byte of the task's tid.  Of what is on the mote only the
\* connection's own has its cid, and none has that of no connection or of an
\* erased place.
Own(r) == \E n \in DOMAIN sent[conn.tid] : r = Record(conn.tid, n)

CidInv ==
  /\ \A t \in Tids : Live(t) \/ sent[t] # <<>> \/ conn.tid = t => t % U8 \notin {0, U8 - 1}
  /\ conn.tid # 0 =>
       /\ rbuf.packet.cid = Cid(conn) => Own(rbuf.packet)
       /\ \A v \in Volumes, p \in Places :
            cells[v][p] \notin {Erased, Garbage} /\ cells[v][p].cid = Cid(conn) => Own(cells[v][p])
       /\ \A t \in Tids : Live(t) /\ t % U8 = Cid(conn) => t = conn.tid

\* What every state has: mybuf has one owner, and the rest as long as erasures
\* succeeded and connections began with cids of their own.
RadioBusy == sending = (air # Nothing)
Sound == RadioBusy /\ spoiled \in BOOLEAN /\ (~spoiled => MoteInv /\ CidInv)

-----------------------------------------------------------------------------
(* The places of the log.                                                  *)

\* The two volumes are the halves of a ring.
LEMMA PlaceIs ==
  /\ TR_FLASH_PKTS_PER_CON \in Nat \ {0} /\ TR_MAX_SEQNO % (2 * TR_FLASH_PKTS_PER_CON) = 0
  /\ \A n \in Nat \ {0} : /\ Vol(n) = Half(n, TR_FLASH_PKTS_PER_CON)
                          /\ Place(n) = InHalf(n, TR_FLASH_PKTS_PER_CON)
                          /\ NextIndex(SeqOf(n)) = (Place(n) + 1) % TR_FLASH_PKTS_PER_CON
BY LoggerAssumption, SeqnoAssumption DEF Vol, Place, VolOf, Idx, NextIndex, Half, InHalf

LEMMA LogPlaces == Vol(1) = 0 /\ Place(1) = 0
BY PlaceIs, HalfFirst

LEMMA PlaceNext ==
  ASSUME NEW n \in Nat \ {0}
  PROVE  /\ Place(n) \in Places /\ Vol(n) \in Volumes
         /\ NextIndex(SeqOf(n)) = Place(n + 1)
         /\ Place(n + 1) = 0 => Vol(n + 1) = 1 - Vol(n)
         /\ Place(n + 1) # 0 => Place(n + 1) = Place(n) + 1 /\ Vol(n + 1) = Vol(n)
<1>1. n + 1 \in Nat \ {0}
  OBVIOUS
<1> QED BY <1>1, PlaceIs, HalfNext DEF Places, Volumes

\* The packets of one round are in different places, and in the other volume
\* than the next one when that begins a volume.
LEMMA Apart ==
  ASSUME NEW m \in Nat \ {0}, NEW n \in Nat \ {0}, m < n, n <= m + TR_FLASH_PKTS_PER_CON
  PROVE  /\ Vol(m) # Vol(n) \/ Place(m) # Place(n)
         /\ Place(n) = 0 => Vol(m) # Vol(n)
BY PlaceIs, HalvesApart

-----------------------------------------------------------------------------
(* The scheduler's queue.                                                  *)

\* r is q with tasks of the set S behind it.
Grown(q, r, S) ==
  /\ r \in Seq(TaskNames) /\ Len(q) <= Len(r)
  /\ \A i \in DOMAIN r : IF i \in DOMAIN q THEN r[i] = q[i] ELSE r[i] \in S

LEMMA NotGrown == ASSUME NEW q \in Seq(TaskNames) PROVE Grown(q, q, {})
BY DEF Grown

LEMMA AppendIs ==
  ASSUME NEW T, NEW q \in Seq(T), NEW t \in T
  PROVE  /\ Append(q, t) \in Seq(T) /\ Len(q) \in Nat
         /\ DOMAIN q = 1 .. Len(q) /\ DOMAIN Append(q, t) = 1 .. Len(q) + 1
         /\ Len(Append(q, t)) = Len(q) + 1 /\ Append(q, t)[Len(q) + 1] = t
         /\ \A i \in 1 .. Len(q) : Append(q, t)[i] = q[i]
<1>1. Append(q, t) \in Seq(T) /\ Len(q) \in Nat /\ Len(Append(q, t)) = Len(q) + 1
  OBVIOUS
<1>2. DOMAIN q = 1 .. Len(q) /\ DOMAIN Append(q, t) = 1 .. Len(Append(q, t))
  BY <1>1
<1>3. Append(q, t)[Len(q) + 1] = t
  OBVIOUS
<1>4. \A i \in 1 .. Len(q) : Append(q, t)[i] = q[i]
  OBVIOUS
<1> QED BY <1>1, <1>2, <1>3, <1>4

LEMMA PostGrows ==
  ASSUME NEW q \in Seq(TaskNames), NEW c \in BOOLEAN, NEW t \in TaskNames
  PROVE  /\ Grown(q, PostIf(q, c, t), {t})
         /\ c => In(PostIf(q, c, t), t)
<1>1. CASE c /\ ~Sq!Contains(q, t)
  <2> DEFINE r == Append(q, t)
  <2>1. PostIf(q, c, t) = r
    BY <1>1 DEF PostIf
  <2>2. /\ r \in Seq(TaskNames) /\ Len(r) = Len(q) + 1 /\ Len(q) \in Nat /\ DOMAIN q = 1 .. Len(q)
        /\ DOMAIN r = 1 .. Len(q) + 1
        /\ r[Len(q) + 1] = t /\ \A i \in 1 .. Len(q) : r[i] = q[i]
    BY AppendIs
  <2> HIDE DEF r
  <2>3. Grown(q, r, {t})
    BY <2>2 DEF Grown
  <2>4. In(r, t)
    BY <2>2 DEF In
  <2> QED BY <2>1, <2>3, <2>4
<1>2. CASE ~(c /\ ~Sq!Contains(q, t))
  <2>1. PostIf(q, c, t) = q
    BY <1>2 DEF PostIf
  <2>2. c => Sq!Contains(q, t)
    BY <1>2
  <2>3. DOMAIN q = 1 .. Len(q)
    OBVIOUS
  <2>4. Sq!Contains(q, t) => In(q, t)
    BY <2>3 DEF Sq!Contains, In
  <2> QED BY <2>1, <2>2, <2>4 DEF Grown
<1> QED BY <1>1, <1>2

LEMMA GrownTwice ==
  ASSUME NEW q \in Seq(TaskNames), NEW r, NEW s, NEW S, NEW T, Grown(q, r, S), Grown(r, s, T)
  PROVE  Grown(q, s, S \cup T)
<1>1. q \in Seq(TaskNames) /\ r \in Seq(TaskNames) /\ s \in Seq(TaskNames)
  BY DEF Grown
<1>2. DOMAIN q = 1 .. Len(q) /\ DOMAIN r = 1 .. Len(r) /\ DOMAIN s = 1 .. Len(s)
      /\ Len(q) \in Nat /\ Len(r) \in Nat /\ Len(s) \in Nat
  BY <1>1
<1>3. Len(q) <= Len(r) /\ Len(r) <= Len(s)
  BY DEF Grown
<1>4. \A i \in DOMAIN s : IF i \in DOMAIN q THEN s[i] = q[i] ELSE s[i] \in S \cup T
  <2> SUFFICES ASSUME NEW i \in DOMAIN s
               PROVE  IF i \in DOMAIN q THEN s[i] = q[i] ELSE s[i] \in S \cup T
    OBVIOUS
  <2>1. IF i \in DOMAIN r THEN s[i] = r[i] ELSE s[i] \in T
    BY DEF Grown
  <2>2. i \in DOMAIN r => IF i \in DOMAIN q THEN r[i] = q[i] ELSE r[i] \in S
    BY DEF Grown
  <2>3. i \in DOMAIN q => i \in DOMAIN r
    BY <1>2, <1>3
  <2> QED BY <2>1, <2>2, <2>3
<1> QED BY <1>1, <1>2, <1>3, <1>4 DEF Grown

LEMMA GrownMore ==
  ASSUME NEW q, NEW r, NEW S, NEW T, S \subseteq T, Grown(q, r, S) PROVE Grown(q, r, T)
BY DEF Grown

\* What is true of the tasks in a queue when it has grown.
LEMMA GrownHas ==
  ASSUME NEW q \in Seq(TaskNames), NEW r, NEW S, Grown(q, r, S), NEW t
  PROVE  /\ In(r, t) => In(q, t) \/ t \in S
         /\ In(q, t) => In(r, t)
<1>1. r \in Seq(TaskNames) /\ DOMAIN q = 1 .. Len(q) /\ DOMAIN r = 1 .. Len(r) /\ Len(q) <= Len(r)
      /\ Len(q) \in Nat /\ Len(r) \in Nat
  BY DEF Grown
<1>2. \A i \in DOMAIN q : i \in DOMAIN r /\ r[i] = q[i]
  BY <1>1 DEF Grown
<1>3. \A i \in DOMAIN r : i \in DOMAIN q \/ r[i] \in S
  BY DEF Grown
<1> QED BY <1>2, <1>3 DEF In

LEMMA GrownSingle ==
  ASSUME NEW q \in Seq(TaskNames), NEW r, NEW S, Grown(q, r, S), "transmit" \notin S
  PROVE  Single(q) => Single(r)
<1>1. \A i \in DOMAIN r : r[i] = "transmit" => i \in DOMAIN q /\ r[i] = q[i]
  BY DEF Grown
<1> QED BY <1>1 DEF Single

LEMMA GrownErase ==
  ASSUME NEW q \in Seq(TaskNames), NEW r, NEW S, Grown(q, r, S), "eraseLogger" \notin S
  PROVE  EraseFirst(q) => EraseFirst(r)
<1>1. r \in Seq(TaskNames) /\ DOMAIN q = 1 .. Len(q) /\ DOMAIN r = 1 .. Len(r) /\ Len(q) <= Len(r)
      /\ Len(q) \in Nat /\ Len(r) \in Nat
  BY DEF Grown
<1>2. \A i \in DOMAIN q : i \in DOMAIN r /\ r[i] = q[i]
  BY <1>1 DEF Grown
<1>3. \A i \in DOMAIN r : i \in DOMAIN q \/ r[i] # "eraseLogger"
  BY DEF Grown
<1> QED BY <1>2, <1>3 DEF EraseFirst

\* The same when the head of the queue is taken off.
LEMMA TailIs ==
  ASSUME NEW q \in Seq(TaskNames), q # <<>>
  PROVE  /\ Tail(q) \in Seq(TaskNames) /\ Len(Tail(q)) = Len(q) - 1 /\ Len(q) \in Nat \ {0}
         /\ DOMAIN q = 1 .. Len(q) /\ DOMAIN Tail(q) = 1 .. Len(q) - 1
         /\ \A i \in 1 .. Len(q) - 1 : Tail(q)[i] = q[i + 1]
         /\ Head(q) = q[1]
OBVIOUS

LEMMA TailHas ==
  ASSUME NEW q \in Seq(TaskNames), q # <<>>, NEW t
  PROVE  /\ In(Tail(q), t) => In(q, t)
         /\ In(q, t) => In(Tail(q), t) \/ t = Head(q)
<1> USE TailIs
<1>1. \A i \in DOMAIN Tail(q) : i + 1 \in DOMAIN q /\ Tail(q)[i] = q[i + 1]
  OBVIOUS
<1>2. \A i \in DOMAIN q : i # 1 => i - 1 \in DOMAIN Tail(q) /\ Tail(q)[i - 1] = q[i]
  OBVIOUS
<1>3. In(Tail(q), t) => In(q, t)
  BY <1>1 DEF In
<1>4. In(q, t) => In(Tail(q), t) \/ t = Head(q)
  BY <1>2 DEF In
<1> QED BY <1>3, <1>4

LEMMA TailSingle ==
  ASSUME NEW q \in Seq(TaskNames), q # <<>>, Single(q)
  PROVE  Single(Tail(q)) /\ (Head(q) = "transmit" => ~In(Tail(q), "transmit"))
<1> USE TailIs
<1>1. \A i \in DOMAIN Tail(q) : i \in Nat /\ i > 0 /\ i + 1 \in DOMAIN q /\ Tail(q)[i] = q[i + 1]
  OBVIOUS
<1>2. 1 \in DOMAIN q /\ q[1] = Head(q)
  OBVIOUS
<1> QED BY <1>1, <1>2 DEF Single, In

LEMMA TailErase ==
  ASSUME NEW q \in Seq(TaskNames), q # <<>>, Head(q) # "transmit", EraseFirst(q)
  PROVE  EraseFirst(Tail(q))
<1> SUFFICES ASSUME NEW i \in DOMAIN Tail(q), Tail(q)[i] = "eraseLogger"
             PROVE  \E j \in DOMAIN Tail(q) : i < j /\ Tail(q)[j] = "transmit"
  BY DEF EraseFirst
<1>1. i \in Nat /\ i + 1 \in DOMAIN q /\ q[i + 1] = "eraseLogger"
  BY TailIs
<1>2. PICK k \in DOMAIN q : i + 1 < k /\ q[k] = "transmit"
  BY <1>1 DEF EraseFirst
<1>3. k - 1 \in DOMAIN Tail(q) /\ i < k - 1 /\ Tail(q)[k - 1] = "transmit"
  BY <1>1, <1>2, TailIs
<1> QED BY <1>3

\* Once the transmission has run no erasure is left that was before it.
LEMMA TransmitLast ==
  ASSUME NEW q \in Seq(TaskNames), q # <<>>, Head(q) = "transmit", Single(q), EraseFirst(q)
  PROVE  ~In(q, "eraseLogger")
<1>1. 1 \in DOMAIN q /\ q[1] = "transmit" /\ \A i \in DOMAIN q : i >= 1
  BY TailIs
<1>2. \A j \in DOMAIN q : q[j] = "transmit" => j = 1
  BY <1>1 DEF Single
<1> QED BY <1>1, <1>2 DEF EraseFirst, In

\* A transmission that is posted when none is waits behind everything.
LEMMA HandedBehind ==
  ASSUME NEW q \in Seq(TaskNames), ~In(q, "transmit")
  PROVE  LET r == Append(q, "transmit")
         IN  /\ Grown(q, r, {"transmit"}) /\ Single(r) /\ EraseFirst(r)
<1> DEFINE r == Append(q, "transmit")
           n == Len(q) + 1
<1>0. "transmit" \in TaskNames
  BY DEF TaskNames
<1>1. r \in Seq(TaskNames) /\ Len(r) = n /\ DOMAIN q = 1 .. Len(q) /\ Len(q) \in Nat
      /\ DOMAIN r = 1 .. n /\ r[n] = "transmit"
      /\ \A i \in 1 .. Len(q) : r[i] = q[i]
  BY <1>0, AppendIs
<1> HIDE DEF r
<1>2. \A i \in DOMAIN r : i = n \/ (i \in DOMAIN q /\ r[i] = q[i] /\ i < n)
  BY <1>1
<1>3. \A i \in DOMAIN q : q[i] # "transmit"
  BY DEF In
<1>4. Single(r)
  BY <1>2, <1>3 DEF Single
<1>5. EraseFirst(r)
  <2>1. n \in DOMAIN r /\ "eraseLogger" # "transmit"
    BY <1>1
  <2> QED BY <1>1, <1>2, <2>1 DEF EraseFirst
<1>6. Grown(q, r, {"transmit"})
  BY <1>1 DEF Grown
<1> QED BY <1>4, <1>5, <1>6 DEF r

\* A step appends tasks of the set S; h is the task that runs, or "none".
Queued(h, S) ==
  IF h = "none" THEN Grown(tasks, tasks', S) ELSE Runs(h) /\ Grown(Tail(tasks), tasks', S)

LEMMA QueueKeeps ==
  ASSUME tasks \in Seq(TaskNames), NEW h, NEW S, Queued(h, S)
  PROVE  /\ tasks' \in Seq(TaskNames)
         /\ \A t : /\ In(tasks', t) => In(tasks, t) \/ t \in S
                   /\ In(tasks, t) /\ t # h => In(tasks', t)
         /\ "transmit" \notin S /\ Single(tasks) => Single(tasks')
         /\ "eraseLogger" \notin S /\ h # "transmit" /\ EraseFirst(tasks) => EraseFirst(tasks')
<1>1. CASE h = "none"
  <2>1. Grown(tasks, tasks', S)
    BY <1>1 DEF Queued
  <2>2. tasks' \in Seq(TaskNames)
    BY <2>1 DEF Grown
  <2>3. \A t : (In(tasks', t) => In(tasks, t) \/ t \in S) /\ (In(tasks, t) => In(tasks', t))
    BY <2>1, GrownHas
  <2>4. "transmit" \notin S /\ Single(tasks) => Single(tasks')
    BY <2>1, GrownSingle
  <2>5. "eraseLogger" \notin S /\ EraseFirst(tasks) => EraseFirst(tasks')
    BY <2>1, GrownErase
  <2> QED BY <2>2, <2>3, <2>4, <2>5
<1>2. CASE h # "none"
  <2> DEFINE q == Tail(tasks)
  <2>1. tasks # <<>> /\ Head(tasks) = h /\ Grown(q, tasks', S)
    BY <1>2 DEF Queued, Runs
  <2>2. q \in Seq(TaskNames)
    BY <2>1, TailIs
  <2>3. \A t : (In(q, t) => In(tasks, t)) /\ (In(tasks, t) => In(q, t) \/ t = h)
    BY <2>1, TailHas
  <2>4. Single(tasks) => Single(q)
    BY <2>1, TailSingle
  <2>5. h # "transmit" /\ EraseFirst(tasks) => EraseFirst(q)
    BY <2>1, TailErase
  <2> HIDE DEF q
  <2>6. tasks' \in Seq(TaskNames)
    BY <2>1 DEF Grown
  <2>7. \A t : (In(tasks', t) => In(q, t) \/ t \in S) /\ (In(q, t) => In(tasks', t))
    BY <2>1, <2>2, GrownHas
  <2>8. "transmit" \notin S /\ Single(q) => Single(tasks')
    BY <2>1, <2>2, GrownSingle
  <2>9. "eraseLogger" \notin S /\ EraseFirst(q) => EraseFirst(tasks')
    BY <2>1, <2>2, GrownErase
  <2> QED BY <2>3, <2>4, <2>5, <2>6, <2>7, <2>8, <2>9
<1> QED BY <1>1, <1>2

-----------------------------------------------------------------------------
(* What keeps a part of the invariant.                                     *)

LEMMA SameLog ==
  ASSUME LogTypes, Flash, b' = b, m_state' = m_state, op' = op, cells' = cells, wbuf' = wbuf
  PROVE  LogTypes' /\ Flash'
BY DEF LogTypes, Flash, Writing, Reading, Booting, Erasing, InUse, Clean, TailClean, LastPending

LEMMA SameOwner ==
  ASSUME Owner, wbuf' = wbuf, sent' = sent, conn'.tid = conn.tid
  PROVE  Owner' /\ Mute' = Mute /\ InLog' = InLog
BY DEF Owner, Mute, Mine, Cid, InLog, Record

LEMMA SameAligned ==
  ASSUME Aligned, Owner, b' = b, m_state' = m_state, op' = op, cells' = cells,
         wbuf' = wbuf, sent' = sent, conn'.tid = conn.tid,
         In(tasks, "eraseLogger") => In(tasks', "eraseLogger")
  PROVE  Aligned'
<1>1. Mute' = Mute /\ InLog' = InLog
  BY SameOwner
<1>2. Standing => Standing'
  BY <1>1 DEF Standing, Record
<1> QED BY <1>1, <1>2 DEF Aligned

LEMMA SameBuffered ==
  ASSUME Buffered, wbuf' = wbuf, rbuf'.packet = rbuf.packet, cells' = cells, sent' = sent,
         In(tasks', "retransmit") => In(tasks, "retransmit") \/ "RETRANSMIT" \in pending,
         "RETRANSMIT" \in pending' => In(tasks, "retransmit") \/ "RETRANSMIT" \in pending
  PROVE  Buffered'
BY DEF Buffered, Genuine, Record, Blank

LEMMA SameRadio ==
  ASSUME Radio, sending' = sending, air' = air, sent' = sent,
         In(tasks', "transmit") => In(tasks, "transmit"), Single(tasks')
  PROVE  Radio'
BY DEF Radio, DataIsGenuine

LEMMA SameStage ==
  ASSUME Stage, conn' = conn, sent' = sent
  PROVE  Stage'
BY DEF Stage

LEMMA SameUnborn ==
  ASSUME Unborn, Types, \A t \in Tids : elem'[t] = "new" => elem[t] = "new",
         conn'.tid \in {conn.tid, 0}, current' \in {current, NoPacket}, sent' = sent, heard' = heard,
         air' \in {air, Nothing} \/ air'.tid = conn.tid
  PROVE  Unborn'
BY MoteAssumption DEF Unborn, Types, NoPacket

LEMMA SameSyn ==
  ASSUME SynOnAir, sent' = sent, conn'.tid = conn.tid, air' = air \/ air'.flag # "SYN"
  PROVE  SynOnAir'
BY DEF SynOnAir

LEMMA SameHeard ==
  ASSUME Heard, heard' = heard, sent' = sent,
         conn'.state = "ACTIVE" => conn.state = "ACTIVE" \/ <<"SYN", conn.tid>> \in heard,
         conn'.tid = conn.tid, air' = air \/ air'.flag # "SYN",
         In(tasks', "eraseLogger") => In(tasks, "eraseLogger"), EraseFirst(tasks) => EraseFirst(tasks')
  PROVE  Heard'
BY DEF Heard

LEMMA SameWaited ==
  ASSUME Waited, sent' = sent, wbuf' = wbuf, current' = current, conn'.tid = conn.tid,
         psd' = psd, air' = air \/ air'.flag # "DATA"
  PROVE  Waited'
BY DEF Waited, Mine, Cid, Valid

LEMMA SpendKeeps ==
  ASSUME left \in Budgets, NEW n \in {0, 1}, NEW what, Spend(what, n),
         what \in {"runs", "refusals", "errors", "flash", "erase", "nacks", "deletions"}
  PROVE  left' \in Budgets
<1>1. left[what] \in Nat /\ left[what] >= n /\ left' = [left EXCEPT ![what] = left[what] - n]
  BY DEF Spend, Budgets
<1> DEFINE m == left[what] - n
<1>2. m \in Nat
  BY <1>1
<1>3. left' = [left EXCEPT ![what] = m]
  BY <1>1
<1> HIDE DEF m
<1>4. left' \in Budgets
  BY <1>2, <1>3 DEF Budgets
<1> QED BY <1>4

LEMMA SpendUnlessKeeps ==
  ASSUME left \in Budgets, NEW ok \in BOOLEAN, NEW what, SpendUnless(ok, what),
         what \in {"runs", "refusals", "errors", "flash", "erase", "nacks", "deletions"}
  PROVE  left' \in Budgets
BY SpendKeeps DEF SpendUnless

LEMMA WithoutType ==
  ASSUME NEW q \in Seq(OwnPackets), NEW t
  PROVE  Without(q, t) \in Seq(OwnPackets)
<1>1. CASE Waiting(q, t)
  <2> DEFINE i == CHOOSE i \in DOMAIN q : q[i].tid = t
  <2>1. i \in DOMAIN q
    BY <1>1 DEF Waiting
  <2> HIDE DEF i
  <2>2. i \in 1 .. Len(q) /\ Len(q) \in Nat
    BY <2>1
  <2>3. SubSeq(q, 1, i - 1) \in Seq(OwnPackets) /\ SubSeq(q, i + 1, Len(q)) \in Seq(OwnPackets)
    BY <2>2
  <2>4. Without(q, t) = SubSeq(q, 1, i - 1) \o SubSeq(q, i + 1, Len(q))
    BY <1>1 DEF Without, Sq!RemoveAt, i
  <2> QED BY <2>3, <2>4
<1>2. CASE ~Waiting(q, t)
  BY <1>2 DEF Without
<1> QED BY <1>1, <1>2

\* The tasks of the tasklets and of the connections, apart from the log's.
Ordinary == {"pop_and_send", "send_SYN", "send_FIN", "writeLogger", "readLogger"}

LEMMA OrdinaryTasks ==
  /\ "transmit" \notin Ordinary /\ "eraseLogger" \notin Ordinary /\ "retransmit" \notin Ordinary
  /\ Ordinary \subseteq TaskNames
BY DEF Ordinary, TaskNames

LEMMA PostOrdinary ==
  ASSUME NEW q \in Seq(TaskNames), NEW r, Grown(q, r, Ordinary), NEW c \in BOOLEAN, NEW t \in Ordinary
  PROVE  Grown(q, PostIf(r, c, t), Ordinary)
<1>1. r \in Seq(TaskNames) /\ t \in TaskNames
  BY OrdinaryTasks DEF Grown
<1>2. Grown(r, PostIf(r, c, t), {t})
  BY <1>1, PostGrows
<1>3. Grown(q, PostIf(r, c, t), Ordinary \cup {t})
  BY <1>2, GrownTwice
<1>4. Ordinary \cup {t} = Ordinary
  OBVIOUS
<1> QED BY <1>3, <1>4

\* Who has the cid of the connection.
LEMMA CidOfConn ==
  ASSUME Types, CidInv
  PROVE  /\ Cid(conn) # U8 - 1
         /\ Cid(conn) = 0 <=> conn.tid = 0
         /\ \A t \in Tids : Live(t) /\ t % U8 = Cid(conn) => conn.tid = t
<1>1. conn.tid \in Tids \cup {0}
  BY DEF Types, Connections
<1>2. U8 \in Nat /\ U8 > 1
  BY MoteAssumption
<1>3. 0 % U8 = 0
  BY <1>2, RemainderOfSmall
<1>4. 0 # U8 - 1 /\ 0 \notin Tids
  BY <1>2, MoteAssumption
<1>5. CASE conn.tid = 0
  BY <1>3, <1>4, <1>5 DEF Cid, CidInv
<1>6. CASE conn.tid # 0
  <2>1. conn.tid \in Tids
    BY <1>1, <1>6
  <2> QED BY <1>6, <2>1 DEF Cid, CidInv
<1> QED BY <1>5, <1>6

\* A packet that was accepted has the cid of a connection.
LEMMA GenuineCid ==
  ASSUME Types, CidInv, NEW r, Genuine(r)
  PROVE  r.cid # 0 /\ r.cid # U8 - 1
<1>1. PICK t \in Tids : \E n \in DOMAIN sent[t] : r = Record(t, n)
  BY DEF Genuine
<1>2. sent[t] # <<>> /\ r.cid = t % U8
  BY <1>1 DEF Record
<1> QED BY <1>2 DEF CidInv

LEMMA CidType == ASSUME Types PROVE Cid(conn) \in Nat
<1>1. conn.tid \in Tids \cup {0}
  BY DEF Types, Connections
<1>2. U8 \in Nat \ {0} /\ \A t \in Tids : t \in Nat
  BY MoteAssumption
<1>3. conn.tid \in Nat
  BY <1>1, <1>2
<1> QED BY <1>2, <1>3 DEF Cid

\* A step that sends and opens nothing, and runs no transmission.
LEMMA AppQuiet ==
  ASSUME MoteInv, sent' = sent, heard' = heard, conn'.tid = conn.tid,
         conn'.state = "ACTIVE" => conn.state = "ACTIVE" \/ <<"SYN", conn.tid>> \in heard,
         current' \in {current, NoPacket},
         \/ air' = air /\ sending' = sending
         \/ air' = Nothing /\ sending' = FALSE /\ ~In(tasks, "transmit"),
         \A t \in Tids : elem'[t] = "new" => elem[t] = "new",
         NEW h, NEW S, Queued(h, S), S \subseteq Ordinary \cup {"retransmit"}, h # "transmit"
  PROVE  Radio' /\ SynOnAir' /\ Unborn' /\ Heard' /\ (wbuf' = wbuf => Owner')
<1>1. "transmit" \notin S /\ "eraseLogger" \notin S
  BY OrdinaryTasks
<1>2. /\ In(tasks', "transmit") => In(tasks, "transmit")
      /\ In(tasks', "eraseLogger") => In(tasks, "eraseLogger")
      /\ Single(tasks) => Single(tasks')
      /\ EraseFirst(tasks) => EraseFirst(tasks')
  BY <1>1, QueueKeeps DEF MoteInv, Types
<1>3. Nothing.flag = "none"
  BY DEF Nothing
<1>4. Radio'
  <2>1. CASE air' = air /\ sending' = sending
    BY <1>2, <2>1, SameRadio DEF MoteInv, Radio
  <2>2. CASE air' = Nothing /\ sending' = FALSE /\ ~In(tasks, "transmit")
    BY <1>2, <1>3, <2>2 DEF MoteInv, Radio, DataIsGenuine
  <2> QED BY <2>1, <2>2
<1>5. SynOnAir'
  BY <1>3, SameSyn DEF MoteInv
<1>6. Unborn'
  BY SameUnborn DEF MoteInv
<1>7. Heard'
  BY <1>2, <1>3, SameHeard DEF MoteInv
<1>8. wbuf' = wbuf => Owner'
  BY SameOwner DEF MoteInv
<1> QED BY <1>4, <1>5, <1>6, <1>7, <1>8

\* A step that leaves the log alone.
LEMMA LogQuiet ==
  ASSUME MoteInv, UNCHANGED logVars, wbuf' = wbuf, sent' = sent, conn'.tid = conn.tid,
         NEW h, NEW S, Queued(h, S), h # "eraseLogger"
  PROVE  LogTypes' /\ Flash' /\ Aligned'
<1>1. In(tasks, "eraseLogger") => In(tasks', "eraseLogger")
  BY QueueKeeps DEF MoteInv, Types
<1>2. b' = b /\ m_state' = m_state /\ op' = op /\ cells' = cells
  BY DEF logVars
<1> QED BY <1>1, <1>2, SameLog, SameAligned DEF MoteInv

\* What a buffer holds stays genuine.
LEMMA BuffersQuiet ==
  ASSUME MoteInv, wbuf' = wbuf, rbuf'.packet = rbuf.packet, cells' = cells, sent' = sent,
         NEW h, NEW S, Queued(h, S), "retransmit" \in S => "RETRANSMIT" \in pending,
         "RETRANSMIT" \in pending' => "RETRANSMIT" \in pending \/ h = "retransmit"
  PROVE  Buffered'
<1>1. In(tasks', "retransmit") => In(tasks, "retransmit") \/ "RETRANSMIT" \in pending
  BY QueueKeeps DEF MoteInv, Types
<1>2. h = "retransmit" => In(tasks, "retransmit")
  <2>1. CASE h = "retransmit"
    <3>1. tasks # <<>> /\ tasks[1] = "retransmit" /\ 1 \in DOMAIN tasks
      BY <2>1, TailIs DEF Queued, Runs, MoteInv, Types
    <3> QED BY <3>1 DEF In
  <2> QED BY <2>1
<1> QED BY <1>1, <1>2, SameBuffered DEF MoteInv

\* Both at once.
LEMMA QuietKeeps ==
  ASSUME MoteInv, Types', Stage', Waited', UNCHANGED logVars,
         wbuf' = wbuf, rbuf'.packet = rbuf.packet, sent' = sent, heard' = heard, conn'.tid = conn.tid,
         conn'.state = "ACTIVE" => conn.state = "ACTIVE" \/ <<"SYN", conn.tid>> \in heard,
         current' \in {current, NoPacket},
         \/ air' = air /\ sending' = sending
         \/ air' = Nothing /\ sending' = FALSE /\ ~In(tasks, "transmit"),
         \A t \in Tids : elem'[t] = "new" => elem[t] = "new",
         NEW h, NEW S, Queued(h, S), S \subseteq Ordinary \cup {"retransmit"},
         h # "transmit", h # "eraseLogger", "retransmit" \in S => "RETRANSMIT" \in pending,
         "RETRANSMIT" \in pending' => "RETRANSMIT" \in pending \/ h = "retransmit"
  PROVE  MoteInv'
<1>1. Radio' /\ SynOnAir' /\ Unborn' /\ Heard' /\ Owner'
  BY AppQuiet
<1>2. LogTypes' /\ Flash' /\ Aligned'
  BY LogQuiet
<1>3. Buffered'
  BY BuffersQuiet DEF logVars
<1> QED BY <1>1, <1>2, <1>3 DEF MoteInv

-----------------------------------------------------------------------------
(* The initial states.                                                     *)

LEMMA InitKeeps == ASSUME Init PROVE MoteInv
<1> USE DEF Init, LoggerInit
<1>t. /\ TR_FLASH_PKTS_PER_CON \in Nat \ {0} /\ 0 \in Places /\ U8 \in Nat \ {0}
      /\ 0 \notin Tids
  BY LoggerAssumption, SeqnoAssumption, MoteAssumption DEF Places
<1>1. Types
  <2>1. left \in Budgets
    BY MoteAssumption DEF Budgets
  <2>2. conn \in Connections
    BY DEF Idle, Connections, States
  <2>3. NoPacket \in AnyPacket
    BY DEF NoPacket, AnyPacket
  <2>4. wbuf \in Buffers /\ rbuf \in Buffers
    BY <2>3 DEF Buffers, Records
  <2>5. elem \in [Tids -> Elements]
    BY DEF Elements
  <2>6. tasks \in Seq(TaskNames) /\ list \in Seq(OwnPackets)
    OBVIOUS
  <2>7. sent \in [Tids -> Seq(OwnPackets)]
    <3>1. <<>> \in Seq(OwnPackets)
      OBVIOUS
    <3> QED BY <3>1
  <2>8. /\ sending \in BOOLEAN /\ psd \in BOOLEAN /\ air = Nothing
        /\ heard \subseteq {"SYN", "FIN"} \X Tids
        /\ retry = NoPacket /\ current = NoPacket /\ runs \in Nat
    OBVIOUS
  <2> HIDE DEF Init, LoggerInit
  <2> QED BY <2>1, <2>2, <2>4, <2>5, <2>6, <2>7, <2>8 DEF Types
<1>2. LogTypes
  BY <1>t DEF LogTypes, Volumes
<1>3. \A t : ~In(tasks, t)
  BY DEF In
<1>4. Nothing.flag = "none" /\ Idle.tid = 0 /\ Idle.state = "IDLE" /\ NoPacket.tid = 0
  BY DEF Nothing, Idle, NoPacket
<1>5. Buffered
  BY <1>3 DEF Buffered, Volumes
<1>6. Radio
  BY <1>3, <1>4 DEF Radio, Single, DataIsGenuine
<1>7. Stage /\ SynOnAir /\ Unborn
  BY <1>t, <1>4 DEF Stage, SynOnAir, Unborn
<1>8. Heard
  BY <1>3, <1>4 DEF Heard
<1>9. Flash
  BY DEF Flash, Booting, Volumes, Erasure, Rest
<1>10. Owner
  BY DEF Owner, Mute
<1>11. Aligned
  <2>1. InLog = 0
    BY <1>4 DEF InLog
  <2>2. Vol(1) = 0 /\ Place(1) = 0
    BY LogPlaces
  <2> QED BY <2>1, <2>2 DEF Aligned, Standing
<1>12. Waited
  BY <1>4 DEF Waited
<1> QED BY <1>1, <1>2, <1>5, <1>6, <1>7, <1>8, <1>9, <1>10, <1>11, <1>12 DEF MoteInv

-----------------------------------------------------------------------------
(* The tasklet's steps.                                                    *)

LEMMA PostInto ==
  ASSUME NEW q \in Seq(TaskNames), NEW r, NEW S, Grown(q, r, S), NEW c \in BOOLEAN,
         NEW t \in TaskNames, c => t \in S
  PROVE  Grown(q, PostIf(r, c, t), S)
<1>1. r \in Seq(TaskNames)
  BY DEF Grown
<1>2. CASE c
  <2>1. Grown(r, PostIf(r, c, t), {t})
    BY <1>1, PostGrows
  <2>2. Grown(q, PostIf(r, c, t), S \cup {t})
    BY <2>1, GrownTwice
  <2>3. S \cup {t} = S
    BY <1>2
  <2> QED BY <2>2, <2>3
<1>3. CASE ~c
  BY <1>3 DEF PostIf
<1> QED BY <1>2, <1>3

\* A post by a step that is not a task.
LEMMA PostQueued ==
  ASSUME tasks \in Seq(TaskNames), NEW c \in BOOLEAN, NEW t \in Ordinary, tasks' = PostIf(tasks, c, t)
  PROVE  Queued("none", Ordinary)
<1>1. Grown(tasks, tasks, Ordinary)
  BY NotGrown, GrownMore
<1> QED BY <1>1, PostOrdinary DEF Queued

\* Closing a connection leaves it to the task that opened it.
LEMMA ClosedConn ==
  ASSUME MoteInv, CidInv, NEW t \in Tids, Live(t), conn' = Closed(t % U8), sent' = sent
  PROVE  /\ conn' \in Connections /\ conn'.tid = conn.tid
         /\ conn'.state = "ACTIVE" => conn.state = "ACTIVE"
         /\ Stage'
<1>1. t % U8 = Cid(conn) <=> conn.tid = t
  BY CidOfConn DEF MoteInv, Cid
<1>2. conn \in Connections /\ Stage /\ 0 \notin Tids
  BY MoteAssumption DEF MoteInv, Types
<1>3. CASE conn.tid # t
  BY <1>1, <1>2, <1>3, SameStage DEF Closed
<1>4. CASE conn.tid = t
  <2>1. conn' = [conn EXCEPT !.state = "FIN_SEND"]
    BY <1>1, <1>4 DEF Closed
  <2>2. /\ conn'.state = "FIN_SEND" /\ conn'.tid = conn.tid /\ conn'.last = conn.last
        /\ conn' \in Connections
    BY <1>2, <2>1 DEF Connections, States
  <2>3. Stage'
    BY <1>2, <1>4, <2>2 DEF Stage
  <2> QED BY <2>2, <2>3
<1> QED BY <1>3, <1>4

LEMMA SuicideTypes ==
  ASSUME Types, NEW t \in Tids, Suicide(t)
  PROVE  /\ elem' \in [Tids -> Elements] /\ \A u \in Tids : elem'[u] = "new" => elem[u] = "new"
         /\ list' \in Seq(OwnPackets) /\ retry' \in OwnPackets \cup {NoPacket}
         /\ conn' = Closed(t % U8)
<1>1. elem' \in [Tids -> Elements] /\ \A u \in Tids : elem'[u] = "new" => elem[u] = "new"
  BY DEF Suicide, Types, Elements
<1>2. list' \in Seq(OwnPackets)
  BY WithoutType DEF Suicide, Types
<1> QED BY <1>1, <1>2 DEF Suicide, Types

\* What sendDone does to the tasklet and its connection.
LEMMA SignalDone ==
  ASSUME MoteInv, CidInv, NEW follows \in BOOLEAN, NEW after, follows => after \in Ordinary,
         SignalSendDone(follows, after), sent' = sent
  PROVE  /\ current' = NoPacket /\ Queued("none", Ordinary)
         /\ conn' \in Connections /\ conn'.tid = conn.tid
         /\ conn'.state = "ACTIVE" => conn.state = "ACTIVE"
         /\ Stage'
         /\ elem' \in [Tids -> Elements] /\ \A u \in Tids : elem'[u] = "new" => elem[u] = "new"
         /\ list' \in Seq(OwnPackets) /\ retry' \in OwnPackets \cup {NoPacket}
<1> DEFINE t == current.tid
<1>t. Types /\ tasks \in Seq(TaskNames) /\ "pop_and_send" \in Ordinary /\ "send_FIN" \in Ordinary
  BY DEF MoteInv, Types, Ordinary
<1>c. current' = NoPacket
  BY DEF SignalSendDone
<1>g. Grown(tasks, tasks, Ordinary)
  BY <1>t, NotGrown, GrownMore
<1>a. ASSUME NEW r, Grown(tasks, r, Ordinary)
      PROVE  Grown(tasks, PostIf(r, follows, after), Ordinary)
  <2>1. CASE follows
    BY <1>t, <1>a, <2>1, PostOrdinary
  <2>2. CASE ~follows
    BY <1>a, <2>2 DEF PostIf
  <2> QED BY <2>1, <2>2
<1>1. CASE /\ t # 0 /\ elem[t] = "SENDING" /\ retry.tid # t /\ ~Waiting(list, t)
           /\ Suicide(t)
           /\ tasks' = PostIf(Post(Closing(t % U8), "pop_and_send"), follows, after)
  <2>1. t \in Tids
    BY <1>t, <1>1 DEF Types, OwnPackets, NoPacket
  <2>2. Grown(tasks, Closing(t % U8), Ordinary)
    BY <1>t, <1>g, PostOrdinary DEF Closing
  <2>3. Grown(tasks, Post(Closing(t % U8), "pop_and_send"), Ordinary)
    BY <1>t, <2>2, PostOrdinary DEF Post
  <2>4. Grown(tasks, tasks', Ordinary)
    BY <1>1, <1>a, <2>3
  <2>5. Suicide(t) /\ conn' = Closed(t % U8) /\ Live(t)
    BY <1>1 DEF Suicide, Live
  <2> HIDE DEF t
  <2> QED BY <1>t, <1>c, <2>1, <2>4, <2>5, SuicideTypes, ClosedConn DEF Queued
<1>2. CASE /\ elem' = [u \in Tids |-> IF u = t /\ elem[u] = "SENDING" THEN "CONNECTED" ELSE elem[u]]
           /\ tasks' = PostIf(Post(tasks, "pop_and_send"), follows, after)
           /\ UNCHANGED <<conn, retry, list>>
  <2>1. Grown(tasks, Post(tasks, "pop_and_send"), Ordinary)
    BY <1>t, <1>g, PostOrdinary DEF Post
  <2>2. Grown(tasks, tasks', Ordinary)
    BY <1>2, <1>a, <2>1
  <2>3. elem' \in [Tids -> Elements] /\ \A u \in Tids : elem'[u] = "new" => elem[u] = "new"
    BY <1>t, <1>2 DEF Types, Elements
  <2>4. Stage'
    BY <1>2, SameStage DEF MoteInv
  <2> QED BY <1>t, <1>c, <1>2, <2>2, <2>3, <2>4 DEF Queued, Types
<1> QED BY <1>1, <1>2 DEF SignalSendDone

LEMMA RunKeeps == ASSUME MoteInv, NEW t \in Tids, Run(t) PROVE MoteInv'
<1>t. Types /\ Waited /\ Stage
  BY DEF MoteInv
<1>1. /\ UNCHANGED <<conn, sending, air, heard, logVars, wbuf, rbuf, psd, pending, elem, retry, current, sent>>
      /\ runs' = runs + 1 /\ tasks' = PostIf(tasks, TRUE, "pop_and_send") /\ Spend("runs", 1)
      /\ list' = Append(Without(list, t), [tid |-> t, run |-> runs'])
  BY DEF Run, connVars, radioVars, flashVars, bufVars, Post
<1>2. Queued("none", Ordinary)
  BY <1>t, <1>1, PostQueued DEF Types, Ordinary
<1>3. list' \in Seq(OwnPackets)
  <2>1. [tid |-> t, run |-> runs'] \in OwnPackets
    BY <1>t, <1>1 DEF OwnPackets, Types
  <2>2. Without(list, t) \in Seq(OwnPackets)
    BY <1>t, WithoutType DEF Types
  <2> QED BY <1>1, <2>1, <2>2, AppendIs
<1>4. left' \in Budgets
  BY <1>t, <1>1, SpendKeeps DEF Types
<1>5. tasks' \in Seq(TaskNames)
  BY <1>t, <1>2, QueueKeeps DEF Types
<1>r. runs' \in Nat
  BY <1>t, <1>1 DEF Types
<1>6. Types'
  BY <1>t, <1>1, <1>r, <1>3, <1>4, <1>5 DEF Types
<1>7. Stage' /\ Waited'
  BY <1>t, <1>1, SameStage, SameWaited
<1> QED BY <1>1, <1>2, <1>6, <1>7, OrdinaryTasks, QuietKeeps

LEMMA TaskDeletedKeeps == ASSUME MoteInv, CidInv, NEW t \in Tids, TaskDeleted(t) PROVE MoteInv'
<1>t. Types /\ Waited /\ tasks \in Seq(TaskNames)
  BY DEF MoteInv, Types
<1>1. /\ UNCHANGED <<sending, air, heard, logVars, wbuf, rbuf, psd, pending, current, runs, sent>>
      /\ Suicide(t) /\ Live(t) /\ Spend("deletions", 1)
      /\ tasks' = PostIf(tasks, t % U8 = Cid(conn), "send_FIN")
  BY DEF TaskDeleted, radioVars, flashVars, bufVars, Closing
<1>2. Queued("none", Ordinary)
  BY <1>t, <1>1, PostQueued DEF Ordinary
<1>3. left' \in Budgets
  BY <1>t, <1>1, SpendKeeps DEF Types
<1>4. tasks' \in Seq(TaskNames)
  BY <1>t, <1>2, QueueKeeps DEF Types
<1>5. /\ elem' \in [Tids -> Elements] /\ \A u \in Tids : elem'[u] = "new" => elem[u] = "new"
      /\ list' \in Seq(OwnPackets) /\ retry' \in OwnPackets \cup {NoPacket}
      /\ conn' = Closed(t % U8)
  BY <1>t, <1>1, SuicideTypes
<1>6. /\ conn' \in Connections /\ conn'.tid = conn.tid
      /\ conn'.state = "ACTIVE" => conn.state = "ACTIVE"
      /\ Stage'
  BY <1>1, <1>5, ClosedConn
<1>7. Types'
  BY <1>t, <1>1, <1>3, <1>4, <1>5, <1>6 DEF Types
<1>8. Waited'
  BY <1>t, <1>1, <1>6, SameWaited
<1> QED BY <1>1, <1>2, <1>5, <1>6, <1>7, <1>8, OrdinaryTasks, QuietKeeps

-----------------------------------------------------------------------------
(* Opening and closing.                                                    *)

LEMMA ReceiveSynAckKeeps == ASSUME MoteInv, ReceiveSynAck PROVE MoteInv'
<1>t. Types /\ Waited /\ Stage /\ tasks \in Seq(TaskNames) /\ conn \in Connections
  BY DEF MoteInv, Types
<1>1. /\ UNCHANGED <<sending, air, heard, logVars, wbuf, rbuf, psd, pending, current, retry, list, runs, sent, left>>
      /\ conn' = [conn EXCEPT !.state = "ACTIVE", !.last = 0] /\ conn.state = "SYN_ACK_WAIT"
      /\ tasks' = PostIf(tasks, TRUE, "pop_and_send")
      /\ elem' = [t \in Tids |-> IF TRUE /\ elem[t] = "OPEN_WAIT" /\ t % U8 = Cid(conn) THEN "CONNECTED" ELSE elem[t]]
  BY DEF ReceiveSynAck, SignalOpenDone, Post, radioVars, flashVars, bufVars
<1>2. <<"SYN", conn.tid>> \in heard
  <2>1. PICK m \in heard : m[1] = "SYN" /\ Valid(m[2])
    BY DEF ReceiveSynAck
  <2>2. m = <<m[1], m[2]>>
    BY <1>t DEF Types
  <2> QED BY <2>1, <2>2 DEF Valid
<1>3. Queued("none", Ordinary)
  BY <1>t, <1>1, PostQueued DEF Ordinary
<1>4. tasks' \in Seq(TaskNames)
  BY <1>t, <1>3, QueueKeeps
<1>5. elem' \in [Tids -> Elements] /\ \A u \in Tids : elem'[u] = "new" => elem[u] = "new"
  BY <1>t, <1>1 DEF Types, Elements
<1>6. /\ conn' \in Connections /\ conn'.tid = conn.tid /\ conn'.last = 0 /\ conn'.state = "ACTIVE"
  BY <1>t, <1>1 DEF Connections, States
<1>7. Types'
  BY <1>t, <1>1, <1>4, <1>5, <1>6 DEF Types
<1>8. Stage'
  <2>1. sent[conn.tid] = <<>> /\ conn.tid # 0
    BY <1>t, <1>1 DEF Stage
  <2>2. Len(sent[conn.tid]) = 0
    BY <2>1
  <2> QED BY <1>1, <1>6, <2>1, <2>2 DEF Stage, Number
<1>9. Waited'
  BY <1>t, <1>1, <1>6, SameWaited
<1> QED BY <1>1, <1>2, <1>3, <1>5, <1>6, <1>7, <1>8, <1>9, OrdinaryTasks, QuietKeeps

LEMMA ReceiveNackKeeps == ASSUME MoteInv, ReceiveNack PROVE MoteInv'
<1>t. Types /\ Waited /\ Stage /\ tasks \in Seq(TaskNames)
  BY DEF MoteInv, Types
<1>1. /\ UNCHANGED <<conn, sending, air, heard, logVars, wbuf, rbuf, psd, pending, elem, current, retry, list, runs, sent>>
      /\ tasks' = PostIf(tasks, TRUE, "readLogger") /\ Spend("nacks", 1)
  BY DEF ReceiveNack, Post, radioVars, flashVars, appVars
<1>2. Queued("none", Ordinary)
  BY <1>t, <1>1, PostQueued DEF Ordinary
<1>3. tasks' \in Seq(TaskNames)
  BY <1>t, <1>2, QueueKeeps
<1>4. left' \in Budgets
  BY <1>t, <1>1, SpendKeeps DEF Types
<1>5. Types'
  BY <1>t, <1>1, <1>3, <1>4 DEF Types
<1>6. Stage' /\ Waited'
  BY <1>t, <1>1, SameStage, SameWaited
<1> QED BY <1>1, <1>2, <1>5, <1>6, OrdinaryTasks, QuietKeeps

LEMMA RetryTimerFiredKeeps == ASSUME MoteInv, RetryTimerFired PROVE MoteInv'
<1> DEFINE S == Ordinary \cup (IF "RETRANSMIT" \in pending THEN {"retransmit"} ELSE {})
<1>t. Types /\ Waited /\ Stage /\ tasks \in Seq(TaskNames)
  BY DEF MoteInv, Types
<1>1. /\ UNCHANGED <<conn, sending, air, heard, logVars, wbuf, rbuf, psd, elem, current, retry, list, runs, sent, left>>
      /\ tasks' = RetryControl(RetryRead(RetryWrite(tasks))) /\ pending' = {}
  BY DEF RetryTimerFired, connVars, radioVars, flashVars, bufVars, appVars
<1>2. Queued("none", S)
  <2>1. /\ "writeLogger" \in S /\ "readLogger" \in S /\ "send_SYN" \in S /\ "send_FIN" \in S
        /\ "RETRANSMIT" \in pending => "retransmit" \in S
        /\ {"writeLogger", "readLogger", "send_SYN", "send_FIN", "retransmit"} \subseteq TaskNames
    BY DEF Ordinary, TaskNames
  <2> HIDE DEF S
  <2>2. Grown(tasks, tasks, S)
    BY <1>t, NotGrown, GrownMore
  <2> DEFINE c1 == "WRITE" \in pending
             c2 == "READ" \in pending
             c3 == "RETRANSMIT" \in pending
             c4 == "SYN" \in pending
             c5 == "FIN" \in pending
             q1 == PostIf(tasks, c1, "writeLogger")
             q2 == PostIf(q1, c2, "readLogger")
             q3 == PostIf(q2, c3, "retransmit")
             q4 == PostIf(q3, c4, "send_SYN")
             q5 == PostIf(q4, c5, "send_FIN")
  <2>3. tasks' = q5
    BY <1>1 DEF RetryControl, RetryRead, RetryWrite
  <2>b. /\ c1 \in BOOLEAN /\ c2 \in BOOLEAN /\ c3 \in BOOLEAN /\ c4 \in BOOLEAN /\ c5 \in BOOLEAN
        /\ c3 => "retransmit" \in S
    BY <2>1
  <2> HIDE DEF c1, c2, c3, c4, c5
  <2>4. Grown(tasks, q1, S)
    BY <1>t, <2>1, <2>b, <2>2, PostInto
  <2> HIDE DEF q1
  <2>5. Grown(tasks, q2, S)
    BY <1>t, <2>1, <2>b, <2>4, PostInto
  <2> HIDE DEF q2
  <2>6. Grown(tasks, q3, S)
    BY <1>t, <2>1, <2>b, <2>5, PostInto
  <2> HIDE DEF q3
  <2>7. Grown(tasks, q4, S)
    BY <1>t, <2>1, <2>b, <2>6, PostInto
  <2> HIDE DEF q4
  <2>8. Grown(tasks, q5, S)
    BY <1>t, <2>1, <2>b, <2>7, PostInto
  <2> QED BY <2>3, <2>8 DEF Queued
<1>3. tasks' \in Seq(TaskNames)
  BY <1>t, <1>2, QueueKeeps
<1>4. Types'
  BY <1>t, <1>1, <1>3 DEF Types
<1>5. Stage' /\ Waited'
  BY <1>t, <1>1, SameStage, SameWaited
<1>6. S \subseteq Ordinary \cup {"retransmit"} /\ ("retransmit" \in S => "RETRANSMIT" \in pending)
  BY OrdinaryTasks
<1> HIDE DEF S
<1> QED BY <1>1, <1>2, <1>4, <1>5, <1>6, QuietKeeps

\* A connection is given up: what is on its way belongs to nobody any more.
LEMMA Abandoned ==
  ASSUME MoteInv, CidInv, UNCHANGED <<sending, air, heard, wbuf, rbuf, pending, current, sent, elem>>,
         UNCHANGED logVars, conn' = Idle, psd' = FALSE,
         NEW S, Queued("none", S), S \subseteq Ordinary \cup {"eraseLogger"},
         "eraseLogger" \in S => In(tasks', "eraseLogger"),
         "eraseLogger" \notin S => conn.tid # 0 /\ sent[conn.tid] = <<>>
  PROVE  /\ Stage' /\ SynOnAir' /\ Unborn' /\ Heard' /\ Owner' /\ Waited' /\ Radio' /\ Buffered'
         /\ LogTypes' /\ Flash' /\ Aligned'
<1>t. Types /\ tasks \in Seq(TaskNames) /\ Idle.tid = 0 /\ Idle.state = "IDLE" /\ 0 \notin Tids
  BY MoteAssumption DEF MoteInv, Types, Idle
<1>q. /\ In(tasks', "transmit") => In(tasks, "transmit")
      /\ In(tasks', "retransmit") => In(tasks, "retransmit")
      /\ In(tasks, "eraseLogger") => In(tasks', "eraseLogger")
      /\ Single(tasks) => Single(tasks')
  <2>1. "transmit" \notin S /\ "retransmit" \notin S
    BY OrdinaryTasks
  <2> QED BY <1>t, <2>1, QueueKeeps
<1>m. Cid(conn)' = 0
  <2>1. 0 % U8 = 0
    BY MoteAssumption, RemainderOfSmall
  <2> QED BY <1>t, <2>1 DEF Cid
<1>1. Stage'
  BY <1>t DEF Stage
<1>2. SynOnAir'
  BY <1>t DEF SynOnAir, Types, Nothing, Messages
<1>3. Unborn'
  BY <1>t, SameUnborn DEF MoteInv
<1>4. Heard'
  BY <1>t DEF Heard, MoteInv
<1>5. wbuf.busy => ~Mine(wbuf.packet)'
  <2> SUFFICES ASSUME wbuf.busy PROVE wbuf.packet.cid # Cid(conn)'
    BY DEF Mine
  <2>1. wbuf.packet.cid # 0
    BY <1>t, GenuineCid DEF MoteInv, Buffered
  <2> QED BY <1>m, <2>1
<1>6. Mute' = wbuf.busy /\ InLog' = 0
  BY <1>t, <1>5 DEF Mute, InLog, Types, Buffers
<1>7. Owner'
  BY <1>t, <1>5, <1>6 DEF Owner
<1>8. Waited'
  BY <1>t DEF Waited, Valid, MoteInv, Types, OwnPackets
<1>9. Radio'
  BY <1>q, SameRadio DEF MoteInv, Radio
<1>10. Buffered'
  BY <1>q, SameBuffered DEF MoteInv, logVars
<1>11. LogTypes' /\ Flash'
  BY SameLog DEF MoteInv, logVars
<1>12. Aligned'
  <2> SUFFICES ASSUME ~wbuf.busy PROVE Aligned'
    BY <1>6 DEF Aligned
  <2>1. ~Mute /\ ~Mute' /\ Aligned
    BY <1>6 DEF Mute, MoteInv
  <2>2. CASE "eraseLogger" \in S
    BY <2>1, <2>2 DEF Aligned, logVars
  <2>3. CASE "eraseLogger" \notin S
    <3>1. InLog = 0
      BY <2>3 DEF InLog
    <3>2. Standing => Standing'
      BY <1>6, <3>1 DEF Standing, logVars
    <3> QED BY <1>q, <2>1, <3>2 DEF Aligned, logVars
  <2> QED BY <2>2, <2>3
<1> QED BY <1>1, <1>2, <1>3, <1>4, <1>7, <1>8, <1>9, <1>10, <1>11, <1>12

LEMMA EndTypes ==
  ASSUME MoteInv, EndConnection
  PROVE  /\ conn' \in Connections /\ tasks' \in Seq(TaskNames) /\ psd' = FALSE /\ conn' = Idle
         /\ Queued("none", {"eraseLogger"}) /\ In(tasks', "eraseLogger")
<1>t. tasks \in Seq(TaskNames) /\ "eraseLogger" \in TaskNames
  BY DEF MoteInv, Types, TaskNames
<1>1. Grown(tasks, tasks', {"eraseLogger"}) /\ In(tasks', "eraseLogger")
  BY <1>t, PostGrows DEF EndConnection, Post
<1>2. tasks' \in Seq(TaskNames)
  BY <1>1 DEF Grown
<1> QED BY <1>1, <1>2 DEF Queued, EndConnection, Idle, Connections, States

LEMMA ReceiveFinAckKeeps == ASSUME MoteInv, CidInv, ReceiveFinAck PROVE MoteInv'
<1>1. /\ UNCHANGED <<sending, air, heard, logVars, wbuf, rbuf, pending, elem, current, retry, list, runs, sent, left>>
      /\ EndConnection
  BY DEF ReceiveFinAck, radioVars, flashVars, appVars
<1>2. /\ conn' \in Connections /\ tasks' \in Seq(TaskNames) /\ psd' = FALSE /\ conn' = Idle
      /\ Queued("none", {"eraseLogger"}) /\ In(tasks', "eraseLogger")
  BY <1>1, EndTypes
<1>3. Types'
  BY <1>1, <1>2 DEF MoteInv, Types
<1>4. /\ Stage' /\ SynOnAir' /\ Unborn' /\ Heard' /\ Owner' /\ Waited' /\ Radio' /\ Buffered'
      /\ LogTypes' /\ Flash' /\ Aligned'
  BY <1>1, <1>2, Abandoned
<1> QED BY <1>3, <1>4 DEF MoteInv

LEMMA SubTimerFiredKeeps == ASSUME MoteInv, CidInv, SubTimerFired PROVE MoteInv'
<1>t. /\ Types /\ Waited /\ Stage /\ tasks \in Seq(TaskNames) /\ conn \in Connections /\ Owner /\ 0 \notin Tids
      /\ conn.last \in Nat /\ conn.fin \in Nat
  BY MoteAssumption DEF MoteInv, Types, Connections
<1>1. UNCHANGED <<sending, air, heard, logVars, wbuf, rbuf, pending, runs, sent, left>>
  BY DEF SubTimerFired, radioVars, flashVars
<1>2. CASE /\ conn.state = "SYN_ACK_WAIT" /\ conn.last < STR_MAX_NUM_RETX
           /\ conn' = Retried /\ tasks' = Post(tasks, "send_SYN") /\ UNCHANGED <<psd, appVars>>
  <2>1. /\ conn' \in Connections /\ conn'.tid = conn.tid /\ conn'.state = "SYN_SEND"
    <3> DEFINE n == conn.last + 1
    <3>1. conn' = [conn EXCEPT !.state = "SYN_SEND", !.last = n] /\ n \in Nat
      BY <1>t, <1>2 DEF Retried
    <3> HIDE DEF n
    <3> QED BY <1>t, <3>1 DEF Connections, States
  <2>2. Queued("none", Ordinary)
    BY <1>t, <1>2, PostQueued DEF Post, Ordinary
  <2>3. tasks' \in Seq(TaskNames)
    BY <1>t, <2>2, QueueKeeps
  <2>4. Types'
    BY <1>t, <1>1, <1>2, <2>1, <2>3 DEF Types, appVars
  <2>5. Stage' /\ Waited'
    BY <1>t, <1>1, <1>2, <2>1, SameWaited DEF Stage, appVars
  <2> QED BY <1>1, <1>2, <2>1, <2>2, <2>4, <2>5, OrdinaryTasks, QuietKeeps DEF appVars
<1>3. CASE /\ conn.state = "SYN_ACK_WAIT"
           /\ conn' = Idle /\ psd' = FALSE /\ SignalOpenDone(Cid(conn), FALSE)
  <2>1. elem' = elem /\ tasks' = PostIf(tasks, TRUE, "pop_and_send") /\ UNCHANGED <<list, retry, current>>
    BY <1>t, <1>3 DEF SignalOpenDone, Types, Post
  <2>2. Queued("none", Ordinary)
    BY <1>t, <2>1, PostQueued DEF Ordinary
  <2>3. tasks' \in Seq(TaskNames)
    BY <1>t, <2>2, QueueKeeps
  <2>4. Types'
    BY <1>t, <1>1, <1>3, <2>1, <2>3 DEF Types, Idle, Connections, States
  <2>5. conn.tid # 0 /\ sent[conn.tid] = <<>>
    BY <1>t, <1>3 DEF Stage
  <2>6. /\ Stage' /\ SynOnAir' /\ Unborn' /\ Heard' /\ Owner' /\ Waited' /\ Radio' /\ Buffered'
        /\ LogTypes' /\ Flash' /\ Aligned'
    BY <1>1, <1>3, <2>1, <2>2, <2>5, OrdinaryTasks, Abandoned
  <2> QED BY <2>4, <2>6 DEF MoteInv
<1>4. CASE /\ conn.state = "FIN_ACK_WAIT"
           /\ conn' = Retried /\ tasks' = Post(tasks, "send_FIN") /\ UNCHANGED <<psd, appVars>>
  <2>1. /\ conn' \in Connections /\ conn'.tid = conn.tid /\ conn'.state = "FIN_SEND" /\ conn'.last = conn.last
    <3> DEFINE n == conn.fin + 1
    <3>1. conn' = [conn EXCEPT !.state = "FIN_SEND", !.fin = n] /\ n \in Nat
      BY <1>t, <1>4 DEF Retried
    <3> HIDE DEF n
    <3> QED BY <1>t, <3>1 DEF Connections, States
  <2>2. Queued("none", Ordinary)
    BY <1>t, <1>4, PostQueued DEF Post, Ordinary
  <2>3. tasks' \in Seq(TaskNames)
    BY <1>t, <2>2, QueueKeeps
  <2>4. Types'
    BY <1>t, <1>1, <1>4, <2>1, <2>3 DEF Types, appVars
  <2>5. Stage' /\ Waited'
    BY <1>t, <1>1, <1>4, <2>1, SameWaited DEF Stage, appVars
  <2> QED BY <1>1, <1>4, <2>1, <2>2, <2>4, <2>5, OrdinaryTasks, QuietKeeps DEF appVars
<1>5. CASE EndConnection /\ UNCHANGED appVars
  <2>1. /\ conn' \in Connections /\ tasks' \in Seq(TaskNames) /\ psd' = FALSE /\ conn' = Idle
        /\ Queued("none", {"eraseLogger"}) /\ In(tasks', "eraseLogger")
    BY <1>5, EndTypes
  <2>2. Types'
    BY <1>1, <1>5, <2>1 DEF MoteInv, Types, appVars
  <2>3. /\ Stage' /\ SynOnAir' /\ Unborn' /\ Heard' /\ Owner' /\ Waited' /\ Radio' /\ Buffered'
        /\ LogTypes' /\ Flash' /\ Aligned'
    BY <1>1, <1>5, <2>1, Abandoned DEF appVars
  <2> QED BY <2>2, <2>3 DEF MoteInv
<1>6. CASE UNCHANGED <<conn, tasks, recover, psd, appVars>>
  <2>1. Queued("none", Ordinary)
    BY <1>t, <1>6, NotGrown, GrownMore DEF Queued
  <2>2. Types'
    BY <1>t, <1>1, <1>6 DEF Types, appVars
  <2>3. Stage' /\ Waited'
    BY <1>t, <1>1, <1>6, SameStage, SameWaited DEF appVars
  <2> QED BY <1>1, <1>6, <2>1, <2>2, <2>3, OrdinaryTasks, QuietKeeps DEF appVars
<1> QED BY <1>2, <1>3, <1>4, <1>5, <1>6 DEF SubTimerFired

\* A task opens its connection: what the last one left is not mistaken for its
\* own, and its master has not heard of it.
LEMMA ConstructKeeps ==
  ASSUME MoteInv, CidInv, NEW t \in Tids, Construct(t), ~spoiled'
  PROVE  MoteInv'
<1>t. /\ Types /\ Waited /\ Stage /\ Unborn /\ tasks \in Seq(TaskNames) /\ conn \in Connections /\ 0 \notin Tids
  BY MoteAssumption DEF MoteInv, Types
<1>1. /\ UNCHANGED <<sending, air, heard, logVars, wbuf, rbuf, psd, pending, list, retry, current, runs, sent, left>>
      /\ tasks' = PostIf(tasks, TRUE, "send_SYN") /\ elem[t] = "new"
      /\ conn' = IF conn.state = "IDLE" THEN [conn EXCEPT !.state = "SYN_SEND", !.tid = t] ELSE conn
      /\ elem' = [elem EXCEPT ![t] = IF conn.state = "IDLE" /\ t % U8 # U8 - 1 THEN "OPEN_WAIT" ELSE "refused"]
  BY DEF Construct, radioVars, flashVars, bufVars, Post
<1>2. Queued("none", Ordinary)
  BY <1>t, <1>1, PostQueued DEF Ordinary
<1>q. /\ tasks' \in Seq(TaskNames)
      /\ In(tasks', "transmit") => In(tasks, "transmit")
      /\ In(tasks', "eraseLogger") <=> In(tasks, "eraseLogger")
      /\ Single(tasks) => Single(tasks')
  <2>1. "transmit" \notin Ordinary /\ "eraseLogger" \notin Ordinary
    BY OrdinaryTasks
  <2> QED BY <1>t, <1>2, <2>1, QueueKeeps
<1>3. /\ elem' \in [Tids -> Elements] /\ elem'[t] # "new"
      /\ \A u \in Tids : elem'[u] = "new" => elem[u] = "new" /\ u # t
  BY <1>t, <1>1 DEF Types, Elements
<1>4. CASE conn.state # "IDLE"
  <2>1. conn' = conn
    BY <1>1, <1>4
  <2>2. Types'
    BY <1>t, <1>1, <1>q, <1>3, <2>1 DEF Types
  <2>3. Stage' /\ Waited'
    BY <1>t, <1>1, <2>1, SameStage, SameWaited
  <2> QED BY <1>1, <1>2, <1>3, <2>1, <2>2, <2>3, OrdinaryTasks, QuietKeeps
<1>5. CASE conn.state = "IDLE"
  <2>1. conn' \in Connections /\ conn'.tid = t /\ conn'.state = "SYN_SEND" /\ conn.tid = 0
    BY <1>t, <1>1, <1>5 DEF Connections, States, Stage
  <2>2. /\ current.tid # t /\ sent[t] = <<>> /\ <<"SYN", t>> \notin heard
        /\ air # Nothing => air.tid # t
    BY <1>t, <1>1 DEF Unborn
  <2>3. air.flag \in {"SYN", "DATA"} => air.tid # t
    BY <2>2 DEF Nothing
  <2>4. Types'
    BY <1>t, <1>1, <1>q, <1>3, <2>1 DEF Types
  <2>5. Stage'
    BY <1>1, <1>t, <2>1, <2>2 DEF Stage
  <2>6. SynOnAir'
    BY <1>1, <2>1, <2>3 DEF SynOnAir
  <2>7. Unborn'
    BY <1>1, <1>3, <1>t, <2>1 DEF Unborn
  <2>8. Heard'
    <3>1. conn'.state # "ACTIVE" /\ \A u \in Tids : sent'[u] # <<>> => <<"SYN", u>> \in heard'
      BY <1>1, <2>1 DEF Heard, MoteInv
    <3>2. <<"SYN", conn'.tid>> \notin heard' /\ ~(air'.flag = "SYN" /\ air'.tid = conn'.tid)
      BY <1>1, <2>1, <2>2, <2>3
    <3> QED BY <3>1, <3>2 DEF Heard
  <2>9. wbuf.busy => ~Mine(wbuf.packet) /\ wbuf.packet.cid # t % U8
    <3> SUFFICES ASSUME wbuf.busy PROVE wbuf.packet.cid # Cid(conn) /\ wbuf.packet.cid # t % U8
      BY DEF Mine
    <3>1. wbuf.packet.cid # 0
      BY <1>t, GenuineCid DEF MoteInv, Buffered
    <3>2. wbuf.packet.cid # t % U8
      BY <1>5 DEF Construct, Ambiguous
    <3> QED BY <1>t, <2>1, <3>1, <3>2, CidOfConn
  <2>10. wbuf.busy => ~Mine(wbuf.packet)'
    BY <1>1, <2>1, <2>9 DEF Mine, Cid
  <2>11. Mute = wbuf.busy /\ Mute' = wbuf.busy /\ (~wbuf.busy => InLog = 0 /\ InLog' = 0)
    BY <1>1, <1>t, <2>1, <2>2, <2>9, <2>10 DEF Mute, InLog, Types, Buffers
  <2>12. Owner'
    BY <1>1, <2>1, <2>2, <2>10, <2>11 DEF Owner
  <2>13. Waited'
    BY <1>1, <1>t, <2>1, <2>2, <2>3 DEF Waited, Valid, Types, OwnPackets
  <2>14. Radio'
    BY <1>1, <1>q, SameRadio DEF MoteInv, Radio
  <2>15. Buffered'
    BY <1>1, <1>2, OrdinaryTasks, BuffersQuiet DEF logVars
  <2>16. LogTypes' /\ Flash'
    BY <1>1, SameLog DEF MoteInv, logVars
  <2>17. Aligned'
    <3>1. ~wbuf.busy /\ Standing => Standing'
      BY <1>1, <2>11 DEF Standing, logVars
    <3> QED BY <1>1, <1>q, <2>11, <3>1 DEF Aligned, MoteInv, logVars
  <2> QED BY <2>4, <2>5, <2>6, <2>7, <2>8, <2>12, <2>13, <2>14, <2>15, <2>16, <2>17 DEF MoteInv
<1> QED BY <1>4, <1>5

-----------------------------------------------------------------------------
(* The radio.                                                              *)

\* A task that posts none or one.
LEMMA TurnQueued ==
  ASSUME tasks \in Seq(TaskNames), NEW h, h # "none", Runs(h), tasks' = Tail(tasks)
  PROVE  Queued(h, Ordinary) /\ Queued(h, {})
<1> DEFINE q == Tail(tasks)
<1>1. q \in Seq(TaskNames) /\ tasks' = q
  BY TailIs DEF Runs
<1>2. ASSUME Grown(q, q, {}), Grown(q, q, Ordinary) PROVE Queued(h, Ordinary) /\ Queued(h, {})
  BY <1>1, <1>2 DEF Queued
<1> HIDE DEF q
<1>3. Grown(q, q, {}) /\ Grown(q, q, Ordinary)
  BY <1>1, NotGrown, GrownMore
<1> QED BY <1>2, <1>3

LEMMA TurnPosts ==
  ASSUME tasks \in Seq(TaskNames), NEW h, h # "none", Runs(h), NEW t \in Ordinary,
         tasks' = Post(Tail(tasks), t)
  PROVE  Queued(h, Ordinary)
<1> DEFINE q == Tail(tasks)
<1>1. q \in Seq(TaskNames) /\ tasks' = PostIf(q, TRUE, t)
  BY TailIs DEF Runs, Post
<1>2. ASSUME Grown(q, tasks', Ordinary) PROVE Queued(h, Ordinary)
  BY <1>2 DEF Queued
<1> HIDE DEF q
<1>3. Grown(q, q, Ordinary)
  BY <1>1, NotGrown, GrownMore
<1>4. Grown(q, tasks', Ordinary)
  BY <1>1, <1>3, PostOrdinary
<1> QED BY <1>2, <1>4

\* A packet is handed down: its transmission waits behind every task there is.
LEMMA HandDown ==
  ASSUME MoteInv, sending = FALSE, NEW h, h # "none", h # "eraseLogger", Runs(h),
         NEW c \in BOOLEAN, tasks' = PostIf(HandedDown, c, "writeLogger")
  PROVE  /\ Queued(h, {"transmit", "writeLogger"})
         /\ tasks' \in Seq(TaskNames) /\ Single(tasks') /\ EraseFirst(tasks')
         /\ In(tasks', "eraseLogger") <=> In(tasks, "eraseLogger")
<1> DEFINE q == Tail(tasks)
           r == Append(q, "transmit")
           S == {"transmit", "writeLogger"}
<1>t. /\ tasks \in Seq(TaskNames) /\ tasks # <<>> /\ q \in Seq(TaskNames)
      /\ "writeLogger" \in TaskNames /\ "transmit" \in TaskNames
  BY TailIs DEF MoteInv, Types, Runs, TaskNames
<1>1. ~In(tasks, "transmit")
  BY DEF MoteInv, Radio
<1>2. ~In(q, "transmit")
  BY <1>t, <1>1, TailHas
<1> HIDE DEF q
<1>3. Grown(q, r, {"transmit"}) /\ Single(r) /\ EraseFirst(r)
  BY <1>t, <1>2, HandedBehind
<1>4. HandedDown = r
  BY DEF HandedDown, q
<1>r. r \in Seq(TaskNames)
  BY <1>3 DEF Grown
<1> HIDE DEF r
<1>5. Grown(r, r, {"writeLogger"})
  BY <1>r, NotGrown, GrownMore
<1>6. Grown(r, tasks', {"writeLogger"})
  BY <1>t, <1>r, <1>4, <1>5, PostInto
<1>7. Single(tasks') /\ EraseFirst(tasks')
  BY <1>r, <1>3, <1>6, GrownSingle, GrownErase
<1>8. {"transmit"} \cup {"writeLogger"} = S
  OBVIOUS
<1>9. Grown(q, tasks', S)
  BY <1>t, <1>3, <1>6, <1>8, GrownTwice
<1>10. Queued(h, S)
  BY <1>9 DEF Queued, q
<1>11. tasks' \in Seq(TaskNames) /\ (In(tasks', "eraseLogger") <=> In(tasks, "eraseLogger"))
  <2>1. "eraseLogger" \notin S
    OBVIOUS
  <2> HIDE DEF S
  <2> QED BY <1>t, <1>10, <2>1, QueueKeeps
<1> QED BY <1>7, <1>10, <1>11

LEMMA NextNumberType == ASSUME Types PROVE NextNumber \in Nat
<1>1. conn.last \in Nat
  BY DEF Types, Connections
<1> QED BY <1>1 DEF NextNumber, tr_seqno_next, TR_FIRST_SEQNO

\* A message that is no new packet goes to the radio.
LEMMA Transmitted ==
  ASSUME MoteInv, NEW msg \in Messages, Transmit(msg, TRUE), sending = FALSE,
         msg.tid = conn.tid, conn'.tid = conn.tid, conn'.state = "ACTIVE" => conn.state = "ACTIVE",
         msg.flag # "DATA", msg.flag = "SYN" => sent[conn.tid] = <<>>,
         msg.flag = "DATA_RETX" =>
           \E n \in DOMAIN sent[msg.tid] : msg.seqno = SeqOf(n) /\ msg.data = sent[msg.tid][n],
         UNCHANGED logVars, UNCHANGED <<wbuf, pending, sent, current, psd, elem>>,
         rbuf'.packet = rbuf.packet,
         NEW h \in {"send_SYN", "send_FIN", "retransmit"}, Runs(h), tasks' = HandedDown
  PROVE  /\ Radio' /\ SynOnAir' /\ Unborn' /\ Heard' /\ Owner' /\ Waited' /\ Buffered'
         /\ LogTypes' /\ Flash' /\ Aligned' /\ left' \in Budgets
         /\ tasks' \in Seq(TaskNames) /\ air' = msg /\ sending' = TRUE /\ heard' = heard
<1>1. sending' = TRUE /\ air' = msg /\ heard' = heard /\ SpendUnless(TRUE, "refusals")
  BY DEF Transmit
<1>2. tasks' = PostIf(HandedDown, FALSE, "writeLogger")
  BY DEF PostIf
<1>3. h # "none" /\ h # "eraseLogger"
  OBVIOUS
<1>4. /\ Queued(h, {"transmit", "writeLogger"})
      /\ tasks' \in Seq(TaskNames) /\ Single(tasks') /\ EraseFirst(tasks')
      /\ In(tasks', "eraseLogger") <=> In(tasks, "eraseLogger")
  BY <1>2, <1>3, HandDown
<1>5. msg # Nothing /\ air # msg
  BY DEF Messages, Nothing, MoteInv, Radio
<1>6. Radio'
  BY <1>1, <1>4, <1>5 DEF Radio, DataIsGenuine
<1>7. SynOnAir'
  BY <1>1 DEF SynOnAir
<1>8. Unborn'
  BY <1>1, SameUnborn DEF MoteInv
<1>9. Heard'
  BY <1>1, <1>4 DEF Heard, MoteInv
<1>10. Owner'
  BY SameOwner DEF MoteInv
<1>11. Waited'
  BY <1>1, SameWaited DEF MoteInv
<1>12. Buffered'
  BY <1>4, BuffersQuiet DEF logVars
<1>13. LogTypes' /\ Flash' /\ Aligned'
  BY <1>3, <1>4, LogQuiet
<1>14. left' \in Budgets
  BY <1>1, SpendUnlessKeeps DEF MoteInv, Types
<1> QED BY <1>1, <1>4, <1>6, <1>7, <1>8, <1>9, <1>10, <1>11, <1>12, <1>13, <1>14

LEMMA ControlIs ==
  ASSUME NEW flag \in {"SYN", "FIN"}
  PROVE  /\ Control[flag].task \in {"send_SYN", "send_FIN"} /\ Control[flag].task \in Ordinary
         /\ Control[flag].before = IF flag = "SYN" THEN "SYN_SEND" ELSE "FIN_SEND"
         /\ Control[flag].after = IF flag = "SYN" THEN "SYN_ACK_WAIT" ELSE "FIN_ACK_WAIT"
BY DEF Control, Ordinary

LEMMA SendControlKeeps == ASSUME MoteInv, NEW flag \in {"SYN", "FIN"}, SendControl(flag) PROVE MoteInv'
<1> DEFINE k == Control[flag]
           msg == [flag |-> flag, tid |-> conn.tid,
                   seqno |-> IF flag = "FIN" THEN NextNumber ELSE 0, data |-> NoPacket]
<1>t. /\ Types /\ Waited /\ Stage /\ tasks \in Seq(TaskNames) /\ conn \in Connections
  BY DEF MoteInv, Types
<1>k. /\ k.task \in {"send_SYN", "send_FIN"}
      /\ k.before = IF flag = "SYN" THEN "SYN_SEND" ELSE "FIN_SEND"
      /\ k.after = IF flag = "SYN" THEN "SYN_ACK_WAIT" ELSE "FIN_ACK_WAIT"
  BY ControlIs
<1>1. /\ UNCHANGED <<logVars, wbuf, rbuf, psd, elem, list, retry, current, runs, sent>> /\ Runs(k.task)
  BY DEF SendControl, flashVars, bufVars, appVars
<1>2. CASE /\ tasks' = Tail(tasks) /\ UNCHANGED <<connVars, radioVars>>
           /\ pending' \in {pending, pending \cup {flag}}
           /\ left' \in Budgets
  <2>1. Queued(k.task, Ordinary)
    BY <1>t, <1>k, <1>1, <1>2, TurnQueued
  <2>2. tasks' \in Seq(TaskNames)
    BY <1>t, <2>1, QueueKeeps
  <2>3. Types'
    BY <1>t, <1>1, <1>2, <2>2 DEF Types, connVars, radioVars
  <2>4. Stage' /\ Waited'
    BY <1>t, <1>1, <1>2, SameStage, SameWaited DEF connVars, radioVars
  <2>5. "RETRANSMIT" \in pending' => "RETRANSMIT" \in pending
    BY <1>2
  <2> HIDE DEF k
  <2> QED BY <1>k, <1>1, <1>2, <2>1, <2>3, <2>4, <2>5, OrdinaryTasks, QuietKeeps DEF connVars, radioVars
<1>3. CASE /\ conn.state = k.before /\ ~sending /\ Transmit(msg, TRUE) /\ tasks' = HandedDown
           /\ conn' = [conn EXCEPT !.state = k.after] /\ UNCHANGED pending
  <2>1. /\ conn' \in Connections /\ conn'.tid = conn.tid /\ conn'.state = k.after /\ conn'.last = conn.last
        /\ conn'.state # "ACTIVE"
    BY <1>t, <1>k, <1>3 DEF Connections, States
  <2>2. conn.tid # 0 /\ (flag = "SYN" => sent[conn.tid] = <<>>)
    BY <1>t, <1>k, <1>3 DEF Stage
  <2>3. msg \in Messages
    <3>1. NextNumber \in Nat /\ NoPacket \in AnyPacket /\ conn.tid \in Tids
      BY <1>t, <2>2, NextNumberType DEF NoPacket, AnyPacket, Connections
    <3> QED BY <3>1 DEF Messages
  <2>4. msg.flag = flag /\ msg.tid = conn.tid
    OBVIOUS
  <2>5. sending = FALSE
    BY <1>t, <1>3 DEF Types
  <2> HIDE DEF k, msg
  <2>6. /\ Radio' /\ SynOnAir' /\ Unborn' /\ Heard' /\ Owner' /\ Waited' /\ Buffered'
        /\ LogTypes' /\ Flash' /\ Aligned' /\ left' \in Budgets
        /\ tasks' \in Seq(TaskNames) /\ air' = msg /\ sending' = TRUE /\ heard' = heard
    BY <1>k, <1>1, <1>3, <2>1, <2>2, <2>3, <2>4, <2>5, Transmitted
  <2>7. Types'
    BY <1>t, <1>1, <1>3, <2>1, <2>3, <2>6 DEF Types
  <2>8. Stage'
    BY <1>t, <1>1, <1>k, <2>1, <2>2 DEF Stage
  <2> QED BY <2>6, <2>7, <2>8 DEF MoteInv
<1> HIDE DEF msg
<1>4. ASSUME UNCHANGED left PROVE left' \in Budgets
  BY <1>t, <1>4 DEF Types
<1>5. ASSUME Transmit(msg, FALSE)
      PROVE  left' \in Budgets /\ UNCHANGED radioVars
  BY <1>t, <1>5, SpendUnlessKeeps DEF Transmit, Types, radioVars
<1>6. \/ conn.state # k.before /\ tasks' = Tail(tasks) /\ UNCHANGED <<connVars, radioVars, pending, left>>
      \/ RetryLater(flag) /\ tasks' = Tail(tasks) /\ UNCHANGED <<connVars, radioVars, left>>
      \/ /\ conn.state = k.before /\ ~sending /\ Transmit(msg, TRUE) /\ tasks' = HandedDown
         /\ conn' = [conn EXCEPT !.state = k.after] /\ UNCHANGED pending
      \/ Transmit(msg, FALSE) /\ RetryLater(flag) /\ tasks' = Tail(tasks) /\ UNCHANGED connVars
  BY DEF SendControl, msg
<1> QED BY <1>2, <1>3, <1>4, <1>5, <1>6 DEF RetryLater

\* The packet is on its way: no erasure is left that its connection did not want.
LEMMA TransmitKeeps == ASSUME MoteInv, TransmitTask PROVE MoteInv'
<1>t. Types /\ Waited /\ Stage /\ tasks \in Seq(TaskNames) /\ Single(tasks) /\ air # Nothing
  <2>1. tasks # <<>> /\ tasks[1] = "transmit" /\ 1 \in DOMAIN tasks
    BY TailIs DEF TransmitTask, Runs, MoteInv, Types
  <2>2. In(tasks, "transmit")
    BY <2>1 DEF In
  <2> QED BY <2>2 DEF MoteInv, Types, Radio
<1>1. /\ UNCHANGED <<conn, sending, air, logVars, wbuf, rbuf, psd, pending, elem, list, retry, current, runs, sent, left>>
      /\ heard' = heard \cup Answerable(air) /\ tasks' = Tail(tasks) /\ Runs("transmit")
  BY DEF TransmitTask, connVars, flashVars, bufVars, appVars
<1>2. Queued("transmit", {})
  BY <1>t, <1>1, TurnQueued
<1>3. /\ tasks' \in Seq(TaskNames) /\ Single(tasks')
      /\ In(tasks', "transmit") => In(tasks, "transmit")
      /\ In(tasks', "eraseLogger") <=> In(tasks, "eraseLogger")
  BY <1>t, <1>2, QueueKeeps
<1>4. heard' \subseteq {"SYN", "FIN"} \X Tids
  BY <1>t, <1>1 DEF Types, Answerable
<1>5. \A u : <<"SYN", u>> \in heard' => <<"SYN", u>> \in heard \/ (air.flag = "SYN" /\ air.tid = u)
  BY <1>1 DEF Answerable
<1>6. Types'
  BY <1>t, <1>1, <1>3, <1>4 DEF Types
<1>7. Stage' /\ SynOnAir' /\ Waited' /\ Owner'
  BY <1>t, <1>1, SameStage, SameSyn, SameWaited, SameOwner DEF MoteInv
<1>8. Unborn'
  BY <1>t, <1>1, <1>5 DEF Unborn, MoteInv
<1>9. Heard'
  <2>1. heard \subseteq heard'
    BY <1>1
  <2>2. conn.tid # 0 /\ In(tasks, "eraseLogger")
          => <<"SYN", conn.tid>> \notin heard /\ ~(air.flag = "SYN" /\ air.tid = conn.tid)
    <3>1. EraseFirst(tasks) => ~In(tasks, "eraseLogger")
      BY <1>t, <1>1, TransmitLast DEF Runs
    <3> QED BY <3>1 DEF Heard, MoteInv
  <2>3. /\ conn.state = "ACTIVE" => <<"SYN", conn.tid>> \in heard
        /\ \A u \in Tids : sent[u] # <<>> => <<"SYN", u>> \in heard
    BY DEF Heard, MoteInv
  <2> QED BY <1>1, <1>3, <1>5, <2>1, <2>2, <2>3 DEF Heard
<1>10. Radio'
  BY <1>1, <1>3, SameRadio DEF MoteInv
<1>11. Buffered'
  BY <1>1, <1>2, BuffersQuiet DEF logVars
<1>12. LogTypes' /\ Flash' /\ Aligned'
  BY <1>1, <1>2, LogQuiet
<1> QED BY <1>6, <1>7, <1>8, <1>9, <1>10, <1>11, <1>12 DEF MoteInv

LEMMA RadioSendDoneKeeps == ASSUME MoteInv, CidInv, RadioSendDone PROVE MoteInv'
<1>t. /\ Types /\ Waited /\ Stage /\ SynOnAir /\ Radio /\ Owner /\ tasks \in Seq(TaskNames)
      /\ conn \in Connections /\ Nothing.flag = "none" /\ Grown(tasks, tasks, Ordinary)
      /\ wbuf.busy \in BOOLEAN
  BY NotGrown, GrownMore DEF MoteInv, Types, Nothing, Buffers
<1>1. /\ UNCHANGED <<heard, logVars, wbuf, rbuf, runs, sent>> /\ sending' = FALSE /\ air' = Nothing
      /\ air # Nothing
  BY DEF RadioSendDone, flashVars, bufVars
<1>2. ~In(tasks, "transmit")
  <2>1. DOMAIN tasks = 1 .. Len(tasks)
    BY <1>t
  <2> QED BY <2>1 DEF RadioSendDone, Sq!Contains, In
<1>3. PICK ok \in BOOLEAN :
       /\ SpendUnless(ok, "errors")
       /\ \/ /\ air.flag = "DATA" /\ Valid(air.tid) /\ Stored
             /\ psd' = FALSE /\ SignalSendDone(FALSE, "") /\ UNCHANGED pending
          \/ /\ air.flag = "DATA" /\ Valid(air.tid) /\ ~Stored
             /\ psd' = TRUE /\ UNCHANGED <<conn, tasks, appVars, pending>>
          \/ /\ air.flag = "DATA_RETX"
             /\ AfterRetransmission /\ UNCHANGED <<conn, tasks, appVars, psd>>
          \/ /\ air.flag \in {"SYN", "FIN"} /\ Valid(air.tid) /\ ~ok
             /\ conn' = [conn EXCEPT !.state = Control[air.flag].before]
             /\ tasks' = Post(tasks, Control[air.flag].task)
             /\ UNCHANGED <<appVars, psd, pending>>
          \/ /\ air.flag # "DATA_RETX" /\ ~(Valid(air.tid) /\ (air.flag = "DATA" \/ ~ok))
             /\ UNCHANGED <<conn, tasks, appVars, psd, pending>>
  BY DEF RadioSendDone
<1>4. left' \in Budgets
  BY <1>t, <1>3, SpendUnlessKeeps DEF Types
<1>5. CASE psd' = FALSE /\ SignalSendDone(FALSE, "") /\ UNCHANGED pending
  <2>1. /\ current' = NoPacket /\ Queued("none", Ordinary)
        /\ conn' \in Connections /\ conn'.tid = conn.tid
        /\ conn'.state = "ACTIVE" => conn.state = "ACTIVE"
        /\ Stage'
        /\ elem' \in [Tids -> Elements] /\ \A u \in Tids : elem'[u] = "new" => elem[u] = "new"
        /\ list' \in Seq(OwnPackets) /\ retry' \in OwnPackets \cup {NoPacket}
    BY <1>1, <1>5, SignalDone
  <2>2. tasks' \in Seq(TaskNames)
    BY <1>t, <2>1, QueueKeeps
  <2>3. Types'
    BY <1>t, <1>1, <1>4, <1>5, <2>1, <2>2 DEF Types
  <2>4. Waited'
    BY <1>t, <1>1, <1>5, <2>1 DEF Waited
  <2> QED BY <1>1, <1>2, <1>5, <2>1, <2>3, <2>4, OrdinaryTasks, QuietKeeps
<1>6. CASE /\ air.flag = "DATA" /\ Valid(air.tid) /\ ~Stored
           /\ psd' = TRUE /\ UNCHANGED <<conn, tasks, appVars, pending>>
  <2>1. Queued("none", Ordinary)
    BY <1>t, <1>6 DEF Queued
  <2>2. Types'
    BY <1>t, <1>1, <1>4, <1>6 DEF Types, appVars
  <2>3. conn.tid # 0 /\ conn.tid = air.tid /\ wbuf.busy /\ sent[conn.tid] # <<>>
    BY <1>t, <1>6 DEF Valid, Stored, Radio, DataIsGenuine
  <2>4. Mine(wbuf.packet)
    BY <1>t, <2>3 DEF Owner, Mute
  <2>5. current.tid = conn.tid /\ current # NoPacket
    BY <1>t, <1>6, <2>3 DEF Waited, NoPacket
  <2>6. Waited'
    BY <1>t, <1>1, <1>6, <2>3, <2>4, <2>5 DEF Waited, appVars, Mine, Cid, Valid
  <2>7. Stage'
    BY <1>t, <1>1, <1>6, SameStage
  <2> QED BY <1>1, <1>2, <1>6, <2>1, <2>2, <2>6, <2>7, OrdinaryTasks, QuietKeeps DEF appVars
<1>7. CASE /\ UNCHANGED <<conn, tasks, appVars, psd>> /\ pending' \in {pending, pending \cup {"READ"}}
  <2>1. Queued("none", Ordinary)
    BY <1>t, <1>7 DEF Queued
  <2>2. Types'
    BY <1>t, <1>1, <1>4, <1>7 DEF Types, appVars
  <2>3. Stage' /\ Waited'
    BY <1>t, <1>1, <1>7, SameStage, SameWaited DEF appVars
  <2> QED BY <1>1, <1>2, <1>7, <2>1, <2>2, <2>3, OrdinaryTasks, QuietKeeps DEF appVars
<1>8. CASE /\ air.flag \in {"SYN", "FIN"} /\ Valid(air.tid)
           /\ conn' = [conn EXCEPT !.state = Control[air.flag].before]
           /\ tasks' = Post(tasks, Control[air.flag].task)
           /\ UNCHANGED <<appVars, psd, pending>>
  <2> DEFINE s == Control[air.flag].before
             k == Control[air.flag].task
  <2>1. s = (IF air.flag = "SYN" THEN "SYN_SEND" ELSE "FIN_SEND") /\ k \in Ordinary
    BY <1>8, ControlIs
  <2>2. conn' = [conn EXCEPT !.state = s] /\ tasks' = Post(tasks, k)
    BY <1>8
  <2> HIDE DEF s, k
  <2>3. /\ conn' \in Connections /\ conn'.tid = conn.tid /\ conn'.state = s /\ conn'.last = conn.last
        /\ s # "ACTIVE" /\ s # "IDLE"
    BY <1>t, <2>1, <2>2 DEF Connections, States
  <2>4. Queued("none", Ordinary)
    BY <1>t, <2>1, <2>2, PostQueued DEF Post
  <2>5. tasks' \in Seq(TaskNames)
    BY <1>t, <2>4, QueueKeeps
  <2>6. Types'
    BY <1>t, <1>1, <1>4, <1>8, <2>3, <2>5 DEF Types, appVars
  <2>7. conn.tid # 0 /\ conn.tid = air.tid
    BY <1>t, <1>8 DEF Valid, Connections
  <2>8. Stage'
    BY <1>t, <1>1, <1>8, <2>1, <2>3, <2>7 DEF Stage, SynOnAir
  <2>9. Waited'
    BY <1>t, <1>1, <1>8, <2>3, SameWaited DEF appVars
  <2> QED BY <1>1, <1>2, <1>8, <2>3, <2>4, <2>6, <2>8, <2>9, OrdinaryTasks, QuietKeeps DEF appVars
<1> QED BY <1>3, <1>5, <1>6, <1>7, <1>8 DEF AfterRetransmission, RetryLater

LEMMA RetransmitKeeps == ASSUME MoteInv, CidInv, Retransmit PROVE MoteInv'
<1> DEFINE msg == [flag |-> "DATA_RETX", tid |-> conn.tid, seqno |-> rbuf.packet.seqno,
                   data |-> rbuf.packet.data]
           Kept == UNCHANGED <<sending, air, heard>> /\ left' \in Budgets
<1>t. /\ Types /\ Waited /\ Stage /\ tasks \in Seq(TaskNames) /\ rbuf \in Buffers
  BY DEF MoteInv, Types
<1>1. /\ UNCHANGED <<conn, logVars, wbuf, psd, elem, list, retry, current, runs, sent>> /\ Runs("retransmit")
  BY DEF Retransmit, connVars, flashVars, appVars
<1>r. In(tasks, "retransmit")
  <2>1. tasks # <<>> /\ tasks[1] = "retransmit" /\ 1 \in DOMAIN tasks
    BY <1>t, <1>1, TailIs DEF Runs
  <2> QED BY <2>1 DEF In
<1>2. CASE /\ tasks' = Tail(tasks) /\ Kept
           /\ rbuf' \in {rbuf, [rbuf EXCEPT !.busy = FALSE]}
  <2>1. Queued("retransmit", Ordinary)
    BY <1>t, <1>1, <1>2, TurnQueued
  <2>2. tasks' \in Seq(TaskNames)
    BY <1>t, <2>1, QueueKeeps
  <2>3. rbuf' \in Buffers /\ rbuf'.packet = rbuf.packet
    BY <1>t, <1>2 DEF Buffers
  <2>4. Types'
    BY <1>t, <1>1, <1>2, <2>2, <2>3 DEF Types
  <2>5. Stage' /\ Waited'
    BY <1>t, <1>1, <1>2, SameStage, SameWaited
  <2> QED BY <1>1, <1>2, <2>1, <2>3, <2>4, <2>5, OrdinaryTasks, QuietKeeps
<1>3. CASE /\ ~sending /\ Mine(rbuf.packet) /\ Transmit(msg, TRUE) /\ tasks' = HandedDown
           /\ rbuf' = [rbuf EXCEPT !.busy = FALSE] /\ UNCHANGED pending
  <2>1. rbuf' \in Buffers /\ rbuf'.packet = rbuf.packet
    BY <1>t, <1>3 DEF Buffers
  <2>m. rbuf.packet.cid = Cid(conn) /\ Cid(conn) # U8 - 1 /\ (Cid(conn) = 0 <=> conn.tid = 0)
    BY <1>t, <1>3, CidOfConn DEF Mine
  <2>g. Genuine(rbuf.packet)
    <3>1. rbuf.packet # Blank
      BY <2>m DEF Blank
    <3> QED BY <1>r, <3>1 DEF MoteInv, Buffered
  <2>3. conn.tid \in Tids
    <3>1. conn.tid # 0
      BY <1>t, <2>m, <2>g, GenuineCid
    <3> QED BY <1>t, <3>1 DEF Types, Connections
  <2>2. \E n \in DOMAIN sent[conn.tid] :
          rbuf.packet.seqno = SeqOf(n) /\ rbuf.packet.data = sent[conn.tid][n]
    <3>1. Own(rbuf.packet)
      BY <1>t, <2>m, <2>3, MoteAssumption DEF CidInv
    <3> QED BY <3>1 DEF Own, Record
  <2>4. msg \in Messages
    BY <1>t, <2>3 DEF Messages, Buffers, Records
  <2>5. sending = FALSE
    BY <1>t, <1>3 DEF Types
  <2>6. /\ msg.flag = "DATA_RETX" /\ msg.tid = conn.tid
        /\ \E n \in DOMAIN sent[msg.tid] : msg.seqno = SeqOf(n) /\ msg.data = sent[msg.tid][n]
    BY <2>2
  <2> HIDE DEF msg
  <2>7. /\ Radio' /\ SynOnAir' /\ Unborn' /\ Heard' /\ Owner' /\ Waited' /\ Buffered'
        /\ LogTypes' /\ Flash' /\ Aligned' /\ left' \in Budgets
        /\ tasks' \in Seq(TaskNames) /\ air' = msg /\ sending' = TRUE /\ heard' = heard
    BY <1>1, <1>3, <2>1, <2>4, <2>5, <2>6, Transmitted
  <2>8. Types'
    BY <1>t, <1>1, <1>3, <2>1, <2>4, <2>7 DEF Types
  <2>9. Stage'
    BY <1>t, <1>1, SameStage
  <2> QED BY <2>7, <2>8, <2>9 DEF MoteInv
<1> HIDE DEF msg
<1>4. ASSUME UNCHANGED <<radioVars, left>> PROVE Kept
  BY <1>t, <1>4 DEF Types, radioVars
<1>5. ASSUME Transmit(msg, FALSE) PROVE Kept
  BY <1>t, <1>5, SpendUnlessKeeps DEF Transmit, Types
<1> HIDE DEF Kept
<1>6. \/ tasks' = Tail(tasks) /\ UNCHANGED <<radioVars, rbuf, left>>
      \/ rbuf' = [rbuf EXCEPT !.busy = FALSE] /\ tasks' = Tail(tasks) /\ UNCHANGED <<radioVars, left>>
      \/ /\ ~sending /\ Mine(rbuf.packet) /\ Transmit(msg, TRUE) /\ tasks' = HandedDown
         /\ rbuf' = [rbuf EXCEPT !.busy = FALSE] /\ UNCHANGED pending
      \/ Transmit(msg, FALSE) /\ tasks' = Tail(tasks) /\ UNCHANGED rbuf
  BY DEF Retransmit, msg
<1> QED BY <1>2, <1>3, <1>4, <1>5, <1>6

-----------------------------------------------------------------------------
(* The connection sends.                                                   *)

\* eepromWriteBuf is free: no write is going on, and it may change.
LEMMA FreeBuffer ==
  ASSUME LogTypes, Flash, wbuf.busy = FALSE, b' = b, m_state' = m_state, op' = op, cells' = cells
  PROVE  LogTypes' /\ Flash'
<1>1. \A v \in Volumes : op[v].kind # "write"
  BY DEF Flash
<1>2. Writing.kind = "write"
  BY DEF Writing
<1>3. \A v \in Volumes : op[v] \in {Rest, Erasure} \/ (op[v].kind = "read" /\ op[v] = Reading(op[v].seqno))
  BY <1>1, <1>2 DEF LogTypes
<1>4. LogTypes'
  BY <1>3 DEF LogTypes, Reading
<1>5. m_state = "INIT" => Booting'
  BY DEF Flash, Booting, Clean
<1>6. m_state = "ERASE_VOL" => Erasing'
  BY <1>1 DEF Flash, Erasing, Clean
<1>7. m_state = "IDLE" => InUse'
  BY <1>1 DEF Flash, InUse, Clean, TailClean, LastPending
<1>8. Flash'
  BY <1>1, <1>5, <1>6, <1>7 DEF Flash
<1> QED BY <1>4, <1>8

\* The number of the next packet.
LEMMA NextIs ==
  ASSUME Types, Stage, conn.state = "ACTIVE"
  PROVE  conn.tid \in Tids /\ NextNumber = SeqOf(Len(sent[conn.tid]) + 1)
<1> DEFINE n == Len(sent[conn.tid])
<1>1. conn.tid \in Tids
  BY DEF Types, Connections, Stage
<1>2. n \in Nat /\ conn.last = Number(n)
  BY <1>1 DEF Types, Stage
<1> HIDE DEF n
<1>3. NextNumber = SeqOf(n + 1)
  <2>1. CASE n = 0
    <3>1. 1 \in 1 .. TR_MAX_SEQNO /\ TR_MAX_SEQNO > 0 /\ TR_MAX_SEQNO \in Nat
      BY SeqnoAssumption
    <3>2. SeqOf(1) = 1
      BY <3>1, SeqOfSmall
    <3> QED BY <1>2, <2>1, <3>1, <3>2 DEF NextNumber, Number, tr_seqno_next
  <2>2. CASE n # 0
    <3>1. n \in Nat \ {0} /\ conn.last = SeqOf(n)
      BY <1>2, <2>2 DEF Number
    <3> QED BY <3>1, NextSeq DEF NextNumber
  <2> QED BY <2>1, <2>2
<1> QED BY <1>1, <1>3 DEF n

\* A packet is accepted: it is the next one of its connection.
LEMMA SendKeeps ==
  ASSUME MoteInv, CidInv, NEW p \in OwnPackets, MaySend(p), Send(p, TRUE),
         current' = p, retry' = NoPacket, current = NoPacket, Runs("pop_and_send"),
         elem' = [elem EXCEPT ![p.tid] = "SENDING"], tasks' = Post(HandedDown, "writeLogger"),
         list' \in Seq(OwnPackets), UNCHANGED <<logVars, rbuf, psd, pending, runs>>,
         NEW t, t = conn.tid, NEW N, N = Len(sent[t]), NEW c, c = Cid(conn)
  PROVE  MoteInv'
<1> DEFINE record == [cid |-> c, seqno |-> NextNumber, data |-> p]
           msg == [flag |-> "DATA", tid |-> t, seqno |-> NextNumber, data |-> p]
<1>t. /\ Types /\ LogTypes /\ Flash /\ Waited /\ Stage /\ Owner /\ Aligned /\ Unborn /\ Heard /\ Radio /\ Buffered
      /\ tasks \in Seq(TaskNames) /\ wbuf \in Buffers /\ conn \in Connections /\ 0 \notin Tids
      /\ sent \in [Tids -> Seq(OwnPackets)] /\ elem \in [Tids -> Elements]
  BY MoteAssumption DEF MoteInv, Types
<1>1. /\ elem[p.tid] = "CONNECTED" /\ p.tid % U8 = Cid(conn) /\ conn.state = "ACTIVE"
      /\ sending = FALSE /\ wbuf.busy = FALSE
  BY <1>t DEF MaySend, Types, Buffers
<1>2. p.tid \in Tids /\ p.tid = t /\ t \in Tids /\ t # 0
  BY <1>1, <1>t, CidOfConn DEF OwnPackets, Live
<1>3. N \in Nat /\ NextNumber = SeqOf(N + 1) /\ NextNumber \in Nat
  BY <1>1, <1>2, <1>t, NextIs, NextNumberType DEF Types
<1>4. /\ sending' = TRUE /\ air' = msg /\ heard' = heard /\ SpendUnless(TRUE, "refusals")
      /\ wbuf' = [busy |-> TRUE, packet |-> record]
      /\ conn' = [conn EXCEPT !.last = NextNumber]
      /\ sent' = [sent EXCEPT ![t] = Append(sent[t], p)]
      /\ b' = b /\ m_state' = m_state /\ op' = op /\ cells' = cells
  BY DEF Send, Transmit, logVars
<1>5. /\ sent' \in [Tids -> Seq(OwnPackets)] /\ sent'[t] # <<>>
      /\ \A u \in Tids : u # t => sent'[u] = sent[u]
      /\ Len(sent'[t]) = N + 1 /\ DOMAIN sent'[t] = 1 .. N + 1 /\ DOMAIN sent[t] = 1 .. N
      /\ sent'[t][N + 1] = p
      /\ \A n \in 1 .. N : sent'[t][n] = sent[t][n]
  <2> DEFINE r == Append(sent[t], p)
  <2>1. /\ r \in Seq(OwnPackets) /\ DOMAIN sent[t] = 1 .. N /\ DOMAIN r = 1 .. N + 1
        /\ Len(r) = N + 1 /\ r[N + 1] = p /\ \A n \in 1 .. N : r[n] = sent[t][n]
    BY <1>t, <1>2, AppendIs
  <2>2. sent' = [sent EXCEPT ![t] = r]
    BY <1>4
  <2> HIDE DEF r
  <2>3. r # <<>>
    BY <1>3, <2>1
  <2>4. sent'[t] = r /\ (\A u \in Tids : u # t => sent'[u] = sent[u]) /\ sent' \in [Tids -> Seq(OwnPackets)]
    BY <1>t, <1>2, <2>1, <2>2
  <2> QED BY <2>1, <2>3, <2>4
<1>6. /\ conn' \in Connections /\ conn'.tid = t /\ conn'.state = "ACTIVE" /\ conn'.last = NextNumber
      /\ Cid(conn)' = Cid(conn)
  BY <1>t, <1>1, <1>3, <1>4 DEF Connections, Cid
<1>7. /\ elem' \in [Tids -> Elements] /\ elem'[t] # "new" /\ elem[t] # "new"
      /\ \A u \in Tids : elem'[u] = "new" => elem[u] = "new" /\ u # t
  BY <1>t, <1>1, <1>2 DEF Elements
<1>8. /\ Queued("pop_and_send", {"transmit", "writeLogger"})
      /\ tasks' \in Seq(TaskNames) /\ Single(tasks') /\ EraseFirst(tasks')
      /\ In(tasks', "eraseLogger") <=> In(tasks, "eraseLogger")
  BY <1>1, HandDown DEF Post
<1>9. msg \in Messages /\ msg # Nothing /\ wbuf' \in Buffers
  <2>1. p \in AnyPacket
    BY MoteAssumption DEF OwnPackets, AnyPacket
  <2>2. c \in Nat
    BY <1>t, CidType
  <2> QED BY <1>2, <1>3, <1>4, <2>1, <2>2 DEF Messages, Nothing, Buffers, Records
<1>10. wbuf'.busy = TRUE /\ wbuf'.packet = record /\ record = Record(t, N + 1)'
  BY <1>3, <1>4, <1>5 DEF Record, Cid
<1>11. msg.flag = "DATA" /\ msg.tid = t /\ msg.seqno = SeqOf(N + 1) /\ msg.data = p
  BY <1>3
<1>12. \A u \in Tids : \A n \in DOMAIN sent[u] : n \in DOMAIN sent'[u] /\ sent'[u][n] = sent[u][n]
                                               /\ Record(u, n)' = Record(u, n)
  <2>1. \A u \in Tids : u # t => sent'[u] = sent[u]
    BY <1>5
  <2>2. \A n \in DOMAIN sent[t] : n \in DOMAIN sent'[t] /\ sent'[t][n] = sent[t][n]
    BY <1>3, <1>5
  <2>3. \A u \in Tids : \A n \in DOMAIN sent[u] : n \in DOMAIN sent'[u] /\ sent'[u][n] = sent[u][n]
    BY <2>1, <2>2
  <2> QED BY <2>3 DEF Record
<1>13. \A r : Genuine(r) => Genuine(r)'
  <2> SUFFICES ASSUME NEW r, Genuine(r) PROVE Genuine(r)'
    OBVIOUS
  <2>1. PICK u \in Tids : \E n \in DOMAIN sent[u] : r = Record(u, n)
    BY DEF Genuine
  <2>2. PICK n \in DOMAIN sent[u] : r = Record(u, n)
    BY <2>1
  <2>3. n \in DOMAIN sent'[u] /\ r = Record(u, n)'
    BY <1>12, <2>2
  <2> QED BY <2>3 DEF Genuine
<1>14. N + 1 \in DOMAIN sent'[t]
  BY <1>3, <1>5
<1> HIDE DEF msg, record
<1>15. Types'
  <2>1. left' \in Budgets
    BY <1>t, <1>4, SpendUnlessKeeps DEF Types
  <2> QED BY <1>t, <1>4, <1>5, <1>6, <1>7, <1>8, <1>9, <2>1 DEF Types
<1>16. LogTypes' /\ Flash'
  BY <1>t, <1>1, <1>4, FreeBuffer
<1>17. Stage'
  <2>1. N + 1 # 0
    BY <1>3
  <2> QED BY <1>2, <1>3, <1>5, <1>6, <2>1 DEF Stage, Number
<1>18. SynOnAir'
  BY <1>4, <1>11 DEF SynOnAir
<1>19. Unborn'
  BY <1>t, <1>2, <1>4, <1>5, <1>6, <1>7, <1>11 DEF Unborn
<1>20. <<"SYN", t>> \in heard /\ ~In(tasks, "eraseLogger")
  BY <1>t, <1>1, <1>2 DEF Heard
<1>21. Heard'
  <2>1. heard' = heard /\ conn'.tid = t /\ ~In(tasks', "eraseLogger")
    BY <1>4, <1>6, <1>8, <1>20
  <2>2. \A u \in Tids : sent'[u] # <<>> => <<"SYN", u>> \in heard
    BY <1>t, <1>5, <1>20 DEF Heard
  <2> QED BY <1>20, <2>1, <2>2 DEF Heard
<1>22. Radio'
  BY <1>4, <1>5, <1>8, <1>9, <1>11, <1>14 DEF Radio, DataIsGenuine
<1>23. Mine(wbuf.packet)' /\ ~Mute' /\ ~Mute
  <2>1. record.cid = Cid(conn)
    BY DEF record
  <2> QED BY <1>1, <1>6, <1>10, <2>1 DEF Mine, Mute
<1>24. Owner'
  BY <1>2, <1>5, <1>6, <1>10, <1>23 DEF Owner
<1>25. Aligned'
  <2>1. InLog' = N /\ InLog = N
    BY <1>1, <1>2, <1>3, <1>5, <1>6, <1>10 DEF InLog
  <2>2. \A n \in 1 .. N : Record(conn.tid, n)' = Record(conn.tid, n)
    BY <1>2, <1>5, <1>6, <1>12
  <2>3. Standing
    BY <1>t, <1>20, <1>23 DEF Aligned
  <2>4. Standing'
    BY <1>1, <1>4, <2>1, <2>2, <2>3 DEF Standing
  <2> QED BY <1>t, <1>4, <1>23, <2>4 DEF Aligned
<1>26. Waited'
  <2>1. psd' = FALSE
    BY <1>t DEF Waited, Types
  <2> QED BY <1>2, <1>4, <1>5, <1>6, <1>11, <2>1 DEF Waited
<1>27. Buffered'
  <2>1. Genuine(wbuf.packet)'
    BY <1>2, <1>10, <1>14 DEF Genuine
  <2>2. "retransmit" \notin {"transmit", "writeLogger"}
    OBVIOUS
  <2>3. In(tasks', "retransmit") => In(tasks, "retransmit")
    BY <1>t, <1>8, <2>2, QueueKeeps
  <2>4. Blank' = Blank
    BY DEF Blank
  <2>5. Genuine(rbuf.packet) => Genuine(rbuf.packet)'
    BY <1>13
  <2>6. \A v \in Volumes, q \in Places : Genuine(cells[v][q]) => Genuine(cells[v][q])'
    BY <1>4, <1>13
  <2> QED BY <1>t, <1>4, <2>1, <2>3, <2>4, <2>5, <2>6 DEF Buffered
<1> QED BY <1>15, <1>16, <1>17, <1>18, <1>19, <1>21, <1>22, <1>24, <1>25, <1>26, <1>27 DEF MoteInv

LEMMA PopAndSendKeeps == ASSUME MoteInv, CidInv, PopAndSend PROVE MoteInv'
<1> DEFINE p == IF retry # NoPacket THEN retry ELSE Head(list)
           record == [cid |-> Cid(conn), seqno |-> NextNumber, data |-> p]
<1>t. /\ Types /\ LogTypes /\ Flash /\ Waited /\ Stage /\ Owner /\ Aligned /\ Unborn
      /\ tasks \in Seq(TaskNames) /\ wbuf \in Buffers /\ list \in Seq(OwnPackets)
      /\ conn \in Connections /\ 0 \notin Tids
  BY MoteAssumption DEF MoteInv, Types
<1>1. /\ UNCHANGED <<subTimer, logVars, rbuf, psd, pending, runs>> /\ Runs("pop_and_send")
      /\ b' = b /\ m_state' = m_state /\ op' = op /\ cells' = cells
  BY DEF PopAndSend, connVars, flashVars, logVars
<1>2. CASE /\ tasks' = Tail(tasks)
           /\ UNCHANGED <<connVars, radioVars, wbuf, appVars, sent, left>>
  <2>1. Queued("pop_and_send", Ordinary)
    BY <1>t, <1>1, <1>2, TurnQueued
  <2>2. tasks' \in Seq(TaskNames)
    BY <1>t, <2>1, QueueKeeps
  <2>3. Types'
    BY <1>t, <1>1, <1>2, <2>2 DEF Types, connVars, radioVars, appVars
  <2>4. Stage' /\ Waited'
    BY <1>t, <1>1, <1>2, SameStage, SameWaited DEF connVars, radioVars, appVars
  <2> QED BY <1>1, <1>2, <2>1, <2>3, <2>4, OrdinaryTasks, QuietKeeps DEF connVars, radioVars, appVars
<1>3. CASE retry # NoPacket \/ list # <<>>
  <2>1. p \in OwnPackets
    BY <1>t, <1>3, HeadTailProperties DEF Types
  <2>2. \/ /\ MaySend(p) /\ Send(p, TRUE)
           /\ current' = p /\ retry' = NoPacket /\ current = NoPacket
           /\ elem' = [elem EXCEPT ![p.tid] = "SENDING"]
           /\ tasks' = Post(HandedDown, "writeLogger")
        \/ /\ IF MaySend(p) THEN Send(p, FALSE) ELSE UNCHANGED <<conn, radioVars, wbuf, sent, left>>
           /\ retry' = p
           /\ tasks' = Post(Tail(tasks), "pop_and_send")
           /\ UNCHANGED <<current, elem>>
        \/ /\ tasks' = Tail(tasks)
           /\ UNCHANGED <<connVars, radioVars, wbuf, appVars, sent, left>>
    BY DEF PopAndSend
  <2>3. \/ list' \in Seq(OwnPackets)
        \/ /\ tasks' = Tail(tasks)
           /\ UNCHANGED <<connVars, radioVars, wbuf, appVars, sent, left>>
    <3>1. \/ list' = IF retry # NoPacket THEN list ELSE Tail(list)
          \/ /\ tasks' = Tail(tasks)
             /\ UNCHANGED <<connVars, radioVars, wbuf, appVars, sent, left>>
      BY DEF PopAndSend
    <3>2. list # <<>> => Tail(list) \in Seq(OwnPackets)
      BY <1>t, HeadTailProperties
    <3> QED BY <1>t, <1>3, <3>1, <3>2
  <2> HIDE DEF p
  <2>4. CASE /\ IF MaySend(p) THEN Send(p, FALSE) ELSE UNCHANGED <<conn, radioVars, wbuf, sent, left>>
             /\ retry' = p
             /\ tasks' = Post(Tail(tasks), "pop_and_send")
             /\ UNCHANGED <<current, elem>>
             /\ list' \in Seq(OwnPackets)
    <3>1. Queued("pop_and_send", Ordinary)
      BY <1>t, <1>1, <2>4, TurnPosts DEF Ordinary
    <3>2. tasks' \in Seq(TaskNames) /\ (In(tasks, "eraseLogger") => In(tasks', "eraseLogger"))
      BY <1>t, <3>1, QueueKeeps
    <3>3. CASE UNCHANGED <<conn, radioVars, wbuf, sent, left>>
      <4>1. Types'
        BY <1>t, <1>1, <2>1, <2>4, <3>2, <3>3 DEF Types, radioVars
      <4>2. Stage' /\ Waited'
        BY <1>t, <1>1, <2>4, <3>3, SameStage, SameWaited DEF radioVars
      <4> QED BY <1>1, <2>4, <3>1, <3>3, <4>1, <4>2, OrdinaryTasks, QuietKeeps DEF radioVars
    <3>4. CASE MaySend(p) /\ Send(p, FALSE)
      <4>1. /\ UNCHANGED <<conn, sending, air, heard, sent>> /\ SpendUnless(FALSE, "refusals")
            /\ wbuf' = [busy |-> FALSE, packet |-> record]
        BY <3>4 DEF Send, Transmit
      <4>2. wbuf.busy = FALSE /\ wbuf'.busy = FALSE
        BY <1>t, <3>4, <4>1 DEF MaySend, Buffers
      <4>3. left' \in Budgets
        BY <1>t, <4>1, SpendUnlessKeeps DEF Types
      <4>4. wbuf' \in Buffers
        <5>1. Cid(conn) \in Nat /\ NextNumber \in Nat /\ p \in AnyPacket
          BY <1>t, <2>1, NextNumberType, CidType, MoteAssumption DEF OwnPackets, AnyPacket
        <5> QED BY <4>1, <5>1 DEF Buffers, Records
      <4>5. Types'
        BY <1>t, <1>1, <2>1, <2>4, <3>2, <4>1, <4>3, <4>4 DEF Types
      <4>6. LogTypes' /\ Flash'
        BY <1>t, <1>1, <4>2, FreeBuffer
      <4>7. Stage'
        BY <1>t, <4>1, SameStage
      <4>8. Owner'
        BY <4>2 DEF Owner, Mute
      <4>9. Aligned'
        <5>1. ~Mute /\ ~Mute' /\ InLog' = InLog
          BY <4>1, <4>2 DEF Mute, InLog
        <5>2. Standing => Standing'
          BY <1>1, <4>1, <4>2, <5>1 DEF Standing, Record
        <5> QED BY <1>t, <1>1, <3>2, <5>1, <5>2 DEF Aligned
      <4>10. Waited'
        BY <1>t, <1>1, <2>4, <4>1, <4>2 DEF Waited, Valid
      <4>11. Buffered'
        <5>1. \/ Genuine(rbuf.packet) \/ rbuf.packet = Blank
              \/ rbuf.packet.cid = 0 /\ ~In(tasks', "retransmit") /\ "RETRANSMIT" \notin pending
          BY <1>t, <3>1, OrdinaryTasks, QueueKeeps DEF MoteInv, Buffered
        <5> QED BY <1>1, <4>1, <4>2, <5>1 DEF MoteInv, Buffered, Genuine, Record, Blank
      <4>12. SynOnAir' /\ Unborn'
        BY <1>t, <2>4, <4>1, SameSyn, SameUnborn DEF MoteInv
      <4>13. /\ In(tasks', "transmit") => In(tasks, "transmit")
             /\ In(tasks', "eraseLogger") => In(tasks, "eraseLogger")
             /\ Single(tasks) => Single(tasks')
             /\ EraseFirst(tasks) => EraseFirst(tasks')
        <5>1. "transmit" \notin Ordinary /\ "eraseLogger" \notin Ordinary
          BY OrdinaryTasks
        <5> QED BY <1>t, <3>1, <5>1, QueueKeeps
      <4>14. Heard' /\ Radio'
        BY <4>1, <4>13, SameHeard, SameRadio DEF MoteInv, Radio
      <4> QED BY <4>5, <4>6, <4>7, <4>8, <4>9, <4>10, <4>11, <4>12, <4>14 DEF MoteInv
    <3> QED BY <2>4, <3>3, <3>4
  <2>5. CASE /\ MaySend(p) /\ Send(p, TRUE)
             /\ current' = p /\ retry' = NoPacket /\ current = NoPacket
             /\ elem' = [elem EXCEPT ![p.tid] = "SENDING"]
             /\ tasks' = Post(HandedDown, "writeLogger")
             /\ list' \in Seq(OwnPackets)
    <3>1. UNCHANGED <<logVars, rbuf, psd, pending, runs>>
      BY <1>1
    <3> QED BY <1>1, <2>1, <2>5, <3>1, SendKeeps
  <2> QED BY <1>2, <2>2, <2>3, <2>4, <2>5
<1>4. retry # NoPacket \/ list # <<>> \/ (/\ tasks' = Tail(tasks)
           /\ UNCHANGED <<connVars, radioVars, wbuf, appVars, sent, left>>)
  BY DEF PopAndSend
<1> QED BY <1>2, <1>3, <1>4

-----------------------------------------------------------------------------
(* The log is written.                                                      *)

\* A packet of the connection is the last one it sent, and the log's next; no
\* erasure is posted.
LEMMA OwnBuffer ==
  ASSUME MoteInv, wbuf.busy, Mine(wbuf.packet), NEW t, t = conn.tid, NEW N, N = Len(sent[t])
  PROVE  /\ t \in Tids /\ t # 0 /\ sent[t] # <<>> /\ N \in Nat \ {0} /\ N \in DOMAIN sent[t]
         /\ wbuf.packet = Record(t, N) /\ wbuf.packet.seqno = SeqOf(N)
         /\ Idx(wbuf.packet.seqno) = Place(N) /\ NextIndex(wbuf.packet.seqno) = Place(N + 1)
         /\ <<"SYN", t>> \in heard /\ ~In(tasks, "eraseLogger")
         /\ InLog = N - 1 /\ ~Mute /\ Standing
         /\ m_state = "IDLE" \/ N = 1
<1>1. t \in Tids \cup {0} /\ sent \in [Tids -> Seq(OwnPackets)] /\ 0 \notin Tids
  BY MoteAssumption DEF MoteInv, Types, Connections
<1>2. t # 0 /\ sent[t] # <<>> /\ wbuf.packet = Record(t, N)
  BY DEF MoteInv, Owner
<1>3. t \in Tids /\ N \in Nat \ {0} /\ N \in DOMAIN sent[t]
  BY <1>1, <1>2
<1>4. wbuf.packet.seqno = SeqOf(N)
  BY <1>2 DEF Record
<1>5. <<"SYN", t>> \in heard /\ ~In(tasks, "eraseLogger")
  BY <1>2, <1>3 DEF MoteInv, Heard
<1>6. InLog = N - 1 /\ ~Mute
  BY <1>2 DEF InLog, Mute
<1>7. Standing
  BY <1>5, <1>6 DEF MoteInv, Aligned
<1>8. m_state = "IDLE" \/ N = 1
  BY <1>3, <1>6, <1>7 DEF Standing
<1>9. Idx(wbuf.packet.seqno) = Place(N) /\ NextIndex(wbuf.packet.seqno) = Place(N + 1)
  BY <1>3, <1>4, PlaceNext DEF Place
<1> QED BY <1>2, <1>3, <1>4, <1>5, <1>6, <1>7, <1>8, <1>9

\* The write of the next packet begins.
LEMMA WriteBegins ==
  ASSUME MoteInv, wbuf.busy, Mine(wbuf.packet), CanWrite(wbuf.packet.seqno),
         NEW v, v = b.currVol, op[v] = Rest, op' = [op EXCEPT ![v] = Writing],
         b' = [b EXCEPT !.nextIndex = NextIndex(wbuf.packet.seqno)],
         UNCHANGED <<m_state, cells, wbuf, sent, conn>>
  PROVE  LogTypes' /\ Flash' /\ Aligned'
<1> DEFINE F == TR_FLASH_PKTS_PER_CON
           i == Idx(wbuf.packet.seqno)
           k == NextIndex(wbuf.packet.seqno)
           t == conn.tid
           N == Len(sent[t])
<1>t. LogTypes /\ Flash /\ Types /\ F \in Nat /\ F >= 2
  BY LoggerAssumption, SeqnoAssumption DEF MoteInv
<1>1. /\ N \in Nat \ {0} /\ i = Place(N) /\ k = Place(N + 1) /\ InLog = N - 1 /\ ~Mute /\ Standing
      /\ i \in Places /\ k \in Places /\ i >= i
  <2> HIDE DEF t, N
  <2>1. t = conn.tid /\ N = Len(sent[t])
    BY DEF t, N
  <2>2. /\ N \in Nat \ {0} /\ i = Place(N) /\ k = Place(N + 1) /\ InLog = N - 1 /\ ~Mute /\ Standing
    BY <2>1, OwnBuffer
  <2>3. N + 1 \in Nat \ {0}
    BY <2>2
  <2> QED BY <2>2, <2>3, PlaceNext DEF Places
<1>2. m_state = "IDLE" /\ i = b.nextIndex /\ v \notin b.dirty /\ v \in Volumes /\ InUse
  BY <1>t DEF CanWrite, LogTypes, Flash
<1>3. k = IF i + 1 = F THEN 0 ELSE i + 1
  <2>1. k = (i + 1) % F
    BY DEF NextIndex
  <2>2. i \in 0 .. F - 1 /\ F \in Nat \ {0}
    BY <1>t, <1>1 DEF Places
  <2> HIDE DEF i, k, F
  <2>3. CASE i + 1 = F
    <3>1. F % F = 0
      BY <2>2
    <3> QED BY <2>1, <2>3, <3>1
  <2>4. CASE i + 1 # F
    <3>1. i + 1 \in 0 .. F - 1
      BY <2>2, <2>4
    <3> QED BY <2>1, <2>2, <2>4, <3>1, RemainderOfSmall
  <2> QED BY <2>3, <2>4
<1> HIDE DEF i, k
<1>4. /\ \A w \in Volumes : w # v => op[w].kind # "write" /\ op[w] # Erasure
      /\ \A w \in Volumes : w # v => op'[w] = op[w]
      /\ op'[v] = Writing /\ op'[v].kind = "write" /\ op'[v] # Erasure
      /\ op' = [w \in Volumes |-> op'[w]]
  BY <1>t, <1>2 DEF InUse, LogTypes, Writing, Erasure
<1>5. /\ b' \in [ready : BOOLEAN, currVol : Volumes, dirty : SUBSET Volumes, nextIndex : Places]
      /\ b'.ready = b.ready /\ b'.currVol = v /\ b'.dirty = b.dirty /\ b'.nextIndex = k
  BY <1>t, <1>1 DEF LogTypes, k
<1>6. TailClean
  <2>1. ~LastPending
    BY <1>2, <1>t DEF LastPending, LastPlace, i
  <2> QED BY <1>2, <2>1 DEF InUse, Rest, Erasure
<1>7. LogTypes'
  <2>1. Writing' = Writing
    BY DEF Writing
  <2>2. \A w \in Volumes : \/ op'[w] \in {Rest, Erasure, Writing'}
                           \/ op'[w].kind = "read" /\ op'[w] = Reading(op'[w].seqno)
    BY <1>t, <1>4, <2>1 DEF LogTypes
  <2> QED BY <1>t, <1>4, <1>5, <2>2 DEF LogTypes, Reading
<1>8. TailClean' \/ LastPending'
  <2>1. CASE i + 1 = F
    <3>1. k = 0 /\ i = F - 1
      BY <1>1, <1>t, <1>3, <2>1 DEF Places
    <3> QED BY <1>5, <3>1 DEF LastPending, LastPlace, i, Idx
  <2>2. CASE i + 1 # F
    <3>1. \A p \in Places : p >= k => p >= i
      BY <1>1, <1>3, <2>2 DEF Places
    <3> QED BY <1>2, <1>5, <1>6, <3>1 DEF TailClean
  <2> QED BY <2>1, <2>2
<1>9. InUse'
  <2>1. NextIndex(wbuf.packet.seqno)' = k
    BY DEF k, NextIndex, Idx
  <2>2. 1 - v \in b.dirty \/ Clean(1 - v)'
    BY <1>2 DEF InUse, Clean
  <2> QED BY <1>2, <1>4, <1>5, <1>8, <2>1, <2>2 DEF InUse
<1>10. cells[v][i] = Erased
  BY <1>1, <1>2, <1>6 DEF TailClean
<1>11. Flash'
  <2>1. \A w \in Volumes : op'[w].kind = "write" => wbuf.busy /\ w \notin b.dirty /\ cells[w][i] = Erased
    BY <1>2, <1>4, <1>10
  <2>2. \A w \in Volumes : op'[w].kind = "read" => w = VolOf(op'[w].seqno)
    BY <1>t, <1>4 DEF Flash
  <2>3. op'[0].kind = "write" => op'[1].kind # "write"
    BY <1>2, <1>4 DEF Volumes
  <2> QED BY <1>t, <1>2, <1>5, <1>9, <2>1, <2>2, <2>3 DEF Flash, i
<1>12. Aligned'
  <2>1. InLog' = N - 1 /\ InLog = N - 1 /\ ~Mute'
    BY <1>1 DEF InLog, Mute, Mine, Cid
  <2> HIDE DEF N
  <2>2. InLog' + 2 = N + 1 /\ InLog' + 1 = N /\ InLog + 1 = N
    BY <1>1, <2>1
  <2>3. \A n \in 1 .. InLog' : n + F > InLog' => cells[Vol(n)][Place(n)] = Record(conn.tid, n)
    BY <1>1, <2>1 DEF Standing
  <2>4. v = Vol(N)
    BY <1>1, <2>2 DEF Standing
  <2>5. Standing'
    BY <1>1, <1>2, <1>4, <1>5, <2>2, <2>3, <2>4 DEF Standing, Record
  <2> QED BY <1>2, <2>1, <2>5 DEF Aligned
<1> QED BY <1>7, <1>11, <1>12

LEMMA WriteRefused == ASSUME NEW d, Write(d, FALSE) PROVE UNCHANGED logVars
BY DEF Write, Start, logVars

LEMMA WriteLoggerKeeps == ASSUME MoteInv, WriteLogger PROVE MoteInv'
<1>t. Types /\ Waited /\ Stage /\ tasks \in Seq(TaskNames)
  BY DEF MoteInv, Types
<1>1. /\ UNCHANGED <<conn, sending, air, heard, wbuf, rbuf, recover, psd, elem, list, retry, current, runs, sent, left>>
      /\ Runs("writeLogger") /\ tasks' = Tail(tasks)
  BY DEF WriteLogger, connVars, radioVars, bufVars, appVars
<1>2. Queued("writeLogger", Ordinary) /\ Queued("writeLogger", {})
  BY <1>t, <1>1, TurnQueued
<1>3. Types'
  <2>1. tasks' \in Seq(TaskNames)
    BY <1>t, <1>2, QueueKeeps
  <2> QED BY <1>t, <1>1, <2>1 DEF Types
<1>4. Stage' /\ Waited'
  BY <1>t, <1>1, SameStage, SameWaited
<1>5. "RETRANSMIT" \in pending' => "RETRANSMIT" \in pending
  <2>1. pending' = pending \/ pending' = pending \cup {"WRITE"}
    BY DEF WriteLogger, RetryLater
  <2> QED BY <2>1
<1>6. CASE UNCHANGED logVars
  BY <1>1, <1>2, <1>3, <1>4, <1>5, <1>6, OrdinaryTasks, QuietKeeps
<1>7. CASE wbuf.busy /\ Mine(wbuf.packet) /\ Write(wbuf.packet, TRUE)
  <2> DEFINE v == b.currVol
  <2>1. CanWrite(wbuf.packet.seqno)
    BY <1>7 DEF Write
  <2>2. op[v] = Rest /\ op' = [op EXCEPT ![v] = Writing]
    BY <1>7 DEF Write, Start, Writing
  <2>3. b' = [b EXCEPT !.nextIndex = NextIndex(wbuf.packet.seqno)] /\ UNCHANGED <<m_state, cells>>
    BY <1>7 DEF Write
  <2> HIDE DEF v
  <2>4. UNCHANGED <<m_state, cells, wbuf, sent, conn>>
    BY <1>1, <2>3
  <2>5. LogTypes' /\ Flash' /\ Aligned'
    BY <1>7, <2>1, <2>2, <2>3, <2>4, WriteBegins DEF v
  <2>6. Radio' /\ SynOnAir' /\ Unborn' /\ Heard' /\ Owner'
    BY <1>1, <1>2, OrdinaryTasks, AppQuiet
  <2>7. Buffered'
    BY <1>1, <1>2, <1>5, <2>4, OrdinaryTasks, BuffersQuiet
  <2> QED BY <1>3, <1>4, <2>5, <2>6, <2>7 DEF MoteInv
<1>8. UNCHANGED logVars \/ (wbuf.busy /\ Mine(wbuf.packet) /\ Write(wbuf.packet, TRUE))
  BY WriteRefused DEF WriteLogger, flashVars
<1> QED BY <1>6, <1>7, <1>8

\* Records are neither erased nor garbage.
LEMMA RecordsDiffer == ASSUME NEW d \in Records PROVE d # Garbage /\ d # Rest /\ d # Erasure
BY DEF Records, Garbage, Rest, Erasure

\* The write of eepromWriteBuf has ended.
LEMMA WriteEnds ==
  ASSUME MoteInv, NEW v \in Volumes, op[v].kind = "write", NEW ok \in BOOLEAN,
         WriteDone(v, op[v].data, ok), sent' = sent, conn'.tid = conn.tid,
         wbuf' = IF Mine(wbuf.packet) /\ ok THEN [wbuf EXCEPT !.busy = FALSE] ELSE wbuf,
         NEW d, d = wbuf.packet, NEW i, i = Idx(d.seqno), NEW k, k = NextIndex(d.seqno),
         NEW w, w = 1 - v
  PROVE  /\ LogTypes' /\ Flash' /\ Aligned' /\ wbuf.busy = TRUE
         /\ \A x \in Volumes, p \in Places : cells'[x][p] \in {cells[x][p], d}
<1> DEFINE F == TR_FLASH_PKTS_PER_CON
<1>t. /\ LogTypes /\ Flash /\ Types /\ F \in Nat \ {0} /\ F >= 2 /\ wbuf \in Buffers /\ d \in Records
      /\ 0 \in Volumes /\ 1 \in Volumes /\ \A x \in Volumes : x = v \/ x = w
      /\ w \in Volumes /\ w # v /\ 1 - w = v
  BY LoggerAssumption, SeqnoAssumption DEF MoteInv, Types, Buffers, Volumes
<1>1. /\ op[v] = Writing /\ op[v].data = d /\ op[v] # Erasure
  BY <1>t DEF LogTypes, Rest, Erasure, Writing
<1>2. /\ wbuf.busy = TRUE /\ v \notin b.dirty /\ cells[v][i] = Erased
  BY <1>t DEF Flash, Buffers
<1>3. op[w].kind # "write"
  BY <1>t DEF Flash, Volumes
<1>4. /\ m_state' = m_state
      /\ cells' = IF ok THEN [cells EXCEPT ![v][i] = d] ELSE cells
      /\ b' = IF ok /\ b.nextIndex = 0
              THEN [b EXCEPT !.dirty = b.dirty \cup {b.currVol}, !.currVol = 1 - b.currVol] ELSE b
      /\ op' = IF ok /\ b.nextIndex = 0 /\ 1 - b.currVol \in b.dirty
               THEN [op EXCEPT ![v] = Rest,
                               ![1 - b.currVol] = IF 1 - b.currVol = v \/ op[1 - b.currVol] = Rest
                                                  THEN Erasure ELSE op[1 - b.currVol]]
               ELSE [op EXCEPT ![v] = Rest]
  BY <1>1, <1>2 DEF WriteDone, Ended, Follow
<1>5. i \in Places /\ k \in Places /\ (k = 0 \/ k = i + 1)
  <2>1. d.seqno \in Nat
    BY <1>t DEF Records
  <2>2. i \in 0 .. F - 1 /\ k = (i + 1) % F
    BY <1>t, <2>1 DEF Idx, NextIndex
  <2> HIDE DEF F
  <2>3. i + 1 \in 0 .. F - 1 => (i + 1) % F = i + 1
    BY <1>t, <2>2, RemainderOfSmall
  <2>4. i + 1 = F => (i + 1) % F = 0
    BY <1>t, <2>2
  <2>5. i + 1 \in 0 .. F - 1 \/ i + 1 = F
    BY <1>t, <2>2
  <2> QED BY <1>t, <2>2, <2>3, <2>4, <2>5 DEF Places, F
<1>6. /\ cells \in [Volumes -> [Places -> {Erased, Garbage} \cup Records]]
      /\ cells' \in [Volumes -> [Places -> {Erased, Garbage} \cup Records]]
      /\ \A x \in Volumes, p \in Places :
           cells'[x][p] = IF ok /\ x = v /\ p = i THEN d ELSE cells[x][p]
  BY <1>t, <1>4, <1>5 DEF LogTypes
<1>7. b.currVol \in Volumes /\ b.dirty \subseteq Volumes /\ b.nextIndex \in Places
      /\ b' \in [ready : BOOLEAN, currVol : Volumes, dirty : SUBSET Volumes, nextIndex : Places]
      /\ b'.ready = b.ready /\ b'.nextIndex = b.nextIndex
      /\ IF ok /\ b.nextIndex = 0 THEN b'.dirty = b.dirty \cup {b.currVol} /\ b'.currVol = 1 - b.currVol
         ELSE b' = b
  <2>1. b.currVol \in Volumes /\ 1 - b.currVol \in Volumes
    BY <1>t DEF LogTypes, Volumes
  <2> QED BY <1>t, <1>4, <2>1 DEF LogTypes
<1>8. m_state # "INIT"
  BY <1>t, <1>1 DEF Flash, Booting, Volumes, Writing, Rest, Erasure
<1>9. m_state = "ERASE_VOL" => b.ready = FALSE /\ b.nextIndex = 0 /\ b.currVol = 0 /\ Erasing
  BY <1>t, <1>8 DEF Flash, Erasing, LogTypes
<1>10. m_state = "IDLE" => InUse /\ b.currVol = v /\ b.nextIndex = k
  BY <1>t DEF Flash, InUse
<1>11. /\ op' = [x \in Volumes |-> op'[x]] /\ op'[v].kind # "write"
       /\ op'[v] \in {Rest, Erasure} /\ (op'[v] = Erasure => 1 - b.currVol = v /\ v \in b.dirty)
       /\ op'[w] = op[w] \/ (op'[w] = Erasure /\ op[w] = Rest /\ ok /\ b.nextIndex = 0 /\ 1 - b.currVol = w)
  BY <1>t, <1>4, <1>7 DEF LogTypes, Rest, Erasure
<1>12. op'[v] = Rest
  BY <1>2, <1>11
<1>13. \A x \in Volumes : op'[x].kind # "write"
  BY <1>t, <1>3, <1>11 DEF Erasure
<1>14. LogTypes'
  <2>1. \/ op[w] \in {Rest, Erasure} \/ (op[w].kind = "read" /\ op[w] = Reading(op[w].seqno))
    BY <1>t, <1>3 DEF LogTypes, Writing
  <2>2. \A x \in Volumes : \/ op'[x] \in {Rest, Erasure}
                           \/ op'[x].kind = "read" /\ op'[x] = Reading(op'[x].seqno)
    BY <1>t, <1>11, <1>12, <2>1
  <2> QED BY <1>t, <1>4, <1>6, <1>7, <1>11, <2>2 DEF LogTypes, Reading
<1>15. m_state = "ERASE_VOL" => Erasing'
  <2> SUFFICES ASSUME m_state = "ERASE_VOL" PROVE Erasing'
    OBVIOUS
  <2>1. ~b'.ready /\ b'.nextIndex = 0
    BY <1>7, <1>9
  <2>2. ASSUME op'[1] = Erasure
        PROVE  b'.currVol = 1 /\ op'[0] # Erasure /\ 0 \in b'.dirty
    <3>1. v = 0 /\ w = 1
      BY <1>t, <1>12, <2>2 DEF Rest, Erasure, Volumes
    <3>2. op[1] # Erasure
      BY <1>9, <3>1 DEF Erasing
    <3>3. ok
      BY <1>11, <2>2, <3>1, <3>2
    <3> QED BY <1>7, <1>9, <1>12, <3>1, <3>3 DEF Rest, Erasure
  <2> QED BY <1>t, <1>13, <2>1, <2>2 DEF Erasing
<1>16. m_state = "IDLE" => InUse'
  <2> SUFFICES ASSUME m_state = "IDLE" PROVE InUse'
    OBVIOUS
  <2>1. InUse /\ b.currVol = v /\ b.nextIndex = k /\ 1 - b.currVol = w
    BY <1>t, <1>10
  <2>2. op[w] # Erasure /\ (w \in b.dirty \/ \A p \in Places : cells[w][p] = Erased)
    BY <1>t, <2>1 DEF InUse, Clean
  <2>3. TailClean \/ LastPending
    BY <1>1, <1>2, <2>1 DEF InUse
  <2>4. CASE ok /\ k = 0
    <3>1. b'.currVol = w /\ b'.nextIndex = 0 /\ b'.dirty = b.dirty \cup {v}
      BY <1>7, <2>1, <2>4
    <3>2. \A x \in Volumes : op'[x] = Erasure => x = w
      BY <1>t, <1>12 DEF Rest, Erasure
    <3>3. op'[1] = Erasure => 0 \in b'.dirty
      BY <1>t, <3>1, <3>2 DEF Volumes
    <3>4. w \in b.dirty \/ TailClean'
      BY <1>t, <1>6, <2>2, <3>1 DEF TailClean
    <3> QED BY <1>t, <1>7, <1>13, <2>1, <3>1, <3>2, <3>3, <3>4 DEF InUse
  <2>5. CASE ~(ok /\ k = 0)
    <3>1. b' = b
      BY <1>7, <2>1, <2>5
    <3>2. \A x \in Volumes : op'[x] # Erasure
      BY <1>t, <1>11, <1>12, <2>1, <2>2, <2>5 DEF Rest, Erasure
    <3>3. w \in b.dirty \/ Clean(w)'
      BY <1>t, <1>6, <2>2 DEF Clean
    <3>4. TailClean' \/ LastPending'
      <4>1. CASE ok
        <5>1. k = i + 1 /\ TailClean
          BY <1>5, <2>1, <2>3, <2>5, <4>1 DEF LastPending
        <5>2. \A p \in Places : p >= k => p # i
          BY <1>5, <5>1 DEF Places
        <5> QED BY <1>6, <2>1, <3>1, <5>1, <5>2 DEF TailClean
      <4>2. CASE ~ok
        BY <1>4, <2>3, <3>1, <4>2 DEF TailClean, LastPending
      <4> QED BY <4>1, <4>2
    <3> QED BY <1>t, <1>13, <2>1, <3>1, <3>2, <3>3, <3>4 DEF InUse
  <2> QED BY <2>4, <2>5
<1>17. Flash'
  <2>1. \A x \in Volumes, p \in Places : cells'[x][p] # Garbage
    BY <1>t, <1>6, <1>8, RecordsDiffer DEF Flash
  <2>2. \A x \in Volumes : op'[x].kind = "read" => x = VolOf(op'[x].seqno)
    BY <1>t, <1>11, <1>12 DEF Flash, Rest, Erasure
  <2>3. 0 \in Volumes /\ 1 \in Volumes
    BY <1>t
  <2> QED BY <1>4, <1>8, <1>13, <1>15, <1>16, <2>1, <2>2, <2>3 DEF Flash
<1>18. Aligned'
  <2>1. CASE ~Mine(wbuf.packet)
    <3>1. Mute'
      BY <1>2, <2>1 DEF Mute, Mine, Cid
    <3> QED BY <3>1 DEF Aligned
  <2>2. CASE Mine(wbuf.packet)
    <3> DEFINE t == conn.tid
               N == Len(sent[t])
    <3>1. /\ N \in Nat \ {0} /\ N \in DOMAIN sent[t] /\ d = Record(t, N) /\ i = Place(N) /\ k = Place(N + 1)
          /\ InLog = N - 1 /\ ~Mute /\ Standing /\ t # 0 /\ d.seqno = SeqOf(N)
      <4> HIDE DEF t, N
      <4>1. t = conn.tid /\ N = Len(sent[t])
        BY DEF t, N
      <4> QED BY <1>2, <2>2, <4>1, OwnBuffer
    <3>2. m_state = "IDLE"
      <4>1. m_state \in {"IDLE", "INIT", "ERASE_VOL"}
        BY <1>t DEF LogTypes
      <4>2. m_state # "ERASE_VOL"
        BY <3>1 DEF MoteInv, Aligned
      <4> QED BY <1>8, <4>1, <4>2
    <3>3. InUse /\ b.currVol = v /\ b.nextIndex = k /\ v = Vol(N)
      <4>1. InLog + 1 = N
        BY <3>1
      <4> QED BY <1>10, <3>1, <3>2, <4>1 DEF Standing
    <3>4. wbuf'.packet = d /\ ~Mute' /\ Vol(N) \in Volumes
      <4>1. Mine(wbuf.packet)' /\ wbuf'.packet = d
        BY <1>t, <2>2 DEF Mine, Cid, Buffers
      <4> QED BY <4>1, <1>t, <3>3 DEF Mute
    <3>5. \A n \in 1 .. N - 1 : n + F > N - 1 => cells[Vol(n)][Place(n)] = Record(conn.tid, n)
      BY <3>1 DEF Standing
    <3>6. CASE ok
      <4>1. InLog' = N
        BY <1>t, <2>2, <3>1, <3>6 DEF InLog, Buffers
      <4>2. b'.currVol = Vol(N + 1) /\ b'.nextIndex = Place(N + 1)
        BY <1>7, <3>1, <3>3, <3>6, PlaceNext
      <4>3. ASSUME NEW n \in 1 .. N, n + F > N
            PROVE  cells'[Vol(n)][Place(n)] = Record(conn.tid, n)'
        <5> HIDE DEF N
        <5>1. Record(conn.tid, n)' = Record(conn.tid, n)
          BY DEF Record
        <5>2. n \in Nat \ {0} /\ Vol(n) \in Volumes /\ Place(n) \in Places
          BY <3>1, <4>3, PlaceNext
        <5>3. CASE n = N
          BY <1>6, <3>1, <3>3, <3>6, <5>1, <5>2, <5>3
        <5>4. CASE n # N
          <6>1. n < N /\ N <= n + F /\ n \in 1 .. N - 1 /\ n + F > N - 1
            BY <1>t, <3>1, <4>3, <5>4
          <6>2. Vol(n) # Vol(N) \/ Place(n) # Place(N)
            BY <3>1, <5>2, <6>1, Apart
          <6>3. cells[Vol(n)][Place(n)] = Record(conn.tid, n)
            BY <3>5, <6>1
          <6> QED BY <1>6, <3>1, <3>3, <5>1, <5>2, <6>2, <6>3
        <5> QED BY <5>3, <5>4
      <4> HIDE DEF N
      <4> QED BY <1>4, <3>2, <3>4, <4>1, <4>2, <4>3 DEF Aligned, Standing
    <3>7. CASE ~ok
      <4>1. InLog' = InLog /\ b' = b /\ cells' = cells /\ wbuf' = wbuf
        BY <1>4, <1>7, <2>2, <3>7 DEF InLog
      <4>2. op'[b'.currVol] # Erasure
        BY <1>12, <3>3, <4>1 DEF Rest, Erasure
      <4>3. Standing'
        BY <1>4, <3>1, <3>2, <4>1, <4>2 DEF Standing, Record
      <4> QED BY <1>4, <3>2, <3>4, <4>3 DEF Aligned
    <3> QED BY <3>6, <3>7
  <2> QED BY <2>1, <2>2
<1> QED BY <1>2, <1>6, <1>14, <1>17, <1>18

LEMMA PacketWrittenKeeps ==
  ASSUME MoteInv, CidInv, PacketWritten
  PROVE  /\ MoteInv'
         /\ \A v \in Volumes, p \in Places :
              cells'[v][p] = cells[v][p] \/ (wbuf.busy /\ cells'[v][p] = wbuf.packet)
<1>t. /\ Types /\ Waited /\ Stage /\ Buffered /\ tasks \in Seq(TaskNames) /\ wbuf \in Buffers
      /\ "writeLogger" \in Ordinary /\ "readLogger" \in Ordinary
  BY DEF MoteInv, Types, Ordinary
<1>1. /\ UNCHANGED <<sending, air, heard, rbuf, recover, pending, runs, sent>>
  BY DEF PacketWritten, radioVars
<1>2. PICK v \in Volumes, ok \in BOOLEAN :
       /\ op[v].kind = "write"
       /\ WriteDone(v, op[v].data, ok) /\ SpendUnless(ok, "flash")
       /\ eeprom' = "IDLE"
       /\ IF ~Mine(wbuf.packet) THEN UNCHANGED <<wbuf, psd, tasks, conn, appVars>>
          ELSE IF ~ok THEN tasks' = Post(tasks, "writeLogger") /\ UNCHANGED <<wbuf, psd, conn, appVars>>
          ELSE /\ wbuf' = [wbuf EXCEPT !.busy = FALSE]
               /\ psd' = FALSE
               /\ IF psd THEN SignalSendDone(TRUE, "readLogger")
                  ELSE tasks' = Post(tasks, "readLogger") /\ UNCHANGED <<conn, appVars>>
  BY DEF PacketWritten
<1>3. left' \in Budgets
  BY <1>t, <1>2, SpendUnlessKeeps DEF Types
<1>4. wbuf' = IF Mine(wbuf.packet) /\ ok THEN [wbuf EXCEPT !.busy = FALSE] ELSE wbuf
  BY <1>2
<1>5. /\ wbuf' \in Buffers /\ wbuf'.packet = wbuf.packet
      /\ wbuf' = wbuf \/ wbuf'.busy = FALSE
  BY <1>t, <1>4 DEF Buffers
<1>g. Grown(tasks, tasks, Ordinary)
  BY <1>t, NotGrown, GrownMore
<1>6. /\ Queued("none", Ordinary) /\ current' \in {current, NoPacket}
      /\ conn' \in Connections /\ conn'.tid = conn.tid
      /\ conn'.state = "ACTIVE" => conn.state = "ACTIVE"
      /\ Stage'
      /\ elem' \in [Tids -> Elements] /\ \A u \in Tids : elem'[u] = "new" => elem[u] = "new"
      /\ list' \in Seq(OwnPackets) /\ retry' \in OwnPackets \cup {NoPacket}
      /\ \/ UNCHANGED <<wbuf, psd, current, conn>>
         \/ psd' = FALSE /\ current' = current /\ conn' = conn
         \/ psd' = FALSE /\ current' = NoPacket /\ psd
  <2>1. CASE SignalSendDone(TRUE, "readLogger") /\ psd' = FALSE /\ psd
    BY <1>t, <1>1, <2>1, SignalDone
  <2>2. CASE /\ UNCHANGED <<conn, appVars>> /\ (tasks' = tasks \/ Post(tasks, "writeLogger") = tasks'
                                               \/ Post(tasks, "readLogger") = tasks')
             /\ psd' = FALSE \/ UNCHANGED <<wbuf, psd>>
    <3>1. Queued("none", Ordinary)
      BY <1>t, <1>g, <2>2, PostQueued DEF Post, Queued
    <3>2. Stage'
      BY <1>t, <1>1, <2>2, SameStage
    <3> QED BY <1>t, <2>2, <3>1, <3>2 DEF Types, appVars
  <2> QED BY <1>2, <2>1, <2>2
<1>7. Types'
  <2>1. tasks' \in Seq(TaskNames)
    BY <1>t, <1>6, QueueKeeps
  <2>2. psd' \in BOOLEAN
    BY <1>t, <1>6 DEF Types
  <2> QED BY <1>t, <1>1, <1>3, <1>5, <1>6, <2>1, <2>2 DEF Types
<1>8. /\ LogTypes' /\ Flash' /\ Aligned' /\ wbuf.busy = TRUE
      /\ \A x \in Volumes, p \in Places : cells'[x][p] \in {cells[x][p], wbuf.packet}
  BY <1>1, <1>2, <1>4, <1>6, WriteEnds
<1>9. Radio' /\ SynOnAir' /\ Unborn' /\ Heard'
  BY <1>1, <1>6, OrdinaryTasks, AppQuiet
<1>10. Owner'
  BY <1>1, <1>5, <1>6, SameOwner DEF MoteInv, Owner, Mute
<1>11. Waited'
  BY <1>t, <1>1, <1>5, <1>6 DEF Waited, Mine, Cid, Valid
<1>12. Buffered'
  <2>1. In(tasks', "retransmit") => In(tasks, "retransmit")
    BY <1>t, <1>6, OrdinaryTasks, QueueKeeps
  <2>2. \A r : Genuine(r)' = Genuine(r)
    BY <1>1 DEF Genuine, Record
  <2>3. Genuine(wbuf.packet) /\ Blank' = Blank
    BY <1>t, <1>8 DEF Buffered, Blank
  <2>4. Genuine(wbuf.packet)'
    BY <1>1, <1>5, <2>3 DEF Genuine, Record
  <2>5. \A x \in Volumes, p \in Places : cells'[x][p] \in {Erased, Garbage} \/ Genuine(cells'[x][p])
    BY <1>t, <1>8, <2>3 DEF Buffered
  <2>6. \A x \in Volumes, p \in Places : cells'[x][p] \in {Erased, Garbage} \/ Genuine(cells[x][p])'
    BY <1>1, <2>5 DEF Genuine, Record
  <2>7. \/ Genuine(rbuf.packet)' \/ rbuf'.packet = Blank'
        \/ rbuf'.packet.cid = 0 /\ ~In(tasks', "retransmit") /\ "RETRANSMIT" \notin pending'
    BY <1>t, <1>1, <2>1, <2>3 DEF Buffered, Genuine, Record
  <2> QED BY <2>4, <2>6, <2>7 DEF Buffered
<1> QED BY <1>6, <1>7, <1>8, <1>9, <1>10, <1>11, <1>12 DEF MoteInv

-----------------------------------------------------------------------------
(* The log is read.                                                         *)

\* A read begins or ends.
LEMMA OnlyReads ==
  ASSUME LogTypes, Flash, Owner, Aligned, UNCHANGED <<b, m_state, cells, wbuf, sent, conn>>,
         m_state # "INIT", op' = [x \in Volumes |-> op'[x]],
         \A x \in Volumes : \/ op'[x] = op[x]
                            \/ /\ op[x] = Rest \/ op[x].kind = "read"
                               /\ \/ op'[x] = Rest
                                  \/ \E s : op'[x] = Reading(s) /\ x = VolOf(s),
         In(tasks, "eraseLogger") => In(tasks', "eraseLogger")
  PROVE  LogTypes' /\ Flash' /\ Aligned'
<1>1. \A x \in Volumes : /\ op'[x] = Erasure <=> op[x] = Erasure
                         /\ op'[x].kind = "write" <=> op[x].kind = "write"
  BY DEF Erasure, Rest, Reading
<1>2. Writing' = Writing /\ \A s : Reading(s)' = Reading(s)
  BY DEF Writing, Reading
<1>3. \A x \in Volumes : \/ op'[x] \in {Rest, Erasure, Writing}
                         \/ op'[x].kind = "read" /\ op'[x] = Reading(op'[x].seqno)
  BY DEF LogTypes, Reading
<1>4. \A x \in Volumes : op'[x].kind = "read" => x = VolOf(op'[x].seqno)
  BY DEF Flash, Reading, Rest
<1>5. LogTypes'
  BY <1>2, <1>3 DEF LogTypes, Reading
<1>v. 0 \in Volumes /\ 1 \in Volumes
  BY DEF Volumes
<1>w. b.currVol \in Volumes
  BY DEF LogTypes
<1>6. m_state = "ERASE_VOL" => Erasing'
  BY <1>1, <1>v DEF Flash, Erasing, Clean
<1>7. m_state = "IDLE" => InUse'
  BY <1>1, <1>v, <1>w DEF Flash, InUse, Clean, TailClean, LastPending
<1>8. Flash'
  BY <1>1, <1>4, <1>6, <1>7, <1>v DEF Flash
<1>9. Mute' = Mute /\ InLog' = InLog
  BY SameOwner
<1>10. Standing => Standing'
  BY <1>1, <1>9, <1>w DEF Standing, Record
<1> QED BY <1>1, <1>5, <1>8, <1>9, <1>10 DEF Aligned

LEMMA ReadRefused == ASSUME NEW s, Read(s, FALSE) PROVE UNCHANGED logVars
BY DEF Read, Start, logVars

LEMMA ReadLoggerKeeps == ASSUME MoteInv, ReadLogger PROVE MoteInv'
<1> DEFINE s == Head(recover)
<1>t. /\ Types /\ Waited /\ Stage /\ LogTypes /\ tasks \in Seq(TaskNames) /\ rbuf \in Buffers
      /\ "readLogger" \in Ordinary
  BY DEF MoteInv, Types, Ordinary
<1>1. /\ UNCHANGED <<conn, sending, air, heard, wbuf, psd, elem, list, retry, current, runs, sent, left>>
      /\ Runs("readLogger")
  BY DEF ReadLogger, connVars, radioVars, appVars
<1>2. /\ tasks' = Tail(tasks) \/ tasks' = Post(Tail(tasks), "readLogger")
      /\ pending' = pending \/ pending' = pending \cup {"READ"}
      /\ rbuf' = rbuf \/ rbuf' = [rbuf EXCEPT !.busy = TRUE]
      /\ UNCHANGED logVars \/ Read(s, TRUE)
  BY ReadRefused DEF ReadLogger, RetryLater, flashVars
<1>3. Queued("readLogger", Ordinary)
  BY <1>t, <1>1, <1>2, TurnQueued, TurnPosts
<1>4. rbuf' \in Buffers /\ rbuf'.packet = rbuf.packet
  BY <1>t, <1>2 DEF Buffers
<1>5. Types'
  <2>1. tasks' \in Seq(TaskNames)
    BY <1>t, <1>3, QueueKeeps
  <2> QED BY <1>t, <1>1, <1>4, <2>1 DEF Types
<1>6. Stage' /\ Waited'
  BY <1>t, <1>1, SameStage, SameWaited
<1>7. "RETRANSMIT" \in pending' => "RETRANSMIT" \in pending
  BY <1>2
<1>8. CASE UNCHANGED logVars
  BY <1>1, <1>3, <1>4, <1>5, <1>6, <1>7, <1>8, OrdinaryTasks, QuietKeeps
<1>9. CASE Read(s, TRUE)
  <2>1. /\ m_state = "IDLE" /\ op[VolOf(s)] = Rest /\ op' = [op EXCEPT ![VolOf(s)] = Reading(s)]
        /\ UNCHANGED <<b, m_state, cells>>
    BY <1>9 DEF Read, Start, Reading
  <2>2. op' = [x \in Volumes |-> IF x = VolOf(s) THEN Reading(s) ELSE op[x]]
    BY <1>t, <2>1 DEF LogTypes
  <2>3. /\ op' = [x \in Volumes |-> op'[x]]
        /\ \A x \in Volumes : \/ op'[x] = op[x]
                              \/ op[x] = Rest /\ \E r : op'[x] = Reading(r) /\ x = VolOf(r)
    BY <2>1, <2>2
  <2>4. In(tasks, "eraseLogger") => In(tasks', "eraseLogger")
    BY <1>t, <1>3, QueueKeeps
  <2>5. LogTypes' /\ Flash' /\ Aligned'
    BY <1>1, <2>1, <2>3, <2>4, OnlyReads DEF MoteInv
  <2>6. Radio' /\ SynOnAir' /\ Unborn' /\ Heard' /\ Owner'
    BY <1>1, <1>3, OrdinaryTasks, AppQuiet
  <2>7. Buffered'
    BY <1>1, <1>3, <1>4, <1>7, <2>1, OrdinaryTasks, BuffersQuiet
  <2> QED BY <1>5, <1>6, <2>5, <2>6, <2>7 DEF MoteInv
<1> QED BY <1>2, <1>8, <1>9

LEMMA PacketReadKeeps ==
  ASSUME MoteInv, PacketRead
  PROVE  /\ MoteInv'
         /\ \/ rbuf'.packet \in {rbuf.packet, Blank}
            \/ \E v \in Volumes, p \in Places :
                 cells[v][p] \notin {Erased, Garbage} /\ rbuf'.packet = cells[v][p]
<1>t. /\ Types /\ Waited /\ Stage /\ LogTypes /\ Flash /\ Buffered /\ tasks \in Seq(TaskNames)
      /\ rbuf \in Buffers /\ "retransmit" \in TaskNames
  BY DEF MoteInv, Types, TaskNames
<1>1. /\ UNCHANGED <<conn, sending, air, heard, wbuf, psd, elem, list, retry, current, runs, sent>>
  BY DEF PacketRead, connVars, radioVars, appVars
<1>2. PICK v \in Volumes, s \in Seqno, ok \in BOOLEAN :
       LET found == cells[v][Idx(s)]
       IN  /\ ReadDone(v, s, found) /\ SpendUnless(ok, "flash")
           /\ IF ok THEN /\ \E d \in ReadAs(s, found) : rbuf' = [rbuf EXCEPT !.packet = d]
                         /\ recover' = IF recover = <<>> THEN recover ELSE Tail(recover)
                         /\ tasks' = Post(tasks, "retransmit") /\ UNCHANGED pending
              ELSE /\ rbuf' = [rbuf EXCEPT !.busy = FALSE]
                   /\ RetryLater("READ") /\ UNCHANGED <<recover, tasks>>
  BY DEF PacketRead
<1>3. left' \in Budgets
  BY <1>t, <1>2, SpendUnlessKeeps DEF Types
<1>4. op[v].kind = "read" /\ op' = [op EXCEPT ![v] = Rest] /\ UNCHANGED <<b, m_state, cells>>
  BY <1>2 DEF ReadDone
<1>5. m_state # "INIT"
  BY <1>t, <1>4 DEF Flash, Booting, Volumes, Rest, Erasure
<1>6. /\ op' = [x \in Volumes |-> op'[x]]
      /\ \A x \in Volumes : op'[x] = op[x] \/ (op[x].kind = "read" /\ op'[x] = Rest)
  BY <1>t, <1>4 DEF LogTypes
<1>s. {"retransmit"} \subseteq Ordinary \cup {"retransmit"} /\ "transmit" \notin {"retransmit"}
      /\ "none" # "transmit" /\ "none" # "eraseLogger" /\ "none" # "retransmit"
  OBVIOUS
<1>7. /\ Queued("none", {"retransmit"}) /\ (~ok => Queued("none", {}))
  <2>1. Grown(tasks, tasks, {}) /\ Grown(tasks, tasks, {"retransmit"})
    BY <1>t, NotGrown, GrownMore
  <2>2. ok => Grown(tasks, tasks', {"retransmit"})
    BY <1>t, <1>2, PostGrows DEF Post
  <2> QED BY <1>2, <2>1, <2>2 DEF Queued
<1>8. LogTypes' /\ Flash' /\ Aligned'
  <2>1. In(tasks, "eraseLogger") => In(tasks', "eraseLogger")
    BY <1>t, <1>7, <1>s, QueueKeeps
  <2> QED BY <1>1, <1>4, <1>5, <1>6, <2>1, OnlyReads DEF MoteInv
<1>9. Radio' /\ SynOnAir' /\ Unborn' /\ Heard' /\ Owner'
  BY <1>1, <1>7, <1>s, AppQuiet
<1>10. Stage' /\ Waited'
  BY <1>t, <1>1, SameStage, SameWaited
<1>11. ASSUME ok
       PROVE  /\ rbuf' \in Buffers /\ (rbuf'.packet = Blank \/ Genuine(rbuf'.packet))
              /\ \/ rbuf'.packet = Blank
                 \/ \E x \in Volumes, p \in Places :
                      cells[x][p] \notin {Erased, Garbage} /\ rbuf'.packet = cells[x][p]
  <2> DEFINE found == cells[v][Idx(s)]
  <2>1. PICK d \in ReadAs(s, found) : rbuf' = [rbuf EXCEPT !.packet = d]
    BY <1>2, <1>11
  <2>2. Idx(s) \in Places
    <3>1. s \in Nat /\ TR_FLASH_PKTS_PER_CON \in Nat \ {0}
      BY LoggerAssumption, SeqnoAssumption DEF Seqno, TR_FIRST_SEQNO
    <3>2. (s - 1) % TR_FLASH_PKTS_PER_CON \in 0 .. TR_FLASH_PKTS_PER_CON - 1
      BY <3>1
    <3> QED BY <3>2 DEF Idx, Places
  <2>3. /\ found \in {Erased} \cup Records /\ found # Garbage
        /\ found = Erased \/ Genuine(found)
    BY <1>t, <1>5, <2>2 DEF LogTypes, Flash, Buffered
  <2>f. found = cells[v][Idx(s)]
    OBVIOUS
  <2> HIDE DEF found
  <2>4. d = Blank \/ (d = found /\ found # Erased)
    BY <2>1, <2>3 DEF ReadAs
  <2>5. Blank \in Records
    BY MoteAssumption DEF Blank, Records, AnyPacket, NoPacket
  <2>6. rbuf'.packet = d /\ rbuf' \in Buffers
    BY <1>t, <2>1, <2>3, <2>4, <2>5 DEF Buffers
  <2>7. d = Blank \/ \E x \in Volumes, p \in Places : cells[x][p] \notin {Erased, Garbage} /\ d = cells[x][p]
    BY <2>2, <2>3, <2>4, <2>f
  <2> QED BY <2>3, <2>4, <2>6, <2>7
<1>12. Types'
  <2>1. tasks' \in Seq(TaskNames)
    BY <1>t, <1>7, QueueKeeps
  <2>2. ~ok => rbuf' \in Buffers
    BY <1>t, <1>2 DEF Buffers
  <2> QED BY <1>t, <1>1, <1>3, <1>11, <2>1, <2>2 DEF Types
<1>13. Buffered'
  <2>1. CASE ok
    <3>1. rbuf'.packet = Blank \/ Genuine(rbuf.packet)'
      BY <1>1, <1>11, <2>1 DEF Genuine, Record
    <3>2. /\ wbuf.busy => Genuine(wbuf.packet)'
          /\ \A x \in Volumes, p \in Places : cells[x][p] \in {Erased, Garbage} \/ Genuine(cells[x][p])'
      BY <1>t, <1>1, <1>4 DEF Buffered, Genuine, Record
    <3> QED BY <1>1, <1>4, <3>1, <3>2 DEF Buffered, Blank
  <2>2. CASE ~ok
    <3>1. rbuf'.packet = rbuf.packet /\ ("RETRANSMIT" \in pending' => "RETRANSMIT" \in pending)
      BY <1>t, <1>2, <2>2 DEF Buffers, RetryLater
    <3>2. Queued("none", {}) /\ "retransmit" \notin {}
      BY <1>7, <2>2
    <3> QED BY <1>1, <1>4, <3>1, <3>2, BuffersQuiet
  <2> QED BY <2>1, <2>2
<1>14. ~ok => rbuf'.packet = rbuf.packet
  BY <1>t, <1>2 DEF Buffers
<1> QED BY <1>8, <1>9, <1>10, <1>11, <1>12, <1>13, <1>14 DEF MoteInv

-----------------------------------------------------------------------------
(* The log is erased.                                                       *)

\* While an erasure is posted the log has nothing of the connection.
LEMMA NothingLogged ==
  ASSUME MoteInv, ~Mute, In(tasks, "eraseLogger")
  PROVE  InLog = 0 /\ wbuf.busy = FALSE /\ \A v \in Volumes : op[v].kind # "write"
<1>1. conn.tid \in Tids \cup {0} /\ wbuf.busy \in BOOLEAN
  BY DEF MoteInv, Types, Connections, Buffers
<1>2. conn.tid # 0 => sent[conn.tid] = <<>>
  BY <1>1 DEF MoteInv, Heard
<1>3. wbuf.busy = FALSE
  BY <1>1, <1>2 DEF MoteInv, Owner, Mute
<1>4. InLog = 0
  <2>1. Len(<<>>) = 0
    OBVIOUS
  <2> QED BY <1>2, <1>3, <2>1 DEF InLog
<1>5. \A v \in Volumes : op[v].kind # "write"
  BY <1>3 DEF MoteInv, Flash
<1> QED BY <1>3, <1>4, <1>5

\* The log is at its first place.
LEMMA StandsAtFirst ==
  ASSUME InLog = 0, b.currVol = 0, b.nextIndex = 0
  PROVE  Standing
<1>1. InLog + 1 = 1 /\ 1 .. InLog = {}
  OBVIOUS
<1> QED BY <1>1, LogPlaces DEF Standing

LEMMA EraseLoggerKeeps == ASSUME MoteInv, EraseLogger PROVE MoteInv'
<1>t. /\ Types /\ Waited /\ Stage /\ LogTypes /\ Flash /\ Owner /\ Aligned /\ tasks \in Seq(TaskNames)
      /\ 0 \in Volumes /\ 1 \in Volumes
  BY DEF MoteInv, Types, Volumes
<1>1. /\ UNCHANGED <<conn, sending, air, heard, wbuf, rbuf, psd, elem, list, retry, current, runs, sent, left>>
      /\ Runs("eraseLogger") /\ tasks' = Tail(tasks)
      /\ pending' = pending \/ pending' = pending \cup {"WRITE"}
      /\ \E ok \in BOOLEAN : Erase(ok)
  BY DEF EraseLogger, connVars, radioVars, bufVars, appVars, RetryLater
<1>2. Queued("eraseLogger", {}) /\ {} \subseteq Ordinary \cup {"retransmit"} /\ "retransmit" \notin {}
      /\ "eraseLogger" # "transmit" /\ "eraseLogger" # "retransmit"
  BY <1>t, <1>1, TurnQueued
<1>3. In(tasks, "eraseLogger")
  <2>1. tasks # <<>> /\ tasks[1] = "eraseLogger" /\ 1 \in DOMAIN tasks
    BY <1>t, <1>1, TailIs DEF Runs
  <2> QED BY <2>1 DEF In
<1>4. Types'
  <2>1. tasks' \in Seq(TaskNames)
    BY <1>t, <1>2, QueueKeeps
  <2> QED BY <1>t, <1>1, <2>1 DEF Types
<1>5. Stage' /\ Waited'
  BY <1>t, <1>1, SameStage, SameWaited
<1>6. Radio' /\ SynOnAir' /\ Unborn' /\ Heard' /\ Owner'
  BY <1>1, <1>2, AppQuiet
<1>7. cells' = cells
  BY <1>1 DEF Erase, logVars
<1>8. Buffered'
  <2>1. "RETRANSMIT" \in pending' => "RETRANSMIT" \in pending
    BY <1>1
  <2> QED BY <1>1, <1>2, <1>7, <2>1, BuffersQuiet
<1>9. Mute' = Mute /\ InLog' = InLog
  BY <1>t, <1>1, SameOwner
<1>10. ~Mute => InLog = 0 /\ \A v \in Volumes : op[v].kind # "write"
  BY <1>3, NothingLogged
<1>11. CASE m_state # "IDLE" /\ UNCHANGED logVars
  <2>1. b' = b /\ m_state' = m_state /\ op' = op
    BY <1>11 DEF logVars
  <2>2. LogTypes' /\ Flash'
    BY <1>t, <1>1, <1>7, <2>1, SameLog
  <2>3. ~Mute => b.currVol = 0 /\ b.nextIndex = 0
    BY <1>t, <1>11 DEF LogTypes, Flash, Booting, Erasing, Aligned
  <2>4. ~Mute => Standing
    BY <1>10, <2>3, StandsAtFirst
  <2>5. Standing => Standing'
    BY <1>1, <1>7, <1>9, <2>1 DEF Standing, Record
  <2>6. Aligned'
    BY <1>t, <1>9, <2>1, <2>4, <2>5 DEF Aligned
  <2> QED BY <1>4, <1>5, <1>6, <1>8, <2>2, <2>6 DEF MoteInv
<1>12. CASE /\ m_state = "IDLE" /\ m_state' = "ERASE_VOL"
            /\ b' = [b EXCEPT !.ready = FALSE, !.currVol = 0, !.nextIndex = 0]
            /\ \E ok \in BOOLEAN : Start(0, Erasure, ok)
  <2>1. /\ op' = [x \in Volumes |-> op'[x]]
        /\ \A x \in Volumes : op'[x] = op[x] \/ (x = 0 /\ op[x] = Rest /\ op'[x] = Erasure)
    BY <1>t, <1>12 DEF LogTypes, Start
  <2>2. /\ b' \in [ready : BOOLEAN, currVol : Volumes, dirty : SUBSET Volumes, nextIndex : Places]
        /\ b'.ready = FALSE /\ b'.currVol = 0 /\ b'.nextIndex = 0 /\ b'.dirty = b.dirty
    <3>1. 0 \in Places /\ FALSE \in BOOLEAN
      BY LoggerAssumption, SeqnoAssumption DEF Places
    <3> QED BY <1>t, <1>12, <3>1 DEF LogTypes
  <2>3. InUse
    BY <1>t, <1>12 DEF Flash
  <2>4. \A x \in Volumes : /\ op'[x].kind = "write" => op[x].kind = "write"
                           /\ op'[x].kind = "read" => op[x].kind = "read" /\ op'[x] = op[x]
    BY <2>1 DEF Erasure
  <2>5. LogTypes'
    <3>1. Writing' = Writing /\ \A s : Reading(s)' = Reading(s)
      BY <1>1 DEF Writing, Reading
    <3>2. \A x \in Volumes : \/ op'[x] \in {Rest, Erasure, Writing'}
                             \/ op'[x].kind = "read" /\ op'[x] = Reading(op'[x].seqno)
      BY <1>t, <2>1, <3>1 DEF LogTypes
    <3> QED BY <1>t, <1>7, <1>12, <2>1, <2>2, <3>2 DEF LogTypes, Reading
  <2>6. Erasing'
    <3>1. op'[1] = Erasure => op[1] = Erasure
      BY <1>t, <2>1
    <3>2. op[1] = Erasure => 0 \in b.dirty /\ op[0].kind # "write"
      BY <1>t, <2>3 DEF InUse
    <3> QED BY <1>t, <2>2, <2>4, <3>1, <3>2 DEF Erasing
  <2>7. Flash'
    <3>1. \A x \in Volumes : op'[x].kind = "write" =>
            wbuf.busy /\ x \notin b.dirty /\ cells[x][Idx(wbuf.packet.seqno)] = Erased
      BY <1>t, <2>4 DEF Flash
    <3>2. op'[0].kind = "write" => op'[1].kind # "write"
      BY <1>t, <2>4 DEF Flash
    <3>3. \A x \in Volumes : op'[x].kind = "read" => x = VolOf(op'[x].seqno)
      BY <1>t, <2>4 DEF Flash
    <3>4. \A x \in Volumes, p \in Places : cells[x][p] # Garbage
      BY <1>t, <1>12 DEF Flash
    <3> QED BY <1>1, <1>7, <1>12, <2>2, <2>6, <3>1, <3>2, <3>3, <3>4 DEF Flash
  <2>8. Aligned'
    <3>1. InLog = 0 /\ b'.currVol = 0 /\ b'.nextIndex = 0 => Standing'
      <4>1. (InLog = 0 /\ b.currVol = 0 /\ b.nextIndex = 0)' => Standing'
        BY StandsAtFirst, PTL
      <4> QED BY <1>9, <4>1
    <3> QED BY <1>9, <1>10, <1>12, <2>2, <2>4, <3>1 DEF Aligned
  <2> QED BY <1>4, <1>5, <1>6, <1>8, <2>5, <2>7, <2>8 DEF MoteInv
<1>13. \/ m_state # "IDLE" /\ UNCHANGED logVars
       \/ /\ m_state = "IDLE" /\ m_state' = "ERASE_VOL"
          /\ b' = [b EXCEPT !.ready = FALSE, !.currVol = 0, !.nextIndex = 0]
          /\ \E ok \in BOOLEAN : Start(0, Erasure, ok)
  BY <1>1 DEF Erase
<1> QED BY <1>11, <1>12, <1>13

\* Volume v has been erased.
LEMMA ErasureEnds ==
  ASSUME LogTypes, Flash, Owner, Aligned, NEW v \in Volumes, NEW ev, EraseDone(v, TRUE, ev),
         UNCHANGED <<wbuf, sent, conn, tasks>>, Types
  PROVE  LogTypes' /\ Flash' /\ Aligned' /\ \A x \in Volumes, p \in Places : cells'[x][p] \in {cells[x][p], Erased}
<1> DEFINE whole == ~b.ready \/ m_state = "INIT"
<1>t. 0 \in Volumes /\ 1 \in Volumes /\ \A x \in Volumes : x = 0 \/ x = 1
  BY DEF Volumes
<1>b. /\ b.ready \in BOOLEAN /\ b.currVol \in Volumes /\ b.dirty \subseteq Volumes /\ b.nextIndex \in Places
      /\ m_state \in {"IDLE", "INIT", "ERASE_VOL"}
  BY DEF LogTypes
<1>1. /\ op[v] = Erasure
      /\ b' = [b EXCEPT !.dirty = b.dirty \ {v}, !.ready = b.ready \/ (whole /\ v = 1)]
      /\ cells' = [cells EXCEPT ![v] = [p \in Places |-> Erased]]
      /\ IF whole /\ v = 0 THEN op' = [op EXCEPT ![0] = Rest, ![1] = IF op[1] = Rest THEN Erasure ELSE op[1]]
         ELSE op' = [op EXCEPT ![v] = Rest]
      /\ m_state' = IF whole /\ v = 1 THEN "IDLE" ELSE m_state
  BY DEF EraseDone, Follow, StillDirty
<1>2. /\ b' \in [ready : BOOLEAN, currVol : Volumes, dirty : SUBSET Volumes, nextIndex : Places]
      /\ b'.currVol = b.currVol /\ b'.nextIndex = b.nextIndex /\ b'.dirty = b.dirty \ {v}
      /\ b'.ready <=> b.ready \/ (whole /\ v = 1)
  <2> DEFINE r == b.ready \/ (whole /\ v = 1)
  <2>1. r \in BOOLEAN
    BY <1>b
  <2>2. b' = [b EXCEPT !.dirty = b.dirty \ {v}, !.ready = r]
    BY <1>1
  <2> HIDE DEF r
  <2>3. /\ b' \in [ready : BOOLEAN, currVol : Volumes, dirty : SUBSET Volumes, nextIndex : Places]
        /\ b'.currVol = b.currVol /\ b'.nextIndex = b.nextIndex /\ b'.dirty = b.dirty \ {v}
        /\ b'.ready = r
    BY <2>1, <2>2 DEF LogTypes
  <2> QED BY <2>3 DEF r
<1>3. /\ cells' \in [Volumes -> [Places -> {Erased, Garbage} \cup Records]]
      /\ \A x \in Volumes, p \in Places : cells'[x][p] = IF x = v THEN Erased ELSE cells[x][p]
  BY <1>1 DEF LogTypes
<1>4. /\ op' = [x \in Volumes |-> op'[x]] /\ op'[v] = Rest
      /\ \A x \in Volumes : x # v => \/ op'[x] = op[x]
                                     \/ whole /\ v = 0 /\ x = 1 /\ op[x] = Rest /\ op'[x] = Erasure
      /\ whole /\ v = 0 => op'[1].kind # "none"
  <2>1. op'[v] = Rest /\ op' = [x \in Volumes |-> op'[x]]
    BY <1>1, <1>t DEF LogTypes
  <2>2. \A x \in Volumes : x # v => \/ op'[x] = op[x]
                                    \/ whole /\ v = 0 /\ x = 1 /\ op[x] = Rest /\ op'[x] = Erasure
    BY <1>1, <1>t DEF LogTypes
  <2>3. whole /\ v = 0 => op'[1].kind # "none"
    BY <1>1, <1>t DEF LogTypes, Rest, Erasure, Writing
  <2> QED BY <2>1, <2>2, <2>3
<1> HIDE DEF whole
<1>5. \A x \in Volumes : /\ op'[x].kind = "write" => op[x].kind = "write" /\ x # v /\ op'[x] = op[x]
                         /\ op'[x].kind = "read" => op[x].kind = "read" /\ op'[x] = op[x]
  BY <1>4 DEF Rest, Erasure
<1>6. LogTypes'
  <2>1. Writing' = Writing /\ \A s : Reading(s)' = Reading(s)
    BY DEF Writing, Reading
  <2>2. \A x \in Volumes : \/ op'[x] \in {Rest, Erasure, Writing'}
                           \/ op'[x].kind = "read" /\ op'[x] = Reading(op'[x].seqno)
    BY <1>4, <2>1 DEF LogTypes
  <2> QED BY <1>b, <1>1, <1>2, <1>3, <1>4, <2>2 DEF LogTypes, Reading
<1>7. ASSUME m_state = "INIT" PROVE Flash'
  <2>1. Booting /\ whole
    BY <1>7 DEF Flash, whole
  <2>2. v = 0 => Booting' /\ m_state' = "INIT"
    BY <1>t, <1>1, <1>2, <1>3, <1>4, <1>7, <2>1 DEF Booting, Clean, Rest, Erasure
  <2>3. v = 1 => /\ InUse' /\ m_state' = "IDLE"
                 /\ \A x \in Volumes, p \in Places : cells'[x][p] # Garbage
    <3> SUFFICES ASSUME v = 1 PROVE /\ InUse' /\ m_state' = "IDLE"
                                    /\ \A x \in Volumes, p \in Places : cells'[x][p] # Garbage
      OBVIOUS
    <3>1. op[0] = Rest /\ Clean(0) /\ op'[1] = Rest /\ op'[0] = Rest /\ m_state' = "IDLE"
      BY <1>t, <1>1, <1>4, <2>1 DEF Booting, Rest, Erasure
    <3>2. \A x \in Volumes, p \in Places : cells'[x][p] = Erased
      <4>1. \A p \in Places : cells'[1][p] = Erased
        BY <1>t, <1>3
      <4>2. \A p \in Places : cells'[0][p] = Erased
        BY <1>t, <1>3, <3>1 DEF Clean
      <4> QED BY <1>t, <4>1, <4>2
    <3>3. Erased # Garbage /\ Rest # Erasure /\ Rest.kind # "write"
      BY DEF Erased, Garbage, Rest, Erasure
    <3>4. b'.ready /\ b'.currVol = 0
      BY <1>2, <2>1 DEF Booting
    <3>5. Clean(1)' /\ TailClean'
      BY <1>t, <3>2, <3>4 DEF Clean, TailClean
    <3>6. \A x \in Volumes : op'[x] = Rest
      BY <1>t, <3>1
    <3> QED BY <1>t, <3>1, <3>2, <3>3, <3>4, <3>5, <3>6 DEF InUse
  <2>4. \A x \in Volumes : op'[x].kind \notin {"write", "read"}
    BY <1>5, <1>t, <2>1 DEF Booting, Rest, Erasure
  <2> QED BY <1>t, <2>2, <2>3, <2>4 DEF Flash
<1>8. ASSUME m_state # "INIT" PROVE Flash'
  <2>1. \A x \in Volumes, p \in Places : cells'[x][p] # Garbage
    <3>1. Erased # Garbage
      BY DEF Erased, Garbage
    <3> QED BY <1>3, <1>8, <3>1 DEF Flash
  <2>c. ASSUME m_state' = "ERASE_VOL" => Erasing', m_state' = "IDLE" => InUse' PROVE Flash'
    <3>1. m_state' # "INIT"
      BY <1>1, <1>8
    <3>2. \A x \in Volumes : op'[x].kind = "write" =>
            wbuf.busy /\ x \notin b'.dirty /\ cells'[x][Idx(wbuf.packet.seqno)] = Erased
      <4> SUFFICES ASSUME NEW x \in Volumes, op'[x].kind = "write"
                   PROVE  wbuf.busy /\ x \notin b'.dirty /\ cells'[x][Idx(wbuf.packet.seqno)] = Erased
        OBVIOUS
      <4>1. x # v /\ wbuf.busy /\ x \notin b.dirty /\ cells[x][Idx(wbuf.packet.seqno)] = Erased
        BY <1>5 DEF Flash
      <4>2. cells'[x] = cells[x]
        BY <1>1, <4>1 DEF LogTypes
      <4> QED BY <1>2, <4>1, <4>2
    <3>3. op'[0].kind = "write" => op'[1].kind # "write"
      BY <1>t, <1>5 DEF Flash
    <3>4. \A x \in Volumes : op'[x].kind = "read" => x = VolOf(op'[x].seqno)
      BY <1>5 DEF Flash
    <3> QED BY <2>1, <2>c, <3>1, <3>2, <3>3, <3>4 DEF Flash
  <2>2. CASE m_state = "ERASE_VOL"
    <3>1. Erasing /\ whole
      BY <1>8, <2>2 DEF Flash, Erasing, whole
    <3>2. \A x \in Volumes : op'[x].kind = "write" => b.currVol = 0
      BY <1>5, <3>1 DEF Erasing
    <3>3. v = 0 => Erasing' /\ m_state' = "ERASE_VOL"
      <4> SUFFICES ASSUME v = 0 PROVE Erasing' /\ m_state' = "ERASE_VOL"
        OBVIOUS
      <4>1. op'[0] = Rest /\ Clean(0)' /\ ~b'.ready /\ b'.nextIndex = 0
        BY <1>t, <1>2, <1>3, <1>4, <3>1 DEF Clean, Erasing
      <4>2. m_state' = "ERASE_VOL" /\ Rest # Erasure /\ Rest.kind # "write"
        BY <1>1, <2>2 DEF Rest, Erasure
      <4> QED BY <1>2, <3>2, <4>1, <4>2 DEF Erasing
    <3>4. v = 1 => InUse' /\ m_state' = "IDLE"
      <4> SUFFICES ASSUME v = 1 PROVE InUse' /\ m_state' = "IDLE"
        OBVIOUS
      <4>1. op'[1] = Rest /\ op'[0] = op[0] /\ b'.ready /\ m_state' = "IDLE" /\ op[1] = Erasure
            /\ Clean(1)' /\ (Clean(0) => Clean(0)') /\ b.nextIndex = 0
        BY <1>t, <1>1, <1>2, <1>3, <1>4, <3>1 DEF Clean, Erasing
      <4>2. /\ op[0].kind # "write"
            /\ b.currVol = 0 => 0 \in b.dirty \/ op[0] = Erasure \/ Clean(0)
            /\ b.currVol = 1 => op[0] # Erasure /\ (0 \in b.dirty \/ Clean(0))
        BY <3>1, <4>1 DEF Erasing
      <4>3. \A x \in Volumes : op'[x].kind # "write" /\ (op'[x] = Erasure => x = 0 /\ b.currVol = 0)
        <5>1. op'[1].kind # "write" /\ op'[1] # Erasure
          BY <4>1 DEF Rest, Erasure
        <5>2. op'[0].kind # "write" /\ (op'[0] = Erasure => b.currVol = 0)
          BY <1>t, <1>b, <4>1, <4>2
        <5> QED BY <1>t, <5>1, <5>2
      <4>4. op'[1] # Erasure
        BY <4>1 DEF Rest, Erasure
      <4>5. 1 - b.currVol \in b'.dirty \/ Clean(1 - b.currVol)'
        <5>1. CASE b.currVol = 0
          <6>1. 1 - b.currVol = 1
            BY <5>1
          <6> QED BY <1>2, <4>1, <6>1 DEF Clean
        <5>2. CASE b.currVol = 1
          <6>1. 1 - b.currVol = 0
            BY <5>2
          <6>2. 0 \in b'.dirty \/ Clean(0)'
            BY <1>2, <4>1, <4>2, <5>2
          <6> QED BY <1>2, <6>1, <6>2 DEF Clean
        <5> QED BY <1>t, <1>b, <5>1, <5>2
      <4>6. b.currVol \in b'.dirty \/ op'[b.currVol] = Erasure \/ TailClean'
        <5>1. CASE b.currVol = 0
          <6>1. Clean(0)' => TailClean'
            BY <1>2, <5>1 DEF Clean, TailClean
          <6> QED BY <1>2, <4>1, <4>2, <5>1, <6>1
        <5>2. CASE b.currVol = 1
          BY <1>2, <4>1, <5>2 DEF Clean, TailClean
        <5> QED BY <1>t, <1>b, <5>1, <5>2
      <4> QED BY <1>2, <4>1, <4>3, <4>4, <4>5, <4>6 DEF InUse
    <3> QED BY <1>t, <2>c, <3>3, <3>4
  <2>3. CASE m_state = "IDLE"
    <3>1. InUse /\ ~whole
      BY <1>8, <2>3 DEF Flash, InUse, whole
    <3>2. v = b.currVol /\ b.nextIndex = 0 /\ b.ready /\ m_state' = "IDLE"
      BY <1>1, <2>3, <3>1 DEF InUse
    <3>3. \A x \in Volumes : op'[x].kind # "write" /\ op'[x] # Erasure
      BY <1>4, <1>5, <3>1, <3>2 DEF InUse, Rest, Erasure
    <3>4. 1 - v \in Volumes /\ 1 - v # v
      BY <1>t
    <3>5. 1 - v \in b'.dirty \/ Clean(1 - v)'
      BY <1>2, <1>3, <3>1, <3>2, <3>4 DEF InUse, Clean
    <3>6. TailClean'
      BY <1>2, <1>3, <3>2 DEF TailClean
    <3>7. InUse'
      BY <1>t, <1>2, <3>2, <3>3, <3>5, <3>6 DEF InUse
    <3> QED BY <2>c, <3>2, <3>7
  <2> QED BY <1>8, <1>b, <2>2, <2>3
<1>9. Mute' = Mute /\ InLog' = InLog
  BY SameOwner
<1>10. ~Mute /\ Standing => Standing'
  <2> SUFFICES ASSUME ~Mute, Standing PROVE Standing'
    OBVIOUS
  <2>1. CASE InLog = 0 /\ b.currVol = 0 /\ b.nextIndex = 0
    <3>1. (InLog = 0 /\ b.currVol = 0 /\ b.nextIndex = 0)' => Standing'
      BY StandsAtFirst, PTL
    <3> QED BY <1>2, <1>9, <2>1, <3>1
  <2>2. CASE m_state = "IDLE"
    <3> DEFINE N == InLog
    <3>1. InUse /\ ~whole
      BY <2>2 DEF Flash, InUse, whole
    <3>2. v = b.currVol /\ b.nextIndex = 0 /\ m_state' = "IDLE"
      BY <1>1, <2>2, <3>1 DEF InUse
    <3>3. v = Vol(N + 1) /\ Place(N + 1) = 0
      BY <1>1, <3>2 DEF Standing
    <3>4. N \in Nat
      <4>1. wbuf.busy => sent[conn.tid] # <<>>
        BY DEF Owner, Mute
      <4>2. conn.tid # 0 => sent[conn.tid] \in Seq(OwnPackets)
        BY DEF Types, Connections
      <4> QED BY <4>1, <4>2 DEF InLog
    <3>5. ASSUME NEW n \in 1 .. N, n + TR_FLASH_PKTS_PER_CON > N
          PROVE  cells'[Vol(n)][Place(n)] = Record(conn.tid, n)'
      <4>1. cells[Vol(n)][Place(n)] = Record(conn.tid, n)
        BY <3>5 DEF Standing
      <4> HIDE DEF N
      <4>2. n \in Nat \ {0} /\ N + 1 \in Nat \ {0} /\ n < N + 1 /\ N + 1 <= n + TR_FLASH_PKTS_PER_CON
        BY <3>4, <3>5, LoggerAssumption
      <4>3. Vol(n) # v /\ Vol(n) \in Volumes /\ Place(n) \in Places
        BY <3>3, <4>2, Apart, PlaceNext
      <4> QED BY <1>3, <4>1, <4>3 DEF Record
    <3>6. b'.currVol = Vol(N + 1) /\ b'.nextIndex = Place(N + 1) /\ InLog' = N
      BY <1>2, <1>9, <3>2, <3>3
    <3> HIDE DEF N
    <3> QED BY <3>2, <3>5, <3>6 DEF Standing
  <2>3. m_state # "IDLE" => InLog = 0 /\ b.nextIndex = 0 /\ b.currVol = 0
    <3>1. m_state # "IDLE" => InLog = 0 /\ b.nextIndex = 0 /\ b.currVol = Vol(InLog + 1)
      BY DEF Standing
    <3>2. InLog = 0 => InLog + 1 = 1
      OBVIOUS
    <3> QED BY <3>1, <3>2, LogPlaces
  <2> QED BY <2>1, <2>2, <2>3
<1>11. Aligned'
  <2>1. m_state' = "ERASE_VOL" => m_state = "ERASE_VOL"
    BY <1>1
  <2> QED BY <1>2, <1>5, <1>9, <1>10, <2>1 DEF Aligned
<1> QED BY <1>3, <1>6, <1>7, <1>8, <1>11

LEMMA LogErasedKeeps ==
  ASSUME MoteInv, LogErased, ~spoiled'
  PROVE  /\ MoteInv'
         /\ \A v \in Volumes, p \in Places : cells'[v][p] \in {cells[v][p], Erased}
<1>t. /\ Types /\ Waited /\ Stage /\ Buffered /\ tasks \in Seq(TaskNames)
  BY DEF MoteInv, Types
<1>1. /\ UNCHANGED <<conn, sending, air, heard, wbuf, rbuf, psd, pending, tasks, elem, list, retry, current, runs, sent>>
  BY DEF LogErased, connVars, radioVars, bufVars, appVars
<1>2. PICK v \in Volumes, ok \in BOOLEAN, ev \in {"none", "initDone", "eraseDone"} :
        EraseDone(v, ok, ev) /\ SpendUnless(ok, "erase") /\ ok = TRUE
  BY DEF LogErased
<1>3. left' \in Budgets
  BY <1>t, <1>2, SpendUnlessKeeps DEF Types
<1>4. /\ LogTypes' /\ Flash' /\ Aligned'
      /\ \A x \in Volumes, p \in Places : cells'[x][p] \in {cells[x][p], Erased}
  BY <1>1, <1>2, <1>3, ErasureEnds DEF MoteInv
<1>5. Queued("none", {}) /\ {} \subseteq Ordinary \cup {"retransmit"} /\ "none" # "transmit"
  BY <1>t, <1>1, NotGrown DEF Queued
<1>6. Radio' /\ SynOnAir' /\ Unborn' /\ Heard' /\ Owner'
  BY <1>1, <1>5, AppQuiet
<1>7. Stage' /\ Waited'
  BY <1>t, <1>1, SameStage, SameWaited
<1>8. Types'
  BY <1>t, <1>1, <1>3 DEF Types
<1>9. Buffered'
  BY <1>t, <1>1, <1>4 DEF Buffered, Genuine, Record, Blank
<1> QED BY <1>4, <1>6, <1>7, <1>8, <1>9 DEF MoteInv

-----------------------------------------------------------------------------
(* Every step, and the properties.                                          *)

LEMMA StutterKeeps == ASSUME MoteInv, UNCHANGED vars PROVE MoteInv'
<1>1. /\ UNCHANGED <<conn, sending, air, heard, logVars, wbuf, rbuf, psd, pending, tasks, elem, list,
                     retry, current, runs, sent, left>>
  BY DEF vars, connVars, radioVars, flashVars, bufVars, appVars
<1>2. Types /\ Stage /\ Waited /\ tasks \in Seq(TaskNames)
  BY DEF MoteInv, Types
<1>3. Queued("none", {}) /\ {} \subseteq Ordinary \cup {"retransmit"} /\ "none" # "transmit"
      /\ "none" # "eraseLogger" /\ "retransmit" \notin {}
  BY <1>1, <1>2, NotGrown DEF Queued
<1>4. Types'
  BY <1>1, <1>2 DEF Types
<1>5. Stage' /\ Waited'
  BY <1>1, <1>2, SameStage, SameWaited
<1> QED BY <1>1, <1>3, <1>4, <1>5, QuietKeeps

LEMMA StepKeeps == ASSUME MoteInv, CidInv, [Next]_vars, ~spoiled' PROVE MoteInv'
<1>1. CASE RunTask
  BY <1>1, SendControlKeeps, TransmitKeeps, PopAndSendKeeps, WriteLoggerKeeps, ReadLoggerKeeps,
     RetransmitKeeps, EraseLoggerKeeps DEF RunTask
<1>2. CASE FlashDone
  BY <1>2, PacketWrittenKeeps, PacketReadKeeps, LogErasedKeeps DEF FlashDone
<1>3. CASE RadioSendDone
  BY <1>3, RadioSendDoneKeeps
<1>4. CASE Receive
  BY <1>4, ReceiveSynAckKeeps, ReceiveFinAckKeeps, ReceiveNackKeeps DEF Receive
<1>5. CASE SubTimerFired
  BY <1>5, SubTimerFiredKeeps
<1>6. CASE RetryTimerFired
  BY <1>6, RetryTimerFiredKeeps
<1>7. CASE Application
  BY <1>7, ConstructKeeps, RunKeeps, TaskDeletedKeeps DEF Application
<1>8. CASE UNCHANGED vars
  BY <1>8, StutterKeeps
<1> QED BY <1>1, <1>2, <1>3, <1>4, <1>5, <1>6, <1>7, <1>8 DEF Next

\* A step that opens no connection and sends nothing new: what it moves between the
\* buffers and the log had its place there.
LEMMA CidQuiet ==
  ASSUME MoteInv, CidInv, conn'.tid \in {conn.tid, 0}, sent' = sent,
         \/ rbuf'.packet \in {rbuf.packet, Blank}
         \/ \E v \in Volumes, p \in Places :
              cells[v][p] \notin {Erased, Garbage} /\ rbuf'.packet = cells[v][p],
         \A v \in Volumes, p \in Places :
           cells'[v][p] \in {cells[v][p], Erased} \/ (wbuf.busy /\ cells'[v][p] = wbuf.packet),
         \A t \in Tids : Live(t)' => Live(t)
  PROVE  CidInv'
<1>1. Types /\ Owner /\ 0 \notin Tids
  BY MoteAssumption DEF MoteInv, Types
<1>2. \A t \in Tids : Live(t)' \/ sent'[t] # <<>> \/ conn'.tid = t => t % U8 \notin {0, U8 - 1}
  BY <1>1 DEF CidInv
<1>3. CASE conn'.tid = 0
  BY <1>2, <1>3 DEF CidInv
<1>4. CASE conn'.tid = conn.tid /\ conn.tid # 0
  <2>1. Cid(conn)' = Cid(conn) /\ \A r : Own(r)' <=> Own(r)
    BY <1>4 DEF Cid, Own, Record
  <2>2. rbuf'.packet.cid = Cid(conn) => Own(rbuf'.packet)
    <3>1. Blank.cid # Cid(conn)
      BY <1>1, CidOfConn DEF Blank
    <3> QED BY <1>4, <3>1 DEF CidInv
  <2>3. \A v \in Volumes, p \in Places :
          cells'[v][p] \notin {Erased, Garbage} /\ cells'[v][p].cid = Cid(conn) => Own(cells'[v][p])
    <3>1. wbuf.busy /\ wbuf.packet.cid = Cid(conn) => Own(wbuf.packet)
      <4> SUFFICES ASSUME wbuf.busy, wbuf.packet.cid = Cid(conn) PROVE Own(wbuf.packet)
        OBVIOUS
      <4>1. sent[conn.tid] # <<>> /\ wbuf.packet = Record(conn.tid, Len(sent[conn.tid]))
        BY <1>1 DEF Owner, Mine
      <4>2. sent[conn.tid] \in Seq(OwnPackets)
        BY <1>1, <1>4 DEF Types, Connections
      <4>3. Len(sent[conn.tid]) \in DOMAIN sent[conn.tid]
        BY <4>1, <4>2
      <4> QED BY <4>1, <4>3 DEF Own
    <3> QED BY <1>4, <3>1 DEF CidInv
  <2>4. \A t \in Tids : Live(t)' /\ t % U8 = Cid(conn) => t = conn.tid
    BY <1>4 DEF CidInv
  <2>5. rbuf'.packet.cid = Cid(conn)' => Own(rbuf.packet)'
    BY <2>1, <2>2
  <2>6. \A v \in Volumes, p \in Places :
          cells'[v][p] \notin {Erased, Garbage} /\ cells'[v][p].cid = Cid(conn)' => Own(cells[v][p])'
    BY <2>1, <2>3
  <2>7. \A t \in Tids : Live(t)' /\ t % U8 = Cid(conn)' => t = conn'.tid
    BY <1>4, <2>1, <2>4
  <2> QED BY <1>2, <2>5, <2>6, <2>7 DEF CidInv
<1> QED BY <1>3, <1>4

\* What closes a connection or ends an element.
LEMMA SuicideCid ==
  ASSUME Types, NEW t \in Tids, Suicide(t)
  PROVE  conn'.tid = conn.tid /\ \A u \in Tids : Live(u)' => Live(u)
BY DEF Suicide, Closed, Live, Types, Connections

LEMMA SignalCid ==
  ASSUME Types, NEW follows, NEW after, SignalSendDone(follows, after)
  PROVE  conn'.tid = conn.tid /\ \A u \in Tids : Live(u)' => Live(u)
<1> DEFINE t == current.tid
<1>1. CASE t # 0 /\ Suicide(t)
  <2>1. t \in Tids
    BY <1>1 DEF Types, OwnPackets, NoPacket
  <2> QED BY <1>1, <2>1, SuicideCid
<1>2. CASE /\ conn' = conn
           /\ elem' = [u \in Tids |-> IF u = t /\ elem[u] = "SENDING" THEN "CONNECTED" ELSE elem[u]]
  BY <1>2 DEF Live, Types
<1> QED BY <1>1, <1>2 DEF SignalSendDone

\* The cids stay apart.
LEMMA ConstructCid ==
  ASSUME MoteInv, CidInv, NEW t \in Tids, Construct(t), ~spoiled'
  PROVE  CidInv'
<1>t. /\ Types /\ Stage /\ Unborn /\ conn \in Connections /\ elem \in [Tids -> Elements] /\ 0 \notin Tids
  BY MoteAssumption DEF MoteInv, Types
<1>1. /\ UNCHANGED <<rbuf, sent, cells>> /\ elem[t] = "new"
      /\ conn' = IF conn.state = "IDLE" THEN [conn EXCEPT !.state = "SYN_SEND", !.tid = t] ELSE conn
      /\ elem' = [elem EXCEPT ![t] = IF conn.state = "IDLE" /\ t % U8 # U8 - 1 THEN "OPEN_WAIT" ELSE "refused"]
      /\ conn.state = "IDLE" => ~Ambiguous(t % U8)
  BY DEF Construct, flashVars, logVars, bufVars
<1>2. CASE conn.state # "IDLE"
  <2>1. conn' = conn /\ \A u \in Tids : Live(u)' => Live(u)
    BY <1>t, <1>1, <1>2 DEF Live
  <2> QED BY <1>1, <2>1, CidQuiet
<1>3. CASE conn.state = "IDLE"
  <2> DEFINE c == t % U8
  <2>1. conn'.tid = t /\ Cid(conn)' = c /\ conn.tid = 0
    BY <1>t, <1>1, <1>3 DEF Connections, Cid, Stage
  <2>2. \A u \in Tids : Live(u)' => u = t \/ Live(u)
    BY <1>t, <1>1 DEF Live
  <2>3. /\ c \notin {0, U8 - 1} /\ (\A u \in Tids : Live(u) => u % U8 # c) /\ rbuf.packet.cid # c
        /\ \A v \in Volumes, p \in Places : cells[v][p] \notin {Erased, Garbage} => cells[v][p].cid # c
    BY <1>1, <1>3 DEF Ambiguous
  <2> HIDE DEF c
  <2>4. \A u \in Tids : Live(u)' \/ sent'[u] # <<>> \/ conn'.tid = u => u % U8 \notin {0, U8 - 1}
    BY <1>1, <2>1, <2>2, <2>3 DEF CidInv, c
  <2>5. \A u \in Tids : Live(u)' /\ u % U8 = Cid(conn)' => u = conn'.tid
    BY <2>1, <2>2, <2>3
  <2> QED BY <1>1, <2>1, <2>3, <2>4, <2>5 DEF CidInv
<1> QED BY <1>2, <1>3

LEMMA PopAndSendCid == ASSUME MoteInv, CidInv, PopAndSend PROVE CidInv'
<1>t. /\ Types /\ Stage /\ conn \in Connections /\ elem \in [Tids -> Elements] /\ 0 \notin Tids
      /\ sent \in [Tids -> Seq(OwnPackets)] /\ list \in Seq(OwnPackets)
  BY MoteAssumption DEF MoteInv, Types
<1>1. rbuf' = rbuf /\ cells' = cells
  BY DEF PopAndSend, flashVars, logVars
<1>2. CASE UNCHANGED <<conn, sent, elem>>
  <2>1. \A t \in Tids : Live(t)' => Live(t)
    BY <1>2 DEF Live
  <2> QED BY <1>1, <1>2, <2>1, CidQuiet
<1>3. CASE \E p \in OwnPackets : MaySend(p) /\ Send(p, TRUE) /\ elem' = [elem EXCEPT ![p.tid] = "SENDING"]
  <2>1. PICK p \in OwnPackets : MaySend(p) /\ Send(p, TRUE) /\ elem' = [elem EXCEPT ![p.tid] = "SENDING"]
    BY <1>3
  <2> DEFINE t == conn.tid
  <2>2. t \in Tids /\ elem[p.tid] = "CONNECTED" /\ p.tid \in Tids
    BY <1>t, <2>1 DEF MaySend, Connections, Stage, OwnPackets
  <2>3. conn'.tid = t /\ sent' = [sent EXCEPT ![t] = Append(sent[t], p)]
    BY <1>t, <2>1 DEF Send, Connections
  <2>4. \A u \in Tids : Live(u)' => Live(u)
    BY <1>t, <2>1, <2>2 DEF Live
  <2>5. Cid(conn)' = Cid(conn)
    BY <2>3 DEF Cid
  <2>6. \A u \in Tids : u # t => sent'[u] = sent[u]
    BY <1>t, <2>3
  <2>7. \A n \in DOMAIN sent[t] : n \in DOMAIN sent'[t] /\ sent'[t][n] = sent[t][n]
    <3>1. sent[t] \in Seq(OwnPackets) /\ sent'[t] = Append(sent[t], p)
      BY <1>t, <2>2, <2>3
    <3> QED BY <3>1, AppendIs
  <2> HIDE DEF t
  <2>8. \A r : Own(r) => Own(r)'
    <3> SUFFICES ASSUME NEW r, Own(r) PROVE Own(r)'
      OBVIOUS
    <3>1. PICK n \in DOMAIN sent[t] : r = Record(t, n)
      BY DEF Own, t
    <3>2. n \in DOMAIN sent'[conn'.tid] /\ r = Record(conn.tid, n)'
      BY <2>3, <2>7, <3>1 DEF Record
    <3> QED BY <3>2 DEF Own
  <2>9. \A u \in Tids : Live(u)' \/ sent'[u] # <<>> \/ conn'.tid = u => u % U8 \notin {0, U8 - 1}
    BY <2>3, <2>4, <2>6 DEF CidInv, t
  <2>10. conn.tid # 0
    BY <1>t, <2>2 DEF t
  <2>11. rbuf'.packet.cid = Cid(conn)' => Own(rbuf.packet)'
    BY <1>1, <2>5, <2>8, <2>10 DEF CidInv
  <2>12. \A v \in Volumes, q \in Places :
           cells'[v][q] \notin {Erased, Garbage} /\ cells'[v][q].cid = Cid(conn)' => Own(cells[v][q])'
    BY <1>1, <2>5, <2>8, <2>10 DEF CidInv
  <2>13. \A u \in Tids : Live(u)' /\ u % U8 = Cid(conn)' => u = conn'.tid
    BY <2>3, <2>4, <2>5, <2>10 DEF CidInv, t
  <2> QED BY <2>9, <2>11, <2>12, <2>13 DEF CidInv
<1>4. \/ UNCHANGED <<conn, sent, elem>>
      \/ \E p \in OwnPackets : MaySend(p) /\ Send(p, TRUE) /\ elem' = [elem EXCEPT ![p.tid] = "SENDING"]
  <2> DEFINE p == IF retry # NoPacket THEN retry ELSE Head(list)
  <2>1. retry # NoPacket \/ list # <<>> => p \in OwnPackets
    BY <1>t, HeadTailProperties DEF Types
  <2>2. \/ UNCHANGED <<connVars, sent, appVars>>
        \/ /\ retry # NoPacket \/ list # <<>>
           /\ \/ MaySend(p) /\ Send(p, TRUE) /\ elem' = [elem EXCEPT ![p.tid] = "SENDING"]
              \/ UNCHANGED elem /\ (UNCHANGED <<conn, sent>> \/ Send(p, FALSE))
    BY DEF PopAndSend
  <2> HIDE DEF p
  <2> QED BY <2>1, <2>2 DEF Send, connVars, appVars
<1> QED BY <1>2, <1>3, <1>4

LEMMA CidKeeps == ASSUME MoteInv, CidInv, [Next]_vars, ~spoiled' PROVE CidInv'
<1>t. Types /\ conn \in Connections /\ rbuf \in Buffers /\ Idle.tid = 0
  BY DEF MoteInv, Types, Idle
<1>1. ASSUME conn'.tid \in {conn.tid, 0}, sent' = sent, rbuf'.packet = rbuf.packet, cells' = cells,
             elem' = elem \/ \A t \in Tids : Live(t)' => Live(t)
      PROVE  CidInv'
  <2>1. \A t \in Tids : Live(t)' => Live(t)
    BY <1>1 DEF Live
  <2> QED BY <1>1, <2>1, CidQuiet
<1>2. ASSUME NEW flag \in {"SYN", "FIN"}, SendControl(flag) PROVE CidInv'
  BY <1>t, <1>1, <1>2 DEF SendControl, connVars, flashVars, logVars, bufVars, appVars, Connections
<1>3. CASE TransmitTask \/ WriteLogger \/ EraseLogger
  BY <1>1, <1>3 DEF TransmitTask, WriteLogger, Write, EraseLogger, Erase, connVars, flashVars, logVars,
                    bufVars, appVars
<1>4. CASE ReadLogger \/ Retransmit
  <2>1. rbuf'.packet = rbuf.packet
    BY <1>t, <1>4 DEF ReadLogger, Retransmit, Buffers
  <2> QED BY <1>1, <1>4, <2>1 DEF ReadLogger, Read, Retransmit, connVars, flashVars, logVars, appVars
<1>5. CASE PacketWritten
  <2>1. /\ rbuf' = rbuf /\ sent' = sent
        /\ UNCHANGED <<conn, appVars>> \/ SignalSendDone(TRUE, "readLogger")
    BY <1>5 DEF PacketWritten
  <2>2. conn'.tid = conn.tid /\ \A t \in Tids : Live(t)' => Live(t)
    BY <1>t, <2>1, SignalCid DEF Live, appVars
  <2>3. \A v \in Volumes, p \in Places :
          cells'[v][p] = cells[v][p] \/ (wbuf.busy /\ cells'[v][p] = wbuf.packet)
    BY <1>5, PacketWrittenKeeps
  <2> QED BY <2>1, <2>2, <2>3, CidQuiet
<1>6. CASE PacketRead
  <2>1. conn' = conn /\ sent' = sent /\ cells' = cells /\ elem' = elem
    BY <1>6 DEF PacketRead, ReadDone, connVars, appVars
  <2>2. \A t \in Tids : Live(t)' => Live(t)
    BY <2>1 DEF Live
  <2> QED BY <1>6, <2>1, <2>2, PacketReadKeeps, CidQuiet
<1>7. CASE LogErased
  <2>1. conn' = conn /\ sent' = sent /\ rbuf' = rbuf /\ elem' = elem
    BY <1>7 DEF LogErased, connVars, bufVars, appVars
  <2>2. \A t \in Tids : Live(t)' => Live(t)
    BY <2>1 DEF Live
  <2> QED BY <1>7, <2>1, <2>2, LogErasedKeeps, CidQuiet
<1>8. CASE RadioSendDone
  <2>1. /\ sent' = sent /\ rbuf' = rbuf /\ cells' = cells
        /\ \/ SignalSendDone(FALSE, "")
           \/ UNCHANGED <<conn, appVars>>
           \/ \E s : conn' = [conn EXCEPT !.state = s] /\ UNCHANGED appVars
    BY <1>8 DEF RadioSendDone, flashVars, logVars, bufVars
  <2>2. conn'.tid = conn.tid /\ \A t \in Tids : Live(t)' => Live(t)
    BY <1>t, <2>1, SignalCid DEF Live, appVars, Connections
  <2> QED BY <1>1, <2>1, <2>2
<1>9. CASE Receive
  <2>1. CASE ReceiveSynAck
    <3>1. \A t \in Tids : Live(t)' => Live(t)
      BY <2>1 DEF ReceiveSynAck, SignalOpenDone, Live
    <3> QED BY <1>t, <1>1, <2>1, <3>1 DEF ReceiveSynAck, flashVars, logVars, bufVars, Connections
  <2>2. CASE ReceiveFinAck \/ ReceiveNack
    BY <1>t, <1>1, <2>2 DEF ReceiveFinAck, ReceiveNack, EndConnection, flashVars, logVars, appVars
  <2> QED BY <1>9, <2>1, <2>2 DEF Receive
<1>10. CASE SubTimerFired
  <2>1. /\ sent' = sent /\ rbuf' = rbuf /\ cells' = cells
        /\ conn' \in {conn, Retried, Idle}
        /\ UNCHANGED appVars \/ SignalOpenDone(Cid(conn), FALSE)
    BY <1>10 DEF SubTimerFired, EndConnection, flashVars, logVars
  <2>2. conn'.tid \in {conn.tid, 0}
    BY <1>t, <2>1 DEF Retried, Connections
  <2>3. \A t \in Tids : Live(t)' => Live(t)
    BY <2>1 DEF SignalOpenDone, Live, appVars
  <2> QED BY <1>1, <2>1, <2>2, <2>3
<1>11. CASE RetryTimerFired \/ UNCHANGED vars
  BY <1>1, <1>11 DEF RetryTimerFired, vars, connVars, flashVars, logVars, bufVars, appVars
<1>12. ASSUME NEW t \in Tids, Run(t) PROVE CidInv'
  BY <1>1, <1>12 DEF Run, connVars, flashVars, logVars, bufVars
<1>13. ASSUME NEW t \in Tids, TaskDeleted(t) PROVE CidInv'
  <2>1. conn'.tid = conn.tid /\ \A u \in Tids : Live(u)' => Live(u)
    BY <1>t, <1>13, SuicideCid DEF TaskDeleted
  <2> QED BY <1>1, <1>13, <2>1 DEF TaskDeleted, flashVars, logVars, bufVars
<1> QED BY <1>2, <1>3, <1>4, <1>5, <1>6, <1>7, <1>8, <1>9, <1>10, <1>11, <1>12, <1>13,
           PopAndSendCid, ConstructCid DEF Next, RunTask, FlashDone, Application

\* mybuf is filled only while the flag `sending' is not set, whatever else happens.
LEMMA TransmitBusy ==
  ASSUME RadioBusy, NEW msg, msg.flag # "none", NEW ok \in BOOLEAN, Transmit(msg, ok)
  PROVE  RadioBusy'
<1>1. msg # Nothing
  BY DEF Nothing
<1>2. CASE ok
  BY <1>1, <1>2 DEF RadioBusy, Transmit
<1>3. CASE ~ok
  BY <1>3 DEF RadioBusy, Transmit
<1> QED BY <1>2, <1>3

LEMMA BusyKeeps == ASSUME RadioBusy, [Next]_vars PROVE RadioBusy'
<1>1. ASSUME sending' = sending, air' = air PROVE RadioBusy'
  BY <1>1 DEF RadioBusy
<1>2. ASSUME NEW flag \in {"SYN", "FIN"}, SendControl(flag) PROVE RadioBusy'
  <2> DEFINE msg == [flag |-> flag, tid |-> conn.tid,
                     seqno |-> IF flag = "FIN" THEN NextNumber ELSE 0, data |-> NoPacket]
  <2>1. UNCHANGED radioVars \/ Transmit(msg, TRUE) \/ Transmit(msg, FALSE)
    BY <1>2 DEF SendControl
  <2>2. msg.flag # "none"
    OBVIOUS
  <2> HIDE DEF msg
  <2> QED BY <1>1, <2>1, <2>2, TransmitBusy DEF radioVars
<1>3. CASE PopAndSend
  <2> DEFINE p == IF retry # NoPacket THEN retry ELSE Head(list)
             msg == [flag |-> "DATA", tid |-> conn.tid, seqno |-> NextNumber, data |-> p]
  <2>1. UNCHANGED radioVars \/ Transmit(msg, TRUE) \/ Transmit(msg, FALSE)
    BY <1>3 DEF PopAndSend, Send
  <2>2. msg.flag # "none"
    OBVIOUS
  <2> HIDE DEF msg
  <2> QED BY <1>1, <2>1, <2>2, TransmitBusy DEF radioVars
<1>4. CASE Retransmit
  <2> DEFINE msg == [flag |-> "DATA_RETX", tid |-> conn.tid, seqno |-> rbuf.packet.seqno,
                     data |-> rbuf.packet.data]
  <2>1. UNCHANGED radioVars \/ Transmit(msg, TRUE) \/ Transmit(msg, FALSE)
    BY <1>4 DEF Retransmit
  <2>2. msg.flag # "none"
    OBVIOUS
  <2> HIDE DEF msg
  <2> QED BY <1>1, <2>1, <2>2, TransmitBusy DEF radioVars
<1>5. CASE RadioSendDone
  BY <1>5 DEF RadioSendDone, RadioBusy
<1>6. CASE TransmitTask \/ WriteLogger \/ ReadLogger \/ EraseLogger \/ UNCHANGED vars
  BY <1>1, <1>6 DEF TransmitTask, WriteLogger, ReadLogger, EraseLogger, vars, radioVars
<1>7. CASE FlashDone \/ Receive \/ SubTimerFired \/ RetryTimerFired
  BY <1>1, <1>7 DEF FlashDone, PacketWritten, PacketRead, LogErased, Receive, ReceiveSynAck, ReceiveFinAck,
                    ReceiveNack, SubTimerFired, RetryTimerFired, radioVars
<1>8. CASE Application
  BY <1>1, <1>8 DEF Application, Construct, Run, TaskDeleted, radioVars
<1> QED BY <1>2, <1>3, <1>4, <1>5, <1>6, <1>7, <1>8 DEF Next, RunTask

\* What is spoiled stays so.
LEMMA SpoiledStays == ASSUME spoiled \in BOOLEAN, [Next]_vars PROVE spoiled' \in BOOLEAN /\ (spoiled => spoiled')
<1>1. CASE RunTask
  BY <1>1 DEF RunTask, SendControl, TransmitTask, PopAndSend, WriteLogger, ReadLogger, Retransmit, EraseLogger
<1>2. CASE FlashDone
  BY <1>2 DEF FlashDone, PacketWritten, PacketRead, LogErased
<1>3. CASE RadioSendDone \/ SubTimerFired \/ RetryTimerFired
  BY <1>3 DEF RadioSendDone, SubTimerFired, RetryTimerFired
<1>4. CASE Receive
  BY <1>4 DEF Receive, ReceiveSynAck, ReceiveFinAck, ReceiveNack
<1>5. CASE Application
  <2>1. ASSUME NEW t \in Tids, Construct(t) PROVE spoiled' \in BOOLEAN /\ (spoiled => spoiled')
    <3> DEFINE X == conn.state = "IDLE" /\ Ambiguous(t % U8)
    <3>1. spoiled' = (spoiled \/ X)
      BY <2>1 DEF Construct
    <3> HIDE DEF X
    <3> QED BY <3>1
  <2> QED BY <1>5, <2>1 DEF Application, Run, TaskDeleted
<1>6. CASE UNCHANGED vars
  BY <1>6 DEF vars
<1> QED BY <1>1, <1>2, <1>3, <1>4, <1>5, <1>6 DEF Next

\* The invariant of the mote: mybuf has one owner, and what the queue of tasks, the two
\* buffers, the radio and the log hold belongs together, whatever fails, until an erasure
\* does or a connection begins with a cid that something on the mote has already
\* (StreamTransportM.nc, StrLoggerP.nc, SendSTR.nc).
THEOREM MoteInvHolds == Spec => []Sound
<1>1. Init => Sound
  <2> SUFFICES ASSUME Init PROVE Sound
    OBVIOUS
  <2>1. MoteInv
    BY InitKeeps
  <2>2. RadioBusy
    BY DEF Init, RadioBusy
  <2>3. CidInv
    <3>1. conn.tid = 0 /\ 0 \notin Tids
      BY MoteAssumption DEF Init, Idle
    <3>2. \A t \in Tids : ~Live(t) /\ sent[t] = <<>>
      BY DEF Init, Live
    <3> QED BY <3>1, <3>2 DEF CidInv
  <2> QED BY <2>1, <2>2, <2>3 DEF Sound, Init
<1>2. Sound /\ [Next]_vars => Sound'
  BY StepKeeps, CidKeeps, BusyKeeps, SpoiledStays DEF Sound
<1> QED BY <1>1, <1>2, PTL DEF Spec

LEMMA FoundInLog == ASSUME Sound PROVE LoggedIsFound
<1> SUFFICES ASSUME MoteInv, NEW v \in Volumes, op[v].kind = "read", conn.state = "ACTIVE",
                    NEW n \in 1 .. Len(sent[conn.tid]) - 1, op[v].seqno = SeqOf(n),
                    n + TR_VALID_RANGE >= Len(sent[conn.tid])
             PROVE  cells[v][Idx(op[v].seqno)] =
                      [cid |-> Cid(conn), seqno |-> op[v].seqno, data |-> sent[conn.tid][n]]
  BY DEF LoggedIsFound, Sound
<1> DEFINE t == conn.tid
           N == Len(sent[t])
<1>1. t \in Tids /\ t # 0 /\ sent[t] \in Seq(OwnPackets) /\ N \in Nat
  <2>1. t \in Tids \cup {0} /\ t # 0 /\ sent \in [Tids -> Seq(OwnPackets)]
    BY DEF MoteInv, Types, Connections, Stage
  <2>2. t \in Tids /\ sent[t] \in Seq(OwnPackets)
    BY <2>1
  <2> QED BY <2>1, <2>2
<1>2. sent[t] # <<>>
  BY <1>1
<1>3. ~In(tasks, "eraseLogger") /\ ~Mute
  BY <1>1, <1>2 DEF MoteInv, Heard, Owner
<1>4. Standing
  BY <1>3 DEF MoteInv, Aligned
<1>5. v = Vol(n)
  BY DEF MoteInv, Flash, Vol
<1>6. InLog \in {N - 1, N}
  BY <1>1 DEF InLog
<1>7. cells[Vol(n)][Place(n)] = Record(t, n)
  <2> HIDE DEF N
  <2>1. N = Len(sent[t])
    BY DEF N
  <2>2. n \in 1 .. InLog /\ n + TR_FLASH_PKTS_PER_CON > InLog
    BY <1>1, <1>6, <2>1, LoggerAssumption, SeqnoAssumption
  <2> QED BY <1>4, <2>2 DEF Standing
<1> QED BY <1>5, <1>7 DEF Place, Record, Cid

\* For every log, every ring of numbers and any number of connections one after the
\* other: a read looks where the packet that is asked for was written
\* (StreamTransportM.nc, readLogger, and StrLoggerP.nc, PktLogger.read), as long as the
\* erasures between them succeeded and each had a cid of its own.
THEOREM LoggedIsFoundHolds == Spec => []LoggedIsFound
<1>1. Spec => []Sound
  BY MoteInvHolds
<1>2. Sound => LoggedIsFound
  BY FoundInLog
<1> QED BY <1>1, <1>2, PTL

LEMMA HeldStep == ASSUME RadioBusy, [Next]_vars PROVE BufferIsHeld
<1> SUFFICES ASSUME air # Nothing PROVE air' \in {air, Nothing}
  BY DEF BufferIsHeld
<1>0. sending = TRUE
  BY DEF RadioBusy
<1>1. ASSUME NEW flag \in {"SYN", "FIN"}, SendControl(flag) PROVE air' = air
  BY <1>0, <1>1 DEF SendControl, radioVars, Transmit
<1>2. CASE PopAndSend
  BY <1>0, <1>2 DEF PopAndSend, MaySend, radioVars
<1>3. CASE Retransmit
  BY <1>0, <1>3 DEF Retransmit, radioVars
<1>4. CASE RadioSendDone
  BY <1>4 DEF RadioSendDone
<1>5. CASE TransmitTask \/ WriteLogger \/ ReadLogger \/ EraseLogger
  BY <1>5 DEF TransmitTask, WriteLogger, ReadLogger, EraseLogger, radioVars
<1>6. CASE FlashDone \/ Receive \/ SubTimerFired \/ RetryTimerFired
  BY <1>6 DEF FlashDone, PacketWritten, PacketRead, LogErased, Receive, ReceiveSynAck, ReceiveFinAck,
              ReceiveNack, SubTimerFired, RetryTimerFired, radioVars
<1>7. CASE Application
  BY <1>7 DEF Application, Construct, Run, TaskDeleted, radioVars
<1>8. CASE UNCHANGED vars
  BY <1>8 DEF vars, radioVars
<1> QED BY <1>1, <1>2, <1>3, <1>4, <1>5, <1>6, <1>7, <1>8 DEF Next, RunTask

\* For any number of tasks: mybuf is not written while the routing layer has it
\* (StreamTransportM.nc, the flag `sending'), whatever happens, and a data packet on the
\* air is one its connection sent under that number, first or again from the log, until
\* an erasure fails or a connection begins with a cid that is already on the mote.
THEOREM AirIsGenuineHolds == Spec => AirIsGenuine
<1>1. Spec => []Sound
  BY MoteInvHolds
<1>2. Sound /\ [Next]_vars => BufferIsHeld
  BY HeldStep DEF Sound
<1>3. Sound => (~spoiled => DataIsGenuine)
  BY DEF Sound, MoteInv, Radio
<1>4. Sound' => (~spoiled' => DataIsGenuine')
  BY DEF Sound, MoteInv, Radio
<1>5. Sound /\ Sound' /\ [Next]_vars => [(~spoiled' => DataIsGenuine') /\ BufferIsHeld]_vars
  BY <1>2, <1>4
<1> QED BY <1>1, <1>5, PTL DEF Spec, AirIsGenuine

\* The packet the tasklet waits for, once it is in the log.
LEMMA KeptInLog ==
  ASSUME MoteInv, current # NoPacket, current.tid = conn.tid, wbuf.busy = FALSE
  PROVE  \E v \in Volumes, p \in Places :
           cells[v][p] = [cid |-> Cid(conn), seqno |-> conn.last, data |-> current]
<1> DEFINE t == conn.tid
           N == Len(sent[t])
<1>1. /\ t \in Tids /\ t # 0 /\ sent[t] # <<>> /\ N \in Nat \ {0} /\ current = sent[t][N]
      /\ conn.last = SeqOf(N)
  <2>1. t \in Tids \cup {0} /\ 0 \notin Tids /\ sent \in [Tids -> Seq(OwnPackets)]
        /\ current \in OwnPackets
    BY MoteAssumption DEF MoteInv, Types, Connections
  <2>2. t \in Tids /\ t # 0 /\ sent[t] # <<>> /\ current = sent[t][N]
    BY <2>1 DEF MoteInv, Waited, OwnPackets
  <2>3. N \in Nat \ {0}
    BY <2>1, <2>2
  <2> QED BY <2>2, <2>3 DEF MoteInv, Stage
<1>2. ~In(tasks, "eraseLogger") /\ ~Mute
  BY <1>1 DEF MoteInv, Heard, Mute
<1>3. InLog = N /\ Standing
  BY <1>1, <1>2 DEF MoteInv, Aligned, InLog
<1> HIDE DEF N
<1>4. N \in 1 .. N /\ N + TR_FLASH_PKTS_PER_CON > N
  BY <1>1, LoggerAssumption, SeqnoAssumption
<1>5. cells[Vol(N)][Place(N)] = Record(t, N)
  BY <1>3, <1>4 DEF Standing
<1>6. Vol(N) \in Volumes /\ Place(N) \in Places
  BY <1>1, PlaceNext
<1> QED BY <1>1, <1>5, <1>6 DEF Record, Cid

LEMMA KeptStep ==
  ASSUME MoteInv, [Next]_vars, current # NoPacket, current' = NoPacket
  PROVE  /\ air'.flag # "DATA"
         /\ \E v \in Volumes, p \in Places :
              cells'[v][p] = [cid |-> Cid(conn), seqno |-> conn.last, data |-> current]
<1>1. CASE RadioSendDone
  <2>1. air'.flag # "DATA"
    BY <1>1 DEF RadioSendDone, Nothing
  <2>2. /\ air.flag = "DATA" /\ Valid(air.tid) /\ ~wbuf.busy /\ cells' = cells
    BY <1>1 DEF RadioSendDone, Stored, appVars, flashVars, logVars
  <2>3. current.tid = conn.tid /\ wbuf.busy = FALSE
    BY <2>2 DEF MoteInv, Waited, Valid, Types, Buffers
  <2> QED BY <2>1, <2>2, <2>3, KeptInLog
<1>2. CASE PacketWritten
  <2>1. PICK v \in Volumes : /\ op[v].kind = "write" /\ WriteDone(v, op[v].data, TRUE)
                             /\ Mine(wbuf.packet) /\ psd
    BY <1>2 DEF PacketWritten, appVars
  <2>2. air' = air /\ air.flag # "DATA" /\ conn.tid = current.tid /\ wbuf.busy
    BY <1>2, <2>1 DEF PacketWritten, radioVars, MoteInv, Waited
  <2> DEFINE t == conn.tid
             N == Len(sent[t])
             i == Idx(wbuf.packet.seqno)
  <2>3. /\ t \in Tids /\ t # 0 /\ sent[t] # <<>> /\ N \in Nat \ {0} /\ wbuf.packet = Record(t, N)
        /\ i = Place(N)
    <3> HIDE DEF t, N
    <3>1. t = conn.tid /\ N = Len(sent[t])
      BY DEF t, N
    <3> QED BY <2>1, <2>2, <3>1, OwnBuffer
  <2>4. i \in Places
    BY <2>3, PlaceNext
  <2>5. conn.last = SeqOf(N) /\ current = sent[t][N]
    BY <2>2, <2>3 DEF MoteInv, Stage, Waited
  <2>6. op[v] = Writing /\ cells[v][i] = Erased
    BY <2>1 DEF MoteInv, LogTypes, Flash, Rest, Erasure
  <2>7. cells' = [cells EXCEPT ![v][i] = wbuf.packet]
    BY <2>1, <2>6 DEF WriteDone, Ended, Writing
  <2>8. cells'[v][i] = wbuf.packet
    BY <2>1, <2>4, <2>7 DEF MoteInv, LogTypes
  <2> HIDE DEF i, N
  <2> QED BY <2>2, <2>3, <2>4, <2>5, <2>8 DEF Record, Cid
<1>3. CASE RunTask
  <2>1. CASE PopAndSend
    BY <2>1 DEF PopAndSend, appVars
  <2>2. CASE ~PopAndSend
    BY <1>3, <2>2 DEF RunTask, SendControl, TransmitTask, WriteLogger, ReadLogger, Retransmit, EraseLogger, appVars
  <2> QED BY <2>1, <2>2
<1>4. CASE PacketRead \/ LogErased \/ Receive \/ SubTimerFired \/ RetryTimerFired
  BY <1>4 DEF PacketRead, LogErased, Receive, ReceiveSynAck, ReceiveFinAck, ReceiveNack, SubTimerFired,
              RetryTimerFired, SignalOpenDone, EndConnection, appVars
<1>5. CASE Application
  BY <1>5 DEF Application, Construct, Run, TaskDeleted
<1>6. CASE UNCHANGED vars
  BY <1>6 DEF vars, appVars
<1> QED BY <1>1, <1>2, <1>3, <1>4, <1>5, <1>6 DEF Next, FlashDone

\* For any number of tasks, whatever the radio, the reads and the writes do: when the
\* tasklet hears sendDone its packet is in the log and off the air (StreamTransportM.nc,
\* RoutingSend.sendDone and PktLogger.writeDone), until an erasure fails or a connection
\* begins with a cid that is already on the mote.
THEOREM SendDoneMeansKeptHolds == Spec => SendDoneMeansKept
<1>1. Spec => []Sound
  BY MoteInvHolds
<1>2. Sound /\ [Next]_vars =>
        [~spoiled /\ current # NoPacket /\ current' = NoPacket =>
           /\ air'.flag # "DATA"
           /\ \E v \in Volumes, p \in Places :
                cells'[v][p] = [cid |-> Cid(conn), seqno |-> conn.last, data |-> current]]_vars
  BY KeptStep DEF Sound
<1> QED BY <1>1, <1>2, PTL DEF Spec, SendDoneMeansKept
=============================================================================
