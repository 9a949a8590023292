------------------------------ MODULE StrMote ------------------------------
(***************************************************************************)
(* The mote's end of the stream transport: the active connection            *)
(* (mote/lib/transport/StreamTransportM.nc, STR_2_CON not defined), the     *)
(* packet log below it (module StrLogger) and the tasklet that uses it      *)
(* (mote/tasklets/SendSTR.nc).                                             *)
(*                                                                         *)
(* Everything runs in TinyOS tasks: a step is one task, one timer or one    *)
(* completion, with all the calls and signals it makes, and posted tasks   *)
(* run in the order they were posted.  A packet is known by the number of  *)
(* the run that made it.  A task opens one connection in its life, to the  *)
(* master that installed it.                                               *)
(***************************************************************************)
EXTENDS StrLogger, Sequences

Sq == INSTANCE SequencesExt

CONSTANTS
  Tids,                \* transaction ids of the tasks that send with SendSTR
  U8,                  \* 2^8: a cid is the low byte of the tid
  STR_RLIST_LEN,       \* packets to recover at a time (10)
  STR_MAX_NUM_RETX,    \* retransmissions of SYN, and FINs (5)
  STR_NACK_MLIST_LEN,  \* packets one NACK may name (5)
  MaxRuns,             \* bound: packets the tasks make in any scenario
  Scenarios            \* bounds: the tasks there are, the packets they make, and
                       \* how often the radio refuses a packet, reports it as not
                       \* sent, a write or read of the flash fails, an erasure
                       \* fails, the master sends a NACK, a task is deleted

ASSUME MoteAssumption ==
  /\ Tids \subseteq Nat \ {0} /\ U8 \in Nat \ {0, 1}
  /\ STR_RLIST_LEN \in Nat \ {0} /\ STR_NACK_MLIST_LEN \in Nat \ {0}
  /\ STR_MAX_NUM_RETX \in Nat \ {0} /\ MaxRuns \in Nat
  /\ Scenarios \subseteq
       [tids : SUBSET Tids, runs : 0 .. MaxRuns, refusals : Nat, errors : Nat,
        flash : Nat, erase : Nat, nacks : Nat, deletions : Nat]

VARIABLES
  conn,      \* AConn[0]: state, tid, lastSentSeqNo, finCnt
  subTimer,  \* SubTimer is running
  sending,   \* the flag of that name
  air,       \* the message the routing layer holds in mybuf, or Nothing
  wbuf,      \* eepromWriteBuf, and writebusy as busy
  rbuf,      \* eepromReadBuf, and readbusy as busy
  psd,       \* psd[0].pending
  eeprom,    \* eepromState
  recover,   \* recoverList, oldest first
  pending,   \* postPendingFlag; RetryTimer runs while it is not empty
  tasks,     \* the scheduler's queue, of the tasks of these modules
  elem,      \* SendSTR: the state of each task's element
  list,      \* SendSTR: m_list
  retry,     \* SendSTR: m_retry_atask
  current,   \* SendSTR: m_sending_atask
  runs,      \* history: packets made so far
  sent,      \* history: what each task's connection accepted, in order
  heard,     \* history: the SYN and FIN packets the master may answer
  spoiled,   \* history: an erasure has failed, or a connection has begun whose cid
             \* something on the mote already had
  left       \* the scenario: its tasks, and what is left of its bounds

connVars == <<conn, subTimer>>
radioVars == <<sending, air, heard>>
flashVars == <<eeprom, logVars>>
bufVars == <<wbuf, rbuf, recover>>
appVars == <<elem, list, retry, current>>
vars == <<connVars, radioVars, flashVars, bufVars, psd, pending, tasks, appVars, runs, sent, spoiled, left>>

Nothing == [flag |-> "none"]
NoPacket == [tid |-> 0, run |-> 0]

Cid(c) == c.tid % U8

\* A mutated form, for AirIsGenuine: the connection is not looked up.
Mut_Mine(packet) == TRUE

\* Whether a buffer's packet is of the connection there is now.
Mine(packet) == packet.cid = Cid(conn)
Idle == [state |-> "IDLE", tid |-> 0, last |-> 0, fin |-> 0]

\* isValidConnection, for the one master of the task.
Valid(tid) == conn.tid > 0 /\ conn.tid = tid

-----------------------------------------------------------------------------
(* TinyOS, and the layers below.                                            *)

\* post, if c: a task already in the queue is not queued again.
PostIf(q, c, t) == IF c /\ ~Sq!Contains(q, t) THEN Append(q, t) ELSE q
Post(q, t) == PostIf(q, TRUE, t)

Runs(t) == tasks # <<>> /\ Head(tasks) = t

Spend(what, n) == left[what] >= n /\ left' = [left EXCEPT ![what] = @ - n]
SpendUnless(ok, what) == Spend(what, IF ok THEN 0 ELSE 1)

Answerable(msg) == {<<msg.flag, msg.tid>>} \cap ({"SYN", "FIN"} \X Tids)

\* RoutingSend.send of mybuf, by the task that runs.  The layer below goes on
\* in a task of its own: neither its sendDone nor an answer of the master comes
\* before the tasks that are in the queue now.
Transmit(msg, ok) ==
  /\ IF ok THEN sending' = TRUE /\ air' = msg ELSE UNCHANGED <<sending, air>>
  /\ UNCHANGED heard
  /\ SpendUnless(ok, "refusals")
HandedDown == Append(Tail(tasks), "transmit")

\* External: that task.  From now on the master may hear the packet.
TransmitTask ==
  /\ Runs("transmit") /\ tasks' = Tail(tasks)
  /\ heard' = heard \cup Answerable(air)
  /\ UNCHANGED <<connVars, sending, air, flashVars, bufVars, psd, pending, appVars, runs, sent, left, spoiled>>

\* startRetryTimer.
RetryLater(flag) == pending' = pending \cup {flag}

-----------------------------------------------------------------------------
(* SendSTR.                                                                 *)

Live(t) == elem[t] \in {"OPEN_WAIT", "CONNECTED", "SENDING"}
Waiting(q, t) == \E i \in DOMAIN q : q[i].tid = t
Without(q, t) ==
  IF Waiting(q, t) THEN Sq!RemoveAt(q, CHOOSE i \in DOMAIN q : q[i].tid = t) ELSE q

\* ConnectionSend.close, which looks at nothing but the cid.
Closed(cid) == IF cid = Cid(conn) THEN [conn EXCEPT !.state = "FIN_SEND"] ELSE conn
Closing(cid) == PostIf(tasks, cid = Cid(conn), "send_FIN")

\* sendSTR_suicide of task t: what is left of it in the tasklet.  A packet it
\* is sending stays in m_sending_atask.
Suicide(t) ==
  /\ elem' = [elem EXCEPT ![t] = "gone"]
  /\ retry' = IF retry.tid = t THEN NoPacket ELSE retry
  /\ list' = Without(list, t)
  /\ conn' = Closed(t % U8)

\* The event ConnectionSend.sendDone, and a post of `after` if that follows.
\* Schedule.next ends the task if the packet was its last one.
SignalSendDone(follows, after) ==
  /\ current' = NoPacket
  /\ LET t == current.tid
     IN  \/ /\ t # 0 /\ elem[t] = "SENDING" /\ retry.tid # t /\ ~Waiting(list, t)
            /\ Suicide(t)
            /\ tasks' = PostIf(Post(Closing(t % U8), "pop_and_send"), follows, after)
         \/ /\ elem' = [u \in Tids |-> IF u = t /\ elem[u] = "SENDING" THEN "CONNECTED" ELSE elem[u]]
            /\ tasks' = PostIf(Post(tasks, "pop_and_send"), follows, after)
            /\ UNCHANGED <<conn, retry, list>>

\* The event ConnectionSend.openDone of connection cid.
SignalOpenDone(cid, ok) ==
  /\ elem' = [t \in Tids |-> IF ok /\ elem[t] = "OPEN_WAIT" /\ t % U8 = cid THEN "CONNECTED" ELSE elem[t]]
  /\ tasks' = Post(tasks, "pop_and_send")
  /\ UNCHANGED <<list, retry, current>>

\* What a connection of cid c would take for its own: the cid is that of no connection
\* or of an erased place, or a task that lives or a packet in a buffer or the log has it.
Ambiguous(c) ==
  \/ c \in {0, U8 - 1}
  \/ \E u \in Tids : Live(u) /\ u % U8 = c
  \/ wbuf.busy /\ wbuf.packet.cid = c
  \/ rbuf.packet.cid = c
  \/ \E v \in Volumes, p \in Places : cells[v][p] \notin {Erased, Garbage} /\ cells[v][p].cid = c

\* Element.construct, with ConnectionSend.open: without a route or memory the
\* task is refused before, and 0xff stands for a refusal.
Construct(t) ==
  /\ elem[t] = "new"
  /\ tasks' = Post(tasks, "send_SYN")
  /\ conn' = IF conn.state = "IDLE" THEN [conn EXCEPT !.state = "SYN_SEND", !.tid = t] ELSE conn
  /\ elem' = [elem EXCEPT ![t] = IF conn.state = "IDLE" /\ t % U8 # U8 - 1 THEN "OPEN_WAIT" ELSE "refused"]
  /\ spoiled' = (spoiled \/ (conn.state = "IDLE" /\ Ambiguous(t % U8)))
  /\ UNCHANGED <<subTimer, radioVars, flashVars, bufVars, psd, pending, list, retry, current,
                 runs, sent, left>>

\* sendSTR_run of a packet of task t; an older one that waits is dropped.
Run(t) ==
  /\ Live(t) /\ Spend("runs", 1)
  /\ runs' = runs + 1
  /\ list' = Append(Without(list, t), [tid |-> t, run |-> runs'])
  /\ tasks' = Post(tasks, "pop_and_send")
  /\ UNCHANGED <<connVars, radioVars, flashVars, bufVars, psd, pending, elem, retry, current,
                 sent, spoiled>>

\* The task is deleted.
TaskDeleted(t) ==
  /\ Live(t) /\ Spend("deletions", 1)
  /\ Suicide(t)
  /\ tasks' = Closing(t % U8)
  /\ UNCHANGED <<subTimer, radioVars, flashVars, bufVars, psd, pending, current, runs, sent, spoiled>>

\* What ConnectionSend.send of packet p asks before it touches a buffer.
MaySend(p) ==
  /\ elem[p.tid] = "CONNECTED"
  /\ p.tid % U8 = Cid(conn) /\ conn.state = "ACTIVE"
  /\ ~sending /\ ~wbuf.busy

NextNumber == tr_seqno_next(conn.last)

\* ConnectionSend.send of packet p: it goes to the air and to eepromWriteBuf.
Send(p, ok) ==
  LET record == [cid |-> Cid(conn), seqno |-> NextNumber, data |-> p]
  IN  /\ Transmit([flag |-> "DATA", tid |-> conn.tid, seqno |-> NextNumber, data |-> p], ok)
      /\ wbuf' = [busy |-> ok, packet |-> record]
      /\ conn' = IF ok THEN [conn EXCEPT !.last = NextNumber] ELSE conn
      /\ sent' = IF ok THEN [sent EXCEPT ![conn.tid] = Append(@, p)] ELSE sent

\* pop_and_send; every packet that waits has data.
PopAndSend ==
  /\ Runs("pop_and_send")
  /\ \/ /\ current # NoPacket \/ (retry = NoPacket /\ list = <<>>)
        /\ tasks' = Tail(tasks)
        /\ UNCHANGED <<connVars, radioVars, wbuf, appVars, sent, left>>
     \/ /\ current = NoPacket /\ (retry # NoPacket \/ list # <<>>)
        /\ LET p == IF retry # NoPacket THEN retry ELSE Head(list)
           IN  /\ list' = IF retry # NoPacket THEN list ELSE Tail(list)
               /\ \/ /\ MaySend(p) /\ Send(p, TRUE)
                     /\ current' = p /\ retry' = NoPacket
                     /\ elem' = [elem EXCEPT ![p.tid] = "SENDING"]
                     /\ tasks' = Post(HandedDown, "writeLogger")
                  \/ /\ IF MaySend(p) THEN Send(p, FALSE) ELSE UNCHANGED <<conn, radioVars, wbuf, sent, left>>
                     /\ retry' = p
                     /\ tasks' = Post(Tail(tasks), "pop_and_send")
                     /\ UNCHANGED <<current, elem>>
        /\ UNCHANGED subTimer
  /\ UNCHANGED <<flashVars, rbuf, recover, psd, pending, runs, spoiled>>

-----------------------------------------------------------------------------
(* StreamTransportM: opening and closing.                                   *)

Control ==
  [SYN |-> [task |-> "send_SYN", before |-> "SYN_SEND", after |-> "SYN_ACK_WAIT"],
   FIN |-> [task |-> "send_FIN", before |-> "FIN_SEND", after |-> "FIN_ACK_WAIT"]]

\* The tasks send_SYN and send_FIN.
SendControl(flag) ==
  LET k == Control[flag]
      msg == [flag |-> flag, tid |-> conn.tid,
              seqno |-> IF flag = "FIN" THEN NextNumber ELSE 0, data |-> NoPacket]
  IN  /\ Runs(k.task)
      /\ \/ /\ conn.state # k.before
            /\ tasks' = Tail(tasks) /\ UNCHANGED <<connVars, radioVars, pending, left>>
         \/ /\ conn.state = k.before /\ sending
            /\ RetryLater(flag)
            /\ tasks' = Tail(tasks) /\ UNCHANGED <<connVars, radioVars, left>>
         \/ /\ conn.state = k.before /\ ~sending
            /\ Transmit(msg, TRUE)
            /\ tasks' = HandedDown
            /\ subTimer' = TRUE
            /\ conn' = [conn EXCEPT !.state = k.after]
            /\ UNCHANGED pending
         \/ /\ conn.state = k.before /\ ~sending
            /\ Transmit(msg, FALSE)
            /\ RetryLater(flag)
            /\ tasks' = Tail(tasks) /\ UNCHANGED connVars
      /\ UNCHANGED <<flashVars, bufVars, psd, appVars, runs, sent, spoiled>>

\* resetConnection and tr_list_clearID, and eraseLogger posted: how a
\* connection ends once its FIN is acknowledged or given up.
EndConnection ==
  /\ conn' = Idle /\ subTimer' = FALSE /\ psd' = FALSE
  /\ recover' = <<>>
  /\ tasks' = Post(tasks, "eraseLogger")

ReceiveSynAck ==
  /\ \E m \in heard : m[1] = "SYN" /\ Valid(m[2])
  /\ conn.state = "SYN_ACK_WAIT"
  /\ conn' = [conn EXCEPT !.state = "ACTIVE", !.last = 0]
  /\ subTimer' = FALSE
  /\ SignalOpenDone(Cid(conn), TRUE)
  /\ UNCHANGED <<radioVars, flashVars, bufVars, psd, pending, runs, sent, left, spoiled>>

ReceiveFinAck ==
  /\ \E m \in heard : m[1] = "FIN" /\ Valid(m[2])
  /\ EndConnection
  /\ UNCHANGED <<radioVars, flashVars, wbuf, rbuf, pending, appVars, runs, sent, left, spoiled>>

\* process_NACK_packet: the numbers up to the first unusable one, as far as the
\* list has room.
Usable(seqno) == tr_seqno_diff(conn.last, seqno) <= TR_VALID_RANGE
UpToUnusable(q) ==
  LET i == Sq!SelectInSeq(q, LAMBDA seqno : ~Usable(seqno))
  IN  IF i = 0 THEN q ELSE SubSeq(q, 1, i - 1)

Insert(q, seqno) == IF Len(q) < STR_RLIST_LEN THEN Post(q, seqno) ELSE q
Recovered(missing) == Sq!FoldLeft(Insert, recover, UpToUnusable(missing))

\* A NACK for packets the connection sent, oldest first.
ReceiveNack ==
  /\ conn.tid # 0 /\ Spend("nacks", 1)
  /\ \E missing \in Sq!BoundedSeq(1 .. Len(sent[conn.tid]), STR_NACK_MLIST_LEN) :
       /\ missing # <<>> /\ \A i \in 2 .. Len(missing) : missing[i - 1] < missing[i]
       /\ recover' = Recovered([i \in DOMAIN missing |-> SeqOf(missing[i])])
  /\ subTimer' = (subTimer \/ conn.state = "FIN_ACK_WAIT")
  /\ tasks' = Post(tasks, "readLogger")
  /\ UNCHANGED <<conn, radioVars, flashVars, wbuf, rbuf, psd, pending, appVars, runs, sent, spoiled>>

\* A mutated form, for OpenAndCloseEnd: retries are not counted.
Mut_Retried == [conn EXCEPT !.state = IF @ = "SYN_ACK_WAIT" THEN "SYN_SEND" ELSE "FIN_SEND"]

\* The connection that tries its SYN or its FIN again.
Retried == IF conn.state = "SYN_ACK_WAIT" THEN [conn EXCEPT !.state = "SYN_SEND", !.last = @ + 1]
           ELSE [conn EXCEPT !.state = "FIN_SEND", !.fin = @ + 1]

\* SubTimer.fired: StateTimerFired.
SubTimerFired ==
  /\ subTimer
  /\ \/ /\ conn.state = "SYN_ACK_WAIT"
        /\ IF conn.last < STR_MAX_NUM_RETX
           THEN /\ conn' = Retried
                /\ tasks' = Post(tasks, "send_SYN")
                /\ UNCHANGED <<psd, appVars>>
           ELSE conn' = Idle /\ psd' = FALSE /\ SignalOpenDone(Cid(conn), FALSE)
        /\ subTimer' = FALSE /\ UNCHANGED recover
     \/ /\ conn.state = "FIN_ACK_WAIT" /\ conn.fin + 1 < STR_MAX_NUM_RETX
        /\ conn' = Retried
        /\ tasks' = Post(tasks, "send_FIN")
        /\ subTimer' = FALSE /\ UNCHANGED <<recover, psd, appVars>>
     \/ /\ conn.state = "FIN_ACK_WAIT" /\ conn.fin + 1 >= STR_MAX_NUM_RETX
        /\ EndConnection
        /\ UNCHANGED appVars
     \/ /\ conn.state \notin {"SYN_ACK_WAIT", "FIN_ACK_WAIT"}
        /\ subTimer' = FALSE /\ UNCHANGED <<conn, tasks, recover, psd, appVars>>
  /\ UNCHANGED <<radioVars, flashVars, wbuf, rbuf, pending, runs, sent, left, spoiled>>

\* A mutated form, for SendIsAnswered: one flag is not looked at.
Mut_RetryWrite(q) == q

\* RetryTimer.fired posts the tasks whose flags are set, in this order.
RetryWrite(q) == PostIf(q, "WRITE" \in pending, "writeLogger")
RetryRead(q) ==
  PostIf(PostIf(q, "READ" \in pending, "readLogger"), "RETRANSMIT" \in pending, "retransmit")
RetryControl(q) ==
  PostIf(PostIf(q, "SYN" \in pending, "send_SYN"), "FIN" \in pending, "send_FIN")
RetryTimerFired ==
  /\ pending # {}
  /\ tasks' = RetryControl(RetryRead(RetryWrite(tasks)))
  /\ pending' = {}
  /\ UNCHANGED <<connVars, radioVars, flashVars, bufVars, psd, appVars, runs, sent, left, spoiled>>

-----------------------------------------------------------------------------
(* StreamTransportM: the log and the retransmissions.                       *)

WriteLogger ==
  /\ Runs("writeLogger")
  /\ tasks' = Tail(tasks)
  /\ LET wanted == Mine(wbuf.packet) /\ wbuf.busy
     IN  \/ ~wanted /\ UNCHANGED <<flashVars, pending>>
         \/ /\ wanted /\ eeprom = "IDLE" /\ Write(wbuf.packet, TRUE)
            /\ eeprom' = "BUSY" /\ UNCHANGED pending
         \/ /\ wanted
            /\ IF eeprom = "IDLE" THEN Write(wbuf.packet, FALSE) ELSE UNCHANGED logVars
            /\ RetryLater("WRITE") /\ UNCHANGED eeprom
  /\ UNCHANGED <<connVars, radioVars, bufVars, psd, appVars, runs, sent, left, spoiled>>

\* PktLogger.writeDone.
PacketWritten ==
  /\ \E v \in Volumes, ok \in BOOLEAN :
       /\ op[v].kind = "write"
       /\ WriteDone(v, op[v].data, ok) /\ SpendUnless(ok, "flash")
       /\ eeprom' = "IDLE"
       /\ IF ~Mine(wbuf.packet) THEN UNCHANGED <<wbuf, psd, tasks, conn, appVars>>
          ELSE IF ~ok THEN tasks' = Post(tasks, "writeLogger") /\ UNCHANGED <<wbuf, psd, conn, appVars>>
          ELSE /\ wbuf' = [wbuf EXCEPT !.busy = FALSE]
               /\ psd' = FALSE
               /\ IF psd THEN SignalSendDone(TRUE, "readLogger")
                  ELSE tasks' = Post(tasks, "readLogger") /\ UNCHANGED <<conn, appVars>>
  /\ UNCHANGED <<subTimer, radioVars, rbuf, recover, pending, runs, sent, spoiled>>

ReadLogger ==
  /\ Runs("readLogger")
  /\ \/ /\ rbuf.busy \/ recover = <<>>
        /\ tasks' = Tail(tasks)
        /\ UNCHANGED <<flashVars, rbuf, recover, pending>>
     \/ /\ ~rbuf.busy /\ recover # <<>>
        /\ LET seqno == Head(recover)
               stale == tr_seqno_cmp(conn.last, seqno) < 0 \/ conn.tid = 0
           IN  \/ /\ stale
                  /\ recover' = Tail(recover)
                  /\ tasks' = Post(Tail(tasks), "readLogger")
                  /\ UNCHANGED <<flashVars, rbuf, pending>>
               \/ /\ ~stale /\ eeprom = "IDLE" /\ Read(seqno, TRUE)
                  /\ eeprom' = "BUSY" /\ rbuf' = [rbuf EXCEPT !.busy = TRUE]
                  /\ tasks' = Tail(tasks) /\ UNCHANGED <<recover, pending>>
               \/ /\ ~stale
                  /\ IF eeprom = "IDLE" THEN Read(seqno, FALSE) ELSE UNCHANGED logVars
                  /\ RetryLater("READ")
                  /\ tasks' = Tail(tasks) /\ UNCHANGED <<eeprom, rbuf, recover>>
  /\ UNCHANGED <<connVars, radioVars, wbuf, psd, appVars, runs, sent, left, spoiled>>

\* What eepromReadBuf may hold after a read of seqno that found d: an erased
\* place is all ones, one that was written twice may hold anything.
Blank == [cid |-> U8 - 1, seqno |-> 0, data |-> NoPacket]
ReadAs(seqno, d) ==
  IF d = Erased THEN {Blank}
  ELSE IF d = Garbage THEN {Blank, [cid |-> Cid(conn), seqno |-> seqno, data |-> NoPacket]}
  ELSE {d}

\* PktLogger.readDone; the first of a list that has been cleared is nothing.
PacketRead ==
  /\ \E v \in Volumes, seqno \in Seqno, ok \in BOOLEAN :
       LET found == cells[v][Idx(seqno)]
       IN  /\ ReadDone(v, seqno, found) /\ SpendUnless(ok, "flash")
           /\ IF ok THEN /\ \E d \in ReadAs(seqno, found) : rbuf' = [rbuf EXCEPT !.packet = d]
                         /\ recover' = IF recover = <<>> THEN recover ELSE Tail(recover)
                         /\ tasks' = Post(tasks, "retransmit") /\ UNCHANGED pending
              ELSE /\ rbuf' = [rbuf EXCEPT !.busy = FALSE]
                   /\ RetryLater("READ") /\ UNCHANGED <<recover, tasks>>
  /\ eeprom' = "IDLE"
  /\ UNCHANGED <<connVars, radioVars, wbuf, psd, appVars, runs, sent, spoiled>>

\* retransmitDataPacket.
Retransmit ==
  LET msg == [flag |-> "DATA_RETX", tid |-> conn.tid, seqno |-> rbuf.packet.seqno,
              data |-> rbuf.packet.data]
  IN  /\ Runs("retransmit")
      /\ \/ /\ ~rbuf.busy
            /\ tasks' = Tail(tasks) /\ UNCHANGED <<radioVars, rbuf, pending, left>>
         \/ /\ rbuf.busy /\ sending
            /\ RetryLater("RETRANSMIT")
            /\ tasks' = Tail(tasks) /\ UNCHANGED <<radioVars, rbuf, left>>
         \/ /\ rbuf.busy /\ ~sending /\ ~Mine(rbuf.packet)
            /\ rbuf' = [rbuf EXCEPT !.busy = FALSE]
            /\ tasks' = Tail(tasks) /\ UNCHANGED <<radioVars, pending, left>>
         \/ /\ rbuf.busy /\ ~sending /\ Mine(rbuf.packet) /\ Transmit(msg, TRUE)
            /\ rbuf' = [rbuf EXCEPT !.busy = FALSE]
            /\ tasks' = HandedDown /\ UNCHANGED pending
         \/ /\ rbuf.busy /\ ~sending /\ Mine(rbuf.packet) /\ Transmit(msg, FALSE)
            /\ RetryLater("RETRANSMIT")
            /\ tasks' = Tail(tasks) /\ UNCHANGED rbuf
      /\ UNCHANGED <<connVars, flashVars, wbuf, recover, psd, appVars, runs, sent, spoiled>>

EraseLogger ==
  /\ Runs("eraseLogger")
  /\ tasks' = Tail(tasks)
  /\ \/ Erase(TRUE) /\ eeprom' = "INIT" /\ UNCHANGED pending
     \/ Erase(FALSE) /\ RetryLater("WRITE") /\ UNCHANGED eeprom
  /\ UNCHANGED <<connVars, radioVars, bufVars, psd, appVars, runs, sent, left, spoiled>>

\* PktLogger.initDone and eraseDone.
LogErased ==
  /\ \E v \in Volumes, ok \in BOOLEAN, ev \in {"none", "initDone", "eraseDone"} :
       /\ EraseDone(v, ok, ev) /\ SpendUnless(ok, "erase")
       /\ spoiled' = (spoiled \/ ~ok)
       /\ eeprom' = IF ev = "none" THEN eeprom ELSE "IDLE"
  /\ UNCHANGED <<connVars, radioVars, bufVars, psd, pending, tasks, appVars, runs, sent>>

\* A mutated form, for SendDoneMeansKept: does not wait for the log.
Mut_Stored == TRUE

\* The packet last accepted is in the log.
Stored == ~wbuf.busy

\* A mutated form, for RequestIsServed: the next packet is not looked for.
Mut_AfterRetransmission == UNCHANGED pending

AfterRetransmission == RetryLater("READ")

\* RoutingSend.sendDone.
RadioSendDone ==
  /\ air # Nothing /\ ~Sq!Contains(tasks, "transmit")
  /\ \E ok \in BOOLEAN :
       /\ SpendUnless(ok, "errors")
       /\ \/ /\ air.flag = "DATA" /\ Valid(air.tid) /\ Stored
             /\ psd' = FALSE /\ SignalSendDone(FALSE, "") /\ UNCHANGED pending
          \/ /\ air.flag = "DATA" /\ Valid(air.tid) /\ ~Stored
             /\ psd' = TRUE /\ UNCHANGED <<conn, tasks, appVars, pending>>
          \/ /\ air.flag = "DATA_RETX"
             /\ AfterRetransmission /\ UNCHANGED <<conn, tasks, appVars, psd>>
          \/ /\ air.flag \in {"SYN", "FIN"} /\ Valid(air.tid) /\ ~ok
             /\ conn' = [conn EXCEPT !.state = Control[air.flag].before]
             /\ tasks' = Post(tasks, Control[air.flag].task)
             /\ UNCHANGED <<appVars, psd, pending>>
          \/ /\ air.flag # "DATA_RETX" /\ ~(Valid(air.tid) /\ (air.flag = "DATA" \/ ~ok))
             /\ UNCHANGED <<conn, tasks, appVars, psd, pending>>
  /\ sending' = FALSE /\ air' = Nothing
  /\ UNCHANGED <<heard, subTimer, flashVars, bufVars, runs, sent, spoiled>>

-----------------------------------------------------------------------------
Init ==
  /\ LoggerInit
  /\ conn = Idle /\ subTimer = FALSE
  /\ sending = FALSE /\ air = Nothing
  /\ wbuf = [busy |-> FALSE, packet |-> [cid |-> 0, seqno |-> 0, data |-> NoPacket]] /\ rbuf = wbuf
  /\ psd = FALSE /\ eeprom = "INIT" /\ recover = <<>> /\ pending = {} /\ tasks = <<>>
  /\ left \in Scenarios
  /\ elem = [t \in Tids |-> IF t \in left.tids THEN "new" ELSE "gone"] /\ list = <<>> /\ retry = NoPacket /\ current = NoPacket
  /\ runs = 0 /\ sent = [t \in Tids |-> <<>>] /\ heard = {} /\ spoiled = FALSE

RunTask ==
  \/ \E flag \in {"SYN", "FIN"} : SendControl(flag)
  \/ TransmitTask \/ PopAndSend \/ WriteLogger \/ ReadLogger \/ Retransmit \/ EraseLogger
FlashDone == PacketWritten \/ PacketRead \/ LogErased
Receive == ReceiveSynAck \/ ReceiveFinAck \/ ReceiveNack
Application == \E t \in Tids : Construct(t) \/ Run(t) \/ TaskDeleted(t)

Next == RunTask \/ FlashDone \/ RadioSendDone \/ Receive \/ SubTimerFired \/ RetryTimerFired \/ Application

Spec == Init /\ [][Next]_vars

\* The scheduler runs the tasks it has, timers expire, and the radio and the
\* flash end what they have begun.  Nothing is asked of the application or of
\* the master.
FairSpec ==
  /\ Spec
  /\ WF_vars(RunTask) /\ WF_vars(PacketWritten) /\ WF_vars(PacketRead) /\ WF_vars(LogErased)
  /\ WF_vars(RadioSendDone) /\ WF_vars(SubTimerFired) /\ WF_vars(RetryTimerFired)

-----------------------------------------------------------------------------
\* What a buffer for the log may hold.
Packets == [cid : 0 .. U8 - 1, seqno : Seqno0, data : [tid : Tids \cup {0}, run : 0 .. MaxRuns]]

\* The types, and the lists without duplicates: no packet is recovered twice at
\* a time, and no task has two packets waiting.
TypeOK ==
  /\ LoggerTypeOK
  /\ conn \in [state : {"IDLE", "SYN_SEND", "SYN_ACK_WAIT", "ACTIVE", "FIN_SEND", "FIN_ACK_WAIT"},
               tid : Tids \cup {0}, last : Seqno0, fin : 0 .. STR_MAX_NUM_RETX - 1]
  /\ subTimer \in BOOLEAN /\ sending \in BOOLEAN /\ psd \in BOOLEAN /\ spoiled \in BOOLEAN
  /\ wbuf \in [busy : BOOLEAN, packet : Packets] /\ rbuf \in [busy : BOOLEAN, packet : Packets]
  /\ eeprom \in {"INIT", "IDLE", "BUSY"}
  /\ Sq!ToSet(recover) \subseteq Seqno /\ Len(recover) <= STR_RLIST_LEN
  /\ pending \subseteq {"WRITE", "READ", "RETRANSMIT", "SYN", "FIN"}
  /\ \A i, j \in DOMAIN recover : recover[i] = recover[j] => i = j
  /\ \A i, j \in DOMAIN list : list[i].tid = list[j].tid => i = j

\* mybuf has one owner: what the routing layer holds is not changed before
\* sendDone, although five tasks and events send from that buffer.
BufferIsHeld == air # Nothing => air' \in {air, Nothing}

\* A data packet on the air, sent for the first time or read back from the log,
\* is one the connection accepted under that number.
DataIsGenuine ==
  air.flag \in {"DATA", "DATA_RETX"} =>
    \E n \in DOMAIN sent[air.tid] : air.seqno = SeqOf(n) /\ air.data = sent[air.tid][n]

\* From one send to its sendDone the radio holds one packet, and a genuine one as
\* long as every erasure succeeded and every connection began with a cid of its own.
AirIsGenuine == [][(~spoiled' => DataIsGenuine') /\ BufferIsHeld]_vars

\* When a tasklet hears sendDone, its packet is in the log, from where it can
\* be sent again, and the radio has let go of it, as long as erasures succeeded
\* and connections had cids of their own.
SendDoneMeansKept ==
  [][~spoiled /\ current # NoPacket /\ current' = NoPacket =>
       /\ air'.flag # "DATA"
       /\ \E v \in Volumes, p \in Places :
            cells'[v][p] = [cid |-> Cid(conn), seqno |-> conn.last, data |-> current]]_vars

\* The log is read where the packet asked for was written, the last packet but
\* one or an earlier one that is not too old to be asked for, as long as erasures
\* succeeded and connections had cids of their own.
LoggedIsFound ==
  ~spoiled => \A v \in Volumes :
    op[v].kind = "read" /\ conn.state = "ACTIVE" =>
      \A n \in 1 .. Len(sent[conn.tid]) - 1 :
        op[v].seqno = SeqOf(n) /\ n + TR_VALID_RANGE >= Len(sent[conn.tid])
          => cells[v][Idx(op[v].seqno)] =
               [cid |-> Cid(conn), seqno |-> op[v].seqno, data |-> sent[conn.tid][n]]

\* A packet that was accepted is answered by sendDone, or its task is deleted.
SendIsAnswered ==
  \A t \in Tids : current.tid = t ~> current.tid # t \/ elem[t] = "gone"

\* A connection that is closed is free for the next task before long, whatever
\* the master answers.
ClosedIsFreed == conn.state \in {"FIN_SEND", "FIN_ACK_WAIT"} ~> conn.state = "IDLE"

\* An open is answered, the connection is made or free again.
OpenIsAnswered ==
  conn.state \in {"SYN_SEND", "SYN_ACK_WAIT"} ~> conn.state \notin {"SYN_SEND", "SYN_ACK_WAIT"}

\* Opening and closing come to their end whatever is lost and refused.
OpenAndCloseEnd == OpenIsAnswered /\ ClosedIsFreed

\* What is read is a packet.  retransmitDataPacket does not go on to the next
\* one after anything else.
PacketsAreRead ==
  \A v \in Volumes : op[v].kind = "read" => cells[v][Idx(op[v].seqno)] \notin {Erased, Garbage}

\* Every packet a NACK asks for is taken off the list and read, or found stale.
RequestIsServed == []PacketsAreRead => (recover # <<>> ~> recover = <<>>)

=============================================================================
