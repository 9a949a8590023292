----------------------------- MODULE StrMaster -----------------------------
(***************************************************************************)
(* The master's end of the stream transport                                *)
(* (master/transport/streamtransport.c): the passive connections, the      *)
(* packets they miss, the in-order delivery to the application, the timer  *)
(* poll, and the part of transportmain.c that closes a task.               *)
(*                                                                         *)
(* A data packet is known by its index: the mote's n-th packet carries     *)
(* sequence number SeqOf(n).  Handlers only ever compare the numbers; the  *)
(* index is the payload, and lets the properties tell packets apart after  *)
(* the numbers wrap.  A handler is a function from a connection record to  *)
(* the next one; an action applies it to the connection it is for.         *)
(***************************************************************************)
EXTENDS TrSeqno, FiniteSets

CONSTANTS
  Tids,                \* tasks the clients have disseminated
  Addrs,               \* motes
  STR_NACK_MLIST_LEN,  \* packets one NACK may name (5)
  MAX_TIMEOUT_COUNT,   \* NACK timeouts in a row before giving up (50)
  MaxIndex,            \* bound: packets of one connection
  Gap,                 \* environment: a packet is at most Gap ahead of the last
  Late,                \* environment: or at most Late behind it
  Lag(_)               \* environment: packet n at most Lag(n) ahead of one undelivered

ASSUME MasterAssumption ==
  /\ STR_NACK_MLIST_LEN \in Nat \ {0} /\ MAX_TIMEOUT_COUNT \in Nat \ {0}
  /\ MaxIndex \in Nat /\ Gap \in Nat \ {0} /\ Late \in Nat
  /\ Late + 1 < TR_VALID_RANGE /\ Gap < TR_VALID_RANGE

\* What keeps the comparisons of tr_seqno.c and SPList_insert right: the packets
\* that wait are less than half the ring apart, and from the end of the ring on no
\* packet arrives TR_VALID_RANGE ahead of one that is not delivered.
ASSUME LagAssumption ==
  /\ TR_VALID_RANGE + Gap <= TR_MAX_SEQNO \div 2
  /\ \A n \in 1 .. MaxIndex :
       /\ Lag(n) \in Nat
       /\ n + TR_VALID_RANGE <= TR_MAX_SEQNO \/ Lag(n) < TR_VALID_RANGE

VARIABLES
  strcs,      \* m_strcs: the connection of each <<tid, addr>>, or NoConn
  before,     \* the order of m_strcs: <<j, k>> when j comes before k
  tids,       \* tidlist.c: the state of each task's binding
  replies,    \* packets the last step handed to write_routing_msg
  top,        \* history: index of the newest packet that reached the master
  finAt,      \* history: index the FIN took, 0 before it was seen
  delivered,  \* history: indices handed to receive_streamtransport
  calls       \* history: how often it was called

strVars == <<strcs, before>>
netVars == <<top, finAt>>
appVars == <<delivered, calls>>
vars == <<strcs, before, tids, replies, top, finAt, delivered, calls>>

Keys == Tids \X Addrs
Index == 1 .. MaxIndex + 1          \* the FIN takes one number more

States == {"PASSIVE", "NACK_WAIT", "FIN_NACK_WAIT", "FINISHED"}
Conn == [state : States, last : Seqno0, next : Seqno, missing : SUBSET Seqno,
         plist : SUBSET Index, timeoutCount : 0 .. MAX_TIMEOUT_COUNT,
         deletePending : BOOLEAN, alarm : {"armed", "expired"}]
NoConn == [state |-> "NONE"]

IsOpen(k) == strcs[k] # NoConn

\* Packets to the mote.  The entries of a NACK go out oldest first.
Reply == [flag : {"SYN_ACK", "FIN_ACK"}, key : Keys, seq : Nat, list : {{}}]
           \cup [flag : {"NACK"}, key : Keys, seq : Nat, list : SUBSET Seqno]
SynAck(k) == [flag |-> "SYN_ACK", key |-> k, seq |-> 0, list |-> {}]
FinAck(k, s) == [flag |-> "FIN_ACK", key |-> k, seq |-> s, list |-> {}]
Nack(k, s, l) == [flag |-> "NACK", key |-> k, seq |-> s, list |-> l]

-----------------------------------------------------------------------------
(* The missing list: a set, since entries are appended as they get newer   *)
(* and the order of the list is therefore their age.                       *)

\* j applications of tr_seqno_next to x.
StepsAfter(x, j) == IF x + j > TR_MAX_SEQNO THEN x + j - TR_MAX_SEQNO ELSE x + j

\* A mutated form, for TypeOK: the loop inserts before it advances.
Mut_MissedBefore(s, last) ==
  {StepsAfter(last, j - 1) : j \in
     {j \in 1 .. tr_seqno_diff(s, last) :
        \A i \in 1 .. j : tr_seqno_cmp(s, StepsAfter(last, i)) > 0}}

\* The numbers the loop of detectMissingPacket inserts when s arrives.
MissedBefore(s, last) ==
  {StepsAfter(last, j) : j \in
     {j \in 1 .. tr_seqno_diff(s, last) :
        \A i \in 1 .. j : tr_seqno_cmp(s, StepsAfter(last, i)) > 0}}

NewlyMissed(c, s) ==
  IF tr_seqno_cmp(s, c.last) > 0 THEN MissedBefore(s, c.last) ELSE {}

\* detectMissingPacket and the update of lastRecvSeqNo.
Noticed(c, s) ==
  [c EXCEPT !.missing = @ \cup NewlyMissed(c, s),
            !.last = IF tr_seqno_cmp(s, c.last) > 0 THEN s ELSE @]

Age(c, m) == tr_seqno_diff(c.last, m)
\* A mutated form, for NothingForgotten: gives up two packets too early.
Mut_Void(c) == {m \in c.missing :
                  tr_seqno_cmp(tr_seqno_add(c.last, 2), tr_seqno_add(m, TR_VALID_RANGE)) >= 0}

Void(c) == {m \in c.missing :
              tr_seqno_cmp(c.last, tr_seqno_add(m, TR_VALID_RANGE)) >= 0}
Fresh(c) == c.missing \ Void(c)
\* The entries a scan from the oldest reaches before the NACK is full.
Scanned(c, S) == {m \in S : Cardinality({f \in Fresh(c) : Age(c, f) > Age(c, m)})
                              < STR_NACK_MLIST_LEN}

\* send_NACK: names the oldest fresh entries, deletes the void ones it meets.
NackOf(k, c) == IF c.missing = {} THEN {}
                ELSE {Nack(k, c.last, Scanned(c, Fresh(c)))}
\* A mutated form, for EndingIsDeleted: sending a NACK counts as progress.
Mut_AfterNack(c) == [c EXCEPT !.missing = @ \ Scanned(c, Void(c)), !.timeoutCount = 0]

AfterNack(c) == [c EXCEPT !.missing = @ \ Scanned(c, Void(c))]

\* A mutated form, for MissingIsChased: the state is left as it was.
Mut_Asking(c) == c.state

\* The state of a connection that has just found a gap.
Asking(c) == IF c.state = "PASSIVE" THEN "NACK_WAIT" ELSE c.state

-----------------------------------------------------------------------------
(* The packet list: sorted by SPList_insert, at most one entry per number.  *)

\* A mutated form, for PlistSorted: the commented-out test that ignores the wrap.
Mut_SPBefore(m, n) == SeqOf(m) < SeqOf(n)

SPBefore(m, n) ==
  LET x == SeqOf(m)  y == SeqOf(n)  half == TR_MAX_SEQNO \div 2
  IN  (x < y \/ x > y + half) /\ x + half > y

PList(c, n) ==
  IF /\ tr_seqno_cmp(SeqOf(n), c.next) > 0
     /\ \A m \in c.plist : SeqOf(m) # SeqOf(n)
  THEN c.plist \cup {n} ELSE c.plist

\* A mutated form, for DeliversInOrder: does not wait for the gap to be old.
Mut_Deliver(f, e, s) ==
  tr_seqno_cmp(f, e) = 0 \/ (tr_seqno_cmp(f, e) > 0 /\ tr_seqno_cmp(s, f) > 0)

\* What the loop of receive_str_msg does with the head f of the list, when
\* it expects e and the packet that came in is s.
Deliver(f, e, s) ==
  \/ tr_seqno_cmp(f, e) = 0
  \/ /\ tr_seqno_cmp(f, e) > 0 /\ tr_seqno_cmp(s, f) > 0
     /\ tr_seqno_cmp(s, tr_seqno_add(f, TR_VALID_RANGE)) >= 0
Drop(f, e) == tr_seqno_cmp(f, e) < 0

\* nextExpectedSeqNo once the packets of out have been delivered, from e.
NextAfter(out, e) ==
  LET newest == {n \in out : \A m \in out \ {n} : SPBefore(m, n)}
  IN  IF newest = {} THEN e ELSE tr_seqno_next(SeqOf(CHOOSE n \in newest : TRUE))

\* The sets of packets the loop can take: those up to some entry of the list.
Heads(list) == {T \in SUBSET list : \A n \in T, m \in list \ T : SPBefore(n, m)}

\* The end of that loop: it took the packets of taken off the list and
\* delivered those of out.  Exactly one pair satisfies this.
Drained(list, e, s, taken, out) ==
  LET expected(n) == NextAfter({m \in out : SPBefore(m, n)}, e)
      rest == list \ taken
      stays(n) == ~Deliver(SeqOf(n), NextAfter(out, e), s) /\ ~Drop(SeqOf(n), NextAfter(out, e))
  IN  /\ \A n \in out : Deliver(SeqOf(n), expected(n), s)
      /\ \A n \in taken \ out : Drop(SeqOf(n), expected(n))
      /\ \A n \in rest : (\A m \in rest \ {n} : SPBefore(n, m)) => stays(n)

-----------------------------------------------------------------------------
(* The connection list and the binding of a task.                           *)

NewConn == [state |-> "PASSIVE", last |-> 0, next |-> 1, missing |-> {}, plist |-> {},
            timeoutCount |-> 0, deletePending |-> FALSE, alarm |-> "armed"]

\* streamtransport_tid_is_alive, in the connection table t.
TidAlive(t, tid) ==
  \E a \in Addrs : t[<<tid, a>>] # NoConn /\ t[<<tid, a>>].state # "FINISHED"

\* check_close_done: nothing of the task is left, so CLOSE_ACK goes to the
\* client and the binding is removed.
CheckCloseDone(t, tid) ==
  tids' = [tids EXCEPT ![tid] = IF @ # "NONE" /\ ~TidAlive(t, tid) THEN "NONE" ELSE @]

Unlinked(K) == {p \in before : p[1] \notin K /\ p[2] \notin K}

Restarted(c, state) == [c EXCEPT !.state = state, !.alarm = "armed"]

\* The connection has just gone to FINISHED: report a pending close.
ReportFinish(k, t) ==
  IF t[k].deletePending /\ ~TidAlive(t, k[1]) THEN CheckCloseDone(t, k[1])
  ELSE UNCHANGED tids

Update(k, c, sent) ==
  /\ strcs' = [strcs EXCEPT ![k] = c]
  /\ replies' = sent
  /\ UNCHANGED before

Delete(k) ==
  /\ strcs' = [strcs EXCEPT ![k] = NoConn]
  /\ before' = Unlinked({k})
  /\ replies' = {}

-----------------------------------------------------------------------------
TypeOK ==
  /\ strcs \in [Keys -> Conn \cup {NoConn}]
  /\ before \subseteq Keys \X Keys
  /\ tids \in [Tids -> {"NONE", "TASK", "CLOSE"}]
  /\ replies \subseteq Reply
  /\ top \in [Keys -> 0 .. MaxIndex + 1]
  /\ finAt \in [Keys -> 0 .. MaxIndex + 1]
  /\ delivered \in [Keys -> SUBSET Index]
  /\ calls \in [Keys -> Nat]

Init ==
  /\ strcs = [k \in Keys |-> NoConn]
  /\ before = {}
  /\ tids = [t \in Tids |-> "TASK"]
  /\ replies = {}
  /\ top = [k \in Keys |-> 0]
  /\ finAt = [k \in Keys |-> 0]
  /\ delivered = [k \in Keys |-> {}]
  /\ calls = [k \in Keys |-> 0]

\* SYN.  A mote sends it with sequence number 0 and repeats it until the
\* SYN_ACK arrives; it does not outlive the connection it opened.
ReceiveSYN(k) ==
  /\ ~IsOpen(k) => top[k] = 0
  /\ IF IsOpen(k)
     THEN Update(k, [strcs[k] EXCEPT !.alarm = "armed"], {SynAck(k)})
     ELSE /\ strcs' = [strcs EXCEPT ![k] = NewConn]
          /\ before' = before \cup {<<k, j>> : j \in {j \in Keys : IsOpen(j)}}
          /\ replies' = {SynAck(k)}
  /\ UNCHANGED <<tids, netVars, appVars>>

\* FIN for a connection the master does not have: acknowledged all the same.
ReceiveStrayFIN(k) ==
  /\ ~IsOpen(k)
  /\ replies' = {FinAck(k, SeqOf(IF finAt[k] # 0 THEN finAt[k] ELSE top[k] + 1))}
  /\ UNCHANGED <<strVars, tids, netVars, appVars>>

\* FIN with index n.
ReceiveFIN(k, n) ==
  LET c == Noticed(strcs[k], SeqOf(n))
      done == Restarted(c, "FINISHED")
      wait == AfterNack([c EXCEPT !.timeoutCount = 0])
  IN  /\ IsOpen(k)
      /\ IF finAt[k] # 0 THEN n = finAt[k] ELSE n > top[k] /\ n <= top[k] + Gap
      /\ \/ /\ c.missing = {}
            /\ Update(k, done, {FinAck(k, c.last)})
            /\ ReportFinish(k, [strcs EXCEPT ![k] = done])
         \/ /\ c.missing # {}
            /\ Update(k, Restarted(wait, "FIN_NACK_WAIT"), NackOf(k, c))
            /\ UNCHANGED tids
      /\ top' = [top EXCEPT ![k] = n]
      /\ finAt' = [finAt EXCEPT ![k] = n]
      /\ UNCHANGED <<delivered, calls>>

\* The packets that may still arrive: none newer than the FIN.
Arriving(k) == {n \in 1 .. MaxIndex : /\ n <= top[k] + Gap /\ n + Late >= top[k]
                                      /\ finAt[k] # 0 => n < finAt[k]
                                      /\ 1 .. (n - Lag(n)) \subseteq delivered[k]}

\* DATA or DATA_RETX with index n.  The new gaps are noticed, the packet and
\* those that waited for it are delivered, and the gaps left are asked for.
ReceiveData(k, n, retx) ==
  LET old == strcs[k]
      s == SeqOf(n)
      noticed == Noticed(old, s)
      missing == IF retx THEN noticed.missing \ {s} ELSE noticed.missing
      now == tr_seqno_cmp(s, old.next) = 0
      e == IF now THEN tr_seqno_next(old.next) ELSE old.next
      list == PList(old, n)
  IN  /\ IsOpen(k) /\ n \in Arriving(k)
      /\ \E taken \in Heads(list) : \E out \in SUBSET taken :
           /\ Drained(list, e, s, taken, out)
           /\ LET dlv == IF now THEN out \cup {n} ELSE out
                  c == [noticed EXCEPT !.missing = missing, !.timeoutCount = 0,
                                       !.plist = list \ taken, !.next = NextAfter(out, e)]
              IN
              /\ delivered' = [delivered EXCEPT ![k] = @ \cup dlv]
              /\ calls' = [calls EXCEPT ![k] = @ + Cardinality(out) + (IF now THEN 1 ELSE 0)]
              /\ \/ /\ NewlyMissed(old, s) # {}
                    /\ Update(k, Restarted(AfterNack(c), Asking(c)), NackOf(k, c))
                    /\ UNCHANGED tids
                 \/ /\ NewlyMissed(old, s) = {} /\ missing = {} /\ c.state = "FIN_NACK_WAIT"
                    /\ Update(k, Restarted(c, "FINISHED"), {FinAck(k, c.last)})
                    /\ ReportFinish(k, [strcs EXCEPT ![k] = Restarted(c, "FINISHED")])
                 \/ /\ NewlyMissed(old, s) = {} /\ missing = {} /\ c.state = "NACK_WAIT"
                    /\ Update(k, Restarted(c, "PASSIVE"), {})
                    /\ UNCHANGED tids
                 \/ /\ NewlyMissed(old, s) = {}
                    /\ missing # {} \/ c.state \in {"PASSIVE", "FINISHED"}
                    /\ Update(k, c, {})
                    /\ UNCHANGED tids
      /\ top' = [top EXCEPT ![k] = IF n > @ THEN n ELSE @]
      /\ UNCHANGED finAt

-----------------------------------------------------------------------------
(* Timers.  alarm_time passes for one connection at a time; the poll fires  *)
(* the first expired alarm of the list and stops there.                     *)

Expire(k) ==
  /\ IsOpen(k) /\ strcs[k].alarm = "armed"
  /\ strcs' = [strcs EXCEPT ![k].alarm = "expired"]
  /\ UNCHANGED <<before, tids, replies, netVars, appVars>>

Expired(k) == IsOpen(k) /\ strcs[k].alarm = "expired"
FirstExpired(k) == Expired(k) /\ \A j \in Keys \ {k} : Expired(j) => <<k, j>> \in before

\* STR_Timer_fired.  In PASSIVE without a pending close it changes nothing.
TimerFired(k) ==
  LET c == [strcs[k] EXCEPT !.timeoutCount = @ + 1]
  IN
  \/ /\ \/ strcs[k].state = "FINISHED"
        \/ /\ strcs[k].state \in {"NACK_WAIT", "FIN_NACK_WAIT"}
           /\ c.timeoutCount >= MAX_TIMEOUT_COUNT
        \/ strcs[k].state = "PASSIVE" /\ strcs[k].deletePending
     /\ Delete(k)
     /\ UNCHANGED tids
  \/ /\ strcs[k].state \in {"NACK_WAIT", "FIN_NACK_WAIT"} /\ c.timeoutCount < MAX_TIMEOUT_COUNT
     /\ \/ /\ c.missing # {}
           /\ Update(k, Restarted(AfterNack(c), c.state), NackOf(k, c))
           /\ UNCHANGED tids
        \/ /\ c.missing = {} /\ c.state = "NACK_WAIT"
           /\ Update(k, Restarted(c, "PASSIVE"), {})
           /\ UNCHANGED tids
        \/ /\ c.missing = {} /\ c.state = "FIN_NACK_WAIT"
           /\ Update(k, Restarted(c, "FINISHED"), {FinAck(k, c.last)})
           /\ ReportFinish(k, [strcs EXCEPT ![k] = Restarted(c, "FINISHED")])
  \/ /\ strcs[k].state = "PASSIVE" /\ ~strcs[k].deletePending
     /\ replies' = {}
     /\ UNCHANGED <<strVars, tids>>

Poll == /\ \E k \in Keys : FirstExpired(k) /\ TimerFired(k)
        /\ UNCHANGED <<netVars, delivered, calls>>

-----------------------------------------------------------------------------
(* The client of a task.                                                    *)

\* streamtransport_delete_tid, as a function on the connection table.
DeletedTid(tid) ==
  [k \in Keys |-> IF k[1] # tid \/ ~IsOpen(k) THEN strcs[k]
                  ELSE IF strcs[k].state = "FINISHED" THEN NoConn
                  ELSE [strcs[k] EXCEPT !.deletePending = TRUE]]

DeleteTid(tid) ==
  /\ strcs' = DeletedTid(tid)
  /\ before' = Unlinked({k \in Keys : IsOpen(k) /\ DeletedTid(tid)[k] = NoConn})

\* TRANS_TYPE_CLOSE of a task that was disseminated by broadcast.
ClientClose(tid) ==
  /\ tids[tid] # "NONE"
  /\ DeleteTid(tid)
  /\ tids' = [tids EXCEPT ![tid] = IF TidAlive(DeletedTid(tid), tid) THEN "CLOSE" ELSE "NONE"]
  /\ replies' = {}
  /\ UNCHANGED <<netVars, appVars>>

\* The client disconnects: its binding goes, whatever is still open.
ClientGone(tid) ==
  /\ tids[tid] # "NONE"
  /\ DeleteTid(tid)
  /\ tids' = [tids EXCEPT ![tid] = "NONE"]
  /\ replies' = {}
  /\ UNCHANGED <<netVars, appVars>>

-----------------------------------------------------------------------------
Receive(k) ==
  \/ ReceiveSYN(k)
  \/ ReceiveStrayFIN(k)
  \/ \E n \in Index : ReceiveFIN(k, n)
  \/ \E n \in 1 .. MaxIndex, retx \in BOOLEAN : ReceiveData(k, n, retx)

Next ==
  \/ \E k \in Keys : Receive(k) \/ Expire(k)
  \/ Poll
  \/ \E tid \in Tids : ClientClose(tid) \/ ClientGone(tid)

Spec == Init /\ [][Next]_vars

\* Time passes, and main() polls the timers at least every tenth packet.
FairSpec == Spec /\ WF_vars(Poll) /\ \A k \in Keys : WF_vars(Expire(k))

-----------------------------------------------------------------------------
(* Properties                                                               *)

\* What the application is promised: the packets of a stream in order, each
\* once, none skipped before it is TR_VALID_RANGE old (receive_str_msg).
Promise == INSTANCE InOrderStream
             WITH Streams <- Keys, Horizon <- TR_VALID_RANGE, newest <- top, handed <- delivered
DeliversInOrder == Promise!Spec

\* The packet list is in the order the packets were sent, wrapped or not:
\* receive_str_msg only ever looks at its head.
PlistSorted ==
  \A k \in Keys : IsOpen(k) =>
    \A m, n \in strcs[k].plist : m < n <=> SPBefore(m, n)

\* A packet that is neither delivered nor waiting is on the missing list, so
\* that it will be asked for, until it is TR_VALID_RANGE old.
NothingForgotten ==
  \A k \in Keys : IsOpen(k) =>
    \A n \in 1 .. top[k] :
      \/ n \in delivered[k] \cup strcs[k].plist \cup {finAt[k]}
      \/ SeqOf(n) \in strcs[k].missing
      \/ n + TR_VALID_RANGE <= top[k]

\* While something is missing the connection is in a state whose timer sends
\* the NACK again: never PASSIVE, never FINISHED.
MissingIsChased ==
  \A k \in Keys : IsOpen(k) /\ strcs[k].missing # {}
                  => strcs[k].state \in {"NACK_WAIT", "FIN_NACK_WAIT"}

\* A connection before k in the list whose timer, once expired, stays so: idle and not
\* to be deleted.  The poll finds it first and goes no further.
Hidden(k) ==
  \E j \in Keys \ {k} : /\ IsOpen(j) /\ <<j, k>> \in before
                        /\ strcs[j].state = "PASSIVE" /\ ~strcs[j].deletePending

\* Once packets stop coming, every connection that has seen its FIN or is to be deleted
\* goes away, unless the poll does not get to it.
Quiet == <>[][(\E k \in Keys : Expire(k)) \/ Poll \/ \E t \in Tids : ClientClose(t) \/ ClientGone(t)]_vars
Ending(k) == IsOpen(k) /\ (finAt[k] # 0 \/ strcs[k].deletePending)
EndingIsDeleted == Quiet => \A k \in Keys : Ending(k) ~> ~IsOpen(k) \/ Hidden(k)

=============================================================================
