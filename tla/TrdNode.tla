------------------------------ MODULE TrdNode -------------------------------
(***************************************************************************)
(* One TRD node as a master runs it: master/trd/trd_state.c, with its      *)
(* trickle timer (trd_timer.c), its memory of packets (trd_memory.c), the  *)
(* entry points of trd.c and the fragments of trd_fragment.c.              *)
(*                                                                         *)
(* The globals of a node are one record d; a handler is a function of it.  *)
(*   phase, rx   m_state: its bits are a phase and TRD_S_RX                *)
(*   table, mem, ptr, recover, last, fast, seqno, loops, done   m_table,   *)
(*            m_mem and its pointer, m_recoverlist, lastpacket,            *)
(*            m_fast_retx_count, m_seqno, init_loop_cnt, init_done         *)
(*   initAlarm, recoverAlarm   whether the alarm is set                    *)
(*   uptime   units of age since the start                                 *)
(*   pre      the trickle timer: may it fire in its present interval?      *)
(*   frags, next   the task being put together: its fragments so far       *)
(*   out      what the handler sends, in order                             *)
(*   up       history: the fragments handed to trd_fragment.c, of each     *)
(*            origin since it was last forgotten                           *)
(*   whole    history: the tasks handed to the transport                   *)
(*   jumbled  history: a packet of the table gave way to another although  *)
(*            there was an older one                                       *)
(***************************************************************************)
EXTENDS TrdTable

CONSTANTS TRD_FAST_RETX_COUNT, MAX_INIT_LOOPS

NoMeta == [origin |-> 0, seqno |-> TRD_SEQNO_UNKNOWN]
TRD_MEM_NUM_PKTS == TRD_NODE_ENTRIES * TRD_CACHE_ENTRIES_PER_NODE
Phases == {"DISCONNECTED", "INIT_0", "INIT", "INIT_READY", "STEADY", "TX", "FAST_PACKET"}
Starting == {"INIT_0", "INIT", "INIT_READY"}     \* m_state & TRD_S_INIT

\* trd_state_init, trd_memory_init and trd_fragment_init.
Booted == [phase |-> "DISCONNECTED", rx |-> FALSE, table |-> <<>>,
           mem |-> [i \in 0 .. TRD_MEM_NUM_PKTS - 1 |-> NoMeta], ptr |-> 0, recover |-> <<>>,
           last |-> NoMeta, fast |-> 0, seqno |-> TRD_SEQNO_UNKNOWN, loops |-> 0, done |-> FALSE,
           initAlarm |-> TRUE, recoverAlarm |-> FALSE, uptime |-> 0, pre |-> TRUE,
           frags |-> <<>>, out |-> <<>>, up |-> <<>>, whole |-> <<>>, jumbled |-> FALSE]

Meta(p) == [origin |-> p.origin, seqno |-> p.seqno]
Packet(p, age) == [kind |-> "msg", origin |-> p.origin, seqno |-> p.seqno, part |-> p.part, age |-> age]

Sends(d, m) == [d EXCEPT !.out = Append(@, m)]
TimerReset(d) == [d EXCEPT !.pre = TRUE]

\* trd_timer_suppress and trd_timer_processed: no (more) firing in this interval.
TimerOff(d) == [d EXCEPT !.pre = FALSE]

\* The first packet of any kind connects a node to the network.
Connected(d) ==
  IF d.phase = "DISCONNECTED" THEN [d EXCEPT !.phase = "INIT_0", !.initAlarm = TRUE] ELSE d

\* send_summary: a node that starts asks for an answer with num_entries = -1.
SendSummary(d, ignoreOld) ==
  Sends(d, [kind |-> "summary", hello |-> d.phase \in Starting \cup {"DISCONNECTED"},
            metas |-> IF d.phase \in Starting \cup {"DISCONNECTED"} THEN <<>>
                      ELSE Summary(d.table, ignoreOld)])

-----------------------------------------------------------------------------
(* Putting a task together (receive_trd).                                  *)

\* A mutated form, for OnlyWholeTasks: a fragment is appended to whatever is there.
Mut_Assembled(frags, m) == Append(frags, m)

\* The fragments in the buffer after fragment m; <<>> is no buffer.
Assembled(frags, m) ==
  IF m.part.index = 1 THEN <<m>> ELSE IF frags = <<>> THEN <<>> ELSE Append(frags, m)

HandedUp(d, m) ==
  LET f == Assembled(d.frags, Meta(m) @@ [part |-> m.part])
      e == [d EXCEPT !.up = Append(@, Meta(m))]
  IN  IF f # <<>> /\ m.part.index = m.part.tot
      THEN [e EXCEPT !.frags = <<>>, !.whole = Append(@, f)]
      ELSE [e EXCEPT !.frags = f]

-----------------------------------------------------------------------------
(* A packet (trd_state_newMsg).                                            *)

\* trd_table_incrementAge: an origin all of whose packets are old is forgotten.
Older(d) ==
  LET t == TableAged(d.table)
  IN  [d EXCEPT !.table = t,
                !.up = SelectSeq(@, LAMBDA m : HasOrigin(d.table, m.origin) => HasOrigin(t, m.origin))]

\* Memory, table, one rebroadcast of what is not the node's own, and for a while a
\* phase of fast retransmissions.
Stored(d, me, m) ==
  LET e == [d EXCEPT !.last = m,
                     !.mem[d.ptr] = m,
                     !.ptr = (@ + 1) % TRD_MEM_NUM_PKTS,
                     !.table = TableInsert(@, m.origin, [seqno |-> m.seqno, memloc |-> d.ptr,
                                                         age |-> m.age]),
                     !.jumbled = @ \/ ReplacesYounger(CacheOf(d.table, m.origin)),
                     !.pre = TRUE,
                     !.phase = IF d.phase = "STEADY" /\ ~d.rx THEN "FAST_PACKET" ELSE @,
                     !.fast = IF d.phase = "STEADY" /\ ~d.rx THEN TRD_FAST_RETX_COUNT ELSE @]
  IN  IF m.origin = me THEN e ELSE Sends(e, Packet(m, m.age))

\* A node that starts, or that has just given up what it had, hands up only what
\* was sent while it was running, and not long ago.
Signalled(d, me, m, restarted) ==
  LET young == m.age < TRD_AGE_IGNORE_OLD /\ d.uptime + 1 >= m.age
      e == IF d.phase \in Starting \/ restarted
           THEN [d EXCEPT !.phase = IF young THEN "INIT_READY" ELSE @, !.rx = IF young THEN FALSE ELSE @]
           ELSE d
  IN  IF m.origin # me /\ (young \/ (d.phase \notin Starting /\ ~restarted))
      THEN HandedUp(e, m) ELSE e

Accepted(d, me, m, restarted) ==
  With(Stored(d, me, m), LAMBDA e : Signalled(e, me, m, restarted))

Classed(d, me, m, class) ==
  LET cleared == [d EXCEPT !.table = WithoutOrigin(@, m.origin)]
  IN  CASE class \in {"UNKNOWN", "TOO_OLD", "IN_OLD"} -> d
        [] class = "IN_LAST" ->
             IF d.last # NoMeta /\ Meta(d.last) = Meta(m) /\ d.phase # "FAST_PACKET"
             THEN TimerOff(d) ELSE d
        [] class = "NEWER" -> TimerReset(d)
        [] class = "TOO_NEW" ->
             IF IsFull(cleared.table) THEN Older(cleared)
             ELSE Accepted(cleared, me, m, TRUE)
        [] class = "NULL" ->
             IF IsFull(d.table) THEN Older(d) ELSE Accepted(d, me, m, FALSE)
        [] class = "NEXT_NEW" -> Accepted(d, me, m, FALSE)

NewMsg(d, me, m) ==
  With([Connected(d) EXCEPT !.table = Classified(@, m)],
       LAMBDA e : Classed(e, me, m, Class(d.table, m)))

\* trd_state_getNextSeqno.
NextSeqno(d, me) ==
  LET known == LastSeqno(CacheOf(d.table, me))
  IN  trd_seqno_next(IF known = TRD_SEQNO_UNKNOWN THEN d.seqno ELSE known)

\* trd_send: the packet goes out, and is then taken as one received.
Originated(d, me, m) == NewMsg(Sends([d EXCEPT !.seqno = m.seqno], m), me, m)

\* trd_fragment_send of a task with n fragments.
TaskSent(d, me, task, n) ==
  LET Fragment(e, i) == Packet([origin |-> me, seqno |-> NextSeqno(e, me),
                                part |-> [task |-> task, index |-> i, tot |-> n]], 1)
      Sent(e, i) == With(Fragment(e, i), LAMBDA m : Originated(e, me, m))
  IN  FoldLeft(LAMBDA e, i : With(e, LAMBDA f : Sent(f, i)), d, [i \in 1 .. n |-> i])

-----------------------------------------------------------------------------
(* Summaries and requests.                                                 *)

\* What the loop over the entries of a summary decides for one entry: what to ask
\* for, whether to answer with a summary, whether to keep quiet, and the table.
Judged(r, m) ==
  LET t == Classified(r.table, m)
      class == Class(r.table, m)
      Ask(seqno) == IF Len(r.ask) < TRD_NODE_ENTRIES
                    THEN Append(r.ask, [origin |-> m.origin, seqno |-> seqno]) ELSE r.ask
      mine == LastSeqno(CacheOf(t, m.origin))
  IN  CASE class = "IN_LAST" -> [r EXCEPT !.table = t, !.quiet = TRUE]
        [] class \in {"NEXT_NEW", "NEWER"} ->
             [r EXCEPT !.table = t,
                       !.ask = IF TrdAfter(m.seqno, mine) THEN Ask(trd_seqno_next(mine)) ELSE @]
        [] class = "TOO_NEW" ->
             [r EXCEPT !.table = WithoutOrigin(t, m.origin), !.ask = Ask(TRD_SEQNO_OLDEST)]
        [] class \in {"NULL", "UNKNOWN"} -> [r EXCEPT !.table = t, !.ask = Ask(TRD_SEQNO_OLDEST)]
        [] class \in {"IN_OLD", "TOO_OLD"} -> [r EXCEPT !.table = t, !.answer = TRUE]

\* A request, unless one is under way.
Asks(d, ask, from) ==
  IF d.rx THEN d
  ELSE LET e == Sends(d, [kind |-> "request", metas |-> ask,
                          to |-> IF d.phase \in Starting THEN 0 ELSE from])
       IN  IF d.phase \in Starting \cup {"STEADY"} THEN [e EXCEPT !.rx = TRUE, !.pre = TRUE] ELSE e

\* The end of it, with what the loop found in r.
Concluded(d, s, r, from) ==
  LET more == Len(d.table) > Len(s.metas) /\ ~IgnoreSummary(d.table, s.metas)
  IN  IF r.ask # <<>> THEN Asks(d, r.ask, from)
      ELSE IF r.answer \/ more THEN TimerOff(SendSummary(d, TRUE))
      ELSE IF ~r.quiet THEN d
      ELSE IF d.phase = "INIT_READY" /\ ~d.rx /\ d.table # <<>>
      THEN [TimerOff(d) EXCEPT !.phase = "STEADY", !.done = TRUE, !.initAlarm = FALSE]
      ELSE TimerOff(d)

\* trd_state_summaryReceived: hello is num_entries < 0, and then there are no metas.
SummaryReceived(d0, s, from) ==
  LET steady(d) == d.phase = "STEADY" /\ ~d.rx
      Greeted(d) == IF s.hello /\ d.table # <<>> /\ steady(d) THEN SendSummary(d, FALSE) ELSE d
      Found(d) == FoldLeft(LAMBDA r, m : With(r, LAMBDA q : Judged(q, m)),
                           [table |-> d.table, ask |-> <<>>, answer |-> FALSE,
                            quiet |-> ~s.hello /\ s.metas = <<>> /\ d.table = <<>> /\ steady(d)],
                           s.metas)
      Answered(d) == With(Found(d), LAMBDA r : Concluded([d EXCEPT !.table = r.table], s, r, from))
  IN  With(Greeted(Connected(d0)), Answered)

\* A mutated form, for CacheServes: the place is the entry's in the list.
Mut_InMemory(d, m) == d.mem[(m.seqno - 1) % TRD_MEM_NUM_PKTS]

\* trd_memory_read of an entry that is in the table.
InMemory(d, m) == d.mem[EntryOf(d.table, m.origin, m.seqno).memloc]

\* read_memory: one packet of the list is sent again.  Where it is no longer in
\* the table the function returns with phase and alarm as they are.
ReadMemory(d) ==
  IF d.recover = <<>> THEN [d EXCEPT !.recoverAlarm = FALSE]
  ELSE LET m == Head(d.recover)
           e == [d EXCEPT !.recover = Tail(@)]
       IN  IF ~Exists(d.table, m.origin, m.seqno) THEN e
           ELSE LET p == InMemory(d, m)
                    age == IF Exists(d.table, p.origin, p.seqno)
                           THEN EntryOf(d.table, p.origin, p.seqno).age ELSE p.age
                IN  [Sends(e, Packet(p, age)) EXCEPT
                       !.phase = IF e.recover = <<>> /\ @ = "TX" /\ ~d.rx THEN "STEADY" ELSE @,
                       !.recoverAlarm = TRUE]

\* trd_state_requestReceived: the request is read up to an entry that names no packet.
RequestReceived(d, q) ==
  LET From(m) == IF m.seqno = TRD_SEQNO_OLDEST THEN OldestSeqno(CacheOf(d.table, m.origin)) ELSE m.seqno
      Read(i) == \A j \in 1 .. i : From(q.metas[j]) \in TrdNumbers
      Next(l, i) == ListedFrom(d.table, l, q.metas[i].origin, From(q.metas[i]))
      Listed == FoldLeft(LAMBDA l, i : IF Read(i) THEN With(l, LAMBDA x : Next(x, i)) ELSE l,
                         d.recover, [i \in DOMAIN q.metas |-> i])
      Busy(l) == [d EXCEPT !.recover = l,
                           !.phase = IF @ = "STEADY" /\ ~d.rx /\ l # <<>> THEN "TX" ELSE @]
  IN  [With(With(Listed, Busy), ReadMemory) EXCEPT !.recoverAlarm = TRUE]

-----------------------------------------------------------------------------
(* The timers (polling_trd_state_timer).                                   *)

\* A mutated form, for CatchesUp: the wait for what was asked for does not end.
Mut_TimerFired(d) ==
  TimerOff(CASE d.rx -> d
             [] ~d.rx /\ d.phase = "FAST_PACKET" ->
                  Sends([d EXCEPT !.phase = "STEADY"], Packet(d.last, d.last.age))
             [] OTHER -> SendSummary(d, TRUE))

\* trd_timer_fired.
TimerFired(d) ==
  TimerOff(CASE d.rx -> [d EXCEPT !.rx = FALSE]
             [] ~d.rx /\ d.phase = "FAST_PACKET" ->
                  [Sends(d, Packet(d.last, d.last.age)) EXCEPT
                     !.phase = IF d.fast <= 0 THEN "STEADY" ELSE @, !.fast = @ - 1]
             [] ~d.rx /\ d.phase \in Starting \cup {"STEADY", "DISCONNECTED"} -> SendSummary(d, TRUE)
             [] ~d.rx /\ d.phase = "TX" -> d)

\* inittimer_fired.
InitTimerFired(d) ==
  CASE d.rx -> d
    [] ~d.rx /\ d.phase = "DISCONNECTED" ->
         [d EXCEPT !.pre = TRUE, !.loops = IF @ <= MAX_INIT_LOOPS THEN @ + 1 ELSE @,
                   !.phase = IF d.loops >= MAX_INIT_LOOPS THEN "INIT_0" ELSE @]
    [] ~d.rx /\ d.phase = "INIT_0" -> [d EXCEPT !.pre = TRUE, !.phase = "INIT"]
    [] ~d.rx /\ d.phase = "INIT" -> [d EXCEPT !.phase = "INIT_READY"]
    [] ~d.rx /\ d.phase = "INIT_READY" ->
         [d EXCEPT !.phase = "STEADY", !.done = TRUE, !.initAlarm = FALSE]
    [] ~d.rx /\ d.phase \in {"STEADY", "TX", "FAST_PACKET"} -> [d EXCEPT !.initAlarm = FALSE]

\* recovertimer_fired.
RecoverTimerFired(d) == ReadMemory(d)

\* agingtimer_fired, in time.
AgingTimerFired(d) == [Older(d) EXCEPT !.uptime = @ + 1]
=============================================================================
