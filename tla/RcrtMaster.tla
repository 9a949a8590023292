---------------------------- MODULE RcrtMaster -----------------------------
(***************************************************************************)
(* The master's end of the rate-controlled transport                       *)
(* (master/transport/rcrtransport.c): the connections, what they miss, the  *)
(* in-order delivery, the cumulative acknowledgement, the timer poll, the   *)
(* rates of all connections, and the part of transportmain.c that closes a  *)
(* task.  Packets are known by their index, as in StrMaster.                *)
(***************************************************************************)
EXTENDS TrSeqno, RcrtRates

CONSTANTS
  Tids, Addrs,
  RCRT_MAX_ALIVE_TIMEOUT,  \* timeouts before a connection to be deleted goes (5)
  MAX_AHEAD,               \* packets further ahead of the last are ignored (100)
  MaxIndex,                \* bound: packets of one connection
  Losses,                  \* environment: loss estimates, in percent
  Junk,                    \* environment: what malloc leaves in cur_irate
  Budgets                  \* environment: what may happen, one per scenario

Keys == Tids \X Addrs

\* A scenario: packets up to `newest` arrive, at most `gap` ahead of the newest so
\* far, `late` behind it, and lag[n] ahead of one that was not handed up.  `kinds`
\* are those of ReceiveData, `asks` the connections and the intervals they ask for.
Scenario == [newest : 0 .. MaxIndex, gap : Nat, late : Nat, lag : [1 .. MaxIndex -> Nat],
             kinds : SUBSET (BOOLEAN \X BOOLEAN), changes : Nat, closes : SUBSET Tids,
             policy : 1 .. 4, asks : SUBSET [key : Keys, ms : Interval]]

ASSUME RcrtAssumption ==
  /\ RCRT_MAX_ALIVE_TIMEOUT \in Nat \ {0} /\ MAX_AHEAD \in Nat \ {0} /\ MaxIndex \in Nat
  /\ Losses \subseteq 0 .. 99 /\ 0 \in Junk /\ Junk \subseteq Interval
  /\ IsFiniteSet(Tids) /\ IsFiniteSet(Addrs)
  /\ Budgets \subseteq Scenario

\* What keeps the comparisons of tr_seqno.c right: the numbers do not wrap, or the
\* packets that are compared are less than TR_VALID_RANGE apart.
ASSUME LagAssumption ==
  \A b \in Budgets :
    \/ b.newest + 1 + TR_VALID_RANGE <= TR_MAX_SEQNO
    \/ /\ b.gap < TR_VALID_RANGE /\ b.late + 1 < TR_VALID_RANGE /\ 2 < TR_VALID_RANGE
       /\ \A n \in 1 .. b.newest : n + TR_VALID_RANGE <= TR_MAX_SEQNO \/ b.lag[n] < TR_VALID_RANGE

VARIABLES
  rcrtcs,     \* m_rcrtcs, first connection of the list first
  rates,      \* m_N, m_D, m_R, m_slowstart, last_dec_p
  crashed,    \* the daemon followed a null pointer
  tids,       \* tidlist.c: the state of each task's binding
  top,        \* history: index of the newest packet that was looked at
  finAt,      \* history: index the FIN took, 0 before it was seen
  delivered,  \* history: indices handed to receive_rcrtransport
  calls,      \* history: how often it was called
  budget      \* the scenario, and what is left of it

netVars == <<top, finAt>>
appVars == <<delivered, calls>>
vars == <<rcrtcs, rates, crashed, tids, top, finAt, delivered, calls, budget>>

Index == 1 .. MaxIndex + 1
States == {"ACTIVE", "NACK_WAIT", "FIN_RETX_WAIT"}
Conn == [key : Keys, state : States, deletePending : BOOLEAN, recv : BOOLEAN,
         timeoutCount : 0 .. RCRT_MAX_ALIVE_TIMEOUT, last : Seqno0, nextAck : Seqno0,
         next : Seqno, plist : SUBSET Index, missing : SUBSET Seqno,
         req : Interval \ {0}, cur : Interval, alarm : {"off", "armed", "expired"}]

Positions(k) == {i \in DOMAIN rcrtcs : rcrtcs[i].key = k}
IsOpen(k) == Positions(k) # {}
At(k) == CHOOSE i \in Positions(k) : TRUE
ConnOf(k) == rcrtcs[At(k)]
\* rcrtransport_tid_is_alive.
TidAlive(cs, t) == \E i \in DOMAIN cs : cs[i].key[1] = t
Without(cs, i) == SubSeq(cs, 1, i - 1) \o SubSeq(cs, i + 1, Len(cs))

-----------------------------------------------------------------------------
(* What a connection misses, and the feedback that asks for it.             *)

\* A mutated form, for GapsAreChased: the last of them is left out.
Mut_MissedBefore(c, s) == {x \in Seqno : tr_seqno_cmp(x, c.last) > 0
                                         /\ tr_seqno_cmp(s, tr_seqno_next(x)) > 0}

\* r_detectMissingPacket: the numbers between the last one and s.
MissedBefore(c, s) == {x \in Seqno : tr_seqno_cmp(x, c.last) > 0 /\ tr_seqno_cmp(s, x) > 0}

Newer(c, s) == tr_seqno_cmp(s, c.last) > 0
Noticed(c, s) == IF Newer(c, s) THEN [c EXCEPT !.missing = @ \cup MissedBefore(c, s), !.last = s]
                 ELSE c

Void(c) == {m \in c.missing : tr_seqno_cmp(c.last, tr_seqno_add(m, TR_VALID_RANGE)) >= 0}
\* send_FEEDBACK.  The packet says cur, nextAck, and the first ten numbers of
\* missing that are not too old; the scan deletes those it meets, which are the
\* oldest and therefore come first.
AfterFeedback(c) == [c EXCEPT !.missing = @ \ Void(c)]

-----------------------------------------------------------------------------
(* receive_rtr_msg, as a function on the pair of the connection and the     *)
(* packets handed up.                                                       *)

First(c) == CHOOSE n \in c.plist : \A m \in c.plist : tr_seqno_cmp(SeqOf(n), SeqOf(m)) <= 0

\* A mutated form, for DeliversInOrder: a waiting packet is not kept for as long.
Mut_Forced(f, s) == tr_seqno_cmp(s, f) > 0

\* The head of the list is handed up although earlier packets are missing.
Forced(f, s) == /\ tr_seqno_cmp(s, f) > 0
                /\ tr_seqno_cmp(s, tr_seqno_add(f, TR_VALID_RANGE)) >= 0

\* One turn of the loop when packet s came in.
Turn(w, s) ==
  IF w.c.plist = {} THEN w
  ELSE LET n == First(w.c)
           f == SeqOf(n)
           age == tr_seqno_cmp(f, w.c.next)
           rest == [w.c EXCEPT !.plist = @ \ {n}]
       IN  IF age < 0 THEN [w EXCEPT !.c = rest]
           ELSE IF age = 0 \/ Forced(f, s)
           THEN [c |-> [rest EXCEPT !.next = tr_seqno_next(f), !.nextAck = IF age = 0 THEN f ELSE s],
                 out |-> w.out \cup {n}]
           ELSE w

Received(c, n) ==
  LET s == SeqOf(n)
      age == tr_seqno_cmp(s, c.next)
      w0 == IF age = 0 THEN [c |-> [c EXCEPT !.next = tr_seqno_next(s), !.nextAck = s], out |-> {n}]
            ELSE [c |-> IF age < 0 THEN c ELSE [c EXCEPT !.plist = @ \cup {n}], out |-> {}]
      turns[i \in 0 .. Cardinality(c.plist) + 1] ==
        IF i = 0 THEN w0 ELSE With(turns[i - 1], LAMBDA w : Turn(w, s))
  IN  turns[Cardinality(c.plist) + 1]

-----------------------------------------------------------------------------
(* The list, the totals and the binding of a task.                          *)

\* check_close_done, called by rcrtransport_tid_delete_done.
CheckCloseDone(t, cs) == tids' = [tids EXCEPT ![t] = IF @ # "NONE" /\ ~TidAlive(cs, t) THEN "NONE" ELSE @]

\* delete_rcrt_connection of entry i of cs, with the totals g:
\* finish_rcrt_connection looks for other connections of the task while this
\* one is still on the list.
DeleteFrom(cs, g, i) ==
  /\ IF cs[i].deletePending /\ ~TidAlive(cs, cs[i].key[1]) THEN CheckCloseDone(cs[i].key[1], cs)
     ELSE UNCHANGED tids
  /\ rates' = FinishRates(budget.policy, g, cs[i])
  /\ rcrtcs' = Without(cs, i)
DeleteConn(i) == DeleteFrom(rcrtcs, rates, i)

Update(i, c) ==
  /\ rcrtcs' = [rcrtcs EXCEPT ![i] = c]
  /\ UNCHANGED <<rates, tids>>

\* New totals g, shared among the connections of cs.
Share(cs, g, good) ==
  /\ rates' = g
  /\ rcrtcs' = AllocateFairly(budget.policy, cs, g, good)

-----------------------------------------------------------------------------
TypeOK ==
  /\ Len(rcrtcs) <= Cardinality(Keys) /\ \A i \in DOMAIN rcrtcs : rcrtcs[i] \in Conn
  /\ \A i, j \in DOMAIN rcrtcs : i # j => rcrtcs[i].key # rcrtcs[j].key
  /\ rates.N \in Nat /\ rates.D \in Int /\ rates.R \in Int /\ rates.lastp \in 0 .. 100
  /\ crashed \in BOOLEAN
  /\ tids \in [Tids -> {"NONE", "TASK", "CLOSE"}]
  /\ top \in [Keys -> 0 .. MaxIndex + 1] /\ finAt \in [Keys -> 0 .. MaxIndex + 1]
  /\ delivered \in [Keys -> SUBSET Index] /\ calls \in [Keys -> Nat]

Init ==
  /\ budget \in Budgets
  /\ rcrtcs = <<>> /\ rates = NoRates /\ crashed = FALSE
  /\ tids = [t \in Tids |-> "TASK"]
  /\ top = [k \in Keys |-> 0] /\ finAt = [k \in Keys |-> 0]
  /\ delivered = [k \in Keys |-> {}] /\ calls = [k \in Keys |-> 0]

NewConn(k, req, junk) ==
  [key |-> k, state |-> "ACTIVE", deletePending |-> FALSE, recv |-> FALSE, timeoutCount |-> 0,
   last |-> 0, nextAck |-> 0, next |-> 1, plist |-> {}, missing |-> {},
   req |-> req, cur |-> junk, alarm |-> "off"]

\* SYN: the connection joins and the rate is shared anew.  A request of 0 counts
\* as 20 ms.  Sent again, it is only answered again, and so is the FIN of a
\* connection that is not there: neither changes anything.
ReceiveSYN(k) ==
  /\ ~IsOpen(k) /\ top[k] = 0 /\ tids[k[1]] = "TASK"
  /\ \E req \in {IF a.ms = 0 THEN 20 ELSE a.ms : a \in {a \in budget.asks : a.key = k}},
        good \in SUBSET (1 .. Len(rcrtcs) + 1), junk \in Junk :
       /\ budget.policy # RCRT_FAIR_GOODPUT => good = {} /\ junk = 0
       /\ Share(<<NewConn(k, req, junk)>> \o rcrtcs, Joined(rates, req), good)
  /\ UNCHANGED <<crashed, tids, netVars, appVars, budget>>

\* FIN with index n.
ReceiveFIN(k, n) ==
  /\ IsOpen(k)
  /\ IF finAt[k] # 0 THEN n = finAt[k] ELSE n > top[k] /\ n <= top[k] + 2
  /\ LET c == Noticed(ConnOf(k), SeqOf(n))
         wait == [c EXCEPT !.state = "FIN_RETX_WAIT", !.alarm = "armed",
                           !.timeoutCount = IF c.state = "FIN_RETX_WAIT" THEN @ ELSE 0]
     IN  IF c.missing = {} THEN DeleteConn(At(k))
         ELSE Update(At(k), AfterFeedback(wait))
  /\ top' = [top EXCEPT ![k] = n]
  /\ finAt' = [finAt EXCEPT ![k] = n]
  /\ UNCHANGED <<crashed, appVars, budget>>

-----------------------------------------------------------------------------
(* Data.  Whether the congestion level of a connection calls for a lower   *)
(* rate, whether all levels allow a higher one, and whether enough time has *)
(* passed for either are left open.                                         *)

MayDecrease(c) == c.missing # {}
MayIncrease(cs) == \A i \in DOMAIN cs : Cardinality(cs[i].missing) <= 1

\* The new totals that do_rate_control may come to, and which way it went.
Control(cs, c, g) ==
  {<<0, g>>}
    \cup {<<-1, h>> : h \in {Decreased(g, l) : l \in {l \in Losses : MayDecrease(c)}}}
    \cup (IF MayIncrease(cs) THEN {<<1, Increased(g)>>} ELSE {})
\* Neither counts when it leaves R as it was.
Applied(v, g) == v[1] # 0 /\ v[2].R # g.R
Totals(v, g) ==
  IF ~Applied(v, g) THEN v[2]
  ELSE IF v[1] = 1 THEN [v[2] EXCEPT !.lastp = 100] ELSE [v[2] EXCEPT !.slow = FALSE]

\* The connections after that.
Controlled(cs, v, good) ==
  IF Applied(v, rates) THEN AllocateFairly(budget.policy, cs, Totals(v, rates), good) ELSE cs

\* The alarm once a feedback has gone out.
Alarm(c) == IF c.alarm = "off" THEN "armed" ELSE c.alarm

StateAfter(c) == IF c.missing = {} THEN (IF c.state = "NACK_WAIT" THEN "ACTIVE" ELSE c.state)
                 ELSE (IF c.state = "ACTIVE" THEN "NACK_WAIT" ELSE c.state)

\* The connection after packet n, what was handed up, whether the packet was
\* new and whether it showed others to be lost.
Taken(old, n, retx) ==
  LET s == SeqOf(n)
      isNew == tr_seqno_cmp(s, old.next) >= 0 /\ n \notin old.plist
      found == IF retx \/ tr_seqno_cmp(s, old.last) < 0 THEN [old EXCEPT !.missing = @ \ {s}] ELSE old
      seen == [Noticed(found, s) EXCEPT !.recv = @ \/ isNew,
                                        !.timeoutCount = IF isNew THEN 0 ELSE @]
  IN  With(IF isNew THEN Received(seen, n) ELSE [c |-> seen, out |-> {}],
           LAMBDA w : [c |-> [w.c EXCEPT !.state = StateAfter(w.c)], out |-> w.out, isNew |-> isNew,
                       lost |-> Newer(found, s) /\ MissedBefore(found, s) # {}])

\* A packet that is taken.  `asked` is whether one of the other reasons for a
\* feedback applies.
TakeData(k, n, retx, asked) ==
  \E i \in Positions(k) : \E w \in {Taken(rcrtcs[i], n, retx)} :
    /\ delivered' = [delivered EXCEPT ![k] = @ \cup w.out]
    /\ calls' = [calls EXCEPT ![k] = @ + Cardinality(w.out)]
    /\ top' = [top EXCEPT ![k] = IF n > @ THEN n ELSE @]
    /\ \E v \in Control([rcrtcs EXCEPT ![i] = w.c], w.c, rates), good \in SUBSET DOMAIN rcrtcs :
         /\ v[1] # 0 => w.isNew /\ ~retx /\ budget.changes > 0
         /\ (Applied(v, rates) /\ budget.policy = RCRT_FAIR_GOODPUT) \/ good = {}
         /\ budget' = [budget EXCEPT !.changes = IF v[1] # 0 THEN @ - 1 ELSE @]
         /\ \E cs \in {Controlled([rcrtcs EXCEPT ![i] = w.c], v, good)} :
              \/ /\ w.c.missing = {} /\ w.c.state = "FIN_RETX_WAIT"
                 /\ DeleteFrom(cs, Totals(v, rates), i)
              \/ /\ w.c.missing # {} \/ w.c.state # "FIN_RETX_WAIT"
                 /\ rates' = Totals(v, rates)
                 /\ rcrtcs' = IF w.lost \/ (v[1] = -1 /\ Applied(v, rates)) \/ asked
                              THEN [cs EXCEPT ![i] = [AfterFeedback(cs[i]) EXCEPT !.alarm = Alarm(cs[i])]]
                              ELSE cs
                 /\ UNCHANGED tids
    /\ UNCHANGED <<crashed, finAt>>

\* DATA or DATA_RETX with index n.  One too far ahead is not looked at.
ReceiveData(k, n, retx, asked) ==
  /\ IsOpen(k)
  /\ finAt[k] # 0 => n < finAt[k]
  /\ <<retx, asked>> \in budget.kinds
  /\ IF retx THEN n <= top[k] ELSE n <= top[k] + budget.gap
  /\ n + budget.late >= top[k] /\ 1 .. (n - budget.lag[n]) \subseteq delivered[k]
  /\ IF Newer(ConnOf(k), SeqOf(n)) /\ tr_seqno_diff(SeqOf(n), ConnOf(k).last) > MAX_AHEAD
     THEN UNCHANGED vars
     ELSE TakeData(k, n, retx, asked)

-----------------------------------------------------------------------------
(* Timers: the poll serves the first expired alarm of the list.             *)

Expire(k) ==
  /\ IsOpen(k) /\ ConnOf(k).alarm = "armed"
  /\ rcrtcs' = [rcrtcs EXCEPT ![At(k)].alarm = "expired"]
  /\ UNCHANGED <<rates, crashed, tids, netVars, appVars, budget>>

FirstExpired == {i \in DOMAIN rcrtcs : /\ rcrtcs[i].alarm = "expired"
                                       /\ \A j \in 1 .. i - 1 : rcrtcs[j].alarm # "expired"}

\* The connection asks again for what it misses, and lowers the rate when it
\* has timed out twice.
AskAgain(i, c) ==
  LET ask(d) == [AfterFeedback(d) EXCEPT !.alarm = "armed"]
  IN
  \/ Update(i, ask(c)) /\ UNCHANGED budget
  \/ /\ c.timeoutCount >= 2 /\ MayDecrease(c) /\ budget.changes > 0
     /\ budget' = [budget EXCEPT !.changes = @ - 1]
     /\ \E l \in Losses :
          LET v == <<-1, Decreased(rates, l)>>
          IN  /\ rates' = Totals(v, rates)
              /\ \E cs \in {Controlled([rcrtcs EXCEPT ![i] = [c EXCEPT !.timeoutCount = 0]], v, {})} :
                   rcrtcs' = [cs EXCEPT ![i] = ask(cs[i])]
     /\ UNCHANGED tids

\* A mutated form, for ClosingEnds: the timeouts are not counted.
Mut_Counted(c) == [c EXCEPT !.alarm = "off"]
Counted(c) == [c EXCEPT !.alarm = "off",
                        !.timeoutCount = IF @ < RCRT_MAX_ALIVE_TIMEOUT THEN @ + 1 ELSE @]

\* RCRT_Timer_fired.  An active connection that is to be deleted and had its
\* last timeout is freed, and then written to.
TimerFired(i) ==
  LET c == Counted(rcrtcs[i])
      waiting == c.state \in {"NACK_WAIT", "FIN_RETX_WAIT"}
  IN
  \/ /\ c.deletePending
     /\ c.timeoutCount >= RCRT_MAX_ALIVE_TIMEOUT \/ (~waiting /\ ~c.recv)
     /\ DeleteConn(i) /\ UNCHANGED budget
  \/ /\ c.deletePending
     /\ c.timeoutCount < RCRT_MAX_ALIVE_TIMEOUT /\ (waiting \/ c.recv)
     /\ Update(i, [c EXCEPT !.alarm = "armed"]) /\ UNCHANGED budget
  \/ /\ ~c.deletePending /\ waiting
     /\ AskAgain(i, c)
  \/ /\ ~c.deletePending /\ ~waiting
     /\ Update(i, [rcrtcs[i] EXCEPT !.alarm = "off"]) /\ UNCHANGED budget

Fires(k) == /\ \E i \in FirstExpired : rcrtcs[i].key = k /\ TimerFired(i)
            /\ UNCHANGED <<crashed, netVars, appVars>>

-----------------------------------------------------------------------------
(* The client closes its task.                                              *)

\* One entry c of the walk of rcrtransport_delete_tid: an entry that got packets is
\* marked, another one deleted, and then the walk goes on from the one behind its
\* successor.
Marked(c) == [c EXCEPT !.deletePending = TRUE, !.alarm = IF @ = "off" THEN "armed" ELSE @]
Visited(w, c, t) ==
  IF w.skip \/ c.key[1] # t THEN [w EXCEPT !.cs = Append(@, c), !.skip = FALSE]
  ELSE IF c.recv THEN [w EXCEPT !.cs = Append(@, Marked(c))]
  ELSE [w EXCEPT !.g = FinishRates(budget.policy, @, c), !.skip = TRUE]

\* The whole walk: the list and the totals after it.
Walked(t) ==
  LET walk[i \in 0 .. Len(rcrtcs)] ==
        IF i = 0 THEN [cs |-> <<>>, g |-> rates, skip |-> FALSE]
        ELSE With(walk[i - 1], LAMBDA w : Visited(w, rcrtcs[i], t))
  IN  walk[Len(rcrtcs)]

\* TRANS_TYPE_CLOSE: close_transport_connections, then CLOSE_ACK at once when
\* nothing of the task is left.
ClientClose(t) ==
  /\ tids[t] # "NONE" /\ t \in budget.closes
  /\ \E w \in {Walked(t)} :
       \* Deleting the last entry leaves no successor to go on from.
       \/ w.skip /\ crashed' = TRUE /\ UNCHANGED <<rcrtcs, rates, tids>>
       \/ /\ ~w.skip
          /\ rcrtcs' = w.cs /\ rates' = w.g
          /\ tids' = [tids EXCEPT ![t] = IF TidAlive(w.cs, t) THEN "CLOSE" ELSE "NONE"]
          /\ UNCHANGED crashed
  /\ UNCHANGED <<netVars, appVars, budget>>

-----------------------------------------------------------------------------
Receive(k) ==
  \/ ReceiveSYN(k)
  \/ \E n \in 1 .. budget.newest + 1 : ReceiveFIN(k, n)
  \/ \E n \in 1 .. budget.newest, retx, asked \in BOOLEAN : ReceiveData(k, n, retx, asked)

Next ==
  \/ \E k \in Keys : ~crashed /\ Receive(k)
  \/ \E k \in Keys : ~crashed /\ Expire(k)
  \/ \E k \in Keys : ~crashed /\ Fires(k)
  \/ \E t \in Tids : ~crashed /\ ClientClose(t)

Spec == Init /\ [][Next]_vars

\* Time passes, and alarms are seconds apart while main() polls between any two
\* packets: no alarm stays set, or expired, for ever.  These are WF of Expire
\* and SF of Fires, each with its guard written out.
Alarmed(k, a) == ~crashed /\ IsOpen(k) /\ ConnOf(k).alarm = a
FairSpec == Spec /\ \A k \in Keys : []<>~Alarmed(k, "armed") /\ []<>~Alarmed(k, "expired")

-----------------------------------------------------------------------------
(* Properties                                                               *)

\* The application gets the packets of a connection in order, each once, and
\* none is passed over before it is TR_VALID_RANGE old (receive_rtr_msg).
Promise == INSTANCE InOrderStream
             WITH Streams <- Keys, Horizon <- TR_VALID_RANGE, newest <- top, handed <- delivered
DeliversInOrder == Promise!Spec

\* A packet that was not handed up waits in the packet list or will be asked
\* for, until it is TR_VALID_RANGE old; this holds for a connection that is
\* about to be acknowledged as finished, too.
NothingForgotten ==
  \A k \in Keys : IsOpen(k) \/ (finAt[k] # 0 /\ tids[k[1]] = "TASK") =>
    \A n \in 1 .. top[k] :
      \/ n \in delivered[k] \cup {finAt[k]}
      \/ IsOpen(k) /\ (n \in ConnOf(k).plist \/ SeqOf(n) \in ConnOf(k).missing)
      \/ n + TR_VALID_RANGE <= top[k]
      \/ ~IsOpen(k) /\ \E m \in 1 .. n - 1 : m + TR_VALID_RANGE <= top[k] /\ m \notin delivered[k]

\* While a connection misses a packet its timer runs, and its state is one in
\* which the timer asks for it: every path that finds a gap sends a feedback.
MissingIsChased ==
  \A i \in DOMAIN rcrtcs : rcrtcs[i].missing # {} =>
    rcrtcs[i].state # "ACTIVE" /\ rcrtcs[i].alarm # "off"

\* The types, and that every gap is remembered and asked for again.
GapsAreChased == TypeOK /\ NothingForgotten /\ MissingIsChased

\* The totals are those of the connections on the list, whichever of the five
\* ways the others went: m_N flows, and m_D the sum of what they asked for
\* (which FAIR_RATE only ever adds to while a connection is left).
TotalsMatch ==
  /\ rates.N = Len(rcrtcs)
  /\ budget.policy # RCRT_FAIR_RATE =>
       rates.D = Total([i \in DOMAIN rcrtcs |-> Desired(rcrtcs[i])])
  /\ rates.N = 0 => rates.R = 0 /\ rates.D = 0 /\ rates.slow

\* Whenever the rate is shared anew by ratio or equally, and there is no more of it than
\* was asked for, no connection is told to send faster than it asked, except for the one
\* millisecond that rate2interval loses when it cuts a double (and 65534 is its longest).
RequestRespected ==
  /\ budget.policy \in {RCRT_FAIR_RATIO, RCRT_FAIR_RATE}
  /\ rates.R # rates'.R /\ 0 < rates'.R /\ rates'.R <= rates'.D /\ rates'.N >= rates.N
  => \A i \in DOMAIN rcrtcs' : rcrtcs'[i].cur + 1 >= rcrtcs'[i].req

\* The rate that is shared is that of the connections there are, and no share
\* exceeds what was asked for.
SharesAreSound == [][TotalsMatch' /\ RequestRespected]_vars

\* Once packets stop, the connections that are marked to be deleted go away,
\* all of them.
Silent == <>[][\A k \in Keys : ~Receive(k)]_vars
Pending == \E i \in DOMAIN rcrtcs : rcrtcs[i].deletePending
ClosingEnds == Silent => <>[](~Pending \/ crashed)

=============================================================================
