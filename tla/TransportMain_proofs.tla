------------------------ MODULE TransportMain_proofs ------------------------
(***************************************************************************)
(* Proofs about the master's transport daemon, for every set of clients,   *)
(* descriptors and motes, every mixture of events and boxes of any length. *)
(*                                                                         *)
(* InTurn is inductive: DaemonInv holds as long as no tid was given to two *)
(* clients, and once one was (tidlist.c can lose the file) nothing is said *)
(* any more.  The centre of DaemonInv is Good, which speaks of a state d   *)
(* of the daemon and not of the variable tr: a handler goes through        *)
(* several such states, one for each call it makes.  A call that keeps     *)
(* Good and only tells clients what is fit to be told is said to move the  *)
(* daemon (Moves), and such moves compose.  The steps that assign a tid,   *)
(* change the clients or read a box are treated by themselves.             *)
(***************************************************************************)
EXTENDS TransportMain, FiniteSetTheorems, TLAPS

(* The inductive invariant. *)

OfTask == {"TASK", "CLOSE"}

\* What was given out is someone's, and while requests are left those of clients that
\* are still there lie before the next tid, which does not come round to 1 again.  What
\* lies behind the next tid, in memory or in the file, is known not to have been saved.
RoundInv ==
  /\ \A t \in opened : \E s \in Sessions : t \in asked[s]
  /\ \A s \in Sessions : asked[s] \subseteq opened /\ (app[s] = "none" => asked[s] = {})
  /\ \A t \in tr.tids : t.tid \in opened
  /\ Requested(left) > 0 =>
       /\ \A t \in opened : t >= tr.myTID \/ t >= tr.stored => t \in tr.unsaved
       /\ \A t \in tr.tids : t.tid < tr.myTID
       /\ \A s \in Sessions : app[s] # "gone" => \A t \in asked[s] : t < tr.myTID
       /\ tr.myTID + Requested(left) <= MAX_TID + 1
       /\ tr.stored + Requested(left) <= MAX_TID + 1

\* A tid has one binding; a task's is of a descriptor whose client asked for it.
Bound(d, A) ==
  /\ \A t, u \in d.tids : t.tid = u.tid => t = u
  /\ \A t \in d.tids : t.type \in OfTask =>
       d.clients[t.fd] # NoApp /\ t.tid \in A[d.clients[t.fd]]

\* The tids of tasks sent to one mote, of all tasks, and of everything else.
Unicast(d) == {m.tid : m \in {m \in d.air : m.what = "task"}}
OfTasks(d) == Unicast(d) \cup d.spread
OfOthers(d) == {t.tid : t \in {t \in d.tids : t.type \notin OfTask}}
               \cup {d.tcmps[i].tid : i \in DOMAIN d.tcmps}
               \cup {m.tid : m \in {m \in d.air : m.what = "SERVICE"}}

\* A tid is of one kind all its life: what a transport has of it, or the motes may
\* still answer, is never taken for another's.
Kinds(d, O) ==
  /\ OfTasks(d) \subseteq O /\ OfOthers(d) \subseteq O
  /\ OfTasks(d) \cap OfOthers(d) = {} /\ Unicast(d) \cap d.spread = {}
  /\ \A i \in DOMAIN d.ptrcs :
       /\ d.ptrcs[i].tid \in OfTasks(d) /\ d.ptrcs[i].packet # "stop"
       /\ d.ptrcs[i].alarm # "off" => d.ptrcs[i].tid \in Unicast(d)
  /\ \A c \in d.streams : c.tid \in OfTasks(d)
  /\ \A m \in d.air : m.what = "stop" => m.tid \in Unicast(d) /\ ~HasTid(d, m.tid)
  /\ \A t \in d.tids : t.type \in OfTask /\ t.addr # BCAST => t.tid \in Unicast(d)

\* What runs has a binding that is not being closed, or was lost.
Stoppable(d) ==
  /\ d.running \subseteq d.spread
  /\ \A tid \in d.running \ d.lost : \E t \in d.tids : t.tid = tid /\ t.type = "TASK"
  /\ \A c \in d.streams : c.pending => c.tid \notin d.running \ d.lost

\* What was written to the clients.
Told(d, A, G) ==
  \A s \in Sessions : \A i \in DOMAIN d.box[s] :
    LET m == d.box[s][i] IN
    /\ m.type \in Commands \cup {"CLOSE_ACK", "RESPONSE"} => m.tid \in A[s]
    /\ m.type = "CMD_ACK" /\ m.addr # BCAST =>
         \E g \in G : g.tid = m.tid /\ g.addr = m.addr /\ g.what = "task"

\* The tid of a CLOSE_ACK is done with, and nothing was written after it.
Final(d) ==
  \A s \in Sessions : \A i \in DOMAIN d.box[s] :
    LET m == d.box[s][i] IN
    m.type = "CLOSE_ACK" =>
      /\ ~HasTid(d, m.tid) /\ m.tid \notin d.running \ d.lost
      /\ \A c \in d.streams : c.tid = m.tid => ~c.pending
      /\ \A j \in DOMAIN d.box[s] : i < j => d.box[s][j].tid # m.tid

IsCommand(m) == m.type \in Commands

\* A session that sent no task to one mote has at most one answer to a command to
\* read, and only while it waits for it.
Waits(d, s) ==
  /\ app[s] = "waiting" => wanted[s] # 0
  /\ app[s] \in {"none", "gone"} => DOMAIN d.box[s] = {} /\ s \notin d.reading
  /\ asked[s] \cap Unicast(d) = {} =>
       /\ \A i \in DOMAIN d.box[s] : IsCommand(d.box[s][i]) =>
            /\ app[s] = "waiting" /\ d.box[s][i].tid = wanted[s]
            /\ \A j \in DOMAIN d.box[s] : IsCommand(d.box[s][j]) => i = j
       /\ \A r \in returned[s] : r[1] = r[2]

\* O are the tids given out, A whose they are, G the packets the motes have.
Good(d, O, A, G) ==
  /\ d \in Daemon /\ G \subseteq d.air
  /\ Bound(d, A) /\ Kinds(d, O) /\ Stoppable(d) /\ Told(d, A, G)

\* It holds as long as no tid was given out twice.
DaemonInv ==
  /\ TypeOK /\ RoundInv /\ Good(tr, opened, asked, got) /\ Final(tr)
  /\ \A s \in Sessions : Waits(tr, s)
  /\ \A g \in got : g.what \in {"task", "stop"}

-----------------------------------------------------------------------------
Assigns == [Sessions -> SUBSET Tids]

\* More may be known of what was assigned and received.
LEMMA GoodGrows ==
  ASSUME NEW d, NEW O, NEW A \in Assigns, NEW G, Good(d, O, A, G),
         NEW O2, NEW A2 \in Assigns, NEW G2,
         O \subseteq O2, G \subseteq G2, G2 \subseteq d.air,
         \A s \in Sessions : A[s] \subseteq A2[s]
  PROVE  Good(d, O2, A2, G2)
<1>1. Bound(d, A2)
  BY DEF Good, Bound, Daemon, Binding, OfTask, Assigns
<1>2. Kinds(d, O2)
  BY DEF Good, Kinds
<1>3. Told(d, A2, G2)
  BY DEF Good, Told
<1> QED BY <1>1, <1>2, <1>3 DEF Good

LEMMA TidIs ==
  ASSUME NEW d, NEW tid, HasTid(d, tid)
  PROVE  TidOf(d, tid) \in d.tids /\ TidOf(d, tid).tid = tid
BY DEF HasTid, TidOf

\* rem_tid, of a task that does not run or whose stop was given up.
LEMMA RemoveTidGood ==
  ASSUME NEW d, NEW O, NEW A, NEW G, Good(d, O, A, G),
         NEW tid, tid \notin d.running \ d.lost
  PROVE  Good(RemoveTid(d, tid), O, A, G)
<1> DEFINE e == RemoveTid(d, tid)
<1>1. /\ e \in Daemon /\ e.tids = {t \in d.tids : t.tid # tid}
      /\ e.clients = d.clients /\ e.box = d.box /\ e.running = d.running /\ e.lost = d.lost
      /\ e.spread = d.spread /\ e.ptrcs = d.ptrcs /\ e.tcmps = d.tcmps /\ e.air = d.air
      /\ e.streams = d.streams
  BY DEF RemoveTid, Good, Daemon
<1> HIDE DEF e
<1>2. Bound(e, A)
  BY <1>1 DEF Good, Bound
<1>3. Kinds(e, O)
  <2>1. Unicast(e) = Unicast(d) /\ OfTasks(e) = OfTasks(d) /\ OfOthers(e) \subseteq OfOthers(d)
    BY <1>1 DEF Unicast, OfTasks, OfOthers
  <2>2. \A x : HasTid(e, x) => HasTid(d, x)
    BY <1>1 DEF HasTid
  <2> HIDE DEF e
  <2> QED BY <1>1, <2>1, <2>2 DEF Good, Kinds
<1>4. Stoppable(e)
  BY <1>1 DEF Good, Stoppable
<1>5. Told(e, A, G)
  BY <1>1 DEF Good, Told
<1> QED BY <1>1, <1>2, <1>3, <1>4, <1>5 DEF Good, e

\* What may be said of m to the client its tid is bound to.
Sayable(d, G, m) ==
  /\ m \in Message
  /\ m.type \in Commands \cup {"CLOSE_ACK", "RESPONSE"} =>
       \A t \in d.tids : t.tid = m.tid => t.type \in OfTask
  /\ m.type = "CMD_ACK" /\ m.addr # BCAST =>
       \E g \in G : g.tid = m.tid /\ g.addr = m.addr /\ g.what = "task"

\* What becomes of the boxes: nothing, or one message more for one that reads.
Adds(d, e, m) ==
  \A s \in Sessions :
    \/ e.box[s] = d.box[s]
    \/ s \in d.reading /\ e.box[s] = Append(d.box[s], m)
       /\ \E t \in d.tids : t.tid = m.tid /\ d.clients[t.fd] = s

LEMMA SentIs ==
  ASSUME NEW d \in Daemon, NEW m \in Message
  PROVE  LET e == SendToTid(d, m) IN
         /\ e \in Daemon /\ Adds(d, e, m)
         /\ e.clients = d.clients /\ e.running = d.running /\ e.spread = d.spread
         /\ e.ptrcs = d.ptrcs /\ e.tcmps = d.tcmps /\ e.air = d.air /\ e.streams = d.streams
         /\ e.reading = d.reading /\ e.broken = d.broken
         /\ e.myTID = d.myTID /\ e.stored = d.stored /\ e.unsaved = d.unsaved
         /\ \/ e.tids = d.tids /\ e.lost = d.lost
            \/ e.tids = {t \in d.tids : t.tid # m.tid} /\ e.lost = d.lost \cup (d.running \cap {m.tid})
<1> DEFINE fd == TidOf(d, m.tid).fd
           s == d.clients[fd]
           added == [d.box EXCEPT ![s] = Append(d.box[s], m)]
           written == [d EXCEPT !.box = added]
           dropped == [d EXCEPT !.tids = {t \in @ : t.tid # m.tid},
                                !.lost = @ \cup (d.running \cap {m.tid})]
<1>1. SendToTid(d, m) = IF ~HasTid(d, m.tid) THEN d
                        ELSE IF ~CanWrite(d, fd) THEN dropped
                        ELSE IF s \in d.reading THEN written ELSE d
  <2>1. Written(d, fd, m) = IF s \in d.reading THEN written ELSE d
    BY DEF Written
  <2>2. dropped = [RemoveTid(d, m.tid) EXCEPT !.lost = @ \cup (d.running \cap {m.tid})]
    BY DEF RemoveTid, Daemon
  <2> HIDE DEF written, dropped
  <2> QED BY <2>1, <2>2 DEF SendToTid
<1>2. HasTid(d, m.tid) => TidOf(d, m.tid) \in d.tids /\ TidOf(d, m.tid).tid = m.tid
  BY TidIs
<1>3. ASSUME HasTid(d, m.tid), s \in d.reading
      PROVE  /\ written \in Daemon /\ Adds(d, written, m)
             /\ written.clients = d.clients /\ written.running = d.running
             /\ written.spread = d.spread /\ written.ptrcs = d.ptrcs
             /\ written.tcmps = d.tcmps /\ written.air = d.air /\ written.streams = d.streams
             /\ written.reading = d.reading /\ written.broken = d.broken
             /\ written.myTID = d.myTID /\ written.stored = d.stored /\ written.unsaved = d.unsaved
             /\ written.tids = d.tids /\ written.lost = d.lost
  <2>1. s \in Sessions
    BY <1>3 DEF Daemon
  <2> HIDE DEF s
  <2>2. added \in [Sessions -> Seq(Message)]
    BY <2>1 DEF Daemon
  <2> HIDE DEF added
  <2>3. /\ written \in Daemon /\ written.box = added
        /\ written.clients = d.clients /\ written.running = d.running
        /\ written.spread = d.spread /\ written.ptrcs = d.ptrcs
        /\ written.tcmps = d.tcmps /\ written.air = d.air /\ written.streams = d.streams
        /\ written.reading = d.reading /\ written.broken = d.broken
        /\ written.myTID = d.myTID /\ written.stored = d.stored /\ written.unsaved = d.unsaved
        /\ written.tids = d.tids /\ written.lost = d.lost
    BY <2>2 DEF Daemon
  <2> HIDE DEF written
  <2>4. d.box \in [Sessions -> Seq(Message)]
    BY DEF Daemon
  <2>5. Adds(d, written, m)
    BY <1>2, <1>3, <2>1, <2>3, <2>4 DEF Adds, s, fd, added
  <2> QED BY <2>3, <2>5
<1>4. /\ dropped \in Daemon /\ Adds(d, dropped, m)
      /\ dropped.clients = d.clients /\ dropped.running = d.running
      /\ dropped.spread = d.spread /\ dropped.ptrcs = d.ptrcs
      /\ dropped.tcmps = d.tcmps /\ dropped.air = d.air /\ dropped.streams = d.streams
      /\ dropped.reading = d.reading /\ dropped.broken = d.broken
      /\ dropped.myTID = d.myTID /\ dropped.stored = d.stored /\ dropped.unsaved = d.unsaved
      /\ dropped.tids = {t \in d.tids : t.tid # m.tid}
      /\ dropped.lost = d.lost \cup (d.running \cap {m.tid})
  BY DEF Daemon, Adds
<1>5. Adds(d, d, m)
  BY DEF Adds
<1> HIDE DEF fd, s, added, written, dropped
<1>6. CASE ~HasTid(d, m.tid)
  BY <1>1, <1>5, <1>6
<1>7. CASE HasTid(d, m.tid) /\ ~CanWrite(d, fd)
  BY <1>1, <1>4, <1>7
<1>8. CASE HasTid(d, m.tid) /\ CanWrite(d, fd) /\ s \in d.reading
  BY <1>1, <1>3, <1>8
<1>9. CASE HasTid(d, m.tid) /\ CanWrite(d, fd) /\ s \notin d.reading
  BY <1>1, <1>5, <1>9
<1> QED BY <1>6, <1>7, <1>8, <1>9

LEMMA SendToTidGood ==
  ASSUME NEW d, NEW O, NEW A, NEW G, Good(d, O, A, G), NEW m, Sayable(d, G, m)
  PROVE  Good(SendToTid(d, m), O, A, G)
<1> DEFINE e == SendToTid(d, m)
<1>1. /\ d \in Daemon /\ m \in Message
      /\ e \in Daemon /\ Adds(d, e, m)
      /\ e.clients = d.clients /\ e.running = d.running /\ e.spread = d.spread
      /\ e.ptrcs = d.ptrcs /\ e.tcmps = d.tcmps /\ e.air = d.air /\ e.streams = d.streams
      /\ e.tids \subseteq d.tids /\ d.lost \subseteq e.lost
      /\ \/ e.tids = d.tids
         \/ e.tids = {t \in d.tids : t.tid # m.tid} /\ (m.tid \in d.running => m.tid \in e.lost)
  <2>1. d \in Daemon /\ m \in Message
    BY DEF Good, Sayable
  <2> QED BY <2>1, SentIs
<1> HIDE DEF e
<1>2. Bound(e, A)
  BY <1>1 DEF Good, Bound
<1>3. Kinds(e, O)
  <2>1. Unicast(e) = Unicast(d) /\ OfTasks(e) = OfTasks(d) /\ OfOthers(e) \subseteq OfOthers(d)
    BY <1>1 DEF Unicast, OfTasks, OfOthers
  <2>2. \A x : HasTid(e, x) => HasTid(d, x)
    BY <1>1 DEF HasTid
  <2> QED BY <1>1, <2>1, <2>2 DEF Good, Kinds
<1>4. Stoppable(e)
  BY <1>1 DEF Good, Stoppable
<1>5. ASSUME NEW s \in Sessions, e.box[s] # d.box[s]
      PROVE  /\ e.box[s] = Append(d.box[s], m) /\ d.box[s] \in Seq(Message)
             /\ Len(d.box[s]) \in Nat /\ DOMAIN d.box[s] = 1 .. Len(d.box[s])
             /\ DOMAIN e.box[s] = DOMAIN d.box[s] \cup {Len(d.box[s]) + 1}
             /\ \A i \in DOMAIN d.box[s] : e.box[s][i] = d.box[s][i]
             /\ e.box[s][Len(d.box[s]) + 1] = m
             /\ \E t \in d.tids : t.tid = m.tid /\ d.clients[t.fd] = s
  <2>1. d.box[s] \in Seq(Message)
    BY <1>1 DEF Daemon
  <2> QED BY <1>1, <1>5, <2>1 DEF Adds
<1>6. Told(e, A, G)
  <2>1. \A i \in DOMAIN d.box : TRUE
    OBVIOUS
  <2> SUFFICES ASSUME NEW s \in Sessions, NEW i \in DOMAIN e.box[s], NEW n, n = e.box[s][i]
               PROVE  /\ n.type \in Commands \cup {"CLOSE_ACK", "RESPONSE"} => n.tid \in A[s]
                      /\ n.type = "CMD_ACK" /\ n.addr # BCAST =>
                           \E g \in G : g.tid = n.tid /\ g.addr = n.addr /\ g.what = "task"
    BY DEF Told
  <2>2. CASE i \in DOMAIN d.box[s] /\ n = d.box[s][i]
    BY <2>2 DEF Good, Told
  <2>3. CASE e.box[s] # d.box[s] /\ n = m
    BY <1>5, <2>3 DEF Sayable, Good, Bound
  <2> QED BY <1>5, <2>2, <2>3
<1> QED BY <1>1, <1>2, <1>3, <1>4, <1>6 DEF Good, e

-----------------------------------------------------------------------------
(* The connections of the packet transport, the list of probes, the streams. *)

Tasked(B) == {m.tid : m \in {m \in B : m.what = "task"}}

\* Other connections, and packets to motes.
LEMMA PtrsGood ==
  ASSUME NEW d, NEW O, NEW A, NEW G, Good(d, O, A, G),
         NEW q \in Seq(PtrConn), NEW B \in SUBSET Air,
         Tasked(B) \subseteq Unicast(d) \cup (O \ (OfOthers(d) \cup d.spread)),
         \A m \in B : /\ m.what \in {NoPacket, "task", "stop"}
                      /\ m.what = "stop" => m.tid \in Unicast(d) /\ ~HasTid(d, m.tid),
         \A i \in DOMAIN q : /\ q[i].tid \in OfTasks(d) \cup Tasked(B) /\ q[i].packet # "stop"
                             /\ q[i].alarm # "off" => q[i].tid \in Unicast(d) \cup Tasked(B)
  PROVE  Good([d EXCEPT !.ptrcs = q, !.air = @ \cup B], O, A, G)
<1> DEFINE e == [d EXCEPT !.ptrcs = q, !.air = @ \cup B]
<1>1. /\ e \in Daemon /\ e.tids = d.tids
      /\ e.clients = d.clients /\ e.box = d.box /\ e.running = d.running /\ e.lost = d.lost
      /\ e.spread = d.spread /\ e.ptrcs = q /\ e.tcmps = d.tcmps /\ e.air = d.air \cup B
      /\ e.streams = d.streams
  BY DEF Good, Daemon
<1> HIDE DEF e
<1>2. Bound(e, A)
  BY <1>1 DEF Good, Bound
<1>3. Kinds(e, O)
  <2>1. Unicast(e) = Unicast(d) \cup Tasked(B) /\ OfTasks(e) = OfTasks(d) \cup Tasked(B)
    BY <1>1 DEF Unicast, OfTasks, Tasked
  <2>2. OfOthers(e) = OfOthers(d)
    BY <1>1 DEF OfOthers, NoPacket
  <2>3. \A x : HasTid(e, x) <=> HasTid(d, x)
    BY <1>1 DEF HasTid
  <2>4. OfTasks(d) \subseteq O /\ OfOthers(d) \subseteq O /\ OfTasks(d) \cap OfOthers(d) = {}
        /\ Unicast(d) \cap d.spread = {} /\ Unicast(d) \subseteq OfTasks(d)
    BY DEF Good, Kinds, OfTasks
  <2>5. /\ OfTasks(e) \subseteq O /\ OfOthers(e) \subseteq O
        /\ OfTasks(e) \cap OfOthers(e) = {} /\ Unicast(e) \cap e.spread = {}
    BY <1>1, <2>1, <2>2, <2>4
  <2>6. \A i \in DOMAIN e.ptrcs :
          /\ e.ptrcs[i].tid \in OfTasks(e) /\ e.ptrcs[i].packet # "stop"
          /\ e.ptrcs[i].alarm # "off" => e.ptrcs[i].tid \in Unicast(e)
    BY <1>1, <2>1
  <2>7. /\ \A c \in e.streams : c.tid \in OfTasks(e)
        /\ \A m \in e.air : m.what = "stop" => m.tid \in Unicast(e) /\ ~HasTid(e, m.tid)
        /\ \A t \in e.tids : t.type \in OfTask /\ t.addr # BCAST => t.tid \in Unicast(e)
    BY <1>1, <2>1, <2>3 DEF Good, Kinds
  <2> QED BY <2>5, <2>6, <2>7 DEF Kinds
<1>4. Stoppable(e)
  BY <1>1 DEF Good, Stoppable
<1>5. Told(e, A, G)
  BY <1>1 DEF Good, Told
<1>6. G \subseteq e.air
  BY <1>1 DEF Good
<1> QED BY <1>1, <1>2, <1>3, <1>4, <1>5, <1>6 DEF Good, e

Probing == {"PING", "TRACERT"}

\* Another list of probes, and probes sent.
LEMMA TcmpsGood ==
  ASSUME NEW d, NEW O, NEW A, NEW G, Good(d, O, A, G),
         NEW q \in Seq(TcmpEntry), NEW B \in SUBSET Air,
         \A m \in B : m.what \in Probing \/ (m.what = "SERVICE" /\ m.tid \in O \ OfTasks(d)),
         \A i \in DOMAIN q : q[i].tid \in O \ OfTasks(d)
  PROVE  Good([d EXCEPT !.tcmps = q, !.air = @ \cup B], O, A, G)
<1> DEFINE e == [d EXCEPT !.tcmps = q, !.air = @ \cup B]
<1>1. /\ e \in Daemon /\ e.tids = d.tids
      /\ e.clients = d.clients /\ e.box = d.box /\ e.running = d.running /\ e.lost = d.lost
      /\ e.spread = d.spread /\ e.ptrcs = d.ptrcs /\ e.tcmps = q /\ e.air = d.air \cup B
      /\ e.streams = d.streams
  BY DEF Good, Daemon
<1> HIDE DEF e
<1>2. Bound(e, A)
  BY <1>1 DEF Good, Bound
<1>3. Kinds(e, O)
  <2>1. Unicast(e) = Unicast(d) /\ OfTasks(e) = OfTasks(d)
    BY <1>1 DEF Unicast, OfTasks, Probing
  <2>2. OfOthers(e) \subseteq O /\ OfTasks(e) \cap OfOthers(e) = {}
    BY <1>1, <2>1 DEF OfOthers, Good, Kinds, Probing
  <2>3. \A x : HasTid(e, x) <=> HasTid(d, x)
    BY <1>1 DEF HasTid
  <2> QED BY <1>1, <2>1, <2>2, <2>3 DEF Good, Kinds, Probing
<1>4. Stoppable(e)
  BY <1>1 DEF Good, Stoppable
<1>5. Told(e, A, G)
  BY <1>1 DEF Good, Told
<1>6. G \subseteq e.air
  BY <1>1 DEF Good
<1> QED BY <1>1, <1>2, <1>3, <1>4, <1>5, <1>6 DEF Good, e

\* Other streams.
LEMMA StreamsGood ==
  ASSUME NEW d, NEW O, NEW A, NEW G, Good(d, O, A, G), NEW S \in SUBSET Stream,
         \A c \in S : c.tid \in OfTasks(d) /\ (c.pending => c.tid \notin d.running \ d.lost)
  PROVE  Good([d EXCEPT !.streams = S], O, A, G)
<1> DEFINE e == [d EXCEPT !.streams = S]
<1>1. /\ e \in Daemon /\ e.tids = d.tids
      /\ e.clients = d.clients /\ e.box = d.box /\ e.running = d.running /\ e.lost = d.lost
      /\ e.spread = d.spread /\ e.ptrcs = d.ptrcs /\ e.tcmps = d.tcmps /\ e.air = d.air
      /\ e.streams = S
  BY DEF Good, Daemon
<1> HIDE DEF e
<1>2. Bound(e, A)
  BY <1>1 DEF Good, Bound
<1>3. Kinds(e, O)
  <2>1. Unicast(e) = Unicast(d) /\ OfTasks(e) = OfTasks(d) /\ OfOthers(e) = OfOthers(d)
    BY <1>1 DEF Unicast, OfTasks, OfOthers
  <2>2. \A x : HasTid(e, x) <=> HasTid(d, x)
    BY <1>1 DEF HasTid
  <2> QED BY <1>1, <2>1, <2>2 DEF Good, Kinds
<1>4. Stoppable(e)
  BY <1>1 DEF Good, Stoppable
<1>5. Told(e, A, G)
  BY <1>1 DEF Good, Told
<1> QED BY <1>1, <1>2, <1>3, <1>4, <1>5 DEF Good, e

-----------------------------------------------------------------------------
(* Tids.                                                                     *)

\* e is d but for the next tid and the file.
Refiled(d, e) ==
  /\ e.tids = d.tids /\ e.box = d.box /\ e.reading = d.reading
  /\ e.air = d.air /\ e.clients = d.clients /\ e.spread = d.spread /\ e.running = d.running
  /\ e.lost = d.lost /\ e.ptrcs = d.ptrcs /\ e.tcmps = d.tcmps /\ e.streams = d.streams

LEMMA RefiledGood ==
  ASSUME NEW d, NEW O, NEW A, NEW G, Good(d, O, A, G), NEW e \in Daemon, Refiled(d, e)
  PROVE  Good(e, O, A, G)
<1>1. Bound(e, A)
  BY DEF Good, Bound, Refiled
<1>2. Kinds(e, O)
  <2>1. Unicast(e) = Unicast(d) /\ OfTasks(e) = OfTasks(d) /\ OfOthers(e) = OfOthers(d)
    BY DEF Unicast, OfTasks, OfOthers, Refiled
  <2>2. \A x : HasTid(e, x) <=> HasTid(d, x)
    BY DEF HasTid, Refiled
  <2> QED BY <2>1, <2>2 DEF Good, Kinds, Refiled
<1>3. Stoppable(e) /\ Told(e, A, G)
  BY DEF Good, Stoppable, Told, Refiled
<1> QED BY <1>1, <1>2, <1>3 DEF Good, Refiled

\* What store_tid makes of the file: it has the next tid, or what it had, or nothing.
Filed(d, e) ==
  \/ e.stored = d.myTID /\ e.unsaved = {t \in d.unsaved : t >= d.myTID}
  \/ e.stored = d.stored /\ e.unsaved = d.unsaved
  \/ e.stored = NoTid /\ e.unsaved = Tids

LEMMA StoreTidGood ==
  ASSUME NEW d, NEW O, NEW A, NEW G, Good(d, O, A, G), NEW how \in Storings
  PROVE  LET e == StoreTid(d, how) IN
         Good(e, O, A, G) /\ Refiled(d, e) /\ e.myTID = d.myTID /\ Filed(d, e)
<1> DEFINE e == StoreTid(d, how)
<1>1. d \in Daemon /\ {t \in d.unsaved : t >= d.myTID} \in SUBSET Tids
  BY DEF Good, Daemon
<1>2. e \in Daemon /\ Refiled(d, e) /\ e.myTID = d.myTID /\ Filed(d, e)
  <2>1. CASE how = "done"
    BY <1>1, <2>1 DEF StoreTid, Daemon, Refiled, Filed
  <2>2. CASE how = "unopened"
    BY <1>1, <2>2 DEF StoreTid, Daemon, Refiled, Filed
  <2>3. CASE how = "emptied"
    BY <1>1, <2>3 DEF StoreTid, Daemon, Refiled, Filed
  <2> QED BY <2>1, <2>2, <2>3 DEF Storings
<1> HIDE DEF e
<1>3. Good(e, O, A, G)
  BY <1>2, RefiledGood
<1> QED BY <1>2, <1>3 DEF e

\* assign_new_tid has taken tid: what is in memory and in the file then.
Given(d, e, tid) ==
  /\ e.myTID = (tid % MAX_TID) + 1
  /\ \/ e.stored = e.myTID /\ e.unsaved = {t \in d.unsaved \cup {tid} : t >= e.myTID}
     \/ e.stored = d.stored /\ e.unsaved = d.unsaved \cup {tid}
     \/ e.stored = NoTid /\ e.unsaved = Tids

LEMMA AssignedGood ==
  ASSUME NEW d, NEW O, NEW A, NEW G, Good(d, O, A, G), NEW tid \in Tids, NEW how \in Storings
  PROVE  LET e == Assigned(d, tid, how) IN Good(e, O, A, G) /\ Refiled(d, e) /\ Given(d, e, tid)
<1> DEFINE next == (tid % MAX_TID) + 1
           U == d.unsaved \cup {tid}
           a == [d EXCEPT !.myTID = next, !.unsaved = @ \cup {tid}]
           e == StoreTid(a, how)
<1>1. next \in Tids
  BY TidAssumption DEF Tids
<1> HIDE DEF next
<1>2. d \in Daemon /\ U \in SUBSET Tids
  BY DEF Good, Daemon
<1>3. Assigned(d, tid, how) = e
  BY DEF Assigned, next
<1>4. /\ a \in Daemon /\ Refiled(d, a)
      /\ a.myTID = next /\ a.stored = d.stored /\ a.unsaved = U
  BY <1>1, <1>2 DEF Daemon, Refiled
<1> HIDE DEF a, U
<1>5. Good(a, O, A, G)
  BY <1>4, RefiledGood
<1>6. Good(e, O, A, G) /\ Refiled(a, e) /\ e.myTID = a.myTID /\ Filed(a, e)
  BY <1>5, StoreTidGood
<1> HIDE DEF e
<1>7. Refiled(d, e)
  BY <1>4, <1>6 DEF Refiled
<1>8. Given(d, e, tid)
  BY <1>4, <1>6 DEF Given, Filed, next, U
<1> QED BY <1>3, <1>6, <1>7, <1>8

\* tidlist_add_tid of a tid that was not in use.
LEMMA AddTidGood ==
  ASSUME NEW d, NEW O, NEW A, NEW G, Good(d, O, A, G),
         NEW t \in Binding, t.tid \in O, ~HasTid(d, t.tid),
         t.type \in OfTask => /\ d.clients[t.fd] # NoApp /\ t.tid \in A[d.clients[t.fd]]
                              /\ t.addr # BCAST => t.tid \in Unicast(d),
         t.type \notin OfTask => t.tid \notin OfTasks(d),
         \A m \in d.air : m.what = "stop" => m.tid # t.tid
  PROVE  Good([d EXCEPT !.tids = @ \cup {t}], O, A, G)
<1> DEFINE e == [d EXCEPT !.tids = @ \cup {t}]
<1>1. /\ e \in Daemon /\ e.tids = d.tids \cup {t}
      /\ e.clients = d.clients /\ e.box = d.box /\ e.running = d.running /\ e.lost = d.lost
      /\ e.spread = d.spread /\ e.ptrcs = d.ptrcs /\ e.tcmps = d.tcmps /\ e.air = d.air
      /\ e.streams = d.streams
  BY DEF Good, Daemon
<1> HIDE DEF e
<1>2. Bound(e, A)
  BY <1>1 DEF Good, Bound, HasTid
<1>3. Kinds(e, O)
  <2>1. Unicast(e) = Unicast(d) /\ OfTasks(e) = OfTasks(d)
    BY <1>1 DEF Unicast, OfTasks
  <2>2. OfOthers(e) = OfOthers(d) \cup {x \in {t.tid} : t.type \notin OfTask}
    BY <1>1 DEF OfOthers
  <2>3. \A x : HasTid(e, x) <=> HasTid(d, x) \/ x = t.tid
    BY <1>1 DEF HasTid
  <2> QED BY <1>1, <2>1, <2>2, <2>3 DEF Good, Kinds
<1>4. Stoppable(e)
  BY <1>1 DEF Good, Stoppable
<1>5. Told(e, A, G)
  BY <1>1 DEF Good, Told
<1> QED BY <1>1, <1>2, <1>3, <1>4, <1>5 DEF Good, e

\* A task that goes to all motes begins to run.
LEMMA SpreadGood ==
  ASSUME NEW d, NEW O, NEW A, NEW G, Good(d, O, A, G),
         NEW tid \in Tids, tid \in O \ (OfTasks(d) \cup OfOthers(d)),
         \E t \in d.tids : t.tid = tid /\ t.type = "TASK"
  PROVE  Good([d EXCEPT !.running = @ \cup {tid}, !.spread = @ \cup {tid}], O, A, G)
<1> DEFINE e == [d EXCEPT !.running = @ \cup {tid}, !.spread = @ \cup {tid}]
<1>1. /\ e \in Daemon /\ e.tids = d.tids
      /\ e.clients = d.clients /\ e.box = d.box /\ e.running = d.running \cup {tid}
      /\ e.lost = d.lost /\ e.spread = d.spread \cup {tid}
      /\ e.ptrcs = d.ptrcs /\ e.tcmps = d.tcmps /\ e.air = d.air /\ e.streams = d.streams
  BY DEF Good, Daemon
<1> HIDE DEF e
<1>2. Bound(e, A)
  BY <1>1 DEF Good, Bound
<1>3. Kinds(e, O)
  <2>1. Unicast(e) = Unicast(d) /\ OfTasks(e) = OfTasks(d) \cup {tid} /\ OfOthers(e) = OfOthers(d)
        /\ Unicast(d) \subseteq OfTasks(d)
    BY <1>1 DEF Unicast, OfTasks, OfOthers
  <2>2. \A x : HasTid(e, x) <=> HasTid(d, x)
    BY <1>1 DEF HasTid
  <2> QED BY <1>1, <2>1, <2>2 DEF Good, Kinds
<1>4. Stoppable(e)
  <2>1. \A c \in d.streams : c.tid # tid
    BY DEF Good, Kinds
  <2> QED BY <1>1, <2>1 DEF Good, Stoppable
<1>5. Told(e, A, G)
  BY <1>1 DEF Good, Told
<1> QED BY <1>1, <1>2, <1>3, <1>4, <1>5 DEF Good, e

-----------------------------------------------------------------------------
(* Closing.                                                                  *)

\* Each number up to that of the indices is the rank of one of them: else two of
\* them would have the same rank.
LEMMA RankIs ==
  ASSUME NEW I, NEW n \in Nat, I \subseteq 1 .. n, NEW k \in 1 .. Cardinality(I)
  PROVE  \E i \in I : Cardinality({j \in I : j <= i}) = k
<1> DEFINE Upto(i) == {j \in I : j <= i}
           N == Cardinality(I)
           T == (1 .. N) \ {k}
           f == [i \in I |-> Cardinality(Upto(i))]
<1>1. IsFiniteSet(I) /\ N \in Nat
  <2>1. IsFiniteSet(1 .. n)
    BY FS_Interval
  <2>2. IsFiniteSet(I)
    BY <2>1, FS_Subset
  <2> QED BY <2>2, FS_CardinalityType
<1>2. ASSUME NEW i \in I
      PROVE  IsFiniteSet(Upto(i)) /\ Cardinality(Upto(i)) \in 1 .. N
  <2>1. /\ IsFiniteSet(Upto(i)) /\ Cardinality(Upto(i)) <= N /\ Cardinality(Upto(i)) \in Nat
        /\ i \in Upto(i)
    BY <1>1, FS_Subset, FS_CardinalityType
  <2>2. Cardinality(Upto(i)) # 0
    BY <2>1, FS_EmptySet
  <2> QED BY <1>1, <2>1, <2>2
<1>3. IsFiniteSet(1 .. N) /\ Cardinality(1 .. N) = N
  BY <1>1, FS_Interval
<1>4. IsFiniteSet(T) /\ Cardinality(T) < N
  <2>1. k \in 1 .. N
    OBVIOUS
  <2> HIDE DEF N
  <2>2. IsFiniteSet(T) /\ Cardinality(T) = Cardinality(1 .. N) - 1
    BY <1>3, <2>1, FS_RemoveElement
  <2> QED BY <1>1, <1>3, <2>2
<1>5. ASSUME NEW x \in I, NEW y \in I, x < y
      PROVE  Cardinality(Upto(x)) # Cardinality(Upto(y))
  <2>1. x \in Nat /\ y \in Nat /\ \A j \in I : j \in Nat
    OBVIOUS
  <2>2. Upto(x) \in SUBSET Upto(y)
    <3>1. \A j \in Upto(x) : j \in Upto(y)
      BY <1>5, <2>1
    <3> QED BY <3>1
  <2>3. y \in Upto(y) /\ y \notin Upto(x)
    BY <1>5, <2>1
  <2> HIDE DEF Upto
  <2> QED BY <1>2, <2>2, <2>3, FS_Subset
<1> SUFFICES ASSUME \A i \in I : Cardinality(Upto(i)) # k PROVE FALSE
  OBVIOUS
<1>6. f \in [I -> T]
  BY <1>2
<1>7. PICK x, y \in I : x # y /\ f[x] = f[y]
  <2> HIDE DEF f, T, N
  <2> QED BY <1>1, <1>4, <1>6, FS_PigeonHole DEF N
<1> HIDE DEF Upto
<1> QED BY <1>5, <1>7

LEMMA SublistIs ==
  ASSUME NEW S, NEW s \in Seq(S), NEW I \in SUBSET DOMAIN s
  PROVE  /\ Sublist(s, I) \in Seq(S)
         /\ \A k \in DOMAIN Sublist(s, I) : \E i \in I : Sublist(s, I)[k] = s[i]
<1>1. I \subseteq 1 .. Len(s) /\ Len(s) \in Nat
  OBVIOUS
<1>2. Cardinality(I) \in Nat
  <2>1. IsFiniteSet(1 .. Len(s))
    BY <1>1, FS_Interval
  <2>2. IsFiniteSet(I)
    BY <1>1, <2>1, FS_Subset
  <2> QED BY <2>2, FS_CardinalityType
<1> DEFINE At(k) == CHOOSE i \in I : Cardinality({j \in I : j <= i}) = k
<1>3. ASSUME NEW k \in 1 .. Cardinality(I) PROVE At(k) \in I
  BY <1>1, RankIs
<1> HIDE DEF At
<1>4. [k \in 1 .. Cardinality(I) |-> s[At(k)]] \in Seq(S)
  <2>1. [k \in 1 .. Cardinality(I) |-> s[At(k)]] \in [1 .. Cardinality(I) -> S]
    BY <1>1, <1>3
  <2> QED BY <1>2, <2>1
<1> QED BY <1>3, <1>4 DEF Sublist, At

\* Stops handed to TRD.
LEMMA StopSentGood ==
  ASSUME NEW d, NEW O, NEW A, NEW G, Good(d, O, A, G), NEW T \in SUBSET Tids, NEW refused
  PROVE  LET e == StopSent(d, T, refused) IN
         /\ Good(e, O, A, G) /\ T \cap (e.running \ e.lost) = {}
         /\ e.running \ e.lost \subseteq d.running \ d.lost
<1> DEFINE e == StopSent(d, T, refused)
<1>1. /\ e \in Daemon /\ e.tids = d.tids
      /\ e.clients = d.clients /\ e.box = d.box
      /\ e.running = d.running \ (T \ refused) /\ e.lost = d.lost \cup (T \cap refused)
      /\ e.spread = d.spread /\ e.ptrcs = d.ptrcs /\ e.tcmps = d.tcmps /\ e.air = d.air
      /\ e.streams = d.streams
  BY DEF Good, Daemon, StopSent
<1> HIDE DEF e
<1>2. Bound(e, A)
  BY <1>1 DEF Good, Bound
<1>3. Kinds(e, O)
  <2>1. Unicast(e) = Unicast(d) /\ OfTasks(e) = OfTasks(d) /\ OfOthers(e) = OfOthers(d)
    BY <1>1 DEF Unicast, OfTasks, OfOthers
  <2>2. \A x : HasTid(e, x) <=> HasTid(d, x)
    BY <1>1 DEF HasTid
  <2> QED BY <1>1, <2>1, <2>2 DEF Good, Kinds
<1>4. Stoppable(e)
  BY <1>1 DEF Good, Stoppable
<1>5. Told(e, A, G)
  BY <1>1 DEF Good, Told
<1>6. Good(e, O, A, G)
  BY <1>1, <1>2, <1>3, <1>4, <1>5 DEF Good
<1>7. T \cap (e.running \ e.lost) = {} /\ e.running \ e.lost \subseteq d.running \ d.lost
  BY <1>1
<1> QED BY <1>6, <1>7 DEF e

\* What a connection of the packet transport on the list must be.
LEMMA PtrListGood ==
  ASSUME NEW d, NEW O, NEW A, NEW G, Good(d, O, A, G), NEW q \in Seq(PtrConn),
         \A i \in DOMAIN q : /\ q[i].tid \in OfTasks(d) /\ q[i].packet # "stop"
                             /\ q[i].alarm # "off" => q[i].tid \in Unicast(d)
  PROVE  Good([d EXCEPT !.ptrcs = q], O, A, G)
<1>1. [d EXCEPT !.ptrcs = q] = [d EXCEPT !.ptrcs = q, !.air = @ \cup {}]
  BY DEF Good, Daemon
<1>2. Good([d EXCEPT !.ptrcs = q, !.air = @ \cup {}], O, A, G)
  BY PtrsGood DEF Tasked
<1> QED BY <1>1, <1>2

LEMMA PtrDeleteGood ==
  ASSUME NEW d, NEW O, NEW A, NEW G, Good(d, O, A, G), NEW T
  PROVE  /\ Good(PtrDelete(d, T), O, A, G)
         /\ \E q : PtrDelete(d, T) = [d EXCEPT !.ptrcs = q]
<1> DEFINE I == {i \in DOMAIN d.ptrcs : d.ptrcs[i].tid \notin T}
           q == Sublist(d.ptrcs, I)
<1>1. d.ptrcs \in Seq(PtrConn)
  BY DEF Good, Daemon
<1>2. q \in Seq(PtrConn) /\ \A k \in DOMAIN q : \E i \in I : q[k] = d.ptrcs[i]
  <2>1. I \in SUBSET DOMAIN d.ptrcs
    OBVIOUS
  <2> HIDE DEF I
  <2> QED BY <1>1, <2>1, SublistIs
<1>3. PtrDelete(d, T) = [d EXCEPT !.ptrcs = q]
  BY DEF PtrDelete
<1> HIDE DEF q
<1>4. \A k \in DOMAIN q : /\ q[k].tid \in OfTasks(d) /\ q[k].packet # "stop"
                          /\ q[k].alarm # "off" => q[k].tid \in Unicast(d)
  BY <1>2 DEF Good, Kinds
<1>5. Good([d EXCEPT !.ptrcs = q], O, A, G)
  BY <1>2, <1>4, PtrListGood
<1> QED BY <1>3, <1>5

LEMMA ClosedGood ==
  ASSUME NEW d, NEW O, NEW A, NEW G, Good(d, O, A, G), NEW T, T \cap (d.running \ d.lost) = {}
  PROVE  LET e == ConnectionsClosed(d, T) IN
         /\ Good(e, O, A, G)
         /\ e.tids = d.tids /\ e.clients = d.clients /\ e.box = d.box /\ e.reading = d.reading
         /\ e.running = d.running /\ e.lost = d.lost /\ e.spread = d.spread
         /\ e.air = d.air /\ e.myTID = d.myTID /\ e.stored = d.stored /\ e.unsaved = d.unsaved
         /\ \A c \in e.streams : c.pending =>
              c.tid \in T \/ \E b \in d.streams : b.tid = c.tid /\ b.pending
<1> DEFINE p == PtrDelete(d, T)
           S == {c \in p.streams : c.tid \notin T}
                \cup {[c EXCEPT !.pending = TRUE] : c \in {c \in p.streams : c.tid \in T}}
           e == [p EXCEPT !.streams = S]
<1>1. Good(p, O, A, G)
  BY PtrDeleteGood
<1>2. PICK q : p = [d EXCEPT !.ptrcs = q]
  BY PtrDeleteGood
<1> HIDE DEF p
<1>3. /\ p.tids = d.tids /\ p.clients = d.clients /\ p.box = d.box /\ p.reading = d.reading
      /\ p.streams = d.streams
      /\ p.running = d.running /\ p.lost = d.lost /\ p.spread = d.spread
      /\ p.air = d.air /\ p.myTID = d.myTID /\ p.stored = d.stored /\ p.unsaved = d.unsaved
  BY <1>2
<1>4. /\ p \in Daemon /\ p.streams \subseteq Stream
      /\ \A c \in p.streams : c.tid \in OfTasks(p) /\ (c.pending => c.tid \notin p.running \ p.lost)
  BY <1>1 DEF Good, Daemon, Kinds, Stoppable
<1>5. S \in SUBSET Stream
  BY <1>4 DEF Stream
<1>6. /\ \A c \in S : c.tid \in OfTasks(p) /\ (c.pending => c.tid \notin p.running \ p.lost)
      /\ \A c \in S : c.pending => c.tid \in T \/ \E b \in d.streams : b.tid = c.tid /\ b.pending
  BY <1>3, <1>4 DEF Stream
<1> HIDE DEF S
<1>7. Good(e, O, A, G)
  BY <1>1, <1>5, <1>6, StreamsGood
<1>8. /\ e.tids = d.tids /\ e.clients = d.clients /\ e.box = d.box /\ e.reading = d.reading
      /\ e.running = d.running /\ e.lost = d.lost /\ e.spread = d.spread
      /\ e.air = d.air /\ e.myTID = d.myTID /\ e.stored = d.stored /\ e.unsaved = d.unsaved
      /\ e.streams = S
  BY <1>3
<1>9. e = ConnectionsClosed(d, T)
  BY DEF ConnectionsClosed, p, S
<1> QED BY <1>6, <1>7, <1>8, <1>9

\* Nothing is written, and what is done with stays so.
Settled(d, e) ==
  /\ \A t \in e.tids : HasTid(d, t.tid)
  /\ e.running \ e.lost \subseteq d.running \ d.lost
  /\ \A c \in e.streams : c.pending =>
       HasTid(d, c.tid) \/ \E b \in d.streams : b.tid = c.tid /\ b.pending

LEMMA SilentFinal ==
  ASSUME NEW d, NEW e, Final(d), e.box = d.box, Settled(d, e)
  PROVE  Final(e)
<1> SUFFICES ASSUME NEW s \in Sessions, NEW i \in DOMAIN d.box[s], d.box[s][i].type = "CLOSE_ACK",
                    NEW tid, tid = d.box[s][i].tid
             PROVE  /\ ~HasTid(e, tid) /\ tid \notin e.running \ e.lost
                    /\ \A c \in e.streams : c.tid = tid => ~c.pending
                    /\ \A j \in DOMAIN d.box[s] : i < j => d.box[s][j].tid # tid
  BY DEF Final
<1>1. /\ ~HasTid(d, tid) /\ tid \notin d.running \ d.lost
      /\ \A c \in d.streams : c.tid = tid => ~c.pending
      /\ \A j \in DOMAIN d.box[s] : i < j => d.box[s][j].tid # tid
  BY DEF Final
<1>2. ~HasTid(e, tid)
  BY <1>1 DEF Settled, HasTid
<1> QED BY <1>1, <1>2 DEF Settled

\* A message is written about a tid that has a binding, and so was not done with.
LEMMA AddsFinal ==
  ASSUME NEW d \in Daemon, NEW e, NEW m, Final(d), Adds(d, e, m), Settled(d, e),
         m.type = "CLOSE_ACK" => /\ ~HasTid(e, m.tid) /\ m.tid \notin e.running \ e.lost
                                 /\ \A c \in e.streams : c.tid # m.tid
  PROVE  Final(e)
<1> SUFFICES ASSUME NEW s \in Sessions, NEW i \in DOMAIN e.box[s], e.box[s][i].type = "CLOSE_ACK",
                    NEW tid, tid = e.box[s][i].tid
             PROVE  /\ ~HasTid(e, tid) /\ tid \notin e.running \ e.lost
                    /\ \A c \in e.streams : c.tid = tid => ~c.pending
                    /\ \A j \in DOMAIN e.box[s] : i < j => e.box[s][j].tid # tid
  BY DEF Final
<1> DEFINE n == Len(d.box[s])
<1>1. d.box[s] \in Seq(Message)
  BY DEF Daemon
<1>2. \/ e.box[s] = d.box[s]
      \/ /\ DOMAIN e.box[s] = DOMAIN d.box[s] \cup {n + 1} /\ e.box[s][n + 1] = m
         /\ \A k \in DOMAIN d.box[s] : e.box[s][k] = d.box[s][k]
         /\ HasTid(d, m.tid)
  BY <1>1 DEF Adds, HasTid
<1>3. n \in Nat /\ DOMAIN d.box[s] = 1 .. n
  BY <1>1
<1> HIDE DEF n
<1>4. CASE i \in DOMAIN d.box[s]
  <2>1. d.box[s][i].type = "CLOSE_ACK" /\ d.box[s][i].tid = tid
    BY <1>2, <1>4
  <2>2. /\ ~HasTid(d, tid) /\ tid \notin d.running \ d.lost
        /\ \A c \in d.streams : c.tid = tid => ~c.pending
        /\ \A j \in DOMAIN d.box[s] : i < j => d.box[s][j].tid # tid
    BY <1>4, <2>1 DEF Final
  <2>3. ~HasTid(e, tid)
    BY <2>2 DEF Settled, HasTid
  <2>4. \A j \in DOMAIN e.box[s] : i < j => e.box[s][j].tid # tid
    BY <1>2, <2>2
  <2> QED BY <2>2, <2>3, <2>4 DEF Settled
<1>5. CASE i \notin DOMAIN d.box[s]
  <2>1. i = n + 1 /\ e.box[s][i] = m /\ \A j \in DOMAIN e.box[s] : ~(i < j)
    BY <1>2, <1>3, <1>5
  <2> QED BY <2>1
<1> QED BY <1>4, <1>5

\* check_close_done: the CLOSE_ACK, and the end of the binding.
LEMMA CloseCheckedGood ==
  ASSUME NEW d, NEW O, NEW A, NEW G, Good(d, O, A, G), NEW tid \in Tids,
         tid \notin d.running \ d.lost,
         \A t \in d.tids : t.tid = tid => t.type \in OfTask
  PROVE  LET e == CloseChecked(d, tid) IN
         /\ Good(e, O, A, G)
         /\ e.reading = d.reading /\ e.myTID = d.myTID /\ e.stored = d.stored
         /\ e.unsaved = d.unsaved /\ e.air = d.air
         /\ e.tids \subseteq d.tids /\ e.streams = d.streams
         /\ e.running = d.running /\ d.lost \subseteq e.lost
         /\ \/ e.box = d.box
            \/ /\ \A c \in d.streams : c.tid # tid
               /\ ~HasTid(e, tid)
               /\ \E m \in Message : m.type = "CLOSE_ACK" /\ m.tid = tid /\ Adds(d, e, m)
<1> DEFINE m == [type |-> "CLOSE_ACK", tid |-> tid, addr |-> TidOf(d, tid).addr, seq |-> 0]
           f == SendToTid(d, m)
           e == RemoveTid(f, tid)
<1>1. CASE ~HasTid(d, tid) \/ ConnectionsAlive(d, tid)
  BY <1>1 DEF CloseChecked
<1>2. CASE HasTid(d, tid) /\ ~ConnectionsAlive(d, tid)
  <2>1. CloseChecked(d, tid) = e
    BY <1>2 DEF CloseChecked, SendToApp
  <2>2. d \in Daemon
    BY DEF Good
  <2>3. m \in Message /\ m.type = "CLOSE_ACK" /\ m.tid = tid
    <3>1. TidOf(d, tid).addr \in Motes \cup {BCAST}
      BY <1>2, <2>2, TidIs DEF Daemon, Binding
    <3> HIDE DEF TidOf
    <3> QED BY <3>1 DEF Message
  <2> HIDE DEF m
  <2>4. Sayable(d, G, m)
    BY <2>3 DEF Sayable
  <2>5. Good(f, O, A, G)
    BY <2>4, SendToTidGood
  <2>6. /\ f \in Daemon /\ Adds(d, f, m) /\ f.running = d.running /\ d.lost \subseteq f.lost
        /\ f.reading = d.reading /\ f.myTID = d.myTID /\ f.stored = d.stored
        /\ f.unsaved = d.unsaved /\ f.air = d.air
        /\ f.tids \subseteq d.tids /\ f.streams = d.streams
    BY <2>2, <2>3, SentIs
  <2> HIDE DEF f
  <2>7. Good(e, O, A, G)
    BY <2>5, <2>6, RemoveTidGood
  <2>8. /\ e.box = f.box /\ e.reading = f.reading /\ e.myTID = f.myTID /\ e.stored = f.stored
        /\ e.unsaved = f.unsaved /\ e.running = f.running /\ e.lost = f.lost
        /\ e.air = f.air /\ e.streams = f.streams /\ e.tids = {t \in f.tids : t.tid # tid}
    BY <2>6 DEF RemoveTid, Daemon
  <2> HIDE DEF e
  <2>9. Adds(d, e, m)
    BY <2>6, <2>8 DEF Adds
  <2>10. (\A c \in d.streams : c.tid # tid) /\ ~HasTid(e, tid)
    BY <1>2, <2>8 DEF ConnectionsAlive, HasTid
  <2> QED BY <2>1, <2>3, <2>6, <2>7, <2>8, <2>9, <2>10
<1> QED BY <1>1, <1>2

-----------------------------------------------------------------------------
(* The packet transport.                                                     *)

PtrIs(c, tid, addr) == c.tid = tid /\ c.addr = addr

LEMMA PtrAtIs ==
  ASSUME NEW d, NEW tid, NEW addr, IsPtr(d, tid, addr)
  PROVE  PtrAt(d, tid, addr) \in DOMAIN d.ptrcs /\ PtrIs(d.ptrcs[PtrAt(d, tid, addr)], tid, addr)
BY DEF IsPtr, PtrAt, PtrIs

LEMMA WithPtrIs ==
  ASSUME NEW d \in Daemon, NEW tid \in Tids, NEW addr \in Motes
  PROVE  LET q == WithPtr(d, tid, addr).ptrcs IN
         /\ WithPtr(d, tid, addr) = [d EXCEPT !.ptrcs = q]
         /\ q \in Seq(PtrConn) /\ IsPtr(WithPtr(d, tid, addr), tid, addr)
         /\ \A i \in DOMAIN q :
              \/ \E j \in DOMAIN d.ptrcs : q[i] = d.ptrcs[j]
              \/ PtrIs(q[i], tid, addr) /\ q[i].packet = NoPacket /\ q[i].alarm = "off"
<1> DEFINE c == [tid |-> tid, addr |-> addr, sent |-> 0, packet |-> NoPacket, retx |-> 0, alarm |-> "off"]
           p == <<c>> \o d.ptrcs
<1>1. d.ptrcs \in Seq(PtrConn)
  BY DEF Daemon
<1>2. CASE IsPtr(d, tid, addr)
  <2>1. WithPtr(d, tid, addr) = d
    BY <1>2 DEF WithPtr
  <2>2. d = [d EXCEPT !.ptrcs = d.ptrcs]
    BY DEF Daemon
  <2> QED BY <1>1, <1>2, <2>1, <2>2
<1>3. CASE ~IsPtr(d, tid, addr)
  <2>1. WithPtr(d, tid, addr) = [d EXCEPT !.ptrcs = p]
    BY <1>3 DEF WithPtr
  <2>2. c \in PtrConn /\ PtrIs(c, tid, addr) /\ c.packet = NoPacket /\ c.alarm = "off"
    BY PtrAssumption DEF PtrConn, PtrIs
  <2> HIDE DEF c
  <2>3. /\ p \in Seq(PtrConn) /\ 1 \in DOMAIN p /\ p[1] = c
        /\ \A i \in DOMAIN p : i = 1 \/ (i - 1 \in DOMAIN d.ptrcs /\ p[i] = d.ptrcs[i - 1])
    BY <1>1, <2>2
  <2> HIDE DEF p
  <2>4. WithPtr(d, tid, addr).ptrcs = p
    BY <2>1 DEF Daemon
  <2>5. IsPtr(WithPtr(d, tid, addr), tid, addr)
    BY <2>2, <2>3, <2>4 DEF IsPtr, PtrIs
  <2> QED BY <2>1, <2>2, <2>3, <2>4, <2>5
<1> QED BY <1>2, <1>3

\* A packet put in hand.
LEMMA HandedIs ==
  ASSUME NEW r \in PtrConn, NEW what \in {"task", "stop"}
  PROVE  LET c == [r EXCEPT !.packet = what, !.retx = 0, !.sent = @ + 1, !.alarm = "running"]
         IN  c \in PtrConn /\ c.tid = r.tid /\ c.addr = r.addr /\ c.packet = what
<1>1. r.sent + 1 \in Nat /\ 0 \in 0 .. PTR_MAX_NUM_RETX
  BY PtrAssumption DEF PtrConn
<1> QED BY <1>1 DEF PtrConn

\* e is d with a packet for a mote put in hand and sent.
Sends(d, e, tid, what) ==
  \E q \in Seq(PtrConn), x \in Air :
    /\ e = [d EXCEPT !.ptrcs = q, !.air = @ \cup {x}]
    /\ x.what = what /\ x.tid = tid
    /\ \A i \in DOMAIN q :
         \/ \E j \in DOMAIN d.ptrcs : q[i] = d.ptrcs[j]
         \/ q[i].tid = tid /\ q[i].packet \in {NoPacket, what}

LEMMA PtrSendIs ==
  ASSUME NEW d \in Daemon, NEW tid \in Tids, NEW addr \in Motes, NEW what \in {"task", "stop"}
  PROVE  Sends(d, PtrSend(d, tid, addr, what), tid, what)
<1> DEFINE e == WithPtr(d, tid, addr)
           p == e.ptrcs
           i == PtrAt(e, tid, addr)
           r == p[i]
           c == [r EXCEPT !.packet = what, !.retx = 0, !.sent = @ + 1, !.alarm = "running"]
           q == [p EXCEPT ![i] = c]
           x == OnAir(c)
<1>1. PtrSend(d, tid, addr, what) = [d EXCEPT !.ptrcs = q, !.air = @ \cup {x}]
  BY DEF PtrSend
<1>2. /\ p \in Seq(PtrConn) /\ IsPtr(e, tid, addr)
      /\ \A k \in DOMAIN p :
           \/ \E j \in DOMAIN d.ptrcs : p[k] = d.ptrcs[j]
           \/ PtrIs(p[k], tid, addr) /\ p[k].packet = NoPacket
  BY WithPtrIs
<1>3. i \in DOMAIN p /\ PtrIs(r, tid, addr)
  BY <1>2, PtrAtIs
<1> HIDE DEF p, i, e
<1>4. r \in PtrConn
  BY <1>2, <1>3
<1> HIDE DEF r
<1>5. c \in PtrConn /\ c.tid = tid /\ c.addr = addr /\ c.packet = what
  BY <1>3, <1>4, HandedIs DEF PtrIs
<1> HIDE DEF c
<1>6. x \in Air /\ x.what = what /\ x.tid = tid /\ x.addr = addr
  BY <1>5 DEF Air, OnAir, PtrConn
<1> HIDE DEF x
<1>7. q \in Seq(PtrConn) /\ DOMAIN q = DOMAIN p /\ q[i] = c /\ \A k \in DOMAIN p \ {i} : q[k] = p[k]
  BY <1>2, <1>3, <1>5
<1> HIDE DEF q
<1>8. \A k \in DOMAIN q : \/ \E j \in DOMAIN d.ptrcs : q[k] = d.ptrcs[j]
                          \/ q[k].tid = tid /\ q[k].packet \in {NoPacket, what}
  BY <1>2, <1>5, <1>7 DEF PtrIs
<1>9. q \in Seq(PtrConn) /\ x \in Air
  BY <1>6, <1>7
<1> QED BY <1>1, <1>6, <1>8, <1>9 DEF Sends

\* A stop is added to what is on the air.
LEMMA StopIs ==
  ASSUME NEW d \in Daemon, NEW tid \in Tids, NEW addr \in Motes
  PROVE  \A m \in PtrSend(d, tid, addr, "stop").air :
           m \in d.air \/ (m \in Air /\ m.what = "stop" /\ m.tid = tid)
<1> DEFINE e == PtrSend(d, tid, addr, "stop")
<1>1. Sends(d, e, tid, "stop")
  BY PtrSendIs
<1> HIDE DEF e
<1>2. PICK q \in Seq(PtrConn), x \in Air :
        e = [d EXCEPT !.ptrcs = q, !.air = @ \cup {x}] /\ x.what = "stop" /\ x.tid = tid
  BY <1>1 DEF Sends
<1>3. e.air = d.air \cup {x}
  BY <1>2 DEF Daemon
<1>4. \A m \in e.air : m \in d.air \/ (m \in Air /\ m.what = "stop" /\ m.tid = tid)
  BY <1>2, <1>3
<1> QED BY <1>4 DEF e

\* rem_client, for each descriptor of F.
Left(d, e) ==
  /\ e.box = d.box /\ e.reading = d.reading
  /\ e.myTID = d.myTID /\ e.stored = d.stored /\ e.unsaved = d.unsaved
  /\ d.air \subseteq e.air /\ Unicast(e) = Unicast(d) /\ e.tids \subseteq d.tids
  /\ Settled(d, e)

LEMMA ClientRemovedGood ==
  ASSUME NEW d, NEW O, NEW A, NEW G, Good(d, O, A, G), NEW F \in SUBSET Fds, NEW refused
  PROVE  LET e == ClientRemoved(d, F, refused) IN Good(e, O, A, G) /\ Left(d, e)
<1> DEFINE all == Owned(d, F)
           some == {t \in all : t.addr # BCAST}
           T == TidsOf(all)
           N == TidsOf(all \ some)
           a == StopSent(d, N, refused)
           b == ConnectionsClosed(a, T)
           stops == UNION {PtrSend(d, t.tid, t.addr, "stop").air : t \in some}
           e == ClientRemoved(d, F, refused)
<1>1. d \in Daemon /\ all \subseteq d.tids /\ d.tids \subseteq Binding
  BY DEF Good, Daemon, Owned
<1>2. N \in SUBSET Tids
  BY <1>1 DEF TidsOf, Binding
<1>3. /\ Good(a, O, A, G) /\ N \cap (a.running \ a.lost) = {}
      /\ a.running \ a.lost \subseteq d.running \ d.lost
  <2> HIDE DEF N
  <2> QED BY <1>2, StopSentGood
<1>4. /\ a.tids = d.tids /\ a.clients = d.clients /\ a.box = d.box /\ a.reading = d.reading
      /\ a.streams = d.streams
      /\ a.air = d.air /\ a.myTID = d.myTID /\ a.stored = d.stored /\ a.unsaved = d.unsaved
  <2> HIDE DEF N
  <2> QED BY <1>1 DEF StopSent, Daemon
<1> HIDE DEF a
<1>5. T \cap (a.running \ a.lost) = {}
  <2>1. \A t \in some : t.tid \in Unicast(d)
    BY <1>1 DEF Owned, OfTask, Good, Kinds
  <2>2. Unicast(d) \cap d.running = {}
    BY DEF Good, Kinds, Stoppable
  <2> QED BY <1>3, <2>1, <2>2 DEF TidsOf
<1>6. /\ Good(b, O, A, G)
      /\ b.tids = d.tids /\ b.clients = d.clients /\ b.box = d.box /\ b.reading = d.reading
      /\ b.running = a.running /\ b.lost = a.lost
      /\ b.air = d.air /\ b.myTID = d.myTID /\ b.stored = d.stored /\ b.unsaved = d.unsaved
      /\ \A c \in b.streams : c.pending =>
           c.tid \in T \/ \E x \in d.streams : x.tid = c.tid /\ x.pending
  <2> HIDE DEF T
  <2> QED BY <1>3, <1>4, <1>5, ClosedGood
<1> HIDE DEF b
<1>7. /\ stops \subseteq Air
      /\ \A m \in stops : m \in d.air \/ (m.what = "stop" /\ \E t \in some : m.tid = t.tid)
  <2>1. ASSUME NEW t \in some
        PROVE  \A m \in PtrSend(d, t.tid, t.addr, "stop").air :
                 m \in d.air \/ (m \in Air /\ m.what = "stop" /\ m.tid = t.tid)
    <3>1. t.tid \in Tids /\ t.addr \in Motes
      BY <1>1 DEF Binding
    <3> QED BY <1>1, <3>1, StopIs
  <2>2. d.air \subseteq Air
    BY <1>1 DEF Daemon
  <2> HIDE DEF some
  <2> QED BY <2>1, <2>2
<1>8. /\ e \in Daemon /\ e.tids = d.tids \ all
      /\ e.clients = [f \in Fds |-> IF f \in F THEN NoApp ELSE d.clients[f]]
      /\ e.box = d.box /\ e.running = b.running /\ e.lost = b.lost
      /\ e.spread = b.spread /\ e.ptrcs = b.ptrcs /\ e.tcmps = b.tcmps /\ e.air = d.air \cup stops
      /\ e.streams = b.streams
      /\ e.reading = d.reading /\ e.myTID = d.myTID /\ e.stored = d.stored /\ e.unsaved = d.unsaved
  <2>1. b \in Daemon
    BY <1>6 DEF Good
  <2>2. [f \in Fds |-> IF f \in F THEN NoApp ELSE b.clients[f]] \in [Fds -> Sessions \cup {NoApp}]
    BY <2>1 DEF Daemon
  <2>3. AllClosed(d, F, refused) = [b EXCEPT !.tids = @ \ all, !.air = @ \cup stops]
    BY DEF AllClosed, a, b, stops, N, T, some, all
  <2> HIDE DEF stops
  <2>4. e = [[b EXCEPT !.tids = @ \ all, !.air = @ \cup stops] EXCEPT
               !.clients = [f \in Fds |-> IF f \in F THEN NoApp ELSE @[f]]]
    BY <2>3 DEF ClientRemoved
  <2> HIDE DEF e, all
  <2> QED BY <1>6, <1>7, <2>1, <2>2, <2>4 DEF Daemon
<1> HIDE DEF e, stops
<1>9. Unicast(e) = Unicast(d) /\ Unicast(b) = Unicast(d)
  BY <1>6, <1>7, <1>8 DEF Unicast
<1>10. Bound(e, A)
  BY <1>1, <1>8 DEF Good, Bound, Owned, OfTask, Daemon, Binding
<1>11. Kinds(e, O)
  <2>1. OfTasks(e) = OfTasks(b) /\ OfOthers(e) \subseteq OfOthers(b)
    BY <1>6, <1>7, <1>8, <1>9 DEF OfTasks, OfOthers
  <2>2. \A x : HasTid(e, x) => HasTid(b, x) /\ x \notin T
    BY <1>1, <1>6, <1>8 DEF HasTid, Good, Bound, TidsOf
  <2>3. \A t \in some : t.tid \in T /\ t.tid \in Unicast(d)
    BY <1>1 DEF Owned, OfTask, Good, Kinds, TidsOf
  <2> HIDE DEF some, T, all
  <2>4. \A m \in e.air : m.what = "stop" => m.tid \in Unicast(e) /\ ~HasTid(e, m.tid)
    BY <1>6, <1>7, <1>8, <1>9, <2>2, <2>3 DEF Good, Kinds
  <2> QED BY <1>6, <1>8, <1>9, <2>1, <2>4 DEF Good, Kinds
<1>12. Stoppable(e)
  BY <1>5, <1>6, <1>8 DEF Good, Stoppable, TidsOf
<1>13. Told(e, A, G)
  BY <1>6, <1>8 DEF Good, Told
<1>14. Good(e, O, A, G)
  BY <1>6, <1>8, <1>10, <1>11, <1>12, <1>13 DEF Good
<1>15. Settled(d, e)
  <2>1. \A x \in T : HasTid(d, x)
    BY <1>1 DEF TidsOf, HasTid
  <2> HIDE DEF T
  <2>2. \A t \in e.tids : HasTid(d, t.tid)
    BY <1>8 DEF HasTid
  <2> QED BY <1>3, <1>6, <1>8, <2>1, <2>2 DEF Settled
<1>16. Left(d, e)
  BY <1>1, <1>8, <1>9, <1>15 DEF Left
<1> QED BY <1>14, <1>16 DEF e

-----------------------------------------------------------------------------
(* What packets and timers make of the daemon.                               *)

\* A session may be told m in state e: of commands, only once it has sent a task to
\* one mote.
Fit(e, m) == IsCommand(m) => m.tid \in Unicast(e)

Answered(d, e) ==
  /\ e.reading = d.reading /\ e.myTID = d.myTID /\ e.stored = d.stored /\ e.unsaved = d.unsaved
  /\ d.air \subseteq e.air /\ \A t \in e.tids : HasTid(d, t.tid)
  /\ \A s \in Sessions :
       /\ DOMAIN d.box[s] \subseteq DOMAIN e.box[s]
       /\ \A i \in DOMAIN d.box[s] : e.box[s][i] = d.box[s][i]
       /\ \A i \in DOMAIN e.box[s] \ DOMAIN d.box[s] : s \in d.reading /\ Fit(e, e.box[s][i])

Moves(d, e, O, A, G) ==
  Good(e, O, A, G) /\ Answered(d, e) /\ e.streams = d.streams /\ (Final(d) => Final(e))

LEMMA SilentAnswered ==
  ASSUME NEW d, NEW e, e.box = d.box, e.reading = d.reading,
         e.myTID = d.myTID, e.stored = d.stored, e.unsaved = d.unsaved, d.air \subseteq e.air, e.tids \subseteq d.tids
  PROVE  Answered(d, e)
BY DEF Answered, HasTid

LEMMA SilentMoves ==
  ASSUME NEW d, NEW O, NEW A, NEW G, NEW e, Good(e, O, A, G), e.box = d.box, e.reading = d.reading,
         e.myTID = d.myTID, e.stored = d.stored, e.unsaved = d.unsaved,
         d.air \subseteq e.air, e.tids \subseteq d.tids,
         e.streams = d.streams, e.running \ e.lost \subseteq d.running \ d.lost
  PROVE  Moves(d, e, O, A, G)
<1>1. Answered(d, e)
  BY SilentAnswered
<1>2. Settled(d, e)
  BY DEF Settled, HasTid
<1>3. Final(d) => Final(e)
  BY <1>2, SilentFinal
<1> QED BY <1>1, <1>3 DEF Moves

LEMMA MovesTrans ==
  ASSUME NEW d, NEW e, NEW f, NEW O, NEW A, NEW G, Moves(d, e, O, A, G), Moves(e, f, O, A, G)
  PROVE  Moves(d, f, O, A, G)
<1>1. Unicast(e) \subseteq Unicast(f) /\ f.streams = d.streams /\ f.streams = e.streams
  BY DEF Moves, Answered, Unicast
<1>2. \A t \in f.tids : HasTid(d, t.tid)
  BY DEF Moves, Answered, HasTid
<1>3. ASSUME NEW s \in Sessions, NEW i \in DOMAIN f.box[s] \ DOMAIN d.box[s]
      PROVE  s \in d.reading /\ Fit(f, f.box[s][i])
  <2>1. CASE i \in DOMAIN e.box[s]
    <3>1. s \in d.reading /\ Fit(e, e.box[s][i]) /\ f.box[s][i] = e.box[s][i]
      BY <2>1 DEF Moves, Answered
    <3> QED BY <1>1, <3>1 DEF Fit
  <2>2. CASE i \notin DOMAIN e.box[s]
    BY <2>2 DEF Moves, Answered
  <2> QED BY <2>1, <2>2
<1>4. \A s \in Sessions : /\ DOMAIN d.box[s] \subseteq DOMAIN f.box[s]
                          /\ \A i \in DOMAIN d.box[s] : f.box[s][i] = d.box[s][i]
  BY DEF Moves, Answered
<1>5. /\ f.reading = d.reading /\ f.myTID = d.myTID /\ f.stored = d.stored /\ f.unsaved = d.unsaved
      /\ d.air \subseteq f.air
  BY DEF Moves, Answered
<1>6. Answered(d, f)
  BY <1>2, <1>3, <1>4, <1>5 DEF Answered
<1> QED BY <1>1, <1>6 DEF Moves

LEMMA AddsAnswered ==
  ASSUME NEW d \in Daemon, NEW e, NEW m, Adds(d, e, m), Fit(e, m), e.reading = d.reading,
         e.myTID = d.myTID, e.stored = d.stored, e.unsaved = d.unsaved, d.air \subseteq e.air, e.tids \subseteq d.tids
  PROVE  Answered(d, e)
<1>1. ASSUME NEW s \in Sessions
      PROVE  /\ DOMAIN d.box[s] \subseteq DOMAIN e.box[s]
             /\ \A i \in DOMAIN d.box[s] : e.box[s][i] = d.box[s][i]
             /\ \A i \in DOMAIN e.box[s] \ DOMAIN d.box[s] : s \in d.reading /\ e.box[s][i] = m
  <2>1. d.box[s] \in Seq(Message)
    BY DEF Daemon
  <2>2. CASE e.box[s] = d.box[s]
    BY <2>2
  <2>3. CASE s \in d.reading /\ e.box[s] = Append(d.box[s], m)
    BY <2>1, <2>3
  <2> QED BY <2>2, <2>3 DEF Adds
<1>2. \A t \in e.tids : HasTid(d, t.tid)
  BY DEF HasTid
<1> QED BY <1>1, <1>2 DEF Answered

LEMMA SentMoves ==
  ASSUME NEW d, NEW O, NEW A, NEW G, Good(d, O, A, G), NEW m, Sayable(d, G, m), Fit(d, m),
         m.type # "CLOSE_ACK"
  PROVE  Moves(d, SendToTid(d, m), O, A, G)
<1> DEFINE e == SendToTid(d, m)
<1>1. d \in Daemon /\ m \in Message
  BY DEF Good, Sayable
<1>2. /\ Adds(d, e, m) /\ e.reading = d.reading /\ e.myTID = d.myTID /\ e.stored = d.stored
      /\ e.unsaved = d.unsaved /\ e.air = d.air /\ e.streams = d.streams /\ e.tids \subseteq d.tids
      /\ e.running = d.running /\ d.lost \subseteq e.lost
  BY <1>1, SentIs
<1>3. Good(e, O, A, G)
  BY SendToTidGood
<1> HIDE DEF e
<1>4. Fit(e, m)
  BY <1>2 DEF Fit, Unicast
<1>5. Answered(d, e)
  BY <1>1, <1>2, <1>4, AddsAnswered
<1>6. Settled(d, e)
  BY <1>2 DEF Settled, HasTid
<1>7. Final(d) => Final(e)
  BY <1>1, <1>2, <1>6, AddsFinal
<1> QED BY <1>2, <1>3, <1>5, <1>7 DEF Moves, e

LEMMA RemoveTidMoves ==
  ASSUME NEW d, NEW O, NEW A, NEW G, Good(d, O, A, G), NEW tid, tid \notin d.running \ d.lost
  PROVE  Moves(d, RemoveTid(d, tid), O, A, G)
<1> DEFINE e == RemoveTid(d, tid)
<1>1. /\ e.box = d.box /\ e.reading = d.reading /\ e.myTID = d.myTID /\ e.stored = d.stored
      /\ e.unsaved = d.unsaved /\ e.air = d.air /\ e.tids \subseteq d.tids /\ e.streams = d.streams
      /\ e.running = d.running /\ e.lost = d.lost
  BY DEF RemoveTid, Good, Daemon
<1>2. Good(e, O, A, G)
  BY RemoveTidGood
<1> HIDE DEF e
<1> QED BY <1>1, <1>2, SilentMoves DEF e

LEMMA PtrsMoves ==
  ASSUME NEW d, NEW O, NEW A, NEW G, Good(d, O, A, G),
         NEW q \in Seq(PtrConn), NEW B \in SUBSET Air,
         \A m \in B : m.what \in {NoPacket, "task"} /\ m.tid \in Unicast(d),
         \A i \in DOMAIN q : /\ q[i].tid \in OfTasks(d) /\ q[i].packet # "stop"
                             /\ q[i].alarm # "off" => q[i].tid \in Unicast(d)
  PROVE  Moves(d, [d EXCEPT !.ptrcs = q, !.air = @ \cup B], O, A, G)
<1> DEFINE e == [d EXCEPT !.ptrcs = q, !.air = @ \cup B]
<1>1. /\ e.box = d.box /\ e.reading = d.reading /\ e.myTID = d.myTID /\ e.stored = d.stored
      /\ e.unsaved = d.unsaved /\ e.air = d.air \cup B /\ e.tids = d.tids /\ e.streams = d.streams
      /\ e.running = d.running /\ e.lost = d.lost
  BY DEF Good, Daemon
<1>2. Tasked(B) \subseteq Unicast(d)
  BY DEF Tasked
<1>3. Good(e, O, A, G)
  BY <1>2, PtrsGood DEF NoPacket
<1> HIDE DEF e
<1> QED BY <1>1, <1>3, SilentMoves DEF e

LEMMA TcmpsMoves ==
  ASSUME NEW d, NEW O, NEW A, NEW G, Good(d, O, A, G),
         NEW q \in Seq(TcmpEntry), NEW B \in SUBSET Air,
         \A m \in B : m.what \in Probing,
         \A i \in DOMAIN q : q[i].tid \in O \ OfTasks(d)
  PROVE  Moves(d, [d EXCEPT !.tcmps = q, !.air = @ \cup B], O, A, G)
<1> DEFINE e == [d EXCEPT !.tcmps = q, !.air = @ \cup B]
<1>1. /\ e.box = d.box /\ e.reading = d.reading /\ e.myTID = d.myTID /\ e.stored = d.stored
      /\ e.unsaved = d.unsaved /\ e.air = d.air \cup B /\ e.tids = d.tids /\ e.streams = d.streams
      /\ e.running = d.running /\ e.lost = d.lost
  BY DEF Good, Daemon
<1>2. Good(e, O, A, G)
  BY TcmpsGood
<1> HIDE DEF e
<1> QED BY <1>1, <1>2, SilentMoves DEF e

LEMMA CloseCheckedMoves ==
  ASSUME NEW d, NEW O, NEW A, NEW G, Good(d, O, A, G), NEW tid \in Tids,
         tid \notin d.running \ d.lost,
         \A t \in d.tids : t.tid = tid => t.type \in OfTask
  PROVE  Moves(d, CloseChecked(d, tid), O, A, G)
<1> DEFINE e == CloseChecked(d, tid)
<1>1. /\ Good(e, O, A, G)
      /\ e.reading = d.reading /\ e.myTID = d.myTID /\ e.stored = d.stored
      /\ e.unsaved = d.unsaved /\ e.air = d.air
      /\ e.tids \subseteq d.tids /\ e.streams = d.streams
      /\ e.running = d.running /\ d.lost \subseteq e.lost
      /\ \/ e.box = d.box
         \/ /\ \A c \in d.streams : c.tid # tid
            /\ ~HasTid(e, tid)
            /\ \E m \in Message : m.type = "CLOSE_ACK" /\ m.tid = tid /\ Adds(d, e, m)
  BY CloseCheckedGood
<1> HIDE DEF e
<1>2. CASE e.box = d.box
  <2>1. e.running \ e.lost \subseteq d.running \ d.lost
    BY <1>1
  <2> QED BY <1>1, <1>2, <2>1, SilentMoves DEF e
<1>3. CASE e.box # d.box
  <2>1. PICK m \in Message : m.type = "CLOSE_ACK" /\ m.tid = tid /\ Adds(d, e, m)
    BY <1>1, <1>3
  <2>2. Fit(e, m)
    BY <2>1 DEF Fit, IsCommand, Commands
  <2>3. d \in Daemon
    BY DEF Good
  <2>4. Answered(d, e)
    BY <1>1, <2>1, <2>2, <2>3, AddsAnswered
  <2>5. Settled(d, e)
    BY <1>1 DEF Settled, HasTid
  <2>6. ~HasTid(e, m.tid) /\ m.tid \notin e.running \ e.lost /\ \A c \in e.streams : c.tid # m.tid
    BY <1>1, <1>3, <2>1
  <2>7. Final(d) => Final(e)
    BY <2>1, <2>3, <2>5, <2>6, AddsFinal
  <2> QED BY <1>1, <2>4, <2>7 DEF Moves, e
<1> QED BY <1>2, <1>3

-----------------------------------------------------------------------------
(* The timers and ACKs of the packet transport.                              *)

\* What a tid that is a task's cannot be, too.
LEMMA TaskIs ==
  ASSUME NEW d, NEW O, NEW A, NEW G, Good(d, O, A, G), NEW tid \in OfTasks(d)
  PROVE  /\ tid \in O /\ \A t \in d.tids : t.tid = tid => t.type \in OfTask
         /\ tid \in Unicast(d) => tid \notin d.running
BY DEF Good, Kinds, OfOthers, Stoppable

LEMMA PtrSetMoves ==
  ASSUME NEW d, NEW O, NEW A, NEW G, Good(d, O, A, G), NEW i \in DOMAIN d.ptrcs,
         NEW c \in PtrConn, c.tid = d.ptrcs[i].tid, c.packet # "stop",
         c.alarm # "off" => c.tid \in Unicast(d), NEW B \in SUBSET Air,
         \A m \in B : m.what \in {NoPacket, "task"} /\ m.tid \in Unicast(d)
  PROVE  Moves(d, [d EXCEPT !.ptrcs = [d.ptrcs EXCEPT ![i] = c], !.air = @ \cup B], O, A, G)
<1> DEFINE q == [d.ptrcs EXCEPT ![i] = c]
<1>1. d.ptrcs \in Seq(PtrConn)
  BY DEF Good, Daemon
<1>2. q \in Seq(PtrConn) /\ DOMAIN q = DOMAIN d.ptrcs /\ \A k \in DOMAIN q : q[k] = IF k = i THEN c ELSE d.ptrcs[k]
  BY <1>1
<1> HIDE DEF q
<1>3. \A k \in DOMAIN q : /\ q[k].tid \in OfTasks(d) /\ q[k].packet # "stop"
                          /\ q[k].alarm # "off" => q[k].tid \in Unicast(d)
  BY <1>2 DEF Good, Kinds
<1>4. Moves(d, [d EXCEPT !.ptrcs = q, !.air = @ \cup B], O, A, G)
  BY <1>2, <1>3, PtrsMoves
<1> QED BY <1>4 DEF q

\* The connection at i becomes c, and nothing is sent.
LEMMA PtrChangeMoves ==
  ASSUME NEW d, NEW O, NEW A, NEW G, Good(d, O, A, G), NEW i \in DOMAIN d.ptrcs,
         NEW c \in PtrConn, c.tid = d.ptrcs[i].tid, c.packet # "stop",
         c.alarm # "off" => c.tid \in Unicast(d)
  PROVE  Moves(d, [d EXCEPT !.ptrcs = [d.ptrcs EXCEPT ![i] = c]], O, A, G)
<1>1. [d EXCEPT !.ptrcs = [d.ptrcs EXCEPT ![i] = c]]
        = [d EXCEPT !.ptrcs = [d.ptrcs EXCEPT ![i] = c], !.air = @ \cup {}]
  BY DEF Good, Daemon
<1>2. Moves(d, [d EXCEPT !.ptrcs = [d.ptrcs EXCEPT ![i] = c], !.air = @ \cup {}], O, A, G)
  BY PtrSetMoves
<1> QED BY <1>1, <1>2

\* A connection on the list.
LEMMA PtrOnList ==
  ASSUME NEW d, NEW O, NEW A, NEW G, Good(d, O, A, G), NEW i \in DOMAIN d.ptrcs
  PROVE  /\ d.ptrcs[i] \in PtrConn /\ d.ptrcs[i].tid \in OfTasks(d) /\ d.ptrcs[i].packet # "stop"
         /\ d.ptrcs[i].alarm # "off" => d.ptrcs[i].tid \in Unicast(d)
<1>1. d.ptrcs \in Seq(PtrConn)
  BY DEF Good, Daemon
<1> QED BY <1>1 DEF Good, Kinds

LEMMA PtrFreedMoves ==
  ASSUME NEW d, NEW O, NEW A, NEW G, Good(d, O, A, G), NEW i \in DOMAIN d.ptrcs
  PROVE  LET e == PtrFreed(d, i) IN
         /\ Moves(d, e, O, A, G) /\ e.tids = d.tids /\ e.air = d.air
         /\ e.running = d.running /\ e.spread = d.spread
<1> DEFINE r == d.ptrcs[i]
           c == [r EXCEPT !.packet = NoPacket]
           e == [d EXCEPT !.ptrcs = [d.ptrcs EXCEPT ![i] = c]]
<1>1. /\ r \in PtrConn /\ r.packet # "stop"
      /\ r.alarm # "off" => r.tid \in Unicast(d)
  BY PtrOnList
<1>2. PtrFreed(d, i) = e
  BY DEF PtrFreed
<1>3. e.tids = d.tids /\ e.air = d.air /\ e.running = d.running /\ e.spread = d.spread
  BY DEF Good, Daemon
<1>4. /\ c \in PtrConn /\ c.tid = r.tid /\ c.packet # "stop"
      /\ c.alarm # "off" => c.tid \in Unicast(d)
  <2> HIDE DEF r
  <2> QED BY <1>1 DEF PtrConn, NoPacket
<1> HIDE DEF c
<1>5. Moves(d, e, O, A, G)
  BY <1>4, PtrChangeMoves
<1> QED BY <1>2, <1>3, <1>5

LEMMA PtrStoppedMoves ==
  ASSUME NEW d, NEW O, NEW A, NEW G, Good(d, O, A, G), NEW i \in DOMAIN d.ptrcs
  PROVE  LET e == PtrStopped(d, i) IN
         /\ Moves(d, e, O, A, G) /\ e.tids = d.tids /\ e.air = d.air
         /\ DOMAIN e.ptrcs = DOMAIN d.ptrcs
         /\ e.ptrcs[i].tid = d.ptrcs[i].tid /\ e.ptrcs[i].addr = d.ptrcs[i].addr
<1> DEFINE r == d.ptrcs[i]
           c == [r EXCEPT !.alarm = "off"]
           e == [d EXCEPT !.ptrcs = [d.ptrcs EXCEPT ![i] = c]]
<1>1. r \in PtrConn /\ r.packet # "stop"
  BY PtrOnList
<1>2. PtrStopped(d, i) = e
  BY DEF PtrStopped
<1>3. /\ c \in PtrConn /\ c.tid = r.tid /\ c.addr = r.addr /\ c.packet # "stop" /\ c.alarm = "off"
  <2> HIDE DEF r
  <2> QED BY <1>1 DEF PtrConn
<1> HIDE DEF c
<1>4. /\ e.tids = d.tids /\ e.air = d.air /\ DOMAIN e.ptrcs = DOMAIN d.ptrcs /\ e.ptrcs[i] = c
  BY DEF Good, Daemon
<1>5. Moves(d, e, O, A, G)
  BY <1>3, PtrChangeMoves
<1> QED BY <1>2, <1>3, <1>4, <1>5

LEMMA PtrRetxMoves ==
  ASSUME NEW d, NEW O, NEW A, NEW G, Good(d, O, A, G), NEW i \in DOMAIN d.ptrcs,
         d.ptrcs[i].tid \in Unicast(d), d.ptrcs[i].retx < PTR_MAX_NUM_RETX
  PROVE  Moves(d, PtrRetx(d, i), O, A, G)
<1> DEFINE r == d.ptrcs[i]
           c == [r EXCEPT !.retx = @ + 1, !.alarm = "running"]
           x == OnAir(c)
           e == [d EXCEPT !.ptrcs = [d.ptrcs EXCEPT ![i] = c], !.air = @ \cup {x}]
<1>1. r \in PtrConn /\ r.packet # "stop" /\ r.tid \in Unicast(d) /\ r.retx < PTR_MAX_NUM_RETX
  BY PtrOnList
<1>2. PtrRetx(d, i) = e
  BY DEF PtrRetx
<1>3. c \in PtrConn /\ c.tid = r.tid /\ c.packet = r.packet
  <2> HIDE DEF r
  <2>1. r.retx + 1 \in 0 .. PTR_MAX_NUM_RETX
    BY <1>1, PtrAssumption DEF PtrConn
  <2> QED BY <1>1, <2>1 DEF PtrConn
<1> HIDE DEF c
<1>4. x \in Air /\ x.what \in {NoPacket, "task"} /\ x.tid = r.tid
  BY <1>1, <1>3 DEF Air, OnAir, PtrConn
<1> HIDE DEF x
<1>5. Moves(d, e, O, A, G)
  BY <1>1, <1>3, <1>4, PtrSetMoves
<1> QED BY <1>2, <1>5

\* senddone_packettransport: of an ACK, which says that the mote has the task, or
\* when there are no more retransmissions.
LEMMA PtrDoneMoves ==
  ASSUME NEW d, NEW O, NEW A, NEW G, Good(d, O, A, G), NEW i \in DOMAIN d.ptrcs, NEW success,
         d.ptrcs[i].tid \in Unicast(d),
         success /\ HasTid(d, d.ptrcs[i].tid) =>
           \E g \in G : g.tid = d.ptrcs[i].tid /\ g.addr = d.ptrcs[i].addr /\ g.what = "task"
  PROVE  Moves(d, PtrDone(d, i, success), O, A, G)
<1> DEFINE c == d.ptrcs[i]
           e == PtrFreed(d, i)
           ack == [type |-> "CMD_ACK", tid |-> c.tid, addr |-> c.addr, seq |-> 0]
           nack == [type |-> "CMD_NACK", tid |-> c.tid, addr |-> c.addr, seq |-> 0]
<1>1. PtrDone(d, i, success) =
        IF ~HasTid(e, c.tid) THEN e
        ELSE IF TidOf(e, c.tid).type = "CLOSE" THEN CloseChecked(e, c.tid)
        ELSE IF success THEN SendToTid(e, ack)
        ELSE RemoveTid(SendToTid(e, nack), c.tid)
  BY DEF PtrDone, SendToApp
<1>2. /\ Moves(d, e, O, A, G) /\ e.tids = d.tids /\ e.air = d.air
      /\ e.running = d.running /\ e.spread = d.spread
  BY PtrFreedMoves
<1>3. c \in PtrConn /\ c.tid \in Unicast(d)
  BY PtrOnList
<1>4. /\ success /\ HasTid(d, c.tid) =>
           \E g \in G : g.tid = c.tid /\ g.addr = c.addr /\ g.what = "task"
  OBVIOUS
<1> HIDE DEF c, e
<1>5. Good(e, O, A, G)
  BY <1>2 DEF Moves
<1>6. c.tid \in Unicast(e) /\ c.tid \in OfTasks(e) /\ c.tid \in Tids
  BY <1>2, <1>3 DEF Unicast, OfTasks, PtrConn
<1>7. c.tid \notin e.running /\ \A t \in e.tids : t.tid = c.tid => t.type \in OfTask
  BY <1>5, <1>6, TaskIs
<1>8. ack \in Message /\ nack \in Message
  BY <1>3 DEF Message, Commands, PtrConn
<1>9. /\ ack.type = "CMD_ACK" /\ ack.tid = c.tid /\ ack.addr = c.addr
      /\ nack.type = "CMD_NACK" /\ nack.tid = c.tid
  OBVIOUS
<1> HIDE DEF ack, nack
<1>10. Fit(e, ack) /\ Fit(e, nack)
  BY <1>6, <1>9 DEF Fit
<1>11. Moves(e, CloseChecked(e, c.tid), O, A, G)
  BY <1>5, <1>6, <1>7, CloseCheckedMoves
<1>12. ASSUME success, HasTid(e, c.tid) PROVE Moves(e, SendToTid(e, ack), O, A, G)
  <2>1. HasTid(d, c.tid)
    BY <1>2, <1>12 DEF HasTid
  <2>2. Sayable(e, G, ack)
    BY <1>4, <1>7, <1>8, <1>9, <1>12, <2>1 DEF Sayable
  <2> QED BY <1>5, <1>9, <1>10, <2>2, SentMoves
<1>13. Moves(e, RemoveTid(SendToTid(e, nack), c.tid), O, A, G)
  <2> DEFINE f == SendToTid(e, nack)
  <2>1. Sayable(e, G, nack)
    BY <1>7, <1>8, <1>9 DEF Sayable
  <2>2. Moves(e, f, O, A, G)
    BY <1>5, <1>9, <1>10, <2>1, SentMoves
  <2>3. f.running = e.running
    BY <1>5, <1>8, SentIs DEF Good
  <2> HIDE DEF f
  <2>4. Moves(f, RemoveTid(f, c.tid), O, A, G)
    BY <1>7, <2>2, <2>3, RemoveTidMoves DEF Moves
  <2> QED BY <2>2, <2>4, MovesTrans DEF f
<1>14. Moves(d, CloseChecked(e, c.tid), O, A, G)
  BY <1>2, <1>11, MovesTrans
<1>15. success /\ HasTid(e, c.tid) => Moves(d, SendToTid(e, ack), O, A, G)
  BY <1>2, <1>12, MovesTrans
<1>16. Moves(d, RemoveTid(SendToTid(e, nack), c.tid), O, A, G)
  BY <1>2, <1>13, MovesTrans
<1> QED BY <1>1, <1>2, <1>14, <1>15, <1>16

LEMMA PtrPolledMoves ==
  ASSUME NEW d, NEW O, NEW A, NEW G, Good(d, O, A, G)
  PROVE  Moves(d, PtrPolled(d), O, A, G)
<1>1. CASE PtrDue(d) = {}
  <2>1. PtrPolled(d) = d
    BY <1>1 DEF PtrPolled
  <2> QED BY <2>1, SilentMoves
<1>2. CASE PtrDue(d) # {}
  <2> DEFINE i == CHOOSE i \in PtrDue(d) : TRUE
  <2>1. i \in DOMAIN d.ptrcs /\ d.ptrcs[i].alarm = "expired"
    BY <1>2 DEF PtrDue
  <2>2. PtrPolled(d) = IF d.ptrcs[i].retx < PTR_MAX_NUM_RETX THEN PtrRetx(d, i) ELSE PtrDone(d, i, FALSE)
    BY <1>2 DEF PtrPolled
  <2> HIDE DEF i
  <2>3. d.ptrcs[i].tid \in Unicast(d)
    BY <2>1, PtrOnList
  <2>4. Moves(d, PtrDone(d, i, FALSE), O, A, G)
    BY <2>1, <2>3, PtrDoneMoves
  <2>5. d.ptrcs[i].retx < PTR_MAX_NUM_RETX => Moves(d, PtrRetx(d, i), O, A, G)
    BY <2>1, <2>3, PtrRetxMoves
  <2> QED BY <2>2, <2>4, <2>5
<1> QED BY <1>1, <1>2

-----------------------------------------------------------------------------
(* Ping and trace route.                                                     *)

\* An entry on the list of probes.
LEMMA TcmpOnList ==
  ASSUME NEW d, NEW O, NEW A, NEW G, Good(d, O, A, G), NEW i \in DOMAIN d.tcmps
  PROVE  /\ d.tcmps[i] \in TcmpEntry /\ d.tcmps[i].tid \in O \ OfTasks(d)
         /\ d.tcmps[i].tid \notin d.running
<1>1. d.tcmps \in Seq(TcmpEntry)
  BY DEF Good, Daemon
<1>2. d.tcmps[i].tid \in OfOthers(d) /\ d.running \subseteq OfTasks(d)
  BY DEF OfOthers, OfTasks, Good, Stoppable
<1> QED BY <1>1, <1>2 DEF Good, Kinds

\* An entry changes, and a probe may be sent.
LEMMA TcmpSetMoves ==
  ASSUME NEW d, NEW O, NEW A, NEW G, Good(d, O, A, G), NEW i \in DOMAIN d.tcmps,
         NEW c \in TcmpEntry, c.tid = d.tcmps[i].tid,
         NEW B \in SUBSET Air, \A m \in B : m.what \in Probing
  PROVE  Moves(d, [d EXCEPT !.tcmps = [d.tcmps EXCEPT ![i] = c], !.air = @ \cup B], O, A, G)
<1> DEFINE q == [d.tcmps EXCEPT ![i] = c]
<1>1. d.tcmps \in Seq(TcmpEntry) /\ d \in Daemon
  BY DEF Good, Daemon
<1>2. /\ q \in Seq(TcmpEntry) /\ DOMAIN q = DOMAIN d.tcmps /\ q[i] = c
      /\ \A k \in DOMAIN q \ {i} : q[k] = d.tcmps[k]
  BY <1>1
<1> HIDE DEF q
<1>4. \A k \in DOMAIN q : q[k].tid = d.tcmps[k].tid
  BY <1>2
<1>5. \A k \in DOMAIN q : q[k].tid \in O \ OfTasks(d)
  BY <1>2, <1>4, TcmpOnList
<1>6. Moves(d, [d EXCEPT !.tcmps = q, !.air = @ \cup B], O, A, G)
  BY <1>2, <1>5, TcmpsMoves
<1> QED BY <1>6 DEF q

\* TCMP_send_ping, TCMP_send_tracert.
LEMMA ProbedMoves ==
  ASSUME NEW d, NEW O, NEW A, NEW G, Good(d, O, A, G), NEW i \in DOMAIN d.tcmps
  PROVE  Moves(d, Probed(d, i), O, A, G)
<1> DEFINE t == d.tcmps[i]
           c == [t EXCEPT !.alarm = "running"]
           x == [what |-> t.type, tid |-> t.tid, addr |-> t.addr, seq |-> t.seq, ttl |-> t.ttl]
           e == [d EXCEPT !.tcmps = [d.tcmps EXCEPT ![i] = c], !.air = @ \cup {x}]
<1>1. t \in TcmpEntry
  BY TcmpOnList
<1>2. Probed(d, i) = e
  BY DEF Probed
<1>3. c \in TcmpEntry /\ c.tid = t.tid /\ x \in Air /\ x.what \in Probing
  <2> HIDE DEF t
  <2> QED BY <1>1 DEF TcmpEntry, Air, Probing
<1> HIDE DEF c, x
<1>4. c.tid = d.tcmps[i].tid /\ \A m \in {x} : m.what \in Probing
  BY <1>3
<1>5. Moves(d, e, O, A, G)
  BY <1>3, <1>4, TcmpSetMoves
<1> QED BY <1>2, <1>5

\* The hop count of a trace goes up.
LEMMA TtlMoves ==
  ASSUME NEW d, NEW O, NEW A, NEW G, Good(d, O, A, G), NEW i \in DOMAIN d.tcmps
  PROVE  LET e == [d EXCEPT !.tcmps[i].ttl = @ + 1] IN
         Moves(d, e, O, A, G) /\ DOMAIN e.tcmps = DOMAIN d.tcmps
<1> DEFINE t == d.tcmps[i]
           c == [t EXCEPT !.ttl = @ + 1]
           e == [d EXCEPT !.tcmps = [d.tcmps EXCEPT ![i] = c], !.air = @ \cup {}]
<1>1. t \in TcmpEntry
  BY TcmpOnList
<1>2. [d EXCEPT !.tcmps[i].ttl = @ + 1] = e
  BY DEF Good, Daemon
<1>3. c \in TcmpEntry /\ c.tid = t.tid
  <2> HIDE DEF t
  <2>1. t.ttl + 1 \in Nat
    BY <1>1 DEF TcmpEntry
  <2> QED BY <1>1, <2>1 DEF TcmpEntry
<1> HIDE DEF c
<1>4. DOMAIN e.tcmps = DOMAIN d.tcmps
  BY DEF Good, Daemon
<1>5. Moves(d, e, O, A, G)
  BY <1>3, TcmpSetMoves
<1> QED BY <1>2, <1>4, <1>5

\* The report to the client.
LEMMA ReportedMoves ==
  ASSUME NEW d, NEW O, NEW A, NEW G, Good(d, O, A, G), NEW i \in DOMAIN d.tcmps,
         NEW node \in Motes \cup {BCAST}
  PROVE  /\ Moves(d, Reported(d, i, node), O, A, G)
         /\ DOMAIN Reported(d, i, node).tcmps = DOMAIN d.tcmps
<1> DEFINE t == d.tcmps[i]
           c == [t EXCEPT !.seq = @ + 1]
           e == [d EXCEPT !.tcmps = [d.tcmps EXCEPT ![i] = c], !.air = @ \cup {}]
           m == [type |-> t.type, tid |-> t.tid, addr |-> node, seq |-> t.seq]
<1>1. t \in TcmpEntry
  BY TcmpOnList
<1>2. Reported(d, i, node) = SendToTid(e, m)
  <2>1. [d EXCEPT !.tcmps[i].seq = @ + 1] = e
    BY DEF Good, Daemon
  <2> QED BY <2>1 DEF Reported
<1> HIDE DEF t
<1>5. c \in TcmpEntry /\ c.tid = t.tid
  <2>1. t.seq + 1 \in Nat
    BY <1>1 DEF TcmpEntry
  <2> QED BY <1>1, <2>1 DEF TcmpEntry
<1> HIDE DEF c
<1>6. /\ Moves(d, e, O, A, G)
      /\ DOMAIN e.tcmps = DOMAIN d.tcmps /\ e.tcmps[i] = c
  <2>1. DOMAIN e.tcmps = DOMAIN d.tcmps /\ e.tcmps[i] = c
    BY DEF Good, Daemon
  <2>2. c.tid = d.tcmps[i].tid
    BY <1>5 DEF t
  <2> QED BY <1>5, <2>1, <2>2, TcmpSetMoves
<1> HIDE DEF e
<1>7. Good(e, O, A, G)
  BY <1>6 DEF Moves
<1>8. m \in Message /\ m.type \in Probing
  BY <1>1 DEF TcmpEntry, Message, Probing
<1> HIDE DEF m
<1>10. Sayable(e, G, m)
  BY <1>8 DEF Sayable, Probing, Commands
<1>11. Fit(e, m)
  BY <1>8 DEF Fit, IsCommand, Commands, Probing
<1>12. Moves(e, SendToTid(e, m), O, A, G)
  BY <1>7, <1>8, <1>10, <1>11, SentMoves DEF Probing
<1>13. SendToTid(e, m).tcmps = e.tcmps
  BY <1>7, <1>8, SentIs DEF Good
<1>14. Moves(d, SendToTid(e, m), O, A, G)
  BY <1>6, <1>12, MovesTrans
<1> QED BY <1>2, <1>6, <1>13, <1>14

\* remove_tcmp.
LEMMA WithoutIs ==
  ASSUME NEW S, NEW s \in Seq(S), NEW i \in DOMAIN s
  PROVE  LET q == SubSeq(s, 1, i - 1) \o SubSeq(s, i + 1, Len(s)) IN
         /\ q \in Seq(S)
         /\ \A k \in DOMAIN q : /\ k < i => k \in DOMAIN s /\ q[k] = s[k]
                                /\ k >= i => k + 1 \in DOMAIN s /\ q[k] = s[k + 1]
<1> DEFINE n == Len(s)
           a == SubSeq(s, 1, i - 1)
           b == SubSeq(s, i + 1, n)
           q == a \o b
<1>1. n \in Nat /\ i \in 1 .. n /\ DOMAIN s = 1 .. n
  OBVIOUS
<1>2. a \in Seq(S) /\ Len(a) = i - 1 /\ \A k \in 1 .. i - 1 : a[k] = s[k]
  BY <1>1
<1>3. b \in Seq(S) /\ Len(b) = n - i /\ \A k \in 1 .. n - i : b[k] = s[i + k]
  BY <1>1
<1> HIDE DEF a, b, n
<1>4. q \in Seq(S) /\ DOMAIN q = 1 .. n - 1
  BY <1>1, <1>2, <1>3
<1>5. \A k \in 1 .. n - 1 : q[k] = IF k < i THEN a[k] ELSE b[k - (i - 1)]
  BY <1>1, <1>2, <1>3
<1> HIDE DEF q
<1>6. ASSUME NEW k \in 1 .. n - 1
      PROVE  /\ k < i => k \in DOMAIN s /\ q[k] = s[k]
             /\ k >= i => k + 1 \in DOMAIN s /\ q[k] = s[k + 1]
  <2>1. CASE k < i
    BY <1>1, <1>2, <1>5, <2>1
  <2>2. CASE k >= i
    <3>1. k - (i - 1) \in 1 .. n - i /\ i + (k - (i - 1)) = k + 1 /\ k + 1 \in 1 .. n
      BY <1>1, <2>2
    <3>2. b[k - (i - 1)] = s[k + 1]
      BY <1>3, <3>1
    <3> QED BY <1>1, <1>5, <2>2, <3>1, <3>2
  <2> QED BY <1>1, <2>1, <2>2
<1> QED BY <1>4, <1>6 DEF q, a, b, n

LEMMA TcmpEndMoves ==
  ASSUME NEW d, NEW O, NEW A, NEW G, Good(d, O, A, G), NEW i \in DOMAIN d.tcmps
  PROVE  Moves(d, TcmpEnd(d, i), O, A, G)
<1> DEFINE q == SubSeq(d.tcmps, 1, i - 1) \o SubSeq(d.tcmps, i + 1, Len(d.tcmps))
           e == [d EXCEPT !.tcmps = q, !.air = @ \cup {}]
           tid == d.tcmps[i].tid
<1>1. d.tcmps \in Seq(TcmpEntry)
  BY DEF Good, Daemon
<1>2. TcmpEnd(d, i) = RemoveTid(e, tid)
  <2>1. [d EXCEPT !.tcmps = q] = e
    BY DEF Good, Daemon
  <2> QED BY <2>1 DEF TcmpEnd
<1>3. e.running = d.running
  BY DEF Good, Daemon
<1>4. /\ q \in Seq(TcmpEntry)
      /\ \A k \in DOMAIN q : /\ k < i => k \in DOMAIN d.tcmps /\ q[k] = d.tcmps[k]
                             /\ k >= i => k + 1 \in DOMAIN d.tcmps /\ q[k] = d.tcmps[k + 1]
  BY <1>1, WithoutIs
<1>5. i \in Nat /\ \A k \in DOMAIN q : k \in Nat
  BY <1>1, <1>4
<1> HIDE DEF q
<1>7. \A k \in DOMAIN q : \E j \in DOMAIN d.tcmps : q[k] = d.tcmps[j]
  BY <1>4, <1>5
<1>8. \A k \in DOMAIN q : q[k].tid \in O \ OfTasks(d)
  BY <1>7, TcmpOnList
<1>9. Moves(d, e, O, A, G)
  BY <1>4, <1>8, TcmpsMoves
<1>10. tid \notin d.running
  BY TcmpOnList
<1> HIDE DEF e, tid
<1>11. Moves(e, RemoveTid(e, tid), O, A, G)
  BY <1>3, <1>9, <1>10, RemoveTidMoves DEF Moves
<1> QED BY <1>2, <1>9, <1>11, MovesTrans

LEMMA ReportedKeeps ==
  ASSUME NEW d, NEW O, NEW A, NEW G, Good(d, O, A, G), NEW i \in DOMAIN d.tcmps,
         NEW node \in Motes \cup {BCAST}
  PROVE  LET e == Reported(d, i, node) IN
         /\ Good(e, O, A, G) /\ Moves(d, e, O, A, G) /\ i \in DOMAIN e.tcmps
         /\ Moves(d, Probed(e, i), O, A, G) /\ Moves(d, TcmpEnd(e, i), O, A, G)
<1> DEFINE e == Reported(d, i, node)
<1>1. Moves(d, e, O, A, G) /\ i \in DOMAIN e.tcmps
  BY ReportedMoves
<1> HIDE DEF e
<1>2. Good(e, O, A, G)
  BY <1>1 DEF Moves
<1>3. Moves(e, Probed(e, i), O, A, G) /\ Moves(e, TcmpEnd(e, i), O, A, G)
  BY <1>1, <1>2, ProbedMoves, TcmpEndMoves
<1>4. Moves(d, Probed(e, i), O, A, G)
  BY <1>1, <1>3, MovesTrans
<1>5. Moves(d, TcmpEnd(e, i), O, A, G)
  BY <1>1, <1>3, MovesTrans
<1> QED BY <1>1, <1>2, <1>4, <1>5 DEF e

LEMMA NothingMoves ==
  ASSUME NEW d, NEW O, NEW A, NEW G, Good(d, O, A, G)
  PROVE  Moves(d, d, O, A, G)
BY SilentMoves

LEMMA PingAckMoves ==
  ASSUME NEW d, NEW O, NEW A, NEW G, Good(d, O, A, G), NEW i \in DOMAIN d.tcmps,
         NEW from \in Motes \cup {BCAST}, NEW seqno, NEW late
  PROVE  Moves(d, PingAck(d, i, from, seqno, late), O, A, G)
<1> DEFINE t == d.tcmps[i]
           r == Reported(d, i, from)
           P(e) == \/ PingAck(d, i, from, seqno, late) = e
                   \/ PingAck(d, i, from, seqno, late) = Probed(e, i)
                   \/ PingAck(d, i, from, seqno, late) = TcmpEnd(e, i)
<1>1. PingAck(d, i, from, seqno, late) = d \/ P(r) \/ P(d)
  BY DEF PingAck
<1>2. Moves(d, r, O, A, G) /\ Moves(d, Probed(r, i), O, A, G) /\ Moves(d, TcmpEnd(r, i), O, A, G)
  BY ReportedKeeps
<1>3. Moves(d, d, O, A, G) /\ Moves(d, Probed(d, i), O, A, G) /\ Moves(d, TcmpEnd(d, i), O, A, G)
  BY NothingMoves, ProbedMoves, TcmpEndMoves
<1> HIDE DEF r
<1> QED BY <1>1, <1>2, <1>3

LEMMA TracertAckMoves ==
  ASSUME NEW d, NEW O, NEW A, NEW G, Good(d, O, A, G), NEW i \in DOMAIN d.tcmps,
         NEW from \in Motes \cup {BCAST}, NEW seqno
  PROVE  Moves(d, TracertAck(d, i, from, seqno), O, A, G)
<1> DEFINE r == Reported(d, i, from)
           f == [r EXCEPT !.tcmps[i].ttl = @ + 1]
<1>1. \/ TracertAck(d, i, from, seqno) = d
      \/ TracertAck(d, i, from, seqno) = Probed(r, i)
      \/ TracertAck(d, i, from, seqno) = Probed(f, i)
      \/ TracertAck(d, i, from, seqno) = TcmpEnd(r, i)
  BY DEF TracertAck
<1>2. /\ Good(r, O, A, G) /\ Moves(d, r, O, A, G) /\ i \in DOMAIN r.tcmps
      /\ Moves(d, Probed(r, i), O, A, G) /\ Moves(d, TcmpEnd(r, i), O, A, G)
  BY ReportedKeeps
<1> HIDE DEF r
<1>3. Moves(r, f, O, A, G) /\ i \in DOMAIN f.tcmps
  BY <1>2, TtlMoves
<1> HIDE DEF f
<1>4. Moves(f, Probed(f, i), O, A, G)
  BY <1>3, ProbedMoves DEF Moves
<1>5. Moves(d, f, O, A, G)
  BY <1>2, <1>3, MovesTrans
<1>6. Moves(d, Probed(f, i), O, A, G)
  BY <1>4, <1>5, MovesTrans
<1>7. Moves(d, d, O, A, G)
  BY NothingMoves
<1> QED BY <1>1, <1>2, <1>6, <1>7

LEMMA TcmpReceiveMoves ==
  ASSUME NEW d, NEW O, NEW A, NEW G, Good(d, O, A, G), NEW m, NEW from \in Motes, NEW late
  PROVE  Moves(d, TcmpReceive(d, m, from, late), O, A, G)
<1> DEFINE I == TcmpFound(d, m.tid, IF m.what = "PING" THEN from ELSE BCAST)
           i == CHOOSE i \in I : TRUE
<1>1. I = {} \/ i \in I
  OBVIOUS
<1>2. I \subseteq DOMAIN d.tcmps
  BY DEF TcmpFound
<1>3. \/ I = {} /\ TcmpReceive(d, m, from, late) = d
      \/ I # {} /\ TcmpReceive(d, m, from, late) = PingAck(d, i, from, m.seq, late)
      \/ I # {} /\ TcmpReceive(d, m, from, late) = TracertAck(d, i, from, m.seq)
  BY DEF TcmpReceive
<1> HIDE DEF I, i
<1>4. I # {} => /\ Moves(d, PingAck(d, i, from, m.seq, late), O, A, G)
                /\ Moves(d, TracertAck(d, i, from, m.seq), O, A, G)
  BY <1>1, <1>2, PingAckMoves, TracertAckMoves
<1>5. Moves(d, d, O, A, G)
  BY NothingMoves
<1> QED BY <1>3, <1>4, <1>5

LEMMA TcmpPolledMoves ==
  ASSUME NEW d, NEW O, NEW A, NEW G, Good(d, O, A, G)
  PROVE  Moves(d, TcmpPolled(d), O, A, G)
<1> DEFINE I == {i \in DOMAIN d.tcmps : /\ d.tcmps[i].alarm = "expired"
                                        /\ \A j \in 1 .. i - 1 : d.tcmps[j].alarm # "expired"}
           i == CHOOSE i \in I : TRUE
           t == d.tcmps[i]
<1>1. I = {} \/ i \in I
  OBVIOUS
<1>2. I \subseteq DOMAIN d.tcmps
  OBVIOUS
<1>3. \/ I = {} /\ TcmpPolled(d) = d
      \/ I # {} /\ TcmpPolled(d) = PingAck(d, i, t.addr, t.seq, TRUE)
      \/ I # {} /\ TcmpPolled(d) = TracertAck(d, i, t.addr, t.seq)
  BY DEF TcmpPolled
<1> HIDE DEF I, i
<1>4. ASSUME I # {}
      PROVE  /\ Moves(d, PingAck(d, i, t.addr, t.seq, TRUE), O, A, G)
             /\ Moves(d, TracertAck(d, i, t.addr, t.seq), O, A, G)
  <2>1. i \in DOMAIN d.tcmps
    BY <1>1, <1>2, <1>4
  <2>2. t \in TcmpEntry
    BY <2>1, TcmpOnList
  <2> HIDE DEF t
  <2>3. t.addr \in Motes \cup {BCAST}
    BY <2>2 DEF TcmpEntry
  <2> QED BY <2>1, <2>3, PingAckMoves, TracertAckMoves
<1>5. Moves(d, d, O, A, G)
  BY NothingMoves
<1> QED BY <1>3, <1>4, <1>5

\* check_timer.
LEMMA PolledMoves ==
  ASSUME NEW d, NEW O, NEW A, NEW G, Good(d, O, A, G)
  PROVE  Moves(d, TcmpPolled(PtrPolled(d)), O, A, G)
<1> DEFINE e == PtrPolled(d)
<1>1. Moves(d, e, O, A, G)
  BY PtrPolledMoves
<1> HIDE DEF e
<1>2. Moves(e, TcmpPolled(e), O, A, G)
  BY <1>1, TcmpPolledMoves DEF Moves
<1> QED BY <1>1, <1>2, MovesTrans DEF e

-----------------------------------------------------------------------------
(* The steps of the daemon.                                                  *)

\* Nothing is added to the bounds.
Falls == left' \in [Counted -> Nat] /\ \A c \in Counted : left'[c] <= left[c]

LEMMA SpendFalls ==
  ASSUME DaemonInv, NEW what \in Counted, Spend(what)
  PROVE  Falls /\ left[what] > 0 /\ left'[what] = left[what] - 1
<1>1. left \in [Counted -> Nat]
  BY DEF DaemonInv, TypeOK
<1> QED BY <1>1 DEF Spend, Falls

LEMMA SaveFalls ==
  ASSUME DaemonInv, Save
  PROVE  Falls
BY DEF DaemonInv, TypeOK, Save, Falls

LEMMA RequestedIs ==
  ASSUME NEW b \in [Counted -> Nat]
  PROVE  Requested(b) \in Nat
<1>1. /\ b["tasks"] \in Nat /\ b["unicasts"] \in Nat /\ b["probes"] \in Nat
      /\ b["services"] \in Nat /\ b["refusals"] \in Nat
  BY DEF Counted
<1> QED BY <1>1 DEF Requested

LEMMA RequestedFalls ==
  ASSUME NEW b \in [Counted -> Nat], NEW c \in [Counted -> Nat], \A x \in Counted : c[x] <= b[x]
  PROVE  Requested(c) <= Requested(b)
<1>1. /\ b["tasks"] \in Nat /\ b["unicasts"] \in Nat /\ b["probes"] \in Nat
      /\ b["services"] \in Nat /\ b["refusals"] \in Nat
  BY DEF Counted
<1>2. /\ c["tasks"] \in Nat /\ c["unicasts"] \in Nat /\ c["probes"] \in Nat
      /\ c["services"] \in Nat /\ c["refusals"] \in Nat
  BY DEF Counted
<1>3. /\ c["tasks"] <= b["tasks"] /\ c["unicasts"] <= b["unicasts"] /\ c["probes"] <= b["probes"]
      /\ c["services"] <= b["services"] /\ c["refusals"] <= b["refusals"]
  BY DEF Counted
<1> QED BY <1>1, <1>2, <1>3 DEF Requested

LEMMA RoundKept ==
  ASSUME DaemonInv, Falls, opened' = opened, asked' = asked,
         tr'.myTID = tr.myTID, tr'.stored = tr.stored, tr'.unsaved = tr.unsaved,
         \A t \in tr'.tids : HasTid(tr, t.tid),
         \A s \in Sessions : app'[s] = "none" => app[s] = "none",
         \A s \in Sessions : app[s] = "gone" => app'[s] = "gone"
  PROVE  RoundInv'
<1>1. left \in [Counted -> Nat] /\ tr.myTID \in Tids /\ tr.stored \in Tids \cup {NoTid}
  BY DEF DaemonInv, TypeOK, Daemon
<1>2. Requested(left') <= Requested(left) /\ Requested(left') \in Nat /\ Requested(left) \in Nat
  BY <1>1, RequestedIs, RequestedFalls DEF Falls
<1>3. \A t \in tr'.tids : \E u \in tr.tids : u.tid = t.tid
  BY DEF HasTid
<1>4. \A t \in opened' : \E s \in Sessions : t \in asked'[s]
  BY DEF DaemonInv, RoundInv
<1>5. ASSUME NEW s \in Sessions
      PROVE  asked'[s] \subseteq opened' /\ (app'[s] = "none" => asked'[s] = {})
  <2>1. asked[s] \subseteq opened /\ (app[s] = "none" => asked[s] = {})
    BY DEF DaemonInv, RoundInv
  <2>2. app'[s] = "none" => app[s] = "none"
    OBVIOUS
  <2> QED BY <2>1, <2>2
<1>6. \A t \in tr'.tids : t.tid \in opened'
  BY <1>3 DEF DaemonInv, RoundInv
<1>7. CASE Requested(left') > 0
  <2>1. Requested(left) > 0
    BY <1>2, <1>7
  <2>2. /\ \A t \in opened : t >= tr.myTID \/ t >= tr.stored => t \in tr.unsaved
        /\ \A t \in tr.tids : t.tid < tr.myTID
        /\ \A s \in Sessions : app[s] # "gone" => \A t \in asked[s] : t < tr.myTID
        /\ tr.myTID + Requested(left) <= MAX_TID + 1
        /\ tr.stored + Requested(left) <= MAX_TID + 1
    BY <2>1 DEF DaemonInv, RoundInv
  <2>3. tr.myTID \in Int /\ tr.stored \in Int /\ MAX_TID \in Int
    BY <1>1, TidAssumption DEF Tids, NoTid
  <2>4. \A t \in opened' : t >= tr'.myTID \/ t >= tr'.stored => t \in tr'.unsaved
    BY <2>2
  <2>5. \A t \in tr'.tids : t.tid < tr'.myTID
    BY <1>3, <2>2
  <2>6. ASSUME NEW s \in Sessions, app'[s] # "gone", NEW t \in asked'[s]
        PROVE  t < tr'.myTID
    <3>1. app[s] # "gone" /\ t \in asked[s]
      BY <2>6
    <3> QED BY <2>2, <3>1
  <2>7. /\ tr'.myTID + Requested(left') <= MAX_TID + 1
        /\ tr'.stored + Requested(left') <= MAX_TID + 1
    BY <1>2, <2>2, <2>3
  <2> QED BY <1>4, <1>5, <1>6, <2>4, <2>5, <2>6, <2>7 DEF RoundInv
<1>8. CASE ~(Requested(left') > 0)
  BY <1>4, <1>5, <1>6, <1>8 DEF RoundInv
<1> QED BY <1>7, <1>8

LEMMA AnswersStep ==
  ASSUME DaemonInv, Good(tr', opened, asked, got), Answered(tr, tr'), Final(tr'), Falls,
         UNCHANGED <<app, got, asked, wanted, returned, opened>>
  PROVE  DaemonInv'
<1>1. RoundInv'
  BY RoundKept DEF Answered
<1>2. Good(tr', opened', asked', got') /\ tr' \in Daemon /\ got' \subseteq tr'.air
  BY DEF Good
<1>3. TypeOK'
  BY <1>2 DEF DaemonInv, TypeOK, Falls
<1>4. ASSUME NEW s \in Sessions PROVE Waits(tr, s)'
  <2>1. Waits(tr, s)
    BY DEF DaemonInv
  <2>2. Unicast(tr) \subseteq Unicast(tr')
    BY DEF Answered, Unicast
  <2>3. app[s] \in {"none", "gone"} => DOMAIN tr'.box[s] = {} /\ s \notin tr'.reading
    <3>1. app[s] \in {"none", "gone"} => \A i \in DOMAIN tr'.box[s] : FALSE
      BY <2>1 DEF Answered, Waits
    <3> QED BY <2>1, <3>1 DEF Answered, Waits
  <2>4. ASSUME asked[s] \cap Unicast(tr') = {}, NEW i \in DOMAIN tr'.box[s],
               IsCommand(tr'.box[s][i])
        PROVE  i \in DOMAIN tr.box[s] /\ tr'.box[s][i] = tr.box[s][i]
    <3>1. tr'.box[s][i].tid \in asked[s]
      BY <2>4 DEF Good, Told, IsCommand
    <3> QED BY <2>4, <3>1 DEF Answered, Fit
  <2> QED BY <2>1, <2>2, <2>3, <2>4 DEF Waits
<1>5. \A g \in got' : g.what \in {"task", "stop"}
  BY DEF DaemonInv
<1> QED BY <1>1, <1>2, <1>3, <1>4, <1>5 DEF DaemonInv

LEMMA MovesStep ==
  ASSUME DaemonInv, Moves(tr, tr', opened, asked, got), Falls,
         UNCHANGED <<app, got, asked, wanted, returned, opened>>
  PROVE  DaemonInv'
BY AnswersStep DEF Moves, DaemonInv

\* The state is good, and steps of FromMotes fall.
LEMMA InvGood ==
  ASSUME DaemonInv
  PROVE  Good(tr, opened, asked, got) /\ tr \in Daemon
BY DEF DaemonInv, Good

LEMMA FromMotesFalls ==
  ASSUME DaemonInv, FromMotes
  PROVE  Falls /\ UNCHANGED <<app, got, asked, wanted, returned, opened>>
BY SpendFalls DEF FromMotes, Counted

LEMMA PtrAckStep ==
  ASSUME DaemonInv, PtrAck
  PROVE  DaemonInv'
<1> DEFINE O == opened
           A == asked
<1>1. PICK m \in got :
        /\ FromMotes /\ IsPtr(tr, m.tid, m.addr)
        /\ tr' = PtrDone(PtrStopped(tr, PtrAt(tr, m.tid, m.addr)), PtrAt(tr, m.tid, m.addr), TRUE)
  BY DEF PtrAck
<1> DEFINE i == PtrAt(tr, m.tid, m.addr)
           e == PtrStopped(tr, i)
<1>2. Good(tr, O, A, got)
  BY InvGood
<1>3. i \in DOMAIN tr.ptrcs /\ PtrIs(tr.ptrcs[i], m.tid, m.addr)
  BY <1>1, PtrAtIs
<1> HIDE DEF O, A, i
<1>4. /\ Moves(tr, e, O, A, got) /\ e.tids = tr.tids /\ e.air = tr.air
      /\ DOMAIN e.ptrcs = DOMAIN tr.ptrcs
      /\ e.ptrcs[i].tid = tr.ptrcs[i].tid /\ e.ptrcs[i].addr = tr.ptrcs[i].addr
  BY <1>2, <1>3, PtrStoppedMoves
<1>5. tr' = PtrDone(e, i, TRUE)
  BY <1>1 DEF i
<1> HIDE DEF e
<1>6. m \in tr.air /\ m.what \in {"task", "stop"}
  BY <1>2 DEF DaemonInv, Good
<1>7. m.tid \in Unicast(tr) /\ (HasTid(tr, m.tid) => m.what = "task")
  BY <1>2, <1>6 DEF Unicast, Good, Kinds
<1>8. m.tid \in Unicast(e) /\ (HasTid(e, m.tid) => m.what = "task")
  BY <1>4, <1>7 DEF Unicast, HasTid
<1>9. Moves(e, PtrDone(e, i, TRUE), O, A, got)
  <2>1. /\ i \in DOMAIN e.ptrcs /\ e.ptrcs[i].tid = m.tid /\ e.ptrcs[i].addr = m.addr
        /\ Good(e, O, A, got)
    BY <1>3, <1>4 DEF PtrIs, Moves
  <2> QED BY <1>8, <2>1, PtrDoneMoves
<1>10. Moves(tr, tr', O, A, got)
  BY <1>4, <1>5, <1>9, MovesTrans
<1> QED BY <1>1, <1>10, FromMotesFalls, MovesStep DEF O, A

\* What is said of a task, and of everything else.
LEMMA ToldMoves ==
  ASSUME NEW d, NEW O, NEW A, NEW G, Good(d, O, A, G), NEW type, NEW tid \in Tids,
         NEW addr \in Motes \cup {BCAST},
         \/ type = "RESPONSE" /\ tid \in OfTasks(d)
         \/ type \in {"BCAST", "SERVICE"}
  PROVE  Moves(d, SendToApp(d, type, tid, addr), O, A, G)
<1> DEFINE m == [type |-> type, tid |-> tid, addr |-> addr, seq |-> 0]
<1>1. SendToApp(d, type, tid, addr) = SendToTid(d, m)
  BY DEF SendToApp
<1>2. m \in Message /\ m.type = type /\ m.tid = tid
  BY DEF Message, Commands
<1> HIDE DEF m
<1>3. type = "RESPONSE" => \A t \in d.tids : t.tid = tid => t.type \in OfTask
  BY TaskIs
<1>4. Sayable(d, G, m)
  BY <1>2, <1>3 DEF Sayable, Commands
<1>5. Fit(d, m)
  BY <1>2 DEF Fit, IsCommand, Commands
<1> QED BY <1>1, <1>2, <1>4, <1>5, SentMoves

\* A mote that may send knows a task.
LEMMA KnownIs ==
  ASSUME DaemonInv, NEW k \in Known
  PROVE  k[1] \in Tids /\ k[2] \in Motes /\ k[1] \in OfTasks(tr)
<1>1. k[1] \in Tids /\ k[2] \in Motes
  BY DEF Known, DaemonInv, TypeOK
<1>2. \A m \in got : m.tid \in OfTasks(tr)
  BY DEF DaemonInv, Good, Kinds, OfTasks, Unicast
<1>3. k[1] \in tr.spread => k[1] \in OfTasks(tr)
  BY DEF OfTasks
<1> QED BY <1>1, <1>2, <1>3 DEF Known

LEMMA WithPtrMoves ==
  ASSUME NEW d, NEW O, NEW A, NEW G, Good(d, O, A, G), NEW tid \in Tids, NEW addr \in Motes,
         tid \in OfTasks(d)
  PROVE  LET e == WithPtr(d, tid, addr) IN Moves(d, e, O, A, G) /\ OfTasks(e) = OfTasks(d)
<1> DEFINE e == WithPtr(d, tid, addr)
           q == e.ptrcs
           f == [d EXCEPT !.ptrcs = q, !.air = @ \cup {}]
<1>1. d \in Daemon
  BY DEF Good
<1>2. /\ e = [d EXCEPT !.ptrcs = q] /\ q \in Seq(PtrConn)
      /\ \A i \in DOMAIN q :
           \/ \E j \in DOMAIN d.ptrcs : q[i] = d.ptrcs[j]
           \/ PtrIs(q[i], tid, addr) /\ q[i].packet = NoPacket /\ q[i].alarm = "off"
  BY <1>1, WithPtrIs
<1> HIDE DEF e, q
<1>3. e = f /\ e.air = d.air /\ e.spread = d.spread
  BY <1>1, <1>2 DEF Daemon
<1>4. \A i \in DOMAIN q : /\ q[i].tid \in OfTasks(d) /\ q[i].packet # "stop"
                          /\ q[i].alarm # "off" => q[i].tid \in Unicast(d)
  BY <1>2 DEF Good, Kinds, PtrIs, NoPacket
<1>5. Moves(d, f, O, A, G)
  BY <1>2, <1>4, PtrsMoves
<1> QED BY <1>3, <1>5 DEF OfTasks, Unicast, e

LEMMA PtrDataStep ==
  ASSUME DaemonInv, PtrData
  PROVE  DaemonInv'
<1> DEFINE O == opened
           A == asked
<1>1. PICK k \in Known :
        FromMotes /\ tr' = SendToApp(WithPtr(tr, k[1], k[2]), "RESPONSE", k[1], k[2])
  BY DEF PtrData
<1> DEFINE e == WithPtr(tr, k[1], k[2])
<1>2. k[1] \in Tids /\ k[2] \in Motes /\ k[1] \in OfTasks(tr)
  BY KnownIs
<1>3. Good(tr, O, A, got)
  BY InvGood
<1> HIDE DEF O, A
<1>4. Moves(tr, e, O, A, got) /\ OfTasks(e) = OfTasks(tr)
  BY <1>2, <1>3, WithPtrMoves
<1> HIDE DEF e
<1>5. Moves(e, SendToApp(e, "RESPONSE", k[1], k[2]), O, A, got)
  BY <1>2, <1>4, ToldMoves DEF Moves
<1>6. Moves(tr, tr', O, A, got)
  BY <1>1, <1>4, <1>5, MovesTrans DEF e
<1> QED BY <1>1, <1>6, FromMotesFalls, MovesStep DEF O, A

LEMMA TcmpAnswerStep ==
  ASSUME DaemonInv, TcmpAnswer
  PROVE  DaemonInv'
<1>1. PICK m \in tr.air, a \in Motes, late \in BOOLEAN :
        FromMotes /\ tr' = TcmpReceive(tr, m, a, late)
  BY DEF TcmpAnswer
<1>2. Moves(tr, tr', opened, asked, got)
  BY <1>1, InvGood, TcmpReceiveMoves
<1> QED BY <1>1, <1>2, FromMotesFalls, MovesStep

LEMMA ServiceAnswerStep ==
  ASSUME DaemonInv, ServiceAnswer
  PROVE  DaemonInv'
<1> DEFINE O == opened
           A == asked
<1>1. PICK m \in tr.air :
        /\ m.what = "SERVICE" /\ FromMotes
        /\ tr' = RemoveTid(SendToApp(tr, "SERVICE", m.tid, BCAST), m.tid)
  BY DEF ServiceAnswer
<1> DEFINE e == SendToApp(tr, "SERVICE", m.tid, BCAST)
           x == [type |-> "SERVICE", tid |-> m.tid, addr |-> BCAST, seq |-> 0]
<1>2. Good(tr, O, A, got) /\ tr \in Daemon
  BY InvGood
<1> HIDE DEF O, A
<1>3. m.tid \in Tids
  BY <1>2 DEF Daemon, Air
<1>4. m.tid \notin tr.running
  <2>1. m.tid \in OfOthers(tr)
    BY <1>1 DEF OfOthers
  <2> QED BY <1>2, <2>1 DEF Good, Kinds, Stoppable, OfTasks
<1>5. Moves(tr, e, O, A, got)
  BY <1>2, <1>3, ToldMoves
<1>6. e.running = tr.running
  <2>1. x \in Message
    BY <1>3 DEF Message
  <2> HIDE DEF x
  <2> QED BY <1>2, <2>1, SentIs DEF SendToApp, x
<1> HIDE DEF e
<1>7. Moves(e, RemoveTid(e, m.tid), O, A, got)
  BY <1>4, <1>5, <1>6, RemoveTidMoves DEF Moves
<1>8. Moves(tr, tr', O, A, got)
  BY <1>1, <1>5, <1>7, MovesTrans DEF e
<1> QED BY <1>1, <1>8, FromMotesFalls, MovesStep DEF O, A

LEMMA TrdReceiveStep ==
  ASSUME DaemonInv, TrdReceive
  PROVE  DaemonInv'
<1>1. PICK tid \in Tids, a \in Motes : FromMotes /\ tr' = SendToApp(tr, "BCAST", tid, a)
  BY DEF TrdReceive
<1>2. Moves(tr, tr', opened, asked, got)
  BY <1>1, InvGood, ToldMoves
<1> QED BY <1>1, <1>2, FromMotesFalls, MovesStep

LEMMA PollStep ==
  ASSUME DaemonInv, Poll
  PROVE  DaemonInv'
<1>1. Moves(tr, tr', opened, asked, got)
  BY InvGood, PolledMoves DEF Poll
<1> QED BY <1>1, SaveFalls, MovesStep DEF Poll

\* Streams change, and nothing else.
LEMMA StreamsStep ==
  ASSUME DaemonInv, NEW S \in SUBSET Stream, tr' = [tr EXCEPT !.streams = S], Falls,
         \A c \in S : c.tid \in OfTasks(tr) /\ (c.pending => c \in tr.streams),
         UNCHANGED <<app, got, asked, wanted, returned, opened>>
  PROVE  DaemonInv'
<1> DEFINE e == [tr EXCEPT !.streams = S]
<1>1. Good(e, opened, asked, got)
  <2>1. \A c \in S : c.pending => c.tid \notin tr.running \ tr.lost
    BY DEF DaemonInv, Good, Stoppable
  <2> QED BY <2>1, InvGood, StreamsGood
<1>2. /\ e.box = tr.box /\ e.reading = tr.reading /\ e.myTID = tr.myTID
      /\ e.stored = tr.stored /\ e.unsaved = tr.unsaved /\ e.air = tr.air /\ e.tids = tr.tids
      /\ e.running = tr.running /\ e.lost = tr.lost /\ e.streams = S
  BY InvGood DEF Daemon
<1> HIDE DEF e
<1>3. Answered(tr, e)
  BY <1>2, SilentAnswered
<1>4. Settled(tr, e)
  BY <1>2 DEF Settled, HasTid
<1>5. Final(e)
  BY <1>2, <1>4, SilentFinal DEF DaemonInv
<1> QED BY <1>1, <1>3, <1>5, AnswersStep DEF e

\* What is known of a stream.
LEMMA StreamIs ==
  ASSUME DaemonInv
  PROVE  /\ tr.streams \subseteq Stream
         /\ \A c \in tr.streams : /\ c.tid \in Tids /\ c.addr \in Motes /\ c.tid \in OfTasks(tr)
                                  /\ c.pending => c.tid \notin tr.running \ tr.lost
BY DEF DaemonInv, Good, Daemon, Stream, Kinds, Stoppable

LEMMA StreamOpensStep ==
  ASSUME DaemonInv, StreamOpens
  PROVE  DaemonInv'
<1>1. PICK k \in Known :
        /\ Spend("streams")
        /\ tr' = [tr EXCEPT !.streams = @ \cup {[tid |-> k[1], addr |-> k[2], pending |-> FALSE]}]
        /\ UNCHANGED <<app, got, asked, wanted, returned, opened>>
  BY DEF StreamOpens
<1> DEFINE c == [tid |-> k[1], addr |-> k[2], pending |-> FALSE]
           S == tr.streams \cup {c}
<1>2. c \in Stream /\ c.tid \in OfTasks(tr) /\ ~c.pending
  BY KnownIs DEF Stream
<1> HIDE DEF c
<1>3. /\ S \in SUBSET Stream
      /\ \A x \in S : x.tid \in OfTasks(tr) /\ (x.pending => x \in tr.streams)
  BY <1>2, StreamIs
<1>4. tr' = [tr EXCEPT !.streams = S]
  BY <1>1 DEF c
<1>5. Falls
  BY <1>1, SpendFalls DEF Counted
<1> HIDE DEF S
<1> QED BY <1>1, <1>3, <1>4, <1>5, StreamsStep

LEMMA StreamGivenUpStep ==
  ASSUME DaemonInv, StreamGivenUp
  PROVE  DaemonInv'
<1>1. PICK c \in tr.streams :
        /\ Spend("giveups") /\ tr' = [tr EXCEPT !.streams = @ \ {c}]
        /\ UNCHANGED <<app, got, asked, wanted, returned, opened>>
  BY DEF StreamGivenUp
<1> DEFINE S == tr.streams \ {c}
<1>2. /\ S \in SUBSET Stream
      /\ \A x \in S : x.tid \in OfTasks(tr) /\ (x.pending => x \in tr.streams)
  BY StreamIs
<1>3. tr' = [tr EXCEPT !.streams = S] /\ Falls
  BY <1>1, SpendFalls DEF Counted
<1> HIDE DEF S
<1> QED BY <1>1, <1>2, <1>3, StreamsStep

LEMMA StreamDataStep ==
  ASSUME DaemonInv, StreamData
  PROVE  DaemonInv'
<1>1. PICK c \in tr.streams : FromMotes /\ tr' = SendToApp(tr, "RESPONSE", c.tid, c.addr)
  BY DEF StreamData
<1>2. c.tid \in Tids /\ c.addr \in Motes \cup {BCAST} /\ c.tid \in OfTasks(tr)
  BY StreamIs
<1>3. Moves(tr, tr', opened, asked, got)
  BY <1>1, <1>2, InvGood, ToldMoves
<1> QED BY <1>1, <1>3, FromMotesFalls, MovesStep

\* *_tid_delete_done for the last of a task's streams.
LEMMA StreamEndsStep ==
  ASSUME DaemonInv, StreamEnds
  PROVE  DaemonInv'
<1> DEFINE O == opened
           A == asked
<1>1. PICK c \in tr.streams :
        LET d == [tr EXCEPT !.streams = @ \ {c}]
        IN  /\ Save /\ UNCHANGED <<app, got, asked, wanted, returned, opened>>
            /\ tr' = IF c.pending /\ \A e \in d.streams : e.tid # c.tid
                     THEN CloseChecked(d, c.tid) ELSE d
  BY DEF StreamEnds
<1> DEFINE S == tr.streams \ {c}
           d == [tr EXCEPT !.streams = S]
<1>2. /\ S \in SUBSET Stream
      /\ \A x \in S : x.tid \in OfTasks(tr) /\ (x.pending => x \in tr.streams)
  BY StreamIs
<1>3. Good(tr, O, A, got)
  BY InvGood
<1> HIDE DEF O, A
<1>4. Falls
  BY <1>1, SaveFalls
<1>5. CASE tr' = d
  <2> HIDE DEF S
  <2> QED BY <1>1, <1>2, <1>4, <1>5, StreamsStep
<1>6. CASE c.pending /\ tr' = CloseChecked(d, c.tid)
  <2>1. Good(d, O, A, got)
    <3>1. \A x \in S : x.pending => x.tid \notin tr.running \ tr.lost
      BY StreamIs
    <3> HIDE DEF S
    <3> QED BY <1>2, <1>3, <3>1, StreamsGood
  <2>2. /\ d.running = tr.running /\ d.lost = tr.lost /\ d.air = tr.air /\ d.spread = tr.spread
        /\ d.box = tr.box /\ d.reading = tr.reading /\ d.myTID = tr.myTID
        /\ d.stored = tr.stored /\ d.unsaved = tr.unsaved /\ d.tids = tr.tids
        /\ d.streams \subseteq tr.streams
    BY <1>3 DEF Good, Daemon
  <2> HIDE DEF d
  <2>3. c.tid \in Tids /\ c.tid \in OfTasks(d) /\ c.tid \notin d.running \ d.lost
    BY <1>6, <2>2, StreamIs DEF OfTasks, Unicast
  <2>4. \A t \in d.tids : t.tid = c.tid => t.type \in OfTask
    BY <2>1, <2>3, TaskIs
  <2>5. Moves(d, tr', O, A, got)
    BY <1>6, <2>1, <2>3, <2>4, CloseCheckedMoves
  <2>6. Answered(tr, tr')
    BY <2>2, <2>5 DEF Moves, Answered, HasTid
  <2>7. Settled(tr, d)
    BY <2>2 DEF Settled, HasTid
  <2>8. Final(tr')
    BY <2>2, <2>5, <2>7, SilentFinal DEF DaemonInv, Moves
  <2> QED BY <1>1, <1>4, <2>5, <2>6, <2>8, AnswersStep DEF Moves, O, A
<1> QED BY <1>1, <1>5, <1>6

\* Alarms expire.
LEMMA ExpireStep ==
  ASSUME DaemonInv, Expire
  PROVE  DaemonInv'
<1> DEFINE O == opened
           A == asked
<1>1. Falls /\ UNCHANGED <<app, got, asked, wanted, returned, opened>>
  BY SaveFalls DEF Expire
<1>2. Good(tr, O, A, got)
  BY InvGood
<1> HIDE DEF O, A
<1>3. ASSUME NEW i \in DOMAIN tr.ptrcs, tr.ptrcs[i].alarm = "running"
      PROVE  Moves(tr, [tr EXCEPT !.ptrcs[i].alarm = "expired"], O, A, got)
  <2> DEFINE r == tr.ptrcs[i]
             c == [r EXCEPT !.alarm = "expired"]
             e == [tr EXCEPT !.ptrcs = [tr.ptrcs EXCEPT ![i] = c]]
  <2>1. r \in PtrConn /\ r.packet # "stop" /\ r.tid \in Unicast(tr)
    BY <1>2, <1>3, PtrOnList
  <2>2. [tr EXCEPT !.ptrcs[i].alarm = "expired"] = e
    OBVIOUS
  <2>3. c \in PtrConn /\ c.tid = r.tid /\ c.packet # "stop" /\ c.tid \in Unicast(tr)
    <3> HIDE DEF r
    <3> QED BY <2>1 DEF PtrConn
  <2> HIDE DEF c
  <2>4. Moves(tr, e, O, A, got)
    BY <1>2, <2>3, PtrChangeMoves
  <2> QED BY <2>2, <2>4
<1>4. ASSUME NEW i \in DOMAIN tr.tcmps
      PROVE  Moves(tr, [tr EXCEPT !.tcmps[i].alarm = "expired"], O, A, got)
  <2> DEFINE r == tr.tcmps[i]
             c == [r EXCEPT !.alarm = "expired"]
             e == [tr EXCEPT !.tcmps = [tr.tcmps EXCEPT ![i] = c], !.air = @ \cup {}]
  <2>1. r \in TcmpEntry
    BY <1>2, TcmpOnList
  <2>2. [tr EXCEPT !.tcmps[i].alarm = "expired"] = e
    BY <1>2 DEF Good, Daemon
  <2>3. c \in TcmpEntry /\ c.tid = r.tid
    <3> HIDE DEF r
    <3> QED BY <2>1 DEF TcmpEntry
  <2> HIDE DEF c
  <2>4. Moves(tr, e, O, A, got)
    BY <1>2, <2>3, TcmpSetMoves
  <2> QED BY <2>2, <2>4
<1>5. Moves(tr, tr', O, A, got)
  <2>1. CASE \E i \in DOMAIN tr.ptrcs : /\ tr.ptrcs[i].alarm = "running"
                                        /\ tr' = [tr EXCEPT !.ptrcs[i].alarm = "expired"]
    BY <1>3, <2>1
  <2>2. CASE \E i \in DOMAIN tr.tcmps : tr' = [tr EXCEPT !.tcmps[i].alarm = "expired"]
    BY <1>4, <2>2
  <2> QED BY <2>1, <2>2 DEF Expire
<1> QED BY <1>1, <1>5, MovesStep DEF O, A

LEMMA MoteReceivesStep ==
  ASSUME DaemonInv, MoteReceives
  PROVE  DaemonInv'
<1>1. PICK m \in tr.air :
        /\ m.what \in {"task", "stop"} /\ got' = got \cup {m}
        /\ Save /\ UNCHANGED <<tr, app, asked, wanted, returned, opened>>
  BY DEF MoteReceives
<1>2. asked \in Assigns
  BY DEF DaemonInv, TypeOK, Assigns
<1>3. Good(tr', opened', asked', got')
  <2>1. got \subseteq got' /\ got' \subseteq tr.air
    BY <1>1 DEF DaemonInv, TypeOK
  <2>2. Good(tr, opened, asked, got')
    BY <1>2, <2>1, InvGood, GoodGrows
  <2> QED BY <1>1, <2>2
<1>4. Falls
  BY <1>1, SaveFalls
<1>5. TypeOK'
  BY <1>1, <1>3, <1>4 DEF DaemonInv, TypeOK, Falls, Good
<1>6. RoundInv'
  BY <1>1, <1>4, RoundKept DEF HasTid
<1>7. \A s \in Sessions : Waits(tr, s)'
  BY <1>1 DEF DaemonInv, Waits
<1>8. \A g \in got' : g.what \in {"task", "stop"}
  BY <1>1 DEF DaemonInv
<1>9. Final(tr)'
  BY <1>1 DEF DaemonInv
<1> QED BY <1>3, <1>5, <1>6, <1>7, <1>8, <1>9 DEF DaemonInv

\* rem_client.
LEMMA HangupStep ==
  ASSUME DaemonInv, Hangup
  PROVE  DaemonInv'
<1>1. PICK s \in Sessions : \E R \in SUBSET TidsOf(Owned(tr, {FdOf(s)})) :
        /\ Connected(s) /\ tr' = ClientRemoved(tr, {FdOf(s)}, R) /\ (Save \/ Spend("refusals"))
        /\ UNCHANGED <<app, got, asked, wanted, returned, opened>>
  BY DEF Hangup
<1>0. PICK R \in SUBSET TidsOf(Owned(tr, {FdOf(s)})) :
        /\ Connected(s) /\ tr' = ClientRemoved(tr, {FdOf(s)}, R) /\ (Save \/ Spend("refusals"))
        /\ UNCHANGED <<app, got, asked, wanted, returned, opened>>
  BY <1>1
<1> DEFINE F == {FdOf(s)}
           e == ClientRemoved(tr, F, R)
<1>2. F \in SUBSET Fds
  BY <1>0 DEF Connected, FdOf
<1> HIDE DEF F
<1>3. Good(e, opened, asked, got) /\ Left(tr, e)
  BY <1>2, InvGood, ClientRemovedGood
<1> HIDE DEF e
<1>4. Answered(tr, e) /\ Final(e)
  BY <1>3, SilentAnswered, SilentFinal DEF Left, DaemonInv
<1>5. Falls
  BY <1>0, SaveFalls, SpendFalls DEF Counted
<1>6. tr' = e
  BY <1>0 DEF e, F
<1> QED BY <1>0, <1>3, <1>4, <1>5, <1>6, AnswersStep

-----------------------------------------------------------------------------
(* Requests of the applications.                                             *)

\* A task is being closed: its stop is sent, or given up.
LEMMA RetypeGood ==
  ASSUME NEW d, NEW O, NEW A, NEW G, Good(d, O, A, G), NEW tid, tid \notin d.running \ d.lost,
         \A t \in d.tids : t.tid = tid => t.type \in OfTask
  PROVE  Good([d EXCEPT !.tids = {IF t.tid = tid THEN [t EXCEPT !.type = "CLOSE"] ELSE t : t \in @}],
              O, A, G)
<1> DEFINE N == {IF t.tid = tid THEN [t EXCEPT !.type = "CLOSE"] ELSE t : t \in d.tids}
           e == [d EXCEPT !.tids = N]
<1>1. d.tids \subseteq Binding
  BY DEF Good, Daemon
<1>2. \A x \in N : \E t \in d.tids : /\ x \in Binding /\ x.tid = t.tid /\ x.addr = t.addr /\ x.fd = t.fd
                                     /\ x.type = IF t.tid = tid THEN "CLOSE" ELSE t.type
                                     /\ x = IF t.tid = tid THEN [t EXCEPT !.type = "CLOSE"] ELSE t
  BY <1>1 DEF Binding, Types
<1>3. \A t \in d.tids : t.tid # tid => t \in N
  BY <1>1
<1> HIDE DEF N
<1>4. /\ e \in Daemon /\ e.tids = N
      /\ e.clients = d.clients /\ e.box = d.box /\ e.running = d.running /\ e.lost = d.lost
      /\ e.spread = d.spread /\ e.ptrcs = d.ptrcs /\ e.tcmps = d.tcmps /\ e.air = d.air
      /\ e.streams = d.streams
  BY <1>2 DEF Good, Daemon
<1> HIDE DEF e
<1>5. Bound(e, A)
  <2>1. \A x, y \in N : x.tid = y.tid => x = y
    BY <1>2 DEF Good, Bound
  <2>2. \A x \in N : x.type \in OfTask =>
          d.clients[x.fd] # NoApp /\ x.tid \in A[d.clients[x.fd]]
    BY <1>2 DEF Good, Bound
  <2> QED BY <1>4, <2>1, <2>2 DEF Bound
<1>6. Kinds(e, O)
  <2>1. Unicast(e) = Unicast(d) /\ OfTasks(e) = OfTasks(d)
    BY <1>4 DEF Unicast, OfTasks
  <2>2. OfOthers(e) \subseteq OfOthers(d)
    BY <1>2, <1>4 DEF OfOthers, OfTask
  <2>3. \A x : HasTid(e, x) => HasTid(d, x)
    BY <1>2, <1>4 DEF HasTid
  <2>4. \A x \in N : x.type \in OfTask /\ x.addr # BCAST => x.tid \in Unicast(d)
    BY <1>2 DEF Good, Kinds
  <2> QED BY <1>4, <2>1, <2>2, <2>3, <2>4 DEF Good, Kinds
<1>7. Stoppable(e)
  BY <1>3, <1>4 DEF Good, Stoppable
<1>8. Told(e, A, G)
  BY <1>4 DEF Good, Told
<1>9. G \subseteq e.air
  BY <1>4 DEF Good
<1> QED BY <1>4, <1>5, <1>6, <1>7, <1>8, <1>9 DEF Good, e, N

LEMMA CloseRequestedGood ==
  ASSUME NEW d, NEW O, NEW A, NEW G, Good(d, O, A, G), NEW tid \in Tids, NEW ok, HasTid(d, tid),
         \A t \in d.tids : t.tid = tid => t.type \in OfTask
  PROVE  LET e == CloseRequested(d, tid, ok) IN
         Good(e, O, A, G) /\ Answered(d, e) /\ (Final(d) => Final(e))
<1> DEFINE Retyped(x) == {IF t.tid = tid THEN [t EXCEPT !.type = "CLOSE"] ELSE t : t \in x.tids}
           refused == IF ok THEN {} ELSE {tid}
           T == {tid}
           a == StopSent(d, T, refused)
           b == [a EXCEPT !.tids = Retyped(a)]
           c == ConnectionsClosed(b, T)
           e == CloseChecked(c, tid)
<1>1. CloseRequested(d, tid, ok) = e
  <2>1. StopSent([d EXCEPT !.tids = Retyped(d)], T, refused) = b
    BY DEF StopSent, Good, Daemon
  <2> QED BY <2>1 DEF CloseRequested
<1> HIDE DEF refused
<1>2. T \in SUBSET Tids
  OBVIOUS
<1>3. /\ a.tids = d.tids /\ a.clients = d.clients /\ a.box = d.box /\ a.reading = d.reading
      /\ a.air = d.air /\ a.myTID = d.myTID /\ a.stored = d.stored /\ a.unsaved = d.unsaved
      /\ a.streams = d.streams
  BY DEF StopSent, Good, Daemon
<1>4. tid \in T /\ \A x \in T : x = tid
  OBVIOUS
<1> HIDE DEF T
<1>5. /\ Good(a, O, A, G) /\ T \cap (a.running \ a.lost) = {}
      /\ a.running \ a.lost \subseteq d.running \ d.lost
  BY <1>2, StopSentGood
<1> HIDE DEF a
<1>6. tid \notin a.running \ a.lost
  BY <1>4, <1>5
<1>7. /\ b.box = a.box /\ b.reading = a.reading /\ b.myTID = a.myTID /\ b.stored = a.stored
      /\ b.unsaved = a.unsaved
      /\ b.air = a.air /\ b.running = a.running /\ b.lost = a.lost /\ b.tids = Retyped(a)
      /\ b.streams = a.streams
  BY <1>5 DEF Good, Daemon
<1>8. Good(b, O, A, G)
  <2>1. \A t \in a.tids : t.tid = tid => t.type \in OfTask
    BY <1>3
  <2>2. b = [a EXCEPT !.tids = {IF t.tid = tid THEN [t EXCEPT !.type = "CLOSE"] ELSE t : t \in @}]
    OBVIOUS
  <2> HIDE DEF b
  <2> QED BY <1>5, <1>6, <2>1, <2>2, RetypeGood
<1> HIDE DEF b
<1>9. \A x \in b.tids : \E t \in d.tids : x.tid = t.tid /\ (x.tid = tid => x.type \in OfTask)
  BY <1>3, <1>5, <1>7 DEF Good, Daemon, Binding, OfTask
<1>10. T \cap (b.running \ b.lost) = {}
  BY <1>5, <1>7
<1>11. /\ Good(c, O, A, G)
       /\ c.tids = b.tids /\ c.clients = b.clients /\ c.box = b.box /\ c.reading = b.reading
       /\ c.running = b.running /\ c.lost = b.lost /\ c.spread = b.spread
       /\ c.air = b.air /\ c.myTID = b.myTID /\ c.stored = b.stored /\ c.unsaved = b.unsaved
       /\ \A x \in c.streams : x.pending =>
            x.tid \in T \/ \E y \in b.streams : y.tid = x.tid /\ y.pending
  BY <1>8, <1>10, ClosedGood
<1> HIDE DEF c
<1>12. Moves(c, e, O, A, G)
  BY <1>6, <1>7, <1>9, <1>11, CloseCheckedMoves
<1> HIDE DEF e
<1>13. /\ c.box = d.box /\ c.reading = d.reading /\ c.myTID = d.myTID /\ c.stored = d.stored
       /\ c.unsaved = d.unsaved
       /\ c.air = d.air
  BY <1>3, <1>7, <1>11
<1>14. \A t \in e.tids : HasTid(d, t.tid)
  <2>1. \A x \in c.tids : HasTid(d, x.tid)
    BY <1>9, <1>11 DEF HasTid
  <2>2. \A t \in e.tids : HasTid(c, t.tid)
    BY <1>12 DEF Moves, Answered
  <2> QED BY <2>1, <2>2 DEF HasTid
<1>15. Answered(d, e)
  BY <1>12, <1>13, <1>14 DEF Moves, Answered
<1>16. Settled(d, c)
  <2>1. \A x \in c.tids : HasTid(d, x.tid)
    BY <1>9, <1>11 DEF HasTid
  <2>2. c.running \ c.lost \subseteq d.running \ d.lost
    BY <1>5, <1>7, <1>11
  <2>3. \A x \in c.streams : x.pending =>
          HasTid(d, x.tid) \/ \E y \in d.streams : y.tid = x.tid /\ y.pending
    BY <1>3, <1>4, <1>7, <1>11
  <2> QED BY <2>1, <2>2, <2>3 DEF Settled
<1>17. Final(d) => Final(e)
  BY <1>12, <1>13, <1>16, SilentFinal DEF Moves
<1> QED BY <1>1, <1>12, <1>15, <1>17 DEF Moves

LEMMA CloseTaskStep ==
  ASSUME DaemonInv, CloseTask
  PROVE  DaemonInv'
<1>1. PICK tid \in Tids, ok \in BOOLEAN :
        /\ HasTid(tr, tid) /\ TidOf(tr, tid).type \in {"TASK", "CLOSE"}
        /\ Save \/ Spend("refusals")
        /\ tr' = CloseRequested(tr, tid, ok)
        /\ UNCHANGED <<app, got, asked, wanted, returned, opened>>
  BY DEF CloseTask
<1>2. \A t \in tr.tids : t.tid = tid => t.type \in OfTask
  BY <1>1, TidIs, InvGood DEF Good, Bound, OfTask
<1>3. Good(tr', opened, asked, got) /\ Answered(tr, tr') /\ Final(tr')
  BY <1>1, <1>2, InvGood, CloseRequestedGood DEF DaemonInv
<1>4. Falls
  BY <1>1, SaveFalls, SpendFalls DEF Counted
<1> QED BY <1>1, <1>3, <1>4, AnswersStep

\* Clients come and go.
LEMMA ClientsGood ==
  ASSUME NEW d, NEW O, NEW A, NEW G, Good(d, O, A, G),
         NEW c \in [Fds -> Sessions \cup {NoApp}], NEW r \in SUBSET Sessions,
         \A t \in d.tids : t.type \in OfTask => c[t.fd] = d.clients[t.fd]
  PROVE  Good([d EXCEPT !.clients = c, !.reading = r], O, A, G)
<1> DEFINE e == [d EXCEPT !.clients = c, !.reading = r]
<1>1. /\ e \in Daemon /\ e.tids = d.tids
      /\ e.clients = c /\ e.box = d.box /\ e.running = d.running /\ e.lost = d.lost
      /\ e.spread = d.spread /\ e.ptrcs = d.ptrcs /\ e.tcmps = d.tcmps /\ e.air = d.air
      /\ e.streams = d.streams
  BY DEF Good, Daemon
<1> HIDE DEF e
<1>2. Bound(e, A)
  BY <1>1 DEF Good, Bound
<1>3. Kinds(e, O)
  <2>1. Unicast(e) = Unicast(d) /\ OfTasks(e) = OfTasks(d) /\ OfOthers(e) = OfOthers(d)
    BY <1>1 DEF Unicast, OfTasks, OfOthers
  <2>2. \A x : HasTid(e, x) <=> HasTid(d, x)
    BY <1>1 DEF HasTid
  <2> QED BY <1>1, <2>1, <2>2 DEF Good, Kinds
<1>4. Stoppable(e) /\ Told(e, A, G)
  BY <1>1 DEF Good, Stoppable, Told
<1> QED BY <1>1, <1>2, <1>3, <1>4 DEF Good, e

\* What is left in the boxes once messages were read or lost from the front.
LEMMA BoxesGood ==
  ASSUME NEW d, NEW O, NEW A, NEW G, Good(d, O, A, G),
         NEW b \in [Sessions -> Seq(Message)], NEW r \in SUBSET Sessions,
         NEW k \in [Sessions -> Nat],
         \A s \in Sessions : \A i \in DOMAIN b[s] :
           i + k[s] \in DOMAIN d.box[s] /\ b[s][i] = d.box[s][i + k[s]]
  PROVE  Good([d EXCEPT !.box = b, !.reading = r], O, A, G)
<1> DEFINE e == [d EXCEPT !.box = b, !.reading = r]
<1>1. /\ e \in Daemon /\ e.tids = d.tids
      /\ e.clients = d.clients /\ e.box = b /\ e.running = d.running /\ e.lost = d.lost
      /\ e.spread = d.spread /\ e.ptrcs = d.ptrcs /\ e.tcmps = d.tcmps /\ e.air = d.air
      /\ e.streams = d.streams
  BY DEF Good, Daemon
<1> HIDE DEF e
<1>2. Bound(e, A)
  BY <1>1 DEF Good, Bound
<1>3. Kinds(e, O)
  <2>1. Unicast(e) = Unicast(d) /\ OfTasks(e) = OfTasks(d) /\ OfOthers(e) = OfOthers(d)
    BY <1>1 DEF Unicast, OfTasks, OfOthers
  <2>2. \A x : HasTid(e, x) <=> HasTid(d, x)
    BY <1>1 DEF HasTid
  <2> QED BY <1>1, <2>1, <2>2 DEF Good, Kinds
<1>4. Stoppable(e)
  BY <1>1 DEF Good, Stoppable
<1>5. Told(e, A, G)
  BY <1>1 DEF Good, Told
<1>6. G \subseteq e.air
  BY <1>1 DEF Good
<1> QED BY <1>1, <1>2, <1>3, <1>4, <1>5, <1>6 DEF Good, e

\* What is in the boxes of e was in those of d, behind what has been read.
Behind(d, e) ==
  \A s \in Sessions : \E n \in Nat : \A i \in DOMAIN e.box[s] :
    i \in Nat /\ i + n \in DOMAIN d.box[s] /\ e.box[s][i] = d.box[s][i + n]

LEMMA BoxesFinal ==
  ASSUME NEW d, NEW e, Behind(d, e), e.tids = d.tids, e.running = d.running, e.lost = d.lost,
         e.streams = d.streams, Final(d)
  PROVE  Final(e)
<1> SUFFICES ASSUME NEW s \in Sessions, NEW i \in DOMAIN e.box[s], e.box[s][i].type = "CLOSE_ACK",
                    NEW tid, tid = e.box[s][i].tid
             PROVE  /\ ~HasTid(e, tid) /\ tid \notin e.running \ e.lost
                    /\ \A c \in e.streams : c.tid = tid => ~c.pending
                    /\ \A j \in DOMAIN e.box[s] : i < j => e.box[s][j].tid # tid
  BY DEF Final
<1>1. PICK n \in Nat : \A j \in DOMAIN e.box[s] :
        j \in Nat /\ j + n \in DOMAIN d.box[s] /\ e.box[s][j] = d.box[s][j + n]
  BY DEF Behind
<1>2. i + n \in DOMAIN d.box[s] /\ e.box[s][i] = d.box[s][i + n]
  BY <1>1
<1>3. /\ ~HasTid(d, tid) /\ tid \notin d.running \ d.lost
      /\ \A c \in d.streams : c.tid = tid => ~c.pending
      /\ \A j \in DOMAIN d.box[s] : i + n < j => d.box[s][j].tid # tid
  BY <1>2 DEF Final
<1>4. ASSUME NEW j \in DOMAIN e.box[s], i < j PROVE e.box[s][j].tid # tid
  <2>1. /\ j \in Nat /\ i \in Nat /\ j + n \in DOMAIN d.box[s]
        /\ e.box[s][j] = d.box[s][j + n]
    BY <1>1
  <2>2. i + n < j + n
    BY <1>4, <2>1
  <2> QED BY <1>3, <2>1, <2>2
<1> QED BY <1>3, <1>4 DEF HasTid

\* Steps that assign no tid and write nothing.
LEMMA QuietStep ==
  ASSUME DaemonInv, Good(tr', opened, asked, got), Falls,
         app' \in [Sessions -> {"none", "idle", "waiting", "gone"}],
         \A s \in Sessions : app'[s] = "none" => app[s] = "none",
         \A s \in Sessions : app[s] = "gone" => app'[s] = "gone",
         returned' \in [Sessions -> SUBSET (Tids \X Tids)],
         UNCHANGED <<got, asked, wanted, opened>>,
         tr'.myTID = tr.myTID, tr'.stored = tr.stored, tr'.unsaved = tr.unsaved,
         \A t \in tr'.tids : HasTid(tr, t.tid),
         Final(tr'), \A s \in Sessions : Waits(tr, s)'
  PROVE  DaemonInv'
<1>1. Good(tr', opened', asked', got') /\ tr' \in Daemon /\ got' \subseteq tr'.air
  BY DEF Good
<1>2. TypeOK'
  BY <1>1 DEF DaemonInv, TypeOK, Falls
<1>3. RoundInv'
  BY RoundKept
<1> QED BY <1>1, <1>2, <1>3 DEF DaemonInv

LEMMA ConnectStep ==
  ASSUME DaemonInv, NEW s \in Sessions, NEW f \in Fds, Connect(s, f)
  PROVE  DaemonInv'
<1> DEFINE c == [tr.clients EXCEPT ![f] = s]
           r == tr.reading \cup {s}
           e == [tr EXCEPT !.clients = c, !.reading = r]
<1>1. Good(tr, opened, asked, got) /\ tr \in Daemon
  BY InvGood
<1>2. c \in [Fds -> Sessions \cup {NoApp}] /\ r \in SUBSET Sessions
  BY <1>1 DEF Daemon
<1>3. \A t \in tr.tids : t.type \in OfTask => c[t.fd] = tr.clients[t.fd]
  BY <1>1 DEF Connect, Good, Bound, Daemon, Binding
<1>4. tr' = e
  BY DEF Connect
<1>5. /\ e.box = tr.box /\ e.reading = r /\ e.myTID = tr.myTID /\ e.stored = tr.stored
      /\ e.unsaved = tr.unsaved /\ e.air = tr.air /\ e.tids = tr.tids
      /\ e.running = tr.running /\ e.lost = tr.lost /\ e.streams = tr.streams
  BY <1>1 DEF Daemon
<1>6. Good(e, opened, asked, got)
  <2> HIDE DEF c, r
  <2> QED BY <1>1, <1>2, <1>3, ClientsGood
<1> HIDE DEF e, c
<1>7. Falls
  BY SaveFalls DEF Connect
<1>8. app' = [app EXCEPT ![s] = "idle"] /\ app[s] = "none" /\ UNCHANGED <<got, asked, wanted, returned, opened>>
  BY DEF Connect
<1>9. app \in [Sessions -> {"none", "idle", "waiting", "gone"}]
      /\ returned \in [Sessions -> SUBSET (Tids \X Tids)]
  BY DEF DaemonInv, TypeOK
<1>10. ASSUME NEW x \in Sessions PROVE Waits(tr, x)'
  <2>1. Waits(tr, x)
    BY DEF DaemonInv
  <2>2. Unicast(tr') = Unicast(tr) /\ tr'.box = tr.box /\ tr'.reading = r
    BY <1>4, <1>5 DEF Unicast
  <2>3. CASE x = s
    BY <1>8, <1>9, <2>1, <2>2, <2>3 DEF Waits
  <2>4. CASE x # s
    BY <1>8, <1>9, <2>1, <2>2, <2>4 DEF Waits
  <2> QED BY <2>3, <2>4
<1>11. /\ tr'.myTID = tr.myTID /\ tr'.stored = tr.stored /\ tr'.unsaved = tr.unsaved
       /\ \A t \in tr'.tids : HasTid(tr, t.tid)
  BY <1>4, <1>5 DEF HasTid
<1>12. /\ app' \in [Sessions -> {"none", "idle", "waiting", "gone"}]
       /\ \A x \in Sessions : app'[x] = "none" => app[x] = "none"
       /\ \A x \in Sessions : app[x] = "gone" => app'[x] = "gone"
  BY <1>8, <1>9
<1>13. Final(tr')
  <2>1. Settled(tr, e)
    BY <1>5 DEF Settled, HasTid
  <2> QED BY <1>4, <1>5, <2>1, SilentFinal DEF DaemonInv
<1> QED BY <1>4, <1>6, <1>7, <1>8, <1>9, <1>10, <1>11, <1>12, <1>13, QuietStep

LEMMA ReadStep ==
  ASSUME DaemonInv, Read
  PROVE  DaemonInv'
<1>1. PICK s \in Sessions :
        /\ app[s] \in {"idle", "waiting"} /\ tr.box[s] # <<>>
        /\ LET m == Head(tr.box[s]) IN
             IF app[s] = "waiting" /\ EndsWait(m)
             THEN /\ app' = [app EXCEPT ![s] = "idle"]
                  /\ returned' = [returned EXCEPT ![s] =
                       IF m.type = "CMD_NACK" THEN @ ELSE @ \cup {<<wanted[s], m.tid>>}]
             ELSE UNCHANGED <<app, returned>>
        /\ tr' = [tr EXCEPT !.box[s] = Tail(@)]
        /\ Save /\ UNCHANGED <<got, asked, wanted, opened>>
  BY DEF Read
<1> DEFINE m == Head(tr.box[s])
           ended == app[s] = "waiting" /\ EndsWait(m)
           b == [tr.box EXCEPT ![s] = Tail(tr.box[s])]
           k == [x \in Sessions |-> IF x = s THEN 1 ELSE 0]
           e == [tr EXCEPT !.box = b, !.reading = tr.reading]
<1>2. Good(tr, opened, asked, got) /\ tr \in Daemon /\ tr.box \in [Sessions -> Seq(Message)]
  BY InvGood DEF Daemon
<1>3. /\ tr.box[s] \in Seq(Message) /\ m \in Message /\ 1 \in DOMAIN tr.box[s] /\ m = tr.box[s][1]
      /\ Tail(tr.box[s]) \in Seq(Message) /\ Len(Tail(tr.box[s])) <= Len(tr.box[s])
      /\ \A i \in DOMAIN Tail(tr.box[s]) : /\ i \in Nat /\ i # 0 /\ i + 1 \in DOMAIN tr.box[s]
                                           /\ Tail(tr.box[s])[i] = tr.box[s][i + 1]
  BY <1>1, <1>2
<1>4. tr' = e
  BY <1>1, <1>2 DEF Daemon
<1>5. b \in [Sessions -> Seq(Message)] /\ k \in [Sessions -> Nat] /\ tr.reading \in SUBSET Sessions
  BY <1>2, <1>3 DEF Daemon
<1>6. \A x \in Sessions : \A i \in DOMAIN b[x] :
        i + k[x] \in DOMAIN tr.box[x] /\ b[x][i] = tr.box[x][i + k[x]]
  BY <1>2, <1>3
<1>7. b[s] = Tail(tr.box[s]) /\ \A x \in Sessions \ {s} : b[x] = tr.box[x]
  BY <1>2
<1> HIDE DEF b, k, m
<1>8. /\ e.box = b /\ e.reading = tr.reading /\ e.myTID = tr.myTID /\ e.stored = tr.stored
      /\ e.unsaved = tr.unsaved
      /\ e.air = tr.air /\ e.tids = tr.tids
      /\ e.running = tr.running /\ e.lost = tr.lost /\ e.streams = tr.streams
  BY <1>2 DEF Daemon
<1>9. Good(e, opened, asked, got)
  BY <1>2, <1>5, <1>6, BoxesGood
<1> HIDE DEF e
<1>10. Falls
  BY <1>1, SaveFalls
<1>11. /\ app \in [Sessions -> {"none", "idle", "waiting", "gone"}]
       /\ returned \in [Sessions -> SUBSET (Tids \X Tids)] /\ wanted \in [Sessions -> Tids \cup {0}]
  BY DEF DaemonInv, TypeOK
<1>12. Waits(tr, s)
  BY DEF DaemonInv
<1>13. m.tid \in Tids
  BY <1>3 DEF Message
<1>14. IF ended THEN /\ app' = [app EXCEPT ![s] = "idle"]
                     /\ returned' = [returned EXCEPT ![s] =
                          IF m.type = "CMD_NACK" THEN @ ELSE @ \cup {<<wanted[s], m.tid>>}]
       ELSE UNCHANGED <<app, returned>>
  BY <1>1 DEF m
<1>15. /\ app' \in [Sessions -> {"none", "idle", "waiting", "gone"}]
       /\ \A x \in Sessions : app'[x] = "none" => app[x] = "none"
       /\ \A x \in Sessions : app[x] = "gone" => app'[x] = "gone"
       /\ returned' \in [Sessions -> SUBSET (Tids \X Tids)]
  <2>1. CASE ended
    <3>1. wanted[s] \in Tids
      BY <1>11, <1>12, <2>1 DEF Waits
    <3> QED BY <1>1, <1>11, <1>13, <1>14, <2>1, <3>1
  <2>2. CASE ~ended
    BY <1>11, <1>14, <2>2
  <2> QED BY <2>1, <2>2
<1>16. ASSUME NEW x \in Sessions PROVE Waits(tr, x)'
  <2>1. Unicast(tr') = Unicast(tr) /\ tr'.box = b /\ tr'.reading = tr.reading
    BY <1>4, <1>8 DEF Unicast
  <2>2. CASE x # s
    <3>1. app'[x] = app[x] /\ returned'[x] = returned[x] /\ Waits(tr, x) /\ b[x] = tr.box[x]
      BY <1>7, <1>11, <1>14, <2>2 DEF DaemonInv
    <3> QED BY <1>1, <2>1, <3>1 DEF Waits
  <2>3. CASE x = s
    <3>1. app'[s] \in {"idle", "waiting"} /\ (app'[s] = "waiting" => app[s] = "waiting")
      BY <1>1, <1>11, <1>14
    <3>2. ASSUME asked[s] \cap Unicast(tr) = {}, NEW i \in DOMAIN b[s], IsCommand(b[s][i])
          PROVE  /\ app'[s] = "waiting" /\ b[s][i].tid = wanted[s]
                 /\ \A j \in DOMAIN b[s] : IsCommand(b[s][j]) => i = j
      <4>1. i + 1 \in DOMAIN tr.box[s] /\ b[s][i] = tr.box[s][i + 1] /\ i \in Nat /\ i # 0
        BY <1>3, <1>7
      <4>2. /\ app[s] = "waiting" /\ b[s][i].tid = wanted[s]
            /\ \A j \in DOMAIN tr.box[s] : IsCommand(tr.box[s][j]) => i + 1 = j
        BY <1>12, <3>2, <4>1 DEF Waits
      <4>3. ~EndsWait(m)
        BY <1>3, <4>1, <4>2 DEF EndsWait, IsCommand
      <4>4. app'[s] = "waiting"
        BY <1>14, <4>2, <4>3
      <4>5. \A j \in DOMAIN b[s] : /\ j \in Nat /\ j + 1 \in DOMAIN tr.box[s]
                                   /\ b[s][j] = tr.box[s][j + 1]
        BY <1>3, <1>7
      <4> QED BY <4>1, <4>2, <4>4, <4>5
    <3>3. ASSUME asked[s] \cap Unicast(tr) = {}, NEW r \in returned'[s]
          PROVE  r[1] = r[2]
      <4>1. CASE r \in returned[s]
        BY <1>12, <3>3, <4>1 DEF Waits
      <4>2. CASE r \notin returned[s]
        <5>1. ended /\ r = <<wanted[s], m.tid>>
          BY <1>11, <1>14, <3>3, <4>2
        <5>2. IsCommand(m)
          BY <5>1 DEF EndsWait, IsCommand
        <5>3. m.tid = wanted[s]
          BY <1>3, <1>12, <3>3, <5>2 DEF Waits
        <5> QED BY <5>1, <5>3
      <4> QED BY <4>1, <4>2
    <3>4. app'[s] = "waiting" => wanted[s] # 0
      BY <1>12, <3>1 DEF Waits
    <3> QED BY <1>1, <2>1, <2>3, <3>1, <3>2, <3>3, <3>4 DEF Waits
  <2> QED BY <2>2, <2>3
<1>17. /\ tr'.myTID = tr.myTID /\ tr'.stored = tr.stored /\ tr'.unsaved = tr.unsaved
       /\ \A t \in tr'.tids : HasTid(tr, t.tid)
  BY <1>4, <1>8 DEF HasTid
<1>18. Final(tr')
  <2>1. Final(tr)
    BY DEF DaemonInv
  <2>2. Behind(tr, e)
    <3> SUFFICES ASSUME NEW x \in Sessions
                 PROVE  \E n \in Nat : \A i \in DOMAIN b[x] :
                          i \in Nat /\ i + n \in DOMAIN tr.box[x] /\ b[x][i] = tr.box[x][i + n]
      BY <1>8 DEF Behind
    <3>1. b[x] \in Seq(Message) /\ k[x] \in Nat
      BY <1>5
    <3>2. \A i \in DOMAIN b[x] : i \in Nat
      BY <3>1
    <3> QED BY <1>6, <3>1, <3>2
  <2>3. Final(e)
    BY <1>8, <2>1, <2>2, BoxesFinal
  <2> QED BY <1>4, <2>3
<1> QED BY <1>1, <1>4, <1>9, <1>10, <1>15, <1>16, <1>17, <1>18, QuietStep

LEMMA ExitStep ==
  ASSUME DaemonInv, Exit
  PROVE  DaemonInv'
<1>1. PICK s \in Sessions :
        /\ app[s] \in {"idle", "waiting"} /\ app' = [app EXCEPT ![s] = "gone"]
        /\ tr' = [tr EXCEPT !.box[s] = <<>>, !.reading = @ \ {s}]
        /\ Save /\ UNCHANGED <<got, asked, wanted, returned, opened>>
  BY DEF Exit
<1> DEFINE b == [tr.box EXCEPT ![s] = <<>>]
           r == tr.reading \ {s}
           k == [x \in Sessions |-> 0]
           e == [tr EXCEPT !.box = b, !.reading = r]
<1>2. Good(tr, opened, asked, got) /\ tr \in Daemon /\ tr.box \in [Sessions -> Seq(Message)]
  BY InvGood DEF Daemon
<1>3. tr' = e
  BY <1>1, <1>2 DEF Daemon
<1>4. b \in [Sessions -> Seq(Message)] /\ k \in [Sessions -> Nat] /\ r \in SUBSET Sessions
  BY <1>2 DEF Daemon
<1>5. DOMAIN b[s] = {} /\ Len(b[s]) = 0 /\ \A x \in Sessions \ {s} : b[x] = tr.box[x]
  BY <1>2
<1>6. \A x \in Sessions : \A i \in DOMAIN b[x] :
        i + k[x] \in DOMAIN tr.box[x] /\ b[x][i] = tr.box[x][i + k[x]]
  <2> SUFFICES ASSUME NEW x \in Sessions, NEW i \in DOMAIN b[x]
               PROVE  i + k[x] \in DOMAIN tr.box[x] /\ b[x][i] = tr.box[x][i + k[x]]
    OBVIOUS
  <2>1. x # s /\ b[x] = tr.box[x] /\ tr.box[x] \in Seq(Message)
    BY <1>2, <1>5
  <2>2. i + k[x] = i
    BY <2>1
  <2> QED BY <2>1, <2>2
<1> HIDE DEF b, k
<1>7. /\ e.box = b /\ e.reading = r /\ e.myTID = tr.myTID /\ e.stored = tr.stored
      /\ e.unsaved = tr.unsaved
      /\ e.air = tr.air /\ e.tids = tr.tids
      /\ e.running = tr.running /\ e.lost = tr.lost /\ e.streams = tr.streams
  BY <1>2 DEF Daemon
<1>8. Good(e, opened, asked, got)
  <2> HIDE DEF r
  <2> QED BY <1>2, <1>4, <1>6, BoxesGood
<1> HIDE DEF e
<1>9. Falls
  BY <1>1, SaveFalls
<1>10. /\ app \in [Sessions -> {"none", "idle", "waiting", "gone"}]
       /\ returned \in [Sessions -> SUBSET (Tids \X Tids)]
  BY DEF DaemonInv, TypeOK
<1>11. app' \in [Sessions -> {"none", "idle", "waiting", "gone"}] /\ app'[s] = "gone"
       /\ \A x \in Sessions \ {s} : app'[x] = app[x]
  BY <1>1, <1>10
<1>12. ASSUME NEW x \in Sessions PROVE Waits(tr, x)'
  <2>1. Unicast(tr') = Unicast(tr) /\ tr'.box = b /\ tr'.reading = r
    BY <1>3, <1>7 DEF Unicast
  <2>2. Waits(tr, x)
    BY DEF DaemonInv
  <2>3. CASE x = s
    BY <1>1, <1>5, <1>11, <2>1, <2>2, <2>3 DEF Waits
  <2>4. CASE x # s
    BY <1>1, <1>5, <1>11, <2>1, <2>2, <2>4 DEF Waits
  <2> QED BY <2>3, <2>4
<1>13. /\ tr'.myTID = tr.myTID /\ tr'.stored = tr.stored /\ tr'.unsaved = tr.unsaved
       /\ \A t \in tr'.tids : HasTid(tr, t.tid)
  BY <1>3, <1>7 DEF HasTid
<1>14. Final(tr')
  <2>1. Final(tr)
    BY DEF DaemonInv
  <2>2. Behind(tr, e)
    <3> SUFFICES ASSUME NEW x \in Sessions
                 PROVE  \E n \in Nat : \A i \in DOMAIN b[x] :
                          i \in Nat /\ i + n \in DOMAIN tr.box[x] /\ b[x][i] = tr.box[x][i + n]
      BY <1>7 DEF Behind
    <3>1. b[x] \in Seq(Message) /\ k[x] \in Nat
      BY <1>4
    <3>2. \A i \in DOMAIN b[x] : i \in Nat
      BY <3>1
    <3> QED BY <1>6, <3>1, <3>2
  <2>3. Final(e)
    BY <1>7, <2>1, <2>2, BoxesFinal
  <2> QED BY <1>3, <2>3
<1>15. /\ \A x \in Sessions : app'[x] = "none" => app[x] = "none"
       /\ \A x \in Sessions : app[x] = "gone" => app'[x] = "gone"
  BY <1>11
<1> QED BY <1>1, <1>3, <1>8, <1>9, <1>10, <1>11, <1>12, <1>13, <1>14, <1>15, QuietStep

LEMMA BreaksStep ==
  ASSUME DaemonInv, Breaks
  PROVE  DaemonInv'
<1>1. PICK s \in Sessions :
        /\ tr' = [tr EXCEPT !.broken = @ \cup {s}]
        /\ Save /\ UNCHANGED <<app, got, asked, wanted, returned, opened>>
  BY DEF Breaks
<1> DEFINE d == tr
           e == [tr EXCEPT !.broken = @ \cup {s}]
<1>2. Good(d, opened, asked, got) /\ d \in Daemon
  BY InvGood
<1>3. /\ e \in Daemon /\ e.tids = d.tids
      /\ e.clients = d.clients /\ e.box = d.box /\ e.running = d.running /\ e.lost = d.lost
      /\ e.spread = d.spread /\ e.ptrcs = d.ptrcs /\ e.tcmps = d.tcmps /\ e.air = d.air
      /\ e.streams = d.streams /\ e.reading = d.reading /\ e.myTID = d.myTID /\ e.stored = d.stored
      /\ e.unsaved = d.unsaved
  BY <1>2 DEF Daemon
<1> HIDE DEF d, e
<1>4. Bound(e, asked)
  BY <1>2, <1>3 DEF Good, Bound
<1>5. Kinds(e, opened)
  <2>1. Unicast(e) = Unicast(d) /\ OfTasks(e) = OfTasks(d) /\ OfOthers(e) = OfOthers(d)
    BY <1>3 DEF Unicast, OfTasks, OfOthers
  <2>2. \A x : HasTid(e, x) <=> HasTid(d, x)
    BY <1>3 DEF HasTid
  <2> QED BY <1>2, <1>3, <2>1, <2>2 DEF Good, Kinds
<1>6. Stoppable(e) /\ Told(e, asked, got)
  BY <1>2, <1>3 DEF Good, Stoppable, Told
<1>7. Good(e, opened, asked, got)
  BY <1>2, <1>3, <1>4, <1>5, <1>6 DEF Good
<1>8. Answered(d, e)
  BY <1>3, SilentAnswered
<1>9. Falls
  BY <1>1, SaveFalls
<1>10. Settled(d, e)
  BY <1>3 DEF Settled, HasTid
<1>11. Final(e)
  BY <1>3, <1>10, SilentFinal DEF DaemonInv, d
<1> QED BY <1>1, <1>7, <1>8, <1>9, <1>11, AnswersStep DEF d, e

\* The daemon starts again: with no client and no task that it knows of.
LEMMA RestartedGood ==
  ASSUME NEW d, NEW O, NEW A, NEW G, Good(d, O, A, G)
  PROVE  LET e == Restarted(d) IN
         /\ Good(e, O, A, G) /\ e.tids = {}
         /\ e.myTID = (IF d.stored = NoTid THEN 1 ELSE d.stored)
         /\ e.stored = d.stored /\ e.unsaved = d.unsaved
         /\ e.reading = {} /\ e.air = d.air
         /\ \A s \in Sessions : DOMAIN e.box[s] = {} /\ Len(e.box[s]) = 0
<1> DEFINE e == Restarted(d)
           z == [f \in Fds |-> NoApp]
           b == [s \in Sessions |-> <<>>]
<1>1. /\ z \in [Fds -> Sessions \cup {NoApp}] /\ b \in [Sessions -> Seq(Message)]
      /\ \A s \in Sessions : DOMAIN b[s] = {} /\ Len(b[s]) = 0
  OBVIOUS
<1>2. /\ Daemon0 \in Daemon /\ Daemon0.tids = {} /\ Daemon0.clients = z /\ Daemon0.box = b
      /\ DOMAIN Daemon0.ptrcs = {} /\ DOMAIN Daemon0.tcmps = {} /\ Daemon0.streams = {}
      /\ Daemon0.reading = {}
  <2>1. Daemon0 = [tids |-> {}, myTID |-> 1, stored |-> 1, unsaved |-> {}, clients |-> z,
                   broken |-> {}, reading |-> {}, box |-> b, running |-> {}, spread |-> {}, lost |-> {},
                   ptrcs |-> <<>>, tcmps |-> <<>>, air |-> {}, streams |-> {}]
    BY DEF Daemon0
  <2>2. 1 \in Tids /\ <<>> \in Seq(PtrConn) /\ <<>> \in Seq(TcmpEntry)
    BY TidAssumption DEF Tids
  <2> HIDE DEF z, b
  <2>3. Daemon0 \in Daemon
    BY <1>1, <2>1, <2>2 DEF Daemon
  <2> QED BY <2>1, <2>3
<1> HIDE DEF z, b
<1>3. /\ e \in Daemon /\ e.tids = {} /\ e.clients = z /\ e.box = b /\ e.running = d.running
      /\ e.lost = d.lost \cup d.running /\ e.spread = d.spread
      /\ DOMAIN e.ptrcs = {} /\ DOMAIN e.tcmps = {} /\ e.air = d.air /\ e.streams = {}
      /\ e.myTID = (IF d.stored = NoTid THEN 1 ELSE d.stored)
      /\ e.stored = d.stored /\ e.unsaved = d.unsaved /\ e.reading = {}
  <2>1. d.stored \in Tids \cup {NoTid} /\ d.unsaved \subseteq Tids /\ d.running \subseteq Tids /\ d.spread \subseteq Tids
        /\ d.lost \subseteq Tids /\ d.air \subseteq Air
    BY DEF Good, Daemon
  <2>2. 1 \in Tids
    BY TidAssumption DEF Tids
  <2> QED BY <1>2, <2>1, <2>2 DEF Restarted, Daemon
<1>4. e \in Daemon
  BY <1>3
<1> HIDE DEF e
<1>5. Bound(e, A)
  BY <1>3 DEF Bound
<1>6. Kinds(e, O)
  <2>1. Unicast(e) = Unicast(d) /\ OfTasks(e) = OfTasks(d) /\ OfOthers(e) \subseteq OfOthers(d)
    BY <1>3 DEF Unicast, OfTasks, OfOthers
  <2>2. \A x : ~HasTid(e, x)
    BY <1>3 DEF HasTid
  <2> QED BY <1>3, <2>1, <2>2 DEF Good, Kinds
<1>7. Stoppable(e)
  BY <1>3 DEF Good, Stoppable
<1>8. Told(e, A, G)
  BY <1>1, <1>3 DEF Told
<1>9. G \subseteq e.air
  BY <1>3 DEF Good
<1> QED BY <1>1, <1>3, <1>4, <1>5, <1>6, <1>7, <1>8, <1>9 DEF Good, e

LEMMA RestartStep ==
  ASSUME DaemonInv, Restart
  PROVE  DaemonInv'
<1>1. /\ Spend("crashes") /\ UNCHANGED <<got, asked, wanted, returned, opened>>
      /\ app' = [s \in Sessions |-> IF app[s] = "none" THEN "none" ELSE "gone"]
  BY DEF Restart
<1>2. Good(tr, opened, asked, got) /\ tr \in Daemon
  BY InvGood
<1>3. PICK d : /\ tr' = Restarted(d) /\ Good(d, opened, asked, got)
               /\ Unicast(d) = Unicast(tr) /\ d.air \in SUBSET Air /\ Filed(tr, d)
  <2>1. CASE tr' = Restarted(tr)
    BY <1>2, <2>1 DEF Filed, Daemon
  <2>2. ASSUME NEW how \in Storings
        PROVE  LET e == StoreTid(tr, how) IN
               Good(e, opened, asked, got) /\ Unicast(e) = Unicast(tr) /\ Filed(tr, e)
    BY <1>2, StoreTidGood DEF Unicast, Refiled
  <2>3. CASE tr' = Restarted(StoreTid(tr, "emptied"))
    <3>1. "emptied" \in Storings
      BY DEF Storings
    <3> QED BY <2>2, <2>3, <3>1 DEF Good, Daemon
  <2>4. CASE \E how \in Storings : tr' = Restarted(AllRemoved(StoreTid(tr, how)))
    <3>1. PICK how \in Storings : tr' = Restarted(AllRemoved(StoreTid(tr, how)))
      BY <2>4
    <3> DEFINE a == StoreTid(tr, how)
               F == {f \in Fds : a.clients[f] # NoApp}
               e == ClientRemoved(a, F, {})
    <3>2. Good(a, opened, asked, got) /\ Unicast(a) = Unicast(tr) /\ Filed(tr, a)
      BY <2>2
    <3>3. AllRemoved(a) = e /\ F \in SUBSET Fds
      BY DEF AllRemoved
    <3> HIDE DEF a, F
    <3>4. Good(e, opened, asked, got) /\ Left(a, e)
      BY <3>2, <3>3, ClientRemovedGood
    <3> HIDE DEF e
    <3>5. Unicast(e) = Unicast(tr) /\ Filed(tr, e) /\ e.air \in SUBSET Air
      BY <3>2, <3>4 DEF Left, Filed, Good, Daemon
    <3> QED BY <3>1, <3>3, <3>4, <3>5 DEF a
  <2> QED BY <2>1, <2>3, <2>4 DEF Restart, Storing, Storings
<1>4. /\ Good(tr', opened, asked, got) /\ tr'.tids = {}
      /\ tr'.myTID = (IF d.stored = NoTid THEN 1 ELSE d.stored)
      /\ tr'.stored = d.stored /\ tr'.unsaved = d.unsaved
      /\ tr'.reading = {} /\ tr'.air = d.air
      /\ \A s \in Sessions : DOMAIN tr'.box[s] = {} /\ Len(tr'.box[s]) = 0
  BY <1>3, RestartedGood
<1>5. Falls
  BY <1>1, SpendFalls DEF Counted
<1>6. \A s \in Sessions : Waits(tr, s)'
  <2> SUFFICES ASSUME NEW s \in Sessions PROVE Waits(tr, s)'
    OBVIOUS
  <2>1. Unicast(tr') = Unicast(tr) /\ app'[s] \in {"none", "gone"}
    BY <1>1, <1>3, <1>4 DEF Unicast
  <2>2. Waits(tr, s)
    BY DEF DaemonInv
  <2> QED BY <1>1, <1>4, <2>1, <2>2 DEF Waits
<1>7. TypeOK'
  <2>1. tr' \in Daemon /\ got' \subseteq tr'.air
    BY <1>1, <1>4 DEF Good
  <2>2. app' \in [Sessions -> {"none", "idle", "waiting", "gone"}]
    BY <1>1
  <2> QED BY <1>1, <1>5, <2>1, <2>2 DEF DaemonInv, TypeOK, Falls
<1>8. RoundInv'
  <2>1. \A t \in opened' : \E s \in Sessions : t \in asked'[s]
    BY <1>1 DEF DaemonInv, RoundInv
  <2>2. ASSUME NEW s \in Sessions
        PROVE  /\ asked'[s] \subseteq opened' /\ (app'[s] = "none" => asked'[s] = {})
               /\ app'[s] \in {"none", "gone"}
    <3>1. asked[s] \subseteq opened /\ (app[s] = "none" => asked[s] = {})
      BY DEF DaemonInv, RoundInv
    <3> QED BY <1>1, <3>1
  <2>3. ASSUME Requested(left') > 0
        PROVE  /\ \A t \in opened' : t >= tr'.myTID \/ t >= tr'.stored => t \in tr'.unsaved
               /\ tr'.myTID + Requested(left') <= MAX_TID + 1
               /\ tr'.stored + Requested(left') <= MAX_TID + 1
    <3>1. /\ left \in [Counted -> Nat] /\ tr.myTID \in Tids /\ tr.stored \in Tids \cup {NoTid}
          /\ opened \subseteq Tids
      BY DEF DaemonInv, TypeOK, Daemon
    <3>2. Requested(left') <= Requested(left) /\ Requested(left') \in Nat /\ Requested(left) \in Nat
      BY <1>5, <3>1, RequestedIs, RequestedFalls DEF Falls
    <3>3. Requested(left) > 0
      BY <2>3, <3>2
    <3>4. /\ \A t \in opened : t >= tr.myTID \/ t >= tr.stored => t \in tr.unsaved
          /\ tr.myTID + Requested(left) <= MAX_TID + 1
          /\ tr.stored + Requested(left) <= MAX_TID + 1
      BY <3>3 DEF DaemonInv, RoundInv
    <3>5. /\ tr.myTID \in Int /\ tr.myTID >= 1 /\ tr.stored \in Int /\ tr.stored >= 0
          /\ MAX_TID \in Int /\ \A t \in opened : t \in Int /\ t >= 1 /\ t \in Tids
      BY <3>1, TidAssumption DEF Tids, NoTid
    <3>6. d.stored \in Int /\ \A t \in opened : t >= d.stored => t \in d.unsaved
      BY <1>3, <3>4, <3>5 DEF Filed, NoTid
    <3>7. d.stored + Requested(left') <= MAX_TID + 1 /\ 1 + Requested(left') <= MAX_TID + 1
      BY <1>3, <3>2, <3>4, <3>5 DEF Filed, NoTid
    <3>8. \A t \in opened : t >= tr'.myTID \/ t >= tr'.stored => t \in tr'.unsaved
      BY <1>4, <3>5, <3>6 DEF NoTid
    <3> QED BY <1>1, <1>4, <3>7, <3>8
  <2> QED BY <1>4, <2>1, <2>2, <2>3 DEF RoundInv
<1>9. Final(tr)'
  BY <1>4 DEF Final
<1> QED BY <1>1, <1>4, <1>6, <1>7, <1>8, <1>9 DEF DaemonInv

-----------------------------------------------------------------------------
(* The next tid.                                                             *)

LEMMA ModIs ==
  ASSUME NEW M \in Nat \ {0}, NEW x \in 1 .. M, NEW y \in 1 .. M, (x - y) % M <= 0
  PROVE  x = y
<1>1. CASE x >= y
  <2>1. x - y \in Nat /\ x - y < M
    BY <1>1
  <2>2. (x - y) % M = x - y
    BY <2>1
  <2> QED BY <1>1, <2>2
<1>2. CASE x < y
  <2>1. x - y + M \in Nat /\ x - y + M < M /\ x - y + M # 0
    BY <1>2
  <2>2. (x - y) % M = x - y + M
    BY <2>1
  <2> QED BY <2>1, <2>2
<1> QED BY <1>1, <1>2

Requesting == {"tasks", "unicasts", "probes", "services", "refusals"}

\* What a request that spends one takes from their sum.
LEMMA RequestedSpent ==
  ASSUME NEW b \in [Counted -> Nat], NEW what \in Requesting, b[what] > 0
  PROVE  Requested([b EXCEPT ![what] = @ - 1]) = Requested(b) - 1
<1> DEFINE c == [b EXCEPT ![what] = @ - 1]
<1>1. /\ b["tasks"] \in Nat /\ b["unicasts"] \in Nat /\ b["probes"] \in Nat
      /\ b["services"] \in Nat /\ b["refusals"] \in Nat
  BY DEF Counted
<1>2. \A x \in Requesting : c[x] = IF x = what THEN b[x] - 1 ELSE b[x]
  BY DEF Counted, Requesting
<1> HIDE DEF c
<1>3. /\ c["tasks"] = (IF "tasks" = what THEN b["tasks"] - 1 ELSE b["tasks"])
      /\ c["unicasts"] = (IF "unicasts" = what THEN b["unicasts"] - 1 ELSE b["unicasts"])
      /\ c["probes"] = (IF "probes" = what THEN b["probes"] - 1 ELSE b["probes"])
      /\ c["services"] = (IF "services" = what THEN b["services"] - 1 ELSE b["services"])
      /\ c["refusals"] = (IF "refusals" = what THEN b["refusals"] - 1 ELSE b["refusals"])
  BY <1>2 DEF Requesting
<1>4. Requested(c) = Requested(b) - 1
  <2>1. CASE what = "tasks"
    BY <1>1, <1>3, <2>1 DEF Requested
  <2>2. CASE what = "unicasts"
    BY <1>1, <1>3, <2>2 DEF Requested
  <2>3. CASE what = "probes"
    BY <1>1, <1>3, <2>3 DEF Requested
  <2>4. CASE what = "services"
    BY <1>1, <1>3, <2>4 DEF Requested
  <2>5. CASE what = "refusals"
    BY <1>1, <1>3, <2>5 DEF Requested
  <2> QED BY <2>1, <2>2, <2>3, <2>4, <2>5 DEF Requesting
<1> QED BY <1>4 DEF c

\* assign_new_tid gives the next tid: none from there on is in use.
LEMMA NewTidIs ==
  ASSUME DaemonInv, NEW what \in Requesting, Spend(what), FreeTids(tr) # {}
  PROVE  /\ NewTid(tr) = tr.myTID /\ NewTid(tr) \in Tids /\ ~HasTid(tr, NewTid(tr)) /\ Falls
         /\ Requested(left) \in Nat \ {0} /\ Requested(left') = Requested(left) - 1
<1>1. left \in [Counted -> Nat] /\ what \in Counted /\ tr.myTID \in Tids /\ tr.tids \subseteq Binding
  BY DEF DaemonInv, TypeOK, Daemon, Requesting, Counted
<1>2. Falls /\ left[what] > 0 /\ left' = [left EXCEPT ![what] = @ - 1]
  BY <1>1, SpendFalls DEF Spend
<1>3. Requested(left') = Requested(left) - 1 /\ Requested(left) \in Nat /\ Requested(left') \in Nat
  BY <1>1, <1>2, RequestedSpent, RequestedIs DEF Falls
<1>4. Requested(left) > 0
  BY <1>3
<1>5. MAX_TID \in Nat \ {0} /\ tr.myTID \in 1 .. MAX_TID
  BY <1>1, TidAssumption DEF Tids
<1>6. ~HasTid(tr, tr.myTID)
  <2>1. \A t \in tr.tids : t.tid < tr.myTID
    BY <1>4 DEF DaemonInv, RoundInv
  <2>2. ~(tr.myTID < tr.myTID)
    BY <1>5
  <2> QED BY <2>1, <2>2 DEF HasTid
<1>7. NewTid(tr) = tr.myTID
  <2> DEFINE First(m) == \A k \in FreeTids(tr) : (m - tr.myTID) % MAX_TID <= (k - tr.myTID) % MAX_TID
  <2>1. tr.myTID \in FreeTids(tr)
    BY <1>1, <1>6 DEF FreeTids
  <2>2. (tr.myTID - tr.myTID) % MAX_TID = 0
    BY <1>5
  <2>3. \A k \in FreeTids(tr) : (k - tr.myTID) % MAX_TID >= 0
    <3> SUFFICES ASSUME NEW k \in Int PROVE k % MAX_TID >= 0
      BY <1>5 DEF FreeTids, Tids
    <3> QED BY <1>5
  <2>4. First(tr.myTID)
    BY <2>2, <2>3
  <2>5. ASSUME NEW m \in FreeTids(tr), First(m) PROVE m = tr.myTID
    <3>1. (m - tr.myTID) % MAX_TID <= 0
      BY <2>1, <2>2, <2>5
    <3>2. m \in 1 .. MAX_TID
      BY DEF FreeTids, Tids
    <3> QED BY <1>5, <3>1, <3>2, ModIs
  <2>6. NewTid(tr) \in FreeTids(tr) /\ First(NewTid(tr))
    <3>1. NewTid(tr) = CHOOSE m \in FreeTids(tr) : First(m)
      BY DEF NewTid
    <3> HIDE DEF First
    <3> QED BY <2>1, <2>4, <3>1
  <2> QED BY <2>5, <2>6
<1> QED BY <1>1, <1>2, <1>3, <1>4, <1>6, <1>7

\* A tid that was given out before is one that was not saved.
LEMMA GivenTwice ==
  ASSUME DaemonInv, NEW what \in Requesting, Spend(what), FreeTids(tr) # {},
         NEW s \in Sessions, NEW tid, Opens(s, tid)
  PROVE  \A r \in Sessions : (asked'[r] \ asked[r]) \cap opened \subseteq tr.unsaved
<1>1. tid = tr.myTID /\ tid \in Tids /\ Requested(left) \in Nat \ {0}
  BY NewTidIs DEF Opens
<1>2. tid \in opened => tid \in tr.unsaved
  <2>1. Requested(left) > 0
    BY <1>1
  <2>2. tid >= tr.myTID
    BY <1>1 DEF Tids
  <2> QED BY <2>1, <2>2 DEF DaemonInv, RoundInv
<1>3. asked' = [asked EXCEPT ![s] = @ \cup {tid}] /\ asked \in [Sessions -> SUBSET Tids]
  BY DEF Opens, DaemonInv, TypeOK
<1>4. \A r \in Sessions : asked'[r] \subseteq asked[r] \cup {tid}
  BY <1>3
<1> QED BY <1>2, <1>4

\* If no tid is given out twice, this one is new.
LEMMA GivenOnce ==
  ASSUME DaemonInv, OneOwner', NEW what \in Requesting, Spend(what), FreeTids(tr) # {},
         NEW s \in Sessions, app[s] = "idle", NEW tid, Opens(s, tid)
  PROVE  /\ tid \in Tids \ opened /\ ~HasTid(tr, tid) /\ tid = tr.myTID /\ Falls
         /\ Requested(left) \in Nat \ {0} /\ Requested(left') = Requested(left) - 1
         /\ asked' = [asked EXCEPT ![s] = @ \cup {tid}] /\ opened' = opened \cup {tid}
<1>1. /\ tid = tr.myTID /\ tid \in Tids /\ ~HasTid(tr, tid) /\ Falls
      /\ Requested(left) \in Nat \ {0} /\ Requested(left') = Requested(left) - 1
      /\ asked' = [asked EXCEPT ![s] = @ \cup {tid}] /\ opened' = opened \cup {tid}
  BY NewTidIs DEF Opens
<1>2. asked \in [Sessions -> SUBSET Tids]
  BY DEF DaemonInv, TypeOK
<1>3. ASSUME NEW r \in Sessions, tid \in asked[r] PROVE FALSE
  <2>1. CASE r = s
    <3>1. Requested(left) > 0 /\ app[s] # "gone"
      BY <1>1
    <3>2. tid < tr.myTID
      BY <1>3, <2>1, <3>1 DEF DaemonInv, RoundInv
    <3> QED BY <1>1, <3>2 DEF Tids
  <2>2. CASE r # s
    <3>1. tid \in asked'[s] /\ tid \in asked'[r]
      BY <1>1, <1>2, <1>3, <2>2
    <3> QED BY <2>2, <3>1 DEF OneOwner
  <2> QED BY <2>1, <2>2
<1>4. tid \notin opened
  BY <1>3 DEF DaemonInv, RoundInv
<1> QED BY <1>1, <1>4

\* A request has got a tid; a task's is answered at once.
LEMMA OpensStep ==
  ASSUME DaemonInv, OneOwner', NEW what \in Requesting, Spend(what), FreeTids(tr) # {},
         NEW s \in Sessions, app[s] = "idle", NEW tid, Opens(s, tid),
         Good(tr', opened', asked', got), UNCHANGED <<got, returned>>,
         tr'.reading = tr.reading, tr.air \subseteq tr'.air, tr'.streams = tr.streams,
         tr'.running \ tr'.lost \subseteq (tr.running \ tr.lost) \cup {tid},
         Given(tr, tr', tid),
         \A t \in tr'.tids : t.tid = tid \/ HasTid(tr, t.tid),
         \/ app' = app /\ wanted' = wanted
         \/ app' = [app EXCEPT ![s] = "waiting"] /\ wanted' = [wanted EXCEPT ![s] = tid],
         \A r \in Sessions :
           \/ tr'.box[r] = tr.box[r]
           \/ r = s /\ app'[s] = "waiting"
              /\ \E m \in Message : IsCommand(m) /\ m.tid = tid /\ tr'.box[s] = Append(tr.box[s], m)
  PROVE  DaemonInv'
<1>1. /\ tid \in Tids \ opened /\ ~HasTid(tr, tid) /\ tid = tr.myTID /\ Falls
      /\ Requested(left) \in Nat \ {0} /\ Requested(left') = Requested(left) - 1
      /\ asked' = [asked EXCEPT ![s] = @ \cup {tid}] /\ opened' = opened \cup {tid}
  BY GivenOnce
<1>2. /\ app \in [Sessions -> {"none", "idle", "waiting", "gone"}]
      /\ asked \in [Sessions -> SUBSET Tids] /\ opened \subseteq Tids
      /\ wanted \in [Sessions -> Tids \cup {0}] /\ returned \in [Sessions -> SUBSET (Tids \X Tids)]
  BY DEF DaemonInv, TypeOK
<1>3. Good(tr', opened', asked', got') /\ tr' \in Daemon /\ got' \subseteq tr'.air
  BY DEF Good
<1>4. TypeOK'
  BY <1>1, <1>2, <1>3 DEF TypeOK, Falls
<1>5. RoundInv'
  <2>1. \A t \in opened' : \E r \in Sessions : t \in asked'[r]
    <3> SUFFICES ASSUME NEW t \in opened' PROVE \E r \in Sessions : t \in asked'[r]
      OBVIOUS
    <3>1. tid \in asked'[s] /\ \A r \in Sessions : asked[r] \subseteq asked'[r]
      BY <1>1, <1>2
    <3>2. t \in opened => \E r \in Sessions : t \in asked[r]
      BY DEF DaemonInv, RoundInv
    <3> QED BY <1>1, <3>1, <3>2
  <2>2. ASSUME NEW r \in Sessions
        PROVE  /\ asked'[r] \subseteq asked[r] \cup {tid} /\ asked'[r] \subseteq opened'
               /\ app'[r] = "none" => asked'[r] = {}
               /\ app'[r] # "gone" => app[r] # "gone"
    <3>1. asked[r] \subseteq opened /\ (app[r] = "none" => asked[r] = {})
      BY DEF DaemonInv, RoundInv
    <3>2. asked'[r] = IF r = s THEN asked[r] \cup {tid} ELSE asked[r]
      BY <1>1, <1>2
    <3>3. app'[r] = app[r] \/ (r = s /\ app'[r] = "waiting")
      BY <1>2
    <3> QED BY <1>1, <3>1, <3>2, <3>3
  <2>3. \A t \in tr'.tids : t.tid \in opened'
    BY <1>1 DEF HasTid, DaemonInv, RoundInv
  <2>4. CASE Requested(left') > 0
    <3>1. /\ \A t \in opened : t >= tid \/ t >= tr.stored => t \in tr.unsaved
          /\ \A t \in tr.tids : t.tid < tid
          /\ \A r \in Sessions : app[r] # "gone" => \A t \in asked[r] : t < tid
          /\ tid + Requested(left) <= MAX_TID + 1
          /\ tr.stored + Requested(left) <= MAX_TID + 1
      <4>1. Requested(left) > 0
        BY <1>1
      <4> QED BY <1>1, <4>1 DEF DaemonInv, RoundInv
    <3>2. /\ MAX_TID \in Nat \ {0} /\ tid \in Nat \ {0} /\ tr.stored \in Int
          /\ \A t \in opened' : t \in Int /\ t \in Tids
      <4>1. tr.stored \in Tids \cup {NoTid}
        BY DEF DaemonInv, TypeOK, Daemon
      <4> QED BY <1>1, <1>2, <4>1, TidAssumption DEF Tids, NoTid
    <3>3. tr'.myTID = tid + 1
      <4>1. tid < MAX_TID
        BY <1>1, <2>4, <3>1, <3>2
      <4>2. tid % MAX_TID = tid
        BY <3>2, <4>1
      <4> QED BY <4>2 DEF Given
    <3>4. \A t \in opened' : t >= tr'.myTID \/ t >= tr'.stored => t \in tr'.unsaved
      <4> SUFFICES ASSUME NEW t \in opened', t >= tr'.myTID \/ t >= tr'.stored PROVE t \in tr'.unsaved
        OBVIOUS
      <4>1. t = tid \/ (t \in opened /\ (t >= tid \/ t >= tr.stored => t \in tr.unsaved))
        BY <1>1, <3>1
      <4>2. CASE tr'.stored = tr'.myTID /\ tr'.unsaved = {x \in tr.unsaved \cup {tid} : x >= tr'.myTID}
        <5>1. t >= tid + 1 /\ t # tid
          BY <3>2, <3>3, <4>2
        <5>2. t >= tid
          BY <3>2, <5>1
        <5> QED BY <3>3, <4>1, <4>2, <5>1, <5>2
      <4>3. CASE tr'.stored = tr.stored /\ tr'.unsaved = tr.unsaved \cup {tid}
        <5>1. t >= tr'.myTID => t >= tid
          BY <3>2, <3>3
        <5> QED BY <4>1, <4>3, <5>1
      <4>4. CASE tr'.unsaved = Tids
        BY <3>2, <4>4
      <4> QED BY <4>2, <4>3, <4>4 DEF Given
    <3>5. \A t \in tr'.tids : t.tid < tr'.myTID
      <4> SUFFICES ASSUME NEW t \in tr'.tids PROVE t.tid < tid + 1
        BY <3>3
      <4>1. CASE t.tid = tid
        BY <3>2, <4>1
      <4>2. CASE HasTid(tr, t.tid)
        <5>1. t.tid < tid /\ t.tid \in Int
          BY <3>1, <3>2, <4>2, <2>3 DEF HasTid
        <5> QED BY <3>2, <5>1
      <4> QED BY <4>1, <4>2
    <3>6. ASSUME NEW r \in Sessions, app'[r] # "gone", NEW t \in asked'[r]
          PROVE  t < tr'.myTID
      <4>1. t = tid \/ t < tid
        BY <2>2, <3>1, <3>6
      <4>2. t \in Int
        BY <2>2, <3>2, <3>6
      <4> QED BY <3>2, <3>3, <4>1, <4>2
    <3>7. /\ tr'.myTID + Requested(left') <= MAX_TID + 1
          /\ tr'.stored + Requested(left') <= MAX_TID + 1
      <4>1. tr'.stored = tr'.myTID \/ tr'.stored = tr.stored \/ tr'.stored = 0
        BY DEF Given, NoTid
      <4> QED BY <1>1, <3>1, <3>2, <3>3, <4>1
    <3> QED BY <2>1, <2>2, <2>3, <3>4, <3>5, <3>6, <3>7 DEF RoundInv
  <2>5. CASE ~(Requested(left') > 0)
    BY <2>1, <2>2, <2>3, <2>5 DEF RoundInv
  <2> QED BY <2>4, <2>5
<1>6. \A r \in Sessions : tr.box[r] \in Seq(Message)
  BY DEF DaemonInv, Good, Daemon
<1>7. Unicast(tr) \subseteq Unicast(tr')
  BY DEF Unicast
<1>8. ASSUME NEW r \in Sessions PROVE Waits(tr, r)'
  <2>1. Waits(tr, r)
    BY DEF DaemonInv
  <2>2. CASE r # s
    <3>1. app'[r] = app[r] /\ wanted'[r] = wanted[r] /\ asked'[r] = asked[r] /\ tr'.box[r] = tr.box[r]
      BY <1>1, <1>2, <2>2
    <3> QED BY <1>7, <2>1, <3>1 DEF Waits
  <2>3. CASE r = s
    <3>1. asked[s] \subseteq asked'[s] /\ tid \in Tids /\ tid # 0
      BY <1>1, <1>2 DEF Tids
    <3>2. \/ app'[s] = "idle"
          \/ app'[s] = "waiting" /\ wanted'[s] = tid
      BY <1>2
    <3>3. asked[s] \cap Unicast(tr) = {} => /\ \A i \in DOMAIN tr.box[s] : ~IsCommand(tr.box[s][i])
                                            /\ \A x \in returned[s] : x[1] = x[2]
      BY <2>1, <2>3 DEF Waits
    <3>4. CASE tr'.box[s] = tr.box[s]
      BY <1>7, <2>3, <3>1, <3>2, <3>3, <3>4 DEF Waits
    <3>5. CASE /\ app'[s] = "waiting"
               /\ \E m \in Message : IsCommand(m) /\ m.tid = tid /\ tr'.box[s] = Append(tr.box[s], m)
      <4>1. PICK m \in Message : IsCommand(m) /\ m.tid = tid /\ tr'.box[s] = Append(tr.box[s], m)
        BY <3>5
      <4>2. \A i \in DOMAIN tr'.box[s] :
              \/ i \in DOMAIN tr.box[s] /\ tr'.box[s][i] = tr.box[s][i]
              \/ i = Len(tr.box[s]) + 1 /\ tr'.box[s][i] = m
        BY <1>6, <4>1
      <4> QED BY <1>7, <2>3, <3>1, <3>2, <3>3, <3>5, <4>1, <4>2 DEF Waits
    <3> QED BY <3>4, <3>5
  <2> QED BY <2>2, <2>3
<1>9. Final(tr')
  <2> SUFFICES ASSUME NEW r \in Sessions, NEW i \in DOMAIN tr'.box[r], tr'.box[r][i].type = "CLOSE_ACK",
                      NEW x, x = tr'.box[r][i].tid
               PROVE  /\ ~HasTid(tr', x) /\ x \notin tr'.running \ tr'.lost
                      /\ \A c \in tr'.streams : c.tid = x => ~c.pending
                      /\ \A j \in DOMAIN tr'.box[r] : i < j => tr'.box[r][j].tid # x
    BY DEF Final
  <2>1. \A j \in DOMAIN tr'.box[r] :
          \/ j \in DOMAIN tr.box[r] /\ tr'.box[r][j] = tr.box[r][j]
          \/ tr'.box[r][j].tid = tid /\ IsCommand(tr'.box[r][j])
    <3>1. CASE tr'.box[r] = tr.box[r]
      BY <3>1
    <3>2. CASE \E m \in Message : IsCommand(m) /\ m.tid = tid /\ tr'.box[r] = Append(tr.box[r], m)
      BY <1>6, <3>2
    <3> QED BY <3>1, <3>2
  <2>2. i \in DOMAIN tr.box[r] /\ tr'.box[r][i] = tr.box[r][i]
    BY <2>1 DEF IsCommand, Commands
  <2>3. x \in asked[r]
    BY <2>2 DEF DaemonInv, Good, Told
  <2>4. x # tid
    BY <1>1, <2>3 DEF DaemonInv, RoundInv
  <2>5. /\ ~HasTid(tr, x) /\ x \notin tr.running \ tr.lost
        /\ \A c \in tr.streams : c.tid = x => ~c.pending
        /\ \A j \in DOMAIN tr.box[r] : i < j => tr.box[r][j].tid # x
    BY <2>2 DEF DaemonInv, Final
  <2>6. ~HasTid(tr', x)
    BY <2>4, <2>5 DEF HasTid
  <2>7. \A j \in DOMAIN tr'.box[r] : i < j => tr'.box[r][j].tid # x
    BY <2>1, <2>4, <2>5
  <2> QED BY <2>4, <2>5, <2>6, <2>7
<1>10. \A g \in got' : g.what \in {"task", "stop"}
  BY DEF DaemonInv
<1> QED BY <1>3, <1>4, <1>5, <1>8, <1>9, <1>10 DEF DaemonInv

\* A task has its tid, and its session is told of it.
LEMMA TaskOpensStep ==
  ASSUME DaemonInv, OneOwner', NEW what \in Requesting, Spend(what), FreeTids(tr) # {},
         NEW s \in Sessions, app[s] = "idle", NEW tid, Opens(s, tid),
         NEW e, Good(e, opened', asked', got), UNCHANGED <<got, returned>>,
         e.box = tr.box, e.reading = tr.reading, tr.air \subseteq e.air, e.streams = tr.streams,
         e.running \ e.lost \subseteq (tr.running \ tr.lost) \cup {tid}, Given(tr, e, tid),
         NEW t \in Binding, t.tid = tid, t.type = "TASK", e.clients[t.fd] = s,
         e.tids = tr.tids \cup {t},
         app' = [app EXCEPT ![s] = "waiting"], wanted' = [wanted EXCEPT ![s] = tid],
         NEW m \in Message, IsCommand(m), m.tid = tid, m.type = "CMD_ACK" => m.addr = BCAST,
         \/ tr' = SendToTid(e, m)
         \/ tr' = RemoveTid(SendToTid(e, m), tid) /\ tid \notin e.running
  PROVE  DaemonInv'
<1> DEFINE f == SendToTid(e, m)
<1>1. tid \in Tids \ opened /\ ~HasTid(tr, tid)
  BY GivenOnce
<1>2. e \in Daemon /\ tr \in Daemon
  BY InvGood DEF Good
<1>3. \A u \in e.tids : u.tid = tid => u = t
  BY <1>1 DEF HasTid
<1>4. Sayable(e, got, m)
  BY <1>3 DEF Sayable, IsCommand, Commands, OfTask
<1>5. Good(f, opened', asked', got)
  BY <1>4, SendToTidGood
<1>6. /\ Adds(e, f, m) /\ f.running = e.running /\ f.air = e.air /\ f.reading = e.reading
      /\ f.myTID = e.myTID /\ f.stored = e.stored /\ f.unsaved = e.unsaved /\ f.tids \subseteq e.tids
      /\ f.streams = e.streams /\ e.lost \subseteq f.lost
  BY <1>2, SentIs
<1>7. f \in Daemon
  BY <1>5 DEF Good
<1> HIDE DEF f
<1>8. /\ Good(tr', opened', asked', got)
      /\ tr'.box = f.box /\ tr'.air = f.air /\ tr'.reading = f.reading
      /\ tr'.myTID = f.myTID /\ tr'.stored = f.stored /\ tr'.unsaved = f.unsaved
      /\ tr'.tids \subseteq f.tids /\ tr'.streams = f.streams
      /\ tr'.running = f.running /\ tr'.lost = f.lost
  <2>1. CASE tr' = f
    BY <1>5, <2>1
  <2>2. CASE tr' = RemoveTid(f, tid) /\ tid \notin e.running
    <3>1. Good(RemoveTid(f, tid), opened', asked', got)
      BY <1>5, <1>6, <2>2, RemoveTidGood
    <3> QED BY <1>7, <2>2, <3>1 DEF RemoveTid, Daemon
  <2> QED BY <2>1, <2>2 DEF f
<1>9. \A r \in Sessions :
        \/ tr'.box[r] = tr.box[r]
        \/ r = s /\ tr'.box[s] = Append(tr.box[s], m)
  BY <1>3, <1>6, <1>8 DEF Adds
<1>10. \A u \in tr'.tids : u.tid = tid \/ HasTid(tr, u.tid)
  BY <1>6, <1>8 DEF HasTid
<1>11. app'[s] = "waiting"
  BY DEF DaemonInv, TypeOK
<1>12. \A r \in Sessions :
         \/ tr'.box[r] = tr.box[r]
         \/ r = s /\ app'[s] = "waiting"
            /\ \E x \in Message : IsCommand(x) /\ x.tid = tid /\ tr'.box[s] = Append(tr.box[s], x)
  BY <1>9, <1>11
<1>13. /\ tr'.reading = tr.reading /\ tr.air \subseteq tr'.air /\ tr'.streams = tr.streams
       /\ tr'.running \ tr'.lost \subseteq (tr.running \ tr.lost) \cup {tid}
       /\ Given(tr, tr', tid)
  BY <1>6, <1>8 DEF Given
<1> QED BY <1>8, <1>10, <1>12, <1>13, OpensStep

\* The daemon with the tid assigned.
LEMMA OpensGood ==
  ASSUME DaemonInv, OneOwner', NEW what \in Requesting, Spend(what), FreeTids(tr) # {},
         NEW s \in Sessions, app[s] = "idle", NEW tid, Opens(s, tid), NEW how \in Storings
  PROVE  LET a == Assigned(tr, tid, how) IN
         /\ Good(a, opened', asked', got)
         /\ tid \in Tids /\ tid \in opened' /\ tid \in asked'[s] /\ ~HasTid(a, tid)
         /\ tid \notin OfTasks(a) /\ tid \notin OfOthers(a) /\ tid \notin a.running
         /\ \A m \in a.air : m.what = "stop" => m.tid # tid
         /\ a.box = tr.box /\ a.reading = tr.reading /\ a.air = tr.air /\ a.clients = tr.clients
         /\ a.tids = tr.tids /\ a.streams = tr.streams
         /\ a.running = tr.running /\ a.lost = tr.lost /\ Given(tr, a, tid)
<1> DEFINE a == Assigned(tr, tid, how)
<1>1. /\ tid \in Tids \ opened /\ ~HasTid(tr, tid)
      /\ asked' = [asked EXCEPT ![s] = @ \cup {tid}] /\ opened' = opened \cup {tid}
  BY GivenOnce
<1>2. Good(tr, opened, asked, got) /\ tr \in Daemon
  BY InvGood
<1>3. asked \in Assigns
  BY DEF DaemonInv, TypeOK, Assigns
<1>4. /\ asked' \in Assigns /\ tid \in asked'[s]
      /\ \A r \in Sessions : asked[r] \subseteq asked'[r]
  BY <1>1, <1>3 DEF Assigns
<1>5. Good(tr, opened', asked', got)
  <2>1. got \subseteq tr.air
    BY <1>2 DEF Good
  <2> QED BY <1>1, <1>2, <1>3, <1>4, <2>1, GoodGrows
<1>6. Good(a, opened', asked', got) /\ Refiled(tr, a) /\ Given(tr, a, tid)
  BY <1>1, <1>5, AssignedGood
<1> HIDE DEF a
<1>7. /\ a.box = tr.box /\ a.reading = tr.reading /\ a.air = tr.air /\ a.clients = tr.clients
      /\ a.tids = tr.tids /\ a.spread = tr.spread /\ a.running = tr.running /\ a.tcmps = tr.tcmps
      /\ a.streams = tr.streams /\ a.lost = tr.lost
  BY <1>6 DEF Refiled
<1>8. OfTasks(a) = OfTasks(tr) /\ OfOthers(a) = OfOthers(tr)
  BY <1>7 DEF OfTasks, OfOthers, Unicast
<1>9. /\ tid \notin OfTasks(a) /\ tid \notin OfOthers(a) /\ tid \notin a.running
      /\ Unicast(tr) \subseteq opened
  BY <1>1, <1>2, <1>7, <1>8 DEF Good, Kinds, Stoppable, OfTasks
<1>10. \A m \in a.air : m.what = "stop" => m.tid # tid
  BY <1>1, <1>2, <1>7, <1>9 DEF Good, Kinds
<1>11. ~HasTid(a, tid)
  BY <1>1, <1>7 DEF HasTid
<1> QED BY <1>1, <1>4, <1>6, <1>7, <1>9, <1>10, <1>11 DEF a

\* The descriptor of a client that asks.
LEMMA FdIs ==
  ASSUME NEW s \in Sessions, Connected(s)
  PROVE  FdOf(s) \in Fds /\ tr.clients[FdOf(s)] = s /\ s # NoApp
BY TidAssumption DEF Connected, FdOf, NoApp

LEMMA BindingIs ==
  ASSUME NEW d, NEW tid \in Tids, NEW addr \in Motes \cup {BCAST}, NEW type \in Types,
         NEW fd \in Fds, ~HasTid(d, tid)
  PROVE  LET t == [tid |-> tid, addr |-> addr, type |-> type, fd |-> fd] IN
         /\ t \in Binding /\ t.tid = tid /\ t.addr = addr /\ t.type = type /\ t.fd = fd
         /\ AddTid(d, tid, addr, type, fd) = [d EXCEPT !.tids = @ \cup {t}]
BY DEF Binding, AddTid

\* The binding t of a new task for one mote, and the daemon with its packet in hand
\* and sent.
ForOneMote(a, O, A, t) ==
  /\ t \in Binding /\ t.tid \in O /\ t.type = "TASK" /\ t.addr # BCAST
  /\ ~HasTid(a, t.tid) /\ t.tid \notin OfTasks(a) /\ t.tid \notin OfOthers(a)
  /\ a.clients[t.fd] # NoApp /\ t.tid \in A[a.clients[t.fd]]
  /\ \A m \in a.air : m.what = "stop" => m.tid # t.tid

Handed(a, t) == PtrSend([a EXCEPT !.tids = @ \cup {t}], t.tid, t.addr, "task")

LEMMA UnicastGood ==
  ASSUME NEW a, NEW O, NEW A, NEW G, Good(a, O, A, G), NEW t, ForOneMote(a, O, A, t),
         NEW e, e = Handed(a, t)
  PROVE  /\ Good(e, O, A, G)
         /\ e.box = a.box /\ e.reading = a.reading /\ a.air \subseteq e.air
         /\ e.myTID = a.myTID /\ e.stored = a.stored /\ e.unsaved = a.unsaved /\ e.clients = a.clients
         /\ e.tids = a.tids \cup {t} /\ e.streams = a.streams
         /\ e.running = a.running /\ e.lost = a.lost
<1> DEFINE d == [a EXCEPT !.tids = @ \cup {t}]
<1>0. /\ t \in Binding /\ t.tid \in O /\ t.type = "TASK" /\ t.addr # BCAST
      /\ ~HasTid(a, t.tid) /\ t.tid \notin OfTasks(a) /\ t.tid \notin OfOthers(a)
      /\ a.clients[t.fd] # NoApp /\ t.tid \in A[a.clients[t.fd]]
      /\ \A m \in a.air : m.what = "stop" => m.tid # t.tid
  BY DEF ForOneMote
<1>1. a \in Daemon /\ t.tid \in Tids /\ t.addr \in Motes
  BY <1>0 DEF Good, Binding
<1>2. d \in Daemon /\ d.ptrcs = a.ptrcs
  BY <1>0, <1>1 DEF Daemon
<1>3. Sends(d, e, t.tid, "task")
  <2>1. e = PtrSend(d, t.tid, t.addr, "task")
    BY DEF Handed
  <2> HIDE DEF d
  <2> QED BY <1>1, <1>2, <2>1, PtrSendIs
<1>4. PICK q \in Seq(PtrConn), x \in Air :
        /\ e = [d EXCEPT !.ptrcs = q, !.air = @ \cup {x}]
        /\ x.what = "task" /\ x.tid = t.tid
        /\ \A i \in DOMAIN q :
             \/ \E j \in DOMAIN d.ptrcs : q[i] = d.ptrcs[j]
             \/ q[i].tid = t.tid /\ q[i].packet \in {NoPacket, "task"}
  BY <1>3 DEF Sends
<1> DEFINE B == {x}
           b == [a EXCEPT !.ptrcs = q, !.air = @ \cup B]
<1>5. e = [b EXCEPT !.tids = @ \cup {t}]
  BY <1>0, <1>1, <1>4 DEF Daemon
<1>6. Tasked(B) = {t.tid}
  BY <1>4 DEF Tasked
<1>7. \A i \in DOMAIN q : /\ q[i].tid \in OfTasks(a) \cup Tasked(B) /\ q[i].packet # "stop"
                          /\ q[i].alarm # "off" => q[i].tid \in Unicast(a) \cup Tasked(B)
  <2> HIDE DEF d, B
  <2> SUFFICES ASSUME NEW i \in DOMAIN q
               PROVE  /\ q[i].tid \in OfTasks(a) \cup Tasked(B) /\ q[i].packet # "stop"
                      /\ q[i].alarm # "off" => q[i].tid \in Unicast(a) \cup Tasked(B)
    OBVIOUS
  <2>1. CASE \E j \in DOMAIN d.ptrcs : q[i] = d.ptrcs[j]
    BY <1>2, <2>1 DEF Good, Kinds
  <2>2. CASE q[i].tid = t.tid /\ q[i].packet \in {NoPacket, "task"}
    BY <1>6, <2>2 DEF NoPacket
  <2> QED BY <1>4, <2>1, <2>2
<1>8. B \in SUBSET Air /\ \A m \in B : m.what = "task"
  BY <1>4
<1>9. Tasked(B) \subseteq Unicast(a) \cup (O \ (OfOthers(a) \cup a.spread))
  BY <1>0, <1>6 DEF OfTasks
<1> HIDE DEF B
<1>10. /\ b.box = a.box /\ b.reading = a.reading /\ b.air = a.air \cup B
       /\ b.myTID = a.myTID /\ b.stored = a.stored /\ b.unsaved = a.unsaved /\ b.clients = a.clients
       /\ b.tids = a.tids /\ b.tids \in SUBSET Binding /\ b.streams = a.streams
       /\ b.running = a.running /\ b.lost = a.lost
  BY <1>1 DEF Daemon
<1>11. Good(b, O, A, G)
  BY <1>7, <1>8, <1>9, PtrsGood
<1> HIDE DEF b
<1>12. t.tid \in Unicast(b) /\ ~HasTid(b, t.tid) /\ \A m \in b.air : m.what = "stop" => m.tid # t.tid
  BY <1>0, <1>6, <1>8, <1>10 DEF Unicast, HasTid, Tasked
<1>13. Good([b EXCEPT !.tids = @ \cup {t}], O, A, G)
  BY <1>0, <1>10, <1>11, <1>12, AddTidGood DEF OfTask
<1>14. /\ e.box = b.box /\ e.reading = b.reading /\ e.air = b.air
       /\ e.myTID = b.myTID /\ e.stored = b.stored /\ e.unsaved = b.unsaved /\ e.clients = b.clients
       /\ e.tids = b.tids \cup {t} /\ e.streams = b.streams
       /\ e.running = b.running /\ e.lost = b.lost
  BY <1>0, <1>5, <1>11 DEF Good, Daemon
<1> HIDE DEF d
<1>15. /\ e.box = a.box /\ e.reading = a.reading /\ a.air \subseteq e.air
       /\ e.myTID = a.myTID /\ e.stored = a.stored /\ e.unsaved = a.unsaved /\ e.clients = a.clients
       /\ e.tids = a.tids \cup {t} /\ e.streams = a.streams
       /\ e.running = a.running /\ e.lost = a.lost
  BY <1>10, <1>14
<1> QED BY <1>5, <1>13, <1>15 DEF d

LEMMA SendTaskStep ==
  ASSUME DaemonInv, OneOwner', NEW what \in Requesting, Spend(what), NEW s \in Sessions, Requests(s),
         NEW addr \in Motes \cup {BCAST}, NEW ok \in BOOLEAN, SendTask(s, addr, ok),
         app' = [app EXCEPT ![s] = "waiting"], UNCHANGED <<got, returned>>
  PROVE  DaemonInv'
<1> DEFINE fd == FdOf(s)
<1>1. PICK tid \in FreeTids(tr), how \in Storing :
        LET d == AddTid(Assigned(tr, tid, how), tid, addr, "TASK", fd)
        IN  /\ Opens(s, tid)
            /\ IF addr # BCAST
               THEN tr' = SendToApp(PtrSend(d, tid, addr, "task"), "CMD_RETURN", tid, addr)
               ELSE IF ok
               THEN tr' = SendToApp([d EXCEPT !.running = @ \cup {tid},
                                              !.spread = @ \cup {tid}], "CMD_ACK", tid, addr)
               ELSE tr' = RemoveTid(SendToApp(d, "CMD_NACK", tid, addr), tid)
            /\ wanted' = [wanted EXCEPT ![s] = tid]
  BY DEF SendTask
<1> DEFINE a == Assigned(tr, tid, how)
           t == [tid |-> tid, addr |-> addr, type |-> "TASK", fd |-> fd]
           d == [a EXCEPT !.tids = @ \cup {t}]
           M(type) == [type |-> type, tid |-> tid, addr |-> addr, seq |-> 0]
<1>2. FreeTids(tr) # {} /\ Opens(s, tid) /\ app[s] = "idle" /\ wanted' = [wanted EXCEPT ![s] = tid]
  BY <1>1 DEF Requests
<1>3. /\ Good(a, opened', asked', got)
      /\ tid \in Tids /\ tid \in opened' /\ tid \in asked'[s] /\ ~HasTid(a, tid)
      /\ tid \notin OfTasks(a) /\ tid \notin OfOthers(a) /\ tid \notin a.running
      /\ \A m \in a.air : m.what = "stop" => m.tid # tid
      /\ a.box = tr.box /\ a.reading = tr.reading /\ a.air = tr.air /\ a.clients = tr.clients
      /\ a.tids = tr.tids /\ a.streams = tr.streams
      /\ a.running = tr.running /\ a.lost = tr.lost /\ Given(tr, a, tid)
  <2>1. how \in Storings
    BY DEF Storing, Storings
  <2> QED BY <1>2, <2>1, OpensGood
<1>4. fd \in Fds /\ tr.clients[fd] = s /\ s # NoApp
  BY FdIs DEF Requests
<1> HIDE DEF a, fd
<1>5. /\ t \in Binding /\ t.tid = tid /\ t.addr = addr /\ t.type = "TASK" /\ t.fd = fd
      /\ AddTid(a, tid, addr, "TASK", fd) = d
  <2>1. "TASK" \in Types
    BY DEF Types
  <2> QED BY <1>3, <1>4, <2>1, BindingIs
<1>6. \A type \in Commands : /\ M(type) \in Message /\ IsCommand(M(type)) /\ M(type).tid = tid
                             /\ M(type).type = type /\ M(type).addr = addr
  BY <1>3 DEF Message, IsCommand, Commands
<1> HIDE DEF t
<1>7. /\ d.box = a.box /\ d.reading = a.reading /\ d.air = a.air /\ d.clients = a.clients
      /\ d.tids = a.tids \cup {t} /\ d.myTID = a.myTID /\ d.stored = a.stored
      /\ d.unsaved = a.unsaved
      /\ d.running = a.running /\ d.lost = a.lost /\ d.streams = a.streams /\ OfTasks(d) = OfTasks(a)
  BY <1>3 DEF Good, Daemon, OfTasks, Unicast
<1>8. CASE addr # BCAST
  <2> DEFINE e == PtrSend(d, tid, addr, "task")
             m == M("CMD_RETURN")
  <2>1. tr' = SendToTid(e, m)
    BY <1>1, <1>5, <1>8 DEF SendToApp, a
  <2>2. /\ Good(e, opened', asked', got)
        /\ e.box = a.box /\ e.reading = a.reading /\ a.air \subseteq e.air
        /\ e.myTID = a.myTID /\ e.stored = a.stored /\ e.unsaved = a.unsaved /\ e.clients = a.clients
        /\ e.tids = a.tids \cup {t} /\ e.streams = a.streams
        /\ e.running = a.running /\ e.lost = a.lost
    <3>1. e = Handed(a, t)
      BY <1>5 DEF Handed
    <3>2. ForOneMote(a, opened', asked', t)
      BY <1>3, <1>4, <1>5, <1>8 DEF ForOneMote
    <3> HIDE DEF e
    <3> QED BY <1>3, <3>1, <3>2, UnicastGood
  <2>3. m \in Message /\ IsCommand(m) /\ m.tid = tid /\ m.type # "CMD_ACK"
    BY <1>6 DEF Commands
  <2> HIDE DEF e, m, d
  <2>4. /\ e.box = tr.box /\ e.reading = tr.reading /\ tr.air \subseteq e.air
      /\ e.streams = tr.streams /\ Given(tr, e, tid)
      /\ e.running \ e.lost \subseteq (tr.running \ tr.lost) \cup {tid}
      /\ t.tid = tid /\ t.type = "TASK" /\ e.clients[t.fd] = s
      /\ e.tids = tr.tids \cup {t}
    BY <1>3, <1>4, <1>5, <2>2 DEF Given
  <2>5. m.type = "CMD_ACK" => m.addr = BCAST
    BY <2>3
  <2> QED BY <1>2, <1>5, <2>1, <2>2, <2>3, <2>4, <2>5, TaskOpensStep
<1>9. CASE addr = BCAST
  <2>1. Good(d, opened', asked', got)
    BY <1>3, <1>4, <1>5, <1>9, AddTidGood DEF OfTask
  <2>2. CASE ok
    <3> DEFINE e == [d EXCEPT !.running = @ \cup {tid}, !.spread = @ \cup {tid}]
               m == M("CMD_ACK")
    <3>1. tr' = SendToTid(e, m)
      BY <1>1, <1>5, <1>9, <2>2 DEF SendToApp, a
    <3>2. /\ e.box = d.box /\ e.reading = d.reading /\ e.air = d.air /\ e.clients = d.clients
          /\ e.tids = d.tids /\ e.myTID = d.myTID /\ e.stored = d.stored /\ e.unsaved = d.unsaved
          /\ e.streams = d.streams /\ e.running = d.running \cup {tid} /\ e.lost = d.lost
      BY <2>1 DEF Good, Daemon
    <3>3. Good(e, opened', asked', got)
      <4>1. tid \notin OfOthers(d)
        <5>1. \A u \in d.tids : u.tid = tid => u.type = "TASK"
          BY <1>3, <1>5, <1>7 DEF HasTid
        <5>2. d.tcmps = a.tcmps
          BY <1>3 DEF Good, Daemon
        <5> QED BY <1>3, <1>7, <5>1, <5>2 DEF OfOthers, OfTask
      <4>2. tid \in opened' \ (OfTasks(d) \cup OfOthers(d))
        BY <1>3, <1>7, <4>1
      <4>3. \E u \in d.tids : u.tid = tid /\ u.type = "TASK"
        BY <1>5, <1>7
      <4> HIDE DEF d
      <4> QED BY <1>3, <2>1, <4>2, <4>3, SpreadGood
    <3>4. m \in Message /\ IsCommand(m) /\ m.tid = tid /\ m.addr = BCAST
      BY <1>6, <1>9 DEF Commands
    <3> HIDE DEF e, m, d
    <3>5. /\ e.box = tr.box /\ e.reading = tr.reading /\ tr.air \subseteq e.air
        /\ e.streams = tr.streams /\ Given(tr, e, tid)
        /\ e.running \ e.lost \subseteq (tr.running \ tr.lost) \cup {tid}
        /\ t.tid = tid /\ t.type = "TASK" /\ e.clients[t.fd] = s
        /\ e.tids = tr.tids \cup {t}
      BY <1>3, <1>4, <1>5, <1>7, <3>2 DEF Given
    <3> QED BY <1>2, <1>5, <3>1, <3>3, <3>4, <3>5, TaskOpensStep
  <2>3. CASE ~ok
    <3> DEFINE m == M("CMD_NACK")
    <3>1. tr' = RemoveTid(SendToTid(d, m), tid) /\ tid \notin d.running
      BY <1>1, <1>3, <1>5, <1>7, <1>9, <2>3 DEF SendToApp, a
    <3>2. m \in Message /\ IsCommand(m) /\ m.tid = tid /\ m.addr = BCAST
      BY <1>6, <1>9 DEF Commands
    <3> HIDE DEF m, d
    <3>3. /\ d.box = tr.box /\ d.reading = tr.reading /\ tr.air \subseteq d.air
        /\ d.streams = tr.streams /\ Given(tr, d, tid)
        /\ d.running \ d.lost \subseteq (tr.running \ tr.lost) \cup {tid}
        /\ t.tid = tid /\ t.type = "TASK" /\ d.clients[t.fd] = s
        /\ d.tids = tr.tids \cup {t}
      BY <1>3, <1>4, <1>5, <1>7 DEF Given
    <3> QED BY <1>2, <1>5, <2>1, <3>1, <3>2, <3>3, TaskOpensStep
  <2> QED BY <2>2, <2>3
<1> QED BY <1>8, <1>9

LEMMA SendTasksStep ==
  ASSUME DaemonInv, OneOwner', SendTasks
  PROVE  DaemonInv'
<1>1. PICK s \in Sessions :
        /\ Requests(s) /\ app' = [app EXCEPT ![s] = "waiting"] /\ UNCHANGED <<got, returned>>
        /\ \/ Spend("tasks") /\ SendTask(s, BCAST, TRUE)
           \/ Spend("refusals") /\ SendTask(s, BCAST, FALSE)
           \/ Spend("unicasts") /\ \E a \in Motes : SendTask(s, a, TRUE)
  BY DEF SendTasks
<1>2. PICK what \in Requesting, addr \in Motes \cup {BCAST}, ok \in BOOLEAN :
        Spend(what) /\ SendTask(s, addr, ok)
  BY <1>1 DEF Requesting
<1> QED BY <1>1, <1>2, SendTaskStep

\* The binding t of a new probe or request to the base station, and what opening it
\* leaves alone.
ForOther(a, O, t) ==
  /\ t \in Binding /\ t.tid \in O /\ t.type \notin OfTask
  /\ ~HasTid(a, t.tid) /\ t.tid \notin OfTasks(a) /\ t.tid \notin OfOthers(a)
  /\ \A m \in a.air : m.what = "stop" => m.tid # t.tid

Opened(a, e, t) ==
  /\ e.box = a.box /\ e.reading = a.reading /\ a.air \subseteq e.air
  /\ e.myTID = a.myTID /\ e.stored = a.stored /\ e.unsaved = a.unsaved /\ e.tids = a.tids \cup {t}
  /\ e.running = a.running /\ e.lost = a.lost /\ e.streams = a.streams

LEMMA OtherBound ==
  ASSUME NEW a, NEW O, NEW A, NEW G, Good(a, O, A, G), NEW t, ForOther(a, O, t)
  PROVE  LET d == [a EXCEPT !.tids = @ \cup {t}] IN
         /\ Good(d, O, A, G) /\ Opened(a, d, t)
         /\ d.box = a.box /\ d.tcmps = a.tcmps /\ d.air = a.air /\ OfTasks(d) = OfTasks(a)
<1> DEFINE d == [a EXCEPT !.tids = @ \cup {t}]
<1>1. a \in Daemon
  BY DEF Good
<1>2. Good(d, O, A, G)
  <2>1. /\ t \in Binding /\ t.tid \in O /\ t.type \notin OfTask
        /\ ~HasTid(a, t.tid) /\ t.tid \notin OfTasks(a)
        /\ \A m \in a.air : m.what = "stop" => m.tid # t.tid
    BY DEF ForOther
  <2> QED BY <2>1, AddTidGood
<1>3. /\ d.box = a.box /\ d.reading = a.reading /\ d.air = a.air /\ d.spread = a.spread
      /\ d.myTID = a.myTID /\ d.stored = a.stored /\ d.unsaved = a.unsaved /\ d.tids = a.tids \cup {t}
      /\ d.tcmps = a.tcmps /\ d.running = a.running /\ d.lost = a.lost /\ d.streams = a.streams
  BY <1>1 DEF Daemon
<1> HIDE DEF d
<1>4. OfTasks(d) = OfTasks(a)
  BY <1>3 DEF OfTasks, Unicast
<1>5. Opened(a, d, t)
  BY <1>3 DEF Opened
<1> QED BY <1>2, <1>3, <1>4, <1>5 DEF d

\* A request to the base station is sent.
LEMMA ServiceGood ==
  ASSUME NEW a, NEW O, NEW A, NEW G, Good(a, O, A, G), NEW t, ForOther(a, O, t),
         NEW x \in Air, x.what = "SERVICE", x.tid = t.tid,
         NEW d, d = [a EXCEPT !.tids = @ \cup {t}]
  PROVE  LET e == [d EXCEPT !.air = @ \cup {x}] IN Good(e, O, A, G) /\ Opened(a, e, t)
<1>1. /\ Good(d, O, A, G) /\ Opened(a, d, t)
      /\ d.box = a.box /\ d.tcmps = a.tcmps /\ d.air = a.air /\ OfTasks(d) = OfTasks(a)
  BY OtherBound
<1> DEFINE q == d.tcmps
           B == {x}
           e == [d EXCEPT !.air = @ \cup {x}]
<1>2. d \in Daemon /\ q \in Seq(TcmpEntry) /\ B \in SUBSET Air
  BY <1>1 DEF Good, Daemon
<1>3. e = [d EXCEPT !.tcmps = q, !.air = @ \cup B]
  BY <1>2 DEF Daemon
<1>4. /\ e.box = d.box /\ e.reading = d.reading /\ e.air = d.air \cup {x}
      /\ e.myTID = d.myTID /\ e.stored = d.stored /\ e.unsaved = d.unsaved /\ e.tids = d.tids
      /\ e.running = d.running /\ e.lost = d.lost /\ e.streams = d.streams
  BY <1>2 DEF Daemon
<1>5. \A m \in B : m.what \in Probing \/ (m.what = "SERVICE" /\ m.tid \in O \ OfTasks(d))
  BY <1>1 DEF ForOther
<1>7. \A i \in DOMAIN q : q[i].tid \in O \ OfTasks(d)
  BY <1>1, TcmpOnList
<1>8. Good([d EXCEPT !.tcmps = q, !.air = @ \cup B], O, A, G)
  <2> HIDE DEF q, B
  <2> QED BY <1>1, <1>2, <1>5, <1>7, TcmpsGood
<1>9. Opened(a, e, t)
  BY <1>1, <1>4 DEF Opened
<1> QED BY <1>3, <1>8, <1>9

\* A ping or a trace begins.
LEMMA TcmpStartGood ==
  ASSUME NEW a, NEW O, NEW A, NEW G, Good(a, O, A, G), NEW t, ForOther(a, O, t),
         t.type \in {"PING", "TRACERT"}, NEW d, d = [a EXCEPT !.tids = @ \cup {t}],
         NEW e, e = TcmpStart(d, t.tid, t.addr, t.type)
  PROVE  Good(e, O, A, G) /\ Opened(a, e, t)
<1>1. /\ Good(d, O, A, G) /\ Opened(a, d, t)
      /\ d.box = a.box /\ d.tcmps = a.tcmps /\ d.air = a.air /\ OfTasks(d) = OfTasks(a)
  BY OtherBound
<1> DEFINE c == [tid |-> t.tid, addr |-> t.addr, type |-> t.type,
                 seq |-> 1, ttl |-> 1, alarm |-> "running"]
           q == <<c>> \o d.tcmps
           B == {}
           f == [d EXCEPT !.tcmps = <<c>> \o @]
<1>2. d \in Daemon /\ d.tcmps \in Seq(TcmpEntry) /\ B \in SUBSET Air
  BY <1>1 DEF Good, Daemon
<1>3. t \in Binding /\ t.tid \in O /\ t.tid \notin OfTasks(d)
  BY <1>1 DEF ForOther
<1>4. c \in TcmpEntry /\ c.tid = t.tid
  BY <1>3 DEF TcmpEntry, Binding
<1>5. e = Probed(f, 1)
  BY DEF TcmpStart
<1>6. f = [d EXCEPT !.tcmps = q, !.air = @ \cup B]
  BY <1>2 DEF Daemon
<1>7. /\ f.box = d.box /\ f.reading = d.reading /\ f.air = d.air /\ f.tcmps = q
      /\ f.myTID = d.myTID /\ f.stored = d.stored /\ f.unsaved = d.unsaved /\ f.tids = d.tids
      /\ f.running = d.running /\ f.lost = d.lost /\ f.streams = d.streams
  BY <1>2 DEF Daemon
<1> HIDE DEF c, f
<1>8. /\ q \in Seq(TcmpEntry) /\ 1 \in DOMAIN q
      /\ \A i \in DOMAIN q : \/ i = 1 /\ q[i] = c
                             \/ i # 1 /\ i - 1 \in DOMAIN d.tcmps /\ q[i] = d.tcmps[i - 1]
  BY <1>2, <1>4
<1> HIDE DEF q, B
<1>9. \A j \in DOMAIN d.tcmps : d.tcmps[j].tid \in O \ OfTasks(d)
  BY <1>1, TcmpOnList
<1>11. \A i \in DOMAIN q : q[i].tid \in O \ OfTasks(d)
  BY <1>3, <1>4, <1>8, <1>9
<1>13. Good(f, O, A, G)
  <2>1. \A m \in B : m.what \in Probing \/ (m.what = "SERVICE" /\ m.tid \in O \ OfTasks(d))
    BY DEF B
  <2> QED BY <1>1, <1>2, <1>6, <1>8, <1>11, <2>1, TcmpsGood
<1>14. Good(Probed(f, 1), O, A, G) /\ Answered(f, Probed(f, 1))
  BY <1>7, <1>8, <1>13, ProbedMoves DEF Moves
<1>15. /\ e.box = f.box /\ e.tids = f.tids
       /\ e.running = f.running /\ e.lost = f.lost /\ e.streams = f.streams
  BY <1>5, <1>13 DEF Probed, Good, Daemon
<1>16. Opened(a, e, t)
  BY <1>1, <1>5, <1>7, <1>14, <1>15 DEF Opened, Answered
<1> QED BY <1>5, <1>14, <1>16

LEMMA ProbeStep ==
  ASSUME DaemonInv, OneOwner', Probe
  PROVE  DaemonInv'
<1>1. PICK s \in Sessions, tid \in FreeTids(tr), how \in Storing :
        /\ Requests(s) /\ Opens(s, tid)
        /\ \/ /\ Spend("probes")
              /\ \E type \in {"PING", "TRACERT"}, addr \in Motes \cup {BCAST} :
                   tr' = TcmpStart(AddTid(Assigned(tr, tid, how), tid, addr, type, FdOf(s)), tid, addr, type)
           \/ /\ Spend("services")
              /\ tr' = [AddTid(Assigned(tr, tid, how), tid, BCAST, "SERVICE", FdOf(s))
                          EXCEPT !.air = @ \cup {[what |-> "SERVICE", tid |-> tid, addr |-> BCAST,
                                                  seq |-> 0, ttl |-> 0]}]
        /\ UNCHANGED <<app, got, wanted, returned>>
  BY DEF Probe
<1> DEFINE a == Assigned(tr, tid, how)
           fd == FdOf(s)
<1>2. PICK what \in Requesting : Spend(what)
  BY <1>1 DEF Requesting
<1>3. FreeTids(tr) # {} /\ Opens(s, tid) /\ app[s] = "idle"
  BY <1>1 DEF Requests
<1>4. /\ Good(a, opened', asked', got)
      /\ tid \in Tids /\ tid \in opened' /\ ~HasTid(a, tid)
      /\ tid \notin OfTasks(a) /\ tid \notin OfOthers(a)
      /\ \A m \in a.air : m.what = "stop" => m.tid # tid
      /\ a.box = tr.box /\ a.reading = tr.reading /\ a.air = tr.air
      /\ a.tids = tr.tids /\ a.streams = tr.streams
      /\ a.running = tr.running /\ a.lost = tr.lost /\ Given(tr, a, tid)
  <2>1. how \in Storings
    BY DEF Storing, Storings
  <2> QED BY <1>2, <1>3, <2>1, OpensGood
<1>5. fd \in Fds
  BY <1>1, FdIs DEF Requests
<1> HIDE DEF a, fd
<1>6. ASSUME NEW type \in {"PING", "TRACERT", "SERVICE"}, NEW addr \in Motes \cup {BCAST}
      PROVE  LET t == [tid |-> tid, addr |-> addr, type |-> type, fd |-> fd] IN
             /\ t.tid = tid /\ t.addr = addr /\ t.type = type
             /\ AddTid(a, tid, addr, type, fd) = [a EXCEPT !.tids = @ \cup {t}]
             /\ ForOther(a, opened', t)
  <2> DEFINE t == [tid |-> tid, addr |-> addr, type |-> type, fd |-> fd]
  <2>1. type \in Types
    BY DEF Types
  <2>2. /\ t \in Binding /\ t.tid = tid /\ t.addr = addr /\ t.type = type
        /\ AddTid(a, tid, addr, type, fd) = [a EXCEPT !.tids = @ \cup {t}]
    BY <1>4, <1>5, <2>1, BindingIs
  <2> HIDE DEF t
  <2>3. ForOther(a, opened', t)
    BY <1>4, <2>2 DEF ForOther, OfTask
  <2> QED BY <2>2, <2>3 DEF t
<1>7. \E t : t.tid = tid /\ Good(tr', opened', asked', got) /\ Opened(a, tr', t)
  <2>1. CASE \E type \in {"PING", "TRACERT"}, addr \in Motes \cup {BCAST} :
               tr' = TcmpStart(AddTid(a, tid, addr, type, fd), tid, addr, type)
    <3>1. PICK type \in {"PING", "TRACERT"}, addr \in Motes \cup {BCAST} :
               tr' = TcmpStart(AddTid(a, tid, addr, type, fd), tid, addr, type)
      BY <2>1
    <3> DEFINE t == [tid |-> tid, addr |-> addr, type |-> type, fd |-> fd]
               d == [a EXCEPT !.tids = @ \cup {t}]
    <3>2. /\ t.tid = tid /\ t.addr = addr /\ t.type = type
          /\ AddTid(a, tid, addr, type, fd) = d /\ ForOther(a, opened', t)
      BY <1>6
    <3> HIDE DEF t
    <3>3. d = [a EXCEPT !.tids = @ \cup {t}]
      OBVIOUS
    <3> HIDE DEF d
    <3>4. tr' = TcmpStart(d, t.tid, t.addr, t.type)
      BY <3>1, <3>2
    <3>5. Good(tr', opened', asked', got) /\ Opened(a, tr', t)
      BY <1>4, <3>2, <3>3, <3>4, TcmpStartGood
    <3> QED BY <3>2, <3>5
  <2>2. CASE tr' = [AddTid(a, tid, BCAST, "SERVICE", fd)
                      EXCEPT !.air = @ \cup {[what |-> "SERVICE", tid |-> tid, addr |-> BCAST,
                                              seq |-> 0, ttl |-> 0]}]
    <3> DEFINE t == [tid |-> tid, addr |-> BCAST, type |-> "SERVICE", fd |-> fd]
               d == [a EXCEPT !.tids = @ \cup {t}]
               x == [what |-> "SERVICE", tid |-> tid, addr |-> BCAST, seq |-> 0, ttl |-> 0]
    <3>1. /\ t.tid = tid /\ AddTid(a, tid, BCAST, "SERVICE", fd) = d /\ ForOther(a, opened', t)
      BY <1>6
    <3>2. x \in Air /\ x.what = "SERVICE" /\ x.tid = tid
      BY <1>4 DEF Air
    <3> HIDE DEF t, x
    <3>3. d = [a EXCEPT !.tids = @ \cup {t}]
      OBVIOUS
    <3> HIDE DEF d
    <3>4. tr' = [d EXCEPT !.air = @ \cup {x}]
      BY <2>2, <3>1 DEF x
    <3>5. Good(tr', opened', asked', got) /\ Opened(a, tr', t)
      BY <1>4, <3>1, <3>2, <3>3, <3>4, ServiceGood
    <3> QED BY <3>1, <3>5
  <2> QED BY <1>1, <2>1, <2>2 DEF a, fd
<1>8. PICK t : t.tid = tid /\ Good(tr', opened', asked', got) /\ Opened(a, tr', t)
  BY <1>7
<1>9. /\ tr'.box = tr.box /\ tr'.reading = tr.reading /\ tr.air \subseteq tr'.air
      /\ tr'.streams = tr.streams /\ Given(tr, tr', tid) /\ tr'.tids = tr.tids \cup {t}
      /\ tr'.running \ tr'.lost \subseteq (tr.running \ tr.lost) \cup {tid}
  BY <1>4, <1>8 DEF Opened, Given
<1>10. \A u \in tr'.tids : u.tid = tid \/ HasTid(tr, u.tid)
  BY <1>8, <1>9 DEF HasTid
<1>11. /\ app' = app /\ wanted' = wanted /\ UNCHANGED <<got, returned>>
       /\ \A r \in Sessions : tr'.box[r] = tr.box[r]
  BY <1>1, <1>9
<1> QED BY <1>2, <1>3, <1>8, <1>9, <1>10, <1>11, OpensStep

-----------------------------------------------------------------------------
(* The theorems.                                                             *)

LEMMA InitDaemonInv ==
  ASSUME Init
  PROVE  DaemonInv
<1>1. /\ tr = Daemon0 /\ left \in Budgets /\ got = {} /\ opened = {}
      /\ app = [s \in Sessions |-> "none"] /\ asked = [s \in Sessions |-> {}]
      /\ wanted = [s \in Sessions |-> 0] /\ returned = [s \in Sessions |-> {}]
  BY DEF Init
<1>2. Daemon0 \in Daemon
  BY TidAssumption DEF Daemon0, Daemon, Tids, NoApp
<1>3. /\ tr.tids = {} /\ tr.ptrcs = <<>> /\ tr.tcmps = <<>> /\ tr.air = {} /\ tr.streams = {}
      /\ tr.running = {} /\ tr.spread = {} /\ tr.reading = {} /\ tr.myTID = 1 /\ tr.stored = 1
      /\ \A s \in Sessions : tr.box[s] = <<>>
  BY <1>1 DEF Daemon0
<1>4. left \in [Counted -> Nat] /\ Requested(left) \in Nat /\ Requested(left) <= MAX_TID
  BY <1>1, BudgetAssumption, RoundAssumption, RequestedIs
<1>5. TypeOK
  BY <1>1, <1>2, <1>4 DEF TypeOK
<1>6. RoundInv /\ Final(tr)
  <2>1. 1 + Requested(left) <= MAX_TID + 1
    BY <1>4, TidAssumption
  <2> QED BY <1>1, <1>3, <2>1 DEF RoundInv, Final
<1>7. Good(tr, opened, asked, got)
  BY <1>1, <1>2, <1>3 DEF Good, Bound, Kinds, Stoppable, Told, OfTasks, OfOthers, Unicast
<1>8. \A s \in Sessions : Waits(tr, s)
  BY <1>1, <1>3 DEF Waits
<1> QED BY <1>1, <1>5, <1>6, <1>7, <1>8 DEF DaemonInv

LEMMA StutterStep ==
  ASSUME DaemonInv, UNCHANGED vars
  PROVE  DaemonInv'
<1>1. /\ tr' = tr /\ app' = app /\ got' = got /\ asked' = asked /\ wanted' = wanted
      /\ returned' = returned /\ opened' = opened /\ left' = left
  BY DEF vars
<1>2. Moves(tr, tr', opened, asked, got)
  BY <1>1, InvGood, NothingMoves
<1> QED BY <1>1, <1>2, SaveFalls, MovesStep DEF Save

LEMMA NextStep ==
  ASSUME DaemonInv, OneOwner', [Next]_vars
  PROVE  DaemonInv'
<1>1. CASE UNCHANGED vars
  BY <1>1, StutterStep
<1>2. CASE Next
  BY <1>2, ConnectStep, SendTasksStep, CloseTaskStep, ProbeStep, ReadStep, ExitStep, BreaksStep,
     HangupStep, MoteReceivesStep, PtrAckStep, PtrDataStep, TcmpAnswerStep, ServiceAnswerStep,
     TrdReceiveStep, StreamOpensStep, StreamDataStep, StreamEndsStep, StreamGivenUpStep,
     ExpireStep, PollStep, RestartStep DEF Next
<1> QED BY <1>1, <1>2

\* Only requests of applications have tids assigned.
LEMMA OthersAskNothing ==
  ASSUME [Next]_vars
  PROVE  SendTasks \/ Probe \/ asked' = asked
<1>1. CASE Next
  <2>1. \A s \in Sessions, f \in Fds : Connect(s, f) => asked' = asked
    BY DEF Connect
  <2>2. CloseTask \/ Read \/ Exit \/ Breaks \/ Hangup \/ MoteReceives \/ Restart => asked' = asked
    BY DEF CloseTask, Read, Exit, Breaks, Hangup, MoteReceives, Restart
  <2>3. PtrAck \/ PtrData \/ TcmpAnswer \/ ServiceAnswer \/ TrdReceive => asked' = asked
    BY DEF PtrAck, PtrData, TcmpAnswer, ServiceAnswer, TrdReceive, FromMotes
  <2>4. StreamOpens \/ StreamData \/ StreamEnds \/ StreamGivenUp \/ Expire \/ Poll => asked' = asked
    BY DEF StreamOpens, StreamData, StreamEnds, StreamGivenUp, Expire, Poll, FromMotes
  <2> QED BY <1>1, <2>1, <2>2, <2>3, <2>4 DEF Next
<1> QED BY <1>1 DEF vars

\* A request is paid for, and is given a free tid.
LEMMA RequestOpens ==
  ASSUME SendTasks \/ Probe
  PROVE  \E what \in Requesting, s \in Sessions, tid \in FreeTids(tr) : Spend(what) /\ Opens(s, tid)
<1>1. CASE SendTasks
  <2>1. PICK s \in Sessions, what \in Requesting, a \in Motes \cup {BCAST}, ok \in BOOLEAN :
          Spend(what) /\ SendTask(s, a, ok)
    <3>1. PICK s \in Sessions :
            \/ Spend("tasks") /\ SendTask(s, BCAST, TRUE)
            \/ Spend("refusals") /\ SendTask(s, BCAST, FALSE)
            \/ Spend("unicasts") /\ \E a \in Motes : SendTask(s, a, TRUE)
      BY <1>1 DEF SendTasks
    <3> QED BY <3>1 DEF Requesting
  <2>2. PICK tid \in FreeTids(tr) : Opens(s, tid)
    BY <2>1 DEF SendTask
  <2> QED BY <2>1, <2>2
<1>2. CASE Probe
  <2>1. PICK s \in Sessions, tid \in FreeTids(tr) :
          Opens(s, tid) /\ (Spend("probes") \/ Spend("services"))
    BY <1>2 DEF Probe
  <2> QED BY <2>1 DEF Requesting
<1> QED BY <1>1, <1>2

\* A step assigns one tid, or none.
LEMMA AskedGrows ==
  ASSUME asked \in Assigns, [Next]_vars
  PROVE  asked' \in Assigns /\ \A s \in Sessions : asked[s] \subseteq asked'[s]
<1>1. CASE asked' = asked
  BY <1>1
<1>2. CASE SendTasks \/ Probe
  <2>1. PICK s \in Sessions, tid \in FreeTids(tr) : Opens(s, tid)
    BY <1>2, RequestOpens
  <2>2. asked' = [asked EXCEPT ![s] = @ \cup {tid}] /\ tid \in Tids
    BY <2>1 DEF Opens, FreeTids
  <2> QED BY <2>2 DEF Assigns
<1> QED BY <1>1, <1>2, OthersAskNothing

\* Only a request has a tid assigned.
LEMMA KnownNotSaved ==
  ASSUME DaemonInv, [Next]_vars
  PROVE  \A s \in Sessions : (asked'[s] \ asked[s]) \cap opened \subseteq tr.unsaved
<1>1. CASE asked' = asked
  BY <1>1
<1>2. CASE SendTasks \/ Probe
  <2>1. PICK what \in Requesting, s \in Sessions, tid \in FreeTids(tr) : Spend(what) /\ Opens(s, tid)
    BY <1>2, RequestOpens
  <2> QED BY <2>1, GivenTwice
<1> QED BY <1>1, <1>2, OthersAskNothing

\* What every state has that the daemon, its clients and the motes reach.
InTurn == asked \in Assigns /\ (OneOwner => DaemonInv)

\* The invariant holds in every one of them.
THEOREM InvariantHolds == Spec => []InTurn
<1>1. Init => InTurn
  BY InitDaemonInv DEF InTurn, DaemonInv, TypeOK, Assigns
<1>2. ASSUME InTurn, [Next]_vars PROVE InTurn'
  <2>1. asked' \in Assigns /\ \A s \in Sessions : asked[s] \subseteq asked'[s]
    BY <1>2, AskedGrows DEF InTurn
  <2>2. OneOwner' => OneOwner
    BY <2>1 DEF OneOwner
  <2>3. OneOwner' => DaemonInv'
    BY <1>2, <2>2, NextStep DEF InTurn
  <2> QED BY <2>1, <2>3 DEF InTurn
<1> QED BY <1>1, <1>2, PTL DEF Spec

\* The daemon's lists, boxes and packets, and what is remembered of them, are what
\* the structures of the source hold, as long as no tid was given out twice (tidlist.c,
\* packettransport.c, tcmp.c, client.c).
THEOREM TypeCorrect == Spec => [](OneOwner => TypeOK)
<1>1. InTurn => (OneOwner => TypeOK)
  BY DEF InTurn, DaemonInv
<1> QED BY <1>1, InvariantHolds, PTL

\* A task that was disseminated and not stopped is bound to a client that is
\* connected, or what would stop it was given up (send_to_tid, rem_client and
\* close_all_tid_for_a_client).
THEOREM RunningIsBoundHolds == Spec => []RunningIsBound
<1>1. InTurn => RunningIsBound
  <2> SUFFICES ASSUME DaemonInv, NEW tid \in tr.running, tid \notin tr.lost
               PROVE  HasTid(tr, tid) /\ tr.clients[TidOf(tr, tid).fd] # NoApp
    BY DEF RunningIsBound, InTurn
  <2>1. Bound(tr, asked) /\ Stoppable(tr)
    BY DEF DaemonInv, Good
  <2>2. PICK t \in tr.tids : t.tid = tid /\ t.type = "TASK"
    BY <2>1 DEF Stoppable
  <2>3. HasTid(tr, tid)
    BY <2>2 DEF HasTid
  <2>4. TidOf(tr, tid) = t
    BY <2>1, <2>2, <2>3, TidIs DEF Bound
  <2> QED BY <2>1, <2>2, <2>3, <2>4 DEF Bound, OfTask
<1> QED BY <1>1, InvariantHolds, PTL

\* What an application reads is about its own tasks, its send_task returns the tid the
\* task was given, and a mote that is reported to have a task has it (send_to_tid,
\* senddone_packettransport, tr_send_task_uni).
THEOREM AnswersHolds == Spec => []Answers
<1>1. InTurn => Answers
  <2> SUFFICES ASSUME DaemonInv PROVE OnlyOwnAnswers /\ SendReturnsItsTid /\ AckedHasIt
    BY DEF InTurn, Answers
  <2>1. Told(tr, asked, got) /\ \A s \in Sessions : Waits(tr, s)
    BY DEF DaemonInv, Good
  <2>2. OnlyOwnAnswers
    BY <2>1 DEF OnlyOwnAnswers, Told
  <2>3. AckedHasIt
    BY <2>1 DEF AckedHasIt, Told
  <2>4. SendReturnsItsTid
    <3> SUFFICES ASSUME NEW s \in Sessions, NEW r \in returned[s], r[1] # r[2]
                 PROVE  \E m \in tr.air : m.what = "task" /\ m.tid \in asked[s]
      BY DEF SendReturnsItsTid
    <3>1. asked[s] \cap Unicast(tr) # {}
      BY <2>1 DEF Waits
    <3> QED BY <3>1 DEF Unicast
  <2> QED BY <2>2, <2>3, <2>4
<1> QED BY <1>1, InvariantHolds, PTL

\* A client that is told that its close is done has no more of the task to come: no
\* binding, no run, no stream that was to end first, and no later message
\* (check_close_done, and send_to_tid for all that is written after it).
THEOREM CloseIsFinalHolds == Spec => []CloseIsFinal
<1>1. InTurn => CloseIsFinal
  <2> SUFFICES ASSUME DaemonInv, NEW s \in Sessions, NEW i \in DOMAIN tr.box[s],
                      tr.box[s][i].type = "CLOSE_ACK"
               PROVE  IsFinal(s, i)
    BY DEF InTurn, CloseIsFinal
  <2>1. Final(tr)
    BY DEF DaemonInv
  <2> QED BY <2>1 DEF Final, IsFinal
<1> QED BY <1>1, InvariantHolds, PTL

\* No tid is given out twice, also not across the death of the daemon, while there are
\* tids that never were, but one that the file lacked when the daemon was started
\* (assign_new_tid, store_tid and tidlist_init of tidlist.c).
THEOREM TidsNotReusedHolds == Spec => TidsNotReused
<1> DEFINE Fresh == OneOwner => \A s \in Sessions : (asked'[s] \ asked[s]) \cap opened \subseteq tr.unsaved
<1>1. InTurn /\ [Next]_vars => [Fresh]_vars
  BY KnownNotSaved DEF InTurn
<1>2. TidsNotReused <=> [][Fresh]_vars
  BY PTL DEF TidsNotReused
<1> QED BY <1>1, <1>2, InvariantHolds, PTL DEF Spec
=============================================================================
