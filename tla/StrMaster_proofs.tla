-------------------------- MODULE StrMaster_proofs --------------------------
(***************************************************************************)
(* The master's stream transport, for every set of tasks and motes, every  *)
(* ring, every length of a stream and every pattern of loss and reordering *)
(* that the assumptions allow: the types; a connection that misses a       *)
(* packet is always in a state that asks again; the packet list is sorted, *)
(* no packet is forgotten, and the application gets the packets in order,  *)
(* each once, which is the promise of InOrderStream.                       *)
(***************************************************************************)
EXTENDS StrMaster, TrSeqno_proofs, FiniteSetTheorems, WellFoundedInduction

\* The number of the newest packet, 0 before the first.
LastSeq(t) == IF t = 0 THEN 0 ELSE SeqOf(t)

\* Connection c, when packet t is the newest that arrived and f is the FIN's
\* index: last is t's number, a connection that waits for or has reached its
\* end saw the FIN, and one that misses something asks for it.
ConnOK(c, t, f) ==
  /\ c \in Conn
  /\ c.last = LastSeq(t)
  /\ c.state \in {"FIN_NACK_WAIT", "FINISHED"} => f # 0
  /\ c.missing # {} => c.state \in {"NACK_WAIT", "FIN_NACK_WAIT"}

\* MissingIsChased is not inductive: a connection in FINISHED must not find a
\* new gap, which needs that the FIN is the newest packet.
ChaseInv ==
  /\ TypeOK
  /\ \A k \in Keys : /\ finAt[k] # 0 => finAt[k] = top[k]
                     /\ IsOpen(k) => ConnOK(strcs[k], top[k], finAt[k])

-----------------------------------------------------------------------------
(* The arrival of a packet.                                                 *)

\* What may arrive is compared with the newest in the order sent
\* (streamtransport.c:383, :416).
LEMMA Newer ==
  ASSUME NEW t \in 0 .. (MaxIndex + 1), NEW n \in Index,
         n < t + TR_VALID_RANGE, t < n + TR_VALID_RANGE
  PROVE  /\ LastSeq(t) \in Seqno0 /\ SeqOf(n) \in Seqno
         /\ tr_seqno_cmp(SeqOf(n), LastSeq(t)) > 0 <=> n > t
<1>1. n \in Nat \ {0} /\ 0 \in 0 .. TR_VALID_RANGE
  BY MasterAssumption, SeqnoAssumption DEF Index
<1>2. SeqOf(n) \in Seqno
  BY <1>1, SeqOfAhead
<1>3. CASE t = 0
  <2>1. n - 1 \in 0 .. (TR_MAX_SEQNO - 1) /\ n < TR_VALID_RANGE
        /\ TR_MAX_SEQNO \in Nat \ {0}
    BY <1>1, <1>3, SeqnoAssumption, MasterAssumption
  <2>3. SeqOf(n) = n
    BY <1>1, <2>1, SeqOfSmall
  <2>4. tr_seqno_cmp(n, 0) = 1
    BY <1>1, <2>1, SeqnoAssumption DEF tr_seqno_cmp, WrapsPast
  <2> QED BY <1>1, <1>2, <1>3, <2>3, <2>4 DEF LastSeq, Seqno0
<1>4. CASE t # 0
  <2>1. t \in Nat \ {0}
    BY <1>4, MasterAssumption
  <2>2. SeqOf(t) \in Seqno
    BY <1>1, <2>1, SeqOfAhead
  <2>3. tr_seqno_cmp(SeqOf(n), SeqOf(t)) = IF n = t THEN 0 ELSE IF t < n THEN 1 ELSE -1
    BY <1>1, <2>1, CmpOfPackets
  <2> QED BY <1>1, <1>2, <1>4, <2>1, <2>2, <2>3 DEF LastSeq, Seqno0
<1> QED BY <1>3, <1>4

\* The loop of detectMissingPacket inserts sequence numbers, never 0 nor one
\* beyond the ring (streamtransport.c:212-239).
LEMMA MissedType ==
  ASSUME NEW s \in Seqno, NEW last \in Seqno0
  PROVE  MissedBefore(s, last) \subseteq Seqno
<1>1. ASSUME NEW j \in 1 .. tr_seqno_diff(s, last)
      PROVE  StepsAfter(last, j) \in Seqno
  BY SeqnoAssumption
     DEF StepsAfter, tr_seqno_diff, U16Wrap, Seqno, Seqno0, TR_FIRST_SEQNO
<1> QED BY <1>1 DEF MissedBefore

\* detectMissingPacket on the arrival of packet n.
LEMMA NoticedOK ==
  ASSUME NEW c \in Conn, NEW t \in 0 .. (MaxIndex + 1), NEW n \in Index,
         n < t + TR_VALID_RANGE, t < n + TR_VALID_RANGE, c.last = LastSeq(t)
  PROVE  LET d == Noticed(c, SeqOf(n)) IN
         /\ d \in Conn
         /\ d.last = LastSeq(IF n > t THEN n ELSE t)
         /\ d.state = c.state
         /\ d.missing = c.missing \cup NewlyMissed(c, SeqOf(n))
         /\ n <= t => NewlyMissed(c, SeqOf(n)) = {}
<1>1. /\ c.last \in Seqno0 /\ SeqOf(n) \in Seqno
      /\ tr_seqno_cmp(SeqOf(n), c.last) > 0 <=> n > t
  BY Newer
<1>2. NewlyMissed(c, SeqOf(n)) \subseteq Seqno
  BY <1>1, MissedType DEF NewlyMissed
<1>3. n <= t => NewlyMissed(c, SeqOf(n)) = {}
  BY <1>1, MasterAssumption DEF NewlyMissed, Index
<1>4. n > t => SeqOf(n) = LastSeq(n)
  BY MasterAssumption DEF LastSeq, Index
<1> DEFINE missing == c.missing \cup NewlyMissed(c, SeqOf(n))
           last == IF tr_seqno_cmp(SeqOf(n), c.last) > 0 THEN SeqOf(n) ELSE c.last
<1>5. Noticed(c, SeqOf(n)) = [c EXCEPT !.missing = missing, !.last = last]
  BY DEF Noticed
<1>6. missing \in SUBSET Seqno /\ last \in Seqno0 /\ last = LastSeq(IF n > t THEN n ELSE t)
  <2>1. c.missing \in SUBSET Seqno
    BY DEF Conn
  <2> QED BY <1>1, <1>2, <1>4, <2>1, MasterAssumption DEF Seqno0, Index
<1> HIDE DEF missing, last
<1> QED BY <1>3, <1>5, <1>6 DEF Conn, missing

-----------------------------------------------------------------------------
(* What the helpers keep.                                                   *)

\* send_NACK touches nothing but the missing list, and only shrinks it.
LEMMA AfterNackOK ==
  ASSUME NEW c \in Conn
  PROVE  /\ AfterNack(c) \in Conn
         /\ AfterNack(c).state = c.state /\ AfterNack(c).last = c.last
         /\ AfterNack(c).missing \subseteq c.missing
         /\ AfterNack(c).timeoutCount = c.timeoutCount
<1> DEFINE left == c.missing \ Scanned(c, Void(c))
<1>1. left \in SUBSET Seqno /\ left \subseteq c.missing
  BY DEF Conn
<1>2. AfterNack(c) = [c EXCEPT !.missing = left]
  BY DEF AfterNack
<1> HIDE DEF left
<1> QED BY <1>1, <1>2 DEF Conn

\* A change of state with the timer started again.
LEMMA RestartedOK ==
  ASSUME NEW c \in Conn, NEW state \in States
  PROVE  /\ Restarted(c, state) \in Conn
         /\ Restarted(c, state).state = state /\ Restarted(c, state).last = c.last
         /\ Restarted(c, state).missing = c.missing
BY DEF Restarted, Conn

\* The packets a connection sends.
LEMMA ReplyType ==
  ASSUME NEW c \in Conn, NEW k \in Keys
  PROVE  /\ NackOf(k, c) \subseteq Reply
         /\ {FinAck(k, c.last)} \subseteq Reply
         /\ {SynAck(k)} \subseteq Reply
<1>1. c.last \in Nat /\ c.missing \subseteq Seqno
  BY SeqnoAssumption DEF Conn, Seqno0, Seqno, TR_FIRST_SEQNO
<1>2. Scanned(c, Fresh(c)) \in SUBSET Seqno
  BY <1>1 DEF Scanned, Fresh
<1>3. NackOf(k, c) \subseteq Reply
  BY <1>1, <1>2 DEF NackOf, Nack, Reply
<1>4. FinAck(k, c.last) \in Reply
  BY <1>1 DEF FinAck, Reply
<1>5. SynAck(k) \in Reply
  BY DEF SynAck, Reply
<1> QED BY <1>3, <1>4, <1>5

\* Reporting a finished connection only ever removes a binding.
LEMMA ReportType ==
  ASSUME TypeOK, NEW k, NEW t, ReportFinish(k, t)
  PROVE  tids' \in [Tids -> {"NONE", "TASK", "CLOSE"}]
BY DEF TypeOK, ReportFinish, CheckCloseDone

\* The types of what is not the connection table.
RestOK == /\ tids \in [Tids -> {"NONE", "TASK", "CLOSE"}]
          /\ top \in [Keys -> 0 .. (MaxIndex + 1)]
          /\ finAt \in [Keys -> 0 .. (MaxIndex + 1)]
          /\ delivered \in [Keys -> SUBSET Index]
          /\ calls \in [Keys -> Nat]

\* A step that gives connection k a new value, sends packets, and may have
\* received something on k.
LEMMA UpdateOK ==
  ASSUME ChaseInv, NEW k \in Keys, IsOpen(k), NEW c, NEW sent, Update(k, c, sent),
         ConnOK(c, top'[k], finAt'[k]), sent \subseteq Reply, RestOK',
         finAt'[k] # 0 => finAt'[k] = top'[k],
         \A j \in Keys \ {k} : top'[j] = top[j] /\ finAt'[j] = finAt[j]
  PROVE  ChaseInv'
<1>1. /\ strcs' = [strcs EXCEPT ![k] = c] /\ replies' = sent /\ before' = before
      /\ strcs \in [Keys -> Conn \cup {NoConn}] /\ c \in Conn
  BY DEF Update, ChaseInv, TypeOK, ConnOK
<1>2. strcs'[k] = c /\ \A j \in Keys \ {k} : strcs'[j] = strcs[j]
  BY <1>1
<1>3. TypeOK'
  BY <1>1 DEF TypeOK, ChaseInv, RestOK
<1>4. ASSUME NEW j \in Keys
      PROVE  /\ finAt'[j] # 0 => finAt'[j] = top'[j]
             /\ IsOpen(j)' => ConnOK(strcs'[j], top'[j], finAt'[j])
  <2>1. CASE j = k
    BY <1>2, <2>1
  <2>2. CASE j # k
    BY <1>2, <2>2 DEF ChaseInv, IsOpen
  <2> QED BY <2>1, <2>2
<1> QED BY <1>3, <1>4 DEF ChaseInv

\* A step that removes connections and receives nothing.
LEMMA RemovalOK ==
  ASSUME ChaseInv, RestOK', UNCHANGED <<top, finAt>>, replies' = {},
         before' \subseteq before, strcs' \in [Keys -> Conn \cup {NoConn}],
         \A j \in Keys : strcs'[j] \in {NoConn, strcs[j]}
                         \/ (IsOpen(j) /\ strcs'[j] = [strcs[j] EXCEPT !.deletePending = TRUE])
  PROVE  ChaseInv'
<1>1. TypeOK'
  BY DEF TypeOK, ChaseInv, RestOK
<1>2. ASSUME NEW j \in Keys
      PROVE  /\ finAt'[j] # 0 => finAt'[j] = top'[j]
             /\ IsOpen(j)' => ConnOK(strcs'[j], top'[j], finAt'[j])
  <2>1. CASE strcs'[j] \in {NoConn, strcs[j]}
    BY <2>1 DEF ChaseInv, IsOpen
  <2>2. CASE IsOpen(j) /\ strcs'[j] = [strcs[j] EXCEPT !.deletePending = TRUE]
    <3>1. ConnOK(strcs[j], top[j], finAt[j])
      BY <2>2 DEF ChaseInv
    <3>2. ConnOK(strcs'[j], top[j], finAt[j])
      BY <2>2, <3>1 DEF ConnOK, Conn
    <3> QED BY <3>2 DEF ChaseInv
  <2> QED BY <2>1, <2>2
<1> QED BY <1>1, <1>2 DEF ChaseInv

-----------------------------------------------------------------------------
(* The steps.                                                               *)

\* RestOK holds before every step.
LEMMA RestHolds == ChaseInv => RestOK
BY DEF ChaseInv, TypeOK, RestOK

LEMMA NewConnOK ==
  /\ NewConn \in Conn /\ NewConn # NoConn
  /\ ConnOK(NewConn, 0, 0)
<1>1. 0 \in Seqno0 /\ 1 \in Seqno /\ 0 \in 0 .. MAX_TIMEOUT_COUNT
  BY SeqnoAssumption, MasterAssumption DEF Seqno, Seqno0, TR_FIRST_SEQNO
<1> QED BY <1>1 DEF NewConn, NoConn, Conn, States, ConnOK, LastSeq

\* SYN (streamtransport.c:357-372).
LEMMA SYNStep == ASSUME ChaseInv, NEW k \in Keys, ReceiveSYN(k) PROVE ChaseInv'
<1>1. RestOK' /\ top' = top /\ finAt' = finAt
  BY RestHolds DEF ReceiveSYN, RestOK, netVars, appVars
<1>2. CASE IsOpen(k)
  <2> DEFINE c == [strcs[k] EXCEPT !.alarm = "armed"]
  <2>1. strcs[k] \in Conn /\ ConnOK(strcs[k], top[k], finAt[k])
    BY <1>2 DEF ChaseInv, ConnOK
  <2>2. ConnOK(c, top[k], finAt[k])
    BY <2>1 DEF ConnOK, Conn
  <2>3. Update(k, c, {SynAck(k)})
    BY <1>2 DEF ReceiveSYN
  <2>4. {SynAck(k)} \subseteq Reply
    BY <2>1, ReplyType
  <2>5. finAt[k] # 0 => finAt[k] = top[k]
    BY DEF ChaseInv
  <2> HIDE DEF c
  <2> QED BY <1>1, <1>2, <2>2, <2>3, <2>4, <2>5, UpdateOK
<1>3. CASE ~IsOpen(k)
  <2>1. /\ strcs' = [strcs EXCEPT ![k] = NewConn] /\ replies' = {SynAck(k)}
        /\ before' = before \cup {<<k, j>> : j \in {j \in Keys : IsOpen(j)}}
        /\ top[k] = 0
    BY <1>3 DEF ReceiveSYN
  <2>2. finAt[k] = 0
    BY <2>1 DEF ChaseInv
  <2>3. replies' \subseteq Reply
    BY <2>1, NewConnOK, ReplyType
  <2>4. TypeOK'
    BY <1>1, <2>1, <2>3, NewConnOK DEF TypeOK, ChaseInv, RestOK
  <2>5. ASSUME NEW j \in Keys
        PROVE  /\ finAt'[j] # 0 => finAt'[j] = top'[j]
               /\ IsOpen(j)' => ConnOK(strcs'[j], top'[j], finAt'[j])
    <3>1. CASE j = k
      BY <1>1, <2>1, <2>2, <3>1, NewConnOK DEF ChaseInv, TypeOK
    <3>2. CASE j # k
      BY <1>1, <2>1, <3>2 DEF ChaseInv, TypeOK, IsOpen
    <3> QED BY <3>1, <3>2
  <2> QED BY <2>4, <2>5 DEF ChaseInv
<1> QED BY <1>2, <1>3

\* FIN for an unknown connection (streamtransport.c:379-382).
LEMMA StrayFINStep == ASSUME ChaseInv, NEW k \in Keys, ReceiveStrayFIN(k) PROVE ChaseInv'
<1> DEFINE n == IF finAt[k] # 0 THEN finAt[k] ELSE top[k] + 1
<1>1. /\ replies' = {FinAck(k, SeqOf(n))}
      /\ UNCHANGED <<strcs, before, tids, top, finAt, delivered, calls>>
  BY DEF ReceiveStrayFIN, strVars, netVars, appVars
<1>2. n \in Nat \ {0} /\ 0 \in 0 .. TR_VALID_RANGE
  BY MasterAssumption, SeqnoAssumption DEF ChaseInv, TypeOK
<1> HIDE DEF n
<1>3. SeqOf(n) \in Nat
  BY <1>2, SeqOfAhead, SeqnoAssumption DEF Seqno, TR_FIRST_SEQNO
<1>4. replies' \subseteq Reply
  BY <1>1, <1>3 DEF FinAck, Reply
<1> QED BY <1>1, <1>4 DEF ChaseInv, TypeOK, IsOpen

\* FIN (streamtransport.c:374-408).
LEMMA FINStep ==
  ASSUME ChaseInv, NEW k \in Keys, NEW n \in Index, ReceiveFIN(k, n) PROVE ChaseInv'
<1> DEFINE old == strcs[k]
           c == Noticed(old, SeqOf(n))
           cleared == [c EXCEPT !.timeoutCount = 0]
<1>1. /\ IsOpen(k) /\ old \in Conn /\ ConnOK(old, top[k], finAt[k])
      /\ top[k] \in 0 .. (MaxIndex + 1)
  BY DEF ReceiveFIN, ChaseInv, ConnOK, TypeOK
<1>2. n >= top[k] /\ n <= top[k] + Gap
  BY MasterAssumption DEF ReceiveFIN, ChaseInv, TypeOK, Index
<1>3. n < top[k] + TR_VALID_RANGE /\ top[k] < n + TR_VALID_RANGE
  BY <1>1, <1>2, MasterAssumption, SeqnoAssumption DEF Index
<1>4. c \in Conn /\ c.last = LastSeq(n)
  <2>1. c \in Conn /\ c.last = LastSeq(IF n > top[k] THEN n ELSE top[k])
    BY <1>1, <1>3, NoticedOK DEF ConnOK
  <2> QED BY <1>1, <1>2, <2>1, MasterAssumption DEF Index
<1>5. /\ top' = [top EXCEPT ![k] = n] /\ finAt' = [finAt EXCEPT ![k] = n]
      /\ top'[k] = n /\ finAt'[k] = n /\ n # 0
      /\ \A j \in Keys \ {k} : top'[j] = top[j] /\ finAt'[j] = finAt[j]
      /\ UNCHANGED <<delivered, calls>>
  BY MasterAssumption DEF ReceiveFIN, ChaseInv, TypeOK, Index
<1>6. \/ /\ c.missing = {}
         /\ Update(k, Restarted(c, "FINISHED"), {FinAck(k, c.last)})
         /\ ReportFinish(k, [strcs EXCEPT ![k] = Restarted(c, "FINISHED")])
      \/ /\ c.missing # {}
         /\ Update(k, Restarted(AfterNack(cleared), "FIN_NACK_WAIT"), NackOf(k, c))
         /\ UNCHANGED tids
  BY DEF ReceiveFIN
<1>7. cleared \in Conn /\ cleared.last = c.last
  BY <1>4, MasterAssumption DEF Conn
<1> HIDE DEF c, cleared
<1>8. RestOK'
  <2>1. tids' \in [Tids -> {"NONE", "TASK", "CLOSE"}]
    BY <1>6, ReportType, RestHolds DEF ChaseInv, RestOK
  <2> QED BY <1>5, <2>1, RestHolds, MasterAssumption DEF RestOK, Index
<1>9. CASE c.missing = {}
  <2>1. ConnOK(Restarted(c, "FINISHED"), n, n)
    BY <1>4, <1>5, <1>9, RestartedOK DEF ConnOK, States
  <2>2. {FinAck(k, c.last)} \subseteq Reply
    BY <1>4, ReplyType
  <2> QED BY <1>1, <1>5, <1>6, <1>8, <1>9, <2>1, <2>2, UpdateOK
<1>10. CASE c.missing # {}
  <2> DEFINE a == AfterNack(cleared)
  <2>1. a \in Conn /\ a.last = LastSeq(n)
    BY <1>4, <1>7, AfterNackOK
  <2> HIDE DEF a
  <2>2. ConnOK(Restarted(a, "FIN_NACK_WAIT"), n, n)
    BY <1>5, <2>1, RestartedOK DEF ConnOK, States
  <2>3. NackOf(k, c) \subseteq Reply
    BY <1>4, ReplyType
  <2>4. Update(k, Restarted(a, "FIN_NACK_WAIT"), NackOf(k, c))
    BY <1>6, <1>10 DEF a
  <2> QED BY <1>1, <1>5, <1>8, <2>2, <2>3, <2>4, UpdateOK
<1> QED BY <1>9, <1>10

\* The number expected after a delivery is a sequence number.
LEMMA NextAfterType ==
  ASSUME NEW out \in SUBSET Index, NEW e \in Seqno
  PROVE  NextAfter(out, e) \in Seqno
<1> DEFINE newest == {n \in out : \A m \in out \ {n} : SPBefore(m, n)}
<1>1. CASE newest = {}
  BY <1>1 DEF NextAfter
<1>2. CASE newest # {}
  <2> DEFINE n == CHOOSE n \in newest : TRUE
  <2>1. n \in Index
    BY <1>2
  <2>2. NextAfter(out, e) = tr_seqno_next(SeqOf(n))
    BY <1>2 DEF NextAfter
  <2> HIDE DEF n
  <2>3. SeqOf(n) \in Seqno
    BY <2>1, SeqOfAhead, SeqnoAssumption, MasterAssumption DEF Index
  <2> QED BY <2>2, <2>3, SeqnoAssumption DEF tr_seqno_next, Seqno, TR_FIRST_SEQNO
<1> QED BY <1>1, <1>2

\* DATA and DATA_RETX (streamtransport.c:409-479).
LEMMA DataStep ==
  ASSUME ChaseInv, NEW k \in Keys, NEW n \in 1 .. MaxIndex, NEW retx \in BOOLEAN,
         ReceiveData(k, n, retx)
  PROVE  ChaseInv'
<1> DEFINE old == strcs[k]
           s == SeqOf(n)
           noticed == Noticed(old, s)
           missing == IF retx THEN noticed.missing \ {s} ELSE noticed.missing
           now == tr_seqno_cmp(s, old.next) = 0
           e == IF now THEN tr_seqno_next(old.next) ELSE old.next
           list == PList(old, n)
           newTop == IF n > top[k] THEN n ELSE top[k]
<1>1. /\ IsOpen(k) /\ old \in Conn /\ ConnOK(old, top[k], finAt[k])
      /\ top[k] \in 0 .. (MaxIndex + 1) /\ n \in Index /\ finAt[k] \in 0 .. (MaxIndex + 1)
      /\ finAt[k] # 0 => finAt[k] = top[k]
  BY MasterAssumption DEF ReceiveData, ChaseInv, ConnOK, TypeOK, Index
<1>2. n <= top[k] + Gap /\ n + Late >= top[k] /\ (finAt[k] # 0 => n < finAt[k])
  BY DEF ReceiveData, Arriving
<1>3. n < top[k] + TR_VALID_RANGE /\ top[k] < n + TR_VALID_RANGE
  BY <1>1, <1>2, MasterAssumption, SeqnoAssumption DEF Index
<1>4. /\ noticed \in Conn /\ noticed.last = LastSeq(newTop) /\ noticed.state = old.state
      /\ noticed.missing = old.missing \cup NewlyMissed(old, s)
      /\ n <= top[k] => NewlyMissed(old, s) = {}
  BY <1>1, <1>3, NoticedOK DEF ConnOK
<1>5. missing \in SUBSET Seqno
  BY <1>4 DEF Conn
<1>6. e \in Seqno
  BY <1>1, SeqnoAssumption DEF Conn, tr_seqno_next, Seqno, TR_FIRST_SEQNO
<1>7. list \in SUBSET Index
  BY <1>1 DEF PList, Conn
<1> DEFINE
  Result(taken, out) ==
    [noticed EXCEPT !.missing = missing, !.timeoutCount = 0,
                    !.plist = list \ taken, !.next = NextAfter(out, e)]
  Outcome(out, c) ==
    /\ delivered' = [delivered EXCEPT ![k] = @ \cup (IF now THEN out \cup {n} ELSE out)]
    /\ calls' = [calls EXCEPT ![k] = @ + Cardinality(out) + (IF now THEN 1 ELSE 0)]
    /\ \/ /\ NewlyMissed(old, s) # {}
          /\ Update(k, Restarted(AfterNack(c), Asking(c)), NackOf(k, c))
          /\ UNCHANGED tids
       \/ /\ NewlyMissed(old, s) = {} /\ missing = {} /\ c.state = "FIN_NACK_WAIT"
          /\ Update(k, Restarted(c, "FINISHED"), {FinAck(k, c.last)})
          /\ ReportFinish(k, [strcs EXCEPT ![k] = Restarted(c, "FINISHED")])
       \/ /\ NewlyMissed(old, s) = {} /\ missing = {} /\ c.state = "NACK_WAIT"
          /\ Update(k, Restarted(c, "PASSIVE"), {})
          /\ UNCHANGED tids
       \/ /\ NewlyMissed(old, s) = {}
          /\ missing # {} \/ c.state \in {"PASSIVE", "FINISHED"}
          /\ Update(k, c, {})
          /\ UNCHANGED tids
<1>8. PICK taken \in Heads(list) : \E out \in SUBSET taken : Outcome(out, Result(taken, out))
  BY DEF ReceiveData
<1>9. PICK out \in SUBSET taken : Outcome(out, Result(taken, out))
  BY <1>8
<1> DEFINE c == Result(taken, out)
<1>10. out \in SUBSET Index /\ IsFiniteSet(out)
  <2>1. taken \subseteq list
    BY DEF Heads
  <2>2. out \in SUBSET Index
    BY <1>7, <2>1
  <2>3. IsFiniteSet(Index)
    BY FS_Interval, MasterAssumption DEF Index
  <2> QED BY <2>2, <2>3, FS_Subset
<1>11. /\ c \in Conn /\ c.last = LastSeq(newTop) /\ c.state = old.state
       /\ c.missing = missing
  <2>1. NextAfter(out, e) \in Seqno
    BY <1>6, <1>10, NextAfterType
  <2>2. list \ taken \in SUBSET Index /\ 0 \in 0 .. MAX_TIMEOUT_COUNT
    BY <1>7, MasterAssumption
  <2> HIDE DEF noticed, missing, e, list
  <2> QED BY <1>4, <1>5, <2>1, <2>2 DEF Conn
<1>12. /\ top' = [top EXCEPT ![k] = newTop] /\ finAt' = finAt
       /\ top'[k] = newTop /\ \A j \in Keys \ {k} : top'[j] = top[j]
       /\ newTop \in 0 .. (MaxIndex + 1)
       /\ finAt[k] # 0 => newTop = top[k]
  BY <1>1, <1>2, MasterAssumption DEF ReceiveData, ChaseInv, TypeOK, Index
<1>13. Outcome(out, c)
  BY <1>9
<1> HIDE DEF c
<1>14. RestOK'
  <2>1. tids' \in [Tids -> {"NONE", "TASK", "CLOSE"}]
    BY <1>13, ReportType, RestHolds DEF ChaseInv, RestOK
  <2>2. Cardinality(out) \in Nat
    BY <1>10, FS_CardinalityType
  <2>3. calls' \in [Keys -> Nat]
    BY <1>13, <2>2, RestHolds DEF RestOK
  <2>4. delivered' \in [Keys -> SUBSET Index]
    BY <1>1, <1>10, <1>13, RestHolds DEF RestOK
  <2>5. top' \in [Keys -> 0 .. (MaxIndex + 1)] /\ finAt' \in [Keys -> 0 .. (MaxIndex + 1)]
    BY <1>12, RestHolds DEF RestOK
  <2> QED BY <2>1, <2>3, <2>4, <2>5 DEF RestOK
<1>15. ASSUME NEW d, NEW sent, Update(k, d, sent), sent \subseteq Reply,
              ConnOK(d, newTop, finAt[k])
       PROVE  ChaseInv'
  BY <1>1, <1>12, <1>14, <1>15, UpdateOK
<1>16. CASE /\ NewlyMissed(old, s) # {}
            /\ Update(k, Restarted(AfterNack(c), Asking(c)), NackOf(k, c))
  <2>1. finAt[k] = 0
    BY <1>1, <1>2, <1>4, <1>16 DEF Index
  <2>2. Asking(c) = "NACK_WAIT"
    BY <1>1, <1>11, <2>1 DEF ConnOK, Conn, States, Asking
  <2>3. ConnOK(Restarted(AfterNack(c), Asking(c)), newTop, finAt[k])
    BY <1>11, <2>2, AfterNackOK, RestartedOK DEF ConnOK, States
  <2> QED BY <1>11, <1>15, <1>16, <2>3, ReplyType
<1>17. CASE /\ NewlyMissed(old, s) = {} /\ missing = {} /\ c.state = "FIN_NACK_WAIT"
            /\ Update(k, Restarted(c, "FINISHED"), {FinAck(k, c.last)})
  <2>1. ConnOK(Restarted(c, "FINISHED"), newTop, finAt[k])
    BY <1>1, <1>11, <1>17, RestartedOK DEF ConnOK, States
  <2> QED BY <1>11, <1>15, <1>17, <2>1, ReplyType
<1>18. CASE /\ NewlyMissed(old, s) = {} /\ missing = {} /\ c.state = "NACK_WAIT"
            /\ Update(k, Restarted(c, "PASSIVE"), {})
  <2>1. ConnOK(Restarted(c, "PASSIVE"), newTop, finAt[k])
    BY <1>1, <1>11, <1>18, RestartedOK DEF ConnOK, States
  <2> QED BY <1>15, <1>18, <2>1
<1>19. CASE NewlyMissed(old, s) = {} /\ Update(k, c, {})
  <2>1. missing \subseteq old.missing
    BY <1>4, <1>19
  <2>2. ConnOK(c, newTop, finAt[k])
    BY <1>1, <1>11, <2>1 DEF ConnOK
  <2> QED BY <1>15, <1>19, <2>2
<1> QED BY <1>13, <1>16, <1>17, <1>18, <1>19

\* The passing of an alarm time.
LEMMA ExpireStep == ASSUME ChaseInv, NEW k \in Keys, Expire(k) PROVE ChaseInv'
<1>1. /\ IsOpen(k) /\ strcs' = [strcs EXCEPT ![k] = [strcs[k] EXCEPT !.alarm = "expired"]]
      /\ UNCHANGED <<before, tids, replies, top, finAt, delivered, calls>>
  BY DEF Expire, netVars, appVars
<1>2. strcs[k] \in Conn /\ ConnOK(strcs[k], top[k], finAt[k])
  BY <1>1 DEF ChaseInv, ConnOK
<1>3. ConnOK([strcs[k] EXCEPT !.alarm = "expired"], top[k], finAt[k])
  BY <1>2 DEF ConnOK, Conn
<1>4. TypeOK'
  BY <1>1, <1>3 DEF ChaseInv, TypeOK, ConnOK
<1>5. ASSUME NEW j \in Keys
      PROVE  /\ finAt'[j] # 0 => finAt'[j] = top'[j]
             /\ IsOpen(j)' => ConnOK(strcs'[j], top'[j], finAt'[j])
  BY <1>1, <1>3 DEF ChaseInv, TypeOK, IsOpen
<1> QED BY <1>4, <1>5 DEF ChaseInv

\* STR_Timer_fired (streamtransport.c:513-567).
LEMMA TimerStep ==
  ASSUME ChaseInv, NEW k \in Keys, FirstExpired(k), TimerFired(k),
         UNCHANGED <<netVars, delivered, calls>>
  PROVE  ChaseInv'
<1> DEFINE c == [strcs[k] EXCEPT !.timeoutCount = @ + 1]
<1>1. /\ IsOpen(k) /\ strcs[k] \in Conn /\ ConnOK(strcs[k], top[k], finAt[k])
      /\ finAt[k] # 0 => finAt[k] = top[k]
  BY DEF FirstExpired, Expired, ChaseInv, ConnOK
<1>2. UNCHANGED <<top, finAt, delivered, calls>>
  BY DEF netVars
<1>3. ASSUME RestOK', NEW d, NEW sent, Update(k, d, sent), sent \subseteq Reply,
             ConnOK(d, top[k], finAt[k])
      PROVE  ChaseInv'
  BY <1>1, <1>2, <1>3, UpdateOK
<1>4. ASSUME tids' \in [Tids -> {"NONE", "TASK", "CLOSE"}] PROVE RestOK'
  BY <1>2, <1>4, RestHolds DEF RestOK
<1>5. CASE Delete(k) /\ UNCHANGED tids
  <2>1. strcs' \in [Keys -> Conn \cup {NoConn}] /\ strcs' = [strcs EXCEPT ![k] = NoConn]
    BY <1>5 DEF Delete, ChaseInv, TypeOK
  <2>2. before' \subseteq before /\ replies' = {}
    BY <1>5 DEF Delete, Unlinked
  <2>3. \A j \in Keys : strcs'[j] \in {NoConn, strcs[j]}
    BY <2>1 DEF ChaseInv, TypeOK
  <2>4. RestOK'
    BY <1>4, <1>5, RestHolds DEF RestOK
  <2> QED BY <1>2, <2>1, <2>2, <2>3, <2>4, RemovalOK
<1>6. CASE strcs[k].state \in {"NACK_WAIT", "FIN_NACK_WAIT"} /\ c.timeoutCount < MAX_TIMEOUT_COUNT
           /\ \/ /\ c.missing # {}
                 /\ Update(k, Restarted(AfterNack(c), c.state), NackOf(k, c))
                 /\ UNCHANGED tids
              \/ /\ c.missing = {} /\ c.state = "NACK_WAIT"
                 /\ Update(k, Restarted(c, "PASSIVE"), {})
                 /\ UNCHANGED tids
              \/ /\ c.missing = {} /\ c.state = "FIN_NACK_WAIT"
                 /\ Update(k, Restarted(c, "FINISHED"), {FinAck(k, c.last)})
                 /\ ReportFinish(k, [strcs EXCEPT ![k] = Restarted(c, "FINISHED")])
  <2>1. /\ c \in Conn /\ c.last = LastSeq(top[k]) /\ c.state = strcs[k].state
        /\ c.missing = strcs[k].missing
    <3>1. strcs[k].timeoutCount \in 0 .. MAX_TIMEOUT_COUNT
      BY <1>1 DEF Conn
    <3>2. c.timeoutCount = strcs[k].timeoutCount + 1
      BY <1>1 DEF Conn
    <3>3. strcs[k].timeoutCount + 1 \in 0 .. MAX_TIMEOUT_COUNT
      BY <1>6, <3>1, <3>2, MasterAssumption
    <3> QED BY <1>1, <3>3 DEF Conn, ConnOK
  <2> HIDE DEF c
  <2>2. RestOK'
    BY <1>4, <1>6, RestHolds, ReportType DEF RestOK, ChaseInv
  <2>3. CASE /\ c.missing # {}
             /\ Update(k, Restarted(AfterNack(c), c.state), NackOf(k, c))
    <3>1. c.state \in {"NACK_WAIT", "FIN_NACK_WAIT"}
      BY <1>6, <2>1
    <3>2. ConnOK(Restarted(AfterNack(c), c.state), top[k], finAt[k])
      BY <1>1, <2>1, <3>1, AfterNackOK, RestartedOK DEF ConnOK, States
    <3> QED BY <1>3, <2>1, <2>2, <2>3, <3>2, ReplyType
  <2>4. CASE c.missing = {} /\ c.state = "NACK_WAIT" /\ Update(k, Restarted(c, "PASSIVE"), {})
    <3>1. ConnOK(Restarted(c, "PASSIVE"), top[k], finAt[k])
      BY <2>1, <2>4, RestartedOK DEF ConnOK, States
    <3> QED BY <1>3, <2>2, <2>4, <3>1
  <2>5. CASE /\ c.missing = {} /\ c.state = "FIN_NACK_WAIT"
             /\ Update(k, Restarted(c, "FINISHED"), {FinAck(k, c.last)})
    <3>1. ConnOK(Restarted(c, "FINISHED"), top[k], finAt[k])
      BY <1>1, <2>1, <2>5, RestartedOK DEF ConnOK, States
    <3> QED BY <1>3, <2>1, <2>2, <2>5, <3>1, ReplyType
  <2> QED BY <1>6, <2>3, <2>4, <2>5
<1>7. CASE replies' = {} /\ UNCHANGED <<strVars, tids>>
  BY <1>2, <1>7 DEF strVars, ChaseInv, TypeOK, IsOpen
<1> QED BY <1>5, <1>6, <1>7 DEF TimerFired

\* streamtransport_delete_tid, with a change of the task's binding.
LEMMA DeleteTidStep ==
  ASSUME ChaseInv, NEW tid \in Tids, DeleteTid(tid), replies' = {},
         UNCHANGED <<netVars, appVars>>, tids' \in [Tids -> {"NONE", "TASK", "CLOSE"}]
  PROVE  ChaseInv'
<1>1. strcs' = DeletedTid(tid) /\ before' \subseteq before
  BY DEF DeleteTid, Unlinked
<1>2. RestOK' /\ UNCHANGED <<top, finAt>>
  BY RestHolds DEF RestOK, netVars, appVars
<1>3. ASSUME NEW j \in Keys
      PROVE  \/ strcs'[j] \in {NoConn, strcs[j]}
             \/ IsOpen(j) /\ strcs'[j] = [strcs[j] EXCEPT !.deletePending = TRUE]
  BY <1>1 DEF DeletedTid
<1>4. strcs' \in [Keys -> Conn \cup {NoConn}]
  <2>1. ASSUME NEW j \in Keys PROVE strcs'[j] \in Conn \cup {NoConn}
    <3>1. strcs[j] \in Conn \cup {NoConn}
      BY DEF ChaseInv, TypeOK
    <3>2. IsOpen(j) => [strcs[j] EXCEPT !.deletePending = TRUE] \in Conn
      BY <3>1 DEF IsOpen, Conn
    <3> QED BY <1>3, <3>1, <3>2
  <2> QED BY <1>1, <2>1 DEF DeletedTid
<1> QED BY <1>1, <1>2, <1>3, <1>4, RemovalOK

-----------------------------------------------------------------------------
\* The invariant holds for every value of the constants.
LEMMA ChaseInvHolds == Spec => []ChaseInv
<1>1. Init => ChaseInv
  <2> SUFFICES ASSUME Init PROVE ChaseInv
    OBVIOUS
  <2>1. TypeOK
    BY MasterAssumption DEF Init, TypeOK
  <2> QED BY <2>1 DEF Init, ChaseInv, IsOpen
<1>2. ChaseInv /\ [Next]_vars => ChaseInv'
  <2> SUFFICES ASSUME ChaseInv, [Next]_vars PROVE ChaseInv'
    OBVIOUS
  <2>1. ASSUME NEW k \in Keys, Receive(k) PROVE ChaseInv'
    <3>1. CASE ReceiveSYN(k)
      BY <3>1, SYNStep
    <3>2. CASE ReceiveStrayFIN(k)
      BY <3>2, StrayFINStep
    <3>3. CASE \E n \in Index : ReceiveFIN(k, n)
      BY <3>3, FINStep
    <3>4. CASE \E n \in 1 .. MaxIndex, retx \in BOOLEAN : ReceiveData(k, n, retx)
      BY <3>4, DataStep
    <3> QED BY <2>1, <3>1, <3>2, <3>3, <3>4 DEF Receive
  <2>2. ASSUME NEW k \in Keys, Expire(k) PROVE ChaseInv'
    BY <2>2, ExpireStep
  <2>3. CASE Poll
    BY <2>3, TimerStep DEF Poll
  <2>4. ASSUME NEW tid \in Tids, ClientClose(tid) PROVE ChaseInv'
    <3>1. tids' \in [Tids -> {"NONE", "TASK", "CLOSE"}]
      BY <2>4 DEF ClientClose, ChaseInv, TypeOK
    <3> QED BY <2>4, <3>1, DeleteTidStep DEF ClientClose
  <2>5. ASSUME NEW tid \in Tids, ClientGone(tid) PROVE ChaseInv'
    <3>1. tids' \in [Tids -> {"NONE", "TASK", "CLOSE"}]
      BY <2>5 DEF ClientGone, ChaseInv, TypeOK
    <3> QED BY <2>5, <3>1, DeleteTidStep DEF ClientGone
  <2>6. CASE UNCHANGED vars
    BY <2>6 DEF vars, ChaseInv, TypeOK, IsOpen
  <2> QED BY <2>1, <2>2, <2>3, <2>4, <2>5, <2>6 DEF Next
<1> QED BY <1>1, <1>2, PTL DEF Spec

\* Every variable of the master keeps its type.
THEOREM TypeCorrect == Spec => []TypeOK
<1>1. ChaseInv => TypeOK
  BY DEF ChaseInv
<1> QED BY <1>1, ChaseInvHolds, PTL

\* A connection that misses a packet is in a state whose timer sends the NACK
\* again (streamtransport.c:459-477, :526-557).
THEOREM MissingIsChasedHolds == Spec => []MissingIsChased
<1>1. ChaseInv => MissingIsChased
  BY DEF ChaseInv, ConnOK, MissingIsChased
<1> QED BY <1>1, ChaseInvHolds, PTL

-----------------------------------------------------------------------------
(* Least and greatest members.                                              *)

\* A set of numbers has a least member.
LEMMA SmallestOf ==
  ASSUME NEW S \in SUBSET Nat, S # {}
  PROVE  \E x \in S : \A y \in S : x <= y
<1> DEFINE Below == {0 .. x : x \in S}
<1>1. PICK B \in Below : \A A \in Below : <<A, B>> \notin StrictSubsetOrdering(Nat)
  <2>1. Below \subseteq FiniteSubsetsOf(Nat)
    <3>1. ASSUME NEW x \in S PROVE 0 .. x \in FiniteSubsetsOf(Nat)
      <4>1. IsFiniteSet(0 .. x)
        BY FS_Interval
      <4> QED BY <4>1 DEF FiniteSubsetsOf
    <3> QED BY <3>1
  <2>2. Below # {}
    OBVIOUS
  <2> HIDE DEF Below
  <2> QED BY <2>1, <2>2, FS_StrictSubsetOrderingWellFounded, WFMin
<1>2. PICK x \in S : B = 0 .. x
  OBVIOUS
<1>3. ASSUME NEW y \in S, y < x PROVE FALSE
  <2>0. x \in Nat /\ y \in Nat /\ 0 .. y \in Below
    BY <1>3
  <2>1. 0 .. y \in Below /\ 0 .. y \subseteq B /\ 0 .. y # B
    <3>1. x \in 0 .. x /\ x \notin 0 .. y /\ 0 .. y \subseteq 0 .. x
      BY <1>3, <2>0
    <3> HIDE DEF Below
    <3> QED BY <1>2, <2>0, <3>1
  <2>2. 0 .. y \in SUBSET Nat /\ B \in SUBSET Nat
    BY <1>2
  <2> HIDE DEF Below
  <2> QED BY <1>1, <2>1, <2>2 DEF StrictSubsetOrdering
<1> QED BY <1>3

\* A bounded set of numbers has a greatest member.
LEMMA LargestOf ==
  ASSUME NEW N \in Nat, NEW S \in SUBSET (0 .. N), S # {}
  PROVE  \E x \in S : \A y \in S : y <= x
<1> DEFINE T == {N - x : x \in S}
<1>1. T \in SUBSET Nat /\ T # {}
  <2>1. \A x \in S : N - x \in Nat
    OBVIOUS
  <2> QED BY <2>1
<1>2. PICK z \in T : \A y \in T : z <= y
  BY <1>1, SmallestOf
<1>3. PICK x \in S : z = N - x
  BY <1>2
<1>4. ASSUME NEW y \in S PROVE y <= x
  <2>1. z <= N - y
    BY <1>2
  <2> QED BY <1>3, <2>1
<1> QED BY <1>4

-----------------------------------------------------------------------------
(* The packet list and the loop that empties it.                            *)

\* The test of SPList_insert is right for packets less than half a ring apart
\* (sortedpacketlist.c:84-86).
LEMMA SPBeforeIsOlder ==
  ASSUME NEW m \in Nat \ {0}, NEW n \in Nat \ {0},
         m < n + TR_MAX_SEQNO \div 2, n < m + TR_MAX_SEQNO \div 2
  PROVE  SPBefore(m, n) <=> m < n
<1> DEFINE half == TR_MAX_SEQNO \div 2
<1>1. half \in Nat /\ 2 * half <= TR_MAX_SEQNO
  BY SeqnoAssumption
<1>2. ASSUME NEW a \in Nat \ {0}, NEW k \in 1 .. (half - 1)
      PROVE  SPBefore(a, a + k) /\ ~SPBefore(a + k, a)
  <2>1. k \in 0 .. TR_MAX_SEQNO
    BY <1>1, SeqnoAssumption
  <2>2. SeqOf(a) \in Seqno /\ SeqOf(a + k) = Ahead(SeqOf(a), k)
    BY <2>1, SeqOfLater
  <2>3. k > 0 /\ k < half /\ k \in Nat
    BY <1>1
  <2>4. SeqOf(a) \in 1 .. TR_MAX_SEQNO
    BY <2>2 DEF Seqno, TR_FIRST_SEQNO
  <2>5. /\ SPBefore(a, a + k) <=> /\ SeqOf(a) < SeqOf(a + k) \/ SeqOf(a) > SeqOf(a + k) + half
                                  /\ SeqOf(a) + half > SeqOf(a + k)
        /\ SPBefore(a + k, a) <=> /\ SeqOf(a + k) < SeqOf(a) \/ SeqOf(a + k) > SeqOf(a) + half
                                  /\ SeqOf(a + k) + half > SeqOf(a)
    BY DEF SPBefore
  <2> HIDE DEF half
  <2> QED BY <1>1, <2>2, <2>3, <2>4, <2>5, SeqnoAssumption DEF Ahead
<1>3. CASE m < n
  <2>1. n - m \in 1 .. (half - 1) /\ m + (n - m) = n
    BY <1>1, <1>3
  <2> QED BY <1>2, <1>3, <2>1
<1>4. CASE n < m
  <2>1. m - n \in 1 .. (half - 1) /\ n + (m - n) = m
    BY <1>1, <1>4
  <2> QED BY <1>2, <1>4, <2>1
<1>5. CASE m = n
  <2>1. SeqOf(m) \in Seqno
    BY NextSeq
  <2> QED BY <1>1, <1>5, <2>1, SeqnoAssumption DEF SPBefore, Seqno, TR_FIRST_SEQNO
<1> QED BY <1>3, <1>4, <1>5

\* The test of SPList_insert puts the packets of L in the order sent.
Ordered(L) == \A m, n \in L : SPBefore(m, n) <=> m < n

\* The packets of S come from e on, up to N, and are in order.
Between(S, e, N) == N \in Nat /\ e \in 1 .. (N + 1) /\ S \in SUBSET (e .. N) /\ Ordered(S)

\* After the packets of S the one after the newest of them is expected.
LEMMA NextAfterIs ==
  ASSUME NEW S, NEW e, NEW N, Between(S, e, N)
  PROVE  \E x \in e .. (N + 1) :
           /\ NextAfter(S, SeqOf(e)) = SeqOf(x)
           /\ x = e \/ x - 1 \in S
           /\ \A m \in S : m < x
<1> DEFINE newest == {n \in S : \A m \in S \ {n} : SPBefore(m, n)}
<1>a. N \in Nat /\ e \in 1 .. (N + 1) /\ S \in SUBSET (e .. N) /\ Ordered(S)
  BY DEF Between
<1> USE <1>a
<1>1. CASE S = {}
  <2>1. NextAfter(S, SeqOf(e)) = SeqOf(e)
    BY <1>1 DEF NextAfter
  <2> QED BY <1>1, <2>1
<1>2. CASE S # {}
  <2>1. S \in SUBSET (0 .. N)
    OBVIOUS
  <2>2. PICK y \in S : \A m \in S : m <= y
    BY <1>2, <2>1, LargestOf
  <2>3. newest = {y}
    <3>1. y \in newest
      BY <2>2 DEF Ordered
    <3>2. ASSUME NEW n \in newest, n # y PROVE FALSE
      <4>1. SPBefore(y, n)
        BY <3>2
      <4> QED BY <2>2, <3>2, <4>1 DEF Ordered
    <3> QED BY <3>1, <3>2
  <2>4. NextAfter(S, SeqOf(e)) = tr_seqno_next(SeqOf(y))
    <3>1. (CHOOSE n \in newest : TRUE) = y
      BY <2>3
    <3> QED BY <2>3, <3>1 DEF NextAfter
  <2>5. y \in Nat \ {0} /\ y + 1 \in e .. (N + 1)
    OBVIOUS
  <2> QED BY <2>2, <2>4, <2>5, NextSeq
<1> QED BY <1>1, <1>2

\* The loop delivers the head f of the list when it is the packet x expected or
\* TR_VALID_RANGE older than n, and drops no packet (streamtransport.c:287-313).
LEMMA DeliverIs ==
  ASSUME NEW f \in Nat \ {0}, NEW x \in Nat \ {0}, NEW n \in Nat \ {0},
         x <= f, f + TR_VALID_RANGE <= TR_MAX_SEQNO \/ f < x + TR_VALID_RANGE,
         f < n + TR_VALID_RANGE, n + TR_VALID_RANGE <= TR_MAX_SEQNO \/ n < f + TR_VALID_RANGE
  PROVE  /\ Deliver(SeqOf(f), SeqOf(x), SeqOf(n)) <=> f = x \/ f + TR_VALID_RANGE <= n
         /\ ~Drop(SeqOf(f), SeqOf(x))
<1>1. Near(x, f) /\ Near(f, n)
  BY SeqnoAssumption DEF Near
<1>2. /\ tr_seqno_cmp(SeqOf(f), SeqOf(x)) = IF f = x THEN 0 ELSE 1
      /\ tr_seqno_cmp(SeqOf(n), SeqOf(f)) = IF n = f THEN 0 ELSE IF f < n THEN 1 ELSE -1
  BY <1>1, CmpOfNear
<1>3. tr_seqno_add(SeqOf(f), TR_VALID_RANGE) = SeqOf(f + TR_VALID_RANGE)
  <2>1. TR_VALID_RANGE \in 0 .. TR_VALID_RANGE
    BY SeqnoAssumption
  <2>2. SeqOf(f) \in Seqno /\ SeqOf(f + TR_VALID_RANGE) = Ahead(SeqOf(f), TR_VALID_RANGE)
    BY <2>1, SeqOfAhead
  <2> QED BY <2>1, <2>2, AddIsAhead
<1>4. ASSUME f < n
      PROVE  tr_seqno_cmp(SeqOf(n), SeqOf(f + TR_VALID_RANGE)) >= 0 <=> f + TR_VALID_RANGE <= n
  <2>1. f + TR_VALID_RANGE \in Nat \ {0} /\ Near(f + TR_VALID_RANGE, n)
    BY <1>4, SeqnoAssumption DEF Near
  <2>2. tr_seqno_cmp(SeqOf(n), SeqOf(f + TR_VALID_RANGE))
          = IF n = f + TR_VALID_RANGE THEN 0 ELSE IF f + TR_VALID_RANGE < n THEN 1 ELSE -1
    BY <2>1, CmpOfNear
  <2> QED BY <2>2, SeqnoAssumption
<1>5. f + TR_VALID_RANGE <= n => f < n
  BY SeqnoAssumption
<1>6. Drop(SeqOf(f), SeqOf(x)) <=> tr_seqno_cmp(SeqOf(f), SeqOf(x)) < 0
  BY DEF Drop
<1>7. Deliver(SeqOf(f), SeqOf(x), SeqOf(n)) <=>
        \/ f = x
        \/ f # x /\ f < n /\ tr_seqno_cmp(SeqOf(n), SeqOf(f + TR_VALID_RANGE)) >= 0
  BY <1>2, <1>3 DEF Deliver
<1> QED BY <1>2, <1>4, <1>5, <1>6, <1>7

\* The loop finds the list L, up to packet N, when n has come and e is expected.
Drainable(L, e, n, N) ==
  /\ N \in Nat /\ e \in 1 .. (N + 1) /\ L \in SUBSET (e .. N) /\ n \in 1 .. N
  /\ Ordered(L)
  /\ \A x \in L : /\ x < n + TR_VALID_RANGE
                  /\ x + TR_VALID_RANGE <= TR_MAX_SEQNO \/ x < e + TR_VALID_RANGE
  /\ n + TR_VALID_RANGE <= TR_MAX_SEQNO \/ n < e + TR_VALID_RANGE

\* Where the loop stops: it delivers all it takes, skips nothing that is not
\* TR_VALID_RANGE older than n, and leaves nothing that is (streamtransport.c:284-317).
LEMMA DrainedIs ==
  ASSUME NEW N, NEW e, NEW L, NEW n, Drainable(L, e, n, N),
         NEW taken, NEW out, taken \in Heads(L), out \subseteq taken,
         Drained(L, SeqOf(e), SeqOf(n), taken, out)
  PROVE  /\ taken = out
         /\ \E x \in e .. (N + 1) :
              /\ NextAfter(out, SeqOf(e)) = SeqOf(x)
              /\ x = e \/ x - 1 \in out
              /\ \A m \in out : m < x
              /\ \A m \in L \ taken : x < m /\ n < m + TR_VALID_RANGE
              /\ \A j \in e .. (x - 1) : j \in out \/ j + TR_VALID_RANGE <= n
<1> DEFINE expected(y) == NextAfter({m \in out : SPBefore(m, y)}, SeqOf(e))
<1>a. /\ N \in Nat /\ e \in 1 .. (N + 1) /\ L \in SUBSET (e .. N) /\ n \in 1 .. N
      /\ Ordered(L)
      /\ \A x \in L : /\ x < n + TR_VALID_RANGE
                      /\ x + TR_VALID_RANGE <= TR_MAX_SEQNO \/ x < e + TR_VALID_RANGE
      /\ n + TR_VALID_RANGE <= TR_MAX_SEQNO \/ n < e + TR_VALID_RANGE
  BY DEF Drainable
<1> USE <1>a
<1>1. taken \in SUBSET L /\ out \in SUBSET (e .. N) /\ \A m \in taken, y \in L \ taken : m < y
  BY DEF Heads, Ordered
<1>2. ASSUME NEW y \in L, NEW S \in SUBSET (e .. N), Ordered(S), \A m \in S : m < y
      PROVE  \E x \in e .. y : /\ NextAfter(S, SeqOf(e)) = SeqOf(x)
                               /\ x = e \/ x - 1 \in S
                               /\ \A m \in S : m < x
  <2>0. Between(S, e, N)
    BY <1>2 DEF Between
  <2>1. PICK x \in e .. (N + 1) : /\ NextAfter(S, SeqOf(e)) = SeqOf(x)
                                  /\ x = e \/ x - 1 \in S
                                  /\ \A m \in S : m < x
    BY <2>0, NextAfterIs
  <2>2. x <= y
    BY <1>2, <2>1
  <2> QED BY <2>1, <2>2
<1>3. ASSUME NEW y \in taken
      PROVE  \E x \in e .. y : /\ expected(y) = SeqOf(x)
                               /\ \A m \in out : m < y => m < x
                               /\ x = e \/ x - 1 \in {m \in out : m < y}
  <2> DEFINE S == {m \in out : SPBefore(m, y)}
  <2>1. S = {m \in out : m < y}
    BY <1>1 DEF Ordered
  <2>2. S \in SUBSET (e .. N) /\ Ordered(S) /\ (\A m \in S : m < y) /\ y \in L
    BY <1>1, <2>1 DEF Ordered
  <2> HIDE DEF S
  <2>3. \E x \in e .. y : /\ NextAfter(S, SeqOf(e)) = SeqOf(x)
                          /\ x = e \/ x - 1 \in S
                          /\ \A m \in S : m < x
    BY <1>2, <2>2
  <2> QED BY <2>1, <2>3 DEF S
<1>4. ASSUME NEW y \in L, NEW x \in e .. y
      PROVE  /\ Deliver(SeqOf(y), SeqOf(x), SeqOf(n)) <=> y = x \/ y + TR_VALID_RANGE <= n
             /\ ~Drop(SeqOf(y), SeqOf(x))
  <2>1. /\ y \in Nat \ {0} /\ x \in Nat \ {0} /\ n \in Nat \ {0} /\ x <= y
        /\ y + TR_VALID_RANGE <= TR_MAX_SEQNO \/ y < x + TR_VALID_RANGE
        /\ n + TR_VALID_RANGE <= TR_MAX_SEQNO \/ n < y + TR_VALID_RANGE
    BY SeqnoAssumption
  <2> QED BY <2>1, DeliverIs
<1>5. taken = out
  <2>1. ASSUME NEW y \in taken \ out PROVE FALSE
    <3>1. Drop(SeqOf(y), expected(y))
      BY DEF Drained
    <3> QED BY <1>1, <1>3, <1>4, <3>1
  <2> QED BY <2>1
<1>6. ASSUME NEW y \in out
      PROVE  \E x \in e .. y : /\ \A m \in out : m < y => m < x
                               /\ x = e \/ x - 1 \in {m \in out : m < y}
                               /\ y = x \/ y + TR_VALID_RANGE <= n
  <2>1. Deliver(SeqOf(y), expected(y), SeqOf(n))
    BY DEF Drained
  <2> QED BY <1>1, <1>3, <1>4, <2>1
<1>7. Between(out, e, N)
  BY <1>1 DEF Ordered, Between
<1>8. PICK x \in e .. (N + 1) : /\ NextAfter(out, SeqOf(e)) = SeqOf(x)
                                /\ x = e \/ x - 1 \in out
                                /\ \A m \in out : m < x
  BY <1>7, NextAfterIs
<1>9. \A m \in L \ taken : x < m /\ n < m + TR_VALID_RANGE
  <2>1. CASE L \ taken = {}
    BY <2>1
  <2>2. CASE L \ taken # {}
    <3>1. \A m \in L \ taken : m \in Nat
      BY SMTT(30)
    <3>2. PICK y \in L \ taken : \A m \in L \ taken : y <= m
      <4>1. L \ taken \in SUBSET Nat
        BY <3>1, Zenon
      <4> QED BY <2>2, <4>1, SmallestOf
    <3>3. x \in e .. y
      BY <1>1, <1>5, <1>8
    <3>4. \A m \in (L \ taken) \ {y} : SPBefore(y, m)
      <4>1. ASSUME NEW m \in (L \ taken) \ {y} PROVE y < m
        BY <3>2
      <4> QED BY <4>1 DEF Ordered
    <3>5. ~Deliver(SeqOf(y), NextAfter(out, SeqOf(e)), SeqOf(n))
      BY <3>4 DEF Drained
    <3>6. y # x /\ ~(y + TR_VALID_RANGE <= n)
      BY <1>4, <1>8, <3>3, <3>5
    <3> QED BY <3>1, <3>2, <3>3, <3>6, SeqnoAssumption
  <2> QED BY <2>1, <2>2
<1>10. ASSUME NEW j \in e .. (x - 1), j \notin out PROVE j + TR_VALID_RANGE <= n
  <2> DEFINE S == {m \in out : j < m}
  <2>1. x - 1 \in out /\ j < x - 1 /\ \A m \in out : m \in Nat
    <3>1. x # e /\ x - 1 \in out
      BY <1>8
    <3> QED BY <1>1, <1>10, <3>1
  <2>2. PICK y \in S : \A m \in S : y <= m
    <3>1. S \in SUBSET Nat /\ S # {}
      BY <2>1
    <3> QED BY <3>1, SmallestOf
  <2>3. PICK z \in e .. y : /\ z = e \/ z - 1 \in {m \in out : m < y}
                            /\ y = z \/ y + TR_VALID_RANGE <= n
    BY <1>6, <2>2
  <2>4. z <= j
    <3>1. CASE z - 1 \in {m \in out : m < y}
      <4>1. ~(j < z - 1)
        <5>1. z - 1 \in Nat /\ y \in Nat /\ z - 1 < y
          BY <2>1, <2>2, <3>1
        <5>2. j < z - 1 => y <= z - 1
          BY <2>2, <3>1
        <5> QED BY <5>1, <5>2
      <4> QED BY <1>1, <1>10, <3>1, <4>1
    <3> QED BY <2>3, <3>1
  <2> QED BY <1>1, <2>2, <2>3, <2>4, SeqnoAssumption
<1> QED BY <1>5, <1>8, <1>9, <1>10

-----------------------------------------------------------------------------
(* The invariant of one stream.  t is the newest packet that arrived, f the  *)
(* index of the FIN, D what was delivered.                                   *)

\* The packets L that wait in the list.
Waits(L, t, f, D) ==
  /\ L \subseteq 1 .. t
  /\ \A x \in L :
       /\ t < x + TR_VALID_RANGE \/ (f # 0 /\ t < x + TR_VALID_RANGE + Gap)
       /\ x + TR_VALID_RANGE <= TR_MAX_SEQNO \/ 1 .. (x - TR_VALID_RANGE + 1) \subseteq D

\* The number q is expected next, the one of packet e.
Expects(q, e, L, t, D) ==
  /\ q = SeqOf(e)
  /\ e = 1 \/ e - 1 \in D
  /\ \A d \in D : d < e
  /\ \A x \in L : e < x
  /\ \A j \in 1 .. (e - 1) : j \in D \/ j + TR_VALID_RANGE <= t

\* Up to t every packet was delivered, waits, is the FIN, is missing or is old.
Accounted(L, missing, t, f, D) ==
  \A i \in 1 .. t : \/ i \in D \cup L \cup {f}
                    \/ i < t /\ SeqOf(i) \in missing
                    \/ i + TR_VALID_RANGE <= t

\* The connection c of a stream.
StreamOK(c, t, f, D) ==
  /\ Waits(c.plist, t, f, D)
  /\ \E e \in 1 .. (t + 1) : Expects(c.next, e, c.plist, t, D)
  /\ Accounted(c.plist, c.missing, t, f, D)

\* None of PlistSorted, NothingForgotten and the promise is inductive: each needs
\* what is expected, how old the packets that wait can be, and what happened to
\* those before them.
OrderInv ==
  \A k \in Keys :
    /\ delivered[k] \subseteq 1 .. top[k]
    /\ IsOpen(k) => StreamOK(strcs[k], top[k], finAt[k], delivered[k])

\* The packets that wait are less than half a ring apart, hence in order.
LEMMA WaitsOrdered ==
  ASSUME NEW t \in Nat, NEW f, NEW D, NEW L, Waits(L, t, f, D)
  PROVE  /\ Ordered(L)
         /\ \A x, y \in L : x < y + TR_MAX_SEQNO \div 2
<1>1. ASSUME NEW x \in L, NEW y \in L
      PROVE  /\ x \in Nat \ {0} /\ y \in Nat \ {0}
             /\ x < y + TR_MAX_SEQNO \div 2 /\ y < x + TR_MAX_SEQNO \div 2
  BY SeqnoAssumption, MasterAssumption, LagAssumption DEF Waits
<1>2. ASSUME NEW x \in L, NEW y \in L PROVE SPBefore(x, y) <=> x < y
  BY <1>1, SPBeforeIsOlder
<1> QED BY <1>1, <1>2 DEF Ordered

\* The arrival of packet n at a stream that expects e.
Arrives(n, t, f, D) ==
  /\ n \in 1 .. MaxIndex /\ n <= t + Gap /\ t <= n + Late
  /\ f # 0 => f = t /\ n < f
  /\ 1 .. (n - Lag(n)) \subseteq D

\* A stream in which e, with the number q, is expected and L waits.
StreamAt(q, e, L, t, f, D) ==
  /\ t \in 0 .. (MaxIndex + 1) /\ D \in SUBSET (1 .. t) /\ e \in 1 .. (t + 1)
  /\ Waits(L, t, f, D) /\ Expects(q, e, L, t, D)

\* Its number is compared right, with the one expected and with those that wait.
Placed(q, e, L, D, n) ==
  /\ tr_seqno_cmp(SeqOf(n), q) = IF n = e THEN 0 ELSE IF e < n THEN 1 ELSE -1
  /\ n < e => n \in D
  /\ Ordered(L \cup {n})
  /\ \A x \in L : SeqOf(x) = SeqOf(n) => x = n
  /\ \A x \in L \cup {n} : /\ x < n + TR_VALID_RANGE
                           /\ \/ x + TR_VALID_RANGE <= TR_MAX_SEQNO
                              \/ x < e + TR_VALID_RANGE

\* That is so of whatever may arrive.
LEMMA ArrivalOrdered ==
  ASSUME NEW q, NEW e, NEW L, NEW t, NEW f, NEW D, StreamAt(q, e, L, t, f, D),
         NEW n, Arrives(n, t, f, D)
  PROVE  Placed(q, e, L, D, n)
<1>a. /\ t \in Nat /\ D \in SUBSET (1 .. t) /\ e \in 1 .. (t + 1) /\ n \in 1 .. MaxIndex
      /\ Waits(L, t, f, D) /\ Expects(q, e, L, t, D)
  BY MasterAssumption DEF StreamAt, Arrives
<1> USE <1>a
<1>1. n \in Nat \ {0} /\ e \in Nat \ {0} /\ Lag(n) \in Nat
      /\ (n + TR_VALID_RANGE <= TR_MAX_SEQNO \/ Lag(n) < TR_VALID_RANGE)
  BY LagAssumption, MasterAssumption
<1>2. n + TR_VALID_RANGE <= TR_MAX_SEQNO \/ n < e + TR_VALID_RANGE
  <2>1. CASE Lag(n) < TR_VALID_RANGE /\ n - Lag(n) >= 1
    <3>1. n - Lag(n) \in D
      BY <1>1, <2>1 DEF Arrives
    <3> QED BY <1>1, <2>1, <3>1, SeqnoAssumption DEF Expects
  <2> QED BY <1>1, <2>1, SeqnoAssumption
<1>3. ASSUME NEW x \in L
      PROVE  /\ x \in 1 .. t
             /\ x + TR_VALID_RANGE <= TR_MAX_SEQNO \/ x < e + TR_VALID_RANGE
  <2>1. x \in 1 .. t
    BY DEF Waits
  <2>2. CASE 1 .. (x - TR_VALID_RANGE + 1) \subseteq D
    <3>1. CASE x - TR_VALID_RANGE + 1 >= 1
      <4>1. x - TR_VALID_RANGE + 1 \in D
        BY <2>1, <2>2, <3>1, SeqnoAssumption
      <4> QED BY <1>1, <2>1, <4>1, SeqnoAssumption DEF Expects
    <3> QED BY <1>1, <2>1, <3>1, SeqnoAssumption
  <2> QED BY <2>1, <2>2 DEF Waits
<1>4. e < n + TR_VALID_RANGE
  BY <1>1, MasterAssumption, SeqnoAssumption DEF Arrives
<1>5. tr_seqno_cmp(SeqOf(n), q) = IF n = e THEN 0 ELSE IF e < n THEN 1 ELSE -1
  <2>1. Near(e, n)
    BY <1>1, <1>2, <1>4, SeqnoAssumption DEF Near
  <2> QED BY <1>1, <2>1, CmpOfNear DEF Expects
<1>6. n < e => n \in D
  <2> SUFFICES ASSUME n < e, n \notin D PROVE FALSE
    OBVIOUS
  <2>1. n \in 1 .. (e - 1)
    OBVIOUS
  <2>2. n + TR_VALID_RANGE <= t
    BY <2>1 DEF Expects
  <2> QED BY <1>1, <2>2, MasterAssumption, SeqnoAssumption DEF Arrives
<1>7. ASSUME NEW x \in L
      PROVE  /\ x < n + TR_MAX_SEQNO \div 2 /\ n < x + TR_MAX_SEQNO \div 2
             /\ x < n + TR_VALID_RANGE
  BY <1>1, <1>3, MasterAssumption, SeqnoAssumption, LagAssumption DEF Waits, Arrives
<1>8. ASSUME NEW x \in L
      PROVE  /\ SPBefore(x, n) <=> x < n
             /\ SPBefore(n, x) <=> n < x
             /\ SeqOf(x) = SeqOf(n) => x = n
  <2>1. /\ x \in Nat \ {0} /\ TR_MAX_SEQNO \div 2 \in Nat
        /\ TR_MAX_SEQNO \div 2 <= TR_MAX_SEQNO
    BY <1>3, SeqnoAssumption
  <2>2. (SPBefore(x, n) <=> x < n) /\ (SPBefore(n, x) <=> n < x)
    BY <1>1, <1>7, <2>1, SPBeforeIsOlder
  <2>3. SeqOf(x) = SeqOf(n) => x = n
    <3>1. x < n + TR_MAX_SEQNO /\ n < x + TR_MAX_SEQNO
      BY <1>1, <1>7, <2>1, SeqnoAssumption
    <3> QED BY <1>1, <2>1, <3>1, SeqOfInjective
  <2> QED BY <2>2, <2>3
<1>9. Ordered(L \cup {n})
  <2>1. Ordered(L)
    BY WaitsOrdered
  <2>2. SPBefore(n, n) <=> n < n
    <3>1. n < n + TR_MAX_SEQNO \div 2
      BY <1>1, SeqnoAssumption, LagAssumption, MasterAssumption
    <3> QED BY <1>1, <3>1, SPBeforeIsOlder
  <2> QED BY <1>8, <2>1, <2>2 DEF Ordered
<1> QED BY <1>1, <1>2, <1>3, <1>5, <1>6, <1>7, <1>8, <1>9, SeqnoAssumption DEF Placed

\* The newest packet, when n comes and t was the newest.
Newest(n, t) == IF n > t THEN n ELSE t

\* What the loop of receive_str_msg does with the list once n has come in: out
\* is delivered after what was delivered at once, the rest waits on.
Handled(c, t, f, D, n, q, taken, out, dlv) ==
  /\ taken = out
  /\ Waits(PList(c, n) \ taken, Newest(n, t), f, D \cup dlv)
  /\ \E x \in 1 .. (Newest(n, t) + 1) :
       Expects(NextAfter(out, q), x, PList(c, n) \ taken, Newest(n, t), D \cup dlv)
  /\ c.plist \cup {n} \subseteq (PList(c, n) \ taken) \cup D \cup dlv
  /\ \A x \in dlv : /\ x \in 1 .. Newest(n, t)
                    /\ \A m \in D : m < x
                    /\ \A m \in 1 .. x : m \in D \cup dlv \/ m + TR_VALID_RANGE <= Newest(n, t)

\* That loop: n is delivered at once if now, the packets of taken leave the
\* list, those of out are delivered, dlv in all.
Loop(c, n, now, q, taken, out, dlv) ==
  /\ now <=> tr_seqno_cmp(SeqOf(n), c.next) = 0
  /\ q = IF now THEN tr_seqno_next(c.next) ELSE c.next
  /\ taken \in Heads(PList(c, n)) /\ out \subseteq taken
  /\ Drained(PList(c, n), q, SeqOf(n), taken, out)
  /\ dlv = IF now THEN out \cup {n} ELSE out

\* The loop on the arrival of packet n (streamtransport.c:245-317).
LEMMA ArrivalOK ==
  ASSUME NEW c, NEW t, NEW f, NEW D, NEW e, StreamAt(c.next, e, c.plist, t, f, D),
         NEW n, Arrives(n, t, f, D),
         NEW now \in BOOLEAN, NEW q, NEW taken, NEW out, NEW dlv,
         Loop(c, n, now, q, taken, out, dlv)
  PROVE  Handled(c, t, f, D, n, q, taken, out, dlv) /\ (now => n \notin out)
<1> DEFINE N == Newest(n, t)
           L == PList(c, n)
           e1 == IF now THEN e + 1 ELSE e
<1>2. /\ tr_seqno_cmp(SeqOf(n), c.next) = IF n = e THEN 0 ELSE IF e < n THEN 1 ELSE -1
      /\ n < e => n \in D
      /\ Ordered(c.plist \cup {n})
      /\ \A x \in c.plist : SeqOf(x) = SeqOf(n) => x = n
      /\ \A x \in c.plist \cup {n} : /\ x < n + TR_VALID_RANGE
                                     /\ \/ x + TR_VALID_RANGE <= TR_MAX_SEQNO
                                        \/ x < e + TR_VALID_RANGE
  <2>1. Placed(c.next, e, c.plist, D, n)
    BY ArrivalOrdered
  <2> QED BY <2>1 DEF Placed
<1>a. /\ t \in Nat /\ D \in SUBSET (1 .. t) /\ e \in 1 .. (t + 1) /\ n \in 1 .. MaxIndex
      /\ Waits(c.plist, t, f, D) /\ Expects(c.next, e, c.plist, t, D)
  BY MasterAssumption DEF StreamAt, Arrives
<1>b. /\ now <=> tr_seqno_cmp(SeqOf(n), c.next) = 0
      /\ q = IF now THEN tr_seqno_next(c.next) ELSE c.next
      /\ taken \in Heads(L) /\ out \subseteq taken
      /\ Drained(L, q, SeqOf(n), taken, out)
      /\ dlv = IF now THEN out \cup {n} ELSE out
  BY DEF Loop
<1> USE <1>a, <1>b
<1>1. /\ n \in Nat \ {0} /\ t \in Nat /\ e \in Nat \ {0}
      /\ N \in Nat /\ t <= N /\ n <= N /\ (N = n \/ N = t) /\ (n <= t => N = t)
  BY MasterAssumption DEF Newest
<1>3. now <=> n = e
  BY <1>2
<1>4. /\ e < n => L = c.plist \cup {n}
      /\ ~(e < n) => L = c.plist
  BY <1>2 DEF PList
<1>5. q = SeqOf(e1) /\ e1 \in 1 .. (N + 1) /\ (now => e1 = e + 1) /\ (~now => e1 = e)
  <2>1. c.next = SeqOf(e)
    BY DEF Expects
  <2> QED BY <1>1, <1>3, <2>1, NextSeq
<1>6. L \in SUBSET (e1 .. N)
  <2>1. ASSUME NEW x \in L PROVE x \in e1 .. N
    <3>1. CASE x \in c.plist
      BY <1>1, <1>3, <1>5, <3>1 DEF Waits, Expects
    <3>2. CASE e < n /\ x = n
      BY <1>1, <1>3, <1>5, <3>2
    <3> QED BY <1>4, <3>1, <3>2
  <2> QED BY <2>1
<1>7. Ordered(L)
  BY <1>2, <1>4 DEF Ordered
<1>8. /\ \A x \in L : /\ x < n + TR_VALID_RANGE
                      /\ x + TR_VALID_RANGE <= TR_MAX_SEQNO \/ x < e1 + TR_VALID_RANGE
      /\ n + TR_VALID_RANGE <= TR_MAX_SEQNO \/ n < e1 + TR_VALID_RANGE
  <2>1. \A x \in c.plist \cup {n} : /\ x < n + TR_VALID_RANGE
                                    /\ x + TR_VALID_RANGE <= TR_MAX_SEQNO \/ x < e1 + TR_VALID_RANGE
    <3>1. ASSUME NEW x \in c.plist \cup {n}
          PROVE  x \in Nat /\ (x < e + TR_VALID_RANGE => x < e1 + TR_VALID_RANGE)
      <4>1. x \in Nat
        BY <1>1 DEF Waits
      <4> QED BY <1>1, <1>5, <4>1, SeqnoAssumption
    <3> QED BY <1>2, <3>1
  <2> QED BY <1>4, <2>1
<1>9. n \in 1 .. N /\ Drained(L, SeqOf(e1), SeqOf(n), taken, out)
  BY <1>1, <1>5
<1> HIDE DEF N, L, e1
<1>10. /\ taken = out
       /\ \E x \in e1 .. (N + 1) :
            /\ NextAfter(out, SeqOf(e1)) = SeqOf(x)
            /\ x = e1 \/ x - 1 \in out
            /\ \A m \in out : m < x
            /\ \A m \in L \ taken : x < m /\ n < m + TR_VALID_RANGE
            /\ \A j \in e1 .. (x - 1) : j \in out \/ j + TR_VALID_RANGE <= n
  <2>1. taken \in Heads(L) /\ out \subseteq taken
    BY DEF L
  <2>2. Drainable(L, e1, n, N)
    BY <1>1, <1>5, <1>6, <1>7, <1>8, <1>9 DEF Drainable
  <2> QED BY <1>9, <2>1, <2>2, DrainedIs
<1>11. PICK x \in e1 .. (N + 1) :
         /\ NextAfter(out, SeqOf(e1)) = SeqOf(x)
         /\ x = e1 \/ x - 1 \in out
         /\ \A m \in out : m < x
         /\ \A m \in L \ taken : x < m /\ n < m + TR_VALID_RANGE
         /\ \A j \in e1 .. (x - 1) : j \in out \/ j + TR_VALID_RANGE <= n
  BY <1>10
<1>12. out \in SUBSET L
  BY DEF Heads, L
<1>13. now => n \notin out
  BY <1>1, <1>3, <1>5, <1>6, <1>12
<1>14. c.plist \cup {n} \subseteq (L \ taken) \cup D \cup dlv
  <2>1. n \in L \cup D \cup dlv
    BY <1>1, <1>2, <1>3, <1>4
  <2> QED BY <1>4, <1>10, <2>1
<1>15. Waits(L \ taken, N, f, D \cup dlv)
  <2>1. ASSUME NEW y \in L \ taken
        PROVE  /\ N < y + TR_VALID_RANGE \/ (f # 0 /\ N < y + TR_VALID_RANGE + Gap)
               /\ \/ y + TR_VALID_RANGE <= TR_MAX_SEQNO
                  \/ 1 .. (y - TR_VALID_RANGE + 1) \subseteq D \cup dlv
    <3>1. CASE y \in c.plist
      BY <1>1, <1>11, <3>1 DEF Waits
    <3>2. CASE y = n
      <4>1. N < n + TR_VALID_RANGE
        BY <1>1, MasterAssumption, SeqnoAssumption DEF Arrives
      <4>2. CASE Lag(n) < TR_VALID_RANGE
        <5>1. Lag(n) \in Nat
          BY LagAssumption
        <5>2. 1 .. (n - TR_VALID_RANGE + 1) \subseteq 1 .. (n - Lag(n))
          BY <1>1, <4>2, <5>1, SeqnoAssumption
        <5> QED BY <3>2, <4>1, <5>2 DEF Arrives
      <4> QED BY <3>2, <4>1, <4>2, LagAssumption
    <3> QED BY <1>4, <3>1, <3>2
  <2>2. L \ taken \subseteq 1 .. N
    <3>1. ASSUME NEW y \in L PROVE y \in 1 .. N
      BY <1>1, <1>5, <1>6
    <3> QED BY <3>1
  <2> QED BY <2>1, <2>2 DEF Waits
<1>16. ASSUME NEW j \in 1 .. (x - 1)
       PROVE  j \in D \cup dlv \/ j + TR_VALID_RANGE <= N
  <2>1. CASE j < e
    <3>1. j \in D \/ j + TR_VALID_RANGE <= t
      BY <1>1, <2>1 DEF Expects
    <3> QED BY <1>1, <3>1, SeqnoAssumption
  <2>2. CASE now /\ j = e
    BY <1>3, <2>2
  <2>3. CASE e1 <= j
    <3>1. j \in out \/ j + TR_VALID_RANGE <= n
      BY <1>1, <1>5, <1>11, <2>3
    <3> QED BY <1>1, <3>1, SeqnoAssumption
  <2> QED BY <1>1, <1>5, <2>1, <2>2, <2>3
<1>17. ASSUME NEW d \in D PROVE d < e /\ d < x
  BY <1>1, <1>5, <1>11 DEF Expects
<1>18. ASSUME NEW d \in dlv PROVE d < x /\ e <= d /\ d \in 1 .. N
  <2>1. CASE d \in out
    BY <1>1, <1>5, <1>6, <1>11, <1>12, <2>1
  <2>2. CASE now /\ d = n
    BY <1>1, <1>3, <1>5, <1>11, <2>2
  <2> QED BY <2>1, <2>2
<1>19. x \in 1 .. (N + 1) /\ Expects(NextAfter(out, q), x, L \ taken, N, D \cup dlv)
  <2>1. x \in 1 .. (N + 1)
    BY <1>1, <1>5, <1>11
  <2>2. x = 1 \/ x - 1 \in D \cup dlv
    BY <1>1, <1>3, <1>5, <1>11 DEF Expects
  <2> QED BY <1>5, <1>11, <1>16, <1>17, <1>18, <2>1, <2>2 DEF Expects
<1>20. ASSUME NEW y \in dlv
       PROVE  /\ y \in 1 .. N
              /\ \A m \in D : m < y
              /\ \A m \in 1 .. y : m \in D \cup dlv \/ m + TR_VALID_RANGE <= N
  <2>1. \A m \in D : m < y
    BY <1>1, <1>17, <1>18
  <2>2. ASSUME NEW m \in 1 .. y PROVE m \in D \cup dlv \/ m + TR_VALID_RANGE <= N
    BY <1>1, <1>5, <1>11, <1>16, <1>18
  <2> QED BY <1>18, <2>1, <2>2
<1> QED BY <1>10, <1>13, <1>14, <1>15, <1>19, <1>20 DEF L, N, Handled

-----------------------------------------------------------------------------
(* The missing list.                                                        *)

\* detectMissingPacket finds every packet between the newest and the one that
\* has come (streamtransport.c:212-239).
LEMMA NewlyMissedAll ==
  ASSUME NEW c, NEW t \in 0 .. (MaxIndex + 1), NEW n \in Index, c.last = LastSeq(t),
         n < t + TR_VALID_RANGE, NEW i \in (t + 1) .. (n - 1)
  PROVE  SeqOf(i) \in NewlyMissed(c, SeqOf(n))
<1> DEFINE s == SeqOf(n)
           last == LastSeq(t)
           j == i - t
<1>1. /\ t \in Nat /\ n \in Nat \ {0} /\ i \in Nat \ {0} /\ t < i /\ i < n
      /\ t < n + TR_VALID_RANGE /\ j \in 1 .. (TR_VALID_RANGE - 1)
      /\ n - t \in 0 .. (TR_VALID_RANGE - 1)
  BY MasterAssumption, SeqnoAssumption DEF Index
<1>2. tr_seqno_cmp(s, last) > 0
  BY <1>1, Newer
<1>3. ASSUME NEW k \in 1 .. (n - t)
      PROVE  StepsAfter(last, k) = SeqOf(t + k)
  <2>1. CASE t = 0
    <3>1. last = 0 /\ k \in 1 .. TR_MAX_SEQNO
      BY <1>1, <2>1, SeqnoAssumption DEF LastSeq
    <3>2. SeqOf(k) = k
      BY <3>1, SeqOfSmall
    <3>3. t + k = k /\ StepsAfter(last, k) = k
      BY <2>1, <3>1, SeqnoAssumption DEF StepsAfter
    <3> QED BY <3>2, <3>3
  <2>2. CASE t # 0
    <3>1. last = SeqOf(t) /\ k \in 0 .. TR_VALID_RANGE /\ t \in Nat \ {0}
      BY <1>1, <2>2, SeqnoAssumption DEF LastSeq
    <3> QED BY <3>1, SeqOfAhead DEF StepsAfter, Ahead
  <2> QED BY <2>1, <2>2
<1>4. tr_seqno_diff(s, last) = n - t
  <2>1. CASE t = 0
    <3>1. last = 0 /\ n \in 1 .. TR_MAX_SEQNO
      BY <1>1, <2>1, SeqnoAssumption DEF LastSeq
    <3>2. s = n
      BY <3>1, SeqOfSmall
    <3> QED BY <1>1, <2>1, <3>1, <3>2, SeqnoAssumption DEF tr_seqno_diff, U16Wrap
  <2>2. CASE t # 0
    <3>1. last = SeqOf(t) /\ t \in Nat \ {0} /\ n - t \in 0 .. TR_VALID_RANGE /\ t + (n - t) = n
      BY <1>1, <2>2, SeqnoAssumption DEF LastSeq
    <3>2. s = Ahead(last, n - t) /\ last \in Seqno
      BY <3>1, SeqOfAhead
    <3> QED BY <1>1, <3>2, DiffOfLead
  <2> QED BY <2>1, <2>2
<1>5. ASSUME NEW k \in 1 .. j
      PROVE  tr_seqno_cmp(s, StepsAfter(last, k)) > 0
  <2>1. /\ t + k \in Nat \ {0} /\ t + k < n /\ n < t + k + TR_VALID_RANGE
        /\ t + k < n + TR_VALID_RANGE /\ k \in 1 .. (n - t)
    BY <1>1, SeqnoAssumption
  <2>2. tr_seqno_cmp(s, SeqOf(t + k)) = 1
    BY <1>1, <2>1, CmpOfPackets
  <2> QED BY <1>3, <2>1, <2>2
<1>6. j \in 1 .. tr_seqno_diff(s, last) /\ SeqOf(i) = StepsAfter(last, j)
  BY <1>1, <1>3, <1>4
<1> QED BY <1>2, <1>5, <1>6 DEF NewlyMissed, MissedBefore

\* A packet not yet TR_VALID_RANGE old is not given up (streamtransport.c:183-188).
LEMMA NotVoid ==
  ASSUME NEW t \in Nat, NEW i \in 1 .. (t - 1), t < i + TR_VALID_RANGE
  PROVE  tr_seqno_cmp(LastSeq(t), tr_seqno_add(SeqOf(i), TR_VALID_RANGE)) < 0
<1>1. /\ TR_VALID_RANGE \in 0 .. TR_VALID_RANGE /\ i \in Nat \ {0} /\ t \in Nat \ {0}
      /\ i + TR_VALID_RANGE \in Nat \ {0} /\ LastSeq(t) = SeqOf(t)
      /\ i + TR_VALID_RANGE < t + TR_VALID_RANGE /\ t < i + TR_VALID_RANGE + TR_VALID_RANGE
  BY SeqnoAssumption DEF LastSeq
<1>2. tr_seqno_add(SeqOf(i), TR_VALID_RANGE) = SeqOf(i + TR_VALID_RANGE)
  <2>1. SeqOf(i) \in Seqno /\ SeqOf(i + TR_VALID_RANGE) = Ahead(SeqOf(i), TR_VALID_RANGE)
    BY <1>1, SeqOfAhead
  <2> QED BY <1>1, <2>1, AddIsAhead
<1>3. tr_seqno_cmp(SeqOf(t), SeqOf(i + TR_VALID_RANGE)) = -1
  BY <1>1, CmpOfPackets
<1> QED BY <1>1, <1>2, <1>3

\* Nothing leaves the list d.missing of the next connection record but what is
\* TR_VALID_RANGE older than the newest packet t.
OnlyVoid(missing, d, t) ==
  \A m \in missing \ d.missing : tr_seqno_cmp(LastSeq(t), tr_seqno_add(m, TR_VALID_RANGE)) >= 0

\* What happens on connection c with no new packet.
LEMMA KeptOK ==
  ASSUME NEW c, NEW d, NEW t \in Nat, NEW f, NEW D, StreamOK(c, t, f, D),
         d.plist = c.plist, d.next = c.next, OnlyVoid(c.missing, d, t)
  PROVE  StreamOK(d, t, f, D)
<1>1. ASSUME NEW i \in 1 .. t, i < t, SeqOf(i) \in c.missing, t < i + TR_VALID_RANGE
      PROVE  SeqOf(i) \in d.missing
  <2>1. i \in 1 .. (t - 1)
    BY <1>1
  <2>2. tr_seqno_cmp(LastSeq(t), tr_seqno_add(SeqOf(i), TR_VALID_RANGE)) < 0
    BY <1>1, <2>1, NotVoid
  <2>3. ~(tr_seqno_cmp(LastSeq(t), tr_seqno_add(SeqOf(i), TR_VALID_RANGE)) >= 0)
    BY <2>2 DEF tr_seqno_cmp
  <2> QED BY <1>1, <2>3 DEF OnlyVoid
<1>2. Accounted(d.plist, d.missing, t, f, D)
  <2>1. Accounted(c.plist, c.missing, t, f, D)
    BY DEF StreamOK
  <2> QED BY <1>1, <2>1, SeqnoAssumption DEF Accounted
<1> QED BY <1>2 DEF StreamOK

\* The fields the helpers leave alone.
LEMMA FieldsOK ==
  ASSUME NEW c \in Conn
  PROVE  /\ \A state \in States : /\ Restarted(c, state).plist = c.plist
                                  /\ Restarted(c, state).next = c.next
                                  /\ Restarted(c, state).missing = c.missing
         /\ AfterNack(c).plist = c.plist /\ AfterNack(c).next = c.next
         /\ \A t : c.last = LastSeq(t) => OnlyVoid(c.missing, AfterNack(c), t)
<1>1. AfterNack(c).missing = c.missing \ Scanned(c, Void(c))
  BY DEF AfterNack, Conn
<1>2. Scanned(c, Void(c)) \subseteq Void(c)
  BY DEF Scanned
<1>3. \A t : c.last = LastSeq(t) => OnlyVoid(c.missing, AfterNack(c), t)
  BY <1>1, <1>2 DEF OnlyVoid, Void
<1> QED BY <1>3 DEF Restarted, AfterNack, Conn

-----------------------------------------------------------------------------
(* An arrival.                                                              *)

\* Nothing leaves the missing list, or is left out of it, when packet n comes
\* and N is then the newest, but n itself and what is TR_VALID_RANGE old.
KeepsAsking(c, d, n, N) ==
  \A m \in c.missing \cup NewlyMissed(c, SeqOf(n)) :
    \/ m \in d.missing \/ m = SeqOf(n)
    \/ tr_seqno_cmp(LastSeq(N), tr_seqno_add(m, TR_VALID_RANGE)) >= 0

\* Of the packets up to N, those of S are among those of T.
Among(S, T, N) == \A i \in 1 .. N : i \in S => i \in T

\* The arrival of n, a packet or the FIN, keeps everything accounted for.
LEMMA AccountedNext ==
  ASSUME NEW c, NEW t \in 0 .. (MaxIndex + 1), NEW f, NEW D, Accounted(c.plist, c.missing, t, f, D),
         NEW n \in Index, c.last = LastSeq(t), n < t + TR_VALID_RANGE, t < n + TR_VALID_RANGE,
         NEW d, NEW g, NEW E, KeepsAsking(c, d, n, Newest(n, t)),
         Among(D \cup c.plist \cup {f, n}, E \cup d.plist \cup {g}, Newest(n, t))
  PROVE  Accounted(d.plist, d.missing, Newest(n, t), g, E)
<1> DEFINE N == Newest(n, t)
<1>1. /\ t \in Nat /\ n \in Nat \ {0} /\ N \in Nat /\ t <= N /\ n <= N /\ (N = n \/ N = t)
      /\ \A i \in 1 .. N : i \in Nat \ {0}
  BY MasterAssumption DEF Newest, Index
<1>2. ASSUME NEW i \in 1 .. N, i < N, N < i + TR_VALID_RANGE, i # n,
             SeqOf(i) \in c.missing \cup NewlyMissed(c, SeqOf(n))
      PROVE  SeqOf(i) \in d.missing
  <2>1. SeqOf(i) # SeqOf(n)
    <3>1. i < n + TR_MAX_SEQNO /\ n < i + TR_MAX_SEQNO
      BY <1>1, <1>2, SeqnoAssumption
    <3> QED BY <1>1, <1>2, <3>1, SeqOfInjective
  <2>2. ~(tr_seqno_cmp(LastSeq(N), tr_seqno_add(SeqOf(i), TR_VALID_RANGE)) >= 0)
    <3>1. i \in 1 .. (N - 1)
      BY <1>1, <1>2
    <3>2. tr_seqno_cmp(LastSeq(N), tr_seqno_add(SeqOf(i), TR_VALID_RANGE)) < 0
      BY <1>1, <1>2, <3>1, NotVoid
    <3> QED BY <3>2 DEF tr_seqno_cmp
  <2> QED BY <1>2, <2>1, <2>2 DEF KeepsAsking
<1>3. ASSUME NEW i \in 1 .. N
      PROVE  \/ i \in E \cup d.plist \cup {g}
             \/ i < N /\ SeqOf(i) \in d.missing
             \/ i + TR_VALID_RANGE <= N
  <2>1. CASE i <= t
    <3>1. \/ i \in D \cup c.plist \cup {f}
          \/ i < t /\ SeqOf(i) \in c.missing
          \/ i + TR_VALID_RANGE <= t
      BY <1>1, <2>1 DEF Accounted
    <3>2. CASE i \in D \cup c.plist \cup {f, n}
      BY <3>2 DEF Among
    <3>3. CASE i < t /\ SeqOf(i) \in c.missing /\ i # n
      BY <1>1, <1>2, <3>3, SeqnoAssumption
    <3> QED BY <1>1, <3>1, <3>2, <3>3, SeqnoAssumption
  <2>2. CASE i > t
    <3>1. N = n /\ i <= n
      BY <1>1, <2>2
    <3>2. CASE i < n
      <4>1. i \in (t + 1) .. (n - 1)
        BY <1>1, <2>2, <3>2
      <4>2. SeqOf(i) \in NewlyMissed(c, SeqOf(n))
        BY <4>1, NewlyMissedAll
      <4>3. n < i + TR_VALID_RANGE
        BY <1>1, <2>2, SeqnoAssumption
      <4> QED BY <1>1, <1>2, <3>1, <3>2, <4>2, <4>3
    <3> QED BY <1>1, <3>1, <3>2 DEF Among
  <2> QED BY <1>1, <2>1, <2>2
<1> QED BY <1>3 DEF Accounted

\* A step that leaves all streams but k, whose connection becomes d, as they were.
LEMMA OneStream ==
  ASSUME ChaseInv, OrderInv, NEW k \in Keys, NEW d, strcs' = [strcs EXCEPT ![k] = d],
         delivered'[k] \subseteq 1 .. top'[k],
         d = NoConn \/ StreamOK(d, top'[k], finAt'[k], delivered'[k]),
         \A j \in Keys \ {k} : /\ top'[j] = top[j] /\ finAt'[j] = finAt[j]
                               /\ delivered'[j] = delivered[j]
  PROVE  OrderInv'
<1>1. strcs'[k] = d /\ \A j \in Keys \ {k} : strcs'[j] = strcs[j]
  BY DEF ChaseInv, TypeOK
<1>2. ASSUME NEW j \in Keys
      PROVE  /\ delivered'[j] \subseteq 1 .. top'[j]
             /\ IsOpen(j)' => StreamOK(strcs'[j], top'[j], finAt'[j], delivered'[j])
  <2>1. CASE j = k
    BY <1>1, <2>1 DEF IsOpen
  <2>2. CASE j # k
    BY <1>1, <2>2 DEF OrderInv, IsOpen
  <2> QED BY <2>1, <2>2
<1> QED BY <1>2 DEF OrderInv

\* What the state says of an open connection.
LEMMA OpenOK ==
  ASSUME ChaseInv, OrderInv, NEW k \in Keys, IsOpen(k)
  PROVE  /\ strcs[k] \in Conn /\ strcs[k].last = LastSeq(top[k])
         /\ top[k] \in 0 .. (MaxIndex + 1) /\ top[k] \in Nat
         /\ finAt[k] # 0 => finAt[k] = top[k]
         /\ delivered[k] \subseteq 1 .. top[k]
         /\ StreamOK(strcs[k], top[k], finAt[k], delivered[k])
BY MasterAssumption DEF ChaseInv, OrderInv, ConnOK, TypeOK

-----------------------------------------------------------------------------
(* The steps.                                                               *)

\* SYN (streamtransport.c:357-372).
LEMMA SYNOrder ==
  ASSUME ChaseInv, OrderInv, NEW k \in Keys, ReceiveSYN(k)
  PROVE  OrderInv'
<1>1. UNCHANGED <<top, finAt, delivered>>
  BY DEF ReceiveSYN, netVars, appVars
<1>2. delivered[k] \subseteq 1 .. top[k]
  BY DEF OrderInv
<1>3. CASE IsOpen(k)
  <2> DEFINE d == [strcs[k] EXCEPT !.alarm = "armed"]
  <2>1. strcs' = [strcs EXCEPT ![k] = d]
    BY <1>3 DEF ReceiveSYN, Update
  <2>2. StreamOK(d, top[k], finAt[k], delivered[k])
    BY <1>3, OpenOK DEF Conn, StreamOK
  <2> HIDE DEF d
  <2> QED BY <1>1, <1>2, <2>1, <2>2, OneStream
<1>4. CASE ~IsOpen(k)
  <2>1. strcs' = [strcs EXCEPT ![k] = NewConn] /\ top[k] = 0
    BY <1>4 DEF ReceiveSYN
  <2>2. delivered[k] = {}
    BY <1>2, <2>1
  <2>3. StreamOK(NewConn, 0, finAt[k], {})
    <3>1. 1 \in 1 .. TR_MAX_SEQNO
      BY SeqnoAssumption
    <3>2. Expects(1, 1, {}, 0, {})
      BY <3>1, SeqOfSmall DEF Expects
    <3>3. Waits({}, 0, finAt[k], {}) /\ Accounted({}, {}, 0, finAt[k], {})
      BY DEF Waits, Accounted
    <3> QED BY <3>2, <3>3 DEF StreamOK, NewConn
  <2> QED BY <1>1, <1>2, <2>1, <2>2, <2>3, OneStream
<1> QED BY <1>3, <1>4

\* The missing list of a connection that has noticed s and then sent its NACK.
LEMMA NoticedKeeps ==
  ASSUME NEW c \in Conn, NEW n, NEW N, Noticed(c, SeqOf(n)) \in Conn,
         Noticed(c, SeqOf(n)).last = LastSeq(N)
  PROVE  /\ Noticed(c, SeqOf(n)).plist = c.plist /\ Noticed(c, SeqOf(n)).next = c.next
         /\ Noticed(c, SeqOf(n)).missing = c.missing \cup NewlyMissed(c, SeqOf(n))
BY DEF Noticed, Conn

\* FIN (streamtransport.c:374-408).
LEMMA FINOrder ==
  ASSUME ChaseInv, OrderInv, NEW k \in Keys, NEW n \in Index, ReceiveFIN(k, n)
  PROVE  OrderInv'
<1> DEFINE old == strcs[k]
           t == top[k]
           f == finAt[k]
           D == delivered[k]
           c == Noticed(old, SeqOf(n))
           cleared == [c EXCEPT !.timeoutCount = 0]
<1>1. /\ IsOpen(k) /\ old \in Conn /\ old.last = LastSeq(t) /\ t \in 0 .. (MaxIndex + 1) /\ t \in Nat
      /\ f # 0 => f = t
      /\ D \subseteq 1 .. t /\ StreamOK(old, t, f, D)
  BY OpenOK DEF ReceiveFIN
<1>2. /\ IF f # 0 THEN n = f ELSE n > t /\ n <= t + Gap
      /\ top' = [top EXCEPT ![k] = n] /\ finAt' = [finAt EXCEPT ![k] = n] /\ delivered' = delivered
      /\ \/ Update(k, Restarted(c, "FINISHED"), {FinAck(k, c.last)})
         \/ Update(k, Restarted(AfterNack(cleared), "FIN_NACK_WAIT"), NackOf(k, c))
  BY DEF ReceiveFIN
<1>3. /\ n \in Nat \ {0} /\ n >= t /\ n <= t + Gap /\ (f # 0 => n = t)
      /\ n < t + TR_VALID_RANGE /\ t < n + TR_VALID_RANGE /\ Newest(n, t) = n
  BY <1>1, <1>2, MasterAssumption, SeqnoAssumption DEF Index, Newest
<1>4. c \in Conn /\ c.last = LastSeq(n)
  BY <1>1, <1>3, NoticedOK DEF Newest
<1>5. /\ c.plist = old.plist /\ c.next = old.next
      /\ c.missing = old.missing \cup NewlyMissed(old, SeqOf(n))
  BY <1>1, <1>4, NoticedKeeps
<1>6. PICK d : /\ strcs' = [strcs EXCEPT ![k] = d]
               /\ d.plist = c.plist /\ d.next = c.next /\ OnlyVoid(c.missing, d, n)
  <2>1. CASE Update(k, Restarted(c, "FINISHED"), {FinAck(k, c.last)})
    <3>1. /\ Restarted(c, "FINISHED").plist = c.plist /\ Restarted(c, "FINISHED").next = c.next
          /\ Restarted(c, "FINISHED").missing = c.missing
      BY <1>4, FieldsOK DEF States
    <3>2. OnlyVoid(c.missing, Restarted(c, "FINISHED"), n)
      BY <3>1 DEF OnlyVoid
    <3> QED BY <2>1, <3>1, <3>2 DEF Update
  <2>2. CASE Update(k, Restarted(AfterNack(cleared), "FIN_NACK_WAIT"), NackOf(k, c))
    <3>1. /\ cleared \in Conn /\ cleared.last = c.last /\ cleared.plist = c.plist
          /\ cleared.next = c.next /\ cleared.missing = c.missing
      BY <1>4, MasterAssumption DEF Conn
    <3> HIDE DEF c, cleared
    <3> DEFINE a == AfterNack(cleared)
    <3>2. a \in Conn /\ a.plist = c.plist /\ a.next = c.next /\ OnlyVoid(c.missing, a, n)
      BY <1>4, <3>1, AfterNackOK, FieldsOK
    <3> HIDE DEF a
    <3>3. /\ Restarted(a, "FIN_NACK_WAIT").plist = a.plist
          /\ Restarted(a, "FIN_NACK_WAIT").next = a.next
          /\ Restarted(a, "FIN_NACK_WAIT").missing = a.missing
      BY <3>2, FieldsOK DEF States
    <3>4. OnlyVoid(c.missing, Restarted(a, "FIN_NACK_WAIT"), n)
      BY <3>2, <3>3 DEF OnlyVoid
    <3> QED BY <2>2, <3>2, <3>3, <3>4 DEF Update, a
  <2> QED BY <1>2, <2>1, <2>2
<1> HIDE DEF c, cleared
<1>7. Accounted(d.plist, d.missing, n, n, D)
  <2>1. Accounted(old.plist, old.missing, t, f, D)
    BY <1>1 DEF StreamOK
  <2>2. KeepsAsking(old, d, n, Newest(n, t))
    BY <1>3, <1>5, <1>6 DEF OnlyVoid, KeepsAsking
  <2>3. Among(D \cup old.plist \cup {f, n}, D \cup d.plist \cup {n}, Newest(n, t))
    BY <1>1, <1>3, <1>5, <1>6 DEF Among
  <2>4. /\ t \in 0 .. (MaxIndex + 1) /\ old.last = LastSeq(t)
        /\ n < t + TR_VALID_RANGE /\ t < n + TR_VALID_RANGE
    BY <1>1, <1>3
  <2> HIDE DEF old, t, f, D
  <2>5. Accounted(d.plist, d.missing, Newest(n, t), n, D)
    BY <2>1, <2>2, <2>3, <2>4, AccountedNext
  <2> QED BY <1>3, <2>5
<1>8. Waits(d.plist, n, n, D)
  <2>1. Waits(old.plist, t, f, D)
    BY <1>1 DEF StreamOK
  <2>2. d.plist = old.plist
    BY <1>5, <1>6
  <2>3. ASSUME NEW x \in old.plist
        PROVE  /\ x \in 1 .. n
               /\ n < x + TR_VALID_RANGE + Gap
               /\ x + TR_VALID_RANGE <= TR_MAX_SEQNO \/ 1 .. (x - TR_VALID_RANGE + 1) \subseteq D
    BY <1>1, <1>3, <2>1, MasterAssumption, SeqnoAssumption DEF Waits
  <2> QED BY <1>3, <2>2, <2>3 DEF Waits
<1>9. \E e \in 1 .. (n + 1) : Expects(d.next, e, d.plist, n, D)
  <2>1. PICK e \in 1 .. (t + 1) : Expects(old.next, e, old.plist, t, D)
    BY <1>1 DEF StreamOK
  <2>2. e \in 1 .. (n + 1)
    BY <1>1, <1>3, <2>1
  <2>3. \A j \in 1 .. (e - 1) : j + TR_VALID_RANGE <= t => j + TR_VALID_RANGE <= n
    BY <1>1, <1>3, <2>2, SeqnoAssumption
  <2> QED BY <1>5, <1>6, <2>1, <2>2, <2>3 DEF Expects
<1>10. StreamOK(d, n, n, D)
  BY <1>7, <1>8, <1>9 DEF StreamOK
<1>11. /\ top'[k] = n /\ finAt'[k] = n
       /\ \A j \in Keys \ {k} : top'[j] = top[j] /\ finAt'[j] = finAt[j]
  BY <1>2 DEF ChaseInv, TypeOK
<1>12. D \subseteq 1 .. n
  BY <1>1, <1>3
<1> QED BY <1>2, <1>6, <1>10, <1>11, <1>12, OneStream

\* Packet n comes on stream k: the loop takes the packets of taken, delivers
\* those of out, after n itself if now, and leaves the connection as d.
DataDone(k, n, now, taken, out, d) ==
  \E q, dlv :
    /\ Loop(strcs[k], n, now, q, taken, out, dlv)
    /\ strcs' = [strcs EXCEPT ![k] = d]
    /\ d.plist = PList(strcs[k], n) \ taken /\ d.next = NextAfter(out, q)
    /\ KeepsAsking(strcs[k], d, n, Newest(n, top[k]))
    /\ delivered' = [delivered EXCEPT ![k] = @ \cup dlv]
    /\ calls' = [calls EXCEPT ![k] = @ + Cardinality(out) + (IF now THEN 1 ELSE 0)]
    /\ top' = [top EXCEPT ![k] = Newest(n, top[k])] /\ finAt' = finAt

\* DATA and DATA_RETX (streamtransport.c:409-479), whichever way it ends.
LEMMA DataEffect ==
  ASSUME ChaseInv, NEW k \in Keys, NEW n \in 1 .. MaxIndex, NEW retx \in BOOLEAN,
         ReceiveData(k, n, retx)
  PROVE  \E now \in BOOLEAN, taken \in SUBSET PList(strcs[k], n) :
           \E out \in SUBSET taken : \E d : DataDone(k, n, now, taken, out, d)
<1> DEFINE old == strcs[k]
           s == SeqOf(n)
           noticed == Noticed(old, s)
           missing == IF retx THEN noticed.missing \ {s} ELSE noticed.missing
           now == tr_seqno_cmp(s, old.next) = 0
           e == IF now THEN tr_seqno_next(old.next) ELSE old.next
           list == PList(old, n)
           newTop == IF n > top[k] THEN n ELSE top[k]
<1>1. /\ IsOpen(k) /\ old \in Conn /\ ConnOK(old, top[k], finAt[k])
      /\ top[k] \in 0 .. (MaxIndex + 1) /\ n \in Index /\ finAt[k] \in 0 .. (MaxIndex + 1)
      /\ finAt[k] # 0 => finAt[k] = top[k]
  BY MasterAssumption DEF ReceiveData, ChaseInv, ConnOK, TypeOK, Index
<1>2. n <= top[k] + Gap /\ n + Late >= top[k]
  BY DEF ReceiveData, Arriving
<1>3. n < top[k] + TR_VALID_RANGE /\ top[k] < n + TR_VALID_RANGE
  BY <1>1, <1>2, MasterAssumption, SeqnoAssumption DEF Index
<1>4. /\ noticed \in Conn /\ noticed.last = LastSeq(newTop)
      /\ noticed.missing = old.missing \cup NewlyMissed(old, s)
      /\ newTop = Newest(n, top[k])
  BY <1>1, <1>3, NoticedOK DEF ConnOK, Newest
<1>5. missing \in SUBSET Seqno /\ \A m \in noticed.missing : m \in missing \/ m = s
  BY <1>4 DEF Conn
<1>6. e \in Seqno
  BY <1>1, SeqnoAssumption DEF Conn, tr_seqno_next, Seqno, TR_FIRST_SEQNO
<1>7. list \in SUBSET Index
  BY <1>1 DEF PList, Conn
<1> DEFINE
  Result(taken, out) ==
    [noticed EXCEPT !.missing = missing, !.timeoutCount = 0,
                    !.plist = list \ taken, !.next = NextAfter(out, e)]
  Outcome(taken, out, c) ==
    /\ Drained(list, e, s, taken, out)
    /\ delivered' = [delivered EXCEPT ![k] = @ \cup (IF now THEN out \cup {n} ELSE out)]
    /\ calls' = [calls EXCEPT ![k] = @ + Cardinality(out) + (IF now THEN 1 ELSE 0)]
    /\ \/ Update(k, Restarted(AfterNack(c), Asking(c)), NackOf(k, c))
       \/ Update(k, Restarted(c, "FINISHED"), {FinAck(k, c.last)})
       \/ Update(k, Restarted(c, "PASSIVE"), {})
       \/ Update(k, c, {})
<1>8. PICK taken \in Heads(list) : \E out \in SUBSET taken : Outcome(taken, out, Result(taken, out))
  BY DEF ReceiveData
<1>9. PICK out \in SUBSET taken : Outcome(taken, out, Result(taken, out))
  BY <1>8
<1> DEFINE c == Result(taken, out)
<1>10. taken \in SUBSET list /\ out \in SUBSET Index
  <2>1. taken \subseteq list
    BY DEF Heads
  <2> QED BY <1>7, <2>1
<1>11. /\ c \in Conn /\ c.last = LastSeq(newTop) /\ c.missing = missing
       /\ c.plist = list \ taken /\ c.next = NextAfter(out, e)
  <2>1. NextAfter(out, e) \in Seqno
    BY <1>6, <1>10, NextAfterType
  <2>2. list \ taken \in SUBSET Index /\ 0 \in 0 .. MAX_TIMEOUT_COUNT
    BY <1>7, MasterAssumption
  <2> HIDE DEF noticed, missing, e, list
  <2> QED BY <1>4, <1>5, <2>1, <2>2 DEF Conn
<1>12. top' = [top EXCEPT ![k] = newTop] /\ finAt' = finAt
  BY DEF ReceiveData
<1>13. Outcome(taken, out, c)
  BY <1>9
<1> HIDE DEF c
<1>14. PICK d : /\ strcs' = [strcs EXCEPT ![k] = d]
                /\ d.plist = c.plist /\ d.next = c.next /\ OnlyVoid(c.missing, d, newTop)
  <2>1. ASSUME NEW state \in States
        PROVE  /\ Restarted(c, state).plist = c.plist /\ Restarted(c, state).next = c.next
               /\ OnlyVoid(c.missing, Restarted(c, state), newTop)
    BY <1>11, FieldsOK DEF OnlyVoid
  <2>2. CASE Update(k, Restarted(AfterNack(c), Asking(c)), NackOf(k, c))
    <3> DEFINE a == AfterNack(c)
    <3>1. a \in Conn /\ a.plist = c.plist /\ a.next = c.next /\ OnlyVoid(c.missing, a, newTop)
      BY <1>11, AfterNackOK, FieldsOK
    <3>2. Asking(c) \in States
      BY <1>11 DEF Asking, Conn, States
    <3> HIDE DEF a
    <3>3. /\ Restarted(a, Asking(c)).plist = a.plist /\ Restarted(a, Asking(c)).next = a.next
          /\ Restarted(a, Asking(c)).missing = a.missing
      BY <3>1, <3>2, FieldsOK
    <3>4. OnlyVoid(c.missing, Restarted(a, Asking(c)), newTop)
      BY <3>1, <3>3 DEF OnlyVoid
    <3> QED BY <2>2, <3>1, <3>3, <3>4 DEF Update, a
  <2>3. CASE Update(k, Restarted(c, "FINISHED"), {FinAck(k, c.last)})
    BY <2>1, <2>3 DEF Update, States
  <2>4. CASE Update(k, Restarted(c, "PASSIVE"), {})
    BY <2>1, <2>4 DEF Update, States
  <2>5. CASE Update(k, c, {})
    BY <2>5 DEF Update, OnlyVoid
  <2> QED BY <1>13, <2>2, <2>3, <2>4, <2>5
<1>15. KeepsAsking(old, d, n, newTop)
  BY <1>4, <1>5, <1>11, <1>14 DEF OnlyVoid, KeepsAsking
<1>16. DataDone(k, n, now, taken, out, d)
  <2> DEFINE dlv == IF now THEN out \cup {n} ELSE out
  <2>1. Loop(old, n, now, e, taken, out, dlv)
    BY <1>13 DEF Loop
  <2>2. delivered' = [delivered EXCEPT ![k] = @ \cup dlv]
    BY <1>13
  <2> HIDE DEF newTop, Result, e, dlv
  <2> QED BY <1>4, <1>11, <1>12, <1>13, <1>14, <1>15, <2>1, <2>2 DEF DataDone
<1> QED BY <1>10, <1>16

\* What the step hands over, dlv, is what the promise allows.
InOrder(k, dlv) ==
  /\ \A x \in dlv : /\ x \in 1 .. top'[k]
                    /\ \A m \in delivered[k] : m < x
                    /\ \A m \in 1 .. x : m \in delivered'[k] \/ m + TR_VALID_RANGE <= top'[k]
  /\ delivered' = [delivered EXCEPT ![k] = @ \cup dlv]
  /\ IsFiniteSet(dlv) /\ calls' = [calls EXCEPT ![k] = @ + Cardinality(dlv)]
  /\ top' = [top EXCEPT ![k] = top'[k]] /\ top'[k] >= top[k] /\ top'[k] \in Nat

\* DATA and DATA_RETX (streamtransport.c:409-479).
LEMMA DataOrder ==
  ASSUME ChaseInv, OrderInv, NEW k \in Keys, NEW n \in 1 .. MaxIndex, NEW retx \in BOOLEAN,
         ReceiveData(k, n, retx)
  PROVE  OrderInv' /\ \E dlv : InOrder(k, dlv)
<1> DEFINE c == strcs[k]
           t == top[k]
           f == finAt[k]
           D == delivered[k]
           N == Newest(n, t)
<1>1. /\ IsOpen(k) /\ c \in Conn /\ c.last = LastSeq(t) /\ t \in 0 .. (MaxIndex + 1) /\ t \in Nat
      /\ f # 0 => f = t
      /\ D \subseteq 1 .. t /\ StreamOK(c, t, f, D)
  BY OpenOK DEF ReceiveData
<1>2. Arrives(n, t, f, D)
  BY <1>1, MasterAssumption DEF ReceiveData, Arriving, Arrives
<1>3. /\ n \in Index /\ n \in Nat \ {0} /\ N \in Nat /\ n <= N /\ t <= N
      /\ n < t + TR_VALID_RANGE /\ t < n + TR_VALID_RANGE
  BY <1>1, <1>2, MasterAssumption, SeqnoAssumption DEF Index, Newest, Arrives
<1>4. PICK now \in BOOLEAN, taken \in SUBSET PList(c, n) :
        \E out \in SUBSET taken : \E d : DataDone(k, n, now, taken, out, d)
  BY DataEffect
<1>5. PICK out \in SUBSET taken : \E d : DataDone(k, n, now, taken, out, d)
  BY <1>4
<1>6. PICK d : DataDone(k, n, now, taken, out, d)
  BY <1>5
<1>7. PICK q, dlv :
      /\ Loop(c, n, now, q, taken, out, dlv)
      /\ strcs' = [strcs EXCEPT ![k] = d]
      /\ d.plist = PList(c, n) \ taken /\ d.next = NextAfter(out, q)
      /\ KeepsAsking(c, d, n, N)
      /\ delivered' = [delivered EXCEPT ![k] = @ \cup dlv]
      /\ calls' = [calls EXCEPT ![k] = @ + Cardinality(out) + (IF now THEN 1 ELSE 0)]
      /\ top' = [top EXCEPT ![k] = N] /\ finAt' = finAt
  BY <1>6 DEF DataDone
<1>8. PICK e \in 1 .. (t + 1) : Expects(c.next, e, c.plist, t, D)
  BY <1>1 DEF StreamOK
<1>9. StreamAt(c.next, e, c.plist, t, f, D)
  BY <1>1, <1>8 DEF StreamOK, StreamAt
<1>10. Handled(c, t, f, D, n, q, taken, out, dlv) /\ (now => n \notin out)
  <2> HIDE DEF c, t, f, D, N
  <2>1. Loop(c, n, now, q, taken, out, dlv)
    BY <1>7
  <2> QED BY <1>2, <1>9, <2>1, ArrivalOK
<1>given. dlv = IF now THEN out \cup {n} ELSE out
  BY <1>7 DEF Loop
<1>11. /\ Waits(d.plist, N, f, D \cup dlv)
       /\ \E x \in 1 .. (N + 1) : Expects(d.next, x, d.plist, N, D \cup dlv)
       /\ c.plist \cup {n} \subseteq d.plist \cup D \cup dlv
       /\ \A x \in dlv : /\ x \in 1 .. N
                         /\ \A m \in D : m < x
                         /\ \A m \in 1 .. x : m \in D \cup dlv \/ m + TR_VALID_RANGE <= N
  BY <1>7, <1>10 DEF Handled
<1>12. /\ top'[k] = N /\ delivered'[k] = D \cup dlv /\ finAt'[k] = f
       /\ \A j \in Keys \ {k} : /\ top'[j] = top[j] /\ finAt'[j] = finAt[j]
                                /\ delivered'[j] = delivered[j]
  BY <1>7 DEF ChaseInv, TypeOK
<1>13. D \cup dlv \subseteq 1 .. N
  BY <1>1, <1>3, <1>11
<1>14. Accounted(d.plist, d.missing, N, f, D \cup dlv)
  <2>1. Accounted(c.plist, c.missing, t, f, D) /\ c.last = LastSeq(t) /\ t \in 0 .. (MaxIndex + 1)
    BY <1>1 DEF StreamOK
  <2>2. Among(D \cup c.plist \cup {f, n}, (D \cup dlv) \cup d.plist \cup {f}, N)
    BY <1>11 DEF Among
  <2>3. KeepsAsking(c, d, n, N)
    BY <1>7
  <2> HIDE DEF c, t, f, D
  <2> QED BY <1>3, <2>1, <2>2, <2>3, AccountedNext
<1>15. OrderInv'
  <2>1. StreamOK(d, N, f, D \cup dlv)
    BY <1>11, <1>14 DEF StreamOK
  <2>2. StreamOK(d, top'[k], finAt'[k], delivered'[k]) /\ delivered'[k] \subseteq 1 .. top'[k]
    BY <1>12, <1>13, <2>1
  <2>3. strcs' = [strcs EXCEPT ![k] = d]
    BY <1>7
  <2> QED BY <1>12, <2>2, <2>3, OneStream
<1>16. IsFiniteSet(dlv) /\ Cardinality(dlv) = Cardinality(out) + (IF now THEN 1 ELSE 0)
  <2>1. IsFiniteSet(out) /\ Cardinality(out) \in Nat
    <3>1. IsFiniteSet(1 .. N)
      BY <1>3, FS_Interval
    <3>2. out \subseteq 1 .. N
      BY <1>13, <1>given
    <3>3. IsFiniteSet(out)
      BY <3>1, <3>2, FS_Subset
    <3> QED BY <3>3, FS_CardinalityType
  <2>2. CASE now
    <3>1. dlv = out \cup {n} /\ n \notin out
      BY <1>10, <1>given, <2>2
    <3> QED BY <2>1, <2>2, <3>1, FS_AddElement
  <2>3. CASE ~now
    BY <1>given, <2>1, <2>3
  <2> QED BY <2>2, <2>3
<1>17. InOrder(k, dlv)
  <2>1. calls' = [calls EXCEPT ![k] = @ + Cardinality(dlv)]
    <3>1. calls[k] \in Nat /\ Cardinality(out) \in Int
      BY <1>16, <1>given, FS_CardinalityType, FS_Subset DEF ChaseInv, TypeOK
    <3>2. calls[k] + Cardinality(out) + (IF now THEN 1 ELSE 0) = calls[k] + Cardinality(dlv)
      BY <1>16, <3>1
    <3> QED BY <1>7, <3>2
  <2>2. top' = [top EXCEPT ![k] = top'[k]] /\ top'[k] >= top[k] /\ top'[k] \in Nat
    BY <1>3, <1>7, <1>12
  <2>3. \A x \in dlv : /\ x \in 1 .. top'[k]
                       /\ \A m \in delivered[k] : m < x
                       /\ \A m \in 1 .. x : m \in delivered'[k] \/ m + TR_VALID_RANGE <= top'[k]
    BY <1>11, <1>12
  <2> QED BY <1>7, <1>16, <2>1, <2>2, <2>3 DEF InOrder
<1> QED BY <1>15, <1>17

\* Nothing comes on any stream.
Still == UNCHANGED <<top, finAt, delivered, calls>>

\* The passing of an alarm time.
LEMMA ExpireOrder ==
  ASSUME ChaseInv, OrderInv, NEW k \in Keys, Expire(k)
  PROVE  OrderInv' /\ Still
<1> DEFINE d == [strcs[k] EXCEPT !.alarm = "expired"]
<1>1. IsOpen(k) /\ strcs' = [strcs EXCEPT ![k] = d] /\ Still
  BY DEF Expire, netVars, appVars, Still
<1>2. StreamOK(d, top[k], finAt[k], delivered[k]) /\ delivered[k] \subseteq 1 .. top[k]
  BY <1>1, OpenOK DEF Conn, StreamOK
<1> HIDE DEF d
<1> QED BY <1>1, <1>2, OneStream DEF Still

\* STR_Timer_fired (streamtransport.c:513-567).
LEMMA TimerOrder ==
  ASSUME ChaseInv, OrderInv, NEW k \in Keys, FirstExpired(k), TimerFired(k),
         UNCHANGED <<netVars, delivered, calls>>
  PROVE  OrderInv' /\ Still
<1> DEFINE c == [strcs[k] EXCEPT !.timeoutCount = @ + 1]
<1>1. Still /\ IsOpen(k) /\ delivered[k] \subseteq 1 .. top[k]
  BY DEF FirstExpired, Expired, OrderInv, netVars, Still
<1>2. /\ strcs[k] \in Conn /\ strcs[k].last = LastSeq(top[k]) /\ top[k] \in Nat
      /\ StreamOK(strcs[k], top[k], finAt[k], delivered[k])
  BY <1>1, OpenOK
<1>3. ASSUME NEW d, strcs' = [strcs EXCEPT ![k] = d],
             d = NoConn \/ StreamOK(d, top[k], finAt[k], delivered[k])
      PROVE  OrderInv'
  BY <1>1, <1>3, OneStream DEF Still
<1>4. CASE Delete(k)
  BY <1>1, <1>3, <1>4 DEF Delete
<1>5. CASE /\ strcs[k].state \in {"NACK_WAIT", "FIN_NACK_WAIT"} /\ c.timeoutCount < MAX_TIMEOUT_COUNT
           /\ \/ Update(k, Restarted(AfterNack(c), c.state), NackOf(k, c))
              \/ Update(k, Restarted(c, "PASSIVE"), {})
              \/ Update(k, Restarted(c, "FINISHED"), {FinAck(k, c.last)})
  <2>1. /\ c \in Conn /\ c.last = strcs[k].last /\ c.state \in States
        /\ c.plist = strcs[k].plist /\ c.next = strcs[k].next /\ c.missing = strcs[k].missing
    <3>1. strcs[k].timeoutCount \in 0 .. MAX_TIMEOUT_COUNT
      BY <1>2 DEF Conn
    <3>2. c.timeoutCount = strcs[k].timeoutCount + 1
      BY <1>2 DEF Conn
    <3>3. strcs[k].timeoutCount + 1 \in 0 .. MAX_TIMEOUT_COUNT
      BY <1>5, <3>1, <3>2, MasterAssumption
    <3> QED BY <1>2, <3>3 DEF Conn
  <2> HIDE DEF c
  <2> DEFINE a == AfterNack(c)
  <2>2. a \in Conn /\ a.plist = c.plist /\ a.next = c.next /\ OnlyVoid(c.missing, a, top[k])
    BY <1>2, <2>1, AfterNackOK, FieldsOK
  <2>3. ASSUME NEW b \in {a, c}, NEW state \in States, NEW sent, Update(k, Restarted(b, state), sent)
        PROVE  OrderInv'
    <3> DEFINE d == Restarted(b, state)
    <3>1. d.plist = b.plist /\ d.next = b.next /\ d.missing = b.missing
      BY <2>1, <2>2, FieldsOK
    <3>2. /\ d.plist = strcs[k].plist /\ d.next = strcs[k].next
          /\ OnlyVoid(strcs[k].missing, d, top[k])
      BY <2>1, <2>2, <3>1 DEF OnlyVoid
    <3>3. StreamOK(d, top[k], finAt[k], delivered[k])
      BY <1>2, <3>2, KeptOK
    <3> QED BY <1>3, <2>3, <3>3 DEF Update
  <2> QED BY <1>1, <1>5, <2>1, <2>3 DEF States
<1>6. CASE UNCHANGED strVars
  BY <1>1, <1>6 DEF strVars, OrderInv, IsOpen, Still
<1>7. \/ Delete(k)
      \/ /\ strcs[k].state \in {"NACK_WAIT", "FIN_NACK_WAIT"} /\ c.timeoutCount < MAX_TIMEOUT_COUNT
         /\ \/ Update(k, Restarted(AfterNack(c), c.state), NackOf(k, c))
            \/ Update(k, Restarted(c, "PASSIVE"), {})
            \/ Update(k, Restarted(c, "FINISHED"), {FinAck(k, c.last)})
      \/ UNCHANGED strVars
  BY DEF TimerFired
<1> QED BY <1>1, <1>4, <1>5, <1>6, <1>7

\* streamtransport_delete_tid (streamtransport.c:658-683).
LEMMA DeleteTidOrder ==
  ASSUME ChaseInv, OrderInv, NEW tid \in Tids, DeleteTid(tid), UNCHANGED <<netVars, appVars>>
  PROVE  OrderInv' /\ Still
<1>1. Still
  BY DEF netVars, appVars, Still
<1>2. ASSUME NEW j \in Keys
      PROVE  /\ delivered'[j] \subseteq 1 .. top'[j]
             /\ IsOpen(j)' => StreamOK(strcs'[j], top'[j], finAt'[j], delivered'[j])
  <2>1. /\ delivered[j] \subseteq 1 .. top[j]
        /\ IsOpen(j) => StreamOK(strcs[j], top[j], finAt[j], delivered[j]) /\ strcs[j] \in Conn
    BY DEF OrderInv, ChaseInv, ConnOK
  <2>2. \/ strcs'[j] \in {NoConn, strcs[j]}
        \/ IsOpen(j) /\ strcs'[j] = [strcs[j] EXCEPT !.deletePending = TRUE]
    BY DEF DeleteTid, DeletedTid
  <2>3. CASE strcs'[j] \in {NoConn, strcs[j]}
    BY <1>1, <2>1, <2>3 DEF IsOpen, Still
  <2>4. CASE IsOpen(j) /\ strcs'[j] = [strcs[j] EXCEPT !.deletePending = TRUE]
    BY <1>1, <2>1, <2>4 DEF Conn, StreamOK, Still
  <2> QED BY <2>2, <2>3, <2>4
<1> QED BY <1>1, <1>2 DEF OrderInv

-----------------------------------------------------------------------------
(* The theorems.                                                            *)

\* The promise counts as the master does.
LEMMA SameCardinality == ASSUME NEW S PROVE Promise!Cardinality(S) = Cardinality(S)
BY DEF Promise!Cardinality, Cardinality, Promise!IsFiniteSet, IsFiniteSet

\* Every step keeps the invariant and is one that the promise allows.
LEMMA OrderStep ==
  ASSUME ChaseInv, OrderInv, [Next]_vars
  PROVE  OrderInv' /\ [Promise!Next]_(Promise!vars)
<1>1. ASSUME NEW k \in Keys, top' = [top EXCEPT ![k] = top'[k]], top'[k] >= top[k],
             UNCHANGED <<delivered, calls>>
      PROVE  Promise!Next
  <2>1. delivered'[k] \ delivered[k] = {} /\ Cardinality({}) = 0
    BY <1>1, FS_EmptySet
  <2>2. delivered'[k] = delivered[k] \cup {} /\ calls'[k] = calls[k] + 0
    BY <1>1 DEF ChaseInv, TypeOK
  <2>3. \A j \in Keys \ {k} : top'[j] = top[j] /\ delivered'[j] = delivered[j] /\ calls'[j] = calls[j]
    BY <1>1 DEF ChaseInv, TypeOK
  <2>4. Promise!HandOver(k, {})
    BY <1>1, <2>1, <2>2, SameCardinality DEF Promise!HandOver
  <2>5. \A j \in Keys \ {k} : Promise!Untouched(j)
    BY <2>3 DEF Promise!Untouched
  <2> QED BY <2>1, <2>4, <2>5 DEF Promise!Next
<1>2. ASSUME NEW k \in Keys, NEW dlv, InOrder(k, dlv) PROVE Promise!Next
  <2>1. /\ delivered'[k] = delivered[k] \cup dlv /\ calls'[k] = calls[k] + Cardinality(dlv)
        /\ \A j \in Keys \ {k} : top'[j] = top[j] /\ delivered'[j] = delivered[j] /\ calls'[j] = calls[j]
    BY <1>2 DEF InOrder, ChaseInv, TypeOK
  <2>2. ASSUME NEW x \in dlv PROVE x \notin delivered[k]
    BY <1>2 DEF InOrder
  <2>3. delivered'[k] \ delivered[k] = dlv
    BY <2>1, <2>2
  <2>4. Promise!HandOver(k, dlv)
    BY <1>2, <2>1, SameCardinality DEF InOrder, Promise!HandOver
  <2>5. \A j \in Keys \ {k} : Promise!Untouched(j)
    BY <2>1 DEF Promise!Untouched
  <2> QED BY <2>3, <2>4, <2>5 DEF Promise!Next
<1>3. ASSUME UNCHANGED <<top, delivered, calls>> PROVE [Promise!Next]_(Promise!vars)
  BY <1>3 DEF Promise!vars
<1>4. ASSUME NEW k \in Keys, Receive(k) PROVE OrderInv' /\ [Promise!Next]_(Promise!vars)
  <2>1. CASE ReceiveSYN(k)
    BY <1>3, <2>1, SYNOrder DEF ReceiveSYN, netVars, appVars
  <2>2. CASE ReceiveStrayFIN(k)
    BY <1>3, <2>2 DEF ReceiveStrayFIN, strVars, netVars, appVars, OrderInv, IsOpen
  <2>3. ASSUME NEW n \in Index, ReceiveFIN(k, n) PROVE OrderInv' /\ Promise!Next
    <3>1. /\ top' = [top EXCEPT ![k] = n] /\ UNCHANGED <<delivered, calls>>
          /\ IF finAt[k] # 0 THEN n = finAt[k] ELSE n > top[k]
      BY <2>3 DEF ReceiveFIN
    <3>2. top' = [top EXCEPT ![k] = top'[k]] /\ top'[k] >= top[k]
      BY <3>1, MasterAssumption DEF ChaseInv, TypeOK, Index
    <3> QED BY <1>1, <2>3, <3>1, <3>2, FINOrder
  <2>4. ASSUME NEW n \in 1 .. MaxIndex, NEW retx \in BOOLEAN, ReceiveData(k, n, retx)
        PROVE  OrderInv' /\ Promise!Next
    BY <1>2, <2>4, DataOrder
  <2> QED BY <1>4, <2>1, <2>2, <2>3, <2>4 DEF Receive
<1>5. ASSUME NEW k \in Keys, Expire(k) PROVE OrderInv' /\ [Promise!Next]_(Promise!vars)
  BY <1>3, <1>5, ExpireOrder DEF Still
<1>6. CASE Poll
  BY <1>3, <1>6, TimerOrder DEF Poll, Still
<1>7. ASSUME NEW tid \in Tids, ClientClose(tid) \/ ClientGone(tid)
      PROVE  OrderInv' /\ [Promise!Next]_(Promise!vars)
  BY <1>3, <1>7, DeleteTidOrder DEF ClientClose, ClientGone, Still
<1>8. CASE UNCHANGED vars
  BY <1>3, <1>8 DEF vars, OrderInv, IsOpen
<1> QED BY <1>4, <1>5, <1>6, <1>7, <1>8 DEF Next

\* The invariant of the streams holds for every value of the constants.
LEMMA OrderInvHolds == Spec => []OrderInv
<1>1. Init => OrderInv
  BY DEF Init, OrderInv, IsOpen
<1>2. ChaseInv /\ OrderInv /\ [Next]_vars => OrderInv'
  BY OrderStep
<1> QED BY <1>1, <1>2, ChaseInvHolds, PTL DEF Spec

\* The packet list is in the order the packets were sent, wherever the numbers
\* have wrapped: the test of SPList_insert (sortedpacketlist.c:84-86) decides
\* rightly between any two packets that wait together.
THEOREM PlistSortedHolds == Spec => []PlistSorted
<1>1. ChaseInv /\ OrderInv => PlistSorted
  <2> SUFFICES ASSUME ChaseInv, OrderInv, NEW k \in Keys, IsOpen(k),
                      NEW m \in strcs[k].plist, NEW n \in strcs[k].plist
               PROVE  m < n <=> SPBefore(m, n)
    BY DEF PlistSorted
  <2>1. Ordered(strcs[k].plist)
    BY OpenOK, WaitsOrdered DEF StreamOK
  <2> QED BY <2>1 DEF Ordered
<1> QED BY <1>1, ChaseInvHolds, OrderInvHolds, PTL

\* A packet that is neither delivered nor waiting is on the missing list until
\* it is TR_VALID_RANGE old (streamtransport.c:158-239, :416-441).
THEOREM NothingForgottenHolds == Spec => []NothingForgotten
<1>1. OrderInv => NothingForgotten
  BY DEF OrderInv, StreamOK, Accounted, NothingForgotten
<1> QED BY <1>1, OrderInvHolds, PTL

\* The master implements the promise of InOrderStream: packets are handed to the
\* application in the order they were sent, each once, none passed over before
\* it is TR_VALID_RANGE old (streamtransport.c:245-317).
THEOREM DeliversInOrderHolds == Spec => DeliversInOrder
<1>1. Init => Promise!Init
  BY DEF Init, Promise!Init
<1>2. ChaseInv /\ OrderInv /\ [Next]_vars => [Promise!Next]_(Promise!vars)
  BY OrderStep
<1> QED BY <1>1, <1>2, ChaseInvHolds, OrderInvHolds, PTL DEF Spec, DeliversInOrder, Promise!Spec

=============================================================================
