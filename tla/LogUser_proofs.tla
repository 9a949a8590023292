--------------------------- MODULE LogUser_proofs ---------------------------
(***************************************************************************)
(* For every size of the volumes, every ring and every number of packets:  *)
(* what may be asked for again is where the log looks for it, and no place *)
(* is written twice between two erasures.                                  *)
(***************************************************************************)
EXTENDS LogUser, TrSeqno_proofs

\* Where the n-th packet goes.
Vol(n) == VolOf(SeqOf(n))
Place(n) == Idx(SeqOf(n))

\* The two volumes are the halves of a ring.
LEMMA PlaceIs ==
  /\ TR_FLASH_PKTS_PER_CON \in Nat \ {0} /\ TR_MAX_SEQNO % (2 * TR_FLASH_PKTS_PER_CON) = 0
  /\ \A n \in Nat \ {0} : /\ Vol(n) = Half(n, TR_FLASH_PKTS_PER_CON)
                          /\ Place(n) = InHalf(n, TR_FLASH_PKTS_PER_CON)
                          /\ NextIndex(SeqOf(n)) = (Place(n) + 1) % TR_FLASH_PKTS_PER_CON
BY LoggerAssumption, SeqnoAssumption DEF Vol, Place, VolOf, Idx, NextIndex, Half, InHalf

\* The next packet goes to the next place, or to the first of the other volume.
LEMMA PlaceNext ==
  ASSUME NEW n \in Nat \ {0}
  PROVE  /\ Place(n) \in Places /\ Vol(n) \in Volumes
         /\ NextIndex(SeqOf(n)) = Place(n + 1)
         /\ Place(n + 1) = 0 => Vol(n + 1) = 1 - Vol(n)
         /\ Place(n + 1) # 0 => Place(n + 1) = Place(n) + 1 /\ Vol(n + 1) = Vol(n)
<1>1. n + 1 \in Nat \ {0}
  OBVIOUS
<1> QED BY <1>1, PlaceIs, HalfNext DEF Places, Volumes

\* A packet that may be asked for is not where the next one goes, and not even
\* in the same volume when the next one is the first there.
LEMMA Apart ==
  ASSUME NEW m \in Nat \ {0}, NEW n \in Nat \ {0}, m < n, n <= m + TR_VALID_RANGE + 1
  PROVE  /\ Vol(m) # Vol(n) \/ Place(m) # Place(n)
         /\ Place(n) = 0 => Vol(m) # Vol(n)
<1>1. n <= m + TR_FLASH_PKTS_PER_CON
  BY LoggerAssumption, SeqnoAssumption
<1> QED BY <1>1, PlaceIs, HalvesApart

-----------------------------------------------------------------------------
(* The invariant.                                                          *)

Reading(s) == [kind |-> "read", seqno |-> s]
Writing(n) == [kind |-> "write", data |-> Packet(n)]

Types ==
  /\ b \in [ready : BOOLEAN, currVol : Volumes, dirty : SUBSET Volumes, nextIndex : Places]
  /\ m_state \in {"IDLE", "INIT", "ERASE_VOL"}
  /\ op \in [Volumes -> {Rest, Erasure} \cup {Reading(s) : s \in Seqno}
                         \cup {Writing(n) : n \in Nat \ {0}}]
  /\ cells \in [Volumes -> [Places -> {Erased, Garbage} \cup {Packet(n) : n \in Nat \ {0}}]]
  /\ sent \in Nat /\ stored \in Nat /\ busy \in BOOLEAN

Blank(v) == \A p \in Places : cells[v][p] = Erased

\* Both volumes are being erased, the first one first: nothing is stored, and
\* the first volume is clean once its erasure is done.
Erasing ==
  /\ ~b.ready /\ b.currVol = 0 /\ b.nextIndex = 0
  /\ sent = 0 /\ stored = 0 /\ ~busy
  /\ \A v \in Volumes : op[v] \in {Rest, Erasure}
  /\ op[0] = Erasure \/ (0 \notin b.dirty /\ Blank(0))

\* One operation of the user at a time; the log's own erasure of the volume in
\* use may go on beside a read of the other one.
OneOperation ==
  /\ sent = stored => \A v \in Volumes : op[v].kind # "write"
  /\ sent # stored => /\ sent = stored + 1 /\ busy
                      /\ op[b.currVol] = Writing(sent) /\ op[1 - b.currVol] = Rest
  /\ \A v \in Volumes : op[v].kind = "read" => busy /\ op[1 - v].kind # "read"

\* The volume in use is erased before anything is written to it, and from the
\* next place on it is blank; the other one is blank or known to be dirty.
VolumesClean ==
  /\ \A v \in Volumes : op[v] = Erasure => v = b.currVol /\ Place(stored + 1) = 0
  /\ b.currVol \in b.dirty => op[b.currVol] = Erasure
  /\ op[b.currVol] # Erasure
       => \A p \in Places : p >= Place(stored + 1) => cells[b.currVol][p] = Erased
  /\ 1 - b.currVol \in b.dirty \/ Blank(1 - b.currVol)

\* The log is where the numbers of the packets say.
InUse ==
  /\ b.ready /\ b.currVol = Vol(stored + 1) /\ b.nextIndex = Place(sent + 1)
  /\ OneOperation
  /\ VolumesClean

LogInv ==
  /\ Types
  /\ m_state = "IDLE" => InUse
  /\ m_state # "IDLE" => Erasing
  /\ RangeReadable

-----------------------------------------------------------------------------
LEMMA FirstPlace == Place(1) = 0 /\ Vol(1) = 0
BY PlaceIs, HalfFirst

LEMMA SeqOfType == ASSUME NEW n \in Nat \ {0} PROVE SeqOf(n) \in Seqno
<1>1. TR_MAX_SEQNO \in Nat \ {0} /\ n - 1 \in Nat
  BY SeqnoAssumption
<1> QED BY <1>1 DEF SeqOf, Seqno, TR_FIRST_SEQNO

\* What can be in a place, and what a volume can do, are told apart.
LEMMA Contents ==
  ASSUME NEW n \in Nat \ {0}
  PROVE  Erased # Garbage /\ Packet(n) # Garbage /\ Packet(n) # Erased
<1>1. Packet(n).seqno \in Seqno /\ Erased.seqno = 0 /\ Garbage.seqno = -1
  BY SeqOfType DEF Packet, Erased, Garbage
<1>2. Packet(n).seqno # 0 /\ Packet(n).seqno # -1
  BY <1>1, SeqnoAssumption DEF Seqno, TR_FIRST_SEQNO
<1> QED BY <1>1, <1>2

LEMMA Kinds ==
  ASSUME NEW o \in {Rest, Erasure} \cup {Reading(s) : s \in Seqno} \cup {Writing(n) : n \in Nat \ {0}}
  PROVE  /\ o.kind \in {"none", "erase", "read", "write"}
         /\ o.kind = "none" <=> o = Rest
         /\ o.kind = "erase" <=> o = Erasure
BY DEF Rest, Erasure, Reading, Writing

LEMMA Others == 
  ASSUME NEW v \in Volumes
  PROVE  1 - v \in Volumes /\ 1 - v # v /\ 1 - (1 - v) = v /\ \A w \in Volumes : w = v \/ w = 1 - v
BY DEF Volumes

-----------------------------------------------------------------------------
LEMMA InitLog == Init => LogInv
<1> SUFFICES ASSUME Init PROVE LogInv
  OBVIOUS
<1> USE DEF Init, LoggerInit
<1>1. 0 \in Places
  BY LoggerAssumption, SeqnoAssumption DEF Places
<1>2. Types
  BY <1>1 DEF Types, Volumes
<1>3. Erasing
  BY DEF Erasing, Volumes
<1>4. RangeReadable
  BY DEF RangeReadable, Wanted
<1> QED BY <1>2, <1>3, <1>4 DEF LogInv

\* A step that changes none of the variables.
LEMMA StutterLog == LogInv /\ UNCHANGED vars => LogInv'
BY DEF LogInv, vars, logVars, Types, InUse, Erasing, RangeReadable, Wanted, OneOperation, VolumesClean, Blank

\* A step of the user that changes no cell and stores nothing.
LEMMA SameReadable ==
  ASSUME RangeReadable, cells' = cells, stored' = stored
  PROVE  RangeReadable'
BY DEF RangeReadable, Wanted

-----------------------------------------------------------------------------
(* One lemma per action.                                                   *)

LEMMA WriteKeeps == LogInv /\ WritePacket => LogInv'
<1> SUFFICES ASSUME LogInv, WritePacket PROVE LogInv'
  OBVIOUS
<1> DEFINE c == b.currVol
           n == sent + 1
<1>1. PICK ok \in BOOLEAN : /\ Write(Packet(n), ok) /\ busy' = ok
                            /\ sent' = IF ok THEN n ELSE sent
  BY DEF WritePacket
<1>2. ~busy /\ stored' = stored
  BY DEF WritePacket
<1>t. Types
  BY DEF LogInv
<1>3. CASE ~ok
  <2>1. UNCHANGED logVars
    BY <1>1, <1>3, <1>t DEF Write, Start, logVars
  <2>2. UNCHANGED vars
    BY <1>1, <1>2, <1>3, <1>t, <2>1 DEF vars, Types
  <2> QED BY <2>2, StutterLog
<1>4. CASE ok
  <2>1. /\ Idx(SeqOf(n)) = b.nextIndex /\ c \notin b.dirty /\ m_state = "IDLE"
        /\ op[c] = Rest /\ op' = [op EXCEPT ![c] = Writing(n)]
        /\ b' = [b EXCEPT !.nextIndex = NextIndex(SeqOf(n))]
        /\ m_state' = m_state /\ cells' = cells
    BY <1>1, <1>4 DEF Write, Start, CanWrite, Packet, Writing
  <2>2. InUse /\ RangeReadable
    BY <2>1 DEF LogInv
  <2>3. n \in Nat \ {0} /\ sent' = n /\ busy' = TRUE /\ c \in Volumes
    BY <1>1, <1>4, <1>t DEF Types
  <2>4. Place(n + 1) \in Places /\ NextIndex(SeqOf(n)) = Place(n + 1)
    BY <2>3, PlaceNext
  <2>5. sent = stored
    BY <1>2, <2>2 DEF InUse, OneOperation
  <2>6. /\ b'.ready = b.ready /\ b'.currVol = c /\ b'.dirty = b.dirty
        /\ b'.nextIndex = Place(n + 1)
        /\ b' \in [ready : BOOLEAN, currVol : Volumes, dirty : SUBSET Volumes, nextIndex : Places]
    BY <1>t, <2>1, <2>4 DEF Types
  <2>7. op'[c] = Writing(n) /\ op'[1 - c] = op[1 - c] /\ 1 - c \in Volumes
    BY <1>t, <2>1, <2>3, Others DEF Types
  <2>8. op[1 - c] = Rest
    <3>1. op[1 - c].kind # "write" /\ op[1 - c].kind # "read"
      BY <1>2, <2>2, <2>5, <2>7 DEF InUse, OneOperation
    <3>2. op[1 - c] # Erasure
      BY <2>2, <2>3, <2>7, Others DEF InUse, VolumesClean
    <3> QED BY <1>t, <2>7, <3>1, <3>2, Kinds DEF Types
  <2>9. Types'
    <3>1. op' \in [Volumes -> {Rest, Erasure} \cup {Reading(s) : s \in Seqno}
                              \cup {Writing(k) : k \in Nat \ {0}}]
      BY <1>t, <2>1, <2>3 DEF Types
    <3> QED BY <1>t, <1>2, <2>1, <2>3, <2>6, <3>1 DEF Types
  <2>10. OneOperation'
    <3>1. sent' # stored' /\ sent' = stored' + 1 /\ busy'
      BY <1>2, <1>t, <2>3, <2>5 DEF Types
    <3>2. op'[b'.currVol] = Writing(sent') /\ op'[1 - b'.currVol] = Rest
      BY <2>3, <2>6, <2>7, <2>8
    <3>3. Writing(sent').kind # "read" /\ Rest.kind # "read"
      BY DEF Writing, Rest
    <3>4. \A v \in Volumes : op'[v].kind # "read"
      BY <2>3, <2>6, <3>2, <3>3, Others
    <3> QED BY <3>1, <3>2, <3>4 DEF OneOperation, Writing
  <2>11. VolumesClean'
    <3>1. Writing(n) # Erasure /\ Rest # Erasure
      BY DEF Writing, Erasure, Rest
    <3>2. \A v \in Volumes : op'[v] # Erasure
      BY <2>3, <2>7, <2>8, <3>1, Others
    <3>3. VolumesClean
      BY <2>2 DEF InUse
    <3>4. op[c] # Erasure
      BY <2>1, <3>1
    <3> QED BY <1>2, <2>1, <2>3, <2>6, <3>2, <3>3, <3>4 DEF VolumesClean, Blank
  <2>12. InUse'
    BY <1>2, <2>2, <2>3, <2>6, <2>10, <2>11 DEF InUse
  <2>13. RangeReadable'
    BY <1>2, <2>1, <2>2, SameReadable
  <2> QED BY <2>1, <2>9, <2>12, <2>13 DEF LogInv
<1> QED BY <1>3, <1>4

\* The write that ends is of the next packet, into a blank place of the volume
\* in use.
LEMMA WriteEnds ==
  ASSUME LogInv, PacketWritten
  PROVE  /\ m_state = "IDLE" /\ InUse /\ sent = stored + 1
         /\ WriteDone(b.currVol, Packet(sent), TRUE)
         /\ cells[b.currVol][Place(sent)] = Erased
         /\ cells' = [cells EXCEPT ![b.currVol][Place(sent)] = Packet(sent)]
<1> DEFINE c == b.currVol
<1>t. Types
  BY DEF LogInv
<1>1. PICK v \in Volumes : WriteDone(v, Packet(sent), TRUE)
  BY DEF PacketWritten
<1>2. op[v].kind = "write"
  BY <1>1 DEF WriteDone
<1>3. m_state = "IDLE"
  BY <1>2 DEF LogInv, Erasing, Rest, Erasure
<1>4. InUse
  BY <1>3 DEF LogInv
<1>5. sent # stored
  BY <1>2, <1>4 DEF InUse, OneOperation
<1>6. sent = stored + 1 /\ op[c] = Writing(sent) /\ op[1 - c] = Rest
  BY <1>4, <1>5 DEF InUse, OneOperation
<1>7. c \in Volumes /\ sent \in Nat \ {0} /\ sent = stored + 1
  BY <1>t, <1>6 DEF Types
<1>8. v = c
  <2>1. v = c \/ v = 1 - c
    BY <1>7, Others
  <2> QED BY <1>2, <1>6, <2>1 DEF Rest
<1>9. op[c] # Erasure
  BY <1>6 DEF Writing, Erasure
<1>10. Place(sent) \in Places
  BY <1>7, PlaceNext
<1>11. cells[c][Place(sent)] = Erased
  <2>1. Place(sent) >= Place(stored + 1)
    BY <1>6, <1>10, LoggerAssumption, SeqnoAssumption DEF Places
  <2> QED BY <1>4, <1>9, <1>10, <2>1 DEF InUse, VolumesClean
<1>12. Idx(Packet(sent).seqno) = Place(sent)
  BY DEF Packet, Place
<1>13. cells' = [cells EXCEPT ![c][Place(sent)] = Packet(sent)]
  BY <1>1, <1>8, <1>11, <1>12 DEF WriteDone, Ended
<1> QED BY <1>1, <1>3, <1>4, <1>6, <1>8, <1>11, <1>13

LEMMA WrittenKeeps == LogInv /\ PacketWritten => LogInv'
<1> SUFFICES ASSUME LogInv, PacketWritten PROVE LogInv'
  OBVIOUS
<1> DEFINE c == b.currVol
           n == sent
<1>t. Types /\ RangeReadable
  BY DEF LogInv
<1>1. /\ m_state = "IDLE" /\ InUse /\ n = stored + 1
      /\ WriteDone(c, Packet(n), TRUE)
      /\ cells[c][Place(n)] = Erased
      /\ cells' = [cells EXCEPT ![c][Place(n)] = Packet(n)]
  BY WriteEnds
<1>2. /\ c \in Volumes /\ 1 - c \in Volumes /\ 1 - c # c /\ 1 - (1 - c) = c
      /\ n \in Nat \ {0} /\ n + 1 \in Nat \ {0} /\ stored \in Nat
  BY <1>t, <1>1, Others DEF Types
<1>3. /\ c = Vol(n) /\ b.nextIndex = Place(n + 1) /\ b.ready
      /\ op[c] = Writing(n) /\ op[1 - c] = Rest
  BY <1>1, <1>2 DEF InUse, OneOperation
<1>4. stored' = n /\ sent' = n /\ busy' = FALSE /\ m_state' = "IDLE"
  BY <1>1 DEF PacketWritten, WriteDone
<1>5. /\ Place(n) \in Places /\ Place(n + 1) \in Places
      /\ Place(n + 1) = 0 => Vol(n + 1) = 1 - c
      /\ Place(n + 1) # 0 => Place(n + 1) = Place(n) + 1 /\ Vol(n + 1) = c
  BY <1>2, <1>3, PlaceNext
<1>6. /\ cells' \in [Volumes -> [Places -> {Erased, Garbage} \cup {Packet(k) : k \in Nat \ {0}}]]
      /\ cells'[c][Place(n)] = Packet(n)
      /\ \A p \in Places : p # Place(n) => cells'[c][p] = cells[c][p]
      /\ \A p \in Places : cells'[1 - c][p] = cells[1 - c][p]
  BY <1>t, <1>1, <1>2, <1>5 DEF Types
<1>7. RangeReadable'
  <2> SUFFICES ASSUME NEW m \in 1 .. stored', m + TR_VALID_RANGE >= stored'
               PROVE  cells'[Vol(m)][Place(m)] = Packet(m)
    BY DEF RangeReadable, Wanted, Vol, Place
  <2>1. CASE m = n
    BY <1>3, <1>6, <2>1
  <2>2. CASE m # n
    <3>1. m \in Nat \ {0} /\ m < n /\ n <= m + TR_VALID_RANGE + 1 /\ m \in 1 .. stored
          /\ m + TR_VALID_RANGE >= stored
      BY <1>1, <1>2, <1>4, <2>2, SeqnoAssumption
    <3>2. cells[Vol(m)][Place(m)] = Packet(m)
      BY <1>t, <3>1 DEF RangeReadable, Wanted, Vol, Place
    <3>3. Vol(m) # c \/ Place(m) # Place(n)
      BY <1>2, <1>3, <3>1, Apart
    <3>4. Vol(m) \in Volumes /\ Place(m) \in Places
      BY <3>1, PlaceNext
    <3> QED BY <1>2, <1>6, <3>2, <3>3, <3>4, Others
  <2> QED BY <2>1, <2>2
<1>8. b' \in [ready : BOOLEAN, currVol : Volumes, dirty : SUBSET Volumes, nextIndex : Places]
  <2>1. b' = b \/ b' = [b EXCEPT !.dirty = @ \cup {c}, !.currVol = 1 - c]
    BY <1>1 DEF WriteDone
  <2>2. b.dirty \cup {c} \in SUBSET Volumes
    BY <1>t, <1>2 DEF Types
  <2> QED BY <1>t, <1>2, <2>1, <2>2 DEF Types
<1>9. op[c] # Erasure /\ op[1 - c] # Erasure /\ Rest # Erasure /\ Rest.kind = "none" /\ Erasure.kind = "erase"
  BY <1>3 DEF Writing, Erasure, Rest
<1>10. VolumesClean
  BY <1>1 DEF InUse
<1>11. CASE Place(n + 1) # 0
  <2>1. b' = b /\ op' = [op EXCEPT ![c] = Rest]
    BY <1>1, <1>3, <1>11 DEF WriteDone
  <2>2. op'[c] = Rest /\ op'[1 - c] = Rest
    BY <1>t, <1>2, <1>3, <2>1 DEF Types
  <2>3. \A v \in Volumes : op'[v] = Rest
    BY <1>2, <2>2, Others
  <2>4. Types'
    BY <1>t, <1>2, <1>4, <1>6, <1>8, <2>1 DEF Types
  <2>5. OneOperation'
    BY <1>4, <1>9, <2>3 DEF OneOperation
  <2>6. VolumesClean'
    <3>1. c \notin b.dirty
      BY <1>9, <1>10 DEF VolumesClean
    <3>2. \A p \in Places : p >= Place(n + 1) => cells'[c][p] = Erased
      <4> SUFFICES ASSUME NEW p \in Places, p >= Place(n + 1) PROVE cells'[c][p] = Erased
        OBVIOUS
      <4>1. p # Place(n) /\ p >= Place(n)
        BY <1>5, <1>11, LoggerAssumption, SeqnoAssumption DEF Places
      <4>2. cells[c][p] = Erased
        BY <1>1, <1>9, <1>10, <4>1 DEF VolumesClean
      <4> QED BY <1>6, <4>1, <4>2
    <3>3. 1 - c \in b.dirty \/ \A p \in Places : cells'[1 - c][p] = Erased
      BY <1>6, <1>10 DEF VolumesClean, Blank
    <3> QED BY <1>4, <1>9, <2>1, <2>3, <3>1, <3>2, <3>3 DEF VolumesClean, Blank
  <2>7. InUse'
    BY <1>3, <1>4, <1>5, <1>11, <2>1, <2>5, <2>6 DEF InUse
  <2> QED BY <1>4, <1>7, <2>4, <2>7 DEF LogInv
<1>12. CASE Place(n + 1) = 0
  <2>1. /\ b' = [b EXCEPT !.dirty = @ \cup {c}, !.currVol = 1 - c]
        /\ IF 1 - c \in b.dirty THEN Follow(c, 1 - c) ELSE op' = [op EXCEPT ![c] = Rest]
    BY <1>1, <1>3, <1>12 DEF WriteDone
  <2>2. /\ b'.ready = b.ready /\ b'.nextIndex = b.nextIndex
        /\ b'.currVol = 1 - c /\ b'.dirty = b.dirty \cup {c}
    BY <1>t, <2>1 DEF Types
  <2>3. op' \in [Volumes -> {Rest, Erasure}] /\ op'[c] = Rest
        /\ op'[1 - c] = IF 1 - c \in b.dirty THEN Erasure ELSE Rest
    <3>1. CASE 1 - c \in b.dirty
      <4>1. op' = [op EXCEPT ![c] = Rest, ![1 - c] = Erasure]
        BY <1>2, <1>3, <2>1, <3>1 DEF Follow
      <4> QED BY <1>t, <1>2, <3>1, <4>1, Others DEF Types
    <3>2. CASE 1 - c \notin b.dirty
      <4>1. op' = [op EXCEPT ![c] = Rest]
        BY <2>1, <3>2
      <4> QED BY <1>t, <1>2, <1>3, <3>2, <4>1, Others DEF Types
    <3> QED BY <3>1, <3>2
  <2>4. Types'
    BY <1>t, <1>2, <1>4, <1>6, <1>8, <2>3 DEF Types
  <2>5. OneOperation'
    <3>1. \A v \in Volumes : op'[v].kind # "read" /\ op'[v].kind # "write"
      BY <1>9, <2>3
    <3> QED BY <1>4, <3>1 DEF OneOperation
  <2>6. VolumesClean'
    <3>1. \A v \in Volumes : op'[v] = Erasure => v = 1 - c
      BY <1>2, <1>9, <2>3, Others
    <3>2. op'[1 - c] # Erasure => \A p \in Places : cells'[1 - c][p] = Erased
      BY <1>6, <1>10, <2>3 DEF VolumesClean, Blank
    <3> QED BY <1>2, <1>4, <1>12, <2>2, <2>3, <3>1, <3>2 DEF VolumesClean, Blank
  <2>7. InUse'
    BY <1>3, <1>4, <1>5, <1>12, <2>2, <2>5, <2>6 DEF InUse
  <2> QED BY <1>4, <1>7, <2>4, <2>7 DEF LogInv
<1> QED BY <1>11, <1>12

LEMMA ReadKeeps == LogInv /\ ReadPacket => LogInv'
<1> SUFFICES ASSUME LogInv, ReadPacket PROVE LogInv'
  OBVIOUS
<1> DEFINE c == b.currVol
<1>t. Types /\ RangeReadable
  BY DEF LogInv
<1>1. PICK n \in Wanted, ok \in BOOLEAN : Read(SeqOf(n), ok) /\ busy' = ok
  BY DEF ReadPacket
<1>2. ~busy /\ stored' = stored /\ sent' = sent
  BY DEF ReadPacket
<1>3. CASE ~ok
  <2>1. UNCHANGED logVars
    BY <1>1, <1>3 DEF Read, Start, logVars
  <2>2. UNCHANGED vars
    BY <1>1, <1>2, <1>3, <1>t, <2>1 DEF vars, Types
  <2> QED BY <2>2, StutterLog
<1>4. CASE ok
  <2> DEFINE w == Vol(n)
             s == SeqOf(n)
  <2>1. /\ m_state = "IDLE" /\ op[w] = Rest /\ op' = [op EXCEPT ![w] = Reading(s)]
        /\ b' = b /\ m_state' = m_state /\ cells' = cells /\ busy' = TRUE
    BY <1>1, <1>4 DEF Read, Start, Vol, Reading
  <2>2. InUse /\ VolumesClean /\ OneOperation
    BY <2>1 DEF LogInv, InUse
  <2>3. n \in Nat \ {0} /\ c \in Volumes
    BY <1>t DEF Wanted, Types
  <2>4. w \in Volumes /\ s \in Seqno
    BY <2>3, PlaceNext, SeqOfType
  <2>5. sent = stored
    BY <1>2, <2>2 DEF OneOperation
  <2>6. \A v \in Volumes : op'[v] = IF v = w THEN Reading(s) ELSE op[v]
    BY <1>t, <2>1, <2>4 DEF Types
  <2>7. Types'
    <3>1. Reading(s) \in {Reading(x) : x \in Seqno}
      BY <2>4
    <3> HIDE DEF w, s
    <3>2. op' \in [Volumes -> {Rest, Erasure} \cup {Reading(x) : x \in Seqno}
                              \cup {Writing(k) : k \in Nat \ {0}}]
      BY <1>t, <2>1, <2>4, <3>1 DEF Types
    <3> QED BY <1>t, <1>2, <2>1, <3>2 DEF Types
  <2>8. Reading(s).kind = "read" /\ Reading(s) # Erasure /\ Erasure.kind = "erase"
    BY DEF Reading, Erasure
  <2> HIDE DEF w, s
  <2>9. \A v \in Volumes : op[v].kind # "read" /\ op[v].kind # "write"
    BY <1>2, <2>2, <2>5 DEF OneOperation
  <2>10. OneOperation'
    <3>1. \A v \in Volumes : op'[v].kind # "write"
      BY <2>6, <2>8, <2>9
    <3>2. \A v \in Volumes : op'[v].kind = "read" => op'[1 - v].kind # "read"
      BY <2>4, <2>6, <2>9, Others
    <3> QED BY <1>2, <2>1, <2>5, <3>1, <3>2 DEF OneOperation
  <2>11. VolumesClean'
    <3>1. \A v \in Volumes : op'[v] = Erasure <=> op[v] = Erasure
      BY <2>1, <2>6, <2>8 DEF Rest, Erasure
    <3> QED BY <1>2, <2>1, <2>2, <2>3, <3>1 DEF VolumesClean, Blank
  <2>12. InUse'
    BY <1>2, <2>1, <2>2, <2>10, <2>11 DEF InUse
  <2>13. RangeReadable'
    BY <1>t, <1>2, <2>1, SameReadable
  <2> QED BY <2>1, <2>7, <2>12, <2>13 DEF LogInv
<1> QED BY <1>3, <1>4

LEMMA ReadEndKeeps == LogInv /\ PacketRead => LogInv'
<1> SUFFICES ASSUME LogInv, PacketRead PROVE LogInv'
  OBVIOUS
<1> DEFINE c == b.currVol
<1>t. Types /\ RangeReadable
  BY DEF LogInv
<1>1. PICK v \in Volumes : op[v].kind = "read" /\ ReadDone(v, op[v].seqno, cells[v][Idx(op[v].seqno)])
  BY DEF PacketRead
<1>2. op' = [op EXCEPT ![v] = Rest] /\ b' = b /\ m_state' = m_state /\ cells' = cells
      /\ busy' = FALSE /\ sent' = sent /\ stored' = stored
  BY <1>1 DEF PacketRead, ReadDone
<1>3. m_state = "IDLE"
  BY <1>1 DEF LogInv, Erasing, Rest, Erasure
<1>4. InUse /\ VolumesClean /\ OneOperation
  BY <1>3 DEF LogInv, InUse
<1>5. \A w \in Volumes : op'[w] = IF w = v THEN Rest ELSE op[w]
  BY <1>t, <1>2 DEF Types
<1>6. Rest.kind = "none" /\ Erasure.kind = "erase" /\ c \in Volumes /\ 1 - c \in Volumes
  BY <1>t, Others DEF Rest, Erasure, Types
<1>7. sent = stored
  <2> SUFFICES ASSUME sent # stored PROVE FALSE
    OBVIOUS
  <2>1. op[c] = Writing(sent) /\ op[1 - c] = Rest
    BY <1>4 DEF OneOperation
  <2>2. Writing(sent).kind = "write"
    BY DEF Writing
  <2> QED BY <1>1, <1>6, <2>1, <2>2, Others
<1>8. Types'
  <2>1. op' \in [Volumes -> {Rest, Erasure} \cup {Reading(x) : x \in Seqno}
                            \cup {Writing(k) : k \in Nat \ {0}}]
    BY <1>t, <1>2 DEF Types
  <2> QED BY <1>t, <1>2, <2>1 DEF Types
<1>9. OneOperation'
  <2>1. \A w \in Volumes : op'[w].kind # "write" /\ op'[w].kind # "read"
    BY <1>1, <1>4, <1>5, <1>6, <1>7, Others DEF OneOperation
  <2> QED BY <1>2, <1>7, <2>1 DEF OneOperation
<1>10. VolumesClean'
  <2>1. \A w \in Volumes : op'[w] = Erasure <=> op[w] = Erasure
    BY <1>1, <1>5, <1>6
  <2> QED BY <1>2, <1>4, <1>6, <2>1 DEF VolumesClean, Blank
<1>11. InUse'
  BY <1>2, <1>4, <1>9, <1>10 DEF InUse
<1>12. RangeReadable'
  BY <1>t, <1>2, SameReadable
<1> QED BY <1>2, <1>3, <1>8, <1>11, <1>12 DEF LogInv

LEMMA EraseKeeps == LogInv /\ EraseLog => LogInv'
<1> SUFFICES ASSUME LogInv, EraseLog PROVE LogInv'
  OBVIOUS
<1>t. Types
  BY DEF LogInv
<1>1. PICK ok \in BOOLEAN : Erase(ok)
  BY DEF EraseLog
<1>2. ~busy /\ stored > 0 /\ sent' = 0 /\ stored' = 0 /\ busy' = busy
  BY DEF EraseLog
<1>3. m_state = "IDLE"
  BY <1>2, <1>t DEF LogInv, Erasing, Types
<1>4. InUse /\ OneOperation
  BY <1>3 DEF LogInv, InUse
<1>5. /\ m_state' = "ERASE_VOL" /\ cells' = cells
      /\ b' = [b EXCEPT !.ready = FALSE, !.currVol = 0, !.nextIndex = 0]
      /\ op' = IF op[0] = Rest THEN [op EXCEPT ![0] = Erasure] ELSE op
  BY <1>1, <1>3 DEF Erase, Start
<1>6. \A v \in Volumes : op[v] \in {Rest, Erasure}
  <2> SUFFICES ASSUME NEW v \in Volumes PROVE op[v] \in {Rest, Erasure}
    OBVIOUS
  <2>1. op[v].kind # "read" /\ op[v].kind # "write"
    BY <1>2, <1>4 DEF OneOperation
  <2> QED BY <1>t, <2>1, Kinds DEF Types
<1>7. 0 \in Volumes /\ 0 \in Places
  BY LoggerAssumption, SeqnoAssumption DEF Volumes, Places
<1>8. op'[0] = Erasure /\ \A v \in Volumes : op'[v] \in {Rest, Erasure}
  BY <1>t, <1>5, <1>6, <1>7 DEF Types
<1>9. /\ b'.ready = FALSE /\ b'.currVol = 0 /\ b'.nextIndex = 0
      /\ b' \in [ready : BOOLEAN, currVol : Volumes, dirty : SUBSET Volumes, nextIndex : Places]
  BY <1>t, <1>5, <1>7 DEF Types
<1>10. Types'
  <2>1. op' \in [Volumes -> {Rest, Erasure} \cup {Reading(x) : x \in Seqno}
                            \cup {Writing(k) : k \in Nat \ {0}}]
    BY <1>t, <1>5 DEF Types
  <2> QED BY <1>t, <1>2, <1>5, <1>9, <2>1 DEF Types
<1>11. Erasing'
  BY <1>2, <1>8, <1>9 DEF Erasing
<1>12. RangeReadable'
  BY <1>2 DEF RangeReadable, Wanted
<1> QED BY <1>5, <1>10, <1>11, <1>12 DEF LogInv

LEMMA ErasedKeeps == LogInv /\ LogErased => LogInv'
<1> SUFFICES ASSUME LogInv, LogErased PROVE LogInv'
  OBVIOUS
<1> DEFINE c == b.currVol
<1>t. Types /\ RangeReadable
  BY DEF LogInv
<1>1. PICK v \in Volumes, ev \in {"none", "initDone", "eraseDone"} : EraseDone(v, TRUE, ev)
  BY DEF LogErased
<1>2. /\ op[v] = Erasure /\ sent' = sent /\ stored' = stored /\ busy' = busy
      /\ cells' = [cells EXCEPT ![v] = [p \in Places |-> Erased]]
  BY <1>1 DEF LogErased, EraseDone
<1>3. /\ cells' \in [Volumes -> [Places -> {Erased, Garbage} \cup {Packet(k) : k \in Nat \ {0}}]]
      /\ \A p \in Places : cells'[v][p] = Erased
      /\ \A w \in Volumes : w # v => \A p \in Places : cells'[w][p] = cells[w][p]
  BY <1>t, <1>2 DEF Types
<1>4. c \in Volumes /\ 1 - c \in Volumes /\ 0 \in Volumes /\ 1 \in Volumes /\ Rest # Erasure
  BY <1>t, Others DEF Types, Volumes, Rest, Erasure
<1>5. CASE m_state = "IDLE"
  <2>1. InUse /\ VolumesClean /\ OneOperation
    BY <1>5 DEF LogInv, InUse
  <2>2. v = c /\ Place(stored + 1) = 0
    BY <1>2, <2>1 DEF VolumesClean
  <2>3. /\ b' = [b EXCEPT !.dirty = b.dirty \ {c}, !.ready = TRUE]
        /\ op' = [op EXCEPT ![c] = Rest] /\ m_state' = "IDLE"
    BY <1>1, <1>5, <2>1, <2>2 DEF EraseDone, StillDirty, InUse
  <2>4. /\ b'.ready = TRUE /\ b'.currVol = c /\ b'.nextIndex = b.nextIndex /\ b'.dirty = b.dirty \ {c}
        /\ b' \in [ready : BOOLEAN, currVol : Volumes, dirty : SUBSET Volumes, nextIndex : Places]
    BY <1>t, <2>3 DEF Types
  <2>5. \A w \in Volumes : op'[w] = IF w = c THEN Rest ELSE op[w]
    BY <1>t, <2>3 DEF Types
  <2>6. Types'
    <3>1. op' \in [Volumes -> {Rest, Erasure} \cup {Reading(x) : x \in Seqno}
                              \cup {Writing(k) : k \in Nat \ {0}}]
      BY <1>t, <2>3 DEF Types
    <3> QED BY <1>t, <1>2, <1>3, <2>3, <2>4, <3>1 DEF Types
  <2>7. OneOperation'
    <3>1. sent = stored
      BY <1>2, <2>1, <2>2 DEF OneOperation, Writing, Erasure
    <3>2. Rest.kind = "none"
      BY DEF Rest
    <3> QED BY <1>2, <1>4, <2>1, <2>5, <3>1, <3>2, Others DEF OneOperation
  <2>8. VolumesClean'
    <3>1. \A w \in Volumes : op'[w] # Erasure
      BY <1>4, <2>1, <2>5 DEF VolumesClean
    <3>2. \A p \in Places : cells'[c][p] = Erased
      BY <1>3, <2>2
    <3>3. 1 - c \in b.dirty \ {c} \/ \A p \in Places : cells'[1 - c][p] = Erased
      BY <1>3, <1>4, <2>1, <2>2, Others DEF VolumesClean, Blank
    <3> QED BY <1>4, <2>4, <3>1, <3>2, <3>3 DEF VolumesClean, Blank
  <2>9. InUse'
    BY <1>2, <2>1, <2>4, <2>7, <2>8 DEF InUse
  <2>10. RangeReadable'
    <3> SUFFICES ASSUME NEW m \in 1 .. stored, m + TR_VALID_RANGE >= stored
                 PROVE  cells'[Vol(m)][Place(m)] = Packet(m)
      BY <1>2 DEF RangeReadable, Wanted, Vol, Place
    <3>1. /\ m \in Nat \ {0} /\ stored + 1 \in Nat \ {0} /\ m < stored + 1
          /\ stored + 1 <= m + TR_VALID_RANGE + 1
      BY <1>t, SeqnoAssumption DEF Types
    <3>2. Vol(m) # Vol(stored + 1)
      BY <2>2, <3>1, Apart
    <3>3. Vol(m) \in Volumes /\ Place(m) \in Places /\ Vol(m) # v
      BY <2>1, <2>2, <3>1, <3>2, PlaceNext DEF InUse
    <3>4. cells[Vol(m)][Place(m)] = Packet(m)
      BY <1>t DEF RangeReadable, Wanted, Vol, Place
    <3> QED BY <1>3, <3>3, <3>4
  <2> QED BY <2>3, <2>6, <2>9, <2>10 DEF LogInv
<1>6. CASE m_state # "IDLE"
  <2>1. Erasing
    BY <1>6 DEF LogInv
  <2>2. RangeReadable'
    BY <1>2, <2>1 DEF RangeReadable, Wanted, Erasing
  <2>3. CASE v = 0
    <3>1. /\ b' = [b EXCEPT !.dirty = b.dirty \ {0}, !.ready = FALSE]
          /\ Follow(0, 1) /\ m_state' = m_state
      <4> DEFINE r == b.ready \/ ((~b.ready \/ m_state = "INIT") /\ v = 1)
      <4>1. b' = [b EXCEPT !.dirty = b.dirty \ {v}, !.ready = r]
        BY <1>1 DEF EraseDone, StillDirty
      <4>2. ~b.ready
        BY <2>1 DEF Erasing
      <4>3. r = FALSE
        BY <4>2, <2>3
      <4>4. Follow(0, 1) /\ m_state' = m_state
        BY <1>1, <4>2, <2>3 DEF EraseDone
      <4> HIDE DEF r
      <4> QED BY <4>1, <4>3, <4>4, <2>3
    <3>2. /\ b'.ready = FALSE /\ b'.currVol = b.currVol /\ b'.nextIndex = b.nextIndex
          /\ b'.dirty = b.dirty \ {0}
          /\ b' \in [ready : BOOLEAN, currVol : Volumes, dirty : SUBSET Volumes, nextIndex : Places]
      BY <1>t, <3>1 DEF Types
    <3>3. op' = [op EXCEPT ![0] = Rest, ![1] = Erasure]
      BY <1>4, <2>1, <3>1 DEF Follow, Erasing
    <3>4. Types'
      <4>1. op' \in [Volumes -> {Rest, Erasure} \cup {Reading(x) : x \in Seqno}
                                \cup {Writing(k) : k \in Nat \ {0}}]
        BY <1>t, <3>3 DEF Types
      <4> QED BY <1>t, <1>2, <1>3, <3>1, <3>2, <4>1 DEF Types
    <3>5. \A w \in Volumes : op'[w] \in {Rest, Erasure}
      BY <1>t, <3>3 DEF Types, Volumes
    <3>6. Erasing'
      BY <1>2, <1>3, <2>1, <2>3, <3>2, <3>5 DEF Erasing, Blank
    <3> QED BY <1>6, <2>2, <3>1, <3>4, <3>6 DEF LogInv
  <2>4. CASE v = 1
    <3>1. /\ b' = [b EXCEPT !.dirty = b.dirty \ {1}, !.ready = TRUE]
          /\ op' = [op EXCEPT ![1] = Rest] /\ m_state' = "IDLE"
      <4> DEFINE r == b.ready \/ ((~b.ready \/ m_state = "INIT") /\ v = 1)
      <4>1. b' = [b EXCEPT !.dirty = b.dirty \ {v}, !.ready = r]
        BY <1>1 DEF EraseDone, StillDirty
      <4>2. ~b.ready
        BY <2>1 DEF Erasing
      <4>3. r = TRUE
        BY <4>2, <2>4
      <4>4. op' = [op EXCEPT ![1] = Rest] /\ m_state' = "IDLE"
        BY <1>1, <4>2, <2>4 DEF EraseDone
      <4> HIDE DEF r
      <4> QED BY <4>1, <4>3, <4>4, <2>4
    <3>2. /\ b'.ready = TRUE /\ b'.currVol = 0 /\ b'.nextIndex = 0
          /\ b'.dirty = b.dirty \ {1}
          /\ b' \in [ready : BOOLEAN, currVol : Volumes, dirty : SUBSET Volumes, nextIndex : Places]
      BY <1>t, <2>1, <3>1 DEF Types, Erasing
    <3>3. op'[0] = op[0] /\ op'[1] = Rest
      BY <1>t, <1>4, <3>1 DEF Types
    <3>4. Types'
      <4>1. op' \in [Volumes -> {Rest, Erasure} \cup {Reading(x) : x \in Seqno}
                                \cup {Writing(k) : k \in Nat \ {0}}]
        BY <1>t, <3>1 DEF Types
      <4> QED BY <1>t, <1>2, <1>3, <3>1, <3>2, <4>1 DEF Types
    <3>5. sent' = 0 /\ stored' = 0
      BY <1>2, <2>1 DEF Erasing
    <3>6. \A w \in Volumes : op'[w] \in {Rest, Erasure} /\ (op'[w] = Erasure => w = 0)
      BY <1>4, <2>1, <3>3 DEF Erasing, Volumes
    <3>7. Rest.kind = "none" /\ Erasure.kind = "erase"
      BY DEF Rest, Erasure
    <3>8. OneOperation'
      <4>1. \A w \in Volumes : op'[w].kind # "write" /\ op'[w].kind # "read"
        BY <3>6, <3>7
      <4> QED BY <3>5, <4>1 DEF OneOperation
    <3>9. VolumesClean'
      <4>1. op'[0] = Erasure \/ (0 \notin b'.dirty /\ \A p \in Places : cells'[0][p] = Erased)
        BY <1>3, <1>4, <2>1, <2>4, <3>2, <3>3 DEF Erasing, Blank
      <4>2. \A p \in Places : cells'[1][p] = Erased
        BY <1>3, <2>4
      <4> QED BY <3>2, <3>5, <3>6, <4>1, <4>2, FirstPlace DEF VolumesClean, Blank
    <3>10. InUse'
      BY <3>2, <3>5, <3>8, <3>9, FirstPlace DEF InUse
    <3> QED BY <2>2, <3>1, <3>4, <3>10 DEF LogInv
  <2> QED BY <2>3, <2>4 DEF Volumes
<1> QED BY <1>5, <1>6

LEMMA StepLog == LogInv /\ [Next]_vars => LogInv'
BY StutterLog, WriteKeeps, WrittenKeeps, ReadKeeps, ReadEndKeeps, EraseKeeps, ErasedKeeps DEF Next

LEMMA LogInvHolds == Spec => []LogInv
BY InitLog, StepLog, PTL DEF Spec

-----------------------------------------------------------------------------
\* A place is not written twice between two erasures: the write that ends finds
\* its place blank.
LEMMA StepOverwrites ==
  LogInv /\ [Next]_vars
    => [\A v \in Volumes, p \in Places : cells'[v][p] = Garbage => cells[v][p] = Garbage]_vars
<1> SUFFICES ASSUME LogInv, Next, NEW v \in Volumes, NEW p \in Places, cells'[v][p] = Garbage
             PROVE  cells[v][p] = Garbage
  OBVIOUS
<1>t. Types
  BY DEF LogInv
<1>1. CASE PacketWritten
  <2>1. /\ sent = stored + 1
        /\ cells' = [cells EXCEPT ![b.currVol][Place(sent)] = Packet(sent)]
    BY <1>1, WriteEnds
  <2>2. sent \in Nat \ {0}
    BY <1>t, <2>1 DEF Types
  <2>3. Packet(sent) # Garbage /\ Place(sent) \in Places
    BY <2>2, Contents, PlaceNext
  <2> QED BY <1>t, <2>1, <2>3 DEF Types
<1>2. CASE LogErased
  <2>1. PICK w \in Volumes : cells' = [cells EXCEPT ![w] = [q \in Places |-> Erased]]
    BY <1>2 DEF LogErased, EraseDone
  <2>2. Erased # Garbage
    BY Contents
  <2> QED BY <1>t, <2>1, <2>2 DEF Types
<1>3. CASE WritePacket \/ ReadPacket \/ PacketRead \/ EraseLog
  <2>1. cells' = cells
    BY <1>3 DEF WritePacket, Write, ReadPacket, Read, PacketRead, ReadDone, EraseLog, Erase, logVars
  <2> QED BY <2>1
<1> QED BY <1>1, <1>2, <1>3 DEF Next

\* Every packet that may be asked for again is where read looks for it.
THEOREM RangeReadableHolds == Spec => []RangeReadable
<1>1. LogInv => RangeReadable
  BY DEF LogInv
<1> QED BY <1>1, LogInvHolds, PTL

\* No place is written twice between two erasures.
THEOREM NeverOverwritesHolds == Spec => NeverOverwrites
BY LogInvHolds, StepOverwrites, PTL DEF Spec, NeverOverwrites

=============================================================================
