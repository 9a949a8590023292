--------------------------- MODULE TrSeqno_proofs ---------------------------
(***************************************************************************)
(* Facts about the arithmetic of tr_seqno.c, for every ring size, valid    *)
(* range and integer width that SeqnoAssumption allows.                    *)
(***************************************************************************)
EXTENDS TrSeqno, TLAPS

\* The number k steps after b, written without the wrapping arithmetic.
Ahead(b, k) == IF b + k > TR_MAX_SEQNO THEN b + k - TR_MAX_SEQNO ELSE b + k

\* tr_seqno_add moves k steps forward as long as k is within the valid range
\* (tr_seqno.c:72-80): the uint16_t sum does not overflow.
LEMMA AddIsAhead ==
  ASSUME NEW b \in Seqno, NEW k \in 0 .. TR_VALID_RANGE
  PROVE  /\ tr_seqno_add(b, k) = Ahead(b, k)
         /\ Ahead(b, k) \in Seqno
BY SeqnoAssumption DEF tr_seqno_add, Ahead, U16Wrap, Seqno, TR_FIRST_SEQNO

\* tr_seqno_next moves one step forward, from whichever number.
LEMMA NextAhead ==
  ASSUME NEW b \in Seqno, NEW k \in 0 .. (TR_VALID_RANGE - 1)
  PROVE  /\ tr_seqno_next(b) \in Seqno
         /\ tr_seqno_next(Ahead(b, k)) = Ahead(b, k + 1)
         /\ k > 0 => Ahead(tr_seqno_next(b), k - 1) = Ahead(b, k)
         /\ k > 0 => tr_seqno_prev(Ahead(b, k)) = Ahead(b, k - 1)
BY SeqnoAssumption
   DEF Ahead, tr_seqno_next, tr_seqno_prev, Seqno, TR_FIRST_SEQNO

\* The comparison is right, and antisymmetric, for every lead below
\* TR_VALID_RANGE, wrapped or not (tr_seqno.c:86-113).
THEOREM CmpOfLead ==
  ASSUME NEW b \in Seqno, NEW k \in 1 .. (TR_VALID_RANGE - 1)
  PROVE  /\ tr_seqno_cmp(Ahead(b, k), b) = 1
         /\ tr_seqno_cmp(b, Ahead(b, k)) = -1
<1> DEFINE a == Ahead(b, k)
<1>1. a \in Seqno /\ a # b
  BY SeqnoAssumption DEF Ahead, Seqno, TR_FIRST_SEQNO
<1>2. CASE b + k > TR_MAX_SEQNO
  <2>1. a < b /\ b - a = TR_MAX_SEQNO - k
    BY <1>2, SeqnoAssumption DEF Ahead, Seqno, TR_FIRST_SEQNO
  <2>2. tr_seqno_add(a, U16Wrap(TR_MAX_SEQNO - b)) = k
    BY <1>2, SeqnoAssumption
       DEF Ahead, tr_seqno_add, U16Wrap, Seqno, TR_FIRST_SEQNO
  <2>3. WrapsPast(a, b)
    BY <2>1, <2>2, SeqnoAssumption DEF WrapsPast, Seqno
  <2> QED
    BY <1>1, <2>1, <2>3 DEF tr_seqno_cmp, Seqno, TR_FIRST_SEQNO
<1>3. CASE b + k <= TR_MAX_SEQNO
  <2>1. b < a /\ a - b = k
    BY <1>3, SeqnoAssumption DEF Ahead, Seqno, TR_FIRST_SEQNO
  <2>2. ~WrapsPast(b, a)
    BY <2>1, SeqnoAssumption DEF WrapsPast, Seqno
  <2> QED
    BY <1>1, <2>1, <2>2, SeqnoAssumption DEF tr_seqno_cmp, Seqno, TR_FIRST_SEQNO
<1> QED BY <1>2, <1>3, SeqnoAssumption DEF Seqno, TR_FIRST_SEQNO

\* The difference of two numbers k apart is k (tr_seqno.c:44-48).
LEMMA DiffOfLead ==
  ASSUME NEW b \in Seqno, NEW k \in 0 .. (TR_VALID_RANGE - 1)
  PROVE  tr_seqno_diff(Ahead(b, k), b) = k
BY SeqnoAssumption DEF Ahead, tr_seqno_diff, U16Wrap, Seqno, TR_FIRST_SEQNO


-----------------------------------------------------------------------------
\* A remainder is unique.
LEMMA RemainderUnique ==
  ASSUME NEW M \in Nat \ {0}, NEW q1 \in Int, NEW q2 \in Int,
         NEW r1 \in 0 .. (M - 1), NEW r2 \in 0 .. (M - 1), M * q1 + r1 = M * q2 + r2
  PROVE  r1 = r2
<1>1. M * (q1 - q2) = r2 - r1
  OBVIOUS
<1>2. CASE q1 - q2 >= 1
  <2>1. M * (q1 - q2) >= M BY <1>2
  <2> QED BY <2>1, <1>1
<1>3. CASE q2 - q1 >= 1
  <2>1. M * (q2 - q1) >= M BY <1>3
  <2>2. M * (q2 - q1) = r1 - r2 BY <1>1
  <2> QED BY <2>1, <2>2
<1>4. CASE q1 = q2
  BY <1>4, <1>1
<1> QED BY <1>2, <1>3, <1>4

\* A quotient is unique.
LEMMA QuotientUnique ==
  ASSUME NEW M \in Nat \ {0}, NEW q1 \in Int, NEW q2 \in Int,
         NEW r1 \in 0 .. (M - 1), NEW r2 \in 0 .. (M - 1), M * q1 + r1 = M * q2 + r2
  PROVE  q1 = q2
<1>1. r1 = r2
  BY RemainderUnique
<1>2. M * (q1 - q2) = 0
  BY <1>1
<1>3. q1 - q2 >= 1 => M * (q1 - q2) >= M
  OBVIOUS
<1>4. q2 - q1 >= 1 => M * (q2 - q1) >= M
  OBVIOUS
<1>5. M * (q2 - q1) = 0
  BY <1>2
<1> QED BY <1>2, <1>3, <1>4, <1>5

LEMMA RemainderOfSmall ==
  ASSUME NEW M \in Nat \ {0}, NEW n \in 0 .. (M - 1)
  PROVE  n % M = n
<1> DEFINE q == n \div M
           r == n % M
<1>1. q \in Int /\ r \in 0 .. (M - 1) /\ n = M * q + r
  OBVIOUS
<1> HIDE DEF q, r
<1>2. M * 0 + n = M * q + r
  BY <1>1
<1>3. n = r
  BY <1>1, <1>2, RemainderUnique
<1> QED BY <1>3 DEF r

\* Moving j on, at most once round: what remains after dividing by M.
LEMMA RemainderAhead ==
  ASSUME NEW M \in Nat \ {0}, NEW n \in Nat, NEW j \in 0 .. M
  PROVE  (n + j) % M = IF (n % M) + j >= M THEN (n % M) + j - M ELSE (n % M) + j
<1> DEFINE q == n \div M
           r == n % M
           p == (n + j) \div M
           s == (n + j) % M
<1>1. q \in Int /\ q + 1 \in Int /\ r \in 0 .. (M - 1) /\ n = M * q + r
  OBVIOUS
<1>2. p \in Int /\ s \in 0 .. (M - 1) /\ n + j = M * p + s
  OBVIOUS
<1>3. M * (q + 1) = M * q + M
  BY <1>1
<1> HIDE DEF q, r, p, s
<1>4. CASE r + j >= M
  <2>1. r + j - M \in 0 .. (M - 1) BY <1>1, <1>4
  <2>2. M * (q + 1) + (r + j - M) = M * p + s BY <1>1, <1>2, <1>3, <2>1
  <2>3. r + j - M = s BY <2>1, <2>2, <1>1, <1>2, RemainderUnique
  <2> QED BY <2>3, <1>4 DEF r, s
<1>5. CASE r + j < M
  <2>1. r + j \in 0 .. (M - 1) BY <1>1, <1>5
  <2>2. M * q + (r + j) = M * p + s BY <1>1, <1>2
  <2>3. r + j = s BY <2>1, <2>2, <1>1, <1>2, RemainderUnique
  <2> QED BY <2>3, <1>1, <1>5 DEF r, s
<1> QED BY <1>1, <1>4, <1>5

\* The packet k after the n-th, at most once round the ring, carries the number
\* k ahead of the n-th's.
LEMMA SeqOfLater ==
  ASSUME NEW n \in Nat \ {0}, NEW k \in 0 .. TR_MAX_SEQNO
  PROVE  /\ SeqOf(n) \in Seqno
         /\ SeqOf(n + k) = Ahead(SeqOf(n), k)
<1>1. TR_MAX_SEQNO \in Nat \ {0} /\ n - 1 \in Nat
  BY SeqnoAssumption
<1>2. (n - 1) % TR_MAX_SEQNO \in 0 .. (TR_MAX_SEQNO - 1)
  BY <1>1
<1>3. (n - 1 + k) % TR_MAX_SEQNO
        = IF ((n - 1) % TR_MAX_SEQNO) + k >= TR_MAX_SEQNO
          THEN ((n - 1) % TR_MAX_SEQNO) + k - TR_MAX_SEQNO ELSE ((n - 1) % TR_MAX_SEQNO) + k
  BY <1>1, RemainderAhead
<1>4. n + k - 1 = n - 1 + k
  BY <1>1
<1> QED BY <1>1, <1>2, <1>3, <1>4 DEF SeqOf, Ahead, Seqno, TR_FIRST_SEQNO

\* The same, within the valid range.
LEMMA SeqOfAhead ==
  ASSUME NEW n \in Nat \ {0}, NEW k \in 0 .. TR_VALID_RANGE
  PROVE  /\ SeqOf(n) \in Seqno
         /\ SeqOf(n + k) = Ahead(SeqOf(n), k)
<1>1. k \in 0 .. TR_MAX_SEQNO
  BY SeqnoAssumption
<1> QED BY <1>1, SeqOfLater

\* Before the first wrap the number of a packet is its index.
LEMMA SeqOfSmall == ASSUME NEW n \in 1 .. TR_MAX_SEQNO PROVE SeqOf(n) = n /\ n \in Seqno
<1>1. n - 1 \in 0 .. (TR_MAX_SEQNO - 1) /\ TR_MAX_SEQNO \in Nat \ {0}
  BY SeqnoAssumption
<1> DEFINE q == (n - 1) \div TR_MAX_SEQNO
           r == (n - 1) % TR_MAX_SEQNO
<1>2. q \in Int /\ r \in 0 .. (TR_MAX_SEQNO - 1) /\ n - 1 = TR_MAX_SEQNO * q + r
  BY <1>1
<1>3. TR_MAX_SEQNO * 0 + (n - 1) = TR_MAX_SEQNO * q + r /\ 0 \in Int
  BY <1>1, <1>2
<1> HIDE DEF q, r
<1>4. n - 1 = r
  BY <1>1, <1>2, <1>3, RemainderUnique
<1> QED BY <1>1, <1>4 DEF r, SeqOf, Seqno, TR_FIRST_SEQNO

\* tr_seqno_next gives the number of the next packet.
LEMMA NextSeq ==
  ASSUME NEW n \in Nat \ {0}
  PROVE  SeqOf(n) \in Seqno /\ tr_seqno_next(SeqOf(n)) = SeqOf(n + 1)
<1>1. 1 \in 0 .. TR_VALID_RANGE
  BY SeqnoAssumption
<1>2. SeqOf(n) \in Seqno /\ SeqOf(n + 1) = Ahead(SeqOf(n), 1)
  BY <1>1, SeqOfAhead
<1> QED BY <1>2, SeqnoAssumption DEF Ahead, tr_seqno_next, Seqno, TR_FIRST_SEQNO

\* Two packets less than a ring apart carry different numbers.
LEMMA SeqOfInjective ==
  ASSUME NEW m \in Nat \ {0}, NEW n \in Nat \ {0}, SeqOf(m) = SeqOf(n),
         m < n + TR_MAX_SEQNO, n < m + TR_MAX_SEQNO
  PROVE  m = n
<1>1. ASSUME NEW a \in Nat \ {0}, NEW k \in 1 .. (TR_MAX_SEQNO - 1)
      PROVE  SeqOf(a + k) # SeqOf(a)
  <2>1. k \in 0 .. TR_MAX_SEQNO /\ k > 0 /\ k < TR_MAX_SEQNO
    BY SeqnoAssumption
  <2>2. SeqOf(a) \in 1 .. TR_MAX_SEQNO /\ SeqOf(a + k) = Ahead(SeqOf(a), k)
    BY <2>1, SeqOfLater DEF Seqno, TR_FIRST_SEQNO
  <2>3. Ahead(SeqOf(a), k) # SeqOf(a)
    BY <2>1, <2>2, SeqnoAssumption DEF Ahead
  <2> QED BY <2>2, <2>3
<1>2. CASE m < n
  <2>1. n - m \in 1 .. (TR_MAX_SEQNO - 1) /\ m + (n - m) = n
    BY <1>2, SeqnoAssumption
  <2> QED BY <1>1, <2>1
<1>3. CASE n < m
  <2>1. m - n \in 1 .. (TR_MAX_SEQNO - 1) /\ n + (m - n) = m
    BY <1>3, SeqnoAssumption
  <2> QED BY <1>1, <2>1
<1> QED BY <1>2, <1>3

\* Two packets less than the range apart are compared in the order they were
\* sent, whatever number the stream has reached (tr_seqno.c:86-113).
THEOREM CmpOfPackets ==
  ASSUME NEW m \in Nat \ {0}, NEW n \in Nat \ {0},
         n < m + TR_VALID_RANGE, m < n + TR_VALID_RANGE
  PROVE  tr_seqno_cmp(SeqOf(n), SeqOf(m)) = IF n = m THEN 0 ELSE IF m < n THEN 1 ELSE -1
<1>1. CASE n = m
  BY <1>1 DEF tr_seqno_cmp
<1>2. CASE m < n
  <2>1. n - m \in 1 .. (TR_VALID_RANGE - 1) /\ n - m \in 0 .. TR_VALID_RANGE /\ m + (n - m) = n
    BY <1>2, SeqnoAssumption
  <2> QED BY <1>2, <2>1, SeqOfAhead, CmpOfLead
<1>3. CASE n < m
  <2>1. m - n \in 1 .. (TR_VALID_RANGE - 1) /\ m - n \in 0 .. TR_VALID_RANGE /\ n + (m - n) = m
    BY <1>3, SeqnoAssumption
  <2> QED BY <1>3, <2>1, SeqOfAhead, CmpOfLead
<1> QED BY <1>1, <1>2, <1>3

\* Far apart, numbers are compared as numbers: a lead that is not within
\* TR_VALID_RANGE of a whole ring is no wrap (tr_seqno.c:86-113).
LEMMA CmpNumeric ==
  ASSUME NEW a \in Seqno, NEW b \in Seqno, a < b, b - a <= TR_MAX_SEQNO - TR_VALID_RANGE
  PROVE  tr_seqno_cmp(a, b) = -1 /\ tr_seqno_cmp(b, a) = 1
<1>1. ~WrapsPast(a, b)
  BY SeqnoAssumption DEF WrapsPast, tr_seqno_add, U16Wrap, Seqno, TR_FIRST_SEQNO
<1> QED BY <1>1 DEF tr_seqno_cmp, Seqno, TR_FIRST_SEQNO

\* Packets m and n are less than TR_VALID_RANGE apart, or neither has wrapped
\* and they are not almost a ring apart: close enough to be compared.
Near(m, n) ==
  \/ m < n + TR_VALID_RANGE /\ n < m + TR_VALID_RANGE
  \/ /\ m <= TR_MAX_SEQNO /\ n <= TR_MAX_SEQNO
     /\ m - n <= TR_MAX_SEQNO - TR_VALID_RANGE /\ n - m <= TR_MAX_SEQNO - TR_VALID_RANGE

\* Packets that are near are compared in the order they were sent.
LEMMA CmpOfNear ==
  ASSUME NEW m \in Nat \ {0}, NEW n \in Nat \ {0}, Near(m, n)
  PROVE  tr_seqno_cmp(SeqOf(n), SeqOf(m)) = IF n = m THEN 0 ELSE IF m < n THEN 1 ELSE -1
<1>1. CASE m < n + TR_VALID_RANGE /\ n < m + TR_VALID_RANGE
  BY <1>1, CmpOfPackets
<1>2. CASE /\ m <= TR_MAX_SEQNO /\ n <= TR_MAX_SEQNO
           /\ m - n <= TR_MAX_SEQNO - TR_VALID_RANGE /\ n - m <= TR_MAX_SEQNO - TR_VALID_RANGE
  <2>1. /\ SeqOf(m) = m /\ SeqOf(n) = n /\ m \in Seqno /\ n \in Seqno
    BY <1>2, SeqOfSmall
  <2>2. CASE n = m
    BY <2>2 DEF tr_seqno_cmp
  <2> QED BY <1>2, <2>1, <2>2, CmpNumeric
<1> QED BY <1>1, <1>2 DEF Near

-----------------------------------------------------------------------------
(* A ring of packets in two halves of Size places each.                    *)

\* The half the n-th packet goes to, its place there, and in the ring.
Half(n, Size) == ((SeqOf(n) - 1) \div Size) % 2
InHalf(n, Size) == (SeqOf(n) - 1) % Size
Pos(n, Size) == (n - 1) % (2 * Size)

\* A ring of numbers is a whole number of rings of places, so the wrap of the
\* numbers does not move the next packet (StrLoggerP.nc:157-158).
LEMMA HalfIs ==
  ASSUME NEW Size \in Nat \ {0}, TR_MAX_SEQNO % (2 * Size) = 0, NEW n \in Nat \ {0}
  PROVE  /\ Pos(n, Size) \in 0 .. (2 * Size - 1)
         /\ Half(n, Size) = IF Pos(n, Size) >= Size THEN 1 ELSE 0
         /\ InHalf(n, Size) = IF Pos(n, Size) >= Size THEN Pos(n, Size) - Size ELSE Pos(n, Size)
<1> DEFINE M == TR_MAX_SEQNO
           F == Size
           D == 2 * F
           k == M \div D
           q == (n - 1) \div M
           r == (n - 1) % M
           a == r \div D
           s == r % D
           q3 == (n - 1) \div D
           p == (n - 1) % D
           u == r \div F
           i == r % F
<1>1. F \in Nat \ {0} /\ M \in Nat \ {0} /\ D \in Nat \ {0} /\ M % D = 0 /\ n - 1 \in Nat
  BY SeqnoAssumption
<1>2. k \in Int /\ M = D * k
  <2> DEFINE z == M % D
  <2> HIDE DEF M, D
  <2>1. k \in Int /\ M = D * k + z
    BY <1>1
  <2>2. z = 0
    BY <1>1
  <2> HIDE DEF z, k
  <2> QED BY <1>1, <2>1, <2>2
<1>3. q \in Int /\ r \in 0 .. (M - 1) /\ n - 1 = M * q + r
  <2> HIDE DEF M
  <2> QED BY <1>1
<1>4. a \in Int /\ s \in 0 .. (D - 1) /\ r = D * a + s
  <2> HIDE DEF D, r
  <2> QED BY <1>1, <1>3
<1>5. q3 \in Int /\ p \in 0 .. (D - 1) /\ n - 1 = D * q3 + p
  <2> HIDE DEF D
  <2> QED BY <1>1
<1>6. u \in Int /\ i \in 0 .. (F - 1) /\ r = F * u + i
  <2> HIDE DEF F, r
  <2> QED BY <1>1, <1>3
<1>7. Pos(n, Size) = p /\ Half(n, Size) = u % 2 /\ InHalf(n, Size) = i
  BY <1>1, <1>3 DEF Pos, Half, InHalf, SeqOf
<1>d. D = 2 * F
  OBVIOUS
<1> HIDE DEF M, F, D, k, q, r, a, s, q3, p, u, i
<1>8. s = p
  <2>1. M * q = D * (k * q)
    BY <1>1, <1>2, <1>3
  <2>2. D * (k * q) + D * a = D * (k * q + a) /\ k * q + a \in Int
    BY <1>1, <1>2, <1>3, <1>4
  <2>3. D * (k * q + a) + s = D * q3 + p
    BY <1>1, <1>2, <1>3, <1>4, <1>5, <2>1, <2>2
  <2> QED BY <1>1, <1>4, <1>5, <2>2, <2>3, RemainderUnique
<1>9. D * a = F * (2 * a)
  BY <1>1, <1>4, <1>d
<1>10. CASE p >= F
  <2>1. F * (2 * a + 1) = F * (2 * a) + F
    BY <1>1, <1>4
  <2>2. F * (2 * a + 1) + (p - F) = F * u + i /\ p - F \in 0 .. (F - 1) /\ 2 * a + 1 \in Int
    BY <1>1, <1>4, <1>5, <1>6, <1>8, <1>9, <1>10, <1>d, <2>1
  <2> DEFINE q1 == 2 * a + 1
             r1 == p - F
  <2>3. q1 \in Int /\ r1 \in 0 .. (F - 1) /\ F * q1 + r1 = F * u + i
    BY <2>2
  <2> HIDE DEF q1, r1
  <2>4. q1 = u /\ r1 = i
    BY <1>1, <1>6, <2>3, QuotientUnique, RemainderUnique
  <2>5. u % 2 = 1
    BY <1>4, <2>4 DEF q1
  <2> QED BY <1>1, <1>5, <1>7, <1>10, <2>4, <2>5 DEF D, F, r1
<1>11. CASE p < F
  <2>1. F * (2 * a) + p = F * u + i /\ p \in 0 .. (F - 1) /\ 2 * a \in Int
    BY <1>1, <1>4, <1>5, <1>6, <1>8, <1>9, <1>11, <1>d
  <2>2. 2 * a = u /\ p = i
    BY <1>1, <1>6, <2>1, QuotientUnique, RemainderUnique
  <2>3. u % 2 = 0
    BY <1>4, <2>2
  <2> QED BY <1>1, <1>5, <1>7, <1>11, <2>2, <2>3 DEF D, F
<1> QED BY <1>1, <1>5, <1>10, <1>11

\* Moving j on, at most half round.
LEMMA PosAhead ==
  ASSUME NEW Size \in Nat \ {0}, NEW n \in Nat \ {0}, NEW j \in 0 .. Size
  PROVE  Pos(n + j, Size) = IF Pos(n, Size) + j >= 2 * Size
                      THEN Pos(n, Size) + j - 2 * Size ELSE Pos(n, Size) + j
<1> DEFINE D == 2 * Size
<1>1. D \in Nat \ {0} /\ j \in 0 .. D /\ n - 1 \in Nat /\ n + j - 1 = (n - 1) + j
  BY SeqnoAssumption
<1>2. Pos(n + j, Size) = ((n - 1) + j) % D /\ Pos(n, Size) = (n - 1) % D
  BY <1>1 DEF Pos
<1> HIDE DEF D
<1>3. ((n - 1) + j) % D = IF ((n - 1) % D) + j >= D THEN ((n - 1) % D) + j - D ELSE ((n - 1) % D) + j
  BY <1>1, RemainderAhead
<1>4. Pos(n + j, Size) = IF Pos(n, Size) + j >= D THEN Pos(n, Size) + j - D ELSE Pos(n, Size) + j
  BY <1>2, <1>3
<1> QED BY <1>4 DEF D

\* The next packet goes to the next place, or to the first of the other half.
LEMMA HalfNext ==
  ASSUME NEW Size \in Nat \ {0}, TR_MAX_SEQNO % (2 * Size) = 0, NEW n \in Nat \ {0}
  PROVE  /\ InHalf(n, Size) \in 0 .. (Size - 1) /\ Half(n, Size) \in {0, 1}
         /\ (InHalf(n, Size) + 1) % Size = InHalf(n + 1, Size)
         /\ InHalf(n + 1, Size) = 0 => Half(n + 1, Size) = 1 - Half(n, Size)
         /\ InHalf(n + 1, Size) # 0 => /\ InHalf(n + 1, Size) = InHalf(n, Size) + 1
                                       /\ Half(n + 1, Size) = Half(n, Size)
<1> DEFINE F == Size
<1>1. F \in Nat \ {0} /\ n + 1 \in Nat \ {0} /\ 1 \in 0 .. F
  BY SeqnoAssumption
<1>2. Pos(n + 1, Size) = IF Pos(n, Size) + 1 >= 2 * F THEN Pos(n, Size) + 1 - 2 * F ELSE Pos(n, Size) + 1
  BY <1>1, PosAhead
<1>3. /\ Pos(n, Size) \in 0 .. (2 * F - 1)
      /\ Half(n, Size) = IF Pos(n, Size) >= F THEN 1 ELSE 0
      /\ InHalf(n, Size) = IF Pos(n, Size) >= F THEN Pos(n, Size) - F ELSE Pos(n, Size)
  BY HalfIs
<1>4. /\ Half(n + 1, Size) = IF Pos(n + 1, Size) >= F THEN 1 ELSE 0
      /\ InHalf(n + 1, Size) = IF Pos(n + 1, Size) >= F THEN Pos(n + 1, Size) - F ELSE Pos(n + 1, Size)
  BY <1>1, HalfIs
<1>n. (InHalf(n, Size) + 1) % Size = (InHalf(n, Size) + 1) % F /\ F = Size
  OBVIOUS
<1> HIDE DEF F
<1>5. InHalf(n, Size) \in 0 .. (F - 1) /\ Half(n, Size) \in {0, 1}
  BY <1>1, <1>3
<1>6. (InHalf(n, Size) + 1) % F = IF InHalf(n, Size) + 1 >= F THEN 0 ELSE InHalf(n, Size) + 1
  <2>1. CASE InHalf(n, Size) + 1 < F
    BY <1>1, <1>5, <2>1, RemainderOfSmall
  <2>2. CASE InHalf(n, Size) + 1 = F
    <3>1. 0 \in 0 .. (F - 1) /\ 0 \in Nat /\ F \in 0 .. F
      BY <1>1
    <3>2. 0 % F = 0
      BY <1>1, <3>1, RemainderOfSmall
    <3>3. (0 + F) % F = IF (0 % F) + F >= F THEN (0 % F) + F - F ELSE (0 % F) + F
      BY <1>1, <3>1, RemainderAhead
    <3>4. 0 + F = F /\ InHalf(n, Size) + 1 = 0 + F
      BY <1>1, <2>2
    <3>5. (0 + F) % F = 0
      BY <1>1, <3>2, <3>3
    <3> QED BY <1>1, <1>5, <2>2, <3>4, <3>5
  <2> QED BY <1>1, <1>5, <2>1, <2>2
<1>7. CASE Pos(n, Size) < F
  BY <1>1, <1>2, <1>3, <1>4, <1>5, <1>6, <1>7, <1>n
<1>8. CASE Pos(n, Size) >= F
  BY <1>1, <1>2, <1>3, <1>4, <1>5, <1>6, <1>8, <1>n
<1> QED BY <1>1, <1>3, <1>7, <1>8

\* Two packets at most Size apart are not in the same place, and not even in the
\* same half when the later one is the first there.
LEMMA HalvesApart ==
  ASSUME NEW Size \in Nat \ {0}, TR_MAX_SEQNO % (2 * Size) = 0,
         NEW m \in Nat \ {0}, NEW n \in Nat \ {0}, m < n, n <= m + Size
  PROVE  /\ Half(m, Size) # Half(n, Size) \/ InHalf(m, Size) # InHalf(n, Size)
         /\ InHalf(n, Size) = 0 => Half(m, Size) # Half(n, Size)
<1> DEFINE F == Size
           j == n - m
<1>1. F \in Nat \ {0} /\ j \in 1 .. F /\ j \in 0 .. F /\ n = m + j
  BY SeqnoAssumption
<1>3. /\ Pos(m, Size) \in 0 .. (2 * F - 1)
      /\ Half(m, Size) = IF Pos(m, Size) >= F THEN 1 ELSE 0
      /\ InHalf(m, Size) = IF Pos(m, Size) >= F THEN Pos(m, Size) - F ELSE Pos(m, Size)
      /\ Half(n, Size) = IF Pos(n, Size) >= F THEN 1 ELSE 0
      /\ InHalf(n, Size) = IF Pos(n, Size) >= F THEN Pos(n, Size) - F ELSE Pos(n, Size)
  BY HalfIs
<1> HIDE DEF j
<1>2. Pos(m + j, Size) = IF Pos(m, Size) + j >= 2 * F THEN Pos(m, Size) + j - 2 * F ELSE Pos(m, Size) + j
  BY <1>1, PosAhead
<1> HIDE DEF F
<1>4. Pos(n, Size) = IF Pos(m, Size) + j >= 2 * F THEN Pos(m, Size) + j - 2 * F ELSE Pos(m, Size) + j
  BY <1>1, <1>2
<1>5. Half(m, Size) # Half(n, Size) \/ (InHalf(m, Size) # InHalf(n, Size) /\ InHalf(n, Size) # 0)
  BY <1>1, <1>3, <1>4
<1> QED BY <1>5

\* The first packet goes to the first place.
LEMMA HalfFirst ==
  ASSUME NEW Size \in Nat \ {0}, TR_MAX_SEQNO % (2 * Size) = 0
  PROVE  InHalf(1, Size) = 0 /\ Half(1, Size) = 0
<1> DEFINE D == 2 * Size
<1>1. D \in Nat \ {0} /\ 1 \in Nat \ {0} /\ Size \in Nat \ {0} /\ 0 \in 0 .. (D - 1)
  BY SeqnoAssumption
<1>2. Pos(1, Size) = 0 % D
  BY DEF Pos
<1> HIDE DEF D
<1>3. Pos(1, Size) = 0
  BY <1>1, <1>2, RemainderOfSmall
<1> QED BY <1>1, <1>3, HalfIs

=============================================================================
