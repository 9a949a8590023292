------------------------------ MODULE TrSeqno ------------------------------
(***************************************************************************)
(* Transport sequence numbers, shared by the motes and the master          *)
(* (mote/lib/transport/tr_seqno.c).  Numbers run from 1 to TR_MAX_SEQNO and *)
(* wrap back to 1; 0 stands for "nothing sent or received yet".            *)
(***************************************************************************)
EXTENDS Integers

CONSTANTS
  TR_MAX_SEQNO,     \* 50000 in tr_seqno.h
  TR_VALID_RANGE,   \* 200 in tr_seqno.h
  U16               \* 2^16: the numbers are uint16_t

\* The relations between the three numbers that tr_seqno.c relies on.  The
\* last one says that the loop of tr_seqno_add subtracts at most once.
ASSUME SeqnoAssumption ==
  /\ TR_MAX_SEQNO \in Nat /\ TR_VALID_RANGE \in Nat /\ U16 \in Nat
  /\ TR_VALID_RANGE > 0
  /\ 2 * TR_VALID_RANGE < TR_MAX_SEQNO
  /\ TR_MAX_SEQNO + TR_VALID_RANGE < U16
  /\ U16 <= 2 * TR_MAX_SEQNO

TR_FIRST_SEQNO == 1

Seqno == TR_FIRST_SEQNO .. TR_MAX_SEQNO
Seqno0 == {0} \cup Seqno
UInt16 == 0 .. (U16 - 1)

\* A uint16_t result: one wrap is enough, operands are below U16.
U16Wrap(x) == IF x >= U16 THEN x - U16 ELSE IF x < 0 THEN x + U16 ELSE x

\* A mutated form, for the sanity check of DiffGivesLead: the wrap forgotten.
Mut_diff(seq2, seq1) == U16Wrap(seq2 - seq1)

tr_seqno_diff(seq2, seq1) ==
  U16Wrap(IF seq1 > seq2 THEN TR_MAX_SEQNO + seq2 - seq1 ELSE seq2 - seq1)

tr_seqno_next(seq) == IF seq >= TR_MAX_SEQNO THEN TR_FIRST_SEQNO ELSE seq + 1

tr_seqno_prev(seq) == IF seq <= TR_FIRST_SEQNO THEN TR_MAX_SEQNO ELSE seq - 1

tr_seqno_add(a, b) ==
  LET c == U16Wrap(a + b)
      d == IF c > TR_MAX_SEQNO THEN c - TR_MAX_SEQNO ELSE c
  IN  IF d < TR_FIRST_SEQNO THEN TR_FIRST_SEQNO ELSE d

\* A mutated form, for the sanity check of CmpFollowsPosition: off by one.
Mut_WrapsPast(x, y) == /\ y - x > TR_VALID_RANGE
                       /\ tr_seqno_add(x, U16Wrap(TR_MAX_SEQNO - y)) < TR_VALID_RANGE - 1

\* Whether x lies behind the wrap of y: x < y numerically, yet x is the newer.
WrapsPast(x, y) == /\ y - x > TR_VALID_RANGE
                   /\ tr_seqno_add(x, U16Wrap(TR_MAX_SEQNO - y)) < TR_VALID_RANGE

\* 1 when a is newer, -1 when b is newer.  Pairs too far apart in both
\* directions fall back to the numeric order.
tr_seqno_cmp(a, b) ==
  IF a = b THEN 0
  ELSE IF a < b THEN (IF WrapsPast(a, b) THEN 1 ELSE -1)
  ELSE (IF WrapsPast(b, a) THEN -1 ELSE 1)

\* The number of the n-th packet of a stream.
SeqOf(n) == ((n - 1) % TR_MAX_SEQNO) + 1

=============================================================================
