------------------------------ MODULE TrdSeqno ------------------------------
(***************************************************************************)
(* Sequence numbers of the dissemination protocol TRD                      *)
(* (mote/lib/trd/trd_seqno.c), which masters and motes share: a ring of    *)
(* the numbers 1 .. TRD_SEQNO_LAST, and two numbers that are no packet's.  *)
(***************************************************************************)
EXTENDS Integers

CONSTANTS TRD_SEQNO_LAST, TRD_SEQNO_WRAP_WINDOW

ASSUME TrdRingAssumption ==
  TRD_SEQNO_LAST \in Nat /\ TRD_SEQNO_WRAP_WINDOW \in Nat \ {0}
  /\ 2 * TRD_SEQNO_WRAP_WINDOW < TRD_SEQNO_LAST

TRD_SEQNO_UNKNOWN == 0
TRD_SEQNO_FIRST == 1
TRD_SEQNO_OLDEST == TRD_SEQNO_LAST + 1     \* 0xfffd in the code
TrdNumbers == TRD_SEQNO_FIRST .. TRD_SEQNO_LAST

\* A mutated form: the last number is not used.
Mut_next(a) ==
  IF a = TRD_SEQNO_UNKNOWN \/ a >= TRD_SEQNO_LAST - 1 THEN TRD_SEQNO_FIRST ELSE a + 1

trd_seqno_next(a) ==
  IF a = TRD_SEQNO_UNKNOWN \/ a >= TRD_SEQNO_LAST THEN TRD_SEQNO_FIRST ELSE a + 1

\* The loop that takes off TRD_SEQNO_LAST, and 1 for 0.
trd_seqno_add(a, b) ==
  IF a + b = 0 THEN TRD_SEQNO_FIRST ELSE ((a + b - 1) % TRD_SEQNO_LAST) + 1

\* A mutated form, of the test below: as in a ring that starts with 0.
Mut_WrappedPast(a, b) == a + (TRD_SEQNO_LAST - b) + 1 < TRD_SEQNO_WRAP_WINDOW

\* a < b in number: has a wrapped, and is it less than a window past b?
WrappedPast(a, b) == trd_seqno_add(a, TRD_SEQNO_LAST - b) < TRD_SEQNO_WRAP_WINDOW

\* Is a greater than b?  For numbers that are too far apart the code decides by
\* their size.  (A function, so that TLC has its values at hand.)
After == [a, b \in 0 .. TRD_SEQNO_OLDEST |->
  CASE a = b -> FALSE
    [] a # b /\ b \in {TRD_SEQNO_OLDEST, TRD_SEQNO_UNKNOWN} -> TRUE
    [] b \in TrdNumbers /\ a \in {TRD_SEQNO_OLDEST, TRD_SEQNO_UNKNOWN} -> FALSE
    [] a \in TrdNumbers /\ b \in TrdNumbers /\ a < b ->
         b - a > TRD_SEQNO_WRAP_WINDOW /\ WrappedPast(a, b)
    [] a \in TrdNumbers /\ b \in TrdNumbers /\ a > b ->
         a - b <= TRD_SEQNO_WRAP_WINDOW \/ ~WrappedPast(b, a)]

TrdAfter(a, b) == After[a, b]

\* trd_seqno_cmp is never 0 for two different numbers.
trd_seqno_cmp(a, b) == IF a = b THEN 0 ELSE IF TrdAfter(a, b) THEN 1 ELSE -1
=============================================================================
