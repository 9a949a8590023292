-------------------------- MODULE SeqnoPair_proofs --------------------------
(***************************************************************************)
(* For every ring size, valid range and integer width that SeqnoAssumption *)
(* allows: the comparison of tr_seqno.c follows the real order of two ends *)
(* that stay less than TR_VALID_RANGE apart.                               *)
(***************************************************************************)
EXTENDS SeqnoPair, TrSeqno_proofs

\* The newer number is the older one moved ahead by the lead.
PairInv == /\ old \in Seqno
           /\ oldPos \in Nat /\ newPos \in Nat
           /\ Lead \in 0 .. MaxLead
           /\ new = Ahead(old, Lead)

LeadWithinRange == MaxLead \in Nat /\ MaxLead < TR_VALID_RANGE

LEMMA PairInvHolds ==
  ASSUME LeadWithinRange, MaxPos \in Nat
  PROVE  Spec => []PairInv
<1>1. Init => PairInv
  BY SeqnoAssumption DEF Init, PairInv, Lead, LeadWithinRange, Ahead, Seqno, TR_FIRST_SEQNO
<1>2. PairInv /\ [Next]_vars => PairInv'
  <2> SUFFICES ASSUME PairInv, [Next]_vars PROVE PairInv'
    OBVIOUS
  <2>1. CASE AdvanceNew
    <3>1. /\ Lead \in 0 .. (TR_VALID_RANGE - 1) /\ Lead' = Lead + 1 /\ Lead' <= MaxLead
          /\ newPos' \in Nat /\ oldPos' = oldPos /\ old' = old
      BY <2>1, SeqnoAssumption DEF AdvanceNew, PairInv, Lead, LeadWithinRange
    <3>2. new' = Ahead(old, Lead + 1)
      BY <2>1, <3>1, NextAhead DEF AdvanceNew, PairInv
    <3> QED BY <3>1, <3>2, SeqnoAssumption DEF PairInv, LeadWithinRange, Ahead
  <2>2. CASE AdvanceOld
    <3>1. /\ Lead \in 1 .. (TR_VALID_RANGE - 1) /\ Lead' = Lead - 1
          /\ oldPos' \in Nat /\ newPos' = newPos /\ new' = new
          /\ old' = tr_seqno_next(old)
      BY <2>2, SeqnoAssumption DEF AdvanceOld, PairInv, Lead, LeadWithinRange
    <3>2. old' \in Seqno /\ Ahead(old', Lead - 1) = Ahead(old, Lead)
      BY <3>1, NextAhead, SeqnoAssumption DEF PairInv
    <3> QED BY <3>1, <3>2, SeqnoAssumption DEF PairInv, LeadWithinRange, Ahead
  <2>3. CASE UNCHANGED vars
    BY <2>3 DEF vars, PairInv, Lead, Ahead
  <2> QED BY <2>1, <2>2, <2>3 DEF Next
<1> QED BY <1>1, <1>2, PTL DEF Spec

\* Two ends that stay less than TR_VALID_RANGE apart are always ordered
\* rightly by tr_seqno_cmp, on every ring.
THEOREM CmpFollowsPositionHolds ==
  ASSUME LeadWithinRange, MaxPos \in Nat
  PROVE  Spec => []CmpFollowsPosition
<1>1. PairInv => CmpFollowsPosition
  <2> SUFFICES ASSUME PairInv PROVE CmpFollowsPosition
    OBVIOUS
  <2>1. CASE Lead = 0
    <3>1. new = old /\ Sign(Lead) = 0 /\ Sign(-Lead) = 0
      BY <2>1, SeqnoAssumption DEF PairInv, Ahead, Sign, Seqno, TR_FIRST_SEQNO
    <3> QED BY <3>1 DEF CmpFollowsPosition, tr_seqno_cmp
  <2>2. CASE Lead # 0
    <3>1. /\ Lead \in 1 .. (TR_VALID_RANGE - 1)
          /\ Sign(Lead) = 1 /\ Sign(-Lead) = -1
      BY <2>2, SeqnoAssumption DEF PairInv, LeadWithinRange, Sign
    <3> QED BY <3>1, CmpOfLead DEF CmpFollowsPosition, PairInv
  <2> QED BY <2>1, <2>2
<1> QED BY <1>1, PairInvHolds, PTL

\* tr_seqno_diff always gives the lead back, and tr_seqno_add and
\* tr_seqno_prev undo it.
THEOREM DiffGivesLeadHolds ==
  ASSUME LeadWithinRange, MaxPos \in Nat
  PROVE  Spec => []DiffGivesLead
<1>1. PairInv => DiffGivesLead
  <2> SUFFICES ASSUME PairInv PROVE DiffGivesLead
    OBVIOUS
  <2>1. Lead \in 0 .. (TR_VALID_RANGE - 1)
    BY SeqnoAssumption DEF PairInv, LeadWithinRange
  <2>2. tr_seqno_diff(new, old) = Lead
    BY <2>1, DiffOfLead DEF PairInv
  <2>3. ASSUME Lead > 0
        PROVE  /\ tr_seqno_add(old, Lead) = new
               /\ tr_seqno_diff(tr_seqno_prev(new), old) = Lead - 1
    <3>1. tr_seqno_prev(new) = Ahead(old, Lead - 1) /\ Lead - 1 \in 0 .. (TR_VALID_RANGE - 1)
      BY <2>1, <2>3, NextAhead, SeqnoAssumption DEF PairInv
    <3>2. Lead \in 0 .. TR_VALID_RANGE
      BY <2>1, SeqnoAssumption
    <3> QED BY <3>1, <3>2, AddIsAhead, DiffOfLead DEF PairInv
  <2> QED BY <2>2, <2>3 DEF DiffGivesLead
<1> QED BY <1>1, PairInvHolds, PTL

=============================================================================
