----------------------------- MODULE SeqnoPair -----------------------------
(***************************************************************************)
(* Two ends counting with the operators of TrSeqno: the older number       *)
(* advances with tr_seqno_next, the newer one runs ahead of it by at most  *)
(* MaxLead.  The absolute positions are history that only the properties   *)
(* read; the code keeps nothing but the numbers.                           *)
(***************************************************************************)
EXTENDS TrSeqno

CONSTANTS MaxLead,  \* how far the newer end may run ahead
          MaxPos    \* bound on the positions, to keep the space finite

VARIABLES old, new,       \* the sequence numbers
          oldPos, newPos  \* how many steps each end has taken

vars == <<old, new, oldPos, newPos>>

TypeOK == /\ old \in Seqno /\ new \in Seqno
          /\ oldPos \in 0 .. MaxPos /\ newPos \in 0 .. MaxPos

Init == /\ old \in Seqno /\ new = old
        /\ oldPos = 0 /\ newPos = 0

AdvanceNew == /\ newPos < MaxPos /\ newPos - oldPos < MaxLead
              /\ new' = tr_seqno_next(new)
              /\ newPos' = newPos + 1
              /\ UNCHANGED <<old, oldPos>>

AdvanceOld == /\ oldPos < newPos
              /\ old' = tr_seqno_next(old)
              /\ oldPos' = oldPos + 1
              /\ UNCHANGED <<new, newPos>>

Next == AdvanceNew \/ AdvanceOld

Spec == Init /\ [][Next]_vars

-----------------------------------------------------------------------------
Lead == newPos - oldPos

Sign(n) == IF n > 0 THEN 1 ELSE IF n < 0 THEN -1 ELSE 0

\* tr_seqno_cmp orders the two ends as their positions do, whichever end is
\* named first and wherever the numbers wrap (tr_seqno.c:86-113).
CmpFollowsPosition == /\ tr_seqno_cmp(new, old) = Sign(Lead)
                      /\ tr_seqno_cmp(old, new) = Sign(-Lead)

\* tr_seqno_diff gives the lead back, and tr_seqno_add and tr_seqno_prev undo
\* it: what process_NACK_packet and send_NACK use to bound how old a packet is.
DiffGivesLead == /\ tr_seqno_diff(new, old) = Lead
                 /\ Lead > 0 => /\ tr_seqno_add(old, Lead) = new
                                /\ tr_seqno_diff(tr_seqno_prev(new), old) = Lead - 1

=============================================================================
