----------------------------- MODULE MCStrMaster -----------------------------
(* An instance of StrMaster for TLC: a connection whose numbers wrap after      *)
(* packet 12, and a second one that is there while the first is at its first    *)
(* packets.                                                                     *)
EXTENDS StrMaster

\* The first six packets may leave any gap open.  Later a gap is filled before it
\* is TR_VALID_RANGE old: across the wrap tr_seqno_cmp takes a packet that is
\* exactly that far ahead for an old one, and the master drops it.
MCLag(n) == IF n <= 6 THEN MaxIndex ELSE TR_VALID_RANGE - 1

\* With a second mote either sends few packets, counting the FIN: the first may miss one.
MCBounds == \A a \in Addrs \ {1}, t \in Tids :
  /\ top[<<t, a>>] <= 1
  /\ IsOpen(<<t, a>>) \/ top[<<t, a>>] # 0 => top[<<t, 1>>] <= 2

MCFairSpec ==
  Init /\ [][Next /\ MCBounds']_vars /\ WF_vars(Poll) /\ \A k \in Keys : WF_vars(Expire(k))
=============================================================================
