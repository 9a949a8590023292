-------------------------- MODULE MCTransportMain --------------------------
(* Instances of TransportMain for TLC: one mixture of events for each of   *)
(* the questions the properties ask, in one run.                           *)
EXTENDS TransportMain

Mix(d) == [c \in Counted |-> IF c \in DOMAIN d THEN d[c] ELSE 0]

MCBudgets == {
  Mix([tasks |-> 1, streams |-> 2, answers |-> 1, giveups |-> 1]),  \* closing
  Mix([tasks |-> 2, answers |-> 1]),                                \* two clients
  Mix([unicasts |-> 1, answers |-> 2]),                             \* packet transport
  Mix([probes |-> 1, answers |-> 2]),                               \* ping and trace
  Mix([probes |-> 1, services |-> 1, answers |-> 1]),
  Mix([tasks |-> 2, refusals |-> 1, crashes |-> 1]),                \* restart
  Mix([tasks |-> 2, crashes |-> 2, storing |-> 1])}                 \* a tid file that fails

\* One task, one stream, one late packet.
CloseBudget == {Mix([tasks |-> 1, streams |-> 1, answers |-> 1])}
=============================================================================
