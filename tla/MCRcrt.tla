------------------------------- MODULE MCRcrt -------------------------------
(* RcrtMaster for TLC.  Each budget is one scenario.                        *)
EXTENDS RcrtMaster

CONSTANTS t1, t2, a1, a2

\* A packet may come however far ahead of one that was not handed up.
AnyLag == [n \in 1 .. MaxIndex |-> n]

Ask(k, ms) == [key |-> k, ms |-> ms]

\* Packets lost, repeated and late on one connection; its rate stays.
Packets == [newest |-> 5, gap |-> 5, late |-> 5, lag |-> AnyLag, kinds |-> BOOLEAN \X BOOLEAN,
            changes |-> 0, closes |-> {t1}, policy |-> RCRT_FAIR_RATIO, asks |-> {Ask(<<t1, a1>>, 20)}]

\* Of the intervals asked for here, 1000.0/(1000.0/ms) is just below ms for this one.
MCFallsShort(a, b) == a \div b = 23800

\* Two connections, a fast and a slow one, that come and go while the rate is
\* raised and lowered.
Mixed(policy) ==
  [newest |-> IF policy = RCRT_FAIR_GOODPUT THEN 1 ELSE 2, gap |-> 2, late |-> 2, lag |-> AnyLag,
   kinds |-> {<<FALSE, FALSE>>}, changes |-> IF policy = RCRT_FAIR_RATIO THEN 2 ELSE 1, closes |-> {}, policy |-> policy,
   asks |-> {Ask(<<t1, a1>>, 0), Ask(<<t1, a2>>, 23800)}]

\* Two tasks, one with two motes, closed in any order; a request of the longest interval.
Closes == [newest |-> 1, gap |-> 1, late |-> 1, lag |-> AnyLag,
           kinds |-> {<<FALSE, FALSE>>}, changes |-> 0, closes |-> {t1, t2}, policy |-> RCRT_FAIR_RATIO,
           asks |-> {Ask(<<t1, a1>>, 200), Ask(<<t1, a2>>, 200), Ask(<<t2, a1>>, 65535)}]

\* A connection whose numbers wrap.
Wraps == [newest |-> 18, gap |-> 2, late |-> 1,
          lag |-> [n \in 1 .. MaxIndex |-> IF n + TR_VALID_RANGE <= TR_MAX_SEQNO THEN n ELSE 2],
          kinds |-> {<<FALSE, FALSE>>, <<TRUE, FALSE>>}, changes |-> 0, closes |-> {},
          policy |-> RCRT_FAIR_RATIO, asks |-> {Ask(<<t1, a1>>, 20)}]

MCBudgets == {Packets, Wraps, Closes} \cup {Mixed(p) : p \in 1 .. 4}

=============================================================================
