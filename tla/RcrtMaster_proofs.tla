------------------------- MODULE RcrtMaster_proofs -------------------------
(***************************************************************************)
(* The rate-controlled transport at the master, for every set of tasks and *)
(* motes, every list of connections, every ring and every scenario that    *)
(* the assumptions allow.                                                  *)
(***************************************************************************)
EXTENDS RcrtMaster, TrSeqno_proofs, FiniteSetTheorems, WellFoundedInduction

-----------------------------------------------------------------------------
(* Recursive functions on 0 .. N.                                           *)

\* A set of numbers has a least member.
LEMMA SmallestOf ==
  ASSUME NEW S \in SUBSET Nat, S # {}
  PROVE  \E x \in S : \A y \in S : x <= y
<1> DEFINE Below == {0 .. x : x \in S}
<1>1. PICK B \in Below : \A A \in Below : <<A, B>> \notin StrictSubsetOrdering(Nat)
  <2>1. Below \subseteq FiniteSubsetsOf(Nat)
    <3>1. ASSUME NEW x \in S PROVE 0 .. x \in FiniteSubsetsOf(Nat)
      <4>1. IsFiniteSet(0 .. x)
        BY FS_Interval
      <4> QED BY <4>1 DEF FiniteSubsetsOf
    <3> QED BY <3>1
  <2>2. Below # {}
    OBVIOUS
  <2> HIDE DEF Below
  <2> QED BY <2>1, <2>2, FS_StrictSubsetOrderingWellFounded, WFMin
<1>2. PICK x \in S : B = 0 .. x
  OBVIOUS
<1>3. ASSUME NEW y \in S, y < x PROVE FALSE
  <2>1. 0 .. y \in Below /\ 0 .. y \subseteq B /\ 0 .. y # B
    BY <1>2, <1>3
  <2>2. 0 .. y \in SUBSET Nat /\ B \in SUBSET Nat
    BY <1>2
  <2> HIDE DEF Below
  <2> QED BY <1>1, <2>1, <2>2 DEF StrictSubsetOrdering
<1> QED BY <1>3

\* A loop that keeps to the set X is a function of the number of its turns.
Turns(X, N, x, G, g) ==
  g \in [0 .. N -> X] /\ g[0] = x /\ \A i \in 1 .. N : g[i] = G[<<i, g[i - 1]>>]

LEMMA Iterates ==
  ASSUME NEW X, NEW N \in Nat, NEW x \in X, NEW G \in [(1 .. N) \X X -> X]
  PROVE  \E g : Turns(X, N, x, G, g)
<1> DEFINE Upto(m) == \E g \in [0 .. m -> X] :
                        g[0] = x /\ \A i \in 1 .. m : g[i] = G[<<i, g[i - 1]>>]
           Bad == {m \in 0 .. N : ~Upto(m)}
<1>1. Upto(0)
  <2> DEFINE g == [i \in 0 .. 0 |-> x]
  <2>1. g \in [0 .. 0 -> X] /\ g[0] = x /\ 1 .. 0 = {}
    OBVIOUS
  <2> HIDE DEF g
  <2> QED BY <2>1
<1>2. ASSUME NEW m \in 1 .. N, Upto(m - 1) PROVE Upto(m)
  <2>1. PICK g \in [0 .. (m - 1) -> X] :
          g[0] = x /\ \A i \in 1 .. (m - 1) : g[i] = G[<<i, g[i - 1]>>]
    BY <1>2
  <2> DEFINE h == [i \in 0 .. m |-> IF i = m THEN G[<<m, g[m - 1]>>] ELSE g[i]]
  <2>2. m \in Nat \ {0} /\ m - 1 \in 0 .. (m - 1) /\ g[m - 1] \in X
    BY <2>1
  <2>3. G[<<m, g[m - 1]>>] \in X
    BY <2>2
  <2>4. h \in [0 .. m -> X]
    BY <2>2, <2>3
  <2>5. h[m] = G[<<m, g[m - 1]>>] /\ \A i \in 0 .. (m - 1) : h[i] = g[i]
    BY <2>2
  <2>6. \A i \in 1 .. m : i # m => i \in 1 .. (m - 1) /\ i - 1 \in 0 .. (m - 1)
    BY <2>2
  <2>7. 0 \in 0 .. (m - 1)
    BY <2>2
  <2> HIDE DEF h
  <2>8. ASSUME NEW i \in 1 .. m PROVE h[i] = G[<<i, h[i - 1]>>]
    <3>1. CASE i = m
      <4>1. h[m - 1] = g[m - 1]
        BY <2>2, <2>5
      <4> QED BY <2>5, <3>1, <4>1
    <3>2. CASE i # m
      <4>1. i \in 1 .. (m - 1) /\ i \in 0 .. (m - 1) /\ i - 1 \in 0 .. (m - 1)
        BY <2>6, <3>2
      <4> QED BY <2>1, <2>5, <4>1
    <3> QED BY <3>1, <3>2
  <2> QED BY <2>1, <2>4, <2>5, <2>7, <2>8
<1>3. ASSUME Bad # {} PROVE FALSE
  <2>1. PICK m \in Bad : \A y \in Bad : m <= y
    <3>1. Bad \in SUBSET Nat
      OBVIOUS
    <3> HIDE DEF Bad
    <3> QED BY <1>3, <3>1, SmallestOf
  <2> HIDE DEF Upto
  <2>2. m \in 0 .. N /\ ~Upto(m) /\ m # 0
    BY <1>1, <2>1
  <2>3. m \in 1 .. N /\ m - 1 \in 0 .. N /\ ~(m <= m - 1)
    BY <2>2
  <2>4. Upto(m - 1)
    BY <2>1, <2>3
  <2> QED BY <1>2, <2>2, <2>3, <2>4
<1>4. N \in 0 .. N
  OBVIOUS
<1>5. Upto(N)
  <2> HIDE DEF Upto
  <2> QED BY <1>3, <1>4
<1>6. PICK g \in [0 .. N -> X] : g[0] = x /\ \A i \in 1 .. N : g[i] = G[<<i, g[i - 1]>>]
  BY <1>5
<1>7. Turns(X, N, x, G, g)
  BY <1>6 DEF Turns
<1> QED BY <1>7

\* What holds before the first turn and is kept by every turn holds after the last.
LEMMA LoopKeeps ==
  ASSUME NEW N \in Nat, NEW P, 0 \in P, \A i \in 1 .. N : i - 1 \in P => i \in P
  PROVE  \A i \in 0 .. N : i \in P
<1> DEFINE Bad == (0 .. N) \ P
<1> SUFFICES ASSUME Bad # {} PROVE FALSE
  OBVIOUS
<1>1. PICK m \in Bad : \A y \in Bad : m <= y
  <2>1. Bad \in SUBSET Nat
    OBVIOUS
  <2> HIDE DEF Bad
  <2> QED BY <2>1, SmallestOf
<1>2. m \in 0 .. N /\ m # 0 /\ m \notin P
  BY <1>1
<1>3. m \in 1 .. N /\ m - 1 \in 0 .. N /\ ~(m <= m - 1)
  BY <1>2
<1> QED BY <1>1, <1>2, <1>3

\* The partial sums of a list, which are what the loop computes.
Sums(xs, g) ==
  /\ g \in [0 .. Len(xs) -> Int] /\ g[0] = 0
  /\ \A i \in 1 .. Len(xs) : g[i] = g[i - 1] + xs[i]

LEMMA TotalIs ==
  ASSUME NEW xs \in Seq(Int)
  PROVE  \E g : Sums(xs, g) /\ Total(xs) = g[Len(xs)]
<1> DEFINE N == Len(xs)
           G == [p \in (1 .. N) \X Int |-> p[2] + xs[p[1]]]
           Is(g) == g = [i \in 0 .. N |-> IF i = 0 THEN 0 ELSE g[i - 1] + xs[i]]
           sum == CHOOSE g : Is(g)
<1>1. N \in Nat /\ \A i \in 1 .. N : xs[i] \in Int
  OBVIOUS
<1>2. G \in [(1 .. N) \X Int -> Int]
  BY <1>1
<1>3. \E g : Turns(Int, N, 0, G, g)
  <2>1. N \in Nat /\ 0 \in Int
    BY <1>1
  <2> HIDE DEF G, N
  <2> QED BY <1>2, <2>1, Iterates
<1>3a. PICK g \in [0 .. N -> Int] : g[0] = 0 /\ \A i \in 1 .. N : g[i] = G[<<i, g[i - 1]>>]
  <2> HIDE DEF G
  <2> QED BY <1>3 DEF Turns
<1>4. ASSUME NEW i \in 1 .. N PROVE g[i - 1] \in Int /\ g[i] = g[i - 1] + xs[i]
  <2>1. g[i - 1] \in Int /\ g[i] = G[<<i, g[i - 1]>>]
    <3>1. i - 1 \in 0 .. N
      BY <1>1
    <3> HIDE DEF G, N
    <3> QED BY <1>3a, <3>1
  <2>2. <<i, g[i - 1]>> \in (1 .. N) \X Int
    BY <2>1
  <2> QED BY <2>1, <2>2
<1>5. Is(g)
  BY <1>3a, <1>4
<1>6. Is(sum)
  BY <1>5
<1>7. Total(xs) = sum[N]
  BY DEF Total
<1> HIDE DEF sum
<1>8. sum[0] = 0 /\ \A i \in 1 .. N : sum[i] = sum[i - 1] + xs[i]
  BY <1>1, <1>6
<1>9. sum = g
  <2> DEFINE P == {i \in 0 .. N : sum[i] = g[i]}
  <2>1. 0 \in P
    BY <1>1, <1>3a, <1>8
  <2>2. \A i \in 1 .. N : i - 1 \in P => i \in P
    BY <1>1, <1>4, <1>8
  <2>3. \A i \in 0 .. N : i \in P
    <3> HIDE DEF P, N
    <3> QED BY <1>1, <2>1, <2>2, LoopKeeps
  <2>4. sum = [i \in 0 .. N |-> sum[i]]
    BY <1>6
  <2> QED BY <1>3a, <2>3, <2>4
<1> QED BY <1>3a, <1>4, <1>7, <1>9 DEF Sums

-----------------------------------------------------------------------------
(* One stream: t is the newest packet that arrived, f the index of the FIN,  *)
(* D what was handed up, and e the packet that is expected.                  *)

\* Nothing wraps in scenario b.
Short(b) == b.newest + 1 + TR_VALID_RANGE <= TR_MAX_SEQNO

\* What LagAssumption says of a scenario.
Regular(b) ==
  /\ b \in Scenario
  /\ \/ Short(b)
     \/ /\ b.gap < TR_VALID_RANGE /\ b.late + 1 < TR_VALID_RANGE /\ 2 < TR_VALID_RANGE
        /\ \A n \in 1 .. b.newest : n + TR_VALID_RANGE <= TR_MAX_SEQNO \/ b.lag[n] < TR_VALID_RANGE

\* Every packet before e was handed up or is old; L waits, from e on.
Expects(e, L, t, D, b) ==
  /\ t \in 0 .. (b.newest + 1) /\ e \in 1 .. (b.newest + 1) /\ e <= t + 1
  /\ D \subseteq 1 .. t /\ L \subseteq 1 .. b.newest
  /\ \A d \in D : d < e
  /\ \A x \in L : /\ e <= x /\ x <= t
                  /\ Short(b) \/ x + TR_VALID_RANGE <= TR_MAX_SEQNO \/ x < e + TR_VALID_RANGE
  /\ \A j \in 1 .. (e - 1) : j \in D \/ j + TR_VALID_RANGE <= t

\* Up to t every packet was handed up, waits, is the FIN, is missing or is old.
Accounted(L, M, t, f, D) ==
  \A i \in 1 .. t : \/ i \in D \cup L \cup {f}
                    \/ i < t /\ SeqOf(i) \in M
                    \/ i + TR_VALID_RANGE <= t

\* Packet n arrives on such a stream.
Arrives(n, t, f, D, b) ==
  /\ n \in 1 .. b.newest /\ n <= t + b.gap /\ t <= n + b.late
  /\ f # 0 => f = t /\ n < f
  /\ 1 .. (n - b.lag[n]) \subseteq D

\* The fields of a scenario.
LEMMA ScenarioIs ==
  ASSUME NEW b, Regular(b)
  PROVE  /\ b.newest \in 0 .. MaxIndex /\ b.newest \in Nat /\ b.gap \in Nat /\ b.late \in Nat
         /\ b.changes \in Nat /\ b.policy \in 1 .. 4
         /\ \A n \in 1 .. b.newest : b.lag[n] \in Nat
         /\ \A a \in b.asks : a.key \in Keys /\ a.ms \in Interval
<1>1. /\ b.newest \in 0 .. MaxIndex /\ b.gap \in Nat /\ b.late \in Nat
      /\ b.lag \in [1 .. MaxIndex -> Nat] /\ b.changes \in Nat /\ b.policy \in 1 .. 4
      /\ b.asks \subseteq [key : Keys, ms : Interval]
  BY DEF Regular, Scenario
<1>2. b.newest \in Nat /\ \A n \in 1 .. b.newest : n \in 1 .. MaxIndex
  BY <1>1, RcrtAssumption
<1>3. \A n \in 1 .. b.newest : b.lag[n] \in Nat
  BY <1>1, <1>2
<1>4. ASSUME NEW a \in b.asks PROVE a.key \in Keys /\ a.ms \in Interval
  <2>1. a \in [key : Keys, ms : Interval]
    BY <1>1
  <2> QED BY <2>1
<1> QED BY <1>1, <1>2, <1>3, <1>4

\* What arrives, what waits and what is expected are close enough to be compared.
LEMMA ArrivalNear ==
  ASSUME NEW b, Regular(b), NEW e, NEW L, NEW t, NEW f, NEW D, Expects(e, L, t, D, b),
         NEW n, Arrives(n, t, f, D, b)
  PROVE  /\ n \in Nat \ {0} /\ e \in Nat \ {0}
         /\ Near(e, n) /\ (t # 0 => Near(t, n))
         /\ \A x \in L : x \in Nat \ {0} /\ Near(x, n) /\ Near(x, e)
         /\ \A x, y \in L : Near(x, y)
         /\ Short(b) \/ n + TR_VALID_RANGE <= TR_MAX_SEQNO \/ n < e + TR_VALID_RANGE
<1>1. /\ b.newest \in Nat /\ b.gap \in Nat /\ b.late \in Nat /\ b.lag[n] \in Nat
      /\ n \in 1 .. b.newest /\ t \in 0 .. (b.newest + 1) /\ e \in 1 .. (b.newest + 1) /\ e <= t + 1
      /\ n <= t + b.gap /\ t <= n + b.late
      /\ \A x \in L : /\ x \in 1 .. b.newest /\ e <= x /\ x <= t
                      /\ Short(b) \/ x + TR_VALID_RANGE <= TR_MAX_SEQNO \/ x < e + TR_VALID_RANGE
  <2>1. b.newest \in Nat /\ b.gap \in Nat /\ b.late \in Nat /\ n \in 1 .. b.newest /\ b.lag[n] \in Nat
    BY ScenarioIs DEF Arrives
  <2>2. n <= t + b.gap /\ t <= n + b.late
    BY DEF Arrives
  <2>3. /\ t \in 0 .. (b.newest + 1) /\ e \in 1 .. (b.newest + 1) /\ e <= t + 1
        /\ \A x \in L : /\ x \in 1 .. b.newest /\ e <= x /\ x <= t
                        /\ Short(b) \/ x + TR_VALID_RANGE <= TR_MAX_SEQNO \/ x < e + TR_VALID_RANGE
    BY DEF Expects
  <2> QED BY <2>1, <2>2, <2>3
<1>2. CASE Short(b)
  <2>1. ASSUME NEW x \in 1 .. (b.newest + 1), NEW y \in 1 .. (b.newest + 1) PROVE Near(x, y)
    BY <1>1, <1>2, SeqnoAssumption DEF Short, Near
  <2> QED BY <1>1, <1>2, <2>1
<1>3. CASE ~Short(b)
  <2>1. /\ b.gap < TR_VALID_RANGE /\ b.late + 1 < TR_VALID_RANGE
        /\ n + TR_VALID_RANGE <= TR_MAX_SEQNO \/ b.lag[n] < TR_VALID_RANGE
    BY <1>1, <1>3 DEF Regular
  <2>2. n + TR_VALID_RANGE <= TR_MAX_SEQNO \/ n < e + TR_VALID_RANGE
    <3>1. CASE b.lag[n] < TR_VALID_RANGE /\ n - b.lag[n] >= 1
      <4>1. n - b.lag[n] \in D
        BY <1>1, <3>1 DEF Arrives
      <4>2. n - b.lag[n] < e
        BY <4>1 DEF Expects
      <4> QED BY <1>1, <3>1, <4>2, SeqnoAssumption
    <3> QED BY <1>1, <2>1, <3>1, SeqnoAssumption
  <2>3. Near(e, n)
    BY <1>1, <2>1, <2>2, SeqnoAssumption DEF Near
  <2>4. t # 0 => Near(t, n)
    BY <1>1, <2>1, SeqnoAssumption DEF Near
  <2>5. ASSUME NEW x \in L PROVE Near(x, n) /\ Near(x, e)
    BY <1>1, <1>3, <2>1, <2>2, SeqnoAssumption DEF Near
  <2>6. ASSUME NEW x \in L, NEW y \in L PROVE Near(x, y)
    BY <1>1, <1>3, SeqnoAssumption DEF Near
  <2> QED BY <1>1, <2>2, <2>3, <2>4, <2>5, <2>6
<1> QED BY <1>2, <1>3

\* So are the packets that wait.
LEMMA WaitNear ==
  ASSUME NEW b, Regular(b), NEW e, NEW L, NEW t, NEW D, Expects(e, L, t, D, b)
  PROVE  /\ e \in Nat \ {0} /\ t \in Nat /\ b.newest \in Nat
         /\ \A x \in L : x \in Nat \ {0} /\ e <= x /\ Near(x, e)
         /\ \A x, y \in L : Near(x, y)
<1>1. /\ b.newest \in Nat /\ t \in 0 .. (b.newest + 1) /\ e \in 1 .. (b.newest + 1)
      /\ \A x \in L : /\ x \in 1 .. b.newest /\ e <= x /\ x <= t
                      /\ Short(b) \/ x + TR_VALID_RANGE <= TR_MAX_SEQNO \/ x < e + TR_VALID_RANGE
  BY ScenarioIs DEF Expects
<1>2. ASSUME NEW x \in L PROVE Near(x, e)
  BY <1>1, SeqnoAssumption DEF Near, Short
<1>3. ASSUME NEW x \in L, NEW y \in L PROVE Near(x, y)
  BY <1>1, SeqnoAssumption DEF Near, Short
<1> QED BY <1>1, <1>2, <1>3

\* A packet is compared right with a number that TR_VALID_RANGE was added to.
LEMMA AgeIs ==
  ASSUME NEW i \in Nat \ {0}, NEW n \in Nat \ {0}, i < n,
         tr_seqno_cmp(SeqOf(n), tr_seqno_add(SeqOf(i), TR_VALID_RANGE)) >= 0
  PROVE  i + TR_VALID_RANGE <= n
<1>1. tr_seqno_add(SeqOf(i), TR_VALID_RANGE) = SeqOf(i + TR_VALID_RANGE)
  <2>1. TR_VALID_RANGE \in 0 .. TR_VALID_RANGE
    BY SeqnoAssumption
  <2>2. SeqOf(i) \in Seqno /\ SeqOf(i + TR_VALID_RANGE) = Ahead(SeqOf(i), TR_VALID_RANGE)
    BY <2>1, SeqOfAhead
  <2> QED BY <2>1, <2>2, AddIsAhead
<1> SUFFICES ASSUME n < i + TR_VALID_RANGE PROVE FALSE
  BY SeqnoAssumption
<1>2. i + TR_VALID_RANGE \in Nat \ {0} /\ Near(i + TR_VALID_RANGE, n)
  BY SeqnoAssumption DEF Near
<1>3. tr_seqno_cmp(SeqOf(n), SeqOf(i + TR_VALID_RANGE)) = -1
  BY <1>2, CmpOfNear
<1> QED BY <1>1, <1>3

-----------------------------------------------------------------------------
(* The loop of receive_rtr_msg, when packet n has come.                      *)

\* The head of the list is the oldest of those that wait.
LEMMA FirstIs ==
  ASSUME NEW c, c.plist # {}, \A x \in c.plist : x \in Nat \ {0}, \A x, y \in c.plist : Near(x, y)
  PROVE  First(c) \in c.plist /\ \A x \in c.plist : First(c) <= x
<1>1. PICK y \in c.plist : \A x \in c.plist : y <= x
  <2>1. c.plist \in SUBSET Nat
    OBVIOUS
  <2> QED BY <2>1, SmallestOf
<1>2. ASSUME NEW x \in c.plist, NEW z \in c.plist
      PROVE  tr_seqno_cmp(SeqOf(x), SeqOf(z)) = IF x = z THEN 0 ELSE IF z < x THEN 1 ELSE -1
  <2>1. x \in Nat \ {0} /\ z \in Nat \ {0} /\ Near(z, x)
    OBVIOUS
  <2> QED BY <2>1, CmpOfNear
<1>3. \A x \in c.plist : tr_seqno_cmp(SeqOf(y), SeqOf(x)) <= 0
  BY <1>1, <1>2
<1> DEFINE Is(m) == \A x \in c.plist : tr_seqno_cmp(SeqOf(m), SeqOf(x)) <= 0
<1>4. First(c) \in c.plist /\ Is(First(c))
  BY <1>1, <1>3 DEF First
<1>5. ASSUME NEW x \in c.plist PROVE First(c) <= x
  <2>1. tr_seqno_cmp(SeqOf(First(c)), SeqOf(x)) <= 0
    BY <1>4
  <2> QED BY <1>2, <1>4, <2>1
<1> QED BY <1>4, <1>5

\* Connection d is c but for what receive_rtr_msg changes.
Alike(c, d) ==
  /\ d \in Conn
  /\ d.key = c.key /\ d.state = c.state /\ d.deletePending = c.deletePending /\ d.recv = c.recv
  /\ d.timeoutCount = c.timeoutCount /\ d.last = c.last /\ d.missing = c.missing
  /\ d.req = c.req /\ d.cur = c.cur /\ d.alarm = c.alarm

\* Of the packets A some wait in w.c and the others were handed up.
InLoop(w, c, A, t, D, b) ==
  /\ w = [c |-> w.c, out |-> w.out] /\ Alike(c, w.c)
  /\ w.c.plist \cup w.out = A /\ w.out \cap D = {} /\ \A d \in D, m \in w.out : d < m
  /\ \E e : Expects(e, w.c.plist, t, D \cup w.out, b) /\ w.c.next = SeqOf(e)

\* The loop has nothing more to do.
Stuck(w, s) ==
  \/ w.c.plist = {}
  \/ /\ tr_seqno_cmp(SeqOf(First(w.c)), w.c.next) > 0
     /\ ~Forced(SeqOf(First(w.c)), s)

\* What n has to do with the packets A of the loop.
Comes(n, A, t, b) ==
  n \in 1 .. b.newest /\ n <= t /\ \A x \in A : x \in 1 .. b.newest /\ Near(x, n)

\* A turn hands up or drops the head, if the loop is not at its end.
LEMMA TurnKeeps ==
  ASSUME NEW b, Regular(b), NEW A, NEW t, NEW D, NEW c, NEW n, Comes(n, A, t, b),
         NEW w, InLoop(w, c, A, t, D, b)
  PROVE  /\ InLoop(Turn(w, SeqOf(n)), c, A, t, D, b)
         /\ IF Stuck(w, SeqOf(n)) THEN Turn(w, SeqOf(n)) = w
            ELSE \E m \in w.c.plist : Turn(w, SeqOf(n)).c.plist = w.c.plist \ {m}
<1> DEFINE s == SeqOf(n)
           L == w.c.plist
           x == First(w.c)
<1>1. PICK e : Expects(e, L, t, D \cup w.out, b) /\ w.c.next = SeqOf(e)
  BY DEF InLoop
<1>2. /\ e \in Nat \ {0} /\ t \in Nat /\ b.newest \in Nat
      /\ \A y \in L : y \in Nat \ {0} /\ e <= y /\ Near(y, e)
      /\ \A y, z \in L : Near(y, z)
  BY <1>1, WaitNear
<1>3. w.c \in Conn /\ Alike(c, w.c)
  BY DEF InLoop, Alike
<1>4. CASE L = {}
  <2>1. Turn(w, s) = w /\ Stuck(w, s)
    BY <1>4 DEF Turn, Stuck
  <2> QED BY <2>1
<1>5. CASE L # {}
  <2>1. x \in L /\ \A y \in L : x <= y
    BY <1>2, <1>5, FirstIs
  <2>2. tr_seqno_cmp(SeqOf(x), w.c.next) = IF x = e THEN 0 ELSE 1
    <3>1. x \in Nat \ {0} /\ e <= x /\ Near(e, x)
      BY <1>2, <2>1 DEF Near
    <3> QED BY <1>1, <1>2, <3>1, CmpOfNear
  <2> DEFINE rest == [w.c EXCEPT !.plist = @ \ {x}]
             q == [rest EXCEPT !.next = tr_seqno_next(SeqOf(x)), !.nextAck = IF x = e THEN SeqOf(x) ELSE s]
             v == [c |-> q, out |-> w.out \cup {x}]
  <2>3. CASE x # e /\ ~Forced(SeqOf(x), s)
    <3>1. Turn(w, s) = w /\ Stuck(w, s)
      BY <1>5, <2>2, <2>3 DEF Turn, Stuck
    <3> QED BY <3>1
  <2>4. CASE x = e \/ Forced(SeqOf(x), s)
    <3>1. ~Stuck(w, s)
      BY <1>5, <2>2, <2>4 DEF Stuck
    <3>2. Turn(w, s) = v
      <4> DEFINE age == tr_seqno_cmp(SeqOf(x), w.c.next)
                 z == [c |-> [rest EXCEPT !.next = tr_seqno_next(SeqOf(x)),
                                          !.nextAck = IF age = 0 THEN SeqOf(x) ELSE s],
                       out |-> w.out \cup {x}]
      <4>1. Turn(w, s) = IF age < 0 THEN [w EXCEPT !.c = rest]
                         ELSE IF age = 0 \/ Forced(SeqOf(x), s) THEN z ELSE w
        BY <1>5 DEF Turn
      <4>2. ~(age < 0) /\ (age = 0 <=> x = e)
        BY <2>2
      <4> HIDE DEF age
      <4> QED BY <2>4, <4>1, <4>2
    <3>3. x = e \/ x + TR_VALID_RANGE <= n
      <4>1. ASSUME Forced(SeqOf(x), s) PROVE x + TR_VALID_RANGE <= n
        <5>1. x \in Nat \ {0} /\ n \in Nat \ {0} /\ Near(x, n)
          BY <1>2, <2>1 DEF Comes, InLoop
        <5>2. x < n
          BY <4>1, <5>1, CmpOfNear DEF Forced
        <5> QED BY <4>1, <5>1, <5>2, AgeIs DEF Forced
      <4> QED BY <2>4, <4>1
    <3>4. x \in Nat \ {0} /\ e <= x /\ tr_seqno_next(SeqOf(x)) = SeqOf(x + 1) /\ SeqOf(x) \in Seqno
          /\ SeqOf(x + 1) \in Seqno
      BY <1>2, <2>1, NextSeq
    <3>5. n \in Nat \ {0} /\ s \in Seqno /\ n <= t
      BY NextSeq DEF Comes
    <3>6. /\ q \in Conn /\ Alike(c, q) /\ q.plist = L \ {x} /\ q.next = SeqOf(x + 1)
      BY <1>3, <3>4, <3>5 DEF Alike, Conn, Seqno0
    <3>7. Expects(x + 1, L \ {x}, t, D \cup (w.out \cup {x}), b)
      <4>1. /\ t \in 0 .. (b.newest + 1) /\ L \subseteq 1 .. b.newest
            /\ D \cup w.out \subseteq 1 .. t
            /\ \A d \in D \cup w.out : d < e
            /\ \A y \in L : /\ e <= y /\ y <= t
                            /\ Short(b) \/ y + TR_VALID_RANGE <= TR_MAX_SEQNO \/ y < e + TR_VALID_RANGE
            /\ \A j \in 1 .. (e - 1) : j \in D \cup w.out \/ j + TR_VALID_RANGE <= t
        BY <1>1 DEF Expects
      <4>2. x \in 1 .. b.newest /\ x <= t
        BY <2>1, <4>1
      <4>3. \A d \in D \cup (w.out \cup {x}) : d < x + 1
        BY <1>2, <3>4, <4>1, <4>2
      <4>4. ASSUME NEW y \in L \ {x}
            PROVE  /\ x + 1 <= y /\ y <= t
                   /\ Short(b) \/ y + TR_VALID_RANGE <= TR_MAX_SEQNO \/ y < x + 1 + TR_VALID_RANGE
        BY <1>2, <2>1, <3>4, <4>1, SeqnoAssumption
      <4>5. ASSUME NEW j \in 1 .. x
            PROVE  j \in D \cup (w.out \cup {x}) \/ j + TR_VALID_RANGE <= t
        BY <1>2, <3>3, <3>4, <3>5, <4>1, SeqnoAssumption
      <4>6. x + 1 \in 1 .. (b.newest + 1) /\ x + 1 <= t + 1 /\ x + 1 - 1 = x
        BY <1>2, <4>2
      <4>7. D \cup (w.out \cup {x}) \subseteq 1 .. t /\ L \ {x} \subseteq 1 .. b.newest
        BY <1>2, <4>1, <4>2
      <4> HIDE DEF x, L
      <4> QED BY <4>1, <4>3, <4>4, <4>5, <4>6, <4>7 DEF Expects
    <3>8. \A d \in D : d < x
      BY <1>1, <1>2, <2>1 DEF Expects
    <3>9. x \notin D /\ x \notin w.out
      BY <1>1, <1>2, <2>1 DEF Expects
    <3> HIDE DEF q
    <3>10. InLoop(v, c, A, t, D, b)
      <4>1. v.c = q /\ v.out = w.out \cup {x} /\ v = [c |-> v.c, out |-> v.out]
        OBVIOUS
      <4>2. v.c.plist \cup v.out = A /\ v.out \cap D = {} /\ \A d \in D, m \in v.out : d < m
        BY <2>1, <3>6, <3>8, <3>9, <4>1 DEF InLoop
      <4> HIDE DEF v
      <4> QED BY <3>6, <3>7, <4>1, <4>2 DEF InLoop
    <3> QED BY <2>1, <3>1, <3>2, <3>6, <3>10
  <2> QED BY <2>3, <2>4
<1> QED BY <1>4, <1>5

\* Where the loop starts.
Started(c, n) ==
  LET s == SeqOf(n)
      age == tr_seqno_cmp(s, c.next)
  IN  IF age = 0 THEN [c |-> [c EXCEPT !.next = tr_seqno_next(s), !.nextAck = s], out |-> {n}]
      ELSE [c |-> IF age < 0 THEN c ELSE [c EXCEPT !.plist = @ \cup {n}], out |-> {}]

\* After receive_rtr_msg the packets handed up are the next ones, or come after old
\* ones, and the head of the list, if any, is one that has to wait.
LEMMA ReceivedIs ==
  ASSUME NEW b, Regular(b), NEW t, NEW D, NEW c \in Conn, NEW n,
         Comes(n, c.plist \cup {n}, t, b),
         InLoop(Started(c, n), c, c.plist \cup {n}, t, D, b)
  PROVE  InLoop(Received(c, n), c, c.plist \cup {n}, t, D, b) /\ Stuck(Received(c, n), SeqOf(n))
<1> DEFINE s == SeqOf(n)
           A == c.plist \cup {n}
           N == Cardinality(c.plist) + 1
           In(w) == InLoop(w, c, A, t, D, b)
           X == {w \in [c : Conn, out : SUBSET (1 .. b.newest)] : In(w)}
           G == [p \in (1 .. N) \X X |-> Turn(p[2], s)]
           After(v) == With(v, LAMBDA w : Turn(w, s))
           Is(g) == g = [i \in 0 .. N |-> IF i = 0 THEN Started(c, n) ELSE After(g[i - 1])]
           turns == CHOOSE g : Is(g)
<1>1. /\ IsFiniteSet(A) /\ N \in Nat /\ Cardinality(A) <= N /\ IsFiniteSet(c.plist)
  <2>1. b.newest \in Nat /\ c.plist \subseteq 1 .. b.newest
    BY ScenarioIs DEF Comes
  <2>2. IsFiniteSet(1 .. b.newest)
    BY <2>1, FS_Interval
  <2>3. IsFiniteSet(c.plist)
    BY <2>1, <2>2, FS_Subset
  <2>4. Cardinality(c.plist) \in Nat
    BY <2>3, FS_CardinalityType
  <2>5. IsFiniteSet(A) /\ (Cardinality(A) = Cardinality(c.plist) \/ Cardinality(A) = N)
    BY <2>3, FS_AddElement
  <2> QED BY <2>3, <2>4, <2>5
<1>2. ASSUME NEW w, In(w) PROVE w \in X /\ w.c \in Conn /\ w.c.plist \subseteq A
  BY <1>2 DEF InLoop, Alike, Comes
<1>3. ASSUME NEW w, In(w)
      PROVE  /\ In(Turn(w, s))
             /\ IF Stuck(w, s) THEN Turn(w, s) = w
                ELSE \E m \in w.c.plist : Turn(w, s).c.plist = w.c.plist \ {m}
  BY <1>3, TurnKeeps
<1> HIDE DEF A, In
<1>4. Started(c, n) \in X /\ In(Started(c, n))
  BY <1>2 DEF In, A
<1>5. G \in [(1 .. N) \X X -> X]
  BY <1>2, <1>3
<1>6. \E g : Turns(X, N, Started(c, n), G, g)
  <2> HIDE DEF X, G, N
  <2> QED BY <1>1, <1>4, <1>5, Iterates
<1>7. PICK g \in [0 .. N -> X] : g[0] = Started(c, n) /\ \A i \in 1 .. N : g[i] = G[<<i, g[i - 1]>>]
  <2> HIDE DEF X, G, N
  <2> QED BY <1>6 DEF Turns
<1>8. ASSUME NEW i \in 1 .. N PROVE g[i] = Turn(g[i - 1], s)
  <2>1. i - 1 \in 0 .. N
    BY <1>1
  <2>2. <<i, g[i - 1]>> \in (1 .. N) \X X /\ g[i] = G[<<i, g[i - 1]>>]
    <3> HIDE DEF X, G, N
    <3> QED BY <1>7, <2>1
  <2> QED BY <2>2
<1>a. ASSUME NEW w PROVE After(w) = Turn(w, s)
  BY DEF With
<1>9. Is(g)
  <2> HIDE DEF X, N, After
  <2> QED BY <1>1, <1>7, <1>8, <1>a
<1>10. Is(turns)
  <2> HIDE DEF Is
  <2> QED BY <1>9
<1>11. Received(c, n) = turns[N]
  BY DEF Received, Started
<1> HIDE DEF turns
<1>12. turns[0] = Started(c, n) /\ \A i \in 1 .. N : turns[i] = Turn(turns[i - 1], s)
  <2> HIDE DEF N, After
  <2> QED BY <1>1, <1>10, <1>a
<1> DEFINE Few(w, i) == IsFiniteSet(w.c.plist) /\ Cardinality(w.c.plist) \in Nat /\ Cardinality(w.c.plist) + i <= N
           P == {i \in 0 .. N : In(turns[i]) /\ (Stuck(turns[i], s) \/ Few(turns[i], i))}
<1>13. 0 \in P
  <2>1. turns[0].c.plist \subseteq A
    BY <1>2, <1>4, <1>12
  <2>2. IsFiniteSet(turns[0].c.plist) /\ Cardinality(turns[0].c.plist) <= Cardinality(A)
        /\ Cardinality(turns[0].c.plist) \in Nat /\ Cardinality(A) \in Nat
    BY <1>1, <2>1, FS_Subset, FS_CardinalityType
  <2> HIDE DEF N
  <2> QED BY <1>1, <1>4, <1>12, <2>2
<1>14. ASSUME NEW i \in 1 .. N, i - 1 \in P PROVE i \in P
  <2> DEFINE w == turns[i - 1]
  <2>1. In(w) /\ (Stuck(w, s) \/ Few(w, i - 1)) /\ turns[i] = Turn(w, s)
    BY <1>12, <1>14
  <2>2. CASE Stuck(w, s)
    <3>1. turns[i] = w
      BY <1>3, <2>1, <2>2
    <3> QED BY <2>1, <2>2, <3>1
  <2>3. CASE ~Stuck(w, s)
    <3>1. PICK m \in w.c.plist : turns[i].c.plist = w.c.plist \ {m}
      BY <1>3, <2>1, <2>3
    <3>2. Few(w, i - 1)
      BY <2>1, <2>3
    <3> HIDE DEF w
    <3>3. IsFiniteSet(turns[i].c.plist) /\ Cardinality(turns[i].c.plist) = Cardinality(w.c.plist) - 1
      <4>1. IsFiniteSet(w.c.plist)
        BY <3>2
      <4> HIDE DEF Few, N, P, In, X, Is
      <4> QED BY <3>1, <4>1, FS_RemoveElement
    <3>4. Cardinality(turns[i].c.plist) \in Nat
      BY <3>3, FS_CardinalityType
    <3>5. In(turns[i])
      BY <1>3, <2>1
    <3> HIDE DEF N
    <3>6. Few(turns[i], i)
      BY <1>1, <3>2, <3>3, <3>4
    <3> QED BY <3>5, <3>6
  <2> QED BY <2>2, <2>3
<1>15. N \in P
  <2>1. N \in 0 .. N
    BY <1>1
  <2>2. \A i \in 0 .. N : i \in P
    <3> HIDE DEF P, N
    <3> QED BY <1>1, <1>13, <1>14, LoopKeeps
  <2> QED BY <2>1, <2>2
<1>16. In(turns[N]) /\ (Stuck(turns[N], s) \/ Few(turns[N], N))
  <2> HIDE DEF N
  <2> QED BY <1>15
<1>17. Stuck(turns[N], s)
  <2>1. CASE Few(turns[N], N)
    <3>1. Cardinality(turns[N].c.plist) = 0
      <4> HIDE DEF N
      <4> QED BY <1>1, <2>1
    <3>2. turns[N].c.plist = {}
      BY <2>1, <3>1, FS_EmptySet
    <3> QED BY <3>2 DEF Stuck
  <2> QED BY <1>16, <2>1
<1> QED BY <1>11, <1>16, <1>17 DEF In, A

-----------------------------------------------------------------------------
(* What an arrival does to a stream.                                         *)

\* The connection of a stream: D was handed up, t is the newest that arrived.
StreamOK(c, t, f, D, b) ==
  /\ c \in Conn
  /\ c.last = IF t = 0 THEN 0 ELSE SeqOf(t)
  /\ \E e : Expects(e, c.plist, t, D, b) /\ c.next = SeqOf(e) /\ e \notin c.plist
  /\ Accounted(c.plist, c.missing, t, f, D)

\* Packet n is close enough to the newest one to be compared with it.
Close(t, n) == IF t = 0 THEN n + TR_VALID_RANGE <= TR_MAX_SEQNO ELSE Near(t, n)

\* r_detectMissingPacket finds every packet between the newest one and n.
LEMMA NoticedIs ==
  ASSUME NEW t \in Nat, NEW n \in Nat \ {0}, Close(t, n),
         NEW c, c.last = IF t = 0 THEN 0 ELSE SeqOf(t)
  PROVE  /\ Newer(c, SeqOf(n)) <=> t < n
         /\ \A i \in Nat : t < i /\ i < n => SeqOf(i) \in MissedBefore(c, SeqOf(n))
<1>1. ASSUME NEW i \in Nat \ {0}, t < i, Close(t, i) PROVE tr_seqno_cmp(SeqOf(i), c.last) = 1
  <2>1. CASE t = 0
    <3>1. i + TR_VALID_RANGE <= TR_MAX_SEQNO /\ c.last = 0
      BY <1>1, <2>1 DEF Close
    <3>2. i \in 1 .. TR_MAX_SEQNO
      BY <3>1, SeqnoAssumption
    <3>3. SeqOf(i) = i
      BY <3>2, SeqOfSmall
    <3>4. ~WrapsPast(0, i)
      BY <3>1, <3>2, SeqnoAssumption DEF WrapsPast, tr_seqno_add, U16Wrap, TR_FIRST_SEQNO
    <3> QED BY <3>1, <3>2, <3>3, <3>4 DEF tr_seqno_cmp
  <2>2. CASE t # 0
    <3>1. t \in Nat \ {0} /\ Near(t, i) /\ c.last = SeqOf(t)
      BY <1>1, <2>2 DEF Close
    <3> QED BY <1>1, <3>1, CmpOfNear
  <2> QED BY <2>1, <2>2
<1>2. ASSUME NEW i \in Nat, t < i, i < n PROVE i \in Nat \ {0} /\ Close(t, i) /\ Near(i, n)
  BY <1>2, SeqnoAssumption DEF Close, Near
<1>3. ASSUME ~(t < n) PROVE ~Newer(c, SeqOf(n))
  <2>1. t \in Nat \ {0} /\ Near(t, n) /\ c.last = SeqOf(t)
    BY <1>3 DEF Close
  <2>2. tr_seqno_cmp(SeqOf(n), SeqOf(t)) = IF n = t THEN 0 ELSE IF t < n THEN 1 ELSE -1
    BY <2>1, CmpOfNear
  <2> QED BY <1>3, <2>1, <2>2 DEF Newer
<1>4. ASSUME t < n PROVE Newer(c, SeqOf(n))
  <2>1. tr_seqno_cmp(SeqOf(n), c.last) = 1
    BY <1>1, <1>4
  <2> QED BY <2>1 DEF Newer
<1>5. ASSUME NEW i \in Nat, t < i, i < n PROVE SeqOf(i) \in MissedBefore(c, SeqOf(n))
  <2>1. i \in Nat \ {0} /\ Close(t, i) /\ Near(i, n)
    BY <1>2, <1>5
  <2>2. tr_seqno_cmp(SeqOf(i), c.last) = 1
    BY <1>1, <1>5, <2>1
  <2>3. tr_seqno_cmp(SeqOf(n), SeqOf(i)) = 1
    BY <1>5, <2>1, CmpOfNear
  <2>4. SeqOf(i) \in Seqno
    BY <2>1, NextSeq
  <2> QED BY <2>2, <2>3, <2>4 DEF MissedBefore
<1> QED BY <1>3, <1>4, <1>5

\* send_FEEDBACK deletes none that is not TR_VALID_RANGE old.
LEMMA FeedbackKeeps ==
  ASSUME NEW c, NEW t, NEW f, NEW D, NEW b, Regular(b), StreamOK(c, t, f, D, b)
  PROVE  /\ StreamOK(AfterFeedback(c), t, f, D, b)
         /\ AfterFeedback(c) = [c EXCEPT !.missing = AfterFeedback(c).missing]
         /\ AfterFeedback(c).missing \subseteq c.missing
<1>1. PICK e : Expects(e, c.plist, t, D, b) /\ c.next = SeqOf(e) /\ e \notin c.plist
  BY DEF StreamOK
<1>2. t \in Nat
  BY <1>1, WaitNear
<1>3. c \in Conn /\ c.last = (IF t = 0 THEN 0 ELSE SeqOf(t)) /\ Accounted(c.plist, c.missing, t, f, D)
  BY DEF StreamOK
<1> DEFINE d == AfterFeedback(c)
<1>4. /\ d = [c EXCEPT !.missing = c.missing \ Void(c)] /\ d \in Conn
      /\ d.missing = c.missing \ Void(c) /\ d.plist = c.plist /\ d.next = c.next /\ d.last = c.last
  BY <1>3 DEF AfterFeedback, Conn
<1>5. ASSUME NEW i \in 1 .. t, i < t, t < i + TR_VALID_RANGE PROVE SeqOf(i) \notin Void(c)
  <2>1. i \in Nat \ {0} /\ t \in Nat \ {0} /\ c.last = SeqOf(t)
    BY <1>2, <1>3
  <2>2. SUFFICES ASSUME tr_seqno_cmp(SeqOf(t), tr_seqno_add(SeqOf(i), TR_VALID_RANGE)) >= 0 PROVE FALSE
    BY <2>1 DEF Void
  <2>3. i + TR_VALID_RANGE <= t
    BY <1>5, <2>1, <2>2, AgeIs
  <2> QED BY <1>2, <1>5, <2>3, SeqnoAssumption
<1> HIDE DEF d
<1>6. Accounted(d.plist, d.missing, t, f, D)
  <2> SUFFICES ASSUME NEW i \in 1 .. t
               PROVE  \/ i \in D \cup d.plist \cup {f}
                      \/ i < t /\ SeqOf(i) \in d.missing
                      \/ i + TR_VALID_RANGE <= t
    BY DEF Accounted
  <2>1. \/ i \in D \cup c.plist \cup {f}
        \/ i < t /\ SeqOf(i) \in c.missing
        \/ i + TR_VALID_RANGE <= t
    BY <1>3 DEF Accounted
  <2>2. t < i + TR_VALID_RANGE \/ i + TR_VALID_RANGE <= t
    BY <1>2, SeqnoAssumption
  <2> QED BY <1>4, <1>5, <2>1, <2>2
<1>7. StreamOK(d, t, f, D, b)
  BY <1>1, <1>3, <1>4, <1>6 DEF StreamOK
<1> QED BY <1>4, <1>7 DEF d

\* The newest packet when n comes after t.
Newest(t, n) == IF n > t THEN n ELSE t

\* Nothing changes for a stream when a newer packet arrives.
LEMMA ExpectsLater ==
  ASSUME NEW b, Regular(b), NEW e, NEW L, NEW t, NEW D, Expects(e, L, t, D, b),
         NEW n \in 1 .. (b.newest + 1)
  PROVE  Expects(e, L, Newest(t, n), D, b)
<1>1. b.newest \in Nat
  BY ScenarioIs
<1>2. /\ t \in 0 .. (b.newest + 1) /\ e \in 1 .. (b.newest + 1) /\ e <= t + 1
      /\ D \subseteq 1 .. t /\ L \subseteq 1 .. b.newest
      /\ \A d \in D : d < e
      /\ \A x \in L : /\ e <= x /\ x <= t
                      /\ Short(b) \/ x + TR_VALID_RANGE <= TR_MAX_SEQNO \/ x < e + TR_VALID_RANGE
      /\ \A j \in 1 .. (e - 1) : j \in D \/ j + TR_VALID_RANGE <= t
  BY DEF Expects
<1> DEFINE u == Newest(t, n)
<1>3. u \in 0 .. (b.newest + 1) /\ t <= u
  BY <1>1, <1>2 DEF Newest
<1> HIDE DEF u
<1>4. D \subseteq 1 .. u
  BY <1>1, <1>2, <1>3
<1>5. \A x \in L : e <= x /\ x <= u
  BY <1>1, <1>2, <1>3
<1>6. \A j \in 1 .. (e - 1) : j \in D \/ j + TR_VALID_RANGE <= u
  BY <1>1, <1>2, <1>3, SeqnoAssumption
<1>7. e <= u + 1
  BY <1>1, <1>2, <1>3
<1>8. Expects(e, L, u, D, b)
  BY <1>2, <1>3, <1>4, <1>5, <1>6, <1>7 DEF Expects
<1> QED BY <1>8 DEF u

\* The connection once its sets of missing packets are brought up to date.
Found(c, n, retx) ==
  IF retx \/ tr_seqno_cmp(SeqOf(n), c.last) < 0 THEN [c EXCEPT !.missing = @ \ {SeqOf(n)}] ELSE c
IsNew(c, n) == tr_seqno_cmp(SeqOf(n), c.next) >= 0 /\ n \notin c.plist
Seen(c, n, retx) ==
  [Noticed(Found(c, n, retx), SeqOf(n)) EXCEPT !.recv = @ \/ IsNew(c, n),
                                               !.timeoutCount = IF IsNew(c, n) THEN 0 ELSE @]
Lost(c, n, retx) ==
  Newer(Found(c, n, retx), SeqOf(n)) /\ MissedBefore(Found(c, n, retx), SeqOf(n)) # {}

LEMMA SeenIs ==
  ASSUME NEW b, Regular(b), NEW c, NEW t, NEW f, NEW D, StreamOK(c, t, f, D, b),
         NEW n, Arrives(n, t, f, D, b), NEW retx \in BOOLEAN, NEW d, d = Seen(c, n, retx)
  PROVE  /\ d \in Conn /\ d.last = SeqOf(Newest(t, n))
         /\ d.key = c.key /\ d.state = c.state /\ d.deletePending = c.deletePending
         /\ d.next = c.next /\ d.plist = c.plist /\ d.req = c.req /\ d.cur = c.cur /\ d.alarm = c.alarm
         /\ Accounted(c.plist \cup {n}, d.missing, Newest(t, n), f, D)
         /\ ~Lost(c, n, retx) => d.missing \subseteq c.missing
<1> DEFINE s == SeqOf(n)
           g == Found(c, n, retx)
           h == Noticed(g, s)
<1>1. PICK e : Expects(e, c.plist, t, D, b) /\ c.next = SeqOf(e) /\ e \notin c.plist
  BY DEF StreamOK
<1>2. c \in Conn /\ c.last = (IF t = 0 THEN 0 ELSE SeqOf(t)) /\ Accounted(c.plist, c.missing, t, f, D)
  BY DEF StreamOK
<1>3. /\ n \in Nat \ {0} /\ e \in Nat \ {0} /\ t \in Nat /\ (t # 0 => Near(t, n)) /\ b.newest \in Nat
      /\ e <= t + 1 /\ n \in 1 .. b.newest /\ n <= t + b.gap /\ t <= n + b.late /\ t <= b.newest + 1
      /\ b.gap \in Nat /\ b.late \in Nat
      /\ Short(b) \/ n + TR_VALID_RANGE <= TR_MAX_SEQNO \/ n < e + TR_VALID_RANGE
  <2>1. /\ n \in Nat \ {0} /\ e \in Nat \ {0} /\ (t # 0 => Near(t, n))
        /\ Short(b) \/ n + TR_VALID_RANGE <= TR_MAX_SEQNO \/ n < e + TR_VALID_RANGE
    BY <1>1, ArrivalNear
  <2>2. b.newest \in Nat /\ b.gap \in Nat /\ b.late \in Nat
    BY ScenarioIs
  <2>3. n \in 1 .. b.newest /\ n <= t + b.gap /\ t <= n + b.late
    BY DEF Arrives
  <2>4. t \in 0 .. (b.newest + 1) /\ e <= t + 1
    BY <1>1 DEF Expects
  <2> QED BY <2>1, <2>2, <2>3, <2>4
<1>4. Close(t, n)
  BY <1>3, SeqnoAssumption DEF Close, Short
<1>5. s \in Seqno
  BY <1>3, NextSeq
<1>6. /\ g \in Conn /\ g = [c EXCEPT !.missing = g.missing] /\ c.missing \ {s} \subseteq g.missing
      /\ g.missing \subseteq c.missing /\ g.last = c.last
  BY <1>2, <1>5 DEF Found, Conn
<1> HIDE DEF g
<1>7. (Newer(g, s) <=> t < n) /\ \A i \in Nat : t < i /\ i < n => SeqOf(i) \in MissedBefore(g, s)
  BY <1>2, <1>3, <1>4, <1>6, NoticedIs
<1>8. MissedBefore(g, s) \subseteq Seqno
  BY DEF MissedBefore
<1>9. /\ h \in Conn /\ h = [c EXCEPT !.missing = h.missing, !.last = h.last]
      /\ h.last = SeqOf(Newest(t, n))
      /\ h.missing = IF t < n THEN g.missing \cup MissedBefore(g, s) ELSE g.missing
  <2>1. CASE t < n
    <3>1. h = [g EXCEPT !.missing = g.missing \cup MissedBefore(g, s), !.last = s]
      BY <1>7, <2>1 DEF Noticed
    <3>2. Newest(t, n) = n
      BY <1>3, <2>1 DEF Newest
    <3>3. h = [c EXCEPT !.missing = g.missing \cup MissedBefore(g, s), !.last = s]
      BY <1>2, <1>6, <3>1 DEF Conn
    <3>4. g.missing \cup MissedBefore(g, s) \in SUBSET Seqno /\ s \in Seqno0
      BY <1>5, <1>6, <1>8 DEF Conn, Seqno0
    <3> HIDE DEF h
    <3>5. h.missing = g.missing \cup MissedBefore(g, s) /\ h.last = s /\ h \in Conn
      BY <1>2, <3>3, <3>4 DEF Conn
    <3> QED BY <2>1, <3>2, <3>3, <3>5 DEF s
  <2>2. CASE ~(t < n)
    <3>1. h = g
      BY <1>7, <2>2 DEF Noticed
    <3>2. Newest(t, n) = t /\ t # 0
      BY <1>3, <2>2 DEF Newest
    <3>3. g.last = SeqOf(t) /\ g = [c EXCEPT !.missing = g.missing, !.last = g.last]
      BY <1>2, <1>6, <3>2 DEF Conn
    <3> HIDE DEF h
    <3> QED BY <1>6, <2>2, <3>1, <3>2, <3>3
  <2> QED BY <2>1, <2>2
<1>10. d = [h EXCEPT !.recv = h.recv \/ IsNew(c, n), !.timeoutCount = IF IsNew(c, n) THEN 0 ELSE h.timeoutCount]
  BY Zenon DEF Seen, g
<1> HIDE DEF h, s
<1>11. /\ d \in Conn /\ d.last = h.last /\ d.missing = h.missing
       /\ d.key = c.key /\ d.state = c.state /\ d.deletePending = c.deletePending
       /\ d.next = c.next /\ d.plist = c.plist /\ d.req = c.req /\ d.cur = c.cur /\ d.alarm = c.alarm
  <2>1. RCRT_MAX_ALIVE_TIMEOUT \in Nat
    BY RcrtAssumption
  <2>2. h.recv \in BOOLEAN /\ h.timeoutCount \in 0 .. RCRT_MAX_ALIVE_TIMEOUT
    BY <1>9 DEF Conn
  <2>3. (h.recv \/ IsNew(c, n)) \in BOOLEAN /\ (IF IsNew(c, n) THEN 0 ELSE h.timeoutCount) \in 0 .. RCRT_MAX_ALIVE_TIMEOUT
    BY <2>1, <2>2
  <2> DEFINE r == h.recv \/ IsNew(c, n)
             o == IF IsNew(c, n) THEN 0 ELSE h.timeoutCount
  <2>4. d = [h EXCEPT !.recv = r, !.timeoutCount = o]
    BY <1>10
  <2>5. r \in BOOLEAN /\ o \in 0 .. RCRT_MAX_ALIVE_TIMEOUT
    BY <2>3
  <2> HIDE DEF IsNew, r, o
  <2>6. /\ d \in Conn /\ d.last = h.last /\ d.missing = h.missing
        /\ d.key = h.key /\ d.state = h.state /\ d.deletePending = h.deletePending
        /\ d.next = h.next /\ d.plist = h.plist /\ d.req = h.req /\ d.cur = h.cur /\ d.alarm = h.alarm
    BY <1>9, <2>4, <2>5 DEF Conn
  <2>7. /\ h.key = c.key /\ h.state = c.state /\ h.deletePending = c.deletePending
        /\ h.next = c.next /\ h.plist = c.plist /\ h.req = c.req /\ h.cur = c.cur /\ h.alarm = c.alarm
    BY <1>2, <1>9 DEF Conn
  <2> QED BY <2>6, <2>7
<1>12. Accounted(c.plist \cup {n}, d.missing, Newest(t, n), f, D)
  <2> DEFINE u == Newest(t, n)
  <2>1. u \in Nat /\ t <= u /\ n <= u /\ (u = t \/ u = n) /\ (t < n => u = n)
    BY <1>3 DEF Newest
  <2> SUFFICES ASSUME NEW i \in 1 .. u
               PROVE  \/ i \in D \cup (c.plist \cup {n}) \cup {f}
                      \/ i < u /\ SeqOf(i) \in d.missing
                      \/ i + TR_VALID_RANGE <= u
    BY DEF Accounted
  <2> HIDE DEF u
  <2>2. CASE i <= t /\ i # n
    <3>1. \/ i \in D \cup c.plist \cup {f}
          \/ i < t /\ SeqOf(i) \in c.missing
          \/ i + TR_VALID_RANGE <= t
      BY <1>2, <1>3, <2>1, <2>2 DEF Accounted
    <3>2. CASE i < t /\ SeqOf(i) \in c.missing
      <4>1. CASE SeqOf(i) = s
        <5>1. ~(i < n + TR_MAX_SEQNO /\ n < i + TR_MAX_SEQNO)
          BY <1>3, <2>1, <2>2, <4>1, SeqOfInjective DEF s
        <5>2. i + TR_VALID_RANGE <= t
          BY <1>3, <2>1, <3>2, <5>1, SeqnoAssumption DEF Regular, Short
        <5> QED BY <1>3, <2>1, <5>2, SeqnoAssumption
      <4>2. CASE SeqOf(i) # s
        <5>1. SeqOf(i) \in d.missing
          BY <1>6, <1>9, <1>11, <3>2, <4>2
        <5> QED BY <1>3, <2>1, <3>2, <5>1
      <4> QED BY <4>1, <4>2
    <3> QED BY <1>3, <2>1, <3>1, <3>2, SeqnoAssumption
  <2>3. CASE t < i /\ i < n
    <3>1. SeqOf(i) \in d.missing
      BY <1>3, <1>7, <1>9, <1>11, <2>1, <2>3
    <3> QED BY <1>3, <2>1, <2>3, <3>1
  <2> QED BY <1>3, <2>1, <2>2, <2>3
<1>13. ASSUME ~Lost(c, n, retx) PROVE d.missing \subseteq c.missing
  <2>1. ~(Newer(g, s) /\ MissedBefore(g, s) # {})
    BY <1>13 DEF Lost, g, s
  <2> QED BY <1>6, <1>7, <1>9, <1>11, <2>1
<1> QED BY <1>9, <1>11, <1>12, <1>13

LEMMA StartedIs ==
  ASSUME NEW b, Regular(b), NEW c \in Conn, NEW e, NEW u, NEW D, Expects(e, c.plist, u, D, b),
         c.next = SeqOf(e), e \notin c.plist,
         NEW n \in 1 .. b.newest, n <= u, e <= n, n \notin c.plist,
         Near(e, n), \A x \in c.plist : Near(x, n),
         Short(b) \/ n + TR_VALID_RANGE <= TR_MAX_SEQNO \/ n < e + TR_VALID_RANGE
  PROVE  /\ InLoop(Started(c, n), c, c.plist \cup {n}, u, D, b)
         /\ Comes(n, c.plist \cup {n}, u, b)
<1> DEFINE s == SeqOf(n)
           L == c.plist
<1>1. b.newest \in Nat /\ n \in Nat \ {0}
  BY ScenarioIs
<1>2. /\ u \in 0 .. (b.newest + 1) /\ e \in 1 .. (b.newest + 1) /\ e <= u + 1
      /\ D \subseteq 1 .. u /\ L \subseteq 1 .. b.newest
      /\ \A x \in D : x < e
      /\ \A x \in L : /\ e <= x /\ x <= u
                      /\ Short(b) \/ x + TR_VALID_RANGE <= TR_MAX_SEQNO \/ x < e + TR_VALID_RANGE
      /\ \A j \in 1 .. (e - 1) : j \in D \/ j + TR_VALID_RANGE <= u
  BY DEF Expects
<1>3. Comes(n, L \cup {n}, u, b)
  <2>1. Near(n, n)
    BY <1>1, SeqnoAssumption DEF Near
  <2> QED BY <1>2, <2>1 DEF Comes
<1>4. s \in Seqno /\ tr_seqno_next(s) \in Seqno /\ tr_seqno_next(s) = SeqOf(n + 1) /\ n \in Index
  <2>1. s \in Seqno /\ tr_seqno_next(s) = SeqOf(n + 1) /\ n + 1 \in Nat \ {0}
    BY <1>1, NextSeq
  <2>2. SeqOf(n + 1) \in Seqno
    BY <2>1, NextSeq
  <2>3. n \in 1 .. (MaxIndex + 1)
    BY ScenarioIs, RcrtAssumption
  <2> QED BY <2>1, <2>2, <2>3 DEF Index
<1>5. tr_seqno_cmp(s, c.next) = IF n = e THEN 0 ELSE 1
  BY <1>1, <1>2, CmpOfNear
<1>6. CASE n = e
  <2> DEFINE q == [c EXCEPT !.next = tr_seqno_next(s), !.nextAck = s]
             v == [c |-> q, out |-> {n}]
  <2>1. Started(c, n) = v
    BY <1>5, <1>6 DEF Started
  <2>2. q \in Conn /\ Alike(c, q) /\ q.plist = L /\ q.next = SeqOf(e + 1)
    BY <1>4, <1>6 DEF Alike, Conn, Seqno0
  <2>3. Expects(e + 1, L, u, D \cup {n}, b)
    <3>1. D \cup {n} \subseteq 1 .. u
      BY <1>1, <1>2
    <3>2. \A x \in D \cup {n} : x < e + 1
      BY <1>1, <1>2, <1>6
    <3>3. ASSUME NEW x \in L
          PROVE  /\ e + 1 <= x /\ x <= u
                 /\ Short(b) \/ x + TR_VALID_RANGE <= TR_MAX_SEQNO \/ x < e + 1 + TR_VALID_RANGE
      BY <1>1, <1>2, SeqnoAssumption
    <3>4. \A j \in 1 .. e : j \in D \cup {n} \/ j + TR_VALID_RANGE <= u
      BY <1>1, <1>2, <1>6
    <3>5. e + 1 \in 1 .. (b.newest + 1) /\ e + 1 <= u + 1 /\ e + 1 - 1 = e
      BY <1>1, <1>2, <1>6
    <3> QED BY <1>2, <3>1, <3>2, <3>3, <3>4, <3>5 DEF Expects
  <2>4. n \notin D /\ \A x \in D : x < n
    BY <1>1, <1>2, <1>6
  <2> HIDE DEF q
  <2>5. v.c = q /\ v.out = {n} /\ v = [c |-> v.c, out |-> v.out]
    OBVIOUS
  <2> HIDE DEF v
  <2>6. v.c.plist \cup v.out = L \cup {n} /\ v.out \cap D = {} /\ \A x \in D, m \in v.out : x < m
    BY <2>2, <2>4, <2>5
  <2>7. InLoop(v, c, L \cup {n}, u, D, b)
    BY <2>2, <2>3, <2>5, <2>6 DEF InLoop
  <2> QED BY <1>3, <2>1, <2>7
<1>7. CASE n # e
  <2> DEFINE q == [c EXCEPT !.plist = c.plist \cup {n}]
             v == [c |-> q, out |-> {}]
  <2>1. Started(c, n) = v
    BY <1>5, <1>7 DEF Started
  <2>2. q \in Conn /\ Alike(c, q) /\ q.plist = L \cup {n} /\ q.next = SeqOf(e)
    BY <1>4 DEF Alike, Conn
  <2>3. Expects(e, L \cup {n}, u, D, b)
    BY <1>1, <1>2 DEF Expects
  <2> HIDE DEF q
  <2>5. v.c = q /\ v.out = {} /\ v = [c |-> v.c, out |-> v.out]
    OBVIOUS
  <2> HIDE DEF v
  <2>6. v.c.plist \cup v.out = L \cup {n} /\ v.out \cap D = {} /\ \A x \in D, m \in v.out : x < m
    BY <2>2, <2>5
  <2>7. Expects(e, v.c.plist, u, D \cup v.out, b) /\ v.c.next = SeqOf(e)
    BY <2>2, <2>3, <2>5
  <2>8. InLoop(v, c, L \cup {n}, u, D, b)
    BY <2>2, <2>5, <2>6, <2>7 DEF InLoop
  <2> QED BY <1>3, <2>1, <2>8
<1> QED BY <1>6, <1>7

\* w is connection c, with stream t, f and D, after a data packet made u the newest.
\* What w hands up comes after what was handed up before, and all before it was handed
\* up or is TR_VALID_RANGE old.
TakenOK(c, w, u, f, D, b) ==
  /\ StreamOK(w.c, u, f, D \cup w.out, b)
  /\ w.c.key = c.key /\ w.c.deletePending = c.deletePending
  /\ w.c.req = c.req /\ w.c.cur = c.cur /\ w.c.alarm = c.alarm
  /\ w.c.missing # {} => w.c.state # "ACTIVE"
  /\ ~w.lost => w.c.missing \subseteq c.missing
  /\ w.out \cap D = {} /\ w.out \subseteq 1 .. u
  /\ \A m \in w.out : /\ \A d \in D : d < m
                      /\ \A j \in 1 .. m : j \in D \cup w.out \/ j + TR_VALID_RANGE <= u

\* A data packet keeps the stream as it has to be.
LEMMA TakenIs ==
  ASSUME NEW b, Regular(b), NEW c, NEW t, NEW f, NEW D, StreamOK(c, t, f, D, b),
         NEW n, Arrives(n, t, f, D, b), NEW retx \in BOOLEAN, NEW w, w = Taken(c, n, retx)
  PROVE  TakenOK(c, w, Newest(t, n), f, D, b)
<1> DEFINE s == SeqOf(n)
           u == Newest(t, n)
           d == Seen(c, n, retx)
           v == IF IsNew(c, n) THEN Received(d, n) ELSE [c |-> d, out |-> {}]
           Wrap(z) == [c |-> [z.c EXCEPT !.state = StateAfter(z.c)], out |-> z.out, isNew |-> IsNew(c, n),
                       lost |-> Lost(c, n, retx)]
           q == [v.c EXCEPT !.state = StateAfter(v.c)]
<1>1. w = Wrap(v)
  <2>1. w = With(v, LAMBDA z : [c |-> [z.c EXCEPT !.state = StateAfter(z.c)], out |-> z.out,
                                isNew |-> IsNew(c, n), lost |-> Lost(c, n, retx)])
    BY Zenon DEF Taken, Seen, Found, IsNew, Lost
  <2>2. With(v, LAMBDA z : [c |-> [z.c EXCEPT !.state = StateAfter(z.c)], out |-> z.out,
                            isNew |-> IsNew(c, n), lost |-> Lost(c, n, retx)]) = Wrap(v)
    BY DEF With
  <2> QED BY <2>1, <2>2
<1>2. PICK e : Expects(e, c.plist, t, D, b) /\ c.next = SeqOf(e) /\ e \notin c.plist
  BY DEF StreamOK
<1>3. c \in Conn
  BY DEF StreamOK
<1>4. /\ n \in Nat \ {0} /\ e \in Nat \ {0} /\ t \in Nat /\ Near(e, n)
      /\ \A x \in c.plist : Near(x, n)
      /\ Short(b) \/ n + TR_VALID_RANGE <= TR_MAX_SEQNO \/ n < e + TR_VALID_RANGE
  BY <1>2, ArrivalNear, WaitNear
<1>5. n \in 1 .. b.newest /\ b.newest \in Nat /\ n \in 1 .. (b.newest + 1)
  BY ScenarioIs DEF Arrives
<1>6. u \in Nat /\ n <= u /\ t <= u
  BY <1>4 DEF Newest
<1>7. Expects(e, c.plist, u, D, b)
  BY <1>2, <1>5, ExpectsLater
<1>8. /\ d \in Conn /\ d.last = SeqOf(u)
      /\ d.key = c.key /\ d.state = c.state /\ d.deletePending = c.deletePending
      /\ d.next = c.next /\ d.plist = c.plist /\ d.req = c.req /\ d.cur = c.cur /\ d.alarm = c.alarm
      /\ Accounted(c.plist \cup {n}, d.missing, u, f, D)
      /\ ~Lost(c, n, retx) => d.missing \subseteq c.missing
  BY SeenIs
<1>9. IsNew(c, n) <=> e <= n /\ n \notin c.plist
  <2>1. tr_seqno_cmp(s, c.next) = IF n = e THEN 0 ELSE IF e < n THEN 1 ELSE -1
    BY <1>2, <1>4, CmpOfNear
  <2> QED BY <1>4, <2>1 DEF IsNew
<1> HIDE DEF u, d
<1>10. /\ Alike(d, v.c) /\ v = [c |-> v.c, out |-> v.out] /\ v.out \cap D = {} /\ \A x \in D, m \in v.out : x < m
       /\ \E x : Expects(x, v.c.plist, u, D \cup v.out, b) /\ v.c.next = SeqOf(x) /\ x \notin v.c.plist
       /\ Accounted(v.c.plist, v.c.missing, u, f, D \cup v.out)
  <2>1. CASE IsNew(c, n)
    <3>1. v = Received(d, n)
      BY <2>1
    <3>2. /\ InLoop(Started(d, n), d, d.plist \cup {n}, u, D, b)
          /\ Comes(n, d.plist \cup {n}, u, b)
      BY <1>2, <1>4, <1>5, <1>6, <1>7, <1>8, <1>9, <2>1, StartedIs
    <3> HIDE DEF v
    <3>3. InLoop(v, d, d.plist \cup {n}, u, D, b) /\ Stuck(v, s)
      BY <1>8, <3>1, <3>2, ReceivedIs
    <3>4. /\ Alike(d, v.c) /\ v = [c |-> v.c, out |-> v.out] /\ v.out \cap D = {} /\ \A x \in D, m \in v.out : x < m
          /\ v.c.plist \cup v.out = c.plist \cup {n}
      BY <1>8, <3>3 DEF InLoop
    <3>5. PICK x : Expects(x, v.c.plist, u, D \cup v.out, b) /\ v.c.next = SeqOf(x)
      BY <3>3 DEF InLoop
    <3>6. ASSUME x \in v.c.plist PROVE FALSE
      <4>1. /\ x \in Nat \ {0}
            /\ \A y \in v.c.plist : y \in Nat \ {0} /\ x <= y /\ Near(y, x)
            /\ \A y, z \in v.c.plist : Near(y, z)
        BY <3>5, WaitNear
      <4>2. First(v.c) \in v.c.plist /\ First(v.c) <= x
        BY <3>6, <4>1, FirstIs
      <4>3. First(v.c) = x
        BY <4>1, <4>2
      <4>4. tr_seqno_cmp(SeqOf(First(v.c)), v.c.next) = 0
        BY <3>5, <4>3 DEF tr_seqno_cmp
      <4> QED BY <3>3, <3>6, <4>4 DEF Stuck
    <3>7. Accounted(v.c.plist, v.c.missing, u, f, D \cup v.out)
      <4>1. v.c.missing = d.missing
        BY <3>4 DEF Alike
      <4> QED BY <1>8, <3>4, <4>1 DEF Accounted
    <3> QED BY <3>4, <3>5, <3>6, <3>7
  <2>2. CASE ~IsNew(c, n)
    <3>1. v = [c |-> d, out |-> {}] /\ v.c = d /\ v.out = {}
      BY <2>2
    <3> HIDE DEF v
    <3>2. Alike(d, d)
      BY <1>8 DEF Alike
    <3>3. n \in c.plist \/ n \in D \/ n + TR_VALID_RANGE <= u
      <4>1. CASE n < e
        <5>1. n \in 1 .. (e - 1)
          BY <1>4, <4>1
        <5> QED BY <1>7, <5>1 DEF Expects
      <4>2. CASE ~(n < e)
        BY <1>4, <1>9, <2>2, <4>2
      <4> QED BY <4>1, <4>2
    <3>4. Accounted(c.plist, d.missing, u, f, D)
      BY <1>8, <3>3 DEF Accounted
    <3> QED BY <1>2, <1>7, <1>8, <3>1, <3>2, <3>4
  <2> QED BY <2>1, <2>2
<1> HIDE DEF v
<1>11. PICK x : Expects(x, v.c.plist, u, D \cup v.out, b) /\ v.c.next = SeqOf(x) /\ x \notin v.c.plist
  BY <1>10
<1>12. /\ v.c \in Conn /\ v.c.last = SeqOf(u)
       /\ v.c.key = c.key /\ v.c.state = c.state /\ v.c.deletePending = c.deletePending
       /\ v.c.req = c.req /\ v.c.cur = c.cur /\ v.c.alarm = c.alarm
       /\ v.c.missing = d.missing
  BY <1>8, <1>10 DEF Alike
<1>13. StateAfter(v.c) \in States /\ (v.c.missing # {} => StateAfter(v.c) # "ACTIVE")
  BY <1>12 DEF StateAfter, Conn, States
<1>14. /\ w.c = q /\ w.out = v.out /\ w.lost = Lost(c, n, retx)
  BY <1>1
<1>15. /\ q \in Conn /\ q.state = StateAfter(v.c) /\ q.last = v.c.last /\ q.plist = v.c.plist /\ q.next = v.c.next
       /\ q.missing = v.c.missing /\ q.key = v.c.key /\ q.deletePending = v.c.deletePending
       /\ q.req = v.c.req /\ q.cur = v.c.cur /\ q.alarm = v.c.alarm
  BY <1>12, <1>13 DEF Conn
<1> HIDE DEF q, Wrap
<1>16. StreamOK(w.c, u, f, D \cup w.out, b)
  <2>1. q.last = IF u = 0 THEN 0 ELSE SeqOf(u)
    BY <1>4, <1>6, <1>12, <1>15
  <2>2. Expects(x, q.plist, u, D \cup w.out, b) /\ q.next = SeqOf(x) /\ x \notin q.plist
    BY <1>11, <1>14, <1>15
  <2>3. Accounted(q.plist, q.missing, u, f, D \cup w.out)
    BY <1>10, <1>14, <1>15
  <2> QED BY <1>14, <1>15, <2>1, <2>2, <2>3 DEF StreamOK
<1>17. ASSUME NEW m \in w.out
       PROVE  /\ \A y \in D : y < m
              /\ m \in 1 .. u
              /\ \A j \in 1 .. m : j \in D \cup w.out \/ j + TR_VALID_RANGE <= u
  <2>1. m \in v.out
    BY <1>14
  <2>2. /\ x \in 1 .. (b.newest + 1) /\ D \cup v.out \subseteq 1 .. u /\ m < x
        /\ \A j \in 1 .. (x - 1) : j \in D \cup v.out \/ j + TR_VALID_RANGE <= u
    BY <1>11, <2>1 DEF Expects
  <2>3. m \in 1 .. u /\ \A j \in 1 .. m : j \in 1 .. (x - 1)
    BY <1>5, <1>6, <2>1, <2>2
  <2> QED BY <1>10, <1>14, <2>1, <2>2, <2>3
<1>18. /\ w.c.key = c.key /\ w.c.deletePending = c.deletePending
       /\ w.c.req = c.req /\ w.c.cur = c.cur /\ w.c.alarm = c.alarm
       /\ w.c.missing # {} => w.c.state # "ACTIVE"
       /\ ~w.lost => w.c.missing \subseteq c.missing
       /\ w.out \cap D = {} /\ w.out \subseteq 1 .. u
  BY <1>8, <1>10, <1>12, <1>13, <1>14, <1>15, <1>17 DEF u
<1>19. TakenOK(c, w, u, f, D, b)
  BY <1>16, <1>17, <1>18 DEF TakenOK
<1> QED BY <1>19 DEF u

\* Packet n, a FIN, may be looked at on such a stream.
Ends(n, t, f, b) ==
  /\ n \in 1 .. (b.newest + 1)
  /\ IF f # 0 THEN f = t /\ n = f ELSE n > t /\ n <= t + 2

\* Connection d is c but for what r_detectMissingPacket changes.
Differs(c, d) == d = [c EXCEPT !.missing = d.missing, !.last = d.last]

\* A FIN keeps the stream as it has to be, too.
LEMMA EndedIs ==
  ASSUME NEW b, Regular(b), NEW c, NEW t, NEW f, NEW D, StreamOK(c, t, f, D, b),
         NEW n, Ends(n, t, f, b), NEW d, d = Noticed(c, SeqOf(n))
  PROVE  StreamOK(d, n, n, D, b) /\ Differs(c, d)
<1>1. PICK e : Expects(e, c.plist, t, D, b) /\ c.next = SeqOf(e) /\ e \notin c.plist
  BY DEF StreamOK
<1>2. c \in Conn /\ c.last = (IF t = 0 THEN 0 ELSE SeqOf(t)) /\ Accounted(c.plist, c.missing, t, f, D)
  BY DEF StreamOK
<1>3. b.newest \in Nat /\ t \in 0 .. (b.newest + 1) /\ n \in 1 .. (b.newest + 1) /\ t <= n /\ n <= t + 2
  <2>1. t \in 0 .. (b.newest + 1) /\ b.newest \in Nat
    BY <1>1, ScenarioIs DEF Expects
  <2> QED BY <2>1 DEF Ends
<1>4. Close(t, n)
  <2>1. CASE Short(b)
    BY <1>3, <2>1, SeqnoAssumption DEF Close, Short, Near
  <2>2. CASE ~Short(b)
    <3>1. 2 < TR_VALID_RANGE
      BY <2>2 DEF Regular
    <3> QED BY <1>3, <3>1, SeqnoAssumption DEF Close, Near
  <2> QED BY <2>1, <2>2
<1>5. SeqOf(n) \in Seqno
  BY <1>3, NextSeq
<1>6. (Newer(c, SeqOf(n)) <=> t < n) /\ \A i \in Nat : t < i /\ i < n => SeqOf(i) \in MissedBefore(c, SeqOf(n))
  BY <1>2, <1>3, <1>4, NoticedIs
<1>7. /\ d \in Conn /\ d = [c EXCEPT !.missing = d.missing, !.last = d.last]
      /\ d.last = SeqOf(n) /\ d.plist = c.plist /\ d.next = c.next /\ c.missing \subseteq d.missing
      /\ t < n => \A i \in Nat : t < i /\ i < n => SeqOf(i) \in d.missing
      /\ n = t => d = c
  <2>1. CASE t < n
    <3>1. d = [c EXCEPT !.missing = c.missing \cup MissedBefore(c, SeqOf(n)), !.last = SeqOf(n)]
      BY <1>6, <2>1 DEF Noticed
    <3>2. c.missing \cup MissedBefore(c, SeqOf(n)) \in SUBSET Seqno /\ SeqOf(n) \in Seqno0
      BY <1>2, <1>5 DEF MissedBefore, Conn, Seqno0
    <3>3. /\ d.missing = c.missing \cup MissedBefore(c, SeqOf(n)) /\ d.last = SeqOf(n) /\ d \in Conn
          /\ d.plist = c.plist /\ d.next = c.next
      BY <1>2, <3>1, <3>2 DEF Conn
    <3> QED BY <1>3, <1>6, <2>1, <3>1, <3>3
  <2>2. CASE ~(t < n)
    <3>1. d = c /\ n = t
      BY <1>3, <1>6, <2>2 DEF Noticed
    <3>2. d = [c EXCEPT !.missing = d.missing, !.last = d.last]
      BY <1>2, <3>1 DEF Conn
    <3> QED BY <1>2, <1>3, <2>2, <3>1, <3>2
  <2> QED BY <2>1, <2>2
<1>8. Expects(e, c.plist, n, D, b)
  <2>1. Newest(t, n) = n
    BY <1>3 DEF Newest
  <2> QED BY <1>1, <1>3, <2>1, ExpectsLater
<1>9. Accounted(d.plist, d.missing, n, n, D)
  <2> SUFFICES ASSUME NEW i \in 1 .. n
               PROVE  \/ i \in D \cup c.plist \cup {n}
                      \/ i < n /\ SeqOf(i) \in d.missing
                      \/ i + TR_VALID_RANGE <= n
    BY <1>7 DEF Accounted
  <2>1. CASE i <= t
    <3>1. \/ i \in D \cup c.plist \cup {f}
          \/ i < t /\ SeqOf(i) \in c.missing
          \/ i + TR_VALID_RANGE <= t
      BY <1>2, <1>3, <2>1 DEF Accounted
    <3>2. i = f => i = n
      BY <1>3 DEF Ends
    <3> QED BY <1>3, <1>7, <2>1, <3>1, <3>2, SeqnoAssumption
  <2>2. CASE t < i
    BY <1>3, <1>7, <2>2
  <2> QED BY <1>3, <2>1, <2>2
<1>10. d.last = IF n = 0 THEN 0 ELSE SeqOf(n)
  BY <1>3, <1>7
<1>11. Expects(e, d.plist, n, D, b) /\ d.next = SeqOf(e) /\ e \notin d.plist
  BY <1>1, <1>7, <1>8
<1>12. Differs(c, d)
  BY <1>7 DEF Differs
<1> QED BY <1>7, <1>9, <1>10, <1>11, <1>12 DEF StreamOK

-----------------------------------------------------------------------------
(* The totals, and the rate that is shared.                                  *)

TotalsType == [N : Int, D : Int, R : Int, slow : BOOLEAN, lastp : 0 .. 100]

LEMMA RateIs == ASSUME NEW ms \in Interval PROVE Rate(ms) \in Nat
BY DEF Rate, Infinite, Interval

LEMMA RatioIs == ASSUME NEW a \in Int, NEW b \in Int, b # 0 PROVE Ratio(a, b) \in Int
<1>1. ASSUME NEW x \in Int, NEW y \in Int, y > 0 PROVE Quot(x, y) \in Int
  BY <1>1 DEF Quot
<1>2. CASE b > 0
  BY <1>1, <1>2 DEF Ratio
<1>3. CASE b < 0
  <2>1. -a \in Int /\ -b \in Int /\ -b > 0
    BY <1>3
  <2>2. Quot(-a, -b) \in Int
    BY <1>1, <2>1
  <2> QED BY <1>3, <2>2 DEF Ratio
<1> QED BY <1>2, <1>3

LEMMA CutIs ==
  ASSUME NEW a \in Int, NEW b \in Int, b # 0
  PROVE  Cut(a, b) \in Int /\ Cut(a, b) + 1 >= Ratio(a, b)
<1>1. PICK r \in Int : r = Ratio(a, b)
  BY RatioIs
<1> QED BY <1>1 DEF Cut

LEMMA IntervalOfIs == ASSUME NEW a \in Int, NEW b \in Int PROVE IntervalOf(a, b) \in Interval
<1>1. CASE b = 0
  BY <1>1 DEF IntervalOf, Interval
<1>2. CASE b # 0
  <2>1. PICK r \in Int : r = Cut(a, b)
    BY <1>2, CutIs
  <2>2. r % 65536 \in Nat /\ r % 65536 <= 65535
    OBVIOUS
  <2> QED BY <1>2, <2>1, <2>2 DEF IntervalOf, Interval
<1> QED BY <1>1, <1>2

LEMMA JoinedIs ==
  ASSUME NEW g \in TotalsType, NEW req \in Interval
  PROVE  Joined(g, req) \in TotalsType /\ Joined(g, req).N = g.N + 1
<1>1. Rate(req) \in Int
  BY RateIs
<1> DEFINE more == IF g.R = 0 \/ g.N = 0 \/ (g.slow /\ g.R <= 25000)
                   THEN (IF req < 2000 THEN 500 ELSE Rate(req)) ELSE 0
<1>2. more \in Int
  BY <1>1
<1> DEFINE R == g.R + more
           D == g.D + Rate(req)
           N == g.N + 1
<1>3. Joined(g, req) = [g EXCEPT !.R = R, !.D = D, !.N = N]
  BY DEF Joined
<1> HIDE DEF more
<1>4. R \in Int /\ D \in Int /\ N \in Int
  BY <1>1, <1>2 DEF TotalsType
<1>5. Joined(g, req).N = N
  BY <1>3 DEF TotalsType
<1> HIDE DEF R, D, N
<1>6. Joined(g, req) \in TotalsType
  BY <1>3, <1>4 DEF TotalsType
<1> QED BY <1>5, <1>6 DEF N

LEMMA FinishIs ==
  ASSUME NEW g \in TotalsType, NEW c \in Conn, NEW p
  PROVE  FinishRates(p, g, c) \in TotalsType /\ FinishRates(p, g, c).N = g.N - 1
<1>1. Rate(c.cur) \in Int /\ Rate(c.req) \in Int
  <2>1. c.cur \in Interval /\ c.req \in Interval
    BY DEF Conn
  <2> QED BY <2>1, RateIs
<1> DEFINE R == g.R - Rate(c.cur)
           D == IF p = RCRT_FAIR_RATE THEN g.D ELSE g.D - Desired(c)
           S == IF p # RCRT_FAIR_RATE /\ R > D THEN D ELSE R
<1>2. R \in Int /\ D \in Int /\ S \in Int
  BY <1>1 DEF Desired, TotalsType
<1> DEFINE N == g.N - 1
<1>3. FinishRates(p, g, c) = IF g.N = 1 THEN [NoRates EXCEPT !.lastp = g.lastp]
                             ELSE [g EXCEPT !.N = N, !.D = D, !.R = S]
  BY DEF FinishRates
<1> HIDE DEF R, D, S
<1>4. CASE g.N = 1
  <2>1. FinishRates(p, g, c) = [N |-> 0, D |-> 0, R |-> 0, slow |-> TRUE, lastp |-> g.lastp]
    BY <1>3, <1>4 DEF NoRates
  <2>2. g.lastp \in 0 .. 100 /\ N = 0
    BY <1>4 DEF TotalsType
  <2> HIDE DEF N
  <2> QED BY <2>1, <2>2 DEF TotalsType, N
<1>5. CASE g.N # 1
  <2>1. N \in Int
    BY DEF TotalsType
  <2> HIDE DEF N
  <2>2. FinishRates(p, g, c) \in TotalsType /\ FinishRates(p, g, c).N = N
    BY <1>2, <1>3, <1>5, <2>1 DEF TotalsType
  <2> QED BY <2>2 DEF N
<1> QED BY <1>4, <1>5

LEMMA IncreasedIs ==
  ASSUME NEW g \in TotalsType PROVE Increased(g) \in TotalsType /\ Increased(g).N = g.N
<1> DEFINE R == g.R + (IF g.slow THEN 2000 ELSE 1000)
           S == IF R > g.D /\ g.D > 0 THEN g.D ELSE R
<1>1. S \in Int
  BY DEF TotalsType
<1>2. Increased(g) = [g EXCEPT !.R = S]
  BY DEF Increased
<1> HIDE DEF S
<1> QED BY <1>1, <1>2 DEF TotalsType

LEMMA DeliveryIs ==
  ASSUME NEW g \in TotalsType, NEW loss \in 0 .. 99
  PROVE  Delivery(g, loss) \in 0 .. 100
<1>1. g.lastp \in 0 .. 100
  BY DEF TotalsType
<1>2. CASE 100 - loss < g.lastp
  <2> DEFINE a == 100 * (100 - loss)
             q == a \div g.lastp
  <2>1. g.lastp \in Nat /\ g.lastp > 0 /\ a \in Nat /\ a < 100 * g.lastp
    BY <1>1, <1>2
  <2> HIDE DEF a
  <2>2. q \in Int /\ g.lastp * q <= a /\ a < g.lastp * q + g.lastp
    BY <2>1
  <2>3. q >= 0
    <3>1. ASSUME q <= -1 PROVE FALSE
      <4>1. g.lastp * q <= g.lastp * (-1)
        BY <2>1, <2>2, <3>1
      <4> HIDE DEF q
      <4> QED BY <2>1, <2>2, <4>1
    <3> QED BY <2>2, <3>1
  <2>4. q <= 100
    <3>1. ASSUME q >= 101 PROVE FALSE
      <4>1. g.lastp * q >= g.lastp * 101
        BY <2>1, <2>2, <3>1
      <4> HIDE DEF q
      <4> QED BY <2>1, <2>2, <4>1
    <3> QED BY <2>2, <3>1
  <2>5. Delivery(g, loss) = q
    BY <1>2 DEF Delivery, a
  <2> HIDE DEF q
  <2> QED BY <2>2, <2>3, <2>4, <2>5
<1>3. CASE ~(100 - loss < g.lastp)
  BY <1>3 DEF Delivery
<1> QED BY <1>2, <1>3

LEMMA DecreasedIs ==
  ASSUME NEW g \in TotalsType, NEW loss \in 0 .. 99
  PROVE  Decreased(g, loss) \in TotalsType /\ Decreased(g, loss).N = g.N
<1> DEFINE p == Delivery(g, loss)
           R == Quot(DecRatio(p) * g.R, 100)
           floor == (1000 * g.N) \div 30
           S == IF R < floor THEN floor ELSE R
<1>1. p \in 0 .. 100
  BY DeliveryIs
<1>2. DecRatio(p) \in Int
  <2> HIDE DEF p
  <2>1. 200 - p \in Nat /\ 200 - p > 0 /\ 100 * p \in Nat
    BY <1>1
  <2>2. (100 * p) \div (200 - p) \in Int
    BY <2>1
  <2> QED BY <2>2 DEF DecRatio
<1>3. S \in Int
  <2>1. DecRatio(p) * g.R \in Int
    BY <1>2 DEF TotalsType
  <2>2. R \in Int
    <3>1. PICK x \in Int : x = DecRatio(p) * g.R
      BY <2>1
    <3> QED BY <3>1 DEF Quot
  <2>3. floor \in Int
    BY DEF TotalsType
  <2> HIDE DEF R, floor
  <2> QED BY <2>2, <2>3
<1>4. Decreased(g, loss) = [g EXCEPT !.R = S, !.lastp = p]
  BY DEF Decreased
<1> HIDE DEF S, p
<1> QED BY <1>1, <1>3, <1>4 DEF TotalsType

\* The list ds is cs but for the intervals that the connections are given.
Recured(cs, ds) ==
  /\ ds \in Seq(Conn) /\ Len(ds) = Len(cs)
  /\ \A i \in 1 .. Len(cs) : ds[i] = [cs[i] EXCEPT !.cur = ds[i].cur]

LEMMA RecuredSame == ASSUME NEW cs \in Seq(Conn) PROVE Recured(cs, cs)
<1>1. ASSUME NEW i \in 1 .. Len(cs) PROVE cs[i] = [cs[i] EXCEPT !.cur = cs[i].cur]
  <2>1. cs[i] \in Conn
    OBVIOUS
  <2> QED BY <2>1 DEF Conn
<1> QED BY <1>1 DEF Recured

LEMMA WithCurIs ==
  ASSUME NEW cs \in Seq(Conn), NEW cur, \A i \in 1 .. Len(cs) : cur[i] \in Interval
  PROVE  Recured(cs, WithCur(cs, cur))
<1> DEFINE ds == WithCur(cs, cur)
<1>1. Len(cs) \in Nat /\ DOMAIN cs = 1 .. Len(cs)
  OBVIOUS
<1>2. ds = [i \in 1 .. Len(cs) |-> [cs[i] EXCEPT !.cur = cur[i]]]
  BY <1>1 DEF WithCur
<1> HIDE DEF ds
<1>3. ASSUME NEW i \in 1 .. Len(cs)
      PROVE  ds[i] \in Conn /\ ds[i] = [cs[i] EXCEPT !.cur = ds[i].cur]
  <2>1. cs[i] \in Conn /\ ds[i] = [cs[i] EXCEPT !.cur = cur[i]] /\ cur[i] \in Interval
    BY <1>2
  <2> QED BY <2>1 DEF Conn
<1>4. ds \in Seq(Conn) /\ Len(ds) = Len(cs)
  BY <1>1, <1>2, <1>3
<1>5. Recured(cs, ds)
  BY <1>3, <1>4 DEF Recured
<1> QED BY <1>5 DEF ds

\* A sum of numbers is a number.
LEMMA TotalType ==
  ASSUME NEW N \in Nat, NEW xs, xs = [i \in 1 .. N |-> xs[i]], \A i \in 1 .. N : xs[i] \in Int
  PROVE  Total(xs) \in Int
<1>1. xs \in Seq(Int) /\ Len(xs) = N
  OBVIOUS
<1>2. PICK g : Sums(xs, g) /\ Total(xs) = g[Len(xs)]
  BY <1>1, TotalIs
<1> QED BY <1>1, <1>2 DEF Sums

LEMMA RatesOf ==
  ASSUME NEW cs \in Seq(Conn), NEW i \in 1 .. Len(cs)
  PROVE  /\ cs[i] \in Conn /\ cs[i].req \in Interval /\ cs[i].req \in Int /\ cs[i].cur \in Interval
         /\ Rate(cs[i].cur) \in Int /\ Desired(cs[i]) \in Int
<1>1. cs[i] \in Conn
  OBVIOUS
<1>2. cs[i].req \in Interval /\ cs[i].cur \in Interval
  BY <1>1 DEF Conn
<1> QED BY <1>1, <1>2, RateIs DEF Desired, Interval

LEMMA LeftIs ==
  ASSUME NEW cs \in Seq(Conn), NEW g \in TotalsType, NEW S \in SUBSET (1 .. Len(cs))
  PROVE  Left(cs, g, S).R \in Int /\ Left(cs, g, S).N \in Int
<1> DEFINE N == Len(cs)
           xs == [i \in DOMAIN cs |-> IF i \in S THEN Desired(cs[i]) ELSE 0]
<1>1. N \in Nat /\ DOMAIN cs = 1 .. N
  OBVIOUS
<1>2. \A i \in 1 .. N : xs[i] \in Int
  BY <1>1, RatesOf
<1>3. xs = [i \in 1 .. N |-> xs[i]]
  BY <1>1
<1>4. Total(xs) \in Int
  <2> HIDE DEF xs, N
  <2> QED BY <1>1, <1>2, <1>3, TotalType
<1>5. Cardinality(S) \in Int
  <2>1. IsFiniteSet(1 .. N) /\ S \subseteq 1 .. N
    BY <1>1, FS_Interval
  <2>2. IsFiniteSet(S)
    BY <2>1, FS_Subset
  <2> QED BY <2>2, FS_CardinalityType
<1>6. g.R \in Int /\ g.N \in Int
  BY DEF TotalsType
<1>7. Left(cs, g, S) = [R |-> g.R - Total(xs), N |-> g.N - Cardinality(S)]
  BY DEF Left
<1> HIDE DEF xs
<1> QED BY <1>4, <1>5, <1>6, <1>7

\* One pass of the loop of DistributeR, and all of them.
Fits(cs, g, S) == {i \in (1 .. Len(cs)) \ S : Desired(cs[i]) * Left(cs, g, S).N <= Left(cs, g, S).R}
Passes(cs, g, pass) ==
  /\ pass[0] = {}
  /\ \A n \in 1 .. Len(cs) : pass[n] = pass[n - 1] \cup Fits(cs, g, pass[n - 1])
  /\ \A n \in 0 .. Len(cs) : pass[n] \in SUBSET (1 .. Len(cs))

LEMMA SatisfiedPasses ==
  ASSUME NEW cs \in Seq(Conn), NEW g
  PROVE  \E pass : Passes(cs, g, pass) /\ Satisfied(cs, g) = pass[Len(cs)]
<1> DEFINE N == Len(cs)
           X == SUBSET (1 .. N)
           More(S) == S \cup {i \in DOMAIN cs \ S : Desired(cs[i]) * Left(cs, g, S).N <= Left(cs, g, S).R}
           After(v) == With(v, LAMBDA S : LET left == Left(cs, g, S)
                                          IN  S \cup {i \in DOMAIN cs \ S : Desired(cs[i]) * left.N <= left.R})
           G == [p \in (1 .. N) \X X |-> More(p[2])]
           Is(h) == h = [n \in 0 .. N |-> IF n = 0 THEN {} ELSE After(h[n - 1])]
           pass == CHOOSE h : Is(h)
<1>1. N \in Nat /\ DOMAIN cs = 1 .. N
  OBVIOUS
<1>2. ASSUME NEW S \in X PROVE More(S) \in X
  BY <1>1
<1>3. ASSUME NEW v PROVE After(v) = More(v)
  BY DEF With
<1> HIDE DEF More, After
<1>4. G \in [(1 .. N) \X X -> X]
  BY <1>2
<1>5. \E h : Turns(X, N, {}, G, h)
  <2>1. {} \in X
    OBVIOUS
  <2> HIDE DEF X, N, G
  <2> QED BY <1>1, <1>4, <2>1, Iterates
<1>6. PICK h \in [0 .. N -> X] : h[0] = {} /\ \A i \in 1 .. N : h[i] = G[<<i, h[i - 1]>>]
  <2> HIDE DEF X, N, G
  <2> QED BY <1>5 DEF Turns
<1>7. ASSUME NEW i \in 1 .. N PROVE h[i] = After(h[i - 1])
  <2>1. i - 1 \in 0 .. N
    BY <1>1
  <2>2. <<i, h[i - 1]>> \in (1 .. N) \X X /\ h[i] = G[<<i, h[i - 1]>>]
    <3> HIDE DEF X, G, N
    <3> QED BY <1>6, <2>1
  <2> QED BY <1>3, <2>2
<1>8. Is(h)
  <2> HIDE DEF X, N
  <2> QED BY <1>1, <1>6, <1>7
<1>9. Is(pass)
  <2> HIDE DEF Is
  <2> QED BY <1>8
<1>10. Satisfied(cs, g) = pass[N]
  BY DEF Satisfied, After
<1> HIDE DEF pass
<1>11. pass[0] = {} /\ \A i \in 1 .. N : pass[i] = More(pass[i - 1])
  <2> HIDE DEF N
  <2> QED BY <1>1, <1>3, <1>9
<1> DEFINE P == {i \in 0 .. N : pass[i] \in X}
<1>12. 0 \in P /\ \A i \in 1 .. N : i - 1 \in P => i \in P
  <2>1. {} \in X
    OBVIOUS
  <2> HIDE DEF X, N
  <2>2. 0 \in P
    <3>1. pass[0] \in X
      <4> HIDE DEF P
      <4> QED BY <1>11, <2>1
    <3>2. 0 \in 0 .. N
      BY <1>1
    <3> QED BY <3>1, <3>2
  <2>3. ASSUME NEW i \in 1 .. N, i - 1 \in P PROVE i \in P
    <3>1. More(pass[i - 1]) \in X
      <4>1. pass[i - 1] \in X
        BY <2>3
      <4> HIDE DEF P
      <4> QED BY <1>2, <4>1
    <3>2. pass[i] \in X
      <4> HIDE DEF P
      <4> QED BY <1>11, <3>1
    <3>3. i \in 0 .. N
      BY <1>1
    <3> QED BY <3>2, <3>3
  <2> HIDE DEF P
  <2> QED BY <2>2, <2>3
<1>13. \A i \in 0 .. N : i \in P
  <2> HIDE DEF P, N
  <2> QED BY <1>1, <1>12, LoopKeeps
<1>14. ASSUME NEW S PROVE More(S) = S \cup Fits(cs, g, S)
  BY <1>1 DEF More, Fits
<1>15. Passes(cs, g, pass)
  <2> HIDE DEF X
  <2>1. \A n \in 0 .. N : pass[n] \in X
    <3> HIDE DEF N
    <3> QED BY <1>13
  <2> HIDE DEF P
  <2> QED BY <1>11, <1>14, <2>1 DEF Passes, X
<1> QED BY <1>10, <1>15

LEMMA SatisfiedIs ==
  ASSUME NEW cs \in Seq(Conn), NEW g PROVE Satisfied(cs, g) \in SUBSET (1 .. Len(cs))
<1>1. PICK pass : Passes(cs, g, pass) /\ Satisfied(cs, g) = pass[Len(cs)]
  BY SatisfiedPasses
<1>2. Len(cs) \in 0 .. Len(cs)
  <2>1. Len(cs) \in Nat
    OBVIOUS
  <2> QED BY <2>1
<1> QED BY <1>1, <1>2 DEF Passes

\* Sharing anew changes nothing but the intervals.
LEMMA SharedIs ==
  ASSUME NEW cs \in Seq(Conn), NEW g \in TotalsType, NEW p, NEW good
  PROVE  Recured(cs, AllocateFairly(p, cs, g, good))
<1> DEFINE N == Len(cs)
<1>1. N \in Nat /\ DOMAIN cs = 1 .. N
  OBVIOUS
<1>2. g.N \in Int /\ g.D \in Int /\ g.R \in Int
  BY DEF TotalsType
<1>3. Recured(cs, AllocateByRho(cs, g))
  <2> DEFINE cur == [i \in DOMAIN cs |-> IF g.D = 0 THEN IntervalOf(cs[i].req, 1)
                                   ELSE IntervalOf(cs[i].req * g.D, g.R)]
  <2>1. ASSUME NEW i \in 1 .. N PROVE cur[i] \in Interval
    <3>1. cs[i].req \in Interval /\ cs[i].req \in Int
      BY RatesOf
    <3>2. PICK x \in Int : x = cs[i].req * g.D
      BY <1>2, <3>1
    <3>3. IntervalOf(x, g.R) \in Interval /\ IntervalOf(cs[i].req, 1) \in Interval
      BY <1>2, <3>1, IntervalOfIs
    <3> QED BY <1>1, <3>1, <3>2, <3>3
  <2> HIDE DEF cur, N
  <2>2. Recured(cs, WithCur(cs, cur)) /\ Recured(cs, cs)
    BY <2>1, WithCurIs, RecuredSame DEF N
  <2> QED BY <2>2 DEF AllocateByRho, cur
<1>4. Recured(cs, AllocateROverN(cs, g))
  <2> DEFINE cur == [i \in DOMAIN cs |-> IntervalOf(1000000 * g.N, g.R)]
  <2>1. ASSUME NEW i \in 1 .. N PROVE cur[i] \in Interval
    <3>2. PICK x \in Int : x = 1000000 * g.N
      BY <1>2
    <3>3. IntervalOf(x, g.R) \in Interval
      BY <1>2, IntervalOfIs
    <3> QED BY <1>1, <3>2, <3>3
  <2> HIDE DEF cur, N
  <2>2. Recured(cs, WithCur(cs, cur)) /\ Recured(cs, cs)
    BY <2>1, WithCurIs, RecuredSame DEF N
  <2> QED BY <2>2 DEF AllocateROverN, cur
<1>5. Recured(cs, DistributeR(cs, g))
  <2> DEFINE S == Satisfied(cs, g)
             left == Left(cs, g, S)
             cur == [i \in DOMAIN cs |-> IF i \in S THEN cs[i].req ELSE IntervalOf(1000000 * left.N, left.R)]
             Given(z) == WithCur(cs, [i \in DOMAIN cs |->
                           IF i \in z THEN cs[i].req
                           ELSE IntervalOf(1000000 * Left(cs, g, z).N, Left(cs, g, z).R)])
  <2>1. left.N \in Int /\ left.R \in Int
    <3>1. S \in SUBSET (1 .. Len(cs))
      BY SatisfiedIs
    <3> HIDE DEF S
    <3> QED BY <3>1, LeftIs
  <2>2. ASSUME NEW i \in 1 .. N PROVE cur[i] \in Interval
    <3> HIDE DEF S, left
    <3>1. cs[i].req \in Interval
      BY RatesOf
    <3>2. PICK x \in Int : x = 1000000 * left.N
      BY <2>1
    <3>3. IntervalOf(x, left.R) \in Interval
      BY <2>1, IntervalOfIs
    <3> QED BY <1>1, <3>1, <3>2, <3>3
  <2>3. DistributeR(cs, g) = IF g.N = 0 THEN cs
                             ELSE With(S, LAMBDA z :
                               LET m == Left(cs, g, z)
                               IN  WithCur(cs, [i \in DOMAIN cs |->
                                     IF i \in z THEN cs[i].req ELSE IntervalOf(1000000 * m.N, m.R)]))
    BY DEF DistributeR
  <2>4. With(S, LAMBDA z :
               LET m == Left(cs, g, z)
               IN  WithCur(cs, [i \in DOMAIN cs |->
                     IF i \in z THEN cs[i].req ELSE IntervalOf(1000000 * m.N, m.R)])) = Given(S)
    BY DEF With
  <2>5. Given(S) = WithCur(cs, cur)
    OBVIOUS
  <2> HIDE DEF cur, N, Given, S
  <2>6. Recured(cs, WithCur(cs, cur)) /\ Recured(cs, cs)
    BY <2>2, WithCurIs, RecuredSame DEF N
  <2> QED BY <2>3, <2>4, <2>5, <2>6
<1>6. SumOfCur(cs) \in Int
  <2> DEFINE xs == [i \in DOMAIN cs |-> IF cs[i].cur = 0 THEN 0 ELSE Rate(cs[i].cur)]
  <2>1. \A i \in 1 .. N : xs[i] \in Int
    BY <1>1, RatesOf
  <2>2. xs = [i \in 1 .. N |-> xs[i]]
    BY <1>1
  <2>3. SumOfCur(cs) = Total(xs)
    BY DEF SumOfCur
  <2> HIDE DEF xs, N
  <2> QED BY <1>1, <2>1, <2>2, <2>3, TotalType
<1>7. ASSUME NEW gained \in Int PROVE Recured(cs, AppendByGoodput(cs, gained, good))
  <2> DEFINE short == [i \in DOMAIN cs |-> IF i \in good THEN 0 ELSE Desired(cs[i])]
             total == Total(short)
             cur == [i \in DOMAIN cs |->
                       IF cs[i].cur = 0 THEN 0
                       ELSE IntervalOf(1000000, Rate(cs[i].cur) + Ratio(gained * short[i], total))]
  <2>1. \A i \in 1 .. N : short[i] \in Int
    BY <1>1, RatesOf
  <2>2. total \in Int
    <3>1. short = [i \in 1 .. N |-> short[i]]
      BY <1>1
    <3> HIDE DEF short, N
    <3> QED BY <1>1, <2>1, <3>1, TotalType
  <2>3. ASSUME total # 0, NEW i \in 1 .. N PROVE cur[i] \in Interval
    <3> HIDE DEF short, total
    <3>1. Rate(cs[i].cur) \in Int
      BY RatesOf
    <3>2. gained * short[i] \in Int
      BY <2>1
    <3>3. PICK y \in Int : y = gained * short[i]
      BY <3>2
    <3>4. Ratio(y, total) \in Int
      BY <2>2, <2>3, RatioIs
    <3>5. PICK x \in Int : x = Rate(cs[i].cur) + Ratio(gained * short[i], total)
      BY <3>1, <3>3, <3>4
    <3>6. IntervalOf(1000000, x) \in Interval
      BY IntervalOfIs
    <3>7. 0 \in Interval
      BY DEF Interval
    <3> QED BY <1>1, <3>5, <3>6, <3>7
  <2>4. AppendByGoodput(cs, gained, good) = IF total = 0 THEN cs ELSE WithCur(cs, cur)
    BY DEF AppendByGoodput
  <2> HIDE DEF cur, N, total
  <2>5. Recured(cs, cs) /\ (total # 0 => Recured(cs, WithCur(cs, cur)))
    BY <2>3, WithCurIs, RecuredSame DEF N
  <2> QED BY <2>4, <2>5
<1> DEFINE gained == g.R - SumOfCur(cs)
           By(x, y) == CASE p = RCRT_FAIR_RATE -> DistributeR(x, y)
                         [] p = RCRT_FAIR_RATE_W_D -> AllocateROverN(x, y)
                         [] p = RCRT_FAIR_GOODPUT /\ y.R > SumOfCur(x) -> AppendByGoodput(x, y.R - SumOfCur(x), good)
                         [] OTHER -> AllocateByRho(x, y)
<1>8. AllocateFairly(p, cs, g, good) = By(cs, g)
  <2>1. AllocateFairly(p, cs, g, good) =
          With(cs, LAMBDA x : With(g, LAMBDA y :
            CASE p = RCRT_FAIR_RATE -> DistributeR(x, y)
              [] p = RCRT_FAIR_RATE_W_D -> AllocateROverN(x, y)
              [] p = RCRT_FAIR_GOODPUT /\ y.R > SumOfCur(x) -> AppendByGoodput(x, y.R - SumOfCur(x), good)
              [] OTHER -> AllocateByRho(x, y)))
    BY DEF AllocateFairly
  <2>2. With(cs, LAMBDA x : With(g, LAMBDA y :
            CASE p = RCRT_FAIR_RATE -> DistributeR(x, y)
              [] p = RCRT_FAIR_RATE_W_D -> AllocateROverN(x, y)
              [] p = RCRT_FAIR_GOODPUT /\ y.R > SumOfCur(x) -> AppendByGoodput(x, y.R - SumOfCur(x), good)
              [] OTHER -> AllocateByRho(x, y))) = By(cs, g)
    BY DEF With
  <2> QED BY <2>1, <2>2
<1>9. Recured(cs, AppendByGoodput(cs, gained, good))
  <2>1. gained \in Int
    BY <1>2, <1>6
  <2> HIDE DEF gained
  <2> QED BY <1>7, <2>1
<1>10. By(cs, g) \in {DistributeR(cs, g), AllocateROverN(cs, g), AppendByGoodput(cs, gained, good), AllocateByRho(cs, g)}
  OBVIOUS
<1> HIDE DEF By, gained
<1> QED BY <1>3, <1>4, <1>5, <1>8, <1>9, <1>10

\* What do_rate_control may come to.
Verdict(v, g) ==
  /\ v = <<v[1], v[2]>> /\ v[1] \in {-1, 0, 1} /\ v[2] \in TotalsType /\ v[2].N = g.N

LEMMA ControlIs ==
  ASSUME NEW g \in TotalsType, NEW cs, NEW c, NEW v \in Control(cs, c, g)
  PROVE  Verdict(v, g)
<1>1. CASE v = <<0, g>>
  BY <1>1 DEF Verdict
<1>2. CASE \E l \in Losses : v = <<-1, Decreased(g, l)>>
  <2>1. PICK l \in Losses : v = <<-1, Decreased(g, l)>>
    BY <1>2
  <2>2. l \in 0 .. 99
    BY RcrtAssumption
  <2>3. Decreased(g, l) \in TotalsType /\ Decreased(g, l).N = g.N
    BY <2>2, DecreasedIs
  <2> QED BY <2>1, <2>3 DEF Verdict
<1>3. CASE v = <<1, Increased(g)>>
  BY <1>3, IncreasedIs DEF Verdict
<1> QED BY <1>1, <1>2, <1>3 DEF Control

LEMMA VerdictIs ==
  ASSUME NEW g \in TotalsType, NEW v, Verdict(v, g)
  PROVE  Totals(v, g) \in TotalsType /\ Totals(v, g).N = g.N
<1>1. v[2] \in TotalsType /\ v[2].N = g.N
  BY DEF Verdict
<1> DEFINE h == v[2]
<1>2. [h EXCEPT !.lastp = 100] \in TotalsType /\ [h EXCEPT !.lastp = 100].N = g.N
  BY <1>1 DEF TotalsType
<1>3. [h EXCEPT !.slow = FALSE] \in TotalsType /\ [h EXCEPT !.slow = FALSE].N = g.N
  BY <1>1 DEF TotalsType
<1>4. Totals(v, g) \in {h, [h EXCEPT !.lastp = 100], [h EXCEPT !.slow = FALSE]}
  BY DEF Totals
<1> HIDE DEF h
<1> QED BY <1>1, <1>2, <1>3, <1>4 DEF h

LEMMA ControlledIs ==
  ASSUME rates \in TotalsType, NEW v, Verdict(v, rates), NEW cs \in Seq(Conn), NEW good
  PROVE  Recured(cs, Controlled(cs, v, good))
<1>1. Totals(v, rates) \in TotalsType
  BY VerdictIs
<1>2. Recured(cs, cs) /\ Recured(cs, AllocateFairly(budget.policy, cs, Totals(v, rates), good))
  BY <1>1, RecuredSame, SharedIs
<1> QED BY <1>2 DEF Controlled

-----------------------------------------------------------------------------
(* Lists of connections.                                                     *)

\* Connection d has the stream of c.
SameStream(c, d) ==
  /\ d \in Conn /\ d.key = c.key /\ d.last = c.last /\ d.next = c.next /\ d.plist = c.plist
  /\ d.missing = c.missing

LEMMA StreamKept ==
  ASSUME NEW c, NEW t, NEW f, NEW D, NEW b, StreamOK(c, t, f, D, b), NEW d, SameStream(c, d),
         NEW b2, b2.newest = b.newest
  PROVE  StreamOK(d, t, f, D, b2)
<1>1. \A e, L : Expects(e, L, t, D, b) => Expects(e, L, t, D, b2)
  BY DEF Expects, Short
<1> QED BY <1>1 DEF StreamOK, SameStream

LEMMA BudgetKept ==
  ASSUME NEW b, Regular(b), NEW x \in Nat
  PROVE  Regular([b EXCEPT !.changes = x]) /\ [b EXCEPT !.changes = x].newest = b.newest
<1> DEFINE a == [b EXCEPT !.changes = x]
<1>1. b \in Scenario
  BY DEF Regular
<1>2. /\ a \in Scenario /\ a.newest = b.newest /\ a.gap = b.gap /\ a.late = b.late /\ a.lag = b.lag
  BY <1>1 DEF Scenario
<1> HIDE DEF a
<1>3. Short(a) <=> Short(b)
  BY <1>2 DEF Short
<1>4. Regular(a)
  BY <1>2, <1>3 DEF Regular
<1> QED BY <1>2, <1>4 DEF a

\* The histories of every connection: t is the newest packet, f the FIN, D what was
\* handed up; td are the bindings of the tasks.
HistoryType(t, f, D, td) ==
  /\ t \in [Keys -> 0 .. MaxIndex + 1] /\ f \in [Keys -> 0 .. MaxIndex + 1]
  /\ D \in [Keys -> SUBSET Index] /\ td \in [Tids -> {"NONE", "TASK", "CLOSE"}]
  /\ \A k \in Keys : D[k] \subseteq 1 .. t[k] /\ (f[k] # 0 => t[k] = f[k])

\* An entry of the list.  Only a task that was closed has entries that wait to be deleted.
EntryOK(c, t, f, D, td, b) ==
  /\ StreamOK(c, t[c.key], f[c.key], D[c.key], b)
  /\ c.deletePending => td[c.key[1]] # "TASK"

ListOK(cs, t, f, D, td, b) ==
  /\ cs \in Seq(Conn)
  /\ \A i \in 1 .. Len(cs) : EntryOK(cs[i], t, f, D, td, b)
  /\ \A i, j \in 1 .. Len(cs) : i # j => cs[i].key # cs[j].key

\* All but entry p ask for what they miss.
ChasedBut(cs, p) ==
  \A i \in 1 .. Len(cs) : i # p /\ cs[i].missing # {} => cs[i].state # "ACTIVE" /\ cs[i].alarm # "off"

Listed(cs, k) == \E i \in 1 .. Len(cs) : cs[i].key = k

\* What NothingForgotten says of a connection that is finished.
Finished(t, f, D) ==
  \A n \in 1 .. t : \/ n \in D \cup {f} \/ n + TR_VALID_RANGE <= t
                    \/ \E m \in 1 .. n - 1 : m + TR_VALID_RANGE <= t /\ m \notin D

PastOK(cs, t, f, D, td) ==
  \A k \in Keys : ~Listed(cs, k) /\ f[k] # 0 /\ td[k[1]] = "TASK" => Finished(t[k], f[k], D[k])

\* A connection that misses nothing when it goes is finished as NothingForgotten says.
LEMMA FinishedIs ==
  ASSUME NEW b, Regular(b), NEW c, NEW t, NEW f, NEW D, StreamOK(c, t, f, D, b), c.missing = {},
         f # 0 => f = t, f = 0 \/ f \in Nat
  PROVE  Finished(t, f, D)
<1>1. PICK e : Expects(e, c.plist, t, D, b) /\ e \notin c.plist
  BY DEF StreamOK
<1>2. Accounted(c.plist, {}, t, f, D)
  BY DEF StreamOK
<1>3. /\ t \in Nat /\ e \in Nat \ {0} /\ \A d \in D : d < e
      /\ \A x \in c.plist : x \in Nat \ {0} /\ e <= x /\ x <= t
  BY <1>1, WaitNear DEF Expects
<1> SUFFICES ASSUME NEW n \in 1 .. t, n \notin D \cup {f}, ~(n + TR_VALID_RANGE <= t)
             PROVE  \E m \in 1 .. n - 1 : m + TR_VALID_RANGE <= t /\ m \notin D
  BY DEF Finished
<1>4. n \in c.plist
  BY <1>2 DEF Accounted
<1>5. e \in 1 .. n - 1 /\ e \in 1 .. t /\ e \notin c.plist
  BY <1>1, <1>3, <1>4
<1>6. e \notin D
  BY <1>3
<1>7. e # f
  BY <1>3, <1>5
<1>8. e + TR_VALID_RANGE <= t
  BY <1>2, <1>5, <1>6, <1>7 DEF Accounted
<1> QED BY <1>5, <1>6, <1>8

LEMMA WithoutIs ==
  ASSUME NEW cs \in Seq(Conn), NEW i \in 1 .. Len(cs), NEW ds, ds = Without(cs, i)
  PROVE  /\ ds \in Seq(Conn) /\ Len(ds) = Len(cs) - 1
         /\ \A j \in 1 .. Len(ds) : ds[j] = IF j < i THEN cs[j] ELSE cs[j + 1]
<1>1. Len(cs) \in Nat /\ i - 1 \in Nat /\ i - 1 <= Len(cs) /\ Len(cs) - i \in Nat
  OBVIOUS
<1> DEFINE a == SubSeq(cs, 1, i - 1)
           z == SubSeq(cs, i + 1, Len(cs))
<1>2. a \in Seq(Conn) /\ Len(a) = i - 1 /\ \A j \in 1 .. (i - 1) : a[j] = cs[j]
  <2>1. \A j \in 1 .. (i - 1) : j \in 1 .. Len(cs)
    BY <1>1
  <2> QED BY <1>1, <2>1
<1>3. z \in Seq(Conn) /\ Len(z) = Len(cs) - i /\ \A j \in 1 .. (Len(cs) - i) : z[j] = cs[j + i]
  <2>1. \A j \in (i + 1) .. Len(cs) : j \in 1 .. Len(cs)
    BY <1>1
  <2> QED BY <1>1, <2>1
<1>4. ds = a \o z
  BY DEF Without
<1> HIDE DEF a, z
<1>5. ds \in Seq(Conn) /\ Len(ds) = Len(cs) - 1
  <2>1. ds \in Seq(Conn) /\ Len(ds) = Len(a) + Len(z)
    BY <1>2, <1>3, <1>4
  <2> QED BY <1>1, <1>2, <1>3, <2>1
<1>6. ASSUME NEW j \in 1 .. Len(ds) PROVE ds[j] = IF j < i THEN cs[j] ELSE cs[j + 1]
  <2>1. ds[j] = IF j <= Len(a) THEN a[j] ELSE z[j - Len(a)]
    BY <1>2, <1>3, <1>4, <1>5
  <2>2. CASE j < i
    <3>1. j \in 1 .. (i - 1) /\ j <= Len(a)
      BY <1>1, <1>2, <2>2
    <3> QED BY <1>2, <2>1, <2>2, <3>1
  <2>3. CASE ~(j < i)
    <3>1. ~(j <= Len(a)) /\ j - Len(a) \in 1 .. (Len(cs) - i) /\ (j - Len(a)) + i = j + 1
      BY <1>1, <1>2, <1>5, <2>3
    <3> QED BY <1>3, <2>1, <2>3, <3>1
  <2> QED BY <2>2, <2>3
<1> QED BY <1>5, <1>6

\* No connection but k has other histories.
OnlyOf(k, t, f, D, t2, f2, D2) ==
  \A j \in Keys : j # k => t2[j] = t[j] /\ f2[j] = f[j] /\ D2[j] = D[j]

\* Entry i, of connection k, becomes d.
Replaces(cs, k, i, d, ds) ==
  i \in 1 .. Len(cs) /\ cs[i].key = k /\ d.key = k /\ ds = [cs EXCEPT ![i] = d]
Removes(cs, k, i, ds) ==
  i \in 1 .. Len(cs) /\ cs[i].key = k /\ ds = Without(cs, i)

\* An entry with another one's place in the list.
LEMMA ListUpdate ==
  ASSUME NEW cs, NEW t, NEW f, NEW D, NEW td, NEW b, ListOK(cs, t, f, D, td, b),
         NEW i, NEW k, NEW d, NEW ds, Replaces(cs, k, i, d, ds),
         NEW t2, NEW f2, NEW D2, NEW b2, b2.newest = b.newest,
         OnlyOf(k, t, f, D, t2, f2, D2), EntryOK(d, t2, f2, D2, td, b2)
  PROVE  /\ ListOK(ds, t2, f2, D2, td, b2) /\ Len(ds) = Len(cs) /\ ds[i] = d
         /\ \A j \in 1 .. Len(cs) : j # i => ds[j] = cs[j]
         /\ \A m : Listed(ds, m) <=> Listed(cs, m)
<1>1. cs \in Seq(Conn) /\ \A j \in 1 .. Len(cs) : EntryOK(cs[j], t, f, D, td, b)
  BY DEF ListOK
<1>2. d \in Conn /\ i \in 1 .. Len(cs) /\ cs[i].key = k /\ d.key = k /\ ds = [cs EXCEPT ![i] = d]
  BY DEF EntryOK, StreamOK, Replaces
<1>3. /\ ds \in Seq(Conn) /\ Len(ds) = Len(cs) /\ ds[i] = d
      /\ \A j \in 1 .. Len(cs) : j # i => ds[j] = cs[j]
  BY <1>1, <1>2
<1>4. \A j \in 1 .. Len(cs) : ds[j].key = cs[j].key
  BY <1>2, <1>3
<1>5. ASSUME NEW j \in 1 .. Len(cs), j # i PROVE EntryOK(cs[j], t2, f2, D2, td, b2)
  <2>1. EntryOK(cs[j], t, f, D, td, b) /\ cs[j] \in Conn /\ cs[j].key \in Keys /\ cs[j].key # d.key
    <3>1. EntryOK(cs[j], t, f, D, td, b) /\ cs[j] \in Conn
      BY <1>1
    <3>2. cs[j].key # d.key
      BY <1>2, <1>5 DEF ListOK
    <3> QED BY <3>1, <3>2 DEF Conn
  <2>2. SameStream(cs[j], cs[j])
    BY <2>1 DEF SameStream
  <2>3. StreamOK(cs[j], t[cs[j].key], f[cs[j].key], D[cs[j].key], b2)
    BY <2>1, <2>2, StreamKept DEF EntryOK
  <2> QED BY <1>2, <2>1, <2>3 DEF EntryOK, OnlyOf
<1>6. \A j \in 1 .. Len(ds) : EntryOK(ds[j], t2, f2, D2, td, b2)
  BY <1>3, <1>5
<1>7. ListOK(ds, t2, f2, D2, td, b2)
  BY <1>3, <1>4, <1>6 DEF ListOK
<1>8. \A m : Listed(ds, m) <=> Listed(cs, m)
  BY <1>3, <1>4 DEF Listed
<1> QED BY <1>3, <1>7, <1>8

LEMMA ListRecured ==
  ASSUME NEW cs, NEW t, NEW f, NEW D, NEW td, NEW b, ListOK(cs, t, f, D, td, b),
         NEW ds, Recured(cs, ds)
  PROVE  /\ ListOK(ds, t, f, D, td, b) /\ Len(ds) = Len(cs)
         /\ \A j \in 1 .. Len(cs) :
              /\ ds[j].key = cs[j].key /\ ds[j].state = cs[j].state /\ ds[j].alarm = cs[j].alarm
              /\ ds[j].missing = cs[j].missing /\ ds[j].deletePending = cs[j].deletePending
         /\ \A p : ChasedBut(cs, p) => ChasedBut(ds, p)
         /\ \A k : Listed(ds, k) <=> Listed(cs, k)
<1>1. cs \in Seq(Conn) /\ \A j \in 1 .. Len(cs) : EntryOK(cs[j], t, f, D, td, b)
  BY DEF ListOK
<1>2. /\ ds \in Seq(Conn) /\ Len(ds) = Len(cs)
      /\ \A j \in 1 .. Len(cs) : ds[j] = [cs[j] EXCEPT !.cur = ds[j].cur]
  BY DEF Recured
<1>3. ASSUME NEW j \in 1 .. Len(cs)
      PROVE  /\ ds[j].key = cs[j].key /\ ds[j].state = cs[j].state /\ ds[j].alarm = cs[j].alarm
             /\ ds[j].missing = cs[j].missing /\ ds[j].deletePending = cs[j].deletePending
             /\ SameStream(cs[j], ds[j])
  <2>1. cs[j] \in Conn /\ ds[j] \in Conn /\ ds[j] = [cs[j] EXCEPT !.cur = ds[j].cur]
    BY <1>1, <1>2
  <2> DEFINE x == ds[j].cur
  <2>2. ds[j] = [cs[j] EXCEPT !.cur = x]
    BY <2>1
  <2> HIDE DEF x
  <2> QED BY <2>1, <2>2 DEF SameStream, Conn
<1>4. ASSUME NEW j \in 1 .. Len(ds) PROVE EntryOK(ds[j], t, f, D, td, b)
  <2>1. j \in 1 .. Len(cs) /\ EntryOK(cs[j], t, f, D, td, b)
    BY <1>1, <1>2
  <2>2. StreamOK(ds[j], t[cs[j].key], f[cs[j].key], D[cs[j].key], b)
    BY <1>3, <2>1, StreamKept DEF EntryOK
  <2> QED BY <1>3, <2>1, <2>2 DEF EntryOK
<1>5. ListOK(ds, t, f, D, td, b)
  BY <1>2, <1>3, <1>4 DEF ListOK
<1>6. \A p : ChasedBut(cs, p) => ChasedBut(ds, p)
  BY <1>2, <1>3 DEF ChasedBut
<1>7. \A k : Listed(ds, k) <=> Listed(cs, k)
  BY <1>2, <1>3 DEF Listed
<1> QED BY <1>2, <1>3, <1>5, <1>6, <1>7

\* No connection but k leaves the list without its task being closed.
OnlyGone(k, cs, ds, td, td2) ==
  \A j \in Keys : j # k => /\ Listed(cs, j) => Listed(ds, j) \/ td2[j[1]] # "TASK"
                           /\ td2[j[1]] = "TASK" => td[j[1]] = "TASK"

LEMMA PastKept ==
  ASSUME NEW cs, NEW t, NEW f, NEW D, NEW td, PastOK(cs, t, f, D, td),
         NEW k, NEW ds, NEW t2, NEW f2, NEW D2, NEW td2,
         OnlyOf(k, t, f, D, t2, f2, D2), OnlyGone(k, cs, ds, td, td2),
         k \in Keys => \/ Listed(ds, k) \/ f2[k] = 0 \/ td2[k[1]] # "TASK"
                       \/ Finished(t2[k], f2[k], D2[k])
  PROVE  PastOK(ds, t2, f2, D2, td2)
BY DEF PastOK, OnlyOf, OnlyGone

\* Entry i leaves the list.
LEMMA ListWithout ==
  ASSUME NEW cs, NEW t, NEW f, NEW D, NEW td, NEW b, ListOK(cs, t, f, D, td, b),
         NEW i \in 1 .. Len(cs), NEW ds, ds = Without(cs, i)
  PROVE  /\ ListOK(ds, t, f, D, td, b) /\ Len(ds) = Len(cs) - 1
         /\ ChasedBut(cs, i) => ChasedBut(ds, 0)
         /\ \A k : Listed(ds, k) <=> Listed(cs, k) /\ k # cs[i].key
<1>1. /\ cs \in Seq(Conn) /\ \A j \in 1 .. Len(cs) : EntryOK(cs[j], t, f, D, td, b)
      /\ \A j, m \in 1 .. Len(cs) : j # m => cs[j].key # cs[m].key
  BY DEF ListOK
<1>2. /\ ds \in Seq(Conn) /\ Len(ds) = Len(cs) - 1
      /\ \A j \in 1 .. Len(ds) : ds[j] = IF j < i THEN cs[j] ELSE cs[j + 1]
  BY <1>1, WithoutIs
<1> DEFINE From(j) == IF j < i THEN j ELSE j + 1
<1>3. /\ Len(cs) \in Nat
      /\ \A j \in 1 .. Len(ds) : From(j) \in 1 .. Len(cs) /\ From(j) # i /\ ds[j] = cs[From(j)]
      /\ \A j, m \in 1 .. Len(ds) : j # m => From(j) # From(m)
      /\ \A m \in 1 .. Len(cs) : m # i => \E j \in 1 .. Len(ds) : From(j) = m
  <2>1. Len(cs) \in Nat
    BY <1>1
  <2>2. \A m \in 1 .. Len(cs) : m # i => (IF m < i THEN m ELSE m - 1) \in 1 .. Len(ds) /\ From(IF m < i THEN m ELSE m - 1) = m
    BY <1>2, <2>1
  <2>3. ASSUME NEW j \in 1 .. Len(ds)
        PROVE  From(j) \in 1 .. Len(cs) /\ From(j) # i /\ ds[j] = cs[From(j)]
    BY <1>2, <2>1
  <2>4. \A j, m \in 1 .. Len(ds) : j # m => From(j) # From(m)
    BY <1>2, <2>1
  <2> HIDE DEF From
  <2> QED BY <2>1, <2>2, <2>3, <2>4
<1> HIDE DEF From
<1>4. ListOK(ds, t, f, D, td, b)
  BY <1>1, <1>2, <1>3 DEF ListOK
<1>5. ChasedBut(cs, i) => ChasedBut(ds, 0)
  BY <1>3 DEF ChasedBut
<1>6. \A k : Listed(ds, k) <=> Listed(cs, k) /\ k # cs[i].key
  <2>1. ASSUME NEW k, Listed(ds, k) PROVE Listed(cs, k) /\ k # cs[i].key
    <3>1. PICK j \in 1 .. Len(ds) : ds[j].key = k
      BY <2>1 DEF Listed
    <3>2. From(j) \in 1 .. Len(cs) /\ From(j) # i /\ cs[From(j)].key = k
      BY <1>3, <3>1
    <3> QED BY <1>1, <3>2 DEF Listed
  <2>2. ASSUME NEW k, Listed(cs, k), k # cs[i].key PROVE Listed(ds, k)
    <3>1. PICK m \in 1 .. Len(cs) : cs[m].key = k
      BY <2>2 DEF Listed
    <3>2. PICK j \in 1 .. Len(ds) : From(j) = m
      BY <1>3, <2>2, <3>1
    <3> QED BY <1>3, <3>1, <3>2 DEF Listed
  <2> QED BY <2>1, <2>2
<1> QED BY <1>2, <1>4, <1>5, <1>6

-----------------------------------------------------------------------------
(* The invariant, and every action.                                          *)

RcrtInv ==
  /\ Regular(budget)
  /\ HistoryType(top, finAt, delivered, tids)
  /\ ListOK(rcrtcs, top, finAt, delivered, tids, budget)
  /\ ChasedBut(rcrtcs, 0)
  /\ PastOK(rcrtcs, top, finAt, delivered, tids)
  /\ rates \in TotalsType /\ rates.N = Len(rcrtcs)
  /\ crashed \in BOOLEAN /\ calls \in [Keys -> Nat]

LEMMA OpenIs ==
  ASSUME RcrtInv, NEW k
  PROVE  /\ IsOpen(k) <=> Listed(rcrtcs, k)
         /\ \A i \in Positions(k) : i \in 1 .. Len(rcrtcs) /\ rcrtcs[i].key = k
         /\ IsOpen(k) => At(k) \in Positions(k) /\ ConnOf(k) = rcrtcs[At(k)]
         /\ \A i, j \in Positions(k) : i = j
<1>1. rcrtcs \in Seq(Conn) /\ DOMAIN rcrtcs = 1 .. Len(rcrtcs)
  BY DEF RcrtInv, ListOK
<1>2. \A i : i \in Positions(k) <=> i \in 1 .. Len(rcrtcs) /\ rcrtcs[i].key = k
  BY <1>1 DEF Positions
<1>3. IsOpen(k) <=> Listed(rcrtcs, k)
  BY <1>2 DEF IsOpen, Listed
<1>4. IsOpen(k) => At(k) \in Positions(k)
  BY DEF IsOpen, At
<1>5. \A i, j \in Positions(k) : i = j
  BY <1>2 DEF RcrtInv, ListOK
<1> QED BY <1>2, <1>3, <1>4, <1>5 DEF ConnOf

LEMMA DeletedIs ==
  ASSUME NEW cs \in Seq(Conn), NEW g \in TotalsType, NEW i \in 1 .. Len(cs), DeleteFrom(cs, g, i)
  PROVE  /\ tids' = tids /\ rates' \in TotalsType /\ rates'.N = g.N - 1 /\ rcrtcs' = Without(cs, i)
<1>1. TidAlive(cs, cs[i].key[1])
  <2>1. i \in DOMAIN cs
    OBVIOUS
  <2> QED BY <2>1 DEF TidAlive
<1>2. tids' = tids
  BY <1>1 DEF DeleteFrom
<1>3. cs[i] \in Conn
  OBVIOUS
<1>4. FinishRates(budget.policy, g, cs[i]) \in TotalsType /\ FinishRates(budget.policy, g, cs[i]).N = g.N - 1
  BY <1>3, FinishIs
<1> QED BY <1>2, <1>4 DEF DeleteFrom

\* A connection that has not had a packet.
LEMMA NewConnIs ==
  ASSUME NEW b, Regular(b), NEW k \in Keys, NEW req \in Interval \ {0}, NEW junk \in Interval,
         NEW t, NEW f, NEW D, NEW td, HistoryType(t, f, D, td), t[k] = 0,
         NEW c, c = NewConn(k, req, junk)
  PROVE  EntryOK(c, t, f, D, td, b) /\ c \in Conn /\ c.key = k /\ c.missing = {}
<1>1. c \in Conn /\ c.key = k /\ c.missing = {} /\ c.plist = {} /\ c.next = 1 /\ c.last = 0 /\ c.deletePending = FALSE
  <2>1. 1 \in Seqno /\ 0 \in Seqno0 /\ 0 \in 0 .. RCRT_MAX_ALIVE_TIMEOUT
    BY SeqnoAssumption, RcrtAssumption DEF Seqno, Seqno0, TR_FIRST_SEQNO
  <2> QED BY <2>1 DEF NewConn, Conn, States
<1>2. b.newest \in Nat /\ 1 \in 1 .. TR_MAX_SEQNO
  BY ScenarioIs, SeqnoAssumption
<1>3. SeqOf(1) = 1
  BY <1>2, SeqOfSmall
<1>4. D[k] = {}
  <2>1. D[k] \subseteq 1 .. 0
    BY DEF HistoryType
  <2> QED BY <2>1
<1>5. Expects(1, {}, 0, {}, b)
  <2>1. 0 \in 0 .. (b.newest + 1) /\ 1 \in 1 .. (b.newest + 1) /\ 1 .. (1 - 1) = {}
    BY <1>2
  <2> QED BY <2>1 DEF Expects
<1>6. Accounted({}, {}, 0, f[k], {})
  <2>1. 1 .. 0 = {}
    OBVIOUS
  <2> QED BY <2>1 DEF Accounted
<1>7. StreamOK(c, t[c.key], f[c.key], D[c.key], b)
  BY <1>1, <1>3, <1>4, <1>5, <1>6 DEF StreamOK
<1> QED BY <1>1, <1>7 DEF EntryOK

LEMMA PushedIs ==
  ASSUME NEW cs \in Seq(Conn), NEW c \in Conn, NEW ds, ds = <<c>> \o cs
  PROVE  /\ ds \in Seq(Conn) /\ Len(ds) = Len(cs) + 1 /\ ds[1] = c
         /\ \A j \in 1 .. Len(ds) : j # 1 => j - 1 \in 1 .. Len(cs) /\ ds[j] = cs[j - 1]
<1>1. /\ <<c>> \in Seq(Conn) /\ Len(<<c>>) = 1 /\ Len(cs) \in Nat
  OBVIOUS
<1>2. ds \in Seq(Conn) /\ Len(ds) = 1 + Len(cs)
  BY <1>1
<1>3. ASSUME NEW j \in 1 .. Len(ds) PROVE ds[j] = IF j <= 1 THEN c ELSE cs[j - 1]
  BY <1>1, <1>2
<1> QED BY <1>1, <1>2, <1>3

LEMMA SYNKeeps == ASSUME RcrtInv, NEW k \in Keys, ReceiveSYN(k) PROVE RcrtInv'
<1>1. PICK a \in budget.asks, good \in SUBSET (1 .. Len(rcrtcs) + 1), junk \in Junk :
        /\ a.key = k
        /\ Share(<<NewConn(k, IF a.ms = 0 THEN 20 ELSE a.ms, junk)>> \o rcrtcs,
                 Joined(rates, IF a.ms = 0 THEN 20 ELSE a.ms), good)
  BY DEF ReceiveSYN
<1> DEFINE req == IF a.ms = 0 THEN 20 ELSE a.ms
           c == NewConn(k, req, junk)
           cs == <<c>> \o rcrtcs
           g == Joined(rates, req)
<1>2. ~Listed(rcrtcs, k) /\ top[k] = 0
  BY OpenIs DEF ReceiveSYN
<1>3. /\ Regular(budget) /\ HistoryType(top, finAt, delivered, tids)
      /\ ListOK(rcrtcs, top, finAt, delivered, tids, budget) /\ ChasedBut(rcrtcs, 0)
      /\ PastOK(rcrtcs, top, finAt, delivered, tids) /\ rates \in TotalsType /\ rates.N = Len(rcrtcs)
  BY DEF RcrtInv
<1>4. req \in Interval \ {0} /\ junk \in Interval
  <2>1. a.ms \in Interval
    BY <1>3, ScenarioIs
  <2>2. junk \in Interval
    BY RcrtAssumption
  <2> QED BY <2>1, <2>2 DEF Interval
<1>5. UNCHANGED <<crashed, tids, top, finAt, delivered, calls, budget>>
  BY DEF ReceiveSYN, netVars, appVars
<1>6. rates' = g /\ rcrtcs' = AllocateFairly(budget.policy, cs, g, good)
  BY <1>1 DEF Share
<1> HIDE DEF req
<1>7. EntryOK(c, top, finAt, delivered, tids, budget) /\ c \in Conn /\ c.key = k /\ c.missing = {}
  BY <1>2, <1>3, <1>4, NewConnIs
<1>8. g \in TotalsType /\ g.N = rates.N + 1
  <2>1. req \in Interval
    BY <1>4
  <2> QED BY <1>3, <2>1, JoinedIs
<1> HIDE DEF g, c
<1>9. rcrtcs \in Seq(Conn)
  BY <1>3 DEF ListOK
<1>10. /\ cs \in Seq(Conn) /\ Len(cs) = Len(rcrtcs) + 1 /\ cs[1] = c
       /\ \A j \in 1 .. Len(cs) : j # 1 => j - 1 \in 1 .. Len(rcrtcs) /\ cs[j] = rcrtcs[j - 1]
  BY <1>7, <1>9, PushedIs
<1> HIDE DEF cs
<1>11. ListOK(cs, top, finAt, delivered, tids, budget)
  <2>1. ASSUME NEW j \in 1 .. Len(cs) PROVE EntryOK(cs[j], top, finAt, delivered, tids, budget)
    BY <1>3, <1>7, <1>10 DEF ListOK
  <2>2. ASSUME NEW i \in 1 .. Len(cs), NEW j \in 1 .. Len(cs), i # j PROVE cs[i].key # cs[j].key
    <3>1. \A m \in 1 .. Len(rcrtcs) : rcrtcs[m].key # k
      BY <1>2 DEF Listed
    <3>2. CASE i = 1 \/ j = 1
      BY <1>7, <1>10, <2>2, <3>1, <3>2
    <3>3. CASE i # 1 /\ j # 1
      <4>1. i - 1 # j - 1
        BY <2>2
      <4> QED BY <1>3, <1>10, <3>3, <4>1 DEF ListOK
    <3> QED BY <3>2, <3>3
  <2> QED BY <1>10, <2>1, <2>2 DEF ListOK
<1>12. ChasedBut(cs, 0)
  BY <1>3, <1>7, <1>10 DEF ChasedBut
<1>13. Recured(cs, rcrtcs')
  BY <1>6, <1>8, <1>10, SharedIs
<1>14. /\ ListOK(rcrtcs', top, finAt, delivered, tids, budget) /\ Len(rcrtcs') = Len(cs)
       /\ ChasedBut(rcrtcs', 0) /\ \A j : Listed(rcrtcs', j) <=> Listed(cs, j)
  BY <1>11, <1>12, <1>13, ListRecured
<1>15. \A j : Listed(rcrtcs, j) => Listed(cs, j)
  <2>1. ASSUME NEW j \in 1 .. Len(rcrtcs) PROVE j + 1 \in 1 .. Len(cs) /\ cs[j + 1] = rcrtcs[j]
    <3>1. Len(rcrtcs) \in Nat /\ j + 1 \in 1 .. Len(cs) /\ j + 1 # 1 /\ j + 1 - 1 = j
      BY <1>9, <1>10
    <3> QED BY <1>10, <3>1
  <2> QED BY <2>1 DEF Listed
<1>16. Listed(cs, k)
  <2>1. 1 \in 1 .. Len(cs)
    BY <1>9, <1>10
  <2> QED BY <1>7, <1>10, <2>1 DEF Listed
<1>17. PastOK(rcrtcs', top, finAt, delivered, tids)
  <2>1. OnlyOf(k, top, finAt, delivered, top, finAt, delivered)
    BY DEF OnlyOf
  <2>2. OnlyGone(k, rcrtcs, rcrtcs', tids, tids)
    BY <1>14, <1>15 DEF OnlyGone
  <2> QED BY <1>3, <1>14, <1>16, <2>1, <2>2, PastKept
<1>18. crashed \in BOOLEAN /\ calls \in [Keys -> Nat]
  BY DEF RcrtInv
<1>19. rates' \in TotalsType /\ rates'.N = Len(rcrtcs')
  BY <1>3, <1>6, <1>8, <1>10, <1>14
<1> QED BY <1>3, <1>5, <1>14, <1>17, <1>18, <1>19 DEF RcrtInv

\* An entry changes, and with it its histories.
LEMMA UpdateKeeps ==
  ASSUME NEW cs, NEW t, NEW f, NEW D, NEW td, NEW b, ListOK(cs, t, f, D, td, b),
         NEW i, NEW k, NEW d, NEW ds, Replaces(cs, k, i, d, ds),
         ChasedBut(cs, 0) \/ ChasedBut(cs, i), PastOK(cs, t, f, D, td),
         NEW t2, NEW f2, NEW D2, NEW b2, b2.newest = b.newest,
         OnlyOf(k, t, f, D, t2, f2, D2), EntryOK(d, t2, f2, D2, td, b2),
         d.missing # {} => d.state # "ACTIVE" /\ d.alarm # "off"
  PROVE  /\ ListOK(ds, t2, f2, D2, td, b2) /\ Len(ds) = Len(cs)
         /\ ChasedBut(ds, 0) /\ PastOK(ds, t2, f2, D2, td)
<1>1. /\ ListOK(ds, t2, f2, D2, td, b2) /\ Len(ds) = Len(cs) /\ ds[i] = d
      /\ \A j \in 1 .. Len(cs) : j # i => ds[j] = cs[j]
      /\ \A m : Listed(ds, m) <=> Listed(cs, m)
  BY ListUpdate
<1>2. ChasedBut(ds, 0)
  BY <1>1 DEF ChasedBut
<1>3. Listed(ds, k)
  BY <1>1 DEF Listed, Replaces
<1>4. PastOK(ds, t2, f2, D2, td)
  <2>1. OnlyGone(k, cs, ds, td, td)
    BY <1>1 DEF OnlyGone
  <2> QED BY <1>3, <2>1, PastKept
<1> QED BY <1>1, <1>2, <1>4

\* An entry goes, and its histories change.
LEMMA RemoveKeeps ==
  ASSUME NEW cs, NEW t, NEW f, NEW D, NEW td, NEW b, ListOK(cs, t, f, D, td, b),
         NEW i, NEW k, NEW ds, Removes(cs, k, i, ds),
         ChasedBut(cs, 0) \/ ChasedBut(cs, i), PastOK(cs, t, f, D, td),
         NEW t2, NEW f2, NEW D2, NEW b2, b2.newest = b.newest,
         OnlyOf(k, t, f, D, t2, f2, D2),
         f2[k] = 0 \/ td[k[1]] # "TASK" \/ Finished(t2[k], f2[k], D2[k])
  PROVE  /\ ListOK(ds, t2, f2, D2, td, b2) /\ Len(ds) = Len(cs) - 1
         /\ ChasedBut(ds, 0) /\ PastOK(ds, t2, f2, D2, td)
<1>1. ChasedBut(cs, i)
  BY DEF ChasedBut
<1>2. /\ ListOK(ds, t, f, D, td, b) /\ Len(ds) = Len(cs) - 1 /\ ChasedBut(ds, 0)
      /\ \A j : Listed(ds, j) <=> Listed(cs, j) /\ j # k
  BY <1>1, ListWithout DEF Removes
<1>3. ASSUME NEW j \in 1 .. Len(ds) PROVE EntryOK(ds[j], t2, f2, D2, td, b2)
  <2>1. EntryOK(ds[j], t, f, D, td, b) /\ ds[j] \in Conn
    BY <1>2 DEF ListOK
  <2>2. ds[j].key \in Keys /\ SameStream(ds[j], ds[j])
    BY <2>1 DEF Conn, SameStream
  <2>3. ds[j].key # k
    BY <1>2 DEF Listed
  <2>4. StreamOK(ds[j], t[ds[j].key], f[ds[j].key], D[ds[j].key], b2)
    BY <2>1, <2>2, StreamKept DEF EntryOK
  <2> QED BY <2>1, <2>2, <2>3, <2>4 DEF EntryOK, OnlyOf
<1>4. ListOK(ds, t2, f2, D2, td, b2)
  BY <1>2, <1>3 DEF ListOK
<1>5. PastOK(ds, t2, f2, D2, td)
  <2>1. OnlyGone(k, cs, ds, td, td)
    BY <1>2 DEF OnlyGone
  <2> QED BY <2>1, PastKept
<1> QED BY <1>2, <1>4, <1>5

LEMMA FINKeeps ==
  ASSUME RcrtInv, NEW k \in Keys, NEW n \in 1 .. (budget.newest + 1), ReceiveFIN(k, n)
  PROVE  RcrtInv'
<1> DEFINE i == At(k)
           old == rcrtcs[i]
           c == Noticed(old, SeqOf(n))
           wait == [c EXCEPT !.state = "FIN_RETX_WAIT", !.alarm = "armed",
                             !.timeoutCount = IF c.state = "FIN_RETX_WAIT" THEN c.timeoutCount ELSE 0]
           t == [top EXCEPT ![k] = n]
           f == [finAt EXCEPT ![k] = n]
<1>1. /\ Regular(budget) /\ HistoryType(top, finAt, delivered, tids)
      /\ ListOK(rcrtcs, top, finAt, delivered, tids, budget) /\ ChasedBut(rcrtcs, 0)
      /\ PastOK(rcrtcs, top, finAt, delivered, tids) /\ rates \in TotalsType /\ rates.N = Len(rcrtcs)
      /\ crashed \in BOOLEAN /\ calls \in [Keys -> Nat]
  BY DEF RcrtInv
<1>2. i \in 1 .. Len(rcrtcs) /\ old.key = k /\ ConnOf(k) = old
  BY OpenIs DEF ReceiveFIN
<1>3. /\ IF c.missing = {} THEN DeleteConn(i) ELSE Update(i, AfterFeedback(wait))
      /\ top' = t /\ finAt' = f
      /\ UNCHANGED <<crashed, delivered, calls, budget>>
  <2>1. c = Noticed(ConnOf(k), SeqOf(n))
    BY <1>2
  <2> QED BY <2>1 DEF ReceiveFIN, appVars
<1>4. rcrtcs \in Seq(Conn) /\ EntryOK(old, top, finAt, delivered, tids, budget)
  BY <1>1, <1>2 DEF ListOK
<1>5. StreamOK(old, top[k], finAt[k], delivered[k], budget) /\ old \in Conn
  BY <1>2, <1>4 DEF EntryOK, StreamOK
<1>6. Ends(n, top[k], finAt[k], budget)
  BY <1>1 DEF Ends, ReceiveFIN, HistoryType
<1>7. StreamOK(c, n, n, delivered[k], budget) /\ c = [old EXCEPT !.missing = c.missing, !.last = c.last] /\ c \in Conn
  <2> HIDE DEF c, old, i
  <2>1. c = Noticed(old, SeqOf(n))
    BY DEF c
  <2>2. StreamOK(c, n, n, delivered[k], budget) /\ Differs(old, c)
    <3>1. Regular(budget) /\ StreamOK(old, top[k], finAt[k], delivered[k], budget)
      BY <1>1, <1>5
    <3> QED BY <1>6, <2>1, <3>1, EndedIs
  <2> QED BY <2>2 DEF StreamOK, Differs
<1> HIDE DEF c
<1>8. c.key = k /\ c.deletePending = old.deletePending
  <2> DEFINE m == c.missing
             l == c.last
  <2>1. c = [old EXCEPT !.missing = m, !.last = l]
    BY <1>7
  <2> HIDE DEF m, l
  <2> QED BY <1>2, <1>5, <2>1 DEF Conn
<1>9. /\ t[k] = n /\ f[k] = n /\ OnlyOf(k, top, finAt, delivered, t, f, delivered)
      /\ HistoryType(t, f, delivered, tids)
  <2>1. top \in [Keys -> 0 .. MaxIndex + 1] /\ finAt \in [Keys -> 0 .. MaxIndex + 1] /\ delivered[k] \subseteq 1 .. top[k]
    BY <1>1 DEF HistoryType
  <2>2. n \in 0 .. (MaxIndex + 1) /\ top[k] <= n /\ top[k] \in Nat /\ n \in Nat
    <3>1. budget.newest \in 0 .. MaxIndex /\ MaxIndex \in Nat
      BY <1>1, ScenarioIs, RcrtAssumption
    <3> QED BY <1>6, <2>1, <3>1 DEF Ends
  <2>3. t[k] = n /\ f[k] = n /\ \A j \in Keys : j # k => t[j] = top[j] /\ f[j] = finAt[j]
    BY <2>1
  <2>4. t \in [Keys -> 0 .. MaxIndex + 1] /\ f \in [Keys -> 0 .. MaxIndex + 1]
    BY <2>1, <2>2
  <2> HIDE DEF t, f
  <2>5. delivered[k] \subseteq 1 .. n
    BY <2>1, <2>2
  <2>6. OnlyOf(k, top, finAt, delivered, t, f, delivered)
    BY <2>3 DEF OnlyOf
  <2> QED BY <1>1, <2>3, <2>4, <2>5, <2>6 DEF HistoryType
<1> HIDE DEF t, f, i
<1>10. CASE c.missing = {}
  <2>1. /\ tids' = tids /\ rates' \in TotalsType /\ rates'.N = rates.N - 1 /\ rcrtcs' = Without(rcrtcs, i)
    BY <1>1, <1>2, <1>3, <1>4, <1>10, DeletedIs DEF DeleteConn
  <2>2. Finished(n, n, delivered[k])
    <3>1. n \in Nat
      BY <1>1, ScenarioIs
    <3> QED BY <1>1, <1>7, <1>10, <3>1, FinishedIs
  <2>3. /\ ListOK(rcrtcs', t, f, delivered, tids, budget) /\ Len(rcrtcs') = Len(rcrtcs) - 1
        /\ ChasedBut(rcrtcs', 0) /\ PastOK(rcrtcs', t, f, delivered, tids)
    <3>1. Removes(rcrtcs, k, i, rcrtcs')
      BY <1>2, <2>1 DEF Removes
    <3>2. f[k] = 0 \/ tids[k[1]] # "TASK" \/ Finished(t[k], f[k], delivered[k])
      BY <1>9, <2>2
    <3> QED BY <1>1, <1>9, <3>1, <3>2, RemoveKeeps
  <2>4. rates'.N = Len(rcrtcs')
    BY <1>1, <2>1, <2>3
  <2> QED BY <1>1, <1>3, <1>9, <2>1, <2>3, <2>4 DEF RcrtInv
<1>11. CASE c.missing # {}
  <2> DEFINE d == AfterFeedback(wait)
  <2>1. rcrtcs' = [rcrtcs EXCEPT ![i] = d] /\ rates' = rates /\ tids' = tids
    BY <1>3, <1>11 DEF Update
  <2>2. /\ SameStream(c, wait) /\ wait.state = "FIN_RETX_WAIT" /\ wait.alarm = "armed"
        /\ wait.deletePending = c.deletePending /\ wait.key = k
    <3>1. (IF c.state = "FIN_RETX_WAIT" THEN c.timeoutCount ELSE 0) \in 0 .. RCRT_MAX_ALIVE_TIMEOUT
      BY <1>7, RcrtAssumption DEF Conn
    <3> DEFINE o == IF c.state = "FIN_RETX_WAIT" THEN c.timeoutCount ELSE 0
    <3>2. o \in 0 .. RCRT_MAX_ALIVE_TIMEOUT /\ wait = [c EXCEPT !.state = "FIN_RETX_WAIT", !.alarm = "armed", !.timeoutCount = o]
      BY <3>1
    <3> HIDE DEF wait, o
    <3> QED BY <1>7, <1>8, <3>2 DEF SameStream, Conn, States
  <2> HIDE DEF wait
  <2>3. StreamOK(wait, n, n, delivered[k], budget) /\ wait \in Conn
    <3>1. StreamOK(wait, n, n, delivered[k], budget)
      BY <1>7, <2>2, StreamKept
    <3> QED BY <3>1 DEF StreamOK
  <2>4. StreamOK(d, n, n, delivered[k], budget) /\ d = [wait EXCEPT !.missing = d.missing]
    BY <1>1, <2>3, FeedbackKeeps
  <2>5. d.key = k /\ d.state = "FIN_RETX_WAIT" /\ d.alarm = "armed" /\ d.deletePending = old.deletePending
    <3> DEFINE m == d.missing
    <3>1. d = [wait EXCEPT !.missing = m]
      BY <2>4
    <3> HIDE DEF m, d
    <3> QED BY <1>8, <2>2, <2>3, <3>1 DEF Conn
  <2> HIDE DEF d
  <2>6. EntryOK(d, t, f, delivered, tids, budget)
    BY <1>2, <1>4, <1>9, <2>4, <2>5 DEF EntryOK
  <2>7. /\ ListOK(rcrtcs', t, f, delivered, tids, budget) /\ Len(rcrtcs') = Len(rcrtcs)
        /\ ChasedBut(rcrtcs', 0) /\ PastOK(rcrtcs', t, f, delivered, tids)
    <3>1. Replaces(rcrtcs, k, i, d, rcrtcs')
      BY <1>2, <2>1, <2>5 DEF Replaces
    <3>2. d.missing # {} => d.state # "ACTIVE" /\ d.alarm # "off"
      BY <2>5
    <3> QED BY <1>1, <1>9, <2>6, <3>1, <3>2, UpdateKeeps
  <2> QED BY <1>1, <1>3, <1>9, <2>1, <2>7 DEF RcrtInv
<1> QED BY <1>10, <1>11

LEMMA SameHistory == ASSUME NEW k, NEW t, NEW f, NEW D PROVE OnlyOf(k, t, f, D, t, f, D)
BY DEF OnlyOf

\* An entry changes and nothing else does.
LEMMA TouchKeeps ==
  ASSUME RcrtInv, NEW i, NEW k, NEW d, Replaces(rcrtcs, k, i, d, rcrtcs'),
         StreamOK(d, top[k], finAt[k], delivered[k], budget), d.deletePending = rcrtcs[i].deletePending,
         d.missing # {} => d.state # "ACTIVE" /\ d.alarm # "off",
         UNCHANGED <<rates, crashed, tids, top, finAt, delivered, calls, budget>>
  PROVE  RcrtInv'
<1>1. /\ Regular(budget) /\ HistoryType(top, finAt, delivered, tids)
      /\ ListOK(rcrtcs, top, finAt, delivered, tids, budget) /\ ChasedBut(rcrtcs, 0)
      /\ PastOK(rcrtcs, top, finAt, delivered, tids) /\ rates \in TotalsType /\ rates.N = Len(rcrtcs)
      /\ crashed \in BOOLEAN /\ calls \in [Keys -> Nat]
  BY DEF RcrtInv
<1>2. i \in 1 .. Len(rcrtcs) /\ rcrtcs[i].key = k /\ d.key = k
  BY DEF Replaces
<1>3. EntryOK(d, top, finAt, delivered, tids, budget)
  BY <1>1, <1>2 DEF ListOK, EntryOK
<1>4. OnlyOf(k, top, finAt, delivered, top, finAt, delivered)
  BY SameHistory
<1>5. /\ ListOK(rcrtcs', top, finAt, delivered, tids, budget) /\ Len(rcrtcs') = Len(rcrtcs)
      /\ ChasedBut(rcrtcs', 0) /\ PastOK(rcrtcs', top, finAt, delivered, tids)
  BY <1>1, <1>3, <1>4, UpdateKeeps
<1> QED BY <1>1, <1>5 DEF RcrtInv

LEMMA ExpireKeeps == ASSUME RcrtInv, NEW k \in Keys, Expire(k) PROVE RcrtInv'
<1> DEFINE i == At(k)
           c == rcrtcs[i]
           d == [c EXCEPT !.alarm = "expired"]
<1>1. i \in 1 .. Len(rcrtcs) /\ c.key = k
  BY OpenIs DEF Expire
<1>2. /\ rcrtcs' = [rcrtcs EXCEPT ![i].alarm = "expired"]
      /\ UNCHANGED <<rates, crashed, tids, top, finAt, delivered, calls, budget>>
  BY DEF Expire, netVars, appVars
<1> HIDE DEF i
<1>3. rcrtcs \in Seq(Conn) /\ ListOK(rcrtcs, top, finAt, delivered, tids, budget) /\ ChasedBut(rcrtcs, 0)
  BY DEF RcrtInv, ListOK
<1>4. c \in Conn /\ StreamOK(c, top[k], finAt[k], delivered[k], budget)
  BY <1>1, <1>3 DEF ListOK, EntryOK
<1>5. rcrtcs' = [rcrtcs EXCEPT ![i] = d]
  BY <1>1, <1>2, <1>3
<1>6. SameStream(c, d) /\ d.key = k /\ d.state = c.state /\ d.alarm = "expired" /\ d.deletePending = c.deletePending
  BY <1>1, <1>4 DEF SameStream, Conn
<1>7. d.missing # {} => d.state # "ACTIVE" /\ d.alarm # "off"
  BY <1>1, <1>3, <1>6 DEF ChasedBut, SameStream
<1> HIDE DEF d
<1>8. StreamOK(d, top[k], finAt[k], delivered[k], budget)
  BY <1>4, <1>6, StreamKept
<1>9. Replaces(rcrtcs, k, i, d, rcrtcs')
  BY <1>1, <1>5, <1>6 DEF Replaces
<1> QED BY <1>2, <1>6, <1>7, <1>8, <1>9, TouchKeeps

\* The connection after a timeout was counted has the same stream.
LEMMA CountedIs ==
  ASSUME NEW c \in Conn, NEW d, d = Counted(c)
  PROVE  /\ SameStream(c, d) /\ d.state = c.state /\ d.alarm = "off" /\ d.deletePending = c.deletePending
         /\ d.recv = c.recv
<1> DEFINE o == IF c.timeoutCount < RCRT_MAX_ALIVE_TIMEOUT THEN c.timeoutCount + 1 ELSE c.timeoutCount
<1>1. o \in 0 .. RCRT_MAX_ALIVE_TIMEOUT
  BY RcrtAssumption DEF Conn
<1>2. d = [c EXCEPT !.alarm = "off", !.timeoutCount = o]
  BY DEF Counted
<1> HIDE DEF o
<1> QED BY <1>1, <1>2 DEF SameStream, Conn

\* A connection that asks for what it misses.
Asked(c, a) == [AfterFeedback(c) EXCEPT !.alarm = a]

LEMMA AskedIs ==
  ASSUME NEW b, Regular(b), NEW c, NEW t, NEW f, NEW D, StreamOK(c, t, f, D, b), NEW a \in {"armed", "expired"},
         NEW d, d = Asked(c, a)
  PROVE  /\ StreamOK(d, t, f, D, b) /\ d.key = c.key /\ d.state = c.state /\ d.alarm = a
         /\ d.deletePending = c.deletePending /\ d.missing \subseteq c.missing
<1> DEFINE e == AfterFeedback(c)
           m == e.missing
<1>1. StreamOK(e, t, f, D, b) /\ e = [c EXCEPT !.missing = m] /\ m \subseteq c.missing
  BY FeedbackKeeps
<1>2. c \in Conn /\ e \in Conn
  BY <1>1 DEF StreamOK
<1>3. d = [e EXCEPT !.alarm = a]
  BY DEF Asked
<1> HIDE DEF m, e
<1>4. /\ e.key = c.key /\ e.state = c.state /\ e.deletePending = c.deletePending /\ e.missing = m
  BY <1>1, <1>2 DEF Conn
<1>5. /\ SameStream(e, d) /\ d.state = e.state /\ d.alarm = a /\ d.deletePending = e.deletePending
  BY <1>2, <1>3 DEF SameStream, Conn
<1>6. StreamOK(d, t, f, D, b)
  BY <1>1, <1>5, StreamKept
<1> QED BY <1>1, <1>4, <1>5, <1>6 DEF SameStream

LEMMA FiresKeeps == ASSUME RcrtInv, NEW k \in Keys, Fires(k) PROVE RcrtInv'
<1>1. PICK i \in FirstExpired : rcrtcs[i].key = k /\ TimerFired(i)
  BY DEF Fires
<1>2. UNCHANGED <<crashed, top, finAt, delivered, calls>>
  BY DEF Fires, netVars, appVars
<1>3. /\ Regular(budget) /\ HistoryType(top, finAt, delivered, tids)
      /\ ListOK(rcrtcs, top, finAt, delivered, tids, budget) /\ ChasedBut(rcrtcs, 0)
      /\ PastOK(rcrtcs, top, finAt, delivered, tids) /\ rates \in TotalsType /\ rates.N = Len(rcrtcs)
      /\ crashed \in BOOLEAN /\ calls \in [Keys -> Nat]
  BY DEF RcrtInv
<1> DEFINE old == rcrtcs[i]
           c == Counted(old)
<1>4. rcrtcs \in Seq(Conn) /\ i \in 1 .. Len(rcrtcs) /\ old \in Conn /\ EntryOK(old, top, finAt, delivered, tids, budget)
  BY <1>1, <1>3 DEF ListOK, FirstExpired
<1>5. /\ SameStream(old, c) /\ c.state = old.state /\ c.alarm = "off" /\ c.deletePending = old.deletePending
      /\ c.recv = old.recv
  BY <1>4, CountedIs
<1>6. StreamOK(old, top[k], finAt[k], delivered[k], budget) /\ (old.deletePending => tids[k[1]] # "TASK")
  BY <1>1, <1>4 DEF EntryOK
<1> DEFINE waiting == c.state \in {"NACK_WAIT", "FIN_RETX_WAIT"}
<1>7. \/ /\ c.deletePending
         /\ c.timeoutCount >= RCRT_MAX_ALIVE_TIMEOUT \/ (~waiting /\ ~c.recv)
         /\ DeleteConn(i) /\ UNCHANGED budget
      \/ /\ c.deletePending
         /\ c.timeoutCount < RCRT_MAX_ALIVE_TIMEOUT /\ (waiting \/ c.recv)
         /\ Update(i, [c EXCEPT !.alarm = "armed"]) /\ UNCHANGED budget
      \/ ~c.deletePending /\ waiting /\ AskAgain(i, c)
      \/ /\ ~c.deletePending /\ ~waiting
         /\ Update(i, [old EXCEPT !.alarm = "off"]) /\ UNCHANGED budget
  BY <1>1 DEF TimerFired
<1> HIDE DEF c
<1>8. c \in Conn /\ c.key = k /\ c.missing = old.missing
  BY <1>1, <1>5 DEF SameStream
<1>9. old.missing # {} => old.state # "ACTIVE" /\ old.alarm # "off"
  BY <1>3, <1>4 DEF ChasedBut
<1>10. StreamOK(c, top[k], finAt[k], delivered[k], budget)
  BY <1>5, <1>6, StreamKept
<1>11. CASE c.deletePending /\ DeleteConn(i) /\ UNCHANGED budget
  <2>1. tids' = tids /\ rates' \in TotalsType /\ rates'.N = rates.N - 1 /\ rcrtcs' = Without(rcrtcs, i)
    BY <1>3, <1>4, <1>11, DeletedIs DEF DeleteConn
  <2>2. Removes(rcrtcs, k, i, rcrtcs') /\ OnlyOf(k, top, finAt, delivered, top, finAt, delivered)
    BY <1>1, <1>4, <2>1, SameHistory DEF Removes
  <2>3. tids[k[1]] # "TASK"
    BY <1>5, <1>6, <1>11
  <2>4. /\ ListOK(rcrtcs', top, finAt, delivered, tids, budget) /\ Len(rcrtcs') = Len(rcrtcs) - 1
        /\ ChasedBut(rcrtcs', 0) /\ PastOK(rcrtcs', top, finAt, delivered, tids)
    BY <1>3, <2>2, <2>3, RemoveKeeps
  <2>5. rates'.N = Len(rcrtcs')
    BY <1>3, <2>1, <2>4
  <2> QED BY <1>2, <1>3, <1>11, <2>1, <2>4, <2>5 DEF RcrtInv
<1>12. CASE Update(i, [c EXCEPT !.alarm = "armed"]) /\ UNCHANGED budget
  <2> DEFINE d == [c EXCEPT !.alarm = "armed"]
  <2>1. SameStream(c, d) /\ d.state = c.state /\ d.alarm = "armed" /\ d.deletePending = c.deletePending
    BY <1>8 DEF SameStream, Conn
  <2>2. rcrtcs' = [rcrtcs EXCEPT ![i] = d] /\ UNCHANGED <<rates, tids>>
    BY <1>12 DEF Update
  <2> HIDE DEF d
  <2>3. StreamOK(d, top[k], finAt[k], delivered[k], budget)
    BY <1>10, <2>1, StreamKept
  <2>4. Replaces(rcrtcs, k, i, d, rcrtcs')
    BY <1>1, <1>4, <1>8, <2>1, <2>2 DEF Replaces, SameStream
  <2>5. d.missing # {} => d.state # "ACTIVE" /\ d.alarm # "off"
    BY <1>5, <1>8, <1>9, <2>1 DEF SameStream
  <2> QED BY <1>2, <1>5, <1>12, <2>1, <2>2, <2>3, <2>4, <2>5, TouchKeeps
<1>13. CASE waiting /\ AskAgain(i, c)
  <2>1. c.state # "ACTIVE"
    BY <1>13
  <2>2. CASE Update(i, [AfterFeedback(c) EXCEPT !.alarm = "armed"]) /\ UNCHANGED budget
    <3> DEFINE d == [AfterFeedback(c) EXCEPT !.alarm = "armed"]
    <3>1. rcrtcs' = [rcrtcs EXCEPT ![i] = d] /\ UNCHANGED <<rates, tids>>
      BY <2>2 DEF Update
    <3>2. /\ StreamOK(d, top[k], finAt[k], delivered[k], budget) /\ d.key = c.key /\ d.state = c.state /\ d.alarm = "armed"
          /\ d.deletePending = c.deletePending
      <4>1. d = Asked(c, "armed")
        BY DEF Asked
      <4> HIDE DEF d
      <4> QED BY <1>3, <1>10, <4>1, AskedIs
    <3> HIDE DEF d
    <3>3. Replaces(rcrtcs, k, i, d, rcrtcs')
      BY <1>1, <1>4, <1>8, <3>1, <3>2 DEF Replaces
    <3>4. d.missing # {} => d.state # "ACTIVE" /\ d.alarm # "off"
      BY <2>1, <3>2
    <3> QED BY <1>2, <1>5, <2>2, <3>1, <3>2, <3>3, <3>4, TouchKeeps
  <2>3. CASE /\ budget.changes > 0
             /\ budget' = [budget EXCEPT !.changes = budget.changes - 1]
             /\ \E l \in Losses :
                  LET v == <<-1, Decreased(rates, l)>>
                  IN  /\ rates' = Totals(v, rates)
                      /\ \E cs \in {Controlled([rcrtcs EXCEPT ![i] = [c EXCEPT !.timeoutCount = 0]], v, {})} :
                           rcrtcs' = [cs EXCEPT ![i] = [AfterFeedback(cs[i]) EXCEPT !.alarm = "armed"]]
             /\ UNCHANGED tids
    <3> DEFINE c0 == [c EXCEPT !.timeoutCount = 0]
               cs0 == [rcrtcs EXCEPT ![i] = c0]
    <3>1. PICK l \in Losses :
            /\ rates' = Totals(<<-1, Decreased(rates, l)>>, rates)
            /\ \E cs \in {Controlled(cs0, <<-1, Decreased(rates, l)>>, {})} :
                 rcrtcs' = [cs EXCEPT ![i] = [AfterFeedback(cs[i]) EXCEPT !.alarm = "armed"]]
      BY <2>3
    <3> DEFINE v == <<-1, Decreased(rates, l)>>
    <3>2. PICK cs : /\ cs = Controlled(cs0, v, {})
                    /\ rcrtcs' = [cs EXCEPT ![i] = [AfterFeedback(cs[i]) EXCEPT !.alarm = "armed"]]
      BY <3>1
    <3>3. Verdict(v, rates)
      <4>1. l \in 0 .. 99
        BY RcrtAssumption
      <4>2. Decreased(rates, l) \in TotalsType /\ Decreased(rates, l).N = rates.N
        BY <1>3, <4>1, DecreasedIs
      <4> QED BY <4>2 DEF Verdict
    <3> HIDE DEF v
    <3>4. rates' \in TotalsType /\ rates'.N = rates.N
      BY <1>3, <3>1, <3>3, VerdictIs DEF v
    <3>5. SameStream(c, c0) /\ c0.state = c.state /\ c0.deletePending = c.deletePending
      <4>1. 0 \in 0 .. RCRT_MAX_ALIVE_TIMEOUT
        BY RcrtAssumption
      <4> QED BY <1>8, <4>1 DEF SameStream, Conn
    <3> HIDE DEF c0
    <3>6. EntryOK(c0, top, finAt, delivered, tids, budget) /\ Replaces(rcrtcs, k, i, c0, cs0)
      <4>1. StreamOK(c0, top[k], finAt[k], delivered[k], budget) /\ c0.key = k
        BY <1>8, <1>10, <3>5, StreamKept DEF SameStream
      <4> QED BY <1>1, <1>4, <1>5, <1>6, <3>5, <4>1 DEF EntryOK, Replaces
    <3> HIDE DEF cs0
    <3>7. OnlyOf(k, top, finAt, delivered, top, finAt, delivered)
      BY SameHistory
    <3>8. /\ ListOK(cs0, top, finAt, delivered, tids, budget) /\ Len(cs0) = Len(rcrtcs) /\ cs0[i] = c0
          /\ \A j \in 1 .. Len(rcrtcs) : j # i => cs0[j] = rcrtcs[j]
          /\ \A m : Listed(cs0, m) <=> Listed(rcrtcs, m)
      BY <1>3, <3>6, <3>7, ListUpdate
    <3>9. ChasedBut(cs0, i)
      BY <1>3, <3>8 DEF ChasedBut
    <3>10. Recured(cs0, cs)
      BY <1>3, <3>2, <3>3, <3>8, ControlledIs DEF ListOK
    <3>11. /\ ListOK(cs, top, finAt, delivered, tids, budget) /\ Len(cs) = Len(cs0)
           /\ \A j \in 1 .. Len(cs0) :
                /\ cs[j].key = cs0[j].key /\ cs[j].state = cs0[j].state /\ cs[j].alarm = cs0[j].alarm
                /\ cs[j].missing = cs0[j].missing /\ cs[j].deletePending = cs0[j].deletePending
           /\ \A p : ChasedBut(cs0, p) => ChasedBut(cs, p)
           /\ \A m : Listed(cs, m) <=> Listed(cs0, m)
      BY <3>8, <3>10, ListRecured
    <3>12. PastOK(cs, top, finAt, delivered, tids)
      <4>1. \A m : Listed(cs, m) <=> Listed(rcrtcs, m)
        BY <3>8, <3>11
      <4> QED BY <1>3, <4>1 DEF PastOK
    <3>13. /\ i \in 1 .. Len(cs) /\ cs[i].key = k /\ cs[i].state = c.state /\ cs[i].deletePending = c.deletePending
           /\ EntryOK(cs[i], top, finAt, delivered, tids, budget)
      BY <1>4, <1>8, <3>5, <3>8, <3>11 DEF SameStream, ListOK
    <3> DEFINE d == [AfterFeedback(cs[i]) EXCEPT !.alarm = "armed"]
    <3>14. /\ StreamOK(d, top[k], finAt[k], delivered[k], budget) /\ d.key = k /\ d.state = c.state /\ d.alarm = "armed"
           /\ d.deletePending = c.deletePending
      <4>1. StreamOK(cs[i], top[k], finAt[k], delivered[k], budget)
        BY <3>13 DEF EntryOK
      <4>2. d = Asked(cs[i], "armed")
        BY DEF Asked
      <4> HIDE DEF d
      <4> QED BY <1>3, <3>13, <4>1, <4>2, AskedIs
    <3>15. rcrtcs' = [cs EXCEPT ![i] = d]
      BY <3>2
    <3> HIDE DEF d
    <3>16. Regular(budget') /\ budget'.newest = budget.newest
      <4>1. budget.changes - 1 \in Nat
        BY <1>3, <2>3, ScenarioIs
      <4> QED BY <1>3, <2>3, <4>1, BudgetKept
    <3>17. EntryOK(d, top, finAt, delivered, tids, budget')
      <4>1. d \in Conn /\ SameStream(d, d)
        BY <3>14 DEF StreamOK, SameStream
      <4>2. StreamOK(d, top[k], finAt[k], delivered[k], budget')
        BY <3>14, <3>16, <4>1, StreamKept
      <4> QED BY <1>5, <1>6, <3>14, <4>2 DEF EntryOK
    <3>18. Replaces(cs, k, i, d, rcrtcs')
      BY <3>13, <3>14, <3>15 DEF Replaces
    <3>19. d.missing # {} => d.state # "ACTIVE" /\ d.alarm # "off"
      BY <2>1, <3>14
    <3>20. /\ ListOK(rcrtcs', top, finAt, delivered, tids, budget') /\ Len(rcrtcs') = Len(cs)
           /\ ChasedBut(rcrtcs', 0) /\ PastOK(rcrtcs', top, finAt, delivered, tids)
      BY <3>7, <3>9, <3>11, <3>12, <3>16, <3>17, <3>18, <3>19, UpdateKeeps
    <3>21. rates'.N = Len(rcrtcs') /\ tids' = tids
      BY <1>3, <2>3, <3>4, <3>8, <3>11, <3>20
    <3> QED BY <1>2, <1>3, <3>4, <3>16, <3>20, <3>21 DEF RcrtInv
  <2> QED BY <1>13, <2>2, <2>3 DEF AskAgain
<1>14. CASE ~waiting /\ Update(i, [old EXCEPT !.alarm = "off"]) /\ UNCHANGED budget
  <2> DEFINE d == [old EXCEPT !.alarm = "off"]
  <2>1. SameStream(old, d) /\ d.state = old.state /\ d.alarm = "off" /\ d.deletePending = old.deletePending
    BY <1>4 DEF SameStream, Conn
  <2>2. rcrtcs' = [rcrtcs EXCEPT ![i] = d] /\ UNCHANGED <<rates, tids>>
    BY <1>14 DEF Update
  <2> HIDE DEF d
  <2>3. StreamOK(d, top[k], finAt[k], delivered[k], budget)
    BY <1>6, <2>1, StreamKept
  <2>4. Replaces(rcrtcs, k, i, d, rcrtcs')
    BY <1>1, <1>4, <2>1, <2>2 DEF Replaces, SameStream
  <2>5. d.missing = {}
    <3>1. old.state = "ACTIVE"
      BY <1>4, <1>5, <1>14 DEF Conn, States
    <3> QED BY <1>9, <2>1, <3>1 DEF SameStream
  <2> QED BY <1>2, <1>14, <2>1, <2>2, <2>3, <2>4, <2>5, TouchKeeps
<1> QED BY <1>7, <1>11, <1>12, <1>13, <1>14

\* A step hands up S on stream k, whose newest packet is then u.
HandsUp(k, S, u) ==
  /\ delivered' = [delivered EXCEPT ![k] = delivered[k] \cup S]
  /\ calls' = [calls EXCEPT ![k] = calls[k] + Cardinality(S)]
  /\ top' = [top EXCEPT ![k] = u]
  /\ S \in SUBSET (1 .. u) /\ top[k] <= u /\ S \cap delivered[k] = {}
  /\ \A m \in S : /\ \A d \in delivered[k] : d < m
                  /\ \A j \in 1 .. m : j \in delivered[k] \cup S \/ j + TR_VALID_RANGE <= u

LEMMA TakeDataKeeps ==
  ASSUME RcrtInv, NEW k \in Keys, NEW n, Arrives(n, top[k], finAt[k], delivered[k], budget),
         NEW retx \in BOOLEAN, NEW asked \in BOOLEAN, TakeData(k, n, retx, asked)
  PROVE  RcrtInv' /\ \E S : HandsUp(k, S, Newest(top[k], n))
<1> DEFINE Takes(i, w) ==
        /\ w = Taken(rcrtcs[i], n, retx)
        /\ delivered' = [delivered EXCEPT ![k] = delivered[k] \cup w.out]
        /\ calls' = [calls EXCEPT ![k] = calls[k] + Cardinality(w.out)]
        /\ top' = [top EXCEPT ![k] = IF n > top[k] THEN n ELSE top[k]]
        /\ \E v \in Control([rcrtcs EXCEPT ![i] = w.c], w.c, rates), good \in SUBSET DOMAIN rcrtcs :
             /\ v[1] # 0 => w.isNew /\ ~retx /\ budget.changes > 0
             /\ (Applied(v, rates) /\ budget.policy = RCRT_FAIR_GOODPUT) \/ good = {}
             /\ budget' = [budget EXCEPT !.changes = IF v[1] # 0 THEN budget.changes - 1 ELSE budget.changes]
             /\ \E cs \in {Controlled([rcrtcs EXCEPT ![i] = w.c], v, good)} :
                  \/ /\ w.c.missing = {} /\ w.c.state = "FIN_RETX_WAIT"
                     /\ DeleteFrom(cs, Totals(v, rates), i)
                  \/ /\ w.c.missing # {} \/ w.c.state # "FIN_RETX_WAIT"
                     /\ rates' = Totals(v, rates)
                     /\ rcrtcs' = IF w.lost \/ (v[1] = -1 /\ Applied(v, rates)) \/ asked
                                  THEN [cs EXCEPT ![i] = [AfterFeedback(cs[i]) EXCEPT !.alarm = Alarm(cs[i])]]
                                  ELSE cs
                     /\ UNCHANGED tids
        /\ UNCHANGED <<crashed, finAt>>
<1>0. PICK i \in Positions(k) : \E w : Takes(i, w)
  BY DEF TakeData
<1>1. PICK w : Takes(i, w)
  BY <1>0
<1> DEFINE old == rcrtcs[i]
           c == w.c
           cs1 == [rcrtcs EXCEPT ![i] = c]
<1> DEFINE Settles(v, cs) ==
             \/ /\ c.missing = {} /\ c.state = "FIN_RETX_WAIT"
                /\ DeleteFrom(cs, Totals(v, rates), i)
             \/ /\ c.missing # {} \/ c.state # "FIN_RETX_WAIT"
                /\ rates' = Totals(v, rates)
                /\ rcrtcs' = IF w.lost \/ (v[1] = -1 /\ Applied(v, rates)) \/ asked
                             THEN [cs EXCEPT ![i] = [AfterFeedback(cs[i]) EXCEPT !.alarm = Alarm(cs[i])]]
                             ELSE cs
                /\ UNCHANGED tids
<1>2a. PICK v \in Control(cs1, c, rates), good \in SUBSET DOMAIN rcrtcs :
        /\ v[1] # 0 => budget.changes > 0
        /\ budget' = [budget EXCEPT !.changes = IF v[1] # 0 THEN budget.changes - 1 ELSE budget.changes]
        /\ \E cs \in {Controlled(cs1, v, good)} : Settles(v, cs)
  BY <1>1
<1>2. PICK cs \in {Controlled(cs1, v, good)} : Settles(v, cs)
  BY <1>2a
<1>3. /\ Regular(budget) /\ HistoryType(top, finAt, delivered, tids)
      /\ ListOK(rcrtcs, top, finAt, delivered, tids, budget) /\ ChasedBut(rcrtcs, 0)
      /\ PastOK(rcrtcs, top, finAt, delivered, tids) /\ rates \in TotalsType /\ rates.N = Len(rcrtcs)
      /\ crashed \in BOOLEAN /\ calls \in [Keys -> Nat]
  BY DEF RcrtInv
<1>4. /\ rcrtcs \in Seq(Conn) /\ i \in 1 .. Len(rcrtcs) /\ old \in Conn /\ old.key = k
      /\ EntryOK(old, top, finAt, delivered, tids, budget)
  BY <1>1, <1>3, OpenIs DEF ListOK
<1>5. StreamOK(old, top[k], finAt[k], delivered[k], budget) /\ (old.deletePending => tids[k[1]] # "TASK")
  BY <1>4 DEF EntryOK
<1> DEFINE u == Newest(top[k], n)
           D == [delivered EXCEPT ![k] = delivered[k] \cup w.out]
           t == [top EXCEPT ![k] = u]
<1>6. /\ StreamOK(c, u, finAt[k], delivered[k] \cup w.out, budget)
      /\ c.key = k /\ c.deletePending = old.deletePending /\ c.alarm = old.alarm
      /\ c.missing # {} => c.state # "ACTIVE"
      /\ ~w.lost => c.missing \subseteq old.missing
      /\ w.out \cap delivered[k] = {} /\ w.out \subseteq 1 .. u
      /\ \A m \in w.out : /\ \A d \in delivered[k] : d < m
                          /\ \A j \in 1 .. m : j \in delivered[k] \cup w.out \/ j + TR_VALID_RANGE <= u
  <2> HIDE DEF old
  <2>1. w = Taken(old, n, retx)
    BY <1>1 DEF old
  <2>2. TakenOK(old, w, Newest(top[k], n), finAt[k], delivered[k], budget)
    BY <1>3, <1>5, <2>1, TakenIs
  <2> QED BY <1>4, <2>2 DEF TakenOK
<1>7. c \in Conn
  BY <1>6 DEF StreamOK
<1>8. top' = t /\ delivered' = D
  BY <1>1 DEF Newest
<1> HIDE DEF u, c
<1>9. /\ u \in Nat /\ u \in 0 .. (MaxIndex + 1) /\ top[k] <= u /\ (finAt[k] # 0 => u = finAt[k])
      /\ top[k] \in Nat /\ n <= u
  <2>1. budget.newest \in 0 .. MaxIndex /\ MaxIndex \in Nat /\ n \in 1 .. budget.newest
        /\ (finAt[k] # 0 => finAt[k] = top[k] /\ n < finAt[k])
    BY <1>3, ScenarioIs, RcrtAssumption DEF Arrives
  <2>2. top[k] \in 0 .. MaxIndex + 1
    BY <1>3 DEF HistoryType
  <2> QED BY <2>1, <2>2 DEF u, Newest
<1>10. /\ t[k] = u /\ D[k] = delivered[k] \cup w.out /\ OnlyOf(k, top, finAt, delivered, t, finAt, D)
       /\ HistoryType(t, finAt, D, tids)
  <2>1. /\ top \in [Keys -> 0 .. MaxIndex + 1] /\ delivered \in [Keys -> SUBSET Index]
        /\ delivered[k] \subseteq 1 .. top[k]
    BY <1>3 DEF HistoryType
  <2>2. t[k] = u /\ D[k] = delivered[k] \cup w.out /\ \A j \in Keys : j # k => t[j] = top[j] /\ D[j] = delivered[j]
    BY <2>1
  <2>3. delivered[k] \cup w.out \subseteq 1 .. u /\ delivered[k] \cup w.out \in SUBSET Index
    <3>1. 1 .. u \subseteq Index
      BY <1>9, RcrtAssumption DEF Index
    <3>2. 1 .. top[k] \subseteq 1 .. u
      BY <1>9
    <3> QED BY <1>6, <2>1, <3>1, <3>2
  <2>4. t \in [Keys -> 0 .. MaxIndex + 1] /\ D \in [Keys -> SUBSET Index]
    BY <1>9, <2>1, <2>3
  <2> HIDE DEF t, D
  <2>5. OnlyOf(k, top, finAt, delivered, t, finAt, D)
    BY <2>2 DEF OnlyOf
  <2>6. \A j \in Keys : D[j] \subseteq 1 .. t[j] /\ (finAt[j] # 0 => t[j] = finAt[j])
    BY <1>3, <1>9, <2>2, <2>3 DEF HistoryType
  <2> QED BY <1>3, <2>2, <2>4, <2>5, <2>6 DEF HistoryType
<1>11. HandsUp(k, w.out, u)
  BY <1>1, <1>6, <1>8, <1>9 DEF HandsUp
<1>12. calls' \in [Keys -> Nat]
  <2>1. IsFiniteSet(1 .. u)
    BY <1>9, FS_Interval
  <2>2. IsFiniteSet(w.out)
    BY <1>6, <2>1, FS_Subset
  <2>3. Cardinality(w.out) \in Nat
    BY <2>2, FS_CardinalityType
  <2> QED BY <1>1, <1>3, <2>3
<1> HIDE DEF t, D
<1>13. Regular(budget') /\ budget'.newest = budget.newest
  <2> DEFINE x == IF v[1] # 0 THEN budget.changes - 1 ELSE budget.changes
  <2>1. x \in Nat
    BY <1>2a, <1>3, ScenarioIs
  <2>2. budget' = [budget EXCEPT !.changes = x]
    BY <1>2a
  <2> HIDE DEF x
  <2> QED BY <1>3, <2>1, <2>2, BudgetKept
<1>14. EntryOK(c, t, finAt, D, tids, budget')
  <2>1. SameStream(c, c)
    BY <1>7 DEF SameStream
  <2>2. StreamOK(c, u, finAt[k], delivered[k] \cup w.out, budget')
    BY <1>6, <1>13, <2>1, StreamKept
  <2> QED BY <1>5, <1>6, <1>10, <2>2 DEF EntryOK
<1>15. Replaces(rcrtcs, k, i, c, cs1)
  BY <1>4, <1>6 DEF Replaces
<1> HIDE DEF cs1
<1>16. /\ ListOK(cs1, t, finAt, D, tids, budget') /\ Len(cs1) = Len(rcrtcs) /\ cs1[i] = c
       /\ \A j \in 1 .. Len(rcrtcs) : j # i => cs1[j] = rcrtcs[j]
       /\ \A m : Listed(cs1, m) <=> Listed(rcrtcs, m)
  BY <1>3, <1>10, <1>13, <1>14, <1>15, ListUpdate
<1>17. ChasedBut(cs1, i) /\ Listed(rcrtcs, k)
  BY <1>3, <1>4, <1>16 DEF ChasedBut, Listed
<1>18. Verdict(v, rates)
  BY <1>2, <1>3, ControlIs
<1>19. Totals(v, rates) \in TotalsType /\ Totals(v, rates).N = rates.N
  BY <1>3, <1>18, VerdictIs
<1>20. Recured(cs1, cs)
  BY <1>2, <1>3, <1>16, <1>18, ControlledIs DEF ListOK
<1>21. /\ ListOK(cs, t, finAt, D, tids, budget') /\ Len(cs) = Len(cs1)
       /\ \A j \in 1 .. Len(cs1) :
            /\ cs[j].key = cs1[j].key /\ cs[j].state = cs1[j].state /\ cs[j].alarm = cs1[j].alarm
            /\ cs[j].missing = cs1[j].missing /\ cs[j].deletePending = cs1[j].deletePending
       /\ \A p : ChasedBut(cs1, p) => ChasedBut(cs, p)
       /\ \A m : Listed(cs, m) <=> Listed(cs1, m)
  BY <1>16, <1>20, ListRecured
<1>22. PastOK(cs, t, finAt, D, tids)
  <2>1. OnlyGone(k, rcrtcs, cs, tids, tids) /\ Listed(cs, k)
    BY <1>16, <1>17, <1>21 DEF OnlyGone
  <2> QED BY <1>3, <1>10, <2>1, PastKept
<1>23. /\ i \in 1 .. Len(cs) /\ cs[i].key = k /\ cs[i].state = c.state /\ cs[i].missing = c.missing
       /\ cs[i].alarm = c.alarm /\ cs[i].deletePending = c.deletePending
       /\ EntryOK(cs[i], t, finAt, D, tids, budget') /\ cs \in Seq(Conn)
  BY <1>4, <1>6, <1>16, <1>21 DEF ListOK
<1>24. OnlyOf(k, t, finAt, D, t, finAt, D)
  BY SameHistory
<1>25. CASE c.missing = {} /\ DeleteFrom(cs, Totals(v, rates), i)
  <2>1. tids' = tids /\ rates' \in TotalsType /\ rates'.N = rates.N - 1 /\ rcrtcs' = Without(cs, i)
    BY <1>19, <1>23, <1>25, DeletedIs
  <2>2. Finished(t[k], finAt[k], D[k])
    <3>1. finAt[k] = 0 \/ finAt[k] \in Nat
      BY <1>3 DEF HistoryType
    <3>2. StreamOK(c, t[k], finAt[k], D[k], budget)
      BY <1>6, <1>10
    <3>3. finAt[k] # 0 => finAt[k] = t[k]
      BY <1>9, <1>10
    <3> QED BY <1>3, <1>25, <3>1, <3>2, <3>3, FinishedIs
  <2>3. Removes(cs, k, i, rcrtcs')
    BY <1>23, <2>1 DEF Removes
  <2>4. /\ ListOK(rcrtcs', t, finAt, D, tids, budget') /\ Len(rcrtcs') = Len(cs) - 1
        /\ ChasedBut(rcrtcs', 0) /\ PastOK(rcrtcs', t, finAt, D, tids)
    BY <1>17, <1>21, <1>22, <1>24, <2>2, <2>3, RemoveKeeps
  <2>5. rates'.N = Len(rcrtcs')
    BY <1>3, <1>16, <1>21, <2>1, <2>4
  <2> QED BY <1>1, <1>3, <1>8, <1>10, <1>11, <1>12, <1>13, <2>1, <2>4, <2>5 DEF RcrtInv, u
<1>26. CASE /\ rates' = Totals(v, rates) /\ UNCHANGED tids
            /\ rcrtcs' = [cs EXCEPT ![i] = [AfterFeedback(cs[i]) EXCEPT !.alarm = Alarm(cs[i])]]
  <2> DEFINE a == Alarm(cs[i])
             d == Asked(cs[i], a)
  <2>1. a \in {"armed", "expired"}
    <3>1. cs[i] \in Conn
      BY <1>23
    <3>2. cs[i].alarm \in {"off", "armed", "expired"}
      BY <3>1 DEF Conn
    <3> QED BY <3>2 DEF Alarm
  <2>2. rcrtcs' = [cs EXCEPT ![i] = d]
    BY <1>26 DEF Asked
  <2> HIDE DEF a
  <2>3. StreamOK(cs[i], t[k], finAt[k], D[k], budget')
    BY <1>23 DEF EntryOK
  <2>4. /\ StreamOK(d, t[k], finAt[k], D[k], budget') /\ d.key = cs[i].key /\ d.state = cs[i].state /\ d.alarm = a
        /\ d.deletePending = cs[i].deletePending /\ d.missing \subseteq cs[i].missing
    <3> HIDE DEF d
    <3>1. d = Asked(cs[i], a)
      BY DEF d
    <3> QED BY <1>13, <2>1, <2>3, <3>1, AskedIs
  <2> HIDE DEF d
  <2>5. EntryOK(d, t, finAt, D, tids, budget')
    BY <1>5, <1>6, <1>23, <2>4 DEF EntryOK
  <2>6. Replaces(cs, k, i, d, rcrtcs')
    BY <1>23, <2>2, <2>4 DEF Replaces
  <2>7. d.missing # {} => d.state # "ACTIVE" /\ d.alarm # "off"
    BY <1>6, <1>23, <2>1, <2>4
  <2>8. /\ ListOK(rcrtcs', t, finAt, D, tids, budget') /\ Len(rcrtcs') = Len(cs)
        /\ ChasedBut(rcrtcs', 0) /\ PastOK(rcrtcs', t, finAt, D, tids)
    BY <1>17, <1>21, <1>22, <1>24, <2>5, <2>6, <2>7, UpdateKeeps
  <2>9. rates' \in TotalsType /\ rates'.N = Len(rcrtcs') /\ tids' = tids
    BY <1>3, <1>16, <1>19, <1>21, <1>26, <2>8
  <2> QED BY <1>1, <1>3, <1>8, <1>10, <1>11, <1>12, <1>13, <2>8, <2>9 DEF RcrtInv, u
<1>27. CASE ~w.lost /\ rates' = Totals(v, rates) /\ UNCHANGED tids /\ rcrtcs' = cs
  <2>1. c.missing # {} => c.state # "ACTIVE" /\ c.alarm # "off"
    BY <1>3, <1>4, <1>6, <1>27 DEF ChasedBut
  <2>2. ChasedBut(cs, 0)
    BY <1>17, <1>21, <1>23, <2>1 DEF ChasedBut
  <2>3. rates' \in TotalsType /\ rates'.N = Len(rcrtcs') /\ tids' = tids
    BY <1>3, <1>16, <1>19, <1>21, <1>27
  <2> QED BY <1>1, <1>3, <1>8, <1>10, <1>11, <1>12, <1>13, <1>21, <1>22, <1>27, <2>2, <2>3 DEF RcrtInv, u
<1> QED
  <2>1. \/ c.missing = {} /\ DeleteFrom(cs, Totals(v, rates), i)
        \/ /\ rates' = Totals(v, rates) /\ UNCHANGED tids
           /\ rcrtcs' = [cs EXCEPT ![i] = [AfterFeedback(cs[i]) EXCEPT !.alarm = Alarm(cs[i])]]
        \/ ~w.lost /\ rates' = Totals(v, rates) /\ UNCHANGED tids /\ rcrtcs' = cs
    BY <1>2
  <2> QED BY <1>25, <1>26, <1>27, <2>1

\* DATA and DATA_RETX.
LEMMA DataArrives ==
  ASSUME RcrtInv, NEW k \in Keys, NEW n \in 1 .. budget.newest,
         NEW retx \in BOOLEAN, NEW asked \in BOOLEAN, ReceiveData(k, n, retx, asked)
  PROVE  /\ Arrives(n, top[k], finAt[k], delivered[k], budget)
         /\ UNCHANGED vars \/ TakeData(k, n, retx, asked)
<1>1. /\ finAt[k] # 0 => n < finAt[k]
      /\ IF retx THEN n <= top[k] ELSE n <= top[k] + budget.gap
      /\ n + budget.late >= top[k] /\ 1 .. (n - budget.lag[n]) \subseteq delivered[k]
      /\ UNCHANGED vars \/ TakeData(k, n, retx, asked)
  BY DEF ReceiveData
<1>2. /\ top[k] \in 0 .. MaxIndex + 1 /\ (finAt[k] # 0 => finAt[k] = top[k]) /\ Regular(budget)
  BY DEF RcrtInv, HistoryType
<1>3. budget.gap \in Nat /\ budget.late \in Nat /\ budget.newest \in Nat
  BY <1>2, ScenarioIs
<1>4. n <= top[k] + budget.gap /\ top[k] <= n + budget.late
  BY <1>1, <1>2, <1>3, RcrtAssumption
<1> QED BY <1>1, <1>2, <1>4 DEF Arrives

LEMMA DataKeeps ==
  ASSUME RcrtInv, NEW k \in Keys, NEW n \in 1 .. budget.newest,
         NEW retx \in BOOLEAN, NEW asked \in BOOLEAN, ReceiveData(k, n, retx, asked)
  PROVE  RcrtInv' /\ (UNCHANGED vars \/ \E S : HandsUp(k, S, Newest(top[k], n)))
<1>1. /\ Arrives(n, top[k], finAt[k], delivered[k], budget)
      /\ UNCHANGED vars \/ TakeData(k, n, retx, asked)
  BY DataArrives
<1>2. CASE UNCHANGED vars
  BY <1>2 DEF RcrtInv, vars
<1>3. CASE TakeData(k, n, retx, asked)
  BY <1>1, <1>3, TakeDataKeeps
<1> QED BY <1>1, <1>2, <1>3

-----------------------------------------------------------------------------
(* The walk that closes a task.                                              *)

\* What becomes of an entry c that stays when task t is closed.
Stays(c, d, t) == d = c \/ (c.key[1] = t /\ d = Marked(c))

\* The walk for task t has passed i entries.
WalkType == [cs : Seq(Conn), g : TotalsType, skip : BOOLEAN]
Passed(i, w, t) ==
  /\ w \in WalkType /\ w.g.N = (rates.N - i) + Len(w.cs)
  /\ \A j \in 1 .. Len(w.cs) : \E m \in 1 .. i : Stays(rcrtcs[m], w.cs[j], t)
  /\ \A j, m \in 1 .. Len(w.cs) : j # m => w.cs[j].key # w.cs[m].key
  /\ \A m \in 1 .. i : rcrtcs[m].key[1] # t => Listed(w.cs, rcrtcs[m].key)

LEMMA MarkedIs ==
  ASSUME NEW c \in Conn, NEW d, d = Marked(c)
  PROVE  SameStream(c, d) /\ d.state = c.state /\ d.deletePending /\ d.alarm # "off"
<1> DEFINE a == IF c.alarm = "off" THEN "armed" ELSE c.alarm
<1>1. d = [c EXCEPT !.deletePending = TRUE, !.alarm = a]
  BY DEF Marked
<1>2. a \in {"off", "armed", "expired"} /\ a # "off"
  BY DEF Conn
<1> HIDE DEF a
<1>3. /\ d \in Conn /\ d.key = c.key /\ d.last = c.last /\ d.next = c.next /\ d.plist = c.plist
      /\ d.missing = c.missing /\ d.state = c.state /\ d.deletePending = TRUE /\ d.alarm = a
  BY <1>1, <1>2 DEF Conn
<1> QED BY <1>2, <1>3 DEF SameStream

\* An entry that stays follows those before it.
LEMMA StaysOn ==
  ASSUME RcrtInv, NEW t, NEW i \in 1 .. Len(rcrtcs), NEW w, Passed(i - 1, w, t),
         NEW d, Stays(rcrtcs[i], d, t), NEW v, v \in WalkType, v.cs = Append(w.cs, d), v.g = w.g
  PROVE  Passed(i, v, t)
<1>1. /\ w \in WalkType /\ w.g.N = (rates.N - (i - 1)) + Len(w.cs)
      /\ \A j \in 1 .. Len(w.cs) : \E m \in 1 .. (i - 1) : Stays(rcrtcs[m], w.cs[j], t)
      /\ \A j, m \in 1 .. Len(w.cs) : j # m => w.cs[j].key # w.cs[m].key
      /\ \A m \in 1 .. (i - 1) : rcrtcs[m].key[1] # t => Listed(w.cs, rcrtcs[m].key)
  BY DEF Passed
<1>2. /\ rcrtcs \in Seq(Conn) /\ \A j, m \in 1 .. Len(rcrtcs) : j # m => rcrtcs[j].key # rcrtcs[m].key
      /\ rates.N \in Nat
  BY DEF RcrtInv, ListOK
<1>3. \A m \in 1 .. Len(rcrtcs) : \A e : Stays(rcrtcs[m], e, t) => e \in Conn /\ e.key = rcrtcs[m].key
  <2>1. ASSUME NEW m \in 1 .. Len(rcrtcs), NEW e, Stays(rcrtcs[m], e, t)
        PROVE  e \in Conn /\ e.key = rcrtcs[m].key
    <3>1. rcrtcs[m] \in Conn
      BY <1>2
    <3>2. CASE e = rcrtcs[m]
      BY <3>1, <3>2
    <3>3. CASE e = Marked(rcrtcs[m])
      <4>1. SameStream(rcrtcs[m], e)
        BY <3>1, <3>3, MarkedIs
      <4> QED BY <4>1 DEF SameStream
    <3> QED BY <2>1, <3>2, <3>3 DEF Stays
  <2> QED BY <2>1
<1>4. d \in Conn /\ d.key = rcrtcs[i].key
  BY <1>3
<1>5. w.cs \in Seq(Conn) /\ w.g \in TotalsType
  BY <1>1 DEF WalkType
<1>6. /\ Len(v.cs) = Len(w.cs) + 1 /\ Len(w.cs) \in Nat /\ v.cs[Len(w.cs) + 1] = d
      /\ \A j \in 1 .. Len(w.cs) : v.cs[j] = w.cs[j]
  BY <1>4, <1>5
<1>7. \A j \in 1 .. Len(v.cs) : j = Len(w.cs) + 1 \/ j \in 1 .. Len(w.cs)
  BY <1>6
<1>8. i \in Nat \ {0} /\ i \in 1 .. i /\ \A m \in 1 .. (i - 1) : m \in 1 .. i /\ m # i /\ m \in 1 .. Len(rcrtcs)
  BY <1>2
<1>9. v.g.N = (rates.N - i) + Len(v.cs)
  <2> DEFINE a == w.g.N
             r == rates.N
             m == Len(w.cs)
  <2>1. a \in Int /\ r \in Int /\ m \in Int /\ i \in Int
    BY <1>2, <1>5, <1>6, <1>8 DEF TotalsType
  <2>2. a = (r - (i - 1)) + m /\ v.g.N = a /\ Len(v.cs) = m + 1
    BY <1>1, <1>6
  <2> HIDE DEF a, r, m
  <2>3. v.g.N = (r - i) + Len(v.cs)
    BY <2>1, <2>2
  <2> QED BY <2>3 DEF r
<1>10. \A j \in 1 .. Len(v.cs) : \E m \in 1 .. i : Stays(rcrtcs[m], v.cs[j], t)
  BY <1>1, <1>6, <1>7, <1>8
<1>11. \A j \in 1 .. Len(w.cs) : w.cs[j].key # d.key
  <2>1. ASSUME NEW j \in 1 .. Len(w.cs) PROVE w.cs[j].key # d.key
    <3>1. PICK m \in 1 .. (i - 1) : Stays(rcrtcs[m], w.cs[j], t)
      BY <1>1
    <3>2. w.cs[j].key = rcrtcs[m].key /\ m # i /\ m \in 1 .. Len(rcrtcs)
      BY <1>3, <1>8, <3>1
    <3> QED BY <1>2, <1>4, <3>2
  <2> QED BY <2>1
<1>12. \A j, m \in 1 .. Len(v.cs) : j # m => v.cs[j].key # v.cs[m].key
  BY <1>1, <1>6, <1>7, <1>11
<1>13. \A m \in 1 .. i : rcrtcs[m].key[1] # t => Listed(v.cs, rcrtcs[m].key)
  <2>1. ASSUME NEW m \in 1 .. i, rcrtcs[m].key[1] # t PROVE Listed(v.cs, rcrtcs[m].key)
    <3>1. CASE m = i
      <4>1. Len(w.cs) + 1 \in 1 .. Len(v.cs)
        BY <1>6
      <4> QED BY <1>4, <1>6, <3>1, <4>1 DEF Listed
    <3>2. CASE m # i
      <4>1. m \in 1 .. (i - 1)
        BY <1>8, <3>2
      <4>2. PICK j \in 1 .. Len(w.cs) : w.cs[j].key = rcrtcs[m].key
        BY <1>1, <2>1, <4>1 DEF Listed
      <4>3. j \in 1 .. Len(v.cs) /\ v.cs[j] = w.cs[j]
        BY <1>6
      <4> QED BY <4>2, <4>3 DEF Listed
    <3> QED BY <3>1, <3>2
  <2> QED BY <2>1
<1> QED BY <1>9, <1>10, <1>12, <1>13 DEF Passed

LEMMA VisitedIs ==
  ASSUME RcrtInv, NEW t, NEW i \in 1 .. Len(rcrtcs), NEW w, Passed(i - 1, w, t),
         NEW v, v = Visited(w, rcrtcs[i], t)
  PROVE  Passed(i, v, t)
<1> DEFINE c == rcrtcs[i]
<1>1. /\ w \in WalkType /\ w.g.N = (rates.N - (i - 1)) + Len(w.cs)
      /\ \A j \in 1 .. Len(w.cs) : \E m \in 1 .. (i - 1) : Stays(rcrtcs[m], w.cs[j], t)
      /\ \A j, m \in 1 .. Len(w.cs) : j # m => w.cs[j].key # w.cs[m].key
      /\ \A m \in 1 .. (i - 1) : rcrtcs[m].key[1] # t => Listed(w.cs, rcrtcs[m].key)
  BY DEF Passed
<1>2. /\ w.cs \in Seq(Conn) /\ w.g \in TotalsType /\ w.skip \in BOOLEAN /\ c \in Conn
      /\ rates.N \in Nat /\ i \in Nat \ {0}
  BY <1>1 DEF WalkType, RcrtInv, ListOK
<1>3. CASE w.skip \/ c.key[1] # t
  <2> DEFINE x == Append(w.cs, c)
  <2>1. v = [w EXCEPT !.cs = x, !.skip = FALSE]
    BY <1>3 DEF Visited
  <2>2. x \in Seq(Conn)
    BY <1>2
  <2> HIDE DEF x, c
  <2>3. v \in WalkType /\ v.cs = x /\ v.g = w.g
    BY <1>1, <2>1, <2>2 DEF WalkType
  <2>4. Stays(c, c, t)
    BY DEF Stays
  <2> QED BY <2>3, <2>4, StaysOn DEF x, c
<1>4. CASE ~(w.skip \/ c.key[1] # t) /\ c.recv
  <2> DEFINE d == Marked(c)
             x == Append(w.cs, d)
  <2>1. v = [w EXCEPT !.cs = x]
    BY <1>4 DEF Visited
  <2>2. d \in Conn
    <3>1. SameStream(c, d)
      BY <1>2, MarkedIs
    <3> QED BY <3>1 DEF SameStream
  <2>3. Stays(c, d, t)
    BY <1>4 DEF Stays
  <2> HIDE DEF d, c
  <2>4. x \in Seq(Conn)
    BY <1>2, <2>2
  <2> HIDE DEF x
  <2>5. v \in WalkType /\ v.cs = x /\ v.g = w.g
    BY <1>1, <2>1, <2>4 DEF WalkType
  <2> QED BY <2>3, <2>5, StaysOn DEF x, c
<1>5. CASE ~(w.skip \/ c.key[1] # t) /\ ~c.recv
  <2> DEFINE h == FinishRates(budget.policy, w.g, c)
  <2>1. v = [w EXCEPT !.g = h, !.skip = TRUE]
    BY <1>5 DEF Visited
  <2>2. h \in TotalsType /\ h.N = w.g.N - 1
    BY <1>2, FinishIs
  <2> HIDE DEF h
  <2>3. v \in WalkType /\ v.cs = w.cs /\ v.g = h
    BY <1>1, <2>1, <2>2 DEF WalkType
  <2>4. v.g.N = (rates.N - i) + Len(v.cs)
    BY <1>1, <1>2, <2>2, <2>3
  <2>5. \A m \in 1 .. i : m = i \/ m \in 1 .. (i - 1)
    BY <1>2
  <2>6. \A m \in 1 .. (i - 1) : m \in 1 .. i
    BY <1>2
  <2> QED BY <1>1, <1>5, <2>3, <2>4, <2>5, <2>6 DEF Passed
<1> QED BY <1>3, <1>4, <1>5

\* What every visit keeps holds after the walk.
LEMMA WalkKeeps ==
  ASSUME RcrtInv, NEW t, NEW Y \in SUBSET ((0 .. Len(rcrtcs)) \X WalkType),
         <<0, [cs |-> <<>>, g |-> rates, skip |-> FALSE]>> \in Y,
         \A i \in 1 .. Len(rcrtcs), w \in WalkType :
           <<i - 1, w>> \in Y => <<i, Visited(w, rcrtcs[i], t)>> \in Y
  PROVE  <<Len(rcrtcs), Walked(t)>> \in Y
<1> DEFINE N == Len(rcrtcs)
           w0 == [cs |-> <<>>, g |-> rates, skip |-> FALSE]
           X == [0 .. N -> WalkType]
           After(i, v) == With(v, LAMBDA w : Visited(w, rcrtcs[i], t))
           Is(h) == h = [i \in 0 .. N |-> IF i = 0 THEN w0 ELSE After(i, h[i - 1])]
           walk == CHOOSE h : Is(h)
           \* The same walk, as a loop on the pairs of a number and the walk so far.
           G == [p \in (1 .. N) \X Y |->
                   IF p[2][1] = p[1] - 1 THEN <<p[1], Visited(p[2][2], rcrtcs[p[1]], t)>> ELSE p[2]]
<1>1. N \in Nat
  BY DEF RcrtInv, ListOK
<1>2. ASSUME NEW i, NEW v PROVE After(i, v) = Visited(v, rcrtcs[i], t)
  BY DEF With
<1> HIDE DEF After
<1>4. \A i \in 1 .. N, w \in WalkType : <<i - 1, w>> \in Y => <<i, Visited(w, rcrtcs[i], t)>> \in Y
  OBVIOUS
<1>5. \A q \in Y : q = <<q[1], q[2]>> /\ q[1] \in 0 .. N /\ q[2] \in WalkType
  OBVIOUS
<1>7. <<0, w0>> \in Y
  OBVIOUS
<1> HIDE DEF w0
<1>6. G \in [(1 .. N) \X Y -> Y]
  <2>1. ASSUME NEW i \in 1 .. N, NEW q \in Y
        PROVE  (IF q[1] = i - 1 THEN <<i, Visited(q[2], rcrtcs[i], t)>> ELSE q) \in Y
    <3>1. CASE q[1] = i - 1
      <4>1. q = <<i - 1, q[2]>> /\ q[2] \in WalkType
        BY <1>5, <3>1
      <4>2. <<i - 1, q[2]>> \in Y
        BY <4>1
      <4>3. <<i, Visited(q[2], rcrtcs[i], t)>> \in Y
        <5> HIDE DEF N
        <5> QED BY <1>4, <4>1, <4>2
      <4> QED BY <3>1, <4>3
    <3>2. CASE q[1] # i - 1
      BY <3>2
    <3> QED BY <3>1, <3>2
  <2> HIDE DEF N
  <2> QED BY <2>1
<1>8. PICK g \in [0 .. N -> Y] : g[0] = <<0, w0>> /\ \A i \in 1 .. N : g[i] = G[<<i, g[i - 1]>>]
  <2>1. \E g : Turns(Y, N, <<0, w0>>, G, g)
    <3> HIDE DEF N, G
    <3> QED BY <1>1, <1>6, <1>7, Iterates
  <2> HIDE DEF N, G
  <2> QED BY <2>1 DEF Turns
<1>9. ASSUME NEW i \in 1 .. N, g[i - 1][1] = i - 1
      PROVE  g[i] = <<i, Visited(g[i - 1][2], rcrtcs[i], t)>>
  <2>1. i - 1 \in 0 .. N
    BY <1>1
  <2>2. <<i, g[i - 1]>> \in (1 .. N) \X Y /\ g[i] = G[<<i, g[i - 1]>>]
    <3> HIDE DEF N, G
    <3> QED BY <1>8, <2>1
  <2> HIDE DEF N
  <2> QED BY <1>9, <2>2
<1> HIDE DEF G
<1>10. \A i \in 0 .. N : g[i][1] = i
  <2> DEFINE P == {i \in 0 .. N : g[i][1] = i}
  <2>1. 0 \in P
    BY <1>1, <1>8
  <2>2. \A i \in 1 .. N : i - 1 \in P => i \in P
    <3> QED BY <1>1, <1>9
  <2>3. \A i \in 0 .. N : i \in P
    <3> HIDE DEF P, N
    <3> QED BY <1>1, <2>1, <2>2, LoopKeeps
  <2> QED BY <2>3
<1> DEFINE h == [i \in 0 .. N |-> g[i][2]]
<1>11. h[0] = w0 /\ \A i \in 1 .. N : h[i] = Visited(h[i - 1], rcrtcs[i], t)
  <2>1. h[0] = w0
    BY <1>1, <1>8
  <2>2. ASSUME NEW i \in 1 .. N PROVE h[i] = Visited(h[i - 1], rcrtcs[i], t)
    <3>1. i \in 0 .. N /\ i - 1 \in 0 .. N
      BY <1>1
    <3>2. g[i] = <<i, Visited(g[i - 1][2], rcrtcs[i], t)>>
      BY <1>9, <1>10, <3>1
    <3> HIDE DEF N
    <3> QED BY <3>1, <3>2
  <2> QED BY <2>1, <2>2
<1>12. Is(h)
  <2>1. \A i \in 0 .. N : i # 0 => i \in 1 .. N
    BY <1>1
  <2>2. h = [i \in 0 .. N |-> h[i]]
    OBVIOUS
  <2> HIDE DEF h, N
  <2> QED BY <1>2, <1>11, <2>1, <2>2
<1> HIDE DEF h
<1>13. Is(walk)
  <2> HIDE DEF Is
  <2> QED BY <1>12
<1>14. Walked(t) = walk[N]
  BY DEF Walked, After, w0
<1> HIDE DEF walk
<1>15. walk[0] = w0 /\ \A i \in 1 .. N : walk[i] = Visited(walk[i - 1], rcrtcs[i], t)
  <2>1. \A i \in 1 .. N : i \in 0 .. N /\ i # 0
    BY <1>1
  <2>2. 0 \in 0 .. N
    BY <1>1
  <2> HIDE DEF N
  <2> QED BY <1>2, <1>13, <2>1, <2>2
<1> DEFINE P == {i \in 0 .. N : <<i, walk[i]>> \in Y}
<1>16. 0 \in P /\ \A i \in 1 .. N : i - 1 \in P => i \in P
  <2>1. \A i \in 1 .. N : i \in 0 .. N
    BY <1>1
  <2>2. 0 \in 0 .. N
    BY <1>1
  <2> HIDE DEF N
  <2>3. 0 \in P
    BY <1>7, <1>15, <2>2
  <2>4. ASSUME NEW i \in 1 .. N, i - 1 \in P PROVE i \in P
    <3>1. <<i - 1, walk[i - 1]>> \in Y
      BY <2>4
    <3>2. walk[i - 1] \in WalkType
      <4> DEFINE q == <<i - 1, walk[i - 1]>>
      <4>1. q \in Y /\ q[2] = walk[i - 1]
        BY <3>1
      <4> HIDE DEF q
      <4> QED BY <1>5, <4>1
    <3>3. <<i, Visited(walk[i - 1], rcrtcs[i], t)>> \in Y
      BY <1>4, <3>1, <3>2
    <3> QED BY <1>15, <2>1, <3>3
  <2> QED BY <2>3, <2>4
<1>17. \A i \in 0 .. N : i \in P
  <2> HIDE DEF P, N
  <2> QED BY <1>1, <1>16, LoopKeeps
<1>18. N \in P
  <2>1. N \in 0 .. N
    BY <1>1
  <2> HIDE DEF P, N
  <2> QED BY <1>17, <2>1
<1> QED BY <1>14, <1>18

LEMMA WalkedIs ==
  ASSUME RcrtInv, NEW t PROVE Passed(Len(rcrtcs), Walked(t), t)
<1> DEFINE N == Len(rcrtcs)
           w0 == [cs |-> <<>>, g |-> rates, skip |-> FALSE]
           Y == {q \in (0 .. N) \X WalkType : Passed(q[1], q[2], t)}
<1>1. N \in Nat /\ rates \in TotalsType /\ rates.N = N
  BY DEF RcrtInv, ListOK
<1>2. w0 \in WalkType /\ Passed(0, w0, t)
  <2>1. w0 \in WalkType
    BY <1>1 DEF WalkType
  <2>2. 1 .. 0 = {} /\ Len(w0.cs) = 0 /\ w0.g.N = rates.N - 0 + 0
    BY <1>1
  <2> QED BY <2>1, <2>2 DEF Passed
<1>3. ASSUME NEW i \in 1 .. N, NEW w \in WalkType, <<i - 1, w>> \in Y
      PROVE  <<i, Visited(w, rcrtcs[i], t)>> \in Y
  <2>1. Passed(i - 1, w, t)
    BY <1>3
  <2>2. Passed(i, Visited(w, rcrtcs[i], t), t)
    BY <2>1, VisitedIs
  <2>3. Visited(w, rcrtcs[i], t) \in WalkType /\ i \in 0 .. N
    BY <1>1, <2>2 DEF Passed
  <2> QED BY <2>2, <2>3
<1>4. <<0, w0>> \in Y
  <2>1. 0 \in 0 .. N
    BY <1>1
  <2> HIDE DEF w0
  <2> QED BY <1>2, <2>1
<1>5. Y \in SUBSET ((0 .. N) \X WalkType)
  OBVIOUS
<1>6. <<N, Walked(t)>> \in Y
  <2> HIDE DEF Y
  <2> QED BY <1>3, <1>4, <1>5, WalkKeeps
<1> QED BY <1>6

LEMMA CloseKeeps == ASSUME RcrtInv, NEW t \in Tids, ClientClose(t) PROVE RcrtInv'
<1> DEFINE w == Walked(t)
           td == IF TidAlive(w.cs, t) THEN "CLOSE" ELSE "NONE"
           b == [tids EXCEPT ![t] = td]
<1>1. /\ Regular(budget) /\ HistoryType(top, finAt, delivered, tids)
      /\ ListOK(rcrtcs, top, finAt, delivered, tids, budget) /\ ChasedBut(rcrtcs, 0)
      /\ PastOK(rcrtcs, top, finAt, delivered, tids) /\ rates \in TotalsType /\ rates.N = Len(rcrtcs)
      /\ crashed \in BOOLEAN /\ calls \in [Keys -> Nat]
  BY DEF RcrtInv
<1>2. /\ \/ crashed' = TRUE /\ UNCHANGED <<rcrtcs, rates, tids>>
         \/ rcrtcs' = w.cs /\ rates' = w.g /\ tids' = b /\ UNCHANGED crashed
      /\ UNCHANGED <<top, finAt, delivered, calls, budget>>
  BY DEF ClientClose, netVars, appVars
<1>3. CASE crashed' = TRUE /\ UNCHANGED <<rcrtcs, rates, tids>>
  BY <1>1, <1>2, <1>3 DEF RcrtInv
<1>4. CASE rcrtcs' = w.cs /\ rates' = w.g /\ tids' = b /\ UNCHANGED crashed
  <2>1. Passed(Len(rcrtcs), w, t)
    BY WalkedIs
  <2> HIDE DEF w, td
  <2>2. /\ w \in WalkType /\ w.g.N = (rates.N - Len(rcrtcs)) + Len(w.cs)
        /\ \A j \in 1 .. Len(w.cs) : \E m \in 1 .. Len(rcrtcs) : Stays(rcrtcs[m], w.cs[j], t)
        /\ \A j, m \in 1 .. Len(w.cs) : j # m => w.cs[j].key # w.cs[m].key
        /\ \A m \in 1 .. Len(rcrtcs) : rcrtcs[m].key[1] # t => Listed(w.cs, rcrtcs[m].key)
    BY <2>1 DEF Passed
  <2>3. w.cs \in Seq(Conn) /\ w.g \in TotalsType
    BY <2>2 DEF WalkType
  <2>4. w.g.N = Len(w.cs)
    BY <1>1, <2>2, <2>3 DEF TotalsType
  <2>5. td \in {"NONE", "CLOSE"}
    BY DEF td
  <2>6. /\ b \in [Tids -> {"NONE", "TASK", "CLOSE"}] /\ b[t] # "TASK"
        /\ \A j \in Tids : b[j] = "TASK" => j # t /\ tids[j] = "TASK"
        /\ \A j \in Tids : j # t => b[j] = tids[j]
    BY <1>1, <2>5 DEF HistoryType
  <2> HIDE DEF b
  <2>7. HistoryType(top, finAt, delivered, b)
    BY <1>1, <2>6 DEF HistoryType
  <2>8. ASSUME NEW j \in 1 .. Len(w.cs)
        PROVE  /\ EntryOK(w.cs[j], top, finAt, delivered, b, budget)
               /\ w.cs[j].missing # {} => w.cs[j].state # "ACTIVE" /\ w.cs[j].alarm # "off"
    <3>1. PICK m \in 1 .. Len(rcrtcs) : Stays(rcrtcs[m], w.cs[j], t)
      BY <2>2
    <3> DEFINE c == rcrtcs[m]
               d == w.cs[j]
    <3>2. /\ c \in Conn /\ EntryOK(c, top, finAt, delivered, tids, budget)
          /\ c.missing # {} => c.state # "ACTIVE" /\ c.alarm # "off"
      BY <1>1 DEF ListOK, ChasedBut
    <3>3. d = c \/ (c.key[1] = t /\ d = Marked(c))
      BY <3>1 DEF Stays
    <3> HIDE DEF c, d
    <3>4. c.key[1] \in Tids
      <4>1. c.key \in Tids \X Addrs
        BY <3>2 DEF Conn, Keys
      <4> QED BY <4>1
    <3>5. CASE d = c
      <4>1. EntryOK(d, top, finAt, delivered, b, budget)
        BY <2>6, <3>2, <3>4, <3>5 DEF EntryOK
      <4> QED BY <3>2, <3>5, <4>1 DEF d
    <3>6. CASE c.key[1] = t /\ d = Marked(c)
      <4>1. SameStream(c, d) /\ d.state = c.state /\ d.deletePending /\ d.alarm # "off"
        BY <3>2, <3>6, MarkedIs
      <4>2. StreamOK(d, top[c.key], finAt[c.key], delivered[c.key], budget)
        BY <3>2, <4>1, StreamKept DEF EntryOK
      <4>3. EntryOK(d, top, finAt, delivered, b, budget)
        BY <2>6, <3>6, <4>1, <4>2 DEF EntryOK, SameStream
      <4>4. d.missing # {} => d.state # "ACTIVE" /\ d.alarm # "off"
        BY <3>2, <4>1 DEF SameStream
      <4> QED BY <4>3, <4>4 DEF d
    <3> QED BY <3>3, <3>5, <3>6
  <2>9. ListOK(w.cs, top, finAt, delivered, b, budget) /\ ChasedBut(w.cs, 0)
    BY <2>2, <2>3, <2>8 DEF ListOK, ChasedBut
  <2>10. PastOK(w.cs, top, finAt, delivered, b)
    <3> SUFFICES ASSUME NEW k \in Keys, ~Listed(w.cs, k), finAt[k] # 0, b[k[1]] = "TASK"
                 PROVE  Finished(top[k], finAt[k], delivered[k])
      BY DEF PastOK
    <3>1. k[1] \in Tids
      BY DEF Keys
    <3>2. k[1] # t /\ tids[k[1]] = "TASK"
      BY <2>6, <3>1
    <3>3. ASSUME Listed(rcrtcs, k) PROVE FALSE
      <4>1. PICK m \in 1 .. Len(rcrtcs) : rcrtcs[m].key = k
        BY <3>3 DEF Listed
      <4> HIDE DEF Listed
      <4>2. Listed(w.cs, k)
        BY <2>2, <3>2, <4>1
      <4> QED BY <4>2
    <3> QED BY <1>1, <3>2, <3>3 DEF PastOK
  <2> QED BY <1>1, <1>2, <1>4, <2>3, <2>4, <2>7, <2>9, <2>10 DEF RcrtInv
<1> QED BY <1>2, <1>3, <1>4

-----------------------------------------------------------------------------
(* The theorems.                                                             *)

LEMMA InitKeeps == Init => RcrtInv
<1> SUFFICES ASSUME Init PROVE RcrtInv
  OBVIOUS
<1>1. /\ budget \in Budgets /\ rcrtcs = <<>> /\ rates = NoRates /\ crashed = FALSE
      /\ tids = [t \in Tids |-> "TASK"]
      /\ top = [k \in Keys |-> 0] /\ finAt = [k \in Keys |-> 0]
      /\ delivered = [k \in Keys |-> {}] /\ calls = [k \in Keys |-> 0]
  BY DEF Init
<1>2. Regular(budget)
  BY <1>1, RcrtAssumption, LagAssumption DEF Regular, Short
<1>3. HistoryType(top, finAt, delivered, tids)
  <2>1. 0 \in 0 .. MaxIndex + 1
    BY RcrtAssumption
  <2> QED BY <1>1, <2>1 DEF HistoryType
<1>4. rcrtcs \in Seq(Conn) /\ Len(rcrtcs) = 0 /\ 1 .. Len(rcrtcs) = {}
  BY <1>1
<1>5. /\ ListOK(rcrtcs, top, finAt, delivered, tids, budget) /\ ChasedBut(rcrtcs, 0)
      /\ PastOK(rcrtcs, top, finAt, delivered, tids)
  BY <1>1, <1>4 DEF ListOK, ChasedBut, PastOK
<1>6. rates \in TotalsType /\ rates.N = 0
  <2>1. 100 \in 0 .. 100 /\ 0 \in Int
    OBVIOUS
  <2> QED BY <1>1, <2>1 DEF NoRates, TotalsType
<1> QED BY <1>1, <1>2, <1>3, <1>4, <1>5, <1>6 DEF RcrtInv

\* The promise counts as the transport does.
LEMMA SameCardinality == ASSUME NEW S PROVE Promise!Cardinality(S) = Cardinality(S)
BY DEF Promise!Cardinality, Cardinality, Promise!IsFiniteSet, IsFiniteSet

\* What a step hands up is what the promise allows.
LEMMA HandsUpIs ==
  ASSUME RcrtInv, NEW k \in Keys, NEW S, NEW u, HandsUp(k, S, u) PROVE Promise!Next
<1>1. /\ top \in [Keys -> 0 .. MaxIndex + 1] /\ delivered \in [Keys -> SUBSET Index] /\ calls \in [Keys -> Nat]
  BY DEF RcrtInv, HistoryType
<1>2. /\ delivered'[k] = delivered[k] \cup S /\ calls'[k] = calls[k] + Cardinality(S) /\ top'[k] = u
      /\ \A j \in Keys \ {k} : top'[j] = top[j] /\ delivered'[j] = delivered[j] /\ calls'[j] = calls[j]
  BY <1>1 DEF HandsUp
<1>3. delivered'[k] \ delivered[k] = S
  BY <1>2 DEF HandsUp
<1>4. Promise!HandOver(k, S)
  BY <1>2, SameCardinality DEF HandsUp, Promise!HandOver
<1>5. \A j \in Keys \ {k} : Promise!Untouched(j)
  BY <1>2 DEF Promise!Untouched
<1> QED BY <1>3, <1>4, <1>5 DEF Promise!Next

\* Every step keeps the invariant and is one that the promise allows.
LEMMA StepKeeps ==
  ASSUME RcrtInv, [Next]_vars PROVE RcrtInv' /\ [Promise!Next]_(Promise!vars)
<1>1. ASSUME UNCHANGED <<top, delivered, calls>> PROVE [Promise!Next]_(Promise!vars)
  BY <1>1 DEF Promise!vars
<1>2. ASSUME NEW k \in Keys, ReceiveSYN(k) PROVE RcrtInv' /\ [Promise!Next]_(Promise!vars)
  BY <1>1, <1>2, SYNKeeps DEF ReceiveSYN, netVars, appVars
<1>3. ASSUME NEW k \in Keys, NEW n \in 1 .. (budget.newest + 1), ReceiveFIN(k, n)
      PROVE  RcrtInv' /\ Promise!Next
  <2>1. /\ top' = [top EXCEPT ![k] = n] /\ UNCHANGED <<delivered, calls>>
        /\ IF finAt[k] # 0 THEN n = finAt[k] ELSE n > top[k]
    BY <1>3 DEF ReceiveFIN, appVars
  <2>2. top[k] <= n /\ calls \in [Keys -> Nat] /\ delivered \in [Keys -> SUBSET Index]
    <3>1. top[k] \in 0 .. MaxIndex + 1 /\ (finAt[k] # 0 => top[k] = finAt[k])
      BY DEF RcrtInv, HistoryType
    <3>2. Regular(budget)
      BY DEF RcrtInv
    <3>3. budget.newest \in Nat
      BY <3>2, ScenarioIs
    <3>4. top[k] <= n
      BY <2>1, <3>1, <3>3, RcrtAssumption
    <3> QED BY <3>4 DEF RcrtInv, HistoryType
  <2>3. Cardinality({}) = 0
    BY FS_EmptySet
  <2>4. /\ delivered' = [delivered EXCEPT ![k] = delivered[k] \cup {}]
        /\ calls' = [calls EXCEPT ![k] = calls[k] + Cardinality({})]
    BY <2>1, <2>2, <2>3
  <2>5. HandsUp(k, {}, n)
    BY <2>1, <2>2, <2>4 DEF HandsUp
  <2> QED BY <1>3, <2>5, FINKeeps, HandsUpIs
<1>4. ASSUME NEW k \in Keys, NEW n \in 1 .. budget.newest, NEW retx \in BOOLEAN, NEW asked \in BOOLEAN,
             ReceiveData(k, n, retx, asked)
      PROVE  RcrtInv' /\ [Promise!Next]_(Promise!vars)
  <2>1. RcrtInv' /\ (UNCHANGED vars \/ \E S : HandsUp(k, S, Newest(top[k], n)))
    BY <1>4, DataKeeps
  <2>2. CASE UNCHANGED vars
    BY <1>1, <2>1, <2>2 DEF vars
  <2>3. CASE \E S : HandsUp(k, S, Newest(top[k], n))
    BY <2>1, <2>3, HandsUpIs
  <2> QED BY <2>1, <2>2, <2>3
<1>5. ASSUME NEW k \in Keys, Expire(k) PROVE RcrtInv' /\ [Promise!Next]_(Promise!vars)
  BY <1>1, <1>5, ExpireKeeps DEF Expire, netVars, appVars
<1>6. ASSUME NEW k \in Keys, Fires(k) PROVE RcrtInv' /\ [Promise!Next]_(Promise!vars)
  BY <1>1, <1>6, FiresKeeps DEF Fires, netVars, appVars
<1>7. ASSUME NEW t \in Tids, ClientClose(t) PROVE RcrtInv' /\ [Promise!Next]_(Promise!vars)
  BY <1>1, <1>7, CloseKeeps DEF ClientClose, netVars, appVars
<1>8. CASE UNCHANGED vars
  BY <1>1, <1>8 DEF vars, RcrtInv
<1>9. ASSUME NEW k \in Keys, Receive(k) PROVE RcrtInv' /\ [Promise!Next]_(Promise!vars)
  BY <1>2, <1>3, <1>4, <1>9 DEF Receive
<1> QED BY <1>5, <1>6, <1>7, <1>8, <1>9 DEF Next

\* The invariant of the connections holds for every value of the constants.
LEMMA RcrtInvHolds == Spec => []RcrtInv
<1>1. RcrtInv /\ [Next]_vars => RcrtInv'
  BY StepKeeps
<1> QED BY <1>1, InitKeeps, PTL DEF Spec

LEMMA TypesAre == RcrtInv => TypeOK
<1> SUFFICES ASSUME RcrtInv PROVE TypeOK
  OBVIOUS
<1>1. /\ HistoryType(top, finAt, delivered, tids)
      /\ rcrtcs \in Seq(Conn) /\ DOMAIN rcrtcs = 1 .. Len(rcrtcs) /\ Len(rcrtcs) \in Nat
      /\ \A i, j \in 1 .. Len(rcrtcs) : i # j => rcrtcs[i].key # rcrtcs[j].key
      /\ rates \in TotalsType /\ rates.N = Len(rcrtcs) /\ crashed \in BOOLEAN /\ calls \in [Keys -> Nat]
  BY DEF RcrtInv, ListOK
<1>2. IsFiniteSet(Keys)
  BY RcrtAssumption, FS_Product DEF Keys
<1>3. Cardinality(Keys) \in Nat
  BY <1>2, FS_CardinalityType
<1>4. IsFiniteSet(1 .. Len(rcrtcs)) /\ Cardinality(1 .. Len(rcrtcs)) = Len(rcrtcs)
  <2> DEFINE N == Len(rcrtcs)
  <2>1. 1 \in Int /\ N \in Int /\ N \in Nat
    BY <1>1
  <2> HIDE DEF N
  <2>2. IsFiniteSet(1 .. N) /\ Cardinality(1 .. N) = IF 1 > N THEN 0 ELSE N - 1 + 1
    BY <2>1, FS_Interval
  <2>3. Cardinality(1 .. N) = N
    BY <2>1, <2>2
  <2> QED BY <2>2, <2>3 DEF N
<1>5. ASSUME Cardinality(Keys) < Cardinality(1 .. Len(rcrtcs)) PROVE FALSE
  <2> DEFINE f == [i \in 1 .. Len(rcrtcs) |-> rcrtcs[i].key]
  <2>1. f \in [1 .. Len(rcrtcs) -> Keys]
    <3>1. ASSUME NEW i \in 1 .. Len(rcrtcs) PROVE rcrtcs[i].key \in Keys
      <4>1. rcrtcs[i] \in Conn
        BY <1>1
      <4> QED BY <4>1 DEF Conn
    <3> QED BY <3>1
  <2> HIDE DEF f
  <2>2. \E i, j \in 1 .. Len(rcrtcs) : i # j /\ f[i] = f[j]
    BY <1>2, <1>4, <1>5, <2>1, FS_PigeonHole
  <2> QED BY <1>1, <2>2 DEF f
<1>6. Len(rcrtcs) <= Cardinality(Keys)
  BY <1>1, <1>3, <1>4, <1>5
<1>7. \A i \in DOMAIN rcrtcs : rcrtcs[i] \in Conn
  BY <1>1
<1>8. rates.N \in Nat /\ rates.D \in Int /\ rates.R \in Int /\ rates.lastp \in 0 .. 100
  BY <1>1 DEF TotalsType
<1> QED BY <1>1, <1>6, <1>7, <1>8 DEF TypeOK, HistoryType

\* Nothing that did not arrive is forgotten, and what is missing is asked for: every path
\* that finds a gap sets the alarm (rcrtransport.c:911-942, :1084-1415), the connections that
\* the walk of rcrtransport_delete_tid leaves keep theirs (:1639-1676), and a connection
\* goes only when nothing is missing or its task was closed.
THEOREM GapsAreChasedHolds == Spec => []GapsAreChased
<1>1. RcrtInv => NothingForgotten
  <2> SUFFICES ASSUME RcrtInv, NEW k \in Keys, IsOpen(k) \/ (finAt[k] # 0 /\ tids[k[1]] = "TASK"),
                      NEW n \in 1 .. top[k]
               PROVE  \/ n \in delivered[k] \cup {finAt[k]}
                      \/ IsOpen(k) /\ (n \in ConnOf(k).plist \/ SeqOf(n) \in ConnOf(k).missing)
                      \/ n + TR_VALID_RANGE <= top[k]
                      \/ ~IsOpen(k) /\ \E m \in 1 .. n - 1 : m + TR_VALID_RANGE <= top[k] /\ m \notin delivered[k]
    BY DEF NothingForgotten
  <2>1. CASE IsOpen(k)
    <3>1. At(k) \in 1 .. Len(rcrtcs) /\ ConnOf(k) = rcrtcs[At(k)] /\ rcrtcs[At(k)].key = k
      BY <2>1, OpenIs
    <3>2. EntryOK(ConnOf(k), top, finAt, delivered, tids, budget) /\ ConnOf(k).key = k
      BY <3>1 DEF RcrtInv, ListOK
    <3>3. Accounted(ConnOf(k).plist, ConnOf(k).missing, top[k], finAt[k], delivered[k])
      BY <3>2 DEF EntryOK, StreamOK
    <3> QED BY <2>1, <3>3 DEF Accounted
  <2>2. CASE ~IsOpen(k)
    <3>1. ~Listed(rcrtcs, k) /\ PastOK(rcrtcs, top, finAt, delivered, tids)
      BY <2>2, OpenIs DEF RcrtInv
    <3>2. Finished(top[k], finAt[k], delivered[k])
      BY <2>2, <3>1 DEF PastOK
    <3> QED BY <2>2, <3>2 DEF Finished
  <2> QED BY <2>1, <2>2
<1>2. RcrtInv => MissingIsChased
  <2> SUFFICES ASSUME RcrtInv, NEW i \in DOMAIN rcrtcs, rcrtcs[i].missing # {}
               PROVE  rcrtcs[i].state # "ACTIVE" /\ rcrtcs[i].alarm # "off"
    BY DEF MissingIsChased
  <2>1. i \in 1 .. Len(rcrtcs) /\ i # 0 /\ ChasedBut(rcrtcs, 0)
    BY DEF RcrtInv, ListOK
  <2> QED BY <2>1 DEF ChasedBut
<1>3. RcrtInv => GapsAreChased
  BY <1>1, <1>2, TypesAre DEF GapsAreChased
<1> QED BY <1>3, RcrtInvHolds, PTL

\* The master implements the promise of InOrderStream on a rate-controlled connection,
\* too (receive_rtr_msg, rcrtransport.c:944-1019).
THEOREM DeliversInOrderHolds == Spec => DeliversInOrder
<1>1. Init => Promise!Init
  BY DEF Init, Promise!Init
<1>2. RcrtInv /\ [Next]_vars => [Promise!Next]_(Promise!vars)
  BY StepKeeps
<1> QED BY <1>1, <1>2, RcrtInvHolds, PTL DEF Spec, DeliversInOrder, Promise!Spec

-----------------------------------------------------------------------------
(* Sums.                                                                     *)

\* List ys is xs without number i.
Lacks(xs, i, ys) ==
  /\ i \in 1 .. Len(xs) /\ Len(ys) = Len(xs) - 1
  /\ \A j \in 1 .. Len(ys) : ys[j] = IF j < i THEN xs[j] ELSE xs[j + 1]

\* The sum of a list without one of its numbers.
LEMMA TotalLess ==
  ASSUME NEW xs \in Seq(Int), NEW ys \in Seq(Int), NEW i, Lacks(xs, i, ys)
  PROVE  Total(xs) = Total(ys) + xs[i]
<1>1. PICK g : Sums(xs, g) /\ Total(xs) = g[Len(xs)]
  BY TotalIs
<1>2. PICK h : Sums(ys, h) /\ Total(ys) = h[Len(ys)]
  BY TotalIs
<1> DEFINE M == Len(ys)
           P == {j \in 0 .. M : h[j] = IF j < i THEN g[j] ELSE g[j + 1] - xs[i]}
<1>3. M \in Nat /\ Len(xs) = M + 1 /\ i \in 1 .. (M + 1) /\ i \in Nat /\ xs[i] \in Int
  BY DEF Lacks
<1>4. /\ h[0] = 0 /\ g[0] = 0
      /\ \A j \in 0 .. M : h[j] \in Int
      /\ \A j \in 0 .. (M + 1) : g[j] \in Int
      /\ \A j \in 1 .. M : h[j] = h[j - 1] + ys[j] /\ ys[j] \in Int
      /\ \A j \in 1 .. (M + 1) : g[j] = g[j - 1] + xs[j] /\ xs[j] \in Int
  <2>1. /\ g \in [0 .. Len(xs) -> Int] /\ g[0] = 0 /\ \A j \in 1 .. Len(xs) : g[j] = g[j - 1] + xs[j]
        /\ h \in [0 .. M -> Int] /\ h[0] = 0 /\ \A j \in 1 .. M : h[j] = h[j - 1] + ys[j]
    BY <1>1, <1>2 DEF Sums
  <2>2. \A j \in 1 .. M : ys[j] \in Int
    OBVIOUS
  <2>3. \A j \in 1 .. Len(xs) : xs[j] \in Int
    OBVIOUS
  <2> HIDE DEF M
  <2> QED BY <1>3, <2>1, <2>2, <2>3
<1>4a. \A j \in 1 .. M : ys[j] = IF j < i THEN xs[j] ELSE xs[j + 1]
  BY DEF Lacks
<1> HIDE DEF M
<1>5. 0 \in P
  <2>1. 0 \in 0 .. M /\ 1 \in 1 .. (M + 1)
    BY <1>3
  <2>2. CASE i = 1
    BY <1>3, <1>4, <2>1, <2>2
  <2>3. CASE i # 1
    <3>1. 0 < i
      BY <1>3
    <3> QED BY <1>4, <2>1, <3>1
  <2> QED BY <2>2, <2>3
<1>6. ASSUME NEW j \in 1 .. M, j - 1 \in P PROVE j \in P
  <2>1. /\ j \in 0 .. M /\ j - 1 \in 0 .. M /\ j \in 1 .. (M + 1) /\ j + 1 \in 1 .. (M + 1) /\ (j + 1) - 1 = j
        /\ (j - 1) + 1 = j
    BY <1>3
  <2>2. /\ h[j] = h[j - 1] + ys[j] /\ g[j] = g[j - 1] + xs[j] /\ g[j + 1] = g[j] + xs[j + 1]
        /\ ys[j] = IF j < i THEN xs[j] ELSE xs[j + 1]
        /\ h[j - 1] = IF j - 1 < i THEN g[j - 1] ELSE g[j] - xs[i]
        /\ g[j] \in Int /\ g[j + 1] \in Int /\ g[j - 1] \in Int /\ xs[j + 1] \in Int /\ xs[j] \in Int
    <3>1. h[j - 1] = IF j - 1 < i THEN g[j - 1] ELSE g[(j - 1) + 1] - xs[i]
      BY <1>6
    <3>2. h[j] = h[j - 1] + ys[j] /\ ys[j] = IF j < i THEN xs[j] ELSE xs[j + 1]
      BY <1>4, <1>4a
    <3>3. /\ g[j] = g[j - 1] + xs[j] /\ g[j] \in Int /\ g[j - 1] \in Int /\ xs[j] \in Int
      <4>1. j - 1 \in 0 .. (M + 1) /\ j \in 0 .. (M + 1)
        BY <1>3, <2>1
      <4> QED BY <1>4, <2>1, <4>1
    <3>4. /\ g[j + 1] = g[(j + 1) - 1] + xs[j + 1] /\ g[j + 1] \in Int /\ xs[j + 1] \in Int
      BY <1>4, <2>1
    <3> QED BY <2>1, <3>1, <3>2, <3>3, <3>4
  <2> HIDE DEF P
  <2>3. h[j] = IF j < i THEN g[j] ELSE g[j + 1] - xs[i]
    <3>1. CASE j < i
      <4>1. j - 1 < i
        BY <1>3, <2>1, <3>1
      <4> QED BY <2>2, <3>1, <4>1
    <3>2. CASE j = i
      <4>1. j - 1 < i /\ ~(j < i) /\ xs[i] = xs[j]
        BY <1>3, <2>1, <3>2
      <4> DEFINE a == g[j - 1]
                 x == xs[j]
                 y == xs[j + 1]
      <4>2. h[j] = a + y /\ g[j + 1] = (a + x) + y
        BY <2>2, <4>1
      <4>3. a \in Int /\ x \in Int /\ y \in Int
        BY <2>2
      <4> HIDE DEF a, x, y
      <4>4. h[j] = g[j + 1] - x
        BY <4>2, <4>3
      <4> QED BY <4>1, <4>4 DEF x
    <3>3. CASE j > i
      <4>1. ~(j - 1 < i) /\ ~(j < i)
        BY <1>3, <2>1, <3>3
      <4> DEFINE a == g[j]
                 b == g[j + 1]
                 x == xs[i]
                 y == xs[j + 1]
      <4>2. h[j - 1] = a - x /\ b = a + y /\ h[j] = (a - x) + y
        BY <2>2, <4>1
      <4>3. a \in Int /\ b \in Int /\ x \in Int /\ y \in Int
        BY <1>3, <2>2
      <4> HIDE DEF a, b, x, y
      <4>4. h[j] = b - x
        BY <4>2, <4>3
      <4> QED BY <4>1, <4>4 DEF b, x
    <3> QED BY <1>3, <2>1, <3>1, <3>2, <3>3
  <2> QED BY <2>1, <2>3 DEF P
<1>7. \A j \in 0 .. M : j \in P
  <2> HIDE DEF P
  <2> QED BY <1>3, <1>5, <1>6, LoopKeeps
<1>8. h[M] = IF M < i THEN g[M] ELSE g[M + 1] - xs[i]
  <2>1. M \in 0 .. M
    BY <1>3
  <2> QED BY <1>7, <2>1
<1>9. g[M + 1] = g[M] + xs[M + 1] /\ g[M] \in Int /\ g[M + 1] \in Int
  <2>1. M + 1 \in 1 .. (M + 1) /\ M \in 0 .. (M + 1) /\ (M + 1) - 1 = M
    BY <1>3
  <2> QED BY <1>4, <2>1
<1>10. Total(xs) = g[M + 1] /\ Total(ys) = h[M]
  BY <1>1, <1>2, <1>3 DEF M
<1>11. CASE M < i
  <2>1. i = M + 1
    BY <1>3, <1>11
  <2> QED BY <1>3, <1>8, <1>9, <1>10, <1>11, <2>1
<1>12. CASE ~(M < i)
  BY <1>3, <1>8, <1>9, <1>10, <1>12
<1> QED BY <1>11, <1>12

\* What the connections ask for.
Wants(cs) == [i \in DOMAIN cs |-> Desired(cs[i])]

LEMMA WantsIs ==
  ASSUME NEW cs \in Seq(Conn)
  PROVE  /\ Wants(cs) \in Seq(Int) /\ Len(Wants(cs)) = Len(cs)
         /\ \A i \in 1 .. Len(cs) : Wants(cs)[i] = Desired(cs[i])
<1> DEFINE N == Len(cs)
           xs == [i \in 1 .. N |-> Desired(cs[i])]
<1>1. N \in Nat /\ DOMAIN cs = 1 .. N
  OBVIOUS
<1>2. Wants(cs) = xs
  BY <1>1 DEF Wants
<1>3. \A i \in 1 .. N : Desired(cs[i]) \in Int
  BY RatesOf
<1>4. xs \in Seq(Int) /\ Len(xs) = N /\ \A i \in 1 .. N : xs[i] = Desired(cs[i])
  <2> HIDE DEF N
  <2> QED BY <1>1, <1>3
<1> QED BY <1>2, <1>4

\* Connections that ask for the same.
SameWants(cs, ds) == Len(ds) = Len(cs) /\ \A i \in 1 .. Len(cs) : ds[i].req = cs[i].req

LEMMA WantsSame ==
  ASSUME NEW cs \in Seq(Conn), NEW ds \in Seq(Conn), SameWants(cs, ds)
  PROVE  Wants(ds) = Wants(cs)
<1>1. DOMAIN cs = 1 .. Len(cs) /\ DOMAIN ds = 1 .. Len(cs)
  BY DEF SameWants
<1> QED BY <1>1 DEF SameWants, Wants, Desired

LEMMA WantsWithout ==
  ASSUME NEW cs \in Seq(Conn), NEW i \in 1 .. Len(cs), NEW ds, ds = Without(cs, i)
  PROVE  Total(Wants(cs)) = Total(Wants(ds)) + Desired(cs[i])
<1>1. /\ ds \in Seq(Conn) /\ Len(ds) = Len(cs) - 1
      /\ \A j \in 1 .. Len(ds) : ds[j] = IF j < i THEN cs[j] ELSE cs[j + 1]
  BY WithoutIs
<1> DEFINE xs == Wants(cs)
           ys == Wants(ds)
<1>2. /\ xs \in Seq(Int) /\ Len(xs) = Len(cs) /\ ys \in Seq(Int) /\ Len(ys) = Len(ds)
      /\ \A j \in 1 .. Len(cs) : xs[j] = Desired(cs[j])
      /\ \A j \in 1 .. Len(ds) : ys[j] = Desired(ds[j])
  BY <1>1, WantsIs
<1>3. \A j \in 1 .. Len(ys) : ys[j] = IF j < i THEN xs[j] ELSE xs[j + 1]
  <2>1. ASSUME NEW j \in 1 .. Len(ys) PROVE ys[j] = IF j < i THEN xs[j] ELSE xs[j + 1]
    <3>1. j \in 1 .. Len(ds) /\ j \in 1 .. Len(cs) /\ j + 1 \in 1 .. Len(cs)
      <4>1. Len(cs) \in Nat /\ Len(ds) = Len(cs) - 1 /\ Len(ys) = Len(ds)
        BY <1>1, <1>2
      <4> HIDE DEF ys
      <4>2. j \in 1 .. (Len(cs) - 1)
        BY <4>1
      <4> QED BY <4>1, <4>2
    <3> HIDE DEF xs, ys
    <3> QED BY <1>1, <1>2, <3>1
  <2> QED BY <2>1
<1>4. i \in 1 .. Len(xs) /\ Len(ys) = Len(xs) - 1
  BY <1>1, <1>2
<1> HIDE DEF xs, ys
<1>5. Total(xs) = Total(ys) + xs[i]
  <2>1. Lacks(xs, i, ys)
    BY <1>3, <1>4 DEF Lacks
  <2> QED BY <1>2, <2>1, TotalLess
<1> QED BY <1>2, <1>5 DEF xs, ys

\* A connection more.
LEMMA WantsPushed ==
  ASSUME NEW cs \in Seq(Conn), NEW c \in Conn, NEW ds, ds = <<c>> \o cs
  PROVE  Total(Wants(ds)) = Total(Wants(cs)) + Desired(c)
<1>1. /\ ds \in Seq(Conn) /\ Len(ds) = Len(cs) + 1 /\ ds[1] = c
      /\ \A j \in 1 .. Len(ds) : j # 1 => j - 1 \in 1 .. Len(cs) /\ ds[j] = cs[j - 1]
  BY PushedIs
<1> DEFINE xs == Wants(ds)
           ys == Wants(cs)
<1>2. /\ xs \in Seq(Int) /\ Len(xs) = Len(ds) /\ ys \in Seq(Int) /\ Len(ys) = Len(cs)
      /\ \A j \in 1 .. Len(cs) : ys[j] = Desired(cs[j])
      /\ \A j \in 1 .. Len(ds) : xs[j] = Desired(ds[j])
  BY <1>1, WantsIs
<1>3. Len(cs) \in Nat
  OBVIOUS
<1> HIDE DEF xs, ys
<1>4. \A j \in 1 .. Len(ys) : ys[j] = IF j < 1 THEN xs[j] ELSE xs[j + 1]
  <2>1. ASSUME NEW j \in 1 .. Len(cs) PROVE ys[j] = xs[j + 1] /\ ~(j < 1)
    <3>1. j + 1 \in 1 .. Len(ds) /\ j + 1 # 1 /\ (j + 1) - 1 = j
      BY <1>1, <1>3
    <3>2. ds[j + 1] = cs[j]
      BY <1>1, <3>1
    <3>3. xs[j + 1] = Desired(ds[j + 1]) /\ ys[j] = Desired(cs[j])
      BY <1>2, <3>1
    <3>4. ~(j < 1)
      OBVIOUS
    <3> QED BY <3>2, <3>3, <3>4
  <2> QED BY <1>2, <2>1
<1>5. 1 \in 1 .. Len(xs) /\ Len(ys) = Len(xs) - 1 /\ xs[1] = Desired(c)
  BY <1>1, <1>2, <1>3
<1>6. Total(xs) = Total(ys) + xs[1]
  <2>1. Lacks(xs, 1, ys)
    BY <1>4, <1>5 DEF Lacks
  <2> QED BY <1>2, <2>1, TotalLess
<1> QED BY <1>5, <1>6 DEF xs, ys

LEMMA WantsAppended ==
  ASSUME NEW cs \in Seq(Conn), NEW c \in Conn, NEW ds, ds = Append(cs, c)
  PROVE  Total(Wants(ds)) = Total(Wants(cs)) + Desired(c)
<1>1. /\ ds \in Seq(Conn) /\ Len(ds) = Len(cs) + 1 /\ ds[Len(ds)] = c
      /\ \A j \in 1 .. Len(cs) : ds[j] = cs[j]
  OBVIOUS
<1> DEFINE xs == Wants(ds)
           ys == Wants(cs)
           n == Len(ds)
<1>2. /\ xs \in Seq(Int) /\ Len(xs) = n /\ ys \in Seq(Int) /\ Len(ys) = Len(cs)
      /\ \A j \in 1 .. Len(cs) : ys[j] = Desired(cs[j])
      /\ \A j \in 1 .. n : xs[j] = Desired(ds[j])
  BY <1>1, WantsIs
<1>3. Len(cs) \in Nat /\ n = Len(cs) + 1
  BY <1>1
<1> HIDE DEF xs, ys, n
<1>4. \A j \in 1 .. Len(ys) : ys[j] = IF j < n THEN xs[j] ELSE xs[j + 1]
  <2>1. ASSUME NEW j \in 1 .. Len(cs) PROVE ys[j] = xs[j] /\ j < n
    <3>1. j \in 1 .. n /\ j < n
      BY <1>3
    <3> QED BY <1>1, <1>2, <3>1
  <2> QED BY <1>2, <2>1
<1>5. n \in 1 .. Len(xs) /\ Len(ys) = Len(xs) - 1 /\ xs[n] = Desired(c)
  <2>1. n \in 1 .. n
    BY <1>3
  <2>2. ds[n] = c
    BY <1>1 DEF n
  <2> QED BY <1>2, <1>3, <2>1, <2>2
<1>6. Total(xs) = Total(ys) + xs[n]
  <2>1. Lacks(xs, n, ys)
    BY <1>4, <1>5 DEF Lacks
  <2> QED BY <1>2, <2>1, TotalLess
<1> QED BY <1>5, <1>6 DEF xs, ys

-----------------------------------------------------------------------------
(* No share exceeds what was asked for, but for the millisecond that is cut.   *)

\* Interval x is not shorter than req by more than one.
Respects(x, req) == x + 1 >= req

LEMMA QuotientIs ==
  ASSUME NEW a \in Nat, NEW b \in Nat, b > 0, NEW k \in Nat, k * b <= a
  PROVE  a \div b >= k
<1> DEFINE q == a \div b
           r == a % b
<1>1. q \in Nat /\ r \in Nat /\ r < b /\ a = b * q + r
  OBVIOUS
<1> HIDE DEF q, r
<1>2. ASSUME q < k PROVE FALSE
  <2>1. q + 1 <= k
    BY <1>1, <1>2
  <2>2. PICK m \in Nat : k = q + 1 + m
    <3>1. k - (q + 1) \in Nat
      BY <1>1, <2>1
    <3> QED BY <1>1, <3>1
  <2>3. k * b = q * b + b + m * b /\ m * b >= 0 /\ b * q = q * b
    BY <1>1, <2>2
  <2> QED BY <1>1, <2>3
<1> QED BY <1>1, <1>2 DEF q

LEMMA IntervalRespects ==
  ASSUME NEW a \in Nat, NEW b \in Nat, NEW req \in Interval, req * b <= a
  PROVE  Respects(IntervalOf(a, b), req)
<1>1. req \in Nat /\ req <= 65535
  BY DEF Interval
<1>2. CASE b = 0
  BY <1>1, <1>2 DEF IntervalOf, Respects
<1>3. CASE b # 0
  <2> DEFINE q == a \div b
  <2>1. b > 0
    BY <1>3
  <2>2. q >= req
    BY <1>1, <2>1, QuotientIs
  <2>3. q \in Nat
    BY <2>1
  <2>4. Ratio(a, b) = q
    BY <2>1 DEF Ratio, Quot
  <2> HIDE DEF q
  <2>5. PICK c \in Int : c = Cut(a, b) /\ c + 1 >= q
    BY <1>3, <2>4, CutIs
  <2>6. c + 1 >= req /\ (c >= 0 => c % 65536 = c \/ c >= 65534)
    BY <1>1, <2>2, <2>3, <2>5
  <2>7. ASSUME a > 0, a % b = 0 PROVE q >= 1
    <3>1. a = b * q + (a % b)
      BY <2>1 DEF q
    <3>2. q # 0
      BY <2>3, <2>7, <3>1
    <3> QED BY <2>3, <3>2
  <2>8. c >= 0
    BY <2>1, <2>3, <2>4, <2>5, <2>7 DEF Cut
  <2> QED BY <1>1, <1>3, <2>5, <2>6, <2>7, <2>8 DEF IntervalOf, Respects
<1> QED BY <1>2, <1>3

\* The sum of what those of S ask for.
OfThese(cs, S) == [i \in DOMAIN cs |-> IF i \in S THEN Desired(cs[i]) ELSE 0]
SumOf(cs, S) == Total(OfThese(cs, S))

LEMMA SumOfIs ==
  ASSUME NEW cs \in Seq(Conn), NEW S
  PROVE  \E h : /\ h \in [0 .. Len(cs) -> Int] /\ h[0] = 0 /\ SumOf(cs, S) = h[Len(cs)]
                /\ \A i \in 1 .. Len(cs) : h[i] = h[i - 1] + (IF i \in S THEN Desired(cs[i]) ELSE 0)
<1> DEFINE N == Len(cs)
           xs == [i \in 1 .. N |-> IF i \in S THEN Desired(cs[i]) ELSE 0]
<1>1. N \in Nat /\ DOMAIN cs = 1 .. N
  OBVIOUS
<1>2. \A i \in 1 .. N : xs[i] \in Int /\ xs[i] = IF i \in S THEN Desired(cs[i]) ELSE 0
  BY RatesOf
<1>3. xs \in Seq(Int) /\ Len(xs) = N
  <2> HIDE DEF N
  <2>1. \A i \in 1 .. N : xs[i] \in Int
    BY <1>2
  <2> QED BY <1>1, <2>1
<1>4. SumOf(cs, S) = Total(xs)
  BY <1>1 DEF SumOf, OfThese
<1> HIDE DEF xs
<1>5. PICK h : Sums(xs, h) /\ Total(xs) = h[Len(xs)]
  BY <1>3, TotalIs
<1>6. /\ h \in [0 .. N -> Int] /\ h[0] = 0 /\ SumOf(cs, S) = h[N]
      /\ \A i \in 1 .. N : h[i] = h[i - 1] + (IF i \in S THEN Desired(cs[i]) ELSE 0)
  BY <1>2, <1>3, <1>4, <1>5 DEF Sums
<1> QED BY <1>6

LEMMA SumOfType == ASSUME NEW cs \in Seq(Conn), NEW S PROVE SumOf(cs, S) \in Int
<1>1. PICK h : h \in [0 .. Len(cs) -> Int] /\ SumOf(cs, S) = h[Len(cs)]
  BY SumOfIs
<1>2. Len(cs) \in 0 .. Len(cs)
  <2>1. Len(cs) \in Nat
    OBVIOUS
  <2> QED BY <2>1
<1> QED BY <1>1, <1>2

\* What two groups ask for together.
LEMMA SumOfBoth ==
  ASSUME NEW cs \in Seq(Conn), NEW S, NEW T, S \cap T = {}
  PROVE  SumOf(cs, S \cup T) = SumOf(cs, S) + SumOf(cs, T)
<1> DEFINE N == Len(cs)
           d(i) == Desired(cs[i])
<1>1. N \in Nat /\ \A i \in 1 .. N : d(i) \in Int
  BY RatesOf
<1>2. PICK a : /\ a \in [0 .. N -> Int] /\ a[0] = 0 /\ SumOf(cs, S) = a[N]
               /\ \A i \in 1 .. N : a[i] = a[i - 1] + (IF i \in S THEN d(i) ELSE 0)
  BY SumOfIs
<1>3. PICK b : /\ b \in [0 .. N -> Int] /\ b[0] = 0 /\ SumOf(cs, T) = b[N]
               /\ \A i \in 1 .. N : b[i] = b[i - 1] + (IF i \in T THEN d(i) ELSE 0)
  BY SumOfIs
<1>4. PICK c : /\ c \in [0 .. N -> Int] /\ c[0] = 0 /\ SumOf(cs, S \cup T) = c[N]
               /\ \A i \in 1 .. N : c[i] = c[i - 1] + (IF i \in S \cup T THEN d(i) ELSE 0)
  BY SumOfIs
<1> HIDE DEF N, d
<1> DEFINE P == {i \in 0 .. N : c[i] = a[i] + b[i]}
<1>5. 0 \in P
  BY <1>1, <1>2, <1>3, <1>4
<1>6. ASSUME NEW i \in 1 .. N, i - 1 \in P PROVE i \in P
  <2>1. i \in 0 .. N /\ i - 1 \in 0 .. N
    BY <1>1
  <2> DEFINE u == a[i - 1]
             v == b[i - 1]
             x == d(i)
  <2>2. c[i - 1] = u + v /\ u \in Int /\ v \in Int /\ x \in Int
    BY <1>1, <1>2, <1>3, <1>6, <2>1
  <2>3. /\ a[i] = u + (IF i \in S THEN x ELSE 0) /\ b[i] = v + (IF i \in T THEN x ELSE 0)
        /\ c[i] = c[i - 1] + (IF i \in S \cup T THEN x ELSE 0)
    BY <1>2, <1>3, <1>4
  <2> HIDE DEF u, v, x
  <2>4. c[i] = a[i] + b[i]
    BY <2>2, <2>3
  <2> QED BY <2>1, <2>4
<1>7. \A i \in 0 .. N : i \in P
  <2> HIDE DEF P
  <2> QED BY <1>1, <1>5, <1>6, LoopKeeps
<1>8. N \in 0 .. N
  BY <1>1
<1> QED BY <1>2, <1>3, <1>4, <1>7, <1>8

\* Those that fit in an equal share r / n fit together in as many shares.
LEMMA SumOfAtMost ==
  ASSUME NEW cs \in Seq(Conn), NEW T \in SUBSET (1 .. Len(cs)), NEW n \in Nat, NEW r \in Nat,
         \A i \in T : Desired(cs[i]) * n <= r
  PROVE  SumOf(cs, T) * n <= Cardinality(T) * r
<1> DEFINE N == Len(cs)
           d(i) == Desired(cs[i])
           part(i) == T \cap (1 .. i)
<1>1. N \in Nat /\ \A i \in 1 .. N : d(i) \in Int
  BY RatesOf
<1>2. PICK b : /\ b \in [0 .. N -> Int] /\ b[0] = 0 /\ SumOf(cs, T) = b[N]
               /\ \A i \in 1 .. N : b[i] = b[i - 1] + (IF i \in T THEN d(i) ELSE 0)
  BY SumOfIs
<1>2a. \A i \in T : d(i) * n <= r
  OBVIOUS
<1>2b. T \subseteq 1 .. N
  OBVIOUS
<1> HIDE DEF N, d
<1> DEFINE P == {i \in 0 .. N : b[i] * n <= Cardinality(part(i)) * r}
<1>3. ASSUME NEW i \in 0 .. N PROVE IsFiniteSet(part(i)) /\ Cardinality(part(i)) \in Nat
  <2>1. i \in Int
    BY <1>1
  <2>2. IsFiniteSet(1 .. i) /\ part(i) \subseteq 1 .. i
    BY <2>1, FS_Interval
  <2> HIDE DEF part
  <2>3. IsFiniteSet(part(i))
    BY <2>2, FS_Subset
  <2> QED BY <2>3, FS_CardinalityType
<1>4. 0 \in P
  <2>1. 0 \in 0 .. N
    BY <1>1
  <2>2. Cardinality(part(0)) \in Nat
    BY <1>3, <2>1
  <2>3. b[0] * n = 0
    BY <1>2
  <2> DEFINE m == Cardinality(part(0))
  <2>4. m \in Nat
    BY <2>2
  <2> HIDE DEF m
  <2>5. 0 <= m * r
    BY <2>4
  <2> QED BY <2>1, <2>3, <2>5 DEF m
<1>5. ASSUME NEW i \in 1 .. N, i - 1 \in P PROVE i \in P
  <2>1. i \in 0 .. N /\ i - 1 \in 0 .. N
    BY <1>1
  <2> DEFINE u == b[i - 1]
             x == d(i)
             m == Cardinality(part(i - 1))
  <2>2. u * n <= m * r /\ u \in Int /\ x \in Int /\ m \in Nat
    BY <1>1, <1>2, <1>3, <1>5, <2>1
  <2>3. b[i] = u + (IF i \in T THEN x ELSE 0)
    BY <1>2
  <2>4. CASE i \in T
    <3>1. part(i) = part(i - 1) \cup {i} /\ i \notin part(i - 1)
      BY <2>1, <2>4
    <3>2. IsFiniteSet(part(i - 1))
      BY <1>3, <2>1
    <3> HIDE DEF part
    <3>3. Cardinality(part(i)) = m + 1
      BY <3>1, <3>2, FS_AddElement
    <3>4. x * n <= r
      BY <1>2a, <2>4
    <3> HIDE DEF u, x, m
    <3>5. (u + x) * n = u * n + x * n /\ (m + 1) * r = m * r + r
      BY <2>2
    <3>6. (u + x) * n <= (m + 1) * r
      <4> DEFINE un == u * n
                 xn == x * n
                 mr == m * r
      <4>1. un \in Int /\ xn \in Int /\ mr \in Int /\ un <= mr /\ xn <= r
        BY <2>2, <3>4
      <4>2. (u + x) * n = un + xn /\ (m + 1) * r = mr + r
        BY <3>5
      <4> HIDE DEF un, xn, mr
      <4> QED BY <4>1, <4>2
    <3> QED BY <2>1, <2>3, <2>4, <3>3, <3>6
  <2>5. CASE i \notin T
    <3>1. part(i) = part(i - 1)
      BY <2>1, <2>5
    <3> HIDE DEF part
    <3>2. b[i] = u
      BY <2>2, <2>3, <2>5
    <3> QED BY <2>1, <2>2, <3>1, <3>2
  <2> QED BY <2>4, <2>5
<1>6. \A i \in 0 .. N : i \in P
  <2> HIDE DEF P
  <2> QED BY <1>1, <1>4, <1>5, LoopKeeps
<1>7. N \in 0 .. N /\ part(N) = T
  <2>1. part(N) = T
    BY <1>2b
  <2> HIDE DEF part
  <2> QED BY <1>1, <2>1
<1> QED BY <1>2, <1>6, <1>7

\* A pass leaves something for the others, and is the last when it adds no one.
LEMMA FitsKeep ==
  ASSUME NEW cs \in Seq(Conn), NEW g \in TotalsType, g.N = Len(cs),
         NEW S \in SUBSET (1 .. Len(cs)), Left(cs, g, S).R >= 0, NEW T, T = Fits(cs, g, S)
  PROVE  /\ Left(cs, g, S \cup T).R >= 0
         /\ Cardinality(S) \in Nat /\ Cardinality(S \cup T) \in Nat
         /\ T # {} => Cardinality(S \cup T) > Cardinality(S)
<1> DEFINE N == Len(cs)
           U == S \cup T
           n == Left(cs, g, S).N
           r == Left(cs, g, S).R
<1>1. N \in Nat /\ S \in SUBSET (1 .. N) /\ T \in SUBSET (1 .. N) /\ S \cap T = {} /\ U \in SUBSET (1 .. N)
  <2>1. T \subseteq (1 .. N) \ S
    BY DEF Fits
  <2>2. N \in Nat /\ S \in SUBSET (1 .. N)
    OBVIOUS
  <2> HIDE DEF N
  <2> QED BY <2>1, <2>2
<1>2. \A X \in SUBSET (1 .. N) : IsFiniteSet(X) /\ Cardinality(X) \in Nat /\ Cardinality(X) <= N
  <2>1. IsFiniteSet(1 .. N) /\ Cardinality(1 .. N) = N
    <3> HIDE DEF N
    <3>1. 1 \in Int /\ N \in Int
      BY <1>1
    <3>2. IsFiniteSet(1 .. N) /\ Cardinality(1 .. N) = IF 1 > N THEN 0 ELSE N - 1 + 1
      BY <3>1, FS_Interval
    <3> QED BY <1>1, <3>2
  <2> HIDE DEF N
  <2>2. ASSUME NEW X \in SUBSET (1 .. N) PROVE IsFiniteSet(X) /\ Cardinality(X) \in Nat /\ Cardinality(X) <= N
    <3>1. X \subseteq 1 .. N
      OBVIOUS
    <3>2. IsFiniteSet(X) /\ Cardinality(X) <= Cardinality(1 .. N)
      BY <2>1, <3>1, FS_Subset
    <3>3. Cardinality(X) \in Nat
      BY <3>2, FS_CardinalityType
    <3> QED BY <2>1, <3>2, <3>3
  <2> QED BY <2>2
<1>3. \A X \in SUBSET (1 .. N) : /\ Left(cs, g, X).R = g.R - SumOf(cs, X) /\ Left(cs, g, X).N = N - Cardinality(X)
                                 /\ SumOf(cs, X) \in Int
  BY SumOfType DEF Left, SumOf, OfThese
<1>4. /\ n = N - Cardinality(S) /\ n \in Nat /\ r = g.R - SumOf(cs, S) /\ r \in Nat
      /\ Left(cs, g, U).R = g.R - SumOf(cs, U)
  <2>1. g.R \in Int /\ r >= 0
    BY DEF TotalsType
  <2> HIDE DEF N, U
  <2>2. n = N - Cardinality(S) /\ r = g.R - SumOf(cs, S) /\ SumOf(cs, S) \in Int
    BY <1>1, <1>3
  <2>3. Cardinality(S) \in Nat /\ Cardinality(S) <= N
    BY <1>1, <1>2
  <2>4. Left(cs, g, U).R = g.R - SumOf(cs, U)
    BY <1>1, <1>3
  <2> HIDE DEF n, r
  <2> QED BY <1>1, <2>1, <2>2, <2>3, <2>4
<1>5. \A i \in T : Desired(cs[i]) * n <= r
  BY DEF Fits
<1> HIDE DEF n, r
<1>6. SumOf(cs, T) * n <= Cardinality(T) * r
  BY <1>1, <1>4, <1>5, SumOfAtMost
<1>7. SumOf(cs, U) = SumOf(cs, S) + SumOf(cs, T)
  BY <1>1, SumOfBoth
<1>8. Cardinality(U) = Cardinality(S) + Cardinality(T)
  <2>1. IsFiniteSet(S) /\ IsFiniteSet(T)
    BY <1>1, <1>2
  <2>2. Cardinality(S \cup T) = Cardinality(S) + Cardinality(T) - Cardinality(S \cap T)
    BY <2>1, FS_Union
  <2>3. Cardinality(S \cap T) = 0
    BY <1>1, FS_EmptySet
  <2>4. Cardinality(S) \in Nat /\ Cardinality(T) \in Nat
    BY <1>1, <1>2
  <2> QED BY <2>2, <2>3, <2>4
<1> DEFINE cS == Cardinality(S)
           cT == Cardinality(T)
           cU == Cardinality(U)
           sS == SumOf(cs, S)
           sT == SumOf(cs, T)
<1>9. cS \in Nat /\ cT \in Nat /\ cU \in Nat /\ cU <= N /\ cU = cS + cT /\ cT <= n
  <2>1. cS \in Nat /\ cT \in Nat /\ cU \in Nat /\ cU <= N /\ cU = cS + cT
    BY <1>1, <1>2, <1>8
  <2> HIDE DEF cS, cT, cU, N, U
  <2> QED BY <1>1, <1>4, <2>1 DEF cS
<1>10. T # {} => cT > 0
  <2>1. IsFiniteSet(T)
    BY <1>1, <1>2
  <2>2. Cardinality(T) = 0 <=> T = {}
    BY <2>1, FS_EmptySet
  <2> QED BY <1>9, <2>2
<1>11. sT \in Int /\ sS \in Int
  BY SumOfType
<1>12. sT <= r
  <2>1. CASE T = {}
    <3>1. cT = 0 /\ 0 * r = 0
      BY <1>4, <2>1, FS_EmptySet
    <3>2. sT = 0
      <4>1. SumOf(cs, S \cup {}) = SumOf(cs, S) + SumOf(cs, {})
        BY SumOfBoth
      <4>2. S \cup {} = S
        OBVIOUS
      <4>3. SumOf(cs, {}) \in Int /\ SumOf(cs, S) \in Int
        BY SumOfType
      <4> QED BY <2>1, <4>1, <4>2, <4>3
    <3> HIDE DEF sT
    <3> QED BY <1>4, <3>2
  <2>2. CASE T # {}
    <3>1. n > 0 /\ sT * n <= cT * r /\ cT <= n
      BY <1>4, <1>6, <1>9, <1>10, <2>2
    <3> HIDE DEF cT, sT, cS, cU
    <3>2. cT * r <= n * r
      BY <1>4, <1>9, <3>1
    <3>3. ASSUME sT > r PROVE FALSE
      <4>1. sT * n >= (r + 1) * n
        BY <1>4, <1>11, <3>1, <3>3
      <4>2. (r + 1) * n = n * r + n
        BY <1>4
      <4> DEFINE a == sT * n
                 b == cT * r
                 e == n * r
      <4>3. a \in Int /\ b \in Int /\ e \in Int
        BY <1>4, <1>9, <1>11
      <4>4. a <= b /\ b <= e /\ a >= e + n
        BY <3>1, <3>2, <4>1, <4>2
      <4> HIDE DEF a, b, e
      <4> QED BY <1>4, <3>1, <4>3, <4>4
    <3> QED BY <1>4, <1>11, <3>3
  <2> QED BY <2>1, <2>2
<1>13. Left(cs, g, U).R >= 0
  <2>1. SumOf(cs, U) = sS + sT /\ r = g.R - sS /\ g.R \in Int
    BY <1>4, <1>7 DEF TotalsType
  <2> HIDE DEF sS, sT
  <2> QED BY <1>4, <1>11, <1>12, <2>1
<1>14. T # {} => cU > cS
  <2> HIDE DEF cU, cS, cT
  <2> QED BY <1>9, <1>10
<1> QED BY <1>9, <1>13, <1>14

\* What is left when the loop of DistributeR ends does not satisfy anyone else.
LEMMA SatisfiedEnds ==
  ASSUME NEW cs \in Seq(Conn), NEW g \in TotalsType, g.N = Len(cs), g.R >= 0,
         NEW S, S = Satisfied(cs, g)
  PROVE  S \in SUBSET (1 .. Len(cs)) /\ Left(cs, g, S).R >= 0 /\ Fits(cs, g, S) = {}
<1> DEFINE N == Len(cs)
           left(X) == Left(cs, g, X).R
           fits(X) == Fits(cs, g, X)
<1>1. N \in Nat
  OBVIOUS
<1>2. PICK pass : Passes(cs, g, pass) /\ S = pass[N]
  BY SatisfiedPasses
<1>3. /\ pass[0] = {} /\ \A n \in 1 .. N : pass[n] = pass[n - 1] \cup fits(pass[n - 1])
      /\ \A n \in 0 .. N : pass[n] \in SUBSET (1 .. N)
  BY <1>2 DEF Passes
<1>4. ASSUME NEW X \in SUBSET (1 .. N), left(X) >= 0
      PROVE  /\ left(X \cup fits(X)) >= 0 /\ Cardinality(X) \in Nat /\ Cardinality(X \cup fits(X)) \in Nat
             /\ fits(X) # {} => Cardinality(X \cup fits(X)) > Cardinality(X)
  BY <1>4, FitsKeep
<1>5. left({}) >= 0 /\ Cardinality({}) = 0
  <2>1. SumOf(cs, {}) = 0
    <3>1. SumOf(cs, {} \cup {}) = SumOf(cs, {}) + SumOf(cs, {})
      BY SumOfBoth
    <3>2. {} \cup {} = {}
      OBVIOUS
    <3>3. SumOf(cs, {}) \in Int
      BY SumOfType
    <3> DEFINE x == SumOf(cs, {})
    <3>4. x = x + x /\ x \in Int
      BY <3>1, <3>2, <3>3
    <3> HIDE DEF x
    <3>5. x = 0
      BY <3>4
    <3> QED BY <3>5 DEF x
  <2>2. left({}) = g.R - SumOf(cs, {})
    BY DEF Left, SumOf, OfThese
  <2>3. g.R \in Int
    BY DEF TotalsType
  <2>4. Cardinality({}) = 0
    BY FS_EmptySet
  <2> HIDE DEF left
  <2> QED BY <2>1, <2>2, <2>3, <2>4
<1>6. ASSUME NEW X \in SUBSET (1 .. N), Cardinality(X) \in Nat, Cardinality(X) >= N PROVE fits(X) = {}
  <2>1. IsFiniteSet(1 .. N) /\ Cardinality(1 .. N) = N
    <3> HIDE DEF N
    <3>1. 1 \in Int /\ N \in Int
      BY <1>1
    <3>2. IsFiniteSet(1 .. N) /\ Cardinality(1 .. N) = IF 1 > N THEN 0 ELSE N - 1 + 1
      BY <3>1, FS_Interval
    <3> QED BY <1>1, <3>2
  <2>2. X \subseteq 1 .. N
    OBVIOUS
  <2> HIDE DEF N
  <2>3. Cardinality(X) <= Cardinality(1 .. N) /\ (Cardinality(X) = Cardinality(1 .. N) => X = 1 .. N)
    BY <2>1, <2>2, FS_Subset
  <2>4. X = 1 .. N
    BY <1>1, <1>6, <2>1, <2>3
  <2>5. fits(X) \subseteq (1 .. N) \ X
    BY DEF Fits, N
  <2> QED BY <2>4, <2>5
<1> HIDE DEF N, left, fits
<1> DEFINE P == {n \in 0 .. N : left(pass[n]) >= 0 /\ (Cardinality(pass[n]) >= n \/ fits(pass[n]) = {})}
<1>7. 0 \in P
  <2>1. 0 \in 0 .. N
    BY <1>1
  <2>2. pass[0] = {}
    BY <1>3
  <2>3. left(pass[0]) >= 0 /\ Cardinality(pass[0]) = 0
    BY <1>5, <2>2
  <2>4. Cardinality(pass[0]) >= 0
    BY <2>3
  <2> QED BY <2>1, <2>3, <2>4
<1>8. ASSUME NEW n \in 1 .. N, n - 1 \in P PROVE n \in P
  <2>1. n \in 0 .. N /\ n - 1 \in 0 .. N
    BY <1>1
  <2> DEFINE X == pass[n - 1]
  <2>2. X \in SUBSET (1 .. N) /\ pass[n] = X \cup fits(X) /\ left(X) >= 0
    BY <1>3, <1>8, <2>1
  <2>3. Cardinality(X) >= n - 1 \/ fits(X) = {}
    BY <1>8
  <2> HIDE DEF X
  <2>4. /\ left(X \cup fits(X)) >= 0 /\ Cardinality(X) \in Nat /\ Cardinality(X \cup fits(X)) \in Nat
        /\ fits(X) # {} => Cardinality(X \cup fits(X)) > Cardinality(X)
    BY <1>4, <2>2
  <2>5. CASE fits(X) = {}
    <3>1. pass[n] = X
      BY <2>2, <2>5
    <3> QED BY <2>1, <2>2, <2>5, <3>1
  <2>6. CASE fits(X) # {}
    <3> DEFINE a == Cardinality(X)
               b == Cardinality(X \cup fits(X))
    <3>1. a \in Nat /\ b \in Nat /\ b > a /\ a >= n - 1
      BY <2>3, <2>4, <2>6
    <3> HIDE DEF a, b
    <3>2. b >= n
      BY <1>1, <3>1
    <3> QED BY <2>1, <2>2, <2>4, <3>2 DEF b
  <2> QED BY <2>5, <2>6
<1>9. \A n \in 0 .. N : n \in P
  <2> HIDE DEF P
  <2> QED BY <1>1, <1>7, <1>8, LoopKeeps
<1>10. N \in 0 .. N
  BY <1>1
<1>11. S \in SUBSET (1 .. N) /\ left(S) >= 0 /\ (Cardinality(S) >= N \/ fits(S) = {})
  BY <1>2, <1>3, <1>9, <1>10
<1>12. fits(S) = {}
  BY <1>4, <1>6, <1>11
<1> QED BY <1>11, <1>12 DEF N, left, fits

\* No connection of the list has a share larger than it asked for.
AllRespect(ds) == \A i \in 1 .. Len(ds) : Respects(ds[i].cur, ds[i].req)

LEMMA WithCurRespects ==
  ASSUME NEW cs \in Seq(Conn), NEW cur,
         \A i \in 1 .. Len(cs) : cur[i] \in Interval /\ Respects(cur[i], cs[i].req)
  PROVE  AllRespect(WithCur(cs, cur))
<1> DEFINE ds == WithCur(cs, cur)
<1>1. Len(cs) \in Nat /\ DOMAIN cs = 1 .. Len(cs)
  OBVIOUS
<1>2. ds = [i \in 1 .. Len(cs) |-> [cs[i] EXCEPT !.cur = cur[i]]]
  BY <1>1 DEF WithCur
<1> HIDE DEF ds
<1>3. Len(ds) = Len(cs)
  BY <1>1, <1>2
<1>4. ASSUME NEW i \in 1 .. Len(cs) PROVE ds[i].cur = cur[i] /\ ds[i].req = cs[i].req
  <2>1. cs[i] \in Conn
    OBVIOUS
  <2>2. ds[i] = [cs[i] EXCEPT !.cur = cur[i]]
    BY <1>2
  <2> QED BY <2>1, <2>2 DEF Conn
<1>5. AllRespect(ds)
  BY <1>3, <1>4 DEF AllRespect
<1> QED BY <1>5 DEF ds

LEMMA RhoRespects ==
  ASSUME NEW cs \in Seq(Conn), NEW g \in TotalsType, 0 < g.R, g.R <= g.D
  PROVE  AllRespect(AllocateByRho(cs, g))
<1> DEFINE cur == [i \in DOMAIN cs |-> IF g.D = 0 THEN IntervalOf(cs[i].req, 1)
                                   ELSE IntervalOf(cs[i].req * g.D, g.R)]
<1>1. g.R \in Nat /\ g.D \in Nat /\ g.D # 0 /\ g.R # 0
  BY DEF TotalsType
<1>2. AllocateByRho(cs, g) = WithCur(cs, cur)
  BY <1>1 DEF AllocateByRho
<1>3. ASSUME NEW i \in 1 .. Len(cs) PROVE cur[i] \in Interval /\ Respects(cur[i], cs[i].req)
  <2>1. cs[i].req \in Interval /\ cs[i].req \in Nat
    <3>1. cs[i].req \in Interval
      BY RatesOf
    <3> QED BY <3>1 DEF Interval
  <2>2. PICK q \in Interval : q = cs[i].req
    BY <2>1
  <2>3. q \in Nat
    BY <2>1, <2>2
  <2>4. PICK a \in Nat : a = q * g.D
    BY <1>1, <2>3
  <2>5. q * g.R <= a
    BY <1>1, <2>3, <2>4
  <2>6. cur[i] = IntervalOf(a, g.R)
    BY <1>1, <2>2, <2>4
  <2> HIDE DEF cur
  <2>7. IntervalOf(a, g.R) \in Interval
    BY <1>1, IntervalOfIs
  <2>8. Respects(IntervalOf(a, g.R), q)
    BY <1>1, <2>5, IntervalRespects
  <2> QED BY <2>2, <2>6, <2>7, <2>8
<1> HIDE DEF cur
<1> QED BY <1>2, <1>3, WithCurRespects

LEMMA ShareRespects ==
  ASSUME NEW req \in Interval \ {0}, NEW n \in Int, NEW r \in Nat, ~(Rate(req) * n <= r)
  PROVE  n \in Nat /\ Respects(IntervalOf(1000000 * n, r), req)
<1>1. req \in Nat /\ req # 0 /\ req \in Interval
  BY DEF Interval
<1>2. PICK d \in Nat : d = Rate(req)
  BY <1>1, RateIs
<1>3. d = 1000000 \div req
  BY <1>1, <1>2 DEF Rate
<1>4. d * req <= 1000000
  <2>1. PICK m \in Nat : 1000000 = req * d + m
    <3>1. 1000000 % req \in Nat /\ 1000000 = req * (1000000 \div req) + (1000000 % req)
      BY <1>1
    <3> QED BY <1>3, <3>1
  <2> QED BY <1>1, <2>1
<1>5. d * n > r
  BY <1>2
<1>6. n \in Nat
  <2>1. ASSUME n < 0 PROVE FALSE
    <3>1. d * n <= 0
      BY <2>1
    <3> DEFINE p == d * n
    <3>2. p \in Int /\ p > r /\ p <= 0
      BY <1>5, <3>1
    <3> HIDE DEF p
    <3> QED BY <3>2
  <2> QED BY <2>1
<1>7. req * r <= 1000000 * n
  <2>1. req * r <= req * (d * n)
    <3> DEFINE p == d * n
    <3>1. p \in Nat /\ r <= p
      BY <1>5, <1>6
    <3> HIDE DEF p
    <3>2. req * r <= req * p
      BY <1>1, <3>1
    <3> QED BY <3>2 DEF p
  <2>2. req * (d * n) = (d * req) * n
    BY <1>1, <1>6
  <2>3. (d * req) * n <= 1000000 * n
    <3> DEFINE p == d * req
    <3>1. p \in Nat /\ p <= 1000000
      BY <1>1, <1>4
    <3> HIDE DEF p
    <3>2. p * n <= 1000000 * n
      BY <1>6, <3>1
    <3> QED BY <3>2 DEF p
  <2> DEFINE a == req * r
             b == req * (d * n)
             c == (d * req) * n
  <2>4. a \in Int /\ b \in Int /\ c \in Int /\ a <= b /\ b = c /\ c <= 1000000 * n
    BY <1>1, <1>6, <2>1, <2>2, <2>3
  <2> HIDE DEF b, c
  <2>5. a <= 1000000 * n
    <3> HIDE DEF a
    <3> QED BY <1>6, <2>4
  <2> QED BY <2>5
<1>8. 1000000 * n \in Nat
  BY <1>6
<1> DEFINE a == 1000000 * n
<1>9. a \in Nat /\ req * r <= a
  BY <1>7, <1>8
<1> HIDE DEF a
<1>10. Respects(IntervalOf(a, r), req)
  BY <1>1, <1>9, IntervalRespects
<1> QED BY <1>6, <1>10 DEF a

LEMMA DistributeRespects ==
  ASSUME NEW cs \in Seq(Conn), NEW g \in TotalsType, g.N = Len(cs), g.R > 0
  PROVE  AllRespect(DistributeR(cs, g))
<1> DEFINE N == Len(cs)
           S == Satisfied(cs, g)
           left == Left(cs, g, S)
           cur == [i \in DOMAIN cs |-> IF i \in S THEN cs[i].req ELSE IntervalOf(1000000 * left.N, left.R)]
           Given(z) == WithCur(cs, [i \in DOMAIN cs |->
                         IF i \in z THEN cs[i].req
                         ELSE IntervalOf(1000000 * Left(cs, g, z).N, Left(cs, g, z).R)])
<1>1. N \in Nat /\ DOMAIN cs = 1 .. N /\ g.R \in Int
  BY DEF TotalsType
<1>2. S \in SUBSET (1 .. N) /\ left.R >= 0 /\ Fits(cs, g, S) = {}
  <2>1. g.R >= 0
    BY <1>1
  <2> HIDE DEF S
  <2> QED BY <2>1, SatisfiedEnds DEF S
<1>3. left.R \in Int /\ left.N \in Int
  <2> HIDE DEF S
  <2> QED BY <1>2, LeftIs
<1>4. DistributeR(cs, g) = IF g.N = 0 THEN cs ELSE Given(S)
  <2>1. DistributeR(cs, g) = IF g.N = 0 THEN cs
                             ELSE With(S, LAMBDA z :
                               LET m == Left(cs, g, z)
                               IN  WithCur(cs, [i \in DOMAIN cs |->
                                     IF i \in z THEN cs[i].req ELSE IntervalOf(1000000 * m.N, m.R)]))
    BY DEF DistributeR
  <2>2. With(S, LAMBDA z :
               LET m == Left(cs, g, z)
               IN  WithCur(cs, [i \in DOMAIN cs |->
                     IF i \in z THEN cs[i].req ELSE IntervalOf(1000000 * m.N, m.R)])) = Given(S)
    BY DEF With
  <2> QED BY <2>1, <2>2
<1>5. Given(S) = WithCur(cs, cur)
  OBVIOUS
<1>6. ASSUME NEW i \in 1 .. N PROVE cur[i] \in Interval /\ Respects(cur[i], cs[i].req)
  <2>1. cs[i].req \in Interval \ {0} /\ cs[i].req \in Nat
    <3>1. cs[i] \in Conn
      OBVIOUS
    <3> QED BY <3>1 DEF Conn, Interval
  <2>2. CASE i \in S
    <3>1. cur[i] = cs[i].req
      BY <1>1, <2>2
    <3> HIDE DEF cur
    <3>2. Respects(cs[i].req, cs[i].req)
      BY <2>1 DEF Respects
    <3> QED BY <2>1, <3>1, <3>2
  <2>3. CASE i \notin S
    <3>1. cur[i] = IntervalOf(1000000 * left.N, left.R)
      BY <1>1, <2>3
    <3>2. ~(Desired(cs[i]) * left.N <= left.R)
      <4> HIDE DEF S
      <4> QED BY <1>2, <2>3 DEF Fits
    <3> HIDE DEF cur
    <3>3. PICK r \in Nat : r = left.R
      <4> HIDE DEF left
      <4> QED BY <1>2, <1>3
    <3>4. PICK n \in Int : n = left.N
      BY <1>3
    <3>5. PICK q \in Interval \ {0} : q = cs[i].req
      BY <2>1
    <3>6. ~(Rate(q) * n <= r)
      BY <3>2, <3>3, <3>4, <3>5 DEF Desired
    <3>7. n \in Nat /\ Respects(IntervalOf(1000000 * n, r), q)
      BY <3>6, ShareRespects
    <3>8. IntervalOf(1000000 * n, r) \in Interval
      <4>1. 1000000 * n \in Int
        OBVIOUS
      <4> QED BY <4>1, IntervalOfIs
    <3> HIDE DEF left
    <3> QED BY <3>1, <3>3, <3>4, <3>5, <3>7, <3>8
  <2> QED BY <2>2, <2>3
<1>7. AllRespect(WithCur(cs, cur))
  <2> HIDE DEF cur
  <2> QED BY <1>6, WithCurRespects
<1>8. CASE g.N = 0
  <2>1. AllRespect(cs)
    BY <1>1, <1>8 DEF AllRespect
  <2> QED BY <1>4, <1>8, <2>1
<1>9. CASE g.N # 0
  <2> HIDE DEF Given, cur, S
  <2> QED BY <1>4, <1>5, <1>7, <1>9
<1> QED BY <1>8, <1>9

\* The rate is shared anew by ratio or equally.
LEMMA SharesRespect ==
  ASSUME NEW cs \in Seq(Conn), NEW g \in TotalsType, NEW p \in {RCRT_FAIR_RATIO, RCRT_FAIR_RATE}, NEW good,
         g.N = Len(cs), 0 < g.R, g.R <= g.D
  PROVE  AllRespect(AllocateFairly(p, cs, g, good))
<1> DEFINE By(x, y) == CASE p = RCRT_FAIR_RATE -> DistributeR(x, y)
                         [] p = RCRT_FAIR_RATE_W_D -> AllocateROverN(x, y)
                         [] p = RCRT_FAIR_GOODPUT /\ y.R > SumOfCur(x) -> AppendByGoodput(x, y.R - SumOfCur(x), good)
                         [] OTHER -> AllocateByRho(x, y)
<1>1. AllocateFairly(p, cs, g, good) = By(cs, g)
  <2>1. AllocateFairly(p, cs, g, good) =
          With(cs, LAMBDA x : With(g, LAMBDA y :
            CASE p = RCRT_FAIR_RATE -> DistributeR(x, y)
              [] p = RCRT_FAIR_RATE_W_D -> AllocateROverN(x, y)
              [] p = RCRT_FAIR_GOODPUT /\ y.R > SumOfCur(x) -> AppendByGoodput(x, y.R - SumOfCur(x), good)
              [] OTHER -> AllocateByRho(x, y)))
    BY DEF AllocateFairly
  <2>2. With(cs, LAMBDA x : With(g, LAMBDA y :
            CASE p = RCRT_FAIR_RATE -> DistributeR(x, y)
              [] p = RCRT_FAIR_RATE_W_D -> AllocateROverN(x, y)
              [] p = RCRT_FAIR_GOODPUT /\ y.R > SumOfCur(x) -> AppendByGoodput(x, y.R - SumOfCur(x), good)
              [] OTHER -> AllocateByRho(x, y))) = By(cs, g)
    BY DEF With
  <2> QED BY <2>1, <2>2
<1>2. By(cs, g) = IF p = RCRT_FAIR_RATE THEN DistributeR(cs, g) ELSE AllocateByRho(cs, g)
  BY DEF RCRT_FAIR_RATIO, RCRT_FAIR_RATE, RCRT_FAIR_RATE_W_D, RCRT_FAIR_GOODPUT
<1> HIDE DEF By
<1>3. AllRespect(DistributeR(cs, g)) /\ AllRespect(AllocateByRho(cs, g))
  BY DistributeRespects, RhoRespects
<1> QED BY <1>1, <1>2, <1>3

-----------------------------------------------------------------------------
(* The totals are those of the connections.                                  *)

Nothing(g) == g.R = 0 /\ g.D = 0 /\ g.slow
Booked(cs, g, p) ==
  /\ p # RCRT_FAIR_RATE => g.D = Total(Wants(cs))
  /\ g.N = 0 => Nothing(g)

LEMMA WantsNone == ASSUME NEW cs \in Seq(Conn), Len(cs) = 0 PROVE Total(Wants(cs)) = 0
<1>1. Wants(cs) \in Seq(Int) /\ Len(Wants(cs)) = 0
  BY WantsIs
<1>2. PICK g : Sums(Wants(cs), g) /\ Total(Wants(cs)) = g[Len(Wants(cs))]
  BY <1>1, TotalIs
<1> QED BY <1>1, <1>2 DEF Sums

LEMMA WantsType == ASSUME NEW cs \in Seq(Conn) PROVE Total(Wants(cs)) \in Int
<1>1. Wants(cs) \in Seq(Int) /\ Len(Wants(cs)) \in Nat
  BY WantsIs
<1>2. PICK g : Sums(Wants(cs), g) /\ Total(Wants(cs)) = g[Len(Wants(cs))]
  BY <1>1, TotalIs
<1>3. Len(Wants(cs)) \in 0 .. Len(Wants(cs))
  BY <1>1
<1> QED BY <1>2, <1>3 DEF Sums

\* What adjust_rates_at_node_join and finish_rcrt_connection do to the totals.
LEMMA JoinedSums ==
  ASSUME NEW g \in TotalsType, NEW req \in Interval
  PROVE  Joined(g, req).D = g.D + Rate(req)
<1>1. Rate(req) \in Int
  BY RateIs
<1> DEFINE more == IF g.R = 0 \/ g.N = 0 \/ (g.slow /\ g.R <= 25000)
                   THEN (IF req < 2000 THEN 500 ELSE Rate(req)) ELSE 0
           R == g.R + more
           D == g.D + Rate(req)
           N == g.N + 1
<1>2. Joined(g, req) = [g EXCEPT !.R = R, !.D = D, !.N = N]
  BY DEF Joined
<1> HIDE DEF R, D, N
<1>3. Joined(g, req).D = D
  BY <1>2 DEF TotalsType
<1> QED BY <1>3 DEF D

LEMMA FinishSums ==
  ASSUME NEW g \in TotalsType, NEW c \in Conn, NEW p, NEW h, h = FinishRates(p, g, c)
  PROVE  /\ g.N = 1 => h.D = 0 /\ Nothing(h)
         /\ g.N # 1 /\ p # RCRT_FAIR_RATE => h.D = g.D - Desired(c)
<1> DEFINE R == g.R - Rate(c.cur)
           D == IF p = RCRT_FAIR_RATE THEN g.D ELSE g.D - Desired(c)
           S == IF p # RCRT_FAIR_RATE /\ R > D THEN D ELSE R
           N == g.N - 1
<1>1. h = IF g.N = 1 THEN [NoRates EXCEPT !.lastp = g.lastp]
          ELSE [g EXCEPT !.N = N, !.D = D, !.R = S]
  BY DEF FinishRates
<1>2. p # RCRT_FAIR_RATE => D = g.D - Desired(c)
  OBVIOUS
<1> HIDE DEF R, D, S, N
<1>3. g.N = 1 => h.D = 0 /\ Nothing(h)
  BY <1>1 DEF NoRates, Nothing
<1>4. g.N # 1 => h.D = D
  BY <1>1 DEF TotalsType
<1> QED BY <1>2, <1>3, <1>4

\* A connection goes, and its share with it.
LEMMA GoneBooked ==
  ASSUME NEW cs \in Seq(Conn), NEW i \in 1 .. Len(cs), NEW g \in TotalsType, g.N = Len(cs), NEW p,
         Booked(cs, g, p), NEW ds, ds = Without(cs, i), NEW h, h = FinishRates(p, g, cs[i])
  PROVE  Booked(ds, h, p)
<1> DEFINE c == cs[i]
<1>1. c \in Conn /\ Len(cs) \in Nat
  OBVIOUS
<1>1a. h = FinishRates(p, g, c)
  OBVIOUS
<1> HIDE DEF c
<1>2. ds \in Seq(Conn) /\ Len(ds) = Len(cs) - 1
  BY WithoutIs
<1>3. h \in TotalsType /\ h.N = g.N - 1
  BY <1>1, <1>1a, FinishIs
<1>4. /\ g.N = 1 => h.D = 0 /\ Nothing(h)
      /\ g.N # 1 /\ p # RCRT_FAIR_RATE => h.D = g.D - Desired(c)
  BY <1>1, <1>1a, FinishSums
<1>5. CASE g.N = 1
  <2>1. Len(ds) = 0
    BY <1>1, <1>2, <1>5
  <2>2. Total(Wants(ds)) = 0
    BY <1>2, <2>1, WantsNone
  <2> QED BY <1>4, <1>5, <2>2 DEF Booked
<1>6. CASE g.N # 1
  <2>1. h.N # 0
    BY <1>1, <1>3, <1>6
  <2>2. Total(Wants(cs)) = Total(Wants(ds)) + Desired(c)
    BY WantsWithout DEF c
  <2>3. Total(Wants(ds)) \in Int /\ Desired(c) \in Int
    BY <1>2, WantsType, RatesOf DEF c
  <2>4. p # RCRT_FAIR_RATE => h.D = Total(Wants(ds))
    <3> DEFINE x == Total(Wants(ds))
               y == Desired(c)
    <3>1. p # RCRT_FAIR_RATE => h.D = (x + y) - y
      BY <1>4, <1>6, <2>2 DEF Booked
    <3>2. x \in Int /\ y \in Int
      BY <2>3
    <3> HIDE DEF x, y
    <3>3. p # RCRT_FAIR_RATE => h.D = x
      BY <3>1, <3>2
    <3> QED BY <3>3 DEF x
  <2> QED BY <2>1, <2>4 DEF Booked
<1> QED BY <1>5, <1>6

\* Connections that ask for the same, and totals that differ in the rate that is shared.
LEMMA SameBooked ==
  ASSUME NEW cs \in Seq(Conn), NEW ds \in Seq(Conn), SameWants(cs, ds), NEW p, NEW g, Booked(cs, g, p),
         NEW h, h.D = g.D, h.N = g.N, g.N # 0
  PROVE  Booked(ds, h, p)
<1>1. Wants(ds) = Wants(cs)
  BY WantsSame
<1> QED BY <1>1 DEF Booked

\* What do_rate_control comes to keeps the sum of what was asked for.
LEMMA ControlSums ==
  ASSUME NEW g \in TotalsType, NEW v, Verdict(v, g), v[2].D = g.D, v[1] = 0 => v[2] = g
  PROVE  /\ Totals(v, g).D = g.D
         /\ Totals(v, g).R # g.R => Applied(v, g)
<1> DEFINE h == v[2]
<1>1. h \in TotalsType /\ h.D = g.D
  BY DEF Verdict
<1>2. /\ [h EXCEPT !.lastp = 100].D = h.D /\ [h EXCEPT !.slow = FALSE].D = h.D
      /\ [h EXCEPT !.lastp = 100].R = h.R /\ [h EXCEPT !.slow = FALSE].R = h.R
  BY <1>1 DEF TotalsType
<1>3. Totals(v, g) \in {h, [h EXCEPT !.lastp = 100], [h EXCEPT !.slow = FALSE]}
  BY DEF Totals
<1>4. Applied(v, g) <=> v[1] # 0 /\ h.R # g.R
  BY DEF Applied
<1> HIDE DEF h
<1>5. Totals(v, g).D = g.D /\ Totals(v, g).R = h.R
  BY <1>1, <1>2, <1>3
<1>6. v[1] = 0 => h = g
  BY DEF h
<1> QED BY <1>4, <1>5, <1>6

\* The walk of rcrtransport_delete_tid has passed i entries; s are the partial sums of
\* what all entries ask for.
InWalk(i, w, s) ==
  /\ w \in WalkType /\ w.g.N = (rates.N - i) + Len(w.cs) /\ Len(w.cs) <= i
  /\ budget.policy # RCRT_FAIR_RATE => w.g.D = Total(Wants(w.cs)) + (s[Len(rcrtcs)] - s[i])
  /\ w.g.N = 0 => Nothing(w.g)
  /\ w.g.N = rates.N => w.g = rates

LEMMA VisitedSums ==
  ASSUME RcrtInv, NEW t, NEW s, Sums(Wants(rcrtcs), s), NEW i \in 1 .. Len(rcrtcs), NEW w \in WalkType,
         InWalk(i - 1, w, s), NEW v, v = Visited(w, rcrtcs[i], t)
  PROVE  InWalk(i, v, s)
<1> DEFINE c == rcrtcs[i]
           N == Len(rcrtcs)
           x == Total(Wants(w.cs))
           y == Desired(c)
           m == Len(w.cs)
           asks == budget.policy # RCRT_FAIR_RATE
<1>1. /\ w.cs \in Seq(Conn) /\ w.g \in TotalsType /\ w.skip \in BOOLEAN /\ c \in Conn /\ y \in Int
      /\ rates.N = N /\ N \in Nat /\ i \in Nat \ {0} /\ rcrtcs \in Seq(Conn) /\ rates \in TotalsType
  <2>1. rcrtcs \in Seq(Conn) /\ rates \in TotalsType /\ rates.N = N
    BY DEF RcrtInv, ListOK
  <2>2. w.cs \in Seq(Conn) /\ w.g \in TotalsType /\ w.skip \in BOOLEAN
    BY DEF WalkType
  <2> QED BY <2>1, <2>2, RatesOf
<1>2. m \in Nat /\ x \in Int /\ w.g.N \in Int /\ w.g.D \in Int
  BY <1>1, WantsType DEF TotalsType
<1>3. s[i] = s[i - 1] + y /\ s[i] \in Int /\ s[i - 1] \in Int /\ s[N] \in Int /\ i <= N
  <2> DEFINE xs == Wants(rcrtcs)
  <2>1. Len(xs) = N /\ xs[i] = y
    BY <1>1, WantsIs
  <2>2. s \in [0 .. Len(xs) -> Int] /\ \A j \in 1 .. Len(xs) : s[j] = s[j - 1] + xs[j]
    BY DEF Sums
  <2>3. i \in 1 .. N
    OBVIOUS
  <2> HIDE DEF xs, N, y
  <2>4. i \in 0 .. N /\ i - 1 \in 0 .. N /\ N \in 0 .. N /\ i <= N
    BY <1>1, <2>3
  <2>5. s[i] \in Int /\ s[i - 1] \in Int /\ s[N] \in Int
    BY <2>1, <2>2, <2>4
  <2>6. s[i] = s[i - 1] + y
    BY <2>1, <2>2, <2>3
  <2> QED BY <2>4, <2>5, <2>6
<1>4. /\ w.g.N = (N - (i - 1)) + m /\ m <= i - 1
      /\ asks => w.g.D = x + (s[N] - s[i - 1])
      /\ w.g.N = 0 => Nothing(w.g)
      /\ w.g.N = N => w.g = rates
  BY <1>1 DEF InWalk
<1> DEFINE Out(u) == /\ u \in WalkType /\ u.g.N = (N - i) + Len(u.cs) /\ Len(u.cs) <= i
                     /\ asks => u.g.D = Total(Wants(u.cs)) + (s[N] - s[i])
                     /\ u.g.N = 0 => Nothing(u.g)
                     /\ u.g.N = N => u.g = rates
<1>5. Out(v) => InWalk(i, v, s)
  BY <1>1 DEF InWalk
<1> HIDE DEF c, N, x, y, m, asks
<1>6. ASSUME NEW d \in Conn, d.req = c.req, NEW u \in WalkType, u.cs = Append(w.cs, d), u.g = w.g PROVE Out(u)
  <2>1. Len(u.cs) = m + 1
    BY <1>1, <1>6 DEF m
  <2>2. Total(Wants(u.cs)) = x + y
    <3>1. Desired(d) = y
      BY <1>6 DEF Desired, y
    <3>2. Total(Wants(u.cs)) = Total(Wants(w.cs)) + Desired(d)
      BY <1>1, <1>6, WantsAppended
    <3> QED BY <3>1, <3>2 DEF x
  <2>3. u.g.N = (N - i) + Len(u.cs) /\ Len(u.cs) <= i
    BY <1>1, <1>2, <1>4, <1>6, <2>1
  <2>4. asks => u.g.D = Total(Wants(u.cs)) + (s[N] - s[i])
    <3> DEFINE a == s[N]
               b == s[i - 1]
    <3>1. a \in Int /\ b \in Int /\ s[i] = b + y /\ y \in Int
      BY <1>1, <1>3
    <3>2. asks => u.g.D = x + (a - b)
      BY <1>4, <1>6
    <3> HIDE DEF a, b
    <3>3. asks => u.g.D = (x + y) + (a - s[i])
      BY <1>2, <3>1, <3>2
    <3> QED BY <2>2, <3>3 DEF a
  <2> QED BY <1>4, <1>6, <2>3, <2>4
<1>7. CASE w.skip \/ c.key[1] # t
  <2> DEFINE z == Append(w.cs, c)
  <2>1. v = [w EXCEPT !.cs = z, !.skip = FALSE]
    BY <1>7 DEF Visited, c
  <2>2. z \in Seq(Conn)
    BY <1>1
  <2> HIDE DEF z
  <2>3. v \in WalkType /\ v.cs = z /\ v.g = w.g
    BY <2>1, <2>2 DEF WalkType
  <2>4. Out(v)
    <3> HIDE DEF Out
    <3> QED BY <1>1, <1>6, <2>3 DEF z
  <2> QED BY <1>5, <2>4
<1>8. CASE ~(w.skip \/ c.key[1] # t) /\ c.recv
  <2> DEFINE d == Marked(c)
             z == Append(w.cs, d)
  <2>1. v = [w EXCEPT !.cs = z]
    BY <1>8 DEF Visited, c
  <2>2. d \in Conn /\ d.req = c.req
    <3>1. SameStream(c, d)
      BY <1>1, MarkedIs
    <3> QED BY <1>1, <3>1 DEF SameStream, Marked, Conn
  <2> HIDE DEF d
  <2>3. z \in Seq(Conn)
    BY <1>1, <2>2
  <2> HIDE DEF z
  <2>4. v \in WalkType /\ v.cs = z /\ v.g = w.g
    BY <2>1, <2>3 DEF WalkType
  <2>5. Out(v)
    <3> HIDE DEF Out
    <3> QED BY <1>6, <2>2, <2>4 DEF z
  <2> QED BY <1>5, <2>5
<1>9. CASE ~(w.skip \/ c.key[1] # t) /\ ~c.recv
  <2> DEFINE h == FinishRates(budget.policy, w.g, c)
  <2>1. v = [w EXCEPT !.g = h, !.skip = TRUE]
    BY <1>9 DEF Visited, c
  <2>2. h \in TotalsType /\ h.N = w.g.N - 1
    BY <1>1, FinishIs
  <2>3. /\ w.g.N = 1 => h.D = 0 /\ Nothing(h)
        /\ w.g.N # 1 /\ asks => h.D = w.g.D - Desired(c)
    BY <1>1, FinishSums DEF asks
  <2> HIDE DEF h
  <2>4. v \in WalkType /\ v.cs = w.cs /\ v.g = h
    BY <2>1, <2>2 DEF WalkType
  <2>5. h.N = (N - i) + m /\ m <= i /\ h.N # N
    <3> DEFINE a == h.N
               b == w.g.N
    <3>1. a = b - 1 /\ b \in Int /\ b = (N - (i - 1)) + m /\ m <= i - 1
      BY <1>2, <1>4, <2>2
    <3> HIDE DEF a, b
    <3>2. a = (N - i) + m /\ m <= i /\ a # N
      BY <1>1, <1>2, <3>1
    <3> QED BY <3>2 DEF a
  <2>6. h.N = 0 => Nothing(h)
    BY <1>2, <2>2, <2>3
  <2>7. asks => h.D = x + (s[N] - s[i])
    <3>1. CASE w.g.N = 1
      <4>1. i = N /\ m = 0
        BY <1>1, <1>2, <1>3, <1>4, <3>1
      <4>2. x = 0
        BY <1>1, <4>1, WantsNone DEF m, x
      <4>3. s[N] - s[i] = 0
        BY <1>3, <4>1
      <4> QED BY <2>3, <3>1, <4>2, <4>3
    <3>2. CASE w.g.N # 1
      <4> DEFINE a == s[N]
                 b == s[i - 1]
      <4>1. a \in Int /\ b \in Int /\ s[i] = b + y /\ y \in Int
        BY <1>1, <1>3
      <4>2. asks => h.D = (x + (a - b)) - y
        BY <1>4, <2>3, <3>2 DEF y
      <4> HIDE DEF a, b
      <4>3. asks => h.D = x + (a - s[i])
        BY <1>2, <4>1, <4>2
      <4> QED BY <4>3 DEF a
    <3> QED BY <3>1, <3>2
  <2>8. Out(v)
    BY <2>4, <2>5, <2>6, <2>7 DEF m, x
  <2> QED BY <1>5, <2>8
<1> QED BY <1>7, <1>8, <1>9

LEMMA WalkedSums ==
  ASSUME RcrtInv, Booked(rcrtcs, rates, budget.policy), NEW t, NEW w, w = Walked(t)
  PROVE  /\ w \in WalkType /\ Booked(w.cs, w.g, budget.policy)
         /\ w.g.N <= rates.N /\ (w.g.N = rates.N => w.g = rates)
<1> DEFINE N == Len(rcrtcs)
           w0 == [cs |-> <<>>, g |-> rates, skip |-> FALSE]
<1>1. N \in Nat /\ rates \in TotalsType /\ rates.N = N /\ rcrtcs \in Seq(Conn)
  BY DEF RcrtInv, ListOK
<1>2. PICK s : Sums(Wants(rcrtcs), s) /\ Total(Wants(rcrtcs)) = s[N]
  <2>1. Wants(rcrtcs) \in Seq(Int) /\ Len(Wants(rcrtcs)) = N
    BY <1>1, WantsIs
  <2> QED BY <2>1, TotalIs
<1>3. s[0] = 0 /\ s[N] \in Int
  <2>1. Len(Wants(rcrtcs)) = N
    BY <1>1, WantsIs
  <2>2. N \in 0 .. N
    BY <1>1
  <2> HIDE DEF N
  <2> QED BY <1>2, <2>1, <2>2 DEF Sums
<1> DEFINE Y == {q \in (0 .. N) \X WalkType : InWalk(q[1], q[2], s)}
<1>4. w0 \in WalkType /\ InWalk(0, w0, s)
  <2>1. w0 \in WalkType /\ w0.g = rates
    BY <1>1 DEF WalkType
  <2>2. <<>> \in Seq(Conn) /\ Len(<<>>) = 0
    OBVIOUS
  <2>3. Total(Wants(w0.cs)) = 0 /\ Len(w0.cs) = 0
    BY <2>2, WantsNone
  <2> HIDE DEF w0
  <2>4. w0.g.N = (rates.N - 0) + Len(w0.cs) /\ Len(w0.cs) <= 0
    BY <1>1, <2>1, <2>3
  <2>5. budget.policy # RCRT_FAIR_RATE => w0.g.D = Total(Wants(w0.cs)) + (s[Len(rcrtcs)] - s[0])
    <3>1. budget.policy # RCRT_FAIR_RATE => w0.g.D = s[N]
      BY <1>2, <2>1 DEF Booked
    <3> DEFINE a == s[N]
    <3>2. a = 0 + (a - 0)
      BY <1>3
    <3> QED BY <1>3, <2>3, <3>1, <3>2
  <2> QED BY <2>1, <2>4, <2>5 DEF InWalk, Booked
<1>5. ASSUME NEW i \in 1 .. N, NEW u \in WalkType, <<i - 1, u>> \in Y
      PROVE  <<i, Visited(u, rcrtcs[i], t)>> \in Y
  <2>1. InWalk(i - 1, u, s)
    BY <1>5
  <2>2. InWalk(i, Visited(u, rcrtcs[i], t), s)
    BY <1>2, <2>1, VisitedSums
  <2>3. Visited(u, rcrtcs[i], t) \in WalkType /\ i \in 0 .. N
    BY <1>1, <2>2 DEF InWalk
  <2> QED BY <2>2, <2>3
<1>6. <<0, w0>> \in Y
  <2>1. 0 \in 0 .. N
    BY <1>1
  <2> HIDE DEF w0
  <2> QED BY <1>4, <2>1
<1>7. Y \in SUBSET ((0 .. N) \X WalkType)
  OBVIOUS
<1>8. <<N, w>> \in Y
  <2> HIDE DEF Y
  <2> QED BY <1>5, <1>6, <1>7, WalkKeeps
<1>9. InWalk(N, w, s)
  BY <1>8
<1>10. /\ w \in WalkType /\ w.g.N = (rates.N - N) + Len(w.cs) /\ Len(w.cs) <= N
       /\ budget.policy # RCRT_FAIR_RATE => w.g.D = Total(Wants(w.cs)) + (s[N] - s[N])
       /\ w.g.N = 0 => Nothing(w.g)
       /\ w.g.N = rates.N => w.g = rates
  BY <1>9 DEF InWalk
<1>11. w.cs \in Seq(Conn) /\ Len(w.cs) \in Nat /\ Total(Wants(w.cs)) \in Int
  <2>1. w.cs \in Seq(Conn)
    BY <1>10 DEF WalkType
  <2> QED BY <2>1, WantsType
<1>12. budget.policy # RCRT_FAIR_RATE => w.g.D = Total(Wants(w.cs))
  <2> DEFINE a == Total(Wants(w.cs))
             b == s[N]
  <2>1. a \in Int /\ b \in Int /\ (budget.policy # RCRT_FAIR_RATE => w.g.D = a + (b - b))
    BY <1>3, <1>10, <1>11
  <2> HIDE DEF a, b
  <2>2. budget.policy # RCRT_FAIR_RATE => w.g.D = a
    BY <2>1
  <2> QED BY <2>2 DEF a
<1>13. w.g.N <= rates.N
  <2> HIDE DEF N
  <2> QED BY <1>1, <1>10, <1>11
<1> QED BY <1>10, <1>12, <1>13 DEF Booked

-----------------------------------------------------------------------------
(* Every action.                                                             *)

SharesInv == RcrtInv /\ Booked(rcrtcs, rates, budget.policy)

\* What a step owes.
Fair == Booked(rcrtcs', rates', budget'.policy) /\ RequestRespected

LEMMA ListIs == ASSUME RcrtInv PROVE rcrtcs \in Seq(Conn) /\ rates \in TotalsType /\ rates.N = Len(rcrtcs)
BY DEF RcrtInv, ListOK

LEMMA RecuredWants ==
  ASSUME NEW cs \in Seq(Conn), NEW ds, Recured(cs, ds) PROVE ds \in Seq(Conn) /\ SameWants(cs, ds)
<1>1. ds \in Seq(Conn) /\ Len(ds) = Len(cs)
  BY DEF Recured
<1>2. ASSUME NEW i \in 1 .. Len(cs) PROVE ds[i].req = cs[i].req
  <2> DEFINE a == ds[i].cur
  <2>1. ds[i] = [cs[i] EXCEPT !.cur = a] /\ cs[i] \in Conn
    BY DEF Recured
  <2> HIDE DEF a
  <2> QED BY <2>1 DEF Conn
<1> QED BY <1>1, <1>2 DEF SameWants

LEMMA UpdateWants ==
  ASSUME NEW cs \in Seq(Conn), NEW i \in 1 .. Len(cs), NEW d, d.req = cs[i].req,
         NEW ds \in Seq(Conn), ds = [cs EXCEPT ![i] = d]
  PROVE  SameWants(cs, ds)
<1>1. DOMAIN cs = 1 .. Len(cs) /\ DOMAIN ds = 1 .. Len(ds) /\ Len(cs) \in Nat /\ Len(ds) \in Nat
  OBVIOUS
<1>2. DOMAIN ds = DOMAIN cs
  OBVIOUS
<1>3. Len(ds) = Len(cs)
  <2> DEFINE a == Len(cs)
             b == Len(ds)
  <2>1. 1 .. a = 1 .. b /\ a \in Nat /\ b \in Nat
    BY <1>1, <1>2
  <2> HIDE DEF a, b
  <2>2. a = b
    BY <2>1
  <2> QED BY <2>2 DEF a, b
<1>4. ds[i] = d /\ \A j \in 1 .. Len(cs) : j # i => ds[j] = cs[j]
  BY <1>1
<1> QED BY <1>3, <1>4 DEF SameWants

LEMMA SameShares ==
  ASSUME SharesInv, RcrtInv', SameWants(rcrtcs, rcrtcs'), UNCHANGED rates, budget'.policy = budget.policy
  PROVE  Fair
<1>1. rcrtcs \in Seq(Conn) /\ rcrtcs' \in Seq(Conn)
  BY ListIs DEF SharesInv, RcrtInv, ListOK
<1>2. Wants(rcrtcs') = Wants(rcrtcs)
  BY <1>1, WantsSame
<1>3. Booked(rcrtcs', rates', budget'.policy)
  BY <1>2 DEF SharesInv, Booked
<1> QED BY <1>3 DEF Fair, RequestRespected

LEMMA GoneShares ==
  ASSUME SharesInv, NEW cs \in Seq(Conn), SameWants(rcrtcs, cs), NEW g \in TotalsType,
         g.D = rates.D, g.N = rates.N, NEW i \in 1 .. Len(cs), rcrtcs' = Without(cs, i),
         rates' = FinishRates(budget.policy, g, cs[i]), budget'.policy = budget.policy
  PROVE  Fair
<1>1. rcrtcs \in Seq(Conn) /\ rates.N = Len(rcrtcs) /\ Len(cs) = Len(rcrtcs) /\ Len(cs) \in Nat
  BY ListIs DEF SharesInv, SameWants
<1>2. Booked(cs, g, budget.policy)
  <2>1. rates.N # 0
    BY <1>1
  <2> QED BY <1>1, <2>1, SameBooked DEF SharesInv
<1>3. Booked(rcrtcs', rates', budget'.policy)
  BY <1>1, <1>2, GoneBooked
<1>4. rates'.N = rates.N - 1
  <2>1. cs[i] \in Conn
    OBVIOUS
  <2> QED BY <2>1, FinishIs
<1>5. ~(rates'.N >= rates.N)
  BY <1>1, <1>4
<1> QED BY <1>3, <1>5 DEF Fair, RequestRespected

\* Connections with the same request and the same share.
SameShare(cs, ds) ==
  Len(ds) = Len(cs) /\ \A i \in 1 .. Len(cs) : ds[i].req = cs[i].req /\ ds[i].cur = cs[i].cur

LEMMA ControlShares ==
  ASSUME SharesInv, RcrtInv', NEW cs1 \in Seq(Conn), SameWants(rcrtcs, cs1), Len(rcrtcs) # 0,
         NEW v, Verdict(v, rates), v[2].D = rates.D, v[1] = 0 => v[2] = rates, NEW good,
         NEW cs, cs = Controlled(cs1, v, good), rates' = Totals(v, rates), SameShare(cs, rcrtcs'),
         budget'.policy = budget.policy
  PROVE  Fair
<1>1. /\ rcrtcs \in Seq(Conn) /\ rates \in TotalsType /\ rates.N = Len(rcrtcs) /\ rcrtcs' \in Seq(Conn)
      /\ Len(cs1) = Len(rcrtcs)
  BY ListIs DEF SharesInv, RcrtInv, ListOK, SameWants
<1>2. rates' \in TotalsType /\ rates'.N = rates.N /\ rates'.D = rates.D /\ (rates'.R # rates.R => Applied(v, rates))
  BY <1>1, VerdictIs, ControlSums
<1>3. Recured(cs1, cs)
  BY <1>1, ControlledIs
<1>4. cs \in Seq(Conn) /\ SameWants(cs1, cs)
  BY <1>3, RecuredWants
<1>5. SameWants(rcrtcs, rcrtcs')
  <2>1. Len(cs) = Len(cs1) /\ Len(rcrtcs') = Len(cs)
    BY <1>4 DEF SameWants, SameShare
  <2> QED BY <1>1, <1>4, <2>1 DEF SameWants, SameShare
<1>6. Booked(rcrtcs', rates', budget'.policy)
  BY <1>1, <1>2, <1>5, SameBooked DEF SharesInv
<1>7. ASSUME budget.policy \in {RCRT_FAIR_RATIO, RCRT_FAIR_RATE}, rates.R # rates'.R,
             0 < rates'.R, rates'.R <= rates'.D, NEW i \in DOMAIN rcrtcs'
      PROVE  rcrtcs'[i].cur + 1 >= rcrtcs'[i].req
  <2>1. cs = AllocateFairly(budget.policy, cs1, rates', good)
    BY <1>2, <1>7 DEF Controlled
  <2>2. AllRespect(AllocateFairly(budget.policy, cs1, rates', good))
    BY <1>1, <1>2, <1>7, SharesRespect
  <2>3. i \in 1 .. Len(cs)
    <3>1. i \in 1 .. Len(rcrtcs')
      BY <1>1
    <3> QED BY <3>1 DEF SameShare
  <2>4. Respects(cs[i].cur, cs[i].req)
    BY <2>1, <2>2, <2>3 DEF AllRespect
  <2>5. rcrtcs'[i].cur = cs[i].cur /\ rcrtcs'[i].req = cs[i].req
    BY <2>3 DEF SameShare
  <2> QED BY <2>4, <2>5 DEF Respects
<1> QED BY <1>6, <1>7 DEF Fair, RequestRespected

LEMMA SYNShares == ASSUME SharesInv, RcrtInv', NEW k \in Keys, ReceiveSYN(k) PROVE Fair
<1>1. PICK a \in budget.asks, good \in SUBSET (1 .. Len(rcrtcs) + 1), junk \in Junk :
        /\ a.key = k
        /\ Share(<<NewConn(k, IF a.ms = 0 THEN 20 ELSE a.ms, junk)>> \o rcrtcs,
                 Joined(rates, IF a.ms = 0 THEN 20 ELSE a.ms), good)
  BY DEF ReceiveSYN
<1> DEFINE req == IF a.ms = 0 THEN 20 ELSE a.ms
           c == NewConn(k, req, junk)
           cs == <<c>> \o rcrtcs
           g == Joined(rates, req)
<1>2. rates' = g /\ rcrtcs' = AllocateFairly(budget.policy, cs, g, good)
  BY <1>1 DEF Share
<1>3. budget' = budget
  BY DEF ReceiveSYN
<1>4. /\ rcrtcs \in Seq(Conn) /\ rates \in TotalsType /\ rates.N = Len(rcrtcs) /\ Regular(budget)
      /\ HistoryType(top, finAt, delivered, tids) /\ top[k] = 0 /\ Booked(rcrtcs, rates, budget.policy)
  BY ListIs DEF SharesInv, RcrtInv, ReceiveSYN
<1>5. req \in Interval \ {0} /\ junk \in Interval
  <2>1. a.ms \in Interval
    BY <1>4, ScenarioIs
  <2>2. junk \in Interval
    BY RcrtAssumption
  <2> QED BY <2>1, <2>2 DEF Interval
<1> HIDE DEF req
<1>6. c \in Conn /\ c.req = req
  <2>1. c \in Conn
    BY <1>4, <1>5, NewConnIs
  <2> QED BY <2>1 DEF NewConn
<1>7. g \in TotalsType /\ g.N = rates.N + 1 /\ g.D = rates.D + Rate(req)
  <2>1. req \in Interval
    BY <1>5
  <2> QED BY <1>4, <2>1, JoinedIs, JoinedSums
<1> HIDE DEF c, g
<1>8. cs \in Seq(Conn) /\ Len(cs) = Len(rcrtcs) + 1
  BY <1>4, <1>6, PushedIs
<1>9. Total(Wants(cs)) = Total(Wants(rcrtcs)) + Rate(req)
  BY <1>4, <1>6, WantsPushed DEF Desired
<1> HIDE DEF cs
<1>10. Booked(cs, g, budget.policy) /\ g.N # 0 /\ g.N = Len(cs)
  <2>1. g.N # 0 /\ g.N = Len(cs)
    BY <1>4, <1>7, <1>8
  <2> QED BY <1>4, <1>7, <1>9, <2>1 DEF Booked
<1>11. rcrtcs' \in Seq(Conn) /\ SameWants(cs, rcrtcs')
  <2>1. Recured(cs, rcrtcs')
    BY <1>2, <1>7, <1>8, SharedIs
  <2> QED BY <1>8, <2>1, RecuredWants
<1>12. Booked(rcrtcs', rates', budget'.policy)
  BY <1>2, <1>3, <1>8, <1>10, <1>11, SameBooked
<1>13. ASSUME budget.policy \in {RCRT_FAIR_RATIO, RCRT_FAIR_RATE}, 0 < rates'.R, rates'.R <= rates'.D,
              NEW i \in DOMAIN rcrtcs'
       PROVE  rcrtcs'[i].cur + 1 >= rcrtcs'[i].req
  <2>1. AllRespect(rcrtcs')
    BY <1>2, <1>7, <1>8, <1>10, <1>13, SharesRespect
  <2>2. i \in 1 .. Len(rcrtcs')
    BY <1>11
  <2> QED BY <2>1, <2>2 DEF AllRespect, Respects
<1> QED BY <1>12, <1>13 DEF Fair, RequestRespected

\* Neither way of do_rate_control touches the sum of what was asked for.
LEMMA DecreasedKeepsD == ASSUME NEW g \in TotalsType, NEW l \in Losses PROVE Decreased(g, l).D = g.D
<1> DEFINE R == Quot(DecRatio(Delivery(g, l)) * g.R, 100)
           floor == (1000 * g.N) \div 30
           S == IF R < floor THEN floor ELSE R
           p == Delivery(g, l)
<1>1. Decreased(g, l) = [g EXCEPT !.R = S, !.lastp = p]
  BY DEF Decreased
<1> HIDE DEF S, p
<1> QED BY <1>1 DEF TotalsType

LEMMA ControlKeepsD ==
  ASSUME NEW g \in TotalsType, NEW cs, NEW c, NEW v \in Control(cs, c, g)
  PROVE  v[2].D = g.D /\ (v[1] = 0 => v[2] = g)
<1>1. ASSUME NEW l \in Losses PROVE Decreased(g, l).D = g.D
  BY DecreasedKeepsD
<1>2. Increased(g).D = g.D
  <2> DEFINE R == g.R + (IF g.slow THEN 2000 ELSE 1000)
             S == IF R > g.D /\ g.D > 0 THEN g.D ELSE R
  <2>1. Increased(g) = [g EXCEPT !.R = S]
    BY DEF Increased
  <2> HIDE DEF S
  <2> QED BY <2>1 DEF TotalsType
<1>3. CASE v = <<0, g>>
  BY <1>3
<1>4. CASE \E l \in Losses : v = <<-1, Decreased(g, l)>>
  BY <1>1, <1>4
<1>5. CASE v = <<1, Increased(g)>>
  BY <1>2, <1>5
<1>6. v = <<0, g>> \/ (\E l \in Losses : v = <<-1, Decreased(g, l)>>) \/ v = <<1, Increased(g)>>
  BY DEF Control
<1> QED BY <1>3, <1>4, <1>5, <1>6

\* Asking for what is missing changes neither the request nor the share.
LEMMA AskedShare ==
  ASSUME NEW c \in Conn, NEW a, NEW d, d = Asked(c, a) PROVE d.req = c.req /\ d.cur = c.cur
<1> DEFINE m == c.missing \ Void(c)
           e == [c EXCEPT !.missing = m]
<1>1. d = [e EXCEPT !.alarm = a]
  BY DEF Asked, AfterFeedback
<1> HIDE DEF m
<1> QED BY <1>1 DEF Conn

\* One connection changes, and asks for the same.
LEMMA UpdateShares ==
  ASSUME SharesInv, RcrtInv', NEW i \in 1 .. Len(rcrtcs), NEW d, d.req = rcrtcs[i].req,
         rcrtcs' = [rcrtcs EXCEPT ![i] = d], UNCHANGED rates, budget'.policy = budget.policy
  PROVE  Fair
<1>1. rcrtcs \in Seq(Conn) /\ rcrtcs' \in Seq(Conn)
  BY ListIs DEF SharesInv, RcrtInv, ListOK
<1>2. SameWants(rcrtcs, rcrtcs')
  BY <1>1, UpdateWants
<1> QED BY <1>2, SameShares

LEMMA DeleteShares ==
  ASSUME SharesInv, NEW i \in 1 .. Len(rcrtcs), DeleteConn(i), UNCHANGED budget PROVE Fair
<1>1. rcrtcs \in Seq(Conn) /\ rates \in TotalsType
  BY ListIs DEF SharesInv
<1>2. SameWants(rcrtcs, rcrtcs)
  BY DEF SameWants
<1>3. rcrtcs' = Without(rcrtcs, i) /\ rates' = FinishRates(budget.policy, rates, rcrtcs[i])
  BY DEF DeleteConn, DeleteFrom
<1> QED BY <1>1, <1>2, <1>3, GoneShares

LEMMA ExpireShares == ASSUME SharesInv, RcrtInv', NEW k \in Keys, Expire(k) PROVE Fair
<1> DEFINE i == At(k)
           c == rcrtcs[i]
           d == [c EXCEPT !.alarm = "expired"]
<1>1. i \in 1 .. Len(rcrtcs) /\ rcrtcs \in Seq(Conn)
  BY OpenIs, ListIs DEF Expire, SharesInv
<1>2. rcrtcs' = [rcrtcs EXCEPT ![i].alarm = "expired"] /\ UNCHANGED <<rates, budget>>
  BY DEF Expire
<1> HIDE DEF i
<1>3. c \in Conn
  BY <1>1
<1>4. rcrtcs' = [rcrtcs EXCEPT ![i] = d]
  BY <1>1, <1>2
<1>5. d.req = c.req
  BY <1>3 DEF Conn
<1> QED BY <1>1, <1>2, <1>4, <1>5, UpdateShares

LEMMA FINShares ==
  ASSUME SharesInv, RcrtInv', NEW k \in Keys, NEW n, ReceiveFIN(k, n)
  PROVE  Fair
<1> DEFINE i == At(k)
           old == rcrtcs[i]
           c == Noticed(old, SeqOf(n))
           wait == [c EXCEPT !.state = "FIN_RETX_WAIT", !.alarm = "armed",
                             !.timeoutCount = IF c.state = "FIN_RETX_WAIT" THEN c.timeoutCount ELSE 0]
           d == AfterFeedback(wait)
<1>1. i \in 1 .. Len(rcrtcs) /\ ConnOf(k) = old /\ rcrtcs \in Seq(Conn)
  BY OpenIs, ListIs DEF ReceiveFIN, SharesInv
<1>2. (IF c.missing = {} THEN DeleteConn(i) ELSE Update(i, d)) /\ UNCHANGED budget
  <2>1. c = Noticed(ConnOf(k), SeqOf(n))
    BY <1>1
  <2> QED BY <2>1 DEF ReceiveFIN
<1> HIDE DEF i
<1>3. old \in Conn
  BY <1>1
<1>4. c.req = old.req /\ DOMAIN c = DOMAIN old
  <2> DEFINE m == old.missing \cup MissedBefore(old, SeqOf(n))
             s == SeqOf(n)
  <2>1. c = old \/ c = [old EXCEPT !.missing = m, !.last = s]
    BY DEF Noticed
  <2> HIDE DEF c, m, s, old
  <2> QED BY <1>3, <2>1 DEF Conn
<1>5. d.req = c.req
  <2> DEFINE o == IF c.state = "FIN_RETX_WAIT" THEN c.timeoutCount ELSE 0
             m == wait.missing \ Void(wait)
  <2>1. wait = [c EXCEPT !.state = "FIN_RETX_WAIT", !.alarm = "armed", !.timeoutCount = o]
    OBVIOUS
  <2>2. d = [wait EXCEPT !.missing = m]
    BY DEF AfterFeedback
  <2>3. "req" \in DOMAIN c
    <3> HIDE DEF c, old
    <3> QED BY <1>3, <1>4 DEF Conn
  <2> HIDE DEF c, wait, o, m
  <2>4. wait.req = c.req
    BY <2>1, <2>3
  <2>5. d.req = wait.req
    BY <2>2
  <2> QED BY <2>4, <2>5
<1> HIDE DEF c
<1>6. CASE DeleteConn(i)
  BY <1>1, <1>2, <1>6, DeleteShares
<1>7. CASE Update(i, d)
  <2>1. rcrtcs' = [rcrtcs EXCEPT ![i] = d] /\ UNCHANGED rates
    BY <1>7 DEF Update
  <2> HIDE DEF d
  <2> QED BY <1>1, <1>2, <1>4, <1>5, <2>1, UpdateShares
<1> QED BY <1>2, <1>6, <1>7

\* The list after the connections were shared anew and one of them asked.
LEMMA OneAsked ==
  ASSUME NEW cs \in Seq(Conn), NEW i \in 1 .. Len(cs), NEW a, NEW d, d = Asked(cs[i], a),
         NEW ds \in Seq(Conn), ds = [cs EXCEPT ![i] = d]
  PROVE  SameShare(cs, ds)
<1>1. d.req = cs[i].req /\ d.cur = cs[i].cur
  BY AskedShare
<1>2. SameWants(cs, ds) /\ ds[i] = d /\ \A j \in 1 .. Len(cs) : j # i => ds[j] = cs[j]
  <2>1. SameWants(cs, ds)
    BY <1>1, UpdateWants
  <2>2. DOMAIN cs = 1 .. Len(cs)
    OBVIOUS
  <2>3. ds[i] = d
    BY <2>2
  <2>4. \A j \in 1 .. Len(cs) : j # i => ds[j] = cs[j]
    BY <2>2
  <2> QED BY <2>1, <2>3, <2>4
<1>3. ASSUME NEW j \in 1 .. Len(cs) PROVE ds[j].req = cs[j].req /\ ds[j].cur = cs[j].cur
  <2>1. CASE j = i
    BY <1>1, <1>2, <2>1
  <2>2. CASE j # i
    BY <1>2, <2>2
  <2> QED BY <2>1, <2>2
<1> QED BY <1>2, <1>3 DEF SameShare, SameWants

LEMMA FiresShares == ASSUME SharesInv, RcrtInv', NEW k \in Keys, Fires(k) PROVE Fair
<1>1. PICK i \in FirstExpired : rcrtcs[i].key = k /\ TimerFired(i)
  BY DEF Fires
<1> DEFINE old == rcrtcs[i]
           c == Counted(old)
           waiting == c.state \in {"NACK_WAIT", "FIN_RETX_WAIT"}
<1>2. /\ rcrtcs \in Seq(Conn) /\ rcrtcs' \in Seq(Conn) /\ i \in 1 .. Len(rcrtcs) /\ rates \in TotalsType
      /\ rates.N = Len(rcrtcs) /\ Regular(budget)
  BY <1>1, ListIs DEF SharesInv, RcrtInv, ListOK, FirstExpired
<1>3. old \in Conn
  BY <1>2
<1>4. \/ DeleteConn(i) /\ UNCHANGED budget
      \/ Update(i, [c EXCEPT !.alarm = "armed"]) /\ UNCHANGED budget
      \/ AskAgain(i, c)
      \/ Update(i, [old EXCEPT !.alarm = "off"]) /\ UNCHANGED budget
  BY <1>1 DEF TimerFired
<1>5. SameStream(old, c) /\ c \in Conn
  <2>1. SameStream(old, c)
    BY <1>3, CountedIs
  <2> QED BY <2>1 DEF SameStream
<1>6. c.req = old.req
  <2> DEFINE o == IF old.timeoutCount < RCRT_MAX_ALIVE_TIMEOUT THEN old.timeoutCount + 1 ELSE old.timeoutCount
  <2>1. c = [old EXCEPT !.alarm = "off", !.timeoutCount = o]
    BY DEF Counted
  <2> HIDE DEF o, c, old
  <2> QED BY <1>3, <2>1 DEF Conn
<1> HIDE DEF c
<1>7. CASE DeleteConn(i) /\ UNCHANGED budget
  BY <1>2, <1>7, DeleteShares
<1>8. CASE Update(i, [c EXCEPT !.alarm = "armed"]) /\ UNCHANGED budget
  <2> DEFINE d == [c EXCEPT !.alarm = "armed"]
  <2>1. d.req = old.req
    BY <1>5, <1>6 DEF Conn
  <2>2. rcrtcs' = [rcrtcs EXCEPT ![i] = d] /\ UNCHANGED rates
    BY <1>8 DEF Update
  <2> HIDE DEF d
  <2> QED BY <1>2, <1>8, <2>1, <2>2, UpdateShares
<1>9. CASE Update(i, [old EXCEPT !.alarm = "off"]) /\ UNCHANGED budget
  <2> DEFINE d == [old EXCEPT !.alarm = "off"]
  <2>1. d.req = old.req
    BY <1>3 DEF Conn
  <2>2. rcrtcs' = [rcrtcs EXCEPT ![i] = d] /\ UNCHANGED rates
    BY <1>9 DEF Update
  <2> HIDE DEF d
  <2> QED BY <1>2, <1>9, <2>1, <2>2, UpdateShares
<1>10. CASE Update(i, Asked(c, "armed")) /\ UNCHANGED budget
  <2> DEFINE d == Asked(c, "armed")
  <2>1. rcrtcs' = [rcrtcs EXCEPT ![i] = d] /\ UNCHANGED rates
    BY <1>10 DEF Update
  <2>2. d.req = old.req
    <3> HIDE DEF d
    <3>1. d = Asked(c, "armed")
      BY DEF d
    <3> QED BY <1>5, <1>6, <3>1, AskedShare
  <2> HIDE DEF d
  <2> QED BY <1>2, <1>10, <2>1, <2>2, UpdateShares
<1>11. CASE /\ budget' = [budget EXCEPT !.changes = budget.changes - 1]
            /\ \E l \in Losses :
                 LET v == <<-1, Decreased(rates, l)>>
                 IN  /\ rates' = Totals(v, rates)
                     /\ \E cs \in {Controlled([rcrtcs EXCEPT ![i] = [c EXCEPT !.timeoutCount = 0]], v, {})} :
                          rcrtcs' = [cs EXCEPT ![i] = Asked(cs[i], "armed")]
  <2> DEFINE c0 == [c EXCEPT !.timeoutCount = 0]
             cs1 == [rcrtcs EXCEPT ![i] = c0]
  <2>1. PICK l \in Losses :
          /\ rates' = Totals(<<-1, Decreased(rates, l)>>, rates)
          /\ \E cs \in {Controlled(cs1, <<-1, Decreased(rates, l)>>, {})} :
               rcrtcs' = [cs EXCEPT ![i] = Asked(cs[i], "armed")]
    BY <1>11
  <2> DEFINE v == <<-1, Decreased(rates, l)>>
  <2>2. PICK cs : cs = Controlled(cs1, v, {}) /\ rcrtcs' = [cs EXCEPT ![i] = Asked(cs[i], "armed")]
    BY <2>1
  <2>3. Verdict(v, rates) /\ v[2].D = rates.D /\ (v[1] = 0 => v[2] = rates)
    <3>1. l \in 0 .. 99
      BY RcrtAssumption
    <3>2. Decreased(rates, l) \in TotalsType /\ Decreased(rates, l).N = rates.N
      BY <1>2, <3>1, DecreasedIs
    <3>3. Decreased(rates, l).D = rates.D
      BY <1>2, DecreasedKeepsD
    <3> QED BY <3>2, <3>3 DEF Verdict
  <2>4. rates' = Totals(v, rates)
    BY <2>1
  <2> HIDE DEF v
  <2>5. c0 \in Conn /\ c0.req = old.req
    <3>1. 0 \in 0 .. RCRT_MAX_ALIVE_TIMEOUT
      BY RcrtAssumption
    <3> QED BY <1>5, <1>6, <3>1 DEF Conn
  <2> HIDE DEF c0
  <2>6. cs1 \in Seq(Conn)
    BY <1>2, <2>5
  <2>6a. cs1 = [rcrtcs EXCEPT ![i] = c0]
    OBVIOUS
  <2> HIDE DEF cs1
  <2>7. SameWants(rcrtcs, cs1)
    BY <1>2, <2>5, <2>6, <2>6a, UpdateWants
  <2>8. cs \in Seq(Conn) /\ Len(cs) = Len(rcrtcs)
    <3>1. Recured(cs1, cs)
      BY <1>2, <2>2, <2>3, <2>6, <2>7, ControlledIs DEF SameWants
    <3> QED BY <2>7, <3>1 DEF Recured, SameWants
  <2>9. SameShare(cs, rcrtcs')
    <3> DEFINE d == Asked(cs[i], "armed")
    <3>1. d = Asked(cs[i], "armed") /\ rcrtcs' = [cs EXCEPT ![i] = d]
      BY <2>2
    <3> HIDE DEF d
    <3> QED BY <1>2, <2>8, <3>1, OneAsked
  <2>10. Len(rcrtcs) # 0 /\ budget'.policy = budget.policy
    <3>1. budget \in Scenario
      BY <1>2 DEF Regular
    <3>2. budget'.policy = budget.policy
      BY <1>11, <3>1 DEF Scenario
    <3> QED BY <1>2, <3>2
  <2> QED BY <2>2, <2>3, <2>4, <2>6, <2>7, <2>9, <2>10, ControlShares
<1>12. CASE AskAgain(i, c)
  BY <1>10, <1>11, <1>12 DEF AskAgain, Asked
<1> QED BY <1>4, <1>7, <1>8, <1>9, <1>12

LEMMA TakeDataShares ==
  ASSUME SharesInv, RcrtInv', NEW k \in Keys, NEW n, Arrives(n, top[k], finAt[k], delivered[k], budget),
         NEW retx \in BOOLEAN, NEW asked \in BOOLEAN, TakeData(k, n, retx, asked)
  PROVE  Fair
<1> DEFINE Takes(i, w) ==
        /\ w = Taken(rcrtcs[i], n, retx)
        /\ \E v \in Control([rcrtcs EXCEPT ![i] = w.c], w.c, rates), good \in SUBSET DOMAIN rcrtcs :
             /\ v[1] # 0 => w.isNew /\ ~retx /\ budget.changes > 0
             /\ (Applied(v, rates) /\ budget.policy = RCRT_FAIR_GOODPUT) \/ good = {}
             /\ budget' = [budget EXCEPT !.changes = IF v[1] # 0 THEN budget.changes - 1 ELSE budget.changes]
             /\ \E cs \in {Controlled([rcrtcs EXCEPT ![i] = w.c], v, good)} :
                  \/ /\ w.c.missing = {} /\ w.c.state = "FIN_RETX_WAIT"
                     /\ DeleteFrom(cs, Totals(v, rates), i)
                  \/ /\ w.c.missing # {} \/ w.c.state # "FIN_RETX_WAIT"
                     /\ rates' = Totals(v, rates)
                     /\ rcrtcs' = IF w.lost \/ (v[1] = -1 /\ Applied(v, rates)) \/ asked
                                  THEN [cs EXCEPT ![i] = [AfterFeedback(cs[i]) EXCEPT !.alarm = Alarm(cs[i])]]
                                  ELSE cs
                     /\ UNCHANGED tids
<1>1. PICK i \in Positions(k) : \E w : Takes(i, w)
  BY DEF TakeData
<1>2. PICK w : Takes(i, w)
  BY <1>1
<1> DEFINE old == rcrtcs[i]
           c == w.c
           cs1 == [rcrtcs EXCEPT ![i] = c]
<1> DEFINE Settles(v, cs) ==
             \/ /\ c.missing = {} /\ c.state = "FIN_RETX_WAIT"
                /\ DeleteFrom(cs, Totals(v, rates), i)
             \/ /\ c.missing # {} \/ c.state # "FIN_RETX_WAIT"
                /\ rates' = Totals(v, rates)
                /\ rcrtcs' = IF w.lost \/ (v[1] = -1 /\ Applied(v, rates)) \/ asked
                             THEN [cs EXCEPT ![i] = [AfterFeedback(cs[i]) EXCEPT !.alarm = Alarm(cs[i])]]
                             ELSE cs
                /\ UNCHANGED tids
<1>3. PICK v \in Control(cs1, c, rates), good \in SUBSET DOMAIN rcrtcs :
        /\ budget' = [budget EXCEPT !.changes = IF v[1] # 0 THEN budget.changes - 1 ELSE budget.changes]
        /\ \E cs \in {Controlled(cs1, v, good)} : Settles(v, cs)
  BY <1>2
<1>3a. PICK cs \in {Controlled(cs1, v, good)} : Settles(v, cs)
  BY <1>3
<1>4. /\ cs = Controlled(cs1, v, good)
      /\ \/ DeleteFrom(cs, Totals(v, rates), i)
         \/ /\ rates' = Totals(v, rates)
            /\ \/ rcrtcs' = [cs EXCEPT ![i] = Asked(cs[i], Alarm(cs[i]))]
               \/ rcrtcs' = cs
  BY <1>3a DEF Asked
<1>5. /\ rcrtcs \in Seq(Conn) /\ rcrtcs' \in Seq(Conn) /\ rates \in TotalsType /\ rates.N = Len(rcrtcs)
      /\ Regular(budget) /\ ListOK(rcrtcs, top, finAt, delivered, tids, budget)
      /\ i \in 1 .. Len(rcrtcs) /\ old.key = k
  BY OpenIs, ListIs DEF SharesInv, RcrtInv, ListOK
<1>6. c \in Conn /\ c.req = old.req
  <2>1. StreamOK(old, top[k], finAt[k], delivered[k], budget)
    BY <1>5 DEF ListOK, EntryOK
  <2>2. w = Taken(old, n, retx)
    BY <1>2
  <2> HIDE DEF old
  <2>3. TakenOK(old, w, Newest(top[k], n), finAt[k], delivered[k], budget)
    BY <1>5, <2>1, <2>2, TakenIs
  <2> QED BY <2>3 DEF TakenOK, StreamOK
<1> HIDE DEF c
<1>7. cs1 \in Seq(Conn) /\ cs1 = [rcrtcs EXCEPT ![i] = c]
  BY <1>5, <1>6
<1>8. Verdict(v, rates) /\ v[2].D = rates.D /\ (v[1] = 0 => v[2] = rates)
  BY <1>3, <1>5, ControlIs, ControlKeepsD
<1> HIDE DEF cs1
<1>9. SameWants(rcrtcs, cs1)
  BY <1>5, <1>6, <1>7, UpdateWants
<1>10. Recured(cs1, cs)
  BY <1>4, <1>5, <1>7, <1>8, <1>9, ControlledIs DEF SameWants
<1>11. cs \in Seq(Conn) /\ SameWants(rcrtcs, cs) /\ Len(cs) = Len(rcrtcs)
  <2>1. cs \in Seq(Conn) /\ SameWants(cs1, cs)
    BY <1>7, <1>10, RecuredWants
  <2> QED BY <1>9, <2>1 DEF SameWants
<1>12. Len(rcrtcs) # 0 /\ budget'.policy = budget.policy
  <2>1. budget \in Scenario
    BY <1>5 DEF Regular
  <2>2. budget'.policy = budget.policy
    BY <1>3, <2>1 DEF Scenario
  <2> QED BY <1>5, <2>2
<1>13. CASE DeleteFrom(cs, Totals(v, rates), i)
  <2> DEFINE g == Totals(v, rates)
  <2>1. g \in TotalsType /\ g.N = rates.N /\ g.D = rates.D
    BY <1>5, <1>8, VerdictIs, ControlSums
  <2>2. rcrtcs' = Without(cs, i) /\ rates' = FinishRates(budget.policy, g, cs[i])
    BY <1>13 DEF DeleteFrom
  <2> HIDE DEF g
  <2>3. i \in 1 .. Len(cs)
    BY <1>5, <1>11
  <2> QED BY <1>11, <1>12, <2>1, <2>2, <2>3, GoneShares
<1>14. ASSUME rates' = Totals(v, rates), SameShare(cs, rcrtcs') PROVE Fair
  BY <1>4, <1>7, <1>8, <1>9, <1>12, <1>14, ControlShares
<1>15. CASE rates' = Totals(v, rates) /\ rcrtcs' = cs
  <2>1. SameShare(cs, rcrtcs')
    BY <1>15 DEF SameShare
  <2> QED BY <1>14, <1>15, <2>1
<1>16. CASE rates' = Totals(v, rates) /\ rcrtcs' = [cs EXCEPT ![i] = Asked(cs[i], Alarm(cs[i]))]
  <2> DEFINE a == Alarm(cs[i])
             d == Asked(cs[i], a)
  <2>1. d = Asked(cs[i], a) /\ rcrtcs' = [cs EXCEPT ![i] = d]
    BY <1>16
  <2> HIDE DEF a, d
  <2>2. SameShare(cs, rcrtcs')
    BY <1>5, <1>11, <2>1, OneAsked
  <2> QED BY <1>14, <1>16, <2>2
<1> QED BY <1>4, <1>13, <1>15, <1>16

LEMMA DataShares ==
  ASSUME SharesInv, RcrtInv', NEW k \in Keys, NEW n \in 1 .. budget.newest,
         NEW retx \in BOOLEAN, NEW asked \in BOOLEAN, ReceiveData(k, n, retx, asked)
  PROVE  UNCHANGED vars \/ Fair
<1>1. /\ Arrives(n, top[k], finAt[k], delivered[k], budget)
      /\ UNCHANGED vars \/ TakeData(k, n, retx, asked)
  BY DataArrives DEF SharesInv
<1>2. CASE TakeData(k, n, retx, asked)
  BY <1>1, <1>2, TakeDataShares
<1> QED BY <1>1, <1>2

LEMMA CloseShares == ASSUME SharesInv, RcrtInv', NEW t, ClientClose(t) PROVE Fair
<1> DEFINE w == Walked(t)
<1>1. /\ UNCHANGED <<rcrtcs, rates>> \/ (rcrtcs' = w.cs /\ rates' = w.g)
      /\ UNCHANGED budget
  BY DEF ClientClose
<1>2. CASE UNCHANGED <<rcrtcs, rates>>
  <2>1. SameWants(rcrtcs, rcrtcs')
    BY <1>2 DEF SameWants
  <2> QED BY <1>1, <1>2, <2>1, SameShares
<1>3. CASE rcrtcs' = w.cs /\ rates' = w.g
  <2>1. /\ w \in WalkType /\ Booked(w.cs, w.g, budget.policy)
        /\ w.g.N <= rates.N /\ (w.g.N = rates.N => w.g = rates)
    BY WalkedSums DEF SharesInv
  <2> HIDE DEF w
  <2>2. Booked(rcrtcs', rates', budget'.policy)
    BY <1>1, <1>3, <2>1
  <2>3. rates'.N >= rates.N => rates' = rates
    <3> DEFINE a == rates'.N
               b == rates.N
    <3>1. a \in Int /\ b \in Int /\ a <= b /\ (a = b => rates' = rates)
      BY <1>3, <2>1, ListIs DEF SharesInv, WalkType, TotalsType
    <3> HIDE DEF a, b
    <3>2. a >= b => rates' = rates
      BY <3>1
    <3> QED BY <3>2 DEF a, b
  <2> QED BY <2>2, <2>3 DEF Fair, RequestRespected
<1> QED BY <1>1, <1>2, <1>3

-----------------------------------------------------------------------------
(* The sums and the shares.                                                  *)

LEMMA InitShares == Init => SharesInv
<1> SUFFICES ASSUME Init PROVE SharesInv
  OBVIOUS
<1>1. rcrtcs \in Seq(Conn) /\ Len(rcrtcs) = 0 /\ rates = NoRates
  BY DEF Init
<1>2. Total(Wants(rcrtcs)) = 0
  BY <1>1, WantsNone
<1>3. Booked(rcrtcs, rates, budget.policy)
  BY <1>1, <1>2 DEF Booked, NoRates, Nothing
<1> QED BY <1>3, InitKeeps DEF SharesInv

LEMMA StepShares ==
  ASSUME SharesInv, [Next]_vars PROVE SharesInv' /\ (UNCHANGED vars \/ RequestRespected)
<1>1. RcrtInv'
  BY StepKeeps DEF SharesInv
<1>2. UNCHANGED vars \/ Fair
  <2>1. ASSUME NEW k \in Keys, Receive(k) PROVE UNCHANGED vars \/ Fair
    BY <1>1, <2>1, SYNShares, FINShares, DataShares DEF Receive
  <2>2. ASSUME NEW k \in Keys, Expire(k) \/ Fires(k) PROVE Fair
    BY <1>1, <2>2, ExpireShares, FiresShares
  <2>3. ASSUME NEW t \in Tids, ClientClose(t) PROVE Fair
    BY <1>1, <2>3, CloseShares
  <2> QED BY <2>1, <2>2, <2>3 DEF Next
<1>3. CASE Fair
  BY <1>1, <1>3 DEF SharesInv, Fair
<1>4. CASE UNCHANGED vars
  BY <1>1, <1>4 DEF SharesInv, Booked, vars
<1> QED BY <1>2, <1>3, <1>4 DEF Fair

LEMMA SharesMatch == SharesInv => TotalsMatch
<1> SUFFICES ASSUME SharesInv PROVE TotalsMatch
  OBVIOUS
<1>1. rates.N = Len(rcrtcs) /\ Booked(rcrtcs, rates, budget.policy)
  BY ListIs DEF SharesInv
<1> QED BY <1>1 DEF TotalsMatch, Booked, Nothing, Wants

\* Whichever connections join (rcrtransport.c:1443-1475) and leave (:1536-1581), and however
\* do_rate_control moves the rate (:603-692, :740-772), m_N and m_D are those of the
\* connections on the list; and a rate that is shared anew by ratio or equally (:385-601)
\* tells nobody to send faster than it asked.
THEOREM SharesAreSoundHolds == Spec => SharesAreSound
<1>1. SharesInv /\ [Next]_vars => SharesInv'
  BY StepShares
<1>2. SharesInv /\ SharesInv' /\ [Next]_vars => [TotalsMatch' /\ RequestRespected]_vars
  <2>1. SharesInv' => TotalsMatch'
    BY SharesMatch, PTL
  <2> QED BY <2>1, StepShares
<1> QED BY <1>1, <1>2, InitShares, PTL DEF Spec, SharesAreSound

=============================================================================
