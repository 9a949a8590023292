----------------------------- MODULE RcrtRates -----------------------------
(***************************************************************************)
(* How the rate-controlled transport shares the network's rate among its    *)
(* connections (the first half of master/transport/rcrtransport.c).  The    *)
(* connection list is a sequence of records whose field req is the interval *)
(* the mote asked for and cur the interval it was given, both in            *)
(* milliseconds.  The doubles of the code are whole thousandths of a packet *)
(* per second, cut where the code's would carry on; where a quotient is a    *)
(* whole number the code's may fall just below it, and FallsShort says       *)
(* which do.                                                                 *)
(***************************************************************************)
EXTENDS Integers, Sequences, FiniteSets

\* Whether the double that stands for a/b is just below the whole number that a/b is:
\* 1000.0/(1000.0/60.0) is 59.99..., 1000.0/(1000.0/20.0) is 20.
CONSTANT FallsShort(_, _)

\* The four settings of -t.
RCRT_FAIR_RATIO == 1
RCRT_FAIR_RATE == 2
RCRT_FAIR_RATE_W_D == 3
RCRT_FAIR_GOODPUT == 4

\* An interval is a uint16_t.
Interval == {ms \in Nat : ms <= 65535}

\* m_N, m_D, m_R, m_slowstart, and last_dec_p in percent.
NoRates == [N |-> 0, D |-> 0, R |-> 0, slow |-> TRUE, lastp |-> 100]

With(x, Op(_)) == CHOOSE y \in {Op(z) : z \in {x}} : TRUE

\* a / b, cut towards zero as a conversion to an integer is.
Quot(a, b) == IF a < 0 THEN -((-a) \div b) ELSE a \div b
Ratio(a, b) == IF b < 0 THEN Quot(-a, -b) ELSE Quot(a, b)

\* The rate of an interval.  A connection's first cur is what malloc left there,
\* and 0 makes an infinite rate of it.
Infinite == 10000000
Rate(ms) == IF ms = 0 THEN Infinite ELSE 1000000 \div ms

\* 1000.0/rate for a rate of b/a packets per millisecond, cut to a whole number.
Cut(a, b) == IF a > 0 /\ b > 0 /\ a % b = 0 /\ FallsShort(a, b) THEN Ratio(a, b) - 1 ELSE Ratio(a, b)

\* rate2interval: a negative rate comes out as whatever is left of its interval in 16 bits.
IntervalOf(a, b) == IF b = 0 \/ Cut(a, b) >= 65534 THEN 65534 ELSE Cut(a, b) % 65536

\* The sum of a list of numbers.
Total(xs) ==
  LET sum[i \in 0 .. Len(xs)] == IF i = 0 THEN 0 ELSE sum[i - 1] + xs[i]
  IN  sum[Len(xs)]
SumOfCur(cs) == Total([i \in DOMAIN cs |-> IF cs[i].cur = 0 THEN 0 ELSE Rate(cs[i].cur)])
Desired(c) == Rate(c.req)

WithCur(cs, cur) == [i \in DOMAIN cs |-> [cs[i] EXCEPT !.cur = cur[i]]]

-----------------------------------------------------------------------------
(* The three ways to share.                                                *)

\* r_i = rho * d_i, with rho = R / D, or 1 when nothing is desired.
AllocateByRho(cs, g) ==
  IF g.D # 0 /\ g.R = 0 THEN cs
  ELSE WithCur(cs, [i \in DOMAIN cs |-> IF g.D = 0 THEN IntervalOf(cs[i].req, 1) ELSE IntervalOf(cs[i].req * g.D, g.R)])

\* Everyone R / N, whatever it asked for.
AllocateROverN(cs, g) ==
  IF g.N = 0 \/ g.R = 0 THEN cs ELSE WithCur(cs, [i \in DOMAIN cs |-> IntervalOf(1000000 * g.N, g.R)])

\* What is left of R, and for how many, when those of S have what they asked for.
Left(cs, g, S) == [R |-> g.R - Total([i \in DOMAIN cs |-> IF i \in S THEN Desired(cs[i]) ELSE 0]),
                   N |-> g.N - Cardinality(S)]

\* The connections that get what they asked for: each pass of the loop adds
\* those that ask for no more than an equal share of what is left.
Satisfied(cs, g) ==
  LET pass[n \in 0 .. Len(cs)] ==
        IF n = 0 THEN {}
        ELSE With(pass[n - 1], LAMBDA S :
               LET left == Left(cs, g, S)
               IN  S \cup {i \in DOMAIN cs \ S : Desired(cs[i]) * left.N <= left.R})
  IN  pass[Len(cs)]

\* Equal shares up to what each asked for.
DistributeR(cs, g) ==
  IF g.N = 0 THEN cs
  ELSE With(Satisfied(cs, g), LAMBDA S :
         LET left == Left(cs, g, S)
         IN  WithCur(cs, [i \in DOMAIN cs |->
                       IF i \in S THEN cs[i].req ELSE IntervalOf(1000000 * left.N, left.R)]))

\* What was gained is shared in proportion to how far each goodput is below
\* what was asked for; `good` is the set of those that get all they asked for.
AppendByGoodput(cs, gained, good) ==
  LET short == [i \in DOMAIN cs |-> IF i \in good THEN 0 ELSE Desired(cs[i])]
      total == Total(short)
  IN  IF total = 0 THEN cs
      ELSE WithCur(cs, [i \in DOMAIN cs |->
             IF cs[i].cur = 0 THEN 0
             ELSE IntervalOf(1000000, Rate(cs[i].cur) + Ratio(gained * short[i], total))])

AllocateFairly(policy, list, totals, good) ==
  With(list, LAMBDA cs : With(totals, LAMBDA g :
    CASE policy = RCRT_FAIR_RATE -> DistributeR(cs, g)
      [] policy = RCRT_FAIR_RATE_W_D -> AllocateROverN(cs, g)
      [] policy = RCRT_FAIR_GOODPUT /\ g.R > SumOfCur(cs) -> AppendByGoodput(cs, g.R - SumOfCur(cs), good)
      [] OTHER -> AllocateByRho(cs, g)))

-----------------------------------------------------------------------------
(* The four occasions to share anew.  Each is the new totals.               *)

\* adjust_rates_at_node_join.
Joined(g, req) ==
  LET more == IF g.R = 0 \/ g.N = 0 \/ (g.slow /\ g.R <= 25000)
              THEN (IF req < 2000 THEN 500 ELSE Rate(req)) ELSE 0
  IN  [g EXCEPT !.R = @ + more, !.D = @ + Rate(req), !.N = @ + 1]

\* A mutated form, for SharesAreSound: the last connection's remainders stay.
Mut_FinishRates(policy, g, c) ==
  [g EXCEPT !.R = @ - Rate(c.cur), !.N = @ - 1]

\* The totals when connection c leaves, in finish_rcrt_connection.
FinishRates(policy, g, c) ==
  LET R == g.R - Rate(c.cur)
      D == IF policy = RCRT_FAIR_RATE THEN g.D ELSE g.D - Desired(c)
  IN  IF g.N = 1 THEN [NoRates EXCEPT !.lastp = g.lastp]
      ELSE [g EXCEPT !.N = @ - 1, !.D = D, !.R = IF policy # RCRT_FAIR_RATE /\ R > D THEN D ELSE R]

\* increase_all_rate.
Increased(g) ==
  LET R == g.R + (IF g.slow THEN 2000 ELSE 1000)
  IN  [g EXCEPT !.R = IF R > g.D /\ g.D > 0 THEN g.D ELSE R]

\* decrease_all_rate, for a loss of so many percent: the delivery rate counts
\* against the one used last, and one decrease in a row is skipped.
Delivery(g, loss) == IF 100 - loss < g.lastp THEN (100 * (100 - loss)) \div g.lastp ELSE 100
DecRatio(p) == LET r == (100 * p) \div (200 - p)
               IN  IF r < 50 THEN 50 ELSE IF r > 98 THEN 100 ELSE r
Decreased(g, loss) ==
  LET R == Quot(DecRatio(Delivery(g, loss)) * g.R, 100)
      floor == (1000 * g.N) \div 30
  IN  [g EXCEPT !.R = IF R < floor THEN floor ELSE R, !.lastp = Delivery(g, loss)]

=============================================================================
