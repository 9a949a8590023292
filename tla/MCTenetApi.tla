----------------------------- MODULE MCTenetApi -----------------------------
(* An instance of TenetApi for TLC. *)
EXTENDS TenetApi

\* What the user may write in a scenario: at most Len(args) calls, the first one
\* of `first` and the others of `later`, with at most args[i] numbers in call i,
\* one of them quoted; where `errors`, tokens that do not belong there and one
\* unknown character.
Scenario(first, later, args, errors, sends, texts, reads) ==
  [first |-> first, later |-> later, args |-> args, errors |-> errors,
   sends |-> sends, texts |-> texts, reads |-> reads, messages |-> 2 * reads, faults |-> reads]
MCBudgets ==
  {Scenario(Commands \cup {"unknown"}, {"send"}, <<5, 1>>, FALSE, 1, TRUE, 0),
   Scenario({"wait", "leds0toggle"}, {"store", "sendpkt"}, <<3, 2>>, TRUE, 1, TRUE, 0),
   Scenario({"store"}, {"add"}, <<8, 3>>, FALSE, 1, TRUE, 0),
   Scenario({"store"}, {}, <<1>>, TRUE, 2, TRUE, 0),
   Scenario({"wait"}, {"wait", "count"}, <<1, 3, 3>>, FALSE, 1, TRUE, 0),
   Scenario({}, {}, <<>>, FALSE, 2, FALSE, 2)}

Token(kind) == [kind |-> kind, name |-> "", number |-> 0]
Name(n) == [Token("name") EXCEPT !.name = n]
Number(n) == [Token("number") EXCEPT !.number = n]
Count1(t, kinds) == Cardinality({i \in DOMAIN t : t[i].kind \in kinds})
CallsIn(t) == Count1(t, {"name", "node"})
ArgsIn(t) ==
  LET starts == {i \in DOMAIN t : t[i].kind \in {"name", "node"}}
      start == IF starts = {} THEN 0 ELSE CHOOSE i \in starts : \A j \in starts : j <= i IN
  Count1(SubSeq(t, start + 1, Len(t)), {"number"})
\* The numbers tell the arguments of a task apart; 70001 is more than 16 bits.
Values(b, t) ==
  CASE ArgsIn(t) = 1 -> {1} \cup (IF b.errors THEN {10 * CallsIn(t) + 1} ELSE {})
    [] ArgsIn(t) = 2 -> {70001}
    [] OTHER -> {10 * CallsIn(t) + ArgsIn(t)}
Here(b, p, t) ==
  LET calls == CallsIn(t) IN
  (IF calls < Len(b.args)
   THEN {Name(n) : n \in IF calls = 0 THEN b.first ELSE b.later} \cup {Token("node")} ELSE {})
  \cup (IF calls > 0 /\ ArgsIn(t) < b.args[calls] THEN {Number(n) : n \in Values(b, t)} ELSE {})
  \cup (IF p.at = "unquote" \/ ~p.constant THEN {Token("'")} ELSE {})
  \cup {Token(k) : k \in {"(", ")", ",", "->", "end"}}
MCTokens(b, p, t) ==
  IF p.at = "done" THEN {}
  ELSE {x \in Here(b, p, t) : b.errors \/ x.kind \in Grammar[p.at]}
       \cup (IF b.errors /\ Count1(t, {"junk"}) = 0 THEN {Token("junk")} ELSE {})

MCMessages ==
  {<<>>, <<[type |-> 1, bytes |-> <<0, 3>>]>>,
   <<[type |-> 7, bytes |-> <<1, 2, 3>>], [type |-> 5, bytes |-> <<0, 9>>],
     [type |-> 7, bytes |-> <<0, 4>>], [type |-> 5, bytes |-> <<>>]>>,
   <<[type |-> 3, bytes |-> <<5>>], [type |-> 1, bytes |-> <<0, 3>>]>>}
=============================================================================
