--------------------------- MODULE InOrderStream ---------------------------
(***************************************************************************)
(* What a reliable stream promises its application: packets are handed     *)
(* over in the order they were sent, each once, and one is passed over     *)
(* only when it is Horizon packets older than the newest that arrived.     *)
(***************************************************************************)
EXTENDS Naturals, FiniteSets

CONSTANTS Streams, Horizon

VARIABLES
  newest,   \* index of the newest packet that arrived on each stream
  handed,   \* indices handed to the application
  calls     \* how many times the application was called

vars == <<newest, handed, calls>>

Init == /\ newest = [k \in Streams |-> 0]
        /\ handed = [k \in Streams |-> {}]
        /\ calls = [k \in Streams |-> 0]

\* One arrival on stream k hands over the packets of S, perhaps none.
HandOver(k, S) ==
  /\ handed'[k] = handed[k] \cup S
  /\ calls'[k] = calls[k] + Cardinality(S)
  /\ newest'[k] >= newest[k]
  /\ \A n \in S : /\ n <= newest'[k]
                  /\ \A m \in handed[k] : m < n
                  /\ \A m \in 1 .. n : m \in handed'[k] \/ m + Horizon <= newest'[k]

Untouched(k) == /\ handed'[k] = handed[k]
                /\ calls'[k] = calls[k]
                /\ newest'[k] = newest[k]

Next == \E k \in Streams :
          /\ HandOver(k, handed'[k] \ handed[k])
          /\ \A j \in Streams \ {k} : Untouched(j)

Spec == Init /\ [][Next]_vars

=============================================================================
