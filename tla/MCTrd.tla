------------------------------- MODULE MCTrd --------------------------------
EXTENDS TrdNetwork

Among(links, tasks, losses, restarts, ticks, booting) ==
  [links |-> links, tasks |-> tasks, losses |-> losses, restarts |-> restarts,
   ticks |-> ticks, clock |-> [n \in Nodes |-> 0], booting |-> booting]

Pair == {<<1, 2>>, <<2, 1>>}
Chain == Pair \cup {<<2, 3>>, <<3, 2>>}

MCScenarios == {
  Among(Pair, <<2, 2>>, 2, 0, 0, {}),           \* losses of either half of two tasks
  Among(Pair, <<1, 1, 1, 1, 1>>, 1, 0, 0, {}),  \* so many that the cache is too short
  Among(Pair, <<1, 1, 1, 1, 1>>, 0, 0, 1, {}),  \*   for them, of one age and of two
  Among(Pair, <<1>>, 1, 1, 0, {}),              \* a restart
  Among(Pair, <<1, 1>>, 0, 1, 0, {}),           \* and one between two tasks
  Among(Pair, <<1, 1>>, 1, 0, 4, {}),           \* packets get so old that they are forgotten
  Among(Pair, <<1, 1>>, 1, 0, 0, {2}),          \* a node that starts
  Among(Pair, <<1>>, 0, 0, 0, {1, 2}),          \* all start
  Among(Chain, <<1, 2>>, 0, 0, 0, {}),          \* a node in between
  Among(Chain, <<2>>, 1, 0, 0, {})}

\* FairSpec with the guards written out: TLC evaluates ENABLED of a handler at a great
\* cost.  (Every step of these actions changes the state, except that of an alarm of
\* inittimer that finds the node waiting for an answer.)
MCFairSpec ==
  /\ Spec
  /\ \A l \in Links : []<>(link[l] = <<>>) \/ []<><<Receive(l)>>_vars
  /\ \A n \in Nodes :
       /\ <>[](~Quiet(n) \/ n \notin Running)
            \/ []<><<n \in Running /\ (TrickleFires(n) \/ TrickleInterval(n))>>_vars
       /\ []<>(~Quiet(n) \/ n \notin Running \/ ~node[n].initAlarm \/ node[n].rx)
            \/ []<><<n \in Running /\ InitTimer(n)>>_vars
       /\ []<>(~Quiet(n) \/ n \notin Running \/ ~node[n].recoverAlarm)
            \/ []<><<n \in Running /\ RecoverTimer(n)>>_vars
=============================================================================
