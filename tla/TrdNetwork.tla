----------------------------- MODULE TrdNetwork -----------------------------
(***************************************************************************)
(* Masters whose base stations are in radio range of one another, all      *)
(* running TrdNode.  One of them, Origin, disseminates tasks; any may be   *)
(* restarted, with nothing left of what it knew.                           *)
(*                                                                         *)
(* A link holds what was broadcast and is not received yet, in order.  Any  *)
(* of it may be lost.                                                      *)
(***************************************************************************)
EXTENDS TrdNode

CONSTANTS
  Nodes, Origin,
  Scenarios,    \* [links: pairs of nodes in range, tasks: fragments of each task,
                \*  losses, restarts, booting: nodes that start anew,
                \*  ticks: units of age that pass, clock: those that passed for a node]
  MaxInFlight   \* bound: messages on all links when a timer fires

VARIABLES
  node,         \* the globals of each node
  link,         \* what is on each link
  left          \* the scenario, as far as it is still to come

vars == <<node, link, left>>

ASSUME NetworkAssumption ==
  /\ Origin \in Nodes /\ 0 \notin Nodes
  /\ \A c \in Scenarios : c.links \subseteq Nodes \X Nodes /\ c.booting \subseteq Nodes

Links == Nodes \X Nodes
Running == {l[1] : l \in left.links}

\* A node in STEADY that has heard nothing yet: after the three stages of inittimer.
Settled == [Booted EXCEPT !.phase = "STEADY", !.done = TRUE, !.initAlarm = FALSE]

Init ==
  /\ left \in Scenarios
  /\ node = [n \in Nodes |-> IF n \in left.booting THEN Booted ELSE Settled]
  /\ link = [l \in Links |-> <<>>]

\* trd_rebroadcast, trd_send_summary, trd_send_request, as node n hears them
\* (the radio drops the request that is addressed to another).
Heard(out, n) == SelectSeq(out, LAMBDA m : m.kind = "request" => m.to \in {0, n})

\* Node n becomes d, and what it sends goes out, on top of the links as c.
Becomes(n, d, c) ==
  \E e \in {d} :
    /\ node' = [node EXCEPT ![n] = [e EXCEPT !.out = <<>>]]
    /\ link' = [l \in Links |-> IF l[1] = n /\ l \in left.links
                               THEN c[l] \o Heard(e.out, l[2]) ELSE c[l]]

-----------------------------------------------------------------------------
(* Receiving (trd_receive).                                                *)

Arrives(l, kind, d) ==
  /\ link[l] # <<>> /\ Head(link[l]).kind = kind
  /\ Becomes(l[2], d, [link EXCEPT ![l] = Tail(@)])
  /\ UNCHANGED left

ReceivePacket(l) == Arrives(l, "msg", NewMsg(node[l[2]], l[2], Head(link[l])))
ReceiveSummary(l) == Arrives(l, "summary", SummaryReceived(node[l[2]], Head(link[l]), l[1]))
ReceiveRequest(l) == Arrives(l, "request", RequestReceived(node[l[2]], Head(link[l])))
Receive(l) == ReceivePacket(l) \/ ReceiveSummary(l) \/ ReceiveRequest(l)

Lose(l) ==
  /\ link[l] # <<>> /\ left.losses > 0
  /\ left' = [left EXCEPT !.losses = @ - 1]
  /\ link' = [link EXCEPT ![l] = Tail(@)]
  /\ UNCHANGED node

-----------------------------------------------------------------------------
(* The node's own steps.  Timers are slow against the radio: what a node   *)
(* sent is received or lost when its next alarm comes.                     *)

Quiet(n) ==
  /\ \A l \in Links : l[1] = n => link[l] = <<>>
  /\ SumFunctionOnSet([l \in Links |-> Len(link[l])], Links) <= MaxInFlight

Step(n, d) == Quiet(n) /\ Becomes(n, d, link) /\ UNCHANGED left

TrickleFires(n) == node[n].pre /\ Step(n, TimerFired(node[n]))
TrickleInterval(n) == ~node[n].pre /\ Step(n, TimerReset(node[n]))
InitTimer(n) == node[n].initAlarm /\ Step(n, InitTimerFired(node[n]))
RecoverTimer(n) == node[n].recoverAlarm /\ Step(n, RecoverTimerFired(node[n]))

\* A unit of age passes for a node, no faster than for the others: it is long against
\* the phases in which a node repeats a packet or sends what was asked for.
Tick(n) ==
  /\ left.clock[n] < left.ticks
  /\ \A m \in Running : /\ left.clock[n] <= left.clock[m]
                        /\ node[m].phase # "FAST_PACKET" /\ ~node[m].recoverAlarm
  /\ \A l \in Links : link[l] = <<>>
  /\ left' = [left EXCEPT !.clock[n] = @ + 1]
  /\ Becomes(n, AgingTimerFired(node[n]), link)

\* trd_transport_send, refused until the node is ready.
SendTask ==
  /\ left.tasks # <<>> /\ node[Origin].done
  /\ left' = [left EXCEPT !.tasks = Tail(@)]
  /\ Becomes(Origin, TaskSent(node[Origin], Origin, Len(left.tasks), Head(left.tasks)), link)

\* The daemon of a master is started again.
Restart(n) ==
  /\ left.restarts > 0 /\ left' = [left EXCEPT !.restarts = @ - 1]
  /\ Becomes(n, Booted, link)

Next ==
  \/ \E l \in left.links : Receive(l) \/ Lose(l)
  \/ \E n \in Running : TrickleFires(n) \/ TrickleInterval(n) \/ InitTimer(n) \/ RecoverTimer(n)
  \/ \E n \in Running : Tick(n) \/ Restart(n)
  \/ SendTask

Spec == Init /\ [][Next]_vars

\* What is not lost is received, and timers fire, that of trickle also when the radio
\* is busy now and again: it is a deadline of the clock.
FairSpec ==
  /\ Spec
  /\ \A l \in Links : WF_vars(Receive(l))
  /\ \A n \in Nodes : /\ SF_vars(n \in Running /\ (TrickleFires(n) \/ TrickleInterval(n)))
                      /\ WF_vars(n \in Running /\ InitTimer(n))
                      /\ WF_vars(n \in Running /\ RecoverTimer(n))

-----------------------------------------------------------------------------
(* Properties.                                                             *)

Entry == [seqno : TrdNumbers, memloc : 0 .. TRD_MEM_NUM_PKTS - 1, age : 1 .. TRD_AGE_MAX]

TypeOK ==
  \A n \in Nodes :
    LET d == node[n] IN
    /\ d.phase \in Phases /\ {d.rx, d.done, d.pre, d.initAlarm, d.recoverAlarm} \subseteq BOOLEAN
    /\ d.rx => d.phase \in Starting \cup {"STEADY"}
    /\ Len(d.table) <= TRD_NODE_ENTRIES
    /\ \A i \in DOMAIN d.table :
         /\ d.table[i].origin \in Nodes
         /\ Len(d.table[i].cache) \in 1 .. TRD_CACHE_ENTRIES_PER_NODE
         /\ \A j \in DOMAIN d.table[i].cache : d.table[i].cache[j] \in Entry
    /\ Len(d.recover) <= TRD_CACHE_ENTRIES_PER_NODE

\* A node hands up the packets of an origin in the order they were numbered, none of
\* them twice, however they are lost, repeated and recovered, until it forgets the
\* origin: a neighbour that still remembers it, because a later packet got lost, then
\* sends all it has again, and the node takes it for new.
HandedUpInOrder ==
  \A n \in Nodes : \A i, j \in DOMAIN node[n].up :
    i < j => TrdAfter(node[n].up[j].seqno, node[n].up[i].seqno)

\* What is put together from fragments is one task, whole, unless a packet is missing
\* between two of them: the fragments of a task do not say which task they are of, and
\* a node that has fallen too far behind goes on with what it hears.
Missing(f) == \E i \in 2 .. Len(f) : f[i].seqno # trd_seqno_next(f[i - 1].seqno)
OnlyWholeTasks ==
  \A n \in Nodes : \A k \in DOMAIN node[n].whole :
    LET f == node[n].whole[k]
    IN  \/ Missing(f)
        \/ /\ Len(f) = f[1].part.tot
           /\ \A i \in DOMAIN f : f[i].part.index = i /\ f[i].part.task = f[1].part.task

\* The memory still holds every packet that the table says it has: what is sent again
\* for a request is what was asked for.
RecoveredIsGenuine(n) ==
  \A o \in Nodes : \A s \in Seqnos(CacheOf(node[n].table, o)) :
    Meta(InMemory(node[n], [origin |-> o, seqno |-> s])) = [origin |-> o, seqno |-> s]

\* The packets of an origin a node has are consecutive, which a request for all of
\* them from the oldest on relies on.
CacheIsContiguous(n) ==
  \A o \in Nodes :
    LET S == Seqnos(CacheOf(node[n].table, o))
    IN  \A s \in S : s = Greatest(S) \/ trd_seqno_next(s) \in S

\* The types, and that a node can serve a request: what its table says it has is one
\* range of packets, all of them still in its memory, as long as it was always the
\* oldest that gave way (of packets of one age it is the first of the array, which is
\* the oldest only the first time).
CacheServes ==
  TypeOK /\ \A n \in Nodes : node[n].jumbled \/ (RecoveredIsGenuine(n) /\ CacheIsContiguous(n))

Newest(n) == LET S == Seqnos(CacheOf(node[n].table, Origin))
             IN  IF S = {} THEN TRD_SEQNO_UNKNOWN ELSE Greatest(S)
IsFresh(n) == Newest(n) \in TrdNumbers
              /\ EntryOf(node[n].table, Origin, Newest(n)).age < TRD_AGE_NO_SUMMARY

\* Once no more is sent, the last packet that any node has of Origin gets to all, if it
\* does not get old before that.  A node asks for the packet after the youngest it has.
\* Where that is not its last one, or where a neighbour let another than its oldest go,
\* no neighbour may have what it asks for, and it asks on and on.
CatchesUp ==
  <>[](\/ \E n \in Running : node[n].jumbled \/ LastSeqno(CacheOf(node[n].table, Origin)) # Newest(n)
       \/ \A n, m \in Running : IsFresh(n) => Newest(m) \in TrdNumbers
                                               /\ ~TrdAfter(Newest(n), Newest(m)))

=============================================================================
