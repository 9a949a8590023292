----------------------------- MODULE TenetRouter -----------------------------
(***************************************************************************)
(* The masters' routers (master/router), which pass packets between the    *)
(* base station and the transport daemon of their own master and, over     *)
(* UDP, the routers of the other masters.                                  *)
(*                                                                         *)
(* A router is one thread: it waits for its sockets and handles one packet *)
(* at a time, so that each handler is one action here.  A packet has       *)
(*   type   "col" for the collection layer, "trd" for the messages of TRD, *)
(*          whose sender is written in them too, and "other"               *)
(*   from, to   the originator and the destination: GetSrcMoteID,          *)
(*          GetDstMoteID                                                   *)
(*   src    the mote the base station got it from                          *)
(*   master   the IP of the master it entered at (lMasterIP of a datagram) *)
(*   id     of the model: which packet it is                               *)
(* Datagrams may be lost and may overtake each other; the connections to   *)
(* the serial forwarder and to transports may close at any moment.         *)
(***************************************************************************)
EXTENDS RouterTables

CONSTANTS
  Masters,           \* the local addresses of the masters
  Motes,
  Interfaces(_),     \* master -> the interfaces of its machine
  Interface,         \* TENET_ROUTER_INTERFACE
  Standalone,        \* masters that have no base station
  IPRT_PER_MRT,      \* refreshes of the IP table in one period of the other (120 / 30 s)
  Budgets,           \* the scenarios
  MaxPackets         \* bound: the packets of a scenario

\* Every master has an address of its own, made of its IP address.
ASSUME RouterAssumption ==
  /\ IPRT_PER_MRT \in Nat \ {0}
  /\ \A m \in Masters : SubSeq(GetMyIP(Interfaces(m), Interface), 3, 4) = m

\* A scenario: who may send what to whom and how many packets enter, which mote
\* is behind which master and where it goes, which routes are added and how often,
\* how many clients come, how many faults there are, whose timers run, and the
\* routes of the operating systems.
Addr == (0 .. 255) \X (0 .. 255)
IPs == [1 .. 4 -> 0 .. 255]
Sends(S) == [at : S, type : {"col", "trd", "other"}, to : Addr]
Scenarios ==
  [fromMotes : SUBSET Sends(Motes), motes : Nat,
   fromTransports : SUBSET Sends(Masters), transports : Nat,
   place : [Motes -> [master : Masters, hop : Addr]],
   places : SUBSET [mote : Motes, master : Masters, hop : Addr], moves : Nat,
   added : SUBSET [at : Masters, to : Addr, master : Masters], routes : Nat,
   clients : Nat, faults : Nat, timers : SUBSET Masters,
   hosts : [Masters -> SUBSET [dest : IPs, gateway : IPs, host : BOOLEAN]]]
ASSUME ScenarioAssumption ==
  /\ Budgets \subseteq Scenarios /\ MaxPackets \in Nat
  /\ \A b \in Budgets : b.motes + b.transports <= MaxPackets

\* No mote has the address of a master, and the operating systems have no route
\* to one: MRT_Manager would not let go of it.
ASSUME MotesAssumption ==
  /\ NoAddr \notin Motes
  /\ \A m \in Masters, x \in Motes :
       LET ip == MoteIDtoIP(GetMyIP(Interfaces(m), Interface), x) IN
       /\ \A n \in Masters : GetMyIP(Interfaces(n), Interface) # ip
       /\ \A b \in Budgets : \A r \in b.hosts[m] : r.dest # ip

VARIABLES
  routers,   \* master -> the tables (RouterTables)
  since,     \* master -> refreshes of the IP table since the other one's
  links,     \* master -> its connections: sf, and the clients in a sequence
  dead,      \* masters whose router has ended
  net,       \* the datagrams under way: to, from (IP), msg
  place,     \* environment: mote -> the master it is behind, and through which mote
  sent,      \* history: the packets, with where they came from
  up, down,  \* history: packet -> master -> times given to transports, to the motes
  age,       \* history: master -> mote -> refreshes since a packet came from it
  budget     \* the scenario, and what is left of it

tables == <<routers, since>>
world == <<links, dead, place>>
history == <<sent, up, down, age>>
vars == <<tables, world, net, history, budget>>

UART == <<0, 126>>
AnyMaster == <<255, 237>>        \* 0xFFED, also the destination of routing beacons
IP(m) == routers[m].ip
Alive == Masters \ dead
TooOld == 4

-----------------------------------------------------------------------------
(* DispatchPacket and Unicast: the router afterwards, and where the packet   *)
(* goes: to the transports (up), to the motes (down: the next hop), to other *)
(* masters (out: their IP addresses).                                        *)

Stays(s) == [s |-> s, up |-> FALSE, down |-> {}, out |-> {}]

GetSrcMoteID(msg) == IF msg.type = "other" THEN NoAddr ELSE msg.from
GetDstMoteID(msg) == msg.to

\* The originator is compared as it is in the packet, the bytes the other way
\* round.
IsLoop(s, msg) == <<msg.from[2], msg.from[1]>> = s.local

Unicast(s, msg) ==
  LET to == GetDstMoteID(msg)
      next == LookUpNextHopMaster(s, to)
      here == Stays(MasterLookedUp(s, to)) IN
  CASE next = s.ip -> [here EXCEPT !.down = {LookUpNextHopMote(s, to)}]
    [] next \notin {s.ip, NoIP} -> [here EXCEPT !.out = {next}]
    [] next = NoIP /\ (IsLoopback(s.ip) \/ to = AnyMaster) -> here
    [] OTHER -> [here EXCEPT !.out = {MoteIDtoIP(s.ip, to)}]

Addressed(s, msg, source) ==
  LET src == GetSrcMoteID(msg)
      heard == IF source = "mote" /\ src # NoAddr THEN MRT_Update(s, src, msg.src, s.ip) ELSE s
      mine == {s.local, AnyMaster} \cup (IF source = "mote" THEN {UART} ELSE {})
  IN IF GetDstMoteID(msg) \notin mine THEN Unicast(heard, msg)
     ELSE IF source = "transport" THEN [Stays(heard) EXCEPT !.down = {GetDstMoteID(msg)}]
     ELSE [Stays(heard) EXCEPT !.up = TRUE]

\* Mutated form, for OneCopy: neighbours pass a broadcast on.
Mut_Spread(s, msg, source) ==
  IF source = "mote" THEN [Stays(s) EXCEPT !.up = TRUE]
  ELSE [Stays(s) EXCEPT !.up = source = "neighbor", !.down = {Broadcast},
                        !.out = IF IsLoopback(s.ip) THEN {} ELSE {IP(m) : m \in Masters}]

Spread(s, msg, source) ==
  IF source # "transport" THEN [Stays(s) EXCEPT !.up = TRUE]
  ELSE [Stays(s) EXCEPT !.down = {Broadcast},
                        !.out = IF IsLoopback(s.ip) THEN {}
                                ELSE {IP(m) : m \in Masters}]

DispatchPacket(s, msg, source, neighbor) ==
  IF \/ source = "neighbor" /\ neighbor = s.ip
     \/ msg.type = "col" /\ source \in {"mote", "neighbor"} /\ IsLoop(s, msg)
  THEN Stays(s)
  ELSE LET t == MRT_SetUsed(s, GetSrcMoteID(msg)) IN
       IF GetDstMoteID(msg) = Broadcast THEN Spread(t, msg, source) ELSE Addressed(t, msg, source)

-----------------------------------------------------------------------------
(* The connections.  A connection that the other side has closed stays       *)
(* "closed" until it is read from, which makes it invalid; a write to it may *)
(* end the process by SIGPIPE.  "none": the socket could not be opened.      *)

Written(m, o) ==
  (IF o.down # {} THEN {links[m].sf} ELSE {}) \cup (IF o.up THEN Range(links[m].clients) ELSE {})
Reaches(m, o) == [up |-> o.up /\ "up" \in Range(links[m].clients),
                  down |-> o.down # {} /\ links[m].sf = "up"]

\* UDP to an address that is nobody's is lost.
Datagrams(m, msg, out) ==
  {[to |-> n, from |-> IP(m), msg |-> msg] : n \in {n \in Masters : IP(n) \in out}}

\* What is done with the outcome o of DispatchPacket at m; `rest` are the
\* datagrams that are still under way.
Dispatched(m, msg, o, rest) ==
  /\ routers' = [routers EXCEPT ![m] = o.s]
  /\ \E dies \in {FALSE} \cup {TRUE : l \in Written(m, o) \cap {"closed"}} :
       /\ dead' = IF dies THEN dead \cup {m} ELSE dead
       /\ net' = IF dies THEN rest ELSE rest \cup Datagrams(m, msg, o.out)
  /\ up' = [up EXCEPT ![msg.id][m] = IF Reaches(m, o).up THEN @ + 1 ELSE @]
  /\ down' = [down EXCEPT ![msg.id][m] = IF Reaches(m, o).down THEN @ + 1 ELSE @]

-----------------------------------------------------------------------------
(* The handlers.                                                            *)

Spend(what) == budget[what] > 0 /\ budget' = [budget EXCEPT ![what] = @ - 1]
\* A packet came from x, or tells of x, and m has a route to x afterwards.
HeardOf(m, x) ==
  age' = [age EXCEPT ![m] = [y \in DOMAIN @ |->
                               IF y = x /\ x \in DOMAIN routers'[m].mrt THEN 0 ELSE @[y]]]

\* A new packet enters at m.
Enters(m, type, source, from, to, src) ==
  LET msg == [id |-> Len(sent) + 1, type |-> type, from |-> from, to |-> to, src |-> src,
              master |-> IP(m)] IN
  /\ sent' = Append(sent, [source |-> source, at |-> m, to |-> to])
  /\ Dispatched(m, msg, DispatchPacket(routers[m], msg, source, NoIP), net)
  /\ IF source = "mote" /\ type = "col" /\ IsLoop(routers[m], msg) THEN UNCHANGED age
     ELSE HeardOf(m, GetSrcMoteID(msg))
  /\ UNCHANGED <<since, links, place>>

\* OnSFReceive: from the base station.
FromMote(x, type, to) ==
  LET m == place[x].master IN
  /\ m \in Alive /\ links[m].sf = "up" /\ Spend("motes")
  /\ Enters(m, type, "mote", x, to, place[x].hop)
\* CTenetTransportInterface::OnReceive.
FromTransport(m, type, to) ==
  /\ m \in Alive /\ "up" \in Range(links[m].clients) /\ Spend("transports")
  /\ Enters(m, type, "transport", m, to, NoAddr)

\* OnReceive.  What is said of the originator is entered first, whatever becomes
\* of the packet; a sender that has no entry gets one.
OnReceive(d) ==
  LET m == d.to
      src == GetSrcMoteID(d.msg)
      master == IF GetDstMoteID(d.msg) # Broadcast THEN d.msg.master ELSE MoteIDtoIP(IP(m), src)
      told == IF src # NoAddr THEN MRT_Update(routers[m], src, src, master) ELSE routers[m]
      known == IF LookUpNextHop(told, d.from) = NoIP THEN IPRT_Update(told, d.from, d.from)
               ELSE LookedUp(told, d.from)
  IN
  /\ d \in net /\ m \in Alive
  /\ IF d.from = IP(m)
     THEN net' = net \ {d} /\ UNCHANGED <<routers, dead, up, down, age>>
     ELSE /\ Dispatched(m, d.msg, DispatchPacket(known, d.msg, "neighbor", d.from), net \ {d})
          /\ HeardOf(m, src)
  /\ UNCHANGED <<since, links, place, sent, budget>>

\* ParseTR_Command: a debugger adds a route.
AddRoute(m, x, ip) ==
  /\ m \in Alive /\ Spend("routes")
  /\ routers' = [routers EXCEPT ![m] = MRT_Update(@, x, x, ip)]
  /\ HeardOf(m, x)
  /\ UNCHANGED <<since, world, net, sent, up, down>>

\* Mutated form, for Settles: both tables have the same period.
Mut_MrtIsDue(n) == n >= 1

\* Timer.  The two periods are 30 s and 120 s, and a second at most is lost each
\* time.
MrtIsDue(n) == n >= IPRT_PER_MRT - 1
RefreshIPRT(m) ==
  /\ m \in Alive /\ since[m] <= IPRT_PER_MRT
  /\ routers' = [routers EXCEPT ![m] = IPRT_Refresh(@, budget.hosts[m], Interfaces(m))]
  /\ since' = [since EXCEPT ![m] = @ + 1]
  /\ UNCHANGED <<world, net, history, budget>>
RefreshMRT(m) ==
  /\ m \in Alive /\ MrtIsDue(since[m])
  /\ routers' = [routers EXCEPT ![m] = MRT_Refresh(@)]
  /\ since' = [since EXCEPT ![m] = 0]
  /\ age' = [age EXCEPT ![m] = [x \in DOMAIN @ |-> IF @[x] < TooOld THEN @[x] + 1 ELSE TooOld]]
  /\ UNCHANGED <<world, net, sent, up, down, budget>>

-----------------------------------------------------------------------------
(* Connections, and the environment.                                        *)

Link(m, l) == links' = [links EXCEPT ![m] = l]

\* Accept: the client may fail to name its version.  No client is ever removed.
Accept(m, answers) ==
  /\ m \in Alive /\ Spend("clients")
  /\ Link(m, [links[m] EXCEPT !.clients = Append(@, IF answers THEN "up" ELSE "invalid")])
  /\ UNCHANGED <<tables, dead, place, net, history>>
ReceiveFromClient(m, i) ==
  /\ m \in Alive /\ links[m].clients[i] = "closed"
  /\ Link(m, [links[m] EXCEPT !.clients[i] = "invalid"])
  /\ UNCHANGED <<tables, dead, place, net, history, budget>>
\* CTenetSFClient::Process, for a connection that was closed: it is found out,
\* and the next time it is opened again; there is one attempt.
ReceiveFromSF(m) ==
  /\ m \in Alive /\ links[m].sf = "closed"
  /\ Link(m, [links[m] EXCEPT !.sf = "invalid"])
  /\ UNCHANGED <<tables, dead, place, net, history, budget>>
ConnectAgain(m, answers) ==
  /\ m \in Alive /\ links[m].sf = "invalid"
  /\ Link(m, [links[m] EXCEPT !.sf = IF answers THEN "up" ELSE "none"])
  /\ UNCHANGED <<tables, dead, place, net, history, budget>>
\* CheckAllSocket asks for the bit of socket -1, which may end the process.
CheckAllSocket(m) ==
  /\ m \in Alive /\ links[m].sf = "none"
  /\ dead' = dead \cup {m}
  /\ UNCHANGED <<tables, links, place, net, history, budget>>

ClientCloses(m, i) ==
  /\ links[m].clients[i] = "up" /\ Spend("faults")
  /\ Link(m, [links[m] EXCEPT !.clients[i] = "closed"])
  /\ UNCHANGED <<tables, dead, place, net, history>>
SFCloses(m) ==
  /\ links[m].sf = "up" /\ Spend("faults")
  /\ Link(m, [links[m] EXCEPT !.sf = "closed"])
  /\ UNCHANGED <<tables, dead, place, net, history>>
Lose(d) ==
  /\ d \in net /\ (d.to \in dead \/ budget.faults > 0)
  /\ net' = net \ {d}
  /\ budget' = IF d.to \in dead THEN budget ELSE [budget EXCEPT !.faults = @ - 1]
  /\ UNCHANGED <<tables, world, history>>
Moves(x, to) ==
  /\ Spend("moves") /\ place' = [place EXCEPT ![x] = to]
  /\ UNCHANGED <<tables, links, dead, net, history>>

-----------------------------------------------------------------------------

Packets == 1 .. MaxPackets
Empty == [p \in Packets |-> [m \in Masters |-> 0]]

Init ==
  /\ budget \in Budgets
  /\ routers = [m \in Masters |->
       IPRT_Refresh([local |-> m, ip |-> GetMyIP(Interfaces(m), Interface), mrt |-> <<>>,
                     iprt |-> <<>>], budget.hosts[m], Interfaces(m))]
  /\ since = [m \in Masters |-> 0]
  /\ links = [m \in Masters |-> [sf |-> IF m \in Standalone THEN "off" ELSE "up",
                                 clients |-> <<"up">>]]
  /\ dead = {} /\ net = {} /\ place = budget.place
  /\ sent = <<>> /\ up = Empty /\ down = Empty
  /\ age = [m \in Masters |-> [x \in Motes |-> TooOld]]

Next ==
  \/ \E p \in budget.fromMotes : FromMote(p.at, p.type, p.to)
  \/ \E p \in budget.fromTransports : FromTransport(p.at, p.type, p.to)
  \/ \E d \in net : OnReceive(d)
  \/ \E r \in budget.added : AddRoute(r.at, r.to, IP(r.master))
  \/ \E m \in budget.timers : RefreshIPRT(m) \/ RefreshMRT(m)
  \/ \E m \in Masters, answers \in BOOLEAN : Accept(m, answers) \/ ConnectAgain(m, answers)
  \/ \E m \in Masters : ReceiveFromSF(m) \/ CheckAllSocket(m) \/ SFCloses(m)
  \/ \E m \in Masters : \E i \in DOMAIN links[m].clients :
       ReceiveFromClient(m, i) \/ ClientCloses(m, i)
  \/ \E d \in net : Lose(d)
  \/ \E p \in budget.places : Moves(p.mote, [master |-> p.master, hop |-> p.hop])

Spec == Init /\ [][Next]_vars
\* The main loop asks the sockets and the clock again and again; a datagram that
\* waits is read, and one for a router that has ended is lost.
FairSpec ==
  /\ Spec
  /\ WF_vars(\E d \in net : OnReceive(d) \/ (d.to \in dead /\ Lose(d)))
  /\ \A m \in Masters :
       /\ WF_vars(m \in budget.timers /\ (RefreshIPRT(m) \/ RefreshMRT(m)))
       /\ WF_vars(ReceiveFromSF(m)) /\ WF_vars(\E answers \in BOOLEAN : ConnectAgain(m, answers))

-----------------------------------------------------------------------------

Waiting(p) == {d \in net : d.msg.id = p}
\* The copies of packet p: the datagrams under way to a router, and the times it
\* was given to the transports or to the motes of a master.
Copies(p) ==
  {<<"net", d.to, d>> : d \in Waiting(p)}
  \cup (UNION {{<<"up", m, i>> : i \in 1 .. up[p][m]} : m \in Masters})
  \cup (UNION {{<<"down", m, i>> : i \in 1 .. down[p][m]} : m \in Masters})
AtMostOne(S) == \A c, d \in S : c = d

\* However the routers' tables disagree, a packet is never copied: it is under
\* way to one router, or was given once to a base station or to the transports
\* of the master it is for.  Only the broadcast of a transport goes to all
\* masters, once to the transports of each other one, and to no base station
\* but that of its own.
OneCopy ==
  \A p \in DOMAIN sent :
    IF sent[p].to # Broadcast
    THEN /\ AtMostOne(Copies(p))
         /\ \A m \in Masters : up[p][m] > 0 => sent[p].to \in {m, AnyMaster, UART}
    ELSE \A m \in Masters :
           /\ AtMostOne({c \in Copies(p) : c[1] # "down" /\ c[2] = m})
           /\ down[p][m] <= IF sent[p].source = "transport" /\ m = sent[p].at THEN 1 ELSE 0
           /\ (sent[p].source = "transport") = (m = sent[p].at) => up[p][m] = 0

\* The route to a mote outlives a whole period in which no packet of it came, and
\* not two.
RoutesFollowUse ==
  \A m \in Masters, x \in Motes :
    /\ age[m][x] <= 1 => x \in DOMAIN routers[m].mrt
    /\ x \in DOMAIN routers[m].mrt => age[m][x] <= 1

\* When no new packets come, what is under way comes to an end, although routers
\* may send it back and forth: the routes that make the circle are not kept in
\* use by it.  And what was learned is forgotten, masters too, although the
\* tables mark each other's entries; only the routes of the system stay.
Settles ==
  <>[](/\ net = {}
       /\ \A m \in budget.timers \ dead :
            /\ \A ip \in DOMAIN routers[m].iprt : \E r \in budget.hosts[m] : r.dest = ip
            /\ \A x \in DOMAIN routers[m].mrt :
                 \E r \in budget.hosts[m] : r.dest = MoteIDtoIP(IP(m), x))

=============================================================================
