--------------------------- MODULE TenetRouter_proofs ---------------------------
(***************************************************************************)
(* Proofs about the routers: a packet is never copied, whatever the tables *)
(* of the routers hold.                                                    *)
(***************************************************************************)
EXTENDS TenetRouter, TLAPS

(* What the tables hold does not matter here: a router is known by its       *)
(* addresses, which no handler changes.                                      *)

Router(s, m) ==
  /\ {"local", "ip", "mrt", "iprt"} \subseteq DOMAIN s
  /\ s.local = m /\ s.ip = GetMyIP(Interfaces(m), Interface)

\* Two masters have different IP addresses.
LEMMA OwnAddress ==
  ASSUME NEW m \in Masters, NEW n \in Masters,
         GetMyIP(Interfaces(m), Interface) = GetMyIP(Interfaces(n), Interface)
  PROVE  m = n
BY RouterAssumption

\* The operations of the tables.
LEMMA TablesKeep ==
  ASSUME NEW s, NEW m, Router(s, m)
  PROVE  /\ \A x : Router(MRT_SetUsed(s, x), m)
         /\ \A x, next, master : Router(MRT_Update(s, x, next, master), m)
         /\ \A x : Router(LookedUp(s, x), m)
         /\ \A x : Router(MasterLookedUp(s, x), m)
         /\ \A x, next : Router(IPRT_Update(s, x, next), m)
         /\ \A routes, interfaces : Router(IPRT_Refresh(s, routes, interfaces), m)
         /\ Router(MRT_Refresh(s), m)
<1>1. \A x : Router(MRT_SetUsed(s, x), m)
  BY DEF Router, MRT_SetUsed
<1>2. \A x : Router(LookedUp(s, x), m)
  BY DEF Router, LookedUp
<1>3. \A x, next, master : Router(MRT_Update(s, x, next, master), m)
  <2>1. ASSUME NEW x, NEW next, NEW master
        PROVE  \/ MRT_Update(s, x, next, master) = s
               \/ MRT_Update(s, x, next, master) = MRT_SetUsed(s, x)
               \/ \E t : MRT_Update(s, x, next, master) = [s EXCEPT !.mrt = t]
    BY DEF MRT_Update
  <2>2. \A t : Router([s EXCEPT !.mrt = t], m)
    BY DEF Router
  <2> QED BY <1>1, <2>1, <2>2
<1>4. \A x, next : Router(IPRT_Update(s, x, next), m)
  BY DEF Router, IPRT_Update
<1>5. \A x : Router(MasterLookedUp(s, x), m)
  BY <1>2 DEF MasterLookedUp
<1>6. Router(IPRT_Aged(s), m)
  BY DEF Router, IPRT_Aged
<1>7. \A routes, interfaces : Router(IPRT_Refresh(s, routes, interfaces), m)
  BY <1>6 DEF Router, IPRT_Refresh
<1>8. Router(MRT_Refresh(s), m)
  BY DEF Router, MRT_Refresh
<1> QED BY <1>1, <1>2, <1>3, <1>4, <1>5, <1>7, <1>8

-----------------------------------------------------------------------------
(* What becomes of a packet in one router.                                  *)

\* A packet for one destination goes one way; a broadcast from outside goes to the
\* transports only, and one of a transport does not.
OneWay(o, m, to, source) ==
  /\ Router(o.s, m) /\ o.up \in BOOLEAN
  /\ to # Broadcast => /\ ~(o.up /\ o.down # {})
                       /\ o.up \/ o.down # {} => o.out = {}
                       /\ \A x, y \in o.out : x = y
                       /\ o.up => to \in {m, AnyMaster, UART}
  /\ to = Broadcast => IF source = "transport" THEN ~o.up ELSE o.down = {} /\ o.out = {}

LEMMA UnicastOneWay ==
  ASSUME NEW s, NEW m, NEW msg, NEW source, Router(s, m), msg.to # Broadcast
  PROVE  OneWay(Unicast(s, msg), m, msg.to, source)
<1> DEFINE here == Stays(MasterLookedUp(s, msg.to))
           next == LookUpNextHopMaster(s, msg.to)
           lost == next = NoIP /\ (IsLoopback(s.ip) \/ msg.to = AnyMaster)
           sent1 == [here EXCEPT !.out = {next}]
           sent2 == [here EXCEPT !.out = {MoteIDtoIP(s.ip, msg.to)}]
           given == [here EXCEPT !.down = {LookUpNextHopMote(s, msg.to)}]
<1>1. Unicast(s, msg) = CASE next = s.ip -> given
                          [] next \notin {s.ip, NoIP} -> sent1
                          [] lost -> here
                          [] OTHER -> sent2
  BY DEF Unicast, GetDstMoteID
<1>2. Router(MasterLookedUp(s, msg.to), m)
  BY TablesKeep
<1>3. OneWay(given, m, msg.to, source)
  BY <1>2 DEF OneWay, Stays
<1>4. OneWay(sent1, m, msg.to, source)
  BY <1>2 DEF OneWay, Stays
<1>5. OneWay(here, m, msg.to, source)
  BY <1>2 DEF OneWay, Stays
<1>6. OneWay(sent2, m, msg.to, source)
  BY <1>2 DEF OneWay, Stays
<1> HIDE DEF here, next, lost, sent1, sent2, given
<1>7. Unicast(s, msg) \in {given, sent1, here, sent2}
  BY <1>1
<1> QED BY <1>3, <1>4, <1>5, <1>6, <1>7

LEMMA DispatchOneWay ==
  ASSUME NEW s, NEW m, NEW msg, NEW source, NEW neighbor, Router(s, m)
  PROVE  OneWay(DispatchPacket(s, msg, source, neighbor), m, msg.to, source)
<1> DEFINE t == MRT_SetUsed(s, GetSrcMoteID(msg))
<1>1. Router(t, m)
  BY TablesKeep
<1>2. OneWay(Stays(s), m, msg.to, source)
  BY DEF OneWay, Stays
<1> HIDE DEF t
<1>3. ASSUME msg.to = Broadcast PROVE OneWay(Spread(t, msg, source), m, msg.to, source)
  BY <1>1, <1>3 DEF OneWay, Spread, Stays
<1>4. ASSUME msg.to # Broadcast PROVE OneWay(Addressed(t, msg, source), m, msg.to, source)
  <2> DEFINE src == GetSrcMoteID(msg)
             heard == IF source = "mote" /\ src # NoAddr
                      THEN MRT_Update(t, src, msg.src, t.ip) ELSE t
             mine == {t.local, AnyMaster} \cup (IF source = "mote" THEN {UART} ELSE {})
  <2>1. Router(heard, m)
    BY <1>1, TablesKeep
  <2>2. mine \subseteq {m, AnyMaster, UART}
    BY <1>1 DEF Router
  <2>3. Addressed(t, msg, source) =
          IF msg.to \notin mine THEN Unicast(heard, msg)
          ELSE IF source = "transport" THEN [Stays(heard) EXCEPT !.down = {msg.to}]
          ELSE [Stays(heard) EXCEPT !.up = TRUE]
    BY DEF Addressed, GetDstMoteID
  <2> HIDE DEF heard, mine
  <2>4. OneWay(Unicast(heard, msg), m, msg.to, source)
    BY <1>4, <2>1, UnicastOneWay
  <2>5. OneWay([Stays(heard) EXCEPT !.down = {msg.to}], m, msg.to, source)
    BY <1>4, <2>1 DEF OneWay, Stays
  <2>6. msg.to \in mine => OneWay([Stays(heard) EXCEPT !.up = TRUE], m, msg.to, source)
    BY <1>4, <2>1, <2>2 DEF OneWay, Stays
  <2> QED BY <2>3, <2>4, <2>5, <2>6
<1>5. \/ DispatchPacket(s, msg, source, neighbor) = Stays(s)
      \/ msg.to = Broadcast /\ DispatchPacket(s, msg, source, neighbor) = Spread(t, msg, source)
      \/ msg.to # Broadcast /\ DispatchPacket(s, msg, source, neighbor) = Addressed(t, msg, source)
  BY DEF DispatchPacket, GetDstMoteID, t
<1> QED BY <1>2, <1>3, <1>4, <1>5

-----------------------------------------------------------------------------
(* The copies of one packet: W are the datagrams under way, u and g say how   *)
(* often each master gave it to its transports and to its motes.             *)

MyIP(m) == GetMyIP(Interfaces(m), Interface)
Origins == [source : {"mote", "transport"}, at : Masters, to : Addr]
Counts == [Masters -> Nat]
None == [m \in Masters |-> 0]

CopiesOf(W, u, g) ==
  {<<"net", d.to, d>> : d \in W}
  \cup (UNION {{<<"up", m, i>> : i \in 1 .. u[m]} : m \in Masters})
  \cup (UNION {{<<"down", m, i>> : i \in 1 .. g[m]} : m \in Masters})

\* OneCopy of a packet of origin h.
PacketOK(h, W, u, g) ==
  IF h.to # Broadcast
  THEN /\ AtMostOne(CopiesOf(W, u, g))
       /\ \A m \in Masters : u[m] > 0 => h.to \in {m, AnyMaster, UART}
  ELSE \A m \in Masters :
         /\ AtMostOne({c \in CopiesOf(W, u, g) : c[1] # "down" /\ c[2] = m})
         /\ g[m] <= IF h.source = "transport" /\ m = h.at THEN 1 ELSE 0
         /\ (h.source = "transport") = (m = h.at) => u[m] = 0

Bumped(u, m, r) == [u EXCEPT ![m] = IF r THEN @ + 1 ELSE @]

\* What a copy is.
LEMMA CopyIs ==
  ASSUME NEW W, NEW u \in Counts, NEW g \in Counts
  PROVE  /\ \A d \in W : <<"net", d.to, d>> \in CopiesOf(W, u, g)
         /\ \A m \in Masters : \A i \in 1 .. u[m] : <<"up", m, i>> \in CopiesOf(W, u, g)
         /\ \A m \in Masters : \A i \in 1 .. g[m] : <<"down", m, i>> \in CopiesOf(W, u, g)
         /\ \A c \in CopiesOf(W, u, g) :
              \/ \E d \in W : c = <<"net", d.to, d>>
              \/ \E m \in Masters : \E i \in 1 .. u[m] : c = <<"up", m, i>>
              \/ \E m \in Masters : \E i \in 1 .. g[m] : c = <<"down", m, i>>
BY DEF CopiesOf, Counts

\* A datagram that is the only copy.
LEMMA OnlyOne ==
  ASSUME NEW W, NEW u \in Counts, NEW g \in Counts, NEW d \in W,
         AtMostOne(CopiesOf(W, u, g))
  PROVE  W = {d} /\ u = None /\ g = None
<1>1. <<"net", d.to, d>> \in CopiesOf(W, u, g)
  BY CopyIs
<1>2. ASSUME NEW x \in W PROVE x = d
  <2>1. <<"net", x.to, x>> \in CopiesOf(W, u, g)
    BY CopyIs
  <2> QED BY <1>1, <2>1 DEF AtMostOne
<1>3. ASSUME NEW m \in Masters PROVE u[m] = 0
  <2>1. SUFFICES ASSUME u[m] # 0 PROVE FALSE
    OBVIOUS
  <2>2. u[m] \in 1 .. u[m]
    BY <2>1 DEF Counts
  <2>3. <<"up", m, u[m]>> \in CopiesOf(W, u, g)
    BY <2>2, CopyIs
  <2> QED BY <1>1, <2>3 DEF AtMostOne
<1>4. ASSUME NEW m \in Masters PROVE g[m] = 0
  <2>1. SUFFICES ASSUME g[m] # 0 PROVE FALSE
    OBVIOUS
  <2>2. g[m] \in 1 .. g[m]
    BY <2>1 DEF Counts
  <2>3. <<"down", m, g[m]>> \in CopiesOf(W, u, g)
    BY <2>2, CopyIs
  <2> QED BY <1>1, <2>3 DEF AtMostOne
<1> QED BY <1>2, <1>3, <1>4 DEF Counts, None

\* With fewer datagrams there are no more copies.
LEMMA FewerCopies ==
  ASSUME NEW h \in Origins, NEW W, NEW V \in SUBSET W, NEW u \in Counts, NEW g \in Counts,
         PacketOK(h, W, u, g)
  PROVE  PacketOK(h, V, u, g)
<1>1. CopiesOf(V, u, g) \subseteq CopiesOf(W, u, g)
  BY DEF CopiesOf
<1> QED BY <1>1 DEF PacketOK, AtMostOne

\* A packet no router holds, given once or sent on once.
LEMMA OneGiven ==
  ASSUME NEW W, NEW m \in Masters, NEW r \in BOOLEAN, NEW q \in BOOLEAN,
         \A x, y \in W : x = y, ~(r /\ q), r \/ q => W = {}
  PROVE  AtMostOne(CopiesOf(W, Bumped(None, m, r), Bumped(None, m, q)))
<1> DEFINE u == Bumped(None, m, r)
           g == Bumped(None, m, q)
<1>1. u \in Counts /\ g \in Counts
  BY DEF Counts, Bumped, None
<1>2. /\ \A n \in Masters : u[n] = IF n = m /\ r THEN 1 ELSE 0
      /\ \A n \in Masters : g[n] = IF n = m /\ q THEN 1 ELSE 0
  BY DEF Bumped, None
<1> HIDE DEF u, g
<1>3. ASSUME NEW c \in CopiesOf(W, u, g)
      PROVE  \/ \E d \in W : c = <<"net", d.to, d>>
             \/ r /\ c = <<"up", m, 1>>
             \/ q /\ c = <<"down", m, 1>>
  <2>1. CASE \E d \in W : c = <<"net", d.to, d>>
    BY <2>1
  <2>2. CASE \E n \in Masters : \E i \in 1 .. u[n] : c = <<"up", n, i>>
    <3>0. PICK n \in Masters : \E i \in 1 .. u[n] : c = <<"up", n, i>>
      BY <2>2
    <3>1. PICK i \in 1 .. u[n] : c = <<"up", n, i>>
      BY <3>0
    <3>2. n = m /\ r /\ i = 1
      BY <1>2, <3>1
    <3> QED BY <3>1, <3>2
  <2>3. CASE \E n \in Masters : \E i \in 1 .. g[n] : c = <<"down", n, i>>
    <3>0. PICK n \in Masters : \E i \in 1 .. g[n] : c = <<"down", n, i>>
      BY <2>3
    <3>1. PICK i \in 1 .. g[n] : c = <<"down", n, i>>
      BY <3>0
    <3>2. n = m /\ q /\ i = 1
      BY <1>2, <3>1
    <3> QED BY <3>1, <3>2
  <2>4. \/ \E d \in W : c = <<"net", d.to, d>>
        \/ \E n \in Masters : \E i \in 1 .. u[n] : c = <<"up", n, i>>
        \/ \E n \in Masters : \E i \in 1 .. g[n] : c = <<"down", n, i>>
    BY DEF CopiesOf
  <2> QED BY <2>1, <2>2, <2>3, <2>4
<1>4. ASSUME NEW c \in CopiesOf(W, u, g), NEW d \in CopiesOf(W, u, g) PROVE c = d
  BY <1>3
<1> QED BY <1>4 DEF AtMostOne, u, g

-----------------------------------------------------------------------------
(* The invariant.                                                           *)

Of(net_, p) == {d \in net_ : d.msg.id = p}

\* A datagram belongs to a packet; that of a broadcast comes from the master of
\* the transport that sent it.
Known(d, h) ==
  /\ d.to \in Masters /\ d.msg.id \in DOMAIN h /\ d.msg.to = h[d.msg.id].to
  /\ d.msg.to = Broadcast => /\ h[d.msg.id].source = "transport"
                             /\ d.from = MyIP(h[d.msg.id].at)

\* Of the scenario is left what fits in the history.
Types ==
  /\ DOMAIN routers = Masters /\ \A m \in Masters : Router(routers[m], m)
  /\ sent \in Seq(Origins)
  /\ up \in [Packets -> Counts] /\ down \in [Packets -> Counts]
  /\ budget \in Scenarios /\ Len(sent) + budget.motes + budget.transports <= MaxPackets

RouterInv ==
  /\ Types
  /\ \A d \in net : Known(d, sent)
  /\ \A p \in Packets \ DOMAIN sent : up[p] = None /\ down[p] = None
  /\ OneCopy

LEMMA OneCopyIs ==
  OneCopy <=> \A p \in DOMAIN sent : PacketOK(sent[p], Of(net, p), up[p], down[p])
<1>1. \A p : Copies(p) = CopiesOf(Of(net, p), up[p], down[p])
  BY DEF Copies, CopiesOf, Waiting, Of
<1> QED BY <1>1 DEF OneCopy, PacketOK

\* A datagram to each address: at most one for each master.
LEMMA DatagramIs ==
  ASSUME NEW m \in Masters, NEW msg, NEW out, Types, NEW d \in Datagrams(m, msg, out)
  PROVE  d.to \in Masters /\ MyIP(d.to) \in out /\ d.from = MyIP(m) /\ d.msg = msg
BY DEF Datagrams, Types, Router, IP, MyIP

LEMMA DatagramsDiffer ==
  ASSUME NEW m \in Masters, NEW msg, NEW out, Types,
         NEW c \in Datagrams(m, msg, out), NEW d \in Datagrams(m, msg, out),
         c.to = d.to \/ \A x, y \in out : x = y
  PROVE  c = d
<1>1. c.to = d.to
  BY DatagramIs, OwnAddress DEF MyIP
<1> QED BY <1>1 DEF Datagrams

\* Packet p is in the hands of the router of m, and in the network are the
\* datagrams of rest.
InHand(m, p, h, rest, source) ==
  /\ IF h[p].to # Broadcast \/ source = "transport"
     THEN Of(rest, p) = {} /\ up[p] = None /\ down[p] = None
     ELSE /\ PacketOK(h[p], Of(rest, p), up[p], down[p])
          /\ up[p][m] = 0 /\ \A d \in Of(rest, p) : d.to # m
          /\ (h[p].source = "transport") # (m = h[p].at)
  /\ source = "transport" => h[p].source = "transport" /\ h[p].at = m

\* It is given to transports (r) or motes (q), or sent to other masters (V).
LEMMA GivenOK ==
  ASSUME Types, NEW m \in Masters, NEW h \in Seq(Origins), NEW msg, NEW source, NEW o,
         NEW rest, NEW V, NEW r \in BOOLEAN, NEW q \in BOOLEAN,
         msg.id \in DOMAIN h, msg.id \in Packets, msg.to = h[msg.id].to,
         OneWay(o, m, msg.to, source), InHand(m, msg.id, h, rest, source),
         V = {} \/ V = Datagrams(m, msg, o.out), r => o.up, q => o.down # {}
  PROVE  PacketOK(h[msg.id], Of(rest \cup V, msg.id), Bumped(up[msg.id], m, r),
                  Bumped(down[msg.id], m, q))
<1> DEFINE p == msg.id
           u == Bumped(up[p], m, r)
           g == Bumped(down[p], m, q)
           W == Of(rest, p) \cup V
<1>1. /\ \A d \in V : d.to \in Masters /\ MyIP(d.to) \in o.out /\ d.from = MyIP(m) /\ d.msg = msg
      /\ \A c, d \in V : c.to = d.to => c = d
      /\ (\A x, y \in o.out : x = y) => \A c, d \in V : c = d
      /\ o.out = {} => V = {}
  BY DatagramIs, DatagramsDiffer
<1>2. Of(rest \cup V, p) = W
  BY <1>1 DEF Of
<1>3. up[p] \in Counts /\ down[p] \in Counts
  BY DEF Types
<1>4. u \in Counts /\ g \in Counts
  BY <1>3 DEF Counts, Bumped
<1>5. /\ \A n \in Masters : u[n] = IF n = m /\ r THEN up[p][n] + 1 ELSE up[p][n]
      /\ \A n \in Masters : g[n] = IF n = m /\ q THEN down[p][n] + 1 ELSE down[p][n]
  BY <1>3 DEF Counts, Bumped
<1>6. CASE h[p].to # Broadcast
  <2>1. W = V /\ u = Bumped(None, m, r) /\ g = Bumped(None, m, q)
    BY <1>6 DEF InHand
  <2>2. (\A c, d \in V : c = d) /\ ~(r /\ q) /\ (r \/ q => V = {})
    BY <1>1, <1>6 DEF OneWay
  <2>3. AtMostOne(CopiesOf(W, u, g))
    BY <2>1, <2>2, OneGiven
  <2>4. ASSUME NEW n \in Masters, u[n] > 0 PROVE h[p].to \in {n, AnyMaster, UART}
    BY <1>5, <1>6, <2>4 DEF InHand, OneWay, None
  <2> QED BY <1>2, <1>6, <2>3, <2>4 DEF PacketOK
<1>7. CASE h[p].to = Broadcast /\ source = "transport"
  <2>1. W = V /\ up[p] = None /\ down[p] = None /\ ~r
        /\ h[p].source = "transport" /\ h[p].at = m
    BY <1>7 DEF InHand, OneWay
  <2>2. \A n \in Masters : u[n] = 0 /\ g[n] <= IF n = m THEN 1 ELSE 0
    BY <1>5, <2>1 DEF None
  <2>3. ASSUME NEW n \in Masters
        PROVE  AtMostOne({c \in CopiesOf(W, u, g) : c[1] # "down" /\ c[2] = n})
    <3>1. ASSUME NEW c \in CopiesOf(W, u, g), c[1] # "down", c[2] = n
          PROVE  \E d \in V : d.to = n /\ c = <<"net", d.to, d>>
      BY <2>1, <2>2, <3>1 DEF CopiesOf
    <3> QED BY <1>1, <3>1 DEF AtMostOne
  <2> QED BY <1>2, <1>7, <2>1, <2>2, <2>3 DEF PacketOK
<1>8. CASE h[p].to = Broadcast /\ source # "transport"
  <2>1. /\ W = Of(rest, p) /\ g = down[p]
        /\ PacketOK(h[p], Of(rest, p), up[p], down[p])
        /\ up[p][m] = 0 /\ \A d \in Of(rest, p) : d.to # m
        /\ (h[p].source = "transport") # (m = h[p].at)
    BY <1>1, <1>3, <1>8 DEF InHand, OneWay, Bumped, Counts
  <2>2. /\ u[m] \in {0, 1}
        /\ \A n \in Masters \ {m} : u[n] = up[p][n]
    BY <1>5, <2>1
  <2>3. ASSUME NEW n \in Masters
        PROVE  AtMostOne({c \in CopiesOf(W, u, g) : c[1] # "down" /\ c[2] = n})
    <3>1. CASE n = m
      <4>1. ASSUME NEW c \in CopiesOf(W, u, g), c[1] # "down", c[2] = n
            PROVE  c = <<"up", m, 1>>
        BY <2>1, <2>2, <3>1, <4>1 DEF CopiesOf
      <4> QED BY <4>1 DEF AtMostOne
    <3>2. CASE n # m
      <4>1. ASSUME NEW c \in CopiesOf(W, u, g), c[1] # "down", c[2] = n
            PROVE  c \in CopiesOf(Of(rest, p), up[p], down[p])
        BY <2>1, <2>2, <3>2, <4>1 DEF CopiesOf
      <4>2. AtMostOne({c \in CopiesOf(Of(rest, p), up[p], down[p]) : c[1] # "down" /\ c[2] = n})
        BY <1>8, <2>1 DEF PacketOK
      <4> QED BY <4>1, <4>2 DEF AtMostOne
    <3> QED BY <3>1, <3>2
  <2>4. ASSUME NEW n \in Masters
        PROVE  /\ g[n] <= IF h[p].source = "transport" /\ n = h[p].at THEN 1 ELSE 0
               /\ (h[p].source = "transport") = (n = h[p].at) => u[n] = 0
    BY <1>8, <2>1, <2>2 DEF PacketOK
  <2> QED BY <1>2, <1>8, <2>3, <2>4 DEF PacketOK
<1> QED BY <1>6, <1>7, <1>8

\* What a handler leaves when the packets that entered are those of h.
Left(h) ==
  /\ DOMAIN routers' = Masters /\ \A n \in Masters : Router(routers'[n], n)
  /\ up' \in [Packets -> Counts] /\ down' \in [Packets -> Counts]
  /\ \A d \in net' : Known(d, h)
  /\ \A p \in Packets \ DOMAIN h : up'[p] = up[p] /\ down'[p] = down[p]
  /\ \A p \in DOMAIN h : PacketOK(h[p], Of(net', p), up'[p], down'[p])

LEMMA DispatchedKeeps ==
  ASSUME Types, NEW m \in Masters, NEW h \in Seq(Origins), NEW msg, NEW source, NEW o,
         NEW rest, DOMAIN h \subseteq Packets,
         msg.id \in DOMAIN h, msg.to = h[msg.id].to,
         OneWay(o, m, msg.to, source), InHand(m, msg.id, h, rest, source),
         \A d \in rest : Known(d, h),
         \A p \in DOMAIN h \ {msg.id} : PacketOK(h[p], Of(rest, p), up[p], down[p]),
         Dispatched(m, msg, o, rest)
  PROVE  Left(h)
<1>1. DOMAIN routers' = Masters /\ \A n \in Masters : Router(routers'[n], n)
  BY DEF Dispatched, Types, OneWay
<1>2. PICK V : (V = {} \/ V = Datagrams(m, msg, o.out)) /\ net' = rest \cup V
  <2>1. net' = rest \/ net' = rest \cup Datagrams(m, msg, o.out)
    BY DEF Dispatched
  <2>2. rest = rest \cup {}
    OBVIOUS
  <2> QED BY <2>1, <2>2
<1> DEFINE r == Reaches(m, o).up
           q == Reaches(m, o).down
<1>3. r \in BOOLEAN /\ q \in BOOLEAN /\ (r => o.up) /\ (q => o.down # {})
  BY DEF Reaches, OneWay
<1>4. /\ up' = [up EXCEPT ![msg.id] = Bumped(@, m, r)]
      /\ down' = [down EXCEPT ![msg.id] = Bumped(@, m, q)]
  BY DEF Dispatched, Bumped
<1> HIDE DEF r, q
<1>5. /\ Bumped(up[msg.id], m, r) \in Counts /\ Bumped(down[msg.id], m, q) \in Counts
      /\ msg.id \in Packets
  BY <1>3 DEF Types, Counts, Bumped
<1>6. /\ up' \in [Packets -> Counts] /\ down' \in [Packets -> Counts]
      /\ up'[msg.id] = Bumped(up[msg.id], m, r) /\ down'[msg.id] = Bumped(down[msg.id], m, q)
      /\ \A p \in Packets \ {msg.id} : up'[p] = up[p] /\ down'[p] = down[p]
  BY <1>4, <1>5 DEF Types
<1>7. /\ \A d \in V : d.to \in Masters /\ MyIP(d.to) \in o.out /\ d.from = MyIP(m) /\ d.msg = msg
      /\ o.out = {} => V = {}
  BY <1>2, DatagramIs
<1>8. ASSUME NEW d \in net' PROVE Known(d, h)
  <2>1. CASE d \in rest
    BY <2>1
  <2>2. CASE d \in V
    BY <1>7, <2>2 DEF Known, OneWay, InHand
  <2> QED BY <1>2, <2>1, <2>2
<1>9. ASSUME NEW p \in DOMAIN h PROVE PacketOK(h[p], Of(net', p), up'[p], down'[p])
  <2>1. CASE p = msg.id
    <3>1. PacketOK(h[p], Of(rest \cup V, p), Bumped(up[p], m, r), Bumped(down[p], m, q))
      BY <1>2, <1>3, <1>5, <2>1, GivenOK
    <3> QED BY <1>2, <1>6, <2>1, <3>1
  <2>2. CASE p # msg.id
    <3>1. Of(net', p) = Of(rest, p)
      BY <1>2, <1>7, <2>2 DEF Of
    <3> QED BY <1>6, <2>2, <3>1
  <2> QED BY <2>1, <2>2
<1> QED BY <1>1, <1>6, <1>8, <1>9 DEF Left

-----------------------------------------------------------------------------
(* The steps.                                                               *)

LEMMA Fits ==
  ASSUME Types
  PROVE  /\ Len(sent) \in Nat /\ DOMAIN sent = 1 .. Len(sent) /\ DOMAIN sent \subseteq Packets
         /\ budget.motes \in Nat /\ budget.transports \in Nat
         /\ budget.motes > 0 \/ budget.transports > 0 => Len(sent) + 1 \in Packets
<1>1. Len(sent) \in Nat /\ DOMAIN sent = 1 .. Len(sent)
  BY DEF Types
<1>2. budget.motes \in Nat /\ budget.transports \in Nat
  BY DEF Types, Scenarios
<1> QED BY <1>1, <1>2, ScenarioAssumption DEF Types, Packets

LEMMA LeftIs ==
  ASSUME RouterInv, Left(sent'), sent' \in Seq(Origins), DOMAIN sent \subseteq DOMAIN sent',
         budget' \in Scenarios, Len(sent') + budget'.motes + budget'.transports <= MaxPackets
  PROVE  RouterInv'
<1>1. \A p \in Packets \ DOMAIN sent' : up'[p] = None /\ down'[p] = None
  BY DEF RouterInv, Left
<1>2. OneCopy' <=> \A p \in DOMAIN sent' : PacketOK(sent'[p], Of(net', p), up'[p], down'[p])
  <2>1. \A p : Copies(p)' = CopiesOf(Of(net', p), up'[p], down'[p])
    BY DEF Copies, CopiesOf, Waiting, Of
  <2> QED BY <2>1 DEF OneCopy, PacketOK
<1> QED BY <1>1, <1>2 DEF RouterInv, Types, Left

\* Steps that move no packet.
LEMMA QuietKeeps ==
  ASSUME RouterInv, UNCHANGED <<sent, up, down>>, net' \subseteq net,
         DOMAIN routers' = Masters, \A n \in Masters : Router(routers'[n], n),
         budget' \in Scenarios,
         budget'.motes = budget.motes, budget'.transports = budget.transports
  PROVE  RouterInv'
<1>1. ASSUME NEW p \in DOMAIN sent PROVE PacketOK(sent[p], Of(net', p), up'[p], down'[p])
  <2>1. PacketOK(sent[p], Of(net, p), up[p], down[p])
    BY OneCopyIs DEF RouterInv
  <2>2. sent[p] \in Origins /\ up[p] \in Counts /\ down[p] \in Counts
    BY Fits DEF RouterInv, Types
  <2>3. Of(net', p) \in SUBSET Of(net, p)
    BY DEF Of
  <2> QED BY <2>1, <2>2, <2>3, FewerCopies
<1>2. Left(sent)
  BY <1>1 DEF RouterInv, Types, Left
<1> QED BY <1>2, LeftIs DEF RouterInv, Types

LEMMA SpendIs ==
  ASSUME Types, NEW what \in {"motes", "transports", "moves", "routes", "clients", "faults"},
         Spend(what)
  PROVE  /\ budget' \in Scenarios
         /\ what = "motes" => /\ budget'.motes = budget.motes - 1 /\ budget.motes > 0
                              /\ budget'.transports = budget.transports
         /\ what = "transports" => /\ budget'.transports = budget.transports - 1
                                   /\ budget'.motes = budget.motes /\ budget.transports > 0
         /\ what \notin {"motes", "transports"}
              => budget'.motes = budget.motes /\ budget'.transports = budget.transports
<1>1. budget \in Scenarios /\ budget[what] > 0 /\ budget' = [budget EXCEPT ![what] = @ - 1]
  BY DEF Types, Spend
<1>2. budget[what] - 1 \in Nat /\ what \in DOMAIN budget
  <2>1. budget[what] \in Nat /\ what \in DOMAIN budget
    BY <1>1 DEF Scenarios
  <2> QED BY <1>1, <2>1
<1>3. budget' \in Scenarios
  BY <1>1, <1>2 DEF Scenarios
<1>4. budget'[what] = budget[what] - 1 /\ budget[what] > 0
  BY <1>1, <1>2
<1>5. \A f \in {"motes", "transports"} : f # what => budget'[f] = budget[f]
  BY <1>1 DEF Scenarios
<1> QED BY <1>3, <1>4, <1>5

LEMMA EntersKeeps ==
  ASSUME RouterInv, NEW m \in Masters, NEW type, NEW source \in {"mote", "transport"}, NEW from,
         NEW to \in Addr, NEW src, Enters(m, type, source, from, to, src),
         budget' \in Scenarios, Len(sent) + 1 \in Packets,
         budget'.motes + budget'.transports + 1 = budget.motes + budget.transports
  PROVE  RouterInv'
<1> DEFINE p == Len(sent) + 1
           origin == [source |-> source, at |-> m, to |-> to]
           h == Append(sent, origin)
           msg == [id |-> p, type |-> type, from |-> from, to |-> to, src |-> src,
                   master |-> IP(m)]
           o == DispatchPacket(routers[m], msg, source, NoIP)
<1>1. /\ h = sent' /\ Dispatched(m, msg, o, net)
      /\ msg.id = p /\ msg.to = to
  BY DEF Enters
<1>2. Types /\ Len(sent) \in Nat /\ DOMAIN sent = 1 .. Len(sent) /\ DOMAIN sent \subseteq Packets
  BY Fits DEF RouterInv
<1>3. OneWay(o, m, to, source)
  BY <1>1, <1>2, DispatchOneWay DEF Types
<1> HIDE DEF msg, o
<1>4. origin \in Origins /\ sent \in Seq(Origins)
  BY <1>2 DEF Types, Origins
<1>5. /\ h \in Seq(Origins) /\ DOMAIN h = 1 .. p /\ h[p] = origin /\ Len(h) = p
      /\ \A n \in DOMAIN sent : h[n] = sent[n]
  BY <1>2, <1>4
<1> HIDE DEF h
<1>6. DOMAIN h \subseteq Packets /\ DOMAIN h \ {p} = DOMAIN sent /\ p \in DOMAIN h /\ p \notin DOMAIN sent
  BY <1>2, <1>5 DEF Packets
<1>7. \A d \in net : Known(d, h) /\ d.msg.id # p
  BY <1>5, <1>6 DEF RouterInv, Known
<1>8. Of(net, p) = {} /\ up[p] = None /\ down[p] = None
  BY <1>6, <1>7 DEF Of, RouterInv
<1>9. InHand(m, p, h, net, source)
  <2>1. source # "transport" => PacketOK(h[p], {}, None, None)
    <3>1. \A c \in CopiesOf({}, None, None) : FALSE
      BY DEF CopiesOf, None
    <3> QED BY <1>5, <3>1 DEF PacketOK, AtMostOne, None
  <2>2. h[p].source = source /\ h[p].at = m
    BY <1>5
  <2>3. source # "transport" => (h[p].source = "transport") # (m = h[p].at)
    BY <2>2
  <2>4. None[m] = 0
    BY DEF None
  <2> QED BY <1>8, <2>1, <2>2, <2>3, <2>4 DEF InHand
<1>10. \A n \in DOMAIN h \ {p} : PacketOK(h[n], Of(net, n), up[n], down[n])
  BY <1>5, <1>6, OneCopyIs DEF RouterInv
<1>11. Left(h)
  <2>1. /\ msg.id \in DOMAIN h /\ msg.to = h[msg.id].to
        /\ OneWay(o, m, msg.to, source) /\ InHand(m, msg.id, h, net, source)
        /\ \A n \in DOMAIN h \ {msg.id} : PacketOK(h[n], Of(net, n), up[n], down[n])
    BY <1>1, <1>3, <1>5, <1>6, <1>9, <1>10
  <2> HIDE DEF origin, p
  <2> QED BY <1>1, <1>2, <1>5, <1>6, <1>7, <2>1, DispatchedKeeps
<1>12. Len(h) + budget'.motes + budget'.transports <= MaxPackets
  <2>1. budget'.motes \in Nat /\ budget'.transports \in Nat
    BY DEF Scenarios
  <2>2. Len(sent) + budget.motes + budget.transports <= MaxPackets
    BY <1>2 DEF Types
  <2> QED BY <1>2, <1>5, <2>1, <2>2, Fits, ScenarioAssumption
<1> QED BY <1>1, <1>2, <1>5, <1>6, <1>11, <1>12, LeftIs

LEMMA FromMoteKeeps ==
  ASSUME RouterInv, NEW x, NEW type, NEW to \in Addr, FromMote(x, type, to)
  PROVE  RouterInv'
<1>1. place[x].master \in Masters /\ Spend("motes") /\ Types
  BY DEF FromMote, Alive, RouterInv
<1>2. budget' \in Scenarios /\ Len(sent) + 1 \in Packets
      /\ budget'.motes + budget'.transports + 1 = budget.motes + budget.transports
  BY <1>1, SpendIs, Fits
<1>3. Enters(place[x].master, type, "mote", x, to, place[x].hop)
  BY DEF FromMote
<1> QED BY <1>1, <1>2, <1>3, EntersKeeps

LEMMA FromTransportKeeps ==
  ASSUME RouterInv, NEW m, NEW type, NEW to \in Addr, FromTransport(m, type, to)
  PROVE  RouterInv'
<1>1. m \in Masters /\ Spend("transports") /\ Types
  BY DEF FromTransport, Alive, RouterInv
<1>2. budget' \in Scenarios /\ Len(sent) + 1 \in Packets
      /\ budget'.motes + budget'.transports + 1 = budget.motes + budget.transports
  BY <1>1, SpendIs, Fits
<1>3. Enters(m, type, "transport", m, to, NoAddr)
  BY DEF FromTransport
<1> QED BY <1>1, <1>2, <1>3, EntersKeeps

\* A datagram is read: it is the only copy of its packet, or one of a broadcast
\* that no other one brings to this master.
LEMMA OnReceiveKeeps ==
  ASSUME RouterInv, NEW d \in net, OnReceive(d)
  PROVE  RouterInv'
<1> DEFINE m == d.to
           p == d.msg.id
           src == GetSrcMoteID(d.msg)
           master == IF GetDstMoteID(d.msg) # Broadcast THEN d.msg.master ELSE MoteIDtoIP(IP(m), src)
           told == IF src # NoAddr THEN MRT_Update(routers[m], src, src, master) ELSE routers[m]
           known == IF LookUpNextHop(told, d.from) = NoIP THEN IPRT_Update(told, d.from, d.from)
                    ELSE LookedUp(told, d.from)
           o == DispatchPacket(known, d.msg, "neighbor", d.from)
           rest == net \ {d}
<1>1. m \in Masters /\ Known(d, sent) /\ p \in DOMAIN sent /\ Types
  BY DEF RouterInv, Known
<1>2. /\ sent' = sent /\ budget' = budget
      /\ \/ d.from = IP(m) /\ net' = rest /\ UNCHANGED <<routers, up, down>>
         \/ d.from # IP(m) /\ Dispatched(m, d.msg, o, rest)
  BY DEF OnReceive
<1>3. Router(known, m) /\ IP(m) = MyIP(m)
  <2>1. Router(told, m)
    BY <1>1, TablesKeep DEF Types
  <2> HIDE DEF told
  <2> QED BY <1>1, <2>1, TablesKeep DEF Types, Router, IP, MyIP
<1>4. OneWay(o, m, d.msg.to, "neighbor")
  BY <1>3, DispatchOneWay
<1> HIDE DEF o
<1>5. ASSUME NEW n \in DOMAIN sent
      PROVE  /\ PacketOK(sent[n], Of(rest, n), up[n], down[n])
             /\ PacketOK(sent[n], Of(net, n), up[n], down[n])
             /\ sent[n] \in Origins /\ up[n] \in Counts /\ down[n] \in Counts
  <2>1. PacketOK(sent[n], Of(net, n), up[n], down[n])
    BY OneCopyIs DEF RouterInv
  <2>2. sent[n] \in Origins /\ up[n] \in Counts /\ down[n] \in Counts
    BY Fits DEF RouterInv, Types
  <2>3. Of(rest, n) \in SUBSET Of(net, n)
    BY DEF Of
  <2> QED BY <2>1, <2>2, <2>3, FewerCopies
<1>6. CASE d.from = IP(m)
  BY <1>1, <1>2, <1>6, QuietKeeps DEF Types
<1>7. CASE d.from # IP(m)
  <2>1. InHand(m, p, sent, rest, "neighbor")
    <3>1. d \in Of(net, p)
      BY DEF Of
    <3>2. CASE sent[p].to # Broadcast
      <4>1. Of(net, p) = {d} /\ up[p] = None /\ down[p] = None
        BY <1>1, <1>5, <3>1, <3>2, OnlyOne DEF PacketOK
      <4> QED BY <3>2, <4>1 DEF InHand, Of
    <3>3. CASE sent[p].to = Broadcast
      <4>1. AtMostOne({c \in CopiesOf(Of(net, p), up[p], down[p]) : c[1] # "down" /\ c[2] = m})
        BY <1>1, <1>5, <3>3 DEF PacketOK
      <4>2. <<"net", m, d>> \in CopiesOf(Of(net, p), up[p], down[p])
        BY <1>1, <1>5, <3>1, CopyIs
      <4>3. ASSUME NEW x \in Of(rest, p), x.to = m PROVE FALSE
        <5>1. <<"net", x.to, x>> \in CopiesOf(Of(net, p), up[p], down[p]) /\ x # d
          BY <1>1, <1>5, CopyIs DEF Of
        <5> QED BY <4>1, <4>2, <4>3, <5>1 DEF AtMostOne
      <4>4. up[p][m] = 0
        <5>1. SUFFICES ASSUME up[p][m] # 0 PROVE FALSE
          OBVIOUS
        <5>2. up[p][m] \in 1 .. up[p][m]
          BY <1>1, <1>5, <5>1 DEF Counts
        <5>3. <<"up", m, up[p][m]>> \in CopiesOf(Of(net, p), up[p], down[p])
          BY <1>1, <1>5, <5>2, CopyIs
        <5> QED BY <4>1, <4>2, <5>3 DEF AtMostOne
      <4>5. sent[p].source = "transport" /\ sent[p].at # m
        BY <1>1, <1>3, <1>7, <3>3 DEF Known
      <4> QED BY <1>1, <1>5, <3>3, <4>3, <4>4, <4>5 DEF InHand
    <3> QED BY <3>2, <3>3
  <2>2. Left(sent)
    <3>1. sent \in Seq(Origins) /\ DOMAIN sent \subseteq Packets
      BY <1>1, Fits DEF Types
    <3>2. d.msg.id \in DOMAIN sent /\ d.msg.to = sent[d.msg.id].to
      BY <1>1 DEF Known
    <3>3. \A x \in rest : Known(x, sent)
      BY DEF RouterInv
    <3>4. Dispatched(m, d.msg, o, rest)
      BY <1>2, <1>7
    <3> HIDE DEF rest, m
    <3> QED BY <1>1, <1>4, <1>5, <2>1, <3>1, <3>2, <3>3, <3>4, DispatchedKeeps
  <2> QED BY <1>1, <1>2, <2>2, LeftIs DEF Types
<1> QED BY <1>6, <1>7

\* Tables alone.
LEMMA TimersKeep ==
  ASSUME RouterInv,
         \/ \E r \in budget.added : AddRoute(r.at, r.to, IP(r.master))
         \/ \E m \in budget.timers : RefreshIPRT(m) \/ RefreshMRT(m)
  PROVE  RouterInv'
<1>1. Types
  BY DEF RouterInv
<1> DEFINE Becomes(m, s) == /\ m \in Masters /\ Router(s, m)
                            /\ routers' = [routers EXCEPT ![m] = s]
                            /\ UNCHANGED <<sent, up, down, net>>
                            /\ Spend("routes") \/ budget' = budget
<1>2. PICK m, s : Becomes(m, s)
  <2>1. ASSUME NEW r \in budget.added, AddRoute(r.at, r.to, IP(r.master)) PROVE \E m, s : Becomes(m, s)
    <3>1. Router(MRT_Update(routers[r.at], r.to, r.to, IP(r.master)), r.at)
      BY <1>1, <2>1, TablesKeep DEF AddRoute, Alive, Types
    <3>2. routers' = [routers EXCEPT ![r.at] = MRT_Update(routers[r.at], r.to, r.to, IP(r.master))]
      BY <2>1 DEF AddRoute
    <3> QED BY <2>1, <3>1, <3>2 DEF AddRoute, Alive
  <2>2. ASSUME NEW n \in budget.timers, RefreshIPRT(n) PROVE \E m, s : Becomes(m, s)
    <3>1. Router(IPRT_Refresh(routers[n], budget.hosts[n], Interfaces(n)), n)
      BY <1>1, <2>2, TablesKeep DEF RefreshIPRT, Alive, Types
    <3>2. routers' = [routers EXCEPT ![n] = IPRT_Refresh(routers[n], budget.hosts[n], Interfaces(n))]
      BY <2>2 DEF RefreshIPRT
    <3> QED BY <2>2, <3>1, <3>2 DEF RefreshIPRT, Alive, history
  <2>3. ASSUME NEW n \in budget.timers, RefreshMRT(n) PROVE \E m, s : Becomes(m, s)
    <3>1. Router(MRT_Refresh(routers[n]), n)
      BY <1>1, <2>3, TablesKeep DEF RefreshMRT, Alive, Types
    <3>2. routers' = [routers EXCEPT ![n] = MRT_Refresh(routers[n])]
      BY <2>3 DEF RefreshMRT
    <3> QED BY <2>3, <3>1, <3>2 DEF RefreshMRT, Alive
  <2> QED BY <2>1, <2>2, <2>3
<1>3. DOMAIN routers' = Masters /\ \A n \in Masters : Router(routers'[n], n)
  BY <1>1, <1>2 DEF Types
<1>4. budget' \in Scenarios /\ budget'.motes = budget.motes
      /\ budget'.transports = budget.transports
  BY <1>1, <1>2, SpendIs DEF Types
<1> QED BY <1>2, <1>3, <1>4, QuietKeeps

\* Connections, faults and motes that move.
LEMMA WorldKeeps ==
  ASSUME RouterInv,
         \/ \E m \in Masters, answers \in BOOLEAN : Accept(m, answers) \/ ConnectAgain(m, answers)
         \/ \E m \in Masters : ReceiveFromSF(m) \/ CheckAllSocket(m) \/ SFCloses(m)
         \/ \E m \in Masters : \E i \in DOMAIN links[m].clients :
              ReceiveFromClient(m, i) \/ ClientCloses(m, i)
         \/ \E d \in net : Lose(d)
         \/ \E p \in budget.places : Moves(p.mote, [master |-> p.master, hop |-> p.hop])
  PROVE  RouterInv'
<1>1. Types
  BY DEF RouterInv
<1>2. /\ UNCHANGED <<routers, sent, up, down>> /\ net' \subseteq net
      /\ \/ budget' = budget
         \/ Spend("clients") \/ Spend("faults") \/ Spend("moves")
         \/ budget.faults > 0 /\ budget' = [budget EXCEPT !.faults = @ - 1]
  BY DEF Accept, ConnectAgain, ReceiveFromSF, CheckAllSocket, SFCloses, ReceiveFromClient,
         ClientCloses, Lose, Moves, tables, world, history
<1>3. budget' \in Scenarios /\ budget'.motes = budget.motes
      /\ budget'.transports = budget.transports
  <2>1. budget.faults > 0 /\ budget' = [budget EXCEPT !.faults = @ - 1] => Spend("faults")
    BY DEF Spend
  <2> QED BY <1>1, <1>2, <2>1, SpendIs DEF Types
<1> QED BY <1>1, <1>2, <1>3, QuietKeeps DEF Types

LEMMA RouterStep == RouterInv /\ [Next]_vars => RouterInv'
<1> SUFFICES ASSUME RouterInv, [Next]_vars PROVE RouterInv'
  OBVIOUS
<1>1. budget.fromMotes \subseteq Sends(Motes) /\ budget.fromTransports \subseteq Sends(Masters)
  BY DEF RouterInv, Types, Scenarios
<1>2. ASSUME NEW p \in budget.fromMotes, FromMote(p.at, p.type, p.to) PROVE RouterInv'
  BY <1>1, <1>2, FromMoteKeeps DEF Sends
<1>3. ASSUME NEW p \in budget.fromTransports, FromTransport(p.at, p.type, p.to) PROVE RouterInv'
  BY <1>1, <1>3, FromTransportKeeps DEF Sends
<1>4. ASSUME NEW d \in net, OnReceive(d) PROVE RouterInv'
  BY <1>4, OnReceiveKeeps
<1>5. CASE UNCHANGED vars
  BY <1>5, QuietKeeps DEF vars, tables, world, history, RouterInv, Types
<1> QED BY <1>2, <1>3, <1>4, <1>5, TimersKeep, WorldKeeps DEF Next

LEMMA RouterInit == Init => RouterInv
<1> SUFFICES ASSUME Init PROVE RouterInv
  OBVIOUS
<1>1. \A m \in Masters : Router(routers[m], m)
  <2>1. ASSUME NEW m \in Masters
        PROVE  Router([local |-> m, ip |-> GetMyIP(Interfaces(m), Interface), mrt |-> <<>>,
                       iprt |-> <<>>], m)
    BY DEF Router
  <2> QED BY <2>1, TablesKeep DEF Init
<1>2. budget \in Scenarios /\ budget.motes \in Nat /\ budget.transports \in Nat
      /\ budget.motes + budget.transports <= MaxPackets
  BY ScenarioAssumption DEF Init, Scenarios
<1>3. Types
  BY <1>1, <1>2 DEF Types, Init, Empty, Counts
<1>4. DOMAIN sent = {} /\ net = {}
  BY DEF Init
<1>5. OneCopy
  BY <1>4 DEF OneCopy
<1>6. \A p \in Packets : up[p] = None /\ down[p] = None
  BY DEF Init, Empty, None
<1> QED BY <1>3, <1>4, <1>5, <1>6 DEF RouterInv

LEMMA RouterInvHolds == Spec => []RouterInv
BY RouterInit, RouterStep, PTL DEF Spec

\* However the tables of the routers disagree, a packet is never copied and goes
\* only to the base station or the transports it is for; a broadcast reaches the
\* transports of each master once (DispatchPacket and Unicast, TenetRouter.cpp).
THEOREM OneCopyHolds == Spec => []OneCopy
<1>1. RouterInv => OneCopy
  BY DEF RouterInv
<1> QED BY <1>1, RouterInvHolds, PTL

-----------------------------------------------------------------------------
(* Routes and their use.                                                    *)

Entries(s) == \A x \in DOMAIN s.mrt : "used" \in DOMAIN s.mrt[x]

\* The marks in the table of s say what is known of the motes, a[x] refreshes
\* since x was heard of.
Tells(s, a) ==
  /\ Entries(s)
  /\ \A x \in Motes : /\ x \in DOMAIN s.mrt <=> a[x] <= 1
                      /\ x \in DOMAIN s.mrt => (s.mrt[x].used = TRUE <=> a[x] = 0)

\* Table t is s once mote y was heard of.
Hears(s, t, y) ==
  /\ Entries(t)
  /\ \A x : x # y => /\ x \in DOMAIN t.mrt <=> x \in DOMAIN s.mrt
                     /\ x \in DOMAIN s.mrt => t.mrt[x] = s.mrt[x]
  /\ y \in DOMAIN s.mrt => y \in DOMAIN t.mrt
  /\ y \in DOMAIN t.mrt /\ y # NoAddr => t.mrt[y].used = TRUE

LEMMA UpdatedMrt ==
  ASSUME NEW s, NEW m, Router(s, m), Entries(s), NEW y, NEW next, NEW master
  PROVE  /\ Hears(s, MRT_SetUsed(s, y), y) /\ MRT_SetUsed(s, y).iprt = s.iprt
         /\ Hears(s, MRT_Update(s, y, next, master), y)
         /\ MRT_Update(s, y, next, master).iprt = s.iprt
<1>1. Hears(s, MRT_SetUsed(s, y), y) /\ MRT_SetUsed(s, y).iprt = s.iprt
  BY DEF Hears, Entries, MRT_SetUsed, Router
<1> DEFINE e == [next |-> next, master |-> master, used |-> TRUE]
           t == [s EXCEPT !.mrt = Entered(@, y, e)]
<1>2. /\ t.iprt = s.iprt
      /\ DOMAIN t.mrt = {y} \cup DOMAIN s.mrt
      /\ \A x \in DOMAIN t.mrt : t.mrt[x] = IF x = y THEN e ELSE s.mrt[x]
  BY DEF Router, Entered
<1>3. "used" \in DOMAIN e /\ e.used = TRUE
  OBVIOUS
<1> HIDE DEF e, t
<1>4. Hears(s, t, y)
  BY <1>2, <1>3 DEF Hears, Entries
<1>5. \/ MRT_Update(s, y, next, master) = s /\ y \notin DOMAIN s.mrt
      \/ MRT_Update(s, y, next, master) = MRT_SetUsed(s, y)
      \/ MRT_Update(s, y, next, master) = t
  BY DEF MRT_Update, t, e
<1>6. y \notin DOMAIN s.mrt => Hears(s, s, y)
  BY DEF Hears
<1> QED BY <1>1, <1>2, <1>4, <1>5, <1>6

LEMMA HearsAgain ==
  ASSUME NEW s, NEW t, NEW w, NEW y, Hears(s, t, y), Hears(t, w, y)
  PROVE  Hears(s, w, y)
BY DEF Hears

LEMMA LookedUpKeeps ==
  ASSUME NEW s, NEW m, Router(s, m)
  PROVE  /\ \A ip : LookedUp(s, ip).mrt = s.mrt /\ DOMAIN LookedUp(s, ip).iprt = DOMAIN s.iprt
         /\ \A x : /\ MasterLookedUp(s, x).mrt = s.mrt
                   /\ DOMAIN MasterLookedUp(s, x).iprt = DOMAIN s.iprt
<1>1. \A ip : LookedUp(s, ip).mrt = s.mrt /\ DOMAIN LookedUp(s, ip).iprt = DOMAIN s.iprt
  BY DEF Router, LookedUp
<1> QED BY <1>1 DEF MasterLookedUp

\* A packet that is not dropped for being one's own marks where it came from.
LEMMA DispatchHears ==
  ASSUME NEW s, NEW m, Router(s, m), Entries(s), NEW msg, NEW source, NEW neighbor,
         ~(source = "neighbor" /\ neighbor = s.ip),
         ~(msg.type = "col" /\ source \in {"mote", "neighbor"} /\ IsLoop(s, msg))
  PROVE  LET t == DispatchPacket(s, msg, source, neighbor).s
         IN  Hears(s, t, GetSrcMoteID(msg)) /\ DOMAIN t.iprt = DOMAIN s.iprt
<1> DEFINE y == GetSrcMoteID(msg)
           u == MRT_SetUsed(s, y)
           o == DispatchPacket(s, msg, source, neighbor)
<1>1. Router(u, m) /\ Hears(s, u, y) /\ u.iprt = s.iprt /\ Entries(u)
  BY TablesKeep, UpdatedMrt DEF Hears
<1> DEFINE heard == IF source = "mote" /\ y # NoAddr THEN MRT_Update(u, y, msg.src, u.ip) ELSE u
<1>2. Router(heard, m) /\ Hears(s, heard, y) /\ heard.iprt = s.iprt
  BY <1>1, TablesKeep, UpdatedMrt, HearsAgain
<1>3. msg.to = Broadcast => o.s = u
  BY DEF DispatchPacket, Spread, Stays, GetDstMoteID
<1>4. msg.to # Broadcast => o.s \in {heard, MasterLookedUp(heard, msg.to)}
  <2> SUFFICES ASSUME msg.to # Broadcast PROVE o.s \in {heard, MasterLookedUp(heard, msg.to)}
    OBVIOUS
  <2>1. o = Addressed(u, msg, source)
    BY DEF DispatchPacket, GetDstMoteID
  <2>2. \/ o = Unicast(heard, msg)
        \/ o = [Stays(heard) EXCEPT !.down = {msg.to}]
        \/ o = [Stays(heard) EXCEPT !.up = TRUE]
    BY <2>1 DEF Addressed, GetDstMoteID
  <2> HIDE DEF o, heard
  <2>3. Unicast(heard, msg).s = MasterLookedUp(heard, msg.to)
    <3> DEFINE here == Stays(MasterLookedUp(heard, msg.to))
               next == LookUpNextHopMaster(heard, msg.to)
               lost == next = NoIP /\ (IsLoopback(heard.ip) \/ msg.to = AnyMaster)
               sent1 == [here EXCEPT !.out = {next}]
               sent2 == [here EXCEPT !.out = {MoteIDtoIP(heard.ip, msg.to)}]
               given == [here EXCEPT !.down = {LookUpNextHopMote(heard, msg.to)}]
    <3>1. Unicast(heard, msg) = CASE next = heard.ip -> given
                                  [] next \notin {heard.ip, NoIP} -> sent1
                                  [] lost -> here
                                  [] OTHER -> sent2
      BY DEF Unicast, GetDstMoteID
    <3>2. \A x \in {given, sent1, here, sent2} : x.s = MasterLookedUp(heard, msg.to)
      BY DEF Stays
    <3> HIDE DEF here, next, lost, sent1, sent2, given
    <3> QED BY <3>1, <3>2
  <2> QED BY <2>2, <2>3 DEF Stays
<1> HIDE DEF u, heard, o
<1>5. Hears(s, o.s, y) /\ DOMAIN o.s.iprt = DOMAIN s.iprt
  <2>1. CASE msg.to = Broadcast
    BY <1>1, <1>3, <2>1
  <2>2. CASE msg.to # Broadcast
    <3>1. o.s = heard \/ (o.s.mrt = heard.mrt /\ DOMAIN o.s.iprt = DOMAIN heard.iprt)
      BY <1>2, <1>4, <2>2, LookedUpKeeps
    <3> QED BY <1>2, <3>1 DEF Hears, Entries
  <2> QED BY <2>1, <2>2
<1> QED BY <1>5 DEF o

\* Whom a master's router may know an address of: masters, and what the operating
\* system has routes to.
Peers(m) == {MyIP(n) : n \in Masters} \cup {r.dest : r \in budget.hosts[m]}

Ages == [Motes -> 0 .. TooOld]
Heard(a, t, y) == [x \in Motes |-> IF x = y /\ y \in DOMAIN t.mrt THEN 0 ELSE a[x]]

RoutesInv ==
  /\ age \in [Masters -> Ages]
  /\ \A m \in Masters : Tells(routers[m], age[m]) /\ DOMAIN routers[m].iprt \subseteq Peers(m)
  /\ \A d \in net : \E n \in Masters : d.from = MyIP(n)
  /\ \E b \in Budgets : budget.hosts = b.hosts

LEMMA FitsHears ==
  ASSUME NEW s, NEW t, NEW y, NEW a \in Ages, Tells(s, a), Hears(s, t, y)
  PROVE  Tells(t, Heard(a, t, y)) /\ Heard(a, t, y) \in Ages
<1>1. /\ Heard(a, t, y) \in Ages
      /\ \A x \in Motes : Heard(a, t, y)[x] = IF x = y /\ y \in DOMAIN t.mrt THEN 0 ELSE a[x]
  BY DEF Ages, Heard, TooOld
<1>2. ASSUME NEW x \in Motes
      PROVE  /\ x \in DOMAIN t.mrt <=> Heard(a, t, y)[x] <= 1
             /\ x \in DOMAIN t.mrt => (t.mrt[x].used = TRUE <=> Heard(a, t, y)[x] = 0)
  BY <1>1, MotesAssumption DEF Tells, Hears
<1> QED BY <1>1, <1>2 DEF Tells, Hears

\* The router of m becomes t: what it heard is of y.
LEMMA HeardKeeps ==
  ASSUME RouterInv, RoutesInv, NEW m \in Masters, NEW t, NEW y,
         routers' = [routers EXCEPT ![m] = t], Hears(routers[m], t, y),
         DOMAIN t.iprt \subseteq Peers(m), HeardOf(m, y),
         \A d \in net' : d \in net \/ d.from = MyIP(m), budget'.hosts = budget.hosts
  PROVE  RoutesInv'
<1>1. routers'[m] = t /\ \A n \in Masters \ {m} : routers'[n] = routers[n]
  BY DEF RouterInv, Types
<1>2. age[m] \in Ages /\ DOMAIN age[m] = Motes /\ Tells(routers[m], age[m])
  BY DEF RoutesInv, Ages
<1>3. age' = [age EXCEPT ![m] = Heard(age[m], t, y)]
  BY <1>1, <1>2 DEF HeardOf, Heard
<1>4. Tells(t, Heard(age[m], t, y)) /\ Heard(age[m], t, y) \in Ages
  BY <1>2, FitsHears
<1>5. age' \in [Masters -> Ages] /\ age'[m] = Heard(age[m], t, y)
      /\ \A n \in Masters \ {m} : age'[n] = age[n]
  BY <1>3, <1>4 DEF RoutesInv
<1>6. \A n \in Masters : Peers(n)' = Peers(n)
  BY DEF Peers
<1>7. \A n \in Masters : Tells(routers'[n], age'[n]) /\ DOMAIN routers'[n].iprt \subseteq Peers(n)'
  BY <1>1, <1>4, <1>5, <1>6 DEF RoutesInv
<1>8. \A d \in net' : \E n \in Masters : d.from = MyIP(n)
  BY DEF RoutesInv
<1> QED BY <1>5, <1>7, <1>8 DEF RoutesInv

\* Steps in which nothing is heard.
LEMMA NothingHeard ==
  ASSUME RoutesInv, UNCHANGED <<routers, age>>, net' \subseteq net,
         budget'.hosts = budget.hosts
  PROVE  RoutesInv'
<1>1. \A n \in Masters : Peers(n)' = Peers(n)
  BY DEF Peers
<1> QED BY <1>1 DEF RoutesInv

LEMMA SpendKeepsHosts ==
  ASSUME Types, NEW what \in {"motes", "transports", "moves", "routes", "clients", "faults"},
         Spend(what)
  PROVE  budget'.hosts = budget.hosts
BY DEF Types, Scenarios, Spend

LEMMA DispatchedIs ==
  ASSUME Types, NEW m \in Masters, NEW msg, NEW o, NEW rest, Dispatched(m, msg, o, rest)
  PROVE  /\ routers' = [routers EXCEPT ![m] = o.s]
         /\ \A d \in net' : d \in rest \/ d.from = MyIP(m)
<1>1. net' = rest \/ net' = rest \cup Datagrams(m, msg, o.out)
  BY DEF Dispatched
<1>2. \A d \in Datagrams(m, msg, o.out) : d.from = MyIP(m)
  BY DatagramIs
<1> QED BY <1>1, <1>2 DEF Dispatched

LEMMA EntersHears ==
  ASSUME RouterInv, RoutesInv, NEW m \in Masters, NEW type, NEW source \in {"mote", "transport"},
         NEW from, NEW to, NEW src, Enters(m, type, source, from, to, src),
         budget'.hosts = budget.hosts
  PROVE  RoutesInv'
<1> DEFINE msg == [id |-> Len(sent) + 1, type |-> type, from |-> from, to |-> to, src |-> src,
                   master |-> IP(m)]
           o == DispatchPacket(routers[m], msg, source, NoIP)
<1>1. /\ Dispatched(m, msg, o, net) /\ msg.type = type
      /\ IF source = "mote" /\ type = "col" /\ IsLoop(routers[m], msg) THEN UNCHANGED age
         ELSE HeardOf(m, GetSrcMoteID(msg))
  BY DEF Enters
<1>2. Types /\ Router(routers[m], m)
  BY DEF RouterInv, Types
<1>3. Entries(routers[m]) /\ DOMAIN routers[m].iprt \subseteq Peers(m)
  BY DEF RoutesInv, Tells
<1> HIDE DEF msg
<1>4. CASE source = "mote" /\ type = "col" /\ IsLoop(routers[m], msg)
  <2>1. o.s = routers[m]
    BY <1>1, <1>4 DEF DispatchPacket, Stays
  <2> HIDE DEF o
  <2>2. routers' = [routers EXCEPT ![m] = o.s] /\ age' = age
        /\ \A d \in net' : d \in net \/ d.from = MyIP(m)
    BY <1>1, <1>2, <1>4, DispatchedIs
  <2>3. \A n \in Masters : routers'[n] = routers[n]
    BY <1>2, <2>1, <2>2 DEF Types
  <2>4. \A n \in Masters : Peers(n)' = Peers(n)
    BY DEF Peers
  <2> QED BY <2>2, <2>3, <2>4 DEF RoutesInv
<1>5. CASE ~(source = "mote" /\ type = "col" /\ IsLoop(routers[m], msg))
  <2>1. Hears(routers[m], o.s, GetSrcMoteID(msg)) /\ DOMAIN o.s.iprt = DOMAIN routers[m].iprt
    BY <1>1, <1>2, <1>3, <1>5, DispatchHears
  <2> HIDE DEF o
  <2>2. routers' = [routers EXCEPT ![m] = o.s] /\ HeardOf(m, GetSrcMoteID(msg))
        /\ \A d \in net' : d \in net \/ d.from = MyIP(m)
    BY <1>1, <1>2, <1>5, DispatchedIs
  <2> QED BY <1>3, <2>1, <2>2, HeardKeeps
<1> QED BY <1>4, <1>5

LEMMA OnReceiveHears ==
  ASSUME RouterInv, RoutesInv, NEW d \in net, OnReceive(d)
  PROVE  RoutesInv'
<1> DEFINE m == d.to
           src == GetSrcMoteID(d.msg)
           master == IF GetDstMoteID(d.msg) # Broadcast THEN d.msg.master ELSE MoteIDtoIP(IP(m), src)
           told == IF src # NoAddr THEN MRT_Update(routers[m], src, src, master) ELSE routers[m]
           known == IF LookUpNextHop(told, d.from) = NoIP THEN IPRT_Update(told, d.from, d.from)
                    ELSE LookedUp(told, d.from)
           o == DispatchPacket(known, d.msg, "neighbor", d.from)
<1>1. /\ m \in Masters /\ Types /\ budget' = budget /\ Router(routers[m], m)
      /\ Entries(routers[m]) /\ DOMAIN routers[m].iprt \subseteq Peers(m)
      /\ d.from \in Peers(m)
  BY DEF RouterInv, Known, RoutesInv, Tells, OnReceive, Types, Peers
<1>2. \/ d.from = IP(m) /\ net' = net \ {d} /\ UNCHANGED <<routers, age>>
      \/ d.from # IP(m) /\ Dispatched(m, d.msg, o, net \ {d}) /\ HeardOf(m, src)
  BY DEF OnReceive
<1>3. CASE d.from = IP(m)
  BY <1>1, <1>2, <1>3, NothingHeard
<1>4. CASE d.from # IP(m)
  <2>1. Router(told, m) /\ Hears(routers[m], told, src) /\ told.iprt = routers[m].iprt
    <3>1. CASE src # NoAddr
      BY <1>1, <3>1, TablesKeep, UpdatedMrt
    <3>2. CASE src = NoAddr
      BY <1>1, <3>2 DEF Hears
    <3> QED BY <3>1, <3>2
  <2> HIDE DEF told, src
  <2>2. /\ Router(known, m) /\ known.mrt = told.mrt
        /\ DOMAIN known.iprt \subseteq Peers(m) /\ known.ip = IP(m)
    <3>1. Router(known, m)
      BY <2>1, TablesKeep
    <3>2. /\ IPRT_Update(told, d.from, d.from).mrt = told.mrt
          /\ DOMAIN IPRT_Update(told, d.from, d.from).iprt = DOMAIN told.iprt \cup {d.from}
      BY <2>1 DEF IPRT_Update, Router, Entered
    <3>3. LookedUp(told, d.from).mrt = told.mrt
          /\ DOMAIN LookedUp(told, d.from).iprt = DOMAIN told.iprt
      BY <2>1, LookedUpKeeps
    <3>4. known.ip = IP(m)
      BY <1>1, <3>1 DEF Router, IP
    <3> QED BY <1>1, <2>1, <3>1, <3>2, <3>3, <3>4
  <2> HIDE DEF known
  <2>3. Hears(routers[m], known, src) /\ Hears(told, known, src) /\ Entries(known)
    BY <2>1, <2>2 DEF Hears, Entries
  <2>4. Hears(routers[m], o.s, src) /\ DOMAIN o.s.iprt = DOMAIN known.iprt
    <3>1. CASE d.msg.type = "col" /\ IsLoop(known, d.msg)
      BY <2>3, <3>1 DEF DispatchPacket, Stays
    <3>2. CASE ~(d.msg.type = "col" /\ IsLoop(known, d.msg))
      <4>1. Hears(known, o.s, src) /\ DOMAIN o.s.iprt = DOMAIN known.iprt
        BY <1>4, <2>2, <2>3, <3>2, DispatchHears DEF src
      <4> QED BY <2>3, <4>1, HearsAgain
    <3> QED BY <3>1, <3>2
  <2> HIDE DEF o
  <2>5. routers' = [routers EXCEPT ![m] = o.s] /\ HeardOf(m, src)
        /\ \A x \in net' : x \in net \/ x.from = MyIP(m)
    BY <1>1, <1>2, <1>4, DispatchedIs
  <2> QED BY <1>1, <2>2, <2>4, <2>5, HeardKeeps
<1> QED BY <1>3, <1>4

LEMMA AddRouteHears ==
  ASSUME RouterInv, RoutesInv, NEW m, NEW x, NEW ip, AddRoute(m, x, ip)
  PROVE  RoutesInv'
<1>1. m \in Masters /\ Types /\ Spend("routes") /\ net' = net
      /\ routers' = [routers EXCEPT ![m] = MRT_Update(@, x, x, ip)] /\ HeardOf(m, x)
  BY DEF AddRoute, Alive, RouterInv
<1>2. Router(routers[m], m) /\ Entries(routers[m]) /\ DOMAIN routers[m].iprt \subseteq Peers(m)
  BY <1>1 DEF RoutesInv, Tells, Types
<1> DEFINE t == MRT_Update(routers[m], x, x, ip)
<1>3. Hears(routers[m], t, x) /\ t.iprt = routers[m].iprt
  BY <1>2, UpdatedMrt
<1>4. routers' = [routers EXCEPT ![m] = t]
  BY <1>1
<1> HIDE DEF t
<1> QED BY <1>1, <1>2, <1>3, <1>4, HeardKeeps, SpendKeepsHosts

LEMMA RefreshIPRTKeeps ==
  ASSUME RouterInv, RoutesInv, NEW m, RefreshIPRT(m)
  PROVE  RoutesInv'
<1> DEFINE s == routers[m]
           t == IPRT_Refresh(s, budget.hosts[m], Interfaces(m))
<1>1. /\ m \in Masters /\ Router(s, m) /\ Tells(s, age[m])
      /\ DOMAIN s.iprt \subseteq Peers(m) /\ routers' = [routers EXCEPT ![m] = t]
      /\ UNCHANGED <<net, age, budget>> /\ DOMAIN routers = Masters
  BY DEF RefreshIPRT, Alive, RouterInv, Types, RoutesInv, history
<1>2. IPRT_Aged(s).mrt = s.mrt /\ DOMAIN IPRT_Aged(s).iprt \subseteq DOMAIN s.iprt
      /\ {"local", "ip", "mrt", "iprt"} \subseteq DOMAIN IPRT_Aged(s)
  BY <1>1 DEF IPRT_Aged, Router
<1>3. t.mrt = s.mrt /\ DOMAIN t.iprt \subseteq DOMAIN s.iprt \cup {r.dest : r \in budget.hosts[m]}
  BY <1>2 DEF IPRT_Refresh
<1> HIDE DEF s, t
<1>4. Tells(t, age[m]) /\ DOMAIN t.iprt \subseteq Peers(m)
  BY <1>1, <1>3 DEF Tells, Entries, Peers
<1>5. \A n \in Masters : Peers(n)' = Peers(n)
  BY <1>1 DEF Peers
<1>6. \A n \in Masters : Tells(routers'[n], age'[n]) /\ DOMAIN routers'[n].iprt \subseteq Peers(n)'
  BY <1>1, <1>4, <1>5 DEF RoutesInv
<1> QED BY <1>1, <1>6 DEF RoutesInv

\* The entries that were not used go, and the others lose their mark: the address
\* of a mote is nobody's.
LEMMA RefreshMRTKeeps ==
  ASSUME RouterInv, RoutesInv, NEW m, RefreshMRT(m)
  PROVE  RoutesInv'
<1> DEFINE s == routers[m]
           t == MRT_Refresh(s)
           a == age[m]
           older == [x \in Motes |-> IF a[x] < TooOld THEN a[x] + 1 ELSE TooOld]
           kept == {x \in DOMAIN s.mrt : s.mrt[x].used}
           IsMaster(x) == LookUpNextHop(s, MoteIDtoIP(s.ip, x)) # NoIP
<1>1. /\ m \in Masters /\ Router(s, m) /\ Tells(s, a) /\ a \in Ages /\ DOMAIN a = Motes
      /\ DOMAIN s.iprt \subseteq Peers(m) /\ routers' = [routers EXCEPT ![m] = t]
      /\ UNCHANGED <<net, budget>> /\ DOMAIN routers = Masters
  BY DEF RefreshMRT, Alive, RouterInv, Types, RoutesInv, Ages
<1>2. age' = [age EXCEPT ![m] = older]
  BY <1>1 DEF RefreshMRT
<1>3. /\ DOMAIN t.mrt = kept /\ DOMAIN t.iprt = DOMAIN s.iprt
      /\ \A x \in kept : t.mrt[x] = [s.mrt[x] EXCEPT !.used = IsMaster(x)]
  BY <1>1 DEF MRT_Refresh, Router
<1>4. \A x \in Motes : IsMaster(x) = FALSE
  <2>1. ASSUME NEW x \in Motes PROVE MoteIDtoIP(MyIP(m), x) \notin Peers(m)
    BY <1>1, MotesAssumption DEF Peers, MyIP, RoutesInv
  <2> QED BY <1>1, <2>1 DEF LookUpNextHop, Router, MyIP
<1>5. /\ older \in Ages
      /\ \A x \in Motes : /\ a[x] \in Nat
                          /\ older[x] = IF a[x] < TooOld THEN a[x] + 1 ELSE TooOld
  BY <1>1 DEF Ages, TooOld
<1> HIDE DEF s, t, a, older, IsMaster
<1>6. /\ Entries(t)
      /\ \A x \in kept \cap Motes : t.mrt[x].used = FALSE
  <2>1. Entries(t)
    BY <1>1, <1>3 DEF Entries, Tells
  <2>2. \A x \in kept \cap Motes : t.mrt[x] = [s.mrt[x] EXCEPT !.used = FALSE]
    BY <1>3, <1>4
  <2>3. \A x \in kept : "used" \in DOMAIN s.mrt[x]
    BY <1>1 DEF Entries, Tells
  <2> QED BY <2>1, <2>2, <2>3
<1>7. ASSUME NEW x \in Motes
      PROVE  /\ x \in DOMAIN t.mrt <=> older[x] <= 1
             /\ x \in DOMAIN t.mrt => (t.mrt[x].used = TRUE <=> older[x] = 0)
  <2>1. x \in kept <=> a[x] = 0
    BY <1>1, <1>5 DEF Tells
  <2>2. older[x] # 0 /\ (a[x] = 0 <=> older[x] <= 1)
    BY <1>5 DEF TooOld
  <2> QED BY <1>3, <1>6, <2>1, <2>2
<1>8. Tells(t, older)
  BY <1>6, <1>7 DEF Tells
<1>9. \A n \in Masters : Peers(n)' = Peers(n)
  BY <1>1 DEF Peers
<1>10. age' \in [Masters -> Ages] /\ age'[m] = older /\ \A n \in Masters \ {m} : age'[n] = age[n]
  BY <1>1, <1>2, <1>5 DEF RoutesInv
<1>11. \A n \in Masters : Tells(routers'[n], age'[n]) /\ DOMAIN routers'[n].iprt \subseteq Peers(n)'
  BY <1>1, <1>3, <1>8, <1>9, <1>10 DEF RoutesInv
<1> QED BY <1>1, <1>10, <1>11 DEF RoutesInv

LEMMA RoutesStep == RouterInv /\ RoutesInv /\ [Next]_vars => RoutesInv'
<1> SUFFICES ASSUME RouterInv, RoutesInv, [Next]_vars PROVE RoutesInv'
  OBVIOUS
<1>1. Types
  BY DEF RouterInv
<1>2. ASSUME NEW p \in budget.fromMotes, FromMote(p.at, p.type, p.to) PROVE RoutesInv'
  BY <1>1, <1>2, EntersHears, SpendKeepsHosts DEF FromMote, Alive
<1>3. ASSUME NEW p \in budget.fromTransports, FromTransport(p.at, p.type, p.to) PROVE RoutesInv'
  BY <1>1, <1>3, EntersHears, SpendKeepsHosts DEF FromTransport, Alive
<1>4. CASE \/ \E m \in Masters, answers \in BOOLEAN : Accept(m, answers) \/ ConnectAgain(m, answers)
           \/ \E m \in Masters : ReceiveFromSF(m) \/ CheckAllSocket(m) \/ SFCloses(m)
           \/ \E m \in Masters : \E i \in DOMAIN links[m].clients :
                ReceiveFromClient(m, i) \/ ClientCloses(m, i)
           \/ \E d \in net : Lose(d)
           \/ \E p \in budget.places : Moves(p.mote, [master |-> p.master, hop |-> p.hop])
           \/ UNCHANGED vars
  <2>1. /\ UNCHANGED <<routers, age>> /\ net' \subseteq net
        /\ \/ budget' = budget
           \/ Spend("clients") \/ Spend("faults") \/ Spend("moves")
           \/ budget' = [budget EXCEPT !.faults = @ - 1]
    BY <1>4 DEF Accept, ConnectAgain, ReceiveFromSF, CheckAllSocket, SFCloses, ReceiveFromClient,
           ClientCloses, Lose, Moves, tables, world, history, vars
  <2>2. budget' = [budget EXCEPT !.faults = @ - 1] => budget'.hosts = budget.hosts
    BY <1>1 DEF Types, Scenarios
  <2>3. budget'.hosts = budget.hosts
    BY <1>1, <2>1, <2>2, SpendKeepsHosts
  <2> QED BY <2>1, <2>3, NothingHeard
<1> QED BY <1>2, <1>3, <1>4, OnReceiveHears, AddRouteHears, RefreshIPRTKeeps, RefreshMRTKeeps
        DEF Next

LEMMA RoutesInit == Init => RoutesInv
<1> SUFFICES ASSUME Init PROVE RoutesInv
  OBVIOUS
<1>1. age \in [Masters -> Ages] /\ \A m \in Masters, x \in Motes : age[m][x] = TooOld
  BY DEF Init, Ages, TooOld
<1>2. ASSUME NEW m \in Masters
      PROVE  Tells(routers[m], age[m]) /\ DOMAIN routers[m].iprt \subseteq Peers(m)
  <2> DEFINE s == [local |-> m, ip |-> GetMyIP(Interfaces(m), Interface), mrt |-> <<>>,
                   iprt |-> <<>>]
  <2>1. routers[m] = IPRT_Refresh(s, budget.hosts[m], Interfaces(m))
    BY DEF Init
  <2>2. DOMAIN s.mrt = {} /\ DOMAIN s.iprt = {} /\ {"local", "ip", "mrt", "iprt"} \subseteq DOMAIN s
    OBVIOUS
  <2> HIDE DEF s
  <2>3. IPRT_Aged(s).mrt = s.mrt /\ DOMAIN IPRT_Aged(s).iprt \subseteq DOMAIN s.iprt
        /\ {"local", "ip", "mrt", "iprt"} \subseteq DOMAIN IPRT_Aged(s)
    BY <2>2 DEF IPRT_Aged
  <2>4. /\ routers[m].mrt = s.mrt
        /\ DOMAIN routers[m].iprt \subseteq DOMAIN s.iprt \cup {r.dest : r \in budget.hosts[m]}
    BY <2>1, <2>3 DEF IPRT_Refresh
  <2> QED BY <1>1, <2>2, <2>4 DEF Tells, Entries, Peers, TooOld
<1>3. net = {} /\ budget \in Budgets
  BY DEF Init
<1> QED BY <1>1, <1>2, <1>3 DEF RoutesInv

\* A router's route to a mote outlives a whole period in which nothing of the mote
\* was heard, and not two (MRT_Manager's marks, whoever else sets them).
THEOREM RoutesFollowUseHolds == Spec => []RoutesFollowUse
<1>1. RoutesInv => RoutesFollowUse
  BY DEF RoutesInv, Tells, RoutesFollowUse
<1>2. RouterInv /\ RoutesInv /\ [Next]_vars => (RouterInv /\ RoutesInv)'
  BY RouterStep, RoutesStep
<1> QED BY <1>1, <1>2, RouterInit, RoutesInit, PTL DEF Spec

=============================================================================
