---------------------------- MODULE RouterTables ----------------------------
(***************************************************************************)
(* The tables of the master's router (master/router: MRT_Manager.cpp,      *)
(* IPRT_Manager.cpp and the interface queries of Network.cpp).             *)
(*                                                                         *)
(* An address of a mote is its two bytes, high byte first; an IP address   *)
(* is its four bytes.  A router is a record:                               *)
(*   local, ip   s_nTenetLocalAddr and GetMyIP()                           *)
(*   mrt         s_MRT: mote -> next hop (mote), its master's IP, used     *)
(*   iprt        s_IPRT: destination -> next hop, used                     *)
(***************************************************************************)
EXTENDS Integers, Sequences, SequencesExt

NoAddr == <<0, 0>>
Broadcast == <<255, 255>>
NoIP == <<0, 0, 0, 0>>

MoteIDtoIP(myIP, mote) == SubSeq(myIP, 1, 2) \o mote
IsLoopback(ip) == ip[1] = 127 /\ ip[2] = 0

\* A table with the entry e for x, new or in the place of the one it had.
Entered(table, x, e) == [y \in DOMAIN table \cup {x} |-> IF y = x THEN e ELSE table[y]]

-----------------------------------------------------------------------------
(* The interfaces of the machine: [name, ip, answers].  An interface whose   *)
(* address cannot be read is taken to have that of the interface before it.  *)

\* GetAddress, where field is "name", or "ip" for CHECK, whose network byte order
\* makes no difference here; the last result of ioctl if there is none.
GetAddress(interfaces, field, wanted) ==
  LET Look(a, i) ==
        IF a.done THEN a
        ELSE LET ip == IF i.answers THEN i.ip ELSE a.ip IN
             IF [i EXCEPT !.ip = ip][field] = wanted THEN [done |-> TRUE, ip |-> ip, result |-> ip]
             ELSE [done |-> FALSE, ip |-> ip,
                   result |-> IF i.answers THEN NoIP ELSE <<255, 255, 255, 255>>]
  IN FoldLeft(Look, [done |-> FALSE, ip |-> NoIP, result |-> NoIP], interfaces).result
GetMyIP(interfaces, name) == GetAddress(interfaces, "name", name)
\* A gateway 0.0.0.0 is on this machine, if the last interface answers.
IsInTheSameMachine(interfaces, ip) == GetAddress(interfaces, "ip", ip) = ip

-----------------------------------------------------------------------------
(* The table of the masters.  Every lookup marks the entry as used.          *)

LookUpNextHop(s, dest) == IF dest \in DOMAIN s.iprt THEN s.iprt[dest].next ELSE NoIP
LookedUp(s, dest) == IF dest \in DOMAIN s.iprt THEN [s EXCEPT !.iprt[dest].used = TRUE] ELSE s
IPRT_Update(s, dest, next) ==
  [s EXCEPT !.iprt = Entered(@, dest, [next |-> next, used |-> TRUE])]

\* Refresh: the entries that were not used since the last one go; then the routes
\* of the operating system to single hosts through other machines are entered.
IPRT_Aged(s) ==
  [s EXCEPT !.iprt = [d \in {d \in DOMAIN @ : @[d].used} |-> [@[d] EXCEPT !.used = FALSE]]]
IPRT_Refresh(s, routes, interfaces) ==
  LET hosts == {r \in routes : r.host /\ ~IsInTheSameMachine(interfaces, r.gateway)}
      dests == {r.dest : r \in hosts}
      Gateway(d) == (CHOOSE r \in hosts : r.dest = d).gateway
  IN [IPRT_Aged(s) EXCEPT !.iprt =
        [d \in DOMAIN @ \cup dests |->
           IF d \in dests THEN [next |-> Gateway(d), used |-> TRUE] ELSE @[d]]]

-----------------------------------------------------------------------------
(* The table of the motes.                                                  *)

MRT_SetUsed(s, mote) == IF mote \in DOMAIN s.mrt THEN [s EXCEPT !.mrt[mote].used = TRUE] ELSE s

MRT_Update(s, mote, next, master) ==
  CASE mote \notin DOMAIN s.mrt /\ mote = s.local -> s
    [] mote \in DOMAIN s.mrt /\ next = NoAddr -> MRT_SetUsed(s, mote)
    [] OTHER -> [s EXCEPT !.mrt =
                   Entered(@, mote, [next |-> next, master |-> master, used |-> TRUE])]

\* The IP to send to for a mote; afterwards the master's entry is used.
LookUpNextHopMaster(s, mote) ==
  IF mote \notin DOMAIN s.mrt THEN NoIP
  ELSE LET master == s.mrt[mote].master
           next == LookUpNextHop(s, master) IN
       IF master = s.ip \/ next = NoIP THEN master ELSE next
MasterLookedUp(s, mote) ==
  IF mote \in DOMAIN s.mrt THEN LookedUp(s, s.mrt[mote].master) ELSE s
\* Of a mote that is behind this master.
LookUpNextHopMote(s, mote) == s.mrt[mote].next

\* Mutated form, for RoutesFollowUse: the mark stays.
Mut_MRT_Refresh(s) ==
  [s EXCEPT !.mrt = [m \in {m \in DOMAIN s.mrt : s.mrt[m].used} |-> s.mrt[m]]]

\* The motes that were not used since the last refresh go.  One whose address is
\* that of a master with an entry counts as used again, and the lookup that
\* finds out marks that entry.
MRT_Refresh(s) ==
  LET kept == {m \in DOMAIN s.mrt : s.mrt[m].used}
      IsMaster(m) == LookUpNextHop(s, MoteIDtoIP(s.ip, m)) # NoIP
  IN [s EXCEPT !.mrt = [m \in kept |-> [s.mrt[m] EXCEPT !.used = IsMaster(m)]],
               !.iprt = [d \in DOMAIN s.iprt |->
                           [s.iprt[d] EXCEPT !.used =
                              @ \/ \E m \in kept : MoteIDtoIP(s.ip, m) = d]]]

=============================================================================
