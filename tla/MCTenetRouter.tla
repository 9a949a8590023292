---------------------------- MODULE MCTenetRouter ----------------------------
(* An instance of TenetRouter for TLC: three masters, of which the last has no *)
(* base station, and two motes.  The address of one mote is that of a master   *)
(* with its bytes the other way round.                                         *)
EXTENDS TenetRouter

A == <<0, 1>>
B == <<0, 2>>
C == <<0, 3>>
X == <<1, 0>>
Y == <<0, 9>>
MCMasters == {A, B, C}
MCMotes == {X, Y}
MCStandalone == {C}
Lo == [name |-> "lo", ip |-> <<127, 0, 0, 1>>, answers |-> TRUE]
MCInterfaces(m) ==
  <<Lo, [name |-> "wlan0", ip |-> <<10, 7>> \o m, answers |-> TRUE],
    [name |-> "eth1", ip |-> NoIP, answers |-> FALSE], Lo>>

P(at, type, to) == [at |-> at, type |-> type, to |-> to]
NoHosts == [m \in MCMasters |-> {}]
Route(dest, gateway, host) ==
  [dest |-> <<10, 7>> \o dest, gateway |-> IF gateway = NoAddr THEN NoIP ELSE <<10, 7>> \o gateway,
   host |-> host]
ViaB == [NoHosts EXCEPT ![A] = {Route(C, B, TRUE), Route(B, NoAddr, TRUE), Route(NoAddr, B, FALSE)}]
Home == (X :> [master |-> A, hop |-> Y]) @@ (Y :> [master |-> B, hop |-> Y])

\* A scenario: who may send what and how often, who moves where, which routes a
\* debugger adds, how many clients come, how many faults there are, and whose
\* timers run.
Quiet ==
  [fromMotes |-> {}, motes |-> 0, fromTransports |-> {}, transports |-> 0, places |-> {},
   moves |-> 0, added |-> {}, routes |-> 0, clients |-> 0, faults |-> 0, timers |-> {},
   hosts |-> NoHosts, place |-> Home]
Moving ==
  [Quiet EXCEPT !.fromMotes = {P(Y, "col", A), P(Y, "col", B)}, !.motes = 2,
                !.fromTransports = {P(A, "col", Y)}, !.transports = 1,
                !.places = {[mote |-> Y, master |-> A, hop |-> X]}, !.moves = 1, !.timers = {A}]
Added ==
  [Quiet EXCEPT !.fromMotes = {P(X, "trd", AnyMaster), P(X, "col", Y)}, !.motes = 1,
                !.fromTransports = {P(B, "col", Y), P(A, "trd", B)}, !.transports = 1,
                !.added = {[at |-> A, to |-> Y, master |-> B], [at |-> B, to |-> Y, master |-> A]},
                !.routes = 2, !.timers = {B}]
Spreading ==
  [Quiet EXCEPT !.fromMotes = {P(X, "trd", Broadcast), P(Y, "col", UART)}, !.motes = 1,
                !.fromTransports = {P(A, "trd", Broadcast), P(C, "other", Broadcast),
                                    P(A, "other", A), P(B, "col", Y)},
                !.transports = 2, !.clients = 1, !.faults = 1]
Both ==
  [Quiet EXCEPT !.fromTransports = {P(A, "trd", B), P(B, "trd", Broadcast)}, !.transports = 1, !.timers = {A, B}]
Hosts ==
  [Quiet EXCEPT !.fromMotes = {P(X, "col", C)}, !.motes = 1,
                !.fromTransports = {P(C, "trd", Broadcast), P(C, "col", X)}, !.transports = 1,
                !.timers = {A}, !.hosts = ViaB]
MCBudgets == {Moving, Added, Both, Spreading, Hosts}
\* FairSpec for these scenarios, with the steps told apart by what they change:
\* datagrams are read until there is none, and each clock that runs goes on.
MCFairSpec ==
  /\ Spec
  /\ []<>(net = {}) \/ []<><<net' # net>>_vars
  /\ \A m \in MCMasters :
       []<>(m \in dead \/ m \notin budget.timers) \/ []<><<since'[m] # since[m]>>_vars
=============================================================================
