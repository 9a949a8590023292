------------------------------ MODULE TidList ------------------------------
(***************************************************************************)
(* The bindings of transportmain: which client asked for which tid         *)
(* (master/transport/tidlist.c) and the sockets of the clients (client.c,  *)
(* the write of trsource.c).                                               *)
(*                                                                         *)
(* The daemon's globals are one record d, here the fields                  *)
(*   tids     the list tids, as a set: every search is by the unique tid   *)
(*   myTID    the next tid to try, and stored, its copy in the tid file,   *)
(*            or NoTid with nothing in the file                            *)
(*   clients  the client behind each descriptor, or NoApp                  *)
(*   broken   clients whose socket the kernel knows to be dead             *)
(*   reading  clients that still read what they are sent                   *)
(*   box      what was written to each client and not read yet             *)
(*   spread, running, lost   history: tasks disseminated; those of them    *)
(*            not stopped since; those whose stop was given up             *)
(*   unsaved  history: tids the daemon would give out again if it were     *)
(*            started anew                                                 *)
(***************************************************************************)
EXTENDS Integers, Sequences, FiniteSets

CONSTANTS
  Fds,        \* file descriptors accept may return
  Sessions,   \* application processes, in the order they connect: 1 .. n
  MAX_TID,    \* tids are 1 .. MAX_TID
  Motes,      \* addresses
  BCAST       \* TOS_BCAST_ADDR

ASSUME TidAssumption ==
  MAX_TID \in Nat \ {0} /\ BCAST \notin Motes /\ Sessions \subseteq Nat \ {0}

NoApp == 0
NoTid == 0
Tids == 1 .. MAX_TID
Types == {"TASK", "CLOSE", "SERVICE", "PING", "TRACERT"}
Binding == [tid : Tids, addr : Motes \cup {BCAST}, type : Types, fd : Fds]

HasTid(d, tid) == \E t \in d.tids : t.tid = tid
TidOf(d, tid) == CHOOSE t \in d.tids : t.tid = tid

RemoveTid(d, tid) == [d EXCEPT !.tids = {t \in @ : t.tid # tid}]

AddTid(d, tid, addr, type, fd) ==
  IF HasTid(d, tid) THEN d
  ELSE [d EXCEPT !.tids = @ \cup {[tid |-> tid, addr |-> addr, type |-> type, fd |-> fd]}]

\* assign_new_tid(0): from myTID on, wrapping, to the first tid not in use.  It
\* would loop for ever with none left.
FreeTids(d) == {m \in Tids : ~HasTid(d, m)}
NewTid(d) == CHOOSE m \in FreeTids(d) :
               \A n \in FreeTids(d) : (m - d.myTID) % MAX_TID <= (n - d.myTID) % MAX_TID

\* store_tid: the file is opened and by that emptied, and then written.  Nobody looks
\* whether either was done.
Storings == {"done", "unopened", "emptied"}
StoreTid(d, how) ==
  CASE how = "done" -> [d EXCEPT !.stored = d.myTID, !.unsaved = {t \in @ : t >= d.myTID}]
    [] how = "unopened" -> d
    [] how = "emptied" -> [d EXCEPT !.stored = NoTid, !.unsaved = Tids]

\* A mutated form, for TidsNotReused: the file is written at termination only.
Mut_Assigned(d, tid, how) == [d EXCEPT !.myTID = (tid % MAX_TID) + 1]

\* The end of assign_new_tid.
Assigned(d, tid, how) ==
  StoreTid([d EXCEPT !.myTID = (tid % MAX_TID) + 1, !.unsaved = @ \cup {tid}], how)

-----------------------------------------------------------------------------
(* Writing to a client.                                                    *)

\* write_tr_packet fails once the kernel has seen the reset of the connection;
\* before that what is written to a client that is gone is lost.
CanWrite(d, fd) == d.clients[fd] \notin d.broken \cup {NoApp}

Written(d, fd, m) ==
  IF d.clients[fd] \in d.reading THEN [d EXCEPT !.box[d.clients[fd]] = Append(@, m)] ELSE d

\* A mutated form, for Answers: the descriptor of an earlier binding.
Mut_SendToTid(d, m) ==
  LET fd == IF HasTid(d, m.tid) THEN TidOf(d, m.tid).fd ELSE CHOOSE f \in Fds : TRUE
  IN  IF CanWrite(d, fd) THEN Written(d, fd, m) ELSE RemoveTid(d, m.tid)

\* send_to_tid.  A failed write removes the binding, and with it all that would
\* ever stop the task.
SendToTid(d, m) ==
  IF ~HasTid(d, m.tid) THEN d
  ELSE IF CanWrite(d, TidOf(d, m.tid).fd) THEN Written(d, TidOf(d, m.tid).fd, m)
  ELSE [RemoveTid(d, m.tid) EXCEPT !.lost = @ \cup (d.running \cap {m.tid})]

\* send_toApp: the header is the type, the tid and the address.
SendToApp(d, type, tid, addr) ==
  SendToTid(d, [type |-> type, tid |-> tid, addr |-> addr, seq |-> 0])
=============================================================================
