--------------------------- MODULE TransportMain ---------------------------
(***************************************************************************)
(* The transport daemon of a master (master/transport/transportmain.c) and *)
(* the applications that use it through tr_if.c and transportAPI.c.        *)
(*                                                                         *)
(* The daemon is one loop: a step of it handles one request of a client,   *)
(* one packet from the router, or one poll of the timers, with every call  *)
(* these make.  tr holds its globals; a handler is a function of them.     *)
(* The streams (streamtransport.c, rcrtransport.c) appear here as          *)
(* transportmain sees them: alive until they finish or are given up, and   *)
(* pending once their task is closed.  StrMaster and RcrtMaster have the   *)
(* rest.  An application writes a request and the daemon handles it in one *)
(* step: answers queue up in box, so the time between cannot be observed.  *)
(***************************************************************************)
EXTENDS Tcmp

CONSTANTS
  MaxBox,      \* bound: messages a client has not read
  Budgets      \* bounds: how often each thing happens that the motes, the
               \* applications or the world may do at will, see Counted

VARIABLES
  tr,          \* the daemon's globals
  app,         \* what each application does: "none", "idle", "waiting", "gone"
  got,         \* packets the motes have received
  asked,       \* history: the tids assigned to requests of each application
  wanted,      \* history: the tid its pending send_task is about
  returned,    \* history: <<tid assigned, tid returned>> of its send_tasks
  opened,      \* history: all tids ever assigned
  left         \* what is left of the bounds

vars == <<tr, app, got, asked, wanted, returned, opened, left>>

\* Requests of each kind, packets from the motes, streams opened, messages refused
\* by TRD, streams deleted by a timer, deaths of the daemon, and whether the tid file
\* can fail.
Counted == {"tasks", "unicasts", "probes", "services", "answers", "streams", "refusals",
            "giveups", "crashes", "storing"}
ASSUME BudgetAssumption == Budgets \subseteq [Counted -> Nat]

\* The requests that take a tid are no more than there are tids.  Once they have
\* come round a tid may have two meanings at a time.
Requested(b) == b["tasks"] + b["unicasts"] + b["probes"] + b["services"] + b["refusals"]
ASSUME RoundAssumption == \A b \in Budgets : Requested(b) <= MAX_TID

Daemon0 == [tids |-> {}, myTID |-> 1, stored |-> 1, unsaved |-> {}, clients |-> [f \in Fds |-> NoApp],
            broken |-> {}, reading |-> {}, box |-> [s \in Sessions |-> <<>>],
            running |-> {}, spread |-> {}, lost |-> {}, ptrcs |-> <<>>, tcmps |-> <<>>, air |-> {}, streams |-> {}]

Init ==
  /\ tr = Daemon0 /\ left \in Budgets /\ got = {} /\ opened = {}
  /\ app = [s \in Sessions |-> "none"]
  /\ asked = [s \in Sessions |-> {}]
  /\ wanted = [s \in Sessions |-> 0]
  /\ returned = [s \in Sessions |-> {}]

Commands == {"CMD_ACK", "CMD_NACK", "CMD_RETURN"}
Message == [type : Commands \cup {"CLOSE_ACK", "RESPONSE", "BCAST", "SERVICE", "PING", "TRACERT"},
            tid : Tids, addr : Motes \cup {BCAST}, seq : Nat]
Stream == [tid : Tids, addr : Motes, pending : BOOLEAN]

Spend(what) == left[what] > 0 /\ left' = [left EXCEPT ![what] = @ - 1]
Save == left' = left
Room == \A s \in Sessions : Len(tr.box[s]) < MaxBox
Storing == IF left["storing"] > 0 THEN Storings ELSE {"done"}

-----------------------------------------------------------------------------
(* Closing a task.                                                         *)

\* tr_send_close_task of the tasks T to all motes, by TRD, which does not take the
\* `refused'.
StopSent(d, T, refused) ==
  [d EXCEPT !.running = @ \ (T \ refused), !.lost = @ \cup (T \cap refused)]

\* close_transport_connections of the tasks T, as far as the streams are alive.
ConnectionsClosed(d, T) ==
  [PtrDelete(d, T) EXCEPT !.streams =
     {c \in @ : c.tid \notin T} \cup {[c EXCEPT !.pending = TRUE] : c \in {c \in @ : c.tid \in T}}]

\* A mutated form, for CloseIsFinal: asks for the packet transport only.
Mut_ConnectionsAlive(d, tid) == PtrAlive(d, tid)

\* check_transport_connections.
ConnectionsAlive(d, tid) == PtrAlive(d, tid) \/ \E c \in d.streams : c.tid = tid

\* check_close_done.
CloseChecked(d, tid) ==
  IF ~HasTid(d, tid) \/ ConnectionsAlive(d, tid) THEN d
  ELSE RemoveTid(SendToApp(d, "CLOSE_ACK", tid, TidOf(d, tid).addr), tid)

\* The bindings close_all_tid_for_a_client closes, for each descriptor of F.
Owned(d, F) == {t \in d.tids : t.fd \in F /\ t.type \in {"TASK", "CLOSE"}}
TidsOf(bindings) == {t.tid : t \in bindings}

\* close_all_tid_for_a_client.  A task of one mote is stopped once, by a packet
\* whose connection is deleted with the others.
AllClosed(d, F, refused) ==
  LET all == Owned(d, F)
      some == {t \in all : t.addr # BCAST}
      e == StopSent(d, TidsOf(all \ some), refused)
  IN  [ConnectionsClosed(e, TidsOf(all)) EXCEPT
         !.tids = @ \ all,
         !.air = @ \cup UNION {PtrSend(d, t.tid, t.addr, "stop").air : t \in some}]

\* A mutated form, for RunningIsBound: the descriptor is freed and no more.
Mut_ClientRemoved(d, F, refused) ==
  [d EXCEPT !.clients = [f \in Fds |-> IF f \in F THEN NoApp ELSE @[f]]]

\* rem_client: close_all_tid_for_a_client, and the descriptor is free again.
ClientRemoved(d, F, refused) ==
  [AllClosed(d, F, refused) EXCEPT !.clients = [f \in Fds |-> IF f \in F THEN NoApp ELSE @[f]]]

\* senddone_packettransport, after send_PTR_Done.
PtrDone(d, i, success) ==
  LET c == d.ptrcs[i]
      e == PtrFreed(d, i)
  IN  IF ~HasTid(e, c.tid) THEN e
      ELSE IF TidOf(e, c.tid).type = "CLOSE" THEN CloseChecked(e, c.tid)
      ELSE IF success THEN SendToApp(e, "CMD_ACK", c.tid, c.addr)
      ELSE RemoveTid(SendToApp(e, "CMD_NACK", c.tid, c.addr), c.tid)

\* polling_packettransport_timer: the first expired alarm, and no other.
PtrPolled(d) ==
  IF PtrDue(d) = {} THEN d
  ELSE LET i == CHOOSE i \in PtrDue(d) : TRUE
       IN  IF d.ptrcs[i].retx < PTR_MAX_NUM_RETX THEN PtrRetx(d, i) ELSE PtrDone(d, i, FALSE)

-----------------------------------------------------------------------------
(* Applications and their requests.                                        *)

FdOf(s) == CHOOSE f \in Fds : tr.clients[f] = s
Connected(s) == \E f \in Fds : tr.clients[f] = s
Requests(s) == Connected(s) /\ app[s] = "idle" /\ Room

\* open_transport and check_new_client, add_client.
Connect(s, f) ==
  /\ app[s] = "none" /\ \A r \in Sessions : r < s => app[r] # "none"
  /\ tr.clients[f] = NoApp
  /\ tr' = [tr EXCEPT !.clients[f] = s, !.reading = @ \cup {s}]
  /\ app' = [app EXCEPT ![s] = "idle"]
  /\ Save /\ UNCHANGED <<got, asked, wanted, returned, opened>>

\* The tid a request gets, and what is remembered of it.
Opens(s, tid) ==
  /\ tid = NewTid(tr)
  /\ asked' = [asked EXCEPT ![s] = @ \cup {tid}]
  /\ opened' = opened \cup {tid}

\* check_clients on TRANS_TYPE_TASK, from tr_send_task_uni, which then waits.
SendTask(s, addr, ok) ==
  \E tid \in FreeTids(tr), how \in Storing :
    LET d == AddTid(Assigned(tr, tid, how), tid, addr, "TASK", FdOf(s))
    IN  /\ Opens(s, tid)
        /\ IF addr # BCAST
           THEN tr' = SendToApp(PtrSend(d, tid, addr, "task"), "CMD_RETURN", tid, addr)
           ELSE IF ok
           THEN tr' = SendToApp([d EXCEPT !.running = @ \cup {tid},
                                             !.spread = @ \cup {tid}], "CMD_ACK", tid, addr)
           ELSE tr' = RemoveTid(SendToApp(d, "CMD_NACK", tid, addr), tid)
        /\ wanted' = [wanted EXCEPT ![s] = tid]

SendTasks ==
  \E s \in Sessions :
    /\ Requests(s) /\ app' = [app EXCEPT ![s] = "waiting"]
    /\ \/ Spend("tasks") /\ SendTask(s, BCAST, TRUE)
       \/ Spend("refusals") /\ SendTask(s, BCAST, FALSE)
       \/ Spend("unicasts") /\ \E a \in Motes : SendTask(s, a, TRUE)
    /\ UNCHANGED <<got, returned>>

\* check_clients on TRANS_TYPE_CLOSE: delete_task is to all motes.
CloseRequested(d, tid, ok) ==
  LET e == [d EXCEPT !.tids = {IF t.tid = tid THEN [t EXCEPT !.type = "CLOSE"] ELSE t : t \in @}]
  IN  CloseChecked(ConnectionsClosed(StopSent(e, {tid}, IF ok THEN {} ELSE {tid}), {tid}), tid)

CloseTask ==
  \E s \in Sessions, tid \in Tids :
    /\ Requests(s) /\ tid \in asked[s] /\ HasTid(tr, tid)
    /\ TidOf(tr, tid).type \in {"TASK", "CLOSE"}
    /\ \/ Save /\ tr' = CloseRequested(tr, tid, TRUE)
       \/ Spend("refusals") /\ tr' = CloseRequested(tr, tid, FALSE)
    /\ UNCHANGED <<app, got, asked, wanted, returned, opened>>

\* check_clients on TRANS_TYPE_PING, TRANS_TYPE_TRACERT and TRANS_TYPE_SERVICE.
Probe ==
  \E s \in Sessions, tid \in FreeTids(tr), how \in Storing :
    /\ Requests(s) /\ Opens(s, tid)
    /\ \/ /\ Spend("probes")
          /\ \E type \in {"PING", "TRACERT"}, a \in Motes \cup {BCAST} :
               /\ type = "TRACERT" => a # BCAST
               /\ tr' = TcmpStart(AddTid(Assigned(tr, tid, how), tid, a, type, FdOf(s)), tid, a, type)
       \/ /\ Spend("services")
          /\ tr' = [AddTid(Assigned(tr, tid, how), tid, BCAST, "SERVICE", FdOf(s))
                      EXCEPT !.air = @ \cup {[what |-> "SERVICE", tid |-> tid, addr |-> BCAST,
                                              seq |-> 0, ttl |-> 0]}]
    /\ UNCHANGED <<app, got, wanted, returned>>

\* What ends the loop of tr_send_task_uni; anything else it reads is dropped.
EndsWait(m) == m.type \in Commands

\* One message read: by the loop of tr_send_task_uni, or by receive_transport_packet.
Read ==
  \E s \in Sessions :
    /\ app[s] \in {"idle", "waiting"} /\ tr.box[s] # <<>>
    /\ LET m == Head(tr.box[s]) IN
         IF app[s] = "waiting" /\ EndsWait(m)
         THEN /\ app' = [app EXCEPT ![s] = "idle"]
              /\ returned' = [returned EXCEPT ![s] =
                   IF m.type = "CMD_NACK" THEN @ ELSE @ \cup {<<wanted[s], m.tid>>}]
         ELSE UNCHANGED <<app, returned>>
    /\ tr' = [tr EXCEPT !.box[s] = Tail(@)]
    /\ Save /\ UNCHANGED <<got, asked, wanted, opened>>

\* The process ends.  Then the kernel learns that nobody reads, and then the
\* daemon reads the end of the stream: read_transport_msg fails, rem_client.
Exit ==
  \E s \in Sessions :
    /\ app[s] \in {"idle", "waiting"} /\ Connected(s)
    /\ app' = [app EXCEPT ![s] = "gone"]
    /\ tr' = [tr EXCEPT !.box[s] = <<>>, !.reading = @ \ {s}]
    /\ Save /\ UNCHANGED <<got, asked, wanted, returned, opened>>

Breaks ==
  \E s \in Sessions \ tr.broken :
    /\ app[s] = "gone" /\ Connected(s)
    /\ tr' = [tr EXCEPT !.broken = @ \cup {s}]
    /\ Save /\ UNCHANGED <<app, got, asked, wanted, returned, opened>>

Hangup ==
  \E s \in Sessions :
    /\ app[s] = "gone" /\ Connected(s)
    /\ \E R \in SUBSET TidsOf(Owned(tr, {FdOf(s)})) :
         /\ IF R = {} THEN Save ELSE Spend("refusals")
         /\ tr' = ClientRemoved(tr, {FdOf(s)}, R)
    /\ UNCHANGED <<app, got, asked, wanted, returned, opened>>

-----------------------------------------------------------------------------
(* Packets from the router, and the timers.                                *)

\* A mote receives a packet of the air, perhaps again.
MoteReceives ==
  \E m \in {m \in tr.air \ got : m.what \in {"task", "stop"}} :
    /\ got' = got \cup {m}
    /\ Save /\ UNCHANGED <<tr, app, asked, wanted, returned, opened>>

FromMotes == Spend("answers") /\ Room /\ UNCHANGED <<app, got, asked, wanted, returned, opened>>

\* packettransport_receive, PTR_FLAG_ACK: the number of the ACK is not looked at.
PtrAck ==
  \E m \in got :
    /\ FromMotes /\ IsPtr(tr, m.tid, m.addr)
    /\ LET i == PtrAt(tr, m.tid, m.addr)
       IN  tr' = PtrDone(PtrStopped(tr, i), i, TRUE)

\* A mote that has had the task may send: it may not have heard yet that it is stopped.
Known == {k \in opened \X Motes :
            k[1] \in tr.spread \/ \E m \in got : m.tid = k[1] /\ m.addr = k[2]}

\* packettransport_receive, PTR_FLAG_SEND, and receive_packettransport.
PtrData ==
  \E k \in Known :
    /\ FromMotes
    /\ tr' = SendToApp(WithPtr(tr, k[1], k[2]), "RESPONSE", k[1], k[2])

\* TCMP_receive.  Answers may be late, or come twice.  A probe with a ttl of 1 is
\* answered by a mote on the way.
TcmpAnswer ==
  \E m \in {m \in tr.air : m.what \in {"PING", "TRACERT"}}, a \in Motes, late \in BOOLEAN :
    /\ FromMotes
    /\ m.addr \in {a, BCAST} \/ (m.what = "TRACERT" /\ m.ttl = 1)
    /\ tr' = TcmpReceive(tr, m, a, late)

\* service_receive_response, once the base station answers.
ServiceAnswer ==
  \E m \in {m \in tr.air : m.what = "SERVICE"} :
    /\ FromMotes
    /\ tr' = RemoveTid(SendToApp(tr, "SERVICE", m.tid, BCAST), m.tid)

\* receive_trd_transport: another master has disseminated something under tid.
TrdReceive ==
  \E tid \in Tids, a \in Motes : FromMotes /\ tr' = SendToApp(tr, "BCAST", tid, a)

\* streamtransport_receive and rcrtransport_receive, seen from here: a stream
\* opens, hands a packet up, or finishes, the last pending one with
\* *_tid_delete_done; or a timer gives it up, with no word to anybody.
StreamOpens ==
  \E k \in Known :
    /\ Spend("streams") /\ \A c \in tr.streams : <<c.tid, c.addr>> # k
    /\ tr' = [tr EXCEPT !.streams = @ \cup {[tid |-> k[1], addr |-> k[2], pending |-> FALSE]}]
    /\ UNCHANGED <<app, got, asked, wanted, returned, opened>>

StreamData ==
  \E c \in tr.streams : FromMotes /\ tr' = SendToApp(tr, "RESPONSE", c.tid, c.addr)

StreamEnds ==
  \E c \in tr.streams :
    LET d == [tr EXCEPT !.streams = @ \ {c}]
    IN  /\ Room /\ Save
        /\ tr' = IF c.pending /\ \A e \in d.streams : e.tid # c.tid
                 THEN CloseChecked(d, c.tid) ELSE d
        /\ UNCHANGED <<app, got, asked, wanted, returned, opened>>

StreamGivenUp ==
  \E c \in tr.streams :
    /\ Spend("giveups") /\ tr' = [tr EXCEPT !.streams = @ \ {c}]
    /\ UNCHANGED <<app, got, asked, wanted, returned, opened>>

\* Time passes: an alarm that is set expires.
Expire ==
  /\ \/ \E i \in DOMAIN tr.ptrcs : /\ tr.ptrcs[i].alarm = "running"
                                   /\ tr' = [tr EXCEPT !.ptrcs[i].alarm = "expired"]
     \/ \E i \in DOMAIN tr.tcmps : /\ tr.tcmps[i].alarm = "running"
                                   /\ tr' = [tr EXCEPT !.tcmps[i].alarm = "expired"]
  /\ Save /\ UNCHANGED <<app, got, asked, wanted, returned, opened>>

\* check_timer; the streams' part is StrMaster's and RcrtMaster's Poll.
Poll ==
  /\ Room /\ tr' = TcmpPolled(PtrPolled(tr))
  /\ Save /\ UNCHANGED <<app, got, asked, wanted, returned, opened>>

\* The daemon is started again: tidlist_init reads the tid file.  With nothing in it
\* myTID stays 0, and the search begins at 1.  What is on the air stays there.
Restarted(d) ==
  [Daemon0 EXCEPT !.myTID = IF d.stored = NoTid THEN 1 ELSE d.stored, !.stored = d.stored,
                  !.unsaved = d.unsaved, !.air = d.air, !.running = d.running,
                  !.spread = d.spread, !.lost = d.lost \cup d.running]

\* rem_client_list.
AllRemoved(d) == ClientRemoved(d, {f \in Fds : d.clients[f] # NoApp}, {})

\* It dies between two steps, or while it stores the tid for a request, or it is told
\* to end (sig_int_handler: store_tid, and rem_client_list closes every client).
Restart ==
  /\ Spend("crashes")
  /\ \/ tr' = Restarted(tr)
     \/ /\ "emptied" \in Storing /\ \E s \in Sessions : Requests(s)
        /\ tr' = Restarted(StoreTid(tr, "emptied"))
     \/ \E how \in Storing : tr' = Restarted(AllRemoved(StoreTid(tr, how)))
  /\ app' = [s \in Sessions |-> IF app[s] = "none" THEN "none" ELSE "gone"]
  /\ UNCHANGED <<got, asked, wanted, returned, opened>>

Next ==
  \/ \E s \in Sessions, f \in Fds : Connect(s, f)
  \/ SendTasks \/ CloseTask \/ Probe \/ Read \/ Exit \/ Breaks \/ Hangup
  \/ MoteReceives \/ PtrAck \/ PtrData \/ TcmpAnswer \/ ServiceAnswer \/ TrdReceive
  \/ StreamOpens \/ StreamData \/ StreamEnds \/ StreamGivenUp
  \/ Expire \/ Poll \/ Restart

Spec == Init /\ [][Next]_vars

\* Time passes, the loop polls, and an application reads what it is sent.  That streams
\* end is not what the code sees to (StrMaster's Hidden); it is assumed so that a close
\* that is not answered is not the fault of a stream.
FairSpec ==
  /\ Spec
  /\ WF_vars(Expire) /\ WF_vars(Poll) /\ WF_vars(Read) /\ WF_vars(StreamEnds)

-----------------------------------------------------------------------------
(* Properties.                                                             *)

\* What write_routing_msg is handed.
Air == [what : {NoPacket, "task", "stop", "PING", "TRACERT", "SERVICE"}, tid : Tids,
        addr : Motes \cup {BCAST}, seq : Nat, ttl : Nat]

Daemon == [tids : SUBSET Binding, myTID : Tids, stored : Tids \cup {NoTid},
           unsaved : SUBSET Tids, clients : [Fds -> Sessions \cup {NoApp}], broken : SUBSET Sessions,
           reading : SUBSET Sessions, box : [Sessions -> Seq(Message)], running : SUBSET Tids,
           spread : SUBSET Tids, lost : SUBSET Tids, ptrcs : Seq(PtrConn), tcmps : Seq(TcmpEntry),
           air : SUBSET Air, streams : SUBSET Stream]

TypeOK ==
  /\ tr \in Daemon /\ got \subseteq tr.air
  /\ app \in [Sessions -> {"none", "idle", "waiting", "gone"}]
  /\ asked \in [Sessions -> SUBSET Tids] /\ opened \subseteq Tids
  /\ wanted \in [Sessions -> Tids \cup {0}] /\ returned \in [Sessions -> SUBSET (Tids \X Tids)]
  /\ left \in [Counted -> Nat]

\* No tid was given out twice so far.
OneOwner == \A s, r \in Sessions : s # r => asked[s] \cap asked[r] = {}

\* A client that is told that a close is done (check_close_done) hears no more of the
\* task: nothing is bound to it, the task runs nowhere, unless its stop was given up, no
\* stream is left that was to end first, and what comes late is for nobody.
IsFinal(s, i) ==
  LET tid == tr.box[s][i].tid
  IN  /\ ~HasTid(tr, tid) /\ tid \notin tr.running \ tr.lost
      /\ \A c \in tr.streams : c.tid = tid => ~c.pending
      /\ \A j \in DOMAIN tr.box[s] : i < j => tr.box[s][j].tid # tid
CloseIsFinal ==
  OneOwner => \A s \in Sessions : \A i \in DOMAIN tr.box[s] :
                tr.box[s][i].type = "CLOSE_ACK" => IsFinal(s, i)

\* What an application reads about tasks is about its own, whoever had its
\* descriptor before: the answers to its commands, its responses.
OnlyOwnAnswers ==
  \A s \in Sessions : \A i \in DOMAIN tr.box[s] :
    tr.box[s][i].type \in Commands \cup {"CLOSE_ACK", "RESPONSE"} => tr.box[s][i].tid \in asked[s]

\* send_task returns the tid its task was given, if the application only sends to
\* all motes (the answer to a unicast task may come twice, or late).
SendReturnsItsTid ==
  \A s \in Sessions : \A r \in returned[s] :
    r[1] = r[2] \/ \E m \in tr.air : m.what = "task" /\ m.tid \in asked[s]

\* A task that runs on the motes is bound to a client that is connected, so that it
\* will be stopped when the client closes it or goes; or its binding was lost with a
\* failed write, a refused stop or the daemon itself.
RunningIsBound ==
  OneOwner => \A tid \in tr.running :
                \/ tid \in tr.lost
                \/ HasTid(tr, tid) /\ tr.clients[TidOf(tr, tid).fd] # NoApp

\* A tid is not given out twice, also not across the death of the daemon, as long as
\* there are any that were never used, unless it was not in the file when the daemon was
\* started: the motes may still run the old task.
TidsNotReused ==
  [][OneOwner => \A s \in Sessions : (asked'[s] \ asked[s]) \cap opened \subseteq tr.unsaved]_vars

\* A mote that is reported to have a task has it.
AckedHasIt ==
  \A s \in Sessions : \A i \in DOMAIN tr.box[s] :
    tr.box[s][i].type = "CMD_ACK" /\ tr.box[s][i].addr # BCAST =>
      \E m \in got : m.tid = tr.box[s][i].tid /\ m.addr = tr.box[s][i].addr /\ m.what = "task"

\* What an application is told is about its own tasks, and true, as long as no tid
\* means two of them.
Answers == OneOwner => OnlyOwnAnswers /\ SendReturnsItsTid /\ AckedHasIt

\* A ping or a trace ends, whatever is lost, and then its tid is free again.
IsProbed(tid) == \/ \E i \in DOMAIN tr.tcmps : tr.tcmps[i].tid = tid
                 \/ \E t \in tr.tids : t.tid = tid /\ t.type \in {"PING", "TRACERT"}
ProbeEnds == \A tid \in Tids : IsProbed(tid) ~> ~IsProbed(tid)

\* A close that is pending is answered.
CloseIsAnswered ==
  \A tid \in Tids : (\E t \in tr.tids : t.tid = tid /\ t.type = "CLOSE") ~> ~HasTid(tr, tid)
=============================================================================
