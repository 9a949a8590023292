# Tenet: a verification project

Tenet is a two-tier sensor network. Motes (TinyOS, nesC, `src/mote`) run small *tasks*,
chains of *tasklets*; masters (C and C++, `src/master`) disseminate the tasks for their
applications and collect what the motes send back. This directory holds TLA+ models of that
code, configurations to check them with TLC, and proofs for TLAPS. `PROJECT.json` maps every
definition to the lines it models and gives, for every property of a passing run, a mutated
form of a definition under which TLC finds the property violated (`Mut_...`, next to the
definition it replaces).

Modelled are the stream transport end by end, all of the master side of the system (daemon,
transports, dissemination, task library, router), and the serial forwarder between a master
and its base station. Of the mote's own software the stream transport with its log and
tasklet is modelled; the rest is in section 7.

## 1. Inventory

What each part keeps, what it does, what is hard about it, and what would make it correct.

### On the way of a task and its answers

| part | source | state | operations | hard behaviour | correct when |
|---|---|---|---|---|---|
| task library | `master/tasklib` | parser globals, the packet, `tr_opened`, a response list | `send_task`, `read_response`, `close_task` | globals that outlive a call; error paths | the packet says what the text says |
| transport daemon | `master/transport/transportmain.c`, `tidlist.c`, `client.c` | tids and the client of each, descriptors, the tid file | requests of clients, packets from the router, a poll of the timers | clients that go, descriptors and tids used again, closes in stages | answers go to the client they belong to; what runs can be stopped |
| packet transport, master | `packettransport.c` | per task and mote a packet in hand, a count, an alarm | send, ACK, timer, delete | a second send, late ACKs, packets after a close | reported means received; a close ends |
| task control | `tcmp.c` | a list of pings and traces | request, answer, timeout | late and repeated answers | each request ends, and its tid is free again |
| dissemination | `master/trd`, `mote/lib/trd` | table of origins, cache, memory, recover list, state, trickle timer | new packet, summary, request, message, timers | loss, restart, ageing, caches at their limit | every node gets every task, in order, whole |
| router | `master/router` | routes to motes and masters, sockets | packets of base station, transports and other masters; refresh | tables that disagree, motes that move, links that close | one copy, to the right place; loops end; routes follow use |
| serial forwarder | `tools/sf` | frame being read, queues, clients | bytes, packets, clients, acknowledgements | faults of the line, late ACKs, blocking | written means received; nothing lies unread |
| base station | `mote/apps/BaseStation` | two rings | radio to serial and back | full rings | order is kept |

### Data from the motes

| part | source | state | operations | hard behaviour | correct when |
|---|---|---|---|---|---|
| sequence numbers | `mote/lib/transport/tr_seqno.c` | none | compare, difference, next, add | the wrap, `uint16_t` | order agrees with the order of sending within `TR_VALID_RANGE` |
| stream transport, mote | `StreamTransportM.nc`, `tr_list.h` | one connection, one radio buffer, write and read buffer of the flash, recover list | open, send, close; SYN_ACK, FIN_ACK, NACK; four completions; two timers | completions in any order, five senders of one buffer, timeouts racing answers | what goes out is what was accepted; everything is answered |
| log | `StrLoggerP.nc` | two volumes: ready, dirty, current, next | write, read, erase | erasing ahead of the writer while old packets are read | what may be asked for is where it is looked for |
| SendSTR | `mote/tasklets/SendSTR.nc` | an element per task, a packet waiting, one being sent | construct, run, suicide, openDone, sendDone | a task deleted while it opens or sends | one answer per packet |
| stream transport, master | `streamtransport.c` and its lists | per task and mote: state, numbers, missing list, packet list, alarm | SYN, DATA, FIN, timer poll, delete | loss, reordering, duplicates, the wrap | in order; gaps chased; connections end |
| rate-controlled transport | `rcrtransport.c` | the same, and totals R, D, N of rates | the same, feedback, and a new share of the rate whenever a connection changes | as above; arithmetic on rates | as above; shares that add up |
| the same, mote | `RcrTransportM.nc`, `RtrLoggerP.nc` | a connection and a log | as the stream transport | as the stream transport | as the stream transport |
| packet transport, mote | `PacketTransportM.nc` | slots, one radio buffer | send, ACK, retransmit, give up | late sendDone, slots that run out | one sendDone per send; one owner of the buffer |

### On a mote

`TaskInstallerC` builds a task from a packet and destroys it, `TenetScheduler` keeps the
queue of active tasks, `TaskLib` and `MemoryM` hold the memory they live in, and each
tasklet may keep an active task across an event. Hard: a task deleted while tasklets, queue
or radio hold parts of it. `net/lqirp` forwards packets towards a parent chosen by link
quality, with one bounded queue. The timers and sampling drivers are thin.

### How they interact

An application writes a task with the library, which gives it to the daemon, which has TRD
disseminate it among masters and motes, or sends it to one mote by the packet transport. On
a mote the task's `SendSTR` element opens a connection; its SYN creates the master's
connection; data flows up; NACKs and acknowledgements flow down. Between mote and daemon lie
the base station, the serial forwarder and the routers, which may carry a packet from one
master to another. When the application closes the task, the daemon disseminates a stop and
tells each transport; the mote's element closes the connection with a FIN; the master
acknowledges when nothing is missing, and the daemon answers the application. On a mote
everything runs in TinyOS tasks: one handler at a time, calls and signals inside a handler
are synchronous, posted tasks run in order. Each program of the master is one process with
one loop.

## 2. Modules

| module | what it is | code |
|---|---|---|
| `TrSeqno`, `SeqnoPair` | sequence numbers; two counters driven by them, to state what comparison means | `tr_seqno.c` |
| `InOrderStream` | abstract: what a reliable stream promises its application | |
| `StrMaster` | the master's stream transport | `streamtransport.c`, its lists |
| `StrLogger`, `LogUser` | the mote's log and the flash below it; the log used in order | `StrLoggerP.nc` |
| `StrMote` | the mote's connection, the log and `SendSTR` together | `StreamTransportM.nc`, `tr_list.h`, `SendSTR.nc` |
| `TidList`, `PtrMaster`, `Tcmp` | bindings and clients; packet transport; pings: functions of the daemon's globals | `tidlist.c`, `client.c`, `packettransport.c`, `tcmp.c` |
| `TransportMain` | the daemon, applications and motes | `transportmain.c`, `service.c`, `tr_if.c` |
| `TrdSeqno`, `TrdTable`, `TrdNode` | numbers; table, cache and recover list; one node's handlers | `trd_seqno.c`, `trd_table.c`, `trd_nodecache.c`, `trd_metalist.c`, `master/trd` |
| `TrdNetwork` | nodes that hear each other | `master/trd` |
| `RcrtRates`, `RcrtMaster` | how the rate is shared; the rate-controlled transport | `rcrtransport.c` |
| `TaskElements`, `TaskCommands`, `TaskParser` | elements as bytes, the commands, the parser with its grammar | `element_construct.c`, `tp.c`, `parser.y`, `lexer.l` |
| `TenetApi` | an application, the library, and the daemon as it sees it | `tenetAPI.c`, `transportAPI.c`, `response.c` |
| `RouterTables`, `TenetRouter` | the two tables; several routers and their links | `master/router` |
| `SerialSource`, `SerialForwarder` | framing and acknowledgements; the forwarder's loop | `tools/sf` |
| `..._proofs` | theorems | |
| `MC...` | instances for TLC: the scenarios of each run | |

Each group forms one chain of EXTENDS, so that a step of the upper module is one step of
all: what one handler does, with every call it makes, is one action.

### How state and actions correspond to the code

*StrMaster.* `strcs` is `m_strcs` keyed by task and mote; `before` is the order of that
list, which decides whose alarm the poll finds first. A record has the fields of `struct
strclist`. Handlers are functions from record to record (`Noticed` is `detectMissingPacket`,
`Drained` the loop of `receive_str_msg`, by its result), and an action applies them for one
packet or one alarm. The missing list is a set: entries are appended in order of age, and a
NACK names the oldest. Packets of one stream arrive at most `Gap` ahead of the newest and
`Late` behind it, in any order and any number of times, as data or retransmission, and at
most `Lag` ahead of one not delivered. SYN and FIN may be repeated; a FIN may reach a master
that has no connection.

*StrLogger, StrMote.* A command of the log is a relation between its result and the change
it makes, so that a refused command that changes state all the same is visible. The flash is
external: one operation per volume at a time, each completes, perhaps with an error; a place
written twice without an erasure holds `Garbage`. `StrMote` has one action per TinyOS task,
per completion and per message. `tasks` is the queue of posted tasks, `air` what the radio
holds between `send` and `sendDone`. The layer below passes a packet on in a task of its
own, which is posted behind those in the queue (`HandedDown`, `TransmitTask`): neither
sendDone nor an answer comes before these have run. The master may answer a SYN or FIN it
has heard at any time and any number of times, or never. `spoiled` is history: an erasure
failed, or a connection began whose cid something on the mote had already (`Ambiguous`): a
living task, a flash buffer, a packet in the log.

That order was missing at first, and the proof of `SendDoneMeansKept` showed it: an
answer could reach the mote while the erasure of the connection before was still in the
queue, and with four tasks TLC found a packet reported as kept and then erased. In TinyOS
that erasure runs before the SYN has left the mote (`EraseFirst` in `StrMote_proofs`).

*TransportMain.* `tr` holds the daemon's globals. A step handles one request of a client,
one packet from the router or one poll (`Poll` serves what the alarms of the packet
transport and of pings have due). `box` is what was written to a client and not read. Motes
run what they are sent, acknowledge it late, twice or never, and answer pings. The streams
appear as what the daemon sees: alive until they finish or are given up. A restart of the
daemon keeps only the tid file; the applications find out by their sockets: `Restart` covers
a crash and a signal. Storing a tid (`StoreTid`) opens the file, which empties it, and then
writes it: it may not open, the daemon may die in between, and whoever starts it again finds
the old number or none (`NoTid`). What is on the air stays there. The loop that closes all
tasks of a client (`close_all_tid_for_a_client`) is one function of the set of their
bindings, since its turns touch different tids. `asked`, `returned`, `opened`, `got`,
`unsaved` are history.

*TrdNode, TrdNetwork.* A node is a record of the globals of `trd_state.c`, `trd_memory.c`,
`trd_timer.c` and `trd_fragment.c`, with the table it shares with the mote's code. What a
handler sends is put on the links to all nodes in range; a link is in order and may lose
anything. A cache is a sequence in the order of the array, because which entry is replaced
depends on it. Ageing (`Tick`) is one step for all of a node's ages. `jumbled` is history: a
packet gave way in the cache to another although it was not the oldest.

*RcrtMaster.* As `StrMaster`, on the list in its order, with the rates. Intervals are
numbers of milliseconds as in the code, divided as in C. `rate2interval` cuts a quotient of
doubles to a whole number: where it would be one, the double may fall short of it (1000.0 by
1000.0/60.0 comes out below 60), and `Cut` takes one off wherever the constant `FallsShort`
says so. The measured loss, the level of
congestion and the round trip time are chosen freely. `Junk` is what an uninitialised
`cur_irate` holds. `crashed` is the walk of `delete_tid` through an entry it has freed.

*TaskParser, TenetApi.* The user writes a task token by token. The packet is a function from
offset to the element that starts there; an element is the bytes a constructor writes, by
field. `overrun` is set when an element ends past the `PacketSize` bytes of the caller, and
there the model ends. A command is a table where several differ only in a code. What a mote
reads from the packet (`MoteReads`) is compared with the calls of the text.

*TenetRouter.* Each handler of the router is one action. A datagram carries what the code
reads. Interfaces, system routes and the byte order of addresses are as in the code, because
lookups depend on them. Clocks are the two refreshes, `IPRT_PER_MRT` of one to one of the
other.

*SerialSource, SerialForwarder.* The line carries bytes; a CRC finds every fault. The
forwarder's loop is split only where it blocks: in `select`, for a client's version or the
rest of its packet, for room in the socket of a client that does not read (`Room` packets
fit), and for an acknowledgement. Descriptors are numbers the kernel gives out
again, lowest first.

## 3. Runs

All constants are scaled down; the assumptions of the modules keep the relations the code
relies on (`2 * TR_VALID_RANGE < TR_MAX_SEQNO`, a volume longer than the range, and so on).
Deadlock is checked where a run says nothing else; the bounded scenarios end, and there the
models stop, so every run but `trd` has it off. The environment of a run is a set of
*scenarios* (or budgets), from which the initial state chooses one: each lets some things
happen, a number of times, so that the interesting combinations are complete and the state
spaces finite.

| run | checks | bounds and why they are enough |
|---|---|---|
| `seqno_order` | `CmpFollowsPosition`, `DiffGivesLead` | ring 23, range 5, lead up to 4, 30 steps from every start: wraps at every position |
| `master_stream` | `TypeOK`, `NothingForgotten`, `MissingIsChased`, `PlistSorted`, `DeliversInOrder`, `EndingIsDeleted` | one stream of 14 packets on a ring of 12 with range 4: gaps that age out with packets waiting behind them among the first six, then the wrap; NACKs name two, so lists exceed one NACK. A second connection, of another mote, beside the first while that has sent two packets at most: either may be ahead of the other in the list, and idle |
| `log_ring` | `RangeReadable`, `NeverOverwrites`, `LogIsFreed` | volumes of 4, ring 16, 21 packets: five changes of volume and a wrap |
| `mote_stream` | `LoggedIsFound`, `SendDoneMeansKept`, `AirIsGenuine` | volumes of 2, a ring of 4 numbers. One task, five packets: both volumes and the first again, with the number of the first, and with two NACKs, or one and a flash error. Two tasks, two packets each, a radio error, a NACK, a deletion: one connection after the other over the same buffers and log; two whose tids have the same low byte; an erasure that fails |
| `mote_answers` | `SendIsAnswered`, `RequestIsServed`, `OpenAndCloseEnd` | one task, two packets, a refusal, a failed erasure, a NACK, a deletion, two retries |
| `daemon` | `Answers`, `RunningIsBound`, `CloseIsFinal`, `TidsNotReused`, `ProbeEnds` | two applications on two descriptors, three tids, two motes: a descriptor and a tid can be used again; scenarios for closing, two clients, the packet transport, pings, services, a restart, and two with a tid file that does not open or is left empty |
| `daemon_close` | `CloseIsAnswered` (violated) | one task, one stream, one late packet |
| `trd` | `HandedUpInOrder`, `OnlyWholeTasks`, `CacheServes`, `CatchesUp` | one origin, a cache of three, up to five packets, so that two give way; two tasks of two fragments with the loss of any two; four ticks of age, with which packets pass every limit (2, 3 and 4 of 6) and their origin is forgotten; a restart, also between two tasks; nodes that start; a chain of three |
| `rcrt` | `GapsAreChased`, `SharesAreSound`, `DeliversInOrder`, `ClosingEnds` | one connection with five packets and every gap, range 3, and one with 18 packets on a ring of 16, whose numbers wrap; two motes that join, leave and change speed under each of four policies; two tasks with three connections closed in any order, one of which asks for the longest interval there is; one for 23800 ms, whose double falls short |
| `task_library` | `SentIsWhatWasWritten`, `GoodTaskIsAccepted`, `ResponseIsWhole` | every command with up to five arguments and a second call; three calls, of which two may fill the packet of 40 bytes (300 in the code, which 24 calls of `wait` exceed); texts with every misplaced token; more arguments than fit (7 here); two texts in one process; responses of up to four attributes |
| `router` | `OneCopy`, `RoutesFollowUse`, `Settles` | three masters, one without a base station, two motes; a mote that moves, routes added so that they form a circle, broadcasts, a lost base station, two masters with clocks, system routes |
| `serial_forwarder` | `AckedWasGot`, `AFaultCostsTwo`, `Served` | three packets up, two down, with bytes to escape; one fault of the line (a byte lost, changed or added), two clients, one that closes, and sockets that one unread packet fills |

What the properties say:

- `NothingForgotten`: a packet neither delivered nor waiting is on the missing list until it
  is `TR_VALID_RANGE` old. `MissingIsChased`: while the list is not empty the connection is
  in a state whose alarm asks again. `GapsAreChased` is both, and the types, for
  `RcrtMaster`.
- `DeliversInOrder`: `StrMaster` and `RcrtMaster` each implement `InOrderStream`: packets
  are handed over in order, once each, none passed over before it is too old. `PlistSorted`:
  the order test of `SPList_insert` agrees with the order of sending.
- `EndingIsDeleted`, `ClosingEnds`: once the mote is silent, a connection that has seen its
  FIN, or whose task is closed, goes away; with the stream transport, unless an idle
  connection stands ahead of it in the list (`Hidden`), whose alarm the poll always finds
  first.
- `RangeReadable`, `NeverOverwrites`, `LogIsFreed`: the two volumes serve as one ring.
- `SendDoneMeansKept`: sendDone comes after the packet is in the log and off the radio,
  whichever ends first. `LoggedIsFound`: reads look where writes put. `AirIsGenuine`: what
  the radio holds does not change until it gives it back, and is what the connection
  accepted under that number. All three, but for the first half of the last, only until an
  erasure fails or a connection begins with a cid the mote still knows (`spoiled`).
- `SendIsAnswered`, `OpenAndCloseEnd`, `RequestIsServed`: nothing that was begun stays
  unfinished, unless the task is deleted.
- `Answers`: an application is told only about its own tasks, although descriptors change
  hands; `send_task` returns the tid of its task, if the application sent none to one mote;
  a mote reported to have a task has it.
  `RunningIsBound`: a task that runs can still be stopped, or its binding was lost in one of
  the ways the property names. `TidsNotReused`: the first tid that is given out twice is one
  that the tid file did not cover when the daemon was started. `CloseIsFinal`: from CLOSE_ACK
  on the client hears no more of the task and nothing of it is left. `ProbeEnds`: no ping or
  trace keeps its entry or its tid. All but `ProbeEnds` ask nothing once two clients have had
  one tid (`OneOwner`): what is said of one task may then be true of the other.
- `HandedUpInOrder`: packets are handed up in order and once, until a node forgets their
  origin for its age. `OnlyWholeTasks`: what is put together from fragments is one whole
  task, unless packets are missing between two fragments. `CacheServes`: what a node claims
  to have is one range, and still in memory, as long as it was always the oldest number that
  gave way. `CatchesUp`: in the end all nodes have the last packet that any has and that is
  not old, unless a cache has a gap of the kind before, or the youngest packet of one is not
  its last. Section 4 says what the code does in the cases excused.
- `SharesAreSound`: the totals are those of the connections there are, and no share exceeds
  what was asked for by more than the millisecond `rate2interval` may cut off, but for a
  request of 65535 ms, which gets the longest interval it gives.
- `SentIsWhatWasWritten`: a mote reads from the packet the calls of the text, whatever was
  written before; every number of the text is in the element of its call, as wide as the
  field is (`NumbersAreIn` names the numbers that are not kept); and the packet was long
  enough. `GoodTaskIsAccepted`: no task that means something is refused, and it overruns the
  packet exactly when its elements do not fit.
  `ResponseIsWhole`: every attribute once, in order of type.
- `OneCopy`: a packet is at one router or was given once to one place, however tables
  disagree. `RoutesFollowUse`: a route outlives one quiet period and not two. `Settles`:
  circles end, and what is not used is forgotten.
- `AckedWasGot`: a write that succeeded was received, once. `AFaultCostsTwo`: a fault of the
  line costs at most the two packets next to it. `Served`: nothing lies unread in the
  forwarder, unless one client holds it up (`HeldUp`).

## 4. What the code does that its authors would not expect

The run `daemon_close` expects a counterexample: a packet that a mote sent before its task
was closed, and that arrives after, makes `packettransport_receive` create the connection
again (`packettransport.c:233`). Nothing ever deletes it, the check before CLOSE_ACK finds
it, and the application that waits for the acknowledgement of its close waits for ever.

Seen while modelling, in the code and in the model's scope unless a bound is named; the
properties are stated so that they hold beside them, and say what they excuse.

*Stream transport, master.* A connection may finish with packets still waiting behind a gap
that aged out; they are freed undelivered (`streamtransport.c:392`). The timer deletes the
last connection of a closing task without telling the daemon (`:541`, `:673`). The poll
serves one expired alarm and that of an idle connection stays expired, so the timers of the
connections behind it in the list never fire: they ask for nothing and do not end
(`:558`-`:580`; with two connections TLC finds `EndingIsDeleted` violated without `Hidden`).
Across the wrap a packet exactly `TR_VALID_RANGE` ahead is taken for an old one; `MCLag`
keeps the run clear of it.

*Stream transport, mote.* A FIN_ACK or the last FIN timeout during a write leaves
`writebusy` set and the log waiting for an erasure nobody starts. A write that failed is
retried under an index the log has passed (`StreamTransportM.nc:259`). A SYN reported as not
sent after its connection was closed opens it again (`:526`; the runs have no such error). A
cid is the low byte of a tid (`:337`) while a master counts to 50000: two tasks 256 apart
are one to the buffers and the log, so that a packet of the first may be sent again as one
of the second, and a tid that is a multiple of 256 has the cid of no connection, under which
its packets are sent again when it is gone. After an erasure that failed the log is used
with what was in it, and a packet written over an old one is reported as kept (`:206`). The
properties of `mote_stream` end there (`spoiled`); without that TLC finds `AirIsGenuine`
violated by two tasks with one cid, and the other two by a failed erasure. A deleted task
stays in `m_sending_atask` (`SendSTR.nc:213`).

*Daemon.* `store_tid` empties the tid file before it writes it, and nobody looks whether it
opens (`tidlist.c:89`): a daemon that dies in between starts again with tid 1, one whose
file did not open with an old number, and the motes may still run the tasks of the tids it
then gives out again; from then on one tid has two owners, and an application is told of the
task of another. A ping, a trace or a service request stays bound to the descriptor of a
client that has gone, and the next client on it gets the answer (`tidlist.c:180`). An ACK's
number is not compared (`packettransport.c:267`). A second packet replaces the one in hand
(`:172`). Giving up leaves the alarm running, so the next poll gives up again (`:352`). A
CLOSE to one mote is sent once: its connection is deleted right after. A write to a client
that fails drops the tid but does not stop the task (`tidlist.c:176`). When every tid is in
use, the search for a new one does not end. `tr_send_task_uni` takes any answer to a command
for the one it waits for (`tr_if.c:124`): the CMD_NACK of a task for one mote that was given
up, coming late, ends the wait for the next task, whose own answer then ends the one after
it. `SendReturnsItsTid` is therefore about applications that have sent no task to one mote;
this was found when its proof failed.

*Dissemination.* The first packet of an unknown origin is never asked for if it is lost
(`trd_state.c:292`). A node that loses the second fragment of a task and the first of the
next hands up a task made of what is left of both: the check is by index only
(`trd_fragment.c:146`, `:172`). It must be so far behind that it does not ask for them,
which a cache of three and two tasks of two fragments do. Of entries of one age the first of
the array is replaced (`trd_nodecache.c:96`), which is the oldest number only the first
time: from the fifth packet of a burst on (with a cache of three) a node keeps packets with
a gap between them, claims the whole range, and a neighbour that asks for one of the gap
asks on and on. It does so too where ages differ: a node asks for what follows its youngest
packet (`nodecache_getLastSeqno`), which need not be its last. A node that has forgotten an
origin while a neighbour has not gets all of its packets again, and hands them up again. A
master restarted while its neighbours have forgotten some of its packets uses their numbers
again. The walk of `ignoreSummary` uses one index for another (`trd_table.c:288`).

*Rate-controlled transport.* Nobody is told of the last deletion (`rcrtransport.c:1541` asks
before the entry is unlinked). R becomes negative when a fast connection leaves (`:1545`).
`cur_irate` is read before it is set. A request of 65535 ms is given 65534 (`:172`): no
longer interval comes out of `rate2interval`. `SharesAreSound` allows it since a proof of
the property without it failed, and the run has such a request. Other requests may be
answered by one millisecond less than was asked: 1000.0 by 1000.0/60 is less than 60 as a
double, and is cut to 59 (5105 of the intervals below 65534 come out so). The walk of
`delete_tid` goes on from an entry it has freed (`:1657`). A packet more than 100 ahead is
ignored, so after a longer silence the connection never recovers. Two policies are named the
wrong way round in their comments (`:126`-`:131`).

*Task library.* The elements of a task are written into the 300 bytes `send_task` has on its
stack, and nothing compares their length with that (`tenetAPI.c:93`): a text below
`TP_MAX_TASKLEN` can need more, such as 24 times `wait(1)`, which is 338 bytes. `node(n)`
always ends the process (`parser.y:90`). A task with a wrong number of arguments calls
`exit(1)` although there is an error code for it. `memoryop` loses the low byte of its value
(`element_construct.c:658`). One flag says for all arguments of a call whether they are
constants. `receive_packet_with_timeout` tests a pointer against zero where it means the
length (`transportAPI.c:245`) and goes round for ever when the daemon has closed the
connection. `response_pop` frees what it returns (`response.c:129`).

*Router.* The test for loops compares an address in the wrong byte order
(`TenetRouter.cpp:363`), which is why `Settles` is about circles that end by ageing. A
packet that comes back spoils the route it came by. After the base station's connection is
lost and one attempt to connect again failed, none is made (`SFClient.cpp:55`,
`Network.cpp:403`). A silent client blocks the router (`TenetTransport.cpp:82`).

*Serial forwarder.* A client that closes and one that connects in the same turn may share a
descriptor, and the forwarder then waits for a packet of the new one (`sf.c:134`, `:97`). It
waits for a client's version without a limit (`:88`). The descriptors of clients are made
blocking (`:90`) and `safewrite` goes on until all is written (`sfsource.c:34`): one
connected client that does not read, once its socket is full, stops the forwarder for all. A
packet not acknowledged within a second is not written again (`:232`).

## 5. Fairness

*Master's stream transports.* `main()` polls the timers at least every tenth packet, so
`Poll` is weakly fair, and time passes, so alarms that are set expire. In `RcrtMaster`
alarms are seconds apart while the poll comes between any two packets, so none stays set or
expired for ever. Nothing is asked of motes or clients; `EndingIsDeleted` and `ClosingEnds`
assume that packets stop coming.

*Daemon.* The same, and: a connected application reads its socket; a stream ends. The code
does not see to the last, since an idle connection may hide a closed one from the poll; it is
assumed so that the close of `daemon_close` is not left unanswered for that reason, and
`ProbeEnds` does not depend on it.

*Mote.* The TinyOS scheduler runs posted tasks, in order, so `RunTask` is weakly fair. Radio
and flash signal the end of what they accepted (the contract of split-phase interfaces), and
a running timer fires. Nothing is asked of the application or of the master: opening and
closing end also if no message ever comes. Faults have budgets, so a retry does not fail for
ever. `RequestIsServed` assumes that what is read is a packet: after a failed erasure it may
not be.

*Dissemination.* What is not lost is received, and timers fire, that of trickle also when
the radio is not quiet all the time (strong fairness). Losses have a budget: with
trickle timers that go on for ever, a protocol that loses everything delivers nothing.

*Router.* Datagrams are read until none is left, the two clocks of the masters named in a
scenario go on, and a broken connection is found out.

*Serial forwarder.* The loop runs, what is on the line arrives at the latest when it has
nothing else to do, and a client ends a packet it has begun. Nothing makes a client read or
say its version.

For `trd`, `router` and `serial_forwarder` the MC module states the same assumptions with
their guards written out (`MCFairSpec`), which TLC evaluates faster than ENABLED of a large
action.

## 6. Proofs

For every value of the constants that satisfies the named assumptions: `SeqnoAssumption`,
`MasterAssumption`, `LagAssumption`, `LoggerAssumption`, `MoteAssumption`, `TidAssumption`,
`PtrAssumption`, `BudgetAssumption`, `RoundAssumption`, `RcrtAssumption`,
`RouterAssumption`, `ScenarioAssumption` and `MotesAssumption`. `MaxIndex`, the bound on a
stream's length, `MaxWrites`, that on the packets written to a log, `MaxRuns`, that on the
packets of a mote, `MaxPackets`, that on the packets that enter the routers, `MaxBox`, that
on what a client has not read, and the daemon's `Budgets` are any numbers, so they bound
nothing (nor do the numbers in a scenario of `RcrtMaster`, whose `FallsShort` is any
operator); but `RoundAssumption` is a real limit: it allows no more requests that take a tid
than there are tids (`MAX_TID`, 50000 in the code).

*Sequence numbers.*

- `TrSeqno_proofs!CmpOfLead`: the number `j` ahead of another, `0 < j < TR_VALID_RANGE`,
  compares as greater, wrapped or not. `CmpOfPackets` and `CmpOfNear` carry that to packets:
  of two packets less than the range apart the later one has the greater number, whatever
  number of times the stream has wrapped; `SeqOfInjective`: they have different numbers. They
  need two facts about remainders, proved there.
- `SeqnoPair_proofs!CmpFollowsPositionHolds`, `DiffGivesLeadHolds`: the two invariants of
  `seqno_order`. The inductive invariant says that the newer number is the older one moved
  on by the lead.

*The master's end of a stream (`StrMaster`).*

- `StrMaster_proofs!TypeCorrect`: `Spec => []TypeOK`. Not a formality here: that the missing
  list holds only valid sequence numbers depends on the arithmetic of `detectMissingPacket`,
  and that timeout counts stay in range on where they are reset.
- `StrMaster_proofs!MissingIsChasedHolds`: `Spec => []MissingIsChased`. It is not inductive:
  a FINISHED connection has no timer that asks, so it must never find a new gap. `ChaseInv`
  adds that a connection in FIN_NACK_WAIT or FINISHED has seen the FIN, that the FIN is the
  newest packet, and that `lastRecvSeqNo` is the number of the newest packet. Then a packet
  that arrives later is not newer (`Newer`, by `CmpOfPackets`), and finds no gap. There is a
  lemma for each action.
- `StrMaster_proofs!PlistSortedHolds`, `NothingForgottenHolds`, and
  `DeliversInOrderHolds`, the refinement of `InOrderStream`: the application gets packets in
  the order they were sent, each once, and one is passed over only when it is
  `TR_VALID_RANGE` older than the newest that arrived. None of the three is inductive. One
  invariant, `OrderInv`, on top of `ChaseInv`, gives them all: every packet up to the newest
  was delivered, waits in the list, is the FIN, is on the missing list or is old
  (`Accounted`); what is expected next is the number of a packet `e` such that all that was
  delivered comes before `e`, all that waits comes after it, and nothing before it was passed
  over that was not old (`Expects`); and how old the packets that wait can be (`Waits`). The
  loop that takes packets off the list is, in the model, a relation between the list and
  what was taken and delivered (`Drained`); what it delivers (`DrainedIs`) is shown without
  induction over data: if anything else were delivered there would be a smallest such packet
  (`SmallestOf`). The comparisons the code makes (`tr_seqno_cmp`) are those of positions
  only for packets less than `TR_VALID_RANGE` apart, which is what `LagAssumption` is for:
  waiting packets are less than half the ring apart (`200 + Gap` of 25000 in the code), and
  from the end of the first ring on no packet arrives `TR_VALID_RANGE` ahead of one that is
  not yet delivered. Without it `tr_seqno_cmp` misjudges at the wrap, and TLC finds
  `NothingForgotten` violated.

*The rate-controlled transport (`RcrtMaster`).*

- `RcrtMaster_proofs!GapsAreChasedHolds`: the types, that no packet is forgotten, and that
  what is missing is asked for; `DeliversInOrderHolds`: the refinement of `InOrderStream`.
  One invariant, `RcrtInv`, gives both: of each entry of the list `StreamOK`, which is what
  `OrderInv` says of a stream; `ChasedBut`, that an entry that misses packets is in a state
  whose alarm runs; `PastOK`, that a connection that left the list had handed up all it
  could (`Finished`) or its task was closed; and that `m_N` is the length of the list.
- The functions of the code that loop are functions on `0 .. n` in the model. What a loop
  leaves behind is proved from two lemmas about such functions, which rest on the least
  number argument (`SmallestOf`): there is one (`Iterates`), and what each turn keeps holds
  after the last (`LoopKeeps`). So `ReceivedIs` follows the packet list of `receive_rtr_msg`
  (after the last turn it is empty or its head is to stay, `Stuck`), `SatisfiedIs` the
  passes of `distribute_R`, and `WalkedIs` the walk of `rcrtransport_delete_tid`.
- Sharing the rate touches nothing but the intervals (`Recured`, `SharedIs`), so that a step
  that shares anew keeps what is said of streams and alarms (`ListRecured`). An entry that
  leaves or is replaced keeps the others (`ListWithout`, `ListUpdate`).
- `SharesAreSoundHolds`: the action property on the totals and the shares. `SharesInv` adds
  to `RcrtInv` that `m_D` is the sum of what the connections on the list ask for, and that
  nothing is left when there is none (`Booked`). What a sum becomes when a connection is put
  first or last or is taken out (`WantsPushed`, `WantsAppended`, `WantsWithout`) follows
  from its partial sums; the walk of `rcrtransport_delete_tid` keeps, entry by entry, that
  `m_D` is the sum of those that stayed and those still ahead (`InWalk`). That nobody is
  told to send faster than it asked is arithmetic for shares in proportion, where `m_R <=
  m_D` (`RhoRespects`), whatever `FallsShort` takes off. For equal shares it is an argument
  about the passes of `distribute_R`: those that a pass adds ask together for no more than
  is left (`FitsKeep`), there are as many passes as connections, so in the end there is no
  other to add (`SatisfiedEnds`), and who remains asks for more than its part.
- `LagAssumption` is that of `StrMaster`, of each scenario: its numbers do not wrap, or
  packets that are compared are less than `TR_VALID_RANGE` apart.

*The log of sent packets (`LogUser` over `StrLogger`).*

- `LogUser_proofs!RangeReadableHolds`: each packet the connection may still be asked for can
  be read. `NeverOverwritesHolds`: a write never goes to flash that holds a packet, only to
  flash that is erased. `LogInv` says what the volumes hold while nothing is under way,
  while one operation is (there is never more than one), and while an erase is. Two facts
  carry it. The number of packets in a ring is a whole number of pairs of volumes, so that a
  packet's place follows from its position although the sequence numbers wrap (`PlaceIs`,
  `PlaceNext`). And a packet of the range is never at the place of the next one, and is in
  the other volume when the next one is the first of its volume (`Apart`). There is a lemma
  for each action.

*The mote's end of a stream (`StrMote`, the log below and `SendSTR` above it).*

- `StrMote_proofs!LoggedIsFoundHolds`: a read looks where the packet that may be asked for
  was written. `AirIsGenuineHolds`: a data packet on the air is one the connection accepted
  under that number, sent or read back, and the radio's buffer has one owner.
  `SendDoneMeansKeptHolds`: at sendDone the packet is in the log and off the air. They hold
  for any number of tasks that follow each other, packets, NACKs and deletions, refusals and
  errors of the radio, errors of reads and writes, and any order of completions.
- None is inductive; `MoteInv` gives all three (`MoteInvHolds`), with one lemma per action.
  Its parts are checked by TLC on `mote_stream`'s scenarios as well. `Buffered`: what is in
  the two flash buffers and the log was accepted by some connection, under its cid and
  number. `Owner`: a busy write buffer of the present connection holds its newest packet.
  `Waited`: the packet the tasklet waits for is that one, and a sendDone that waits for the
  flash comes after the radio's. `Flash`: what the log may be doing in each of its states,
  which volumes are dirty or blank, and that nothing is written where something is. That no
  place is written twice is shown here of the log as it is used, with connections that end
  during a write and erasures between them, where `LogUser` writes one stream in order.
  `Aligned`: once no erasure is posted the log stands at the place of the next number, and
  has the packets of the last round. `Mute`: a write buffer left busy by an earlier
  connection stays busy, and no later one can send, so that nothing is said of the log then.
- The order of the scheduler's queue is needed in one place (`Heard`): the master can answer
  a SYN only when no erasure is posted any more. `Grown` and its lemmas say what a post
  keeps of a queue.
- That a number's place follows from its position, and that the packets of one round are in
  different places, is arithmetic on a ring in two halves, shared with `LogUser_proofs`
  (`TrSeqno_proofs`: `HalfNext`, `HalvesApart`, `HalfFirst`).
- Nothing is assumed of the tids or of the erasures: what the code does with cids that
  collide or an erasure that fails is a state `spoiled`, about which only the owner of the
  radio's buffer is claimed (`RadioBusy`). The inductive invariant is `Sound`: `RadioBusy`, and
  until `spoiled` `MoteInv` and `CidInv`. `CidInv`: what the read buffer and the log hold under
  the cid of the present connection is that connection's, and no other living task has its
  cid. A connection that begins without being `Ambiguous` establishes that, and it is all the
  comparison of low bytes needs.

*The daemon (`TransportMain`).*

- `TransportMain_proofs!RunningIsBoundHolds`: a task that runs on the motes is bound to a
  client that is connected, or what would stop it was given up. `AnswersHolds`: what
  applications read is about their own tasks, and true. `CloseIsFinalHolds`: after CLOSE_ACK
  nothing of a task is left, and nothing more is heard of it. `TidsNotReusedHolds`: the action
  property. `TypeCorrect`: the daemon's lists and boxes are what the code takes them for. All
  but the action property speak of states in which no tid has had two owners; they hold for
  any number of clients, descriptors and motes and any mixture of requests, late and repeated
  answers, refused messages, hangups, restarts and failures of the tid file.
- All come from one invariant, `DaemonInv`, which holds as long as no tid has had two owners
  (`OneOwner`): the file can lose the number, and then it may get a second one. What is
  inductive is `InTurn`, `OneOwner => DaemonInv`: the tids of a client only grow, so that
  `OneOwner` after a step gives it before (`AskedGrows`).
  The reason why answers cannot go astray is that a tid is of one kind for ever (`Kinds`):
  a task for one mote, a task for all, or something else; what the transports keep of it,
  what the motes may still say and what is on the air all agree with that. So a late ping
  answer is never taken for a task's, and an ACK is of a task that was sent to that mote.
  `Kinds` needs that a tid is not given out twice. `RoundInv` says when it can be: a tid given
  out that is not below the next one, in memory or in the file, is in `unsaved`; what is
  bound, and what clients that are still there have, is below the next one; and with what may
  still be asked neither number exceeds `MAX_TID` (`NewTidIs`). Without `RoundAssumption` the
  tid of a task that was closed may be given out while its packets are still on the air.
  `Bound` and `Stoppable` tie what runs to the bindings and descriptors, `Final` says that
  what is done with stays so, `Waits` that a client has at most one answer to a command to
  read.
- A handler calls others, so the invariant is stated of a state `d` of the daemon
  (`Good`), and each function of the model has a lemma that it keeps it: `SendToTidGood`,
  `CloseCheckedGood`, `ClientRemovedGood` and so on. `Moves` adds that clients are told only
  what fits, and is transitive: a poll is one move of the packet transport and one of the
  pings (`PolledMoves`).
- That the connections that stay keep their order when some are deleted is `SublistIs`; it
  counts indices and needs the pigeonhole theorem (`RankIs`).

*The routers (`TenetRouter`).*

- `TenetRouter_proofs!OneCopyHolds`: of a packet that is not a broadcast there is one copy at
  most, at a router or given, and no master's transports or base station are given a
  broadcast twice; for any number of masters and whatever their tables, clocks and system
  routes say. The argument is
  local: one router sends a unicast one way only (`OneWay`, proved of each branch of
  `DispatchPacket` in `DispatchOneWay`), and spreads a broadcast only when it comes from its
  own transport, once for each neighbour. What it needs of the tables is nothing but that a
  router keeps its own two addresses. `RouterInv` adds that each datagram under way is of a
  packet that entered, and of a broadcast from the master whose transport sent it
  (`GivenOK`, `OnReceiveKeeps`).
- `TenetRouter_proofs!RoutesFollowUseHolds`: a route that was in use stays, and one that was
  not goes, with the second refresh at the latest. `RoutesInv` ties the marks of both tables
  to the time since each address was last heard of: marked used when that is 0 refreshes ago,
  in the table when it is at most 1. It needs `MotesAssumption`, that no mote has the
  address of a master, because `MRT_Refresh` keeps the addresses of masters.

Checked by TLC only: dissemination (`HandedUpInOrder`, `OnlyWholeTasks`, `CacheServes`), the
library (`SentIsWhatWasWritten`, `GoodTaskIsAccepted`, `ResponseIsWhole`), the serial forwarder
(`AckedWasGot`, `AFaultCostsTwo`), and all liveness (`SendIsAnswered`, `RequestIsServed`,
`OpenAndCloseEnd`, `EndingIsDeleted`, `ClosingEnds`, `LogIsFreed`, `ProbeEnds`, `CatchesUp`,
`Settles`, `Served`), which is out of the prover's reach.

The invariants of dissemination are true only of bounded numbers: its sequence numbers wrap
while old packets may be on the links, caches forget, and a restarted master counts anew, so
each needs an assumption first on how much may happen, as `LagAssumption` is for the streams.
`SerialForwarder` and `TenetApi` read and write byte by byte; what a parser has made of a text
or a frame of any length is induction over data, which is reached only as far as the
least-number argument above carries. None of the modules declares a RECURSIVE operator.

## 7. Not modelled

*Parts.* The mote's side of packet transport, rate-controlled transport and dissemination,
the base station, the mote's task runtime and tasklets but `SendSTR`, its collection
routing, timers and sampling drivers, the snoop tool and the applications. Each is seen by
the modules above through what it may do to them: a mote that answers late, twice or never,
a radio that refuses, fails, loses, delays or repeats. The mote's TRD runs the same table
and the same states as `TrdNode`, over a flash whose operations are split in two; `TrdNode`
has the master's memory, whose operations are not. The rate-controlled connection of a mote
repeats that of `StrMote`.

*Of the modelled parts.* Checksums and lengths; `STR_2_CON` (not defined in the build); a
second master of one mote's stream; allocation that fails in `SendSTR`; statistics and log
files; printing, help texts (`element_usage.c`) and option parsing; the dispatch of snooped
packets; code for platforms that is not compiled (`tp.c:2599`-`2930`); the serial device
itself.

*By bounds.* Section 3 gives them. NACKs name packets that were sent, oldest first. A task
freed while `SendSTR` points to it has no further effect in the model; in the code its
memory may be in use again. In the daemon a unicast task goes to one mote at a time. In
`TrdNetwork` one node is the origin of all tasks, the tasks of a burst longer than the cache
are of one fragment, and a timer fires when at most `MaxInFlight` messages are under way.

## Running

    tlc -workers 2 -config MCMaster.cfg MCStrMaster.tla      ("runs" in PROJECT.json has all pairs)
    tlapm StrMaster_proofs.tla
