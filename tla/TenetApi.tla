------------------------------ MODULE TenetApi ------------------------------
(***************************************************************************)
(* An application and the task library it is linked with (tenetAPI.c,      *)
(* transportAPI.c, response.c, task_error.c): send_task with a task the    *)
(* user writes token by token, and read_response.  The process is          *)
(* sequential; what is chosen freely is the text, the answers of the       *)
(* transport daemon, and what arrives from it.                             *)
(***************************************************************************)
EXTENDS TaskParser

CONSTANTS
  Budgets,           \* the scenarios: what the user may write, what may arrive
  Tokens(_, _, _),   \* environment: what the user may write next
  Messages           \* environment: the attributes of a response

VARIABLES
  doing,      \* where the process is
  parser,     \* TaskParser
  text,       \* the tokens of the task so far
  sent,       \* the packet given to the daemon last, and the call that made it
  opened,     \* tr_opened
  connected,  \* environment: the daemon has not closed the connection
  timed,      \* read_response has a timeout
  code,       \* tenetErrorCode
  result,     \* what the last call returned: a tid or -1; 0 for no response
  packet,     \* the attributes of the last response that was returned
  list,       \* the response made of it
  taken,      \* history: what response_pop took from it
  budget      \* the scenario, and what is left of it

taskVars == <<parser, text, sent>>
readVars == <<timed, packet, list, taken>>
linkVars == <<opened, connected>>
vars == <<doing, taskVars, readVars, linkVars, code, result, budget>>

\* tenetErrorCode (transportAPI.h).
NO_ERROR == 1
TIMEOUT == 0
OPEN_TRANSPORT_FAIL_ERROR == -2
TASK_DESCRIPTION_ERROR == -3
TASK_SEND_ERROR == -4
FAILED_TO_SEND_ERROR == -5
SELECT_ERROR == -6
MOTE_ERROR == -9

Nothing == [length |-> 0, num |-> 0, buf |-> <<>>, text |-> <<>>]

-----------------------------------------------------------------------------
(* send_task.                                                               *)

Spend(what) == budget[what] > 0 /\ budget' = [budget EXCEPT ![what] = @ - 1]

\* construct_task with a text that is not the name of a test task: tp_doit up to
\* its first token.  A text that is too long ends the process at once.
BeginTask ==
  /\ doing = "idle" /\ Spend("sends")
  /\ doing' = "parsing" /\ parser' = NewParser /\ text' = <<>>
  /\ UNCHANGED <<sent, readVars, linkVars, code, result>>
OverlongTask ==
  /\ doing = "idle" /\ Spend("sends")
  /\ doing' = "exited"
  /\ UNCHANGED <<taskVars, readVars, linkVars, code, result>>
\* construct_task with the name of a test task.
NamedTask(name) ==
  /\ doing = "idle" /\ Spend("sends")
  /\ doing' = "sending" /\ parser' = parse_test_task_string(name) /\ text' = <<>>
  /\ UNCHANGED <<sent, readVars, linkVars, code, result>>

\* The answers of open_transport and tr_send_task.
Answers == {"noTransport", "notSent", "notSpread", "tid"}
send_task_packet(answer) ==
  /\ answer = "noTransport" => ~opened
  /\ opened' = (answer # "noTransport")
  /\ sent' = IF answer \in {"noTransport", "notSent"} THEN sent
             ELSE [length |-> parser.length, num |-> parser.num % 256, buf |-> parser.buf,
                   text |-> text]
  /\ result' = CASE answer = "tid" -> 1 [] answer = "notSent" -> -2 [] OTHER -> -1
  /\ code' = CASE answer = "noTransport" -> OPEN_TRANSPORT_FAIL_ERROR
               [] answer = "notSent" -> TASK_SEND_ERROR
               [] answer = "notSpread" -> FAILED_TO_SEND_ERROR
               [] answer = "tid" -> NO_ERROR

\* construct_task has returned: send_task reports a bad description or sends.
SendTask(answer) ==
  /\ doing = "sending" /\ doing' = "idle"
  /\ IF parser.length < 0
     THEN /\ answer = "notSent"
          /\ code' = TASK_DESCRIPTION_ERROR /\ result' = -1 /\ UNCHANGED <<sent, opened>>
     ELSE send_task_packet(answer)
  /\ parser' = NewParser /\ text' = <<>>
  /\ UNCHANGED <<readVars, connected, budget>>

\* What a token leads to: the packet is overrun, which is where the model ends, or
\* the process has exited, or yyparse wants another token, or it is done and
\* tp_parse_task returns.
After(p) ==
  IF p.overrun THEN [doing |-> "overrun", parser |-> p]
  ELSE IF p.exited THEN [doing |-> "exited", parser |-> p]
  ELSE IF p.at # "done" THEN [doing |-> "parsing", parser |-> p]
  ELSE LET f == tp_process_finalize(p) IN
       [doing |-> IF f.exited THEN "exited" ELSE "sending", parser |-> tp_parse_task(f)]

ReadToken(token) ==
  /\ doing = "parsing"
  /\ \E next \in {After(yyparse(parser, token))} :
       doing' = next.doing /\ parser' = next.parser
  /\ text' = Append(text, token)
  /\ UNCHANGED <<sent, readVars, linkVars, code, result, budget>>

\* delete_task, also for the text DeleteALL: the answer is not waited for.
DeleteTask ==
  /\ doing = "idle" /\ opened /\ Spend("sends")
  /\ result' = 65535
  /\ UNCHANGED <<doing, taskVars, readVars, linkVars, code>>

-----------------------------------------------------------------------------
(* The response (response.c): attributes sorted by type.                    *)

\* A mutated form, for ResponseIsWhole: before those of the same type.
Mut_response_insert(l, a) ==
  LET later == SelectInSeq(l, LAMBDA x : x.type >= a.type) IN
  IF later = 0 THEN Append(l, a) ELSE InsertAt(l, later, a)

response_insert(l, a) ==
  LET later == SelectInSeq(l, LAMBDA x : x.type > a.type) IN
  IF later = 0 THEN Append(l, a) ELSE InsertAt(l, later, a)

\* Two bytes at a time, in network byte order; an odd last byte is taken for the
\* first of two.
DataVector(bytes) ==
  [i \in 1 .. (Len(bytes) \div 2) + (Len(bytes) % 2) |->
     256 * bytes[2 * i - 1] + (IF 2 * i <= Len(bytes) THEN bytes[2 * i] ELSE 0)]
Attr(a) == [type |-> a.type, value |-> DataVector(a.bytes)]
Response(attrs) == FoldLeft(LAMBDA l, a : response_insert(l, Attr(a)), <<>>, attrs)

ERROR_ATTRIBUTE == 1
check_error_response(attrs) == attrs # <<>> /\ attrs[1].type = ERROR_ATTRIBUTE

response_remove(l, type) ==
  LET first == SelectInSeq(l, LAMBDA x : x.type = type) IN
  IF first = 0 THEN l ELSE RemoveAt(l, first)

-----------------------------------------------------------------------------
(* read_response, with receive_packet_with_timeout.                         *)

StartRead(t) ==
  /\ doing = "idle" /\ opened /\ Spend("reads")
  /\ doing' = "reading" /\ timed' = t /\ code' = NO_ERROR
  /\ packet' = <<>> /\ list' = <<>> /\ taken' = <<>>
  /\ UNCHANGED <<taskVars, linkVars, result>>

Returns(c, r) == doing' = "idle" /\ code' = c /\ result' = r

\* select says the socket can be read, and it gives a task response.
GetResponse(attrs) ==
  /\ doing = "reading" /\ connected /\ Spend("messages")
  /\ IF check_error_response(attrs)
     THEN Returns(MOTE_ERROR, 0) /\ UNCHANGED <<packet, list>>
     ELSE Returns(NO_ERROR, 1) /\ packet' = attrs /\ list' = Response(attrs)
  /\ UNCHANGED <<taskVars, linkVars, timed, taken>>
\* The result of a service, or the end of a deleted task: its handler is called,
\* and the wait begins anew with the whole timeout.
GetOther ==
  /\ doing = "reading" /\ connected /\ Spend("messages")
  /\ UNCHANGED <<doing, taskVars, readVars, linkVars, code, result>>

ReadTimesOut ==
  /\ doing = "reading" /\ timed /\ connected
  /\ Returns(TIMEOUT, 0)
  /\ UNCHANGED <<taskVars, readVars, linkVars, budget>>
ReadInterrupted ==
  /\ doing = "reading" /\ Spend("faults")
  /\ Returns(NO_ERROR, 0)
  /\ UNCHANGED <<taskVars, readVars, linkVars>>
SelectFails ==
  /\ doing = "reading" /\ Spend("faults")
  /\ Returns(SELECT_ERROR, 0)
  /\ UNCHANGED <<taskVars, readVars, linkVars>>

\* The daemon closes the connection.
Disconnect ==
  /\ connected /\ opened /\ Spend("faults")
  /\ connected' = FALSE
  /\ UNCHANGED <<doing, taskVars, readVars, opened, code, result>>
\* What is read from a closed connection is no packet.  The length that is
\* tested for it is a pointer, which is never negative: select is called again,
\* and says at once that the socket can be read.
GetNothing ==
  /\ doing = "reading" /\ ~connected
  /\ UNCHANGED vars

\* The application takes the first attribute of the response.  What it is given
\* points to a value that is freed by then.
response_pop ==
  /\ doing = "idle" /\ list # <<>>
  /\ taken' = Append(taken, Head(list))
  /\ list' = response_remove(list, Head(list).type)
  /\ UNCHANGED <<doing, taskVars, linkVars, timed, packet, code, result, budget>>

-----------------------------------------------------------------------------

Init ==
  /\ budget \in Budgets
  /\ doing = "idle" /\ parser = NewParser /\ text = <<>> /\ sent = Nothing
  /\ opened = FALSE /\ connected = TRUE /\ timed = FALSE
  /\ code = 0 /\ result = 0 /\ packet = <<>> /\ list = <<>> /\ taken = <<>>

Next ==
  \/ budget.texts /\ BeginTask
  \/ OverlongTask
  \/ \E name \in TestTasks : NamedTask(name)
  \/ \E answer \in Answers : SendTask(answer)
  \/ \E token \in Tokens(budget, parser, text) : ReadToken(token)
  \/ DeleteTask
  \/ \E t \in BOOLEAN : StartRead(t)
  \/ \E attrs \in Messages : GetResponse(attrs)
  \/ GetOther \/ ReadTimesOut \/ ReadInterrupted \/ SelectFails \/ GetNothing
  \/ Disconnect \/ response_pop

Spec == Init /\ [][Next]_vars

-----------------------------------------------------------------------------
(* What a text means, whatever the parser does with it: calls separated by   *)
(* arrows, with numbers separated by commas, quoted or not.                  *)

Cut(tokens, kind) ==
  FoldLeft(LAMBDA parts, t : IF t.kind = kind THEN Append(parts, <<>>)
                             ELSE [parts EXCEPT ![Len(parts)] = Append(@, t)],
           <<<<>>>>, tokens)
Kinds(tokens) == [i \in DOMAIN tokens |-> tokens[i].kind]
Arguments(call) == Cut(SubSeq(call, 3, Len(call) - 1), ",")
NoArguments(call) == Len(call) = 3
IsArgument(part) == Kinds(part) \in {<<"number">>, <<"'", "number", "'">>}
\* The grammar lets the first of several arguments be left out.
IsCall(call) ==
  /\ Len(call) >= 3 /\ call[1].kind = "name" /\ call[2].kind = "(" /\ Last(call).kind = ")"
  /\ \/ NoArguments(call)
     \/ LET parts == Arguments(call) IN
        \A i \in DOMAIN parts :
          IsArgument(parts[i]) \/ (i = 1 /\ Len(parts) > 1 /\ parts[1] = <<>>)
CallsOf(task) == Cut(Front(task), "->")
IsTask(task) ==
  task # <<>> /\ Last(task).kind = "end" /\ \A i \in DOMAIN CallsOf(task) : IsCall(CallsOf(task)[i])

NumbersOf(call) == SelectSeq(call, LAMBDA t : t.kind = "number")
Meaning(call) ==
  LET numbers == NumbersOf(call) IN
  tp_call_constructor(
    [func |-> call[1].name, argc |-> Len(numbers),
     arg |-> [i \in 0 .. TP_MAX_ARGS - 1 |-> IF i < Len(numbers) THEN numbers[i + 1].number ELSE 0],
     constant |-> \E i \in DOMAIN call : call[i].kind = "'"])
\* Every call of the task is a command with as many arguments as it takes.
IsGoodTask(task) ==
  IsTask(task) /\ \A i \in DOMAIN CallsOf(task) :
                    Len(NumbersOf(CallsOf(task)[i])) <= TP_MAX_ARGS /\ Meaning(CallsOf(task)[i]) # {}
ElementsOf(task) == [i \in DOMAIN CallsOf(task) |-> CHOOSE e \in Meaning(CallsOf(task)[i]) : TRUE]

\* The mote's installer reads these elements: each begins where the length of
\* the one before it says it ends.
StartOf(elements, i) ==
  SizeOfTask + FoldLeft(LAMBDA n, e : n + SizeOf(e), 0, SubSeq(elements, 1, i - 1))
MoteReads(s, elements) ==
  /\ s.num = Len(elements) /\ s.length = StartOf(elements, Len(elements) + 1)
  /\ \A i \in DOMAIN elements : StartOf(elements, i) \in DOMAIN s.buf
                                 /\ s.buf[StartOf(elements, i)] = elements[i]

\* Which numbers of a call no field of the element is meant to hold: a toggle of
\* the leds takes none, the second of wait is a switch and that of send a choice;
\* and of the value of memoryop only the high byte is kept.
NotKept(name) ==
  CASE name \in DOMAIN ActuateLed -> 1 .. TP_MAX_ARGS
    [] name \in {"wait", "memoryop"} -> {2}
    [] name = "send" -> {1}
    [] OTHER -> {}
Holds(field, n) == field[2] = IF field[1] = 4 THEN n ELSE n % (256 ^ field[1])
\* Every other number the user wrote is in the element, as far as a field is wide.
NumbersAreIn(call, e) ==
  LET numbers == NumbersOf(call) IN
  \A i \in DOMAIN numbers \ NotKept(call[1].name) :
    \E f \in DOMAIN e.value : Holds(e.value[f], numbers[i].number)

\* What goes to the motes is a task, and is read there as the very calls the user
\* wrote: nothing of an earlier call, or of a text that was given up, is left in
\* the arguments, the flag for constants or the packet, no number is lost between
\* the text and the element, and all of it is within the packet.
SentIsWhatWasWritten ==
  sent.text # <<>> =>
    /\ IsGoodTask(sent.text) /\ MoteReads(sent, ElementsOf(sent.text))
    /\ \A i \in DOMAIN CallsOf(sent.text) :
         NumbersAreIn(CallsOf(sent.text)[i], ElementsOf(sent.text)[i])
    /\ sent.length <= PacketSize

\* And a task that can be understood is not refused: it is taken whole when its
\* elements fit the packet, and overruns it, with the element that does not, when
\* they do not.
BytesOf(task) == StartOf(ElementsOf(task), Len(CallsOf(task)) + 1)
AfterCall == text # <<>> /\ Last(text).kind \in {")", "end"}
SoFar == IF Last(text).kind = "end" THEN text ELSE Append(text, [kind |-> "end"])
GoodTaskIsAccepted ==
  (AfterCall /\ IsGoodTask(SoFar)) =>
    /\ doing \in {"parsing", "sending", "overrun"}
    /\ doing = "overrun" <=> BytesOf(SoFar) > PacketSize
    /\ doing = "sending" => parser.length = BytesOf(SoFar)

\* The response holds the attributes of the packet, each once, in the order of
\* their types and for one type in that of the packet; response_pop gives them
\* in that order.
ResponseIsWhole ==
  LET whole == taken \o list IN
  /\ \A i, j \in DOMAIN whole : i < j => whole[i].type <= whole[j].type
  /\ \A i \in DOMAIN packet :
       LET Same(x) == x.type = packet[i].type IN
       SelectSeq(whole, Same) = LET same == SelectSeq(packet, Same) IN
                                [j \in DOMAIN same |-> Attr(same[j])]
  /\ Len(whole) = Len(packet)

=============================================================================
