----------------------------- MODULE TaskParser -----------------------------
(***************************************************************************)
(* The parser of the task library (tp.c, parser.y, lexer.l): it reads a    *)
(* task one token at a time and builds the tasking packet as it goes.      *)
(*                                                                         *)
(* The state is one record, the globals of tp.c with what the generated    *)
(* parser has on its stack:                                                *)
(*   at        which tokens the grammar can take next (Grammar)            *)
(*   name, number       the values on the stack: $1 of a task element, and *)
(*                      the number between quotes                          *)
(*   args, argpos, constant, length, num, abort     tp_args, tp_argpos,    *)
(*                      tp_is_constant, tp_length, tp_num_elements and     *)
(*                      abort_due_to_error                                 *)
(*   buf       the packet: the element that starts at each offset          *)
(*   exited    the process called exit(1)                                  *)
(*   overrun   an element was written past the end of the caller's packet, *)
(*             whose size no function of tp.c is told: what the process    *)
(*             does from there on is undefined                             *)
(* Every rule of the grammar acts as soon as its last token is read: no    *)
(* action waits for the token after it.                                    *)
(***************************************************************************)
EXTENDS TaskCommands, FiniteSets

CONSTANTS TP_MAX_ARGS,   \* arguments one element may have (20)
          PacketSize     \* bytes of the packet send_task has on its stack (300)
ASSUME ParserAssumption == TP_MAX_ARGS \in Nat \ {0} /\ PacketSize \in Nat

\* The tokens the parser can take at each place; "end" ends the text.
Grammar ==
  [element  |-> {"name", "node"},
   open     |-> {"("},
   first    |-> {"number", "'", ",", ")"},     \* an empty argument list is one
   more     |-> {",", ")"},
   argument |-> {"number", "'"},
   quoted   |-> {"number"},
   unquote  |-> {"'"},
   after    |-> {"->", "end"},
   nodeOpen |-> {"("}, nodeNumber |-> {"number"}, nodeClose |-> {")"}]

-----------------------------------------------------------------------------
(* The actions of the grammar.                                              *)

NoArgs == [i \in 0 .. TP_MAX_ARGS - 1 |-> 0]
\* Mutated forms, for SentIsWhatWasWritten and GoodTaskIsAccepted: the flag of the
\* last element stays; the arguments are counted on.
Mut_tp_init_args(p) == [p EXCEPT !.args = NoArgs, !.argpos = -1]
Mut2_tp_init_args(p) == [p EXCEPT !.args = NoArgs, !.constant = FALSE]

tp_init_args(p) == [p EXCEPT !.args = NoArgs, !.argpos = -1, !.constant = FALSE]

tp_add_arg(p, n) ==
  IF p.argpos + 1 >= TP_MAX_ARGS THEN [p EXCEPT !.exited = TRUE]
  ELSE [p EXCEPT !.argpos = @ + 1, !.args[p.argpos + 1] = n]
tp_set_constant(p) == [p EXCEPT !.constant = TRUE]

Call(p, name) == [func |-> name, argc |-> p.argpos + 1, arg |-> p.args, constant |-> p.constant]

\* The element goes where the packet ends, whether there is room for it or not;
\* the packet grows by what the constructor returns.
AddElement(p, e) ==
  tp_init_args([p EXCEPT !.buf = (p.length :> e) @@ @, !.length = @ + SizeOf(e), !.num = @ + 1,
                         !.overrun = @ \/ p.length + SizeOf(e) > PacketSize])
Construct(p, name) ==
  LET made == tp_call_constructor(Call(p, name)) IN
  IF made = {} THEN [p EXCEPT !.exited = TRUE] ELSE AddElement(p, CHOOSE e \in made : TRUE)

\* node(n) stands for a memoryop and two classify_amplitude.
AddAll(p, numbers) == FoldLeft(tp_add_arg, tp_init_args(p), numbers)
Then(p, numbers, name) == IF p.exited THEN p ELSE Construct(AddAll(p, numbers), name)
NodeElement(p, n) ==
  Then(Then(Then(p, <<4352, 2, 0, 113>>, "memoryop"),
            <<n, 1, 113, 0, 3>>, "classify_amplitude"),
       <<n, 1, 113, 1, 3>>, "classify_amplitude")

-----------------------------------------------------------------------------

\* tp_doit up to the first token, with construct_init.
NewParser ==
  tp_init_args([at |-> "element", name |-> "", number |-> 0, args |-> NoArgs, argpos |-> -1,
                constant |-> FALSE, length |-> SizeOfTask, num |-> 0, abort |-> FALSE,
                buf |-> <<>>, exited |-> FALSE, overrun |-> FALSE])

To(p, place) == [p EXCEPT !.at = place]
\* yyparse with a token the grammar can take.
Taken(p, token) ==
  CASE p.at = "element" /\ token.kind = "name" -> To([p EXCEPT !.name = token.name], "open")
    [] p.at = "element" /\ token.kind = "node" -> To(p, "nodeOpen")
    [] p.at = "open" -> To(p, "first")
    [] p.at \in {"first", "argument"} /\ token.kind = "number" -> To(tp_add_arg(p, token.number), "more")
    [] p.at \in {"first", "argument"} /\ token.kind = "'" -> To(p, "quoted")
    [] p.at = "quoted" -> To([p EXCEPT !.number = token.number], "unquote")
    [] p.at = "unquote" -> To(tp_set_constant(tp_add_arg(p, p.number)), "more")
    [] p.at \in {"first", "more"} /\ token.kind = "," -> To(p, "argument")
    [] p.at \in {"first", "more"} /\ token.kind = ")" -> To(Construct(p, p.name), "after")
    [] p.at = "after" /\ token.kind = "->" -> To(p, "element")
    [] p.at = "after" /\ token.kind = "end" -> To(p, "done")
    [] p.at = "nodeOpen" -> To(p, "nodeNumber")
    [] p.at = "nodeNumber" -> To([p EXCEPT !.number = token.number], "nodeClose")
    [] p.at = "nodeClose" -> To(NodeElement(p, p.number), "after")

\* yyerror, and the end of yyparse.
SyntaxError(p) == To([p EXCEPT !.abort = TRUE], "done")
\* A character no token starts with is reported and skipped.
Unexpected(p) == [p EXCEPT !.abort = TRUE]

\* One token of the text.
yyparse(p, token) ==
  CASE token.kind = "junk" -> Unexpected(p)
    [] token.kind \in Grammar[p.at] -> Taken(p, token)
    [] OTHER -> SyntaxError(p)

\* The rest of tp_doit, and tp_parse_task: arguments that are left over end the
\* process.
tp_process_finalize(p) == IF p.argpos + 1 # 0 THEN [p EXCEPT !.exited = TRUE] ELSE p
tp_parse_task(p) == IF p.abort THEN [p EXCEPT !.length = -1] ELSE p

-----------------------------------------------------------------------------
(* The packets that have a name of their own (task_construct.c).            *)

Packet(elements) == FoldLeft(AddElement, NewParser, elements)
TestTasks == {"Blink", "CntToLedsAndRfm", "SenseToRfm", "Reboot"}
parse_test_task_string(name) ==
  CASE name = "Blink" ->
         Packet(<<construct_issue(1000, 500, 0), construct_count(273, 0, 1),
                  construct_actuate(0, 1, 273)>>)
    [] name = "CntToLedsAndRfm" ->
         Packet(<<construct_issue(1000, 500, 0), construct_count(68, 0, 1),
                  construct_actuate(0, 1, 68), construct_send(0)>>)
    [] name = "SenseToRfm" ->
         Packet(<<construct_issue(1000, 500, 0), construct_sample(0, 1, 0, 21, 85),
                  construct_send(0)>>)
    [] name = "Reboot" -> Packet(<<construct_reboot>>)

=============================================================================
