---------------------------- MODULE TaskCommands ----------------------------
(***************************************************************************)
(* The commands of the task language (master/tasklib/tp.c, the             *)
(* tp_process_... functions and tp_call_constructor): how many arguments   *)
(* each takes and which element it makes of them.                          *)
(*                                                                         *)
(* A call is a record: func, the name; argc, the number of arguments       *)
(* scanned (tp_argpos + 1); arg, the array tp_args, from 0; constant, the  *)
(* flag tp_is_constant.  The result of a command is the set of the         *)
(* elements it makes; a command that finds the wrong number of arguments   *)
(* makes none, and ends the process.                                       *)
(*                                                                         *)
(* Commands that differ only in a code are one definition and a table.     *)
(***************************************************************************)
EXTENDS TaskElements

Takes(c, counts, element) == IF c.argc \in counts THEN {element} ELSE {}
\* ARGTYPE_CONSTANT is 0, ARGTYPE_ATTRIBUTE 1: one flag for the whole call.
ArgType(c) == IF c.constant THEN 0 ELSE 1

-----------------------------------------------------------------------------

IssueCommands == {"issue", "repeat", "wait", "wait_n_repeat", "alarm", "globalrepeat"}
Issue(c) ==
  LET a == c.arg IN
  CASE c.func = "issue" -> Takes(c, {3}, construct_issue(a[0], a[1], a[2]))
    [] c.func = "repeat" -> Takes(c, {1}, construct_issue(a[0], a[0], 0))
    [] c.func = "wait" ->
         Takes(c, {1, 2}, construct_issue(a[0], IF c.argc = 2 /\ a[1] = 1 THEN a[0] ELSE 0, 0))
    [] c.func = "wait_n_repeat" -> Takes(c, {2}, construct_issue(a[0], a[1], 0))
    [] c.func = "alarm" -> Takes(c, {1}, construct_issue(a[0], 0, 1))
    [] c.func = "globalrepeat" -> Takes(c, {2}, construct_issue(a[0], a[1], 1))

StorageCommands == {"storage", "store", "retrieve", "restore"}
Storage(c) ==
  LET a == c.arg IN
  IF c.func = "storage" THEN Takes(c, {3}, construct_storage(a[0], a[1], a[2]))
  ELSE Takes(c, {1, 2}, construct_storage(a[0], a[c.argc - 1], IF c.func = "store" THEN 1 ELSE 0))

CountCommands == {"count", "constant"}
Count(c) ==
  LET a == c.arg IN
  IF c.func = "count" THEN Takes(c, {3}, construct_count(a[0], a[1], a[2]))
  ELSE Takes(c, {2}, construct_count(a[0], a[1], 0))

\* The channels of tenet_task.h: leds 0, radio 1, sounder 2, toggling the leds
\* 3, resetting the route 11, holding it 12.
ActuateChannel == [set_leds |-> 0, toggle_leds |-> 3, set_rfpower |-> 1, sounder |-> 2]
ActuateRoute == [reset_parent |-> 11, hold_parent |-> 12]
\* These overwrite the arguments that were scanned, whatever their number.
ActuateLed == [leds0toggle |-> 1, leds1toggle |-> 2, leds2toggle |-> 4]
ActuateCommands ==
  {"actuate"} \cup DOMAIN ActuateChannel \cup DOMAIN ActuateRoute \cup DOMAIN ActuateLed
Actuate(c) ==
  LET a == c.arg IN
  CASE c.func = "actuate" -> Takes(c, {2}, construct_actuate(a[0], ArgType(c), a[1]))
    [] c.func \in DOMAIN ActuateChannel ->
         Takes(c, {1}, construct_actuate(ActuateChannel[c.func], ArgType(c), a[0]))
    [] c.func \in DOMAIN ActuateRoute -> Takes(c, {0}, construct_actuate(ActuateRoute[c.func], 0, 0))
    [] c.func \in DOMAIN ActuateLed -> {construct_actuate(3, 0, ActuateLed[c.func])}

-----------------------------------------------------------------------------
(* Operators on attributes.                                                 *)

LogicalOp == [logical_and |-> 1, and |-> 1, logical_or |-> 2, or |-> 2]
LogicalCommands == {"logical", "logical_not", "not"} \cup DOMAIN LogicalOp
Logical(c) ==
  LET a == c.arg IN
  CASE c.func = "logical" -> Takes(c, {4}, construct_logical(a[0], a[1], a[2], ArgType(c), a[3]))
    [] c.func \in {"logical_not", "not"} ->
         Takes(c, {2}, construct_logical(a[0], a[1], 3, ArgType(c), 1))
    [] OTHER -> Takes(c, {3}, construct_logical(a[0], a[1], LogicalOp[c.func], ArgType(c), a[2]))

BitOp == [bit_and |-> 1, bit_or |-> 2, bit_xor |-> 4, bit_nand |-> 5, bit_nor |-> 6,
          shiftleft |-> 7, shiftright |-> 8]
BitCommands == {"bit", "bit_not"} \cup DOMAIN BitOp
Bit(c) ==
  LET a == c.arg IN
  CASE c.func = "bit" -> Takes(c, {4}, construct_bit(a[0], a[1], a[2], ArgType(c), a[3]))
    [] c.func = "bit_not" -> Takes(c, {2}, construct_bit(a[0], a[1], 3, ArgType(c), 1))
    [] OTHER -> Takes(c, {3}, construct_bit(a[0], a[1], BitOp[c.func], ArgType(c), a[2]))

ArithOp == [add |-> 1, sub |-> 2, mult |-> 3, div |-> 4, diff |-> 5, mod |-> 6, pow |-> 7]
ArithCommands == {"arith"} \cup DOMAIN ArithOp
Arith(c) ==
  LET a == c.arg IN
  IF c.func = "arith" THEN Takes(c, {4}, construct_arith(a[0], a[1], a[2], ArgType(c), a[3]))
  ELSE Takes(c, {3}, construct_arith(a[0], a[1], ArithOp[c.func], ArgType(c), a[2]))

CompareOp == [lt |-> 11, gt |-> 12, eq |-> 13, leq |-> 14, geq |-> 15, neq |-> 16]
CountCompareOp == [count_lt |-> 21, count_gt |-> 22, count_eq |-> 23, count_leq |-> 24,
                   count_geq |-> 25, count_neq |-> 26]
ComparisonOp == CompareOp @@ CountCompareOp
ComparisonCommands == {"comparison"} \cup DOMAIN ComparisonOp
Comparison(c) ==
  LET a == c.arg IN
  IF c.func = "comparison"
  THEN Takes(c, {4}, construct_comparison(a[0], a[1], a[2], ArgType(c), a[3]))
  ELSE Takes(c, {3}, construct_comparison(a[0], a[1], ComparisonOp[c.func], ArgType(c), a[2]))

StatsOp == [sum |-> 1, min |-> 2, max |-> 3, avg |-> 4, std |-> 5, cnt |-> 6, meandev |-> 7]
StatsCommands == {"stats"} \cup DOMAIN StatsOp
Stats(c) ==
  LET a == c.arg IN
  IF c.func = "stats" THEN Takes(c, {3}, construct_stats(a[0], a[1], a[2]))
  ELSE Takes(c, {2}, construct_stats(a[0], a[1], StatsOp[c.func]))

AttributeOp == [exist |-> 1, not_exist |-> 2, length |-> 3]
AttributeCommands == {"attribute"} \cup DOMAIN AttributeOp
Attribute(c) ==
  LET a == c.arg IN
  IF c.func = "attribute" THEN Takes(c, {3}, construct_attribute(a[0], a[1], a[2]))
  ELSE Takes(c, {2}, construct_attribute(a[0], a[1], AttributeOp[c.func]))

CodingCommands == {"rle", "packbits"}
Coding(c) ==
  LET a == c.arg IN
  Takes(c, {3}, IF c.func = "rle" THEN construct_rle(a[0], a[1], a[2])
                ELSE construct_packbits(a[0], a[1], a[2]))
Vector(c) == Takes(c, {3}, construct_vector(c.arg[0], c.arg[1], c.arg[2]))

-----------------------------------------------------------------------------
(* What a mote can be asked for: get_value_t of tenet_task.h.               *)

GetRouteAndTime == [nexthop |-> 1, parent |-> 1, neighbors |-> 8, children |-> 7,
                    globaltime |-> 2, globaltime_ms |-> 14, localtime |-> 3, localtime_ms |-> 15]
GetRadioAndMemory == [rfpower |-> 10, rfchannel |-> 11, leds |-> 9, nodeid |-> 13,
                      local_address |-> 13, memory_stats |-> 4, num_tasks |-> 5,
                      num_active_tasks |-> 6]
GetPlatformAndParent == [is_timesync |-> 12, platform |-> 17, clock_freq |-> 18, master |-> 19,
                         hopcount |-> 20, rssi |-> 21, linkquality |-> 16]
GetValue == GetRouteAndTime @@ GetRadioAndMemory @@ GetPlatformAndParent
GetCommands == {"get"} \cup DOMAIN GetValue
Get(c) ==
  IF c.func = "get" THEN Takes(c, {2}, construct_get(c.arg[0], c.arg[1]))
  ELSE Takes(c, {1}, construct_get(c.arg[0], GetValue[c.func]))

SampleCommands == {"sample", "simplesample", "voltage"}
Sample(c) ==
  LET a == c.arg IN
  CASE c.func = "simplesample" -> Takes(c, {2}, construct_simple_sample(a[0], a[1]))
    [] c.func = "voltage" -> Takes(c, {1}, construct_voltage(a[0]))
    [] c.argc = 5 -> {construct_sample(a[0], a[1], a[2] % 256, a[3], a[4])}
    [] c.argc = 4 -> {construct_sample(a[0], a[1], 0, a[2], a[3])}
    [] c.argc = 3 -> {construct_sample(a[0], 1, 1, a[1], a[2])}
    [] c.argc = 2 -> {construct_sample(0, 1, 0, a[0], a[1])}
    [] OTHER -> {}

-----------------------------------------------------------------------------
(* The rest.                                                                *)

PackCommands == {"pack", "pack_n_wait"}
Pack(c) ==
  LET a == c.arg IN
  IF c.func = "pack"
  THEN Takes(c, {2, 3}, construct_pack(a[0], a[1], IF c.argc = 3 THEN a[2] ELSE 0))
  ELSE Takes(c, {2}, construct_pack(a[0], a[1], 1))

SendCommands == {"send", "sendpkt", "sendstr", "sendrcrt"}
Send(c) ==
  LET a == c.arg IN
  CASE c.func = "send" -> Takes(c, {0, 1}, construct_send(IF c.argc = 1 THEN a[0] % 65536 ELSE 0))
    [] c.func = "sendpkt" -> IF a[0] > 1 THEN {} ELSE Takes(c, {1}, construct_sendpkt(a[0]))
    [] c.func = "sendstr" -> Takes(c, {0}, construct_sendstr)
    [] c.func = "sendrcrt" -> Takes(c, {1}, construct_sendrcrt(a[0]))

DeleteCommands == {"deleteattribute", "deleteattributeif", "deleteallattributeif",
                   "deleteactivetaskif", "deletetaskif"}
Delete(c) ==
  LET a == c.arg IN
  CASE c.func = "deleteattributeif" ->
         Takes(c, {2}, construct_deleteAttributeIf(a[0], ArgType(c), a[1], 0))
    [] c.func = "deleteattribute" -> Takes(c, {1}, construct_deleteAttributeIf(1, 0, a[0], 0))
    [] c.func = "deleteallattributeif" ->
         Takes(c, {1}, construct_deleteAttributeIf(a[0], ArgType(c), 0, 1))
    [] c.func = "deleteactivetaskif" -> Takes(c, {1}, construct_deleteActiveTaskIf(a[0], ArgType(c)))
    [] c.func = "deletetaskif" -> Takes(c, {1}, construct_deleteTaskIf(a[0], ArgType(c)))

Reboot(c) == Takes(c, {0}, construct_reboot)
UserButton(c) == Takes(c, {1}, construct_user_button(c.arg[0]))
Memoryop(c) == Takes(c, {4}, construct_memoryop(c.arg[0], c.arg[1], c.arg[2], c.arg[3]))

Commands ==
  IssueCommands \cup StorageCommands \cup CountCommands \cup ActuateCommands
  \cup LogicalCommands \cup BitCommands \cup ArithCommands \cup ComparisonCommands
  \cup StatsCommands \cup AttributeCommands \cup CodingCommands \cup GetCommands
  \cup SampleCommands \cup PackCommands \cup SendCommands \cup DeleteCommands
  \cup {"vector", "reboot", "userbutton", "memoryop"}

\* tp_call_constructor, up to the reset of the arguments: the element of a call,
\* and no element for a name it does not know.
tp_call_constructor(c) ==
  CASE c.func \in IssueCommands -> Issue(c)
    [] c.func \in StorageCommands -> Storage(c)
    [] c.func \in CountCommands -> Count(c)
    [] c.func \in ActuateCommands -> Actuate(c)
    [] c.func \in LogicalCommands -> Logical(c)
    [] c.func \in BitCommands -> Bit(c)
    [] c.func \in ArithCommands -> Arith(c)
    [] c.func \in ComparisonCommands -> Comparison(c)
    [] c.func \in StatsCommands -> Stats(c)
    [] c.func \in AttributeCommands -> Attribute(c)
    [] c.func \in CodingCommands -> Coding(c)
    [] c.func \in GetCommands -> Get(c)
    [] c.func \in SampleCommands -> Sample(c)
    [] c.func \in PackCommands -> Pack(c)
    [] c.func \in SendCommands -> Send(c)
    [] c.func \in DeleteCommands -> Delete(c)
    [] c.func = "vector" -> Vector(c)
    [] c.func = "reboot" -> Reboot(c)
    [] c.func = "userbutton" -> UserButton(c)
    [] c.func = "memoryop" -> Memoryop(c)
    [] OTHER -> {}

=============================================================================
