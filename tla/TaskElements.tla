---------------------------- MODULE TaskElements ----------------------------
(***************************************************************************)
(* The elements a tasking packet is made of (master/tasklib/               *)
(* element_construct.c), laid out as the structures of tenet_task.h.       *)
(*                                                                         *)
(* An element is written as its type, the length its header announces and  *)
(* the fields of its parameters in the order of the structure.  A field is *)
(* a pair: the bytes it takes, and its value in the width of its type.     *)
(* Byte order (hxs, hxl) is undone by whoever reads the field.  An enum of *)
(* the structures is written by its value, an element type by its name.    *)
(***************************************************************************)
EXTENDS Integers, Sequences, SequencesExt

Byte(v) == <<1, v % 256>>
Short(v) == <<2, v % 65536>>
Long(v) == <<4, v>>           \* arguments are non-negative and below 2^31
\* A byte the constructor does not write: what the caller's buffer held.
Unset == <<1, -1>>

SizeOfHeader == 4      \* attr_t: type and length
SizeOfTask == 2        \* task_msg_t: type and numElements

Bytes(fields) == FoldLeft(LAMBDA n, f : n + f[1], 0, fields)
Element(type, fields) == [type |-> type, length |-> Bytes(fields), value |-> fields]
\* What a constructor returns, which is what tp_length grows by.
SizeOf(e) == SizeOfHeader + e.length

-----------------------------------------------------------------------------

construct_issue(starttime, period, abst) ==
  Element("ISSUE", <<Long(starttime), Long(period), Byte(abst), Unset>>)
construct_count(tag, count, rate) ==
  Element("COUNT", <<Short(count), Short(rate), Short(tag)>>)
construct_get(tag, value) == Element("GET", <<Short(tag), Short(value)>>)
construct_actuate(chan, argtype, arg) ==
  Element("ACTUATE", <<Byte(chan), Byte(argtype), Short(arg)>>)
construct_reboot == Element("REBOOT", <<>>)

\* The four operators on two attributes have structures of the same layout.
Operation(type, result, tag, optype, argtype, arg) ==
  Element(type, <<Short(result), Short(tag), Byte(optype), Byte(argtype), Short(arg)>>)
construct_logical(result, tag, optype, argtype, arg) ==
  Operation("LOGICAL", result, tag, optype, argtype, arg)
construct_bit(result, tag, optype, argtype, arg) ==
  Operation("BIT", result, tag, optype, argtype, arg)
construct_arith(result, tag, optype, argtype, arg) ==
  Operation("ARITH", result, tag, optype, argtype, arg)
construct_comparison(result, tag, optype, argtype, arg) ==
  Operation("COMPARISON", result, tag, optype, argtype, arg)

construct_stats(result, tag, optype) ==
  Element("STATS", <<Short(result), Short(tag), Short(optype)>>)
construct_storage(tagIn, tagOut, store) ==
  Element("STORAGE", <<Short(tagIn), Short(tagOut), Byte(store), Byte(0)>>)
construct_pack(nAttr, size, block) ==
  Element("PACK", <<Short(nAttr), Short(size), Byte(block), Unset>>)
construct_attribute(result, nAttr, optype) ==
  Element("ATTRIBUTE", <<Short(result), Short(nAttr), Byte(optype), Unset>>)

construct_sendpkt(e2e_ack) == Element("SENDPKT", <<Byte(e2e_ack), Byte(0)>>)
construct_sendstr == Element("SENDSTR", <<>>)
\* A field that is sent in the byte order of the host.
HostShort(v) == Short(v)
construct_sendrcrt(irate) == Element("SENDRCRT", <<HostShort(irate)>>)
construct_send(sendtype) ==
  CASE sendtype = 2 -> construct_sendstr
    [] sendtype = 1 -> construct_sendpkt(1)
    [] sendtype = 3 -> construct_sendrcrt(0)
    [] OTHER -> construct_sendpkt(0)

construct_deleteAttributeIf(arg, argtype, tag, deleteAll) ==
  Element("DELETEATTRIBUTEIF", <<Short(arg), Short(tag), Byte(argtype), Byte(deleteAll)>>)
construct_deleteActiveTaskIf(arg, argtype) ==
  Element("DELETEACTIVETASKIF", <<Short(arg), Byte(argtype), Byte(0)>>)
construct_deleteTaskIf(arg, argtype) ==
  Element("DELETETASKIF", <<Short(arg), Byte(argtype), Byte(0)>>)

construct_voltage(out0) == Element("VOLTAGE", <<Short(out0)>>)
construct_simple_sample(ch0, out0) ==
  Element("SIMPLESAMPLE", <<Short(out0), Byte(ch0), Unset>>)
construct_sample(interval, count, repeat, ch0, out0) ==
  Element("SAMPLE", <<Long(interval), Short(count), Short(out0), Byte(ch0), Byte(repeat)>>)
construct_user_button(repeat) == Element("USERBUTTON", <<Byte(repeat), Byte(0)>>)
\* The value is put in network byte order before it is cut to one byte: what is
\* left of it is its high byte.
construct_memoryop(addr, value, op, type) ==
  Element("MEMORYOP", <<Short(addr), Byte(value \div 256), Byte(op), HostShort(type)>>)
construct_rle(result, arg, thresh) ==
  Element("RLE", <<Short(result), Short(arg), Short(thresh)>>)
construct_packbits(result, arg, thresh) ==
  Element("PACKBITS", <<Short(result), Short(arg), Short(thresh)>>)
construct_vector(result, length, pattern) ==
  Element("VECTOR", <<Short(length), Short(pattern), Short(result)>>)

=============================================================================
