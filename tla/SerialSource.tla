---------------------------- MODULE SerialSource ----------------------------
(***************************************************************************)
(* The serial line to the base station (tools/sf/serialsource.c): packets  *)
(* are framed by sync bytes, their bytes escaped, and a CRC ends them.     *)
(*                                                                         *)
(* A byte is <<v>>; the two bytes of the CRC of some contents are          *)
(* <<0, contents>> and <<1, contents>>, which no other contents have: the  *)
(* CRC is taken to find every error.  A source is a record:                *)
(*   in_sync, escaped, packet   of the frame being read                    *)
(*   buffer    bytes read from the device and not looked at yet            *)
(*   queue     type -> packets, of the types that are ever taken out       *)
(*   seqno     of the last packet written                                  *)
(* While it is read from, it has also                                      *)
(*   device    the bytes that have arrived and not been read               *)
(*   written   the frames written                                          *)
(***************************************************************************)
EXTENDS Integers, Sequences, SequencesExt

CONSTANTS BUFSIZE, MTU

ASSUME SerialAssumption == BUFSIZE \in Nat \ {0} /\ MTU \in Nat \ (0 .. 3)

SYNC_BYTE == <<126>>
ESCAPE_BYTE == <<125>>
P_ACK == <<67>>
P_PACKET_ACK == <<68>>
P_PACKET_NO_ACK == <<69>>

Flip(v) == IF (v \div 32) % 2 = 0 THEN v + 32 ELSE v - 32
\* byte ^ 0x20
Xor0x20(b) == IF Len(b) = 1 THEN <<Flip(b[1])>> ELSE <<b[1] + 2, b[2]>>
crc_packet(contents) == <<<<0, contents>>, <<1, contents>>>>

open_serial_source ==
  [in_sync |-> FALSE, escaped |-> FALSE, packet |-> <<>>, buffer |-> <<>>,
   queue |-> [t \in {P_ACK, P_PACKET_NO_ACK} |-> <<>>], seqno |-> 37]

\* Mutated form, for Served: packets put aside are forgotten.
Mut_serial_source_empty(src) == src.buffer = <<>>

serial_source_empty(src) == src.buffer = <<>> /\ src.queue[P_PACKET_NO_ACK] = <<>>

-----------------------------------------------------------------------------
(* Writing.                                                                 *)

escape_byte(b) ==
  IF b \in {SYNC_BYTE, ESCAPE_BYTE} THEN <<ESCAPE_BYTE, Xor0x20(b)>> ELSE <<b>>

write_framed_packet(contents) ==
  LET bytes == contents \o crc_packet(contents) IN
  <<SYNC_BYTE>> \o FlattenSeq([i \in DOMAIN bytes |-> escape_byte(bytes[i])]) \o <<SYNC_BYTE>>

-----------------------------------------------------------------------------
(* Reading.                                                                 *)

\* Mutated form, for AFaultCostsTwo: the escape before the lost sync still counts.
Mut_Resynced(src) == [src EXCEPT !.in_sync = TRUE, !.packet = <<>>]

Resynced(src) == [src EXCEPT !.in_sync = TRUE, !.packet = <<>>, !.escaped = FALSE]

\* One byte; `frame` are the contents of the good frame it ends, or empty.
ReadByte(src, b) ==
  LET count == Len(src.packet)
      contents == SubSeq(src.packet, 1, count - 2)
      Read(s) == [src |-> s, frame |-> <<>>]
  IN
  CASE ~src.in_sync -> Read(IF b = SYNC_BYTE THEN Resynced(src) ELSE src)
    [] src.in_sync /\ (count >= MTU \/ (src.escaped /\ b = SYNC_BYTE)) ->
         Read([src EXCEPT !.in_sync = FALSE])
    [] src.in_sync /\ count < MTU /\ src.escaped /\ b # SYNC_BYTE ->
         Read([src EXCEPT !.escaped = FALSE, !.packet = Append(@, Xor0x20(b))])
    [] src.in_sync /\ count < MTU /\ ~src.escaped ->
         CASE b = ESCAPE_BYTE -> Read([src EXCEPT !.escaped = TRUE])
           [] b = SYNC_BYTE ->
                [src |-> [src EXCEPT !.packet = <<>>],
                 frame |-> IF count >= 4 /\ src.packet = contents \o crc_packet(contents)
                           THEN contents ELSE <<>>]
           [] OTHER -> Read([src EXCEPT !.packet = Append(@, b)])

\* A packet of a type that nobody takes out stays where it is.
push_protocol_packet(src, type, packet) ==
  IF type \in DOMAIN src.queue THEN [src EXCEPT !.queue[type] = Append(@, packet)] ELSE src

process_packet(src, packet) ==
  IF packet[1] = P_PACKET_ACK
  THEN [push_protocol_packet(src, P_PACKET_NO_ACK, SubSeq(packet, 3, Len(packet))) EXCEPT
          !.written = Append(@, write_framed_packet(<<P_ACK, packet[2]>>))]
  ELSE push_protocol_packet(src, packet[1], Tail(packet))

SmallerOf(a, b) == IF a < b THEN a ELSE b

\* What `read` has of the bytes: the last good frame is processed, and the device
\* has been read in whole buffers.
Taken(src, bytes, read) ==
  LET buffered == Len(src.buffer)
      fills == (read.n - buffered + BUFSIZE - 1) \div BUFSIZE
      filled == IF read.n <= buffered THEN buffered
                ELSE buffered + SmallerOf(BUFSIZE * fills, Len(src.device))
      after == [read.src EXCEPT !.buffer = SubSeq(bytes, read.n + 1, filled),
                                !.device = SubSeq(bytes, filled + 1, Len(bytes))]
  IN IF read.frame = <<>> THEN after ELSE process_packet(after, read.frame)

\* Reads until one packet is processed or no byte is left.
read_and_process(src) ==
  LET bytes == src.buffer \o src.device
      Counted(r, n) == [src |-> r.src, frame |-> r.frame, n |-> n]
      One(a, b) == IF a.frame # <<>> THEN a ELSE Counted(ReadByte(a.src, b), a.n + 1)
  IN Taken(src, bytes, FoldLeft(One, [src |-> src, frame |-> <<>>, n |-> 0], bytes))

pop_protocol_packet(src, type) == [src EXCEPT !.queue[type] = Tail(@)]

\* Without blocking.  What it returns is in `packets`, none or one.
read_serial_packet(src) ==
  LET Popped(s) ==
        IF s.queue[P_PACKET_NO_ACK] = <<>> THEN [src |-> s, packets |-> <<>>]
        ELSE [src |-> pop_protocol_packet(s, P_PACKET_NO_ACK),
              packets |-> <<Head(s.queue[P_PACKET_NO_ACK])>>]
      Again(a, i) ==
        IF a.packets # <<>> \/ (i > 1 /\ serial_source_empty(a.src)) THEN a
        ELSE Popped(read_and_process(a.src))
  IN FoldLeft(Again, [src |-> src, packets |-> <<>>],
              [i \in 1 .. Len(src.buffer) + Len(src.device) + 1 |-> i])

=============================================================================
