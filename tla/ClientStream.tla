---------------------------- MODULE ClientStream ----------------------------
(***************************************************************************)
(* How the receiving side of server packets cuts the byte stream: the      *)
(* static variables of process_data in the game client, and with the same  *)
(* loop over curr_packet_size, prev_packet_data and packet_buf the worker  *)
(* of the load generator.  Unlike the server it copies fragments into a    *)
(* packet buffer and remembers the size once it has decoded it.            *)
(*                                                                         *)
(* Bytes are numbered as in ServerStream; 0 is one nobody sent.  When a    *)
(* fragment ends after the first byte of a packet, the second byte of its  *)
(* size is whatever lies behind the fragment.                              *)
(***************************************************************************)
EXTENDS Integers, Sequences

\* Connection assumes of them what it assumes of the stream to the server.
CONSTANTS
  Packets, Start,   \* as in ServerStream
  Base,             \* 256
  Stale,            \* bytes that may lie behind a fragment
  BUF_SIZE

Size(i) == Start[i] - Start[i - 1]
Packet == [i \in 1 .. Packets |-> [k \in 1 .. Size(i) |-> Start[i - 1] + k]]

VARIABLES
  sent,               \* packets the server has sent
  received,           \* bytes that have arrived
  io_byte,            \* bytes of the fragment still to be looked at
  in_packet_size,     \* 0: not known yet
  saved_packet_size,
  packet_buffer,
  handled,            \* what ProcessPacket was called with
  pc

vars == <<sent, received, io_byte, in_packet_size, saved_packet_size,
          packet_buffer, handled, pc>>

Init ==
  /\ sent = 0 /\ received = 0 /\ io_byte = 0 /\ handled = <<>>
  /\ in_packet_size = 0 /\ saved_packet_size = 0
  /\ packet_buffer = [i \in 1 .. BUF_SIZE |-> 0]
  /\ pc = "recv"

Send ==
  /\ sent < Packets
  /\ sent' = sent + 1
  /\ UNCHANGED <<received, io_byte, in_packet_size, saved_packet_size,
                 packet_buffer, handled, pc>>

Receive(n) ==
  /\ pc = "recv" /\ n <= Start[sent] - received
  /\ received' = received + n
  /\ io_byte' = n
  /\ pc' = "decode"
  /\ UNCHANGED <<sent, in_packet_size, saved_packet_size, packet_buffer, handled>>

\* The number of the byte ptr points to.
ptr == received - io_byte + 1

\* The packet that starts at ptr.
NextPacket == CHOOSE i \in 1 .. Packets : Start[i - 1] + 1 = ptr

\* while (0 != io_byte)
Done ==
  /\ pc = "decode" /\ io_byte = 0
  /\ pc' = "recv"
  /\ UNCHANGED <<sent, received, io_byte, in_packet_size, saved_packet_size,
                 packet_buffer, handled>>

Decode ==
  /\ pc = "decode" /\ io_byte > 0
  /\ in_packet_size' = IF in_packet_size = 0 THEN Size(NextPacket) ELSE in_packet_size
  /\ in_packet_size = 0 => io_byte >= 2
  /\ pc' = "copy"
  /\ UNCHANGED <<sent, received, io_byte, saved_packet_size, packet_buffer, handled>>

\* Half of the size has come.  With a stale byte that is not 0 the size is
\* wrong and stays so: the stream is lost, and the model follows it no further.
DecodeHalf ==
  /\ pc = "decode" /\ io_byte = 1 /\ in_packet_size = 0
  /\ \E high \in Stale :
       IF high = 0
       THEN in_packet_size' = Size(NextPacket) /\ pc' = "copy"
       ELSE in_packet_size' = Size(NextPacket) + Base * high /\ pc' = "lost"
  /\ UNCHANGED <<sent, received, io_byte, saved_packet_size, packet_buffer, handled>>

\* memcpy(packet_buffer + saved_packet_size, ptr, n)
Copied(n) ==
  [i \in 1 .. BUF_SIZE |->
     IF i \in saved_packet_size + 1 .. saved_packet_size + n
     THEN ptr + (i - saved_packet_size) - 1 ELSE packet_buffer[i]]

missing == in_packet_size - saved_packet_size

\* Mutant: a packet that ends with the fragment is saved.
CompleteIfMore == io_byte > missing

Complete == io_byte >= missing

CompletePacket ==
  /\ pc = "copy" /\ Complete
  /\ packet_buffer' = Copied(missing)
  /\ handled' = Append(handled, SubSeq(packet_buffer', 1, in_packet_size))
  /\ io_byte' = io_byte - missing
  /\ in_packet_size' = 0 /\ saved_packet_size' = 0
  /\ pc' = "decode"
  /\ UNCHANGED <<sent, received>>

\* Mutant: the size of this fragment replaces the sum.
SaveLast ==
  /\ pc = "copy" /\ ~Complete
  /\ packet_buffer' = Copied(io_byte)
  /\ saved_packet_size' = io_byte
  /\ io_byte' = 0
  /\ pc' = "decode"
  /\ UNCHANGED <<sent, received, in_packet_size, handled>>

SaveFragment ==
  /\ pc = "copy" /\ ~Complete
  /\ packet_buffer' = Copied(io_byte)
  /\ saved_packet_size' = saved_packet_size + io_byte
  /\ io_byte' = 0
  /\ pc' = "decode"
  /\ UNCHANGED <<sent, received, in_packet_size, handled>>

Loop == Done \/ Decode \/ DecodeHalf \/ CompletePacket \/ SaveFragment

Next ==
  \/ Send
  \/ \E n \in 1 .. BUF_SIZE : Receive(n)
  \/ Loop

Spec == Init /\ [][Next]_vars

\* TCP delivers and the loop runs; the server sends as it likes.
Fairness ==
  /\ WF_vars(\E n \in 1 .. BUF_SIZE : Receive(n))
  /\ WF_vars(Loop)
-----------------------------------------------------------------------------
TypeOK ==
  /\ sent \in 0 .. Packets /\ received \in Nat /\ io_byte \in 0 .. BUF_SIZE
  /\ in_packet_size \in Nat /\ saved_packet_size \in 0 .. BUF_SIZE
  /\ packet_buffer \in [1 .. BUF_SIZE -> 0 .. Start[Packets]]
  /\ pc \in {"recv", "decode", "copy", "lost"}

\* What the variables kept between two fragments say together: the bytes saved
\* and the packets handled are everything that has arrived, and the size is
\* known as soon as a byte has been saved.
Carried ==
  pc = "recv" =>
    /\ received = Start[Len(handled)] + saved_packet_size
    /\ in_packet_size = IF saved_packet_size = 0 THEN 0 ELSE Size(Len(handled) + 1)
    /\ saved_packet_size > 0 => saved_packet_size < in_packet_size

Fifo == INSTANCE PacketFifo

\* Until a split size field has been completed by a stale byte (pc = "lost"),
\* ProcessPacket sees nothing but the packets the server sent, in order.
ImplementsFifo == Fifo!Safety

\* Unless a header is split and completed by a stale byte, every packet comes.
AllHandledUnlessLost == [](pc # "lost") => Fifo!Liveness
=============================================================================
