----------------------------- MODULE Connection -----------------------------
(***************************************************************************)
(* A connection has a stream of packets in either direction: ServerStream  *)
(* is how the server takes the client's apart, ClientStream how the client *)
(* (or the load generator) takes the server's.  They share no variable, so *)
(* there is nothing to learn from mixing their steps, and in one behaviour *)
(* of this module one of the two streams is used.                          *)
(***************************************************************************)
EXTENDS ServerStream

CONSTANT Stale    \* as in ClientStream

\* A byte is less than 256.
ASSUME StaleAssumption == Stale \subseteq 0 .. Base - 1

VARIABLES
  direction,      \* "up": from the client, "down": from the server
  c_sent, c_received, io_byte, in_packet_size, saved_packet_size,
  packet_buffer, c_handled, c_pc

Client == INSTANCE ClientStream
  WITH sent <- c_sent, received <- c_received, handled <- c_handled, pc <- c_pc

c_vars == <<c_sent, c_received, io_byte, in_packet_size, saved_packet_size,
            packet_buffer, c_handled, c_pc>>

Connected == Init /\ Client!Init /\ direction \in {"up", "down"}

Transfer ==
  /\ UNCHANGED direction
  /\ \/ direction = "up" /\ Next /\ UNCHANGED c_vars
     \/ direction = "down" /\ Client!Next /\ UNCHANGED vars

\* Each end is scheduled as in its own module.
Streams ==
  /\ Connected /\ [][Transfer]_<<vars, c_vars, direction>>
  /\ Fairness /\ Client!Fairness
-----------------------------------------------------------------------------
\* Until a split size field has been completed by a stale byte (pc = "lost"),
\* ProcessPacket of the client sees nothing but the packets the server sent, in
\* order.
ClientImplementsFifo == Client!ImplementsFifo

\* Unless a size field is split and completed by a stale byte, every packet of the
\* server is handled by the client in the end.
ClientHandlesAll == Client!AllHandledUnlessLost
=============================================================================
