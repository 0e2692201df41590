----------------------------- MODULE PacketFifo -----------------------------
(***************************************************************************)
(* What a connection promises in either direction: whole packets, each one *)
(* once, in the order in which they were sent.  How the server cuts the    *)
(* bytes of TCP into packets again is ServerStream.                        *)
(***************************************************************************)
EXTENDS Naturals, Sequences

CONSTANTS
  Packets,    \* bound: number of packets that are sent
  Packet      \* the contents of each of them

VARIABLES sent, handled

Init == sent = 0 /\ handled = <<>>

Send ==
  /\ sent < Packets
  /\ sent' = sent + 1
  /\ UNCHANGED handled

Handle ==
  /\ Len(handled) < sent
  /\ handled' = Append(handled, Packet[Len(handled) + 1])
  /\ UNCHANGED sent

Next == Send \/ Handle

Safety == Init /\ [][Next]_<<sent, handled>>

\* Whatever has been sent is handled in the end.
Liveness == WF_<<sent, handled>>(Handle)

Spec == Safety /\ Liveness
=============================================================================
