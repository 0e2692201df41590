---------------------------- MODULE ServerStream ----------------------------
(***************************************************************************)
(* How the server turns the byte stream of one connection into packets:    *)
(* SESSION::Recv receives behind the m_prev_remain bytes that are kept     *)
(* from the last time, and the handler of OP_RECV hands every complete     *)
(* packet to process_packet and moves the rest to the front.  TCP delivers *)
(* the bytes in order in fragments of any length.                          *)
(*                                                                         *)
(* A byte is its number in the stream, counted from 1; 0 stands for a byte *)
(* the connection has not written (the buffer belongs to the slot and has  *)
(* seen other connections, and behind it lies _comp_type).  Only the value *)
(* of a byte tells the server anything: the first two of a packet are its  *)
(* size.  One RECV is outstanding at a time, so no two workers are here.   *)
(***************************************************************************)
EXTENDS Integers, Sequences

CONSTANTS
  Packets,    \* number of packets the client sends
  Start,      \* Start[i]: number of bytes before packet i + 1
  Value,      \* value of each byte
  Base,       \* 256
  BUF_SIZE

Bytes == 0 .. Start[Packets]
Size(i) == Start[i] - Start[i - 1]

\* Every packet of protocol.h has at least three bytes and is shorter than 256,
\* so the second byte of its size is 0.
ASSUME StreamAssumption ==
  /\ Packets \in Nat /\ Base \in Nat /\ BUF_SIZE \in Nat \ {0}
  /\ Start \in [0 .. Packets -> Nat] /\ Start[0] = 0
  /\ \A i, j \in 0 .. Packets : i < j => Start[i] + 3 <= Start[j]
  /\ \A i \in 1 .. Packets : Size(i) <= BUF_SIZE /\ Size(i) < Base
  /\ Value \in [Bytes -> 0 .. Base - 1]
  /\ \A i \in 1 .. Packets : /\ Value[Start[i - 1] + 1] = Size(i)
                             /\ Value[Start[i - 1] + 2] = 0

Packet == [i \in 1 .. Packets |-> [k \in 1 .. Size(i) |-> Start[i - 1] + k]]

VARIABLES
  sent,           \* packets the client has sent
  received,       \* bytes that have arrived
  buf,            \* _send_buf of m_recv_over and the byte behind it
  m_prev_remain,
  pc,             \* "recv": a RECV is outstanding; "parse": in the loop
  p,              \* bytes of buf before the pointer p
  remain_data,
  handled         \* what process_packet was called with

vars == <<sent, received, buf, m_prev_remain, pc, p, remain_data, handled>>

Init ==
  /\ sent = 0 /\ received = 0 /\ handled = <<>>
  /\ buf = [i \in 1 .. BUF_SIZE + 1 |-> 0]
  /\ m_prev_remain = 0 /\ remain_data = 0 /\ p = 0
  /\ pc = "recv"

Send ==
  /\ sent < Packets
  /\ sent' = sent + 1
  /\ UNCHANGED <<received, buf, m_prev_remain, pc, p, remain_data, handled>>

\* Mutant: the next fragment goes to the front of the buffer.
ReceiveInFront(n) ==
  /\ pc = "recv" /\ n <= Start[sent] - received
  /\ buf' = [i \in DOMAIN buf |-> IF i <= n THEN received + i ELSE buf[i]]
  /\ received' = received + n
  /\ remain_data' = m_prev_remain + n
  /\ p' = 0 /\ pc' = "parse"
  /\ UNCHANGED <<sent, m_prev_remain, handled>>

\* The RECV completes with n bytes.
Receive(n) ==
  /\ pc = "recv" /\ n <= Start[sent] - received
  /\ buf' = [i \in DOMAIN buf |->
               IF i \in m_prev_remain + 1 .. m_prev_remain + n
               THEN received + (i - m_prev_remain) ELSE buf[i]]
  /\ received' = received + n
  /\ remain_data' = m_prev_remain + n
  /\ p' = 0 /\ pc' = "parse"
  /\ UNCHANGED <<sent, m_prev_remain, handled>>

\* packet_size: also when only one byte of it has come.
packet_size == Value[buf[p + 1]] + Base * Value[buf[p + 2]]

\* Mutant: a packet that ends with the fragment has to wait.
CompleteIfMore == remain_data > 0 /\ packet_size < remain_data

Complete == remain_data > 0 /\ packet_size <= remain_data

ProcessPacket ==
  /\ pc = "parse" /\ Complete
  /\ handled' = Append(handled, [k \in 1 .. packet_size |-> buf[p + k]])
  /\ p' = p + packet_size
  /\ remain_data' = remain_data - packet_size
  /\ UNCHANGED <<sent, received, buf, m_prev_remain, pc>>

\* The rest is moved to the front.  (memcpy between overlapping ranges is
\* undefined in C; the x64 runtime copies as memmove does.)
Rearm ==
  /\ pc = "parse" /\ ~Complete
  /\ m_prev_remain' = remain_data
  /\ buf' = [i \in DOMAIN buf |-> IF i <= remain_data THEN buf[p + i] ELSE buf[i]]
  /\ pc' = "recv"
  /\ UNCHANGED <<sent, received, p, remain_data, handled>>

Next ==
  \/ Send
  \/ \E n \in 1 .. BUF_SIZE - m_prev_remain : Receive(n)
  \/ ProcessPacket
  \/ Rearm

Spec == Init /\ [][Next]_vars

\* TCP delivers and the worker works; clients send as they like.
Fairness ==
  /\ WF_vars(\E n \in 1 .. BUF_SIZE - m_prev_remain : Receive(n))
  /\ WF_vars(ProcessPacket \/ Rearm)
-----------------------------------------------------------------------------
TypeOK ==
  /\ sent \in 0 .. Packets /\ received \in Nat
  /\ buf \in [1 .. BUF_SIZE + 1 -> Bytes]
  /\ m_prev_remain \in 0 .. BUF_SIZE /\ remain_data \in 0 .. BUF_SIZE
  /\ p \in 0 .. BUF_SIZE /\ p + remain_data <= BUF_SIZE
  /\ pc \in {"recv", "parse"}
  /\ handled \in Seq(Seq(Bytes))

\* A RECV into no room would complete with 0 bytes, which the worker takes for
\* the end of the connection.
RecvHasRoom == pc = "recv" => m_prev_remain < BUF_SIZE

\* A packet that has arrived completely never waits for the next fragment.
NothingWaits ==
  pc = "recv" => Len(handled) = Packets \/ received < Start[Len(handled) + 1]

Fifo == INSTANCE PacketFifo

\* process_packet gets exactly the packets that were sent, in order, although a
\* fragment may end in the middle of a packet or of its size field.
ImplementsFifo == Fifo!Safety

\* ... and gets every one of them.
AllHandled == Fifo!Liveness
=============================================================================
