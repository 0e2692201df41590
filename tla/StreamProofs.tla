---------------------------- MODULE StreamProofs ----------------------------
(***************************************************************************)
(* Both ends of a connection implement PacketFifo, for any stream of       *)
(* packets that fit into the buffer and are shorter than 256 bytes: the    *)
(* server (ServerStream) and, with its loop of another kind, the client    *)
(* and the load generator (ClientStream, here under the name Client).  The *)
(* two share the stream, so the constants are declared once.               *)
(*                                                                         *)
(* The invariant behind both: what is kept between two fragments is the    *)
(* part of the stream that follows the packets already handled.            *)
(***************************************************************************)
EXTENDS ServerStream, SequenceTheorems, TLAPS

CONSTANT Stale
VARIABLES io_byte, in_packet_size, saved_packet_size, packet_buffer

Client == INSTANCE ClientStream

-----------------------------------------------------------------------------
(* The server: what it keeps is at the pointer while the loop runs and at  *)
(* the front of the buffer while a RECV is outstanding.                    *)

Kept == IF pc = "recv" THEN m_prev_remain ELSE remain_data
Offset == IF pc = "recv" THEN 0 ELSE p

Aligned ==
  /\ Len(handled) \in 0 .. Packets
  /\ received = Start[Len(handled)] + Kept
  /\ received <= Start[sent]
  /\ \A i \in 1 .. Kept : buf[Offset + i] = Start[Len(handled)] + i

Inv == TypeOK /\ Aligned /\ NothingWaits

LEMMA Constants ==
  /\ Packets \in Nat /\ Base \in Nat /\ BUF_SIZE \in Nat /\ BUF_SIZE > 0
  /\ \A i \in 0 .. Packets : Start[i] \in Nat
BY StreamAssumption

LEMMA Growing ==
  \A i, j \in 0 .. Packets : i < j => Start[i] + 3 <= Start[j]
BY StreamAssumption

\* Bytes that are kept belong to a packet that has been sent.
LEMMA NextPacket ==
  ASSUME TypeOK, Aligned, Kept > 0
  PROVE  /\ Len(handled) + 1 \in 1 .. sent
         /\ Len(handled) + 1 \in 1 .. Packets
         /\ Size(Len(handled) + 1) = Start[Len(handled) + 1] - Start[Len(handled)]
         /\ Size(Len(handled) + 1) >= 3
<1>. DEFINE h == Len(handled)
<1>1. /\ h \in 0 .. Packets /\ sent \in 0 .. Packets /\ Kept \in Nat
      /\ Start[h] \in Nat /\ Start[sent] \in Nat
      /\ Start[h] + Kept <= Start[sent]
  BY StreamAssumption DEF Aligned, TypeOK, Kept
<1>2. h < sent
  <2>1. CASE sent = h
    BY <1>1, <2>1
  <2>2. CASE sent < h
    <3>1. Start[sent] + 3 <= Start[h]
      BY <1>1, <2>2, Growing
    <3>2. Start[h] <= Start[h] + Kept
      BY <1>1
    <3>. QED BY SMTT(30), <1>1, <3>1, <3>2
  <2>. QED BY <1>1, <2>1, <2>2
<1>3. h + 1 \in 1 .. Packets /\ h \in 0 .. Packets /\ h + 1 \in 0 .. Packets
  BY <1>1, <1>2, Constants
<1>4. Start[h] + 3 <= Start[h + 1]
  BY <1>3, StreamAssumption
<1>5. Size(h + 1) = Start[h + 1] - Start[h] /\ Start[h + 1] \in Nat
  BY <1>3, Constants DEF Size
<1>6. h + 1 \in 1 .. sent
  BY <1>1, <1>2
<1>. QED
  BY <1>1, <1>3, <1>4, <1>5, <1>6

\* The loop never takes a fragment for a packet: what it finds complete is
\* complete and what it leaves is not, also when half of the size is stale.
LEMMA SizeIsRight ==
  ASSUME TypeOK, Aligned, pc = "parse", remain_data > 0
  PROVE  /\ packet_size \in Nat
         /\ Complete <=> Size(Len(handled) + 1) <= remain_data
         /\ Complete => packet_size = Size(Len(handled) + 1)
<1>. DEFINE h == Len(handled)
<1>1. Kept = remain_data /\ Offset = p /\ Kept > 0 /\ remain_data \in Nat /\ p \in Nat
  BY DEF Kept, Offset, TypeOK
<1>2. /\ h + 1 \in 1 .. Packets /\ Size(h + 1) >= 3 /\ (h + 1) - 1 = h
      /\ Size(h + 1) = Start[h + 1] - Start[h] /\ h \in Nat
  BY <1>1, NextPacket DEF Aligned
<1>3. /\ Value[Start[h] + 1] = Size(h + 1) /\ Value[Start[h] + 2] = 0
  BY <1>2, StreamAssumption
<1>4. /\ Start[h] \in Nat /\ Start[h + 1] \in Nat /\ Size(h + 1) \in Nat
  <2>1. h \in 0 .. Packets /\ h + 1 \in 0 .. Packets
    BY <1>2, Constants
  <2>. QED BY <1>2, <2>1, Constants
<1>5. buf[p + 1] = Start[h] + 1
  BY <1>1 DEF Aligned
<1>6. /\ Value[buf[p + 2]] \in Nat /\ Base \in Nat
  <2>1. p + 2 \in 1 .. BUF_SIZE + 1
    BY <1>1, StreamAssumption DEF TypeOK
  <2>2. buf[p + 2] \in Bytes
    BY <2>1 DEF TypeOK
  <2>. QED BY <2>2, StreamAssumption
<1>7. Base * Value[buf[p + 2]] \in Nat
  <2>. DEFINE v == Value[buf[p + 2]]
  <2>1. v \in Nat /\ Base \in Nat
    BY <1>6
  <2>. HIDE DEF v
  <2>2. Base * v \in Nat
    BY <2>1
  <2>. QED BY <2>2 DEF v
<1>8. packet_size = Size(h + 1) + Base * Value[buf[p + 2]]
  BY <1>3, <1>5 DEF packet_size
<1>9. CASE remain_data = 1
  <2>1. packet_size >= 3 /\ packet_size \in Nat
    BY <1>2, <1>4, <1>7, <1>8
  <2>2. ~Complete
    BY <1>9, <2>1 DEF Complete
  <2>. QED BY <1>2, <1>4, <1>9, <2>1, <2>2
<1>10. CASE remain_data >= 2
  <2>1. buf[p + 2] = Start[h] + 2
    BY <1>1, <1>10 DEF Aligned
  <2>2. packet_size = Size(h + 1)
    BY <1>3, <1>4, <1>6, <1>8, <2>1
  <2>. QED BY <1>1, <1>4, <2>2 DEF Complete
<1>. QED BY <1>1, <1>9, <1>10
-----------------------------------------------------------------------------
\* The inductive invariant.
LEMMA Initially == Init => Inv
<1>. SUFFICES ASSUME Init
              PROVE  Inv
  OBVIOUS
<1>1. 0 \in Bytes
  BY StreamAssumption DEF Bytes
<1>2. TypeOK
  BY <1>1, StreamAssumption DEF Init, TypeOK
<1>3. Aligned
  BY StreamAssumption DEF Init, Aligned, Kept, Offset
<1>4. NothingWaits
  <2>1. CASE Packets = 0
    BY <2>1 DEF Init, NothingWaits
  <2>2. CASE Packets > 0
    <3>1. Start[0] + 3 <= Start[1] /\ Start[1] \in Nat
      BY <2>2, StreamAssumption
    <3>. QED BY <3>1, StreamAssumption DEF Init, NothingWaits
  <2>. QED BY <2>1, <2>2, StreamAssumption
<1>. QED BY <1>2, <1>3, <1>4 DEF Inv

LEMMA SendStep ==
  ASSUME Inv, Send
  PROVE  Inv'
<1>1. /\ sent \in 0 .. Packets /\ sent + 1 \in 0 .. Packets /\ sent' = sent + 1
      /\ UNCHANGED <<received, buf, m_prev_remain, pc, p, remain_data, handled>>
  BY StreamAssumption DEF Inv, TypeOK, Send
<1>2. Start[sent] + 3 <= Start[sent + 1] /\ Start[sent] \in Nat /\ Start[sent + 1] \in Nat
  BY <1>1, StreamAssumption
<1>3. TypeOK'
  BY <1>1 DEF Inv, TypeOK
<1>4. Aligned'
  BY <1>1, <1>2 DEF Inv, TypeOK, Aligned, Kept, Offset
<1>. QED BY <1>1, <1>3, <1>4 DEF Inv, NothingWaits

LEMMA ReceiveStep ==
  ASSUME Inv, NEW n \in 1 .. BUF_SIZE - m_prev_remain, Receive(n)
  PROVE  Inv'
<1>. DEFINE h == Len(handled)
<1>1. /\ pc = "recv" /\ pc' = "parse" /\ n <= Start[sent] - received
      /\ received' = received + n /\ remain_data' = m_prev_remain + n /\ p' = 0
      /\ UNCHANGED <<sent, m_prev_remain, handled>>
      /\ m_prev_remain \in 0 .. BUF_SIZE /\ n \in Nat /\ received \in Nat /\ sent \in 0 .. Packets
      /\ m_prev_remain + n <= BUF_SIZE
  BY StreamAssumption DEF Inv, TypeOK, Receive
<1>2. /\ h \in 0 .. Packets /\ received = Start[h] + m_prev_remain /\ received <= Start[sent]
      /\ \A i \in 1 .. m_prev_remain : buf[i] = Start[h] + i
      /\ Start[h] \in Nat /\ Start[sent] \in Nat /\ Start[Packets] \in Nat
  BY <1>1, StreamAssumption DEF Inv, Aligned, Kept, Offset
<1>3. /\ buf' = [i \in 1 .. BUF_SIZE + 1 |->
                   IF i \in m_prev_remain + 1 .. m_prev_remain + n
                   THEN received + (i - m_prev_remain) ELSE buf[i]]
      /\ buf \in [1 .. BUF_SIZE + 1 -> Bytes]
  BY DEF Inv, TypeOK, Receive
<1>4. Start[sent] <= Start[Packets]
  <2>1. CASE sent = Packets
    BY <1>2, <2>1
  <2>2. CASE sent < Packets
    <3>1. sent \in 0 .. Packets /\ Packets \in 0 .. Packets
      BY <1>1, Constants
    <3>2. Start[sent] + 3 <= Start[Packets]
      BY <2>2, <3>1, Growing
    <3>. QED BY SMTT(30), <1>2, <3>2
  <2>. QED BY <1>1, <2>1, <2>2, Constants
<1>5. \A i \in m_prev_remain + 1 .. m_prev_remain + n : received + (i - m_prev_remain) \in Bytes
  <2>. TAKE i \in m_prev_remain + 1 .. m_prev_remain + n
  <2>1. received + (i - m_prev_remain) \in 0 .. received + n
    BY <1>1
  <2>2. received + n <= Start[Packets]
    <3>1. n <= Start[sent] - received /\ n \in Nat /\ received \in Nat
      BY <1>1
    <3>2. Start[sent] \in Nat /\ Start[Packets] \in Nat
      BY <1>2
    <3>. QED BY <3>1, <3>2, <1>4
  <2>3. received \in Nat /\ n \in Nat /\ Start[Packets] \in Nat
    BY <1>1, <1>2
  <2>4. received + (i - m_prev_remain) \in 0 .. Start[Packets]
    BY <2>1, <2>2, <2>3
  <2>. QED BY <2>4 DEF Bytes
<1>6. buf' \in [1 .. BUF_SIZE + 1 -> Bytes]
  BY <1>3, <1>5
<1>7. TypeOK'
  BY <1>1, <1>6, StreamAssumption DEF Inv, TypeOK
<1>8. \A i \in 1 .. m_prev_remain + n : buf'[i] = Start[h] + i
  <2>. TAKE i \in 1 .. m_prev_remain + n
  <2>1. i \in 1 .. BUF_SIZE + 1
    BY <1>1, StreamAssumption
  <2>2. CASE i \in 1 .. m_prev_remain
    BY <1>1, <1>2, <1>3, <2>1, <2>2
  <2>3. CASE i \in m_prev_remain + 1 .. m_prev_remain + n
    BY SMTT(30), <1>1, <1>2, <1>3, <2>1, <2>3
  <2>. QED BY <1>1, <2>2, <2>3
<1>9. Aligned'
  <2>1. /\ Kept' = m_prev_remain + n /\ Offset' = 0 /\ Len(handled') = h
    BY <1>1 DEF Kept, Offset
  <2>2. received' = Start[h] + (m_prev_remain + n) /\ received' <= Start[sent']
    <3>1. received' = received + n /\ received = Start[h] + m_prev_remain /\ sent' = sent
      BY <1>1, <1>2
    <3>2. /\ n \in Nat /\ m_prev_remain \in Nat /\ received \in Nat
          /\ Start[h] \in Nat /\ Start[sent] \in Nat /\ n <= Start[sent] - received
      BY <1>1, <1>2, Constants
    <3>. QED BY SMTT(30), <3>1, <3>2
  <2>3. \A i \in 1 .. m_prev_remain + n : buf'[0 + i] = Start[h] + i
    BY <1>1, <1>8
  <2>. QED BY <1>2, <2>1, <2>2, <2>3 DEF Aligned
<1>. QED BY <1>1, <1>7, <1>9 DEF Inv, NothingWaits

\* The step that hands a packet on, and what the abstract queue sees of it.
LEMMA ProcessStep ==
  ASSUME Inv, ProcessPacket
  PROVE  Inv' /\ Fifo!Handle
<1>. DEFINE h == Len(handled)
<1>1. /\ pc = "parse" /\ Complete /\ remain_data > 0
      /\ p' = p + packet_size /\ remain_data' = remain_data - packet_size
      /\ handled' = Append(handled, [k \in 1 .. packet_size |-> buf[p + k]])
      /\ UNCHANGED <<sent, received, buf, m_prev_remain, pc>>
  BY DEF ProcessPacket, Complete
<1>2. /\ TypeOK /\ Aligned /\ Kept = remain_data /\ Offset = p
      /\ remain_data \in Nat /\ p \in Nat /\ BUF_SIZE \in Nat /\ p + remain_data <= BUF_SIZE
      /\ buf \in [1 .. BUF_SIZE + 1 -> Bytes] /\ handled \in Seq(Seq(Bytes))
  BY <1>1, StreamAssumption DEF Inv, Kept, Offset, TypeOK
<1>3. /\ h + 1 \in 1 .. sent /\ h + 1 \in 1 .. Packets /\ Size(h + 1) >= 3
      /\ Size(h + 1) = Start[h + 1] - Start[h]
  BY <1>1, <1>2, NextPacket
<1>4. packet_size = Size(h + 1) /\ Size(h + 1) <= remain_data /\ packet_size \in Nat
  BY <1>1, <1>2, SizeIsRight
<1>5. /\ h \in 0 .. Packets /\ Start[h] \in Nat /\ Start[h + 1] \in Nat
      /\ received = Start[h] + remain_data /\ received <= Start[sent]
      /\ \A i \in 1 .. remain_data : buf[p + i] = Start[h] + i
  BY <1>2, <1>3, StreamAssumption DEF Aligned
<1>. DEFINE window == [k \in 1 .. packet_size |-> buf[p + k]]
<1>6. window = Packet[h + 1]
  <2>1. Packet[h + 1] = [k \in 1 .. Size(h + 1) |-> Start[(h + 1) - 1] + k]
    BY <1>3 DEF Packet
  <2>2. (h + 1) - 1 = h
    BY <1>5
  <2>3. \A k \in 1 .. packet_size : buf[p + k] = Start[h] + k
    BY <1>2, <1>4, <1>5
  <2>. QED BY <1>4, <2>1, <2>2, <2>3
<1>7. window \in Seq(Bytes)
  <2>1. \A k \in 1 .. packet_size : buf[p + k] \in Bytes
    BY <1>2, <1>4
  <2>. QED BY <1>4, <2>1
<1>. HIDE DEF window
<1>8. handled' = Append(handled, window)
  BY <1>1 DEF window
<1>9. Len(handled') = h + 1 /\ handled' \in Seq(Seq(Bytes))
  BY <1>2, <1>7, <1>8
<1>14. p' = p + packet_size /\ remain_data' = remain_data - packet_size
  BY <1>1
<1>10. TypeOK'
  <2>1. /\ remain_data' \in 0 .. BUF_SIZE /\ p' \in 0 .. BUF_SIZE
        /\ p' + remain_data' <= BUF_SIZE
    <3>1. /\ remain_data \in Nat /\ p \in Nat /\ BUF_SIZE \in Nat /\ p + remain_data <= BUF_SIZE
          /\ packet_size \in Nat /\ packet_size <= remain_data
      BY <1>2, <1>4
    <3>. HIDE DEF packet_size
    <3>. QED BY <3>1, <1>14
  <2>. QED BY <1>1, <1>2, <1>9, <2>1 DEF TypeOK
<1>11. \A i \in 1 .. remain_data' : buf'[p' + i] = Start[h + 1] + i
  <2>. TAKE i \in 1 .. remain_data'
  <2>1. packet_size + i \in 1 .. remain_data /\ i \in Nat
    BY <1>1, <1>2, <1>4
  <2>2. buf[p + (packet_size + i)] = Start[h] + (packet_size + i)
    BY <1>5, <2>1
  <2>3. p' + i = p + (packet_size + i)
    BY <1>2, <1>4, <1>14, <2>1
  <2>4. Start[h] + (packet_size + i) = Start[h + 1] + i
    BY SMTT(30), <1>3, <1>4, <1>5, <2>1
  <2>. QED BY <1>1, <2>2, <2>3, <2>4
<1>12. Aligned'
  <2>1. Kept' = remain_data' /\ Offset' = p'
    BY <1>1 DEF Kept, Offset
  <2>2. received = Start[h + 1] + remain_data'
    <3>1. /\ packet_size = Start[h + 1] - Start[h] /\ packet_size \in Nat
          /\ Start[h] \in Nat /\ Start[h + 1] \in Nat
      BY <1>3, <1>4, <1>5
    <3>2. remain_data \in Nat /\ received = Start[h] + remain_data
      BY <1>2, <1>5
    <3>3. remain_data' = remain_data - packet_size
      BY <1>14
    <3>. HIDE DEF packet_size
    <3>. QED BY SMTT(30), <3>1, <3>2, <3>3
  <2>3. h + 1 \in 0 .. Packets
    BY <1>3, <1>5, Constants
  <2>. QED BY <1>1, <1>5, <1>9, <1>11, <2>1, <2>2, <2>3 DEF Aligned
<1>13. Fifo!Handle
  <2>1. h < sent
    BY <1>2, <1>3, <1>5 DEF TypeOK
  <2>2. handled' = Append(handled, Packet[h + 1])
    BY <1>6, <1>8
  <2>. QED BY <1>1, <2>1, <2>2 DEF Fifo!Handle
<1>. QED BY <1>1, <1>10, <1>12, <1>13 DEF Inv, NothingWaits

LEMMA RearmStep ==
  ASSUME Inv, Rearm
  PROVE  Inv'
<1>. DEFINE h == Len(handled)
<1>1. /\ pc = "parse" /\ ~Complete /\ pc' = "recv" /\ m_prev_remain' = remain_data
      /\ UNCHANGED <<sent, received, p, remain_data, handled>>
  BY DEF Rearm
<1>2. /\ TypeOK /\ Aligned /\ Kept = remain_data /\ Offset = p
      /\ remain_data \in 0 .. BUF_SIZE /\ p \in Nat /\ BUF_SIZE \in Nat
      /\ p + remain_data <= BUF_SIZE
      /\ buf \in [1 .. BUF_SIZE + 1 -> Bytes]
      /\ buf' = [i \in 1 .. BUF_SIZE + 1 |->
                   IF i <= remain_data THEN buf[p + i] ELSE buf[i]]
  BY <1>1, StreamAssumption DEF Inv, Kept, Offset, TypeOK, Rearm
<1>3. /\ h \in 0 .. Packets /\ Start[h] \in Nat
      /\ received = Start[h] + remain_data /\ received <= Start[sent]
      /\ \A i \in 1 .. remain_data : buf[p + i] = Start[h] + i
  BY <1>2, StreamAssumption DEF Aligned
<1>4. buf' \in [1 .. BUF_SIZE + 1 -> Bytes]
  <2>1. \A i \in 1 .. BUF_SIZE + 1 : i <= remain_data => p + i \in 1 .. BUF_SIZE + 1
    BY <1>2
  <2>. QED BY <1>2, <2>1
<1>5. TypeOK'
  BY <1>1, <1>2, <1>4 DEF TypeOK
<1>6. Aligned'
  <2>1. \A i \in 1 .. remain_data : buf'[i] = Start[h] + i
    BY <1>2, <1>3
  <2>. QED BY <1>1, <1>2, <1>3, <2>1 DEF Aligned, Kept, Offset
<1>7. NothingWaits'
  <2>1. CASE remain_data > 0
    <3>1. Size(h + 1) > remain_data
      <4>1. ~(Size(h + 1) <= remain_data)
        BY <1>1, <1>2, <2>1, SizeIsRight
      <4>2. Size(h + 1) \in Int
        <5>1. /\ h + 1 \in 1 .. Packets /\ Size(h + 1) = Start[h + 1] - Start[h]
          BY <1>2, <2>1, NextPacket
        <5>2. h + 1 \in 0 .. Packets
          BY <5>1, Constants
        <5>. QED BY <1>3, <5>1, <5>2, Constants
      <4>. QED BY <1>2, <4>1, <4>2
    <3>2. /\ h + 1 \in 1 .. Packets /\ Size(h + 1) = Start[h + 1] - Start[h]
          /\ Start[h + 1] \in Nat
      BY <1>2, <2>1, NextPacket, StreamAssumption
    <3>. QED BY <1>1, <1>2, <1>3, <3>1, <3>2 DEF NothingWaits
  <2>2. CASE remain_data = 0 /\ h # Packets
    <3>1. h + 1 \in 0 .. Packets /\ h < h + 1
      BY <1>3, <2>2, Constants
    <3>2. Start[h] + 3 <= Start[h + 1] /\ Start[h + 1] \in Nat
      BY <1>3, <3>1, StreamAssumption
    <3>. QED BY <1>1, <1>3, <2>2, <3>2 DEF NothingWaits
  <2>3. CASE h = Packets
    BY <1>1, <2>3 DEF NothingWaits
  <2>. QED BY <1>2, <2>1, <2>2, <2>3
<1>. QED BY <1>5, <1>6, <1>7 DEF Inv

LEMMA Invariance == Spec => []Inv
<1>1. Inv /\ [Next]_vars => Inv'
  <2>. SUFFICES ASSUME Inv, [Next]_vars
                PROVE  Inv'
    OBVIOUS
  <2>1. CASE UNCHANGED vars
    BY <2>1 DEF vars, Inv, TypeOK, Aligned, Kept, Offset, NothingWaits
  <2>. QED
    BY <2>1, SendStep, ReceiveStep, ProcessStep, RearmStep DEF Next
<1>. QED
  BY <1>1, Initially, PTL DEF Spec
-----------------------------------------------------------------------------
\* Every variable keeps its type; the pointer and the rest stay in the buffer.
THEOREM TypeCorrect == Spec => []TypeOK
BY Invariance, PTL DEF Inv

\* A worker that arms a RECV has handled every packet that is complete.
THEOREM NoPacketWaits == Spec => []NothingWaits
BY Invariance, PTL DEF Inv

\* The server never receives into no room, which would look like the end.
THEOREM RoomToReceive == Spec => []RecvHasRoom
<1>1. Inv => RecvHasRoom
  <2>. SUFFICES ASSUME Inv, pc = "recv", m_prev_remain > 0
                PROVE  m_prev_remain < BUF_SIZE
    BY StreamAssumption DEF Inv, TypeOK, RecvHasRoom
  <2>. DEFINE h == Len(handled)
  <2>1. /\ Kept = m_prev_remain /\ TypeOK /\ Aligned /\ m_prev_remain \in Nat
        /\ received = Start[h] + m_prev_remain /\ h \in 0 .. Packets
    BY DEF Inv, Kept, TypeOK, Aligned
  <2>2. /\ h + 1 \in 1 .. Packets /\ Size(h + 1) = Start[h + 1] - Start[h]
        /\ Size(h + 1) <= BUF_SIZE /\ Start[h] \in Nat /\ Start[h + 1] \in Nat
    BY <2>1, NextPacket, StreamAssumption
  <2>3. received < Start[h + 1]
    BY <2>1, <2>2, StreamAssumption DEF Inv, NothingWaits
  <2>4. m_prev_remain < Size(h + 1)
    BY <2>1, <2>2, <2>3
  <2>. QED BY <2>1, <2>2, <2>4, Constants
<1>. QED
  BY <1>1, Invariance, PTL

\* The reassembly loop implements the queue of packets: each one once, in the
\* order they were sent, whatever the fragments.
THEOREM StreamIsFifo == Spec => ImplementsFifo
<1>1. Init => Fifo!Init
  BY DEF Init, Fifo!Init
<1>2. Inv /\ [Next]_vars => [Fifo!Next]_<<sent, handled>>
  <2>. SUFFICES ASSUME Inv, [Next]_vars
                PROVE  [Fifo!Next]_<<sent, handled>>
    OBVIOUS
  <2>1. ASSUME Send PROVE Fifo!Send
    BY <2>1 DEF Send, Fifo!Send
  <2>2. ASSUME NEW n \in 1 .. BUF_SIZE - m_prev_remain, Receive(n)
        PROVE  UNCHANGED <<sent, handled>>
    BY <2>2 DEF Receive
  <2>3. ASSUME ProcessPacket PROVE Fifo!Handle
    BY <2>3, ProcessStep
  <2>4. ASSUME Rearm PROVE UNCHANGED <<sent, handled>>
    BY <2>4 DEF Rearm
  <2>5. ASSUME UNCHANGED vars PROVE UNCHANGED <<sent, handled>>
    BY <2>5 DEF vars
  <2>. QED
    BY <2>1, <2>2, <2>3, <2>4, <2>5 DEF Next, Fifo!Next
<1>. QED
  BY <1>1, <1>2, Invariance, PTL DEF Spec, ImplementsFifo, Fifo!Safety

-----------------------------------------------------------------------------
(* The client and the load generator.                                      *)

\* A byte is less than 256.
StaleBytes == Stale \subseteq 0 .. Base - 1

\* The packet the loop is in the middle of, or comes to next.
Current == Len(handled) + 1

ClientTypes ==
  /\ Client!TypeOK
  /\ handled \in Seq(Seq(Nat)) /\ Len(handled) \in 0 .. Packets

\* Everything that has arrived is handled, saved or still to be looked at.
ClientPlace ==
  /\ received <= Start[sent]
  /\ received = Start[Len(handled)] + saved_packet_size + io_byte
  /\ pc = "recv" => io_byte = 0
  /\ pc = "copy" => io_byte > 0

\* What is saved is the beginning of the current packet.
ClientSaved ==
  /\ \A i \in 1 .. saved_packet_size : packet_buffer[i] = Start[Len(handled)] + i
  /\ saved_packet_size > 0 => Current \in 1 .. Packets /\ saved_packet_size < Size(Current)

\* The size is known while a packet is copied and once a byte of it is saved.
ClientSize ==
  /\ pc = "copy" => in_packet_size = Size(Current)
  /\ pc \in {"recv", "decode"} =>
       in_packet_size = IF saved_packet_size = 0 THEN 0 ELSE Size(Current)

ClientInv == ClientTypes /\ ClientPlace /\ ClientSaved /\ ClientSize

LEMMA SameSizes == \A i \in 1 .. Packets : Client!Size(i) = Size(i) /\ Client!Packet[i] = Packet[i]
BY DEF Client!Size, Size, Client!Packet, Packet

LEMMA StartGrows ==
  ASSUME NEW i \in 0 .. Packets, NEW j \in 0 .. Packets
  PROVE  /\ Start[i] \in Nat /\ Start[j] \in Nat
         /\ i <= j => Start[i] <= Start[j]
         /\ Start[i] < Start[j] => i < j
<1>1. Start[i] \in Nat /\ Start[j] \in Nat
  BY Constants
<1>2. ASSUME i <= j PROVE Start[i] <= Start[j]
  BY <1>1, <1>2, Growing
<1>3. ASSUME Start[i] < Start[j], j <= i PROVE FALSE
  BY <1>1, <1>3, Growing
<1>. QED BY <1>1, <1>2, <1>3, Constants

\* Bytes behind what is saved belong to the current packet, or to it and later ones.
LEMMA CurrentIsSent ==
  ASSUME ClientTypes, ClientPlace, saved_packet_size + io_byte > 0
  PROVE  /\ Current \in 1 .. sent /\ Current \in 1 .. Packets
         /\ Start[Current - 1] = Start[Len(handled)]
         /\ Size(Current) = Start[Current] - Start[Len(handled)] /\ Size(Current) >= 3
         /\ Size(Current) \in 1 .. BUF_SIZE /\ Start[Current] \in Nat
<1>. DEFINE h == Len(handled)
<1>1. /\ h \in 0 .. Packets /\ sent \in 0 .. Packets
      /\ saved_packet_size \in Nat /\ io_byte \in Nat
  BY Constants DEF ClientTypes, Client!TypeOK
<1>2. Start[h] \in Nat /\ Start[sent] \in Nat
  BY <1>1, StartGrows
<1>3. Start[h] < Start[sent]
  BY <1>1, <1>2 DEF ClientPlace
<1>4. h < sent
  BY <1>1, <1>3, StartGrows
<1>5. h + 1 \in 1 .. sent /\ h + 1 \in 1 .. Packets /\ h + 1 \in 0 .. Packets /\ (h + 1) - 1 = h
  BY <1>1, <1>4, Constants
<1>6. Start[h] + 3 <= Start[h + 1] /\ Start[h + 1] \in Nat
  BY <1>1, <1>5, Growing, Constants
<1>7. Size(h + 1) <= BUF_SIZE /\ Size(h + 1) = Start[h + 1] - Start[h]
  BY <1>5, StreamAssumption DEF Size
<1>. QED BY <1>2, <1>5, <1>6, <1>7, Constants DEF Current

\* At the start of a packet the size that is decoded is that packet's.
LEMMA DecodedSize ==
  ASSUME ClientTypes, ClientPlace, saved_packet_size = 0, io_byte > 0
  PROVE  Client!NextPacket = Current
<1>. DEFINE h == Len(handled)
<1>1. /\ h \in 0 .. Packets /\ h + 1 \in 1 .. Packets /\ Current = h + 1
      /\ Start[(h + 1) - 1] = Start[h] /\ Start[h] \in Nat
  BY CurrentIsSent, StartGrows DEF ClientTypes, Current, Client!TypeOK
<1>2. received - io_byte + 1 = Start[h] + 1
  BY <1>1, Constants DEF ClientPlace, ClientTypes, Client!TypeOK
<1>3. ASSUME NEW i \in 1 .. Packets, Start[i - 1] + 1 = Start[h] + 1
      PROVE  i = h + 1
  <2>1. i - 1 \in 0 .. Packets /\ h \in 0 .. Packets
    BY <1>1, Constants
  <2>2. Start[i - 1] \in Nat
    BY <2>1, Constants
  <2>3. Start[i - 1] = Start[h]
    BY <1>1, <1>3, <2>2
  <2>4. ~(i - 1 < h) /\ ~(h < i - 1)
    BY <1>1, <2>1, <2>2, <2>3, Growing
  <2>. QED BY <1>1, <2>1, <2>4
<1>4. Start[(h + 1) - 1] + 1 = Start[h] + 1
  BY <1>1
<1>5. (CHOOSE i \in 1 .. Packets : Start[i - 1] + 1 = Start[h] + 1) = h + 1
  BY <1>1, <1>3, <1>4
<1>. QED BY <1>1, <1>2, <1>5 DEF Client!NextPacket, Client!ptr

LEMMA ClientInitially ==
  ASSUME Client!Init
  PROVE  ClientInv
<1>1. Start[0] = 0 /\ 0 \in 0 .. Packets /\ Start[Packets] \in Nat
  BY StreamAssumption
<1>2. ClientTypes
  BY <1>1, Constants DEF Client!Init, ClientTypes, Client!TypeOK
<1>. QED
  BY <1>1, <1>2, Constants DEF Client!Init, ClientInv, ClientPlace, ClientSaved, ClientSize

LEMMA ClientSendStep ==
  ASSUME ClientInv, Client!Send
  PROVE  ClientInv'
<1>1. /\ sent \in 0 .. Packets /\ sent + 1 \in 0 .. Packets /\ sent' = sent + 1
      /\ UNCHANGED <<received, io_byte, in_packet_size, saved_packet_size,
                     packet_buffer, handled, pc>>
  BY Constants DEF ClientInv, ClientTypes, Client!TypeOK, Client!Send
<1>2. Start[sent] <= Start[sent + 1] /\ Start[sent] \in Nat /\ Start[sent + 1] \in Nat
  BY <1>1, StartGrows
<1>3. ClientTypes'
  BY <1>1 DEF ClientInv, ClientTypes, Client!TypeOK
<1>4. ClientPlace'
  <2>1. received \in Nat /\ received <= Start[sent]
    BY DEF ClientInv, ClientTypes, Client!TypeOK, ClientPlace
  <2>2. received <= Start[sent']
    BY <1>1, <1>2, <2>1
  <2>. QED BY <1>1, <2>2 DEF ClientInv, ClientPlace
<1>5. ClientSaved' /\ ClientSize'
  BY <1>1 DEF ClientInv, ClientSaved, ClientSize, Current
<1>. QED BY <1>3, <1>4, <1>5 DEF ClientInv

LEMMA ClientReceiveStep ==
  ASSUME ClientInv, NEW n \in 1 .. BUF_SIZE, Client!Receive(n)
  PROVE  ClientInv'
<1>1. /\ pc = "recv" /\ pc' = "decode" /\ n <= Start[sent] - received
      /\ received' = received + n /\ io_byte' = n /\ io_byte = 0
      /\ UNCHANGED <<sent, in_packet_size, saved_packet_size, packet_buffer, handled>>
  BY DEF Client!Receive, ClientInv, ClientPlace
<1>2. /\ received \in Nat /\ sent \in 0 .. Packets /\ saved_packet_size \in Nat
      /\ Len(handled) \in 0 .. Packets /\ Start[sent] \in Nat /\ Start[Len(handled)] \in Nat
      /\ received = Start[Len(handled)] + saved_packet_size
  BY <1>1, Constants DEF ClientInv, ClientTypes, Client!TypeOK, ClientPlace
<1>3. ClientTypes'
  <2>1. received' \in Nat /\ io_byte' \in 0 .. BUF_SIZE /\ pc' = "decode"
    BY <1>1, <1>2, Constants
  <2>. QED BY <1>1, <2>1 DEF ClientInv, ClientTypes, Client!TypeOK
<1>4. ClientPlace'
  BY <1>1, <1>2 DEF ClientPlace
<1>5. ClientSaved' /\ ClientSize'
  BY <1>1 DEF ClientInv, ClientSaved, ClientSize, Current
<1>. QED BY <1>3, <1>4, <1>5 DEF ClientInv

LEMMA ClientDoneStep ==
  ASSUME ClientInv, Client!Done
  PROVE  ClientInv'
<1>1. /\ pc = "decode" /\ pc' = "recv" /\ io_byte = 0
      /\ UNCHANGED <<sent, received, io_byte, in_packet_size, saved_packet_size,
                     packet_buffer, handled>>
  BY DEF Client!Done
<1>. QED
  BY <1>1 DEF ClientInv, ClientTypes, Client!TypeOK, ClientPlace, ClientSaved, ClientSize, Current

LEMMA ClientDecodeStep ==
  ASSUME ClientInv, Client!Decode
  PROVE  ClientInv'
<1>1. /\ pc = "decode" /\ pc' = "copy" /\ io_byte > 0
      /\ in_packet_size' = IF in_packet_size = 0 THEN Client!Size(Client!NextPacket) ELSE in_packet_size
      /\ UNCHANGED <<sent, received, io_byte, saved_packet_size, packet_buffer, handled>>
  BY DEF Client!Decode
<1>2. saved_packet_size \in Nat /\ io_byte \in Nat
  BY Constants DEF ClientInv, ClientTypes, Client!TypeOK
<1>3. /\ Current \in 1 .. Packets /\ Size(Current) \in Nat /\ Size(Current) >= 3
      /\ Client!Size(Current) = Size(Current)
  BY <1>1, <1>2, CurrentIsSent, SameSizes, Constants DEF ClientInv
<1>4. in_packet_size' = Size(Current)
  <2>1. CASE saved_packet_size = 0
    BY <1>1, <1>3, <2>1, DecodedSize DEF ClientInv, ClientSize
  <2>2. CASE saved_packet_size # 0
    BY <1>1, <1>3, <2>2 DEF ClientInv, ClientSize
  <2>. QED BY <2>1, <2>2
<1>5. ClientTypes'
  BY <1>1, <1>3, <1>4 DEF ClientInv, ClientTypes, Client!TypeOK
<1>. QED
  BY <1>1, <1>4, <1>5 DEF ClientInv, ClientPlace, ClientSaved, ClientSize, Current

LEMMA ClientDecodeHalfStep ==
  ASSUME StaleBytes, ClientInv, Client!DecodeHalf
  PROVE  ClientInv'
<1>1. /\ pc = "decode" /\ io_byte = 1 /\ in_packet_size = 0
      /\ UNCHANGED <<sent, received, io_byte, saved_packet_size, packet_buffer, handled>>
  BY DEF Client!DecodeHalf
<1>2. PICK high \in Stale :
        IF high = 0
        THEN in_packet_size' = Client!Size(Client!NextPacket) /\ pc' = "copy"
        ELSE in_packet_size' = Client!Size(Client!NextPacket) + Base * high /\ pc' = "lost"
  BY DEF Client!DecodeHalf
<1>3. saved_packet_size \in Nat /\ io_byte \in Nat
  BY Constants DEF ClientInv, ClientTypes, Client!TypeOK
<1>4. /\ Current \in 1 .. Packets /\ Size(Current) \in Nat /\ Size(Current) >= 3
      /\ Client!Size(Current) = Size(Current)
  BY <1>1, <1>3, CurrentIsSent, SameSizes, Constants DEF ClientInv
<1>5. saved_packet_size = 0
  <2>1. ASSUME saved_packet_size > 0 PROVE FALSE
    BY <1>1, <1>4, <2>1 DEF ClientInv, ClientSize
  <2>. QED BY <1>3, <2>1
<1>6. Client!Size(Client!NextPacket) = Size(Current)
  BY <1>1, <1>4, <1>5, DecodedSize DEF ClientInv
<1>7. Base * high \in Nat
  BY Constants DEF StaleBytes
<1>8. /\ in_packet_size' \in Nat /\ pc' \in {"copy", "lost"}
      /\ pc' = "copy" => in_packet_size' = Size(Current)
  BY <1>2, <1>4, <1>6, <1>7
<1>9. ClientTypes'
  BY <1>1, <1>8 DEF ClientInv, ClientTypes, Client!TypeOK
<1>. QED
  BY <1>1, <1>8, <1>9 DEF ClientInv, ClientPlace, ClientSaved, ClientSize, Current

\* What memcpy appends to the saved bytes are the next bytes of the current packet.
LEMMA Appended ==
  ASSUME ClientTypes, ClientPlace, ClientSaved, NEW n \in 1 .. io_byte,
         saved_packet_size + n <= BUF_SIZE
  PROVE  /\ Client!Copied(n) \in [1 .. BUF_SIZE -> 0 .. Start[Packets]]
         /\ \A i \in 1 .. saved_packet_size + n : Client!Copied(n)[i] = Start[Len(handled)] + i
<1>. DEFINE h == Len(handled)
           new == Client!Copied(n)
           s == saved_packet_size
<1>1. /\ h \in 0 .. Packets /\ sent \in 0 .. Packets /\ s \in 0 .. BUF_SIZE
      /\ io_byte \in 0 .. BUF_SIZE /\ received \in Nat /\ BUF_SIZE \in Nat /\ n \in 1 .. io_byte
      /\ packet_buffer \in [1 .. BUF_SIZE -> 0 .. Start[Packets]]
  BY Constants DEF ClientTypes, Client!TypeOK
<1>2. /\ Start[h] \in Nat /\ Start[sent] \in Nat /\ Start[Packets] \in Nat /\ Start[sent] <= Start[Packets]
  BY <1>1, StartGrows, Constants
<1>3. received = Start[h] + s + io_byte /\ received <= Start[sent]
  BY DEF ClientPlace
<1>4. Client!ptr = Start[h] + s + 1
  BY <1>1, <1>2, <1>3 DEF Client!ptr
<1>5. new = [i \in 1 .. BUF_SIZE |->
               IF i \in s + 1 .. s + n THEN Client!ptr + (i - s) - 1 ELSE packet_buffer[i]]
  BY DEF Client!Copied
<1>. HIDE DEF new, h, s
<1>6. ASSUME NEW i \in 1 .. BUF_SIZE, i \in s + 1 .. s + n
      PROVE  new[i] = Start[h] + i /\ new[i] \in 0 .. Start[Packets]
  <2>1. new[i] = Client!ptr + (i - s) - 1
    BY <1>5, <1>6
  <2>2. new[i] = Start[h] + i
    BY <1>1, <1>2, <1>4, <2>1
  <2>3. Start[h] + i <= received
    BY SMTT(30), <1>1, <1>2, <1>3, <1>6
  <2>4. received <= Start[Packets]
    BY <1>1, <1>2, <1>3
  <2>5. Start[h] + i \in 0 .. Start[Packets]
    BY <1>1, <1>2, <2>3, <2>4
  <2>. QED BY <2>2, <2>5
<1>7. ASSUME NEW i \in 1 .. BUF_SIZE, i \notin s + 1 .. s + n
      PROVE  new[i] = packet_buffer[i] /\ new[i] \in 0 .. Start[Packets]
  BY <1>1, <1>5, <1>7
<1>8. new \in [1 .. BUF_SIZE -> 0 .. Start[Packets]]
  BY <1>5, <1>6, <1>7
<1>9. ASSUME NEW i \in 1 .. s + n PROVE new[i] = Start[h] + i
  <2>1. i \in 1 .. BUF_SIZE
    BY <1>1 DEF s
  <2>2. CASE i \in s + 1 .. s + n
    BY <1>6, <2>1, <2>2
  <2>3. CASE i \in 1 .. s
    <3>1. packet_buffer[i] = Start[h] + i
      BY <2>3 DEF ClientSaved, s, h
    <3>2. i \notin s + 1 .. s + n
      BY <1>1, <2>3
    <3>. QED BY <1>7, <2>1, <3>1, <3>2
  <2>. QED BY <1>1, <2>2, <2>3
<1>. QED BY <1>8, <1>9 DEF new, s, h

LEMMA ClientSaveStep ==
  ASSUME ClientInv, Client!SaveFragment
  PROVE  ClientInv'
<1>1. /\ pc = "copy" /\ ~Client!Complete /\ pc' = "decode" /\ io_byte' = 0
      /\ packet_buffer' = Client!Copied(io_byte)
      /\ saved_packet_size' = saved_packet_size + io_byte
      /\ UNCHANGED <<sent, received, in_packet_size, handled>>
  BY DEF Client!SaveFragment
<1>2. /\ saved_packet_size \in Nat /\ io_byte \in Nat /\ io_byte > 0 /\ BUF_SIZE \in Nat
      /\ in_packet_size = Size(Current)
  BY <1>1, Constants DEF ClientInv, ClientTypes, Client!TypeOK, ClientPlace, ClientSize
<1>3. Current \in 1 .. Packets /\ Size(Current) \in 1 .. BUF_SIZE
  BY <1>2, CurrentIsSent DEF ClientInv
<1>4. saved_packet_size + io_byte < Size(Current)
  BY <1>1, <1>2, <1>3 DEF Client!Complete, Client!missing
<1>5. /\ packet_buffer' \in [1 .. BUF_SIZE -> 0 .. Start[Packets]]
      /\ \A i \in 1 .. saved_packet_size + io_byte : packet_buffer'[i] = Start[Len(handled)] + i
  <2>1. io_byte \in 1 .. io_byte /\ saved_packet_size + io_byte <= BUF_SIZE
    BY <1>2, <1>3, <1>4
  <2>. QED BY <1>1, <2>1, Appended DEF ClientInv
<1>6. ClientTypes'
  <2>1. saved_packet_size' \in 0 .. BUF_SIZE /\ io_byte' \in 0 .. BUF_SIZE
    BY <1>1, <1>2, <1>3, <1>4
  <2>. QED BY <1>1, <1>5, <2>1 DEF ClientInv, ClientTypes, Client!TypeOK
<1>7. ClientPlace'
  <2>1. /\ Len(handled) \in 0 .. Packets /\ Start[Len(handled)] \in Nat
        /\ received = Start[Len(handled)] + saved_packet_size + io_byte
    BY Constants DEF ClientInv, ClientTypes, ClientPlace
  <2>2. received = Start[Len(handled)] + (saved_packet_size + io_byte) + 0
    BY <1>2, <2>1
  <2>. QED BY <1>1, <2>2 DEF ClientInv, ClientPlace
<1>8. ClientSaved'
  BY <1>1, <1>3, <1>4, <1>5 DEF ClientSaved, Current
<1>9. ClientSize'
  BY <1>1, <1>2 DEF ClientSize, Current
<1>. QED BY <1>6, <1>7, <1>8, <1>9 DEF ClientInv

\* The step that hands a packet on, and what the abstract queue sees of it.
LEMMA ClientCompleteStep ==
  ASSUME ClientInv, Client!CompletePacket
  PROVE  ClientInv' /\ Client!Fifo!Handle
<1>. DEFINE h == Len(handled)
           m == Client!missing
           new == Client!Copied(m)
           size == Size(Current)
<1>1. /\ pc = "copy" /\ Client!Complete /\ pc' = "decode"
      /\ packet_buffer' = new
      /\ handled' = Append(handled, SubSeq(packet_buffer', 1, in_packet_size))
      /\ io_byte' = io_byte - m
      /\ in_packet_size' = 0 /\ saved_packet_size' = 0
      /\ UNCHANGED <<sent, received>>
  BY DEF Client!CompletePacket
<1>2. /\ saved_packet_size \in Nat /\ io_byte \in 0 .. BUF_SIZE /\ io_byte > 0 /\ BUF_SIZE \in Nat
      /\ in_packet_size = size /\ handled \in Seq(Seq(Nat)) /\ h \in 0 .. Packets
      /\ sent \in 0 .. Packets /\ received \in Nat
  BY <1>1, Constants DEF ClientInv, ClientTypes, Client!TypeOK, ClientPlace, ClientSize
<1>3. /\ Current \in 1 .. Packets /\ Current \in 1 .. sent /\ size \in 1 .. BUF_SIZE
      /\ size = Start[h + 1] - Start[h] /\ Start[Current - 1] = Start[h]
      /\ Start[h] \in Nat /\ Start[h + 1] \in Nat /\ Current = h + 1
  BY <1>2, CurrentIsSent, Constants DEF ClientInv, Current
<1>4. /\ m = size - saved_packet_size /\ m > 0 /\ m <= io_byte
  <2>1. m = size - saved_packet_size /\ m <= io_byte
    BY <1>1, <1>2, <1>3 DEF Client!Complete, Client!missing
  <2>2. CASE saved_packet_size = 0
    BY <1>2, <1>3, <2>1, <2>2
  <2>3. CASE saved_packet_size > 0
    BY <1>2, <1>3, <2>1, <2>3 DEF ClientInv, ClientSaved
  <2>. QED BY <1>2, <2>1, <2>2, <2>3
<1>5. /\ new \in [1 .. BUF_SIZE -> 0 .. Start[Packets]]
      /\ \A i \in 1 .. size : new[i] = Start[h] + i
  <2>1. m \in 1 .. io_byte /\ saved_packet_size + m = size
    BY <1>2, <1>3, <1>4
  <2>. QED BY <1>3, <2>1, Appended DEF ClientInv
<1>. HIDE DEF m, new, size
<1>6. SubSeq(new, 1, size) = Packet[h + 1] /\ Packet[h + 1] \in Seq(Nat)
  <2>1. Packet[h + 1] = [k \in 1 .. size |-> Start[h] + k]
    BY <1>3 DEF Packet, size
  <2>2. size \in Nat /\ \A k \in 1 .. size : Start[h] + k \in Nat /\ k \in 1 .. BUF_SIZE
    BY <1>2, <1>3
  <2>3. Packet[h + 1] \in Seq(Nat) /\ Len(Packet[h + 1]) = size
    BY <2>1, <2>2
  <2>4. \A k \in 1 .. size : new[k] \in Nat
    BY <1>5, <2>2
  <2>5. /\ SubSeq(new, 1, size) \in Seq(Nat) /\ Len(SubSeq(new, 1, size)) = size
        /\ \A k \in 1 .. size : SubSeq(new, 1, size)[k] = new[k]
    <3>1. /\ SubSeq(new, 1, size) \in Seq(Nat)
          /\ Len(SubSeq(new, 1, size)) = IF 1 <= size THEN size - 1 + 1 ELSE 0
          /\ \A k \in 1 .. size - 1 + 1 : SubSeq(new, 1, size)[k] = new[1 + k - 1]
      BY <2>2, <2>4, SubSeqProperties
    <3>2. size - 1 + 1 = size /\ 1 <= size /\ \A k \in 1 .. size : 1 + k - 1 = k
      BY <1>3
    <3>. QED BY <3>1, <3>2
  <2>6. \A k \in 1 .. size : SubSeq(new, 1, size)[k] = Packet[h + 1][k]
    BY <1>5, <2>1, <2>5
  <2>. QED BY <2>3, <2>5, <2>6, SeqEqual
<1>7. handled' = Append(handled, Packet[h + 1])
  BY <1>1, <1>2, <1>6
<1>8. Len(handled') = h + 1 /\ handled' \in Seq(Seq(Nat)) /\ h + 1 \in 0 .. Packets
  BY <1>2, <1>3, <1>6, <1>7
<1>9. io_byte' \in 0 .. BUF_SIZE
  BY <1>1, <1>2, <1>4
<1>10. ClientTypes'
  BY <1>1, <1>2, <1>5, <1>8, <1>9, Constants DEF ClientTypes, Client!TypeOK, ClientInv
<1>11. ClientPlace'
  <2>1. received = Start[h] + saved_packet_size + io_byte /\ received <= Start[sent]
    BY DEF ClientInv, ClientPlace
  <2>2. received = Start[h + 1] + 0 + (io_byte - m)
    <3>1. m = (Start[h + 1] - Start[h]) - saved_packet_size
      BY <1>3, <1>4
    <3>2. io_byte \in Nat /\ saved_packet_size \in Nat /\ Start[h] \in Nat /\ Start[h + 1] \in Nat
      BY <1>2, <1>3
    <3>. QED BY <2>1, <3>1, <3>2
  <2>. QED BY <1>1, <1>8, <2>1, <2>2 DEF ClientPlace
<1>12. ClientSaved'
  BY <1>1 DEF ClientSaved
<1>13. ClientSize'
  BY <1>1 DEF ClientSize
<1>14. Client!Fifo!Handle
  <2>1. h < sent
    BY <1>2, <1>3
  <2>2. Client!Packet[h + 1] = Packet[h + 1]
    BY <1>3, SameSizes
  <2>. QED BY <1>1, <1>7, <2>1, <2>2 DEF Client!Fifo!Handle
<1>. QED BY <1>10, <1>11, <1>12, <1>13, <1>14 DEF ClientInv

LEMMA ClientInvariance == StaleBytes => (Client!Spec => []ClientInv)
<1>. SUFFICES ASSUME StaleBytes PROVE Client!Spec => []ClientInv
  OBVIOUS
<1>1. ClientInv /\ [Client!Next]_(Client!vars) => ClientInv'
  <2>. SUFFICES ASSUME ClientInv, [Client!Next]_(Client!vars)
                PROVE  ClientInv'
    OBVIOUS
  <2>1. CASE UNCHANGED Client!vars
    BY <2>1 DEF Client!vars, ClientInv, ClientTypes, Client!TypeOK, ClientPlace, ClientSaved,
                ClientSize, Current
  <2>. QED
    BY <2>1, ClientSendStep, ClientReceiveStep, ClientDoneStep, ClientDecodeStep,
       ClientDecodeHalfStep, ClientSaveStep, ClientCompleteStep DEF Client!Next, Client!Loop
<1>. QED
  BY <1>1, ClientInitially, PTL DEF Client!Spec

\* Nothing that the client copies leaves its packet buffer.
THEOREM ClientTypeCorrect == StaleBytes => (Client!Spec => []Client!TypeOK)
<1>1. ClientInv => Client!TypeOK
  BY DEF ClientInv, ClientTypes
<1>. QED BY <1>1, ClientInvariance, PTL

\* What the static variables of process_data say together between two fragments:
\* the bytes saved and the packets handled are all that has arrived, and the size is
\* that of the packet they belong to.
THEOREM ClientCarries == StaleBytes => (Client!Spec => []Client!Carried)
<1>1. ClientInv => Client!Carried
  <2>. SUFFICES ASSUME ClientInv, pc = "recv"
                PROVE  /\ received = Start[Len(handled)] + saved_packet_size
                       /\ in_packet_size = IF saved_packet_size = 0 THEN 0
                                           ELSE Client!Size(Len(handled) + 1)
                       /\ saved_packet_size > 0 => saved_packet_size < in_packet_size
    BY DEF Client!Carried
  <2>1. io_byte = 0 /\ saved_packet_size \in Nat /\ Start[Len(handled)] \in Nat
    BY Constants DEF ClientInv, ClientPlace, ClientTypes, Client!TypeOK
  <2>2. received = Start[Len(handled)] + saved_packet_size
    BY <2>1 DEF ClientInv, ClientPlace
  <2>3. in_packet_size = IF saved_packet_size = 0 THEN 0 ELSE Size(Current)
    BY DEF ClientInv, ClientSize
  <2>4. saved_packet_size > 0 =>
          Current \in 1 .. Packets /\ saved_packet_size < Size(Current)
    BY DEF ClientInv, ClientSaved
  <2>. QED BY <2>1, <2>2, <2>3, <2>4, SameSizes DEF Current
<1>. QED BY <1>1, ClientInvariance, PTL

\* Whatever the fragments, ProcessPacket gets the packets that were sent, each one
\* once and in their order; where half of a size is completed by a stale byte the loop
\* may stop making sense (pc = "lost"), but has handed on nothing wrong before.
THEOREM ClientIsFifo == StaleBytes => (Client!Spec => Client!ImplementsFifo)
<1>. SUFFICES ASSUME StaleBytes PROVE Client!Spec => Client!ImplementsFifo
  OBVIOUS
<1>1. Client!Init => Client!Fifo!Init
  BY DEF Client!Init, Client!Fifo!Init
<1>2. ClientInv /\ [Client!Next]_(Client!vars) => [Client!Fifo!Next]_<<sent, handled>>
  <2>. SUFFICES ASSUME ClientInv, [Client!Next]_(Client!vars)
                PROVE  [Client!Fifo!Next]_<<sent, handled>>
    OBVIOUS
  <2>1. ASSUME Client!Send PROVE Client!Fifo!Send
    BY <2>1 DEF Client!Send, Client!Fifo!Send
  <2>2. ASSUME NEW n \in 1 .. BUF_SIZE, Client!Receive(n) PROVE UNCHANGED <<sent, handled>>
    BY <2>2 DEF Client!Receive
  <2>3. ASSUME Client!Done \/ Client!Decode \/ Client!DecodeHalf \/ Client!SaveFragment
        PROVE  UNCHANGED <<sent, handled>>
    BY <2>3 DEF Client!Done, Client!Decode, Client!DecodeHalf, Client!SaveFragment
  <2>4. ASSUME Client!CompletePacket PROVE Client!Fifo!Handle
    BY <2>4, ClientCompleteStep
  <2>5. ASSUME UNCHANGED Client!vars PROVE UNCHANGED <<sent, handled>>
    BY <2>5 DEF Client!vars
  <2>. QED
    BY <2>1, <2>2, <2>3, <2>4, <2>5 DEF Client!Next, Client!Loop, Client!Fifo!Next
<1>. QED
  BY <1>1, <1>2, ClientInvariance, PTL DEF Client!Spec, Client!ImplementsFifo, Client!Fifo!Safety
=============================================================================
