-------------------------- MODULE StressLoadProofs --------------------------
(***************************************************************************)
(* Theorems about the load generator: for any number of workers and of     *)
(* clients its counter is exact, no socket is closed twice, and the index  *)
(* of the next client to close leaves the clients there are only when      *)
(* clients it has passed make up the reserve.                              *)
(***************************************************************************)
EXTENDS StressLoad, FiniteSetTheorems, TLAPS

\* What holds of one client: from num_connections on there are none; one whose
\* login may still be answered is neither connected nor being closed.
ClientOK(i) ==
  /\ i >= num_connections => ~connected[i] /\ recv[i] = "none" /\ answer[i] = "none"
  /\ i < num_connections => client_socket[i] # "none"
  /\ connected[i] => client_socket[i] = "open"
  /\ answer[i] = "due" => ~connected[i] /\ client_socket[i] = "open"

\* What holds of one thread with the client it is about.
ThreadOK(t) ==
  /\ pc[t] \in {"close", "uncount", "count", "rearm"} =>
       who[t] \in Clients /\ who[t] < num_connections
  /\ pc[t] = "close" => /\ client_socket[who[t]] = "open" /\ ~connected[who[t]]
                        /\ answer[who[t]] # "due"

OneCloser ==
  \A t, u \in Threads : pc[t] = "close" /\ pc[u] = "close" /\ who[t] = who[u] => t = u

Inv ==
  /\ TypeOK
  /\ \A i \in Clients : ClientOK(i)
  /\ \A t \in Threads : ThreadOK(t)
  /\ OneCloser
  /\ pc[Test] \notin {"count", "rearm"}

-----------------------------------------------------------------------------
(* Types, and what the control flow guarantees.                            *)

Labels == {"idle", "count", "rearm", "disconnect", "close", "uncount", "box"}

LEMMA ClientsAreNat == Clients \subseteq Nat /\ MAX_CLIENTS \in Nat
BY LoadAssumption DEF Clients

\* Where a thread goes is somewhere.
LEMMA AtType ==
  ASSUME TypeOK, NEW t \in Threads, NEW label \in Labels, NEW i \in Nat, At(t, label, i)
  PROVE  pc' \in [Threads -> Labels] /\ who' \in [Threads -> Nat]
BY DEF At, TypeOK, Labels

LEMMA TypeStep == ASSUME TypeOK, [Next]_vars PROVE TypeOK'
<1> USE DEF Labels
<1> Test \in Threads /\ \A w \in Workers : w \in Threads
  BY DEF Threads
<1> \A t \in Threads : who[t] \in Nat
  BY DEF TypeOK
<1>1. CASE Next
  <2>1. ASSUME NEW t \in Threads, Disconnects(t) PROVE TypeOK'
    <3>1. pc' \in [Threads -> Labels] /\ who' \in [Threads -> Nat]
      BY <2>1, AtType DEF Disconnects, ClearFlag, CloseSocket, Uncount, Goto, Return
    <3>2. CASE ClearFlag(t)
      BY <3>1, <3>2 DEF TypeOK, ClearFlag, server, limits
    <3>3. CASE CloseSocket(t) \/ Uncount(t)
      BY <3>1, <3>3 DEF TypeOK, CloseSocket, Uncount, server, limits
    <3> QED BY <2>1, <3>2, <3>3 DEF Disconnects
  <2>2. ASSUME NEW t \in Threads, Count(t) \/ Rearm(t) PROVE TypeOK'
    <3>1. pc' \in [Threads -> Labels] /\ who' \in [Threads -> Nat]
      BY <2>2, AtType DEF Count, Rearm, Goto, Return
    <3> QED BY <2>2, <3>1 DEF TypeOK, Count, Rearm, server, limits
  <2>3. ASSUME NEW t \in Threads, NEW i \in Clients,
               TakeLogin(t, i) \/ TakePacket(t, i) \/ TakeFailure(t, i) \/ SendFails(t, i)
        PROVE  TypeOK'
    <3>1. pc' \in [Threads -> Labels] /\ who' \in [Threads -> Nat]
      BY <2>3, AtType, ClientsAreNat DEF TakeLogin, TakePacket, TakeFailure, SendFails, Take, Begin
    <3>2. CASE TakeLogin(t, i)
      BY <3>1, <3>2 DEF TypeOK, TakeLogin, Take, limits
    <3>3. CASE TakePacket(t, i)
      BY <3>1, <3>3 DEF TypeOK, TakePacket, Take, limits
    <3>4. CASE TakeFailure(t, i) \/ SendFails(t, i)
      BY <3>1, <3>4 DEF TypeOK, TakeFailure, SendFails, Take, server, limits
    <3> QED BY <2>3, <3>2, <3>3, <3>4
  <2>4. CASE HoldOn
    BY <2>4 DEF TypeOK, HoldOn, NoteLimit, server, threads
  <2>5. CASE CloseOldest
    <3> client_to_close \in Nat
      BY DEF TypeOK
    <3>1. pc' \in [Threads -> Labels] /\ who' \in [Threads -> Nat]
      BY <2>5, AtType DEF CloseOldest, Begin
    <3>3. client_to_close' \in Nat
      BY <2>5 DEF TypeOK, CloseOldest
    <3>5. max_limit' \in Int /\ increasing' \in BOOLEAN
      <4>1. NoteLimit
        BY <2>5 DEF CloseOldest
      <4> QED BY <4>1 DEF TypeOK, NoteLimit
    <3>4. UNCHANGED <<connected, client_socket, recv, server, num_connections, active_clients>>
      BY <2>5 DEF CloseOldest
    <3> QED BY <3>1, <3>3, <3>4, <3>5 DEF TypeOK, server
  <2>6. CASE Connect
    <3>1. num_connections' \in 0 .. MAX_CLIENTS
      BY <2>6, ClientsAreNat DEF TypeOK, Connect, Connects, MayAdjust
    <3> QED BY <2>6, <3>1 DEF TypeOK, Connect, Connects, threads
  <2>7. CASE ConnectFails \/ Moving
    <3>1. pc' \in [Threads -> Labels] /\ who' \in [Threads -> Nat]
      BY <2>7, AtType DEF ConnectFails, Moving, MoveClosed, DismissBox, Begin, Return
    <3> QED BY <2>7, <3>1 DEF TypeOK, ConnectFails, Connects, Moving, MoveClosed, DismissBox, server, limits
  <2> QED BY <1>1, <2>1, <2>2, <2>3, <2>4, <2>5, <2>6, <2>7
           DEF Next, Work, Completion, Adjust
<1>2. CASE UNCHANGED vars
  BY <1>2 DEF TypeOK, vars
<1> QED BY <1>1, <1>2

LEMMA InvInit == ASSUME Init PROVE Inv
BY LoadAssumption DEF Init, Inv, TypeOK, ClientOK, ThreadOK, OneCloser, Delays, Threads, Clients

LEMMA InvStep == ASSUME Inv, [Next]_vars PROVE Inv'
<1> TypeOK /\ TypeOK'
  BY TypeStep DEF Inv
<1> SUFFICES /\ \A i \in Clients : ClientOK(i)'
             /\ \A t \in Threads : ThreadOK(t)'
             /\ OneCloser'
             /\ (pc[Test] \notin {"count", "rearm"})'
  BY DEF Inv
<1> USE DEF At, Goto, Return, Begin
<1> Test \in Threads /\ \A w \in Workers : w \in Threads /\ w # Test
  BY LoadAssumption DEF Threads
<1>c. \A i \in Clients : ClientOK(i)
  BY DEF Inv
<1>t. OneCloser /\ pc[Test] \notin {"count", "rearm"} /\ \A t \in Threads : ThreadOK(t)
  BY DEF Inv
<1>1. ASSUME NEW t \in Threads, ClearFlag(t) PROVE Inv'
  <2>1. who[t] \in Clients
    BY <1>1, LoadAssumption DEF ClearFlag, TypeOK, Clients
  <2>2. \A i \in Clients : ClientOK(i)'
    BY <1>1, <1>c, <2>1 DEF ClearFlag, ClientOK, TypeOK, server
  <2>3. \A u \in Threads : ThreadOK(u)'
    <3> SUFFICES ASSUME NEW u \in Threads PROVE ThreadOK(u)'
      OBVIOUS
    <3>1. CASE u = t
      BY <1>1, <1>c, <2>1, <3>1, LoadAssumption DEF ClearFlag, ClientOK, ThreadOK, TypeOK, Clients, server
    <3>2. CASE u # t
      BY <1>1, <1>t, <3>2 DEF ClearFlag, ThreadOK, TypeOK, server
    <3> QED BY <3>1, <3>2
  <2>4. OneCloser'
    BY <1>1, <1>t DEF ClearFlag, OneCloser, ThreadOK, TypeOK
  <2>5. (pc[Test] \notin {"count", "rearm"})'
    BY <1>1, <1>t DEF ClearFlag, TypeOK
  <2> QED BY <2>2, <2>3, <2>4, <2>5 DEF Inv
<1>2. ASSUME NEW t \in Threads, CloseSocket(t) PROVE Inv'
  <2>1. \A i \in Clients : ClientOK(i)'
    BY <1>2, <1>c, <1>t DEF CloseSocket, ClientOK, ThreadOK, TypeOK, server
  <2>2. \A u \in Threads : ThreadOK(u)'
    BY <1>2, <1>t DEF CloseSocket, ThreadOK, OneCloser, TypeOK, server
  <2> QED BY <1>2, <1>t, <2>1, <2>2 DEF CloseSocket, OneCloser, TypeOK, Inv
<1>3. ASSUME NEW t \in Threads, Uncount(t) PROVE Inv'
  BY <1>3, <1>c, <1>t DEF Uncount, ClientOK, ThreadOK, OneCloser, TypeOK, server, Inv
<1>4. ASSUME NEW t \in Workers, Count(t) \/ Rearm(t) PROVE Inv'
  <2>1. \A i \in Clients : ClientOK(i)'
    <3>1. CASE Count(t)
      BY <1>4, <1>c, <3>1 DEF Count, ClientOK, server
    <3>2. CASE Rearm(t)
      <4>1. who[t] \in Clients /\ who[t] < num_connections
        BY <1>t, <3>2 DEF Rearm, ThreadOK
      <4>2. UNCHANGED <<connected, client_socket, answer, num_connections>>
        BY <3>2 DEF Rearm, server
      <4>3. num_connections \in Nat /\ who[t] \in Nat
        BY DEF TypeOK
      <4>4. \A i \in Clients : i # who[t] => recv'[i] = recv[i]
        BY <3>2 DEF Rearm, TypeOK
      <4> QED BY <1>c, <4>1, <4>2, <4>3, <4>4 DEF ClientOK
    <3> QED BY <1>4, <3>1, <3>2
  <2>2. \A u \in Threads : ThreadOK(u)'
    BY <1>4, <1>t DEF Count, Rearm, ThreadOK, TypeOK, server
  <2> QED BY <1>4, <1>t, <2>1, <2>2 DEF Count, Rearm, OneCloser, TypeOK, Inv
<1>5. ASSUME NEW t \in Workers, NEW i \in Clients, TakeLogin(t, i) PROVE Inv'
  <2>1. \A j \in Clients : ClientOK(j)'
    BY <1>5, <1>c DEF TakeLogin, Take, ClientOK, TypeOK
  <2>2. \A u \in Threads : ThreadOK(u)'
    BY <1>5, <1>c, <1>t, LoadAssumption DEF TakeLogin, Take, ThreadOK, ClientOK, TypeOK, Clients
  <2> QED BY <1>5, <1>t, <2>1, <2>2 DEF TakeLogin, Take, OneCloser, TypeOK, Inv
<1>6. ASSUME NEW t \in Workers, NEW i \in Clients, TakePacket(t, i) PROVE Inv'
  <2>1. \A j \in Clients : ClientOK(j)'
    BY <1>6, <1>c DEF TakePacket, Take, ClientOK, TypeOK
  <2>2. \A u \in Threads : ThreadOK(u)'
    BY <1>6, <1>c, <1>t, LoadAssumption DEF TakePacket, Take, ThreadOK, ClientOK, TypeOK, Clients
  <2> QED BY <1>6, <1>t, <2>1, <2>2 DEF TakePacket, Take, OneCloser, TypeOK, Inv
<1>7. ASSUME NEW t \in Workers, NEW i \in Clients, TakeFailure(t, i) \/ SendFails(t, i) PROVE Inv'
  <2>1. \A j \in Clients : ClientOK(j)'
    BY <1>7, <1>c DEF TakeFailure, SendFails, Take, ClientOK, TypeOK, server
  <2>2. \A u \in Threads : ThreadOK(u)'
    BY <1>7, <1>t DEF TakeFailure, SendFails, Take, ThreadOK, TypeOK, server
  <2> QED BY <1>7, <1>t, <2>1, <2>2 DEF TakeFailure, SendFails, Take, OneCloser, TypeOK, Inv
<1>8. CASE HoldOn
  BY <1>8, <1>c, <1>t DEF HoldOn, ClientOK, ThreadOK, OneCloser, server, threads, Inv
<1>9. CASE CloseOldest
  <2>1. \A i \in Clients : ClientOK(i)'
    BY <1>9, <1>c DEF CloseOldest, ClientOK, TypeOK, server
  <2>2. \A u \in Threads : ThreadOK(u)'
    BY <1>9, <1>t DEF CloseOldest, ThreadOK, TypeOK, server
  <2> QED BY <1>9, <1>t, <2>1, <2>2 DEF CloseOldest, OneCloser, TypeOK, Inv
<1>10. CASE Connect
  <2>1. num_connections \in Clients /\ num_connections \in Nat
    BY <1>10, LoadAssumption DEF Connect, Connects, MayAdjust, TypeOK, Clients
  <2>2. \A i \in Clients : ClientOK(i)'
    BY <1>10, <1>c, <2>1, ClientsAreNat DEF Connect, Connects, ClientOK, TypeOK
  <2>3. \A u \in Threads : ThreadOK(u)'
    BY <1>10, <1>t, <2>1 DEF Connect, Connects, ThreadOK, TypeOK, threads
  <2> QED BY <1>10, <1>t, <2>2, <2>3 DEF Connect, OneCloser, threads, Inv
<1>11. CASE ConnectFails
  <2>1. num_connections \in Clients /\ num_connections \in Nat
    BY <1>11, LoadAssumption DEF ConnectFails, Connects, MayAdjust, TypeOK, Clients
  <2>2. \A i \in Clients : ClientOK(i)'
    BY <1>11, <1>c, <2>1 DEF ConnectFails, Connects, ClientOK, TypeOK
  <2>3. \A u \in Threads : ThreadOK(u)'
    BY <1>11, <1>t, <2>1 DEF ConnectFails, Connects, ThreadOK, TypeOK
  <2> QED BY <1>11, <1>t, <2>2, <2>3 DEF ConnectFails, OneCloser, TypeOK, Inv
<1>12. CASE Moving
  BY <1>12, <1>c, <1>t DEF Moving, MoveClosed, DismissBox, ClientOK, ThreadOK, OneCloser, TypeOK, server, Inv
<1>13. CASE UNCHANGED vars
  BY <1>13, <1>c, <1>t DEF vars, ClientOK, ThreadOK, OneCloser
<1> QED BY <1>1, <1>2, <1>3, <1>4, <1>5, <1>6, <1>7, <1>8, <1>9, <1>10, <1>11, <1>12, <1>13
         DEF Next, Disconnects, Work, Completion, Adjust, Inv

LEMMA SpecInv == Spec => []Inv
<1>1. Inv /\ [Next]_vars => Inv'
  BY InvStep
<1> QED BY InvInit, <1>1, PTL DEF Spec

\* Every variable keeps its type, whatever threads do.
THEOREM TypeCorrect == Spec => []TypeOK
<1>1. Inv => TypeOK
  BY DEF Inv
<1> QED BY SpecInv, <1>1, PTL

\* Test thread and workers disconnect the same clients after failed sends and
\* receives and for overload; still no socket is closed by two of them, and no
\* client counts as connected whose socket is closed.
THEOREM SocketsClosedOnce == Spec => []ClosedOnce
<1>1. Inv => ClosedOnce
  BY DEF Inv, ClosedOnce, ThreadOK, ClientOK, OneCloser, Busy, Connected
<1> QED BY SpecInv, <1>1, PTL
-----------------------------------------------------------------------------
(* Counting.                                                               *)

LEMMA FiniteThreads ==
  /\ IsFiniteSet(Threads) /\ IsFiniteSet(Clients)
  /\ \A L : IsFiniteSet(Busy(L)) /\ Cardinality(Busy(L)) \in Nat
  /\ IsFiniteSet(Connected) /\ Cardinality(Connected) \in Nat
<1>1. IsFiniteSet(Threads)
  BY FS_AddElement, LoadAssumption DEF Threads
<1>2. IsFiniteSet(Clients)
  BY FS_Interval, LoadAssumption DEF Clients
<1>3. \A L : IsFiniteSet(Busy(L)) /\ Cardinality(Busy(L)) \in Nat
  BY <1>1, FS_Subset, FS_CardinalityType DEF Busy
<1> QED BY <1>1, <1>2, <1>3, FS_Subset, FS_CardinalityType DEF Connected

One(b) == IF b THEN 1 ELSE 0

\* A set gains or loses one element, or none.
LEMMA CountChange ==
  ASSUME NEW S, IsFiniteSet(S), NEW e, NEW b \in BOOLEAN, NEW T,
         T = IF b THEN S \cup {e} ELSE S \ {e}
  PROVE  Cardinality(T) = Cardinality(S) + One(b) - One(e \in S)
<1> Cardinality(S) \in Nat
  BY FS_CardinalityType
<1>1. CASE b
  BY <1>1, FS_AddElement DEF One
<1>2. CASE ~b
  BY <1>2, FS_RemoveElement DEF One
<1> QED BY <1>1, <1>2

\* A thread goes from one place to another.
LEMMA BusyChange ==
  ASSUME TypeOK, NEW t \in Threads, NEW label, NEW i, At(t, label, i), NEW L
  PROVE  Cardinality(Busy(L)') = Cardinality(Busy(L)) + One(label \in L) - One(pc[t] \in L)
<1>1. Busy(L)' = IF label \in L THEN Busy(L) \cup {t} ELSE Busy(L) \ {t}
  BY DEF TypeOK, At, Busy
<1>2. t \in Busy(L) <=> pc[t] \in L
  BY DEF Busy
<1>3. IsFiniteSet(Busy(L))
  BY FiniteThreads
<1>4. Cardinality(Busy(L)') = Cardinality(Busy(L)) + One(label \in L) - One(t \in Busy(L))
  <2>1. CASE label \in L
    <3>1. Busy(L)' = IF TRUE THEN Busy(L) \cup {t} ELSE Busy(L) \ {t}
      BY <1>1, <2>1
    <3>2. Cardinality(Busy(L)') = Cardinality(Busy(L)) + One(TRUE) - One(t \in Busy(L))
      BY <1>3, <3>1, CountChange
    <3> QED BY <2>1, <3>2 DEF One
  <2>2. CASE label \notin L
    <3>1. Busy(L)' = IF FALSE THEN Busy(L) \cup {t} ELSE Busy(L) \ {t}
      BY <1>1, <2>2
    <3>2. Cardinality(Busy(L)') = Cardinality(Busy(L)) + One(FALSE) - One(t \in Busy(L))
      BY <1>3, <3>1, CountChange
    <3> QED BY <2>2, <3>2 DEF One
  <2> QED BY <2>1, <2>2
<1>5. One(t \in Busy(L)) = One(pc[t] \in L)
  BY <1>2 DEF One
<1> QED BY <1>4, <1>5

LEMMA ConnectedChange ==
  ASSUME TypeOK, NEW i \in Clients, NEW b \in BOOLEAN, connected' = [connected EXCEPT ![i] = b]
  PROVE  Cardinality(Connected') = Cardinality(Connected) + One(b) - One(connected[i])
<1>1. Connected' = IF b THEN Connected \cup {i} ELSE Connected \ {i}
  BY DEF TypeOK, Connected
<1>2. (i \in Connected) = connected[i]
  BY DEF Connected, TypeOK
<1>3. IsFiniteSet(Connected)
  BY FiniteThreads
<1> QED BY <1>1, <1>2, <1>3, CountChange

Closing == {"close", "uncount"}
Counting == {"count"}

\* The count stays exact if the flags change by as much as the thread makes up for.
LEMMA Balance ==
  ASSUME TypeOK, CountIsExact, NEW t \in Threads, NEW label, NEW i, At(t, label, i),
         NEW d \in Int, active_clients' = active_clients + d,
         Cardinality(Connected') =
           Cardinality(Connected) + d + One(pc[t] \in Closing) - One(pc[t] \in Counting)
                                      - One(label \in Closing) + One(label \in Counting)
  PROVE  CountIsExact'
<1>1. Cardinality(Busy(Closing)') = Cardinality(Busy(Closing)) + One(label \in Closing) - One(pc[t] \in Closing)
  BY BusyChange
<1>2. Cardinality(Busy(Counting)') = Cardinality(Busy(Counting)) + One(label \in Counting) - One(pc[t] \in Counting)
  BY BusyChange
<1>3. /\ Cardinality(Busy(Closing)) \in Nat /\ Cardinality(Busy(Counting)) \in Nat
      /\ Cardinality(Connected) \in Nat
  BY FiniteThreads
<1>4. /\ One(label \in Closing) \in Nat /\ One(label \in Counting) \in Nat
      /\ One(pc[t] \in Closing) \in Nat /\ One(pc[t] \in Counting) \in Nat
  BY DEF One
<1>5. active_clients = Cardinality(Connected) + Cardinality(Busy(Closing)) - Cardinality(Busy(Counting))
  BY DEF CountIsExact, Closing, Counting
<1>6. active_clients' = Cardinality(Connected') + Cardinality(Busy(Closing)') - Cardinality(Busy(Counting)')
  BY <1>1, <1>2, <1>3, <1>4, <1>5
<1> QED BY <1>6 DEF CountIsExact, Closing, Counting

\* A step that changes no flag, no count, and leaves threads where they do not matter.
LEMMA Quiet ==
  ASSUME TypeOK, CountIsExact, NEW t \in Threads, NEW label, NEW i, At(t, label, i),
         UNCHANGED <<connected, active_clients>>,
         label \notin Closing \cup Counting, pc[t] \notin Closing \cup Counting
  PROVE  CountIsExact'
<1>1. Cardinality(Connected') = Cardinality(Connected)
  BY DEF Connected
<1>2. Cardinality(Connected) \in Nat /\ active_clients \in Int
  BY FiniteThreads DEF TypeOK
<1>3. /\ One(label \in Closing) = 0 /\ One(label \in Counting) = 0
      /\ One(pc[t] \in Closing) = 0 /\ One(pc[t] \in Counting) = 0
  BY DEF One
<1> QED BY <1>1, <1>2, <1>3, Balance

LEMMA CountStep == ASSUME Inv, CountIsExact, [Next]_vars PROVE CountIsExact'
<1> TypeOK
  BY DEF Inv
<1> Cardinality(Connected) \in Nat /\ active_clients \in Int
  BY FiniteThreads DEF TypeOK
<1> Test \in Threads /\ \A w \in Workers : w \in Threads
  BY DEF Threads
<1> USE DEF Goto, Return, Begin
<1>1. ASSUME NEW t \in Threads, ClearFlag(t) PROVE CountIsExact'
  <2> who[t] \in Clients
    BY <1>1, LoadAssumption DEF ClearFlag, TypeOK, Clients
  <2>1. Cardinality(Connected') = Cardinality(Connected) - One(connected[who[t]])
    <3>1. connected' = [connected EXCEPT ![who[t]] = FALSE]
      BY <1>1 DEF ClearFlag
    <3>2. Cardinality(Connected') = Cardinality(Connected) + One(FALSE) - One(connected[who[t]])
      BY <3>1, ConnectedChange
    <3> QED BY <3>2 DEF One
  <2>2. active_clients' = active_clients + 0 /\ pc[t] = "disconnect"
    BY <1>1 DEF ClearFlag
  <2>3. CASE connected[who[t]]
    <3>1. At(t, "close", who[t])
      BY <1>1, <2>3 DEF ClearFlag
    <3> QED BY <2>1, <2>2, <2>3, <3>1, Balance DEF One, Closing, Counting
  <2>4. CASE ~connected[who[t]]
    <3>1. At(t, "idle", 0)
      BY <1>1, <2>4 DEF ClearFlag
    <3> QED BY <2>1, <2>2, <2>4, <3>1, Balance DEF One, Closing, Counting
  <2> QED BY <2>3, <2>4
<1>2. ASSUME NEW t \in Threads, CloseSocket(t) PROVE CountIsExact'
  <2>1. Cardinality(Connected') = Cardinality(Connected)
    BY <1>2 DEF CloseSocket, Connected
  <2>2. active_clients' = active_clients + 0 /\ pc[t] = "close" /\ At(t, "uncount", who[t])
    BY <1>2 DEF CloseSocket
  <2>3. /\ One(pc[t] \in Closing) = 1 /\ One(pc[t] \in Counting) = 0
        /\ One("uncount" \in Closing) = 1 /\ One("uncount" \in Counting) = 0
    BY <2>2 DEF One, Closing, Counting
  <2> QED BY <2>1, <2>2, <2>3, Balance
<1>3. ASSUME NEW t \in Threads, Uncount(t) PROVE CountIsExact'
  <2>1. Cardinality(Connected') = Cardinality(Connected)
    BY <1>3 DEF Uncount, Connected
  <2>2. active_clients' = active_clients + -1 /\ pc[t] = "uncount" /\ At(t, "idle", 0)
    BY <1>3 DEF Uncount
  <2> QED BY <2>1, <2>2, Balance DEF One, Closing, Counting
<1>4. ASSUME NEW t \in Workers, Count(t) PROVE CountIsExact'
  <2>1. Cardinality(Connected') = Cardinality(Connected)
    BY <1>4 DEF Count, Connected
  <2>2. active_clients' = active_clients + 1 /\ pc[t] = "count" /\ At(t, "rearm", who[t])
    BY <1>4 DEF Count
  <2>3. /\ One(pc[t] \in Closing) = 0 /\ One(pc[t] \in Counting) = 1
        /\ One("rearm" \in Closing) = 0 /\ One("rearm" \in Counting) = 0
    BY <2>2 DEF One, Closing, Counting
  <2> QED BY <2>1, <2>2, <2>3, Balance
<1>5. ASSUME NEW t \in Workers, Rearm(t) PROVE CountIsExact'
  <2>1. \E label \in {"idle", "disconnect"}, i \in {0, who[t]} : At(t, label, i)
    BY <1>5 DEF Rearm
  <2>2. UNCHANGED <<connected, active_clients>> /\ pc[t] = "rearm"
    BY <1>5 DEF Rearm
  <2> QED BY <2>1, <2>2, Quiet DEF Closing, Counting
<1>6. ASSUME NEW t \in Workers, NEW i \in Clients, TakeLogin(t, i) PROVE CountIsExact'
  <2>1. ~connected[i]
    BY <1>6 DEF TakeLogin, Inv, ClientOK
  <2>2. Cardinality(Connected') = Cardinality(Connected) + 1
    <3>1. connected' = [connected EXCEPT ![i] = TRUE]
      BY <1>6 DEF TakeLogin
    <3>2. Cardinality(Connected') = Cardinality(Connected) + One(TRUE) - One(connected[i])
      BY <3>1, ConnectedChange
    <3> QED BY <2>1, <3>2 DEF One
  <2>3. active_clients' = active_clients + 0 /\ pc[t] = "idle" /\ At(t, "count", i)
    BY <1>6 DEF TakeLogin, Take
  <2> QED BY <2>2, <2>3, Balance DEF One, Closing, Counting
<1>7. ASSUME NEW t \in Workers, NEW i \in Clients,
             TakePacket(t, i) \/ TakeFailure(t, i) \/ SendFails(t, i)
      PROVE  CountIsExact'
  <2>1. \E label \in {"rearm", "disconnect"} : At(t, label, i)
    BY <1>7 DEF TakePacket, TakeFailure, SendFails, Take
  <2>2. UNCHANGED <<connected, active_clients>> /\ pc[t] = "idle"
    BY <1>7 DEF TakePacket, TakeFailure, SendFails, Take
  <2> QED BY <2>1, <2>2, Quiet DEF Closing, Counting
<1>8. CASE CloseOldest \/ ConnectFails \/ Moving
  <2>1. \E label \in {"disconnect", "box", "idle"}, i \in {0, client_to_close} : At(Test, label, i)
    BY <1>8 DEF CloseOldest, ConnectFails, Moving, MoveClosed, DismissBox
  <2>2. UNCHANGED <<connected, active_clients>> /\ pc[Test] \in {"idle", "box"}
    BY <1>8 DEF CloseOldest, ConnectFails, Connects, MayAdjust, Moving, MoveClosed, DismissBox
  <2> QED BY <2>1, <2>2, Quiet DEF Closing, Counting
<1>9. CASE HoldOn \/ Connect \/ UNCHANGED vars
  <2>1. UNCHANGED <<connected, active_clients, pc>>
    BY <1>9 DEF HoldOn, Connect, Connects, threads, vars
  <2> QED BY <2>1 DEF CountIsExact, Connected, Busy
<1> QED BY <1>1, <1>2, <1>3, <1>4, <1>5, <1>6, <1>7, <1>8, <1>9
         DEF Next, Disconnects, Work, Completion, Adjust

LEMMA CountInit == ASSUME Init PROVE CountIsExact
<1>1. Connected = {} /\ Busy(Closing) = {} /\ Busy(Counting) = {}
  BY DEF Init, Connected, Busy, Closing, Counting
<1> QED BY <1>1, FS_EmptySet DEF Init, CountIsExact, Closing, Counting

\* The flag of a client and the count of clients are changed in two steps, by
\* whichever threads connect and disconnect it: the count is always what the flags
\* say, corrected by the threads between two such steps.
THEOREM CountCorrect == Spec => []CountIsExact
<1>1. Inv /\ CountIsExact /\ [Next]_vars => CountIsExact'
  BY CountStep
<1> QED BY CountInit, SpecInv, <1>1, PTL DEF Spec
-----------------------------------------------------------------------------
(* The closer and those it has passed.                                     *)

\* Nobody but the test thread moves the closer, and only between two calls of
\* DisconnectClient.
LEMMA WhoMovesCloser ==
  ASSUME [Next]_vars, client_to_close' # client_to_close
  PROVE  CloseOldest
<1>1. ASSUME NEW t \in Threads, Disconnects(t) PROVE UNCHANGED client_to_close
  BY <1>1 DEF Disconnects, ClearFlag, CloseSocket, Uncount
<1>2. ASSUME NEW w \in Workers, Work(w) PROVE UNCHANGED client_to_close
  BY <1>1, <1>2 DEF Work, Count, Rearm, Threads
<1>3. ASSUME NEW w \in Workers, Completion(w) PROVE UNCHANGED client_to_close
  BY <1>3 DEF Completion, TakeLogin, TakePacket, TakeFailure, SendFails, Take
<1>4. CASE HoldOn \/ Connect \/ ConnectFails \/ Moving
  BY <1>4 DEF HoldOn, Connect, Connects, ConnectFails, Moving, MoveClosed, DismissBox
<1>5. CASE UNCHANGED vars
  BY <1>5 DEF vars
<1> QED BY <1>1, <1>2, <1>3, <1>4, <1>5 DEF Next, Adjust, Threads

\* When the closer has passed all clients there are, all that are connected were
\* overtaken.
LEMMA AllOvertaken ==
  ASSUME Inv, pc[Test] = "idle", client_to_close >= num_connections
  PROVE  Overtaken = Connected
<1> SUFFICES ASSUME NEW i \in Connected PROVE i < client_to_close
  BY DEF Overtaken
<1>1. i \in Clients /\ connected[i]
  BY DEF Connected
<1>2. ~(i >= num_connections)
  BY <1>1 DEF Inv, ClientOK
<1> QED BY <1>1, <1>2, ClientsAreNat DEF Inv, TypeOK

LEMMA OverrunStep ==
  ASSUME Inv, CountIsExact, [Next]_vars,
         client_to_close' > client_to_close, client_to_close >= num_connections
  PROVE  Cardinality(Overtaken) + Cardinality(Busy({"close", "uncount"})) >= Reserve
<1>1. pc[Test] = "idle" /\ active_clients >= Reserve
  <2>1. client_to_close' # client_to_close
    BY DEF Inv, TypeOK
  <2> QED BY <2>1, WhoMovesCloser DEF CloseOldest, MayAdjust
<1>2. Overtaken = Connected
  BY <1>1, AllOvertaken
<1>3. /\ Cardinality(Busy({"close", "uncount"})) \in Nat
      /\ Cardinality(Busy({"count"})) \in Nat /\ Cardinality(Connected) \in Nat
  <2> TypeOK
    BY DEF Inv
  <2> QED BY FiniteThreads
<1>4. Reserve \in Nat /\ active_clients \in Int
  BY LoadAssumption DEF Inv, TypeOK
<1> QED BY <1>1, <1>2, <1>3, <1>4 DEF CountIsExact

\* client_to_close is compared with nothing: it leaves the clients there are only if
\* those it has passed before their logins were answered, with those that workers
\* are just disconnecting, make up the reserve that keeps it going.
THEOREM OverrunExplained == Spec => CloserOverruns
<1>1. Inv /\ CountIsExact /\ [Next]_vars =>
        [client_to_close' > client_to_close /\ client_to_close >= num_connections =>
           Cardinality(Overtaken) + Cardinality(Busy({"close", "uncount"})) >= Reserve]_vars
  BY OverrunStep
<1> QED BY <1>1, SpecInv, CountCorrect, PTL DEF Spec, CloserOverruns
=============================================================================
