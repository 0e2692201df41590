----------------------------- MODULE StressLoad -----------------------------
(***************************************************************************)
(* The load generator of the stress test.  One test thread connects dummy  *)
(* clients as long as the server answers quickly and disconnects them, the *)
(* oldest first, when it does not; workers handle their completions and    *)
(* count those that are logged in.  A client may be disconnected by the    *)
(* test thread and by the worker of a failed completion at the same time.  *)
(*                                                                         *)
(* Times are left out (any delay between two calls of                      *)
(* Adjust_Number_Of_Client may be long enough), global_delay is only known *)
(* against the two limits, and completions of sends are not counted: one   *)
(* of a client that has sent may fail at any time, also after its socket   *)
(* was replaced.  The server is external: it answers a login at most once, *)
(* however late.  What lies behind g_clients is left out too: a thread     *)
(* that disconnects a client past its end gets no further.                 *)
(***************************************************************************)
EXTENDS Integers, FiniteSets

CONSTANTS
  Workers, Test,   \* the threads
  MAX_TEST, MAX_CLIENTS,
  Reserve,         \* the 100 active clients below which none is disconnected
  MAXINT,
  Frail            \* bound: the clients of which a receive or send may fail while
                   \* the socket is open

ASSUME LoadAssumption ==
  /\ IsFiniteSet(Workers) /\ Test \notin Workers
  /\ {MAX_TEST, MAX_CLIENTS, MAXINT} \subseteq Nat /\ Reserve \in Nat \ {0}

Threads == Workers \cup {Test}
Clients == 0 .. MAX_CLIENTS - 1

VARIABLES
  connected, client_socket,          \* of each CLIENT
  recv,              \* its WSARecv: none, armed, or its completion being handled
  answer,            \* the server's answer to its login
  num_connections, client_to_close, active_clients,
  max_limit, increasing,
  global_delay,
  pc, who            \* where each thread is, and with which client

server == <<answer, global_delay>>
limits == <<max_limit, increasing>>
threads == <<pc, who>>
vars == <<connected, client_socket, recv, answer, num_connections, client_to_close,
          active_clients, max_limit, increasing, global_delay, pc, who>>

Delays == {"low", "middle", "high"}  \* up to DELAY_LIMIT, DELAY_LIMIT2, above

TypeOK ==
  /\ connected \in [Clients -> BOOLEAN]
  /\ client_socket \in [Clients -> {"none", "open", "closed"}]
  /\ recv \in [Clients -> {"none", "armed", "held"}]
  /\ answer \in [Clients -> {"none", "due", "given", "refused"}]
  /\ num_connections \in 0 .. MAX_CLIENTS /\ client_to_close \in Nat
  /\ active_clients \in Int /\ max_limit \in Int /\ increasing \in BOOLEAN
  /\ global_delay \in Delays
  /\ pc \in [Threads -> {"idle", "count", "rearm", "disconnect", "close", "uncount", "box"}]
  /\ who \in [Threads -> Nat]

Init ==
  /\ connected = [i \in Clients |-> FALSE]
  /\ client_socket = [i \in Clients |-> "none"]
  /\ recv = [i \in Clients |-> "none"]
  /\ answer = [i \in Clients |-> "none"]
  /\ num_connections = 0 /\ client_to_close = 0 /\ active_clients = 0
  /\ max_limit = MAXINT /\ increasing = TRUE
  /\ global_delay = "low"
  /\ pc = [t \in Threads |-> "idle"] /\ who = [t \in Threads |-> 0]

At(t, label, i) ==
  /\ pc' = [pc EXCEPT ![t] = label]
  /\ who' = [who EXCEPT ![t] = i]

Goto(t, label) == At(t, label, who[t])
Return(t) == At(t, "idle", 0)
Begin(t, i, label) == pc[t] = "idle" /\ At(t, label, i)
-----------------------------------------------------------------------------
(* DisconnectClient, by any thread.                                        *)

\* Mutant: the flag is read and written, not exchanged.
FlagIgnored(t) ==
  /\ pc[t] = "disconnect" /\ who[t] < MAX_CLIENTS
  /\ connected' = [connected EXCEPT ![who[t]] = FALSE]
  /\ Goto(t, "close")
  /\ UNCHANGED <<client_socket, recv, server, num_connections, client_to_close,
                 active_clients, limits>>

\* The compare-exchange of connected.  A worker with a failed completion calls
\* DisconnectClient twice in a row; one call shows all that may come of it.
ClearFlag(t) ==
  /\ pc[t] = "disconnect" /\ who[t] < MAX_CLIENTS
  /\ connected' = [connected EXCEPT ![who[t]] = FALSE]
  /\ IF connected[who[t]] THEN Goto(t, "close") ELSE Return(t)
  /\ UNCHANGED <<client_socket, recv, server, num_connections, client_to_close,
                 active_clients, limits>>

CloseSocket(t) ==
  /\ pc[t] = "close" /\ Goto(t, "uncount")
  /\ client_socket' = [client_socket EXCEPT ![who[t]] = "closed"]
  /\ UNCHANGED <<connected, recv, server, num_connections, client_to_close,
                 active_clients, limits>>

Uncount(t) ==
  /\ pc[t] = "uncount" /\ Return(t)
  /\ active_clients' = active_clients - 1
  /\ UNCHANGED <<connected, client_socket, recv, server, num_connections,
                 client_to_close, limits>>
-----------------------------------------------------------------------------
(* Worker_Thread and ProcessPacket.                                        *)

Take(w, i, label) ==
  /\ recv[i] = "armed" /\ Begin(w, i, label)
  /\ UNCHANGED <<client_socket, num_connections, client_to_close, active_clients, limits>>

\* SC_LOGIN_INFO: the flag first, then the count.
TakeLogin(w, i) ==
  /\ answer[i] = "due" /\ Take(w, i, "count")
  /\ recv' = [recv EXCEPT ![i] = "held"]
  /\ answer' = [answer EXCEPT ![i] = "given"]
  /\ connected' = [connected EXCEPT ![i] = TRUE]
  /\ UNCHANGED global_delay

\* Any other packet: the login is refused, the delay is measured.
TakePacket(w, i) ==
  /\ Take(w, i, "rearm")
  /\ recv' = [recv EXCEPT ![i] = "held"]
  /\ \/ answer[i] = "due" /\ answer' = [answer EXCEPT ![i] = "refused"]
        /\ UNCHANGED global_delay
     \/ answer[i] = "given" /\ global_delay' \in Delays /\ UNCHANGED answer
  /\ UNCHANGED connected

Count(w) ==
  /\ pc[w] = "count" /\ Goto(w, "rearm")
  /\ active_clients' = active_clients + 1
  /\ UNCHANGED <<connected, client_socket, recv, server, num_connections,
                 client_to_close, limits>>

MayFail(i) == i \in Frail \/ client_socket[i] = "closed"

\* The next WSARecv, which fails on a closed socket and may fail on any.
Rearm(w) ==
  /\ pc[w] = "rearm"
  /\ \/ /\ client_socket[who[w]] = "open" /\ Return(w)
        /\ recv' = [recv EXCEPT ![who[w]] = "armed"]
     \/ /\ MayFail(who[w]) /\ Goto(w, "disconnect")
        /\ recv' = [recv EXCEPT ![who[w]] = "none"]
  /\ UNCHANGED <<connected, client_socket, server, num_connections, client_to_close,
                 active_clients, limits>>

\* GetQueuedCompletionStatus fails or transfers nothing.
TakeFailure(w, i) ==
  /\ MayFail(i) /\ Take(w, i, "disconnect")
  /\ recv' = [recv EXCEPT ![i] = "none"]
  /\ UNCHANGED <<connected, server>>

SendFails(w, i) ==
  /\ MayFail(i) /\ client_socket[i] # "none" /\ Begin(w, i, "disconnect")
  /\ UNCHANGED <<connected, client_socket, recv, server, num_connections,
                 client_to_close, active_clients, limits>>
-----------------------------------------------------------------------------
(* Test_Thread.                                                            *)

MayAdjust ==
  /\ pc[Test] = "idle"
  /\ active_clients < MAX_TEST /\ num_connections < MAX_CLIENTS

NoteLimit ==
  /\ increasing' = FALSE
  /\ max_limit' = IF increasing THEN active_clients ELSE max_limit

\* Overloaded, but there are few clients, or it was connected to just now.
HoldOn ==
  /\ MayAdjust /\ global_delay = "high" /\ increasing /\ NoteLimit
  /\ UNCHANGED <<connected, client_socket, recv, server, num_connections,
                 client_to_close, active_clients, threads>>

\* Mutant: nobody is kept.
CloseAny ==
  /\ MayAdjust /\ global_delay = "high" /\ NoteLimit
  /\ Begin(Test, client_to_close, "disconnect")
  /\ client_to_close' = client_to_close + 1
  /\ UNCHANGED <<connected, client_socket, recv, server, num_connections, active_clients>>

\* Mutant: the next client is never the next.
CloseSame ==
  /\ MayAdjust /\ global_delay = "high" /\ active_clients >= Reserve /\ NoteLimit
  /\ Begin(Test, client_to_close, "disconnect")
  /\ UNCHANGED <<connected, client_socket, recv, server, num_connections,
                 client_to_close, active_clients>>

\* Overloaded: the oldest client goes.  Only this thread reads client_to_close, so
\* that it is increased already when DisconnectClient begins makes no difference.
CloseOldest ==
  /\ MayAdjust /\ global_delay = "high" /\ active_clients >= Reserve /\ NoteLimit
  /\ Begin(Test, client_to_close, "disconnect")
  /\ client_to_close' = client_to_close + 1
  /\ UNCHANGED <<connected, client_socket, recv, server, num_connections, active_clients>>

\* max_limit less a twentieth, with the division of C.
Margin == IF max_limit < 0 THEN -((-max_limit) \div 20) ELSE max_limit \div 20

Connects ==
  /\ MayAdjust /\ global_delay = "low" /\ active_clients <= max_limit - Margin
  /\ increasing' = TRUE
  /\ client_socket' = [client_socket EXCEPT ![num_connections] = "open"]
  /\ UNCHANGED <<connected, client_to_close, active_clients, max_limit, global_delay>>

\* A new client: its login is sent and its first WSARecv armed.
Connect ==
  /\ Connects
  /\ recv' = [recv EXCEPT ![num_connections] = "armed"]
  /\ answer' = [answer EXCEPT ![num_connections] = "due"]
  /\ num_connections' = num_connections + 1
  /\ UNCHANGED threads

\* WSAConnect or the WSARecv fails, a message box comes up, and the next client
\* takes the place of this one.
ConnectFails ==
  /\ Connects /\ Begin(Test, 0, "box")
  /\ UNCHANGED <<recv, answer, num_connections>>

\* A client that was connected when the loop looked at it moves.  That changes
\* nothing here, unless its socket was closed since: WSASend fails, and a message
\* box waits for somebody.
MoveClosed(i) ==
  /\ client_socket[i] = "closed" /\ i < num_connections /\ Begin(Test, 0, "box")
  /\ UNCHANGED <<connected, client_socket, recv, server, num_connections,
                 client_to_close, active_clients, limits>>

DismissBox ==
  /\ pc[Test] = "box" /\ Return(Test)
  /\ UNCHANGED <<connected, client_socket, recv, server, num_connections,
                 client_to_close, active_clients, limits>>
-----------------------------------------------------------------------------
Disconnects(t) == ClearFlag(t) \/ CloseSocket(t) \/ Uncount(t)

Work(w) == Disconnects(w) \/ Count(w) \/ Rearm(w)

Completion(w) ==
  \E i \in Clients : TakeLogin(w, i) \/ TakePacket(w, i) \/ TakeFailure(w, i) \/ SendFails(w, i)

Moving == (\E i \in Clients : MoveClosed(i)) \/ DismissBox

Adjust == HoldOn \/ CloseOldest \/ Connect \/ ConnectFails

Next ==
  \/ \E w \in Workers : Work(w) \/ Completion(w)
  \/ Disconnects(Test) \/ Adjust \/ Moving

\* Every thread runs on.  Between two rounds of moves the test thread has another
\* chance to disconnect somebody.  Somebody dismisses message boxes.
Fairness ==
  /\ \A w \in Workers : WF_vars(Work(w))
  /\ WF_vars(Disconnects(Test)) /\ WF_vars(DismissBox)
  /\ SF_vars(CloseOldest)

Spec == Init /\ [][Next]_vars
FairSpec == Spec /\ Fairness
-----------------------------------------------------------------------------
Connected == {i \in Clients : connected[i]}
Busy(labels) == {t \in Threads : pc[t] \in labels}

\* The window shows active_clients and the test thread decides by it.  Flag and
\* count are changed separately, by threads that may be about the same client:
\* the count is wrong only by what threads are about to add or take off.
CountIsExact ==
  active_clients = Cardinality(Connected) + Cardinality(Busy({"close", "uncount"}))
                                          - Cardinality(Busy({"count"}))

\* A client is disconnected by the test thread, by failed receives and by failed
\* sends: closesocket is called at most once for its socket, and no client counts
\* as connected whose socket is closed.
ClosedOnce ==
  /\ \A t \in Busy({"close"}) :
       /\ client_socket[who[t]] = "open" /\ ~connected[who[t]]
       /\ \A u \in Busy({"close"}) : who[u] = who[t] => u = t
  /\ \A i \in Connected : client_socket[i] = "open"

\* Connected clients the test thread has passed and is not about to disconnect:
\* their logins were answered after it came by.
Overtaken ==
  {i \in Connected : i < client_to_close /\ ~(pc[Test] = "disconnect" /\ who[Test] = i)}

\* client_to_close is compared with nothing, although it indexes g_clients.  It runs
\* past the clients there are only when so many of them were overtaken that they make
\* the reserve, but for the few that workers are just disconnecting.
CloserOverruns ==
  [][client_to_close' > client_to_close /\ client_to_close >= num_connections
       => Cardinality(Overtaken) + Cardinality(Busy({"close", "uncount"})) >= Reserve]_vars

\* If the server stays slow, the load comes down to the reserve, unless the limits
\* of the arrays have been reached, when nothing is adjusted any more, or overtaken
\* clients are left, whom nobody disconnects.
LoadBacksOff ==
  <>[](global_delay = "high" /\ active_clients < MAX_TEST /\ num_connections < MAX_CLIENTS)
    => []<>(active_clients < Reserve \/ Overtaken # {})
=============================================================================
