--------------------------- MODULE SessionsProofs ---------------------------
(***************************************************************************)
(* Proofs about Sessions for any numbers of slots, connections, workers    *)
(* and buffers and any kind of users.  Keyed says that everything that     *)
(* names a slot - a completion, a worker, a query - names one that has a   *)
(* socket; AcceptsOne that there is one accept at a time; Attached and     *)
(* InUse tie the RECVs and the workers to the slots they belong to.        *)
(***************************************************************************)
EXTENDS Sessions, TLAPS

\* Positions of workers inside OP_ACCEPT.
Accepting == {"alloc", "setup"}

HasSocket(s) == s \in Slots /\ m_socket[s] \in Conns

Keyed ==
  /\ \A c \in Conns : /\ c \in answered => keyOf[c] \in Slots
                      /\ recv[c] > 0 => keyOf[c] \in Slots
                      /\ keyOf[c] \in Slots => HasSocket(keyOf[c])
  /\ \A s \in Slots : m_socket[s] \in Conns => keyOf[m_socket[s]] \in Slots
  /\ \A w \in Workers : pc[w] \notin Accepting \cup {"idle"} => HasSocket(key[w])
  /\ \A i \in 1 .. Len(QueryQueue) : HasSocket(QueryQueue[i].slot)
  /\ db # "idle" => HasSocket(query.slot)

AcceptsOne ==
  /\ accepted => g_c_socket \in Conns
  /\ \A w \in Workers : pc[w] \in Accepting =>
       /\ g_c_socket \in Conns /\ ~accepted
       /\ \A v \in Workers : pc[v] \in Accepting => v = w

Base == TypeOK /\ Keyed /\ AcceptsOne

LoginNames ==
  /\ \A c \in login : user[c] \in Users /\ client[c] # "new"
  /\ \A w \in Workers : pc[w] \in {"check", "enter"} => heap[name[w]] \in Users
  /\ \A i \in 1 .. Len(QueryQueue) :
       QueryQueue[i].op # "SAVEINFO" => heap[QueryQueue[i].name] \in Users
  /\ db # "idle" /\ query.op # "SAVEINFO" => heap[query.name] \in Users
  /\ db \in {"enter", "ingame", "done"} => query.op = "GETINFO"

LEMMA FreshBuffer ==
  ASSUME HasFresh
  PROVE  Fresh \in Buffers /\ heap[Fresh] = NoName
BY DEF HasFresh, Fresh

\* A query at the end of the queue.
LEMMA PushedQuery ==
  ASSUME NEW q \in Seq(Queries), NEW e \in Queries
  PROVE  /\ Append(q, e) \in Seq(Queries) /\ Len(Append(q, e)) = Len(q) + 1
         /\ \A i \in 1 .. Len(q) : Append(q, e)[i] = q[i]
         /\ Append(q, e)[Len(q) + 1] = e
OBVIOUS

\* The queue without its first query.
LEMMA PoppedQuery ==
  ASSUME NEW q \in Seq(Queries), q # <<>>
  PROVE  /\ Head(q) \in Queries /\ Tail(q) \in Seq(Queries)
         /\ Len(q) \in Nat \ {0} /\ Len(Tail(q)) = Len(q) - 1
         /\ Head(q) = q[1]
         /\ \A i \in 1 .. Len(Tail(q)) : Tail(q)[i] = q[i + 1] /\ i + 1 \in 1 .. Len(q)
OBVIOUS
\* Recv() on a slot's socket.
LEMMA Rearmed ==
  ASSUME Base, NEW s \in Slots, HasSocket(s), RecvOn(s)
  PROVE  /\ recv' \in [Conns -> Nat]
         /\ \A c \in Conns : recv'[c] > 0 => keyOf[c] \in Slots
BY DEF Base, TypeOK, Keyed, HasSocket, RecvOn
\* Every name that somebody has is a buffer.
LEMMA NamesAreBuffers ==
  ASSUME TypeOK
  PROVE  /\ Len(QueryQueue) \in Nat
         /\ \A i \in 1 .. Len(QueryQueue) : QueryQueue[i].name \in Buffers
         /\ db # "idle" => query.name \in Buffers
<1>1. QueryQueue \in Seq(Queries)
  BY DEF TypeOK
<1>2. \A e \in Queries : e.name \in Buffers
  BY DEF Queries
<1>3. db # "idle" => query \in Queries
  BY DEF TypeOK
<1>4. Len(QueryQueue) \in Nat /\ \A i \in 1 .. Len(QueryQueue) : QueryQueue[i] \in Queries
  BY <1>1
<1>. QED BY <1>2, <1>3, <1>4
-----------------------------------------------------------------------------
\* Types, and that every slot anybody works on has a socket.
LEMMA InitBase == Init => Base
<1>. SUFFICES ASSUME Init
             PROVE  Base
  OBVIOUS
<1>1. QueryQueue \in Seq(Queries) /\ Len(QueryQueue) = 0
  BY DEF Init
<1>2. /\ TypeOK /\ AcceptsOne
  BY <1>1, SessionsAssumption DEF Init, TypeOK, AcceptsOne, Accepting
<1>3. Keyed
  BY <1>1, SessionsAssumption DEF Init, Keyed, HasSocket
<1>. QED BY <1>2, <1>3 DEF Base

LEMMA BaseStep ==
  ASSUME Base, LoginNames, [Next]_vars
  PROVE  Base'
  <2>. USE SessionsAssumption DEF Base, TypeOK, Keyed, HasSocket, AcceptsOne, Accepting
  <2>1. ASSUME NEW c \in Conns, NEW u \in Users \cup {NoUser}, Connect(c, u)
        PROVE  Base'
    BY <2>1 DEF Connect, net, fields, table, history, Finish, RecvOn, Answer
  <2>2. ASSUME NEW c \in Conns, Leave(c)
        PROVE  Base'
    BY <2>2 DEF Leave, net, fields, table, history, Finish, RecvOn, Answer
  <2>3. ASSUME NEW w \in Workers, Accept(w)
        PROVE  Base'
    <3>1. PICK s \in Slots : state[s] = "FREE" /\ key' = [key EXCEPT ![w] = s]
      BY <2>3 DEF Accept
    <3>2. TypeOK'
      BY <2>3, <3>1 DEF Accept, net, fields, table, history
    <3>3. Keyed'
      BY <2>3, <3>1 DEF Accept, net, fields, table, history
    <3>4. AcceptsOne'
      BY <2>3, <3>1 DEF Accept, net, fields, table, history
    <3>. QED BY <3>2, <3>3, <3>4
  <2>4. ASSUME NEW w \in Workers, AcceptWhenFull(w)
        PROVE  Base'
    BY <2>4 DEF AcceptWhenFull, net, fields, table, history, Finish, RecvOn, Answer
  <2>5. ASSUME NEW w \in Workers, Alloc(w)
        PROVE  Base'
    BY <2>5 DEF Alloc, net, fields, table, history, Finish, RecvOn, Answer
  <2>6. ASSUME NEW w \in Workers, SetUp(w)
        PROVE  Base'
    BY <2>6 DEF SetUp, net, fields, table, history, Finish, RecvOn, Answer
  <2>7. ASSUME NEW w \in Workers, Refuse(w)
        PROVE  Base'
    <3>1. HasSocket(key[w])
      BY <2>7 DEF Refuse
    <3>2. /\ recv' \in [Conns -> Nat]
          /\ \A c \in Conns : recv'[c] > 0 => keyOf[c] \in Slots
      BY <2>7, <3>1, Rearmed DEF Refuse
    <3>3. answered' \subseteq answered \cup {m_socket[key[w]]}
      BY <2>7 DEF Refuse, Answer
    <3>4. answered' \subseteq Conns /\ \A c \in answered' : keyOf[c] \in Slots
      BY <3>1, <3>3
    <3>5. TypeOK'
      BY <2>7, <3>1, <3>2, <3>4 DEF Refuse, net, fields, table, history, Finish
    <3>6. Keyed'
      BY <2>7, <3>2, <3>4 DEF Refuse, net, fields, table, history, Finish
    <3>7. AcceptsOne'
      BY <2>7 DEF Refuse, net, fields, table, history, Finish
    <3>. QED BY <3>5, <3>6, <3>7
  <2>8. ASSUME NEW w \in Workers, Check(w)
        PROVE  Base'
    <3>1. TypeOK'
      BY <2>8 DEF Check, net, fields, table, history
    <3>2. Keyed'
      BY <2>8 DEF Check, net, fields, table, history
    <3>3. AcceptsOne'
      BY <2>8 DEF Check, net, fields, table, history
    <3>. QED BY <3>1, <3>2, <3>3
  <2>9. ASSUME NEW w \in Workers, EnterTester(w)
        PROVE  Base'
    <3>1. HasSocket(key[w])
      BY <2>9 DEF EnterTester
    <3>2. /\ recv' \in [Conns -> Nat]
          /\ \A c \in Conns : recv'[c] > 0 => keyOf[c] \in Slots
      BY <2>9, <3>1, Rearmed DEF EnterTester
    <3>3. answered' \subseteq answered \cup {m_socket[key[w]]}
      BY <2>9 DEF EnterTester, Answer
    <3>4. answered' \subseteq Conns /\ \A c \in answered' : keyOf[c] \in Slots
      BY <3>1, <3>3
    <3>5. TypeOK'
      BY <2>9, <3>1, <3>2, <3>4 DEF EnterTester, net, fields, table, history, Finish
    <3>6. Keyed'
      BY <2>9, <3>2, <3>4 DEF EnterTester, net, fields, table, history, Finish
    <3>7. AcceptsOne'
      BY <2>9 DEF EnterTester, net, fields, table, history, Finish
    <3>. QED BY <3>5, <3>6, <3>7
  <2>10. ASSUME NEW w \in Workers, PushGetInfo(w)
        PROVE  Base'
    <3>. DEFINE e == [slot |-> key[w], op |-> "GETINFO", name |-> name[w]]
    <3>1. HasSocket(key[w]) /\ name[w] \in Buffers
      BY <2>10 DEF PushGetInfo
    <3>2. e \in Queries /\ e.slot = key[w] /\ e.name = name[w] /\ e.op = "GETINFO"
      BY <3>1 DEF Queries
    <3>3. /\ QueryQueue' \in Seq(Queries) /\ Len(QueryQueue') = Len(QueryQueue) + 1
          /\ \A i \in 1 .. Len(QueryQueue') :
               \/ i \in 1 .. Len(QueryQueue) /\ QueryQueue'[i] = QueryQueue[i]
               \/ i = Len(QueryQueue) + 1 /\ QueryQueue'[i] = e
      BY <2>10, <3>2, PushedQuery DEF PushGetInfo
    <3>4. /\ recv' \in [Conns -> Nat]
          /\ \A c \in Conns : recv'[c] > 0 => keyOf[c] \in Slots
      BY <2>10, <3>1, Rearmed DEF PushGetInfo
    <3>. HIDE DEF e
    <3>. QED BY <2>10, <3>1, <3>2, <3>3, <3>4 DEF PushGetInfo, net, fields, table, history, Finish, RecvOn
  <2>11. ASSUME NEW w \in Workers, CopyName(w)
        PROVE  Base'
    BY <2>11, FreshBuffer DEF CopyName, net, fields, table, history, Finish, RecvOn, Answer
  <2>12. ASSUME NEW w \in Workers, PushSaveInfo(w)
        PROVE  Base'
    <3>. DEFINE e == [slot |-> key[w], op |-> "SAVEINFO", name |-> name[w]]
    <3>1. HasSocket(key[w]) /\ name[w] \in Buffers
      BY <2>12 DEF PushSaveInfo
    <3>2. e \in Queries /\ e.slot = key[w] /\ e.name = name[w] /\ e.op = "SAVEINFO"
      BY <3>1 DEF Queries
    <3>3. /\ QueryQueue' \in Seq(Queries) /\ Len(QueryQueue') = Len(QueryQueue) + 1
          /\ \A i \in 1 .. Len(QueryQueue') :
               \/ i \in 1 .. Len(QueryQueue) /\ QueryQueue'[i] = QueryQueue[i]
               \/ i = Len(QueryQueue) + 1 /\ QueryQueue'[i] = e
      BY <2>12, <3>2, PushedQuery DEF PushSaveInfo
    <3>. HIDE DEF e
    <3>. QED BY <2>12, <3>1, <3>2, <3>3 DEF PushSaveInfo, net, fields, table, history
  <2>13. ASSUME NEW w \in Workers, CloseSocket(w)
        PROVE  Base'
    <3>1. HasSocket(key[w])
      BY <2>13 DEF CloseSocket
    <3>2. closed' \subseteq Conns
      BY <2>13, <3>1 DEF CloseSocket
    <3>3. TypeOK'
      BY <2>13, <3>2 DEF CloseSocket, net, fields, table, history
    <3>4. Keyed'
      BY <2>13 DEF CloseSocket, net, fields, table, history
    <3>5. AcceptsOne'
      BY <2>13 DEF CloseSocket, net, fields, table, history
    <3>. QED BY <3>3, <3>4, <3>5
  <2>14. ASSUME NEW w \in Workers, FreeSlot(w)
        PROVE  Base'
    BY <2>14 DEF FreeSlot, net, fields, table, history, Finish, RecvOn, Answer
  <2>15. ASSUME NEW w \in Workers, NEW c \in Conns, TakeLogin(w, c)
        PROVE  Base'
    <3>1. user[c] \in Users /\ Fresh \in Buffers
      BY <2>15, FreshBuffer DEF TakeLogin, LoginNames
    <3>2. raced' \subseteq Users /\ early' = early
      BY <2>15, <3>1 DEF TakeLogin
    <3>3. TypeOK'
      BY <2>15, <3>1, <3>2, SMTT(30) DEF TakeLogin, fields, table
    <3>4. Keyed'
      BY <2>15, <3>1, SMTT(30) DEF TakeLogin, fields, table
    <3>5. AcceptsOne'
      BY <2>15, <3>1 DEF TakeLogin
    <3>. QED BY <3>3, <3>4, <3>5
  <2>16. ASSUME NEW w \in Workers, NEW c \in Conns, RecvFails(w, c)
        PROVE  Base'
    <3>0. /\ recv[c] > 0 /\ recv' = [recv EXCEPT ![c] = @ - 1]
          /\ key' = [key EXCEPT ![w] = keyOf[c]]
          /\ pc' = [pc EXCEPT ![w] = "disconnect"] /\ pc[w] = "idle"
          /\ UNCHANGED <<state, m_socket, m_userid, owner, place, QueryQueue, heap, db,
                         query, rows, spots, g_c_socket, accepted, client, user, login,
                         answered, keyOf, sendFailed, closed, name, early, raced>>
      BY <2>16 DEF RecvFails, net, fields, table, history
    <3>1. TypeOK'
      <4>1. recv' \in [Conns -> Nat]
        <5>1. recv \in [Conns -> Nat]
          OBVIOUS
        <5>. QED BY ONLY <3>0, <5>1
      <4>2. keyOf[c] \in Slots /\ key' \in [Workers -> Slots \cup {NoSlot}]
        <5>1. keyOf[c] \in Slots /\ key \in [Workers -> Slots \cup {NoSlot}]
          BY <3>0
        <5>. QED BY ONLY <3>0, <5>1
      <4>3. /\ \A v \in Workers : pc'[v] # "idle" => key'[v] \in Slots
            /\ \A v \in Workers : pc'[v] \in {"check", "enter", "save"} <=> name[v] \in Buffers
        <5>1. /\ pc \in [Workers -> {"idle", "alloc", "setup", "check", "enter",
                                     "disconnect", "save", "close", "free"}]
              /\ key \in [Workers -> Slots \cup {NoSlot}]
              /\ \A v \in Workers : pc[v] # "idle" => key[v] \in Slots
              /\ \A v \in Workers : pc[v] \in {"check", "enter", "save"} <=> name[v] \in Buffers
          OBVIOUS
        <5>. QED BY ONLY <3>0, <4>2, <5>1
      <4>. QED BY <3>0, <4>1, <4>2, <4>3
    <3>2. Keyed'
      BY <2>16, SMTT(30) DEF RecvFails, net, fields, table, history
    <3>3. AcceptsOne'
      BY <2>16 DEF RecvFails, net, fields, table
    <3>. QED BY <3>1, <3>2, <3>3
  <2>17. ASSUME NEW w \in Workers, NEW c \in Conns, SendFails(w, c)
        PROVE  Base'
    <3>0. /\ keyOf[c] \in Slots /\ sendFailed' \subseteq Conns
          /\ key' = [key EXCEPT ![w] = keyOf[c]]
          /\ pc' = [pc EXCEPT ![w] = "disconnect"] /\ pc[w] = "idle"
          /\ UNCHANGED <<state, m_socket, m_userid, owner, place, QueryQueue, heap, db,
                         query, rows, spots, g_c_socket, accepted, client, user, login,
                         answered, keyOf, recv, closed, name, early, raced>>
      BY <2>17 DEF SendFails, fields, table, history
    <3>1. TypeOK'
      <4>1. key' \in [Workers -> Slots \cup {NoSlot}]
        BY <3>0
      <4>2. /\ \A v \in Workers : pc'[v] # "idle" => key'[v] \in Slots
            /\ \A v \in Workers : pc'[v] \in {"check", "enter", "save"} <=> name[v] \in Buffers
        <5>1. /\ pc \in [Workers -> {"idle", "alloc", "setup", "check", "enter",
                                     "disconnect", "save", "close", "free"}]
              /\ key \in [Workers -> Slots \cup {NoSlot}]
              /\ \A v \in Workers : pc[v] # "idle" => key[v] \in Slots
              /\ \A v \in Workers : pc[v] \in {"check", "enter", "save"} <=> name[v] \in Buffers
          OBVIOUS
        <5>. QED BY ONLY <3>0, <5>1
      <4>. QED BY <3>0, <4>1, <4>2
    <3>2. Keyed'
      BY <2>17, SMTT(30) DEF SendFails, net, fields, table, history
    <3>3. AcceptsOne'
      BY <2>17 DEF SendFails, net, fields, table
    <3>. QED BY <3>1, <3>2, <3>3
  <2>18. ASSUME Pop
        PROVE  Base'
    <3>1. /\ query' \in Queries /\ QueryQueue' \in Seq(Queries)
          /\ Len(QueryQueue) \in Nat \ {0} /\ Len(QueryQueue') = Len(QueryQueue) - 1
          /\ query' = QueryQueue[1]
          /\ \A i \in 1 .. Len(QueryQueue') :
               QueryQueue'[i] = QueryQueue[i + 1] /\ i + 1 \in 1 .. Len(QueryQueue)
      BY <2>18, PoppedQuery DEF Pop
    <3>. QED BY <2>18, <3>1 DEF Pop, net, fields, table, history
  <2>19. ASSUME GetInfoFails
        PROVE  Base'
    BY <2>19 DEF GetInfoFails, net, fields, table, history, Finish, RecvOn, Answer, Asked, Freed
  <2>20. ASSUME Load
        PROVE  Base'
    <3>1. query \in Queries /\ query.slot \in Slots /\ Asked \in Users
      BY <2>20 DEF Load, Asked, LoginNames, Queries
    <3>. QED BY <2>20, <3>1 DEF Load, net, fields, table, history
  <2>21. ASSUME SendLoginInfo
        PROVE  Base'
    <3>1. HasSocket(query.slot)
      BY <2>21 DEF SendLoginInfo
    <3>2. answered' \subseteq answered \cup {m_socket[query.slot]}
      BY <2>21 DEF SendLoginInfo, Answer
    <3>3. answered' \subseteq Conns /\ \A c \in answered' : keyOf[c] \in Slots
      BY <3>1, <3>2
    <3>4. TypeOK'
      BY <2>21, <3>1, <3>3 DEF SendLoginInfo, net, fields, table, history
    <3>5. Keyed'
      BY <2>21, <3>1, <3>3 DEF SendLoginInfo, net, fields, table, history
    <3>6. AcceptsOne'
      BY <2>21, <3>1, <3>3 DEF SendLoginInfo, net, fields, table, history
    <3>. QED BY <3>4, <3>5, <3>6
  <2>22. ASSUME EnterGame
        PROVE  Base'
    BY <2>22 DEF EnterGame, net, fields, table, history, Finish, RecvOn, Answer, Asked, Freed
  <2>23. ASSUME DeleteName
        PROVE  Base'
    BY <2>23 DEF DeleteName, net, fields, table, history, Finish, RecvOn, Answer, Asked, Freed
  <2>24. ASSUME PushCreateId
        PROVE  Base'
    <3>. DEFINE e == [query EXCEPT !.op = "CREATEID"]
    <3>1. query \in Queries
      BY <2>24 DEF PushCreateId
    <3>2. e \in Queries /\ e.slot = query.slot /\ e.name = query.name /\ e.op = "CREATEID"
      BY <3>1 DEF Queries
    <3>3. /\ QueryQueue' \in Seq(Queries) /\ Len(QueryQueue') = Len(QueryQueue) + 1
          /\ \A i \in 1 .. Len(QueryQueue') :
               \/ i \in 1 .. Len(QueryQueue) /\ QueryQueue'[i] = QueryQueue[i]
               \/ i = Len(QueryQueue) + 1 /\ QueryQueue'[i] = e
      BY <2>24, <3>2, PushedQuery DEF PushCreateId
    <3>. HIDE DEF e
    <3>. QED BY <2>24, <3>1, <3>2, <3>3 DEF PushCreateId, net, fields, table, history
  <2>25. ASSUME Store
        PROVE  Base'
    <3>1. query \in Queries /\ query.slot \in Slots /\ query.name \in Buffers
      BY <2>25 DEF Store, Queries
    <3>2. owner[query.slot] \in Users \cup {NoUser} /\ place[query.slot] \in Users \cup {NoUser}
      BY <3>1
    <3>3. \/ UNCHANGED table
          \/ /\ rows' = [u \in Users |-> IF Stored(u) THEN owner[query.slot] ELSE rows[u]]
             /\ spots' = [u \in Users |-> IF Stored(u) THEN place[query.slot] ELSE spots[u]]
      BY <2>25 DEF Store
    <3>4. /\ rows' \in [Users -> Users \cup {NoUser}]
          /\ spots' \in [Users -> Users \cup {NoUser}]
      <4>. DEFINE All == Users \cup {NoUser}
                  o == owner[query.slot]
                  p == place[query.slot]
      <4>1. rows \in [Users -> All] /\ spots \in [Users -> All] /\ o \in All /\ p \in All
        BY <3>2
      <4>2. \/ UNCHANGED <<rows, spots>>
            \/ /\ rows' = [u \in Users |-> IF Stored(u) THEN o ELSE rows[u]]
               /\ spots' = [u \in Users |-> IF Stored(u) THEN p ELSE spots[u]]
        BY <3>3 DEF table
      <4>. HIDE DEF All, o, p
      <4>3. rows' \in [Users -> All] /\ spots' \in [Users -> All]
        BY ONLY <4>1, <4>2
      <4>. QED BY <4>3 DEF All
    <3>. QED BY <2>25, <3>1, <3>4 DEF Store, net, fields, table, history, Freed
  <2>26. CASE UNCHANGED vars
    BY <2>26 DEF vars, net, fields, table, history, Finish, RecvOn, Answer
  <2>. QED
    BY <2>1, <2>2, <2>3, <2>4, <2>5, <2>6, <2>7, <2>8, <2>9, <2>10, <2>11,
       <2>12, <2>13, <2>14, <2>15, <2>16, <2>17, <2>18, <2>19, <2>20, <2>21,
       <2>22, <2>23, <2>24, <2>25, <2>26
       DEF Next, Clients, Database, Take, Proceed
-----------------------------------------------------------------------------
\* A name buffer has one owner.
LEMMA NamesStep ==
  ASSUME Base, NamesHaveOneOwner, [Next]_vars
  PROVE  NamesHaveOneOwner'
  <2>. USE SessionsAssumption DEF NamesHaveOneOwner
  <2>. TypeOK
    BY DEF Base
  <2>1. ASSUME NEW c \in Conns, NEW u \in Users \cup {NoUser}, Connect(c, u)
        PROVE  NamesHaveOneOwner'
    <3>1. UNCHANGED <<pc, name, heap, QueryQueue, db, query>>
      BY <2>1 DEF Connect, table
    <3>. QED BY <3>1 DEF Queries
  <2>2. ASSUME NEW c \in Conns, Leave(c)
        PROVE  NamesHaveOneOwner'
    BY <2>2 DEF Leave, net, fields, table, history, Finish, RecvOn, Answer, Queries, TypeOK
  <2>3. ASSUME NEW w \in Workers, Accept(w)
        PROVE  NamesHaveOneOwner'
    BY <2>3 DEF Accept, net, fields, table, history, Finish, RecvOn, Answer, Queries, TypeOK
  <2>4. ASSUME NEW w \in Workers, AcceptWhenFull(w)
        PROVE  NamesHaveOneOwner'
    BY <2>4 DEF AcceptWhenFull, net, fields, table, history, Finish, RecvOn, Answer, Queries, TypeOK
  <2>5. ASSUME NEW w \in Workers, Alloc(w)
        PROVE  NamesHaveOneOwner'
    BY <2>5 DEF Alloc, net, fields, table, history, Finish, RecvOn, Answer, Queries, TypeOK
  <2>6. ASSUME NEW w \in Workers, SetUp(w)
        PROVE  NamesHaveOneOwner'
    <3>1. /\ \A v \in Workers : name'[v] = IF v = w THEN NoName ELSE name[v]
          /\ heap' = heap
          /\ UNCHANGED <<QueryQueue, db, query>>
      BY <2>6 DEF SetUp, Finish, TypeOK, net, fields, table, history
    <3>2. heap \in [Buffers -> Users \cup {NoUser, NoName}]
      BY DEF TypeOK
    <3>. QED BY <3>1, <3>2, NamesAreBuffers
  <2>7. ASSUME NEW w \in Workers, Refuse(w)
        PROVE  NamesHaveOneOwner'
    <3>1. /\ \A v \in Workers : name'[v] = IF v = w THEN NoName ELSE name[v]
          /\ heap' = heap
          /\ UNCHANGED <<QueryQueue, db, query>>
      BY <2>7 DEF Refuse, Finish, TypeOK, net, fields, table, history
    <3>2. heap \in [Buffers -> Users \cup {NoUser, NoName}]
      BY DEF TypeOK
    <3>. QED BY <3>1, <3>2, NamesAreBuffers
  <2>8. ASSUME NEW w \in Workers, Check(w)
        PROVE  NamesHaveOneOwner'
    BY <2>8 DEF Check, net, fields, table, history, Finish, RecvOn, Answer, Queries, TypeOK
  <2>9. ASSUME NEW w \in Workers, EnterTester(w)
        PROVE  NamesHaveOneOwner'
    <3>1. /\ \A v \in Workers : name'[v] = IF v = w THEN NoName ELSE name[v]
          /\ heap' = [heap EXCEPT ![name[w]] = NoName]
          /\ UNCHANGED <<QueryQueue, db, query>>
      BY <2>9 DEF EnterTester, Finish, TypeOK, net, fields, table, history
    <3>2. heap \in [Buffers -> Users \cup {NoUser, NoName}]
      BY DEF TypeOK
    <3>. QED BY <3>1, <3>2, NamesAreBuffers
  <2>10. ASSUME NEW w \in Workers, PushGetInfo(w)
        PROVE  NamesHaveOneOwner'
    <3>. DEFINE e == [slot |-> key[w], op |-> "GETINFO", name |-> name[w]]
    <3>1. key[w] \in Slots /\ name[w] \in Buffers
      BY <2>10 DEF PushGetInfo, TypeOK
    <3>2. e \in Queries /\ e.slot = key[w] /\ e.name = name[w]
      BY <3>1 DEF Queries
    <3>3. /\ QueryQueue' \in Seq(Queries) /\ Len(QueryQueue') = Len(QueryQueue) + 1
          /\ \A i \in 1 .. Len(QueryQueue') :
               \/ i \in 1 .. Len(QueryQueue) /\ QueryQueue'[i] = QueryQueue[i]
               \/ i = Len(QueryQueue) + 1 /\ QueryQueue'[i] = e
      BY <2>10, <3>2, PushedQuery DEF PushGetInfo, TypeOK
    <3>. HIDE DEF e
    <3>4. /\ \A v \in Workers : name'[v] = IF v = w THEN NoName ELSE name[v]
          /\ UNCHANGED <<heap, db, query>>
      BY <2>10 DEF PushGetInfo, Finish, TypeOK
    <3>5. \A i \in 1 .. Len(QueryQueue) : QueryQueue[i].name # name[w]
      OBVIOUS
    <3>6. \A i, j \in 1 .. Len(QueryQueue') :
            QueryQueue'[i].name = QueryQueue'[j].name => i = j
      BY <3>2, <3>3, <3>5, NamesAreBuffers
    <3>7. \A i \in 1 .. Len(QueryQueue') :
            /\ heap'[QueryQueue'[i].name] # NoName
            /\ db' # "idle" => QueryQueue'[i].name # query'.name
            /\ \A v \in Workers : QueryQueue'[i].name # name'[v]
      BY <3>1, <3>2, <3>3, <3>4, <3>5, NamesAreBuffers
    <3>8. /\ db' # "idle" => /\ heap'[query'.name] # NoName
                             /\ \A v \in Workers : name'[v] # query'.name
          /\ \A v \in Workers : name'[v] \in Buffers =>
               /\ heap'[name'[v]] # NoName
               /\ \A u \in Workers : name'[u] = name'[v] => u = v
      BY <3>4, NamesAreBuffers
    <3>. QED BY <3>6, <3>7, <3>8
  <2>11. ASSUME NEW w \in Workers, CopyName(w)
        PROVE  NamesHaveOneOwner'
    BY <2>11, FreshBuffer DEF CopyName, net, fields, table, history, Finish, RecvOn, Answer, Queries, TypeOK
  <2>12. ASSUME NEW w \in Workers, PushSaveInfo(w)
        PROVE  NamesHaveOneOwner'
    <3>. DEFINE e == [slot |-> key[w], op |-> "SAVEINFO", name |-> name[w]]
    <3>1. key[w] \in Slots /\ name[w] \in Buffers
      BY <2>12 DEF PushSaveInfo, TypeOK
    <3>2. e \in Queries /\ e.slot = key[w] /\ e.name = name[w]
      BY <3>1 DEF Queries
    <3>3. /\ QueryQueue' \in Seq(Queries) /\ Len(QueryQueue') = Len(QueryQueue) + 1
          /\ \A i \in 1 .. Len(QueryQueue') :
               \/ i \in 1 .. Len(QueryQueue) /\ QueryQueue'[i] = QueryQueue[i]
               \/ i = Len(QueryQueue) + 1 /\ QueryQueue'[i] = e
      BY <2>12, <3>2, PushedQuery DEF PushSaveInfo, TypeOK
    <3>. HIDE DEF e
    <3>4. /\ \A v \in Workers : name'[v] = IF v = w THEN NoName ELSE name[v]
          /\ UNCHANGED <<heap, db, query>>
      BY <2>12 DEF PushSaveInfo, Finish, TypeOK
    <3>5. \A i \in 1 .. Len(QueryQueue) : QueryQueue[i].name # name[w]
      OBVIOUS
    <3>6. \A i, j \in 1 .. Len(QueryQueue') :
            QueryQueue'[i].name = QueryQueue'[j].name => i = j
      BY <3>2, <3>3, <3>5, NamesAreBuffers
    <3>7. \A i \in 1 .. Len(QueryQueue') :
            /\ heap'[QueryQueue'[i].name] # NoName
            /\ db' # "idle" => QueryQueue'[i].name # query'.name
            /\ \A v \in Workers : QueryQueue'[i].name # name'[v]
      BY <3>1, <3>2, <3>3, <3>4, <3>5, NamesAreBuffers
    <3>8. /\ db' # "idle" => /\ heap'[query'.name] # NoName
                             /\ \A v \in Workers : name'[v] # query'.name
          /\ \A v \in Workers : name'[v] \in Buffers =>
               /\ heap'[name'[v]] # NoName
               /\ \A u \in Workers : name'[u] = name'[v] => u = v
      BY <3>4, NamesAreBuffers
    <3>. QED BY <3>6, <3>7, <3>8
  <2>13. ASSUME NEW w \in Workers, CloseSocket(w)
        PROVE  NamesHaveOneOwner'
    BY <2>13 DEF CloseSocket, net, fields, table, history, Finish, RecvOn, Answer, Queries, TypeOK
  <2>14. ASSUME NEW w \in Workers, FreeSlot(w)
        PROVE  NamesHaveOneOwner'
    <3>1. /\ \A v \in Workers : name'[v] = IF v = w THEN NoName ELSE name[v]
          /\ heap' = heap
          /\ UNCHANGED <<QueryQueue, db, query>>
      BY <2>14 DEF FreeSlot, Finish, TypeOK, net, fields, table, history
    <3>2. heap \in [Buffers -> Users \cup {NoUser, NoName}]
      BY DEF TypeOK
    <3>. QED BY <3>1, <3>2, NamesAreBuffers
  <2>15. ASSUME NEW w \in Workers, NEW c \in Conns, TakeLogin(w, c)
        PROVE  NamesHaveOneOwner'
    BY <2>15, FreshBuffer
       DEF TakeLogin, net, fields, table, history, Finish, RecvOn, Answer, Queries, TypeOK
  <2>16. ASSUME NEW w \in Workers, NEW c \in Conns, RecvFails(w, c)
        PROVE  NamesHaveOneOwner'
    BY <2>16 DEF RecvFails, net, fields, table, history, Finish, RecvOn, Answer, Queries, TypeOK
  <2>17. ASSUME NEW w \in Workers, NEW c \in Conns, SendFails(w, c)
        PROVE  NamesHaveOneOwner'
    BY <2>17 DEF SendFails, net, fields, table, history, Finish, RecvOn, Answer, Queries, TypeOK
  <2>18. ASSUME Pop
        PROVE  NamesHaveOneOwner'
    <3>1. /\ query' \in Queries /\ QueryQueue' \in Seq(Queries)
          /\ Len(QueryQueue) \in Nat \ {0} /\ Len(QueryQueue') = Len(QueryQueue) - 1
          /\ query' = QueryQueue[1]
          /\ \A i \in 1 .. Len(QueryQueue') :
               QueryQueue'[i] = QueryQueue[i + 1] /\ i + 1 \in 1 .. Len(QueryQueue)
      BY <2>18, PoppedQuery DEF Pop, TypeOK
    <3>. QED BY <2>18, <3>1 DEF Pop, net, fields, table, history, Queries, TypeOK
  <2>19. ASSUME GetInfoFails
        PROVE  NamesHaveOneOwner'
    BY <2>19
       DEF GetInfoFails, net, fields, table, history, Finish, RecvOn, Answer, Queries, TypeOK, Asked,
       Freed
  <2>20. ASSUME Load
        PROVE  NamesHaveOneOwner'
    BY <2>20 DEF Load, net, fields, table, history, Finish, RecvOn, Answer, Queries, TypeOK, Asked, Freed
  <2>21. ASSUME SendLoginInfo
        PROVE  NamesHaveOneOwner'
    BY <2>21
       DEF SendLoginInfo, net, fields, table, history, Finish, RecvOn, Answer, Queries, TypeOK, Asked,
       Freed
  <2>22. ASSUME EnterGame
        PROVE  NamesHaveOneOwner'
    BY <2>22
       DEF EnterGame, net, fields, table, history, Finish, RecvOn, Answer, Queries, TypeOK, Asked, Freed
  <2>23. ASSUME DeleteName
        PROVE  NamesHaveOneOwner'
    BY <2>23
       DEF DeleteName, net, fields, table, history, Finish, RecvOn, Answer, Queries, TypeOK, Asked,
       Freed
  <2>24. ASSUME PushCreateId
        PROVE  NamesHaveOneOwner'
    <3>. DEFINE e == [query EXCEPT !.op = "CREATEID"]
    <3>1. query \in Queries
      BY <2>24 DEF PushCreateId, TypeOK
    <3>2. e \in Queries /\ e.slot = query.slot /\ e.name = query.name /\ e.op = "CREATEID"
      BY <3>1 DEF Queries
    <3>3. /\ QueryQueue' \in Seq(Queries) /\ Len(QueryQueue') = Len(QueryQueue) + 1
          /\ \A i \in 1 .. Len(QueryQueue') :
               \/ i \in 1 .. Len(QueryQueue) /\ QueryQueue'[i] = QueryQueue[i]
               \/ i = Len(QueryQueue) + 1 /\ QueryQueue'[i] = e
      BY <2>24, <3>2, PushedQuery DEF PushCreateId, TypeOK
    <3>. HIDE DEF e
    <3>. QED BY <2>24, <3>1, <3>2, <3>3 DEF PushCreateId, net, fields, table, history, Queries, TypeOK
  <2>25. ASSUME Store
        PROVE  NamesHaveOneOwner'
    BY <2>25 DEF Store, net, fields, table, history, Finish, RecvOn, Answer, Queries, TypeOK, Asked, Freed
  <2>26. CASE UNCHANGED vars
    BY <2>26 DEF vars, net, fields, table, history, Finish, RecvOn, Answer, Queries, TypeOK
  <2>. QED
    BY <2>1, <2>2, <2>3, <2>4, <2>5, <2>6, <2>7, <2>8, <2>9, <2>10, <2>11,
       <2>12, <2>13, <2>14, <2>15, <2>16, <2>17, <2>18, <2>19, <2>20, <2>21,
       <2>22, <2>23, <2>24, <2>25, <2>26
       DEF Next, Clients, Database, Take, Proceed
-----------------------------------------------------------------------------
\* What a login was asked with is a user id until it is done.
LEMMA LoginNamesStep ==
  ASSUME Base, NamesHaveOneOwner, LoginNames, [Next]_vars
  PROVE  LoginNames'
  <2>. USE SessionsAssumption DEF Base, TypeOK, NamesHaveOneOwner, LoginNames
  <2>1. ASSUME NEW c \in Conns, NEW u \in Users \cup {NoUser}, Connect(c, u)
        PROVE  LoginNames'
    BY <2>1 DEF Connect, net, fields, table, history, Finish, RecvOn, Answer, Queries
  <2>2. ASSUME NEW c \in Conns, Leave(c)
        PROVE  LoginNames'
    BY <2>2 DEF Leave, net, fields, table, history, Finish, RecvOn, Answer, Queries
  <2>3. ASSUME NEW w \in Workers, Accept(w)
        PROVE  LoginNames'
    BY <2>3 DEF Accept, net, fields, table, history, Finish, RecvOn, Answer, Queries
  <2>4. ASSUME NEW w \in Workers, AcceptWhenFull(w)
        PROVE  LoginNames'
    BY <2>4 DEF AcceptWhenFull, net, fields, table, history, Finish, RecvOn, Answer, Queries
  <2>5. ASSUME NEW w \in Workers, Alloc(w)
        PROVE  LoginNames'
    BY <2>5 DEF Alloc, net, fields, table, history, Finish, RecvOn, Answer, Queries
  <2>6. ASSUME NEW w \in Workers, SetUp(w)
        PROVE  LoginNames'
    BY <2>6 DEF SetUp, net, fields, table, history, Finish, RecvOn, Answer, Queries
  <2>7. ASSUME NEW w \in Workers, Refuse(w)
        PROVE  LoginNames'
    BY <2>7 DEF Refuse, net, fields, table, history, Finish, RecvOn, Answer, Queries
  <2>8. ASSUME NEW w \in Workers, Check(w)
        PROVE  LoginNames'
    BY <2>8 DEF Check, net, fields, table, history, Finish, RecvOn, Answer, Queries
  <2>9. ASSUME NEW w \in Workers, EnterTester(w)
        PROVE  LoginNames'
    BY <2>9 DEF EnterTester, net, fields, table, history, Finish, RecvOn, Answer, Queries
  <2>10. ASSUME NEW w \in Workers, PushGetInfo(w)
        PROVE  LoginNames'
    <3>. DEFINE e == [slot |-> key[w], op |-> "GETINFO", name |-> name[w]]
    <3>1. key[w] \in Slots /\ name[w] \in Buffers
      BY <2>10 DEF PushGetInfo
    <3>2. e \in Queries /\ e.slot = key[w] /\ e.name = name[w] /\ e.op = "GETINFO"
      BY <3>1 DEF Queries
    <3>3. /\ QueryQueue' \in Seq(Queries) /\ Len(QueryQueue') = Len(QueryQueue) + 1
          /\ \A i \in 1 .. Len(QueryQueue') :
               \/ i \in 1 .. Len(QueryQueue) /\ QueryQueue'[i] = QueryQueue[i]
               \/ i = Len(QueryQueue) + 1 /\ QueryQueue'[i] = e
      BY <2>10, <3>2, PushedQuery DEF PushGetInfo
    <3>. HIDE DEF e
    <3>. QED BY <2>10, <3>1, <3>2, <3>3 DEF PushGetInfo, net, fields, table, history, Finish, RecvOn, Queries
  <2>11. ASSUME NEW w \in Workers, CopyName(w)
        PROVE  LoginNames'
    BY <2>11, FreshBuffer DEF CopyName, net, fields, table, history, Finish, RecvOn, Answer, Queries
  <2>12. ASSUME NEW w \in Workers, PushSaveInfo(w)
        PROVE  LoginNames'
    <3>. DEFINE e == [slot |-> key[w], op |-> "SAVEINFO", name |-> name[w]]
    <3>1. key[w] \in Slots /\ name[w] \in Buffers
      BY <2>12 DEF PushSaveInfo
    <3>2. e \in Queries /\ e.slot = key[w] /\ e.name = name[w] /\ e.op = "SAVEINFO"
      BY <3>1 DEF Queries
    <3>3. /\ QueryQueue' \in Seq(Queries) /\ Len(QueryQueue') = Len(QueryQueue) + 1
          /\ \A i \in 1 .. Len(QueryQueue') :
               \/ i \in 1 .. Len(QueryQueue) /\ QueryQueue'[i] = QueryQueue[i]
               \/ i = Len(QueryQueue) + 1 /\ QueryQueue'[i] = e
      BY <2>12, <3>2, PushedQuery DEF PushSaveInfo
    <3>. HIDE DEF e
    <3>. QED BY <2>12, <3>1, <3>2, <3>3 DEF PushSaveInfo, net, fields, table, history, Queries
  <2>13. ASSUME NEW w \in Workers, CloseSocket(w)
        PROVE  LoginNames'
    BY <2>13 DEF CloseSocket, net, fields, table, history, Finish, RecvOn, Answer, Queries
  <2>14. ASSUME NEW w \in Workers, FreeSlot(w)
        PROVE  LoginNames'
    BY <2>14 DEF FreeSlot, net, fields, table, history, Finish, RecvOn, Answer, Queries
  <2>15. ASSUME NEW w \in Workers, NEW c \in Conns, TakeLogin(w, c)
        PROVE  LoginNames'
    BY <2>15, FreshBuffer DEF TakeLogin, net, fields, table, history, Finish, RecvOn, Answer, Queries
  <2>16. ASSUME NEW w \in Workers, NEW c \in Conns, RecvFails(w, c)
        PROVE  LoginNames'
    BY <2>16 DEF RecvFails, net, fields, table, history, Finish, RecvOn, Answer, Queries
  <2>17. ASSUME NEW w \in Workers, NEW c \in Conns, SendFails(w, c)
        PROVE  LoginNames'
    BY <2>17 DEF SendFails, net, fields, table, history, Finish, RecvOn, Answer, Queries
  <2>18. ASSUME Pop
        PROVE  LoginNames'
    <3>1. /\ query' \in Queries /\ QueryQueue' \in Seq(Queries)
          /\ Len(QueryQueue) \in Nat \ {0} /\ Len(QueryQueue') = Len(QueryQueue) - 1
          /\ query' = QueryQueue[1]
          /\ \A i \in 1 .. Len(QueryQueue') :
               QueryQueue'[i] = QueryQueue[i + 1] /\ i + 1 \in 1 .. Len(QueryQueue)
      BY <2>18, PoppedQuery DEF Pop
    <3>. QED BY <2>18, <3>1 DEF Pop, net, fields, table, history, Queries
  <2>19. ASSUME GetInfoFails
        PROVE  LoginNames'
    BY <2>19 DEF GetInfoFails, net, fields, table, history, Finish, RecvOn, Answer, Queries, Asked, Freed
  <2>20. ASSUME Load
        PROVE  LoginNames'
    BY <2>20 DEF Load, net, fields, table, history, Finish, RecvOn, Answer, Queries, Asked, Freed
  <2>21. ASSUME SendLoginInfo
        PROVE  LoginNames'
    BY <2>21 DEF SendLoginInfo, net, fields, table, history, Finish, RecvOn, Answer, Queries, Asked, Freed
  <2>22. ASSUME EnterGame
        PROVE  LoginNames'
    BY <2>22 DEF EnterGame, net, fields, table, history, Finish, RecvOn, Answer, Queries, Asked, Freed
  <2>23. ASSUME DeleteName
        PROVE  LoginNames'
    BY <2>23 DEF DeleteName, net, fields, table, history, Finish, RecvOn, Answer, Queries, Asked, Freed
  <2>24. ASSUME PushCreateId
        PROVE  LoginNames'
    <3>. DEFINE e == [query EXCEPT !.op = "CREATEID"]
    <3>1. query \in Queries
      BY <2>24 DEF PushCreateId
    <3>2. e \in Queries /\ e.slot = query.slot /\ e.name = query.name /\ e.op = "CREATEID"
      BY <3>1 DEF Queries
    <3>3. /\ QueryQueue' \in Seq(Queries) /\ Len(QueryQueue') = Len(QueryQueue) + 1
          /\ \A i \in 1 .. Len(QueryQueue') :
               \/ i \in 1 .. Len(QueryQueue) /\ QueryQueue'[i] = QueryQueue[i]
               \/ i = Len(QueryQueue) + 1 /\ QueryQueue'[i] = e
      BY <2>24, <3>2, PushedQuery DEF PushCreateId
    <3>. HIDE DEF e
    <3>4. /\ UNCHANGED <<heap, pc, name, login, user, client>> /\ db' = "idle"
          /\ heap[query.name] \in Users
      BY <2>24 DEF PushCreateId, net, fields, table, history
    <3>5. \A i \in 1 .. Len(QueryQueue') :
            QueryQueue'[i].op # "SAVEINFO" => heap'[QueryQueue'[i].name] \in Users
      <4>. SUFFICES ASSUME NEW i \in 1 .. Len(QueryQueue'), QueryQueue'[i].op # "SAVEINFO"
                    PROVE  heap[QueryQueue'[i].name] \in Users
        BY <3>4
      <4>1. CASE i \in 1 .. Len(QueryQueue) /\ QueryQueue'[i] = QueryQueue[i]
        BY <4>1
      <4>2. CASE QueryQueue'[i] = e
        BY <3>2, <3>4, <4>2
      <4>. QED BY <3>3, <4>1, <4>2
    <3>. QED BY <3>4, <3>5
  <2>25. ASSUME Store
        PROVE  LoginNames'
    BY <2>25 DEF Store, net, fields, table, history, Finish, RecvOn, Answer, Queries, Asked, Freed
  <2>26. CASE UNCHANGED vars
    BY <2>26 DEF vars, net, fields, table, history, Finish, RecvOn, Answer, Queries
  <2>. QED
    BY <2>1, <2>2, <2>3, <2>4, <2>5, <2>6, <2>7, <2>8, <2>9, <2>10, <2>11,
       <2>12, <2>13, <2>14, <2>15, <2>16, <2>17, <2>18, <2>19, <2>20, <2>21,
       <2>22, <2>23, <2>24, <2>25, <2>26
       DEF Next, Clients, Database, Take, Proceed
-----------------------------------------------------------------------------
LEMMA BaseInvariant == Spec => [](Base /\ NamesHaveOneOwner /\ LoginNames)
<1>. DEFINE Inv == Base /\ NamesHaveOneOwner /\ LoginNames
<1>1. Init => Inv
  BY InitBase, SessionsAssumption DEF Init, NamesHaveOneOwner, LoginNames
<1>2. Inv /\ [Next]_vars => Inv'
  BY BaseStep, NamesStep, LoginNamesStep
<1>. QED
  BY <1>1, <1>2, PTL DEF Spec
-----------------------------------------------------------------------------
Loading == db = "exec" /\ query.op = "GETINFO"

\* Who writes what.
Writers ==
  /\ \/ UNCHANGED <<client, user>>
     \/ \E c \in Conns : Leave(c) \/ \E u \in Users \cup {NoUser} : Connect(c, u)
  /\ \/ login' = login
     \/ \E c \in Conns : \/ \E u \in Users \cup {NoUser} : Connect(c, u)
                         \/ \E w \in Workers : TakeLogin(w, c)
  /\ \/ g_c_socket' = g_c_socket \/ \E w \in Workers : SetUp(w)
     \/ \E c \in Conns, u \in Users \cup {NoUser} : Connect(c, u)
  /\ closed' = closed \/ \E w \in Workers : CloseSocket(w)
  /\ sendFailed' = sendFailed \/ \E w \in Workers, c \in Conns : SendFails(w, c)
  /\ early' = early \/ \E c \in Conns : Leave(c)
  /\ raced' = raced \/ \E w \in Workers, c \in Conns : TakeLogin(w, c)
  /\ UNCHANGED <<m_socket, keyOf>> \/ \E w \in Workers : SetUp(w)
  /\ \/ state' = state \/ EnterGame
     \/ \E w \in Workers : Alloc(w) \/ EnterTester(w) \/ FreeSlot(w)
  /\ \/ m_userid' = m_userid \/ Load
     \/ \E w \in Workers : EnterTester(w) \/ CopyName(w)
  /\ owner' = owner \/ Load \/ \E w \in Workers : EnterTester(w)
  /\ place' = place \/ Load \/ \E w \in Workers : EnterTester(w) \/ SetUp(w)
  /\ UNCHANGED table \/ Store
  /\ \/ UNCHANGED QueryQueue /\ (Loading' => Loading /\ query' = query)
     \/ Pop \/ PushCreateId \/ \E w \in Workers : PushGetInfo(w) \/ PushSaveInfo(w)
  /\ \A w \in Workers :
       pc[w] = "free" => (pc'[w] = "free" /\ key'[w] = key[w]) \/ FreeSlot(w)

LEMMA Frame ==
  ASSUME TypeOK, [Next]_vars
  PROVE  Writers
<1>. USE DEF TypeOK, Writers
<1>1. ASSUME NEW c \in Conns, NEW u \in Users \cup {NoUser}, Connect(c, u)
      PROVE  Writers
  BY <1>1 DEF Connect, net, fields, table, history, Finish, Loading
<1>2. ASSUME NEW c \in Conns, Leave(c)
      PROVE  Writers
  BY <1>2 DEF Leave, net, fields, table, history, Finish, Loading
<1>3. ASSUME NEW w \in Workers, Accept(w)
      PROVE  Writers
  BY <1>3 DEF Accept, net, fields, table, history, Finish, Loading
<1>4. ASSUME NEW w \in Workers, AcceptWhenFull(w)
      PROVE  Writers
  BY <1>4 DEF AcceptWhenFull, net, fields, table, history, Finish, Loading
<1>5. ASSUME NEW w \in Workers, Alloc(w)
      PROVE  Writers
  BY <1>5 DEF Alloc, net, fields, table, history, Finish, Loading
<1>6. ASSUME NEW w \in Workers, SetUp(w)
      PROVE  Writers
  BY <1>6 DEF SetUp, net, fields, table, history, Finish, Loading
<1>7. ASSUME NEW w \in Workers, Refuse(w)
      PROVE  Writers
  BY <1>7 DEF Refuse, net, fields, table, history, Finish, Loading
<1>8. ASSUME NEW w \in Workers, Check(w)
      PROVE  Writers
  BY <1>8 DEF Check, net, fields, table, history, Finish, Loading
<1>9. ASSUME NEW w \in Workers, EnterTester(w)
      PROVE  Writers
  BY <1>9 DEF EnterTester, net, fields, table, history, Finish, Loading
<1>10. ASSUME NEW w \in Workers, PushGetInfo(w)
       PROVE  Writers
  BY <1>10 DEF PushGetInfo, net, fields, table, history, Finish, Loading
<1>11. ASSUME NEW w \in Workers, CopyName(w)
       PROVE  Writers
  BY <1>11 DEF CopyName, net, fields, table, history, Finish, Loading
<1>12. ASSUME NEW w \in Workers, PushSaveInfo(w)
       PROVE  Writers
  BY <1>12 DEF PushSaveInfo, net, fields, table, history, Finish, Loading
<1>13. ASSUME NEW w \in Workers, CloseSocket(w)
       PROVE  Writers
  BY <1>13 DEF CloseSocket, net, fields, table, history, Finish, Loading
<1>14. ASSUME NEW w \in Workers, FreeSlot(w)
       PROVE  Writers
  BY <1>14 DEF FreeSlot, net, fields, table, history, Finish, Loading
<1>15. ASSUME NEW w \in Workers, NEW c \in Conns, TakeLogin(w, c)
       PROVE  Writers
  BY <1>15 DEF TakeLogin, net, fields, table, history, Finish, Loading
<1>16. ASSUME NEW w \in Workers, NEW c \in Conns, RecvFails(w, c)
       PROVE  Writers
  BY <1>16 DEF RecvFails, net, fields, table, history, Finish, Loading
<1>17. ASSUME NEW w \in Workers, NEW c \in Conns, SendFails(w, c)
       PROVE  Writers
  BY <1>17 DEF SendFails, net, fields, table, history, Finish, Loading
<1>18. ASSUME Pop
       PROVE  Writers
  BY <1>18 DEF Pop, net, fields, table, history, Finish, Loading
<1>19. ASSUME GetInfoFails
       PROVE  Writers
  BY <1>19 DEF GetInfoFails, net, fields, table, history, Finish, Loading
<1>20. ASSUME Load
       PROVE  Writers
  BY <1>20 DEF Load, net, fields, table, history, Finish, Loading
<1>21. ASSUME SendLoginInfo
       PROVE  Writers
  BY <1>21 DEF SendLoginInfo, net, fields, table, history, Finish, Loading
<1>22. ASSUME EnterGame
       PROVE  Writers
  BY <1>22 DEF EnterGame, net, fields, table, history, Finish, Loading
<1>23. ASSUME DeleteName
       PROVE  Writers
  BY <1>23 DEF DeleteName, net, fields, table, history, Finish, Loading
<1>24. ASSUME PushCreateId
       PROVE  Writers
  BY <1>24 DEF PushCreateId, net, fields, table, history, Finish, Loading
<1>25. ASSUME Store
       PROVE  Writers
  BY <1>25 DEF Store, net, fields, table, history, Finish, Loading
<1>26. CASE UNCHANGED vars
  BY <1>26 DEF vars, net, fields, table, history, Finish, Loading
<1>. QED
  BY <1>1, <1>2, <1>3, <1>4, <1>5, <1>6, <1>7, <1>8, <1>9, <1>10, <1>11,
     <1>12, <1>13, <1>14, <1>15, <1>16, <1>17, <1>18, <1>19, <1>20, <1>21,
     <1>22, <1>23, <1>24, <1>25, <1>26
     DEF Next, Clients, Database, Take, Proceed
-----------------------------------------------------------------------------
(***************************************************************************)
(* One handler per slot.  Socketed says that a connection keeps its slot   *)
(* for ever, One that a slot has one RECV or one handler and is not free   *)
(* then.  Nothing that happens to another slot matters to One (Elsewhere). *)
(***************************************************************************)
Socketed ==
  /\ \A s \in Slots : m_socket[s] \in Conns => keyOf[m_socket[s]] = s
  /\ \A c \in Conns : /\ client[c] = "new" => keyOf[c] = NoSlot /\ g_c_socket # c
                      /\ g_c_socket = c => keyOf[c] = NoSlot
  /\ \A c \in sendFailed : keyOf[c] \in Slots

One(s) ==
  /\ Outstanding(s) <= 1
  /\ \A w \in Workers : Handles(w, s) =>
       Outstanding(s) = 0 /\ \A v \in Workers : Handles(v, s) => v = w
  /\ \A c \in Conns : recv[c] > 0 /\ keyOf[c] = s => m_socket[s] = c /\ state[s] # "FREE"
  /\ \A w \in Workers : Handles(w, s) /\ pc[w] # "alloc" => state[s] # "FREE"

Exclusive == Socketed /\ \A s \in Slots : Spoilt(s) \/ One(s)

\* What a connection was given stays.
Bound ==
  /\ \A c \in Conns : keyOf[c] \in Slots => keyOf'[c] = keyOf[c] /\ user'[c] = user[c]
  /\ sendFailed \subseteq sendFailed' /\ early \subseteq early' /\ raced \subseteq raced'

LEMMA BoundStep ==
  ASSUME Base, Socketed, [Next]_vars
  PROVE  Bound /\ Socketed'
<1>. USE SessionsAssumption DEF Base, TypeOK, Keyed, HasSocket, AcceptsOne, Accepting, Socketed, Bound
<1>1. ASSUME NEW c \in Conns, NEW u \in Users \cup {NoUser}, Connect(c, u)
      PROVE  Bound /\ Socketed'
  BY <1>1 DEF Connect, history
<1>2. ASSUME NEW c \in Conns, Leave(c)
      PROVE  Bound /\ Socketed'
  BY <1>2 DEF Leave
<1>3. ASSUME NEW w \in Workers, SetUp(w)
      PROVE  Bound /\ Socketed'
  <2>1. key[w] \in Slots /\ g_c_socket \in Conns /\ keyOf[g_c_socket] = NoSlot
    BY <1>3 DEF SetUp
  <2>2. /\ m_socket' = [m_socket EXCEPT ![key[w]] = g_c_socket]
        /\ keyOf' = [keyOf EXCEPT ![g_c_socket] = key[w]] /\ g_c_socket' = NoConn
        /\ UNCHANGED <<client, user, sendFailed, early, raced>>
    BY <1>3 DEF SetUp, history
  <2>3. \A c \in Conns : keyOf'[c] = IF c = g_c_socket THEN key[w] ELSE keyOf[c]
    BY <2>1, <2>2
  <2>4. \A s \in Slots : m_socket'[s] = IF s = key[w] THEN g_c_socket ELSE m_socket[s]
    BY <2>1, <2>2
  <2>5. client[g_c_socket] # "new" /\ \A s \in Slots : m_socket[s] # g_c_socket
    BY <2>1
  <2>6. Bound
    BY <2>1, <2>2, <2>3
  <2>7. \A s \in Slots : m_socket'[s] \in Conns => keyOf'[m_socket'[s]] = s
    <3>1. \A s \in Slots : m_socket[s] \in Conns => keyOf[m_socket[s]] = s
      BY DEF Socketed
    <3>. QED BY ONLY <2>3, <2>4, <2>5, <3>1
  <2>8. \A c \in Conns : /\ client'[c] = "new" => keyOf'[c] = NoSlot /\ g_c_socket' # c
                         /\ g_c_socket' = c => keyOf'[c] = NoSlot
    BY <2>1, <2>2, <2>3, <2>5
  <2>9. \A c \in sendFailed : c \in Conns /\ keyOf[c] \in Slots
    OBVIOUS
  <2>10. sendFailed' = sendFailed
    BY <2>2
  <2>11. \A c \in sendFailed' : keyOf'[c] \in Slots
    <3>1. ASSUME NEW c \in sendFailed
          PROVE  keyOf'[c] \in Slots
      <4>1. c \in Conns /\ keyOf'[c] = IF c = g_c_socket THEN key[w] ELSE keyOf[c]
        BY <2>3, <2>9
      <4>. QED BY ONLY <2>1, <2>9, <4>1, <3>1
    <3>. QED BY ONLY <2>10, <3>1
  <2>12. Socketed'
    BY ONLY <2>7, <2>8, <2>11 DEF Socketed
  <2>. HIDE DEF Socketed, Bound
  <2>. QED BY <2>6, <2>12
<1>4. ASSUME NEW w \in Workers, NEW c \in Conns, TakeLogin(w, c)
      PROVE  Bound /\ Socketed'
  BY <1>4 DEF TakeLogin
<1>5. ASSUME NEW w \in Workers, NEW c \in Conns, SendFails(w, c)
      PROVE  Bound /\ Socketed'
  BY <1>5 DEF SendFails, history
<1>6. CASE UNCHANGED <<client, user, keyOf, m_socket, g_c_socket, sendFailed, early, raced>>
  BY <1>6
<1>. QED BY <1>1, <1>2, <1>3, <1>4, <1>5, <1>6, Frame DEF Writers

\* What has gone wrong with a slot stays wrong.
LEMMA SpoiltStays ==
  ASSUME Base, Socketed, [Next]_vars, NEW s \in Slots
  PROVE  /\ Spoilt(s) => Spoilt(s)'
         /\ Hasty(s) => Hasty(s)'
         /\ Tested(s) => Tested(s)'
BY BoundStep DEF Bound, Base, TypeOK, Spoilt, Hasty, Tested

\* A step that leaves the handlers, the socket and the RECVs of a slot alone.
Untouched(s) ==
  /\ m_socket'[s] = m_socket[s] /\ (state'[s] = "FREE" => state[s] = "FREE")
  /\ \A w \in Workers : Handles(w, s)' => Handles(w, s) /\ (pc[w] = "alloc" => pc'[w] = "alloc")
  /\ \A c \in Conns : keyOf[c] = s \/ keyOf'[c] = s => keyOf'[c] = keyOf[c] /\ recv'[c] = recv[c]

LEMMA UntouchedOne ==
  ASSUME Base, Socketed, NEW s \in Slots, Untouched(s), One(s)
  PROVE  One(s)'
<1>1. Outstanding(s)' = Outstanding(s)
  BY DEF Untouched, Outstanding, Socketed, Base, TypeOK
<1>. QED BY <1>1 DEF Untouched, One

\* A step that does not leave it alone.
Acts(s) ==
  \/ \E w \in Workers :
       \/ Accept(w) /\ key'[w] = s
       \/ /\ key[w] = s
          /\ \/ Alloc(w) \/ SetUp(w) \/ Refuse(w) \/ Check(w) \/ EnterTester(w)
             \/ PushGetInfo(w) \/ CopyName(w) \/ PushSaveInfo(w) \/ CloseSocket(w) \/ FreeSlot(w)
       \/ \E c \in Conns : keyOf[c] = s /\ (TakeLogin(w, c) \/ RecvFails(w, c) \/ SendFails(w, c))

LEMMA Elsewhere ==
  ASSUME Base, Socketed, [Next]_vars, NEW s \in Slots
  PROVE  Untouched(s) \/ Acts(s)
<1>. DEFINE Goal == Untouched(s) \/ Acts(s)
<1>. USE SessionsAssumption DEF Base, TypeOK, Socketed, Handles
<1>1. ASSUME NEW c \in Conns, NEW u \in Users \cup {NoUser}, Connect(c, u)
      PROVE  Goal
  BY <1>1 DEF Connect, net, Finish, Untouched, Acts
<1>2. ASSUME NEW c \in Conns, Leave(c)
      PROVE  Goal
  BY <1>2 DEF Leave, net, Finish, Untouched, Acts
<1>3. ASSUME NEW w \in Workers, Accept(w)
      PROVE  Goal
  <2>1. PICK t \in Slots : state[t] = "FREE" /\ key' = [key EXCEPT ![w] = t]
    BY <1>3 DEF Accept
  <2>. QED BY <1>3, <2>1 DEF Accept, Untouched, Acts
<1>4. ASSUME NEW w \in Workers, AcceptWhenFull(w)
      PROVE  Goal
  BY <1>4 DEF AcceptWhenFull, net, Finish, Untouched, Acts
<1>5. ASSUME NEW w \in Workers, Alloc(w)
      PROVE  Goal
  <2>. SUFFICES ASSUME key[w] # s
                PROVE  Untouched(s)
    BY <1>5 DEF Acts
  <2>1. UNCHANGED <<m_socket, key, keyOf, recv>> /\ state'[s] = state[s]
    BY <1>5 DEF Alloc
  <2>2. \A v \in Workers : v # w => pc'[v] = pc[v]
    BY <1>5 DEF Alloc
  <2>. QED BY <2>1, <2>2 DEF Untouched
<1>6. ASSUME NEW w \in Workers, SetUp(w)
      PROVE  Goal
  <2>. SUFFICES ASSUME key[w] # s
                PROVE  Untouched(s)
    BY <1>6 DEF Acts
  <2>1. g_c_socket \in Conns /\ keyOf[g_c_socket] = NoSlot /\ key[w] \in Slots
    BY <1>6 DEF SetUp, AcceptsOne, Accepting
  <2>2. state' = state /\ m_socket'[s] = m_socket[s]
    BY <1>6 DEF SetUp
  <2>3. /\ keyOf' = [keyOf EXCEPT ![g_c_socket] = key[w]]
        /\ recv' = [recv EXCEPT ![g_c_socket] = @ + 1]
    BY <1>6 DEF SetUp
  <2>4. \A c \in Conns : keyOf[c] = s \/ keyOf'[c] = s => keyOf'[c] = keyOf[c] /\ recv'[c] = recv[c]
    BY <2>1, <2>3
  <2>5. \A v \in Workers : Handles(v, s)' => Handles(v, s) /\ pc'[v] = pc[v]
    BY <1>6 DEF SetUp, Finish
  <2>. QED BY <2>2, <2>4, <2>5 DEF Untouched
<1>7. ASSUME NEW w \in Workers, Refuse(w)
      PROVE  Goal
  <2>1. key[w] \in Slots /\ keyOf[m_socket[key[w]]] = key[w] /\ m_socket[key[w]] \in Conns
    BY <1>7 DEF Refuse, Keyed, HasSocket, Accepting
  <2>2. \A c \in Conns : keyOf[c] # key[w] => recv'[c] = recv[c]
    BY <1>7, <2>1 DEF Refuse, RecvOn
  <2>. QED BY <1>7, <2>1, <2>2 DEF Refuse, net, Finish, Untouched, Acts
<1>8. ASSUME NEW w \in Workers, Check(w)
      PROVE  Goal
  BY <1>8 DEF Check, net, Finish, Untouched, Acts
<1>9. ASSUME NEW w \in Workers, EnterTester(w)
      PROVE  Goal
  <2>1. key[w] \in Slots /\ keyOf[m_socket[key[w]]] = key[w] /\ m_socket[key[w]] \in Conns
    BY <1>9 DEF EnterTester, Keyed, HasSocket, Accepting
  <2>2. \A c \in Conns : keyOf[c] # key[w] => recv'[c] = recv[c]
    BY <1>9, <2>1 DEF EnterTester, RecvOn
  <2>. SUFFICES ASSUME key[w] # s
                PROVE  Untouched(s)
    BY <1>9 DEF Acts
  <2>3. UNCHANGED <<m_socket, keyOf>> /\ state'[s] = state[s]
    BY <1>9 DEF EnterTester, net
  <2>4. \A v \in Workers : Handles(v, s)' => Handles(v, s) /\ pc'[v] = pc[v]
    BY <1>9 DEF EnterTester, Finish
  <2>. QED BY <2>1, <2>2, <2>3, <2>4 DEF Untouched
<1>10. ASSUME NEW w \in Workers, PushGetInfo(w)
       PROVE  Goal
  <2>1. key[w] \in Slots /\ keyOf[m_socket[key[w]]] = key[w] /\ m_socket[key[w]] \in Conns
    BY <1>10 DEF PushGetInfo, Keyed, HasSocket, Accepting
  <2>2. \A c \in Conns : keyOf[c] # key[w] => recv'[c] = recv[c]
    BY <1>10, <2>1 DEF PushGetInfo, RecvOn
  <2>. QED BY <1>10, <2>1, <2>2 DEF PushGetInfo, net, Finish, Untouched, Acts
<1>11. ASSUME NEW w \in Workers, CopyName(w)
       PROVE  Goal
  BY <1>11 DEF CopyName, net, Finish, Untouched, Acts
<1>12. ASSUME NEW w \in Workers, PushSaveInfo(w)
       PROVE  Goal
  BY <1>12 DEF PushSaveInfo, net, Finish, Untouched, Acts
<1>13. ASSUME NEW w \in Workers, CloseSocket(w)
       PROVE  Goal
  BY <1>13 DEF CloseSocket, net, Finish, Untouched, Acts
<1>14. ASSUME NEW w \in Workers, FreeSlot(w)
       PROVE  Goal
  BY <1>14 DEF FreeSlot, net, Finish, Untouched, Acts
<1>15. ASSUME NEW w \in Workers, NEW c \in Conns, TakeLogin(w, c)
       PROVE  Goal
  BY <1>15 DEF TakeLogin, net, Finish, Untouched, Acts
<1>16. ASSUME NEW w \in Workers, NEW c \in Conns, RecvFails(w, c)
       PROVE  Goal
  BY <1>16 DEF RecvFails, net, Finish, Untouched, Acts
<1>17. ASSUME NEW w \in Workers, NEW c \in Conns, SendFails(w, c)
       PROVE  Goal
  BY <1>17 DEF SendFails, net, Finish, Untouched, Acts
<1>18. ASSUME Pop
       PROVE  Goal
  BY <1>18 DEF Pop, net, Finish, Untouched, Acts
<1>19. ASSUME GetInfoFails
       PROVE  Goal
  BY <1>19 DEF GetInfoFails, net, Finish, Untouched, Acts
<1>20. ASSUME Load
       PROVE  Goal
  BY <1>20 DEF Load, net, Finish, Untouched, Acts
<1>21. ASSUME SendLoginInfo
       PROVE  Goal
  BY <1>21 DEF SendLoginInfo, net, Finish, Untouched, Acts
<1>22. ASSUME EnterGame
       PROVE  Goal
  BY <1>22 DEF EnterGame, net, Finish, Untouched, Acts
<1>23. ASSUME DeleteName
       PROVE  Goal
  BY <1>23 DEF DeleteName, net, Finish, Untouched, Acts
<1>24. ASSUME PushCreateId
       PROVE  Goal
  BY <1>24 DEF PushCreateId, net, Finish, Untouched, Acts
<1>25. ASSUME Store
       PROVE  Goal
  BY <1>25 DEF Store, net, Finish, Untouched, Acts
<1>26. CASE UNCHANGED vars
  BY <1>26 DEF vars, net, Finish, Untouched, Acts
<1>. QED
  BY <1>1, <1>2, <1>3, <1>4, <1>5, <1>6, <1>7, <1>8, <1>9, <1>10, <1>11,
     <1>12, <1>13, <1>14, <1>15, <1>16, <1>17, <1>18, <1>19, <1>20, <1>21,
     <1>22, <1>23, <1>24, <1>25, <1>26
     DEF Next, Clients, Database, Take, Proceed

LEMMA AcceptOne ==
  ASSUME Base, Socketed, NEW s \in Slots, One(s),
         NEW w \in Workers, Accept(w), key'[w] = s
  PROVE  One(s)'
<1>1. /\ state[s] = "FREE" /\ pc[w] = "idle" /\ accepted
      /\ pc' = [pc EXCEPT ![w] = "alloc"] /\ key' = [key EXCEPT ![w] = s]
      /\ UNCHANGED <<state, m_socket, keyOf, recv>>
  BY DEF Accept, Base, TypeOK
<1>2. \A c \in Conns : keyOf[c] = s => recv[c] = 0
  BY <1>1 DEF One, Base, TypeOK
<1>3. Outstanding(s) = 0
  BY <1>2 DEF Outstanding, Socketed, Base, TypeOK
<1>4. \A v \in Workers : ~Handles(v, s)
  BY <1>1 DEF Handles, One, Base, AcceptsOne, Accepting
<1>5. Outstanding(s)' = 0
  BY <1>1, <1>3 DEF Outstanding
<1>6. \A v \in Workers : Handles(v, s)' <=> v = w
  BY <1>1, <1>4 DEF Handles, Base, TypeOK
<1>7. pc'[w] = "alloc"
  BY <1>1 DEF Base, TypeOK
<1>. QED BY <1>1, <1>2, <1>5, <1>6, <1>7 DEF One

LEMMA SetUpOne ==
  ASSUME Base, Socketed, NEW s \in Slots, One(s),
         NEW w \in Workers, SetUp(w), key[w] = s
  PROVE  One(s)'
<1>. DEFINE c == g_c_socket
<1>1. pc[w] = "setup" /\ c \in Conns /\ NoSlot \notin Slots /\ NoConn \notin Conns
  BY SessionsAssumption DEF SetUp, Base, AcceptsOne, Accepting
<1>2. /\ m_socket' = [m_socket EXCEPT ![s] = c] /\ keyOf' = [keyOf EXCEPT ![c] = s]
      /\ recv' = [recv EXCEPT ![c] = @ + 1] /\ state' = state
      /\ pc' = [pc EXCEPT ![w] = "idle"] /\ key' = [key EXCEPT ![w] = NoSlot]
  BY DEF SetUp, Finish
<1>3. keyOf[c] = NoSlot /\ recv[c] = 0 /\ Handles(w, s)
  BY <1>1 DEF Socketed, Base, TypeOK, Keyed, Handles
<1>4. Outstanding(s) = 0 /\ state[s] # "FREE" /\ \A v \in Workers : Handles(v, s) => v = w
  BY <1>1, <1>3 DEF One
<1>5. ASSUME NEW d \in Conns, keyOf[d] = s
      PROVE  recv[d] = 0
  <2>1. recv[d] > 0 => m_socket[s] = d
    BY <1>5 DEF One
  <2>2. recv[d] \in Nat
    BY DEF Base, TypeOK
  <2>. QED BY <1>1, <1>4, <2>1, <2>2 DEF Outstanding
<1>6. /\ m_socket'[s] = c /\ \A d \in Conns : recv'[d] = IF d = c THEN 1 ELSE recv[d]
      /\ \A d \in Conns : keyOf'[d] = IF d = c THEN s ELSE keyOf[d]
  BY <1>1, <1>2, <1>3 DEF Base, TypeOK
<1>7. Outstanding(s)' = 1
  BY <1>1, <1>6 DEF Outstanding
<1>8. \A v \in Workers : ~Handles(v, s)'
  BY <1>1, <1>2, <1>4 DEF Handles, Base, TypeOK
<1>. QED BY <1>2, <1>4, <1>5, <1>6, <1>7, <1>8 DEF One

\* A handler that asks for the next RECV and is done.
Rearms(w, s) ==
  /\ key[w] = s /\ pc[w] \in {"check", "enter"} /\ RecvOn(s) /\ Finish(w)
  /\ state' = state \/ state' = [state EXCEPT ![s] = "INGAME"]
  /\ UNCHANGED <<m_socket, keyOf>>

LEMMA RearmOne ==
  ASSUME Base, Socketed, NEW s \in Slots, One(s), NEW w \in Workers, Rearms(w, s)
  PROVE  One(s)'
<1>. USE DEF Rearms
<1>. DEFINE c == m_socket[s]
<1>1. c \in Conns /\ keyOf[c] = s /\ NoSlot \notin Slots /\ NoConn \notin Conns
  BY SessionsAssumption DEF Socketed, Base, Keyed, HasSocket, Accepting
<1>2. pc' = [pc EXCEPT ![w] = "idle"] /\ key' = [key EXCEPT ![w] = NoSlot] /\ Handles(w, s)
  BY DEF Finish, Handles
<1>3. recv[c] = 0 /\ state[s] # "FREE" /\ \A v \in Workers : Handles(v, s) => v = w
  BY <1>1, <1>2 DEF One, Outstanding
<1>4. recv'[c] <= 1 /\ \A d \in Conns : d # c => recv'[d] = recv[d]
  BY <1>1, <1>3 DEF RecvOn, Base, TypeOK
<1>5. \A d \in Conns : keyOf[d] = s /\ recv'[d] > 0 => d = c
  BY <1>4 DEF One
<1>6. Outstanding(s)' <= 1 /\ state'[s] # "FREE"
  BY <1>1, <1>3, <1>4 DEF Outstanding, Base, TypeOK
<1>7. \A v \in Workers : ~Handles(v, s)'
  BY <1>1, <1>2, <1>3 DEF Handles, Base, TypeOK
<1>. QED BY <1>5, <1>6, <1>7 DEF One

\* A handler that goes on with its slot.
Goes(w, s, p) ==
  /\ key[w] = s /\ pc[w] # "idle" /\ pc' = [pc EXCEPT ![w] = p] /\ p \notin {"idle", "alloc"}
  /\ pc[w] = "alloc" => state'[s] # "FREE"
  /\ state'[s] = "FREE" => state[s] = "FREE"
  /\ UNCHANGED <<m_socket, keyOf, recv, key>>

LEMMA StepOne ==
  ASSUME Base, Socketed, NEW s \in Slots, One(s), NEW p, NEW w \in Workers, Goes(w, s, p)
  PROVE  One(s)'
<1>. USE DEF Goes
<1>1. \A v \in Workers : pc'[v] = IF v = w THEN p ELSE pc[v]
  BY DEF Base, TypeOK
<1>2. Outstanding(s)' = Outstanding(s)
  BY DEF Outstanding
<1>3. \A v \in Workers : Handles(v, s)' <=> Handles(v, s)
  BY <1>1 DEF Handles
<1>4. Handles(w, s)
  BY DEF Handles
<1>. QED BY <1>1, <1>2, <1>3, <1>4 DEF One

\* A worker that takes a completion of a RECV.
LEMMA TakeOne ==
  ASSUME Base, Socketed, NEW s \in Slots, One(s),
         NEW w \in Workers, NEW c \in Conns, NEW p,
         keyOf[c] = s, recv[c] > 0, pc[w] = "idle", p # "idle",
         pc' = [pc EXCEPT ![w] = p], key' = [key EXCEPT ![w] = s],
         recv' = [recv EXCEPT ![c] = @ - 1], UNCHANGED <<state, m_socket, keyOf>>
  PROVE  One(s)'
<1>1. m_socket[s] = c /\ state[s] # "FREE" /\ NoConn \notin Conns
  BY SessionsAssumption DEF One
<1>2. Outstanding(s) = recv[c] /\ recv[c] = 1
  BY <1>1 DEF One, Outstanding, Base, TypeOK
<1>3. \A v \in Workers : ~Handles(v, s)
  BY <1>2 DEF One
<1>4. \A d \in Conns : recv'[d] = IF d = c THEN 0 ELSE recv[d]
  BY <1>2 DEF Base, TypeOK
<1>5. Outstanding(s)' = 0
  BY <1>1, <1>4 DEF Outstanding
<1>6. \A v \in Workers : Handles(v, s)' <=> v = w
  BY <1>3 DEF Handles, Base, TypeOK
<1>. QED BY <1>1, <1>4, <1>5, <1>6 DEF One

LEMMA FreeOne ==
  ASSUME Base, Socketed, NEW s \in Slots, One(s),
         NEW w \in Workers, FreeSlot(w), key[w] = s
  PROVE  One(s)'
<1>1. /\ pc[w] = "free" /\ pc' = [pc EXCEPT ![w] = "idle"] /\ key' = [key EXCEPT ![w] = NoSlot]
      /\ UNCHANGED <<m_socket, keyOf, recv>>
  BY DEF FreeSlot, Finish, net
<1>2. Handles(w, s)
  BY <1>1 DEF Handles
<1>3. Outstanding(s) = 0 /\ \A v \in Workers : Handles(v, s) => v = w
  BY <1>2 DEF One
<1>4. \A c \in Conns : keyOf[c] = s => ~(recv[c] > 0)
  BY <1>3, SessionsAssumption DEF One, Outstanding
<1>5. Outstanding(s)' = 0
  BY <1>1, <1>3 DEF Outstanding
<1>6. \A v \in Workers : ~Handles(v, s)'
  BY <1>1, <1>3, SessionsAssumption DEF Handles, Base, TypeOK
<1>. QED BY <1>1, <1>4, <1>5, <1>6 DEF One

LEMMA ActsOne ==
  ASSUME Base, Socketed, NEW s \in Slots, One(s), Acts(s)
  PROVE  Spoilt(s)' \/ One(s)'
<1>. DEFINE Goal == Spoilt(s)' \/ One(s)'
<1>1. ASSUME NEW w \in Workers, Accept(w), key'[w] = s
      PROVE  Goal
  BY <1>1, AcceptOne
<1>2. ASSUME NEW w \in Workers, key[w] = s, Alloc(w)
      PROVE  Goal
  <2>1. Goes(w, s, "setup")
    BY <1>2 DEF Alloc, Goes, net, Base, TypeOK
  <2>. QED BY <2>1, StepOne
<1>3. ASSUME NEW w \in Workers, key[w] = s, SetUp(w)
      PROVE  Goal
  BY <1>3, SetUpOne
<1>4. ASSUME NEW w \in Workers, key[w] = s, Refuse(w)
      PROVE  Goal
  <2>1. Rearms(w, s)
    BY <1>4 DEF Refuse, Rearms, net
  <2>. QED BY <2>1, RearmOne
<1>5. ASSUME NEW w \in Workers, key[w] = s, Check(w)
      PROVE  Goal
  <2>1. Goes(w, s, "enter")
    BY <1>5 DEF Check, Goes, net
  <2>. QED BY <2>1, StepOne
<1>6. ASSUME NEW w \in Workers, key[w] = s, EnterTester(w)
      PROVE  Goal
  <2>1. Rearms(w, s)
    BY <1>6 DEF EnterTester, Rearms, net
  <2>. QED BY <2>1, RearmOne
<1>7. ASSUME NEW w \in Workers, key[w] = s, PushGetInfo(w)
      PROVE  Goal
  <2>1. Rearms(w, s)
    BY <1>7 DEF PushGetInfo, Rearms, net
  <2>. QED BY <2>1, RearmOne
<1>8. ASSUME NEW w \in Workers, key[w] = s, CopyName(w)
      PROVE  Goal
  <2>1. Goes(w, s, "save")
    BY <1>8 DEF CopyName, Goes, net
  <2>. QED BY <2>1, StepOne
<1>9. ASSUME NEW w \in Workers, key[w] = s, PushSaveInfo(w)
      PROVE  Goal
  <2>1. Goes(w, s, "close")
    BY <1>9 DEF PushSaveInfo, Goes, net
  <2>. QED BY <2>1, StepOne
<1>10. ASSUME NEW w \in Workers, key[w] = s, CloseSocket(w)
      PROVE  Goal
  <2>1. Goes(w, s, "free")
    BY <1>10 DEF CloseSocket, Goes, net
  <2>. QED BY <2>1, StepOne
<1>11. ASSUME NEW w \in Workers, key[w] = s, FreeSlot(w)
      PROVE  Goal
  BY <1>11, FreeOne
<1>12. ASSUME NEW w \in Workers, NEW c \in Conns, keyOf[c] = s, TakeLogin(w, c)
      PROVE  Goal
  BY <1>12, TakeOne DEF TakeLogin
<1>13. ASSUME NEW w \in Workers, NEW c \in Conns, keyOf[c] = s, RecvFails(w, c)
      PROVE  Goal
  BY <1>13, TakeOne DEF RecvFails, net
<1>14. ASSUME NEW w \in Workers, NEW c \in Conns, keyOf[c] = s, SendFails(w, c)
      PROVE  Goal
  BY <1>14 DEF SendFails, Spoilt
<1>. QED
  BY <1>1, <1>2, <1>3, <1>4, <1>5, <1>6, <1>7, <1>8, <1>9, <1>10, <1>11, <1>12,
     <1>13, <1>14 DEF Acts

LEMMA ExclusiveInvariant == Spec => []Exclusive
<1>1. Init => Exclusive
  BY SessionsAssumption DEF Init, Exclusive, Socketed, One, Outstanding, Handles
<1>2. Base /\ Exclusive /\ [Next]_vars => Exclusive'
  <2>. SUFFICES ASSUME Base, Exclusive, [Next]_vars
               PROVE  Exclusive'
    OBVIOUS
  <2>1. Socketed /\ Socketed'
    BY BoundStep DEF Exclusive
  <2>2. ASSUME NEW s \in Slots
        PROVE  (Spoilt(s) \/ One(s))'
    <3>1. CASE Spoilt(s)
      BY <2>1, <3>1, SpoiltStays
    <3>2. CASE One(s)
      BY <2>1, <3>2, Elsewhere, UntouchedOne, ActsOne
    <3>. QED BY <3>1, <3>2 DEF Exclusive
  <2>. QED BY <2>1, <2>2 DEF Exclusive
<1>. QED BY <1>1, <1>2, BaseInvariant, PTL DEF Spec
-----------------------------------------------------------------------------
\* Every variable keeps its type, and a worker always works on a real slot.
THEOREM TypeCorrect == Spec => []TypeOK
BY BaseInvariant, PTL DEF Base

\* Whatever clients, completions and queries do, no name buffer is read or freed
\* after it has been freed.
THEOREM NamesOwnedOnce == Spec => []NamesHaveOneOwner
BY BaseInvariant, PTL

\* Whatever fails, a slot is handled by one worker at a time until a SEND fails
\* on a connection of its own.
THEOREM SlotsExclusive == Spec => []OneHandler
<1>1. Exclusive => OneHandler
  BY DEF Exclusive, One, OneHandler
<1>. QED BY <1>1, ExclusiveInvariant, PTL
-----------------------------------------------------------------------------
(***************************************************************************)
(* Users.  What a login passes from worker to queue to database thread is  *)
(* a pair of slot and name: it Comes until it is loaded, is Checked from   *)
(* the check on, and LogsIn until the database thread is through with it.  *)
(* Of a user who has not raced one login comes at a time (OneLogin), so    *)
(* the check is still right when the user is let in (NotYetIn).            *)
(***************************************************************************)
Queued(s, b, ops) ==
  \E i \in 1 .. Len(QueryQueue) :
    /\ QueryQueue[i].op \in ops /\ QueryQueue[i].slot = s /\ QueryQueue[i].name = b
Works(s, b, at) == \E w \in Workers : pc[w] \in at /\ key[w] = s /\ name[w] = b
Asks(s, b) == query.slot = s /\ query.name = b

LogsIn(s, b) ==
  \/ Works(s, b, {"check", "enter"}) \/ Queued(s, b, {"GETINFO"})
  \/ db # "idle" /\ query.op = "GETINFO" /\ Asks(s, b)
Checked(s, b) ==
  \/ Works(s, b, {"enter"}) \/ Queued(s, b, {"GETINFO"})
  \/ Loading /\ Asks(s, b)
Comes(s, b) == Works(s, b, {"check"}) \/ Checked(s, b)

OneLogin ==
  \A s, t \in Slots, b, d \in Buffers :
    Comes(s, b) /\ Comes(t, d) /\ heap[b] = heap[d] /\ heap[b] \in Users \ raced => b = d
NotYetIn ==
  \A s \in Slots, b \in Buffers : Checked(s, b) => heap[b] \in raced \/ ~Taken(heap[b])

Known == Base /\ NamesHaveOneOwner /\ LoginNames /\ Exclusive

\* A query taken from the queue.
LEMMA QueuedPop ==
  ASSUME TypeOK, Pop, NEW s, NEW b, NEW ops
  PROVE  /\ query' \in Queries /\ query' = QueryQueue[1]
         /\ Queued(s, b, ops)' => Queued(s, b, ops)
         /\ Asks(s, b)' /\ query'.op \in ops => Queued(s, b, ops)
<1>1. /\ query' \in Queries /\ query' = QueryQueue[1] /\ 1 \in 1 .. Len(QueryQueue)
      /\ \A i \in 1 .. Len(QueryQueue') :
           QueryQueue'[i] = QueryQueue[i + 1] /\ i + 1 \in 1 .. Len(QueryQueue)
  BY PoppedQuery DEF Pop, TypeOK
<1>. QED BY <1>1 DEF Queued, Asks

\* Only a login that is received starts one; until it is over nobody writes to
\* its name.
LEMMA LoginsStep ==
  ASSUME Base, NamesHaveOneOwner, [Next]_vars,
         NEW s \in Slots, NEW b \in Buffers, LogsIn(s, b)'
  PROVE  \/ LogsIn(s, b) /\ heap'[b] = heap[b]
         \/ \E w \in Workers, c \in Conns : TakeLogin(w, c) /\ s = keyOf[c] /\ b = Fresh
<1>. DEFINE Goal ==
       \/ LogsIn(s, b) /\ heap'[b] = heap[b]
       \/ \E w \in Workers, c \in Conns : TakeLogin(w, c) /\ s = keyOf[c] /\ b = Fresh
<1>. USE DEF Base, TypeOK, NamesHaveOneOwner
<1>1. ASSUME NEW c \in Conns, NEW u \in Users \cup {NoUser}, Connect(c, u)
      PROVE  Goal
  BY <1>1 DEF Connect, net, fields, table, history, Finish, LogsIn, Works, Asks, Queued
<1>2. ASSUME NEW c \in Conns, Leave(c)
      PROVE  Goal
  BY <1>2 DEF Leave, net, fields, table, history, Finish, LogsIn, Works, Asks, Queued
<1>3. ASSUME NEW w \in Workers, Accept(w)
      PROVE  Goal
  BY <1>3 DEF Accept, net, fields, table, history, Finish, LogsIn, Works, Asks, Queued
<1>4. ASSUME NEW w \in Workers, AcceptWhenFull(w)
      PROVE  Goal
  BY <1>4 DEF AcceptWhenFull, net, fields, table, history, Finish, LogsIn, Works, Asks, Queued
<1>5. ASSUME NEW w \in Workers, Alloc(w)
      PROVE  Goal
  BY <1>5 DEF Alloc, net, fields, table, history, Finish, LogsIn, Works, Asks, Queued
<1>6. ASSUME NEW w \in Workers, SetUp(w)
      PROVE  Goal
  BY <1>6 DEF SetUp, net, fields, table, history, Finish, LogsIn, Works, Asks, Queued
<1>7. ASSUME NEW w \in Workers, Refuse(w)
      PROVE  Goal
  BY <1>7 DEF Refuse, net, fields, table, history, Finish, LogsIn, Works, Asks, Queued
<1>8. ASSUME NEW w \in Workers, Check(w)
      PROVE  Goal
  BY <1>8 DEF Check, net, fields, table, history, Finish, LogsIn, Works, Asks, Queued
<1>9. ASSUME NEW w \in Workers, EnterTester(w)
      PROVE  Goal
  <2>1. LogsIn(s, b) /\ name[w] \in Buffers
    BY <1>9 DEF EnterTester, net, fields, table, history, Finish, LogsIn, Works, Asks, Queued
  <2>2. b # name[w]
    BY <1>9, <2>1 DEF EnterTester, net, fields, table, history, Finish, LogsIn, Works, Asks, Queued
  <2>. QED BY <1>9, <2>1, <2>2 DEF EnterTester
<1>10. ASSUME NEW w \in Workers, PushGetInfo(w)
      PROVE  Goal
  BY <1>10 DEF PushGetInfo, net, fields, table, history, Finish, LogsIn, Works, Asks, Queued
<1>11. ASSUME NEW w \in Workers, CopyName(w)
      PROVE  Goal
  <2>1. LogsIn(s, b)
    BY <1>11 DEF CopyName, net, fields, table, history, LogsIn, Works, Asks, Queued
  <2>2. heap[b] # NoName
    BY <2>1 DEF LogsIn, Works, Queued, Asks
  <2>. QED BY <1>11, <2>1, <2>2, FreshBuffer DEF CopyName
<1>12. ASSUME NEW w \in Workers, PushSaveInfo(w)
      PROVE  Goal
  BY <1>12 DEF PushSaveInfo, net, fields, table, history, Finish, LogsIn, Works, Asks, Queued
<1>13. ASSUME NEW w \in Workers, CloseSocket(w)
      PROVE  Goal
  BY <1>13 DEF CloseSocket, net, fields, table, history, Finish, LogsIn, Works, Asks, Queued
<1>14. ASSUME NEW w \in Workers, FreeSlot(w)
      PROVE  Goal
  BY <1>14 DEF FreeSlot, net, fields, table, history, Finish, LogsIn, Works, Asks, Queued
<1>15. ASSUME NEW w \in Workers, NEW c \in Conns, TakeLogin(w, c)
      PROVE  Goal
  <2>1. Fresh \in Buffers /\ heap[Fresh] = NoName
    BY <1>15, FreshBuffer DEF TakeLogin
  <2>2. CASE LogsIn(s, b)
    <3>1. heap[b] # NoName
      BY <2>2 DEF LogsIn, Works, Queued, Asks
    <3>. QED BY <1>15, <2>1, <2>2, <3>1 DEF TakeLogin
  <2>3. CASE ~LogsIn(s, b)
    BY <1>15, <2>1, <2>3 DEF TakeLogin, LogsIn, Works, Asks, Queued, net, fields, table, history
  <2>. QED BY <2>2, <2>3
<1>16. ASSUME NEW w \in Workers, NEW c \in Conns, RecvFails(w, c)
      PROVE  Goal
  BY <1>16 DEF RecvFails, net, fields, table, history, Finish, LogsIn, Works, Asks, Queued
<1>17. ASSUME NEW w \in Workers, NEW c \in Conns, SendFails(w, c)
      PROVE  Goal
  BY <1>17 DEF SendFails, net, fields, table, history, Finish, LogsIn, Works, Asks, Queued
<1>18. ASSUME Pop
      PROVE  Goal
  BY <1>18 DEF Pop, net, fields, table, history, Finish, LogsIn, Works, Asks, Queued
<1>19. ASSUME GetInfoFails
      PROVE  Goal
  BY <1>19 DEF GetInfoFails, net, fields, table, history, Finish, LogsIn, Works, Asks, Queued
<1>20. ASSUME Load
      PROVE  Goal
  BY <1>20 DEF Load, net, fields, table, history, Finish, LogsIn, Works, Asks, Queued
<1>21. ASSUME SendLoginInfo
      PROVE  Goal
  BY <1>21 DEF SendLoginInfo, net, fields, table, history, Finish, LogsIn, Works, Asks, Queued
<1>22. ASSUME EnterGame
      PROVE  Goal
  BY <1>22 DEF EnterGame, net, fields, table, history, Finish, LogsIn, Works, Asks, Queued
<1>23. ASSUME DeleteName
      PROVE  Goal
  <2>1. LogsIn(s, b) /\ (Works(s, b, {"check", "enter"}) \/ Queued(s, b, {"GETINFO"}))
    BY <1>23 DEF DeleteName, net, fields, table, history, LogsIn, Works, Asks, Queued
  <2>2. b # query.name /\ db # "idle"
    BY <1>23, <2>1 DEF DeleteName, Works, Queued
  <2>. QED BY <1>23, <2>1, <2>2 DEF DeleteName, Freed
<1>24. ASSUME PushCreateId
      PROVE  Goal
  BY <1>24 DEF PushCreateId, net, fields, table, history, Finish, LogsIn, Works, Asks, Queued
<1>25. ASSUME Store
      PROVE  Goal
  <2>1. LogsIn(s, b) /\ (Works(s, b, {"check", "enter"}) \/ Queued(s, b, {"GETINFO"}))
    BY <1>25 DEF Store, net, fields, table, history, LogsIn, Works, Asks, Queued
  <2>2. b # query.name /\ db # "idle"
    BY <1>25, <2>1 DEF Store, Works, Queued
  <2>. QED BY <1>25, <2>1, <2>2 DEF Store, Freed
<1>26. CASE UNCHANGED vars
  BY <1>26 DEF vars, net, fields, table, history, Finish, LogsIn, Works, Asks, Queued
<1>. QED
  BY <1>1, <1>2, <1>3, <1>4, <1>5, <1>6, <1>7, <1>8, <1>9, <1>10, <1>11,
     <1>12, <1>13, <1>14, <1>15, <1>16, <1>17, <1>18, <1>19, <1>20, <1>21,
     <1>22, <1>23, <1>24, <1>25, <1>26
     DEF Next, Clients, Database, Take, Proceed

\* After the check a login only goes on, and it gets there past the check.
LEMMA CheckedStep ==
  ASSUME Base, [Next]_vars, NEW s \in Slots, NEW b \in Buffers, Checked(s, b)'
  PROVE  Checked(s, b) \/ (Works(s, b, {"check"}) /\ ~Taken(heap[b]))
<1>. DEFINE Goal == Checked(s, b) \/ (Works(s, b, {"check"}) /\ ~Taken(heap[b]))
<1>. USE DEF Base, TypeOK
<1>1. ASSUME NEW c \in Conns, NEW u \in Users \cup {NoUser}, Connect(c, u)
      PROVE  Goal
  BY <1>1 DEF Connect, net, fields, table, history, Finish, Works, Asks, Queued, Loading, Checked
<1>2. ASSUME NEW c \in Conns, Leave(c)
      PROVE  Goal
  BY <1>2 DEF Leave, net, fields, table, history, Finish, Works, Asks, Queued, Loading, Checked
<1>3. ASSUME NEW w \in Workers, Accept(w)
      PROVE  Goal
  BY <1>3 DEF Accept, net, fields, table, history, Finish, Works, Asks, Queued, Loading, Checked
<1>4. ASSUME NEW w \in Workers, AcceptWhenFull(w)
      PROVE  Goal
  BY <1>4 DEF AcceptWhenFull, net, fields, table, history, Finish, Works, Asks, Queued, Loading, Checked
<1>5. ASSUME NEW w \in Workers, Alloc(w)
      PROVE  Goal
  BY <1>5 DEF Alloc, net, fields, table, history, Finish, Works, Asks, Queued, Loading, Checked
<1>6. ASSUME NEW w \in Workers, SetUp(w)
      PROVE  Goal
  BY <1>6 DEF SetUp, net, fields, table, history, Finish, Works, Asks, Queued, Loading, Checked
<1>7. ASSUME NEW w \in Workers, Refuse(w)
      PROVE  Goal
  BY <1>7 DEF Refuse, net, fields, table, history, Finish, Works, Asks, Queued, Loading, Checked
<1>8. ASSUME NEW w \in Workers, Check(w)
      PROVE  Goal
  BY <1>8 DEF Check, net, fields, table, history, Finish, Works, Asks, Queued, Loading, Checked
<1>9. ASSUME NEW w \in Workers, EnterTester(w)
      PROVE  Goal
  BY <1>9 DEF EnterTester, net, fields, table, history, Finish, Works, Asks, Queued, Loading, Checked
<1>10. ASSUME NEW w \in Workers, PushGetInfo(w)
      PROVE  Goal
  BY <1>10 DEF PushGetInfo, net, fields, table, history, Finish, Works, Asks, Queued, Loading, Checked
<1>11. ASSUME NEW w \in Workers, CopyName(w)
      PROVE  Goal
  BY <1>11 DEF CopyName, net, fields, table, history, Finish, Works, Asks, Queued, Loading, Checked
<1>12. ASSUME NEW w \in Workers, PushSaveInfo(w)
      PROVE  Goal
  BY <1>12 DEF PushSaveInfo, net, fields, table, history, Finish, Works, Asks, Queued, Loading, Checked
<1>13. ASSUME NEW w \in Workers, CloseSocket(w)
      PROVE  Goal
  BY <1>13 DEF CloseSocket, net, fields, table, history, Finish, Works, Asks, Queued, Loading, Checked
<1>14. ASSUME NEW w \in Workers, FreeSlot(w)
      PROVE  Goal
  BY <1>14 DEF FreeSlot, net, fields, table, history, Finish, Works, Asks, Queued, Loading, Checked
<1>15. ASSUME NEW w \in Workers, NEW c \in Conns, TakeLogin(w, c)
      PROVE  Goal
  BY <1>15 DEF TakeLogin, net, fields, table, history, Finish, Works, Asks, Queued, Loading, Checked
<1>16. ASSUME NEW w \in Workers, NEW c \in Conns, RecvFails(w, c)
      PROVE  Goal
  BY <1>16 DEF RecvFails, net, fields, table, history, Finish, Works, Asks, Queued, Loading, Checked
<1>17. ASSUME NEW w \in Workers, NEW c \in Conns, SendFails(w, c)
      PROVE  Goal
  BY <1>17 DEF SendFails, net, fields, table, history, Finish, Works, Asks, Queued, Loading, Checked
<1>18. ASSUME Pop
      PROVE  Goal
  BY <1>18 DEF Pop, net, fields, table, history, Finish, Works, Asks, Queued, Loading, Checked
<1>19. ASSUME GetInfoFails
      PROVE  Goal
  BY <1>19 DEF GetInfoFails, net, fields, table, history, Finish, Works, Asks, Queued, Loading, Checked
<1>20. ASSUME Load
      PROVE  Goal
  BY <1>20 DEF Load, net, fields, table, history, Finish, Works, Asks, Queued, Loading, Checked
<1>21. ASSUME SendLoginInfo
      PROVE  Goal
  BY <1>21 DEF SendLoginInfo, net, fields, table, history, Finish, Works, Asks, Queued, Loading, Checked
<1>22. ASSUME EnterGame
      PROVE  Goal
  BY <1>22 DEF EnterGame, net, fields, table, history, Finish, Works, Asks, Queued, Loading, Checked
<1>23. ASSUME DeleteName
      PROVE  Goal
  BY <1>23 DEF DeleteName, net, fields, table, history, Finish, Works, Asks, Queued, Loading, Checked
<1>24. ASSUME PushCreateId
      PROVE  Goal
  BY <1>24 DEF PushCreateId, net, fields, table, history, Finish, Works, Asks, Queued, Loading, Checked
<1>25. ASSUME Store
      PROVE  Goal
  BY <1>25 DEF Store, net, fields, table, history, Finish, Works, Asks, Queued, Loading, Checked
<1>26. CASE UNCHANGED vars
  BY <1>26 DEF vars, net, fields, table, history, Finish, Works, Asks, Queued, Loading, Checked
<1>. QED
  BY <1>1, <1>2, <1>3, <1>4, <1>5, <1>6, <1>7, <1>8, <1>9, <1>10, <1>11,
     <1>12, <1>13, <1>14, <1>15, <1>16, <1>17, <1>18, <1>19, <1>20, <1>21,
     <1>22, <1>23, <1>24, <1>25, <1>26
     DEF Next, Clients, Database, Take, Proceed

\* A login is looked at first when it is received.
LEMMA CheckStep ==
  ASSUME Base, [Next]_vars, NEW s \in Slots, NEW b \in Buffers, Works(s, b, {"check"})'
  PROVE  \/ Works(s, b, {"check"})
         \/ \E w \in Workers, c \in Conns : TakeLogin(w, c) /\ s = keyOf[c] /\ b = Fresh
<1>. DEFINE Goal ==
       \/ Works(s, b, {"check"})
       \/ \E w \in Workers, c \in Conns : TakeLogin(w, c) /\ s = keyOf[c] /\ b = Fresh
<1>. USE DEF Base, TypeOK
<1>1. ASSUME NEW c \in Conns, NEW u \in Users \cup {NoUser}, Connect(c, u)
      PROVE  Goal
  BY <1>1 DEF Connect, net, fields, table, history, Finish, Works
<1>2. ASSUME NEW c \in Conns, Leave(c)
      PROVE  Goal
  BY <1>2 DEF Leave, net, fields, table, history, Finish, Works
<1>3. ASSUME NEW w \in Workers, Accept(w)
      PROVE  Goal
  BY <1>3 DEF Accept, net, fields, table, history, Finish, Works
<1>4. ASSUME NEW w \in Workers, AcceptWhenFull(w)
      PROVE  Goal
  BY <1>4 DEF AcceptWhenFull, net, fields, table, history, Finish, Works
<1>5. ASSUME NEW w \in Workers, Alloc(w)
      PROVE  Goal
  BY <1>5 DEF Alloc, net, fields, table, history, Finish, Works
<1>6. ASSUME NEW w \in Workers, SetUp(w)
      PROVE  Goal
  BY <1>6 DEF SetUp, net, fields, table, history, Finish, Works
<1>7. ASSUME NEW w \in Workers, Refuse(w)
      PROVE  Goal
  BY <1>7 DEF Refuse, net, fields, table, history, Finish, Works
<1>8. ASSUME NEW w \in Workers, Check(w)
      PROVE  Goal
  BY <1>8 DEF Check, net, fields, table, history, Finish, Works
<1>9. ASSUME NEW w \in Workers, EnterTester(w)
      PROVE  Goal
  BY <1>9 DEF EnterTester, net, fields, table, history, Finish, Works
<1>10. ASSUME NEW w \in Workers, PushGetInfo(w)
       PROVE  Goal
  BY <1>10 DEF PushGetInfo, net, fields, table, history, Finish, Works
<1>11. ASSUME NEW w \in Workers, CopyName(w)
       PROVE  Goal
  BY <1>11 DEF CopyName, net, fields, table, history, Finish, Works
<1>12. ASSUME NEW w \in Workers, PushSaveInfo(w)
       PROVE  Goal
  BY <1>12 DEF PushSaveInfo, net, fields, table, history, Finish, Works
<1>13. ASSUME NEW w \in Workers, CloseSocket(w)
       PROVE  Goal
  BY <1>13 DEF CloseSocket, net, fields, table, history, Finish, Works
<1>14. ASSUME NEW w \in Workers, FreeSlot(w)
       PROVE  Goal
  BY <1>14 DEF FreeSlot, net, fields, table, history, Finish, Works
<1>15. ASSUME NEW w \in Workers, NEW c \in Conns, TakeLogin(w, c)
       PROVE  Goal
  <2>1. HasFresh /\ Fresh \in Buffers
    BY <1>15, FreshBuffer DEF TakeLogin
  <2>2. \A v \in Workers :
          /\ key'[v] = IF v = w THEN keyOf[c] ELSE key[v]
          /\ name'[v] = IF v = w THEN Fresh ELSE name[v]
          /\ pc'[v] = IF v = w THEN "check" ELSE pc[v]
    BY <1>15 DEF TakeLogin
  <2>. QED BY <1>15, <2>2 DEF Works
<1>16. ASSUME NEW w \in Workers, NEW c \in Conns, RecvFails(w, c)
       PROVE  Goal
  BY <1>16 DEF RecvFails, net, fields, table, history, Finish, Works
<1>17. ASSUME NEW w \in Workers, NEW c \in Conns, SendFails(w, c)
       PROVE  Goal
  BY <1>17 DEF SendFails, net, fields, table, history, Finish, Works
<1>18. ASSUME Pop
       PROVE  Goal
  BY <1>18 DEF Pop, net, fields, table, history, Finish, Works
<1>19. ASSUME GetInfoFails
       PROVE  Goal
  BY <1>19 DEF GetInfoFails, net, fields, table, history, Finish, Works
<1>20. ASSUME Load
       PROVE  Goal
  BY <1>20 DEF Load, net, fields, table, history, Finish, Works
<1>21. ASSUME SendLoginInfo
       PROVE  Goal
  BY <1>21 DEF SendLoginInfo, net, fields, table, history, Finish, Works
<1>22. ASSUME EnterGame
       PROVE  Goal
  BY <1>22 DEF EnterGame, net, fields, table, history, Finish, Works
<1>23. ASSUME DeleteName
       PROVE  Goal
  BY <1>23 DEF DeleteName, net, fields, table, history, Finish, Works
<1>24. ASSUME PushCreateId
       PROVE  Goal
  BY <1>24 DEF PushCreateId, net, fields, table, history, Finish, Works
<1>25. ASSUME Store
       PROVE  Goal
  BY <1>25 DEF Store, net, fields, table, history, Finish, Works
<1>26. CASE UNCHANGED vars
  BY <1>26 DEF vars, net, fields, table, history, Finish, Works
<1>. QED
  BY <1>1, <1>2, <1>3, <1>4, <1>5, <1>6, <1>7, <1>8, <1>9, <1>10, <1>11,
     <1>12, <1>13, <1>14, <1>15, <1>16, <1>17, <1>18, <1>19, <1>20, <1>21,
     <1>22, <1>23, <1>24, <1>25, <1>26
     DEF Next, Clients, Database, Take, Proceed

LEMMA ComesStep ==
  ASSUME Base, NamesHaveOneOwner, [Next]_vars,
         NEW s \in Slots, NEW b \in Buffers, Comes(s, b)'
  PROVE  \/ Comes(s, b) /\ heap'[b] = heap[b]
         \/ \E w \in Workers, c \in Conns : TakeLogin(w, c) /\ s = keyOf[c] /\ b = Fresh
<1>1. LogsIn(s, b)'
  BY DEF Comes, Checked, LogsIn, Works, Queued, Loading, Asks
<1>2. Comes(s, b) \/ \E w \in Workers, c \in Conns : TakeLogin(w, c) /\ s = keyOf[c] /\ b = Fresh
  BY CheckedStep, CheckStep DEF Comes
<1>. QED BY <1>1, <1>2, LoginsStep

\* The slot and the name of a login.
LEMMA LoginFacts ==
  ASSUME Known, NEW s \in Slots, NEW b \in Buffers, LogsIn(s, b)
  PROVE  m_socket[s] \in Conns /\ keyOf[m_socket[s]] = s /\ heap[b] \in Users
BY DEF Known, Base, TypeOK, Keyed, HasSocket, Accepting, LoginNames, Exclusive, Socketed,
       LogsIn, Works, Queued, Asks

LEMMA ComesLogsIn ==
  ASSUME NEW s, NEW b, Comes(s, b)
  PROVE  LogsIn(s, b)
BY DEF Comes, Checked, LogsIn, Works, Queued, Asks, Loading

\* The login a worker or the database thread works on is received and open.
LEMMA WorkedOn ==
  ASSUME Known
  PROVE  /\ \A w \in Workers : pc[w] \in {"check", "enter"} =>
              key[w] \in Slots /\ name[w] \in Buffers /\ LogsIn(key[w], name[w])
         /\ Loading \/ db \in {"enter", "ingame", "done"} =>
              /\ query.slot \in Slots /\ query.name \in Buffers
              /\ query.op = "GETINFO" /\ LogsIn(query.slot, query.name)
BY DEF Known, Base, TypeOK, Queries, LoginNames, LogsIn, Works, Asks, Loading

\* Who is in the game: a load or a tester's login adds a user.
LEMMA TakenStep ==
  ASSUME Known, [Next]_vars, NEW s \in Slots, m_userid'[s] # NoUser
  PROVE  \/ m_userid'[s] = m_userid[s]
         \/ Load /\ s = query.slot /\ m_userid'[s] = Asked
         \/ \E w \in Workers : EnterTester(w) /\ s = key[w] /\ m_userid'[s] = heap[name[w]]
<1>. DEFINE Goal ==
       \/ m_userid'[s] = m_userid[s]
       \/ Load /\ s = query.slot /\ m_userid'[s] = Asked
       \/ \E w \in Workers : EnterTester(w) /\ s = key[w] /\ m_userid'[s] = heap[name[w]]
<1>. USE SessionsAssumption DEF Known, Base, TypeOK
<1>1. ASSUME NEW w \in Workers, EnterTester(w)
     PROVE  Goal
  <2>1. m_userid' = [m_userid EXCEPT ![key[w]] = heap[name[w]]]
    BY <1>1 DEF EnterTester
  <2>. QED BY <1>1, <2>1
<1>2. ASSUME NEW w \in Workers, CopyName(w)
     PROVE  Goal
  BY <1>2 DEF CopyName, LoginNames
<1>3. ASSUME Load
     PROVE  Goal
  BY <1>3 DEF Load, LoginNames
<1>4. CASE UNCHANGED <<m_userid>>
  BY <1>4
<1>. QED BY <1>1, <1>2, <1>3, <1>4, Frame DEF Writers

\* The user who is let in has passed the check.
LEMMA EntersChecked ==
  ASSUME Known
  PROVE  /\ Load => /\ query.slot \in Slots /\ query.name \in Buffers /\ Asked \in Users
                    /\ Checked(query.slot, query.name)
         /\ \A w \in Workers : EnterTester(w) =>
              /\ key[w] \in Slots /\ name[w] \in Buffers /\ heap[name[w]] \in Users
              /\ Checked(key[w], name[w])
<1>1. ASSUME Load
      PROVE  /\ query.slot \in Slots /\ query.name \in Buffers /\ Asked \in Users
             /\ Checked(query.slot, query.name)
  <2>1. /\ Loading /\ query.slot \in Slots /\ query.name \in Buffers
        /\ LogsIn(query.slot, query.name)
    BY <1>1, WorkedOn DEF Load, Loading
  <2>2. Checked(query.slot, query.name)
    BY <2>1 DEF Checked, Asks
  <2>. QED BY <2>1, <2>2, LoginFacts DEF Asked
<1>2. ASSUME NEW w \in Workers, EnterTester(w)
      PROVE  /\ key[w] \in Slots /\ name[w] \in Buffers /\ heap[name[w]] \in Users
             /\ Checked(key[w], name[w])
  <2>1. key[w] \in Slots /\ name[w] \in Buffers /\ LogsIn(key[w], name[w])
    BY <1>2, WorkedOn DEF EnterTester
  <2>2. Checked(key[w], name[w])
    BY <1>2 DEF EnterTester, Checked, Works
  <2>. QED BY <2>1, <2>2, LoginFacts
<1>. QED BY <1>1, <1>2

LEMMA OneLoginStep ==
  ASSUME Known, OneLogin, [Next]_vars
  PROVE  OneLogin'
<1>. SUFFICES ASSUME NEW s \in Slots, NEW t \in Slots, NEW b \in Buffers, NEW d \in Buffers,
                     Comes(s, b)', Comes(t, d)', heap'[b] = heap'[d],
                     heap'[b] \in Users, heap'[b] \notin raced'
              PROVE  b = d
  BY DEF OneLogin
<1>1. CASE Comes(s, b) /\ heap'[b] = heap[b] /\ Comes(t, d) /\ heap'[d] = heap[d]
  BY <1>1, BoundStep DEF OneLogin, Known, Exclusive, Bound
<1>2. ASSUME NEW w \in Workers, NEW c \in Conns, TakeLogin(w, c),
             NEW r \in Slots, NEW x \in Buffers, Comes(r, x)
      PROVE  heap[x] # user[c] \/ user[c] \in raced'
  <2>1. heap[x] = user[c] => LoginUnderWay(user[c])
    BY <1>2 DEF Comes, Checked, Works, Queued, Loading, Asks, LoginUnderWay
  <2>. QED BY <1>2, <2>1 DEF TakeLogin
<1>3. ASSUME NEW w \in Workers, NEW c \in Conns, TakeLogin(w, c)
      PROVE  heap'[Fresh] = user[c]
  BY <1>3, FreshBuffer DEF TakeLogin, Known, Base, TypeOK
<1>. QED BY <1>1, <1>2, <1>3, ComesStep DEF Known

LEMMA NotYetInStep ==
  ASSUME Known, OneLogin, NotYetIn, [Next]_vars
  PROVE  NotYetIn'
<1>. SUFFICES ASSUME NEW s \in Slots, NEW b \in Buffers, Checked(s, b)',
                     NEW t \in Slots, m_userid'[t] = heap'[b], heap'[b] \notin raced'
              PROVE  FALSE
  BY DEF NotYetIn, Taken
<1>1. Comes(s, b)' /\ Comes(s, b)
  BY CheckedStep DEF Comes, Known
<1>2. heap'[b] = heap[b] /\ heap[b] \in Users
  <2>1. heap[b] \in Users
    BY <1>1, LoginFacts, ComesLogsIn
  <2>2. b = Fresh /\ HasFresh => heap[b] \notin Users
    BY FreshBuffer, SessionsAssumption
  <2>. QED BY <1>1, <2>1, <2>2, ComesStep DEF Known, TakeLogin
<1>3. heap[b] \notin raced
  BY <1>2, BoundStep DEF Known, Exclusive, Bound
<1>4. ~Taken(heap[b])
  BY <1>3, CheckedStep DEF NotYetIn, Known
<1>5. \/ Load /\ Asked = heap[b]
      \/ \E w \in Workers : EnterTester(w) /\ heap[name[w]] = heap[b]
  BY <1>2, <1>4, TakenStep, SessionsAssumption DEF Taken
<1>6. CASE Load /\ Asked = heap[b]
  <2>1. b = query.name
    BY <1>1, <1>2, <1>3, <1>6, EntersChecked DEF Asked, OneLogin, Comes
  <2>2. Works(s, b, {"enter"}) \/ Queued(s, b, {"GETINFO"})
    BY <1>6 DEF Load, Checked, Works, Queued, Loading, net
  <2>. QED BY <1>6, <2>1, <2>2 DEF Known, NamesHaveOneOwner, Works, Queued, Load
<1>7. ASSUME NEW w \in Workers, EnterTester(w), heap[name[w]] = heap[b]
      PROVE  FALSE
  <2>1. b = name[w] /\ name[w] \in Buffers
    BY <1>1, <1>2, <1>3, <1>7, EntersChecked DEF OneLogin, Comes
  <2>2. Works(s, b, {"enter"})' => \E v \in Workers : v # w /\ name[v] = b
    BY <1>7 DEF EnterTester, Finish, Works, Known, Base, TypeOK
  <2>3. \/ Works(s, b, {"enter"})' \/ Queued(s, b, {"GETINFO"})
        \/ db # "idle" /\ Asks(s, b)
    BY <1>7 DEF EnterTester, Checked, Queued, Asks, Loading
  <2>. QED BY <2>1, <2>2, <2>3 DEF Known, NamesHaveOneOwner, Queued, Asks
<1>. QED BY <1>5, <1>6, <1>7

LEMMA PlaysOnceStep ==
  ASSUME Known, NotYetIn, UserPlaysOnce, [Next]_vars
  PROVE  UserPlaysOnce'
<1>. SUFFICES ASSUME NEW s \in Slots, NEW t \in Slots, m_userid'[s] = m_userid'[t],
                     m_userid'[s] # NoUser, m_userid'[s] \notin raced'
              PROVE  s = t
  BY DEF UserPlaysOnce
<1>0. m_userid'[s] \notin raced
  BY BoundStep DEF Known, Exclusive, Bound
<1>1. CASE m_userid'[s] = m_userid[s] /\ m_userid'[t] = m_userid[t]
  BY <1>0, <1>1 DEF UserPlaysOnce
<1>2. ASSUME Load
      PROVE  s = t
  <2>1. \A r \in {s, t} : m_userid'[r] = m_userid[r] \/ (r = query.slot /\ m_userid'[r] = Asked)
    BY <1>2 DEF Load, Known, Base, TypeOK
  <2>2. Asked \in raced \/ \A r \in Slots : m_userid[r] # Asked
    BY <1>2, EntersChecked DEF NotYetIn, Asked, Taken
  <2>. QED BY <1>0, <2>1, <2>2 DEF UserPlaysOnce
<1>3. ASSUME NEW w \in Workers, EnterTester(w)
      PROVE  s = t
  <2>1. \A r \in {s, t} :
          m_userid'[r] = m_userid[r] \/ (r = key[w] /\ m_userid'[r] = heap[name[w]])
    BY <1>3 DEF EnterTester, Known, Base, TypeOK
  <2>2. heap[name[w]] \in raced \/ \A r \in Slots : m_userid[r] # heap[name[w]]
    BY <1>3, EntersChecked DEF NotYetIn, Taken
  <2>. QED BY <1>0, <2>1, <2>2 DEF UserPlaysOnce
<1>. QED BY <1>1, <1>2, <1>3, TakenStep

LEMMA KnownInvariant == Spec => []Known
BY BaseInvariant, ExclusiveInvariant, PTL DEF Known

LEMMA PlaysInvariant == Spec => [](OneLogin /\ NotYetIn /\ UserPlaysOnce)
<1>. DEFINE Inv == OneLogin /\ NotYetIn /\ UserPlaysOnce
<1>1. Init => Inv
  <2>. SUFFICES ASSUME Init
                PROVE  Inv
    OBVIOUS
  <2>1. \A s, b : ~Comes(s, b) /\ ~Checked(s, b)
    BY DEF Init, Comes, Checked, Works, Queued, Asks, Loading
  <2>. QED BY <2>1, SessionsAssumption DEF Init, OneLogin, NotYetIn, UserPlaysOnce
<1>2. Known /\ Inv /\ [Next]_vars => Inv'
  BY OneLoginStep, NotYetInStep, PlaysOnceStep
<1>. QED BY <1>1, <1>2, KnownInvariant, PTL DEF Spec
-----------------------------------------------------------------------------
(***************************************************************************)
(* Slots without a failed SEND and without a hasty client.  The client of  *)
(* a login stays until the login is over (LoginsWait), so its slot is not  *)
(* given away meanwhile (LeftSlots), has one login at a time (LoginsOnce)  *)
(* and is not saved behind it (StoreFirst).                                *)
(***************************************************************************)
Calm(s) == ~Spoilt(s) /\ ~Hasty(s)
LeftSocket(s) == m_socket[s] \in Conns => client[m_socket[s]] = "left"

\* Sockets are closed after their clients have left, and logins that wait are
\* of clients that are there.
ClosedLeft ==
  /\ \A c \in closed : keyOf[c] \in Slots
  /\ \A s \in Slots : Calm(s) => \A c \in closed : keyOf[c] = s => client[c] = "left"
  /\ \A c \in login : client[c] = "open" \/ c \in early

\* A free slot, one being handed out and one being given back are nobody's.
Left(s) ==
  /\ state[s] = "FREE" => LeftSocket(s)
  /\ \A w \in Workers : Handles(w, s) /\ pc[w] \notin {"check", "enter"} => LeftSocket(s)
LeftSlots == \A s \in Slots : Calm(s) => Left(s)

LoginsWait ==
  \A s \in Slots, b \in Buffers : Calm(s) /\ LogsIn(s, b) =>
    m_socket[s] \notin login /\ client[m_socket[s]] = "open"
LoginsOnce ==
  \A s \in Slots, b, c \in Buffers : Calm(s) /\ LogsIn(s, b) /\ LogsIn(s, c) => b = c

\* What is stored from a slot is stored before the next login of that slot.
First(s) ==
  \A i \in 1 .. Len(QueryQueue) :
    QueryQueue[i].op # "GETINFO" /\ QueryQueue[i].slot = s =>
      /\ \A j \in 1 .. i : QueryQueue[j].op = "GETINFO" => QueryQueue[j].slot # s
      /\ Loading => query.slot # s
StoreFirst == \A s \in Slots : Calm(s) => First(s)

Calmly == ClosedLeft /\ LeftSlots /\ LoginsWait /\ LoginsOnce /\ StoreFirst

\* A slot that is calm after a step was calm before.
LEMMA CalmBefore ==
  ASSUME Known, [Next]_vars, NEW s \in Slots, Calm(s)'
  PROVE  Calm(s) /\ One(s)
BY SpoiltStays DEF Known, Exclusive, Calm

LEMMA ClosedLeftStep ==
  ASSUME Known, ClosedLeft, LeftSlots, [Next]_vars
  PROVE  ClosedLeft'
<1>. USE SessionsAssumption DEF Known, Base, TypeOK
<1>a. \A w \in Workers : pc[w] = "close" =>
        /\ m_socket[key[w]] \in Conns /\ keyOf[m_socket[key[w]]] = key[w] /\ key[w] \in Slots
        /\ Calm(key[w]) => client[m_socket[key[w]]] = "left"
  <2>. SUFFICES ASSUME NEW w \in Workers, pc[w] = "close"
                PROVE  /\ m_socket[key[w]] \in Conns /\ keyOf[m_socket[key[w]]] = key[w]
                       /\ key[w] \in Slots
                       /\ Calm(key[w]) => client[m_socket[key[w]]] = "left"
    OBVIOUS
  <2>1. key[w] \in Slots /\ m_socket[key[w]] \in Conns
    BY DEF Keyed, HasSocket, Accepting
  <2>2. keyOf[m_socket[key[w]]] = key[w]
    BY <2>1 DEF Exclusive, Socketed
  <2>3. Calm(key[w]) => LeftSocket(key[w])
    BY <2>1 DEF LeftSlots, Left, Handles
  <2>. QED BY <2>1, <2>2, <2>3 DEF LeftSocket
<1>b. \A c \in Conns : keyOf[c] \in Slots => keyOf'[c] = keyOf[c]
  BY BoundStep DEF Bound, Exclusive
<1>c. \A c \in closed' : c \in closed \/ \E w \in Workers : pc[w] = "close" /\ c = m_socket[key[w]]
  BY Frame DEF Writers, CloseSocket
<1>d. \A c \in closed' : c \in Conns /\ keyOf[c] \in Slots /\ keyOf'[c] = keyOf[c]
  <2>1. ASSUME NEW c \in closed'
        PROVE  c \in Conns /\ keyOf[c] \in Slots
    <3>1. CASE c \in closed
      BY <3>1 DEF ClosedLeft
    <3>2. CASE \E w \in Workers : pc[w] = "close" /\ c = m_socket[key[w]]
      BY <1>a, <3>2
    <3>. QED BY <1>c, <3>1, <3>2
  <2>. QED BY <1>b, <2>1
<1>e. \A c \in Conns : client[c] = "left" => client'[c] = "left"
  <2>1. ASSUME NEW c \in Conns, NEW u \in Users \cup {NoUser}, Connect(c, u)
        PROVE  \A d \in Conns : client[d] = "left" => client'[d] = "left"
    BY <2>1 DEF Connect
  <2>2. ASSUME NEW c \in Conns, Leave(c)
        PROVE  \A d \in Conns : client[d] = "left" => client'[d] = "left"
    BY <2>2 DEF Leave
  <2>3. CASE UNCHANGED <<client, user>>
    BY <2>3
  <2>. QED BY <2>1, <2>2, <2>3, Frame DEF Writers
<1>1. ASSUME NEW s \in Slots, Calm(s)', NEW c \in closed', keyOf'[c] = s
      PROVE  client'[c] = "left"
  <2>1. Calm(s) /\ c \in Conns /\ keyOf[c] = s
    BY <1>1, <1>d, CalmBefore
  <2>2. client[c] = "left"
    BY <1>a, <1>c, <2>1 DEF ClosedLeft
  <2>. QED BY <1>e, <2>1, <2>2
<1>2. \A c \in login' : client'[c] = "open" \/ c \in early'
  <2>. USE DEF ClosedLeft
  <2>0. \A d \in login : client[d] # "new"
    BY DEF LoginNames
  <2>1. ASSUME NEW c \in Conns, NEW u \in Users \cup {NoUser}, Connect(c, u)
        PROVE  \A d \in login' : client'[d] = "open" \/ d \in early'
    BY <2>0, <2>1 DEF Connect, history
  <2>2. ASSUME NEW c \in Conns, Leave(c)
        PROVE  \A d \in login' : client'[d] = "open" \/ d \in early'
    BY <2>2 DEF Leave, LoginPending
  <2>3. ASSUME NEW w \in Workers, NEW c \in Conns, TakeLogin(w, c)
        PROVE  \A d \in login' : client'[d] = "open" \/ d \in early'
    BY <2>3 DEF TakeLogin
  <2>4. CASE UNCHANGED <<client, user, login>>
    BY <2>4, BoundStep DEF Bound, Exclusive
  <2>. QED BY <2>1, <2>2, <2>3, <2>4, Frame DEF Writers
<1>. QED BY <1>1, <1>2, <1>d DEF ClosedLeft

\* The socket of a slot is a client's that has come.
LEMMA SocketHasCome ==
  ASSUME Socketed, NEW s \in Slots, m_socket[s] \in Conns
  PROVE  client[m_socket[s]] # "new"
BY SessionsAssumption DEF Socketed

LEMMA LeftStep ==
  ASSUME Known, ClosedLeft, [Next]_vars, NEW s \in Slots, Calm(s), Calm(s)', One(s), Left(s)
  PROVE  Left(s)'
<1>. USE SessionsAssumption DEF Left, LeftSocket, Handles, Known, Base, TypeOK
<1>a. \A w \in Workers : pc[w] = "setup" /\ key[w] = s =>
        /\ state[s] # "FREE"
        /\ \A v \in Workers : pc[v] # "idle" /\ key[v] = s => v = w
  BY DEF One
<1>b. \A c \in Conns : recv[c] > 0 /\ keyOf[c] = s => m_socket[s] = c
  BY DEF One
<1>c. m_socket[s] \in Conns => client[m_socket[s]] # "new"
  BY SocketHasCome DEF Exclusive
<1>1. ASSUME NEW c \in Conns, NEW u \in Users \cup {NoUser}, Connect(c, u)
      PROVE  Left(s)'
  BY <1>1, <1>c DEF Connect
<1>2. ASSUME NEW c \in Conns, Leave(c)
      PROVE  Left(s)'
  BY <1>2 DEF Leave, net, fields, table, history, Finish
<1>3. ASSUME NEW w \in Workers, Accept(w)
      PROVE  Left(s)'
  <2>1. PICK t \in Slots : state[t] = "FREE" /\ key' = [key EXCEPT ![w] = t]
    BY <1>3 DEF Accept
  <2>. QED BY <1>3, <2>1 DEF Accept
<1>4. ASSUME NEW w \in Workers, AcceptWhenFull(w)
      PROVE  Left(s)'
  BY <1>4 DEF AcceptWhenFull, net, fields, table, history, Finish
<1>5. ASSUME NEW w \in Workers, Alloc(w)
      PROVE  Left(s)'
  BY <1>5 DEF Alloc, net, fields, table, history, Finish
<1>6. ASSUME NEW w \in Workers, SetUp(w)
      PROVE  Left(s)'
  BY <1>6, <1>a DEF SetUp, Finish
<1>7. ASSUME NEW w \in Workers, Refuse(w)
      PROVE  Left(s)'
  BY <1>7 DEF Refuse, net, fields, table, history, Finish
<1>8. ASSUME NEW w \in Workers, Check(w)
      PROVE  Left(s)'
  BY <1>8 DEF Check, net, fields, table, history, Finish
<1>9. ASSUME NEW w \in Workers, EnterTester(w)
      PROVE  Left(s)'
  BY <1>9 DEF EnterTester, net, fields, table, history, Finish
<1>10. ASSUME NEW w \in Workers, PushGetInfo(w)
       PROVE  Left(s)'
  BY <1>10 DEF PushGetInfo, net, fields, table, history, Finish
<1>11. ASSUME NEW w \in Workers, CopyName(w)
       PROVE  Left(s)'
  BY <1>11 DEF CopyName, net, fields, table, history, Finish
<1>12. ASSUME NEW w \in Workers, PushSaveInfo(w)
       PROVE  Left(s)'
  BY <1>12 DEF PushSaveInfo, net, fields, table, history, Finish
<1>13. ASSUME NEW w \in Workers, CloseSocket(w)
       PROVE  Left(s)'
  BY <1>13 DEF CloseSocket, net, fields, table, history, Finish
<1>14. ASSUME NEW w \in Workers, FreeSlot(w)
       PROVE  Left(s)'
  BY <1>14 DEF FreeSlot, net, fields, table, history, Finish
<1>15. ASSUME NEW w \in Workers, NEW c \in Conns, TakeLogin(w, c)
       PROVE  Left(s)'
  BY <1>15 DEF TakeLogin, net, fields, table, history, Finish
<1>16. ASSUME NEW w \in Workers, NEW c \in Conns, RecvFails(w, c)
       PROVE  Left(s)'
  <2>1. keyOf[c] = s => m_socket[s] = c /\ client[c] = "left"
    BY <1>16, <1>b DEF RecvFails, Gone, ClosedLeft
  <2>2. \A v \in Workers :
          /\ key'[v] = IF v = w THEN keyOf[c] ELSE key[v]
          /\ pc'[v] = IF v = w THEN "disconnect" ELSE pc[v]
    BY <1>16 DEF RecvFails
  <2>. QED BY <1>16, <2>1, <2>2 DEF RecvFails, net
<1>17. ASSUME NEW w \in Workers, NEW c \in Conns, SendFails(w, c)
       PROVE  Left(s)'
  <2>1. keyOf[c] = s => Spoilt(s)'
    BY <1>17 DEF SendFails, Spoilt
  <2>2. keyOf[c] # s
    BY <2>1 DEF Calm
  <2>. QED BY <1>17, <2>2 DEF SendFails
<1>18. ASSUME Pop
       PROVE  Left(s)'
  BY <1>18 DEF Pop, net, fields, table, history, Finish
<1>19. ASSUME GetInfoFails
       PROVE  Left(s)'
  BY <1>19 DEF GetInfoFails, net, fields, table, history, Finish
<1>20. ASSUME Load
       PROVE  Left(s)'
  BY <1>20 DEF Load, net, fields, table, history, Finish
<1>21. ASSUME SendLoginInfo
       PROVE  Left(s)'
  BY <1>21 DEF SendLoginInfo, net, fields, table, history, Finish
<1>22. ASSUME EnterGame
       PROVE  Left(s)'
  BY <1>22 DEF EnterGame, net, fields, table, history, Finish
<1>23. ASSUME DeleteName
       PROVE  Left(s)'
  BY <1>23 DEF DeleteName, net, fields, table, history, Finish
<1>24. ASSUME PushCreateId
       PROVE  Left(s)'
  BY <1>24 DEF PushCreateId, net, fields, table, history, Finish
<1>25. ASSUME Store
       PROVE  Left(s)'
  BY <1>25 DEF Store, net, fields, table, history, Finish
<1>26. CASE UNCHANGED vars
  BY <1>26 DEF vars, net, fields, table, history, Finish
<1>. QED
  BY <1>1, <1>2, <1>3, <1>4, <1>5, <1>6, <1>7, <1>8, <1>9, <1>10, <1>11,
     <1>12, <1>13, <1>14, <1>15, <1>16, <1>17, <1>18, <1>19, <1>20, <1>21,
     <1>22, <1>23, <1>24, <1>25, <1>26
     DEF Next, Clients, Database, Take, Proceed

\* While a login goes on its client stays.
LEMMA LoginKept ==
  ASSUME Known, LeftSlots, LoginsWait, [Next]_vars,
         NEW s \in Slots, Calm(s), Calm(s)', NEW b \in Buffers, LogsIn(s, b)
  PROVE  LET c == m_socket[s] IN
         m_socket'[s] = c /\ c \notin login' /\ client'[c] = "open"
<1>. DEFINE Goal == /\ m_socket'[s] = m_socket[s] /\ m_socket[s] \notin login'
                    /\ client'[m_socket[s]] = "open"
<1>. USE SessionsAssumption DEF Known, Base, TypeOK
<1>a. /\ m_socket[s] \in Conns /\ keyOf[m_socket[s]] = s /\ m_socket[s] \notin login
      /\ client[m_socket[s]] = "open"
  BY LoginFacts DEF LoginsWait
<1>b. \A w \in Workers : pc[w] = "setup" => key[w] \in Slots \ {s}
  BY <1>a DEF LeftSlots, Left, LeftSocket, Handles
<1>1. ASSUME NEW c \in Conns, NEW u \in Users \cup {NoUser}, Connect(c, u)
      PROVE  Goal
  BY <1>1, <1>a DEF Connect
<1>2. ASSUME NEW c \in Conns, Leave(c)
      PROVE  Goal
  <2>1. CASE c = m_socket[s]
    <3>1. LoginPending(c)
      BY <1>a, <2>1 DEF LogsIn, Works, Queued, Asks, LoginPending
    <3>2. c \in early' /\ keyOf'[c] = s
      BY <1>2, <1>a, <2>1, <3>1 DEF Leave
    <3>. QED BY <3>2 DEF Calm, Hasty
  <2>2. CASE c # m_socket[s]
    BY <1>2, <1>a, <2>2 DEF Leave
  <2>. QED BY <2>1, <2>2
<1>3. ASSUME NEW w \in Workers, SetUp(w)
      PROVE  Goal
  BY <1>3, <1>a, <1>b DEF SetUp
<1>4. ASSUME NEW w \in Workers, NEW c \in Conns, TakeLogin(w, c)
      PROVE  Goal
  BY <1>4, <1>a DEF TakeLogin
<1>5. CASE UNCHANGED <<m_socket, client, login>>
  BY <1>5, <1>a
<1>. QED BY <1>1, <1>2, <1>3, <1>4, <1>5, Frame DEF Writers

\* A login that is received is of the client its slot has.
LEMMA TakenLogin ==
  ASSUME Known, ClosedLeft, NEW w \in Workers, NEW c \in Conns, TakeLogin(w, c),
         NEW s \in Slots, keyOf[c] = s, Calm(s)
  PROVE  m_socket[s] = c /\ c \in login /\ client[c] = "open"
<1>1. One(s) /\ c \notin early
  BY DEF Known, Exclusive, Calm, Hasty
<1>. QED BY <1>1 DEF TakeLogin, One, ClosedLeft

LEMMA LoginsWaitStep ==
  ASSUME Known, ClosedLeft, LeftSlots, LoginsWait, [Next]_vars
  PROVE  LoginsWait'
<1>1. ASSUME NEW s \in Slots, NEW b \in Buffers, Calm(s)', LogsIn(s, b)'
      PROVE  m_socket'[s] \notin login' /\ client'[m_socket'[s]] = "open"
  <2>1. Calm(s)
    BY <1>1, CalmBefore
  <2>2. CASE LogsIn(s, b)
    BY <1>1, <2>1, <2>2, LoginKept
  <2>3. ASSUME NEW w \in Workers, NEW c \in Conns, TakeLogin(w, c), s = keyOf[c]
        PROVE  m_socket'[s] \notin login' /\ client'[m_socket'[s]] = "open"
    <3>1. m_socket[s] = c /\ client[c] = "open"
      BY <2>1, <2>3, TakenLogin
    <3>. QED BY <2>3, <3>1 DEF TakeLogin
  <2>. QED BY <1>1, <2>2, <2>3, LoginsStep DEF Known
<1>. QED BY <1>1 DEF LoginsWait

LEMMA LoginsOnceStep ==
  ASSUME Known, ClosedLeft, LoginsWait, LoginsOnce, [Next]_vars
  PROVE  LoginsOnce'
<1>. SUFFICES ASSUME NEW s \in Slots, NEW b \in Buffers, NEW c \in Buffers,
                     Calm(s)', LogsIn(s, b)', LogsIn(s, c)'
              PROVE  b = c
  BY DEF LoginsOnce
<1>0. Calm(s)
  BY CalmBefore
<1>1. CASE LogsIn(s, b) /\ LogsIn(s, c)
  BY <1>0, <1>1 DEF LoginsOnce
<1>2. ASSUME NEW w \in Workers, NEW d \in Conns, TakeLogin(w, d), s = keyOf[d]
      PROVE  ~LogsIn(s, b) /\ ~LogsIn(s, c)
  <2>1. d \in login /\ m_socket[s] = d
    BY <1>0, <1>2, TakenLogin
  <2>. QED BY <1>0, <2>1 DEF LoginsWait
<1>3. /\ LogsIn(s, b) \/ \E w \in Workers, d \in Conns : TakeLogin(w, d) /\ s = keyOf[d] /\ b = Fresh
      /\ LogsIn(s, c) \/ \E w \in Workers, d \in Conns : TakeLogin(w, d) /\ s = keyOf[d] /\ c = Fresh
  BY LoginsStep DEF Known
<1>. QED BY <1>1, <1>2, <1>3

\* A query that stores, at the end of a queue without a login for its slot.
LEMMA StorePushed ==
  ASSUME TypeOK, NEW s \in Slots, First(s), NEW e \in Queries,
         QueryQueue' = Append(QueryQueue, e),
         e.slot = s =>
           /\ \A i \in 1 .. Len(QueryQueue) :
                QueryQueue[i].op = "GETINFO" => QueryQueue[i].slot # s
           /\ e.op # "GETINFO"
           /\ Loading => query.slot # s,
         Loading' => Loading /\ query' = query
  PROVE  First(s)'
<1>1. /\ Len(QueryQueue) \in Nat /\ Len(QueryQueue') = Len(QueryQueue) + 1
      /\ \A i \in 1 .. Len(QueryQueue) : QueryQueue'[i] = QueryQueue[i]
      /\ QueryQueue'[Len(QueryQueue) + 1] = e
  BY PushedQuery DEF TypeOK
<1>2. ASSUME NEW i \in 1 .. Len(QueryQueue'), QueryQueue'[i].op # "GETINFO",
             QueryQueue'[i].slot = s
      PROVE  /\ \A j \in 1 .. i : QueryQueue'[j].op = "GETINFO" => QueryQueue'[j].slot # s
             /\ Loading' => query'.slot # s
  <2>1. CASE i \in 1 .. Len(QueryQueue)
    BY <1>1, <1>2, <2>1 DEF First
  <2>2. CASE i = Len(QueryQueue) + 1
    BY <1>1, <1>2, <2>2
  <2>. QED BY <1>1, <2>1, <2>2
<1>. QED BY <1>2 DEF First

LEMMA StoreFirstStep ==
  ASSUME Known, LeftSlots, LoginsWait, LoginsOnce, StoreFirst, [Next]_vars
  PROVE  StoreFirst'
<1>. SUFFICES ASSUME NEW s \in Slots, Calm(s)'
              PROVE  First(s)'
  BY DEF StoreFirst
<1>0. Calm(s) /\ First(s) /\ TypeOK
  BY CalmBefore DEF StoreFirst, Known, Base
<1>1. ASSUME NEW w \in Workers, PushGetInfo(w)
      PROVE  First(s)'
  <2>. DEFINE e == [slot |-> key[w], op |-> "GETINFO", name |-> name[w]]
  <2>1. /\ QueryQueue' = Append(QueryQueue, e) /\ e \in Queries /\ e.op = "GETINFO"
        /\ UNCHANGED <<db, query>>
    BY <1>0, <1>1 DEF PushGetInfo, Queries, TypeOK
  <2>. HIDE DEF e
  <2>2. /\ Len(QueryQueue) \in Nat /\ Len(QueryQueue') = Len(QueryQueue) + 1
        /\ \A i \in 1 .. Len(QueryQueue) : QueryQueue'[i] = QueryQueue[i]
        /\ QueryQueue'[Len(QueryQueue) + 1] = e
    BY <1>0, <2>1, PushedQuery DEF TypeOK
  <2>3. ASSUME NEW i \in 1 .. Len(QueryQueue'), QueryQueue'[i].op # "GETINFO"
        PROVE  i \in 1 .. Len(QueryQueue) /\ QueryQueue'[i] = QueryQueue[i]
    BY <2>1, <2>2, <2>3
  <2>. QED BY <1>0, <2>1, <2>2, <2>3 DEF First, Loading
<1>2. ASSUME NEW w \in Workers, PushSaveInfo(w)
      PROVE  First(s)'
  <2>. DEFINE e == [slot |-> key[w], op |-> "SAVEINFO", name |-> name[w]]
  <2>1. /\ QueryQueue' = Append(QueryQueue, e) /\ e \in Queries /\ e.slot = key[w]
        /\ e.op # "GETINFO" /\ UNCHANGED <<db, query>>
    BY <1>0, <1>2 DEF PushSaveInfo, Queries, TypeOK
  <2>. HIDE DEF e
  <2>2. key[w] = s => \A b \in Buffers : ~LogsIn(s, b)
    BY <1>0, <1>2, LoginFacts DEF PushSaveInfo, LeftSlots, Left, LeftSocket, Handles, LoginsWait
  <2>3. key[w] = s =>
          /\ \A i \in 1 .. Len(QueryQueue) :
               QueryQueue[i].op = "GETINFO" => QueryQueue[i].slot # s
          /\ Loading => query.slot # s
    BY <1>0, <2>2, WorkedOn, NamesAreBuffers DEF LogsIn, Queued
  <2>. QED BY <1>0, <2>1, <2>3, StorePushed DEF Loading
<1>3. ASSUME PushCreateId
      PROVE  First(s)'
  <2>. DEFINE e == [query EXCEPT !.op = "CREATEID"]
  <2>1. /\ QueryQueue' = Append(QueryQueue, e) /\ e \in Queries /\ e.slot = query.slot
        /\ e.op # "GETINFO" /\ ~Loading /\ ~Loading'
    BY <1>0, <1>3 DEF PushCreateId, Queries, Loading, TypeOK
  <2>. HIDE DEF e
  <2>2. LogsIn(query.slot, query.name) /\ query.slot \in Slots /\ query.name \in Buffers
        /\ db # "idle"
    BY <1>3, WorkedOn DEF PushCreateId, Loading
  <2>3. query.slot = s => \A i \in 1 .. Len(QueryQueue) :
             QueryQueue[i].op = "GETINFO" => QueryQueue[i].slot # s
    <3>. SUFFICES ASSUME query.slot = s,
                         NEW i \in 1 .. Len(QueryQueue), QueryQueue[i].op = "GETINFO",
                         QueryQueue[i].slot = s
                  PROVE  FALSE
      OBVIOUS
    <3>1. LogsIn(s, QueryQueue[i].name) /\ QueryQueue[i].name \in Buffers
      BY <1>0, NamesAreBuffers DEF LogsIn, Queued
    <3>2. QueryQueue[i].name = query.name
      BY <1>0, <2>2, <3>1 DEF LoginsOnce
    <3>. QED BY <2>2, <3>2 DEF Known, NamesHaveOneOwner
  <2>. QED BY <1>0, <2>1, <2>3, StorePushed
<1>4. ASSUME Pop
      PROVE  First(s)'
  <2>1. /\ Len(QueryQueue) \in Nat \ {0} /\ Len(QueryQueue') = Len(QueryQueue) - 1
        /\ query' = QueryQueue[1]
        /\ \A i \in 1 .. Len(QueryQueue') :
             QueryQueue'[i] = QueryQueue[i + 1] /\ i + 1 \in 1 .. Len(QueryQueue)
    BY <1>0, <1>4, PoppedQuery DEF Pop, TypeOK
  <2>2. ASSUME NEW i \in 1 .. Len(QueryQueue'), QueryQueue'[i].op # "GETINFO",
               QueryQueue'[i].slot = s
        PROVE  /\ \A j \in 1 .. i : QueryQueue'[j].op = "GETINFO" => QueryQueue'[j].slot # s
               /\ Loading' => query'.slot # s
    <3>1. i + 1 \in 1 .. Len(QueryQueue) /\ QueryQueue[i + 1].op # "GETINFO"
          /\ QueryQueue[i + 1].slot = s
      BY <2>1, <2>2
    <3>2. \A j \in 1 .. i + 1 : QueryQueue[j].op = "GETINFO" => QueryQueue[j].slot # s
      BY <1>0, <3>1 DEF First
    <3>3. \A j \in 1 .. i : j + 1 \in 1 .. i + 1 /\ QueryQueue'[j] = QueryQueue[j + 1]
      BY <2>1
    <3>4. 1 \in 1 .. i + 1
      BY <2>1
    <3>5. Loading' => query'.op = "GETINFO"
      BY DEF Loading
    <3>6. \A j \in 1 .. i : QueryQueue'[j].op = "GETINFO" => QueryQueue'[j].slot # s
      BY ONLY <3>2, <3>3
    <3>7. Loading' => query'.slot # s
      BY <2>1, <3>2, <3>4, <3>5
    <3>. QED BY <3>6, <3>7
  <2>. QED BY <2>2 DEF First
<1>5. CASE UNCHANGED QueryQueue /\ (Loading' => Loading /\ query' = query)
  BY <1>0, <1>5 DEF First
<1>. QED BY <1>0, <1>1, <1>2, <1>3, <1>4, <1>5, Frame DEF Writers

\* A slot in the game has a connection or is about to be freed.
Alive(s) ==
  state[s] = "INGAME" =>
    m_socket[s] \notin closed \/ \E w \in Workers : pc[w] = "free" /\ key[w] = s

LEMMA AliveStep ==
  ASSUME Known, ClosedLeft, LoginsWait, [Next]_vars,
         NEW s \in Slots, Calm(s), Alive(s)
  PROVE  Alive(s)'
<1>. USE SessionsAssumption DEF Known, Base, TypeOK, Alive
<1>a. \A b \in Buffers : LogsIn(s, b) => m_socket[s] \notin closed
  <2>. SUFFICES ASSUME NEW b \in Buffers, LogsIn(s, b)
                PROVE  m_socket[s] \notin closed
    OBVIOUS
  <2>1. m_socket[s] \in Conns /\ keyOf[m_socket[s]] = s
    BY LoginFacts
  <2>2. client[m_socket[s]] = "open"
    BY DEF LoginsWait
  <2>. QED BY <2>1, <2>2 DEF ClosedLeft
<1>b. \A w \in Workers : pc[w] = "setup" => g_c_socket \in Conns \ closed
  BY DEF AcceptsOne, Accepting, Exclusive, Socketed, ClosedLeft
<1>c. \A w \in Workers :
        pc[w] = "close" /\ m_socket[s] = m_socket[key[w]] => s = key[w]
  BY DEF Keyed, HasSocket, Accepting, Exclusive, Socketed
<1>1. ASSUME NEW w \in Workers, SetUp(w)
      PROVE  Alive(s)'
  BY <1>1, <1>b DEF SetUp, Finish
<1>2. ASSUME NEW w \in Workers, Alloc(w)
      PROVE  Alive(s)'
  BY <1>2 DEF Alloc
<1>3. ASSUME NEW w \in Workers, EnterTester(w)
      PROVE  Alive(s)'
  <2>1. key[w] = s => m_socket[s] \notin closed
    BY <1>3, <1>a, WorkedOn DEF EnterTester
  <2>. QED BY <1>3, <2>1 DEF EnterTester, net, Finish
<1>4. ASSUME NEW w \in Workers, CloseSocket(w)
      PROVE  Alive(s)'
  BY <1>4, <1>c DEF CloseSocket, net
<1>5. ASSUME NEW w \in Workers, FreeSlot(w)
      PROVE  Alive(s)'
  BY <1>5 DEF FreeSlot, net, Finish
<1>6. ASSUME EnterGame
      PROVE  Alive(s)'
  <2>1. query.slot = s => m_socket[s] \notin closed
    BY <1>6, <1>a, WorkedOn DEF EnterGame
  <2>. QED BY <1>6, <2>1 DEF EnterGame, net
<1>7. CASE /\ UNCHANGED <<state, m_socket, closed>>
           /\ \A w \in Workers : pc[w] = "free" => pc'[w] = "free" /\ key'[w] = key[w]
  BY <1>7
<1>. QED BY <1>1, <1>2, <1>3, <1>4, <1>5, <1>6, <1>7, Frame DEF Writers

LEMMA CalmInvariant == Spec => [](Known /\ Calmly /\ NoGhosts)
<1>. DEFINE Inv == Calmly /\ NoGhosts
<1>1. Init => Inv
  <2>. SUFFICES ASSUME Init
                PROVE  Inv
    OBVIOUS
  <2>1. \A s, b : ~LogsIn(s, b)
    BY DEF Init, LogsIn, Works, Queued, Asks
  <2>2. ClosedLeft /\ LeftSlots /\ StoreFirst
    BY SessionsAssumption
       DEF Init, ClosedLeft, LeftSlots, Left, LeftSocket, Handles, StoreFirst, First
  <2>3. LoginsWait /\ LoginsOnce
    BY <2>1 DEF LoginsWait, LoginsOnce
  <2>4. NoGhosts
    BY SessionsAssumption DEF Init, NoGhosts
  <2>. QED BY <2>2, <2>3, <2>4 DEF Calmly
<1>2. Known /\ Inv /\ [Next]_vars => Inv'
  <2>. SUFFICES ASSUME Known, Inv, [Next]_vars
                PROVE  Inv'
    OBVIOUS
  <2>. USE DEF Calmly
  <2>1. ClosedLeft' /\ StoreFirst' /\ LoginsWait' /\ LoginsOnce'
    BY ClosedLeftStep, StoreFirstStep, LoginsWaitStep, LoginsOnceStep
  <2>2. LeftSlots'
    BY LeftStep, CalmBefore DEF LeftSlots
  <2>3. ASSUME NEW s \in Slots, Calm(s)'
        PROVE  Alive(s)'
    BY <2>3, AliveStep, CalmBefore DEF NoGhosts, Alive, Calm
  <2>4. NoGhosts'
    BY <2>3 DEF NoGhosts, Alive, Calm
  <2>. QED BY <2>1, <2>2, <2>4
<1>. QED BY <1>1, <1>2, KnownInvariant, PTL DEF Spec
-----------------------------------------------------------------------------
(***************************************************************************)
(* Rows.  Who is stored from a slot has visited it; if all that a user has *)
(* visited is spared, the slots hold his own character while they hold his *)
(* name or store for him (OwnFields).                                      *)
(***************************************************************************)
Stores(s, b) ==
  \/ Works(s, b, {"save"}) \/ Queued(s, b, {"SAVEINFO", "CREATEID"})
  \/ db # "idle" /\ ~Loading /\ Asks(s, b)

Visited(s, u) == \E c \in Conns : keyOf[c] = s /\ user[c] = u
Visits ==
  \A s \in Slots :
    /\ m_userid[s] \in Users => Visited(s, m_userid[s])
    /\ \A b \in Buffers : (LogsIn(s, b) \/ Stores(s, b)) /\ heap[b] \in Users =>
         Visited(s, heap[b])

Spared(s) == Calm(s) /\ ~Tested(s)
Kept(u) == \A s \in Slots : Visited(s, u) => Spared(s)
Holds(s, u) == owner[s] = u /\ place[s] \in {u, NoUser}
OwnFields(u) ==
  /\ \A s \in Slots : m_userid[s] = u => Holds(s, u)
  /\ \A s \in Slots, b \in Buffers : Stores(s, b) /\ heap[b] = u => Holds(s, u)
  /\ rows[u] \in {u, NoUser} /\ (u \in Registered => rows[u] = u)
  /\ spots[u] \in {u, NoUser}
Rows == Visits /\ \A u \in Users : Kept(u) => OwnFields(u)

\* A character goes to the database from disconnect, or when it has been loaded.
LEMMA StoresStep ==
  ASSUME Base, NamesHaveOneOwner, LoginNames, [Next]_vars,
         NEW s \in Slots, NEW b \in Buffers, Stores(s, b)'
  PROVE  \/ Stores(s, b) /\ heap'[b] = heap[b]
         \/ \E w \in Workers : CopyName(w) /\ s = key[w] /\ b = Fresh
         \/ Load /\ Asks(s, b)
<1>. DEFINE Goal ==
       \/ Stores(s, b) /\ heap'[b] = heap[b]
       \/ \E w \in Workers : CopyName(w) /\ s = key[w] /\ b = Fresh
       \/ Load /\ Asks(s, b)
<1>. USE DEF Base, TypeOK, NamesHaveOneOwner
<1>1. ASSUME NEW c \in Conns, NEW u \in Users \cup {NoUser}, Connect(c, u)
      PROVE  Goal
  BY <1>1 DEF Connect, net, fields, table, history, Finish, Works, Asks, Queued, Loading, Stores
<1>2. ASSUME NEW c \in Conns, Leave(c)
      PROVE  Goal
  BY <1>2 DEF Leave, net, fields, table, history, Finish, Works, Asks, Queued, Loading, Stores
<1>3. ASSUME NEW w \in Workers, Accept(w)
      PROVE  Goal
  BY <1>3 DEF Accept, net, fields, table, history, Finish, Works, Asks, Queued, Loading, Stores
<1>4. ASSUME NEW w \in Workers, AcceptWhenFull(w)
      PROVE  Goal
  BY <1>4 DEF AcceptWhenFull, net, fields, table, history, Finish, Works, Asks, Queued, Loading, Stores
<1>5. ASSUME NEW w \in Workers, Alloc(w)
      PROVE  Goal
  BY <1>5 DEF Alloc, net, fields, table, history, Finish, Works, Asks, Queued, Loading, Stores
<1>6. ASSUME NEW w \in Workers, SetUp(w)
      PROVE  Goal
  BY <1>6 DEF SetUp, net, fields, table, history, Finish, Works, Asks, Queued, Loading, Stores
<1>7. ASSUME NEW w \in Workers, Refuse(w)
      PROVE  Goal
  BY <1>7 DEF Refuse, net, fields, table, history, Finish, Works, Asks, Queued, Loading, Stores
<1>8. ASSUME NEW w \in Workers, Check(w)
      PROVE  Goal
  BY <1>8 DEF Check, net, fields, table, history, Finish, Works, Asks, Queued, Loading, Stores
<1>9. ASSUME NEW w \in Workers, EnterTester(w)
      PROVE  Goal
  <2>1. Stores(s, b) /\ name[w] \in Buffers
    BY <1>9 DEF EnterTester, net, fields, table, history, Finish, Works, Asks, Queued, Loading, Stores
  <2>2. b # name[w]
    <3>1. Works(s, b, {"save"}) => b # name[w]
      BY <1>9, <2>1 DEF EnterTester, Works
    <3>2. Queued(s, b, {"SAVEINFO", "CREATEID"}) => b # name[w]
      BY <2>1 DEF Queued
    <3>3. db # "idle" /\ Asks(s, b) => b # name[w]
      BY <2>1 DEF Asks
    <3>. QED BY <2>1, <3>1, <3>2, <3>3 DEF Stores
  <2>. QED BY <1>9, <2>1, <2>2 DEF EnterTester
<1>10. ASSUME NEW w \in Workers, PushGetInfo(w)
      PROVE  Goal
  BY <1>10 DEF PushGetInfo, net, fields, table, history, Finish, Works, Asks, Queued, Loading, Stores
<1>11. ASSUME NEW w \in Workers, CopyName(w)
      PROVE  Goal
  <2>1. Fresh \in Buffers /\ heap[Fresh] = NoName
    BY <1>11, FreshBuffer DEF CopyName
  <2>2. CASE Stores(s, b)
    <3>1. heap[b] # NoName
      BY <2>2 DEF Stores, Works, Queued, Asks
    <3>. QED BY <1>11, <2>1, <2>2, <3>1 DEF CopyName
  <2>3. CASE ~Stores(s, b)
    BY <1>11, <2>1, <2>3 DEF CopyName, Stores, Works, Asks, Queued, Loading, net, fields, table, history
  <2>. QED BY <2>2, <2>3
<1>12. ASSUME NEW w \in Workers, PushSaveInfo(w)
      PROVE  Goal
  BY <1>12 DEF PushSaveInfo, net, fields, table, history, Finish, Works, Asks, Queued, Loading, Stores
<1>13. ASSUME NEW w \in Workers, CloseSocket(w)
      PROVE  Goal
  BY <1>13 DEF CloseSocket, net, fields, table, history, Finish, Works, Asks, Queued, Loading, Stores
<1>14. ASSUME NEW w \in Workers, FreeSlot(w)
      PROVE  Goal
  BY <1>14 DEF FreeSlot, net, fields, table, history, Finish, Works, Asks, Queued, Loading, Stores
<1>15. ASSUME NEW w \in Workers, NEW c \in Conns, TakeLogin(w, c)
      PROVE  Goal
  <2>1. Stores(s, b)
    BY <1>15 DEF TakeLogin, net, fields, table, history, Stores, Works, Asks, Queued, Loading
  <2>2. heap[b] # NoName
    BY <2>1 DEF Stores, Works, Queued, Asks
  <2>. QED BY <1>15, <2>1, <2>2, FreshBuffer DEF TakeLogin
<1>16. ASSUME NEW w \in Workers, NEW c \in Conns, RecvFails(w, c)
      PROVE  Goal
  BY <1>16 DEF RecvFails, net, fields, table, history, Finish, Works, Asks, Queued, Loading, Stores
<1>17. ASSUME NEW w \in Workers, NEW c \in Conns, SendFails(w, c)
      PROVE  Goal
  BY <1>17 DEF SendFails, net, fields, table, history, Finish, Works, Asks, Queued, Loading, Stores
<1>18. ASSUME Pop
      PROVE  Goal
  <2>1. query' \in Queries /\ query' = QueryQueue[1] /\ 1 \in 1 .. Len(QueryQueue)
    BY <1>18, PoppedQuery DEF Pop
  <2>2. query'.op \in {"GETINFO", "SAVEINFO", "CREATEID"}
    BY <2>1 DEF Queries
  <2>3. Works(s, b, {"save"})' => Works(s, b, {"save"})
    BY <1>18 DEF Pop, Works
  <2>4. Queued(s, b, {"SAVEINFO", "CREATEID"})' => Queued(s, b, {"SAVEINFO", "CREATEID"})
    BY <1>18, QueuedPop
  <2>5. (db # "idle" /\ ~Loading /\ Asks(s, b))' => Queued(s, b, {"SAVEINFO", "CREATEID"})
    BY <1>18, <2>1, <2>2 DEF Pop, Loading, Asks, Queued
  <2>. QED BY <1>18, <2>3, <2>4, <2>5 DEF Pop, Stores
<1>19. ASSUME GetInfoFails
      PROVE  Goal
  BY <1>19 DEF GetInfoFails, net, fields, table, history, Finish, Works, Asks, Queued, Loading, Stores
<1>20. ASSUME Load
      PROVE  Goal
  BY <1>20 DEF Load, net, fields, table, history, Finish, Works, Asks, Queued, Loading, Stores
<1>21. ASSUME SendLoginInfo
      PROVE  Goal
  BY <1>21 DEF SendLoginInfo, net, fields, table, history, Finish, Works, Asks, Queued, Loading, Stores
<1>22. ASSUME EnterGame
      PROVE  Goal
  BY <1>22 DEF EnterGame, net, fields, table, history, Finish, Works, Asks, Queued, Loading, Stores
<1>23. ASSUME DeleteName
      PROVE  Goal
  <2>1. Stores(s, b) /\ (Works(s, b, {"save"}) \/ Queued(s, b, {"SAVEINFO", "CREATEID"}))
    BY <1>23 DEF DeleteName, net, fields, table, history, Stores, Works, Asks, Queued, Loading
  <2>2. b # query.name /\ db # "idle"
    BY <1>23, <2>1 DEF DeleteName, Works, Queued
  <2>. QED BY <1>23, <2>1, <2>2 DEF DeleteName, Freed
<1>24. ASSUME PushCreateId
      PROVE  Goal
  BY <1>24 DEF PushCreateId, net, fields, table, history, Finish, Works, Asks, Queued, Loading, Stores
<1>25. ASSUME Store
      PROVE  Goal
  <2>1. Stores(s, b) /\ (Works(s, b, {"save"}) \/ Queued(s, b, {"SAVEINFO", "CREATEID"}))
    BY <1>25 DEF Store, net, fields, table, history, Stores, Works, Asks, Queued, Loading
  <2>2. b # query.name /\ db # "idle"
    BY <1>25, <2>1 DEF Store, Works, Queued
  <2>. QED BY <1>25, <2>1, <2>2 DEF Store, Freed
<1>26. CASE UNCHANGED vars
  BY <1>26 DEF vars, net, fields, table, history, Finish, Works, Asks, Queued, Loading, Stores
<1>. QED
  BY <1>1, <1>2, <1>3, <1>4, <1>5, <1>6, <1>7, <1>8, <1>9, <1>10, <1>11,
     <1>12, <1>13, <1>14, <1>15, <1>16, <1>17, <1>18, <1>19, <1>20, <1>21,
     <1>22, <1>23, <1>24, <1>25, <1>26
     DEF Next, Clients, Database, Take, Proceed


LEMMA VisitsStep ==
  ASSUME Known, Visits, [Next]_vars
  PROVE  Visits'
<1>. DEFINE Visitor(s, u) == \E c \in Conns : keyOf'[c] = s /\ user'[c] = u
<1>a. \A s \in Slots : \A u : Visited(s, u) => Visitor(s, u)
  BY BoundStep DEF Visited, Bound, Known, Exclusive
<1>. HIDE DEF Visitor
<1>b. ASSUME Load
      PROVE  Asked \in Users /\ Visited(query.slot, Asked) /\ query.slot \in Slots
  BY <1>b, EntersChecked, ComesLogsIn DEF Visits, Comes, Asked
<1>1. ASSUME NEW s \in Slots, m_userid'[s] \in Users
      PROVE  Visitor(s, m_userid'[s])
  <2>1. m_userid'[s] # NoUser
    BY <1>1, SessionsAssumption
  <2>2. CASE m_userid'[s] = m_userid[s]
    BY <1>1, <1>a, <2>2 DEF Visits
  <2>3. CASE Load /\ s = query.slot /\ m_userid'[s] = Asked
    BY <1>a, <1>b, <2>3
  <2>4. ASSUME NEW w \in Workers, EnterTester(w), s = key[w], m_userid'[s] = heap[name[w]]
        PROVE  Visitor(s, m_userid'[s])
    BY <1>a, <2>4, EntersChecked, ComesLogsIn DEF Visits, Comes
  <2>. QED BY <2>1, <2>2, <2>3, <2>4, TakenStep
<1>2. ASSUME NEW s \in Slots, NEW b \in Buffers, LogsIn(s, b)', heap'[b] \in Users
      PROVE  Visitor(s, heap'[b])
  <2>1. CASE LogsIn(s, b) /\ heap'[b] = heap[b]
    BY <1>2, <1>a, <2>1 DEF Visits
  <2>2. ASSUME NEW w \in Workers, NEW c \in Conns, TakeLogin(w, c), s = keyOf[c], b = Fresh
        PROVE  Visitor(s, heap'[b])
    <3>1. heap'[b] = user[c] /\ UNCHANGED <<keyOf, user>>
      BY <2>2, FreshBuffer DEF TakeLogin, Known, Base, TypeOK
    <3>. QED BY <2>2, <3>1 DEF Visitor
  <2>. QED BY <1>2, <2>1, <2>2, LoginsStep DEF Known
<1>3. ASSUME NEW s \in Slots, NEW b \in Buffers, Stores(s, b)', heap'[b] \in Users
      PROVE  Visitor(s, heap'[b])
  <2>1. CASE Stores(s, b) /\ heap'[b] = heap[b]
    BY <1>3, <1>a, <2>1 DEF Visits
  <2>2. ASSUME NEW w \in Workers, CopyName(w), s = key[w], b = Fresh
        PROVE  Visitor(s, heap'[b])
    <3>1. heap'[b] = m_userid[s]
      BY <2>2, FreshBuffer DEF CopyName, Known, Base, TypeOK
    <3>. QED BY <1>3, <1>a, <3>1 DEF Visits
  <2>3. CASE Load /\ Asks(s, b)
    <3>1. heap'[b] = Asked /\ s = query.slot
      BY <2>3 DEF Load, Asks, Asked
    <3>. QED BY <1>a, <1>b, <2>3, <3>1
  <2>. QED BY <1>3, <2>1, <2>2, <2>3, StoresStep DEF Known
<1>. QED BY <1>1, <1>2, <1>3 DEF Visits, Visited, Visitor

\* A user that is kept after a step was kept before.
LEMMA KeptBefore ==
  ASSUME Known, [Next]_vars, NEW u \in Users, Kept(u)'
  PROVE  /\ Kept(u)
         /\ \A s \in Slots : Visited(s, u) => Spared(s) /\ Spared(s)'
<1>1. ASSUME NEW s \in Slots, Visited(s, u)
      PROVE  Spared(s) /\ Spared(s)'
  <2>1. Visited(s, u)'
    BY <1>1, BoundStep DEF Visited, Bound, Known, Exclusive
  <2>2. Spared(s)'
    BY <2>1 DEF Kept
  <2>. QED BY <2>2, SpoiltStays DEF Spared, Calm, Known, Exclusive
<1>. QED BY <1>1 DEF Kept

\* Only a load changes whose character a spared slot holds.
LEMMA HoldsStep ==
  ASSUME Known, Visits, [Next]_vars, NEW u \in Users,
         NEW s \in Slots, Spared(s), Holds(s, u), ~(Load /\ s = query.slot)
  PROVE  Holds(s, u)'
<1>. USE DEF Holds
<1>1. ASSUME NEW w \in Workers, EnterTester(w)
      PROVE  Holds(s, u)'
  <2>1. key[w] \in Slots /\ Visited(key[w], heap[name[w]]) /\ heap[name[w]] \in Testers
    BY <1>1, EntersChecked, ComesLogsIn DEF Visits, Comes, EnterTester
  <2>2. key[w] # s
    BY <2>1 DEF Spared, Tested, Visited
  <2>. QED BY <1>1, <2>2 DEF EnterTester
<1>2. ASSUME NEW w \in Workers, SetUp(w)
      PROVE  Holds(s, u)'
  BY <1>2 DEF SetUp, Known, Base, TypeOK
<1>3. CASE Load
  BY <1>3 DEF Load
<1>4. CASE UNCHANGED <<owner, place>>
  BY <1>4
<1>. QED BY <1>1, <1>2, <1>3, <1>4, Frame DEF Writers, Known, Base

\* Nothing is stored from a calm slot that a login is loaded into.
LEMMA NoStoreAtLoad ==
  ASSUME Known, Calmly, Load, Calm(query.slot), NEW b \in Buffers
  PROVE  ~Stores(query.slot, b)
<1>1. Loading /\ query.slot \in Slots /\ query.name \in Buffers /\ LogsIn(query.slot, query.name)
  BY WorkedOn DEF Load, Loading
<1>2. m_socket[query.slot] \in Conns /\ client[m_socket[query.slot]] = "open"
  BY <1>1, LoginFacts DEF Calmly, LoginsWait
<1>3. ~Works(query.slot, b, {"save"})
  BY <1>1, <1>2 DEF Calmly, LeftSlots, Left, LeftSocket, Works, Handles
<1>4. ~Queued(query.slot, b, {"SAVEINFO", "CREATEID"})
  BY <1>1 DEF Calmly, StoreFirst, First, Queued
<1>. QED BY <1>1, <1>3, <1>4 DEF Stores

\* A load of a kept user loads his own character.
LEMMA LoadOwn ==
  ASSUME Known, Load, OwnFields(Asked)
  PROVE  Holds(query.slot, Asked)'
<1>1. Asked \in Users /\ query.slot \in Slots /\ Asked # NoUser
  BY EntersChecked, SessionsAssumption
<1>2. rows[Asked] \in {Asked, NoUser} /\ spots[Asked] \in {Asked, NoUser}
  BY DEF OwnFields
<1>3. /\ owner' = [owner EXCEPT ![query.slot] = IF rows[Asked] = NoUser THEN Asked ELSE rows[Asked]]
      /\ place' = [place EXCEPT ![query.slot] = IF rows[Asked] = NoUser THEN Asked ELSE spots[Asked]]
      /\ query' = query /\ Asked' = Asked
  BY DEF Load, Asked
<1>4. owner'[query.slot] = Asked /\ place'[query.slot] \in {Asked, NoUser}
  BY <1>1, <1>2, <1>3 DEF Known, Base, TypeOK
<1>. QED BY <1>3, <1>4 DEF Holds

\* A store writes the character of a kept user into his row.
LEMMA RowsStep ==
  ASSUME Known, [Next]_vars, NEW u \in Users, OwnFields(u)
  PROVE  /\ rows'[u] \in {u, NoUser} /\ (u \in Registered => rows'[u] = u)
         /\ spots'[u] \in {u, NoUser}
<1>. DEFINE Goal == /\ rows'[u] \in {u, NoUser} /\ (u \in Registered => rows'[u] = u)
                    /\ spots'[u] \in {u, NoUser}
<1>. USE DEF OwnFields
<1>1. CASE UNCHANGED table
  BY <1>1 DEF table
<1>2. ASSUME Store, ~UNCHANGED table
      PROVE  Goal
  <2>1. Stores(query.slot, query.name) /\ query.slot \in Slots /\ query.name \in Buffers
    BY <1>2 DEF Known, Base, TypeOK, Queries, Store, Stores, Loading, Asks
  <2>2. u = Asked => Holds(query.slot, u)
    BY <2>1 DEF Asked
  <2>3. /\ rows'[u] = IF Stored(u) THEN owner[query.slot] ELSE rows[u]
        /\ spots'[u] = IF Stored(u) THEN place[query.slot] ELSE spots[u]
    BY <1>2 DEF Store
  <2>. QED BY <2>2, <2>3 DEF Stored, Holds
<1>. QED BY <1>1, <1>2, Frame DEF Writers, Known, Base

LEMMA OwnFieldsStep ==
  ASSUME Known, Calmly, Rows, [Next]_vars, NEW u \in Users, Kept(u)'
  PROVE  OwnFields(u)'
<1>. USE DEF OwnFields
<1>0. /\ OwnFields(u) /\ Visits
      /\ \A s \in Slots : Visited(s, u) => Spared(s) /\ Calm(s)
  BY KeptBefore DEF Rows, Spared
<1>a. ASSUME Load, Asked = u
      PROVE  Holds(query.slot, u)' /\ query.slot \in Slots /\ query' = query
  BY <1>0, <1>a, LoadOwn, EntersChecked DEF Load, Asked
<1>1. ASSUME NEW s \in Slots, m_userid'[s] = u
      PROVE  Holds(s, u)'
  <2>1. CASE Load /\ s = query.slot
    <3>1. Asked = u
      BY <1>1, <2>1 DEF Load, Known, Base, TypeOK
    <3>. QED BY <1>a, <2>1, <3>1 DEF Holds
  <2>2. CASE m_userid[s] = u /\ ~(Load /\ s = query.slot)
    BY <1>0, <2>2, HoldsStep DEF Visits
  <2>3. ASSUME NEW w \in Workers, EnterTester(w), s = key[w], u = heap[name[w]]
        PROVE  FALSE
    <3>1. Visited(s, u) /\ u \in Testers
      BY <1>0, <2>3, EntersChecked, ComesLogsIn DEF Visits, Comes, EnterTester
    <3>. QED BY <1>0, <3>1 DEF Spared, Tested, Visited
  <2>4. u # NoUser
    BY SessionsAssumption
  <2>. QED BY <1>1, <2>1, <2>2, <2>3, <2>4, TakenStep
<1>2. ASSUME NEW s \in Slots, NEW b \in Buffers, Stores(s, b)', heap'[b] = u
      PROVE  Holds(s, u)'
  <2>1. CASE Stores(s, b) /\ heap'[b] = heap[b]
    <3>1. Visited(s, u) /\ Spared(s) /\ Calm(s) /\ Holds(s, u)
      BY <1>0, <1>2, <2>1 DEF Visits
    <3>2. ~(Load /\ s = query.slot)
      BY <2>1, <3>1, NoStoreAtLoad
    <3>. QED BY <1>0, <3>1, <3>2, HoldsStep
  <2>2. ASSUME NEW w \in Workers, CopyName(w), s = key[w], b = Fresh
        PROVE  Holds(s, u)'
    <3>1. m_userid[s] = u /\ UNCHANGED <<owner, place>>
      BY <1>2, <2>2, FreshBuffer DEF CopyName, fields, Known, Base, TypeOK
    <3>. QED BY <1>0, <3>1 DEF Holds
  <2>3. CASE Load /\ Asks(s, b)
    <3>1. Asked = u /\ s = query.slot
      BY <1>2, <2>3 DEF Load, Asks, Asked
    <3>. QED BY <1>a, <2>3, <3>1 DEF Holds
  <2>. QED BY <1>2, <2>1, <2>2, <2>3, StoresStep DEF Known
<1>. QED BY <1>0, <1>1, <1>2, RowsStep

LEMMA RowsInvariant == Spec => []Rows
<1>1. Init => Rows
  <2>. SUFFICES ASSUME Init
                PROVE  Rows
    OBVIOUS
  <2>1. \A s, b : ~Stores(s, b) /\ ~LogsIn(s, b)
    BY DEF Init, Stores, LogsIn, Works, Queued, Asks, Loading
  <2>2. \A u \in Users : rows[u] \in {u, NoUser} /\ spots[u] \in {u, NoUser}
                         /\ (u \in Registered => rows[u] = u)
    BY DEF Init
  <2>3. \A s \in Slots : m_userid[s] \notin Users
    BY SessionsAssumption DEF Init
  <2>. QED BY <2>1, <2>2, <2>3 DEF Rows, Visits, OwnFields
<1>2. Known /\ Calmly /\ Rows /\ [Next]_vars => Rows'
  BY VisitsStep, OwnFieldsStep DEF Rows
<1>. QED BY <1>1, <1>2, CalmInvariant, PTL DEF Spec
-----------------------------------------------------------------------------
\* Whatever fails and whoever leaves early: between the check of a login and the
\* entry into the game nobody comes in under the same name, unless a second login
\* of that user was received before the first was loaded.
THEOREM PlaysOnce == Spec => []UserPlaysOnce
BY PlaysInvariant, PTL

\* A slot in the game that no SEND has failed on and no hasty client has left has
\* a connection or is about to be freed, whatever happens to the others.
THEOREM GhostFree == Spec => []NoGhosts
BY CalmInvariant, PTL

\* The row of a user is only overwritten with his own character, although saves
\* run after the slot has been given back, if the slots he has had were spared
\* failing SENDs, hasty clients and testers.
THEOREM RowsKept == Spec => []RowsKeepTheirOwner
<1>1. Rows => RowsKeepTheirOwner
  <2>. SUFFICES ASSUME Rows, NEW u \in Users, Kept(u)
                PROVE  /\ rows[u] \in IF u \in Registered THEN {u} ELSE {u, NoUser}
                       /\ spots[u] \in {u, NoUser}
    BY DEF RowsKeepTheirOwner, Kept, Visited, Spared, Calm
  <2>. QED BY DEF Rows, OwnFields
<1>. QED BY <1>1, RowsInvariant, PTL
=============================================================================
