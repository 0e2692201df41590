------------------------------ MODULE Sessions ------------------------------
(***************************************************************************)
(* Slots, connections and accounts: how the worker threads accept, log in  *)
(* and disconnect clients, and how the database thread loads and saves     *)
(* their characters through QueryQueue.                                    *)
(*                                                                         *)
(* A connection is its socket; the completion port knows it by the key it  *)
(* was registered with, which is a slot number.  Everything after that -   *)
(* process_packet, disconnect, the queries - works on whatever the slot    *)
(* holds by then.  The fields of a character are abstracted to whose they  *)
(* are: owner says it of m_hp, m_level and the like, place of m_x and m_y, *)
(* which a new connection sets to zero; rows and spots say the same of the *)
(* database.  Names travel to the database thread in heap buffers.         *)
(*                                                                         *)
(* early and raced are history variables: no code knows them, no action    *)
(* reads them.  The properties use them to name the cases in which the     *)
(* code breaks its promises, instead of leaving those cases out.           *)
(*                                                                         *)
(* Left out: the packets of a player in the game (NpcActivity, Combat),    *)
(* the EV_HP_UP events, the loops that tell other players (lines 167, 207, *)
(* 464, 655), and numbers: queries fail or not, sockets are never reused   *)
(* under the same handle.                                                  *)
(***************************************************************************)
EXTENDS Naturals, Sequences

CONSTANTS
  Slots,      \* 0 .. MAX_USER-1
  Conns,      \* bound: connections clients make, numbered as they are made
  Workers,
  Users,      \* user ids
  Testers,    \* user ids of digits only: they log in without the database
  Registered, \* user ids with a row at the start
  Buffers,    \* bound: name buffers
  SendsFail,  \* SEND completions may report an error
  SqlFails,   \* queries may fail
  NoSlot, NoConn, NoUser, NoName

ASSUME SessionsAssumption ==
  /\ Testers \subseteq Users /\ Registered \subseteq Users
  /\ NoSlot \notin Slots /\ NoConn \notin Conns /\ NoUser \notin Users
  /\ NoName \notin Buffers \cup Users \cup {NoUser} /\ Conns \subseteq Nat

VARIABLES
  state,      \* m_state
  m_socket,
  m_userid,   \* NoUser: ""
  owner,      \* whose character the fields of the slot are
  place,      \* whose position m_x and m_y are (NoUser: nobody's)
  QueryQueue, \* records: slot, op, name
  heap,       \* name buffers in use and what they hold
  db, query,  \* the database thread and the query it works on
  rows,       \* the database: whose character the row of a user holds
  spots,      \* and whose position
  g_c_socket, \* the connection AcceptEx has put on the socket, if any
  accepted,   \* its OP_ACCEPT completion is in the port
  client,     \* each client: "new", "open", "left"
  user,       \* the user id it logs in with (NoUser: it does not)
  login,      \* connections whose login packet has not been received
  answered,   \* connections that were sent an answer to it
  keyOf,      \* completion key of each socket
  recv,       \* number of RECVs outstanding on each socket
  sendFailed, \* sockets with a failed SEND
  closed,     \* sockets the server has closed
  pc, key, name, \* of each worker: position, c_id, name
  early,      \* history: connections left before their login was over
  raced       \* history: users of whom two logins were under way at once

NoQuery == [slot |-> NoSlot, op |-> "none", name |-> NoName]

net == <<g_c_socket, accepted, client, user, keyOf, sendFailed>>
fields == <<owner, place>>
table == <<rows, spots>>
history == <<early, raced>>
vars == <<state, m_socket, m_userid, owner, place, QueryQueue, heap, db, query,
          rows, spots, g_c_socket, accepted, client, user, login, answered,
          keyOf, recv, sendFailed, closed, pc, key, name, early, raced>>

Init ==
  /\ state = [s \in Slots |-> "FREE"]
  /\ m_socket = [s \in Slots |-> NoConn]
  /\ m_userid = [s \in Slots |-> NoUser]
  /\ owner = [s \in Slots |-> NoUser] /\ place = owner
  /\ QueryQueue = <<>> /\ heap = [b \in Buffers |-> NoName]
  /\ db = "idle" /\ query = NoQuery
  /\ rows = [u \in Users |-> IF u \in Registered THEN u ELSE NoUser]
  /\ spots = rows
  /\ g_c_socket = NoConn /\ accepted = FALSE
  /\ client = [c \in Conns |-> "new"] /\ user = [c \in Conns |-> NoUser]
  /\ login = {} /\ answered = {} /\ sendFailed = {} /\ closed = {}
  /\ keyOf = [c \in Conns |-> NoSlot] /\ recv = [c \in Conns |-> 0]
  /\ pc = [w \in Workers |-> "idle"] /\ key = [w \in Workers |-> NoSlot]
  /\ name = [w \in Workers |-> NoName]
  /\ early = {} /\ raced = {}
-----------------------------------------------------------------------------
(***************************************************************************)
(* Clients                                                                 *)
(***************************************************************************)
\* The kernel puts the next client on g_c_socket; it sends its login at once.
Connect(c, u) ==
  /\ client[c] = "new" /\ g_c_socket = NoConn
  /\ \A d \in Conns : d < c => client[d] # "new"
  /\ client' = [client EXCEPT ![c] = "open"]
  /\ user' = [user EXCEPT ![c] = u]
  /\ login' = IF u \in Users THEN login \cup {c} ELSE login
  /\ g_c_socket' = c /\ accepted' = TRUE
  /\ UNCHANGED <<state, m_socket, m_userid, fields, QueryQueue, heap, db,
                 query, table, answered, keyOf, recv, sendFailed, closed, pc,
                 key, name, history>>

\* The login packet of the connection waits, or a worker or the database thread
\* has still to deal with it.
LoginPending(c) ==
  \/ c \in login
  \/ \E w \in Workers : pc[w] \in {"check", "enter"} /\ key[w] = keyOf[c]
  \/ db # "idle" /\ query.op = "GETINFO" /\ query.slot = keyOf[c]
  \/ \E i \in 1 .. Len(QueryQueue) :
       QueryQueue[i].op = "GETINFO" /\ QueryQueue[i].slot = keyOf[c]

Leave(c) ==
  /\ client[c] = "open"
  /\ client' = [client EXCEPT ![c] = "left"]
  /\ early' = IF LoginPending(c) THEN early \cup {c} ELSE early
  /\ UNCHANGED <<state, m_socket, m_userid, fields, QueryQueue, heap, db, query,
                 table, g_c_socket, accepted, user, login, answered, keyOf,
                 recv, sendFailed, closed, pc, key, name, raced>>
-----------------------------------------------------------------------------
(***************************************************************************)
(* Accepting                                                               *)
(***************************************************************************)
\* Mutant: any slot that is not in the game will do.
AcceptNotInGame(w) ==
  /\ pc[w] = "idle" /\ accepted
  /\ accepted' = FALSE
  /\ \E s \in Slots : state[s] # "INGAME" /\ key' = [key EXCEPT ![w] = s]
  /\ pc' = [pc EXCEPT ![w] = "alloc"]
  /\ UNCHANGED <<state, m_socket, m_userid, fields, QueryQueue, heap, db,
                 query, table, g_c_socket, client, user, login, answered,
                 keyOf, recv, sendFailed, closed, name, history>>

\* get_new_client_id: any slot that is free now, because one before it may have
\* become free behind the search.
Accept(w) ==
  /\ pc[w] = "idle" /\ accepted
  /\ accepted' = FALSE
  /\ \E s \in Slots : state[s] = "FREE" /\ key' = [key EXCEPT ![w] = s]
  /\ pc' = [pc EXCEPT ![w] = "alloc"]
  /\ UNCHANGED <<state, m_socket, m_userid, fields, QueryQueue, heap, db,
                 query, table, g_c_socket, client, user, login, answered,
                 keyOf, recv, sendFailed, closed, name, history>>

\* "Max user exceeded": g_c_socket stays connected, the AcceptEx for it fails,
\* and there is no accept any more.
AcceptWhenFull(w) ==
  /\ pc[w] = "idle" /\ accepted
  /\ \A s \in Slots : state[s] # "FREE"
  /\ accepted' = FALSE
  /\ UNCHANGED <<state, m_socket, m_userid, fields, QueryQueue, heap, db,
                 query, table, g_c_socket, client, user, login, answered,
                 keyOf, recv, sendFailed, closed, pc, key, name, history>>

\* The handler is done.
Finish(w) ==
  /\ pc' = [pc EXCEPT ![w] = "idle"]
  /\ key' = [key EXCEPT ![w] = NoSlot] /\ name' = [name EXCEPT ![w] = NoName]

Alloc(w) ==
  /\ pc[w] = "alloc"
  /\ state' = [state EXCEPT ![key[w]] = "ALLOC"]
  /\ pc' = [pc EXCEPT ![w] = "setup"]
  /\ UNCHANGED <<m_socket, m_userid, fields, QueryQueue, heap, db, query,
                 table, g_c_socket, accepted, client, user, login, answered,
                 keyOf, recv, sendFailed, closed, key, name, history>>

SetUp(w) ==
  /\ pc[w] = "setup"
  /\ m_socket' = [m_socket EXCEPT ![key[w]] = g_c_socket]
  /\ place' = [place EXCEPT ![key[w]] = NoUser]
  /\ keyOf' = [keyOf EXCEPT ![g_c_socket] = key[w]]
  /\ recv' = [recv EXCEPT ![g_c_socket] = @ + 1]
  /\ g_c_socket' = NoConn
  /\ Finish(w)
  /\ UNCHANGED <<state, m_userid, owner, QueryQueue, heap, db, query, table,
                 accepted, client, user, login, answered, sendFailed, closed,
                 history>>
-----------------------------------------------------------------------------
(***************************************************************************)
(* Logging in                                                              *)
(***************************************************************************)
Fresh == CHOOSE b \in Buffers : heap[b] = NoName
HasFresh == \E b \in Buffers : heap[b] = NoName

\* clients[s].Recv(): on a socket that is closed it fails at once.
RecvOn(s) ==
  recv' = IF m_socket[s] \in closed THEN recv ELSE [recv EXCEPT ![m_socket[s]] = @ + 1]

\* clients[s].Send...(): on whatever socket the slot has, if that is open.
Answer(s) == answered' = answered \cup ({m_socket[s]} \ closed)

\* A login of the user is on its way through a worker, the queue or the
\* database thread.
LoginUnderWay(u) ==
  \/ \E w \in Workers : pc[w] \in {"check", "enter"} /\ heap[name[w]] = u
  \/ \E i \in 1 .. Len(QueryQueue) :
       QueryQueue[i].op = "GETINFO" /\ heap[QueryQueue[i].name] = u
  \/ db = "exec" /\ query.op = "GETINFO" /\ heap[query.name] = u

\* The OP_RECV completion with the login packet.
TakeLogin(w, c) ==
  /\ pc[w] = "idle" /\ recv[c] > 0 /\ c \in login /\ c \notin closed /\ HasFresh
  /\ recv' = [recv EXCEPT ![c] = @ - 1]
  /\ login' = login \ {c}
  /\ key' = [key EXCEPT ![w] = keyOf[c]]
  /\ heap' = [heap EXCEPT ![Fresh] = user[c]]
  /\ name' = [name EXCEPT ![w] = Fresh]
  /\ raced' = IF LoginUnderWay(user[c]) THEN raced \cup {user[c]} ELSE raced
  /\ pc' = [pc EXCEPT ![w] = "check"]
  /\ UNCHANGED <<state, m_socket, m_userid, fields, QueryQueue, db, query,
                 table, g_c_socket, accepted, client, user, answered, keyOf,
                 sendFailed, closed, early>>

Taken(u) == \E s \in Slots : m_userid[s] = u

\* Mutant: nobody answers a login that is refused.
RefuseSilently(w) ==
  /\ pc[w] = "check" /\ Taken(heap[name[w]])
  /\ RecvOn(key[w])
  /\ Finish(w)
  /\ UNCHANGED <<state, m_socket, m_userid, fields, QueryQueue, heap, db,
                 query, table, net, login, answered, closed, history>>

\* Mutant: the early return skips the next RECV too.
RefuseForGood(w) ==
  /\ pc[w] = "check" /\ Taken(heap[name[w]])
  /\ Answer(key[w])
  /\ Finish(w)
  /\ UNCHANGED <<state, m_socket, m_userid, fields, QueryQueue, heap, db,
                 query, table, net, login, recv, closed, history>>

\* The user is in the game already; name is not freed.
Refuse(w) ==
  /\ pc[w] = "check" /\ Taken(heap[name[w]])
  /\ Answer(key[w]) /\ RecvOn(key[w])
  /\ Finish(w)
  /\ UNCHANGED <<state, m_socket, m_userid, fields, QueryQueue, heap, db,
                 query, table, net, login, closed, history>>

\* Mutant: nobody looks whether the user is in the game.
CheckNothing(w) ==
  /\ pc[w] = "check"
  /\ pc' = [pc EXCEPT ![w] = "enter"]
  /\ UNCHANGED <<state, m_socket, m_userid, fields, QueryQueue, heap, db,
                 query, table, net, login, answered, recv, closed, key, name,
                 history>>

Check(w) ==
  /\ pc[w] = "check" /\ ~Taken(heap[name[w]])
  /\ pc' = [pc EXCEPT ![w] = "enter"]
  /\ UNCHANGED <<state, m_socket, m_userid, fields, QueryQueue, heap, db,
                 query, table, net, login, answered, recv, closed, key, name,
                 history>>

\* A tester gets a character at once.
EnterTester(w) ==
  /\ pc[w] = "enter" /\ heap[name[w]] \in Testers
  /\ m_userid' = [m_userid EXCEPT ![key[w]] = heap[name[w]]]
  /\ owner' = [owner EXCEPT ![key[w]] = heap[name[w]]]
  /\ place' = [place EXCEPT ![key[w]] = heap[name[w]]]
  /\ state' = [state EXCEPT ![key[w]] = "INGAME"]
  /\ heap' = [heap EXCEPT ![name[w]] = NoName]
  /\ Answer(key[w]) /\ RecvOn(key[w])
  /\ Finish(w)
  /\ UNCHANGED <<m_socket, QueryQueue, db, query, table, net, login, closed,
                 history>>

\* The database thread looks for the character of anybody else.
PushGetInfo(w) ==
  /\ pc[w] = "enter" /\ heap[name[w]] \notin Testers
  /\ QueryQueue' = Append(QueryQueue, [slot |-> key[w], op |-> "GETINFO", name |-> name[w]])
  /\ RecvOn(key[w])
  /\ Finish(w)
  /\ UNCHANGED <<state, m_socket, m_userid, fields, heap, db, query, table,
                 net, login, answered, closed, history>>
-----------------------------------------------------------------------------
(***************************************************************************)
(* disconnect                                                              *)
(***************************************************************************)
Gone(c) == client[c] = "left" \/ c \in closed

\* A RECV completes with an error or with 0 bytes.
RecvFails(w, c) ==
  /\ pc[w] = "idle" /\ recv[c] > 0 /\ Gone(c)
  /\ recv' = [recv EXCEPT ![c] = @ - 1]
  /\ key' = [key EXCEPT ![w] = keyOf[c]]
  /\ pc' = [pc EXCEPT ![w] = "disconnect"]
  /\ UNCHANGED <<state, m_socket, m_userid, fields, QueryQueue, heap, db,
                 query, table, net, login, answered, closed, name, history>>

\* So does a SEND; the outstanding RECV is still to come.
SendFails(w, c) ==
  /\ SendsFail
  /\ pc[w] = "idle" /\ c \in answered \ sendFailed /\ Gone(c)
  /\ sendFailed' = sendFailed \cup {c}
  /\ key' = [key EXCEPT ![w] = keyOf[c]]
  /\ pc' = [pc EXCEPT ![w] = "disconnect"]
  /\ UNCHANGED <<state, m_socket, m_userid, fields, QueryQueue, heap, db,
                 query, table, g_c_socket, accepted, client, user, login,
                 answered, keyOf, recv, closed, name, history>>

CopyName(w) ==
  /\ pc[w] = "disconnect" /\ HasFresh
  /\ heap' = [heap EXCEPT ![Fresh] = m_userid[key[w]]]
  /\ name' = [name EXCEPT ![w] = Fresh]
  /\ m_userid' = [m_userid EXCEPT ![key[w]] = NoUser]
  /\ pc' = [pc EXCEPT ![w] = "save"]
  /\ UNCHANGED <<state, m_socket, fields, QueryQueue, db, query, table, net,
                 login, answered, recv, closed, key, history>>

PushSaveInfo(w) ==
  /\ pc[w] = "save"
  /\ QueryQueue' = Append(QueryQueue, [slot |-> key[w], op |-> "SAVEINFO", name |-> name[w]])
  /\ pc' = [pc EXCEPT ![w] = "close"] /\ name' = [name EXCEPT ![w] = NoName]
  /\ UNCHANGED <<state, m_socket, m_userid, fields, heap, db, query, table,
                 net, login, answered, recv, closed, key, history>>

CloseSocket(w) ==
  /\ pc[w] = "close"
  /\ closed' = closed \cup {m_socket[key[w]]}
  /\ pc' = [pc EXCEPT ![w] = "free"]
  /\ UNCHANGED <<state, m_socket, m_userid, fields, QueryQueue, heap, db,
                 query, table, net, login, answered, recv, key, name, history>>

\* Mutant: the slot is not given back.
FreeNothing(w) ==
  /\ pc[w] = "free"
  /\ Finish(w)
  /\ UNCHANGED <<state, m_socket, m_userid, fields, QueryQueue, heap, db,
                 query, table, net, login, answered, recv, closed, history>>

FreeSlot(w) ==
  /\ pc[w] = "free"
  /\ state' = [state EXCEPT ![key[w]] = "FREE"]
  /\ Finish(w)
  /\ UNCHANGED <<m_socket, m_userid, fields, QueryQueue, heap, db, query,
                 table, net, login, answered, recv, closed, history>>
-----------------------------------------------------------------------------
(***************************************************************************)
(* The database thread                                                     *)
(***************************************************************************)
Pop ==
  /\ db = "idle" /\ QueryQueue # <<>>
  /\ query' = Head(QueryQueue) /\ QueryQueue' = Tail(QueryQueue)
  /\ db' = "exec"
  /\ UNCHANGED <<state, m_socket, m_userid, fields, heap, table, net, login,
                 answered, recv, closed, pc, key, name, history>>

Asked == heap[query.name]
Freed == heap' = [heap EXCEPT ![query.name] = NoName]

\* A failed load: nothing happens, the name is not freed.
GetInfoFails ==
  /\ SqlFails
  /\ db = "exec" /\ query.op = "GETINFO"
  /\ db' = "idle" /\ query' = NoQuery
  /\ UNCHANGED <<state, m_socket, m_userid, fields, QueryQueue, heap, table,
                 net, login, answered, recv, closed, pc, key, name, history>>

\* Mutant: the fields of a row are not copied.
LoadIdOnly ==
  /\ db = "exec" /\ query.op = "GETINFO"
  /\ m_userid' = [m_userid EXCEPT ![query.slot] = Asked]
  /\ db' = "enter"
  /\ UNCHANGED <<state, m_socket, fields, QueryQueue, heap, query, table, net,
                 login, answered, recv, closed, pc, key, name, history>>

\* The row's fields, or a new character if there is no row.
Load ==
  /\ db = "exec" /\ query.op = "GETINFO"
  /\ m_userid' = [m_userid EXCEPT ![query.slot] = Asked]
  /\ owner' = [owner EXCEPT ![query.slot] =
                 IF rows[Asked] = NoUser THEN Asked ELSE rows[Asked]]
  /\ place' = [place EXCEPT ![query.slot] =
                 IF rows[Asked] = NoUser THEN Asked ELSE spots[Asked]]
  /\ db' = "enter"
  /\ UNCHANGED <<state, m_socket, QueryQueue, heap, query, table, net, login,
                 answered, recv, closed, pc, key, name, history>>

SendLoginInfo ==
  /\ db = "enter"
  /\ Answer(query.slot)
  /\ db' = "ingame"
  /\ UNCHANGED <<state, m_socket, m_userid, fields, QueryQueue, heap, query,
                 table, net, login, recv, closed, pc, key, name, history>>

EnterGame ==
  /\ db = "ingame"
  /\ state' = [state EXCEPT ![query.slot] = "INGAME"]
  /\ db' = "done"
  /\ UNCHANGED <<m_socket, m_userid, fields, QueryQueue, heap, query, table,
                 net, login, answered, recv, closed, pc, key, name, history>>

DeleteName ==
  /\ db = "done" /\ rows[Asked] # NoUser
  /\ Freed
  /\ db' = "idle" /\ query' = NoQuery
  /\ UNCHANGED <<state, m_socket, m_userid, fields, QueryQueue, table, net,
                 login, answered, recv, closed, pc, key, name, history>>

\* Mutant: the name is freed although the next query needs it.
PushCreateIdFreed ==
  /\ db = "done" /\ rows[Asked] = NoUser
  /\ QueryQueue' = Append(QueryQueue, [query EXCEPT !.op = "CREATEID"])
  /\ Freed
  /\ db' = "idle" /\ query' = NoQuery
  /\ UNCHANGED <<state, m_socket, m_userid, fields, table, net, login,
                 answered, recv, closed, pc, key, name, history>>

\* A new character is stored by a query of its own, with the same name buffer.
PushCreateId ==
  /\ db = "done" /\ rows[Asked] = NoUser
  /\ QueryQueue' = Append(QueryQueue, [query EXCEPT !.op = "CREATEID"])
  /\ db' = "idle" /\ query' = NoQuery
  /\ UNCHANGED <<state, m_socket, m_userid, fields, heap, table, net, login,
                 answered, recv, closed, pc, key, name, history>>

\* SavePlayerInfo updates the row, if there is one, CreateID adds one, with what
\* the slot holds now.
Stored(u) == u = Asked /\ (query.op = "SAVEINFO" <=> rows[u] # NoUser)
Store ==
  /\ db = "exec" /\ query.op # "GETINFO"
  /\ \/ /\ rows' = [u \in Users |-> IF Stored(u) THEN owner[query.slot] ELSE rows[u]]
        /\ spots' = [u \in Users |-> IF Stored(u) THEN place[query.slot] ELSE spots[u]]
     \/ SqlFails /\ UNCHANGED table
  /\ Freed
  /\ db' = "idle" /\ query' = NoQuery
  /\ UNCHANGED <<state, m_socket, m_userid, fields, QueryQueue, net, login,
                 answered, recv, closed, pc, key, name, history>>
-----------------------------------------------------------------------------
Database ==
  \/ Pop \/ GetInfoFails \/ Load \/ SendLoginInfo \/ EnterGame
  \/ DeleteName \/ PushCreateId \/ Store

\* What a worker takes from the completion port.
Take(w) ==
  \/ Accept(w) \/ AcceptWhenFull(w)
  \/ \E c \in Conns : TakeLogin(w, c) \/ RecvFails(w, c) \/ SendFails(w, c)

\* What it does with it.
Proceed(w) ==
  \/ Alloc(w) \/ SetUp(w)
  \/ Refuse(w) \/ Check(w) \/ EnterTester(w) \/ PushGetInfo(w)
  \/ CopyName(w) \/ PushSaveInfo(w) \/ CloseSocket(w) \/ FreeSlot(w)

Clients == \E c \in Conns : Leave(c) \/ \E u \in Users \cup {NoUser} : Connect(c, u)

Next == Clients \/ Database \/ \E w \in Workers : Take(w) \/ Proceed(w)

Spec == Init /\ [][Next]_vars

\* Threads run, completions are taken (there are finitely many), queries return;
\* clients come and go as they like.
FairSpec ==
  /\ Spec
  /\ WF_vars(Database) /\ WF_vars(\E w \in Workers : Take(w))
  /\ \A w \in Workers : WF_vars(Proceed(w))
-----------------------------------------------------------------------------
Queries == [slot : Slots, op : {"GETINFO", "SAVEINFO", "CREATEID"}, name : Buffers]

TypeOK ==
  /\ state \in [Slots -> {"FREE", "ALLOC", "INGAME"}]
  /\ m_socket \in [Slots -> Conns \cup {NoConn}]
  /\ m_userid \in [Slots -> Users \cup {NoUser}]
  /\ owner \in [Slots -> Users \cup {NoUser}]
  /\ place \in [Slots -> Users \cup {NoUser}]
  /\ QueryQueue \in Seq(Queries)
  /\ heap \in [Buffers -> Users \cup {NoUser, NoName}]
  /\ db \in {"idle", "exec", "enter", "ingame", "done"}
  /\ db # "idle" => query \in Queries
  /\ rows \in [Users -> Users \cup {NoUser}]
  /\ spots \in [Users -> Users \cup {NoUser}]
  /\ g_c_socket \in Conns \cup {NoConn} /\ accepted \in BOOLEAN
  /\ client \in [Conns -> {"new", "open", "left"}]
  /\ user \in [Conns -> Users \cup {NoUser}]
  /\ login \subseteq Conns /\ answered \subseteq Conns /\ sendFailed \subseteq Conns
  /\ closed \subseteq Conns
  /\ keyOf \in [Conns -> Slots \cup {NoSlot}]
  /\ recv \in [Conns -> Nat]
  /\ pc \in [Workers -> {"idle", "alloc", "setup", "check", "enter",
                         "disconnect", "save", "close", "free"}]
  /\ key \in [Workers -> Slots \cup {NoSlot}]
  /\ \A w \in Workers : pc[w] # "idle" => key[w] \in Slots
  /\ name \in [Workers -> Buffers \cup {NoName}]
  /\ \A w \in Workers : pc[w] \in {"check", "enter", "save"} <=> name[w] \in Buffers
  /\ early \subseteq Conns /\ raced \subseteq Users

\* Each name buffer is freed once and by nobody who may still be read: whoever
\* holds one - a query in the queue, the database thread, a worker - is the only
\* one, and the buffer is in use.
NamesHaveOneOwner ==
  /\ \A i \in 1 .. Len(QueryQueue) :
       /\ heap[QueryQueue[i].name] # NoName
       /\ \A j \in 1 .. Len(QueryQueue) :
            QueryQueue[i].name = QueryQueue[j].name => i = j
       /\ db # "idle" => QueryQueue[i].name # query.name
       /\ \A w \in Workers : QueryQueue[i].name # name[w]
  /\ db # "idle" => /\ heap[query.name] # NoName
                    /\ \A w \in Workers : name[w] # query.name
  /\ \A w \in Workers : name[w] \in Buffers =>
       /\ heap[name[w]] # NoName
       /\ \A v \in Workers : name[v] = name[w] => v = w

\* What may have gone wrong with a slot.  A SEND of one of its connections has
\* failed: disconnect is called for that completion and again for the RECV, and
\* the second time the slot may be somebody else's.
Spoilt(s) == \E c \in sendFailed : keyOf[c] = s

\* Or a client has left it before its login was over: the query still comes.
Hasty(s) == \E c \in early : keyOf[c] = s

\* Or a tester had it, who is not loaded after the saves waiting for the slot.
Tested(s) == \E c \in Conns : keyOf[c] = s /\ user[c] \in Testers

\* Packets of a connection are handled one after the other, and a slot that is
\* being handled is not handed out: one RECV or one worker per slot, until a
\* SEND fails there (whatever happens to the other slots).
Outstanding(s) == IF m_socket[s] = NoConn THEN 0 ELSE recv[m_socket[s]]
Handles(w, s) == pc[w] # "idle" /\ key[w] = s
OneHandler ==
  \A s \in Slots : ~Spoilt(s) =>
    /\ Outstanding(s) <= 1
    /\ \A w \in Workers : Handles(w, s) =>
         Outstanding(s) = 0 /\ \A v \in Workers : Handles(v, s) => v = w

\* The unlocked check of a login (616) keeps a user out of a second slot unless
\* two logins of that user overlap between packet and load: it misses nobody
\* who is in the game, leaving it, or let in for a client that has left.
UserPlaysOnce ==
  \A s, t \in Slots : m_userid[s] = m_userid[t] =>
    s = t \/ m_userid[s] \in raced \cup {NoUser}

\* A row is only ever overwritten with its user's character, although it is
\* saved from a slot that has been given back and maybe given away again; at
\* worst the position is lost.  The slots the user has had must have been spared
\* failing SENDs, hasty clients and testers.
RowsKeepTheirOwner ==
  \A u \in Users :
    \/ \E c \in Conns : user[c] = u /\ \E s \in Slots :
         keyOf[c] = s /\ (Spoilt(s) \/ Hasty(s) \/ Tested(s))
    \/ /\ rows[u] \in IF u \in Registered THEN {u} ELSE {u, NoUser}
       /\ spots[u] \in {u, NoUser}

\* A slot in the game has a connection, or a worker is about to free it, unless
\* a SEND failed there or a hasty client was put into the game after it left.
NoGhosts ==
  \A s \in Slots : state[s] = "INGAME" =>
    \/ Spoilt(s) \/ Hasty(s)
    \/ m_socket[s] \notin closed
    \/ \E w \in Workers : pc[w] = "free" /\ key[w] = s

\* A login packet is answered once its connection has a slot and the client
\* waits for the answer.
LoginIsAnswered ==
  \A c \in Conns :
    (keyOf[c] # NoSlot /\ user[c] # NoUser) ~> (c \in answered \/ client[c] = "left")

\* The slot of a client that has left is given back, unless the client was too
\* hasty: then the query still to come may take the free slot for ever.
LeftIsFreed ==
  \A s \in Slots, c \in Conns :
    (m_socket[s] = c /\ client[c] = "left") 
      ~> (state[s] = "FREE" \/ m_socket[s] # c \/ Hasty(s))
=============================================================================
