----------------------------- MODULE TCPServer -----------------------------
(***************************************************************************)
(* cache_server: one thread that waits with epoll for connections and      *)
(* data, cuts the data of each connection into messages, executes them on  *)
(* the cache and sends the answers.  Clients and the kernel act between    *)
(* any two system calls of the server.                                     *)
(*                                                                         *)
(* The cache is the abstract KVCache, which PagedCache implements.  Data   *)
(* is a sequence of pieces: the text of a request, the line ends after it, *)
(* and possibly a zero byte.  An answer is AnswerUnits units long, so that *)
(* send can write a part of it.                                            *)
(***************************************************************************)
EXTENDS Integers, Sequences, FiniteSets

CONSTANTS
    Clients,      \* every client makes one connection
    Descriptors,  \* the numbers the kernel can give to connections
    Keys, Values, NoValue,
    Commands,     \* requests: what the text says, and the pieces sent for it
    MaxRequests,  \* bound: requests of all clients together
    BUFFER_SIZE,  \* pieces that one recv returns at most
    RecvBuffer,   \* pieces that the kernel keeps for the server
    SendBuffer,   \* units that the kernel keeps for a client
    AnswerUnits,  \* units of an answer
    MAX_EVENTS,   \* events that one epoll_wait reports at most
    Faults,       \* the calls that may fail
    Readers,      \* the clients that read what they are sent
    Listen,       \* the descriptor of the listening socket
    NoClient, NoFd

ASSUME Bounds ==
    /\ IsFiniteSet(Clients) /\ NoClient \notin Clients
    /\ IsFiniteSet(Descriptors) /\ Descriptors \subseteq Nat
    /\ Listen \notin Descriptors /\ NoFd \notin Descriptors
    /\ {MaxRequests, BUFFER_SIZE, RecvBuffer, SendBuffer,
        AnswerUnits, MAX_EVENTS} \subseteq Nat \ {0}
    /\ Faults \subseteq {"start", "epoll_add_listen", "epoll_add", "accept",
                         "epoll_wait", "signal"}

\* A request is text, possibly with zero bytes in it, and two line ends.
ASSUME CommandShape ==
    \A cmd \in Commands :
        /\ cmd.type \in {"ADD", "UPDATE", "GET", "DELETE", "INVALID"}
        /\ cmd.key \in Keys
        /\ cmd.pieces \in Seq({"text", "nul", "eol"})
        /\ Len(cmd.pieces) > 2 /\ cmd.pieces[1] = "text"
        /\ \A i \in 1..Len(cmd.pieces) :
             cmd.pieces[i] = "eol" <=> i > Len(cmd.pieces) - 2

VARIABLES
    \* Clients and kernel.
    peer,        \* client |-> state of its end of the connection
    requests,    \* client |-> the commands it has begun to send
    todo,        \* client |-> pieces of its last request not written yet
    wire,        \* client |-> pieces the server has not received yet
    stream,      \* client |-> units of answers the server has written to it
    unread,      \* client |-> how many of them the client has not read
    backlog,     \* connections not accepted yet
    conn,        \* descriptor |-> the client behind it
    ready,       \* descriptors on epoll's ready list
    listening,   \* is the listening socket watched by epoll?
    \* The server.
    pc,          \* where its thread is
    events,      \* events of the current batch still to be handled
    cur,         \* client_fd of the handler that runs
    clients,     \* descriptor |-> ClientConnection::buffer
    response,    \* the answer being sent
    total_sent,  \* how much of it is written
    store, reply, \* the cache
    \* History, read by the properties only.
    applied,     \* client |-> requests executed, in the order of execution
    author       \* key |-> the client whose call last wrote its entry

clientVars == <<peer, requests, todo>>
netVars    == <<wire, stream, unread, backlog, conn, ready, listening>>
sendVars   == <<response, total_sent>>
cacheVars  == <<store, reply, applied, author>>
serverVars == <<pc, events, cur, clients, sendVars, cacheVars>>
vars == <<clientVars, netVars, serverVars>>

Cache == INSTANCE KVCache WITH Clients <- Descriptors

----------------------------------------------------------------------------
(* Pieces and messages.                                                    *)

Piece(id, part) == [id |-> id, part |-> part]

NoResponse == [id |-> 0, text |-> "none"]

Unit(resp, n) == [id |-> resp.id, text |-> resp.text, unit |-> n]

Least(S) == CHOOSE x \in S : \A y \in S : x <= y

Smaller(m, n) == IF m <= n THEN m ELSE n

\* Mutant: up to the last end of a message in the buffer.
FirstMessage_last(b) ==
    LET ends == {i \in 1..(Len(b) - 1) : /\ b[i].part = "eol"
                                         /\ b[i + 1].part = "eol"}
    IN  IF ends = {} THEN 0 ELSE 1 + CHOOSE i \in ends : \A j \in ends : j <= i

\* The length of the first complete message of a buffer, 0 if there is none.
FirstMessage(b) ==
    LET ends == {i \in 1..(Len(b) - 1) : /\ b[i].part = "eol"
                                         /\ b[i + 1].part = "eol"}
    IN  IF ends = {} THEN 0 ELSE Least(ends) + 1

\* The string made from a received buffer ends at the first zero byte.
AsCString(b) ==
    LET zeros == {i \in DOMAIN b : b[i].part = "nul"}
    IN  IF zeros = {} THEN b ELSE SubSeq(b, 1, Least(zeros) - 1)

HasZero(cmd) == \E i \in DOMAIN cmd.pieces : cmd.pieces[i] = "nul"

\* What parse_message may make of message m of client c: the command its text
\* says, and when a zero byte has cut it or joined it to another, any command.
Parses(m, c) ==
    LET said == {requests[c][m[i].id] : i \in {j \in DOMAIN m : m[j].part = "text"}}
    IN  IF Cardinality(said) = 1 /\ \A cmd \in said : ~ HasZero(cmd)
        THEN said ELSE Commands

----------------------------------------------------------------------------
(* The kernel's view of connections.                                       *)

Open == {d \in Descriptors : conn[d] # NoClient}

Served == {conn[d] : d \in Open}

Pending == {backlog[i] : i \in DOMAIN backlog}

Readable(d) == wire[conn[d]] # <<>> \/ peer[conn[d]] \in {"closed", "reset"}

\* Something arrived for client c: an edge for its descriptor, if it has one.
Edge(c) == ready' = ready \cup {d \in Open : conn[d] = c}

\* A client connects.
Connect(c) ==
    /\ peer[c] = "new" /\ pc \notin {"start", "stopped"}
    /\ peer' = [peer EXCEPT ![c] = "up"]
    /\ backlog' = Append(backlog, c)
    /\ UNCHANGED <<requests, todo, wire, stream, unread, conn, ready, listening,
                   serverVars>>

Begun == {r \in Clients \X (1..MaxRequests) : r[2] <= Len(requests[r[1]])}

\* It writes the next piece of a request, or the first one of a new request.
Write(c) ==
    /\ peer[c] = "up" /\ c \in Served \cup Pending
    /\ Len(wire[c]) < RecvBuffer
    /\ \E cmd \in Commands :
         LET begins == todo[c] = <<>>
             rest   == IF begins THEN cmd.pieces ELSE todo[c]
             known  == IF begins THEN Append(requests[c], cmd) ELSE requests[c]
         IN  /\ begins => Cardinality(Begun) < MaxRequests
             /\ requests' = [requests EXCEPT ![c] = known]
             /\ todo' = [todo EXCEPT ![c] = Tail(rest)]
             /\ wire' = [wire EXCEPT ![c] = Append(@, Piece(Len(known), Head(rest)))]
    /\ Edge(c)
    /\ UNCHANGED <<peer, stream, unread, backlog, conn, listening, serverVars>>

Read(c) ==
    /\ peer[c] = "up" /\ unread[c] > 0
    /\ unread' = [unread EXCEPT ![c] = @ - 1]
    /\ UNCHANGED <<clientVars, wire, stream, backlog, conn, ready, listening, serverVars>>

\* It closes its end, and resets the connection if there is something unread.
Close(c) ==
    /\ peer[c] = "up"
    /\ peer' = [peer EXCEPT ![c] = IF unread[c] > 0 THEN "reset" ELSE "closed"]
    /\ Edge(c)
    /\ UNCHANGED <<requests, todo, wire, stream, unread, backlog, conn, listening,
                   serverVars>>

----------------------------------------------------------------------------
(* Start and end.                                                          *)

\* close on the descriptors D; what was not received from them is lost.
CloseAll(D) ==
    /\ conn' = [d \in Descriptors |-> IF d \in D THEN NoClient ELSE conn[d]]
    /\ wire' = [c \in Clients |-> IF c \in {conn[d] : d \in D} THEN <<>> ELSE wire[c]]
    /\ clients' = [d \in DOMAIN clients \ D |-> clients[d]]
    /\ ready' = ready \ D

\* start: socket, bind, listen and epoll.  Without the listening socket in
\* the epoll set it succeeds all the same.
Start ==
    /\ pc = "start"
    /\ \/ pc' = "wait" /\ listening' = TRUE
       \/ "epoll_add_listen" \in Faults /\ pc' = "wait" /\ UNCHANGED listening
       \/ "start" \in Faults /\ pc' = "stopped" /\ UNCHANGED listening
    /\ UNCHANGED <<clientVars, wire, stream, unread, backlog, conn, ready,
                   events, cur, clients, sendVars, cacheVars>>

\* stop: called by the signal handler, between any two steps, and by the
\* destructor when run returns.
stop ==
    /\ CloseAll(DOMAIN clients)
    /\ pc' = "stopped" /\ events' = {} /\ cur' = NoFd
    /\ listening' = FALSE /\ backlog' = <<>>
    /\ response' = NoResponse /\ total_sent' = 0
    /\ UNCHANGED <<clientVars, stream, unread, cacheVars>>

signal_handler == "signal" \in Faults /\ pc # "stopped" /\ stop

Stopped == pc = "stopped" /\ UNCHANGED vars

----------------------------------------------------------------------------
(* run: wait for a batch of events and handle them.                        *)

Reportable ==
    {d \in ready \cap Open : Readable(d)}
        \cup (IF listening /\ backlog # <<>> THEN {Listen} ELSE {})

\* Edge-triggered: what is reported leaves the ready list until something new
\* arrives.  The listening socket is level-triggered.
EpollWait ==
    /\ pc = "wait" /\ Reportable # {}
    /\ \E E \in SUBSET Reportable :
         /\ Cardinality(E) = Smaller(MAX_EVENTS, Cardinality(Reportable))
         /\ events' = E
         /\ ready' = (ready \cap Reportable) \ E
    /\ pc' = "dispatch"
    /\ UNCHANGED <<clientVars, wire, stream, unread, backlog, conn, listening,
                   cur, clients, sendVars, cacheVars>>

EpollWaitFails == "epoll_wait" \in Faults /\ pc = "wait" /\ stop

\* What handles an event.  One of an unknown descriptor is ignored.
Handler(e) ==
    CASE e = Listen           -> "accept"
      [] e \in DOMAIN clients -> "recv"
      [] OTHER                -> "dispatch"

\* Mutant: a client's event is handled and stays in the batch.
OtherEvents_again(e) == events \ ({e} \cap {Listen})

\* Mutant: the batch is dropped after one event.
OtherEvents_dropped(e) == {}

OtherEvents(e) == events \ {e}

\* The loop over the batch.
Dispatch ==
    /\ pc = "dispatch"
    /\ \/ events = {} /\ pc' = "wait" /\ UNCHANGED <<events, cur>>
       \/ \E e \in events :
            /\ events' = OtherEvents(e)
            /\ pc' = Handler(e)
            /\ cur' = IF Handler(e) = "recv" THEN e ELSE cur
    /\ UNCHANGED <<clientVars, netVars, clients, sendVars, cacheVars>>

\* One iteration of handle_new_connection: the lowest free descriptor.
Accept ==
    LET d == Least(Descriptors \ Open)
        c == Head(backlog)
    IN  /\ pc = "accept" /\ backlog # <<>> /\ Open # Descriptors
        /\ backlog' = Tail(backlog)
        /\ \/ /\ conn' = [conn EXCEPT ![d] = c]
              /\ clients' = [f \in DOMAIN clients \cup {d} |->
                                 IF f = d THEN <<>> ELSE clients[f]]
              /\ ready' = ready \cup (IF wire[c] # <<>> \/ peer[c] # "up"
                                      THEN {d} ELSE {})
              /\ UNCHANGED wire
           \/ /\ "epoll_add" \in Faults
              /\ wire' = [wire EXCEPT ![c] = <<>>]
              /\ UNCHANGED <<conn, clients, ready>>
        /\ UNCHANGED <<clientVars, stream, unread, listening,
                       pc, events, cur, sendVars, cacheVars>>

\* Mutant: when no descriptor is left the server stops watching its socket.
ListenOn_gives_up == listening' = (Open # Descriptors)

\* After a failed accept the listening socket stays in the epoll set.
ListenOn == UNCHANGED listening

\* accept fails: nothing is pending, no descriptor is left, or another error
\* leaves the connection waiting.
AcceptEnds ==
    /\ pc = "accept"
    /\ backlog = <<>> \/ Open = Descriptors \/ "accept" \in Faults
    /\ pc' = "dispatch"
    /\ ListenOn
    /\ UNCHANGED <<clientVars, wire, stream, unread, backlog, conn, ready,
                   events, cur, clients, sendVars, cacheVars>>

----------------------------------------------------------------------------
(* handle_client_data, one system call or message at a time.               *)

handle_client_disconnect(d) == CloseAll({d})

Leave == pc' = "dispatch" /\ cur' = NoFd

\* Mutant: recv is not repeated until it fails with EAGAIN.
Continue_once(b) == IF FirstMessage(b) # 0 THEN "process" ELSE "dispatch"

\* After the inner loop's test: the next message, or the next recv.
Continue(b) == IF FirstMessage(b) # 0 THEN "process" ELSE "recv"

RecvData ==
    LET c   == conn[cur]
        n   == Smaller(Len(wire[c]), BUFFER_SIZE)
        buf == clients[cur] \o AsCString(SubSeq(wire[c], 1, n))
    IN  /\ pc = "recv" /\ wire[c] # <<>>
        /\ wire' = [wire EXCEPT ![c] = SubSeq(@, n + 1, Len(@))]
        /\ clients' = [clients EXCEPT ![cur] = buf]
        /\ pc' = Continue(buf)
        /\ UNCHANGED <<clientVars, stream, unread, backlog, conn, ready, listening,
                       events, cur, sendVars, cacheVars>>

\* recv returns 0 after the peer closed, or an error after it reset, which the
\* kernel may report before the data that is left.
RecvEnds ==
    /\ pc = "recv"
    /\ \/ peer[conn[cur]] = "closed" /\ wire[conn[cur]] = <<>>
       \/ peer[conn[cur]] = "reset"
    /\ handle_client_disconnect(cur)
    /\ Leave
    /\ UNCHANGED <<clientVars, stream, unread, backlog, listening,
                   events, sendVars, cacheVars>>

RecvWouldBlock ==
    /\ pc = "recv"
    /\ wire[conn[cur]] = <<>> /\ peer[conn[cur]] = "up"
    /\ Leave
    /\ UNCHANGED <<clientVars, netVars, events, clients, sendVars, cacheVars>>

\* The answers of process_command; its default branches give all others.
Responses ==
    [ADD    |-> [SUCCESS |-> "OK_ADDED", KEY_EXISTS |-> "ERROR_EXISTS",
                 NO_SPACE |-> "ERROR_NO_SPACE"],
     UPDATE |-> [SUCCESS |-> "OK_UPDATED", KEY_NOT_FOUND |-> "ERROR_NOT_FOUND",
                 CLIENT_MISMATCH |-> "ERROR_ACCESS_DENIED",
                 NO_SPACE |-> "ERROR_NO_SPACE"],
     GET    |-> [SUCCESS |-> "OK_VALUE", KEY_NOT_FOUND |-> "ERROR_NOT_FOUND",
                 CLIENT_MISMATCH |-> "ERROR_ACCESS_DENIED"],
     DELETE |-> [SUCCESS |-> "OK_DELETED", KEY_NOT_FOUND |-> "ERROR_NOT_FOUND",
                 CLIENT_MISMATCH |-> "ERROR_ACCESS_DENIED"]]

ResponseTo(type, result) ==
    IF result \in DOMAIN Responses[type] THEN Responses[type][result]
    ELSE "ERROR_INVALID_COMMAND"

\* Mutant: all clients have the same identity.
client_id_shared(d) == Least(Descriptors)

client_id(d) == d

\* The call of the cache, and the text of the answer.
process_command(cmd, id, text) ==
    \/ /\ cmd.type = "INVALID"
       /\ text = "ERROR_INVALID_COMMAND"
       /\ UNCHANGED <<store, reply>>
    \/ /\ \/ cmd.type = "ADD"    /\ Cache!Add(cmd.key, cmd.value, id)
          \/ cmd.type = "UPDATE" /\ Cache!Update(cmd.key, cmd.value, id)
          \/ cmd.type = "GET"    /\ Cache!Get(cmd.key, id)
          \/ cmd.type = "DELETE" /\ Cache!Delete(cmd.key, id)
       /\ text = ResponseTo(cmd.type, reply'.result)

Texts == {"ERROR_INVALID_COMMAND"} \cup
         UNION {{Responses[t][r] : r \in DOMAIN Responses[t]} : t \in DOMAIN Responses}

Process ==
    LET c == conn[cur]
        n == FirstMessage(clients[cur])
        m == SubSeq(clients[cur], 1, n)
    IN  /\ pc = "process"
        /\ \E cmd \in Parses(m, c), text \in Texts :
             /\ process_command(cmd, client_id(cur), text)
             /\ response' = [id |-> m[n].id, text |-> text]
             /\ author' = IF text \in {"OK_ADDED", "OK_UPDATED"}
                          THEN [author EXCEPT ![cmd.key] = c] ELSE author
        /\ clients' = [clients EXCEPT ![cur] = SubSeq(@, n + 1, Len(@))]
        /\ applied' = [applied EXCEPT ![c] = Append(@, m[n].id)]
        /\ pc' = "send" /\ total_sent' = 0
        /\ UNCHANGED <<clientVars, netVars, events, cur>>

----------------------------------------------------------------------------
(* send_response: repeated until all of the answer is written.  While the   *)
(* kernel's buffer is full send fails with EAGAIN and is repeated at once,  *)
(* which changes nothing.                                                  *)

\* Mutant: one message per recv.
AfterAnswer_recv == "recv"

AfterAnswer == Continue(clients[cur])

\* What follows when n units of the answer are written.
Sent(n) ==
    IF n < AnswerUnits
    THEN /\ total_sent' = n
         /\ UNCHANGED <<pc, response, reply>>
    ELSE /\ total_sent' = 0 /\ response' = NoResponse
         /\ reply' = Cache!NoCall
         /\ pc' = AfterAnswer

\* Mutant: after a partial write the answer is sent from its start.
Remaining_restarts(n) == [i \in 1..n |-> Unit(response, i)]

\* The next n units of the answer.
Remaining(n) == [i \in 1..n |-> Unit(response, total_sent + i)]

SendData ==
    LET c == conn[cur]
        n == Smaller(AnswerUnits - total_sent, SendBuffer - unread[c])
    IN  /\ pc = "send" /\ peer[c] = "up" /\ n > 0
        /\ stream' = [stream EXCEPT ![c] = @ \o Remaining(n)]
        /\ unread' = [unread EXCEPT ![c] = @ + n]
        /\ Sent(total_sent + n)
        /\ UNCHANGED <<clientVars, wire, backlog, conn, ready, listening,
                       events, cur, clients, store, applied, author>>

\* The peer has closed its end: the kernel takes the data, and the peer's
\* kernel may answer with a reset.
SendUnheard ==
    LET c == conn[cur]
    IN  /\ pc = "send" /\ peer[c] = "closed"
        /\ \E p \in {"closed", "reset"} : peer' = [peer EXCEPT ![c] = p]
        /\ Edge(c)
        /\ Sent(AnswerUnits)
        /\ UNCHANGED <<requests, todo, wire, stream, unread, backlog, conn, listening,
                       events, cur, clients, store, applied, author>>

\* Mutant: break instead of return, which leaves the inner loop only.
GiveUp_break == pc' = "recv" /\ UNCHANGED cur

GiveUp == Leave

\* send fails: disconnect and return.
SendFails ==
    /\ pc = "send" /\ peer[conn[cur]] = "reset"
    /\ handle_client_disconnect(cur)
    /\ GiveUp
    /\ response' = NoResponse /\ total_sent' = 0 /\ reply' = Cache!NoCall
    /\ UNCHANGED <<clientVars, stream, unread, backlog, listening,
                   events, store, applied, author>>

----------------------------------------------------------------------------
Init ==
    /\ peer = [c \in Clients |-> "new"]
    /\ requests = [c \in Clients |-> <<>>]
    /\ todo = [c \in Clients |-> <<>>]
    /\ wire = [c \in Clients |-> <<>>]
    /\ stream = [c \in Clients |-> <<>>]
    /\ unread = [c \in Clients |-> 0]
    /\ backlog = <<>>
    /\ conn = [d \in Descriptors |-> NoClient]
    /\ ready = {} /\ listening = FALSE
    /\ pc = "start" /\ events = {} /\ cur = NoFd
    /\ clients = [d \in {} |-> <<>>]
    /\ response = NoResponse /\ total_sent = 0
    /\ Cache!Init
    /\ applied = [c \in Clients |-> <<>>]
    /\ author = [k \in Keys |-> NoClient]

Server ==
    \/ Start \/ EpollWait \/ Dispatch \/ Accept \/ AcceptEnds
    \/ RecvData \/ RecvEnds \/ RecvWouldBlock
    \/ Process \/ SendData \/ SendUnheard \/ SendFails

Environment ==
    \/ \E c \in Clients : Connect(c) \/ Write(c) \/ Read(c) \/ Close(c)
    \/ signal_handler \/ EpollWaitFails \/ Stopped

Next == Server \/ Environment

Spec == Init /\ [][Next]_vars

\* The server runs when it can, and readers read.  Nobody has to connect, to
\* write or to close.
FairSpec ==
    Spec /\ WF_vars(Server) /\ \A c \in Readers : WF_vars(Read(c))

----------------------------------------------------------------------------
(* Properties.                                                             *)

InHandler == pc \in {"recv", "process", "send"}

\* Every variable has its type, and the handler for client data, and only it,
\* works on a descriptor (server.cpp:147-192).
TypeOK ==
    /\ peer \in [Clients -> {"new", "up", "closed", "reset"}]
    /\ \A c \in Clients :
         /\ Len(requests[c]) <= MaxRequests
         /\ \A i \in DOMAIN requests[c] : requests[c][i] \in Commands
         /\ Len(wire[c]) <= RecvBuffer
         /\ unread[c] \in 0..SendBuffer
    /\ Pending \subseteq Clients
    /\ conn \in [Descriptors -> Clients \cup {NoClient}]
    /\ ready \subseteq Descriptors /\ listening \in BOOLEAN
    /\ pc \in {"start", "wait", "dispatch", "accept", "recv", "process",
               "send", "stopped"}
    /\ events \subseteq Descriptors \cup {Listen}
    /\ cur \in (IF InHandler THEN Descriptors ELSE {NoFd})
    /\ total_sent \in 0..(AnswerUnits - 1)
    /\ DOMAIN store \subseteq Keys
    /\ author \in [Keys -> Clients \cup {NoClient}]

\* The map of connections names the open descriptors, each of a different
\* client, and neither a handler nor an event still to be handled refers to a
\* closed one: handle_client_data never uses a connection object that
\* handle_client_disconnect erased (server.cpp:153, 173-176, 194-200), and no
\* event of a batch meets a descriptor that was closed and reused.
NoUseAfterClose ==
    /\ DOMAIN clients = Open
    /\ \A d, e \in Open : conn[d] = conn[e] => d = e
    /\ InHandler => cur \in Open
    /\ events \ {Listen} \subseteq Open

\* When the server goes to sleep, every connection that has data or has ended
\* is on the ready list: the loop of recv until EAGAIN (server.cpp:156-191)
\* leaves nothing behind that edge-triggered epoll will not report.
NoForgottenData ==
    pc = "wait" => \A d \in Open : Readable(d) => d \in ready

\* Nor does it sleep on a complete message (the inner loop,
\* server.cpp:165-177): no later event would be needed to complete it.
NoForgottenMessage ==
    pc \in {"wait", "dispatch"} =>
        \A d \in DOMAIN clients : FirstMessage(clients[d]) = 0

\* None of the client's requests contains a zero byte.
Intact(c) == \A i \in DOMAIN requests[c] : ~ HasZero(requests[c][i])

\* What a client is sent is the answer to the first of its requests that was
\* executed, then that to the second, and so on, each of them whole, and an
\* error of format exactly for an invalid request (process_command,
\* send_response, server.cpp:202-289): short writes lose and repeat nothing,
\* and no default branch is taken.
AnswersMatchRequests ==
    \A c \in Clients : \A i \in DOMAIN stream[c] :
        LET n == (i - 1) \div AnswerUnits + 1
            u == stream[c][i]
        IN  /\ n \in DOMAIN applied[c]
            /\ u.id = applied[c][n] /\ u.unit = 1 + ((i - 1) % AnswerUnits)
            /\ Intact(c) => (u.text = "ERROR_INVALID_COMMAND"
                                <=> requests[c][u.id].type = "INVALID")

\* The cache executes the requests of a connection in the order sent and none
\* twice, however recv cut the data, and only a zero byte makes it miss one.  As
\* long as the client does not close, at most one executed request is
\* unanswered, the one being answered or that was when the server stopped
\* (server.cpp:156-177): only the last effect can be in doubt.
AppliedInOrder ==
    \A c \in Clients :
        LET answered == Len(stream[c]) \div AnswerUnits
            current  == pc = "send" /\ conn[cur] = c
        IN  /\ \A i \in DOMAIN applied[c] :
                 /\ applied[c][i] <= Len(requests[c])
                 /\ i > 1 => applied[c][i - 1] < applied[c][i]
                 /\ Intact(c) => applied[c][i] = i
            /\ peer[c] = "up" =>
                 Len(applied[c]) \in (IF current THEN {answered + 1}
                                     ELSE IF c \in Served THEN {answered}
                                     ELSE {answered, answered + 1})

\* This step executes a GET, UPDATE or DELETE that succeeds.
Touches == /\ pc = "process" /\ pc' = "send" /\ reply' # reply
           /\ reply'.op # "add_key" /\ reply'.result = "SUCCESS"

\* As long as the client that wrote an entry is connected, no other client
\* reads, changes or deletes it (client_id, server.h:18-21, and the ownership
\* test of the cache).
IsolatedWhileOpen ==
    [][Touches => author[reply'.key] \in {conn[cur]} \cup (Clients \ Served)]_vars

\* README.md:28, "Each client can only access their own data": also after the
\* writer of an entry has disconnected.
ClientIsolation ==
    [][Touches => author[reply'.key] = conn[cur]]_vars

Answered(c, n) == Len(stream[c]) - unread[c] >= n * AnswerUnits

\* A connected client that has sent a complete request, and no zero byte, and
\* keeps reading and the connection open gets its answer, unless the server is
\* stopped (server.cpp:106-318).
EveryRequestAnswered ==
    \A c \in Readers : \A n \in 1..MaxRequests :
        (/\ c \in Served /\ Intact(c) /\ Len(requests[c]) >= n
         /\ todo[c] = <<>> \/ Len(requests[c]) > n)
            ~> (Answered(c, n) \/ peer[c] # "up" \/ pc = "stopped")

\* A client that had to wait because the descriptors were used up is accepted,
\* if they are not used up for ever: the accept loop is left on that error, and
\* the listening socket, level-triggered, is reported again
\* (server.cpp:84, 110-118).
PendingAccepted ==
    []<>(Open # Descriptors) =>
        \A c \in Clients : c \in Pending ~> c \notin Pending
=============================================================================
