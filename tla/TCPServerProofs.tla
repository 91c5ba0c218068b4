-------------------------- MODULE TCPServerProofs --------------------------
(***************************************************************************)
(* TCPServer, for any number of clients, descriptors and requests, any     *)
(* buffer sizes and any set of faults.  The invariant is built in layers,  *)
(* each kept by every step as long as the ones above it in this list hold: *)
(*   Connections    which descriptors are open, and for whom               *)
(*   Buffers        the types and bounds of what is under way              *)
(*   Attention      who will look at data that has arrived                 *)
(*   Conversations  where each piece received stands among those sent      *)
(*   Ownership      which client wrote an entry of the cache               *)
(*   Answers        which part of which answer each unit sent is           *)
(***************************************************************************)
EXTENDS TCPServer, OrderLemmas, SequenceTheorems

----------------------------------------------------------------------------
(* Connections.                                                            *)

ConnectionTypes ==
    /\ peer \in [Clients -> {"new", "up", "closed", "reset"}]
    /\ backlog \in Seq(Clients)
    /\ conn \in [Descriptors -> Clients \cup {NoClient}]
    /\ ready \subseteq Descriptors
    /\ listening \in BOOLEAN
    /\ pc \in {"start", "wait", "dispatch", "accept", "recv", "process",
               "send", "stopped"}
    /\ events \subseteq Descriptors \cup {Listen}
    /\ cur \in (IF InHandler THEN Descriptors ELSE {NoFd})

\* A client makes one connection: it has not connected yet, or it waits in one
\* place of the backlog, or it was accepted.
OneConnection ==
    /\ \A i, j \in DOMAIN backlog : backlog[i] = backlog[j] => i = j
    /\ \A i \in DOMAIN backlog : /\ backlog[i] \notin Served
                                 /\ peer[backlog[i]] # "new"
    /\ \A d \in Open : peer[conn[d]] # "new"

\* epoll_wait reports a descriptor once, so the batch holds no other event of
\* the connection that is being handled.
OneEvent == InHandler => cur \notin events

Connections ==
    ConnectionTypes /\ NoUseAfterClose /\ OneConnection /\ OneEvent

\* A set of descriptors that is not empty has a least element, which
\* accept4 returns for the set of free ones.
LEMMA LeastDescriptor ==
    ASSUME NEW D \in SUBSET Descriptors, D # {}
    PROVE  Least(D) \in D
<1>1. D \in SUBSET Int
  BY Bounds
<1>2. IsFiniteSet(D)
  BY Bounds, FS_Subset
<1>3. \E x \in D : \A y \in D : x <= y
  BY <1>1, <1>2, LeastElement
<1> QED
  BY <1>3 DEF Least

\* Initially there is no connection.
LEMMA ConnectionsInit == Init => Connections
<1> SUFFICES ASSUME Init
             PROVE  Connections
  OBVIOUS
<1> USE Bounds
<1>1. Open = {} /\ backlog = <<>> /\ DOMAIN clients = {}
  BY DEF Init, Open
<1>2. ConnectionTypes
  <2>1. listening \in BOOLEAN
    BY DEF Init
  <2> QED
    BY <2>1 DEF Init, ConnectionTypes, InHandler
<1>3. NoUseAfterClose
  BY <1>1 DEF Init, NoUseAfterClose, InHandler
<1>4. OneConnection /\ OneEvent
  BY <1>1 DEF Init, OneConnection, OneEvent
<1> QED
  BY <1>2, <1>3, <1>4 DEF Connections

\* Steps that leave the connections, the backlog and the ends of the clients as
\* they are keep the invariant if they keep the handler's descriptor open.
LEMMA SameConnections ==
    ASSUME Connections,
           UNCHANGED <<peer, backlog, conn>>,
           DOMAIN clients' = DOMAIN clients,
           ready' \subseteq Descriptors,
           listening' \in BOOLEAN,
           pc' \in {"start", "wait", "dispatch", "accept", "recv", "process",
                    "send", "stopped"},
           events' \ {Listen} \subseteq Open,
           cur' \in (IF InHandler' THEN Open \ events' ELSE {NoFd})
    PROVE  Connections'
<1> USE Bounds
<1>1. Open' = Open /\ Served' = Served
  BY DEF Open, Served
<1>2. ConnectionTypes'
  BY DEF Connections, ConnectionTypes, Open
<1>3. NoUseAfterClose'
  BY <1>1 DEF Connections, NoUseAfterClose
<1>4. OneConnection' /\ OneEvent'
  BY <1>1 DEF Connections, OneConnection, OneEvent
<1> QED
  BY <1>2, <1>3, <1>4 DEF Connections

\* Closing descriptors, which handle_client_disconnect and stop do: what is left
\* are connections that were there before.
LEMMA ClosedConnections ==
    ASSUME Connections, NEW D \in SUBSET Open, CloseAll(D)
    PROVE  /\ Open' = Open \ D
           /\ DOMAIN clients' = Open'
           /\ conn' \in [Descriptors -> Clients \cup {NoClient}]
           /\ \A d \in Open' : conn'[d] = conn[d]
           /\ ready' \subseteq Descriptors
           /\ Served' \subseteq Served
<1> USE Bounds
<1>1. /\ conn \in [Descriptors -> Clients \cup {NoClient}]
      /\ DOMAIN clients = Open /\ ready \subseteq Descriptors
  BY DEF Connections, ConnectionTypes, NoUseAfterClose
<1>2. conn' = [d \in Descriptors |-> IF d \in D THEN NoClient ELSE conn[d]]
  BY DEF CloseAll
<1>3. Open' = Open \ D /\ \A d \in Open' : conn'[d] = conn[d]
  BY <1>2 DEF Open
<1>4. conn' \in [Descriptors -> Clients \cup {NoClient}]
  BY <1>1, <1>2
<1>5. DOMAIN clients' = Open' /\ ready' \subseteq Descriptors
  BY <1>1, <1>3 DEF CloseAll
<1>6. Served' \subseteq Served
  BY <1>3 DEF Served
<1> QED
  BY <1>3, <1>4, <1>5, <1>6

\* stop closes every connection, whatever calls it.
LEMMA StopKeepsConnections ==
    ASSUME Connections, stop
    PROVE  Connections'
<1> USE Bounds
<1>1. DOMAIN clients = Open
  BY DEF Connections, NoUseAfterClose
<1>2. CloseAll(Open)
  BY <1>1 DEF stop
<1>3. /\ Open' = {} /\ DOMAIN clients' = {}
      /\ conn' \in [Descriptors -> Clients \cup {NoClient}]
      /\ ready' \subseteq Descriptors
  BY <1>2, ClosedConnections
<1>4. /\ pc' = "stopped" /\ events' = {} /\ cur' = NoFd /\ backlog' = <<>>
      /\ UNCHANGED peer
  BY DEF stop, clientVars
<1>5. listening' \in BOOLEAN
  BY DEF stop
<1>6. ConnectionTypes'
  BY <1>3, <1>4, <1>5 DEF Connections, ConnectionTypes, InHandler
<1>7. NoUseAfterClose'
  BY <1>3, <1>4 DEF NoUseAfterClose, InHandler
<1>8. OneConnection' /\ OneEvent'
  BY <1>3, <1>4 DEF OneConnection, OneEvent
<1> QED
  BY <1>6, <1>7, <1>8 DEF Connections

\* The handler disconnects its client and returns.
LEMMA DisconnectKeepsConnections ==
    ASSUME Connections, InHandler, handle_client_disconnect(cur), Leave,
           UNCHANGED <<peer, backlog, listening, events>>
    PROVE  Connections'
<1> USE Bounds
<1> DEFINE others == Open \ {cur}
<1>1. cur \in Open
  BY DEF Connections, NoUseAfterClose
<1>2. /\ Open' = others /\ DOMAIN clients' = Open'
      /\ conn' \in [Descriptors -> Clients \cup {NoClient}]
      /\ \A d \in Open' : conn'[d] = conn[d]
      /\ ready' \subseteq Descriptors
      /\ Served' \subseteq Served
  BY <1>1, ClosedConnections DEF handle_client_disconnect
<1>3. pc' = "dispatch" /\ cur' = NoFd
  BY DEF Leave
<1>4. ConnectionTypes'
  BY <1>2, <1>3 DEF Connections, ConnectionTypes, InHandler
<1>5. NoUseAfterClose'
  BY <1>2, <1>3 DEF Connections, NoUseAfterClose, OneEvent, InHandler
<1>6. OneConnection' /\ OneEvent'
  BY <1>2, <1>3 DEF Connections, OneConnection, OneEvent, InHandler
<1> QED
  BY <1>4, <1>5, <1>6 DEF Connections

\* A new connection takes the lowest free descriptor; when it cannot be watched
\* it is closed again.
LEMMA AcceptKeepsConnections ==
    ASSUME Connections, Accept
    PROVE  Connections'
<1> USE Bounds
<1> DEFINE d == Least(Descriptors \ Open)
           c == Head(backlog)
<1>1. /\ ConnectionTypes /\ NoUseAfterClose /\ OneConnection
      /\ pc = "accept" /\ backlog # <<>> /\ Open # Descriptors
      /\ backlog' = Tail(backlog)
      /\ UNCHANGED <<peer, listening, pc, events, cur>>
  BY DEF Connections, Accept, clientVars
<1>2. d \in Descriptors /\ d \notin Open
  <2>1. Descriptors \ Open # {}
    BY <1>1 DEF Open
  <2> QED
    BY <2>1, LeastDescriptor
<1>3. /\ backlog \in Seq(Clients) /\ c = backlog[1] /\ c \in Clients
      /\ backlog' \in Seq(Clients)
      /\ Len(backlog) \in Nat \ {0} /\ Len(backlog') = Len(backlog) - 1
      /\ \A i \in 1..Len(backlog') : backlog'[i] = backlog[i + 1]
  BY <1>1, HeadTailProperties, EmptySeq DEF ConnectionTypes
<1>4. /\ c \notin Served /\ peer[c] # "new"
      /\ \A i, j \in DOMAIN backlog' : backlog'[i] = backlog'[j] => i = j
      /\ \A i \in DOMAIN backlog' : /\ backlog'[i] \notin Served
                                    /\ backlog'[i] # c
                                    /\ peer[backlog'[i]] # "new"
  <2>1. /\ DOMAIN backlog = 1..Len(backlog) /\ DOMAIN backlog' = 1..Len(backlog')
        /\ 1 \in DOMAIN backlog
    BY <1>3
  <2>2. \A i \in DOMAIN backlog' : /\ i + 1 \in DOMAIN backlog /\ i + 1 # 1 /\ i \in Nat
                                   /\ backlog'[i] = backlog[i + 1]
    BY <1>3, <2>1
  <2>3. /\ \A i, j \in DOMAIN backlog : backlog[i] = backlog[j] => i = j
        /\ \A i \in DOMAIN backlog : backlog[i] \notin Served /\ peer[backlog[i]] # "new"
    BY <1>1 DEF OneConnection
  <2>4. \A i, j \in Nat : i + 1 = j + 1 => i = j
    OBVIOUS
  <2>5. c = backlog[1]
    BY <1>3
  <2>6. c \notin Served /\ peer[c] # "new"
    BY <2>1, <2>3, <2>5
  <2>7. ASSUME NEW i \in DOMAIN backlog', NEW j \in DOMAIN backlog', backlog'[i] = backlog'[j]
        PROVE  i = j
    <3>1. /\ i + 1 \in DOMAIN backlog /\ j + 1 \in DOMAIN backlog /\ i \in Nat /\ j \in Nat
          /\ backlog[i + 1] = backlog[j + 1]
      BY <2>2, <2>7
    <3>2. i + 1 = j + 1
      BY <2>3, <3>1
    <3> QED
      BY <2>4, <3>1, <3>2
  <2>8. ASSUME NEW i \in DOMAIN backlog'
        PROVE  backlog'[i] \notin Served /\ backlog'[i] # c /\ peer[backlog'[i]] # "new"
    <3>1. i + 1 \in DOMAIN backlog /\ i + 1 # 1 /\ backlog'[i] = backlog[i + 1]
      BY <2>2
    <3>2. backlog[i + 1] # backlog[1]
      BY <2>1, <2>3, <3>1
    <3> QED
      BY <2>3, <2>5, <3>1, <3>2
  <2> QED
    BY <2>6, <2>7, <2>8
<1>5. CASE /\ conn' = [conn EXCEPT ![d] = c]
           /\ clients' = [f \in DOMAIN clients \cup {d} |->
                              IF f = d THEN <<>> ELSE clients[f]]
           /\ ready' = ready \cup (IF wire[c] # <<>> \/ peer[c] # "up"
                                   THEN {d} ELSE {})
  <2>1. /\ conn' \in [Descriptors -> Clients \cup {NoClient}]
        /\ Open' = Open \cup {d} /\ conn'[d] = c
        /\ \A e \in Open : conn'[e] = conn[e]
    <3>1. conn \in [Descriptors -> Clients \cup {NoClient}] /\ d \in Descriptors
      BY <1>1, <1>2 DEF ConnectionTypes, Open
    <3>2. c \in Clients /\ c # NoClient /\ conn[d] = NoClient
      BY <1>1, <1>2, <1>3, <3>1 DEF Open
    <3>3. conn' \in [Descriptors -> Clients \cup {NoClient}]
      BY <1>5, <3>1, <3>2
    <3>4. \A e \in Descriptors : conn'[e] = IF e = d THEN c ELSE conn[e]
      BY <1>5, <3>1
    <3>5. Open' = Open \cup {d}
      BY <3>1, <3>2, <3>4 DEF Open
    <3> QED
      BY <3>1, <3>2, <3>3, <3>4, <3>5 DEF Open
  <2>2. Served' = Served \cup {c}
    BY <1>2, <2>1 DEF Served
  <2>3. ConnectionTypes'
    BY <1>1, <1>2, <1>3, <1>5, <2>1 DEF ConnectionTypes, InHandler
  <2>4. NoUseAfterClose'
    <3>1. DOMAIN clients' = Open'
      BY <1>1, <1>5, <2>1 DEF NoUseAfterClose
    <3>2. \A e \in Open : conn[e] # c
      BY <1>4 DEF Served
    <3>3. \A e, f \in Open' : conn'[e] = conn'[f] => e = f
      BY <1>1, <1>2, <2>1, <3>2 DEF NoUseAfterClose
    <3> QED
      BY <1>1, <2>1, <3>1, <3>3 DEF NoUseAfterClose, InHandler
  <2>5. OneConnection' /\ OneEvent'
    BY <1>1, <1>2, <1>4, <2>1, <2>2 DEF OneConnection, OneEvent, InHandler
  <2> QED
    BY <2>3, <2>4, <2>5 DEF Connections
<1>6. CASE UNCHANGED <<conn, clients, ready>>
  <2>1. Open' = Open /\ Served' = Served
    BY <1>6 DEF Open, Served
  <2>2. ConnectionTypes'
    BY <1>1, <1>3, <1>6 DEF ConnectionTypes, InHandler
  <2>3. NoUseAfterClose'
    BY <1>1, <1>6, <2>1 DEF NoUseAfterClose, InHandler
  <2>4. OneConnection' /\ OneEvent'
    BY <1>1, <1>4, <1>6, <2>1 DEF OneConnection, OneEvent, InHandler
  <2> QED
    BY <2>2, <2>3, <2>4 DEF Connections
<1> QED
  BY <1>5, <1>6 DEF Accept

\* A client closes its end, or the kernel resets it: nobody else notices.
LEMMA PeerEnds ==
    ASSUME Connections, NEW c, NEW p \in {"closed", "reset"},
           peer' = [peer EXCEPT ![c] = p],
           UNCHANGED <<backlog, conn, clients, listening, events, cur>>,
           ready' \subseteq Descriptors,
           pc' \in {"start", "wait", "dispatch", "accept", "recv", "process",
                    "send", "stopped"},
           InHandler' = InHandler
    PROVE  Connections'
<1>1. Open' = Open /\ Served' = Served
  BY DEF Open, Served
<1>2. /\ peer' \in [Clients -> {"new", "up", "closed", "reset"}]
      /\ \A b \in Clients : peer'[b] = "new" => peer[b] = "new"
  BY DEF Connections, ConnectionTypes
<1>3. ConnectionTypes'
  BY <1>2 DEF Connections, ConnectionTypes
<1>4. NoUseAfterClose' /\ OneEvent'
  BY <1>1 DEF Connections, NoUseAfterClose, OneEvent
<1>5. \A i \in DOMAIN backlog : backlog[i] \in Clients
  BY DEF Connections, ConnectionTypes
<1>6. \A d \in Open : conn[d] \in Clients
  BY DEF Connections, ConnectionTypes, Open
<1>7. OneConnection'
  BY <1>1, <1>2, <1>5, <1>6 DEF Connections, OneConnection
<1> QED
  BY <1>3, <1>4, <1>7 DEF Connections

\* A client connects for the first time, and waits in one place.
LEMMA ConnectKeepsConnections ==
    ASSUME Connections, NEW c \in Clients, Connect(c)
    PROVE  Connections'
<1>1. /\ UNCHANGED <<conn, clients, ready, listening, pc, events, cur>>
      /\ peer[c] = "new" /\ peer' = [peer EXCEPT ![c] = "up"]
      /\ backlog' = Append(backlog, c)
  BY DEF Connect, serverVars
<1>2. Open' = Open /\ Served' = Served /\ InHandler' = InHandler
  BY <1>1 DEF Open, Served, InHandler
<1>3. /\ backlog \in Seq(Clients) /\ backlog' \in Seq(Clients)
      /\ peer \in [Clients -> {"new", "up", "closed", "reset"}]
  BY <1>1 DEF Connections, ConnectionTypes
<1>4. /\ DOMAIN backlog = 1..Len(backlog) /\ Len(backlog) \in Nat
      /\ DOMAIN backlog' = 1..(Len(backlog) + 1)
      /\ backlog'[Len(backlog) + 1] = c
      /\ \A i \in DOMAIN backlog : backlog'[i] = backlog[i] /\ backlog[i] \in Clients
  BY <1>1, <1>3
<1>5. \A i \in DOMAIN backlog : backlog[i] # c
  BY <1>1 DEF Connections, OneConnection
<1>6. /\ peer' \in [Clients -> {"new", "up", "closed", "reset"}]
      /\ \A b \in Clients : peer'[b] = "new" => peer[b] = "new"
      /\ peer'[c] = "up"
  BY <1>1, <1>3
<1>7. \A d \in Open : conn[d] \in Clients
  BY DEF Connections, ConnectionTypes, Open
<1>8. c \notin Served
  BY <1>1 DEF Connections, OneConnection, Served
<1>9. ConnectionTypes'
  BY <1>1, <1>2, <1>3, <1>6 DEF Connections, ConnectionTypes
<1>10. NoUseAfterClose' /\ OneEvent'
  BY <1>1, <1>2 DEF Connections, NoUseAfterClose, OneEvent
<1>11. OneConnection'
  <2>1. \A i, j \in DOMAIN backlog' : backlog'[i] = backlog'[j] => i = j
    BY <1>4, <1>5 DEF Connections, OneConnection
  <2>2. \A i \in DOMAIN backlog' : /\ backlog'[i] \notin Served'
                                   /\ peer'[backlog'[i]] # "new"
    BY <1>2, <1>4, <1>6, <1>8 DEF Connections, OneConnection
  <2>3. \A d \in Open' : peer'[conn'[d]] # "new"
    BY <1>1, <1>2, <1>6, <1>7 DEF Connections, OneConnection
  <2> QED
    BY <2>1, <2>2, <2>3 DEF OneConnection
<1> QED
  BY <1>9, <1>10, <1>11 DEF Connections

\* Every step keeps the invariant on connections.
LEMMA ConnectionsNext ==
    ASSUME Connections, [Next]_vars
    PROVE  Connections'
<1> USE Bounds
<1>0. /\ ConnectionTypes /\ NoUseAfterClose /\ OneConnection /\ OneEvent
  BY DEF Connections
<1>a. /\ ready \subseteq Descriptors /\ listening \in BOOLEAN
      /\ events \ {Listen} \subseteq Open /\ Open \subseteq Descriptors
      /\ cur \in (IF InHandler THEN Open \ events ELSE {NoFd})
  BY <1>0 DEF ConnectionTypes, NoUseAfterClose, OneEvent, Open
<1>1. CASE Start
  <2>1. /\ UNCHANGED <<peer, backlog, conn, clients, ready, events, cur>>
        /\ pc = "start" /\ pc' \in {"wait", "stopped"}
    BY <1>1 DEF Start, clientVars
  <2>2. listening' \in BOOLEAN
    BY <1>a, <1>1 DEF Start
  <2> QED
    BY <1>a, <2>1, <2>2, SameConnections DEF InHandler
<1>2. CASE EpollWait
  <2>1. PICK E \in SUBSET Reportable :
               /\ events' = E /\ ready' = (ready \cap Reportable) \ E
    BY <1>2 DEF EpollWait
  <2>2. /\ UNCHANGED <<peer, backlog, conn, clients, listening, cur>>
        /\ pc = "wait" /\ pc' = "dispatch"
    BY <1>2 DEF EpollWait, clientVars
  <2>3. Reportable \ {Listen} \subseteq Open
    BY DEF Reportable
  <2> QED
    BY <1>a, <2>1, <2>2, <2>3, SameConnections DEF InHandler
<1>3. CASE Dispatch
  <2>1. /\ UNCHANGED <<peer, backlog, conn, clients, ready, listening>>
        /\ pc = "dispatch"
    BY <1>3 DEF Dispatch, clientVars, netVars
  <2>2. CASE pc' = "wait" /\ UNCHANGED <<events, cur>>
    BY <1>a, <2>1, <2>2, SameConnections DEF InHandler
  <2>3. CASE \E e \in events : /\ events' = OtherEvents(e)
                               /\ pc' = Handler(e)
                               /\ cur' = IF Handler(e) = "recv" THEN e ELSE cur
    <3>1. PICK e \in events : /\ events' = events \ {e}
                              /\ pc' = Handler(e)
                              /\ cur' = IF Handler(e) = "recv" THEN e ELSE cur
      BY <2>3 DEF OtherEvents
    <3>2. \/ Handler(e) \in {"accept", "dispatch"}
          \/ Handler(e) = "recv" /\ e \in Open
      BY <1>0 DEF Handler, NoUseAfterClose
    <3> QED
      BY <1>a, <2>1, <3>1, <3>2, SameConnections DEF InHandler
  <2> QED
    BY <1>3, <2>2, <2>3 DEF Dispatch
<1>4. CASE Accept
  BY <1>4, AcceptKeepsConnections
<1>5. CASE AcceptEnds
  BY <1>a, <1>5, SameConnections DEF AcceptEnds, ListenOn, clientVars, InHandler
<1>6. CASE RecvData
  <2>1. /\ UNCHANGED <<peer, backlog, conn, ready, listening, events, cur>>
        /\ DOMAIN clients' = DOMAIN clients
        /\ pc = "recv" /\ pc' \in {"recv", "process"}
    BY <1>6 DEF RecvData, clientVars, Continue
  <2> QED
    BY <1>a, <2>1, SameConnections DEF InHandler
<1>7. CASE RecvEnds
  BY <1>7, DisconnectKeepsConnections DEF RecvEnds, clientVars, InHandler
<1>8. CASE RecvWouldBlock
  <2>1. /\ UNCHANGED <<peer, backlog, conn, clients, ready, listening, events>>
        /\ pc' = "dispatch" /\ cur' = NoFd
    BY <1>8 DEF RecvWouldBlock, Leave, clientVars, netVars
  <2> QED
    BY <1>a, <2>1, SameConnections DEF InHandler
<1>9. CASE Process
  <2>1. /\ UNCHANGED <<peer, backlog, conn, ready, listening, events, cur>>
        /\ DOMAIN clients' = DOMAIN clients
        /\ pc = "process" /\ pc' = "send"
    BY <1>9 DEF Process, clientVars, netVars
  <2> QED
    BY <1>a, <2>1, SameConnections DEF InHandler
<1>10. CASE SendData
  <2>1. /\ UNCHANGED <<peer, backlog, conn, clients, ready, listening, events, cur>>
        /\ pc = "send" /\ pc' \in {"send", "process", "recv"}
    BY <1>10 DEF SendData, Sent, AfterAnswer, Continue, clientVars
  <2> QED
    BY <1>a, <2>1, SameConnections DEF InHandler
<1>11. CASE SendUnheard
  <2>1. /\ UNCHANGED <<backlog, conn, clients, listening, events, cur>>
        /\ ready' \subseteq Descriptors
        /\ pc = "send" /\ pc' \in {"send", "process", "recv"}
    BY <1>a, <1>11 DEF SendUnheard, Sent, AfterAnswer, Continue, Edge
  <2>2. PICK p \in {"closed", "reset"} : peer' = [peer EXCEPT ![conn[cur]] = p]
    BY <1>11 DEF SendUnheard
  <2> QED
    BY <1>0, <1>a, <2>1, <2>2, PeerEnds DEF InHandler
<1>12. CASE SendFails
  BY <1>12, DisconnectKeepsConnections DEF SendFails, GiveUp, clientVars, InHandler
<1>13. ASSUME NEW c \in Clients, Connect(c)
       PROVE  Connections'
  BY <1>13, ConnectKeepsConnections
<1>14. ASSUME NEW c \in Clients, Write(c)
       PROVE  Connections'
  <2>1. /\ UNCHANGED <<peer, backlog, conn, clients, listening, pc, events, cur>>
        /\ ready' \subseteq Descriptors
    BY <1>a, <1>14 DEF Write, Edge, serverVars
  <2> QED
    BY <1>0, <1>a, <2>1, SameConnections DEF InHandler, ConnectionTypes
<1>15. ASSUME NEW c \in Clients, Read(c)
       PROVE  Connections'
  <2>1. UNCHANGED <<peer, backlog, conn, clients, ready, listening, pc, events, cur>>
    BY <1>15 DEF Read, clientVars, serverVars
  <2> QED
    BY <1>0, <1>a, <2>1, SameConnections DEF InHandler, ConnectionTypes
<1>16. ASSUME NEW c \in Clients, Close(c)
       PROVE  Connections'
  <2>1. /\ UNCHANGED <<backlog, conn, clients, listening, pc, events, cur>>
        /\ ready' \subseteq Descriptors
    BY <1>a, <1>16 DEF Close, Edge, serverVars
  <2>2. PICK p \in {"closed", "reset"} : peer' = [peer EXCEPT ![c] = p]
    BY <1>16 DEF Close
  <2> QED
    BY <1>0, <1>a, <2>1, <2>2, PeerEnds DEF InHandler, ConnectionTypes
<1>17. CASE signal_handler \/ EpollWaitFails
  BY <1>17, StopKeepsConnections DEF signal_handler, EpollWaitFails
<1>18. CASE UNCHANGED vars
  <2>1. UNCHANGED <<peer, backlog, conn, clients, ready, listening, pc, events, cur>>
    BY <1>18 DEF vars, clientVars, netVars, serverVars
  <2> QED
    BY <1>0, <1>a, <2>1, SameConnections DEF InHandler, ConnectionTypes
<1> QED
  BY <1>1, <1>2, <1>3, <1>4, <1>5, <1>6, <1>7, <1>8, <1>9, <1>10, <1>11,
     <1>12, <1>13, <1>14, <1>15, <1>16, <1>17, <1>18
  DEF Next, Server, Environment, Stopped

----------------------------------------------------------------------------
(* Buffers.                                                                *)

Parts == {"text", "nul", "eol"}
Pieces == [id : Nat, part : Parts]

Buffers ==
    /\ requests \in [Clients -> Seq(Commands)]
    /\ todo \in [Clients -> Seq(Parts)]
    /\ wire \in [Clients -> Seq(Pieces)]
    /\ clients \in [Open -> Seq(Pieces)]
    /\ unread \in [Clients -> 0..SendBuffer]
    /\ total_sent \in 0..(AnswerUnits - 1)
    /\ \A c \in Clients : /\ Len(requests[c]) <= MaxRequests
                          /\ Len(wire[c]) <= RecvBuffer

Ends(b) == {i \in 1..(Len(b) - 1) : b[i].part = "eol" /\ b[i + 1].part = "eol"}

\* A set of positions that is not empty has a least element.
LEMMA LeastPosition ==
    ASSUME NEW n \in Int, NEW S \in SUBSET (1..n), S # {}
    PROVE  Least(S) \in S /\ \A i \in S : Least(S) <= i
<1>1. S \in SUBSET Int /\ 1 \in Int
  OBVIOUS
<1>2. IsFiniteSet(1..n)
  BY <1>1, FS_Interval
<1>3. IsFiniteSet(S)
  BY <1>2, FS_Subset
<1>4. \E x \in S : \A y \in S : x <= y
  BY <1>1, <1>3, LeastElement
<1> QED
  BY <1>4 DEF Least

\* FirstMessage returns the end of the first pair of line ends, and 0 exactly
\* if the buffer has none.
LEMMA FirstMessageEnds ==
    ASSUME NEW b \in Seq(Pieces)
    PROVE  /\ FirstMessage(b) \in 0..Len(b)
           /\ FirstMessage(b) = 0 <=> Ends(b) = {}
           /\ FirstMessage(b) # 0 =>
                /\ FirstMessage(b) - 1 \in Ends(b)
                /\ \A i \in Ends(b) : FirstMessage(b) - 1 <= i
<1>1. Len(b) \in Nat
  OBVIOUS
<1>2. FirstMessage(b) = IF Ends(b) = {} THEN 0 ELSE Least(Ends(b)) + 1
  BY DEF FirstMessage, Ends
<1>3. Ends(b) \in SUBSET (1..(Len(b) - 1)) /\ Len(b) - 1 \in Int
  BY <1>1 DEF Ends
<1>4. CASE Ends(b) = {}
  BY <1>1, <1>2, <1>4
<1>5. CASE Ends(b) # {}
  <2>1. Least(Ends(b)) \in Ends(b) /\ \A i \in Ends(b) : Least(Ends(b)) <= i
    BY <1>3, <1>5, LeastPosition
  <2> QED
    BY <1>1, <1>2, <1>3, <1>5, <2>1
<1> QED
  BY <1>4, <1>5

\* The string made from a received buffer is its part before the first zero byte.
LEMMA AsCStringPrefix ==
    ASSUME NEW b \in Seq(Pieces)
    PROVE  \E n \in 0..Len(b) :
             /\ AsCString(b) = SubSeq(b, 1, n) /\ AsCString(b) \in Seq(Pieces)
             /\ Len(AsCString(b)) = n
             /\ \A i \in 1..n : AsCString(b)[i] = b[i] /\ b[i].part # "nul"
             /\ n = Len(b) \/ b[n + 1].part = "nul"
<1> DEFINE zeros == {i \in DOMAIN b : b[i].part = "nul"}
<1>1. Len(b) \in Nat /\ DOMAIN b = 1..Len(b)
  OBVIOUS
<1>2. zeros \in SUBSET (1..Len(b))
  BY <1>1
<1>3. \A n \in 0..Len(b) : /\ SubSeq(b, 1, n) \in Seq(Pieces)
                           /\ Len(SubSeq(b, 1, n)) = n
                           /\ \A i \in 1..n : SubSeq(b, 1, n)[i] = b[i]
  BY <1>1
<1>4. CASE zeros = {}
  <2>1. AsCString(b) = b
    BY <1>4 DEF AsCString
  <2>2. b = SubSeq(b, 1, Len(b))
    BY SubSeqFull
  <2>3. Len(b) \in 0..Len(b)
    BY <1>1
  <2>4. WITNESS Len(b) \in 0..Len(b)
  <2> QED
    BY <1>1, <1>4, <2>1, <2>2
<1>5. CASE zeros # {}
  <2> DEFINE z == Least(zeros)
  <2>1. z \in zeros /\ \A i \in zeros : z <= i
    <3>1. Len(b) \in Int
      BY <1>1
    <3> QED
      BY <1>2, <1>5, <3>1, LeastPosition
  <2>2. AsCString(b) = SubSeq(b, 1, z - 1)
    BY <1>5 DEF AsCString
  <2> HIDE DEF z
  <2>3. z \in 1..Len(b) /\ b[z].part = "nul" /\ z - 1 \in 0..Len(b)
    BY <1>1, <2>1
  <2>4. \A i \in 1..(z - 1) : b[i].part # "nul"
    BY <1>1, <2>1, <2>3
  <2>5. (z - 1) + 1 = z
    BY <2>3
  <2> QED
    BY <1>1, <1>3, <2>2, <2>3, <2>4, <2>5
<1> QED
  BY <1>4, <1>5

\* A client that may begin a request has begun fewer than all of them.
LEMMA BegunBound ==
    ASSUME requests \in [Clients -> Seq(Commands)], NEW c \in Clients,
           Cardinality(Begun) < MaxRequests
    PROVE  Len(requests[c]) < MaxRequests
<1> USE Bounds
<1>1. MaxRequests \in Nat /\ Len(requests[c]) \in Nat
  OBVIOUS
<1> SUFFICES ASSUME Len(requests[c]) >= MaxRequests
             PROVE  FALSE
  BY <1>1
<1>2. /\ IsFiniteSet(1..MaxRequests) /\ Cardinality(1..MaxRequests) = MaxRequests
      /\ IsFiniteSet({c}) /\ Cardinality({c}) = 1
  <2>1. 1 \in Int /\ MaxRequests \in Int
    OBVIOUS
  <2>2. /\ IsFiniteSet(1..MaxRequests)
        /\ Cardinality(1..MaxRequests) =
             IF 1 > MaxRequests THEN 0 ELSE MaxRequests - 1 + 1
    BY <2>1, FS_Interval
  <2>3. Cardinality(1..MaxRequests) = MaxRequests
    BY <1>1, <2>2
  <2> QED
    BY <2>2, <2>3, FS_Singleton
<1>3. /\ Cardinality({c} \X (1..MaxRequests)) = 1 * MaxRequests
      /\ IsFiniteSet(Clients \X (1..MaxRequests))
  BY <1>2, FS_Product
<1>4. IsFiniteSet(Begun)
  BY <1>3, FS_Subset DEF Begun
<1>5. {c} \X (1..MaxRequests) \in SUBSET Begun
  BY <1>1 DEF Begun
<1>6. Cardinality({c} \X (1..MaxRequests)) <= Cardinality(Begun)
  BY <1>4, <1>5, FS_Subset
<1>7. Cardinality(Begun) \in Nat
  BY <1>4, FS_CardinalityType
<1> QED
  BY <1>1, <1>3, <1>6, <1>7

\* Initially all buffers are empty.
LEMMA BuffersInit == Init => Buffers
<1> SUFFICES ASSUME Init
             PROVE  Buffers
  OBVIOUS
<1>1. Open = {}
  BY DEF Init, Open
<1>2. clients \in [Open -> Seq(Pieces)]
  BY <1>1 DEF Init
<1> QED
  BY <1>2, Bounds DEF Init, Buffers

\* Steps that keep the connections and all buffers.
LEMMA SameBuffers ==
    ASSUME Buffers,
           UNCHANGED <<requests, todo, wire, clients, unread, total_sent, conn>>
    PROVE  Buffers'
BY DEF Buffers, Open

\* Closing descriptors removes their buffers and what was not received.
LEMMA ClosedBuffers ==
    ASSUME Connections, Buffers, NEW D \in SUBSET Open, CloseAll(D),
           UNCHANGED <<requests, todo, unread>>, total_sent' \in {0, total_sent}
    PROVE  Buffers'
<1>1. Open' = Open \ D
  BY ClosedConnections
<1>2. clients' \in [Open' -> Seq(Pieces)]
  BY <1>1 DEF CloseAll, Buffers
<1>3. wire' \in [Clients -> Seq(Pieces)] /\ \A c \in Clients : Len(wire'[c]) <= RecvBuffer
  BY Bounds DEF CloseAll, Buffers
<1> QED
  BY <1>2, <1>3, Bounds DEF Buffers

\* Every step keeps the types and the bounds of the buffers.
LEMMA BuffersNext ==
    ASSUME Connections, Buffers, [Next]_vars
    PROVE  Buffers'
<1> USE Bounds
<1>0. /\ conn \in [Descriptors -> Clients \cup {NoClient}]
      /\ DOMAIN clients = Open
      /\ InHandler => cur \in Open /\ conn[cur] \in Clients
  BY DEF Connections, ConnectionTypes, NoUseAfterClose, Open
<1>1. CASE Start \/ EpollWait \/ AcceptEnds \/ RecvWouldBlock
  BY <1>1, SameBuffers
  DEF Start, EpollWait, AcceptEnds, RecvWouldBlock, clientVars, netVars, sendVars
<1>2. CASE Dispatch
  BY <1>2, SameBuffers DEF Dispatch, clientVars, netVars, sendVars
<1>3. CASE Accept
  <2> DEFINE d == Least(Descriptors \ Open)
             c == Head(backlog)
  <2>1. UNCHANGED <<requests, todo, unread, total_sent>>
    BY <1>3 DEF Accept, clientVars, sendVars
  <2>2. CASE /\ conn' = [conn EXCEPT ![d] = c]
             /\ clients' = [f \in DOMAIN clients \cup {d} |->
                                IF f = d THEN <<>> ELSE clients[f]]
             /\ UNCHANGED wire
    <3>1. c \in Clients
      BY <1>3, HeadTailProperties DEF Accept, Connections, ConnectionTypes
    <3>2. d \in Descriptors
      <4>1. Descriptors \ Open # {}
        BY <1>3 DEF Accept, Open
      <4> QED
        BY <4>1, LeastDescriptor
    <3>3. Open' = Open \cup {d}
      BY <1>0, <2>2, <3>1, <3>2 DEF Open
    <3>4. clients' \in [Open' -> Seq(Pieces)]
      BY <1>0, <2>2, <3>3 DEF Buffers
    <3> QED
      BY <2>1, <2>2, <3>4 DEF Buffers
  <2>3. CASE wire' = [wire EXCEPT ![c] = <<>>] /\ UNCHANGED <<conn, clients>>
    <3>1. /\ wire' \in [Clients -> Seq(Pieces)]
          /\ \A x \in Clients : Len(wire'[x]) <= RecvBuffer
      <4>1. wire \in [Clients -> Seq(Pieces)]
        BY DEF Buffers
      <4>2. \A x \in Clients : wire'[x] \in {wire[x], <<>>}
        BY <2>3, <4>1
      <4>3. wire' \in [Clients -> Seq(Pieces)]
        <5>1. <<>> \in Seq(Pieces)
          OBVIOUS
        <5>2. \A x \in Clients : wire'[x] \in Seq(Pieces)
          BY <4>1, <4>2, <5>1
        <5> QED
          BY <2>3, <4>1, <5>2
      <4>4. \A x \in Clients : Len(wire[x]) <= RecvBuffer /\ Len(<<>>) <= RecvBuffer
        BY DEF Buffers
      <4> QED
        BY <4>2, <4>3, <4>4
    <3> QED
      BY <2>1, <2>3, <3>1 DEF Buffers, Open
  <2> QED
    BY <1>3, <2>2, <2>3 DEF Accept
<1>4. CASE RecvData
  <2> DEFINE c == conn[cur]
             n == Smaller(Len(wire[c]), BUFFER_SIZE)
             w == SubSeq(wire[c], 1, n)
  <2>1. /\ cur \in Open /\ c \in Clients /\ wire[c] \in Seq(Pieces)
        /\ clients[cur] \in Seq(Pieces) /\ n \in 0..Len(wire[c])
    <3>1. /\ cur \in Open /\ c \in Clients /\ wire[c] \in Seq(Pieces)
          /\ clients[cur] \in Seq(Pieces)
      BY <1>0, <1>4 DEF RecvData, InHandler, Buffers
    <3>2. Len(wire[c]) \in Nat /\ BUFFER_SIZE \in Nat
      BY <3>1
    <3> QED
      BY <3>1, <3>2 DEF Smaller
  <2>2. /\ w \in Seq(Pieces)
        /\ SubSeq(wire[c], n + 1, Len(wire[c])) \in Seq(Pieces)
        /\ Len(SubSeq(wire[c], n + 1, Len(wire[c]))) <= Len(wire[c])
    BY <2>1, SMTT(30)
  <2> HIDE DEF n
  <2>3. AsCString(w) \in Seq(Pieces)
    BY <2>2, AsCStringPrefix
  <2> HIDE DEF w
  <2>4. clients[cur] \o AsCString(w) \in Seq(Pieces)
    BY <2>1, <2>3
  <2>5. /\ wire' = [wire EXCEPT ![c] = SubSeq(wire[c], n + 1, Len(wire[c]))]
        /\ clients' = [clients EXCEPT ![cur] = clients[cur] \o AsCString(w)]
        /\ UNCHANGED <<requests, todo, unread, total_sent, conn>>
    BY <1>4 DEF RecvData, clientVars, sendVars, n, w
  <2>6. /\ wire' \in [Clients -> Seq(Pieces)]
        /\ \A x \in Clients : Len(wire'[x]) <= RecvBuffer
    <3>1. /\ Len(wire[c]) \in Nat /\ Len(wire[c]) <= RecvBuffer
          /\ Len(SubSeq(wire[c], n + 1, Len(wire[c]))) \in Nat
      BY <2>1, <2>2 DEF Buffers
    <3>2. wire \in [Clients -> Seq(Pieces)] /\ \A x \in Clients : Len(wire[x]) <= RecvBuffer
      BY DEF Buffers
    <3>3. wire' \in [Clients -> Seq(Pieces)]
      BY <2>1, <2>2, <2>5, <3>2
    <3>4. \A x \in Clients : x # c => wire'[x] = wire[x]
      BY <2>5, <3>2
    <3>5. wire'[c] = SubSeq(wire[c], n + 1, Len(wire[c]))
      BY <2>1, <2>5, <3>2
    <3>6. Len(wire'[c]) <= RecvBuffer
      BY <2>2, <3>1, <3>5
    <3> QED
      BY <3>2, <3>3, <3>4, <3>6
  <2>7. clients' \in [Open' -> Seq(Pieces)]
    BY <2>1, <2>4, <2>5 DEF Buffers, Open
  <2> QED
    BY <2>5, <2>6, <2>7 DEF Buffers
<1>5. CASE RecvEnds
  <2>1. /\ cur \in Open /\ CloseAll({cur}) 
        /\ UNCHANGED <<requests, todo, unread, total_sent>>
    BY <1>0, <1>5 DEF RecvEnds, handle_client_disconnect, clientVars, sendVars, InHandler
  <2> QED
    BY <2>1, ClosedBuffers
<1>6. CASE Process
  <2> DEFINE n == FirstMessage(clients[cur])
  <2>1. /\ cur \in Open /\ clients[cur] \in Seq(Pieces) /\ n \in 0..Len(clients[cur])
    BY <1>0, <1>6, FirstMessageEnds DEF Process, InHandler, Buffers
  <2> HIDE DEF n
  <2>2. SubSeq(clients[cur], n + 1, Len(clients[cur])) \in Seq(Pieces)
    BY <2>1
  <2>3. /\ clients' = [clients EXCEPT ![cur] = SubSeq(clients[cur], n + 1, Len(clients[cur]))]
        /\ UNCHANGED <<requests, todo, wire, unread, conn>> /\ total_sent' = 0
    BY <1>6 DEF Process, clientVars, netVars, n
  <2>4. clients' \in [Open' -> Seq(Pieces)]
    BY <2>1, <2>2, <2>3 DEF Buffers, Open
  <2> QED
    BY <2>3, <2>4 DEF Buffers
<1>7. CASE SendData
  <2> DEFINE c == conn[cur]
             n == Smaller(AnswerUnits - total_sent, SendBuffer - unread[c])
  <2>1. c \in Clients /\ unread[c] \in 0..SendBuffer
    BY <1>0, <1>7 DEF SendData, InHandler, Buffers
  <2>2. n \in Nat /\ n > 0 /\ unread[c] + n \in 0..SendBuffer
    <3>1. /\ n > 0 /\ AnswerUnits \in Nat /\ total_sent \in Nat /\ SendBuffer \in Nat
      BY <1>7 DEF SendData, Buffers
    <3> QED
      BY <2>1, <3>1 DEF Smaller
  <2>3. UNCHANGED <<requests, todo, wire, clients, conn>>
    BY <1>7 DEF SendData, clientVars
  <2>4. /\ unread' = [unread EXCEPT ![c] = unread[c] + n]
        /\ Sent(total_sent + n)
    BY <1>7 DEF SendData
  <2> HIDE DEF n
  <2>5. total_sent' \in 0..(AnswerUnits - 1)
    BY <2>2, <2>4 DEF Sent, Buffers
  <2>6. unread' \in [Clients -> 0..SendBuffer]
    BY <2>1, <2>2, <2>4 DEF Buffers
  <2> QED
    BY <2>3, <2>5, <2>6 DEF Buffers, Open
<1>8. CASE SendUnheard
  <2>1. UNCHANGED <<requests, todo, wire, unread, clients, conn>> /\ total_sent' = 0
    BY <1>8 DEF SendUnheard, Sent
  <2> QED
    BY <2>1 DEF Buffers, Open
<1>9. CASE SendFails
  BY <1>0, <1>9, ClosedBuffers
  DEF SendFails, handle_client_disconnect, clientVars, InHandler
<1>10. ASSUME NEW c \in Clients, Connect(c) \/ Close(c)
       PROVE  Buffers'
  BY <1>10, SameBuffers DEF Connect, Close, serverVars, sendVars
<1>11. ASSUME NEW c \in Clients, Write(c)
       PROVE  Buffers'
  <2>1. PICK cmd \in Commands :
         LET begins == todo[c] = <<>>
             rest   == IF begins THEN cmd.pieces ELSE todo[c]
             known  == IF begins THEN Append(requests[c], cmd) ELSE requests[c]
         IN  /\ begins => Cardinality(Begun) < MaxRequests
             /\ requests' = [requests EXCEPT ![c] = known]
             /\ todo' = [todo EXCEPT ![c] = Tail(rest)]
             /\ wire' = [wire EXCEPT ![c] = Append(wire[c], Piece(Len(known), Head(rest)))]
    BY <1>11 DEF Write
  <2> DEFINE begins == todo[c] = <<>>
             rest   == IF begins THEN cmd.pieces ELSE todo[c]
             known  == IF begins THEN Append(requests[c], cmd) ELSE requests[c]
  <2>2. /\ requests[c] \in Seq(Commands) /\ todo[c] \in Seq(Parts)
        /\ wire[c] \in Seq(Pieces) /\ Len(wire[c]) < RecvBuffer
    BY <1>11 DEF Write, Buffers
  <2>3. rest \in Seq(Parts) /\ rest # <<>>
    BY <2>2, CommandShape DEF Parts
  <2>4. known \in Seq(Commands) /\ Len(known) \in Nat /\ Len(known) <= MaxRequests
    <3>1. CASE begins
      <4>1. Len(requests[c]) < MaxRequests
        BY <2>1, <3>1, BegunBound DEF Buffers
      <4> QED
        BY <2>2, <3>1, <4>1
    <3>2. CASE ~ begins
      BY <2>2, <3>2 DEF Buffers
    <3> QED
      BY <3>1, <3>2
  <2>5. /\ requests' = [requests EXCEPT ![c] = known]
        /\ todo' = [todo EXCEPT ![c] = Tail(rest)]
        /\ wire' = [wire EXCEPT ![c] = Append(wire[c], Piece(Len(known), Head(rest)))]
    BY <2>1
  <2> HIDE DEF known, rest, begins
  <2>6. Tail(rest) \in Seq(Parts) /\ Head(rest) \in Parts
    BY <2>3, HeadTailProperties
  <2>7. Piece(Len(known), Head(rest)) \in Pieces
    BY <2>4, <2>6 DEF Piece, Pieces
  <2>8. /\ Append(wire[c], Piece(Len(known), Head(rest))) \in Seq(Pieces)
        /\ Len(Append(wire[c], Piece(Len(known), Head(rest)))) <= RecvBuffer
    BY <2>2, <2>7
  <2>9. UNCHANGED <<clients, unread, total_sent, conn>>
    BY <1>11 DEF Write, serverVars, sendVars
  <2> QED
    BY <2>4, <2>5, <2>6, <2>8, <2>9 DEF Buffers, Open
<1>12. ASSUME NEW c \in Clients, Read(c)
       PROVE  Buffers'
  <2>1. /\ unread' = [unread EXCEPT ![c] = unread[c] - 1] /\ unread[c] > 0
        /\ UNCHANGED <<requests, todo, wire, clients, total_sent, conn>>
    BY <1>12 DEF Read, clientVars, serverVars, sendVars
  <2> QED
    BY <2>1, SMTT(30) DEF Buffers, Open
<1>13. CASE signal_handler \/ EpollWaitFails
  BY <1>0, <1>13, ClosedBuffers DEF signal_handler, EpollWaitFails, stop, clientVars
<1>14. CASE UNCHANGED vars
  BY <1>14, SameBuffers DEF vars, clientVars, netVars, serverVars, sendVars
<1> QED
  BY <1>1, <1>2, <1>3, <1>4, <1>5, <1>6, <1>7, <1>8, <1>9, <1>10, <1>11,
     <1>12, <1>13, <1>14
  DEF Next, Server, Environment, Stopped

----------------------------------------------------------------------------
(* Nothing is forgotten.                                                   *)

\* Only the connection that is being handled can have a complete message in its
\* buffer, and the handler processes messages only while there is one.
MessagesHandled ==
    /\ \A d \in Open : \/ FirstMessage(clients[d]) = 0
                       \/ pc \in {"process", "send"} /\ cur = d
    /\ pc = "process" => FirstMessage(clients[cur]) # 0

\* A connection that has data or has ended is on the ready list, in the batch,
\* or being handled.
EdgeRemembered ==
    \A d \in Open : Readable(d) => \/ d \in ready \cup events
                                   \/ InHandler /\ cur = d

\* The thread sleeps only when the batch is handled.
BatchHandled == pc \in {"start", "wait"} => events = {}

Attention == MessagesHandled /\ EdgeRemembered /\ BatchHandled

\* An empty buffer holds no message.
LEMMA FirstMessageOfEmpty == FirstMessage(<<>>) = 0
<1>1. <<>> \in Seq(Pieces) /\ Ends(<<>>) = {}
  BY DEF Ends
<1> QED
  BY <1>1, FirstMessageEnds

\* Initially there is nothing to forget.
LEMMA AttentionInit == Init => Attention
<1> SUFFICES ASSUME Init
             PROVE  Attention
  OBVIOUS
<1>1. Open = {} /\ pc = "start"
  BY DEF Init, Open
<1> QED
  BY <1>1 DEF Init, Attention, MessagesHandled, EdgeRemembered, BatchHandled

\* Steps after which the same connections have the same data to be read, and
\* the thread pays attention to what it did before.
LEMMA SameAttention ==
    ASSUME Connections, Attention,
           UNCHANGED <<conn, clients, pc, cur>>,
           events' = events, ready \subseteq ready',
           \A d \in Open : Readable(d)' => Readable(d) \/ d \in ready'
    PROVE  Attention'
<1>1. Open' = Open /\ InHandler' = InHandler
  BY DEF Open, InHandler
<1>2. MessagesHandled'
  BY <1>1 DEF Attention, MessagesHandled
<1>3. EdgeRemembered' /\ BatchHandled'
  BY <1>1 DEF Attention, EdgeRemembered, BatchHandled
<1> QED
  BY <1>2, <1>3 DEF Attention

\* Closing descriptors D, one of which is handled if any is.
LEMMA ClosedAttention ==
    ASSUME Connections, Attention, NEW D \in SUBSET Open, CloseAll(D),
           InHandler => cur \in D,
           UNCHANGED peer, events \cap Open' \subseteq events',
           pc' \in {"dispatch", "stopped"}
    PROVE  Attention'
<1>1. /\ Open' = Open \ D /\ \A d \in Open' : conn'[d] = conn[d]
  BY ClosedConnections
<1>2. \A d \in Open' : clients'[d] = clients[d]
  BY <1>1 DEF CloseAll, Connections, NoUseAfterClose
<1>3. \A d \in Open' : Readable(d)' => Readable(d)
  <2> SUFFICES ASSUME NEW d \in Open', Readable(d)'
               PROVE  Readable(d)
    OBVIOUS
  <2>1. conn'[d] = conn[d] /\ conn[d] \in Clients
    BY <1>1 DEF Connections, ConnectionTypes, Open
  <2>2. wire'[conn[d]] # <<>> => wire'[conn[d]] = wire[conn[d]]
    BY <2>1 DEF CloseAll
  <2> QED
    BY <2>1, <2>2 DEF Readable
<1>4. \A d \in Open' : d \in ready => d \in ready'
  BY <1>1 DEF CloseAll
<1>5. MessagesHandled'
  BY <1>1, <1>2 DEF Attention, MessagesHandled, InHandler
<1>6. EdgeRemembered' /\ BatchHandled'
  BY <1>1, <1>3, <1>4 DEF Attention, EdgeRemembered, BatchHandled
<1> QED
  BY <1>5, <1>6 DEF Attention

\* After the answer is written the handler goes on with the next message or
\* with recv.
LEMMA SentAttention ==
    ASSUME Connections, Attention, pc = "send", NEW n, Sent(n),
           UNCHANGED <<conn, clients, cur>>,
           events' = events, ready \subseteq ready',
           \A d \in Open : Readable(d)' => Readable(d) \/ d \in ready'
    PROVE  Attention'
<1>1. Open' = Open /\ InHandler
  BY DEF Open, InHandler
<1>2. \/ pc' = "send"
      \/ pc' = "process" /\ FirstMessage(clients[cur]) # 0
      \/ pc' = "recv" /\ FirstMessage(clients[cur]) = 0
  BY DEF Sent, AfterAnswer, Continue
<1>3. MessagesHandled'
  BY <1>1, <1>2 DEF Attention, MessagesHandled
<1>4. EdgeRemembered' /\ BatchHandled'
  BY <1>1, <1>2 DEF Attention, EdgeRemembered, BatchHandled, InHandler
<1> QED
  BY <1>3, <1>4 DEF Attention

\* Every step keeps what must not be forgotten in sight.
LEMMA AttentionNext ==
    ASSUME Connections, Buffers, Attention, [Next]_vars
    PROVE  Attention'
<1> USE Bounds
<1>0. /\ conn \in [Descriptors -> Clients \cup {NoClient}]
      /\ DOMAIN clients = Open /\ clients \in [Open -> Seq(Pieces)]
      /\ \A d, e \in Open : conn[d] = conn[e] => d = e
      /\ \A d \in Open : conn[d] \in Clients
      /\ InHandler => cur \in Open
  BY DEF Connections, ConnectionTypes, NoUseAfterClose, Buffers, Open
<1>1. CASE Start
  <2>1. /\ UNCHANGED <<peer, wire, conn, clients, ready, events, cur>>
        /\ pc = "start" /\ pc' \in {"wait", "stopped"}
    BY <1>1 DEF Start, clientVars
  <2>2. Open' = Open /\ \A d \in Open : Readable(d)' = Readable(d)
    BY <2>1 DEF Open, Readable
  <2> QED
    BY <2>1, <2>2 DEF Attention, MessagesHandled, EdgeRemembered, BatchHandled, InHandler
<1>2. CASE EpollWait
  <2>1. PICK E \in SUBSET Reportable :
               /\ events' = E /\ ready' = (ready \cap Reportable) \ E
    BY <1>2 DEF EpollWait
  <2>2. /\ UNCHANGED <<peer, wire, conn, clients, cur>>
        /\ pc = "wait" /\ pc' = "dispatch"
    BY <1>2 DEF EpollWait, clientVars
  <2>3. Open' = Open /\ \A d \in Open : Readable(d)' = Readable(d)
    BY <2>2 DEF Open, Readable
  <2>4. MessagesHandled'
    BY <2>2, <2>3 DEF Attention, MessagesHandled
  <2>5. ASSUME NEW d \in Open, Readable(d)
        PROVE  d \in ready' \cup events'
    <3>1. events = {}
      BY <2>2 DEF Attention, BatchHandled
    <3>2. d \in ready
      BY <2>2, <2>5, <3>1 DEF Attention, EdgeRemembered, InHandler
    <3>3. d \in Reportable
      BY <2>5, <3>2 DEF Reportable
    <3> QED
      BY <2>1, <3>2, <3>3
  <2>6. EdgeRemembered' /\ BatchHandled'
    BY <2>2, <2>3, <2>5 DEF EdgeRemembered, BatchHandled
  <2> QED
    BY <2>4, <2>6 DEF Attention
<1>3. CASE Dispatch
  <2>1. /\ UNCHANGED <<peer, wire, conn, clients, ready>> /\ pc = "dispatch"
    BY <1>3 DEF Dispatch, clientVars, netVars
  <2>2. Open' = Open /\ \A d \in Open : Readable(d)' = Readable(d)
    BY <2>1 DEF Open, Readable
  <2>3. CASE events = {} /\ pc' = "wait" /\ UNCHANGED <<events, cur>>
    BY <2>1, <2>2, <2>3 DEF Attention, MessagesHandled, EdgeRemembered, BatchHandled, InHandler
  <2>4. CASE \E e \in events : /\ events' = OtherEvents(e)
                               /\ pc' = Handler(e)
                               /\ cur' = IF Handler(e) = "recv" THEN e ELSE cur
    <3>1. PICK e \in events : /\ events' = events \ {e}
                              /\ pc' = Handler(e)
                              /\ cur' = IF Handler(e) = "recv" THEN e ELSE cur
      BY <2>4 DEF OtherEvents
    <3>2. /\ Handler(e) \in {"accept", "dispatch", "recv"}
          /\ e \in Open => Handler(e) = "recv"
      BY <1>0 DEF Handler, Open
    <3>3. MessagesHandled'
      BY <2>1, <2>2, <3>1, <3>2 DEF Attention, MessagesHandled
    <3>4. EdgeRemembered' /\ BatchHandled'
      BY <2>1, <2>2, <3>1, <3>2 DEF Attention, EdgeRemembered, BatchHandled, InHandler
    <3> QED
      BY <3>3, <3>4 DEF Attention
  <2> QED
    BY <1>3, <2>3, <2>4 DEF Dispatch
<1>4. CASE Accept
  <2>d. PICK d : d = Least(Descriptors \ Open)
    OBVIOUS
  <2>c. PICK c : c = Head(backlog)
    OBVIOUS
  <2>1. /\ UNCHANGED <<peer, pc, events, cur>> /\ pc = "accept"
        /\ c \in Clients
    BY <1>4, <2>c, HeadTailProperties DEF Accept, clientVars, Connections, ConnectionTypes
  <2>2. CASE /\ conn' = [conn EXCEPT ![d] = c]
             /\ clients' = [f \in DOMAIN clients \cup {d} |->
                                IF f = d THEN <<>> ELSE clients[f]]
             /\ ready' = ready \cup (IF wire[c] # <<>> \/ peer[c] # "up"
                                     THEN {d} ELSE {})
             /\ UNCHANGED wire
    <3>1. d \in Descriptors /\ d \notin Open
      <4>1. Descriptors \ Open # {}
        BY <1>4 DEF Accept, Open
      <4> QED
        BY <2>d, <4>1, LeastDescriptor
    <3>2. /\ Open' = Open \cup {d} /\ conn'[d] = c
          /\ \A e \in Open : conn'[e] = conn[e] /\ clients'[e] = clients[e]
          /\ clients'[d] = <<>>
      BY <1>0, <2>1, <2>2, <3>1 DEF Open
    <3>3. \A e \in Open : Readable(e)' = Readable(e)
      BY <2>1, <2>2, <3>2 DEF Readable
    <3>4. Readable(d)' => d \in ready'
      <4>1. Readable(d)' => wire[c] # <<>> \/ peer[c] \in {"closed", "reset"}
        BY <2>1, <2>2, <3>2 DEF Readable
      <4> QED
        BY <2>2, <4>1
    <3>5. MessagesHandled'
      BY <2>1, <3>2, FirstMessageOfEmpty DEF Attention, MessagesHandled
    <3>6. EdgeRemembered' /\ BatchHandled'
      BY <2>1, <2>2, <3>2, <3>3, <3>4 DEF Attention, EdgeRemembered, BatchHandled, InHandler
    <3> QED
      BY <3>5, <3>6 DEF Attention
  <2>3. CASE wire' = [wire EXCEPT ![c] = <<>>] /\ UNCHANGED <<conn, clients, ready>>
    <3>1. \A e \in Open : Readable(e)' => Readable(e)
      BY <1>0, <2>1, <2>3 DEF Readable, Buffers
    <3> QED
      BY <2>1, <2>3, <3>1, SameAttention
  <2> QED
    BY <1>4, <2>d, <2>c, <2>2, <2>3 DEF Accept
<1>5. CASE AcceptEnds
  <2>1. /\ UNCHANGED <<peer, wire, conn, clients, ready, events, cur>>
        /\ pc = "accept" /\ pc' = "dispatch"
    BY <1>5 DEF AcceptEnds, clientVars
  <2>2. Open' = Open /\ \A d \in Open : Readable(d)' = Readable(d)
    BY <2>1 DEF Open, Readable
  <2> QED
    BY <2>1, <2>2 DEF Attention, MessagesHandled, EdgeRemembered, BatchHandled, InHandler
<1>6. CASE RecvData
  <2> DEFINE c == conn[cur]
             n == Smaller(Len(wire[c]), BUFFER_SIZE)
             buf == clients[cur] \o AsCString(SubSeq(wire[c], 1, n))
  <2>1. /\ UNCHANGED <<peer, conn, ready, events, cur>> /\ pc = "recv" /\ pc' = Continue(buf)
        /\ clients' = [clients EXCEPT ![cur] = buf]
        /\ wire' = [wire EXCEPT ![c] = SubSeq(wire[c], n + 1, Len(wire[c]))]
    BY <1>6 DEF RecvData, clientVars
  <2> HIDE DEF n, buf
  <2>2. Open' = Open /\ cur \in Open /\ InHandler /\ c \in Clients
    BY <1>0, <2>1 DEF Open, InHandler
  <2>3. \A d \in Open : d # cur => Readable(d)' = Readable(d) /\ clients'[d] = clients[d]
    BY <1>0, <2>1, <2>2 DEF Readable, Buffers
  <2>4. clients'[cur] = buf
    BY <1>0, <2>1, <2>2
  <2>5. \/ pc' = "process" /\ FirstMessage(buf) # 0
        \/ pc' = "recv" /\ FirstMessage(buf) = 0
    BY <2>1 DEF Continue
  <2>6. MessagesHandled'
    BY <2>1, <2>2, <2>3, <2>4, <2>5 DEF Attention, MessagesHandled
  <2>7. EdgeRemembered' /\ BatchHandled'
    BY <2>1, <2>2, <2>3, <2>5 DEF Attention, EdgeRemembered, BatchHandled, InHandler
  <2> QED
    BY <2>6, <2>7 DEF Attention
<1>7. CASE RecvEnds
  <2>1. /\ cur \in Open /\ CloseAll({cur}) /\ UNCHANGED <<peer, events>>
        /\ pc' = "dispatch"
    BY <1>0, <1>7 DEF RecvEnds, handle_client_disconnect, Leave, clientVars, InHandler
  <2> QED
    BY <2>1, ClosedAttention
<1>8. CASE RecvWouldBlock
  <2>1. /\ UNCHANGED <<peer, wire, conn, clients, ready, events>>
        /\ pc = "recv" /\ pc' = "dispatch" /\ ~ Readable(cur)
    BY <1>8 DEF RecvWouldBlock, Leave, clientVars, netVars, Readable
  <2>2. Open' = Open /\ \A d \in Open : Readable(d)' = Readable(d)
    BY <2>1 DEF Open, Readable
  <2> QED
    BY <2>1, <2>2 DEF Attention, MessagesHandled, EdgeRemembered, BatchHandled, InHandler
<1>9. CASE Process
  <2>1. /\ UNCHANGED <<peer, wire, conn, ready, events, cur>>
        /\ pc = "process" /\ pc' = "send"
        /\ \A d \in Open : d # cur => clients'[d] = clients[d]
    BY <1>0, <1>9 DEF Process, clientVars, netVars
  <2>2. Open' = Open /\ \A d \in Open : Readable(d)' = Readable(d)
    BY <2>1 DEF Open, Readable
  <2> QED
    BY <2>1, <2>2 DEF Attention, MessagesHandled, EdgeRemembered, BatchHandled, InHandler
<1>10. CASE SendData
  <2>1. /\ UNCHANGED <<peer, wire, conn, clients, ready, events, cur>> /\ pc = "send"
        /\ \E n : Sent(n)
    BY <1>10 DEF SendData, clientVars
  <2>2. \A d \in Open : Readable(d)' = Readable(d)
    BY <2>1 DEF Open, Readable
  <2> QED
    BY <2>1, <2>2, SentAttention
<1>11. CASE SendUnheard
  <2>1. /\ UNCHANGED <<wire, conn, clients, events, cur>> /\ pc = "send"
        /\ Sent(AnswerUnits) /\ ready \subseteq ready'
        /\ \A d \in Open : peer'[conn[d]] = peer[conn[d]] \/ d \in ready'
    BY <1>0, <1>11 DEF SendUnheard, Edge, Connections, ConnectionTypes
  <2>2. \A d \in Open : Readable(d)' => Readable(d) \/ d \in ready'
    BY <2>1 DEF Open, Readable
  <2> QED
    BY <2>1, <2>2, SentAttention
<1>12. CASE SendFails
  <2>1. /\ cur \in Open /\ CloseAll({cur}) /\ UNCHANGED <<peer, events>>
        /\ pc' = "dispatch"
    BY <1>0, <1>12 DEF SendFails, handle_client_disconnect, GiveUp, Leave, clientVars, InHandler
  <2> QED
    BY <2>1, ClosedAttention
<1>13. ASSUME NEW c \in Clients, Connect(c) \/ Write(c) \/ Read(c) \/ Close(c)
       PROVE  Attention'
  <2>1. /\ UNCHANGED <<conn, clients, pc, cur, events>> /\ ready \subseteq ready'
    BY <1>13 DEF Connect, Write, Read, Close, Edge, serverVars
  <2>2. \A d \in Open : Readable(d)' => Readable(d) \/ d \in ready'
    <3>1. CASE Connect(c)
      BY <1>0, <3>1 DEF Connect, Readable, Connections, ConnectionTypes
    <3>2. CASE Write(c)
      <4>1. /\ UNCHANGED <<peer, conn>>
            /\ \A d \in Open : wire'[conn[d]] = wire[conn[d]] \/ d \in ready'
        BY <1>0, <3>2 DEF Write, Edge, Buffers
      <4> QED
        BY <4>1 DEF Readable
    <3>3. CASE Read(c)
      BY <3>3 DEF Read, clientVars, Readable
    <3>4. CASE Close(c)
      BY <1>0, <3>4 DEF Close, Edge, Readable, Connections, ConnectionTypes
    <3> QED
      BY <1>13, <3>1, <3>2, <3>3, <3>4
  <2> QED
    BY <2>1, <2>2, SameAttention
<1>14. CASE signal_handler \/ EpollWaitFails
  <2>1. CloseAll(Open) /\ UNCHANGED peer /\ pc' = "stopped"
    BY <1>0, <1>14 DEF signal_handler, EpollWaitFails, stop, clientVars
  <2>2. Open' = {}
    BY <2>1, ClosedConnections
  <2> QED
    BY <1>0, <2>1, <2>2, ClosedAttention
<1>15. CASE UNCHANGED vars
  <2>1. UNCHANGED <<peer, wire, conn, clients, ready, pc, events, cur>>
    BY <1>15 DEF vars, clientVars, netVars, serverVars
  <2>2. \A d \in Open : Readable(d)' = Readable(d)
    BY <2>1 DEF Readable
  <2> QED
    BY <2>1, <2>2, SameAttention
<1> QED
  BY <1>1, <1>2, <1>3, <1>4, <1>5, <1>6, <1>7, <1>8, <1>9, <1>10, <1>11,
     <1>12, <1>13, <1>14, <1>15
  DEF Next, Server, Environment, Stopped

----------------------------------------------------------------------------
(* The conversation with one client.  Number the pieces of all its requests *)
(* 1, 2, 3, ... in the order in which it writes them: start[k] pieces come  *)
(* before request k.  What was received, and what is still to be received,  *)
(* is described by these numbers.                                          *)

Layout(rs, start) ==
    /\ start \in [Nat -> Nat] /\ start[1] = 0
    /\ \A k \in 1..Len(rs) : start[k + 1] = start[k] + Len(rs[k].pieces)
    /\ \A j, k \in 1..(Len(rs) + 1) : j < k => start[j] < start[k]

\* Piece number g of the requests rs is p.
IsAt(rs, start, g, p) ==
    \E k \in 1..Len(rs) : /\ start[k] < g /\ g <= start[k + 1]
                          /\ p = Piece(k, rs[k].pieces[g - start[k]])

\* The pieces not written yet are the last ones of the last request.
Unwritten(rs, rest) ==
    rest # <<>> =>
        LET last == rs[Len(rs)].pieces
        IN  /\ Len(rs) > 0 /\ Len(rest) < Len(last)
            /\ \A i \in 1..Len(rest) : rest[i] = last[Len(last) - Len(rest) + i]

\* How many pieces the server has received or lost.
Received(rs, rest, w, start) == start[Len(rs) + 1] - Len(rest) - Len(w)

LastOf(ap) == IF Len(ap) = 0 THEN 0 ELSE ap[Len(ap)]

Whole(rs) == \A i \in DOMAIN rs : ~ HasZero(rs[i])

\* The requests rs, of which rest is not written and w not received, were
\* executed in the order ap.
Conversation(rs, rest, w, ap, start) ==
    /\ rs \in Seq(Commands) /\ rest \in Seq(Parts)
    /\ w \in Seq(Pieces) /\ ap \in Seq(Nat)
    /\ Layout(rs, start)
    /\ Unwritten(rs, rest)
    /\ Received(rs, rest, w, start) \in Nat
    /\ \A i \in 1..Len(w) : IsAt(rs, start, Received(rs, rest, w, start) + i, w[i])
    /\ \A i \in 1..Len(ap) : ap[i] \in 1..Len(rs)
    /\ \A i, j \in 1..Len(ap) : i < j => ap[i] < ap[j]
    /\ Whole(rs) => \A i \in 1..Len(ap) : ap[i] = i

\* The buffer b holds the pieces numbered by g, of the r received ones.  They
\* follow the last request executed.  Something is lost only after a piece that
\* is not a line end, and only if a request has a zero byte.
Buffered(rs, ap, start, r, b, g) ==
    /\ b \in Seq(Pieces)
    /\ g \in [1..Len(b) -> Nat]
    /\ start[LastOf(ap) + 1] <= r
    /\ \A i \in 1..Len(b) : /\ IsAt(rs, start, g[i], b[i])
                            /\ start[LastOf(ap) + 1] < g[i] /\ g[i] <= r
    /\ \A i, j \in 1..Len(b) : i < j => g[i] < g[j]
    /\ \A i \in 1..Len(b) :
         b[i].part = "eol" => (IF i < Len(b) THEN g[i + 1] = g[i] + 1 ELSE g[i] = r)
    /\ Whole(rs) => /\ r = start[LastOf(ap) + 1] + Len(b)
                    /\ \A i \in 1..Len(b) : g[i] = start[LastOf(ap) + 1] + i

\* A piece keeps its number when a request is begun.
LEMMA IsAtExtends ==
    ASSUME NEW rs \in Seq(Commands), NEW start, NEW cmd, NEW g, NEW p,
           IsAt(rs, start, g, p), NEW start2,
           \A k \in 1..(Len(rs) + 1) : start2[k] = start[k]
    PROVE  IsAt(Append(rs, cmd), start2, g, p)
<1>1. PICK k \in 1..Len(rs) : /\ start[k] < g /\ g <= start[k + 1]
                              /\ p = Piece(k, rs[k].pieces[g - start[k]])
  BY DEF IsAt
<1>2. /\ Len(rs) \in Nat /\ Len(Append(rs, cmd)) = Len(rs) + 1
      /\ Append(rs, cmd)[k] = rs[k]
  OBVIOUS
<1>3. k \in 1..Len(Append(rs, cmd)) /\ start2[k] = start[k] /\ start2[k + 1] = start[k + 1]
  BY <1>2
<1> QED
  BY <1>1, <1>2, <1>3 DEF IsAt

\* A function of the naturals with one more value.
LEMMA ExtendAt ==
    ASSUME NEW f \in [Nat -> Nat], NEW n \in Nat, NEW v \in Nat
    PROVE  \E h \in [Nat -> Nat] : /\ h[n + 2] = v
                                   /\ \A k \in 1..(n + 1) : h[k] = f[k]
<1>1. /\ [f EXCEPT ![n + 2] = v] \in [Nat -> Nat]
      /\ [f EXCEPT ![n + 2] = v][n + 2] = v
      /\ \A k \in 1..(n + 1) : [f EXCEPT ![n + 2] = v][k] = f[k]
  OBVIOUS
<1> QED
  BY <1>1

\* The client writes the first piece of a new request.
LEMMA BeginConversation ==
    ASSUME NEW rs, NEW w, NEW ap, NEW start,
           Conversation(rs, <<>>, w, ap, start), NEW cmd \in Commands
    PROVE  LET rs2 == Append(rs, cmd)
               rest2 == Tail(cmd.pieces)
               w2 == Append(w, Piece(Len(rs2), Head(cmd.pieces)))
               r == Received(rs, <<>>, w, start)
           IN  \E start2 :
                 /\ Conversation(rs2, rest2, w2, ap, start2)
                 /\ Received(rs2, rest2, w2, start2) = r
                 /\ \A b, g :
                      Buffered(rs, ap, start, r, b, g) => Buffered(rs2, ap, start2, r, b, g)
<1> DEFINE rs2 == Append(rs, cmd)
           rest2 == Tail(cmd.pieces)
           p == Piece(Len(rs2), Head(cmd.pieces))
           w2 == Append(w, p)
           r == Received(rs, <<>>, w, start)
           N == Len(rs)
           L == Len(cmd.pieces)
<1>0. /\ rs \in Seq(Commands) /\ w \in Seq(Pieces) /\ ap \in Seq(Nat)
  BY DEF Conversation
<1>1. /\ N \in Nat /\ Len(w) \in Nat /\ Len(ap) \in Nat
      /\ Len(rs2) = N + 1 /\ rs2[N + 1] = cmd
      /\ \A k \in 1..N : rs2[k] = rs[k]
      /\ DOMAIN rs = 1..N /\ DOMAIN rs2 = 1..(N + 1)
  BY <1>0
<1>2. /\ cmd.pieces \in Seq(Parts) /\ L \in Nat /\ L > 2 /\ cmd.pieces # <<>>
  BY CommandShape DEF Parts
<1>3. /\ rest2 \in Seq(Parts) /\ Len(rest2) = L - 1
      /\ \A i \in 1..(L - 1) : rest2[i] = cmd.pieces[i + 1]
      /\ Head(cmd.pieces) = cmd.pieces[1] /\ Head(cmd.pieces) \in Parts
  BY <1>2
<1>4. p \in Pieces
  BY <1>1, <1>3 DEF Piece, Pieces
<1>5. /\ w2 \in Seq(Pieces) /\ Len(w2) = Len(w) + 1 /\ w2[Len(w) + 1] = p
      /\ \A i \in 1..Len(w) : w2[i] = w[i]
  BY <1>0, <1>4
<1>6. /\ Layout(rs, start) /\ start \in [Nat -> Nat] /\ start[1] = 0
  BY DEF Conversation, Layout
<1>n. N \in Nat /\ L \in Nat /\ L > 2 /\ Len(w) \in Nat
  BY <1>1, <1>2
<1> HIDE DEF N, L
<1>a. N + 1 \in Nat /\ N + 2 \in Nat /\ start[N + 1] + L \in Nat /\ (N + 1) + 1 = N + 2
  <2>1. N + 1 \in Nat /\ N + 2 \in Nat /\ (N + 1) + 1 = N + 2
    BY <1>n
  <2>2. start[N + 1] \in Nat
    BY <1>6, <2>1
  <2> QED
    BY <1>n, <2>1, <2>2
<1>7. PICK start2 : /\ start2 \in [Nat -> Nat] /\ start2[N + 2] = start[N + 1] + L
                    /\ \A k \in 1..(N + 1) : start2[k] = start[k]
  <2>1. PICK v : v \in Nat /\ v = start[N + 1] + L
    BY <1>a
  <2>2. \E h \in [Nat -> Nat] : h[N + 2] = v /\ \A k \in 1..(N + 1) : h[k] = start[k]
    BY <1>n, <1>6, <2>1, ExtendAt, Zenon
  <2> QED
    BY <2>1, <2>2
<1> HIDE DEF w2, rest2, rs2
<1>8. r \in Nat /\ r = start[N + 1] - Len(w)
  <2>1. r = start[N + 1] - 0 - Len(w)
    BY DEF Received, N
  <2>2. start[N + 1] \in Nat
    BY <1>6, <1>a
  <2> QED
    BY <1>n, <2>1, <2>2 DEF Conversation
<1> HIDE DEF r
<1>9. Received(rs2, rest2, w2, start2) = r
  <2>1. Received(rs2, rest2, w2, start2) = start2[N + 2] - (L - 1) - (Len(w) + 1)
    BY <1>1, <1>3, <1>5, <1>a DEF Received
  <2>2. start[N + 1] \in Nat
    BY <1>6, <1>a
  <2> QED
    <3>1. PICK a : a \in Nat /\ a = start[N + 1]
      BY <2>2
    <3>2. start2[N + 2] = a + L /\ r = a - Len(w)
      BY <1>7, <1>8, <3>1
    <3>3. (a + L) - (L - 1) - (Len(w) + 1) = a - Len(w)
      BY <1>n, <3>1
    <3> QED
      BY <2>1, <3>2, <3>3
<1>10. Layout(rs2, start2)
  <2>1. \A k \in 1..(N + 1) : start2[k + 1] = start2[k] + Len(rs2[k].pieces)
    <3> SUFFICES ASSUME NEW k \in 1..(N + 1)
                 PROVE  start2[k + 1] = start2[k] + Len(rs2[k].pieces)
      OBVIOUS
    <3>1. CASE k \in 1..N
      <4>1. start[k + 1] = start[k] + Len(rs[k].pieces)
        BY <1>6, <3>1 DEF Layout, N
      <4>2. k \in 1..(N + 1) /\ k + 1 \in 1..(N + 1)
        BY <1>1, <3>1
      <4> QED
        BY <1>1, <1>7, <3>1, <4>1, <4>2
    <3>2. CASE k = N + 1
      BY <1>1, <1>7, <1>a, <3>2 DEF L
    <3> QED
      BY <1>1, <3>1, <3>2
  <2>2. \A j, k \in 1..(N + 2) : j < k => start2[j] < start2[k]
    <3> SUFFICES ASSUME NEW j \in 1..(N + 2), NEW k \in 1..(N + 2), j < k
                 PROVE  start2[j] < start2[k]
      OBVIOUS
    <3>1. j \in 1..(N + 1) /\ start[j] \in Nat /\ start[N + 1] \in Nat
      <4>1. j \in 1..(N + 1) /\ j \in Nat
        BY <1>n
      <4> QED
        BY <1>6, <1>a, <4>1
    <3>2. j < N + 1 => start[j] < start[N + 1]
      <4>1. N + 1 \in 1..(N + 1)
        BY <1>1
      <4> QED
        BY <1>6, <3>1, <4>1 DEF Layout, N
    <3>3. CASE k = N + 2
      <4>1. start2[j] = start[j] /\ start2[k] = start[N + 1] + L
        BY <1>7, <3>1, <3>3
      <4>2. start[j] <= start[N + 1]
        <5>1. j < N + 1 \/ j = N + 1
          BY <1>n, <3>1
        <5> QED
          BY <3>1, <3>2, <5>1
      <4> QED
        BY <1>n, <3>1, <4>1, <4>2
    <3>4. CASE k # N + 2
      <4>1. k \in 1..(N + 1)
        BY <1>n, <3>4
      <4>2. start[j] < start[k]
        BY <1>6, <3>1, <4>1 DEF Layout, N
      <4> QED
        BY <1>7, <3>1, <4>1, <4>2
    <3> QED
      BY <3>3, <3>4
  <2> QED
    <3>1. start2[1] = 0
      BY <1>1, <1>6, <1>7
    <3>2. Len(rs2) + 1 = N + 2
      BY <1>1
    <3> QED
      BY <1>1, <1>7, <2>1, <2>2, <3>1, <3>2 DEF Layout
<1>11. Unwritten(rs2, rest2)
  <2>1. rs2[Len(rs2)].pieces = cmd.pieces /\ Len(rs2) > 0
    BY <1>1
  <2>2. /\ Len(rest2) < L
        /\ \A i \in 1..Len(rest2) : rest2[i] = cmd.pieces[L - Len(rest2) + i]
    <3> SUFFICES ASSUME NEW i \in 1..Len(rest2)
                 PROVE  rest2[i] = cmd.pieces[L - Len(rest2) + i]
      BY <1>2, <1>3
    <3>1. L - Len(rest2) + i = i + 1 /\ i \in 1..(L - 1)
      BY <1>2, <1>3
    <3> QED
      BY <1>3, <3>1
  <2> QED
    BY <2>1, <2>2 DEF Unwritten, L
<1>12. ASSUME NEW i \in 1..Len(w2)
       PROVE  IsAt(rs2, start2, r + i, w2[i])
  <2>1. CASE i \in 1..Len(w)
    <3>1. IsAt(rs, start, r + i, w[i])
      BY <2>1 DEF Conversation, r
    <3> QED
      BY <1>0, <1>5, <1>7, <2>1, <3>1, IsAtExtends DEF rs2, N
  <2>2. CASE i = Len(w) + 1
    <3>1. r + i = start[N + 1] + 1
      <4>1. start[N + 1] \in Nat
        BY <1>6, <1>a
      <4> QED
        BY <1>n, <1>8, <2>2, <4>1
    <3>2. /\ N + 1 \in 1..Len(rs2) /\ start2[N + 1] = start[N + 1]
          /\ start2[N + 1] \in Nat /\ start2[(N + 1) + 1] = start[N + 1] + L
      <4>1. N + 1 \in 1..(N + 1)
        BY <1>1
      <4> QED
        BY <1>1, <1>6, <1>7, <1>a, <4>1
    <3>3. p = Piece(N + 1, rs2[N + 1].pieces[(r + i) - start2[N + 1]])
      BY <1>1, <1>3, <3>1, <3>2
    <3>4. start2[N + 1] < r + i /\ r + i <= start2[(N + 1) + 1]
      BY <1>2, <3>1, <3>2
    <3> QED
      BY <1>5, <2>2, <3>2, <3>3, <3>4 DEF IsAt
  <2> QED
    BY <1>1, <1>5, <2>1, <2>2
<1>13. Whole(rs2) => Whole(rs)
  BY <1>1 DEF Whole
<1>14. Conversation(rs2, rest2, w2, ap, start2)
  <2>1. \A i \in 1..Len(ap) : ap[i] \in 1..Len(rs2)
    <3>1. \A i \in 1..Len(ap) : ap[i] \in 1..N
      BY DEF Conversation, N
    <3> QED
      BY <1>n, <1>1, <3>1
  <2>2. rs2 \in Seq(Commands)
    BY <1>0 DEF rs2
  <2> QED
    BY <1>0, <1>3, <1>5, <1>8, <1>9, <1>10, <1>11, <1>12, <1>13, <2>1, <2>2
    DEF Conversation
<1>15. ASSUME NEW b, NEW g, Buffered(rs, ap, start, r, b, g)
       PROVE  Buffered(rs2, ap, start2, r, b, g)
  <2>1. LastOf(ap) + 1 \in 1..(N + 1)
    <3>1. Len(ap) # 0 => ap[Len(ap)] \in 1..N
      BY <1>0, <1>1 DEF Conversation, N
    <3> QED
      BY <1>n, <3>1 DEF LastOf
  <2>2. start2[LastOf(ap) + 1] = start[LastOf(ap) + 1]
    BY <1>7, <2>1
  <2>3. \A i \in 1..Len(b) : IsAt(rs2, start2, g[i], b[i])
    BY <1>0, <1>7, <1>15, IsAtExtends DEF Buffered, rs2, N
  <2> QED
    BY <1>13, <1>15, <2>2, <2>3 DEF Buffered
<1> QED
  BY <1>9, <1>14, <1>15 DEF w2, rest2, rs2, r

\* Piece number g of the requests rs is p, and belongs to request k.
PieceOf(rs, start, g, p, k) ==
    /\ k \in 1..Len(rs) /\ k \in Nat
    /\ start[k] \in Nat /\ start[k + 1] \in Nat
    /\ start[k + 1] = start[k] + Len(rs[k].pieces)
    /\ start[k] + 2 < start[k + 1]
    /\ start[k] < g /\ g <= start[k + 1]
    /\ p.id = k /\ p.part = rs[k].pieces[g - start[k]]
    /\ g - start[k] \in 1..Len(rs[k].pieces)
    /\ g = start[k] + 1 => p.part = "text"
    /\ p.part = "eol" <=> g > start[k + 1] - 2

\* What the number of a piece says about it.
LEMMA PieceFacts ==
    ASSUME NEW rs, rs \in Seq(Commands), NEW start, Layout(rs, start),
           NEW g, g \in Nat, NEW p, IsAt(rs, start, g, p)
    PROVE  PieceOf(rs, start, g, p, p.id)
<1>1. PICK k \in 1..Len(rs) : /\ start[k] < g /\ g <= start[k + 1]
                              /\ p = Piece(k, rs[k].pieces[g - start[k]])
  BY DEF IsAt
<1>2. PICK L : L = Len(rs[k].pieces)
  OBVIOUS
<1>3. /\ rs[k] \in Commands /\ k \in Nat /\ k + 1 \in Nat
  OBVIOUS
<1>4. /\ L \in Nat /\ L > 2 /\ rs[k].pieces[1] = "text"
      /\ \A i \in 1..L : rs[k].pieces[i] = "eol" <=> i > L - 2
  BY <1>2, <1>3, CommandShape
<1>5. /\ start[k] \in Nat /\ start[k + 1] \in Nat /\ start[k + 1] = start[k] + L
  BY <1>2, <1>3 DEF Layout
<1>6. p.id = k /\ p.part = rs[k].pieces[g - start[k]]
  BY <1>1 DEF Piece
<1>7. g - start[k] \in 1..L /\ (g - start[k] > L - 2 <=> g > start[k + 1] - 2)
  BY <1>1, <1>4, <1>5, SMTT(30)
<1>8. g = start[k] + 1 => g - start[k] = 1
  BY <1>5
<1>9. start[k] + 2 < start[k + 1]
  BY <1>4, <1>5
<1>10. p.part = "eol" <=> g > start[k + 1] - 2
  BY <1>4, <1>6, <1>7
<1>11. g = start[k] + 1 => p.part = "text"
  BY <1>4, <1>6, <1>8
<1>12. PieceOf(rs, start, g, p, k)
  BY <1>1, <1>2, <1>3, <1>5, <1>6, <1>7, <1>9, <1>10, <1>11 DEF PieceOf
<1> QED
  BY <1>6, <1>12

\* The next piece belongs to the same request, or is the text a later one
\* begins with.
LEMMA NextPiece ==
    ASSUME NEW rs, rs \in Seq(Commands), NEW start, Layout(rs, start),
           NEW g, g \in Nat, NEW p, IsAt(rs, start, g, p),
           NEW q, IsAt(rs, start, g + 1, q)
    PROVE  q.id = p.id \/ q.part = "text"
<1>1. g + 1 \in Nat
  OBVIOUS
<1> DEFINE k == p.id
           j == q.id
<1>a. PieceOf(rs, start, g, p, k) /\ PieceOf(rs, start, g + 1, q, j)
  BY <1>1, PieceFacts
<1> HIDE DEF k, j
<1>2. /\ k \in 1..Len(rs) /\ k \in Nat /\ start[k] \in Nat /\ start[k + 1] \in Nat
      /\ start[k] < g /\ g <= start[k + 1]
  BY <1>a DEF PieceOf
<1>3. /\ j \in 1..Len(rs) /\ j \in Nat /\ start[j] \in Nat /\ start[j + 1] \in Nat
      /\ start[j] < g + 1 /\ g + 1 <= start[j + 1]
      /\ g + 1 = start[j] + 1 => q.part = "text"
  BY <1>a DEF PieceOf
<1>4. CASE k < j
  <2>1. start[k + 1] <= start[j]
    <3>1. k + 1 \in 1..(Len(rs) + 1) /\ j \in 1..(Len(rs) + 1)
      BY <1>2, <1>3
    <3>2. k + 1 < j => start[k + 1] < start[j]
      BY <3>1 DEF Layout
    <3>3. k + 1 < j \/ k + 1 = j
      BY <1>2, <1>3, <1>4
    <3> QED
      BY <1>2, <1>3, <3>2, <3>3
  <2> QED
    BY <1>2, <1>3, <2>1, SMTT(30)
<1>5. CASE j < k
  <2>1. start[j + 1] <= start[k]
    <3>1. j + 1 \in 1..(Len(rs) + 1) /\ k \in 1..(Len(rs) + 1)
      BY <1>2, <1>3
    <3>2. j + 1 < k => start[j + 1] < start[k]
      BY <3>1 DEF Layout
    <3>3. j + 1 < k \/ j + 1 = k
      BY <1>2, <1>3, <1>5
    <3> QED
      BY <1>2, <1>3, <3>2, <3>3
  <2> QED
    BY <1>2, <1>3, <2>1
<1> QED
  BY <1>2, <1>3, <1>4, <1>5 DEF k, j

\* A zero byte does not follow a line end, and two line ends in a row are the
\* end of a request.
LEMMA AfterLineEnd ==
    ASSUME NEW rs, rs \in Seq(Commands), NEW start, Layout(rs, start),
           NEW g, g \in Nat, NEW p, IsAt(rs, start, g, p), p.part = "eol",
           NEW q, IsAt(rs, start, g + 1, q)
    PROVE  /\ q.part # "nul"
           /\ q.part = "eol" => /\ q.id \in 1..Len(rs) /\ q.id \in Nat
                                /\ g + 1 = start[q.id + 1]
<1>1. g + 1 \in Nat
  OBVIOUS
<1> DEFINE k == p.id
           j == q.id
<1>a. PieceOf(rs, start, g, p, k) /\ PieceOf(rs, start, g + 1, q, j)
  BY <1>1, PieceFacts
<1>4. j = k \/ q.part = "text"
  BY NextPiece
<1>b. j = q.id
  OBVIOUS
<1> HIDE DEF k, j
<1>2. start[k + 1] \in Nat /\ g > start[k + 1] - 2
  BY <1>a DEF PieceOf
<1>3. /\ j \in 1..Len(rs) /\ j \in Nat /\ start[j + 1] \in Nat
      /\ g + 1 <= start[j + 1]
      /\ q.part = "eol" <=> g + 1 > start[j + 1] - 2
  BY <1>a DEF PieceOf
<1>5. CASE j = k
  BY <1>2, <1>3, <1>5, <1>b
<1>6. CASE q.part = "text"
  BY <1>6
<1> QED
  BY <1>4, <1>5, <1>6

\* The client writes the next piece of its request.
LEMMA ContinueConversation ==
    ASSUME NEW rs, NEW rest, NEW w, NEW ap, NEW start,
           Conversation(rs, rest, w, ap, start), rest # <<>>
    PROVE  LET w2 == Append(w, Piece(Len(rs), Head(rest)))
           IN  /\ Conversation(rs, Tail(rest), w2, ap, start)
               /\ Received(rs, Tail(rest), w2, start) = Received(rs, rest, w, start)
<1> DEFINE p == Piece(Len(rs), Head(rest))
           w2 == Append(w, p)
           rest2 == Tail(rest)
           N == Len(rs)
           r == Received(rs, rest, w, start)
           R == Len(rest)
           W == Len(w)
           L == Len(rs[N].pieces)
<1>1. /\ rs \in Seq(Commands) /\ rest \in Seq(Parts)
      /\ w \in Seq(Pieces) /\ ap \in Seq(Nat)
      /\ Layout(rs, start) /\ r \in Nat
      /\ \A i \in 1..W : IsAt(rs, start, r + i, w[i])
  BY DEF Conversation
<1>2. /\ N \in Nat /\ W \in Nat /\ R \in Nat /\ R > 0
      /\ rest2 \in Seq(Parts) /\ Len(rest2) = R - 1
      /\ Head(rest) = rest[1] /\ rest[1] \in Parts
      /\ \A i \in 1..(R - 1) : rest2[i] = rest[i + 1]
  BY <1>1
<1>3. /\ N > 0 /\ R < L
      /\ \A i \in 1..R : rest[i] = rs[N].pieces[L - R + i]
  BY DEF Conversation, Unwritten
<1>4. L \in Nat
  BY <1>1, <1>2, <1>3, CommandShape
<1>5. start \in [Nat -> Nat] /\ start[N + 1] = start[N] + L
  <2>1. N \in 1..N
    BY <1>2, <1>3
  <2> QED
    BY <1>1, <2>1 DEF Layout
<1>6. p \in Pieces
  BY <1>2 DEF Piece, Pieces
<1>7. /\ w2 \in Seq(Pieces) /\ Len(w2) = W + 1 /\ w2[W + 1] = p
      /\ \A i \in 1..W : w2[i] = w[i]
  BY <1>1, <1>6
<1>n. N \in Nat /\ W \in Nat /\ R \in Nat /\ R > 0 /\ L \in Nat /\ R < L
  BY <1>2, <1>3, <1>4
<1> HIDE DEF w2, rest2, N, R, W, L
<1>8. PICK a : a \in Nat /\ a = start[N] /\ start[N + 1] = a + L
  BY <1>2, <1>5
<1>a. a \in Nat
  BY <1>8
<1>9. r = (a + L) - R - W
  BY <1>8 DEF Received, N, R, W
<1>10. Received(rs, rest2, w2, start) = r
  <2>1. Received(rs, rest2, w2, start) = (a + L) - (R - 1) - (W + 1)
    BY <1>2, <1>7, <1>8 DEF Received, N
  <2> QED
    <3>1. (a + L) - (R - 1) - (W + 1) = (a + L) - R - W
      BY <1>n, <1>a
    <3> QED
      BY <1>9, <2>1, <3>1
<1> HIDE DEF r
<1>11. Unwritten(rs, rest2)
  <2>1. \A i \in 1..(R - 1) : rest2[i] = rs[N].pieces[L - (R - 1) + i]
    <3> SUFFICES ASSUME NEW i \in 1..(R - 1)
                 PROVE  rest2[i] = rs[N].pieces[L - (R - 1) + i]
      OBVIOUS
    <3>1. i + 1 \in 1..R /\ L - R + (i + 1) = L - (R - 1) + i
      BY <1>2, <1>4
    <3> QED
      BY <1>2, <1>3, <3>1
  <2>2. R - 1 < L
    BY <1>2, <1>3, <1>4
  <2> QED
    BY <1>2, <1>3, <2>1, <2>2 DEF Unwritten, N, L
<1>12. IsAt(rs, start, r + (W + 1), p)
  <2>1. PICK g : g = r + (W + 1)
    OBVIOUS
  <2>2. g = a + (L - R + 1) /\ g - a = L - R + 1
    <3>1. ((a + L) - R - W) + (W + 1) = a + (L - R + 1)
      BY <1>n, <1>a
    <3>2. g = a + (L - R + 1)
      BY <1>9, <2>1, <3>1
    <3>3. (a + (L - R + 1)) - a = L - R + 1
      BY <1>n, <1>a
    <3> QED
      BY <3>2, <3>3
  <2>3. a < g /\ g <= a + L
    <3>1. a < a + (L - R + 1) /\ a + (L - R + 1) <= a + L
      BY <1>n, <1>a
    <3> QED
      BY <2>2, <3>1
  <2>4. p = Piece(N, rs[N].pieces[g - a])
    <3>1. rest[1] = rs[N].pieces[L - R + 1]
      BY <1>2, <1>3
    <3> QED
      BY <1>2, <2>2, <3>1 DEF N
  <2>5. N \in 1..N
    BY <1>2, <1>3
  <2> QED
    BY <1>8, <2>1, <2>3, <2>4, <2>5 DEF IsAt, N
<1>13. \A i \in 1..Len(w2) : IsAt(rs, start, r + i, w2[i])
  <2> SUFFICES ASSUME NEW i \in 1..Len(w2)
               PROVE  IsAt(rs, start, r + i, w2[i])
    OBVIOUS
  <2>1. i \in 1..W \/ i = W + 1
    BY <1>2, <1>7
  <2> QED
    BY <1>1, <1>7, <1>12, <2>1 DEF W, r
<1>14. Conversation(rs, rest2, w2, ap, start)
  BY <1>1, <1>2, <1>7, <1>10, <1>11, <1>13 DEF Conversation, r
<1> QED
  BY <1>10, <1>14 DEF w2, rest2, r

\* The server receives n pieces, or they are lost with the connection.
LEMMA ReceiveConversation ==
    ASSUME NEW rs, NEW rest, NEW w, NEW ap, NEW start,
           Conversation(rs, rest, w, ap, start), NEW n, n \in 0..Len(w)
    PROVE  LET w2 == SubSeq(w, n + 1, Len(w))
           IN  /\ Conversation(rs, rest, w2, ap, start)
               /\ Received(rs, rest, w2, start) = Received(rs, rest, w, start) + n
<1> DEFINE w2 == SubSeq(w, n + 1, Len(w))
           r == Received(rs, rest, w, start)
           W == Len(w)
           R == Len(rest)
           N == Len(rs)
<1>1. /\ rs \in Seq(Commands) /\ rest \in Seq(Parts)
      /\ w \in Seq(Pieces) /\ ap \in Seq(Nat)
      /\ Layout(rs, start) /\ r \in Nat
      /\ \A i \in 1..W : IsAt(rs, start, r + i, w[i])
  BY DEF Conversation
<1>2. W \in Nat /\ R \in Nat /\ N \in Nat /\ n \in Nat /\ n <= W
  BY <1>1
<1>3. /\ w2 \in Seq(Pieces) /\ Len(w2) = W - n
      /\ \A i \in 1..(W - n) : w2[i] = w[n + i]
  BY <1>1, <1>2
<1> HIDE DEF w2, W, R, N
<1>4. PICK a : a \in Nat /\ a = start[N + 1]
  <2>1. N + 1 \in Nat
    BY <1>2
  <2> QED
    BY <1>1, <2>1 DEF Layout
<1>5. a \in Nat
  BY <1>4
<1>6. r = a - R - W /\ Received(rs, rest, w2, start) = a - R - (W - n)
  BY <1>3, <1>4 DEF Received, N, R, W
<1>7. a - R - (W - n) = (a - R - W) + n
  BY <1>2, <1>5
<1>8. Received(rs, rest, w2, start) = r + n
  BY <1>6, <1>7
<1>r. r \in Nat
  BY <1>1
<1> HIDE DEF r
<1>9. ASSUME NEW i \in 1..Len(w2)
      PROVE  IsAt(rs, start, (r + n) + i, w2[i])
  <2>1. i \in 1..(W - n) /\ n + i \in 1..W /\ r + (n + i) = (r + n) + i
    BY <1>2, <1>3, <1>r
  <2> QED
    BY <1>1, <1>3, <2>1 DEF r
<1>10. Conversation(rs, rest, w2, ap, start)
  <2>1. r + n \in Nat
    BY <1>2, <1>r
  <2> QED
    BY <1>1, <1>3, <1>8, <1>9, <2>1 DEF Conversation
<1> QED
  BY <1>8, <1>10 DEF w2, r

\* What is received is appended to the buffer, up to a zero byte.
LEMMA ReceiveBuffered ==
    ASSUME NEW rs, NEW rest, NEW w, NEW ap, NEW start,
           Conversation(rs, rest, w, ap, start), NEW n, n \in 0..Len(w),
           NEW b, NEW g,
           Buffered(rs, ap, start, Received(rs, rest, w, start), b, g)
    PROVE  \E h : Buffered(rs, ap, start, Received(rs, rest, w, start) + n,
                           b \o AsCString(SubSeq(w, 1, n)), h)
<1> DEFINE r == Received(rs, rest, w, start)
           t == SubSeq(w, 1, n)
           x == AsCString(t)
           b2 == b \o x
           B == Len(b)
           X == Len(x)
           s0 == start[LastOf(ap) + 1]
<1>1. /\ rs \in Seq(Commands) /\ w \in Seq(Pieces) /\ Layout(rs, start)
      /\ \A i \in 1..Len(w) : IsAt(rs, start, r + i, w[i])
      /\ b \in Seq(Pieces) /\ g \in [1..B -> Nat]
  BY DEF Conversation, Buffered
<1>r. r \in Nat /\ n \in Nat
  BY DEF Conversation
<1>s. s0 \in Nat
  <2>1. LastOf(ap) \in Nat
    <3>1. ap \in Seq(Nat)
      BY DEF Conversation
    <3> QED
      BY <3>1 DEF LastOf
  <2>2. LastOf(ap) + 1 \in Nat
    BY <2>1
  <2>3. start \in [Nat -> Nat]
    BY <1>1 DEF Layout
  <2> QED
    BY <2>2, <2>3
<1>2. /\ t \in Seq(Pieces) /\ Len(t) = n
      /\ \A i \in 1..n : t[i] = w[i] /\ IsAt(rs, start, r + i, t[i])
  BY <1>1
<1> HIDE DEF t
<1>3. /\ X \in 0..n /\ x \in Seq(Pieces)
      /\ \A i \in 1..X : x[i] = t[i] /\ x[i].part # "nul"
      /\ X = n \/ t[X + 1].part = "nul"
  BY <1>2, AsCStringPrefix, SMTT(30)
<1> HIDE DEF x
<1>4. B \in Nat /\ X \in Nat /\ X <= n
  BY <1>1, <1>3
<1>5. /\ b2 \in Seq(Pieces) /\ Len(b2) = B + X
      /\ \A i \in 1..B : b2[i] = b[i]
      /\ \A i \in 1..X : b2[B + i] = x[i]
  BY <1>1, <1>3
<1> HIDE DEF b2, r, s0, B, X
<1> DEFINE h == [i \in 1..(B + X) |-> IF i <= B THEN g[i] ELSE r + (i - B)]
<1>6. /\ h \in [1..(B + X) -> Nat]
      /\ \A i \in 1..B : h[i] = g[i]
      /\ \A i \in 1..X : h[B + i] = r + i
  <2>1. \A i \in 1..(B + X) : (IF i <= B THEN g[i] ELSE r + (i - B)) \in Nat
    BY <1>1, <1>4, <1>r
  <2>2. \A i \in 1..B : i \in 1..(B + X) /\ i <= B
    BY <1>4
  <2>3. \A i \in 1..X : B + i \in 1..(B + X) /\ ~ (B + i <= B) /\ (B + i) - B = i
    BY <1>4
  <2> QED
    BY <2>1, <2>2, <2>3
<1> HIDE DEF h
<1>7. /\ \A i \in 1..B : IsAt(rs, start, g[i], b[i]) /\ s0 < g[i] /\ g[i] <= r
      /\ s0 <= r
  BY DEF Buffered, r, s0, B
<1>8. \A i \in 1..(B + X) : i \in 1..B \/ (\E j \in 1..X : i = B + j)
  <2> SUFFICES ASSUME NEW i \in 1..(B + X), i \notin 1..B
               PROVE  i - B \in 1..X /\ i = B + (i - B)
    OBVIOUS
  <2> QED
    BY <1>4
<1>9. \A i \in 1..(B + X) : /\ IsAt(rs, start, h[i], b2[i])
                            /\ s0 < h[i] /\ h[i] <= r + n
  <2>1. ASSUME NEW i \in 1..B
        PROVE  IsAt(rs, start, h[i], b2[i]) /\ s0 < h[i] /\ h[i] <= r + n
    <3>1. g[i] \in Nat /\ g[i] <= r /\ s0 < g[i]
      BY <1>1, <1>7
    <3>2. g[i] <= r + n
      BY <1>r, <3>1
    <3> QED
      BY <1>5, <1>6, <1>7, <3>1, <3>2
  <2>2. ASSUME NEW j \in 1..X
        PROVE  IsAt(rs, start, h[B + j], b2[B + j]) /\ s0 < h[B + j] /\ h[B + j] <= r + n
    <3>1. j \in 1..n
      BY <1>4
    <3>2. IsAt(rs, start, r + j, x[j])
      BY <1>2, <1>3, <3>1
    <3>3. s0 < r + j /\ r + j <= r + n
      BY <1>4, <1>7, <1>r, <1>s
    <3> QED
      BY <1>5, <1>6, <3>2, <3>3
  <2> QED
    BY <1>8, <2>1, <2>2
<1>10. \A i, j \in 1..(B + X) : i < j => h[i] < h[j]
  <2> SUFFICES ASSUME NEW i \in 1..(B + X), NEW j \in 1..(B + X), i < j
               PROVE  h[i] < h[j]
    OBVIOUS
  <2>1. CASE j \in 1..B
    <3>1. i \in 1..B
      BY <1>4, <2>1
    <3>2. g[i] < g[j]
      BY <2>1, <3>1 DEF Buffered, B
    <3> QED
      BY <1>6, <2>1, <3>1, <3>2
  <2>2. CASE j \notin 1..B
    <3>1. PICK m \in 1..X : j = B + m
      BY <1>8, <2>2
    <3>2. CASE i \in 1..B
      <4>1. g[i] \in Nat /\ g[i] <= r
        BY <1>1, <1>7, <3>2
      <4>2. g[i] < r + m
        BY <1>r, <4>1
      <4> QED
        BY <1>6, <3>1, <3>2, <4>2
    <3>3. CASE i \notin 1..B
      <4>1. PICK l \in 1..X : i = B + l
        BY <1>8, <3>3
      <4>2. r + l < r + m
        BY <1>4, <1>r, <3>1, <4>1
      <4> QED
        BY <1>6, <3>1, <4>1, <4>2
    <3> QED
      BY <3>2, <3>3
  <2> QED
    BY <2>1, <2>2
<1>11. ASSUME NEW i \in 1..(B + X), b2[i].part = "eol"
       PROVE  IF i < B + X THEN h[i + 1] = h[i] + 1 ELSE h[i] = r + n
  <2>1. CASE i < B
    <3>1. i \in 1..B /\ i + 1 \in 1..B /\ i < B + X
      BY <1>4, <2>1
    <3>2. g[i + 1] = g[i] + 1
      BY <1>5, <1>11, <2>1, <3>1 DEF Buffered, B
    <3> QED
      BY <1>6, <3>1, <3>2
  <2>2. CASE i = B
    <3>1. i \in 1..B /\ ~ (i < B)
      BY <1>4, <2>2
    <3>2. g[i] = r
      BY <1>5, <1>11, <3>1 DEF Buffered, B, r
    <3>3. CASE X > 0
      <4>1. 1 \in 1..X /\ i < B + X
        BY <1>4, <2>2, <3>3
      <4> QED
        BY <1>6, <2>2, <3>1, <3>2, <4>1
    <3>4. CASE X = 0
      <4>1. n = 0
        <5> SUFFICES ASSUME n # 0
                     PROVE  FALSE
          OBVIOUS
        <5>1. 1 \in 1..n /\ t[1].part = "nul"
          BY <1>3, <1>r, <3>4
        <5>2. IsAt(rs, start, r + 1, t[1])
          BY <1>2, <5>1
        <5>3. IsAt(rs, start, r, b[i]) /\ b[i].part = "eol"
          BY <1>5, <1>7, <1>11, <3>1, <3>2
        <5>4. rs \in Seq(Commands) /\ Layout(rs, start) /\ r \in Nat
          BY <1>1, <1>r
        <5>5. t[1].part # "nul"
          BY <5>2, <5>3, <5>4, AfterLineEnd, Zenon
        <5> QED
          BY <5>1, <5>5
      <4>2. ~ (i < B + X) /\ r + n = r
        BY <1>4, <1>r, <2>2, <3>4, <4>1
      <4> QED
        BY <1>6, <3>1, <3>2, <4>2
    <3> QED
      BY <1>4, <3>3, <3>4
  <2>3. CASE i > B
    <3>1. PICK j \in 1..X : i = B + j
      <4>1. i \notin 1..B
        BY <1>4, <2>3
      <4> QED
        BY <1>8, <4>1
    <3>2. h[i] = r + j
      BY <1>6, <3>1
    <3>3. CASE j < X
      <4>1. j + 1 \in 1..X /\ i < B + X /\ i + 1 = B + (j + 1) /\ (r + j) + 1 = r + (j + 1)
        BY <1>4, <1>r, <3>1, <3>3
      <4> QED
        BY <1>6, <3>2, <4>1
    <3>4. CASE j = X
      <4>1. X = n
        <5> SUFFICES ASSUME X # n
                     PROVE  FALSE
          OBVIOUS
        <5>1. X + 1 \in 1..n /\ X \in 1..n /\ t[X + 1].part = "nul"
          BY <1>3, <1>4, <1>r, <3>4
        <5>2. /\ IsAt(rs, start, r + X, t[X]) /\ IsAt(rs, start, r + (X + 1), t[X + 1])
              /\ r + X \in Nat /\ r + (X + 1) = (r + X) + 1
          BY <1>2, <1>r, <5>1
        <5>3. t[X].part = "eol"
          BY <1>3, <1>5, <1>11, <3>1, <3>4
        <5> QED
          BY <1>1, <5>1, <5>2, <5>3, AfterLineEnd
      <4>2. ~ (i < B + X)
        BY <1>4, <3>1, <3>4
      <4> QED
        BY <3>2, <3>4, <4>1, <4>2
    <3> QED
      BY <1>4, <3>3, <3>4
  <2> QED
    BY <1>4, <2>1, <2>2, <2>3
<1>12. ASSUME Whole(rs)
       PROVE  r + n = s0 + (B + X) /\ \A i \in 1..(B + X) : h[i] = s0 + i
  <2>1. r = s0 + B /\ \A i \in 1..B : g[i] = s0 + i
    BY <1>12 DEF Buffered, r, s0, B
  <2>2. X = n
    <3> SUFFICES ASSUME X # n
                 PROVE  FALSE
      OBVIOUS
    <3>1. X + 1 \in 1..n /\ t[X + 1].part = "nul"
      BY <1>3, <1>4, <1>r
    <3>2. r + (X + 1) \in Nat /\ IsAt(rs, start, r + (X + 1), t[X + 1])
      BY <1>2, <1>r, <3>1
    <3>3. PICK k : PieceOf(rs, start, r + (X + 1), t[X + 1], k)
      BY <1>1, <3>2, PieceFacts
    <3>4. \E j \in 1..Len(rs[k].pieces) : rs[k].pieces[j] = "nul"
      BY <3>1, <3>3 DEF PieceOf
    <3>5. k \in DOMAIN rs /\ rs[k] \in Commands
      BY <1>1, <3>3 DEF PieceOf
    <3>6. DOMAIN rs[k].pieces = 1..Len(rs[k].pieces)
      BY <3>5, CommandShape
    <3> QED
      BY <1>12, <3>4, <3>5, <3>6 DEF Whole, HasZero
  <2>3. (s0 + B) + n = s0 + (B + n)
    BY <1>4, <1>r, <1>s
  <2>4. \A i \in 1..X : (s0 + B) + i = s0 + (B + i)
    BY <1>4, <1>s
  <2> QED
    BY <1>6, <1>8, <2>1, <2>2, <2>3, <2>4
<1>13. s0 <= r + n
  BY <1>7, <1>r, <1>s
<1>14. Buffered(rs, ap, start, r + n, b2, h)
  BY <1>5, <1>6, <1>9, <1>10, <1>11, <1>12, <1>13 DEF Buffered, s0
<1> QED
  BY <1>14 DEF r, b2, x, t

\* A piece whose number lies between those of a request belongs to it.
LEMMA SameRequest ==
    ASSUME NEW rs, rs \in Seq(Commands), NEW start, Layout(rs, start),
           NEW g, g \in Nat, NEW p, IsAt(rs, start, g, p),
           NEW j, j \in 1..Len(rs), start[j] < g, g <= start[j + 1]
    PROVE  PieceOf(rs, start, g, p, j)
<1> DEFINE k == p.id
<1>1. PieceOf(rs, start, g, p, k)
  BY PieceFacts
<1> HIDE DEF k
<1>2. /\ k \in 1..Len(rs) /\ k \in Nat /\ start[k] \in Nat /\ start[k + 1] \in Nat
      /\ start[k] < g /\ g <= start[k + 1]
  BY <1>1 DEF PieceOf
<1>n. Len(rs) \in Nat /\ j \in 1..Len(rs)
  OBVIOUS
<1>m. PICK N : N \in Nat /\ N = Len(rs)
  BY <1>n
<1>3. start \in [Nat -> Nat]
  BY DEF Layout
<1>4. /\ j \in Nat /\ j + 1 \in Nat /\ k + 1 \in Nat
      /\ j \in 1..(Len(rs) + 1) /\ k \in 1..(Len(rs) + 1)
      /\ j + 1 \in 1..(Len(rs) + 1) /\ k + 1 \in 1..(Len(rs) + 1)
  <2>1. N \in Nat /\ j \in 1..N /\ k \in 1..N
    BY <1>2, <1>n, <1>m
  <2>2. /\ j \in Nat /\ j + 1 \in Nat /\ k + 1 \in Nat
        /\ j \in 1..(N + 1) /\ k \in 1..(N + 1)
        /\ j + 1 \in 1..(N + 1) /\ k + 1 \in 1..(N + 1)
    BY <2>1
  <2> QED
    BY <1>m, <2>2
<1>5. start[j] \in Nat /\ start[j + 1] \in Nat
  BY <1>3, <1>4
<1>6. CASE k < j
  <2>1. k + 1 < j => start[k + 1] < start[j]
    BY <1>4 DEF Layout
  <2>2. k + 1 < j \/ k + 1 = j
    BY <1>2, <1>4, <1>6
  <2> QED
    BY <1>2, <1>5, <2>1, <2>2
<1>7. CASE j < k
  <2>1. j + 1 < k => start[j + 1] < start[k]
    BY <1>4 DEF Layout
  <2>2. j + 1 < k \/ j + 1 = k
    BY <1>2, <1>4, <1>7
  <2> QED
    BY <1>2, <1>5, <2>1, <2>2
<1>8. j = k \/ j < k \/ k < j
  BY <1>2, <1>4
<1> QED
  BY <1>1, <1>6, <1>7, <1>8

\* The first message of the buffer is the end of a request not executed yet; if
\* no request has a zero byte it is all of the next request.
LEMMA NextMessage ==
    ASSUME NEW rs, NEW rest, NEW w, NEW ap, NEW start,
           Conversation(rs, rest, w, ap, start), NEW b, NEW g, NEW r,
           Buffered(rs, ap, start, r, b, g),
           NEW n, n = FirstMessage(b), n # 0
    PROVE  /\ n \in 1..Len(b) /\ b[n].id \in 1..Len(rs)
           /\ g[n] = start[b[n].id + 1]
           /\ LastOf(ap) < b[n].id
           /\ \A i \in 1..n : b[i].id \in 1..Len(rs)
           /\ Whole(rs) => /\ b[n].id = Len(ap) + 1 /\ b[1].part = "text"
                           /\ \A i \in 1..n : b[i].id = Len(ap) + 1
<1> DEFINE B == Len(b)
           N == Len(rs)
           k == b[n].id
           a == LastOf(ap)
<1>1. /\ rs \in Seq(Commands) /\ ap \in Seq(Nat) /\ Layout(rs, start)
      /\ b \in Seq(Pieces) /\ g \in [1..B -> Nat]
      /\ \A i \in 1..B : IsAt(rs, start, g[i], b[i]) /\ start[a + 1] < g[i]
  BY DEF Conversation, Buffered
<1>o. rs \in Seq(Commands) /\ Layout(rs, start)
  BY <1>1
<1>2. B \in Nat /\ N \in Nat /\ start \in [Nat -> Nat]
  <2>1. B \in Nat /\ N \in Nat
    BY <1>1
  <2>2. start \in [Nat -> Nat]
    BY <1>o DEF Layout
  <2> QED
    BY <2>1, <2>2
<1>3. /\ n \in 0..B /\ n - 1 \in Ends(b) /\ \A i \in Ends(b) : n - 1 <= i
  BY <1>1, FirstMessageEnds
<1>4. /\ n \in 1..B /\ n - 1 \in 1..B /\ n - 1 < B /\ (n - 1) + 1 = n
      /\ b[n - 1].part = "eol" /\ b[n].part = "eol"
  <2>1. /\ n - 1 \in 1..(B - 1)
        /\ b[n - 1].part = "eol" /\ b[(n - 1) + 1].part = "eol"
    BY <1>3 DEF Ends
  <2>2. n \in 0..B /\ B \in Nat
    BY <1>2, <1>3
  <2> HIDE DEF B
  <2>3. n \in 1..B /\ n - 1 \in 1..B /\ n - 1 < B /\ (n - 1) + 1 = n
    BY <2>1, <2>2
  <2> QED
    BY <2>1, <2>3
<1>5. g[n] = g[n - 1] + 1 /\ g[n - 1] \in Nat /\ g[n] \in Nat
  BY <1>1, <1>4 DEF Buffered
<1>6. /\ IsAt(rs, start, g[n - 1], b[n - 1]) /\ IsAt(rs, start, g[n - 1] + 1, b[n])
  BY <1>1, <1>4, <1>5
<1>7. k \in 1..N /\ k \in Nat /\ g[n] = start[k + 1]
  BY <1>o, <1>4, <1>5, <1>6, AfterLineEnd
<1>8. a \in 0..N /\ a \in Nat
  <2>1. Len(ap) # 0 => ap[Len(ap)] \in 1..N
    <3>1. Len(ap) \in Nat /\ \A i \in 1..Len(ap) : ap[i] \in 1..N
      BY <1>1 DEF Conversation
    <3> QED
      BY <3>1
  <2>2. N \in Nat
    BY <1>2
  <2> HIDE DEF N
  <2> QED
    BY <2>1, <2>2 DEF LastOf
<1> HIDE DEF k, a, N, B
<1>9. a < k
  <2>1. start[a + 1] < start[k + 1]
    BY <1>1, <1>4, <1>7
  <2>2. a + 1 \in 1..(N + 1) /\ k + 1 \in 1..(N + 1)
    BY <1>2, <1>7, <1>8
  <2>3. k + 1 < a + 1 => start[k + 1] < start[a + 1]
    BY <1>o, <2>2 DEF Layout, N
  <2>4. start[a + 1] \in Nat /\ start[k + 1] \in Nat
    BY <1>2, <2>2
  <2> QED
    BY <1>7, <1>8, <2>1, <2>3, <2>4
<1>10. \A i \in 1..n : b[i].id \in 1..N
  <2> SUFFICES ASSUME NEW i \in 1..n
               PROVE  b[i].id \in 1..N
    OBVIOUS
  <2>1. i \in 1..B
    BY <1>2, <1>4
  <2>2. g[i] \in Nat /\ IsAt(rs, start, g[i], b[i])
    BY <1>1, <2>1 DEF B
  <2>3. PieceOf(rs, start, g[i], b[i], b[i].id)
    BY <1>o, <2>2, PieceFacts
  <2> QED
    BY <2>3 DEF PieceOf, N
<1>11. ASSUME Whole(rs)
       PROVE  /\ k = Len(ap) + 1 /\ b[1].part = "text"
              /\ \A i \in 1..n : b[i].id = Len(ap) + 1
  <2>1. a = Len(ap)
    <3>1. \A i \in 1..Len(ap) : ap[i] = i
      BY <1>11 DEF Conversation
    <3>2. Len(ap) \in Nat
      BY <1>1
    <3> QED
      BY <3>1, <3>2 DEF a, LastOf
  <2>2. PICK s0 : s0 \in Nat /\ s0 = start[a + 1]
    BY <1>2, <1>8
  <2>3. \A i \in 1..B : g[i] = s0 + i
    BY <1>11, <2>2 DEF Buffered, a, B
  <2>4. PICK e : e \in Nat /\ e = start[(a + 1) + 1]
    BY <1>2, <1>8
  <2>5. a + 1 \in 1..N /\ a + 1 \in Nat
    BY <1>2, <1>7, <1>8, <1>9
  <2>6. s0 + 2 < e
    <3>1. e = s0 + Len(rs[a + 1].pieces)
      BY <1>o, <2>2, <2>4, <2>5 DEF Layout, N
    <3>2. rs[a + 1] \in Commands
      BY <1>o, <2>5 DEF N
    <3>3. Len(rs[a + 1].pieces) \in Nat /\ Len(rs[a + 1].pieces) > 2
      BY <3>2, CommandShape
    <3> QED
      BY <2>2, <3>1, <3>3
  <2>7. e <= s0 + n
    <3>1. s0 + n = start[k + 1]
      BY <1>4, <1>7, <2>3
    <3>2. (a + 1) + 1 \in 1..(N + 1) /\ k + 1 \in 1..(N + 1)
      BY <1>2, <1>7, <2>5
    <3>3. (a + 1) + 1 < k + 1 => e < start[k + 1]
      BY <1>o, <2>4, <3>2 DEF Layout, N
    <3>4. (a + 1) + 1 < k + 1 \/ a + 1 = k
      BY <1>7, <1>8, <1>9
    <3>5. start[k + 1] \in Nat
      BY <1>2, <3>2
    <3> QED
      BY <2>4, <3>1, <3>3, <3>4, <3>5
  <2>8. PICK L : L \in Nat /\ L > 2 /\ e = s0 + L /\ L <= n
    <3>1. e - s0 \in Nat /\ e - s0 > 2 /\ e = s0 + (e - s0) /\ e - s0 <= n
      BY <1>2, <1>4, <2>2, <2>4, <2>6, <2>7
    <3> QED
      BY <3>1
  <2>9. ASSUME NEW i \in 1..L
        PROVE  PieceOf(rs, start, g[i], b[i], a + 1)
    <3>1. i \in 1..B
      BY <1>2, <1>4, <2>8
    <3>2. g[i] = s0 + i /\ g[i] \in Nat /\ IsAt(rs, start, g[i], b[i])
      BY <1>1, <2>3, <3>1 DEF B
    <3>3. start[a + 1] < g[i] /\ g[i] <= start[(a + 1) + 1]
      BY <2>2, <2>4, <2>8, <3>2
    <3> QED
      BY <1>o, <2>5, <3>2, <3>3, SameRequest DEF N
  <2>10. b[L - 1].part = "eol" /\ b[L].part = "eol"
    <3>1. L - 1 \in 1..L /\ L \in 1..L /\ L - 1 \in 1..B /\ L \in 1..B
      BY <1>2, <1>4, <2>8
    <3>2. s0 + L > e - 2 /\ s0 + (L - 1) > e - 2
      BY <2>2, <2>8
    <3> QED
      BY <2>3, <2>4, <2>9, <3>1, <3>2 DEF PieceOf
  <2>11. L = n
    <3>1. L - 1 \in 1..(B - 1) /\ (L - 1) + 1 = L
      BY <1>2, <1>4, <2>8
    <3>2. L - 1 \in Ends(b)
      BY <2>10, <3>1 DEF Ends, B
    <3>3. n - 1 <= L - 1
      BY <1>3, <3>2
    <3> QED
      BY <1>2, <1>4, <2>8, <3>3
  <2>12. \A i \in 1..n : b[i].id = a + 1
    BY <2>9, <2>11 DEF PieceOf
  <2>13. b[1].part = "text"
    <3>1. 1 \in 1..L /\ 1 \in 1..B
      BY <1>2, <1>4, <2>8
    <3> QED
      BY <2>2, <2>3, <2>9, <3>1 DEF PieceOf
  <2>14. k = a + 1
    <3>1. n \in 1..n
      BY <1>4
    <3> QED
      BY <2>12, <3>1 DEF k
  <2> QED
    BY <2>1, <2>12, <2>13, <2>14
<1> QED
  BY <1>4, <1>7, <1>9, <1>10, <1>11 DEF k, a, N, B
\* The server executes the first message of the buffer and removes it.
LEMMA ExecuteMessage ==
    ASSUME NEW rs, NEW rest, NEW w, NEW ap, NEW start,
           Conversation(rs, rest, w, ap, start), NEW b, NEW g, NEW r, r \in Nat,
           Buffered(rs, ap, start, r, b, g),
           NEW n, n = FirstMessage(b), n # 0
    PROVE  /\ Conversation(rs, rest, w, Append(ap, b[n].id), start)
           /\ \E h : Buffered(rs, Append(ap, b[n].id), start, r,
                              SubSeq(b, n + 1, Len(b)), h)
<1> DEFINE k == b[n].id
           ap2 == Append(ap, k)
           A == Len(ap)
           B == Len(b)
           b2 == SubSeq(b, n + 1, Len(b))
<1>1. /\ n \in 1..B /\ k \in 1..Len(rs) /\ g[n] = start[k + 1] /\ LastOf(ap) < k
      /\ Whole(rs) => k = A + 1
  BY NextMessage
<1>2. /\ rs \in Seq(Commands) /\ ap \in Seq(Nat) /\ Layout(rs, start)
      /\ b \in Seq(Pieces) /\ g \in [1..B -> Nat]
  BY DEF Conversation, Buffered
<1>a. /\ \A i \in 1..A : ap[i] \in 1..Len(rs)
      /\ \A i, j \in 1..A : i < j => ap[i] < ap[j]
      /\ Whole(rs) => \A i \in 1..A : ap[i] = i
  BY DEF Conversation
<1>3. A \in Nat /\ B \in Nat /\ n \in Nat /\ n <= B /\ n > 0
  <2>1. A \in Nat /\ B \in Nat
    BY <1>2
  <2> HIDE DEF B, A
  <2> QED
    BY <1>1, <2>1
<1>n. k \in Nat
  BY <1>1
<1>4. /\ ap2 \in Seq(Nat) /\ Len(ap2) = A + 1 /\ ap2[A + 1] = k
      /\ \A i \in 1..A : ap2[i] = ap[i]
  BY <1>2, <1>n
<1>5. /\ b2 \in Seq(Pieces) /\ Len(b2) = B - n
      /\ \A i \in 1..(B - n) : b2[i] = b[n + i]
  BY <1>2, <1>3
<1> HIDE DEF k, ap2, A, B, b2
<1>6. LastOf(ap2) = k
  BY <1>3, <1>4 DEF LastOf
<1>7. \A i \in 1..(A + 1) : ap2[i] \in 1..Len(rs)
  BY <1>a, <1>1, <1>3, <1>4
<1>8. ASSUME NEW i \in 1..(A + 1), NEW j \in 1..(A + 1), i < j
      PROVE  ap2[i] < ap2[j]
  <2>1. CASE j \in 1..A
    <3>1. i \in 1..A
      BY <1>3, <1>8, <2>1
    <3> QED
      BY <1>a, <1>4, <1>8, <2>1, <3>1
  <2>2. CASE j = A + 1
    <3>1. i \in 1..A /\ A \in 1..A /\ A # 0 /\ (i < A \/ i = A)
      BY <1>3, <1>8, <2>2
    <3>2. LastOf(ap) = ap[A]
      BY <3>1 DEF LastOf, A
    <3>3. ap[i] \in Nat /\ ap[A] \in Nat
      BY <1>2, <3>1 DEF A
    <3>4. ap[i] <= ap[A]
      BY <1>a, <3>1, <3>3
    <3>5. ap[i] < k
      BY <1>1, <1>n, <3>2, <3>3, <3>4
    <3> QED
      BY <1>4, <2>2, <3>1, <3>5
  <2> QED
    BY <1>3, <2>1, <2>2
<1>9. Whole(rs) => \A i \in 1..(A + 1) : ap2[i] = i
  BY <1>a, <1>1, <1>3, <1>4
<1>10. Conversation(rs, rest, w, ap2, start)
  BY <1>4, <1>7, <1>8, <1>9 DEF Conversation
<1> DEFINE h == [i \in 1..(B - n) |-> g[n + i]]
<1>11. \A i \in 1..(B - n) : n + i \in 1..B /\ n < n + i /\ n \in 1..B
  BY <1>3
<1>12. /\ h \in [1..(B - n) -> Nat]
       /\ \A i \in 1..(B - n) : h[i] = g[n + i]
  BY <1>2, <1>11
<1> HIDE DEF h
<1>13. /\ \A i \in 1..B : IsAt(rs, start, g[i], b[i]) /\ g[i] <= r
       /\ \A i, j \in 1..B : i < j => g[i] < g[j]
       /\ \A i \in 1..B :
            b[i].part = "eol" => (IF i < B THEN g[i + 1] = g[i] + 1 ELSE g[i] = r)
  BY DEF Buffered, B
<1>14. \A i \in 1..(B - n) : /\ IsAt(rs, start, h[i], b2[i])
                             /\ start[k + 1] < h[i] /\ h[i] <= r
  <2> SUFFICES ASSUME NEW i \in 1..(B - n)
               PROVE  /\ IsAt(rs, start, h[i], b2[i])
                      /\ start[k + 1] < h[i] /\ h[i] <= r
    OBVIOUS
  <2> QED
    BY <1>1, <1>5, <1>11, <1>12, <1>13
<1>15. \A i, j \in 1..(B - n) : i < j => h[i] < h[j]
  <2> SUFFICES ASSUME NEW i \in 1..(B - n), NEW j \in 1..(B - n), i < j
               PROVE  h[i] < h[j]
    OBVIOUS
  <2>1. n + i < n + j
    BY <1>3
  <2> QED
    BY <1>11, <1>12, <1>13, <2>1
<1>16. ASSUME NEW i \in 1..(B - n), b2[i].part = "eol"
       PROVE  IF i < B - n THEN h[i + 1] = h[i] + 1 ELSE h[i] = r
  <2>1. b[n + i].part = "eol" /\ n + i \in 1..B /\ h[i] = g[n + i]
    BY <1>5, <1>11, <1>12, <1>16
  <2>2. CASE i < B - n
    <3>1. i + 1 \in 1..(B - n) /\ n + i < B /\ n + (i + 1) = (n + i) + 1
      BY <1>3, <2>2
    <3> QED
      BY <1>12, <1>13, <2>1, <2>2, <3>1
  <2>3. CASE ~ (i < B - n)
    <3>1. ~ (n + i < B)
      BY <1>3, <2>3
    <3> QED
      BY <1>13, <2>1, <2>3, <3>1
  <2> QED
    BY <2>2, <2>3
<1>17. start[k + 1] <= r
  BY <1>1, <1>3, <1>13 DEF B
<1>18. ASSUME Whole(rs)
       PROVE  /\ r = start[k + 1] + (B - n)
              /\ \A i \in 1..(B - n) : h[i] = start[k + 1] + i
  <2>1. PICK s0 : s0 = start[LastOf(ap) + 1]
    OBVIOUS
  <2>2. r = s0 + B /\ \A i \in 1..B : g[i] = s0 + i
    BY <1>18, <2>1 DEF Buffered, B
  <2>3. s0 \in Nat
    <3>1. LastOf(ap) \in Nat
      <4>1. Len(ap) \in Nat /\ \A i \in 1..Len(ap) : ap[i] \in Nat
        BY <1>2
      <4> QED
        BY <4>1 DEF LastOf
    <3>2. LastOf(ap) + 1 \in Nat
      BY <3>1
    <3>3. start \in [Nat -> Nat]
      BY <1>2 DEF Layout
    <3> QED
      BY <2>1, <3>2, <3>3
  <2>4. start[k + 1] = s0 + n
    BY <1>1, <2>2 DEF B
  <2>5. s0 + B = (s0 + n) + (B - n)
    BY <1>3, <2>3
  <2>6. \A i \in 1..(B - n) : s0 + (n + i) = (s0 + n) + i
    BY <1>3, <2>3
  <2> QED
    BY <1>11, <1>12, <2>2, <2>4, <2>5, <2>6
<1>19. Buffered(rs, ap2, start, r, b2, h)
  BY <1>5, <1>6, <1>12, <1>14, <1>15, <1>16, <1>17, <1>18 DEF Buffered
<1> QED
  BY <1>10, <1>19 DEF ap2, k, b2

\* There is such a numbering, and every buffer of H holds what was received.
Faithful(rs, rest, w, ap, H) ==
    \E start : /\ Conversation(rs, rest, w, ap, start)
               /\ \A b \in H : \E g :
                    Buffered(rs, ap, start, Received(rs, rest, w, start), b, g)

\* A numbering for some buffers is one for fewer of them.
LEMMA FaithfulSubset ==
    ASSUME NEW rs, NEW rest, NEW w, NEW ap, NEW H, Faithful(rs, rest, w, ap, H),
           NEW G, G \subseteq H
    PROVE  Faithful(rs, rest, w, ap, G)
BY DEF Faithful

\* Before the first request.
LEMMA FaithfulNew == Faithful(<<>>, <<>>, <<>>, <<>>, {<<>>})
<1> DEFINE start == [k \in Nat |-> 0]
           g == [i \in 1..0 |-> 0]
<1>1. <<>> \in Seq(Commands) /\ <<>> \in Seq(Parts) /\ <<>> \in Seq(Pieces)
      /\ <<>> \in Seq(Nat) /\ Len(<<>>) = 0
  OBVIOUS
<1>2. start \in [Nat -> Nat] /\ \A k \in Nat : start[k] = 0
  OBVIOUS
<1>3. 1..0 = {} /\ 1..(0 + 1) = {1} /\ 1 \in Nat /\ 0 + 1 = 1
  OBVIOUS
<1>4. g \in [1..0 -> Nat]
  BY <1>3
<1> HIDE DEF start, g
<1>5. Layout(<<>>, start)
  BY <1>1, <1>2, <1>3 DEF Layout
<1>6. Received(<<>>, <<>>, <<>>, start) = 0
  BY <1>1, <1>2, <1>3 DEF Received
<1>7. LastOf(<<>>) = 0
  BY <1>1 DEF LastOf
<1>8. Conversation(<<>>, <<>>, <<>>, <<>>, start)
  BY <1>1, <1>3, <1>5, <1>6 DEF Conversation, Unwritten
<1>9. Buffered(<<>>, <<>>, start, 0, <<>>, g)
  BY <1>1, <1>2, <1>3, <1>4, <1>7 DEF Buffered
<1> QED
  BY <1>6, <1>8, <1>9 DEF Faithful

\* The client begins a request.
LEMMA FaithfulBegin ==
    ASSUME NEW rs, NEW w, NEW ap, NEW H, Faithful(rs, <<>>, w, ap, H),
           NEW cmd \in Commands
    PROVE  Faithful(Append(rs, cmd), Tail(cmd.pieces),
                    Append(w, Piece(Len(Append(rs, cmd)), Head(cmd.pieces))), ap, H)
<1>1. PICK start : /\ Conversation(rs, <<>>, w, ap, start)
                   /\ \A b \in H : \E g :
                        Buffered(rs, ap, start, Received(rs, <<>>, w, start), b, g)
  BY DEF Faithful
<1> QED
  BY <1>1, BeginConversation DEF Faithful

\* The client goes on with a request.
LEMMA FaithfulContinue ==
    ASSUME NEW rs, NEW rest, NEW w, NEW ap, NEW H, Faithful(rs, rest, w, ap, H),
           rest # <<>>
    PROVE  Faithful(rs, Tail(rest), Append(w, Piece(Len(rs), Head(rest))), ap, H)
<1>1. PICK start : /\ Conversation(rs, rest, w, ap, start)
                   /\ \A b \in H : \E g :
                        Buffered(rs, ap, start, Received(rs, rest, w, start), b, g)
  BY DEF Faithful
<1> QED
  BY <1>1, ContinueConversation DEF Faithful

\* The server receives n pieces.
LEMMA FaithfulReceive ==
    ASSUME NEW rs, NEW rest, NEW w, NEW ap, NEW H, Faithful(rs, rest, w, ap, H),
           NEW b \in H, NEW n, n \in 0..Len(w)
    PROVE  Faithful(rs, rest, SubSeq(w, n + 1, Len(w)), ap,
                    {b \o AsCString(SubSeq(w, 1, n))})
<1>1. PICK start : /\ Conversation(rs, rest, w, ap, start)
                   /\ \A x \in H : \E g :
                        Buffered(rs, ap, start, Received(rs, rest, w, start), x, g)
  BY DEF Faithful
<1>2. PICK g : Buffered(rs, ap, start, Received(rs, rest, w, start), b, g)
  BY <1>1
<1>3. \E h : Buffered(rs, ap, start, Received(rs, rest, w, start) + n,
                      b \o AsCString(SubSeq(w, 1, n)), h)
  BY <1>1, <1>2, ReceiveBuffered
<1>4. LET w2 == SubSeq(w, n + 1, Len(w))
      IN  /\ Conversation(rs, rest, w2, ap, start)
          /\ Received(rs, rest, w2, start) = Received(rs, rest, w, start) + n
  BY <1>1, ReceiveConversation
<1> QED
  BY <1>3, <1>4 DEF Faithful

\* The connection is closed, with what was not received and the buffer.
LEMMA FaithfulLost ==
    ASSUME NEW rs, NEW rest, NEW w, NEW ap, NEW H, Faithful(rs, rest, w, ap, H)
    PROVE  Faithful(rs, rest, <<>>, ap, {})
<1>1. PICK start : Conversation(rs, rest, w, ap, start)
  BY DEF Faithful
<1>2. w \in Seq(Pieces)
  BY <1>1 DEF Conversation
<1>3. PICK n : n \in 0..Len(w) /\ SubSeq(w, n + 1, Len(w)) = <<>>
  <2>1. Len(w) \in 0..Len(w) /\ SubSeq(w, Len(w) + 1, Len(w)) = <<>>
    BY <1>2
  <2> QED
    BY <2>1
<1>4. Conversation(rs, rest, <<>>, ap, start)
  <2>1. Conversation(rs, rest, SubSeq(w, n + 1, Len(w)), ap, start)
    BY <1>1, <1>3, ReceiveConversation
  <2> QED
    BY <1>3, <2>1
<1> QED
  BY <1>4 DEF Faithful

\* The server executes the first message of a buffer.
LEMMA FaithfulExecute ==
    ASSUME NEW rs, NEW rest, NEW w, NEW ap, NEW H, Faithful(rs, rest, w, ap, H),
           NEW b \in H, NEW n, n = FirstMessage(b), n # 0
    PROVE  Faithful(rs, rest, w, Append(ap, b[n].id), {SubSeq(b, n + 1, Len(b))})
<1>1. PICK start : /\ Conversation(rs, rest, w, ap, start)
                   /\ \A x \in H : \E g :
                        Buffered(rs, ap, start, Received(rs, rest, w, start), x, g)
  BY DEF Faithful
<1>2. PICK g : Buffered(rs, ap, start, Received(rs, rest, w, start), b, g)
  BY <1>1
<1>3. Received(rs, rest, w, start) \in Nat
  BY <1>1 DEF Conversation
<1> QED
  BY <1>1, <1>2, <1>3, ExecuteMessage DEF Faithful
\* The buffer of client c: that of its descriptor, and an empty one before it
\* is accepted.
Held(c) ==
    {clients[d] : d \in {e \in Open : conn[e] = c}}
        \cup (IF c \in Pending \/ peer[c] = "new" THEN {<<>>} ELSE {})

Conversations ==
    /\ applied \in [Clients -> Seq(Nat)]
    /\ \A c \in Clients :
         Faithful(requests[c], todo[c], wire[c], applied[c], Held(c))

\* Initially nobody has written anything.
LEMMA ConversationsInit == Init => Conversations
<1> SUFFICES ASSUME Init
             PROVE  Conversations
  OBVIOUS
<1>1. Open = {}
  BY DEF Init, Open
<1>2. ASSUME NEW c \in Clients
      PROVE  /\ requests[c] = <<>> /\ todo[c] = <<>> /\ wire[c] = <<>>
             /\ applied[c] = <<>> /\ Held(c) \subseteq {<<>>}
  BY <1>1 DEF Init, Held
<1>3. \A c \in Clients :
        Faithful(requests[c], todo[c], wire[c], applied[c], Held(c))
  <2> SUFFICES ASSUME NEW c \in Clients
               PROVE  Faithful(requests[c], todo[c], wire[c], applied[c], Held(c))
    OBVIOUS
  <2>1. Faithful(<<>>, <<>>, <<>>, <<>>, Held(c))
    BY <1>2, FaithfulNew, FaithfulSubset
  <2> QED
    BY <1>2, <2>1
<1>4. applied \in [Clients -> Seq(Nat)]
  BY DEF Init
<1> QED
  BY <1>3, <1>4 DEF Conversations

\* A step that leaves the conversation with client c alone, or loses its
\* buffer.
LEMMA SameConversation ==
    ASSUME Conversations, NEW c \in Clients,
           requests'[c] = requests[c], todo'[c] = todo[c], wire'[c] = wire[c],
           applied'[c] = applied[c], Held(c)' \subseteq Held(c)
    PROVE  Faithful(requests[c], todo[c], wire[c], applied[c], Held(c))'
<1>1. Faithful(requests[c], todo[c], wire[c], applied[c], Held(c))
  BY DEF Conversations
<1>2. PICK H : H = Held(c)'
  OBVIOUS
<1>3. Faithful(requests[c], todo[c], wire[c], applied[c], H)
  BY <1>1, <1>2, FaithfulSubset
<1> QED
  BY <1>2, <1>3

\* A step that leaves all conversations alone.
LEMMA SameConversations ==
    ASSUME Conversations, UNCHANGED <<requests, todo, wire, applied>>,
           \A c \in Clients : Held(c)' \subseteq Held(c)
    PROVE  Conversations'
<1>1. \A c \in Clients :
        Faithful(requests[c], todo[c], wire[c], applied[c], Held(c))'
  BY SameConversation
<1>2. applied' \in [Clients -> Seq(Nat)]
  BY DEF Conversations
<1> QED
  BY <1>1, <1>2 DEF Conversations

\* Closing descriptors ends the conversations with their clients.
LEMMA ClosedConversations ==
    ASSUME Connections, Conversations, NEW D \in SUBSET Open, CloseAll(D),
           UNCHANGED <<requests, todo, applied, peer>>,
           Pending' \subseteq Pending
    PROVE  Conversations'
<1>1. /\ Open' = Open \ D
      /\ \A d \in Open' : d \in Open /\ conn'[d] = conn[d]
  BY ClosedConnections
<1>2. \A d \in Open' : clients'[d] = clients[d]
  BY <1>1 DEF CloseAll, Connections, NoUseAfterClose
<1>3. \A d, e \in Open : conn[d] = conn[e] => d = e
  BY DEF Connections, NoUseAfterClose
<1>4. ASSUME NEW c \in Clients
      PROVE  Held(c)' \subseteq Held(c)
  <2>1. {e \in Open' : conn'[e] = c} \subseteq {e \in Open : conn[e] = c}
    BY <1>1
  <2> QED
    BY <1>2, <2>1 DEF Held
<1>5. ASSUME NEW c \in Clients, c \notin {conn[d] : d \in D}
      PROVE  Faithful(requests[c], todo[c], wire[c], applied[c], Held(c))'
  <2>1. wire'[c] = wire[c]
    BY <1>5 DEF CloseAll
  <2> QED
    BY <1>4, <2>1, SameConversation
<1>6. ASSUME NEW c \in Clients, NEW d \in D, c = conn[d]
      PROVE  Faithful(requests[c], todo[c], wire[c], applied[c], Held(c))'
  <2>1. wire'[c] = <<>>
    BY <1>6 DEF CloseAll
  <2>2. {e \in Open' : conn'[e] = c} = {}
    BY <1>1, <1>3, <1>6
  <2>3. c \notin Pending /\ peer[c] # "new"
    <3>1. d \in Open /\ c \in Served
      BY <1>6 DEF Served
    <3> QED
      BY <1>6, <3>1 DEF Connections, OneConnection, Pending
  <2>4. Held(c)' = {}
    BY <2>2, <2>3 DEF Held
  <2>5. Faithful(requests[c], todo[c], <<>>, applied[c], {})
    BY FaithfulLost DEF Conversations
  <2> QED
    BY <2>1, <2>4, <2>5
<1>7. \A c \in Clients :
        Faithful(requests[c], todo[c], wire[c], applied[c], Held(c))'
  BY <1>5, <1>6
<1>8. applied' \in [Clients -> Seq(Nat)]
  BY DEF Conversations
<1> QED
  BY <1>7, <1>8 DEF Conversations

\* The buffer of a client that is connected.
LEMMA HeldOpen ==
    ASSUME Connections, NEW d \in Open, NEW c, c = conn[d]
    PROVE  Held(c) = {clients[d]} /\ c \in Clients /\ c \notin Pending /\ peer[c] # "new"
<1>1. \A e \in Open : conn[e] = conn[d] => e = d
  BY DEF Connections, NoUseAfterClose
<1>2. c \in Served
  BY DEF Served
<1>3. c \notin Pending /\ peer[c] # "new"
  BY <1>2 DEF Connections, OneConnection, Pending
<1>4. c \in Clients
  BY DEF Connections, ConnectionTypes, Open
<1>5. {e \in Open : conn[e] = c} = {d}
  BY <1>1
<1> QED
  BY <1>3, <1>4, <1>5 DEF Held

\* The handler changes the buffer of its descriptor only.
LEMMA HandledBuffer ==
    ASSUME Connections, Buffers, cur \in Open, NEW c, c = conn[cur], NEW x,
           clients' = [clients EXCEPT ![cur] = x], UNCHANGED <<peer, backlog, conn>>
    PROVE  /\ Held(c)' = {x}
           /\ \A b \in Clients : b # c => Held(b)' = Held(b)
<1>1. Open' = Open /\ Pending' = Pending
  BY DEF Open, Pending
<1>2. cur \in DOMAIN clients /\ clients'[cur] = x
      /\ \A d \in Open : d # cur => clients'[d] = clients[d]
  BY DEF Buffers
<1>3. \A d \in Open : conn[d] = conn[cur] => d = cur
  BY DEF Connections, NoUseAfterClose
<1>4. c \notin Pending /\ peer[c] # "new"
  BY HeldOpen
<1>5. Held(c)' = {x}
  <2>1. {e \in Open' : conn'[e] = c} = {cur}
    BY <1>1, <1>3
  <2> QED
    BY <1>1, <1>2, <1>4, <2>1 DEF Held
<1>6. ASSUME NEW b \in Clients, b # c
      PROVE  Held(b)' = Held(b)
  <2>1. {e \in Open' : conn'[e] = b} = {e \in Open : conn[e] = b}
    BY <1>1
  <2>2. \A d \in {e \in Open : conn[e] = b} : clients'[d] = clients[d]
    BY <1>2, <1>6
  <2> QED
    BY <1>1, <2>1, <2>2 DEF Held
<1> QED
  BY <1>5, <1>6
\* Every step keeps the invariant on the conversations.
LEMMA ConversationsNext ==
    ASSUME Connections, Buffers, Attention, Conversations, [Next]_vars
    PROVE  Conversations'
<1> USE Bounds
<1>0. /\ DOMAIN clients = Open
      /\ InHandler => cur \in Open /\ conn[cur] \in Clients
      /\ backlog \in Seq(Clients)
      /\ peer \in [Clients -> {"new", "up", "closed", "reset"}]
      /\ requests \in [Clients -> Seq(Commands)] /\ todo \in [Clients -> Seq(Parts)]
      /\ wire \in [Clients -> Seq(Pieces)] /\ applied \in [Clients -> Seq(Nat)]
  BY DEF Connections, ConnectionTypes, NoUseAfterClose, Open, Buffers, Conversations
<1>1. CASE UNCHANGED <<requests, todo, wire, applied, conn, backlog, peer, clients>>
  <2>1. \A c \in Clients : Held(c)' \subseteq Held(c)
    BY <1>1 DEF Held, Open, Pending
  <2> QED
    BY <1>1, <2>1, SameConversations
<1>2. CASE Start \/ EpollWait \/ AcceptEnds \/ RecvWouldBlock
  BY <1>1, <1>2
  DEF Start, EpollWait, AcceptEnds, RecvWouldBlock, clientVars, netVars, cacheVars
<1>3. CASE Dispatch
  BY <1>1, <1>3 DEF Dispatch, clientVars, netVars, cacheVars
<1>4. CASE SendData
  BY <1>1, <1>4 DEF SendData, clientVars
<1>5. CASE Accept
  <2>d. PICK d : d = Least(Descriptors \ Open)
    OBVIOUS
  <2>c. PICK c : c = Head(backlog)
    OBVIOUS
  <2>1. /\ UNCHANGED <<requests, todo, applied, peer>> /\ backlog # <<>>
        /\ backlog' = Tail(backlog) /\ Open # Descriptors
    BY <1>5 DEF Accept, clientVars, cacheVars
  <2>2. c \in Pending /\ Pending' \subseteq Pending
    <3>1. c = backlog[1] /\ 1 \in DOMAIN backlog
      BY <1>0, <2>c, <2>1
    <3>2. \A i \in DOMAIN backlog' : i + 1 \in DOMAIN backlog /\ backlog'[i] = backlog[i + 1]
      BY <1>0, <2>1
    <3> QED
      BY <3>1, <3>2 DEF Pending
  <2>3. CASE /\ conn' = [conn EXCEPT ![d] = c]
             /\ clients' = [f \in DOMAIN clients \cup {d} |->
                                IF f = d THEN <<>> ELSE clients[f]]
             /\ UNCHANGED wire
    <3>1. \A e \in Open' : \/ e \in Open /\ e # d /\ conn'[e] = conn[e]
                                /\ clients'[e] = clients[e]
                           \/ e = d /\ conn'[e] = c /\ clients'[e] = <<>>
      <4>1. d \in Descriptors
        <5>1. Descriptors \ Open # {}
          BY <2>1 DEF Open
        <5> QED
          BY <2>d, <5>1, LeastDescriptor
      <4>2. conn \in [Descriptors -> Clients \cup {NoClient}]
        BY DEF Connections, ConnectionTypes
      <4> QED
        BY <1>0, <2>3, <4>1, <4>2 DEF Open
    <3>2. \A x \in Clients : Held(x)' \subseteq Held(x)
      <4> SUFFICES ASSUME NEW x \in Clients, NEW b \in Held(x)'
                   PROVE  b \in Held(x)
        OBVIOUS
      <4>1. CASE b = <<>> /\ (x \in Pending' \/ peer'[x] = "new")
        BY <2>1, <2>2, <4>1 DEF Held
      <4>2. CASE \E e \in Open' : conn'[e] = x /\ b = clients'[e]
        BY <2>2, <3>1, <4>2 DEF Held
      <4> QED
        BY <4>1, <4>2 DEF Held
    <3> QED
      BY <2>1, <2>3, <3>2, SameConversations
  <2>4. CASE wire' = [wire EXCEPT ![c] = <<>>] /\ UNCHANGED <<conn, clients>>
    <3>1. Held(c)' = {}
      <4>1. c \notin Pending' /\ c \notin Served /\ peer[c] # "new"
        <5>1. \A i, j \in DOMAIN backlog : backlog[i] = backlog[j] => i = j
          BY DEF Connections, OneConnection
        <5>2. /\ c = backlog[1] /\ 1 \in DOMAIN backlog
              /\ \A i \in DOMAIN backlog' : /\ i + 1 \in DOMAIN backlog
                                            /\ backlog'[i] = backlog[i + 1] /\ i + 1 # 1
          <6>1. c = backlog[1] /\ 1 \in DOMAIN backlog
            BY <1>0, <2>c, <2>1
          <6>2. \A i \in DOMAIN backlog' : /\ i + 1 \in DOMAIN backlog
                                           /\ backlog'[i] = backlog[i + 1] /\ i \in 1..Len(backlog')
            BY <1>0, <2>1
          <6>3. Len(backlog') \in Nat
            BY <1>0, <2>1
          <6>4. \A i \in 1..Len(backlog') : i + 1 # 1
            BY <6>3
          <6> QED
            BY <6>1, <6>2, <6>4
        <5> QED
          BY <5>1, <5>2 DEF Pending, Connections, OneConnection
      <4>2. {e \in Open' : conn'[e] = c} = {}
        BY <2>4, <4>1 DEF Open, Served
      <4> QED
        BY <2>1, <4>1, <4>2 DEF Held
    <3>2. c \in Clients
      BY <1>0, <2>2 DEF Pending
    <3>3. Faithful(requests[c], todo[c], wire[c], applied[c], Held(c))'
      <4>1. Faithful(requests[c], todo[c], <<>>, applied[c], {})
        BY <3>2, FaithfulLost DEF Conversations
      <4>2. wire'[c] = <<>>
        BY <1>0, <2>4, <3>2
      <4> QED
        BY <2>1, <3>1, <4>1, <4>2
    <3>4. ASSUME NEW x \in Clients, x # c
          PROVE  Faithful(requests[x], todo[x], wire[x], applied[x], Held(x))'
      <4>1. Held(x)' \subseteq Held(x)
        BY <2>1, <2>2, <2>4 DEF Held, Open
      <4>2. wire'[x] = wire[x]
        BY <1>0, <2>4, <3>4
      <4> QED
        BY <2>1, <4>1, <4>2, SameConversation
    <3>5. \A x \in Clients :
            Faithful(requests[x], todo[x], wire[x], applied[x], Held(x))'
      BY <3>3, <3>4
    <3> QED
      BY <1>0, <2>1, <3>5 DEF Conversations
  <2> QED
    BY <1>5, <2>d, <2>c, <2>3, <2>4 DEF Accept
<1>6. CASE RecvData
  <2>c. PICK c : c = conn[cur]
    OBVIOUS
  <2>n. PICK n : n = Smaller(Len(wire[c]), BUFFER_SIZE)
    OBVIOUS
  <2>x. PICK x : x = clients[cur] \o AsCString(SubSeq(wire[c], 1, n))
    OBVIOUS
  <2>1. /\ cur \in Open /\ c \in Clients
        /\ wire' = [wire EXCEPT ![c] = SubSeq(wire[c], n + 1, Len(wire[c]))]
        /\ clients' = [clients EXCEPT ![cur] = x]
        /\ UNCHANGED <<requests, todo, applied, peer, backlog, conn>>
    BY <1>0, <1>6, <2>c, <2>n, <2>x DEF RecvData, InHandler, clientVars, cacheVars
  <2>2. n \in 0..Len(wire[c])
    <3>1. Len(wire[c]) \in Nat /\ BUFFER_SIZE \in Nat
      BY <1>0, <2>1
    <3> QED
      BY <2>n, <3>1 DEF Smaller
  <2>3. Held(c)' = {x} /\ \A b \in Clients : b # c => Held(b)' = Held(b)
    BY <2>c, <2>1, HandledBuffer
  <2>4. clients[cur] \in Held(c)
    BY <2>c, <2>1, HeldOpen
  <2>5. Faithful(requests[c], todo[c], SubSeq(wire[c], n + 1, Len(wire[c])), applied[c], {x})
    <3>1. Faithful(requests[c], todo[c], wire[c], applied[c], Held(c))
      BY <2>1 DEF Conversations
    <3> QED
      BY <2>2, <2>4, <2>x, <3>1, FaithfulReceive
  <2>6. wire'[c] = SubSeq(wire[c], n + 1, Len(wire[c]))
        /\ \A b \in Clients : b # c => wire'[b] = wire[b]
    BY <1>0, <2>1
  <2>7. Faithful(requests[c], todo[c], wire[c], applied[c], Held(c))'
    BY <2>1, <2>3, <2>5, <2>6
  <2>8. ASSUME NEW b \in Clients, b # c
        PROVE  Faithful(requests[b], todo[b], wire[b], applied[b], Held(b))'
    BY <2>1, <2>3, <2>6, <2>8, SameConversation
  <2>9. \A b \in Clients :
          Faithful(requests[b], todo[b], wire[b], applied[b], Held(b))'
    BY <2>7, <2>8
  <2> QED
    BY <1>0, <2>1, <2>9 DEF Conversations
<1>7. CASE Process
  <2>c. PICK c : c = conn[cur]
    OBVIOUS
  <2>b. PICK b : b = clients[cur]
    OBVIOUS
  <2>n. PICK n : n = FirstMessage(b)
    OBVIOUS
  <2>x. PICK x : x = SubSeq(b, n + 1, Len(b))
    OBVIOUS
  <2>0. cur \in Open /\ c \in Clients /\ b \in Seq(Pieces) /\ n # 0
    BY <1>0, <1>7, <2>c, <2>b, <2>n
    DEF Process, InHandler, Attention, MessagesHandled, Buffers
  <2>1. /\ clients' = [clients EXCEPT ![cur] = x]
        /\ UNCHANGED <<requests, todo, wire, peer, backlog, conn>>
    BY <1>7, <2>b, <2>n, <2>x DEF Process, clientVars, netVars
  <2>2. applied' = [applied EXCEPT ![c] = Append(applied[c], b[n].id)]
    <3>1. n \in 1..Len(b)
      BY <2>0, <2>n, FirstMessageEnds
    <3>2. SubSeq(b, 1, n)[n] = b[n]
      BY <2>0, <3>1
    <3>3. applied' = [applied EXCEPT ![c] = Append(applied[c], SubSeq(b, 1, n)[n].id)]
      BY <1>7, <2>c, <2>b, <2>n DEF Process
    <3> QED
      BY <3>2, <3>3
  <2>3. Held(c)' = {x} /\ \A y \in Clients : y # c => Held(y)' = Held(y)
    BY <2>c, <2>0, <2>1, HandledBuffer
  <2>4. b \in Held(c)
    BY <2>c, <2>b, <2>0, HeldOpen, Zenon
  <2>5. Faithful(requests[c], todo[c], wire[c], Append(applied[c], b[n].id), {x})
    <3>1. Faithful(requests[c], todo[c], wire[c], applied[c], Held(c))
      BY <2>0 DEF Conversations
    <3> QED
      BY <2>0, <2>4, <2>n, <2>x, <3>1, FaithfulExecute
  <2>6. applied'[c] = Append(applied[c], b[n].id)
        /\ \A y \in Clients : y # c => applied'[y] = applied[y]
    BY <1>0, <2>0, <2>2
  <2>7. Faithful(requests[c], todo[c], wire[c], applied[c], Held(c))'
    BY <2>1, <2>3, <2>5, <2>6
  <2>8. ASSUME NEW y \in Clients, y # c
        PROVE  Faithful(requests[y], todo[y], wire[y], applied[y], Held(y))'
    BY <2>1, <2>3, <2>6, <2>8, SameConversation
  <2>9. \A y \in Clients :
          Faithful(requests[y], todo[y], wire[y], applied[y], Held(y))'
    BY <2>7, <2>8
  <2>10. applied' \in [Clients -> Seq(Nat)]
    <3>1. PICK start : Conversation(requests[c], todo[c], wire[c],
                                    Append(applied[c], b[n].id), start)
      BY <2>5 DEF Faithful
    <3>2. Append(applied[c], b[n].id) \in Seq(Nat)
      BY <3>1 DEF Conversation
    <3> QED
      BY <1>0, <2>0, <2>2, <3>2
  <2> QED
    BY <2>9, <2>10 DEF Conversations
<1>8. CASE RecvEnds \/ SendFails
  <2>1. /\ UNCHANGED <<requests, todo, applied, backlog, peer>>
        /\ cur \in Open /\ CloseAll({cur})
    BY <1>0, <1>8
    DEF RecvEnds, SendFails, handle_client_disconnect, clientVars, cacheVars, InHandler
  <2> QED
    BY <2>1, ClosedConversations DEF Pending
<1>9. CASE SendUnheard
  <2>1. /\ UNCHANGED <<requests, todo, wire, applied, conn, backlog, clients>>
        /\ \E p \in {"closed", "reset"} : peer' = [peer EXCEPT ![conn[cur]] = p]
    BY <1>9 DEF SendUnheard
  <2>2. \A c \in Clients : peer'[c] = "new" => peer[c] = "new"
    BY <1>0, <2>1
  <2>3. \A c \in Clients : Held(c)' \subseteq Held(c)
    BY <2>1, <2>2 DEF Held, Open, Pending
  <2> QED
    BY <2>1, <2>3, SameConversations
<1>10. ASSUME NEW c \in Clients, Connect(c)
       PROVE  Conversations'
  <2>1. /\ UNCHANGED <<requests, todo, wire, applied, conn, clients>> /\ peer[c] = "new"
        /\ backlog' = Append(backlog, c) /\ peer' = [peer EXCEPT ![c] = "up"]
    BY <1>10 DEF Connect, serverVars, cacheVars
  <2>2. \A x \in Clients : x \in Pending' => x \in Pending \/ peer[x] = "new"
    <3>1. \A i \in DOMAIN backlog' : \/ i \in DOMAIN backlog /\ backlog'[i] = backlog[i]
                                    \/ backlog'[i] = c
      <4>1. backlog \in Seq(Clients) /\ backlog' = Append(backlog, c)
        BY <1>0, <2>1
      <4>2. /\ DOMAIN backlog' = 1..(Len(backlog) + 1) /\ DOMAIN backlog = 1..Len(backlog)
            /\ Len(backlog) \in Nat
            /\ \A i \in 1..Len(backlog) : backlog'[i] = backlog[i]
            /\ backlog'[Len(backlog) + 1] = c
        BY <4>1, AppendProperties
      <4>3. \A i \in 1..(Len(backlog) + 1) : i \in 1..Len(backlog) \/ i = Len(backlog) + 1
        BY <4>2
      <4> QED
        BY <4>2, <4>3
    <3> QED
      BY <2>1, <3>1 DEF Pending
  <2>3. \A x \in Clients : peer'[x] = "new" => peer[x] = "new"
    BY <1>0, <2>1
  <2>4. \A x \in Clients : Held(x)' \subseteq Held(x)
    BY <2>1, <2>2, <2>3 DEF Held, Open
  <2> QED
    BY <2>1, <2>4, SameConversations
<1>11. ASSUME NEW c \in Clients, Close(c)
       PROVE  Conversations'
  <2>1. /\ UNCHANGED <<requests, todo, wire, applied, conn, backlog, clients>>
        /\ \E p \in {"closed", "reset"} : peer' = [peer EXCEPT ![c] = p]
    BY <1>11 DEF Close, serverVars, cacheVars
  <2>2. \A x \in Clients : peer'[x] = "new" => peer[x] = "new"
    BY <1>0, <2>1
  <2>3. \A x \in Clients : Held(x)' \subseteq Held(x)
    BY <2>1, <2>2 DEF Held, Open, Pending
  <2> QED
    BY <2>1, <2>3, SameConversations
<1>12. ASSUME NEW c \in Clients, Read(c)
       PROVE  Conversations'
  BY <1>1, <1>12 DEF Read, clientVars, serverVars, cacheVars
<1>13. ASSUME NEW c \in Clients, Write(c)
       PROVE  Conversations'
  <2>1. PICK cmd \in Commands :
         LET begins == todo[c] = <<>>
             rest   == IF begins THEN cmd.pieces ELSE todo[c]
             known  == IF begins THEN Append(requests[c], cmd) ELSE requests[c]
         IN  /\ requests' = [requests EXCEPT ![c] = known]
             /\ todo' = [todo EXCEPT ![c] = Tail(rest)]
             /\ wire' = [wire EXCEPT ![c] = Append(wire[c], Piece(Len(known), Head(rest)))]
    BY <1>13 DEF Write
  <2>r. PICK rest : rest = IF todo[c] = <<>> THEN cmd.pieces ELSE todo[c]
    OBVIOUS
  <2>k. PICK known : known = IF todo[c] = <<>> THEN Append(requests[c], cmd) ELSE requests[c]
    OBVIOUS
  <2>w. PICK w : w = Append(wire[c], Piece(Len(known), Head(rest)))
    OBVIOUS
  <2>2. /\ requests' = [requests EXCEPT ![c] = known]
        /\ todo' = [todo EXCEPT ![c] = Tail(rest)]
        /\ wire' = [wire EXCEPT ![c] = w]
    BY <2>1, <2>r, <2>k, <2>w
  <2>3. UNCHANGED <<applied, conn, backlog, peer, clients>>
    BY <1>13 DEF Write, serverVars, cacheVars
  <2>4. \A x \in Clients : Held(x)' = Held(x)
    BY <2>3 DEF Held, Open, Pending
  <2>5. Faithful(known, Tail(rest), w, applied[c], Held(c))
    <3>1. Faithful(requests[c], todo[c], wire[c], applied[c], Held(c))
      BY DEF Conversations
    <3>2. CASE todo[c] = <<>>
      BY <2>r, <2>k, <2>w, <3>1, <3>2, FaithfulBegin
    <3>3. CASE todo[c] # <<>>
      BY <2>r, <2>k, <2>w, <3>1, <3>3, FaithfulContinue
    <3> QED
      BY <3>2, <3>3
  <2>6. /\ requests'[c] = known /\ todo'[c] = Tail(rest) /\ wire'[c] = w
        /\ \A x \in Clients : x # c => /\ requests'[x] = requests[x]
                                       /\ todo'[x] = todo[x] /\ wire'[x] = wire[x]
    BY <1>0, <2>2
  <2>7. Faithful(requests[c], todo[c], wire[c], applied[c], Held(c))'
    BY <2>3, <2>4, <2>5, <2>6
  <2>8. ASSUME NEW x \in Clients, x # c
        PROVE  Faithful(requests[x], todo[x], wire[x], applied[x], Held(x))'
    BY <2>3, <2>4, <2>6, <2>8, SameConversation
  <2>9. \A x \in Clients :
          Faithful(requests[x], todo[x], wire[x], applied[x], Held(x))'
    BY <2>7, <2>8
  <2> QED
    BY <1>0, <2>3, <2>9 DEF Conversations
<1>14. CASE signal_handler \/ EpollWaitFails
  <2>1. /\ UNCHANGED <<requests, todo, applied, peer>> /\ backlog' = <<>> /\ CloseAll(Open)
    BY <1>0, <1>14 DEF signal_handler, EpollWaitFails, stop, clientVars, cacheVars
  <2>2. Pending' \subseteq Pending
    BY <2>1 DEF Pending
  <2> QED
    BY <2>1, <2>2, ClosedConversations
<1>15. CASE UNCHANGED vars
  BY <1>1, <1>15, SMTT(30) DEF vars, clientVars, netVars, serverVars, cacheVars
<1> QED
  BY <1>2, <1>3, <1>4, <1>5, <1>6, <1>7, <1>8, <1>9, <1>10, <1>11,
     <1>12, <1>13, <1>14, <1>15
  DEF Next, Server, Environment, Stopped
\* What the handler makes of the first message of its buffer is a command, and
\* if no request has a zero byte it is the next request not executed yet.
LEMMA ParsedCommand ==
    ASSUME Connections, Buffers, Attention, Conversations, pc = "process",
           NEW c, c = conn[cur], NEW b, b = clients[cur],
           NEW n, n = FirstMessage(b), NEW m, m = SubSeq(b, 1, n)
    PROVE  /\ Parses(m, c) \subseteq Commands
           /\ m[n].id \in 1..Len(requests[c])
           /\ Intact(c) => \A cmd \in Parses(m, c) : cmd = requests[c][m[n].id]
<1>0. cur \in Open /\ c \in Clients /\ b \in Seq(Pieces) /\ n # 0
  BY DEF Connections, ConnectionTypes, NoUseAfterClose, InHandler, Open,
         Attention, MessagesHandled, Buffers
<1>1. b \in Held(c)
  BY <1>0, HeldOpen
<1>2. PICK rs : rs = requests[c]
  OBVIOUS
<1>3. Faithful(rs, todo[c], wire[c], applied[c], Held(c))
  BY <1>0, <1>2 DEF Conversations
<1>4. PICK start, g :
        /\ Conversation(rs, todo[c], wire[c], applied[c], start)
        /\ Buffered(rs, applied[c], start, Received(rs, todo[c], wire[c], start), b, g)
  BY <1>1, <1>3 DEF Faithful
<1>5. PICK j : j = Len(applied[c]) + 1
  OBVIOUS
<1>6. /\ n \in 1..Len(b)
      /\ \A i \in 1..n : b[i].id \in 1..Len(rs)
      /\ Whole(rs) => b[1].part = "text" /\ \A i \in 1..n : b[i].id = j
  BY <1>0, <1>4, <1>5, NextMessage
<1>7. rs \in Seq(Commands)
  BY <1>4 DEF Conversation
<1>8. /\ DOMAIN m = 1..n /\ \A i \in 1..n : m[i] = b[i]
      /\ 1 \in 1..n /\ n \in 1..n
  BY <1>0, <1>6
<1> DEFINE texts == {i \in DOMAIN m : m[i].part = "text"}
           said == {rs[m[i].id] : i \in texts}
<1>9. said \subseteq Commands
  <2>0. \A i \in 1..n : m[i].id \in 1..Len(rs)
    BY <1>6, <1>8
  <2>1. \A i \in texts : m[i].id \in 1..Len(rs)
    BY <1>8, <2>0
  <2>2. \A i \in 1..Len(rs) : rs[i] \in Commands
    BY <1>7
  <2> HIDE DEF texts
  <2> QED
    BY <2>1, <2>2, Zenon
<1>10. Parses(m, c) = IF Cardinality(said) = 1 /\ \A cmd \in said : ~ HasZero(cmd)
                      THEN said ELSE Commands
  BY <1>2 DEF Parses
<1>11. m[n].id \in 1..Len(rs)
  BY <1>6, <1>8
<1>12. ASSUME Whole(rs)
       PROVE  Parses(m, c) = {rs[m[n].id]}
  <2>1. \A i \in 1..n : m[i].id = j
    BY <1>6, <1>8, <1>12
  <2>2. 1 \in texts
    BY <1>6, <1>8, <1>12
  <2>3. said = {rs[j]}
    <3>1. \A i \in texts : m[i].id = j
      BY <1>8, <2>1
    <3> HIDE DEF texts
    <3> QED
      BY <2>2, <3>1
  <2>4. Cardinality({rs[j]}) = 1
    BY FS_Singleton
  <2>5. ~ HasZero(rs[j])
    <3>1. j \in DOMAIN rs
      BY <1>7, <1>8, <1>11, <2>1
    <3> QED
      BY <1>12, <3>1 DEF Whole
  <2>6. m[n].id = j
    BY <1>8, <2>1
  <2> HIDE DEF said
  <2> QED
    BY <1>10, <2>3, <2>4, <2>5, <2>6
<1>13. Intact(c) = Whole(rs)
  BY <1>2 DEF Intact, Whole
<1>14. Parses(m, c) \subseteq Commands
  <2> HIDE DEF said
  <2> QED
    BY <1>9, <1>10
<1> HIDE DEF texts, said
<1>15. Intact(c) => \A cmd \in Parses(m, c) : cmd = rs[m[n].id]
  BY <1>12, <1>13
<1> QED
  BY <1>2, <1>11, <1>14, <1>15
----------------------------------------------------------------------------
(* Who wrote an entry.                                                     *)

\* The writer of an entry has connected and was accepted, and while it is
\* connected the entry carries its descriptor.
Ownership ==
    /\ DOMAIN store \subseteq Keys
    /\ author \in [Keys -> Clients \cup {NoClient}]
    /\ \A k \in DOMAIN store :
         /\ author[k] \in Clients
         /\ \A d \in Open : conn[d] = author[k] => store[k].client_id = d
    /\ \A k \in Keys : author[k] \in Clients =>
         author[k] \notin Pending /\ peer[author[k]] # "new"

Results == {"SUCCESS", "KEY_EXISTS", "NO_SPACE", "KEY_NOT_FOUND", "CLIENT_MISMATCH"}

\* The answer says that something was written exactly if an ADD or UPDATE
\* succeeded.
LEMMA WriteAnswers ==
    ASSUME NEW t \in {"ADD", "UPDATE", "GET", "DELETE"}, NEW r \in Results
    PROVE  ResponseTo(t, r) \in {"OK_ADDED", "OK_UPDATED"}
               <=> t \in {"ADD", "UPDATE"} /\ r = "SUCCESS"
<1>1. CASE t = "ADD"
  BY <1>1 DEF ResponseTo, Responses, Results
<1>2. CASE t = "UPDATE"
  BY <1>2 DEF ResponseTo, Responses, Results
<1>3. CASE t = "GET"
  BY <1>3 DEF ResponseTo, Responses, Results
<1>4. CASE t = "DELETE"
  BY <1>4 DEF ResponseTo, Responses, Results
<1> QED
  BY <1>1, <1>2, <1>3, <1>4

\* What a command does to the map: it drops entries, and an ADD or UPDATE that
\* succeeds binds its key to an entry of the client; the other commands succeed
\* on an entry of the client only.
LEMMA CommandEffect ==
    ASSUME NEW cmd \in Commands, NEW id, NEW text, process_command(cmd, id, text)
    PROVE  /\ text \notin {"OK_ADDED", "OK_UPDATED"} =>
                /\ DOMAIN store' \subseteq DOMAIN store
                /\ \A k \in DOMAIN store' : store'[k] = store[k]
           /\ text \in {"OK_ADDED", "OK_UPDATED"} =>
                /\ DOMAIN store' \subseteq DOMAIN store \cup {cmd.key}
                /\ \A k \in DOMAIN store' :
                     IF k = cmd.key THEN store'[k].client_id = id
                     ELSE store'[k] = store[k]
           /\ reply' # reply /\ reply'.op # "add_key" /\ reply'.result = "SUCCESS" =>
                /\ reply'.key \in DOMAIN store
                /\ store[reply'.key].client_id = id
<1> DEFINE k == cmd.key
           v == cmd.value
<1>a. /\ "ERROR_INVALID_COMMAND" \notin {"OK_ADDED", "OK_UPDATED"}
      /\ \A t \in {"ADD", "UPDATE", "GET", "DELETE"}, r \in Results :
           ResponseTo(t, r) \in {"OK_ADDED", "OK_UPDATED"}
               <=> t \in {"ADD", "UPDATE"} /\ r = "SUCCESS"
  BY WriteAnswers
<1>b. "SUCCESS" \in Results /\ "KEY_EXISTS" \in Results /\ "NO_SPACE" \in Results
      /\ "KEY_NOT_FOUND" \in Results /\ "CLIENT_MISMATCH" \in Results
  BY DEF Results
<1> DEFINE Dropped == /\ DOMAIN store' \subseteq DOMAIN store
                      /\ \A j \in DOMAIN store' : store'[j] = store[j]
           Bound == /\ DOMAIN store' \subseteq DOMAIN store \cup {k}
                    /\ \A j \in DOMAIN store' :
                         IF j = k THEN store'[j].client_id = id
                         ELSE store'[j] = store[j]
<1>c. ASSUME NEW K \in SUBSET DOMAIN store, store' = Cache!Restrict(store, K)
      PROVE  Dropped
  BY <1>c DEF Cache!Restrict
<1>d. ASSUME NEW K \in SUBSET DOMAIN store,
             store' = Cache!Put(Cache!Restrict(store, K), k, Cache!Entry(v, id))
      PROVE  Bound
  BY <1>d DEF Cache!Restrict, Cache!Put, Cache!Entry
<1>e. \A S : S \in Cache!Survivors(id) => S \in SUBSET DOMAIN store
  BY DEF Cache!Survivors
<1>f. ASSUME UNCHANGED store
      PROVE  Dropped
  BY <1>f
<1> HIDE DEF Dropped, Bound
<1>1. CASE /\ cmd.type = "INVALID" /\ text = "ERROR_INVALID_COMMAND"
           /\ UNCHANGED <<store, reply>>
  BY <1>1, <1>a, <1>f DEF Dropped, Bound
<1>2. CASE /\ cmd.type = "ADD" /\ Cache!Add(k, v, id)
           /\ text = ResponseTo("ADD", reply'.result)
  <2>1. \/ reply'.result \in Results \ {"SUCCESS"} /\ Dropped
        \/ reply'.result = "SUCCESS" /\ Bound
    BY <1>2, <1>b, <1>c, <1>d, <1>e, <1>f DEF Cache!Add, Cache!Answer
  <2>2. reply'.op = "add_key"
    BY <1>2 DEF Cache!Add, Cache!Answer
  <2> QED
    BY <1>2, <1>a, <1>b, <2>1, <2>2 DEF Dropped, Bound
<1>3. CASE /\ cmd.type = "UPDATE" /\ Cache!Update(k, v, id)
           /\ text = ResponseTo("UPDATE", reply'.result)
  <2>1. \/ reply'.result \in Results \ {"SUCCESS"} /\ Dropped
        \/ reply'.result = "SUCCESS" /\ Bound /\ reply'.key = k /\ k \in Cache!OwnKeys(id)
    BY <1>3, <1>b, <1>c, <1>d, <1>e, <1>f DEF Cache!Update, Cache!Refused, Cache!Answer
  <2> QED
    BY <1>3, <1>a, <1>b, <2>1 DEF Dropped, Bound, Cache!OwnKeys
<1>4. CASE /\ cmd.type = "GET" /\ Cache!Get(k, id)
           /\ text = ResponseTo("GET", reply'.result)
  <2>1. /\ reply'.result \in Results /\ Dropped
        /\ reply'.result = "SUCCESS" => reply'.key = k /\ k \in Cache!OwnKeys(id)
    BY <1>4, <1>b, <1>f DEF Cache!Get, Cache!Refused, Cache!Answer
  <2> QED
    BY <1>4, <1>a, <1>b, <2>1 DEF Dropped, Bound, Cache!OwnKeys
<1>5. CASE /\ cmd.type = "DELETE" /\ Cache!Delete(k, id)
           /\ text = ResponseTo("DELETE", reply'.result)
  <2>1. /\ reply'.result \in Results /\ Dropped
        /\ reply'.result = "SUCCESS" => reply'.key = k /\ k \in Cache!OwnKeys(id)
    BY <1>5, <1>b, <1>c, <1>f DEF Cache!Delete, Cache!Refused, Cache!Answer
  <2> QED
    BY <1>5, <1>a, <1>b, <2>1 DEF Dropped, Bound, Cache!OwnKeys
<1> QED
  BY <1>1, <1>2, <1>3, <1>4, <1>5 DEF process_command

\* The answer is the error of format exactly for an invalid command: no other
\* result of the cache meets a default branch.
LEMMA AnswerText ==
    ASSUME NEW cmd \in Commands, NEW id, NEW text, process_command(cmd, id, text)
    PROVE  text = "ERROR_INVALID_COMMAND" <=> cmd.type = "INVALID"
<1> DEFINE k == cmd.key
           v == cmd.value
<1>1. CASE cmd.type = "INVALID" /\ text = "ERROR_INVALID_COMMAND"
  BY <1>1
<1>2. CASE /\ cmd.type = "ADD" /\ Cache!Add(k, v, id)
           /\ text = ResponseTo("ADD", reply'.result)
  <2>1. reply'.result \in {"SUCCESS", "KEY_EXISTS", "NO_SPACE"}
    BY <1>2 DEF Cache!Add, Cache!Answer
  <2> QED
    BY <1>2, <2>1 DEF ResponseTo, Responses
<1>3. CASE /\ cmd.type = "UPDATE" /\ Cache!Update(k, v, id)
           /\ text = ResponseTo("UPDATE", reply'.result)
  <2>1. reply'.result \in {"SUCCESS", "KEY_NOT_FOUND", "CLIENT_MISMATCH", "NO_SPACE"}
    BY <1>3 DEF Cache!Update, Cache!Refused, Cache!Answer
  <2> QED
    BY <1>3, <2>1 DEF ResponseTo, Responses
<1>4. CASE /\ cmd.type = "GET" /\ Cache!Get(k, id)
           /\ text = ResponseTo("GET", reply'.result)
  <2>1. reply'.result \in {"SUCCESS", "KEY_NOT_FOUND", "CLIENT_MISMATCH"}
    BY <1>4 DEF Cache!Get, Cache!Refused, Cache!Answer
  <2> QED
    BY <1>4, <2>1 DEF ResponseTo, Responses
<1>5. CASE /\ cmd.type = "DELETE" /\ Cache!Delete(k, id)
           /\ text = ResponseTo("DELETE", reply'.result)
  <2>1. reply'.result \in {"SUCCESS", "KEY_NOT_FOUND", "CLIENT_MISMATCH"}
    BY <1>5 DEF Cache!Delete, Cache!Refused, Cache!Answer
  <2> QED
    BY <1>5, <2>1 DEF ResponseTo, Responses
<1> QED
  BY <1>1, <1>2, <1>3, <1>4, <1>5 DEF process_command

\* Initially nothing is written.
LEMMA OwnershipInit == Init => Ownership
<1> SUFFICES ASSUME Init
             PROVE  Ownership
  OBVIOUS
<1>1. DOMAIN store = {} /\ author = [k \in Keys |-> NoClient]
  BY DEF Init, Cache!Init
<1> QED
  BY <1>1, Bounds DEF Ownership

\* Steps of a client, and steps that only close connections.
LEMMA SameOwnership ==
    ASSUME Ownership, UNCHANGED <<store, author>>,
           \A d \in Open' : d \in Open /\ conn'[d] = conn[d],
           \A c \in Clients : c \in Pending' => c \in Pending \/ peer[c] = "new",
           \A c \in Clients : peer'[c] = "new" => peer[c] = "new"
    PROVE  Ownership'
BY DEF Ownership

\* Every step keeps the invariant on the writers of the entries.
LEMMA OwnershipNext ==
    ASSUME Connections, Buffers, Attention, Conversations, Ownership, [Next]_vars
    PROVE  Ownership'
<1> USE Bounds
<1>0. /\ conn \in [Descriptors -> Clients \cup {NoClient}]
      /\ DOMAIN clients = Open /\ backlog \in Seq(Clients)
      /\ peer \in [Clients -> {"new", "up", "closed", "reset"}]
      /\ \A d, e \in Open : conn[d] = conn[e] => d = e
      /\ \A d \in Open : conn[d] \in Clients /\ peer[conn[d]] # "new"
      /\ InHandler => cur \in Open
  BY DEF Connections, ConnectionTypes, NoUseAfterClose, OneConnection, Open
<1>1. CASE UNCHANGED <<store, author, conn, backlog, peer>>
  BY <1>1, SameOwnership DEF Open, Pending
<1>2. CASE Start \/ EpollWait \/ AcceptEnds \/ RecvWouldBlock
  BY <1>1, <1>2
  DEF Start, EpollWait, AcceptEnds, RecvWouldBlock, clientVars, netVars, cacheVars
<1>3. CASE Dispatch
  BY <1>1, <1>3 DEF Dispatch, clientVars, netVars, cacheVars
<1>4. CASE RecvData
  BY <1>1, <1>4 DEF RecvData, clientVars, cacheVars
<1>5. CASE SendData
  BY <1>1, <1>5 DEF SendData, clientVars
<1>6. CASE SendUnheard
  <2>1. /\ UNCHANGED <<store, author, conn, backlog>>
        /\ \E p \in {"closed", "reset"} : peer' = [peer EXCEPT ![conn[cur]] = p]
    BY <1>6 DEF SendUnheard
  <2>2. \A c \in Clients : peer'[c] = "new" => peer[c] = "new"
    BY <1>0, <2>1
  <2> QED
    BY <2>1, <2>2, SameOwnership DEF Open, Pending
<1>7. CASE RecvEnds \/ SendFails
  <2>1. /\ UNCHANGED <<store, author, backlog, peer>>
        /\ cur \in Open /\ CloseAll({cur})
    BY <1>0, <1>7
    DEF RecvEnds, SendFails, handle_client_disconnect, clientVars, cacheVars, InHandler
  <2>2. \A d \in Open' : d \in Open /\ conn'[d] = conn[d]
    BY <2>1, ClosedConnections
  <2> QED
    BY <2>1, <2>2, SameOwnership DEF Pending
<1>8. CASE Accept
  <2>d. PICK d : d = Least(Descriptors \ Open)
    OBVIOUS
  <2>c. PICK c : c = Head(backlog)
    OBVIOUS
  <2>1. /\ UNCHANGED <<store, author, peer>> /\ backlog # <<>>
        /\ backlog' = Tail(backlog)
    BY <1>8 DEF Accept, clientVars, cacheVars
  <2>2. c \in Pending /\ Pending' \subseteq Pending
    <3>1. c = backlog[1] /\ 1 \in DOMAIN backlog
      BY <1>0, <2>c, <2>1
    <3>2. \A i \in DOMAIN backlog' : i + 1 \in DOMAIN backlog /\ backlog'[i] = backlog[i + 1]
      BY <1>0, <2>1
    <3> QED
      BY <3>1, <3>2 DEF Pending
  <2>3. CASE conn' = [conn EXCEPT ![d] = c]
    <3>1. \A e \in Open' : (e \in Open /\ conn'[e] = conn[e]) \/ conn'[e] = c
      BY <1>0, <2>3 DEF Open
    <3>2. \A k \in DOMAIN store : author[k] # c
      BY <2>2 DEF Ownership
    <3>3. \A k \in DOMAIN store : \A e \in Open' :
             conn'[e] = author[k] => store[k].client_id = e
      BY <3>1, <3>2 DEF Ownership
    <3> QED
      BY <2>1, <2>2, <3>3 DEF Ownership
  <2>4. CASE UNCHANGED conn
    BY <2>1, <2>2, <2>4, SameOwnership DEF Open
  <2> QED
    BY <1>8, <2>d, <2>c, <2>3, <2>4 DEF Accept
<1>9. CASE Process
  <2> DEFINE c == conn[cur]
             n == FirstMessage(clients[cur])
             m == SubSeq(clients[cur], 1, n)
  <2>1. PICK cmd \in Parses(m, c), text \in Texts :
          /\ process_command(cmd, client_id(cur), text)
          /\ author' = IF text \in {"OK_ADDED", "OK_UPDATED"}
                       THEN [author EXCEPT ![cmd.key] = c] ELSE author
    BY <1>9 DEF Process
  <2>2. /\ UNCHANGED <<conn, backlog, peer>> /\ cur \in Open /\ c \in Clients
        /\ Open' = Open /\ Pending' = Pending
    <3>1. UNCHANGED <<conn, backlog, peer>> /\ pc = "process"
      BY <1>9 DEF Process, clientVars, netVars
    <3>2. cur \in Open /\ c \in Clients
      BY <1>0, <3>1 DEF InHandler
    <3> QED
      BY <3>1, <3>2 DEF Open, Pending
  <2>3. c \notin Pending /\ peer[c] # "new"
    BY <1>0, <2>2 DEF Connections, OneConnection, Pending, Served
  <2>4. cmd \in Commands /\ cmd.key \in Keys /\ client_id(cur) = cur
    <3>1. pc = "process"
      BY <1>9 DEF Process
    <3>2. Parses(m, c) \subseteq Commands
      BY <3>1, ParsedCommand
    <3> QED
      BY <2>1, <3>2, CommandShape DEF client_id
  <2>5. CASE text \notin {"OK_ADDED", "OK_UPDATED"}
    <3>1. /\ DOMAIN store' \subseteq DOMAIN store
          /\ \A k \in DOMAIN store' : store'[k] = store[k]
          /\ author' = author
      BY <2>1, <2>4, <2>5, CommandEffect
    <3> QED
      BY <2>2, <3>1 DEF Ownership
  <2>6. CASE text \in {"OK_ADDED", "OK_UPDATED"}
    <3>1. /\ DOMAIN store' \subseteq DOMAIN store \cup {cmd.key}
          /\ \A k \in DOMAIN store' :
               IF k = cmd.key THEN store'[k].client_id = cur
               ELSE store'[k] = store[k]
      BY <2>1, <2>4, <2>6, CommandEffect
    <3>2. /\ author' \in [Keys -> Clients \cup {NoClient}]
          /\ \A k \in Keys : author'[k] = IF k = cmd.key THEN c ELSE author[k]
      BY <2>1, <2>2, <2>4, <2>6 DEF Ownership
    <3>3. \A k \in DOMAIN store' :
            /\ author'[k] \in Clients
            /\ \A d \in Open : conn[d] = author'[k] => store'[k].client_id = d
      <4> SUFFICES ASSUME NEW k \in DOMAIN store'
                   PROVE  /\ author'[k] \in Clients
                          /\ \A d \in Open : conn[d] = author'[k] => store'[k].client_id = d
        OBVIOUS
      <4>1. k \in Keys
        BY <2>4, <3>1 DEF Ownership
      <4>2. CASE k = cmd.key
        BY <1>0, <2>2, <3>1, <3>2, <4>1, <4>2
      <4>3. CASE k # cmd.key
        BY <3>1, <3>2, <4>1, <4>3 DEF Ownership
      <4> QED
        BY <4>2, <4>3
    <3>4. DOMAIN store' \subseteq Keys
      BY <2>4, <3>1 DEF Ownership
    <3> QED
      BY <2>2, <2>3, <3>2, <3>3, <3>4 DEF Ownership
  <2> QED
    BY <2>5, <2>6
<1>10. ASSUME NEW c \in Clients, Connect(c)
       PROVE  Ownership'
  <2>1. /\ UNCHANGED <<store, author, conn>> /\ peer[c] = "new"
        /\ backlog' = Append(backlog, c) /\ peer' = [peer EXCEPT ![c] = "up"]
    BY <1>10 DEF Connect, serverVars, cacheVars
  <2>2. \A x \in Clients : x \in Pending' => x \in Pending \/ peer[x] = "new"
    <3>1. \A i \in DOMAIN backlog' : \/ i \in DOMAIN backlog /\ backlog'[i] = backlog[i]
                                    \/ backlog'[i] = c
      <4>1. backlog \in Seq(Clients) /\ backlog' = Append(backlog, c)
        BY <1>0, <2>1
      <4>2. /\ DOMAIN backlog' = 1..(Len(backlog) + 1) /\ DOMAIN backlog = 1..Len(backlog)
            /\ Len(backlog) \in Nat
            /\ \A i \in 1..Len(backlog) : backlog'[i] = backlog[i]
            /\ backlog'[Len(backlog) + 1] = c
        BY <4>1, AppendProperties
      <4>3. \A i \in 1..(Len(backlog) + 1) : i \in 1..Len(backlog) \/ i = Len(backlog) + 1
        BY <4>2
      <4> QED
        BY <4>2, <4>3
    <3> QED
      BY <2>1, <3>1 DEF Pending
  <2>3. \A x \in Clients : peer'[x] = "new" => peer[x] = "new"
    BY <1>0, <2>1
  <2> QED
    BY <2>1, <2>2, <2>3, SameOwnership DEF Open
<1>11. ASSUME NEW c \in Clients, Write(c) \/ Read(c)
       PROVE  Ownership'
  BY <1>1, <1>11 DEF Write, Read, clientVars, serverVars, cacheVars
<1>12. ASSUME NEW c \in Clients, Close(c)
       PROVE  Ownership'
  <2>1. /\ UNCHANGED <<store, author, conn, backlog>>
        /\ \E p \in {"closed", "reset"} : peer' = [peer EXCEPT ![c] = p]
    BY <1>12 DEF Close, serverVars, cacheVars
  <2>2. \A x \in Clients : peer'[x] = "new" => peer[x] = "new"
    BY <1>0, <2>1
  <2> QED
    BY <2>1, <2>2, SameOwnership DEF Open, Pending
<1>13. CASE signal_handler \/ EpollWaitFails
  <2>1. /\ UNCHANGED <<store, author, peer>> /\ backlog' = <<>> /\ CloseAll(Open)
    BY <1>0, <1>13 DEF signal_handler, EpollWaitFails, stop, clientVars, cacheVars
  <2>2. Open' = {}
    BY <2>1, ClosedConnections
  <2>3. Pending' = {}
    BY <2>1 DEF Pending
  <2> QED
    BY <2>1, <2>2, <2>3, SameOwnership
<1>14. CASE UNCHANGED vars
  BY <1>1, <1>14 DEF vars, clientVars, netVars, serverVars, cacheVars
<1> QED
  BY <1>2, <1>3, <1>4, <1>5, <1>6, <1>7, <1>8, <1>9, <1>10, <1>11,
     <1>12, <1>13, <1>14
  DEF Next, Server, Environment, Stopped
----------------------------------------------------------------------------
(* The answers.                                                            *)

Units == [id : Nat, text : Texts, unit : Nat]

\* If no request has a zero byte, the answer u is the error of format exactly if
\* it answers an invalid request.
TextFits(rs, u) ==
    Whole(rs) => (u.text = "ERROR_INVALID_COMMAND" <=> rs[u.id].type = "INVALID")

\* Unit number i of what the client with the requests rs, executed in the order
\* ap, is sent is u.
UnitOf(rs, ap, i, u) ==
    \E n \in 1..Len(ap), t \in 1..AnswerUnits :
        /\ i = (n - 1) * AnswerUnits + t
        /\ u.id = ap[n] /\ u.unit = t
        /\ TextFits(rs, u)

\* Len units are sent and a requests are executed: all answers are complete, or
\* sent units of the last one are there.
Progress(len, up, current, served, a, sent) ==
    \E q \in Nat, t \in 0..(AnswerUnits - 1) :
        /\ len = q * AnswerUnits + t
        /\ up => \/ current /\ a = q + 1 /\ t = sent
                 \/ ~ current /\ served /\ a = q /\ t = 0
                 \/ ~ current /\ ~ served /\ a \in {q, q + 1}

Current(c) == pc = "send" /\ conn[cur] = c

Written(c) == Progress(Len(stream[c]), peer[c] = "up", Current(c), c \in Served,
                       Len(applied[c]), total_sent)

\* The answer that is being sent is that of the last request executed.
LastAnswer(c, resp) ==
    /\ resp \in [id : Nat, text : Texts]
    /\ Len(applied[c]) > 0 /\ resp.id = applied[c][Len(applied[c])]
    /\ TextFits(requests[c], resp)

Answers ==
    /\ stream \in [Clients -> Seq(Units)]
    /\ \A c \in Clients : \A i \in 1..Len(stream[c]) :
         UnitOf(requests[c], applied[c], i, stream[c][i])
    /\ \A c \in Clients : c \in Pending \/ peer[c] = "new" =>
         stream[c] = <<>> /\ applied[c] = <<>>
    /\ \A c \in Clients : Written(c)
    /\ pc = "send" => LastAnswer(conn[cur], response)

\* Division by the length of an answer.
LEMMA Quotient ==
    ASSUME NEW b \in Nat, NEW q \in Nat, NEW t \in 0..(b - 1)
    PROVE  (q * b + t) \div b = q /\ (q * b + t) % b = t
<1>1. b > 0 /\ q * b \in Nat /\ q * b + t \in Nat
  OBVIOUS
<1>2. PICK x : x = q * b + t /\ x \in Nat
  BY <1>1
<1>3. PICK d, r : d = x \div b /\ r = x % b
  OBVIOUS
<1>4. d \in Int /\ r \in 0..(b - 1) /\ x = b * d + r
  BY <1>1, <1>2, <1>3
<1>5. b * (q - d) = r - t
  BY <1>2, <1>4
<1>6. r - t < b /\ r - t > -b
  BY <1>1, <1>4
<1>7. ~ (q - d >= 1)
  <2> SUFFICES ASSUME q - d >= 1
               PROVE  FALSE
    OBVIOUS
  <2>1. b * (q - d) >= b
    BY <1>1, <1>4
  <2> QED
    BY <1>4, <1>5, <1>6, <2>1
<1>8. ~ (q - d <= -1)
  <2> SUFFICES ASSUME q - d <= -1
               PROVE  FALSE
    OBVIOUS
  <2>1. b * (q - d) <= -b
    BY <1>1, <1>4
  <2> QED
    BY <1>4, <1>5, <1>6, <2>1
<1>9. q = d
  BY <1>4, <1>7, <1>8
<1> QED
  BY <1>2, <1>3, <1>4, <1>5, <1>9

\* Requests begun later do not change the answers.
LEMMA UnitOfRequests ==
    ASSUME NEW rs, rs \in Seq(Commands), NEW ap, NEW cmd \in Commands, NEW i, NEW u,
           \A k \in 1..Len(ap) : ap[k] \in 1..Len(rs), UnitOf(rs, ap, i, u)
    PROVE  UnitOf(Append(rs, cmd), ap, i, u)
<1>1. PICK n \in 1..Len(ap), t \in 1..AnswerUnits :
        /\ i = (n - 1) * AnswerUnits + t
        /\ u.id = ap[n] /\ u.unit = t
        /\ TextFits(rs, u)
  BY DEF UnitOf
<1>2. /\ DOMAIN rs = 1..Len(rs)
      /\ \A k \in 1..Len(rs) : k \in DOMAIN Append(rs, cmd) /\ Append(rs, cmd)[k] = rs[k]
  OBVIOUS
<1>3. u.id \in 1..Len(rs)
  BY <1>1
<1>4. Append(rs, cmd)[u.id] = rs[u.id]
  BY <1>2, <1>3
<1>5. Whole(Append(rs, cmd)) => Whole(rs)
  BY <1>2 DEF Whole
<1> QED
  BY <1>1, <1>4, <1>5 DEF UnitOf, TextFits

\* Nor do requests executed later.
LEMMA UnitOfApplied ==
    ASSUME NEW rs, NEW ap, ap \in Seq(Nat), NEW k \in Nat, NEW i, NEW u,
           UnitOf(rs, ap, i, u)
    PROVE  UnitOf(rs, Append(ap, k), i, u)
<1>1. PICK n \in 1..Len(ap), t \in 1..AnswerUnits :
        /\ i = (n - 1) * AnswerUnits + t
        /\ u.id = ap[n] /\ u.unit = t
        /\ TextFits(rs, u)
  BY DEF UnitOf
<1>2. n \in 1..Len(Append(ap, k)) /\ Append(ap, k)[n] = ap[n]
  OBVIOUS
<1> QED
  BY <1>1, <1>2 DEF UnitOf
\* The elements of a concatenation.
LEMMA ConcatParts ==
    ASSUME NEW T, NEW s \in Seq(T), NEW x \in Seq(T)
    PROVE  /\ s \o x \in Seq(T) /\ Len(s \o x) = Len(s) + Len(x)
           /\ \A i \in 1..Len(s) : (s \o x)[i] = s[i]
           /\ \A i \in 1..Len(x) : (s \o x)[Len(s) + i] = x[i]
OBVIOUS

\* The last answer resp is sent up to unit sent, and x are its next n units.
Partial(rs, ap, s, resp, q, sent) ==
    /\ ap \in Seq(Nat) /\ s \in Seq(Units) /\ resp \in [id : Nat, text : Texts]
    /\ q \in Nat /\ sent \in 0..(AnswerUnits - 1)
    /\ Len(ap) = q + 1 /\ Len(s) = q * AnswerUnits + sent
    /\ resp.id = ap[Len(ap)] /\ TextFits(rs, resp)
    /\ \A i \in 1..Len(s) : UnitOf(rs, ap, i, s[i])

NextUnits(resp, sent, n, x) ==
    /\ n \in 1..(AnswerUnits - sent)
    /\ x \in Seq(Units) /\ Len(x) = n
    /\ \A i \in 1..n : x[i] = Unit(resp, sent + i)

\* What was sent are the len units s.
Sequel(rs, ap, len, s) ==
    /\ s \in Seq(Units) /\ Len(s) = len
    /\ \A i \in 1..Len(s) : UnitOf(rs, ap, i, s[i])

\* The next n units of the last answer are sent.
LEMMA SendUnits ==
    ASSUME NEW rs, NEW ap, NEW s, NEW resp, NEW q, NEW sent,
           Partial(rs, ap, s, resp, q, sent),
           NEW n, NEW x, NextUnits(resp, sent, n, x)
    PROVE  Sequel(rs, ap, Len(s) + n, s \o x)
<1>z. PICK s2 : s2 = s \o x
  OBVIOUS
<1> DEFINE S == Len(s)
<1>0. /\ s \in Seq(Units) /\ sent \in 0..(AnswerUnits - 1)
      /\ Len(ap) = q + 1 /\ S = q * AnswerUnits + sent
      /\ resp.id = ap[Len(ap)] /\ TextFits(rs, resp)
      /\ \A i \in 1..S : UnitOf(rs, ap, i, s[i])
  BY DEF Partial
<1>n. n \in Nat /\ sent \in Nat /\ AnswerUnits \in Nat /\ q \in Nat
  BY Bounds DEF Partial, NextUnits
<1>m. n \in 1..(AnswerUnits - sent)
  BY DEF NextUnits
<1>1. x \in Seq(Units) /\ Len(x) = n /\ \A i \in 1..n : x[i] = Unit(resp, sent + i)
  BY DEF NextUnits
<1>2. S \in Nat
  BY <1>0
<1>3. /\ s2 \in Seq(Units) /\ Len(s2) = S + n
      /\ \A i \in 1..S : s2[i] = s[i]
      /\ \A i \in 1..n : s2[S + i] = x[i]
  <2>1. s2 = s \o x /\ s \in Seq(Units) /\ x \in Seq(Units) /\ Len(x) = n
    BY <1>z, <1>0, <1>1
  <2>0. s \in Seq(Units) /\ x \in Seq(Units)
    BY <2>1
  <2>2. /\ s \o x \in Seq(Units) /\ Len(s \o x) = Len(s) + Len(x)
        /\ \A i \in 1..Len(s) : (s \o x)[i] = s[i]
        /\ \A i \in 1..Len(x) : (s \o x)[Len(s) + i] = x[i]
    BY ONLY <2>0, ConcatParts
  <2>3. s2 = s \o x /\ n = Len(x)
    BY <2>1
  <2> QED
    BY ONLY <2>2, <2>3 DEF S
<1>4. ASSUME NEW j \in 1..n
      PROVE  UnitOf(rs, ap, S + j, s2[S + j])
  <2>1. s2[S + j] = Unit(resp, sent + j)
    BY <1>1, <1>3
  <2>2. S + j = ((q + 1) - 1) * AnswerUnits + (sent + j)
    <3>0. \A y, z \in Nat : y * z \in Nat
      OBVIOUS
    <3>1. PICK p : p \in Nat /\ p = q * AnswerUnits
      BY <1>n, <3>0
    <3>2. (q + 1) - 1 = q
      BY <1>n
    <3>3. S = p + sent
      BY <1>0, <3>1
    <3>4. (p + sent) + j = p + (sent + j)
      BY <1>n, <3>1
    <3> QED
      BY <3>1, <3>2, <3>3, <3>4
  <2>3. sent + j \in 1..AnswerUnits
    BY <1>n, <1>m
  <2>4. q + 1 \in 1..Len(ap) /\ resp.id = ap[q + 1]
    BY <1>0, <1>n
  <2>5. /\ s2[S + j].id = resp.id /\ s2[S + j].unit = sent + j
        /\ TextFits(rs, s2[S + j])
    <3>1. PICK y : y = Unit(resp, sent + j)
      OBVIOUS
    <3>2. y.id = resp.id /\ y.text = resp.text /\ y.unit = sent + j
      BY ONLY <3>1 DEF Unit
    <3> QED
      BY <1>0, <2>1, <3>1, <3>2 DEF TextFits
  <2> HIDE DEF S
  <2> QED
    BY <2>2, <2>3, <2>4, <2>5 DEF UnitOf
<1>5. ASSUME NEW i \in 1..Len(s2)
      PROVE  UnitOf(rs, ap, i, s2[i])
  <2>1. i \in 1..S \/ \E j \in 1..n : i = S + j
    <3>1. i \in 1..(S + n)
      BY <1>3
    <3> HIDE DEF S
    <3>2. i \notin 1..S => i - S \in 1..n /\ i = S + (i - S)
      BY <1>n, <1>2, <3>1
    <3> QED
      BY <3>2
  <2> QED
    BY <1>0, <1>3, <1>4, <2>1
<1>6. Sequel(rs, ap, S + n, s2)
  BY <1>3, <1>5 DEF Sequel
<1> QED
  BY <1>z, <1>6

\* A step that neither begins nor ends an answer to client c.
LEMMA SameWritten ==
    ASSUME NEW c, Written(c), stream'[c] = stream[c], applied'[c] = applied[c],
           ~ Current(c), ~ Current(c)', peer'[c] = "up" => peer[c] = "up",
           c \in Served' <=> c \in Served
    PROVE  Written(c)'
BY DEF Written, Progress

\* A step after which client c is not sent anything any more, because it has
\* closed its end or the server has.
LEMMA EndedWritten ==
    ASSUME NEW c, Written(c), stream'[c] = stream[c], applied'[c] = applied[c],
           ~ Current(c)', peer'[c] = "up" => peer[c] = "up" /\ c \notin Served'
    PROVE  Written(c)'
<1>1. PICK q \in Nat, t \in 0..(AnswerUnits - 1) :
        /\ Len(stream[c]) = q * AnswerUnits + t
        /\ peer[c] = "up" => Len(applied[c]) \in {q, q + 1}
  BY DEF Written, Progress
<1> QED
  BY <1>1 DEF Written, Progress

\* A client that nothing was sent to, and that sent nothing.
LEMMA FreshWritten ==
    ASSUME NEW c
    PROVE  /\ stream[c] = <<>> /\ applied[c] = <<>> /\ ~ Current(c) => Written(c)
           /\ stream'[c] = <<>> /\ applied'[c] = <<>> /\ ~ Current(c)' => Written(c)'
<1>1. 0 \in Nat /\ 0 \in 0..(AnswerUnits - 1) /\ 0 * AnswerUnits + 0 = 0 /\ Len(<<>>) = 0
  BY Bounds
<1> QED
  BY <1>1 DEF Written, Progress

\* A step that leaves requests, answers and the answer being sent alone.
LEMMA SameAnswers ==
    ASSUME Answers, UNCHANGED <<requests, stream, applied>>,
           \A c \in Clients : c \in Pending' \/ peer'[c] = "new" =>
                              c \in Pending \/ peer[c] = "new",
           \A c \in Clients : Written(c)',
           pc' = "send" => pc = "send" /\ conn'[cur'] = conn[cur] /\ response' = response
    PROVE  Answers'
<1>1. pc' = "send" => LastAnswer(conn[cur], response)'
  BY DEF Answers, LastAnswer
<1> QED
  BY <1>1 DEF Answers

\* Initially there are no answers.
LEMMA AnswersInit == Init => Answers
<1> SUFFICES ASSUME Init
             PROVE  Answers
  OBVIOUS
<1>1. /\ stream \in [Clients -> Seq(Units)] /\ pc = "start"
      /\ \A c \in Clients : /\ stream[c] = <<>> /\ applied[c] = <<>>
                            /\ Len(stream[c]) = 0 /\ Len(applied[c]) = 0
  BY DEF Init
<1>2. ASSUME NEW c \in Clients
      PROVE  Written(c)
  <2>1. ~ Current(c)
    BY <1>1 DEF Current
  <2> QED
    BY <1>1, <2>1, FreshWritten
<1>3. \A c \in Clients : 1..Len(stream[c]) = {}
  BY <1>1
<1> QED
  BY <1>1, <1>2, <1>3 DEF Answers
\* A step before and after which the server is not sending, and that leaves the
\* connections alone.
LEMMA IdleAnswers ==
    ASSUME Answers, pc # "send", pc' # "send",
           UNCHANGED <<requests, stream, applied, conn, backlog, peer>>
    PROVE  Answers'
<1>1. Served' = Served /\ Pending' = Pending
  BY DEF Served, Open, Pending
<1>2. \A c \in Clients : Written(c)'
  BY <1>1, SameWritten DEF Answers, Current
<1> QED
  BY <1>1, <1>2, SameAnswers

\* Closing descriptors of clients that have closed, or all of them.
LEMMA ClosedAnswers ==
    ASSUME Connections, Answers, NEW D \in SUBSET Open, CloseAll(D), pc' # "send",
           UNCHANGED <<requests, stream, applied, peer>>,
           Pending' \subseteq Pending,
           \A c \in Clients : /\ c \in Served /\ c \in Served' => ~ Current(c)
                              /\ c \notin Served' \/ c \in Served
    PROVE  Answers'
<1>1. \A c \in Clients : Written(c)'
  <2> SUFFICES ASSUME NEW c \in Clients
               PROVE  Written(c)'
    OBVIOUS
  <2>1. Written(c) /\ ~ Current(c)' /\ stream'[c] = stream[c] /\ applied'[c] = applied[c]
    BY DEF Answers, Current
  <2>2. CASE c \notin Served'
    BY <2>1, <2>2, EndedWritten
  <2>3. CASE c \in Served'
    BY <2>1, <2>3, SameWritten
  <2> QED
    BY <2>2, <2>3
<1> QED
  BY <1>1, SameAnswers

\* A client closes its end, at any time.
LEMMA PeerEndsAnswers ==
    ASSUME Connections, Answers, NEW c \in Clients, NEW p \in {"closed", "reset"},
           peer' = [peer EXCEPT ![c] = p],
           UNCHANGED <<requests, stream, applied, conn, backlog>>,
           \/ UNCHANGED <<pc, cur, response, total_sent>>
           \/ pc = "send" /\ conn[cur] = c /\ pc' # "send"
    PROVE  Answers'
<1>1. Served' = Served /\ Pending' = Pending
  BY DEF Served, Open, Pending
<1>2. /\ peer'[c] = p /\ \A x \in Clients : x # c => peer'[x] = peer[x]
      /\ \A x \in Clients : peer'[x] = "new" => peer[x] = "new"
  BY DEF Connections, ConnectionTypes
<1>3. \A x \in Clients : Written(x)'
  <2> SUFFICES ASSUME NEW x \in Clients
               PROVE  Written(x)'
    OBVIOUS
  <2>0. Written(x)
    BY DEF Answers
  <2>1. CASE x = c
    <3>1. PICK q \in Nat, t \in 0..(AnswerUnits - 1) :
            Len(stream[x]) = q * AnswerUnits + t
      BY <2>0 DEF Written, Progress
    <3>2. peer'[x] # "up"
      BY <1>2, <2>1
    <3> QED
      BY <3>1, <3>2 DEF Written, Progress
  <2>2. CASE x # c /\ UNCHANGED <<pc, cur, response, total_sent>>
    <3>1. peer'[x] = peer[x]
      BY <1>2, <2>2
    <3> QED
      BY <1>1, <2>0, <2>2, <3>1 DEF Written, Current
  <2>3. CASE x # c /\ pc = "send" /\ conn[cur] = c /\ pc' # "send"
    <3>1. peer'[x] = peer[x] /\ ~ Current(x) /\ ~ Current(x)'
      BY <1>2, <2>3 DEF Current
    <3> QED
      BY <1>1, <2>0, <3>1, SameWritten
  <2> QED
    BY <2>1, <2>2, <2>3
<1> QED
  BY <1>1, <1>2, <1>3, SameAnswers

\* A request is executed: its answer is next.
LEMMA ProcessKeepsAnswers ==
    ASSUME Connections, Buffers, Attention, Conversations, Answers, Process
    PROVE  Answers'
<1>c. PICK c : c = conn[cur]
  OBVIOUS
<1>b. PICK b : b = clients[cur]
  OBVIOUS
<1>n. PICK n : n = FirstMessage(b)
  OBVIOUS
<1>m. PICK m : m = SubSeq(b, 1, n)
  OBVIOUS
<1>k. PICK k : k = m[n].id
  OBVIOUS
<1>1. PICK cmd \in Parses(m, c), text \in Texts :
        /\ process_command(cmd, client_id(cur), text)
        /\ response' = [id |-> k, text |-> text]
  BY <1>c, <1>b, <1>n, <1>m, <1>k DEF Process
<1>2. /\ pc = "process" /\ pc' = "send" /\ total_sent' = 0
      /\ applied' = [applied EXCEPT ![c] = Append(applied[c], k)]
      /\ UNCHANGED <<requests, stream, conn, backlog, peer, cur>>
  BY <1>c, <1>b, <1>n, <1>m, <1>k DEF Process, clientVars, netVars
<1>3. /\ Parses(m, c) \subseteq Commands /\ k \in 1..Len(requests[c])
      /\ Intact(c) => \A y \in Parses(m, c) : y = requests[c][k]
  <2>1. pc = "process"
    BY <1>2
  <2> DEFINE x == conn[cur]
             y == clients[cur]
             z == FirstMessage(y)
             w == SubSeq(y, 1, z)
  <2>2. /\ Parses(w, x) \subseteq Commands
        /\ w[z].id \in 1..Len(requests[x])
        /\ Intact(x) => \A y0 \in Parses(w, x) : y0 = requests[x][w[z].id]
    BY <2>1, ParsedCommand
  <2>3. x = c /\ z = n /\ w = m
    BY <1>c, <1>b, <1>n, <1>m
  <2> QED
    BY <1>k, <2>2, <2>3
<1>4. cur \in Open /\ c \in Clients /\ c \notin Pending /\ peer[c] # "new" /\ c \in Served
  <2>1. cur \in Open
    BY <1>2 DEF Connections, NoUseAfterClose, InHandler
  <2> QED
    BY <1>c, <2>1, HeldOpen DEF Served
<1>5. applied \in [Clients -> Seq(Nat)] /\ k \in Nat
  BY <1>3 DEF Conversations
<1>6. /\ applied'[c] = Append(applied[c], k)
      /\ \A x \in Clients : x # c => applied'[x] = applied[x]
  BY <1>2, <1>4, <1>5
<1>7. PICK ap : ap = applied[c] /\ ap \in Seq(Nat)
  BY <1>4, <1>5
<1>8. /\ Len(Append(ap, k)) = Len(ap) + 1 /\ Append(ap, k)[Len(ap) + 1] = k
      /\ Len(ap) \in Nat
  BY <1>5, <1>7
<1>9. LastAnswer(conn[cur], response)'
  <2>1. response' \in [id : Nat, text : Texts] /\ response'.id = k /\ response'.text = text
    BY <1>1, <1>5
  <2>2. Len(applied'[c]) > 0 /\ applied'[c][Len(applied'[c])] = k
    BY <1>6, <1>7, <1>8
  <2>3. Intact(c) => (text = "ERROR_INVALID_COMMAND" <=> requests[c][k].type = "INVALID")
    BY <1>1, <1>3, AnswerText
  <2>4. TextFits(requests[c], response')
    BY <2>1, <2>3 DEF TextFits, Intact, Whole
  <2> QED
    BY <1>c, <1>2, <2>1, <2>2, <2>4 DEF LastAnswer
<1>10. ASSUME NEW x \in Clients, NEW i \in 1..Len(stream[x])
       PROVE  UnitOf(requests[x], applied'[x], i, stream[x][i])
  <2>1. UnitOf(requests[x], applied[x], i, stream[x][i])
    BY DEF Answers
  <2>2. CASE x = c
    BY <1>5, <1>6, <1>7, <2>1, <2>2, UnitOfApplied
  <2>3. CASE x # c
    BY <1>6, <2>1, <2>3
  <2> QED
    BY <2>2, <2>3
<1>11. Served' = Served /\ Pending' = Pending
  BY <1>2 DEF Served, Open, Pending
<1>12. ASSUME NEW x \in Clients
       PROVE  Written(x)'
  <2>0. Written(x) /\ ~ Current(x)
    BY <1>2 DEF Answers, Current
  <2>1. CASE x = c
    <3>1. PICK q \in Nat, t \in 0..(AnswerUnits - 1) :
            /\ Len(stream[c]) = q * AnswerUnits + t
            /\ peer[c] = "up" => Len(applied[c]) = q /\ t = 0
      BY <1>4, <2>0, <2>1 DEF Written, Progress
    <3>2. Current(c)'
      BY <1>c, <1>2 DEF Current
    <3>3. Len(applied'[c]) = Len(applied[c]) + 1
      BY <1>6, <1>7, <1>8
    <3> QED
      BY <1>2, <2>1, <3>1, <3>2, <3>3 DEF Written, Progress
  <2>2. CASE x # c
    <3>1. ~ Current(x)' /\ applied'[x] = applied[x]
      BY <1>c, <1>2, <1>6, <2>2 DEF Current
    <3> QED
      BY <1>2, <1>11, <2>0, <3>1, SameWritten
  <2> QED
    BY <2>1, <2>2
<1>13. \A x \in Clients : x \in Pending \/ peer[x] = "new" =>
         stream[x] = <<>> /\ applied'[x] = <<>>
  BY <1>4, <1>6 DEF Answers
<1> QED
  BY <1>2, <1>9, <1>10, <1>11, <1>12, <1>13 DEF Answers
\* A part of the answer is sent.
LEMMA SendKeepsAnswers ==
    ASSUME Connections, Buffers, Conversations, Answers, SendData
    PROVE  Answers'
<1>c. PICK c : c = conn[cur]
  OBVIOUS
<1>n. PICK n : n = Smaller(AnswerUnits - total_sent, SendBuffer - unread[c])
  OBVIOUS
<1>1. /\ pc = "send" /\ peer[c] = "up" /\ n > 0
      /\ stream' = [stream EXCEPT ![c] = stream[c] \o Remaining(n)]
      /\ Sent(total_sent + n)
      /\ UNCHANGED <<requests, applied, conn, backlog, peer, cur>>
  BY <1>c, <1>n DEF SendData, clientVars
<1>2. cur \in Open /\ c \in Clients /\ c \notin Pending /\ peer[c] # "new" /\ c \in Served
  <2>1. cur \in Open
    BY <1>1 DEF Connections, NoUseAfterClose, InHandler
  <2> QED
    BY <1>c, <2>1, HeldOpen DEF Served
<1>3. PICK sent, A : sent = total_sent /\ A = AnswerUnits
  OBVIOUS
<1>4. A \in Nat /\ A > 0 /\ sent \in Nat /\ sent < A
  BY <1>3, Bounds DEF Buffers
<1>5. n \in Nat /\ n > 0 /\ n <= A - sent
  <2>1. SendBuffer \in Nat /\ unread[c] \in Nat
    BY <1>2, Bounds DEF Buffers
  <2>2. n = A - sent \/ (n = SendBuffer - unread[c] /\ n <= A - sent)
    BY <1>n, <1>3, <1>4, <2>1 DEF Smaller
  <2>3. n > 0
    BY <1>1
  <2> QED
    BY <1>4, <2>1, <2>2, <2>3
<1>6. PICK q \in Nat : /\ Len(stream[c]) = q * A + sent
                       /\ Len(applied[c]) = q + 1
  <2>1. Written(c) /\ Current(c)
    BY <1>c, <1>1, <1>2 DEF Answers, Current
  <2> QED
    BY <1>1, <1>3, <2>1 DEF Written, Progress
<1>7. PICK ap, s, resp, rs : /\ ap = applied[c] /\ s = stream[c]
                             /\ resp = response /\ rs = requests[c]
  OBVIOUS
<1>8. /\ ap \in Seq(Nat) /\ s \in Seq(Units) /\ resp \in [id : Nat, text : Texts]
      /\ resp.id = ap[Len(ap)]
      /\ \A i \in 1..Len(s) : UnitOf(rs, ap, i, s[i])
  BY <1>c, <1>1, <1>2, <1>7 DEF Answers, Conversations, LastAnswer
<1>9. TextFits(rs, resp)
  BY <1>c, <1>1, <1>7 DEF Answers, LastAnswer
<1>x. PICK more : more = [i \in 1..n |-> Unit(resp, sent + i)]
  OBVIOUS
<1>y. more \in Seq(Units) /\ Len(more) = n /\ \A i \in 1..n : more[i] = Unit(resp, sent + i)
  <2>1. \A i \in 1..n : Unit(resp, sent + i) \in Units
    <3>1. \A i \in 1..n : sent + i \in Nat
      BY <1>4, <1>5
    <3> QED
      BY <1>8, <3>1 DEF Unit, Units
  <2>2. more \in [1..n -> Units] /\ n \in Nat
    BY <1>5, <1>x, <2>1
  <2>3. \A i \in 1..n : more[i] = Unit(resp, sent + i)
    BY <1>x
  <2> QED
    BY <2>2, <2>3
<1>10. PICK s2 : s2 = s \o more
  OBVIOUS
<1>11. /\ s2 \in Seq(Units) /\ Len(s2) = (q * A + sent) + n
       /\ \A i \in 1..Len(s2) : UnitOf(rs, ap, i, s2[i])
  <2>1. Len(ap) = q + 1 /\ Len(s) = q * AnswerUnits + sent
    BY <1>3, <1>6, <1>7
  <2>2. sent \in 0..(AnswerUnits - 1) /\ n \in 1..(AnswerUnits - sent)
    BY <1>3, <1>4, <1>5
  <2>3. /\ s2 \in Seq(Units) /\ Len(s2) = Len(s) + n
        /\ \A i \in 1..Len(s2) : UnitOf(rs, ap, i, s2[i])
    <3>1. Partial(rs, ap, s, resp, q, sent)
      BY <1>8, <1>9, <2>1, <2>2 DEF Partial
    <3>2. NextUnits(resp, sent, n, more)
      BY <1>y, <2>2 DEF NextUnits
    <3>3. Sequel(rs, ap, Len(s) + n, s \o more)
      BY <3>1, <3>2, SendUnits
    <3> QED
      BY <1>10, <3>3 DEF Sequel
  <2> QED
    BY <1>3, <2>1, <2>3
<1>12. /\ stream' \in [Clients -> Seq(Units)]
       /\ stream'[c] = s2 /\ \A x \in Clients : x # c => stream'[x] = stream[x]
  <2>1. stream' = [stream EXCEPT ![c] = s2]
    BY <1>1, <1>3, <1>7, <1>x, <1>10 DEF Remaining
  <2>2. stream \in [Clients -> Seq(Units)]
    BY DEF Answers
  <2> QED
    BY <1>2, <1>11, <2>1, <2>2
<1>13. ASSUME NEW x \in Clients, NEW i \in 1..Len(stream'[x])
       PROVE  UnitOf(requests[x], applied[x], i, stream'[x][i])
  <2>1. CASE x = c
    BY <1>7, <1>11, <1>12, <2>1
  <2>2. CASE x # c
    BY <1>12, <2>2 DEF Answers
  <2> QED
    BY <2>1, <2>2
<1>14. Served' = Served /\ Pending' = Pending
  BY <1>1 DEF Served, Open, Pending
<1>15. Written(c)'
  <2>0. q * A \in Nat
    BY <1>4
  <2>1. CASE sent + n < A
    <3>1. pc' = "send" /\ total_sent' = sent + n
      BY <1>1, <1>3, <2>1 DEF Sent
    <3>2. Current(c)'
      BY <1>c, <1>1, <3>1 DEF Current
    <3>3. sent + n \in 0..(A - 1) /\ (q * A + sent) + n = q * A + (sent + n)
      BY <1>4, <1>5, <2>0, <2>1
    <3>4. Len(stream'[c]) = q * A + (sent + n) /\ Len(applied'[c]) = q + 1
      BY <1>1, <1>6, <1>11, <1>12, <3>3
    <3> QED
      BY <1>3, <3>1, <3>2, <3>3, <3>4 DEF Written, Progress
  <2>2. CASE sent + n = A
    <3>1. pc' # "send"
      <4>1. pc' = AfterAnswer
        <5>1. ~ (A < A)
          BY <1>4
        <5> QED
          BY <1>1, <1>3, <2>2, <5>1 DEF Sent
      <4> QED
        BY <4>1 DEF AfterAnswer, Continue
    <3>2. ~ Current(c)'
      BY <3>1 DEF Current
    <3>3. /\ q + 1 \in Nat /\ 0 \in 0..(A - 1)
          /\ (q * A + sent) + n = (q + 1) * A + 0
      <4>1. (q * A + sent) + n = q * A + A
        BY <1>4, <1>5, <2>0, <2>2
      <4>2. (q + 1) * A + 0 = q * A + A
        BY <1>4
      <4> QED
        BY <1>4, <4>1, <4>2
    <3>4. Len(stream'[c]) = (q + 1) * A + 0 /\ Len(applied'[c]) = q + 1
      BY <1>1, <1>6, <1>11, <1>12, <3>3
    <3> QED
      BY <1>2, <1>3, <1>14, <3>2, <3>3, <3>4 DEF Written, Progress
  <2> QED
    BY <1>4, <1>5, <2>1, <2>2
<1>16. ASSUME NEW x \in Clients, x # c
       PROVE  Written(x)'
  <2>1. Written(x) /\ ~ Current(x) /\ ~ Current(x)'
    BY <1>c, <1>1, <1>16 DEF Answers, Current
  <2> QED
    BY <1>1, <1>12, <1>14, <1>16, <2>1, SameWritten
<1>17. pc' = "send" => LastAnswer(conn[cur], response)'
  <2>1. pc' = "send" => response' = response
    <3>1. AfterAnswer # "send"
      BY DEF AfterAnswer, Continue
    <3> QED
      BY <1>1, <3>1 DEF Sent
  <2> QED
    BY <1>1, <2>1 DEF Answers, LastAnswer
<1>18. \A x \in Clients : x \in Pending \/ peer[x] = "new" =>
         stream'[x] = <<>> /\ applied[x] = <<>>
  BY <1>2, <1>12 DEF Answers
<1> QED
  BY <1>1, <1>12, <1>13, <1>14, <1>15, <1>16, <1>17, <1>18 DEF Answers

\* Every step keeps the invariant on the answers.
LEMMA AnswersNext ==
    ASSUME Connections, Buffers, Attention, Conversations, Answers, [Next]_vars
    PROVE  Answers'
<1>0. /\ DOMAIN clients = Open
      /\ InHandler => cur \in Open /\ conn[cur] \in Clients
      /\ conn \in [Descriptors -> Clients \cup {NoClient}]
      /\ backlog \in Seq(Clients)
      /\ peer \in [Clients -> {"new", "up", "closed", "reset"}]
      /\ requests \in [Clients -> Seq(Commands)]
  BY DEF Connections, ConnectionTypes, NoUseAfterClose, Open, Buffers
<1>1. CASE UNCHANGED <<requests, stream, applied, conn, backlog, peer,
                       pc, cur, response, total_sent>>
  <2>1. \A c \in Clients : Written(c)'
    BY <1>1 DEF Answers, Written, Current, Served, Open
  <2>2. Pending' = Pending
    BY <1>1 DEF Pending
  <2> QED
    BY <1>1, <2>1, <2>2, SameAnswers
<1>2. CASE Start \/ EpollWait \/ AcceptEnds \/ RecvWouldBlock
  BY <1>2, IdleAnswers
  DEF Start, EpollWait, AcceptEnds, RecvWouldBlock, Leave, clientVars, netVars, cacheVars
<1>3. CASE Dispatch
  <2>1. pc = "dispatch" /\ pc' # "send"
    BY <1>3 DEF Dispatch, Handler
  <2> QED
    BY <1>3, <2>1, IdleAnswers DEF Dispatch, clientVars, netVars, cacheVars
<1>4. CASE RecvData
  <2>1. pc = "recv" /\ pc' # "send"
    BY <1>4 DEF RecvData, Continue
  <2> QED
    BY <1>4, <2>1, IdleAnswers DEF RecvData, clientVars, cacheVars
<1>5. CASE Process
  BY <1>5, ProcessKeepsAnswers
<1>6. CASE SendData
  BY <1>6, SendKeepsAnswers
<1>7. CASE SendUnheard
  <2>c. PICK c : c = conn[cur]
    OBVIOUS
  <2>1. /\ pc = "send" /\ Sent(AnswerUnits)
        /\ UNCHANGED <<requests, stream, applied, conn, backlog>>
        /\ \E p \in {"closed", "reset"} : peer' = [peer EXCEPT ![c] = p]
    BY <1>7, <2>c DEF SendUnheard
  <2>2. pc' # "send"
    <3>1. ~ (AnswerUnits < AnswerUnits) /\ AfterAnswer # "send"
      BY Bounds DEF AfterAnswer, Continue
    <3> QED
      BY <2>1, <3>1 DEF Sent
  <2>3. c \in Clients
    BY <1>0, <2>c, <2>1 DEF InHandler
  <2> QED
    BY <2>c, <2>1, <2>2, <2>3, PeerEndsAnswers
<1>8. CASE RecvEnds \/ SendFails
  <2>1. /\ UNCHANGED <<requests, stream, applied, backlog, peer>>
        /\ cur \in Open /\ CloseAll({cur}) /\ pc' = "dispatch"
        /\ InHandler
    BY <1>0, <1>8
    DEF RecvEnds, SendFails, handle_client_disconnect, Leave, GiveUp, clientVars,
        cacheVars, InHandler
  <2>2. /\ Open' = Open \ {cur}
        /\ \A d \in Open' : d \in Open /\ conn'[d] = conn[d]
    BY <2>1, ClosedConnections
  <2>3. \A c \in Clients : c \in Served' => c \in Served /\ ~ Current(c)
    <3> SUFFICES ASSUME NEW c \in Clients, c \in Served'
                 PROVE  c \in Served /\ ~ Current(c)
      OBVIOUS
    <3>1. PICK d \in Open' : c = conn'[d]
      BY DEF Served
    <3>2. d \in Open /\ c = conn[d] /\ d # cur
      BY <2>2, <3>1
    <3>3. conn[d] # conn[cur]
      BY <2>1, <3>2 DEF Connections, NoUseAfterClose
    <3> QED
      BY <3>2, <3>3 DEF Served, Current
  <2>4. Pending' \subseteq Pending
    BY <2>1 DEF Pending
  <2> QED
    BY <2>1, <2>3, <2>4, ClosedAnswers
<1>9. CASE Accept
  <2>d. PICK d : d = Least(Descriptors \ Open)
    OBVIOUS
  <2>c. PICK c : c = Head(backlog)
    OBVIOUS
  <2>1. /\ UNCHANGED <<requests, stream, applied, peer, pc>> /\ backlog # <<>>
        /\ pc = "accept" /\ backlog' = Tail(backlog) /\ Open # Descriptors
    BY <1>9 DEF Accept, clientVars, cacheVars
  <2>2. c \in Pending /\ Pending' \subseteq Pending
    <3>1. c = backlog[1] /\ 1 \in DOMAIN backlog
      BY <1>0, <2>c, <2>1
    <3>2. \A i \in DOMAIN backlog' : i + 1 \in DOMAIN backlog /\ backlog'[i] = backlog[i + 1]
      BY <1>0, <2>1
    <3> QED
      BY <3>1, <3>2 DEF Pending
  <2>3. CASE conn' = [conn EXCEPT ![d] = c]
    <3>1. \A x \in Clients : x # c => (x \in Served' <=> x \in Served)
      <4>1. d \in Descriptors /\ d \notin Open
        <5>1. Descriptors \ Open # {}
          BY <2>1 DEF Open
        <5> QED
          BY <2>d, <5>1, LeastDescriptor
      <4>2. /\ conn'[d] = c /\ conn[d] = NoClient
            /\ \A e \in Descriptors : e # d => conn'[e] = conn[e]
        BY <1>0, <2>3, <4>1 DEF Open
      <4>3. \A e \in Descriptors : e # d => (e \in Open' <=> e \in Open)
        BY <4>2 DEF Open
      <4> QED
        BY <4>1, <4>2, <4>3 DEF Served, Open
    <3>2. \A x \in Clients : Written(x)'
      <4> SUFFICES ASSUME NEW x \in Clients
                   PROVE  Written(x)'
        OBVIOUS
      <4>1. Written(x) /\ ~ Current(x) /\ ~ Current(x)'
        BY <2>1 DEF Answers, Current
      <4>2. CASE x # c
        BY <2>1, <3>1, <4>1, <4>2, SameWritten
      <4>3. CASE x = c
        <5>1. stream'[x] = <<>> /\ applied'[x] = <<>>
          BY <2>1, <2>2, <4>3 DEF Answers
        <5> QED
          BY <4>1, <5>1, FreshWritten
      <4> QED
        BY <4>2, <4>3
    <3> QED
      BY <2>1, <2>2, <3>2, SameAnswers
  <2>4. CASE UNCHANGED conn
    <3>1. Served' = Served
      BY <2>4 DEF Served, Open
    <3>2. \A x \in Clients : Written(x)'
      BY <2>1, <3>1, SameWritten DEF Answers, Current
    <3> QED
      BY <2>1, <2>2, <3>2, SameAnswers
  <2> QED
    BY <1>9, <2>d, <2>c, <2>3, <2>4 DEF Accept
<1>10. ASSUME NEW c \in Clients, Connect(c)
       PROVE  Answers'
  <2>1. /\ UNCHANGED <<requests, stream, applied, conn, pc, cur, response, total_sent>>
        /\ peer[c] = "new"
        /\ backlog' = Append(backlog, c) /\ peer' = [peer EXCEPT ![c] = "up"]
    BY <1>10 DEF Connect, serverVars, sendVars, cacheVars
  <2>2. \A x \in Clients : x \in Pending' => x \in Pending \/ peer[x] = "new"
    <3>1. \A i \in DOMAIN backlog' : \/ i \in DOMAIN backlog /\ backlog'[i] = backlog[i]
                                    \/ backlog'[i] = c
      <4>1. backlog \in Seq(Clients) /\ backlog' = Append(backlog, c)
        BY <1>0, <2>1
      <4>2. /\ DOMAIN backlog' = 1..(Len(backlog) + 1) /\ DOMAIN backlog = 1..Len(backlog)
            /\ Len(backlog) \in Nat
            /\ \A i \in 1..Len(backlog) : backlog'[i] = backlog[i]
            /\ backlog'[Len(backlog) + 1] = c
        BY <4>1, AppendProperties
      <4>3. \A i \in 1..(Len(backlog) + 1) : i \in 1..Len(backlog) \/ i = Len(backlog) + 1
        BY <4>2
      <4> QED
        BY <4>2, <4>3
    <3> QED
      BY <2>1, <3>1 DEF Pending
  <2>3. \A x \in Clients : /\ peer'[x] = "new" => peer[x] = "new"
                           /\ x # c => peer'[x] = peer[x]
    BY <1>0, <2>1
  <2>4. \A x \in Clients : Written(x)'
    <3> SUFFICES ASSUME NEW x \in Clients
                 PROVE  Written(x)'
      OBVIOUS
    <3>1. CASE x # c
      BY <2>1, <2>3, <3>1 DEF Answers, Written, Current, Served, Open
    <3>2. CASE x = c
      <4>1. ~ Current(x)'
        <5> SUFFICES ASSUME pc = "send", conn[cur] = c
                     PROVE  FALSE
          BY <2>1, <3>2 DEF Current
        <5>1. cur \in Open
          BY <1>0 DEF InHandler
        <5> QED
          BY <2>1, <5>1, HeldOpen
      <4>2. stream'[x] = <<>> /\ applied'[x] = <<>>
        BY <2>1, <3>2 DEF Answers
      <4> QED
        BY <4>1, <4>2, FreshWritten
    <3> QED
      BY <3>1, <3>2
  <2> QED
    BY <2>1, <2>2, <2>3, <2>4, SameAnswers
<1>11. ASSUME NEW c \in Clients, Close(c)
       PROVE  Answers'
  <2>1. /\ UNCHANGED <<requests, stream, applied, conn, backlog, pc, cur, response, total_sent>>
        /\ \E p \in {"closed", "reset"} : peer' = [peer EXCEPT ![c] = p]
    BY <1>11 DEF Close, serverVars, sendVars, cacheVars
  <2> QED
    BY <2>1, PeerEndsAnswers
<1>12. ASSUME NEW c \in Clients, Read(c)
       PROVE  Answers'
  BY <1>1, <1>12 DEF Read, clientVars, serverVars, sendVars, cacheVars
<1>13. ASSUME NEW c \in Clients, Write(c)
       PROVE  Answers'
  <2>1. PICK cmd \in Commands :
         requests' = [requests EXCEPT ![c] =
             IF todo[c] = <<>> THEN Append(requests[c], cmd) ELSE requests[c]]
    BY <1>13 DEF Write
  <2>2. UNCHANGED <<stream, applied, conn, backlog, peer, pc, cur, response, total_sent>>
    BY <1>13 DEF Write, serverVars, sendVars, cacheVars
  <2>3. /\ requests'[c] = requests[c] \/ requests'[c] = Append(requests[c], cmd)
        /\ \A x \in Clients : x # c => requests'[x] = requests[x]
    BY <1>0, <2>1
  <2>4. PICK rs, ap : rs = requests[c] /\ ap = applied[c]
    OBVIOUS
  <2>5. rs \in Seq(Commands) /\ \A k \in 1..Len(ap) : ap[k] \in 1..Len(rs)
    BY <2>4 DEF Conversations, Faithful, Conversation
  <2>6. ASSUME NEW x \in Clients, NEW i \in 1..Len(stream[x])
        PROVE  UnitOf(requests'[x], applied[x], i, stream[x][i])
    <3>1. UnitOf(requests[x], applied[x], i, stream[x][i])
      BY DEF Answers
    <3>2. CASE requests'[x] = requests[x]
      BY <3>1, <3>2
    <3>3. CASE x = c /\ requests'[c] = Append(requests[c], cmd)
      <4>1. UnitOf(rs, ap, i, stream[x][i])
        BY <2>4, <3>1, <3>3
      <4>2. UnitOf(Append(rs, cmd), ap, i, stream[x][i])
        BY <2>5, <4>1, UnitOfRequests
      <4> QED
        BY <2>4, <3>3, <4>2
    <3> QED
      BY <2>3, <3>2, <3>3
  <2>7. ASSUME pc = "send"
        PROVE  LastAnswer(conn[cur], response)'
    <3>1. PICK d, resp : d = conn[cur] /\ resp = response
      OBVIOUS
    <3>2. LastAnswer(d, resp)
      BY <2>7, <3>1 DEF Answers
    <3>3. d \in Clients
      BY <1>0, <2>7, <3>1 DEF InHandler
    <3>4. TextFits(requests'[d], resp)
      <4>1. CASE requests'[d] = requests[d]
        BY <3>2, <4>1 DEF LastAnswer
      <4>2. CASE d = c /\ requests'[c] = Append(requests[c], cmd)
        <5>1. ap \in Seq(Nat)
          BY <2>4 DEF Conversations
        <5>2. Len(ap) \in 1..Len(ap)
          <6>1. Len(ap) > 0 /\ Len(ap) \in Nat
            BY <2>4, <3>2, <4>2, <5>1 DEF LastAnswer
          <6> QED
            BY <6>1
        <5>3. resp.id \in 1..Len(rs)
          BY <2>4, <2>5, <3>2, <4>2, <5>2 DEF LastAnswer
        <5>4. /\ DOMAIN rs = 1..Len(rs)
              /\ \A k \in 1..Len(rs) : /\ k \in DOMAIN Append(rs, cmd)
                                       /\ Append(rs, cmd)[k] = rs[k]
          BY <2>5
        <5>5. Whole(Append(rs, cmd)) => Whole(rs)
          BY <5>4 DEF Whole
        <5>6. TextFits(rs, resp)
          BY <2>4, <3>2, <4>2 DEF LastAnswer
        <5>7. TextFits(Append(rs, cmd), resp)
          BY <5>3, <5>4, <5>5, <5>6 DEF TextFits
        <5> QED
          BY <2>4, <4>2, <5>7
      <4> QED
        BY <2>3, <3>3, <4>1, <4>2
    <3> QED
      BY <2>2, <3>1, <3>2, <3>4 DEF LastAnswer
  <2>8. \A x \in Clients : Written(x)'
    BY <2>2 DEF Answers, Written, Current, Served, Open
  <2>9. Pending' = Pending
    BY <2>2 DEF Pending
  <2> QED
    BY <2>2, <2>6, <2>7, <2>8, <2>9 DEF Answers
<1>14. CASE signal_handler \/ EpollWaitFails
  <2>1. /\ UNCHANGED <<requests, stream, applied, peer>> /\ backlog' = <<>>
        /\ CloseAll(Open) /\ pc' = "stopped"
    BY <1>0, <1>14 DEF signal_handler, EpollWaitFails, stop, clientVars, cacheVars
  <2>2. Served' = {}
    BY <2>1, ClosedConnections DEF Served
  <2>3. Pending' \subseteq Pending
    BY <2>1 DEF Pending
  <2> QED
    BY <2>1, <2>2, <2>3, ClosedAnswers
<1>15. CASE UNCHANGED vars
  BY <1>1, <1>15 DEF vars, clientVars, netVars, serverVars, sendVars, cacheVars
<1> QED
  BY <1>2, <1>3, <1>4, <1>5, <1>6, <1>7, <1>8, <1>9, <1>10, <1>11,
     <1>12, <1>13, <1>14, <1>15
  DEF Next, Server, Environment, Stopped
----------------------------------------------------------------------------
(* What follows.                                                           *)

\* The inductive invariant.
Safe ==
    /\ Connections /\ Buffers /\ Attention
    /\ Conversations /\ Ownership /\ Answers

\* The inductive invariant holds in every state the server and its clients can
\* reach.
THEOREM ServerSafe == Spec => []Safe
<1>1. Init => Safe
  BY ConnectionsInit, BuffersInit, AttentionInit, ConversationsInit, OwnershipInit,
     AnswersInit
  DEF Safe
<1>2. Safe /\ [Next]_vars => Safe'
  <2> SUFFICES ASSUME Safe, [Next]_vars
               PROVE  Safe'
    OBVIOUS
  <2>0. Connections /\ Buffers /\ Attention /\ Conversations /\ Ownership /\ Answers
    BY DEF Safe
  <2>1. Connections'
    BY <2>0, ConnectionsNext
  <2>2. Buffers'
    BY <2>0, BuffersNext
  <2>3. Attention'
    BY <2>0, AttentionNext
  <2>4. Conversations'
    BY <2>0, ConversationsNext
  <2>5. Ownership'
    BY <2>0, OwnershipNext
  <2>6. Answers'
    BY <2>0, AnswersNext
  <2> QED
    BY <2>1, <2>2, <2>3, <2>4, <2>5, <2>6 DEF Safe
<1> QED
  BY <1>1, <1>2, PTL DEF Spec

\* Every variable keeps its type, and cur is a descriptor exactly while
\* handle_client_data runs (server.cpp:147-192).
THEOREM ServerTypes == Spec => []TypeOK
<1>1. Safe => TypeOK
  <2> SUFFICES ASSUME Safe
               PROVE  TypeOK
    OBVIOUS
  <2>0. Connections /\ Buffers /\ Ownership
    BY DEF Safe
  <2>1. \A c \in Clients :
          /\ Len(requests[c]) <= MaxRequests
          /\ \A i \in DOMAIN requests[c] : requests[c][i] \in Commands
          /\ Len(wire[c]) <= RecvBuffer
          /\ unread[c] \in 0..SendBuffer
    BY <2>0 DEF Buffers
  <2>2. Pending \subseteq Clients
    BY <2>0 DEF Connections, ConnectionTypes, Pending
  <2>3. listening \in BOOLEAN
    BY <2>0 DEF Connections, ConnectionTypes
  <2>4. /\ peer \in [Clients -> {"new", "up", "closed", "reset"}]
        /\ conn \in [Descriptors -> Clients \cup {NoClient}]
        /\ ready \subseteq Descriptors
        /\ pc \in {"start", "wait", "dispatch", "accept", "recv", "process",
                   "send", "stopped"}
        /\ events \subseteq Descriptors \cup {Listen}
        /\ cur \in (IF InHandler THEN Descriptors ELSE {NoFd})
    BY <2>0 DEF Connections, ConnectionTypes
  <2>5. total_sent \in 0..(AnswerUnits - 1)
    BY <2>0 DEF Buffers
  <2>6. DOMAIN store \subseteq Keys /\ author \in [Keys -> Clients \cup {NoClient}]
    BY <2>0 DEF Ownership
  <2> QED
    BY <2>1, <2>2, <2>3, <2>4, <2>5, <2>6 DEF TypeOK
<1> QED
  BY <1>1, ServerSafe, PTL

\* The map of connections names the open descriptors, and neither the handler
\* nor an event of the batch refers to one that handle_client_disconnect has
\* closed (server.cpp:153, 173-176, 194-200).
THEOREM HandlersUseOpenDescriptors == Spec => []NoUseAfterClose
<1>1. Safe => NoUseAfterClose
  BY DEF Safe, Connections
<1> QED
  BY <1>1, ServerSafe, PTL

\* When the server waits in epoll_wait, every connection that has data or has
\* ended is on the ready list: reading until EAGAIN is enough for
\* edge-triggered epoll, whatever arrives in between (server.cpp:156-191).
THEOREM NoDataForgotten == Spec => []NoForgottenData
<1>1. Safe => NoForgottenData
  <2> SUFFICES ASSUME Safe, pc = "wait", NEW d \in Open, Readable(d)
               PROVE  d \in ready
    BY DEF NoForgottenData
  <2>1. EdgeRemembered /\ BatchHandled
    BY DEF Safe, Attention
  <2>2. events = {} /\ ~ InHandler
    BY <2>1 DEF BatchHandled, InHandler
  <2> QED
    BY <2>1, <2>2 DEF EdgeRemembered
<1> QED
  BY <1>1, ServerSafe, PTL

\* Between two handlers no buffer holds a complete message
\* (server.cpp:165-177).
THEOREM NoMessageForgotten == Spec => []NoForgottenMessage
<1>1. Safe => NoForgottenMessage
  BY DEF Safe, Attention, MessagesHandled, Connections, NoUseAfterClose, NoForgottenMessage
<1> QED
  BY <1>1, ServerSafe, PTL

\* The answers a client is sent are those to its executed requests, in the
\* order of execution, each whole, whatever part of them each send took
\* (process_command, send_response, server.cpp:202-289).
THEOREM AnswersAreRight == Spec => []AnswersMatchRequests
<1>1. Safe => AnswersMatchRequests
  <2> SUFFICES ASSUME Safe, NEW c \in Clients, NEW i \in DOMAIN stream[c]
               PROVE  LET n == (i - 1) \div AnswerUnits + 1
                          u == stream[c][i]
                      IN  /\ n \in DOMAIN applied[c]
                          /\ u.id = applied[c][n] /\ u.unit = 1 + ((i - 1) % AnswerUnits)
                          /\ Intact(c) => (u.text = "ERROR_INVALID_COMMAND"
                                              <=> requests[c][u.id].type = "INVALID")
    BY DEF AnswersMatchRequests
  <2>1. Answers /\ Conversations
    BY DEF Safe
  <2>2. PICK s, ap, rs : s = stream[c] /\ ap = applied[c] /\ rs = requests[c]
    OBVIOUS
  <2>3. s \in Seq(Units) /\ ap \in Seq(Nat)
    BY <2>1, <2>2 DEF Answers, Conversations
  <2>4. i \in 1..Len(s) /\ DOMAIN ap = 1..Len(ap)
    BY <2>2, <2>3
  <2>5. UnitOf(rs, ap, i, s[i])
    BY <2>1, <2>2, <2>4 DEF Answers
  <2>6. PICK n \in 1..Len(ap), t \in 1..AnswerUnits :
          /\ i = (n - 1) * AnswerUnits + t
          /\ s[i].id = ap[n] /\ s[i].unit = t /\ TextFits(rs, s[i])
    BY <2>5 DEF UnitOf
  <2>7. PICK q, r : q = n - 1 /\ r = t - 1
    OBVIOUS
  <2>8. AnswerUnits \in Nat /\ q \in Nat /\ r \in 0..(AnswerUnits - 1)
    <3>1. AnswerUnits \in Nat
      BY Bounds
    <3>2. n \in Nat /\ n > 0
      BY <2>3
    <3> QED
      BY <2>7, <3>1, <3>2
  <2>9. i - 1 = q * AnswerUnits + r
    <3>1. q * AnswerUnits \in Nat
      BY <2>8
    <3>2. i = q * AnswerUnits + t /\ t \in Int
      BY <2>6, <2>7
    <3> QED
      BY <2>7, <2>8, <3>1, <3>2
  <2>10. (i - 1) \div AnswerUnits = q /\ (i - 1) % AnswerUnits = r
    BY <2>8, <2>9, Quotient
  <2>11. n = q + 1 /\ t = 1 + r
    BY <2>7, <2>8
  <2>12. Intact(c) => (s[i].text = "ERROR_INVALID_COMMAND"
                          <=> rs[s[i].id].type = "INVALID")
    BY <2>2, <2>6 DEF TextFits, Intact, Whole
  <2> QED
    BY <2>2, <2>4, <2>6, <2>10, <2>11, <2>12
<1> QED
  BY <1>1, ServerSafe, PTL

\* The requests of a connection are executed in the order sent, none twice, and
\* without zero bytes none is left out, however recv cuts the data; at most one
\* executed request is not answered completely (server.cpp:156-177).
THEOREM RequestsInOrder == Spec => []AppliedInOrder
<1>1. Safe => AppliedInOrder
  <2> SUFFICES ASSUME Safe, NEW c \in Clients
               PROVE  LET answered == Len(stream[c]) \div AnswerUnits
                          current  == pc = "send" /\ conn[cur] = c
                      IN  /\ \A i \in DOMAIN applied[c] :
                               /\ applied[c][i] <= Len(requests[c])
                               /\ i > 1 => applied[c][i - 1] < applied[c][i]
                               /\ Intact(c) => applied[c][i] = i
                          /\ peer[c] = "up" =>
                               Len(applied[c]) \in
                                   (IF current THEN {answered + 1}
                                    ELSE IF c \in Served THEN {answered}
                                    ELSE {answered, answered + 1})
    BY DEF AppliedInOrder
  <2>1. Answers /\ Conversations
    BY DEF Safe
  <2>2. PICK ap, rs : ap = applied[c] /\ rs = requests[c]
    OBVIOUS
  <2>3. /\ ap \in Seq(Nat) /\ rs \in Seq(Commands)
        /\ \A i \in 1..Len(ap) : ap[i] \in 1..Len(rs)
        /\ \A i, j \in 1..Len(ap) : i < j => ap[i] < ap[j]
        /\ Whole(rs) => \A i \in 1..Len(ap) : ap[i] = i
    BY <2>1, <2>2 DEF Conversations, Faithful, Conversation
  <2>4. ASSUME NEW i \in DOMAIN ap
        PROVE  /\ ap[i] <= Len(rs)
               /\ i > 1 => ap[i - 1] < ap[i]
               /\ Whole(rs) => ap[i] = i
    <3>1. i \in 1..Len(ap) /\ Len(ap) \in Nat
      BY <2>3
    <3>2. i > 1 => i - 1 \in 1..Len(ap) /\ i - 1 < i
      BY <3>1
    <3>3. ap[i] \in 1..Len(rs) /\ Len(rs) \in Nat
      BY <2>3, <3>1
    <3>4. ap[i] <= Len(rs)
      BY <3>3
    <3> QED
      BY <2>3, <3>1, <3>2, <3>4
  <2>5. Intact(c) = Whole(rs)
    BY <2>2 DEF Intact, Whole
  <2>6. PICK q \in Nat, t \in 0..(AnswerUnits - 1) :
          /\ Len(stream[c]) = q * AnswerUnits + t
          /\ peer[c] = "up" => \/ Current(c) /\ Len(ap) = q + 1
                               \/ ~ Current(c) /\ c \in Served /\ Len(ap) = q
                               \/ ~ Current(c) /\ c \notin Served /\ Len(ap) \in {q, q + 1}
    BY <2>1, <2>2 DEF Answers, Written, Progress
  <2>7. Len(stream[c]) \div AnswerUnits = q
    <3>1. AnswerUnits \in Nat
      BY Bounds
    <3> QED
      BY <2>6, <3>1, Quotient
  <2>8. peer[c] = "up" =>
          Len(ap) \in (IF pc = "send" /\ conn[cur] = c THEN {q + 1}
                       ELSE IF c \in Served THEN {q} ELSE {q, q + 1})
    BY <2>6 DEF Current
  <2> QED
    BY <2>2, <2>4, <2>5, <2>7, <2>8
<1> QED
  BY <1>1, ServerSafe, PTL

\* While the client that wrote an entry is connected, no other client reads,
\* changes or deletes it (client_id, server.h:18-21, and the ownership test of
\* the cache).
THEOREM ConnectedClientsAreIsolated == Spec => IsolatedWhileOpen
<1>1. Safe /\ [Next]_vars =>
        [Touches => author[reply'.key] \in {conn[cur]} \cup (Clients \ Served)]_vars
  <2> SUFFICES ASSUME Safe, Next, Touches
               PROVE  author[reply'.key] \in {conn[cur]} \cup (Clients \ Served)
    OBVIOUS
  <2>0. Connections /\ Buffers /\ Attention /\ Conversations /\ Ownership
    BY DEF Safe
  <2>1. /\ pc = "process" /\ pc' = "send" /\ reply' # reply
        /\ reply'.op # "add_key" /\ reply'.result = "SUCCESS"
    BY DEF Touches
  <2>2. Process
    <3>1. ~ (Start \/ EpollWait \/ Dispatch \/ Accept \/ AcceptEnds \/ RecvData
             \/ RecvEnds \/ RecvWouldBlock)
      BY <2>1 DEF Start, EpollWait, Dispatch, Accept, AcceptEnds, RecvData, RecvEnds,
                  RecvWouldBlock
    <3>2. ~ (SendData \/ SendUnheard \/ SendFails \/ EpollWaitFails \/ Stopped)
      BY <2>1 DEF SendData, SendUnheard, SendFails, EpollWaitFails, Stopped
    <3>3. ~ signal_handler
      BY <2>1 DEF signal_handler, stop
    <3>4. ~ \E c \in Clients : Connect(c) \/ Write(c) \/ Read(c) \/ Close(c)
      BY <2>1 DEF Connect, Write, Read, Close, serverVars
    <3> QED
      BY <3>1, <3>2, <3>3, <3>4 DEF Next, Server, Environment
  <2> DEFINE c == conn[cur]
             n == FirstMessage(clients[cur])
             m == SubSeq(clients[cur], 1, n)
  <2>3. PICK cmd \in Parses(m, c), text \in Texts :
          process_command(cmd, client_id(cur), text)
    BY <2>2 DEF Process
  <2>4. cmd \in Commands /\ client_id(cur) = cur
    <3>1. Parses(m, c) \subseteq Commands
      BY <2>0, <2>1, ParsedCommand
    <3> QED
      BY <2>3, <3>1 DEF client_id
  <2>5. PICK k : k = reply'.key
    OBVIOUS
  <2>6. k \in DOMAIN store /\ store[k].client_id = cur
    BY <2>1, <2>3, <2>4, <2>5, CommandEffect
  <2>7. author[k] \in Clients /\ \A d \in Open : conn[d] = author[k] => d = cur
    BY <2>0, <2>6 DEF Ownership
  <2>8. author[k] \in Served => author[k] = conn[cur]
    BY <2>7 DEF Served
  <2> QED
    BY <2>5, <2>7, <2>8
<1> QED
  BY <1>1, ServerSafe, PTL DEF Spec, IsolatedWhileOpen
=============================================================================
