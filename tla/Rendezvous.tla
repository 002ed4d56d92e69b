------------------------------ MODULE Rendezvous ------------------------------
(***************************************************************************)
(* How two clients find each other: the rendezvous server's handlers       *)
(* (rendezvous_server.py), a client's connection from HELLO through the    *)
(* handshake to the open session (rendezvous.py, handshake.py,             *)
(* transport.py, the relay part of session.py) and the user's attempts     *)
(* that create the connections (main_window.py, service.py).               *)
(*                                                                         *)
(* One room.  Each attempt is a connection with a number of its own.  The  *)
(* server runs one handler per connection; a handler's step ends where it  *)
(* awaits.  CPace is symbolic: a point is the number of the connection it  *)
(* was drawn on, and the confirmation of a pair of points is the pair, as  *)
(* both sides derive it from the same two points and the same phrase.      *)
(***************************************************************************)
EXTENDS Integers, Protocol

CONSTANTS
    Client,      \* the users of the room
    MaxConns,    \* connections created in all (bound)
    Patience,    \* whether the UI waits for an attempt until it has ended
    None

ASSUME RendezvousAssumption ==
    /\ MaxConns \in Nat
    /\ Patience \subseteq BOOLEAN
    /\ None \notin Client

Conn == 1 .. MaxConns

VARIABLES
    patient, \* the UI waits for every attempt until it has ended
    owner,   \* who opened the connection, None if it was never opened
    phase,   \* "none", "joining", "handshake", "open", "closed"
    role,    \* the role PAIR gave
    point,   \* the peer's point once PAKE was received, 0 before
    trying,  \* _p2p_connecting: the connection the UI waits for, 0 if none
    toServer, toClient,   \* frames under way, oldest first
    closing, \* the client has closed the connection
    handler, \* server: where the connection's handler is
    lost,    \* server: the connection is known to be closed
    room     \* server: the members of the room, in order of entry

client == <<patient, owner, phase, role, point, trying>>
wire == <<toServer, toClient, closing>>
srv == <<handler, lost, room>>
vars == <<client, wire, srv>>

Role == {"INITIATOR", "RESPONDER"}
Member == [conn : Conn, role : Role]
Nobody == <<>>   \* no candidates: the direct path is found after the session is open

\* The messages of protocol.py that are exchanged; CLOSE stands for the end of
\* the connection.
Hello == [type |-> "HELLO", room_id |-> <<"room">>, candidates |-> Nobody]
Pake(y) == [type |-> "PAKE", y |-> <<y>>, ad |-> <<>>]
Confirm(ys) == [type |-> "CONFIRM", mac |-> <<ys>>]
Pair(r) == [type |-> "PAIR", role |-> r, peer_candidates |-> Nobody]

Relayed == {Pake(y) : y \in Conn} \cup {Confirm(ys) : ys \in SUBSET Conn}
ServerFrame == Relayed \cup {Pair(r) : r \in Role} \cup [type : {"PEER_LEFT", "CLOSE"}]
HandlerState == {"hello", "pairFirst", "pairSecond", "relay", "finally", "done"}

TypeOK ==
    /\ patient \in Patience /\ owner \in [Conn -> Client \cup {None}]
    /\ phase \in [Conn -> {"none", "joining", "handshake", "open", "closed"}]
    /\ role \in [Conn -> Role \cup {None}]
    /\ point \in [Conn -> Conn \cup {0}]
    /\ trying \in [Client -> Conn \cup {0}]
    /\ toServer \in [Conn -> Seq(Relayed \cup {Hello})]
    /\ toClient \in [Conn -> Seq(ServerFrame)]
    /\ closing \in [Conn -> BOOLEAN]
    /\ handler \in [Conn -> HandlerState]
    /\ lost \in [Conn -> BOOLEAN]
    /\ room \in Seq(Member) /\ Len(room) <= 2   \* "комната занята (v1: только 1:1)"
    /\ \A m \in ToSet(room) : handler[m.conn] \notin {"hello", "done"}

Init ==
    /\ patient \in Patience
    /\ owner = [c \in Conn |-> None]
    /\ phase = [c \in Conn |-> "none"]
    /\ role = [c \in Conn |-> None]
    /\ point = [c \in Conn |-> 0]
    /\ trying = [u \in Client |-> 0]
    /\ toServer = [c \in Conn |-> <<>>]
    /\ toClient = [c \in Conn |-> <<>>]
    /\ closing = [c \in Conn |-> FALSE]
    /\ handler = [c \in Conn |-> "hello"]
    /\ lost = [c \in Conn |-> FALSE]
    /\ room = <<>>

-----------------------------------------------------------------------------
(* The client.                                                             *)

Idle(u) == trying[u] = 0

\* The user connects unless the UI still waits for an attempt; the lowest unused
\* number is taken.  HELLO follows the connection at once.
Connect(u, c) ==
    /\ Idle(u)
    /\ phase[c] = "none" /\ \A b \in 1 .. (c - 1) : phase[b] # "none"
    /\ owner' = [owner EXCEPT ![c] = u]
    /\ phase' = [phase EXCEPT ![c] = "joining"]
    /\ trying' = [trying EXCEPT ![u] = c]
    /\ toServer' = [toServer EXCEPT ![c] = <<Hello>>]
    /\ UNCHANGED <<patient, role, point, toClient, closing, srv>>

Answered(c) == [u \in Client |-> IF trying[u] = c THEN 0 ELSE trying[u]]

\* The attempt fails or the session ends: the connection is closed and what was
\* not read is dropped.
Close(c) ==
    /\ phase' = [phase EXCEPT ![c] = "closed"]
    /\ trying' = Answered(c)
    /\ closing' = [closing EXCEPT ![c] = TRUE]
    /\ toClient' = [toClient EXCEPT ![c] = <<>>]

Alive(c) == phase[c] \in {"joining", "handshake", "open"}

\* join's timeout, a stopped session, or a broken connection.
Ends(c) ==
    /\ Alive(c)
    /\ Close(c)
    /\ UNCHANGED <<patient, owner, role, point, toServer, srv>>

\* _submit's time is up while the attempt goes on: opening the connection takes up
\* to 60 s more than the timeout it adds 10 s to, and the handshake has no limit.
UiGivesUp(u) ==
    /\ ~patient /\ trying[u] # 0
    /\ trying' = [trying EXCEPT ![u] = 0]
    /\ UNCHANGED <<patient, owner, phase, role, point, wire, srv>>

\* Clients write to each other inside RELAY; what is under way is kept as the
\* message it was written from.
Written(m) ==
    encode_message(IF m \in Relayed THEN [type |-> "RELAY", payload |-> encode_message(m)] ELSE m)

\* Every message with what is read of it.
ReadAs == UNION {{<<f, m>> : m \in
    IF f.type = "CLOSE" THEN {f}
    ELSE UNION {IF w.type = "RELAY" THEN decode_message(w.payload) ELSE {w} :
                    w \in decode_message(Written(f))}} : f \in ServerFrame}
Read(c) == {r[2] : r \in {q \in ReadAs : q[1] = Head(toClient[c])}}

Readable(c) == Alive(c) /\ toClient[c] # <<>>
Taken(c) == toClient' = [toClient EXCEPT ![c] = Tail(@)]
Sends(c, f) == toServer' = [toServer EXCEPT ![c] = Append(@, f)]

\* PAIR ends the wait; the handshake sends this side's point.
Paired(c) ==
    /\ phase[c] = "joining" /\ Readable(c)
    /\ \E m \in Read(c) : m.type = "PAIR" /\ role' = [role EXCEPT ![c] = m.role]
    /\ phase' = [phase EXCEPT ![c] = "handshake"]
    /\ Sends(c, Pake(c))
    /\ Taken(c)
    /\ UNCHANGED <<patient, owner, point, trying, closing, srv>>

PakeReceived(c) ==
    /\ phase[c] = "handshake" /\ point[c] = 0 /\ Readable(c)
    /\ \E m \in Read(c) :
           /\ m.type = "PAKE"
           /\ point' = [point EXCEPT ![c] = m.y[1]]
           /\ Sends(c, Confirm({c, m.y[1]}))
    /\ Taken(c)
    /\ UNCHANGED <<patient, owner, phase, role, trying, closing, srv>>

\* The confirmation is the one this side computed: the session opens.
UncheckedConfirm(c, m) == TRUE
ConfirmMatches(c, m) == m.mac = <<{c, point[c]}>>

ConfirmReceived(c) ==
    /\ phase[c] = "handshake" /\ point[c] # 0 /\ Readable(c)
    /\ \E m \in Read(c) : m.type = "CONFIRM" /\ ConfirmMatches(c, m)
    /\ phase' = [phase EXCEPT ![c] = "open"]
    /\ trying' = Answered(c)
    /\ Taken(c)
    /\ UNCHANGED <<patient, owner, role, point, toServer, closing, srv>>

\* A frame this phase does not expect raises.  An open session has had the PAKE and
\* CONFIRM of its peer, and another peer's come only after a PEER_LEFT.
Unexpected(c) ==
    \E m \in Read(c) :
        \/ m.type \in {"CLOSE", "PEER_LEFT"}
        \/ phase[c] = "joining" /\ m.type # "PAIR"
        \/ phase[c] = "handshake" /\ \/ m.type # IF point[c] = 0 THEN "PAKE" ELSE "CONFIRM"
                                     \/ m.type = "CONFIRM" /\ ~ConfirmMatches(c, m)
        \/ phase[c] = "open" /\ m.type = "PAIR"

Fails(c) ==
    /\ Readable(c) /\ Unexpected(c)
    /\ Close(c)
    /\ UNCHANGED <<patient, owner, role, point, toServer, srv>>

-----------------------------------------------------------------------------
(* The server.                                                             *)

Delivered(c, f) ==
    IF closing[c] THEN toClient ELSE [toClient EXCEPT ![c] = Append(@, f)]

Goes(c, pc) == handler' = [handler EXCEPT ![c] = pc]

RoleInOrder(c) == IF room = <<>> THEN "INITIATOR" ELSE "RESPONDER"
RoleByParity(c) == IF c % 2 = 1 THEN "INITIATOR" ELSE "RESPONDER"

HasPlace == Len(room) < 2

\* HELLO: into the room if it has a place, otherwise the handler returns.
Enter(c) ==
    /\ handler[c] = "hello" /\ toServer[c] # <<>> /\ ~lost[c]
    /\ toServer' = [toServer EXCEPT ![c] = Tail(@)]
    /\ \/ /\ HasPlace
          /\ room' = Append(room, [conn |-> c, role |-> RoleInOrder(c)])
          /\ Goes(c, IF room = <<>> THEN "relay" ELSE "pairFirst")
          /\ UNCHANGED toClient
       \/ /\ ~HasPlace
          /\ Goes(c, "done")
          /\ toClient' = Delivered(c, [type |-> "CLOSE"])
          /\ UNCHANGED room
    /\ UNCHANGED <<client, closing, lost>>

\* The second member's handler sends both PAIRs; sending on a connection known
\* to be closed raises, and the handler goes to its end.  room is a list the
\* handler unpacked on entry, its own member the last.
SendPair(c, m, next) ==
    /\ IF lost[m.conn]
       THEN Goes(c, "finally") /\ UNCHANGED toClient
       ELSE /\ Goes(c, next)
            /\ toClient' = Delivered(m.conn, Pair(m.role))
    /\ UNCHANGED <<client, toServer, closing, lost, room>>

PairFirst(c) == handler[c] = "pairFirst" /\ SendPair(c, room[1], "pairSecond")
PairSecond(c) ==
    /\ handler[c] = "pairSecond"
    /\ \E m \in ToSet(room) : m.conn = c /\ SendPair(c, m, "relay")

Others(c) == {m \in ToSet(room) : m.conn # c}

\* RELAY goes to whoever the other member is now; nobody, or a lost one: dropped,
\* respectively the end of this handler.
Forward(c) ==
    /\ handler[c] = "relay" /\ toServer[c] # <<>> /\ ~lost[c]
    /\ toServer' = [toServer EXCEPT ![c] = Tail(@)]
    /\ IF Others(c) = {}
       THEN UNCHANGED <<handler, toClient>>
       ELSE \E m \in Others(c) :
              IF lost[m.conn]
              THEN Goes(c, "finally") /\ UNCHANGED toClient
              ELSE /\ toClient' = Delivered(m.conn, Head(toServer[c]))
                   /\ UNCHANGED handler
    /\ UNCHANGED <<client, closing, lost, room>>

\* The connection is found closed, at once or when a ping stays unanswered; what
\* the handler has not read by then it may still read or lose.
Notice(c) ==
    /\ closing[c] /\ ~lost[c]
    /\ lost' = [lost EXCEPT ![c] = TRUE]
    /\ toServer' = [toServer EXCEPT ![c] = <<>>]
    /\ UNCHANGED <<client, toClient, closing, handler, room>>

HandlerStops(c) ==
    /\ lost[c] /\ handler[c] \in {"hello", "relay"}
    /\ Goes(c, IF handler[c] = "hello" THEN "done" ELSE "finally")
    /\ UNCHANGED <<client, wire, lost, room>>

LeavesSilently(c) == UNCHANGED toClient
\* PEER_LEFT to whoever stays, then the connection itself is closed.
Farewell(c) ==
    toClient' = [d \in Conn |->
        IF closing[d] \/ lost[d] THEN toClient[d]
        ELSE IF d = c THEN Append(toClient[d], [type |-> "CLOSE"])
        ELSE IF d \in {m.conn : m \in Others(c)}
        THEN Append(toClient[d], [type |-> "PEER_LEFT"])
        ELSE toClient[d]]

Leave(c) ==
    /\ handler[c] = "finally"
    /\ Goes(c, "done")
    /\ room' = SelectSeq(room, LAMBDA m : m.conn # c)
    /\ Farewell(c)
    /\ UNCHANGED <<client, toServer, closing, lost>>

-----------------------------------------------------------------------------

ServerStep(c) ==
    \/ Enter(c) \/ PairFirst(c) \/ PairSecond(c) \/ Forward(c)
    \/ Notice(c) \/ HandlerStops(c) \/ Leave(c)
ClientStep(c) ==
    Paired(c) \/ PakeReceived(c) \/ ConfirmReceived(c) \/ Fails(c)

Next ==
    \/ \E u \in Client, c \in Conn : Connect(u, c)
    \/ \E u \in Client : UiGivesUp(u)
    \/ \E c \in Conn : ServerStep(c) \/ ClientStep(c) \/ Ends(c)

Spec == Init /\ [][Next]_vars

\* The server's handlers and the clients' coroutines run; users, timeouts and
\* breaking connections are free.
FairSpec == Spec /\ \A c \in Conn : WF_vars(ServerStep(c)) /\ WF_vars(ClientStep(c))

-----------------------------------------------------------------------------
(* Properties.                                                             *)

\* A side that has opened its session did so with a side that took part in the
\* same exchange, never a leftover of an earlier pairing, and the two hold
\* opposite roles, so that one of them can send the first message.
AgreedPeers ==
    \A c \in Conn : phase[c] = "open" =>
        /\ point[point[c]] = c
        /\ role[point[c]] # role[c]

\* As long as the UI waits for each attempt to end, a session connects two
\* different users.
TwoClients == patient => \A c \in Conn : phase[c] = "open" => owner[point[c]] # owner[c]

\* Who is in a session with whom, every interleaving of two attempts considered.
SessionsAgree == TypeOK /\ AgreedPeers /\ TwoClients

\* When one side's connection has ended the other side's session ends too: with
\* MaxConns connections there is always a later moment at which nobody is left
\* alone in a session.  (Stated for all at once, it implies the ~> of each.)
PeerLearns ==
    []<>(\A c \in Conn : phase[c] = "open" => phase[point[c]] # "closed")

\* The room frees up: there is always a later moment at which nobody who has gone
\* keeps a place in it.
RoomFrees == []<>(\A m \in ToSet(room) : phase[m.conn] # "closed")

\* Whoever goes, at whatever moment, is missed by the peer and by the server.
LeaversAreMissed == PeerLearns /\ RoomFrees
=============================================================================
