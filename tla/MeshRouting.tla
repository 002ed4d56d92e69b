----------------------------- MODULE MeshRouting -----------------------------
(***************************************************************************)
(* How two users find each other through a mesh of nodes: the search and   *)
(* routing of mys_mesh/node.py over wires that deliver in order until they *)
(* break (wire.py).                                                        *)
(*                                                                         *)
(* Two nodes, the seekers, search the channel they share.  A request is    *)
(* known by its author and number, a route by the node that answered and   *)
(* the request: both ids are random in the code.  An end of a route is an  *)
(* entry whose a is None; its transport is closed exactly when the entry   *)
(* goes.  What travels on a route after it was found is left out.          *)
(***************************************************************************)
EXTENDS Integers, SequencesExt, FiniteSetsExt

CONSTANTS
    Node, Seeker,
    Nonce,       \* the nonce of a seeker's search
    Hour,        \* the hours in which a search may begin
    TtlMax, RouteMax,
    Network,     \* the networks looked at, see Networks
    None

\* Networks: edge, the pairs of neighbours at the start; suspends, whether sending
\* an answer lets other tasks run; timesOut, whether a search may end without an
\* answer; asks, requests of a search (bound); breaks, links that break (bound).
Networks == [edge : SUBSET SUBSET Node, suspends : BOOLEAN, timesOut : BOOLEAN,
             asks : Nat \ {0}, breaks : Nat]

ASSUME MeshAssumption ==
    /\ Seeker \subseteq Node /\ None \notin Node
    /\ Network \subseteq Networks
    /\ \A w \in Network : \A e \in w.edge : \E m, n \in e : m # n /\ e = {m, n}
    /\ Nonce \in [Seeker -> Nat]
    /\ Hour \subseteq Nat
    /\ {TtlMax, RouteMax} \subseteq Nat \ {0}

VARIABLES
    network,    \* the network it all happens in
    links,      \* _links: the neighbours a node still counts on
    broken,     \* links that are closed
    wire,       \* packets on the way from one neighbour to the other
    seen,       \* _seen: [node, id, from], from None for one's own
    routes,     \* _routes: [node, id, a, b], a None at an end
    search,     \* the future of a seeker's search
    result,     \* its route and role
    asked,      \* requests sent
    hour,       \* the hour the search began in
    answering   \* _on_rreq while its answer is being sent: [node, from, id]

net == <<links, broken, wire>>
tables == <<seen, routes>>
finding == <<network, search, result, asked, hour>>
vars == <<net, tables, finding, answering>>

Edge == network.edge
MaxAsks == network.asks
MaxBreaks == network.breaks

ReqId == Seeker \X (1 .. MaxAsks)
RouteId == [by : Seeker, req : ReqId]
MeshRole == {"INITIATOR", "RESPONDER"}
Packet == [type : {"RREQ"}, id : ReqId, ttl : 1 .. TtlMax]
          \cup [type : {"RREP"}, id : ReqId, route : RouteId]
          \cup [type : {"RERR"}, route : RouteId]
Seeing == [node : Node, id : ReqId, from : Node \cup {None}]
Route == [node : Node, id : RouteId, a : Node \cup {None}, b : Node]

TypeOK ==
    /\ network \in Network
    /\ links \in [Node -> SUBSET Node]
    /\ broken \subseteq Edge
    /\ \A m, n \in Node : wire[m, n] \in Seq(Packet)
    /\ seen \subseteq Seeing /\ routes \subseteq Route
    /\ search \in [Seeker -> {"none", "seeking", "found", "ended"}]
    /\ \A s \in Seeker : (result[s] = None) = (search[s] # "found")
    /\ asked \in [Seeker -> 0 .. MaxAsks] /\ hour \in [Seeker -> Hour]
    /\ answering \subseteq [node : Seeker, from : Node, id : RouteId]
    \* a node has one entry per route and one neighbour per request
    /\ \A r, q \in routes : r.node = q.node /\ r.id = q.id => r = q
    /\ \A r, q \in seen : r.node = q.node /\ r.id = q.id => r = q

Init ==
    /\ network \in Network
    /\ links = [n \in Node |-> {m \in Node : m # n /\ {m, n} \in Edge}]
    /\ broken = {}
    /\ wire = [p \in Node \X Node |-> <<>>]
    /\ seen = {} /\ routes = {} /\ answering = {}
    /\ search = [s \in Seeker |-> "none"]
    /\ result = [s \in Seeker |-> None]
    /\ asked = [s \in Seeker |-> 0]
    /\ hour \in [Seeker -> Hour]

-----------------------------------------------------------------------------
(* Sending.                                                                *)

\* _send: nothing goes to a neighbour that has left or over a closed wire.
Sent(w, n, m, p) ==
    IF m \in links[n] /\ {m, n} \notin broken
    THEN [w EXCEPT ![n, m] = Append(@, p)]
    ELSE w

Broadcast(w, n, p, exclude) ==
    FoldSet(LAMBDA m, v : Sent(v, n, m, p), w, links[n] \ {exclude})

Rreq(id, ttl) == [type |-> "RREQ", id |-> id, ttl |-> ttl]
Rrep(id, route) == [type |-> "RREP", id |-> id, route |-> route]
Rerr(route) == [type |-> "RERR", route |-> route]

Other(r, m) == IF m = r.a THEN r.b ELSE r.a
RoutesOf(n) == {r \in routes : r.node = n}
Known(n, id) == \E r \in routes : r.node = n /\ r.id = id
Full(n) == Cardinality(RoutesOf(n)) >= RouteMax

-----------------------------------------------------------------------------
(* Searching.                                                              *)

Find(s) ==
    /\ search[s] = "none"
    /\ search' = [search EXCEPT ![s] = "seeking"]
    /\ UNCHANGED <<net, tables, result, asked, network, hour, answering>>

AskNoMore(s) == FALSE
\* Requests repeat every rreq_retry; of the bounded number the last is kept until
\* both users search.
MayAskAgain(s) == \A t \in Seeker : search[t] # "none"

Ask(s) ==
    /\ search[s] = "seeking" /\ asked[s] < MaxAsks
    /\ asked[s] = 0 \/ asked[s] < MaxAsks - 1 \/ MayAskAgain(s)
    /\ asked' = [asked EXCEPT ![s] = @ + 1]
    /\ seen' = seen \cup {[node |-> s, id |-> <<s, asked[s] + 1>>, from |-> None]}
    /\ wire' = Broadcast(wire, s, Rreq(<<s, asked[s] + 1>>, TtlMax), None)
    /\ UNCHANGED <<links, broken, routes, search, result, network, hour, answering>>

\* wait_for's time is up: the future is cancelled, the requests stay known.
SearchEnds(s) ==
    /\ network.timesOut /\ search[s] = "seeking"
    /\ search' = [search EXCEPT ![s] = "ended"]
    /\ UNCHANGED <<net, tables, result, asked, network, hour, answering>>

\* The tag of the request is one of those the search registered: the hour it
\* began in and the one before.
Recognises(n, author) ==
    /\ n \in Seeker /\ search[n] = "seeking"
    /\ hour[author] \in {hour[n], hour[n] - 1}

Resolved(s, role, id) ==
    /\ search' = [search EXCEPT ![s] = "found"]
    /\ result' = [result EXCEPT ![s] = [role |-> role, id |-> id]]

-----------------------------------------------------------------------------
(* Packets.  A read loop that is sending an answer takes no other packet.  *)

Reads(m, n, type) ==
    /\ m \in links[n] /\ wire[m, n] # <<>>
    /\ Head(wire[m, n]).type = type
    /\ \A x \in answering : ~(x.node = n /\ x.from = m)
Taken(m, n) == [wire EXCEPT ![m, n] = Tail(@)]

Repeated(n, id) == \E x \in seen : x.node = n /\ x.id = id

Remembered(n, id, m) == seen' = seen \cup {[node |-> n, id |-> id, from |-> m]}

\* A request heard before.
DropRreq(m, n) ==
    /\ Reads(m, n, "RREQ")
    /\ Repeated(n, Head(wire[m, n]).id)
    /\ wire' = Taken(m, n)
    /\ UNCHANGED <<links, broken, tables, finding, answering>>

AnswersAnyNonce(n, author) == TRUE
Answers(n, author) == Nonce[n] < Nonce[author]

\* One's own peer is looking for the channel: the smaller nonce answers.  The
\* future is resolved when the answer has been sent.
AnswerRreq(m, n) ==
    /\ Reads(m, n, "RREQ")
    /\ LET p == Head(wire[m, n])
           id == [by |-> n, req |-> p.id]
       IN  /\ ~Repeated(n, p.id) /\ Recognises(n, p.id[1])
           /\ Remembered(n, p.id, m)
           /\ IF Answers(n, p.id[1]) /\ ~Full(n)
              THEN /\ routes' = routes \cup {[node |-> n, id |-> id, a |-> None, b |-> m]}
                   /\ wire' = Sent(Taken(m, n), n, m, Rrep(p.id, id))
                   /\ IF network.suspends
                      THEN /\ answering' = answering \cup {[node |-> n, from |-> m, id |-> id]}
                           /\ UNCHANGED <<search, result>>
                      ELSE Resolved(n, "RESPONDER", id) /\ UNCHANGED answering
              ELSE /\ wire' = Taken(m, n)
                   /\ UNCHANGED <<routes, search, result, answering>>
    /\ UNCHANGED <<links, broken, asked, network, hour>>

\* Anybody else's: passed on while hops are left.  The tag of a search that has
\* just ended may still be registered; the request then stops here.
PassRreq(m, n) ==
    /\ Reads(m, n, "RREQ")
    /\ LET p == Head(wire[m, n])
       IN  /\ ~Repeated(n, p.id) /\ ~Recognises(n, p.id[1])
           /\ Remembered(n, p.id, m)
           /\ \/ /\ p.ttl > 1
                 /\ wire' = Broadcast(Taken(m, n), n, Rreq(p.id, p.ttl - 1), m)
              \/ /\ \/ p.ttl = 1
                    \/ n \in Seeker /\ search[n] \in {"found", "ended"}
                 /\ wire' = Taken(m, n)
    /\ UNCHANGED <<links, broken, routes, finding, answering>>

LateAnswerIgnored(id) == <<>>
LateAnswer(id) == <<Rerr(id)>>

\* The answer reaches the author of the request.
RrepArrives(m, n) ==
    /\ Reads(m, n, "RREP")
    /\ LET p == Head(wire[m, n])
       IN  /\ p.id[1] = n
           /\ \/ /\ Known(n, p.route)
                 /\ wire' = Taken(m, n)
                 /\ UNCHANGED <<routes, search, result>>
              \/ /\ ~Known(n, p.route) /\ search[n] # "seeking"
                 /\ wire' = IF LateAnswer(p.route) = <<>> THEN Taken(m, n)
                            ELSE Sent(Taken(m, n), n, m, Head(LateAnswer(p.route)))
                 /\ UNCHANGED <<routes, search, result>>
              \/ /\ ~Known(n, p.route) /\ search[n] = "seeking"
                 /\ routes' = routes \cup {[node |-> n, id |-> p.route, a |-> None, b |-> m]}
                 /\ Resolved(n, "INITIATOR", p.route)
                 /\ wire' = Taken(m, n)
    /\ UNCHANGED <<links, broken, seen, asked, network, hour, answering>>

\* On its way back it leaves a route at every node it passes, unless the
\* neighbour the request came from is gone or the table is full.
PassRrep(m, n) ==
    /\ Reads(m, n, "RREP")
    /\ LET p == Head(wire[m, n])
       IN  /\ p.id[1] # n
           /\ \E x \in seen :
                /\ x.node = n /\ x.id = p.id
                /\ IF x.from = m \/ x.from \notin links[n] \/ Known(n, p.route) \/ Full(n)
                   THEN wire' = Taken(m, n) /\ UNCHANGED routes
                   ELSE /\ routes' = routes \cup
                             {[node |-> n, id |-> p.route, a |-> x.from, b |-> m]}
                        /\ wire' = Sent(Taken(m, n), n, x.from, p)
    /\ UNCHANGED <<links, broken, seen, finding, answering>>

SpreadsNothing(w, n, r, m) == w
Spreads(w, n, r, m) == IF r.a = None THEN w ELSE Sent(w, n, Other(r, m), Rerr(r.id))

\* RERR from a neighbour of the route closes the end, or is passed on.
RerrArrives(m, n) ==
    /\ Reads(m, n, "RERR")
    /\ LET gone == {r \in RoutesOf(n) : r.id = Head(wire[m, n]).route /\ m \in {r.a, r.b}}
       IN  /\ routes' = routes \ gone
           /\ wire' = FoldSet(LAMBDA r, w : Spreads(w, n, r, m), Taken(m, n), gone)
    /\ UNCHANGED <<links, broken, seen, finding, answering>>

\* MeshTransport.close by the user of the route.
Close(r) ==
    /\ r.a = None
    /\ search[r.node] = "found" /\ result[r.node].id = r.id
    /\ routes' = routes \ {r}
    /\ wire' = Sent(wire, r.node, r.b, Rerr(r.id))
    /\ UNCHANGED <<links, broken, seen, finding, answering>>

-----------------------------------------------------------------------------
(* Links.                                                                  *)

\* A link breaks; what is under way in either direction may be lost from some
\* packet on.
LinkBreaks(e) ==
    /\ e \notin broken /\ Cardinality(broken) < MaxBreaks
    /\ broken' = broken \cup {e}
    /\ \E m, n \in e : m # n /\ \E i \in 0 .. Len(wire[m, n]), j \in 0 .. Len(wire[n, m]) :
         wire' = [wire EXCEPT ![m, n] = SubSeq(@, 1, i), ![n, m] = SubSeq(@, 1, j)]
    /\ UNCHANGED <<links, tables, finding, answering>>

\* _drop_neighbor: its routes go, whoever is on their other side hears RERR.
Dropped(m, n, w) ==
    LET gone == {r \in RoutesOf(n) : m \in {r.a, r.b}}
    IN  /\ links' = [links EXCEPT ![n] = @ \ {m}]
        /\ broken' = broken \cup {{m, n}}
        /\ routes' = routes \ gone
        /\ wire' = FoldSet(LAMBDA r, v : Spreads(v, n, r, m), [w EXCEPT ![m, n] = <<>>], gone)

NeighborGone(m, n) ==
    /\ m \in links[n] /\ {m, n} \in broken /\ wire[m, n] = <<>>
    /\ \A x \in answering : ~(x.node = n /\ x.from = m)
    /\ Dropped(m, n, wire)
    /\ UNCHANGED <<seen, finding, answering>>

\* set_result after the answer was sent; on a future that is done meanwhile it
\* raises out of the read loop, whose end drops the neighbour.
AnswerSent(x) ==
    /\ x \in answering
    /\ answering' = answering \ {x}
    /\ IF search[x.node] = "seeking"
       THEN Resolved(x.node, "RESPONDER", x.id) /\ UNCHANGED <<net, routes>>
       ELSE Dropped(x.from, x.node, wire) /\ UNCHANGED <<search, result>>
    /\ UNCHANGED <<seen, asked, network, hour>>

-----------------------------------------------------------------------------

Receive(m, n) ==
    \/ DropRreq(m, n) \/ AnswerRreq(m, n) \/ PassRreq(m, n)
    \/ RrepArrives(m, n) \/ PassRrep(m, n) \/ RerrArrives(m, n)
    \/ NeighborGone(m, n)

Next ==
    \/ \E s \in Seeker : Find(s) \/ Ask(s) \/ SearchEnds(s)
    \/ \E m, n \in Node : Receive(m, n)
    \/ \E r \in routes : Close(r)
    \/ \E e \in Edge : LinkBreaks(e)
    \/ \E x \in answering : AnswerSent(x)

Spec == Init /\ [][Next]_vars

\* The tasks of every node run; both users search, and a search goes on asking.
\* Closing, timeouts and broken links are free.
FairSpec ==
    /\ Spec
    /\ \A n \in Node : WF_vars(\E m \in Node : Receive(m, n))
    /\ \A s \in Seeker : WF_vars(Find(s)) /\ WF_vars(Ask(s))

-----------------------------------------------------------------------------
(* Properties.                                                             *)

\* "test_simultaneous_search_makes_one_route": two searches that both succeed
\* have the same route, with opposite roles, as long as the links hold and an
\* answer is sent without waiting.
Calm == network.breaks = 0 /\ ~network.suspends
OneRoute ==
    Calm => \A s, t \in Seeker : s # t /\ search[s] = "found" /\ search[t] = "found" =>
        /\ result[s].id = result[t].id
        /\ result[s].role # result[t].role

\* What an entry at n knows of the neighbour m it leads to: that one has its part
\* of the route, or the message that takes the route down is on its way to n, or
\* the link is broken.
Leads(n, m, id) ==
    \/ \E q \in routes : q.node = m /\ q.id = id /\ n \in {q.a, q.b}
    \/ Rerr(id) \in ToSet(wire[m, n])
    \/ {m, n} \in broken

\* Every entry leads towards the node that answered; towards the author of the
\* request it leads unless the answer itself is still under way.
RoutesLead ==
    /\ TypeOK
    /\ \A r \in routes :
           /\ r.id.by # r.node => Leads(r.node, r.b, r.id)
           /\ r.a # None => \/ Leads(r.node, r.a, r.id)
                            \/ Rrep(r.id.req, r.id) \in ToSet(wire[r.node, r.a])

\* Two users who keep searching find each other, as long as the links hold.
TheyMeet == Calm => ~<>[](\A s \in Seeker : search[s] = "seeking")

\* Nobody keeps an end of a route whose other end will never be there: the search
\* it answered has ended, or the other side has closed.  The routes of a bounded
\* search are finitely many, so there is always a later moment without such an end.
Forsaken(r) ==
    /\ r.a = None
    /\ \A s \in Seeker : s # r.node =>
         /\ search[s] \in {"found", "ended"}
         /\ \A q \in routes : ~(q.node = s /\ q.id = r.id)
NobodyHangs == Calm => []<>(\A r \in routes : ~Forsaken(r))
=============================================================================
