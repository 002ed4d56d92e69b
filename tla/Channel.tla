-------------------------------- MODULE Channel --------------------------------
(***************************************************************************)
(* One attempt of two users to get a channel (service._connect), from the  *)
(* search to the direct channel.  mesh_path.pair looks for the peer on the *)
(* server and through the mesh at once and keeps one of the two; the       *)
(* handshake runs over what was kept; over the server's relay WebRtcLink   *)
(* then negotiates a data channel, and again whenever it fails.            *)
(*                                                                         *)
(* The two sides choose on their own.  The modules Rendezvous, MeshRouting *)
(* and P2PSession have the server, the mesh and the session in detail.     *)
(***************************************************************************)
EXTENDS Naturals, FiniteSets

CONSTANTS
    Party,       \* the two users
    Settings,    \* what a run may assume of its surroundings, see Setting
    Addresses,   \* where the interpreter puts a PeerConnection: its id()
    MaxOffers,   \* bound: offers of one session
    None

ASSUME ChannelAssumption ==
    /\ \A p \in Party : \E q \in Party : Party = {p, q} /\ p # q
    /\ MaxOffers \in Nat \ {0}

Peer(p) == CHOOSE q \in Party : q # p

\* answers: the user whose nonce is smaller; it answers the search of the other.
\* timely: MESH_GRACE is long enough for the server to bring the PAIR.
\* prompt: no search is cancelled or timed out between its result and its return.
\* reuses: a new PeerConnection may get the address of one that is gone.
\* chain: the initiator's session begins with a sending chain; one does not that resumes
\* a state in which it was the responder and had received nothing.
Setting == [answers : Party, initiator : Party, timely : BOOLEAN, prompt : BOOLEAN,
            reuses : BOOLEAN, chain : BOOLEAN]

ASSUME SettingsAssumption == Settings \subseteq Setting
ASSUME NoneAssumption == None \notin {"relay", "mesh"}

VARIABLES
    setting,   \* one of Settings, for the whole behaviour
    stage,     \* of the attempt: "idle", "pairing", "shaking", "live", "failed", "over"
    path,      \* what pair chose: None, "relay", "mesh"
    server,    \* the join task and its connection: "off", "asking", "paired", "failed", "left"
    found,     \* the find task: "off", "searching", "resolved", "returned", "failed", "lost"
    matched,   \* the server sent PAIR to both
    rrep,      \* the answer to the mesh search is on its way
    end,       \* MeshTransport of each side: "none", "open", "failed"
    rerr,      \* sides to which an RERR is on its way
    said,      \* handshake frames sent: PAKE, CONFIRM
    heard,     \* handshake frames received
    offers,    \* offers made: the number of the initiator's current PeerConnection
    chain,     \* the initiator's session can send
    wire,      \* of that connection: "none", "made", "offered", "unsent" (the offer was
               \* dropped), "answered", "checking", "open", "down", "done"
    address,   \* its id()
    closedPcs, \* _closed_pcs of the initiator's link
    retries,   \* retry tasks that sleep
    attached   \* per session the number of its _direct, 0 for none

pairing == <<stage, path, server, found, matched>>
mesh == <<rrep, end, rerr>>
shaking == <<said, heard>>
direct == <<chain, offers, wire, address, closedPcs, retries, attached>>
vars == <<setting, pairing, mesh, shaking, direct>>

-----------------------------------------------------------------------------
TypeOK ==
    /\ setting \in Settings
    /\ stage \in [Party -> {"idle", "pairing", "shaking", "live", "failed", "over"}]
    /\ path \in [Party -> {None, "relay", "mesh"}]
    /\ server \in [Party -> {"off", "asking", "paired", "failed", "left"}]
    /\ found \in [Party -> {"off", "searching", "resolved", "returned", "failed", "lost"}]
    /\ matched \in BOOLEAN /\ rrep \in BOOLEAN /\ rerr \subseteq Party
    /\ end \in [Party -> {"none", "open", "failed"}]
    /\ said \in [Party -> 0 .. 2] /\ heard \in [Party -> 0 .. 2]
    /\ offers \in 0 .. MaxOffers /\ retries \in 0 .. 1
    /\ chain \in BOOLEAN
    /\ wire \in {"none", "made", "offered", "unsent", "answered", "checking", "open", "down",
                "done"}
    /\ address \in Addresses \cup {None} /\ closedPcs \subseteq Addresses
    /\ attached \in [Party -> 0 .. MaxOffers]
    \* A side that is over its search holds no task of it, and a session that
    \* lives holds what it lives on.
    /\ \A p \in Party :
        /\ stage[p] \in {"shaking", "live"} =>
            /\ server[p] # "asking" /\ found[p] \notin {"searching", "resolved"}
            /\ path[p] = "relay" => server[p] = "paired" \/ attached[p] # 0

Init ==
    /\ setting \in Settings
    /\ stage = [p \in Party |-> "idle"] /\ path = [p \in Party |-> None]
    /\ server = [p \in Party |-> "off"] /\ found = [p \in Party |-> "off"]
    /\ matched = FALSE /\ rrep = FALSE /\ rerr = {}
    /\ end = [p \in Party |-> "none"]
    /\ said = [p \in Party |-> 0] /\ heard = [p \in Party |-> 0]
    /\ chain = setting.chain
    /\ offers = 0 /\ wire = "none" /\ address = None /\ closedPcs = {} /\ retries = 0
    /\ attached = [p \in Party |-> 0]

-----------------------------------------------------------------------------
(* The two searches.                                                       *)

Connect(p) ==
    /\ stage[p] = "idle"
    /\ stage' = [stage EXCEPT ![p] = "pairing"]
    /\ server' = [server EXCEPT ![p] = "asking"]
    /\ found' = [found EXCEPT ![p] = "searching"]
    /\ UNCHANGED <<setting, path, matched, mesh, shaking, direct>>

Pair ==
    /\ ~matched /\ \A p \in Party : server[p] = "asking"
    /\ matched' = TRUE
    /\ UNCHANGED <<setting, stage, path, server, found, mesh, shaking, direct>>

\* The other left the room, or the connection, after the PAIR.
PeerLeft(p) == matched /\ server[Peer(p)] \in {"failed", "left"}

Joined(p) ==
    /\ server[p] = "asking" /\ matched
    /\ server' = [server EXCEPT ![p] = "paired"]
    /\ UNCHANGED <<setting, stage, path, found, matched, mesh, shaking, direct>>

\* No server, or no peer in time; the PAIR may be on its way.
JoinFails(p) ==
    /\ server[p] = "asking" /\ ~(setting.timely /\ matched)
    /\ server' = [server EXCEPT ![p] = "failed"]
    /\ UNCHANGED <<setting, stage, path, found, matched, mesh, shaking, direct>>

\* The node of the smaller nonce hears the other's RREQ while it searches.
Answer(p) ==
    /\ p = setting.answers /\ found[p] = "searching" /\ found[Peer(p)] # "off"
    /\ end' = [end EXCEPT ![p] = "open"] /\ rrep' = TRUE
    /\ found' = [found EXCEPT ![p] = "resolved"]
    /\ UNCHANGED <<setting, stage, path, server, matched, rerr, shaking, direct>>

\* The answer arrives.  A search that is done by now has it refused.
RrepArrives(p) ==
    /\ p # setting.answers /\ rrep /\ rrep' = FALSE
    /\ IF found[p] = "searching"
       THEN /\ end' = [end EXCEPT ![p] = "open"]
            /\ found' = [found EXCEPT ![p] = "resolved"]
            /\ UNCHANGED rerr
       ELSE rerr' = rerr \cup {Peer(p)} /\ UNCHANGED <<end, found>>
    /\ UNCHANGED <<setting, stage, path, server, matched, shaking, direct>>

\* The future has its result; a turn or two of the loop later find returns it.
FindReturns(p) ==
    /\ found[p] = "resolved"
    /\ found' = [found EXCEPT ![p] = "returned"]
    /\ UNCHANGED <<setting, stage, path, server, matched, mesh, shaking, direct>>

\* The time of the search is over.  A result find had not yet returned is lost.
FindFails(p) ==
    /\ \/ found[p] = "searching" /\ found' = [found EXCEPT ![p] = "failed"]
       \/ found[p] = "resolved" /\ ~setting.prompt /\ found' = [found EXCEPT ![p] = "lost"]
    /\ UNCHANGED <<setting, stage, path, server, matched, mesh, shaking, direct>>

RerrArrives(p) ==
    /\ p \in rerr /\ ~rrep /\ rerr' = rerr \ {p}
    /\ end' = [end EXCEPT ![p] = IF @ = "open" THEN "failed" ELSE @]
    /\ UNCHANGED <<setting, pairing, rrep, shaking, direct>>

\* MeshTransport.close of p: the route is forgotten, the other end told.
CloseEnd(p) ==
    IF end[p] = "open"
    THEN end' = [end EXCEPT ![p] = "none"] /\ rerr' = rerr \cup {Peer(p)}
    ELSE UNCHANGED <<end, rerr>>

-----------------------------------------------------------------------------
(* The choice: pair.                                                       *)

Shakes(p, way) ==
    /\ stage' = [stage EXCEPT ![p] = "shaking"] /\ path' = [path EXCEPT ![p] = way]
    /\ said' = [said EXCEPT ![p] = 1]

\* The route of a search that came second is closed.
DropLoser(p) ==
    IF found[p] = "returned" THEN CloseEnd(p) ELSE UNCHANGED <<end, rerr>>

\* The server comes first, even if the mesh was faster.  A search that is not
\* done is cancelled: with it goes a result that find had not returned.
ChooseRelay(p) ==
    /\ stage[p] = "pairing" /\ server[p] = "paired"
    /\ setting.prompt => found[p] # "resolved"
    /\ found' = [found EXCEPT ![p] =
            CASE @ = "searching" -> "failed" [] @ = "resolved" -> "lost" [] OTHER -> @]
    /\ DropLoser(p)
    /\ Shakes(p, "relay")
    /\ UNCHANGED <<setting, server, matched, rrep, heard, direct>>

AnyTime(p) == server[p] # "paired"

\* The mesh has found the peer, and the server will not answer or did not in
\* MESH_GRACE: the join is cancelled and leaves the room.
ServerHadItsTime(p) ==
    \/ server[p] = "failed"
    \/ server[p] = "asking" /\ ~(setting.timely /\ server[Peer(p)] \in {"asking", "paired"})

ChooseMesh(p) ==
    /\ stage[p] = "pairing" /\ found[p] = "returned" /\ ServerHadItsTime(p)
    /\ server' = [server EXCEPT ![p] = IF @ = "asking" THEN "left" ELSE @]
    /\ Shakes(p, "mesh")
    /\ UNCHANGED <<setting, found, matched, mesh, heard, direct>>

FindsNobody(p) ==
    /\ stage[p] = "pairing" /\ server[p] = "failed" /\ found[p] \in {"failed", "lost"}
    /\ stage' = [stage EXCEPT ![p] = "failed"]
    /\ UNCHANGED <<setting, path, server, found, matched, mesh, shaking, direct>>

-----------------------------------------------------------------------------
(* The handshake, and the session.                                         *)

\* What p waits for was sent to it over the path it chose.
Reaches(p) ==
    /\ path[Peer(p)] = path[p] /\ said[Peer(p)] > heard[p]
    /\ path[p] = "mesh" => end[p] # "none"

\* The channel of p has ended, and p has read all that came over it.
Broken(p) ==
    /\ ~Reaches(p)
    /\ IF path[p] = "relay" THEN PeerLeft(p) ELSE end[p] # "open"

HearPake(p) ==
    /\ stage[p] = "shaking" /\ heard[p] = 0 /\ Reaches(p)
    /\ heard' = [heard EXCEPT ![p] = 1] /\ said' = [said EXCEPT ![p] = 2]
    /\ UNCHANGED <<setting, pairing, mesh, direct>>

NewPc ==
    /\ offers' = offers + 1 /\ wire' = "made"
    /\ address' \in Addresses \ (IF setting.reuses THEN {address} ELSE closedPcs \cup {address})

\* The session is there.  Over the relay it gets a link; the initiator's offers.
HearConfirm(p) ==
    /\ stage[p] = "shaking" /\ heard[p] = 1 /\ Reaches(p)
    /\ heard' = [heard EXCEPT ![p] = 2]
    /\ stage' = [stage EXCEPT ![p] = "live"]
    /\ IF path[p] = "relay" /\ p = setting.initiator
       THEN NewPc ELSE UNCHANGED <<offers, wire, address>>
    /\ UNCHANGED <<setting, path, server, found, matched, mesh, said, chain, closedPcs,
                   retries, attached>>

LeaveTransport(p) == UNCHANGED <<server, end, rerr>>

\* The transport of p is closed: its WebSocket, or its end of the route.
CloseTransport(p) ==
    IF path[p] = "relay"
    THEN server' = [server EXCEPT ![p] = "left"] /\ UNCHANGED <<end, rerr>>
    ELSE CloseEnd(p) /\ UNCHANGED server

\* handshake raises: _connect closes what it opened and reports the error.
HandshakeFails(p) ==
    /\ stage[p] = "shaking" /\ Broken(p)
    /\ stage' = [stage EXCEPT ![p] = "failed"]
    /\ CloseTransport(p)
    /\ UNCHANGED <<setting, path, found, matched, rrep, shaking, direct>>

\* The session ends when its relay or route does and no direct channel lives,
\* or by the user's stop_session; either way its transport and its link close.
SessionEnds(p) ==
    /\ stage[p] = "live"
    /\ stage' = [stage EXCEPT ![p] = "over"]
    /\ CloseTransport(p)
    /\ attached' = [attached EXCEPT ![p] = 0]
    /\ wire' = IF wire \in {"none", "unsent", "done"} THEN wire ELSE "down"
    /\ UNCHANGED <<setting, path, found, matched, rrep, shaking, chain, offers, address, closedPcs,
                   retries>>

Disconnected(p) == Broken(p) /\ attached[p] = 0 /\ SessionEnds(p)
StopSession(p) == SessionEnds(p)

-----------------------------------------------------------------------------
(* The direct channel: WebRtcLink and _start_direct.                       *)

Relayed(p) == stage[p] = "live" /\ path[p] = "relay" /\ server[p] = "paired" /\ ~PeerLeft(p)

\* What the peer seals reaches the session of the initiator, which can send from then on.
HearText ==
    /\ ~chain /\ \A p \in Party : Relayed(p)
    /\ chain' = TRUE
    /\ UNCHANGED <<setting, pairing, mesh, shaking, offers, wire, address, closedPcs, retries,
                   attached>>

\* The session drops a signal without a word while it cannot send.
send_signal == IF chain THEN "offered" ELSE "unsent"

\* _offer has the description; the signal goes out over the session.
SendOffer ==
    /\ wire = "made" /\ Relayed(setting.initiator)
    /\ wire' = send_signal
    /\ UNCHANGED <<setting, pairing, mesh, shaking, chain, offers, address, closedPcs, retries,
                   attached>>

\* The responder makes a new PeerConnection, closes the one it had, and answers, which
\* it can: to have opened the offer is to have a sending chain.
HandleOffer ==
    LET r == Peer(setting.initiator) IN
    /\ wire = "offered" /\ Relayed(r)
    /\ wire' = "answered"
    /\ attached' = [attached EXCEPT ![r] = 0]
    /\ UNCHANGED <<setting, pairing, mesh, shaking, chain, offers, address, closedPcs, retries>>

HandleAnswer ==
    /\ wire = "answered" /\ Relayed(setting.initiator)
    /\ wire' = "checking"
    /\ UNCHANGED <<setting, pairing, mesh, shaking, chain, offers, address, closedPcs, retries,
                   attached>>

\* ICE: the data channel opens, or does not, or opens and fails.
Ice ==
    /\ \/ wire = "checking" /\ wire' \in {"open", "down"}
       \/ wire = "open" /\ wire' = "down"
    /\ UNCHANGED <<setting, pairing, mesh, shaking, chain, offers, address, closedPcs, retries,
                   attached>>

\* opened: the session of p takes the channel, in place of the one it had.
Opened(p) ==
    /\ wire = "open" /\ stage[p] = "live" /\ path[p] = "relay" /\ attached[p] < offers
    /\ attached' = [attached EXCEPT ![p] = offers]
    /\ UNCHANGED <<setting, pairing, mesh, shaking, chain, offers, wire, address, closedPcs,
                   retries>>

\* _direct_loop of p: the channel is gone.
Detached(p) ==
    /\ attached[p] # 0 /\ (attached[p] < offers \/ wire \in {"down", "done"})
    /\ attached' = [attached EXCEPT ![p] = 0]
    /\ UNCHANGED <<setting, pairing, mesh, shaking, chain, offers, wire, address, closedPcs,
                   retries>>

FireClosedOnce ==
    /\ wire = "down" /\ wire' = "done"
    /\ closedPcs' = closedPcs \cup {address}
    /\ retries' = IF closedPcs = {} THEN 1 ELSE 0
    /\ UNCHANGED <<setting, pairing, mesh, shaking, chain, offers, address, attached>>

\* One "closed" per address, and never for a connection that was replaced: the
\* initiator's retry falls asleep.
FireClosed ==
    /\ wire = "down" /\ wire' = "done"
    /\ closedPcs' = closedPcs \cup {address}
    /\ retries' = IF address \in closedPcs THEN retries ELSE retries + 1
    /\ UNCHANGED <<setting, pairing, mesh, shaking, chain, offers, address, attached>>

\* It wakes, after ten seconds up to two minutes, and offers anew if the
\* session is still the one.
Retry ==
    /\ retries > 0 /\ retries' = retries - 1
    /\ IF stage[setting.initiator] = "live" /\ offers < MaxOffers
       THEN NewPc ELSE UNCHANGED <<offers, wire, address>>
    /\ UNCHANGED <<setting, pairing, mesh, shaking, chain, closedPcs, attached>>

-----------------------------------------------------------------------------
\* What the tasks of a side do once they can.
Runs(p) ==
    \/ Joined(p) \/ RrepArrives(p) \/ FindReturns(p) \/ RerrArrives(p)
    \/ ChooseRelay(p) \/ ChooseMesh(p) \/ FindsNobody(p)
    \/ HearPake(p) \/ HearConfirm(p) \/ HandshakeFails(p)
    \/ Disconnected(p) \/ Opened(p) \/ Detached(p)

Negotiates == SendOffer \/ HandleOffer \/ HandleAnswer \/ FireClosed \/ Retry

Scheduled ==
    \/ Pair \/ Negotiates
    \/ \E p \in Party : Runs(p)
    \* The searches end by their timeouts, ICE by its own.
    \/ \E p \in Party : JoinFails(p) \/ FindFails(p)
    \/ (wire = "checking" /\ Ice)

Next ==
    \/ Scheduled
    \/ \E p \in Party : Connect(p) \/ Answer(p) \/ StopSession(p)
    \/ HearText \/ Ice

Spec == Init /\ [][Next]_vars
\* No step takes back another: behaviours are finite but for stuttering, and
\* fairness for all of this is fairness for each.
FairSpec == Spec /\ WF_vars(Scheduled)

-----------------------------------------------------------------------------
Using(p) ==
    \/ stage[p] = "pairing"
    \/ stage[p] \in {"shaking", "live"} /\ path[p] = "mesh"

\* Whoever waits in a room or on a route that the other left is told: an attempt
\* ends, though the two sides may have chosen different paths, and no session
\* outlives the other's.
AttemptsEnd ==
    []<>(\A p \in Party :
            /\ stage[p] \in {"idle", "live", "failed", "over"}
            /\ (stage[p] = "live") => stage[Peer(p)] = "live")

\* ... where no search loses its result.  A result that find was about to return
\* when its time was over, or when pair cancelled it, is lost (mesh_path.py:81,
\* node.py:152) while the route stays and is kept alive: the other side, in its
\* handshake, then waits for ever.
AttemptsEndIfPrompt == setting.prompt => AttemptsEnd

\* A mesh route that lost against the server does not stay in the tables of the
\* nodes it leads through ("чтобы не висел у ретрансляторов", mesh_path.py:84),
\* again where no search loses its result.
LosersClose ==
    setting.prompt => []<>(\A p \in Party : (end[p] = "open") => Using(p))

\* Neither an attempt nor a route is left over.
NothingHangs == AttemptsEndIfPrompt /\ LosersClose

\* When the server pairs everybody who waits within MESH_GRACE the two sides do
\* not part: with one on the relay, the other does not go to the mesh.
GraceKeepsTogether ==
    /\ TypeOK
    /\ setting.timely =>
           \A p \in Party : (path[p] = "relay" /\ stage[p] # "failed") => path[Peer(p)] # "mesh"

\* While the two have their sessions over the relay, a direct channel that
\* failed or never opened is tried for again, here until MaxOffers ("INITIATOR
\* повторяет offer", service.py:287).  _closed_pcs tells connections apart by
\* id(), so that a new one at the address of an old one is never tried again; and an
\* offer is gone for good when the session could not yet send it (session.py:140-141):
\* the connection stays as it is and fires no "closed".
DirectIsRetried ==
    ~setting.reuses =>
        []<>(\/ \E p \in Party : ~Relayed(p)
             \/ \A p \in Party : attached[p] = offers
             \/ offers = MaxOffers
             \/ ~setting.chain /\ wire = "unsent")

=============================================================================
