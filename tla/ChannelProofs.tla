----------------------------- MODULE ChannelProofs -----------------------------
(***************************************************************************)
(* What holds of one attempt for every setting, any number of offers and   *)
(* any addresses: the grace period of mesh_path.pair keeps the two sides   *)
(* on one path.                                                            *)
(*                                                                         *)
(* The two choose on their own, so the argument is about what each can     *)
(* still do.  Who is on the relay was paired, and the PAIR was sent to     *)
(* both; who goes to the mesh has left the room or never got an answer,    *)
(* and under a timely server that happens only while nobody can be paired  *)
(* any more.  A side whose session ended over the relay had heard from the *)
(* other, which was then on the relay too.                                 *)
(***************************************************************************)
EXTENDS Channel, TLAPS

\* A side has a path from its choice on, and no task of a search before its
\* Connect; whom it heard from chose as it did.
Chosen(p) ==
    /\ stage[p] = "idle" => server[p] = "off"
    /\ stage[p] \in {"idle", "pairing"} => path[p] = None
    /\ stage[p] \in {"shaking", "live", "over"} => path[p] \in {"relay", "mesh"}
    /\ stage[p] \in {"live", "over"} => heard[p] = 2
    /\ heard[p] # 0 => path[p] # None /\ path[Peer(p)] = path[p]

\* What a path says of the join task: the relay is held while it is used, the
\* mesh is chosen by who is out of the room.
Held(p) ==
    /\ stage[p] \in {"shaking", "live"} /\ path[p] = "relay" => server[p] = "paired"
    /\ path[p] = "mesh" => server[p] \in {"failed", "left"}
    /\ server[p] = "paired" => matched
    /\ matched => server[p] # "off"

\* Under a timely server nobody whom it paired goes without: who is on the
\* mesh leaves a peer that neither is paired nor will be.
Timely(p) ==
    setting.timely =>
        /\ server[p] = "failed" => ~matched
        /\ path[p] = "mesh" =>
               /\ server[Peer(p)] # "paired"
               /\ server[Peer(p)] = "asking" => ~matched
        /\ path[p] = "relay" /\ stage[p] # "failed" => path[Peer(p)] # "mesh"

\* The offers begin with the session of the initiator, and a retry sleeps only
\* after the connection it replaces is done.
Offered ==
    /\ stage[setting.initiator] \in {"idle", "pairing", "shaking"} => offers = 0
    /\ offers = 0 => wire = "none"
    /\ wire # "none" => address \in Addresses
    /\ retries # 0 => wire = "done"

IInv == TypeOK /\ Offered /\ \A p \in Party : Chosen(p) /\ Held(p) /\ Timely(p)

-----------------------------------------------------------------------------
(* The two sides.                                                          *)

\* Each has the other for its peer, and there is no third.
LEMMA Peers ==
    ASSUME NEW p \in Party
    PROVE  /\ Peer(p) \in Party /\ Peer(p) # p /\ Peer(Peer(p)) = p
           /\ \A q \in Party : q = p \/ q = Peer(p)
<1>1. PICK q \in Party : Party = {p, q} /\ p # q  BY ChannelAssumption
<1>2. Peer(p) = q  BY <1>1 DEF Peer
<1>3. Peer(q) = p  BY <1>1 DEF Peer
<1> QED  BY <1>1, <1>2, <1>3

\* A setting is one of the records that name the initiator.
LEMMA Initiators ==
    ASSUME TypeOK
    PROVE  setting.initiator \in Party /\ setting.timely \in BOOLEAN
           /\ setting.answers \in Party /\ setting.chain \in BOOLEAN
  BY SettingsAssumption DEF TypeOK, Setting

-----------------------------------------------------------------------------
(* The steps.                                                              *)

\* The invariant holds at the start: nobody has connected.
LEMMA InitHolds == Init => IInv
<1> SUFFICES ASSUME Init PROVE IInv  OBVIOUS
<1>1. TypeOK
  <2>1. 0 \in 0 .. MaxOffers /\ 0 \in 0 .. 1 /\ 0 \in 0 .. 2  BY ChannelAssumption
  <2>2. offers \in 0 .. MaxOffers /\ attached \in [Party -> 0 .. MaxOffers]
    BY <2>1 DEF Init
  <2>3. said \in [Party -> 0 .. 2] /\ heard \in [Party -> 0 .. 2] /\ retries \in 0 .. 1
    BY <2>1 DEF Init
  <2>4. setting.chain \in BOOLEAN  BY SettingsAssumption DEF Init, Setting
  <2> QED  BY <2>2, <2>3, <2>4 DEF Init, TypeOK
<1>2. Offered  BY <1>1, Initiators DEF Init, Offered
<1>3. ASSUME NEW p \in Party PROVE Chosen(p) /\ Held(p) /\ Timely(p)
  BY Peers, NoneAssumption DEF Init, Chosen, Held, Timely
<1> QED  BY <1>1, <1>2, <1>3 DEF IInv

\* What neither joins, chooses nor hears leaves the sides as they were.
LEMMA SearchStands ==
    ASSUME IInv, UNCHANGED <<setting, stage, path, server, matched, heard>>
    PROVE  \A p \in Party : Chosen(p)' /\ Held(p)' /\ Timely(p)'
  BY DEF IInv, Chosen, Held, Timely

\* Connect starts both searches of a side that had none.
LEMMA ConnectKeeps ==
    ASSUME IInv, NEW p \in Party, Connect(p)
    PROVE  IInv'
<1>1. TypeOK'  BY DEF Connect, IInv, TypeOK, mesh, shaking, direct
<1>2. Offered'  BY Initiators DEF Connect, IInv, TypeOK, Offered, direct
<1>3. ASSUME NEW q \in Party PROVE Chosen(q)' /\ Held(q)' /\ Timely(q)'
  BY Peers DEF Connect, IInv, TypeOK, Chosen, Held, Timely, shaking
<1> QED  BY <1>1, <1>2, <1>3 DEF IInv

\* PAIR goes to both, while both ask.
LEMMA PairKeeps ==
    ASSUME IInv, Pair
    PROVE  IInv'
<1>1. TypeOK'  BY DEF Pair, IInv, TypeOK, mesh, shaking, direct
<1>2. Offered'  BY DEF Pair, IInv, Offered, direct
<1>3. ASSUME NEW q \in Party PROVE Chosen(q)' /\ Held(q)' /\ Timely(q)'
  BY Peers DEF Pair, IInv, TypeOK, Chosen, Held, Timely, shaking
<1> QED  BY <1>1, <1>2, <1>3 DEF IInv

\* The join ends with the PAIR, or without one that a timely server sent.
LEMMA JoinKeeps ==
    ASSUME IInv, NEW p \in Party, Joined(p) \/ JoinFails(p)
    PROVE  IInv'
<1>1. TypeOK'  BY DEF Joined, JoinFails, IInv, TypeOK, mesh, shaking, direct
<1>2. Offered'  BY DEF Joined, JoinFails, IInv, Offered, direct
<1>3. ASSUME NEW q \in Party PROVE Chosen(q)' /\ Held(q)' /\ Timely(q)'
  BY Peers DEF Joined, JoinFails, IInv, TypeOK, Chosen, Held, Timely, shaking
<1> QED  BY <1>1, <1>2, <1>3 DEF IInv

\* The mesh search alone decides nothing.
LEMMA FindKeeps ==
    ASSUME IInv, NEW p \in Party,
           Answer(p) \/ RrepArrives(p) \/ FindReturns(p) \/ FindFails(p) \/ RerrArrives(p)
    PROVE  IInv'
<1>1. TypeOK'
  <2>1. Peer(p) \in Party  BY Peers
  <2>2. CASE Answer(p)  BY <2>2 DEF Answer, IInv, TypeOK, shaking, direct
  <2>3. CASE RrepArrives(p)  BY <2>1, <2>3 DEF RrepArrives, IInv, TypeOK, shaking, direct
  <2>4. CASE FindReturns(p)  BY <2>4 DEF FindReturns, IInv, TypeOK, mesh, shaking, direct
  <2>5. CASE FindFails(p)  BY <2>5 DEF FindFails, IInv, TypeOK, mesh, shaking, direct
  <2>6. CASE RerrArrives(p)  BY <2>6 DEF RerrArrives, IInv, TypeOK, pairing, shaking, direct
  <2> QED  BY <2>2, <2>3, <2>4, <2>5, <2>6
<1>2. UNCHANGED <<setting, stage, path, server, matched, heard, direct>>
  BY DEF Answer, RrepArrives, FindReturns, FindFails, RerrArrives, pairing, shaking
<1>3. Offered'  BY <1>2 DEF IInv, Offered, direct
<1> QED  BY <1>1, <1>2, <1>3, SearchStands DEF IInv

\* A side chooses the relay once it is paired.
LEMMA ChooseRelayKeeps ==
    ASSUME IInv, NEW p \in Party, ChooseRelay(p)
    PROVE  IInv'
<1>1. TypeOK'
  BY Peers DEF ChooseRelay, DropLoser, CloseEnd, Shakes, IInv, TypeOK, direct
<1>2. Offered'
  BY Initiators DEF ChooseRelay, Shakes, IInv, TypeOK, Offered, direct
<1>3. ASSUME NEW q \in Party PROVE Chosen(q)' /\ Held(q)' /\ Timely(q)'
  BY Peers, NoneAssumption
  DEF ChooseRelay, Shakes, IInv, TypeOK, Chosen, Held, Timely
<1> QED  BY <1>1, <1>2, <1>3 DEF IInv

\* A side chooses the mesh when its join is over or cancelled.
LEMMA ChooseMeshKeeps ==
    ASSUME IInv, NEW p \in Party, ChooseMesh(p)
    PROVE  IInv'
<1>1. TypeOK'
  BY DEF ChooseMesh, ServerHadItsTime, Shakes, IInv, TypeOK, mesh, direct
<1>2. Offered'
  BY Initiators DEF ChooseMesh, Shakes, IInv, TypeOK, Offered, direct
<1>3. ASSUME NEW q \in Party PROVE Chosen(q)' /\ Held(q)' /\ Timely(q)'
  BY Peers, NoneAssumption
  DEF ChooseMesh, ServerHadItsTime, Shakes, IInv, TypeOK, Chosen, Held, Timely
<1> QED  BY <1>1, <1>2, <1>3 DEF IInv

\* Both searches are over: the attempt fails with no path chosen.
LEMMA FindsNobodyKeeps ==
    ASSUME IInv, NEW p \in Party, FindsNobody(p)
    PROVE  IInv'
<1>1. TypeOK'  BY DEF FindsNobody, IInv, TypeOK, mesh, shaking, direct
<1>2. Offered'  BY Initiators DEF FindsNobody, IInv, TypeOK, Offered, direct
<1>3. ASSUME NEW q \in Party PROVE Chosen(q)' /\ Held(q)' /\ Timely(q)'
  BY Peers DEF FindsNobody, IInv, TypeOK, Chosen, Held, Timely, shaking
<1> QED  BY <1>1, <1>2, <1>3 DEF IInv

\* A frame of the handshake comes over the path that both chose.
LEMMA HearPakeKeeps ==
    ASSUME IInv, NEW p \in Party, HearPake(p)
    PROVE  IInv'
<1>1. TypeOK'  BY DEF HearPake, IInv, TypeOK, pairing, mesh, direct
<1>2. Offered'  BY DEF HearPake, IInv, Offered, pairing, direct
<1>3. ASSUME NEW q \in Party PROVE Chosen(q)' /\ Held(q)' /\ Timely(q)'
  BY Peers, NoneAssumption
  DEF HearPake, Reaches, IInv, TypeOK, Chosen, Held, Timely, pairing
<1> QED  BY <1>1, <1>2, <1>3 DEF IInv

\* The session begins; its first offer is the first of all.
LEMMA HearConfirmKeeps ==
    ASSUME IInv, NEW p \in Party, HearConfirm(p)
    PROVE  IInv'
<1>1. stage[p] = "shaking" /\ stage' = [stage EXCEPT ![p] = "live"]
      /\ heard' = [heard EXCEPT ![p] = 2] /\ heard[p] = 1
  BY DEF HearConfirm
<1>2. ASSUME p = setting.initiator PROVE offers = 0 /\ wire = "none" /\ retries = 0
  BY <1>1, <1>2 DEF IInv, TypeOK, Offered
<1>3. offers' \in 0 .. MaxOffers /\ address' \in Addresses \cup {None}
      /\ wire' \in {"none", "made", "offered", "unsent", "answered",
                  "checking", "open", "down", "done"}
  BY <1>2, ChannelAssumption DEF HearConfirm, NewPc, IInv, TypeOK
<1>4. TypeOK'
  BY <1>1, <1>3 DEF HearConfirm, IInv, TypeOK, mesh
<1>5. Offered'
  <2>1. CASE path[p] = "relay" /\ p = setting.initiator
    BY <1>1, <1>2, <2>1 DEF HearConfirm, NewPc, IInv, TypeOK, Offered
  <2>2. CASE ~(path[p] = "relay" /\ p = setting.initiator)
    BY <1>1, <2>2, Initiators DEF HearConfirm, IInv, TypeOK, Offered
  <2> QED  BY <2>1, <2>2
<1>6. ASSUME NEW q \in Party PROVE Chosen(q)' /\ Held(q)' /\ Timely(q)'
  BY <1>1, Peers DEF HearConfirm, IInv, TypeOK, Chosen, Held, Timely
<1> QED  BY <1>4, <1>5, <1>6 DEF IInv

\* The end of the attempt or of the session: whoever held the relay leaves it.
LEMMA EndKeeps ==
    ASSUME IInv, NEW p \in Party, HandshakeFails(p) \/ SessionEnds(p)
    PROVE  IInv'
<1>1. stage[p] \in {"shaking", "live"} /\ CloseTransport(p)
      /\ UNCHANGED <<setting, path, found, matched, rrep, heard, said, chain, offers,
                     address, closedPcs, retries>>
  BY DEF HandshakeFails, SessionEnds, shaking, direct
<1>2. \/ stage[p] = "shaking" /\ stage' = [stage EXCEPT ![p] = "failed"]
      \/ stage[p] = "live" /\ stage' = [stage EXCEPT ![p] = "over"]
  BY DEF HandshakeFails, SessionEnds
<1>3. server' \in [Party -> {"off", "asking", "paired", "failed", "left"}]
      /\ end' \in [Party -> {"none", "open", "failed"}] /\ rerr' \subseteq Party
  BY <1>1, Peers DEF CloseTransport, CloseEnd, IInv, TypeOK
<1>4. \/ server' = server
      \/ server' = [server EXCEPT ![p] = "left"] /\ server[p] = "paired"
  BY <1>1 DEF CloseTransport, IInv, Held
<1>5. /\ attached' \in [Party -> 0 .. MaxOffers]
      /\ wire' \in {"none", "made", "offered", "unsent", "answered",
                  "checking", "open", "down", "done"}
  BY ChannelAssumption DEF HandshakeFails, SessionEnds, IInv, TypeOK, direct
<1>6. \/ wire' = wire
      \/ wire' = "down" /\ wire \notin {"none", "unsent", "done"}
  BY DEF HandshakeFails, SessionEnds, direct
<1>7. TypeOK'
  BY <1>1, <1>2, <1>3, <1>4, <1>5 DEF IInv, TypeOK, Held
<1>8. Offered'
  BY <1>1, <1>2, <1>6, Initiators DEF IInv, TypeOK, Offered
<1>9. ASSUME NEW q \in Party PROVE Chosen(q)' /\ Held(q)' /\ Timely(q)'
  BY <1>1, <1>2, <1>4, Peers DEF IInv, TypeOK, Chosen, Held, Timely
<1> QED  BY <1>7, <1>8, <1>9 DEF IInv

\* The direct channel changes neither path nor relay.
LEMMA DirectKeeps ==
    ASSUME IInv,
           \/ HearText \/ SendOffer \/ HandleOffer \/ HandleAnswer \/ Ice \/ FireClosed \/ Retry
           \/ \E p \in Party : Opened(p) \/ Detached(p)
    PROVE  IInv'
<1>1. UNCHANGED <<setting, pairing, mesh, shaking>>
  BY DEF HearText, SendOffer, HandleOffer, HandleAnswer, Ice, FireClosed, Retry, Opened,
         Detached
<1>2. \A p \in Party :
        stage[p] \in {"shaking", "live"} =>
            server[p] # "asking" /\ found[p] \notin {"searching", "resolved"}
            /\ (path[p] = "relay" => server[p] = "paired")
  BY DEF IInv, TypeOK, Held
<1>3. /\ chain' \in BOOLEAN
      /\ offers' \in 0 .. MaxOffers /\ retries' \in 0 .. 1
      /\ wire' \in {"none", "made", "offered", "unsent", "answered",
                  "checking", "open", "down", "done"}
      /\ address' \in Addresses \cup {None} /\ closedPcs' \subseteq Addresses
      /\ attached' \in [Party -> 0 .. MaxOffers]
      /\ Offered'
  <2> USE ChannelAssumption
  <2>1. CASE HearText \/ SendOffer \/ HandleAnswer \/ Ice
    BY <2>1, Initiators
    DEF HearText, SendOffer, send_signal, HandleAnswer, Ice, IInv, TypeOK, Offered, pairing
  <2>2. CASE HandleOffer
    BY <2>2, Initiators, Peers DEF HandleOffer, IInv, TypeOK, Offered, pairing
  <2>3. CASE FireClosed
    BY <2>3, Initiators DEF FireClosed, IInv, TypeOK, Offered, pairing
  <2>4. CASE Retry
    BY <2>4, Initiators DEF Retry, NewPc, IInv, TypeOK, Offered, pairing
  <2>5. ASSUME NEW p \in Party, Opened(p) \/ Detached(p)
        PROVE  attached' \in [Party -> 0 .. MaxOffers]
               /\ UNCHANGED <<setting, stage, chain, offers, wire, address, closedPcs, retries>>
    BY <2>5 DEF Opened, Detached, IInv, TypeOK, pairing
  <2>6. CASE \E p \in Party : Opened(p) \/ Detached(p)
    BY <2>5, <2>6 DEF IInv, TypeOK, Offered
  <2> QED  BY <2>1, <2>2, <2>3, <2>4, <2>6
<1>4. TypeOK'
  BY <1>1, <1>2, <1>3 DEF IInv, TypeOK, pairing, mesh, shaking
<1> QED  BY <1>1, <1>3, <1>4, SearchStands DEF IInv, pairing, shaking

-----------------------------------------------------------------------------
\* A step of the attempt keeps the invariant, whoever takes it.
LEMMA StepKeeps == IInv /\ [Next]_vars => IInv'
<1> SUFFICES ASSUME IInv, [Next]_vars PROVE IInv'  OBVIOUS
<1>1. CASE \E p \in Party : Connect(p)  BY <1>1, ConnectKeeps
<1>2. CASE Pair  BY <1>2, PairKeeps
<1>3. CASE \E p \in Party : Joined(p) \/ JoinFails(p)  BY <1>3, JoinKeeps
<1>4. CASE \E p \in Party :
          Answer(p) \/ RrepArrives(p) \/ FindReturns(p) \/ FindFails(p) \/ RerrArrives(p)
  BY <1>4, FindKeeps
<1>5. CASE \E p \in Party : ChooseRelay(p) \/ ChooseMesh(p) \/ FindsNobody(p)
  BY <1>5, ChooseRelayKeeps, ChooseMeshKeeps, FindsNobodyKeeps
<1>6. CASE \E p \in Party : HearPake(p) \/ HearConfirm(p)
  BY <1>6, HearPakeKeeps, HearConfirmKeeps
<1>7. CASE \E p \in Party : HandshakeFails(p) \/ SessionEnds(p)
  BY <1>7, EndKeeps
<1>8. CASE \/ HearText \/ SendOffer \/ HandleOffer \/ HandleAnswer \/ Ice \/ FireClosed \/ Retry
           \/ \E p \in Party : Opened(p) \/ Detached(p)
  BY <1>8, DirectKeeps
<1>9. CASE UNCHANGED vars
  <2>1. UNCHANGED <<setting, pairing, mesh, shaking, direct>>  BY <1>9 DEF vars
  <2>2. TypeOK' /\ Offered'
    BY <2>1 DEF IInv, TypeOK, Offered, pairing, mesh, shaking, direct
  <2> QED  BY <2>1, <2>2, SearchStands DEF IInv, pairing, shaking
<1> QED
  BY <1>1, <1>2, <1>3, <1>4, <1>5, <1>6, <1>7, <1>8, <1>9
  DEF Next, Scheduled, Runs, Negotiates, Disconnected, StopSession

\* When the server pairs everybody who waits within MESH_GRACE the two sides do
\* not part: with one on the relay, whose handshake has not failed, the other
\* is not on the mesh (mesh_path.pair).  And the attempt keeps its types: one
\* retry sleeps at most, and a live session over the relay holds it.
THEOREM TheTwoStayTogether == Spec => []GraceKeepsTogether
<1>1. IInv => GraceKeepsTogether  BY DEF IInv, Timely, GraceKeepsTogether
<1> QED  BY InitHolds, StepKeeps, <1>1, PTL DEF Spec
=============================================================================
