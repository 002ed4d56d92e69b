----------------------------- MODULE FileTransfer -----------------------------
(***************************************************************************)
(* Files in an open session: session.send_file cuts a file into a META and *)
(* chunks (filetransfer.py) and hands them to the direct channel or to the *)
(* relay, holding the session's lock all the way; the other side's two     *)
(* receiving loops put the parts together again.                           *)
(*                                                                         *)
(* Both channels keep order.  The relay holds a bounded number of frames   *)
(* and makes the sender wait when its reader lags behind; the data channel *)
(* makes it wait for its own buffer alone.  A receiving loop takes the     *)
(* same lock, so a side that sends does not receive.                       *)
(***************************************************************************)
EXTENDS FileContent, FiniteSets

CONSTANTS
    Party,          \* the two sides of the session
    Transfer,       \* the calls of send_file, each with its own transfer_id
    From,           \* From[f]: who makes call f
    Size,           \* Size[f]: the length of its file
    CHUNK_SIZE, MAX_FILE_SIZE,
    RelayCapacity,  \* frames the relay path buffers in one direction
    DirectCapacity, \* frames within _MAX_BUFFERED of the direct channel
    None            \* no part, no job, no META

ASSUME FileAssumption ==
    /\ \A p \in Party : \E q \in Party : Party = {p, q} /\ p # q
    /\ From \in [Transfer -> Party] /\ Size \in [Transfer -> Nat]
    /\ CHUNK_SIZE \in Nat \ {0} /\ MAX_FILE_SIZE \in Nat
    /\ RelayCapacity \in Nat \ {0} /\ DirectCapacity \in Nat \ {0}

Peer(p) == CHOOSE q \in Party : q # p

VARIABLES
    call,      \* the coroutine of each call: "new", "queued", "sending", "sent", "raised"
    job,       \* the call that holds the lock of each session, and the part it is at
    relay,     \* parts on their way to each side through the server, oldest first
    direct,    \* parts on their way to each side over the data channel
    unsent,    \* how many of its parts each side's data channel still buffers
    relayUp,   \* the relay connection lives
    line,      \* the data channel: "none", "open", "closed"
    alive,     \* _relay_alive of each session
    attached,  \* _direct of each session: not set yet, set, or set no more
    ended,     \* the session was reported disconnected, or was closed
    entries,   \* _pending_files: per transfer the META and the chunks received
    outgoing,  \* rows of sent files
    inbox,     \* received files, in order of their rows
    lost       \* history: transfers a part of which a channel lost

channels == <<relay, direct, unsent, relayUp, line>>
sessions == <<alive, attached, ended>>
calls == <<call, job, outgoing>>
receiving == <<entries, inbox>>
vars == <<calls, channels, sessions, receiving, lost>>

-----------------------------------------------------------------------------
(* The contents: filetransfer.py.                                          *)

\* The bytes of the file of call f.
Content(f) == [i \in 1 .. Size[f] |-> <<f, i>>]

Ceil(n, d) == (n + d - 1) \div d

split_chunks(data) ==
    [k \in 1 .. Ceil(Len(data), CHUNK_SIZE) |->
        SubSeq(data, (k - 1) * CHUNK_SIZE + 1,
               IF k * CHUNK_SIZE < Len(data) THEN k * CHUNK_SIZE ELSE Len(data))]

Meta(f) ==
    [kind |-> "meta", id |-> f, total |-> Size[f], chunk |-> CHUNK_SIZE,
     count |-> Len(split_chunks(Content(f))), sha |-> Content(f),
     mime |-> <<>>, filename |-> <<f>>]
Chunk(f, k) == [kind |-> "chunk", id |-> f, index |-> k, data |-> split_chunks(Content(f))[k]]

\* The frames of send_file in order: part 0 is the META.
Part(f, n) == IF n = 0 THEN Meta(f) ELSE Chunk(f, n)
Parts(f) == Len(split_chunks(Content(f)))

validate_meta(m) ==
    /\ m.total <= MAX_FILE_SIZE
    /\ m.chunk > 0
    /\ m.count = IF m.total = 0 THEN 0 ELSE Ceil(m.total, m.chunk)

\* session._pending_files[id], or what setdefault puts there.
Entry(p, id) ==
    IF id \in DOMAIN entries[p] THEN entries[p][id]
    ELSE [meta |-> None, chunks |-> <<>>]

\* The entry after a part, as _on_file_meta and _on_file_chunk leave it.
WithPart(e, part) ==
    IF part.kind = "meta" THEN [e EXCEPT !.meta = part]
    ELSE [e EXCEPT !.chunks = (part.index :> part.data) @@ @]

\* _maybe_complete: META is there and so is each chunk it announces.
Complete(e) ==
    /\ e.meta # None
    /\ Cardinality(DOMAIN e.chunks) >= e.meta.count
    /\ 1 .. e.meta.count \subseteq DOMAIN e.chunks

Joined(e) == FlattenSeq([k \in 1 .. e.meta.count |-> e.chunks[k]])

-----------------------------------------------------------------------------
TypeOK ==
    /\ call \in [Transfer -> {"new", "queued", "sending", "sent", "raised"}]
    /\ \A p \in Party :
        /\ \/ job[p] = None
           \/ /\ job[p].id \in {f \in Transfer : From[f] = p /\ call[f] = "sending"}
              /\ job[p].next \in 0 .. Parts(job[p].id) /\ job[p].waits \in {"no", "drain", "stuck"}
        /\ Len(relay[p]) <= RelayCapacity /\ unsent[p] \in 0 .. DirectCapacity
        /\ DOMAIN entries[p] \subseteq Transfer
        /\ attached[p] \in {"no", "yes", "was"}
        /\ attached[p] = "yes" => line # "none" /\ ~ended[p]
    /\ relayUp \in BOOLEAN /\ line \in {"none", "open", "closed"}
    /\ alive \in [Party -> BOOLEAN] /\ ended \in [Party -> BOOLEAN]
    /\ outgoing \subseteq Transfer /\ lost \subseteq Transfer

Init ==
    /\ call = [f \in Transfer |-> "new"]
    /\ job = [p \in Party |-> None] /\ outgoing = {}
    /\ relay = [p \in Party |-> <<>>] /\ direct = [p \in Party |-> <<>>]
    /\ unsent = [p \in Party |-> 0]
    /\ relayUp = TRUE /\ line = "none"
    /\ alive = [p \in Party |-> TRUE]
    /\ attached = [p \in Party |-> "no"] /\ ended = [p \in Party |-> FALSE]
    /\ entries = [p \in Party |-> <<>>] /\ inbox = [p \in Party |-> <<>>]
    /\ lost = {}

-----------------------------------------------------------------------------
(* Sending.                                                                *)

\* The worker thread posts send_file; without a session, or with a file over
\* the limit, the call raises at once.
SendFile(f) ==
    /\ call[f] = "new"
    /\ call' = [call EXCEPT ![f] =
                    IF ended[From[f]] \/ Size[f] > MAX_FILE_SIZE THEN "raised" ELSE "queued"]
    /\ UNCHANGED <<job, outgoing, channels, sessions, receiving, lost>>

\* send_file gets the session's lock.  (The session can send: it was primed.)
TakeLock(f) ==
    /\ call[f] = "queued" /\ job[From[f]] = None
    /\ call' = [call EXCEPT ![f] = "sending"]
    /\ job' = [job EXCEPT ![From[f]] = [id |-> f, next |-> 0, waits |-> "no"]]
    /\ UNCHANGED <<outgoing, channels, sessions, receiving, lost>>

\* The transport took the part; after the last one the row is written and the
\* lock released.
Sent(p) ==
    LET f == job[p].id IN
    IF job[p].next < Parts(f)
    THEN /\ job' = [job EXCEPT ![p] = [@ EXCEPT !.next = @ + 1, !.waits = "no"]]
         /\ UNCHANGED <<call, outgoing>>
    ELSE /\ job' = [job EXCEPT ![p] = None]
         /\ call' = [call EXCEPT ![f] = "sent"]
         /\ outgoing' = outgoing \cup {f}

CurrentPart(p) == Part(job[p].id, job[p].next)
Sending(p) == job[p] # None

\* DataChannelTransport.send looks whether the channel is open first, and then
\* waits for its buffer for as long as it is full.
WaitForBuffer(p) ==
    /\ Sending(p) /\ job[p].waits = "no" /\ attached[p] = "yes" /\ line = "open"
    /\ unsent[p] = DirectCapacity
    /\ job' = [job EXCEPT ![p].waits = "drain"]
    /\ UNCHANGED <<call, outgoing, channels, sessions, receiving, lost>>

SendDirect(p) ==
    /\ Sending(p) /\ line = "open"
    /\ \/ job[p].waits = "drain" /\ ~ended[p]
       \/ job[p].waits = "no" /\ attached[p] = "yes"
    /\ unsent[p] < DirectCapacity
    /\ unsent' = [unsent EXCEPT ![p] = @ + 1]
    /\ direct' = [direct EXCEPT ![Peer(p)] = Append(@, CurrentPart(p))]
    /\ Sent(p)
    /\ UNCHANGED <<relay, relayUp, line, sessions, receiving, lost>>

\* _detach_direct: the session lives on over the relay, or it is disconnected.
Detach(p) ==
    /\ attached' = [attached EXCEPT ![p] = "was"]
    /\ ended' = [ended EXCEPT ![p] = @ \/ ~alive[p]]
    /\ UNCHANGED alive

\* The direct channel raises: _seal_and_send falls back to the relay.
FallBack(p) ==
    /\ Sending(p) /\ job[p].waits = "no" /\ attached[p] = "yes" /\ line = "closed"
    /\ Detach(p)
    /\ UNCHANGED <<calls, channels, receiving, lost>>

SendRelay(p) ==
    /\ Sending(p) /\ job[p].waits = "no" /\ attached[p] # "yes"
    /\ alive[p] /\ relayUp /\ Len(relay[Peer(p)]) < RelayCapacity
    /\ relay' = [relay EXCEPT ![Peer(p)] = Append(@, CurrentPart(p))]
    /\ Sent(p)
    /\ UNCHANGED <<direct, unsent, relayUp, line, sessions, receiving, lost>>

\* send_file raises and gives the lock back: no channel is left, or the data
\* channel closed while its buffer drained, which is no TransportError.
SendRaises(p) ==
    /\ Sending(p)
    /\ \/ job[p].waits = "no" /\ attached[p] # "yes" /\ (~alive[p] \/ ~relayUp)
       \/ job[p].waits = "drain" /\ line = "closed"
       \/ job[p].waits = "drain" /\ ended[p] /\ unsent[p] < DirectCapacity
    /\ call' = [call EXCEPT ![job[p].id] = "raised"]
    /\ job' = [job EXCEPT ![p] = None]
    /\ UNCHANGED <<outgoing, channels, sessions, receiving, lost>>

-----------------------------------------------------------------------------
(* Receiving.                                                              *)

\* Chunks put together in the order in which they come, with no hash.
DispatchAsTheyCome(p, part) ==
    LET e == IF part.kind = "meta" THEN [Entry(p, part.id) EXCEPT !.meta = part]
             ELSE [Entry(p, part.id) EXCEPT !.chunks = Append(@, part.data)] IN
    IF Complete(e)
    THEN /\ entries' = [entries EXCEPT ![p] =
                [id \in DOMAIN @ \ {part.id} |-> @[id]]]
         /\ inbox' = [inbox EXCEPT ![p] = Append(@, [id |-> part.id, body |-> Joined(e)])]
    ELSE entries' = [entries EXCEPT ![p] = (part.id :> e) @@ @] /\ UNCHANGED inbox

\* The entry of a file that is complete is not deleted.
DispatchKeeps(p, part) ==
    LET e == WithPart(Entry(p, part.id), part) IN
    /\ entries' = [entries EXCEPT ![p] = (part.id :> e) @@ @]
    /\ inbox' = IF Complete(e)
                THEN [inbox EXCEPT ![p] = Append(@, [id |-> part.id, body |-> Joined(e)])]
                ELSE inbox

\* What is decoded of each part its sender encoded.
Opened == [part \in UNION {{Part(f, n) : n \in 0 .. Parts(f)} : f \in Transfer} |-> decode_content(encode_content(part))]

\* _dispatch_content of one part, and what it leaves: an entry, a received
\* file, or nothing (a META that does not validate, a file whose hash differs).
Dispatch(p, part) ==
    LET e == WithPart(Entry(p, part.id), part)
        others == [id \in DOMAIN entries[p] \ {part.id} |-> entries[p][id]] IN
    CASE part.kind = "meta" /\ ~validate_meta(part) -> UNCHANGED <<entries, inbox>>
      [] Complete(e) ->
            /\ entries' = [entries EXCEPT ![p] = others]
            /\ inbox' = IF Joined(e) = e.meta.sha
                        THEN [inbox EXCEPT ![p] = Append(@, [id |-> part.id, body |-> Joined(e)])]
                        ELSE inbox
      [] OTHER ->
            /\ entries' = [entries EXCEPT ![p] = (part.id :> e) @@ @]
            /\ UNCHANGED inbox

\* _recv_loop and _direct_loop take the next frame of their channel and handle
\* it as soon as they get the lock, which a side that sends keeps.  (A frame
\* whose loop waits for the lock is counted as the first of its channel.)
HandleRelay(p) ==
    /\ alive[p] /\ ~ended[p] /\ relay[p] # <<>> /\ ~Sending(p)
    /\ \E part \in Opened[Head(relay[p])] : Dispatch(p, part)
    /\ relay' = [relay EXCEPT ![p] = Tail(@)]
    /\ UNCHANGED <<calls, direct, unsent, relayUp, line, sessions, lost>>

HandleDirectAttached(p) ==
    /\ attached[p] = "yes" /\ direct[p] # <<>> /\ ~Sending(p)
    /\ \E part \in Opened[Head(direct[p])] : Dispatch(p, part)
    /\ direct' = [direct EXCEPT ![p] = Tail(@)]
    /\ UNCHANGED <<calls, relay, unsent, relayUp, line, sessions, lost>>

HandleDirect(p) ==
    /\ attached[p] # "no" /\ direct[p] # <<>> /\ ~Sending(p)
    /\ \E part \in Opened[Head(direct[p])] : Dispatch(p, part)
    /\ direct' = [direct EXCEPT ![p] = Tail(@)]
    /\ UNCHANGED <<calls, relay, unsent, relayUp, line, sessions, lost>>

\* recv of the relay raises: _recv_loop ends.
RelayEnds(p) ==
    /\ alive[p] /\ ~ended[p] /\ ~relayUp /\ relay[p] = <<>>
    /\ alive' = [alive EXCEPT ![p] = FALSE]
    /\ ended' = [ended EXCEPT ![p] = attached[p] # "yes"]
    /\ UNCHANGED <<attached, calls, channels, receiving, lost>>

\* recv of the direct channel raises: _direct_loop ends.
DirectEnds(p) ==
    /\ attached[p] = "yes" /\ line = "closed" /\ direct[p] = <<>>
    /\ Detach(p)
    /\ UNCHANGED <<calls, channels, receiving, lost>>

-----------------------------------------------------------------------------
(* The channels.                                                           *)

\* A connection that ends delivers some prefix of what is under way to those
\* it was open for.
Cut(chan, newChan, Listeners) ==
    \E keep \in [Party -> 0 .. Max({Len(chan[p]) : p \in Party})] :
        /\ \A p \in Party : keep[p] <= IF p \in Listeners THEN Len(chan[p]) ELSE 0
        /\ newChan = [p \in Party |-> SubSeq(chan[p], 1, keep[p])]
        /\ lost' = lost \cup {f \in Transfer : \E p \in Party :
                        \E i \in keep[p] + 1 .. Len(chan[p]) : chan[p][i].id = f}

RelayBreaks ==
    /\ relayUp /\ relayUp' = FALSE
    /\ Cut(relay, relay', Party)
    /\ UNCHANGED <<calls, direct, unsent, line, sessions, receiving>>

\* Neither peer of a WebSocket that stopped reading sees the other's pong:
\* the keepalive of the library closes it.
Keepalive(p) ==
    /\ Len(relay[p]) = RelayCapacity /\ Sending(p)
    /\ RelayBreaks

LineOpens ==
    /\ line = "none" /\ relayUp
    /\ line' = "open"
    /\ UNCHANGED <<calls, relay, direct, unsent, relayUp, sessions, receiving, lost>>

\* The data channel sends what it buffers, whether or not the peer's loops read.
Drain(p) ==
    /\ line = "open" /\ unsent[p] > 0
    /\ unsent' = [unsent EXCEPT ![p] = @ - 1]
    /\ UNCHANGED <<calls, relay, direct, relayUp, line, sessions, receiving, lost>>

\* WebRtcLink reports the open channel to the session: attach_direct.
Attach(p) ==
    /\ line = "open" /\ attached[p] = "no" /\ ~ended[p]
    /\ attached' = [attached EXCEPT ![p] = "yes"]
    /\ UNCHANGED <<calls, channels, alive, ended, receiving, lost>>

\* The data channel closes.  A buffer that is full then never drains.
LineDies ==
    /\ line = "open" /\ line' = "closed"
    /\ Cut(direct, direct', {p \in Party : attached[p] # "no"})
    /\ job' = [p \in Party |->
            IF Sending(p) /\ job[p].waits = "drain" /\ unsent[p] = DirectCapacity
            THEN [job[p] EXCEPT !.waits = "stuck"] ELSE job[p]]
    /\ UNCHANGED <<call, outgoing, relay, unsent, relayUp, sessions, receiving>>

\* _handle_disconnect closed the link of a session that ended.
LinkCloses(p) == ended[p] /\ LineDies

\* _stop_session: Session.close cancels the loops and closes the transports.
StopSession(p) ==
    /\ ~ended[p]
    /\ ended' = [ended EXCEPT ![p] = TRUE]
    /\ attached' = [attached EXCEPT ![p] = "no"]
    /\ entries' = [entries EXCEPT ![p] = <<>>]
    /\ relayUp' = FALSE /\ Cut(relay, relay', Party)
    /\ UNCHANGED <<calls, direct, unsent, line, alive, inbox>>

-----------------------------------------------------------------------------
Sends(p) ==
    \/ WaitForBuffer(p) \/ SendDirect(p) \/ FallBack(p)
    \/ SendRelay(p) \/ SendRaises(p)

Receives(p) ==
    \/ HandleRelay(p) \/ HandleDirect(p)
    \/ RelayEnds(p) \/ DirectEnds(p)

Next ==
    \/ \E f \in Transfer : SendFile(f) \/ TakeLock(f)
    \/ \E p \in Party : Sends(p) \/ Receives(p)
    \/ RelayBreaks \/ LineOpens \/ LineDies
    \/ \E p \in Party : Keepalive(p) \/ Drain(p) \/ Attach(p) \/ LinkCloses(p) \/ StopSession(p)

\* The event loops run what can run; the libraries report an open channel and
\* tick their keepalive.
Scheduled ==
    \/ \E f \in Transfer : TakeLock(f)
    \/ \E p \in Party :
        Sends(p) \/ Receives(p) \/ Drain(p) \/ Attach(p) \/ LinkCloses(p) \/ Keepalive(p)

\* No step takes back another, so that behaviours are finite but for stuttering
\* and fairness for all of this is fairness for each.
Spec == Init /\ [][Next]_vars
FairSpec == Spec /\ WF_vars(Scheduled)

-----------------------------------------------------------------------------
Received(f) == \E i \in DOMAIN inbox[Peer(From[f])] : inbox[Peer(From[f])][i].id = f

\* A side that holds its lock for ever (DataChannelTransport.send waits for a
\* buffer that no longer drains).
Stuck(p) == Sending(p) /\ job[p].waits = "stuck"

\* Parts come over two channels in any order and some never come: what is
\* received is nevertheless a whole file, as its sender cut it, and once.
ReceivedWhole ==
    /\ TypeOK
    /\ \A p \in Party : \A i \in DOMAIN inbox[p] :
           LET f == inbox[p][i].id IN
           /\ From[f] = Peer(p) /\ call[f] \in {"sending", "sent", "raised"}
           /\ inbox[p][i].body = Content(f)
           /\ \A j \in DOMAIN inbox[p] : inbox[p][j].id = f => i = j

UnderWay(f, q) ==
    \E c \in {relay[q], direct[q]} : \E i \in DOMAIN c : c[i].id = f

\* The receiver's memory of a file does not outlive the transfer: parts are
\* kept while the sender is at it or parts are under way.  (Parts of a transfer
\* that lost one, or whose call raised, stay until the session ends.)
NothingLingers ==
    \A q \in Party : ~ended[q] =>
        \A f \in DOMAIN entries[q] :
            call[f] \in {"sending", "raised"} \/ UnderWay(f, q) \/ f \in lost

\* Two sides that send at once fill both directions and wait for each other, as
\* neither reads while it sends; the keepalive ends that, and every other call
\* of send_file ends as well, sent or raised.
EverySendEnds ==
    []<>(\A f \in Transfer : call[f] \in {"new", "sent", "raised"} \/ Stuck(From[f]))

\* A file recorded as sent arrives, unless a channel broke with a part of it
\* or the peer's session ended or hangs.
SentArrives ==
    []<>(\A f \in Transfer : LET q == Peer(From[f]) IN
            call[f] = "sent" => Received(f) \/ f \in lost \/ ended[q] \/ Stuck(q))

\* Every call comes to its end, and what it says is true of the other side.
SendsEndTruly == EverySendEnds /\ SentArrives

-----------------------------------------------------------------------------
(* Promised by a comment of the code, and refuted by TLC.                  *)

\* _seal_and_send: over the direct channel, and when that fails, over the relay.
\* But the channel can close while send waits for its buffer.
NobodyIsStuck == \A p \in Party : ~Stuck(p)

\* Nothing breaks, and yet not every file arrives: two sides that send at once
\* run into the keepalive.
OnlyTheNetworkBreaks == [][relayUp /\ ~relayUp' => \E p \in Party : ended'[p] /\ ~ended[p]]_vars

=============================================================================
