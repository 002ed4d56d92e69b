------------------------------ MODULE P2PSession ------------------------------
(***************************************************************************)
(* One conversation between two clients across disconnections: what        *)
(* mys_decentralized/session.py keeps in memory, what it has committed to  *)
(* the vault, and the order in which it does the one and the other.        *)
(*                                                                         *)
(* A pairing (rendezvous and PAKE) gives both sides a role and fresh key   *)
(* material; open_session then resumes the ratchet of the vault or, if     *)
(* there is none, seeds one.  The asyncio lock of the session is pc: an    *)
(* operation that awaits the transport holds it, everything between two    *)
(* awaits is one step, and each vault commit is a step of its own, because *)
(* the program can die between two commits.                                *)
(***************************************************************************)
EXTENDS Ratchet

CONSTANTS
    Party,       \* the two clients
    MaxTexts,    \* texts the two users send in all (bound)
    MaxLinks,    \* pairings of the two clients (bound)
    MaxCrashes,  \* crashes of either client (bound)
    Faults,      \* where the link or a client may fail, see Exposed
    NoState      \* no ratchet stored, or no session in memory

ASSUME SessionAssumption ==
    /\ \A p \in Party : \E q \in Party : Party = {p, q} /\ p # q
    /\ MaxTexts \in Nat /\ MaxLinks \in Nat /\ MaxCrashes \in Nat
    /\ Faults \subseteq {"session", "handshake"}

Peer(p) == CHOOSE q \in Party : q # p

VARIABLES
    disk,      \* vault: the stored ratchet state
    rows,      \* vault: status of each outgoing text the user gave
    inbox,     \* vault: numbers of the peer's texts, in order of arrival
    texts,     \* how many texts the user gave so far
    phase,     \* "closed", "handshake" or "open"
    st,        \* ratchet state of the open session
    outbox,    \* _outbox: texts waiting for a sending chain
    pc,        \* what holds the session lock: "idle", or where its owner is
    op,        \* the frame and the kind of the operation holding the lock
    chan,      \* frames on their way to each client, oldest first
    up,        \* the two clients are connected
    initiator, \* who holds the INITIATOR role on this link
    pake,      \* first of the three keys of this link: sk, responder, initiator
    nextKey,   \* the next key to be generated
    links, crashes,
    handed     \* history: every frame a transport accepted

vault == <<disk, rows, inbox>>
session == <<phase, st, outbox, pc, op>>
link == <<chan, up, initiator, pake, links>>
vars == <<vault, texts, session, link, nextKey, crashes, handed>>

Prime == 0     \* the empty payload of send_prime; texts are numbered from 1

Frame == [h : Header, mk : MessageKey, from : Party, body : 0 .. MaxTexts]
Operation == [kind : {"text", "prime", "flush"}, frame : Frame]

ASSUME NoStateAssumption == NoState \notin RatchetState /\ NoState \notin Operation

TypeOK ==
    /\ disk \in [Party -> RatchetState \cup {NoState}]
    /\ rows \in [Party -> [1 .. MaxTexts -> {"none", "pending", "sent"}]]
    /\ inbox \in [Party -> Seq(1 .. MaxTexts)]
    /\ texts \in [Party -> 0 .. MaxTexts]
    /\ phase \in [Party -> {"closed", "handshake", "open"}]
    /\ st \in [Party -> RatchetState \cup {NoState}]
    /\ outbox \in [Party -> Seq(1 .. MaxTexts)]
    /\ pc \in [Party -> {"idle", "transmit", "written", "recorded"}]
    /\ op \in [Party -> Operation \cup {NoState}]
    /\ chan \in [Party -> Seq(Frame)]
    /\ up \in BOOLEAN /\ initiator \in Party /\ pake \in Nat
    /\ nextKey \in Nat /\ links \in 0 .. MaxLinks /\ crashes \in 0 .. MaxCrashes
    /\ handed \subseteq Frame
    /\ \A p \in Party : phase[p] = "open" <=> st[p] # NoState
    /\ \A p \in Party : pc[p] = "idle" <=> op[p] = NoState

Init ==
    /\ disk = [p \in Party |-> NoState]
    /\ rows = [p \in Party |-> [n \in 1 .. MaxTexts |-> "none"]]
    /\ texts = [p \in Party |-> 0]
    /\ inbox = [p \in Party |-> <<>>]
    /\ phase = [p \in Party |-> "closed"]
    /\ st = [p \in Party |-> NoState]
    /\ outbox = [p \in Party |-> <<>>]
    /\ pc = [p \in Party |-> "idle"]
    /\ op = [p \in Party |-> NoState]
    /\ chan = [p \in Party |-> <<>>]
    /\ up = FALSE /\ initiator \in Party /\ pake = 0 /\ links = 0
    /\ nextKey = 1 /\ crashes = 0
    /\ handed = {}

-----------------------------------------------------------------------------
(* Connecting.                                                             *)

\* The rendezvous pairs the two clients; the first one in is the initiator.
Pair(i) ==
    /\ \A p \in Party : phase[p] = "closed"
    /\ links < MaxLinks
    /\ phase' = [p \in Party |-> "handshake"]
    /\ up' = TRUE /\ initiator' = i /\ links' = links + 1
    /\ pake' = nextKey /\ nextKey' = nextKey + 3
    /\ UNCHANGED <<vault, texts, st, outbox, pc, op, chan, crashes, handed>>

Seed(p) ==
    IF p = initiator
    THEN ratchet_init_alice(pake, pake + 2, pake + 1)
    ELSE ratchet_init_bob(pake, pake + 1)

Sealed(p, s, body) ==
    [h |-> NextHeader(s), mk |-> NextSealKey(s), from |-> p, body |-> body]

\* The lock is taken, the payload sealed, and the transport awaited.
StartSending(p, s, kind, body) ==
    /\ st' = [st EXCEPT ![p] = ratchet_encrypt(s)]
    /\ pc' = [pc EXCEPT ![p] = "transmit"]
    /\ op' = [op EXCEPT ![p] = [kind |-> kind, frame |-> Sealed(p, s, body)]]

ReleaseLock(p) ==
    /\ pc' = [pc EXCEPT ![p] = "idle"]
    /\ op' = [op EXCEPT ![p] = NoState]

\* A _flush_outbox_locked round: the oldest waiting text is popped and sealed.
FlushNewest(p, s) ==
    /\ StartSending(p, s, "flush", Last(outbox[p]))
    /\ outbox' = [outbox EXCEPT ![p] = Front(@)]
FlushNext(p, s) ==
    /\ StartSending(p, s, "flush", Head(outbox[p]))
    /\ outbox' = [outbox EXCEPT ![p] = Tail(@)]

\* The ratchet the session starts from.
ResumedByResponder(p) ==
    IF disk[p] # NoState /\ p # initiator THEN disk[p] ELSE Seed(p)
ResumedOrSeeded(p) == IF disk[p] # NoState THEN disk[p] ELSE Seed(p)

Primes(p, s) == p = initiator /\ CanSend(s)

\* The handshake of p succeeds: open_session resumes or seeds and saves, the
\* session starts, and an initiator that can send primes its peer at once.
HandshakeDone(p) ==
    /\ phase[p] = "handshake" /\ up
    /\ phase' = [phase EXCEPT ![p] = "open"]
    /\ LET s == ResumedOrSeeded(p)
       IN  /\ disk' = [disk EXCEPT ![p] = s]
           /\ IF Primes(p, s)
              THEN StartSending(p, s, "prime", Prime)
              ELSE st' = [st EXCEPT ![p] = s] /\ UNCHANGED <<pc, op>>
    /\ UNCHANGED <<rows, inbox, texts, outbox, link, nextKey, crashes, handed>>

\* The connection goes during the handshake of p: _connect gives up.
HandshakeFailed(p) ==
    /\ phase[p] = "handshake" /\ ~up
    /\ phase' = [phase EXCEPT ![p] = "closed"]
    /\ chan' = [chan EXCEPT ![p] = <<>>]
    /\ UNCHANGED <<vault, texts, st, outbox, pc, op, up, initiator, pake, links,
                   nextKey, crashes, handed>>

-----------------------------------------------------------------------------
(* Sending.                                                                *)

\* Session.send: queue the text, or seal it.
Send(p) ==
    LET n == texts[p] + 1
    IN  /\ phase[p] = "open" /\ pc[p] = "idle" /\ n + texts[Peer(p)] <= MaxTexts
        /\ texts' = [texts EXCEPT ![p] = n]
        /\ IF CanSend(st[p])
           THEN StartSending(p, st[p], "text", n) /\ UNCHANGED <<rows, outbox>>
           ELSE /\ rows' = [rows EXCEPT ![p][n] = "pending"]
                /\ outbox' = [outbox EXCEPT ![p] = Append(@, n)]
                /\ UNCHANGED <<st, pc, op>>
        /\ UNCHANGED <<disk, inbox, phase, link, nextKey, crashes, handed>>

\* The transport accepts the frame.  On a broken link it reaches nobody: the
\* server drops what has no receiver, or the kernel buffers it in vain.
Transmit(p) ==
    LET f == op[p].frame
    IN  /\ pc[p] = "transmit"
        /\ chan' = IF up THEN [chan EXCEPT ![Peer(p)] = Append(@, f)] ELSE chan
        /\ handed' = handed \cup {f}
        /\ pc' = [pc EXCEPT ![p] = "written"]
        /\ UNCHANGED <<vault, texts, phase, st, outbox, op, up, initiator, pake,
                       links, nextKey, crashes>>

\* The session object is dropped: its ratchet, its outbox and unread frames.
Forget(p) ==
    /\ phase' = [phase EXCEPT ![p] = "closed"]
    /\ st' = [st EXCEPT ![p] = NoState]
    /\ outbox' = [outbox EXCEPT ![p] = <<>>]
    /\ chan' = [chan EXCEPT ![p] = <<>>]

\* transport.send raises TransportError, before or after the frame went out.  A
\* flush runs inside _recv_loop, which ends with it; any other caller gets the
\* exception and releases the lock.
SendRaises(p) ==
    /\ pc[p] \in {"transmit", "written"} /\ ~up
    /\ ReleaseLock(p)
    /\ IF op[p].kind = "flush"
       THEN Forget(p)
       ELSE UNCHANGED <<phase, st, outbox, chan>>
    /\ UNCHANGED <<vault, texts, up, initiator, pake, links, nextKey, crashes, handed>>

\* The frame was sent: the text's row is written.  A flush goes on with the next
\* waiting text, and only after the last one is there anything left to save.
Record(p) ==
    LET n == op[p].frame.body
    IN  /\ pc[p] = "written"
        /\ rows' = IF op[p].kind = "prime" THEN rows
                   ELSE [rows EXCEPT ![p][n] = "sent"]
        /\ IF op[p].kind = "flush" /\ outbox[p] # <<>>
           THEN FlushNext(p, st[p])
           ELSE /\ pc' = [pc EXCEPT ![p] = "recorded"]
                /\ UNCHANGED <<st, op, outbox>>
        /\ UNCHANGED <<disk, inbox, texts, phase, link, nextKey, crashes, handed>>

Save(p) ==
    /\ pc[p] = "recorded"
    /\ disk' = [disk EXCEPT ![p] = st[p]]
    /\ ReleaseLock(p)
    /\ UNCHANGED <<rows, inbox, texts, phase, st, outbox, link, nextKey, crashes, handed>>

-----------------------------------------------------------------------------
(* Receiving.                                                              *)

\* What the vault holds once a frame was opened and the state became s.
SavedUnlessPrime(p, f, s) == IF f.body = Prime THEN disk ELSE [disk EXCEPT ![p] = s]
SavedOnReceipt(p, f, s) == [disk EXCEPT ![p] = s]

\* _handle_frame of a frame that opens: the new state and, for a text, its row
\* are committed in one transaction; then the outbox is flushed if it can be.
Accept(p) ==
    LET f == Head(chan[p])
        s == ratchet_decrypt(st[p], f.h, f.mk, nextKey)
    IN  /\ phase[p] = "open" /\ pc[p] = "idle" /\ chan[p] # <<>>
        /\ Opens(st[p], f.h, f.mk, nextKey)
        /\ chan' = [chan EXCEPT ![p] = Tail(@)]
        /\ disk' = SavedOnReceipt(p, f, s)
        /\ inbox' = IF f.body = Prime THEN inbox
                    ELSE [inbox EXCEPT ![p] = Append(@, f.body)]
        /\ nextKey' = IF s.dhs = nextKey THEN nextKey + 1 ELSE nextKey
        /\ IF outbox[p] # <<>> /\ CanSend(s)
           THEN FlushNext(p, s)
           ELSE /\ st' = [st EXCEPT ![p] = s]
                /\ UNCHANGED <<pc, op, outbox>>
        /\ UNCHANGED <<rows, texts, phase, up, initiator, pake, links, crashes, handed>>

\* A frame that does not open is dropped and the session goes on.
Refuse(p) ==
    LET f == Head(chan[p])
    IN  /\ phase[p] = "open" /\ pc[p] = "idle" /\ chan[p] # <<>>
        /\ ~Opens(st[p], f.h, f.mk, nextKey)
        /\ chan' = [chan EXCEPT ![p] = Tail(@)]
        /\ UNCHANGED <<vault, texts, session, up, initiator, pake, links,
                       nextKey, crashes, handed>>

-----------------------------------------------------------------------------
(* Failing.                                                                *)

\* The environment may cut the link unless one side alone is through the
\* handshake; if Faults says so, then too.
Exposed ==
    \/ "session" \in Faults /\ \A p, q \in Party : phase[p] = "handshake" => phase[q] # "open"
    \/ "handshake" \in Faults

Break ==
    /\ up /\ Exposed
    /\ up' = FALSE
    /\ UNCHANGED <<vault, texts, session, chan, initiator, pake, links, nextKey,
                   crashes, handed>>

\* _recv_loop sees the link gone, whatever was still on it: the session is
\* dropped with its outbox, and with what its state had not saved.
Disconnect(p) ==
    /\ phase[p] = "open" /\ pc[p] = "idle" /\ ~up
    /\ Forget(p)
    /\ UNCHANGED <<vault, texts, pc, op, up, initiator, pake, links, nextKey,
                   crashes, handed>>

\* The program dies at any point, also between two vault commits.
Crash(p) ==
    /\ phase[p] # "closed" /\ crashes < MaxCrashes /\ Exposed
    /\ Forget(p)
    /\ ReleaseLock(p)
    /\ up' = FALSE /\ crashes' = crashes + 1
    /\ UNCHANGED <<vault, texts, initiator, pake, links, nextKey, handed>>

-----------------------------------------------------------------------------

Step(p) ==
    \/ HandshakeDone(p) \/ HandshakeFailed(p)
    \/ Transmit(p) \/ Record(p) \/ Save(p)
    \/ Accept(p) \/ Refuse(p)
    \/ Disconnect(p)

Next ==
    \/ \E i \in Party : Pair(i)
    \/ \E p \in Party : Step(p) \/ Send(p) \/ SendRaises(p) \/ Crash(p)
    \/ Break

Spec == Init /\ [][Next]_vars

\* The program's own steps are taken; the user and the failures are free.
FairSpec == Spec /\ \A p \in Party : WF_vars(Step(p))

-----------------------------------------------------------------------------
(* Properties.                                                             *)

\* The texts a client stores are texts of its peer in the order its user gave
\* them, none twice, over any number of reconnections, failed flushes and
\* crashes between two commits.  (The types go with it.)
InOrderAtMostOnce ==
    /\ TypeOK
    /\ \A p \in Party : \A i, j \in DOMAIN inbox[p] :
           i < j => inbox[p][i] < inbox[p][j]

\* The stored ratchets of the two clients stay one DH step apart, so that each
\* reconnection resumes one conversation and not two.
StoredRootsInStep ==
    \A p \in Party :
        disk[p] # NoState /\ disk[Peer(p)] # NoState
        => /\ \/ IsPrefix(disk[p].rk, disk[Peer(p)].rk)
              \/ IsPrefix(disk[Peer(p)].rk, disk[p].rk)
           /\ Len(disk[p].rk) - Len(disk[Peer(p)].rk) \in {-1, 1}

\* On a quiet link the next message of either client opens at the other, unless
\* it is sealed under a key of a message already handed over: what failures lose
\* is bounded by the keys they roll back.
NextMessageOpens ==
    (up /\ \A p \in Party : phase[p] = "open" /\ pc[p] = "idle" /\ chan[p] = <<>>)
    => \A p \in Party :
         CanSend(st[p])
         => \/ Opens(st[Peer(p)], NextHeader(st[p]), NextSealKey(st[p]), nextKey)
            \/ \E f \in handed : f.mk = NextSealKey(st[p])

------------------------------------------------------------------------------
(* Promised by a comment of the code, and refuted by TLC on the instance   *)
(* the README names.                                                       *)

\* No message key seals two different payloads.
NoKeyReuse == \A f, g \in handed : f.mk = g.mk => f = g

\* A text that waits for a sending chain is sent while the link holds.
PendingIsSent ==
    \A p \in Party : \A n \in 1 .. MaxTexts :
        (phase[p] = "open" /\ rows[p][n] = "pending" /\ n \in ToSet(outbox[p]))
        ~> (rows[p][n] = "sent" \/ ~up)
=============================================================================
