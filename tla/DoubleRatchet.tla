---------------------------- MODULE DoubleRatchet ----------------------------
(***************************************************************************)
(* Two parties whose ratchets were seeded by one handshake, exchanging     *)
(* sealed messages over a channel that may lose, delay, reorder and        *)
(* duplicate them: a sealed message stays in wire for ever and may be      *)
(* handed to its receiver at any time, any number of times, or never.      *)
(* The states stay in memory; P2PSession adds the vault.                   *)
(***************************************************************************)
EXTENDS Ratchet

CONSTANT MaxSeals        \* most messages one party seals (bound)
ASSUME MaxSealsAssumption == MaxSeals \in Nat

VARIABLES
    st,        \* ratchet state of each party
    wire,      \* every message ever sealed for a party
    opened,    \* messages a party opened, in the order it opened them
    sealed,    \* how many messages a party sealed
    nextKey    \* the next key pair to be generated

vars == <<st, wire, opened, sealed, nextKey>>

Party == {"alice", "bob"}
Peer(p) == IF p = "alice" THEN "bob" ELSE "alice"

\* What one ciphertext is: header, sealing key and the plaintext, named by its
\* sender and its number among the sender's plaintexts.
Message == [h : Header, mk : MessageKey, body : Party \X Nat]

TypeOK ==
    /\ st \in [Party -> RatchetState]
    /\ wire \in [Party -> SUBSET Message]
    /\ opened \in [Party -> Seq(Message)]
    /\ sealed \in [Party -> 0 .. MaxSeals]
    /\ nextKey \in Nat
    /\ \A p \in Party : Len(st[p].mkskipped) <= MAX_SKIP_SESSION

-----------------------------------------------------------------------------

\* Key 1 is the sk both sides derived, 2 the responder's pair, 3 the initiator's.
Init ==
    /\ st = [p \in Party |-> IF p = "alice"
                             THEN ratchet_init_alice(1, 3, 2)
                             ELSE ratchet_init_bob(1, 2)]
    /\ wire = [p \in Party |-> {}]
    /\ opened = [p \in Party |-> <<>>]
    /\ sealed = [p \in Party |-> 0]
    /\ nextKey = 4

Seal(p) ==
    /\ CanSend(st[p])
    /\ sealed[p] < MaxSeals
    /\ wire' = [wire EXCEPT ![Peer(p)] = @ \cup
                  {[h |-> NextHeader(st[p]), mk |-> NextSealKey(st[p]),
                    body |-> <<p, sealed[p]>>]}]
    /\ st' = [st EXCEPT ![p] = ratchet_encrypt(@)]
    /\ sealed' = [sealed EXCEPT ![p] = @ + 1]
    /\ UNCHANGED <<opened, nextKey>>

\* One arrival of m at p: opened, or refused with the state left alone.
Arrive(p, m) ==
    /\ st' = [st EXCEPT ![p] = ratchet_decrypt(@, m.h, m.mk, nextKey)]
    /\ opened' = [opened EXCEPT ![p] =
                    IF Opens(st[p], m.h, m.mk, nextKey) THEN Append(@, m) ELSE @]
    /\ nextKey' = IF st'[p].dhs = nextKey THEN nextKey + 1 ELSE nextKey
    /\ UNCHANGED <<wire, sealed>>

Next ==
    \/ \E p \in Party : Seal(p)
    \/ \E p \in Party : \E m \in wire[p] : Arrive(p, m)

Spec == Init /\ [][Next]_vars

-----------------------------------------------------------------------------
(* Properties.                                                             *)

\* No ciphertext yields its plaintext twice, however often it arrives: the key
\* of an opened message is gone from the chain and from the skipped keys.
AtMostOnce == \A p \in Party : IsInjective(opened[p])

\* No message key, and so no AEAD key and nonce, seals two messages: neither
\* two of one party nor one of each.
SealKeysUnique ==
    \A p, q \in Party : \A m \in wire[p], w \in wire[q] : m.mk = w.mk => m = w

\* The two root chains never diverge: one party is at most one DH step ahead.
RootsInStep ==
    /\ \/ IsPrefix(st["alice"].rk, st["bob"].rk)
       \/ IsPrefix(st["bob"].rk, st["alice"].rk)
    /\ Len(st["alice"].rk) - Len(st["bob"].rk) \in {-1, 1}

\* To its users the exchange is a channel that delivers each text at most once,
\* from the party that gave it: seal and open_ implement AtMostOnceChannel.
TakenTexts == [p \in Party |-> [i \in DOMAIN opened[p] |-> opened[p][i].body]]
Channel == INSTANCE AtMostOnceChannel WITH given <- sealed, taken <- TakenTexts
ImplementsChannel == Channel!Spec

Outstanding(p) == wire[p] \ ToSet(opened[p])

\* Whatever the order of arrival, a message that was not opened yet opens on its
\* next arrival, provided that no more than MAX_SKIP others are outstanding and
\* that it is among the last MAX_SKIP_SESSION + 1 its sender sealed: within these
\* limits reordering, loss and refused duplicates never cost a message its key.
RecentMessagesOpen ==
    \A p \in Party : \A m \in Outstanding(p) :
        /\ Cardinality(Outstanding(p)) <= MAX_SKIP + 1
        /\ sealed[Peer(p)] - m.body[2] <= MAX_SKIP_SESSION + 1
        => Opens(st[p], m.h, m.mk, nextKey)
=============================================================================
