------------------------- MODULE DoubleRatchetProofs -------------------------
(***************************************************************************)
(* Proofs about DoubleRatchet, for every MAX_SKIP, MAX_SKIP_SESSION and    *)
(* MaxSeals: the inductive invariant IInv of the two parties, which says   *)
(* of each that its state is sound and every opened key spent, and of its  *)
(* sending chain that it is ahead of all that was sealed; then that the    *)
(* two roots stay in step, that the exchange is an AtMostOnceChannel, and  *)
(* that within the limits what is outstanding can be opened.               *)
(***************************************************************************)
EXTENDS DoubleRatchet, RatchetProofs, FiniteSetTheorems

-----------------------------------------------------------------------------
(* The inductive invariant.                                                *)

OpenedKeys(p) == {opened[p][i].mk : i \in DOMAIN opened[p]}

\* The initiator's roots have even length and the responder's odd length.
Side(p) == IF p = "alice" THEN 0 ELSE 1

ReceiverInv(p) ==
    /\ Sound(st[p])
    /\ Spent(st[p], OpenedKeys(p))
    /\ KeysDistinct(opened[p])

SenderInv(p) ==
    /\ st[p].cks # NoChain => st[p].cks.root = st[p].rk
    /\ Len(st[p].rk) % 2 = Side(p)
    /\ \A m \in wire[Peer(p)] : /\ Behind(m.mk, st[p].cks)
                                /\ Len(m.mk.root) % 2 = Side(p)
    /\ \A m, w \in wire[Peer(p)] : m.mk = w.mk => m = w

IInv ==
    /\ TypeOK
    /\ \A p \in Party : ReceiverInv(p)
    /\ \A p \in Party : SenderInv(p)

\* There are two parties, each the peer of the other.
LEMMA PeerIsParty == ASSUME NEW p \in Party PROVE Peer(p) \in Party /\ Peer(Peer(p)) = p /\ Peer(p) # p
BY DEF Party, Peer

\* The state after the handshake is well typed.
LEMMA InitTyped == Init => TypeOK
<1> SUFFICES ASSUME Init PROVE TypeOK
    OBVIOUS
<1>1. <<>> \in Seq(SkippedEntry) /\ Len(<<>>) = 0
    OBVIOUS
<1>2. /\ ratchet_init_alice(1, 3, 2) \in RatchetState /\ ratchet_init_alice(1, 3, 2).mkskipped = <<>>
      /\ ratchet_init_bob(1, 2) \in RatchetState /\ ratchet_init_bob(1, 2).mkskipped = <<>>
    BY SeedTyped DEF Key
<1>3. st \in [Party -> RatchetState] /\ \A p \in Party : Len(st[p].mkskipped) <= MAX_SKIP_SESSION
    BY <1>1, <1>2, SkipAssumption DEF Init, Party
<1>. QED BY <1>3, MaxSealsAssumption DEF Init, TypeOK

\* The invariant holds after the handshake.
LEMMA InitInv == Init => IInv
<1> SUFFICES ASSUME Init PROVE IInv
    OBVIOUS
<1>1. TypeOK
    BY InitTyped
<1>2. ASSUME NEW p \in Party
      PROVE  ReceiverInv(p)
    <2>1. st[p].ckr = NoChain /\ st[p].mkskipped = <<>>
        BY DEF Init, Party, ratchet_init_alice, ratchet_init_bob
    <2>2. Len(st[p].rk) \in Nat
        BY <1>1 DEF TypeOK, RatchetState, Root
    <2>3. Sound(st[p])
        BY <2>1, <2>2 DEF Sound, KeysBehind, KeysDistinct, NoChain
    <2>4. opened[p] = <<>>
        BY DEF Init
    <2>. QED BY <2>1, <2>3, <2>4 DEF ReceiverInv, Spent, KeysOutside, KeysDistinct, OpenedKeys
<1>3. ASSUME NEW p \in Party
      PROVE  SenderInv(p)
    <2>1. wire[Peer(p)] = {}
        BY PeerIsParty DEF Init
    <2>2. <<{1}>> \in Root /\ Len(<<{1}>>) = 1
        BY DEF Root, Key
    <2> DEFINE r == <<{1}>>
               r2 == kdf_rk(r, x25519_shared(3, 2))
    <2>3. Len(r2) = 2
        <3>1. 3 \in Key /\ 2 \in Key BY DEF Key
        <3> HIDE DEF r
        <3>2. Len(r2) = Len(r) + 1 BY <2>2, <3>1, RootTyped DEF r
        <3>. QED BY <2>2, <3>2 DEF r
    <2>4. /\ st[p].cks # NoChain => st[p].cks.root = st[p].rk
          /\ Len(st[p].rk) % 2 = Side(p)
        <3>1. CASE p = "alice"
            <4>1. st[p].rk = r2 /\ st[p].cks = ChainOf(r2)
                BY <3>1 DEF Init, Party, ratchet_init_alice
            <4> HIDE DEF r2
            <4>. QED BY <3>1, <4>1, <2>3 DEF ChainOf, Side
        <3>2. CASE p = "bob"
            <4>1. st[p].rk = r /\ st[p].cks = NoChain
                BY <3>2 DEF Init, Party, ratchet_init_bob
            <4>. QED BY <3>2, <4>1, <2>2 DEF Side
        <3>. QED BY <3>1, <3>2 DEF Party
    <2>. QED BY <2>1, <2>4 DEF SenderInv
<1>. QED BY <1>1, <1>2, <1>3 DEF IInv

\* Sealing a message preserves the invariant.
LEMMA SealStep ==
    ASSUME IInv, NEW p \in Party, Seal(p)
    PROVE  IInv'
<1> DEFINE s == st[p]
           m == [h |-> NextHeader(s), mk |-> NextSealKey(s), body |-> <<p, sealed[p]>>]
<1>1. s \in RatchetState /\ CanSend(s) /\ sealed[p] \in Nat
    BY MaxSealsAssumption DEF IInv, TypeOK, Seal
<1>2. s.cks \in ChainKey /\ s.ns \in Nat
    BY <1>1 DEF RatchetState
<1>3. /\ kdf_ck(s.cks, 1) \in ChainKey
      /\ kdf_ck(s.cks, 1).root = s.cks.root
      /\ kdf_ck(s.cks, 1).n = s.cks.n + 1
    BY <1>2, KdfTyped
<1>4. m \in Message
    <2>1. NextHeader(s) \in Header BY <1>1 DEF NextHeader, Header, RatchetState
    <2>. QED BY <1>1, <1>2, <2>1 DEF NextSealKey, MessageKey, Message
<1>5. /\ ratchet_encrypt(s) \in RatchetState
      /\ ratchet_encrypt(s).cks = kdf_ck(s.cks, 1)
      /\ ratchet_encrypt(s).rk = s.rk
      /\ ratchet_encrypt(s).ckr = s.ckr
      /\ ratchet_encrypt(s).mkskipped = s.mkskipped
    BY <1>1, EncryptFields
<1>6. /\ st' = [st EXCEPT ![p] = ratchet_encrypt(s)]
      /\ wire' = [wire EXCEPT ![Peer(p)] = @ \cup {m}]
      /\ opened' = opened /\ nextKey' = nextKey
      /\ sealed' = [sealed EXCEPT ![p] = @ + 1] /\ sealed[p] < MaxSeals
    BY DEF Seal
<1>7. m.mk = s.cks
    BY DEF NextSealKey
<1> HIDE DEF s, m
<1>8. TypeOK'
    <2>1. st' \in [Party -> RatchetState]
        BY <1>5, <1>6 DEF IInv, TypeOK
    <2>2. wire' \in [Party -> SUBSET Message]
        BY <1>4, <1>6, PeerIsParty DEF IInv, TypeOK
    <2>3. sealed' \in [Party -> 0 .. MaxSeals]
        BY <1>6, MaxSealsAssumption DEF IInv, TypeOK
    <2>4. \A q \in Party : Len(st'[q].mkskipped) <= MAX_SKIP_SESSION
        BY <1>5, <1>6 DEF IInv, TypeOK, s
    <2>. QED BY <1>6, <2>1, <2>2, <2>3, <2>4 DEF IInv, TypeOK
<1>9. ASSUME NEW q \in Party
      PROVE  ReceiverInv(q)'
    <2>1. /\ st'[q].ckr = st[q].ckr /\ st'[q].rk = st[q].rk
          /\ st'[q].mkskipped = st[q].mkskipped
        BY <1>5, <1>6 DEF IInv, TypeOK, s
    <2>2. OpenedKeys(q)' = OpenedKeys(q)
        BY <1>6 DEF OpenedKeys
    <2>. QED BY <1>6, <2>1, <2>2 DEF IInv, ReceiverInv, Sound, Spent, KeysBehind, KeysOutside, KeysDistinct
<1>10. ASSUME NEW q \in Party
       PROVE  SenderInv(q)'
    <2>1. CASE q # p
        <3>1. st'[q] = st[q] /\ wire'[Peer(q)] = wire[Peer(q)]
            BY <2>1, <1>6, PeerIsParty DEF IInv, TypeOK
        <3>. QED BY <3>1 DEF IInv, SenderInv
    <2>2. CASE q = p
        <3>1. /\ st'[p].cks = kdf_ck(s.cks, 1) /\ st'[p].rk = s.rk
              /\ wire'[Peer(p)] = wire[Peer(p)] \cup {m}
            BY <1>5, <1>6, PeerIsParty DEF IInv, TypeOK
        <3>2. /\ s.cks.root = s.rk /\ Len(s.rk) % 2 = Side(p)
              /\ \A w \in wire[Peer(p)] : /\ Behind(w.mk, s.cks)
                                          /\ Len(w.mk.root) % 2 = Side(p)
              /\ \A v, w \in wire[Peer(p)] : v.mk = w.mk => v = w
            BY <1>1 DEF IInv, SenderInv, s, CanSend
        <3>3. ~Behind(m.mk, s.cks) /\ Behind(m.mk, kdf_ck(s.cks, 1))
            <4>1. s.cks.n \in Int /\ Len(s.cks.root) \in Int BY <1>2 DEF ChainKey, Root
            <4>. QED BY <4>1, <1>3, <1>7 DEF Behind
        <3>4. \A w \in wire[Peer(p)] : Behind(w.mk, kdf_ck(s.cks, 1))
            <4> TAKE w \in wire[Peer(p)]
            <4>1. w.mk \in MessageKey BY PeerIsParty DEF IInv, TypeOK, Message
            <4>. QED BY <4>1, <1>2, <3>2, BehindAdvances
        <3>5. \A v, w \in wire[Peer(p)] \cup {m} : v.mk = w.mk => v = w
            BY <1>7, <3>2, <3>3
        <3>6. \A w \in wire[Peer(p)] \cup {m} : Behind(w.mk, kdf_ck(s.cks, 1)) /\ Len(w.mk.root) % 2 = Side(p)
            BY <1>7, <3>2, <3>3, <3>4
        <3>. QED BY <2>2, <1>3, <3>1, <3>2, <3>5, <3>6 DEF SenderInv
    <2>. QED BY <2>1, <2>2
<1>. QED BY <1>8, <1>9, <1>10 DEF IInv

\* A step that only draws a key number preserves the invariant.
LEMMA Unchanged ==
    ASSUME IInv, UNCHANGED <<st, wire, opened, sealed>>, nextKey' \in Nat
    PROVE  IInv'
<1>1. TypeOK'
    BY DEF IInv, TypeOK
<1>2. ASSUME NEW q \in Party PROVE ReceiverInv(q)'
    BY DEF IInv, ReceiverInv, OpenedKeys
<1>3. ASSUME NEW q \in Party PROVE SenderInv(q)'
    BY DEF IInv, SenderInv
<1>. QED BY <1>1, <1>2, <1>3 DEF IInv

\* Parity of a root length survives the two steps of a DH ratchet.
LEMMA TwoMore ==
    ASSUME NEW n \in Nat PROVE (n + 2) % 2 = n % 2
OBVIOUS

\* Committing a decrypted state preserves the invariant.
LEMMA ReceiveInv ==
    ASSUME IInv, NEW p \in Party, NEW r \in RatchetState,
           Len(r.mkskipped) <= MAX_SKIP_SESSION,
           \/ r.rk = st[p].rk /\ r.cks = st[p].cks
           \/ Len(r.rk) = Len(st[p].rk) + 2 /\ r.cks = ChainOf(r.rk),
           st' = [st EXCEPT ![p] = r], wire' = wire, sealed' = sealed,
           nextKey' \in {nextKey, nextKey + 1},
           NEW o \in Seq(Message), opened' = [opened EXCEPT ![p] = o],
           Sound(r), Spent(r, {o[i].mk : i \in DOMAIN o}), KeysDistinct(o)
    PROVE  IInv'
<1>1. opened'[p] = o /\ st'[p] = r /\ \A q \in Party \ {p} : opened'[q] = opened[q] /\ st'[q] = st[q]
    BY DEF IInv, TypeOK
<1>2. TypeOK'
    <2>1. st' \in [Party -> RatchetState] /\ opened' \in [Party -> Seq(Message)]
        BY DEF IInv, TypeOK
    <2>2. nextKey' \in Nat
        BY DEF IInv, TypeOK
    <2>. QED BY <1>1, <2>1, <2>2 DEF IInv, TypeOK
<1>3. ASSUME NEW q \in Party
      PROVE  ReceiverInv(q)'
    <2>1. CASE q = p
        <3>1. OpenedKeys(q)' = {o[i].mk : i \in DOMAIN o}
            BY <2>1, <1>1 DEF OpenedKeys
        <3>2. st'[q] = r /\ opened'[q] = o
            BY <2>1, <1>1
        <3>. QED BY <3>1, <3>2 DEF ReceiverInv
    <2>2. CASE q # p
        <3>1. st'[q] = st[q] /\ opened'[q] = opened[q]
            BY <2>2, <1>1
        <3>2. OpenedKeys(q)' = OpenedKeys(q)
            BY <3>1 DEF OpenedKeys
        <3>3. ReceiverInv(q)
            BY DEF IInv
        <3>. QED BY <3>1, <3>2, <3>3 DEF ReceiverInv
    <2>. QED BY <2>1, <2>2
<1>4. ASSUME NEW q \in Party
      PROVE  SenderInv(q)'
    <2>0. SenderInv(q) /\ wire'[Peer(q)] = wire[Peer(q)]
        BY DEF IInv
    <2>1. CASE q # p \/ (r.rk = st[p].rk /\ r.cks = st[p].cks)
        <3>1. st'[q].rk = st[q].rk /\ st'[q].cks = st[q].cks
            BY <2>1, <1>1
        <3>. QED BY ONLY <2>0, <3>1 DEF SenderInv
    <2>2. CASE q = p /\ Len(r.rk) = Len(st[p].rk) + 2 /\ r.cks = ChainOf(r.rk)
        <3>1. r.cks.root = r.rk BY <2>2 DEF ChainOf
        <3>2. Len(st[p].rk) \in Nat
            <4>1. st[p] \in RatchetState BY DEF IInv, TypeOK
            <4>. QED BY <4>1 DEF RatchetState, Root
        <3>3. Len(r.rk) % 2 = Side(p)
            <4>1. Len(st[p].rk) % 2 = Side(p) BY DEF IInv, SenderInv
            <4>. QED BY <4>1, <3>2, <2>2, TwoMore
        <3>4. ASSUME NEW m \in wire[Peer(p)]
              PROVE  Behind(m.mk, r.cks)
            <4>1. m.mk \in MessageKey BY PeerIsParty DEF IInv, TypeOK, Message
            <4>2. Len(m.mk.root) \in Nat /\ Len(<<>>) = 0 BY <4>1 DEF MessageKey, ChainKey, Root
            <4>3. Behind(m.mk, st[p].cks) BY DEF IInv, SenderInv
            <4>4. st[p].cks # NoChain
                <5>1. m.mk.n \in Nat BY <4>1 DEF MessageKey, ChainKey
                <5>. QED BY <4>2, <4>3, <5>1 DEF Behind, NoChain
            <4>5. Len(m.mk.root) <= Len(st[p].rk)
                <5>1. st[p].cks.root = st[p].rk BY <4>4 DEF IInv, SenderInv
                <5>. QED BY <3>2, <4>2, <4>3, <5>1 DEF Behind
            <4>. QED BY <2>2, <3>1, <3>2, <4>2, <4>5 DEF Behind
        <3>. QED BY <1>1, <2>2, <3>1, <3>3, <3>4 DEF IInv, SenderInv
    <2>. QED BY <2>1, <2>2
<1>. QED BY <1>2, <1>3, <1>4 DEF IInv

\* A message appended to what was opened adds its key to the opened ones.
LEMMA OneMoreKey ==
    ASSUME NEW f \in Seq(Message), NEW e \in Message
    PROVE  {Append(f, e)[i].mk : i \in DOMAIN Append(f, e)}
              = {f[i].mk : i \in DOMAIN f} \cup {e.mk}
<1> DEFINE g == Append(f, e)
<1>1. /\ DOMAIN g = 1 .. Len(f) + 1 /\ Len(f) \in Nat /\ DOMAIN f = 1 .. Len(f)
      /\ \A i \in 1 .. Len(f) : g[i] = f[i]
      /\ g[Len(f) + 1] = e
    OBVIOUS
<1> HIDE DEF g
<1>2. ASSUME NEW i \in DOMAIN g PROVE g[i] = e \/ (i \in DOMAIN f /\ g[i] = f[i])
    BY <1>1
<1>3. ASSUME NEW i \in DOMAIN f PROVE i \in DOMAIN g /\ g[i] = f[i]
    BY <1>1
<1>4. Len(f) + 1 \in DOMAIN g
    BY <1>1
<1>5. {g[i].mk : i \in DOMAIN g} = {f[i].mk : i \in DOMAIN f} \cup {e.mk}
    BY ONLY <1>1, <1>2, <1>3, <1>4
<1>. QED BY <1>5 DEF g

\* An arrival, opened or refused, preserves the invariant.
LEMMA ArriveStep ==
    ASSUME IInv, NEW p \in Party, NEW m \in wire[p], Arrive(p, m)
    PROVE  IInv'
<1> DEFINE s == st[p]
           r == ratchet_decrypt(s, m.h, m.mk, nextKey)
           U == OpenedKeys(p)
<1>1. /\ s \in RatchetState /\ Len(s.mkskipped) <= MAX_SKIP_SESSION
      /\ m \in Message /\ opened[p] \in Seq(Message) /\ nextKey \in Key
    BY DEF IInv, TypeOK, Key
<1>2. m.h \in Header /\ m.mk \in MessageKey
    BY <1>1 DEF Message
<1>3. \A i \in DOMAIN opened[p] : opened[p][i].mk \in MessageKey
    <2> TAKE i \in DOMAIN opened[p]
    <2>1. opened[p][i] \in Message BY <1>1
    <2>. QED BY <2>1 DEF Message
<1>4. U \in SUBSET MessageKey
    BY <1>3 DEF OpenedKeys
<1>5. Sound(s) /\ Spent(s, U) /\ KeysDistinct(opened[p])
    BY DEF IInv, ReceiverInv
<1>6. /\ st' = [st EXCEPT ![p] = r]
      /\ opened' = [opened EXCEPT ![p] =
                       IF Opens(s, m.h, m.mk, nextKey) THEN Append(@, m) ELSE @]
      /\ wire' = wire /\ sealed' = sealed
      /\ nextKey' \in {nextKey, nextKey + 1}
    BY DEF Arrive
<1>7. \/ r.rk = s.rk /\ r.cks = s.cks
      \/ Len(r.rk) = Len(s.rk) + 2 /\ r.cks = ChainOf(r.rk)
    BY <1>1, <1>2, DecryptSends
<1>8. CASE Opens(s, m.h, m.mk, nextKey)
    <2>1. /\ m.mk \notin U
          /\ r \in RatchetState /\ Len(r.mkskipped) <= MAX_SKIP_SESSION
          /\ Sound(r) /\ Spent(r, U \cup {m.mk})
        BY <1>1, <1>2, <1>4, <1>5, <1>8, DecryptKeeps
    <2> HIDE DEF s, r
    <2>2. opened'[p] = Append(opened[p], m)
        BY <1>6, <1>8 DEF IInv, TypeOK
    <2>3. OpenedKeys(p)' = U \cup {m.mk}
        <3>1. opened[p] \in Seq(Message) /\ m \in Message
            BY <1>1
        <3> DEFINE o == Append(opened[p], m)
        <3>2. {o[i].mk : i \in DOMAIN o} = {opened[p][i].mk : i \in DOMAIN opened[p]} \cup {m.mk}
            BY <3>1, OneMoreKey
        <3>3. opened'[p] = o
            BY <2>2
        <3> HIDE DEF o
        <3>. QED BY ONLY <3>2, <3>3 DEF OpenedKeys, U
    <2>4. KeysDistinct(opened'[p])
        <3>1. /\ DOMAIN opened'[p] = 1 .. Len(opened[p]) + 1
              /\ \A i \in 1 .. Len(opened[p]) : opened'[p][i] = opened[p][i]
              /\ opened'[p][Len(opened[p]) + 1] = m
              /\ DOMAIN opened[p] = 1 .. Len(opened[p]) /\ Len(opened[p]) \in Nat
            BY <1>1, <2>2
        <3>2. \A i \in 1 .. Len(opened[p]) : opened'[p][i].mk # m.mk
            BY <2>1, <3>1 DEF OpenedKeys
        <3>3. \A i \in DOMAIN opened'[p] : i \in DOMAIN opened[p] \/ i = Len(opened[p]) + 1
            BY <3>1
        <3>. QED BY <1>5, <3>1, <3>2, <3>3 DEF KeysDistinct
    <2>5. opened'[p] \in Seq(Message)
        BY <1>1, <2>2
    <2> DEFINE o == Append(opened[p], m)
    <2>6. U \cup {m.mk} = {o[i].mk : i \in DOMAIN o}
        BY <2>2, <2>3 DEF OpenedKeys
    <2>7. o \in Seq(Message) /\ KeysDistinct(o)
        BY <2>2, <2>4, <2>5
    <2>8. opened' = [opened EXCEPT ![p] = o]
        BY <1>6, <1>8
    <2>9. Spent(r, {o[i].mk : i \in DOMAIN o})
        BY <2>1, <2>6
    <2> HIDE DEF o, U
    <2>. QED BY <1>6, <1>7, <2>1, <2>7, <2>8, <2>9, ReceiveInv DEF s
<1>9. CASE ~Opens(s, m.h, m.mk, nextKey)
    <2>1. r = s
        BY <1>9 DEF ratchet_decrypt
    <2>2. st' = st /\ opened' = opened
        BY <1>6, <1>9, <2>1 DEF IInv, TypeOK
    <2>3. nextKey' \in Nat
        BY <1>1, <1>6 DEF Key
    <2>. QED BY <1>6, <2>2, <2>3, Unchanged
<1>. QED BY <1>8, <1>9

\* IInv is an inductive invariant of two parties over any lossy, reordering and
\* duplicating channel.
THEOREM Inductive == Spec => []IInv
<1>1. Init => IInv
    BY InitInv
<1>2. IInv /\ [Next]_vars => IInv'
    <2> SUFFICES ASSUME IInv, [Next]_vars PROVE IInv'
        OBVIOUS
    <2>1. ASSUME NEW p \in Party, Seal(p) PROVE IInv'
        BY <2>1, SealStep
    <2>2. ASSUME NEW p \in Party, NEW m \in wire[p], Arrive(p, m) PROVE IInv'
        BY <2>2, ArriveStep
    <2>3. CASE UNCHANGED vars
        <3>1. st' = st /\ wire' = wire /\ opened' = opened /\ sealed' = sealed /\ nextKey' = nextKey
            BY <2>3 DEF vars
        <3>2. nextKey' \in Nat
            BY <3>1 DEF IInv, TypeOK
        <3>. QED BY <3>1, <3>2, Unchanged
    <2>. QED BY <2>1, <2>2, <2>3 DEF Next
<1>. QED BY <1>1, <1>2, PTL DEF Spec

\* States stay well typed, and the store of skipped keys within MAX_SKIP_SESSION
\* (ratchet.py _store_skipped), for every value of the limits.
THEOREM TypeCorrect == Spec => []TypeOK
<1>1. IInv => TypeOK
    BY DEF IInv
<1>. QED BY <1>1, Inductive, PTL

\* ratchet_decrypt never yields the plaintext of one ciphertext twice, whatever
\* is replayed and however long the exchange (ratchet.py 85-142).
THEOREM OpensAtMostOnce == Spec => []AtMostOnce
<1>1. IInv => AtMostOnce
    BY DEF IInv, ReceiverInv, KeysDistinct, AtMostOnce, IsInjective
<1>. QED BY <1>1, Inductive, PTL

\* ratchet_encrypt never seals two messages under one message key, in either
\* direction (ratchet.py 56-82 and 145-152).
THEOREM SealsUnderFreshKeys == Spec => []SealKeysUnique
<1>1. IInv => SealKeysUnique
    <2> SUFFICES ASSUME IInv, NEW p \in Party, NEW q \in Party,
                        NEW m \in wire[p], NEW w \in wire[q], m.mk = w.mk
                 PROVE  m = w
        BY DEF SealKeysUnique
    <2>1. /\ Peer(p) \in Party /\ Peer(Peer(p)) = p
          /\ Peer(q) \in Party /\ Peer(Peer(q)) = q
        BY PeerIsParty
    <2>2. SenderInv(Peer(p)) /\ SenderInv(Peer(q))
        BY <2>1 DEF IInv
    <2>3. CASE p = q
        BY <2>1, <2>2, <2>3 DEF SenderInv
    <2>4. CASE p # q
        <3>1. Len(m.mk.root) % 2 = Side(Peer(p)) /\ Len(w.mk.root) % 2 = Side(Peer(q))
            BY ONLY <2>1, <2>2, m \in wire[p], w \in wire[q] DEF SenderInv
        <3>2. Side(Peer(p)) = Side(Peer(q))
            BY <3>1
        <3>. QED BY <2>4, <3>2 DEF Side, Peer, Party
    <2>. QED BY <2>3, <2>4
<1>. QED BY <1>1, Inductive, PTL

-----------------------------------------------------------------------------
(* The two roots.  Every message was sealed off a root its sender still    *)
(* has or has gone on from, and a party moves its own root only to open a  *)
(* message sealed off the next one.                                        *)

RootsInv ==
    \A p \in Party :
        /\ InStep(st[p].rk, st[Peer(p)].rk)
        /\ \A m \in wire[Peer(p)] : Within(m.mk.root, st[p].rk)

\* Sealing puts a message off the root of the sender on the wire.
LEMMA SealRoots ==
    ASSUME IInv, TypeOK', RootsInv, NEW p \in Party, Seal(p)
    PROVE  RootsInv'
<1> DEFINE m == [h |-> NextHeader(st[p]), mk |-> NextSealKey(st[p]), body |-> <<p, sealed[p]>>]
<1>1. st' = [st EXCEPT ![p] = ratchet_encrypt(st[p])] /\ wire' = [wire EXCEPT ![Peer(p)] = @ \cup {m}]
    BY DEF Seal
<1>2. m.mk.root = st[p].rk
    BY DEF Seal, CanSend, NextSealKey, IInv, SenderInv
<1> HIDE DEF m
<1>3. st[p] \in RatchetState /\ st[p].rk \in Root
    BY DEF IInv, TypeOK, RatchetState
<1>4. ratchet_encrypt(st[p]).rk = st[p].rk
    BY <1>3, EncryptFields
<1>5. \A q \in Party : st'[q].rk = st[q].rk
    BY <1>1, <1>4 DEF IInv, TypeOK
<1>6. \A q \in Party : InStep(st'[q].rk, st'[Peer(q)].rk)
    BY <1>5, PeerIsParty DEF RootsInv
<1>7. ASSUME NEW q \in Party, NEW w \in wire'[Peer(q)] PROVE Within(w.mk.root, st'[q].rk)
    <2>1. w \in wire[Peer(q)] \/ (q = p /\ w = m)
        BY <1>1, <1>7, PeerIsParty DEF IInv, TypeOK
    <2>2. Within(st[p].rk, st[p].rk)
        BY <1>3 DEF Within, Root
    <2>. QED BY <1>2, <1>5, <2>1, <2>2 DEF RootsInv
<1>. QED BY <1>6, <1>7 DEF RootsInv

\* An arrival moves the root of its receiver past the root of the peer, or not at all.
LEMMA ArriveRoots ==
    ASSUME IInv, TypeOK', RootsInv, NEW p \in Party, NEW m \in wire[p], Arrive(p, m)
    PROVE  RootsInv'
<1> DEFINE q == Peer(p)
           r == ratchet_decrypt(st[p], m.h, m.mk, nextKey)
           mine == st[p].rk
           theirs == st[q].rk
<1>1. /\ wire' = wire /\ st' = [st EXCEPT ![p] = r]
      /\ q \in Party /\ Peer(q) = p /\ q # p
    BY PeerIsParty DEF Arrive
<1>2. /\ st'[p] = r /\ \A u \in Party : u # p => st'[u] = st[u]
      /\ \A u \in Party : st[u].rk \in Root /\ st'[u].rk \in Root
      /\ \A u \in Party : \A w \in wire[u] : w.mk.root \in Root
    <2>1. \A w \in Message : w.mk.root \in Root
        BY DEF Message, MessageKey, ChainKey
    <2>2. \A u \in Party : st[u] \in RatchetState /\ st'[u] \in RatchetState /\ wire[u] \subseteq Message
        BY DEF IInv, TypeOK
    <2>. QED BY <1>1, <2>1, <2>2 DEF IInv, TypeOK, RatchetState
<1>3. \/ r.rk = mine
      \/ /\ \E x \in SUBSET Key : m.mk.root = Append(mine, x)
         /\ \E y \in SUBSET Key : r.rk = Append(m.mk.root, y)
    <2>1. /\ st[p] \in RatchetState /\ Len(st[p].mkskipped) <= MAX_SKIP_SESSION
          /\ m.h \in Header /\ nextKey \in Key
        BY DEF IInv, TypeOK, Message, Key
    <2>. QED BY <2>1, DecryptRoots
<1> HIDE DEF r
<1>4. CASE r.rk = mine
    <2>1. \A u \in Party : st'[u].rk = st[u].rk
        BY <1>2, <1>4
    <2>. QED BY <1>1, <2>1, PeerIsParty DEF RootsInv
<1>5. CASE /\ \E x \in SUBSET Key : m.mk.root = Append(mine, x)
           /\ \E y \in SUBSET Key : r.rk = Append(m.mk.root, y)
    <2>1. mine \in Root /\ theirs \in Root /\ m.mk.root \in Root /\ r.rk \in Root
        BY <1>1, <1>2
    \* The message was sealed off a root the peer has, so off the peer's root itself.
    <2>2. Within(m.mk.root, theirs) /\ InStep(mine, theirs)
        BY <1>1 DEF RootsInv
    <2> HIDE DEF mine, theirs, q
    <2>3. InStep(r.rk, theirs) /\ Within(mine, r.rk)
        BY <1>5, <2>1, <2>2, StepPast
    <2>4. ASSUME NEW u \in Party PROVE InStep(st'[u].rk, st'[Peer(u)].rk)
        <3>1. InStep(st'[p].rk, st'[q].rk)
            BY <1>1, <1>2, <2>3 DEF theirs
        <3>2. InStep(st'[q].rk, st'[p].rk)
            BY <1>1, <1>2, <3>1, InStepTurns
        <3>3. u = p \/ (u = q /\ Peer(u) = p)
            BY <1>1 DEF Party
        <3>. QED BY <3>1, <3>2, <3>3 DEF q
    <2>5. ASSUME NEW u \in Party, NEW w \in wire[Peer(u)] PROVE Within(w.mk.root, st'[u].rk)
        <3>1. Within(w.mk.root, st[u].rk) /\ w.mk.root \in Root
            BY <1>2, <2>5, PeerIsParty DEF RootsInv
        <3>. QED BY <1>2, <2>1, <2>3, <3>1, WithinOn DEF mine
    <2>. QED BY <1>1, <2>4, <2>5 DEF RootsInv
<1>. QED BY <1>3, <1>4, <1>5

\* The two root chains never part, whatever is lost, replayed or overtaken: one party
\* is exactly one DH step ahead of the other (ratchet.py 145-152).
THEOREM RootsStayInStep == Spec => []RootsInStep
<1>1. Init => RootsInv
    <2> SUFFICES ASSUME Init PROVE RootsInv
        OBVIOUS
    <2>1. /\ InStep(st["alice"].rk, st["bob"].rk) /\ InStep(st["bob"].rk, st["alice"].rk)
          /\ \A p \in Party : wire[Peer(p)] = {}
        <3>1. 1 \in Key /\ 2 \in Key /\ 3 \in Key
            BY DEF Key
        <3>. QED BY <3>1, SeedRoots, PeerIsParty DEF Init, Party
    <2>. QED BY <2>1 DEF RootsInv, Party, Peer
<1>2. IInv /\ TypeOK' /\ RootsInv /\ [Next]_vars => RootsInv'
    <2> SUFFICES ASSUME IInv, TypeOK', RootsInv, [Next]_vars PROVE RootsInv'
        OBVIOUS
    <2>1. ASSUME NEW p \in Party, Seal(p) PROVE RootsInv'
        BY <2>1, SealRoots
    <2>2. ASSUME NEW p \in Party, NEW m \in wire[p], Arrive(p, m) PROVE RootsInv'
        BY <2>2, ArriveRoots
    <2>3. CASE UNCHANGED vars
        BY <2>3 DEF vars, RootsInv
    <2>. QED BY <2>1, <2>2, <2>3 DEF Next
<1>3. TypeOK /\ RootsInv => RootsInStep
    <2> SUFFICES ASSUME TypeOK, RootsInv PROVE RootsInStep
        OBVIOUS
    <2>1. st["alice"].rk \in Root /\ st["bob"].rk \in Root
        BY DEF TypeOK, RatchetState, Party
    <2>2. InStep(st["alice"].rk, st["bob"].rk)
        BY DEF RootsInv, Party, Peer
    <2>. QED BY <2>1, <2>2, WithinIsPrefix DEF InStep, RootsInStep
<1>. QED BY <1>1, <1>2, <1>3, Inductive, TypeCorrect, PTL DEF Spec

-----------------------------------------------------------------------------
(* To its users the exchange is AtMostOnceChannel: each sealing gives a    *)
(* text, each opening takes one that was given and not yet taken, and a    *)
(* refused message is a stutter.  That a text is taken once needs more     *)
(* than OpensAtMostOnce, which speaks of ciphertexts: TextInv adds that a  *)
(* text was sealed once, and that what was opened had been on the wire.    *)

\* The plaintexts on the wire to p are the peer's, numbered below the count of
\* the peer's sealings, each in one ciphertext; p opened nothing else.
TextInv(p) ==
    /\ \A m \in wire[p] : \E n \in 0 .. sealed[Peer(p)] - 1 : m.body = <<Peer(p), n>>
    /\ \A m, w \in wire[p] : m.body = w.body => m = w
    /\ \A i \in DOMAIN opened[p] : opened[p][i] \in wire[p]

TextsInv == \A p \in Party : TextInv(p)

\* Sealing adds one new number to the wire.
LEMMA SealTexts ==
    ASSUME TypeOK, TextsInv, NEW p \in Party, Seal(p)
    PROVE  TextsInv'
<1> DEFINE m == [h |-> NextHeader(st[p]), mk |-> NextSealKey(st[p]), body |-> <<p, sealed[p]>>]
<1>1. /\ wire' = [wire EXCEPT ![Peer(p)] = @ \cup {m}]
      /\ opened' = opened
      /\ sealed' = [sealed EXCEPT ![p] = @ + 1]
    BY DEF Seal
<1>2. m.body = <<p, sealed[p]>>
    OBVIOUS
<1> HIDE DEF m
<1> SUFFICES ASSUME NEW q \in Party PROVE TextInv(q)'
    BY DEF TextsInv
<1>3. TextInv(q) /\ sealed[p] \in Nat
    BY MaxSealsAssumption DEF TextsInv, TypeOK
<1>4. CASE q # Peer(p)
    <2>1. Peer(q) # p
        BY <1>4, PeerIsParty
    <2>2. wire'[q] = wire[q] /\ sealed'[Peer(q)] = sealed[Peer(q)]
        BY <1>1, <1>4, <2>1, PeerIsParty DEF TypeOK
    <2>. QED BY <1>1, <1>3, <2>2 DEF TextInv
<1>5. CASE q = Peer(p)
    <2>1. Peer(q) = p
        BY <1>5, PeerIsParty
    <2>2. wire'[q] = wire[q] \cup {m} /\ sealed'[p] = sealed[p] + 1
        BY <1>1, <1>5, PeerIsParty DEF TypeOK
    <2>3. \A w \in wire[q] : \E n \in 0 .. sealed[p] - 1 : w.body = <<p, n>>
        BY <1>3, <2>1 DEF TextInv
    <2>4. \A w \in wire[q] : w.body # m.body
        <3> TAKE w \in wire[q]
        <3>1. PICK n \in 0 .. sealed[p] - 1 : w.body = <<p, n>>
            BY <2>3
        <3>. QED BY <3>1, <1>2, <1>3
    <2>5. \A w \in wire'[q] : \E n \in 0 .. sealed'[p] - 1 : w.body = <<p, n>>
        <3> TAKE w \in wire'[q]
        <3>1. CASE w = m
            <4>1. sealed[p] \in 0 .. sealed'[p] - 1
                BY <1>3, <2>2
            <4>. QED BY <3>1, <4>1, <1>2
        <3>2. CASE w \in wire[q]
            <4>1. PICK n \in 0 .. sealed[p] - 1 : w.body = <<p, n>>
                BY <2>3, <3>2
            <4>2. n \in 0 .. sealed'[p] - 1
                BY <1>3, <2>2
            <4>. QED BY <4>1, <4>2
        <3>. QED BY <2>2, <3>1, <3>2
    <2>6. \A v, w \in wire'[q] : v.body = w.body => v = w
        BY <1>3, <2>2, <2>4 DEF TextInv
    <2>7. \A i \in DOMAIN opened'[q] : opened'[q][i] \in wire'[q]
        BY <1>1, <1>3, <2>2 DEF TextInv
    <2>. QED BY <2>1, <2>5, <2>6, <2>7 DEF TextInv
<1>. QED BY <1>4, <1>5

\* What is opened was on the wire.
LEMMA ArriveTexts ==
    ASSUME TypeOK, TextsInv, NEW p \in Party, NEW m \in wire[p], Arrive(p, m)
    PROVE  TextsInv'
<1>1. wire' = wire /\ sealed' = sealed
    BY DEF Arrive
<1> SUFFICES ASSUME NEW q \in Party PROVE TextInv(q)'
    BY DEF TextsInv
<1>2. TextInv(q)
    BY DEF TextsInv
<1>3. \/ opened'[q] = opened[q]
      \/ q = p /\ opened'[q] = Append(opened[q], m)
    BY DEF Arrive, TypeOK
<1>4. opened[q] \in Seq(Message)
    BY DEF TypeOK
<1>5. \A i \in DOMAIN opened'[q] : opened'[q][i] \in wire[q]
    <2>1. CASE opened'[q] = opened[q]
        BY <1>2, <2>1 DEF TextInv
    <2>2. CASE q = p /\ opened'[q] = Append(opened[q], m)
        <3> TAKE i \in DOMAIN opened'[q]
        <3>1. \/ i \in DOMAIN opened[q] /\ opened'[q][i] = opened[q][i]
              \/ opened'[q][i] = m
            BY <1>4, <2>2
        <3>. QED BY <1>2, <2>2, <3>1 DEF TextInv
    <2>. QED BY <1>3, <2>1, <2>2
<1>. QED BY <1>1, <1>2, <1>5 DEF TextInv

\* TextsInv holds throughout.
THEOREM TextsOnce == Spec => []TextsInv
<1>1. Init => TextsInv
    <2> SUFFICES ASSUME Init, NEW p \in Party PROVE TextInv(p)
        BY DEF TextsInv
    <2>1. wire[p] = {} /\ opened[p] = <<>>
        BY DEF Init
    <2>. QED BY <2>1 DEF TextInv
<1>2. TypeOK /\ TextsInv /\ [Next]_vars => TextsInv'
    <2> SUFFICES ASSUME TypeOK, TextsInv, [Next]_vars PROVE TextsInv'
        OBVIOUS
    <2>1. ASSUME NEW p \in Party, Seal(p) PROVE TextsInv'
        BY <2>1, SealTexts
    <2>2. ASSUME NEW p \in Party, NEW m \in wire[p], Arrive(p, m) PROVE TextsInv'
        BY <2>2, ArriveTexts
    <2>3. CASE UNCHANGED vars
        BY <2>3 DEF vars, TextsInv, TextInv
    <2>. QED BY <2>1, <2>2, <2>3 DEF Next
<1>. QED BY <1>1, <1>2, TypeCorrect, PTL DEF Spec

-----------------------------------------------------------------------------

\* A step of the ratchets is a step of the channel or none.
LEMMA StepRefines ==
    ASSUME TypeOK, TextsInv, AtMostOnce', TypeOK', [Next]_vars
    PROVE  [Channel!Next]_(Channel!vars)
<1>1. ASSUME NEW p \in Party, Seal(p)
      PROVE  Channel!Give(p)
    <2>1. sealed' = [sealed EXCEPT ![p] = @ + 1] /\ opened' = opened
        BY <1>1 DEF Seal
    <2>2. TakenTexts' = TakenTexts
        BY <2>1 DEF TakenTexts
    <2>. QED BY <2>1, <2>2 DEF Channel!Give
<1>2. ASSUME NEW p \in Party, NEW m \in wire[p], Arrive(p, m)
      PROVE  \/ UNCHANGED <<sealed, TakenTexts>>
             \/ \E n \in 0 .. sealed[Peer(p)] - 1 : Channel!Take(p, Peer(p), n)
    <2>1. sealed' = sealed
        BY <1>2 DEF Arrive
    <2>2. CASE ~Opens(st[p], m.h, m.mk, nextKey)
        <3>1. opened' = opened
            BY <1>2, <2>2 DEF Arrive, TypeOK
        <3>. QED BY <2>1, <3>1 DEF TakenTexts
    <2>3. CASE Opens(st[p], m.h, m.mk, nextKey)
        <3>1. PICK n \in 0 .. sealed[Peer(p)] - 1 : m.body = <<Peer(p), n>>
            BY DEF TextsInv, TextInv
        <3>2. opened' = [opened EXCEPT ![p] = Append(opened[p], m)]
            BY <1>2, <2>3 DEF Arrive
        <3>3. /\ opened[p] \in Seq(Message) /\ opened'[p] = Append(opened[p], m)
              /\ \A q \in Party : q # p => opened'[q] = opened[q]
            BY <3>2 DEF TypeOK
        <3>4. /\ DOMAIN opened[p] = 1 .. Len(opened[p]) /\ Len(opened[p]) \in Nat
              /\ DOMAIN opened'[p] = 1 .. Len(opened[p]) + 1
              /\ \A i \in 1 .. Len(opened[p]) : opened'[p][i] = opened[p][i]
              /\ opened'[p][Len(opened[p]) + 1] = m
            BY <3>3
        <3>5. \A i \in DOMAIN opened[p] : opened[p][i] # m
            <4>1. IsInjective(opened'[p])
                BY DEF AtMostOnce
            <4>. QED BY <3>4, <4>1 DEF IsInjective
        <3>6. \A i \in DOMAIN TakenTexts[p] : TakenTexts[p][i] # <<Peer(p), n>>
            <4> SUFFICES ASSUME NEW i \in DOMAIN opened[p]
                         PROVE  opened[p][i].body # m.body
                BY <3>1 DEF TakenTexts
            <4>1. opened[p][i] \in wire[p]
                BY DEF TextsInv, TextInv
            <4>. QED BY <3>5, <4>1 DEF TextsInv, TextInv
        <3>7. TakenTexts' = [TakenTexts EXCEPT ![p] = Append(@, <<Peer(p), n>>)]
            <4> DEFINE before == [i \in DOMAIN opened[p] |-> opened[p][i].body]
                       after == [i \in DOMAIN opened'[p] |-> opened'[p][i].body]
            <4>1. before = [i \in 1 .. Len(opened[p]) |-> opened[p][i].body]
                BY <3>4
            <4>2. after = [i \in 1 .. Len(opened[p]) + 1 |-> opened'[p][i].body]
                BY <3>4
            <4>3. Append(before, m.body) = [i \in 1 .. Len(opened[p]) + 1 |->
                      IF i \in 1 .. Len(opened[p]) THEN before[i] ELSE m.body]
                BY <3>4, <4>1
            <4>4. after = Append(before, m.body)
                BY <3>4, <4>2, <4>3
            <4>5. TakenTexts[p] = before /\ TakenTexts'[p] = after
                BY DEF TakenTexts
            <4>6. \A q \in Party : q # p => TakenTexts'[q] = TakenTexts[q]
                BY <3>3 DEF TakenTexts
            <4>. QED BY <3>1, <4>4, <4>5, <4>6 DEF TakenTexts
        <3>8. Channel!Take(p, Peer(p), n)
            BY <2>1, <3>6, <3>7, PeerIsParty DEF Channel!Take
        <3>. QED BY <3>8
    <2>. QED BY <2>2, <2>3
<1>3. CASE UNCHANGED vars
    BY <1>3 DEF vars, TakenTexts, Channel!vars
<1>4. CASE Next
    BY <1>1, <1>2, <1>4, PeerIsParty DEF Next, Channel!Next, Channel!vars
<1>. QED BY <1>3, <1>4

\* To its users the exchange is a channel that delivers each text at most once
\* and only from the party that gave it (envelope.py seal and open_ over
\* ratchet.py), for any number of texts.
THEOREM RatchetIsChannel == Spec => ImplementsChannel
<1>1. Init => Channel!Init
    BY DEF Init, Channel!Init, TakenTexts
<1>2. TypeOK /\ TextsInv /\ AtMostOnce' /\ TypeOK' /\ [Next]_vars => [Channel!Next]_(Channel!vars)
    BY StepRefines
<1>. QED BY <1>1, <1>2, TypeCorrect, TextsOnce, OpensAtMostOnce, PTL
         DEF Spec, ImplementsChannel, Channel!Spec

-----------------------------------------------------------------------------
(* What it takes to open.  Every key behind the receiving chain is used,   *)
(* stored or evicted, the stored ones are in the order in which they       *)
(* sealed, and every number below one that was sealed was sealed too; so   *)
(* a gap counts messages outstanding, and an eviction later sealings.      *)

Number(m) == m.body[2]

\* W is what one party sealed, chain after chain and without a gap.
Orderly(W) ==
    /\ \A m \in W : m.mk.n = m.h.n /\ m.mk.root # <<>>
    /\ \A m, w \in W :
        /\ m.h.dh = w.h.dh <=> m.mk.root = w.mk.root
        /\ Len(m.mk.root) = Len(w.mk.root) => m.mk.root = w.mk.root
        /\ m.mk.root = w.mk.root => Number(m) - Number(w) = m.h.n - w.h.n
        /\ Len(m.mk.root) < Len(w.mk.root) => Number(m) < Number(w)
        /\ m.mk = w.mk => m = w
    /\ \A m \in W : \A n \in 0 .. m.h.n : \E w \in W : w.mk = [root |-> m.mk.root, n |-> n]

\* The keys stored in q are of messages of W, in the order they were sealed.
Filed(q, W) ==
    /\ \A i \in DOMAIN q : \E m \in W : q[i] = [dh |-> m.h.dh, n |-> m.h.n, mk |-> m.mk]
    /\ \A i, j \in DOMAIN q : \A m, w \in W :
          i <= j /\ m.mk = q[i].mk /\ w.mk = q[j].mk => Number(w) - Number(m) >= j - i

\* s, which receives W, knows its receiving chain by the header's key.
Knows(s, W) ==
    /\ s.ckr # NoChain => s.ckr.n = s.nr
    /\ \A m \in W : m.h.dh = s.dhr <=> m.mk.root = s.ckr.root
    /\ Filed(s.mkskipped, W)

\* m has its key in q.
InStore(m, q) == \E i \in DOMAIN q : q[i].mk = m.mk

\* Of what s has not opened, the keys behind its chain are stored, but for those of
\* messages that MAX_SKIP_SESSION others and the last one were sealed after.
Held(s, W, O, last) ==
    \A m \in W \ O : Behind(m.mk, s.ckr)
                        => InStore(m, s.mkskipped) \/ last - Number(m) > MAX_SKIP_SESSION

\* The fields of a message.
LEMMA MessageFields ==
    ASSUME NEW m \in Message
    PROVE  /\ m.h \in Header /\ m.h.dh \in Key /\ m.h.n \in Nat /\ m.h.pn \in Nat
           /\ m.mk \in MessageKey /\ m.mk \in ChainKey /\ m.mk.root \in Root /\ m.mk.n \in Nat
           /\ Len(m.mk.root) \in Nat /\ Number(m) \in Nat
           /\ m.mk = [root |-> m.mk.root, n |-> m.mk.n]
<1>1. m.h \in Header /\ m.mk \in ChainKey /\ m.body \in Party \X Nat
    BY DEF Message, MessageKey
<1>2. m.h.dh \in Key /\ m.h.n \in Nat /\ m.h.pn \in Nat
    BY <1>1 DEF Header
<1>3. m.mk.root \in Root /\ m.mk.n \in Nat /\ m.mk = [root |-> m.mk.root, n |-> m.mk.n]
    BY <1>1 DEF ChainKey
<1>4. Len(m.mk.root) \in Nat
    BY <1>3 DEF Root
<1>5. Number(m) \in Nat
    BY <1>1 DEF Number
<1>. QED BY <1>1, <1>2, <1>3, <1>4, <1>5 DEF MessageKey

\* What is behind a chain was sealed before what is not.
LEMMA Earlier ==
    ASSUME NEW W \in SUBSET Message, Orderly(W), NEW m \in W, NEW w \in W,
           NEW ck \in ChainKey, Behind(m.mk, ck), ~Behind(w.mk, ck)
    PROVE  Number(m) < Number(w)
<1>1. /\ Len(m.mk.root) \in Nat /\ Number(m) \in Nat /\ m.mk.n \in Nat /\ m.h.n \in Nat
      /\ Len(w.mk.root) \in Nat /\ Number(w) \in Nat /\ w.mk.n \in Nat /\ w.h.n \in Nat
    BY MessageFields
<1>2. ck.n \in Nat /\ Len(ck.root) \in Nat
    BY DEF ChainKey, Root
<1>3. m.mk.n = m.h.n /\ w.mk.n = w.h.n
    BY DEF Orderly
<1>4. Len(m.mk.root) < Len(w.mk.root) => Number(m) < Number(w)
    BY DEF Orderly
<1>5. m.mk.root = w.mk.root => Number(m) - Number(w) = m.h.n - w.h.n
    BY DEF Orderly
<1>6. Len(m.mk.root) = Len(w.mk.root) => m.mk.root = w.mk.root
    BY DEF Orderly
<1>7. CASE Len(m.mk.root) < Len(ck.root)
    BY <1>1, <1>2, <1>4, <1>7 DEF Behind
<1>8. CASE m.mk.root = ck.root /\ m.mk.n < ck.n
    <2>1. Len(m.mk.root) <= Len(w.mk.root)
        BY <1>1, <1>2, <1>8 DEF Behind
    <2>2. CASE Len(m.mk.root) = Len(w.mk.root)
        <3>1. m.mk.root = w.mk.root
            BY <2>2, <1>6
        <3>2. w.mk.n >= ck.n
            BY <1>1, <1>2, <1>8, <3>1 DEF Behind
        <3>. QED BY <1>1, <1>2, <1>3, <1>5, <1>8, <3>1, <3>2
    <2>. QED BY <1>1, <1>4, <2>1, <2>2
<1>. QED BY <1>7, <1>8 DEF Behind

\* Newest drops from the front alone, and only what is beyond the limit.
LEMMA NewestLast ==
    ASSUME NEW S, NEW q \in Seq(S)
    PROVE  \E d \in Nat :
              /\ d = 0 \/ Len(q) = d + MAX_SKIP_SESSION
              /\ Newest(q) \in Seq(S) /\ Len(q) = d + Len(Newest(q))
              /\ \A i \in DOMAIN Newest(q) : i + d \in DOMAIN q /\ Newest(q)[i] = q[i + d]
<1> DEFINE d == Len(q) - Len(Newest(q))
<1>1. CASE Len(q) > MAX_SKIP_SESSION
    <2>1. Len(Newest(q)) = MAX_SKIP_SESSION
        BY <1>1, SkipAssumption DEF Newest
    <2>2. d \in Nat /\ Len(q) = d + MAX_SKIP_SESSION
        BY <1>1, <2>1, SkipAssumption
    <2>3. Len(q) = d + Len(Newest(q))
        BY <2>1, <2>2
    <2>. QED BY <2>2, <2>3, NewestShort
<1>2. CASE ~(Len(q) > MAX_SKIP_SESSION)
    <2>1. Newest(q) = q
        BY <1>2 DEF Newest
    <2>2. d = 0 /\ Len(q) = d + Len(Newest(q))
        BY <2>1
    <2>3. 0 \in Nat
        OBVIOUS
    <2>. QED BY <2>2, <2>3, NewestShort
<1>. QED BY <1>1, <1>2

\* What Newest drops, at least MAX_SKIP_SESSION were sealed after.
LEMMA NewestFiled ==
    ASSUME NEW W \in SUBSET Message, NEW q \in Seq(SkippedEntry), Filed(q, W),
           NEW last \in Int, \A w \in W : InStore(w, q) => Number(w) < last
    PROVE  /\ Filed(Newest(q), W)
           /\ \A m \in W : InStore(m, q) => InStore(m, Newest(q)) \/ last - Number(m) > MAX_SKIP_SESSION
<1>1. PICK d \in Nat :
              /\ d = 0 \/ Len(q) = d + MAX_SKIP_SESSION
              /\ Newest(q) \in Seq(SkippedEntry) /\ Len(q) = d + Len(Newest(q))
              /\ \A i \in DOMAIN Newest(q) : i + d \in DOMAIN q /\ Newest(q)[i] = q[i + d]
    BY NewestLast
<1> DEFINE new == Newest(q)
<1> HIDE DEF new
<1>2. /\ new \in Seq(SkippedEntry) /\ Len(q) = d + Len(new)
      /\ \A i \in DOMAIN new : i + d \in DOMAIN q /\ new[i] = q[i + d]
    BY <1>1 DEF new
<1>3. DOMAIN q = 1 .. Len(q) /\ Len(q) \in Nat /\ DOMAIN new = 1 .. Len(new) /\ Len(new) \in Nat
    BY <1>2
<1>4. \A i \in DOMAIN new : \E m \in W : new[i] = [dh |-> m.h.dh, n |-> m.h.n, mk |-> m.mk]
    BY <1>2 DEF Filed
<1>5. ASSUME NEW i \in DOMAIN new, NEW j \in DOMAIN new, NEW m \in W, NEW w \in W,
             i <= j, m.mk = new[i].mk, w.mk = new[j].mk
      PROVE  Number(w) - Number(m) >= j - i
    <2>1. i + d <= j + d /\ (j + d) - (i + d) = j - i
        BY <1>3, <1>5
    <2>2. Number(w) - Number(m) >= (j + d) - (i + d)
        BY <1>2, <1>5, <2>1 DEF Filed
    <2>. QED BY <2>1, <2>2
<1>6. ASSUME NEW m \in W, InStore(m, q), ~InStore(m, new)
      PROVE  last - Number(m) > MAX_SKIP_SESSION
    <2>1. PICK i \in DOMAIN q : q[i].mk = m.mk
        BY <1>6 DEF InStore
    <2>2. i <= d
        <3> SUFFICES ASSUME ~(i <= d) PROVE FALSE
            OBVIOUS
        <3>1. i - d \in DOMAIN new /\ (i - d) + d = i
            BY <1>2, <1>3
        <3>2. new[i - d] = q[i]
            BY <1>2, <3>1
        <3>. QED BY <1>6, <2>1, <3>1, <3>2 DEF InStore
    <2>3. Len(q) = d + MAX_SKIP_SESSION /\ Len(q) \in DOMAIN q /\ i <= Len(q)
        BY <1>1, <1>3, <2>2
    <2>4. PICK w \in W : q[Len(q)].mk = w.mk
        BY <2>3 DEF Filed
    <2>5. Number(w) - Number(m) >= Len(q) - i
        BY <2>1, <2>3, <2>4 DEF Filed
    <2>6. Number(w) < last
        BY <2>3, <2>4 DEF InStore
    <2>7. Number(w) \in Nat /\ Number(m) \in Nat
        BY MessageFields
    <2>8. i \in Int
        BY <1>3
    <2>. QED BY <2>2, <2>3, <2>5, <2>6, <2>7, <2>8, SkipAssumption
<1>7. Filed(new, W)
    BY <1>4, <1>5 DEF Filed
<1>. QED BY <1>6, <1>7 DEF new

\* The messages of one chain were sealed one after the other.
LEMMA OneChain ==
    ASSUME NEW W \in SUBSET Message, Orderly(W), NEW m \in W, NEW w \in W, m.mk.root = w.mk.root
    PROVE  Number(w) - Number(m) = w.mk.n - m.mk.n
BY DEF Orderly

\* The keys to be skipped are those of messages that were sealed, in their order.
LEMMA SkippedFiled ==
    ASSUME NEW s \in RatchetState, NEW until \in Nat, NEW W \in SUBSET Message,
           Orderly(W), Knows(s, W), KeysBehind(s.mkskipped, s.ckr),
           s.ckr # NoChain, ~(until <= s.nr), NEW last \in Int,
           \A n \in 0 .. until - 1 : \E w \in W : w.mk = [root |-> s.ckr.root, n |-> n] /\ Number(w) < last
    PROVE  LET q == s.mkskipped \o SkippedOnTheWay(s, until)
           IN  /\ q \in Seq(SkippedEntry) /\ Filed(q, W)
               /\ \A w \in W : InStore(w, q) => Number(w) < last
               /\ \A w \in W : InStore(w, s.mkskipped) => InStore(w, q)
               /\ \A w \in W : Behind(w.mk, kdf_ck(s.ckr, until - s.nr)) =>
                                  Behind(w.mk, s.ckr) \/ InStore(w, q)
<1> DEFINE a == s.mkskipped
           b == SkippedOnTheWay(s, until)
           q == a \o b
           L == Len(a)
<1>1. /\ s.ckr \in ChainKey /\ s.ckr.root \in Root /\ Len(s.ckr.root) \in Nat /\ s.ckr.n = s.nr
      /\ s.nr \in Nat /\ s.dhr \in Key /\ a \in Seq(SkippedEntry)
    BY DEF RatchetState, ChainKey, Root, Knows
<1>2. /\ b \in Seq(SkippedEntry) /\ Len(b) = until - s.nr
      /\ \A i \in 1 .. until - s.nr :
            b[i] = [dh |-> s.dhr, n |-> s.nr + i - 1, mk |-> [root |-> s.ckr.root, n |-> s.nr + i - 1]]
    <2>1. b \in Seq(SkippedEntry)
        BY SkippedFields
    <2>2. DOMAIN b = 1 .. until - s.nr /\ until - s.nr \in Nat
        BY <1>1 DEF SkippedOnTheWay
    <2>3. Len(b) = until - s.nr
        BY <2>1, <2>2
    <2>4. ASSUME NEW i \in 1 .. until - s.nr
          PROVE  b[i] = [dh |-> s.dhr, n |-> s.nr + i - 1, mk |-> [root |-> s.ckr.root, n |-> s.nr + i - 1]]
        <3>1. b[i] = [dh |-> s.dhr, n |-> s.nr + i - 1, mk |-> kdf_ck(s.ckr, i - 1)]
            BY DEF SkippedOnTheWay
        <3>2. i - 1 \in Nat
            BY <1>1
        <3>3. kdf_ck(s.ckr, i - 1) \in ChainKey /\ kdf_ck(s.ckr, i - 1).root = s.ckr.root
              /\ kdf_ck(s.ckr, i - 1).n = s.ckr.n + (i - 1)
            BY <1>1, <3>2, KdfTyped
        <3>4. s.ckr.n + (i - 1) = s.nr + i - 1
            BY <1>1, <3>2
        <3>5. kdf_ck(s.ckr, i - 1) = [root |-> s.ckr.root, n |-> s.nr + i - 1]
            BY <3>3, <3>4 DEF ChainKey
        <3>. QED BY <3>1, <3>5
    <2>. QED BY <2>1, <2>3, <2>4
<1> HIDE DEF b
<1>3. /\ q \in Seq(SkippedEntry) /\ L \in Nat /\ DOMAIN a = 1 .. L
      /\ DOMAIN q = 1 .. L + (until - s.nr)
      /\ \A i \in 1 .. L : q[i] = a[i]
      /\ \A i \in L + 1 .. L + (until - s.nr) : q[i] = b[i - L]
    <2>1. a \in Seq(SkippedEntry) /\ b \in Seq(SkippedEntry) /\ Len(b) = until - s.nr
        BY <1>1, <1>2
    <2> HIDE DEF a
    <2>. QED BY <2>1
<1>0. /\ Filed(a, W) /\ KeysBehind(a, s.ckr)
      /\ \A i \in 1 .. L : \E m \in W : /\ a[i] = [dh |-> m.h.dh, n |-> m.h.n, mk |-> m.mk]
                                       /\ a[i].mk = m.mk
    <2>1. Filed(a, W) /\ KeysBehind(a, s.ckr)
        BY DEF Knows
    <2>2. DOMAIN a = 1 .. L
        BY <1>3
    <2> HIDE DEF a, L
    <2>3. \A i \in 1 .. L : \E m \in W : a[i] = [dh |-> m.h.dh, n |-> m.h.n, mk |-> m.mk]
        BY <2>1, <2>2 DEF Filed
    <2>4. \A i \in 1 .. L : \A m \in W : a[i] = [dh |-> m.h.dh, n |-> m.h.n, mk |-> m.mk] => a[i].mk = m.mk
        OBVIOUS
    <2>. QED BY <2>1, <2>3, <2>4
<1> HIDE DEF a, q, L
\* Each new entry has its message, on the receiving chain.
<1>4. ASSUME NEW i \in L + 1 .. L + (until - s.nr)
      PROVE  /\ q[i].mk = [root |-> s.ckr.root, n |-> s.nr + (i - L) - 1]
             /\ q[i].mk.root = s.ckr.root /\ q[i].mk.n = s.nr + (i - L) - 1
             /\ ~Behind(q[i].mk, s.ckr)
             /\ \E m \in W : /\ q[i] = [dh |-> m.h.dh, n |-> m.h.n, mk |-> m.mk]
                             /\ q[i].mk = m.mk /\ Number(m) < last
    <2> DEFINE k == s.nr + (i - L) - 1
    <2>0. i - L \in 1 .. until - s.nr /\ k \in 0 .. until - 1 /\ k >= s.nr
        <3>1. s.nr \in Nat /\ until \in Nat /\ L \in Nat
            BY <1>1, <1>3
        <3>2. i \in Int /\ L + 1 <= i /\ i <= L + (until - s.nr)
            BY <1>4, <3>1
        <3>. QED BY ONLY <3>1, <3>2
    <2>1. q[i] = [dh |-> s.dhr, n |-> k, mk |-> [root |-> s.ckr.root, n |-> k]]
        BY <1>2, <1>3, <2>0
    <2> HIDE DEF k
    <2>2. PICK m \in W : m.mk = [root |-> s.ckr.root, n |-> k] /\ Number(m) < last
        BY <2>0
    <2>3. m.h.dh = s.dhr /\ m.h.n = k
        BY <2>2 DEF Knows, Orderly
    <2>4. q[i].mk = m.mk /\ q[i].mk.root = s.ckr.root /\ q[i].mk.n = k
        BY <2>1, <2>2
    <2>5. ~Behind(q[i].mk, s.ckr)
        BY <1>1, <2>0, <2>4 DEF Behind
    <2>. QED BY <2>1, <2>2, <2>3, <2>4, <2>5 DEF k
<1>5. \A i \in DOMAIN q : \E m \in W : q[i] = [dh |-> m.h.dh, n |-> m.h.n, mk |-> m.mk]
    <2> TAKE i \in DOMAIN q
    <2>1. i \in 1 .. L \/ i \in L + 1 .. L + (until - s.nr)
        BY <1>3
    <2>2. CASE i \in 1 .. L
        <3>1. q[i] = a[i]
            BY <1>3, <2>2
        <3>. QED BY <1>0, <2>2, <3>1
    <2>3. CASE i \in L + 1 .. L + (until - s.nr)
        BY <1>4, <2>3
    <2>. QED BY <2>1, <2>2, <2>3
\* An old entry and a new one: the last old one comes between them.
<1>6. ASSUME NEW i \in 1 .. L, NEW j \in L + 1 .. L + (until - s.nr), NEW m \in W, NEW w \in W,
             m.mk = q[i].mk, w.mk = q[j].mk
      PROVE  Number(w) - Number(m) >= j - i
    <2>1. L \in 1 .. L /\ L + 1 \in L + 1 .. L + (until - s.nr) /\ i <= L
        BY <1>1, <1>3
    <2>2. PICK u \in W : u.mk = a[L].mk
        BY <1>0, <2>1
    <2>3. PICK v \in W : v.mk = q[L + 1].mk
        BY <1>4, <2>1
    <2>4. Number(u) - Number(m) >= L - i
        BY <1>0, <1>3, <1>6, <2>1, <2>2 DEF Filed
    <2>5. Number(u) < Number(v)
        <3>1. Behind(u.mk, s.ckr)
            BY <1>0, <1>3, <2>1, <2>2 DEF KeysBehind
        <3>2. ~Behind(v.mk, s.ckr)
            BY <1>4, <2>1, <2>3
        <3>. QED BY <1>1, <3>1, <3>2, Earlier
    <2>6. Number(w) - Number(v) = w.mk.n - v.mk.n
        <3>1. v.mk.root = w.mk.root
            BY <1>4, <1>6, <2>1, <2>3
        <3>. QED BY <3>1, OneChain
    <2>7. w.mk.n - v.mk.n = j - (L + 1)
        <3>1. w.mk.n = s.nr + (j - L) - 1 /\ v.mk.n = s.nr + ((L + 1) - L) - 1
            BY <1>4, <1>6, <2>1, <2>3
        <3>2. s.nr \in Int /\ j \in Int /\ L \in Int
            BY <1>1, <1>3
        <3>. QED BY <3>1, <3>2
    <2>8. Number(u) \in Nat /\ Number(v) \in Nat /\ Number(w) \in Nat /\ Number(m) \in Nat
        BY MessageFields
    <2>9. i \in Int /\ j \in Int /\ L \in Int
        BY <1>3
    <2>. QED BY <2>4, <2>5, <2>6, <2>7, <2>8, <2>9
<1>7. ASSUME NEW i \in DOMAIN q, NEW j \in DOMAIN q, NEW m \in W, NEW w \in W,
             i <= j, m.mk = q[i].mk, w.mk = q[j].mk
      PROVE  Number(w) - Number(m) >= j - i
    <2>0. /\ i \in 1 .. L \/ i \in L + 1 .. L + (until - s.nr)
          /\ j \in 1 .. L \/ j \in L + 1 .. L + (until - s.nr)
          /\ i \in Int /\ j \in Int
        BY <1>1, <1>3
    <2>1. CASE i \in 1 .. L /\ j \in 1 .. L
        BY <1>0, <1>3, <1>7, <2>1 DEF Filed
    <2>2. CASE i \in 1 .. L /\ j \in L + 1 .. L + (until - s.nr)
        BY <1>6, <1>7, <2>2
    <2>3. CASE i \in L + 1 .. L + (until - s.nr) /\ j \in L + 1 .. L + (until - s.nr)
        <3>1. Number(w) - Number(m) = w.mk.n - m.mk.n
            <4>1. m.mk.root = w.mk.root
                BY <1>4, <1>7, <2>3
            <4>. QED BY <4>1, OneChain
        <3>2. w.mk.n = s.nr + (j - L) - 1 /\ m.mk.n = s.nr + (i - L) - 1
            BY <1>4, <1>7, <2>3
        <3>3. s.nr \in Int /\ L \in Int
            BY <1>1, <1>3
        <3>. QED BY <2>0, <3>1, <3>2, <3>3
    <2>4. CASE i \in L + 1 .. L + (until - s.nr) /\ j \in 1 .. L
        BY <1>3, <1>7, <2>4
    <2>. QED BY <2>0, <2>1, <2>2, <2>3, <2>4
<1>8. ASSUME NEW w \in W, InStore(w, q)
      PROVE  Number(w) < last
    <2>1. PICK i \in DOMAIN q : q[i].mk = w.mk
        BY <1>8 DEF InStore
    <2>2. CASE i \in L + 1 .. L + (until - s.nr)
        <3>1. PICK m \in W : q[i] = [dh |-> m.h.dh, n |-> m.h.n, mk |-> m.mk] /\ Number(m) < last
            BY <1>4, <2>2
        <3>2. w = m
            BY <2>1, <3>1 DEF Orderly
        <3>. QED BY <3>1, <3>2
    <2>3. CASE i \in 1 .. L
        <3>1. L + 1 \in L + 1 .. L + (until - s.nr)
            BY <1>1, <1>3
        <3>2. PICK v \in W : q[L + 1].mk = v.mk /\ Number(v) < last
            BY <1>4, <3>1
        <3>3. Behind(w.mk, s.ckr) /\ ~Behind(v.mk, s.ckr)
            <4>1. a[i].mk = w.mk /\ i \in DOMAIN a
                BY <1>3, <2>1, <2>3
            <4>2. Behind(w.mk, s.ckr)
                BY <1>0, <4>1 DEF KeysBehind
            <4>3. ~Behind(v.mk, s.ckr)
                BY <1>4, <3>1, <3>2
            <4>. QED BY <4>2, <4>3
        <3>4. Number(w) < Number(v)
            BY <1>1, <3>3, Earlier
        <3>5. Number(w) \in Nat /\ Number(v) \in Nat
            BY MessageFields
        <3>. QED BY <3>2, <3>4, <3>5
    <2>. QED BY <1>3, <2>2, <2>3
<1>9. ASSUME NEW w \in W, InStore(w, a)
      PROVE  InStore(w, q)
    <2>1. PICK i \in DOMAIN a : a[i].mk = w.mk
        BY <1>9 DEF InStore
    <2>2. i \in DOMAIN q /\ q[i] = a[i]
        BY <1>1, <1>3, <2>1
    <2>. QED BY <2>1, <2>2 DEF InStore
<1>10. ASSUME NEW w \in W, Behind(w.mk, kdf_ck(s.ckr, until - s.nr)), ~Behind(w.mk, s.ckr)
       PROVE  InStore(w, q)
    <2>1. kdf_ck(s.ckr, until - s.nr).root = s.ckr.root /\ kdf_ck(s.ckr, until - s.nr).n = until
        <3>1. until - s.nr \in Nat /\ s.nr + (until - s.nr) = until
            BY <1>1
        <3>. QED BY <1>1, <3>1, KdfTyped
    <2>2. /\ w.mk.root = s.ckr.root /\ w.mk.n \in s.nr .. until - 1
          /\ w.mk = [root |-> w.mk.root, n |-> w.mk.n] /\ w.mk.n \in Nat
        <3>1. w.mk.n \in Nat /\ Len(w.mk.root) \in Nat /\ w.mk = [root |-> w.mk.root, n |-> w.mk.n]
            BY MessageFields
        <3>. QED BY <1>1, <1>10, <2>1, <3>1 DEF Behind
    <2> DEFINE i == L + 1 + (w.mk.n - s.nr)
    <2>3. i \in L + 1 .. L + (until - s.nr) /\ s.nr + (i - L) - 1 = w.mk.n
        <3>1. s.nr \in Nat /\ until \in Nat /\ L \in Nat
            BY <1>1, <1>3
        <3>2. w.mk.n \in Nat /\ s.nr <= w.mk.n /\ w.mk.n <= until - 1
            BY <2>2, <3>1
        <3>. QED BY ONLY <3>1, <3>2
    <2> HIDE DEF i
    <2>4. i \in DOMAIN q
        BY <1>3, <2>3
    <2>5. q[i].mk = w.mk
        BY <1>4, <2>2, <2>3
    <2>. QED BY <2>4, <2>5 DEF InStore
<1>11. Filed(q, W)
    BY <1>5, <1>7 DEF Filed
<1>. QED BY <1>3, <1>8, <1>9, <1>10, <1>11 DEF q, a, b

\* Skipping loses sight of nothing but what was sealed too long ago.
LEMMA SkipHolds ==
    ASSUME NEW s \in RatchetState, NEW until \in Nat, NEW W \in SUBSET Message, NEW O,
           Orderly(W), Knows(s, W), KeysBehind(s.mkskipped, s.ckr),
           NEW last \in Int, Held(s, W, O, last),
           s.ckr # NoChain => \A n \in 0 .. until - 1 :
                                 \E w \in W : w.mk = [root |-> s.ckr.root, n |-> n] /\ Number(w) < last
    PROVE  LET r == _skip_message_keys(s, until)
           IN  /\ Knows(r, W) /\ Held(r, W, O, last)
               /\ r.ckr.root = s.ckr.root /\ (r.ckr = NoChain <=> s.ckr = NoChain)
               /\ r.nr >= s.nr /\ (s.ckr # NoChain => r.nr >= until)
               /\ r.dhr = s.dhr /\ r.dhs = s.dhs /\ r.rk = s.rk /\ r.cks = s.cks
               /\ r.ns = s.ns /\ r.pn = s.pn
<1> DEFINE r == _skip_message_keys(s, until)
<1>0. s.nr \in Nat /\ s.ckr \in ChainKey
    BY DEF RatchetState
<1>1. CASE s.ckr = NoChain \/ until <= s.nr
    <2>1. r = s
        BY <1>1 DEF _skip_message_keys
    <2>2. s.nr >= s.nr /\ (until <= s.nr => s.nr >= until)
        BY <1>0
    <2> HIDE DEF r
    <2>3. s.ckr # NoChain => s.nr >= until
        BY <1>1, <2>2
    <2>. QED BY <2>1, <2>2, <2>3 DEF r
<1>2. CASE ~(s.ckr = NoChain \/ until <= s.nr)
    <2> DEFINE q == s.mkskipped \o SkippedOnTheWay(s, until)
               ck == kdf_ck(s.ckr, until - s.nr)
    <2>0. s.ckr # NoChain /\ ~(until <= s.nr)
        BY <1>2
    <2>1. /\ q \in Seq(SkippedEntry) /\ Filed(q, W)
          /\ \A w \in W : InStore(w, q) => Number(w) < last
          /\ \A w \in W : InStore(w, s.mkskipped) => InStore(w, q)
          /\ \A w \in W : Behind(w.mk, ck) => Behind(w.mk, s.ckr) \/ InStore(w, q)
        BY <2>0, SkippedFiled
    <2>2. /\ r.ckr = ck /\ r.nr = until /\ r.mkskipped = Newest(q)
          /\ r.dhr = s.dhr /\ r.dhs = s.dhs /\ r.rk = s.rk /\ r.cks = s.cks
          /\ r.ns = s.ns /\ r.pn = s.pn
        BY <2>0, SkipFields
    <2>3. ck.root = s.ckr.root /\ ck.n = until
        <3>1. until - s.nr \in Nat /\ s.ckr.n + (until - s.nr) = until
            BY <1>0, <2>0 DEF Knows
        <3>. QED BY <1>0, <3>1, KdfTyped
    <2>4. ck # NoChain
        BY <1>0, <2>0, <2>3 DEF NoChain
    <2> HIDE DEF q, ck, r
    <2>5. /\ Filed(Newest(q), W)
          /\ \A m \in W : InStore(m, q) => InStore(m, Newest(q)) \/ last - Number(m) > MAX_SKIP_SESSION
        BY <2>1, NewestFiled
    <2>6. Knows(r, W)
        BY <2>2, <2>3, <2>5 DEF Knows
    <2>7. Held(r, W, O, last)
        BY <2>1, <2>2, <2>5 DEF Held
    <2>8. r.nr >= s.nr /\ r.nr >= until
        BY <1>0, <2>0, <2>2
    <2>. QED BY <2>0, <2>2, <2>3, <2>4, <2>6, <2>7, <2>8 DEF r
<1>. QED BY <1>1, <1>2

\* What m's header leads s to, when it names another key than s's receiving chain: m was
\* sealed off the next root, and the chains before it end at m's pn.
Leads(s, m, W) ==
    m.h.dh # s.dhr =>
        /\ m.mk.root = Append(s.rk, x25519_shared(s.dhs, m.h.dh))
        /\ Len(s.ckr.root) < Len(m.mk.root)
        /\ \A w \in W : w.mk.root = m.mk.root \/ Behind(w.mk, [root |-> s.ckr.root, n |-> m.h.pn])
        /\ s.ckr # NoChain
             => \A n \in 0 .. m.h.pn - 1 : \E w \in W : w.mk = [root |-> s.ckr.root, n |-> n]

\* On the chain of m's header everything is still known.
LEMMA OnChainHolds ==
    ASSUME NEW s \in RatchetState, NEW W \in SUBSET Message, NEW m \in W, NEW O, NEW fresh \in Key,
           Orderly(W), Knows(s, W), Sound(s), Len(s.mkskipped) <= MAX_SKIP_SESSION,
           NEW last \in Int, Held(s, W, O, last), Number(m) <= last, Leads(s, m, W)
    PROVE  LET c == OnChainOf(s, m.h, fresh)
           IN  /\ c \in RatchetState /\ Sound(c)
               /\ Knows(c, W) /\ Held(c, W, O, last)
               /\ c.ckr.root = m.mk.root /\ c.dhr = m.h.dh /\ c.ckr # NoChain
               /\ (m.h.dh = s.dhr /\ c = s) \/ (StepsOn(c, s, m, fresh) /\ c.nr = 0)
<1> DEFINE c == OnChainOf(s, m.h, fresh)
<1>1. /\ m.h \in Header /\ m.h.dh \in Key /\ m.h.pn \in Nat /\ m.mk.root # <<>> /\ Len(m.mk.root) \in Nat
      /\ Number(m) \in Nat
    BY MessageFields DEF Orderly
<1>2. c \in RatchetState /\ Sound(c)
    <2>1. Spent(s, {})
        BY DEF Spent, KeysOutside
    <2>. QED BY <1>1, <2>1, OnChainKeeps
<1>3. CASE m.h.dh = s.dhr
    <2>1. c = s
        BY <1>3 DEF OnChainOf
    <2>2. m.mk.root = s.ckr.root
        BY <1>3 DEF Knows
    <2>3. s.ckr # NoChain
        BY <1>1, <2>2 DEF NoChain
    <2> HIDE DEF c
    <2>. QED BY <1>2, <1>3, <2>1, <2>2, <2>3 DEF c
<1>4. CASE m.h.dh # s.dhr
    <2> DEFINE t == _skip_message_keys(s, m.h.pn)
               root == m.mk.root
    <2>1. /\ root = Append(s.rk, x25519_shared(s.dhs, m.h.dh)) /\ Len(s.ckr.root) < Len(root)
          /\ \A w \in W : w.mk.root = root \/ Behind(w.mk, [root |-> s.ckr.root, n |-> m.h.pn])
          /\ s.ckr # NoChain
               => \A n \in 0 .. m.h.pn - 1 : \E w \in W : w.mk = [root |-> s.ckr.root, n |-> n]
        BY <1>4 DEF Leads
    <2>2. s.ckr # NoChain => \A n \in 0 .. m.h.pn - 1 :
                                 \E w \in W : w.mk = [root |-> s.ckr.root, n |-> n] /\ Number(w) < last
        <3> SUFFICES ASSUME s.ckr # NoChain, NEW n \in 0 .. m.h.pn - 1
                     PROVE  \E w \in W : w.mk = [root |-> s.ckr.root, n |-> n] /\ Number(w) < last
            OBVIOUS
        <3>1. PICK w \in W : w.mk = [root |-> s.ckr.root, n |-> n]
            BY <2>1
        <3>2. w.mk.root = s.ckr.root
            BY <3>1
        <3>3. Number(w) < Number(m)
            BY <2>1, <3>2 DEF Orderly
        <3>4. Number(w) \in Nat
            BY MessageFields
        <3>. QED BY <1>1, <3>1, <3>3, <3>4
    <2>3. KeysBehind(s.mkskipped, s.ckr)
        BY DEF Sound
    <2>4. /\ Knows(t, W) /\ Held(t, W, O, last)
          /\ t.ckr.root = s.ckr.root /\ (t.ckr = NoChain <=> s.ckr = NoChain)
          /\ (s.ckr # NoChain => t.nr >= m.h.pn)
          /\ t.dhs = s.dhs /\ t.rk = s.rk /\ t.ns = s.ns
        BY <1>1, <2>2, <2>3, SkipHolds
    <2>5. t \in RatchetState
        BY <1>1, SkipTyped
    <2>6. c = _dh_ratchet(t, m.h.dh, fresh)
        BY <1>4 DEF OnChainOf
    <2> HIDE DEF t, c
    <2>7. /\ c.dhr = m.h.dh /\ c.dhs = fresh /\ c.pn = t.ns /\ c.ns = 0 /\ c.nr = 0
          /\ c.ckr = ChainOf(Append(t.rk, x25519_shared(t.dhs, m.h.dh)))
          /\ c.rk = Append(Append(t.rk, x25519_shared(t.dhs, m.h.dh)), x25519_shared(fresh, m.h.dh)) /\ c.cks = ChainOf(c.rk)
          /\ c.mkskipped = t.mkskipped
        <3> DEFINE d == _dh_ratchet(t, m.h.dh, fresh)
        <3>1. /\ d.dhr = m.h.dh /\ d.dhs = fresh /\ d.pn = t.ns /\ d.ns = 0 /\ d.nr = 0
              /\ d.ckr = ChainOf(Append(t.rk, x25519_shared(t.dhs, m.h.dh)))
              /\ d.rk = Append(Append(t.rk, x25519_shared(t.dhs, m.h.dh)), x25519_shared(fresh, m.h.dh)) /\ d.cks = ChainOf(d.rk)
              /\ d.mkskipped = t.mkskipped
            <4>1. t \in RatchetState /\ m.h.dh \in Key /\ fresh \in Key
                BY <1>1, <2>5
            <4>. QED BY ONLY <4>1, DhRatchetSets
        <3>2. c = d
            BY <2>6
        <3> HIDE DEF d
        <3>. QED BY <3>1, <3>2
    <2>8. c.ckr.root = root /\ c.ckr.n = 0 /\ c.ckr # NoChain /\ c.rk = Append(root, x25519_shared(fresh, m.h.dh))
        BY <1>1, <2>1, <2>4, <2>7 DEF ChainOf, NoChain
    \* What is not on the new chain is behind the old one.
    <2>9. ASSUME NEW w \in W, w.mk.root # root
          PROVE  Behind(w.mk, t.ckr)
        <3>1. Behind(w.mk, [root |-> s.ckr.root, n |-> m.h.pn]) /\ w.mk.n \in Nat /\ w.mk.root # <<>>
              /\ Len(w.mk.root) \in Nat
            BY <2>1, <2>9, MessageFields DEF Orderly
        <3>2. t.ckr \in ChainKey /\ t.nr \in Nat
            BY <2>5 DEF RatchetState
        <3>3. t.ckr.n \in Nat /\ Len(t.ckr.root) \in Nat
            BY <3>2 DEF ChainKey, Root
        <3>4. CASE t.ckr = NoChain
            <4>1. Len(s.ckr.root) = 0 /\ s.ckr.root = <<>>
                BY <2>4, <3>4 DEF NoChain
            <4>. QED BY <3>1, <4>1 DEF Behind
        <3>5. CASE t.ckr # NoChain
            <4>1. t.ckr.n >= m.h.pn
                BY <2>4, <3>5 DEF Knows
            <4>. QED BY <1>1, <2>4, <3>1, <3>3, <4>1 DEF Behind
        <3>. QED BY <3>4, <3>5
    <2>10. \A w \in W : w.h.dh = c.dhr <=> w.mk.root = c.ckr.root
        BY <2>7, <2>8 DEF Orderly
    <2>11. Knows(c, W)
        BY <2>4, <2>7, <2>8, <2>10 DEF Knows
    <2>12. Held(c, W, O, last)
        <3> SUFFICES ASSUME NEW w \in W \ O, Behind(w.mk, c.ckr)
                     PROVE  InStore(w, c.mkskipped) \/ last - Number(w) > MAX_SKIP_SESSION
            BY DEF Held
        <3>1. w.mk.n \in Nat
            BY MessageFields
        <3>2. w.mk.root # root
            BY <1>1, <2>8, <3>1 DEF Behind
        <3>3. Behind(w.mk, t.ckr)
            BY <2>9, <3>2
        <3>. QED BY <2>4, <2>7, <3>3 DEF Held
    <2>13. StepsOn(c, s, m, fresh)
        BY <1>4, <2>1, <2>4, <2>7, <2>8 DEF StepsOn
    <2>. QED BY <1>2, <2>7, <2>8, <2>11, <2>12, <2>13 DEF c
<1>. QED BY <1>3, <1>4

\* How r, which opened m, differs from s: it received m on the chain s had, or on an earlier
\* one, or it went on to the chain of m.
Received(r, s, m, fresh) ==
    \/ /\ SendsAs(r, s) /\ r.ckr.root = s.ckr.root /\ (r.ckr = NoChain <=> s.ckr = NoChain)
       /\ r.nr = s.nr \/ (m.mk.root = s.ckr.root /\ r.nr = m.h.n + 1)
    \/ /\ StepsOn(r, s, m, fresh)
       /\ r.ckr # NoChain /\ r.ckr.root = m.mk.root /\ r.nr = m.h.n + 1

\* Opening m along the chain stores the keys before it.
LEMMA WalkHolds ==
    ASSUME NEW s \in RatchetState, NEW W \in SUBSET Message, NEW m \in W, NEW O, NEW fresh \in Key,
           Orderly(W), Knows(s, W), Sound(s), Len(s.mkskipped) <= MAX_SKIP_SESSION,
           NEW last \in Int, Held(s, W, O, last), Number(m) <= last, Leads(s, m, W),
           WalkChain(s, m.h, fresh).mk = m.mk
    PROVE  LET r == WalkChain(s, m.h, fresh).state
           IN  Knows(r, W) /\ Held(r, W, O \cup {m}, last) /\ Received(r, s, m, fresh)
<1> DEFINE c == OnChainOf(s, m.h, fresh)
           at == _skip_message_keys(c, m.h.n)
           r == [at EXCEPT !.ckr = kdf_ck(@, 1), !.nr = @ + 1]
<1>1. /\ m.h.n \in Nat /\ m.mk.root # <<>> /\ Number(m) \in Nat /\ m.mk.n = m.h.n
      /\ m.mk \in ChainKey
    BY MessageFields DEF Orderly
<1>2. /\ c \in RatchetState /\ Sound(c)
      /\ Knows(c, W) /\ Held(c, W, O, last)
      /\ c.ckr.root = m.mk.root /\ c.dhr = m.h.dh /\ c.ckr # NoChain
      /\ c = s \/ StepsOn(c, s, m, fresh)
    BY OnChainHolds
<1>3. WalkChain(s, m.h, fresh).mk = at.ckr /\ WalkChain(s, m.h, fresh).state = r
    BY DEF WalkChain
<1> HIDE DEF c
<1>4. \A n \in 0 .. m.h.n - 1 : \E w \in W : w.mk = [root |-> c.ckr.root, n |-> n] /\ Number(w) < last
    <2> TAKE n \in 0 .. m.h.n - 1
    <2>1. n \in 0 .. m.h.n /\ n < m.h.n /\ n \in Int
        BY <1>1
    <2>2. PICK w \in W : w.mk = [root |-> m.mk.root, n |-> n]
        BY <2>1 DEF Orderly
    <2>3. w.mk.root = m.mk.root /\ w.mk.n = n
        BY <2>2
    <2>4. Number(w) - Number(m) = w.mk.n - m.mk.n
        BY <2>3, OneChain
    <2>5. Number(w) \in Nat
        BY MessageFields
    <2>6. Number(w) < last
        BY <1>1, <2>1, <2>3, <2>4, <2>5
    <2>. QED BY <1>2, <2>2, <2>6
<1>5. /\ Knows(at, W) /\ Held(at, W, O, last)
      /\ at.ckr.root = c.ckr.root /\ (at.ckr = NoChain <=> c.ckr = NoChain)
      /\ SendsAs(at, c)
    <2>1. KeysBehind(c.mkskipped, c.ckr)
        BY <1>2 DEF Sound
    <2>. QED BY <1>1, <1>2, <1>4, <2>1, SkipHolds DEF SendsAs
<1>6. at \in RatchetState
    <2>1. Len(c.mkskipped) <= MAX_SKIP_SESSION
        <3>1. Spent(s, {}) /\ m.h \in Header
            BY MessageFields DEF Spent, KeysOutside
        <3>. QED BY <3>1, OnChainKeeps DEF c
    <2>. QED BY <1>1, <1>2, <2>1, SkipTyped
<1>7. at.ckr = m.mk
    BY <1>3
<1> HIDE DEF at
<1>8. at.nr = m.h.n
    BY <1>1, <1>2, <1>5, <1>7 DEF Knows
<1>9. /\ r.nr = m.h.n + 1 /\ r.ckr.root = m.mk.root /\ r.ckr.n = m.h.n + 1
      /\ r.mkskipped = at.mkskipped /\ SendsAs(r, at)
    <2> DEFINE ck == kdf_ck(at.ckr, 1)
               n == at.nr + 1
    <2>1. r = [at EXCEPT !.ckr = ck, !.nr = n]
        OBVIOUS
    <2>2. ck.root = m.mk.root /\ ck.n = m.h.n + 1 /\ n = m.h.n + 1
        BY <1>1, <1>7, <1>8, KdfTyped
    <2> HIDE DEF ck, n, r
    <2>3. r.ckr = ck /\ r.nr = n /\ r.mkskipped = at.mkskipped
        BY <1>6, <2>1 DEF RatchetState
    <2>4. SendsAs(r, at)
        BY <1>6, <2>1 DEF RatchetState, SendsAs
    <2>. QED BY <2>2, <2>3, <2>4
<1> HIDE DEF r
<1>10. Knows(r, W)
    <2>1. r.dhr = at.dhr /\ r.ckr.root = at.ckr.root
        BY <1>7, <1>9 DEF SendsAs
    <2>. QED BY <1>5, <1>9, <2>1 DEF Knows
<1>11. Held(r, W, O \cup {m}, last)
    <2> SUFFICES ASSUME NEW w \in W \ (O \cup {m}), Behind(w.mk, r.ckr)
                 PROVE  InStore(w, r.mkskipped) \/ last - Number(w) > MAX_SKIP_SESSION
        BY DEF Held
    <2>1. /\ w.mk.n \in Nat /\ w.mk = [root |-> w.mk.root, n |-> w.mk.n]
          /\ m.mk = [root |-> m.mk.root, n |-> m.mk.n]
        BY MessageFields
    <2>2. w.mk # m.mk
        BY DEF Orderly
    <2>3. ~(w.mk.root = m.mk.root /\ w.mk.n = m.mk.n)
        BY <2>1, <2>2
    <2>4. Behind(w.mk, at.ckr)
        BY <1>1, <1>7, <1>9, <2>1, <2>3 DEF Behind
    <2>. QED BY <1>5, <1>9, <2>4 DEF Held
<1>12. Received(r, s, m, fresh)
    <2>1. r.ckr # NoChain
        BY <1>1, <1>9 DEF NoChain
    <2>2. SendsAs(r, c)
        BY <1>5, <1>9 DEF SendsAs
    <2>3. CASE StepsOn(c, s, m, fresh)
        <3>1. StepsOn(r, s, m, fresh)
            BY <2>2, <2>3 DEF StepsOn, SendsAs
        <3>. QED BY <1>9, <2>1, <3>1 DEF Received
    <2>4. CASE c = s
        <3>1. SendsAs(r, s) /\ s.ckr.root = m.mk.root /\ s.ckr # NoChain
            BY <1>2, <2>2, <2>4
        <3>. QED BY <1>9, <2>1, <3>1 DEF Received
    <2>. QED BY <1>2, <2>3, <2>4
<1>. QED BY <1>3, <1>10, <1>11, <1>12

\* Opening m with a stored key leaves the others in the store.
LEMMA TakeHolds ==
    ASSUME NEW s \in RatchetState, NEW W \in SUBSET Message, NEW m \in W, NEW O, NEW fresh \in Key,
           Orderly(W), Knows(s, W), NEW last \in Int, Held(s, W, O, last),
           SkippedAt(s, m.h) # {}, TakeSkipped(s, m.h).mk = m.mk
    PROVE  LET r == TakeSkipped(s, m.h).state
           IN  Knows(r, W) /\ Held(r, W, O \cup {m}, last) /\ Received(r, s, m, fresh)
<1> DEFINE q == s.mkskipped
           k == CHOOSE j \in SkippedAt(s, m.h) : TRUE
           left == RemoveAt(q, k)
           r == [s EXCEPT !.mkskipped = left]
<1>1. q \in Seq(SkippedEntry)
    BY DEF RatchetState
<1>2. k \in DOMAIN q
    BY DEF SkippedAt
<1>3. TakeSkipped(s, m.h).state = r /\ q[k].mk = m.mk
    BY DEF TakeSkipped
<1> HIDE DEF k
<1>4. /\ left \in Seq(SkippedEntry)
      /\ Len(left) = Len(q) - 1
      /\ \A i \in DOMAIN left : i \in Int /\ left[i] = IF i < k THEN q[i] ELSE q[i + 1]
    <2>1. k \in 1 .. Len(q) BY <1>1, <1>2
    <2>. QED BY <1>1, <2>1, RemoveAtFields
<1>5. /\ DOMAIN left = 1 .. Len(q) - 1 /\ DOMAIN q = 1 .. Len(q) /\ Len(q) \in Nat /\ k \in 1 .. Len(q)
    BY <1>1, <1>2, <1>4
<1> HIDE DEF left
<1>6. r.mkskipped = left /\ r.ckr = s.ckr /\ r.nr = s.nr /\ SendsAs(r, s)
    BY DEF RatchetState, SendsAs
<1> HIDE DEF r, q
<1>7. Filed(q, W)
    BY DEF Knows, q
<1> DEFINE at(i) == IF i < k THEN i ELSE i + 1
<1>8. \A i \in DOMAIN left : at(i) \in DOMAIN q /\ left[i] = q[at(i)]
    BY <1>4, <1>5
<1>9. \A i, j \in DOMAIN left : i <= j => at(i) <= at(j) /\ at(j) - at(i) >= j - i /\ at(i) \in Int /\ at(j) \in Int
    BY <1>4, <1>5
<1>10. \A i \in DOMAIN q : i # k => \E j \in DOMAIN left : at(j) = i
    <2> SUFFICES ASSUME NEW i \in DOMAIN q, i # k PROVE \E j \in DOMAIN left : at(j) = i
        OBVIOUS
    <2>1. CASE i < k
        <3>1. i \in DOMAIN left
            BY <1>5, <2>1
        <3>. QED BY <2>1, <3>1
    <2>2. CASE ~(i < k)
        <3>1. i - 1 \in DOMAIN left /\ ~(i - 1 < k) /\ (i - 1) + 1 = i
            BY <1>5, <2>2
        <3>. QED BY <3>1
    <2>. QED BY <2>1, <2>2
<1> HIDE DEF at
<1>11. Filed(left, W)
    <2>1. \A i \in DOMAIN left : \E w \in W : left[i] = [dh |-> w.h.dh, n |-> w.h.n, mk |-> w.mk]
        BY <1>7, <1>8 DEF Filed
    <2>2. ASSUME NEW i \in DOMAIN left, NEW j \in DOMAIN left, NEW v \in W, NEW w \in W,
                 i <= j, v.mk = left[i].mk, w.mk = left[j].mk
          PROVE  Number(w) - Number(v) >= j - i
        <3>1. Number(w) - Number(v) >= at(j) - at(i)
            BY <1>7, <1>8, <1>9, <2>2 DEF Filed
        <3>2. at(j) - at(i) >= j - i /\ at(i) \in Int /\ at(j) \in Int
            BY <1>9, <2>2
        <3>3. Number(w) \in Nat /\ Number(v) \in Nat /\ i \in Int /\ j \in Int
            BY <1>4, MessageFields
        <3>. QED BY <3>1, <3>2, <3>3
    <2>. QED BY <2>1, <2>2 DEF Filed
<1>12. Knows(r, W)
    BY <1>6, <1>11 DEF Knows, SendsAs
<1>13. Held(r, W, O \cup {m}, last)
    <2> SUFFICES ASSUME NEW w \in W \ (O \cup {m}), Behind(w.mk, s.ckr), InStore(w, q)
                 PROVE  InStore(w, left)
        BY <1>6 DEF Held, q
    <2>1. PICK i \in DOMAIN q : q[i].mk = w.mk
        BY DEF InStore
    <2>2. w.mk # m.mk
        BY DEF Orderly
    <2>3. i # k
        BY <1>3, <2>1, <2>2 DEF q
    <2>4. PICK j \in DOMAIN left : at(j) = i
        BY <1>10, <2>3
    <2>5. left[j] = q[i]
        BY <1>8, <2>4
    <2>. QED BY <2>1, <2>5 DEF InStore
<1>14. Received(r, s, m, fresh)
    BY <1>6 DEF Received
<1>. QED BY <1>3, <1>12, <1>13, <1>14

\* A key that is in no store and behind the chain is not reached by walking.
LEMMA WalkIsAhead ==
    ASSUME NEW s \in RatchetState, NEW W \in SUBSET Message, NEW m \in W, NEW fresh \in Key,
           Orderly(W), Knows(s, W), Sound(s), Len(s.mkskipped) <= MAX_SKIP_SESSION,
           SkippedAt(s, m.h) = {}, WalkChain(s, m.h, fresh).mk = m.mk
    PROVE  ~Behind(m.mk, s.ckr)
<1> SUFFICES ASSUME Behind(m.mk, s.ckr) PROVE FALSE
    OBVIOUS
<1>1. m.h \in Header /\ {m.mk} \in SUBSET MessageKey
    BY MessageFields
<1>2. ASSUME NEW i \in DOMAIN s.mkskipped PROVE s.mkskipped[i].mk # m.mk
    <2>1. PICK w \in W : s.mkskipped[i] = [dh |-> w.h.dh, n |-> w.h.n, mk |-> w.mk]
        BY DEF Knows, Filed
    <2>2. s.mkskipped[i].mk = w.mk /\ s.mkskipped[i].dh = w.h.dh /\ s.mkskipped[i].n = w.h.n
        BY <2>1
    <2>3. w.mk # m.mk
        <3>1. w.mk = m.mk => w = m
            BY DEF Orderly
        <3>. QED BY <2>2, <3>1 DEF SkippedAt
    <2>. QED BY <2>2, <2>3
<1>3. Spent(s, {m.mk})
    BY <1>2 DEF Spent, KeysOutside
<1>4. WalkChain(s, m.h, fresh).mk \in MessageKey \ {m.mk}
    BY <1>1, <1>3, WalkKeeps
<1>. QED BY <1>4

\* Whatever is opened, what can be opened of the rest stays known.
LEMMA DecryptHolds ==
    ASSUME NEW s \in RatchetState, NEW W \in SUBSET Message, NEW m \in W, NEW O, NEW fresh \in Key,
           Orderly(W), Knows(s, W), Sound(s), Len(s.mkskipped) <= MAX_SKIP_SESSION,
           NEW last \in Int, Held(s, W, O, last), Number(m) <= last, ~Behind(m.mk, s.ckr) => Leads(s, m, W),
           Opens(s, m.h, m.mk, fresh)
    PROVE  LET r == ratchet_decrypt(s, m.h, m.mk, fresh)
           IN  Knows(r, W) /\ Held(r, W, O \cup {m}, last) /\ Received(r, s, m, fresh)
<1> DEFINE into == _ratchet_decrypt_into(s, m.h, fresh)
           r == ratchet_decrypt(s, m.h, m.mk, fresh)
<1>1. into.mk = m.mk /\ r = into.state
    BY DEF Opens, ratchet_decrypt
<1>2. CASE SkippedAt(s, m.h) # {}
    <2>1. into = TakeSkipped(s, m.h)
        BY <1>2 DEF _ratchet_decrypt_into
    <2> HIDE DEF into, r
    <2>2. TakeSkipped(s, m.h).mk = m.mk /\ r = TakeSkipped(s, m.h).state
        BY <1>1, <2>1
    <2>3. LET t == TakeSkipped(s, m.h).state
          IN  Knows(t, W) /\ Held(t, W, O \cup {m}, last) /\ Received(t, s, m, fresh)
        BY <1>2, <2>2, TakeHolds
    <2>. QED BY <2>2, <2>3 DEF r
<1>3. CASE SkippedAt(s, m.h) = {}
    <2>1. into = WalkChain(s, m.h, fresh)
        BY <1>3 DEF _ratchet_decrypt_into
    <2> HIDE DEF into, r
    <2>2. WalkChain(s, m.h, fresh).mk = m.mk /\ r = WalkChain(s, m.h, fresh).state
        BY <1>1, <2>1
    <2>3. LET t == WalkChain(s, m.h, fresh).state
          IN  Knows(t, W) /\ Held(t, W, O \cup {m}, last) /\ Received(t, s, m, fresh)
        <3>1. Leads(s, m, W)
            BY <1>3, <2>2, WalkIsAhead
        <3>. QED BY <2>2, <3>1, WalkHolds
    <2>. QED BY <2>2, <2>3 DEF r
<1>. QED BY <1>2, <1>3

-----------------------------------------------------------------------------
(* The peer that sealed them.                                              *)

\* t is where the sealing of W, so far total messages, goes on; fresh is a new key.
Sends(t, W, total, fresh) ==
    /\ t.rk # <<>>
    /\ t.cks # NoChain => t.cks = [root |-> t.rk, n |-> t.ns]
    /\ \A m \in W :
        /\ Number(m) < total /\ m.h.dh < fresh
        /\ Within(m.mk.root, t.rk) /\ Behind(m.mk, t.cks)
        /\ m.h.dh = t.dhs <=> m.mk.root = t.rk
        /\ m.mk.root = t.rk => /\ m.h.n < t.ns /\ m.h.pn = t.pn
                               /\ total - Number(m) = t.ns - m.h.n
    /\ \A n \in 0 .. t.ns - 1 : \E w \in W : w.mk = [root |-> t.rk, n |-> n]

\* s took the last DH step, with t's key.
Ahead(s, t) == s.rk = Append(t.rk, x25519_shared(s.dhs, t.dhs)) /\ s.dhr = t.dhs

\* The receiving chain of s is the sending chain of t, or the one before it, which ends at
\* t's pn; or there is none yet.
Follows(s, t, W) ==
    \/ /\ Ahead(s, t)
       /\ \/ s.ckr = NoChain /\ t.cks = NoChain
          \/ s.ckr # NoChain /\ t.cks # NoChain /\ s.ckr.root = t.rk /\ s.nr <= t.ns
    \/ /\ Ahead(t, s) /\ s.dhr # t.dhs
       /\ s.ckr = NoChain => \A m \in W : m.mk.root = t.rk
       /\ s.ckr # NoChain =>
            /\ Len(s.ckr.root) < Len(t.rk)
            /\ \A m \in W : m.mk.root = t.rk \/ Behind(m.mk, [root |-> s.ckr.root, n |-> t.pn])
            /\ \A n \in 0 .. t.pn - 1 : \E w \in W : w.mk = [root |-> s.ckr.root, n |-> n]

\* Nothing is sealed before there is a sending chain.
LEMMA NothingYet ==
    ASSUME NEW W \in SUBSET Message, NEW m \in W
    PROVE  ~Behind(m.mk, NoChain)
<1>1. Len(m.mk.root) \in Nat /\ m.mk.n \in Nat
    BY MessageFields
<1>. QED BY <1>1 DEF Behind, NoChain

\* A message that is not behind the receiving chain leads where the peer went.
LEMMA NextChain ==
    ASSUME NEW s \in RatchetState, NEW t \in RatchetState, NEW W \in SUBSET Message, NEW m \in W,
           NEW total \in Nat, NEW fresh \in Key,
           Orderly(W), Knows(s, W), Sends(t, W, total, fresh), Follows(s, t, W), ~Behind(m.mk, s.ckr)
    PROVE  Leads(s, m, W)
<1> SUFFICES ASSUME m.h.dh # s.dhr PROVE Leads(s, m, W)
    BY DEF Leads
<1>1. /\ m.mk.root # s.ckr.root /\ m.mk.root # <<>> /\ m.mk.root \in Root /\ Len(m.mk.root) \in Nat
      /\ m.mk.n \in Nat
    BY MessageFields DEF Knows, Orderly
<1>2. /\ s.rk \in Root /\ t.rk \in Root /\ s.ckr \in ChainKey /\ s.ckr.root \in Root
      /\ Len(s.ckr.root) \in Nat /\ Len(t.rk) \in Nat
    <2>1. s.rk \in Root /\ t.rk \in Root /\ s.ckr \in ChainKey
        BY DEF RatchetState
    <2>2. s.ckr.root \in Root
        BY <2>1 DEF ChainKey
    <2>. QED BY <2>1, <2>2 DEF Root
<1>3. /\ Within(m.mk.root, t.rk) /\ (m.h.dh = t.dhs <=> m.mk.root = t.rk)
      /\ (m.mk.root = t.rk => m.h.pn = t.pn) /\ Behind(m.mk, t.cks)
    BY DEF Sends
<1>4. ~Ahead(s, t) \/ ~(\/ s.ckr = NoChain /\ t.cks = NoChain
                        \/ s.ckr # NoChain /\ t.cks # NoChain /\ s.ckr.root = t.rk /\ s.nr <= t.ns)
    <2> SUFFICES ASSUME Ahead(s, t),
                        \/ s.ckr = NoChain /\ t.cks = NoChain
                        \/ s.ckr # NoChain /\ t.cks # NoChain /\ s.ckr.root = t.rk /\ s.nr <= t.ns
                 PROVE FALSE
        OBVIOUS
    <2>1. s.ckr.root = t.rk
        BY <1>3, NothingYet
    <2>2. Len(m.mk.root) = Len(t.rk)
        BY <1>1, <1>2, <1>3, <2>1 DEF Behind, Within
    <2>3. m.mk.root = t.rk
        BY <1>1, <1>2, <1>3, <2>2, WithinLong
    <2>. QED BY <1>1, <2>1, <2>3
<1>5. /\ Ahead(t, s) /\ s.dhr # t.dhs
      /\ s.ckr = NoChain => \A w \in W : w.mk.root = t.rk
      /\ s.ckr # NoChain =>
           /\ Len(s.ckr.root) < Len(t.rk)
           /\ \A w \in W : w.mk.root = t.rk \/ Behind(w.mk, [root |-> s.ckr.root, n |-> t.pn])
           /\ \A n \in 0 .. t.pn - 1 : \E w \in W : w.mk = [root |-> s.ckr.root, n |-> n]
    BY <1>4 DEF Follows
<1>6. m.mk.root = t.rk /\ m.h.dh = t.dhs /\ m.h.pn = t.pn
    <2>1. m.mk.root = t.rk
        <3>1. ASSUME s.ckr # NoChain, Behind(m.mk, [root |-> s.ckr.root, n |-> t.pn]) PROVE FALSE
            BY <1>1, <1>2, <3>1 DEF Behind
        <3>. QED BY <1>5, <3>1
    <2>. QED BY <1>3, <2>1
<1>7. m.mk.root = Append(s.rk, x25519_shared(s.dhs, m.h.dh))
    BY <1>5, <1>6, SharedBothWays DEF Ahead
<1>8. Len(s.ckr.root) < Len(m.mk.root)
    <2>1. CASE s.ckr = NoChain
        <3>1. Len(s.ckr.root) = 0
            BY <2>1 DEF NoChain
        <3>2. Len(m.mk.root) # 0
            BY <1>1 DEF Root
        <3>. QED BY <1>1, <3>1, <3>2
    <2>. QED BY <1>5, <1>6, <2>1
<1>9. \A w \in W : w.mk.root = m.mk.root \/ Behind(w.mk, [root |-> s.ckr.root, n |-> m.h.pn])
    BY <1>5, <1>6
<1>. QED BY <1>5, <1>6, <1>7, <1>8, <1>9 DEF Leads

\* A gap is no longer than what is outstanding, if all of it is.
LEMMA GapOutstanding ==
    ASSUME NEW Out, IsFiniteSet(Out), NEW root, NEW a \in Nat, NEW b \in Nat,
           \A n \in a .. b - 1 : \E w \in Out : w.mk = [root |-> root, n |-> n]
    PROVE  b - a <= Cardinality(Out) /\ Cardinality(Out) \in Nat
<1> DEFINE f == [n \in a .. b - 1 |-> CHOOSE w \in Out : w.mk = [root |-> root, n |-> n]]
<1>1. \A n \in a .. b - 1 : f[n] \in Out /\ f[n].mk = [root |-> root, n |-> n]
    OBVIOUS
<1>2. f \in [a .. b - 1 -> Out]
    BY <1>1
<1>3. \A n \in a .. b - 1 : f[n].mk.n = n
    BY <1>1
<1> HIDE DEF f
<1>4. f \in Injection(a .. b - 1, Out)
    <2>1. \A i, j \in a .. b - 1 : f[i] = f[j] => i = j
        BY <1>3
    <2>2. DOMAIN f = a .. b - 1
        BY <1>2
    <2>. QED BY <1>2, <2>1, <2>2 DEF Injection, IsInjective
<1>5. Cardinality(a .. b - 1) <= Cardinality(Out)
    BY <1>4, FS_Injection
<1>6. Cardinality(a .. b - 1) = IF a > b - 1 THEN 0 ELSE (b - 1) - a + 1
    <2>1. b - 1 \in Int /\ a \in Int
        OBVIOUS
    <2> DEFINE k == b - 1
    <2> HIDE DEF k
    <2>2. Cardinality(a .. k) = IF a > k THEN 0 ELSE k - a + 1
        BY <2>1, FS_Interval DEF k
    <2>. QED BY <2>2 DEF k
<1>7. Cardinality(Out) \in Nat
    BY FS_CardinalityType
<1>. QED BY <1>5, <1>6, <1>7

\* Within the limits, what was not opened opens.
LEMMA OutstandingOpens ==
    ASSUME NEW s \in RatchetState, NEW W \in SUBSET Message, NEW O, NEW m \in W \ O, NEW fresh \in Key,
           IsFiniteSet(W), Orderly(W), Knows(s, W), Sound(s), Len(s.mkskipped) <= MAX_SKIP_SESSION,
           NEW last \in Int, Held(s, W, O, last), Number(m) <= last,
           ~Behind(m.mk, s.ckr) => Leads(s, m, W),
           \A w \in W \cap O : Behind(w.mk, s.ckr),
           Cardinality(W \ O) <= MAX_SKIP + 1, last - Number(m) <= MAX_SKIP_SESSION
    PROVE  Opens(s, m.h, m.mk, fresh)
<1> DEFINE Out == W \ O
<1>1. /\ m.h.n \in Nat /\ m.h.pn \in Nat /\ m.mk.n = m.h.n /\ m.mk.root # <<>> /\ Number(m) \in Nat
      /\ m.mk = [root |-> m.mk.root, n |-> m.mk.n] /\ m.mk # NoChain /\ Len(m.mk.root) \in Nat
    BY MessageFields DEF Orderly, NoChain
<1>2. s.nr \in Nat /\ s.ckr \in ChainKey /\ Len(s.ckr.root) \in Nat
    BY DEF RatchetState, ChainKey, Root
<1>3. IsFiniteSet(Out) /\ Out \in SUBSET W /\ m \in Out
    BY FS_Subset
<1>4. \A w \in W : ~Behind(w.mk, s.ckr) => w \in Out
    OBVIOUS
<1>5. CASE SkippedAt(s, m.h) # {}
    <2> DEFINE k == CHOOSE j \in SkippedAt(s, m.h) : TRUE
    <2>1. k \in DOMAIN s.mkskipped /\ s.mkskipped[k].dh = m.h.dh /\ s.mkskipped[k].n = m.h.n
        BY <1>5 DEF SkippedAt
    <2>2. _ratchet_decrypt_into(s, m.h, fresh).mk = s.mkskipped[k].mk
        BY <1>5 DEF _ratchet_decrypt_into, TakeSkipped
    <2> HIDE DEF k
    <2>3. PICK w \in W : s.mkskipped[k] = [dh |-> w.h.dh, n |-> w.h.n, mk |-> w.mk]
        BY <2>1 DEF Knows, Filed
    <2>4. w.h.dh = m.h.dh /\ w.h.n = m.h.n /\ s.mkskipped[k].mk = w.mk
        BY <2>1, <2>3
    <2>5. w.mk.root = m.mk.root /\ w.mk.n = m.mk.n
        BY <2>4 DEF Orderly
    <2>6. w.mk = m.mk
        BY <1>1, <2>5, MessageFields
    <2>. QED BY <1>1, <1>5, <2>2, <2>4, <2>6 DEF Opens
<1>6. CASE SkippedAt(s, m.h) = {}
    <2>1. ~Behind(m.mk, s.ckr)
        <3> SUFFICES ASSUME Behind(m.mk, s.ckr) PROVE FALSE
            OBVIOUS
        <3>1. InStore(m, s.mkskipped)
            BY SkipAssumption, <1>1 DEF Held
        <3>2. PICK i \in DOMAIN s.mkskipped : s.mkskipped[i].mk = m.mk
            BY <3>1 DEF InStore
        <3>3. PICK w \in W : s.mkskipped[i] = [dh |-> w.h.dh, n |-> w.h.n, mk |-> w.mk]
            BY DEF Knows, Filed
        <3>4. w.mk = m.mk /\ s.mkskipped[i].dh = w.h.dh /\ s.mkskipped[i].n = w.h.n
            BY <3>2, <3>3
        <3>5. w = m
            BY <3>4 DEF Orderly
        <3>. QED BY <1>6, <3>4, <3>5 DEF SkippedAt
    <2> DEFINE c == OnChainOf(s, m.h, fresh)
               at == _skip_message_keys(c, m.h.n)
    <2>2. /\ c \in RatchetState /\ Knows(c, W)
          /\ c.ckr.root = m.mk.root /\ c.ckr # NoChain
          /\ (m.h.dh = s.dhr /\ c = s) \/ (m.h.dh # s.dhr /\ c.nr = 0)
        BY <2>1, OnChainHolds DEF StepsOn
    <2>3. _ratchet_decrypt_into(s, m.h, fresh).mk = at.ckr
        BY <1>6 DEF _ratchet_decrypt_into, WalkChain
    <2>4. c.ckr \in ChainKey /\ c.nr \in Nat /\ c.ckr.n = c.nr /\ c.nr <= m.h.n
        <3>1. c.ckr \in ChainKey /\ c.nr \in Nat /\ c.ckr.n = c.nr
            BY <2>2 DEF RatchetState, Knows
        <3>2. c = s => c.nr <= m.h.n
            BY <1>1, <2>1, <2>2, <3>1 DEF Behind
        <3>. QED BY <1>1, <2>2, <3>1, <3>2
    \* The gap on the chain of m.
    <2>5. m.h.n <= c.nr + MAX_SKIP
        <3>1. ASSUME NEW n \in c.nr .. (m.h.n + 1) - 1
              PROVE  \E w \in Out : w.mk = [root |-> m.mk.root, n |-> n]
            <4>1. n \in 0 .. m.h.n /\ n >= c.nr /\ n \in Nat
                BY <1>1, <2>4
            <4>2. PICK w \in W : w.mk = [root |-> m.mk.root, n |-> n]
                BY <4>1 DEF Orderly
            <4>3. w.mk.root = m.mk.root /\ w.mk.n = n
                BY <4>2
            <4>4. ~Behind(w.mk, s.ckr)
                <5>1. CASE c = s
                    BY <2>2, <2>4, <4>1, <4>3, <5>1 DEF Behind
                <5>2. CASE m.h.dh # s.dhr
                    <6>1. Len(s.ckr.root) < Len(m.mk.root)
                        BY <2>1, <5>2 DEF Leads
                    <6>. QED BY <1>1, <1>2, <4>3, <6>1 DEF Behind
                <5>. QED BY <2>2, <5>1, <5>2
            <4>. QED BY <1>4, <4>2, <4>4
        <3> HIDE DEF Out, c
        <3>2. (m.h.n + 1) - c.nr <= Cardinality(Out) /\ Cardinality(Out) \in Nat
            <4>1. m.h.n + 1 \in Nat
                BY <1>1
            <4>. QED BY <1>3, <2>4, <3>1, <4>1, GapOutstanding
        <3>3. Cardinality(Out) <= MAX_SKIP + 1
            BY DEF Out
        <3>4. m.h.n \in Nat /\ c.nr \in Nat /\ MAX_SKIP \in Nat
            BY <1>1, <2>4, SkipAssumption
        <3>. QED BY ONLY <3>2, <3>3, <3>4
    \* The gap at the end of the chain before it.
    <2>6. ASSUME m.h.dh # s.dhr, s.ckr # NoChain
          PROVE  m.h.pn <= s.nr + MAX_SKIP
        <3>0. /\ Len(s.ckr.root) < Len(m.mk.root) /\ s.ckr.n = s.nr
              /\ \A n \in 0 .. m.h.pn - 1 : \E w \in W : w.mk = [root |-> s.ckr.root, n |-> n]
            BY <2>1, <2>6 DEF Leads, Knows
        <3>1. ASSUME NEW n \in s.nr .. m.h.pn - 1
              PROVE  \E w \in Out \ {m} : w.mk = [root |-> s.ckr.root, n |-> n]
            <4>1. n \in 0 .. m.h.pn - 1 /\ n >= s.nr /\ n \in Nat
                BY <1>1, <1>2
            <4>2. PICK w \in W : w.mk = [root |-> s.ckr.root, n |-> n]
                BY <3>0, <4>1
            <4>3. w.mk.root = s.ckr.root /\ w.mk.n = n
                BY <4>2
            <4>4. ~Behind(w.mk, s.ckr)
                BY <1>2, <3>0, <4>1, <4>3 DEF Behind
            <4>5. w # m
                BY <1>1, <1>2, <3>0, <4>3
            <4>. QED BY <1>4, <4>2, <4>4, <4>5
        <3> HIDE DEF Out
        <3>2. IsFiniteSet(Out \ {m}) /\ Cardinality(Out \ {m}) = Cardinality(Out) - 1
            BY <1>3, FS_RemoveElement
        <3>3. m.h.pn - s.nr <= Cardinality(Out \ {m})
            BY <1>1, <1>2, <3>1, <3>2, GapOutstanding
        <3>4. Cardinality(Out) <= MAX_SKIP + 1 /\ Cardinality(Out) \in Nat
            BY <1>3, FS_CardinalityType DEF Out
        <3>5. m.h.pn \in Nat /\ s.nr \in Nat /\ MAX_SKIP \in Nat
            BY <1>1, <1>2, SkipAssumption
        <3>6. Cardinality(Out \ {m}) = Cardinality(Out) - 1
            BY <3>2
        <3>. QED BY ONLY <3>3, <3>4, <3>5, <3>6
    <2>7. ~GapTooLong(s, m.h, fresh)
        <3>1. ~TooManySkipped(c, m.h.n)
            BY <1>1, <2>4, <2>5, SkipAssumption DEF TooManySkipped
        <3>2. m.h.dh # s.dhr => ~TooManySkipped(s, m.h.pn)
            BY <1>1, <1>2, <2>6, SkipAssumption DEF TooManySkipped
        <3>. QED BY <3>1, <3>2 DEF GapTooLong
    <2> HIDE DEF c
    <2>8. at.ckr = m.mk
        <3>1. at.ckr \in ChainKey /\ at.ckr.root = m.mk.root /\ at.ckr.n = m.h.n
            <4>1. CASE m.h.n <= c.nr
                <5>1. at = c /\ c.nr = m.h.n
                    BY <1>1, <2>4, <4>1 DEF _skip_message_keys
                <5>. QED BY <2>2, <2>4, <5>1
            <4>2. CASE ~(m.h.n <= c.nr)
                <5> DEFINE k == m.h.n - c.nr
                <5>1. at.ckr = kdf_ck(c.ckr, k)
                    BY <1>1, <2>2, <4>2, SkipFields
                <5>2. k \in Nat /\ c.nr + k = m.h.n
                    BY <1>1, <2>4, <4>2
                <5> HIDE DEF k, at
                <5>3. kdf_ck(c.ckr, k) \in ChainKey /\ kdf_ck(c.ckr, k).root = c.ckr.root
                      /\ kdf_ck(c.ckr, k).n = c.ckr.n + k
                    BY <2>4, <5>2, KdfTyped
                <5>. QED BY <2>2, <2>4, <5>1, <5>2, <5>3
            <4>. QED BY <4>1, <4>2
        <3> HIDE DEF at
        <3>2. at.ckr = [root |-> at.ckr.root, n |-> at.ckr.n]
            BY <3>1 DEF ChainKey
        <3>. QED BY <1>1, <3>1, <3>2
    <2>. QED BY <1>1, <2>3, <2>7, <2>8 DEF Opens
<1>. QED BY <1>5, <1>6

\* The next message comes after all others, on the sending chain.
LEMMA SealGoesOn ==
    ASSUME NEW t \in RatchetState, NEW W \in SUBSET Message, NEW total \in Nat, NEW fresh \in Key,
           Orderly(W), Sends(t, W, total, fresh), CanSend(t), t.dhs < fresh,
           NEW m \in Message, m.h = NextHeader(t), m.mk = NextSealKey(t), Number(m) = total
    PROVE  /\ Orderly(W \cup {m})
           /\ Sends(ratchet_encrypt(t), W \cup {m}, total + 1, fresh)
<1> DEFINE r == ratchet_encrypt(t)
<1>1. /\ t.cks \in ChainKey /\ t.rk \in Root /\ t.ns \in Nat /\ t.pn \in Nat /\ t.dhs \in Key
      /\ fresh \in Nat
    BY DEF RatchetState, Key
<1>2. Len(t.rk) \in Nat
    BY <1>1 DEF Root
<1>3. /\ t.rk # <<>> /\ t.cks = [root |-> t.rk, n |-> t.ns] /\ t.cks.root = t.rk /\ t.cks.n = t.ns
    BY DEF Sends, CanSend
<1>4. /\ m.mk.root = t.rk /\ m.mk.n = t.ns /\ m.mk = [root |-> t.rk, n |-> t.ns]
      /\ m.h.dh = t.dhs /\ m.h.pn = t.pn /\ m.h.n = t.ns
    BY <1>3 DEF NextHeader, NextSealKey
<1>5. ASSUME NEW w \in W
      PROVE  /\ Number(w) < total /\ w.h.dh < fresh
             /\ Within(w.mk.root, t.rk) /\ Behind(w.mk, t.cks)
             /\ (w.h.dh = t.dhs <=> w.mk.root = t.rk)
             /\ (w.mk.root = t.rk => /\ w.h.n < t.ns /\ w.h.pn = t.pn
                                     /\ total - Number(w) = t.ns - w.h.n)
             /\ w.mk.n = w.h.n /\ w.mk.root # <<>>
             /\ Number(w) \in Nat /\ w.h.n \in Nat /\ w.mk.root \in Root /\ Len(w.mk.root) \in Nat
             /\ w.mk.n \in Nat /\ w.mk \in MessageKey /\ w.h.dh \in Key
    BY MessageFields DEF Sends, Orderly
<1>6. ASSUME NEW w \in W
      PROVE  /\ Len(w.mk.root) = Len(t.rk) => w.mk.root = t.rk
             /\ Len(w.mk.root) <= Len(t.rk)
             /\ w.mk # m.mk
    <2>1. Len(w.mk.root) = Len(t.rk) => w.mk.root = t.rk
        BY <1>1, <1>5, WithinLong
    <2>2. Len(w.mk.root) <= Len(t.rk)
        BY <1>5 DEF Within
    <2>3. w.mk # m.mk
        BY <1>1, <1>4, <1>5
    <2>. QED BY <2>1, <2>2, <2>3
<1> DEFINE V == W \cup {m}
<1>7. Orderly(V)
    <2>1. \A v \in V : v.mk.n = v.h.n /\ v.mk.root # <<>>
        BY <1>3, <1>4, <1>5
    <2>2. ASSUME NEW w \in W
          PROVE  /\ m.h.dh = w.h.dh <=> m.mk.root = w.mk.root
                 /\ Len(m.mk.root) = Len(w.mk.root) => m.mk.root = w.mk.root
                 /\ m.mk.root = w.mk.root => /\ Number(m) - Number(w) = m.h.n - w.h.n
                                             /\ Number(w) - Number(m) = w.h.n - m.h.n
                 /\ Len(w.mk.root) < Len(m.mk.root) => Number(w) < Number(m)
                 /\ ~(Len(m.mk.root) < Len(w.mk.root))
                 /\ m.mk # w.mk
        <3>1. m.h.dh = w.h.dh <=> m.mk.root = w.mk.root
            BY <1>4, <1>5
        <3>2. Len(m.mk.root) = Len(w.mk.root) => m.mk.root = w.mk.root
            BY <1>4, <1>6
        <3>3. m.mk.root = w.mk.root => /\ Number(m) - Number(w) = m.h.n - w.h.n
                                       /\ Number(w) - Number(m) = w.h.n - m.h.n
            BY <1>1, <1>4, <1>5
        <3>4. ~(Len(m.mk.root) < Len(w.mk.root))
            BY <1>2, <1>4, <1>5, <1>6
        <3>. QED BY <1>5, <1>6, <3>1, <3>2, <3>3, <3>4
    <2>3. ASSUME NEW v \in V, NEW w \in V
          PROVE  /\ v.h.dh = w.h.dh <=> v.mk.root = w.mk.root
                 /\ Len(v.mk.root) = Len(w.mk.root) => v.mk.root = w.mk.root
                 /\ v.mk.root = w.mk.root => Number(v) - Number(w) = v.h.n - w.h.n
                 /\ Len(v.mk.root) < Len(w.mk.root) => Number(v) < Number(w)
                 /\ v.mk = w.mk => v = w
        <3>1. CASE v \in W /\ w \in W
            BY <3>1 DEF Orderly
        <3>2. CASE v \in W /\ w = m
            <4>1. v \in W
                BY <3>2
            <4>2. w = m
                BY <3>2
            <4>. QED BY <2>2, <4>1, <4>2
        <3>3. CASE v = m /\ w \in W
            <4>1. w \in W
                BY <3>3
            <4>2. v = m
                BY <3>3
            <4>. QED BY <2>2, <4>1, <4>2
        <3>4. CASE v = m /\ w = m
            <4>1. Number(m) - Number(m) = m.h.n - m.h.n
                BY <1>1, <1>4
            <4>2. ~(Len(m.mk.root) < Len(m.mk.root))
                BY <1>2, <1>4
            <4>. QED BY <3>4, <4>1, <4>2
        <3>. QED BY <3>1, <3>2, <3>3, <3>4
    <2>4. ASSUME NEW v \in V, NEW n \in 0 .. v.h.n
          PROVE  \E w \in V : w.mk = [root |-> v.mk.root, n |-> n]
        <3>1. CASE v \in W
            <4>1. \E w \in W : w.mk = [root |-> v.mk.root, n |-> n]
                BY <3>1 DEF Orderly
            <4>. QED BY <4>1
        <3>2. CASE v = m
            <4>1. n = t.ns \/ n \in 0 .. t.ns - 1
                BY <1>1, <1>4, <3>2
            <4>2. CASE n = t.ns
                BY <1>4, <3>2, <4>2
            <4>3. CASE n \in 0 .. t.ns - 1
                <5>1. \E w \in W : w.mk = [root |-> t.rk, n |-> n]
                    BY <4>3 DEF Sends
                <5>. QED BY <1>4, <3>2, <5>1
            <4>. QED BY <4>1, <4>2, <4>3
        <3>. QED BY <3>1, <3>2
    <2>. QED BY <2>1, <2>3, <2>4 DEF Orderly
<1>8. Sends(r, V, total + 1, fresh)
    <2>1. /\ r.ns = t.ns + 1 /\ r.rk = t.rk /\ r.pn = t.pn /\ r.dhs = t.dhs
          /\ r.cks = kdf_ck(t.cks, 1)
        BY EncryptSets
    <2> HIDE DEF r
    <2>2. r.cks \in ChainKey /\ r.cks.root = t.rk /\ r.cks.n = t.ns + 1
        <3>1. /\ kdf_ck(t.cks, 1) \in ChainKey /\ kdf_ck(t.cks, 1).root = t.cks.root
              /\ kdf_ck(t.cks, 1).n = t.cks.n + 1
            BY <1>1, KdfTyped
        <3>. QED BY <1>3, <2>1, <3>1
    <2>3. r.cks = [root |-> r.rk, n |-> r.ns]
        <3>1. r.cks = [root |-> r.cks.root, n |-> r.cks.n]
            BY <2>2 DEF ChainKey
        <3>. QED BY <2>1, <2>2, <3>1
    <2>4. ASSUME NEW v \in V
          PROVE  /\ Number(v) < total + 1 /\ v.h.dh < fresh
                 /\ Within(v.mk.root, r.rk) /\ Behind(v.mk, r.cks)
                 /\ v.h.dh = r.dhs <=> v.mk.root = r.rk
                 /\ v.mk.root = r.rk => /\ v.h.n < r.ns /\ v.h.pn = r.pn
                                        /\ (total + 1) - Number(v) = r.ns - v.h.n
        <3>1. CASE v \in W
            <4>1. Behind(v.mk, r.cks)
                BY <1>1, <1>5, <2>1, <3>1, BehindAdvances
            <4>2. Number(v) < total + 1
                BY <1>5, <3>1
            <4>3. v.mk.root = r.rk => /\ v.h.n < r.ns /\ v.h.pn = r.pn
                                      /\ (total + 1) - Number(v) = r.ns - v.h.n
                <5>1. v.mk.root = t.rk => /\ v.h.n < t.ns /\ v.h.pn = t.pn
                                          /\ total - Number(v) = t.ns - v.h.n
                    BY <3>1 DEF Sends
                <5>2. v.h.n \in Nat /\ Number(v) \in Nat /\ t.ns \in Nat /\ total \in Nat
                    BY <1>1, <3>1, MessageFields
                <5>. QED BY ONLY <2>1, <5>1, <5>2
            <4>. QED BY <1>5, <2>1, <3>1, <4>1, <4>2, <4>3
        <3>2. CASE v = m
            <4>1. Within(t.rk, t.rk)
                BY <1>1 DEF Within, Root
            <4>2. Behind(m.mk, r.cks)
                BY <1>1, <1>4, <2>2 DEF Behind
            <4>3. (total + 1) - Number(m) = r.ns - m.h.n /\ m.h.n < r.ns /\ Number(m) < total + 1
                BY <1>1, <1>4, <2>1
            <4>. QED BY <1>1, <1>4, <2>1, <3>2, <4>1, <4>2, <4>3
        <3>. QED BY <3>1, <3>2
    <2>5. ASSUME NEW n \in 0 .. r.ns - 1
          PROVE  \E w \in V : w.mk = [root |-> r.rk, n |-> n]
        <3>1. n = t.ns \/ n \in 0 .. t.ns - 1
            BY <1>1, <2>1
        <3>2. n \in 0 .. t.ns - 1 => \E w \in W : w.mk = [root |-> t.rk, n |-> n]
            BY DEF Sends
        <3>. QED BY <1>4, <2>1, <3>1, <3>2
    <2>. QED BY <1>3, <2>1, <2>3, <2>4, <2>5 DEF Sends
<1>. QED BY <1>7, <1>8

\* The one that receives knows of a new message what it knew of the chain.
LEMMA SealIsKnown ==
    ASSUME NEW s \in RatchetState, NEW t \in RatchetState, NEW W \in SUBSET Message, NEW O,
           NEW total \in Nat, Sound(s), Knows(s, W), Held(s, W, O, total - 1),
           Follows(s, t, W), CanSend(t), t.cks = [root |-> t.rk, n |-> t.ns],
           NEW m \in Message, m.h = NextHeader(t), m.mk = NextSealKey(t),
           \A w \in W : Number(w) < total
    PROVE  /\ Knows(s, W \cup {m}) /\ Held(s, W \cup {m}, O, total)
           /\ Follows(s, ratchet_encrypt(t), W \cup {m})
<1> DEFINE V == W \cup {m}
           r == ratchet_encrypt(t)
<1>1. /\ s.ckr \in ChainKey /\ t.rk \in Root /\ t.ns \in Nat /\ s.nr \in Nat /\ t.cks \in ChainKey
    BY DEF RatchetState
<1>2. Len(t.rk) \in Nat /\ Len(s.ckr.root) \in Nat /\ s.ckr.n \in Nat
    BY <1>1 DEF Root, ChainKey
<1>3. m.mk.root = t.rk /\ m.mk.n = t.ns /\ m.h.dh = t.dhs /\ t.cks # NoChain
    BY DEF NextHeader, NextSealKey, CanSend
<1>4. /\ r.rk = t.rk /\ r.pn = t.pn /\ r.dhs = t.dhs /\ r.dhr = t.dhr /\ r.ns = t.ns + 1
      /\ r.cks = kdf_ck(t.cks, 1)
    BY EncryptSets
<1>5. r.cks # NoChain
    <2>1. kdf_ck(t.cks, 1).n = t.cks.n + 1 /\ t.cks.n = t.ns
        BY <1>1, KdfTyped
    <2>. QED BY <1>1, <1>4, <2>1 DEF NoChain
<1> HIDE DEF r
<1>6. ~Behind(m.mk, s.ckr) /\ (m.h.dh = s.dhr <=> m.mk.root = s.ckr.root)
    <2>1. CASE Ahead(s, t) /\ s.ckr # NoChain /\ s.ckr.root = t.rk /\ s.nr <= t.ns
        <3>1. s.ckr.n = s.nr /\ s.dhr = t.dhs
            BY <2>1 DEF Knows, Ahead
        <3>. QED BY <1>1, <1>2, <1>3, <2>1, <3>1 DEF Behind
    <2>2. CASE Ahead(t, s) /\ s.dhr # t.dhs /\ (s.ckr # NoChain => Len(s.ckr.root) < Len(t.rk))
        <3>1. Len(s.ckr.root) < Len(t.rk)
            <4>1. t.rk = Append(s.rk, x25519_shared(t.dhs, s.dhs)) /\ s.rk \in Root
                BY <2>2 DEF Ahead, RatchetState
            <4>2. t.rk # <<>>
                BY <4>1 DEF Root
            <4>3. Len(t.rk) # 0
                BY <1>1, <4>2 DEF Root
            <4>4. s.ckr = NoChain => Len(s.ckr.root) = 0
                BY DEF NoChain
            <4>. QED BY <1>2, <2>2, <4>3, <4>4
        <3>. QED BY <1>2, <1>3, <2>2, <3>1 DEF Behind
    <2>. QED BY <1>3, <2>1, <2>2 DEF Follows
<1>7. ASSUME NEW i \in DOMAIN s.mkskipped
      PROVE  s.mkskipped[i].mk # m.mk
    BY <1>6 DEF Sound, KeysBehind
<1>8. Knows(s, V)
    <2>1. \A v \in V : v.h.dh = s.dhr <=> v.mk.root = s.ckr.root
        BY <1>6 DEF Knows
    <2>2. Filed(s.mkskipped, V)
        <3>1. \A i \in DOMAIN s.mkskipped :
                 \E w \in V : s.mkskipped[i] = [dh |-> w.h.dh, n |-> w.h.n, mk |-> w.mk]
            BY DEF Knows, Filed
        <3>2. ASSUME NEW i \in DOMAIN s.mkskipped, NEW j \in DOMAIN s.mkskipped, NEW v \in V, NEW w \in V,
                     i <= j, v.mk = s.mkskipped[i].mk, w.mk = s.mkskipped[j].mk
              PROVE  Number(w) - Number(v) >= j - i
            <4>1. v \in W /\ w \in W
                BY <1>7, <3>2
            <4>. QED BY <3>2, <4>1 DEF Knows, Filed
        <3>. QED BY <3>1, <3>2 DEF Filed
    <2>. QED BY <2>1, <2>2 DEF Knows
<1>9. Held(s, V, O, total)
    <2> SUFFICES ASSUME NEW w \in V \ O, Behind(w.mk, s.ckr), ~InStore(w, s.mkskipped)
                 PROVE  total - Number(w) > MAX_SKIP_SESSION
        BY DEF Held
    <2>1. w \in W /\ Number(w) \in Nat
        BY <1>6, MessageFields
    <2>2. (total - 1) - Number(w) > MAX_SKIP_SESSION
        BY <2>1 DEF Held
    <2>. QED BY <2>1, <2>2, SkipAssumption
<1>10. Follows(s, r, V)
    <2>1. CASE Ahead(s, t) /\ s.ckr # NoChain /\ s.ckr.root = t.rk /\ s.nr <= t.ns
        <3>1. Ahead(s, r) /\ s.ckr.root = r.rk /\ s.nr <= r.ns
            BY <1>1, <1>4, <2>1 DEF Ahead
        <3>. QED BY <1>5, <2>1, <3>1 DEF Follows
    <2>2. CASE /\ Ahead(t, s) /\ s.dhr # t.dhs
               /\ s.ckr = NoChain => \A w \in W : w.mk.root = t.rk
               /\ s.ckr # NoChain =>
                    /\ Len(s.ckr.root) < Len(t.rk)
                    /\ \A w \in W : w.mk.root = t.rk \/ Behind(w.mk, [root |-> s.ckr.root, n |-> t.pn])
                    /\ \A n \in 0 .. t.pn - 1 : \E w \in W : w.mk = [root |-> s.ckr.root, n |-> n]
        <3>1. Ahead(r, s) /\ s.dhr # r.dhs
            BY <1>4, <2>2 DEF Ahead
        <3>2. s.ckr = NoChain => \A w \in V : w.mk.root = r.rk
            BY <1>3, <1>4, <2>2
        <3>3. s.ckr # NoChain =>
                /\ Len(s.ckr.root) < Len(r.rk)
                /\ \A w \in V : w.mk.root = r.rk \/ Behind(w.mk, [root |-> s.ckr.root, n |-> r.pn])
                /\ \A n \in 0 .. r.pn - 1 : \E w \in V : w.mk = [root |-> s.ckr.root, n |-> n]
            BY <1>3, <1>4, <2>2
        <3>. QED BY <3>1, <3>2, <3>3 DEF Follows
    <2>. QED BY <1>3, <2>1, <2>2 DEF Follows
<1>. QED BY <1>8, <1>9, <1>10 DEF r

\* Sealing leaves the receiving side of the state as it was.
LEMMA SealReceives ==
    ASSUME NEW t \in RatchetState, NEW s \in RatchetState, NEW V \in SUBSET Message, NEW O, NEW last,
           Knows(t, V), Held(t, V, O, last), Follows(t, s, V)
    PROVE  LET r == ratchet_encrypt(t)
           IN  Knows(r, V) /\ Held(r, V, O, last) /\ Follows(r, s, V)
<1> DEFINE r == ratchet_encrypt(t)
<1>1. /\ r.rk = t.rk /\ r.dhs = t.dhs /\ r.dhr = t.dhr
      /\ r.ckr = t.ckr /\ r.nr = t.nr /\ r.mkskipped = t.mkskipped
    BY EncryptSets
<1> HIDE DEF r
<1>2. Knows(r, V)
    BY <1>1 DEF Knows
<1>3. Held(r, V, O, last)
    BY <1>1 DEF Held
<1>4. (Ahead(r, s) <=> Ahead(t, s)) /\ (Ahead(s, r) <=> Ahead(s, t))
    BY <1>1 DEF Ahead
<1>5. Follows(r, s, V)
    BY <1>1, <1>4 DEF Follows
<1>. QED BY <1>2, <1>3, <1>5 DEF r

\* Where the peer goes on does not depend on the number of the next key.
LEMMA SendsLater ==
    ASSUME NEW t, NEW W \in SUBSET Message, NEW total, NEW fresh \in Nat, Sends(t, W, total, fresh)
    PROVE  Sends(t, W, total, fresh + 1)
<1>1. \A m \in W : m.h.dh \in Nat
    BY MessageFields DEF Key
<1>2. \A m \in W : m.h.dh < fresh => m.h.dh < fresh + 1
    BY <1>1
<1>. QED BY <1>2 DEF Sends

\* After opening, the two follow each other as before, or the other way round.
LEMMA ReceiveFollows ==
    ASSUME NEW s \in RatchetState, NEW t \in RatchetState, NEW r \in RatchetState, NEW fresh \in Nat,
           NEW W \in SUBSET Message, NEW V \in SUBSET Message, NEW m \in W,
           NEW total \in Nat, NEW count \in Nat,
           Orderly(W), Orderly(V), Sends(t, W, total, fresh), Sends(s, V, count, fresh),
           Follows(s, t, W), Follows(t, s, V), Received(r, s, m, fresh),
           s.dhs < fresh, s.dhr < fresh, t.dhr < fresh, t.dhs < fresh
    PROVE  LET next == IF r.dhs = fresh THEN fresh + 1 ELSE fresh
           IN  /\ Follows(r, t, W) /\ Follows(t, r, V)
               /\ Sends(r, V, count, next) /\ Sends(t, W, total, next)
               /\ r.dhs < next /\ r.dhr < next /\ t.dhs < next /\ t.dhr < next
<1> DEFINE next == IF r.dhs = fresh THEN fresh + 1 ELSE fresh
<1>1. /\ s.rk \in Root /\ t.rk \in Root /\ r.rk \in Root /\ s.dhs \in Nat /\ s.dhr \in Nat
      /\ t.dhs \in Nat /\ t.dhr \in Nat /\ r.dhs \in Nat /\ r.dhr \in Nat
    BY DEF RatchetState, Key
<1>2. s.nr \in Nat /\ s.ns \in Nat /\ t.ns \in Nat /\ t.ckr \in ChainKey
    BY DEF RatchetState
<1>3. Len(s.rk) \in Nat /\ Len(t.rk) \in Nat
    BY <1>1 DEF Root
<1>4. /\ m.mk.root \in Root /\ m.h.n \in Nat /\ m.h.dh \in Nat /\ m.mk.n \in Nat
      /\ Within(m.mk.root, t.rk) /\ Behind(m.mk, t.cks)
      /\ m.mk.root = t.rk => m.h.n < t.ns
      /\ (m.h.dh = t.dhs <=> m.mk.root = t.rk)
    BY MessageFields DEF Sends, Key
<1>5. t.cks # NoChain
    BY <1>4, NothingYet
<1>6. \A a, b \in RatchetState : Ahead(a, b) => Len(a.rk) = Len(b.rk) + 1
    <2> SUFFICES ASSUME NEW a \in RatchetState, NEW b \in RatchetState, Ahead(a, b)
                 PROVE  Len(a.rk) = Len(b.rk) + 1
        OBVIOUS
    <2>1. b.rk \in Root
        BY DEF RatchetState
    <2>. QED BY <2>1 DEF Ahead, Root
<1>7. CASE /\ SendsAs(r, s) /\ r.ckr.root = s.ckr.root /\ (r.ckr = NoChain <=> s.ckr = NoChain)
           /\ r.nr = s.nr \/ (m.mk.root = s.ckr.root /\ r.nr = m.h.n + 1)
    <2>1. next = fresh /\ r.dhs < next /\ r.dhr < next /\ t.dhs < next /\ t.dhr < next
        BY <1>1, <1>7 DEF SendsAs
    <2>2. /\ Ahead(r, t) <=> Ahead(s, t)
          /\ Ahead(t, r) <=> Ahead(t, s)
          /\ r.dhr = s.dhr /\ r.dhs = s.dhs /\ r.rk = s.rk /\ r.cks = s.cks /\ r.ns = s.ns /\ r.pn = s.pn
        BY <1>7 DEF SendsAs, Ahead
    <2>3. s.ckr.root = t.rk /\ s.nr <= t.ns => r.nr <= t.ns
        BY <1>2, <1>4, <1>7
    <2>4. Follows(r, t, W)
        BY <1>7, <2>2, <2>3 DEF Follows
    <2>5. Follows(t, r, V)
        BY <2>2 DEF Follows
    <2>6. Sends(r, V, count, fresh)
        BY <2>2 DEF Sends
    <2>. QED BY <2>1, <2>4, <2>5, <2>6
<1>8. CASE /\ StepsOn(r, s, m, fresh)
           /\ r.ckr # NoChain /\ r.ckr.root = m.mk.root /\ r.nr = m.h.n + 1
    <2>0. m.mk.root = Append(s.rk, x25519_shared(s.dhs, m.h.dh)) /\ Len(m.mk.root) = Len(s.rk) + 1
        BY <1>1, <1>8 DEF StepsOn, Root
    <2>1. Ahead(t, s) /\ ~Ahead(s, t) /\ Len(t.rk) = Len(s.rk) + 1
        <3>1. Len(m.mk.root) <= Len(t.rk)
            BY <1>4 DEF Within
        <3>2. ~Ahead(s, t)
            BY <1>3, <1>6, <2>0, <3>1
        <3>3. Ahead(t, s)
            BY <3>2 DEF Follows
        <3>. QED BY <1>6, <3>2, <3>3
    <2>2. m.mk.root = t.rk /\ m.h.dh = t.dhs
        BY <1>1, <1>4, <2>0, <2>1, WithinLong
    <2>3. /\ r.dhr = t.dhs /\ r.dhs = fresh /\ r.rk = Append(t.rk, x25519_shared(fresh, t.dhs))
          /\ r.cks = ChainOf(r.rk) /\ r.ns = 0 /\ r.pn = s.ns
        BY <1>8, <2>2 DEF StepsOn
    <2>4. /\ Ahead(r, t) /\ Len(r.rk) = Len(t.rk) + 1 /\ r.rk # <<>>
          /\ next = fresh + 1 /\ r.dhs < next /\ r.dhr < next /\ t.dhs < next /\ t.dhr < next
        <3>1. Ahead(r, t)
            BY <2>3 DEF Ahead
        <3>2. Len(r.rk) = Len(t.rk) + 1
            BY <1>6, <3>1
        <3>3. r.rk # <<>>
            BY <1>1, <1>3, <3>2 DEF Root
        <3>. QED BY <1>1, <2>3, <3>1, <3>2, <3>3
    <2>5. Follows(r, t, W)
        <3>1. r.nr <= t.ns /\ r.ckr.root = t.rk
            BY <1>2, <1>4, <1>8, <2>2
        <3>. QED BY <1>5, <1>8, <2>4, <3>1 DEF Follows
    \* The peer's receiving chain is now the one before this side's sending chain.
    <2>6. ASSUME NEW v \in V
          PROVE  /\ Within(v.mk.root, s.rk) /\ Len(v.mk.root) <= Len(s.rk) /\ Len(v.mk.root) \in Nat
                 /\ v.mk.root \in Root /\ v.h.dh < fresh /\ v.h.dh \in Nat /\ Number(v) < count
                 /\ Behind(v.mk, s.cks)
                 /\ Behind(v.mk, [root |-> s.rk, n |-> s.ns])
        <3>1. /\ Within(v.mk.root, s.rk) /\ Behind(v.mk, s.cks) /\ v.h.dh < fresh /\ Number(v) < count
              /\ v.mk.root = s.rk => v.h.n < s.ns
            BY DEF Sends
        <3>2. v.mk.root \in Root /\ Len(v.mk.root) \in Nat /\ v.h.dh \in Nat /\ v.mk.n = v.h.n
            BY MessageFields DEF Orderly, Key
        <3>3. Len(v.mk.root) <= Len(s.rk) /\ (Len(v.mk.root) = Len(s.rk) => v.mk.root = s.rk)
            BY <1>1, <3>1, <3>2, WithinLong DEF Within
        <3>4. Behind(v.mk, [root |-> s.rk, n |-> s.ns])
            BY <1>3, <3>1, <3>2, <3>3 DEF Behind
        <3>. QED BY <3>1, <3>2, <3>3, <3>4
    <2>7. Follows(t, r, V)
        <3>1. \/ t.ckr = NoChain /\ s.cks = NoChain
              \/ t.ckr # NoChain /\ t.ckr.root = s.rk
            BY <1>3, <1>6, <2>1 DEF Follows
        <3>2. t.dhr # r.dhs
            BY <1>1, <2>3
        <3>3. CASE t.ckr = NoChain /\ s.cks = NoChain
            <4>1. \A v \in V : FALSE
                BY <2>6, <3>3, NothingYet
            <4>. QED BY <2>4, <3>2, <3>3, <4>1 DEF Follows
        <3>4. CASE t.ckr # NoChain /\ t.ckr.root = s.rk
            <4>1. Len(t.ckr.root) < Len(r.rk)
                BY <1>3, <2>1, <2>4, <3>4
            <4>2. \A v \in V : Behind(v.mk, [root |-> t.ckr.root, n |-> r.pn])
                BY <2>3, <2>6, <3>4
            <4>3. \A n \in 0 .. r.pn - 1 : \E v \in V : v.mk = [root |-> t.ckr.root, n |-> n]
                BY <2>3, <3>4 DEF Sends
            <4>. QED BY <2>4, <3>2, <3>4, <4>1, <4>2, <4>3 DEF Follows
        <3>. QED BY <3>1, <3>3, <3>4
    <2>8. Sends(r, V, count, fresh + 1)
        <3>1. r.cks = [root |-> r.rk, n |-> r.ns] /\ r.cks.root = r.rk
            BY <2>3 DEF ChainOf
        <3>2. Within(s.rk, r.rk)
            <4>1. Within(s.rk, t.rk)
                <5>1. t.rk = Append(s.rk, x25519_shared(s.dhs, m.h.dh))
                    BY <2>0, <2>2
                <5>. QED BY <1>1, <5>1 DEF Root, Within
            <4>2. Within(t.rk, r.rk)
                BY <1>1, <2>3 DEF Root, Within
            <4>. QED BY <1>1, <4>1, <4>2, WithinOn
        <3>3. ASSUME NEW v \in V
              PROVE  /\ Number(v) < count /\ v.h.dh < fresh + 1
                     /\ Within(v.mk.root, r.rk) /\ Behind(v.mk, r.cks)
                     /\ v.h.dh # r.dhs /\ v.mk.root # r.rk
            <4>1. Len(v.mk.root) < Len(r.rk)
                BY <1>3, <2>1, <2>4, <2>6
            <4>2. Behind(v.mk, r.cks) /\ v.mk.root # r.rk
                BY <2>6, <3>1, <4>1 DEF Behind
            <4>3. Within(v.mk.root, r.rk)
                BY <1>1, <2>6, <3>2, WithinOn
            <4>. QED BY <2>3, <2>6, <4>2, <4>3
        <3>4. \A n \in 0 .. r.ns - 1 : \E v \in V : v.mk = [root |-> r.rk, n |-> n]
            BY <2>3
        <3>. QED BY <2>4, <3>1, <3>3, <3>4 DEF Sends
    <2>9. Sends(t, W, total, fresh + 1)
        BY SendsLater
    <2>. QED BY <2>4, <2>5, <2>7, <2>8, <2>9
<1>. QED BY <1>7, <1>8 DEF Received

-----------------------------------------------------------------------------
(* The exchange.                                                           *)

RecentInv(p) ==
    /\ st[p].dhs < nextKey /\ st[p].dhr < nextKey
    /\ IsFiniteSet(wire[p]) /\ Orderly(wire[p])
    /\ Sends(st[Peer(p)], wire[p], sealed[Peer(p)], nextKey)
    /\ Knows(st[p], wire[p])
    /\ Held(st[p], wire[p], ToSet(opened[p]), sealed[Peer(p)] - 1)
    /\ Follows(st[p], st[Peer(p)], wire[p])

RecentsInv == \A p \in Party : RecentInv(p)

\* A message appended to what was opened joins its set.
LEMMA OneMore ==
    ASSUME NEW S, NEW f \in Seq(S), NEW e \in S
    PROVE  ToSet(Append(f, e)) = ToSet(f) \cup {e}
<1> DEFINE g == Append(f, e)
<1>1. /\ DOMAIN g = 1 .. Len(f) + 1 /\ Len(f) \in Nat /\ DOMAIN f = 1 .. Len(f)
      /\ \A i \in 1 .. Len(f) : g[i] = f[i]
      /\ g[Len(f) + 1] = e
    OBVIOUS
<1> HIDE DEF g
<1>2. ASSUME NEW z \in ToSet(g) PROVE z \in ToSet(f) \cup {e}
    <2>1. PICK i \in DOMAIN g : g[i] = z
        BY <1>2 DEF ToSet
    <2>. QED BY <1>1, <2>1 DEF ToSet
<1>3. ASSUME NEW z \in ToSet(f) PROVE z \in ToSet(g)
    <2>1. PICK i \in DOMAIN f : f[i] = z
        BY <1>3 DEF ToSet
    <2>2. i \in DOMAIN g /\ g[i] = z
        BY <1>1, <2>1
    <2>. QED BY <2>2 DEF ToSet
<1>4. e \in ToSet(g)
    <2>1. Len(f) + 1 \in DOMAIN g
        BY <1>1
    <2>. QED BY <1>1, <2>1 DEF ToSet
<1>. QED BY <1>2, <1>3, <1>4 DEF g

\* The invariant holds after the handshake.
LEMMA InitRecents == Init => RecentsInv
<1> SUFFICES ASSUME Init PROVE RecentsInv
    OBVIOUS
<1> DEFINE a == st["alice"]
           b == st["bob"]
           r == <<{1}>>
           x == x25519_shared(3, 2)
<1>1. /\ a.dhs = 3 /\ a.dhr = 2 /\ a.rk = Append(r, x) /\ a.cks = ChainOf(Append(r, x))
      /\ a.ckr = NoChain /\ a.ns = 0 /\ a.nr = 0 /\ a.pn = 0 /\ a.mkskipped = <<>>
      /\ b.dhs = 2 /\ b.dhr = 0 /\ b.rk = r /\ b.cks = NoChain
      /\ b.ckr = NoChain /\ b.ns = 0 /\ b.nr = 0 /\ b.pn = 0 /\ b.mkskipped = <<>>
    BY DEF Init, Party, ratchet_init_alice, ratchet_init_bob, kdf_rk, NoKey
<1>2. r # <<>> /\ Append(r, x) # <<>>
    <2>1. r \in Root
        BY DEF Root, Key
    <2> HIDE DEF x, r
    <2>2. Len(Append(r, x)) = Len(r) + 1 /\ Len(r) \in Nat
        BY <2>1 DEF Root
    <2>3. r # <<>>
        BY DEF r
    <2>. QED BY <2>2, <2>3
<1>3. \A p \in Party : wire[p] = {} /\ sealed[p] = 0 /\ nextKey = 4
    BY DEF Init
<1> HIDE DEF a, b, r, x
<1>4. IsFiniteSet({}) /\ Orderly({})
    BY FS_EmptySet DEF Orderly
<1>5. Knows(a, {}) /\ Knows(b, {})
    BY <1>1 DEF Knows, Filed
<1>6. \A O, last : Held(a, {}, O, last) /\ Held(b, {}, O, last)
    BY DEF Held
<1>7. Sends(a, {}, 0, 4)
    <2>1. a.cks = [root |-> a.rk, n |-> a.ns]
        BY <1>1 DEF ChainOf
    <2>. QED BY <1>1, <1>2, <2>1 DEF Sends
<1>8. Sends(b, {}, 0, 4)
    BY <1>1, <1>2 DEF Sends
<1>9. Ahead(a, b)
    BY <1>1 DEF Ahead, x
<1>10. Follows(a, b, {}) /\ Follows(b, a, {})
    BY <1>1, <1>9 DEF Follows
<1>11. /\ Peer("alice") = "bob" /\ Peer("bob") = "alice"
       /\ st["alice"] = a /\ st["bob"] = b /\ nextKey = 4
       /\ wire["alice"] = {} /\ wire["bob"] = {}
       /\ sealed["alice"] = 0 /\ sealed["bob"] = 0
    BY <1>3 DEF Peer, Party, a, b
<1>12. a.dhs < 4 /\ a.dhr < 4 /\ b.dhs < 4 /\ b.dhr < 4
    BY <1>1
<1>13. RecentInv("alice")
    BY ONLY <1>4, <1>5, <1>6, <1>7, <1>8, <1>10, <1>11, <1>12 DEF RecentInv
<1>14. RecentInv("bob")
    BY ONLY <1>4, <1>5, <1>6, <1>7, <1>8, <1>10, <1>11, <1>12 DEF RecentInv
<1>. QED BY <1>13, <1>14 DEF RecentsInv, Party

\* Sealing preserves it.
LEMMA SealRecents ==
    ASSUME IInv, RecentsInv, NEW p \in Party, Seal(p)
    PROVE  RecentsInv'
<1> DEFINE q == Peer(p)
           s == st[q]
           t == st[p]
           r == ratchet_encrypt(t)
           m == [h |-> NextHeader(t), mk |-> NextSealKey(t), body |-> <<p, sealed[p]>>]
           W == wire[q]
           V == wire[p]
           O == ToSet(opened[q])
           U == ToSet(opened[p])
           n == sealed[p]
           k == sealed[q]
<1>1. q \in Party /\ Peer(q) = p /\ q # p /\ Party = {p, q}
    BY DEF Party, Peer
<1>2. /\ s \in RatchetState /\ t \in RatchetState /\ W \in SUBSET Message /\ V \in SUBSET Message
      /\ n \in Nat /\ k \in Nat /\ nextKey \in Nat /\ nextKey \in Key
    BY <1>1, MaxSealsAssumption DEF IInv, TypeOK, Key
<1>3. CanSend(t) /\ Sound(s)
    BY <1>1 DEF Seal, IInv, ReceiverInv
<1>4. m \in Message /\ Number(m) = n /\ m.h = NextHeader(t) /\ m.mk = NextSealKey(t)
    BY <1>2 DEF Message, Number, NextHeader, Header, NextSealKey, MessageKey, RatchetState
<1>5. /\ t.dhs < nextKey /\ t.dhr < nextKey /\ s.dhs < nextKey /\ s.dhr < nextKey
      /\ IsFiniteSet(W) /\ IsFiniteSet(V) /\ Orderly(W) /\ Orderly(V)
      /\ Sends(t, W, n, nextKey) /\ Sends(s, V, k, nextKey)
      /\ Knows(s, W) /\ Knows(t, V)
      /\ Held(s, W, O, n - 1) /\ Held(t, V, U, k - 1)
      /\ Follows(s, t, W) /\ Follows(t, s, V)
    BY <1>1 DEF RecentsInv, RecentInv
<1>6. /\ st' = [st EXCEPT ![p] = r] /\ wire' = [wire EXCEPT ![q] = W \cup {m}]
      /\ opened' = opened /\ nextKey' = nextKey /\ sealed' = [sealed EXCEPT ![p] = n + 1]
    BY DEF Seal
<1>7. /\ st'[p] = r /\ st'[q] = s /\ wire'[q] = W \cup {m} /\ wire'[p] = V
      /\ opened'[p] = opened[p] /\ opened'[q] = opened[q]
      /\ sealed'[p] = n + 1 /\ sealed'[q] = k
    BY <1>1, <1>6 DEF IInv, TypeOK
<1>8. r.dhs = t.dhs /\ r.dhr = t.dhr
    BY <1>2, EncryptSets
<1> HIDE DEF r, m, s, t, W, V, O, U, n, k, q
<1>9. Orderly(W \cup {m}) /\ Sends(r, W \cup {m}, n + 1, nextKey)
    BY <1>2, <1>3, <1>4, <1>5, SealGoesOn DEF r
<1>10. Knows(s, W \cup {m}) /\ Held(s, W \cup {m}, O, n) /\ Follows(s, r, W \cup {m})
    <2>1. t.cks = [root |-> t.rk, n |-> t.ns] /\ \A w \in W : Number(w) < n
        BY <1>3, <1>5 DEF Sends, CanSend
    <2>. QED BY <1>2, <1>3, <1>4, <1>5, <2>1, SealIsKnown DEF r
<1>11. Knows(r, V) /\ Held(r, V, U, k - 1) /\ Follows(r, s, V)
    BY <1>2, <1>5, SealReceives DEF r
<1>12. IsFiniteSet(W \cup {m})
    BY <1>5, FS_AddElement
<1>13. (n + 1) - 1 = n
    BY <1>2
<1>14. RecentInv(q)'
    BY <1>1, <1>5, <1>6, <1>7, <1>9, <1>10, <1>12, <1>13 DEF RecentInv, O
<1>15. RecentInv(p)'
    BY <1>1, <1>5, <1>6, <1>7, <1>8, <1>11 DEF RecentInv, U, q
<1>. QED BY <1>1, <1>14, <1>15 DEF RecentsInv

\* An arrival preserves it.
LEMMA ArriveRecents ==
    ASSUME IInv, TypeOK', RecentsInv, NEW p \in Party, NEW m \in wire[p], Arrive(p, m)
    PROVE  RecentsInv'
<1> DEFINE q == Peer(p)
           s == st[p]
           t == st[q]
           r == ratchet_decrypt(s, m.h, m.mk, nextKey)
           W == wire[p]
           V == wire[q]
           O == ToSet(opened[p])
           U == ToSet(opened[q])
           n == sealed[q]
           k == sealed[p]
           next == IF r.dhs = nextKey THEN nextKey + 1 ELSE nextKey
<1>1. q \in Party /\ Peer(q) = p /\ q # p /\ Party = {p, q}
    BY DEF Party, Peer
<1>2. /\ s \in RatchetState /\ t \in RatchetState /\ W \in SUBSET Message /\ V \in SUBSET Message
      /\ n \in Nat /\ k \in Nat /\ nextKey \in Nat /\ nextKey \in Key
      /\ opened[p] \in Seq(Message) /\ Len(s.mkskipped) <= MAX_SKIP_SESSION
    BY <1>1, MaxSealsAssumption DEF IInv, TypeOK, Key
<1>3. Sound(s) /\ m \in W
    BY <1>1 DEF IInv, ReceiverInv
<1>4. /\ t.dhs < nextKey /\ t.dhr < nextKey /\ s.dhs < nextKey /\ s.dhr < nextKey
      /\ IsFiniteSet(W) /\ IsFiniteSet(V) /\ Orderly(W) /\ Orderly(V)
      /\ Sends(t, W, n, nextKey) /\ Sends(s, V, k, nextKey)
      /\ Knows(s, W) /\ Knows(t, V)
      /\ Held(s, W, O, n - 1) /\ Held(t, V, U, k - 1)
      /\ Follows(s, t, W) /\ Follows(t, s, V)
    BY <1>1 DEF RecentsInv, RecentInv
<1>5. /\ st' = [st EXCEPT ![p] = r] /\ wire' = wire /\ sealed' = sealed
      /\ opened' = [opened EXCEPT ![p] =
                       IF Opens(s, m.h, m.mk, nextKey) THEN Append(@, m) ELSE @]
    BY DEF Arrive
<1>6. /\ st'[p] = r /\ st'[q] = t /\ wire'[p] = W /\ wire'[q] = V
      /\ sealed'[q] = n /\ sealed'[p] = k /\ opened'[q] = opened[q]
      /\ opened'[p] = IF Opens(s, m.h, m.mk, nextKey) THEN Append(opened[p], m) ELSE opened[p]
    BY <1>1, <1>5 DEF IInv, TypeOK
<1>7. nextKey' = next
    BY <1>6 DEF Arrive
<1>8. r \in RatchetState
    BY <1>6 DEF TypeOK
<1>9. r = ratchet_decrypt(s, m.h, m.mk, nextKey)
    OBVIOUS
<1> HIDE DEF r, s, t, W, V, O, U, n, k, q
<1>10. CASE Opens(s, m.h, m.mk, nextKey)
    <2>1. n - 1 \in Int /\ Number(m) <= n - 1
        <3>1. Number(m) < n /\ Number(m) \in Nat
            BY <1>2, <1>3, <1>4, MessageFields DEF Sends
        <3>. QED BY <1>2, <3>1
    <2>2. ~Behind(m.mk, s.ckr) => Leads(s, m, W)
        BY <1>2, <1>3, <1>4, NextChain
    <2>3. Knows(r, W) /\ Held(r, W, O \cup {m}, n - 1) /\ Received(r, s, m, nextKey)
        BY <1>2, <1>3, <1>4, <1>9, <1>10, <2>1, <2>2, DecryptHolds
    <2>4. /\ Follows(r, t, W) /\ Follows(t, r, V)
          /\ Sends(r, V, k, next) /\ Sends(t, W, n, next)
          /\ r.dhs < next /\ r.dhr < next /\ t.dhs < next /\ t.dhr < next
        BY <1>2, <1>3, <1>4, <1>8, <2>3, ReceiveFollows
    <2>5. ToSet(opened'[p]) = O \cup {m}
        BY <1>2, <1>3, <1>6, <1>10, OneMore DEF O
    <2>6. ToSet(opened'[q]) = U
        BY <1>6 DEF U
    <2> HIDE DEF next
    <2>7. RecentInv(p)'
        BY <1>1, <1>4, <1>6, <1>7, <2>3, <2>4, <2>5 DEF RecentInv, q
    <2>8. RecentInv(q)'
        BY <1>1, <1>4, <1>6, <1>7, <2>4, <2>6 DEF RecentInv
    <2>. QED BY <1>1, <2>7, <2>8 DEF RecentsInv
<1>11. CASE ~Opens(s, m.h, m.mk, nextKey)
    <2>1. r = s
        BY <1>9, <1>11 DEF ratchet_decrypt
    <2>2. st'[p] = s /\ st'[q] = t /\ opened'[p] = opened[p] /\ opened'[q] = opened[q] /\ next = nextKey
        <3>1. s.dhs \in Nat
            BY <1>2 DEF RatchetState, Key
        <3>. QED BY <1>2, <1>4, <1>6, <1>11, <2>1, <3>1
    <2> HIDE DEF next
    <2>3. RecentInv(p)'
        BY <1>1, <1>4, <1>6, <1>7, <2>2 DEF RecentInv, q, O
    <2>4. RecentInv(q)'
        BY <1>1, <1>4, <1>6, <1>7, <2>2 DEF RecentInv, U
    <2>. QED BY <1>1, <2>3, <2>4 DEF RecentsInv
<1>. QED BY <1>10, <1>11

\* Within the limits of the store and of a gap, loss, reordering, replays and refusals
\* never cost a message its key (ratchet.py 85-142, _skip_message_keys and
\* _store_skipped), for every value of the limits.
THEOREM RecentsOpen == Spec => []RecentMessagesOpen
<1>1. IInv /\ TypeOK' /\ RecentsInv /\ [Next]_vars => RecentsInv'
    <2> SUFFICES ASSUME IInv, TypeOK', RecentsInv, [Next]_vars PROVE RecentsInv'
        OBVIOUS
    <2>1. ASSUME NEW p \in Party, Seal(p) PROVE RecentsInv'
        BY <2>1, SealRecents
    <2>2. ASSUME NEW p \in Party, NEW m \in wire[p], Arrive(p, m) PROVE RecentsInv'
        BY <2>2, ArriveRecents
    <2>3. CASE UNCHANGED vars
        BY <2>3 DEF vars, RecentsInv, RecentInv
    <2>. QED BY <2>1, <2>2, <2>3 DEF Next
<1>2. IInv /\ RecentsInv => RecentMessagesOpen
    <2> SUFFICES ASSUME IInv, RecentsInv, NEW p \in Party, NEW m \in Outstanding(p),
                        Cardinality(Outstanding(p)) <= MAX_SKIP + 1,
                        sealed[Peer(p)] - m.body[2] <= MAX_SKIP_SESSION + 1
                 PROVE  Opens(st[p], m.h, m.mk, nextKey)
        BY DEF RecentMessagesOpen
    <2> DEFINE s == st[p]
               t == st[Peer(p)]
               W == wire[p]
               O == ToSet(opened[p])
               n == sealed[Peer(p)]
    <2>1. /\ s \in RatchetState /\ t \in RatchetState /\ W \in SUBSET Message /\ n \in Nat
          /\ nextKey \in Key /\ Len(s.mkskipped) <= MAX_SKIP_SESSION
        BY PeerIsParty, MaxSealsAssumption DEF IInv, TypeOK, Key
    <2>2. /\ IsFiniteSet(W) /\ Orderly(W) /\ Sends(t, W, n, nextKey) /\ Knows(s, W)
          /\ Held(s, W, O, n - 1) /\ Follows(s, t, W)
        BY DEF RecentsInv, RecentInv
    <2>3. Sound(s) /\ Spent(s, OpenedKeys(p))
        BY DEF IInv, ReceiverInv
    <2>4. m \in W \ O /\ Cardinality(W \ O) <= MAX_SKIP + 1 /\ n - Number(m) <= MAX_SKIP_SESSION + 1
        BY DEF Outstanding, Number
    <2>5. \A w \in W \cap O : Behind(w.mk, s.ckr)
        BY <2>3 DEF Spent, OpenedKeys, ToSet
    <2> HIDE DEF s, t, W, O, n
    <2>6. n - 1 \in Int /\ Number(m) <= n - 1 /\ (n - 1) - Number(m) <= MAX_SKIP_SESSION
        <3>1. Number(m) < n /\ Number(m) \in Nat
            BY <2>1, <2>2, <2>4, MessageFields DEF Sends
        <3>. QED BY <2>1, <2>4, <3>1, SkipAssumption
    <2>7. ~Behind(m.mk, s.ckr) => Leads(s, m, W)
        BY <2>1, <2>2, <2>4, NextChain
    <2>8. Opens(s, m.h, m.mk, nextKey)
        BY <2>1, <2>2, <2>3, <2>4, <2>5, <2>6, <2>7, OutstandingOpens
    <2>. QED BY <2>8 DEF s
<1>. QED BY <1>1, <1>2, InitRecents, Inductive, TypeCorrect, PTL DEF Spec

=============================================================================
