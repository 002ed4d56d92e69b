----------------------------- MODULE RatchetProofs -----------------------------
(***************************************************************************)
(* Lemmas about the operators of Ratchet on one state, for every MAX_SKIP  *)
(* and MAX_SKIP_SESSION: what they keep well typed, which keys they make   *)
(* unreachable (Sound, Spent), what they leave of the sending side, and    *)
(* which key a header leads to (LeadsTo) and what is left then (Walked).   *)
(***************************************************************************)
EXTENDS Ratchet, TLAPS

-----------------------------------------------------------------------------
(* Operators of Ratchet on one state.                                      *)

\* kdf_ck only moves the position on a chain.
LEMMA KdfTyped ==
    ASSUME NEW ck \in ChainKey, NEW k \in Nat
    PROVE  /\ kdf_ck(ck, k) \in ChainKey
           /\ kdf_ck(ck, k).root = ck.root
           /\ kdf_ck(ck, k).n = ck.n + k
BY DEF kdf_ck, ChainKey

\* Newest keeps the tail of the skipped keys, no longer than the limit.
LEMMA NewestShort ==
    ASSUME NEW S, NEW q \in Seq(S)
    PROVE  /\ Newest(q) \in Seq(S)
           /\ Len(Newest(q)) <= MAX_SKIP_SESSION
           /\ \A i \in DOMAIN Newest(q) :
                i + (Len(q) - Len(Newest(q))) \in DOMAIN q
                /\ Newest(q)[i] = q[i + (Len(q) - Len(Newest(q)))]
<1>1. CASE Len(q) > MAX_SKIP_SESSION
    BY <1>1, SkipAssumption DEF Newest
<1>2. CASE ~(Len(q) > MAX_SKIP_SESSION)
    BY <1>2, SkipAssumption DEF Newest
<1>3. QED BY <1>1, <1>2

\* The entries stored by one skip lie on the receiving chain, at the positions it walks over.
LEMMA SkippedFields ==
    ASSUME NEW s \in RatchetState, NEW until \in Nat, ~(until <= s.nr)
    PROVE  /\ SkippedOnTheWay(s, until) \in Seq(SkippedEntry)
           /\ \A i \in DOMAIN SkippedOnTheWay(s, until) :
                /\ SkippedOnTheWay(s, until)[i].mk.root = s.ckr.root
                /\ SkippedOnTheWay(s, until)[i].mk.n = s.ckr.n + i - 1
                /\ i <= until - s.nr
<1>1. until - s.nr \in Nat /\ s.ckr \in ChainKey /\ s.dhr \in Key /\ s.nr \in Nat
    BY DEF RatchetState
<1>2. \A i \in 1 .. (until - s.nr) : 
        /\ [dh |-> s.dhr, n |-> s.nr + i - 1, mk |-> kdf_ck(s.ckr, i - 1)] \in SkippedEntry
        /\ kdf_ck(s.ckr, i - 1).root = s.ckr.root
        /\ kdf_ck(s.ckr, i - 1).n = s.ckr.n + i - 1
   <2> TAKE i \in 1 .. (until - s.nr) 
   <2>1. i - 1 \in Nat BY <1>1
   <2>2. /\ kdf_ck(s.ckr, i - 1) \in ChainKey
         /\ kdf_ck(s.ckr, i - 1).root = s.ckr.root
         /\ kdf_ck(s.ckr, i - 1).n = s.ckr.n + (i - 1)
      BY ONLY <2>1, <1>1, KdfTyped
   <2>3. s.ckr.n \in Int BY <1>1 DEF ChainKey
   <2>. QED BY <2>1, <2>2, <2>3, <1>1 DEF SkippedEntry, MessageKey
<1>. QED BY <1>1, <1>2 DEF SkippedOnTheWay

\* Skipping keeps a state well typed and its store within the limit.
LEMMA SkipTyped ==
    ASSUME NEW s \in RatchetState, NEW until \in Nat, Len(s.mkskipped) <= MAX_SKIP_SESSION
    PROVE  /\ _skip_message_keys(s, until) \in RatchetState
           /\ Len(_skip_message_keys(s, until).mkskipped) <= MAX_SKIP_SESSION
<1>1. CASE s.ckr = NoChain \/ until <= s.nr
    BY <1>1 DEF _skip_message_keys
<1>2. CASE ~(s.ckr = NoChain \/ until <= s.nr)
  <2>1. SkippedOnTheWay(s, until) \in Seq(SkippedEntry)
    BY <1>2, SkippedFields
  <2>2. s.mkskipped \o SkippedOnTheWay(s, until) \in Seq(SkippedEntry)
    BY <2>1 DEF RatchetState
  <2>4. kdf_ck(s.ckr, until - s.nr) \in ChainKey
    <3>1. s.ckr \in ChainKey /\ until - s.nr \in Nat BY <1>2 DEF RatchetState
    <3>. QED BY <3>1, KdfTyped
  <2>5.  /\ Newest(s.mkskipped \o SkippedOnTheWay(s, until)) \in Seq(SkippedEntry)
         /\ Len(Newest(s.mkskipped \o SkippedOnTheWay(s, until))) <= MAX_SKIP_SESSION
    BY <2>2, NewestShort
  <2>3. QED
    BY <1>2, <2>4, <2>5 DEF _skip_message_keys, RatchetState
<1>3. QED BY <1>1, <1>2

-----------------------------------------------------------------------------

(* Behind(u, ck): key u comes before position ck of the receiving side.    *)
(* Sound: the stored keys are behind the receiving chain and all differ.   *)
(* Spent(s, U): no key of U can be reached from state s again.             *)

Behind(u, ck) ==
    Len(u.root) < Len(ck.root) \/ (u.root = ck.root /\ u.n < ck.n)

\* q is a sequence of records with a field mk: skipped entries, or messages.
KeysBehind(q, ck) == \A i \in DOMAIN q : Behind(q[i].mk, ck)
KeysDistinct(q) == \A i, j \in DOMAIN q : q[i].mk = q[j].mk => i = j
KeysOutside(q, U) == \A i \in DOMAIN q : q[i].mk \notin U

Sound(s) ==
    /\ Len(s.ckr.root) <= Len(s.rk)
    /\ KeysBehind(s.mkskipped, s.ckr)
    /\ KeysDistinct(s.mkskipped)

Spent(s, U) ==
    /\ \A u \in U : Behind(u, s.ckr)
    /\ KeysOutside(s.mkskipped, U)

\* A key behind a chain position stays behind when the chain advances.
LEMMA BehindAdvances ==
    ASSUME NEW u \in MessageKey, NEW ck \in ChainKey, NEW k \in Nat, Behind(u, ck)
    PROVE  Behind(u, kdf_ck(ck, k))
<1>1. u.n \in Int /\ ck.n \in Int BY DEF MessageKey, ChainKey
<1>2. kdf_ck(ck, k).root = ck.root /\ kdf_ck(ck, k).n = ck.n + k
    BY KdfTyped
<1>3. u.n < ck.n => u.n < ck.n + k
    BY <1>1
<1>. QED BY <1>2, <1>3 DEF Behind

\* Dropping the oldest entries cannot break what holds of every entry.
LEMMA NewestKeeps ==
    ASSUME NEW q \in Seq(SkippedEntry), NEW ck, NEW U,
           KeysBehind(q, ck), KeysDistinct(q), KeysOutside(q, U)
    PROVE  /\ KeysBehind(Newest(q), ck)
           /\ KeysDistinct(Newest(q))
           /\ KeysOutside(Newest(q), U)
<1> DEFINE d == Len(q) - Len(Newest(q))
<1>1. \A i \in DOMAIN Newest(q) : i + d \in DOMAIN q /\ Newest(q)[i] = q[i + d]
    BY NewestShort
<1>2. Newest(q) \in Seq(SkippedEntry) BY NewestShort
<1>3. d \in Int BY <1>2
<1>4. DOMAIN Newest(q) \subseteq Int BY <1>2
<1> HIDE DEF d
<1>5. KeysBehind(Newest(q), ck) BY <1>1 DEF KeysBehind
<1>6. KeysOutside(Newest(q), U) BY <1>1 DEF KeysOutside
<1>7. KeysDistinct(Newest(q)) 
   <2> SUFFICES ASSUME NEW i \in DOMAIN Newest(q), NEW j \in DOMAIN Newest(q),
                  Newest(q)[i].mk = Newest(q)[j].mk
           PROVE i = j
       BY DEF KeysDistinct
   <2>1. i + d = j + d BY <1>1 DEF KeysDistinct
   <2>. QED BY <2>1, <1>3, <1>4
<1>. QED BY <1>5, <1>6, <1>7

\* Skipping keeps a sound state sound and brings no spent key back.
LEMMA SkipKeeps ==
    ASSUME NEW s \in RatchetState, NEW until \in Nat, NEW U \in SUBSET MessageKey,
           Sound(s), Spent(s, U)
    PROVE  /\ Sound(_skip_message_keys(s, until))
           /\ Spent(_skip_message_keys(s, until), U)
<1>1. CASE s.ckr = NoChain \/ until <= s.nr
    BY <1>1 DEF _skip_message_keys
<1>2. CASE ~(s.ckr = NoChain \/ until <= s.nr)
  <2> DEFINE w == SkippedOnTheWay(s, until)
             q == s.mkskipped \o w
             ck == kdf_ck(s.ckr, until - s.nr)
             r == _skip_message_keys(s, until)
  <2>1. /\ s.ckr \in ChainKey
        /\ s.mkskipped \in Seq(SkippedEntry)
        /\ until - s.nr \in Nat
    BY <1>2 DEF RatchetState
  <2>2. /\ w \in Seq(SkippedEntry)
        /\ \A i \in DOMAIN w : /\ w[i].mk.root = s.ckr.root
                               /\ w[i].mk.n = s.ckr.n + i - 1
                               /\ i <= until - s.nr
    BY <1>2, SkippedFields
  <2>3. /\ ck \in ChainKey
        /\ ck.root = s.ckr.root
        /\ ck.n = s.ckr.n + (until - s.nr)
    BY <2>1, KdfTyped
  <2>4. r.ckr = ck /\ r.mkskipped = Newest(q) /\ r.rk = s.rk
    BY <1>2 DEF _skip_message_keys, RatchetState
  <2>5. s.ckr.n \in Int BY <2>1 DEF ChainKey
  <2>6. \A i \in DOMAIN s.mkskipped : s.mkskipped[i].mk \in MessageKey
    <3> TAKE i \in DOMAIN s.mkskipped
    <3>1. s.mkskipped[i] \in SkippedEntry BY <2>1
    <3>. QED BY <3>1 DEF SkippedEntry
  <2>7. /\ q \in Seq(SkippedEntry)
        /\ \A i \in DOMAIN q : 
             \/ i \in DOMAIN s.mkskipped /\ q[i] = s.mkskipped[i]
             \/ i \notin DOMAIN s.mkskipped /\ i - Len(s.mkskipped) \in DOMAIN w /\ q[i] = w[i - Len(s.mkskipped)]
    BY <2>1, <2>2
  <2> HIDE DEF w, q, ck, r
  <2>8. \A i \in DOMAIN w : Behind(w[i].mk, ck) /\ ~Behind(w[i].mk, s.ckr)
    <3>1. DOMAIN w \subseteq Nat BY <2>2
    <3>2. Len(s.ckr.root) \in Int BY <2>1 DEF ChainKey, Root
    <3>. QED BY <2>1, <2>2, <2>3, <2>5, <3>1, <3>2 DEF Behind
  <2>9. \A i \in DOMAIN s.mkskipped : Behind(s.mkskipped[i].mk, ck) /\ Behind(s.mkskipped[i].mk, s.ckr)
    BY <2>1, <2>6, BehindAdvances DEF Sound, KeysBehind, ck
  <2>10. KeysBehind(q, ck)
    BY <2>7, <2>8, <2>9 DEF KeysBehind
  <2>11. KeysDistinct(q)
    <3> SUFFICES ASSUME NEW i \in DOMAIN q, NEW j \in DOMAIN q, q[i].mk = q[j].mk
                 PROVE  i = j
        BY DEF KeysDistinct
    <3>0. i \in Int /\ j \in Int BY <2>7
    <3>1. CASE i \in DOMAIN s.mkskipped /\ j \in DOMAIN s.mkskipped
        BY <3>1, <2>7 DEF Sound, KeysDistinct
    <3>2. CASE i \in DOMAIN s.mkskipped /\ j \notin DOMAIN s.mkskipped
        BY <3>2, <2>7, <2>8, <2>9
    <3>3. CASE i \notin DOMAIN s.mkskipped /\ j \in DOMAIN s.mkskipped
        BY <3>3, <2>7, <2>8, <2>9
    <3>4. CASE i \notin DOMAIN s.mkskipped /\ j \notin DOMAIN s.mkskipped
        <4>1. w[i - Len(s.mkskipped)].mk.n = w[j - Len(s.mkskipped)].mk.n
            BY <3>4, <2>7
        <4>2. /\ i - Len(s.mkskipped) \in DOMAIN w
              /\ j - Len(s.mkskipped) \in DOMAIN w
            BY <3>4, <2>7
        <4>3. s.ckr.n + (i - Len(s.mkskipped)) - 1 = s.ckr.n + (j - Len(s.mkskipped)) - 1
            BY <4>1, <4>2, <2>2
        <4>4. Len(s.mkskipped) \in Int BY <2>1
        <4>. QED BY <4>3, <4>4, <3>0, <2>5
    <3>. QED BY <3>1, <3>2, <3>3, <3>4
  <2>12. KeysOutside(q, U)
    BY <2>7, <2>8 DEF Spent, KeysOutside
  <2>13. \A u \in U : Behind(u, ck)
    BY <2>1, BehindAdvances DEF Spent, ck
  <2>14. KeysBehind(Newest(q), ck) /\ KeysDistinct(Newest(q)) /\ KeysOutside(Newest(q), U)
    BY <2>7, <2>10, <2>11, <2>12, NewestKeeps
  <2>. QED BY <2>3, <2>4, <2>13, <2>14 DEF Sound, Spent, r
<1>. QED BY <1>1, <1>2

-----------------------------------------------------------------------------

\* One kdf_rk step makes a root one longer.
LEMMA RootTyped ==
    ASSUME NEW rk \in Root, NEW a \in Key, NEW b \in Key
    PROVE  /\ kdf_rk(rk, x25519_shared(a, b)) \in Root
           /\ Len(kdf_rk(rk, x25519_shared(a, b))) = Len(rk) + 1
           /\ ChainOf(rk) \in ChainKey
           /\ ChainOf(rk).root = rk
           /\ Len(rk) \in Nat
BY DEF kdf_rk, x25519_shared, ChainOf, Root, ChainKey

\* What _dh_ratchet writes: two root steps, the fresh pair, no skipped key.
LEMMA DhRatchetFields ==
    ASSUME NEW s \in RatchetState, NEW dh \in Key, NEW fresh \in Key
    PROVE  LET r == _dh_ratchet(s, dh, fresh)
           IN  /\ r \in RatchetState
               /\ r.mkskipped = s.mkskipped
               /\ r.dhs = fresh
               /\ Len(r.rk) = Len(s.rk) + 2
               /\ Len(r.ckr.root) = Len(s.rk) + 1
               /\ r.cks = ChainOf(r.rk)
<1> DEFINE rkR == kdf_rk(s.rk, x25519_shared(s.dhs, dh))
           rkS == kdf_rk(rkR, x25519_shared(fresh, dh))
           r == _dh_ratchet(s, dh, fresh)
<1>1. s.rk \in Root /\ s.dhs \in Key
    BY DEF RatchetState
<1>2. rkR \in Root /\ Len(rkR) = Len(s.rk) + 1 /\ Len(s.rk) \in Nat
    BY <1>1, RootTyped
<1> HIDE DEF rkR
<1>3. rkS \in Root /\ Len(rkS) = Len(rkR) + 1
    BY <1>2, RootTyped
<1> HIDE DEF rkS
<1>4. /\ ChainOf(rkR) \in ChainKey /\ ChainOf(rkR).root = rkR
      /\ ChainOf(rkS) \in ChainKey
    BY <1>2, <1>3, RootTyped DEF Key
<1>5. r = [s EXCEPT !.pn = s.ns, !.ns = 0, !.nr = 0,
                    !.dhr = dh, !.dhs = fresh, !.rk = rkS,
                    !.ckr = ChainOf(rkR), !.cks = ChainOf(rkS)]
    BY DEF _dh_ratchet, rkR, rkS
<1> HIDE DEF r
<1>6. r \in RatchetState
    BY <1>3, <1>4, <1>5 DEF RatchetState
<1>7. /\ r.mkskipped = s.mkskipped /\ r.dhs = fresh /\ r.rk = rkS
      /\ r.ckr = ChainOf(rkR) /\ r.cks = ChainOf(rkS)
    BY <1>5 DEF RatchetState
<1>. QED BY <1>2, <1>3, <1>4, <1>6, <1>7 DEF r

\* A DH step puts every older key behind the new receiving chain.
LEMMA DhRatchetKeeps ==
    ASSUME NEW s \in RatchetState, NEW dh \in Key, NEW fresh \in Key,
           NEW U \in SUBSET MessageKey, Sound(s), Spent(s, U)
    PROVE  /\ Sound(_dh_ratchet(s, dh, fresh))
           /\ Spent(_dh_ratchet(s, dh, fresh), U)
<1> DEFINE r == _dh_ratchet(s, dh, fresh)
<1>1. /\ r.mkskipped = s.mkskipped
      /\ Len(r.rk) = Len(s.rk) + 2
      /\ Len(r.ckr.root) = Len(s.rk) + 1
    BY DhRatchetFields
<1>2. Len(s.rk) \in Nat /\ Len(s.ckr.root) \in Nat
    BY DEF RatchetState, ChainKey, Root
<1>3. ASSUME NEW u, Behind(u, s.ckr), u \in MessageKey
      PROVE  Behind(u, r.ckr)
    <2>1. Len(u.root) \in Nat BY <1>3 DEF MessageKey, ChainKey, Root
    <2>2. Len(u.root) <= Len(s.ckr.root) BY <1>3, <1>2, <2>1 DEF Behind
    <2>. QED BY <2>1, <2>2, <1>1, <1>2 DEF Behind, Sound
<1>4. ASSUME NEW i \in DOMAIN s.mkskipped
      PROVE  s.mkskipped[i].mk \in MessageKey
    <2>1. s.mkskipped[i] \in SkippedEntry BY DEF RatchetState
    <2>. QED BY <2>1 DEF SkippedEntry
<1>5. KeysBehind(r.mkskipped, r.ckr)
    BY <1>1, <1>3, <1>4 DEF Sound, KeysBehind
<1>6. \A u \in U : Behind(u, r.ckr)
    BY <1>3 DEF Spent
<1>. QED BY <1>1, <1>2, <1>5, <1>6 DEF Sound, Spent

\* Moving to the chain a header names keeps the state sound.
LEMMA OnChainKeeps ==
    ASSUME NEW s \in RatchetState, NEW h \in Header, NEW fresh \in Key,
           NEW U \in SUBSET MessageKey, Sound(s), Spent(s, U),
           Len(s.mkskipped) <= MAX_SKIP_SESSION
    PROVE  LET r == OnChainOf(s, h, fresh)
           IN  /\ r \in RatchetState
               /\ Len(r.mkskipped) <= MAX_SKIP_SESSION
               /\ Sound(r) /\ Spent(r, U)
<1>1. h.pn \in Nat /\ h.dh \in Key
    BY DEF Header
<1>2. CASE h.dh = s.dhr
    BY <1>2 DEF OnChainOf
<1>3. CASE h.dh # s.dhr
    <2> DEFINE t == _skip_message_keys(s, h.pn)
    <2>1. t \in RatchetState /\ Len(t.mkskipped) <= MAX_SKIP_SESSION
        BY <1>1, SkipTyped
    <2>2. Sound(t) /\ Spent(t, U)
        BY <1>1, SkipKeeps
    <2> HIDE DEF t
    <2>3. /\ _dh_ratchet(t, h.dh, fresh) \in RatchetState
          /\ _dh_ratchet(t, h.dh, fresh).mkskipped = t.mkskipped
        BY <1>1, <2>1, DhRatchetFields
    <2>4. Sound(_dh_ratchet(t, h.dh, fresh)) /\ Spent(_dh_ratchet(t, h.dh, fresh), U)
        BY <1>1, <2>1, <2>2, DhRatchetKeeps
    <2>. QED BY <1>3, <2>1, <2>3, <2>4 DEF OnChainOf, t
<1>. QED BY <1>2, <1>3

\* The key reached by walking the chain is new, and is behind the state it leaves.
LEMMA WalkKeeps ==
    ASSUME NEW s \in RatchetState, NEW h \in Header, NEW fresh \in Key,
           NEW U \in SUBSET MessageKey, Sound(s), Spent(s, U),
           Len(s.mkskipped) <= MAX_SKIP_SESSION
    PROVE  LET w == WalkChain(s, h, fresh)
           IN  /\ w.mk \in MessageKey \ U
               /\ w.state \in RatchetState
               /\ Len(w.state.mkskipped) <= MAX_SKIP_SESSION
               /\ Sound(w.state) /\ Spent(w.state, U \cup {w.mk})
<1> DEFINE c == OnChainOf(s, h, fresh)
           at == _skip_message_keys(c, h.n)
           r == [at EXCEPT !.ckr = kdf_ck(@, 1), !.nr = @ + 1]
<1>1. h.n \in Nat
    BY DEF Header
<1>2. /\ c \in RatchetState /\ Len(c.mkskipped) <= MAX_SKIP_SESSION
      /\ Sound(c) /\ Spent(c, U)
    BY OnChainKeeps
<1> HIDE DEF c
<1>3. /\ at \in RatchetState /\ Len(at.mkskipped) <= MAX_SKIP_SESSION
      /\ Sound(at) /\ Spent(at, U)
    BY <1>1, <1>2, SkipTyped, SkipKeeps
<1>4. WalkChain(s, h, fresh) = [mk |-> at.ckr, state |-> r]
    BY DEF WalkChain, c
<1> HIDE DEF at
<1>5. at.ckr \in ChainKey /\ at.nr \in Nat /\ at.mkskipped \in Seq(SkippedEntry)
    BY <1>3 DEF RatchetState
<1>6. /\ kdf_ck(at.ckr, 1) \in ChainKey
      /\ kdf_ck(at.ckr, 1).root = at.ckr.root
      /\ kdf_ck(at.ckr, 1).n = at.ckr.n + 1
    BY <1>5, KdfTyped
<1>7. /\ r \in RatchetState
      /\ r.ckr = kdf_ck(at.ckr, 1) /\ r.mkskipped = at.mkskipped /\ r.rk = at.rk
    <2> DEFINE ck == kdf_ck(at.ckr, 1)
               n == at.nr + 1
    <2>1. ck \in ChainKey /\ n \in Nat BY <1>5, <1>6
    <2>2. r = [at EXCEPT !.ckr = ck, !.nr = n] OBVIOUS
    <2> HIDE DEF ck, n, r
    <2>3. r \in RatchetState BY <1>3, <2>1, <2>2 DEF RatchetState
    <2>4. r.ckr = ck /\ r.mkskipped = at.mkskipped /\ r.rk = at.rk
        BY <1>3, <2>2 DEF RatchetState
    <2>. QED BY <2>3, <2>4 DEF ck
<1> HIDE DEF r
<1>8. ~Behind(at.ckr, at.ckr) /\ Behind(at.ckr, r.ckr)
    <2>1. at.ckr.n \in Int /\ Len(at.ckr.root) \in Int BY <1>5 DEF ChainKey, Root
    <2>. QED BY <2>1, <1>6, <1>7 DEF Behind
<1>9. ASSUME NEW u \in MessageKey, Behind(u, at.ckr)
      PROVE  Behind(u, r.ckr)
    BY <1>5, <1>7, <1>9, BehindAdvances
<1>10. at.ckr \in MessageKey \ U
    BY <1>3, <1>5, <1>8 DEF Spent, MessageKey
<1>11. ASSUME NEW i \in DOMAIN at.mkskipped
       PROVE  at.mkskipped[i].mk \in MessageKey /\ Behind(at.mkskipped[i].mk, at.ckr)
    <2>1. at.mkskipped[i] \in SkippedEntry BY <1>5
    <2>. QED BY <2>1, <1>3 DEF SkippedEntry, Sound, KeysBehind
<1>12. Sound(r)
    BY <1>3, <1>6, <1>7, <1>9, <1>11 DEF Sound, KeysBehind
<1>13. KeysOutside(r.mkskipped, U \cup {at.ckr})
    BY <1>3, <1>7, <1>8, <1>11 DEF Spent, KeysOutside
<1>14. Spent(r, U \cup {at.ckr})
    BY <1>3, <1>8, <1>9, <1>13 DEF Spent
<1>. QED BY <1>3, <1>4, <1>7, <1>10, <1>12, <1>14

\* RemoveAt closes the gap and changes nothing else.
LEMMA RemoveAtFields ==
    ASSUME NEW S, NEW q \in Seq(S), NEW k \in 1 .. Len(q)
    PROVE  /\ RemoveAt(q, k) \in Seq(S)
           /\ Len(RemoveAt(q, k)) = Len(q) - 1
           /\ \A i \in DOMAIN RemoveAt(q, k) :
                 i \in Int /\ RemoveAt(q, k)[i] = IF i < k THEN q[i] ELSE q[i + 1]
<1> DEFINE a == SubSeq(q, 1, k - 1)
           b == SubSeq(q, k + 1, Len(q))
<1>1. Len(q) \in Nat /\ k \in Nat
    OBVIOUS
<1>2. a \in Seq(S) /\ Len(a) = k - 1 /\ \A i \in 1 .. k - 1 : a[i] = q[i]
    BY <1>1
<1>3. b \in Seq(S) /\ Len(b) = Len(q) - k /\ \A i \in 1 .. Len(q) - k : b[i] = q[k + i]
    <2>1. CASE k < Len(q) BY <1>1, <2>1
    <2>2. CASE k = Len(q) BY <1>1, <2>2
    <2>. QED BY <2>1, <2>2, <1>1
<1>4. RemoveAt(q, k) = a \o b
    BY DEF RemoveAt
<1> HIDE DEF a, b
<1>5. /\ a \o b \in Seq(S)
      /\ Len(a \o b) = Len(q) - 1
      /\ DOMAIN (a \o b) = 1 .. Len(q) - 1
    <2>1. a \o b \in Seq(S) /\ Len(a \o b) = Len(a) + Len(b)
        <3>1. a \in Seq(S) BY <1>2
        <3>2. b \in Seq(S) BY <1>3
        <3>. QED BY ONLY <3>1, <3>2
    <2>2. Len(a) + Len(b) = Len(q) - 1
        BY <1>1, <1>2, <1>3
    <2>. QED BY <2>1, <2>2
<1>6. \A i \in 1 .. Len(q) - 1 : (a \o b)[i] = IF i <= k - 1 THEN a[i] ELSE b[i - (k - 1)]
    BY <1>1, <1>2, <1>3
<1>7. \A i \in 1 .. Len(q) - 1 : (a \o b)[i] = IF i < k THEN q[i] ELSE q[i + 1]
    <2> TAKE i \in 1 .. Len(q) - 1
    <2>1. CASE i < k BY <2>1, <1>1, <1>2, <1>6
    <2>2. CASE ~(i < k)
        <3>1. i - (k - 1) \in 1 .. Len(q) - k /\ k + (i - (k - 1)) = i + 1 BY <2>2, <1>1
        <3>2. ~(i <= k - 1) BY <2>2, <1>1
        <3>3. (a \o b)[i] = b[i - (k - 1)] BY <3>2, <1>6
        <3>. QED BY <2>2, <3>1, <3>3, <1>3
    <2>. QED BY <2>1, <2>2
<1> DEFINE w == a \o b
<1>8. /\ RemoveAt(q, k) = w /\ w \in Seq(S) /\ Len(w) = Len(q) - 1
      /\ DOMAIN w = 1 .. Len(q) - 1
      /\ \A i \in 1 .. Len(q) - 1 : w[i] = IF i < k THEN q[i] ELSE q[i + 1]
    BY <1>4, <1>5, <1>7
<1> HIDE DEF w
<1>. QED BY <1>8

\* A key taken from the store was not spent, and is in the store no more.
LEMMA TakeKeeps ==
    ASSUME NEW s \in RatchetState, NEW h \in Header, SkippedAt(s, h) # {},
           NEW U \in SUBSET MessageKey, Sound(s), Spent(s, U),
           Len(s.mkskipped) <= MAX_SKIP_SESSION
    PROVE  LET w == TakeSkipped(s, h)
           IN  /\ w.mk \in MessageKey \ U
               /\ w.state \in RatchetState
               /\ Len(w.state.mkskipped) <= MAX_SKIP_SESSION
               /\ Sound(w.state) /\ Spent(w.state, U \cup {w.mk})
<1> DEFINE q == s.mkskipped
           k == CHOOSE j \in SkippedAt(s, h) : TRUE
           left == RemoveAt(q, k)
           r == [s EXCEPT !.mkskipped = left]
<1>1. q \in Seq(SkippedEntry) /\ s.ckr \in ChainKey
    BY DEF RatchetState
<1>2. k \in DOMAIN q
    BY DEF SkippedAt
<1>3. TakeSkipped(s, h) = [mk |-> q[k].mk, state |-> r]
    BY DEF TakeSkipped
<1> HIDE DEF k
<1>4. /\ left \in Seq(SkippedEntry)
      /\ Len(left) = Len(q) - 1
      /\ \A i \in DOMAIN left : i \in Int /\ left[i] = IF i < k THEN q[i] ELSE q[i + 1]
    <2>1. k \in 1 .. Len(q) BY <1>1, <1>2
    <2>. QED BY <1>1, <2>1, RemoveAtFields
<1> DEFINE at(i) == IF i < k THEN i ELSE i + 1
<1>5. \A i \in DOMAIN left : /\ at(i) \in DOMAIN q
                             /\ at(i) # k
                             /\ left[i] = q[at(i)]
    <2>1. DOMAIN left = 1 .. Len(q) - 1 /\ DOMAIN q = 1 .. Len(q) /\ Len(q) \in Nat
        BY <1>1, <1>4
    <2>2. k \in Int BY <1>2, <2>1
    <2>. QED BY <1>4, <2>1, <2>2
<1>6. \A i, j \in DOMAIN left : at(i) = at(j) => i = j
    <2>1. k \in Int BY <1>1, <1>2
    <2>. QED BY <1>4, <2>1
<1> HIDE DEF left, at
<1>7. /\ r \in RatchetState /\ r.mkskipped = left
      /\ r.ckr = s.ckr /\ r.rk = s.rk
    BY <1>4 DEF RatchetState
<1> HIDE DEF r
<1>8. q[k].mk \in MessageKey \ U /\ Behind(q[k].mk, s.ckr)
    <2>1. q[k] \in SkippedEntry BY <1>1, <1>2
    <2>. QED BY <2>1, <1>2 DEF SkippedEntry, Spent, KeysOutside, Sound, KeysBehind
<1>9. KeysBehind(left, s.ckr) /\ KeysDistinct(left)
    BY <1>5, <1>6 DEF Sound, KeysBehind, KeysDistinct
<1>10. KeysOutside(left, U \cup {q[k].mk})
    BY <1>2, <1>5 DEF Spent, Sound, KeysOutside, KeysDistinct
<1>11. Len(left) <= MAX_SKIP_SESSION
    BY <1>1, <1>4, SkipAssumption
<1>. QED BY <1>3, <1>7, <1>8, <1>9, <1>10, <1>11 DEF Sound, Spent

\* A successful ratchet_decrypt uses an unspent key and spends it for good.
LEMMA DecryptKeeps ==
    ASSUME NEW s \in RatchetState, NEW h \in Header, NEW mk, NEW fresh \in Key,
           NEW U \in SUBSET MessageKey, Sound(s), Spent(s, U),
           Len(s.mkskipped) <= MAX_SKIP_SESSION, Opens(s, h, mk, fresh)
    PROVE  LET r == ratchet_decrypt(s, h, mk, fresh)
           IN  /\ mk \in MessageKey \ U
               /\ r \in RatchetState
               /\ Len(r.mkskipped) <= MAX_SKIP_SESSION
               /\ Sound(r) /\ Spent(r, U \cup {mk})
<1>1. /\ _ratchet_decrypt_into(s, h, fresh).mk = mk
      /\ ratchet_decrypt(s, h, mk, fresh) = _ratchet_decrypt_into(s, h, fresh).state
    BY DEF Opens, ratchet_decrypt
<1>2. CASE SkippedAt(s, h) # {}
    <2> DEFINE w == TakeSkipped(s, h)
    <2>1. /\ w.mk \in MessageKey \ U
          /\ w.state \in RatchetState
          /\ Len(w.state.mkskipped) <= MAX_SKIP_SESSION
          /\ Sound(w.state) /\ Spent(w.state, U \cup {w.mk})
        BY <1>2, TakeKeeps
    <2>2. w = _ratchet_decrypt_into(s, h, fresh)
        BY <1>2 DEF _ratchet_decrypt_into
    <2> HIDE DEF w
    <2>. QED BY <1>1, <2>1, <2>2
<1>3. CASE SkippedAt(s, h) = {}
    <2> DEFINE w == WalkChain(s, h, fresh)
    <2>1. /\ w.mk \in MessageKey \ U
          /\ w.state \in RatchetState
          /\ Len(w.state.mkskipped) <= MAX_SKIP_SESSION
          /\ Sound(w.state) /\ Spent(w.state, U \cup {w.mk})
        BY <1>3, WalkKeeps
    <2>2. w = _ratchet_decrypt_into(s, h, fresh)
        BY <1>3 DEF _ratchet_decrypt_into
    <2> HIDE DEF w
    <2>. QED BY <1>1, <2>1, <2>2
<1>. QED BY <1>2, <1>3

-----------------------------------------------------------------------------
(* The sending side of a state: its chain hangs off its newest root.       *)

\* Skipping does not touch the sending side.
LEMMA SkipSends ==
    ASSUME NEW s \in RatchetState, NEW until \in Nat
    PROVE  /\ _skip_message_keys(s, until).rk = s.rk
           /\ _skip_message_keys(s, until).cks = s.cks
BY DEF _skip_message_keys, RatchetState

\* ratchet_decrypt leaves the sending chain alone or replaces it by one off a longer root.
LEMMA DecryptSends ==
    ASSUME NEW s \in RatchetState, NEW h \in Header, NEW mk, NEW fresh \in Key,
           Len(s.mkskipped) <= MAX_SKIP_SESSION
    PROVE  LET r == ratchet_decrypt(s, h, mk, fresh)
           IN  \/ r.rk = s.rk /\ r.cks = s.cks
               \/ Len(r.rk) = Len(s.rk) + 2 /\ r.cks = ChainOf(r.rk)
<1> DEFINE Kept(r) == \/ r.rk = s.rk /\ r.cks = s.cks
                      \/ Len(r.rk) = Len(s.rk) + 2 /\ r.cks = ChainOf(r.rk)
           c == OnChainOf(s, h, fresh)
           at == _skip_message_keys(c, h.n)
           walked == [at EXCEPT !.ckr = kdf_ck(@, 1), !.nr = @ + 1]
<1>1. h.pn \in Nat /\ h.n \in Nat /\ h.dh \in Key
    BY DEF Header
<1>2. Kept(c) /\ c \in RatchetState /\ Len(c.mkskipped) <= MAX_SKIP_SESSION
    <2>1. CASE h.dh = s.dhr
        BY <2>1 DEF OnChainOf
    <2>2. CASE h.dh # s.dhr
        <3> DEFINE t == _skip_message_keys(s, h.pn)
        <3>1. t \in RatchetState /\ t.rk = s.rk /\ Len(t.mkskipped) <= MAX_SKIP_SESSION
            BY <1>1, SkipTyped, SkipSends
        <3> HIDE DEF t
        <3>2. /\ _dh_ratchet(t, h.dh, fresh) \in RatchetState
              /\ _dh_ratchet(t, h.dh, fresh).mkskipped = t.mkskipped
              /\ Len(_dh_ratchet(t, h.dh, fresh).rk) = Len(t.rk) + 2
              /\ _dh_ratchet(t, h.dh, fresh).cks = ChainOf(_dh_ratchet(t, h.dh, fresh).rk)
            BY <1>1, <3>1, DhRatchetFields
        <3>3. c = _dh_ratchet(t, h.dh, fresh)
            BY <2>2 DEF OnChainOf, t
        <3>. QED BY <3>1, <3>2, <3>3
    <2>. QED BY <2>1, <2>2
<1> HIDE DEF c
<1>3. at \in RatchetState /\ at.rk = c.rk /\ at.cks = c.cks
    BY <1>1, <1>2, SkipTyped, SkipSends
<1>4. WalkChain(s, h, fresh).state = walked
    BY DEF WalkChain, c
<1> HIDE DEF at
<1>5. walked.rk = at.rk /\ walked.cks = at.cks
    BY <1>3 DEF RatchetState
<1>6. Kept(WalkChain(s, h, fresh).state)
    BY <1>2, <1>3, <1>4, <1>5
<1>7. Kept(TakeSkipped(s, h).state)
    BY DEF TakeSkipped, RatchetState
<1>8. Kept(_ratchet_decrypt_into(s, h, fresh).state)
    BY <1>6, <1>7 DEF _ratchet_decrypt_into
<1>9. Kept(s)
    OBVIOUS
<1>. QED BY <1>8, <1>9 DEF ratchet_decrypt

\* A DH step mixes two secrets into the root, and the receiving chain is off the first.
LEMMA DhRatchetRoots ==
    ASSUME NEW s \in RatchetState, NEW dh \in Key, NEW fresh \in Key
    PROVE  LET r == _dh_ratchet(s, dh, fresh)
           IN  /\ \E x \in SUBSET Key : r.ckr.root = Append(s.rk, x)
               /\ \E y \in SUBSET Key : r.rk = Append(r.ckr.root, y)
<1> DEFINE x == x25519_shared(s.dhs, dh)
           y == x25519_shared(fresh, dh)
           rkR == kdf_rk(s.rk, x)
           rkS == kdf_rk(rkR, y)
           r == _dh_ratchet(s, dh, fresh)
<1>1. x \in SUBSET Key /\ y \in SUBSET Key
    BY DEF x25519_shared, RatchetState
<1>2. r = [s EXCEPT !.pn = s.ns, !.ns = 0, !.nr = 0,
                    !.dhr = dh, !.dhs = fresh, !.rk = rkS,
                    !.ckr = ChainOf(rkR), !.cks = ChainOf(rkS)]
    BY DEF _dh_ratchet
<1> HIDE DEF r
<1>3. rkR = Append(s.rk, x) /\ rkS = Append(rkR, y)
    BY DEF kdf_rk
<1> HIDE DEF x, y, rkR, rkS
<1>4. r.rk = rkS /\ r.ckr = ChainOf(rkR) /\ ChainOf(rkR).root = rkR
    BY <1>2 DEF RatchetState, ChainOf
<1>. QED BY <1>1, <1>3, <1>4 DEF r

\* Storing skipped keys stays on the receiving chain.
LEMMA SkipStays ==
    ASSUME NEW s \in RatchetState, NEW until \in Nat
    PROVE  _skip_message_keys(s, until).ckr.root = s.ckr.root
<1>1. CASE s.ckr = NoChain \/ until <= s.nr
    BY <1>1 DEF _skip_message_keys
<1>2. CASE ~(s.ckr = NoChain \/ until <= s.nr)
    <2>1. _skip_message_keys(s, until).ckr = kdf_ck(s.ckr, until - s.nr)
        BY <1>2 DEF _skip_message_keys, RatchetState
    <2>2. s.ckr \in ChainKey /\ until - s.nr \in Nat
        BY <1>2 DEF RatchetState
    <2>. QED BY <2>1, <2>2, KdfTyped
<1>. QED BY <1>1, <1>2

\* ratchet_decrypt moves the root only to open a message sealed off the next root
\* but one, and goes one further.
LEMMA DecryptRoots ==
    ASSUME NEW s \in RatchetState, NEW h \in Header, NEW mk, NEW fresh \in Key,
           Len(s.mkskipped) <= MAX_SKIP_SESSION
    PROVE  LET r == ratchet_decrypt(s, h, mk, fresh)
           IN  \/ r.rk = s.rk
               \/ /\ \E x \in SUBSET Key : mk.root = Append(s.rk, x)
                  /\ \E y \in SUBSET Key : r.rk = Append(mk.root, y)
<1> DEFINE c == OnChainOf(s, h, fresh)
           at == _skip_message_keys(c, h.n)
           walked == [at EXCEPT !.ckr = kdf_ck(@, 1), !.nr = @ + 1]
           Moved(r, root) == /\ \E x \in SUBSET Key : root = Append(s.rk, x)
                             /\ \E y \in SUBSET Key : r.rk = Append(root, y)
           w == WalkChain(s, h, fresh)
<1>1. h.pn \in Nat /\ h.n \in Nat /\ h.dh \in Key
    BY DEF Header
<1>2. /\ c \in RatchetState /\ Len(c.mkskipped) <= MAX_SKIP_SESSION
      /\ c.rk = s.rk \/ Moved(c, c.ckr.root)
    <2>1. CASE h.dh = s.dhr
        BY <2>1 DEF OnChainOf
    <2>2. CASE h.dh # s.dhr
        <3> DEFINE t == _skip_message_keys(s, h.pn)
        <3>1. t \in RatchetState /\ t.rk = s.rk /\ Len(t.mkskipped) <= MAX_SKIP_SESSION
            BY <1>1, SkipTyped, SkipSends
        <3> HIDE DEF t
        <3> DEFINE d == _dh_ratchet(t, h.dh, fresh)
        <3>2. /\ d \in RatchetState /\ d.mkskipped = t.mkskipped
              /\ \E x \in SUBSET Key : d.ckr.root = Append(t.rk, x)
              /\ \E y \in SUBSET Key : d.rk = Append(d.ckr.root, y)
            BY <1>1, <3>1, DhRatchetFields, DhRatchetRoots
        <3>3. c = d
            BY <2>2 DEF OnChainOf, t
        <3> HIDE DEF d, c
        <3>. QED BY <3>1, <3>2, <3>3
    <2>. QED BY <2>1, <2>2
<1> HIDE DEF c
<1>3. at \in RatchetState /\ at.rk = c.rk /\ at.ckr.root = c.ckr.root
    BY <1>1, <1>2, SkipTyped, SkipSends, SkipStays
<1>4. w.state = walked /\ w.mk = at.ckr
    BY DEF WalkChain, c
<1> HIDE DEF at
<1>5. walked.rk = at.rk
    BY <1>3 DEF RatchetState
<1> HIDE DEF walked, w
<1>6. w.state.rk = s.rk \/ Moved(w.state, w.mk.root)
    BY <1>2, <1>3, <1>4, <1>5
<1>7. TakeSkipped(s, h).state.rk = s.rk
    BY DEF TakeSkipped, RatchetState
<1>8. CASE Opens(s, h, mk, fresh)
    <2> DEFINE i == _ratchet_decrypt_into(s, h, fresh)
    <2>1. i.mk = mk /\ ratchet_decrypt(s, h, mk, fresh) = i.state
        BY <1>8 DEF Opens, ratchet_decrypt
    <2>2. i = TakeSkipped(s, h) \/ i = w
        BY DEF _ratchet_decrypt_into, w
    <2> HIDE DEF i
    <2>. QED BY <1>6, <1>7, <2>1, <2>2
<1>9. CASE ~Opens(s, h, mk, fresh)
    BY <1>9 DEF ratchet_decrypt
<1>. QED BY <1>8, <1>9

\* What ratchet_encrypt writes.
LEMMA EncryptFields ==
    ASSUME NEW s \in RatchetState
    PROVE  LET r == ratchet_encrypt(s)
           IN  /\ r \in RatchetState
               /\ r.cks = kdf_ck(s.cks, 1) /\ r.rk = s.rk
               /\ r.ckr = s.ckr /\ r.mkskipped = s.mkskipped
<1> DEFINE ck == kdf_ck(s.cks, 1)
           n == s.ns + 1
<1>1. s.cks \in ChainKey /\ n \in Nat
    BY DEF RatchetState
<1>2. ck \in ChainKey
    BY <1>1, KdfTyped
<1>3. ratchet_encrypt(s) = [s EXCEPT !.cks = ck, !.ns = n]
    BY DEF ratchet_encrypt
<1> HIDE DEF ck, n
<1>4. ratchet_encrypt(s) \in RatchetState
    BY <1>1, <1>2, <1>3 DEF RatchetState
<1>5. /\ ratchet_encrypt(s).cks = ck /\ ratchet_encrypt(s).rk = s.rk
      /\ ratchet_encrypt(s).ckr = s.ckr /\ ratchet_encrypt(s).mkskipped = s.mkskipped
    BY <1>3 DEF RatchetState
<1>. QED BY <1>4, <1>5 DEF ck

\* ratchet_decrypt, opened or refused, keeps a state well typed and its store within
\* the limit.
LEMMA DecryptTyped ==
    ASSUME NEW s \in RatchetState, NEW h \in Header, NEW mk, NEW fresh \in Key,
           Len(s.mkskipped) <= MAX_SKIP_SESSION
    PROVE  LET r == ratchet_decrypt(s, h, mk, fresh)
           IN  r \in RatchetState /\ Len(r.mkskipped) <= MAX_SKIP_SESSION
<1> DEFINE Fine(r) == r \in RatchetState /\ Len(r.mkskipped) <= MAX_SKIP_SESSION
           c == OnChainOf(s, h, fresh)
           at == _skip_message_keys(c, h.n)
           walked == [at EXCEPT !.ckr = kdf_ck(@, 1), !.nr = @ + 1]
<1>1. h.pn \in Nat /\ h.n \in Nat /\ h.dh \in Key
    BY DEF Header
<1>2. Fine(c)
    <2>1. CASE h.dh = s.dhr
        BY <2>1 DEF OnChainOf
    <2>2. CASE h.dh # s.dhr
        <3> DEFINE t == _skip_message_keys(s, h.pn)
        <3>1. t \in RatchetState /\ Len(t.mkskipped) <= MAX_SKIP_SESSION
            BY <1>1, SkipTyped
        <3> HIDE DEF t
        <3>2. /\ _dh_ratchet(t, h.dh, fresh) \in RatchetState
              /\ _dh_ratchet(t, h.dh, fresh).mkskipped = t.mkskipped
            BY <1>1, <3>1, DhRatchetFields
        <3>3. c = _dh_ratchet(t, h.dh, fresh)
            BY <2>2 DEF OnChainOf, t
        <3>. QED BY <3>1, <3>2, <3>3
    <2>. QED BY <2>1, <2>2
<1> HIDE DEF c
<1>3. Fine(at)
    BY <1>1, <1>2, SkipTyped
<1>4. WalkChain(s, h, fresh).state = walked
    BY DEF WalkChain, c
<1> HIDE DEF at
<1>5. at.ckr \in ChainKey /\ at.nr + 1 \in Nat
    BY <1>3 DEF RatchetState
<1>6. kdf_ck(at.ckr, 1) \in ChainKey
    BY <1>5, KdfTyped
<1>7. Fine(walked)
    BY <1>3, <1>5, <1>6 DEF RatchetState
<1>8. ASSUME SkippedAt(s, h) # {} PROVE Fine(TakeSkipped(s, h).state)
    <2> DEFINE k == CHOOSE j \in SkippedAt(s, h) : TRUE
               left == RemoveAt(s.mkskipped, k)
    <2>1. s.mkskipped \in Seq(SkippedEntry)
        BY DEF RatchetState
    <2>2. k \in 1 .. Len(s.mkskipped)
        BY <1>8, <2>1 DEF SkippedAt
    <2>3. TakeSkipped(s, h).state = [s EXCEPT !.mkskipped = left]
        BY DEF TakeSkipped
    <2> HIDE DEF k
    <2>4. left \in Seq(SkippedEntry) /\ Len(left) = Len(s.mkskipped) - 1
        BY <2>1, <2>2, RemoveAtFields
    <2>5. Len(left) <= MAX_SKIP_SESSION
        BY <2>1, <2>4, SkipAssumption
    <2> HIDE DEF left
    <2>. QED BY <2>3, <2>4, <2>5 DEF RatchetState
<1>9. Fine(s)
    OBVIOUS
<1>. QED BY <1>4, <1>7, <1>8, <1>9 DEF ratchet_decrypt, _ratchet_decrypt_into, Opens

\* The states a handshake seeds are well typed, with an empty store.
LEMMA SeedTyped ==
    ASSUME NEW sk \in Key, NEW a \in Key, NEW b \in Key
    PROVE  /\ ratchet_init_alice(sk, a, b) \in RatchetState
           /\ ratchet_init_alice(sk, a, b).mkskipped = <<>>
           /\ ratchet_init_bob(sk, b) \in RatchetState
           /\ ratchet_init_bob(sk, b).mkskipped = <<>>
<1>1. <<{sk}>> \in Root /\ NoChain \in ChainKey
    BY DEF Root, NoChain, ChainKey, Key
<1>2. \A rk \in Root : ChainOf(rk) \in ChainKey
    BY DEF ChainOf, ChainKey
<1>3. kdf_rk(<<{sk}>>, x25519_shared(a, b)) \in Root
    BY <1>1, RootTyped
<1>4. <<>> \in Seq(SkippedEntry)
    OBVIOUS
<1>5. /\ ratchet_init_alice(sk, a, b) \in RatchetState
      /\ ratchet_init_alice(sk, a, b).mkskipped = <<>>
    BY <1>1, <1>2, <1>3, <1>4 DEF ratchet_init_alice, RatchetState, Key
<1>6. ratchet_init_bob(sk, b) \in RatchetState /\ ratchet_init_bob(sk, b).mkskipped = <<>>
    BY <1>1, <1>4 DEF ratchet_init_bob, RatchetState, NoKey, Key
<1>. QED BY <1>5, <1>6

-----------------------------------------------------------------------------
(* Roots that go on from one another: how far apart the two sides are.     *)

\* t is s, or went on from it.
Within(s, t) == Len(s) <= Len(t) /\ \A i \in 1 .. Len(s) : s[i] = t[i]

\* One of the two is the other and one step more.
InStep(s, t) == (Within(s, t) \/ Within(t, s)) /\ Len(s) - Len(t) \in {-1, 1}

\* Within, by places, is IsPrefix of the community modules.
LEMMA WithinIsPrefix ==
    ASSUME NEW s \in Root, NEW t \in Root
    PROVE  IsPrefix(s, t) <=> Within(s, t)
<1>1. /\ Len(s) \in Nat /\ Len(t) \in Nat /\ s = SubSeq(s, 1, Len(s))
      /\ s = [i \in 1 .. Len(s) |-> s[i]]
    BY DEF Root
<1>2. CASE Len(s) <= Len(t)
    <2> DEFINE u == SubSeq(t, 1, Len(s))
    <2>1. u = [i \in 1 .. Len(s) |-> t[i]]
        BY <1>1, <1>2 DEF Root
    <2>2. s = u <=> \A i \in 1 .. Len(s) : s[i] = t[i]
        BY <1>1, <2>1
    <2>. QED BY <1>1, <1>2, <2>2 DEF IsPrefix, Within
<1>3. CASE ~(Len(s) <= Len(t))
    BY <1>3 DEF IsPrefix, Within
<1>. QED BY <1>2, <1>3

\* One step of the root goes on from it.
LEMMA AppendIsOn ==
    ASSUME NEW s \in Root, NEW x \in SUBSET Key
    PROVE  /\ Append(s, x) \in Root /\ Len(Append(s, x)) = Len(s) + 1 /\ Len(s) \in Nat
           /\ Within(s, Append(s, x))
BY DEF Root, Within

\* Going on twice is going on.
LEMMA WithinOn ==
    ASSUME NEW s \in Root, NEW t \in Root, NEW u \in Root, Within(s, t), Within(t, u)
    PROVE  Within(s, u)
<1>1. Len(s) \in Nat /\ Len(t) \in Nat /\ Len(u) \in Nat
    BY DEF Root
<1>. QED BY <1>1 DEF Within

\* Of one length, there is only one way to go on.
LEMMA WithinLong ==
    ASSUME NEW s \in Root, NEW t \in Root, Within(s, t), Len(s) = Len(t)
    PROVE  s = t
<1>1. s = [i \in 1 .. Len(s) |-> s[i]] /\ t = [i \in 1 .. Len(t) |-> t[i]]
    BY DEF Root
<1>. QED BY <1>1 DEF Within

\* It does not matter which of the two is named first.
LEMMA InStepTurns ==
    ASSUME NEW s \in Root, NEW t \in Root
    PROVE  InStep(s, t) <=> InStep(t, s)
<1>1. Len(s) \in Nat /\ Len(t) \in Nat
    BY DEF Root
<1>. QED BY <1>1 DEF InStep

\* The one of the two that opens a message sealed off the next root goes past the
\* other, whose root that was.
LEMMA StepPast ==
    ASSUME NEW mine \in Root, NEW theirs \in Root, NEW root \in Root, NEW r \in Root,
           InStep(mine, theirs), Within(root, theirs),
           \E x \in SUBSET Key : root = Append(mine, x),
           \E y \in SUBSET Key : r = Append(root, y)
    PROVE  InStep(r, theirs) /\ Within(mine, r)
<1>1. /\ Len(mine) \in Nat /\ Len(theirs) \in Nat /\ Len(root) = Len(mine) + 1
      /\ Within(mine, root)
    BY AppendIsOn DEF Root
<1>2. Len(mine) - Len(theirs) \in {-1, 1} /\ Len(root) <= Len(theirs)
    BY DEF InStep, Within
<1>3. root = theirs
    <2>1. Len(root) = Len(theirs)
        BY ONLY <1>1, <1>2
    <2>. QED BY <2>1, WithinLong
<1>4. Len(r) = Len(theirs) + 1 /\ Within(theirs, r)
    BY <1>3, AppendIsOn
<1>5. Within(mine, r)
    BY <1>1, <1>3, <1>4, WithinOn
<1>. QED BY <1>1, <1>4, <1>5 DEF InStep

\* What a state seals comes off its root or an earlier one, also after it has sealed
\* or opened.
LEMMA SealsOffItsRoot ==
    ASSUME NEW s \in RatchetState, Within(s.cks.root, s.rk)
    PROVE  /\ Within(ratchet_encrypt(s).cks.root, ratchet_encrypt(s).rk)
           /\ \A h \in Header, mk \in MessageKey, fresh \in Key :
                 Len(s.mkskipped) <= MAX_SKIP_SESSION
                 => LET r == ratchet_decrypt(s, h, mk, fresh) IN Within(r.cks.root, r.rk)
<1>1. s.cks \in ChainKey
    BY DEF RatchetState
<1>2. ratchet_encrypt(s).cks.root = s.cks.root /\ ratchet_encrypt(s).rk = s.rk
    BY <1>1, EncryptFields, KdfTyped
<1>3. ASSUME NEW h \in Header, NEW mk \in MessageKey, NEW fresh \in Key,
             Len(s.mkskipped) <= MAX_SKIP_SESSION
      PROVE  LET r == ratchet_decrypt(s, h, mk, fresh) IN Within(r.cks.root, r.rk)
    <2> DEFINE r == ratchet_decrypt(s, h, mk, fresh)
    <2>0. r \in RatchetState
        BY <1>3, DecryptTyped
    <2>1. (r.rk = s.rk /\ r.cks = s.cks) \/ r.cks = ChainOf(r.rk)
        BY <1>3, DecryptSends
    <2> HIDE DEF r
    <2>2. r.rk \in Root
        BY <2>0 DEF RatchetState
    <2>3. Within(r.rk, r.rk) /\ ChainOf(r.rk).root = r.rk
        BY <2>2 DEF Within, Root, ChainOf
    <2>4. Within(r.cks.root, r.rk)
        BY <2>1, <2>2, <2>3
    <2>. QED BY <2>4 DEF r
<1>. QED BY <1>2, <1>3

\* The two states a handshake seeds are a step apart, and neither seals off another root.
LEMMA SeedRoots ==
    ASSUME NEW sk \in Key, NEW a \in Key, NEW b \in Key
    PROVE  LET alice == ratchet_init_alice(sk, a, b)
               bob   == ratchet_init_bob(sk, b)
           IN  /\ InStep(alice.rk, bob.rk) /\ InStep(bob.rk, alice.rk)
               /\ Within(alice.cks.root, alice.rk) /\ Within(bob.cks.root, bob.rk)
<1> DEFINE r == <<{sk}>>
           x == x25519_shared(a, b)
<1>1. /\ ratchet_init_bob(sk, b).rk = r /\ ratchet_init_bob(sk, b).cks.root = <<>>
      /\ ratchet_init_alice(sk, a, b).rk = Append(r, x)
      /\ ratchet_init_alice(sk, a, b).cks.root = Append(r, x)
    BY DEF ratchet_init_alice, ratchet_init_bob, kdf_rk, ChainOf, NoChain
<1>2. r \in Root /\ x \in SUBSET Key
    BY DEF Root, Key, x25519_shared
<1> HIDE DEF r, x
<1>3. /\ Append(r, x) \in Root /\ Len(Append(r, x)) = Len(r) + 1 /\ Len(r) \in Nat
      /\ Within(r, Append(r, x))
    BY <1>2, AppendIsOn
<1>4. Within(Append(r, x), Append(r, x)) /\ Within(<<>>, r)
    BY <1>2, <1>3 DEF Within, Root
<1>. QED BY <1>1, <1>3, <1>4 DEF InStep

-----------------------------------------------------------------------------
(* What the operators write, field by field.                               *)

\* What skipping reads and writes, when it stores something.
LEMMA SkipFields ==
    ASSUME NEW s \in RatchetState, NEW until \in Nat, s.ckr # NoChain, ~(until <= s.nr)
    PROVE  LET r == _skip_message_keys(s, until)
           IN  /\ r.ckr = kdf_ck(s.ckr, until - s.nr) /\ r.nr = until
               /\ r.mkskipped = Newest(s.mkskipped \o SkippedOnTheWay(s, until))
               /\ r.dhr = s.dhr /\ r.dhs = s.dhs /\ r.rk = s.rk /\ r.cks = s.cks
               /\ r.ns = s.ns /\ r.pn = s.pn
<1> DEFINE ck == kdf_ck(s.ckr, until - s.nr)
           q == Newest(s.mkskipped \o SkippedOnTheWay(s, until))
<1>1. _skip_message_keys(s, until) = [s EXCEPT !.ckr = ck, !.nr = until, !.mkskipped = q]
    BY DEF _skip_message_keys
<1> HIDE DEF ck, q
<1>2. LET r == _skip_message_keys(s, until)
      IN  /\ r.ckr = ck /\ r.nr = until /\ r.mkskipped = q
          /\ r.dhr = s.dhr /\ r.dhs = s.dhs /\ r.rk = s.rk /\ r.cks = s.cks
          /\ r.ns = s.ns /\ r.pn = s.pn
    BY <1>1 DEF RatchetState
<1>. QED BY <1>2 DEF ck, q

\* What _dh_ratchet writes, in full.
LEMMA DhRatchetSets ==
    ASSUME NEW s \in RatchetState, NEW dh \in Key, NEW fresh \in Key
    PROVE  LET r == _dh_ratchet(s, dh, fresh)
               root == Append(s.rk, x25519_shared(s.dhs, dh))
           IN  /\ r.dhr = dh /\ r.dhs = fresh /\ r.pn = s.ns /\ r.ns = 0 /\ r.nr = 0
               /\ r.ckr = ChainOf(root) /\ r.rk = Append(root, x25519_shared(fresh, dh)) /\ r.cks = ChainOf(r.rk)
               /\ r.mkskipped = s.mkskipped
<1> DEFINE rkR == Append(s.rk, x25519_shared(s.dhs, dh))
           rkS == Append(rkR, x25519_shared(fresh, dh))
           a == ChainOf(rkR)
           b == ChainOf(rkS)
           r == _dh_ratchet(s, dh, fresh)
<1>1. r = [s EXCEPT !.pn = s.ns, !.ns = 0, !.nr = 0, !.dhr = dh, !.dhs = fresh, !.rk = rkS,
                    !.ckr = a, !.cks = b]
    BY DEF _dh_ratchet, kdf_rk
<1> HIDE DEF a, b, rkS, r
<1>2. /\ r.dhr = dh /\ r.dhs = fresh /\ r.pn = s.ns /\ r.ns = 0 /\ r.nr = 0
      /\ r.ckr = a /\ r.rk = rkS /\ r.cks = b /\ r.mkskipped = s.mkskipped
    BY <1>1 DEF RatchetState
<1>. QED BY <1>2 DEF r, a, b, rkS

\* What sealing writes, in full.
LEMMA EncryptSets ==
    ASSUME NEW s \in RatchetState
    PROVE  LET r == ratchet_encrypt(s)
           IN  /\ r.cks = kdf_ck(s.cks, 1) /\ r.ns = s.ns + 1
               /\ r.rk = s.rk /\ r.pn = s.pn /\ r.dhs = s.dhs /\ r.dhr = s.dhr
               /\ r.ckr = s.ckr /\ r.nr = s.nr /\ r.mkskipped = s.mkskipped
<1> DEFINE ck == kdf_ck(s.cks, 1)
           n == s.ns + 1
<1>1. ratchet_encrypt(s) = [s EXCEPT !.cks = ck, !.ns = n]
    BY DEF ratchet_encrypt
<1> HIDE DEF ck, n
<1>2. LET r == ratchet_encrypt(s)
      IN  /\ r.cks = ck /\ r.ns = n
          /\ r.rk = s.rk /\ r.pn = s.pn /\ r.dhs = s.dhs /\ r.dhr = s.dhr
          /\ r.ckr = s.ckr /\ r.nr = s.nr /\ r.mkskipped = s.mkskipped
    BY <1>1 DEF RatchetState
<1>. QED BY <1>2 DEF ck, n

\* A secret is the same from both sides.
LEMMA SharedBothWays ==
    ASSUME NEW a, NEW b
    PROVE  x25519_shared(a, b) = x25519_shared(b, a)
BY DEF x25519_shared

-----------------------------------------------------------------------------
(* One message received: what the state was, what it is after.             *)

\* r sends as s does, off the same root.
SendsAs(r, s) ==
    /\ r.dhr = s.dhr /\ r.dhs = s.dhs /\ r.rk = s.rk
    /\ r.cks = s.cks /\ r.ns = s.ns /\ r.pn = s.pn

\* r went on from s to receive m and to send off a new root.
StepsOn(r, s, m, fresh) ==
    /\ m.h.dh # s.dhr /\ m.mk.root = Append(s.rk, x25519_shared(s.dhs, m.h.dh))
    /\ r.dhr = m.h.dh /\ r.dhs = fresh /\ r.rk = Append(m.mk.root, x25519_shared(fresh, m.h.dh))
    /\ r.cks = ChainOf(r.rk) /\ r.ns = 0 /\ r.pn = s.ns
\* The positions a state keeps beside its keys are those of the keys.
Numbered(s) ==
    /\ s.ckr # NoChain => s.ckr.n = s.nr
    /\ \A e \in ToSet(s.mkskipped) : e.mk.n = e.n

\* The key of a message of chain root, which the key pair dh began.
LiesOn(e, dh, root) == e.dh = dh /\ e.mk.root = root

\* The elements of what Newest keeps were there.
LEMMA NewestAmong ==
    ASSUME NEW q \in Seq(SkippedEntry), NEW w \in Seq(SkippedEntry), NEW e \in ToSet(Newest(q \o w))
    PROVE  e \in ToSet(q) \/ e \in ToSet(w)
<1> DEFINE o == q \o w
           k == Newest(o)
<1>1. /\ o \in Seq(SkippedEntry)
      /\ \A i \in DOMAIN o : \/ i \in DOMAIN q /\ o[i] = q[i]
                             \/ i - Len(q) \in DOMAIN w /\ o[i] = w[i - Len(q)]
    OBVIOUS
<1>2. \A i \in DOMAIN k : i + (Len(o) - Len(k)) \in DOMAIN o /\ k[i] = o[i + (Len(o) - Len(k))]
    BY <1>1, NewestShort
<1>3. PICK i \in DOMAIN k : e = k[i]
    BY DEF ToSet
<1> HIDE DEF o, k
<1>4. PICK j \in DOMAIN o : e = o[j]
    BY <1>2, <1>3
<1>. QED BY <1>1, <1>4 DEF ToSet

\* Skipping goes on along the receiving chain and stores only keys of it.
LEMMA SkipAdds ==
    ASSUME NEW s \in RatchetState, NEW until \in Nat, Numbered(s)
    PROVE  LET r == _skip_message_keys(s, until)
           IN  /\ SendsAs(r, s) /\ Numbered(r)
               /\ r.ckr.root = s.ckr.root /\ (r.ckr = NoChain <=> s.ckr = NoChain)
               /\ \A e \in ToSet(r.mkskipped) :
                     e \in ToSet(s.mkskipped) \/ (s.ckr # NoChain /\ LiesOn(e, s.dhr, s.ckr.root))
               /\ s.ckr # NoChain /\ s.nr <= until => r.ckr = [root |-> s.ckr.root, n |-> until]
<1> DEFINE r == _skip_message_keys(s, until)
<1>0. s.ckr \in ChainKey /\ s.nr \in Nat /\ s.mkskipped \in Seq(SkippedEntry) /\ s.dhr \in Key
    BY DEF RatchetState
<1>1. CASE s.ckr = NoChain \/ until <= s.nr
    <2>1. r = s
        BY <1>1 DEF _skip_message_keys
    <2>2. s.ckr # NoChain /\ s.nr <= until => s.ckr = [root |-> s.ckr.root, n |-> until]
        <3> SUFFICES ASSUME s.ckr # NoChain, s.nr <= until
                     PROVE  s.ckr = [root |-> s.ckr.root, n |-> until]
            OBVIOUS
        <3>1. s.ckr.n = until
            <4>1. until = s.nr
                BY <1>0, <1>1
            <4>. QED BY <4>1 DEF Numbered
        <3>. QED BY <1>0, <3>1 DEF ChainKey
    <2>. QED BY <2>1, <2>2 DEF SendsAs
<1>2. CASE s.ckr # NoChain /\ ~(until <= s.nr)
    <2> DEFINE w == SkippedOnTheWay(s, until)
    <2>1. /\ r.ckr = kdf_ck(s.ckr, until - s.nr) /\ r.nr = until
          /\ r.mkskipped = Newest(s.mkskipped \o w) /\ SendsAs(r, s)
        BY <1>2, SkipFields DEF SendsAs
    <2>2. w \in Seq(SkippedEntry)
        BY <1>2, SkippedFields
    <2>3. /\ until - s.nr \in Nat /\ s.ckr.n = s.nr /\ until # 0
        BY <1>0, <1>2 DEF Numbered
    <2>4. /\ kdf_ck(s.ckr, until - s.nr).root = s.ckr.root /\ kdf_ck(s.ckr, until - s.nr).n = until
          /\ kdf_ck(s.ckr, until - s.nr) \in ChainKey
        <3>1. /\ kdf_ck(s.ckr, until - s.nr).root = s.ckr.root
              /\ kdf_ck(s.ckr, until - s.nr).n = s.ckr.n + (until - s.nr)
              /\ kdf_ck(s.ckr, until - s.nr) \in ChainKey
            BY <1>0, <2>3, KdfTyped
        <3>. QED BY <1>0, <2>3, <3>1
    <2>5. ASSUME NEW e \in ToSet(w)
          PROVE  LiesOn(e, s.dhr, s.ckr.root) /\ e.mk.n = e.n
        <3>1. PICK i \in 1 .. (until - s.nr) :
                 e = [dh |-> s.dhr, n |-> s.nr + i - 1, mk |-> kdf_ck(s.ckr, i - 1)]
            BY <2>5 DEF ToSet, SkippedOnTheWay
        <3>2. i - 1 \in Nat /\ s.ckr.n + (i - 1) = s.nr + i - 1
            BY <1>0, <2>3
        <3>3. kdf_ck(s.ckr, i - 1).root = s.ckr.root /\ kdf_ck(s.ckr, i - 1).n = s.ckr.n + (i - 1)
            BY <1>0, <3>2, KdfTyped
        <3>. QED BY <3>1, <3>2, <3>3 DEF LiesOn
    <2> HIDE DEF r, w
    <2>6. ASSUME NEW e \in ToSet(r.mkskipped)
          PROVE  /\ e \in ToSet(s.mkskipped) \/ LiesOn(e, s.dhr, s.ckr.root)
                 /\ e.mk.n = e.n
        BY <1>0, <2>1, <2>2, <2>5, <2>6, NewestAmong DEF Numbered
    <2>7. r.ckr = [root |-> s.ckr.root, n |-> until] /\ r.ckr # NoChain
        BY <2>1, <2>3, <2>4 DEF ChainKey, NoChain
    <2>8. Numbered(r)
        BY <2>1, <2>4, <2>6 DEF Numbered
    <2>. QED BY <1>2, <2>1, <2>4, <2>6, <2>7, <2>8 DEF r
<1>. QED BY <1>1, <1>2

\* m was received by s: its key was in the store, or s walked to it, on the chain it
\* was on or on the next.
Walked(r, s, m, fresh) ==
    /\ r.ckr # NoChain /\ r.ckr.root = m.mk.root /\ r.nr = m.mk.n + 1
    /\ \/ SendsAs(r, s) /\ s.ckr # NoChain /\ m.h.dh = s.dhr /\ m.mk.root = s.ckr.root
       \/ StepsOn(r, s, m, fresh)
    /\ \A e \in ToSet(r.mkskipped) :
          \/ e \in ToSet(s.mkskipped)
          \/ s.ckr # NoChain /\ LiesOn(e, s.dhr, s.ckr.root)
          \/ LiesOn(e, m.h.dh, m.mk.root)
Taken(r, s) ==
    /\ SendsAs(r, s) /\ r.ckr = s.ckr /\ r.nr = s.nr
    /\ ToSet(r.mkskipped) \subseteq ToSet(s.mkskipped)

\* The chain a header names, before its position is looked for.
LEMMA OnChainAt ==
    ASSUME NEW s \in RatchetState, NEW h \in Header, NEW fresh \in Key, Numbered(s),
           Len(s.mkskipped) <= MAX_SKIP_SESSION
    PROVE  LET c    == OnChainOf(s, h, fresh)
               next == Append(s.rk, x25519_shared(s.dhs, h.dh))
           IN  /\ c \in RatchetState /\ Numbered(c) /\ Len(c.mkskipped) <= MAX_SKIP_SESSION
               /\ c.dhr = h.dh
               /\ h.dh = s.dhr => c = s
               /\ h.dh # s.dhr =>
                    /\ c.ckr = [root |-> next, n |-> 0] /\ c.ckr # NoChain /\ c.nr = 0
                    /\ c.dhs = fresh /\ c.rk = Append(next, x25519_shared(fresh, h.dh))
                    /\ c.cks = ChainOf(c.rk) /\ c.ns = 0 /\ c.pn = s.ns
                    /\ \A e \in ToSet(c.mkskipped) :
                          e \in ToSet(s.mkskipped) \/ (s.ckr # NoChain /\ LiesOn(e, s.dhr, s.ckr.root))
<1> DEFINE c == OnChainOf(s, h, fresh)
           next == Append(s.rk, x25519_shared(s.dhs, h.dh))
<1>0. h.pn \in Nat /\ h.dh \in Key
    BY DEF Header
<1>1. CASE h.dh = s.dhr
    BY <1>1 DEF OnChainOf
<1>2. CASE h.dh # s.dhr
    <2> DEFINE t == _skip_message_keys(s, h.pn)
               d == _dh_ratchet(t, h.dh, fresh)
    <2>1. t \in RatchetState /\ Len(t.mkskipped) <= MAX_SKIP_SESSION
        BY <1>0, SkipTyped
    <2>2. /\ SendsAs(t, s) /\ Numbered(t)
          /\ \A e \in ToSet(t.mkskipped) :
                e \in ToSet(s.mkskipped) \/ (s.ckr # NoChain /\ LiesOn(e, s.dhr, s.ckr.root))
        BY <1>0, SkipAdds
    <2>3. c = d
        BY <1>2 DEF OnChainOf
    <2> HIDE DEF c, t
    <2>4. /\ d.dhr = h.dh /\ d.dhs = fresh /\ d.pn = t.ns /\ d.ns = 0 /\ d.nr = 0
          /\ d.ckr = ChainOf(next) /\ d.rk = Append(next, x25519_shared(fresh, h.dh))
          /\ d.cks = ChainOf(d.rk) /\ d.mkskipped = t.mkskipped
        <3>1. Append(t.rk, x25519_shared(t.dhs, h.dh)) = next
            BY <2>2 DEF SendsAs
        <3>2. /\ d.dhr = h.dh /\ d.dhs = fresh /\ d.pn = t.ns /\ d.ns = 0 /\ d.nr = 0
              /\ d.ckr = ChainOf(Append(t.rk, x25519_shared(t.dhs, h.dh)))
              /\ d.rk = Append(Append(t.rk, x25519_shared(t.dhs, h.dh)), x25519_shared(fresh, h.dh))
              /\ d.cks = ChainOf(d.rk) /\ d.mkskipped = t.mkskipped
            BY <1>0, <2>1, DhRatchetSets
        <3> HIDE DEF d, next
        <3>. QED BY <3>1, <3>2
    <2>5. d \in RatchetState
        BY <1>0, <2>1, DhRatchetFields
    <2>6. next # <<>> /\ t.ns = s.ns
        <3>1. s.rk \in Root /\ x25519_shared(s.dhs, h.dh) \in SUBSET Key
            BY <1>0 DEF RatchetState, x25519_shared
        <3> HIDE DEF next
        <3>2. Len(next) = Len(s.rk) + 1 /\ Len(s.rk) \in Nat
            BY <3>1, AppendIsOn DEF next
        <3>. QED BY <2>2, <3>2 DEF SendsAs
    <2> HIDE DEF d, next
    <2>7. d.ckr = [root |-> next, n |-> 0] /\ d.ckr # NoChain
        BY <2>4, <2>6 DEF ChainOf, NoChain
    <2>8. Numbered(d)
        <3>1. d.ckr.n = d.nr
            BY <2>4, <2>7
        <3>. QED BY <2>2, <2>4, <3>1 DEF Numbered
    <2>. QED BY <1>2, <2>1, <2>2, <2>3, <2>4, <2>5, <2>6, <2>7, <2>8 DEF c, next
<1>. QED BY <1>1, <1>2

\* What walking the chain to a key leaves.
LEMMA WalkLeaves ==
    ASSUME NEW s \in RatchetState, NEW m, m.h \in Header, NEW fresh \in Key, Numbered(s),
           Len(s.mkskipped) <= MAX_SKIP_SESSION,
           WalkChain(s, m.h, fresh).mk = m.mk, m.mk # NoChain
    PROVE  LET r == WalkChain(s, m.h, fresh).state
           IN  Walked(r, s, m, fresh) /\ Numbered(r)
<1> DEFINE h == m.h
           c == OnChainOf(s, h, fresh)
           at == _skip_message_keys(c, h.n)
           r == WalkChain(s, h, fresh).state
           next == Append(s.rk, x25519_shared(s.dhs, h.dh))
<1>0. h.n \in Nat /\ h.dh \in Key
    BY DEF Header
<1>1. /\ c \in RatchetState /\ Numbered(c) /\ Len(c.mkskipped) <= MAX_SKIP_SESSION
      /\ c.dhr = h.dh
      /\ h.dh = s.dhr => c = s
      /\ h.dh # s.dhr =>
           /\ c.ckr = [root |-> next, n |-> 0] /\ c.ckr # NoChain /\ c.nr = 0
           /\ c.dhs = fresh /\ c.rk = Append(next, x25519_shared(fresh, h.dh))
           /\ c.cks = ChainOf(c.rk) /\ c.ns = 0 /\ c.pn = s.ns
           /\ \A e \in ToSet(c.mkskipped) :
                 e \in ToSet(s.mkskipped) \/ (s.ckr # NoChain /\ LiesOn(e, s.dhr, s.ckr.root))
    BY OnChainAt
<1> HIDE DEF c
<1>2. /\ at \in RatchetState /\ SendsAs(at, c) /\ Numbered(at)
      /\ at.ckr.root = c.ckr.root /\ (at.ckr = NoChain <=> c.ckr = NoChain)
      /\ \A e \in ToSet(at.mkskipped) :
            e \in ToSet(c.mkskipped) \/ (c.ckr # NoChain /\ LiesOn(e, c.dhr, c.ckr.root))
    BY <1>0, <1>1, SkipTyped, SkipAdds
<1>3. WalkChain(s, h, fresh) = [mk |-> at.ckr, state |-> [at EXCEPT !.ckr = kdf_ck(@, 1), !.nr = @ + 1]]
    BY DEF WalkChain, c
<1> HIDE DEF at
<1>4. at.ckr = m.mk /\ at.ckr # NoChain /\ at.ckr \in ChainKey /\ at.nr \in Nat /\ at.ckr.n = at.nr
    BY <1>2, <1>3 DEF RatchetState, Numbered
<1>5. kdf_ck(at.ckr, 1).root = at.ckr.root /\ kdf_ck(at.ckr, 1).n = at.ckr.n + 1
    BY <1>4, KdfTyped
<1>6. /\ r.ckr = kdf_ck(at.ckr, 1) /\ r.nr = at.nr + 1 /\ r.mkskipped = at.mkskipped /\ SendsAs(r, at)
    <2> DEFINE ck == kdf_ck(at.ckr, 1)
               n == at.nr + 1
    <2>1. r = [at EXCEPT !.ckr = ck, !.nr = n]
        BY <1>3
    <2> HIDE DEF r, ck, n
    <2>2. r.ckr = ck /\ r.nr = n /\ r.mkskipped = at.mkskipped /\ SendsAs(r, at)
        BY <1>2, <2>1 DEF RatchetState, SendsAs
    <2>. QED BY <2>2 DEF ck, n
<1> HIDE DEF r
<1>7. r.ckr.root = m.mk.root /\ r.nr = m.mk.n + 1 /\ r.ckr.n = r.nr /\ r.ckr # NoChain
    <2>1. r.ckr.n = at.nr + 1
        BY <1>4, <1>5, <1>6
    <2>2. r.ckr.n # 0
        BY <1>4, <2>1
    <2>. QED BY <1>4, <1>5, <1>6, <2>1, <2>2 DEF NoChain
<1>8. Numbered(r)
    BY <1>2, <1>6, <1>7 DEF Numbered
<1>9. c.ckr # NoChain /\ c.ckr.root = m.mk.root
    BY <1>2, <1>4
<1>10. SendsAs(r, c)
    BY <1>2, <1>6 DEF SendsAs
<1> HIDE DEF next
<1>11. CASE h.dh = s.dhr
    <2>1. SendsAs(r, s) /\ s.ckr # NoChain /\ s.dhr = h.dh /\ s.ckr.root = m.mk.root
        BY <1>1, <1>9, <1>10, <1>11
    <2>. QED BY <1>1, <1>2, <1>6, <1>7, <1>8, <1>11, <2>1 DEF Walked, LiesOn, r
<1>12. CASE h.dh # s.dhr
    <2>1. c.ckr.root = next
        BY <1>1, <1>12
    <2>2. StepsOn(r, s, m, fresh)
        BY <1>1, <1>9, <1>10, <1>12, <2>1 DEF StepsOn, SendsAs, next
    <2>3. ASSUME NEW e \in ToSet(r.mkskipped)
          PROVE  \/ e \in ToSet(s.mkskipped) \/ (s.ckr # NoChain /\ LiesOn(e, s.dhr, s.ckr.root))
                 \/ LiesOn(e, m.h.dh, m.mk.root)
        BY <1>1, <1>2, <1>6, <1>9, <1>12, <2>3
    <2>. QED BY <1>7, <1>8, <2>2, <2>3 DEF Walked, r
<1>. QED BY <1>11, <1>12

\* What ratchet_decrypt leaves of a message it opens.
LEMMA DecryptLeaves ==
    ASSUME NEW s \in RatchetState, NEW m, m.h \in Header, NEW fresh \in Key, Numbered(s),
           Len(s.mkskipped) <= MAX_SKIP_SESSION, Opens(s, m.h, m.mk, fresh)
    PROVE  LET r == ratchet_decrypt(s, m.h, m.mk, fresh)
           IN  Numbered(r) /\ (Taken(r, s) \/ Walked(r, s, m, fresh))
<1> DEFINE into == _ratchet_decrypt_into(s, m.h, fresh)
<1>1. into.mk = m.mk /\ m.mk # NoChain /\ ratchet_decrypt(s, m.h, m.mk, fresh) = into.state
    BY DEF Opens, ratchet_decrypt
<1>2. CASE SkippedAt(s, m.h) = {}
    <2>1. into = WalkChain(s, m.h, fresh)
        BY <1>2 DEF _ratchet_decrypt_into
    <2> HIDE DEF into
    <2>2. WalkChain(s, m.h, fresh).mk = m.mk
        BY <1>1, <2>1
    <2>3. Walked(into.state, s, m, fresh) /\ Numbered(into.state)
        BY <1>1, <2>1, <2>2, WalkLeaves
    <2>. QED BY <1>1, <2>3
<1>3. CASE SkippedAt(s, m.h) # {}
    <2> DEFINE k == CHOOSE j \in SkippedAt(s, m.h) : TRUE
               left == RemoveAt(s.mkskipped, k)
               r == [s EXCEPT !.mkskipped = left]
    <2>1. s.mkskipped \in Seq(SkippedEntry) /\ k \in 1 .. Len(s.mkskipped)
        <3>1. s.mkskipped \in Seq(SkippedEntry) /\ k \in SkippedAt(s, m.h)
            BY <1>3 DEF RatchetState
        <3>. QED BY <3>1 DEF SkippedAt
    <2>2. into.state = r
        BY <1>3 DEF _ratchet_decrypt_into, TakeSkipped
    <2> HIDE DEF k, into
    <2>3. \A i \in DOMAIN left : i \in Int /\ left[i] = IF i < k THEN s.mkskipped[i] ELSE s.mkskipped[i + 1]
        BY <2>1, RemoveAtFields
    <2>4. left \in Seq(SkippedEntry) /\ Len(left) = Len(s.mkskipped) - 1
        BY <2>1, RemoveAtFields
    <2> HIDE DEF left
    <2>5. ToSet(left) \subseteq ToSet(s.mkskipped)
        <3>1. ASSUME NEW i \in DOMAIN left
              PROVE  \E j \in DOMAIN s.mkskipped : left[i] = s.mkskipped[j]
            <4>1. i \in 1 .. Len(s.mkskipped) - 1 /\ Len(s.mkskipped) \in Nat /\ k \in Int
                BY <2>1, <2>4
            <4>2. i \in DOMAIN s.mkskipped /\ i + 1 \in DOMAIN s.mkskipped
                BY <2>1, <4>1
            <4>. QED BY <2>3, <4>2
        <3>. QED BY <3>1 DEF ToSet
    <2>6. r.mkskipped = left /\ SendsAs(r, s) /\ r.ckr = s.ckr /\ r.nr = s.nr
        BY DEF RatchetState, SendsAs
    <2> HIDE DEF r
    <2>7. Numbered(r) /\ Taken(r, s)
        BY <2>5, <2>6 DEF Numbered, Taken
    <2>. QED BY <1>1, <2>2, <2>7
<1>. QED BY <1>2, <1>3

\* The key a header leads to: a stored one, or the one at its position of its chain.
LEMMA LeadsTo ==
    ASSUME NEW s \in RatchetState, NEW h \in Header, NEW fresh \in Key, Numbered(s),
           Len(s.mkskipped) <= MAX_SKIP_SESSION
    PROVE  LET k == _ratchet_decrypt_into(s, h, fresh).mk
           IN  /\ SkippedAt(s, h) # {} =>
                    \E e \in ToSet(s.mkskipped) : e.dh = h.dh /\ e.n = h.n /\ k = e.mk
               /\ SkippedAt(s, h) = {} /\ h.dh = s.dhr /\ s.ckr # NoChain /\ s.nr <= h.n
                    => k = [root |-> s.ckr.root, n |-> h.n]
               /\ SkippedAt(s, h) = {} /\ h.dh # s.dhr
                    => k = [root |-> Append(s.rk, x25519_shared(s.dhs, h.dh)), n |-> h.n]
<1> DEFINE k == _ratchet_decrypt_into(s, h, fresh).mk
           c == OnChainOf(s, h, fresh)
           next == Append(s.rk, x25519_shared(s.dhs, h.dh))
<1>0. h.n \in Nat
    BY DEF Header
<1>1. ASSUME SkippedAt(s, h) # {}
      PROVE  \E e \in ToSet(s.mkskipped) : e.dh = h.dh /\ e.n = h.n /\ k = e.mk
    <2> DEFINE j == CHOOSE i \in SkippedAt(s, h) : TRUE
    <2>1. k = s.mkskipped[j].mk
        BY <1>1 DEF _ratchet_decrypt_into, TakeSkipped
    <2>2. j \in SkippedAt(s, h)
        BY <1>1
    <2> HIDE DEF j, k
    <2>3. j \in DOMAIN s.mkskipped /\ s.mkskipped[j].dh = h.dh /\ s.mkskipped[j].n = h.n
        BY <2>2 DEF SkippedAt
    <2>. QED BY <2>1, <2>3 DEF ToSet
<1>2. ASSUME SkippedAt(s, h) = {} PROVE k = _skip_message_keys(c, h.n).ckr
    BY <1>2 DEF _ratchet_decrypt_into, WalkChain
<1>3. /\ c \in RatchetState /\ Numbered(c)
      /\ h.dh = s.dhr => c = s
      /\ h.dh # s.dhr => c.ckr = [root |-> next, n |-> 0] /\ c.ckr # NoChain /\ c.nr = 0
    BY OnChainAt
<1> HIDE DEF c, k, next
<1>4. c.ckr # NoChain /\ c.nr <= h.n => _skip_message_keys(c, h.n).ckr = [root |-> c.ckr.root, n |-> h.n]
    BY <1>0, <1>3, SkipAdds
<1>5. h.dh # s.dhr => c.ckr # NoChain /\ c.nr <= h.n /\ c.ckr.root = next
    BY <1>0, <1>3
<1>. QED BY <1>1, <1>2, <1>3, <1>4, <1>5 DEF k, next

\* No gap is too long as long as nobody counts past the limit.
LEMMA ShortGap ==
    ASSUME NEW s \in RatchetState, NEW h \in Header, NEW fresh \in Key, Numbered(s),
           Len(s.mkskipped) <= MAX_SKIP_SESSION, h.pn <= MAX_SKIP, h.n <= MAX_SKIP
    PROVE  ~GapTooLong(s, h, fresh)
<1> DEFINE c == OnChainOf(s, h, fresh)
<1>1. c \in RatchetState
    BY OnChainAt
<1> HIDE DEF c
<1>2. /\ s.nr \in Nat /\ c.nr \in Nat /\ h.n \in Nat /\ h.pn \in Nat /\ MAX_SKIP \in Nat
      /\ h.pn <= MAX_SKIP /\ h.n <= MAX_SKIP
    BY <1>1, SkipAssumption DEF RatchetState, Header
<1>3. ~(s.nr + MAX_SKIP < h.pn) /\ ~(c.nr + MAX_SKIP < h.n)
    BY ONLY <1>2
<1>. QED BY <1>3 DEF GapTooLong, TooManySkipped, c
=============================================================================
