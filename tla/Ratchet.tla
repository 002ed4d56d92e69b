------------------------------- MODULE Ratchet -------------------------------
(***************************************************************************)
(* The Double Ratchet of mys_crypto/ratchet.py as constant operators.      *)
(*                                                                         *)
(* Key material is symbolic.  A DH key pair is the number it was generated *)
(* with, and stands for its own public half; the shared secret of two key  *)
(* pairs is the pair of their numbers.  A root key is the sequence of the  *)
(* secrets mixed into it, so two root keys are equal exactly when kdf_rk   *)
(* was given the same inputs.  A chain key is the root step it was split   *)
(* from and the number of times kdf_ck advanced it; the message key        *)
(* kdf_ck returns beside the next chain key is named by the chain key it   *)
(* was taken from.  AEAD opens a ciphertext exactly under the message key  *)
(* that sealed it.                                                         *)
(***************************************************************************)
EXTENDS Integers, Sequences, SequencesExt

CONSTANTS
    MAX_SKIP,          \* longest gap one header may ask to skip
    MAX_SKIP_SESSION   \* most skipped keys one state keeps

ASSUME SkipAssumption ==
    /\ MAX_SKIP \in Nat
    /\ MAX_SKIP_SESSION \in Nat

-----------------------------------------------------------------------------
(* Key derivation.  0 is the None of dhr, NoChain the None of cks and ckr. *)

Key       == Nat
Root      == Seq(SUBSET Key)
ChainKey  == [root : Root, n : Nat]
MessageKey == ChainKey

NoKey   == 0
NoChain == [root |-> <<>>, n |-> 0]

x25519_shared(own, peer) == {own, peer}

\* kdf_rk: the next root key; ChainOf is the chain key it returns beside it.
kdf_rk(rk, dhOut) == Append(rk, dhOut)
ChainOf(rk) == [root |-> rk, n |-> 0]

\* Advancing a chain k times; the message key of the step from ck is ck.
kdf_ck(ck, k) == [ck EXCEPT !.n = @ + k]

SkippedEntry == [dh : Key, n : Nat, mk : MessageKey]

RatchetState ==
    [dhs : Key, dhr : Key, rk : Root, cks : ChainKey, ckr : ChainKey,
     ns : Nat, nr : Nat, pn : Nat, mkskipped : Seq(SkippedEntry)]

Header == [dh : Key, pn : Nat, n : Nat]

-----------------------------------------------------------------------------
(* Initial states.  sk and the responder's first key pair bob come out of  *)
(* the handshake; alice is the pair generated here.                        *)

ratchet_init_alice(sk, alice, bob) ==
    LET rk == kdf_rk(<<{sk}>>, x25519_shared(alice, bob))
    IN  [dhs |-> alice, dhr |-> bob, rk |-> rk,
         cks |-> ChainOf(rk), ckr |-> NoChain,
         ns |-> 0, nr |-> 0, pn |-> 0, mkskipped |-> <<>>]

ratchet_init_bob(sk, bob) ==
    [dhs |-> bob, dhr |-> NoKey, rk |-> <<{sk}>>,
     cks |-> NoChain, ckr |-> NoChain,
     ns |-> 0, nr |-> 0, pn |-> 0, mkskipped |-> <<>>]

-----------------------------------------------------------------------------
(* Sending: header and message key of the next message, and the state      *)
(* after it.                                                               *)

CanSend(s) == s.cks # NoChain

NextHeader(s) == [dh |-> s.dhs, pn |-> s.pn, n |-> s.ns]
NextSealKey(s) == s.cks
EncryptStuck(s) == [s EXCEPT !.ns = @ + 1]
ratchet_encrypt(s) == [s EXCEPT !.cks = kdf_ck(@, 1), !.ns = @ + 1]

-----------------------------------------------------------------------------
(* Receiving.                                                              *)

NewestKeepsAll(q) == q
\* _store_skipped: the dict drops its oldest entries beyond the limit.
Newest(q) ==
    IF Len(q) > MAX_SKIP_SESSION
    THEN SubSeq(q, Len(q) - MAX_SKIP_SESSION + 1, Len(q))
    ELSE q

TooManySkipped(s, until) ==
    s.ckr # NoChain /\ s.nr + MAX_SKIP < until

\* The entries _skip_message_keys stores on the way to message number until.
SkippedOnTheWay(s, until) ==
    [i \in 1 .. (until - s.nr) |->
        [dh |-> s.dhr, n |-> s.nr + i - 1, mk |-> kdf_ck(s.ckr, i - 1)]]

SkipForgets(s, until) ==
    IF s.ckr = NoChain \/ until <= s.nr
    THEN s
    ELSE [s EXCEPT !.ckr = kdf_ck(@, until - s.nr), !.nr = until]

_skip_message_keys(s, until) ==
    IF s.ckr = NoChain \/ until <= s.nr
    THEN s
    ELSE [s EXCEPT !.ckr = kdf_ck(@, until - s.nr),
                   !.nr = until,
                   !.mkskipped = Newest(@ \o SkippedOnTheWay(s, until))]

\* The receiving chain is split with the old key pair, the sending chain with
\* the fresh one.
_dh_ratchet(s, dh, fresh) ==
    LET rkR == kdf_rk(s.rk, x25519_shared(s.dhs, dh))
        rkS == kdf_rk(rkR, x25519_shared(fresh, dh))
    IN  [s EXCEPT !.pn = s.ns, !.ns = 0, !.nr = 0,
                  !.dhr = dh, !.dhs = fresh, !.rk = rkS,
                  !.ckr = ChainOf(rkR), !.cks = ChainOf(rkS)]

\* The state in which the chain named by the header is the receiving chain.
OnChainOf(s, h, fresh) ==
    IF h.dh = s.dhr
    THEN s
    ELSE _dh_ratchet(_skip_message_keys(s, h.pn), h.dh, fresh)

SkippedAt(s, h) ==
    {i \in DOMAIN s.mkskipped : s.mkskipped[i].dh = h.dh /\ s.mkskipped[i].n = h.n}

TakeSkippedKeeps(s, h) ==
    [mk |-> s.mkskipped[CHOOSE j \in SkippedAt(s, h) : TRUE].mk, state |-> s]
\* _try_skipped: a stored key is taken out, whatever AEAD then says of it.
TakeSkipped(s, h) ==
    LET i == CHOOSE j \in SkippedAt(s, h) : TRUE
    IN  [mk |-> s.mkskipped[i].mk,
         state |-> [s EXCEPT !.mkskipped = RemoveAt(@, i)]]

\* The chain walk of _ratchet_decrypt_into for a header with no stored key.
WalkChain(s, h, fresh) ==
    LET at == _skip_message_keys(OnChainOf(s, h, fresh), h.n)
    IN  [mk |-> at.ckr,
         state |-> [at EXCEPT !.ckr = kdf_ck(@, 1), !.nr = @ + 1]]

\* ValueError of _skip_message_keys, for the old chain or for the new one.
GapTooLong(s, h, fresh) ==
    \/ h.dh # s.dhr /\ TooManySkipped(s, h.pn)
    \/ TooManySkipped(OnChainOf(s, h, fresh), h.n)

\* The key a header leads to, and the state that would be committed.
_ratchet_decrypt_into(s, h, fresh) ==
    IF SkippedAt(s, h) # {} THEN TakeSkipped(s, h) ELSE WalkChain(s, h, fresh)

\* Whether ratchet_decrypt returns a plaintext sealed under mk with header h.
Opens(s, h, mk, fresh) ==
    LET into == _ratchet_decrypt_into(s, h, fresh)
    IN  /\ SkippedAt(s, h) # {} \/ ~GapTooLong(s, h, fresh)
        /\ into.mk = mk
        /\ mk # NoChain

DecryptInPlace(s, h, mk, fresh) == _ratchet_decrypt_into(s, h, fresh).state
\* ratchet_decrypt works on a copy and commits it only on success.
ratchet_decrypt(s, h, mk, fresh) ==
    IF Opens(s, h, mk, fresh)
    THEN _ratchet_decrypt_into(s, h, fresh).state
    ELSE s

=============================================================================
