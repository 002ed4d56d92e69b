--------------------------- MODULE RatchetStorage ---------------------------
(***************************************************************************)
(* A ratchet's state as the vault keeps it and a header as a frame carries *)
(* it (mys_crypto/ratchet.py).  A key is one element of the buffer; see    *)
(* Bytes for the numbers.                                                  *)
(***************************************************************************)
EXTENDS DoubleRatchet, Bytes

STATE_VERSION == 1

serialize(h) == <<h.dh>> \o Big(h.pn, 4) \o Big(h.n, 4)
deserialize(blob) ==
    [dh |-> blob[1], pn |-> Number(SubSeq(blob, 2, 5)), n |-> Number(SubSeq(blob, 6, 9))]

\* A key that may be missing, behind a flag; with the position after it.
put_opt(value, missing) == IF value = missing THEN <<0>> ELSE <<1, value>>
get_opt(blob, pos, missing) ==
    IF blob[pos] = 0 THEN <<missing, pos + 1>> ELSE <<blob[pos + 1], pos + 2>>

Skipped(entry) == <<entry.dh>> \o Big(entry.n, 4) \o <<entry.mk>>

SerializeNoGaps(s) ==
    <<STATE_VERSION, s.dhs, s.dhs>> \o put_opt(s.dhr, NoKey) \o <<s.rk>>
    \o put_opt(s.cks, NoChain) \o put_opt(s.ckr, NoChain)
    \o Big(s.ns, 4) \o Big(s.nr, 4) \o Big(s.pn, 4) \o Big(0, 4)
serialize_state(s) ==
    <<STATE_VERSION, s.dhs, s.dhs>> \o put_opt(s.dhr, NoKey) \o <<s.rk>>
    \o put_opt(s.cks, NoChain) \o put_opt(s.ckr, NoChain)
    \o Big(s.ns, 4) \o Big(s.nr, 4) \o Big(s.pn, 4)
    \o Big(Len(s.mkskipped), 4)
    \o FlattenSeq([i \in DOMAIN s.mkskipped |-> Skipped(s.mkskipped[i])])

\* Nothing for another version, where the code raises.
deserialize_state(blob) ==
    LET dhr == get_opt(blob, 4, NoKey)
        cks == get_opt(blob, dhr[2] + 1, NoChain)
        ckr == get_opt(blob, cks[2], NoChain)
        counter(i) == Number(SubSeq(blob, ckr[2] + 4 * i, ckr[2] + 4 * i + 3))
        entry(i) == ckr[2] + 16 + 6 * (i - 1)
    IN  IF blob[1] # STATE_VERSION THEN {}
        ELSE {[dhs |-> blob[2], dhr |-> dhr[1], rk |-> blob[dhr[2]], cks |-> cks[1], ckr |-> ckr[1],
               ns |-> counter(0), nr |-> counter(1), pn |-> counter(2),
               mkskipped |-> [i \in 1 .. counter(3) |->
                   [dh |-> blob[entry(i)], n |-> Number(SubSeq(blob, entry(i) + 1, entry(i) + 4)),
                    mk |-> blob[entry(i) + 5]]]]}

-----------------------------------------------------------------------------

\* Whatever has been exchanged, skipped and evicted, a session that resumes from
\* the vault goes on with the state that was saved, keys that late messages need
\* included, and the header a message is opened with is the one it was sealed with.
StoredIsResumed ==
    \A p \in Party :
        /\ deserialize_state(serialize_state(st[p])) = {st[p]}
        /\ \A m \in wire[p] : deserialize(serialize(m.h)) = m.h
=============================================================================
