--------------------------- MODULE MCDoubleRatchet ---------------------------
(***************************************************************************)
(* DoubleRatchet and its states in the vault on an instance small enough   *)
(* for TLC.  The counters are checked on their own beyond one byte.        *)
(***************************************************************************)
EXTENDS RatchetStorage

ASSUME CountersExact ==
    \A n, m \in {0, 1, 255, 256, 65535, 65536, 16777216} :
        LET s == [ratchet_init_alice(1, 3, 2) EXCEPT !.ns = n, !.nr = m, !.pn = n]
        IN  deserialize_state(serialize_state(s)) = {s}
=============================================================================
