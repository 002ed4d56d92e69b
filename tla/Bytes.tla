-------------------------------- MODULE Bytes --------------------------------
(***************************************************************************)
(* What the encodings of mys_decentralized/ are made of: big-endian        *)
(* numbers of a fixed width and chunks behind their length.  A buffer is a *)
(* sequence; opaque contents (a point, a mac, an id, a hash, a sealed      *)
(* text) are single elements of it.  A reader returns the set of what it   *)
(* read and the position after it: the empty set where the code raises.    *)
(***************************************************************************)
EXTENDS Naturals, SequencesExt

\* No number here reaches 256 ^ 4: a file has at most 50 MB.
Big(n, width) ==
    [i \in 1 .. width |-> IF width - i > 3 THEN 0 ELSE (n \div 256 ^ (width - i)) % 256]
Number(bytes) ==
    LET upTo[i \in 0 .. Len(bytes)] == IF i = 0 THEN 0 ELSE 256 * upTo[i - 1] + bytes[i]
    IN  upTo[Len(bytes)]

\* A number of that width at pos.
GetNumber(buf, pos, width) ==
    IF pos + width - 1 > Len(buf) THEN {}
    ELSE {<<Number(SubSeq(buf, pos, pos + width - 1)), pos + width>>}

\* A chunk of at most 256 ^ width - 1 elements behind its length.
PutVar(chunk, width) == Big(Len(chunk), width) \o chunk
GetVar(buf, pos, width) ==
    {<<SubSeq(buf, n[2], n[2] + n[1] - 1), n[2] + n[1]>> :
        n \in {m \in GetNumber(buf, pos, width) : m[2] + m[1] - 1 <= Len(buf)}}
=============================================================================
