-------------------------- MODULE AtMostOnceChannel --------------------------
(***************************************************************************)
(* What the sealed conversation promises its users, whatever the network   *)
(* does: a text taken at one side was given at another, and no text is     *)
(* taken twice.  Texts may be lost and may overtake each other.            *)
(***************************************************************************)
EXTENDS Integers, Sequences

CONSTANT Party

VARIABLES
    given,  \* how many texts each party gave; they are numbered from 0
    taken   \* the texts each party took, in that order

vars == <<given, taken>>

Init ==
    /\ given = [p \in Party |-> 0]
    /\ taken = [p \in Party |-> <<>>]

Give(p) ==
    /\ given' = [given EXCEPT ![p] = @ + 1]
    /\ UNCHANGED taken

Take(p, q, n) ==
    /\ p # q
    /\ \A i \in DOMAIN taken[p] : taken[p][i] # <<q, n>>
    /\ taken' = [taken EXCEPT ![p] = Append(@, <<q, n>>)]
    /\ UNCHANGED given

Next ==
    \/ \E p \in Party : Give(p)
    \/ \E p, q \in Party : \E n \in 0 .. given[q] - 1 : Take(p, q, n)

Spec == Init /\ [][Next]_vars
=============================================================================
