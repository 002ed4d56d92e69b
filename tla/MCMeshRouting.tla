--------------------------- MODULE MCMeshRouting ---------------------------
(***************************************************************************)
(* MeshRouting on networks small enough for TLC: two users either side of  *)
(* one relay, or of two relays with a path each.  The nonces are random in *)
(* the code; ann's is the smaller one unless the run swaps them.           *)
(***************************************************************************)
EXTENDS MeshRouting

CONSTANTS ann, bob, r1, r2

Users == {ann, bob}
Chain == {{ann, r1}, {r1, bob}}
Diamond == {{ann, r1}, {r1, bob}, {ann, r2}, {r2, bob}}

\* Two relays, answers that take time and a link that breaks; one relay, and links
\* that hold.
TwoNetworks ==
    {[edge |-> Diamond, suspends |-> TRUE, timesOut |-> TRUE, asks |-> 1, breaks |-> 1],
     [edge |-> Chain, suspends |-> FALSE, timesOut |-> TRUE, asks |-> 2, breaks |-> 0]}

AnnAnswers == ann :> 1 @@ bob :> 2
=============================================================================
