------------------------------- MODULE MCWindow -------------------------------
(* A room and a channel at first, one more of either kind to be made, and what *)
(* may happen, each for itself.                                                *)
EXTENDS Window

MCMade == 1 .. 3
MCAtFirst == {1, 2}

Calm(third) ==
    [modeOf |-> <<"centre", "p2p", third>>, account |-> TRUE, leaves |-> FALSE,
     kicked |-> FALSE, reused |-> FALSE, barges |-> FALSE]

MCSettings ==
    {[Calm("centre") EXCEPT !.account = FALSE], [Calm("centre") EXCEPT !.kicked = TRUE],
     [Calm("centre") EXCEPT !.barges = TRUE], [Calm("p2p") EXCEPT !.leaves = TRUE],
     [Calm("p2p") EXCEPT !.reused = TRUE], Calm("p2p")}
=============================================================================
