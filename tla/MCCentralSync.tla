---------------------------- MODULE MCCentralSync ----------------------------
(***************************************************************************)
(* CentralSync on scenarios small enough for TLC: two messages around a    *)
(* send, a failure and a restart; two texts or files of this client and    *)
(* another device; one message around deletions, another device, leaving   *)
(* and coming back; the same with a failure or a removal.                  *)
(***************************************************************************)
EXTENDS CentralSync

Around == [posts |-> 2, sends |-> 1, convs |-> 1, fails |-> 1,
           echoes |-> {TRUE, FALSE}, cases |-> {"others", "restart"}]
Twice == [Around EXCEPT !.sends = 2, !.fails = 0, !.cases = {}]
Files == [Around EXCEPT !.fails = 0, !.cases = {"others", "files"}]
Elsewhere == [Around EXCEPT !.fails = 0, !.cases = {"elsewhere"}]
Returns == [posts |-> 1, sends |-> 0, convs |-> 2, fails |-> 0, echoes |-> {FALSE},
          cases |-> {"others", "elsewhere", "peerdeletes", "delete", "rejoin"}]
Removal == [Returns EXCEPT !.fails = 1, !.cases = {"others", "peerdeletes", "rejoin"}]
MCScenarios == {Around, Twice, Files, Elsewhere, Returns, Removal}
=============================================================================
