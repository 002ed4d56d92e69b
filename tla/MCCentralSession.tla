--------------------------- MODULE MCCentralSession ---------------------------
(* The calls of one user at the window, and what may be wrong around them. *)
EXTENDS CentralSession

CONSTANTS l1, l2, r1, o1

MCTask == {l1, l2, r1, o1}

MCKind == [t \in MCTask |-> CASE t \in {l1, l2} -> "login"
                              [] t = r1 -> "resume"
                              [] OTHER -> "logout"]

\* The patient user, with both choices for the history; the hasty one; a slow server.
MCSettings ==
    {[slow |-> FALSE, hasty |-> FALSE, wipes |-> w] : w \in BOOLEAN}
        \cup {[slow |-> FALSE, hasty |-> TRUE, wipes |-> TRUE],
              [slow |-> TRUE, hasty |-> FALSE, wipes |-> TRUE]}
=============================================================================
