---------------------------- MODULE MCRendezvous ----------------------------
(***************************************************************************)
(* Rendezvous on an instance small enough for TLC.  The encoding of the    *)
(* messages is checked on its own.                                         *)
(***************************************************************************)
EXTENDS Rendezvous

CONSTANTS ann, bob

\* The users are alike: whoever is first is called ann.
AnnIsFirst == owner[1] # bob

SomeCandidates == {<<>>, <<[host |-> <<"h", "h">>, port |-> 256]>>,
                   <<[host |-> <<>>, port |-> 0], [host |-> <<"h">>, port |-> 65535]>>}
SomeMessages ==
    [type : {"HELLO"}, room_id : {<<>>, <<"r">>}, candidates : SomeCandidates]
    \cup [type : {"PAIR"}, role : Role, peer_candidates : SomeCandidates]
    \cup [type : {"PAKE"}, y : {<<"y">>}, ad : {<<>>, <<"a", "a">>}]
    \cup [type : {"CONFIRM"}, mac : {<<>>, <<"m">>}] \cup [type : {"DATA"}, sealed : {<<"s">>}]
    \cup [type : {"RELAY"}, payload : {<<>>, <<"p", "p">>}]
    \cup [type : {"PUNCH", "PUNCH_ACK", "PEER_LEFT"}]

\* protocol.py: a message is read as it was written, whatever follows it in the
\* buffer, and one that was cut short is refused.
ASSUME MessagesExact ==
    \A m \in SomeMessages :
        LET buf == encode_message(m)
        IN  /\ \A tail \in {<<>>, encode_message([type |-> "PEER_LEFT"])} :
                   decode_message(buf \o tail) = {m}
            /\ \A n \in 0 .. Len(buf) - 1 : decode_message(SubSeq(buf, 1, n)) = {}
=============================================================================
