--------------------------- MODULE MCMeshInternet ---------------------------
(***************************************************************************)
(* MeshInternet on an instance small enough for TLC: up to three addresses *)
(* do not answer, and one is told by neighbours or last in the settings.   *)
(***************************************************************************)
EXTENDS MeshInternet

CONSTANTS hub, second, third, plain

Kinds(h, s, t, p) == hub :> h @@ second :> s @@ third :> t @@ plain :> p
\* The third address is the first with a comma and something behind it, which is plain.
Whole == [u \in Url |-> <<u>>]
Comma == [Whole EXCEPT ![third] = <<hub, plain>>]
Calm == [kind |-> Kinds("answers", "refuses", "answers", "refuses"), bootstrap |-> <<hub, second>>,
         lists |-> {<<second>>, <<plain, third, second, hub>>, <<second, second>>},
         split |-> Comma, days |-> FALSE, hangs |-> FALSE]
MCSettings ==
    {Calm,
     [Calm EXCEPT !.kind = Kinds("stranger", "answers", "silent", "refuses")],
     [Calm EXCEPT !.kind = Kinds("silent", "silent", "answers", "silent"), !.split = Whole,
                  !.bootstrap = <<hub, second, plain, third>>, !.lists = {}],
     [Calm EXCEPT !.kind = Kinds("answers", "silent", "answers", "refuses"), !.lists = {<<third>>},
                  !.split = Whole, !.days = TRUE, !.hangs = TRUE]}

SomePackets ==
    [type : {RREQ}, id : {"i"}, ttl : {1, TTL_MAX}, hops : {0, 3}, tag : {"t"}, nonce : {"n"}]
    \cup [type : {RREP}, id : {"i"}, ttl : {0}, hops : {2}, route_id : {"r"}, nonce : {"n"}]
    \cup [type : {DATA}, id : {"i"}, ttl : {0}, hops : {0}, payload : {<<>>, <<"p">>, <<"p", "q">>}]
    \cup [type : {PEERS}, id : {"i"}, ttl : {0}, hops : {0},
          payload : {encode_peers(<<>>), encode_peers(<<plain, hub, second, third>>)}]
    \cup [type : {RERR}, id : {"i"}, ttl : {0}, hops : {1}]

\* packet.py: a packet is read as it was written; one that was cut short is refused,
\* unless it is one whose contents may be shorter, and so are a longer route answer,
\* a request with too many hops left and one packet taken for another type.
ASSUME PacketsExact ==
    \A p \in SomePackets :
        LET raw == encode(p)
        IN  /\ decode(raw, TTL_MAX) = {p}
            /\ \A n \in 0 .. Len(raw) - 1 :
                   p.type \notin {DATA, PEERS} => decode(SubSeq(raw, 1, n), TTL_MAX) = {}
            /\ p.type \in {RREQ, RREP, RERR} => decode(Append(raw, "more"), TTL_MAX) = {}
            /\ p.type = RREQ /\ p.ttl = TTL_MAX => decode(raw, TTL_MAX - 1) = {}
            /\ p.type # RREQ => decode([raw EXCEPT ![3] = 1], TTL_MAX) = {}
=============================================================================
