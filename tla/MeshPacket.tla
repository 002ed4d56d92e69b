----------------------------- MODULE MeshPacket -----------------------------
(***************************************************************************)
(* The packets of the mesh (mys_mesh/packet.py): version, type, hops left, *)
(* hops made and id, then what each type carries.  Ids, tags, nonces and   *)
(* addresses are one element of the buffer each, and the separators        *)
(* between addresses are left out.                                         *)
(***************************************************************************)
EXTENDS Naturals, SequencesExt

CONSTANTS
    PEERS_MAX,  \* addresses in one PEERS (16)
    ValidUrl    \* addresses that name a scheme, are short enough and printable

ASSUME PacketAssumption == PEERS_MAX \in Nat

VERSION == 1
RREQ == 1
RREP == 2
DATA == 3
RERR == 4
PEERS == 5
HEADER_LEN == 4 + 1
MAX_DATA == 65600
TTL_MAX == 8

encode_peers(urls) ==
    LET keep == SelectSeq(urls, LAMBDA u : u \in ValidUrl)
    IN  SubSeq(keep, 1, IF Len(keep) < PEERS_MAX THEN Len(keep) ELSE PEERS_MAX)

decode_peers(body) ==
    IF Len(body) > PEERS_MAX \/ ~(ToSet(body) \subseteq ValidUrl) THEN {} ELSE {body}

Body(p) ==
    CASE p.type = RREQ -> <<p.tag, p.nonce>>
      [] p.type = RREP -> <<p.route_id, p.nonce>>
      [] p.type \in {DATA, PEERS} -> p.payload
      [] OTHER -> <<>>

encode(p) == <<VERSION, p.type, p.ttl, p.hops, p.id>> \o Body(p)

\* The packet in a buffer, none where the code raises.
decode(raw, ttl_max) ==
    LET base == [type |-> raw[2], id |-> raw[5], ttl |-> raw[3], hops |-> raw[4]]
        body == SubSeq(raw, HEADER_LEN + 1, Len(raw))
        Is(type) == raw[2] = type /\ raw[3] = 0
    IN  CASE Len(raw) \notin HEADER_LEN .. HEADER_LEN + MAX_DATA -> {}
          [] raw[1] # VERSION -> {}
          [] raw[2] = RREQ /\ Len(body) = 2 /\ raw[3] \in 1 .. ttl_max ->
                {[tag |-> body[1], nonce |-> body[2]] @@ base}
          [] Is(RREP) /\ Len(body) = 2 -> {[route_id |-> body[1], nonce |-> body[2]] @@ base}
          [] Is(DATA) \/ (Is(PEERS) /\ decode_peers(body) # {}) -> {[payload |-> body] @@ base}
          [] Is(RERR) /\ body = <<>> -> {base}
          [] OTHER -> {}
=============================================================================
