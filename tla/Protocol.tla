------------------------------ MODULE Protocol ------------------------------
(***************************************************************************)
(* The frames of the P2P wire (mys_decentralized/protocol.py): type, flags *)
(* and length, then a payload that each type of message writes and parses  *)
(* in its own way.  See Bytes for buffers and for what a reader returns.   *)
(***************************************************************************)
EXTENDS Bytes

HEADER == 6

\* The numbers of the types are their places.
MsgType == <<"HELLO", "PAIR", "PUNCH", "PUNCH_ACK", "RELAY", "PAKE", "CONFIRM", "DATA", "PEER_LEFT">>

\* Role i - 1: the first of the room, the second.
RoleOrder == <<"INITIATOR", "RESPONDER">>

Place(seq, item) == CHOOSE i \in DOMAIN seq : seq[i] = item

-----------------------------------------------------------------------------
(* Frames. *)

encode_frame(type, payload) == <<Place(MsgType, type), 0>> \o Big(Len(payload), 4) \o payload

decode_frame(buf) ==
    IF Len(buf) < HEADER THEN {}
    ELSE LET end == HEADER + Number(SubSeq(buf, 3, 6))
         IN  IF Len(buf) < end \/ buf[1] \notin DOMAIN MsgType THEN {}
             ELSE {[type |-> MsgType[buf[1]], payload |-> SubSeq(buf, HEADER + 1, end), consumed |-> end]}

put_var(chunk) == PutVar(chunk, 2)
get_var(buf, pos) == GetVar(buf, pos, 2)

\* Candidates are a host and a port each.
put_candidates(candidates) ==
    <<Len(candidates)>>
    \o FlattenSeq([i \in DOMAIN candidates |-> put_var(candidates[i].host) \o Big(candidates[i].port, 2)])

get_candidate(buf, pos) ==
    UNION {{<<[host |-> h[1], port |-> p[1]], p[2]>> : p \in GetNumber(buf, h[2], 2)} :
               h \in get_var(buf, pos)}

get_candidates(buf, pos) ==
    LET read[n \in Nat] ==   \* the first n of them
            IF n = 0 THEN {<<<<>>, pos + 1>>}
            ELSE UNION {{<<Append(r[1], c[1]), c[2]>> : c \in get_candidate(buf, r[2])} : r \in read[n - 1]}
    IN  UNION {read[n[1]] : n \in GetNumber(buf, pos, 1)}

-----------------------------------------------------------------------------
(* Messages. *)

HelloPayload(m) == put_var(m.room_id) \o put_candidates(m.candidates)
HelloParse(buf) ==
    UNION {{[type |-> "HELLO", room_id |-> id[1], candidates |-> c[1]] :
                c \in get_candidates(buf, id[2])} : id \in get_var(buf, 1)}

PairPayload(m) == <<Place(RoleOrder, m.role) - 1>> \o put_candidates(m.peer_candidates)
PairParse(buf) ==
    IF buf = <<>> \/ buf[1] + 1 \notin DOMAIN RoleOrder THEN {}
    ELSE {[type |-> "PAIR", role |-> RoleOrder[buf[1] + 1], peer_candidates |-> c[1]] :
              c \in get_candidates(buf, 2)}

PakePayload(m) == put_var(m.y) \o put_var(m.ad)
PakeParse(buf) ==
    UNION {{[type |-> "PAKE", y |-> y[1], ad |-> ad[1]] : ad \in get_var(buf, y[2])} :
               y \in get_var(buf, 1)}

ConfirmParse(buf) == [type |-> "CONFIRM", mac |-> buf]
DataParse(buf) == [type |-> "DATA", sealed |-> buf]
RelayParse(buf) == [type |-> "RELAY", payload |-> buf]

\* PUNCH, PUNCH_ACK and PEER_LEFT have no payload and ignore one.
payload(m) ==
    CASE m.type = "HELLO" -> HelloPayload(m)
      [] m.type = "PAIR" -> PairPayload(m)
      [] m.type = "PAKE" -> PakePayload(m)
      [] m.type = "CONFIRM" -> m.mac
      [] m.type = "DATA" -> m.sealed
      [] m.type = "RELAY" -> m.payload
      [] OTHER -> <<>>

parse(type, buf) ==
    CASE type = "HELLO" -> HelloParse(buf)
      [] type = "PAIR" -> PairParse(buf)
      [] type = "PAKE" -> PakeParse(buf)
      [] type = "CONFIRM" -> {ConfirmParse(buf)}
      [] type = "DATA" -> {DataParse(buf)}
      [] type = "RELAY" -> {RelayParse(buf)}
      [] OTHER -> {[type |-> type]}

encode_message(m) == encode_frame(m.type, payload(m))

\* The message at the start of a buffer, without what follows it.
decode_message(buf) == UNION {parse(f.type, f.payload) : f \in decode_frame(buf)}
=============================================================================
