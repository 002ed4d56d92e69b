----------------------------- MODULE FileContent -----------------------------
(***************************************************************************)
(* What is inside a sealed frame (mys_decentralized/filetransfer.py): a    *)
(* byte that tells the kind, then a text, the META of a file or one of its *)
(* chunks.  An id and a hash are one element of the buffer each.           *)
(***************************************************************************)
EXTENDS Bytes

KIND_TEXT == 0
KIND_FILE_META == 1
KIND_FILE_CHUNK == 2

META_FIXED == 1 + 8 + 4 + 4 + 1

put_var16(chunk) == PutVar(chunk, 2)
get_var16(buf, pos) == GetVar(buf, pos, 2)
put_var8(chunk) == PutVar(chunk, 1)
get_var8(buf, pos) == GetVar(buf, pos, 1)

encode_file_meta(m) ==
    <<m.id>> \o Big(m.total, 8) \o Big(m.chunk, 4) \o Big(m.count, 4) \o <<m.sha>>
    \o put_var8(m.mime) \o put_var16(m.filename)

decode_file_meta(buf) ==
    IF Len(buf) < META_FIXED THEN {}
    ELSE UNION {{[kind |-> "meta", id |-> buf[1],
                  total |-> Number(SubSeq(buf, 2, 9)), chunk |-> Number(SubSeq(buf, 10, 13)),
                  count |-> Number(SubSeq(buf, 14, 17)), sha |-> buf[18],
                  mime |-> mime[1], filename |-> name[1]] :
                     name \in get_var16(buf, mime[2])} : mime \in get_var8(buf, META_FIXED + 1)}

\* Chunks are numbered from 1 here and from 0 in a frame.
encode_file_chunk(c) == <<c.id>> \o Big(c.index - 1, 4) \o c.data

decode_file_chunk(buf) ==
    IF Len(buf) < 1 + 4 THEN {}
    ELSE {[kind |-> "chunk", id |-> buf[1], index |-> Number(SubSeq(buf, 2, 5)) + 1,
           data |-> SubSeq(buf, 6, Len(buf))]}

encode_content(part) ==
    IF part.kind = "meta" THEN <<KIND_FILE_META>> \o encode_file_meta(part)
    ELSE <<KIND_FILE_CHUNK>> \o encode_file_chunk(part)

\* An unknown kind is dropped.
decode_content(buf) ==
    CASE buf[1] = KIND_TEXT -> {[kind |-> "text", body |-> Tail(buf)]}
      [] buf[1] = KIND_FILE_META -> decode_file_meta(Tail(buf))
      [] buf[1] = KIND_FILE_CHUNK -> decode_file_chunk(Tail(buf))
      [] OTHER -> {}
=============================================================================
