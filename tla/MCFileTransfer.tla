---------------------------- MODULE MCFileTransfer ----------------------------
(***************************************************************************)
(* FileTransfer on an instance small enough for TLC: each side sends one   *)
(* file.  The encoding of the parts is checked on its own.                 *)
(***************************************************************************)
EXTENDS FileTransfer, TLC

CONSTANTS a, b, f1, f2

Callers == f1 :> a @@ f2 :> b
Sizes == f1 :> 3 @@ f2 :> 2

SomeParts ==
    [kind : {"meta"}, id : {f1, f2}, total : {0, 255, 65536}, chunk : {1, 65536}, count : {0, 256},
     sha : {<<"h">>}, mime : {<<>>, <<"m">>}, filename : {<<>>, <<"n", "n">>}]
    \cup [kind : {"chunk"}, id : {f1}, index : {1, 2, 257}, data : {<<>>, <<"d">>}]

\* filetransfer.py: a part is read as it was written, and a META that was cut
\* short is refused.
ASSUME PartsExact ==
    \A part \in SomeParts :
        LET buf == encode_content(part)
        IN  /\ decode_content(buf) = {part}
            /\ part.kind = "meta" =>
                   \A n \in 1 .. Len(buf) - 1 : decode_content(SubSeq(buf, 1, n)) = {}
=============================================================================
