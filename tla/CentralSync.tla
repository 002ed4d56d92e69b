----------------------------- MODULE CentralSync -----------------------------
(***************************************************************************)
(* One room of the "Centre" as the client replicates it into its vault:    *)
(* mys_centralized/sync.py under the coroutines of service.py that call    *)
(* it.  All of them run on one asyncio loop; what lies between two awaits  *)
(* is one step here, and every REST call is a request the server handles   *)
(* at one moment and an answer the client sees at a later one.             *)
(*                                                                         *)
(* _activate runs sync_all once and, if that succeeds, starts the poll and  *)
(* the live loop.  These two run sync_all at the same time, the live loop  *)
(* after every reconnection, while live frames, sends, deletions and the   *)
(* leaving of the room go on.  The server is external: a log of numbered   *)
(* messages, as the REST and WebSocket contracts describe it.              *)
(***************************************************************************)
EXTENDS Integers, FiniteSets, SequencesExt

CONSTANTS
    Scenario,   \* what may happen and how often, see Scenarios
    PageLimit   \* messages in one page of history

CentralCases ==
    {"files",       \* the user sends files too
     "others",      \* somebody else writes
     "elsewhere",   \* the user writes from another device
     "peerdeletes", \* a message of somebody else is deleted
     "delete",      \* the user deletes an own message
     "rejoin",      \* the user leaves the room and comes back
     "restart"}     \* the program dies and is started again

\* Bounds: posts in the server's log, messages this client sends, local numbers the
\* room's conversation takes, failed synchronisations, restarts and removals.
\* echoes: a message may come back with its client_msg_id: {TRUE}, without:
\* {FALSE}, or either way: {TRUE, FALSE}.
Scenarios == [posts : Nat, sends : Nat, convs : Nat, fails : Nat,
              echoes : SUBSET BOOLEAN \ {{}}, cases : SUBSET CentralCases]

ASSUME CentralAssumption == Scenario \subseteq Scenarios /\ PageLimit \in Nat \ {0}

VARIABLES
    scenario, \* what may happen
    log,     \* server: the messages of the room; the number is the server id
    gone,    \* server: deleted ids
    member,  \* server: this user is in the room
    conv,    \* vault: local id of the room's conversation, 0 if there is none
    convs,   \* the largest local id a conversation of this room had
    rows,    \* vault: messages by local id
    cursor,  \* vault: central.cursor of the room, 0 if there is none
    sends,   \* the texts this client sent; the place is client_msg_id
    uploads, \* files on their way to the server, before their message
    posts,   \* POSTs on their way
    erasing, \* deletions of own messages on their way
    leaving, \* the request to leave: "no", "asked", "answered"
    stage,   \* the session: "out", "starting" (the first sync_all), "running", and
             \* "alone" (that failed, there are no loops) or "over" (the poll ended)
    sync,    \* the two coroutines running sync_all; the first one counts as the poll
    live,    \* the live loop's connection: "down", "up", "dead"
    wsq,     \* frames of the live connection, oldest first
    applied, \* history: deletions the live loop applied
    fails

server == <<log, gone, member>>
vault == <<conv, convs, rows, cursor>>
calls == <<sends, uploads, posts, erasing, leaving>>
loops == <<stage, sync, live, wsq>>
vars == <<scenario, server, vault, calls, loops, applied, fails>>

MaxPosts == scenario.posts
MaxSends == scenario.sends
MaxConvs == scenario.convs
MaxFails == scenario.fails
May(case) == case \in scenario.cases

Syncer == {"live", "poll"}
Id == 1 .. MaxPosts
LocalId == Nat \ {0}
NoText == 0          \* the body of a message that carries a file
FileBody == -1       \* the body kept for an own file

Post == [from : {"me", "other"}, text : 0 .. MaxSends, cmid : 0 .. MaxSends,
         echoed : BOOLEAN]
Row == [conv : 1 .. MaxConvs, direction : {"out", "in"},
        status : {"pending", "sent", "failed", "received"},
        text : FileBody .. MaxSends, wire : 0 .. MaxPosts, cmid : 0 .. MaxSends]
Upload == [conv : 1 .. MaxConvs, cmid : 1 .. MaxSends]
Request == [row : LocalId, text : 0 .. MaxSends, cmid : 1 .. MaxSends, wire : 0 .. MaxPosts]
Erasure == [row : LocalId, wire : Id, done : BOOLEAN]
SyncState == [pc : {"idle", "rooms", "listed", "turn", "ask", "page"},
              inRoom : BOOLEAN, conv : 0 .. MaxConvs, after : 0 .. MaxPosts,
              page : Seq(Id), more : BOOLEAN]
Frame == [type : {"message", "message_deleted"}, id : Id]
         \cup [type : {"room_removed"}]

TypeOK ==
    /\ scenario \in Scenario
    /\ log \in Seq(Post) /\ Len(log) <= MaxPosts
    /\ gone \subseteq DOMAIN log
    /\ member \in BOOLEAN
    /\ conv \in {0, convs} /\ convs \in 0 .. MaxConvs
    /\ DOMAIN rows \subseteq LocalId /\ IsFiniteSet(DOMAIN rows)
    /\ \A i \in DOMAIN rows : rows[i] \in Row
    /\ cursor \in 0 .. Len(log)
    /\ sends \in Seq(0 .. MaxSends) /\ Len(sends) <= MaxSends
    /\ uploads \subseteq Upload
    /\ posts \subseteq Request
    /\ erasing \subseteq Erasure
    /\ leaving \in {"no", "asked", "answered"}
    /\ stage \in {"out", "starting", "alone", "running", "over"}
    /\ sync \in [Syncer -> SyncState]
    /\ live \in {"down", "up", "dead"}
    /\ wsq \in Seq(Frame)
    /\ applied \subseteq Id
    /\ fails \in 0 .. MaxFails

Idle == [pc |-> "idle", inRoom |-> FALSE, conv |-> 0, after |-> 0,
         page |-> <<>>, more |-> FALSE]

Init ==
    /\ scenario \in Scenario
    /\ log = <<>> /\ gone = {} /\ member = TRUE
    /\ conv = 0 /\ convs = 0 /\ rows = <<>> /\ cursor = 0
    /\ sends = <<>> /\ uploads = {} /\ posts = {} /\ erasing = {} /\ leaving = "no"
    /\ stage = "out" /\ sync = [k \in Syncer |-> Idle]
    /\ live = "down" /\ wsq = <<>>
    /\ applied = {} /\ fails = 0

-----------------------------------------------------------------------------
(* The vault.                                                              *)

\* SQLite numbers a new row one above the largest number in the table.
NextLocalId(rs) == Max(DOMAIN rs \cup {0}) + 1
Added(rs, r) == [i \in DOMAIN rs \cup {NextLocalId(rs)} |->
                    IF i \in DOMAIN rs THEN rs[i] ELSE r]

mark_sent(rs, i, wire) ==
    IF i \in DOMAIN rs THEN [rs EXCEPT ![i].wire = wire, ![i].status = "sent"] ELSE rs
set_status(rs, i, status) ==
    IF i \in DOMAIN rs THEN [rs EXCEPT ![i].status = status] ELSE rs
deleted(rs, S) == [i \in DOMAIN rs \ S |-> rs[i]]

ByWire(rs, c, id) == {i \in DOMAIN rs : rs[i].conv = c /\ rs[i].wire = id}
ByClientId(rs, c, cmid) ==
    {i \in DOMAIN rs : rs[i].conv = c /\ rs[i].direction = "out" /\ rs[i].cmid = cmid}
UnconfirmedByText(rs, c, text) ==
    {i \in DOMAIN rs : /\ rs[i].conv = c /\ rs[i].direction = "out"
                       /\ rs[i].wire = 0 /\ rs[i].text = text}

\* The new conversation takes its old number again, or the next one when a
\* conversation of another room or mode was created since.
ConvAdded ==
    /\ convs' \in {convs, convs + 1} \cap (1 .. MaxConvs)
    /\ conv' = convs'

\* _conv_for_room with create=True.
ConvFound == IF conv # 0 THEN UNCHANGED <<conv, convs>> ELSE ConvAdded

-----------------------------------------------------------------------------
(* _ingest: the rows once message id of the log was taken in.              *)

EchoedId(id) == IF log[id].echoed THEN log[id].cmid ELSE 0

NewRow(c, id) ==
    LET own == log[id].from = "me"
    IN  [conv |-> c, direction |-> IF own THEN "out" ELSE "in",
         status |-> IF own THEN "sent" ELSE "received",
         text |-> log[id].text, wire |-> id, cmid |-> 0]

_ingest(rs, c, id) ==
    LET byId == ByClientId(rs, c, EchoedId(id))
        byText == UnconfirmedByText(rs, c, log[id].text)
    IN  IF ByWire(rs, c, id) # {} THEN rs
        ELSE IF EchoedId(id) # 0 /\ byId # {}
        THEN IF rs[Min(byId)].wire = 0 THEN mark_sent(rs, Min(byId), id) ELSE rs
        ELSE IF log[id].from = "me" /\ byText # {}
        THEN mark_sent(rs, Min(byText), id)
        ELSE Added(rs, NewRow(c, id))

IngestedAll(rs, c, page) ==
    FoldLeft(LAMBDA acc, id : _ingest(acc, c, id), rs, page)

-----------------------------------------------------------------------------
(* The server, and what other people and devices do there.                 *)

\* A frame reaches this client if its live connection is up.
Pushed(f) == IF live = "up" THEN Append(wsq, f) ELSE wsq

Posted(from, text, cmid, echoed) ==
    /\ Len(log) < MaxPosts
    /\ log' = Append(log, [from |-> from, text |-> text, cmid |-> cmid,
                            echoed |-> echoed])
    /\ wsq' = IF member THEN Pushed([type |-> "message", id |-> Len(log) + 1]) ELSE wsq
    /\ UNCHANGED <<gone, member>>

OthersPost ==
    /\ \E from \in {"me", "other"}, text \in 0 .. MaxSends :
         /\ IF from = "me" THEN May("elsewhere") ELSE May("others")
         /\ Posted(from, text, 0, FALSE)
    /\ UNCHANGED <<scenario, vault, calls, stage, sync, live, applied, fails>>

Erased(id) ==
    /\ gone' = gone \cup {id}
    /\ wsq' = IF member THEN Pushed([type |-> "message_deleted", id |-> id]) ELSE wsq
    /\ UNCHANGED <<log, member>>

PeerDeletes ==
    /\ May("peerdeletes")
    /\ \E id \in DOMAIN log \ gone : log[id].from = "other" /\ Erased(id)
    /\ UNCHANGED <<scenario, vault, calls, stage, sync, live, applied, fails>>

-----------------------------------------------------------------------------
(* send: a pending row at once, the POST, its answer.  send_file: the       *)
(* upload first, and only then the row and the POST.                       *)

HasSync == stage # "out"

\* The row and the POST of what was sent as number cmid, in conversation c.
Goes(c, cmid, text) ==
    LET row == [conv |-> c, direction |-> "out", status |-> "pending",
                text |-> IF text = NoText THEN FileBody ELSE text, wire |-> 0, cmid |-> cmid]
    IN  /\ rows' = Added(rows, row)
        /\ posts' = posts \cup {[row |-> NextLocalId(rows), text |-> text, cmid |-> cmid,
                                 wire |-> 0]}

\* A new text, or one that was sent before.
Send ==
    /\ HasSync /\ conv # 0 /\ Len(sends) < MaxSends
    /\ \E text \in 1 .. Max(Range(sends) \cup {0}) + 1 :
         sends' = Append(sends, text) /\ Goes(conv, Len(sends'), text)
    /\ UNCHANGED <<scenario, server, conv, convs, cursor, uploads, erasing, leaving,
                   loops, applied, fails>>

SendFile ==
    /\ May("files") /\ HasSync /\ conv # 0 /\ Len(sends) < MaxSends
    /\ sends' = Append(sends, NoText)
    /\ uploads' = uploads \cup {[conv |-> conv, cmid |-> Len(sends')]}
    /\ UNCHANGED <<scenario, server, vault, posts, erasing, leaving, loops, applied,
                   fails>>

\* The conversation may have been forgotten meanwhile; the row is added all the same.
Uploaded(u) ==
    /\ Goes(u.conv, u.cmid, NoText)
    /\ uploads' = uploads \ {u}
    /\ UNCHANGED <<scenario, server, conv, convs, cursor, sends, erasing, leaving, loops,
                   applied, fails>>

\* Of an upload that fails nothing is kept.
UploadFails(u) ==
    /\ uploads' = uploads \ {u}
    /\ UNCHANGED <<scenario, server, vault, sends, posts, erasing, leaving, loops,
                   applied, fails>>

PostHandled(p) ==
    /\ p.wire = 0 /\ member
    /\ \E echoed \in scenario.echoes : Posted("me", p.text, p.cmid, echoed)
    /\ posts' = (posts \ {p}) \cup {[p EXCEPT !.wire = Len(log) + 1]}
    /\ UNCHANGED <<scenario, vault, sends, uploads, erasing, leaving, stage, sync, live,
                   applied, fails>>

PostAnswered(p) ==
    /\ p.wire # 0
    /\ rows' = mark_sent(rows, p.row, p.wire)
    /\ posts' = posts \ {p}
    /\ UNCHANGED <<scenario, server, conv, convs, cursor, sends, uploads, erasing,
                   leaving, loops, applied, fails>>

\* The request or its answer is lost, or the server refuses: the row is failed.
PostFails(p) ==
    /\ rows' = set_status(rows, p.row, "failed")
    /\ posts' = posts \ {p}
    /\ UNCHANGED <<scenario, server, conv, convs, cursor, sends, uploads, erasing,
                   leaving, loops, applied, fails>>

-----------------------------------------------------------------------------
(* delete: an own, confirmed message; the answer removes the row by its    *)
(* local id.                                                               *)

DeleteAsked ==
    /\ May("delete") /\ HasSync
    /\ \E i \in DOMAIN rows :
         /\ rows[i].conv = conv /\ rows[i].direction = "out" /\ rows[i].wire # 0
         /\ \A e \in erasing : e.row # i
         /\ erasing' = erasing \cup {[row |-> i, wire |-> rows[i].wire, done |-> FALSE]}
    /\ UNCHANGED <<scenario, server, vault, sends, uploads, posts, leaving, loops,
                   applied, fails>>

DeleteHandled(e) ==
    /\ ~e.done /\ member /\ e.wire \notin gone
    /\ Erased(e.wire)
    /\ erasing' = (erasing \ {e}) \cup {[e EXCEPT !.done = TRUE]}
    /\ UNCHANGED <<scenario, vault, sends, uploads, posts, leaving, stage, sync, live,
                   applied, fails>>

DeleteAnswered(e) ==
    /\ e.done
    /\ rows' = deleted(rows, {e.row})
    /\ erasing' = erasing \ {e}
    /\ UNCHANGED <<scenario, server, conv, convs, cursor, sends, uploads, posts, leaving,
                   loops, applied, fails>>

DeleteFails(e) ==
    /\ erasing' = erasing \ {e}
    /\ UNCHANGED <<scenario, server, vault, sends, uploads, posts, leaving, loops,
                   applied, fails>>

-----------------------------------------------------------------------------
(* sync_all: the rooms, then the history of the room page by page.         *)

At(k, pc) == sync[k].pc = pc
Moves(k, s) == sync' = [sync EXCEPT ![k] = s]
Asking == [Idle EXCEPT !.pc = "rooms"]

\* _activate: after the start, or a login when the session before it failed or was
\* refused; what ran of that one is stopped.  The first sync_all begins.
Activate ==
    /\ stage \in {"out", "alone", "over"} /\ stage' = "starting"
    /\ sync' = [live |-> Idle, poll |-> Asking] /\ live' = "down" /\ wsq' = <<>>
    /\ UNCHANGED <<scenario, server, vault, calls, applied, fails>>

\* sync_all ends well; the first time, the poll and the live loop are started.
EndsWell(k) ==
    /\ Moves(k, Idle)
    /\ stage' = IF k = "poll" /\ stage = "starting" THEN "running" ELSE stage

PollTick ==
    /\ stage = "running" /\ At("poll", "idle")
    /\ Moves("poll", Asking)
    /\ UNCHANGED <<scenario, server, vault, calls, stage, live, wsq, applied, fails>>

RoomsHandled(k) ==
    /\ At(k, "rooms")
    /\ Moves(k, [sync[k] EXCEPT !.pc = "listed", !.inRoom = member])
    /\ UNCHANGED <<scenario, server, vault, calls, stage, live, wsq, applied, fails>>

RoomsArrive(k) ==
    /\ At(k, "listed")
    /\ IF sync[k].inRoom
       THEN ConvFound /\ Moves(k, [sync[k] EXCEPT !.pc = "turn"]) /\ UNCHANGED stage
       ELSE EndsWell(k) /\ UNCHANGED <<conv, convs>>
    /\ UNCHANGED <<scenario, server, rows, cursor, calls, live, wsq, applied, fails>>

\* sync_history takes the conversation and the cursor, and asks.
HistoryBegins(k) ==
    /\ At(k, "turn")
    /\ ConvFound
    /\ Moves(k, [sync[k] EXCEPT !.pc = "ask", !.conv = conv', !.after = cursor])
    /\ UNCHANGED <<scenario, server, rows, cursor, calls, stage, live, wsq, applied,
                   fails>>

HistoryAfter(after) ==
    SelectSeq([i \in DOMAIN log |-> i], LAMBDA id : id > after /\ id \notin gone)

PageHandled(k) ==
    LET rest == HistoryAfter(sync[k].after)
        size == Min({PageLimit, Len(rest)})
    IN  /\ At(k, "ask") /\ member
        /\ Moves(k, [sync[k] EXCEPT !.pc = "page", !.page = SubSeq(rest, 1, size),
                                    !.more = size < Len(rest)])
        /\ UNCHANGED <<scenario, server, vault, calls, stage, live, wsq, applied, fails>>

CursorToTheEnd(k) == Len(log)
\* The cursor after a page: the highest id in it.
CursorAfter(k) == Last(sync[k].page)

PageArrives(k) ==
    /\ At(k, "page")
    /\ IF sync[k].page = <<>>
       THEN EndsWell(k) /\ UNCHANGED <<rows, cursor>>
       ELSE /\ rows' = IngestedAll(rows, sync[k].conv, sync[k].page)
            /\ cursor' = CursorAfter(k)
            /\ IF sync[k].more
               THEN Moves(k, [sync[k] EXCEPT !.pc = "ask", !.after = CursorAfter(k),
                                             !.page = <<>>, !.more = FALSE])
                    /\ UNCHANGED stage
               ELSE EndsWell(k)
    /\ UNCHANGED <<scenario, server, conv, convs, calls, live, wsq, applied, fails>>

\* A request of sync_all fails.  The live loop ends for good.  The poll goes on at
\* its next tick, unless the token was refused.  If it was the first sync_all there
\* are no loops, and no session either if a resumed token was refused.
SyncFails(k) ==
    /\ sync[k].pc \in {"rooms", "listed", "ask", "page"} /\ fails < MaxFails
    /\ fails' = fails + 1
    /\ Moves(k, Idle)
    /\ \/ k = "live" /\ live' = "dead" /\ wsq' = <<>> /\ UNCHANGED stage
       \/ /\ k = "poll" /\ UNCHANGED <<live, wsq>>
          /\ stage' \in (IF stage = "starting" THEN {"alone", "out"} ELSE {stage, "over"})
    /\ UNCHANGED <<scenario, server, vault, calls, applied>>

-----------------------------------------------------------------------------
(* The live loop: sync_all after every (re)connection, then frame by frame *)

LiveConnects ==
    /\ stage \in {"running", "over"} /\ live = "down" /\ wsq = <<>> /\ At("live", "idle")
    /\ live' = "up"
    /\ Moves("live", [Idle EXCEPT !.pc = "rooms"])
    /\ UNCHANGED <<scenario, server, vault, calls, stage, wsq, applied, fails>>

\* The connection breaks; of the frames under way only the first few arrive.
LiveBreaks ==
    /\ live = "up" /\ fails < MaxFails
    /\ live' = "down" /\ fails' = fails + 1
    /\ \E n \in 0 .. Len(wsq) : wsq' = SubSeq(wsq, 1, n)
    /\ UNCHANGED <<scenario, server, vault, calls, stage, sync, applied>>

NextFrame(type) ==
    /\ live # "dead" /\ At("live", "idle") /\ wsq # <<>>
    /\ Head(wsq).type = type
    /\ wsq' = Tail(wsq)
    /\ UNCHANGED <<scenario, server, calls, stage, sync, live, fails>>

ingest_ws ==
    /\ NextFrame("message")
    /\ ConvFound
    /\ rows' = _ingest(rows, conv', Head(wsq).id)
    /\ UNCHANGED <<cursor, applied>>

apply_ws_delete ==
    /\ NextFrame("message_deleted")
    /\ LET found == ByWire(rows, conv, Head(wsq).id)
       IN  rows' = IF found = {} THEN rows ELSE deleted(rows, {Min(found)})
    /\ applied' = IF conv = 0 THEN applied ELSE applied \cup {Head(wsq).id}
    /\ UNCHANGED <<conv, convs, cursor>>

-----------------------------------------------------------------------------
(* Leaving and coming back.                                                *)

forget_room ==
    /\ rows' = deleted(rows, {i \in DOMAIN rows : rows[i].conv = conv})
    /\ conv' = 0
    /\ cursor' = 0
    /\ UNCHANGED convs

LeaveAsked ==
    /\ May("rejoin") /\ HasSync /\ conv # 0 /\ leaving = "no"
    /\ leaving' = "asked"
    /\ UNCHANGED <<scenario, server, vault, sends, uploads, posts, erasing, loops,
                   applied, fails>>

LeaveHandled ==
    /\ leaving = "asked" /\ member
    /\ member' = FALSE /\ leaving' = "answered"
    /\ UNCHANGED <<scenario, log, gone, vault, sends, uploads, posts, erasing, loops,
                   applied, fails>>

LeaveAnswered ==
    /\ leaving = "answered" /\ leaving' = "no"
    /\ IF HasSync /\ conv # 0 THEN forget_room ELSE UNCHANGED vault
    /\ UNCHANGED <<scenario, server, sends, uploads, posts, erasing, loops, applied,
                   fails>>

\* An administrator removes the user.
Kicked ==
    /\ May("rejoin") /\ member /\ leaving = "no" /\ fails < MaxFails
    /\ member' = FALSE /\ fails' = fails + 1
    /\ wsq' = Pushed([type |-> "room_removed"])
    /\ UNCHANGED <<scenario, log, gone, vault, calls, stage, sync, live, applied>>

RoomRemoved ==
    /\ NextFrame("room_removed")
    /\ IF conv # 0 THEN forget_room ELSE UNCHANGED vault
    /\ UNCHANGED applied

\* join_room by the code; the server's answer comes in the same step.
Rejoin ==
    /\ May("rejoin") /\ HasSync /\ ~member /\ leaving = "no"
    /\ member' = TRUE
    /\ ConvFound
    /\ UNCHANGED <<scenario, log, gone, rows, cursor, calls, loops, applied, fails>>

-----------------------------------------------------------------------------
(* The program dies, possibly in the middle of a page: some of its rows    *)
(* are committed and the cursor is not.                                    *)

Restart ==
    /\ May("restart") /\ fails < MaxFails
    /\ \/ rows' = rows
       \/ \E k \in Syncer : \E n \in 1 .. Len(sync[k].page) :
            rows' = IngestedAll(rows, sync[k].conv, SubSeq(sync[k].page, 1, n))
    /\ uploads' = {} /\ posts' = {} /\ erasing' = {} /\ leaving' = "no"
    /\ stage' = "out" /\ sync' = [k \in Syncer |-> Idle]
    /\ live' = "down" /\ wsq' = <<>> /\ fails' = fails + 1
    /\ UNCHANGED <<scenario, server, conv, convs, cursor, sends, applied>>

-----------------------------------------------------------------------------

SyncStep(k) ==
    \/ RoomsHandled(k) \/ RoomsArrive(k) \/ HistoryBegins(k)
    \/ PageHandled(k) \/ PageArrives(k)

Next ==
    \/ OthersPost \/ PeerDeletes
    \/ Send \/ SendFile \/ \E u \in uploads : Uploaded(u) \/ UploadFails(u)
    \/ \E p \in posts : PostHandled(p) \/ PostAnswered(p) \/ PostFails(p)
    \/ DeleteAsked \/ \E e \in erasing : DeleteHandled(e) \/ DeleteAnswered(e) \/ DeleteFails(e)
    \/ Activate \/ PollTick \/ \E k \in Syncer : SyncStep(k) \/ SyncFails(k)
    \/ LiveConnects \/ LiveBreaks \/ ingest_ws \/ apply_ws_delete
    \/ LeaveAsked \/ LeaveHandled \/ LeaveAnswered \/ Kicked \/ RoomRemoved \/ Rejoin
    \/ Restart

Spec == Init /\ [][Next]_vars

\* Where there is a poll, it ticks and its requests are answered, except MaxFails
\* times.  Nobody is obliged to start the program or to log in.
FairSpec == Spec /\ WF_vars(PollTick) /\ WF_vars(SyncStep("poll"))

-----------------------------------------------------------------------------
(* Properties.                                                             *)

\* What _ingest cannot tell apart: own messages of one text, if one of them comes
\* back without its client id, as _ingest then goes by the text; and an own file that
\* comes back so, as no row has its body.
Own(text) == {id \in DOMAIN log : log[id].from = "me" /\ log[id].text = text}
Twins(text) ==
    Cardinality({n \in DOMAIN sends : sends[n] = text})
        + Cardinality({id \in Own(text) : log[id].cmid = 0}) > 1
MixedUp(id) ==
    /\ id \in DOMAIN log /\ log[id].from = "me"
    /\ IF log[id].text = NoText THEN EchoedId(id) = 0
       ELSE Twins(log[id].text) /\ \E other \in Own(log[id].text) : EchoedId(other) = 0

\* What lies below the cursor is in the vault: sync_history never asks for it
\* again, so a message it passes over is lost to this client.  (Not for a user who
\* leaves: a page under way then sets the cursor that forget_room deleted.)
Stays == ~May("rejoin")
NothingSkipped ==
    Stays /\ conv # 0 => \A id \in DOMAIN log \ gone :
                    id <= cursor => ByWire(rows, conv, id) # {} \/ MixedUp(id)

\* One message of the server is one row, whatever POST answers, live frames and
\* pages bring it and in whatever order, unless it can be mixed up.
OneRowPerMessage ==
    \A i, j \in DOMAIN rows :
        (rows[i].wire # 0 /\ rows[i].wire = rows[j].wire /\ rows[i].conv = rows[j].conv)
        => i = j \/ MixedUp(rows[i].wire)

\* A row that carries a server id shows that message: its author's side and its
\* text or file, also if it can be mixed up; and if it cannot, an own row is the
\* message this client posted for it.
RowsAreTheirMessages ==
    \A i \in DOMAIN rows : rows[i].wire # 0 =>
        LET m == log[rows[i].wire]
        IN  /\ rows[i].direction = (IF m.from = "me" THEN "out" ELSE "in")
            /\ rows[i].text = m.text \/ (m.text = NoText /\ rows[i].text = FileBody)
            /\ rows[i].cmid # 0 /\ m.cmid # 0 => rows[i].cmid = m.cmid \/ MixedUp(rows[i].wire)


\* Once the first synchronisation began, and until it fails or the poll is refused,
\* every message reaches the vault of a user who stays, with the live channel or
\* without it.
Connected == stage \in {"starting", "running"}
PostsArrive ==
    \A id \in 1 .. Max({s.posts : s \in Scenario}) :
        (Stays /\ id \in DOMAIN log /\ Connected) ~>
            \/ ~Connected \/ id \in gone \/ MixedUp(id)
            \/ conv # 0 /\ ByWire(rows, conv, id) # {}

------------------------------------------------------------------------------
(* Promised by a comment of the code, and refuted by TLC on the instance   *)
(* the README names.                                                       *)

\* A deletion the live loop has applied is not undone.
DeletedStaysDeleted ==
    \A i \in DOMAIN rows : rows[i].conv = conv => rows[i].wire \notin applied
=============================================================================
