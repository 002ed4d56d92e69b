-------------------------------- MODULE Window --------------------------------
(***************************************************************************)
(* The main window: which conversation is open, what is in the input, what *)
(* is shown, and what arrives meanwhile (main_window.py and the widgets it *)
(* is made of).                                                            *)
(*                                                                         *)
(* A conversation is known to the window by the id of its row, and the     *)
(* vault gives the highest id that was freed again.  Handlers run one at a *)
(* time on the thread of the window; a modal dialog runs the signals of    *)
(* other threads inside the handler that opened it.  What a text, an       *)
(* answer, a file or a view is about is a conversation as it was made: a   *)
(* number of Made, which the program does not have.                        *)
(***************************************************************************)
EXTENDS Naturals, FiniteSets, FiniteSetsExt

CONSTANTS
    Made,      \* the conversations that are ever made, by number
    Invited,   \* those that are invitations of the centre until they are accepted
    Pictured,  \* those with a picture in their history
    AtFirst,   \* those there are when the window opens
    Settings,  \* subset of Setting
    None

\* modeOf[m]: the mode of conversation m.
\* account: there is a session of the centre all the time (otherwise: never).
\* leaves:  channels are begun while another conversation is open, or the text of
\*          one that was deleted is left in the input.
\* kicked:  the server takes away the room that is open.
\* reused:  a new conversation gets the id of the last one, if that was deleted.
\* barges:  an invitation is answered after the user went to the other tab, or while
\*          a preview of files is open.
Setting == [modeOf : [Made -> {"p2p", "centre"}], account : BOOLEAN, leaves : BOOLEAN, kicked : BOOLEAN,
            reused : BOOLEAN, barges : BOOLEAN]

\* A row of the vault.
Id == 1 .. Cardinality(Made)

ASSUME WindowAssumption ==
    /\ IsFiniteSet(Made) /\ Made = Id
    /\ AtFirst \subseteq Made /\ AtFirst = 1 .. Cardinality(AtFirst)
    /\ Pictured \subseteq Made /\ Invited \subseteq Made
    /\ Settings \subseteq Setting /\ None \notin Made

VARIABLES
    setting,    \* one of Settings, for the whole behaviour
    rows,       \* the vault: which conversation has the row, or None
    made,       \* how many were made
    pending,    \* invitations not answered yet
    mode,       \* the tab: "p2p" or "centre"
    current,    \* MainWindow._current
    field,      \* whom the text of the input was typed for; {} is an empty input
    drafts,     \* MainWindow._drafts, in the same way
    reply,      \* MainWindow._reply: the conversation of the message quoted, or None
    view,       \* whose messages the chat shows
    page,       \* the page of the stack: "empty", "chat", "over" (the offline banner)
    writable,   \* input.setEnabled
    dismissed,  \* _p2p_banner_dismissed_for
    preview,    \* where the files in the open preview were dropped, or None
    inviting,   \* a thread of "write to a user" is under way
    image       \* image[m]: the picture of m, see States

vars == <<setting, rows, made, pending, mode, current, field, drafts, reply, view,
          page, writable, dismissed, preview, inviting, image>>

vault == <<rows, made, pending>>
typing == <<field, drafts, reply>>

\* absent: not loaded yet.  asked: in _pending_fetches.  come, missed, nothing: the
\* fetch came to that end and its signal is under way.  failed: _media_fetch_failed.
States == {"absent", "asked", "come", "missed", "nothing", "failed", "here"}

IdOrNone == Id \cup {None}
MadeOrNone == Made \cup {None}

\* The conversation that is open.
Here == IF current = None THEN None ELSE rows[current]

-----------------------------------------------------------------------------
TypeOK ==
    /\ setting \in Settings
    /\ rows \in [Id -> MadeOrNone] /\ made \in 0 .. Cardinality(Made) /\ pending \subseteq Invited
    /\ mode \in {"p2p", "centre"} /\ current \in IdOrNone
    /\ field \subseteq Made /\ drafts \in [Id -> SUBSET Made] /\ reply \in MadeOrNone
    /\ view \in MadeOrNone /\ page \in {"empty", "chat", "over"}
    /\ writable \in BOOLEAN /\ dismissed \in IdOrNone /\ preview \in MadeOrNone
    /\ inviting \in BOOLEAN /\ image \in [Pictured -> States]
    \* A row is of one conversation; with nothing shown, nothing is open.
    /\ \A i, j \in Id : rows[i] = rows[j] /\ rows[i] # None => i = j
    /\ page = "empty" => current = None

Init ==
    /\ setting \in Settings
    /\ rows = [i \in Id |-> IF i \in AtFirst THEN i ELSE None]
    /\ made = Cardinality(AtFirst) /\ pending = {m \in Invited : setting.modeOf[m] = "centre"}
    /\ mode \in {"p2p", "centre"} /\ current = None
    /\ field = {} /\ drafts = [i \in Id |-> {}] /\ reply = None
    /\ view = None /\ page = "empty" /\ writable = TRUE /\ dismissed = None
    /\ preview = None /\ inviting = FALSE
    /\ image = [m \in Pictured |-> "absent"]

-----------------------------------------------------------------------------
(* What the handlers share.                                                *)

SwapDraftLeavesText(next) ==
    LET kept == IF current = None THEN drafts ELSE [drafts EXCEPT ![current] = field] IN
    /\ drafts' = kept
    /\ field' = IF next # None /\ kept[next] # {} THEN kept[next] ELSE field

\* _swap_draft: keep the text of the open conversation, fetch that of the next.
SwapDraft(next) ==
    LET kept == IF current = None THEN drafts ELSE [drafts EXCEPT ![current] = field] IN
    /\ drafts' = kept
    /\ field' = IF next = None THEN {} ELSE kept[next]

\* _show_messages, and the pictures it asks for.
Asked(m, im) == IF m \in Pictured /\ im[m] = "absent" THEN [im EXCEPT ![m] = "asked"] ELSE im

Show(m, im) == view' = m /\ image' = Asked(m, im)

\* _update_chat_header and _update_p2p_stack_page for conversation id, in tab tab.
\* Whether the channel is open, module P2PService says; here it may or may not be.
Header(id, tab, gone) ==
    \/ id = None /\ page' = "empty" /\ UNCHANGED writable
    \/ /\ id # None /\ tab = "centre"
       /\ page' = "chat" /\ writable' = (rows'[id] \notin pending')
    \/ /\ id # None /\ tab = "p2p"
       /\ page' \in (IF gone = id THEN {"chat"} ELSE {"chat", "over"}) /\ writable' = TRUE

\* A row for the next conversation to be made: SQLite takes the highest id and one.
NewRow ==
    IF setting.reused THEN 1 + Max({0} \cup {i \in Id : rows[i] # None}) ELSE made + 1

MakesRow ==
    /\ made + 1 \in Made
    /\ rows' = [rows EXCEPT ![NewRow] = made + 1] /\ made' = made + 1
    /\ UNCHANGED pending

\* Nothing else can be pressed while a preview is open.
Free == preview = None

-----------------------------------------------------------------------------
(* The user.                                                               *)

\* _on_select, without the condition on where it comes from.
Opens(i) ==
    /\ IF current = i THEN UNCHANGED typing ELSE SwapDraft(i) /\ reply' = None
    /\ current' = i /\ dismissed' = None

\* A click in the list, or a step to the next conversation.
Select(i) ==
    /\ Free /\ rows[i] # None /\ setting.modeOf[rows[i]] = mode
    /\ Opens(i)
    /\ Show(rows[i], image) /\ UNCHANGED vault /\ Header(i, mode, None)
    /\ UNCHANGED <<setting, mode, preview, inviting>>

\* The user writes to whom the chat shows.
Type ==
    /\ Free /\ page = "chat" /\ writable /\ view # None
    /\ field' = field \cup {view}
    /\ UNCHANGED <<setting, vault, mode, current, drafts, reply, view, page, writable,
                   dismissed, preview, inviting, image>>

\* Enter.  With no conversation open the text is gone all the same.
Submit ==
    /\ Free /\ page = "chat" /\ writable /\ field # {}
    /\ field' = {}
    /\ IF current = None THEN UNCHANGED <<reply, view, image>>
       ELSE reply' = None /\ Show(Here, image)
    /\ UNCHANGED <<setting, vault, mode, current, drafts, page, writable, dismissed,
                   preview, inviting>>

\* "Reply" on a message that is shown and is found among those of the conversation.
Reply ==
    /\ Free /\ page = "chat" /\ mode = "centre" /\ setting.account
    /\ Here # None /\ view = Here /\ reply' = Here
    /\ UNCHANGED <<setting, vault, mode, current, field, drafts, view, page, writable,
                   dismissed, preview, inviting, image>>

\* Esc with an answer on show, or the cross beside it.
ClearReply ==
    /\ Free /\ page = "chat" /\ reply # None /\ reply' = None
    /\ UNCHANGED <<setting, vault, mode, current, field, drafts, view, page, writable,
                   dismissed, preview, inviting, image>>

\* Esc in an empty input.
Close ==
    /\ Free /\ page = "chat" /\ current # None /\ reply = None /\ field = {}
    /\ SwapDraft(None)
    /\ current' = None /\ view' = None /\ page' = "empty"
    /\ UNCHANGED <<setting, vault, mode, reply, writable, dismissed, preview, inviting, image>>

\* The other tab.
SwitchMode ==
    /\ Free /\ SwapDraft(None)
    /\ mode' \in {"p2p", "centre"} \ {mode}
    /\ current' = None /\ view' = None /\ page' = "empty"
    /\ UNCHANGED <<setting, vault, reply, writable, dismissed, preview, inviting, image>>

\* _begin_p2p_connect: a channel that is known or a new one; nothing is swapped.
Begin ==
    /\ Free /\ mode = "p2p" /\ ((current = None /\ field = {}) \/ setting.leaves)
    /\ \E i \in Id :
        /\ \/ rows[i] # None /\ setting.modeOf[rows[i]] = "p2p" /\ UNCHANGED vault
           \/ i = NewRow /\ MakesRow /\ setting.modeOf[made + 1] = "p2p"
        /\ current' = i
        /\ Show(rows'[i], image) /\ Header(i, mode, dismissed)
    /\ UNCHANGED <<setting, mode, typing, dismissed, preview, inviting>>

\* "Read the history" on the banner.
ReadHistory ==
    /\ Free /\ page = "over" /\ current # None
    /\ dismissed' = current /\ page' = "chat" /\ writable' = TRUE
    /\ UNCHANGED <<setting, vault, mode, current, typing, view, preview, inviting, image>>

\* A conversation is deleted from the list, after a question.
Delete(i) ==
    /\ Free /\ rows[i] # None /\ setting.modeOf[rows[i]] = mode
    /\ rows' = [rows EXCEPT ![i] = None]
    /\ IF current = i THEN current' = None /\ view' = None /\ page' = "empty"
       ELSE UNCHANGED <<current, view, page>>
    /\ UNCHANGED <<setting, made, pending, mode, typing, writable, dismissed, preview,
                   inviting, image>>

\* The settings: a logout may have wiped what is of the centre.
LogoutWipes ==
    /\ Free /\ setting.account
    /\ rows' = [i \in Id |-> IF rows[i] # None /\ setting.modeOf[rows[i]] = "centre" THEN None ELSE rows[i]]
    /\ IF current # None /\ rows'[current] = None
       THEN current' = None /\ view' = None /\ page' = "empty"
       ELSE UNCHANGED <<current, view, page>>
    /\ UNCHANGED <<setting, made, pending, mode, typing, writable, dismissed, preview,
                   inviting, image>>

\* Files are dropped on the window, and the preview accepted or left: _on_send_file
\* takes the conversation that is open by then.
Drop ==
    /\ Free /\ page = "chat" /\ Here # None /\ view = Here
    /\ preview' = Here
    /\ UNCHANGED <<setting, vault, mode, current, typing, view, page, writable, dismissed,
                   inviting, image>>

PreviewEnds ==
    /\ preview # None /\ preview' = None
    /\ UNCHANGED <<setting, vault, mode, current, typing, view, page, writable, dismissed,
                   inviting, image>>

\* "Write to a user": a name is asked for, a thread sends the invitation.
Invite ==
    /\ Free /\ mode = "centre" /\ setting.account /\ ~inviting
    /\ inviting' = TRUE
    /\ UNCHANGED <<setting, vault, mode, current, typing, view, page, writable, dismissed,
                   preview, image>>

-----------------------------------------------------------------------------
(* What the other threads bring, queued to the window's thread.            *)

\* _on_invite_done: the dialog, which the service may have made, is opened at once,
\* whatever tab there is.
InviteDone ==
    /\ inviting /\ inviting' = FALSE /\ ((Free /\ mode = "centre") \/ setting.barges)
    /\ \E i \in Id :
        /\ \/ rows[i] # None /\ setting.modeOf[rows[i]] = "centre" /\ UNCHANGED vault
           \/ i = NewRow /\ MakesRow /\ setting.modeOf[made + 1] = "centre"
        /\ Opens(i)
        /\ Show(rows'[i], image) /\ Header(i, mode, None)
    /\ UNCHANGED <<setting, mode, preview>>

InviteFails ==
    /\ inviting /\ inviting' = FALSE
    /\ UNCHANGED <<setting, vault, mode, current, typing, view, page, writable, dismissed,
                   preview, image>>

\* A sync or a room created here makes a row.
RoomAppears ==
    /\ setting.account /\ MakesRow /\ setting.modeOf[made + 1] = "centre"
    /\ UNCHANGED <<setting, mode, current, typing, view, page, writable, dismissed, preview,
                   inviting, image>>

\* The server says that we are out of a room: the row goes, the window hears
\* "synced" and does its list anew.
RoomForgotten(i) ==
    /\ setting.account /\ rows[i] # None /\ setting.modeOf[rows[i]] = "centre"
    /\ i = current => setting.kicked
    /\ rows' = [rows EXCEPT ![i] = None]
    /\ UNCHANGED <<setting, made, pending, mode, current, typing, view, page, writable,
                   dismissed, preview, inviting, image>>

\* An invitation is declined: room_removed, for the conversation of the button.
Declined(i) ==
    /\ setting.account /\ rows[i] \in pending
    /\ rows' = [rows EXCEPT ![i] = None]
    /\ current' = IF current = i THEN None ELSE current
    /\ UNCHANGED <<setting, made, pending, mode, typing, view, page, writable, dismissed,
                   preview, inviting, image>>

\* It is accepted, here or elsewhere: room_updated.
Accepted(i) ==
    /\ setting.account /\ rows[i] \in pending
    /\ pending' = pending \ {rows[i]} /\ UNCHANGED <<rows, made>>
    /\ IF current = i THEN Show(rows[i], image) /\ Header(i, mode, dismissed)
       ELSE UNCHANGED <<view, image, page, writable>>
    /\ UNCHANGED <<setting, mode, current, typing, dismissed, preview, inviting>>

RenderedAny(i) ==
    /\ rows[i] # None /\ Show(rows[i], image)
    /\ UNCHANGED <<setting, vault, mode, current, typing, page, writable, dismissed,
                   preview, inviting>>

\* A message of conversation i came, was sent, edited or deleted.
Rendered(i) ==
    /\ current = i /\ Show(rows[i], image)
    /\ UNCHANGED <<setting, vault, mode, current, typing, page, writable, dismissed,
                   preview, inviting>>

\* The channel of i opens or breaks.
P2PState(i) ==
    /\ current = i /\ mode = "p2p"
    /\ UNCHANGED vault /\ Header(i, mode, dismissed)
    /\ UNCHANGED <<setting, mode, current, typing, view, dismissed, preview, inviting, image>>

-----------------------------------------------------------------------------
(* Pictures, fetched by a thread each.  (Other files are fetched by a double *)
(* click and end in the same way.)                                         *)

\* fetch_media: without a session, or in the tab of the channels whatever is open
\* there, the controller gives nothing back and raises nothing.
AsksTheCentre == mode = "centre" /\ setting.account

Fetched(m) ==
    /\ image[m] = "asked"
    /\ image' = [image EXCEPT ![m] = IF AsksTheCentre THEN "come" ELSE "nothing"]
    /\ UNCHANGED <<setting, vault, mode, current, typing, view, page, writable, dismissed,
                   preview, inviting>>

FetchFails(m) ==
    /\ image[m] = "asked" /\ AsksTheCentre
    /\ image' = [image EXCEPT ![m] = "missed"]
    /\ UNCHANGED <<setting, vault, mode, current, typing, view, page, writable, dismissed,
                   preview, inviting>>

NotedForgetsFailure(m) ==
    CASE image[m] = "come" -> "here" [] image[m] \in {"missed", "nothing"} -> "absent"

\* What the end of a fetch leaves of the picture.
Noted(m) ==
    CASE image[m] = "come" -> "here" [] image[m] = "missed" -> "failed"
      [] image[m] = "nothing" -> "absent"

MediaReady(m) ==
    /\ image[m] \in {"come", "missed", "nothing"}
    /\ LET im == [image EXCEPT ![m] = Noted(m)] IN
        IF current = None THEN image' = im /\ UNCHANGED view ELSE Show(Here, im)
    /\ UNCHANGED <<setting, vault, mode, current, typing, page, writable, dismissed,
                   preview, inviting>>

-----------------------------------------------------------------------------
Fetches(m) == Fetched(m) \/ FetchFails(m) \/ MediaReady(m)

Next ==
    \/ Type \/ Submit \/ Reply \/ ClearReply \/ Close \/ SwitchMode \/ Begin \/ ReadHistory
    \/ LogoutWipes \/ Drop \/ PreviewEnds \/ Invite \/ InviteDone \/ InviteFails \/ RoomAppears
    \/ \E i \in Id : Select(i) \/ Delete(i) \/ RoomForgotten(i) \/ Declined(i) \/ Accepted(i)
                     \/ Rendered(i) \/ P2PState(i)
    \/ \E m \in Pictured : Fetches(m)

Spec == Init /\ [][Next]_vars

\* A thread that fetches comes to an end, and its signal is handled.
FairSpec == Spec /\ \A m \in Pictured : WF_vars(Fetches(m))

-----------------------------------------------------------------------------
(* What it is for.                                                         *)

\* A conversation that is open never becomes another one.
Kept == ~(setting.kicked /\ setting.reused)

\* What would be sent by Enter was typed for the conversation it goes to, and so
\* was every draft kept for a conversation there is.
TextStaysHome ==
    ~setting.leaves /\ ~setting.reused /\ Here # None =>
        /\ page = "chat" /\ writable => field \subseteq {Here}
        /\ \A i \in Id : rows[i] # None => drafts[i] \subseteq {rows[i]}

\* An answer that would be sent quotes a message of the conversation it goes to.
ReplyStaysHome ==
    Kept /\ mode = "centre" /\ Here # None /\ reply # None => reply = Here

\* What is shown is what is open, in the tab where it is listed; and who can write,
\* writes to a conversation there is.
ShownIsOpen ==
    ~setting.kicked /\ ~setting.barges /\ page = "chat" /\ writable =>
        Here # None /\ view = Here /\ setting.modeOf[Here] = mode

\* Files go to the conversation they were dropped on, if they go anywhere.
FilesGoWhereDropped ==
    Kept /\ ~setting.barges /\ preview # None => Here \in {preview, None}

\* What the user made for one conversation never goes to another.
GoesWhereMeant == TypeOK /\ TextStaysHome /\ ReplyStaysHome /\ FilesGoWhereDropped

\* A room is open in the tab of the channels: an invitation was answered there.
OpenInTheOtherTab == mode = "p2p" /\ Here # None /\ setting.modeOf[Here] = "centre"

\* Once the user stays in a tab every fetch settles: no picture is asked for for ever,
\* unless what stays open is a room in the tab of the channels.
StaysInATab == <>[](mode = "centre") \/ <>[](mode = "p2p")

FetchesSettle ==
    setting.account /\ StaysInATab =>
        \A m \in Pictured : []<>(image[m] \in {"absent", "failed", "here"} \/ OpenInTheOtherTab)
=============================================================================
