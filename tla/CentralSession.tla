---------------------------- MODULE CentralSession ----------------------------
(***************************************************************************)
(* Being logged in to the centre: CentralizedService.login, resume, logout *)
(* and what they start and stop, the session kept in the vault             *)
(* (account.py), and the threads of the window that call them.             *)
(*                                                                         *)
(* The service has one REST client, one SyncEngine, one live loop and one  *)
(* poll, in attributes of the service.  Its coroutines run on one event    *)
(* loop and give way at their awaits; nothing keeps two of them apart.     *)
(* The module CentralSync has what is synchronised.                        *)
(***************************************************************************)
EXTENDS Naturals, FiniteSets

CONSTANTS
    Task,      \* the calls of one user, each made once
    Kind,      \* Kind[t]: "login", "resume", "logout"
    Settings,  \* subset of Setting
    None

\* slow: the server may take longer than the caller's budget (30 s, and 60 s for
\* each request).  hasty: the user logs in or out while an earlier login or the
\* resume of the start is under way: the buttons are there.  wipes: the history
\* is to be wiped at logout.
Setting == [slow : BOOLEAN, hasty : BOOLEAN, wipes : BOOLEAN]

ASSUME CentralAssumption ==
    /\ Kind \in [Task -> {"login", "resume", "logout"}]
    /\ Settings \subseteq Setting /\ None \notin Task \cup {"ok", "failed", "nothing"}

VARIABLES
    setting,  \* one of Settings, for the whole behaviour
    up,       \* the vault is open and the service's loop runs
    pc,       \* where each coroutine is
    then,     \* what follows its teardown: "activate", "clear", "logout"
    told,     \* what its caller has learnt: None, "ok", "failed", "nothing"
    svc,      \* the attributes of the service and the loops that run, see Attributes
    ending,   \* the loops that are cancelled and whose tasks have not ended
    waits,    \* whose loop a teardown awaits
    saved,    \* the vault: whose central.server_url, username, user_id, and whose token
    cached,   \* the vault has rooms or messages of the centre
    torn      \* history: the program died inside save_session or clear_session

tasks == <<ending, waits>>
vars == <<setting, up, pc, then, told, svc, tasks, saved, cached, torn>>

TaskOrNone == Task \cup {None}

\* cur stands for _rest, _sync and _session, which are set and cleared together;
\* a session, a loop and a client bear the name of the call that made them.
Attributes == [cur : TaskOrNone, ws : TaskOrNone, poll : TaskOrNone,
               lives : SUBSET Task, polls : SUBSET Task, closed : SUBSET Task]

Fresh == [cur |-> None, ws |-> None, poll |-> None, lives |-> {}, polls |-> {}, closed |-> {}]

Resting == {"new", "done", "gone"}

UnderWay(t) == pc[t] \notin Resting

-----------------------------------------------------------------------------
CallsOK ==
    /\ setting \in Settings /\ up \in BOOLEAN /\ cached \in BOOLEAN
    /\ pc \in [Task -> Resting \cup {"request", "poll", "ws", "close", "sync"}]
    /\ then \in [Task -> {"activate", "clear", "logout"}]
    /\ told \in [Task -> {None, "ok", "failed", "nothing"}]
    /\ svc \in Attributes
    /\ saved \in [head : TaskOrNone, token : TaskOrNone]
    \* A loop was started by a call that came so far; with the vault closed none runs.
    /\ \A t \in svc.lives \cup svc.polls : pc[t] = "done" /\ Kind[t] # "logout"
    /\ ~up => svc = Fresh /\ \A t \in Task : ~UnderWay(t)

TasksOK ==
    /\ ending \subseteq {"poll", "ws"} \X Task /\ waits \in [Task -> TaskOrNone]
    /\ ~up => ending = {}

TypeOK == CallsOK /\ TasksOK

Init ==
    /\ setting \in Settings /\ up = TRUE
    /\ pc = [t \in Task |-> "new"] /\ told = [t \in Task |-> None]
    /\ then = [t \in Task |-> "activate"]
    /\ ending = {} /\ waits = [t \in Task |-> None]
    /\ svc = Fresh /\ cached = FALSE /\ torn = FALSE
    /\ saved = [head |-> None, token |-> None]

-----------------------------------------------------------------------------
(* _teardown_session, from one await to the next.  Each operator takes the *)
(* attributes and gives the new ones and the await at which it stops.  A   *)
(* task that another teardown has cancelled is cancelled and awaited again *)
(* until it has ended; of one that has ended the await does not wait.      *)

\* After aclose: the session is gone, whosever it is by now.
Forgotten(s) == <<[s EXCEPT !.cur = None], "over">>

LiveStopped(s) ==
    LET n == [s EXCEPT !.ws = None] IN
    IF s.cur # None THEN <<[n EXCEPT !.closed = @ \cup {s.cur}], "close">> ELSE Forgotten(n)

PollStoppedKeepsLive(s) == LiveStopped([s EXCEPT !.poll = None])

PollStopped(s) ==
    LET n == [s EXCEPT !.poll = None] IN
    IF s.ws \in s.lives \/ <<"ws", s.ws>> \in ending
    THEN <<[n EXCEPT !.lives = @ \ {s.ws}], "ws">>
    ELSE LiveStopped(n)

TeardownUncancelled(s) ==
    IF s.poll \in s.polls THEN <<s, "poll">> ELSE PollStopped(s)

Teardown(s) ==
    IF s.poll \in s.polls \/ <<"poll", s.poll>> \in ending
    THEN <<[s EXCEPT !.polls = @ \ {s.poll}], "poll">>
    ELSE PollStopped(s)

\* The task that t awaits has not ended.
Waits(t) ==
    \/ <<pc[t], waits[t]>> \in ending
    \/ pc[t] = "poll" /\ waits[t] \in svc.polls
    \/ pc[t] = "ws" /\ waits[t] \in svc.lives

\* The part that follows the await at which t stands.
Resumed(t) ==
    CASE pc[t] = "poll" -> PollStopped(svc)
      [] pc[t] = "ws" -> LiveStopped(svc)
      [] pc[t] = "close" -> Forgotten(svc)

-----------------------------------------------------------------------------
(* The vault: account.py.                                                  *)

Whole(t) == [head |-> t, token |-> t]
NoSession == [head |-> None, token |-> None]

\* load_session finds nothing without a token, and raises without a user_id.
Loads == saved.token # None /\ saved.head # None
Unreadable == saved.token # None /\ saved.head = None

-----------------------------------------------------------------------------
(* The calls.                                                              *)

\* The tasks a teardown has cancelled when it leaves the attributes s, and the one
\* it awaits at w.
Cancelled(s) == {<<"poll", u>> : u \in svc.polls \ s.polls}
                \cup {<<"ws", u>> : u \in svc.lives \ s.lives}
Awaits(s, w) == CASE w = "poll" -> s.poll [] w = "ws" -> s.ws [] OTHER -> None

\* What a coroutine of t leaves when it stops at await w with attributes s.
Stops(t, s, w) ==
    /\ svc' = s /\ pc' = [pc EXCEPT ![t] = w]
    /\ ending' = ending \cup Cancelled(s)
    /\ waits' = [waits EXCEPT ![t] = Awaits(s, w)]

Ends(t, what) ==
    /\ pc' = [pc EXCEPT ![t] = "done"]
    /\ waits' = [waits EXCEPT ![t] = None] /\ ending' = ending
    /\ told' = [told EXCEPT ![t] = IF @ = None THEN what ELSE @]

\* A user with some patience makes no call before the one before is answered; a
\* logout keeps the window from any other.
MayCall(t) ==
    /\ up /\ pc[t] = "new"
    /\ \A u \in Task : UnderWay(u) /\ told[u] = None => setting.hasty /\ Kind[u] # "logout"

\* activate, past its teardown: the client, the session and the engine are set,
\* the session is saved, and the first sync_all is sent off.
Activates(t, s) ==
    /\ Stops(t, [s EXCEPT !.cur = t], "sync")
    /\ saved' = Whole(t)
    /\ UNCHANGED <<told, cached>>

FollowsForgetsWiping(t, s) ==
    CASE then[t] = "activate" -> Activates(t, s)
      [] OTHER -> svc' = s /\ Ends(t, "ok") /\ saved' = NoSession /\ UNCHANGED cached

\* What follows a teardown of t that is over.
Follows(t, s) ==
    CASE then[t] = "activate" -> Activates(t, s)
      [] then[t] = "clear" ->
            svc' = s /\ Ends(t, "failed") /\ saved' = NoSession /\ UNCHANGED cached
      [] then[t] = "logout" ->
            /\ svc' = s /\ Ends(t, "ok") /\ saved' = NoSession
            /\ cached' = (cached /\ ~setting.wipes)

Continues(t, r) ==
    IF r[2] = "over" THEN Follows(t, r[1])
    ELSE Stops(t, r[1], r[2]) /\ UNCHANGED <<told, saved, cached>>

\* The window's threads.  A login begins with a request, a resume with the
\* session of the vault, a logout with a request if there is a client.
CallLogin(t) ==
    /\ Kind[t] = "login" /\ MayCall(t)
    /\ pc' = [pc EXCEPT ![t] = "request"]
    /\ UNCHANGED <<setting, up, then, told, svc, tasks, saved, cached, torn>>

\* When the window opens, with a service that has done nothing yet.
CallResume(t) ==
    /\ Kind[t] = "resume" /\ MayCall(t) /\ Loads /\ svc = Fresh
    /\ \A u \in Task : ~UnderWay(u)
    /\ Continues(t, Teardown(svc))
    /\ UNCHANGED <<setting, up, then, torn>>

\* The button of the settings, for a session there is.
CallLogout(t) ==
    /\ Kind[t] = "logout" /\ MayCall(t) /\ svc.cur # None
    /\ pc' = [pc EXCEPT ![t] = "request"]
    /\ then' = [then EXCEPT ![t] = "logout"]
    /\ UNCHANGED <<setting, up, told, svc, tasks, saved, cached, torn>>

\* The answer of the server: a session, or (to a logout) anything.
Answered(t) ==
    /\ pc[t] = "request"
    /\ Continues(t, Teardown(svc))
    /\ UNCHANGED <<setting, up, then, torn>>

Refused(t) ==
    /\ pc[t] = "request" /\ Kind[t] = "login"
    /\ Ends(t, "failed")
    /\ UNCHANGED <<setting, up, then, svc, saved, cached, torn>>

TearsOn(t) ==
    /\ pc[t] \in {"poll", "ws", "close"} /\ ~Waits(t)
    /\ Continues(t, Resumed(t))
    /\ UNCHANGED <<setting, up, then, torn>>

\* sync_all returns: the live loop is started for whatever session there is, the
\* poll in any case.
Started(t) ==
    [svc EXCEPT !.ws = IF svc.cur = None THEN @ ELSE t,
                !.lives = IF svc.cur = None THEN @ ELSE @ \cup {t},
                !.poll = t, !.polls = @ \cup {t}]

Synced(t) ==
    /\ pc[t] = "sync"
    /\ svc' = Started(t) /\ cached' = TRUE
    /\ Ends(t, "ok")
    /\ UNCHANGED <<setting, up, then, saved, torn>>

\* A login whose first sync fails raises; what it had set stays.  (A client that
\* was closed under it raises RuntimeError, which the window does not expect.)
SyncFails(t) ==
    /\ pc[t] = "sync"
    /\ Ends(t, IF t \in svc.closed THEN "nothing" ELSE "failed")
    /\ UNCHANGED <<setting, up, then, svc, saved, cached, torn>>

\* A resume that is refused is undone, and the stored session dropped.
ResumeRefused(t) ==
    /\ pc[t] = "sync" /\ Kind[t] = "resume"
    /\ then' = [then EXCEPT ![t] = "clear"]
    /\ LET r == Teardown(svc) IN
        IF r[2] = "over"
        THEN svc' = r[1] /\ Ends(t, "failed") /\ saved' = NoSession /\ UNCHANGED cached
        ELSE Stops(t, r[1], r[2]) /\ UNCHANGED <<told, saved, cached>>
    /\ UNCHANGED <<setting, up, torn>>

\* The budget of the caller is over; the coroutine goes on.  TimeoutError is no
\* CentralizedError: the thread ends without its signal.
Timeout(t) ==
    /\ setting.slow /\ UnderWay(t) /\ told[t] = None
    /\ told' = [told EXCEPT ![t] = "nothing"]
    /\ UNCHANGED <<setting, up, pc, then, svc, tasks, saved, cached, torn>>

-----------------------------------------------------------------------------
(* The loops, and the end of the program.                                  *)

\* Rooms and messages come in.  The poll asks for the engine of the service, the
\* live loop keeps the one it began with.
PollSyncs == svc.polls # {} /\ svc.cur # None
LiveSyncs == svc.lives # {}

Receives ==
    /\ PollSyncs \/ LiveSyncs
    /\ cached' = TRUE
    /\ UNCHANGED <<setting, up, pc, then, told, svc, tasks, saved, torn>>

\* The live loop ends by an error, the poll by a refused token.
LoopEnds(t) ==
    /\ \/ t \in svc.lives /\ svc' = [svc EXCEPT !.lives = @ \ {t}]
       \/ t \in svc.polls /\ svc.cur # None /\ svc' = [svc EXCEPT !.polls = @ \ {t}]
    /\ UNCHANGED <<setting, up, pc, then, told, tasks, saved, cached, torn>>

\* A task that was cancelled ends: the poll and the live loop let the cancellation
\* through, after what their requests and their connection have to close.
TaskEnds ==
    /\ \E loop \in ending : ending' = ending \ {loop}
    /\ UNCHANGED <<setting, up, pc, then, told, svc, waits, saved, cached, torn>>

\* The service's loop is stopped, and whatever runs on it.
Gone ==
    /\ up' = FALSE /\ svc' = Fresh
    /\ ending' = {} /\ waits' = [t \in Task |-> None]
    /\ pc' = [t \in Task |-> IF UnderWay(t) THEN "gone" ELSE pc[t]]
    /\ told' = [t \in Task |-> IF UnderWay(t) /\ told[t] = None THEN "nothing" ELSE told[t]]

\* The vault is locked (controller.lock stops the loop first), or the program dies.
LockOrDie ==
    /\ up /\ Gone
    /\ UNCHANGED <<setting, then, saved, cached, torn>>

\* The four settings are stored one by one, the token last, and cleared in the
\* same order: the program dies in between.  (A resume stores what is stored.)
DiesSaving(t) ==
    /\ up /\ pc[t] \in {"request", "poll", "ws", "close"} /\ ~Waits(t)
    /\ (IF pc[t] = "request" THEN Teardown(svc) ELSE Resumed(t))[2] = "over"
    /\ Kind[t] = "resume" => then[t] = "clear"
    /\ saved' = [saved EXCEPT !.head = IF then[t] = "activate" THEN t ELSE None]
    /\ saved' # saved
    /\ torn' = TRUE /\ Gone
    /\ UNCHANGED <<setting, then, cached>>

Opens ==
    /\ ~up /\ up' = TRUE
    /\ UNCHANGED <<setting, pc, then, told, svc, tasks, saved, cached, torn>>

-----------------------------------------------------------------------------
Proceeds(t) ==
    Answered(t) \/ Refused(t) \/ TearsOn(t) \/ Synced(t) \/ SyncFails(t) \/ ResumeRefused(t)

Next ==
    \/ \E t \in Task :
        \/ CallLogin(t) \/ CallResume(t) \/ CallLogout(t)
        \/ Proceeds(t) \/ Timeout(t) \/ LoopEnds(t) \/ DiesSaving(t)
    \/ TaskEnds \/ Receives \/ LockOrDie \/ Opens

Spec == Init /\ [][Next]_vars
\* Every request and every closing of a client ends, at the latest by its own
\* budget, and so does a task that was cancelled; no other loop is obliged to end.
\* The event loop resumes whoever can go on.
FairSpec == Spec /\ WF_vars(TaskEnds \/ \E t \in Task : Proceeds(t))

-----------------------------------------------------------------------------
(* What it is for.                                                         *)

Quiet == \A t \in Task : ~UnderWay(t)

\* Each call was answered before the next was made.
Orderly == ~setting.slow /\ ~setting.hasty

\* When nothing is under way, one live loop and one poll run at most, both for the
\* session there is and with a client that is open; with no session, none.
OneOfEach ==
    Orderly /\ Quiet =>
        /\ svc.lives \cup svc.polls \subseteq {svc.cur}
        /\ svc.cur \notin svc.closed

\* The session that runs is the one the next start resumes; with none running,
\* what is stored is left from an earlier life.
RunsWhatIsStored ==
    Orderly /\ Quiet /\ svc.cur # None => saved = Whole(svc.cur)

\* In every interleaving: the token stored is the token of the user stored, and a
\* start does not fail on half a session, unless the program died while storing.
StoredIsWhole == ~torn => saved.head = saved.token

\* In every interleaving: a loop that is cancelled is awaited until it has ended, also
\* by whoever comes second, so that none is left when nothing is under way.
NoneEnding == Quiet => ending = {}

\* The client, its loops and the vault speak of one session.
OneSession == TypeOK /\ OneOfEach /\ RunsWhatIsStored /\ StoredIsWhole /\ NoneEnding

\* After a logout nothing of the account is stored, open or running, and if the
\* history is to be wiped, none is left.
LogoutLeavesNothing ==
    [][\A t \in Task :
        Orderly /\ Kind[t] = "logout" /\ told[t] = None /\ told'[t] = "ok" =>
            /\ saved' = NoSession /\ svc'.cur = None
            /\ svc'.lives = {} /\ svc'.polls = {} /\ ending' = {}
            /\ setting.wipes => ~cached']_vars

\* Every call ends, in every interleaving: a loop that a teardown awaits was cancelled,
\* by it or by another, also when two teardowns await the same one and attributes
\* are set anew meanwhile.
EveryCallEnds == []<>Quiet

-----------------------------------------------------------------------------
(* What the code does not keep; see the README.                            *)

\* Whatever the user does, one live loop and one poll.
NoOrphans == Quiet => svc.lives \subseteq {svc.ws} /\ svc.polls \subseteq {svc.poll}

\* Who is told that the login failed is not logged in.
FailedIsOut ==
    \A t \in Task : told[t] = "failed" /\ Quiet => svc.cur # t

\* Whoever calls is told how it ended.
EverybodyIsTold == \A t \in Task : pc[t] = "done" => told[t] # "nothing"

\* A program that died leaves a vault with which the next one starts.
NextStartWorks == ~Unreadable
=============================================================================
