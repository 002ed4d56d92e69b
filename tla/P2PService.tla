------------------------------ MODULE P2PService ------------------------------
(***************************************************************************)
(* P2PService (mys_decentralized/service.py) with the sessions it runs and *)
(* the window that watches it (mys_ui/windows/main_window.py), for one     *)
(* conversation.  Coroutines share the service's loop, so a step is what   *)
(* runs between two awaits; every click starts a worker thread that waits  *)
(* for its coroutine no longer than its budget; what either tells the      *)
(* window goes through one queue of Qt signals.                            *)
(*                                                                         *)
(* An attempt and the session it opens carry the same number.  A session   *)
(* lives on its first channel (relay or mesh) and, over a relay, on a      *)
(* direct WebRTC channel besides.  What is said on the channels is         *)
(* P2PSession's matter, how two clients find each other Rendezvous's and   *)
(* MeshRouting's.                                                          *)
(***************************************************************************)
EXTENDS Integers, Sequences

CONSTANTS
    MaxAttempts,   \* clicks on "connect" (bound)
    MaxSignals,    \* signals waiting before the peer is held back (bound)
    UsesDirect,    \* a direct_factory is configured
    None

ASSUME P2PServiceAssumption ==
    /\ MaxAttempts \in Nat \ {0} /\ MaxSignals \in Nat \ {0}
    /\ UsesDirect \in BOOLEAN
    /\ None \notin 1 .. MaxAttempts

Attempt == 1 .. MaxAttempts

VARIABLES
    stage,      \* where the coroutine _connect of an attempt is
    path,       \* what pair() chose: relay or mesh
    channel,    \* the first channel; "closing" while _recv_loop awaits its close
    direct,     \* the session's _direct is set
    ended,      \* _disconnected was set, or close() called
    session,    \* _sessions[conversation]
    link,       \* _links[conversation]
    worker,     \* the thread of _p2p_connect_worker
    signals,    \* signals on their way to the window, oldest first
    connecting, \* the conversation is in _p2p_connecting
    online,     \* _p2p_online of the conversation
    row,        \* the row: kept, being deleted, gone
    clicks      \* attempts so far

service == <<stage, path, channel, direct, ended, session, link>>
window == <<connecting, online, row, clicks>>
vars == <<service, worker, signals, window>>

Signal == {"connected", "disconnected", "direct", "relay", "mesh", "message",
           "worker done", "worker failed"}

Emit(s) == signals' = signals \o s
Room == Len(signals) < MaxSignals

\* An attempt that takes one of the two places of the relay's room.
InTheRoom(a) == path[a] = "relay" /\ channel[a] # "none"

Started(a) == stage[a] \in {"priming", "up"} /\ ended[a] = "no"
Reachable(a) == channel[a] = "alive" \/ direct[a]

\* The session reports that its peer is gone: whatever is registered under the
\* conversation leaves with it (_handle_disconnect).
Disconnected(a) ==
    IF ended[a] # "no"
    THEN UNCHANGED <<ended, session, link, signals>>
    ELSE /\ ended' = [ended EXCEPT ![a] = "reported"]
         /\ session' = None
         /\ link' = None
         /\ Emit(IF session # None THEN <<"disconnected">> ELSE <<>>)

-----------------------------------------------------------------------------
(* The attempt. *)

\* A click, on the banner or with the phrase typed again.
Connect ==
    /\ row = "kept" /\ ~connecting
    /\ clicks < MaxAttempts
    /\ clicks' = clicks + 1
    /\ connecting' = TRUE
    /\ stage' = [stage EXCEPT ![clicks + 1] = "pairing"]
    /\ worker' = [worker EXCEPT ![clicks + 1] = "waiting"]
    /\ UNCHANGED <<path, channel, direct, ended, session, link, signals, online, row>>

Paired(a) ==
    /\ stage[a] = "pairing"
    /\ \E p \in {"relay", "mesh"} :
          /\ p = "relay" => ~ \E b \in Attempt : InTheRoom(b)
          /\ path' = [path EXCEPT ![a] = p]
    /\ stage' = [stage EXCEPT ![a] = "handshake"]
    /\ channel' = [channel EXCEPT ![a] = "alive"]
    /\ UNCHANGED <<direct, ended, session, link, worker, signals, window>>

\* The initiator first waits for send_prime, whatever becomes of it; the
\* responder has told the window by the end of the same step.
Told(a) == Emit(<<"connected">> \o IF path[a] = "mesh" THEN <<"mesh">> ELSE <<>>)

Registered(a) == session' = a

HandshakeDone(a) ==
    /\ stage[a] = "handshake" /\ channel[a] = "alive"
    /\ Registered(a)
    /\ link' = IF UsesDirect /\ path[a] = "relay" THEN a ELSE link
    /\ \/ stage' = [stage EXCEPT ![a] = "priming"] /\ UNCHANGED signals
       \/ stage' = [stage EXCEPT ![a] = "up"] /\ Told(a)
    /\ UNCHANGED <<path, channel, direct, ended, worker, window>>

Primed(a) ==
    /\ stage[a] = "priming"
    /\ stage' = [stage EXCEPT ![a] = "up"]
    /\ Told(a)
    /\ UNCHANGED <<path, channel, direct, ended, session, link, worker, window>>

\* No peer, a refused room, a wrong phrase, a broken channel.
Fails(a) ==
    /\ stage[a] \in {"pairing", "handshake"}
    /\ stage' = [stage EXCEPT ![a] = "failed"]
    /\ channel' = [channel EXCEPT ![a] = "none"]
    /\ UNCHANGED <<path, direct, ended, session, link, worker, signals, window>>

Reports(a) ==
    /\ worker[a] = "waiting" /\ stage[a] \in {"up", "failed"}
    /\ worker' = [worker EXCEPT ![a] = "gone"]
    /\ Emit(<<IF stage[a] = "up" THEN "worker done" ELSE "worker failed">>)
    /\ UNCHANGED <<service, window>>

\* Fault: result() without a timeout.
WaitsForEver(a) == FALSE /\ UNCHANGED vars

\* The budget of start_session is spent; the coroutine goes on without its worker.
GivesUp(a) ==
    /\ worker[a] = "waiting" /\ stage[a] \in {"pairing", "handshake", "priming"}
    /\ worker' = [worker EXCEPT ![a] = "gone"]
    /\ Emit(<<"worker failed">>)
    /\ UNCHANGED <<service, window>>

-----------------------------------------------------------------------------
(* The session. *)

\* The peer left, or the connection broke; _recv_loop closes it.
ChannelBreaks(a) ==
    /\ Started(a) /\ channel[a] = "alive"
    /\ channel' = [channel EXCEPT ![a] = "closing"]
    /\ UNCHANGED <<stage, path, direct, ended, session, link, worker, signals, window>>

ChannelClosed(a) ==
    /\ channel[a] = "closing"
    /\ channel' = [channel EXCEPT ![a] = "none"]
    /\ IF direct[a] THEN UNCHANGED <<ended, session, link, signals>>
       ELSE Disconnected(a)
    /\ UNCHANGED <<stage, path, direct, worker, window>>

DirectOpens(a) ==
    /\ Room
    /\ Started(a) /\ Reachable(a)
    /\ link = a /\ session = a
    /\ direct' = [direct EXCEPT ![a] = TRUE]
    /\ Emit(<<"direct">>)
    /\ UNCHANGED <<stage, path, channel, ended, session, link, worker, window>>

\* Fault: a direct channel that dies last ends nothing.
DetachedQuietly(a) ==
    /\ Emit(IF channel[a] = "alive" THEN <<"relay">> ELSE <<>>)
    /\ UNCHANGED <<ended, session, link>>

DirectDetached(a) ==
    IF channel[a] = "alive"
    THEN Emit(<<"relay">>) /\ UNCHANGED <<ended, session, link>>
    ELSE Disconnected(a)

DirectCloses(a) ==
    /\ direct[a]
    /\ direct' = [direct EXCEPT ![a] = FALSE]
    /\ DirectDetached(a)
    /\ UNCHANGED <<stage, path, channel, worker, window>>

Receives(a) ==
    /\ Room
    /\ Started(a) /\ Reachable(a)
    /\ Emit(<<"message">>)
    /\ UNCHANGED <<service, worker, window>>

-----------------------------------------------------------------------------
(* The window. *)

ConnectingAfter(s) == connecting /\ s \notin {"worker done", "worker failed"}

OnlineAfter(s) ==
    CASE s \in {"connected", "message", "worker done"} -> TRUE
      [] s \in {"disconnected", "worker failed"} -> FALSE
      [] OTHER -> online

Hears ==
    /\ row # "deleting"
    /\ signals # <<>>
    /\ connecting' = ConnectingAfter(Head(signals))
    /\ online' = OnlineAfter(Head(signals))
    /\ signals' = Tail(signals)
    /\ UNCHANGED <<service, worker, row, clicks>>

\* delete_conversation first stops the registered session, waiting for the loop.
DeleteStops ==
    /\ row = "kept"
    /\ row' = "deleting"
    /\ IF session = None THEN UNCHANGED <<channel, direct, ended, signals>>
       ELSE /\ channel' = [channel EXCEPT ![session] = "none"]
            /\ direct' = [direct EXCEPT ![session] = FALSE]
            /\ ended' = [ended EXCEPT ![session] = "closed"]
            /\ Emit(<<"disconnected">>)
    /\ session' = None
    /\ link' = IF session = None THEN link ELSE None
    /\ UNCHANGED <<stage, path, worker, connecting, online, clicks>>

DeleteRows ==
    /\ row = "deleting"
    /\ row' = "gone"
    /\ online' = FALSE /\ connecting' = FALSE
    /\ UNCHANGED <<service, worker, signals, clicks>>

-----------------------------------------------------------------------------
Init ==
    /\ stage = [a \in Attempt |-> "none"] /\ path = [a \in Attempt |-> "none"]
    /\ channel = [a \in Attempt |-> "none"] /\ direct = [a \in Attempt |-> FALSE]
    /\ ended = [a \in Attempt |-> "no"]
    /\ session = None /\ link = None
    /\ worker = [a \in Attempt |-> "none"]
    /\ signals = <<>>
    /\ connecting = FALSE /\ online = FALSE /\ row = "kept" /\ clicks = 0

Next ==
    \/ Connect \/ Hears \/ DeleteStops \/ DeleteRows
    \/ \E a \in Attempt :
          \/ Paired(a) \/ HandshakeDone(a) \/ Primed(a) \/ Fails(a)
          \/ Reports(a) \/ GivesUp(a)
          \/ ChannelBreaks(a) \/ ChannelClosed(a)
          \/ DirectOpens(a) \/ DirectCloses(a) \/ Receives(a)

Spec == Init /\ [][Next]_vars

\* The loop and the threads run on; no peer has to answer.
FairSpec ==
    /\ Spec
    /\ WF_vars(Hears) /\ WF_vars(DeleteRows)
    /\ \A a \in Attempt :
          /\ WF_vars(Reports(a)) /\ WF_vars(GivesUp(a))
          /\ WF_vars(Primed(a)) /\ WF_vars(ChannelClosed(a))

-----------------------------------------------------------------------------
(* Every value stays where its table says. *)
TypeOK ==
    /\ stage \in [Attempt -> {"none", "pairing", "handshake", "priming", "up", "failed"}]
    /\ path \in [Attempt -> {"none", "relay", "mesh"}]
    /\ channel \in [Attempt -> {"none", "alive", "closing"}]
    /\ direct \in [Attempt -> BOOLEAN]
    /\ ended \in [Attempt -> {"no", "reported", "closed"}]
    /\ session \in Attempt \cup {None} /\ link \in Attempt \cup {None}
    /\ worker \in [Attempt -> {"none", "waiting", "gone"}]
    /\ signals \in Seq(Signal)
    /\ connecting \in BOOLEAN /\ online \in BOOLEAN
    /\ row \in {"kept", "deleting", "gone"}
    /\ clicks \in 0 .. MaxAttempts

(* A registered session can still reach its peer, or is just closing its    *)
(* last channel: whichever of relay and direct channel dies last, and even  *)
(* if it dies while the prime is being sent, the session leaves _sessions   *)
(* (Session._recv_loop, _detach_direct, _disconnect_once).                  *)
RegisteredLives ==
    /\ TypeOK
    /\ session # None =>
           /\ Started(session)
           /\ Reachable(session) \/ channel[session] = "closing"

(* Once begun, the wait for a peer ends: a handshake whose peer falls       *)
(* silent has no timeout of its own, only the worker's budget (_submit).    *)
WaitEnds == connecting ~> ~connecting

------------------------------------------------------------------------------
(* Promised by a comment of the code, and refuted by TLC on the instance   *)
(* the README names.                                                       *)

(* Told that a session lost its peer, the service takes that session and no *)
(* other out of its table: "снять её из активных" (_handle_disconnect).     *)
OnlyItselfEnds == [][session # None /\ session' = None => ended'[session] # "no"]_vars

Quiet ==
    /\ signals = <<>>
    /\ \A a \in Attempt : worker[a] # "waiting" /\ stage[a] # "priming"

(* When nothing is under way, the window shows a conversation online        *)
(* exactly while it has a live session (main_window.py:99).                 *)
OnlineAgrees == Quiet /\ row = "kept" => (online <=> session # None)

(* No session writes to a deleted conversation: its rows go only after its  *)
(* session was stopped (AppController.delete_conversation).                 *)
DeletedIsQuiet == row = "gone" => \A a \in Attempt : ~Started(a)

=============================================================================
