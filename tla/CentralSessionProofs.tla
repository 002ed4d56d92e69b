------------------------- MODULE CentralSessionProofs -------------------------
(***************************************************************************)
(* Proofs about CentralSession, for any number of logins, resumes and      *)
(* logouts and every setting: the client, its loops and the vault speak of *)
(* one session, and a logout leaves nothing.                               *)
(*                                                                         *)
(* That the stored session is the one that runs holds in every             *)
(* interleaving.  That one live loop and one poll run needs a user who     *)
(* waits for his answer (Orderly): then one call at most is under way      *)
(* (OneCall), and each await of its teardown has left less of the session  *)
(* (Running).  That no cancelled loop is left behind needs no such user: a *)
(* call awaits it (Awaited), and goes on only when it has ended.           *)
(***************************************************************************)
EXTENDS CentralSession, TLAPS

\* A logout tears down to log out; only a login or a resume synchronises.
Purpose ==
    /\ \A t \in Task : Kind[t] = "logout" /\ pc[t] # "new" => then[t] = "logout"
    /\ \A t \in Task : pc[t] = "sync" => then[t] = "activate"

Stored ==
    /\ StoredIsWhole
    /\ svc.cur # None => saved = Whole(svc.cur)

OneCall ==
    /\ \A t, u \in Task : UnderWay(t) /\ UnderWay(u) => t = u
    /\ \A t \in Task : pc[t] = "new" \/ UnderWay(t) => told[t] = None

\* t has not been the session yet.
Before(t) ==
    \/ pc[t] \in {"new", "request"}
    \/ pc[t] \in {"poll", "ws", "close"} /\ then[t] = "activate"

Tidy(s) == s.lives \subseteq {s.ws} \cap {s.cur} /\ s.polls \subseteq {s.poll} \cap {s.cur}

Running ==
    /\ Tidy(svc)
    /\ svc.cur \in svc.closed => \E t \in Task : pc[t] = "close"
    /\ \A t \in Task :
        /\ pc[t] \in {"poll", "ws", "close", "sync"} => svc.polls = {}
        /\ pc[t] \in {"ws", "close", "sync"} => svc.lives = {}
        /\ pc[t] = "sync" => svc.cur = t /\ t \notin svc.closed
        /\ Before(t) => svc.cur # t /\ t \notin svc.closed

IInv == CallsOK /\ Purpose /\ Stored /\ (Orderly => OneCall /\ Running)

-----------------------------------------------------------------------------
(* What the parts of the teardown leave of the attributes s.               *)

\* r: the attributes and the next await.  In any case: no loop is started, and the
\* session stays until the teardown is over.
Down(s, r) ==
    /\ r[1] \in Attributes /\ r[2] \in {"poll", "ws", "close", "over"}
    /\ r[1].lives \subseteq s.lives /\ r[1].polls \subseteq s.polls
    /\ r[1].cur = IF r[2] = "over" THEN None ELSE s.cur

\* If no loop ran but those the attributes name.
Bare(s, r) ==
    /\ r[1].polls = {} /\ Tidy(r[1])
    /\ r[2] # "poll" => r[1].lives = {}
    /\ r[1].closed = IF r[2] = "close" THEN s.closed \cup {s.cur} ELSE s.closed

\* After the closing of the client.
LEMMA ForgottenLeaves ==
    ASSUME NEW s \in Attributes
    PROVE  /\ Down(s, Forgotten(s)) /\ Forgotten(s)[2] = "over"
           /\ s.lives = {} /\ s.polls = {} => Bare(s, Forgotten(s))
BY DEF Down, Bare, Tidy, Forgotten, Attributes, TaskOrNone

\* After the wait for the live loop.
LEMMA LiveStoppedLeaves ==
    ASSUME NEW s \in Attributes
    PROVE  /\ Down(s, LiveStopped(s)) /\ LiveStopped(s)[2] \in {"close", "over"}
           /\ s.lives = {} /\ s.polls = {} => Bare(s, LiveStopped(s))
<1> DEFINE n == [s EXCEPT !.ws = None]
           c == [n EXCEPT !.closed = @ \cup {s.cur}]
<1>1. /\ n \in Attributes /\ n.cur = s.cur /\ n.lives = s.lives /\ n.polls = s.polls
      /\ n.closed = s.closed
    BY DEF Attributes, TaskOrNone
<1>2. CASE s.cur # None
    <2>1. LiveStopped(s) = <<c, "close">>
        BY <1>2 DEF LiveStopped
    <2>2. /\ c \in Attributes /\ c.cur = n.cur /\ c.lives = n.lives /\ c.polls = n.polls
          /\ c.closed = n.closed \cup {s.cur}
        BY <1>1, <1>2 DEF Attributes, TaskOrNone
    <2> HIDE DEF c, n
    <2>. QED BY <1>1, <2>1, <2>2 DEF Down, Bare, Tidy
<1>3. CASE s.cur = None
    <2>1. LiveStopped(s) = Forgotten(n)
        BY <1>3 DEF LiveStopped
    <2> HIDE DEF c, n
    <2>2. /\ Down(n, Forgotten(n)) /\ Forgotten(n)[2] = "over"
          /\ n.lives = {} /\ n.polls = {} => Bare(n, Forgotten(n))
        BY <1>1, ForgottenLeaves
    <2>. QED BY <1>1, <2>1, <2>2 DEF Down, Bare
<1>. QED BY <1>2, <1>3

\* After the wait for the poll.
LEMMA PollStoppedLeaves ==
    ASSUME NEW s \in Attributes
    PROVE  /\ Down(s, PollStopped(s))
           /\ Tidy(s) /\ s.polls = {} => Bare(s, PollStopped(s))
<1> DEFINE n == [s EXCEPT !.poll = None]
           w == [n EXCEPT !.lives = @ \ {s.ws}]
<1>1. /\ n \in Attributes /\ n.cur = s.cur /\ n.lives = s.lives /\ n.polls = s.polls
      /\ n.closed = s.closed
    BY DEF Attributes, TaskOrNone
<1>2. CASE s.ws \in s.lives \/ <<"ws", s.ws>> \in ending
    <2>1. PollStopped(s) = <<w, "ws">>
        BY <1>2 DEF PollStopped
    <2>2. /\ w \in Attributes /\ w.cur = n.cur /\ w.lives = n.lives \ {s.ws}
          /\ w.polls = n.polls /\ w.closed = n.closed
        BY <1>1 DEF Attributes, TaskOrNone
    <2> HIDE DEF w, n
    <2>. QED BY <1>1, <2>1, <2>2 DEF Down, Bare, Tidy
<1>3. CASE ~(s.ws \in s.lives \/ <<"ws", s.ws>> \in ending)
    <2>1. PollStopped(s) = LiveStopped(n)
        BY <1>3 DEF PollStopped
    <2>2. Tidy(s) => s.lives = {}
        BY <1>3 DEF Tidy
    <2> HIDE DEF w, n
    <2>3. /\ Down(n, LiveStopped(n)) /\ LiveStopped(n)[2] \in {"close", "over"}
          /\ n.lives = {} /\ n.polls = {} => Bare(n, LiveStopped(n))
        BY <1>1, LiveStoppedLeaves
    <2>. QED BY <1>1, <2>1, <2>2, <2>3 DEF Down, Bare
<1>. QED BY <1>2, <1>3

\* From the beginning.
LEMMA TeardownLeaves ==
    ASSUME NEW s \in Attributes
    PROVE  /\ Down(s, Teardown(s))
           /\ Tidy(s) => Bare(s, Teardown(s))
<1> DEFINE n == [s EXCEPT !.polls = @ \ {s.poll}]
<1>1. /\ n \in Attributes /\ n.cur = s.cur /\ n.lives = s.lives /\ n.polls = s.polls \ {s.poll}
      /\ n.closed = s.closed /\ n.ws = s.ws
    BY DEF Attributes, TaskOrNone
<1>2. CASE s.poll \in s.polls \/ <<"poll", s.poll>> \in ending
    <2>1. Teardown(s) = <<n, "poll">>
        BY <1>2 DEF Teardown
    <2> HIDE DEF n
    <2>. QED BY <1>1, <2>1 DEF Down, Bare, Tidy
<1>3. CASE ~(s.poll \in s.polls \/ <<"poll", s.poll>> \in ending)
    <2>1. Teardown(s) = PollStopped(s) /\ (Tidy(s) => s.polls = {})
        BY <1>3 DEF Teardown, Tidy
    <2>. QED BY <2>1, PollStoppedLeaves
<1>. QED BY <1>2, <1>3

\* Whoever goes on with a teardown finds what his last await left.
LEMMA ResumedLeaves ==
    ASSUME IInv, NEW t \in Task, pc[t] \in {"poll", "ws", "close"}
    PROVE  /\ Down(svc, Resumed(t))
           /\ pc[t] = "close" => Resumed(t)[2] = "over"
           /\ Orderly => Bare(svc, Resumed(t))
<1>1. svc \in Attributes
    BY DEF IInv, CallsOK
<1>2. Orderly => /\ Tidy(svc) /\ svc.polls = {}
                 /\ pc[t] \in {"ws", "close"} => svc.lives = {}
    BY DEF IInv, Running
<1>3. CASE pc[t] = "poll"
    BY <1>1, <1>2, <1>3, PollStoppedLeaves DEF Resumed
<1>4. CASE pc[t] = "ws"
    BY <1>1, <1>2, <1>4, LiveStoppedLeaves DEF Resumed
<1>5. CASE pc[t] = "close"
    BY <1>1, <1>2, <1>5, ForgottenLeaves DEF Resumed
<1>. QED BY <1>3, <1>4, <1>5

-----------------------------------------------------------------------------
(* What a call t may leave when its teardown has come to r, the purpose    *)
(* being k.                                                                *)

\* What a step of t finds: t is the only call, if the user is patient.
Stands(t, r, k) ==
    /\ up /\ pc[t] # "done" /\ (pc[t] = "close" => r[2] = "over")
    /\ Down(svc, r) /\ k \in {"activate", "clear", "logout"}
    /\ Kind[t] = "logout" => k = "logout"
    /\ Orderly => /\ Bare(svc, r) /\ told[t] = None
                  /\ \A u \in Task : UnderWay(u) => u = t
                  /\ k = "activate" => Before(t)
    /\ then' = [then EXCEPT ![t] = k]
    /\ UNCHANGED <<setting, up, torn>>

\* The teardown comes to its next await.
LEMMA StopKeeps ==
    ASSUME IInv, NEW t \in Task, NEW r, NEW k, Stands(t, r, k), r[2] # "over",
           Stops(t, r[1], r[2]), UNCHANGED <<told, saved, cached>>
    PROVE  IInv'
<1> DEFINE w == r[2]
<1>1. /\ svc' = r[1] /\ pc' = [pc EXCEPT ![t] = w] /\ w \in {"poll", "ws", "close"}
      /\ then' = [then EXCEPT ![t] = k] /\ k \in {"activate", "clear", "logout"}
      /\ UNCHANGED <<setting, up, torn, told, saved, cached>> /\ up /\ pc[t] # "done"
      /\ pc[t] # "close" /\ (Kind[t] = "logout" => k = "logout")
    BY DEF Stands, Stops, Down
<1>2. /\ svc' \in Attributes /\ svc'.cur = svc.cur
      /\ svc'.lives \subseteq svc.lives /\ svc'.polls \subseteq svc.polls
    BY <1>1 DEF Stands, Down
<1>3. Orderly => /\ svc'.polls = {} /\ Tidy(svc') /\ (w # "poll" => svc'.lives = {})
                 /\ svc'.closed = IF w = "close" THEN svc.closed \cup {svc.cur} ELSE svc.closed
                 /\ told[t] = None /\ \A u \in Task : UnderWay(u) => u = t
                 /\ k = "activate" => Before(t)
    BY <1>1 DEF Stands, Bare
<1> HIDE DEF w
<1>4. CallsOK'
    BY <1>1, <1>2 DEF IInv, CallsOK, Resting
<1>5. /\ \A u \in Task : pc'[u] = IF u = t THEN w ELSE pc[u]
      /\ \A u \in Task : then'[u] = IF u = t THEN k ELSE then[u]
      /\ \A u \in Task : UnderWay(u)' => u = t \/ UnderWay(u)
    BY <1>1 DEF IInv, CallsOK, UnderWay
<1>6. Purpose'
    BY <1>1, <1>5 DEF IInv, Purpose
<1>7. Stored'
    BY <1>1, <1>2 DEF IInv, Stored, StoredIsWhole, Whole
<1>8. ASSUME Orderly' PROVE OneCall' /\ Running'
    <2>1. Orderly
        BY <1>1, <1>8 DEF Orderly
    <2>2. OneCall'
        BY <1>1, <1>3, <1>5, <2>1 DEF IInv, OneCall
    <2>3. svc'.cur \in svc'.closed => \E u \in Task : pc'[u] = "close"
        <3>1. w # "close" => svc.cur \notin svc.closed
            <4>1. svc.cur \in svc.closed => \E u \in Task : pc[u] = "close"
                BY <2>1 DEF IInv, Running
            <4>2. \A u \in Task : pc[u] = "close" => UnderWay(u)
                BY DEF UnderWay, Resting
            <4>. QED BY <1>1, <1>3, <2>1, <4>1, <4>2
        <3>. QED BY <1>2, <1>3, <1>5, <2>1, <3>1
    <2>4. ASSUME NEW u \in Task, Before(u)' PROVE svc'.cur # u /\ u \notin svc'.closed
        <3>1. Before(u)
            BY <1>1, <1>3, <1>5, <2>1, <2>4 DEF Before
        <3>2. svc.cur # u /\ u \notin svc.closed
            BY <2>1, <3>1 DEF IInv, Running
        <3>. QED BY <1>2, <1>3, <2>1, <3>2
    <2>5. ASSUME NEW u \in Task, pc'[u] \in {"poll", "ws", "close", "sync"}
          PROVE  u = t /\ pc'[u] = w
        BY <1>1, <1>3, <1>5, <2>1, <2>5 DEF UnderWay, Resting
    <2>. QED BY <1>1, <1>3, <2>1, <2>2, <2>3, <2>4, <2>5 DEF Running
<1>. QED BY <1>4, <1>6, <1>7, <1>8 DEF IInv

\* A login or a resume puts its own session in place of the one torn down.
LEMMA ActivateKeeps ==
    ASSUME IInv, NEW t \in Task, NEW r, Stands(t, r, "activate"), r[2] = "over",
           Activates(t, r[1])
    PROVE  IInv'
<1>1. /\ pc' = [pc EXCEPT ![t] = "sync"] /\ saved' = Whole(t)
      /\ then' = [then EXCEPT ![t] = "activate"]
      /\ UNCHANGED <<setting, up, torn, told, cached>> /\ up /\ pc[t] # "done"
      /\ Kind[t] # "logout"
    BY DEF Stands, Activates, Stops
<1>2. /\ svc' \in Attributes /\ svc'.cur = t /\ svc'.closed = r[1].closed
      /\ svc'.lives = r[1].lives /\ svc'.polls = r[1].polls
    BY DEF Stands, Down, Activates, Stops, Attributes, TaskOrNone
<1>3. r[1].lives \subseteq svc.lives /\ r[1].polls \subseteq svc.polls
    BY DEF Stands, Down
<1>4. Orderly => /\ svc'.polls = {} /\ svc'.lives = {} /\ svc'.closed = svc.closed
                 /\ told[t] = None /\ (\A u \in Task : UnderWay(u) => u = t) /\ Before(t)
    BY <1>2 DEF Stands, Bare
<1>5. CallsOK'
    BY <1>1, <1>2, <1>3 DEF IInv, CallsOK, Resting, Whole, TaskOrNone
<1>6. /\ \A u \in Task : pc'[u] = IF u = t THEN "sync" ELSE pc[u]
      /\ \A u \in Task : then'[u] = IF u = t THEN "activate" ELSE then[u]
      /\ \A u \in Task : UnderWay(u)' => u = t \/ UnderWay(u)
    BY <1>1 DEF IInv, CallsOK, UnderWay
<1>7. Purpose'
    BY <1>1, <1>6 DEF IInv, Purpose
<1>8. Stored'
    BY <1>1, <1>2 DEF Stored, StoredIsWhole, Whole
<1>9. ASSUME Orderly' PROVE OneCall' /\ Running'
    <2>1. Orderly
        BY <1>1, <1>9 DEF Orderly
    <2>2. OneCall'
        BY <1>1, <1>4, <1>6, <2>1 DEF IInv, OneCall
    <2>3. t \notin svc.closed
        BY <1>4, <2>1 DEF IInv, Running
    <2>4. ASSUME NEW u \in Task, Before(u)' PROVE svc'.cur # u /\ u \notin svc'.closed
        <3>1. Before(u) /\ u # t
            BY <1>6, <2>4 DEF Before
        <3>2. u \notin svc.closed
            BY <2>1, <3>1 DEF IInv, Running
        <3>. QED BY <1>2, <1>4, <2>1, <3>1, <3>2
    <2>5. ASSUME NEW u \in Task, pc'[u] = "sync" PROVE u = t
        BY <1>4, <1>6, <2>1, <2>5 DEF UnderWay, Resting
    <2>. QED BY <1>2, <1>4, <2>1, <2>2, <2>3, <2>4, <2>5 DEF Running, Tidy
<1>. QED BY <1>5, <1>7, <1>8, <1>9 DEF IInv

\* A logout, or a resume that was refused, ends without a session.
LEMMA EndKeeps ==
    ASSUME IInv, NEW t \in Task, NEW r, NEW k, Stands(t, r, k), r[2] = "over",
           NEW what \in {"ok", "failed"}, Ends(t, what), svc' = r[1],
           saved' = NoSession, cached' \in BOOLEAN
    PROVE  IInv'
<1>1. /\ pc' = [pc EXCEPT ![t] = "done"] /\ then' = [then EXCEPT ![t] = k]
      /\ told' = [told EXCEPT ![t] = IF told[t] = None THEN what ELSE told[t]]
      /\ k \in {"activate", "clear", "logout"} /\ (Kind[t] = "logout" => k = "logout")
      /\ UNCHANGED <<setting, up, torn>> /\ up /\ pc[t] # "done"
    BY DEF Stands, Ends
<1>2. /\ svc' \in Attributes /\ svc'.cur = None
      /\ svc'.lives \subseteq svc.lives /\ svc'.polls \subseteq svc.polls
    BY DEF Stands, Down
<1>3. Orderly => /\ svc'.polls = {} /\ svc'.lives = {} /\ svc'.closed = svc.closed
                 /\ \A u \in Task : UnderWay(u) => u = t
    BY DEF Stands, Bare
<1>4. CallsOK'
    BY <1>1, <1>2 DEF IInv, CallsOK, Resting, NoSession, TaskOrNone
<1>5. /\ \A u \in Task : pc'[u] = IF u = t THEN "done" ELSE pc[u]
      /\ \A u \in Task : then'[u] = IF u = t THEN k ELSE then[u]
    BY <1>1 DEF IInv, CallsOK
<1>6. Purpose'
    BY <1>1, <1>5 DEF IInv, Purpose
<1>7. Stored'
    BY <1>1, <1>2 DEF Stored, StoredIsWhole, NoSession
<1>8. ASSUME Orderly' PROVE OneCall' /\ Running'
    <2>1. Orderly
        BY <1>1, <1>8 DEF Orderly
    <2>2. \A u \in Task : ~UnderWay(u)'
        BY <1>3, <1>5, <2>1 DEF UnderWay, Resting
    <2>3. svc'.cur \notin svc'.closed
        BY <1>2, CentralAssumption DEF Attributes
    <2>4. ASSUME NEW u \in Task, Before(u)' PROVE svc'.cur # u /\ u \notin svc'.closed
        <3>1. Before(u)
            BY <1>5, <2>2, <2>4 DEF Before, UnderWay, Resting
        <3>2. u \notin svc.closed
            BY <2>1, <3>1 DEF IInv, Running
        <3>. QED BY <1>2, <1>3, <2>1, <3>2, CentralAssumption
    <2>5. \A u \in Task : pc'[u] \notin {"poll", "ws", "close", "sync"}
        BY <2>2 DEF UnderWay, Resting
    <2>6. OneCall'
        BY <1>1, <1>5, <2>1, <2>2 DEF IInv, OneCall, CallsOK
    <2>. QED BY <1>3, <2>1, <2>3, <2>4, <2>5, <2>6 DEF Running, Tidy
<1>. QED BY <1>4, <1>6, <1>7, <1>8 DEF IInv

\* Whatever follows the teardown.
LEMMA ContinueKeeps ==
    ASSUME IInv, NEW t \in Task, NEW r, Stands(t, r, then[t]), Continues(t, r)
    PROVE  IInv'
<1>1. CASE r[2] # "over"
    BY <1>1, StopKeeps DEF Continues
<1>2. CASE r[2] = "over"
    <2>1. Follows(t, r[1])
        BY <1>2 DEF Continues
    <2>2. then[t] \in {"activate", "clear", "logout"} /\ cached \in BOOLEAN
        BY DEF IInv, CallsOK
    <2>3. CASE then[t] = "activate"
        <3>1. Activates(t, r[1])
            BY <2>1, <2>3 DEF Follows
        <3>. QED BY <1>2, <2>3, <3>1, ActivateKeeps
    <2>4. CASE then[t] = "clear"
        <3>1. svc' = r[1] /\ Ends(t, "failed") /\ saved' = NoSession /\ cached' = cached
            BY <2>1, <2>4 DEF Follows
        <3>. QED BY <1>2, <2>2, <3>1, EndKeeps
    <2>5. CASE then[t] = "logout"
        <3>1. /\ svc' = r[1] /\ Ends(t, "ok") /\ saved' = NoSession
              /\ cached' = (cached /\ ~setting.wipes)
            BY <2>1, <2>5 DEF Follows
        <3>2. cached' \in BOOLEAN
            BY <3>1
        <3>. QED BY <1>2, <3>1, <3>2, EndKeeps
    <2>. QED BY <2>2, <2>3, <2>4, <2>5
<1>. QED BY <1>1, <1>2

\* Nothing runs and nothing is stored.
LEMMA InitHolds == Init => IInv
<1> SUFFICES ASSUME Init PROVE IInv
    OBVIOUS
<1>1. /\ Fresh \in Attributes /\ Fresh.cur = None /\ Fresh.lives = {} /\ Fresh.polls = {}
      /\ Fresh.closed = {}
    BY DEF Fresh, Attributes, TaskOrNone
<1>2. CallsOK
    BY <1>1 DEF Init, CallsOK, Resting, UnderWay, TaskOrNone
<1>3. Purpose /\ Stored
    BY <1>1 DEF Init, Purpose, Stored, StoredIsWhole
<1>4. OneCall
    BY DEF Init, OneCall, UnderWay, Resting
<1>5. Running
    <2>1. svc = Fresh /\ \A t \in Task : pc[t] = "new" /\ svc.cur # t
        BY <1>1, CentralAssumption DEF Init
    <2>. QED BY <1>1, <2>1 DEF Running, Tidy
<1>. QED BY <1>2, <1>3, <1>4, <1>5 DEF IInv

\* A patient user calls when nothing is under way.
LEMMA CallKeeps ==
    ASSUME IInv, NEW t \in Task, CallLogin(t) \/ CallLogout(t)
    PROVE  IInv'
<1> DEFINE k == IF Kind[t] = "logout" THEN "logout" ELSE then[t]
<1>1. /\ up /\ pc[t] = "new" /\ pc' = [pc EXCEPT ![t] = "request"]
      /\ then' = [then EXCEPT ![t] = k]
      /\ UNCHANGED <<setting, up, told, svc, saved, cached, torn>>
    BY DEF CallLogin, CallLogout, MayCall, IInv, CallsOK
<1>2. k \in {"activate", "clear", "logout"} /\ (Kind[t] = "logout" => k = "logout")
    BY DEF IInv, CallsOK
<1>3. \A u \in Task : UnderWay(u) /\ told[u] = None => setting.hasty
    BY DEF CallLogin, CallLogout, MayCall
<1> HIDE DEF k
<1>4. CallsOK'
    BY <1>1, <1>2 DEF IInv, CallsOK, Resting
<1>5. /\ \A u \in Task : pc'[u] = IF u = t THEN "request" ELSE pc[u]
      /\ \A u \in Task : then'[u] = IF u = t THEN k ELSE then[u]
    BY <1>1 DEF IInv, CallsOK
<1>6. Purpose' /\ Stored'
    BY <1>1, <1>2, <1>5 DEF IInv, Purpose, Stored, StoredIsWhole
<1>7. ASSUME Orderly' PROVE OneCall' /\ Running'
    <2>1. Orderly /\ \A u \in Task : ~UnderWay(u)
        BY <1>1, <1>3, <1>7 DEF Orderly, IInv, OneCall
    <2>2. told[t] = None
        BY <1>1, <2>1 DEF IInv, OneCall
    <2>. QED BY <1>1, <1>5, <2>1, <2>2
            DEF IInv, OneCall, Running, Before, UnderWay, Resting
<1>. QED BY <1>4, <1>6, <1>7 DEF IInv

\* A teardown begins, or goes on.
LEMMA TearKeeps ==
    ASSUME IInv, NEW t \in Task, Answered(t) \/ TearsOn(t) \/ CallResume(t)
    PROVE  IInv'
<1> DEFINE r == IF pc[t] \in {"poll", "ws", "close"} THEN Resumed(t) ELSE Teardown(svc)
<1>1. /\ pc[t] \in {"new", "request", "poll", "ws", "close"} /\ Continues(t, r)
      /\ UNCHANGED <<setting, up, then, torn>>
      /\ pc[t] = "new" => /\ up /\ svc = Fresh /\ Kind[t] = "resume"
                          /\ \A u \in Task : ~UnderWay(u)
    BY DEF Answered, TearsOn, CallResume, MayCall
<1>2. up
    BY <1>1 DEF IInv, CallsOK, UnderWay, Resting
<1>3. /\ Down(svc, r) /\ (pc[t] = "close" => r[2] = "over")
      /\ Orderly => Bare(svc, r)
    <2>1. svc \in Attributes /\ (Orderly => Tidy(svc))
        BY DEF IInv, CallsOK, Running
    <2>. QED BY <2>1, TeardownLeaves, ResumedLeaves
<1>4. /\ then[t] \in {"activate", "clear", "logout"} /\ then' = [then EXCEPT ![t] = then[t]]
      /\ Kind[t] = "logout" => then[t] = "logout"
    BY <1>1 DEF IInv, CallsOK, Purpose
<1> HIDE DEF r
<1>5. Orderly => /\ told[t] = None /\ \A u \in Task : UnderWay(u) => u = t
                 /\ then[t] = "activate" => Before(t)
    BY <1>1 DEF IInv, OneCall, Before, UnderWay, Resting
<1>6. Stands(t, r, then[t])
    BY <1>1, <1>2, <1>3, <1>4, <1>5 DEF Stands
<1>. QED BY <1>1, <1>6, ContinueKeeps

\* A resume that is refused tears down what it has just set.
LEMMA RefusalKeeps ==
    ASSUME IInv, NEW t \in Task, ResumeRefused(t)
    PROVE  IInv'
<1> DEFINE r == Teardown(svc)
<1>1. /\ pc[t] = "sync" /\ Kind[t] = "resume" /\ then' = [then EXCEPT ![t] = "clear"]
      /\ UNCHANGED <<setting, up, torn>>
      /\ IF r[2] = "over"
         THEN svc' = r[1] /\ Ends(t, "failed") /\ saved' = NoSession /\ cached' = cached
         ELSE Stops(t, r[1], r[2]) /\ UNCHANGED <<told, saved, cached>>
    BY DEF ResumeRefused
<1>2. /\ Down(svc, r) /\ (Orderly => Bare(svc, r))
    <2>1. svc \in Attributes /\ (Orderly => Tidy(svc))
        BY DEF IInv, CallsOK, Running
    <2>. QED BY <2>1, TeardownLeaves
<1>3. up /\ cached \in BOOLEAN
    BY <1>1 DEF IInv, CallsOK, UnderWay, Resting
<1>4. Orderly => told[t] = None /\ \A u \in Task : UnderWay(u) => u = t
    BY <1>1 DEF IInv, OneCall, UnderWay, Resting
<1> HIDE DEF r
<1>5. Stands(t, r, "clear")
    BY <1>1, <1>2, <1>3, <1>4 DEF Stands
<1>6. CASE r[2] = "over"
    BY <1>1, <1>3, <1>5, <1>6, EndKeeps
<1>7. CASE r[2] # "over"
    BY <1>1, <1>5, <1>7, StopKeeps
<1>. QED BY <1>6, <1>7

\* The loops are started after a teardown that left none.
LEMMA SyncKeeps ==
    ASSUME IInv, NEW t \in Task, Synced(t)
    PROVE  IInv'
<1>1. /\ pc[t] = "sync" /\ pc' = [pc EXCEPT ![t] = "done"] /\ svc' = Started(t)
      /\ told' = [told EXCEPT ![t] = IF told[t] = None THEN "ok" ELSE told[t]]
      /\ cached' = TRUE /\ UNCHANGED <<setting, up, then, saved, torn>>
    BY DEF Synced, Ends
<1>2. svc \in Attributes /\ up /\ Kind[t] # "logout"
    BY <1>1 DEF IInv, CallsOK, Purpose, UnderWay, Resting
<1>3. /\ svc' \in Attributes /\ svc'.cur = svc.cur /\ svc'.closed = svc.closed
      /\ svc'.poll = t /\ svc'.polls = svc.polls \cup {t}
      /\ svc'.lives = IF svc.cur = None THEN svc.lives ELSE svc.lives \cup {t}
      /\ svc'.ws = IF svc.cur = None THEN svc.ws ELSE t
    BY <1>1, <1>2 DEF Started, Attributes, TaskOrNone
<1>4. CallsOK'
    BY <1>1, <1>2, <1>3 DEF IInv, CallsOK, Resting
<1>5. \A u \in Task : pc'[u] = IF u = t THEN "done" ELSE pc[u]
    BY <1>1 DEF IInv, CallsOK
<1>6. Purpose' /\ Stored'
    BY <1>1, <1>2, <1>3, <1>5 DEF IInv, Purpose, Stored, StoredIsWhole
<1>7. ASSUME Orderly' PROVE OneCall' /\ Running'
    <2>1. Orderly
        BY <1>1, <1>7 DEF Orderly
    <2>2. /\ svc.cur = t /\ t \notin svc.closed /\ svc.lives = {} /\ svc.polls = {}
          /\ \A u \in Task : UnderWay(u) => u = t
        BY <1>1, <2>1 DEF IInv, Running, OneCall, UnderWay, Resting
    <2>3. \A u \in Task : ~UnderWay(u)'
        BY <1>5, <2>2 DEF UnderWay, Resting
    <2>4. OneCall'
        BY <1>1, <1>5, <2>1, <2>3 DEF IInv, OneCall, CallsOK
    <2>5. Tidy(svc') /\ svc'.cur \notin svc'.closed
        BY <1>3, <2>2, CentralAssumption DEF Tidy
    <2>6. ASSUME NEW u \in Task, Before(u)' PROVE svc'.cur # u /\ u \notin svc'.closed
        <3>1. Before(u)
            BY <1>1, <1>5, <2>6 DEF Before
        <3>. QED BY <1>3, <2>1, <3>1 DEF IInv, Running
    <2>7. \A u \in Task : pc'[u] \notin {"poll", "ws", "close", "sync"}
        BY <2>3 DEF UnderWay, Resting
    <2>. QED BY <2>4, <2>5, <2>6, <2>7 DEF Running
<1>. QED BY <1>4, <1>6, <1>7 DEF IInv

\* A login that is refused, or whose first synchronisation fails.
LEMMA FailureKeeps ==
    ASSUME IInv, NEW t \in Task, Refused(t) \/ SyncFails(t)
    PROVE  IInv'
<1>1. /\ pc[t] \in {"request", "sync"} /\ pc' = [pc EXCEPT ![t] = "done"]
      /\ \E what \in {"failed", "nothing"} :
            told' = [told EXCEPT ![t] = IF told[t] = None THEN what ELSE told[t]]
      /\ UNCHANGED <<setting, up, then, svc, saved, cached, torn>>
    BY DEF Refused, SyncFails, Ends
<1>2. CallsOK'
    BY <1>1 DEF IInv, CallsOK, Resting, UnderWay
<1>3. \A u \in Task : pc'[u] = IF u = t THEN "done" ELSE pc[u]
    BY <1>1 DEF IInv, CallsOK
<1>4. Purpose' /\ Stored'
    BY <1>1, <1>3 DEF IInv, Purpose, Stored, StoredIsWhole
<1>5. ASSUME Orderly' PROVE OneCall' /\ Running'
    <2>1. Orderly /\ \A u \in Task : UnderWay(u) => u = t
        BY <1>1, <1>5 DEF Orderly, IInv, OneCall, UnderWay, Resting
    <2>2. \A u \in Task : ~UnderWay(u)'
        BY <1>3, <2>1 DEF UnderWay, Resting
    <2>3. OneCall'
        BY <1>1, <1>3, <2>1, <2>2 DEF IInv, OneCall, CallsOK
    <2>4. svc.cur \notin svc.closed
        <3>1. svc.cur \in svc.closed => \E u \in Task : pc[u] = "close"
            BY <2>1 DEF IInv, Running
        <3>2. \A u \in Task : pc[u] # "close"
            BY <1>1, <2>1 DEF UnderWay, Resting
        <3>. QED BY <3>1, <3>2
    <2>5. \A u \in Task : pc'[u] \notin {"poll", "ws", "close", "sync"}
        BY <2>2 DEF UnderWay, Resting
    <2>6. \A u \in Task : Before(u)' => Before(u)
        BY <1>1, <1>3 DEF Before
    <2>. QED BY <1>1, <2>1, <2>3, <2>4, <2>5, <2>6 DEF IInv, Running
<1>. QED BY <1>2, <1>4, <1>5 DEF IInv

\* A loop that ends by itself leaves the attributes that named it.
LEMMA LoopEndKeeps ==
    ASSUME IInv, NEW t \in Task, LoopEnds(t)
    PROVE  IInv'
<1>1. svc \in Attributes
    BY DEF IInv, CallsOK
<1>2. /\ svc' \in Attributes /\ svc'.lives \subseteq svc.lives /\ svc'.polls \subseteq svc.polls
      /\ svc'.cur = svc.cur /\ svc'.closed = svc.closed /\ svc'.ws = svc.ws
      /\ svc'.poll = svc.poll
    BY <1>1 DEF LoopEnds, Attributes
<1>3. UNCHANGED <<setting, up, pc, then, told, saved, cached, torn>>
    BY DEF LoopEnds
<1>4. up
    BY DEF LoopEnds, IInv, CallsOK, Fresh
<1>5. CallsOK'
    BY <1>2, <1>3, <1>4 DEF IInv, CallsOK
<1>6. Purpose' /\ Stored'
    BY <1>2, <1>3 DEF IInv, Purpose, Stored, StoredIsWhole
<1>7. ASSUME Orderly' PROVE OneCall' /\ Running'
    <2>1. Orderly /\ OneCall' /\ Running
        BY <1>3, <1>7 DEF Orderly, IInv, OneCall, UnderWay
    <2>2. /\ Tidy(svc')
          /\ svc'.cur \in svc'.closed => \E u \in Task : pc'[u] = "close"
        BY <1>2, <1>3, <2>1 DEF Running, Tidy
    <2>3. \A u \in Task : Before(u)' <=> Before(u)
        BY <1>3 DEF Before
    <2>. QED BY <1>2, <1>3, <2>1, <2>2, <2>3 DEF Running
<1>. QED BY <1>5, <1>6, <1>7 DEF IInv

\* The program ends, while storing the session or not.
LEMMA GoneKeeps ==
    ASSUME IInv, Gone, UNCHANGED <<setting, then, cached>>,
           saved' \in [head : TaskOrNone, token : TaskOrNone], torn' \/ saved' = saved,
           torn => torn'
    PROVE  IInv'
<1>1. /\ up' = FALSE /\ svc' = Fresh
      /\ pc' = [t \in Task |-> IF UnderWay(t) THEN "gone" ELSE pc[t]]
      /\ told' = [t \in Task |-> IF UnderWay(t) /\ told[t] = None THEN "nothing" ELSE told[t]]
    BY DEF Gone
<1>2. /\ Fresh \in Attributes /\ Fresh.cur = None /\ Fresh.lives = {} /\ Fresh.polls = {}
      /\ Fresh.closed = {}
    BY DEF Fresh, Attributes, TaskOrNone
<1>3. pc' \in [Task -> Resting] /\ \A t \in Task : ~UnderWay(t)'
    BY <1>1 DEF UnderWay, Resting, IInv, CallsOK
<1>4. CallsOK'
    BY <1>1, <1>2, <1>3 DEF IInv, CallsOK
<1>5. \A t \in Task : pc'[t] = "new" => pc[t] = "new"
    BY <1>1
<1>6. \A t \in Task : pc[t] = "new" => pc'[t] = "new" /\ told'[t] = told[t]
    BY <1>1 DEF UnderWay, Resting
<1>7. Purpose'
    BY <1>1, <1>3 DEF IInv, Purpose, UnderWay, Resting
<1>8. Stored'
    BY <1>1, <1>2 DEF IInv, Stored, StoredIsWhole
<1>9. ASSUME Orderly' PROVE OneCall' /\ Running'
    <2>1. OneCall'
        BY <1>3, <1>5, <1>6, <1>9 DEF IInv, OneCall, Orderly
    <2>2. \A t \in Task : svc'.cur # t /\ svc'.cur \notin svc'.closed /\ t \notin svc'.closed
        BY <1>1, <1>2, CentralAssumption
    <2>3. Tidy(svc') /\ svc'.cur \notin svc'.closed
        BY <1>1, <1>2 DEF Tidy
    <2>4. \A t \in Task : pc'[t] \notin {"poll", "ws", "close", "sync"}
        BY <1>3 DEF UnderWay, Resting
    <2>. QED BY <1>1, <1>2, <2>1, <2>2, <2>3, <2>4 DEF Running
<1>. QED BY <1>4, <1>7, <1>8, <1>9 DEF IInv

\* What leaves the calls and the attributes alone.
LEMMA RestKeeps ==
    ASSUME IInv, UNCHANGED <<setting, pc, then, svc, saved, torn>>, cached' \in BOOLEAN,
           up' \in {up, TRUE}, told' = told \/ \E t \in Task : Timeout(t)
    PROVE  IInv'
<1>1. CallsOK'
    BY DEF IInv, CallsOK, Timeout, UnderWay
<1>2. Purpose' /\ Stored'
    BY DEF IInv, Purpose, Stored, StoredIsWhole
<1>3. ASSUME Orderly' PROVE OneCall' /\ Running'
    <2>1. Orderly /\ told' = told
        BY <1>3 DEF Orderly, Timeout
    <2>. QED BY <2>1 DEF IInv, OneCall, Running, Before, UnderWay
<1>. QED BY <1>1, <1>2, <1>3 DEF IInv

\* Every step.
LEMMA StepKeeps == IInv /\ [Next]_vars => IInv'
<1> SUFFICES ASSUME IInv, [Next]_vars PROVE IInv'
    OBVIOUS
<1>1. ASSUME NEW t \in Task, CallLogin(t) \/ CallLogout(t) PROVE IInv'
    BY <1>1, CallKeeps
<1>2. ASSUME NEW t \in Task, Answered(t) \/ TearsOn(t) \/ CallResume(t) PROVE IInv'
    BY <1>2, TearKeeps
<1>3. ASSUME NEW t \in Task, Refused(t) \/ SyncFails(t) PROVE IInv'
    BY <1>3, FailureKeeps
<1>4. ASSUME NEW t \in Task, Synced(t) PROVE IInv'
    BY <1>4, SyncKeeps
<1>5. ASSUME NEW t \in Task, ResumeRefused(t) PROVE IInv'
    BY <1>5, RefusalKeeps
<1>6. ASSUME NEW t \in Task, Timeout(t) PROVE IInv'
    <2>1. cached' \in BOOLEAN /\ UNCHANGED <<setting, up, pc, then, svc, saved, torn>>
        BY <1>6 DEF Timeout, IInv, CallsOK
    <2>. QED BY <1>6, <2>1, RestKeeps
<1>7. ASSUME NEW t \in Task, LoopEnds(t) PROVE IInv'
    BY <1>7, LoopEndKeeps
<1>8. ASSUME NEW t \in Task, DiesSaving(t) PROVE IInv'
    <2>1. /\ Gone /\ torn' = TRUE /\ UNCHANGED <<setting, then, cached>>
          /\ saved' = [saved EXCEPT !.head = IF then[t] = "activate" THEN t ELSE None]
        BY <1>8 DEF DiesSaving
    <2>2. saved' \in [head : TaskOrNone, token : TaskOrNone]
        BY <2>1 DEF IInv, CallsOK, TaskOrNone
    <2>. QED BY <2>1, <2>2, GoneKeeps
<1>9. ASSUME Receives PROVE IInv'
    BY <1>9, RestKeeps DEF Receives
<1>10. ASSUME LockOrDie PROVE IInv'
    <2>1. saved \in [head : TaskOrNone, token : TaskOrNone]
        BY DEF IInv, CallsOK
    <2>. QED BY <1>10, <2>1, GoneKeeps DEF LockOrDie
<1>11. ASSUME Opens PROVE IInv'
    BY <1>11, RestKeeps DEF Opens, IInv, CallsOK
<1>12. ASSUME TaskEnds PROVE IInv'
    BY <1>12, RestKeeps DEF TaskEnds, IInv, CallsOK
<1>13. ASSUME UNCHANGED vars PROVE IInv'
    BY <1>13, RestKeeps DEF vars, IInv, CallsOK
<1>. QED
    BY <1>1, <1>2, <1>3, <1>4, <1>5, <1>6, <1>7, <1>8, <1>9, <1>10, <1>11, <1>12,
       <1>13
    DEF Next, Proceeds

-----------------------------------------------------------------------------
(* A task that is cancelled has somebody who awaits it, in every            *)
(* interleaving.                                                           *)

Awaited == \A loop \in ending : \E t \in Task : loop = <<pc[t], waits[t]>>

TInv == TasksOK /\ Awaited

\* Of the attributes s, the teardown that comes to r has cancelled at most the loop
\* it awaits.
Only(s, r) ==
    /\ s.polls \ r[1].polls \subseteq IF r[2] = "poll" THEN {r[1].poll} ELSE {}
    /\ s.lives \ r[1].lives \subseteq IF r[2] = "ws" THEN {r[1].ws} ELSE {}

\* Past the loops nothing is cancelled.
LEMMA LiveStoppedOnly ==
    ASSUME NEW s \in Attributes
    PROVE  Only(s, Forgotten(s)) /\ Only(s, LiveStopped(s))
<1> DEFINE n == [s EXCEPT !.ws = None]
           c == [n EXCEPT !.closed = @ \cup {s.cur}]
           f(a) == [a EXCEPT !.cur = None]
<1>1. /\ n.polls = s.polls /\ n.lives = s.lives
      /\ c.polls = s.polls /\ c.lives = s.lives
      /\ f(s).polls = s.polls /\ f(s).lives = s.lives
      /\ f(n).polls = s.polls /\ f(n).lives = s.lives
    BY DEF Attributes
<1>2. LiveStopped(s) \in {<<c, "close">>, <<f(n), "over">>} /\ Forgotten(s) = <<f(s), "over">>
    BY DEF LiveStopped, Forgotten
<1> HIDE DEF n, c, f
<1>. QED BY <1>1, <1>2 DEF Only

\* The live loop is cancelled where it is awaited.
LEMMA PollStoppedOnly ==
    ASSUME NEW s \in Attributes
    PROVE  Only(s, PollStopped(s))
<1> DEFINE n == [s EXCEPT !.poll = None]
           w == [n EXCEPT !.lives = @ \ {s.ws}]
<1>1. /\ n \in Attributes /\ n.polls = s.polls /\ n.lives = s.lives
      /\ w.polls = s.polls /\ w.lives = s.lives \ {s.ws} /\ w.ws = s.ws
    BY DEF Attributes, TaskOrNone
<1>2. PollStopped(s) = <<w, "ws">> \/ PollStopped(s) = LiveStopped(n)
    BY DEF PollStopped
<1> HIDE DEF n, w
<1>3. Only(n, LiveStopped(n))
    BY <1>1, LiveStoppedOnly
<1>. QED BY <1>1, <1>2, <1>3 DEF Only

\* The poll, too.
LEMMA TeardownOnly ==
    ASSUME NEW s \in Attributes
    PROVE  Only(s, Teardown(s))
<1> DEFINE n == [s EXCEPT !.polls = @ \ {s.poll}]
<1>1. n.polls = s.polls \ {s.poll} /\ n.lives = s.lives /\ n.poll = s.poll
    BY DEF Attributes
<1>2. Teardown(s) = <<n, "poll">> \/ Teardown(s) = PollStopped(s)
    BY DEF Teardown
<1> HIDE DEF n
<1>. QED BY <1>1, <1>2, PollStoppedOnly DEF Only

\* A call that awaits no cancelled task goes on, and cancels none.
LEMMA PassKeeps ==
    ASSUME TInv, CallsOK, NEW t \in Task, <<pc[t], waits[t]>> \notin ending, NEW w,
           NEW v \in TaskOrNone, pc' = [pc EXCEPT ![t] = w], ending' = ending,
           waits' = [waits EXCEPT ![t] = v] \/ waits' = waits, up' = up
    PROVE  TInv'
<1>1. TasksOK'
    BY DEF TInv, TasksOK
<1>2. ASSUME NEW u \in Task, u # t PROVE <<pc'[u], waits'[u]>> = <<pc[u], waits[u]>>
    BY <1>2 DEF CallsOK, TInv, TasksOK
<1>3. Awaited'
    BY <1>2 DEF TInv, Awaited
<1>. QED BY <1>1, <1>3 DEF TInv

\* A teardown comes to its next await, with the task it has cancelled.
LEMMA AwaitKeeps ==
    ASSUME TInv, CallsOK, NEW t \in Task, <<pc[t], waits[t]>> \notin ending, up, up' = up,
           NEW r, Only(svc, r), r[1] \in Attributes, Stops(t, r[1], r[2])
    PROVE  TInv'
<1> DEFINE w == r[2]
           v == Awaits(r[1], w)
           now == Cancelled(r[1])
<1>1. /\ pc' = [pc EXCEPT ![t] = w] /\ waits' = [waits EXCEPT ![t] = v]
      /\ ending' = ending \cup now
    BY DEF Stops
<1>2. v \in TaskOrNone
    BY DEF Awaits, Attributes, TaskOrNone
<1>3. now \subseteq ({"poll", "ws"} \X Task) \cap {<<w, v>>}
    <2>1. svc.polls \subseteq Task /\ svc.lives \subseteq Task
        BY DEF CallsOK, Attributes
    <2>2. ASSUME NEW u \in svc.polls \ r[1].polls PROVE u \in Task /\ w = "poll" /\ v = u
        BY <2>1 DEF Only, Awaits
    <2>3. ASSUME NEW u \in svc.lives \ r[1].lives PROVE u \in Task /\ w = "ws" /\ v = u
        BY <2>1 DEF Only, Awaits
    <2>. QED BY <2>2, <2>3 DEF Cancelled
<1> HIDE DEF w, v, now
<1>4. TasksOK'
    BY <1>1, <1>2, <1>3 DEF TInv, TasksOK
<1>5. /\ \A u \in Task : u # t => <<pc'[u], waits'[u]>> = <<pc[u], waits[u]>>
      /\ <<pc'[t], waits'[t]>> = <<w, v>>
    BY <1>1 DEF CallsOK, TInv, TasksOK
<1>6. Awaited'
    BY <1>1, <1>3, <1>5 DEF TInv, Awaited
<1>. QED BY <1>4, <1>6 DEF TInv

\* Whatever follows: a call that ends or activates leaves the tasks as they are.
LEMMA ContinueAwaits ==
    ASSUME TInv, CallsOK, NEW t \in Task, <<pc[t], waits[t]>> \notin ending, up, up' = up,
           NEW r, Only(svc, r), r[1] \in Attributes, Continues(t, r)
    PROVE  TInv'
<1>1. CASE r[2] # "over"
    BY <1>1, AwaitKeeps DEF Continues
<1>2. CASE r[2] = "over"
    <2>1. then[t] \in {"activate", "clear", "logout"} /\ None \in TaskOrNone
        BY DEF CallsOK, TaskOrNone
    <2>2. ASSUME Activates(t, r[1]) PROVE TInv'
        <3> DEFINE a == [r[1] EXCEPT !.cur = t]
        <3>1. a.polls = r[1].polls /\ a.lives = r[1].lives /\ Stops(t, a, "sync")
            BY <2>2 DEF Activates, Attributes
        <3> HIDE DEF a
        <3>2. Cancelled(a) = {} /\ Awaits(a, "sync") = None
            BY <1>2, <3>1 DEF Cancelled, Awaits, Only
        <3>3. /\ pc' = [pc EXCEPT ![t] = "sync"] /\ ending' = ending
              /\ waits' = [waits EXCEPT ![t] = None]
            BY <3>1, <3>2 DEF Stops
        <3>. QED BY <2>1, <3>3, PassKeeps
    <2>3. ASSUME NEW what, Ends(t, what) PROVE TInv'
        BY <2>1, <2>3, PassKeeps DEF Ends
    <2>. QED BY <1>2, <2>1, <2>2, <2>3 DEF Continues, Follows
<1>. QED BY <1>1, <1>2

\* Every step.
LEMMA TasksKeep == TInv /\ CallsOK /\ [Next]_vars => TInv'
<1> SUFFICES ASSUME TInv, CallsOK, [Next]_vars PROVE TInv'
    OBVIOUS
<1>1. None \in TaskOrNone /\ svc \in Attributes
    BY DEF CallsOK, TaskOrNone
<1>2. ASSUME NEW t \in Task, pc[t] \notin {"poll", "ws"} PROVE <<pc[t], waits[t]>> \notin ending
    BY <1>2 DEF TInv, TasksOK
<1>3. ASSUME NEW t \in Task, UnderWay(t) PROVE up
    BY <1>3 DEF CallsOK
<1>4. ASSUME NEW t \in Task, CallLogin(t) \/ CallLogout(t) PROVE TInv'
    <2>1. pc[t] = "new" /\ pc' = [pc EXCEPT ![t] = "request"] /\ UNCHANGED <<up, ending, waits>>
        BY <1>4 DEF CallLogin, CallLogout, MayCall, tasks
    <2>2. <<pc[t], waits[t]>> \notin ending
        BY <1>2, <2>1
    <2>. QED BY <1>1, <2>1, <2>2, PassKeeps
<1>5. ASSUME NEW t \in Task, CallResume(t) \/ Answered(t) PROVE TInv'
    <2>1. /\ up /\ up' = up /\ pc[t] \notin {"poll", "ws"} /\ Continues(t, Teardown(svc))
        BY <1>3, <1>5 DEF CallResume, Answered, MayCall, UnderWay, Resting
    <2>2. Only(svc, Teardown(svc)) /\ Teardown(svc)[1] \in Attributes
        BY <1>1, TeardownOnly, TeardownLeaves DEF Down
    <2>3. <<pc[t], waits[t]>> \notin ending
        BY <1>2, <2>1
    <2>. QED BY <2>1, <2>2, <2>3, ContinueAwaits
<1>6. ASSUME NEW t \in Task, TearsOn(t) PROVE TInv'
    <2>1. /\ pc[t] \in {"poll", "ws", "close"} /\ Continues(t, Resumed(t)) /\ up' = up
          /\ <<pc[t], waits[t]>> \notin ending
        BY <1>6 DEF TearsOn, Waits
    <2>2. Resumed(t) \in {PollStopped(svc), LiveStopped(svc), Forgotten(svc)}
        BY <2>1 DEF Resumed
    <2>3. Only(svc, Resumed(t)) /\ Resumed(t)[1] \in Attributes
        BY <1>1, <2>2, PollStoppedOnly, LiveStoppedOnly, PollStoppedLeaves, LiveStoppedLeaves,
           ForgottenLeaves DEF Down
    <2>. QED BY <1>3, <2>1, <2>3, ContinueAwaits DEF UnderWay, Resting
<1>7. ASSUME NEW t \in Task, Refused(t) \/ Synced(t) \/ SyncFails(t) PROVE TInv'
    <2>1. /\ pc[t] \notin {"poll", "ws"} /\ up' = up /\ \E what : Ends(t, what)
        BY <1>7 DEF Refused, Synced, SyncFails
    <2>. QED BY <1>1, <1>2, <2>1, PassKeeps DEF Ends
<1>8. ASSUME NEW t \in Task, ResumeRefused(t) PROVE TInv'
    <2> DEFINE r == Teardown(svc)
    <2>1. /\ pc[t] = "sync" /\ up' = up
          /\ Stops(t, r[1], r[2]) \/ Ends(t, "failed")
        BY <1>8 DEF ResumeRefused
    <2>2. Only(svc, r) /\ r[1] \in Attributes
        BY <1>1, TeardownOnly, TeardownLeaves DEF Down
    <2> HIDE DEF r
    <2>3. up /\ <<pc[t], waits[t]>> \notin ending
        BY <1>2, <1>3, <2>1 DEF UnderWay, Resting
    <2>4. CASE Stops(t, r[1], r[2])
        BY <2>1, <2>2, <2>3, <2>4, AwaitKeeps
    <2>5. CASE Ends(t, "failed")
        BY <1>1, <2>1, <2>3, <2>5, PassKeeps DEF Ends
    <2>. QED BY <2>1, <2>4, <2>5
<1>9. ASSUME Gone PROVE TInv'
    BY <1>1, <1>9 DEF Gone, TInv, TasksOK, Awaited
<1>10. ASSUME TaskEnds PROVE TInv'
    BY <1>10 DEF TaskEnds, TInv, TasksOK, Awaited
<1>11. ASSUME UNCHANGED <<pc, ending, waits>>, up' \in {up, TRUE} PROVE TInv'
    BY <1>11 DEF TInv, TasksOK, Awaited
<1>. QED
    BY <1>4, <1>5, <1>6, <1>7, <1>8, <1>9, <1>10, <1>11
    DEF Next, Proceeds, vars, tasks, Timeout, LoopEnds, DiesSaving, Receives, LockOrDie, Opens

\* With nothing under way, no cancelled task is left.
LEMMA QuietHasNone == TInv /\ Quiet => ending = {}
<1> SUFFICES ASSUME TInv, Quiet, NEW loop \in ending PROVE FALSE
    OBVIOUS
<1>1. PICK t \in Task : loop = <<pc[t], waits[t]>>
    BY DEF TInv, Awaited
<1>2. pc[t] \in {"poll", "ws"}
    BY <1>1 DEF TInv, TasksOK
<1>. QED BY <1>2 DEF Quiet, UnderWay, Resting

\* IInv is an invariant of every behaviour.
LEMMA Invariance == Spec => [](IInv /\ TInv)
<1>1. Init => TInv
    BY DEF Init, TInv, TasksOK, Awaited, TaskOrNone
<1>2. IInv => CallsOK
    BY DEF IInv
<1>. QED BY InitHolds, StepKeeps, TasksKeep, <1>1, <1>2, PTL DEF Spec

\* The client, its live loop, its poll and the vault speak of one session, whatever
\* login, resume, logout, refusal, crash and late answer there is.
THEOREM SessionsAreOne == Spec => []OneSession
<1>1. IInv /\ TInv => OneSession
    <2> SUFFICES ASSUME IInv, TInv PROVE OneSession
        OBVIOUS
    <2>1. Orderly /\ Quiet => svc.cur \notin svc.closed
        <3>1. \A t \in Task : Quiet => pc[t] # "close"
            BY DEF Quiet, UnderWay, Resting
        <3>. QED BY <3>1 DEF IInv, Running
    <2>2. Orderly => svc.lives \cup svc.polls \subseteq {svc.cur}
        BY DEF IInv, Running, Tidy
    <2>3. TypeOK /\ NoneEnding
        BY QuietHasNone DEF IInv, TInv, TypeOK, NoneEnding
    <2>. QED BY <2>1, <2>2, <2>3 DEF IInv, OneSession, OneOfEach, RunsWhatIsStored, Stored
<1>. QED BY <1>1, Invariance, PTL

-----------------------------------------------------------------------------
\* After a logout that its caller was told went well, nothing of the account is
\* stored, open or running; and no other step tells a caller so.
LEMMA LogoutFollows ==
    ASSUME IInv, TInv, Orderly, NEW t \in Task, pc[t] \in {"request", "poll", "ws", "close"},
           <<pc[t], waits[t]>> \notin ending, NEW r, Bare(svc, r),
           Kind[t] = "logout", Down(svc, r), Continues(t, r), told'[t] # told[t]
    PROVE  /\ saved' = NoSession /\ svc'.cur = None
           /\ svc'.lives = {} /\ svc'.polls = {} /\ ending' = {}
           /\ setting.wipes => ~cached'
<1>1. then[t] = "logout"
    BY DEF IInv, Purpose
<1>2. r[2] = "over" /\ Follows(t, r[1])
    BY DEF Continues, Stops
<1>3. /\ svc' = r[1] /\ saved' = NoSession /\ cached' = (cached /\ ~setting.wipes)
      /\ ending' = ending
    BY <1>1, <1>2 DEF Follows, Ends
<1>4. ASSUME NEW loop \in ending PROVE FALSE
    <2>1. PICK u \in Task : loop = <<pc[u], waits[u]>>
        BY DEF TInv, Awaited
    <2>2. pc[u] \in {"poll", "ws"}
        BY <2>1 DEF TInv, TasksOK
    <2>3. u = t
        BY <2>2 DEF IInv, OneCall, UnderWay, Resting
    <2>. QED BY <2>1, <2>3
<1>. QED BY <1>2, <1>3, <1>4 DEF Down, Bare

\* Of orderly callers: when a logout tells its caller that it went well, nothing
\* is stored, open or running (logout, _teardown_session, clear_session).
THEOREM LogoutIsComplete == Spec => LogoutLeavesNothing
<1> DEFINE Left ==
        /\ saved' = NoSession /\ svc'.cur = None
        /\ svc'.lives = {} /\ svc'.polls = {} /\ ending' = {}
        /\ setting.wipes => ~cached'
    Promise == \A t \in Task :
        Orderly /\ Kind[t] = "logout" /\ told[t] = None /\ told'[t] = "ok" => Left
<1>1. IInv /\ TInv /\ [Next]_vars => Promise
    <2> SUFFICES ASSUME IInv, TInv, [Next]_vars, NEW t \in Task, Orderly, Kind[t] = "logout",
                        told[t] = None, told'[t] = "ok"
                 PROVE  Left
        OBVIOUS
    <2>0. told'[t] # told[t] /\ told \in [Task -> {None, "ok", "failed", "nothing"}]
        BY CentralAssumption DEF IInv, CallsOK
    <2>1. ASSUME Answered(t) \/ TearsOn(t) PROVE Left
        <3> DEFINE r == IF pc[t] = "request" THEN Teardown(svc) ELSE Resumed(t)
        <3>1. Continues(t, r) /\ pc[t] \in {"request", "poll", "ws", "close"}
            BY <2>1 DEF Answered, TearsOn
        <3>2. <<pc[t], waits[t]>> \notin ending
            BY <2>1 DEF Answered, TearsOn, Waits, TInv, TasksOK
        <3>3. svc \in Attributes /\ Tidy(svc)
            BY DEF IInv, CallsOK, Running
        <3>4. Down(svc, r) /\ Bare(svc, r)
            BY <3>1, <3>3, TeardownLeaves, ResumedLeaves
        <3> HIDE DEF r
        <3>. QED BY <2>0, <3>1, <3>2, <3>4, LogoutFollows
    <2>2. ASSUME NEW u \in Task, u # t, NEW r, Continues(u, r) PROVE FALSE
        <3>1. then[u] \in {"activate", "clear", "logout"}
            BY DEF IInv, CallsOK
        <3>2. told' = told \/ Ends(u, "ok") \/ Ends(u, "failed")
            BY <2>2, <3>1 DEF Continues, Follows, Activates
        <3>. QED BY <2>0, <2>2, <3>2 DEF Ends
    <2>3. ASSUME NEW u \in Task, Answered(u) \/ TearsOn(u) \/ CallResume(u) PROVE Left
        <3>1. u = t
            BY <2>2, <2>3 DEF Answered, TearsOn, CallResume
        <3>. QED BY <2>1, <2>3, <3>1 DEF CallResume
    <2>4. ASSUME NEW u \in Task, Synced(u) PROVE Left
        <3>1. u # t
            BY <2>4 DEF Synced, IInv, Purpose
        <3>. QED BY <2>0, <2>4, <3>1 DEF Synced, Ends
    <2>5. ASSUME NEW u \in Task, ResumeRefused(u) PROVE Left
        <3>1. u # t
            BY <2>5 DEF ResumeRefused
        <3>. QED BY <2>0, <2>5, <3>1 DEF ResumeRefused, Ends, Stops
    <2>6. ASSUME NEW u \in Task, Refused(u) \/ SyncFails(u) PROVE Left
        <3>1. told'[t] \in {told[t], "failed", "nothing"}
            BY <2>0, <2>6 DEF Refused, SyncFails, Ends
        <3>. QED BY <2>0, <3>1
    <2>7. ASSUME Gone PROVE Left
        <3>1. told'[t] \in {told[t], "nothing"}
            BY <2>7 DEF Gone
        <3>. QED BY <2>0, <3>1
    <2>8. ASSUME NEW u \in Task, Timeout(u) PROVE Left
        BY <2>8 DEF Timeout, Orderly
    <2>9. CASE told' = told
        BY <2>0, <2>9
    <2>. QED
        BY <2>3, <2>4, <2>5, <2>6, <2>7, <2>8, <2>9
        DEF Next, Proceeds, vars, CallLogin, CallLogout, LoopEnds, DiesSaving, Receives,
            LockOrDie, Opens, TaskEnds
<1>2. Spec => [][Promise]_vars
    BY <1>1, Invariance, PTL DEF Spec
<1>. QED BY <1>2 DEF LogoutLeavesNothing

=============================================================================
