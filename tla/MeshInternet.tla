---------------------------- MODULE MeshInternet ----------------------------
(***************************************************************************)
(* Links to public nodes (mys_mesh/internet.py): a loop that wakes at      *)
(* every tick and dials the addresses it knows, a task that holds each     *)
(* link, and the addresses learned from neighbours and kept in the vault   *)
(* (node.py, prefs.py, mys_ui/app.py), from the start of the service to    *)
(* its shutdown (mys_decentralized/service.py).                            *)
(*                                                                         *)
(* Time is counted in ticks; what is due at a tick happens before it.      *)
(***************************************************************************)
EXTENDS Integers, FiniteSetsExt, MeshPacket

CONSTANTS
    Url,              \* addresses
    LINKS,            \* links held at once
    FirstPause, LastPause,      \* BACKOFF: the first and the longest pause, in ticks
    FloatLimit,       \* failures from which the pause overflows a float (1025)
    DialTime, GreetTime,  \* open_timeout, HANDSHAKE_TIMEOUT
    CloseTime,        \* the library's limit on the closing of a wire
    KnownMax,         \* addresses learn_urls keeps (32)
    Settings,         \* surroundings: see Setting
    MaxRuns           \* starts of the service (bound)

\* What an address is: a node that answers, a port that refuses, a host that
\* says nothing, a server that accepts and is no mesh node.
Kind == {"answers", "refuses", "silent", "stranger"}

\* bootstrap: the addresses of the settings, in order;
\* lists: what neighbours tell;
\* split: what an address that was stored is read as, more than one where it has commas;
\* days: the program runs so long that failures reach FloatLimit;
\* hangs: closing a wire may outlast the ten seconds a shutdown is given.
Setting == [kind : [Url -> Kind], bootstrap : Seq(Url),
            lists : SUBSET Seq(Url), split : [Url -> Seq(Url)], days : BOOLEAN, hangs : BOOLEAN]

ASSUME InternetAssumption ==
    /\ Settings \subseteq Setting
    /\ {LINKS, FirstPause, FloatLimit, DialTime, GreetTime, CloseTime, KnownMax, MaxRuns}
           \subseteq Nat \ {0}
    /\ LastPause \in Nat /\ FirstPause <= LastPause

VARIABLES
    setting,
    service,    \* off; on; saving: addresses are learned and not stored yet; closing: _shutdown
    phase,      \* _active: what the task that holds an address awaits
    left,       \* ticks until that times out
    up,         \* _up
    fails,      \* _fails
    wait,       \* ticks until _retry_at
    links,      \* the node's neighbours, by address
    wires,      \* wires opened since the start that a link or a greeting has
    ending,     \* wires whose closing has begun and is awaited by nothing that is counted
    known,      \* known_urls of the node
    saved,      \* mesh.peers in the vault
    runs,
    heard,      \* every address a neighbour ever told (history)
    lost,       \* those of them that a kill kept from being stored (history)
    tries,      \* tries of an address in a row that gave no link (history)
    rest        \* ticks since its last try ended (history)

holding == <<phase, left, up, fails, wait, tries, rest>>
learning == <<known, saved, heard, lost>>
vars == <<setting, service, runs, holding, links, wires, ending, learning>>

Least(m, n) == IF m < n THEN m ELSE n

\* The pause doubles with every failure up to LastPause.
Pause(n) ==
    LET doubled[i \in Nat] == IF i <= 1 THEN FirstPause ELSE Least(LastPause, 2 * doubled[i - 1])
    IN  doubled[n]

\* Failures are counted as far as they make a difference (bound).
Saturated == CHOOSE n \in 1 .. LastPause :
                 Pause(n) = LastPause /\ \A m \in 1 .. n - 1 : Pause(m) < LastPause
Counted(n) == Least(n, IF setting.days THEN FloatLimit ELSE Saturated)

Active == {u \in Url : phase[u] # "idle"}
Candidates == setting.bootstrap
              \o SelectSeq(known, LAMBDA u : u \notin Range(setting.bootstrap))

Nothing(value) == [u \in Url |-> value]

Init ==
    /\ setting \in Settings
    /\ service = "off" /\ runs = 0
    /\ phase = Nothing("idle") /\ left = Nothing(0) /\ up = {}
    /\ fails = Nothing(0) /\ wait = Nothing(0) /\ tries = Nothing(0) /\ rest = Nothing(LastPause)
    /\ links = {} /\ wires = {} /\ ending = {}
    /\ known = <<>> /\ saved = <<>> /\ heard = {} /\ lost = {}

-----------------------------------------------------------------------------
(* The loop. *)

\* load, which takes a comma for the end of an address, and the node's first learn_urls.
Parts(list) == FlattenSeq([i \in DOMAIN list |-> setting.split[list[i]]])
Loaded == SubSeq(Parts(saved), 1, Least(Len(Parts(saved)), KnownMax))

\* make() of a new node and manager: every count starts anew, the addresses
\* learned before come from the vault.
Start ==
    /\ service = "off" /\ runs < MaxRuns
    /\ service' = "on" /\ runs' = runs + 1
    /\ phase' = Nothing("idle") /\ left' = Nothing(0) /\ up' = {}
    /\ fails' = Nothing(0) /\ wait' = Nothing(0) /\ tries' = Nothing(0) /\ rest' = Nothing(LastPause)
    /\ links' = {} /\ wires' = {} /\ ending' = {}
    /\ known' = Loaded
    /\ UNCHANGED <<setting, saved, heard, lost>>

DialsUntilBusy(due) ==
    {Candidates[i] : i \in {i \in 1 .. Least(Len(Candidates), LINKS - Cardinality(Active)) :
                                \A j \in 1 .. i : Candidates[j] \in due \ Active}}
\* One round of _run: the addresses in order, while there is room for a link.
Dials(due) ==
    FoldLeft(LAMBDA dialled, u :
                 IF Cardinality(Active \cup dialled) >= LINKS \/ u \in Active \/ u \notin due
                 THEN dialled ELSE dialled \cup {u},
             {}, Candidates)

Settled == \A u \in Url : /\ phase[u] \in {"dialing", "greeting", "leaving"} => left[u] > 0
                          /\ phase[u] = "held" => u \in links \cap wires

\* A tick passes and the loop wakes.
Tick ==
    /\ service = "on" /\ Settled
    /\ LET due == {u \in Url : wait[u] <= 1}
           dialled == Dials(due)
       IN  /\ phase' = [u \in Url |-> IF u \in dialled THEN "dialing" ELSE phase[u]]
           /\ left' = [u \in Url |-> IF u \in dialled THEN DialTime
                                     ELSE IF left[u] > 0 THEN left[u] - 1 ELSE 0]
           /\ wait' = [u \in Url |-> IF u \in due THEN 0 ELSE wait[u] - 1]
           /\ rest' = [u \in Url |-> IF phase[u] # "idle" THEN 0 ELSE Least(LastPause, rest[u] + 1)]
    /\ UNCHANGED <<setting, service, runs, up, fails, tries, links, wires, ending, learning>>

-----------------------------------------------------------------------------
(* _hold of one address. *)

EndsUncounted(u) ==
    /\ up' = up \ {u} /\ phase' = [phase EXCEPT ![u] = "idle"] /\ left' = [left EXCEPT ![u] = 0]
    /\ fails' = fails /\ wait' = [wait EXCEPT ![u] = Pause(fails[u])]
\* Its finally: the pause is not set when the product overflows.
Ends(u) ==
    /\ up' = up \ {u} /\ phase' = [phase EXCEPT ![u] = "idle"] /\ left' = [left EXCEPT ![u] = 0]
    /\ fails' = [fails EXCEPT ![u] = Counted(@ + 1)]
    /\ wait' = IF fails[u] + 1 < FloatLimit THEN [wait EXCEPT ![u] = Pause(fails[u] + 1)] ELSE wait

Failed(u) ==
    /\ tries' = [tries EXCEPT ![u] = Least(@ + 1, Saturated)]
    /\ rest' = [rest EXCEPT ![u] = 0]

\* connect raises: at once, or when its time is up.
DialFails(u) ==
    /\ service = "on" /\ phase[u] = "dialing"
    /\ \/ setting.kind[u] = "refuses"
       \/ setting.kind[u] = "silent" /\ left[u] = 0
    /\ Ends(u) /\ Failed(u)
    /\ UNCHANGED <<setting, service, runs, links, wires, ending, learning>>

\* The wire is open: failures are forgotten and the address counts as up,
\* before the link's greeting.
Connects(u) ==
    /\ service = "on" /\ phase[u] = "dialing" /\ setting.kind[u] \in {"answers", "stranger"}
    /\ phase' = [phase EXCEPT ![u] = "greeting"] /\ left' = [left EXCEPT ![u] = GreetTime]
    /\ fails' = [fails EXCEPT ![u] = 0] /\ up' = up \cup {u}
    /\ wires' = wires \cup {u}
    /\ UNCHANGED <<setting, service, runs, wait, tries, rest, links, ending, learning>>

\* Link.open raises, for a wrong greeting or for none in time, and closes the wire;
\* the task waits for that.
GreetingFails(u) ==
    /\ service = "on" /\ phase[u] = "greeting" /\ setting.kind[u] = "stranger"
    /\ phase' = [phase EXCEPT ![u] = "leaving"] /\ left' = [left EXCEPT ![u] = CloseTime]
    /\ UNCHANGED <<setting, service, runs, up, fails, wait, tries, rest, links, wires, ending,
                   learning>>

GreetingClosed(u) ==
    /\ service \in {"on", "closing"} /\ phase[u] = "leaving"
    /\ wires' = wires \ {u}
    /\ Ends(u) /\ Failed(u)
    /\ UNCHANGED <<setting, service, runs, links, ending, learning>>

\* attach: the node has a neighbour.
Attach(u) ==
    /\ service = "on" /\ phase[u] = "greeting" /\ setting.kind[u] = "answers"
    /\ phase' = [phase EXCEPT ![u] = "held"] /\ left' = [left EXCEPT ![u] = 0]
    /\ links' = links \cup {u}
    /\ tries' = [tries EXCEPT ![u] = 0]
    /\ UNCHANGED <<setting, service, runs, up, fails, wait, rest, wires, ending, learning>>

\* The wire breaks.
Breaks(u) ==
    /\ service = "on" /\ u \in links \cap wires
    /\ wires' = wires \ {u}
    /\ UNCHANGED <<setting, service, runs, holding, links, ending, learning>>

\* A frame that does not open, or no packet: the read loop ends the link itself.  The
\* neighbour goes and serve is told at once, then the wire is closed, for which only
\* the read loop waits (one such wire of an address at a time, a bound).  A link that
\* goes while the node closes its links is among those it closes.
BadFrame(u) ==
    /\ service = "on" \/ (service = "closing" /\ Active # {})
    /\ u \in links \cap wires /\ u \notin ending
    /\ links' = links \ {u}
    /\ wires' = wires \ {u} /\ ending' = ending \cup {u}
    /\ UNCHANGED <<setting, service, runs, holding, learning>>

WireClosed(u) ==
    /\ service \in {"on", "closing"} /\ u \in ending
    /\ ending' = ending \ {u}
    /\ UNCHANGED <<setting, service, runs, holding, links, wires, learning>>

\* The read loop sees the break: the neighbour goes and serve is told.
DropNeighbor(u) ==
    /\ service \in {"on", "closing"} /\ u \in links \ wires
    /\ links' = links \ {u}
    /\ UNCHANGED <<setting, service, runs, holding, wires, ending, learning>>

\* serve has returned.
HoldEnds(u) ==
    /\ service = "on" /\ phase[u] = "held" /\ u \notin links
    /\ Ends(u)
    /\ rest' = [rest EXCEPT ![u] = 0]
    /\ UNCHANGED <<setting, service, runs, tries, links, wires, ending, learning>>

-----------------------------------------------------------------------------
(* Addresses. *)

\* learn_urls and on_peers.
Learned(list) ==
    LET fresh == SelectSeq(list, LAMBDA u : u \notin Range(known))
        longer == known \o fresh
    IN  SubSeq(longer, 1, Least(Len(longer), KnownMax))

SavesOnlyFresh(now) == SelectSeq(now, LAMBDA u : u \notin Range(Parts(saved)))
Saves(now) == now

\* The packet a neighbour that knows these addresses sends.
Peers(list) ==
    encode([type |-> PEERS, ttl |-> 0, hops |-> 0, id |-> "id", payload |-> encode_peers(list)])

\* A packet PEERS of a neighbour: what is new is learned, ...
PeersArrive(u) ==
    /\ service = "on" /\ u \in links \cap wires
    /\ \E list \in setting.lists : \E p \in decode(Peers(list), TTL_MAX) :
        /\ known' = Learned(p.payload)
        /\ heard' = heard \cup Range(p.payload)
        /\ lost' = lost \ Range(known')
    /\ service' = IF known' # known THEN "saving" ELSE "on"
    /\ UNCHANGED <<setting, runs, saved, holding, links, wires, ending>>

\* ... and then the list is stored whole.  Only the end of the process comes between.
SavePeers ==
    /\ service = "saving" /\ service' = "on"
    /\ saved' = Saves(known)
    /\ UNCHANGED <<setting, runs, known, heard, lost, holding, links, wires, ending>>

-----------------------------------------------------------------------------
(* The shutdown of the service. *)

\* MeshInternet.stop cancels every task and waits for it.  A greeting that is
\* cancelled closes its wire; of one that was closing its wire already the closing is
\* cut off.  A link that is held outlives its task, which was only shielded from the
\* link's end.
GreetingDropped(u) == "idle"
Cancelled(u) == IF phase[u] = "greeting" THEN "leaving" ELSE "idle"

Stop ==
    /\ service = "on" /\ service' = "closing"
    /\ phase' = [u \in Url |-> Cancelled(u)]
    /\ left' = Nothing(0) /\ up' = {}
    /\ LET cut == {u \in Url : phase[u] = "leaving"}
       IN  wires' = wires \ cut /\ ending' = ending \cup cut
    /\ UNCHANGED <<setting, runs, fails, wait, tries, rest, links, learning>>

\* Then MeshNode.close: one link after the other.  The read loops, and what they are
\* closing, are cancelled.
CloseLink(u) ==
    /\ service = "closing" /\ Active = {} /\ u \in links \cap wires
    /\ wires' = wires \ {u}
    /\ UNCHANGED <<setting, service, runs, holding, links, ending, learning>>

\* The shutdown is done, or its ten seconds are over and the loop is stopped.
ShutdownDone == Active = {} /\ links \cap wires = {}

Stopped ==
    /\ service = "closing" /\ (ShutdownDone \/ setting.hangs)
    /\ service' = "off" /\ links' = {} /\ phase' = Nothing("idle")
    /\ UNCHANGED <<setting, runs, left, up, fails, wait, tries, rest, wires, ending, learning>>

\* The program is killed; the system closes its sockets.
Killed ==
    /\ service # "off"
    /\ service' = "off" /\ wires' = {} /\ ending' = {} /\ links' = {}
    /\ phase' = Nothing("idle") /\ left' = Nothing(0) /\ up' = {}
    /\ lost' = IF service = "saving" THEN lost \cup (heard \ Range(Parts(saved))) ELSE lost
    /\ UNCHANGED <<setting, runs, fails, wait, tries, rest, known, saved, heard>>

-----------------------------------------------------------------------------
Scheduled ==
    \/ Tick \/ SavePeers \/ Stopped
    \/ \E u \in Url : \/ DialFails(u) \/ Connects(u) \/ GreetingFails(u) \/ Attach(u)
                      \/ DropNeighbor(u) \/ HoldEnds(u)
                      \/ GreetingClosed(u) \/ CloseLink(u)

Next ==
    \/ Scheduled \/ Start \/ Stop \/ Killed
    \/ \E u \in Url : Breaks(u) \/ BadFrame(u) \/ WireClosed(u) \/ PeersArrive(u)

Spec == Init /\ [][Next]_vars

\* The loop goes on while the program runs, and a tick waits for what is due
\* before it: one condition on both is enough.
FairSpec == Spec /\ WF_vars(Scheduled)

-----------------------------------------------------------------------------
(* Properties. *)

\* Every variable has its type; no more than LINKS addresses are held and the
\* learned list keeps its limit.
TypeOK ==
    /\ setting \in Settings /\ service \in {"off", "on", "saving", "closing"} /\ runs \in 0 .. MaxRuns
    /\ phase \in [Url -> {"idle", "dialing", "greeting", "held", "leaving"}]
    /\ left \in [Url -> 0 .. Max({DialTime, GreetTime, CloseTime})] /\ up \subseteq Url
    /\ fails \in [Url -> 0 .. FloatLimit] /\ wait \in [Url -> 0 .. LastPause]
    /\ tries \in [Url -> 0 .. Saturated] /\ rest \in [Url -> 0 .. LastPause]
    /\ links \subseteq Url /\ wires \subseteq Url /\ ending \subseteq Url
    /\ heard \subseteq Url /\ lost \subseteq heard
    /\ known \in Seq(Url) /\ saved \in Seq(Url) /\ Len(known) <= KnownMax
    /\ Cardinality(Active) <= LINKS

Running == service \in {"on", "saving"}

\* While the service runs, a neighbour is the link of a task that still holds
\* it: no link is kept that the loop does not count, and none is dialed twice.
LinksAreHeld ==
    Running => /\ \A u \in links : phase[u] = "held"
               /\ up = {u \in Url : phase[u] \in {"greeting", "leaving", "held"}}
               /\ wires \subseteq up \cup links

\* internet.py:20: between two tries of an address lies the pause its failures
\* since the last link call for.  Not for a server that accepts and is no mesh
\* node (fails is reset before the greeting), nor once failures reach FloatLimit.
BacksOffUnless(exempt(_)) ==
    \A u \in Url : ~exempt(u) /\ phase[u] = "idle" /\ phase'[u] = "dialing" /\ tries[u] > 0
                    => rest[u] + 1 >= Pause(tries[u])
BacksOff == [][~setting.days => BacksOffUnless(LAMBDA u : setting.kind[u] = "stranger")]_vars

\* Across shutdowns and kills, until its list is full, the node knows every address it
\* was ever told, one with commas as its parts after a restart, and no other.  Not those
\* it was told just before a kill, until it is told them again.
NothingUnlearned ==
    Running /\ Len(known) < KnownMax =>
        /\ \A u \in heard \ lost : \/ u \in Range(known)
                                  \/ Range(setting.split[u]) \subseteq Range(known)
        /\ Range(known) \subseteq heard \cup UNION {Range(setting.split[u]) : u \in heard}

\* service.py:131: when the shutdown is over no wire is left open but one that was
\* being closed when it began, unless closing them took longer than it was given.
ShutdownCloses == service = "off" /\ ~setting.hangs => wires = {}

\* No link lives without an owner, while the service runs or afterwards.
NoStrayLink == TypeOK /\ LinksAreHeld /\ ShutdownCloses

\* Whether the places suffice for address u and its rivals: in the long run an address
\* that never answers takes a place at no more than DialTime + 1 of DialTime + LastPause
\* ticks, and one that is up now and then may take it for good.
Rivals(u, kinds) == Cardinality({v \in Range(Candidates) \ {u} : setting.kind[v] \in kinds})
Room(u) ==
    LET period == DialTime + LastPause
    IN  Rivals(u, {"answers", "stranger"}) * period
        + Rivals(u, {"silent", "refuses"}) * (DialTime + 1) < LINKS * period

\* A node that answers does not wait for ever for a link while the program runs, as
\* long as its rivals leave room, whatever their place in the list.
Waits(u) ==
    /\ Running /\ setting.kind[u] = "answers" /\ u \notin links
    /\ u \in Range(Candidates) /\ Room(u)
AnswersAreReached == ~setting.days => \A u \in Url : []<>~Waits(u)
=============================================================================
