--------------------------- MODULE P2PSessionProofs ---------------------------
(***************************************************************************)
(* Proofs about P2PSession, for any number of texts, links and crashes and *)
(* every limit of the ratchet: a client stores the texts of its peer in    *)
(* the order they were given, each at most once; the two stored ratchets   *)
(* stay one DH step apart; on a quiet link the next message is read unless *)
(* its key was used before or too many were lost before it.                *)
(*                                                                         *)
(* The first part, of the texts.  A text is stored, on the way, held by    *)
(* the send that waits for the transport, or waiting in the outbox.  The   *)
(* invariant says of these four places that each is in order and comes     *)
(* before the next (Ordered), and that a text waits only as long as        *)
(* nothing can overtake it (Waits).                                        *)
(***************************************************************************)
EXTENDS P2PSession, RatchetProofs, SequenceTheorems

Rising(q) == \A i, j \in DOMAIN q : i < j => q[i] < q[j]
RisingTexts(c) ==
    \A i, j \in DOMAIN c :
        i < j /\ c[i].body # Prime /\ c[j].body # Prime => c[i].body < c[j].body
Bodies(c) == {c[i].body : i \in DOMAIN c} \ {Prime}
Before(A, B) == \A a \in A, b \in B : a < b

\* Stored, on the way, held, waiting: in this order, and none beyond the n-th text.
Ordered(stored, way, held, waiting, n) ==
    /\ Rising(stored) /\ RisingTexts(way) /\ Rising(waiting)
    /\ Before(ToSet(stored), Bodies(way) \cup held \cup ToSet(waiting))
    /\ Before(Bodies(way), held \cup ToSet(waiting))
    /\ Before(held, ToSet(waiting))
    /\ ToSet(stored) \cup Bodies(way) \cup held \cup ToSet(waiting) \subseteq 1 .. n

Held(p) == IF pc[p] = "transmit" THEN {op[p].frame.body} \ {Prime} ELSE {}
Stream(p) == Ordered(inbox[Peer(p)], chan[Peer(p)], Held(p), outbox[p], texts[p])

\* A text waits while nothing can be sealed, or the flush that will send it runs.
Waits(p) ==
    outbox[p] # <<>> =>
        /\ phase[p] = "open"
        /\ pc[p] = "idle" => ~CanSend(st[p])
        /\ pc[p] # "idle" => pc[p] \in {"transmit", "written"} /\ op[p].kind = "flush"

Short(s) == s # NoState => Len(s.mkskipped) <= MAX_SKIP_SESSION

IInv ==
    /\ TypeOK
    /\ \A p \in Party : Short(st[p]) /\ Short(disk[p]) /\ Waits(p) /\ Stream(p)

-----------------------------------------------------------------------------
(* Sequences in order.                                                     *)

\* A sequence of numbers and its first, its last, its other elements.
LEMMA Numbers ==
    ASSUME NEW q \in Seq(Nat), Rising(q)
    PROVE  /\ \A n \in Nat : /\ ToSet(Append(q, n)) = ToSet(q) \cup {n}
                             /\ Before(ToSet(q), {n}) => Rising(Append(q, n))
           /\ q # <<>> => /\ Rising(Tail(q)) /\ ToSet(q) = {Head(q)} \cup ToSet(Tail(q))
                          /\ Before({Head(q)}, ToSet(Tail(q)))
           /\ Rising(<<>>) /\ ToSet(<<>>) = {}
<1>1. ASSUME NEW n \in Nat
      PROVE  /\ ToSet(Append(q, n)) = ToSet(q) \cup {n}
             /\ Before(ToSet(q), {n}) => Rising(Append(q, n))
    <2>1. /\ DOMAIN Append(q, n) = DOMAIN q \cup {Len(q) + 1} /\ Append(q, n)[Len(q) + 1] = n
          /\ \A i \in DOMAIN q : Append(q, n)[i] = q[i] /\ i < Len(q) + 1 /\ ~(Len(q) + 1 < i)
        OBVIOUS
    <2>2. ~(Len(q) + 1 < Len(q) + 1)
        OBVIOUS
    <2> DEFINE a == Append(q, n)
    <2> HIDE DEF a
    <2>3. ToSet(a) = ToSet(q) \cup {n}
        BY <2>1 DEF ToSet, a
    <2>4. Before(ToSet(q), {n}) => Rising(a)
        BY <2>1, <2>2 DEF Rising, Before, ToSet, a
    <2>. QED BY <2>3, <2>4 DEF a
<1>2. ASSUME q # <<>>
      PROVE  /\ Rising(Tail(q)) /\ ToSet(q) = {Head(q)} \cup ToSet(Tail(q))
             /\ Before({Head(q)}, ToSet(Tail(q)))
    <2> DEFINE t == Tail(q)
               x == Head(q)
    <2>1. /\ DOMAIN t = 1 .. Len(q) - 1 /\ DOMAIN q = 1 .. Len(q) /\ Len(q) \in Nat \ {0}
          /\ \A i \in 1 .. Len(q) - 1 : t[i] = q[i + 1]
          /\ x = q[1]
        BY <1>2
    <2>0. x = q[1]
        BY <2>1
    <2> HIDE DEF t, x
    <2>2. \A i \in DOMAIN t : i \in Nat /\ i + 1 \in DOMAIN q /\ t[i] = q[i + 1] /\ 1 < i + 1
        BY <2>1
    <2>3. \A i \in DOMAIN q : i = 1 \/ (i - 1 \in DOMAIN t /\ t[i - 1] = q[i])
        BY <2>1
    <2>4. Rising(t) /\ Before({x}, ToSet(t))
        <3>1. 1 \in DOMAIN q
            BY <2>1
        <3>. QED BY <2>0, <2>2, <3>1 DEF Rising, Before, ToSet
    <2>5. ToSet(q) = {x} \cup ToSet(t)
        <3>1. 1 \in DOMAIN q
            BY <2>1
        <3>2. ASSUME NEW z \in ToSet(q) PROVE z \in {x} \cup ToSet(t)
            <4>1. PICK i \in DOMAIN q : q[i] = z
                BY <3>2 DEF ToSet
            <4>. QED BY <2>0, <2>3, <4>1 DEF ToSet
        <3>3. ASSUME NEW z \in ToSet(t) PROVE z \in ToSet(q)
            <4>1. PICK i \in DOMAIN t : t[i] = z
                BY <3>3 DEF ToSet
            <4>. QED BY <2>2, <4>1 DEF ToSet
        <3>4. x \in ToSet(q)
            BY <2>0, <3>1 DEF ToSet
        <3>. QED BY <3>2, <3>3, <3>4
    <2>. QED BY <2>4, <2>5 DEF t, x
<1>3. Rising(<<>>) /\ ToSet(<<>>) = {}
    BY DEF Rising, ToSet
<1>. QED BY <1>1, <1>2, <1>3

\* The same of the bodies of the frames on the way; primes do not count.
LEMMA Frames ==
    ASSUME NEW c \in Seq(Frame), RisingTexts(c)
    PROVE  /\ \A f \in Frame :
                /\ Bodies(Append(c, f)) = Bodies(c) \cup ({f.body} \ {Prime})
                /\ Before(Bodies(c), {f.body} \ {Prime}) => RisingTexts(Append(c, f))
           /\ c # <<>> =>
                /\ RisingTexts(Tail(c)) /\ Bodies(c) = ({Head(c).body} \ {Prime}) \cup Bodies(Tail(c))
                /\ Before({Head(c).body} \ {Prime}, Bodies(Tail(c)))
           /\ RisingTexts(<<>>) /\ Bodies(<<>>) = {}
<1>1. ASSUME NEW f \in Frame
      PROVE  /\ Bodies(Append(c, f)) = Bodies(c) \cup ({f.body} \ {Prime})
             /\ Before(Bodies(c), {f.body} \ {Prime}) => RisingTexts(Append(c, f))
    <2>1. /\ DOMAIN Append(c, f) = DOMAIN c \cup {Len(c) + 1} /\ Append(c, f)[Len(c) + 1] = f
          /\ \A i \in DOMAIN c : Append(c, f)[i] = c[i] /\ i < Len(c) + 1 /\ ~(Len(c) + 1 < i)
        OBVIOUS
    <2>2. ~(Len(c) + 1 < Len(c) + 1)
        OBVIOUS
    <2> DEFINE a == Append(c, f)
    <2> HIDE DEF a
    <2>3. Bodies(a) = Bodies(c) \cup ({f.body} \ {Prime})
        BY <2>1 DEF Bodies, a
    <2>4. Before(Bodies(c), {f.body} \ {Prime}) => RisingTexts(a)
        BY <2>1, <2>2 DEF RisingTexts, Before, Bodies, a
    <2>. QED BY <2>3, <2>4 DEF a
<1>2. ASSUME c # <<>>
      PROVE  /\ RisingTexts(Tail(c)) /\ Bodies(c) = ({Head(c).body} \ {Prime}) \cup Bodies(Tail(c))
             /\ Before({Head(c).body} \ {Prime}, Bodies(Tail(c)))
    <2> DEFINE t == Tail(c)
               x == Head(c)
    <2>1. /\ DOMAIN t = 1 .. Len(c) - 1 /\ DOMAIN c = 1 .. Len(c) /\ Len(c) \in Nat \ {0}
          /\ \A i \in 1 .. Len(c) - 1 : t[i] = c[i + 1]
          /\ x = c[1]
        BY <1>2
    <2>0. x = c[1]
        BY <2>1
    <2> HIDE DEF t, x
    <2>2. \A i \in DOMAIN t : i \in Nat /\ i + 1 \in DOMAIN c /\ t[i] = c[i + 1] /\ 1 < i + 1
        BY <2>1
    <2>3. \A i \in DOMAIN c : i = 1 \/ (i - 1 \in DOMAIN t /\ t[i - 1] = c[i])
        BY <2>1
    <2>4. 1 \in DOMAIN c
        BY <2>1
    <2>5. RisingTexts(t) /\ Before({x.body} \ {Prime}, Bodies(t))
        BY <2>0, <2>2, <2>4 DEF RisingTexts, Before, Bodies
    <2>6. Bodies(c) = ({x.body} \ {Prime}) \cup Bodies(t)
        BY <2>0, <2>2, <2>3, <2>4 DEF Bodies
    <2>. QED BY <2>5, <2>6 DEF t, x
<1>3. RisingTexts(<<>>) /\ Bodies(<<>>) = {}
    BY DEF RisingTexts, Bodies
<1>. QED BY <1>1, <1>2, <1>3

\* The places of a text are sequences of numbers, and of frames.
LEMMA Placed ==
    ASSUME NEW q \in Seq(1 .. MaxTexts)
    PROVE  /\ q \in Seq(Nat)
           /\ q # <<>> => Head(q) \in 1 .. MaxTexts /\ Tail(q) \in Seq(1 .. MaxTexts)
           /\ \A n \in 1 .. MaxTexts : Append(q, n) \in Seq(1 .. MaxTexts)
           /\ <<>> \in Seq(1 .. MaxTexts)
<1> DEFINE S == 1 .. MaxTexts
<1>1. S \subseteq Nat
    OBVIOUS
<1> HIDE DEF S
<1>2. ASSUME NEW r \in Seq(S)
      PROVE  /\ r \in Seq(Nat) /\ \A n \in S : Append(r, n) \in Seq(S)
             /\ r # <<>> => Head(r) \in S /\ Tail(r) \in Seq(S)
             /\ <<>> \in Seq(S)
    <2>1. r \in Seq(Nat)
        BY <1>1, SeqMonotonic
    <2>2. \A n \in S : Append(r, n) \in Seq(S)
        OBVIOUS
    <2>3. r # <<>> => Head(r) \in S /\ Tail(r) \in Seq(S)
        OBVIOUS
    <2>. QED BY <2>1, <2>2, <2>3
<1>. QED BY <1>2 DEF S

\* Frames on the way: what is read is a frame, and so is the rest.
LEMMA OnTheWay ==
    ASSUME NEW c \in Seq(Frame)
    PROVE  /\ c # <<>> => Head(c) \in Frame /\ Tail(c) \in Seq(Frame)
           /\ \A f \in Frame : Append(c, f) \in Seq(Frame)
           /\ <<>> \in Seq(Frame)
OBVIOUS

\* What is lost leaves the rest in order.
LEMMA Lost ==
    ASSUME NEW s \in Seq(Nat), NEW w \in Seq(Frame), NEW h, NEW q \in Seq(Nat), NEW n \in Nat,
           Ordered(s, w, h, q, n)
    PROVE  /\ Ordered(s, <<>>, h, q, n) /\ Ordered(s, w, {}, q, n) /\ Ordered(s, w, h, <<>>, n)
           /\ w # <<>> => Ordered(s, Tail(w), h, q, n)
<1>1. Rising(<<>>) /\ ToSet(<<>>) = {} /\ RisingTexts(<<>>) /\ Bodies(<<>>) = {}
    BY Numbers, Frames DEF Ordered
<1>2. w # <<>> => RisingTexts(Tail(w)) /\ Bodies(Tail(w)) \subseteq Bodies(w)
    BY Frames DEF Ordered
<1>. QED BY <1>1, <1>2 DEF Ordered, Before

\* The first text on the way is stored.
LEMMA Delivered ==
    ASSUME NEW s \in Seq(Nat), NEW w \in Seq(Frame), NEW h, NEW q \in Seq(Nat), NEW n \in Nat,
           Ordered(s, w, h, q, n), w # <<>>, Head(w).body # Prime
    PROVE  Ordered(Append(s, Head(w).body), Tail(w), h, q, n)
<1> DEFINE b == Head(w).body
           t == Tail(w)
<1>1. Head(w) \in Frame
    BY OnTheWay
<1>2. b \in Nat /\ b # Prime
    BY <1>1, SessionAssumption DEF Frame
<1>3. RisingTexts(t) /\ Bodies(w) = {b} \cup Bodies(t) /\ Before({b}, Bodies(t))
    <2>1. {b} \ {Prime} = {b}
        BY <1>2
    <2>. QED BY <2>1, Frames DEF Ordered
<1> HIDE DEF b, t
<1>4. Before(ToSet(s), {b})
    BY <1>3 DEF Ordered, Before
<1>5. Rising(Append(s, b)) /\ ToSet(Append(s, b)) = ToSet(s) \cup {b}
    BY <1>2, <1>4, Numbers DEF Ordered
<1>6. Ordered(Append(s, b), t, h, q, n)
    BY <1>3, <1>5 DEF Ordered, Before
<1>. QED BY <1>6 DEF b, t

\* The frame that was held goes on its way.
LEMMA SentOff ==
    ASSUME NEW s \in Seq(Nat), NEW w \in Seq(Frame), NEW f \in Frame, NEW q \in Seq(Nat),
           NEW n \in Nat, Ordered(s, w, {f.body} \ {Prime}, q, n)
    PROVE  Ordered(s, Append(w, f), {}, q, n)
<1>1. Bodies(Append(w, f)) = Bodies(w) \cup ({f.body} \ {Prime}) /\ RisingTexts(Append(w, f))
    <2>1. Before(Bodies(w), {f.body} \ {Prime})
        BY DEF Ordered, Before
    <2>. QED BY <2>1, Frames DEF Ordered
<1>. QED BY <1>1 DEF Ordered, Before

\* With nothing held, the first text that waits is sealed.
LEMMA Popped ==
    ASSUME NEW s \in Seq(Nat), NEW w \in Seq(Frame), NEW q \in Seq(Nat), NEW n \in Nat,
           Ordered(s, w, {}, q, n), q # <<>>
    PROVE  Ordered(s, w, {Head(q)} \ {Prime}, Tail(q), n)
<1> DEFINE x == Head(q)
           t == Tail(q)
<1>1. Rising(t) /\ ToSet(q) = {x} \cup ToSet(t) /\ Before({x}, ToSet(t))
    BY Numbers DEF Ordered
<1> HIDE DEF x, t
<1>2. Ordered(s, w, {x} \ {Prime}, t, n)
    BY <1>1 DEF Ordered, Before
<1>. QED BY <1>2 DEF x, t

\* The user gives one more text: it is sealed if none waits, or it waits.
LEMMA Given ==
    ASSUME NEW s \in Seq(Nat), NEW w \in Seq(Frame), NEW q \in Seq(Nat), NEW n \in Nat,
           Ordered(s, w, {}, q, n)
    PROVE  /\ q = <<>> => Ordered(s, w, {n + 1} \ {Prime}, q, n + 1)
           /\ Ordered(s, w, {}, Append(q, n + 1), n + 1)
<1>1. 1 .. n + 1 = (1 .. n) \cup {n + 1} /\ \A i \in 1 .. n : i < n + 1
    OBVIOUS
<1>2. /\ Before(ToSet(s), {n + 1}) /\ Before(Bodies(w), {n + 1}) /\ Before(ToSet(q), {n + 1})
    BY <1>1 DEF Ordered, Before
<1>3. /\ Rising(Append(q, n + 1)) /\ ToSet(Append(q, n + 1)) = ToSet(q) \cup {n + 1}
      /\ ToSet(<<>>) = {}
    <2>1. n + 1 \in Nat /\ Rising(q)
        BY DEF Ordered
    <2>. QED BY ONLY <1>2, <2>1, Numbers
<1>4. q = <<>> => Ordered(s, w, {n + 1} \ {Prime}, q, n + 1)
    BY <1>1, <1>2, <1>3 DEF Ordered, Before
<1>5. Ordered(s, w, {}, Append(q, n + 1), n + 1)
    BY <1>1, <1>2, <1>3 DEF Ordered, Before
<1>. QED BY <1>4, <1>5

-----------------------------------------------------------------------------
(* The invariant.                                                          *)

\* Each party has the other for its peer, and there is no third.
LEMMA PeerIsParty ==
    ASSUME NEW p \in Party
    PROVE  /\ Peer(p) \in Party /\ Peer(p) # p /\ Peer(Peer(p)) = p
           /\ \A q \in Party : q = p \/ q = Peer(p)
<1>1. PICK q \in Party : Party = {p, q} /\ p # q
    BY SessionAssumption
<1>2. Peer(p) = q /\ Peer(q) = p
    BY <1>1 DEF Peer
<1>. QED BY <1>1, <1>2

\* What TypeOK says of the places of the texts.
LEMMA Typed ==
    ASSUME TypeOK, NEW p \in Party
    PROVE  /\ inbox[p] \in Seq(Nat) /\ chan[p] \in Seq(Frame) /\ outbox[p] \in Seq(Nat)
           /\ texts[p] \in Nat
           /\ pc[p] # "idle" => op[p] \in Operation /\ op[p].frame \in Frame
           /\ phase[p] = "open" => st[p] \in RatchetState
           /\ disk[p] \in RatchetState \cup {NoState}
<1>1. inbox[p] \in Seq(1 .. MaxTexts) /\ outbox[p] \in Seq(1 .. MaxTexts)
    BY DEF TypeOK
<1>2. inbox[p] \in Seq(Nat) /\ outbox[p] \in Seq(Nat)
    BY <1>1, Placed
<1>3. chan[p] \in Seq(Frame) /\ texts[p] \in Nat
    BY SessionAssumption DEF TypeOK
<1>4. pc[p] # "idle" => op[p] \in Operation /\ op[p].frame \in Frame
    BY DEF TypeOK, Operation
<1>5. (phase[p] = "open" => st[p] \in RatchetState) /\ disk[p] \in RatchetState \cup {NoState}
    BY DEF TypeOK
<1>. QED BY <1>2, <1>3, <1>4, <1>5

\* The operation and the state with which a sending starts.
LEMMA StartTyped ==
    ASSUME TypeOK, NEW p \in Party, NEW s \in RatchetState, Short(s),
           NEW kind \in {"text", "prime", "flush"}, NEW body \in 0 .. MaxTexts,
           StartSending(p, s, kind, body)
    PROVE  LET o == [kind |-> kind, frame |-> Sealed(p, s, body)]
           IN  /\ st' \in [Party -> RatchetState \cup {NoState}]
               /\ op' \in [Party -> Operation \cup {NoState}]
               /\ pc' = [pc EXCEPT ![p] = "transmit"] /\ op' = [op EXCEPT ![p] = o]
               /\ st' = [st EXCEPT ![p] = ratchet_encrypt(s)] /\ op'[p] = o /\ o # NoState
               /\ o.frame.body = body /\ o.kind = kind
               /\ ratchet_encrypt(s) \in RatchetState \ {NoState} /\ Short(ratchet_encrypt(s))
<1> DEFINE o == [kind |-> kind, frame |-> Sealed(p, s, body)]
           r == ratchet_encrypt(s)
<1>1. r \in RatchetState /\ r # NoState /\ r.mkskipped = s.mkskipped /\ s # NoState
    BY EncryptFields, NoStateAssumption
<1>2. Sealed(p, s, body) \in Frame
    BY DEF Sealed, Frame, NextHeader, NextSealKey, Header, RatchetState, MessageKey
<1>3. o \in Operation /\ o.frame.body = body /\ o.kind = kind
    BY <1>2 DEF Operation, Sealed
<1>4. o # NoState
    BY <1>3, NoStateAssumption
<1>5. /\ st' = [st EXCEPT ![p] = r] /\ pc' = [pc EXCEPT ![p] = "transmit"]
      /\ op' = [op EXCEPT ![p] = o]
    BY DEF StartSending
<1> HIDE DEF o, r
<1>6. /\ st' \in [Party -> RatchetState \cup {NoState}]
      /\ op' \in [Party -> Operation \cup {NoState}] /\ op'[p] = o
    BY <1>1, <1>3, <1>5 DEF TypeOK
<1>7. Short(r)
    BY <1>1 DEF Short
<1>. QED BY <1>1, <1>3, <1>4, <1>5, <1>6, <1>7 DEF o, r

\* What the invariant says of one party.
LEMMA OfParty ==
    ASSUME IInv, NEW p \in Party
    PROVE  TypeOK /\ Short(st[p]) /\ Short(disk[p]) /\ Waits(p) /\ Stream(p)
BY DEF IInv

\* There is no third party.
LEMMA OfBoth ==
    ASSUME NEW p \in Party, TypeOK',
           \A q \in {p, Peer(p)} : Short(st[q])' /\ Short(disk[q])' /\ Waits(q)' /\ Stream(q)'
    PROVE  IInv'
BY PeerIsParty DEF IInv

\* What the invariant says of a party holds on if none of its values changes.
LEMMA Kept ==
    ASSUME IInv, NEW p \in Party,
           UNCHANGED <<inbox[Peer(p)], chan[Peer(p)], pc[p], op[p], outbox[p], texts[p],
                       st[p], disk[p], phase[p]>>
    PROVE  Short(st[p])' /\ Short(disk[p])' /\ Waits(p)' /\ Stream(p)'
BY OfParty DEF Short, Waits, Stream, Held

\* The user's text is sealed or waits.
LEMMA SendKeeps == ASSUME IInv, NEW p \in Party, Send(p) PROVE IInv'
<1> DEFINE n == texts[p] + 1
<1>0. /\ TypeOK /\ Peer(p) \in Party /\ Peer(p) # p /\ Peer(Peer(p)) = p
      /\ \A q \in Party : q = p \/ q = Peer(p)
      /\ Short(st[p]) /\ Waits(p) /\ Stream(p)
    BY OfParty, PeerIsParty
<1>1. /\ inbox[Peer(p)] \in Seq(Nat) /\ chan[Peer(p)] \in Seq(Frame) /\ outbox[p] \in Seq(Nat)
      /\ texts[p] \in Nat /\ texts[Peer(p)] \in Nat
    BY <1>0, Typed
<1>2. /\ phase[p] = "open" /\ pc[p] = "idle" /\ n \in 1 .. MaxTexts
      /\ texts' = [texts EXCEPT ![p] = n]
      /\ UNCHANGED <<disk, inbox, phase, chan, up, initiator, pake, links, nextKey, crashes, handed>>
    BY <1>1, SessionAssumption DEF Send, link
<1>3. st[p] \in RatchetState /\ Ordered(inbox[Peer(p)], chan[Peer(p)], {}, outbox[p], texts[p])
    BY <1>0, <1>2, Typed DEF Stream, Held
<1>4. Peer(p) \in Party /\ p = Peer(Peer(p)) /\ Peer(p) # p /\ n # Prime
    BY <1>0, <1>2 DEF Prime
<1> HIDE DEF n
<1>5. CASE CanSend(st[p])
    <2> DEFINE o == [kind |-> "text", frame |-> Sealed(p, st[p], n)]
    <2>1. StartSending(p, st[p], "text", n) /\ UNCHANGED <<rows, outbox>> /\ outbox[p] = <<>>
        BY <1>0, <1>2, <1>5 DEF Send, Waits, n
    <2>2. /\ st' \in [Party -> RatchetState \cup {NoState}]
          /\ op' \in [Party -> Operation \cup {NoState}]
          /\ pc' = [pc EXCEPT ![p] = "transmit"] /\ op' = [op EXCEPT ![p] = o]
          /\ st' = [st EXCEPT ![p] = ratchet_encrypt(st[p])] /\ op'[p] = o /\ o # NoState
          /\ o.frame.body = n /\ ratchet_encrypt(st[p]) \in RatchetState \ {NoState}
          /\ Short(ratchet_encrypt(st[p]))
        BY <1>0, <1>2, <1>3, <2>1, StartTyped
    <2> HIDE DEF o
    <2>3. TypeOK'
        <3>1. texts' \in [Party -> 0 .. MaxTexts] /\ n \in 0 .. MaxTexts
            BY <1>0, <1>2 DEF TypeOK
        <3>2. /\ pc' \in [Party -> {"idle", "transmit", "written", "recorded"}]
              /\ \A q \in Party : pc'[q] = "idle" <=> op'[q] = NoState
            BY <1>0, <2>2 DEF TypeOK
        <3>3. \A q \in Party : phase'[q] = "open" <=> st'[q] # NoState
            BY <1>0, <1>2, <2>2 DEF TypeOK
        <3>. QED BY <1>0, <1>2, <2>1, <2>2, <3>1, <3>2, <3>3 DEF TypeOK
    <2>4. /\ pc'[p] = "transmit" /\ st'[p] = ratchet_encrypt(st[p]) /\ texts'[p] = texts[p] + 1
          /\ UNCHANGED <<pc[Peer(p)], op[Peer(p)], texts[Peer(p)], st[Peer(p)]>>
        BY <1>0, <1>2, <1>4, <2>2 DEF TypeOK, n
    <2>5. Ordered(inbox[Peer(p)], chan[Peer(p)], {n} \ {Prime}, outbox[p], n)
        BY <1>1, <1>3, <2>1, Given DEF n
    <2>6. Stream(p)' /\ Waits(p)' /\ Short(st[p])' /\ Short(disk[p])'
        BY <1>2, <1>0, <2>1, <2>2, <2>4, <2>5, OfParty DEF Stream, Held, Waits, n
    <2>. QED BY <1>2, <1>4, <2>1, <2>3, <2>4, <2>6, Kept, OfBoth
<1>6. CASE ~CanSend(st[p])
    <2>1. /\ rows' = [rows EXCEPT ![p][n] = "pending"] /\ outbox' = [outbox EXCEPT ![p] = Append(@, n)]
          /\ UNCHANGED <<st, pc, op>>
        BY <1>6 DEF Send, n
    <2>2. Append(outbox[p], n) \in Seq(1 .. MaxTexts)
        BY <1>0, <1>2, Placed DEF TypeOK
    <2>3. TypeOK'
        <3>1. texts' \in [Party -> 0 .. MaxTexts] /\ n \in 0 .. MaxTexts
            BY <1>0, <1>2 DEF TypeOK
        <3>2. outbox' \in [Party -> Seq(1 .. MaxTexts)]
            BY <1>0, <2>1, <2>2 DEF TypeOK
        <3>3. rows' \in [Party -> [1 .. MaxTexts -> {"none", "pending", "sent"}]]
            BY <1>0, <2>1 DEF TypeOK
        <3>. QED BY <1>0, <1>2, <2>1, <3>1, <3>2, <3>3 DEF TypeOK
    <2>4. /\ outbox'[p] = Append(outbox[p], n) /\ texts'[p] = texts[p] + 1
          /\ UNCHANGED <<outbox[Peer(p)], texts[Peer(p)]>>
        BY <1>0, <1>2, <1>4, <2>1 DEF TypeOK, n
    <2>5. Ordered(inbox[Peer(p)], chan[Peer(p)], {}, Append(outbox[p], n), n)
        BY <1>1, <1>3, Given DEF n
    <2>6. Stream(p)' /\ Waits(p)' /\ Short(st[p])' /\ Short(disk[p])'
        BY <1>0, <1>2, <1>6, <2>1, <2>4, <2>5, OfParty DEF Stream, Held, Waits, n
    <2>. QED BY <1>2, <1>4, <2>1, <2>3, <2>4, <2>6, Kept, OfBoth
<1>. QED BY <1>5, <1>6

\* The frame goes on its way, or is lost with the link.
LEMMA TransmitKeeps == ASSUME IInv, NEW p \in Party, Transmit(p) PROVE IInv'
<1> DEFINE f == op[p].frame
<1>0. /\ TypeOK /\ Peer(p) \in Party /\ Peer(p) # p /\ Peer(Peer(p)) = p
      /\ Short(st[p]) /\ Short(disk[p]) /\ Waits(p) /\ Stream(p) /\ Stream(Peer(p))
    BY OfParty, PeerIsParty
<1>1. /\ pc[p] = "transmit" /\ pc' = [pc EXCEPT ![p] = "written"] /\ handed' = handed \cup {f}
      /\ chan' = IF up THEN [chan EXCEPT ![Peer(p)] = Append(@, f)] ELSE chan
      /\ UNCHANGED <<disk, rows, inbox, texts, phase, st, outbox, op, up, initiator, pake, links,
                     nextKey, crashes>>
    BY DEF Transmit, vault
<1>2. /\ inbox[Peer(p)] \in Seq(Nat) /\ chan[Peer(p)] \in Seq(Frame) /\ outbox[p] \in Seq(Nat)
      /\ texts[p] \in Nat /\ f \in Frame /\ op[p] # NoState
    BY <1>0, <1>1, Typed DEF TypeOK
<1>3. Ordered(inbox[Peer(p)], chan[Peer(p)], {f.body} \ {Prime}, outbox[p], texts[p])
    BY <1>0, <1>1 DEF Stream, Held
<1> HIDE DEF f
<1>4. chan' \in [Party -> Seq(Frame)]
    BY <1>0, <1>1, <1>2, OnTheWay DEF TypeOK
<1>5. TypeOK'
    BY <1>0, <1>1, <1>2, <1>4 DEF TypeOK
<1>6. /\ chan'[Peer(p)] \in {Append(chan[Peer(p)], f), chan[Peer(p)]}
      /\ pc'[p] = "written" /\ UNCHANGED <<chan[p], pc[Peer(p)]>>
    BY <1>0, <1>1 DEF TypeOK
<1>7. /\ Ordered(inbox[Peer(p)], Append(chan[Peer(p)], f), {}, outbox[p], texts[p])
      /\ Ordered(inbox[Peer(p)], chan[Peer(p)], {}, outbox[p], texts[p])
    BY <1>2, <1>3, SentOff, Lost
<1>8. Stream(p)' /\ Waits(p)' /\ Short(st[p])' /\ Short(disk[p])'
    BY <1>0, <1>1, <1>6, <1>7 DEF Stream, Held, Waits
<1>. QED BY <1>0, <1>1, <1>5, <1>6, <1>8, Kept, OfBoth

\* A session that is dropped loses what waits and what is on the way to it.
LEMMA ForgetKeeps ==
    ASSUME IInv, NEW p \in Party, Forget(p), TypeOK', pc'[p] = "idle",
           UNCHANGED <<disk, inbox, texts, op[Peer(p)], pc[Peer(p)]>>
    PROVE  IInv'
<1>0. /\ TypeOK /\ Peer(p) \in Party /\ Peer(p) # p /\ Peer(Peer(p)) = p
      /\ Short(st[p]) /\ Short(disk[p]) /\ Waits(p) /\ Stream(p)
      /\ Short(st[Peer(p)]) /\ Short(disk[Peer(p)]) /\ Waits(Peer(p)) /\ Stream(Peer(p))
    BY OfParty, PeerIsParty
<1>1. /\ inbox[Peer(p)] \in Seq(Nat) /\ chan[Peer(p)] \in Seq(Frame) /\ outbox[p] \in Seq(Nat)
      /\ texts[p] \in Nat /\ inbox[p] \in Seq(Nat) /\ chan[p] \in Seq(Frame)
      /\ outbox[Peer(p)] \in Seq(Nat) /\ texts[Peer(p)] \in Nat
    BY <1>0, Typed
<1>2. /\ st'[p] = NoState /\ outbox'[p] = <<>> /\ chan'[p] = <<>>
      /\ UNCHANGED <<st[Peer(p)], outbox[Peer(p)], chan[Peer(p)], phase[Peer(p)]>>
    BY <1>0 DEF Forget, TypeOK
<1>3. /\ Ordered(inbox[Peer(p)], chan[Peer(p)], {}, <<>>, texts[p])
      /\ Ordered(inbox[p], <<>>, Held(Peer(p)), outbox[Peer(p)], texts[Peer(p)])
    BY <1>0, <1>1, Lost, Placed DEF Stream
<1>4. Held(p)' = {} /\ Held(Peer(p))' = Held(Peer(p))
    BY <1>0 DEF Held
<1>5. Stream(p)' /\ Waits(p)' /\ Short(st[p])' /\ Short(disk[p])'
    BY <1>0, <1>2, <1>3, <1>4 DEF Stream, Waits, Short
<1>6. Stream(Peer(p))' /\ Waits(Peer(p))' /\ Short(st[Peer(p)])' /\ Short(disk[Peer(p)])'
    BY <1>0, <1>2, <1>3, <1>4 DEF Stream, Waits
<1>. QED BY <1>5, <1>6, OfBoth

\* A session is dropped with its link, by a crash, or by a flush that fails.
LEMMA EndKeeps ==
    ASSUME IInv, NEW p \in Party, Disconnect(p) \/ Crash(p) \/ (SendRaises(p) /\ op[p].kind = "flush")
    PROVE  IInv'
<1>0. TypeOK /\ Peer(p) \in Party /\ Peer(p) # p
    BY OfParty, PeerIsParty
<1>1. /\ Forget(p) /\ UNCHANGED <<disk, rows, inbox, texts, initiator, pake, links, nextKey, handed>>
      /\ up' \in BOOLEAN /\ crashes' \in 0 .. MaxCrashes
      /\ \/ ReleaseLock(p)
         \/ pc[p] = "idle" /\ UNCHANGED <<pc, op>>
    <2>1. up \in BOOLEAN /\ crashes \in 0 .. MaxCrashes /\ MaxCrashes \in Nat
        BY <1>0, SessionAssumption DEF TypeOK
    <2>2. CASE Disconnect(p)
        BY <2>1, <2>2 DEF Disconnect, vault
    <2>3. CASE Crash(p)
        <3>1. crashes' \in 0 .. MaxCrashes
            BY ONLY <2>1, <2>3 DEF Crash
        <3>2. /\ Forget(p) /\ ReleaseLock(p) /\ up' = FALSE
              /\ UNCHANGED <<disk, rows, inbox, texts, initiator, pake, links, nextKey, handed>>
            BY ONLY <2>3 DEF Crash, vault
        <3>. QED BY <3>1, <3>2
    <2>4. CASE SendRaises(p) /\ op[p].kind = "flush"
        BY <2>1, <2>4 DEF SendRaises, vault
    <2>. QED BY <2>2, <2>3, <2>4
<1>2. /\ phase' = [phase EXCEPT ![p] = "closed"] /\ st' = [st EXCEPT ![p] = NoState]
      /\ outbox' = [outbox EXCEPT ![p] = <<>>] /\ chan' = [chan EXCEPT ![p] = <<>>]
    BY <1>1 DEF Forget
<1>3. /\ outbox' \in [Party -> Seq(1 .. MaxTexts)] /\ chan' \in [Party -> Seq(Frame)]
    <2>1. <<>> \in Seq(1 .. MaxTexts) /\ <<>> \in Seq(Frame)
        OBVIOUS
    <2>. QED BY <1>0, <1>2, <2>1 DEF TypeOK
<1>4. /\ pc'[p] = "idle" /\ UNCHANGED <<op[Peer(p)], pc[Peer(p)]>>
      /\ pc' \in [Party -> {"idle", "transmit", "written", "recorded"}]
      /\ op' \in [Party -> Operation \cup {NoState}]
      /\ \A q \in Party : pc'[q] = "idle" <=> op'[q] = NoState
    BY <1>0, <1>1 DEF ReleaseLock, TypeOK
<1>5. TypeOK'
    BY <1>0, <1>1, <1>2, <1>3, <1>4 DEF TypeOK
<1>. QED BY <1>1, <1>4, <1>5, ForgetKeeps

\* A send that fails without a flush leaves the session, and loses the text.
LEMMA RaiseKeeps ==
    ASSUME IInv, NEW p \in Party, SendRaises(p), op[p].kind # "flush"
    PROVE  IInv'
<1>0. /\ TypeOK /\ Peer(p) \in Party /\ Peer(p) # p
      /\ Short(st[p]) /\ Short(disk[p]) /\ Waits(p) /\ Stream(p)
    BY OfParty, PeerIsParty
<1>1. /\ pc' = [pc EXCEPT ![p] = "idle"] /\ op' = [op EXCEPT ![p] = NoState] /\ pc[p] # "idle"
      /\ UNCHANGED <<disk, rows, inbox, texts, phase, st, outbox, chan, up, initiator, pake,
                     links, nextKey, crashes, handed>>
    BY DEF SendRaises, ReleaseLock, vault
<1>2. TypeOK'
    BY <1>0, <1>1 DEF TypeOK
<1>3. pc'[p] = "idle" /\ UNCHANGED <<op[Peer(p)], pc[Peer(p)]>>
    BY <1>0, <1>1 DEF TypeOK
<1>4. outbox[p] = <<>>
    BY <1>0, <1>1 DEF Waits
<1>5. Ordered(inbox[Peer(p)], chan[Peer(p)], {}, outbox[p], texts[p])
    BY <1>0, Typed, Lost DEF Stream
<1>6. Stream(p)' /\ Waits(p)' /\ Short(st[p])' /\ Short(disk[p])'
    BY <1>0, <1>1, <1>3, <1>4, <1>5 DEF Stream, Waits, Held
<1>. QED BY <1>0, <1>1, <1>2, <1>3, <1>6, Kept, OfBoth

\* A flush round: the first text that waits is sealed with state s and held.
LEMMA FlushNextKeeps ==
    ASSUME TypeOK, NEW p \in Party, NEW s \in RatchetState, Short(s), FlushNext(p, s),
           outbox[p] # <<>>, phase[p] = "open", phase' = phase,
           Ordered(inbox[Peer(p)], chan[Peer(p)], {}, outbox[p], texts[p]),
           UNCHANGED <<inbox[Peer(p)], chan[Peer(p)], texts[p]>>
    PROVE  /\ st' \in [Party -> RatchetState \cup {NoState}]
           /\ op' \in [Party -> Operation \cup {NoState}]
           /\ outbox' \in [Party -> Seq(1 .. MaxTexts)]
           /\ pc' \in [Party -> {"idle", "transmit", "written", "recorded"}]
           /\ \A q \in Party : phase'[q] = "open" <=> st'[q] # NoState
           /\ \A q \in Party : pc'[q] = "idle" <=> op'[q] = NoState
           /\ UNCHANGED <<st[Peer(p)], op[Peer(p)], outbox[Peer(p)], pc[Peer(p)]>>
           /\ Short(st[p])' /\ Waits(p)' /\ Stream(p)'
<1> DEFINE x == Head(outbox[p])
           o == [kind |-> "flush", frame |-> Sealed(p, s, x)]
<1>0. /\ outbox[p] \in Seq(1 .. MaxTexts) /\ x \in 1 .. MaxTexts /\ Tail(outbox[p]) \in Seq(1 .. MaxTexts)
      /\ Peer(p) \in Party /\ Peer(p) # p
    BY Placed, PeerIsParty DEF TypeOK
<1>1. StartSending(p, s, "flush", x) /\ outbox' = [outbox EXCEPT ![p] = Tail(@)]
    BY DEF FlushNext
<1>2. x \in 0 .. MaxTexts
    BY <1>0
<1> HIDE DEF x
<1>3. /\ st' \in [Party -> RatchetState \cup {NoState}]
      /\ op' \in [Party -> Operation \cup {NoState}]
      /\ pc' = [pc EXCEPT ![p] = "transmit"] /\ op' = [op EXCEPT ![p] = o]
      /\ st' = [st EXCEPT ![p] = ratchet_encrypt(s)] /\ op'[p] = o /\ o # NoState
      /\ o.frame.body = x /\ o.kind = "flush"
      /\ ratchet_encrypt(s) \in RatchetState \ {NoState} /\ Short(ratchet_encrypt(s))
    BY <1>1, <1>2, StartTyped
<1> HIDE DEF o
<1>4. /\ outbox' \in [Party -> Seq(1 .. MaxTexts)] /\ outbox'[p] = Tail(outbox[p])
      /\ pc' \in [Party -> {"idle", "transmit", "written", "recorded"}] /\ pc'[p] = "transmit"
      /\ UNCHANGED <<st[Peer(p)], op[Peer(p)], outbox[Peer(p)], pc[Peer(p)]>>
      /\ st'[p] = ratchet_encrypt(s)
    BY <1>0, <1>1, <1>3 DEF TypeOK
<1>5. /\ \A q \in Party : phase'[q] = "open" <=> st'[q] # NoState
      /\ \A q \in Party : pc'[q] = "idle" <=> op'[q] = NoState
    <2>1. /\ st'[p] # NoState /\ phase'[p] = "open" /\ pc'[p] # "idle" /\ op'[p] # NoState
          /\ \A q \in Party : phase[q] = "open" <=> st[q] # NoState
          /\ \A q \in Party : pc[q] = "idle" <=> op[q] = NoState
        BY <1>3, <1>4 DEF TypeOK
    <2>2. phase' = phase /\ \A q \in Party : q = p \/ q = Peer(p)
        BY PeerIsParty
    <2>3. UNCHANGED <<st[Peer(p)], op[Peer(p)], pc[Peer(p)]>>
        BY <1>4
    <2>. QED BY ONLY <2>1, <2>2, <2>3
<1>6. Ordered(inbox[Peer(p)], chan[Peer(p)], {x} \ {Prime}, Tail(outbox[p]), texts[p])
    BY <1>0, Typed, Popped DEF x
<1>7. Stream(p)' /\ Waits(p)' /\ Short(st[p])'
    BY <1>0, <1>3, <1>4, <1>6 DEF Stream, Waits, Held
<1>. QED BY <1>3, <1>4, <1>5, <1>7

\* The row is written; a flush goes on.
LEMMA RecordKeeps == ASSUME IInv, NEW p \in Party, Record(p) PROVE IInv'
<1>0. /\ TypeOK /\ Peer(p) \in Party /\ Peer(p) # p
      /\ Short(st[p]) /\ Short(disk[p]) /\ Waits(p) /\ Stream(p)
    BY OfParty, PeerIsParty
<1>1. /\ pc[p] = "written" /\ rows' \in [Party -> [1 .. MaxTexts -> {"none", "pending", "sent"}]]
      /\ UNCHANGED <<disk, inbox, texts, phase, chan, up, initiator, pake, links, nextKey,
                     crashes, handed>>
    BY <1>0 DEF Record, link, TypeOK
<1>2. Ordered(inbox[Peer(p)], chan[Peer(p)], {}, outbox[p], texts[p])
    BY <1>0, <1>1 DEF Stream, Held
<1>3. CASE op[p].kind = "flush" /\ outbox[p] # <<>>
    <2>1. FlushNext(p, st[p]) /\ phase[p] = "open" /\ st[p] \in RatchetState
        BY <1>0, <1>1, <1>3, Typed DEF Record, Waits
    <2>2. /\ st' \in [Party -> RatchetState \cup {NoState}]
          /\ op' \in [Party -> Operation \cup {NoState}]
          /\ outbox' \in [Party -> Seq(1 .. MaxTexts)]
          /\ pc' \in [Party -> {"idle", "transmit", "written", "recorded"}]
          /\ \A q \in Party : phase'[q] = "open" <=> st'[q] # NoState
          /\ \A q \in Party : pc'[q] = "idle" <=> op'[q] = NoState
          /\ UNCHANGED <<st[Peer(p)], op[Peer(p)], outbox[Peer(p)], pc[Peer(p)]>>
          /\ Short(st[p])' /\ Waits(p)' /\ Stream(p)'
        BY <1>0, <1>1, <1>2, <1>3, <2>1, FlushNextKeeps
    <2>3. TypeOK'
        BY <1>0, <1>1, <2>2 DEF TypeOK
    <2>. QED BY <1>0, <1>1, <2>2, <2>3, Kept, OfBoth
<1>4. CASE ~(op[p].kind = "flush" /\ outbox[p] # <<>>)
    <2>1. pc' = [pc EXCEPT ![p] = "recorded"] /\ UNCHANGED <<st, op, outbox>>
        BY <1>4 DEF Record
    <2>2. TypeOK'
        BY <1>0, <1>1, <2>1 DEF TypeOK
    <2>3. pc'[p] = "recorded" /\ UNCHANGED pc[Peer(p)] /\ outbox[p] = <<>>
        BY <1>0, <1>1, <1>4, <2>1 DEF TypeOK, Waits
    <2>4. Stream(p)' /\ Waits(p)' /\ Short(st[p])' /\ Short(disk[p])'
        BY <1>0, <1>1, <1>2, <2>1, <2>3 DEF Stream, Waits, Held
    <2>. QED BY <1>0, <1>1, <2>1, <2>2, <2>3, <2>4, Kept, OfBoth
<1>. QED BY <1>3, <1>4

\* The state is saved and the lock released.
LEMMA SaveKeeps == ASSUME IInv, NEW p \in Party, Save(p) PROVE IInv'
<1>0. /\ TypeOK /\ Peer(p) \in Party /\ Peer(p) # p
      /\ Short(st[p]) /\ Short(disk[p]) /\ Waits(p) /\ Stream(p)
    BY OfParty, PeerIsParty
<1>1. /\ pc[p] = "recorded" /\ disk' = [disk EXCEPT ![p] = st[p]]
      /\ pc' = [pc EXCEPT ![p] = "idle"] /\ op' = [op EXCEPT ![p] = NoState]
      /\ UNCHANGED <<rows, inbox, texts, phase, st, outbox, chan, up, initiator, pake, links,
                     nextKey, crashes, handed>>
    BY DEF Save, ReleaseLock, link
<1>2. TypeOK'
    BY <1>0, <1>1 DEF TypeOK
<1>3. /\ pc'[p] = "idle" /\ disk'[p] = st[p] /\ outbox[p] = <<>>
      /\ UNCHANGED <<op[Peer(p)], pc[Peer(p)], disk[Peer(p)]>>
    BY <1>0, <1>1 DEF TypeOK, Waits
<1>4. Ordered(inbox[Peer(p)], chan[Peer(p)], {}, outbox[p], texts[p])
    BY <1>0, <1>1 DEF Stream, Held
<1>5. Stream(p)' /\ Waits(p)' /\ Short(st[p])' /\ Short(disk[p])'
    BY <1>0, <1>1, <1>3, <1>4 DEF Stream, Waits, Held
<1>. QED BY <1>0, <1>1, <1>2, <1>3, <1>5, Kept, OfBoth

\* A frame that does not open is dropped.
LEMMA RefuseKeeps == ASSUME IInv, NEW p \in Party, Refuse(p) PROVE IInv'
<1>0. /\ TypeOK /\ Peer(p) \in Party /\ Peer(p) # p /\ Peer(Peer(p)) = p
      /\ Short(st[Peer(p)]) /\ Short(disk[Peer(p)]) /\ Waits(Peer(p)) /\ Stream(Peer(p))
    BY OfParty, PeerIsParty
<1>1. /\ chan[p] # <<>> /\ chan' = [chan EXCEPT ![p] = Tail(@)]
      /\ UNCHANGED <<disk, rows, inbox, texts, phase, st, outbox, pc, op, up, initiator, pake,
                     links, nextKey, crashes, handed>>
    BY DEF Refuse, vault, session
<1>2. /\ inbox[p] \in Seq(Nat) /\ chan[p] \in Seq(Frame) /\ outbox[Peer(p)] \in Seq(Nat)
      /\ texts[Peer(p)] \in Nat /\ Tail(chan[p]) \in Seq(Frame)
    BY <1>0, <1>1, Typed, OnTheWay
<1>3. TypeOK'
    BY <1>0, <1>1, <1>2 DEF TypeOK
<1>4. chan'[p] = Tail(chan[p]) /\ UNCHANGED chan[Peer(p)]
    BY <1>0, <1>1 DEF TypeOK
<1>5. Ordered(inbox[p], Tail(chan[p]), Held(Peer(p)), outbox[Peer(p)], texts[Peer(p)])
    BY <1>0, <1>1, <1>2, Lost DEF Stream
<1>6. /\ Stream(Peer(p))' /\ Waits(Peer(p))'
      /\ Short(st[Peer(p)])' /\ Short(disk[Peer(p)])'
    BY <1>0, <1>1, <1>4, <1>5 DEF Stream, Waits, Held
<1>. QED BY <1>0, <1>1, <1>3, <1>4, <1>6, Kept, OfBoth

\* A frame opens: its text is stored with the new state, and a flush may start.
LEMMA AcceptKeeps == ASSUME IInv, NEW p \in Party, Accept(p) PROVE IInv'
<1> DEFINE f == Head(chan[p])
           s == ratchet_decrypt(st[p], f.h, f.mk, nextKey)
<1>0. /\ TypeOK /\ Peer(p) \in Party /\ Peer(p) # p /\ Peer(Peer(p)) = p
      /\ Short(st[p]) /\ Waits(p) /\ Stream(p)
      /\ Short(st[Peer(p)]) /\ Short(disk[Peer(p)]) /\ Waits(Peer(p)) /\ Stream(Peer(p))
    BY OfParty, PeerIsParty
<1>1. /\ phase[p] = "open" /\ pc[p] = "idle" /\ chan[p] # <<>>
      /\ chan' = [chan EXCEPT ![p] = Tail(@)] /\ disk' = [disk EXCEPT ![p] = s]
      /\ inbox' = IF f.body = Prime THEN inbox ELSE [inbox EXCEPT ![p] = Append(@, f.body)]
      /\ nextKey' \in {nextKey, nextKey + 1}
      /\ UNCHANGED <<rows, texts, phase, up, initiator, pake, links, crashes, handed>>
    BY DEF Accept, SavedOnReceipt
<1>2. /\ inbox[p] \in Seq(Nat) /\ chan[p] \in Seq(Frame) /\ outbox[Peer(p)] \in Seq(Nat)
      /\ texts[Peer(p)] \in Nat /\ f \in Frame /\ Tail(chan[p]) \in Seq(Frame)
      /\ st[p] \in RatchetState /\ nextKey \in Nat
    BY <1>0, <1>1, Typed, OnTheWay DEF TypeOK
<1>3. s \in RatchetState /\ s # NoState /\ Short(s)
    <2>1. f.h \in Header /\ nextKey \in Key /\ Len(st[p].mkskipped) <= MAX_SKIP_SESSION
        BY <1>0, <1>2, NoStateAssumption DEF Frame, Key, Short
    <2>. QED BY <1>2, <2>1, DecryptTyped, NoStateAssumption DEF Short
<1>4. inbox' \in [Party -> Seq(1 .. MaxTexts)]
    <2>1. f.body # Prime => f.body \in 1 .. MaxTexts
        BY <1>2, SessionAssumption DEF Frame, Prime
    <2>2. f.body # Prime => Append(inbox[p], f.body) \in Seq(1 .. MaxTexts)
        BY <1>0, <2>1, Placed DEF TypeOK
    <2>. QED BY <1>0, <1>1, <2>2 DEF TypeOK
<1>5. Ordered(inbox'[p], Tail(chan[p]), Held(Peer(p)), outbox[Peer(p)], texts[Peer(p)])
    <2>1. Ordered(inbox[p], chan[p], Held(Peer(p)), outbox[Peer(p)], texts[Peer(p)])
        BY <1>0 DEF Stream
    <2>2. CASE f.body = Prime
        BY <1>1, <1>2, <2>1, <2>2, Lost
    <2>3. CASE f.body # Prime
        <3>1. inbox'[p] = Append(inbox[p], f.body)
            BY <1>0, <1>1, <2>3 DEF TypeOK
        <3>. QED BY <1>1, <1>2, <2>1, <2>3, <3>1, Delivered
    <2>. QED BY <2>2, <2>3
<1>6. /\ chan'[p] = Tail(chan[p]) /\ disk'[p] = s /\ UNCHANGED <<chan[Peer(p)], disk[Peer(p)]>>
      /\ inbox'[Peer(p)] = inbox[Peer(p)]
      /\ chan' \in [Party -> Seq(Frame)] /\ disk' \in [Party -> RatchetState \cup {NoState}]
      /\ nextKey' \in Nat
    <2> HIDE DEF f, s
    <2>1. chan'[p] = Tail(chan[p]) /\ UNCHANGED chan[Peer(p)] /\ chan' \in [Party -> Seq(Frame)]
        BY <1>0, <1>1, <1>2 DEF TypeOK
    <2>2. /\ disk'[p] = s /\ UNCHANGED disk[Peer(p)]
          /\ disk' \in [Party -> RatchetState \cup {NoState}]
        BY <1>0, <1>1, <1>3 DEF TypeOK
    <2>3. inbox'[Peer(p)] = inbox[Peer(p)] /\ nextKey' \in Nat
        BY <1>0, <1>1, <1>2 DEF TypeOK
    <2>. QED BY <2>1, <2>2, <2>3
<1>7. Ordered(inbox[Peer(p)], chan[Peer(p)], {}, outbox[p], texts[p])
    BY <1>0, <1>1 DEF Stream, Held
<1> DEFINE Sending ==
      /\ st' \in [Party -> RatchetState \cup {NoState}]
      /\ op' \in [Party -> Operation \cup {NoState}]
      /\ outbox' \in [Party -> Seq(1 .. MaxTexts)]
      /\ pc' \in [Party -> {"idle", "transmit", "written", "recorded"}]
      /\ \A q \in Party : phase'[q] = "open" <=> st'[q] # NoState
      /\ \A q \in Party : pc'[q] = "idle" <=> op'[q] = NoState
      /\ UNCHANGED <<st[Peer(p)], op[Peer(p)], outbox[Peer(p)], pc[Peer(p)]>>
      /\ Short(st[p])' /\ Waits(p)' /\ Stream(p)'
<1>8. Sending
    <2>1. CASE outbox[p] # <<>> /\ CanSend(s)
        <3>1. FlushNext(p, s)
            BY <2>1 DEF Accept
        <3> HIDE DEF s, f
        <3>2. UNCHANGED <<inbox[Peer(p)], chan[Peer(p)], texts[p], phase>>
            BY <1>1, <1>6
        <3>. QED BY <1>0, <1>1, <1>3, <1>7, <2>1, <3>1, <3>2, FlushNextKeeps
    <2>2. CASE ~(outbox[p] # <<>> /\ CanSend(s))
        <3>1. st' = [st EXCEPT ![p] = s] /\ UNCHANGED <<pc, op, outbox>>
            BY <2>2 DEF Accept
        <3> HIDE DEF s, f
        <3>2. /\ st'[p] = s /\ UNCHANGED st[Peer(p)] /\ st' \in [Party -> RatchetState \cup {NoState}]
              /\ \A q \in Party : phase'[q] = "open" <=> st'[q] # NoState
            BY <1>0, <1>1, <1>3, <3>1 DEF TypeOK
        <3>3. Waits(p)' /\ Stream(p)' /\ Short(st[p])'
            BY <1>1, <1>3, <1>6, <1>7, <2>2, <3>1, <3>2 DEF Waits, Stream, Held
        <3>. QED BY <1>0, <3>1, <3>2, <3>3 DEF TypeOK
    <2>. QED BY <2>1, <2>2
<1> HIDE DEF s, f
<1>9. TypeOK'
    BY <1>0, <1>1, <1>4, <1>6, <1>8 DEF TypeOK
<1>10. /\ Stream(Peer(p))' /\ Waits(Peer(p))' /\ Short(st[Peer(p)])' /\ Short(disk[Peer(p)])'
    BY <1>0, <1>1, <1>5, <1>6, <1>8 DEF Stream, Waits, Held
<1>11. /\ Stream(p)' /\ Waits(p)' /\ Short(st[p])' /\ Short(disk[p])'
    BY <1>3, <1>6, <1>8
<1>. QED BY <1>9, <1>10, <1>11, OfBoth

\* A session starts from the stored ratchet or from a new one, and may prime.
LEMMA HandshakeKeeps == ASSUME IInv, NEW p \in Party, HandshakeDone(p) PROVE IInv'
<1> DEFINE s == ResumedOrSeeded(p)
           o == [kind |-> "prime", frame |-> Sealed(p, s, Prime)]
<1>0. /\ TypeOK /\ Peer(p) \in Party /\ Peer(p) # p
      /\ Short(st[p]) /\ Short(disk[p]) /\ Waits(p) /\ Stream(p)
    BY OfParty, PeerIsParty
<1>1. s \in RatchetState /\ s # NoState /\ Short(s)
    <2>1. pake \in Key /\ pake + 1 \in Key /\ pake + 2 \in Key /\ Len(<<>>) = 0
        BY <1>0 DEF TypeOK, Key
    <2>2. Seed(p) \in RatchetState /\ Seed(p).mkskipped = <<>>
        BY <2>1, SeedTyped DEF Seed
    <2>3. Short(Seed(p))
        BY <2>1, <2>2, SkipAssumption DEF Short
    <2>4. disk[p] \in RatchetState \cup {NoState}
        BY <1>0, Typed
    <2>. QED BY <1>0, <2>2, <2>3, <2>4, NoStateAssumption DEF ResumedOrSeeded
<1>2. /\ phase[p] = "handshake" /\ phase' = [phase EXCEPT ![p] = "open"]
      /\ disk' = [disk EXCEPT ![p] = s]
      /\ IF Primes(p, s) THEN StartSending(p, s, "prime", Prime)
                         ELSE st' = [st EXCEPT ![p] = s] /\ UNCHANGED <<pc, op>>
      /\ UNCHANGED <<rows, inbox, texts, outbox, chan, up, initiator, pake, links, nextKey,
                     crashes, handed>>
    BY DEF HandshakeDone, link
<1> HIDE DEF s
<1>3. /\ phase'[p] = "open" /\ disk'[p] = s /\ outbox[p] = <<>>
      /\ UNCHANGED <<phase[Peer(p)], disk[Peer(p)]>>
      /\ phase' \in [Party -> {"closed", "handshake", "open"}]
      /\ disk' \in [Party -> RatchetState \cup {NoState}]
    BY <1>0, <1>1, <1>2 DEF TypeOK, Waits
<1>4. Ordered(inbox[Peer(p)], chan[Peer(p)], Held(p), outbox[p], texts[p])
      /\ Ordered(inbox[Peer(p)], chan[Peer(p)], {}, outbox[p], texts[p])
    BY <1>0, Typed, Lost DEF Stream
<1>5. CASE Primes(p, s)
    <2>1. /\ st' \in [Party -> RatchetState \cup {NoState}]
          /\ op' \in [Party -> Operation \cup {NoState}]
          /\ pc' = [pc EXCEPT ![p] = "transmit"] /\ op' = [op EXCEPT ![p] = o]
          /\ st' = [st EXCEPT ![p] = ratchet_encrypt(s)] /\ op'[p] = o /\ o # NoState
          /\ o.frame.body = Prime /\ ratchet_encrypt(s) \in RatchetState \ {NoState}
          /\ Short(ratchet_encrypt(s))
        <3>1. Prime \in 0 .. MaxTexts /\ StartSending(p, s, "prime", Prime)
            BY <1>2, <1>5, SessionAssumption DEF Prime
        <3>. QED BY <1>0, <1>1, <3>1, StartTyped
    <2> HIDE DEF o
    <2>2. /\ pc'[p] = "transmit" /\ st'[p] = ratchet_encrypt(s)
          /\ UNCHANGED <<pc[Peer(p)], op[Peer(p)], st[Peer(p)]>>
        BY <1>0, <2>1 DEF TypeOK
    <2>3. TypeOK'
        BY <1>0, <1>2, <1>3, <2>1, <2>2 DEF TypeOK
    <2>4. Held(p)' = {}
        BY <2>1, <2>2 DEF Held
    <2>5. Stream(p)' /\ Waits(p)' /\ Short(st[p])' /\ Short(disk[p])'
        BY <1>1, <1>2, <1>3, <1>4, <2>1, <2>2, <2>4 DEF Stream, Waits
    <2>. QED BY <1>0, <1>2, <1>3, <2>2, <2>3, <2>5, Kept, OfBoth
<1>6. CASE ~Primes(p, s)
    <2>1. st' = [st EXCEPT ![p] = s] /\ UNCHANGED <<pc, op>>
        BY <1>2, <1>6
    <2>2. st'[p] = s /\ UNCHANGED st[Peer(p)] /\ TypeOK'
        BY <1>0, <1>1, <1>2, <1>3, <2>1 DEF TypeOK
    <2>3. Stream(p)' /\ Waits(p)' /\ Short(st[p])' /\ Short(disk[p])'
        BY <1>1, <1>2, <1>3, <1>4, <2>1, <2>2 DEF Stream, Waits, Held
    <2>. QED BY <1>0, <1>2, <1>3, <2>1, <2>2, <2>3, Kept, OfBoth
<1>. QED BY <1>5, <1>6

\* The connection goes during the handshake.
LEMMA HandshakeFailedKeeps == ASSUME IInv, NEW p \in Party, HandshakeFailed(p) PROVE IInv'
<1>0. /\ TypeOK /\ Peer(p) \in Party /\ Peer(p) # p /\ Peer(Peer(p)) = p
      /\ Short(st[p]) /\ Short(disk[p]) /\ Waits(p) /\ Stream(p)
      /\ Short(st[Peer(p)]) /\ Short(disk[Peer(p)]) /\ Waits(Peer(p)) /\ Stream(Peer(p))
    BY OfParty, PeerIsParty
<1>1. /\ phase[p] = "handshake" /\ phase' = [phase EXCEPT ![p] = "closed"]
      /\ chan' = [chan EXCEPT ![p] = <<>>]
      /\ UNCHANGED <<disk, rows, inbox, texts, st, outbox, pc, op, up, initiator, pake, links,
                     nextKey, crashes, handed>>
    BY DEF HandshakeFailed, vault
<1>2. /\ chan'[p] = <<>> /\ phase'[p] = "closed" /\ chan' \in [Party -> Seq(Frame)]
      /\ UNCHANGED <<chan[Peer(p)], phase[Peer(p)]>>
    <2>1. <<>> \in Seq(Frame)
        OBVIOUS
    <2>. QED BY <1>0, <1>1, <2>1 DEF TypeOK
<1>3. TypeOK'
    BY <1>0, <1>1, <1>2 DEF TypeOK
<1>4. Ordered(inbox[p], <<>>, Held(Peer(p)), outbox[Peer(p)], texts[Peer(p)])
    BY <1>0, Typed, Lost DEF Stream
<1>5. /\ Stream(Peer(p))' /\ Waits(Peer(p))' /\ Short(st[Peer(p)])' /\ Short(disk[Peer(p)])'
    BY <1>0, <1>1, <1>2, <1>4 DEF Stream, Waits, Held
<1>6. /\ Stream(p)' /\ Waits(p)' /\ Short(st[p])' /\ Short(disk[p])'
    BY <1>0, <1>1, <1>2 DEF Stream, Waits, Held
<1>. QED BY <1>3, <1>5, <1>6, OfBoth

\* A pairing, the end of a link and a stutter leave every text where it is.
LEMMA LinkKeeps ==
    ASSUME IInv, (\E i \in Party : Pair(i)) \/ Break \/ UNCHANGED vars
    PROVE  IInv'
<1>0. TypeOK
    BY DEF IInv
<1>1. UNCHANGED <<disk, rows, inbox, texts, st, outbox, pc, op, chan, crashes, handed>>
    BY DEF Pair, Break, vars, vault, session, link
<1>2. TypeOK'
    <2>1. CASE \E i \in Party : Pair(i)
        <3>1. PICK i \in Party : Pair(i)
            BY <2>1
        <3>2. /\ phase' \in [Party -> {"closed", "handshake", "open"}] /\ up' \in BOOLEAN
              /\ initiator' \in Party /\ pake' \in Nat /\ nextKey' \in Nat
              /\ links' \in 0 .. MaxLinks
              /\ \A p \in Party : phase[p] # "open" /\ phase'[p] # "open"
            BY <1>0, <3>1, SessionAssumption DEF Pair, TypeOK
        <3>. QED BY <1>0, <1>1, <3>2 DEF TypeOK
    <2>2. CASE Break \/ UNCHANGED vars
        <3>1. UNCHANGED <<phase, initiator, pake, links, nextKey>> /\ up' \in BOOLEAN
            BY <1>0, <2>2 DEF Break, vars, session, link, TypeOK
        <3>. QED BY <1>0, <1>1, <3>1 DEF TypeOK
    <2>. QED BY <2>1, <2>2
<1>3. ASSUME NEW p \in Party
      PROVE  Short(st[p])' /\ Short(disk[p])' /\ Waits(p)' /\ Stream(p)'
    <2>1. outbox[p] # <<>> => phase'[p] = "open"
        BY OfParty DEF Pair, Break, vars, session, Waits
    <2>. QED BY <1>1, <2>1, OfParty DEF Waits, Stream, Held
<1>. QED BY <1>2, <1>3 DEF IInv

\* A step of either client, or of the link between them, keeps the invariant.
LEMMA StepKeeps == IInv /\ [Next]_vars => IInv'
<1> SUFFICES ASSUME IInv, [Next]_vars PROVE IInv'
    OBVIOUS
<1>1. ASSUME NEW p \in Party, Step(p) PROVE IInv'
    BY <1>1, HandshakeKeeps, HandshakeFailedKeeps, TransmitKeeps, RecordKeeps, SaveKeeps,
       AcceptKeeps, RefuseKeeps, EndKeeps DEF Step
<1>2. ASSUME NEW p \in Party, SendRaises(p) PROVE IInv'
    BY <1>2, RaiseKeeps, EndKeeps
<1>. QED BY <1>1, <1>2, SendKeeps, EndKeeps, LinkKeeps DEF Next

\* Before the first pairing nothing is stored and nothing is on the way.
LEMMA InitHolds == Init => IInv
<1> SUFFICES ASSUME Init PROVE IInv
    OBVIOUS
<1>1. <<>> \in Seq(1 .. MaxTexts) /\ <<>> \in Seq(Frame) /\ 0 \in 0 .. MaxTexts
      /\ 0 \in 0 .. MaxLinks /\ 0 \in 0 .. MaxCrashes
    BY SessionAssumption
<1>2. TypeOK
    BY <1>1 DEF Init, TypeOK
<1>3. Ordered(<<>>, <<>>, {}, <<>>, 0)
    BY DEF Ordered, Rising, RisingTexts, Before, ToSet, Bodies
<1>4. ASSUME NEW p \in Party PROVE Short(st[p]) /\ Short(disk[p]) /\ Waits(p) /\ Stream(p)
    BY <1>3, PeerIsParty DEF Init, Short, Waits, Stream, Held
<1>. QED BY <1>2, <1>4 DEF IInv

\* The texts a client stores rise: none is stored twice or before an earlier one,
\* whatever links, flushes and clients fail (send, _flush_outbox_locked,
\* _handle_frame, open_session).
THEOREM StoredInOrder == Spec => []InOrderAtMostOnce
<1>1. IInv => InOrderAtMostOnce
    <2> SUFFICES ASSUME IInv, NEW p \in Party PROVE Rising(inbox[p])
        BY DEF InOrderAtMostOnce, IInv, Rising
    <2>. QED BY OfParty, PeerIsParty DEF Stream, Ordered
<1>. QED BY <1>1, InitHolds, StepKeeps, PTL DEF Spec

-----------------------------------------------------------------------------
(* The stored roots.  What holds the two vaults together is on the way     *)
(* between them: every frame was sealed off a root its sender has stored   *)
(* or has gone on from, and a client goes on only past its peer's.         *)
(* The one moment without this is the first handshake, when one side alone *)
(* may have stored a ratchet; it has then moved no further than its seed.  *)

HasState(p) == disk[p] # NoState

\* The open session has the stored root, and seals off it or an earlier one.
Resumes(p) ==
    phase[p] = "open" => /\ HasState(p) /\ st[p].rk = disk[p].rk
                         /\ Within(st[p].cks.root, st[p].rk)

Stored(p) ==
    HasState(p) => /\ Within(disk[p].cks.root, disk[p].rk)
                   /\ HasState(Peer(p)) => InStep(disk[p].rk, disk[Peer(p)].rk)

Alone(p) ==
    HasState(p) /\ ~HasState(Peer(p)) =>
        /\ phase[p] = "open" /\ phase[Peer(p)] = "handshake" /\ up
        /\ disk[p].rk = Seed(p).rk

OffStored(p, f) == HasState(p) /\ Within(f.mk.root, disk[p].rk)
Carried(p) ==
    /\ pc[p] = "transmit" => OffStored(p, op[p].frame)
    /\ \A f \in ToSet(chan[Peer(p)]) : OffStored(p, f)

Linked(p) == (pc[p] # "idle" => phase[p] = "open") /\ (up => phase[p] # "closed")

RInv == \A p \in Party : Resumes(p) /\ Stored(p) /\ Alone(p) /\ Carried(p) /\ Linked(p)

\* What is read of the frames on the way was among them, and so is what stays.
LEMMA AmongFrames ==
    ASSUME NEW c \in Seq(Frame)
    PROVE  /\ ToSet(<<>>) = {} /\ \A f \in Frame : ToSet(Append(c, f)) = ToSet(c) \cup {f}
           /\ c # <<>> => Head(c) \in ToSet(c) /\ ToSet(Tail(c)) \subseteq ToSet(c)
           /\ ToSet(c) \subseteq Frame
<1>1. ASSUME NEW f \in Frame PROVE ToSet(Append(c, f)) = ToSet(c) \cup {f}
    <2>1. /\ DOMAIN Append(c, f) = DOMAIN c \cup {Len(c) + 1} /\ Append(c, f)[Len(c) + 1] = f
          /\ \A i \in DOMAIN c : Append(c, f)[i] = c[i]
        OBVIOUS
    <2>. QED BY ONLY <2>1 DEF ToSet
<1>2. ASSUME c # <<>> PROVE Head(c) \in ToSet(c) /\ ToSet(Tail(c)) \subseteq ToSet(c)
    <2>1. /\ 1 \in DOMAIN c /\ Head(c) = c[1]
          /\ \A i \in DOMAIN Tail(c) : i + 1 \in DOMAIN c /\ Tail(c)[i] = c[i + 1]
        BY <1>2
    <2>. QED BY ONLY <2>1 DEF ToSet
<1>3. ToSet(<<>>) = {} /\ ToSet(c) \subseteq Frame
    BY DEF ToSet
<1>. QED BY <1>1, <1>2, <1>3

\* What the types say of roots.
LEMMA RootsTyped ==
    ASSUME TypeOK, NEW p \in Party
    PROVE  /\ HasState(p) => disk[p] \in RatchetState /\ disk[p].rk \in Root
           /\ phase[p] = "open" => st[p] \in RatchetState /\ st[p].rk \in Root
           /\ \A f \in Frame : f.mk.root \in Root /\ f.mk \in MessageKey /\ f.h \in Header
<1>1. \A s \in RatchetState : s.rk \in Root
    BY DEF RatchetState
<1>2. \A f \in Frame : f.mk.root \in Root /\ f.mk \in MessageKey /\ f.h \in Header
    BY DEF Frame, MessageKey, ChainKey
<1>3. HasState(p) => disk[p] \in RatchetState
    BY Typed DEF HasState
<1>4. phase[p] = "open" => st[p] \in RatchetState
    BY Typed
<1>. QED BY <1>1, <1>2, <1>3, <1>4

\* What the invariant says of one party and of its peer.
LEMMA RootsOf ==
    ASSUME RInv, NEW p \in Party
    PROVE  /\ Resumes(p) /\ Stored(p) /\ Alone(p) /\ Carried(p) /\ Linked(p)
           /\ Resumes(Peer(p)) /\ Stored(Peer(p)) /\ Alone(Peer(p)) /\ Carried(Peer(p))
           /\ Linked(Peer(p))
BY PeerIsParty DEF RInv

\* What holds of one party and of its peer holds of all.
LEMMA RootsOfBoth ==
    ASSUME NEW p \in Party,
           \A q \in {p, Peer(p)} : Resumes(q)' /\ Stored(q)' /\ Alone(q)' /\ Carried(q)' /\ Linked(q)'
    PROVE  RInv'
BY PeerIsParty DEF RInv

\* While the vaults stand, so does what is said of them: on the same link, on a new one,
\* or when the one that ends had both sides through the handshake.
LEMMA VaultsStand ==
    ASSUME RInv, disk' = disk, "handshake" \notin Faults, NEW q \in Party,
           \/ UNCHANGED <<phase, up, initiator, pake>>
           \/ ~up
           \/ \A p \in Party : phase[p] = "closed"
           \/ Exposed
    PROVE  Stored(q)' /\ Alone(q)'
<1>0. Peer(q) \in Party
    BY PeerIsParty
<1>1. Stored(q)'
    BY RootsOf DEF Stored, HasState
<1>2. CASE UNCHANGED <<phase, up, initiator, pake>>
    <2>1. Seed(q)' = Seed(q)
        BY <1>2 DEF Seed
    <2>. QED BY <1>1, <1>2, <2>1, RootsOf DEF Alone, HasState
<1>3. CASE ~up \/ (\A p \in Party : phase[p] = "closed") \/ Exposed
    <2>1. HasState(q) => HasState(Peer(q))
        BY <1>0, <1>3, RootsOf DEF Alone, Exposed
    <2>. QED BY <1>1, <2>1 DEF Alone, HasState
<1>. QED BY <1>2, <1>3

\* What is said of a session and its frames holds on if they and its vault stand.
LEMMA SessionStands ==
    ASSUME RInv, NEW q \in Party, disk'[q] = disk[q],
           UNCHANGED <<phase[q], st[q], pc[q], op[q]>>, up' = up \/ ~up',
           ToSet(chan'[Peer(q)]) \subseteq ToSet(chan[Peer(q)])
    PROVE  Resumes(q)' /\ Carried(q)' /\ Linked(q)'
BY RootsOf DEF Resumes, Carried, Linked, OffStored, HasState

\* What is sealed comes off the root of the state that seals.
LEMMA StartRoots ==
    ASSUME TypeOK, NEW p \in Party, NEW s \in RatchetState, NEW kind, NEW body,
           StartSending(p, s, kind, body), Within(s.cks.root, s.rk)
    PROVE  /\ st'[p].rk = s.rk /\ Within(st'[p].cks.root, st'[p].rk)
           /\ pc'[p] = "transmit" /\ Within(op'[p].frame.mk.root, s.rk)
           /\ UNCHANGED <<st[Peer(p)], pc[Peer(p)], op[Peer(p)]>>
<1> DEFINE o == [kind |-> kind, frame |-> Sealed(p, s, body)]
           r == ratchet_encrypt(s)
<1>1. r.rk = s.rk /\ Within(r.cks.root, r.rk)
    BY EncryptFields, SealsOffItsRoot
<1>2. o.frame.mk = s.cks
    BY DEF Sealed, NextSealKey
<1>3. st' = [st EXCEPT ![p] = r] /\ pc' = [pc EXCEPT ![p] = "transmit"] /\ op' = [op EXCEPT ![p] = o]
    BY DEF StartSending
<1> HIDE DEF o, r
<1>4. st'[p] = r /\ pc'[p] = "transmit" /\ op'[p] = o
    BY <1>3 DEF TypeOK
<1>5. UNCHANGED <<st[Peer(p)], pc[Peer(p)], op[Peer(p)]>>
    BY <1>3, PeerIsParty DEF TypeOK
<1>. QED BY <1>1, <1>2, <1>4, <1>5

\* The user's text is sealed off the stored root, or waits.
LEMMA SendRoots ==
    ASSUME IInv, RInv, "handshake" \notin Faults, NEW p \in Party, Send(p)
    PROVE  RInv'
<1> DEFINE n == texts[p] + 1
<1>0. /\ TypeOK /\ Peer(p) \in Party /\ Peer(p) # p /\ Peer(Peer(p)) = p
    BY OfParty, PeerIsParty
<1>1. /\ phase[p] = "open" /\ disk' = disk /\ UNCHANGED <<phase, chan, up, initiator, pake>>
    BY DEF Send, link
<1>2. /\ Resumes(p) /\ Carried(p) /\ Linked(p) /\ st[p] \in RatchetState
    BY <1>0, <1>1, RootsOf, RootsTyped
<1>3. /\ Stored(p)' /\ Alone(p)' /\ Stored(Peer(p))' /\ Alone(Peer(p))'
    BY <1>0, <1>1, VaultsStand
<1> HIDE DEF n
<1>4. CASE CanSend(st[p])
    <2>1. StartSending(p, st[p], "text", n)
        BY <1>4 DEF Send, n
    <2>2. /\ st'[p].rk = st[p].rk /\ Within(st'[p].cks.root, st'[p].rk)
          /\ pc'[p] = "transmit" /\ Within(op'[p].frame.mk.root, st[p].rk)
          /\ UNCHANGED <<st[Peer(p)], pc[Peer(p)], op[Peer(p)]>>
        BY <1>0, <1>1, <1>2, <2>1, StartRoots DEF Resumes
    <2>3. Resumes(p)' /\ Carried(p)' /\ Linked(p)'
        BY <1>1, <1>2, <2>2 DEF Resumes, Carried, Linked, OffStored, HasState
    <2>4. Resumes(Peer(p))' /\ Carried(Peer(p))' /\ Linked(Peer(p))'
        BY <1>0, <1>1, <2>2, SessionStands
    <2>. QED BY <1>3, <2>3, <2>4, RootsOfBoth
<1>5. CASE ~CanSend(st[p])
    <2>1. UNCHANGED <<st, pc, op>>
        BY <1>5 DEF Send
    <2>. QED BY <1>0, <1>1, <1>3, <2>1, SessionStands, RootsOfBoth
<1>. QED BY <1>4, <1>5

\* A frame goes on its way as it was held.
LEMMA TransmitRoots ==
    ASSUME IInv, RInv, "handshake" \notin Faults, NEW p \in Party, Transmit(p)
    PROVE  RInv'
<1> DEFINE f == op[p].frame
<1>0. /\ TypeOK /\ Peer(p) \in Party /\ Peer(p) # p /\ Peer(Peer(p)) = p
    BY OfParty, PeerIsParty
<1>1. /\ pc[p] = "transmit" /\ pc' = [pc EXCEPT ![p] = "written"]
      /\ chan' = IF up THEN [chan EXCEPT ![Peer(p)] = Append(@, f)] ELSE chan
      /\ UNCHANGED <<disk, phase, st, op, up, initiator, pake>>
    BY DEF Transmit, vault
<1>2. /\ Resumes(p) /\ Carried(p) /\ Linked(p) /\ f \in Frame /\ chan[Peer(p)] \in Seq(Frame)
    BY <1>0, <1>1, RootsOf, Typed
<1>3. /\ Stored(p)' /\ Alone(p)' /\ Stored(Peer(p))' /\ Alone(Peer(p))'
    BY <1>0, <1>1, VaultsStand
<1>4. OffStored(p, f)
    BY <1>1, <1>2 DEF Carried
<1> HIDE DEF f
<1>5. /\ chan'[Peer(p)] \in {Append(chan[Peer(p)], f), chan[Peer(p)]}
      /\ pc'[p] = "written" /\ UNCHANGED <<chan[p], pc[Peer(p)]>>
    BY <1>0, <1>1 DEF TypeOK
<1>6. ToSet(chan'[Peer(p)]) \subseteq ToSet(chan[Peer(p)]) \cup {f}
    <2>1. ToSet(Append(chan[Peer(p)], f)) = ToSet(chan[Peer(p)]) \cup {f}
        BY <1>2, AmongFrames
    <2>. QED BY <1>5, <2>1
<1>7. Resumes(p)' /\ Carried(p)' /\ Linked(p)'
    BY <1>1, <1>2, <1>4, <1>5, <1>6 DEF Resumes, Carried, Linked, OffStored, HasState
<1>8. Resumes(Peer(p))' /\ Carried(Peer(p))' /\ Linked(Peer(p))'
    BY <1>0, <1>1, <1>5, SessionStands
<1>. QED BY <1>3, <1>7, <1>8, RootsOfBoth

\* A send that fails leaves the vault; a session that ends, or a handshake, takes what
\* was on the way to it along.
LEMMA EndRoots ==
    ASSUME IInv, RInv, "handshake" \notin Faults, NEW p \in Party,
           SendRaises(p) \/ Disconnect(p) \/ Crash(p) \/ HandshakeFailed(p)
    PROVE  RInv'
<1>0. /\ TypeOK /\ Peer(p) \in Party /\ Peer(p) # p /\ Peer(Peer(p)) = p
    BY OfParty, PeerIsParty
<1>1. /\ disk' = disk /\ (up' = up \/ ~up') /\ ~up' /\ (~up \/ Exposed)
      /\ \/ pc[p] = "idle" /\ UNCHANGED <<pc, op>>
         \/ ReleaseLock(p)
      /\ \/ UNCHANGED <<phase, st, chan>>
         \/ Forget(p)
         \/ /\ phase' = [phase EXCEPT ![p] = "closed"] /\ chan' = [chan EXCEPT ![p] = <<>>]
            /\ st' = st
    <2>1. CASE SendRaises(p)
        BY <2>1 DEF SendRaises, vault
    <2>2. CASE Disconnect(p)
        BY <2>2 DEF Disconnect, vault
    <2>3. CASE Crash(p)
        BY <2>3 DEF Crash, vault
    <2>4. CASE HandshakeFailed(p)
        <3>1. pc[p] = "idle"
            BY <2>4, RootsOf, <1>0 DEF HandshakeFailed, Linked
        <3>. QED BY <2>4, <3>1 DEF HandshakeFailed, vault
    <2>. QED BY <2>1, <2>2, <2>3, <2>4
<1>2. /\ UNCHANGED <<phase[Peer(p)], st[Peer(p)], pc[Peer(p)], op[Peer(p)], chan[Peer(p)]>>
      /\ pc'[p] = "idle" /\ chan'[p] \in {<<>>, chan[p]}
      /\ phase'[p] = "closed" \/ UNCHANGED <<phase[p], st[p]>>
    BY <1>0, <1>1 DEF ReleaseLock, Forget, TypeOK
<1>3. /\ Stored(p)' /\ Alone(p)' /\ Stored(Peer(p))' /\ Alone(Peer(p))'
    BY <1>0, <1>1, VaultsStand
<1>4. ToSet(chan'[p]) \subseteq ToSet(chan[p])
    <2>1. ToSet(<<>>) = {}
        BY DEF ToSet
    <2>. QED BY <1>2, <2>1
<1>5. Resumes(Peer(p))' /\ Carried(Peer(p))' /\ Linked(Peer(p))'
    BY <1>0, <1>1, <1>2, <1>4, SessionStands
<1>6. Resumes(p)' /\ Carried(p)' /\ Linked(p)'
    BY <1>0, <1>1, <1>2, RootsOf DEF Resumes, Carried, Linked, OffStored, HasState
<1>. QED BY <1>3, <1>5, <1>6, RootsOfBoth

\* A row is written; a flush seals the next text off the stored root.
LEMMA RecordRoots ==
    ASSUME IInv, RInv, "handshake" \notin Faults, NEW p \in Party, Record(p)
    PROVE  RInv'
<1>0. /\ TypeOK /\ Peer(p) \in Party /\ Peer(p) # p /\ Peer(Peer(p)) = p
    BY OfParty, PeerIsParty
<1>1. pc[p] = "written" /\ UNCHANGED <<disk, phase, chan, up, initiator, pake>>
    BY DEF Record, link
<1>2. phase[p] = "open" /\ Resumes(p) /\ Carried(p) /\ Linked(p)
    BY <1>0, <1>1, RootsOf DEF Linked
<1>3. /\ Stored(p)' /\ Alone(p)' /\ Stored(Peer(p))' /\ Alone(Peer(p))'
    BY <1>0, <1>1, VaultsStand
<1>4. CASE op[p].kind = "flush" /\ outbox[p] # <<>>
    <2>1. StartSending(p, st[p], "flush", Head(outbox[p])) /\ st[p] \in RatchetState
        BY <1>0, <1>2, <1>4, RootsTyped DEF Record, FlushNext
    <2>2. /\ st'[p].rk = st[p].rk /\ Within(st'[p].cks.root, st'[p].rk)
          /\ pc'[p] = "transmit" /\ Within(op'[p].frame.mk.root, st[p].rk)
          /\ UNCHANGED <<st[Peer(p)], pc[Peer(p)], op[Peer(p)]>>
        BY <1>0, <1>2, <2>1, StartRoots DEF Resumes
    <2>3. Resumes(p)' /\ Carried(p)' /\ Linked(p)'
        BY <1>1, <1>2, <2>2 DEF Resumes, Carried, Linked, OffStored, HasState
    <2>4. Resumes(Peer(p))' /\ Carried(Peer(p))' /\ Linked(Peer(p))'
        BY <1>0, <1>1, <2>2, SessionStands
    <2>. QED BY <1>3, <2>3, <2>4, RootsOfBoth
<1>5. CASE ~(op[p].kind = "flush" /\ outbox[p] # <<>>)
    <2>1. pc' = [pc EXCEPT ![p] = "recorded"] /\ UNCHANGED <<st, op, outbox>>
        BY <1>5 DEF Record
    <2>2. pc'[p] = "recorded" /\ UNCHANGED pc[Peer(p)]
        BY <1>0, <2>1 DEF TypeOK
    <2>3. Resumes(p)' /\ Carried(p)' /\ Linked(p)'
        BY <1>1, <1>2, <2>1, <2>2 DEF Resumes, Carried, Linked, OffStored, HasState
    <2>4. Resumes(Peer(p))' /\ Carried(Peer(p))' /\ Linked(Peer(p))'
        BY <1>0, <1>1, <2>1, <2>2, SessionStands
    <2>. QED BY <1>3, <2>3, <2>4, RootsOfBoth
<1>. QED BY <1>4, <1>5

\* A frame that does not open is gone and nothing else.
LEMMA RefuseRoots ==
    ASSUME IInv, RInv, "handshake" \notin Faults, NEW p \in Party, Refuse(p)
    PROVE  RInv'
<1>0. /\ TypeOK /\ Peer(p) \in Party /\ Peer(p) # p /\ Peer(Peer(p)) = p
    BY OfParty, PeerIsParty
<1>1. /\ chan[p] # <<>> /\ chan' = [chan EXCEPT ![p] = Tail(@)]
      /\ UNCHANGED <<disk, phase, st, pc, op, up, initiator, pake>>
    BY DEF Refuse, vault, session
<1>2. chan'[p] = Tail(chan[p]) /\ UNCHANGED chan[Peer(p)] /\ chan[p] \in Seq(Frame)
    BY <1>0, <1>1 DEF TypeOK
<1>3. ToSet(chan'[p]) \subseteq ToSet(chan[p])
    BY <1>1, <1>2, AmongFrames
<1>4. /\ Stored(p)' /\ Alone(p)' /\ Stored(Peer(p))' /\ Alone(Peer(p))'
    BY <1>0, <1>1, VaultsStand
<1>. QED BY <1>0, <1>1, <1>2, <1>3, <1>4, SessionStands, RootsOfBoth

\* A link comes, goes, or stays.
LEMMA LinkRoots ==
    ASSUME IInv, RInv, "handshake" \notin Faults,
           (\E i \in Party : Pair(i)) \/ Break \/ UNCHANGED vars
    PROVE  RInv'
<1>0. TypeOK
    BY DEF IInv
<1>1. UNCHANGED <<disk, st, pc, op, chan>>
    BY DEF Pair, Break, vars, vault, session, link
<1>2. ASSUME NEW q \in Party PROVE Stored(q)' /\ Alone(q)'
    <2>1. \/ UNCHANGED <<phase, up, initiator, pake>> \/ ~up \/ Exposed
          \/ \A p \in Party : phase[p] = "closed"
        BY DEF Pair, Break, vars, session, link
    <2>. QED BY <1>1, <2>1, VaultsStand
<1>3. ASSUME NEW q \in Party PROVE Resumes(q)' /\ Carried(q)' /\ Linked(q)'
    <2>1. CASE \E i \in Party : Pair(i)
        <3>1. phase[q] = "closed" /\ phase'[q] = "handshake"
            BY <2>1 DEF Pair
        <3>. QED BY <1>1, <3>1, RootsOf DEF Resumes, Carried, Linked, OffStored, HasState
    <2>2. CASE Break \/ UNCHANGED vars
        <3>1. phase' = phase /\ (up' = up \/ ~up')
            BY <2>2 DEF Break, vars, session, link
        <3>. QED BY <1>1, <3>1, SessionStands
    <2>. QED BY <2>1, <2>2
<1>. QED BY <1>2, <1>3 DEF RInv

\* A vault that is written with the root it had says the same.
LEMMA SameRoot ==
    ASSUME RInv, NEW p \in Party, HasState(p), HasState(p)', disk'[Peer(p)] = disk[Peer(p)],
           disk'[p].rk = disk[p].rk, Within(disk'[p].cks.root, disk'[p].rk),
           UNCHANGED <<phase, up, initiator, pake>>
    PROVE  Stored(p)' /\ Alone(p)' /\ Stored(Peer(p))' /\ Alone(Peer(p))'
<1>0. Peer(p) \in Party /\ Peer(Peer(p)) = p
    BY PeerIsParty
<1>1. Seed(p)' = Seed(p)
    BY DEF Seed
<1>. QED BY <1>0, <1>1, RootsOf DEF Stored, Alone, HasState

\* What was sealed off a root before it went on was sealed off where it is now.
LEMMA RootGoesOn ==
    ASSUME TypeOK, TypeOK', NEW p \in Party, HasState(p), HasState(p)',
           Within(disk[p].rk, disk'[p].rk), NEW f \in Frame, OffStored(p, f)
    PROVE  OffStored(p, f)'
<1>1. disk[p].rk \in Root /\ disk'[p].rk \in Root /\ f.mk.root \in Root
    <2>1. \A s \in RatchetState : s.rk \in Root
        BY DEF RatchetState
    <2>2. disk[p] \in RatchetState /\ disk'[p] \in RatchetState
        BY DEF TypeOK, HasState
    <2>. QED BY <2>1, <2>2, RootsTyped
<1>. QED BY <1>1, WithinOn DEF OffStored

\* The state that is saved has the stored root.
LEMMA SaveRoots ==
    ASSUME IInv, RInv, "handshake" \notin Faults, NEW p \in Party, Save(p)
    PROVE  RInv'
<1>0. /\ TypeOK /\ Peer(p) \in Party /\ Peer(p) # p /\ Peer(Peer(p)) = p
    BY OfParty, PeerIsParty
<1>1. /\ pc[p] = "recorded" /\ disk' = [disk EXCEPT ![p] = st[p]]
      /\ pc' = [pc EXCEPT ![p] = "idle"] /\ op' = [op EXCEPT ![p] = NoState]
      /\ UNCHANGED <<phase, st, chan, up, initiator, pake>>
    BY DEF Save, ReleaseLock, link
<1>2. phase[p] = "open" /\ Resumes(p) /\ Carried(p) /\ Linked(p)
    BY <1>0, <1>1, RootsOf DEF Linked
<1>3. /\ disk'[p] = st[p] /\ disk'[Peer(p)] = disk[Peer(p)] /\ pc'[p] = "idle"
      /\ UNCHANGED <<pc[Peer(p)], op[Peer(p)]>> /\ st[p] # NoState
    BY <1>0, <1>1, <1>2 DEF TypeOK
<1>4. /\ HasState(p) /\ HasState(p)' /\ disk'[p].rk = disk[p].rk
      /\ Within(disk'[p].cks.root, disk'[p].rk)
    BY <1>2, <1>3 DEF Resumes, HasState
<1>5. /\ Stored(p)' /\ Alone(p)' /\ Stored(Peer(p))' /\ Alone(Peer(p))'
    BY <1>1, <1>3, <1>4, SameRoot
<1>6. Resumes(p)' /\ Carried(p)' /\ Linked(p)'
    BY <1>1, <1>2, <1>3, <1>4 DEF Resumes, Carried, Linked, OffStored, HasState
<1>7. Resumes(Peer(p))' /\ Carried(Peer(p))' /\ Linked(Peer(p))'
    BY <1>0, <1>1, <1>3, SessionStands
<1>. QED BY <1>5, <1>6, <1>7, RootsOfBoth

\* A frame that opens leaves the root, or takes it past the peer's.
LEMMA AcceptRoots ==
    ASSUME IInv, RInv, TypeOK', "handshake" \notin Faults, NEW p \in Party, Accept(p)
    PROVE  RInv'
<1> DEFINE f == Head(chan[p])
           s == ratchet_decrypt(st[p], f.h, f.mk, nextKey)
           q == Peer(p)
<1>0. /\ TypeOK /\ q \in Party /\ q # p /\ Peer(q) = p /\ Short(st[p])
    BY OfParty, PeerIsParty
<1>1. /\ phase[p] = "open" /\ pc[p] = "idle" /\ chan[p] # <<>>
      /\ chan' = [chan EXCEPT ![p] = Tail(@)] /\ disk' = [disk EXCEPT ![p] = s]
      /\ UNCHANGED <<phase, up, initiator, pake>>
    BY DEF Accept, SavedOnReceipt
<1>2. /\ Resumes(p) /\ Stored(p) /\ Carried(p) /\ Linked(p) /\ Carried(q) /\ Stored(q)
    BY <1>0, RootsOf
<1>3. /\ HasState(p) /\ st[p].rk = disk[p].rk /\ Within(st[p].cks.root, st[p].rk)
      /\ st[p] \in RatchetState /\ disk[p].rk \in Root /\ chan[p] \in Seq(Frame)
      /\ Len(st[p].mkskipped) <= MAX_SKIP_SESSION /\ nextKey \in Key
    <2>1. st[p] # NoState /\ nextKey \in Key /\ chan[p] \in Seq(Frame)
        BY <1>0, <1>1 DEF TypeOK, Key
    <2>. QED BY <1>0, <1>1, <1>2, <2>1, RootsTyped DEF Resumes, Short
<1>4. f \in Frame /\ f \in ToSet(chan[p]) /\ ToSet(Tail(chan[p])) \subseteq ToSet(chan[p])
    BY <1>1, <1>3, AmongFrames
<1>5. f.mk.root \in Root /\ f.mk \in MessageKey /\ f.h \in Header
    BY <1>0, <1>4, RootsTyped
<1>6. /\ s \in RatchetState /\ s # NoState /\ Within(s.cks.root, s.rk)
      /\ \/ s.rk = disk[p].rk
         \/ /\ \E x \in SUBSET Key : f.mk.root = Append(disk[p].rk, x)
            /\ \E y \in SUBSET Key : s.rk = Append(f.mk.root, y)
    <2> HIDE DEF f
    <2>1. s \in RatchetState
        BY <1>3, <1>5, DecryptTyped
    <2>2. Within(s.cks.root, s.rk)
        BY <1>3, <1>5, SealsOffItsRoot
    <2>3. \/ s.rk = st[p].rk
          \/ /\ \E x \in SUBSET Key : f.mk.root = Append(st[p].rk, x)
             /\ \E y \in SUBSET Key : s.rk = Append(f.mk.root, y)
        <3>1. /\ st[p] \in RatchetState /\ f.h \in Header /\ nextKey \in Key
              /\ Len(st[p].mkskipped) <= MAX_SKIP_SESSION
            BY <1>3, <1>5
        <3>. QED BY ONLY <3>1, DecryptRoots
    <2> HIDE DEF s
    <2>. QED BY <1>3, <2>1, <2>2, <2>3, NoStateAssumption
<1>7. OffStored(q, f)
    BY <1>0, <1>2, <1>4 DEF Carried
<1>8. StartSending(p, s, "flush", Head(outbox[p])) \/ (st' = [st EXCEPT ![p] = s] /\ UNCHANGED <<pc, op>>)
    BY DEF Accept, FlushNext
<1> HIDE DEF f, s, q
<1>9. s.rk \in Root
    BY <1>6 DEF RatchetState
<1>10. /\ st'[p].rk = s.rk /\ Within(st'[p].cks.root, st'[p].rk)
       /\ pc'[p] = "transmit" => Within(op'[p].frame.mk.root, s.rk)
       /\ UNCHANGED <<st[q], pc[q], op[q]>>
    <2>1. CASE StartSending(p, s, "flush", Head(outbox[p]))
        BY <1>0, <1>6, <2>1, StartRoots DEF q
    <2>2. CASE st' = [st EXCEPT ![p] = s] /\ UNCHANGED <<pc, op>>
        <3>1. st'[p] = s /\ UNCHANGED st[q] /\ pc'[p] = "idle" /\ UNCHANGED <<pc[q], op[q]>>
            BY <1>0, <1>1, <2>2 DEF TypeOK
        <3>. QED BY <1>6, <3>1
    <2>. QED BY <1>8, <2>1, <2>2
<1>11. /\ disk'[p] = s /\ disk'[q] = disk[q] /\ HasState(p)'
       /\ chan'[p] = Tail(chan[p]) /\ UNCHANGED chan[q]
    BY <1>0, <1>1, <1>6 DEF TypeOK, HasState
<1>12. /\ Within(disk[p].rk, s.rk)
       /\ Stored(p)' /\ Alone(p)' /\ Stored(q)' /\ Alone(q)'
    <2>1. CASE s.rk = disk[p].rk
        <3>1. Within(disk[p].rk, s.rk)
            BY <1>9, <2>1 DEF Within, Root
        <3>. QED BY <1>1, <1>3, <1>6, <1>11, <2>1, <3>1, SameRoot DEF q
    <2>2. CASE /\ \E x \in SUBSET Key : f.mk.root = Append(disk[p].rk, x)
               /\ \E y \in SUBSET Key : s.rk = Append(f.mk.root, y)
        <3>1. HasState(q) /\ disk[q].rk \in Root /\ Within(f.mk.root, disk[q].rk)
            BY <1>0, <1>7, RootsTyped DEF OffStored
        <3>2. InStep(disk[p].rk, disk[q].rk)
            BY <1>2, <1>3, <3>1 DEF Stored, q
        <3>3. InStep(s.rk, disk[q].rk) /\ Within(disk[p].rk, s.rk)
            BY <1>3, <1>5, <1>9, <2>2, <3>1, <3>2, StepPast
        <3>4. InStep(disk[q].rk, s.rk)
            BY <1>9, <3>1, <3>3, InStepTurns
        <3>5. HasState(q)' /\ Within(disk[q].cks.root, disk[q].rk)
            BY <1>2, <1>11, <3>1 DEF HasState, Stored
        <3>6. Stored(p)' /\ Stored(q)'
            BY <1>0, <1>6, <1>11, <3>3, <3>4, <3>5 DEF Stored, q
        <3>7. Alone(p)' /\ Alone(q)'
            BY <1>0, <1>11, <3>5 DEF Alone, q
        <3>. QED BY <3>3, <3>6, <3>7
    <2>. QED BY <1>6, <2>1, <2>2
<1>13. ASSUME NEW g \in ToSet(chan[q]) PROVE OffStored(p, g)'
    <2>1. g \in Frame /\ OffStored(p, g)
        BY <1>0, <1>2, <1>13, Typed, AmongFrames DEF Carried, q
    <2>2. Within(disk[p].rk, disk'[p].rk)
        BY <1>11, <1>12
    <2>. QED BY <1>0, <1>3, <1>11, <2>1, <2>2, RootGoesOn
<1>14. Resumes(p)' /\ Carried(p)' /\ Linked(p)'
    BY <1>1, <1>2, <1>10, <1>11, <1>13 DEF Resumes, Carried, Linked, OffStored, HasState, q
<1>15. Resumes(q)' /\ Carried(q)' /\ Linked(q)'
    BY <1>0, <1>1, <1>4, <1>10, <1>11, SessionStands
<1>. QED BY <1>12, <1>14, <1>15, RootsOfBoth DEF q

\* What the two sides seed on one link is a step apart.
LEMMA SeedsInStep ==
    ASSUME TypeOK, NEW p \in Party
    PROVE  /\ Seed(p) \in RatchetState /\ Within(Seed(p).cks.root, Seed(p).rk)
           /\ InStep(Seed(p).rk, Seed(Peer(p)).rk) /\ InStep(Seed(Peer(p)).rk, Seed(p).rk)
<1> DEFINE a == ratchet_init_alice(pake, pake + 2, pake + 1)
           b == ratchet_init_bob(pake, pake + 1)
<1>1. pake \in Key /\ pake + 1 \in Key /\ pake + 2 \in Key
    BY DEF TypeOK, Key
<1>2. /\ a \in RatchetState /\ b \in RatchetState
      /\ InStep(a.rk, b.rk) /\ InStep(b.rk, a.rk)
      /\ Within(a.cks.root, a.rk) /\ Within(b.cks.root, b.rk)
    BY <1>1, SeedTyped, SeedRoots
<1>3. \/ p = initiator /\ Peer(p) # initiator
      \/ p # initiator /\ Peer(p) = initiator
    BY PeerIsParty DEF TypeOK
<1>4. \A x : Seed(x) = IF x = initiator THEN a ELSE b
    BY DEF Seed
<1> HIDE DEF a, b
<1>. QED BY <1>2, <1>3, <1>4

\* A session starts with the stored root, or with a seed a step from its peer's.
LEMMA HandshakeRoots ==
    ASSUME IInv, RInv, "handshake" \notin Faults, NEW p \in Party, HandshakeDone(p)
    PROVE  RInv'
<1> DEFINE s == ResumedOrSeeded(p)
           q == Peer(p)
<1>0. /\ TypeOK /\ q \in Party /\ q # p /\ Peer(q) = p
    BY OfParty, PeerIsParty
<1>1. /\ phase[p] = "handshake" /\ up /\ phase' = [phase EXCEPT ![p] = "open"]
      /\ disk' = [disk EXCEPT ![p] = s]
      /\ StartSending(p, s, "prime", Prime) \/ (st' = [st EXCEPT ![p] = s] /\ UNCHANGED <<pc, op>>)
      /\ UNCHANGED <<chan, up, initiator, pake>>
    BY DEF HandshakeDone, link
<1>2. /\ Resumes(q) /\ Linked(p) /\ Linked(q) /\ Stored(p) /\ Stored(q) /\ Alone(p) /\ Alone(q)
      /\ Carried(p) /\ Carried(q)
    BY <1>0, RootsOf
<1>3. /\ Seed(p) \in RatchetState /\ Within(Seed(p).cks.root, Seed(p).rk)
      /\ InStep(Seed(p).rk, Seed(q).rk) /\ InStep(Seed(q).rk, Seed(p).rk)
      /\ Seed(p)' = Seed(p)
    BY <1>0, <1>1, SeedsInStep DEF Seed
<1>4. /\ s = IF HasState(p) THEN disk[p] ELSE Seed(p)
      /\ s \in RatchetState /\ s # NoState /\ Within(s.cks.root, s.rk)
    <2>1. s = IF HasState(p) THEN disk[p] ELSE Seed(p)
        BY DEF ResumedOrSeeded, HasState
    <2> HIDE DEF s
    <2>2. s \in RatchetState
        BY <1>0, <1>3, <2>1, RootsTyped
    <2>3. Within(s.cks.root, s.rk)
        BY <1>2, <1>3, <2>1 DEF Stored
    <2>. QED BY <2>1, <2>2, <2>3, NoStateAssumption
<1> HIDE DEF s, q
<1>5. /\ disk'[p] = s /\ disk'[q] = disk[q] /\ HasState(p)' /\ phase'[p] = "open"
      /\ phase'[q] = phase[q] /\ pc[p] = "idle"
    BY <1>0, <1>1, <1>2, <1>4 DEF TypeOK, HasState, Linked
<1>6. /\ st'[p].rk = s.rk /\ Within(st'[p].cks.root, st'[p].rk)
      /\ pc'[p] = "transmit" => Within(op'[p].frame.mk.root, s.rk)
      /\ UNCHANGED <<st[q], pc[q], op[q]>>
    <2>1. CASE StartSending(p, s, "prime", Prime)
        BY <1>0, <1>4, <2>1, StartRoots DEF q
    <2>2. CASE st' = [st EXCEPT ![p] = s] /\ UNCHANGED <<pc, op>>
        <3>1. st'[p] = s /\ UNCHANGED st[q] /\ pc'[p] = "idle" /\ UNCHANGED <<pc[q], op[q]>>
            BY <1>0, <1>5, <2>2 DEF TypeOK
        <3>. QED BY <1>4, <3>1
    <2>. QED BY <1>1, <2>1, <2>2
<1>7. \A f : OffStored(p, f) => OffStored(p, f)'
    BY <1>4, <1>5 DEF OffStored
<1>8. Stored(p)' /\ Alone(p)' /\ Stored(q)' /\ Alone(q)'
    <2>1. CASE HasState(p)
        \* The peer's state is there too: alone, p would be through the handshake.
        <3>1. HasState(q)
            BY <1>1, <1>2, <2>1 DEF Alone, q
        <3>. QED BY <1>0, <1>2, <1>4, <1>5, <2>1, <3>1 DEF Stored, Alone, HasState, q
    <2>2. CASE ~HasState(p) /\ HasState(q)
        <3>1. disk[q].rk = Seed(q).rk /\ s = Seed(p) /\ Within(disk[q].cks.root, disk[q].rk)
            BY <1>0, <1>2, <1>4, <2>2 DEF Alone, Stored
        <3>2. InStep(s.rk, disk[q].rk) /\ InStep(disk[q].rk, s.rk)
            BY <1>3, <3>1
        <3>. QED BY <1>0, <1>4, <1>5, <2>2, <3>1, <3>2 DEF Stored, Alone, HasState, q
    <2>3. CASE ~HasState(p) /\ ~HasState(q)
        <3>1. phase[q] = "handshake"
            BY <1>0, <1>1, <1>2, <2>3 DEF Resumes, Linked, TypeOK
        <3>. QED BY <1>0, <1>1, <1>3, <1>4, <1>5, <2>3, <3>1 DEF Stored, Alone, HasState, q
    <2>. QED BY <2>1, <2>2, <2>3
<1>9. Resumes(p)' /\ Carried(p)' /\ Linked(p)'
    <2>1. Resumes(p)' /\ Linked(p)'
        BY <1>5, <1>6 DEF Resumes, Linked
    <2>2. pc'[p] = "transmit" => OffStored(p, op[p].frame)'
        BY <1>5, <1>6 DEF OffStored
    <2>3. \A f \in ToSet(chan[q]) : OffStored(p, f)'
        BY <1>2, <1>7 DEF Carried, q
    <2>. QED BY <1>1, <2>1, <2>2, <2>3 DEF Carried, q
<1>10. Resumes(q)' /\ Carried(q)' /\ Linked(q)'
    BY <1>0, <1>1, <1>5, <1>6, SessionStands
<1>. QED BY <1>8, <1>9, <1>10, RootsOfBoth DEF q

\* A step keeps what is said of the roots.
LEMMA RootsKeep ==
    ASSUME "handshake" \notin Faults, IInv, IInv', RInv, [Next]_vars
    PROVE  RInv'
<1>1. ASSUME NEW p \in Party, Step(p) PROVE RInv'
    <2>1. TypeOK'
        BY DEF IInv
    <2>. QED BY <1>1, <2>1, HandshakeRoots, EndRoots, TransmitRoots, RecordRoots, SaveRoots,
                AcceptRoots, RefuseRoots DEF Step
<1>. QED BY <1>1, SendRoots, EndRoots, LinkRoots DEF Next

\* At the start there are no roots.
LEMMA RootsInit == Init => RInv
<1> SUFFICES ASSUME Init, NEW p \in Party
             PROVE  Resumes(p) /\ Stored(p) /\ Alone(p) /\ Carried(p) /\ Linked(p)
    BY DEF RInv
<1>1. /\ phase[p] = "closed" /\ ~HasState(p) /\ pc[p] = "idle" /\ ~up
      /\ ToSet(chan[Peer(p)]) = {}
    BY PeerIsParty DEF Init, HasState, ToSet
<1>. QED BY <1>1 DEF Resumes, Stored, Alone, Carried, Linked

\* The two stored ratchets never come apart: a reconnection resumes on both sides what
\* was one conversation, as long as no first handshake is left by one side alone
\* (session.py 402-431: open_session resumes what the vault has, or seeds).
THEOREM OneConversationResumes ==
    "handshake" \notin Faults => (Spec => []StoredRootsInStep)
<1> SUFFICES ASSUME "handshake" \notin Faults PROVE Spec => []StoredRootsInStep
    OBVIOUS
<1>1. IInv /\ IInv' /\ RInv /\ [Next]_vars => RInv'
    BY RootsKeep
<1>2. IInv /\ RInv => StoredRootsInStep
    <2> SUFFICES ASSUME IInv, RInv, NEW p \in Party, HasState(p), HasState(Peer(p))
                 PROVE  /\ \/ IsPrefix(disk[p].rk, disk[Peer(p)].rk)
                           \/ IsPrefix(disk[Peer(p)].rk, disk[p].rk)
                        /\ Len(disk[p].rk) - Len(disk[Peer(p)].rk) \in {-1, 1}
        BY DEF StoredRootsInStep, HasState
    <2>1. disk[p].rk \in Root /\ disk[Peer(p)].rk \in Root
        BY OfParty, PeerIsParty, RootsTyped
    <2>2. InStep(disk[p].rk, disk[Peer(p)].rk)
        BY RootsOf DEF Stored
    <2>. QED BY <2>1, <2>2, WithinIsPrefix DEF InStep
<1>. QED BY <1>1, <1>2, InitHolds, RootsInit, StepKeeps, PTL DEF Spec

-----------------------------------------------------------------------------
(* The next message.  Two stored ratchets that are one DH step apart still *)
(* may not read each other: their chains, positions and stored keys have   *)
(* to belong together as well (Paired), through every state that is saved, *)
(* lost, or resumed.  What is lost with an unsaved state are positions of  *)
(* its sending chain; the frames that bore them were handed over (Handed). *)

\* A state that can be stored: its chains hang off its roots, its positions count its
\* keys, and every key pair it names was generated before next.
Resumable(s, next) ==
    /\ Numbered(s)
    /\ s.rk # <<>> /\ Len(s.ckr.root) <= Len(s.rk)
    /\ s.cks # NoChain => s.cks = [root |-> s.rk, n |-> s.ns]
    /\ s.cks = NoChain => Len(s.rk) = 1
    /\ s.dhs < next /\ s.dhr < next
    /\ \A e \in ToSet(s.mkskipped) : e.dh < next /\ Len(e.mk.root) <= Len(s.rk)

\* s resumed d and has only sealed since.
Resumed(s, d) ==
    /\ s.dhs = d.dhs /\ s.dhr = d.dhr /\ s.rk = d.rk /\ s.ckr = d.ckr
    /\ s.nr = d.nr /\ s.mkskipped = d.mkskipped
    /\ s.cks = NoChain <=> d.cks = NoChain
    /\ d.ns <= s.ns
    /\ s.cks # NoChain => s.cks = [root |-> s.rk, n |-> s.ns]

\* s is the DH step after t; then it receives on t's sending chain, or t awaits its step.
Ahead(s, t) == s.rk = Append(t.rk, x25519_shared(s.dhs, t.dhs)) /\ s.dhr = t.dhs
Follows(s, t) ==
    \/ /\ Ahead(s, t)
       /\ \/ s.ckr = NoChain /\ t.cks = NoChain
          \/ s.ckr # NoChain /\ t.cks # NoChain /\ s.ckr.root = t.rk
    \/ Ahead(t, s) /\ s.dhr # t.dhs

\* Of the keys s has stored, those of t's key pair are those of t's sending chain.
Listed(s, t) == \A e \in ToSet(s.mkskipped) : e.dh = t.dhs <=> e.mk.root = t.rk

Paired(s, t, next) ==
    /\ Resumable(s, next) /\ Resumable(t, next)
    /\ Follows(s, t) /\ Follows(t, s) /\ Listed(s, t) /\ Listed(t, s)

\* Header and key of a frame that t sealed, or a state t went on from, agree.
Addressed(f, t, next) ==
    /\ f.h.n = f.mk.n /\ f.h.dh < next
    /\ f.h.dh = t.dhs <=> f.mk.root = t.rk

\* Every key of chain root from lo up to m was on a frame of H.
AllHanded(H, root, lo, m) ==
    \A n \in Nat : lo <= n /\ n < m => \E g \in H : g.mk = [root |-> root, n |-> n]

\* It does not matter which of the two is named first.
LEMMA PairedTurns ==
    ASSUME NEW s, NEW t, NEW next, Paired(s, t, next)
    PROVE  Paired(t, s, next)
BY DEF Paired

\* A state that has only sealed since pairs as the one it resumed.
LEMMA ResumedPairs ==
    ASSUME NEW s, NEW d, NEW t, NEW next, Resumed(s, d)
    PROVE  /\ Resumable(d, next) => Resumable(s, next)
           /\ Paired(d, t, next) => Paired(s, t, next)
<1>1. Resumable(d, next) => Resumable(s, next)
    BY DEF Resumed, Resumable, Numbered
<1>2. Follows(d, t) => Follows(s, t)
    BY DEF Resumed, Follows, Ahead
<1>3. Follows(t, d) => Follows(t, s)
    BY DEF Resumed, Follows, Ahead
<1>4. (Listed(d, t) => Listed(s, t)) /\ (Listed(t, d) => Listed(t, s))
    BY DEF Resumed, Listed
<1>. QED BY <1>1, <1>2, <1>3, <1>4 DEF Paired

\* Resuming is resuming what was resumed.
LEMMA ResumedOn ==
    ASSUME NEW s \in RatchetState, NEW d \in RatchetState, NEW e \in RatchetState, Resumed(d, e)
    PROVE  /\ Resumed(s, d) => Resumed(s, e)
           /\ Resumed(d, d)
<1>1. s.ns \in Nat /\ d.ns \in Nat /\ e.ns \in Nat
    BY DEF RatchetState
<1>2. d.ns <= s.ns => e.ns <= s.ns
    BY <1>1 DEF Resumed
<1>3. d.ns <= d.ns
    BY <1>1
<1>. QED BY <1>2, <1>3 DEF Resumed

\* What goes on stays handed over.
LEMMA HandedGrows ==
    ASSUME NEW H, NEW G, H \subseteq G, NEW root, NEW a \in Nat, NEW b \in Nat, a <= b,
           NEW m \in Int, NEW k \in Int, k <= m, AllHanded(H, root, a, m)
    PROVE  AllHanded(G, root, b, k)
<1>1. ASSUME NEW n \in Nat, b <= n, n < k PROVE a <= n /\ n < m
    BY <1>1
<1>. QED BY <1>1 DEF AllHanded

\* What is stored is entries.
LEMMA EntryTyped ==
    ASSUME NEW s \in RatchetState, NEW e \in ToSet(s.mkskipped)
    PROVE  e.dh \in Nat /\ e.mk \in ChainKey /\ e.mk.root \in Root /\ Len(e.mk.root) \in Nat
<1>1. s.mkskipped \in Seq(SkippedEntry)
    BY DEF RatchetState
<1>2. PICK i \in DOMAIN s.mkskipped : e = s.mkskipped[i]
    BY DEF ToSet
<1>3. e \in SkippedEntry
    BY <1>1, <1>2
<1>4. e.dh \in Nat /\ e.mk \in ChainKey /\ e.mk.root \in Root
    BY <1>3 DEF SkippedEntry, MessageKey, ChainKey, Key
<1>. QED BY <1>4 DEF Root

\* Later keys do not disturb what was generated before.
LEMMA LaterKeys ==
    ASSUME NEW s \in RatchetState, NEW t \in RatchetState, NEW a \in Nat, NEW b \in Nat, a <= b
    PROVE  /\ Resumable(s, a) => Resumable(s, b)
           /\ Paired(s, t, a) => Paired(s, t, b)
           /\ \A f \in Frame : Addressed(f, t, a) => Addressed(f, t, b)
<1>1. ASSUME NEW k \in Nat, k < a PROVE k < b
    BY <1>1
<1>2. ASSUME NEW u \in RatchetState PROVE Resumable(u, a) => Resumable(u, b)
    <2>1. u.dhs \in Nat /\ u.dhr \in Nat /\ u.mkskipped \in Seq(SkippedEntry)
        BY DEF RatchetState, Key
    <2>2. \A e \in ToSet(u.mkskipped) : e.dh \in Nat
        BY EntryTyped
    <2>. QED BY <1>1, <2>1, <2>2 DEF Resumable
<1>3. \A f \in Frame : f.h.dh \in Nat
    BY DEF Frame, Header, Key
<1>. QED BY <1>1, <1>2, <1>3 DEF Paired, Addressed

\* The states a handshake seeds are a pair.
LEMMA SeedsPair ==
    ASSUME NEW sk \in Key, NEW a \in Key, NEW b \in Key, NEW next \in Nat, a < next, b < next, 0 < a
    PROVE  LET alice == ratchet_init_alice(sk, a, b)
               bob   == ratchet_init_bob(sk, b)
           IN  Paired(alice, bob, next) /\ alice.ckr = NoChain /\ bob.ckr = NoChain
<1> DEFINE alice == ratchet_init_alice(sk, a, b)
           bob == ratchet_init_bob(sk, b)
           x == x25519_shared(a, b)
           rk == <<{sk}>>
           on == Append(rk, x)
<1>1. /\ alice.dhs = a /\ alice.dhr = b /\ alice.rk = on /\ alice.cks = [root |-> on, n |-> 0]
      /\ alice.ckr = NoChain /\ alice.ns = 0 /\ alice.nr = 0 /\ alice.mkskipped = <<>>
    BY DEF ratchet_init_alice, kdf_rk, ChainOf
<1>2. /\ bob.dhs = b /\ bob.dhr = NoKey /\ bob.rk = rk /\ bob.cks = NoChain
      /\ bob.ckr = NoChain /\ bob.ns = 0 /\ bob.nr = 0 /\ bob.mkskipped = <<>>
    BY DEF ratchet_init_bob
<1>3. rk \in Root /\ x \in SUBSET Key /\ Len(rk) = 1
    BY DEF Root, x25519_shared
<1> HIDE DEF alice, bob, x, rk
<1>4. on \in Root /\ Len(on) = 2 /\ on # rk
    <2>1. on \in Root /\ Len(on) = Len(rk) + 1
        BY <1>3, AppendIsOn
    <2> HIDE DEF on
    <2>. QED BY ONLY <1>3, <2>1
<1> HIDE DEF on
<1>5. rk # <<>> /\ on # <<>> /\ Len(NoChain.root) = 0 /\ ToSet(<<>>) = {} /\ [root |-> on, n |-> 0] # NoChain
    <2>0. Len(<<>>) = 0
        OBVIOUS
    <2>3. Len(rk) # Len(<<>>) /\ Len(on) # Len(<<>>)
        BY <1>3, <1>4, <2>0
    <2>1. rk # <<>>
        BY <2>3, Zenon
    <2>2. on # <<>>
        BY <2>3, Zenon
    <2>. QED BY <2>0, <2>1, <2>2 DEF NoChain, ToSet
<1>6. Numbered(alice) /\ Numbered(bob)
    BY <1>1, <1>2, <1>5 DEF Numbered
<1>7. Resumable(alice, next) /\ Resumable(bob, next)
    <2>1. NoKey < next
        BY DEF NoKey, Key
    <2>2. Resumable(alice, next)
        BY <1>1, <1>4, <1>5, <1>6 DEF Resumable
    <2>3. Resumable(bob, next)
        BY <1>2, <1>3, <1>5, <1>6, <2>1 DEF Resumable
    <2>. QED BY <2>2, <2>3
<1>8. Ahead(alice, bob)
    BY <1>1, <1>2 DEF Ahead, on, x
<1>9. Follows(alice, bob)
    BY <1>1, <1>2, <1>8 DEF Follows
<1>10. Follows(bob, alice)
    <2>1. bob.dhr # alice.dhs
        BY <1>1, <1>2 DEF NoKey, Key
    <2>. QED BY <1>8, <2>1 DEF Follows
<1>11. Listed(alice, bob) /\ Listed(bob, alice)
    BY <1>1, <1>2, <1>5 DEF Listed
<1>. QED BY <1>1, <1>2, <1>7, <1>9, <1>10, <1>11 DEF Paired, alice, bob

\* Lengths of roots, and of the chain keys off them, are numbers.
LEMMA LengthsTyped ==
    ASSUME NEW s \in RatchetState
    PROVE  /\ s.rk \in Root /\ s.ckr \in ChainKey /\ s.ckr.root \in Root
           /\ Len(s.rk) \in Nat /\ Len(s.ckr.root) \in Nat
           /\ s.dhs \in Nat /\ s.dhr \in Nat /\ s.ns \in Nat /\ s.nr \in Nat
           /\ s.rk # <<>> => Len(s.rk) >= 1
<1>1. s.rk \in Root /\ s.ckr \in ChainKey /\ s.dhs \in Nat /\ s.dhr \in Nat /\ s.ns \in Nat /\ s.nr \in Nat
    BY DEF RatchetState, Key
<1>2. s.ckr.root \in Root
    BY <1>1 DEF ChainKey
<1>3. \A r \in Root : Len(r) \in Nat /\ (r # <<>> => Len(r) >= 1)
    BY DEF Root
<1>. QED BY <1>1, <1>2, <1>3

\* Of two states that are a pair, one is the DH step after the other.
LEMMA PairLengths ==
    ASSUME NEW s \in RatchetState, NEW t \in RatchetState, NEW next, Paired(s, t, next)
    PROVE  /\ Ahead(s, t) => Len(s.rk) = Len(t.rk) + 1
           /\ Ahead(t, s) => Len(t.rk) = Len(s.rk) + 1
           /\ Ahead(s, t) \/ Ahead(t, s)
           /\ Len(s.rk) >= 1 /\ Len(t.rk) >= 1
<1>1. ASSUME NEW u \in RatchetState, NEW v \in RatchetState, Ahead(u, v)
      PROVE  Len(u.rk) = Len(v.rk) + 1
    <2> DEFINE x == x25519_shared(u.dhs, v.dhs)
    <2>1. v.rk \in Root /\ x \in SUBSET Key
        BY DEF RatchetState, x25519_shared
    <2> HIDE DEF x
    <2>2. Len(Append(v.rk, x)) = Len(v.rk) + 1
        BY <2>1, AppendIsOn
    <2>. QED BY <1>1, <2>2 DEF Ahead, x
<1>2. Ahead(s, t) \/ Ahead(t, s)
    BY DEF Paired, Follows
<1>3. Len(s.rk) >= 1 /\ Len(t.rk) >= 1
    BY LengthsTyped DEF Paired, Resumable
<1>. QED BY <1>1, <1>2, <1>3

\* A message on the chain that s receives on leaves the two a pair.
LEMMA WalkPairs ==
    ASSUME NEW s \in RatchetState, NEW t \in RatchetState, NEW r \in RatchetState,
           NEW m \in Frame, NEW next \in Nat, Paired(s, t, next), Addressed(m, t, next),
           Numbered(r), Walked(r, s, m, next), SendsAs(r, s), m.h.dh = s.dhr, s.ckr # NoChain,
           m.mk.root = s.ckr.root
    PROVE  Paired(r, t, next)
<1>1. \A e \in ToSet(r.mkskipped) : e \in ToSet(s.mkskipped) \/ LiesOn(e, s.dhr, s.ckr.root)
    BY DEF Walked
<1>2. r.ckr # NoChain /\ r.ckr.root = s.ckr.root
    BY DEF Walked
<1>3. Resumable(r, next)
    <2>1. ASSUME NEW e \in ToSet(r.mkskipped) PROVE e.dh < next /\ Len(e.mk.root) <= Len(r.rk)
        BY <1>1, <2>1 DEF Paired, Resumable, LiesOn, SendsAs
    <2>2. r.rk = s.rk /\ r.cks = s.cks /\ r.ns = s.ns /\ r.dhs = s.dhs /\ r.dhr = s.dhr
        BY DEF SendsAs
    <2>. QED BY <1>2, <2>1, <2>2 DEF Paired, Resumable
<1>4. Follows(r, t) /\ Follows(t, r)
    BY <1>2 DEF Paired, Follows, Ahead, SendsAs
<1>5. Listed(r, t)
    BY <1>1 DEF Paired, Listed, LiesOn, Addressed
<1>6. Listed(t, r)
    BY DEF Paired, Listed, SendsAs
<1>. QED BY <1>3, <1>4, <1>5, <1>6 DEF Paired

\* Two roots more.
LEMMA TwoLonger ==
    ASSUME NEW a \in Nat, NEW b \in Nat, NEW c \in Nat, a >= 1, b = a + 1, c = b + 1
    PROVE  /\ c > b /\ c > a /\ c # 1 /\ c # 0 /\ b # 1
           /\ \A k \in Nat : (k <= a => k <= c) /\ (k <= b => k <= c /\ k # c)
OBVIOUS

\* A message off the next root takes s past t, whose root that is.
LEMMA TurnPairs ==
    ASSUME NEW s \in RatchetState, NEW t \in RatchetState, NEW r \in RatchetState,
           NEW m \in Frame, NEW next \in Nat, Paired(s, t, next), Addressed(m, t, next),
           Within(m.mk.root, t.rk), Numbered(r), Walked(r, s, m, next), StepsOn(r, s, m, next)
    PROVE  /\ Paired(r, t, next + 1)
           /\ Len(r.rk) > Len(t.rk) /\ Len(r.rk) > Len(s.rk)
           /\ r.dhs = next /\ r.ns = 0 /\ r.cks # NoChain
<1> DEFINE x == x25519_shared(s.dhs, m.h.dh)
           y == x25519_shared(next, m.h.dh)
<1>1. /\ s.rk \in Root /\ t.rk \in Root /\ Len(s.rk) \in Nat /\ Len(t.rk) \in Nat
      /\ Len(s.ckr.root) \in Nat /\ Len(t.ckr.root) \in Nat /\ Len(s.rk) >= 1
    BY LengthsTyped, PairLengths
<1>2. m.mk.root \in Root /\ m.h.dh \in Nat
    BY DEF Frame, MessageKey, ChainKey, Header, Key
<1>3. /\ m.h.dh # s.dhr /\ m.mk.root = Append(s.rk, x)
      /\ r.dhr = m.h.dh /\ r.dhs = next /\ r.rk = Append(m.mk.root, y)
      /\ r.cks = ChainOf(r.rk) /\ r.ns = 0
    BY DEF StepsOn
<1>4. x \in SUBSET Key /\ y \in SUBSET Key
    BY <1>2 DEF x25519_shared, Key, RatchetState
<1> HIDE DEF x, y
<1>5. Len(m.mk.root) = Len(s.rk) + 1
    BY <1>1, <1>3, <1>4, AppendIsOn
<1>6. Len(r.rk) = Len(m.mk.root) + 1
    BY <1>2, <1>3, <1>4, AppendIsOn
<1>7. ~Ahead(s, t) /\ Ahead(t, s) /\ Len(t.rk) = Len(s.rk) + 1
    <2>1. Len(m.mk.root) <= Len(t.rk)
        BY DEF Within
    <2>2. Len(s.rk) # Len(t.rk) + 1
        BY ONLY <1>1, <1>5, <2>1
    <2>. QED BY <2>2, PairLengths
<1>8. m.mk.root = t.rk /\ m.h.dh = t.dhs
    <2>1. m.mk.root = t.rk
        BY <1>1, <1>2, <1>5, <1>7, WithinLong
    <2>. QED BY <2>1 DEF Addressed
<1>9. /\ Len(r.rk) > Len(t.rk) /\ Len(r.rk) > Len(s.rk) /\ Len(r.rk) # 1 /\ Len(t.rk) # 1
      /\ r.rk # <<>>
      /\ \A k \in Nat : /\ k <= Len(s.rk) => k <= Len(r.rk)
                        /\ k <= Len(t.rk) => k <= Len(r.rk) /\ k # Len(r.rk)
    <2>1. Len(r.rk) = Len(t.rk) + 1 /\ Len(r.rk) \in Nat
        BY <1>6, <1>8, LengthsTyped
    <2>2. /\ Len(r.rk) > Len(t.rk) /\ Len(r.rk) > Len(s.rk) /\ Len(r.rk) # 1 /\ Len(r.rk) # 0
          /\ Len(t.rk) # 1
          /\ \A k \in Nat : /\ k <= Len(s.rk) => k <= Len(r.rk)
                            /\ k <= Len(t.rk) => k <= Len(r.rk) /\ k # Len(r.rk)
        BY <1>1, <1>7, <2>1, TwoLonger
    <2>3. Len(<<>>) = 0
        OBVIOUS
    <2>4. r.rk # <<>>
        BY <2>2, <2>3, Zenon
    <2>. QED BY <2>2, <2>4
<1>10. r.cks = [root |-> r.rk, n |-> r.ns] /\ r.cks # NoChain
    BY <1>3, <1>9 DEF ChainOf, NoChain
<1>11. r.ckr # NoChain /\ r.ckr.root = t.rk
    BY <1>8 DEF Walked
<1>12. /\ Len(s.ckr.root) <= Len(s.rk) /\ s.dhs < next /\ s.dhr < next /\ t.dhs < next /\ t.dhr < next
       /\ \A e \in ToSet(s.mkskipped) : e.dh < next /\ Len(e.mk.root) <= Len(s.rk)
       /\ \A e \in ToSet(t.mkskipped) : e.dh < next /\ Len(e.mk.root) <= Len(t.rk)
       /\ t.cks # NoChain
    BY <1>9 DEF Paired, Resumable
<1>13. \A e \in ToSet(r.mkskipped) :
           e \in ToSet(s.mkskipped) \/ LiesOn(e, s.dhr, s.ckr.root) \/ LiesOn(e, t.dhs, t.rk)
    BY <1>8 DEF Walked
<1>14. Follows(r, t) /\ Follows(t, r)
    <2>1. Ahead(r, t)
        BY <1>3, <1>8 DEF Ahead, y
    <2>2. t.dhr # r.dhs
        BY <1>3, <1>12, LengthsTyped
    <2>. QED BY <1>11, <1>12, <2>1, <2>2 DEF Follows
<1>15. Listed(r, t)
    <2> SUFFICES ASSUME NEW e \in ToSet(r.mkskipped) PROVE e.dh = t.dhs <=> e.mk.root = t.rk
        BY DEF Listed
    <2>1. s.dhr # t.dhs
        BY <1>3, <1>8
    <2>2. s.ckr.root # t.rk
        BY <1>1, <1>7, <1>12
    <2>. QED BY <1>13, <2>1, <2>2 DEF LiesOn, Paired, Listed
<1>16. ASSUME NEW e \in ToSet(t.mkskipped) PROVE e.dh # r.dhs /\ e.mk.root # r.rk
    <2>1. e.dh < next /\ Len(e.mk.root) <= Len(t.rk)
        BY <1>12, <1>16
    <2>2. e.dh \in Nat /\ Len(e.mk.root) \in Nat
        BY <1>16, EntryTyped
    <2>3. e.dh # next
        BY <2>1, <2>2
    <2>. QED BY <1>3, <1>9, <2>1, <2>2, <2>3
<1>17. Listed(t, r)
    BY <1>16 DEF Listed
<1>18. Resumable(t, next + 1) /\ Resumable(s, next + 1)
    <2>1. next + 1 \in Nat /\ next <= next + 1
        OBVIOUS
    <2>. QED BY <2>1, LaterKeys DEF Paired
<1>19. Resumable(r, next + 1)
    <2>1. ASSUME NEW e \in ToSet(r.mkskipped) PROVE e.dh < next + 1 /\ Len(e.mk.root) <= Len(r.rk)
        <3>1. Len(s.ckr.root) <= Len(r.rk) /\ Len(t.rk) <= Len(r.rk)
            <4>1. Len(t.rk) <= Len(t.rk) /\ Len(s.ckr.root) <= Len(s.rk)
                BY <1>1, <1>12
            <4>. QED BY ONLY <1>1, <1>9, <4>1
        <3>2. CASE e \in ToSet(s.mkskipped)
            <4>1. e.dh < next + 1 /\ Len(e.mk.root) <= Len(s.rk)
                BY <1>18, <3>2 DEF Resumable
            <4>2. Len(e.mk.root) \in Nat
                BY <3>2, EntryTyped
            <4>3. Len(e.mk.root) <= Len(r.rk)
                BY <1>9, <4>1, <4>2
            <4>. QED BY <4>1, <4>3
        <3>3. CASE LiesOn(e, s.dhr, s.ckr.root)
            BY <1>18, <3>1, <3>3 DEF LiesOn, Resumable
        <3>4. CASE LiesOn(e, t.dhs, t.rk)
            BY <1>18, <3>1, <3>4 DEF LiesOn, Resumable
        <3>. QED BY <1>13, <2>1, <3>2, <3>3, <3>4
    <2>2. r.dhs < next + 1 /\ r.dhr < next + 1
        BY <1>3, <1>8, <1>18 DEF Resumable
    <2>3. Len(r.ckr.root) <= Len(r.rk)
        BY <1>1, <1>9, <1>11
    <2>. QED BY <1>9, <1>10, <2>1, <2>2, <2>3 DEF Resumable
<1>. QED BY <1>3, <1>9, <1>10, <1>14, <1>15, <1>17, <1>18, <1>19 DEF Paired

\* Whatever message of its peer's a client opens, the two states stay a pair; what it
\* has received by then is what it had, or goes up to this message.
LEMMA ReceivePairs ==
    ASSUME NEW s \in RatchetState, NEW t \in RatchetState, NEW m \in Frame, NEW next \in Nat,
           Len(s.mkskipped) <= MAX_SKIP_SESSION, Paired(s, t, next), Addressed(m, t, next),
           Within(m.mk.root, t.rk), Opens(s, m.h, m.mk, next)
    PROVE  LET r    == ratchet_decrypt(s, m.h, m.mk, next)
               then == IF r.dhs = next THEN next + 1 ELSE next
           IN  /\ r \in RatchetState /\ Paired(r, t, then) /\ then \in Nat /\ next <= then
               /\ \/ r.ckr = s.ckr /\ r.nr = s.nr
                  \/ r.ckr.root = m.mk.root /\ r.nr = m.mk.n + 1
               /\ \/ r.rk = s.rk /\ r.dhs = s.dhs /\ r.ns = s.ns
                  \/ Len(r.rk) > Len(t.rk) /\ Len(r.rk) > Len(s.rk) /\ r.dhs = next /\ r.ns = 0
<1> DEFINE r == ratchet_decrypt(s, m.h, m.mk, next)
           then == IF r.dhs = next THEN next + 1 ELSE next
<1>1. m.h \in Header /\ m.mk \in MessageKey /\ next \in Key /\ Numbered(s) /\ s.dhs # next
    <2>1. s.dhs < next /\ s.dhs \in Nat /\ Numbered(s)
        BY LengthsTyped DEF Paired, Resumable
    <2>. QED BY <2>1 DEF Frame, Key
<1>2. r \in RatchetState
    BY <1>1, DecryptTyped
<1>3. Numbered(r) /\ (Taken(r, s) \/ Walked(r, s, m, next))
    BY <1>1, DecryptLeaves
<1> HIDE DEF r
<1>4. CASE Taken(r, s)
    <2>1. r.dhs # next
        BY <1>1, <1>4 DEF Taken, SendsAs
    <2>2. /\ r.dhs = s.dhs /\ r.dhr = s.dhr /\ r.rk = s.rk /\ r.cks = s.cks /\ r.ns = s.ns
          /\ r.ckr = s.ckr /\ r.nr = s.nr /\ ToSet(r.mkskipped) \subseteq ToSet(s.mkskipped)
        BY <1>4 DEF Taken, SendsAs
    <2>3. Resumable(r, next)
        BY <1>3, <2>2 DEF Paired, Resumable
    <2>4. Follows(r, t) /\ Follows(t, r)
        BY <2>2 DEF Paired, Follows, Ahead
    <2>5. Listed(r, t) /\ Listed(t, r)
        BY <2>2 DEF Paired, Listed
    <2>6. Paired(r, t, next)
        BY <2>3, <2>4, <2>5 DEF Paired
    <2>. QED BY <1>2, <2>1, <2>2, <2>6 DEF r
<1>5. CASE Walked(r, s, m, next) /\ SendsAs(r, s) /\ s.ckr # NoChain /\ m.h.dh = s.dhr /\ m.mk.root = s.ckr.root
    <2>1. r.dhs # next /\ r.rk = s.rk /\ r.dhs = s.dhs /\ r.ns = s.ns
        BY <1>1, <1>5 DEF SendsAs
    <2>2. Paired(r, t, next)
        BY <1>2, <1>3, <1>5, WalkPairs
    <2>3. r.ckr.root = m.mk.root /\ r.nr = m.mk.n + 1
        BY <1>5 DEF Walked
    <2>. QED BY <1>2, <2>1, <2>2, <2>3 DEF r
<1>6. CASE Walked(r, s, m, next) /\ StepsOn(r, s, m, next)
    <2>1. /\ Paired(r, t, next + 1) /\ Len(r.rk) > Len(t.rk) /\ Len(r.rk) > Len(s.rk)
          /\ r.dhs = next /\ r.ns = 0
        BY <1>2, <1>3, <1>6, TurnPairs
    <2>2. r.ckr.root = m.mk.root /\ r.nr = m.mk.n + 1
        BY <1>6 DEF Walked
    <2>3. next + 1 \in Nat /\ next <= next + 1
        OBVIOUS
    <2>. QED BY <1>2, <2>1, <2>2, <2>3 DEF r
<1>. QED BY <1>3, <1>4, <1>5, <1>6 DEF Walked

\* Sealing leaves the pair, and the frame bears the position the state was at.
LEMMA SealResumes ==
    ASSUME NEW s \in RatchetState, NEW d \in RatchetState, Resumed(s, d), CanSend(s)
    PROVE  LET r == ratchet_encrypt(s)
           IN  /\ Resumed(r, d) /\ r.cks # NoChain /\ r.ns = s.ns + 1
               /\ s.cks = [root |-> d.rk, n |-> s.ns]
<1> DEFINE r == ratchet_encrypt(s)
<1>1. /\ r.cks = kdf_ck(s.cks, 1) /\ r.ns = s.ns + 1
      /\ r.rk = s.rk /\ r.dhs = s.dhs /\ r.dhr = s.dhr
      /\ r.ckr = s.ckr /\ r.nr = s.nr /\ r.mkskipped = s.mkskipped
    BY EncryptSets
<1> HIDE DEF r
<1>2. s.cks = [root |-> s.rk, n |-> s.ns] /\ s.rk = d.rk
    BY DEF Resumed, CanSend
<1>3. r.cks = [root |-> s.rk, n |-> s.ns + 1]
    <2>1. s.cks \in ChainKey
        BY DEF RatchetState
    <2>2. r.cks \in ChainKey /\ r.cks.root = s.rk /\ r.cks.n = s.ns + 1
        BY <1>1, <1>2, <2>1, KdfTyped
    <2>. QED BY <2>2 DEF ChainKey
<1>4. s.ns \in Nat /\ d.ns \in Nat /\ d.ns <= s.ns
    BY DEF RatchetState, Resumed
<1>5. d.ns <= s.ns + 1 /\ s.ns + 1 # 0
    BY <1>4
<1>6. r.cks # NoChain
    BY <1>3, <1>5 DEF NoChain
<1>7. Resumed(r, d)
    BY <1>1, <1>2, <1>3, <1>5, <1>6 DEF Resumed, CanSend
<1>. QED BY <1>1, <1>2, <1>6, <1>7 DEF r

\* The next message of t opens at s, unless it has been passed on its chain, or the gap
\* before it is too long.
LEMMA NextOpens ==
    ASSUME NEW s \in RatchetState, NEW t \in RatchetState, NEW next \in Nat,
           Len(s.mkskipped) <= MAX_SKIP_SESSION, Paired(s, t, next), CanSend(t)
    PROVE  \/ Opens(s, NextHeader(t), NextSealKey(t), next)
           \/ s.ckr.root = t.rk /\ t.ns < s.nr
           \/ GapTooLong(s, NextHeader(t), next)
<1> DEFINE h == NextHeader(t)
           k == _ratchet_decrypt_into(s, h, next).mk
           on == Append(s.rk, x25519_shared(s.dhs, h.dh))
<1>1. h \in Header /\ h.dh = t.dhs /\ h.n = t.ns
    BY DEF NextHeader, Header, RatchetState
<1>2. NextSealKey(t) = [root |-> t.rk, n |-> t.ns] /\ NextSealKey(t) # NoChain
    BY DEF NextSealKey, CanSend, Paired, Resumable
<1>3. next \in Key /\ Numbered(s) /\ s.nr \in Nat /\ t.ns \in Nat
    BY LengthsTyped DEF Paired, Resumable, Key
<1> HIDE DEF h
<1>4. /\ SkippedAt(s, h) # {} =>
            \E e \in ToSet(s.mkskipped) : e.dh = h.dh /\ e.n = h.n /\ k = e.mk
      /\ SkippedAt(s, h) = {} /\ h.dh = s.dhr /\ s.ckr # NoChain /\ s.nr <= h.n
            => k = [root |-> s.ckr.root, n |-> h.n]
      /\ SkippedAt(s, h) = {} /\ h.dh # s.dhr => k = [root |-> on, n |-> h.n]
    BY <1>1, <1>3, LeadsTo
<1> HIDE DEF on, k
<1>5. CASE SkippedAt(s, h) # {}
    <2>1. PICK e \in ToSet(s.mkskipped) : e.dh = h.dh /\ e.n = h.n /\ k = e.mk
        BY <1>4, <1>5
    <2>2. e.mk.root = t.rk /\ e.mk.n = t.ns
        BY <1>1, <1>3, <2>1 DEF Paired, Listed, Numbered
    <2>3. e.mk = [root |-> t.rk, n |-> t.ns]
        <3>1. e.mk \in ChainKey
            BY EntryTyped
        <3>. QED BY <2>2, <3>1 DEF ChainKey
    <2>. QED BY <1>2, <1>5, <2>1, <2>3 DEF Opens, k, h
<1>6. CASE SkippedAt(s, h) = {} /\ Ahead(s, t) /\ ~Ahead(t, s)
    <2>1. h.dh = s.dhr /\ s.ckr # NoChain /\ s.ckr.root = t.rk
        BY <1>1, <1>6 DEF Paired, Follows, Ahead, CanSend
    <2>2. CASE s.nr <= h.n
        <3>1. k = NextSealKey(t)
            BY <1>1, <1>2, <1>4, <1>6, <2>1, <2>2
        <3>. QED BY <1>2, <3>1 DEF Opens, k, h
    <2>3. CASE ~(s.nr <= h.n)
        BY <1>1, <1>3, <2>1, <2>3
    <2>. QED BY <2>2, <2>3
<1>7. CASE SkippedAt(s, h) = {} /\ Ahead(t, s)
    <2>1. h.dh # s.dhr
        <3>1. ~Ahead(s, t)
            <4>1. Len(s.rk) \in Nat /\ Len(t.rk) \in Nat
                BY LengthsTyped
            <4>2. Len(t.rk) = Len(s.rk) + 1
                BY <1>7, PairLengths
            <4>3. Len(s.rk) # Len(t.rk) + 1
                BY <4>1, <4>2
            <4>. QED BY <4>3, PairLengths
        <3>. QED BY <1>1, <3>1 DEF Paired, Follows
    <2>2. on = t.rk
        BY <1>1, <1>7, SharedBothWays DEF Ahead, on
    <2>3. k = NextSealKey(t)
        BY <1>1, <1>2, <1>4, <1>7, <2>1, <2>2
    <2>. QED BY <1>2, <2>3 DEF Opens, k, h
<1>. QED BY <1>5, <1>6, <1>7, PairLengths

\* The keys of p's sending chain from the stored position up to m were handed over.
Handed(p, m) == AllHanded(handed, disk[p].rk, disk[p].ns, m)

\* The vaults are a pair; alone, one of them has only sealed since its seed.
Vaults(p) ==
    /\ HasState(p) => Resumable(disk[p], nextKey)
    /\ HasState(p) /\ HasState(Peer(p)) =>
         /\ Paired(disk[p], disk[Peer(p)], nextKey)
         /\ disk[p].ckr.root = disk[Peer(p)].rk => Handed(Peer(p), disk[p].nr)
    /\ HasState(p) /\ ~HasState(Peer(p)) => Resumed(disk[p], Seed(p))

\* The open session resumed the vault; what it has sealed since was handed over, but for
\* the frame that waits for the transport.
Opened(p) ==
    /\ phase[p] = "open" => Resumed(st[p], disk[p])
    /\ pc[p] # "idle" => st[p].cks # NoChain
    /\ up /\ phase[p] = "open" => Handed(p, IF pc[p] = "transmit" THEN st[p].ns - 1 ELSE st[p].ns)

\* The frame that waits for the transport, and those on their way, bear the keys they say;
\* all keys before theirs were handed over.
Poised(p) ==
    pc[p] = "transmit" => /\ Addressed(op[p].frame, disk[p], nextKey)
                          /\ op[p].frame.mk = [root |-> disk[p].rk, n |-> st[p].ns - 1]
Traced(p, f) ==
    /\ Addressed(f, disk[p], nextKey)
    /\ f.mk.root = disk[p].rk => Handed(p, f.mk.n + 1)
OnWay(p) == \A f \in ToSet(chan[Peer(p)]) : Traced(p, f)

\* The keys of this link were drawn.
Drawn(p) == up /\ phase[p] = "handshake" => pake + 2 < nextKey

NInv == \A p \in Party : Vaults(p) /\ Opened(p) /\ Poised(p) /\ OnWay(p) /\ Drawn(p)

\* What the invariant says of one party and of its peer.
LEMMA NextOf ==
    ASSUME NInv, NEW p \in Party
    PROVE  /\ Vaults(p) /\ Opened(p) /\ Poised(p) /\ OnWay(p) /\ Drawn(p)
           /\ Vaults(Peer(p)) /\ Opened(Peer(p)) /\ Poised(Peer(p)) /\ OnWay(Peer(p))
           /\ Drawn(Peer(p))
BY PeerIsParty DEF NInv

\* What holds of one party and of its peer holds of all.
LEMMA NextOfBoth ==
    ASSUME NEW p \in Party,
           \A q \in {p, Peer(p)} : Vaults(q)' /\ Opened(q)' /\ Poised(q)' /\ OnWay(q)' /\ Drawn(q)'
    PROVE  NInv'
BY PeerIsParty DEF NInv

\* Types of what the invariant counts.
LEMMA CountsTyped ==
    ASSUME TypeOK, NEW p \in Party
    PROVE  /\ nextKey \in Nat /\ pake \in Nat
           /\ HasState(p) => disk[p] \in RatchetState /\ disk[p].ns \in Nat /\ disk[p].nr \in Nat
           /\ phase[p] = "open" => st[p] \in RatchetState /\ st[p].ns \in Nat
           /\ chan[p] \in Seq(Frame) /\ chan[Peer(p)] \in Seq(Frame)
           /\ \A f \in Frame : f.mk.n \in Nat
           /\ ToSet(chan[Peer(p)]) \subseteq Frame
<1>1. HasState(p) => disk[p] \in RatchetState
    BY RootsTyped
<1>2. phase[p] = "open" => st[p] \in RatchetState
    BY RootsTyped
<1>3. \A s \in RatchetState : s.ns \in Nat /\ s.nr \in Nat
    BY DEF RatchetState
<1>4. chan[p] \in Seq(Frame) /\ chan[Peer(p)] \in Seq(Frame)
    BY PeerIsParty DEF TypeOK
<1>5. ToSet(chan[Peer(p)]) \subseteq Frame
    BY <1>4, AmongFrames
<1>6. \A f \in Frame : f.mk.n \in Nat
    BY DEF Frame, MessageKey, ChainKey
<1>7. nextKey \in Nat /\ pake \in Nat
    BY DEF TypeOK
<1>. QED BY <1>1, <1>2, <1>3, <1>4, <1>5, <1>6, <1>7

\* What was handed over stays so, while the vault stands or goes on counting.
LEMMA HandedOn ==
    ASSUME NEW p \in Party, disk[p].rk = disk'[p].rk, handed \subseteq handed',
           disk[p].ns \in Nat, disk'[p].ns \in Nat, disk[p].ns <= disk'[p].ns,
           NEW m \in Int, Handed(p, m)
    PROVE  Handed(p, m)'
<1>1. AllHanded(handed, disk[p].rk, disk[p].ns, m)
    BY DEF Handed
<1>2. AllHanded(handed', disk'[p].rk, disk'[p].ns, m)
    <2> DEFINE a == disk[p].ns
               b == disk'[p].ns
               root == disk'[p].rk
               G == handed'
    <2>1. a \in Nat /\ b \in Nat /\ a <= b /\ m <= m /\ handed \subseteq G /\ AllHanded(handed, root, a, m)
        BY <1>1
    <2> HIDE DEF a, b, root, G
    <2>2. AllHanded(G, root, b, m)
        BY <2>1, HandedGrows
    <2>. QED BY <2>2 DEF G, root, b
<1>. QED BY <1>2 DEF Handed

\* While the vaults stand, they are the pair they were.
LEMMA VaultStands ==
    ASSUME IInv, RInv, NInv, NEW p \in Party, disk' = disk, handed \subseteq handed',
           nextKey' \in Nat, nextKey <= nextKey',
           UNCHANGED <<initiator, pake>> \/ \A r \in Party : phase[r] = "closed"
    PROVE  Vaults(p)'
<1> DEFINE q == Peer(p)
<1>0. TypeOK /\ q \in Party /\ Peer(q) = p /\ Alone(p) /\ Vaults(p)
    BY OfParty, PeerIsParty, RootsOf, NextOf
<1>1. /\ nextKey \in Nat /\ (HasState(p)' <=> HasState(p)) /\ (HasState(q)' <=> HasState(q))
      /\ HasState(p) => disk[p] \in RatchetState /\ disk[p].ns \in Nat /\ disk[p].nr \in Nat
      /\ HasState(q) => disk[q] \in RatchetState /\ disk[q].ns \in Nat
    BY <1>0, CountsTyped DEF HasState
<1> HIDE DEF q
<1>2. HasState(p) => Resumable(disk[p], nextKey)'
    <2> SUFFICES ASSUME HasState(p) PROVE Resumable(disk[p], nextKey')
        OBVIOUS
    <2>. QED BY <1>0, <1>1, LaterKeys DEF Vaults
<1>3. ASSUME HasState(p), HasState(q)
      PROVE  /\ Paired(disk[p], disk[q], nextKey')
             /\ disk[p].ckr.root = disk[q].rk => Handed(q, disk[p].nr)'
    <2>1. Paired(disk[p], disk[q], nextKey) /\ (disk[p].ckr.root = disk[q].rk => Handed(q, disk[p].nr))
        BY <1>0, <1>3 DEF Vaults, q
    <2>2. Paired(disk[p], disk[q], nextKey')
        BY <1>1, <1>3, <2>1, LaterKeys
    <2>3. disk[p].nr \in Int /\ disk[q].ns \in Nat /\ disk[q].ns <= disk[q].ns
        BY <1>1, <1>3
    <2>4. ASSUME Handed(q, disk[p].nr) PROVE Handed(q, disk[p].nr)'
        BY <1>0, <2>3, <2>4, HandedOn
    <2>. QED BY <2>1, <2>2, <2>4
<1>4. ASSUME HasState(p), ~HasState(q) PROVE Resumed(disk[p], Seed(p))'
    <2>1. UNCHANGED <<initiator, pake>>
        BY <1>0, <1>4 DEF Alone, q
    <2>2. Seed(p)' = Seed(p)
        BY <2>1 DEF Seed
    <2>. QED BY <1>0, <1>4, <2>2 DEF Vaults, q
<1>. QED BY <1>1, <1>2, <1>3, <1>4 DEF Vaults, q

\* A frame on its way says what it said while the key pair and the root of its sender stand.
LEMMA FrameStands ==
    ASSUME IInv, RInv, NInv, NEW q \in Party, disk'[q].rk = disk[q].rk, disk'[q].dhs = disk[q].dhs,
           disk'[q].ns \in Nat, disk[q].ns <= disk'[q].ns, handed \subseteq handed',
           nextKey' \in Nat, nextKey <= nextKey', NEW f \in ToSet(chan[Peer(q)])
    PROVE  Traced(q, f)'
<1>0. TypeOK /\ Carried(q) /\ OnWay(q)
    BY OfParty, RootsOf, NextOf
<1>1. f \in Frame /\ f.mk.n \in Nat /\ f.h.dh \in Nat /\ nextKey \in Nat /\ HasState(q)
    <2>1. f \in Frame /\ HasState(q)
        BY <1>0, CountsTyped DEF Carried, OffStored
    <2>. QED BY <1>0, <2>1, CountsTyped DEF Frame, Header, Key
<1>2. disk[q].ns \in Nat /\ Traced(q, f) /\ f.mk.n + 1 \in Int
    BY <1>0, <1>1, CountsTyped DEF OnWay
<1>3. Addressed(f, disk[q], nextKey) => Addressed(f, disk'[q], nextKey')
    <2>1. f.h.dh < nextKey => f.h.dh < nextKey'
        BY <1>1
    <2>. QED BY <2>1 DEF Addressed
<1>4. Handed(q, f.mk.n + 1) => Handed(q, f.mk.n + 1)'
    BY <1>2, HandedOn
<1>. QED BY <1>2, <1>3, <1>4 DEF Traced

\* A session, its frames and its handshake are where they were while nothing of theirs moves.
LEMMA OthersStand ==
    ASSUME IInv, RInv, NInv, NEW q \in Party, disk'[q] = disk[q],
           UNCHANGED <<phase[q], st[q], pc[q], op[q], pake>>, up' = up \/ ~up',
           ToSet(chan'[Peer(q)]) \subseteq ToSet(chan[Peer(q)]), handed \subseteq handed',
           nextKey' \in Nat, nextKey <= nextKey'
    PROVE  Opened(q)' /\ Poised(q)' /\ OnWay(q)' /\ Drawn(q)'
<1>0. /\ TypeOK /\ Resumes(q) /\ Linked(q) /\ Carried(q) /\ Opened(q) /\ Poised(q) /\ Drawn(q)
    BY OfParty, RootsOf, NextOf
<1>1. /\ nextKey \in Nat /\ pake \in Nat
      /\ HasState(q) => disk[q] \in RatchetState /\ disk[q].ns \in Nat /\ disk[q].ns <= disk[q].ns
      /\ phase[q] = "open" => st[q].ns \in Int /\ st[q].ns - 1 \in Int
    <2>1. /\ HasState(q) => disk[q] \in RatchetState /\ disk[q].ns \in Nat
          /\ phase[q] = "open" => st[q].ns \in Nat
          /\ nextKey \in Nat /\ pake \in Nat
        BY <1>0, CountsTyped
    <2>2. \A k \in Nat : k <= k /\ k \in Int /\ k - 1 \in Int
        OBVIOUS
    <2>. QED BY <2>1, <2>2
<1>2. ASSUME NEW m \in Int, HasState(q), Handed(q, m) PROVE Handed(q, m)'
    BY <1>1, <1>2, HandedOn
<1>3. Opened(q)'
    <2>1. ASSUME up', phase[q] = "open"
          PROVE  Handed(q, IF pc[q] = "transmit" THEN st[q].ns - 1 ELSE st[q].ns)'
        <3>1. HasState(q)
            BY <1>0, <2>1 DEF Resumes
        <3>2. up
            BY <2>1
        <3>3. CASE pc[q] = "transmit"
            <4>1. Handed(q, st[q].ns - 1)'
                BY <1>0, <1>1, <1>2, <2>1, <3>1, <3>2, <3>3 DEF Opened
            <4>. QED BY <3>3, <4>1
        <3>4. CASE pc[q] # "transmit"
            <4>1. Handed(q, st[q].ns)'
                BY <1>0, <1>1, <1>2, <2>1, <3>1, <3>2, <3>4 DEF Opened
            <4>. QED BY <3>4, <4>1
        <3>. QED BY <3>3, <3>4
    <2>2. (phase[q] = "open" => Resumed(st[q], disk[q])) /\ (pc[q] # "idle" => st[q].cks # NoChain)
        BY <1>0 DEF Opened
    <2>. QED BY <2>1, <2>2 DEF Opened
<1>4. ASSUME pc[q] = "transmit"
      PROVE  /\ Addressed(op[q].frame, disk[q], nextKey')
             /\ op[q].frame.mk = [root |-> disk[q].rk, n |-> st[q].ns - 1]
    <2>1. HasState(q) /\ op[q].frame \in Frame
        BY <1>0, <1>4, Typed DEF Linked, Resumes
    <2>2. Addressed(op[q].frame, disk[q], nextKey)
          /\ op[q].frame.mk = [root |-> disk[q].rk, n |-> st[q].ns - 1]
        BY <1>0, <1>4 DEF Poised
    <2>. QED BY <1>1, <2>1, <2>2, LaterKeys
<1>5. Poised(q)'
    BY <1>4 DEF Poised
<1>6. ASSUME NEW f \in ToSet(chan'[Peer(q)]) PROVE Traced(q, f)'
    <2>1. f \in ToSet(chan[Peer(q)])
        BY <1>6
    <2>2. HasState(q)
        BY <1>0, <2>1 DEF Carried, OffStored
    <2>. QED BY <1>1, <2>1, <2>2, FrameStands
<1>7. OnWay(q)'
    BY <1>6 DEF OnWay
<1>8. Drawn(q)'
    <2>1. pake + 2 < nextKey => pake + 2 < nextKey'
        BY <1>1
    <2>2. up' /\ phase[q] = "handshake" => pake + 2 < nextKey
        BY <1>0 DEF Drawn
    <2>. QED BY <2>1, <2>2 DEF Drawn
<1>. QED BY <1>3, <1>5, <1>7, <1>8

\* A sending starts: what it seals counts on from what was handed over.
LEMMA StartNext ==
    ASSUME TypeOK, NEW p \in Party, NEW s \in RatchetState, NEW kind, NEW body,
           StartSending(p, s, kind, body), CanSend(s), disk'[p] \in RatchetState,
           Resumed(s, disk'[p]), disk'[p].dhs < nextKey',
           up' => AllHanded(handed', disk'[p].rk, disk'[p].ns, s.ns)
    PROVE  /\ Opened(p)' /\ Poised(p)'
           /\ UNCHANGED <<st[Peer(p)], pc[Peer(p)], op[Peer(p)]>>
<1> DEFINE o == [kind |-> kind, frame |-> Sealed(p, s, body)]
           r == ratchet_encrypt(s)
           d == disk'[p]
<1>1. /\ Resumed(r, d) /\ r.cks # NoChain /\ r.ns = s.ns + 1
      /\ s.cks = [root |-> d.rk, n |-> s.ns]
    BY SealResumes
<1>2. o.frame.mk = s.cks /\ o.frame.h.dh = s.dhs /\ o.frame.h.n = s.ns
    BY DEF Sealed, NextSealKey, NextHeader
<1>3. st' = [st EXCEPT ![p] = r] /\ pc' = [pc EXCEPT ![p] = "transmit"] /\ op' = [op EXCEPT ![p] = o]
    BY DEF StartSending
<1>4. d.dhs < nextKey' /\ (up' => AllHanded(handed', d.rk, d.ns, s.ns))
    OBVIOUS
<1> HIDE DEF o, r, d
<1>5. st'[p] = r /\ pc'[p] = "transmit" /\ op'[p] = o
    BY <1>3 DEF TypeOK
<1>6. UNCHANGED <<st[Peer(p)], pc[Peer(p)], op[Peer(p)]>>
    BY <1>3, PeerIsParty DEF TypeOK
<1>7. r.ns - 1 = s.ns
    <2>1. s.ns \in Nat
        BY DEF RatchetState
    <2>. QED BY <1>1, <2>1
<1>8. s.dhs = d.dhs
    BY DEF Resumed, d
<1>9. Addressed(o.frame, d, nextKey')
    BY <1>1, <1>2, <1>4, <1>8 DEF Addressed
<1>10. Poised(p)'
    BY <1>1, <1>2, <1>5, <1>7, <1>9 DEF Poised, d
<1>11. Opened(p)'
    BY <1>1, <1>4, <1>5, <1>7 DEF Opened, Handed, d
<1>. QED BY <1>6, <1>10, <1>11

\* A text is sealed after those that were handed over, or waits.
LEMMA SendNext ==
    ASSUME IInv, RInv, NInv, "handshake" \notin Faults, NEW p \in Party, Send(p)
    PROVE  NInv'
<1> DEFINE n == texts[p] + 1
           q == Peer(p)
<1>0. /\ TypeOK /\ q \in Party /\ Peer(q) = p
    BY OfParty, PeerIsParty
<1>1. /\ phase[p] = "open" /\ pc[p] = "idle"
      /\ UNCHANGED <<disk, phase, chan, up, initiator, pake, nextKey, handed>>
    BY DEF Send, link
<1>2. /\ nextKey \in Nat /\ nextKey <= nextKey' /\ handed \subseteq handed'
    BY <1>0, <1>1, CountsTyped
<1>3. Vaults(p)' /\ Vaults(q)'
    BY <1>0, <1>1, <1>2, VaultStands
<1>4. /\ Resumes(p) /\ Carried(p) /\ Vaults(p) /\ Opened(p) /\ OnWay(p) /\ Drawn(p) /\ HasState(p)
    BY <1>1, RootsOf, NextOf DEF Resumes
<1>5. st[p] \in RatchetState /\ st[p].ns \in Nat /\ disk[p] \in RatchetState /\ disk[p].ns \in Nat
    BY <1>0, <1>1, <1>4, CountsTyped
<1> HIDE DEF n, q
<1>6. CASE CanSend(st[p])
    <2>1. StartSending(p, st[p], "text", n)
        BY <1>6 DEF Send, n
    <2>2. disk[p].dhs < nextKey /\ Resumed(st[p], disk[p])
        BY <1>1, <1>4 DEF Vaults, Resumable, Opened
    <2>3. up => Handed(p, st[p].ns)
        BY <1>1, <1>4 DEF Opened
    <2>4. disk'[p].dhs < nextKey' /\ Resumed(st[p], disk'[p])
          /\ (up' => AllHanded(handed', disk'[p].rk, disk'[p].ns, st[p].ns))
        BY <1>1, <2>2, <2>3 DEF Handed
    <2>5. Opened(p)' /\ Poised(p)' /\ UNCHANGED <<st[q], pc[q], op[q]>>
        BY <1>0, <1>1, <1>5, <1>6, <2>1, <2>4, StartNext DEF q
    <2>6. OnWay(p)' /\ Drawn(p)'
        BY <1>0, <1>1, <1>4 DEF OnWay, Traced, Handed, Drawn
    <2>7. Opened(q)' /\ Poised(q)' /\ OnWay(q)' /\ Drawn(q)'
        BY <1>0, <1>1, <1>2, <2>5, OthersStand
    <2>. QED BY <1>3, <2>5, <2>6, <2>7, NextOfBoth DEF q
<1>7. CASE ~CanSend(st[p])
    <2>1. UNCHANGED <<st, pc, op>>
        BY <1>7 DEF Send
    <2>2. Opened(p)' /\ Poised(p)' /\ OnWay(p)' /\ Drawn(p)'
        BY <1>1, <1>2, <2>1, OthersStand
    <2>3. Opened(q)' /\ Poised(q)' /\ OnWay(q)' /\ Drawn(q)'
        BY <1>0, <1>1, <1>2, <2>1, OthersStand
    <2>. QED BY <1>3, <2>2, <2>3, NextOfBoth DEF q
<1>. QED BY <1>6, <1>7

\* With a frame the keys handed over go one further.
LEMMA HandedNext ==
    ASSUME NEW H, NEW root, NEW a, NEW k \in Int, NEW g, AllHanded(H, root, a, k),
           g.mk = [root |-> root, n |-> k]
    PROVE  AllHanded(H \cup {g}, root, a, k + 1)
<1>1. ASSUME NEW n \in Nat, n < k + 1 PROVE n < k \/ n = k
    BY <1>1
<1>. QED BY <1>1 DEF AllHanded

\* A frame that goes on its way was handed over.
LEMMA TransmitNext ==
    ASSUME IInv, RInv, NInv, "handshake" \notin Faults, NEW p \in Party, Transmit(p)
    PROVE  NInv'
<1> DEFINE f == op[p].frame
           q == Peer(p)
<1>0. /\ TypeOK /\ q \in Party /\ q # p /\ Peer(q) = p
    BY OfParty, PeerIsParty
<1>1. /\ pc[p] = "transmit" /\ pc' = [pc EXCEPT ![p] = "written"]
      /\ chan' = IF up THEN [chan EXCEPT ![q] = Append(@, f)] ELSE chan
      /\ handed' = handed \cup {f}
      /\ UNCHANGED <<disk, phase, st, op, up, initiator, pake, nextKey>>
    BY DEF Transmit, vault
<1>2. /\ nextKey \in Nat /\ nextKey <= nextKey' /\ handed \subseteq handed'
    BY <1>0, <1>1, CountsTyped
<1>3. Vaults(p)' /\ Vaults(q)'
    BY <1>0, <1>1, <1>2, VaultStands
<1>4. /\ Resumes(p) /\ Carried(p) /\ Opened(p) /\ Poised(p) /\ OnWay(p) /\ Drawn(p)
      /\ phase[p] = "open" /\ HasState(p)
    BY <1>1, RootsOf, NextOf DEF Linked, Resumes
<1>5. /\ f \in Frame /\ chan[q] \in Seq(Frame)
      /\ disk[p].ns \in Nat /\ disk[p].ns <= disk[p].ns /\ st[p].ns - 1 \in Int
      /\ st[p].ns = (st[p].ns - 1) + 1
    <2>1. /\ f \in Frame /\ chan[q] \in Seq(Frame) /\ disk[p].ns \in Nat /\ st[p].ns \in Nat
        BY <1>0, <1>1, <1>4, Typed, CountsTyped
    <2>2. \A k \in Nat : k <= k /\ k - 1 \in Int /\ k = (k - 1) + 1
        OBVIOUS
    <2>. QED BY <2>1, <2>2
<1>6. Addressed(f, disk[p], nextKey) /\ f.mk = [root |-> disk[p].rk, n |-> st[p].ns - 1]
    BY <1>1, <1>4 DEF Poised
<1> HIDE DEF f, q
<1>7. up => AllHanded(handed', disk[p].rk, disk[p].ns, st[p].ns)
    <2> DEFINE k == st[p].ns - 1
               a == disk[p].ns
               root == disk[p].rk
    <2>1. up => AllHanded(handed, root, a, k)
        BY <1>1, <1>4 DEF Opened, Handed
    <2>2. k \in Int /\ f.mk = [root |-> root, n |-> k] /\ st[p].ns = k + 1
        BY <1>5, <1>6
    <2> HIDE DEF k, a, root
    <2>3. up => AllHanded(handed', root, a, k + 1)
        BY <1>1, <2>1, <2>2, HandedNext
    <2>. QED BY <2>2, <2>3 DEF a, root
<1>8. /\ chan'[q] \in {Append(chan[q], f), chan[q]} /\ (~up => chan'[q] = chan[q])
      /\ pc'[p] = "written" /\ UNCHANGED <<chan[p], pc[q]>>
    BY <1>0, <1>1 DEF TypeOK
<1>9. ToSet(chan'[q]) \subseteq ToSet(chan[q]) \cup (IF up THEN {f} ELSE {})
    <2>1. ToSet(Append(chan[q], f)) = ToSet(chan[q]) \cup {f}
        BY <1>5, AmongFrames
    <2>. QED BY <1>8, <2>1
<1>10. Opened(p)' /\ Poised(p)' /\ Drawn(p)'
    BY <1>1, <1>4, <1>7, <1>8 DEF Opened, Poised, Drawn, Handed
<1>11. ASSUME NEW g \in ToSet(chan'[q]) PROVE Traced(p, g)'
    <2>1. CASE g \in ToSet(chan[q])
        BY <1>1, <1>2, <1>5, <2>1, FrameStands DEF q
    <2>2. CASE up /\ g = f
        <3>1. f.mk.n + 1 = st[p].ns
            BY <1>5, <1>6
        <3>. QED BY <1>1, <1>6, <1>7, <2>2, <3>1 DEF Traced, Handed
    <2>. QED BY <1>9, <2>1, <2>2
<1>12. OnWay(p)'
    BY <1>11 DEF OnWay, q
<1>13. Opened(q)' /\ Poised(q)' /\ OnWay(q)' /\ Drawn(q)'
    BY <1>0, <1>1, <1>2, <1>8, OthersStand
<1>. QED BY <1>3, <1>10, <1>12, <1>13, NextOfBoth DEF q

\* With a session that ends go its frames; what it had not saved is behind the vault.
LEMMA EndNext ==
    ASSUME IInv, RInv, NInv, "handshake" \notin Faults, NEW p \in Party,
           SendRaises(p) \/ Disconnect(p) \/ Crash(p) \/ HandshakeFailed(p)
    PROVE  NInv'
<1>0. /\ TypeOK /\ Peer(p) \in Party /\ Peer(p) # p /\ Peer(Peer(p)) = p
    BY OfParty, PeerIsParty
<1>1. /\ UNCHANGED <<disk, initiator, pake, nextKey, handed>> /\ ~up'
      /\ \/ pc[p] = "idle" /\ UNCHANGED <<pc, op>>
         \/ ReleaseLock(p)
      /\ \/ UNCHANGED <<phase, st, chan>>
         \/ Forget(p)
         \/ /\ phase' = [phase EXCEPT ![p] = "closed"] /\ chan' = [chan EXCEPT ![p] = <<>>]
            /\ st' = st
    <2>1. CASE SendRaises(p)
        BY <2>1 DEF SendRaises, vault
    <2>2. CASE Disconnect(p)
        BY <2>2 DEF Disconnect, vault
    <2>3. CASE Crash(p)
        BY <2>3 DEF Crash, vault
    <2>4. CASE HandshakeFailed(p)
        <3>1. pc[p] = "idle"
            BY <2>4, RootsOf, <1>0 DEF HandshakeFailed, Linked
        <3>. QED BY <2>4, <3>1 DEF HandshakeFailed, vault
    <2>. QED BY <2>1, <2>2, <2>3, <2>4
<1>2. /\ UNCHANGED <<phase[Peer(p)], st[Peer(p)], pc[Peer(p)], op[Peer(p)], chan[Peer(p)]>>
      /\ pc'[p] = "idle" /\ chan'[p] \in {<<>>, chan[p]}
      /\ phase'[p] = "closed" \/ UNCHANGED <<phase[p], st[p]>>
    BY <1>0, <1>1 DEF ReleaseLock, Forget, TypeOK
<1>3. nextKey \in Nat /\ nextKey <= nextKey'
    BY <1>0, <1>1, CountsTyped
<1>4. Vaults(p)' /\ Vaults(Peer(p))'
    BY <1>0, <1>1, <1>3, VaultStands
<1>5. ToSet(chan'[p]) \subseteq ToSet(chan[p])
    <2>1. ToSet(<<>>) = {}
        BY DEF ToSet
    <2>. QED BY <1>2, <2>1
<1>6. /\ Opened(Peer(p))' /\ Poised(Peer(p))' /\ OnWay(Peer(p))' /\ Drawn(Peer(p))'
    BY <1>0, <1>1, <1>2, <1>3, <1>5, OthersStand
<1>7. Opened(p)' /\ Poised(p)' /\ Drawn(p)' /\ OnWay(p)'
    BY <1>1, <1>2, NextOf DEF Opened, Poised, Drawn, OnWay, Traced, Handed
<1>. QED BY <1>4, <1>6, <1>7, NextOfBoth

\* A row is written; a flush seals the next text after those that were handed over.
LEMMA RecordNext ==
    ASSUME IInv, RInv, NInv, "handshake" \notin Faults, NEW p \in Party, Record(p)
    PROVE  NInv'
<1> DEFINE q == Peer(p)
<1>0. /\ TypeOK /\ q \in Party /\ q # p /\ Peer(q) = p
    BY OfParty, PeerIsParty
<1>1. pc[p] = "written" /\ UNCHANGED <<disk, phase, chan, up, initiator, pake, nextKey, handed>>
    BY DEF Record, link
<1>2. /\ nextKey \in Nat /\ nextKey <= nextKey' /\ handed \subseteq handed'
    BY <1>0, <1>1, CountsTyped
<1>3. Vaults(p)' /\ Vaults(q)'
    BY <1>0, <1>1, <1>2, VaultStands
<1>4. /\ Vaults(p) /\ Opened(p) /\ OnWay(p) /\ Drawn(p) /\ HasState(p) /\ phase[p] = "open"
    BY <1>1, RootsOf, NextOf DEF Linked, Resumes
<1>5. st[p] \in RatchetState /\ disk[p] \in RatchetState
    BY <1>0, <1>4, CountsTyped
<1>6. OnWay(p)' /\ Drawn(p)'
    BY <1>0, <1>1, <1>4 DEF OnWay, Traced, Handed, Drawn
<1> HIDE DEF q
<1>7. CASE op[p].kind = "flush" /\ outbox[p] # <<>>
    <2>1. StartSending(p, st[p], "flush", Head(outbox[p]))
        BY <1>7 DEF Record, FlushNext
    <2>2. disk[p].dhs < nextKey /\ Resumed(st[p], disk[p]) /\ CanSend(st[p])
        BY <1>1, <1>4 DEF Vaults, Resumable, Opened, CanSend
    <2>3. up => Handed(p, st[p].ns)
        BY <1>1, <1>4 DEF Opened
    <2>4. disk'[p].dhs < nextKey' /\ Resumed(st[p], disk'[p])
          /\ (up' => AllHanded(handed', disk'[p].rk, disk'[p].ns, st[p].ns))
        BY <1>1, <2>2, <2>3 DEF Handed
    <2>5. Opened(p)' /\ Poised(p)' /\ UNCHANGED <<st[q], pc[q], op[q]>>
        BY <1>0, <1>1, <1>5, <2>1, <2>2, <2>4, StartNext DEF q
    <2>6. Opened(q)' /\ Poised(q)' /\ OnWay(q)' /\ Drawn(q)'
        BY <1>0, <1>1, <1>2, <2>5, OthersStand
    <2>. QED BY <1>3, <1>6, <2>5, <2>6, NextOfBoth DEF q
<1>8. CASE ~(op[p].kind = "flush" /\ outbox[p] # <<>>)
    <2>1. pc' = [pc EXCEPT ![p] = "recorded"] /\ UNCHANGED <<st, op>>
        BY <1>8 DEF Record
    <2>2. pc'[p] = "recorded" /\ UNCHANGED pc[q]
        BY <1>0, <2>1 DEF TypeOK
    <2>3. Opened(p)' /\ Poised(p)'
        BY <1>1, <1>4, <2>1, <2>2 DEF Opened, Poised, Handed
    <2>4. Opened(q)' /\ Poised(q)' /\ OnWay(q)' /\ Drawn(q)'
        BY <1>0, <1>1, <1>2, <2>1, <2>2, OthersStand
    <2>. QED BY <1>3, <1>6, <2>3, <2>4, NextOfBoth DEF q
<1>. QED BY <1>7, <1>8

\* A frame that does not open is gone and nothing else.
LEMMA RefuseNext ==
    ASSUME IInv, RInv, NInv, "handshake" \notin Faults, NEW p \in Party, Refuse(p)
    PROVE  NInv'
<1>0. /\ TypeOK /\ Peer(p) \in Party /\ Peer(p) # p /\ Peer(Peer(p)) = p
    BY OfParty, PeerIsParty
<1>1. /\ chan[p] # <<>> /\ chan' = [chan EXCEPT ![p] = Tail(@)]
      /\ UNCHANGED <<disk, phase, st, pc, op, up, initiator, pake, nextKey, handed>>
    BY DEF Refuse, vault, session
<1>2. chan'[p] = Tail(chan[p]) /\ UNCHANGED chan[Peer(p)] /\ chan[p] \in Seq(Frame)
    BY <1>0, <1>1 DEF TypeOK
<1>3. ToSet(chan'[p]) \subseteq ToSet(chan[p])
    BY <1>1, <1>2, AmongFrames
<1>4. nextKey \in Nat /\ nextKey <= nextKey'
    BY <1>0, <1>1, CountsTyped
<1>5. Vaults(p)' /\ Vaults(Peer(p))'
    BY <1>0, <1>1, <1>4, VaultStands
<1>. QED BY <1>0, <1>1, <1>2, <1>3, <1>4, <1>5, OthersStand, NextOfBoth

\* A link comes, goes, or stays.
LEMMA LinkNext ==
    ASSUME IInv, RInv, NInv, "handshake" \notin Faults,
           (\E i \in Party : Pair(i)) \/ Break \/ UNCHANGED vars
    PROVE  NInv'
<1>0. TypeOK /\ nextKey \in Nat
    BY DEF IInv, TypeOK
<1>1. UNCHANGED <<disk, st, pc, op, chan, handed>>
    BY DEF Pair, Break, vars, vault, session, link
<1>2. nextKey' \in Nat /\ nextKey <= nextKey'
    BY <1>0 DEF Pair, Break, vars, vault, session, link
<1>3. ASSUME NEW q \in Party PROVE Vaults(q)'
    <2>1. UNCHANGED <<initiator, pake>> \/ \A p \in Party : phase[p] = "closed"
        BY DEF Pair, Break, vars, session, link
    <2>. QED BY <1>1, <1>2, <2>1, VaultStands
<1>4. ASSUME NEW q \in Party PROVE Opened(q)' /\ Poised(q)' /\ OnWay(q)' /\ Drawn(q)'
    <2>1. CASE \E i \in Party : Pair(i)
        <3>1. /\ phase[q] = "closed" /\ phase'[q] = "handshake"
              /\ pake' = nextKey /\ nextKey' = nextKey + 3
            BY <2>1 DEF Pair
        <3>2. pake' + 2 < nextKey'
            BY <1>0, <3>1
        <3>3. pc[q] = "idle"
            BY <3>1, RootsOf DEF Linked
        <3>4. Opened(q)' /\ Poised(q)' /\ Drawn(q)'
            BY <1>1, <3>1, <3>2, <3>3 DEF Opened, Poised, Drawn
        <3>5. ASSUME NEW f \in ToSet(chan[Peer(q)]) PROVE Traced(q, f)'
            <4>1. HasState(q)
                BY <3>5, RootsOf DEF Carried, OffStored
            <4>2. disk[q].ns \in Nat /\ disk[q].ns <= disk[q].ns
                BY <1>0, <4>1, CountsTyped
            <4>. QED BY <1>1, <1>2, <4>2, FrameStands
        <3>6. OnWay(q)'
            BY <1>1, <3>5 DEF OnWay
        <3>. QED BY <3>4, <3>6
    <2>2. CASE Break \/ UNCHANGED vars
        <3>1. UNCHANGED <<phase, pake>> /\ (up' = up \/ ~up')
            BY <2>2 DEF Break, vars, session, link
        <3>. QED BY <1>1, <1>2, <3>1, OthersStand
    <2>. QED BY <2>1, <2>2
<1>. QED BY <1>3, <1>4 DEF NInv

\* The state that is saved has only sealed since it was resumed.
LEMMA SaveNext ==
    ASSUME IInv, RInv, NInv, "handshake" \notin Faults, NEW p \in Party, Save(p)
    PROVE  NInv'
<1> DEFINE q == Peer(p)
           s == st[p]
           d == disk[p]
<1>0. /\ TypeOK /\ q \in Party /\ q # p /\ Peer(q) = p
    BY OfParty, PeerIsParty
<1>1. /\ pc[p] = "recorded" /\ disk' = [disk EXCEPT ![p] = s]
      /\ pc' = [pc EXCEPT ![p] = "idle"] /\ op' = [op EXCEPT ![p] = NoState]
      /\ UNCHANGED <<phase, st, chan, up, initiator, pake, nextKey, handed>>
    BY DEF Save, ReleaseLock, link
<1>2. /\ Vaults(p) /\ Opened(p) /\ OnWay(p) /\ Drawn(p) /\ Vaults(q)
      /\ HasState(p) /\ phase[p] = "open"
    BY <1>1, RootsOf, NextOf DEF Linked, Resumes
<1>3. /\ s \in RatchetState /\ s.ns \in Nat /\ s.nr \in Nat
      /\ d \in RatchetState /\ d.ns \in Nat /\ d.nr \in Nat
      /\ nextKey \in Nat /\ nextKey <= nextKey'
      /\ HasState(q) => disk[q] \in RatchetState /\ disk[q].nr \in Nat
    <2>1. \A x \in RatchetState : x.ns \in Nat /\ x.nr \in Nat
        BY DEF RatchetState
    <2>2. s \in RatchetState /\ d \in RatchetState /\ (HasState(q) => disk[q] \in RatchetState)
        BY <1>0, <1>2, CountsTyped
    <2>. QED BY <1>0, <1>1, <2>1, <2>2, CountsTyped
<1>4. /\ disk'[p] = s /\ disk'[q] = disk[q] /\ pc'[p] = "idle" /\ UNCHANGED <<pc[q], op[q]>>
      /\ HasState(p)' /\ (HasState(q)' <=> HasState(q))
    BY <1>0, <1>1, <1>3, NoStateAssumption DEF TypeOK, HasState
<1>5. /\ Resumed(s, d) /\ s.rk = d.rk /\ s.dhs = d.dhs /\ d.ns <= s.ns
      /\ s.ckr = d.ckr /\ s.nr = d.nr
    BY <1>2 DEF Opened, Resumed
<1>6. Resumed(s, s)
    BY <1>3, <1>5, ResumedOn
<1>7. \A m : Handed(q, m) => AllHanded(handed', disk'[q].rk, disk'[q].ns, m)
    BY <1>1, <1>4 DEF Handed
<1>8. Vaults(p)'
    <2>1. Resumable(s, nextKey)
        BY <1>2, <1>5, ResumedPairs DEF Vaults
    <2>2. ASSUME HasState(q)
          PROVE  /\ Paired(s, disk[q], nextKey)
                 /\ s.ckr.root = disk[q].rk => AllHanded(handed', disk'[q].rk, disk'[q].ns, s.nr)
        <3>1. Paired(d, disk[q], nextKey) /\ (d.ckr.root = disk[q].rk => Handed(q, d.nr))
            BY <1>2, <2>2 DEF Vaults, q
        <3>. QED BY <1>5, <1>7, <3>1, ResumedPairs
    <2>3. ASSUME ~HasState(q) PROVE Resumed(s, Seed(p))
        <3>1. Resumed(d, Seed(p)) /\ Seed(p) \in RatchetState
            BY <1>0, <1>2, <2>3, SeedsInStep DEF Vaults, q
        <3>. QED BY <1>3, <1>5, <3>1, ResumedOn
    <2>4. Seed(p)' = Seed(p)
        BY <1>1 DEF Seed
    <2>. QED BY <1>1, <1>4, <2>1, <2>2, <2>3, <2>4 DEF Vaults, Handed, q
<1>9. Vaults(q)'
    <2> SUFFICES ASSUME HasState(q) PROVE Vaults(q)'
        BY <1>4 DEF Vaults
    <2>1. Resumable(disk[q], nextKey) /\ Paired(disk[q], d, nextKey)
          /\ (disk[q].ckr.root = d.rk => Handed(p, disk[q].nr))
        BY <1>0, <1>2 DEF Vaults
    <2>2. Paired(disk[q], s, nextKey)
        <3>1. Paired(d, disk[q], nextKey)
            BY <2>1, PairedTurns
        <3>2. Paired(s, disk[q], nextKey)
            BY <1>5, <3>1, ResumedPairs
        <3>. QED BY <3>2, PairedTurns
    <2>3. disk[q].nr \in Int
        BY <1>3
    <2>4. Handed(p, disk[q].nr) => AllHanded(handed', disk'[p].rk, disk'[p].ns, disk[q].nr)
        <3> DEFINE m == disk[q].nr
        <3>1. m \in Int
            BY <2>3
        <3> HIDE DEF m
        <3>2. Handed(p, m) => AllHanded(handed', disk'[p].rk, disk'[p].ns, m)
            <4>1. AllHanded(handed, d.rk, d.ns, m) => AllHanded(handed', s.rk, s.ns, m)
                BY <1>1, <1>3, <1>5, <3>1, HandedGrows
            <4>. QED BY <1>4, <4>1 DEF Handed
        <3>. QED BY <3>2 DEF m
    <2>. QED BY <1>0, <1>1, <1>4, <1>5, <2>1, <2>2, <2>4 DEF Vaults, Handed
<1>10. Opened(p)' /\ Poised(p)' /\ Drawn(p)'
    <2>1. AllHanded(handed', s.rk, s.ns, s.ns)
        BY <1>3 DEF AllHanded
    <2>. QED BY <1>1, <1>2, <1>4, <1>6, <2>1 DEF Opened, Poised, Drawn, Handed
<1>11. OnWay(p)'
    <2>1. ASSUME NEW f \in ToSet(chan[q]) PROVE Traced(p, f)'
        BY <1>1, <1>3, <1>4, <1>5, <2>1, FrameStands DEF q
    <2>. QED BY <1>1, <2>1 DEF OnWay, q
<1>12. Opened(q)' /\ Poised(q)' /\ OnWay(q)' /\ Drawn(q)'
    BY <1>0, <1>1, <1>3, <1>4, OthersStand
<1>. QED BY <1>8, <1>9, <1>10, <1>11, <1>12, NextOfBoth DEF q

\* A state that can be stored resumes itself.
LEMMA ResumesItself ==
    ASSUME NEW s \in RatchetState, NEW next, Resumable(s, next)
    PROVE  Resumed(s, s) /\ \A H, root : AllHanded(H, root, s.ns, s.ns)
<1>1. s.ns \in Nat /\ s.ns <= s.ns
    BY LengthsTyped
<1>2. Resumed(s, s)
    BY <1>1 DEF Resumed, Resumable
<1>3. \A H, root : AllHanded(H, root, s.ns, s.ns)
    BY <1>1 DEF AllHanded
<1>. QED BY <1>2, <1>3

\* A frame that opens leaves the vaults a pair.
LEMMA AcceptNext ==
    ASSUME IInv, RInv, NInv, "handshake" \notin Faults, NEW p \in Party, Accept(p)
    PROVE  NInv'
<1> DEFINE f == Head(chan[p])
           s == ratchet_decrypt(st[p], f.h, f.mk, nextKey)
           q == Peer(p)
           d == disk[p]
           t == disk[q]
<1>0. /\ TypeOK /\ q \in Party /\ q # p /\ Peer(q) = p /\ Short(st[p])
    BY OfParty, PeerIsParty
<1>1. /\ phase[p] = "open" /\ pc[p] = "idle" /\ chan[p] # <<>>
      /\ chan' = [chan EXCEPT ![p] = Tail(@)] /\ disk' = [disk EXCEPT ![p] = s]
      /\ nextKey' = IF s.dhs = nextKey THEN nextKey + 1 ELSE nextKey
      /\ Opens(st[p], f.h, f.mk, nextKey)
      /\ UNCHANGED <<phase, up, initiator, pake, handed>>
    BY DEF Accept, SavedOnReceipt
<1>2. /\ Resumes(p) /\ Carried(p) /\ Carried(q) /\ Vaults(p) /\ Vaults(q) /\ Opened(p)
      /\ OnWay(p) /\ OnWay(q) /\ HasState(p) /\ Resumed(st[p], d)
    BY <1>0, <1>1, RootsOf, NextOf DEF Resumes, Opened
<1>3. /\ st[p] \in RatchetState /\ d \in RatchetState /\ chan[p] \in Seq(Frame)
      /\ nextKey \in Nat /\ Len(st[p].mkskipped) <= MAX_SKIP_SESSION /\ st[p] # NoState
      /\ (HasState(q) => t \in RatchetState)
    BY <1>0, <1>1, <1>2, CountsTyped, NoStateAssumption DEF Short
<1>4. f \in Frame /\ f \in ToSet(chan[p]) /\ ToSet(Tail(chan[p])) \subseteq ToSet(chan[p])
    BY <1>1, <1>3, AmongFrames
<1>5. HasState(q) /\ Within(f.mk.root, t.rk) /\ Traced(q, f)
    BY <1>0, <1>2, <1>4 DEF Carried, OffStored, OnWay
<1>6. /\ Paired(d, t, nextKey) /\ (d.ckr.root = t.rk => Handed(q, d.nr))
      /\ Paired(t, d, nextKey) /\ (t.ckr.root = d.rk => Handed(p, t.nr))
    BY <1>0, <1>2, <1>5 DEF Vaults
<1>7. Paired(st[p], t, nextKey)
    BY <1>2, <1>6, ResumedPairs
<1>8. /\ s \in RatchetState /\ Paired(s, t, nextKey') /\ nextKey' \in Nat /\ nextKey <= nextKey'
      /\ \/ s.ckr = d.ckr /\ s.nr = d.nr
         \/ s.ckr.root = f.mk.root /\ s.nr = f.mk.n + 1
      /\ \/ s.rk = d.rk /\ s.dhs = d.dhs /\ s.ns = st[p].ns
         \/ Len(s.rk) > Len(t.rk) /\ Len(s.rk) > Len(d.rk) /\ s.dhs = nextKey
    <2>1. Addressed(f, t, nextKey)
        BY <1>5 DEF Traced
    <2>2. st[p].ckr = d.ckr /\ st[p].nr = d.nr /\ st[p].rk = d.rk /\ st[p].dhs = d.dhs
        BY <1>2 DEF Resumed
    <2> DEFINE u == st[p]
    <2>3. /\ u \in RatchetState /\ t \in RatchetState /\ Len(u.mkskipped) <= MAX_SKIP_SESSION
          /\ Paired(u, t, nextKey) /\ Addressed(f, t, nextKey) /\ f \in Frame /\ nextKey \in Nat
          /\ Within(f.mk.root, t.rk) /\ Opens(u, f.h, f.mk, nextKey)
        BY <1>1, <1>3, <1>4, <1>5, <1>7, <2>1
    <2>4. s = ratchet_decrypt(u, f.h, f.mk, nextKey)
        OBVIOUS
    <2> HIDE DEF u, f, t, s
    <2>5. LET then == IF s.dhs = nextKey THEN nextKey + 1 ELSE nextKey
          IN  /\ s \in RatchetState /\ Paired(s, t, then) /\ then \in Nat /\ nextKey <= then
              /\ \/ s.ckr = u.ckr /\ s.nr = u.nr
                 \/ s.ckr.root = f.mk.root /\ s.nr = f.mk.n + 1
              /\ \/ s.rk = u.rk /\ s.dhs = u.dhs /\ s.ns = u.ns
                 \/ Len(s.rk) > Len(t.rk) /\ Len(s.rk) > Len(u.rk) /\ s.dhs = nextKey /\ s.ns = 0
        BY ONLY <2>3, <2>4, ReceivePairs
    <2>. QED BY <1>1, <2>2, <2>5 DEF u
<1>9. \/ StartSending(p, s, "flush", Head(outbox[p])) /\ CanSend(s)
      \/ st' = [st EXCEPT ![p] = s] /\ UNCHANGED <<pc, op>>
    BY DEF Accept, FlushNext
<1> HIDE DEF f, s, q, d, t
<1>10. /\ s # NoState /\ s.ns \in Nat /\ d.ns \in Nat /\ t.nr \in Nat /\ d.ns <= st[p].ns
       /\ Paired(t, s, nextKey') /\ Resumable(s, nextKey') /\ Resumable(t, nextKey')
    <2>1. Paired(t, s, nextKey')
        BY <1>8, PairedTurns
    <2>. QED BY <1>2, <1>3, <1>5, <1>8, <2>1, LengthsTyped, NoStateAssumption DEF Paired, Resumed
<1>11. /\ disk'[p] = s /\ disk'[q] = t /\ HasState(p)' /\ HasState(q)'
       /\ chan'[p] = Tail(chan[p]) /\ UNCHANGED chan[q]
    BY <1>0, <1>1, <1>5, <1>10 DEF TypeOK, HasState, t
<1>12. Vaults(p)'
    <2>1. s.ckr.root = t.rk => Handed(q, s.nr)
        BY <1>5, <1>6, <1>8 DEF Traced, t
    <2>2. \A m : Handed(q, m) => AllHanded(handed', disk'[q].rk, disk'[q].ns, m)
        BY <1>1, <1>11 DEF Handed, t
    <2>. QED BY <1>8, <1>10, <1>11, <2>1, <2>2 DEF Vaults, Handed, q
<1>13. Vaults(q)'
    <2>1. ASSUME t.ckr.root = s.rk PROVE AllHanded(handed', s.rk, s.ns, t.nr)
        <3>1. s.rk = d.rk /\ d.ns <= s.ns
            <4>1. Len(t.ckr.root) <= Len(t.rk) /\ Len(t.rk) \in Nat /\ Len(s.rk) \in Nat
                  /\ Len(t.ckr.root) \in Nat
                BY <1>3, <1>5, <1>8, <1>10, LengthsTyped DEF Resumable
            <4>2. ~(Len(s.rk) > Len(t.rk))
                BY <2>1, <4>1
            <4>. QED BY <1>8, <1>10, <4>2
        <3>2. AllHanded(handed, s.rk, d.ns, t.nr)
            BY <1>6, <2>1, <3>1 DEF Handed, d
        <3>3. t.nr \in Int /\ t.nr <= t.nr
            BY <1>10
        <3>. QED BY <1>1, <1>10, <3>1, <3>2, <3>3, HandedGrows
    <2>. QED BY <1>0, <1>10, <1>11, <2>1 DEF Vaults, Handed
<1>14. Opened(p)' /\ Poised(p)' /\ UNCHANGED <<st[q], pc[q], op[q]>>
    <2>1. Resumed(s, s) /\ AllHanded(handed', s.rk, s.ns, s.ns)
        BY <1>8, <1>10, ResumesItself
    <2>2. CASE StartSending(p, s, "flush", Head(outbox[p])) /\ CanSend(s)
        <3>1. /\ disk'[p] \in RatchetState /\ Resumed(s, disk'[p]) /\ disk'[p].dhs < nextKey'
              /\ AllHanded(handed', disk'[p].rk, disk'[p].ns, s.ns)
            BY <1>8, <1>10, <1>11, <2>1 DEF Resumable
        <3>. QED BY <1>0, <1>8, <2>2, <3>1, StartNext DEF q
    <2>3. CASE st' = [st EXCEPT ![p] = s] /\ UNCHANGED <<pc, op>>
        <3>1. st'[p] = s /\ UNCHANGED st[q] /\ pc'[p] = "idle" /\ UNCHANGED <<pc[q], op[q]>>
            BY <1>0, <1>1, <2>3 DEF TypeOK
        <3>. QED BY <1>11, <2>1, <3>1 DEF Opened, Poised, Handed
    <2>. QED BY <1>9, <2>2, <2>3
<1>15. Drawn(p)'
    BY <1>1 DEF Drawn
<1>16. ASSUME NEW g \in ToSet(chan[q]) PROVE Traced(p, g)'
    <2>1. CASE s.rk = d.rk /\ s.dhs = d.dhs /\ s.ns = st[p].ns
        BY <1>1, <1>8, <1>10, <1>11, <1>16, <2>1, FrameStands DEF q, d
    <2>2. CASE Len(s.rk) > Len(d.rk) /\ s.dhs = nextKey
        <3>1. Addressed(g, d, nextKey) /\ Len(g.mk.root) <= Len(d.rk)
            BY <1>2, <1>16 DEF OnWay, Traced, Carried, OffStored, Within, q, d
        <3>2. g \in Frame
            BY <1>0, <1>16, CountsTyped DEF q
        <3>3. g.h.dh \in Nat /\ Len(g.mk.root) \in Nat /\ Len(d.rk) \in Nat /\ Len(s.rk) \in Nat
            <4>1. g.h.dh \in Nat /\ g.mk.root \in Root
                BY <3>2 DEF Frame, Header, Key, MessageKey, ChainKey
            <4>2. \A x \in Root : Len(x) \in Nat
                BY DEF Root
            <4>. QED BY <1>3, <1>8, <4>1, <4>2, LengthsTyped
        <3>4. g.mk.root # s.rk
            BY <2>2, <3>1, <3>3
        <3>5. g.h.dh # s.dhs /\ g.h.dh < nextKey'
            <4>1. /\ g.h.dh < nextKey /\ g.h.dh \in Nat /\ s.dhs = nextKey /\ nextKey \in Nat
                  /\ nextKey' \in Nat /\ nextKey <= nextKey'
                BY <1>3, <1>8, <2>2, <3>1, <3>3 DEF Addressed
            <4>. QED BY ONLY <4>1
        <3>6. g.h.n = g.mk.n
            BY <3>1 DEF Addressed
        <3>. QED BY <1>11, <3>4, <3>5, <3>6 DEF Traced, Addressed
    <2>. QED BY <1>8, <2>1, <2>2
<1>17. OnWay(p)'
    BY <1>11, <1>16 DEF OnWay, q
<1>18. Opened(q)' /\ Poised(q)' /\ OnWay(q)' /\ Drawn(q)'
    BY <1>0, <1>1, <1>4, <1>8, <1>11, <1>14, OthersStand DEF t
<1>. QED BY <1>12, <1>13, <1>14, <1>15, <1>17, <1>18, NextOfBoth DEF q

\* What the two sides seed on one link is a pair.
LEMMA LinkSeedsPair ==
    ASSUME TypeOK, NEW p \in Party, pake + 2 < nextKey
    PROVE  /\ Paired(Seed(p), Seed(Peer(p)), nextKey)
           /\ Seed(p).ckr = NoChain /\ Seed(Peer(p)).ckr = NoChain
<1> DEFINE a == ratchet_init_alice(pake, pake + 2, pake + 1)
           b == ratchet_init_bob(pake, pake + 1)
<1>1. /\ pake \in Key /\ pake + 1 \in Key /\ pake + 2 \in Key /\ nextKey \in Nat
      /\ pake + 1 < nextKey /\ 0 < pake + 2
    <2>1. pake \in Nat /\ nextKey \in Nat
        BY DEF TypeOK
    <2>. QED BY <2>1 DEF Key
<1>2. Paired(a, b, nextKey) /\ a.ckr = NoChain /\ b.ckr = NoChain
    BY <1>1, SeedsPair
<1>3. \/ p = initiator /\ Peer(p) # initiator
      \/ p # initiator /\ Peer(p) = initiator
    BY PeerIsParty DEF TypeOK
<1>4. \A x : Seed(x) = IF x = initiator THEN a ELSE b
    BY DEF Seed
<1> HIDE DEF a, b
<1>5. Paired(b, a, nextKey)
    BY <1>2, PairedTurns
<1>. QED BY <1>2, <1>3, <1>4, <1>5

\* A session starts with the stored ratchet, or with a seed that pairs with its peer's.
LEMMA HandshakeNext ==
    ASSUME IInv, RInv, NInv, "handshake" \notin Faults, NEW p \in Party, HandshakeDone(p)
    PROVE  NInv'
<1> DEFINE s == ResumedOrSeeded(p)
           q == Peer(p)
           t == disk[q]
<1>0. /\ TypeOK /\ q \in Party /\ q # p /\ Peer(q) = p
    BY OfParty, PeerIsParty
<1>1. /\ phase[p] = "handshake" /\ up /\ phase' = [phase EXCEPT ![p] = "open"]
      /\ disk' = [disk EXCEPT ![p] = s]
      /\ \/ StartSending(p, s, "prime", Prime) /\ CanSend(s)
         \/ st' = [st EXCEPT ![p] = s] /\ UNCHANGED <<pc, op>>
      /\ UNCHANGED <<chan, up, initiator, pake, nextKey, handed>>
    BY DEF HandshakeDone, Primes, link
<1>2. /\ Linked(p) /\ Alone(p) /\ Alone(q) /\ Carried(p) /\ Vaults(p) /\ Vaults(q)
      /\ OnWay(p) /\ Drawn(p) /\ Resumes(q)
    BY <1>0, RootsOf, NextOf
<1>3. /\ Seed(p) \in RatchetState /\ Seed(q) \in RatchetState /\ Seed(p)' = Seed(p)
      /\ Paired(Seed(p), Seed(q), nextKey)
      /\ Seed(p).ckr = NoChain /\ Seed(q).ckr = NoChain
    <2>1. pake + 2 < nextKey
        BY <1>1, <1>2 DEF Drawn
    <2>. QED BY <1>0, <1>1, <2>1, SeedsInStep, LinkSeedsPair DEF Seed
<1>4. /\ s = IF HasState(p) THEN disk[p] ELSE Seed(p)
      /\ s \in RatchetState /\ s # NoState
      /\ nextKey \in Nat /\ nextKey <= nextKey'
      /\ HasState(p) => HasState(q)
      /\ HasState(q) => t \in RatchetState
    <2>1. s = IF HasState(p) THEN disk[p] ELSE Seed(p)
        BY DEF ResumedOrSeeded, HasState
    <2> HIDE DEF s
    <2>2. s \in RatchetState
        BY <1>0, <1>3, <2>1, RootsTyped
    <2>3. HasState(p) => HasState(q)
        BY <1>1, <1>2 DEF Alone, q
    <2>. QED BY <1>0, <1>1, <2>1, <2>2, <2>3, CountsTyped, NoStateAssumption
<1> HIDE DEF s, q, t
<1>5. /\ disk'[p] = s /\ disk'[q] = t /\ HasState(p)' /\ (HasState(q)' <=> HasState(q))
      /\ phase'[p] = "open" /\ phase'[q] = phase[q] /\ pc[p] = "idle"
    BY <1>0, <1>1, <1>2, <1>4 DEF TypeOK, HasState, Linked, t
<1>6. Resumable(s, nextKey)
    BY <1>2, <1>3, <1>4 DEF Vaults, Paired
<1>7. HasState(q) => /\ Paired(s, t, nextKey)
                     /\ s.ckr.root = t.rk => Handed(q, s.nr)
                     /\ t.ckr.root = s.rk => AllHanded(handed, s.rk, s.ns, t.nr)
    <2>1. CASE HasState(p)
        BY <1>0, <1>2, <1>4, <2>1 DEF Vaults, Handed, q, t
    <2>2. CASE ~HasState(p) /\ HasState(q)
        <3>1. Resumed(t, Seed(q)) /\ s = Seed(p) /\ t.ckr = NoChain
            BY <1>0, <1>2, <1>3, <1>4, <2>2 DEF Vaults, Resumed, t
        <3>2. Paired(s, t, nextKey)
            BY <1>3, <3>1, ResumedPairs, PairedTurns
        <3>3. s.rk # <<>> /\ t.rk # <<>> /\ NoChain.root = <<>>
            BY <3>2 DEF Paired, Resumable, NoChain
        <3>. QED BY <1>3, <3>1, <3>2, <3>3
    <2>. QED BY <2>1, <2>2
<1>8. Vaults(p)' /\ Vaults(q)'
    <2>1. Resumed(s, s)
        BY <1>4, <1>6, ResumesItself
    <2>2. ~HasState(q) => Resumed(s, Seed(p)')
        BY <1>3, <1>4, <2>1
    <2>3. \A m : Handed(q, m) => AllHanded(handed', disk'[q].rk, disk'[q].ns, m)
        BY <1>1, <1>5 DEF Handed, t
    <2>4. HasState(q) => Paired(t, s, nextKey) /\ Resumable(t, nextKey)
        BY <1>7, PairedTurns DEF Paired
    <2>5. Vaults(p)'
        BY <1>1, <1>5, <1>6, <1>7, <2>2, <2>3 DEF Vaults, Handed, q
    <2>6. Vaults(q)'
        BY <1>0, <1>1, <1>5, <1>7, <2>4 DEF Vaults, Handed
    <2>. QED BY <2>5, <2>6
<1>9. Opened(p)' /\ Poised(p)' /\ UNCHANGED <<st[q], pc[q], op[q]>>
    <2>1. Resumed(s, s) /\ AllHanded(handed', s.rk, s.ns, s.ns)
        BY <1>4, <1>6, ResumesItself
    <2>2. CASE StartSending(p, s, "prime", Prime) /\ CanSend(s)
        <3>1. /\ disk'[p] \in RatchetState /\ Resumed(s, disk'[p]) /\ disk'[p].dhs < nextKey'
              /\ AllHanded(handed', disk'[p].rk, disk'[p].ns, s.ns)
            BY <1>1, <1>4, <1>5, <1>6, <2>1 DEF Resumable
        <3>. QED BY <1>0, <1>4, <2>2, <3>1, StartNext DEF q
    <2>3. CASE st' = [st EXCEPT ![p] = s] /\ UNCHANGED <<pc, op>>
        <3>1. st'[p] = s /\ UNCHANGED st[q] /\ pc'[p] = "idle" /\ UNCHANGED <<pc[q], op[q]>>
            BY <1>0, <1>5, <2>3 DEF TypeOK
        <3>. QED BY <1>5, <2>1, <3>1 DEF Opened, Poised, Handed
    <2>. QED BY <1>1, <2>2, <2>3
<1>10. Drawn(p)'
    BY <1>5 DEF Drawn
<1>11. OnWay(p)'
    <2>1. ASSUME NEW g \in ToSet(chan[q]) PROVE Traced(p, g)'
        <3>1. HasState(p) /\ Traced(p, g)
            BY <1>2, <2>1 DEF Carried, OffStored, OnWay, q
        <3>. QED BY <1>1, <1>4, <1>5, <3>1 DEF Traced, Handed
    <2>. QED BY <1>1, <2>1 DEF OnWay, q
<1>12. Opened(q)' /\ Poised(q)' /\ OnWay(q)' /\ Drawn(q)'
    BY <1>0, <1>1, <1>4, <1>5, <1>9, OthersStand DEF t
<1>. QED BY <1>8, <1>9, <1>10, <1>11, <1>12, NextOfBoth DEF q

-----------------------------------------------------------------------------
(* How far a chain gets.  A message a client seals is a text its user gave *)
(* or the priming message of a link, so no chain is longer than these are  *)
(* many, whatever is lost of it and sealed again.                          *)

\* Of t texts with k of them waiting, on the l-th link: what may have been sealed.
GivenOf(t, k, l, ph) == t - k + l - (IF ph = "handshake" THEN 1 ELSE 0)
GivenBy(p) == GivenOf(texts[p], Len(outbox[p]), links, phase[p])

Counted(s, b) == s.ns <= b /\ s.pn <= b

Counts(p) ==
    /\ 0 <= GivenBy(p)
    /\ HasState(p) => Counted(disk[p], GivenBy(p))
    /\ phase[p] = "open" => Counted(st[p], GivenBy(p))

CInv == \A p \in Party : Counts(p)

\* Its bound, and what the steps of a link add to it.
LEMMA GivenGrows ==
    ASSUME NEW t \in Nat, NEW k \in Nat, NEW l \in Nat, NEW ph
    PROVE  /\ GivenOf(t, k, l, ph) \in Int /\ GivenOf(t, k, l, ph) <= t + l
           /\ GivenOf(t, 0, l, "closed") \in Int /\ GivenOf(t, k, l, ph) <= GivenOf(t, 0, l, "closed")
           /\ GivenOf(t, k, l, "open") = GivenOf(t, k, l, "handshake") + 1
           /\ GivenOf(t, k, l, "closed") = GivenOf(t, k, l, "handshake") + 1
BY DEF GivenOf

\* A text that waited is sealed.
LEMMA GivenSealed ==
    ASSUME NEW t \in Nat, NEW k \in Nat, NEW l \in Nat, NEW ph, NEW j, j = k - 1
    PROVE  GivenOf(t, j, l, ph) = GivenOf(t, k, l, ph) + 1
BY DEF GivenOf

\* The numbers it is made of.
LEMMA GivenTyped ==
    ASSUME TypeOK, NEW p \in Party
    PROVE  /\ texts[p] \in Nat /\ outbox[p] \in Seq(Nat) /\ Len(outbox[p]) \in Nat /\ links \in Nat
           /\ GivenBy(p) \in Int /\ GivenBy(p) <= MaxTexts + MaxLinks
<1>1. texts[p] \in Nat /\ outbox[p] \in Seq(Nat) /\ Len(outbox[p]) \in Nat
    BY Typed
<1>2. links \in Nat /\ links <= MaxLinks /\ texts[p] <= MaxTexts /\ MaxTexts \in Nat /\ MaxLinks \in Nat
    BY SessionAssumption DEF TypeOK
<1>3. GivenBy(p) \in Int /\ GivenBy(p) <= texts[p] + links
    BY <1>1, <1>2, GivenGrows DEF GivenBy
<1>. QED BY <1>1, <1>2, <1>3

\* A state within one count is within a larger one; sealing takes it one further.
LEMMA CountedOn ==
    ASSUME NEW s \in RatchetState, NEW a \in Int, NEW b \in Int, Counted(s, a)
    PROVE  /\ a <= b => Counted(s, b)
           /\ a + 1 <= b => Counted(ratchet_encrypt(s), b)
<1>1. s.ns \in Nat /\ s.pn \in Nat /\ s.ns <= a /\ s.pn <= a
    BY DEF RatchetState, Counted
<1>2. ratchet_encrypt(s).ns = s.ns + 1 /\ ratchet_encrypt(s).pn = s.pn
    BY EncryptSets
<1>3. a <= b => s.ns <= b /\ s.pn <= b
    BY ONLY <1>1
<1>4. a + 1 <= b => s.ns + 1 <= b /\ s.pn <= b
    BY ONLY <1>1
<1>. QED BY <1>2, <1>3, <1>4 DEF Counted

\* Receiving begins a chain or leaves the one there is.
LEMMA CountedReceiving ==
    ASSUME NEW s \in RatchetState, NEW m, m.h \in Header, NEW fresh \in Key, Numbered(s),
           Len(s.mkskipped) <= MAX_SKIP_SESSION, Opens(s, m.h, m.mk, fresh),
           NEW b \in Int, 0 <= b, Counted(s, b)
    PROVE  Counted(ratchet_decrypt(s, m.h, m.mk, fresh), b)
<1> DEFINE r == ratchet_decrypt(s, m.h, m.mk, fresh)
<1>1. Taken(r, s) \/ Walked(r, s, m, fresh)
    BY DecryptLeaves
<1> HIDE DEF r
<1>2. (r.ns = s.ns /\ r.pn = s.pn) \/ (r.ns = 0 /\ r.pn = s.ns)
    BY <1>1 DEF Taken, Walked, SendsAs, StepsOn
<1>. QED BY <1>2 DEF Counted, r

\* What is counted of a party holds on while its states stand.
LEMMA CountsStand ==
    ASSUME TypeOK, CInv, NEW p \in Party, disk'[p] = disk[p],
           phase'[p] = "open" => phase[p] = "open" /\ st'[p] = st[p],
           GivenBy(p)' \in Int, GivenBy(p) <= GivenBy(p)'
    PROVE  Counts(p)'
<1>1. GivenBy(p) \in Int /\ Counts(p)
    BY GivenTyped DEF CInv
<1>2. 0 <= GivenBy(p)'
    BY <1>1 DEF Counts
<1>3. HasState(p) => Counted(disk[p], GivenBy(p)')
    BY <1>1, CountsTyped, CountedOn DEF Counts
<1>4. phase'[p] = "open" => Counted(st[p], GivenBy(p)')
    BY <1>1, CountsTyped, CountedOn DEF Counts
<1>. QED BY <1>2, <1>3, <1>4 DEF Counts, HasState

\* So it does for who has no part in a step.
LEMMA IdleCounts ==
    ASSUME TypeOK, CInv, NEW p \in Party,
           UNCHANGED <<disk[p], phase[p], st[p], texts[p], outbox[p], links>>
    PROVE  Counts(p)'
<1>1. GivenBy(p)' = GivenBy(p) /\ GivenBy(p) \in Int
    BY GivenTyped DEF GivenBy
<1>. QED BY <1>1, CountsStand

\* A state that is sealed from, or taken up as it is, is within its count.
LEMMA StartCounts ==
    ASSUME TypeOK, NEW p \in Party, NEW s \in RatchetState, disk'[p] = disk[p] \/ disk'[p] = s,
           NEW a \in Int, 0 <= a, Counted(s, a), HasState(p) => Counted(disk[p], a),
           GivenBy(p)' \in Int, a <= GivenBy(p)',
           \/ st'[p] = s
           \/ st'[p] = ratchet_encrypt(s) /\ a + 1 <= GivenBy(p)'
    PROVE  Counts(p)'
<1> DEFINE b == GivenBy(p)'
<1>1. b \in Int /\ a <= b
    OBVIOUS
<1> HIDE DEF b
<1>2. Counted(s, b) /\ (a + 1 <= b => Counted(ratchet_encrypt(s), b)) /\ 0 <= b
    BY <1>1, CountedOn
<1>3. HasState(p) => Counted(disk[p], b)
    BY <1>1, CountsTyped, CountedOn
<1>4. HasState(p)' => Counted(disk'[p], b)
    BY <1>2, <1>3 DEF HasState
<1>5. Counted(st'[p], b)
    BY <1>2 DEF b
<1>. QED BY <1>2, <1>4, <1>5 DEF Counts, b

\* What waits, when a text is added to it or taken from it.
LEMMA WaitingLengths ==
    ASSUME NEW o \in Seq(Nat), NEW n \in Nat
    PROVE  /\ Len(Append(o, n)) = Len(o) + 1 /\ Len(<<>>) = 0
           /\ o # <<>> => Len(Tail(o)) = Len(o) - 1
OBVIOUS

\* The text is one more, sealed or waiting.
LEMMA SendCounts ==
    ASSUME IInv, CInv, NEW p \in Party, Send(p)
    PROVE  CInv'
<1> DEFINE n == texts[p] + 1
           q == Peer(p)
           a == GivenBy(p)
<1>0. TypeOK /\ q \in Party /\ q # p /\ \A x \in Party : x = p \/ x = q
    BY OfParty, PeerIsParty
<1>1. /\ phase[p] = "open" /\ texts' = [texts EXCEPT ![p] = n]
      /\ UNCHANGED <<disk, phase, links>>
    BY DEF Send, link
<1>2. /\ texts[p] \in Nat /\ outbox[p] \in Seq(Nat) /\ Len(outbox[p]) \in Nat /\ links \in Nat
      /\ a \in Int /\ n \in Nat /\ st[p] \in RatchetState /\ Counts(p)
    <2>1. /\ texts[p] \in Nat /\ outbox[p] \in Seq(Nat) /\ Len(outbox[p]) \in Nat /\ links \in Nat
          /\ a \in Int
        BY <1>0, GivenTyped
    <2>2. st[p] \in RatchetState
        BY <1>0, <1>1, CountsTyped
    <2>3. Counts(p)
        BY DEF CInv
    <2>. QED BY <2>1, <2>2, <2>3
<1>3. texts'[p] = n /\ texts'[q] = texts[q]
    BY <1>0, <1>1 DEF TypeOK
<1>4. /\ GivenOf(n, Len(outbox[p]), links, phase[p]) = a + 1
      /\ GivenOf(n, Len(outbox[p]) + 1, links, phase[p]) = a
    <2> DEFINE x == texts[p]
               k == Len(outbox[p])
    <2>1. x \in Nat /\ k \in Nat /\ links \in Nat /\ n = x + 1
        BY <1>2
    <2> HIDE DEF x, k
    <2>2. /\ GivenOf(x + 1, k, links, phase[p]) = GivenOf(x, k, links, phase[p]) + 1
          /\ GivenOf(x + 1, k + 1, links, phase[p]) = GivenOf(x, k, links, phase[p])
        BY ONLY <2>1 DEF GivenOf
    <2>. QED BY <2>1, <2>2 DEF GivenBy, x, k
<1>5. 0 <= a /\ Counted(st[p], a) /\ (HasState(p) => Counted(disk[p], a))
    BY <1>1, <1>2 DEF Counts
<1> HIDE DEF n, q, a
<1>6. a + 1 \in Int /\ a <= a + 1 /\ a + 1 <= a + 1 /\ a <= a
    BY <1>2
<1>7. CASE CanSend(st[p])
    <2>1. StartSending(p, st[p], "text", n) /\ UNCHANGED outbox
        BY <1>7 DEF Send, n
    <2>2. st'[p] = ratchet_encrypt(st[p]) /\ st'[q] = st[q]
        BY <1>0, <2>1 DEF StartSending, TypeOK
    <2>3. GivenBy(p)' = a + 1
        BY <1>1, <1>3, <1>4, <2>1 DEF GivenBy
    <2>4. Counts(p)'
        BY <1>0, <1>1, <1>2, <1>5, <1>6, <2>2, <2>3, StartCounts
    <2>5. Counts(q)'
        BY <1>0, <1>1, <1>3, <2>1, <2>2, IdleCounts
    <2>. QED BY <1>0, <2>4, <2>5 DEF CInv
<1>8. CASE ~CanSend(st[p])
    <2>1. outbox' = [outbox EXCEPT ![p] = Append(@, n)] /\ UNCHANGED st
        BY <1>8 DEF Send, n
    <2>2. outbox'[p] = Append(outbox[p], n) /\ outbox'[q] = outbox[q]
        BY <1>0, <2>1 DEF TypeOK
    <2>3. GivenBy(p)' = a
        BY <1>1, <1>2, <1>3, <1>4, <2>2, WaitingLengths DEF GivenBy
    <2>4. Counts(p)'
        BY <1>0, <1>1, <1>2, <1>6, <2>1, <2>3, CountsStand DEF a
    <2>5. Counts(q)'
        BY <1>0, <1>1, <1>3, <2>1, <2>2, IdleCounts
    <2>. QED BY <1>0, <2>4, <2>5 DEF CInv
<1>. QED BY <1>7, <1>8

\* Steps that seal nothing, open nothing and end nothing, but may save.
LEMMA QuietCounts ==
    ASSUME IInv, RInv, CInv, NEW p \in Party, Transmit(p) \/ Refuse(p) \/ Save(p)
    PROVE  CInv'
<1>0. TypeOK
    BY OfParty
<1>1. UNCHANGED <<phase, st, texts, outbox, links>>
    BY DEF Transmit, Refuse, Save, session, link
<1>2. ASSUME NEW x \in Party PROVE Counts(x)'
    <2>1. GivenBy(x)' = GivenBy(x) /\ GivenBy(x) \in Int /\ Counts(x)
        BY <1>0, <1>1, GivenTyped DEF GivenBy, CInv
    <2>2. CASE disk'[x] = disk[x]
        BY <1>0, <1>1, <2>2, IdleCounts
    <2>3. CASE disk'[x] # disk[x]
        <3>1. Save(p) /\ pc[p] = "recorded" /\ disk' = [disk EXCEPT ![p] = st[p]]
            BY <2>3 DEF Transmit, Refuse, Save, vault
        <3>2. x = p /\ disk'[x] = st[x]
            BY <1>0, <2>3, <3>1 DEF TypeOK
        <3>3. phase[p] = "open"
            BY <3>1, RootsOf DEF Linked
        <3>. QED BY <1>1, <2>1, <3>2, <3>3 DEF Counts, HasState
    <2>. QED BY <2>2, <2>3
<1>. QED BY <1>2 DEF CInv

\* A link gives a message to come, and a session that ends no longer owes what waited.
LEMMA EndCounts ==
    ASSUME IInv, RInv, CInv, NEW p \in Party,
           SendRaises(p) \/ Disconnect(p) \/ Crash(p) \/ HandshakeFailed(p)
    PROVE  CInv'
<1> DEFINE a == GivenBy(p)
<1>0. /\ TypeOK /\ Peer(p) \in Party /\ Peer(p) # p /\ \A x \in Party : x = p \/ x = Peer(p)
    BY OfParty, PeerIsParty
<1>1. /\ UNCHANGED <<disk, texts, links>>
      /\ \/ UNCHANGED <<phase, st, outbox>>
         \/ Forget(p)
         \/ /\ phase[p] = "handshake" /\ phase' = [phase EXCEPT ![p] = "closed"]
            /\ UNCHANGED <<st, outbox>>
    BY DEF SendRaises, Disconnect, Crash, HandshakeFailed, vault
<1>2. /\ UNCHANGED <<phase[Peer(p)], st[Peer(p)], outbox[Peer(p)]>>
      /\ \/ UNCHANGED <<phase[p], st[p], outbox[p]>>
         \/ phase'[p] = "closed" /\ outbox'[p] = <<>>
         \/ phase[p] = "handshake" /\ phase'[p] = "closed" /\ outbox'[p] = outbox[p]
    BY <1>0, <1>1 DEF Forget, TypeOK
<1>3. Counts(Peer(p))'
    BY <1>0, <1>1, <1>2, IdleCounts
<1>4. GivenBy(p)' \in Int /\ a <= GivenBy(p)'
    <2>1. /\ texts[p] \in Nat /\ Len(outbox[p]) \in Nat /\ links \in Nat /\ a \in Int /\ Len(<<>>) = 0
        BY <1>0, GivenTyped
    <2>2. /\ GivenOf(texts[p], 0, links, "closed") \in Int
          /\ a <= GivenOf(texts[p], 0, links, "closed")
          /\ phase[p] = "handshake" => GivenOf(texts[p], Len(outbox[p]), links, "closed") = a + 1
        <3> DEFINE t == texts[p]
                   k == Len(outbox[p])
        <3>1. t \in Nat /\ k \in Nat /\ links \in Nat /\ a = GivenOf(t, k, links, phase[p])
            BY <2>1 DEF GivenBy
        <3> HIDE DEF t, k, a
        <3>2. /\ GivenOf(t, 0, links, "closed") \in Int
              /\ GivenOf(t, k, links, phase[p]) <= GivenOf(t, 0, links, "closed")
            BY <3>1, GivenGrows
        <3>3. GivenOf(t, k, links, "closed") = GivenOf(t, k, links, "handshake") + 1
            BY <3>1, GivenGrows
        <3>. QED BY <3>1, <3>2, <3>3 DEF t, k
    <2>3. \/ GivenBy(p)' = a
          \/ GivenBy(p)' = GivenOf(texts[p], 0, links, "closed")
          \/ phase[p] = "handshake" /\ GivenBy(p)' = GivenOf(texts[p], Len(outbox[p]), links, "closed")
        BY <1>1, <1>2, <2>1 DEF GivenBy
    <2> HIDE DEF a
    <2>4. a + 1 \in Int /\ a <= a + 1 /\ a <= a
        BY <2>1
    <2>. QED BY <2>1, <2>2, <2>3, <2>4
<1>5. Counts(p)'
    <2>1. phase'[p] = "open" => phase[p] = "open" /\ st'[p] = st[p]
        BY <1>2
    <2>. QED BY <1>0, <1>1, <1>4, <2>1, CountsStand
<1>. QED BY <1>0, <1>3, <1>5 DEF CInv

\* A link that comes is one message more, once its handshake is done.
LEMMA LinkCounts ==
    ASSUME IInv, CInv, (\E i \in Party : Pair(i)) \/ Break \/ UNCHANGED vars
    PROVE  CInv'
<1>0. TypeOK
    BY DEF IInv
<1>1. ASSUME NEW x \in Party PROVE Counts(x)'
    <2>1. CASE \E i \in Party : Pair(i)
        <3>1. /\ phase[x] = "closed" /\ phase'[x] = "handshake" /\ links' = links + 1
              /\ UNCHANGED <<disk, texts, st, outbox>>
            BY <2>1 DEF Pair, vault
        <3>2. GivenBy(x)' = GivenBy(x) /\ GivenBy(x) \in Int
            <4>1. /\ texts[x] \in Nat /\ Len(outbox[x]) \in Nat /\ links \in Nat /\ GivenBy(x) \in Int
                  /\ texts'[x] = texts[x] /\ outbox'[x] = outbox[x]
                BY <1>0, <3>1, GivenTyped
            <4>2. GivenOf(texts[x], Len(outbox[x]), links', "handshake")
                      = GivenOf(texts[x], Len(outbox[x]), links, "closed")
                BY ONLY <3>1, <4>1 DEF GivenOf
            <4>. QED BY <3>1, <4>1, <4>2 DEF GivenBy
        <3>3. GivenBy(x) <= GivenBy(x)' /\ phase'[x] # "open"
            BY <3>1, <3>2
        <3>. QED BY <1>0, <3>1, <3>2, <3>3, CountsStand
    <2>2. CASE Break \/ UNCHANGED vars
        <3>1. UNCHANGED <<disk, phase, st, texts, outbox, links>>
            BY <2>2 DEF Break, vars, vault, session, link
        <3>. QED BY <1>0, <3>1, IdleCounts
    <2>. QED BY <2>1, <2>2
<1>. QED BY <1>1 DEF CInv

\* A flush seals what waited.
LEMMA FlushCounts ==
    ASSUME TypeOK, NEW p \in Party, NEW s \in RatchetState, FlushNext(p, s), outbox[p] # <<>>,
           UNCHANGED <<texts, links, phase>>
    PROVE  /\ GivenBy(p)' = GivenBy(p) + 1 /\ st'[p] = ratchet_encrypt(s)
           /\ UNCHANGED <<st[Peer(p)], outbox[Peer(p)]>>
<1>1. /\ st' = [st EXCEPT ![p] = ratchet_encrypt(s)] /\ outbox' = [outbox EXCEPT ![p] = Tail(@)]
    BY DEF FlushNext, StartSending
<1>2. /\ st'[p] = ratchet_encrypt(s) /\ outbox'[p] = Tail(outbox[p])
      /\ UNCHANGED <<st[Peer(p)], outbox[Peer(p)]>>
    BY <1>1, PeerIsParty DEF TypeOK
<1>3. /\ texts[p] \in Nat /\ outbox[p] \in Seq(Nat) /\ Len(outbox[p]) \in Nat /\ links \in Nat
    BY GivenTyped
<1>4. Len(Tail(outbox[p])) = Len(outbox[p]) - 1
    BY <1>3, WaitingLengths
<1>5. GivenBy(p)' = GivenBy(p) + 1
    BY <1>2, <1>3, <1>4, GivenSealed DEF GivenBy
<1>. QED BY <1>2, <1>5

\* A row is written; a flush seals the next text that waited.
LEMMA RecordCounts ==
    ASSUME IInv, RInv, CInv, NEW p \in Party, Record(p)
    PROVE  CInv'
<1> DEFINE q == Peer(p)
           a == GivenBy(p)
<1>0. TypeOK /\ q \in Party /\ q # p /\ \A x \in Party : x = p \/ x = q
    BY OfParty, PeerIsParty
<1>1. pc[p] = "written" /\ UNCHANGED <<disk, phase, texts, links>>
    BY DEF Record, link
<1>2. phase[p] = "open" /\ Counts(p)
    BY <1>1, RootsOf DEF Linked, CInv
<1>3. st[p] \in RatchetState /\ a \in Int
    BY <1>0, <1>2, CountsTyped, GivenTyped
<1>4. CASE op[p].kind = "flush" /\ outbox[p] # <<>>
    <2>1. FlushNext(p, st[p])
        BY <1>4 DEF Record
    <2>2. GivenBy(p)' = a + 1 /\ st'[p] = ratchet_encrypt(st[p]) /\ UNCHANGED <<st[q], outbox[q]>>
        BY <1>0, <1>1, <1>3, <1>4, <2>1, FlushCounts
    <2>3. 0 <= a /\ Counted(st[p], a) /\ (HasState(p) => Counted(disk[p], a))
        BY <1>2 DEF Counts
    <2> HIDE DEF a, q
    <2>4. a + 1 \in Int /\ a <= a + 1 /\ a + 1 <= a + 1
        BY <1>3
    <2>5. Counts(p)'
        BY <1>0, <1>1, <1>3, <2>2, <2>3, <2>4, StartCounts
    <2>6. Counts(q)'
        BY <1>0, <1>1, <2>2, IdleCounts
    <2>. QED BY <1>0, <2>5, <2>6 DEF CInv
<1>5. CASE ~(op[p].kind = "flush" /\ outbox[p] # <<>>)
    <2>1. UNCHANGED <<st, outbox>>
        BY <1>5 DEF Record
    <2>. QED BY <1>0, <1>1, <2>1, IdleCounts DEF CInv
<1>. QED BY <1>4, <1>5

\* A frame that opens begins a chain or leaves the one there is; a flush may follow.
LEMMA AcceptCounts ==
    ASSUME IInv, RInv, NInv, CInv, NEW p \in Party, Accept(p)
    PROVE  CInv'
<1> DEFINE f == Head(chan[p])
           s == ratchet_decrypt(st[p], f.h, f.mk, nextKey)
           q == Peer(p)
           a == GivenBy(p)
<1>0. TypeOK /\ q \in Party /\ q # p /\ Short(st[p]) /\ \A x \in Party : x = p \/ x = q
    BY OfParty, PeerIsParty
<1>1. /\ phase[p] = "open" /\ chan[p] # <<>> /\ disk' = [disk EXCEPT ![p] = s]
      /\ Opens(st[p], f.h, f.mk, nextKey) /\ UNCHANGED <<phase, texts, links>>
      /\ \/ FlushNext(p, s) /\ outbox[p] # <<>>
         \/ st' = [st EXCEPT ![p] = s] /\ UNCHANGED outbox
    BY DEF Accept, SavedOnReceipt
<1>2. /\ st[p] \in RatchetState /\ a \in Int /\ Numbered(st[p]) /\ nextKey \in Key
      /\ Len(st[p].mkskipped) <= MAX_SKIP_SESSION /\ chan[p] \in Seq(Frame)
    <2>1. st[p] \in RatchetState /\ a \in Int /\ nextKey \in Key /\ chan[p] \in Seq(Frame)
        BY <1>0, <1>1, CountsTyped, GivenTyped DEF Key
    <2>2. HasState(p) /\ Resumable(disk[p], nextKey) /\ Resumed(st[p], disk[p])
        BY <1>1, RootsOf, NextOf DEF Resumes, Vaults, Opened
    <2>3. Numbered(st[p])
        BY <2>2, ResumedPairs DEF Resumable
    <2>4. Len(st[p].mkskipped) <= MAX_SKIP_SESSION
        BY <1>0, <2>1, NoStateAssumption DEF Short
    <2>. QED BY <2>1, <2>3, <2>4
<1>3. f.h \in Header
    <2>1. f \in Frame
        BY <1>1, <1>2, AmongFrames
    <2>. QED BY <1>0, <2>1, RootsTyped
<1>4. 0 <= a /\ Counted(st[p], a)
    BY <1>1 DEF Counts, CInv
<1> HIDE DEF f, a
<1>5. s \in RatchetState /\ Counted(s, a)
    BY <1>1, <1>2, <1>3, <1>4, DecryptTyped, CountedReceiving
<1> HIDE DEF s, q
<1>6. disk'[p] = s /\ disk'[q] = disk[q] /\ (HasState(p) => Counted(disk[p], a))
    BY <1>0, <1>1 DEF TypeOK, Counts, CInv, a
<1>7. /\ \/ GivenBy(p)' = a + 1 /\ st'[p] = ratchet_encrypt(s)
         \/ GivenBy(p)' = a /\ st'[p] = s
      /\ UNCHANGED <<st[q], outbox[q]>>
    <2>1. CASE FlushNext(p, s) /\ outbox[p] # <<>>
        BY <1>0, <1>1, <1>5, <2>1, FlushCounts DEF a, q
    <2>2. CASE st' = [st EXCEPT ![p] = s] /\ UNCHANGED outbox
        BY <1>0, <1>1, <2>2 DEF TypeOK, GivenBy, a
    <2>. QED BY <1>1, <2>1, <2>2
<1>8. a + 1 \in Int /\ a <= a + 1 /\ a + 1 <= a + 1 /\ a <= a
    BY <1>2
<1>9. Counts(p)'
    <2>1. CASE GivenBy(p)' = a + 1 /\ st'[p] = ratchet_encrypt(s)
        BY <1>0, <1>2, <1>4, <1>5, <1>6, <1>8, <2>1, StartCounts
    <2>2. CASE GivenBy(p)' = a /\ st'[p] = s
        BY <1>0, <1>2, <1>4, <1>5, <1>6, <1>8, <2>2, StartCounts
    <2>. QED BY <1>7, <2>1, <2>2
<1>10. Counts(q)'
    BY <1>0, <1>1, <1>6, <1>7, IdleCounts
<1>. QED BY <1>0, <1>9, <1>10 DEF CInv

\* The handshake is done: the priming message may be sealed.
LEMMA HandshakeCounts ==
    ASSUME IInv, RInv, CInv, NEW p \in Party, HandshakeDone(p)
    PROVE  CInv'
<1> DEFINE s == ResumedOrSeeded(p)
           q == Peer(p)
           a == GivenBy(p)
<1>0. TypeOK /\ q \in Party /\ q # p /\ \A x \in Party : x = p \/ x = q
    BY OfParty, PeerIsParty
<1>1. /\ phase[p] = "handshake" /\ phase' = [phase EXCEPT ![p] = "open"]
      /\ disk' = [disk EXCEPT ![p] = s]
      /\ \/ StartSending(p, s, "prime", Prime)
         \/ st' = [st EXCEPT ![p] = s] /\ UNCHANGED <<pc, op>>
      /\ UNCHANGED <<texts, outbox, links>>
    BY DEF HandshakeDone, link
<1>2. /\ a \in Int /\ 0 <= a /\ (HasState(p) => Counted(disk[p], a))
      /\ texts[p] \in Nat /\ Len(outbox[p]) \in Nat /\ links \in Nat
    BY <1>0, GivenTyped DEF CInv, Counts
<1>3. s \in RatchetState /\ Counted(s, a)
    <2>1. Seed(p) \in RatchetState
        BY <1>0, SeedsInStep
    <2>2. Seed(p).ns = 0 /\ Seed(p).pn = 0
        BY DEF Seed, ratchet_init_alice, ratchet_init_bob
    <2>3. s = IF HasState(p) THEN disk[p] ELSE Seed(p)
        BY DEF ResumedOrSeeded, HasState
    <2> HIDE DEF s, a
    <2>. QED BY <1>0, <1>2, <2>1, <2>2, <2>3, CountsTyped DEF Counted
<1>4. /\ disk'[p] = s /\ disk'[q] = disk[q] /\ phase'[p] = "open" /\ phase'[q] = phase[q]
    BY <1>0, <1>1 DEF TypeOK
<1>5. GivenBy(p)' = a + 1
    BY <1>1, <1>2, <1>4 DEF GivenBy, GivenOf
<1> HIDE DEF s, q, a
<1>6. (st'[p] = s \/ st'[p] = ratchet_encrypt(s)) /\ st'[q] = st[q]
    BY <1>0, <1>1 DEF StartSending, TypeOK
<1>7. a + 1 \in Int /\ a <= a + 1 /\ a + 1 <= a + 1
    BY <1>2
<1>8. Counts(p)'
    BY <1>0, <1>2, <1>3, <1>4, <1>5, <1>6, <1>7, StartCounts
<1>9. Counts(q)'
    BY <1>0, <1>1, <1>4, <1>6, IdleCounts
<1>. QED BY <1>0, <1>8, <1>9 DEF CInv

-----------------------------------------------------------------------------
(* What holds on a quiet link.                                             *)

QuietLink == up /\ \A p \in Party : phase[p] = "open" /\ pc[p] = "idle" /\ chan[p] = <<>>

\* The next message of p opens at its peer, is sealed under a key already handed over,
\* or comes after a gap the peer refuses to skip.
NextIsRead(p) ==
    \/ Opens(st[Peer(p)], NextHeader(st[p]), NextSealKey(st[p]), nextKey)
    \/ \E f \in handed : f.mk = NextSealKey(st[p])
    \/ GapTooLong(st[Peer(p)], NextHeader(st[p]), nextKey)

\* The invariants say so of a quiet link.
LEMMA QuietLinkReads ==
    ASSUME IInv, RInv, NInv, QuietLink, NEW p \in Party, CanSend(st[p])
    PROVE  NextIsRead(p)
<1> DEFINE q == Peer(p)
           s == st[q]
           t == st[p]
<1>0. /\ TypeOK /\ q \in Party /\ Peer(q) = p /\ Short(s)
      /\ phase[p] = "open" /\ phase[q] = "open"
    BY OfParty, PeerIsParty DEF QuietLink
<1>1. /\ HasState(p) /\ HasState(q) /\ Vaults(q) /\ Resumed(s, disk[q]) /\ Resumed(t, disk[p])
    BY <1>0, RootsOf, NextOf DEF Resumes, Opened
<1>2. /\ s \in RatchetState /\ t \in RatchetState /\ t.ns \in Nat /\ nextKey \in Nat
      /\ Len(s.mkskipped) <= MAX_SKIP_SESSION
    BY <1>0, CountsTyped, NoStateAssumption DEF Short
<1>3. /\ Paired(disk[q], disk[p], nextKey)
      /\ disk[q].ckr.root = disk[p].rk => Handed(p, disk[q].nr)
    BY <1>0, <1>1 DEF Vaults
<1> HIDE DEF s, t, q
<1>4. Paired(s, t, nextKey)
    <2>1. Paired(disk[p], s, nextKey)
        BY <1>1, <1>3, ResumedPairs, PairedTurns
    <2>. QED BY <1>1, <2>1, ResumedPairs, PairedTurns
<1>5. \/ Opens(s, NextHeader(t), NextSealKey(t), nextKey)
      \/ s.ckr.root = t.rk /\ t.ns < s.nr
      \/ GapTooLong(s, NextHeader(t), nextKey)
    BY <1>2, <1>4, NextOpens DEF t
<1>6. CASE s.ckr.root = t.rk /\ t.ns < s.nr
    <2>1. /\ s.ckr = disk[q].ckr /\ s.nr = disk[q].nr /\ t.rk = disk[p].rk /\ disk[p].ns <= t.ns
          /\ t.cks = [root |-> t.rk, n |-> t.ns]
        BY <1>1 DEF Resumed, CanSend, t
    <2>2. AllHanded(handed, t.rk, disk[p].ns, s.nr)
        BY <1>3, <1>6, <2>1 DEF Handed
    <2>3. \E g \in handed : g.mk = [root |-> t.rk, n |-> t.ns]
        BY <1>2, <1>6, <2>1, <2>2 DEF AllHanded
    <2>. QED BY <2>1, <2>3 DEF NextIsRead, NextSealKey, t
<1>. QED BY <1>5, <1>6 DEF NextIsRead, s, t, q

\* A step keeps the invariants together.
LEMMA NextKeeps ==
    ASSUME "handshake" \notin Faults, IInv, RInv, NInv, CInv, [Next]_vars
    PROVE  NInv' /\ CInv'
<1>1. ASSUME NEW p \in Party, Step(p) PROVE NInv'
    BY <1>1, HandshakeNext, EndNext, TransmitNext, RecordNext, SaveNext, AcceptNext, RefuseNext DEF Step
<1>2. ASSUME NEW p \in Party, Step(p) PROVE CInv'
    BY <1>2, HandshakeCounts, EndCounts, QuietCounts, RecordCounts, AcceptCounts DEF Step
<1>3. NInv'
    BY <1>1, SendNext, EndNext, LinkNext DEF Next
<1>4. CInv'
    BY <1>2, SendCounts, EndCounts, LinkCounts DEF Next
<1>. QED BY <1>3, <1>4

\* At the start there is nothing to say.
LEMMA NextInit == Init => NInv /\ CInv
<1> SUFFICES ASSUME Init, NEW p \in Party
             PROVE  Vaults(p) /\ Opened(p) /\ Poised(p) /\ OnWay(p) /\ Drawn(p) /\ Counts(p)
    BY DEF NInv, CInv
<1>1. /\ phase[p] = "closed" /\ ~HasState(p) /\ pc[p] = "idle" /\ ~up
      /\ ToSet(chan[Peer(p)]) = {}
    BY PeerIsParty DEF Init, HasState, ToSet
<1>2. GivenBy(p) = 0
    BY <1>1 DEF Init, GivenBy, GivenOf
<1>3. 0 <= GivenBy(p)
    BY <1>2
<1>. QED BY <1>1, <1>3 DEF Vaults, Opened, Poised, OnWay, Drawn, Counts

\* On a quiet link the next message is read, or it repeats a key that was handed over, or
\* the gap before it is longer than one header may ask to skip: nothing else that
\* disconnections, crashes and unsaved states do to the two vaults can make a message
\* unreadable (session.py 236-260, 285-332 and 402-431; the limit is ratchet.py 130).
THEOREM QuietLinkIsRead ==
    "handshake" \notin Faults =>
        (Spec => [](QuietLink => \A p \in Party : CanSend(st[p]) => NextIsRead(p)))
<1> SUFFICES ASSUME "handshake" \notin Faults
             PROVE  Spec => [](QuietLink => \A p \in Party : CanSend(st[p]) => NextIsRead(p))
    OBVIOUS
<1>1. IInv /\ RInv /\ NInv => (QuietLink => \A p \in Party : CanSend(st[p]) => NextIsRead(p))
    BY QuietLinkReads
<1>2. IInv /\ RInv /\ NInv /\ CInv /\ [Next]_vars => NInv' /\ CInv'
    BY NextKeeps
<1>3. IInv /\ IInv' /\ RInv /\ [Next]_vars => RInv'
    BY RootsKeep
<1>. QED BY <1>1, <1>2, <1>3, InitHolds, RootsInit, NextInit, StepKeeps, PTL DEF Spec

\* With no more texts and links than a header may ask to skip, no gap is too long: the
\* next message then opens or repeats a key.  (Without that bound the property is false:
\* links may lose more than MAX_SKIP messages of one chain, ratchet.py 72 and 130.)
THEOREM NextOpensOrRepeats ==
    "handshake" \notin Faults /\ MaxTexts + MaxLinks <= MAX_SKIP => (Spec => []NextMessageOpens)
<1> SUFFICES ASSUME "handshake" \notin Faults, MaxTexts + MaxLinks <= MAX_SKIP
             PROVE  Spec => []NextMessageOpens
    OBVIOUS
<1>1. IInv /\ RInv /\ NInv /\ CInv => NextMessageOpens
    <2> SUFFICES ASSUME IInv, RInv, NInv, CInv, QuietLink, NEW p \in Party, CanSend(st[p])
                 PROVE  \/ Opens(st[Peer(p)], NextHeader(st[p]), NextSealKey(st[p]), nextKey)
                        \/ \E f \in handed : f.mk = NextSealKey(st[p])
        BY DEF NextMessageOpens, QuietLink
    <2>1. NextIsRead(p)
        BY QuietLinkReads
    <2> DEFINE q == Peer(p)
               s == st[q]
               t == st[p]
               h == NextHeader(t)
    <2>2. /\ TypeOK /\ q \in Party /\ Short(s) /\ Counts(p)
          /\ phase[p] = "open" /\ phase[q] = "open"
        BY OfParty, PeerIsParty DEF QuietLink, CInv
    <2>3. /\ s \in RatchetState /\ t \in RatchetState /\ nextKey \in Key
          /\ Len(s.mkskipped) <= MAX_SKIP_SESSION /\ GivenBy(p) \in Int
          /\ GivenBy(p) <= MaxTexts + MaxLinks
        BY <2>2, CountsTyped, GivenTyped, NoStateAssumption DEF Short, Key
    <2>4. Numbered(s)
        <3>1. HasState(q) /\ Resumable(disk[q], nextKey) /\ Resumed(s, disk[q])
            BY <2>2, RootsOf, NextOf DEF Resumes, Vaults, Opened
        <3>. QED BY <3>1, ResumedPairs DEF Resumable
    <2>5. t.ns <= GivenBy(p) /\ t.pn <= GivenBy(p)
        BY <2>2 DEF Counts, Counted
    <2> HIDE DEF q, s, t
    <2>6. h \in Header /\ h.pn = t.pn /\ h.n = t.ns
        BY <2>3 DEF NextHeader, Header, RatchetState
    <2>7. h.pn <= MAX_SKIP /\ h.n <= MAX_SKIP
        <3>1. /\ t.ns \in Nat /\ t.pn \in Nat /\ MaxTexts + MaxLinks \in Int /\ MAX_SKIP \in Int
            BY <2>3, SessionAssumption, SkipAssumption DEF RatchetState
        <3>. QED BY <2>3, <2>5, <2>6, <3>1
    <2> HIDE DEF h
    <2>8. ~GapTooLong(s, h, nextKey)
        BY <2>3, <2>4, <2>6, <2>7, ShortGap
    <2>. QED BY <2>1, <2>8 DEF NextIsRead, h, s, t, q
<1>2. IInv /\ RInv /\ NInv /\ CInv /\ [Next]_vars => NInv' /\ CInv'
    BY NextKeeps
<1>3. IInv /\ IInv' /\ RInv /\ [Next]_vars => RInv'
    BY RootsKeep
<1>. QED BY <1>1, <1>2, <1>3, InitHolds, RootsInit, NextInit, StepKeeps, PTL DEF Spec
=============================================================================
