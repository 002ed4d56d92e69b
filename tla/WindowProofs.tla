----------------------------- MODULE WindowProofs -----------------------------
(***************************************************************************)
(* Proofs about Window, for any number of conversations of either kind and *)
(* every setting: what was typed, quoted or dropped for one conversation   *)
(* goes to no other, and what is shown is what is open.                    *)
(*                                                                         *)
(* The window knows a conversation by its row.  So the argument is first   *)
(* about rows: the row that is open holds one conversation as long as it   *)
(* is open (Rows), unless the server takes it away and another gets it.    *)
(***************************************************************************)
EXTENDS Window, TLAPS, FiniteSetTheorems, WellFoundedInduction

\* A row is of a conversation that was made, and of the one it was made for as
\* long as no row is used again; the one that is open stays until it is closed,
\* unless the server takes it.
Rows ==
    /\ \A i \in Id : rows[i] # None => i <= made /\ rows[i] <= made
    /\ ~setting.reused => \A i \in Id : rows[i] # None => rows[i] = i
    /\ current # None => current <= made
    /\ ~setting.kicked /\ current # None => rows[current] # None
    /\ \A m \in pending : setting.modeOf[m] = "centre"

\* Without rows that are used again a text and a view can be told by the row: the
\* input is of the open one, and so is what is shown, where anything is.
Texts ==
    ~setting.leaves /\ ~setting.reused =>
        /\ \A i \in Id : drafts[i] \subseteq {i}
        /\ current # None => field \subseteq {current} /\ view \in {current, None}

\* Where no room is taken away and no invitation barges in, the open conversation
\* is in its tab and on show, and with none open nobody can write.
Shown ==
    ~setting.kicked /\ ~setting.barges =>
        /\ current # None =>
            /\ view = rows[current] /\ setting.modeOf[rows[current]] = mode
            /\ rows[current] \in pending => ~writable
        /\ current = None => page = "empty" \/ ~writable
        /\ page = "over" => current # None /\ mode = "p2p"

IInv == TypeOK /\ Rows /\ Texts /\ Shown /\ ReplyStaysHome /\ FilesGoWhereDropped

-----------------------------------------------------------------------------
(* The highest row, and the next.                                          *)

\* Numbers have a least one.
LEMMA Least ==
    ASSUME NEW T, T \subseteq Nat, T # {}
    PROVE  \E x \in T : \A y \in T : x <= y
<1> DEFINE R == {ss \in Nat \X Nat : ss[1] < ss[2]}
<1>1. IsWellFoundedOn(R, Nat)
    BY NatLessThanWellFounded DEF OpToRel
<1>2. PICK x \in T : \A y \in T : ~ (<<y, x>> \in R)
    <2> HIDE DEF R
    <2> QED BY <1>1, WFMin
<1>3. \A m, n \in Nat : n < m => <<n, m>> \in R
    OBVIOUS
<1>4. ASSUME NEW y \in T PROVE x <= y
    <2> HIDE DEF R
    <2>1. <<y, x>> \notin R
        BY <1>2
    <2>2. x \in Nat /\ y \in Nat
        OBVIOUS
    <2>3. ~ (y < x)
        BY <1>3, <2>1, <2>2
    <2> QED BY <2>2, <2>3
<1> QED BY <1>4

\* Of some numbers up to n there is a greatest, and Max is it.
LEMMA LargestRow ==
    ASSUME NEW S, NEW n \in Nat, S \subseteq 0 .. n, S # {}
    PROVE  Max(S) \in S /\ \A i \in S : i <= Max(S)
<1> DEFINE T == {k \in Nat : \A i \in S : i <= k}
<1>1. n \in T OBVIOUS
<1>2. PICK m \in T : \A k \in T : m <= k
  <2> HIDE DEF T
  <2>1. T \subseteq Nat BY DEF T
  <2> QED BY <1>1, <2>1, Least
<1>3. m \in S
  <2> SUFFICES ASSUME m \notin S PROVE FALSE OBVIOUS
  <2>1. \A i \in S : i \in Nat /\ i < m OBVIOUS
  <2>2. m \in Nat /\ m > 0
    <3>1. PICK i \in S : TRUE OBVIOUS
    <3> QED BY <2>1, <3>1
  <2>3. m - 1 \in T BY <2>1, <2>2
  <2> QED BY <2>2, <2>3, <1>2
<1>4. \E x \in S : \A y \in S : x >= y BY <1>3
<1> QED BY <1>4 DEF Max

\* There are as many rows as conversations that are ever made.
LEMMA RowsAreNumbers ==
    /\ Cardinality(Made) \in Nat /\ Made = Id /\ Id = 1 .. Cardinality(Made)
    /\ None \notin Id
<1>1. Cardinality(Made) \in Nat
    BY WindowAssumption, FS_CardinalityType
<1> QED BY <1>1, WindowAssumption DEF Id

\* The row of the next conversation is free, and it is the next row unless rows are
\* used again.
LEMMA NewRowIsFree ==
    ASSUME TypeOK, Rows, made + 1 \in Made
    PROVE  /\ NewRow \in Id /\ rows[NewRow] = None /\ NewRow <= made + 1
           /\ ~setting.reused => NewRow = made + 1
<1> DEFINE S == {0} \cup {i \in Id : rows[i] # None}
<1>1. S \subseteq 0 .. made /\ made \in Nat /\ S # {}
    BY RowsAreNumbers DEF TypeOK, Rows
<1>2. Max(S) \in S /\ \A i \in S : i <= Max(S)
    <2> HIDE DEF S
    <2> QED BY <1>1, LargestRow
<1>3. Max(S) \in 0 .. made
    BY <1>1, <1>2
<1>4. 1 + Max(S) \in Id /\ 1 + Max(S) <= made + 1
    <2> DEFINE k == Max(S)
    <2>1. k \in 0 .. made
        BY <1>3
    <2> HIDE DEF k
    <2>2. made + 1 <= Cardinality(Made) /\ Cardinality(Made) \in Nat
        <3>1. made + 1 \in 1 .. Cardinality(Made)
            BY RowsAreNumbers
        <3> QED BY <1>1, <3>1, RowsAreNumbers
    <2>3. 1 + k \in 1 .. Cardinality(Made) /\ 1 + k <= made + 1
        BY ONLY <1>1, <2>1, <2>2
    <2> QED BY <2>3, RowsAreNumbers DEF k
<1>5. rows[1 + Max(S)] = None
    <2>1. 1 + Max(S) \notin S
        <3> HIDE DEF S
        <3> QED BY <1>1, <1>2, <1>3
    <2> QED BY <2>1, <1>4
<1>6. made + 1 \in Id /\ rows[made + 1] = None
    BY <1>1, RowsAreNumbers DEF Rows
<1>7. NewRow = IF setting.reused THEN 1 + Max(S) ELSE made + 1
    BY DEF NewRow
<1> HIDE DEF S
<1> QED BY <1>1, <1>4, <1>5, <1>6, <1>7

\* Pictures that are asked for are pictures still.
LEMMA AskedIsTyped ==
    ASSUME NEW m, NEW im \in [Pictured -> States]
    PROVE  Asked(m, im) \in [Pictured -> States]
BY DEF Asked, States

-----------------------------------------------------------------------------
(* The steps.                                                              *)

\* What changes neither rows nor the open conversation leaves the rows as they are.
LEMMA RowsStand ==
    ASSUME IInv, UNCHANGED <<setting, rows, made, pending>>, current' \in {current, None}
    PROVE  Rows'
BY DEF IInv, Rows

\* The user types, answers, or looks at what is over.
LEMMA TypeKeeps ==
    ASSUME IInv, Type
    PROVE  IInv'
<1> USE DEF IInv, Type, vault
<1>1. TypeOK'  BY DEF TypeOK, MadeOrNone
<1>2. Rows'  BY RowsStand
<1>3. Texts'  BY DEF Texts
<1>4. Shown'  BY DEF Shown
<1>5. ReplyStaysHome' /\ FilesGoWhereDropped'
    BY DEF ReplyStaysHome, FilesGoWhereDropped, Here, Kept
<1> QED BY <1>1, <1>2, <1>3, <1>4, <1>5

\* Enter sends what the input holds.
LEMMA SubmitKeeps ==
    ASSUME IInv, Submit
    PROVE  IInv'
<1> USE DEF IInv, Submit, vault
<1>1. TypeOK'  BY AskedIsTyped DEF TypeOK, MadeOrNone, IdOrNone, Show, Here
<1>2. Rows'  BY RowsStand
<1>3. Texts'  BY DEF Texts, Show, Here, Rows, TypeOK, IdOrNone
<1>4. Shown'  BY DEF Shown, Show, Here
<1>5. ReplyStaysHome' /\ FilesGoWhereDropped'
    BY DEF ReplyStaysHome, FilesGoWhereDropped, Here, Kept
<1> QED BY <1>1, <1>2, <1>3, <1>4, <1>5

\* An answer is begun or given up.
LEMMA ReplyKeeps ==
    ASSUME IInv, Reply \/ ClearReply
    PROVE  IInv'
<1> USE DEF IInv, Reply, ClearReply, vault
<1>1. TypeOK'  BY DEF TypeOK, MadeOrNone, IdOrNone, Here
<1>2. Rows'  BY RowsStand
<1>3. Texts' /\ Shown'  BY DEF Texts, Shown
<1>4. ReplyStaysHome' /\ FilesGoWhereDropped'
    BY DEF ReplyStaysHome, FilesGoWhereDropped, Here, Kept
<1> QED BY <1>1, <1>2, <1>3, <1>4

\* The open conversation is left, its text kept with it.
LEMMA CloseKeeps ==
    ASSUME IInv, Close \/ SwitchMode
    PROVE  IInv'
<1> USE DEF IInv, Close, SwitchMode, SwapDraft, vault
<1>1. TypeOK'  BY DEF TypeOK, MadeOrNone, IdOrNone
<1>2. Rows'  BY RowsStand
<1>3. Texts'  BY DEF Texts, TypeOK, IdOrNone
<1>4. Shown'  BY DEF Shown
<1>5. ReplyStaysHome' /\ FilesGoWhereDropped'
    BY DEF ReplyStaysHome, FilesGoWhereDropped, Here, Kept
<1> QED BY <1>1, <1>2, <1>3, <1>4, <1>5

\* What is looked at, dropped or asked for by the user.
LEMMA LookKeeps ==
    ASSUME IInv, ReadHistory \/ Drop \/ PreviewEnds \/ Invite \/ InviteFails
    PROVE  IInv'
<1> USE DEF IInv, ReadHistory, Drop, PreviewEnds, Invite, InviteFails, vault, typing
<1>1. TypeOK'  BY DEF TypeOK, MadeOrNone, IdOrNone, Here
<1>2. Rows'  BY RowsStand
<1>3. Texts'  BY DEF Texts
<1>4. Shown'
    <2>1. CASE ReadHistory
        BY <2>1 DEF Shown, Rows
    <2>2. CASE ~ReadHistory
        BY <2>2 DEF Shown
    <2> QED BY <2>1, <2>2
<1>5. ReplyStaysHome' /\ FilesGoWhereDropped'
    BY DEF ReplyStaysHome, FilesGoWhereDropped, Here, Kept
<1> QED BY <1>1, <1>2, <1>3, <1>4, <1>5

\* A picture that is fetched is shown in the open conversation, and so is a message
\* that came.
LEMMA RenderKeeps ==
    ASSUME IInv,
           \/ \E m \in Pictured : Fetches(m)
           \/ \E i \in Id : Rendered(i)
    PROVE  IInv'
<1> DEFINE Still ==
        UNCHANGED <<setting, vault, mode, current, typing, page, writable, dismissed,
                    preview, inviting>>
    Typed == image' \in [Pictured -> States]
    HereOrAsItWas == view' \in {view, Here} /\ (current = None => view' = view)
<1>1. Still /\ Typed /\ HereOrAsItWas
    <2>1. ASSUME NEW m \in Pictured, Fetched(m) \/ FetchFails(m)
          PROVE  Still /\ Typed /\ HereOrAsItWas
        BY <2>1 DEF Fetched, FetchFails, AsksTheCentre, IInv, TypeOK, States
    <2>2. ASSUME NEW m \in Pictured, MediaReady(m)
          PROVE  Still /\ Typed /\ HereOrAsItWas
        <3>1. Noted(m) \in States
            BY <2>2 DEF MediaReady, Noted, States
        <3>2. [image EXCEPT ![m] = Noted(m)] \in [Pictured -> States]
            BY <3>1 DEF IInv, TypeOK
        <3>3. CASE current = None
            BY <2>2, <3>2, <3>3 DEF MediaReady
        <3>4. CASE current # None
            <4>1. Asked(Here, [image EXCEPT ![m] = Noted(m)]) \in [Pictured -> States]
                BY <3>2, AskedIsTyped
            <4> QED BY <2>2, <3>4, <4>1 DEF MediaReady, Show
        <3> QED BY <3>3, <3>4
    <2>3. ASSUME NEW i \in Id, Rendered(i)
          PROVE  Still /\ Typed /\ HereOrAsItWas
        <3>1. current = i /\ i # None
            BY <2>3, RowsAreNumbers DEF Rendered
        <3> QED BY <2>3, <3>1, AskedIsTyped DEF Rendered, Show, Here, IInv, TypeOK
    <2> QED BY <2>1, <2>2, <2>3 DEF Fetches
<1> USE DEF IInv, vault, typing
<1>2. TypeOK'  BY <1>1 DEF TypeOK, MadeOrNone, IdOrNone, Here
<1>3. Rows'  BY <1>1, RowsStand
<1>4. Texts'  BY <1>1 DEF Texts, Here, Rows, TypeOK, IdOrNone
<1>5. Shown'  BY <1>1 DEF Shown, Here
<1>6. ReplyStaysHome' /\ FilesGoWhereDropped'
    BY <1>1 DEF ReplyStaysHome, FilesGoWhereDropped, Here, Kept
<1> QED BY <1>2, <1>3, <1>4, <1>5, <1>6

\* The channel of the open conversation opens or breaks.
LEMMA P2PStateKeeps ==
    ASSUME IInv, NEW i \in Id, P2PState(i)
    PROVE  IInv'
<1>1. i # None  BY RowsAreNumbers
<1> USE DEF IInv, P2PState, Header, vault, typing
<1>2. TypeOK'  BY <1>1 DEF TypeOK
<1>3. Rows'  BY RowsStand
<1>4. Texts'  BY DEF Texts
<1>5. Shown'  BY <1>1 DEF Shown, Rows
<1>6. ReplyStaysHome' /\ FilesGoWhereDropped'
    BY DEF ReplyStaysHome, FilesGoWhereDropped, Here, Kept
<1> QED BY <1>2, <1>3, <1>4, <1>5, <1>6

\* An invitation is accepted: the open conversation is shown anew.
LEMMA AcceptedKeeps ==
    ASSUME IInv, NEW i \in Id, Accepted(i)
    PROVE  IInv'
<1>1. i # None /\ None \notin Made  BY RowsAreNumbers
<1>2. rows[i] \in pending /\ rows[i] # None /\ setting.modeOf[rows[i]] = "centre"
    BY <1>1, WindowAssumption DEF Accepted, IInv, TypeOK, Rows
<1> USE DEF IInv, Accepted, vault, typing
<1>3. TypeOK'
    <2>1. CASE current = i
        <3>1. rows[i] \in MadeOrNone /\ Asked(rows[i], image) \in [Pictured -> States]
            BY AskedIsTyped DEF TypeOK
        <3> QED BY <1>1, <2>1, <3>1 DEF TypeOK, Show, Header
    <2>2. CASE current # i
        BY <2>2 DEF TypeOK
    <2> QED BY <2>1, <2>2
<1>4. Rows'  BY DEF Rows
<1>5. Texts'  BY <1>1 DEF Texts, Show, Rows
<1>6. Shown'
    <2>1. CASE current = i
        BY <1>1, <1>2, <2>1 DEF Shown, Show, Header
    <2>2. CASE current # i
        BY <2>2 DEF Shown
    <2> QED BY <2>1, <2>2
<1>7. ReplyStaysHome' /\ FilesGoWhereDropped'
    BY DEF ReplyStaysHome, FilesGoWhereDropped, Here, Kept
<1> QED BY <1>3, <1>4, <1>5, <1>6, <1>7

\* A conversation is deleted, wiped, declined or taken away, and closed with it.
LEMMA LossKeeps ==
    ASSUME IInv,
           \/ LogoutWipes
           \/ \E i \in Id : Delete(i) \/ RoomForgotten(i) \/ Declined(i)
    PROVE  IInv'
<1> DEFINE
    Still == UNCHANGED <<setting, made, pending, mode, typing, writable, dismissed,
                         preview, inviting, image>>
    Fewer == rows' \in [Id -> MadeOrNone] /\ \A j \in Id : rows'[j] \in {rows[j], None}
    Lives == current' \in {current, None}
             /\ (~setting.kicked /\ current' # None => rows'[current] = rows[current])
    Empties == current' = None /\ view' = None /\ page' = "empty"
    Looks == view' = view /\ page' = page
             /\ (current' = current \/ (current # None /\ rows[current] \in pending))
    Loses == Still /\ Fewer /\ Lives /\ (Empties \/ Looks)
<1>1. Loses
    <2> USE RowsAreNumbers DEF IInv, TypeOK, IdOrNone, MadeOrNone, vault, typing
    <2>1. CASE LogoutWipes
        BY <2>1 DEF LogoutWipes
    <2>2. ASSUME NEW i \in Id, Delete(i) PROVE Loses
        BY <2>2 DEF Delete
    <2>3. ASSUME NEW i \in Id, RoomForgotten(i) PROVE Loses
        BY <2>3 DEF RoomForgotten
    <2>4. ASSUME NEW i \in Id, Declined(i) PROVE Loses
        BY <2>4 DEF Declined
    <2> QED BY <2>1, <2>2, <2>3, <2>4
<1> USE DEF IInv, typing
<1>2. TypeOK'
    <2>1. \A i, j \in Id : rows'[i] = rows'[j] /\ rows'[i] # None => i = j
        BY <1>1 DEF TypeOK
    <2>2. page' = "empty" => current' = None
        BY <1>1 DEF TypeOK
    <2> QED BY <1>1, <2>1, <2>2 DEF TypeOK, IdOrNone, MadeOrNone
<1>3. Rows'
    BY <1>1, RowsAreNumbers DEF Rows, TypeOK, IdOrNone
<1>4. Texts'  BY <1>1 DEF Texts
<1>5. Shown'
    <2> SUFFICES ASSUME ~setting.kicked, ~setting.barges
                 PROVE  /\ current' # None =>
                            /\ view' = rows'[current'] /\ setting.modeOf[rows'[current']] = mode
                            /\ rows'[current'] \in pending => ~writable
                        /\ current' = None => page' = "empty" \/ ~writable
                        /\ page' = "over" => current' # None /\ mode = "p2p"
        BY <1>1 DEF Shown
    <2>1. CASE Empties
        BY <2>1
    <2>2. CASE Looks
        BY <1>1, <2>2 DEF Shown, Rows
    <2> QED BY <1>1, <2>1, <2>2
<1>6. Here' \in {Here, None}
    BY <1>1, RowsAreNumbers DEF Here, TypeOK, IdOrNone
<1>7. ReplyStaysHome' /\ FilesGoWhereDropped'
    BY <1>1, <1>6 DEF ReplyStaysHome, FilesGoWhereDropped, Kept
<1> QED BY <1>2, <1>3, <1>4, <1>5, <1>7

\* A conversation that is made takes a free row, of nobody's.
Grown ==
    /\ rows' \in [Id -> MadeOrNone] /\ made' \in 0 .. Cardinality(Made) /\ pending' = pending
    /\ made <= made'
    /\ \A i \in Id : rows[i] # None => rows'[i] = rows[i]
    /\ \A i, j \in Id : rows'[i] = rows'[j] /\ rows'[i] # None => i = j
    /\ \A i \in Id : rows'[i] # None => i <= made' /\ rows'[i] <= made'
    /\ ~setting.reused =>
          \A i \in Id : rows'[i] # None => rows'[i] = i /\ (rows[i] = None => i > made)

\* Making a conversation is no harm to those there are.
LEMMA MakesRowGrows ==
    ASSUME TypeOK, Rows, MakesRow
    PROVE  Grown /\ NewRow \in Id /\ rows'[NewRow] = made + 1
<1> DEFINE n == NewRow
<1>1. /\ n \in Id /\ rows[n] = None /\ n <= made + 1
      /\ ~setting.reused => n = made + 1
    BY NewRowIsFree DEF MakesRow
<1>2. /\ made + 1 \in Made /\ made' = made + 1 /\ pending' = pending
      /\ rows' = [rows EXCEPT ![n] = made + 1]
    BY DEF MakesRow
<1> HIDE DEF n
<1>3. made \in Nat /\ made + 1 \in 0 .. Cardinality(Made)
    <2>1. made + 1 \in 1 .. Cardinality(Made)
        BY <1>2, RowsAreNumbers
    <2>2. made \in Nat
        BY RowsAreNumbers DEF TypeOK
    <2> QED BY <2>1, <2>2
<1>4. rows'[n] = made + 1 /\ \A i \in Id : i # n => rows'[i] = rows[i]
    BY <1>1, <1>2 DEF TypeOK
<1>5. \A i \in Id : rows[i] # None => rows[i] \in Nat /\ rows[i] <= made
    BY RowsAreNumbers DEF TypeOK, Rows, MadeOrNone
<1>6. \A i, j \in Id : rows'[i] = rows'[j] /\ rows'[i] # None => i = j
    BY <1>3, <1>4, <1>5 DEF TypeOK
<1>7. \A i \in Id : i \in Nat
    BY RowsAreNumbers
<1>8. \A i \in Id : rows'[i] # None => i <= made' /\ rows'[i] <= made'
    BY <1>1, <1>2, <1>3, <1>4, <1>5, <1>7 DEF Rows
<1>9. ~setting.reused =>
          \A i \in Id : rows'[i] # None => rows'[i] = i /\ (rows[i] = None => i > made)
    BY <1>1, <1>3, <1>4, <1>7 DEF Rows
<1>10. rows' \in [Id -> MadeOrNone]
    BY <1>2 DEF TypeOK, MadeOrNone
<1> QED BY <1>1, <1>2, <1>3, <1>4, <1>6, <1>8, <1>9, <1>10 DEF Grown, n

\* Nor is making none.
LEMMA SameRowsGrow ==
    ASSUME TypeOK, Rows, UNCHANGED vault
    PROVE  Grown
BY RowsAreNumbers DEF TypeOK, Rows, Grown, vault

\* A new room of the centre is not shown before it is selected.
LEMMA RoomAppearsKeeps ==
    ASSUME IInv, RoomAppears
    PROVE  IInv'
<1>1. Grown
    BY MakesRowGrows DEF IInv, RoomAppears
<1> USE DEF IInv, RoomAppears, typing
<1>2. TypeOK'  BY <1>1 DEF TypeOK, Grown
<1>3. Rows'  BY <1>1, RowsAreNumbers DEF Rows, TypeOK, IdOrNone, Grown
<1>4. Texts'  BY <1>1 DEF Texts
<1>5. Shown'  BY <1>1 DEF Shown, Rows, Grown, TypeOK, IdOrNone
<1>6. Kept => Here' = Here
    BY <1>1, RowsAreNumbers DEF Here, Kept, Rows, Grown, TypeOK, IdOrNone
<1>7. ReplyStaysHome' /\ FilesGoWhereDropped'
    BY <1>6 DEF ReplyStaysHome, FilesGoWhereDropped, Kept
<1> QED BY <1>2, <1>3, <1>4, <1>5, <1>7

\* Conversation i, new or not, is opened: from the list or by an invitation, which
\* swaps the texts, or by a channel that begins, which does not.
LEMMA OpeningKeeps ==
    ASSUME IInv, NEW i \in Id, NEW gone,
           Grown, rows'[i] # None, Show(rows'[i], image), Header(i, mode, gone),
           UNCHANGED <<setting, mode, preview>>, inviting' \in BOOLEAN,
           ~setting.barges => preview = None /\ setting.modeOf[rows'[i]] = mode,
           \/ Opens(i)
           \/ /\ UNCHANGED <<typing, dismissed>> /\ current' = i /\ preview = None
              /\ mode = "p2p" /\ ((current = None /\ field = {}) \/ setting.leaves)
    PROVE  IInv'
<1>1. i # None /\ current' = i /\ view' = rows'[i] /\ image' \in [Pictured -> States]
    BY RowsAreNumbers, AskedIsTyped DEF Opens, Show, IInv, TypeOK
<1>2. rows'[i] \in Made
    BY DEF Grown, MadeOrNone
<1> USE DEF IInv
<1>3. /\ field' \subseteq Made /\ drafts' \in [Id -> SUBSET Made] /\ reply' \in MadeOrNone
      /\ dismissed' \in IdOrNone
    BY DEF Opens, SwapDraft, typing, TypeOK, IdOrNone, MadeOrNone
<1>4. page' \in {"chat", "over"} /\ writable' \in BOOLEAN
    BY <1>1 DEF Header, TypeOK
<1>5. TypeOK'
    BY <1>1, <1>2, <1>3, <1>4 DEF TypeOK, Grown, IdOrNone, MadeOrNone
<1>6. Rows'
    BY <1>1 DEF Grown, Rows
<1>7. Texts'
    <2> SUFFICES ASSUME ~setting.leaves, ~setting.reused
                 PROVE  /\ \A j \in Id : drafts'[j] \subseteq {j}
                        /\ field' \subseteq {i} /\ view' = i
        BY <1>1 DEF Texts
    <2>1. view' = i
        BY <1>1 DEF Grown
    <2>2. CASE Opens(i)
        BY <1>1, <2>1, <2>2 DEF Opens, SwapDraft, typing, Texts, TypeOK, IdOrNone
    <2>3. CASE UNCHANGED typing /\ field = {}
        BY <2>1, <2>3 DEF typing, Texts
    <2> QED BY <2>1, <2>2, <2>3
<1>8. Shown'
    BY <1>1, <1>4 DEF Shown, Header, Grown, Rows
<1>9. ReplyStaysHome'
    <2> SUFFICES ASSUME Kept, mode = "centre", reply' # None
                 PROVE  reply' = rows'[i]
        BY <1>1 DEF ReplyStaysHome, Here, Kept
    <2>1. current = i /\ reply' = reply
        BY DEF Opens, typing
    <2>2. rows[i] # None
        BY <1>1, <2>1, RowsAreNumbers DEF Kept, Rows, Grown, TypeOK
    <2> QED BY <1>1, <2>1, <2>2 DEF ReplyStaysHome, Here, Grown
<1>10. FilesGoWhereDropped'
    BY DEF FilesGoWhereDropped, Kept
<1> QED BY <1>5, <1>6, <1>7, <1>8, <1>9, <1>10

\* A click in the list opens a conversation of the tab.
LEMMA SelectKeeps ==
    ASSUME IInv, NEW i \in Id, Select(i)
    PROVE  IInv'
<1>1. Grown /\ rows' = rows
    BY SameRowsGrow DEF Select, IInv, vault
<1>2. inviting' \in BOOLEAN
    BY DEF Select, IInv, TypeOK
<1>3. rows'[i] # None /\ setting.modeOf[rows'[i]] = mode /\ Show(rows'[i], image)
    BY <1>1 DEF Select, Show
<1> QED BY <1>1, <1>2, <1>3, OpeningKeeps DEF Select, Free

\* A channel is begun, with a new conversation or one there is.
LEMMA BeginKeeps ==
    ASSUME IInv, Begin
    PROVE  IInv'
<1>1. PICK i \in Id :
        /\ \/ rows[i] # None /\ setting.modeOf[rows[i]] = "p2p" /\ UNCHANGED vault
           \/ i = NewRow /\ MakesRow /\ setting.modeOf[made + 1] = "p2p"
        /\ current' = i
        /\ Show(rows'[i], image) /\ Header(i, mode, dismissed)
    BY DEF Begin
<1>2. Grown /\ rows'[i] # None /\ setting.modeOf[rows'[i]] = "p2p"
    BY <1>1, SameRowsGrow, MakesRowGrows, WindowAssumption DEF IInv, vault, MakesRow
<1>3. inviting' \in BOOLEAN
    BY DEF Begin, IInv, TypeOK
<1> QED BY <1>1, <1>2, <1>3, OpeningKeeps DEF Begin, Free

\* The dialog of an invitation that was sent is opened.
LEMMA InviteDoneKeeps ==
    ASSUME IInv, InviteDone
    PROVE  IInv'
<1>1. PICK i \in Id :
        /\ \/ rows[i] # None /\ setting.modeOf[rows[i]] = "centre" /\ UNCHANGED vault
           \/ i = NewRow /\ MakesRow /\ setting.modeOf[made + 1] = "centre"
        /\ Opens(i)
        /\ Show(rows'[i], image) /\ Header(i, mode, None)
    BY DEF InviteDone
<1>2. Grown /\ rows'[i] # None /\ setting.modeOf[rows'[i]] = "centre"
    BY <1>1, SameRowsGrow, MakesRowGrows, WindowAssumption DEF IInv, vault, MakesRow
<1> QED BY <1>1, <1>2, OpeningKeeps DEF InviteDone, Free

-----------------------------------------------------------------------------
\* When the window opens nothing is open in it.
LEMMA InitHolds == Init => IInv
<1> SUFFICES ASSUME Init PROVE IInv  OBVIOUS
<1>1. Cardinality(AtFirst) \in 0 .. Cardinality(Made)
    <2>1. IsFiniteSet(Made) /\ AtFirst \subseteq Made  BY WindowAssumption
    <2>2. IsFiniteSet(AtFirst) /\ Cardinality(AtFirst) <= Cardinality(Made)
        BY <2>1, FS_Subset
    <2>3. Cardinality(AtFirst) \in Nat /\ Cardinality(Made) \in Nat
        BY <2>1, <2>2, FS_CardinalityType
    <2> QED BY <2>2, <2>3
<1>2. \A i \in Id : rows[i] # None => i \in AtFirst /\ rows[i] = i
    BY DEF Init
<1>3. TypeOK
    <2>1. \A i, j \in Id : rows[i] = rows[j] /\ rows[i] # None => i = j
        BY <1>2
    <2>2. rows \in [Id -> MadeOrNone]
        BY RowsAreNumbers DEF Init, MadeOrNone
    <2> QED BY <1>1, <2>1, <2>2 DEF Init, TypeOK, MadeOrNone, IdOrNone, States
<1>4. \A i \in Id : rows[i] # None => i <= made /\ rows[i] <= made
    <2>1. \A i \in AtFirst : i <= Cardinality(AtFirst)
        BY <1>1, WindowAssumption
    <2> QED BY <1>2, <2>1 DEF Init
<1>5. Rows  BY <1>2, <1>4 DEF Init, Rows
<1>6. Texts /\ Shown /\ ReplyStaysHome /\ FilesGoWhereDropped
    BY DEF Init, Texts, Shown, ReplyStaysHome, FilesGoWhereDropped
<1> QED BY <1>3, <1>5, <1>6 DEF IInv

\* Whatever the user clicks and the other threads bring keeps the invariant.
LEMMA StepKeeps == IInv /\ [Next]_vars => IInv'
<1> SUFFICES ASSUME IInv, [Next]_vars PROVE IInv'  OBVIOUS
<1>1. CASE UNCHANGED vars
    BY <1>1 DEF vars, IInv, TypeOK, Rows, Texts, Shown, ReplyStaysHome,
                FilesGoWhereDropped, Here, Kept
<1>2. CASE Next
    <2>1. CASE Type \/ Submit \/ Reply \/ ClearReply \/ Close \/ SwitchMode
        BY <2>1, TypeKeeps, SubmitKeeps, ReplyKeeps, CloseKeeps
    <2>2. CASE ReadHistory \/ Drop \/ PreviewEnds \/ Invite \/ InviteFails
        BY <2>2, LookKeeps
    <2>3. CASE Begin \/ InviteDone \/ RoomAppears
        BY <2>3, BeginKeeps, InviteDoneKeeps, RoomAppearsKeeps
    <2>4. CASE LogoutWipes \/ \E i \in Id : Delete(i) \/ RoomForgotten(i) \/ Declined(i)
        BY <2>4, LossKeeps
    <2>5. CASE \E i \in Id : Select(i) \/ Accepted(i) \/ P2PState(i)
        BY <2>5, SelectKeeps, AcceptedKeeps, P2PStateKeeps
    <2>6. CASE (\E m \in Pictured : Fetches(m)) \/ (\E i \in Id : Rendered(i))
        BY <2>6, RenderKeeps
    <2> QED BY <1>2, <2>1, <2>2, <2>3, <2>4, <2>5, <2>6 DEF Next
<1> QED BY <1>1, <1>2

\* It holds of every state the window reaches.
LEMMA Invariant == Spec => []IInv
BY InitHolds, StepKeeps, PTL DEF Spec

\* What was typed, quoted or dropped for one conversation never goes to another,
\* each under the conditions that main_window.py needs (_swap_draft, _on_select,
\* _on_reply_requested, _on_send_file, _begin_p2p_connect, _on_invite_done).
THEOREM NothingGoesAstray == Spec => []GoesWhereMeant
<1>1. IInv => GoesWhereMeant
    <2> SUFFICES ASSUME IInv, ~setting.leaves, ~setting.reused, Here # None
                 PROVE  /\ field \subseteq {Here}
                        /\ \A i \in Id : rows[i] # None => drafts[i] \subseteq {rows[i]}
        BY DEF IInv, GoesWhereMeant, TextStaysHome
    <2>1. current # None /\ current \in Id /\ Here = rows[current]
        BY DEF Here, IInv, TypeOK, IdOrNone
    <2> QED BY <2>1 DEF IInv, Rows, Texts
<1> QED BY <1>1, Invariant, PTL

\* Who can write sees the conversation that is open, in the tab where it is listed
\* (_show_messages, _update_chat_header, _on_select).
THEOREM OpenIsOnShow == Spec => []ShownIsOpen
<1>1. IInv => ShownIsOpen
    BY RowsAreNumbers DEF IInv, ShownIsOpen, Shown, Rows, Here, TypeOK
<1> QED BY <1>1, Invariant, PTL
=============================================================================
