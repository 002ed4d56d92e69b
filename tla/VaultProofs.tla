----------------------------- MODULE VaultProofs -----------------------------
(***************************************************************************)
(* Proofs about Vault, for every list of migrations, every threshold and   *)
(* any number of crashes.  The invariant IInv says what the files hold at  *)
(* each place the program can be in; what the three properties say of a    *)
(* closed or an open vault follows from it.                                *)
(***************************************************************************)
EXTENDS Vault, TLAPS

Db == [key : Key \cup {Zeroed}, version : Version, applied : SUBSET Statement]

\* What lies on disk at each place of the program.
Placed ==
    /\ pc \in {"creating", "created"} => db # NoFile /\ meta = NoFile
    /\ pc \in {"failing", "resetting", "migrating", "open", "rekeyed", "wiping"}
           => db # NoFile /\ meta # NoFile
    /\ pc = "wiped" => db = NoFile /\ meta # NoFile
    /\ pc = "resetting" => db.key = mem
    /\ pc \in {"resetting", "migrating", "open"} => mem.salt = meta.salt

\* migrate stands between two statements of the version after the database's, and
\* has nothing under way once it has reached the release.
Progress ==
    /\ Migrating =>
        /\ at.v = db.version
        /\ at.v >= release => at.i = 0
        /\ at.v < release => at.i <= Len(Migrations[at.v + 1])
    /\ pc \in {"created", "open", "rekeyed"} =>
        db.version >= release /\ Columns(release) \subseteq db.applied

\* As long as no crash was costly: a closed vault has the salt of its key, and no
\* statement was run that the version or the migration under way does not count.
Intact ==
    ~Harmed =>
        /\ pc = "closed" => \/ db = NoFile /\ meta = NoFile
                            \/ Readable /\ db.key.salt = meta.salt
        /\ pc = "failing" => Readable /\ db.key.salt = meta.salt
        /\ db # NoFile /\ ~Migrating => db.applied \subseteq UpTo(db.version)
        /\ Migrating => db.applied \subseteq UpTo(at.v) \cup ({at.v + 1} \X (1 .. at.i))

\* Every wrong password is in the sidecar, but for one that is about to be written
\* and one for each crash before it was.
Counted ==
    /\ pc = "resetting" => guesses = 0
    /\ meta # NoFile =>
        /\ WipeEnabled => meta.failed < Threshold
        /\ guesses <= meta.failed + Len(crashes)
                      + IF pc \in {"failing", "wiping", "wiped"} THEN 1 ELSE 0

IInv == TypeOK /\ Placed /\ Progress /\ Intact /\ Counted

-----------------------------------------------------------------------------
(* What the operators say.                                                 *)

\* A database that is there is a record; so is a sidecar, and a key is no mark.
LEMMA Contents ==
    ASSUME TypeOK
    PROVE  /\ db # NoFile => db \in Db
           /\ \A d \in Db : d # NoFile
           /\ meta # NoFile => meta \in Sidecar
           /\ \A m \in Sidecar : m # NoFile
           /\ \A k \in Key : k # Zeroed
<1>1. \A k \in Key : k # Zeroed
    BY VaultAssumption DEF Key, Salt
<1>2. \A m \in Sidecar : m # NoFile
    BY VaultAssumption DEF Sidecar, Salt
<1>3. Db \subseteq [key : [pw : Password, salt : Nat] \cup {Zeroed}, version : Nat,
                    applied : SUBSET (Nat \X Nat)]
    <2>1. Key \subseteq [pw : Password, salt : Nat]
        BY DEF Key, Salt
    <2>2. Version \subseteq Nat
        BY DEF Version
    <2>3. Statement \subseteq Nat \X Nat
        BY VaultAssumption DEF Statement, UpTo, StatementsOf
    <2>. QED BY <2>1, <2>2, <2>3 DEF Db
<1>4. \A d \in Db : d # NoFile
    BY <1>3, VaultAssumption
<1>. QED BY <1>1, <1>2, <1>4 DEF TypeOK, Db

\* The statements up to the next version, and those of the present one.
LEMMA UpToNext ==
    ASSUME NEW v \in Nat, v < Len(Migrations)
    PROVE  /\ v \in Version /\ v + 1 \in Version
           /\ UpTo(v + 1) = UpTo(v) \cup ({v + 1} \X (1 .. Len(Migrations[v + 1])))
           /\ UpTo(v + 1) \subseteq Statement
           /\ Len(Migrations[v + 1]) \in Nat
<1>1. v + 1 \in 1 .. Len(Migrations) /\ Migrations[v + 1] \in Seq({"create", "column"})
    BY VaultAssumption
<1>2. DOMAIN Migrations[v + 1] = 1 .. Len(Migrations[v + 1])
    BY <1>1
<1>3. 1 .. (v + 1) = (1 .. v) \cup {v + 1}
    OBVIOUS
<1>4. UpTo(v + 1) = UpTo(v) \cup StatementsOf(v + 1)
    BY <1>3 DEF UpTo
<1>5. 1 .. (v + 1) \subseteq 1 .. Len(Migrations)
    BY VaultAssumption
<1>. QED BY <1>1, <1>2, <1>4, <1>5 DEF StatementsOf, UpTo, Statement, Version

\* A later version has the statements of an earlier one.
LEMMA UpToGrows ==
    ASSUME NEW v \in Version, NEW w \in Version, v <= w
    PROVE  UpTo(v) \subseteq UpTo(w) /\ UpTo(w) \subseteq Statement /\ Columns(v) \subseteq UpTo(v)
<1>1. Len(Migrations) \in Nat
    BY VaultAssumption
<1>2. 1 .. v \subseteq 1 .. w /\ 1 .. w \subseteq 1 .. Len(Migrations)
    BY <1>1 DEF Version
<1>. QED BY <1>2 DEF UpTo, Statement, Columns

\* A sequence with one more element.
LEMMA Appended ==
    ASSUME NEW S, NEW q \in Seq(S), NEW e \in S
    PROVE  /\ Append(q, e) \in Seq(S) /\ Len(Append(q, e)) = Len(q) + 1
           /\ \A i \in DOMAIN q : i \in DOMAIN Append(q, e) /\ Append(q, e)[i] = q[i]
           /\ Len(q) + 1 \in DOMAIN Append(q, e) /\ Append(q, e)[Len(q) + 1] = e
OBVIOUS

\* What a change of one field of the database leaves.
LEMMA DbChanged ==
    ASSUME NEW d \in Db
    PROVE  /\ d.key \in Key \cup {Zeroed} /\ d.version \in Version /\ d.applied \subseteq Statement
           /\ \A k \in Key \cup {Zeroed} : LET n == [d EXCEPT !.key = k] IN
                n \in Db /\ n.key = k /\ n.version = d.version /\ n.applied = d.applied
           /\ \A v \in Version : LET n == [d EXCEPT !.version = v] IN
                n \in Db /\ n.key = d.key /\ n.version = v /\ n.applied = d.applied
           /\ \A t \in Statement : LET n == [d EXCEPT !.applied = d.applied \cup {t}] IN
                /\ n \in Db /\ n.key = d.key /\ n.version = d.version
                /\ n.applied = d.applied \cup {t}
BY DEF Db

-----------------------------------------------------------------------------
(* The invariant.                                                          *)

\* Every step of the program, and a crash at any of its writes, keeps it.
LEMMA StepKeeps == IInv /\ [Next]_vars => IInv'
<1> SUFFICES ASSUME IInv, [Next]_vars PROVE IInv'
    OBVIOUS
<1> USE VaultAssumption, Contents DEF IInv, Place
<1>1. ASSUME Update PROVE IInv'
    <2>1. TypeOK'
        BY <1>1 DEF Update, TypeOK, Placed, Sidecar, Key, Salt, Db, Version, ghost, files
    <2>2. Placed'
        BY <1>1 DEF Update, Placed, TypeOK, Key, ghost, files
    <2>3. Progress'
        BY <1>1 DEF Update, Progress, Migrating, Placed, ghost, files
    <2>4. Intact'
        BY <1>1 DEF Update, Intact, Harmed, Migrating, Readable, Placed, Costly, ghost, files
    <2>5. Counted'
        BY <1>1 DEF Update, Counted, Placed, TypeOK, Sidecar, ghost, files
    <2>. QED BY <2>1, <2>2, <2>3, <2>4, <2>5
<1>2. ASSUME LockExpires PROVE IInv'
    <2>1. TypeOK'
        BY <1>2 DEF LockExpires, TypeOK, Placed, Sidecar, Key, Salt, Db, Version, ghost, files
    <2>2. Placed'
        BY <1>2 DEF LockExpires, Placed, TypeOK, Key, ghost, files
    <2>3. Progress'
        BY <1>2 DEF LockExpires, Progress, Migrating, Placed, ghost, files
    <2>4. Intact'
        BY <1>2 DEF LockExpires, Intact, Harmed, Migrating, Readable, Placed, Costly, ghost, files
    <2>5. Counted'
        BY <1>2 DEF LockExpires, Counted, Placed, TypeOK, Sidecar, ghost, files
    <2>. QED BY <2>1, <2>2, <2>3, <2>4, <2>5
<1>3. ASSUME Lock PROVE IInv'
    <2>1. TypeOK'
        BY <1>3 DEF Lock, TypeOK, Placed, Sidecar, Key, Salt, Db, Version, ghost, files
    <2>2. Placed'
        BY <1>3 DEF Lock, Placed, TypeOK, Key, ghost, files
    <2>3. Progress'
        BY <1>3 DEF Lock, Progress, Migrating, Placed, ghost, files
    <2>4. Intact'
        BY <1>3 DEF Lock, Intact, Harmed, Migrating, Readable, Placed, Costly, ghost, files, TypeOK, Progress
    <2>5. Counted'
        BY <1>3 DEF Lock, Counted, Placed, TypeOK, Sidecar, ghost, files
    <2>. QED BY <2>1, <2>2, <2>3, <2>4, <2>5
<1>4. ASSUME Crash PROVE IInv'
    <2>0. /\ crashes' \in Seq(Place) /\ Len(crashes') = Len(crashes) + 1 /\ Len(crashes) \in Nat
          /\ ~Harmed' => ~Harmed /\ pc \notin Costly
        <3>1. crashes \in Seq(Place) /\ pc \in Place /\ crashes' = Append(crashes, pc)
            BY <1>4 DEF Crash, TypeOK
        <3>2. /\ \A i \in DOMAIN crashes : i \in DOMAIN crashes' /\ crashes'[i] = crashes[i]
              /\ Len(crashes) + 1 \in DOMAIN crashes' /\ crashes'[Len(crashes) + 1] = pc
              /\ crashes' \in Seq(Place) /\ Len(crashes') = Len(crashes) + 1
            BY <3>1, Appended
        <3>3. Harmed => Harmed'
            BY <3>2 DEF Harmed
        <3>4. pc \in Costly => Harmed'
            BY <3>2 DEF Harmed
        <3>. QED BY <3>1, <3>2, <3>3, <3>4
    <2>1. TypeOK'
        BY <1>4, <2>0 DEF Crash, TypeOK, files
    <2>2. Placed' /\ Progress'
        BY <1>4 DEF Crash, Placed, Progress, Migrating, files
    <2>4. Intact'
        BY <1>4, <2>0 DEF Crash, Intact, Placed, Costly, Migrating, Readable, files, TypeOK
    <2>5. Counted'
        BY <1>4, <2>0 DEF Crash, Counted, Sidecar, files, TypeOK
    <2>. QED BY <2>1, <2>2, <2>4, <2>5
<1>5. ASSUME NEW pw \in Password, Create(pw) PROVE IInv'
    <2>1. TypeOK'
        BY <1>5 DEF Create, TypeOK, Placed, Sidecar, Key, Salt, Db, Version, ghost, Drawn, Idle
    <2>2. Placed'
        BY <1>5 DEF Create, Placed, TypeOK, Key, ghost, Drawn, Idle, Sidecar, Salt
    <2>3. Progress'
        BY <1>5 DEF Create, Progress, Migrating, Placed, ghost, Drawn, Idle
    <2>4. Intact'
        BY <1>5 DEF Create, Intact, Harmed, Migrating, Readable, Placed, Costly, ghost, Drawn, Idle
    <2>5. Counted'
        BY <1>5 DEF Create, Counted, Placed, TypeOK, Sidecar, ghost, Drawn, Idle
    <2>. QED BY <2>1, <2>2, <2>3, <2>4, <2>5
<1>6. ASSUME NEW pw \in Password, Unlock(pw) PROVE IInv'
    <2>0. /\ meta \in Sidecar /\ mem' \in Key /\ mem'.salt = meta.salt /\ mem' # Zeroed
          /\ guesses \in Nat /\ Len(crashes) \in Nat /\ meta.failed \in Nat
        BY <1>6 DEF Unlock, TypeOK, Key, Sidecar
    <2>1. TypeOK'
        BY <1>6, <2>0 DEF Unlock, TypeOK, files
    <2>2. Placed' /\ Progress'
        BY <1>6, <2>0 DEF Unlock, Placed, Progress, Migrating, files
    <2>4. Intact'
        BY <1>6, <2>0 DEF Unlock, Intact, Harmed, Migrating, Readable, files
    <2>5. Counted'
        BY <1>6, <2>0 DEF Unlock, Counted, files
    <2>. QED BY <2>1, <2>2, <2>4, <2>5
<1>7. ASSUME NEW pw \in Password, Rekey(pw) PROVE IInv'
    <2>0. /\ db \in Db /\ db' \in Db /\ db'.key = mem' /\ mem' \in Key /\ mem' # Zeroed
          /\ db'.version = db.version /\ db'.applied = db.applied /\ salts' \in Salt
        <3>1. db \in Db
            BY <1>7 DEF Rekey, Placed
        <3>2. salts + 1 \in Salt /\ salts' = salts + 1
            BY <1>7 DEF Rekey, Drawn, TypeOK, Salt
        <3>3. mem' = [pw |-> pw, salt |-> salts + 1] /\ mem' \in Key
            BY <1>7, <3>2 DEF Rekey, Drawn, Key
        <3>4. db' = [db EXCEPT !.key = mem']
            BY <1>7, <3>3 DEF Rekey
        <3>. QED BY <3>1, <3>2, <3>3, <3>4, DbChanged
    <2>1. TypeOK'
        BY <1>7, <2>0 DEF Rekey, TypeOK, Db, ghost
    <2>2. Placed' /\ Progress'
        BY <1>7, <2>0 DEF Rekey, Placed, Progress, Migrating
    <2>4. Intact'
        BY <1>7, <2>0 DEF Rekey, Intact, Harmed, Migrating, ghost
    <2>5. Counted'
        BY <1>7 DEF Rekey, Counted, ghost
    <2>. QED BY <2>1, <2>2, <2>4, <2>5
<1>8. ASSUME SidecarCreated PROVE IInv'
    <2>1. TypeOK'
        BY <1>8 DEF SidecarCreated, TypeOK, Placed, Sidecar, Key, Salt, Db, Version, Saved
    <2>2. Placed'
        BY <1>8 DEF SidecarCreated, Placed, TypeOK, Key, Saved, Sidecar, Salt
    <2>3. Progress'
        BY <1>8 DEF SidecarCreated, Progress, Migrating, Placed, Saved
    <2>4. Intact'
        BY <1>8 DEF SidecarCreated, Intact, Harmed, Migrating, Readable, Placed, Costly, Saved
    <2>5. Counted'
        BY <1>8 DEF SidecarCreated, Counted, Placed, TypeOK, Sidecar, Saved
    <2>. QED BY <2>1, <2>2, <2>3, <2>4, <2>5
<1>9. ASSUME AttemptsReset PROVE IInv'
    <2>1. TypeOK'
        BY <1>9 DEF AttemptsReset, TypeOK, Placed, Sidecar, Key, Salt, Db, Version, ghost, Saved
    <2>2. Placed'
        BY <1>9 DEF AttemptsReset, Placed, TypeOK, Key, ghost, Saved, Sidecar, Salt
    <2>3. Progress'
        BY <1>9 DEF AttemptsReset, Progress, Migrating, Placed, ghost, Saved
    <2>4. Intact'
        BY <1>9 DEF AttemptsReset, Intact, Harmed, Migrating, Readable, Placed, Costly, ghost, Saved
    <2>5. Counted'
        BY <1>9 DEF AttemptsReset, Counted, Placed, TypeOK, Sidecar, ghost, Saved
    <2>. QED BY <2>1, <2>2, <2>3, <2>4, <2>5
<1>10. ASSUME FailureRegistered PROVE IInv'
    <2>0. db \in Db /\ meta \in Sidecar /\ meta.failed \in Nat /\ meta.salt \in Salt
        BY <1>10 DEF FailureRegistered, Placed, Sidecar
    <2>1. CASE WipeEnabled /\ Wipes(meta.failed + 1)
        <3>1. /\ db' \in Db /\ db'.key = Zeroed
              /\ db'.version = db.version /\ db'.applied = db.applied
            <4>1. db' = [db EXCEPT !.key = Zeroed]
                BY <1>10, <2>1 DEF FailureRegistered
            <4>. QED BY <2>0, <4>1, DbChanged
        <3>2. /\ pc = "failing" /\ pc' = "wiping"
              /\ UNCHANGED <<meta, locked, release, mem, at, salts, guesses, crashes>>
            BY <1>10, <2>1 DEF FailureRegistered, ghost
        <3>3. TypeOK'
            BY <3>1, <3>2 DEF TypeOK, Db
        <3>4. Placed' /\ Progress' /\ Counted'
            BY <2>0, <3>1, <3>2 DEF Placed, Progress, Counted, Migrating
        <3>5. Intact'
            BY <3>1, <3>2 DEF Intact, Harmed, Migrating, Placed
        <3>. QED BY <3>3, <3>4, <3>5
    <2>2. CASE ~(WipeEnabled /\ Wipes(meta.failed + 1))
        <3>1. /\ meta' \in Sidecar /\ meta'.salt = meta.salt /\ meta'.failed = meta.failed + 1
              /\ pc = "failing" /\ pc' = "closed" /\ locked' = TRUE
              /\ UNCHANGED <<db, release, mem, at, salts, guesses, crashes>>
            BY <1>10, <2>0, <2>2 DEF FailureRegistered, Saved, Sidecar, ghost
        <3>3. TypeOK'
            BY <3>1 DEF TypeOK
        <3>4. Placed' /\ Progress'
            BY <3>1 DEF Placed, Progress, Migrating
        <3>5. Intact'
            BY <3>1 DEF Intact, Harmed, Migrating, Placed, Readable
        <3>6. WipeEnabled => meta.failed + 1 < Threshold
            BY <2>0, <2>2 DEF Wipes
        <3>7. Counted'
            <4>1. guesses \in Nat /\ Len(crashes) \in Nat
                BY DEF TypeOK
            <4>2. guesses <= meta.failed + Len(crashes) + 1 /\ meta # NoFile
                BY <2>0, <3>1 DEF Counted
            <4>. QED BY <2>0, <3>1, <3>6, <4>1, <4>2 DEF Counted
        <3>. QED BY <3>3, <3>4, <3>5, <3>7
    <2>. QED BY <2>1, <2>2
<1>11. ASSUME DatabaseRemoved PROVE IInv'
    <2>1. TypeOK'
        BY <1>11 DEF DatabaseRemoved, TypeOK, Placed, Sidecar, Key, Salt, Db, Version, ghost
    <2>2. Placed'
        BY <1>11 DEF DatabaseRemoved, Placed, TypeOK, Key, ghost
    <2>3. Progress'
        BY <1>11 DEF DatabaseRemoved, Progress, Migrating, Placed, ghost
    <2>4. Intact'
        BY <1>11 DEF DatabaseRemoved, Intact, Harmed, Migrating, Readable, Placed, Costly, ghost
    <2>5. Counted'
        BY <1>11 DEF DatabaseRemoved, Counted, Placed, TypeOK, Sidecar, ghost
    <2>. QED BY <2>1, <2>2, <2>3, <2>4, <2>5
<1>12. ASSUME SidecarRemoved PROVE IInv'
    <2>1. TypeOK'
        BY <1>12 DEF SidecarRemoved, TypeOK, Placed, Sidecar, Key, Salt, Db, Version, ghost
    <2>2. Placed'
        BY <1>12 DEF SidecarRemoved, Placed, TypeOK, Key, ghost
    <2>3. Progress'
        BY <1>12 DEF SidecarRemoved, Progress, Migrating, Placed, ghost
    <2>4. Intact'
        BY <1>12 DEF SidecarRemoved, Intact, Harmed, Migrating, Readable, Placed, Costly, ghost
    <2>5. Counted'
        BY <1>12 DEF SidecarRemoved, Counted, Placed, TypeOK, Sidecar, ghost
    <2>. QED BY <2>1, <2>2, <2>3, <2>4, <2>5
<1>13. ASSUME RunStatement PROVE IInv'
    <2> DEFINE t == <<at.v + 1, at.i + 1>>
    <2>1. /\ db \in Db /\ release \in Nat /\ release <= Len(Migrations)
          /\ at \in [v : Version, i : Nat] /\ at.v \in Nat /\ at.i \in Nat
        <3>1. db # NoFile
            BY <1>13 DEF RunStatement, Placed, Migrating
        <3>. QED BY <3>1 DEF TypeOK, Version
    <2>2. /\ at.v < release /\ at.v < Len(Migrations) /\ at.i < Len(Migrations[at.v + 1])
          /\ Migrating /\ pc \in {"creating", "migrating"}
        BY <1>13, <2>1 DEF RunStatement, Migrating
    <2>3. /\ t \in {at.v + 1} \X (1 .. at.i + 1) /\ t \in Statement
          /\ t \notin {at.v + 1} \X (1 .. at.i) /\ t \notin UpTo(at.v)
        <3>1. Len(Migrations[at.v + 1]) \in Nat
            BY <2>1, <2>2, UpToNext
        <3>2. t \in {at.v + 1} \X (1 .. Len(Migrations[at.v + 1]))
            <4>1. at.i + 1 \in 1 .. Len(Migrations[at.v + 1])
                BY ONLY <2>1, <2>2, <3>1
            <4>. QED BY ONLY <4>1
        <3>3. t \in Statement
            BY <2>1, <2>2, <3>2, UpToNext
        <3>4. t \notin UpTo(at.v)
            BY <2>1 DEF UpTo, StatementsOf
        <3>. QED BY <2>1, <3>3, <3>4
    <2> HIDE DEF t
    <2>4. CASE t \in db.applied
        <3>1. /\ pc' = "closed" /\ UNCHANGED <<db, at, release, meta, locked, mem, salts, guesses, crashes>>
            BY <1>13, <2>4 DEF RunStatement, ghost, t
        <3>2. Harmed
            BY <2>2, <2>3, <2>4 DEF Intact
        <3>3. TypeOK'
            BY <3>1 DEF TypeOK
        <3>4. Placed' /\ Progress' /\ Counted'
            BY <2>2, <3>1 DEF Placed, Progress, Counted, Migrating
        <3>5. Intact'
            BY <3>1, <3>2 DEF Intact, Harmed
        <3>. QED BY <3>3, <3>4, <3>5
    <2>5. CASE t \notin db.applied
        <3>1. /\ db' = [db EXCEPT !.applied = db.applied \cup {t}]
              /\ at' = [at EXCEPT !.i = @ + 1]
              /\ UNCHANGED <<pc, release, meta, locked, mem, salts, guesses, crashes>>
            BY <1>13, <2>5 DEF RunStatement, ghost, t
        <3>2. /\ db' \in Db /\ db'.key = db.key /\ db'.version = db.version
              /\ db'.applied = db.applied \cup {t}
            <4>1. db' = [db EXCEPT !.applied = db.applied \cup {t}]
                BY <3>1
            <4>2. db \in Db /\ t \in Statement
                BY <2>1, <2>3
            <4>. QED BY ONLY <4>1, <4>2, DbChanged
        <3>3. at' \in [v : Version, i : Nat] /\ at'.v = at.v /\ at'.i = at.i + 1
            <4>1. at' = [v |-> at.v, i |-> at.i + 1] /\ at.v \in Version
                BY ONLY <2>1, <3>1
            <4>. QED BY <2>1, <4>1
        <3>4. TypeOK'
            BY <2>1, <3>1, <3>2, <3>3 DEF TypeOK, Db
        <3>5. Placed' /\ Counted'
            BY <2>1, <2>2, <3>1, <3>2 DEF Placed, Counted
        <3>6. Progress'
            <4>1. Len(Migrations[at.v + 1]) \in Nat
                BY <2>1, <2>2, UpToNext
            <4>2. at.i + 1 <= Len(Migrations[at.v + 1])
                BY <2>1, <2>2, <4>1
            <4>3. at.v = db.version
                BY <2>2 DEF Progress
            <4>. QED BY ONLY <2>1, <2>2, <3>1, <3>2, <3>3, <4>2, <4>3 DEF Progress, Migrating
        <3>7. Intact'
            <4>1. SUFFICES ASSUME ~Harmed
                           PROVE  db'.applied \subseteq UpTo(at'.v) \cup ({at'.v + 1} \X (1 .. at'.i))
                BY <2>2, <3>1 DEF Intact, Harmed, Migrating
            <4>2. db.applied \subseteq UpTo(at.v) \cup ({at.v + 1} \X (1 .. at.i))
                BY <2>2, <4>1 DEF Intact
            <4>3. 1 .. at.i \subseteq 1 .. at.i + 1
                BY <2>1
            <4>. QED BY <2>3, <3>2, <3>3, <4>2, <4>3
        <3>. QED BY <3>4, <3>5, <3>6, <3>7
    <2>. QED BY <2>4, <2>5
<1>14. ASSUME SetVersion PROVE IInv'
    <2>1. /\ db \in Db /\ release \in Nat /\ release <= Len(Migrations)
          /\ at \in [v : Version, i : Nat] /\ at.v \in Nat /\ at.v < release
          /\ Migrating /\ pc \in {"creating", "migrating"}
        <3>1. db # NoFile
            BY <1>14 DEF SetVersion, Placed, Migrating
        <3>2. Migrating /\ at.v < release
            BY <1>14 DEF SetVersion
        <3>. QED BY <3>1, <3>2 DEF TypeOK, Migrating, Version
    <2>2. /\ at.v + 1 \in Version /\ at.i = Len(Migrations[at.v + 1])
          /\ UpTo(at.v + 1) = UpTo(at.v) \cup ({at.v + 1} \X (1 .. at.i))
        <3>1. at.v < Len(Migrations)
            BY <2>1, VaultAssumption
        <3>. QED BY <1>14, <2>1, <3>1, UpToNext DEF SetVersion
    <2>3. /\ db' \in Db /\ db'.key = db.key /\ db'.version = at.v + 1 /\ db'.applied = db.applied
          /\ at' \in [v : Version, i : Nat] /\ at'.v = at.v + 1 /\ at'.i = 0
          /\ UNCHANGED <<release, meta, locked, pc, mem, salts, guesses, crashes>>
        BY <1>14, <2>1, <2>2, DbChanged DEF SetVersion, ghost
    <2>4. TypeOK'
        BY <2>1, <2>3 DEF TypeOK, Db
    <2>5. Placed' /\ Counted'
        BY <2>1, <2>3 DEF Placed, Counted
    <2>6. Progress'
        <3>1. at'.v < release => Len(Migrations[at'.v + 1]) \in Nat
            <4>. SUFFICES ASSUME at'.v < release PROVE Len(Migrations[at'.v + 1]) \in Nat
                OBVIOUS
            <4>1. at'.v \in Nat /\ at'.v < Len(Migrations)
                BY <2>1, <2>3, VaultAssumption
            <4>. QED BY ONLY <4>1, UpToNext
        <3>. QED BY <2>1, <2>3, <3>1 DEF Progress, Migrating
    <2>7. Intact'
        <3>1. SUFFICES ASSUME ~Harmed
                       PROVE  db'.applied \subseteq UpTo(at'.v)
            BY <2>1, <2>3 DEF Intact, Harmed, Migrating
        <3>. QED BY <2>1, <2>2, <2>3, <3>1 DEF Intact
    <2>. QED BY <2>4, <2>5, <2>6, <2>7
<1>15. ASSUME AddColumn PROVE IInv'
    <2>1. /\ db \in Db /\ release \in Version /\ at.v \in Version /\ release <= at.v
          /\ Migrating /\ pc \in {"creating", "migrating"}
        BY <1>15 DEF AddColumn, TypeOK, Placed, Migrating, Version
    <2>2. PICK t \in Missing : db' = [db EXCEPT !.applied = db.applied \cup {t}]
        BY <1>15 DEF AddColumn
    <2>3. t \in UpTo(at.v) /\ t \in Statement
        BY <2>1, <2>2, UpToGrows DEF Missing, Version
    <2>4. /\ db' \in Db /\ db'.key = db.key /\ db'.version = db.version
          /\ db'.applied = db.applied \cup {t}
        BY ONLY <2>1, <2>2, <2>3, DbChanged
    <2>8. UNCHANGED <<release, meta, locked, pc, mem, at, salts, guesses, crashes>>
        BY <1>15 DEF AddColumn, ghost
    <2>5. TypeOK'
        BY <2>1, <2>4, <2>8 DEF TypeOK, Db
    <2>6. Placed' /\ Counted' /\ Progress'
        BY <2>1, <2>4, <2>8 DEF Placed, Counted, Progress, Migrating
    <2>7. Intact'
        BY <2>1, <2>3, <2>4, <2>8 DEF Intact, Harmed, Migrating
    <2>. QED BY <2>5, <2>6, <2>7
<1>16. ASSUME Migrated PROVE IInv'
    <2>1. TypeOK'
        BY <1>16 DEF Migrated, TypeOK, Placed, Sidecar, Key, Salt, Db, Version, ghost, files, Missing, Migrating, Progress, Harmed
    <2>2. Placed'
        BY <1>16 DEF Migrated, Placed, TypeOK, Key, ghost, files, Missing, Migrating, Progress, Harmed, Sidecar, Salt, Version
    <2>3. Progress'
        BY <1>16 DEF Migrated, Progress, Migrating, Placed, ghost, files, Missing
    <2>4. Intact'
        BY <1>16 DEF Migrated, Intact, Harmed, Migrating, Readable, Placed, Costly, ghost, files, Missing, Progress, TypeOK, Sidecar, Salt, Key, Version
    <2>5. Counted'
        BY <1>16 DEF Migrated, Counted, Placed, TypeOK, Sidecar, ghost, files, Missing, Migrating, Progress, Harmed, Salt, Key, Version
    <2>. QED BY <2>1, <2>2, <2>3, <2>4, <2>5
<1>17. ASSUME PasswordChanged PROVE IInv'
    <2>1. TypeOK'
        BY <1>17 DEF PasswordChanged, TypeOK, Placed, Sidecar, Key, Salt, Db, Version, ghost, Saved, SaltAfterRekey
    <2>2. Placed'
        BY <1>17 DEF PasswordChanged, Placed, TypeOK, Key, ghost, Saved, SaltAfterRekey, Sidecar, Salt
    <2>3. Progress'
        BY <1>17 DEF PasswordChanged, Progress, Migrating, Placed, ghost, Saved, SaltAfterRekey
    <2>4. Intact'
        BY <1>17 DEF PasswordChanged, Intact, Harmed, Migrating, Readable, Placed, Costly, ghost, Saved, SaltAfterRekey
    <2>5. Counted'
        BY <1>17 DEF PasswordChanged, Counted, Placed, TypeOK, Sidecar, ghost, Saved, SaltAfterRekey
    <2>. QED BY <2>1, <2>2, <2>3, <2>4, <2>5
<1>18. CASE UNCHANGED vars
    <2>1. UNCHANGED <<release, db, meta, locked, pc, mem, at, salts, guesses, crashes>>
        BY <1>18 DEF vars, files, ghost
    <2>2. TypeOK' /\ Placed' /\ Progress'
        BY <2>1 DEF TypeOK, Placed, Progress, Migrating
    <2>3. Intact' /\ Counted'
        BY <2>1 DEF Intact, Counted, Migrating, Readable, Harmed
    <2>. QED BY <2>2, <2>3
<1>. QED BY <1>1, <1>2, <1>3, <1>4, <1>5, <1>6, <1>7, <1>8, <1>9, <1>10, <1>11, <1>12, <1>13, <1>14, <1>15, <1>16, <1>17, <1>18 DEF Next

-----------------------------------------------------------------------------
(* The theorems.                                                           *)

\* IInv holds of a program that has just been installed.
LEMMA InitHolds == Init => IInv
<1> SUFFICES ASSUME Init PROVE IInv
    OBVIOUS
<1> USE VaultAssumption DEF Place
<1>1. release \in Version /\ Diverged \in Version /\ 0 \in Salt
    BY DEF Init, Version, Salt
<1>2. PICK pw \in Password :
        /\ mem = [pw |-> pw, salt |-> 0]
        /\ \/ db = NoFile /\ meta = NoFile
           \/ Existing(pw, release, UpTo(release))
           \/ /\ release = Diverged
              /\ Existing(pw, Diverged, UpTo(Diverged) \ StatementsOf(Diverged))
    BY DEF Init
<1>3. /\ locked = FALSE /\ pc = "closed" /\ at = Idle /\ salts = 0 /\ guesses = 0
      /\ crashes = <<>> /\ ~Harmed /\ Len(crashes) = 0
    BY DEF Init, Harmed
<1>4. mem \in Key /\ at \in [v : Version, i : Nat] /\ crashes \in Seq(Place)
    BY <1>1, <1>2, <1>3 DEF Key, Idle, Version
<1>5. CASE db = NoFile /\ meta = NoFile
    BY <1>1, <1>3, <1>4, <1>5
       DEF IInv, TypeOK, Placed, Progress, Intact, Counted, Migrating, Readable
<1>6. ASSUME NEW v \in Version, NEW S \in SUBSET UpTo(v), Existing(pw, v, S)
      PROVE  IInv
    <2>1. S \in SUBSET Statement
        <3>1. v <= v
            BY DEF Version
        <3>. QED BY <3>1, UpToGrows
    <2>2. /\ db \in Db /\ db.version = v /\ db.applied = S /\ db.key = mem
          /\ mem.salt = 0
        BY <1>1, <1>2, <1>4, <1>6, <2>1 DEF Existing, Db
    <2>3. meta \in Sidecar /\ meta.salt = 0 /\ meta.failed = 0
        BY <1>1, <1>6 DEF Existing, Sidecar
    <2>4. TypeOK
        BY <1>1, <1>3, <1>4, <2>2, <2>3 DEF TypeOK, Db
    <2>. QED BY <1>3, <1>4, <2>2, <2>3, <2>4, Contents
            DEF IInv, Placed, Progress, Intact, Counted, Migrating, Readable
<1>7. QED BY <1>1, <1>2, <1>5, <1>6

\* It holds of every state that is reached.
LEMMA Invariant == Spec => []IInv
BY InitHolds, StepKeeps, PTL DEF Spec

\* A crash outside the six windows never leaves files that the program can neither
\* open nor replace (create_vault, open_vault, change_password, _wipe_files).
THEOREM OnlyCostlyCrashesStrand == Spec => []StrandedOnlyByTheseCrashes
<1>1. IInv => StrandedOnlyByTheseCrashes
    BY DEF IInv, StrandedOnlyByTheseCrashes, Stranded, Intact, Migrating, Readable,
           PasswordOpens, MigrationsAreAtomic
<1>. QED BY <1>1, Invariant, PTL

\* An open vault has every column of its release (migrate, _add_missing_columns).
THEOREM OpenIsComplete == Spec => []SchemaComplete
<1>1. IInv => SchemaComplete
    BY DEF IInv, SchemaComplete, Progress
<1>. QED BY <1>1, Invariant, PTL

\* Before the wipe there are fewer wrong passwords than the threshold, and one more
\* for each crash (_register_failure).
THEOREM WipeLimitsGuesses == Spec => []GuessesLimited
<1>1. IInv => GuessesLimited
    <2> SUFFICES ASSUME IInv, WipeEnabled, pc = "closed", Readable
                 PROVE  guesses < Threshold + Len(crashes)
        BY DEF GuessesLimited
    <2>1. /\ meta \in Sidecar /\ guesses \in Nat /\ Len(crashes) \in Nat
          /\ Threshold \in Nat /\ meta.failed \in Nat
        BY Contents, VaultAssumption DEF IInv, TypeOK, Readable, Sidecar
    <2>2. meta.failed < Threshold /\ guesses <= meta.failed + Len(crashes) + 0
        BY DEF IInv, Counted, Readable
    <2>. QED BY <2>1, <2>2
<1>. QED BY <1>1, Invariant, PTL
=============================================================================
