-------------------------------- MODULE Vault --------------------------------
(***************************************************************************)
(* The life of the encrypted store (mys_storage/vault.py, sidecar.py,      *)
(* migrations.py) and of its two files: the SQLCipher database and the     *)
(* sidecar <db>.meta.json with the KDF's salt and the count of failed      *)
(* attempts.  Every step ends where a crash can leave something on disk:   *)
(* a sidecar is replaced as a whole, a statement of the schema is          *)
(* committed by itself (the driver opens no transaction for DDL), rekey is *)
(* one transaction of SQLCipher.                                           *)
(*                                                                         *)
(* A key is a pair of password and salt.  A migration is a sequence of     *)
(* statements of kind "create" or "column" (ALTER TABLE ADD COLUMN); run   *)
(* twice, either raises.                                                   *)
(***************************************************************************)
EXTENDS Integers, Sequences, FiniteSets

CONSTANTS
    Password,
    Migrations,    \* MIGRATIONS: a sequence of sequences of kinds
    Diverged,      \* the version another branch gave to columns of its own
    WipeEnabled,   \* duress.wipe_enabled of every sidecar
    Threshold,     \* duress.threshold
    MaxSalts,      \* salts drawn in all (bound)
    MaxCrashes,    \* crashes (bound)
    NoFile, Zeroed

ASSUME VaultAssumption ==
    /\ Migrations \in Seq(Seq({"create", "column"}))
    /\ Diverged \in 1 .. Len(Migrations)
    /\ WipeEnabled \in BOOLEAN /\ Threshold \in Nat \ {0}
    /\ MaxSalts \in Nat \ {0} /\ MaxCrashes \in Nat
    \* the two marks are neither a key nor the contents of a file
    /\ Zeroed \notin [pw : Password, salt : Nat]
    /\ NoFile \notin [salt : Nat, failed : Nat]
    /\ NoFile \notin [key : [pw : Password, salt : Nat] \cup {Zeroed}, version : Nat,
                      applied : SUBSET (Nat \X Nat)]

VARIABLES
    release,  \* TARGET_VERSION of the installed program
    db,       \* the database file
    meta,     \* the sidecar file
    locked,   \* lockout_until lies ahead
    pc,       \* where the program is
    mem,      \* the key of the open connection
    at,       \* migrate: version reached, statements of the next one run
    salts,    \* salts drawn so far
    guesses,  \* wrong passwords tried since the last right one
    crashes   \* where the program crashed, oldest first

files == <<db, meta>>
ghost == <<guesses, crashes>>
vars == <<release, files, locked, pc, mem, at, salts, ghost>>

Version == 0 .. Len(Migrations)
Salt == 0 .. MaxSalts
Key == [pw : Password, salt : Salt]
StatementsOf(v) == {v} \X DOMAIN Migrations[v]
UpTo(v) == UNION {StatementsOf(w) : w \in 1 .. v}
Statement == UpTo(Len(Migrations))
Columns(v) == {s \in UpTo(v) : Migrations[s[1]][s[2]] = "column"}
Sidecar == [salt : Salt, failed : Nat]

Place == {"closed", "creating", "created", "failing", "wiping", "wiped",
          "resetting", "migrating", "open", "rekeyed"}
Idle == [v |-> 0, i |-> 0]

TypeOK ==
    /\ release \in Version
    /\ \/ db = NoFile
       \/ db \in [key : Key \cup {Zeroed}, version : Version, applied : SUBSET Statement]
    /\ meta = NoFile \/ meta \in Sidecar
    /\ locked \in BOOLEAN
    /\ pc \in Place
    /\ mem \in Key
    /\ at \in [v : Version, i : Nat]
    /\ salts \in Salt /\ guesses \in Nat
    /\ crashes \in Seq(Place)
    \* the key in memory is the database's: change_password compares with it
    /\ pc \in {"creating", "created", "migrating", "open", "rekeyed"} => db.key = mem

\* A vault an earlier release left behind, or the other branch did.
Existing(pw, v, applied) ==
    /\ db = [key |-> [pw |-> pw, salt |-> 0], version |-> v, applied |-> applied]
    /\ meta = [salt |-> 0, failed |-> 0]

Init ==
    /\ release \in Version \ {0}
    /\ \E pw \in Password :
         /\ mem = [pw |-> pw, salt |-> 0]
         /\ \/ db = NoFile /\ meta = NoFile
            \/ Existing(pw, release, UpTo(release))
            \/ /\ release = Diverged
               /\ Existing(pw, Diverged, UpTo(Diverged) \ StatementsOf(Diverged))
    /\ locked = FALSE /\ pc = "closed" /\ at = Idle
    /\ salts = 0 /\ guesses = 0 /\ crashes = <<>>

-----------------------------------------------------------------------------

\* A program with more migrations is installed while the vault is closed.
Update ==
    /\ pc = "closed" /\ release < Len(Migrations)
    /\ release' = release + 1
    /\ UNCHANGED <<files, locked, pc, mem, at, salts, ghost>>

Drawn(pw) ==
    /\ salts < MaxSalts
    /\ salts' = salts + 1
    /\ mem' = [pw |-> pw, salt |-> salts + 1]

\* create_vault: offered when there is no database, refused (VaultExists) when
\* there is a sidecar.
Create(pw) ==
    /\ pc = "closed" /\ db = NoFile /\ meta = NoFile
    /\ Drawn(pw)
    /\ db' = [key |-> [pw |-> pw, salt |-> salts + 1], version |-> 0, applied |-> {}]
    /\ pc' = "creating" /\ at' = Idle
    /\ UNCHANGED <<release, meta, locked, ghost>>

Saved(salt, failed) == meta' = [salt |-> salt, failed |-> failed]

SidecarCreated ==
    /\ pc = "created"
    /\ Saved(mem.salt, 0)
    /\ pc' = "open" /\ guesses' = 0
    /\ UNCHANGED <<release, db, locked, mem, at, salts, crashes>>

\* open_vault up to _verify; a file without a database or sidecar raises.
Unlock(pw) ==
    /\ pc = "closed" /\ db # NoFile /\ meta # NoFile /\ ~locked
    /\ mem' = [pw |-> pw, salt |-> meta.salt]
    /\ IF db.key = mem'
       THEN pc' = "resetting" /\ guesses' = 0
       ELSE pc' = "failing" /\ guesses' = guesses + 1
    /\ UNCHANGED <<release, files, locked, at, salts, crashes>>

AttemptsReset ==
    /\ pc = "resetting"
    /\ Saved(meta.salt, 0)
    /\ pc' = "migrating" /\ at' = [v |-> db.version, i |-> 0]
    /\ UNCHANGED <<release, db, locked, mem, salts, ghost>>

WipesAfterThreshold(failed) == failed > Threshold
Wipes(failed) == failed >= Threshold

\* _register_failure.
FailureRegistered ==
    /\ pc = "failing"
    /\ IF WipeEnabled /\ Wipes(meta.failed + 1)
       THEN /\ db' = [db EXCEPT !.key = Zeroed]
            /\ pc' = "wiping"
            /\ UNCHANGED <<meta, locked>>
       ELSE /\ Saved(meta.salt, meta.failed + 1)
            /\ locked' = TRUE /\ pc' = "closed"
            /\ UNCHANGED db
    /\ UNCHANGED <<release, mem, at, salts, ghost>>

\* The rest of _wipe_files: the database is removed, then the sidecar.
DatabaseRemoved ==
    /\ pc = "wiping"
    /\ db' = NoFile /\ pc' = "wiped"
    /\ UNCHANGED <<release, meta, locked, mem, at, salts, ghost>>
SidecarRemoved ==
    /\ pc = "wiped"
    /\ meta' = NoFile /\ pc' = "closed"
    /\ UNCHANGED <<release, db, locked, mem, at, salts, ghost>>

LockExpires ==
    /\ locked
    /\ locked' = FALSE
    /\ UNCHANGED <<release, files, pc, mem, at, salts, ghost>>

Migrating == pc \in {"creating", "migrating"}

\* migrate runs the next statement; one that was run before raises out of
\* open_vault.
RunStatement ==
    /\ Migrating /\ at.v < release /\ at.i < Len(Migrations[at.v + 1])
    /\ LET s == <<at.v + 1, at.i + 1>>
       IN  IF s \in db.applied
           THEN pc' = "closed" /\ UNCHANGED <<db, at>>
           ELSE /\ db' = [db EXCEPT !.applied = @ \cup {s}]
                /\ at' = [at EXCEPT !.i = @ + 1]
                /\ UNCHANGED pc
    /\ UNCHANGED <<release, meta, locked, mem, salts, ghost>>

\* PRAGMA user_version, after the statements of the version.
SetVersion ==
    /\ Migrating /\ at.v < release /\ at.i = Len(Migrations[at.v + 1])
    /\ db' = [db EXCEPT !.version = at.v + 1]
    /\ at' = [v |-> at.v + 1, i |-> 0]
    /\ UNCHANGED <<release, meta, locked, pc, mem, salts, ghost>>

NoneMissing == {}
Missing == Columns(release) \ db.applied

\* _add_missing_columns, whichever column is missing first.
AddColumn ==
    /\ Migrating /\ at.v >= release
    /\ \E s \in Missing : db' = [db EXCEPT !.applied = @ \cup {s}]
    /\ UNCHANGED <<release, meta, locked, pc, mem, at, salts, ghost>>

Migrated ==
    /\ Migrating /\ at.v >= release /\ Missing = {}
    /\ pc' = IF pc = "creating" THEN "created" ELSE "open"
    /\ UNCHANGED <<release, files, locked, mem, at, salts, ghost>>

\* change_password: rekey, then the sidecar with the new salt.
Rekey(pw) ==
    /\ pc = "open"
    /\ Drawn(pw)
    /\ db' = [db EXCEPT !.key = [pw |-> pw, salt |-> salts + 1]]
    /\ pc' = "rekeyed"
    /\ UNCHANGED <<release, meta, locked, at, ghost>>

SaltKept == meta.salt
SaltAfterRekey == mem.salt

PasswordChanged ==
    /\ pc = "rekeyed"
    /\ Saved(SaltAfterRekey, meta.failed)
    /\ pc' = "open"
    /\ UNCHANGED <<release, db, locked, mem, at, salts, ghost>>

Lock ==
    /\ pc = "open"
    /\ pc' = "closed"
    /\ UNCHANGED <<release, files, locked, mem, at, salts, ghost>>

Crash ==
    /\ pc # "closed" /\ Len(crashes) < MaxCrashes
    /\ pc' = "closed" /\ crashes' = Append(crashes, pc)
    /\ UNCHANGED <<release, files, locked, mem, at, salts, guesses>>

Next ==
    \/ Update \/ LockExpires \/ Lock \/ Crash
    \/ \E pw \in Password : Create(pw) \/ Unlock(pw) \/ Rekey(pw)
    \/ SidecarCreated \/ AttemptsReset \/ FailureRegistered
    \/ DatabaseRemoved \/ SidecarRemoved
    \/ RunStatement \/ SetVersion \/ AddColumn \/ Migrated \/ PasswordChanged

Spec == Init /\ [][Next]_vars

-----------------------------------------------------------------------------
(* Properties.                                                             *)

Readable == db # NoFile /\ meta # NoFile /\ db.key # Zeroed

\* The closed vault can be opened by whoever knows the last password: the sidecar
\* has the salt of the database's key.
PasswordOpens == pc = "closed" /\ Readable => db.key.salt = meta.salt

\* Between two runs of the program no version of the schema is half applied, so
\* the runner never repeats a statement.
MigrationsAreAtomic == pc = "closed" /\ Readable => db.applied \subseteq UpTo(db.version)

\* The windows in which a crash leaves files that the program can neither open nor
\* replace as they are: creation, a version under way, a password between rekey and sidecar,
\* a wipe half done.  A crash anywhere else, however many there are, leaves a
\* vault that opens or no vault at all.
Stranded ==
    /\ pc = "closed"
    /\ ~(db = NoFile /\ meta = NoFile)
    /\ ~(Readable /\ PasswordOpens /\ MigrationsAreAtomic)
Costly == {"creating", "created", "migrating", "rekeyed", "wiping", "wiped"}
Harmed == \E i \in DOMAIN crashes : crashes[i] \in Costly
StrandedOnlyByTheseCrashes == TypeOK /\ (Stranded => Harmed)

\* An open vault has every column the program uses, also when it comes from the
\* branch whose version numbers mean something else or from a broken migration.
SchemaComplete ==
    pc = "open" => db.version >= release /\ Columns(release) \subseteq db.applied

\* With the wipe enabled, wrong passwords are limited: only a crash before the
\* attempt is written down gives one more.
GuessesLimited ==
    WipeEnabled /\ pc = "closed" /\ Readable => guesses < Threshold + Len(crashes)
=============================================================================
