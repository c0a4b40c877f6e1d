--------------------------------- MODULE Upgrade -------------------------------
(***************************************************************************)
(* The database file from one version of the program to the next: db_open, *)
(* which creates it or refuses it (src/db.c), and minimoni-migrate, which  *)
(* checks it, copies it and brings it up to date (src/migrate).  Both may  *)
(* be killed between any two steps, and be started again, or at once.      *)
(*                                                                         *)
(* Of the file, its schema and its two stamps are modelled.  A copy of it  *)
(* is known by the version it was taken at.                                *)
(***************************************************************************)
EXTENDS Integers

CONSTANTS
    Latest,      \* MINIMONI_SCHEMA_VERSION, migrations_latest_version()
    MaxCrashes   \* bound: times a process is killed

ASSUME UpgradeAssumption == Latest \in Nat \ {0} /\ MaxCrashes \in Nat

Old == 0..(Latest - 1)

(* The version of a database a later minimoni made. *)
Newer == Latest + 1

Absent == -2   \* no such file
Unmade == -1   \* a file not filled yet, or a schema not all there

(* The names a copy can be under: a backup for each version, and the copy  *)
(* a dry run rehearses on.                                                 *)
Scratch == Latest
Copies == Old \cup {Scratch}

VARIABLES
    exists,     \* whether the file is there
    schema,     \* the version its tables have, or Unmade
    canonical,  \* whether they have the structure of that version exactly
    app,        \* whether application_id is stamped
    version,    \* user_version
    compacted,  \* whether the closing compaction has followed the migration
    dpc,        \* where the daemon is in db_open
    mpc,        \* where minimoni-migrate is in do_migrate
    opts,       \* its options
    current,    \* its local: the version reached
    start,      \* ghost: the version it found
    applied,    \* ghost: the steps of this run that were committed
    lost,       \* ghost: 1 when migrate_exec could not tell a step's outcome
    rc,         \* its exit status, or Running
    orphans,    \* the steps under way in a `db exec` whose parent was killed
    tmp,        \* for each name of a copy, its temporary file
    copy,       \* and the copy itself
    side,       \* "kept" where SQLite's side files lie beside a copy of
                \* theirs, "foreign" beside one they do not belong to
    crashes     \* processes killed so far

file == <<exists, schema, canonical, app, version, compacted>>
disk == <<tmp, copy, side>>
run == <<opts, current, start, applied, lost, rc>>
kills == <<orphans, crashes>>
vars == <<file, dpc, mpc, run, disk, kills>>

Running == -1

Options == {o \in [backup : {0, 1}, dry : {0, 1}, force : {0, 1}] :
              o.force = 1 => o.backup = 1}

(* A database some version of minimoni made and maybe its operator altered *)
(* since, or none.                                                         *)
Init ==
    /\ \/ exists = 0 /\ schema = Unmade /\ app = 0 /\ version = 0 /\ canonical = 1
       \/ /\ exists = 1 /\ app = 1 /\ canonical \in {0, 1}
          /\ version \in 0..Newer /\ schema = version
    /\ compacted = 1
    /\ dpc = "off"
    /\ mpc = "off"
    /\ opts = [backup |-> 1, dry |-> 0, force |-> 0]
    /\ current = 0
    /\ start = 0
    /\ applied = 0
    /\ lost = 0
    /\ rc = Running
    /\ orphans = {}
    /\ tmp = [c \in Copies |-> Absent]
    /\ copy = [c \in Copies |-> Absent]
    /\ side = [c \in Copies |-> "none"]
    /\ crashes = 0
--------------------------------------------------------------------------------
(* db_open *)

Open(from, to) == dpc = from /\ dpc' = to /\ UNCHANGED <<mpc, run, disk, kills>>

Stat ==
    /\ Open("off", IF exists = 1 THEN "validate" ELSE "create")
    /\ UNCHANGED file

CreatePrivate ==
    /\ Open("create", "schema")
    /\ exists' = 1
    /\ UNCHANGED <<schema, canonical, app, version, compacted>>

(* SQL_CREATE: every statement of it IF NOT EXISTS. *)
CreateSchema ==
    /\ Open("schema", "app")
    /\ schema' = Latest
    /\ canonical' = 1
    /\ UNCHANGED <<exists, app, version, compacted>>

(* The file cannot be created, opened or read, or SQL_CREATE fails: the    *)
(* daemon gives up, and what is there of the file stays.                   *)
OpenFails ==
    /\ \E step \in {"create", "schema", "validate"} : Open(step, "off")
    /\ UNCHANGED file

(* PRAGMA application_id, then PRAGMA user_version.  *)
StampApp ==
    /\ Open("app", "version")
    /\ app' = 1
    /\ UNCHANGED <<exists, schema, canonical, version, compacted>>

StampVersion ==
    /\ Open("version", "open")
    /\ version' = Latest
    /\ UNCHANGED <<exists, schema, canonical, app, compacted>>

(* Whether a stamp was written is not looked at. *)
StampFails == (Open("app", "version") \/ Open("version", "open")) /\ UNCHANGED file

(* Mutant: a file that is there is stamped, whatever it holds. *)
Validate_Stamps ==
    /\ Open("validate", "open")
    /\ app' = 1 /\ version' = Latest
    /\ UNCHANGED <<exists, schema, canonical, compacted>>

(* Mutant: any of minimoni's databases will do. *)
Validate_AppOnly ==
    /\ Open("validate", IF app = 1 THEN "open" ELSE "off")
    /\ UNCHANGED file

(* A file that was there is only read: it is this version's, or refused.   *)
Validate ==
    /\ Open("validate", IF app = 1 /\ version = Latest THEN "open" ELSE "off")
    /\ UNCHANGED file

DbClose == Open("open", "off") /\ UNCHANGED file

Daemon ==
    \/ Stat \/ CreatePrivate \/ CreateSchema \/ OpenFails
    \/ StampApp \/ StampVersion \/ StampFails \/ Validate \/ DbClose
--------------------------------------------------------------------------------
(* do_migrate *)

Goto(from, to) == mpc = from /\ mpc' = to

Exit(from, status) ==
    /\ Goto(from, "off")
    /\ rc' = status
    /\ UNCHANGED <<opts, current, start, applied, lost, file, dpc, kills>>

(* main's checks of its arguments are in Options. *)
Start(o) ==
    /\ Goto("off", IF exists = 1 THEN "preflight" ELSE "off")
    /\ opts' = o
    /\ applied' = 0
    /\ lost' = 0
    /\ rc' = IF exists = 1 THEN Running ELSE 0
    /\ UNCHANGED <<file, dpc, current, start, disk, kills>>

(* migrate_preflight *)
Preflight ==
    /\ app = 1 /\ schema # Unmade
    /\ Goto("preflight", "route")
    /\ current' = version
    /\ start' = version
    /\ UNCHANGED <<file, dpc, opts, applied, lost, rc, disk, kills>>

(* The file is damaged, or another program's, or `db exec` failed. *)
PreflightFails == Exit("preflight", 1) /\ UNCHANGED disk

UpToDate == current = Latest /\ Exit("route", 0) /\ UNCHANGED disk

(* A later minimoni's database. *)
TooNew == current > Latest /\ Exit("route", 1) /\ UNCHANGED disk

(* Where a copy is made.  A dry run's name holds its process id: what a    *)
(* killed one left is cleared if that id comes round again, as it does here. *)
CopyName == IF opts.dry = 1 THEN Scratch ELSE start

(* verify_source, unless --force *)
Verified ==
    /\ current < Latest
    /\ opts.force = 1 \/ (canonical = 1 /\ schema = current)
    /\ Goto("route", IF opts.dry = 1 \/ opts.backup = 1 THEN "clear" ELSE "apply")
    /\ UNCHANGED <<file, dpc, run, disk, kills>>

VerifyFails ==
    /\ current < Latest /\ opts.force = 0
    /\ Exit("route", 1)
    /\ UNCHANGED disk

(* migrate_snapshot: an earlier temporary file and its side files go... *)
Clear ==
    /\ Goto("clear", "fill")
    /\ IF opts.dry = 1
       THEN copy' = [copy EXCEPT ![Scratch] = Absent]
            /\ side' = [side EXCEPT ![Scratch] = "none"]
       ELSE UNCHANGED <<copy, side>>
    /\ tmp' = [tmp EXCEPT ![CopyName] = Unmade]
    /\ UNCHANGED <<file, dpc, run, kills>>

(* ...VACUUM INTO it... *)
Fill ==
    /\ Goto("fill", "sides")
    /\ tmp' = [tmp EXCEPT ![CopyName] = version]
    /\ UNCHANGED <<file, dpc, run, copy, side, kills>>

(* ...the side files of the copy it replaces go too... *)
ClearSides ==
    /\ Goto("sides", "rename")
    /\ side' = [side EXCEPT ![CopyName] = "none"]
    /\ UNCHANGED <<file, dpc, run, tmp, copy, kills>>

(* ...and it takes that copy's place. *)
Rename ==
    /\ Goto("rename", "apply")
    /\ copy' = [copy EXCEPT ![CopyName] = tmp[CopyName]]
    /\ tmp' = [tmp EXCEPT ![CopyName] = Absent]
    /\ side' = [side EXCEPT ![CopyName] = IF @ = "none" THEN "none" ELSE "foreign"]
    /\ UNCHANGED <<file, dpc, run, kills>>

(* Mutant: the copy is given up and the migration goes on. *)
SnapshotFails_GoesOn ==
    /\ mpc \in {"clear", "fill", "sides", "rename"}
    /\ mpc' = "apply"
    /\ tmp' = [tmp EXCEPT ![CopyName] = Absent]
    /\ UNCHANGED <<file, dpc, run, copy, side, kills>>

(* A step of the copy fails: the temporary file is removed. *)
SnapshotFails ==
    \E step \in {"clear", "fill", "sides", "rename"} :
        /\ Exit(step, IF opts.dry = 1 THEN 1 ELSE 3)
        /\ tmp' = [tmp EXCEPT ![CopyName] = Absent]
        /\ UNCHANGED <<copy, side>>

(* One script, BEGIN to COMMIT, works on the columns of the version it     *)
(* starts from.                                                            *)
Commit(step) ==
    /\ schema = step
    /\ schema' = step + 1 /\ version' = step + 1
    /\ compacted' = 0
    /\ UNCHANGED <<exists, canonical, app>>

(* The script of one step, in one `db exec`. *)
Apply ==
    /\ mpc = "apply" /\ current < Latest
    /\ IF opts.dry = 1
       THEN /\ copy' = [copy EXCEPT ![Scratch] = current + 1]
            /\ UNCHANGED <<file, applied, tmp, side>>
       ELSE Commit(current) /\ applied' = applied + 1 /\ UNCHANGED disk
    /\ current' = current + 1
    /\ UNCHANGED <<dpc, mpc, opts, start, lost, rc, kills>>

(* A step that failed, or is taken to have: the loop breaks. *)
Broken ==
    /\ mpc = "apply" /\ current < Latest
    /\ Goto("apply", "off")
    /\ rc' = IF opts.dry = 1 THEN 1 ELSE 2
    /\ copy' = IF opts.dry = 1 THEN [copy EXCEPT ![Scratch] = Absent] ELSE copy
    /\ UNCHANGED <<opts, current, start, dpc, tmp, side, kills>>

(* Mutant: a failed step exits as a refusal does. *)
ApplyFails_AsRefusal ==
    /\ mpc = "apply" /\ current < Latest
    /\ Exit("apply", 1)
    /\ UNCHANGED disk

(* A statement of it fails, or the child is killed before its COMMIT: the  *)
(* database is closed, which rolls the transaction back.  migrate_exec     *)
(* gives the child's status, or none of its own: -1 or -3.                 *)
ApplyFails ==
    /\ Broken
    /\ lost' \in {0, 1}
    /\ UNCHANGED <<file, applied>>

(* The child has committed, but waitpid fails, or the child is killed      *)
(* before it exits: -1 or -3 again, and `rc != 0` is all that is looked at.*)
ApplyUntold ==
    /\ opts.dry = 0 /\ Broken
    /\ Commit(current)
    /\ applied' = applied + 1
    /\ lost' = 1

Rehearsed ==
    /\ current = Latest /\ opts.dry = 1
    /\ Exit("apply", 0)
    /\ copy' = [copy EXCEPT ![Scratch] = Absent]
    /\ UNCHANGED <<tmp, side>>

(* migrate_consolidate_and_vacuum: passes as in Consolidation, then VACUUM. *)
Compact ==
    /\ current = Latest /\ opts.dry = 0
    /\ Goto("apply", "off")
    /\ compacted' = 1
    /\ rc' = 0
    /\ UNCHANGED <<exists, schema, canonical, app, version, dpc, opts, current, start,
                   applied, lost, disk, kills>>

CompactFails ==
    current = Latest /\ opts.dry = 0 /\ Exit("apply", 2) /\ UNCHANGED disk

Migrate ==
    \/ \E o \in Options : Start(o)
    \/ Preflight \/ PreflightFails \/ UpToDate \/ TooNew \/ Verified \/ VerifyFails
    \/ Clear \/ Fill \/ ClearSides \/ Rename \/ SnapshotFails
    \/ Apply \/ ApplyFails \/ ApplyUntold \/ Rehearsed \/ Compact \/ CompactFails
--------------------------------------------------------------------------------
(* A process is killed: what it wrote so far stays. *)
CrashDaemon ==
    /\ dpc # "off" /\ crashes < MaxCrashes
    /\ dpc' = "off"
    /\ crashes' = crashes + 1
    /\ UNCHANGED <<file, mpc, run, disk, orphans>>

(* The child it waits for is not killed with it: the script is in the      *)
(* child's arguments, so nothing keeps it from going on.                   *)
CrashMigrate ==
    /\ mpc # "off" /\ crashes < MaxCrashes
    /\ mpc' = "off"
    /\ rc' = Running
    /\ crashes' = crashes + 1
    /\ \/ UNCHANGED orphans
       \/ /\ mpc = "apply" /\ current < Latest /\ opts.dry = 0
          /\ orphans' = orphans \cup {current}
    /\ UNCHANGED <<file, dpc, opts, current, start, applied, lost, disk>>

(* A child left behind ends, whatever runs beside it by then. *)
OrphanCommits(step) ==
    /\ step \in orphans
    /\ Commit(step)
    /\ orphans' = orphans \ {step}
    /\ UNCHANGED <<dpc, mpc, run, disk, crashes>>

OrphanFails(step) ==
    /\ step \in orphans
    /\ orphans' = orphans \ {step}
    /\ UNCHANGED <<file, dpc, mpc, run, disk, crashes>>

(* An operator opens a backup, and the program he opened it with leaves    *)
(* its side files: at any time but between the removal of those and the    *)
(* rename.                                                                 *)
Inspect(c) ==
    /\ copy[c] # Absent /\ side[c] = "none" /\ mpc # "rename"
    /\ side' = [side EXCEPT ![c] = "kept"]
    /\ UNCHANGED <<file, dpc, mpc, run, tmp, copy, kills>>

Next ==
    \/ Daemon \/ Migrate
    \/ CrashDaemon \/ CrashMigrate
    \/ \E step \in Old : OrphanCommits(step) \/ OrphanFails(step)
    \/ \E c \in Old : Inspect(c)

Spec == Init /\ [][Next]_vars
--------------------------------------------------------------------------------
(* Properties *)

(* The stamp never promises columns the tables lack: a user_version other  *)
(* than 0 is that of the schema, whoever was killed, and however db_open,  *)
(* minimoni-migrate and a `db exec` it left behind interleave ("version    *)
(* pragmas written here would claim columns an older schema lacks",        *)
(* db_open).                                                               *)
StampTruthful == exists = 1 /\ version > 0 => schema = version

(* db_open hands no database to the daemon whose tables are not this       *)
(* version's, whether it made the file, found one that an earlier start or *)
(* a migration was killed over, or has one migrated under it.              *)
OpenedIsLatest == dpc = "open" => schema = Latest

(* "A copy of the DB is taken before any write" (ADR-0006): when a run     *)
(* that makes a backup has changed the database, or was killed after it    *)
(* did, a whole copy of the database it found is in place; and no copy in  *)
(* place is half made, or has another database's side files beside it.     *)
BackupBeforeWrite ==
    /\ applied > 0 /\ opts.backup = 1 => copy[start] = start
    /\ \A c \in Old : copy[c] # Unmade /\ side[c] # "foreign"

(* "1 when it refuses before changing anything", "3 when the backup cannot *)
(* be made, leaving the database as it was", a dry run "changes nothing",  *)
(* and 0 is for a database that is migrated and compacted (README).  2 "is *)
(* when a migration step fails and is rolled back": the steps that took    *)
(* are those the run went past, when migrate_exec could tell.              *)
ExitHonest ==
    /\ rc \in {1, 3} \/ opts.dry = 1 => applied = 0
    /\ rc = 0 /\ applied > 0 => version = Latest /\ compacted = 1
    /\ rc = 2 /\ lost = 0 => applied = current - start

(* The same words without the condition: after a 2 the database is where   *)
(* the last step that was not reported to fail had left it.  The code does *)
(* not keep to it when the child committed and had no status to give.      *)
RolledBack == rc = 2 => applied = current - start
================================================================================
