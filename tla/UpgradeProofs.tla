------------------------------ MODULE UpgradeProofs ----------------------------
(***************************************************************************)
(* db_open and minimoni-migrate on one file, for every schema version and  *)
(* any number of kills.  The inductive invariant has four parts: what the  *)
(* file can be while the daemon creates it, how far the children left      *)
(* behind are, what a run of migrate knows of the file at each of its      *)
(* steps, and what its copies are by then.  They need each other: a run    *)
(* never meets a file half made because it goes on only from one stamped,  *)
(* the daemon's late stamps never spoil a run because they find the schema *)
(* already the latest, and a child left behind cannot commit under a run   *)
(* that has committed a step, because its own step is then past.           *)
(***************************************************************************)
EXTENDS Upgrade, TLAPS

CopySteps == {"clear", "fill", "sides", "rename"}

Contents == -2..(Latest + 1)

Typed ==
    /\ exists \in {0, 1} /\ canonical \in {0, 1} /\ app \in {0, 1}
    /\ schema \in -1..(Latest + 1) /\ version \in 0..(Latest + 1) /\ compacted \in {0, 1}
    /\ dpc \in {"off", "create", "schema", "app", "version", "validate", "open"}
    /\ mpc \in {"off", "preflight", "route", "apply"} \cup CopySteps
    /\ opts \in Options
    /\ current \in 0..(Latest + 1) /\ start \in 0..(Latest + 1)
    /\ applied \in Nat /\ lost \in {0, 1} /\ rc \in {Running, 0, 1, 2, 3}
    /\ orphans \subseteq Old
    /\ tmp \in [Copies -> Contents] /\ copy \in [Copies -> Contents]
    /\ side \in [Copies -> {"none", "kept", "foreign"}]
    /\ crashes \in Nat

(* The file as the daemon makes it, and its stamp. *)
MadeInOrder ==
    /\ exists = 0 \/ dpc = "schema" => schema = Unmade /\ version = 0 /\ app = 0
    /\ dpc = "create" => exists = 0
    /\ dpc = "schema" => exists = 1
    /\ dpc \in {"app", "version"} => schema = Latest
    /\ version > 0 => schema = version

(* The step a child left behind works on is not one the file has yet to    *)
(* reach.                                                                  *)
Behind == \A step \in orphans : step <= schema

(* What a run of migrate knows: it has found a stamped file, and what it   *)
(* found is still there unless it has changed it itself, the daemon has    *)
(* put the stamp its new file lacked, or an earlier run's child has        *)
(* committed after all.  Once it has committed a step itself, no such      *)
(* child can.                                                              *)
Found ==
    /\ mpc # "off" => rc = Running /\ lost = 0
    /\ mpc \notin {"off", "apply"} => applied = 0
    /\ mpc \in {"route", "apply"} \cup CopySteps => app = 1 /\ schema >= start
    /\ mpc \in {"route"} \cup CopySteps => current = start
    /\ mpc \in {"apply"} \cup CopySteps => start < Latest
    /\ mpc = "apply" => current <= Latest
    /\ mpc = "apply" /\ opts.dry = 0 => applied = current - start
    /\ mpc = "apply" /\ applied > 0 =>
         /\ schema = current /\ version = current
         /\ \A step \in orphans : step < schema
    /\ mpc \in {"route"} \cup CopySteps => version = start \/ schema > start

(* What is in the copies.  A copy of a file that was stamped, or that such *)
(* a child moved on, since the run found it may be of another version;     *)
(* that run will change nothing.                                           *)
Copied ==
    /\ mpc \in {"sides", "rename"} =>
         /\ tmp[CopyName] \in Nat
         /\ opts.dry = 0 => tmp[start] = start \/ schema > start
    /\ mpc = "rename" => side[CopyName] = "none"
    /\ mpc = "apply" /\ applied = 0 /\ opts.dry = 0 /\ opts.backup = 1 =>
         copy[start] = start \/ schema > start

IInv ==
    /\ Typed /\ MadeInOrder /\ Behind /\ Found /\ Copied
    /\ OpenedIsLatest /\ BackupBeforeWrite /\ ExitHonest
--------------------------------------------------------------------------------
LEMMA InitIInv == Init => IInv
<1> SUFFICES ASSUME Init PROVE IInv
    OBVIOUS
<1>1. Typed
    BY UpgradeAssumption DEF Init, Typed, Options, Newer, Unmade, Absent, Contents, Running
<1>2. MadeInOrder /\ Behind /\ Found /\ Copied
    BY UpgradeAssumption DEF Init, MadeInOrder, Behind, Found, Copied, Newer, Unmade, CopySteps
<1>3. OpenedIsLatest /\ BackupBeforeWrite /\ ExitHonest
    BY UpgradeAssumption DEF Init, OpenedIsLatest, BackupBeforeWrite, ExitHonest, Absent, Unmade,
                             Old, Copies, Running
<1>4. QED
    BY <1>1, <1>2, <1>3 DEF IInv

(* The daemon's steps: they change the file, and nothing of a run. *)
LEMMA DaemonIInv == ASSUME IInv, Daemon PROVE IInv'
<1> USE UpgradeAssumption DEF Open, file, disk, run, kills
<1>0. /\ UNCHANGED <<mpc, opts, current, start, applied, lost, rc>>
      /\ UNCHANGED <<tmp, copy, side, orphans, crashes, compacted>>
    BY DEF Daemon, Stat, CreatePrivate, CreateSchema, OpenFails, StampApp, StampVersion,
           StampFails, Validate, DbClose
<1>1. Typed'
    BY <1>0 DEF IInv, Typed, Daemon, Stat, CreatePrivate, CreateSchema, OpenFails, StampApp,
           StampVersion, StampFails, Validate, DbClose
<1>2. /\ MadeInOrder' /\ OpenedIsLatest'
      /\ schema' = schema \/ (schema' = Latest /\ schema < Latest /\ app = 0)
      /\ version' = version \/ (version' = Latest /\ schema' = Latest)
      /\ app = 1 => app' = 1
    <2> USE DEF IInv, Typed, MadeInOrder, OpenedIsLatest, Unmade
    <2>1. CASE Stat \/ OpenFails \/ StampFails \/ Validate \/ DbClose
        BY <2>1 DEF Stat, OpenFails, StampFails, Validate, DbClose
    <2>2. CASE CreatePrivate
        BY <2>2 DEF CreatePrivate
    <2>3. CASE CreateSchema
        BY <2>3 DEF CreateSchema
    <2>4. CASE StampApp \/ StampVersion
        BY <2>4 DEF StampApp, StampVersion
    <2>5. QED
        BY <2>1, <2>2, <2>3, <2>4 DEF Daemon
<1>3. schema' >= schema /\ schema \in Int /\ schema' \in Int
    BY <1>1, <1>2 DEF IInv, Typed
<1>4. Behind'
    BY <1>0, <1>3 DEF IInv, Typed, Behind, Old
<1>5. Found'
    BY <1>0, <1>2, <1>3 DEF IInv, Typed, Found, CopySteps
<1>6. Copied'
    BY <1>0, <1>2, <1>3 DEF IInv, Typed, Copied, CopyName
<1>7. BackupBeforeWrite' /\ ExitHonest'
    BY <1>0, <1>2 DEF IInv, BackupBeforeWrite, ExitHonest
<1>8. QED
    BY <1>1, <1>2, <1>4, <1>5, <1>6, <1>7 DEF IInv

(* A run's steps that end it, before it has changed anything or after.     *)
(* Only where steps are applied is the status 2.                           *)
LEMMA ExitIInv ==
    ASSUME IInv, NEW st \in {0, 1, 2, 3}, NEW from, Exit(from, st), from # "off",
           tmp' \in [Copies -> Contents], copy' \in [Copies -> Contents], side' = side,
           \A c \in Old : copy'[c] = copy[c],
           applied > 0 => st = 2,
           st = 2 => from = "apply" /\ opts.dry = 0
    PROVE  IInv'
<1> USE UpgradeAssumption DEF Exit, Goto, file, kills
<1>1. Typed'
    BY DEF IInv, Typed
<1>2. MadeInOrder' /\ Behind' /\ OpenedIsLatest'
    BY DEF IInv, MadeInOrder, Behind, OpenedIsLatest
<1>3. Found' /\ Copied'
    BY DEF IInv, Found, Copied, CopySteps
<1>4. applied > 0 => start \in Old
    BY DEF IInv, Typed, Found, Old
<1>5. BackupBeforeWrite'
    BY <1>4 DEF IInv, BackupBeforeWrite
<1>6. ExitHonest'
    BY DEF IInv, Typed, Found, ExitHonest
<1>7. QED
    BY <1>1, <1>2, <1>3, <1>5, <1>6 DEF IInv

(* One more name filled, or emptied. *)
LEMMA Put ==
    ASSUME NEW f \in [Copies -> Contents], NEW c, NEW v \in Contents
    PROVE  [f EXCEPT ![c] = v] \in [Copies -> Contents]
OBVIOUS

LEMMA ContentsType ==
    /\ Unmade \in Contents /\ Absent \in Contents
    /\ Typed => version \in Contents /\ tmp \in [Copies -> Contents]
BY UpgradeAssumption DEF Contents, Unmade, Absent, Typed

LEMMA OptionType == ASSUME IInv PROVE opts.dry \in {0, 1} /\ opts.backup \in {0, 1}
BY DEF IInv, Typed, Options

(* The copy's name is one of the names there are, and only a dry run uses  *)
(* the one that is no backup.                                              *)
LEMMA CopyNameType ==
    ASSUME IInv, mpc \in CopySteps
    PROVE  /\ CopyName \in Copies /\ start \in Old /\ applied = 0
           /\ opts.dry = 0 => CopyName = start
           /\ opts.dry = 1 => CopyName \notin Old
<1>1. start \in Old /\ applied = 0
    BY UpgradeAssumption DEF IInv, Typed, Found, Old, CopySteps
<1>2. QED
    BY <1>1, OptionType, UpgradeAssumption DEF CopyName, Copies, Scratch, Old

(* What a committed step leaves of the invariant, whoever commits it.      *)
LEMMA CommitKeeps ==
    ASSUME IInv, NEW step \in Old, Commit(step), dpc' = dpc
    PROVE  /\ schema = step /\ schema' = step + 1 /\ version' = step + 1 /\ compacted' = 0
           /\ schema < Latest /\ version # Latest /\ schema \in Nat
           /\ MadeInOrder' /\ OpenedIsLatest'
<1>1. /\ schema = step /\ schema' = step + 1 /\ version' = step + 1 /\ compacted' = 0
      /\ UNCHANGED <<exists, canonical, app>> /\ step \in Nat /\ step < Latest
    BY UpgradeAssumption DEF Commit, Old
<1>2. QED
    BY <1>1, UpgradeAssumption DEF IInv, MadeInOrder, OpenedIsLatest, Unmade

(* A step that failed, or has committed and is taken to have failed. *)
LEMMA BrokenIInv == ASSUME IInv, ApplyFails \/ ApplyUntold PROVE IInv'
<1> USE UpgradeAssumption DEF Goto, file, kills
<1>1. /\ mpc = "apply" /\ current < Latest /\ mpc' = "off"
      /\ rc' = IF opts.dry = 1 THEN 1 ELSE 2
      /\ UNCHANGED <<opts, current, start, dpc, tmp, side, orphans, crashes>>
      /\ \A c \in Old : copy'[c] = copy[c]
      /\ copy' \in [Copies -> Contents]
    BY DEF ApplyFails, ApplyUntold, Broken, IInv, Typed, Contents, Absent, Scratch, Old, Copies
<1>2. /\ start \in Old /\ current \in Nat /\ applied \in Nat /\ opts.dry \in {0, 1}
      /\ opts.dry = 0 => applied = current - start
      /\ opts.dry = 1 => applied = 0
    BY <1>1, OptionType DEF IInv, Typed, Found, ExitHonest, Old
<1>3. CASE ApplyFails
    <2>1. UNCHANGED <<file, applied>> /\ lost' \in {0, 1}
        BY <1>3 DEF ApplyFails
    <2>2. Typed'
        BY <1>1, <2>1 DEF IInv, Typed
    <2>3. MadeInOrder' /\ Behind' /\ OpenedIsLatest'
        BY <1>1, <2>1 DEF IInv, MadeInOrder, Behind, OpenedIsLatest
    <2>4. Found' /\ Copied'
        BY <1>1, <2>1 DEF Found, Copied, CopySteps
    <2>5. BackupBeforeWrite' /\ ExitHonest'
        BY <1>1, <1>2, <2>1 DEF IInv, BackupBeforeWrite, ExitHonest
    <2>6. QED
        BY <2>2, <2>3, <2>4, <2>5 DEF IInv
<1>4. CASE ApplyUntold
    <2>1. opts.dry = 0 /\ Commit(current) /\ applied' = applied + 1 /\ lost' = 1
        BY <1>4 DEF ApplyUntold
    <2>2. /\ schema = current /\ schema' = current + 1 /\ version' = current + 1
          /\ compacted' = 0 /\ schema < Latest /\ schema \in Nat
          /\ MadeInOrder' /\ OpenedIsLatest'
        <3>1. current \in Old
            BY <1>1, <1>2 DEF Old
        <3>2. QED
            BY <1>1, <2>1, <3>1, CommitKeeps
    <2>3. Typed'
        <3>1. UNCHANGED <<exists, canonical, app>>
            BY <2>1 DEF Commit
        <3>2. QED
            BY <1>1, <1>2, <2>1, <2>2, <3>1 DEF IInv, Typed
    <2>4. Behind'
        BY <1>1, <2>2 DEF IInv, Typed, Behind, Old
    <2>5. Found' /\ Copied'
        BY <1>1, <2>1 DEF Found, Copied, CopySteps
    <2>6. opts.backup = 1 => copy[start] = start
        BY <1>1, <1>2, <2>1, <2>2 DEF IInv, Copied, BackupBeforeWrite, Old
    <2>7. BackupBeforeWrite' /\ ExitHonest'
        BY <1>1, <1>2, <2>1, <2>6 DEF IInv, BackupBeforeWrite, ExitHonest
    <2>8. QED
        BY <2>2, <2>3, <2>4, <2>5, <2>7 DEF IInv
<1>5. QED
    BY <1>3, <1>4

LEMMA MigrateIInv == ASSUME IInv, Migrate PROVE IInv'
<1> USE UpgradeAssumption DEF Goto, file, run, disk, kills
<1>1. ASSUME NEW o \in Options, Start(o) PROVE IInv'
    <2>1. /\ UNCHANGED <<exists, schema, canonical, app, version, compacted, dpc>>
          /\ UNCHANGED <<current, start, tmp, copy, side, orphans, crashes>>
          /\ opts' = o /\ applied' = 0 /\ lost' = 0
          /\ mpc' \in {"off", "preflight"} /\ rc' \in {Running, 0}
          /\ mpc' = "preflight" => rc' = Running
        BY <1>1 DEF Start
    <2>2. Typed'
        BY <2>1 DEF IInv, Typed
    <2>3. MadeInOrder' /\ Behind' /\ OpenedIsLatest'
        BY <2>1 DEF IInv, MadeInOrder, Behind, OpenedIsLatest
    <2>4. Found' /\ Copied'
        BY <2>1 DEF Found, Copied, CopySteps
    <2>5. BackupBeforeWrite' /\ ExitHonest'
        BY <2>1 DEF IInv, BackupBeforeWrite, ExitHonest, Running
    <2>6. QED
        BY <2>2, <2>3, <2>4, <2>5 DEF IInv
<1>2. CASE Preflight
    <2>1. /\ UNCHANGED <<exists, schema, canonical, app, version, compacted, dpc>>
          /\ UNCHANGED <<opts, applied, lost, rc, tmp, copy, side, orphans, crashes>>
          /\ app = 1 /\ schema # Unmade /\ mpc = "preflight" /\ mpc' = "route"
          /\ current' = version /\ start' = version
        BY <1>2 DEF Preflight
    <2>2. applied = 0 /\ lost = 0 /\ rc = Running /\ schema >= version
        BY <2>1 DEF IInv, Typed, MadeInOrder, Found, CopySteps, Unmade
    <2>3. Typed'
        BY <2>1 DEF IInv, Typed
    <2>4. MadeInOrder' /\ Behind' /\ OpenedIsLatest'
        BY <2>1 DEF IInv, MadeInOrder, Behind, OpenedIsLatest
    <2>5. Found' /\ Copied'
        BY <2>1, <2>2 DEF Found, Copied, CopySteps
    <2>6. BackupBeforeWrite' /\ ExitHonest'
        BY <2>1, <2>2 DEF BackupBeforeWrite, ExitHonest, IInv, Running
    <2>7. QED
        BY <2>3, <2>4, <2>5, <2>6 DEF IInv
<1>3. CASE PreflightFails \/ UpToDate \/ TooNew \/ VerifyFails
    <2>1. PICK st \in {0, 1}, from \in {"preflight", "route"} :
            Exit(from, st) /\ UNCHANGED <<tmp, copy, side>>
        BY <1>3 DEF PreflightFails, UpToDate, TooNew, VerifyFails
    <2>2. applied = 0
        BY <2>1 DEF IInv, Found, Exit, Goto
    <2>3. tmp' \in [Copies -> Contents] /\ copy' \in [Copies -> Contents]
        BY <2>1 DEF IInv, Typed
    <2>4. QED
        BY <2>1, <2>2, <2>3, ExitIInv
<1>4. CASE Verified
    <2>1. /\ UNCHANGED <<exists, schema, canonical, app, version, compacted, dpc>>
          /\ UNCHANGED <<opts, current, start, applied, lost, rc, tmp, copy, side, orphans, crashes>>
          /\ current < Latest /\ mpc = "route" /\ mpc' \in {"clear", "apply"}
          /\ mpc' = "apply" => opts.backup # 1
        BY <1>4 DEF Verified
    <2>2. applied = 0 /\ lost = 0 /\ rc = Running
        BY <2>1 DEF IInv, Typed, Found, CopySteps
    <2>3. Typed'
        BY <2>1 DEF IInv, Typed, CopySteps
    <2>4. MadeInOrder' /\ Behind' /\ OpenedIsLatest'
        BY <2>1 DEF IInv, MadeInOrder, Behind, OpenedIsLatest
    <2>5. Found' /\ Copied'
        BY <2>1, <2>2 DEF IInv, Typed, Found, Copied, CopySteps
    <2>6. BackupBeforeWrite' /\ ExitHonest'
        BY <2>1, <2>2 DEF IInv, BackupBeforeWrite, ExitHonest
    <2>7. QED
        BY <2>3, <2>4, <2>5, <2>6 DEF IInv
<1>5. CASE Clear
    <2>0. mpc \in CopySteps /\ mpc = "clear"
        BY <1>5 DEF Clear, CopySteps
    <2>1. /\ UNCHANGED <<exists, schema, canonical, app, version, compacted, dpc>>
          /\ UNCHANGED <<opts, current, start, applied, lost, rc, orphans, crashes>>
          /\ mpc' = "fill" /\ tmp' = [tmp EXCEPT ![CopyName] = Unmade]
        BY <1>5 DEF Clear
    <2>2. /\ copy' \in [Copies -> Contents] /\ side' \in [Copies -> {"none", "kept", "foreign"}]
          /\ \A c \in Old : copy'[c] = copy[c] /\ side'[c] = side[c]
        BY <1>5 DEF Clear, IInv, Typed, Contents, Absent, Scratch, Old, Copies
    <2>3. Typed'
        <3>1. tmp' \in [Copies -> Contents]
            BY <2>1, Put, ContentsType DEF IInv
        <3>2. QED
            BY <2>1, <2>2, <3>1 DEF IInv, Typed, CopySteps
    <2>4. MadeInOrder' /\ Behind' /\ OpenedIsLatest'
        BY <2>1 DEF IInv, MadeInOrder, Behind, OpenedIsLatest
    <2>5. Found' /\ Copied'
        BY <2>0, <2>1 DEF IInv, Found, Copied, CopySteps
    <2>6. BackupBeforeWrite' /\ ExitHonest'
        BY <2>0, <2>1, <2>2, CopyNameType DEF IInv, BackupBeforeWrite, ExitHonest
    <2>7. QED
        BY <2>3, <2>4, <2>5, <2>6 DEF IInv
<1>6. CASE Fill
    <2>0. mpc \in CopySteps /\ mpc = "fill"
        BY <1>6 DEF Fill, CopySteps
    <2>1. /\ UNCHANGED <<exists, schema, canonical, app, version, compacted, dpc>>
          /\ UNCHANGED <<opts, current, start, applied, lost, rc, copy, side, orphans, crashes>>
          /\ mpc' = "sides" /\ tmp' = [tmp EXCEPT ![CopyName] = version]
        BY <1>6 DEF Fill
    <2>2. CopyName' = CopyName /\ tmp'[CopyName] = version
        BY <2>0, <2>1, CopyNameType DEF IInv, Typed, CopyName
    <2>3. Typed'
        <3>1. tmp' \in [Copies -> Contents]
            BY <2>1, Put, ContentsType DEF IInv
        <3>2. QED
            BY <2>1, <3>1 DEF IInv, Typed, CopySteps
    <2>4. MadeInOrder' /\ Behind' /\ OpenedIsLatest'
        BY <2>1 DEF IInv, MadeInOrder, Behind, OpenedIsLatest
    <2>5. Found'
        BY <2>0, <2>1 DEF IInv, Found, CopySteps
    <2>6. Copied'
        BY <2>0, <2>1, <2>2, CopyNameType DEF IInv, Typed, Found, Copied, CopySteps
    <2>7. BackupBeforeWrite' /\ ExitHonest'
        BY <2>1 DEF IInv, BackupBeforeWrite, ExitHonest
    <2>8. QED
        BY <2>3, <2>4, <2>5, <2>6, <2>7 DEF IInv
<1>7. CASE ClearSides
    <2>0. mpc \in CopySteps /\ mpc = "sides"
        BY <1>7 DEF ClearSides, CopySteps
    <2>1. /\ UNCHANGED <<exists, schema, canonical, app, version, compacted, dpc>>
          /\ UNCHANGED <<opts, current, start, applied, lost, rc, tmp, copy, orphans, crashes>>
          /\ mpc' = "rename" /\ side' = [side EXCEPT ![CopyName] = "none"]
        BY <1>7 DEF ClearSides
    <2>2. CopyName' = CopyName /\ side'[CopyName] = "none"
        BY <2>0, <2>1, CopyNameType DEF IInv, Typed, CopyName
    <2>3. Typed'
        BY <2>1 DEF IInv, Typed, CopySteps
    <2>4. MadeInOrder' /\ Behind' /\ OpenedIsLatest'
        BY <2>1 DEF IInv, MadeInOrder, Behind, OpenedIsLatest
    <2>5. Found' /\ Copied'
        BY <2>0, <2>1, <2>2 DEF IInv, Found, Copied, CopySteps
    <2>6. BackupBeforeWrite' /\ ExitHonest'
        BY <2>0, <2>1, CopyNameType DEF IInv, Typed, BackupBeforeWrite, ExitHonest, Copies
    <2>7. QED
        BY <2>3, <2>4, <2>5, <2>6 DEF IInv
<1>8. CASE Rename
    <2>0. mpc \in CopySteps /\ mpc = "rename"
        BY <1>8 DEF Rename, CopySteps
    <2>1. /\ UNCHANGED <<exists, schema, canonical, app, version, compacted, dpc>>
          /\ UNCHANGED <<opts, current, start, applied, lost, rc, orphans, crashes>>
          /\ mpc' = "apply" /\ tmp' = [tmp EXCEPT ![CopyName] = Absent]
          /\ copy' = [copy EXCEPT ![CopyName] = tmp[CopyName]]
        BY <1>8 DEF Rename
    <2>2. side' = side
        BY <1>8, <2>0, CopyNameType DEF Rename, IInv, Typed, Copied
    <2>3. Typed'
        <3>1. tmp[CopyName] \in Contents
            BY <2>0, CopyNameType DEF IInv, Typed
        <3>2. tmp' \in [Copies -> Contents] /\ copy' \in [Copies -> Contents]
            BY <2>1, <3>1, Put, ContentsType DEF IInv, Typed
        <3>3. QED
            BY <2>1, <2>2, <3>2 DEF IInv, Typed
    <2>4. MadeInOrder' /\ Behind' /\ OpenedIsLatest'
        BY <2>1 DEF IInv, MadeInOrder, Behind, OpenedIsLatest
    <2>5. Found'
        BY <2>0, <2>1, CopyNameType DEF IInv, Typed, Found, CopySteps
    <2>6. Copied'
        BY <2>0, <2>1, CopyNameType DEF IInv, Typed, Copied
    <2>7. BackupBeforeWrite' /\ ExitHonest'
        <3>1. tmp[CopyName] # Unmade
            BY <2>0 DEF IInv, Copied, Unmade
        <3>2. \A c \in Old : copy'[c] # Unmade /\ side'[c] # "foreign"
            BY <2>1, <2>2, <3>1 DEF IInv, Typed, BackupBeforeWrite, Copies
        <3>3. QED
            BY <2>0, <2>1, <3>2, CopyNameType DEF IInv, BackupBeforeWrite, ExitHonest
    <2>8. QED
        BY <2>3, <2>4, <2>5, <2>6, <2>7 DEF IInv
<1>9. CASE SnapshotFails
    <2>1. PICK step \in CopySteps : Exit(step, IF opts.dry = 1 THEN 1 ELSE 3)
        BY <1>9 DEF SnapshotFails, CopySteps
    <2>2. tmp' \in [Copies -> Contents] /\ UNCHANGED <<copy, side>>
        <3>1. tmp' = [tmp EXCEPT ![CopyName] = Absent] /\ UNCHANGED <<copy, side>>
            BY <1>9 DEF SnapshotFails
        <3>2. QED
            BY <3>1, Put, ContentsType DEF IInv
    <2>3. step # "off" /\ applied = 0
        BY <2>1, CopyNameType DEF Exit, CopySteps
    <2>4. copy' \in [Copies -> Contents]
        BY <2>2 DEF IInv, Typed
    <2>5. QED
        BY <2>1, <2>2, <2>3, <2>4, ExitIInv
<1>10. CASE Apply
    <2>1. /\ UNCHANGED <<exists, canonical, app, dpc, mpc, opts, start, lost, rc>>
          /\ UNCHANGED <<tmp, side, orphans, crashes>>
          /\ mpc = "apply" /\ current < Latest /\ current' = current + 1
        BY <1>10 DEF Apply, Commit
    <2>2. /\ rc = Running /\ lost = 0 /\ start \in Nat /\ current \in Nat /\ Latest \in Nat
          /\ applied \in Nat /\ schema \in Int
        BY <2>1 DEF IInv, Found, Typed
    <2>3. CASE opts.dry = 1
        <3>1. /\ UNCHANGED <<schema, version, compacted, applied>> /\ applied = 0
              /\ copy' = [copy EXCEPT ![Scratch] = current + 1]
            BY <1>10, <2>3 DEF Apply, IInv, ExitHonest
        <3>2. Typed'
            <4>1. current + 1 \in 0..(Latest + 1) /\ current + 1 \in Contents
                BY <2>1, <2>2 DEF Contents
            <4>2. QED
                BY <2>1, <3>1, <4>1 DEF IInv, Typed
        <3>3. MadeInOrder' /\ Behind' /\ OpenedIsLatest'
            BY <2>1, <3>1 DEF IInv, MadeInOrder, Behind, OpenedIsLatest
        <3>4. Found' /\ Copied'
            BY <2>1, <2>2, <2>3, <3>1 DEF IInv, Found, Copied, CopySteps
        <3>5. BackupBeforeWrite' /\ ExitHonest'
            BY <2>1, <2>2, <3>1 DEF IInv, Typed, BackupBeforeWrite, ExitHonest, Scratch, Old,
                                    Running
        <3>6. QED
            BY <3>2, <3>3, <3>4, <3>5 DEF IInv
    <2>4. CASE opts.dry # 1
        <3>1. /\ schema = current /\ schema' = current + 1 /\ version' = current + 1
              /\ compacted' = 0 /\ applied' = applied + 1 /\ copy' = copy
            BY <1>10, <2>4 DEF Apply, Commit
        <3>2. /\ opts.dry = 0 /\ schema < Latest /\ schema # Unmade
              /\ applied = current - start
            BY <2>1, <2>2, <2>4, <3>1, OptionType DEF IInv, Found, Unmade
        <3>3. opts.backup = 1 => copy[start] = start
            BY <2>1, <2>2, <3>1, <3>2 DEF IInv, Copied, BackupBeforeWrite
        <3>4. Typed'
            <4>1. current + 1 \in 0..(Latest + 1) /\ current + 1 \in -1..(Latest + 1)
                BY <2>1, <2>2
            <4>2. QED
                BY <2>1, <2>2, <3>1, <4>1 DEF IInv, Typed
        <3>5. MadeInOrder' /\ OpenedIsLatest'
            BY <2>1, <2>2, <3>1, <3>2 DEF IInv, MadeInOrder, OpenedIsLatest
        <3>6. \A step \in orphans' : step < schema'
            BY <2>1, <2>2, <3>1 DEF IInv, Typed, Behind, Old
        <3>7. Behind'
            BY <2>2, <3>1, <3>6, <2>1 DEF IInv, Typed, Behind, Old
        <3>8. Found' /\ Copied'
            BY <2>1, <2>2, <3>1, <3>2, <3>6 DEF IInv, Found, Copied, CopySteps
        <3>9. BackupBeforeWrite' /\ ExitHonest'
            BY <2>1, <2>2, <3>1, <3>2, <3>3 DEF IInv, BackupBeforeWrite, ExitHonest, Running
        <3>10. QED
            BY <3>4, <3>5, <3>7, <3>8, <3>9 DEF IInv
    <2>5. QED
        BY <2>3, <2>4
<1>11. CASE Rehearsed \/ CompactFails
    <2>1. PICK st \in {0, 2} : Exit("apply", st) /\ opts.dry = (IF st = 2 THEN 0 ELSE 1)
        BY <1>11 DEF Rehearsed, CompactFails
    <2>2. tmp' = tmp /\ side' = side /\ copy' \in [Copies -> Contents]
          /\ \A c \in Old : copy'[c] = copy[c]
        BY <1>11 DEF Rehearsed, CompactFails, IInv, Typed, Contents, Absent, Scratch, Old, Copies
    <2>3. applied > 0 => st = 2
        BY <2>1 DEF IInv, ExitHonest
    <2>4. tmp' \in [Copies -> Contents]
        BY <2>2 DEF IInv, Typed
    <2>5. QED
        BY <2>1, <2>2, <2>3, <2>4, ExitIInv
<1>12. CASE Compact
    <2>1. /\ UNCHANGED <<exists, schema, canonical, app, version, dpc>>
          /\ UNCHANGED <<opts, current, start, applied, lost, tmp, copy, side, orphans, crashes>>
          /\ mpc = "apply" /\ mpc' = "off" /\ rc' = 0 /\ compacted' = 1
          /\ current = Latest /\ opts.dry = 0
        BY <1>12 DEF Compact
    <2>2. Typed'
        BY <2>1 DEF IInv, Typed
    <2>3. MadeInOrder' /\ Behind' /\ OpenedIsLatest'
        BY <2>1 DEF IInv, MadeInOrder, Behind, OpenedIsLatest
    <2>4. Found' /\ Copied'
        BY <2>1 DEF IInv, Found, Copied, CopySteps
    <2>5. BackupBeforeWrite' /\ ExitHonest'
        BY <2>1 DEF IInv, Found, BackupBeforeWrite, ExitHonest
    <2>6. QED
        BY <2>2, <2>3, <2>4, <2>5 DEF IInv
<1>13. CASE ApplyFails \/ ApplyUntold
    BY <1>13, BrokenIInv
<1>14. QED
    BY <1>1, <1>2, <1>3, <1>4, <1>5, <1>6, <1>7, <1>8, <1>9, <1>10, <1>11, <1>12, <1>13
    DEF Migrate

(* A child left behind ends; what it commits moves the file on, and no run *)
(* has committed a step by then.                                           *)
LEMMA OrphanIInv ==
    ASSUME IInv, NEW step \in Old, OrphanCommits(step) \/ OrphanFails(step)
    PROVE  IInv'
<1> USE UpgradeAssumption DEF run, disk
<1>1. /\ UNCHANGED <<dpc, mpc, opts, current, start, applied, lost, rc>>
      /\ UNCHANGED <<tmp, copy, side, crashes>>
      /\ orphans' \subseteq orphans /\ step \in orphans
    BY DEF OrphanCommits, OrphanFails
<1>2. CopyName' = CopyName
    BY <1>1 DEF CopyName
<1>3. CASE OrphanFails(step)
    <2>1. UNCHANGED file
        BY <1>3 DEF OrphanFails
    <2>2. Typed'
        BY <1>1, <2>1 DEF IInv, Typed, file
    <2>3. MadeInOrder' /\ Behind' /\ OpenedIsLatest'
        BY <1>1, <2>1 DEF IInv, MadeInOrder, Behind, OpenedIsLatest, file
    <2>4. Found' /\ Copied'
        BY <1>1, <1>2, <2>1 DEF IInv, Found, Copied, file
    <2>5. BackupBeforeWrite' /\ ExitHonest'
        BY <1>1, <2>1 DEF IInv, BackupBeforeWrite, ExitHonest, file
    <2>6. QED
        BY <2>2, <2>3, <2>4, <2>5 DEF IInv
<1>4. CASE OrphanCommits(step)
    <2>1. Commit(step)
        BY <1>4 DEF OrphanCommits
    <2>2. /\ schema = step /\ schema' = step + 1 /\ version' = step + 1 /\ compacted' = 0
          /\ schema < Latest /\ version # Latest /\ schema \in Nat
          /\ MadeInOrder' /\ OpenedIsLatest'
        BY <1>1, <2>1, CommitKeeps
    <2>3. UNCHANGED <<exists, canonical, app>>
        BY <2>1 DEF Commit
    <2>4. Typed'
        BY <1>1, <2>2, <2>3 DEF IInv, Typed
    <2>5. Behind'
        BY <1>1, <2>2 DEF IInv, Typed, Behind, Old
    <2>6. ~(mpc = "apply" /\ applied > 0)
        BY <1>1, <2>2 DEF IInv, Found
    <2>7. Found' /\ Copied'
        BY <1>1, <1>2, <2>2, <2>3, <2>6 DEF IInv, Typed, Found, Copied
    <2>8. BackupBeforeWrite' /\ ExitHonest'
        BY <1>1, <2>2 DEF IInv, BackupBeforeWrite, ExitHonest
    <2>9. QED
        BY <2>2, <2>4, <2>5, <2>7, <2>8 DEF IInv
<1>5. QED
    BY <1>3, <1>4

(* A kill, and an operator who looks at a backup. *)
LEMMA OtherIInv ==
    ASSUME IInv, CrashDaemon \/ CrashMigrate \/ (\E c \in Old : Inspect(c)) \/ UNCHANGED vars
    PROVE  IInv'
<1> USE UpgradeAssumption DEF file, run, disk, kills
<1>1. CASE CrashDaemon \/ CrashMigrate
    <2>1. /\ UNCHANGED <<exists, schema, canonical, app, version, compacted>>
          /\ UNCHANGED <<opts, current, start, applied, lost, tmp, copy, side>>
          /\ dpc' \in {dpc, "off"} /\ crashes' = crashes + 1
          /\ \/ mpc' = mpc /\ rc' = rc /\ orphans' = orphans
             \/ mpc' = "off" /\ rc' = Running
          /\ \/ orphans' = orphans
             \/ /\ mpc = "apply" /\ current < Latest /\ opts.dry = 0
                /\ orphans' = orphans \cup {current}
        BY <1>1 DEF CrashDaemon, CrashMigrate
    <2>2. /\ mpc = "apply" /\ current < Latest /\ opts.dry = 0 => current \in Old
          /\ mpc = "apply" /\ opts.dry = 0 => current <= schema
        BY DEF IInv, Typed, Found, Old
    <2>3. Typed'
        BY <2>1, <2>2 DEF IInv, Typed
    <2>4. MadeInOrder' /\ OpenedIsLatest'
        BY <2>1 DEF IInv, MadeInOrder, OpenedIsLatest
    <2>5. Behind'
        BY <2>1, <2>2 DEF IInv, Behind
    <2>6. CopyName' = CopyName
        BY <2>1 DEF CopyName
    <2>7. Found' /\ Copied'
        BY <2>1, <2>6 DEF IInv, Found, Copied, CopySteps
    <2>8. BackupBeforeWrite' /\ ExitHonest'
        BY <2>1 DEF IInv, BackupBeforeWrite, ExitHonest, Running
    <2>9. QED
        BY <2>3, <2>4, <2>5, <2>7, <2>8 DEF IInv
<1>2. ASSUME NEW c \in Old, Inspect(c) PROVE IInv'
    <2>1. /\ UNCHANGED <<exists, schema, canonical, app, version, compacted, dpc, mpc>>
          /\ UNCHANGED <<opts, current, start, applied, lost, rc, tmp, copy, orphans, crashes>>
          /\ mpc # "rename" /\ side' = [side EXCEPT ![c] = "kept"]
        BY <1>2 DEF Inspect
    <2>2. Typed'
        <3>1. side' \in [Copies -> {"none", "kept", "foreign"}]
            BY <2>1 DEF IInv, Typed
        <3>2. QED
            BY <2>1, <3>1 DEF IInv, Typed
    <2>3. MadeInOrder' /\ Behind' /\ OpenedIsLatest'
        BY <2>1 DEF IInv, MadeInOrder, Behind, OpenedIsLatest
    <2>4. Found' /\ Copied'
        <3>1. CopyName' = CopyName
            BY <2>1 DEF CopyName
        <3>2. QED
            BY <2>1, <3>1 DEF IInv, Found, Copied
    <2>5. BackupBeforeWrite' /\ ExitHonest'
        BY <2>1 DEF IInv, Typed, BackupBeforeWrite, ExitHonest, Copies
    <2>6. QED
        BY <2>2, <2>3, <2>4, <2>5 DEF IInv
<1>3. CASE UNCHANGED vars
    <2>1. CopyName' = CopyName
        BY <1>3 DEF vars, CopyName
    <2>2. Typed' /\ MadeInOrder' /\ Behind' /\ OpenedIsLatest'
        BY <1>3 DEF vars, IInv, Typed, MadeInOrder, Behind, OpenedIsLatest
    <2>3. Found' /\ Copied'
        BY <1>3, <2>1 DEF vars, IInv, Found, Copied
    <2>4. BackupBeforeWrite' /\ ExitHonest'
        BY <1>3 DEF vars, IInv, BackupBeforeWrite, ExitHonest
    <2>5. QED
        BY <2>2, <2>3, <2>4 DEF IInv
<1>4. QED
    BY <1>1, <1>2, <1>3

LEMMA NextIInv == IInv /\ [Next]_vars => IInv'
BY DaemonIInv, MigrateIInv, OrphanIInv, OtherIInv DEF Next

LEMMA Invariance == Spec => []IInv
BY InitIInv, NextIInv, PTL DEF Spec
--------------------------------------------------------------------------------
(* Whoever is killed, and however db_open's creation, the steps of a       *)
(* migration and a `db exec` left behind fall among each other,            *)
(* user_version never claims columns the tables lack: for every number of  *)
(* schema versions.                                                        *)
THEOREM StampAlwaysTruthful == Spec => []StampTruthful
<1>1. IInv => StampTruthful
    BY DEF IInv, MadeInOrder, StampTruthful
<1>2. QED
    BY <1>1, Invariance, PTL

(* The daemon never runs on a database whose tables are not those of its   *)
(* own version, whatever it found and whatever migrated it meanwhile.      *)
THEOREM OpenedAlwaysLatest == Spec => []OpenedIsLatest
<1>1. IInv => OpenedIsLatest
    BY DEF IInv
<1>2. QED
    BY <1>1, Invariance, PTL

(* No run of minimoni-migrate that was to make a backup changes the        *)
(* database before a whole copy of what it found is in place, and no copy  *)
(* in place is half made or beside foreign side files.                     *)
THEOREM BackupAlwaysFirst == Spec => []BackupBeforeWrite
<1>1. IInv => BackupBeforeWrite
    BY DEF IInv
<1>2. QED
    BY <1>1, Invariance, PTL

(* An exit status of 1 or 3, and a dry run, mean an untouched database; 0  *)
(* after a change means the latest version, compacted; and 2 means that    *)
(* the steps committed are those the run went past, in every run in which  *)
(* migrate_exec could tell how its child ended.                            *)
THEOREM ExitAlwaysHonest == Spec => []ExitHonest
<1>1. IInv => ExitHonest
    BY DEF IInv
<1>2. QED
    BY <1>1, Invariance, PTL
================================================================================
