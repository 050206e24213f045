------------------------------- MODULE Migration -------------------------------
(***************************************************************************)
(* triss migrate (src/src/migration/migrate.js): the files that hold       *)
(* settings of the first schema are read and planned, and under a lock     *)
(* backed up, replaced by texts that hold both spellings, verified, and    *)
(* replaced again by texts without the legacy one; what fails before the   *)
(* verification is restored.  A setting has a legacy and a canonical       *)
(* place; a text is what it has in the two.  Beside it the user's editor   *)
(* and a second `triss migrate`.                                           *)
(***************************************************************************)
EXTENDS Naturals, Sequences

CONSTANTS Migrator,
          Targets,        \* the files, in the order they are migrated
          KindOf,         \* file -> "env", "rule", "structured" or "usage"
          Value, Unset,
          Unusable,       \* a value the resolver refuses
          Gone, Garbled,  \* no file; a text that cannot be planned
          NoLock, MaxEdits, MaxDeaths

Index == 1..Len(Targets)
Target == {Targets[n] : n \in Index}
Text == [legacy : Value \cup {Unset}, canonical : Value \cup {Unset}, schema : BOOLEAN]

\* Rules and records hold the one spelling or the other, and have no schema line.
TextsOf(t) ==
  {x \in Text :
     /\ KindOf[t] # "env" => x.schema
     /\ KindOf[t] \in {"rule", "usage"} => x.legacy = Unset \/ x.canonical = Unset}
  \cup {Garbled}

ASSUME MigrationAssumption ==
  /\ Targets \in Seq(Target) /\ Len(Targets) > 0
  /\ Unusable # Unset
  /\ Garbled \notin Text /\ Gone \notin Text \cup {Garbled}
  /\ NoLock \notin [by : Migrator, written : BOOLEAN]

VARIABLES
  file,       \* target -> its text, Garbled or Gone
  lockHeld,   \* NoLock, or who made the lock file and whether it has written its pid
  migrator,
  edits, deaths,
  meant,      \* history: target -> what the user last made it say
  overtaken,  \* history: targets saved between the last check and the rename
  undone,     \* history: targets whose save a rollback replaced
  raced       \* history: a live owner's lock was removed

migrationVars == <<file, lockHeld, migrator, edits, deaths, meant, overtaken, undone, raced>>

-----------------------------------------------------------------------------
(* The planners                                                            *)

\* The one value a text stands for.
Told(x) == IF x \in {Gone, Garbled} THEN x ELSE IF x.canonical # Unset THEN x.canonical ELSE x.legacy

Blocked(t, x) ==
  \/ x \in {Gone, Garbled}
  \/ /\ x.legacy # Unset /\ x.canonical # Unset
     /\ \/ KindOf[t] = "env" /\ x.legacy # x.canonical
        \/ KindOf[t] = "structured"
  \/ KindOf[t] = "env" /\ x.legacy = Unusable /\ x.canonical = Unset   \* an unknown prefix

Moved(x) == [x EXCEPT !.legacy = Unset, !.canonical = Told(x)]

\* Only an env file is made to hold both; what has one text is replaced at once.
Canonical(t, x) ==
  CASE KindOf[t] = "env" -> [x EXCEPT !.canonical = Told(x), !.schema = TRUE]
    [] KindOf[t] = "rule" -> x
    [] OTHER -> Moved(x)

\* A bug: the lines are filtered from the original.
CleanupOfOriginal(t, x) == IF KindOf[t] = "env" THEN [x EXCEPT !.legacy = Unset] ELSE Moved(x)

Cleanup(t, x) == Moved(Canonical(t, x))

\* The provider snapshot of the env files gives both model roles.
Resolves(texts) ==
  \A t \in Target : KindOf[t] = "env" =>
    texts[t] \notin {Gone, Garbled} /\ texts[t].canonical # Unusable

NothingToDo(texts) == \A t \in Target : Cleanup(t, texts[t]) = texts[t]

-----------------------------------------------------------------------------

At0 == [at |-> "preflight", n |-> 1, saw |-> [t \in Target |-> Gone], tried |-> FALSE, now |-> Gone,
        backup |-> FALSE, wrote |-> {}, verified |-> FALSE, says |-> "none"]

MigrationInit ==
  /\ file \in {f \in [Target -> UNION {TextsOf(t) : t \in Target}] : \A t \in Target : f[t] \in TextsOf(t)}
  /\ lockHeld = NoLock
  /\ migrator = [m \in Migrator |-> At0]
  /\ edits = 0 /\ deaths = 0
  /\ meant = [t \in Target |-> Told(file[t])]
  /\ overtaken = {} /\ undone = {} /\ raced = FALSE

MigratorAt(m, place) == migrator[m].at = place
MigratorGoes(m, place) == migrator' = [migrator EXCEPT ![m].at = place, ![m].n = 1]
MigratorEnds(m, outcome) == migrator' = [migrator EXCEPT ![m].at = "done", ![m].says = outcome]
Here(m) == Targets[migrator[m].n]
IsLast(m) == migrator[m].n = Len(Targets)
NextTarget(m, place, after) ==
  [migrator[m] EXCEPT !.at = IF IsLast(m) THEN after ELSE place, !.n = IF IsLast(m) THEN 1 ELSE @ + 1]
FilesStay == UNCHANGED <<file, edits, deaths, meant, overtaken, undone>>
LockStays == UNCHANGED <<lockHeld, raced>>
Unfinished == {"open", "dead", "stale", "lock", "backup", "check", "replace", "verify", "resolve", "check cleanup",
               "replace cleanup", "verify cleanup", "read back", "check back", "restore", "release"}

\* preflightMigration reads and plans one target after another, before the lock.
ReadTarget(m) ==
  /\ MigratorAt(m, "preflight")
  /\ IF Blocked(Here(m), file[Here(m)]) THEN MigratorEnds(m, "blocked")
     ELSE migrator' = [migrator EXCEPT ![m] = [NextTarget(m, "preflight", "decide")
                                                 EXCEPT !.saw[Here(m)] = file[Here(m)]]]
  /\ FilesStay /\ LockStays

Decide(m) ==
  /\ MigratorAt(m, "decide")
  /\ IF NothingToDo(migrator[m].saw) THEN MigratorEnds(m, "already_migrated")
     ELSE IF ~Resolves([t \in Target |-> Canonical(t, migrator[m].saw[t])]) THEN MigratorEnds(m, "blocked")
     ELSE MigratorGoes(m, "open")
  /\ FilesStay /\ LockStays

-----------------------------------------------------------------------------
(* acquireMigrationLock                                                    *)

Dead(m) == MigratorAt(m, "died")

\* Space is short, or the lock is there; a first try looks at its owner.
OpenLock(m) ==
  /\ MigratorAt(m, "open")
  /\ \/ MigratorEnds(m, "failed") /\ UNCHANGED lockHeld
     \/ /\ lockHeld = NoLock
        /\ lockHeld' = [by |-> m, written |-> FALSE]
        /\ MigratorGoes(m, "lock")
     \/ /\ lockHeld # NoLock /\ UNCHANGED lockHeld
        /\ IF migrator[m].tried THEN MigratorEnds(m, "busy") ELSE MigratorGoes(m, "dead")
  /\ FilesStay /\ UNCHANGED raced

\* An empty lock counts as held for an hour, which is taken to outlast its living maker's write.
AskOwner(m) ==
  /\ MigratorAt(m, "dead")
  /\ \/ /\ lockHeld # NoLock /\ Dead(lockHeld.by)
        /\ MigratorGoes(m, "stale")
     \/ /\ lockHeld # NoLock /\ (~Dead(lockHeld.by) \/ ~lockHeld.written)
        /\ MigratorEnds(m, "busy")
     \/ lockHeld = NoLock /\ MigratorEnds(m, "failed")
  /\ FilesStay /\ LockStays

\* By name: another process may have broken the stale lock and made its own.
RemoveStale(m) ==
  /\ MigratorAt(m, "stale")
  /\ IF lockHeld = NoLock THEN MigratorEnds(m, "failed")
     ELSE migrator' = [migrator EXCEPT ![m].at = "open", ![m].tried = TRUE]
  /\ raced' = (raced \/ (lockHeld # NoLock /\ ~Dead(lockHeld.by)))
  /\ lockHeld' = NoLock
  /\ FilesStay

\* Through the descriptor; a write that fails removes the lock.
WriteLock(m) ==
  /\ MigratorAt(m, "lock")
  /\ \/ /\ lockHeld' = IF lockHeld # NoLock /\ lockHeld.by = m THEN [lockHeld EXCEPT !.written = TRUE] ELSE lockHeld
        /\ MigratorGoes(m, "backup")
     \/ lockHeld' = NoLock /\ MigratorEnds(m, "failed")
  /\ FilesStay /\ UNCHANGED raced

-----------------------------------------------------------------------------
(* runMigration                                                            *)

\* What was read in the preflight; a backup that fails leaves its directory.
BackUp(m) ==
  /\ MigratorAt(m, "backup")
  /\ \/ migrator' = [migrator EXCEPT ![m].at = "check", ![m].backup = TRUE]
     \/ migrator' = [migrator EXCEPT ![m].at = "release", ![m].says = "failed"]
  /\ FilesStay /\ LockStays

Expected(m) ==
  LET t == Here(m) IN
  IF MigratorAt(m, "check cleanup") \/ MigratorAt(m, "replace cleanup")
  THEN Canonical(t, migrator[m].saw[t]) ELSE migrator[m].saw[t]

\* The compare of atomicReplace.  A failure goes back before the verification and stops after it.
FailsTo(m, says) ==
  IF migrator[m].verified THEN [migrator[m] EXCEPT !.at = "release", !.says = says]
  ELSE [migrator[m] EXCEPT !.at = "read back", !.n = 1]

CheckHash(m) ==
  /\ \E phase \in {<<"check", "replace">>, <<"check cleanup", "replace cleanup">>} :
       /\ MigratorAt(m, phase[1])
       /\ migrator' = [migrator EXCEPT ![m] =
            IF file[Here(m)] = Expected(m) THEN [@ EXCEPT !.at = phase[2]] ELSE FailsTo(m, "incomplete")]
  /\ FilesStay /\ LockStays

\* The temporary file, and its rename over whatever is there now.
Put(m, text) ==
  /\ file' = [file EXCEPT ![Here(m)] = text]
  /\ overtaken' = IF file[Here(m)] = Expected(m) THEN overtaken ELSE overtaken \cup {Here(m)}

ReplaceCanonical(m) ==
  /\ MigratorAt(m, "replace")
  /\ \/ /\ Put(m, Canonical(Here(m), migrator[m].saw[Here(m)]))
        /\ migrator' = [migrator EXCEPT ![m] = [NextTarget(m, "check", "verify")
                                                  EXCEPT !.wrote = @ \cup {Here(m)}]]
     \/ /\ migrator' = [migrator EXCEPT ![m] = FailsTo(m, "incomplete")]
        /\ UNCHANGED <<file, overtaken>>
  /\ UNCHANGED <<edits, deaths, meant, undone>> /\ LockStays

VerifyHashes(m) ==
  /\ MigratorAt(m, "verify")
  /\ migrator' = [migrator EXCEPT ![m] =
       IF file[Here(m)] = Canonical(Here(m), migrator[m].saw[Here(m)]) THEN NextTarget(m, "verify", "resolve")
       ELSE FailsTo(m, "incomplete")]
  /\ FilesStay /\ LockStays

ResolveFromDisk(m) ==
  /\ MigratorAt(m, "resolve")
  /\ migrator' = [migrator EXCEPT ![m] =
       IF Resolves(file) THEN [@ EXCEPT !.at = "check cleanup", !.verified = TRUE] ELSE FailsTo(m, "incomplete")]
  /\ FilesStay /\ LockStays

ReplaceCleanup(m) ==
  /\ MigratorAt(m, "replace cleanup")
  /\ \/ /\ Put(m, Cleanup(Here(m), migrator[m].saw[Here(m)]))
        /\ migrator' = [migrator EXCEPT ![m].at = "verify cleanup"]
     \/ /\ migrator' = [migrator EXCEPT ![m] = FailsTo(m, "incomplete")]
        /\ UNCHANGED <<file, overtaken>>
  /\ UNCHANGED <<edits, deaths, meant, undone>> /\ LockStays

\* The last one removes the backups too.
VerifyCleanup(m) ==
  /\ MigratorAt(m, "verify cleanup")
  /\ migrator' = [migrator EXCEPT ![m] =
       IF file[Here(m)] # Cleanup(Here(m), migrator[m].saw[Here(m)]) THEN FailsTo(m, "incomplete")
       ELSE IF IsLast(m) THEN [@ EXCEPT !.at = "release", !.says = "complete", !.backup = FALSE]
       ELSE NextTarget(m, "check cleanup", "release")]
  /\ FilesStay /\ LockStays

\* restoreBackups: a fresh hash, compared again, of every target there is a plan for.
ReadBack(m) ==
  /\ MigratorAt(m, "read back")
  /\ migrator' = [migrator EXCEPT ![m] =
       IF file[Here(m)] = Gone THEN [@ EXCEPT !.at = "release", !.says = "rollback failed"]
       ELSE [@ EXCEPT !.at = "check back", !.now = file[Here(m)]]]
  /\ FilesStay /\ LockStays

CheckBack(m) ==
  /\ MigratorAt(m, "check back")
  /\ migrator' = [migrator EXCEPT ![m] =
       [(IF file[Here(m)] = @.now THEN [@ EXCEPT !.at = "restore"]
         ELSE [@ EXCEPT !.at = "release", !.says = "rollback failed"]) EXCEPT !.now = Gone]]
  /\ FilesStay /\ LockStays

\* A bug: what the migration wrote is put back without its backup being kept until all are.
RestoreForgetful(m) ==
  /\ MigratorAt(m, "restore")
  /\ file' = [file EXCEPT ![Here(m)] = migrator[m].saw[Here(m)]]
  /\ undone' = IF Told(file[Here(m)]) = Told(file'[Here(m)]) THEN undone ELSE undone \cup {Here(m)}
  /\ migrator' = [migrator EXCEPT ![m] =
       [NextTarget(m, "read back", "release") EXCEPT !.backup = FALSE, !.wrote = @ \ {Here(m)},
          !.says = IF IsLast(m) THEN "failed" ELSE @]]
  /\ UNCHANGED <<edits, deaths, meant, overtaken>> /\ LockStays

Restore(m) ==
  /\ MigratorAt(m, "restore")
  /\ file' = [file EXCEPT ![Here(m)] = migrator[m].saw[Here(m)]]
  /\ undone' = IF Told(file[Here(m)]) = Told(file'[Here(m)]) THEN undone ELSE undone \cup {Here(m)}
  /\ migrator' = [migrator EXCEPT ![m] =
       [NextTarget(m, "read back", "release") EXCEPT !.backup = ~IsLast(m), !.wrote = @ \ {Here(m)},
          !.says = IF IsLast(m) THEN "failed" ELSE @]]
  /\ UNCHANGED <<edits, deaths, meant, overtaken>> /\ LockStays

\* By name as well.
Release(m) ==
  /\ MigratorAt(m, "release")
  /\ raced' = (raced \/ (lockHeld # NoLock /\ lockHeld.by # m /\ ~Dead(lockHeld.by)))
  /\ lockHeld' = NoLock
  /\ migrator' = [migrator EXCEPT ![m].at = "done"]
  /\ FilesStay

MigratorDies(m) ==
  /\ deaths < MaxDeaths /\ migrator[m].at \in Unfinished
  /\ deaths' = deaths + 1
  /\ migrator' = [migrator EXCEPT ![m].at = "died"]
  /\ UNCHANGED <<file, edits, meant, overtaken, undone>> /\ LockStays

\* The user's editor saves a text over the file, or removes it.
UserEdits(t) ==
  /\ edits < MaxEdits
  /\ edits' = edits + 1
  /\ \E x \in TextsOf(t) \cup {Gone} :
       /\ x # file[t]
       /\ file' = [file EXCEPT ![t] = x]
       /\ meant' = [meant EXCEPT ![t] = Told(x)]
  /\ overtaken' = overtaken \ {t} /\ undone' = undone \ {t}
  /\ UNCHANGED <<migrator, deaths>> /\ LockStays

MigratorStep(m) ==
  \/ ReadTarget(m) \/ Decide(m) \/ OpenLock(m) \/ AskOwner(m) \/ RemoveStale(m) \/ WriteLock(m)
  \/ BackUp(m) \/ CheckHash(m) \/ ReplaceCanonical(m) \/ VerifyHashes(m) \/ ResolveFromDisk(m)
  \/ ReplaceCleanup(m) \/ VerifyCleanup(m) \/ ReadBack(m) \/ CheckBack(m) \/ Restore(m)
  \/ Release(m) \/ MigratorDies(m)

MigrationNext == (\E t \in Target : UserEdits(t)) \/ \E m \in Migrator : MigratorStep(m)
MigrationSpec == MigrationInit /\ [][MigrationNext]_migrationVars

-----------------------------------------------------------------------------
Outcomes == {"none", "blocked", "already_migrated", "failed", "busy", "incomplete", "rollback failed", "complete"}
MigrationTypeOK ==
  /\ \A t \in Target : file[t] \in TextsOf(t) \cup {Gone}
  /\ lockHeld = NoLock \/ lockHeld.by \in Migrator
  /\ \A m \in Migrator : /\ migrator[m].at \in Unfinished \cup {"preflight", "decide", "done", "died"}
                         /\ migrator[m].says \in Outcomes
                         /\ migrator[m].n \in Index /\ migrator[m].wrote \subseteq Target

(* Whatever fails, dies or is edited meanwhile, a file says what the user  *)
(* last made it say, but for a save in the window of a rename and for a    *)
(* save that a rollback replaced.                                          *)
SettingsSurvive == \A t \in Target \ (overtaken \cup undone) : Told(file[t]) = meant[t]

(* As long as nobody edits, no half-done migration leaves what the next    *)
(* one would refuse: "rerun triss migrate to resume cleanup".              *)
Readable(f) == \A t \in Target : ~Blocked(t, f[t])
ResumeIsPossible == edits = 0 /\ (\A m \in Migrator : migrator[m].says # "blocked") =>
  \A m \in Migrator : migrator[m].at \in Unfinished \cup {"died"} => Readable(file)

(* What is not verified yet can be put back from a backup.                 *)
UnverifiedIsBackedUp ==
  \A m \in Migrator : migrator[m].wrote # {} /\ ~migrator[m].verified => migrator[m].backup

(* Two work at a time only after a live owner's lock was removed.          *)
AtWork == {"backup", "check", "replace", "verify", "resolve", "check cleanup", "replace cleanup",
           "verify cleanup", "read back", "check back", "restore"}
OneAtWork == raced \/ \A m, o \in Migrator : migrator[m].at \in AtWork /\ migrator[o].at \in AtWork => m = o

MigrationInv ==
  /\ MigrationTypeOK /\ SettingsSurvive /\ ResumeIsPossible /\ UnverifiedIsBackedUp /\ OneAtWork

(* "The migration command uses transactional writes, compare-and-swap      *)
(* checks, private backups, ..., rollback" (docs/mcp.md:190): a save the   *)
(* comparison noticed is not replaced after all.                           *)
SavesAreKept == undone = {}
=============================================================================
