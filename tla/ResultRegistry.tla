--------------------------- MODULE ResultRegistry ---------------------------
(***************************************************************************)
(* The directory of one retained result: its publication, its deletion in  *)
(* phases by `triss coder result clean` (runCoderResultClean in            *)
(* src/src/commands/coder.js) and the recovery after crashes               *)
(* (src/src/coder-result-transitions.js).  Publication runs under the      *)
(* registry lock; clean and recovery take no lock, and the tombstone is    *)
(* written in place, so that a reader can find it empty.                   *)
(***************************************************************************)
EXTENDS Naturals, FiniteSets

CONSTANTS Cleaner, Recoverer, Publisher,
          Absent, Torn,     \* a tombstone that is not there, or is empty
          MaxStuck          \* bound: removals the file system may refuse

RegistryCaller == Cleaner \cup Recoverer \cup Publisher
DeletePhase == 0..3         \* RESULT_DELETE_PHASE
Artifact == 1..3            \* worktree, branch, state: gone by that phase

ASSUME TombstoneAssumption == Absent \notin DeletePhase /\ Torn \notin DeletePhase /\ Absent # Torn

VARIABLES
  runDir,     \* the directory's entries
  caller,     \* where each caller is, and the phase it is writing
  stuck,      \* history: artifacts whose removal was refused
  published,  \* history: the directory once held this run's own record
  emptying    \* history: some removal of the whole directory has begun

registryVars == <<runDir, caller, stuck, published, emptying>>

RegistryTypeOK ==
  /\ runDir \in [there : BOOLEAN, record : {"none", "own", "other"},
                 tombstone : DeletePhase \cup {Absent, Torn},
                 artifacts : SUBSET Artifact]
  /\ caller \in [RegistryCaller ->
       [at : {"idle", "begin", "record", "open", "fill", "remove", "advance",
              "final", "check", "gone", "write", "end", "dead"},
        phase : DeletePhase]]
  /\ stuck \subseteq Artifact
  /\ published \in BOOLEAN /\ emptying \in BOOLEAN

\* The run leaves its artifacts; the record is missing, its own, or another's.
RegistryInit ==
  /\ \E r \in {"none", "own", "other"} :
       /\ runDir = [there |-> TRUE, record |-> r, tombstone |-> Absent, artifacts |-> Artifact]
       /\ published = (r = "own")
  /\ caller = [c \in RegistryCaller |-> [at |-> "idle", phase |-> 0]]
  /\ stuck = {}
  /\ emptying = FALSE

CallerAt(c, s) == caller[c].at = s
CallerGoes(c, s) == caller' = [caller EXCEPT ![c].at = s]
CallerStep(c, s, k) == caller' = [caller EXCEPT ![c] = [at |-> s, phase |-> k]]
NoHistory == UNCHANGED <<stuck, published, emptying>>

-----------------------------------------------------------------------------
(* runCoderResultClean *)

CleanStat(c) ==
  /\ c \in Cleaner /\ CallerAt(c, "idle")
  /\ CallerGoes(c, IF runDir.there THEN "begin" ELSE "end")
  /\ UNCHANGED runDir /\ NoHistory

\* A tombstone that reads resumes the deletion; an empty one counts as none.
BeginDeletion(c) ==
  /\ CallerAt(c, "begin")
  /\ IF runDir.tombstone \in DeletePhase
     THEN CallerStep(c, "remove", 1)
     ELSE CallerGoes(c, "record")
  /\ UNCHANGED runDir /\ NoHistory

\* A bug: the record's own run id is not compared.
ReadAnyRecord(c) ==
  /\ CallerAt(c, "record")
  /\ IF runDir.record # "none" THEN CallerStep(c, "open", 0) ELSE CallerGoes(c, "end")
  /\ UNCHANGED runDir /\ NoHistory

\* No record, or one that names another run: refused.
ReadRecord(c) ==
  /\ CallerAt(c, "record")
  /\ IF runDir.record = "own" THEN CallerStep(c, "open", 0) ELSE CallerGoes(c, "end")
  /\ UNCHANGED runDir /\ NoHistory

\* writeFile truncates first; ENOENT if the directory is gone.
OpenTombstone(c) ==
  /\ CallerAt(c, "open")
  /\ IF runDir.there
     THEN runDir' = [runDir EXCEPT !.tombstone = Torn] /\ CallerGoes(c, "fill")
     ELSE CallerGoes(c, "end") /\ UNCHANGED runDir
  /\ NoHistory

FillTombstone(c) ==
  LET k == caller[c].phase IN
  /\ CallerAt(c, "fill")
  /\ runDir' = IF runDir.tombstone = Absent THEN runDir
               ELSE [runDir EXCEPT !.tombstone = k]
  /\ IF k = 3 THEN CallerGoes(c, "final") ELSE CallerStep(c, "remove", k + 1)
  /\ NoHistory

\* rm(...).catch(() => {}): refused or not, the phase is advanced.
RemoveArtifact(c) ==
  LET k == caller[c].phase IN
  /\ CallerAt(c, "remove")
  /\ \/ /\ runDir' = [runDir EXCEPT !.artifacts = @ \ {k}]
        /\ UNCHANGED stuck
     \/ /\ k \in runDir.artifacts
        /\ Cardinality(stuck) < MaxStuck
        /\ stuck' = stuck \cup {k}
        /\ UNCHANGED runDir
  /\ CallerGoes(c, "advance")
  /\ UNCHANGED <<published, emptying>>

\* A bug: the phase is recorded before its artifact is removed.
AdvanceEarly(c) ==
  LET k == caller[c].phase IN
  /\ CallerAt(c, "advance")
  /\ IF runDir.tombstone \notin DeletePhase THEN CallerGoes(c, "end")
     ELSE CallerStep(c, "open", IF k < 3 THEN k + 1 ELSE k)
  /\ UNCHANGED runDir /\ NoHistory

\* advanceCoderResultDeletionPhase: forward only, never without a tombstone.
AdvancePhase(c) ==
  LET k == caller[c].phase IN
  /\ CallerAt(c, "advance")
  /\ IF runDir.tombstone \notin DeletePhase THEN CallerGoes(c, "end")
     ELSE IF k > runDir.tombstone THEN CallerGoes(c, "open")
     ELSE IF k = 3 THEN CallerGoes(c, "final")
     ELSE CallerStep(c, "remove", k + 1)
  /\ UNCHANGED runDir /\ NoHistory

Emptied == runDir.record = "none" /\ runDir.tombstone = Absent /\ runDir.artifacts = {}

\* The recursive rm of the directory: entry by entry in any order, then itself.
RemoveDirectory(c) ==
  /\ CallerAt(c, "final")
  /\ emptying' = TRUE
  /\ \/ /\ runDir.record # "none"
        /\ runDir' = [runDir EXCEPT !.record = "none"]
        /\ UNCHANGED caller
     \/ /\ runDir.tombstone # Absent
        /\ runDir' = [runDir EXCEPT !.tombstone = Absent]
        /\ UNCHANGED caller
     \/ /\ \E a \in runDir.artifacts : runDir' = [runDir EXCEPT !.artifacts = @ \ {a}]
        /\ UNCHANGED caller
     \/ /\ Emptied
        /\ runDir' = [runDir EXCEPT !.there = FALSE]
        /\ CallerGoes(c, "end")
     \/ /\ runDir.artifacts # {} /\ stuck # {}   \* refused: the command fails
        /\ CallerGoes(c, "end")
        /\ UNCHANGED runDir
  /\ UNCHANGED <<stuck, published>>

-----------------------------------------------------------------------------
(* recoverCoderResultRegistry and publishCoderRetainedResult *)

RecoverRead(c) ==
  /\ c \in Recoverer /\ CallerAt(c, "idle")
  /\ CallerGoes(c, IF runDir.record = "none" THEN "end" ELSE "check")
  /\ UNCHANGED runDir /\ NoHistory

RecoverCheck(c) ==
  /\ CallerAt(c, "check")
  /\ CallerGoes(c, IF runDir.tombstone = Absent THEN "end" ELSE "gone")
  /\ UNCHANGED runDir /\ NoHistory

\* A bug: the artifacts are not looked for before the directory goes.
RecoverBlindly(c) ==
  /\ CallerAt(c, "gone")
  /\ CallerGoes(c, "final")
  /\ UNCHANGED runDir /\ NoHistory

RecoverGone(c) ==
  /\ CallerAt(c, "gone")
  /\ CallerGoes(c, IF runDir.artifacts = {} THEN "final" ELSE "end")
  /\ UNCHANGED runDir /\ NoHistory

\* An existing record is the result of this publication, or a conflict.
PublishRead(c) ==
  /\ c \in Publisher /\ CallerAt(c, "idle")
  /\ CallerGoes(c, IF runDir.record = "none" /\ runDir.there THEN "write" ELSE "end")
  /\ UNCHANGED runDir /\ NoHistory

PublishWrite(c) ==
  /\ CallerAt(c, "write")
  /\ IF runDir.there
     THEN runDir' = [runDir EXCEPT !.record = "own"] /\ published' = TRUE
     ELSE UNCHANGED <<runDir, published>>
  /\ CallerGoes(c, "end")
  /\ UNCHANGED <<stuck, emptying>>

RegistryCrash(c) ==
  /\ caller[c].at \notin {"idle", "end", "dead"}
  /\ CallerGoes(c, "dead")
  /\ UNCHANGED runDir /\ NoHistory

RegistryNext ==
  \E c \in RegistryCaller :
    \/ CleanStat(c) \/ BeginDeletion(c) \/ ReadRecord(c) \/ OpenTombstone(c)
    \/ FillTombstone(c) \/ RemoveArtifact(c) \/ AdvancePhase(c) \/ RemoveDirectory(c)
    \/ RecoverRead(c) \/ RecoverCheck(c) \/ RecoverGone(c)
    \/ PublishRead(c) \/ PublishWrite(c) \/ RegistryCrash(c)

RegistrySpec == RegistryInit /\ [][RegistryNext]_registryVars

-----------------------------------------------------------------------------
\* What listCoderRetainedResults shows of the directory.
ListedAs == IF runDir.record = "none" THEN "nothing"
            ELSE IF runDir.tombstone = Absent THEN "retained" ELSE "deleting"

(* Only the directory of a result that this run published ever loses       *)
(* anything: neither an unpublished run's nor one whose record is another  *)
(* run's, whoever cleans and recovers at the same time.                    *)
OnlyPublishedRemoved ==
  runDir.artifacts # Artifact \/ ~runDir.there => published

(* Before a removal of the whole directory began, a result that is listed  *)
(* as retained has all its artifacts: whatever crashed, the tombstone      *)
(* still tells that a deletion has begun.                                  *)
ListedRetainedIsWhole ==
  ListedAs = "retained" /\ ~emptying => runDir.artifacts = Artifact

(* A phase in the tombstone means its artifacts and those before it are    *)
(* gone, or that their removal was refused: also when two cleaners write   *)
(* it, and one of them an older phase.                                     *)
PhaseTellsWhatIsGone ==
  runDir.tombstone \in DeletePhase =>
    \A a \in Artifact : a <= runDir.tombstone => a \notin runDir.artifacts \/ a \in stuck

(* A directory that no clean and no recovery will take up any more, having *)
(* neither record nor tombstone after its publication, holds no artifact   *)
(* except one the file system refused to remove.                           *)
AbandonedIsEmpty ==
  published /\ runDir.record = "none" /\ runDir.tombstone \notin DeletePhase
    => runDir.artifacts \subseteq stuck

RegistryInv ==
  RegistryTypeOK /\ OnlyPublishedRemoved /\ ListedRetainedIsWhole
  /\ PhaseTellsWhatIsGone /\ AbandonedIsEmpty
=============================================================================
