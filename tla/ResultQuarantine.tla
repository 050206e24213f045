-------------------------- MODULE ResultQuarantine --------------------------
(***************************************************************************)
(* Quarantine of retained results (src/src/coder-result-quarantine.js):    *)
(* calls of one process take directories under .triss/quarantine-v1        *)
(* through five phases to `complete`, clean them, and resume those that a  *)
(* crash interrupted.  Nothing keeps two calls off one run.  The           *)
(* result-store quota (src/src/coder-write-quota.js) is in the memory of   *)
(* the process and does not survive it.                                    *)
(***************************************************************************)
EXTENDS Naturals, FiniteSets

CONSTANTS QRun,          \* runs that may be quarantined
          QCall,         \* calls, each used for one operation after another
          QRunOf,        \* the run whose directory a call works on
          MaxConcurrent, \* QUARANTINE_LIMITS.maxConcurrent, 3
          UsableUnits,   \* payload budget in reservations of 1 GiB, 3
          MaxRestarts    \* bound

ASSUME QuotaAssumption == UsableUnits \in Nat /\ MaxRestarts \in Nat
ASSUME QCallAssumption == QRunOf \in [QCall -> QRun]

Effect == {"worktree", "ref", "index"}

VARIABLES
  incomplete,  \* per run, its `.incomplete-` directory
  complete,    \* per run, its `complete-` directory
  misnamed,    \* whether `complete-undefined-undefined-<generation>` is there
  effects,     \* per run, what the injected operations have done
  worktree,    \* per run, whether its worktree has not been removed
  quarantining,\* where each call is
  held,        \* per run, units the quota counts for `quarantine:<run>`
  reserved,    \* units the quota counts in all
  covered,     \* history: whether the complete directory has a unit in it
  overdrawn,   \* history: runs one of whose cleans released a unit of others
  restarts

directoryVars == <<incomplete, complete, misnamed>>
workVars == <<effects, worktree>>
quotaVars == <<held, reserved, covered, overdrawn>>
quarantineVars == <<directoryVars, workVars, quarantining, quotaVars, restarts>>

QPhase == 1..5   \* QUARANTINE_PHASES; 0 is a manifest that cannot be read
LengthOf == <<17, 14, 11, 15, 8>>   \* of a phase's name; the rest is as long in all
QAt == {"idle", "count", "reserve", "mkdir", "open", "write", "operate", "marker", "rename",
        "verify", "discard", "resume"}

\* `by`: the call that wrote the manifest; `marker`: COMPLETION has its hash.
Directory ==
  [there : BOOLEAN, phase : 0..5, size : 0..17, by : SUBSET QCall, marker : BOOLEAN]

QuarantineTypeOK ==
  /\ incomplete \in [QRun -> Directory] /\ complete \in [QRun -> Directory]
  /\ misnamed \in BOOLEAN
  /\ effects \in [QRun -> SUBSET Effect] /\ worktree \in [QRun -> BOOLEAN]
  /\ quarantining \in
       [QCall -> [at : QAt, next : QPhase, file : {"none", "incomplete", "complete"}]]
  /\ held \in [QRun -> Nat] /\ reserved \in Nat
  /\ covered \in [QRun -> BOOLEAN] /\ overdrawn \subseteq QRun
  /\ restarts \in 0..MaxRestarts

NoManifest(there) == [there |-> there, phase |-> 0, size |-> 0, by |-> {}, marker |-> FALSE]
NoDirectory == NoManifest(FALSE)
QIdle == [at |-> "idle", next |-> 1, file |-> "none"]

QuarantineInit ==
  /\ incomplete = [r \in QRun |-> NoDirectory] /\ complete = [r \in QRun |-> NoDirectory]
  /\ misnamed = FALSE
  /\ effects = [r \in QRun |-> {}] /\ worktree = [r \in QRun |-> TRUE]
  /\ quarantining = [c \in QCall |-> QIdle]
  /\ held = [r \in QRun |-> 0] /\ reserved = 0
  /\ covered = [r \in QRun |-> FALSE] /\ overdrawn = {}
  /\ restarts = 0

QAtStep(c, s) == quarantining[c].at = s
QGoes(c, s) == quarantining' = [quarantining EXCEPT ![c].at = s]
QStep(c, s, k) ==
  quarantining' = [quarantining EXCEPT ![c] = [at |-> s, next |-> k, file |-> "none"]]
QReset(c) == quarantining' = [quarantining EXCEPT ![c] = QIdle]
Smaller(a, b) == IF a < b THEN a ELSE b

\* The directory `from` of the run of c becomes `to`, with the files open in it.
FilesFollow(c, from, to) ==
  quarantining' =
    [d \in QCall |->
      IF d = c THEN QIdle
      ELSE IF QRunOf[d] = QRunOf[c] /\ quarantining[d].file = from
      THEN [quarantining[d] EXCEPT !.file = to]
      ELSE quarantining[d]]

\* prepareCoderResultStoreQuota's reserve; the headroom is never reservable.
ReserveUnit(r) ==
  IF reserved + 1 > UsableUnits
  THEN UNCHANGED <<held, reserved>>
  ELSE held' = [held EXCEPT ![r] = @ + 1] /\ reserved' = reserved + 1

\* A bug: all that the root holds is released.
ReleaseAll(r) ==
  /\ held' = [held EXCEPT ![r] = 0]
  /\ reserved' = IF reserved > held[r] THEN reserved - held[r] ELSE 0

\* Its release: never more than the root holds.
ReleaseUnit(r) ==
  LET n == Smaller(held[r], 1) IN
  /\ held' = [held EXCEPT ![r] = @ - n]
  /\ reserved' = IF reserved > n THEN reserved - n ELSE 0

-----------------------------------------------------------------------------
(* quarantineCoderResult *)

\* Neither the run's directories nor other calls are asked about.
QuarantineBegin(c) ==
  /\ QAtStep(c, "idle")
  /\ QGoes(c, "count")
  /\ UNCHANGED <<directoryVars, workVars, quotaVars, restarts>>

\* readdir: directories of interrupted quarantines count as concurrent.
CountIncomplete(c) ==
  /\ QAtStep(c, "count")
  /\ IF Cardinality({q \in QRun : incomplete[q].there}) >= MaxConcurrent
     THEN QReset(c) ELSE QGoes(c, "reserve")
  /\ UNCHANGED <<directoryVars, workVars, quotaVars, restarts>>

ReserveQuarantine(c) ==
  LET r == QRunOf[c] IN
  /\ QAtStep(c, "reserve")
  /\ ReserveUnit(r)
  /\ IF held'[r] > held[r] THEN QGoes(c, "mkdir") ELSE QReset(c)
  /\ UNCHANGED <<directoryVars, workVars, covered, overdrawn, restarts>>

\* A directory that stands is taken up as it is.
MakeIncomplete(c) ==
  LET r == QRunOf[c] IN
  /\ QAtStep(c, "mkdir")
  /\ incomplete' = [incomplete EXCEPT ![r] = IF @.there THEN @ ELSE NoManifest(TRUE)]
  /\ QStep(c, "open", 1)
  /\ UNCHANGED <<complete, misnamed, workVars, quotaVars, restarts>>

\* writeFile opens the manifest where the directory stands and truncates it.
TruncateManifest(c) ==
  LET r == QRunOf[c] IN
  /\ QAtStep(c, "open") /\ incomplete[r].there
  /\ incomplete' = [incomplete EXCEPT ![r] = NoManifest(TRUE)]
  /\ quarantining' = [quarantining EXCEPT ![c].at = "write", ![c].file = "incomplete"]
  /\ UNCHANGED <<complete, misnamed, workVars, quotaVars, restarts>>

\* The text of phase k over what d holds: the end of a longer one remains.
Written(d, c, k) ==
  IF d.size > LengthOf[k]
  THEN [NoManifest(TRUE) EXCEPT !.size = d.size]
  ELSE [there |-> TRUE, phase |-> k, size |-> LengthOf[k], by |-> {c}, marker |-> FALSE]

\* It writes to the file it opened, wherever the directory is by then.
WriteManifest(c) ==
  LET r == QRunOf[c]
      k == quarantining[c].next
      f == quarantining[c].file
  IN
  /\ QAtStep(c, "write")
  /\ incomplete' =
       IF f = "incomplete" THEN [incomplete EXCEPT ![r] = Written(@, c, k)] ELSE incomplete
  /\ complete' = IF f = "complete" THEN [complete EXCEPT ![r] = Written(@, c, k)] ELSE complete
  /\ QStep(c, CASE k < 4 -> "operate" [] k = 4 -> "open" [] OTHER -> "marker",
           IF k < 5 THEN k + 1 ELSE k)
  /\ UNCHANGED <<misnamed, workVars, quotaVars, restarts>>

EffectOf(k) == CASE k = 2 -> "worktree" [] k = 3 -> "ref" [] OTHER -> "index"

\* A bug: the manifest goes to the next phase though the operation failed.
OperateUnchecked(c) ==
  /\ QAtStep(c, "operate")
  /\ \/ effects' = [effects EXCEPT ![QRunOf[c]] = @ \cup {EffectOf(quarantining[c].next)}]
     \/ UNCHANGED effects
  /\ QGoes(c, "open")
  /\ UNCHANGED <<directoryVars, worktree, quotaVars, restarts>>

\* moveWorktree, renameRef, publishIndex, each before the manifest says so.
Operate(c) ==
  /\ QAtStep(c, "operate")
  /\ effects' = [effects EXCEPT ![QRunOf[c]] = @ \cup {EffectOf(quarantining[c].next)}]
  /\ QGoes(c, "open")
  /\ UNCHANGED <<directoryVars, worktree, quotaVars, restarts>>

\* Any failure releases the reservation and leaves the directory.
QuarantineFails(c) ==
  /\ quarantining[c].at \in {"mkdir", "open", "write", "operate", "marker", "rename"}
  /\ ReleaseUnit(QRunOf[c])
  /\ QReset(c)
  /\ UNCHANGED <<directoryVars, workVars, covered, overdrawn, restarts>>

\* COMPLETION holds the hash of the text this call has written.
WriteCompletion(c) ==
  LET r == QRunOf[c] IN
  /\ QAtStep(c, "marker") /\ incomplete[r].there
  /\ incomplete' =
       [incomplete EXCEPT ![r].marker = (incomplete[r].phase = 5 /\ incomplete[r].by = {c})]
  /\ QGoes(c, "rename")
  /\ UNCHANGED <<complete, misnamed, workVars, quotaVars, restarts>>

\* rename fails onto a directory that is not empty.
RenameComplete(c) ==
  LET r == QRunOf[c] IN
  /\ QAtStep(c, "rename") /\ incomplete[r].there /\ ~complete[r].there
  /\ complete' = [complete EXCEPT ![r] = incomplete[r]]
  /\ incomplete' = [incomplete EXCEPT ![r] = NoDirectory]
  /\ covered' = [covered EXCEPT ![r] = TRUE]
  /\ FilesFollow(c, "incomplete", "complete")
  /\ UNCHANGED <<misnamed, workVars, held, reserved, overdrawn, restarts>>

-----------------------------------------------------------------------------
(* cleanCoderResultQuarantine, also as recovery calls it *)

\* Only a directory of that name, phase complete, and a marker that matches;
\* the two files are read in one step.
VerifyComplete(c) ==
  LET r == QRunOf[c] IN
  /\ QAtStep(c, "idle")
  /\ complete[r].there /\ complete[r].phase = 5 /\ complete[r].marker
  /\ QGoes(c, "verify")
  /\ UNCHANGED <<directoryVars, workVars, quotaVars, restarts>>

ForceRemoveWorktree(c) ==
  /\ QAtStep(c, "verify")
  /\ \/ worktree' = [worktree EXCEPT ![QRunOf[c]] = FALSE] /\ QGoes(c, "discard")
     \/ QReset(c) /\ UNCHANGED worktree
  /\ UNCHANGED <<directoryVars, effects, quotaVars, restarts>>

\* Whether the directory is still the one that was verified is not asked, and
\* a unit of the run is released whoever reserved it.
RemoveQuarantine(c) ==
  LET r == QRunOf[c] IN
  /\ QAtStep(c, "discard")
  /\ complete' = [complete EXCEPT ![r] = NoDirectory]
  /\ FilesFollow(c, "complete", "none")
  /\ ReleaseUnit(r)
  /\ covered' = [covered EXCEPT ![r] = FALSE]
  /\ overdrawn' = IF ~covered[r] /\ held[r] > 0 THEN overdrawn \cup {r} ELSE overdrawn
  /\ UNCHANGED <<incomplete, misnamed, workVars, restarts>>

\* rm throws, the manifest gone or not, and nothing is released.
RemoveFails(c) ==
  LET r == QRunOf[c] IN
  /\ QAtStep(c, "discard") /\ complete[r].there
  /\ \/ QReset(c) /\ UNCHANGED complete
     \/ FilesFollow(c, "complete", "none") /\ complete' = [complete EXCEPT ![r] = NoManifest(TRUE)]
  /\ UNCHANGED <<incomplete, misnamed, workVars, quotaVars, restarts>>

-----------------------------------------------------------------------------
(* recoverCoderResultQuarantine *)

FindComplete(c) ==
  /\ QAtStep(c, "idle")
  /\ incomplete[QRunOf[c]].there /\ incomplete[QRunOf[c]].phase = 5
  /\ QGoes(c, "resume")
  /\ UNCHANGED <<directoryVars, workVars, quotaVars, restarts>>

\* The manifest's fields are project_id and run_id, the code reads projectId
\* and runId: the new name holds "undefined" for both, and one generation has
\* only one such name.
ResumeRename(c) ==
  LET r == QRunOf[c] IN
  /\ QAtStep(c, "resume") /\ incomplete[r].there /\ ~misnamed
  /\ misnamed' = TRUE
  /\ incomplete' = [incomplete EXCEPT ![r] = NoDirectory]
  /\ FilesFollow(c, "incomplete", "none")
  /\ UNCHANGED <<complete, workVars, quotaVars, restarts>>

\* The directory is gone or the name is taken.
ResumeFails(c) ==
  /\ QAtStep(c, "resume") /\ (incomplete[QRunOf[c]].there => misnamed)
  /\ QReset(c)
  /\ UNCHANGED <<directoryVars, workVars, quotaVars, restarts>>

\* The process dies; its quota and its operations go with it.
QuarantineRestart ==
  /\ restarts < MaxRestarts
  /\ restarts' = restarts + 1
  /\ held' = [r \in QRun |-> 0] /\ reserved' = 0
  /\ covered' = [r \in QRun |-> FALSE] /\ overdrawn' = {}
  /\ quarantining' = [c \in QCall |-> QIdle]
  /\ UNCHANGED <<directoryVars, workVars>>

QuarantineNext ==
  \/ \E c \in QCall :
       \/ QuarantineBegin(c) \/ CountIncomplete(c) \/ ReserveQuarantine(c)
       \/ MakeIncomplete(c) \/ TruncateManifest(c) \/ WriteManifest(c) \/ Operate(c)
       \/ QuarantineFails(c) \/ WriteCompletion(c) \/ RenameComplete(c)
       \/ VerifyComplete(c) \/ ForceRemoveWorktree(c) \/ RemoveQuarantine(c) \/ RemoveFails(c)
       \/ FindComplete(c) \/ ResumeRename(c) \/ ResumeFails(c)
  \/ QuarantineRestart

QuarantineSpec == QuarantineInit /\ [][QuarantineNext]_quarantineVars

-----------------------------------------------------------------------------
InFlight(c) == quarantining[c].at \in {"mkdir", "open", "write", "operate", "marker", "rename"}
Reserving(r) == {c \in QCall : QRunOf[c] = r /\ InFlight(c)}
Units == UNION {{r} \X (1..held[r]) : r \in QRun}

(* The quota's total is what its runs hold and stays within the payload    *)
(* budget; and a run holds one unit for each call in flight and one for    *)
(* its complete directory, whatever failed, was cleaned or restarted       *)
(* beside it.  The excuse is a clean that removes what holds no unit, a    *)
(* directory that outlived the process that reserved it or that another    *)
(* clean has removed, while the run holds some: it releases another's.     *)
QuotaCoversFlight ==
  /\ reserved = Cardinality(Units) /\ reserved <= UsableUnits
  /\ \A r \in QRun \ overdrawn :
       held[r] = Cardinality(Reserving(r)) + (IF covered[r] THEN 1 ELSE 0)

ReachedIn(r, k) ==
  /\ k >= 2 => "worktree" \in effects[r]
  /\ k >= 3 => "ref" \in effects[r]
  /\ k >= 4 => "index" \in effects[r]

(* What the phase of a manifest says was done has been done, after any     *)
(* crash and whoever else writes there: the operation comes first, its     *)
(* record second.                                                          *)
PhaseWasReached ==
  \A r \in QRun : ReachedIn(r, incomplete[r].phase) /\ ReachedIn(r, complete[r].phase)

(* A worktree is removed only when its quarantine was complete: moved, its *)
(* branch renamed, its index published and the completion marker written.  *)
OnlyCompleteIsCleaned ==
  \A r \in QRun : ~worktree[r] => effects[r] = Effect

QuarantineInv ==
  QuarantineTypeOK /\ QuotaCoversFlight /\ PhaseWasReached /\ OnlyCompleteIsCleaned

(* recoverCoderResultQuarantine says it will "complete an `.incomplete-*`  *)
(* directory whose manifest is already phase=complete": one it has taken   *)
(* up is then known to cleanCoderResultQuarantine by its run id.           *)
RecoveredIsCleanable == ~misnamed
=============================================================================
