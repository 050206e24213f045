---------------------------- MODULE ResultsProofs ----------------------------
(***************************************************************************)
(* What the stores of results promise for every set of processes and runs: *)
(* the registry of run directories and their deletion, the quarantine, and *)
(* the journal of owned process sets with its release protocol; then what  *)
(* the disposable folders of reviews promise, and what a review answers.   *)
(***************************************************************************)
EXTENDS ResultRegistry, ResultQuarantine, OwnedProcessJournal, Review, FiniteSetTheorems,
        SequenceTheorems, WellFoundedInduction, TLAPS

-----------------------------------------------------------------------------
(* The registry.  Every stage of a deletion knows which artifacts are gone *)
(* and that the tombstone stands; a removal of the whole directory begins  *)
(* only when nothing that can go is left.                                  *)

\* The artifacts of the first k phases are gone, or their removal was refused.
Cleared(k) == \A a \in Artifact : a <= k => a \notin runDir.artifacts \/ a \in stuck

CallerStage == {"idle", "begin", "record", "open", "fill", "remove", "advance",
                "final", "check", "gone", "write", "end", "dead"}

StagesAreCleared ==
  \A c \in RegistryCaller :
    /\ caller[c].at \in {"open", "fill", "advance"} => Cleared(caller[c].phase)
    /\ caller[c].at = "remove" => caller[c].phase # 0 /\ Cleared(caller[c].phase - 1)
    /\ caller[c].at = "final" => Cleared(3)

DeletersPublished ==
  /\ \A c \in RegistryCaller :
       caller[c].at \in {"open", "fill", "remove", "advance", "final", "gone"} => published
  /\ runDir.tombstone # Absent => published
  /\ runDir.record = "own" => published

\* Until a removal of the directory begins, the tombstone outlives the first artifact.
TombstoneStands ==
  ~emptying =>
    /\ \A c \in RegistryCaller :
         caller[c].at \in {"fill", "remove", "advance", "final", "gone"} => runDir.tombstone # Absent
    /\ runDir.tombstone = Absent => runDir.artifacts = Artifact
    /\ published => runDir.record = "own"

RegistryIInv ==
  /\ RegistryTypeOK /\ StagesAreCleared /\ DeletersPublished /\ TombstoneStands
  /\ OnlyPublishedRemoved /\ PhaseTellsWhatIsGone
  /\ emptying => Cleared(3)

LEMMA RegistryIInvInit == RegistryInit => RegistryIInv
<1> SUFFICES ASSUME RegistryInit PROVE RegistryIInv
  OBVIOUS
<1>1. PICK r \in {"none", "own", "other"} :
        /\ runDir = [there |-> TRUE, record |-> r, tombstone |-> Absent, artifacts |-> Artifact]
        /\ published = (r = "own")
  BY DEF RegistryInit
<1>2. /\ \A c \in RegistryCaller : caller[c].at = "idle"
      /\ caller \in [RegistryCaller -> [at : CallerStage, phase : DeletePhase]]
  BY DEF RegistryInit, DeletePhase, CallerStage
<1>3. RegistryTypeOK
  BY <1>1, <1>2 DEF RegistryTypeOK, RegistryInit, CallerStage
<1> QED
  BY <1>1, <1>2, <1>3, TombstoneAssumption
  DEF RegistryIInv, StagesAreCleared, DeletersPublished, TombstoneStands, OnlyPublishedRemoved,
      PhaseTellsWhatIsGone, RegistryInit

LEMMA RegistryIInvImplies == RegistryIInv => RegistryInv
<1> SUFFICES ASSUME RegistryIInv PROVE RegistryInv
  OBVIOUS
<1>1. Cleared(3) => runDir.artifacts \subseteq stuck
  BY DEF Cleared, RegistryIInv, RegistryTypeOK, Artifact
<1>2. ListedRetainedIsWhole
  BY DEF RegistryIInv, TombstoneStands, ListedRetainedIsWhole, ListedAs
<1>3. AbandonedIsEmpty
  BY <1>1 DEF RegistryIInv, TombstoneStands, AbandonedIsEmpty
<1> QED
  BY <1>2, <1>3 DEF RegistryIInv, RegistryInv

LEMMA PhaseFacts ==
  /\ DeletePhase = {0, 1, 2, 3} /\ Artifact = {1, 2, 3}
  /\ Cleared(0)
  /\ \A k \in {1, 2, 3} : Cleared(k - 1) /\ (k \notin runDir.artifacts \/ k \in stuck) => Cleared(k)
  /\ runDir.artifacts = {} => Cleared(3)
<1>1. DeletePhase = {0, 1, 2, 3} /\ Artifact = {1, 2, 3}
  BY DEF DeletePhase, Artifact
<1>2. Cleared(0)
  BY <1>1 DEF Cleared
<1>3. ASSUME NEW k \in {1, 2, 3}, Cleared(k - 1), k \notin runDir.artifacts \/ k \in stuck PROVE Cleared(k)
  <2>1. \A a \in {1, 2, 3} : a <= k => a <= k - 1 \/ a = k
    OBVIOUS
  <2> QED
    BY <1>1, <1>3, <2>1 DEF Cleared
<1> QED
  BY <1>1, <1>2, <1>3 DEF Cleared

ClearedNext(k) == \A a \in Artifact : a <= k => a \notin runDir'.artifacts \/ a \in stuck'

\* Artifacts only go, refusals only add up.
LEMMA ClearedStays ==
  ASSUME NEW k \in DeletePhase, runDir'.artifacts \subseteq runDir.artifacts, stuck \subseteq stuck', Cleared(k)
  PROVE  ClearedNext(k)
  BY DEF Cleared, ClearedNext

LEMMA CallerMoves ==
  ASSUME RegistryTypeOK, NEW c \in RegistryCaller, NEW s \in CallerStage, NEW k \in DeletePhase,
         CallerStep(c, s, k) \/ (CallerGoes(c, s) /\ k = caller[c].phase)
  PROVE  /\ caller' \in [RegistryCaller -> [at : CallerStage, phase : DeletePhase]]
         /\ caller'[c].at = s /\ caller'[c].phase = k
         /\ \A d \in RegistryCaller : d # c => caller'[d] = caller[d]
<1>1. caller \in [RegistryCaller -> [at : CallerStage, phase : DeletePhase]]
  BY DEF RegistryTypeOK, CallerStage
<1>2. CASE CallerStep(c, s, k)
  BY <1>1, <1>2 DEF CallerStep
<1>3. CASE CallerGoes(c, s) /\ k = caller[c].phase
  BY <1>1, <1>3 DEF CallerGoes
<1> QED
  BY <1>2, <1>3

\* A step of c to stage s and phase k, by what it does to the directory.
LEMMA RegistryStep ==
  ASSUME RegistryIInv, NEW c \in RegistryCaller, NEW s \in CallerStage, NEW k \in DeletePhase,
         CallerStep(c, s, k) \/ (CallerGoes(c, s) /\ k = caller[c].phase) \/ (UNCHANGED caller /\ s = caller[c].at /\ k = caller[c].phase),
         runDir' \in [there : BOOLEAN, record : {"none", "own", "other"},
                      tombstone : DeletePhase \cup {Absent, Torn}, artifacts : SUBSET Artifact],
         runDir'.artifacts \subseteq runDir.artifacts,
         stuck' \in SUBSET Artifact, stuck \subseteq stuck',
         published' \in BOOLEAN, published => published', emptying' \in BOOLEAN, emptying => emptying',
         s \in {"open", "fill", "advance"} => ClearedNext(k),
         s = "remove" => k # 0 /\ ClearedNext(k - 1),
         s = "final" => ClearedNext(3),
         s \in {"open", "fill", "remove", "advance", "final", "gone"} => published',
         runDir'.tombstone # Absent \/ runDir'.record = "own" => published',
         ~emptying' => /\ s \in {"fill", "remove", "advance", "final", "gone"} => runDir'.tombstone # Absent
                       /\ runDir.tombstone # Absent => runDir'.tombstone # Absent
                       /\ runDir'.tombstone = Absent => runDir'.artifacts = Artifact
                       /\ published' => runDir'.record = "own",
         runDir'.artifacts # Artifact \/ ~runDir'.there => published',
         runDir'.tombstone \in DeletePhase => ClearedNext(runDir'.tombstone),
         emptying' => ClearedNext(3)
  PROVE  RegistryIInv'
<1>1. /\ caller' \in [RegistryCaller -> [at : CallerStage, phase : DeletePhase]]
      /\ caller'[c].at = s /\ caller'[c].phase = k
      /\ \A d \in RegistryCaller : d # c => caller'[d] = caller[d]
  <2>1. CASE UNCHANGED caller /\ s = caller[c].at /\ k = caller[c].phase
    BY <2>1 DEF RegistryIInv, RegistryTypeOK, CallerStage
  <2> QED
    BY <2>1, CallerMoves DEF RegistryIInv
<1>2. RegistryTypeOK'
  BY <1>1 DEF RegistryTypeOK, CallerStage
<1>3. ASSUME NEW d \in RegistryCaller, d # c
      PROVE  /\ caller'[d].at \in {"open", "fill", "advance"} => ClearedNext(caller'[d].phase)
             /\ caller'[d].at = "remove" => caller'[d].phase # 0 /\ ClearedNext(caller'[d].phase - 1)
             /\ caller'[d].at = "final" => ClearedNext(3)
  <2>1. caller'[d] = caller[d] /\ caller[d].phase \in DeletePhase
    BY <1>1, <1>3 DEF RegistryIInv, RegistryTypeOK
  <2>2. /\ \A n \in DeletePhase : Cleared(n) => ClearedNext(n)
        /\ caller[d].phase # 0 => caller[d].phase - 1 \in DeletePhase
    BY <2>1, ClearedStays DEF DeletePhase
  <2> QED
    BY <2>1, <2>2, PhaseFacts DEF RegistryIInv, StagesAreCleared
<1>4. StagesAreCleared'
  <2>2. ASSUME NEW d \in RegistryCaller
        PROVE  /\ caller'[d].at \in {"open", "fill", "advance"} => ClearedNext(caller'[d].phase)
               /\ caller'[d].at = "remove" => caller'[d].phase # 0 /\ ClearedNext(caller'[d].phase - 1)
               /\ caller'[d].at = "final" => ClearedNext(3)
    BY <1>1, <1>3
  <2> QED
    BY <2>2 DEF StagesAreCleared, Cleared, ClearedNext
<1>5. DeletersPublished'
  BY <1>1 DEF DeletersPublished, RegistryIInv
<1>6. TombstoneStands'
  BY <1>1 DEF TombstoneStands, RegistryIInv
<1>7. OnlyPublishedRemoved' /\ PhaseTellsWhatIsGone'
  <2>1. OnlyPublishedRemoved'
    BY DEF OnlyPublishedRemoved
  <2>2. PhaseTellsWhatIsGone'
    BY DEF PhaseTellsWhatIsGone, ClearedNext
  <2> QED
    BY <2>1, <2>2
<1>8. (emptying => Cleared(3))'
  BY DEF ClearedNext, Cleared
<1> QED
  BY <1>2, <1>4, <1>5, <1>6, <1>7, <1>8 DEF RegistryIInv

Directories == [there : BOOLEAN, record : {"none", "own", "other"},
                tombstone : DeletePhase \cup {Absent, Torn}, artifacts : SUBSET Artifact]

\* Steps that read.
LEMMA RegistryReads ==
  ASSUME RegistryIInv, NEW c \in RegistryCaller,
         CleanStat(c) \/ BeginDeletion(c) \/ ReadRecord(c) \/ AdvancePhase(c) \/ RecoverRead(c) \/ RecoverCheck(c)
           \/ RecoverGone(c) \/ PublishRead(c) \/ RegistryCrash(c)
  PROVE  RegistryIInv'
<1>0. /\ UNCHANGED <<runDir, stuck, published, emptying>>
      /\ caller[c].phase \in DeletePhase /\ runDir.tombstone \in DeletePhase \cup {Absent, Torn}
      /\ runDir \in Directories /\ stuck \in SUBSET Artifact /\ published \in BOOLEAN /\ emptying \in BOOLEAN
  BY DEF RegistryIInv, RegistryTypeOK, CleanStat, BeginDeletion, ReadRecord, AdvancePhase, RecoverRead, RecoverCheck,
         RecoverGone, PublishRead, RegistryCrash, NoHistory, Directories
<1>1. \A n \in DeletePhase : Cleared(n) => ClearedNext(n)
  BY <1>0, ClearedStays
<1>2. ASSUME NEW s \in CallerStage, NEW k \in DeletePhase,
             CallerStep(c, s, k) \/ (CallerGoes(c, s) /\ k = caller[c].phase),
             s \in {"open", "fill", "advance"} => Cleared(k),
             s = "remove" => k # 0 /\ Cleared(k - 1),
             s = "final" => Cleared(3),
             s \in {"open", "fill", "remove", "advance", "final", "gone"} => published,
             s \in {"fill", "remove", "advance", "final", "gone"} => emptying \/ runDir.tombstone # Absent
      PROVE  RegistryIInv'
  <2>1. /\ s \in {"open", "fill", "advance"} => ClearedNext(k)
        /\ s = "remove" => k # 0 /\ ClearedNext(k - 1)
        /\ s = "final" => ClearedNext(3)
        /\ emptying => ClearedNext(3)
        /\ runDir.tombstone \in DeletePhase => ClearedNext(runDir.tombstone)
    <3>1. 3 \in DeletePhase /\ (k # 0 => k - 1 \in DeletePhase)
      BY DEF DeletePhase
    <3>2. /\ emptying => Cleared(3)
          /\ runDir.tombstone \in DeletePhase => Cleared(runDir.tombstone)
      BY DEF RegistryIInv, PhaseTellsWhatIsGone, Cleared
    <3> QED
      BY <1>1, <1>2, <3>1, <3>2
  <2>2. /\ runDir.tombstone # Absent \/ runDir.record = "own" => published
        /\ ~emptying => (runDir.tombstone = Absent => runDir.artifacts = Artifact)
        /\ ~emptying => (published => runDir.record = "own")
        /\ runDir.artifacts # Artifact \/ ~runDir.there => published
    BY DEF RegistryIInv, DeletersPublished, TombstoneStands, OnlyPublishedRemoved
  <2> QED
    BY <1>0, <1>2, <2>1, <2>2, RegistryStep DEF Directories
<1>3. CASE CleanStat(c) \/ RegistryCrash(c) \/ PublishRead(c) \/ RecoverRead(c)
  BY <1>0, <1>2, <1>3 DEF CleanStat, RegistryCrash, PublishRead, RecoverRead, CallerStage
<1>4. CASE BeginDeletion(c)
  <2>1. 1 \in DeletePhase /\ 1 - 1 = 0 /\ Cleared(0)
    BY PhaseFacts
  <2>2. runDir.tombstone \in DeletePhase => published /\ runDir.tombstone # Absent
    BY TombstoneAssumption DEF RegistryIInv, DeletersPublished
  <2> QED
    BY <1>0, <1>2, <1>4, <2>1, <2>2 DEF BeginDeletion, CallerStage
<1>5. CASE ReadRecord(c)
  <2>1. 0 \in DeletePhase /\ Cleared(0) /\ (runDir.record = "own" => published)
    BY PhaseFacts DEF RegistryIInv, DeletersPublished
  <2> QED
    BY <1>0, <1>2, <1>5, <2>1 DEF ReadRecord, CallerStage
<1>6. CASE AdvancePhase(c)
  <2>1. /\ Cleared(caller[c].phase) /\ published
        /\ caller[c].phase # 3 => caller[c].phase + 1 \in DeletePhase /\ caller[c].phase + 1 # 0
                                  /\ (caller[c].phase + 1) - 1 = caller[c].phase
        /\ runDir.tombstone \in DeletePhase => runDir.tombstone # Absent
    BY <1>0, <1>6, TombstoneAssumption
    DEF AdvancePhase, CallerAt, RegistryIInv, StagesAreCleared, DeletersPublished, DeletePhase
  <2> QED
    BY <1>0, <1>2, <1>6, <2>1 DEF AdvancePhase, CallerStage
<1>7. CASE RecoverCheck(c)
  BY <1>0, <1>2, <1>7 DEF RecoverCheck, CallerStage, RegistryIInv, DeletersPublished
<1>8. CASE RecoverGone(c)
  <2>1. /\ published /\ (emptying \/ runDir.tombstone # Absent)
        /\ runDir.artifacts = {} => Cleared(3)
    BY <1>8, PhaseFacts DEF RecoverGone, CallerAt, RegistryIInv, DeletersPublished, TombstoneStands
  <2> QED
    BY <1>0, <1>2, <1>8, <2>1 DEF RecoverGone, CallerStage
<1> QED
  BY <1>3, <1>4, <1>5, <1>6, <1>7, <1>8

LEMMA TombstoneSteps ==
  ASSUME RegistryIInv, NEW c \in RegistryCaller, OpenTombstone(c) \/ FillTombstone(c)
  PROVE  RegistryIInv'
<1> DEFINE k == caller[c].phase
<1>0. /\ UNCHANGED <<stuck, published, emptying>> /\ k \in DeletePhase
      /\ runDir \in Directories /\ stuck \in SUBSET Artifact /\ published \in BOOLEAN /\ emptying \in BOOLEAN
      /\ Cleared(k) /\ published
      /\ emptying => Cleared(3)
      /\ runDir.tombstone \in DeletePhase => Cleared(runDir.tombstone)
      /\ ~emptying => runDir.record = "own"
      /\ caller[c].at = "fill" /\ ~emptying => runDir.tombstone # Absent
      /\ caller[c].at \in {"open", "fill"}
      /\ runDir.tombstone = Absent /\ ~emptying => runDir.artifacts = Artifact
  BY DEF RegistryIInv, RegistryTypeOK, OpenTombstone, FillTombstone, NoHistory, Directories, StagesAreCleared,
         DeletersPublished, TombstoneStands, PhaseTellsWhatIsGone, CallerAt, Cleared
<1>1. CASE OpenTombstone(c)
  <2>1. CASE runDir.there
    <3>1. runDir' = [runDir EXCEPT !.tombstone = Torn] /\ CallerGoes(c, "fill")
      BY <1>1, <2>1 DEF OpenTombstone
    <3>2. /\ runDir' \in Directories /\ runDir'.tombstone = Torn /\ runDir'.artifacts = runDir.artifacts
          /\ runDir'.record = runDir.record /\ runDir'.there = runDir.there
      BY <1>0, <3>1 DEF Directories
    <3>3. \A n \in DeletePhase : Cleared(n) => ClearedNext(n)
      BY <1>0, <3>2, ClearedStays
    <3>4. "fill" \in CallerStage /\ 3 \in DeletePhase
      BY DEF CallerStage, DeletePhase
    <3> QED
      BY <1>0, <3>1, <3>2, <3>3, <3>4, RegistryStep, TombstoneAssumption DEF Directories
  <2>2. CASE ~runDir.there
    <3>1. runDir' = runDir /\ CallerGoes(c, "end")
      BY <1>1, <2>2 DEF OpenTombstone
    <3>2. \A n \in DeletePhase : Cleared(n) => ClearedNext(n)
      BY <1>0, <3>1, ClearedStays
    <3>3. "end" \in CallerStage /\ 3 \in DeletePhase
      BY DEF CallerStage, DeletePhase
    <3> QED
      BY <1>0, <3>1, <3>2, <3>3, RegistryStep DEF Directories
  <2> QED
    BY <2>1, <2>2
<1>2. CASE FillTombstone(c)
  <2>1. runDir' = IF runDir.tombstone = Absent THEN runDir ELSE [runDir EXCEPT !.tombstone = k]
    BY <1>2 DEF FillTombstone
  <2>2. /\ runDir' \in Directories /\ runDir'.artifacts = runDir.artifacts
        /\ runDir'.record = runDir.record /\ runDir'.there = runDir.there
        /\ runDir'.tombstone = IF runDir.tombstone = Absent THEN Absent ELSE k
    BY <1>0, <2>1 DEF Directories
  <2>3. \A n \in DeletePhase : Cleared(n) => ClearedNext(n)
    BY <1>0, <2>2, ClearedStays
  <2>4. k # Absent /\ Absent \notin DeletePhase /\ 3 \in DeletePhase
    BY <1>0, TombstoneAssumption DEF DeletePhase
  <2>5. /\ runDir'.tombstone \in DeletePhase => ClearedNext(runDir'.tombstone)
        /\ emptying => ClearedNext(3)
    BY <1>0, <2>2, <2>3, <2>4
  <2>6. CASE k = 3
    <3>1. CallerGoes(c, "final") /\ "final" \in CallerStage /\ ClearedNext(3)
      BY <1>0, <1>2, <2>3, <2>6 DEF FillTombstone, CallerStage
    <3> QED
      BY <1>0, <1>2, <2>2, <2>4, <2>5, <3>1, RegistryStep DEF Directories, FillTombstone, CallerAt
  <2>7. CASE k # 3
    <3>1. CallerStep(c, "remove", k + 1) /\ "remove" \in CallerStage
      BY <1>2, <2>7 DEF FillTombstone, CallerStage
    <3>2. k + 1 \in DeletePhase /\ k + 1 # 0 /\ (k + 1) - 1 = k /\ ClearedNext(k)
      BY <1>0, <2>3, <2>7 DEF DeletePhase
    <3> QED
      BY <1>0, <1>2, <2>2, <2>4, <2>5, <3>1, <3>2, RegistryStep DEF Directories, FillTombstone, CallerAt
  <2> QED
    BY <2>6, <2>7
<1> QED
  BY <1>1, <1>2

LEMMA RemoveArtifactStep ==
  ASSUME RegistryIInv, NEW c \in RegistryCaller, RemoveArtifact(c)
  PROVE  RegistryIInv'
<1> DEFINE k == caller[c].phase
<1>0. /\ UNCHANGED <<published, emptying>> /\ k \in DeletePhase /\ k # 0
      /\ runDir \in Directories /\ stuck \in SUBSET Artifact /\ published \in BOOLEAN /\ emptying \in BOOLEAN
      /\ Cleared(k - 1) /\ published
      /\ emptying => Cleared(3)
      /\ runDir.tombstone \in DeletePhase => Cleared(runDir.tombstone)
      /\ ~emptying => runDir.record = "own" /\ runDir.tombstone # Absent
      /\ CallerGoes(c, "advance") /\ "advance" \in CallerStage
  BY DEF RegistryIInv, RegistryTypeOK, RemoveArtifact, Directories, StagesAreCleared,
         DeletersPublished, TombstoneStands, PhaseTellsWhatIsGone, CallerAt, Cleared, CallerStage
<1>1. \/ runDir' = [runDir EXCEPT !.artifacts = @ \ {k}] /\ UNCHANGED stuck
      \/ k \in runDir.artifacts /\ stuck' = stuck \cup {k} /\ UNCHANGED runDir
  BY DEF RemoveArtifact
<1>2. /\ runDir' \in Directories /\ runDir'.artifacts \subseteq runDir.artifacts
      /\ runDir'.record = runDir.record /\ runDir'.there = runDir.there /\ runDir'.tombstone = runDir.tombstone
      /\ stuck' \in SUBSET Artifact /\ stuck \subseteq stuck'
      /\ k \notin runDir'.artifacts \/ k \in stuck'
  BY <1>0, <1>1 DEF Directories
<1>3. \A n \in DeletePhase : Cleared(n) => ClearedNext(n)
  BY <1>2, ClearedStays
<1>4. ClearedNext(k) /\ 3 \in DeletePhase
  <2>1. k \in {1, 2, 3} /\ k - 1 \in DeletePhase /\ \A a \in Artifact : a <= k => a <= k - 1 \/ a = k
    BY <1>0, PhaseFacts DEF DeletePhase, Artifact
  <2> QED
    BY <1>0, <1>2, <1>3, <2>1, PhaseFacts DEF ClearedNext
<1>5. OnlyPublishedRemoved' /\ (runDir'.tombstone \in DeletePhase => ClearedNext(runDir'.tombstone))
  BY <1>0, <1>2, <1>3 DEF OnlyPublishedRemoved
<1> QED
  BY <1>0, <1>2, <1>3, <1>4, <1>5, RegistryStep DEF Directories

LEMMA RemoveDirectoryStep ==
  ASSUME RegistryIInv, NEW c \in RegistryCaller, RemoveDirectory(c)
  PROVE  RegistryIInv'
<1>0. /\ UNCHANGED <<stuck, published>> /\ emptying' = TRUE
      /\ runDir \in Directories /\ stuck \in SUBSET Artifact /\ published = TRUE
      /\ Cleared(3) /\ 3 \in DeletePhase
      /\ runDir.tombstone \in DeletePhase => Cleared(runDir.tombstone)
      /\ caller[c].at = "final" /\ caller[c].phase \in DeletePhase
  BY DEF RegistryIInv, RegistryTypeOK, RemoveDirectory, Directories, StagesAreCleared,
         DeletersPublished, PhaseTellsWhatIsGone, CallerAt, Cleared, DeletePhase
<1>1. /\ runDir' \in Directories /\ runDir'.artifacts \subseteq runDir.artifacts
      /\ runDir'.tombstone \in {runDir.tombstone, Absent}
  BY <1>0 DEF RemoveDirectory, Directories
<1>2. \A n \in DeletePhase : Cleared(n) => ClearedNext(n)
  BY <1>0, <1>1, ClearedStays
<1>3. ClearedNext(3) /\ (runDir'.tombstone \in DeletePhase => ClearedNext(runDir'.tombstone))
  BY <1>0, <1>1, <1>2, TombstoneAssumption
<1>4. /\ UNCHANGED caller \/ CallerGoes(c, "end")
      /\ {"final", "end"} \subseteq CallerStage
  BY DEF RemoveDirectory, CallerStage
<1> QED
  BY <1>0, <1>1, <1>3, <1>4, RegistryStep DEF Directories

LEMMA PublishWriteStep ==
  ASSUME RegistryIInv, NEW c \in RegistryCaller, PublishWrite(c)
  PROVE  RegistryIInv'
<1>0. /\ UNCHANGED <<stuck, emptying>> /\ emptying \in BOOLEAN
      /\ runDir \in Directories /\ stuck \in SUBSET Artifact /\ published \in BOOLEAN
      /\ emptying => Cleared(3)
      /\ runDir.tombstone \in DeletePhase => Cleared(runDir.tombstone)
      /\ runDir.tombstone # Absent \/ runDir.record = "own" \/ runDir.artifacts # Artifact \/ ~runDir.there => published
      /\ ~emptying => /\ runDir.tombstone = Absent => runDir.artifacts = Artifact
                      /\ published => runDir.record = "own"
      /\ caller[c].phase \in DeletePhase /\ CallerGoes(c, "end") /\ "end" \in CallerStage /\ 3 \in DeletePhase
  BY DEF RegistryIInv, RegistryTypeOK, PublishWrite, Directories, DeletersPublished, TombstoneStands,
         OnlyPublishedRemoved, PhaseTellsWhatIsGone, Cleared, DeletePhase, CallerStage
<1>1. \/ runDir.there /\ runDir' = [runDir EXCEPT !.record = "own"] /\ published' = TRUE
      \/ ~runDir.there /\ UNCHANGED <<runDir, published>>
  BY DEF PublishWrite
<1>2. /\ runDir' \in Directories /\ runDir'.artifacts = runDir.artifacts
      /\ runDir'.there = runDir.there /\ runDir'.tombstone = runDir.tombstone
      /\ published' \in BOOLEAN /\ (published => published')
      /\ \/ runDir'.record = "own" /\ published'
         \/ runDir' = runDir /\ published' = published
  <2>1. CASE runDir' = [runDir EXCEPT !.record = "own"] /\ published' = TRUE
    BY <1>0, <2>1 DEF Directories
  <2>2. CASE UNCHANGED <<runDir, published>>
    BY <1>0, <2>2
  <2> QED
    BY <1>1, <2>1, <2>2
<1>3. \A n \in DeletePhase : Cleared(n) => ClearedNext(n)
  BY <1>0, <1>2, ClearedStays
<1>4. /\ emptying => ClearedNext(3)
      /\ runDir'.tombstone \in DeletePhase => ClearedNext(runDir'.tombstone)
  BY <1>0, <1>2, <1>3
<1> QED
  BY <1>0, <1>2, <1>4, RegistryStep DEF Directories

LEMMA RegistryIInvStep == RegistryIInv /\ [RegistryNext]_registryVars => RegistryIInv'
<1> SUFFICES ASSUME RegistryIInv, [RegistryNext]_registryVars PROVE RegistryIInv'
  OBVIOUS
<1>1. CASE UNCHANGED registryVars
  BY <1>1 DEF registryVars, RegistryIInv, RegistryTypeOK, StagesAreCleared, DeletersPublished, TombstoneStands,
     OnlyPublishedRemoved, PhaseTellsWhatIsGone, Cleared
<1>2. CASE RegistryNext
  BY <1>2, RegistryReads, TombstoneSteps, RemoveArtifactStep, RemoveDirectoryStep, PublishWriteStep DEF RegistryNext
<1> QED
  BY <1>1, <1>2

\* Whoever cleans, recovers and publishes at once, and whoever crashes: only a published run's directory loses
\* anything, the tombstone tells how far, and what is abandoned is empty.
THEOREM RegistryIsSafe == RegistrySpec => []RegistryInv
<1>1. RegistryIInv /\ [RegistryNext]_registryVars => RegistryIInv'
  BY RegistryIInvStep
<1> QED
  BY <1>1, RegistryIInvInit, RegistryIInvImplies, PTL DEF RegistrySpec

-----------------------------------------------------------------------------
(* The quarantine.  A run's units are its calls in flight and what stands  *)
(* in its complete directory, unless a clean has taken one of another; the *)
(* sets are finite because every one of them began empty.                  *)

TotalStands ==
  /\ IsFiniteSet(Units)
  /\ reserved = Cardinality(Units) /\ reserved <= UsableUnits

\* flying: the run's calls in flight; unit: whether the directory has one.
Covers(flying, unit, h, over) ==
  /\ IsFiniteSet(flying)
  /\ ~over => h = Cardinality(flying) + (IF unit THEN 1 ELSE 0)

\* What has been done before the manifest may say k.
Before(done, k) ==
  /\ k >= 2 => "worktree" \in done
  /\ k >= 3 => "ref" \in done
  /\ k >= 4 => "index" \in done

RunIsSound(below, above, done, stays, unit) ==
  /\ Before(done, below.phase) /\ Before(done, above.phase)
  /\ ~stays => done = Effect
  /\ unit => above.there

CallIsSound(row, done) ==
  /\ row.at \in {"open", "write"} => Before(done, row.next)
  /\ row.at = "operate" => row.next \in {2, 3, 4} /\ Before(done, row.next - 1)
  /\ row.at \in {"verify", "discard"} => done = Effect

RunCovered(r) == Covers(Reserving(r), covered[r], held[r], r \in overdrawn)
RunSound(r) == RunIsSound(incomplete[r], complete[r], effects[r], worktree[r], covered[r])
CallSound(c) == CallIsSound(quarantining[c], effects[QRunOf[c]])

QuarantineIInv ==
  /\ QuarantineTypeOK /\ TotalStands
  /\ \A r \in QRun : RunCovered(r) /\ RunSound(r)
  /\ \A c \in QCall : CallSound(c)

CallRow == [at : QAt, next : QPhase, file : {"none", "incomplete", "complete"}]

LEMMA CallRows ==
  /\ QIdle \in CallRow
  /\ \A s \in QAt, k \in QPhase : [at |-> s, next |-> k, file |-> "none"] \in CallRow
  BY DEF QIdle, CallRow, QAt, QPhase

LEMMA QuarantineIInvInit == QuarantineInit => QuarantineIInv
<1> SUFFICES ASSUME QuarantineInit PROVE QuarantineIInv
  OBVIOUS
<1>0. NoDirectory \in Directory
  BY DEF NoDirectory, NoManifest, Directory
<1>1. QuarantineTypeOK
  <2>1. incomplete \in [QRun -> Directory] /\ complete \in [QRun -> Directory]
    BY <1>0 DEF QuarantineInit
  <2>2. /\ misnamed \in BOOLEAN /\ overdrawn \subseteq QRun
        /\ effects \in [QRun -> SUBSET Effect] /\ worktree \in [QRun -> BOOLEAN]
        /\ covered \in [QRun -> BOOLEAN]
    BY DEF QuarantineInit
  <2>3. /\ held \in [QRun -> Nat] /\ reserved \in Nat /\ restarts \in 0..MaxRestarts
    BY QuotaAssumption DEF QuarantineInit
  <2>4. quarantining \in [QCall -> CallRow]
    BY CallRows DEF QuarantineInit
  <2> QED
    BY <2>1, <2>2, <2>3, <2>4 DEF QuarantineTypeOK, CallRow
<1>2. Units = {}
  <2>1. ASSUME NEW u \in Units PROVE FALSE
    <3>1. PICK r \in QRun : u \in {r} \X (1..held[r])
      BY DEF Units
    <3>2. held[r] = 0 /\ 1..0 = {}
      BY DEF QuarantineInit
    <3> QED
      BY <3>1, <3>2
  <2> QED
    BY <2>1
<1>3. TotalStands
  BY <1>2, FS_EmptySet, QuotaAssumption DEF TotalStands, QuarantineInit
<1>4. ASSUME NEW r \in QRun PROVE RunCovered(r) /\ RunSound(r)
  <2>1. Reserving(r) = {}
    BY DEF Reserving, InFlight, QuarantineInit, QIdle
  <2>2. RunCovered(r)
    BY <2>1, FS_EmptySet DEF RunCovered, Covers, QuarantineInit
  <2>3. RunSound(r)
    BY DEF RunSound, RunIsSound, Before, QuarantineInit, NoDirectory, NoManifest
  <2> QED
    BY <2>2, <2>3
<1>5. ASSUME NEW c \in QCall PROVE CallSound(c)
  BY DEF CallSound, CallIsSound, QuarantineInit, QIdle
<1> QED
  BY <1>1, <1>3, <1>4, <1>5 DEF QuarantineIInv

LEMMA QuarantineIInvImplies == QuarantineIInv => QuarantineInv
<1> SUFFICES ASSUME QuarantineIInv PROVE QuarantineInv
  OBVIOUS
<1>1. QuotaCoversFlight
  BY DEF QuarantineIInv, QuotaCoversFlight, RunCovered, Covers, TotalStands
<1>2. PhaseWasReached /\ OnlyCompleteIsCleaned
  BY DEF QuarantineIInv, PhaseWasReached, OnlyCompleteIsCleaned, RunSound, RunIsSound, Before, ReachedIn
<1> QED
  BY <1>1, <1>2 DEF QuarantineIInv, QuarantineInv

\* The reservations of one run and the quota's total move together.
LEMMA UnitsAt ==
  ASSUME NEW u PROVE u \in Units <=> \E r \in QRun : u \in {r} \X (1..held[r])
  BY DEF Units

LEMMA UnitTaken ==
  ASSUME QuarantineIInv, NEW r \in QRun, ReserveUnit(r)
  PROVE  /\ TotalStands' /\ held' \in [QRun -> Nat] /\ reserved' \in Nat
         /\ \A q \in QRun \ {r} : held'[q] = held[q]
         /\ held'[r] > held[r] => held'[r] = held[r] + 1
         /\ ~(held'[r] > held[r]) => held'[r] = held[r]
<1>1. /\ held \in [QRun -> Nat] /\ held[r] \in Nat /\ reserved \in Nat /\ UsableUnits \in Nat
      /\ TotalStands
  BY QuotaAssumption DEF QuarantineIInv, QuarantineTypeOK
<1>2. CASE reserved + 1 > UsableUnits
  <2>1. held' = held /\ reserved' = reserved
    BY <1>2 DEF ReserveUnit
  <2>2. Units' = Units
    BY <2>1 DEF Units
  <2> QED
    BY <1>1, <2>1, <2>2 DEF TotalStands
<1>3. CASE ~(reserved + 1 > UsableUnits)
  <2> DEFINE u == <<r, held[r] + 1>>
  <2>1. /\ held' = [held EXCEPT ![r] = @ + 1] /\ reserved' = reserved + 1
        /\ reserved + 1 <= UsableUnits
    BY <1>1, <1>3 DEF ReserveUnit
  <2>2. /\ held' \in [QRun -> Nat] /\ held'[r] = held[r] + 1
        /\ \A q \in QRun \ {r} : held'[q] = held[q]
    BY <1>1, <2>1
  <2>3. u \notin Units
    BY <1>1 DEF Units
  <2>4. Units' = Units \cup {u}
    <3>1. ASSUME NEW v PROVE v \in Units' <=> v \in Units \/ v = u
      <4>1. v \in Units' <=> \E q \in QRun : v \in {q} \X (1..held'[q])
        BY DEF Units
      <4>2. \A q \in QRun \ {r} : v \in {q} \X (1..held'[q]) <=> v \in {q} \X (1..held[q])
        BY <2>2
      <4>3. v \in {r} \X (1..held'[r]) <=> v \in {r} \X (1..held[r]) \/ v = u
        BY <1>1, <2>2
      <4> QED
        BY <4>1, <4>2, <4>3, UnitsAt
    <3> QED
      BY <3>1
  <2>5. IsFiniteSet(Units \cup {u}) /\ Cardinality(Units \cup {u}) = Cardinality(Units) + 1
    BY <1>1, <2>3, FS_AddElement DEF TotalStands
  <2>6. TotalStands'
    BY <1>1, <2>1, <2>4, <2>5 DEF TotalStands
  <2> QED
    BY <1>1, <2>1, <2>2, <2>6
<1> QED
  BY <1>2, <1>3

LEMMA UnitReturned ==
  ASSUME QuarantineIInv, NEW r \in QRun, ReleaseUnit(r)
  PROVE  /\ TotalStands' /\ held' \in [QRun -> Nat] /\ reserved' \in Nat
         /\ \A q \in QRun \ {r} : held'[q] = held[q]
         /\ held'[r] = IF held[r] = 0 THEN 0 ELSE held[r] - 1
<1>1. /\ held \in [QRun -> Nat] /\ held[r] \in Nat /\ reserved \in Nat /\ UsableUnits \in Nat
      /\ TotalStands
  BY QuotaAssumption DEF QuarantineIInv, QuarantineTypeOK
<1>2. CASE held[r] = 0
  <2>1. Smaller(held[r], 1) = 0
    BY <1>2 DEF Smaller
  <2>2. /\ held' = [held EXCEPT ![r] = @ - 0]
        /\ reserved' = IF reserved > 0 THEN reserved - 0 ELSE 0
    BY <2>1 DEF ReleaseUnit
  <2>3. held' = held /\ reserved' = reserved
    BY <1>1, <2>2
  <2>4. Units' = Units
    BY <2>3 DEF Units
  <2> QED
    BY <1>1, <1>2, <2>3, <2>4 DEF TotalStands
<1>3. CASE held[r] # 0
  <2> DEFINE u == <<r, held[r]>>
  <2>1. Smaller(held[r], 1) = 1
    BY <1>1, <1>3 DEF Smaller
  <2>2. /\ held' = [held EXCEPT ![r] = @ - 1]
        /\ reserved' = IF reserved > 1 THEN reserved - 1 ELSE 0
    BY <2>1 DEF ReleaseUnit
  <2>3. /\ held' \in [QRun -> Nat] /\ held'[r] = held[r] - 1
        /\ \A q \in QRun \ {r} : held'[q] = held[q]
    BY <1>1, <1>3, <2>2
  <2>4. u \in Units
    BY <1>1, <1>3 DEF Units
  <2>5. Units' = Units \ {u}
    <3>1. ASSUME NEW v PROVE v \in Units' <=> v \in Units /\ v # u
      <4>1. v \in Units' <=> \E q \in QRun : v \in {q} \X (1..held'[q])
        BY DEF Units
      <4>2. \A q \in QRun \ {r} :
              v \in {q} \X (1..held'[q]) <=> v \in {q} \X (1..held[q]) /\ v # u
        BY <2>3
      <4>3. v \in {r} \X (1..held'[r]) <=> v \in {r} \X (1..held[r]) /\ v # u
        BY <1>1, <2>3
      <4> QED
        BY <4>1, <4>2, <4>3, UnitsAt
    <3> QED
      BY <3>1
  <2>6. /\ IsFiniteSet(Units \ {u}) /\ Cardinality(Units \ {u}) = Cardinality(Units) - 1
        /\ Cardinality(Units) \in Nat
    BY <1>1, <2>4, FS_RemoveElement, FS_CardinalityType DEF TotalStands
  <2>7. Cardinality(Units \ {u}) \in Nat
    BY <2>6, FS_CardinalityType
  <2>8. reserved' = reserved - 1
    BY <1>1, <2>2, <2>6, <2>7 DEF TotalStands
  <2>9. TotalStands' /\ reserved' \in Nat
    BY <1>1, <2>5, <2>6, <2>7, <2>8 DEF TotalStands
  <2> QED
    BY <1>3, <2>3, <2>9
<1> QED
  BY <1>2, <1>3

\* What covers a run when a call joins it, fails, completes, or is cleaned.
LEMMA CoversJoin ==
  ASSUME NEW S, NEW c, c \notin S, NEW unit, NEW h \in Nat, NEW over, Covers(S, unit, h, over)
  PROVE  Covers(S \cup {c}, unit, h + 1, over)
<1>1. /\ IsFiniteSet(S \cup {c}) /\ Cardinality(S \cup {c}) = Cardinality(S) + 1
      /\ Cardinality(S) \in Nat
  BY FS_AddElement, FS_CardinalityType DEF Covers
<1> QED
  BY <1>1 DEF Covers

LEMMA CoversLeave ==
  ASSUME NEW S, NEW c \in S, NEW unit, NEW h \in Nat, NEW over, Covers(S, unit, h, over)
  PROVE  /\ Covers(S \ {c}, unit, IF h = 0 THEN 0 ELSE h - 1, over)
         /\ ~unit => Covers(S \ {c}, TRUE, h, over)
<1>1. /\ IsFiniteSet(S \ {c}) /\ Cardinality(S \ {c}) = Cardinality(S) - 1
      /\ Cardinality(S) \in Nat
  BY FS_RemoveElement, FS_CardinalityType DEF Covers
<1>2. Cardinality(S \ {c}) \in Nat
  BY <1>1, FS_CardinalityType
<1> QED
  BY <1>1, <1>2 DEF Covers

-----------------------------------------------------------------------------
(* One call and the others                                                 *)

OthersStand(c) ==
  \A d \in QCall \ {c} :
    quarantining'[d].at = quarantining[d].at /\ quarantining'[d].next = quarantining[d].next

Elsewhere(r) ==
  \A q \in QRun \ {r} :
    /\ incomplete'[q] = incomplete[q] /\ complete'[q] = complete[q]
    /\ effects'[q] = effects[q] /\ worktree'[q] = worktree[q]
    /\ held'[q] = held[q] /\ covered'[q] = covered[q]
    /\ q \in overdrawn' <=> q \in overdrawn

LEMMA ReservingMoves ==
  ASSUME NEW c \in QCall, OthersStand(c)
  PROVE  /\ \A q \in QRun \ {QRunOf[c]} : Reserving(q)' = Reserving(q)
         /\ InFlight(c)' => Reserving(QRunOf[c])' = Reserving(QRunOf[c]) \cup {c}
         /\ ~InFlight(c)' => Reserving(QRunOf[c])' = Reserving(QRunOf[c]) \ {c}
         /\ c \in Reserving(QRunOf[c]) <=> InFlight(c)
<1>1. \A d \in QCall \ {c} : InFlight(d)' <=> InFlight(d)
  BY DEF OthersStand, InFlight
<1> QED
  BY <1>1 DEF Reserving

LEMMA CallStays ==
  ASSUME NEW row, NEW other, NEW done \in SUBSET Effect, NEW more \in SUBSET Effect,
         done \subseteq more, other.at = row.at, other.next = row.next, CallIsSound(row, done)
  PROVE  CallIsSound(other, more)
<1>1. ASSUME NEW k, Before(done, k) PROVE Before(more, k)
  BY <1>1 DEF Before
<1>2. done = Effect => more = Effect
  OBVIOUS
<1> QED
  BY <1>1, <1>2 DEF CallIsSound

\* A step of one call, told by what becomes of its run and its own stage.
LEMMA QuarantineRow ==
  ASSUME QuarantineIInv, QuarantineTypeOK', NEW c \in QCall, NEW r \in QRun, r = QRunOf[c],
         OthersStand(c), Elsewhere(r), effects[r] \subseteq effects'[r],
         TotalStands', RunCovered(r)', RunSound(r)', CallSound(c)'
  PROVE  QuarantineIInv'
<1>1. ASSUME NEW q \in QRun PROVE RunCovered(q)' /\ RunSound(q)'
  <2>1. CASE q = r
    BY <2>1
  <2>2. CASE q # r
    <3>1. Reserving(q)' = Reserving(q)
      BY <2>2, ReservingMoves
    <3>2. /\ incomplete'[q] = incomplete[q] /\ complete'[q] = complete[q]
          /\ effects'[q] = effects[q] /\ worktree'[q] = worktree[q]
          /\ held'[q] = held[q] /\ covered'[q] = covered[q]
          /\ (q \in overdrawn') = (q \in overdrawn)
      BY <2>2 DEF Elsewhere
    <3>3. RunCovered(q) /\ RunSound(q)
      BY DEF QuarantineIInv
    <3>4. RunCovered(q)'
      BY <3>1, <3>2, <3>3 DEF RunCovered
    <3>5. RunSound(q)'
      BY <3>2, <3>3 DEF RunSound
    <3> QED
      BY <3>4, <3>5
  <2> QED
    BY <2>1, <2>2
<1>2. ASSUME NEW d \in QCall PROVE CallSound(d)'
  <2>1. CASE d = c
    BY <2>1
  <2>2. CASE d # c
    <3>1. QRunOf[d] \in QRun /\ effects \in [QRun -> SUBSET Effect] /\ effects' \in [QRun -> SUBSET Effect]
      BY QCallAssumption DEF QuarantineIInv, QuarantineTypeOK
    <3>2. effects[QRunOf[d]] \subseteq effects'[QRunOf[d]]
      BY <3>1 DEF Elsewhere
    <3>3. quarantining'[d].at = quarantining[d].at /\ quarantining'[d].next = quarantining[d].next
      BY <2>2 DEF OthersStand
    <3>4. CallIsSound(quarantining[d], effects[QRunOf[d]])
      BY DEF QuarantineIInv, CallSound
    <3>5. effects[QRunOf[d]] \in SUBSET Effect /\ effects'[QRunOf[d]] \in SUBSET Effect
      BY <3>1
    <3> DEFINE old == quarantining[d]
               new == quarantining'[d]
               done == effects[QRunOf[d]]
               more == effects'[QRunOf[d]]
    <3>6. /\ new.at = old.at /\ new.next = old.next /\ CallIsSound(old, done)
          /\ done \in SUBSET Effect /\ more \in SUBSET Effect /\ done \subseteq more
      BY <3>2, <3>3, <3>4, <3>5
    <3>7. CallSound(d)' <=> CallIsSound(new, more)
      BY DEF CallSound
    <3> HIDE DEF old, new, done, more
    <3> QED
      BY <3>6, <3>7, CallStays
  <2> QED
    BY <2>1, <2>2
<1> QED
  BY <1>1, <1>2 DEF QuarantineIInv

\* What a call that only moves, or one after whose step a directory has
\* another name, does to the calls.
LEMMA CallGoes ==
  ASSUME QuarantineTypeOK, NEW c \in QCall, NEW s \in QAt, QGoes(c, s)
  PROVE  /\ quarantining' \in [QCall -> CallRow] /\ OthersStand(c)
         /\ quarantining'[c].at = s /\ quarantining'[c].next = quarantining[c].next
  BY DEF QuarantineTypeOK, QGoes, OthersStand, CallRow

LEMMA CallOpens ==
  ASSUME QuarantineTypeOK, NEW c \in QCall,
         quarantining' = [quarantining EXCEPT ![c].at = "write", ![c].file = "incomplete"]
  PROVE  /\ quarantining' \in [QCall -> CallRow] /\ OthersStand(c)
         /\ quarantining'[c].at = "write" /\ quarantining'[c].next = quarantining[c].next
<1>1. "write" \in QAt
  BY DEF QAt
<1> QED
  BY <1>1 DEF QuarantineTypeOK, OthersStand, CallRow

LEMMA CallSteps ==
  ASSUME QuarantineTypeOK, NEW c \in QCall, NEW s \in QAt, NEW k \in QPhase, QStep(c, s, k)
  PROVE  /\ quarantining' \in [QCall -> CallRow] /\ OthersStand(c)
         /\ quarantining'[c].at = s /\ quarantining'[c].next = k
<1>1. [at |-> s, next |-> k, file |-> "none"] \in CallRow
  BY CallRows
<1> QED
  BY <1>1 DEF QuarantineTypeOK, QStep, OthersStand, CallRow

LEMMA CallResets ==
  ASSUME QuarantineTypeOK, NEW c \in QCall, QReset(c)
  PROVE  /\ quarantining' \in [QCall -> CallRow] /\ OthersStand(c) /\ quarantining'[c].at = "idle"
<1>1. QIdle \in CallRow /\ QIdle.at = "idle"
  BY CallRows DEF QIdle
<1> QED
  BY <1>1 DEF QuarantineTypeOK, QReset, OthersStand, CallRow

LEMMA FilesMove ==
  ASSUME QuarantineTypeOK, NEW c \in QCall, NEW from, NEW to \in {"none", "complete"},
         FilesFollow(c, from, to)
  PROVE  /\ quarantining' \in [QCall -> CallRow] /\ OthersStand(c) /\ quarantining'[c].at = "idle"
<1>1. QIdle \in CallRow /\ QIdle.at = "idle"
  BY CallRows DEF QIdle
<1>2. quarantining'[c] = QIdle
  BY DEF FilesFollow
<1>3. ASSUME NEW d \in QCall \ {c}
      PROVE  quarantining'[d] \in {quarantining[d], [quarantining[d] EXCEPT !.file = to]}
  BY DEF FilesFollow
<1>4. ASSUME NEW d \in QCall
      PROVE  [quarantining[d] EXCEPT !.file = to] \in CallRow /\ quarantining[d] \in CallRow
  BY DEF QuarantineTypeOK, CallRow
<1>5. OthersStand(c)
  BY <1>3, <1>4 DEF OthersStand, CallRow
<1>6. quarantining' = [d \in QCall |-> quarantining'[d]]
  BY DEF FilesFollow
<1>7. \A d \in QCall : quarantining'[d] \in CallRow
  BY <1>1, <1>2, <1>3, <1>4
<1> HIDE DEF FilesFollow
<1> QED
  BY <1>1, <1>2, <1>5, <1>6, <1>7

LEMMA UnitsKept ==
  ASSUME QuarantineIInv, NEW c \in QCall, OthersStand(c), InFlight(c)' <=> InFlight(c),
         UNCHANGED quotaVars
  PROVE  TotalStands' /\ RunCovered(QRunOf[c])'
<1>1. Reserving(QRunOf[c])' = Reserving(QRunOf[c])
  BY ReservingMoves
<1>2. held' = held /\ reserved' = reserved /\ covered' = covered /\ overdrawn' = overdrawn
  BY DEF quotaVars
<1>3. Units' = Units
  BY <1>2 DEF Units
<1>4. TotalStands /\ RunCovered(QRunOf[c])
  BY QCallAssumption DEF QuarantineIInv
<1> QED
  BY <1>1, <1>2, <1>3, <1>4 DEF TotalStands, RunCovered

LEMMA DirectoryRows ==
  /\ \A b \in BOOLEAN : NoManifest(b) \in Directory /\ NoManifest(b).there = b /\ NoManifest(b).phase = 0
  /\ NoDirectory \in Directory /\ NoDirectory.phase = 0
<1>1. 0 \in 0..5 /\ 0 \in 0..17
  OBVIOUS
<1> QED
  BY <1>1 DEF NoManifest, NoDirectory, Directory

LEMMA WrittenRow ==
  ASSUME NEW d \in Directory, NEW c \in QCall, NEW k \in QPhase
  PROVE  /\ Written(d, c, k) \in Directory /\ Written(d, c, k).there
         /\ Written(d, c, k).phase \in {0, k}
<1>1. LengthOf[k] \in 0..17 /\ k \in 0..5 /\ d.size \in 0..17
  BY DEF QPhase, LengthOf, Directory
<1>2. CASE d.size > LengthOf[k]
  <2>1. Written(d, c, k) = [there |-> TRUE, phase |-> 0, size |-> d.size, by |-> {}, marker |-> FALSE]
    BY <1>2 DEF Written, NoManifest
  <2> QED
    BY <1>1, <2>1 DEF Directory
<1>3. CASE ~(d.size > LengthOf[k])
  <2>1. Written(d, c, k) = [there |-> TRUE, phase |-> k, size |-> LengthOf[k], by |-> {c}, marker |-> FALSE]
    BY <1>3 DEF Written
  <2> QED
    BY <1>1, <2>1 DEF Directory
<1> QED
  BY <1>2, <1>3

LEMMA BeforeFacts ==
  /\ \A done : Before(done, 0)
  /\ \A done : Before(done, 1)
  /\ \A done : Before(done, 4) => Before(done, 5)
  BY DEF Before

-----------------------------------------------------------------------------
(* Steps of one call that leave the directories and the work alone         *)

LEMMA CallAlone ==
  ASSUME QuarantineIInv, NEW c \in QCall, quarantining' \in [QCall -> CallRow], OthersStand(c),
         UNCHANGED <<directoryVars, workVars, restarts>>,
         held' \in [QRun -> Nat], reserved' \in Nat, UNCHANGED <<covered, overdrawn>>,
         \A q \in QRun \ {QRunOf[c]} : held'[q] = held[q],
         TotalStands', RunCovered(QRunOf[c])', CallSound(c)'
  PROVE  QuarantineIInv'
<1>1. QRunOf[c] \in QRun
  BY QCallAssumption
<1>2. QuarantineTypeOK
  BY DEF QuarantineIInv
<1>3. /\ incomplete' = incomplete /\ complete' = complete /\ misnamed' = misnamed
      /\ effects' = effects /\ worktree' = worktree /\ restarts' = restarts
      /\ covered' = covered /\ overdrawn' = overdrawn
  BY DEF directoryVars, workVars
<1>4. QuarantineTypeOK'
  BY <1>2, <1>3 DEF QuarantineTypeOK, CallRow
<1>5. Elsewhere(QRunOf[c])
  BY <1>3 DEF Elsewhere
<1>6. RunSound(QRunOf[c])
  BY <1>1 DEF QuarantineIInv
<1>7. RunSound(QRunOf[c])'
  BY <1>3, <1>6 DEF RunSound
<1> DEFINE r == QRunOf[c]
<1>8. r \in QRun /\ effects[r] \subseteq effects'[r] /\ Elsewhere(r) /\ RunCovered(r)' /\ RunSound(r)'
  BY <1>1, <1>3, <1>5, <1>7
<1> HIDE DEF r
<1> QED
  BY <1>4, <1>8, QuarantineRow DEF r

LEMMA CallAloneQuietly ==
  ASSUME QuarantineIInv, NEW c \in QCall, quarantining' \in [QCall -> CallRow], OthersStand(c),
         UNCHANGED <<directoryVars, workVars, quotaVars, restarts>>,
         InFlight(c)' <=> InFlight(c), CallSound(c)'
  PROVE  QuarantineIInv'
<1>1. /\ held' = held /\ reserved' = reserved
      /\ UNCHANGED <<covered, overdrawn>> /\ UNCHANGED <<directoryVars, workVars, restarts>>
  BY DEF quotaVars
<1>2. held \in [QRun -> Nat] /\ reserved \in Nat
  BY DEF QuarantineIInv, QuarantineTypeOK
<1>3. UNCHANGED quotaVars
  OBVIOUS
<1>4. TotalStands' /\ RunCovered(QRunOf[c])'
  BY <1>3, UnitsKept
<1> QED
  BY <1>1, <1>2, <1>4, CallAlone

LEMMA LooksKeep ==
  ASSUME QuarantineIInv, NEW c \in QCall,
         \/ QuarantineBegin(c) \/ CountIncomplete(c) \/ VerifyComplete(c)
         \/ FindComplete(c) \/ ResumeFails(c)
  PROVE  QuarantineIInv'
<1>0. QuarantineTypeOK /\ UNCHANGED <<directoryVars, workVars, quotaVars, restarts>>
  BY DEF QuarantineIInv, QuarantineBegin, CountIncomplete, VerifyComplete, FindComplete, ResumeFails
<1>1. {"idle", "count", "reserve", "verify", "resume"} \subseteq QAt
  BY DEF QAt
<1>2. CASE QuarantineBegin(c) \/ CountIncomplete(c) \/ FindComplete(c) \/ ResumeFails(c)
  <2>1. /\ quarantining[c].at \in {"idle", "count", "resume"}
        /\ \/ QReset(c)
           \/ \E s \in {"count", "reserve", "resume"} : QGoes(c, s)
    BY <1>2 DEF QuarantineBegin, CountIncomplete, FindComplete, ResumeFails, QAtStep
  <2>2. /\ quarantining' \in [QCall -> CallRow] /\ OthersStand(c)
        /\ quarantining'[c].at \in {"idle", "count", "reserve", "resume"}
    BY <1>0, <1>1, <2>1, CallGoes, CallResets
  <2>3. CallSound(c)'
    BY <2>2 DEF CallSound, CallIsSound
  <2>4. InFlight(c)' <=> InFlight(c)
    BY <2>1, <2>2 DEF InFlight
  <2> QED
    BY <1>0, <2>2, <2>3, <2>4, CallAloneQuietly
<1>3. CASE VerifyComplete(c)
  <2>1. quarantining[c].at = "idle" /\ QGoes(c, "verify") /\ complete[QRunOf[c]].phase = 5
    BY <1>3 DEF VerifyComplete, QAtStep
  <2>2. /\ quarantining' \in [QCall -> CallRow] /\ OthersStand(c)
        /\ quarantining'[c].at = "verify"
    BY <1>0, <1>1, <2>1, CallGoes
  <2>3. QRunOf[c] \in QRun
    BY QCallAssumption
  <2>4. Before(effects[QRunOf[c]], 5) /\ effects[QRunOf[c]] \in SUBSET Effect
    BY <1>0, <2>1, <2>3 DEF QuarantineIInv, QuarantineTypeOK, RunSound, RunIsSound
  <2>5. effects[QRunOf[c]] = Effect
    BY <2>4 DEF Before, Effect
  <2>6. CallSound(c)'
    <3>1. effects' = effects
      BY <1>0 DEF workVars
    <3> QED
      BY <2>2, <2>5, <3>1 DEF CallSound, CallIsSound
  <2>7. InFlight(c)' <=> InFlight(c)
    BY <2>1, <2>2 DEF InFlight
  <2> QED
    BY <1>0, <2>2, <2>6, <2>7, CallAloneQuietly
<1> QED
  BY <1>2, <1>3

LEMMA ReserveKeeps ==
  ASSUME QuarantineIInv, NEW c \in QCall, ReserveQuarantine(c)
  PROVE  QuarantineIInv'
<1> DEFINE r == QRunOf[c]
<1>1. /\ r \in QRun /\ QuarantineTypeOK /\ RunCovered(r) /\ quarantining[c].at = "reserve"
      /\ ReserveUnit(r) /\ UNCHANGED <<directoryVars, workVars, restarts>>
      /\ UNCHANGED <<covered, overdrawn>>
      /\ IF held'[r] > held[r] THEN QGoes(c, "mkdir") ELSE QReset(c)
  BY QCallAssumption DEF QuarantineIInv, ReserveQuarantine, QAtStep
<1> HIDE DEF r
<1>2. /\ TotalStands' /\ held' \in [QRun -> Nat] /\ reserved' \in Nat
      /\ \A q \in QRun \ {r} : held'[q] = held[q]
      /\ held'[r] > held[r] => held'[r] = held[r] + 1
      /\ ~(held'[r] > held[r]) => held'[r] = held[r]
  BY <1>1, UnitTaken
<1>3. "mkdir" \in QAt /\ held[r] \in Nat
  BY <1>1 DEF QAt, QuarantineTypeOK
<1>4. /\ quarantining' \in [QCall -> CallRow] /\ OthersStand(c)
      /\ quarantining'[c].at = IF held'[r] > held[r] THEN "mkdir" ELSE "idle"
  BY <1>1, <1>3, CallGoes, CallResets
<1>5. CallSound(c)'
  BY <1>4 DEF CallSound, CallIsSound
<1>6. c \notin Reserving(r)
  BY <1>1 DEF Reserving, InFlight
<1>7. Covers(Reserving(r), covered[r], held[r], r \in overdrawn)
  BY <1>1 DEF RunCovered
<1>8. RunCovered(r)'
  <2>1. CASE held'[r] > held[r]
    <3>1. Reserving(r)' = Reserving(r) \cup {c}
      BY <1>4, <2>1, ReservingMoves DEF InFlight, r
    <3>2. Covers(Reserving(r) \cup {c}, covered[r], held[r] + 1, r \in overdrawn)
      BY <1>3, <1>6, <1>7, CoversJoin
    <3> QED
      BY <1>1, <1>2, <2>1, <3>1, <3>2 DEF RunCovered
  <2>2. CASE ~(held'[r] > held[r])
    <3>1. Reserving(r)' = Reserving(r) \ {c}
      BY <1>4, <2>2, ReservingMoves DEF InFlight, r
    <3>2. Reserving(r)' = Reserving(r)
      BY <1>6, <3>1
    <3> QED
      BY <1>1, <1>2, <1>7, <2>2, <3>2 DEF RunCovered
  <2> QED
    BY <2>1, <2>2
<1> QED
  BY <1>1, <1>2, <1>4, <1>5, <1>8, CallAlone DEF r

LEMMA FailureKeeps ==
  ASSUME QuarantineIInv, NEW c \in QCall, QuarantineFails(c)
  PROVE  QuarantineIInv'
<1> DEFINE r == QRunOf[c]
<1>1. /\ r \in QRun /\ QuarantineTypeOK /\ RunCovered(r) /\ InFlight(c)
      /\ ReleaseUnit(r) /\ UNCHANGED <<directoryVars, workVars, restarts>>
      /\ UNCHANGED <<covered, overdrawn>> /\ QReset(c)
  BY QCallAssumption DEF QuarantineIInv, QuarantineFails, InFlight
<1> HIDE DEF r
<1>2. /\ TotalStands' /\ held' \in [QRun -> Nat] /\ reserved' \in Nat
      /\ \A q \in QRun \ {r} : held'[q] = held[q]
      /\ held'[r] = IF held[r] = 0 THEN 0 ELSE held[r] - 1
  BY <1>1, UnitReturned
<1>3. held[r] \in Nat
  BY <1>1 DEF QuarantineTypeOK
<1>4. /\ quarantining' \in [QCall -> CallRow] /\ OthersStand(c) /\ quarantining'[c].at = "idle"
  BY <1>1, CallResets
<1>5. CallSound(c)'
  BY <1>4 DEF CallSound, CallIsSound
<1>6. c \in Reserving(r) /\ Reserving(r)' = Reserving(r) \ {c}
  BY <1>1, <1>4, ReservingMoves DEF InFlight, r
<1>7. Covers(Reserving(r), covered[r], held[r], r \in overdrawn)
  BY <1>1 DEF RunCovered
<1>8. Covers(Reserving(r) \ {c}, covered[r], IF held[r] = 0 THEN 0 ELSE held[r] - 1, r \in overdrawn)
  BY <1>3, <1>6, <1>7, CoversLeave
<1>9. RunCovered(r)'
  BY <1>1, <1>2, <1>6, <1>8 DEF RunCovered
<1> QED
  BY <1>1, <1>2, <1>4, <1>5, <1>9, CallAlone DEF r

-----------------------------------------------------------------------------
(* Steps that work on a directory or on what is moved                      *)

\* The directories and the work of one run change, and none of its units.
LEMMA RunAlone ==
  ASSUME QuarantineIInv, NEW c \in QCall, quarantining' \in [QCall -> CallRow], OthersStand(c),
         InFlight(c)' <=> InFlight(c), UNCHANGED <<quotaVars, restarts>>, misnamed' \in BOOLEAN,
         incomplete' \in [QRun -> Directory], complete' \in [QRun -> Directory],
         effects' \in [QRun -> SUBSET Effect], worktree' \in [QRun -> BOOLEAN],
         effects[QRunOf[c]] \subseteq effects'[QRunOf[c]],
         \A q \in QRun \ {QRunOf[c]} :
           /\ incomplete'[q] = incomplete[q] /\ complete'[q] = complete[q]
           /\ effects'[q] = effects[q] /\ worktree'[q] = worktree[q],
         RunSound(QRunOf[c])', CallSound(c)'
  PROVE  QuarantineIInv'
<1>1. QRunOf[c] \in QRun
  BY QCallAssumption
<1>2. QuarantineTypeOK
  BY DEF QuarantineIInv
<1>3. /\ held' = held /\ reserved' = reserved /\ covered' = covered /\ overdrawn' = overdrawn
      /\ restarts' = restarts
  BY DEF quotaVars
<1>4. QuarantineTypeOK'
  BY <1>2, <1>3 DEF QuarantineTypeOK, CallRow
<1>5. Elsewhere(QRunOf[c])
  BY <1>3 DEF Elsewhere
<1>6. UNCHANGED quotaVars
  OBVIOUS
<1>7. TotalStands' /\ RunCovered(QRunOf[c])'
  BY <1>6, UnitsKept
<1> DEFINE r == QRunOf[c]
<1>8. r \in QRun /\ effects[r] \subseteq effects'[r] /\ Elsewhere(r) /\ RunCovered(r)' /\ RunSound(r)'
  BY <1>1, <1>5, <1>7
<1> HIDE DEF r
<1> QED
  BY <1>4, <1>7, <1>8, QuarantineRow DEF r

LEMMA WorkKeeps ==
  ASSUME QuarantineIInv, NEW c \in QCall, Operate(c) \/ ForceRemoveWorktree(c)
  PROVE  QuarantineIInv'
<1> DEFINE r == QRunOf[c]
<1>0. /\ r \in QRun /\ QuarantineTypeOK /\ RunSound(r) /\ CallSound(c)
      /\ UNCHANGED <<directoryVars, quotaVars, restarts>>
  BY QCallAssumption DEF QuarantineIInv, Operate, ForceRemoveWorktree
<1> HIDE DEF r
<1>1. /\ incomplete' = incomplete /\ complete' = complete /\ misnamed' = misnamed
      /\ covered' = covered
  BY <1>0 DEF directoryVars, quotaVars
<1>2. /\ incomplete' \in [QRun -> Directory] /\ complete' \in [QRun -> Directory]
      /\ misnamed' \in BOOLEAN /\ effects \in [QRun -> SUBSET Effect]
      /\ worktree \in [QRun -> BOOLEAN] /\ effects[r] \in SUBSET Effect
  BY <1>0, <1>1 DEF QuarantineTypeOK
<1>3. RunIsSound(incomplete[r], complete[r], effects[r], worktree[r], covered[r])
  BY <1>0 DEF RunSound
<1>4. CASE Operate(c)
  <2> DEFINE k == quarantining[c].next
             done == effects[r]
             more == done \cup {EffectOf(k)}
  <2>1. /\ quarantining[c].at = "operate" /\ worktree' = worktree /\ QGoes(c, "open")
        /\ effects' = [effects EXCEPT ![r] = more]
    BY <1>4 DEF Operate, QAtStep, r
  <2>2. EffectOf(k) \in Effect
    BY DEF EffectOf, Effect
  <2>3. k \in {2, 3, 4} /\ Before(done, k - 1)
    BY <1>0, <2>1 DEF CallSound, CallIsSound, r
  <2>4. Before(more, k)
    BY <2>3 DEF Before, EffectOf
  <2>5. done \in SUBSET Effect /\ more \in SUBSET Effect /\ done \subseteq more
    BY <1>2, <2>2
  <2>6. "open" \in QAt
    BY DEF QAt
  <2>7. /\ quarantining' \in [QCall -> CallRow] /\ OthersStand(c)
        /\ quarantining'[c].at = "open" /\ quarantining'[c].next = k
    BY <1>0, <2>1, <2>6, CallGoes
  <2> HIDE DEF k, more
  <2>8. /\ effects' \in [QRun -> SUBSET Effect] /\ effects'[r] = more
        /\ \A q \in QRun \ {r} : effects'[q] = effects[q]
    BY <1>0, <1>2, <2>1, <2>5
  <2>9. CallSound(c)'
    BY <2>4, <2>7, <2>8 DEF CallSound, CallIsSound, r
  <2>10. RunIsSound(incomplete[r], complete[r], more, worktree[r], covered[r])
    <3>1. \A j : Before(done, j) => Before(more, j)
      BY <2>5 DEF Before
    <3>2. done = Effect => more = Effect
      BY <2>5
    <3> QED
      BY <1>3, <3>1, <3>2 DEF RunIsSound
  <2>11. RunSound(r)'
    BY <1>1, <2>1, <2>8, <2>10 DEF RunSound
  <2>12. InFlight(c)' <=> InFlight(c)
    BY <2>1, <2>7 DEF InFlight
  <2>13. effects[r] \subseteq effects'[r] /\ worktree' \in [QRun -> BOOLEAN]
    BY <1>2, <2>1, <2>5, <2>8
  <2> QED
    BY <1>0, <1>1, <1>2, <2>1, <2>7, <2>8, <2>9, <2>11, <2>12, <2>13, RunAlone DEF r
<1>5. CASE ForceRemoveWorktree(c)
  <2>1. /\ quarantining[c].at = "verify" /\ effects' = effects
        /\ \/ worktree' = [worktree EXCEPT ![r] = FALSE] /\ QGoes(c, "discard")
           \/ QReset(c) /\ worktree' = worktree
    BY <1>5 DEF ForceRemoveWorktree, QAtStep, r
  <2>2. effects[r] = Effect
    BY <1>0, <2>1 DEF CallSound, CallIsSound, r
  <2>3. "discard" \in QAt
    BY DEF QAt
  <2>4. /\ quarantining' \in [QCall -> CallRow] /\ OthersStand(c)
        /\ quarantining'[c].at \in {"discard", "idle"}
    BY <1>0, <2>1, <2>3, CallGoes, CallResets
  <2>5. /\ worktree' \in [QRun -> BOOLEAN] /\ effects' \in [QRun -> SUBSET Effect]
        /\ \A q \in QRun \ {r} : worktree'[q] = worktree[q]
    BY <1>0, <1>2, <2>1
  <2>6. CallSound(c)'
    BY <2>1, <2>2, <2>4 DEF CallSound, CallIsSound, r
  <2>7. RunSound(r)'
    BY <1>1, <1>3, <2>1, <2>2 DEF RunSound, RunIsSound
  <2>8. InFlight(c)' <=> InFlight(c)
    BY <2>1, <2>4 DEF InFlight
  <2> QED
    BY <1>0, <1>1, <1>2, <2>1, <2>4, <2>5, <2>6, <2>7, <2>8, RunAlone DEF r
<1> QED
  BY <1>4, <1>5

\* One of the run's directories becomes below or above.
LEMMA RowsMove ==
  ASSUME QuarantineIInv, NEW c \in QCall, NEW r \in QRun, r = QRunOf[c],
         quarantining' \in [QCall -> CallRow], OthersStand(c),
         NEW below \in Directory, NEW above \in Directory,
         incomplete' = [incomplete EXCEPT ![r] = below],
         complete' = [complete EXCEPT ![r] = above],
         InFlight(c)' <=> InFlight(c), UNCHANGED <<workVars, quotaVars, restarts>>,
         misnamed' \in BOOLEAN, CallSound(c)',
         Before(effects[r], below.phase), Before(effects[r], above.phase),
         complete[r].there => above.there
  PROVE  QuarantineIInv'
<1>1. /\ effects' = effects /\ worktree' = worktree /\ covered' = covered
  BY DEF workVars, quotaVars
<1>2. /\ incomplete \in [QRun -> Directory] /\ complete \in [QRun -> Directory]
      /\ effects \in [QRun -> SUBSET Effect] /\ worktree \in [QRun -> BOOLEAN]
  BY DEF QuarantineIInv, QuarantineTypeOK
<1>3. /\ incomplete' \in [QRun -> Directory] /\ complete' \in [QRun -> Directory]
      /\ incomplete'[r] = below /\ complete'[r] = above
      /\ \A q \in QRun \ {r} : incomplete'[q] = incomplete[q] /\ complete'[q] = complete[q]
  BY <1>2
<1>4. RunIsSound(incomplete[r], complete[r], effects[r], worktree[r], covered[r])
  BY DEF QuarantineIInv, RunSound
<1>5. RunIsSound(below, above, effects[r], worktree[r], covered[r])
  BY <1>4 DEF RunIsSound
<1>6. RunSound(r)'
  BY <1>1, <1>3, <1>5 DEF RunSound
<1>7. UNCHANGED <<quotaVars, restarts>>
  OBVIOUS
<1>8. /\ effects' \in [QRun -> SUBSET Effect] /\ worktree' \in [QRun -> BOOLEAN]
      /\ effects[r] \subseteq effects'[r]
      /\ \A q \in QRun \ {r} : effects'[q] = effects[q] /\ worktree'[q] = worktree[q]
  BY <1>1, <1>2
<1> QED
  BY <1>3, <1>6, <1>7, <1>8, RunAlone

LEMMA PlacesKeep ==
  ASSUME QuarantineIInv, NEW c \in QCall,
         MakeIncomplete(c) \/ TruncateManifest(c) \/ WriteCompletion(c)
  PROVE  QuarantineIInv'
<1> DEFINE r == QRunOf[c]
           below == incomplete'[r]
           above == complete[r]
<1>0. /\ r \in QRun /\ QuarantineTypeOK /\ RunSound(r) /\ CallSound(c)
      /\ incomplete \in [QRun -> Directory] /\ complete \in [QRun -> Directory]
      /\ incomplete[r] \in Directory /\ complete[r] \in Directory
  BY QCallAssumption DEF QuarantineIInv, QuarantineTypeOK
<1> HIDE DEF r
<1>1. /\ UNCHANGED <<workVars, quotaVars, restarts>>
      /\ complete' = complete /\ misnamed' = misnamed
  BY DEF MakeIncomplete, TruncateManifest, WriteCompletion
<1>2. effects' = effects
  BY <1>1 DEF workVars
<1>3. Before(effects[r], incomplete[r].phase) /\ Before(effects[r], complete[r].phase)
  BY <1>0 DEF RunSound, RunIsSound
<1>4. /\ incomplete' = [incomplete EXCEPT ![r] = below]
      /\ below \in Directory /\ Before(effects[r], below.phase)
  <2>1. CASE MakeIncomplete(c)
    <3>1. incomplete' = [incomplete EXCEPT ![r] = IF @.there THEN @ ELSE NoManifest(TRUE)]
      BY <2>1 DEF MakeIncomplete, r
    <3>2. below \in {incomplete[r], NoManifest(TRUE)}
      BY <1>0, <3>1
    <3>3. incomplete' = [incomplete EXCEPT ![r] = below]
      BY <1>0, <3>1
    <3> QED
      BY <1>0, <1>3, <3>2, <3>3, DirectoryRows, BeforeFacts
  <2>2. CASE TruncateManifest(c)
    <3>1. incomplete' = [incomplete EXCEPT ![r] = NoManifest(TRUE)]
      BY <2>2 DEF TruncateManifest, r
    <3>2. below = NoManifest(TRUE)
      BY <1>0, <3>1
    <3> QED
      BY <3>1, <3>2, DirectoryRows, BeforeFacts
  <2>3. CASE WriteCompletion(c)
    <3> DEFINE b == incomplete[r].phase = 5 /\ incomplete[r].by = {c}
    <3>1. incomplete' = [incomplete EXCEPT ![r].marker = b]
      BY <2>3 DEF WriteCompletion, r
    <3>2. b \in BOOLEAN
      OBVIOUS
    <3> HIDE DEF b
    <3>3. below = [incomplete[r] EXCEPT !.marker = b]
      BY <1>0, <3>1
    <3>4. below \in Directory /\ below.phase = incomplete[r].phase
      BY <1>0, <3>2, <3>3 DEF Directory
    <3>5. incomplete' = [incomplete EXCEPT ![r] = below]
      BY <1>0, <3>1
    <3> QED
      BY <1>3, <3>4, <3>5
  <2> QED
    BY <2>1, <2>2, <2>3
<1>5. /\ quarantining' \in [QCall -> CallRow] /\ OthersStand(c)
      /\ InFlight(c)' <=> InFlight(c)
      /\ CallSound(c)'
  <2>1. CASE MakeIncomplete(c)
    <3>1. quarantining[c].at = "mkdir" /\ QStep(c, "open", 1) /\ "open" \in QAt /\ 1 \in QPhase
      BY <2>1 DEF MakeIncomplete, QAtStep, QAt, QPhase
    <3>2. /\ quarantining' \in [QCall -> CallRow] /\ OthersStand(c)
          /\ quarantining'[c].at = "open" /\ quarantining'[c].next = 1
      BY <1>0, <3>1, CallSteps
    <3>3. InFlight(c)' /\ InFlight(c)
      BY <3>1, <3>2 DEF InFlight
    <3>4. CallSound(c)'
      BY <3>2, BeforeFacts DEF CallSound, CallIsSound
    <3> QED
      BY <3>2, <3>3, <3>4
  <2>2. CASE TruncateManifest(c)
    <3>1. /\ quarantining[c].at = "open"
          /\ quarantining' = [quarantining EXCEPT ![c].at = "write", ![c].file = "incomplete"]
      BY <2>2 DEF TruncateManifest, QAtStep
    <3>2. /\ quarantining' \in [QCall -> CallRow] /\ OthersStand(c)
          /\ quarantining'[c].at = "write" /\ quarantining'[c].next = quarantining[c].next
      BY <1>0, <3>1, CallOpens
    <3>3. InFlight(c)' /\ InFlight(c)
      BY <3>1, <3>2 DEF InFlight
    <3>4. CallSound(c)'
      BY <1>0, <1>2, <3>1, <3>2 DEF CallSound, CallIsSound
    <3> QED
      BY <3>2, <3>3, <3>4
  <2>3. CASE WriteCompletion(c)
    <3>1. quarantining[c].at = "marker" /\ QGoes(c, "rename") /\ "rename" \in QAt
      BY <2>3 DEF WriteCompletion, QAtStep, QAt
    <3>2. /\ quarantining' \in [QCall -> CallRow] /\ OthersStand(c)
          /\ quarantining'[c].at = "rename"
      BY <1>0, <3>1, CallGoes
    <3>3. InFlight(c)' /\ InFlight(c)
      BY <3>1, <3>2 DEF InFlight
    <3>4. CallSound(c)'
      BY <3>2 DEF CallSound, CallIsSound
    <3> QED
      BY <3>2, <3>3, <3>4
  <2> QED
    BY <2>1, <2>2, <2>3
<1>6. /\ complete' = [complete EXCEPT ![r] = above] /\ above \in Directory
      /\ Before(effects[r], above.phase) /\ (complete[r].there => above.there)
      /\ misnamed' \in BOOLEAN /\ r = QRunOf[c]
  BY <1>0, <1>1, <1>3 DEF QuarantineTypeOK, r
<1> HIDE DEF below, above
<1> QED
  BY <1>0, <1>1, <1>4, <1>5, <1>6, RowsMove

LEMMA WriteKeeps ==
  ASSUME QuarantineIInv, NEW c \in QCall, WriteManifest(c)
  PROVE  QuarantineIInv'
<1> DEFINE r == QRunOf[c]
           k == quarantining[c].next
           f == quarantining[c].file
           below == IF f = "incomplete" THEN Written(incomplete[r], c, k) ELSE incomplete[r]
           above == IF f = "complete" THEN Written(complete[r], c, k) ELSE complete[r]
           s == CASE k < 4 -> "operate" [] k = 4 -> "open" [] OTHER -> "marker"
           j == IF k < 5 THEN k + 1 ELSE k
<1>1. /\ r \in QRun /\ QuarantineTypeOK /\ RunSound(r) /\ CallSound(c)
      /\ incomplete \in [QRun -> Directory] /\ complete \in [QRun -> Directory]
      /\ incomplete[r] \in Directory /\ complete[r] \in Directory /\ k \in QPhase
  BY QCallAssumption DEF QuarantineIInv, QuarantineTypeOK
<1>2. /\ quarantining[c].at = "write" /\ QStep(c, s, j)
      /\ incomplete' = IF f = "incomplete" THEN [incomplete EXCEPT ![r] = Written(@, c, k)] ELSE incomplete
      /\ complete' = IF f = "complete" THEN [complete EXCEPT ![r] = Written(@, c, k)] ELSE complete
      /\ misnamed' = misnamed /\ UNCHANGED <<workVars, quotaVars, restarts>>
  BY DEF WriteManifest, QAtStep
<1>3. /\ Before(effects[r], incomplete[r].phase) /\ Before(effects[r], complete[r].phase)
      /\ Before(effects[r], k) /\ Before(effects[r], 0)
  BY <1>1, <1>2, BeforeFacts DEF RunSound, RunIsSound, CallSound, CallIsSound
<1>4. /\ Written(incomplete[r], c, k) \in Directory /\ Written(incomplete[r], c, k).phase \in {0, k}
      /\ Written(complete[r], c, k) \in Directory /\ Written(complete[r], c, k).phase \in {0, k}
      /\ Written(complete[r], c, k).there
  BY <1>1, WrittenRow
<1>5. /\ s \in QAt /\ j \in QPhase
      /\ \/ s = "operate" /\ j \in {2, 3, 4} /\ j - 1 = k
         \/ s = "open" /\ k = 4 /\ j = 5
         \/ s = "marker"
  BY <1>1 DEF QAt, QPhase
<1> HIDE DEF r, k, f, s, j
<1>6. /\ quarantining' \in [QCall -> CallRow] /\ OthersStand(c)
      /\ quarantining'[c].at = s /\ quarantining'[c].next = j
  BY <1>1, <1>2, <1>5, CallSteps
<1>7. effects' = effects
  BY <1>2 DEF workVars
<1>8. CallSound(c)'
  <2>1. CallIsSound(quarantining'[c], effects[r])
    BY <1>3, <1>5, <1>6, BeforeFacts DEF CallIsSound
  <2> QED
    BY <1>7, <2>1 DEF CallSound, r
<1>9. InFlight(c)' <=> InFlight(c)
  BY <1>2, <1>5, <1>6 DEF InFlight
<1>10. /\ below \in Directory /\ above \in Directory
       /\ Before(effects[r], below.phase) /\ Before(effects[r], above.phase)
       /\ complete[r].there => above.there
  BY <1>1, <1>3, <1>4
<1>11. incomplete' = [incomplete EXCEPT ![r] = below] /\ complete' = [complete EXCEPT ![r] = above]
  BY <1>1, <1>2
<1>12. misnamed' \in BOOLEAN /\ r = QRunOf[c]
  BY <1>1, <1>2 DEF QuarantineTypeOK, r
<1> HIDE DEF below, above
<1> QED
  BY <1>1, <1>2, <1>6, <1>8, <1>9, <1>10, <1>11, <1>12, RowsMove

LEMMA RemovalFailureKeeps ==
  ASSUME QuarantineIInv, NEW c \in QCall, RemoveFails(c)
  PROVE  QuarantineIInv'
<1> DEFINE r == QRunOf[c]
           below == incomplete[r]
           above == complete'[r]
<1>1. /\ r \in QRun /\ QuarantineTypeOK /\ RunSound(r)
      /\ incomplete \in [QRun -> Directory] /\ complete \in [QRun -> Directory]
      /\ incomplete[r] \in Directory /\ complete[r] \in Directory
  BY QCallAssumption DEF QuarantineIInv, QuarantineTypeOK
<1>2. /\ quarantining[c].at = "discard" /\ incomplete' = incomplete /\ misnamed' = misnamed
      /\ UNCHANGED <<workVars, quotaVars, restarts>>
      /\ \/ QReset(c) /\ complete' = complete
         \/ FilesFollow(c, "complete", "none") /\ complete' = [complete EXCEPT ![r] = NoManifest(TRUE)]
  BY DEF RemoveFails, QAtStep
<1> HIDE DEF r
<1>3. Before(effects[r], incomplete[r].phase) /\ Before(effects[r], complete[r].phase)
  BY <1>1 DEF RunSound, RunIsSound
<1>4. /\ quarantining' \in [QCall -> CallRow] /\ OthersStand(c) /\ quarantining'[c].at = "idle"
  BY <1>1, <1>2, CallResets, FilesMove
<1>5. CallSound(c)' /\ (InFlight(c)' <=> InFlight(c))
  BY <1>2, <1>4 DEF CallSound, CallIsSound, InFlight
<1>6. above \in {complete[r], NoManifest(TRUE)} /\ complete' = [complete EXCEPT ![r] = above]
  BY <1>1, <1>2
<1>7. above \in Directory /\ Before(effects[r], above.phase) /\ (complete[r].there => above.there)
  BY <1>1, <1>3, <1>6, DirectoryRows, BeforeFacts
<1>8. /\ incomplete' = [incomplete EXCEPT ![r] = below] /\ misnamed' \in BOOLEAN /\ r = QRunOf[c]
  BY <1>1, <1>2 DEF QuarantineTypeOK, r
<1> HIDE DEF above
<1> QED
  BY <1>1, <1>2, <1>3, <1>4, <1>5, <1>6, <1>7, <1>8, RowsMove

LEMMA ResumptionKeeps ==
  ASSUME QuarantineIInv, NEW c \in QCall, ResumeRename(c)
  PROVE  QuarantineIInv'
<1> DEFINE r == QRunOf[c]
           below == NoDirectory
           above == complete[r]
<1>1. /\ r \in QRun /\ QuarantineTypeOK /\ RunSound(r)
      /\ incomplete \in [QRun -> Directory] /\ complete \in [QRun -> Directory]
      /\ complete[r] \in Directory
  BY QCallAssumption DEF QuarantineIInv, QuarantineTypeOK
<1>2. /\ quarantining[c].at = "resume" /\ complete' = complete /\ misnamed' = TRUE
      /\ UNCHANGED <<workVars, quotaVars, restarts>>
      /\ FilesFollow(c, "incomplete", "none") /\ incomplete' = [incomplete EXCEPT ![r] = NoDirectory]
  BY DEF ResumeRename, QAtStep
<1> HIDE DEF r
<1>3. Before(effects[r], below.phase) /\ Before(effects[r], above.phase) /\ below \in Directory
  BY <1>1, DirectoryRows, BeforeFacts DEF RunSound, RunIsSound
<1>4. /\ quarantining' \in [QCall -> CallRow] /\ OthersStand(c) /\ quarantining'[c].at = "idle"
  BY <1>1, <1>2, FilesMove
<1>5. CallSound(c)' /\ (InFlight(c)' <=> InFlight(c))
  BY <1>2, <1>4 DEF CallSound, CallIsSound, InFlight
<1>6. /\ complete' = [complete EXCEPT ![r] = above] /\ misnamed' \in BOOLEAN /\ r = QRunOf[c]
      /\ complete[r].there => above.there
  BY <1>1, <1>2 DEF r
<1> HIDE DEF below
<1> QED
  BY <1>1, <1>2, <1>3, <1>4, <1>5, <1>6, RowsMove DEF below

LEMMA RenameKeeps ==
  ASSUME QuarantineIInv, NEW c \in QCall, RenameComplete(c)
  PROVE  QuarantineIInv'
<1> DEFINE r == QRunOf[c]
<1>1. /\ r \in QRun /\ QuarantineTypeOK /\ RunSound(r) /\ RunCovered(r) /\ TotalStands
      /\ incomplete \in [QRun -> Directory] /\ complete \in [QRun -> Directory]
      /\ incomplete[r] \in Directory /\ covered \in [QRun -> BOOLEAN] /\ held[r] \in Nat
  BY QCallAssumption DEF QuarantineIInv, QuarantineTypeOK
<1>2. /\ quarantining[c].at = "rename" /\ incomplete[r].there /\ ~complete[r].there
      /\ complete' = [complete EXCEPT ![r] = incomplete[r]]
      /\ incomplete' = [incomplete EXCEPT ![r] = NoDirectory]
      /\ covered' = [covered EXCEPT ![r] = TRUE]
      /\ FilesFollow(c, "incomplete", "complete")
      /\ misnamed' = misnamed /\ effects' = effects /\ worktree' = worktree
      /\ held' = held /\ reserved' = reserved /\ overdrawn' = overdrawn /\ restarts' = restarts
  BY DEF RenameComplete, QAtStep, workVars
<1>3. r = QRunOf[c]
  OBVIOUS
<1> HIDE DEF r
<1>4. /\ quarantining' \in [QCall -> CallRow] /\ OthersStand(c) /\ quarantining'[c].at = "idle"
  BY <1>1, <1>2, FilesMove
<1>5. CallSound(c)'
  BY <1>4 DEF CallSound, CallIsSound
<1>6. RunIsSound(incomplete[r], complete[r], effects[r], worktree[r], covered[r])
  BY <1>1 DEF RunSound
<1>7. /\ incomplete'[r] = NoDirectory /\ complete'[r] = incomplete[r] /\ covered'[r] = TRUE
      /\ incomplete' \in [QRun -> Directory] /\ complete' \in [QRun -> Directory]
      /\ covered' \in [QRun -> BOOLEAN]
      /\ \A q \in QRun \ {r} :
           incomplete'[q] = incomplete[q] /\ complete'[q] = complete[q] /\ covered'[q] = covered[q]
  BY <1>1, <1>2, DirectoryRows
<1>8. RunIsSound(NoDirectory, incomplete[r], effects[r], worktree[r], TRUE)
  BY <1>2, <1>6, DirectoryRows, BeforeFacts DEF RunIsSound
<1>9. RunSound(r)'
  BY <1>2, <1>7, <1>8 DEF RunSound
<1>10. covered[r] = FALSE
  BY <1>1, <1>2, <1>6 DEF RunIsSound
<1>11. c \in Reserving(r) /\ Reserving(r)' = Reserving(r) \ {c}
  BY <1>2, <1>3, <1>4, ReservingMoves DEF InFlight
<1>12. Covers(Reserving(r), FALSE, held[r], r \in overdrawn)
  BY <1>1, <1>10 DEF RunCovered
<1>13. Covers(Reserving(r) \ {c}, TRUE, held[r], r \in overdrawn)
  BY <1>1, <1>11, <1>12, CoversLeave
<1>14. RunCovered(r)'
  BY <1>2, <1>7, <1>11, <1>13 DEF RunCovered
<1>15. TotalStands'
  <2>1. Units' = Units
    BY <1>2 DEF Units
  <2> QED
    BY <1>1, <1>2, <2>1 DEF TotalStands
<1>16. QuarantineTypeOK'
  BY <1>1, <1>2, <1>4, <1>7 DEF QuarantineTypeOK, CallRow
<1>17. Elsewhere(r)
  BY <1>2, <1>7 DEF Elsewhere
<1>18. effects[r] \subseteq effects'[r]
  BY <1>2
<1> QED
  BY <1>1, <1>3, <1>4, <1>5, <1>9, <1>14, <1>15, <1>16, <1>17, <1>18, QuarantineRow

LEMMA RemovalKeeps ==
  ASSUME QuarantineIInv, NEW c \in QCall, RemoveQuarantine(c)
  PROVE  QuarantineIInv'
<1> DEFINE r == QRunOf[c]
           over == r \in overdrawn \/ (~covered[r] /\ held[r] > 0)
<1>1. /\ r \in QRun /\ QuarantineTypeOK /\ RunSound(r) /\ RunCovered(r)
      /\ complete \in [QRun -> Directory] /\ covered \in [QRun -> BOOLEAN] /\ held[r] \in Nat
      /\ overdrawn \subseteq QRun
  BY QCallAssumption DEF QuarantineIInv, QuarantineTypeOK
<1>2. /\ quarantining[c].at = "discard"
      /\ complete' = [complete EXCEPT ![r] = NoDirectory]
      /\ FilesFollow(c, "complete", "none") /\ ReleaseUnit(r)
      /\ covered' = [covered EXCEPT ![r] = FALSE]
      /\ overdrawn' = IF ~covered[r] /\ held[r] > 0 THEN overdrawn \cup {r} ELSE overdrawn
      /\ incomplete' = incomplete /\ misnamed' = misnamed
      /\ effects' = effects /\ worktree' = worktree /\ restarts' = restarts
  BY DEF RemoveQuarantine, QAtStep, workVars
<1>3. r = QRunOf[c]
  OBVIOUS
<1> HIDE DEF r
<1>4. /\ quarantining' \in [QCall -> CallRow] /\ OthersStand(c) /\ quarantining'[c].at = "idle"
  BY <1>1, <1>2, FilesMove
<1>5. CallSound(c)'
  BY <1>4 DEF CallSound, CallIsSound
<1>6. /\ TotalStands' /\ held' \in [QRun -> Nat] /\ reserved' \in Nat
      /\ \A q \in QRun \ {r} : held'[q] = held[q]
      /\ held'[r] = IF held[r] = 0 THEN 0 ELSE held[r] - 1
  BY <1>1, <1>2, UnitReturned
<1>7. /\ complete'[r] = NoDirectory /\ covered'[r] = FALSE
      /\ complete' \in [QRun -> Directory] /\ covered' \in [QRun -> BOOLEAN]
      /\ \A q \in QRun \ {r} : complete'[q] = complete[q] /\ covered'[q] = covered[q]
  BY <1>1, <1>2, DirectoryRows
<1>8. /\ overdrawn' \subseteq QRun /\ (r \in overdrawn') = over
      /\ \A q \in QRun \ {r} : q \in overdrawn' <=> q \in overdrawn
  BY <1>1, <1>2
<1>9. RunIsSound(incomplete[r], complete[r], effects[r], worktree[r], covered[r])
  BY <1>1 DEF RunSound
<1>10. RunIsSound(incomplete[r], NoDirectory, effects[r], worktree[r], FALSE)
  BY <1>9, DirectoryRows, BeforeFacts DEF RunIsSound
<1>11. RunSound(r)'
  BY <1>2, <1>7, <1>10 DEF RunSound
<1>12. Reserving(r)' = Reserving(r)
  <2>1. ~InFlight(c) /\ ~InFlight(c)'
    BY <1>2, <1>4 DEF InFlight
  <2>2. /\ Reserving(r)' = Reserving(r) \ {c} /\ c \notin Reserving(r)
    BY <1>3, <1>4, <2>1, ReservingMoves
  <2> QED
    BY <2>2
<1>13. Covers(Reserving(r), covered[r], held[r], r \in overdrawn)
  BY <1>1 DEF RunCovered
<1>14. Covers(Reserving(r), FALSE, IF held[r] = 0 THEN 0 ELSE held[r] - 1, over)
  <2> DEFINE S == Reserving(r)
             unit == covered[r]
             h == held[r]
             old == r \in overdrawn
  <2>1. /\ h \in Nat /\ IsFiniteSet(S) /\ Cardinality(S) \in Nat
        /\ ~old => h = Cardinality(S) + (IF unit THEN 1 ELSE 0)
        /\ ~over => ~old /\ (unit \/ h = 0)
    BY <1>1, <1>13, FS_CardinalityType DEF Covers
  <2> HIDE DEF S, unit, h, old, over
  <2>2. ~over => (IF h = 0 THEN 0 ELSE h - 1) = Cardinality(S)
    BY <2>1
  <2> QED
    BY <2>1, <2>2 DEF Covers, S, h
<1> HIDE DEF over
<1>15. RunCovered(r)'
  BY <1>6, <1>7, <1>8, <1>12, <1>14 DEF RunCovered
<1>16. QuarantineTypeOK'
  BY <1>1, <1>2, <1>4, <1>6, <1>7, <1>8 DEF QuarantineTypeOK, CallRow
<1>17. Elsewhere(r)
  BY <1>2, <1>6, <1>7, <1>8 DEF Elsewhere
<1>18. effects[r] \subseteq effects'[r]
  BY <1>2
<1> QED
  BY <1>1, <1>3, <1>4, <1>5, <1>6, <1>11, <1>15, <1>16, <1>17, <1>18, QuarantineRow

LEMMA RestartKeeps == QuarantineIInv /\ QuarantineRestart => QuarantineIInv'
<1> SUFFICES ASSUME QuarantineIInv, QuarantineRestart PROVE QuarantineIInv'
  OBVIOUS
<1>1. /\ QuarantineTypeOK /\ incomplete' = incomplete /\ complete' = complete
      /\ misnamed' = misnamed /\ effects' = effects /\ worktree' = worktree
      /\ quarantining' = [c \in QCall |-> QIdle]
      /\ held' = [r \in QRun |-> 0] /\ reserved' = 0
      /\ covered' = [r \in QRun |-> FALSE] /\ overdrawn' = {}
      /\ restarts < MaxRestarts /\ restarts' = restarts + 1
  BY DEF QuarantineIInv, QuarantineRestart, directoryVars, workVars
<1>2. quarantining' \in [QCall -> CallRow]
  BY <1>1, CallRows
<1>3. restarts' \in 0..MaxRestarts
  BY <1>1, QuotaAssumption DEF QuarantineTypeOK
<1>4. QuarantineTypeOK'
  BY <1>1, <1>2, <1>3 DEF QuarantineTypeOK, CallRow
<1>5. Units' = {}
  <2>1. ASSUME NEW u \in Units' PROVE FALSE
    <3>1. PICK r \in QRun : u \in {r} \X (1..held'[r])
      BY DEF Units
    <3>2. held'[r] = 0 /\ 1..0 = {}
      BY <1>1
    <3> QED
      BY <3>1, <3>2
  <2> QED
    BY <2>1
<1>6. TotalStands'
  BY <1>1, <1>5, FS_EmptySet, QuotaAssumption DEF TotalStands
<1>7. ASSUME NEW r \in QRun PROVE RunCovered(r)' /\ RunSound(r)'
  <2>1. Reserving(r)' = {}
    BY <1>1 DEF Reserving, InFlight, QIdle
  <2>2. RunCovered(r)'
    BY <1>1, <2>1, FS_EmptySet DEF RunCovered, Covers
  <2>3. RunSound(r)
    BY DEF QuarantineIInv
  <2>4. RunSound(r)'
    BY <1>1, <2>3 DEF RunSound, RunIsSound
  <2> QED
    BY <2>2, <2>4
<1>8. ASSUME NEW c \in QCall PROVE CallSound(c)'
  BY <1>1 DEF CallSound, CallIsSound, QIdle
<1> QED
  BY <1>4, <1>6, <1>7, <1>8 DEF QuarantineIInv

LEMMA QuarantineIInvNext == QuarantineIInv /\ [QuarantineNext]_quarantineVars => QuarantineIInv'
<1> SUFFICES ASSUME QuarantineIInv, [QuarantineNext]_quarantineVars PROVE QuarantineIInv'
  OBVIOUS
<1>1. ASSUME NEW c \in QCall,
             \/ QuarantineBegin(c) \/ CountIncomplete(c) \/ VerifyComplete(c)
             \/ FindComplete(c) \/ ResumeFails(c)
      PROVE  QuarantineIInv'
  BY <1>1, LooksKeep
<1>2. ASSUME NEW c \in QCall, ReserveQuarantine(c) \/ QuarantineFails(c) PROVE QuarantineIInv'
  BY <1>2, ReserveKeeps, FailureKeeps
<1>3. ASSUME NEW c \in QCall,
             \/ MakeIncomplete(c) \/ TruncateManifest(c) \/ WriteCompletion(c)
             \/ WriteManifest(c) \/ Operate(c) \/ ForceRemoveWorktree(c)
      PROVE  QuarantineIInv'
  BY <1>3, PlacesKeep, WriteKeeps, WorkKeeps
<1>4. ASSUME NEW c \in QCall,
             \/ RenameComplete(c) \/ RemoveQuarantine(c) \/ RemoveFails(c) \/ ResumeRename(c)
      PROVE  QuarantineIInv'
  BY <1>4, RenameKeeps, RemovalKeeps, RemovalFailureKeeps, ResumptionKeeps
<1>5. CASE QuarantineRestart
  BY <1>5, RestartKeeps
<1>6. CASE UNCHANGED quarantineVars
  <2>1. /\ incomplete' = incomplete /\ complete' = complete /\ misnamed' = misnamed
        /\ effects' = effects /\ worktree' = worktree /\ quarantining' = quarantining
        /\ held' = held /\ reserved' = reserved /\ covered' = covered
        /\ overdrawn' = overdrawn /\ restarts' = restarts
    BY <1>6 DEF quarantineVars, directoryVars, workVars, quotaVars
  <2>2. QuarantineTypeOK' /\ Units' = Units
    BY <2>1 DEF QuarantineIInv, QuarantineTypeOK, Units
  <2>3. TotalStands'
    BY <2>1, <2>2 DEF QuarantineIInv, TotalStands
  <2>4. ASSUME NEW r \in QRun PROVE RunCovered(r)' /\ RunSound(r)'
    <3>1. Reserving(r)' = Reserving(r)
      BY <2>1 DEF Reserving, InFlight
    <3> QED
      BY <2>1, <3>1 DEF QuarantineIInv, RunCovered, RunSound
  <2>5. ASSUME NEW c \in QCall PROVE CallSound(c)'
    BY <2>1 DEF QuarantineIInv, CallSound
  <2> QED
    BY <2>2, <2>3, <2>4, <2>5 DEF QuarantineIInv
<1> QED
  BY <1>1, <1>2, <1>3, <1>4, <1>5, <1>6 DEF QuarantineNext

(* For any calls on any runs, any limits and any number of restarts: the   *)
(* quota's total is what the runs hold and fits the budget; a run holds a  *)
(* unit for each of its calls in flight and for its complete directory,    *)
(* unless a clean has released one that its directory did not hold; a      *)
(* manifest never runs ahead of what was done; and a worktree that was     *)
(* removed had been quarantined whole (coder-result-quarantine.js).        *)
THEOREM QuarantineIsSafe == QuarantineSpec => []QuarantineInv
<1>1. QuarantineIInv /\ [QuarantineNext]_quarantineVars => QuarantineIInv'
  BY QuarantineIInvNext
<1> QED
  BY <1>1, QuarantineIInvInit, QuarantineIInvImplies, PTL DEF QuarantineSpec

-----------------------------------------------------------------------------
(* The journal of owned process sets.  JournalInv is not inductive: a      *)
(* writing replaces the whole file by what was read before, so every       *)
(* reading under way must itself be backed by what has happened, and that  *)
(* a process releases once rests on the turns of its calls and on the      *)
(* states an entry never returns to unless it is overwritten itself.       *)

USE SandboxAssumption, CallAssumption

Reading(c) == call[c].at \in {"read", "write"}

Typed ==
  /\ journal \in Journals
  /\ recorded \subseteq allocated /\ allocated \subseteq Sandbox /\ cancelled \subseteq Sandbox /\ emptied \subseteq Sandbox
  /\ everReleased \subseteq Sandbox
  /\ released \in [Host -> [Sandbox -> 0..Many]]
  /\ unacknowledged \subseteq Host \X Sandbox /\ lost \subseteq Sandbox

CallState == [at : {"idle", "read", "write", "look", "release"},
              op : Operation, sandbox : Sandbox, snap : Journals, whole : BOOLEAN]
CallsTyped == call \in [Call -> CallState]

\* Every entry of a journal has behind it what its state says.
BackedBy(j, written, empty, free) ==
  \A s \in Sandbox :
    /\ j[s] # "absent" => s \in written
    /\ j[s] \in {"verified_empty", "release_pending", "acknowledged"} => s \in empty
    /\ j[s] = "acknowledged" => s \in free
Backed(j) == BackedBy(j, recorded, emptied, everReleased)

SnapsBacked ==
  \A c \in Call : call[c].at = "write" =>
    Backed(call[c].snap) /\ call[c].snap[call[c].sandbox] \in Accepts[call[c].op]

\* Which operation a call can be at.
Stages ==
  \A c \in Call :
    /\ Reading(c) /\ call[c].op = "acknowledge" => call[c].sandbox \in everReleased
    /\ call[c].at = "release" => call[c].op = "acknowledge" /\ call[c].sandbox \in emptied
    /\ Reading(c) => (call[c].whole <=> call[c].op \notin OwnCalls)
    /\ call[c].at \in {"look", "release"} => call[c].whole

\* An identity is allocated by one call, and is not recorded before.
AllocatesOnce ==
  \A c \in Call : Reading(c) /\ call[c].op = "allocate" =>
    /\ call[c].sandbox \in allocated \ recorded
    /\ \A d \in Call : Reading(d) /\ call[d].op = "allocate" /\ call[d].sandbox = call[c].sandbox => d = c

\* The calls of a process take turns on a sandbox.
Serialized ==
  \A c, d \in Call :
    (/\ call[c].whole /\ call[c].at # "idle" /\ call[d].whole /\ call[d].at # "idle"
     /\ HostOf[c] = HostOf[d] /\ call[c].sandbox = call[d].sandbox) => c = d

\* An entry that was pending is pending, acknowledged or gone for good.
Gone(s) == journal[s] = "absent" /\ s \in recorded
Beyond(s) == journal[s] = "acknowledged" \/ Gone(s)

Acknowledging(h, s) ==
  \E c \in Call : /\ Reading(c) /\ call[c].op = "acknowledge"
                  /\ HostOf[c] = h /\ call[c].sandbox = s

Owing(c) == call[c].at = "release" \/ (Reading(c) /\ call[c].op = "acknowledge")
Known(h, s) == <<h, s>> \notin unacknowledged
ReleasesOf(s) ==
  /\ \A c \in Call : Owing(c) /\ call[c].sandbox = s => journal[s] = "release_pending" \/ Beyond(s)
  /\ \A c \in Call :
       call[c].at = "release" /\ call[c].sandbox = s /\ Known(HostOf[c], s) => released[HostOf[c]][s] = 0
  /\ \A h \in Host : Known(h, s) =>
       /\ released[h][s] \in {0, 1}
       /\ released[h][s] = 1 => Beyond(s) \/ (journal[s] = "release_pending" /\ Acknowledging(h, s))
ReleasesOnce == \A s \in Sandbox \ lost : ReleasesOf(s)

JournalIInv ==
  /\ Typed /\ CallsTyped
  /\ Backed(journal) /\ SnapsBacked /\ ReleasedOnlyEmpty
  /\ Stages /\ AllocatesOnce /\ Serialized
  /\ ReleasesOnce /\ NoneForgotten

-----------------------------------------------------------------------------

LEMMA OperationFacts ==
  /\ EntryState = {"absent", "reserving", "live", "verified_empty", "release_pending", "acknowledged"}
  /\ OwnCalls = {"allocate", "cancel", "live", "empty"}
  /\ Operation = {"allocate", "cancel", "live", "empty", "begin", "acknowledge", "prune"}
  /\ Accepts["allocate"] = {"absent"} /\ Leaves["allocate"] = "reserving"
  /\ Accepts["cancel"] = {"absent", "reserving"} /\ Leaves["cancel"] = "absent"
  /\ Accepts["live"] = {"reserving", "live"} /\ Leaves["live"] = "live"
  /\ Accepts["empty"] = {"live"} /\ Leaves["empty"] = "verified_empty"
  /\ Accepts["begin"] = {"verified_empty"} /\ Leaves["begin"] = "release_pending"
  /\ Accepts["acknowledge"] = {"release_pending"} /\ Leaves["acknowledge"] = "acknowledged"
  /\ Accepts["prune"] = {"absent", "acknowledged"} /\ Leaves["prune"] = "absent"
  BY DEF EntryState, StateOrder, OwnCalls, Operation, Accepts, Leaves

LEMMA NoCallTyped == NoCall \in CallState /\ NoCall.at = "idle"
<1>1. (CHOOSE s \in Sandbox : TRUE) \in Sandbox
  OBVIOUS
<1>2. [s \in Sandbox |-> "absent"] \in Journals
  BY OperationFacts DEF Journals
<1> QED
  BY <1>1, <1>2, OperationFacts DEF NoCall, CallState

\* Nothing is recorded and nobody calls.
LEMMA JournalIInvInit == JournalInit => JournalIInv
<1> SUFFICES ASSUME JournalInit PROVE JournalIInv
  OBVIOUS
<1>1. Typed
  BY OperationFacts DEF JournalInit, Typed, Journals, Many
<1>2. CallsTyped /\ \A c \in Call : call[c].at = "idle"
  BY NoCallTyped DEF JournalInit, CallsTyped
<1>30. Backed(journal) /\ ReleasedOnlyEmpty
  BY DEF JournalInit, Backed, BackedBy, ReleasedOnlyEmpty
<1>3. SnapsBacked /\ Stages /\ AllocatesOnce /\ Serialized
  <2>1. \A c \in Call : call[c].at \notin {"read", "write", "look", "release"}
    BY <1>2
  <2>2. \A c \in Call : ~Reading(c)
    BY <2>1 DEF Reading
  <2>3. SnapsBacked /\ Stages
    BY <2>1, <2>2 DEF SnapsBacked, Stages
  <2>4. AllocatesOnce
    BY <2>2 DEF AllocatesOnce
  <2>5. Serialized
    BY <1>2 DEF Serialized
  <2> QED
    BY <2>3, <2>4, <2>5
<1>4. ReleasesOnce /\ NoneForgotten
  <2>1. \A c \in Call : ~Owing(c) /\ call[c].at # "release"
    BY <1>2 DEF Owing, Reading
  <2>2. recorded = {} /\ \A h \in Host, s \in Sandbox : released[h][s] = 0
    BY DEF JournalInit
  <2> QED
    BY <2>1, <2>2 DEF ReleasesOnce, ReleasesOf, NoneForgotten
<1> QED
  BY <1>1, <1>2, <1>30, <1>3, <1>4 DEF JournalIInv

\* What is behind an entry only grows.
LEMMA BackedGrows ==
  ASSUME NEW j, NEW w, NEW e, NEW f, NEW w1, NEW e1, NEW f1,
         BackedBy(j, w, e, f), w \subseteq w1, e \subseteq e1, f \subseteq f1
  PROVE  BackedBy(j, w1, e1, f1)
  BY DEF BackedBy

\* A call that begins, reads or ends leaves the file and what has happened
\* alone; what its own record says is all that moves.
LEMMA CallMoves ==
  ASSUME JournalIInv, NEW c \in Call, NEW k \in CallState,
         call' = [call EXCEPT ![c] = k],
         UNCHANGED <<journal, recorded, cancelled, emptied, released, everReleased>>,
         lost' = lost, unacknowledged \subseteq unacknowledged', unacknowledged' \subseteq Host \X Sandbox,
         allocated \subseteq allocated', allocated' \subseteq Sandbox,
         k.at = "write" => Backed(k.snap) /\ k.snap[k.sandbox] \in Accepts[k.op],
         k.at \in {"read", "write"} /\ k.op = "acknowledge" =>
           Reading(c) /\ call[c].op = "acknowledge" /\ k.sandbox = call[c].sandbox,
         k.at = "release" => k.op = "acknowledge" /\ journal[k.sandbox] = "release_pending",
         k.at \in {"read", "write"} => (k.whole <=> k.op \notin OwnCalls),
         k.at \in {"look", "release"} => k.whole,
         k.at \in {"read", "write"} /\ k.op = "allocate" =>
           /\ k.sandbox \in allocated' \ recorded
           /\ \A d \in Call \ {c} : ~(Reading(d) /\ call[d].op = "allocate" /\ call[d].sandbox = k.sandbox),
         k.whole /\ k.at # "idle" =>
           \A d \in Call \ {c} : ~(call[d].whole /\ call[d].at # "idle" /\ HostOf[d] = HostOf[c] /\ call[d].sandbox = k.sandbox),
         Reading(c) /\ call[c].op = "acknowledge" /\ call[c].sandbox \notin lost =>
           \/ Beyond(call[c].sandbox)
           \/ <<HostOf[c], call[c].sandbox>> \in unacknowledged'
           \/ k.at \in {"read", "write"} /\ k.op = "acknowledge" /\ k.sandbox = call[c].sandbox
  PROVE  JournalIInv'
<1> USE DEF JournalIInv
<1>0. call'[c] = k /\ \A d \in Call \ {c} : call'[d] = call[d]
  BY DEF CallsTyped
<1>1. Typed' /\ CallsTyped'
  BY DEF Typed, CallsTyped
<1>2. Backed(journal)' /\ SnapsBacked'
  BY <1>0 DEF SnapsBacked, Backed
<1>3. ReleasedOnlyEmpty'
  BY DEF ReleasedOnlyEmpty
<1>4. Stages'
  <2>1. k.at = "release" => k.sandbox \in emptied
    BY DEF Backed, BackedBy, CallState
  <2> QED
    BY <1>0, <2>1 DEF Stages, Reading
<1>5. AllocatesOnce'
  BY <1>0 DEF AllocatesOnce, Reading
<1>6. Serialized'
  <2>1. ASSUME NEW d \in Call \ {c}, NEW e \in Call \ {c}
        PROVE  call'[d] = call[d] /\ call'[e] = call[e]
    BY <1>0
  <2>2. SUFFICES ASSUME NEW d \in Call, NEW e \in Call, call'[d].whole, call'[d].at # "idle",
                        call'[e].whole, call'[e].at # "idle",
                        HostOf[d] = HostOf[e], call'[d].sandbox = call'[e].sandbox
                 PROVE  d = e
    BY DEF Serialized
  <2>3. CASE d # c /\ e # c
    BY <2>1, <2>2, <2>3 DEF Serialized
  <2>4. CASE d = c /\ e # c
    BY <1>0, <2>2, <2>4
  <2>5. CASE d # c /\ e = c
    BY <1>0, <2>2, <2>5
  <2> QED
    BY <2>3, <2>4, <2>5
<1>7. ReleasesOnce'
  <2> SUFFICES ASSUME NEW s \in Sandbox, s \notin lost PROVE ReleasesOf(s)'
    BY DEF ReleasesOnce
  <2>1. ReleasesOf(s) /\ (Beyond(s)' <=> Beyond(s))
    BY DEF ReleasesOnce, Beyond, Gone
  <2>2. ASSUME NEW h \in Host, Acknowledging(h, s), Known(h, s)' PROVE Beyond(s) \/ Acknowledging(h, s)'
    <3>1. PICK d \in Call : Reading(d) /\ call[d].op = "acknowledge" /\ HostOf[d] = h /\ call[d].sandbox = s
      BY <2>2 DEF Acknowledging
    <3>2. CASE d # c
      BY <3>1, <3>2, <1>0 DEF Acknowledging, Reading
    <3>3. CASE d = c
      BY <2>2, <3>1, <3>3, <1>0 DEF Acknowledging, Reading, Known
    <3> QED
      BY <3>2, <3>3
  <2>3. ASSUME NEW d \in Call, Owing(d)', call'[d].sandbox = s
        PROVE  journal[s] = "release_pending" \/ Beyond(s)
    <3>1. CASE d # c
      BY <2>1, <2>3, <3>1, <1>0 DEF ReleasesOf, Owing, Reading
    <3>2. CASE d = c
      BY <2>1, <2>3, <3>2, <1>0 DEF ReleasesOf, Owing, Reading
    <3> QED
      BY <3>1, <3>2
  <2>4. ASSUME NEW d \in Call, call'[d].at = "release", call'[d].sandbox = s, Known(HostOf[d], s)'
        PROVE  released[HostOf[d]][s] = 0
    <3>1. CASE d # c
      BY <2>1, <2>4, <3>1, <1>0 DEF ReleasesOf, Known
    <3>2. CASE d = c
      <4>1. journal[s] = "release_pending" /\ k.whole /\ k.sandbox = s /\ k.at = "release"
        BY <1>0, <2>4, <3>2
      <4>2. ~Acknowledging(HostOf[c], s)
        <5>1. ASSUME NEW e \in Call \ {c}, Reading(e), call[e].op = "acknowledge"
              PROVE  ~(HostOf[e] = HostOf[c] /\ call[e].sandbox = s)
          BY <5>1, <4>1, OperationFacts DEF Stages, Reading
        <5>2. ~(Reading(c) /\ call[c].op = "acknowledge" /\ call[c].sandbox = s)
          BY <4>1, <2>4, <3>2 DEF Beyond, Gone, Known
        <5> QED
          BY <5>1, <5>2 DEF Acknowledging
      <4>3. HostOf[c] \in Host /\ ~Beyond(s) /\ Known(HostOf[c], s)
        BY <4>1, <2>4, <3>2 DEF Beyond, Gone, Known
      <4> QED
        BY <2>1, <3>2, <4>2, <4>3 DEF ReleasesOf
    <3> QED
      BY <3>1, <3>2
  <2>5. ASSUME NEW h \in Host, Known(h, s)'
        PROVE  /\ released[h][s] \in {0, 1}
               /\ released[h][s] = 1 => Beyond(s) \/ (journal[s] = "release_pending" /\ Acknowledging(h, s)')
    <3>1. Known(h, s)
      BY <2>5 DEF Known
    <3> QED
      BY <2>1, <2>2, <2>5, <3>1 DEF ReleasesOf
  <2> QED
    BY <2>1, <2>3, <2>4, <2>5 DEF ReleasesOf
<1>8. NoneForgotten'
  BY DEF NoneForgotten
<1> QED
  BY <1>1, <1>2, <1>3, <1>4, <1>5, <1>6, <1>7, <1>8

\* Each step of a transition and of a release, and the crash of a process, keeps
\* all of it (transitionJournal, reconcileOwnedProcessSetRelease).
LEMMA JournalIInvStep == JournalIInv /\ [JournalNext]_journalVars => JournalIInv'
<1> SUFFICES ASSUME JournalIInv, [JournalNext]_journalVars PROVE JournalIInv'
  OBVIOUS
<1>0. /\ \A c \in Call : call[c] \in CallState
      /\ Typed /\ CallsTyped
  BY DEF JournalIInv, CallsTyped
<1>1. ASSUME NEW c \in Call, NEW op \in OwnCalls, NEW s \in Sandbox, StartTransition(c, op, s)
      PROVE  JournalIInv'
  <2> DEFINE k == [NoCall EXCEPT !.at = "read", !.op = op, !.sandbox = s]
  <2>1. k \in CallState /\ k.at = "read" /\ k.op = op /\ k.sandbox = s /\ k.whole = FALSE
    BY NoCallTyped, OperationFacts DEF CallState, NoCall
  <2>2. /\ call' = [call EXCEPT ![c] = k] /\ call[c].at = "idle"
        /\ UNCHANGED <<journal, recorded, cancelled, emptied, released, everReleased>>
        /\ lost' = lost /\ unacknowledged' = unacknowledged
        /\ op = "allocate" <=> s \notin allocated
        /\ allocated \subseteq allocated' /\ allocated' \subseteq Sandbox
        /\ op = "allocate" => s \in allocated'
    BY <1>0, <1>1 DEF StartTransition, Doing, Typed, NoRelease, NoEntry
  <2> HIDE DEF k
  <2>3. op = "allocate" =>
          /\ s \notin recorded
          /\ \A d \in Call : ~(Reading(d) /\ call[d].op = "allocate" /\ call[d].sandbox = s)
    BY <1>0, <2>2 DEF JournalIInv, AllocatesOnce, Typed
  <2>4. ~Reading(c) /\ op # "acknowledge" /\ unacknowledged \subseteq Host \X Sandbox
    BY <1>0, <2>2, OperationFacts DEF Reading, Typed
  <2> QED
    BY <2>1, <2>2, <2>3, <2>4, OperationFacts, CallMoves
<1>2. ASSUME NEW c \in Call, ReadEntries(c) PROVE JournalIInv'
  <2>0. /\ call[c].at = "read" /\ allocated' = allocated /\ lost' = lost /\ unacknowledged' = unacknowledged
        /\ UNCHANGED <<journal, recorded, cancelled, emptied, released, everReleased>>
        /\ unacknowledged \subseteq Host \X Sandbox
    BY <1>0, <1>2 DEF ReadEntries, Doing, Unwritten, NoRelease, NoEntry, Typed
  <2>1. CASE Permitted(call[c].op, journal, call[c].sandbox)
    <3> DEFINE k == [call[c] EXCEPT !.at = "write", !.snap = journal]
    <3>1. /\ k \in CallState /\ k.at = "write" /\ k.snap = journal
          /\ k.op = call[c].op /\ k.sandbox = call[c].sandbox /\ k.whole = call[c].whole
      BY <1>0 DEF CallState, Typed
    <3>2. call' = [call EXCEPT ![c] = k]
      BY <1>2, <2>1 DEF ReadEntries
    <3> HIDE DEF k
    <3>3. Backed(k.snap) /\ k.snap[k.sandbox] \in Accepts[k.op]
      BY <2>1, <3>1 DEF Permitted, JournalIInv
    <3>4. /\ k.whole <=> k.op \notin OwnCalls
          /\ k.op = "allocate" => k.sandbox \in allocated \ recorded
          /\ k.op = "allocate" => \A d \in Call \ {c} :
               ~(Reading(d) /\ call[d].op = "allocate" /\ call[d].sandbox = k.sandbox)
      BY <2>0, <3>1 DEF JournalIInv, Stages, AllocatesOnce, Reading
    <3>5. k.whole => \A d \in Call \ {c} :
            ~(call[d].whole /\ call[d].at # "idle" /\ HostOf[d] = HostOf[c] /\ call[d].sandbox = k.sandbox)
      BY <2>0, <3>1 DEF JournalIInv, Serialized
    <3>6. Reading(c) /\ allocated \subseteq Sandbox
      BY <1>0, <2>0 DEF Reading, Typed
    <3> QED
      BY <2>0, <3>1, <3>2, <3>3, <3>4, <3>5, <3>6, CallMoves
  <2>2. CASE ~Permitted(call[c].op, journal, call[c].sandbox)
    <3>1. call' = [call EXCEPT ![c] = NoCall]
      BY <1>2, <2>2 DEF ReadEntries, EndCall
    <3>2. call[c].op = "acknowledge" /\ call[c].sandbox \notin lost => Beyond(call[c].sandbox)
      <4>1. call[c].sandbox \in Sandbox
        BY <1>0 DEF CallState
      <4> QED
        BY <2>0, <2>2, <4>1, OperationFacts DEF Permitted, JournalIInv, ReleasesOnce, ReleasesOf, Owing, Reading
    <3>3. allocated \subseteq Sandbox
      BY <1>0 DEF Typed
    <3> QED
      BY <2>0, <3>1, <3>2, <3>3, NoCallTyped, CallMoves
  <2> QED
    BY <2>1, <2>2
<1>3. ASSUME NEW c \in Call, NEW s \in Sandbox, Reconcile(c, s) PROVE JournalIInv'
  <2> DEFINE k == [NoCall EXCEPT !.at = "look", !.sandbox = s, !.whole = TRUE]
  <2>1. k \in CallState /\ k.at = "look" /\ k.sandbox = s /\ k.whole
    BY NoCallTyped DEF CallState, NoCall
  <2>2. /\ call' = [call EXCEPT ![c] = k] /\ call[c].at = "idle"
        /\ UNCHANGED <<journal, allocated, recorded, cancelled, emptied, released, everReleased>>
        /\ lost' = lost /\ unacknowledged' = unacknowledged /\ unacknowledged \subseteq Host \X Sandbox
    BY <1>0, <1>3 DEF Reconcile, Doing, Unwritten, NoRelease, NoEntry, Typed
  <2>3. \A d \in Call \ {c} :
          ~(call[d].whole /\ call[d].at # "idle" /\ HostOf[d] = HostOf[c] /\ call[d].sandbox = s)
    BY <1>3 DEF Reconcile, Reconciling, Doing
  <2>4. ~Reading(c) /\ allocated \subseteq Sandbox
    BY <1>0, <2>2 DEF Reading, Typed
  <2> HIDE DEF k
  <2> QED
    BY <2>1, <2>2, <2>3, <2>4, CallMoves
<1>4. ASSUME NEW c \in Call, LookAtEntry(c) PROVE JournalIInv'
  <2> DEFINE k(at, op) == [call[c] EXCEPT !.at = at, !.op = op]
  <2>0. /\ call[c].at = "look" /\ call[c].whole /\ ~Reading(c) /\ allocated \subseteq Sandbox
        /\ UNCHANGED <<journal, allocated, recorded, cancelled, emptied, released, everReleased>>
        /\ lost' = lost /\ unacknowledged' = unacknowledged /\ unacknowledged \subseteq Host \X Sandbox
    BY <1>0, <1>4 DEF LookAtEntry, Doing, Unwritten, NoRelease, NoEntry, Reading, Typed, JournalIInv, Stages
  <2>1. ASSUME NEW at \in {"read", "release"}, NEW op \in {"begin", "acknowledge", "prune"}
        PROVE  /\ k(at, op) \in CallState /\ k(at, op).at = at /\ k(at, op).op = op
               /\ k(at, op).sandbox = call[c].sandbox /\ k(at, op).whole
    BY <1>0, <2>0, OperationFacts DEF CallState
  <2>2. \A d \in Call \ {c} :
          ~(call[d].whole /\ call[d].at # "idle" /\ HostOf[d] = HostOf[c] /\ call[d].sandbox = call[c].sandbox)
    BY <2>0 DEF JournalIInv, Serialized
  <2>3. ASSUME NEW op \in {"begin", "prune"}, call' = [call EXCEPT ![c] = k("read", op)]  PROVE JournalIInv'
    <3> DEFINE reads == k("read", op)
    <3>1. /\ reads \in CallState /\ reads.at = "read" /\ reads.op = op /\ op \notin OwnCalls
          /\ reads.sandbox = call[c].sandbox /\ reads.whole
      <4> HIDE DEF k
      <4>1. op \notin OwnCalls
        BY OperationFacts
      <4> QED
        BY <2>1, <4>1
    <3>2. call' = [call EXCEPT ![c] = reads]
      BY <2>3
    <3> HIDE DEF reads, k
    <3>3. \A d \in Call \ {c} :
            ~(call[d].whole /\ call[d].at # "idle" /\ HostOf[d] = HostOf[c] /\ call[d].sandbox = reads.sandbox)
      BY <2>2, <3>1
    <3>4. reads.op # "acknowledge" /\ reads.op # "allocate"
      BY <3>1
    <3> QED
      BY <2>0, <3>1, <3>2, <3>3, <3>4, CallMoves
  <2>4. CASE call' = [call EXCEPT ![c] = k("release", "acknowledge")] /\ journal[call[c].sandbox] = "release_pending"
    <3> DEFINE pending == k("release", "acknowledge")
    <3>1. /\ pending \in CallState /\ pending.at = "release" /\ pending.op = "acknowledge"
          /\ pending.sandbox = call[c].sandbox /\ pending.whole
      BY <2>1
    <3>2. call' = [call EXCEPT ![c] = pending]
      BY <2>4
    <3> HIDE DEF pending, k
    <3>3. journal[pending.sandbox] = "release_pending"
      BY <2>4, <3>1
    <3>4. \A d \in Call \ {c} :
            ~(call[d].whole /\ call[d].at # "idle" /\ HostOf[d] = HostOf[c] /\ call[d].sandbox = pending.sandbox)
      BY <2>2, <3>1
    <3> QED
      BY <2>0, <3>1, <3>2, <3>3, <3>4, CallMoves
  <2>5. CASE call' = [call EXCEPT ![c] = NoCall]
    BY <2>0, <2>5, NoCallTyped, CallMoves
  <2> QED
    BY <1>4, <2>3, <2>4, <2>5 DEF LookAtEntry, EndCall
<1>5. ASSUME NEW c \in Call, Released(c),
             \/ Does(c, "read") /\ unacknowledged' = unacknowledged
             \/ EndCall(c) /\ unacknowledged' = unacknowledged \cup {<<HostOf[c], call[c].sandbox>>}
      PROVE  JournalIInv'
  <2> DEFINE s == call[c].sandbox
             h == HostOf[c]
             k == IF Does(c, "read") /\ unacknowledged' = unacknowledged THEN [call[c] EXCEPT !.at = "read"] ELSE NoCall
  <2>1. /\ call[c].at = "release" /\ call[c].whole /\ call[c].op = "acknowledge" /\ s \in emptied
        /\ s \in Sandbox /\ h \in Host /\ call[c] \in CallState
        /\ UNCHANGED <<journal, allocated, recorded, cancelled, emptied, lost>>
        /\ everReleased' = everReleased \cup {s}
        /\ released' = [released EXCEPT ![h][s] = IF @ = Many THEN @ ELSE @ + 1]
    BY <1>0, <1>5 DEF Released, NoEntry, Doing, JournalIInv, Stages, CallState
  <2>2. /\ k \in CallState /\ k.at \in {"read", "idle"}
        /\ k.at = "read" => k.op = "acknowledge" /\ k.sandbox = s /\ k.whole
        /\ k.at = "idle" => <<h, s>> \in unacknowledged'
        /\ unacknowledged \subseteq unacknowledged' /\ unacknowledged' \subseteq Host \X Sandbox
    <3>1. CASE Does(c, "read") /\ unacknowledged' = unacknowledged
      BY <1>0, <2>1, <3>1 DEF CallState, Typed
    <3>2. CASE ~(Does(c, "read") /\ unacknowledged' = unacknowledged)
      BY <1>0, <1>5, <2>1, <3>2, NoCallTyped DEF Typed
    <3> QED
      BY <3>1, <3>2
  <2>3. call' = [call EXCEPT ![c] = k]
    BY <1>5 DEF Does, EndCall
  <2>4. call'[c] = k /\ \A d \in Call \ {c} : call'[d] = call[d]
    BY <1>0, <2>3 DEF CallsTyped
  <2>20. CallsTyped'
    BY <1>0, <2>2, <2>3 DEF CallsTyped
  <2> HIDE DEF k
  <2>5. Typed'
    BY <1>0, <2>1, <2>2 DEF Typed, Many
  <2>6. Backed(journal)' /\ ReleasedOnlyEmpty'
    BY <2>1 DEF JournalIInv, Backed, BackedBy, ReleasedOnlyEmpty
  <2>7. SnapsBacked'
    BY <2>1, <2>2, <2>4 DEF JournalIInv, SnapsBacked, Backed, BackedBy
  <2>8. Stages' /\ AllocatesOnce'
    BY <2>1, <2>2, <2>4, OperationFacts DEF JournalIInv, Stages, AllocatesOnce, Reading
  <2>9. Serialized'
    <3>1. ASSUME NEW d \in Call, call'[d].whole, call'[d].at # "idle"
          PROVE  call[d].whole /\ call[d].at # "idle" /\ call[d].sandbox = call'[d].sandbox
      BY <2>1, <2>2, <2>4, <3>1
    <3> QED
      BY <3>1 DEF JournalIInv, Serialized
  <2>10. ReleasesOnce'
    <3> SUFFICES ASSUME NEW t \in Sandbox, t \notin lost PROVE ReleasesOf(t)'
      BY <2>1 DEF ReleasesOnce
    <3>1. ReleasesOf(t) /\ (Beyond(t)' <=> Beyond(t)) /\ journal' = journal
      BY <2>1 DEF JournalIInv, ReleasesOnce, Beyond, Gone
    <3>2. \A g \in Host : <<g, t>> # <<h, s>> => released'[g][t] = released[g][t]
      BY <1>0, <2>1 DEF Typed
    <3>3. ASSUME NEW g \in Host, Acknowledging(g, t) PROVE Acknowledging(g, t)'
      BY <2>1, <2>4, <3>3 DEF Acknowledging, Reading
    <3>4. ASSUME NEW d \in Call, Owing(d)', call'[d].sandbox = t
          PROVE  journal[t] = "release_pending" \/ Beyond(t)
      <4>1. Owing(d) /\ call[d].sandbox = t
        BY <2>1, <2>2, <2>4, <3>4 DEF Owing, Reading
      <4> QED
        BY <3>1, <4>1 DEF ReleasesOf
    <3>5. ASSUME NEW d \in Call, call'[d].at = "release", call'[d].sandbox = t, Known(HostOf[d], t)'
          PROVE  released'[HostOf[d]][t] = 0
      <4>1. d # c /\ call[d] = call'[d] /\ Known(HostOf[d], t) /\ HostOf[d] \in Host
        BY <2>2, <2>4, <3>5 DEF Known
      <4>2. <<HostOf[d], t>> # <<h, s>>
        BY <2>1, <3>5, <4>1 DEF JournalIInv, Serialized, Stages
      <4> QED
        BY <3>1, <3>2, <3>5, <4>1, <4>2 DEF ReleasesOf
    <3>6. ASSUME NEW g \in Host, Known(g, t)'
          PROVE  /\ released'[g][t] \in {0, 1}
                 /\ released'[g][t] = 1 => Beyond(t) \/ (journal[t] = "release_pending" /\ Acknowledging(g, t)')
      <4>1. Known(g, t)
        BY <2>2, <3>6 DEF Known
      <4>2. CASE g = h /\ t = s
        <5>1. k.at = "read"
          BY <2>2, <3>6, <4>2 DEF Known
        <5>2. Acknowledging(g, t)'
          BY <2>2, <2>4, <4>2, <5>1 DEF Acknowledging, Reading
        <5>3. released[h][s] = 0 /\ (journal[s] = "release_pending" \/ Beyond(s))
          BY <2>1, <3>1, <4>1, <4>2 DEF ReleasesOf, Owing
        <5>4. released'[h][s] = 1
          BY <1>0, <2>1, <5>3 DEF Typed, Many
        <5> QED
          BY <4>2, <5>2, <5>3, <5>4
      <4>3. CASE ~(g = h /\ t = s)
        BY <3>1, <3>2, <3>3, <4>1, <4>3 DEF ReleasesOf
      <4> QED
        BY <4>2, <4>3
    <3> QED
      BY <3>1, <3>4, <3>5, <3>6 DEF ReleasesOf
  <2>11. NoneForgotten'
    BY <2>1 DEF JournalIInv, NoneForgotten
  <2> QED
    BY <2>5, <2>6, <2>7, <2>8, <2>9, <2>10, <2>11, <2>20 DEF JournalIInv
<1>9. ASSUME NEW c \in Call, CallFails(c) \/ (ReleaseFails(c) /\ Unwritten) PROVE JournalIInv'
  <2>1. /\ call' = [call EXCEPT ![c] = NoCall]
        /\ UNCHANGED <<journal, allocated, recorded, cancelled, emptied, released, everReleased>> /\ lost' = lost
        /\ unacknowledged' = unacknowledged \/ unacknowledged' = unacknowledged \cup {<<HostOf[c], call[c].sandbox>>}
    BY <1>9 DEF CallFails, ReleaseFails, EndCall, Unwritten, NoRelease, NoEntry
  <2>2. unacknowledged \subseteq unacknowledged' /\ unacknowledged' \subseteq Host \X Sandbox /\ allocated \subseteq Sandbox
    BY <1>0, <2>1 DEF Typed, CallState
  <2>3. Reading(c) /\ call[c].op = "acknowledge" => <<HostOf[c], call[c].sandbox>> \in unacknowledged'
    <3>1. Reading(c) /\ call[c].op = "acknowledge" => Pending(call[c])
      BY OperationFacts DEF JournalIInv, Stages, Pending, Reading
    <3> QED
      BY <1>9, <3>1 DEF CallFails, ReleaseFails, Doing, Reading
  <2> QED
    BY <2>1, <2>2, <2>3, NoCallTyped, CallMoves
<1>6. ASSUME NEW c \in Call, WriteEntries(c) PROVE JournalIInv'
  <2> DEFINE s == call[c].sandbox
             op == call[c].op
             snap == call[c].snap
             k == IF call' = [call EXCEPT ![c] = NoCall] THEN NoCall ELSE [call[c] EXCEPT !.at = "look"]
  <2>1. /\ call[c].at = "write" /\ snap \in Journals /\ s \in Sandbox /\ op \in Operation
        /\ Backed(snap) /\ snap[s] \in Accepts[op]
        /\ op = "acknowledge" => s \in everReleased
        /\ op = "allocate" => s \in allocated \ recorded
    BY <1>0, <1>6 DEF WriteEntries, Doing, CallState, JournalIInv, SnapsBacked, Stages, AllocatesOnce, Reading
  <2>2. /\ journal' = [snap EXCEPT ![s] = Leaves[op]]
        /\ recorded' = IF op = "allocate" THEN recorded \cup {s} ELSE recorded
        /\ cancelled' = IF op = "cancel" THEN cancelled \cup {s} ELSE cancelled
        /\ emptied' = IF op = "empty" THEN emptied \cup {s} ELSE emptied
        /\ UNCHANGED <<allocated, released, everReleased, unacknowledged>>
    BY <1>6 DEF WriteEntries, NoRelease
  <2>3. call' = [call EXCEPT ![c] = k]
    BY <1>0, <1>6 DEF WriteEntries, Does, EndCall, CallState
  <2>4. /\ k \in CallState /\ k.at \in {"idle", "look"}
        /\ k.at = "look" => k.whole /\ call[c].whole /\ k.sandbox = s
    <3>1. CASE call' = [call EXCEPT ![c] = NoCall]
      BY <3>1, NoCallTyped
    <3>2. CASE call' # [call EXCEPT ![c] = NoCall]
      <4>1. call[c].whole
        BY <1>6, <3>2 DEF WriteEntries, EndCall
      <4> QED
        BY <1>0, <3>2, <4>1 DEF CallState
    <3> QED
      BY <3>1, <3>2
  <2> HIDE DEF k
  <2>5. call'[c] = k /\ \A d \in Call \ {c} : call'[d] = call[d]
    BY <2>3, <1>0 DEF CallsTyped
  <2>6. lost' \subseteq Sandbox /\ \A t \in Sandbox \ lost' : t \notin lost /\ journal[t] = snap[t]
    BY <1>0, <1>6 DEF WriteEntries, Typed
  <2>7. Typed'
    BY <1>0, <2>1, <2>2, <2>6, OperationFacts DEF Typed, Journals
  <2>8. CallsTyped'
    BY <2>3, <2>4 DEF CallsTyped, JournalIInv
  <2>9. Backed(journal)'
    <3>1. journal'[s] = Leaves[op] /\ \A t \in Sandbox \ {s} : journal'[t] = snap[t]
      BY <2>1, <2>2 DEF Journals
    <3>2. ASSUME NEW t \in Sandbox \ {s}
          PROVE  /\ journal'[t] # "absent" => t \in recorded'
                 /\ journal'[t] \in {"verified_empty", "release_pending", "acknowledged"} => t \in emptied'
                 /\ journal'[t] = "acknowledged" => t \in everReleased'
      BY <2>1, <2>2, <3>1 DEF Backed, BackedBy
    <3>3. /\ journal'[s] # "absent" => s \in recorded'
          /\ journal'[s] \in {"verified_empty", "release_pending", "acknowledged"} => s \in emptied'
          /\ journal'[s] = "acknowledged" => s \in everReleased'
      BY <2>1, <2>2, <3>1, OperationFacts DEF Backed, BackedBy
    <3> QED
      BY <3>2, <3>3 DEF Backed, BackedBy
  <2>10. ReleasedOnlyEmpty'
    BY <2>2 DEF JournalIInv, ReleasedOnlyEmpty
  <2>11. SnapsBacked'
    BY <2>2, <2>4, <2>5 DEF JournalIInv, SnapsBacked, Backed, BackedBy
  <2>12. Stages'
    BY <2>2, <2>4, <2>5 DEF JournalIInv, Stages, Reading
  <2>13. AllocatesOnce'
    BY <2>1, <2>2, <2>4, <2>5 DEF JournalIInv, AllocatesOnce, Reading
  <2>14. Serialized'
    BY <2>1, <2>4, <2>5 DEF JournalIInv, Serialized
  <2>15. ReleasesOnce'
    <3> SUFFICES ASSUME NEW t \in Sandbox, t \notin lost' PROVE ReleasesOf(t)'
      BY DEF ReleasesOnce
    <3>1. /\ ReleasesOf(t) /\ journal[t] = snap[t]
          /\ journal'[t] = IF t = s THEN Leaves[op] ELSE journal[t]
      BY <2>1, <2>2, <2>6 DEF JournalIInv, ReleasesOnce, Journals
    <3>10. t = s /\ journal[t] = "acknowledged" => journal'[t] = "absent" /\ t \in recorded
      <4>1. t = s /\ journal[t] = "acknowledged" => op = "prune"
        BY <2>1, <3>1, OperationFacts
      <4>2. journal[t] # "absent" => t \in recorded
        BY DEF JournalIInv, Backed, BackedBy
      <4> QED
        BY <3>1, <4>1, <4>2, OperationFacts
    <3>11. t = s /\ journal[t] = "absent" /\ t \in recorded => journal'[t] = "absent"
      <4>1. t = s /\ journal[t] = "absent" /\ t \in recorded => op \in {"cancel", "prune"}
        BY <2>1, <3>1, OperationFacts
      <4> QED
        BY <3>1, <4>1, OperationFacts
    <3>12. t = s /\ journal[t] = "release_pending" => journal'[t] = "acknowledged"
      <4>1. t = s /\ journal[t] = "release_pending" => op = "acknowledge"
        BY <2>1, <3>1, OperationFacts
      <4> QED
        BY <3>1, <4>1, OperationFacts
    <3>2. Beyond(t) => Beyond(t)'
      BY <2>2, <3>1, <3>10, <3>11 DEF Beyond, Gone
    <3>3. journal[t] = "release_pending" =>
            (journal'[t] = "release_pending" /\ (t = s => op # "acknowledge")) \/ Beyond(t)'
      BY <3>1, <3>12 DEF Beyond
    <3>4. ASSUME NEW g \in Host, Acknowledging(g, t), t = s => op # "acknowledge" PROVE Acknowledging(g, t)'
      BY <2>5, <3>4 DEF Acknowledging, Reading
    <3>5. ASSUME NEW d \in Call, call'[d].at \notin {"idle", "look"} PROVE d # c /\ call'[d] = call[d]
      BY <2>4, <2>5, <3>5
    <3>6. ASSUME NEW d \in Call, Owing(d)', call'[d].sandbox = t
          PROVE  journal'[t] = "release_pending" \/ Beyond(t)'
      <4>1. Owing(d) /\ call[d].sandbox = t
        BY <3>5, <3>6 DEF Owing, Reading
      <4> QED
        BY <3>1, <3>2, <3>3, <4>1 DEF ReleasesOf
    <3>7. ASSUME NEW d \in Call, call'[d].at = "release", call'[d].sandbox = t, Known(HostOf[d], t)'
          PROVE  released'[HostOf[d]][t] = 0
      BY <2>2, <3>1, <3>5, <3>7 DEF ReleasesOf, Known
    <3>8. ASSUME NEW g \in Host, Known(g, t)'
          PROVE  /\ released'[g][t] \in {0, 1}
                 /\ released'[g][t] = 1 => Beyond(t)' \/ (journal'[t] = "release_pending" /\ Acknowledging(g, t)')
      BY <2>2, <3>1, <3>2, <3>3, <3>4, <3>8 DEF ReleasesOf, Known
    <3> QED
      BY <3>6, <3>7, <3>8 DEF ReleasesOf
  <2>16. NoneForgotten'
    <3> SUFFICES ASSUME NEW t \in recorded', t \notin lost', journal'[t] = "absent"
                 PROVE  t \in cancelled' \/ t \in everReleased'
      BY DEF NoneForgotten
    <3>1. t \in Sandbox /\ t \notin lost /\ journal[t] = snap[t] /\ journal'[t] = IF t = s THEN Leaves[op] ELSE journal[t]
      BY <2>1, <2>2, <2>6, <2>7 DEF Typed, Journals
    <3>2. CASE t # s
      BY <2>2, <3>1, <3>2 DEF JournalIInv, NoneForgotten
    <3>3. CASE t = s
      <4>1. op \in {"cancel", "prune"}
        BY <2>1, <3>1, <3>3, OperationFacts
      <4>2. op = "prune" => t \in recorded /\ journal[t] \in {"absent", "acknowledged"}
        BY <2>1, <2>2, <3>1, <3>3, OperationFacts
      <4>3. journal[t] = "acknowledged" => t \in everReleased
        BY <3>1 DEF JournalIInv, Backed, BackedBy
      <4> QED
        BY <2>2, <3>1, <3>3, <4>1, <4>2, <4>3 DEF JournalIInv, NoneForgotten
    <3> QED
      BY <3>2, <3>3
  <2> QED
    BY <2>7, <2>8, <2>9, <2>10, <2>11, <2>12, <2>13, <2>14, <2>15, <2>16 DEF JournalIInv
<1>7. ASSUME NEW h \in Host, HostCrash(h) PROVE JournalIInv'
  <2>1. \A c \in Call : call'[c] = call[c] \/ call'[c] = NoCall
    BY <1>7 DEF HostCrash
  <2>2. /\ UNCHANGED <<journal, allocated, recorded, cancelled, emptied, everReleased, lost>>
        /\ released' = [released EXCEPT ![h] = [s \in Sandbox |-> 0]]
        /\ unacknowledged' = {u \in unacknowledged : u[1] # h}
    BY <1>7 DEF HostCrash, NoEntry
  <2>3. Typed' /\ CallsTyped'
    BY <1>0, <1>7, <2>2, NoCallTyped DEF Typed, CallsTyped, HostCrash, Many
  <2>4. Backed(journal)' /\ ReleasedOnlyEmpty'
    BY <2>2 DEF JournalIInv, Backed, ReleasedOnlyEmpty
  <2>5. \A c \in Call : call'[c].at # "idle" => call'[c] = call[c] /\ HostOf[c] # h
    BY <1>7, NoCallTyped DEF HostCrash
  <2>6. SnapsBacked' /\ Stages' /\ AllocatesOnce'
    BY <2>2, <2>5 DEF JournalIInv, SnapsBacked, Backed, Stages, AllocatesOnce, Reading
  <2>7. Serialized'
    BY <2>5 DEF JournalIInv, Serialized
  <2>8. ReleasesOnce'
    <3> SUFFICES ASSUME NEW s \in Sandbox, s \notin lost PROVE ReleasesOf(s)'
      BY <2>2 DEF ReleasesOnce
    <3>1. ReleasesOf(s) /\ (Beyond(s)' <=> Beyond(s)) /\ journal' = journal
      BY <2>2 DEF JournalIInv, ReleasesOnce, Beyond, Gone
    <3>2. ASSUME NEW g \in Host \ {h} 
          PROVE  /\ Acknowledging(g, s) => Acknowledging(g, s)'
                 /\ Known(g, s)' => Known(g, s)
      BY <1>7, <2>2 DEF HostCrash, Acknowledging, Reading, Known
    <3>3. released'[h][s] = 0 /\ \A g \in Host \ {h} : released'[g] = released[g]
      BY <2>2, <1>0 DEF Typed
    <3>4. ASSUME NEW d \in Call, call'[d].at # "idle"
          PROVE  call'[d] = call[d] /\ HostOf[d] \in Host \ {h}
      BY <2>5, <3>4
    <3>5. ASSUME NEW d \in Call, Owing(d)', call'[d].sandbox = s
          PROVE  journal[s] = "release_pending" \/ Beyond(s)
      BY <3>1, <3>4, <3>5 DEF ReleasesOf, Owing, Reading
    <3>6. ASSUME NEW d \in Call, call'[d].at = "release", call'[d].sandbox = s, Known(HostOf[d], s)'
          PROVE  released'[HostOf[d]][s] = 0
      BY <3>1, <3>2, <3>3, <3>4, <3>6 DEF ReleasesOf
    <3>7. ASSUME NEW g \in Host, Known(g, s)'
          PROVE  /\ released'[g][s] \in {0, 1}
                 /\ released'[g][s] = 1 => Beyond(s) \/ (journal[s] = "release_pending" /\ Acknowledging(g, s)')
      <4>1. CASE g = h
        BY <3>3, <4>1
      <4>2. CASE g # h
        BY <3>1, <3>2, <3>3, <3>7, <4>2 DEF ReleasesOf
      <4> QED
        BY <4>1, <4>2
    <3> QED
      BY <3>1, <3>5, <3>6, <3>7 DEF ReleasesOf
  <2>9. NoneForgotten'
    BY <2>2 DEF JournalIInv, NoneForgotten
  <2> QED
    BY <2>3, <2>4, <2>6, <2>7, <2>8, <2>9 DEF JournalIInv
<1>8. CASE UNCHANGED journalVars
  <2>1. /\ UNCHANGED <<journal, call, allocated, recorded, cancelled, emptied>>
        /\ UNCHANGED <<released, everReleased, unacknowledged, lost>>
    BY <1>8 DEF journalVars
  <2>2. Typed' /\ CallsTyped' /\ Backed(journal)' /\ SnapsBacked' /\ ReleasedOnlyEmpty'
    BY <2>1 DEF JournalIInv, Typed, CallsTyped, Backed, SnapsBacked, ReleasedOnlyEmpty
  <2>3. Stages' /\ AllocatesOnce' /\ Serialized' /\ NoneForgotten'
    BY <2>1 DEF JournalIInv, Stages, AllocatesOnce, Serialized, NoneForgotten, Reading
  <2>4. ReleasesOnce'
    BY <2>1 DEF JournalIInv, ReleasesOnce, ReleasesOf, Beyond, Gone, Acknowledging, Reading, Owing, Known
  <2> QED
    BY <2>2, <2>3, <2>4 DEF JournalIInv
<1>10. ASSUME NEW c \in Call, ReleaseReference(c) \/ ReleaseFails(c) PROVE JournalIInv'
  <2>1. CASE ReleaseReference(c)
    BY <1>5, <2>1 DEF ReleaseReference
  <2>2. CASE ReleaseFails(c) /\ Unwritten
    BY <1>9, <2>2
  <2>3. CASE ReleaseFails(c) /\ ~Unwritten
    BY <1>5, <2>3 DEF ReleaseFails
  <2> QED
    BY <1>10, <2>1, <2>2, <2>3
<1> QED
  BY <1>1, <1>2, <1>3, <1>4, <1>6, <1>7, <1>8, <1>9, <1>10 DEF JournalNext

\* An entry that was not overwritten was released by a process at most once.
LEMMA JournalIInvImplies ==
  ASSUME JournalIInv
  PROVE  ReleasedOnlyEmpty /\ AcknowledgedWasReleased /\ ReleasedOnceByHost /\ NoneForgotten
<1>1. AcknowledgedWasReleased
  BY DEF JournalIInv, Backed, BackedBy, AcknowledgedWasReleased
<1>2. ReleasedOnceByHost
  BY DEF JournalIInv, ReleasesOnce, ReleasesOf, Known, ReleasedOnceByHost
<1> QED
  BY <1>1, <1>2 DEF JournalIInv

\* A reference is released only for a set recorded as verified empty and before
\* its entry is acknowledged, whatever is overwritten, whatever fails and whoever
\* crashes; a process releases it twice only after a failure of its own between
\* the release and its acknowledgement, or when that very entry was overwritten,
\* and no other entry leaves the journal unreleased.
THEOREM JournalIsSafe == JournalSpec => []JournalInv
<1>1. JournalSpec => []JournalIInv
  BY JournalIInvInit, JournalIInvStep, PTL DEF JournalSpec
<1>2. JournalIInv => JournalInv
  BY JournalIInvImplies DEF JournalInv, JournalIInv, JournalTypeOK, Typed, CallsTyped, CallState
<1> QED
  BY <1>1, <1>2, PTL


-----------------------------------------------------------------------------
(***************************************************************************)
(* What the registry of disposable folders promises for every finite set   *)
(* of acquisitions and any limits, whoever dies or sleeps and whatever the *)
(* disk refuses.  RunsInv is not inductive: a recovery removes a folder    *)
(* some steps after it looked at the marker, so the invariant says of      *)
(* every folder that is about to be removed that its owner can no longer   *)
(* come to work in it unnoticed; and what an acquisition gives back when   *)
(* it returns follows from what it holds in every stage before.            *)
(***************************************************************************)

USE RunsAssumption, AcquirerAssumption

-----------------------------------------------------------------------------
(* The inductive invariant                                                 *)

Working == {"fetching", "verifying", "selecting"}
Recovering == {"naming", "recovering", "emptying", "sweeping"}
Finishing == {"cleaning", "unlinking", "removing", "returned"} \cup Recovering
Setting == {"idle", "listing", "making", "marking"}
Stage == Setting \cup {"publishing", "renaming", "dead"} \cup Working \cup Finishing
Target == {"live", "release_pending", "acknowledged"}
State == {Unread, "reserving"} \cup Target

FolderRecord == [state : State \cup {"absent"}, made : 0..MaxToday, bare : BOOLEAN]
AcquirerRecord ==
  [at : Stage, saw : State \cup Acquirer, target : Target, quota : 0..QuotaUnits, fetched : {0, FetchUnits},
   result : {"none", "limit", "ok", "invalid", "failed"}, names : SUBSET Acquirer, late : BOOLEAN]

RunsTyped ==
  /\ folder \in [Acquirer -> FolderRecord] /\ acquirer \in [Acquirer -> AcquirerRecord]
  /\ mishaps \in [Acquirer -> SUBSET Mishap]
  /\ registry \in Acquirer \cup {FreeRegistry} /\ today \in 0..MaxToday
  /\ \A a \in Acquirer : folder[a].state = "absent" => folder[a] = NoFolder

Expired(a) == today - folder[a].made > Grace

\* What an acquisition has reserved, stage by stage.
Reserved(q, leaked) ==
  LET live == q.at \in {"publishing", "renaming"} /\ q.target = "live" IN
  /\ q.at \in Setting \cup Working \/ live => leaked = 0
  /\ q.at \in {"idle", "listing"} => q.quota = 0 /\ q.fetched = 0
  /\ q.at \in {"making", "marking", "fetching"} \/ live => q.quota = RunUnits /\ q.fetched = 0
  /\ q.at = "verifying" => q.quota = RunUnits + FetchUnits /\ q.fetched = 0
  /\ q.at = "selecting" => q.quota = RunUnits + FetchUnits /\ q.fetched = FetchUnits
  /\ q.at \in {"cleaning", "unlinking", "removing"} \/ (q.at \in {"publishing", "renaming"} /\ ~live)
       => q.quota = RunUnits + q.fetched + leaked
  /\ q.at \in Recovering => q.quota = q.fetched + leaked \/ q.quota = RunUnits + q.fetched + leaked
  /\ q.at = "returned" => q.fetched = 0 /\ (q.quota = leaked \/ q.quota = RunUnits + leaked)

\* What its folder can be, stage by stage.
Folded(q, s, expired) ==
  LET live == q.at \in {"publishing", "renaming"} /\ q.target = "live" IN
  /\ q.at \in Setting \/ live => ~q.late
  /\ q.at \in Setting => q.target = "live"
  /\ q.at \in {"idle", "listing", "making"} => s = "absent"
  /\ q.at = "marking" => s = Unread
  /\ live => s \in {"reserving", Unread, "absent"} /\ (s # "reserving" => s = "absent" \/ expired)
  /\ q.at \in Working /\ ~q.late => s = "live"

\* What is left of it when nothing failed and nobody else removed it.
Orderly(q, s, leaked) ==
  LET publishing(target) == q.at \in {"publishing", "renaming"} /\ q.target = target IN
  /\ publishing("live") => s = "reserving"
  /\ q.at \in Working => s = "live"
  /\ publishing("release_pending") => s \in {"reserving", "live"}
  /\ publishing("acknowledged") => s = "release_pending"
  /\ q.at \in {"cleaning", "unlinking"} => s = "acknowledged"
  /\ q.at = "removing" => s = Unread
  /\ q.at \in Recovering => s = "absent" /\ q.quota = q.fetched + leaked
  /\ q.at = "returned" => s = "absent" /\ q.quota = leaked

\* A folder that stands through the recovery is still paid for.
StillReserved(q, s, leaked) ==
  q.at \in Recovering \cup {"returned"} /\ s # "absent" => q.quota = RunUnits + q.fetched + leaked

Settled(q, s, expired, leaked, unharmed) ==
  /\ Reserved(q, leaked) /\ Folded(q, s, expired) /\ StillReserved(q, s, leaked)
  /\ unharmed => Orderly(q, s, leaked)

Sound(a) == Settled(acquirer[a], folder[a].state, Expired(a), Leaked(a), Unharmed(a))

Registered == \A a \in Acquirer : acquirer[a].at \in {"listing", "making", "marking"} => registry = a

Listed == {a \in Folders : ~acquirer[a].late /\ "unlisted" \notin mishaps[a]}
Capped ==
  /\ Cardinality(Listed) <= MaxRuns
  /\ \A a \in Acquirer : AtRun(a, "making") /\ "unlisted" \notin mishaps[a] => Cardinality(Listed) < MaxRuns

\* Nobody comes to work in this folder without noticing that it may be gone.
Doom(q, s, expired) ==
  \/ q.late
  \/ q.at \in Finishing \cup {"dead"}
  \/ /\ q.at \in {"publishing", "renaming"}
     /\ q.target = "live" => s = "absent" \/ expired

Doomed(b) == Doom(acquirer[b], folder[b].state, Expired(b))

OnlyDoomedSwept ==
  \A a \in Acquirer : acquirer[a].at \in {"emptying", "sweeping"} =>
    acquirer[a].saw \in Acquirer /\ Doomed(acquirer[a].saw)

RunsIInv == RunsTyped /\ (\A a \in Acquirer : Sound(a)) /\ Registered /\ Capped /\ OnlyDoomedSwept

-----------------------------------------------------------------------------
(* One acquisition and the others                                          *)

LEMMA LeakedUnits == ASSUME NEW a \in Acquirer PROVE Leaked(a) \in {0, FetchUnits} /\ Leaked(a) \in Nat
BY DEF Leaked

LEMMA FoldersTyped ==
  ASSUME RunsTyped, NEW a \in Acquirer
  PROVE  /\ acquirer[a] \in AcquirerRecord /\ folder[a] \in FolderRecord
         /\ acquirer[a].at \in Stage /\ acquirer[a].target \in Target /\ acquirer[a].quota \in 0..QuotaUnits
         /\ acquirer[a].fetched \in {0, FetchUnits} /\ acquirer[a].names \subseteq Acquirer
         /\ acquirer[a].late \in BOOLEAN /\ acquirer[a].saw \in State \cup Acquirer
         /\ acquirer[a].quota \in Nat /\ acquirer[a].fetched \in Nat
         /\ folder[a].state \in State \cup {"absent"} /\ folder[a].made \in 0..MaxToday /\ folder[a].bare \in BOOLEAN
         /\ folder[a].made \in Nat /\ today \in Nat
         /\ There(a) <=> folder[a].state # "absent"
         /\ a # FreeRegistry
<1>1. acquirer[a] \in AcquirerRecord /\ folder[a] \in FolderRecord /\ today \in 0..MaxToday
  BY DEF RunsTyped
<1>2. There(a) <=> folder[a].state # "absent"
  BY DEF RunsTyped, There, NoFolder
<1>3. QuotaUnits \in Nat /\ FetchUnits \in Nat /\ MaxToday \in Nat /\ a # FreeRegistry
  BY DEF FreeRegistry
<1>4. /\ acquirer[a].at \in Stage /\ acquirer[a].target \in Target /\ acquirer[a].quota \in 0..QuotaUnits
      /\ acquirer[a].fetched \in {0, FetchUnits} /\ acquirer[a].names \subseteq Acquirer
      /\ acquirer[a].late \in BOOLEAN /\ acquirer[a].saw \in State \cup Acquirer
  BY <1>1 DEF AcquirerRecord
<1>5. folder[a].state \in State \cup {"absent"} /\ folder[a].made \in 0..MaxToday /\ folder[a].bare \in BOOLEAN
  BY <1>1 DEF FolderRecord
<1> QED
  BY <1>1, <1>2, <1>3, <1>4, <1>5

LEMMA RunsIInvInit == RunsInit => RunsIInv
<1> SUFFICES ASSUME RunsInit PROVE RunsIInv
  OBVIOUS
<1>1. RunsTyped
  <2>1. NewAcquirer \in AcquirerRecord
    <3>1. 0 \in 0..QuotaUnits /\ {} \in SUBSET Acquirer /\ "idle" \in Stage /\ Unread \in State /\ "live" \in Target
      BY DEF Stage, State, Target, Setting
    <3> QED
      BY <3>1 DEF NewAcquirer, AcquirerRecord
  <2>2. NoFolder \in FolderRecord
    <3>1. 0 \in 0..MaxToday
      OBVIOUS
    <3> QED
      BY <3>1 DEF NoFolder, FolderRecord
  <2> QED
    BY <2>1, <2>2 DEF RunsTyped, RunsInit, NoFolder
<1>2. ASSUME NEW a \in Acquirer PROVE Sound(a) /\ acquirer[a].at = "idle"
  <2>1. acquirer[a] = NewAcquirer /\ folder[a] = NoFolder /\ mishaps[a] = {}
    BY DEF RunsInit
  <2>2. acquirer[a].at = "idle" /\ acquirer[a].quota = 0 /\ acquirer[a].fetched = 0 /\ ~acquirer[a].late
        /\ folder[a].state = "absent" /\ acquirer[a].target = "live" /\ Leaked(a) = 0
    BY <2>1 DEF NewAcquirer, NoFolder, Leaked
  <2> QED
    BY <2>2 DEF Sound, Settled, Reserved, Folded, StillReserved, Orderly, Working, Recovering, Setting
<1>3. Capped
  <2>1. Listed = {}
    BY DEF Listed, Folders, There, RunsInit
  <2> QED
    BY <1>2, <2>1, FS_EmptySet DEF Capped, AtRun
<1> QED
  BY <1>1, <1>2, <1>3 DEF RunsIInv, Registered, OnlyDoomedSwept

\* A folder that somebody else sweeps.
Swept(b) ==
  /\ Doomed(b) /\ folder'[b].state \in {Unread, "absent"}
  /\ folder[b].state = "absent" => folder'[b].state = "absent"
  /\ folder'[b].state # "absent" => folder'[b].made = folder[b].made

\* What a step of a, about the folder of b, does to the history of mishaps.
Onward(a, b) ==
  /\ mishaps' \in [Acquirer -> SUBSET Mishap]
  /\ \A d \in Acquirer : mishaps[d] \subseteq mishaps'[d]
  /\ \A d \in Acquirer \ {a} : "bare" \in mishaps'[d] <=> "bare" \in mishaps[d]
  /\ b # a => "swept" \in mishaps'[b]

LEMMA MishapsOfOthers ==
  ASSUME NEW a \in Acquirer, NEW b \in Acquirer, Onward(a, b), NEW d \in Acquirer \ {a}
  PROVE  Leaked(d)' = Leaked(d) /\ (Unharmed(d)' => Unharmed(d) /\ d # b)
BY DEF Onward, Leaked, Unharmed

LEMMA MishapsStay ==
  ASSUME RunsTyped, UNCHANGED mishaps, NEW a \in Acquirer
  PROVE  Onward(a, a) /\ Leaked(a)' = Leaked(a) /\ (Unharmed(a)' <=> Unharmed(a))
BY DEF Onward, Leaked, Unharmed, RunsTyped

LEMMA OneSuffers ==
  ASSUME RunsTyped, NEW a \in Acquirer, NEW m \in Mishap, Suffers(a, m)
  PROVE  /\ Onward(a, a)
         /\ Leaked(a)' = (IF m = "bare" THEN FetchUnits ELSE Leaked(a))
         /\ m \in {"disk", "swept"} => ~Unharmed(a)'
         /\ Unharmed(a)' => Unharmed(a)
         /\ m \in mishaps'[a]
<1>1. /\ mishaps' \in [Acquirer -> SUBSET Mishap] /\ mishaps'[a] = mishaps[a] \cup {m}
      /\ \A d \in Acquirer \ {a} : mishaps'[d] = mishaps[d]
  BY DEF Suffers, RunsTyped
<1> QED
  BY <1>1 DEF Onward, Leaked, Unharmed

LEMMA StepKeeps ==
  ASSUME RunsIInv, NEW a \in Acquirer, NEW b \in Acquirer, RunsTyped', UNCHANGED today, Onward(a, b),
         \A d \in Acquirer \ {a} : acquirer'[d] = acquirer[d],
         \A d \in Acquirer \ {b} : folder'[d] = folder[d],
         b # a => Swept(b),
         acquirer[a].late => acquirer'[a].late,
         registry' = registry \/ registry = a \/ (registry = FreeRegistry /\ registry' = a),
         acquirer'[a].at \in {"listing", "making", "marking"} => registry' = a,
         acquirer'[a].at = "making" /\ "unlisted" \notin mishaps'[a] => Cardinality(Listed) < MaxRuns,
         folder[a].state = "absent" /\ folder'[a].state # "absent" /\ ~acquirer'[a].late =>
           acquirer[a].at = "making" /\ acquirer'[a].at # "making",
         Sound(a)', Doomed(a) => Doomed(a)',
         acquirer'[a].at \in {"emptying", "sweeping"} => acquirer'[a].saw \in Acquirer /\ Doomed(acquirer'[a].saw)
  PROVE  RunsIInv'
<1>1. \A d \in Acquirer : Doomed(d) => Doomed(d)'
  <2> TAKE d \in Acquirer
  <2>1. CASE d = a
    BY <2>1
  <2>2. CASE d # a /\ d # b
    BY <2>2 DEF Doomed, Doom, Expired
  <2>3. CASE d # a /\ d = b
    BY <2>3 DEF Doomed, Doom, Swept, Expired
  <2> QED
    BY <2>1, <2>2, <2>3
<1>2. OnlyDoomedSwept'
  BY <1>1 DEF RunsIInv, OnlyDoomedSwept
<1>3. ASSUME NEW d \in Acquirer \ {a} PROVE Sound(d)'
  <2>1. Sound(d) /\ acquirer'[d] = acquirer[d] /\ folder[d].state \in State \cup {"absent"}
    BY FoldersTyped DEF RunsIInv
  <2>2. Leaked(d)' = Leaked(d) /\ (Unharmed(d)' => Unharmed(d) /\ d # b)
    BY MishapsOfOthers
  <2>3. Reserved(acquirer[d], Leaked(d))'
    BY <2>1, <2>2 DEF Sound, Settled
  <2>4. Unharmed(d)' => Orderly(acquirer[d], folder[d].state, Leaked(d))'
    BY <2>1, <2>2 DEF Sound, Settled
  <2>5. StillReserved(acquirer[d], folder[d].state, Leaked(d))'
    <3>1. folder'[d].state # "absent" => folder[d].state # "absent"
      BY DEF Swept
    <3> QED
      BY <2>1, <2>2, <3>1 DEF Sound, Settled, StillReserved
  <2>6. Folded(acquirer[d], folder[d].state, Expired(d))'
    <3>1. CASE d # b
      <4>1. folder'[d] = folder[d] /\ Expired(d)' = Expired(d)
        BY <3>1 DEF Expired
      <4> QED
        BY <2>1, <4>1 DEF Sound, Settled
    <3>2. CASE d = b
      <4>1. Swept(d) /\ Folded(acquirer[d], folder[d].state, Expired(d)) /\ Doomed(d)
        BY <2>1, <3>2 DEF Swept, Sound, Settled
      <4>2. CASE acquirer[d].late
        BY <2>1, <4>1, <4>2 DEF Folded, Setting
      <4>3. CASE ~acquirer[d].late /\ acquirer[d].at \in Finishing \cup {"dead"}
        BY <2>1, <4>1, <4>3 DEF Folded, Swept, Finishing, Recovering, Working, Setting
      <4>4. CASE /\ acquirer[d].at \in {"publishing", "renaming"}
                 /\ acquirer[d].target = "live" => folder[d].state = "absent" \/ Expired(d)
        <5>1. folder'[d].state # "absent" /\ Expired(d) => Expired(d)'
          BY <4>1, <4>4 DEF Swept, Expired
        <5> QED
          BY <2>1, <4>1, <4>4, <5>1 DEF Folded, Swept, Recovering, Working, Setting
      <4> QED
        BY <4>1, <4>2, <4>3, <4>4 DEF Doomed, Doom
    <3> QED
      BY <3>1, <3>2
  <2> QED
    BY <2>3, <2>4, <2>5, <2>6 DEF Sound, Settled
<1>4. Registered'
  <2>1. \A d \in Acquirer \ {a} : acquirer'[d].at \in {"listing", "making", "marking"} => registry = d
        /\ d # FreeRegistry
    BY FoldersTyped DEF RunsIInv, Registered
  <2> QED
    BY <2>1 DEF Registered
<1>5. Capped'
  <2>1. Capped /\ IsFiniteSet(Listed) /\ Cardinality(Listed) \in Nat
    <3>1. IsFiniteSet(Listed)
      BY FS_Subset, AcquirerAssumption DEF Listed, Folders
    <3> QED
      BY <3>1, FS_CardinalityType DEF RunsIInv
  <2>2. /\ \A d \in Acquirer : d \in Listed <=>
             folder[d].state # "absent" /\ ~acquirer[d].late /\ "unlisted" \notin mishaps[d]
        /\ \A d \in Acquirer : d \in Listed' <=>
             folder'[d].state # "absent" /\ ~acquirer'[d].late /\ "unlisted" \notin mishaps'[d]
        /\ Listed \subseteq Acquirer /\ Listed' \subseteq Acquirer
        /\ \A d \in Acquirer : "unlisted" \in mishaps[d] => "unlisted" \in mishaps'[d]
    <3>1. \A d \in Acquirer : There(d) <=> folder[d].state # "absent"
      BY FoldersTyped DEF RunsIInv
    <3>2. \A d \in Acquirer : There(d)' <=> folder'[d].state # "absent"
      BY DEF RunsTyped, There, NoFolder
    <3> QED
      BY <3>1, <3>2 DEF Listed, Folders, Onward
  <2>3. \A d \in Acquirer \ {a} : d \in Listed' => d \in Listed
    BY <2>2 DEF Swept
  <2>4. a \in Listed' => a \in Listed
                         \/ (acquirer[a].at = "making" /\ acquirer'[a].at # "making" /\ "unlisted" \notin mishaps[a])
    <3>1. b # a => folder'[a] = folder[a]
      OBVIOUS
    <3> QED
      BY <2>2, <3>1
  <2>5. CASE a \notin Listed' \/ a \in Listed
    <3>1. Listed' \subseteq Listed
      BY <2>2, <2>3, <2>5
    <3>2. IsFiniteSet(Listed') /\ Cardinality(Listed') <= Cardinality(Listed) /\ Cardinality(Listed') \in Nat
      BY <2>1, <3>1, FS_Subset, FS_CardinalityType
    <3>3. \A d \in Acquirer : acquirer'[d].at = "making" /\ "unlisted" \notin mishaps'[d] => Cardinality(Listed) < MaxRuns
      BY <2>1, <2>2 DEF Capped, AtRun
    <3> QED
      BY <2>1, <3>2, <3>3 DEF Capped, AtRun
  <2>6. CASE a \in Listed' /\ a \notin Listed
    <3>1. acquirer[a].at = "making" /\ acquirer'[a].at # "making" /\ Cardinality(Listed) < MaxRuns
      BY <2>1, <2>4, <2>6 DEF Capped, AtRun
    <3>2. Listed' \subseteq Listed \cup {a}
      BY <2>2, <2>3
    <3>3. IsFiniteSet(Listed \cup {a}) /\ Cardinality(Listed \cup {a}) = Cardinality(Listed) + 1
      BY <2>1, <2>6, FS_AddElement
    <3>4. IsFiniteSet(Listed') /\ Cardinality(Listed') <= Cardinality(Listed) + 1 /\ Cardinality(Listed') \in Nat
      BY <3>2, <3>3, FS_Subset, FS_CardinalityType
    <3>5. \A d \in Acquirer : acquirer'[d].at # "making"
      <4>1. \A d \in Acquirer \ {a} : acquirer[d].at # "making"
        BY <3>1 DEF RunsIInv, Registered
      <4> QED
        BY <3>1, <4>1
    <3> QED
      BY <2>1, <3>1, <3>4, <3>5 DEF Capped, AtRun
  <2> QED
    BY <2>5, <2>6
<1> QED
  BY <1>2, <1>3, <1>4, <1>5 DEF RunsIInv

\* A step that changes the acquisition's own row alone.
LEMMA OwnStep ==
  ASSUME RunsIInv, NEW a \in Acquirer, NEW r \in AcquirerRecord, acquirer' = [acquirer EXCEPT ![a] = r],
         UNCHANGED <<folder, registry, today>>, Onward(a, a),
         r.at \notin {"listing", "making", "marking"}, acquirer[a].late => r.late,
         Settled(r, folder[a].state, Expired(a), Leaked(a)', Unharmed(a)'),
         Doomed(a) => Doom(r, folder[a].state, Expired(a)),
         r.at \in {"emptying", "sweeping"} => r.saw \in Acquirer /\ Doomed(r.saw)
  PROVE  RunsIInv'
<1>1. /\ acquirer' \in [Acquirer -> AcquirerRecord] /\ acquirer'[a] = r
      /\ \A d \in Acquirer \ {a} : acquirer'[d] = acquirer[d]
  BY DEF RunsIInv, RunsTyped
<1>2. RunsTyped'
  BY <1>1 DEF RunsIInv, RunsTyped, Onward
<1>3. Expired(a)' = Expired(a) /\ folder'[a].state = folder[a].state
  BY DEF Expired
<1>4. Sound(a)'
  BY <1>1, <1>3 DEF Sound
<1>5. Doomed(a) => Doomed(a)'
  BY <1>1, <1>3 DEF Doomed
<1> QED
  BY <1>1, <1>2, <1>4, <1>5, StepKeeps

\* The rows of an acquisition that goes where publishing, failing or leaving takes it.
LEMMA Rows ==
  ASSUME NEW q \in AcquirerRecord
  PROVE  /\ Broken(q) \in AcquirerRecord /\ Broken(q).at = "returned" /\ Broken(q).quota = q.quota
            /\ Broken(q).fetched = q.fetched /\ Broken(q).late = q.late /\ Broken(q).target = q.target
            /\ Broken(q).result = "failed"
         /\ AfterPublish(q).result = q.result /\ Thrown(q).result = (IF q.target = "live" THEN "failed" ELSE q.result)
         /\ q.target = "live" =>
              /\ AfterPublish(q).at = "fetching" /\ AfterPublish(q).target = "release_pending"
              /\ Thrown(q).at = "publishing" /\ Thrown(q).target = "release_pending"
         /\ q.target = "release_pending" =>
              /\ AfterPublish(q).at = "publishing" /\ AfterPublish(q).target = "acknowledged"
              /\ Thrown(q).at = "cleaning"
         /\ q.target = "acknowledged" => AfterPublish(q).at = "cleaning" /\ Thrown(q).at = "cleaning"
         /\ AfterPublish(q) \in AcquirerRecord /\ Thrown(q) \in AcquirerRecord
         /\ AfterPublish(q).quota = q.quota /\ AfterPublish(q).fetched = q.fetched /\ AfterPublish(q).late = q.late
         /\ Thrown(q).quota = q.quota /\ Thrown(q).fetched = q.fetched /\ Thrown(q).late = q.late
<1>1. q.target \in {"live", "release_pending", "acknowledged"}
  BY DEF AcquirerRecord, Target
<1>2. {"returned", "fetching", "publishing", "cleaning"} \subseteq Stage
      /\ {"release_pending", "acknowledged"} \subseteq Target
  BY DEF Stage, Working, Finishing, Target
<1>3. /\ Broken(q) \in AcquirerRecord /\ Broken(q).at = "returned" /\ Broken(q).quota = q.quota
      /\ Broken(q).fetched = q.fetched /\ Broken(q).late = q.late /\ Broken(q).target = q.target
      /\ Broken(q).result = "failed"
  BY <1>2 DEF Broken, AcquirerRecord
<1>4. CASE q.target = "live"
  <2>1. /\ AfterPublish(q) = [q EXCEPT !.at = "fetching", !.target = "release_pending"]
        /\ Thrown(q) = [q EXCEPT !.at = "publishing", !.target = "release_pending", !.result = "failed"]
    BY <1>4 DEF AfterPublish, Thrown
  <2> QED
    BY <1>2, <1>3, <1>4, <2>1 DEF AcquirerRecord
<1>5. CASE q.target = "release_pending"
  <2>1. /\ AfterPublish(q) = [q EXCEPT !.at = "publishing", !.target = "acknowledged"]
        /\ Thrown(q) = [q EXCEPT !.at = "cleaning"]
    BY <1>5 DEF AfterPublish, Thrown
  <2> QED
    BY <1>2, <1>3, <1>5, <2>1 DEF AcquirerRecord
<1>6. CASE q.target = "acknowledged"
  <2>1. AfterPublish(q) = [q EXCEPT !.at = "cleaning"] /\ Thrown(q) = [q EXCEPT !.at = "cleaning"]
    BY <1>6 DEF AfterPublish, Thrown
  <2> QED
    BY <1>2, <1>3, <1>6, <2>1 DEF AcquirerRecord
<1> QED
  BY <1>1, <1>4, <1>5, <1>6

LEMMA Departures ==
  ASSUME NEW q \in AcquirerRecord, NEW result \in {"limit", "ok", "invalid", "failed"}
  PROVE  /\ Leaving(q, result) \in AcquirerRecord /\ Leaving(q, result).at = "publishing"
         /\ Leaving(q, result).target = "release_pending" /\ Leaving(q, result).quota = q.quota
         /\ Leaving(q, result).fetched = q.fetched /\ Leaving(q, result).late = q.late
         /\ Leaving(q, result).result = result
<1>1. "publishing" \in Stage /\ "release_pending" \in Target
  BY DEF Stage, Target
<1> QED
  BY <1>1 DEF Leaving, AcquirerRecord

LEMMA DepartsRow ==
  ASSUME NEW q \in AcquirerRecord
  PROVE  /\ Departs(q) \in AcquirerRecord /\ Departs(q).at = "returned"
         /\ Departs(q).quota = Less(q.quota, q.fetched) /\ Departs(q).fetched = 0 /\ Departs(q).late = q.late
         /\ Departs(q).result = q.result
<1>1. "returned" \in Stage
  BY DEF Stage, Finishing
<1>2. q.quota \in 0..QuotaUnits /\ q.fetched \in {0, FetchUnits}
  BY DEF AcquirerRecord
<1>3. Less(q.quota, q.fetched) \in 0..QuotaUnits
  BY <1>2 DEF Less
<1> HIDE DEF Less
<1> DEFINE rest == Less(q.quota, q.fetched)
<1>4. Departs(q) = [q EXCEPT !.at = "returned", !.quota = rest, !.fetched = 0] /\ rest \in 0..QuotaUnits
  BY <1>3 DEF Departs
<1> HIDE DEF rest
<1>5. /\ Departs(q) \in AcquirerRecord /\ Departs(q).at = "returned" /\ Departs(q).quota = rest
      /\ Departs(q).fetched = 0 /\ Departs(q).late = q.late /\ Departs(q).result = q.result
  BY <1>1, <1>4 DEF AcquirerRecord
<1> QED
  BY <1>5 DEF rest

LEMMA RunsIInvImplies == RunsIInv => RunsInv
<1> SUFFICES ASSUME RunsIInv PROVE RunsInv
  OBVIOUS
<1>1. RunsTypeOK
  <2>1. ASSUME NEW a \in Acquirer
        PROVE  /\ folder[a].state \in {"absent", Unread} \cup {Lifecycle[i] : i \in 1..4}
               /\ acquirer[a].quota \in 0..QuotaUnits /\ acquirer[a].fetched \in {0, FetchUnits}
               /\ acquirer[a].names \subseteq Acquirer /\ mishaps[a] \subseteq Mishap
    <3>1. /\ folder[a].state \in State \cup {"absent"}
          /\ acquirer[a].quota \in 0..QuotaUnits /\ acquirer[a].fetched \in {0, FetchUnits}
          /\ acquirer[a].names \subseteq Acquirer /\ mishaps[a] \subseteq Mishap
      BY FoldersTyped DEF RunsIInv, RunsTyped
    <3>2. {1, 2, 3, 4} \subseteq 1..4
      OBVIOUS
    <3>3. Lifecycle[1] = "reserving" /\ Lifecycle[2] = "live" /\ Lifecycle[3] = "release_pending"
          /\ Lifecycle[4] = "acknowledged"
      BY DEF Lifecycle
    <3>4. {"reserving", "live", "release_pending", "acknowledged"} \subseteq {Lifecycle[i] : i \in 1..4}
      BY <3>2, <3>3
    <3> QED
      BY <3>1, <3>4 DEF State, Target
  <2> QED
    BY <2>1 DEF RunsTypeOK, RunsIInv, RunsTyped
<1>2. RunsAreCapped
  BY DEF RunsAreCapped, RunsIInv, Capped, Listed
<1>3. LiveRunsKeepTheirFolder
  <2> SUFFICES ASSUME NEW a \in Acquirer, Works(a), ~acquirer[a].late PROVE Marker(a) = "live"
    BY DEF LiveRunsKeepTheirFolder
  <2>1. folder[a].state = "live"
    BY DEF RunsIInv, Sound, Settled, Folded, Works, Working
  <2> QED
    BY <2>1, FoldersTyped DEF RunsIInv, Marker
<1>4. ASSUME NEW a \in Acquirer
      PROVE  /\ acquirer[a].at \in Stage /\ acquirer[a].target \in Target /\ (There(a) <=> folder[a].state # "absent")
             /\ acquirer[a].quota \in Nat /\ acquirer[a].fetched \in {0, FetchUnits}
             /\ Leaked(a) \in Nat /\ Reserved(acquirer[a], Leaked(a))
             /\ Folded(acquirer[a], folder[a].state, Expired(a))
             /\ StillReserved(acquirer[a], folder[a].state, Leaked(a))
             /\ Unharmed(a) => Orderly(acquirer[a], folder[a].state, Leaked(a))
  BY FoldersTyped, LeakedUnits DEF RunsIInv, Sound, Settled
<1>5. DiskIsReserved
  <2> SUFFICES ASSUME NEW a \in Acquirer, There(a), ~AtRun(a, "dead")
               PROVE  acquirer[a].quota >= RunUnits + (IF acquirer[a].fetched > 0 /\ folder[a].bare THEN FetchUnits ELSE 0)
    BY DEF DiskIsReserved
  <2> DEFINE quota == acquirer[a].quota
             fetched == acquirer[a].fetched
             leaked == Leaked(a)
  <2>1. (fetched = 0 /\ quota >= RunUnits) \/ quota >= RunUnits + FetchUnits
    <3>1. acquirer[a].at \notin {"idle", "listing", "dead"} /\ leaked \in Nat /\ quota \in Nat /\ fetched \in {0, FetchUnits}
      BY <1>4 DEF Folded, AtRun
    <3>2. CASE acquirer[a].at \in {"making", "marking"} \cup Working
      <4>1. \/ quota = RunUnits /\ fetched = 0
            \/ quota = RunUnits + FetchUnits
        BY <1>4, <3>2 DEF Reserved, Working
      <4> HIDE DEF quota, fetched, leaked
      <4> QED
        BY <3>1, <4>1
    <3>3. CASE acquirer[a].at \in {"publishing", "renaming", "cleaning", "unlinking", "removing"}
      <4>1. (quota = RunUnits /\ fetched = 0) \/ quota = RunUnits + fetched + leaked
        BY <1>4, <3>3 DEF Reserved
      <4> HIDE DEF quota, fetched, leaked
      <4> QED
        BY <3>1, <4>1
    <3>4. CASE acquirer[a].at \in Recovering \cup {"returned"}
      <4>1. quota = RunUnits + fetched + leaked
        BY <1>4, <3>4 DEF StillReserved
      <4> HIDE DEF quota, fetched, leaked
      <4> QED
        BY <3>1, <4>1
    <3> QED
      BY <1>4, <3>1, <3>2, <3>3, <3>4 DEF Stage, Setting, Finishing
  <2>2. quota \in Nat
    BY <1>4
  <2> QED
    BY <2>1, <2>2
<1>6. EverythingIsGivenBack
  <2> SUFFICES ASSUME NEW a \in Acquirer, AtRun(a, "returned")
               PROVE  /\ Unharmed(a) => ~There(a) /\ acquirer[a].quota = Leaked(a)
                      /\ acquirer[a].quota \in {Leaked(a), RunUnits + Leaked(a)}
    BY DEF EverythingIsGivenBack
  <2>1. acquirer[a].at = "returned"
    BY DEF AtRun
  <2>2. acquirer[a].quota = Leaked(a) \/ acquirer[a].quota = RunUnits + Leaked(a)
    BY <1>4, <2>1 DEF Reserved
  <2>3. Unharmed(a) => folder[a].state = "absent" /\ acquirer[a].quota = Leaked(a)
    BY <1>4, <2>1 DEF Orderly
  <2> QED
    BY <1>4, <2>2, <2>3
<1> QED
  BY <1>1, <1>2, <1>3, <1>5, <1>6 DEF RunsInv

LEMMA Ranks ==
  /\ Rank(Unread) = 0 /\ Rank("reserving") = 1 /\ Rank("live") = 2
  /\ Rank("release_pending") = 3 /\ Rank("acknowledged") = 4
<1>1. Lifecycle[1] = "reserving" /\ Lifecycle[2] = "live" /\ Lifecycle[3] = "release_pending"
      /\ Lifecycle[4] = "acknowledged"
  BY DEF Lifecycle
<1>2. 1..4 = {1, 2, 3, 4}
  OBVIOUS
<1>3. ASSUME NEW k \in {1, 2, 3, 4} PROVE Rank(Lifecycle[k]) = k
  <2>1. \A i \in {1, 2, 3, 4} : Lifecycle[k] = Lifecycle[i] <=> i = k
    BY <1>1
  <2>2. (CHOOSE i \in {1, 2, 3, 4} : Lifecycle[k] = Lifecycle[i]) = k
    BY <2>1
  <2>3. Lifecycle[k] # Unread
    BY <1>1 DEF Unread
  <2> QED
    BY <1>2, <2>2, <2>3 DEF Rank
<1> QED
  BY <1>1, <1>3 DEF Rank

\* What holds of an acquisition and its folder before it moves.
Stands(a) ==
  /\ RunsTyped /\ acquirer[a] \in AcquirerRecord /\ acquirer \in [Acquirer -> AcquirerRecord]
  /\ folder[a] \in FolderRecord /\ folder[a].state \in State \cup {"absent"}
  /\ There(a) <=> folder[a].state # "absent"
  /\ acquirer[a].quota \in Nat /\ acquirer[a].quota \in 0..QuotaUnits
  /\ acquirer[a].fetched \in {0, FetchUnits} /\ acquirer[a].late \in BOOLEAN
  /\ acquirer[a].target \in Target /\ acquirer[a].names \in SUBSET Acquirer
  /\ Leaked(a) \in {0, FetchUnits}
  /\ Reserved(acquirer[a], Leaked(a)) /\ Folded(acquirer[a], folder[a].state, Expired(a))
  /\ StillReserved(acquirer[a], folder[a].state, Leaked(a))
  /\ Unharmed(a) => Orderly(acquirer[a], folder[a].state, Leaked(a))

LEMMA Standing == ASSUME RunsIInv, NEW a \in Acquirer PROVE Stands(a)
<1>1. Sound(a) /\ RunsTyped
  BY DEF RunsIInv
<1> QED
  BY <1>1, FoldersTyped, LeakedUnits DEF Sound, Settled, RunsTyped, Stands

-----------------------------------------------------------------------------
(* What an acquisition does to its own row alone                           *)

\* What an acquisition does to itself alone is typed when its new row is.
LEMMA RowChanges ==
  ASSUME RunsTyped, NEW a \in Acquirer, NEW r \in AcquirerRecord, acquirer' = [acquirer EXCEPT ![a] = r]
  PROVE  /\ acquirer' \in [Acquirer -> AcquirerRecord] /\ acquirer'[a] = r
         /\ \A d \in Acquirer \ {a} : acquirer'[d] = acquirer[d]
BY DEF RunsTyped

LEMMA FolderChanges ==
  ASSUME RunsTyped, NEW b \in Acquirer, NEW f \in FolderRecord, folder' = [folder EXCEPT ![b] = f],
         f.state = "absent" => f = NoFolder
  PROVE  /\ folder' \in [Acquirer -> FolderRecord] /\ folder'[b] = f
         /\ \A d \in Acquirer \ {b} : folder'[d] = folder[d]
         /\ \A d \in Acquirer : folder'[d].state = "absent" => folder'[d] = NoFolder
BY DEF RunsTyped

LEMMA EnterFailsKeeps == ASSUME RunsIInv, NEW a \in Acquirer, EnterFails(a) PROVE RunsIInv'
<1>1. acquirer[a].at = "idle" /\ UNCHANGED <<folder, registry, today, mishaps>>
  BY DEF EnterFails, AtRun
<1>2. Stands(a)
  BY Standing
<1> DEFINE r == Broken(acquirer[a])
<1>3. acquirer' = [acquirer EXCEPT ![a] = r]
  BY <1>1, <1>2 DEF Stands, EnterFails, Proceeds, LeavesWith
<1>4. /\ r \in AcquirerRecord
      /\ r.at = "returned" /\ r.quota = acquirer[a].quota /\ r.fetched = acquirer[a].fetched /\ r.late = acquirer[a].late /\ r.target = acquirer[a].target
  BY <1>2, Rows DEF Stands
<1> HIDE DEF r
<1>5. Onward(a, a) /\ Leaked(a)' = Leaked(a) /\ (Unharmed(a)' => Unharmed(a))
  BY <1>1, <1>2, MishapsStay DEF Stands
<1>6. Reserved(r, Leaked(a)')
  BY <1>1, <1>2, <1>4, <1>5 DEF Stands, Reserved, Recovering, Setting, Working, Less
<1>7. Folded(r, folder[a].state, Expired(a))
  BY <1>1, <1>2, <1>4 DEF Stands, Folded, Recovering, Setting, Working
<1>8. StillReserved(r, folder[a].state, Leaked(a)')
  BY <1>1, <1>2, <1>4, <1>5 DEF Stands, Reserved, Folded, StillReserved, Recovering, Setting, Working, Less
<1>9. Unharmed(a)' => Orderly(r, folder[a].state, Leaked(a)')
  BY <1>1, <1>2, <1>4, <1>5 DEF Stands, Orderly, Folded, Reserved, Recovering, Working, Setting, Less
<1>10. Doomed(a) => Doom(r, folder[a].state, Expired(a))
  BY <1>1, <1>2, <1>4 DEF Stands, Doomed, Doom, Finishing, Recovering
<1>11. r.at \notin {"listing", "making", "marking"} /\ (acquirer[a].late => r.late)
       /\ r.at \notin {"emptying", "sweeping"}
  BY <1>1, <1>2, <1>4
<1> QED
  BY <1>1, <1>3, <1>4, <1>5, <1>6, <1>7, <1>8, <1>9, <1>10, <1>11, OwnStep DEF Settled

-----------------------------------------------------------------------------
(* Working in the folder                                                   *)

LEMMA BareFailsKeeps == ASSUME RunsIInv, NEW a \in Acquirer, BareFails(a) PROVE RunsIInv'
<1>1. acquirer[a].at = "fetching" /\ UNCHANGED <<folder, registry, today>>
  BY DEF BareFails, AtRun
<1>2. Stands(a)
  BY Standing
<1> DEFINE r == [Leaving(acquirer[a], "failed") EXCEPT !.quota = acquirer[a].quota + FetchUnits]
<1>3. acquirer' = [acquirer EXCEPT ![a] = r]
  BY <1>1, <1>2 DEF Stands, BareFails, Proceeds, LeavesWith
<1>4. /\ r \in AcquirerRecord
      /\ r.at = "publishing" /\ r.target = "release_pending" /\ r.quota = acquirer[a].quota + FetchUnits
      /\ r.fetched = acquirer[a].fetched /\ r.late = acquirer[a].late
  <2>1. acquirer[a].quota + FetchUnits \in 0..QuotaUnits
    BY <1>2 DEF Stands, BareFails
  <2>2. /\ Leaving(acquirer[a], "failed") \in AcquirerRecord /\ Leaving(acquirer[a], "failed").at = "publishing"
        /\ Leaving(acquirer[a], "failed").target = "release_pending"
        /\ Leaving(acquirer[a], "failed").quota = acquirer[a].quota
        /\ Leaving(acquirer[a], "failed").fetched = acquirer[a].fetched
        /\ Leaving(acquirer[a], "failed").late = acquirer[a].late
    BY <1>2, Departures DEF Stands
  <2> QED
    BY <2>1, <2>2 DEF AcquirerRecord
<1> HIDE DEF r
<1>5. Onward(a, a) /\ Leaked(a)' = FetchUnits /\ (Unharmed(a)' => Unharmed(a))
  BY <1>1, <1>2, OneSuffers DEF Stands, BareFails, Mishap
<1>6. Reserved(r, Leaked(a)')
  BY <1>1, <1>2, <1>4, <1>5 DEF Stands, Reserved, Recovering, Setting, Working, Less
<1>7. Folded(r, folder[a].state, Expired(a))
  BY <1>1, <1>2, <1>4 DEF Stands, Folded, Recovering, Setting, Working
<1>8. StillReserved(r, folder[a].state, Leaked(a)')
  BY <1>1, <1>2, <1>4, <1>5 DEF Stands, Reserved, Folded, StillReserved, Recovering, Setting, Working, Less
<1>9. Unharmed(a)' => Orderly(r, folder[a].state, Leaked(a)')
  BY <1>1, <1>2, <1>4, <1>5 DEF Stands, Orderly, Folded, Reserved, Recovering, Working, Setting, Less
<1>10. Doomed(a) => Doom(r, folder[a].state, Expired(a))
  BY <1>1, <1>2, <1>4 DEF Stands, Doomed, Doom, Finishing, Recovering
<1>11. r.at \notin {"listing", "making", "marking"} /\ (acquirer[a].late => r.late)
       /\ r.at \notin {"emptying", "sweeping"}
  BY <1>1, <1>2, <1>4
<1> QED
  BY <1>1, <1>3, <1>4, <1>5, <1>6, <1>7, <1>8, <1>9, <1>10, <1>11, OwnStep DEF Settled

LEMMA FetchFailsKeeps == ASSUME RunsIInv, NEW a \in Acquirer, FetchFails(a) PROVE RunsIInv'
<1>1. acquirer[a].at = "verifying" /\ UNCHANGED <<folder, registry, today, mishaps>>
  BY DEF FetchFails, AtRun
<1>2. Stands(a)
  BY Standing
<1>12. PICK result \in {"limit", "invalid"} :
         acquirer' = [acquirer EXCEPT ![a] = [Leaving(@, result) EXCEPT !.quota = acquirer[a].quota - FetchUnits]]
  BY DEF FetchFails
<1> DEFINE r == [Leaving(acquirer[a], result) EXCEPT !.quota = acquirer[a].quota - FetchUnits]
<1>3. acquirer' = [acquirer EXCEPT ![a] = r]
  BY <1>1, <1>2, <1>12 DEF Stands, FetchFails, Proceeds, LeavesWith
<1>4. /\ r \in AcquirerRecord
      /\ r.at = "publishing" /\ r.target = "release_pending" /\ r.quota = acquirer[a].quota - FetchUnits
      /\ r.fetched = acquirer[a].fetched /\ r.late = acquirer[a].late
  <2>1. acquirer[a].quota - FetchUnits \in 0..QuotaUnits
    BY <1>1, <1>2 DEF Stands, Reserved
  <2>2. /\ Leaving(acquirer[a], result) \in AcquirerRecord /\ Leaving(acquirer[a], result).at = "publishing"
        /\ Leaving(acquirer[a], result).target = "release_pending"
        /\ Leaving(acquirer[a], result).quota = acquirer[a].quota
        /\ Leaving(acquirer[a], result).fetched = acquirer[a].fetched
        /\ Leaving(acquirer[a], result).late = acquirer[a].late
    BY <1>2, Departures DEF Stands
  <2> QED
    BY <2>1, <2>2 DEF AcquirerRecord
<1> HIDE DEF r
<1>5. Onward(a, a) /\ Leaked(a)' = Leaked(a) /\ (Unharmed(a)' => Unharmed(a))
  BY <1>1, <1>2, MishapsStay DEF Stands
<1>6. Reserved(r, Leaked(a)')
  BY <1>1, <1>2, <1>4, <1>5 DEF Stands, Reserved, Recovering, Setting, Working, Less
<1>7. Folded(r, folder[a].state, Expired(a))
  BY <1>1, <1>2, <1>4 DEF Stands, Folded, Recovering, Setting, Working
<1>8. StillReserved(r, folder[a].state, Leaked(a)')
  BY <1>1, <1>2, <1>4, <1>5 DEF Stands, Reserved, Folded, StillReserved, Recovering, Setting, Working, Less
<1>9. Unharmed(a)' => Orderly(r, folder[a].state, Leaked(a)')
  BY <1>1, <1>2, <1>4, <1>5 DEF Stands, Orderly, Folded, Reserved, Recovering, Working, Setting, Less
<1>10. Doomed(a) => Doom(r, folder[a].state, Expired(a))
  BY <1>1, <1>2, <1>4 DEF Stands, Doomed, Doom, Finishing, Recovering
<1>11. r.at \notin {"listing", "making", "marking"} /\ (acquirer[a].late => r.late)
       /\ r.at \notin {"emptying", "sweeping"}
  BY <1>1, <1>2, <1>4
<1> QED
  BY <1>1, <1>3, <1>4, <1>5, <1>6, <1>7, <1>8, <1>9, <1>10, <1>11, OwnStep DEF Settled

LEMMA FetchVerifiesKeeps == ASSUME RunsIInv, NEW a \in Acquirer, FetchVerifies(a) PROVE RunsIInv'
<1>1. acquirer[a].at = "verifying" /\ UNCHANGED <<folder, registry, today, mishaps>>
  BY DEF FetchVerifies, AtRun
<1>2. Stands(a)
  BY Standing
<1> DEFINE r == [acquirer[a] EXCEPT !.at = "selecting", !.fetched = FetchUnits]
<1>3. acquirer' = [acquirer EXCEPT ![a] = r]
  BY <1>1, <1>2 DEF Stands, FetchVerifies, Proceeds, LeavesWith
<1>4. /\ r \in AcquirerRecord
      /\ r.at = "selecting" /\ r.fetched = FetchUnits /\ r.quota = acquirer[a].quota /\ r.late = acquirer[a].late /\ r.target = acquirer[a].target
  <2>1. "selecting" \in Stage
    BY <1>2 DEF Stands, Stage, Setting, Working, Finishing, Recovering, Target
  <2> QED
    BY <1>2, <2>1 DEF Stands, AcquirerRecord
<1> HIDE DEF r
<1>5. Onward(a, a) /\ Leaked(a)' = Leaked(a) /\ (Unharmed(a)' => Unharmed(a))
  BY <1>1, <1>2, MishapsStay DEF Stands
<1>6. Reserved(r, Leaked(a)')
  BY <1>1, <1>2, <1>4, <1>5 DEF Stands, Reserved, Recovering, Setting, Working, Less
<1>7. Folded(r, folder[a].state, Expired(a))
  BY <1>1, <1>2, <1>4 DEF Stands, Folded, Recovering, Setting, Working
<1>8. StillReserved(r, folder[a].state, Leaked(a)')
  BY <1>1, <1>2, <1>4, <1>5 DEF Stands, Reserved, Folded, StillReserved, Recovering, Setting, Working, Less
<1>9. Unharmed(a)' => Orderly(r, folder[a].state, Leaked(a)')
  BY <1>1, <1>2, <1>4, <1>5 DEF Stands, Orderly, Folded, Reserved, Recovering, Working, Setting, Less
<1>10. Doomed(a) => Doom(r, folder[a].state, Expired(a))
  BY <1>1, <1>2, <1>4 DEF Stands, Doomed, Doom, Finishing, Recovering
<1>11. r.at \notin {"listing", "making", "marking"} /\ (acquirer[a].late => r.late)
       /\ r.at \notin {"emptying", "sweeping"}
  BY <1>1, <1>2, <1>4
<1> QED
  BY <1>1, <1>3, <1>4, <1>5, <1>6, <1>7, <1>8, <1>9, <1>10, <1>11, OwnStep DEF Settled

LEMMA SelectKeeps == ASSUME RunsIInv, NEW a \in Acquirer, Select(a) PROVE RunsIInv'
<1>1. acquirer[a].at = "selecting" /\ UNCHANGED <<folder, registry, today, mishaps>>
  BY DEF Select, AtRun
<1>2. Stands(a)
  BY Standing
<1>12. PICK result \in {"ok", "limit", "invalid"} : LeavesWith(a, result)
  BY DEF Select
<1> DEFINE r == Leaving(acquirer[a], result)
<1>3. acquirer' = [acquirer EXCEPT ![a] = r]
  BY <1>1, <1>2, <1>12 DEF Stands, Select, Proceeds, LeavesWith
<1>4. /\ r \in AcquirerRecord
      /\ r.at = "publishing" /\ r.target = "release_pending" /\ r.quota = acquirer[a].quota /\ r.fetched = acquirer[a].fetched /\ r.late = acquirer[a].late
  BY <1>2, Departures DEF Stands
<1> HIDE DEF r
<1>5. Onward(a, a) /\ Leaked(a)' = Leaked(a) /\ (Unharmed(a)' => Unharmed(a))
  BY <1>1, <1>2, MishapsStay DEF Stands
<1>6. Reserved(r, Leaked(a)')
  BY <1>1, <1>2, <1>4, <1>5 DEF Stands, Reserved, Recovering, Setting, Working, Less
<1>7. Folded(r, folder[a].state, Expired(a))
  BY <1>1, <1>2, <1>4 DEF Stands, Folded, Recovering, Setting, Working
<1>8. StillReserved(r, folder[a].state, Leaked(a)')
  BY <1>1, <1>2, <1>4, <1>5 DEF Stands, Reserved, Folded, StillReserved, Recovering, Setting, Working, Less
<1>9. Unharmed(a)' => Orderly(r, folder[a].state, Leaked(a)')
  BY <1>1, <1>2, <1>4, <1>5 DEF Stands, Orderly, Folded, Reserved, Recovering, Working, Setting, Less
<1>10. Doomed(a) => Doom(r, folder[a].state, Expired(a))
  BY <1>1, <1>2, <1>4 DEF Stands, Doomed, Doom, Finishing, Recovering
<1>11. r.at \notin {"listing", "making", "marking"} /\ (acquirer[a].late => r.late)
       /\ r.at \notin {"emptying", "sweeping"}
  BY <1>1, <1>2, <1>4
<1> QED
  BY <1>1, <1>3, <1>4, <1>5, <1>6, <1>7, <1>8, <1>9, <1>10, <1>11, OwnStep DEF Settled

-----------------------------------------------------------------------------
(* Giving everything back, and listing what others left                    *)

LEMMA CleanReadsKeeps == ASSUME RunsIInv, NEW a \in Acquirer, CleanReads(a) PROVE RunsIInv'
<1>1. acquirer[a].at = "cleaning" /\ UNCHANGED <<folder, registry, today, mishaps>>
  BY DEF CleanReads, AtRun
<1>2. Stands(a)
  BY Standing
<1> DEFINE r == [acquirer[a] EXCEPT !.at = IF Marker(a) = "acknowledged" THEN "unlinking" ELSE "naming"]
<1>3. acquirer' = [acquirer EXCEPT ![a] = r]
  BY <1>1, <1>2 DEF Stands, CleanReads, Proceeds, LeavesWith
<1>4. /\ r \in AcquirerRecord
      /\ ((folder[a].state = "acknowledged" /\ r.at = "unlinking") \/ (folder[a].state # "acknowledged" /\ r.at = "naming"))
      /\ r.quota = acquirer[a].quota /\ r.fetched = acquirer[a].fetched /\ r.late = acquirer[a].late /\ r.target = acquirer[a].target
  <2>1. "unlinking" \in Stage /\ "naming" \in Stage /\ (Marker(a) = "acknowledged" <=> folder[a].state = "acknowledged")
    BY <1>2 DEF Stands, Stage, Finishing, Recovering, Marker, Unread
  <2> QED
    BY <1>2, <2>1 DEF Stands, AcquirerRecord
<1> HIDE DEF r
<1>5. Onward(a, a) /\ Leaked(a)' = Leaked(a) /\ (Unharmed(a)' => Unharmed(a))
  BY <1>1, <1>2, MishapsStay DEF Stands
<1>6. Reserved(r, Leaked(a)')
  BY <1>1, <1>2, <1>4, <1>5 DEF Stands, Reserved, Recovering, Setting, Working, Less
<1>7. Folded(r, folder[a].state, Expired(a))
  BY <1>1, <1>2, <1>4 DEF Stands, Folded, Recovering, Setting, Working
<1>8. StillReserved(r, folder[a].state, Leaked(a)')
  BY <1>1, <1>2, <1>4, <1>5 DEF Stands, Reserved, Folded, StillReserved, Recovering, Setting, Working, Less
<1>9. Unharmed(a)' => Orderly(r, folder[a].state, Leaked(a)')
  BY <1>1, <1>2, <1>4, <1>5 DEF Stands, Orderly, Folded, Reserved, Recovering, Working, Setting, Less
<1>10. Doomed(a) => Doom(r, folder[a].state, Expired(a))
  BY <1>1, <1>2, <1>4 DEF Stands, Doomed, Doom, Finishing, Recovering
<1>11. r.at \notin {"listing", "making", "marking"} /\ (acquirer[a].late => r.late)
       /\ r.at \notin {"emptying", "sweeping"}
  BY <1>1, <1>2, <1>4
<1> QED
  BY <1>1, <1>3, <1>4, <1>5, <1>6, <1>7, <1>8, <1>9, <1>10, <1>11, OwnStep DEF Settled

LEMMA CleanUnreadKeeps == ASSUME RunsIInv, NEW a \in Acquirer, CleanUnread(a) PROVE RunsIInv'
<1>1. acquirer[a].at = "cleaning" /\ UNCHANGED <<folder, registry, today>>
  BY DEF CleanUnread, AtRun
<1>2. Stands(a)
  BY Standing
<1> DEFINE r == [acquirer[a] EXCEPT !.at = "naming"]
<1>3. acquirer' = [acquirer EXCEPT ![a] = r]
  BY <1>1, <1>2 DEF Stands, CleanUnread, Proceeds, LeavesWith
<1>4. /\ r \in AcquirerRecord
      /\ r.at = "naming" /\ r.quota = acquirer[a].quota /\ r.fetched = acquirer[a].fetched /\ r.late = acquirer[a].late /\ r.target = acquirer[a].target
  <2>1. "naming" \in Stage
    BY <1>2 DEF Stands, Stage, Setting, Working, Finishing, Recovering, Target
  <2> QED
    BY <1>2, <2>1 DEF Stands, AcquirerRecord
<1> HIDE DEF r
<1>5. Onward(a, a) /\ Leaked(a)' = Leaked(a) /\ (Unharmed(a)' => FALSE)
  BY <1>1, <1>2, OneSuffers DEF Stands, CleanUnread, Mishap
<1>6. Reserved(r, Leaked(a)')
  BY <1>1, <1>2, <1>4, <1>5 DEF Stands, Reserved, Recovering, Setting, Working, Less
<1>7. Folded(r, folder[a].state, Expired(a))
  BY <1>1, <1>2, <1>4 DEF Stands, Folded, Recovering, Setting, Working
<1>8. StillReserved(r, folder[a].state, Leaked(a)')
  BY <1>1, <1>2, <1>4, <1>5 DEF Stands, Reserved, Folded, StillReserved, Recovering, Setting, Working, Less
<1>9. Unharmed(a)' => Orderly(r, folder[a].state, Leaked(a)')
  BY <1>1, <1>2, <1>4, <1>5 DEF Stands, Orderly, Folded, Reserved, Recovering, Working, Setting, Less
<1>10. Doomed(a) => Doom(r, folder[a].state, Expired(a))
  BY <1>1, <1>2, <1>4 DEF Stands, Doomed, Doom, Finishing, Recovering
<1>11. r.at \notin {"listing", "making", "marking"} /\ (acquirer[a].late => r.late)
       /\ r.at \notin {"emptying", "sweeping"}
  BY <1>1, <1>2, <1>4
<1> QED
  BY <1>1, <1>3, <1>4, <1>5, <1>6, <1>7, <1>8, <1>9, <1>10, <1>11, OwnStep DEF Settled

LEMMA CleanFailsKeeps == ASSUME RunsIInv, NEW a \in Acquirer, CleanFails(a) PROVE RunsIInv'
<1>1. acquirer[a].at \in {"unlinking", "removing"} /\ UNCHANGED <<folder, registry, today>>
  BY DEF CleanFails, AtRun
<1>2. Stands(a)
  BY Standing
<1> DEFINE r == Broken(Departs(acquirer[a]))
<1>3. acquirer' = [acquirer EXCEPT ![a] = r]
  BY <1>1, <1>2 DEF Stands, CleanFails, Proceeds, LeavesWith
<1>4. /\ r \in AcquirerRecord
      /\ r.at = "returned" /\ r.quota = Less(acquirer[a].quota, acquirer[a].fetched)
      /\ r.fetched = 0 /\ r.late = acquirer[a].late
  <2>1. /\ Departs(acquirer[a]) \in AcquirerRecord
        /\ Departs(acquirer[a]).quota = Less(acquirer[a].quota, acquirer[a].fetched)
        /\ Departs(acquirer[a]).fetched = 0 /\ Departs(acquirer[a]).late = acquirer[a].late
    BY <1>2, DepartsRow DEF Stands
  <2> DEFINE left == Departs(acquirer[a])
  <2> HIDE DEF left
  <2>2. left \in AcquirerRecord => Broken(left) \in AcquirerRecord /\ Broken(left).at = "returned"
        /\ Broken(left).quota = left.quota /\ Broken(left).fetched = left.fetched /\ Broken(left).late = left.late
    BY Rows
  <2> QED
    BY <2>1, <2>2 DEF left
<1> HIDE DEF r
<1>5. Onward(a, a) /\ Leaked(a)' = Leaked(a) /\ (Unharmed(a)' => FALSE)
  BY <1>1, <1>2, OneSuffers DEF Stands, CleanFails, Mishap
<1>6. Reserved(r, Leaked(a)')
  BY <1>1, <1>2, <1>4, <1>5 DEF Stands, Reserved, Recovering, Setting, Working, Less
<1>7. Folded(r, folder[a].state, Expired(a))
  BY <1>1, <1>2, <1>4 DEF Stands, Folded, Recovering, Setting, Working
<1>8. StillReserved(r, folder[a].state, Leaked(a)')
  BY <1>1, <1>2, <1>4, <1>5 DEF Stands, Reserved, Folded, StillReserved, Recovering, Setting, Working, Less
<1>9. Unharmed(a)' => Orderly(r, folder[a].state, Leaked(a)')
  BY <1>1, <1>2, <1>4, <1>5 DEF Stands, Orderly, Folded, Reserved, Recovering, Working, Setting, Less
<1>10. Doomed(a) => Doom(r, folder[a].state, Expired(a))
  BY <1>1, <1>2, <1>4 DEF Stands, Doomed, Doom, Finishing, Recovering
<1>11. r.at \notin {"listing", "making", "marking"} /\ (acquirer[a].late => r.late)
       /\ r.at \notin {"emptying", "sweeping"}
  BY <1>1, <1>2, <1>4
<1> QED
  BY <1>1, <1>3, <1>4, <1>5, <1>6, <1>7, <1>8, <1>9, <1>10, <1>11, OwnStep DEF Settled

LEMMA RecoverListsKeeps == ASSUME RunsIInv, NEW a \in Acquirer, RecoverLists(a) PROVE RunsIInv'
<1>1. acquirer[a].at = "naming" /\ UNCHANGED <<folder, registry, today, mishaps>>
  BY DEF RecoverLists, AtRun
<1>2. Stands(a)
  BY Standing
<1>12. PICK listed \in {Folders, {}} :
         acquirer' = [acquirer EXCEPT ![a].at = "recovering", ![a].names = listed]
  BY DEF RecoverLists
<1> DEFINE r == [acquirer[a] EXCEPT !.at = "recovering", !.names = listed]
<1>3. acquirer' = [acquirer EXCEPT ![a] = r]
  BY <1>1, <1>2, <1>12 DEF Stands, RecoverLists, Proceeds, LeavesWith
<1>4. /\ r \in AcquirerRecord
      /\ r.at = "recovering" /\ r.quota = acquirer[a].quota /\ r.fetched = acquirer[a].fetched /\ r.late = acquirer[a].late /\ r.target = acquirer[a].target
  <2>1. "recovering" \in Stage /\ listed \in SUBSET Acquirer
    BY <1>12 DEF Stage, Finishing, Recovering, Folders
  <2> QED
    BY <1>2, <2>1 DEF Stands, AcquirerRecord
<1> HIDE DEF r
<1>5. Onward(a, a) /\ Leaked(a)' = Leaked(a) /\ (Unharmed(a)' => Unharmed(a))
  BY <1>1, <1>2, MishapsStay DEF Stands
<1>6. Reserved(r, Leaked(a)')
  BY <1>1, <1>2, <1>4, <1>5 DEF Stands, Reserved, Recovering, Setting, Working, Less
<1>7. Folded(r, folder[a].state, Expired(a))
  BY <1>1, <1>2, <1>4 DEF Stands, Folded, Recovering, Setting, Working
<1>8. StillReserved(r, folder[a].state, Leaked(a)')
  BY <1>1, <1>2, <1>4, <1>5 DEF Stands, Reserved, Folded, StillReserved, Recovering, Setting, Working, Less
<1>9. Unharmed(a)' => Orderly(r, folder[a].state, Leaked(a)')
  BY <1>1, <1>2, <1>4, <1>5 DEF Stands, Orderly, Folded, Reserved, Recovering, Working, Setting, Less
<1>10. Doomed(a) => Doom(r, folder[a].state, Expired(a))
  BY <1>1, <1>2, <1>4 DEF Stands, Doomed, Doom, Finishing, Recovering
<1>11. r.at \notin {"listing", "making", "marking"} /\ (acquirer[a].late => r.late)
       /\ r.at \notin {"emptying", "sweeping"}
  BY <1>1, <1>2, <1>4
<1> QED
  BY <1>1, <1>3, <1>4, <1>5, <1>6, <1>7, <1>8, <1>9, <1>10, <1>11, OwnStep DEF Settled

LEMMA ReturnKeeps == ASSUME RunsIInv, NEW a \in Acquirer, Return(a) PROVE RunsIInv'
<1>1. acquirer[a].at = "recovering" /\ UNCHANGED <<folder, registry, today, mishaps>>
  BY DEF Return, AtRun
<1>2. Stands(a)
  BY Standing
<1> DEFINE r == Departs(acquirer[a])
<1>3. acquirer' = [acquirer EXCEPT ![a] = r]
  BY <1>1, <1>2 DEF Stands, Return, Proceeds, LeavesWith
<1>4. /\ r \in AcquirerRecord
      /\ r.at = "returned" /\ r.quota = Less(acquirer[a].quota, acquirer[a].fetched)
      /\ r.fetched = 0 /\ r.late = acquirer[a].late
  BY <1>2, DepartsRow DEF Stands
<1> HIDE DEF r
<1>5. Onward(a, a) /\ Leaked(a)' = Leaked(a) /\ (Unharmed(a)' => Unharmed(a))
  BY <1>1, <1>2, MishapsStay DEF Stands
<1>6. Reserved(r, Leaked(a)')
  BY <1>1, <1>2, <1>4, <1>5 DEF Stands, Reserved, Recovering, Setting, Working, Less
<1>7. Folded(r, folder[a].state, Expired(a))
  BY <1>1, <1>2, <1>4 DEF Stands, Folded, Recovering, Setting, Working
<1>8. StillReserved(r, folder[a].state, Leaked(a)')
  BY <1>1, <1>2, <1>4, <1>5 DEF Stands, Reserved, Folded, StillReserved, Recovering, Setting, Working, Less
<1>9. Unharmed(a)' => Orderly(r, folder[a].state, Leaked(a)')
  BY <1>1, <1>2, <1>4, <1>5 DEF Stands, Orderly, Folded, Reserved, Recovering, Working, Setting, Less
<1>10. Doomed(a) => Doom(r, folder[a].state, Expired(a))
  BY <1>1, <1>2, <1>4 DEF Stands, Doomed, Doom, Finishing, Recovering
<1>11. r.at \notin {"listing", "making", "marking"} /\ (acquirer[a].late => r.late)
       /\ r.at \notin {"emptying", "sweeping"}
  BY <1>1, <1>2, <1>4
<1> QED
  BY <1>1, <1>3, <1>4, <1>5, <1>6, <1>7, <1>8, <1>9, <1>10, <1>11, OwnStep DEF Settled

LEMMA RecoverFailsKeeps == ASSUME RunsIInv, NEW a \in Acquirer, RecoverFails(a) PROVE RunsIInv'
<1>1. acquirer[a].at \in {"emptying", "sweeping"} /\ UNCHANGED <<folder, registry, today, mishaps>>
  BY DEF RecoverFails, AtRun
<1>2. Stands(a)
  BY Standing
<1> DEFINE r == [Broken(Departs(acquirer[a])) EXCEPT !.names = {}, !.saw = Unread]
<1>3. acquirer' = [acquirer EXCEPT ![a] = r]
  BY <1>1, <1>2 DEF Stands, RecoverFails, Proceeds, LeavesWith
<1>4. /\ r \in AcquirerRecord
      /\ r.at = "returned" /\ r.quota = Less(acquirer[a].quota, acquirer[a].fetched)
      /\ r.fetched = 0 /\ r.late = acquirer[a].late
  <2>1. /\ Departs(acquirer[a]) \in AcquirerRecord
        /\ Departs(acquirer[a]).quota = Less(acquirer[a].quota, acquirer[a].fetched)
        /\ Departs(acquirer[a]).fetched = 0 /\ Departs(acquirer[a]).late = acquirer[a].late
    BY <1>2, DepartsRow DEF Stands
  <2> DEFINE left == Departs(acquirer[a])
  <2> HIDE DEF left
  <2>2. left \in AcquirerRecord => Broken(left) \in AcquirerRecord /\ Broken(left).at = "returned"
        /\ Broken(left).quota = left.quota /\ Broken(left).fetched = left.fetched /\ Broken(left).late = left.late
    BY Rows
  <2>3. left \in AcquirerRecord /\ r = [Broken(left) EXCEPT !.names = {}, !.saw = Unread] /\ Unread \in State
    BY <2>1 DEF left, State
  <2>4. /\ r \in AcquirerRecord /\ r.at = "returned" /\ r.quota = left.quota
        /\ r.fetched = left.fetched /\ r.late = left.late
    <3> DEFINE broken == Broken(left)
    <3>1. broken \in AcquirerRecord /\ r = [broken EXCEPT !.names = {}, !.saw = Unread]
      BY <2>2, <2>3
    <3> HIDE DEF broken, r
    <3>2. /\ r \in AcquirerRecord /\ r.at = broken.at /\ r.quota = broken.quota
          /\ r.fetched = broken.fetched /\ r.late = broken.late
      BY <2>3, <3>1 DEF AcquirerRecord
    <3> QED
      BY <2>2, <2>3, <3>2 DEF broken
  <2> QED
    BY <2>1, <2>4 DEF left
<1> HIDE DEF r
<1>5. Onward(a, a) /\ Leaked(a)' = Leaked(a) /\ (Unharmed(a)' => Unharmed(a))
  BY <1>1, <1>2, MishapsStay DEF Stands
<1>6. Reserved(r, Leaked(a)')
  BY <1>1, <1>2, <1>4, <1>5 DEF Stands, Reserved, Recovering, Setting, Working, Less
<1>7. Folded(r, folder[a].state, Expired(a))
  BY <1>1, <1>2, <1>4 DEF Stands, Folded, Recovering, Setting, Working
<1>8. StillReserved(r, folder[a].state, Leaked(a)')
  BY <1>1, <1>2, <1>4, <1>5 DEF Stands, Reserved, Folded, StillReserved, Recovering, Setting, Working, Less
<1>9. Unharmed(a)' => Orderly(r, folder[a].state, Leaked(a)')
  BY <1>1, <1>2, <1>4, <1>5 DEF Stands, Orderly, Folded, Reserved, Recovering, Working, Setting, Less
<1>10. Doomed(a) => Doom(r, folder[a].state, Expired(a))
  BY <1>1, <1>2, <1>4 DEF Stands, Doomed, Doom, Finishing, Recovering
<1>11. r.at \notin {"listing", "making", "marking"} /\ (acquirer[a].late => r.late)
       /\ r.at \notin {"emptying", "sweeping"}
  BY <1>1, <1>2, <1>4
<1> QED
  BY <1>1, <1>3, <1>4, <1>5, <1>6, <1>7, <1>8, <1>9, <1>10, <1>11, OwnStep DEF Settled

-----------------------------------------------------------------------------
(* Publishing how far it is                                                *)

\* Publishing that succeeds or throws without touching the folder.
LEMMA ThrownKeeps ==
  ASSUME RunsIInv, NEW a \in Acquirer, acquirer[a].at \in {"publishing", "renaming"},
         acquirer' = [acquirer EXCEPT ![a] = Thrown(@)], UNCHANGED <<folder, registry, today>>,
         Onward(a, a), Leaked(a)' = Leaked(a), Unharmed(a)' => Unharmed(a) /\ acquirer[a].target = "live"
  PROVE  RunsIInv'
<1> DEFINE r == Thrown(acquirer[a])
<1>1. Stands(a) /\ UNCHANGED <<folder, registry, today>>
  BY Standing
<1>2. Stands(a) /\ acquirer[a].at \in {"publishing", "renaming"}
  BY Standing
<1>3. acquirer' = [acquirer EXCEPT ![a] = r]
  BY <1>2 DEF Stands
<1>4. /\ r \in AcquirerRecord /\ r.quota = acquirer[a].quota /\ r.fetched = acquirer[a].fetched
      /\ r.late = acquirer[a].late
      /\ acquirer[a].target = "live" => r.at = "publishing" /\ r.target = "release_pending"
      /\ acquirer[a].target # "live" => r.at = "cleaning"
  BY <1>2, Rows DEF Stands, Target
<1> HIDE DEF r
<1>5. Onward(a, a) /\ Leaked(a)' = Leaked(a) /\ (Unharmed(a)' => Unharmed(a) /\ acquirer[a].target = "live")
  OBVIOUS
<1>6. Reserved(r, Leaked(a)')
  BY <1>2, <1>4, <1>5 DEF Stands, Reserved, Recovering, Setting, Working, Target
<1>7. Folded(r, folder[a].state, Expired(a))
  BY <1>2, <1>4 DEF Stands, Folded, Recovering, Setting, Working, Target
<1>8. StillReserved(r, folder[a].state, Leaked(a)')
  BY <1>4 DEF StillReserved, Recovering
<1>9. Unharmed(a)' => Orderly(r, folder[a].state, Leaked(a)')
  BY <1>2, <1>4, <1>5 DEF Stands, Orderly, Recovering, Working, Target
<1>10. Doomed(a) => Doom(r, folder[a].state, Expired(a))
  BY <1>2, <1>4 DEF Stands, Doomed, Doom, Finishing, Recovering
<1>11. r.at \notin {"listing", "making", "marking", "emptying", "sweeping"} /\ (acquirer[a].late => r.late)
  BY <1>2, <1>4
<1> QED
  BY <1>1, <1>3, <1>4, <1>5, <1>6, <1>7, <1>8, <1>9, <1>10, <1>11, OwnStep DEF Settled

LEMMA PublishFailsKeeps == ASSUME RunsIInv, NEW a \in Acquirer, PublishFails(a) PROVE RunsIInv'
<1>1. /\ acquirer[a].at = "renaming" /\ acquirer' = [acquirer EXCEPT ![a] = Thrown(@)]
      /\ UNCHANGED <<folder, registry, today>>
  BY DEF PublishFails, AtRun
<1>2. RunsTyped
  BY DEF RunsIInv
<1>3. Onward(a, a) /\ Leaked(a)' = Leaked(a) /\ (Unharmed(a)' => Unharmed(a) /\ acquirer[a].target = "live")
  <2>1. CASE acquirer[a].target = "live"
    <3>1. UNCHANGED mishaps
      BY <2>1 DEF PublishFails
    <3> QED
      BY <1>2, <2>1, <3>1, MishapsStay
  <2>2. CASE acquirer[a].target # "live"
    <3>1. Suffers(a, "disk") /\ "disk" \in Mishap
      BY <2>2 DEF PublishFails, Mishap
    <3> QED
      BY <1>2, <3>1, OneSuffers
  <2> QED
    BY <2>1, <2>2
<1> QED
  BY <1>1, <1>3, ThrownKeeps

LEMMA PublishReadsKeeps == ASSUME RunsIInv, NEW a \in Acquirer, PublishReads(a) PROVE RunsIInv'
<1> DEFINE target == acquirer[a].target
<1>1. PICK seen \in {Marker(a), Unread} :
        acquirer' = [acquirer EXCEPT ![a] =
          IF seen = target THEN AfterPublish(@)
          ELSE IF Rank(target) <= Rank(seen) THEN Thrown(@)
          ELSE [@ EXCEPT !.at = "renaming"]]
  BY DEF PublishReads
<1>2. /\ acquirer[a].at = "publishing" /\ UNCHANGED <<folder, registry, today, mishaps>> /\ Stands(a)
      /\ Onward(a, a) /\ Leaked(a)' = Leaked(a) /\ (Unharmed(a)' => Unharmed(a))
  <2>1. /\ acquirer[a].at = "publishing" /\ UNCHANGED <<folder, registry, today, mishaps>> /\ Stands(a)
    BY Standing DEF PublishReads, AtRun
  <2> QED
    BY <2>1, MishapsStay DEF Stands
<1>3. /\ target \in {"live", "release_pending", "acknowledged"}
      /\ seen \in {folder[a].state, Unread} /\ seen \in State
  BY <1>2 DEF Stands, Target, Marker, State
<1>4. target = "live" => seen \in {"reserving", Unread}
  BY <1>2, <1>3 DEF Stands, Folded, State, Target, Unread
<1>5. Unharmed(a) => /\ target = "release_pending" => seen \in {"reserving", "live", Unread}
                     /\ target = "acknowledged" => seen \in {"release_pending", Unread}
  BY <1>2, <1>3 DEF Stands, Orderly
<1>6. CASE seen = target
  <2>1. target # "live" /\ ~Unharmed(a)
    BY <1>3, <1>4, <1>5, <1>6 DEF Unread
  <2> DEFINE r == AfterPublish(acquirer[a])
  <2>3. acquirer' = [acquirer EXCEPT ![a] = r]
    BY <1>1, <1>2, <1>6 DEF Stands
  <2>4. /\ r \in AcquirerRecord /\ r.quota = acquirer[a].quota /\ r.fetched = acquirer[a].fetched
        /\ r.late = acquirer[a].late
        /\ (r.at = "publishing" /\ r.target = "acknowledged") \/ r.at = "cleaning"
    BY <1>2, <1>3, <2>1, Rows DEF Stands
  <2> HIDE DEF r
  <2>6. Reserved(r, Leaked(a)')
    BY <1>2, <1>3, <2>1, <2>4 DEF Stands, Reserved, Recovering, Setting, Working
  <2>7. Folded(r, folder[a].state, Expired(a))
    BY <2>4 DEF Folded, Setting, Working
  <2>8. StillReserved(r, folder[a].state, Leaked(a)')
    BY <2>4 DEF StillReserved, Recovering
  <2>9. Doom(r, folder[a].state, Expired(a))
    BY <2>4 DEF Doom, Finishing
  <2>10. ~Unharmed(a)' /\ r.at \notin {"listing", "making", "marking", "emptying", "sweeping"}
         /\ (acquirer[a].late => r.late)
    BY <1>2, <2>1, <2>4
  <2> QED
    BY <1>2, <2>3, <2>4, <2>6, <2>7, <2>8, <2>9, <2>10, OwnStep DEF Settled
<1>7. CASE seen # target /\ Rank(target) <= Rank(seen)
  <2>1. target # "live" /\ ~Unharmed(a)
    <3>1. target = "live" => Rank(seen) < Rank(target)
      BY <1>4, Ranks
    <3>2. Unharmed(a) => Rank(seen) < Rank(target)
      BY <1>3, <1>5, <3>1, Ranks
    <3>3. Rank(seen) \in Nat /\ Rank(target) \in Nat
      BY <1>3, Ranks DEF State, Target
    <3> QED
      BY <1>7, <3>1, <3>2, <3>3
  <2>2. acquirer' = [acquirer EXCEPT ![a] = Thrown(@)]
    BY <1>1, <1>7
  <2> QED
    BY <1>2, <2>1, <2>2, ThrownKeeps
<1>8. CASE seen # target /\ ~(Rank(target) <= Rank(seen))
  <2> DEFINE r == [acquirer[a] EXCEPT !.at = "renaming"]
  <2>3. acquirer' = [acquirer EXCEPT ![a] = r]
    BY <1>1, <1>2, <1>8 DEF Stands
  <2>4. r \in AcquirerRecord /\ r.at = "renaming" /\ r.quota = acquirer[a].quota
        /\ r.fetched = acquirer[a].fetched /\ r.late = acquirer[a].late /\ r.target = target
    <3>1. acquirer[a] \in AcquirerRecord /\ "renaming" \in Stage
      BY <1>2 DEF Stands, Stage
    <3> QED
      BY <3>1 DEF AcquirerRecord
  <2> HIDE DEF r
  <2>6. Reserved(r, Leaked(a)')
    BY <1>2, <1>3, <2>4 DEF Stands, Reserved, Recovering, Setting, Working
  <2>7. Folded(r, folder[a].state, Expired(a))
    BY <1>2, <2>4 DEF Stands, Folded, Setting, Working
  <2>8. StillReserved(r, folder[a].state, Leaked(a)')
    BY <2>4 DEF StillReserved, Recovering
  <2>9. Unharmed(a)' => Orderly(r, folder[a].state, Leaked(a)')
    BY <1>2, <2>4 DEF Stands, Orderly, Recovering, Working
  <2>10. Doomed(a) => Doom(r, folder[a].state, Expired(a))
    BY <1>2, <2>4 DEF Stands, Doomed, Doom, Finishing, Recovering
  <2>11. r.at \notin {"listing", "making", "marking", "emptying", "sweeping"} /\ (acquirer[a].late => r.late)
    BY <2>4
  <2> QED
    BY <1>2, <2>3, <2>4, <2>6, <2>7, <2>8, <2>9, <2>10, <2>11, OwnStep DEF Settled
<1> QED
  BY <1>6, <1>7, <1>8

-----------------------------------------------------------------------------
(* Looking at what others left                                             *)

LEMMA AbandonedIsDoomed ==
  ASSUME RunsIInv, NEW b \in Acquirer, Abandoned(b)
  PROVE  Doomed(b)
<1>1. acquirer[b].at \in Stage /\ Stands(b)
  BY Standing, FoldersTyped DEF RunsIInv
<1>2. \/ folder[b].state = "reserving" /\ Expired(b)
      \/ folder[b].state = "acknowledged"
  BY <1>1 DEF Abandoned, Marker, Expired, Unread
<1> SUFFICES ASSUME ~acquirer[b].late, acquirer[b].at \notin Finishing \cup {"dead"} PROVE Doomed(b)
  BY DEF Doomed, Doom
<1>3. acquirer[b].at \in {"publishing", "renaming"}
  BY <1>1, <1>2 DEF Stands, Folded, Stage, Setting, Working, Unread
<1>4. acquirer[b].target = "live" => Expired(b)
  BY <1>1, <1>2, <1>3 DEF Stands, Folded, Unread
<1> QED
  BY <1>3, <1>4 DEF Doomed, Doom

LEMMA RecoverKeeps == ASSUME RunsIInv, NEW a \in Acquirer, Recover(a) PROVE RunsIInv'
<1>1. acquirer[a].at = "recovering" /\ UNCHANGED <<folder, registry, today, mishaps>>
  BY DEF Recover, AtRun
<1>2. Stands(a) /\ Onward(a, a) /\ Leaked(a)' = Leaked(a) /\ (Unharmed(a)' => Unharmed(a))
  BY <1>1, Standing, MishapsStay DEF RunsIInv
<1>3. PICK b \in acquirer[a].names :
        \/ Abandoned(b) /\ acquirer' = [acquirer EXCEPT ![a].at = "emptying", ![a].saw = b]
        \/ acquirer' = [acquirer EXCEPT ![a].names = @ \ {b}]
  BY DEF Recover
<1>4. b \in Acquirer
  BY <1>2, <1>3 DEF Stands
<1> SUFFICES ASSUME NEW r \in AcquirerRecord, acquirer' = [acquirer EXCEPT ![a] = r], r.at \in {"emptying", "recovering"},
                    r.quota = acquirer[a].quota, r.fetched = acquirer[a].fetched, r.late = acquirer[a].late,
                    r.at = "emptying" => r.saw \in Acquirer /\ Doomed(r.saw)
             PROVE  RunsIInv'
  <2>1. CASE Abandoned(b) /\ acquirer' = [acquirer EXCEPT ![a].at = "emptying", ![a].saw = b]
    <3> DEFINE r == [acquirer[a] EXCEPT !.at = "emptying", !.saw = b]
    <3>1. "emptying" \in Stage /\ b \in Acquirer /\ Doomed(b)
      BY <1>4, <2>1, AbandonedIsDoomed DEF Stage, Finishing, Recovering
    <3>2. acquirer' = [acquirer EXCEPT ![a] = r]
      BY <1>2, <2>1 DEF Stands
    <3>3. r \in AcquirerRecord /\ r.at = "emptying" /\ r.saw = b /\ r.quota = acquirer[a].quota
          /\ r.fetched = acquirer[a].fetched /\ r.late = acquirer[a].late
      BY <1>2, <3>1 DEF Stands, AcquirerRecord
    <3> HIDE DEF r
    <3> QED
      BY <3>1, <3>2, <3>3
  <2>2. CASE acquirer' = [acquirer EXCEPT ![a].names = @ \ {b}]
    <3> DEFINE r == [acquirer[a] EXCEPT !.names = acquirer[a].names \ {b}]
    <3>1. acquirer[a].names \ {b} \in SUBSET Acquirer
      BY <1>2 DEF Stands
    <3>2. acquirer' = [acquirer EXCEPT ![a] = r]
      BY <1>2, <2>2 DEF Stands
    <3>3. r \in AcquirerRecord /\ r.at = "recovering" /\ r.quota = acquirer[a].quota
          /\ r.fetched = acquirer[a].fetched /\ r.late = acquirer[a].late
      BY <1>1, <1>2, <3>1 DEF Stands, AcquirerRecord
    <3> HIDE DEF r
    <3> QED
      BY <3>2, <3>3
  <2> QED
    BY <1>3, <2>1, <2>2
<1>6. Reserved(r, Leaked(a)')
  BY <1>1, <1>2 DEF Stands, Reserved, Recovering, Setting, Working
<1>7. Folded(r, folder[a].state, Expired(a))
  BY DEF Folded, Setting, Working
<1>8. StillReserved(r, folder[a].state, Leaked(a)')
  BY <1>1, <1>2 DEF Stands, StillReserved, Recovering
<1>9. Unharmed(a)' => Orderly(r, folder[a].state, Leaked(a)')
  BY <1>1, <1>2 DEF Stands, Orderly, Recovering, Working
<1>10. Doom(r, folder[a].state, Expired(a))
  BY DEF Doom, Finishing, Recovering
<1>11. r.at \notin {"listing", "making", "marking", "sweeping"}
  OBVIOUS
<1> QED
  BY <1>1, <1>2, <1>6, <1>7, <1>8, <1>9, <1>10, <1>11, OwnStep DEF Settled

-----------------------------------------------------------------------------
(* Steps that change a folder or the registry                              *)

Refolded(b) ==
  /\ folder' \in [Acquirer -> FolderRecord] /\ \A d \in Acquirer \ {b} : folder'[d] = folder[d]
  /\ \A d \in Acquirer : folder'[d].state = "absent" => folder'[d] = NoFolder

LEMMA RowStep ==
  ASSUME RunsIInv, NEW a \in Acquirer, NEW b \in Acquirer, NEW r \in AcquirerRecord,
         acquirer' = [acquirer EXCEPT ![a] = r], UNCHANGED today, Onward(a, b), Refolded(b), b # a => Swept(b),
         acquirer[a].late => r.late, registry' \in Acquirer \cup {FreeRegistry},
         registry' = registry \/ registry = a \/ (registry = FreeRegistry /\ registry' = a),
         r.at \in {"listing", "making", "marking"} => registry' = a,
         r.at = "making" /\ "unlisted" \notin mishaps'[a] => Cardinality(Listed) < MaxRuns,
         folder[a].state = "absent" /\ folder'[a].state # "absent" /\ ~r.late =>
           acquirer[a].at = "making" /\ r.at # "making",
         Settled(r, folder'[a].state, Expired(a)', Leaked(a)', Unharmed(a)'),
         Doomed(a) => Doom(r, folder'[a].state, Expired(a)'),
         r.at \in {"emptying", "sweeping"} => r.saw \in Acquirer /\ Doomed(r.saw)
  PROVE  RunsIInv'
<1>1. /\ acquirer' \in [Acquirer -> AcquirerRecord] /\ acquirer'[a] = r
      /\ \A d \in Acquirer \ {a} : acquirer'[d] = acquirer[d]
  BY RowChanges DEF RunsIInv
<1>2. RunsTyped'
  BY <1>1 DEF RunsIInv, RunsTyped, Onward, Refolded
<1>3. Sound(a)' /\ (Doomed(a) => Doomed(a)')
  BY <1>1 DEF Sound, Doomed
<1>4. \A d \in Acquirer \ {b} : folder'[d] = folder[d]
  BY DEF Refolded
<1> QED
  BY <1>1, <1>2, <1>3, <1>4, StepKeeps

LEMMA FolderStays == ASSUME RunsTyped, UNCHANGED <<folder, today>>, NEW b \in Acquirer PROVE Refolded(b) /\ Expired(b)' = Expired(b)
BY DEF Refolded, RunsTyped, Expired

LEMMA FolderSet ==
  ASSUME RunsTyped, NEW b \in Acquirer, NEW f \in FolderRecord, folder' = [folder EXCEPT ![b] = f],
         f.state = "absent" => f = NoFolder
  PROVE  Refolded(b) /\ folder'[b] = f
BY FolderChanges DEF Refolded

LEMMA EnterKeeps == ASSUME RunsIInv, NEW a \in Acquirer, EnterRegistry(a) PROVE RunsIInv'
<1>1. /\ acquirer[a].at = "idle" /\ registry = FreeRegistry /\ registry' = a /\ UNCHANGED <<folder, today, mishaps>>
  BY DEF EnterRegistry, AtRun
<1>2. /\ Stands(a) /\ Onward(a, a) /\ Leaked(a)' = Leaked(a) /\ (Unharmed(a)' => Unharmed(a))
      /\ Refolded(a) /\ Expired(a)' = Expired(a) /\ folder'[a] = folder[a]
  BY <1>1, Standing, MishapsStay, FolderStays DEF RunsIInv
<1> DEFINE r == [acquirer[a] EXCEPT !.at = "listing"]
<1>3. acquirer' = [acquirer EXCEPT ![a] = r]
  BY <1>2 DEF Stands, EnterRegistry, Proceeds
<1>4. /\ r \in AcquirerRecord /\ r.at = "listing" /\ r.quota = acquirer[a].quota
      /\ r.fetched = acquirer[a].fetched /\ r.late = acquirer[a].late /\ r.target = acquirer[a].target
  <2>1. "listing" \in Stage
    BY DEF Stage, Setting
  <2> QED
    BY <1>2, <2>1 DEF Stands, AcquirerRecord
<1> HIDE DEF r
<1>5. Settled(r, folder'[a].state, Expired(a)', Leaked(a)', Unharmed(a)')
  BY <1>1, <1>2, <1>4 DEF Stands, Settled, Reserved, Folded, StillReserved, Orderly, Setting, Working, Recovering
<1>6. ~Doomed(a)
  BY <1>1, <1>2 DEF Stands, Folded, Doomed, Doom, Finishing, Recovering, Setting
<1>7. a \in Acquirer \cup {FreeRegistry}
  OBVIOUS
<1> QED
  BY <1>1, <1>2, <1>3, <1>4, <1>5, <1>6, <1>7, RowStep

LEMMA ListKeeps == ASSUME RunsIInv, NEW a \in Acquirer, ListRuns(a) PROVE RunsIInv'
<1>1. acquirer[a].at = "listing" /\ UNCHANGED <<folder, today>> /\ registry = a
  BY DEF ListRuns, AtRun, RunsIInv, Registered
<1>2. Stands(a) /\ Refolded(a) /\ Expired(a)' = Expired(a) /\ folder'[a] = folder[a]
  BY <1>1, Standing, FolderStays DEF RunsIInv
<1>3. /\ acquirer[a].quota = 0 /\ acquirer[a].fetched = 0 /\ ~acquirer[a].late /\ folder[a].state = "absent"
      /\ acquirer[a].target = "live" /\ Leaked(a) = 0
  BY <1>1, <1>2 DEF Stands, Reserved, Folded, Setting
<1>4. PICK listed \in {Folders, {}} :
        IF Cardinality(listed) >= MaxRuns \/ acquirer[a].quota + RunUnits > QuotaUnits
        THEN /\ acquirer' = [acquirer EXCEPT ![a].at = "returned", ![a].result = "limit"]
             /\ registry' = FreeRegistry /\ UNCHANGED mishaps
        ELSE /\ acquirer' = [acquirer EXCEPT ![a].at = "making", ![a].quota = @ + RunUnits]
             /\ IF listed # Folders THEN Suffers(a, "unlisted") ELSE UNCHANGED mishaps
             /\ UNCHANGED registry
  BY DEF ListRuns
<1>5. ~Doomed(a)
  BY <1>1, <1>3 DEF Doomed, Doom, Finishing, Recovering
<1>6. CASE Cardinality(listed) >= MaxRuns \/ acquirer[a].quota + RunUnits > QuotaUnits
  <2>1. Onward(a, a) /\ Leaked(a)' = Leaked(a) /\ registry' = FreeRegistry
    BY <1>2, <1>4, <1>6, MishapsStay DEF Stands
  <2> DEFINE r == [acquirer[a] EXCEPT !.at = "returned", !.result = "limit"]
  <2>2. acquirer' = [acquirer EXCEPT ![a] = r]
    BY <1>2, <1>4, <1>6 DEF Stands
  <2>3. r \in AcquirerRecord /\ r.at = "returned" /\ r.quota = 0 /\ r.fetched = 0 /\ ~r.late
    <3>1. "returned" \in Stage
      BY DEF Stage, Finishing
    <3> QED
      BY <1>2, <1>3, <3>1 DEF Stands, AcquirerRecord
  <2> HIDE DEF r
  <2>4. Settled(r, folder'[a].state, Expired(a)', Leaked(a)', Unharmed(a)')
    BY <1>2, <1>3, <2>1, <2>3 DEF Settled, Reserved, Folded, StillReserved, Orderly, Setting, Working, Recovering
  <2> QED
    BY <1>1, <1>2, <1>3, <1>5, <2>1, <2>2, <2>3, <2>4, RowStep
<1>7. CASE ~(Cardinality(listed) >= MaxRuns \/ acquirer[a].quota + RunUnits > QuotaUnits)
  <2>1. /\ Onward(a, a) /\ Leaked(a)' = Leaked(a) /\ registry' = registry
        /\ listed # Folders => "unlisted" \in mishaps'[a]
    <3>1. CASE listed = Folders
      BY <1>2, <1>4, <1>7, <3>1, MishapsStay DEF Stands
    <3>2. CASE listed # Folders
      <4>1. Suffers(a, "unlisted") /\ "unlisted" \in Mishap /\ registry' = registry
        BY <1>4, <1>7, <3>2 DEF Mishap
      <4> QED
        BY <1>2, <4>1, OneSuffers DEF Stands
    <3> QED
      BY <3>1, <3>2
  <2> DEFINE r == [acquirer[a] EXCEPT !.at = "making", !.quota = acquirer[a].quota + RunUnits]
  <2>2. acquirer' = [acquirer EXCEPT ![a] = r]
    BY <1>2, <1>4, <1>7 DEF Stands
  <2>3. /\ r \in AcquirerRecord /\ r.at = "making" /\ r.quota = RunUnits /\ r.fetched = 0
        /\ ~r.late /\ r.target = "live"
    <3>1. "making" \in Stage
      BY DEF Stage, Setting
    <3>2. acquirer[a].quota + RunUnits = RunUnits /\ RunUnits \in 0..QuotaUnits
      BY <1>3, <1>7
    <3> QED
      BY <1>2, <1>3, <3>1, <3>2 DEF Stands, AcquirerRecord
  <2> HIDE DEF r
  <2>4. Settled(r, folder'[a].state, Expired(a)', Leaked(a)', Unharmed(a)')
    BY <1>2, <1>3, <2>1, <2>3 DEF Settled, Reserved, Folded, StillReserved, Orderly, Setting, Working, Recovering
  <2>5. "unlisted" \notin mishaps'[a] => Cardinality(Listed) < MaxRuns
    <3>1. IsFiniteSet(Folders) /\ Listed \subseteq Folders
      BY FS_Subset DEF Folders, Listed
    <3>2. Cardinality(Listed) <= Cardinality(Folders) /\ Cardinality(Folders) \in Nat /\ Cardinality(Listed) \in Nat
      BY <3>1, FS_Subset, FS_CardinalityType
    <3> QED
      BY <1>7, <2>1, <3>2
  <2> QED
    BY <1>1, <1>2, <1>3, <1>5, <2>1, <2>2, <2>3, <2>4, <2>5, RowStep
<1> QED
  BY <1>6, <1>7

LEMMA MakeKeeps == ASSUME RunsIInv, NEW a \in Acquirer, MakeFolder(a) PROVE RunsIInv'
<1>1. acquirer[a].at = "making" /\ UNCHANGED <<registry, today, mishaps>> /\ registry = a
  BY DEF MakeFolder, AtRun, RunsIInv, Registered
<1>2. Stands(a) /\ Onward(a, a) /\ Leaked(a)' = Leaked(a)
  BY <1>1, Standing, MishapsStay DEF RunsIInv
<1>3. /\ acquirer[a].quota = RunUnits /\ acquirer[a].fetched = 0 /\ ~acquirer[a].late
      /\ acquirer[a].target = "live" /\ Leaked(a) = 0
  BY <1>1, <1>2 DEF Stands, Reserved, Folded, Setting
<1> DEFINE f == [state |-> Unread, made |-> today, bare |-> FALSE]
           r == [acquirer[a] EXCEPT !.at = "marking"]
<1>4. acquirer' = [acquirer EXCEPT ![a] = r] /\ folder' = [folder EXCEPT ![a] = f]
  BY <1>2 DEF Stands, MakeFolder, Proceeds
<1>5. /\ r \in AcquirerRecord /\ r.at = "marking" /\ r.quota = RunUnits /\ r.fetched = 0
      /\ ~r.late /\ r.target = "live"
  <2>1. "marking" \in Stage
    BY DEF Stage, Setting
  <2> QED
    BY <1>2, <1>3, <2>1 DEF Stands, AcquirerRecord
<1>6. f \in FolderRecord /\ f.state = Unread /\ f.state # "absent"
  BY <1>2 DEF Stands, FolderRecord, RunsTyped, State, Unread
<1> HIDE DEF f, r
<1>7. Refolded(a) /\ folder'[a].state = Unread
  BY <1>2, <1>4, <1>6, FolderSet DEF Stands
<1>8. Settled(r, folder'[a].state, Expired(a)', Leaked(a)', Unharmed(a)')
  BY <1>2, <1>3, <1>5, <1>7 DEF Settled, Reserved, Folded, StillReserved, Orderly, Setting, Working, Recovering
<1>9. ~Doomed(a)
  BY <1>1, <1>3 DEF Doomed, Doom, Finishing, Recovering
<1> QED
  BY <1>1, <1>2, <1>3, <1>4, <1>5, <1>7, <1>8, <1>9, RowStep

\* The first marker.
LEMMA FirstMarker ==
  ASSUME RunsIInv, NEW a \in Acquirer, acquirer[a].at = "marking",
         folder' = [folder EXCEPT ![a].state = "reserving", ![a].made = today]
  PROVE  Refolded(a) /\ folder'[a].state = "reserving"
<1>1. Stands(a) /\ today \in 0..MaxToday
  BY Standing DEF RunsIInv, RunsTyped
<1> DEFINE f == [folder[a] EXCEPT !.state = "reserving", !.made = today]
<1>2. folder' = [folder EXCEPT ![a] = f]
  BY <1>1 DEF Stands, RunsTyped
<1>3. f \in FolderRecord /\ f.state = "reserving"
  BY <1>1 DEF Stands, FolderRecord, State
<1> HIDE DEF f
<1> QED
  BY <1>1, <1>2, <1>3, FolderSet DEF Stands

LEMMA MarkKeeps == ASSUME RunsIInv, NEW a \in Acquirer, MarkReserving(a) PROVE RunsIInv'
<1>1. acquirer[a].at = "marking" /\ UNCHANGED <<today, mishaps>> /\ registry = a /\ registry' = FreeRegistry
  BY DEF MarkReserving, AtRun, RunsIInv, Registered
<1>2. Stands(a) /\ Onward(a, a) /\ Leaked(a)' = Leaked(a)
  BY <1>1, Standing, MishapsStay DEF RunsIInv
<1>3. /\ acquirer[a].quota = RunUnits /\ acquirer[a].fetched = 0 /\ ~acquirer[a].late
      /\ acquirer[a].target = "live" /\ Leaked(a) = 0 /\ folder[a].state = Unread
  BY <1>1, <1>2 DEF Stands, Reserved, Folded, Setting
<1> DEFINE r == [acquirer[a] EXCEPT !.at = "publishing"]
<1>4. acquirer' = [acquirer EXCEPT ![a] = r]
  BY <1>2 DEF Stands, MarkReserving, Proceeds
<1>5. /\ r \in AcquirerRecord /\ r.at = "publishing" /\ r.quota = RunUnits /\ r.fetched = 0
      /\ ~r.late /\ r.target = "live"
  <2>1. "publishing" \in Stage
    BY DEF Stage
  <2> QED
    BY <1>2, <1>3, <2>1 DEF Stands, AcquirerRecord
<1> HIDE DEF r
<1>6. Refolded(a) /\ folder'[a].state = "reserving"
  BY <1>1, FirstMarker DEF MarkReserving
<1>7. Settled(r, folder'[a].state, Expired(a)', Leaked(a)', Unharmed(a)')
  BY <1>2, <1>3, <1>5, <1>6 DEF Settled, Reserved, Folded, StillReserved, Orderly, Setting, Working, Recovering
<1>8. ~Doomed(a) /\ folder[a].state # "absent"
  BY <1>1, <1>3 DEF Doomed, Doom, Finishing, Recovering, Unread
<1> QED
  BY <1>1, <1>2, <1>3, <1>4, <1>5, <1>6, <1>7, <1>8, RowStep

LEMMA MakeFailsKeeps == ASSUME RunsIInv, NEW a \in Acquirer, MakeFails(a) PROVE RunsIInv'
<1>1. /\ acquirer[a].at \in {"making", "marking"} /\ UNCHANGED today /\ registry = a /\ registry' = FreeRegistry
      /\ Suffers(a, "disk") /\ "disk" \in Mishap
  BY DEF MakeFails, AtRun, RunsIInv, Registered, Mishap
<1>2. Stands(a) /\ Onward(a, a) /\ Leaked(a)' = Leaked(a) /\ ~Unharmed(a)'
  BY <1>1, Standing, OneSuffers DEF RunsIInv
<1>3. /\ acquirer[a].quota = RunUnits /\ acquirer[a].fetched = 0 /\ ~acquirer[a].late
      /\ Leaked(a) = 0 /\ (acquirer[a].at = "marking" => folder[a].state = Unread)
  BY <1>1, <1>2 DEF Stands, Reserved, Folded, Setting
<1> DEFINE r == Broken(acquirer[a])
<1>4. acquirer' = [acquirer EXCEPT ![a] = r]
  BY <1>2 DEF Stands, MakeFails
<1>5. r \in AcquirerRecord /\ r.at = "returned" /\ r.quota = RunUnits /\ r.fetched = 0 /\ ~r.late
  BY <1>2, <1>3, Rows DEF Stands
<1> HIDE DEF r
<1>6. Refolded(a) /\ (folder[a].state = "absent" => folder'[a].state = "absent")
  <2>1. CASE UNCHANGED folder
    BY <1>1, <1>2, <2>1, FolderStays DEF Stands
  <2>2. CASE acquirer[a].at = "marking" /\ folder' = [folder EXCEPT ![a].state = "reserving", ![a].made = today]
    BY <1>3, <2>2, FirstMarker DEF Unread
  <2> QED
    BY <2>1, <2>2 DEF MakeFails, AtRun
<1>7. Settled(r, folder'[a].state, Expired(a)', Leaked(a)', Unharmed(a)')
  BY <1>2, <1>3, <1>5 DEF Settled, Reserved, Folded, StillReserved, Setting, Working, Recovering
<1>8. ~Doomed(a)
  BY <1>1, <1>3 DEF Doomed, Doom, Finishing, Recovering
<1> QED
  BY <1>1, <1>2, <1>3, <1>4, <1>5, <1>6, <1>7, <1>8, RowStep

LEMMA PublishWritesKeeps == ASSUME RunsIInv, NEW a \in Acquirer, PublishWrites(a) PROVE RunsIInv'
<1> DEFINE q == acquirer[a]
           s == folder[a].state
           target == acquirer[a].target
<1>1. q.at = "renaming" /\ UNCHANGED <<registry, today, mishaps>>
  BY DEF PublishWrites, AtRun
<1>2. /\ Stands(a) /\ Onward(a, a) /\ Leaked(a)' = Leaked(a) /\ (Unharmed(a)' => Unharmed(a))
      /\ registry' \in Acquirer \cup {FreeRegistry}
  BY <1>1, Standing, MishapsStay DEF RunsIInv, RunsTyped
<1>3. /\ target \in {"live", "release_pending", "acknowledged"}
      /\ target = "live" => /\ ~q.late /\ s \in {"reserving", Unread, "absent"}
                            /\ s # "reserving" => s = "absent" \/ Expired(a)
  BY <1>1, <1>2 DEF Stands, Folded, Target
<1>4. CASE ~There(a)
  <2>1. s = "absent" /\ UNCHANGED folder
    BY <1>2, <1>4 DEF Stands, PublishWrites
  <2>2. Refolded(a) /\ Expired(a)' = Expired(a) /\ folder'[a].state = "absent"
    BY <1>1, <1>2, <2>1, FolderStays DEF Stands
  <2> DEFINE p == Thrown(q)
  <2>3. /\ p \in AcquirerRecord /\ p.quota = q.quota /\ p.fetched = q.fetched
        /\ target = "live" => p.at = "publishing" /\ p.target = "release_pending"
        /\ target # "live" => p.at = "cleaning"
    BY <1>2, <1>3, Rows DEF Stands
  <2> DEFINE r == [p EXCEPT !.late = q.late \/ target = "live"]
  <2>4. acquirer' = [acquirer EXCEPT ![a] = r]
    BY <1>2, <1>4 DEF Stands, PublishWrites
  <2>5. p.late = q.late /\ q.late \in BOOLEAN
    BY <1>2, Rows DEF Stands
  <2> HIDE DEF p
  <2>6. /\ r \in AcquirerRecord /\ r.at = p.at /\ r.quota = q.quota /\ r.fetched = q.fetched /\ r.target = p.target
        /\ r.late <=> q.late \/ target = "live"
    BY <2>3, <2>5 DEF AcquirerRecord
  <2> HIDE DEF r
  <2>7. target = "live" => ~Unharmed(a)
    BY <1>1, <1>2, <2>1 DEF Stands, Orderly
  <2>8. Reserved(r, Leaked(a)')
    BY <1>1, <1>2, <1>3, <2>3, <2>6 DEF Stands, Reserved, Setting, Working, Recovering
  <2>9. Folded(r, folder'[a].state, Expired(a)') /\ StillReserved(r, folder'[a].state, Leaked(a)')
    BY <1>3, <2>2, <2>3, <2>6 DEF Folded, StillReserved, Setting, Working, Recovering
  <2>10. ~Unharmed(a)
    BY <1>1, <1>2, <1>3, <2>1 DEF Stands, Orderly
  <2>11. Doomed(a) => Doom(r, folder'[a].state, Expired(a)')
    BY <1>3, <2>2, <2>3, <2>6 DEF Doom, Finishing
  <2>12. r.at \notin {"listing", "making", "marking", "emptying", "sweeping"} /\ (q.late => r.late)
    BY <1>3, <2>3, <2>6
  <2> QED
    BY <1>1, <1>2, <2>1, <2>2, <2>4, <2>6, <2>8, <2>9, <2>10, <2>11, <2>12, RowStep DEF Settled
<1>5. CASE There(a)
  <2>1. s # "absent" /\ s \in State
    BY <1>2, <1>5 DEF Stands
  <2> DEFINE f == [folder[a] EXCEPT !.state = target]
  <2>2. folder' = [folder EXCEPT ![a] = f]
    BY <1>2, <1>5 DEF Stands, PublishWrites, RunsTyped
  <2>3. f \in FolderRecord /\ f.state = target /\ f.made = folder[a].made /\ f.state # "absent"
    BY <1>2, <1>3 DEF Stands, FolderRecord, State, Target
  <2> HIDE DEF f
  <2>4. Refolded(a) /\ folder'[a].state = target /\ Expired(a)' = Expired(a)
    BY <1>1, <1>2, <2>2, <2>3, FolderSet DEF Stands, Expired
  <2> DEFINE p == AfterPublish(q)
             late == q.late \/ (target = "live" /\ Expired(a))
             r == [p EXCEPT !.late = late]
  <2>5. /\ p \in AcquirerRecord /\ p.quota = q.quota /\ p.fetched = q.fetched /\ p.late = q.late /\ q.late \in BOOLEAN
        /\ target = "live" => p.at = "fetching" /\ p.target = "release_pending"
        /\ target = "release_pending" => p.at = "publishing" /\ p.target = "acknowledged"
        /\ target = "acknowledged" => p.at = "cleaning"
    BY <1>2, <1>3, Rows DEF Stands
  <2>6. acquirer' = [acquirer EXCEPT ![a] = r]
    BY <1>2, <1>5 DEF Stands, PublishWrites, Expired
  <2> HIDE DEF p
  <2>7. late \in BOOLEAN /\ (late <=> q.late \/ (target = "live" /\ Expired(a)))
    BY <2>5 DEF Expired
  <2> HIDE DEF late
  <2>8. /\ r \in AcquirerRecord /\ r.at = p.at /\ r.quota = q.quota /\ r.fetched = q.fetched /\ r.target = p.target
        /\ r.late <=> q.late \/ (target = "live" /\ Expired(a))
    BY <2>5, <2>7 DEF AcquirerRecord
  <2> HIDE DEF r
  <2>9. Reserved(r, Leaked(a)')
    BY <1>1, <1>2, <1>3, <2>5, <2>8 DEF Stands, Reserved, Setting, Working, Recovering
  <2>10. Folded(r, folder'[a].state, Expired(a)') /\ StillReserved(r, folder'[a].state, Leaked(a)')
    BY <1>3, <2>4, <2>5, <2>8 DEF Folded, StillReserved, Setting, Working, Recovering
  <2>11. Unharmed(a)' => Orderly(r, folder'[a].state, Leaked(a)')
    BY <1>3, <2>4, <2>5, <2>8 DEF Orderly, Working, Recovering
  <2>12. Doomed(a) => Doom(r, folder'[a].state, Expired(a)')
    BY <1>1, <1>3, <2>1, <2>4, <2>5, <2>8 DEF Doomed, Doom, Finishing, Recovering
  <2>13. r.at \notin {"listing", "making", "marking", "emptying", "sweeping"} /\ (q.late => r.late)
    BY <1>3, <2>5, <2>8
  <2> QED
    BY <1>1, <1>2, <2>1, <2>4, <2>6, <2>8, <2>9, <2>10, <2>11, <2>12, <2>13, RowStep DEF Settled
<1> QED
  BY <1>4, <1>5

LEMMA FetchReservesKeeps == ASSUME RunsIInv, NEW a \in Acquirer, FetchReserves(a) PROVE RunsIInv'
<1> DEFINE q == acquirer[a]
<1>1. q.at = "fetching" /\ UNCHANGED <<registry, today, mishaps>>
  BY DEF FetchReserves, AtRun
<1>2. /\ Stands(a) /\ Onward(a, a) /\ Leaked(a)' = Leaked(a) /\ (Unharmed(a)' => Unharmed(a))
      /\ registry' \in Acquirer \cup {FreeRegistry}
  BY <1>1, Standing, MishapsStay DEF RunsIInv, RunsTyped
<1>3. /\ q.quota = RunUnits /\ q.fetched = 0 /\ Leaked(a) = 0
      /\ ~q.late => folder[a].state = "live"
      /\ Unharmed(a) => folder[a].state = "live"
  BY <1>1, <1>2 DEF Stands, Reserved, Folded, Orderly, Working
<1>4. Doomed(a) => q.late
  BY <1>1 DEF Doomed, Doom, Finishing, Recovering
<1>5. CASE q.quota + FetchUnits > QuotaUnits
  <2>1. LeavesWith(a, "limit") /\ UNCHANGED folder
    BY <1>5 DEF FetchReserves
  <2>2. Refolded(a) /\ Expired(a)' = Expired(a) /\ folder'[a].state = folder[a].state
    BY <1>1, <1>2, <2>1, FolderStays DEF Stands
  <2> DEFINE r == Leaving(q, "limit")
  <2>3. acquirer' = [acquirer EXCEPT ![a] = r]
    BY <1>2, <2>1 DEF Stands, LeavesWith
  <2>4. /\ r \in AcquirerRecord /\ r.at = "publishing" /\ r.target = "release_pending" /\ r.quota = RunUnits
        /\ r.fetched = 0 /\ r.late = q.late
    BY <1>2, <1>3, Departures DEF Stands
  <2> HIDE DEF r
  <2>5. Settled(r, folder'[a].state, Expired(a)', Leaked(a)', Unharmed(a)')
    BY <1>2, <1>3, <2>2, <2>4 DEF Settled, Reserved, Folded, StillReserved, Orderly, Setting, Working, Recovering
  <2>6. Doom(r, folder'[a].state, Expired(a)')
    BY <2>4 DEF Doom
  <2> QED
    BY <1>1, <1>2, <2>2, <2>3, <2>4, <2>5, <2>6, RowStep
<1>6. CASE ~(q.quota + FetchUnits > QuotaUnits)
  <2> DEFINE r == [q EXCEPT !.at = "verifying", !.quota = q.quota + FetchUnits]
             f == IF There(a) THEN [folder[a] EXCEPT !.bare = TRUE]
                  ELSE [state |-> Unread, made |-> today, bare |-> TRUE]
  <2>1. acquirer' = [acquirer EXCEPT ![a] = r] /\ folder' = [folder EXCEPT ![a] = f]
    BY <1>2, <1>6 DEF Stands, FetchReserves, RunsTyped
  <2>2. /\ r \in AcquirerRecord /\ r.at = "verifying" /\ r.quota = RunUnits + FetchUnits
        /\ r.fetched = 0 /\ r.late = q.late
    <3>1. "verifying" \in Stage
      BY DEF Stage, Working
    <3>2. q.quota + FetchUnits = RunUnits + FetchUnits /\ q.quota + FetchUnits \in 0..QuotaUnits
      BY <1>3, <1>6
    <3> QED
      BY <1>2, <1>3, <3>1, <3>2 DEF Stands, AcquirerRecord
  <2>3. /\ f \in FolderRecord /\ f.state # "absent"
        /\ folder[a].state = "live" => f.state = "live"
    <3>1. today \in 0..MaxToday /\ Unread \in State /\ Unread # "absent"
      BY DEF RunsIInv, RunsTyped, State, Unread
    <3>2. CASE There(a)
      BY <1>2, <3>2 DEF Stands, FolderRecord
    <3>3. CASE ~There(a)
      BY <1>2, <3>1, <3>3 DEF Stands, FolderRecord
    <3> QED
      BY <3>2, <3>3
  <2> HIDE DEF r, f
  <2>4. Refolded(a) /\ folder'[a] = f
    BY <1>2, <2>1, <2>3, FolderSet DEF Stands
  <2>5. Settled(r, folder'[a].state, Expired(a)', Leaked(a)', Unharmed(a)')
    BY <1>2, <1>3, <2>2, <2>3, <2>4 DEF Settled, Reserved, Folded, StillReserved, Orderly, Setting, Working, Recovering
  <2>6. Doomed(a) => Doom(r, folder'[a].state, Expired(a)')
    BY <1>4, <2>2 DEF Doom
  <2>7. ~r.late => folder[a].state # "absent"
    BY <1>3, <2>2
  <2> QED
    BY <1>1, <1>2, <2>1, <2>2, <2>4, <2>5, <2>6, <2>7, RowStep
<1> QED
  BY <1>5, <1>6

LEMMA FolderEmptied ==
  ASSUME RunsTyped, NEW b \in Acquirer, Empties(b)
  PROVE  /\ Refolded(b)
         /\ folder'[b].state \in {Unread, "absent"} /\ (folder'[b].state = "absent" <=> folder[b].state = "absent")
         /\ folder'[b].made = folder[b].made
<1> DEFINE f == IF There(b) THEN [folder[b] EXCEPT !.state = Unread, !.bare = FALSE] ELSE folder[b]
<1>1. folder' = [folder EXCEPT ![b] = f]
  BY DEF Empties, RunsTyped
<1>2. folder[b] \in FolderRecord /\ (There(b) <=> folder[b].state # "absent") /\ Unread \in State /\ Unread # "absent"
  BY FoldersTyped DEF RunsTyped, State, Unread
<1>3. /\ f \in FolderRecord /\ (f.state = "absent" => f = NoFolder) /\ f.made = folder[b].made
      /\ f.state \in {Unread, "absent"} /\ (f.state = "absent" <=> folder[b].state = "absent")
  BY <1>2 DEF FolderRecord, RunsTyped
<1> HIDE DEF f
<1> QED
  BY <1>1, <1>3, FolderSet

LEMMA Removed ==
  ASSUME RunsTyped, NEW b \in Acquirer, Removes(b)
  PROVE  Refolded(b) /\ folder'[b].state = "absent"
<1>1. NoFolder \in FolderRecord /\ NoFolder.state = "absent"
  <2>1. 0 \in 0..MaxToday
    OBVIOUS
  <2> QED
    BY <2>1 DEF NoFolder, FolderRecord
<1> QED
  BY <1>1, FolderSet DEF Removes

LEMMA CleanEmptiesKeeps == ASSUME RunsIInv, NEW a \in Acquirer, CleanEmpties(a) PROVE RunsIInv'
<1>1. acquirer[a].at = "unlinking" /\ UNCHANGED <<registry, today, mishaps>> /\ Empties(a)
  BY DEF CleanEmpties, AtRun
<1>2. /\ Stands(a) /\ Onward(a, a) /\ Leaked(a)' = Leaked(a) /\ (Unharmed(a)' => Unharmed(a))
      /\ registry' \in Acquirer \cup {FreeRegistry}
  BY <1>1, Standing, MishapsStay DEF RunsIInv, RunsTyped
<1>3. /\ Refolded(a) /\ folder'[a].state \in {Unread, "absent"}
      /\ folder'[a].state = "absent" <=> folder[a].state = "absent"
  BY <1>1, <1>2, FolderEmptied DEF Stands
<1> DEFINE r == [acquirer[a] EXCEPT !.at = "removing"]
<1>4. acquirer' = [acquirer EXCEPT ![a] = r]
  BY <1>2 DEF Stands, CleanEmpties, Proceeds
<1>5. /\ r \in AcquirerRecord /\ r.at = "removing" /\ r.quota = acquirer[a].quota
      /\ r.fetched = acquirer[a].fetched /\ r.late = acquirer[a].late
  <2>1. "removing" \in Stage
    BY DEF Stage, Finishing
  <2> QED
    BY <1>2, <2>1 DEF Stands, AcquirerRecord
<1> HIDE DEF r
<1>6. Reserved(r, Leaked(a)')
  BY <1>1, <1>2, <1>5 DEF Stands, Reserved, Setting, Working, Recovering
<1>7. /\ Folded(r, folder'[a].state, Expired(a)') /\ StillReserved(r, folder'[a].state, Leaked(a)')
      /\ Unharmed(a)' => Orderly(r, folder'[a].state, Leaked(a)')
  BY <1>1, <1>2, <1>3, <1>5 DEF Stands, Folded, StillReserved, Orderly, Setting, Working, Recovering
<1>8. Doom(r, folder'[a].state, Expired(a)')
  BY <1>5 DEF Doom, Finishing
<1> QED
  BY <1>1, <1>2, <1>3, <1>4, <1>5, <1>6, <1>7, <1>8, RowStep DEF Settled

LEMMA CleanRemovesKeeps == ASSUME RunsIInv, NEW a \in Acquirer, CleanRemoves(a) PROVE RunsIInv'
<1>1. acquirer[a].at = "removing" /\ UNCHANGED <<registry, today, mishaps>> /\ Removes(a)
  BY DEF CleanRemoves, AtRun
<1>2. /\ Stands(a) /\ Onward(a, a) /\ Leaked(a)' = Leaked(a) /\ (Unharmed(a)' => Unharmed(a))
      /\ registry' \in Acquirer \cup {FreeRegistry}
  BY <1>1, Standing, MishapsStay DEF RunsIInv, RunsTyped
<1>3. Refolded(a) /\ folder'[a].state = "absent"
  BY <1>1, <1>2, Removed DEF Stands
<1> DEFINE left == Less(acquirer[a].quota, RunUnits)
           r == [acquirer[a] EXCEPT !.at = "naming", !.quota = left]
<1>4. acquirer' = [acquirer EXCEPT ![a] = r]
  BY <1>2 DEF Stands, CleanRemoves
<1>5. left \in 0..QuotaUnits /\ left = acquirer[a].fetched + Leaked(a)
  BY <1>1, <1>2 DEF Stands, Reserved, Less
<1> HIDE DEF left
<1>6. /\ r \in AcquirerRecord /\ r.at = "naming" /\ r.quota = left
      /\ r.fetched = acquirer[a].fetched /\ r.late = acquirer[a].late
  <2>1. "naming" \in Stage
    BY DEF Stage, Finishing, Recovering
  <2> QED
    BY <1>2, <1>5, <2>1 DEF Stands, AcquirerRecord
<1> HIDE DEF r
<1>7. Settled(r, folder'[a].state, Expired(a)', Leaked(a)', Unharmed(a)')
  BY <1>2, <1>3, <1>5, <1>6 DEF Settled, Reserved, Folded, StillReserved, Orderly, Setting, Working, Recovering
<1>8. Doom(r, folder'[a].state, Expired(a)')
  BY <1>6 DEF Doom, Finishing, Recovering
<1> QED
  BY <1>1, <1>2, <1>3, <1>4, <1>6, <1>7, <1>8, RowStep

\* What a recovery does to the history of mishaps.
LEMMA SweepsOnward ==
  ASSUME RunsIInv, NEW a \in Acquirer, acquirer[a].saw \in Acquirer, Sweeps(a)
  PROVE  Onward(a, acquirer[a].saw) /\ Leaked(a)' = Leaked(a) /\ (Unharmed(a)' => Unharmed(a))
<1> DEFINE b == acquirer[a].saw
<1>1. RunsTyped
  BY DEF RunsIInv
<1>2. CASE b = a
  BY <1>1, <1>2, MishapsStay DEF Sweeps
<1>3. CASE b # a
  <2>1. /\ mishaps' \in [Acquirer -> SUBSET Mishap] /\ mishaps'[b] = mishaps[b] \cup {"swept"}
        /\ \A d \in Acquirer \ {b} : mishaps'[d] = mishaps[d]
    BY <1>1, <1>3 DEF Sweeps, Suffers, RunsTyped, Mishap
  <2> QED
    BY <1>3, <2>1 DEF Onward, Leaked, Unharmed
<1> QED
  BY <1>2, <1>3

LEMMA RecoverEmptiesKeeps == ASSUME RunsIInv, NEW a \in Acquirer, RecoverEmpties(a) PROVE RunsIInv'
<1> DEFINE b == acquirer[a].saw
<1>1. acquirer[a].at = "emptying" /\ UNCHANGED <<registry, today>> /\ Empties(b) /\ Sweeps(a)
  BY DEF RecoverEmpties, AtRun
<1>2. b \in Acquirer /\ Doomed(b)
  BY <1>1 DEF RunsIInv, OnlyDoomedSwept
<1>3. /\ Stands(a) /\ Onward(a, b) /\ Leaked(a)' = Leaked(a) /\ (Unharmed(a)' => Unharmed(a))
      /\ registry' \in Acquirer \cup {FreeRegistry}
  BY <1>1, <1>2, Standing, SweepsOnward DEF RunsIInv, RunsTyped
<1> DEFINE r == [acquirer[a] EXCEPT !.at = "sweeping"]
<1>4. acquirer' = [acquirer EXCEPT ![a] = r]
  BY <1>3 DEF Stands, RecoverEmpties, Proceeds
<1>5. /\ r \in AcquirerRecord /\ r.at = "sweeping" /\ r.saw = b /\ r.quota = acquirer[a].quota
      /\ r.fetched = acquirer[a].fetched /\ r.late = acquirer[a].late
  <2>1. "sweeping" \in Stage
    BY DEF Stage, Finishing, Recovering
  <2> QED
    BY <1>3, <2>1 DEF Stands, AcquirerRecord
<1> HIDE DEF r, b
<1>6. /\ Refolded(b) /\ folder'[b].state \in {Unread, "absent"}
      /\ folder'[b].state = "absent" <=> folder[b].state = "absent"
      /\ folder'[b].made = folder[b].made
  BY <1>1, <1>2, <1>3, FolderEmptied DEF Stands
<1>7. Swept(b) /\ (folder[a].state = "absent" <=> folder'[a].state = "absent")
  BY <1>2, <1>6 DEF Swept, Refolded
<1>8. Reserved(r, Leaked(a)')
  BY <1>1, <1>3, <1>5 DEF Stands, Reserved, Setting, Working, Recovering
<1>9. /\ Folded(r, folder'[a].state, Expired(a)') /\ StillReserved(r, folder'[a].state, Leaked(a)')
      /\ Unharmed(a)' => Orderly(r, folder'[a].state, Leaked(a)')
  BY <1>1, <1>3, <1>5, <1>7 DEF Stands, Folded, StillReserved, Orderly, Setting, Working, Recovering
<1>10. Doom(r, folder'[a].state, Expired(a)')
  BY <1>5 DEF Doom, Finishing, Recovering
<1> QED
  BY <1>1, <1>2, <1>3, <1>4, <1>5, <1>6, <1>7, <1>8, <1>9, <1>10, RowStep DEF Settled

LEMMA RecoverRemovesKeeps == ASSUME RunsIInv, NEW a \in Acquirer, RecoverRemoves(a) PROVE RunsIInv'
<1> DEFINE b == acquirer[a].saw
<1>1. acquirer[a].at = "sweeping" /\ UNCHANGED <<registry, today>> /\ Removes(b) /\ Sweeps(a)
  BY DEF RecoverRemoves, AtRun
<1>2. b \in Acquirer /\ Doomed(b)
  BY <1>1 DEF RunsIInv, OnlyDoomedSwept
<1>3. /\ Stands(a) /\ Onward(a, b) /\ Leaked(a)' = Leaked(a) /\ (Unharmed(a)' => Unharmed(a))
      /\ registry' \in Acquirer \cup {FreeRegistry}
  BY <1>1, <1>2, Standing, SweepsOnward DEF RunsIInv, RunsTyped
<1> DEFINE r == [acquirer[a] EXCEPT !.at = "recovering", !.names = acquirer[a].names \ {b}, !.saw = Unread]
<1>4. acquirer' = [acquirer EXCEPT ![a] = r]
  BY <1>3 DEF Stands, RecoverRemoves
<1>5. /\ r \in AcquirerRecord /\ r.at = "recovering" /\ r.quota = acquirer[a].quota
      /\ r.fetched = acquirer[a].fetched /\ r.late = acquirer[a].late
  <2>1. "recovering" \in Stage /\ Unread \in State /\ acquirer[a].names \ {b} \in SUBSET Acquirer
    BY <1>3 DEF Stands, Stage, Finishing, Recovering, State
  <2> QED
    BY <1>3, <2>1 DEF Stands, AcquirerRecord
<1> HIDE DEF r, b
<1>6. Refolded(b) /\ folder'[b].state = "absent"
  BY <1>1, <1>2, <1>3, Removed DEF Stands
<1>7. Swept(b) /\ (folder[a].state = "absent" => folder'[a].state = "absent")
      /\ (folder'[a].state # "absent" => folder'[a].state = folder[a].state)
  BY <1>2, <1>6 DEF Swept, Refolded
<1>8. Reserved(r, Leaked(a)')
  BY <1>1, <1>3, <1>5 DEF Stands, Reserved, Setting, Working, Recovering
<1>9. /\ Folded(r, folder'[a].state, Expired(a)') /\ StillReserved(r, folder'[a].state, Leaked(a)')
      /\ Unharmed(a)' => Orderly(r, folder'[a].state, Leaked(a)')
  BY <1>1, <1>3, <1>5, <1>7 DEF Stands, Folded, StillReserved, Orderly, Setting, Working, Recovering
<1>10. Doom(r, folder'[a].state, Expired(a)')
  BY <1>5 DEF Doom, Finishing, Recovering
<1> QED
  BY <1>1, <1>2, <1>3, <1>4, <1>5, <1>6, <1>7, <1>8, <1>9, <1>10, RowStep DEF Settled

-----------------------------------------------------------------------------
(* Deaths and days                                                         *)

LEMMA DiesKeeps == ASSUME RunsIInv, NEW a \in Acquirer, AcquirerDies(a) PROVE RunsIInv'
<1>1. /\ UNCHANGED <<folder, today, mishaps>>
      /\ registry' = registry \/ (registry = a /\ registry' = FreeRegistry)
  BY DEF AcquirerDies
<1>2. /\ Stands(a) /\ Onward(a, a) /\ registry' \in Acquirer \cup {FreeRegistry}
      /\ Refolded(a) /\ folder'[a] = folder[a]
  BY <1>1, Standing, MishapsStay, FolderStays DEF RunsIInv, RunsTyped
<1> DEFINE r == [acquirer[a] EXCEPT !.at = "dead"]
<1>3. acquirer' = [acquirer EXCEPT ![a] = r]
  BY <1>2 DEF Stands, AcquirerDies, Proceeds
<1>4. r \in AcquirerRecord /\ r.at = "dead" /\ r.late = acquirer[a].late
  <2>1. "dead" \in Stage
    BY DEF Stage
  <2> QED
    BY <1>2, <2>1 DEF Stands, AcquirerRecord
<1> HIDE DEF r
<1>5. Settled(r, folder'[a].state, Expired(a)', Leaked(a)', Unharmed(a)')
  BY <1>4 DEF Settled, Reserved, Folded, StillReserved, Orderly, Setting, Working, Recovering
<1>6. Doom(r, folder'[a].state, Expired(a)')
  BY <1>4 DEF Doom
<1> QED
  BY <1>1, <1>2, <1>3, <1>4, <1>5, <1>6, RowStep

LEMMA DaysPassKeeps == ASSUME RunsIInv, DaysPass PROVE RunsIInv'
<1>1. /\ UNCHANGED <<folder, acquirer, registry, mishaps>> /\ today' = today + 1 /\ RunsTyped
         /\ today \in 0..MaxToday /\ today < MaxToday
  BY DEF DaysPass, RunsIInv, RunsTyped
<1>2. RunsTyped'
  <2>1. today' \in 0..MaxToday
    BY <1>1
  <2> QED
    BY <1>1, <2>1 DEF RunsTyped
<1>3. ASSUME NEW a \in Acquirer, Expired(a) PROVE Expired(a)'
  <2>1. folder[a].made \in Nat /\ today \in Nat
    BY <1>1, FoldersTyped
  <2> QED
    BY <1>1, <1>3, <2>1 DEF Expired
<1>4. ASSUME NEW a \in Acquirer PROVE Sound(a)'
  <2>1. Sound(a) /\ Leaked(a)' = Leaked(a) /\ Unharmed(a)' = Unharmed(a)
    BY <1>1 DEF RunsIInv, Leaked, Unharmed
  <2>2. Folded(acquirer[a], folder[a].state, Expired(a)')
    BY <1>3, <2>1 DEF Sound, Settled, Folded
  <2> QED
    BY <1>1, <2>1, <2>2 DEF Sound, Settled
<1>5. Registered'
  BY <1>1 DEF RunsIInv, Registered
<1>6. Capped'
  <2>1. Listed' = Listed
    BY <1>1 DEF Listed, Folders, There
  <2> QED
    BY <1>1, <2>1 DEF RunsIInv, Capped, AtRun
<1>7. OnlyDoomedSwept'
  <2>1. \A b \in Acquirer : Doomed(b) => Doomed(b)'
    BY <1>1, <1>3 DEF Doomed, Doom
  <2> QED
    BY <1>1, <2>1 DEF RunsIInv, OnlyDoomedSwept
<1> QED
  BY <1>2, <1>4, <1>5, <1>6, <1>7 DEF RunsIInv

LEMMA RunsIInvNext == RunsIInv /\ [RunsNext]_runVars => RunsIInv'
<1> SUFFICES ASSUME RunsIInv, [RunsNext]_runVars PROVE RunsIInv'
  OBVIOUS
<1>1. CASE UNCHANGED runVars
  <2>1. UNCHANGED <<folder, acquirer, registry, mishaps, today>>
    BY <1>1 DEF runVars
  <2>2. RunsTyped' /\ Registered' /\ Capped'
    BY <2>1 DEF RunsIInv, RunsTyped, Registered, Capped, Listed, Folders, There, AtRun
  <2>3. (\A a \in Acquirer : Sound(a))' /\ OnlyDoomedSwept'
    BY <2>1 DEF RunsIInv, Sound, OnlyDoomedSwept, Doomed, Expired, Leaked, Unharmed
  <2> QED
    BY <2>2, <2>3 DEF RunsIInv
<1>2. CASE DaysPass
  BY <1>2, DaysPassKeeps
<1>3. ASSUME NEW a \in Acquirer, AcquirerDies(a) PROVE RunsIInv'
  BY <1>3, DiesKeeps
<1>4. ASSUME NEW a \in Acquirer, AcquireStep(a) PROVE RunsIInv'
  <2>1. CASE EnterRegistry(a) \/ EnterFails(a) \/ ListRuns(a) \/ MakeFolder(a) \/ MarkReserving(a) \/ MakeFails(a)
    BY <2>1, EnterKeeps, EnterFailsKeeps, ListKeeps, MakeKeeps, MarkKeeps, MakeFailsKeeps
  <2>2. CASE PublishReads(a) \/ PublishWrites(a) \/ PublishFails(a)
    BY <2>2, PublishReadsKeeps, PublishWritesKeeps, PublishFailsKeeps
  <2>3. CASE FetchReserves(a) \/ BareFails(a) \/ FetchFails(a) \/ FetchVerifies(a) \/ Select(a)
    BY <2>3, FetchReservesKeeps, BareFailsKeeps, FetchFailsKeeps, FetchVerifiesKeeps, SelectKeeps
  <2>4. CASE CleanReads(a) \/ CleanUnread(a) \/ CleanEmpties(a) \/ CleanRemoves(a) \/ CleanFails(a)
    BY <2>4, CleanReadsKeeps, CleanUnreadKeeps, CleanEmptiesKeeps, CleanRemovesKeeps, CleanFailsKeeps
  <2>5. CASE \/ RecoverLists(a) \/ Recover(a) \/ RecoverEmpties(a) \/ RecoverRemoves(a) \/ RecoverFails(a)
             \/ Return(a)
    BY <2>5, RecoverListsKeeps, RecoverKeeps, RecoverEmptiesKeeps, RecoverRemovesKeeps, RecoverFailsKeeps, ReturnKeeps
  <2> QED
    BY <1>4, <2>1, <2>2, <2>3, <2>4, <2>5 DEF AcquireStep
<1> QED
  BY <1>1, <1>2, <1>3, <1>4 DEF RunsNext

(* The registry of disposable folders is sound whoever shares it, dies or  *)
(* sleeps, and whatever the disk refuses: no more folders than the cap but *)
(* for acquisitions that slept or could not list; no folder removed under  *)
(* the acquisition that works in it in time; what stands on the disk       *)
(* always covered by what its acquisition has reserved; and an acquisition *)
(* that returned keeps the run's units only after an operation on its      *)
(* folder failed or a recovery took it, the fetch's only after the         *)
(* repository's folder could not be made (withDisposablePrRepository,      *)
(* recoverPrRunDirectories).                                               *)
THEOREM DisposableFoldersAreSafe == RunsSpec => []RunsInv
<1>1. RunsInit => RunsIInv
  BY RunsIInvInit
<1>2. RunsIInv /\ [RunsNext]_runVars => RunsIInv'
  BY RunsIInvNext
<1>3. RunsIInv => RunsInv
  BY RunsIInvImplies
<1> QED
  BY <1>1, <1>2, <1>3, PTL DEF RunsSpec

-----------------------------------------------------------------------------
(* A review.  Its operators are recursions over positions: what holds at   *)
(* none and from each position to the next holds at every one.             *)

\* A set of positions has a first one.
LEMMA SomeFirst ==
  ASSUME NEW S, S \subseteq Nat, S # {}
  PROVE  \E n \in S : \A k \in S : n <= k
<1> DEFINE R == OpToRel(<, Nat)
<1>1. PICK n \in S : \A k \in S : <<k, n>> \notin R
  <2>1. IsWellFoundedOn(R, Nat)
    BY NatLessThanWellFounded
  <2> HIDE DEF R
  <2> QED
    BY <2>1, WFMin
<1>2. ASSUME NEW k \in S  PROVE n <= k
  <2>1. ~(k < n)
    BY <1>1 DEF OpToRel
  <2>2. k \in Nat /\ n \in Nat
    OBVIOUS
  <2> QED
    BY <2>1, <2>2
<1> QED
  BY <1>2

\* Position by position.
LEMMA EveryPosition ==
  ASSUME NEW m \in Nat, NEW S, 0 \in S, \A n \in 1..m : n - 1 \in S => n \in S
  PROVE  \A n \in 0..m : n \in S
<1> DEFINE Bad == (0..m) \ S
<1>1. SUFFICES ASSUME Bad # {}  PROVE FALSE
  BY <1>1
<1>2. PICK n \in Bad : \A k \in Bad : n <= k
  <2>1. Bad \subseteq Nat
    OBVIOUS
  <2> HIDE DEF Bad
  <2> QED
    BY <1>1, <2>1, SomeFirst
<1>3. n \in 1..m /\ n - 1 \in 0..m /\ ~(n <= n - 1)
  BY <1>2
<1>4. n - 1 \notin Bad
  <2> HIDE DEF Bad
  <2> QED
    BY <1>2, <1>3
<1> QED
  BY <1>2, <1>3, <1>4

(* A recursion over positions, of a step that stays among some values, is  *)
(* of a function that exists.                                              *)
StaysIn(D, step, m) == \A a \in D, n \in 1..m : step[<<a, n>>] \in D
Steps(D, first, step, m, f) ==
  f \in [0..m -> D] /\ f[0] = first /\ \A n \in 1..m : f[n] = step[<<f[n - 1], n>>]

LEMMA SomeRun ==
  ASSUME NEW D, NEW first \in D, NEW m \in Nat, NEW step, StaysIn(D, step, m)
  PROVE  \E f : Steps(D, first, step, m, f)
<1>0. \A a \in D, n \in 1..m : step[<<a, n>>] \in D
  BY DEF StaysIn
<1> DEFINE Runs(f, k) == f \in [0..k -> D] /\ f[0] = first /\ \A n \in 1..k : f[n] = step[<<f[n - 1], n>>]
           S == {k \in 0..m : \E f : Runs(f, k)}
<1>1. 0 \in S
  <2> DEFINE f == [n \in 0..0 |-> first]
  <2>1. Runs(f, 0)
    OBVIOUS
  <2> HIDE DEF Runs
  <2> QED
    BY <2>1
<1>2. ASSUME NEW k \in 1..m, k - 1 \in S  PROVE k \in S
  <2>1. PICK g : Runs(g, k - 1)
    BY <1>2
  <2>2. k \in Nat /\ k - 1 \in 0..(k - 1) /\ k - 1 \in Nat
    OBVIOUS
  <2> DEFINE last == step[<<g[k - 1], k>>]
             f == [n \in 0..k |-> IF n = k THEN last ELSE g[n]]
  <2>3. last \in D
    <3>1. g[k - 1] \in D
      BY <2>1, <2>2
    <3> QED
      BY <1>0, <3>1
  <2>4. ASSUME NEW n \in 0..k  PROVE f[n] = (IF n = k THEN last ELSE g[n]) /\ f[n] \in D
    <3>1. CASE n = k
      BY <2>3, <3>1
    <3>2. CASE n # k
      <4>1. n \in 0..(k - 1)
        BY <2>2, <3>2
      <4>2. g[n] \in D
        BY <2>1, <4>1
      <4> QED
        BY <3>2, <4>2
    <3> QED
      BY <3>1, <3>2
  <2>5. f \in [0..k -> D]
    BY <2>4
  <2> HIDE DEF last, f
  <2>6. f[0] = first
    <3>1. 0 \in 0..k /\ 0 # k
      BY <2>2
    <3> QED
      BY <2>1, <2>4, <3>1
  <2>7. ASSUME NEW n \in 1..k  PROVE f[n] = step[<<f[n - 1], n>>]
    <3>1. n \in 0..k /\ n - 1 \in 0..k /\ n - 1 # k
      BY <2>2
    <3>2. f[n - 1] = g[n - 1]
      BY <2>4, <3>1
    <3>3. CASE n = k
      BY <2>4, <3>1, <3>2, <3>3 DEF last
    <3>4. CASE n # k
      <4>1. n \in 1..(k - 1)
        BY <2>2, <3>4
      <4>2. f[n] = g[n] /\ g[n] = step[<<g[n - 1], n>>]
        BY <2>1, <2>4, <3>1, <3>4, <4>1
      <4> QED
        BY <3>2, <4>2
    <3> QED
      BY <3>3, <3>4
  <2>8. Runs(f, k)
    BY <2>5, <2>6, <2>7
  <2> HIDE DEF Runs
  <2>9. k \in 0..m
    OBVIOUS
  <2> QED
    BY <2>8, <2>9
<1>3. m \in S
  <2>1. m \in 0..m
    OBVIOUS
  <2> HIDE DEF S
  <2>2. \A n \in 1..m : n - 1 \in S => n \in S
    BY <1>2
  <2> QED
    BY <1>1, <2>1, <2>2, EveryPosition
<1> QED
  BY <1>3 DEF Steps

Sections == Seq(Section)

LEMMA SectionFacts ==
  ASSUME NEW s \in Section
  PROVE  s.nr \in Nat /\ s.path \in Path /\ s.old \in Path /\ s.binary \in BOOLEAN /\ s.size \in Nat
  BY DEF Section

LEMMA SectionAt ==
  ASSUME NEW sections \in Sections
  PROVE  /\ Len(sections) \in Nat /\ DOMAIN sections = 1..Len(sections)
         /\ \A n \in 1..Len(sections) : sections[n] \in Section
  BY DEF Sections

SizesTo(sections, f, m) == f = [n \in 0..m |-> IF n = 0 THEN 0 ELSE f[n - 1] + sections[n].size]

\* The bytes of a diff are a number.
LEMMA SizeIsNat == ASSUME NEW sections \in Sections PROVE Size(sections) \in Nat
<1> DEFINE m == Len(sections)
           step == [p \in Nat \X (1..m) |-> p[1] + sections[p[2]].size]
<1>1. m \in Nat /\ \A n \in 1..m : sections[n].size \in Nat
  BY SectionAt, SectionFacts
<1>2. StaysIn(Nat, step, m)
  BY <1>1 DEF StaysIn
<1>3. \A a \in Nat, n \in 1..m : step[<<a, n>>] = a + sections[n].size
  OBVIOUS
<1> HIDE DEF m, step
<1>4. PICK f : Steps(Nat, 0, step, m, f)
  BY <1>1, <1>2, SomeRun
<1>5. ASSUME NEW n \in 0..m  PROVE f[n] = IF n = 0 THEN 0 ELSE f[n - 1] + sections[n].size
  <2>1. CASE n = 0
    BY <1>4, <2>1 DEF Steps
  <2>2. CASE n # 0
    <3>1. n \in 1..m /\ n - 1 \in 0..m
      BY <1>1, <2>2
    <3>2. f[n - 1] \in Nat
      BY <1>4, <3>1 DEF Steps
    <3> QED
      BY <1>3, <1>4, <2>2, <3>1, <3>2 DEF Steps
  <2> QED
    BY <2>1, <2>2
<1>6. SizesTo(sections, f, m)
  <2>1. f = [n \in 0..m |-> f[n]]
    BY <1>4 DEF Steps
  <2> QED
    BY <1>5, <2>1 DEF SizesTo
<1>7. PICK g : SizesTo(sections, g, m) /\ Size(sections) = g[m]
  BY <1>6 DEF SizesTo, Size, m
<1> DEFINE S == {n \in 0..m : g[n] \in Nat}
<1>8. 0 \in S
  BY <1>1, <1>7 DEF SizesTo
<1>9. ASSUME NEW n \in 1..m, n - 1 \in S  PROVE n \in S
  <2>1. n \in 0..m /\ n # 0
    BY <1>1
  <2>2. g[n] = g[n - 1] + sections[n].size
    BY <1>7, <2>1 DEF SizesTo
  <2> QED
    BY <1>1, <1>9, <2>1, <2>2
<1> HIDE DEF S
<1>10. \A n \in 0..m : n \in S
  BY <1>1, <1>8, <1>9, EveryPosition
<1>11. m \in S
  BY <1>1, <1>10
<1> QED
  BY <1>7, <1>11 DEF S
LEMMA ElementsOf ==
  ASSUME NEW sections \in Sections
  PROVE  /\ ToSet(sections) \subseteq Section
         /\ \A s : s \in ToSet(sections) <=> \E n \in 1..Len(sections) : sections[n] = s
         /\ Distinct(sections) <=> \A i, j \in 1..Len(sections) : sections[i].nr = sections[j].nr => i = j
  BY SectionAt DEF ToSet, Distinct

LEMMA NoSections == <<>> \in Sections /\ Len(<<>>) = 0 /\ ToSet(<<>>) = {} /\ Distinct(<<>>)
<1>1. <<>> \in Sections /\ Len(<<>>) = 0
  BY DEF Sections
<1> QED
  BY <1>1, ElementsOf

LEMMA OneMore ==
  ASSUME NEW t \in Sections, NEW s \in Section
  PROVE  /\ Append(t, s) \in Sections
         /\ ToSet(Append(t, s)) = ToSet(t) \cup {s}
         /\ Distinct(t) /\ (\A x \in ToSet(t) : x.nr # s.nr) => Distinct(Append(t, s))
<1> DEFINE u == Append(t, s)
           m == Len(t)
<1>1. /\ u \in Sections /\ m \in Nat /\ Len(u) = m + 1 /\ u[m + 1] = s
      /\ \A n \in 1..m : u[n] = t[n] /\ t[n] \in Section
  BY DEF Sections
<1> HIDE DEF u
<1>2. \A n \in 1..Len(u) : n = m + 1 \/ n \in 1..m
  BY <1>1
<1>3. \A x : x \in ToSet(t) <=> \E n \in 1..m : t[n] = x
  BY ElementsOf
<1>4. \A x : x \in ToSet(u) <=> \E n \in 1..Len(u) : u[n] = x
  BY <1>1, ElementsOf
<1> HIDE DEF m
<1>5. ToSet(u) = ToSet(t) \cup {s}
  <2>1. ASSUME NEW x \in ToSet(u)  PROVE x \in ToSet(t) \cup {s}
    <3>1. PICK n \in 1..Len(u) : u[n] = x
      BY <1>4, <2>1
    <3> QED
      BY <1>1, <1>2, <1>3, <3>1
  <2>2. ASSUME NEW x \in ToSet(t)  PROVE x \in ToSet(u)
    <3>1. PICK n \in 1..m : t[n] = x
      BY <1>3, <2>2
    <3>2. n \in 1..Len(u) /\ u[n] = x
      BY <1>1, <3>1
    <3> QED
      BY <1>4, <3>2
  <2>3. s \in ToSet(u)
    <3>1. m + 1 \in 1..Len(u)
      BY <1>1
    <3> QED
      BY <1>1, <1>4, <3>1
  <2> QED
    BY <2>1, <2>2, <2>3
<1>6. ASSUME Distinct(t), \A x \in ToSet(t) : x.nr # s.nr  PROVE Distinct(u)
  <2>1. \A i, j \in 1..m : t[i].nr = t[j].nr => i = j
    BY <1>6, ElementsOf DEF m
  <2>2. \A n \in 1..m : t[n].nr # s.nr
    BY <1>3, <1>6
  <2>3. ASSUME NEW i \in 1..Len(u), NEW j \in 1..Len(u), u[i].nr = u[j].nr  PROVE i = j
    <3>1. CASE i \in 1..m /\ j \in 1..m
      BY <1>1, <2>1, <2>3, <3>1
    <3>2. CASE i = m + 1 /\ j \in 1..m
      BY <1>1, <2>2, <2>3, <3>2
    <3>3. CASE j = m + 1 /\ i \in 1..m
      BY <1>1, <2>2, <2>3, <3>3
    <3> QED
      BY <1>2, <3>1, <3>2, <3>3
  <2> QED
    BY <1>1, <2>3, ElementsOf
<1> QED
  BY <1>1, <1>5, <1>6 DEF u

LEMMA Joined ==
  ASSUME NEW t \in Sections, NEW u \in Sections
  PROVE  /\ t \o u \in Sections
         /\ ToSet(t \o u) = ToSet(t) \cup ToSet(u)
         /\ Distinct(t) /\ Distinct(u) /\ (\A x \in ToSet(t), y \in ToSet(u) : x.nr # y.nr) => Distinct(t \o u)
<1> DEFINE v == t \o u
           m == Len(t)
           k == Len(u)
<1>1. /\ v \in Sections /\ m \in Nat /\ k \in Nat /\ Len(v) = m + k
      /\ (\A n \in 1..m : v[n] = t[n]) /\ (\A n \in (m + 1)..(m + k) : v[n] = u[n - m])
  BY DEF Sections
<1>2. \A x : x \in ToSet(t) <=> \E n \in 1..m : t[n] = x
  BY ElementsOf
<1>3. \A x : x \in ToSet(u) <=> \E n \in 1..k : u[n] = x
  BY ElementsOf
<1> HIDE DEF v
<1>4. \A x : x \in ToSet(v) <=> \E n \in 1..Len(v) : v[n] = x
  BY <1>1, ElementsOf
<1>5. \A n \in 1..Len(v) : n \in 1..m \/ (n \in (m + 1)..(m + k) /\ n - m \in 1..k)
  BY <1>1
<1> HIDE DEF m, k
<1>6. ToSet(v) = ToSet(t) \cup ToSet(u)
  <2>1. ASSUME NEW x \in ToSet(v)  PROVE x \in ToSet(t) \cup ToSet(u)
    <3>1. PICK n \in 1..Len(v) : v[n] = x
      BY <1>4, <2>1
    <3>2. CASE n \in 1..m
      BY <1>1, <1>2, <3>1, <3>2
    <3>3. CASE n \in (m + 1)..(m + k) /\ n - m \in 1..k
      BY <1>1, <1>3, <3>1, <3>3
    <3> QED
      BY <1>5, <3>1, <3>2, <3>3
  <2>2. ASSUME NEW x \in ToSet(t)  PROVE x \in ToSet(v)
    <3>1. PICK n \in 1..m : t[n] = x
      BY <1>2, <2>2
    <3>2. n \in 1..Len(v) /\ v[n] = x
      BY <1>1, <3>1
    <3> QED
      BY <1>4, <3>2
  <2>3. ASSUME NEW x \in ToSet(u)  PROVE x \in ToSet(v)
    <3>1. PICK n \in 1..k : u[n] = x
      BY <1>3, <2>3
    <3>2. m + n \in 1..Len(v) /\ m + n \in (m + 1)..(m + k) /\ (m + n) - m = n
      BY <1>1, <3>1
    <3>3. v[m + n] = x
      BY <1>1, <3>1, <3>2
    <3> QED
      BY <1>4, <3>2, <3>3
  <2> QED
    BY <2>1, <2>2, <2>3
<1>7. ASSUME Distinct(t), Distinct(u), \A x \in ToSet(t), y \in ToSet(u) : x.nr # y.nr  PROVE Distinct(v)
  <2>1. \A i, j \in 1..m : t[i].nr = t[j].nr => i = j
    BY <1>7, ElementsOf DEF m
  <2>2. \A i, j \in 1..k : u[i].nr = u[j].nr => i = j
    BY <1>7, ElementsOf DEF k
  <2>3. \A i \in 1..m, j \in 1..k : t[i].nr # u[j].nr
    BY <1>2, <1>3, <1>7
  <2>4. ASSUME NEW i \in 1..Len(v), NEW j \in 1..Len(v), v[i].nr = v[j].nr  PROVE i = j
    <3>1. CASE i \in 1..m /\ j \in 1..m
      BY <1>1, <2>1, <2>4, <3>1
    <3>2. CASE i \in 1..m /\ j \in (m + 1)..(m + k) /\ j - m \in 1..k
      BY <1>1, <2>3, <2>4, <3>2
    <3>3. CASE j \in 1..m /\ i \in (m + 1)..(m + k) /\ i - m \in 1..k
      BY <1>1, <2>3, <2>4, <3>3
    <3>4. CASE i \in (m + 1)..(m + k) /\ i - m \in 1..k /\ j \in (m + 1)..(m + k) /\ j - m \in 1..k
      <4>1. i - m = j - m
        BY <1>1, <2>2, <2>4, <3>4
      <4> QED
        BY <1>1, <3>4, <4>1
    <3> QED
      BY <1>5, <3>1, <3>2, <3>3, <3>4
  <2> QED
    BY <1>1, <2>4, ElementsOf
<1> QED
  BY <1>1, <1>6, <1>7 DEF v

OnlyTo(sections, S, f, m) ==
  f = [n \in 0..m |-> IF n = 0 THEN <<>>
                      ELSE IF sections[n] \in S THEN Append(f[n - 1], sections[n]) ELSE f[n - 1]]

\* The recursion of Only is of a function that exists.
LEMMA OnlyIsRun ==
  ASSUME NEW sections \in Sections, NEW S
  PROVE  \E f : OnlyTo(sections, S, f, Len(sections)) /\ Only(sections, S) = f[Len(sections)]
<1> DEFINE m == Len(sections)
           next(a, n) == IF sections[n] \in S THEN Append(a, sections[n]) ELSE a
           step == [p \in Sections \X (1..m) |-> next(p[1], p[2])]
<1>1. m \in Nat /\ \A n \in 1..m : sections[n] \in Section
  BY SectionAt
<1>2. \A a \in Sections, n \in 1..m : step[<<a, n>>] = next(a, n)
  OBVIOUS
<1>3. ASSUME NEW a \in Sections, NEW n \in 1..m  PROVE next(a, n) \in Sections
  <2>1. Append(a, sections[n]) \in Sections
    BY <1>1, OneMore
  <2> QED
    BY <2>1
<1>4. <<>> \in Sections
  BY NoSections
<1> HIDE DEF m, step, next
<1>5. StaysIn(Sections, step, m)
  BY <1>2, <1>3 DEF StaysIn
<1>6. PICK f : Steps(Sections, <<>>, step, m, f)
  BY <1>1, <1>4, <1>5, SomeRun
<1>7. ASSUME NEW n \in 0..m  PROVE f[n] = IF n = 0 THEN <<>> ELSE next(f[n - 1], n)
  <2>1. CASE n = 0
    BY <1>6, <2>1 DEF Steps
  <2>2. CASE n # 0
    <3>1. n \in 1..m /\ n - 1 \in 0..m
      BY <1>1, <2>2
    <3>2. f[n - 1] \in Sections
      BY <1>6, <3>1 DEF Steps
    <3>3. f[n] = step[<<f[n - 1], n>>]
      BY <1>6, <3>1 DEF Steps
    <3> QED
      BY <1>2, <2>2, <3>1, <3>2, <3>3
  <2> QED
    BY <2>1, <2>2
<1>8. OnlyTo(sections, S, f, m)
  <2>1. f = [n \in 0..m |-> f[n]]
    BY <1>6 DEF Steps
  <2>2. f = [n \in 0..m |-> IF n = 0 THEN <<>> ELSE next(f[n - 1], n)]
    BY <1>7, <2>1
  <2> QED
    BY <2>2 DEF OnlyTo, next
<1> QED
  BY <1>8 DEF OnlyTo, Only, m

\* What is picked is what is asked for of what is there, once if it is there once.
LEMMA OnlyPicks ==
  ASSUME NEW sections \in Sections, NEW S
  PROVE  /\ Only(sections, S) \in Sections
         /\ ToSet(Only(sections, S)) = ToSet(sections) \cap S
         /\ Distinct(sections) => Distinct(Only(sections, S))
<1> DEFINE m == Len(sections)
<1>1. PICK f : OnlyTo(sections, S, f, m) /\ Only(sections, S) = f[m]
  BY OnlyIsRun
<1>2. m \in Nat /\ \A n \in 1..m : sections[n] \in Section
  BY SectionAt
<1> HIDE DEF m
<1> DEFINE Good(n) == /\ f[n] \in Sections
                      /\ \A s : s \in ToSet(f[n]) <=> s \in S /\ \E k \in 1..n : sections[k] = s
                      /\ Distinct(sections) => Distinct(f[n])
           G == {n \in 0..m : Good(n)}
<1>3. f[0] = <<>>
  <2>1. 0 \in 0..m
    BY <1>2
  <2> QED
    BY <1>1, <2>1 DEF OnlyTo
<1>4. ASSUME NEW n \in 1..m  PROVE f[n] = IF sections[n] \in S THEN Append(f[n - 1], sections[n]) ELSE f[n - 1]
  <2>1. n \in 0..m /\ n # 0
    BY <1>2
  <2> QED
    BY <1>1, <2>1 DEF OnlyTo
<1>5. 0 \in G
  <2>1. Good(0)
    BY <1>3, NoSections
  <2> HIDE DEF Good
  <2> QED
    BY <1>2, <2>1
<1>6. ASSUME NEW n \in 1..m, n - 1 \in G  PROVE n \in G
  <2>1. Good(n - 1)
    BY <1>6
  <2>2. sections[n] \in Section /\ n \in Nat /\ n \in 0..m
    BY <1>2
  <2>3. \A k \in 1..n : k = n \/ k \in 1..(n - 1)
    BY <2>2
  <2>4. \A k \in 1..(n - 1) : k \in 1..n /\ k \in 1..m /\ k # n
    BY <2>2, <1>2
  <2>5. n \in 1..n
    BY <2>2
  <2>6. CASE sections[n] \notin S
    <3>1. f[n] = f[n - 1]
      BY <1>4, <2>6
    <3>2. Good(n)
      BY <2>1, <2>3, <2>4, <2>6, <3>1
    <3> HIDE DEF Good
    <3> QED
      BY <2>2, <3>2
  <2>7. CASE sections[n] \in S
    <3>1. f[n] = Append(f[n - 1], sections[n])
      BY <1>4, <2>7
    <3>2. /\ f[n] \in Sections /\ ToSet(f[n]) = ToSet(f[n - 1]) \cup {sections[n]}
          /\ Distinct(f[n - 1]) /\ (\A x \in ToSet(f[n - 1]) : x.nr # sections[n].nr) => Distinct(f[n])
      <4> DEFINE picked == f[n - 1]
                 next == sections[n]
      <4>1. picked \in Sections /\ next \in Section /\ f[n] = Append(picked, next)
        BY <2>1, <2>2, <3>1
      <4> HIDE DEF picked, next
      <4>2. /\ Append(picked, next) \in Sections /\ ToSet(Append(picked, next)) = ToSet(picked) \cup {next}
            /\ Distinct(picked) /\ (\A x \in ToSet(picked) : x.nr # next.nr) => Distinct(Append(picked, next))
        BY <4>1, OneMore
      <4> QED
        BY <4>1, <4>2 DEF picked, next
    <3>3. \A s : s \in ToSet(f[n]) <=> s \in S /\ \E k \in 1..n : sections[k] = s
      <4>1. \A s : s \in ToSet(f[n]) <=> s \in ToSet(f[n - 1]) \/ s = sections[n]
        BY <3>2
      <4>2. \A s : s \in ToSet(f[n - 1]) <=> s \in S /\ \E k \in 1..(n - 1) : sections[k] = s
        BY <2>1
      <4>3. \A s : (\E k \in 1..n : sections[k] = s) <=> s = sections[n] \/ \E k \in 1..(n - 1) : sections[k] = s
        BY <2>3, <2>4, <2>5
      <4> QED
        BY <2>7, <4>1, <4>2, <4>3
    <3>4. ASSUME Distinct(sections)  PROVE Distinct(f[n])
      <4>1. \A i, j \in 1..m : sections[i].nr = sections[j].nr => i = j
        BY <3>4, ElementsOf DEF m
      <4>2. ASSUME NEW x \in ToSet(f[n - 1])  PROVE x.nr # sections[n].nr
        <5>1. PICK k \in 1..(n - 1) : sections[k] = x
          BY <2>1
        <5>2. k \in 1..m /\ k # n
          BY <2>4
        <5> QED
          BY <4>1, <5>1, <5>2
      <4> QED
        BY <2>1, <3>2, <3>4, <4>2
    <3>5. Good(n)
      BY <3>2, <3>3, <3>4
    <3> HIDE DEF Good
    <3> QED
      BY <2>2, <3>5
  <2> QED
    BY <2>6, <2>7
<1>7. Good(m)
  <2>1. m \in 0..m
    BY <1>2
  <2> HIDE DEF G
  <2>2. \A n \in 0..m : n \in G
    BY <1>2, <1>5, <1>6, EveryPosition
  <2>3. m \in G
    BY <2>1, <2>2
  <2> QED
    BY <2>3 DEF G
<1>8. \A s : s \in ToSet(sections) <=> \E k \in 1..m : sections[k] = s
  BY ElementsOf DEF m
<1>9. ToSet(f[m]) = ToSet(sections) \cap S
  BY <1>7, <1>8
<1> QED
  BY <1>1, <1>7, <1>9

FilesTo(sections, f, m) ==
  f = [n \in 0..m |-> IF n = 0 THEN <<>>
                      ELSE IF sections[n].path \in ToSet(f[n - 1]) THEN f[n - 1]
                           ELSE Append(f[n - 1], sections[n].path)]

LEMMA FilesAreRun ==
  ASSUME NEW sections \in Sections
  PROVE  \E f : FilesTo(sections, f, Len(sections)) /\ Files(sections) = f[Len(sections)]
<1> DEFINE m == Len(sections)
           D == Seq(Path)
           next(a, n) == IF sections[n].path \in ToSet(a) THEN a ELSE Append(a, sections[n].path)
           step == [p \in D \X (1..m) |-> next(p[1], p[2])]
<1>1. m \in Nat /\ \A n \in 1..m : sections[n].path \in Path
  BY SectionAt, SectionFacts
<1>2. \A a \in D, n \in 1..m : step[<<a, n>>] = next(a, n)
  OBVIOUS
<1>3. ASSUME NEW a \in D, NEW n \in 1..m  PROVE next(a, n) \in D
  <2>1. Append(a, sections[n].path) \in D
    BY <1>1
  <2> QED
    BY <2>1
<1>4. <<>> \in D
  OBVIOUS
<1> HIDE DEF m, step, next, D
<1>5. StaysIn(D, step, m)
  BY <1>2, <1>3 DEF StaysIn
<1>6. PICK f : Steps(D, <<>>, step, m, f)
  BY <1>1, <1>4, <1>5, SomeRun
<1>7. ASSUME NEW n \in 0..m  PROVE f[n] = IF n = 0 THEN <<>> ELSE next(f[n - 1], n)
  <2>1. CASE n = 0
    BY <1>6, <2>1 DEF Steps
  <2>2. CASE n # 0
    <3>1. n \in 1..m /\ n - 1 \in 0..m
      BY <1>1, <2>2
    <3>2. f[n - 1] \in D
      BY <1>6, <3>1 DEF Steps
    <3>3. f[n] = step[<<f[n - 1], n>>]
      BY <1>6, <3>1 DEF Steps
    <3> QED
      BY <1>2, <2>2, <3>1, <3>2, <3>3
  <2> QED
    BY <2>1, <2>2
<1>8. FilesTo(sections, f, m)
  <2>1. f = [n \in 0..m |-> f[n]]
    BY <1>6 DEF Steps
  <2>2. f = [n \in 0..m |-> IF n = 0 THEN <<>> ELSE next(f[n - 1], n)]
    BY <1>7, <2>1
  <2> QED
    BY <2>2 DEF FilesTo, next
<1> QED
  BY <1>8 DEF FilesTo, Files, m

\* The names in `files` are different and include those of all sections up to n.
Lists(files, sections, n) ==
  /\ files \in Seq(Path)
  /\ \A i, j \in 1..Len(files) : files[i] = files[j] => i = j
  /\ \A k \in 1..n : \E i \in 1..Len(files) : files[i] = sections[k].path

LEMMA FilesListed == ASSUME NEW sections \in Sections PROVE Lists(Files(sections), sections, Len(sections))
<1> DEFINE m == Len(sections)
<1>1. PICK f : FilesTo(sections, f, m) /\ Files(sections) = f[m]
  BY FilesAreRun
<1>2. m \in Nat /\ \A n \in 1..m : sections[n].path \in Path
  BY SectionAt, SectionFacts
<1> HIDE DEF m
<1> DEFINE G == {n \in 0..m : Lists(f[n], sections, n)}
<1>3. 0 \in G
  <2>1. 0 \in 0..m
    BY <1>2
  <2>2. f[0] = <<>>
    BY <1>1, <2>1 DEF FilesTo
  <2>3. <<>> \in Seq(Path) /\ Len(<<>>) = 0
    OBVIOUS
  <2>4. Lists(<<>>, sections, 0)
    BY <2>3 DEF Lists
  <2> QED
    BY <2>1, <2>2, <2>4
<1>4. ASSUME NEW n \in 1..m, n - 1 \in G  PROVE n \in G
  <2> DEFINE old == f[n - 1]
             new == f[n]
             path == sections[n].path
             k == Len(old)
  <2>1. n \in 0..m /\ n # 0 /\ n \in Nat
    BY <1>2
  <2>2. new = IF path \in ToSet(old) THEN old ELSE Append(old, path)
    BY <1>1, <2>1 DEF FilesTo
  <2>3. Lists(old, sections, n - 1)
    BY <1>4
  <2>4. path \in Path
    BY <1>2
  <2>5. \A i \in 1..n : i = n \/ i \in 1..(n - 1)
    BY <2>1
  <2> HIDE DEF old, new
  <2>6. k \in Nat /\ DOMAIN old = 1..k /\ old \in Seq(Path)
    BY <2>3 DEF Lists
  <2>7. CASE path \in ToSet(old)
    <3>1. \E i \in 1..k : old[i] = sections[n].path
      BY <2>6, <2>7 DEF ToSet
    <3>2. Lists(old, sections, n)
      BY <2>3, <2>5, <3>1 DEF Lists
    <3> QED
      BY <2>1, <2>2, <2>7, <3>2 DEF new
  <2>8. CASE path \notin ToSet(old)
    <3>1. new = Append(old, path)
      BY <2>2, <2>8
    <3>2. /\ new \in Seq(Path) /\ Len(new) = k + 1 /\ new[k + 1] = path
          /\ \A i \in 1..k : new[i] = old[i]
      BY <2>4, <2>6, <3>1
    <3>3. \A i \in 1..k : old[i] # path
      BY <2>6, <2>8 DEF ToSet
    <3> HIDE DEF path, k
    <3>4. \A i \in 1..Len(new) : i = k + 1 \/ i \in 1..k
      BY <2>6, <3>2
    <3>5. \A i, j \in 1..k : old[i] = old[j] => i = j
      BY <2>3 DEF Lists, k
    <3>6. \A i, j \in 1..Len(new) : new[i] = new[j] => i = j
      BY <3>2, <3>3, <3>4, <3>5
    <3>7. ASSUME NEW x \in 1..n  PROVE \E i \in 1..Len(new) : new[i] = sections[x].path
      <4>1. CASE x = n
        <5>1. k + 1 \in 1..Len(new)
          BY <2>6, <3>2
        <5> QED
          BY <3>2, <4>1, <5>1 DEF path
      <4>2. CASE x \in 1..(n - 1)
        <5>1. PICK i \in 1..k : old[i] = sections[x].path
          BY <2>3, <4>2 DEF Lists, k
        <5>2. i \in 1..Len(new) /\ new[i] = old[i]
          BY <2>6, <3>2, <5>1
        <5> QED
          BY <5>1, <5>2
      <4> QED
        BY <2>5, <4>1, <4>2
    <3>8. Lists(new, sections, n)
      BY <3>2, <3>6, <3>7 DEF Lists
    <3> QED
      BY <2>1, <3>8 DEF new
  <2> QED
    BY <2>7, <2>8
<1>5. m \in G
  <2>1. m \in 0..m
    BY <1>2
  <2> HIDE DEF G
  <2>2. \A n \in 0..m : n \in G
    BY <1>2, <1>3, <1>4, EveryPosition
  <2> QED
    BY <2>1, <2>2
<1> QED
  BY <1>1, <1>5 DEF m

LEMMA DifferentNumbers ==
  ASSUME NEW sections \in Sections, Distinct(sections), NEW x \in ToSet(sections), NEW y \in ToSet(sections), x.nr = y.nr
  PROVE  x = y
<1>1. PICK i \in 1..Len(sections) : sections[i] = x
  BY ElementsOf
<1>2. PICK j \in 1..Len(sections) : sections[j] = y
  BY ElementsOf
<1>3. i = j
  BY <1>1, <1>2, ElementsOf
<1> QED
  BY <1>1, <1>2, <1>3

\* The whole of a file is all that the change says of it.
LEMMA WholeIs ==
  ASSUME NEW sections \in Sections, Distinct(sections), NEW file
  PROVE  /\ Whole(sections, file) \in Sections /\ Distinct(Whole(sections, file))
         /\ \A s : s \in ToSet(Whole(sections, file)) <=> s \in ToSet(sections) /\ s.path = file
<1> DEFINE S == {s \in ToSet(sections) : s.path = file}
<1>1. Whole(sections, file) = Only(sections, S)
  BY DEF Whole
<1> HIDE DEF S
<1>2. /\ Only(sections, S) \in Sections /\ Distinct(Only(sections, S))
      /\ ToSet(Only(sections, S)) = ToSet(sections) \cap S
  BY OnlyPicks
<1> QED
  BY <1>1, <1>2 DEF S

\* `parts` hold whole files among the first n, each file in one part.
Parts(parts, sections, files, n) ==
  /\ parts \in Seq(Sections)
  /\ \A i \in 1..Len(parts) : Distinct(parts[i]) /\ ToSet(parts[i]) \subseteq ToSet(sections)
  /\ \A i, j \in 1..Len(parts) : i # j => \A s \in ToSet(parts[i]), t \in ToSet(parts[j]) : s.path # t.path
  /\ \A i \in 1..Len(parts) : \A s \in ToSet(parts[i]) : \E k \in 1..n : files[k] = s.path
HoldAll(parts, sections, files, n) ==
  \A s \in ToSet(sections) : (\E k \in 1..n : files[k] = s.path) => \E i \in 1..Len(parts) : s \in ToSet(parts[i])

\* The pack of one more file: as a part of its own, or in the last part.
LEMMA PartAdded ==
  ASSUME NEW sections \in Sections, Distinct(sections), NEW files, NEW n \in Nat \ {0},
         NEW parts, Parts(parts, sections, files, n - 1), \A k \in 1..(n - 1) : files[k] # files[n]
  PROVE  /\ Parts(parts, sections, files, n)
         /\ LET new == Append(parts, Whole(sections, files[n]))
            IN  /\ Parts(new, sections, files, n)
                /\ HoldAll(parts, sections, files, n - 1) => HoldAll(new, sections, files, n)
<1> DEFINE whole == Whole(sections, files[n])
           new == Append(parts, whole)
           m == Len(parts)
<1>1. /\ whole \in Sections /\ Distinct(whole)
      /\ \A s : s \in ToSet(whole) <=> s \in ToSet(sections) /\ s.path = files[n]
  BY WholeIs
<1> HIDE DEF whole
<1>2. parts \in Seq(Sections) /\ m \in Nat
  BY DEF Parts
<1>3. new \in Seq(Sections) /\ Len(new) = m + 1 /\ new[m + 1] = whole /\ \A i \in 1..m : new[i] = parts[i]
  BY <1>1, <1>2
<1>4. /\ \A i \in 1..m : Distinct(parts[i]) /\ ToSet(parts[i]) \subseteq ToSet(sections)
      /\ \A i, j \in 1..m : i # j => \A s \in ToSet(parts[i]), t \in ToSet(parts[j]) : s.path # t.path
      /\ \A i \in 1..m : \A s \in ToSet(parts[i]) : \E k \in 1..(n - 1) : files[k] = s.path
  BY DEF Parts
<1>5. (\A k \in 1..(n - 1) : k \in 1..n) /\ n \in 1..n /\ \A k \in 1..n : k = n \/ k \in 1..(n - 1)
  OBVIOUS
<1>6. \A i \in 1..m : \A s \in ToSet(parts[i]) : \E k \in 1..n : files[k] = s.path
  BY <1>4, <1>5
<1>7. Parts(parts, sections, files, n)
  BY <1>2, <1>4, <1>6 DEF Parts
<1> HIDE DEF new, m
<1>8. \A i \in 1..Len(new) : i = m + 1 \/ i \in 1..m
  BY <1>2, <1>3
<1>9. Parts(new, sections, files, n)
  <2>1. \A i \in 1..Len(new) : Distinct(new[i]) /\ ToSet(new[i]) \subseteq ToSet(sections)
    BY <1>1, <1>3, <1>4, <1>8
  <2>2. \A i \in 1..m : \A s \in ToSet(parts[i]), t \in ToSet(whole) : s.path # t.path
    BY <1>1, <1>4
  <2>3. ASSUME NEW i \in 1..Len(new), NEW j \in 1..Len(new), i # j,
               NEW s \in ToSet(new[i]), NEW t \in ToSet(new[j])
        PROVE  s.path # t.path
    <3>1. CASE i \in 1..m /\ j \in 1..m
      BY <1>3, <1>4, <2>3, <3>1
    <3>2. CASE i \in 1..m /\ j = m + 1
      BY <1>3, <2>2, <2>3, <3>2
    <3>3. CASE i = m + 1 /\ j \in 1..m
      BY <1>3, <2>2, <2>3, <3>3
    <3> QED
      BY <1>8, <2>3, <3>1, <3>2, <3>3
  <2>4. \A i \in 1..Len(new) : \A s \in ToSet(new[i]) : \E k \in 1..n : files[k] = s.path
    BY <1>1, <1>3, <1>5, <1>6, <1>8
  <2> QED
    BY <1>3, <2>1, <2>3, <2>4 DEF Parts
<1>10. ASSUME HoldAll(parts, sections, files, n - 1)  PROVE HoldAll(new, sections, files, n)
  <2>1. ASSUME NEW s \in ToSet(sections), NEW k \in 1..n, files[k] = s.path
        PROVE  \E i \in 1..Len(new) : s \in ToSet(new[i])
    <3>1. CASE k = n
      <4>1. s \in ToSet(whole) /\ m + 1 \in 1..Len(new)
        BY <1>1, <1>2, <1>3, <2>1, <3>1
      <4> QED
        BY <1>3, <4>1
    <3>2. CASE k \in 1..(n - 1)
      <4>1. PICK i \in 1..m : s \in ToSet(parts[i])
        BY <1>10, <2>1, <3>2 DEF HoldAll, m
      <4>2. i \in 1..Len(new) /\ new[i] = parts[i]
        BY <1>2, <1>3, <4>1
      <4> QED
        BY <4>1, <4>2
    <3> QED
      BY <1>5, <3>1, <3>2
  <2> QED
    BY <2>1 DEF HoldAll
<1> QED
  BY <1>7, <1>9, <1>10 DEF new, whole

LEMMA PartGrown ==
  ASSUME NEW sections \in Sections, Distinct(sections), NEW files, NEW n \in Nat \ {0},
         NEW shut \in Seq(Sections), NEW now \in Sections,
         Parts(Append(shut, now), sections, files, n - 1), \A k \in 1..(n - 1) : files[k] # files[n]
  PROVE  LET new == Append(shut, now \o Whole(sections, files[n]))
         IN  /\ Parts(new, sections, files, n)
             /\ HoldAll(Append(shut, now), sections, files, n - 1) => HoldAll(new, sections, files, n)
<1> DEFINE whole == Whole(sections, files[n])
           old == Append(shut, now)
           new == Append(shut, now \o whole)
           m == Len(shut)
<1>1. /\ whole \in Sections /\ Distinct(whole)
      /\ \A s : s \in ToSet(whole) <=> s \in ToSet(sections) /\ s.path = files[n]
  BY WholeIs
<1> HIDE DEF whole
<1>2. /\ old \in Seq(Sections) /\ m \in Nat /\ Len(old) = m + 1 /\ old[m + 1] = now
      /\ \A i \in 1..m : old[i] = shut[i]
  OBVIOUS
<1>3. /\ now \o whole \in Sections /\ ToSet(now \o whole) = ToSet(now) \cup ToSet(whole)
      /\ Distinct(now) /\ Distinct(whole) /\ (\A x \in ToSet(now), y \in ToSet(whole) : x.nr # y.nr) => Distinct(now \o whole)
  BY <1>1, Joined
<1>4. /\ new \in Seq(Sections) /\ Len(new) = m + 1 /\ new[m + 1] = now \o whole
      /\ \A i \in 1..m : new[i] = shut[i]
  BY <1>3
<1>5. /\ \A i \in 1..Len(old) : Distinct(old[i]) /\ ToSet(old[i]) \subseteq ToSet(sections)
      /\ \A i, j \in 1..Len(old) : i # j => \A s \in ToSet(old[i]), t \in ToSet(old[j]) : s.path # t.path
      /\ \A i \in 1..Len(old) : \A s \in ToSet(old[i]) : \E k \in 1..(n - 1) : files[k] = s.path
  BY DEF Parts
<1> HIDE DEF old, new, m
<1>6. \A i \in 1..(m + 1) : i = m + 1 \/ i \in 1..m
  BY <1>2
<1>7. m + 1 \in 1..(m + 1) /\ (\A i \in 1..m : i \in 1..(m + 1) /\ i # m + 1)
  BY <1>2
<1>8. (\A k \in 1..(n - 1) : k \in 1..n) /\ n \in 1..n /\ \A k \in 1..n : k = n \/ k \in 1..(n - 1)
  OBVIOUS
<1>9. \A i \in 1..(m + 1) : \A s \in ToSet(old[i]) : s.path # files[n] /\ s \in ToSet(sections)
  <2>1. ASSUME NEW i \in 1..(m + 1), NEW s \in ToSet(old[i])  PROVE s.path # files[n] /\ s \in ToSet(sections)
    <3>1. PICK k \in 1..(n - 1) : files[k] = s.path
      BY <1>2, <1>5, <2>1
    <3> QED
      BY <1>2, <1>5, <2>1, <3>1
  <2> QED
    BY <2>1
<1>10. Distinct(now \o whole)
  <2>1. \A x \in ToSet(now) : x.path # files[n] /\ x \in ToSet(sections)
    BY <1>2, <1>7, <1>9
  <2>2. ASSUME NEW x \in ToSet(now), NEW y \in ToSet(whole)  PROVE x.nr # y.nr
    <3>1. x \in ToSet(sections) /\ y \in ToSet(sections) /\ x # y
      BY <1>1, <2>1
    <3> QED
      BY <3>1, DifferentNumbers
  <2>3. Distinct(now)
    BY <1>2, <1>5, <1>7
  <2> QED
    BY <1>1, <1>3, <2>2, <2>3
<1>11. \A i \in 1..(m + 1) : \A s \in ToSet(new[i]) : s \in ToSet(old[i]) \/ (i = m + 1 /\ s \in ToSet(whole))
  BY <1>2, <1>3, <1>4, <1>6
<1>12. \A i \in 1..(m + 1) : \A s \in ToSet(old[i]) : s \in ToSet(new[i])
  BY <1>2, <1>3, <1>4, <1>6
<1>13. Parts(new, sections, files, n)
  <2>1. \A i \in 1..Len(new) : Distinct(new[i]) /\ ToSet(new[i]) \subseteq ToSet(sections)
    <3>1. ASSUME NEW i \in 1..(m + 1)  PROVE Distinct(new[i])
      <4>1. CASE i = m + 1
        BY <1>4, <1>10, <4>1
      <4>2. CASE i \in 1..m
        <5>1. new[i] = old[i] /\ i \in 1..Len(old)
          BY <1>2, <1>4, <1>7, <4>2
        <5> QED
          BY <1>5, <5>1
      <4> QED
        BY <1>6, <4>1, <4>2
    <3>2. ASSUME NEW i \in 1..(m + 1), NEW s \in ToSet(new[i])  PROVE s \in ToSet(sections)
      BY <1>1, <1>9, <1>11
    <3> QED
      BY <1>4, <3>1, <3>2
  <2>2. ASSUME NEW i \in 1..Len(new), NEW j \in 1..Len(new), i # j,
               NEW s \in ToSet(new[i]), NEW t \in ToSet(new[j])
        PROVE  s.path # t.path
    <3>0. i \in 1..(m + 1) /\ j \in 1..(m + 1)
      BY <1>4
    <3>1. CASE s \in ToSet(old[i]) /\ t \in ToSet(old[j])
      BY <1>2, <1>5, <2>2, <3>0, <3>1
    <3>2. CASE s \in ToSet(old[i]) /\ t \in ToSet(whole)
      BY <1>1, <1>9, <3>0, <3>2
    <3>3. CASE s \in ToSet(whole) /\ t \in ToSet(old[j])
      BY <1>1, <1>9, <3>0, <3>3
    <3> QED
      BY <1>11, <2>2, <3>0, <3>1, <3>2, <3>3
  <2>3. ASSUME NEW i \in 1..Len(new), NEW s \in ToSet(new[i])  PROVE \E k \in 1..n : files[k] = s.path
    <3>0. i \in 1..(m + 1)
      BY <1>4
    <3>1. CASE s \in ToSet(old[i])
      <4>1. PICK k \in 1..(n - 1) : files[k] = s.path
        BY <1>2, <1>5, <3>0, <3>1
      <4> QED
        BY <1>8, <4>1
    <3>2. CASE s \in ToSet(whole)
      BY <1>1, <1>8, <3>2
    <3> QED
      BY <1>11, <2>3, <3>0, <3>1, <3>2
  <2> QED
    BY <1>4, <2>1, <2>2, <2>3 DEF Parts
<1>14. ASSUME HoldAll(old, sections, files, n - 1)  PROVE HoldAll(new, sections, files, n)
  <2>1. ASSUME NEW s \in ToSet(sections), NEW k \in 1..n, files[k] = s.path
        PROVE  \E i \in 1..Len(new) : s \in ToSet(new[i])
    <3>1. CASE k = n
      <4>1. s \in ToSet(whole) /\ m + 1 \in 1..Len(new)
        BY <1>1, <1>4, <1>7, <2>1, <3>1
      <4>2. s \in ToSet(new[m + 1])
        BY <1>3, <1>4, <4>1
      <4> QED
        BY <4>1, <4>2
    <3>2. CASE k \in 1..(n - 1)
      <4>1. PICK i \in 1..Len(old) : s \in ToSet(old[i])
        BY <1>14, <2>1, <3>2 DEF HoldAll
      <4>2. i \in 1..(m + 1)
        BY <1>2, <4>1
      <4>3. s \in ToSet(new[i]) /\ i \in 1..Len(new)
        BY <1>4, <1>12, <4>1, <4>2
      <4> QED
        BY <4>3
    <3> QED
      BY <1>8, <3>1, <3>2
  <2> QED
    BY <2>1 DEF HoldAll
<1> QED
  BY <1>13, <1>14 DEF new, old, whole

PackRow == [shards : Seq(Sections), now : Sections, error : BOOLEAN]

\* A file that does not fit ends the packing; another one opens a part of its own or joins the last.
LEMMA PackMoves ==
  ASSUME NEW acc \in PackRow, NEW whole \in Sections, NEW fixed
  PROVE  LET new == Pack(acc, whole, fixed)
         IN  /\ new \in PackRow
             /\ \/ new.error /\ new.shards = acc.shards /\ new.now = acc.now
                \/ ~new.error /\ ~acc.error /\ new.shards = Append(acc.shards, acc.now) /\ new.now = whole
                \/ ~new.error /\ ~acc.error /\ new.shards = acc.shards /\ new.now = acc.now \o whole
<1> DEFINE new == Pack(acc, whole, fixed)
           Moved == /\ new \in PackRow
                    /\ \/ new.error /\ new.shards = acc.shards /\ new.now = acc.now
                       \/ ~new.error /\ ~acc.error /\ new.shards = Append(acc.shards, acc.now) /\ new.now = whole
                       \/ ~new.error /\ ~acc.error /\ new.shards = acc.shards /\ new.now = acc.now \o whole
<1>1. /\ acc.shards \in Seq(Sections) /\ acc.now \in Sections /\ acc.error \in BOOLEAN
      /\ acc = [shards |-> acc.shards, now |-> acc.now, error |-> acc.error]
  BY DEF PackRow
<1>2. Append(acc.shards, acc.now) \in Seq(Sections) /\ acc.now \o whole \in Sections
  BY <1>1, Joined
<1>3. ASSUME new = [acc EXCEPT !.error = TRUE]  PROVE Moved
  <2>1. new = [shards |-> acc.shards, now |-> acc.now, error |-> TRUE]
    BY <1>1, <1>3
  <2> HIDE DEF new
  <2> QED
    BY <1>1, <2>1 DEF PackRow
<1>4. ASSUME ~acc.error /\ new = [acc EXCEPT !.shards = Append(@, acc.now), !.now = whole]  PROVE Moved
  <2>1. new = [shards |-> Append(acc.shards, acc.now), now |-> whole, error |-> acc.error]
    BY <1>1, <1>4
  <2> HIDE DEF new
  <2> QED
    BY <1>1, <1>2, <1>4, <2>1 DEF PackRow
<1>5. ASSUME ~acc.error /\ new = [acc EXCEPT !.now = @ \o whole]  PROVE Moved
  <2>1. new = [shards |-> acc.shards, now |-> acc.now \o whole, error |-> acc.error]
    BY <1>1, <1>5
  <2> HIDE DEF new
  <2> QED
    BY <1>1, <1>2, <1>5, <2>1 DEF PackRow
<1>6. \/ new = [acc EXCEPT !.error = TRUE]
      \/ ~acc.error /\ new = [acc EXCEPT !.shards = Append(@, acc.now), !.now = whole]
      \/ ~acc.error /\ new = [acc EXCEPT !.now = @ \o whole]
  BY DEF Pack
<1> HIDE DEF new, Moved
<1>7. Moved
  BY <1>3, <1>4, <1>5, <1>6
<1> QED
  BY <1>7 DEF new, Moved

NoPack == [shards |-> <<>>, now |-> <<>>, error |-> FALSE]
PackedTo(sections, fixed, files, f, m) ==
  f = [n \in 0..m |-> IF n = 0 THEN [shards |-> <<>>, now |-> <<>>, error |-> FALSE]
                      ELSE Pack(f[n - 1], Whole(sections, files[n]), fixed)]

LEMMA PackedIsRun ==
  ASSUME NEW sections \in Sections, Distinct(sections), NEW fixed
  PROVE  \E f : /\ PackedTo(sections, fixed, Files(sections), f, Len(Files(sections)))
                /\ Packed(sections, fixed) = f[Len(Files(sections))]
<1> DEFINE files == Files(sections)
           m == Len(files)
           next(a, n) == Pack(a, Whole(sections, files[n]), fixed)
           step == [p \in PackRow \X (1..m) |-> next(p[1], p[2])]
<1>1. m \in Nat
  <2>1. files \in Seq(Path)
    BY FilesListed DEF Lists
  <2> QED
    BY <2>1
<1>2. \A a \in PackRow, n \in 1..m : step[<<a, n>>] = next(a, n)
  OBVIOUS
<1>3. ASSUME NEW a \in PackRow, NEW n \in 1..m  PROVE next(a, n) \in PackRow
  <2>1. Whole(sections, files[n]) \in Sections
    BY WholeIs
  <2> QED
    BY <2>1, PackMoves
<1>4. NoPack \in PackRow
  <2>1. <<>> \in Seq(Sections)
    OBVIOUS
  <2> QED
    BY <2>1, NoSections DEF NoPack, PackRow
<1> HIDE DEF m, step, next, files
<1>5. StaysIn(PackRow, step, m)
  BY <1>2, <1>3 DEF StaysIn
<1>6. PICK f : Steps(PackRow, NoPack, step, m, f)
  BY <1>1, <1>4, <1>5, SomeRun
<1>7. ASSUME NEW n \in 0..m  PROVE f[n] = IF n = 0 THEN NoPack ELSE next(f[n - 1], n)
  <2>1. CASE n = 0
    BY <1>6, <2>1 DEF Steps
  <2>2. CASE n # 0
    <3>1. n \in 1..m /\ n - 1 \in 0..m
      BY <1>1, <2>2
    <3>2. f[n - 1] \in PackRow
      BY <1>6, <3>1 DEF Steps
    <3>3. f[n] = step[<<f[n - 1], n>>]
      BY <1>6, <3>1 DEF Steps
    <3> QED
      BY <1>2, <2>2, <3>1, <3>2, <3>3
  <2> QED
    BY <2>1, <2>2
<1>8. PackedTo(sections, fixed, files, f, m)
  <2>1. f = [n \in 0..m |-> f[n]]
    BY <1>6 DEF Steps
  <2>2. f = [n \in 0..m |-> IF n = 0 THEN NoPack ELSE next(f[n - 1], n)]
    BY <1>7, <2>1
  <2> QED
    BY <2>2 DEF PackedTo, next, NoPack
<1> QED
  BY <1>8 DEF PackedTo, Packed, m, files

PackedWell(acc, sections, files, n) ==
  /\ acc \in PackRow
  /\ Parts(Append(acc.shards, acc.now), sections, files, n)
  /\ ~acc.error => HoldAll(Append(acc.shards, acc.now), sections, files, n)

LEMMA NothingPacked ==
  ASSUME NEW sections \in Sections, NEW files
  PROVE  PackedWell(NoPack, sections, files, 0)
<1> DEFINE parts == Append(<<>>, <<>>)
<1>1. <<>> \in Seq(Sections) /\ <<>> \in Sections /\ Len(<<>>) = 0
  BY NoSections
<1>2. parts \in Seq(Sections) /\ Len(parts) = 1 /\ parts[1] = <<>>
  BY <1>1
<1> HIDE DEF parts
<1>3. \A i \in 1..Len(parts) : i = 1 /\ parts[i] = <<>>
  BY <1>2
<1>4. Parts(parts, sections, files, 0)
  BY <1>2, <1>3, NoSections DEF Parts
<1>5. HoldAll(parts, sections, files, 0)
  BY DEF HoldAll
<1>6. NoPack \in PackRow /\ NoPack.shards = <<>> /\ NoPack.now = <<>>
  BY <1>1 DEF NoPack, PackRow
<1> QED
  BY <1>4, <1>5, <1>6 DEF PackedWell, parts

LEMMA PackKeeps ==
  ASSUME NEW sections \in Sections, Distinct(sections), NEW fixed, NEW files, NEW n \in Nat \ {0},
         \A k \in 1..(n - 1) : files[k] # files[n],
         NEW acc, PackedWell(acc, sections, files, n - 1)
  PROVE  PackedWell(Pack(acc, Whole(sections, files[n]), fixed), sections, files, n)
<1> DEFINE whole == Whole(sections, files[n])
           new == Pack(acc, whole, fixed)
           parts == Append(acc.shards, acc.now)
<1>1. whole \in Sections
  BY WholeIs
<1>2. acc \in PackRow /\ Parts(parts, sections, files, n - 1) /\ (~acc.error => HoldAll(parts, sections, files, n - 1))
  BY DEF PackedWell
<1>3. acc.shards \in Seq(Sections) /\ acc.now \in Sections
  BY <1>2 DEF PackRow
<1>4. /\ new \in PackRow
      /\ \/ new.error /\ new.shards = acc.shards /\ new.now = acc.now
         \/ ~new.error /\ ~acc.error /\ new.shards = Append(acc.shards, acc.now) /\ new.now = whole
         \/ ~new.error /\ ~acc.error /\ new.shards = acc.shards /\ new.now = acc.now \o whole
  BY <1>1, <1>2, PackMoves
<1>5. /\ Parts(parts, sections, files, n)
      /\ Parts(Append(parts, whole), sections, files, n)
      /\ HoldAll(parts, sections, files, n - 1) => HoldAll(Append(parts, whole), sections, files, n)
  BY <1>2, PartAdded
<1>6. /\ Parts(Append(acc.shards, acc.now \o whole), sections, files, n)
      /\ HoldAll(parts, sections, files, n - 1) => HoldAll(Append(acc.shards, acc.now \o whole), sections, files, n)
  BY <1>2, <1>3, PartGrown
<1> HIDE DEF new, whole
<1>7. PackedWell(new, sections, files, n)
  BY <1>2, <1>4, <1>5, <1>6 DEF PackedWell
<1> QED
  BY <1>7 DEF new, whole

\* What a packing that fits is made of.
LEMMA PackedIsWell ==
  ASSUME NEW sections \in Sections, Distinct(sections), NEW fixed
  PROVE  PackedWell(Packed(sections, fixed), sections, Files(sections), Len(Files(sections)))
<1> DEFINE files == Files(sections)
           m == Len(files)
<1>1. PICK f : PackedTo(sections, fixed, files, f, m) /\ Packed(sections, fixed) = f[m]
  BY PackedIsRun
<1>2. files \in Seq(Path) /\ \A i, j \in 1..m : files[i] = files[j] => i = j
  BY FilesListed DEF Lists
<1>3. m \in Nat
  BY <1>2
<1> HIDE DEF files, m
<1> DEFINE G == {n \in 0..m : PackedWell(f[n], sections, files, n)}
<1>4. 0 \in G
  <2>1. 0 \in 0..m
    BY <1>3
  <2>2. f[0] = NoPack
    BY <1>1, <2>1 DEF PackedTo, NoPack
  <2> QED
    BY <2>1, <2>2, NothingPacked
<1>5. ASSUME NEW n \in 1..m, n - 1 \in G  PROVE n \in G
  <2>1. n \in 0..m /\ n # 0 /\ n \in Nat \ {0}
    BY <1>3
  <2>2. f[n] = Pack(f[n - 1], Whole(sections, files[n]), fixed)
    BY <1>1, <2>1 DEF PackedTo
  <2>3. \A k \in 1..(n - 1) : files[k] # files[n]
    <3>1. \A k \in 1..(n - 1) : k \in 1..m /\ k # n
      BY <1>3
    <3> QED
      BY <1>2, <3>1
  <2>4. PackedWell(f[n - 1], sections, files, n - 1)
    BY <1>5
  <2>5. PackedWell(f[n], sections, files, n)
    BY <2>1, <2>2, <2>3, <2>4, PackKeeps
  <2> QED
    BY <2>1, <2>5
<1>6. m \in G
  <2>1. m \in 0..m
    BY <1>3
  <2> HIDE DEF G
  <2>2. \A n \in 0..m : n \in G
    BY <1>3, <1>4, <1>5, EveryPosition
  <2> QED
    BY <2>1, <2>2
<1> QED
  BY <1>1, <1>6 DEF files, m

LEMMA RequestFacts ==
  ASSUME NEW q \in Request
  PROVE  /\ q.caller \in {"cli", "mcp"} /\ q.payload \in {"single", "shard"} /\ q.source \in {"stdin", "local", "pr"}
         /\ q.selectors \subseteq Path /\ q.change \in Sections /\ Distinct(q.change)
         /\ q.stream \in BOOLEAN /\ q.ticket \in Nat
  BY RequestAssumption DEF Sections

LEMMA SideIsSection ==
  ASSUME NEW s \in Section, NEW specs
  PROVE  /\ SideOf(s, specs) \in Section /\ SideOf(s, specs).nr = s.nr
         /\ Under(s.path, specs) /\ Under(s.old, specs) => SideOf(s, specs) = s
<1>1. Under(s.path, specs) \in BOOLEAN /\ Under(s.old, specs) \in BOOLEAN
  BY DEF Under
<1>2. s.path \in Path /\ s.old \in Path
  BY SectionFacts
<1>3. ASSUME NEW side \in Path, SideOf(s, specs) = [s EXCEPT !.path = side, !.old = side]
      PROVE  SideOf(s, specs) \in Section /\ SideOf(s, specs).nr = s.nr
  <2>1. [s EXCEPT !.path = side, !.old = side] \in Section /\ [s EXCEPT !.path = side, !.old = side].nr = s.nr
    BY DEF Section
  <2> QED
    BY <1>3, <2>1
<1>4. SideOf(s, specs) = s \/ \E side \in {s.path, s.old} : SideOf(s, specs) = [s EXCEPT !.path = side, !.old = side]
  BY DEF SideOf
<1>5. Under(s.path, specs) /\ Under(s.old, specs) => SideOf(s, specs) = s
  BY DEF SideOf
<1> QED
  BY <1>2, <1>3, <1>4, <1>5

\* git's selection loses no section both of whose names are selected.
LEMMA SelectedFacts ==
  ASSUME NEW change \in Sections, Distinct(change), NEW specs
  PROVE  /\ SelectedDiff(change, specs) \in Sections /\ Distinct(SelectedDiff(change, specs))
         /\ \A s \in ToSet(change) :
              specs = {} \/ (Under(s.path, specs) /\ Under(s.old, specs)) => s \in ToSet(SelectedDiff(change, specs))
<1>1. CASE specs = {}
  <2>1. SelectedDiff(change, specs) = change
    BY <1>1 DEF SelectedDiff
  <2> QED
    BY <2>1
<1>2. CASE specs # {}
  <2> DEFINE S == {s \in ToSet(change) : \E n \in Named(s) : Under(n, specs)}
             hit == Only(change, S)
             chosen == SelectedDiff(change, specs)
             m == Len(hit)
  <2>1. hit \in Sections /\ ToSet(hit) = ToSet(change) \cap S /\ Distinct(hit)
    BY OnlyPicks
  <2>2. chosen = [i \in DOMAIN hit |-> SideOf(hit[i], specs)]
    BY <1>2 DEF SelectedDiff
  <2> HIDE DEF S, hit, chosen
  <2>3. m \in Nat /\ DOMAIN hit = 1..m /\ \A i \in 1..m : hit[i] \in Section
    BY <2>1, SectionAt
  <2>4. \A i \in 1..m : SideOf(hit[i], specs) \in Section /\ SideOf(hit[i], specs).nr = hit[i].nr
    BY <2>3, SideIsSection
  <2>5. chosen \in Sections /\ Len(chosen) = m /\ \A i \in 1..m : chosen[i] = SideOf(hit[i], specs)
    BY <2>2, <2>3, <2>4 DEF Sections
  <2>6. Distinct(chosen)
    <3>1. \A i, j \in 1..m : hit[i].nr = hit[j].nr => i = j
      BY <2>1, <2>3, ElementsOf
    <3>2. \A i, j \in 1..Len(chosen) : chosen[i].nr = chosen[j].nr => i = j
      BY <2>4, <2>5, <3>1
    <3> QED
      BY <2>5, <3>2, ElementsOf
  <2>7. ASSUME NEW s \in ToSet(change), Under(s.path, specs), Under(s.old, specs)  PROVE s \in ToSet(chosen)
    <3>1. s \in ToSet(hit)
      BY <2>1, <2>7 DEF S, Named
    <3>2. PICK i \in 1..m : hit[i] = s
      BY <2>1, <3>1, ElementsOf
    <3>3. chosen[i] = s
      BY <2>3, <2>5, <2>7, <3>2, SideIsSection
    <3> QED
      BY <2>5, <3>2, <3>3, ElementsOf
  <2> QED
    BY <1>2, <2>5, <2>6, <2>7 DEF chosen
<1> QED
  BY <1>1, <1>2

Asked(s, selectors) == selectors = {} \/ Named(s) \cap selectors # {}

\* Whatever is asked for is acquired, both sides of a rename for either of them.
LEMMA DiffFacts ==
  ASSUME NEW q \in Request
  PROVE  /\ Diff(q) \in Sections /\ Distinct(Diff(q))
         /\ \A s \in ToSet(q.change) : Asked(s, q.selectors) => s \in ToSet(Diff(q))
<1>1. q.change \in Sections /\ Distinct(q.change)
  BY RequestFacts
<1>2. CASE q.source = "stdin"
  BY <1>1, <1>2 DEF Diff
<1>3. CASE q.source # "stdin"
  <2> DEFINE specs == Expanded(q.change, q.selectors)
  <2>1. Diff(q) = SelectedDiff(q.change, specs)
    BY <1>3 DEF Diff
  <2>2. ASSUME NEW s \in ToSet(q.change), Asked(s, q.selectors)
        PROVE  specs = {} \/ (Under(s.path, specs) /\ Under(s.old, specs))
    <3>1. CASE q.selectors = {}
      BY <3>1 DEF Expanded, Unmatched
    <3>2. CASE Named(s) \cap q.selectors # {}
      <4>1. Named(s) \subseteq specs
        BY <3>2 DEF Expanded
      <4>2. s.path \in specs /\ s.old \in specs
        BY <4>1 DEF Named
      <4> HIDE DEF specs
      <4> QED
        BY <4>2 DEF Under
    <3> QED
      BY <2>2, <3>1, <3>2 DEF Asked
  <2> HIDE DEF specs
  <2> QED
    BY <1>1, <2>1, <2>2, SelectedFacts
<1> QED
  BY <1>2, <1>3

\* What a plan of calls must be: every section once, no file in two calls.
SoundPlan(shards, sections) ==
  /\ shards \in Seq(Sections)
  /\ \A i \in 1..Len(shards) : Distinct(shards[i]) /\ ToSet(shards[i]) \subseteq ToSet(sections)
  /\ \A i, j \in 1..Len(shards) : i # j => \A s \in ToSet(shards[i]), t \in ToSet(shards[j]) : s.path # t.path
Carries(shards, s) == \E i \in 1..Len(shards) : s \in ToSet(shards[i])

LEMMA ShardsAreSound ==
  ASSUME NEW sections \in Sections, Distinct(sections), NEW q
  PROVE  LET plan == ShardPlan(q, sections)
         IN  /\ SoundPlan(plan.shards, sections)
             /\ plan.error = "ok" => \A s \in ToSet(sections) : Carries(plan.shards, s)
             /\ plan.coverage = "none" /\ plan.error \in {"ok", "limit"}
<1> DEFINE plan == ShardPlan(q, sections)
           packed == Packed(sections, Fixed(q))
           files == Files(sections)
           m == Len(files)
           parts == Append(packed.shards, packed.now)
           shards == IF packed.now = <<>> THEN packed.shards ELSE parts
<1>1. PackedWell(packed, sections, files, m)
  BY PackedIsWell
<1>2. plan.shards = shards /\ plan.coverage = "none" /\ plan.error \in {"ok", "limit"} /\ (plan.error = "ok" => ~packed.error)
  BY DEF ShardPlan
<1>3. Lists(files, sections, Len(sections))
  BY FilesListed
<1> HIDE DEF packed, files, plan
<1>4. /\ packed.shards \in Seq(Sections) /\ packed.now \in Sections
      /\ Parts(parts, sections, files, m) /\ (~packed.error => HoldAll(parts, sections, files, m))
  BY <1>1 DEF PackedWell, PackRow
<1>5. \A s \in ToSet(sections) : \E k \in 1..m : files[k] = s.path
  <2> SUFFICES ASSUME NEW s \in ToSet(sections)  PROVE \E k \in 1..m : files[k] = s.path
    OBVIOUS
  <2>1. PICK i \in 1..Len(sections) : sections[i] = s
    BY ElementsOf
  <2>2. \E k \in 1..Len(files) : files[k] = sections[i].path
    BY <1>3, <2>1 DEF Lists
  <2> QED
    BY <2>1, <2>2
<1>6. SoundPlan(parts, sections) /\ (~packed.error => \A s \in ToSet(sections) : Carries(parts, s))
  <2> HIDE DEF parts
  <2>1. SoundPlan(parts, sections)
    BY <1>4 DEF Parts, SoundPlan
  <2>2. ASSUME ~packed.error, NEW s \in ToSet(sections)  PROVE Carries(parts, s)
    <3>1. PICK k \in 1..m : files[k] = s.path
      BY <1>5
    <3>2. HoldAll(parts, sections, files, m)
      BY <1>4, <2>2
    <3> QED
      BY <2>2, <3>1, <3>2 DEF HoldAll, Carries
  <2> QED
    BY <2>1, <2>2
<1>7. ASSUME packed.now = <<>>
      PROVE  /\ SoundPlan(packed.shards, sections)
             /\ (~packed.error => \A s \in ToSet(sections) : Carries(packed.shards, s))
  <2> DEFINE shut == packed.shards
             k == Len(shut)
  <2>1. /\ k \in Nat /\ Len(parts) = k + 1 /\ parts[k + 1] = <<>>
        /\ \A i \in 1..k : parts[i] = shut[i]
    BY <1>4, <1>7
  <2>2. shut \in Seq(Sections)
    BY <1>4
  <2> HIDE DEF parts, shut, k
  <2>3. (\A i \in 1..k : i \in 1..Len(parts)) /\ (\A i \in 1..Len(parts) : i = k + 1 \/ i \in 1..k)
    BY <2>1
  <2>4. SoundPlan(shut, sections)
    BY <1>6, <2>1, <2>2, <2>3 DEF SoundPlan, k
  <2>5. ASSUME NEW s \in ToSet(sections), Carries(parts, s)  PROVE Carries(shut, s)
    <3>1. PICK i \in 1..Len(parts) : s \in ToSet(parts[i])
      BY <2>5 DEF Carries
    <3>2. i # k + 1
      BY <2>1, <3>1, NoSections
    <3>3. i \in 1..k /\ s \in ToSet(shut[i])
      BY <2>1, <2>3, <3>1, <3>2
    <3> QED
      BY <3>3 DEF Carries, k
  <2> QED
    BY <1>6, <2>4, <2>5 DEF shut
<1>8. SoundPlan(shards, sections) /\ (~packed.error => \A s \in ToSet(sections) : Carries(shards, s))
  BY <1>6, <1>7
<1> HIDE DEF shards
<1> QED
  BY <1>2, <1>8 DEF plan

TotalsTo(q, shards, f, m) == f = [n \in 0..m |-> IF n = 0 THEN 0 ELSE f[n - 1] + Weight(q, shards[n])]

LEMMA WeightIsNat ==
  ASSUME NEW q \in Request, NEW shard \in Sections
  PROVE  Weight(q, shard) \in Nat /\ Size(shard) \in Nat /\ Overhead + q.ticket + Size(shard) \in Nat
<1>1. Size(shard) \in Nat /\ q.ticket \in Nat /\ Overhead \in Nat
  BY SizeIsNat, RequestFacts, ReviewAssumption
<1>2. Fixed(q) \in Nat
  BY <1>1 DEF Fixed
<1> QED
  BY <1>1, <1>2 DEF Weight

\* What all calls weigh is a number, and nothing for none.
LEMMA TotalIsNat ==
  ASSUME NEW q \in Request, NEW shards \in Seq(Sections)
  PROVE  Total(q, shards) \in Nat /\ (shards = <<>> => Total(q, shards) = 0)
<1> DEFINE m == Len(shards)
           next(a, n) == a + Weight(q, shards[n])
           step == [p \in Nat \X (1..m) |-> next(p[1], p[2])]
<1>1. m \in Nat /\ \A n \in 1..m : shards[n] \in Sections
  OBVIOUS
<1>2. \A n \in 1..m : Weight(q, shards[n]) \in Nat
  BY <1>1, WeightIsNat
<1>3. \A a \in Nat, n \in 1..m : step[<<a, n>>] = next(a, n)
  OBVIOUS
<1>4. \A a \in Nat, n \in 1..m : next(a, n) \in Nat
  BY <1>2
<1> HIDE DEF m, step, next
<1>5. StaysIn(Nat, step, m)
  BY <1>3, <1>4 DEF StaysIn
<1>6. PICK f : Steps(Nat, 0, step, m, f)
  BY <1>1, <1>5, SomeRun
<1>7. ASSUME NEW n \in 0..m  PROVE f[n] = IF n = 0 THEN 0 ELSE next(f[n - 1], n)
  <2>1. CASE n = 0
    BY <1>6, <2>1 DEF Steps
  <2>2. CASE n # 0
    <3>1. n \in 1..m /\ n - 1 \in 0..m
      BY <1>1, <2>2
    <3>2. f[n - 1] \in Nat
      BY <1>6, <3>1 DEF Steps
    <3>3. f[n] = step[<<f[n - 1], n>>]
      BY <1>6, <3>1 DEF Steps
    <3> QED
      BY <1>3, <2>2, <3>1, <3>2, <3>3
  <2> QED
    BY <2>1, <2>2
<1>8. TotalsTo(q, shards, f, m)
  <2>1. f = [n \in 0..m |-> f[n]]
    BY <1>6 DEF Steps
  <2>2. f = [n \in 0..m |-> IF n = 0 THEN 0 ELSE next(f[n - 1], n)]
    BY <1>7, <2>1
  <2> QED
    BY <2>2 DEF TotalsTo, next
<1>9. PICK g : TotalsTo(q, shards, g, m) /\ Total(q, shards) = g[m]
  BY <1>8 DEF TotalsTo, Total, m
<1> DEFINE G == {n \in 0..m : g[n] \in Nat}
<1>10. 0 \in G /\ g[0] = 0
  BY <1>1, <1>9 DEF TotalsTo
<1>11. ASSUME NEW n \in 1..m, n - 1 \in G  PROVE n \in G
  <2>1. n \in 0..m /\ n # 0
    BY <1>1
  <2>2. g[n] = g[n - 1] + Weight(q, shards[n])
    BY <1>9, <2>1 DEF TotalsTo
  <2> QED
    BY <1>2, <1>11, <2>1, <2>2
<1> HIDE DEF G
<1>12. m \in G
  <2>1. \A n \in 0..m : n \in G
    BY <1>1, <1>10, <1>11, EveryPosition
  <2> QED
    BY <1>1, <2>1
<1>13. shards = <<>> => m = 0
  BY DEF m
<1> QED
  BY <1>9, <1>10, <1>12, <1>13 DEF G

LEMMA WantedFacts ==
  ASSUME NEW sections \in Sections, Distinct(sections), NEW selectors
  PROVE  /\ Wanted(sections, selectors) \in Sections /\ Distinct(Wanted(sections, selectors))
         /\ ToSet(Wanted(sections, selectors)) \subseteq ToSet(sections)
         /\ \A s \in ToSet(sections) : Asked(s, selectors) => s \in ToSet(Wanted(sections, selectors))
<1>1. CASE selectors = {}
  BY <1>1 DEF Wanted
<1>2. CASE selectors # {}
  <2> DEFINE S == {s \in ToSet(sections) : Named(s) \cap selectors # {}}
  <2>1. Wanted(sections, selectors) = Only(sections, S)
    BY <1>2 DEF Wanted
  <2> HIDE DEF S
  <2>2. /\ Only(sections, S) \in Sections /\ Distinct(Only(sections, S))
        /\ ToSet(Only(sections, S)) = ToSet(sections) \cap S
    BY OnlyPicks
  <2>3. \A s \in ToSet(sections) : Asked(s, selectors) => s \in S
    BY <1>2 DEF Asked, S
  <2> QED
    BY <2>1, <2>2, <2>3
<1> QED
  BY <1>1, <1>2

\* One call: what its plan promises of the text, of its size and of the selectors.
SingleIsRight(q, shards, coverage) ==
  \E wanted \in Sections :
    /\ shards = <<wanted>> /\ Overhead + q.ticket + Size(wanted) <= SingleMax
    /\ q.selectors # {} => Matches(wanted, q.selectors) # {}
    /\ coverage = "complete" => Matches(wanted, q.selectors) = q.selectors

LEMMA SingleFacts ==
  ASSUME NEW q \in Request, NEW sections \in Sections, Distinct(sections)
  PROVE  LET plan == SinglePlan(q, sections)
         IN  /\ SoundPlan(plan.shards, sections)
             /\ \A s \in ToSet(sections) : Asked(s, q.selectors) => Carries(plan.shards, s)
             /\ plan.coverage \in {"complete", "partial"} /\ plan.shards # <<>>
             /\ plan.error \in {"ok", "limit", "no such file"}
             /\ plan.error = "ok" => SingleIsRight(q, plan.shards, plan.coverage)
<1> DEFINE plan == SinglePlan(q, sections)
           wanted == Wanted(sections, q.selectors)
<1>1. /\ wanted \in Sections /\ Distinct(wanted) /\ ToSet(wanted) \subseteq ToSet(sections)
      /\ \A s \in ToSet(sections) : Asked(s, q.selectors) => s \in ToSet(wanted)
  BY WantedFacts
<1>2. plan.shards = <<wanted>> /\ plan.coverage = Coverage(wanted, q.selectors)
  BY DEF SinglePlan
<1>3. /\ plan.error \in {"ok", "limit", "no such file"}
      /\ plan.error = "ok" => /\ ~(Overhead + q.ticket + Size(wanted) > SingleMax)
                              /\ q.selectors # {} => Matches(wanted, q.selectors) # {}
  BY DEF SinglePlan
<1> HIDE DEF plan, wanted
<1>4. Overhead + q.ticket + Size(wanted) \in Nat /\ SingleMax \in Nat
  BY <1>1, WeightIsNat, ReviewAssumption
<1>5. plan.coverage \in {"complete", "partial"} /\ (plan.coverage = "complete" => Matches(wanted, q.selectors) = q.selectors)
  BY <1>2 DEF Coverage
<1>6. plan.error = "ok" => SingleIsRight(q, plan.shards, plan.coverage)
  <2>1. plan.error = "ok" => Overhead + q.ticket + Size(wanted) <= SingleMax
    BY <1>3, <1>4
  <2> QED
    BY <1>1, <1>2, <1>3, <1>5, <2>1 DEF SingleIsRight
<1>7. plan.shards \in Seq(Sections) /\ Len(plan.shards) = 1 /\ plan.shards[1] = wanted /\ plan.shards # <<>>
  BY <1>1, <1>2
<1>8. \A i \in 1..Len(plan.shards) : i = 1
  BY <1>7
<1>9. SoundPlan(plan.shards, sections)
  BY <1>1, <1>7, <1>8 DEF SoundPlan
<1>10. \A s \in ToSet(sections) : Asked(s, q.selectors) => Carries(plan.shards, s)
  BY <1>1, <1>7 DEF Carries
<1> QED
  BY <1>3, <1>5, <1>6, <1>7, <1>9, <1>10 DEF plan

\* What an acquired change is planned into, whatever was asked.
PlanIsRight(q, shards, coverage) ==
  /\ SoundPlan(shards, Diff(q)) /\ shards # <<>>
  /\ \A s \in ToSet(q.change) : Asked(s, q.selectors) => Carries(shards, s)
  /\ coverage \in {"none", "complete", "partial"}
  /\ q.payload = "single" => SingleIsRight(q, shards, coverage)

LEMMA PlansAreRight ==
  ASSUME NEW q \in Request, Diff(q) # <<>>, PlanFor(q, Diff(q)).error = "ok"
  PROVE  LET plan == PlanFor(q, Diff(q)) IN PlanIsRight(q, plan.shards, plan.coverage)
<1> DEFINE sections == Diff(q)
           plan == PlanFor(q, sections)
<1>1. /\ sections \in Sections /\ Distinct(sections)
      /\ \A s \in ToSet(q.change) : Asked(s, q.selectors) => s \in ToSet(sections)
  BY DiffFacts
<1>2. plan.error = "ok" /\ sections # <<>> /\ q.payload \in {"single", "shard"}
  BY RequestFacts
<1> HIDE DEF sections
<1>3. CASE q.payload = "shard"
  <2>1. plan = ShardPlan(q, sections)
    BY <1>3 DEF PlanFor
  <2> HIDE DEF plan
  <2>2. SoundPlan(plan.shards, sections) /\ plan.coverage = "none" /\ \A s \in ToSet(sections) : Carries(plan.shards, s)
    BY <1>1, <1>2, <2>1, ShardsAreSound
  <2>3. plan.shards # <<>>
    <3>1. Len(sections) \in Nat /\ Len(sections) # 0
      BY <1>1, <1>2 DEF Sections
    <3>2. 1 \in 1..Len(sections)
      BY <3>1
    <3>3. sections[1] \in ToSet(sections)
      BY <1>1, <3>2, ElementsOf
    <3>4. PICK i \in 1..Len(plan.shards) : TRUE
      BY <2>2, <3>3 DEF Carries
    <3> QED
      BY <3>4
  <2>4. PlanIsRight(q, plan.shards, plan.coverage)
    BY <1>1, <1>3, <2>2, <2>3 DEF PlanIsRight, sections
  <2> QED
    BY <2>4 DEF plan, sections
<1>4. CASE q.payload = "single"
  <2>1. plan = SinglePlan(q, sections)
    BY <1>4 DEF PlanFor
  <2> HIDE DEF plan
  <2>2. /\ SoundPlan(plan.shards, sections) /\ plan.shards # <<>>
        /\ \A s \in ToSet(sections) : Asked(s, q.selectors) => Carries(plan.shards, s)
        /\ plan.coverage \in {"complete", "partial"} /\ SingleIsRight(q, plan.shards, plan.coverage)
    BY <1>1, <1>2, <2>1, SingleFacts
  <2>3. PlanIsRight(q, plan.shards, plan.coverage)
    BY <1>1, <2>2 DEF PlanIsRight, sections
  <2> QED
    BY <2>3 DEF plan, sections
<1> QED
  BY <1>2, <1>3, <1>4

(* A review's own acquisition: it returns with an outcome.                 *)
Undecided ==
  \/ acquirer[Own].at \in Setting \cup Working
  \/ acquirer[Own].at \in {"publishing", "renaming"} /\ acquirer[Own].target = "live"
OwnDecided == acquirer[Own].result = "none" => Undecided

LEMMA OwnRow ==
  ASSUME RunsIInv
  PROVE  /\ Own \in Acquirer /\ acquirer[Own] \in AcquirerRecord /\ acquirer \in [Acquirer -> AcquirerRecord]
         /\ Folded(acquirer[Own], folder[Own].state, Expired(Own))
BY ReviewAssumption, Standing DEF Stands

\* The next row decides it.
LEMMA OwnMoves ==
  ASSUME RunsIInv, NEW r, acquirer' = [acquirer EXCEPT ![Own] = r],
         \/ r.result # "none"
         \/ r.at \in Setting \cup Working
         \/ r.at \in {"publishing", "renaming"} /\ r.target = "live"
  PROVE  OwnDecided'
<1>1. acquirer'[Own] = r
  BY OwnRow
<1> QED
  BY <1>1 DEF OwnDecided, Undecided

LEMMA OwnSetsUp ==
  ASSUME RunsIInv, OwnDecided,
         EnterRegistry(Own) \/ EnterFails(Own) \/ ListRuns(Own) \/ MakeFolder(Own) \/ MarkReserving(Own) \/ MakeFails(Own)
  PROVE  OwnDecided'
<1> DEFINE q == acquirer[Own]
<1>1. q \in AcquirerRecord /\ acquirer \in [Acquirer -> AcquirerRecord] /\ Own \in Acquirer
  BY OwnRow
<1>2. CASE EnterRegistry(Own)
  <2> DEFINE r == [q EXCEPT !.at = "listing"]
  <2>1. acquirer' = [acquirer EXCEPT ![Own] = r] /\ r.at = "listing"
    BY <1>1, <1>2 DEF EnterRegistry, Proceeds, AcquirerRecord
  <2> HIDE DEF r
  <2> QED
    BY <2>1, OwnMoves DEF Setting
<1>3. CASE EnterFails(Own) \/ MakeFails(Own)
  <2>1. acquirer' = [acquirer EXCEPT ![Own] = Broken(q)] /\ Broken(q).result = "failed"
    BY <1>1, <1>3, Rows DEF EnterFails, MakeFails
  <2> QED
    BY <2>1, OwnMoves
<1>4. CASE ListRuns(Own)
  <2>1. CASE acquirer' = [acquirer EXCEPT ![Own].at = "returned", ![Own].result = "limit"]
    <3> DEFINE r == [q EXCEPT !.at = "returned", !.result = "limit"]
    <3>1. acquirer' = [acquirer EXCEPT ![Own] = r] /\ r.result = "limit"
      BY <1>1, <2>1 DEF AcquirerRecord
    <3> HIDE DEF r
    <3> QED
      BY <3>1, OwnMoves
  <2>2. CASE acquirer' = [acquirer EXCEPT ![Own].at = "making", ![Own].quota = @ + RunUnits]
    <3> DEFINE r == [q EXCEPT !.at = "making", !.quota = q.quota + RunUnits]
    <3>1. acquirer' = [acquirer EXCEPT ![Own] = r]
      BY <1>1, <2>2
    <3>2. r.at = "making"
      BY <1>1 DEF AcquirerRecord
    <3> HIDE DEF r
    <3> QED
      BY <3>1, <3>2, OwnMoves DEF Setting
  <2> QED
    BY <1>4, <2>1, <2>2 DEF ListRuns
<1>5. CASE MakeFolder(Own)
  <2> DEFINE r == [q EXCEPT !.at = "marking"]
  <2>1. acquirer' = [acquirer EXCEPT ![Own] = r] /\ r.at = "marking"
    BY <1>1, <1>5 DEF MakeFolder, Proceeds, AcquirerRecord
  <2> HIDE DEF r
  <2> QED
    BY <2>1, OwnMoves DEF Setting
<1>6. CASE MarkReserving(Own)
  <2> DEFINE r == [q EXCEPT !.at = "publishing"]
  <2>1. q.target = "live"
    BY <1>6, OwnRow DEF MarkReserving, AtRun, Folded, Setting
  <2>2. acquirer' = [acquirer EXCEPT ![Own] = r] /\ r.at = "publishing" /\ r.target = "live"
    BY <1>1, <1>6, <2>1 DEF MarkReserving, Proceeds, AcquirerRecord
  <2> HIDE DEF r
  <2> QED
    BY <2>2, OwnMoves
<1> QED
  BY <1>2, <1>3, <1>4, <1>5, <1>6

LEMMA OwnPublishes ==
  ASSUME RunsIInv, OwnDecided, PublishReads(Own) \/ PublishWrites(Own) \/ PublishFails(Own)
  PROVE  OwnDecided'
<1> DEFINE q == acquirer[Own]
<1>1. /\ q \in AcquirerRecord /\ acquirer \in [Acquirer -> AcquirerRecord]
      /\ q.at \in {"publishing", "renaming"} /\ q.target \in {"live", "release_pending", "acknowledged"}
  BY OwnRow DEF PublishReads, PublishWrites, PublishFails, AtRun, AcquirerRecord, Target
<1>2. q.result # "none" \/ q.target = "live"
  BY <1>1 DEF OwnDecided, Undecided, Setting, Working
<1>3. /\ AfterPublish(q) \in AcquirerRecord /\ Thrown(q) \in AcquirerRecord
      /\ AfterPublish(q).result # "none" \/ AfterPublish(q).at \in Working
      /\ Thrown(q).result # "none"
  BY <1>1, <1>2, Rows DEF Working
<1>4. CASE acquirer' = [acquirer EXCEPT ![Own] = AfterPublish(q)] \/ acquirer' = [acquirer EXCEPT ![Own] = Thrown(q)]
  BY <1>3, <1>4, OwnMoves
<1>5. CASE acquirer' = [acquirer EXCEPT ![Own] = [q EXCEPT !.at = "renaming"]]
  <2> DEFINE r == [q EXCEPT !.at = "renaming"]
  <2>1. acquirer' = [acquirer EXCEPT ![Own] = r] /\ r.at = "renaming" /\ r.target = q.target /\ r.result = q.result
    BY <1>1, <1>5 DEF AcquirerRecord
  <2> HIDE DEF r
  <2> QED
    BY <1>2, <2>1, OwnMoves
<1>6. ASSUME NEW late, NEW p \in {AfterPublish(q), Thrown(q)}, acquirer' = [acquirer EXCEPT ![Own] = [p EXCEPT !.late = late]]
      PROVE  OwnDecided'
  <2> DEFINE r == [p EXCEPT !.late = late]
  <2>1. p \in AcquirerRecord /\ (p.result # "none" \/ p.at \in Working)
    BY <1>3, <1>6
  <2>2. acquirer' = [acquirer EXCEPT ![Own] = r] /\ r.at = p.at /\ r.result = p.result
    BY <1>6, <2>1 DEF AcquirerRecord
  <2> HIDE DEF r
  <2> QED
    BY <2>1, <2>2, OwnMoves
<1>7. CASE PublishReads(Own)
  <2>1. PICK seen \in {Marker(Own), Unread} :
          acquirer' = [acquirer EXCEPT ![Own] =
            IF seen = q.target THEN AfterPublish(@)
            ELSE IF Rank(q.target) <= Rank(seen) THEN Thrown(@)
            ELSE [@ EXCEPT !.at = "renaming"]]
    BY <1>7 DEF PublishReads
  <2> QED
    BY <1>4, <1>5, <2>1
<1>8. CASE PublishWrites(Own)
  <2>1. \/ acquirer' = [acquirer EXCEPT ![Own] =
              [AfterPublish(q) EXCEPT !.late = q.late \/ (q.target = "live" /\ today - folder[Own].made > Grace)]]
        \/ acquirer' = [acquirer EXCEPT ![Own] = [Thrown(q) EXCEPT !.late = q.late \/ q.target = "live"]]
    BY <1>8 DEF PublishWrites
  <2>2. \E late : \/ acquirer' = [acquirer EXCEPT ![Own] = [AfterPublish(q) EXCEPT !.late = late]]
                 \/ acquirer' = [acquirer EXCEPT ![Own] = [Thrown(q) EXCEPT !.late = late]]
    BY <2>1
  <2> QED
    BY <1>6, <2>2
<1>9. CASE PublishFails(Own)
  BY <1>4, <1>9 DEF PublishFails
<1> QED
  BY <1>7, <1>8, <1>9

LEMMA OwnFetches ==
  ASSUME RunsIInv, OwnDecided,
         FetchReserves(Own) \/ BareFails(Own) \/ FetchFails(Own) \/ FetchVerifies(Own) \/ Select(Own)
  PROVE  OwnDecided'
<1> DEFINE q == acquirer[Own]
<1>1. q \in AcquirerRecord /\ acquirer \in [Acquirer -> AcquirerRecord] /\ Own \in Acquirer
  BY OwnRow
<1>2. ASSUME NEW result \in {"limit", "ok", "invalid", "failed"}
      PROVE  Leaving(q, result) \in AcquirerRecord /\ Leaving(q, result).result # "none"
  BY <1>1, Departures
<1>3. ASSUME NEW result \in {"limit", "ok", "invalid"}, LeavesWith(Own, result) PROVE OwnDecided'
  BY <1>2, <1>3, OwnMoves DEF LeavesWith
<1>4. ASSUME NEW quota, NEW result \in {"limit", "ok", "invalid", "failed"},
             acquirer' = [acquirer EXCEPT ![Own] = [Leaving(q, result) EXCEPT !.quota = quota]]
      PROVE  OwnDecided'
  <2> DEFINE p == Leaving(q, result)
             r == [p EXCEPT !.quota = quota]
  <2>1. acquirer' = [acquirer EXCEPT ![Own] = r] /\ p \in AcquirerRecord /\ p.result # "none"
    BY <1>2, <1>4
  <2> HIDE DEF p
  <2>2. r.result = p.result
    BY <2>1 DEF AcquirerRecord
  <2> HIDE DEF r
  <2> QED
    BY <2>1, <2>2, OwnMoves
<1>5. CASE FetchReserves(Own)
  <2>1. CASE acquirer' = [acquirer EXCEPT ![Own].at = "verifying", ![Own].quota = @ + FetchUnits]
    <3> DEFINE r == [q EXCEPT !.at = "verifying", !.quota = q.quota + FetchUnits]
    <3>1. acquirer' = [acquirer EXCEPT ![Own] = r]
      BY <1>1, <2>1
    <3>2. r.at = "verifying"
      BY <1>1 DEF AcquirerRecord
    <3> HIDE DEF r
    <3> QED
      BY <3>1, <3>2, OwnMoves DEF Working
  <2> QED
    BY <1>3, <1>5, <2>1 DEF FetchReserves
<1>6. CASE BareFails(Own)
  BY <1>4, <1>6 DEF BareFails
<1>7. CASE FetchFails(Own)
  BY <1>4, <1>7 DEF FetchFails
<1>8. CASE FetchVerifies(Own)
  <2> DEFINE r == [q EXCEPT !.at = "selecting", !.fetched = FetchUnits]
  <2>1. acquirer' = [acquirer EXCEPT ![Own] = r]
    BY <1>1, <1>8 DEF FetchVerifies
  <2>2. r.at = "selecting"
    BY <1>1 DEF AcquirerRecord
  <2> HIDE DEF r
  <2> QED
    BY <2>1, <2>2, OwnMoves DEF Working
<1>9. CASE Select(Own)
  BY <1>3, <1>9 DEF Select
<1> QED
  BY <1>5, <1>6, <1>7, <1>8, <1>9

\* What comes after the outcome keeps it, or fails.
LEMMA OwnCleans ==
  ASSUME RunsIInv, OwnDecided,
         \/ CleanReads(Own) \/ CleanUnread(Own) \/ CleanEmpties(Own) \/ CleanRemoves(Own) \/ CleanFails(Own)
         \/ RecoverLists(Own) \/ Recover(Own) \/ RecoverEmpties(Own) \/ RecoverRemoves(Own) \/ RecoverFails(Own)
         \/ Return(Own)
  PROVE  OwnDecided'
<1> DEFINE q == acquirer[Own]
<1>1. q \in AcquirerRecord /\ acquirer \in [Acquirer -> AcquirerRecord] /\ Own \in Acquirer
  BY OwnRow
<1>2. q.at \in {"cleaning", "unlinking", "removing", "naming", "recovering", "emptying", "sweeping"}
  BY DEF CleanReads, CleanUnread, CleanEmpties, CleanRemoves, CleanFails, RecoverLists, Recover, RecoverEmpties,
         RecoverRemoves, RecoverFails, Return, AtRun
<1>3. q.result # "none"
  BY <1>2 DEF OwnDecided, Undecided, Setting, Working
<1>4. Departs(q) \in AcquirerRecord /\ Departs(q).result = q.result
  BY <1>1, DepartsRow
<1>5. Broken(Departs(q)) \in AcquirerRecord /\ Broken(Departs(q)).result = "failed"
  <2> DEFINE left == Departs(q)
  <2>1. left \in AcquirerRecord
    BY <1>4
  <2> HIDE DEF left
  <2>2. Broken(left) \in AcquirerRecord /\ Broken(left).result = "failed"
    BY <2>1, Rows
  <2> QED
    BY <2>2 DEF left
<1> SUFFICES acquirer'[Own].result # "none"
  BY DEF OwnDecided
<1>6. CASE CleanReads(Own) \/ CleanUnread(Own) \/ CleanEmpties(Own) \/ RecoverEmpties(Own)
  <2>1. \E at : acquirer' = [acquirer EXCEPT ![Own].at = at]
    BY <1>6 DEF CleanReads, CleanUnread, CleanEmpties, RecoverEmpties, Proceeds
  <2> QED
    BY <1>1, <1>3, <2>1 DEF AcquirerRecord
<1>7. CASE CleanRemoves(Own)
  BY <1>1, <1>3, <1>7 DEF CleanRemoves, AcquirerRecord
<1>8. CASE CleanFails(Own)
  <2>1. acquirer' = [acquirer EXCEPT ![Own] = Broken(Departs(q))]
    BY <1>8 DEF CleanFails
  <2> QED
    BY <1>1, <1>5, <2>1
<1>9. CASE RecoverLists(Own) \/ Recover(Own) \/ RecoverRemoves(Own)
  <2>1. CASE \E at, names : acquirer' = [acquirer EXCEPT ![Own].at = at, ![Own].names = names]
    BY <1>1, <1>3, <2>1 DEF AcquirerRecord
  <2>2. CASE \E at, saw : acquirer' = [acquirer EXCEPT ![Own].at = at, ![Own].saw = saw]
    BY <1>1, <1>3, <2>2 DEF AcquirerRecord
  <2>3. CASE \E names : acquirer' = [acquirer EXCEPT ![Own].names = names]
    BY <1>1, <1>3, <2>3 DEF AcquirerRecord
  <2>4. CASE \E at, names, saw : acquirer' = [acquirer EXCEPT ![Own].at = at, ![Own].names = names, ![Own].saw = saw]
    BY <1>1, <1>3, <2>4 DEF AcquirerRecord
  <2>5. CASE RecoverLists(Own)
    BY <2>1, <2>5 DEF RecoverLists
  <2>6. CASE Recover(Own)
    BY <2>2, <2>3, <2>6 DEF Recover
  <2>7. CASE RecoverRemoves(Own)
    BY <2>4, <2>7 DEF RecoverRemoves
  <2> QED
    BY <1>9, <2>5, <2>6, <2>7
<1>10. CASE RecoverFails(Own)
  <2> DEFINE broken == Broken(Departs(q))
             r == [broken EXCEPT !.names = {}, !.saw = Unread]
  <2>1. acquirer' = [acquirer EXCEPT ![Own] = r] /\ broken \in AcquirerRecord /\ broken.result = "failed"
    BY <1>5, <1>10 DEF RecoverFails
  <2> HIDE DEF broken
  <2>2. r.result = "failed"
    BY <2>1 DEF AcquirerRecord
  <2> HIDE DEF r
  <2> QED
    BY <1>1, <2>1, <2>2
<1>11. CASE Return(Own)
  BY <1>1, <1>3, <1>4, <1>11 DEF Return
<1> QED
  BY <1>6, <1>7, <1>8, <1>9, <1>10, <1>11

LEMMA OwnKeeps == ASSUME RunsIInv, OwnDecided, AcquireStep(Own) PROVE OwnDecided'
BY OwnSetsUp, OwnPublishes, OwnFetches, OwnCleans DEF AcquireStep

-----------------------------------------------------------------------------
(* A review.  What the terminal shows on its unfinished line is told by    *)
(* the two flags that the callbacks keep, unless a warning has ended it.   *)

ReviewFields == {"at", "request", "diff", "plan", "calls", "verdicts", "shown", "coverage", "result", "cancelled"}
Terminal ==
  [started : BOOLEAN, open : BOOLEAN, pending : BOOLEAN, stdoutOpen : BOOLEAN,
   line : {"empty", "marker", "reasoning", "verdict", "error", "usage"},
   joined : SUBSET {"marker", "reasoning", "verdict", "error", "usage", "warning"}, chunks : Nat]

LineIsTold(t) ==
  /\ t.line \in {"empty", IF t.open THEN "reasoning" ELSE IF t.stdoutOpen THEN "verdict" ELSE "empty"}
  /\ t.open => ~t.started
  /\ t.stdoutOpen \/ t.pending => t.started
Tidy(t) == t \in Terminal /\ t.joined \subseteq {"warning"} /\ LineIsTold(t)

\* The three steps that finish a line leave nothing joined.
LEMMA Finishings ==
  ASSUME NEW t \in Terminal, Tidy(t)
  PROVE  /\ Tidy(CloseReasoning(t)) /\ ~CloseReasoning(t).open /\ CloseReasoning(t).started = t.started
         /\ Tidy(TerminatePartial(t)) /\ ~TerminatePartial(t).stdoutOpen /\ TerminatePartial(t).open = t.open
         /\ TerminatePartial(t).started = t.started
         /\ t.line = "empty" => Tidy(FlushPending(t)) /\ FlushPending(t).line = "empty"
                                /\ FlushPending(t).started = t.started
<1>1. Tidy(CloseReasoning(t)) /\ ~CloseReasoning(t).open /\ CloseReasoning(t).started = t.started
  BY DEF Tidy, LineIsTold, CloseReasoning, Writes, Terminal
<1>2. /\ Tidy(TerminatePartial(t)) /\ ~TerminatePartial(t).stdoutOpen /\ TerminatePartial(t).open = t.open
      /\ TerminatePartial(t).started = t.started
  BY DEF Tidy, LineIsTold, TerminatePartial, Writes, Terminal
<1>3. ASSUME t.line = "empty"
      PROVE  Tidy(FlushPending(t)) /\ FlushPending(t).line = "empty" /\ FlushPending(t).started = t.started
  BY <1>3 DEF Tidy, LineIsTold, FlushPending, Writes, Terminal
<1> QED
  BY <1>1, <1>2, <1>3

\* A whole line on an empty one.
LEMMA WholeLine ==
  ASSUME NEW t \in Terminal, Tidy(t), t.line = "empty",
         NEW w \in {"marker", "verdict", "error", "usage"}
  PROVE  Tidy(Writes(t, w, TRUE)) /\ Writes(t, w, TRUE).line = "empty" /\ Writes(t, w, TRUE).started = t.started
  BY DEF Tidy, LineIsTold, Writes, Terminal

\* A warning ends whatever line it is on.
LEMMA WarningsAreTidy ==
  ASSUME NEW t \in Terminal, Tidy(t), NEW u \in AfterWarnings(t)
  PROVE  u \in Terminal /\ Tidy(u) /\ u.started = t.started /\ u.chunks = t.chunks
<1>1. u = t \/ u = Writes(t, "warning", TRUE)
  BY DEF AfterWarnings
<1>2. CASE u = t
  BY <1>2
<1>3. CASE u = Writes(t, "warning", TRUE)
  <2>1. u = [t EXCEPT !.joined = IF t.line \in {"empty", "warning"} THEN t.joined ELSE t.joined \cup {"warning"},
                      !.line = "empty"]
    BY <1>3 DEF Writes
  <2>2. /\ u \in Terminal /\ u.started = t.started /\ u.chunks = t.chunks /\ u.open = t.open /\ u.line = "empty"
        /\ u.pending = t.pending /\ u.stdoutOpen = t.stdoutOpen
        /\ u.joined \subseteq t.joined \cup {"warning"}
    BY <2>1 DEF Terminal
  <2> QED
    BY <2>2 DEF Tidy, LineIsTold
<1> QED
  BY <1>1, <1>2, <1>3

LEMMA EmptyWhenClosed == ASSUME NEW t \in Terminal, Tidy(t), ~t.open, ~t.stdoutOpen PROVE t.line = "empty"
  BY DEF Tidy, LineIsTold

LEMMA Counts == ASSUME NEW t \in Terminal, Tidy(t) PROVE Tidy(Counted(t)) /\ Counted(t).started = t.started
  BY DEF Tidy, LineIsTold, Counted, Terminal

LEMMA ReasoningIsTidy ==
  ASSUME NEW t \in Terminal, Tidy(t)
  PROVE  Tidy(Reasoned(t)) /\ Reasoned(t).started = t.started
<1>1. CASE t.started
  BY <1>1 DEF Tidy, LineIsTold, Reasoned, Terminal
<1>2. CASE ~t.started /\ t.open
  BY <1>2 DEF Tidy, LineIsTold, Reasoned, Writes, Terminal
<1>3. CASE ~t.started /\ ~t.open
  <2> DEFINE u == Writes(t, "marker", TRUE)
  <2>1. t.line = "empty"
    BY <1>3 DEF Tidy, LineIsTold
  <2>2. Tidy(u) /\ u.line = "empty" /\ u.started = t.started
    BY <2>1, WholeLine
  <2> HIDE DEF u
  <2>3. u \in Terminal /\ ~u.started
    BY <1>3, <2>2 DEF Tidy
  <2>4. Reasoned(t) = [Writes(u, "reasoning", FALSE) EXCEPT !.open = TRUE]
    BY <1>3 DEF Reasoned, u
  <2> QED
    BY <1>3, <2>2, <2>3, <2>4 DEF Tidy, LineIsTold, Writes, Terminal
<1> QED
  BY <1>1, <1>2, <1>3 DEF Terminal

LEMMA TextIsTidy ==
  ASSUME NEW t \in Terminal, Tidy(t), NEW ends \in BOOLEAN
  PROVE  Tidy(Texted(t, ends))
<1> DEFINE u == IF t.started THEN t ELSE CloseReasoning(t)
<1>1. Tidy(u) /\ ~u.open
  BY Finishings DEF Tidy, LineIsTold
<1>2. Texted(t, ends) = [Writes(u, "verdict", ends) EXCEPT !.started = TRUE, !.stdoutOpen = ~ends]
  BY DEF Texted
<1> HIDE DEF u
<1>3. u \in Terminal
  BY <1>1 DEF Tidy
<1> QED
  BY <1>1, <1>2, <1>3 DEF Tidy, LineIsTold, Writes, Terminal

\* The three endings of a call.
LEMMA EndingsAreTidy ==
  ASSUME NEW t \in Terminal, Tidy(t)
  PROVE  /\ Tidy(Complained(t)) /\ Complained(t).started = t.started
         /\ ~t.started => Tidy(Printed(t)) /\ Printed(t).started = t.started
         /\ t.started => Tidy(Finished(t)) /\ Finished(t).started = t.started
<1>1. Tidy(Complained(t)) /\ Complained(t).started = t.started
  <2> DEFINE a == CloseReasoning(t)
  <2>1. Tidy(a) /\ ~a.open /\ a.started = t.started
    BY Finishings
  <2> HIDE DEF a
  <2> DEFINE b == TerminatePartial(a)
  <2>2. a \in Terminal
    BY <2>1 DEF Tidy
  <2>3. Tidy(b) /\ ~b.open /\ ~b.stdoutOpen /\ b.started = t.started
    BY <2>1, <2>2, Finishings
  <2> HIDE DEF b
  <2> DEFINE c == FlushPending(b)
  <2>4. b \in Terminal /\ b.line = "empty"
    BY <2>3, EmptyWhenClosed DEF Tidy
  <2>5. Tidy(c) /\ c.line = "empty" /\ c.started = t.started
    BY <2>3, <2>4, Finishings
  <2> HIDE DEF c
  <2>6. Complained(t) = Writes(c, "error", TRUE) /\ c \in Terminal
    BY <2>5 DEF Complained, a, b, c, Tidy
  <2> QED
    BY <2>5, <2>6, WholeLine
<1>2. ASSUME ~t.started  PROVE Tidy(Printed(t)) /\ Printed(t).started = t.started
  <2> DEFINE a == CloseReasoning(t)
  <2>1. Tidy(a) /\ ~a.open /\ a.started = t.started
    BY Finishings
  <2> HIDE DEF a
  <2>2. a \in Terminal /\ a.line = "empty"
    BY <1>2, <2>1 DEF Tidy, LineIsTold
  <2>3. Printed(t) = Writes(a, "verdict", TRUE)
    BY DEF Printed, a
  <2> QED
    BY <2>1, <2>2, <2>3, WholeLine
<1>3. ASSUME t.started  PROVE Tidy(Finished(t)) /\ Finished(t).started = t.started
  <2> DEFINE b == TerminatePartial(t)
  <2>1. ~t.open
    BY <1>3 DEF Tidy, LineIsTold
  <2>2. Tidy(b) /\ ~b.open /\ ~b.stdoutOpen /\ b.started = t.started
    BY <2>1, Finishings
  <2> HIDE DEF b
  <2> DEFINE c == FlushPending(b)
  <2>3. b \in Terminal /\ b.line = "empty"
    BY <2>2, EmptyWhenClosed DEF Tidy
  <2>4. Tidy(c) /\ c.line = "empty" /\ c.started = t.started
    BY <2>2, <2>3, Finishings
  <2> HIDE DEF c
  <2>5. c \in Terminal
    BY <2>4 DEF Tidy
  <2> DEFINE d == Writes(c, "usage", TRUE)
  <2>6. Tidy(d) /\ d.line = "empty" /\ d.started = t.started
    BY <2>4, <2>5, WholeLine
  <2> HIDE DEF d
  <2>7. Finished(t) = Writes(d, "usage", TRUE) /\ d \in Terminal
    BY <2>6 DEF Finished, b, c, d, Tidy
  <2> QED
    BY <2>6, <2>7, WholeLine
<1> QED
  BY <1>1, <1>2, <1>3

Unfinished == {"asked", "acquired", "ready", "called"}
ReviewTyped ==
  /\ DOMAIN review = ReviewFields /\ review.request \in Request
  /\ review.at \in Unfinished \cup {"done", "told"} /\ (review.at \in Unfinished <=> review.result = "none")
  /\ review.calls \in Seq(Sections) /\ review.plan \in Seq(Sections) /\ review.verdicts \in Nat
  /\ review.coverage \in {"none", "complete", "partial"}
Paced ==
  LET sent == Len(review.calls)
  IN  /\ review.at \in {"asked", "acquired", "ready"} => sent = review.verdicts
      /\ review.at = "called" => sent = review.verdicts + 1
      /\ sent = review.verdicts \/ sent = review.verdicts + 1
      /\ sent <= Len(review.plan) /\ (review.at = "ready" => sent < Len(review.plan))
CallsAsPlanned ==
  /\ review.at \in {"asked", "acquired"} => review.calls = <<>> /\ review.plan = <<>>
  /\ review.at = "acquired" => review.diff = Diff(review.request) /\ review.diff # <<>>
  /\ review.at \in {"ready", "called"} \/ Approved \/ review.calls # <<>> =>
       PlanIsRight(review.request, review.plan, review.coverage)
  /\ \A i \in 1..Len(review.calls) : review.calls[i] = review.plan[i]
CallsFit ==
  Sharded => /\ \A i \in 1..Len(review.calls) : Weight(review.request, review.calls[i]) <= ShardMax
             /\ Total(review.request, review.calls) <= TotalMax
Concluded ==
  /\ Approved => review.verdicts = Len(review.plan) /\ Len(review.calls) = review.verdicts
  /\ review.shown \in Nat /\ review.shown <= review.verdicts
OnScreen == Tidy(terminal) /\ (terminal.started => review.request.stream) /\ terminal.chunks <= MaxChunks
Kept == ReviewTyped /\ Paced /\ CallsAsPlanned /\ CallsFit /\ Concluded
ReviewIInv == Kept /\ OnScreen

LEMMA ReviewRow ==
  ASSUME NEW row, DOMAIN row = ReviewFields
  PROVE  /\ \A result : LET new == [row EXCEPT !.at = "done", !.result = result] IN
              /\ DOMAIN new = ReviewFields /\ new.at = "done" /\ new.result = result
              /\ new.request = row.request /\ new.calls = row.calls /\ new.verdicts = row.verdicts
              /\ new.shown = row.shown /\ new.plan = row.plan /\ new.coverage = row.coverage
         /\ \A diff : LET new == [row EXCEPT !.at = "acquired", !.diff = diff] IN
              /\ DOMAIN new = ReviewFields /\ new.at = "acquired" /\ new.diff = diff
              /\ new.request = row.request /\ new.calls = row.calls /\ new.verdicts = row.verdicts
              /\ new.shown = row.shown /\ new.result = row.result /\ new.plan = row.plan /\ new.coverage = row.coverage
         /\ \A plan, coverage : LET new == [row EXCEPT !.at = "ready", !.plan = plan, !.coverage = coverage] IN
              /\ DOMAIN new = ReviewFields /\ new.at = "ready" /\ new.plan = plan /\ new.coverage = coverage
              /\ new.request = row.request /\ new.calls = row.calls /\ new.verdicts = row.verdicts
              /\ new.shown = row.shown /\ new.result = row.result
  BY DEF ReviewFields

LEMMA ReviewMoves ==
  ASSUME NEW row, DOMAIN row = ReviewFields
  PROVE  /\ \A shard : LET new == [row EXCEPT !.at = "called", !.calls = Append(@, shard)] IN
              /\ DOMAIN new = ReviewFields /\ new.at = "called" /\ new.calls = Append(row.calls, shard)
              /\ new.request = row.request /\ new.verdicts = row.verdicts /\ new.coverage = row.coverage
              /\ new.shown = row.shown /\ new.result = row.result /\ new.plan = row.plan
         /\ LET new == [row EXCEPT !.cancelled = TRUE] IN
              /\ DOMAIN new = ReviewFields /\ new.at = row.at /\ new.calls = row.calls
              /\ new.request = row.request /\ new.verdicts = row.verdicts /\ new.diff = row.diff
              /\ new.shown = row.shown /\ new.result = row.result /\ new.plan = row.plan /\ new.coverage = row.coverage
         /\ \A at, result, verdicts :
              LET new == [row EXCEPT !.verdicts = verdicts, !.at = at, !.result = result] IN
              /\ DOMAIN new = ReviewFields /\ new.at = at /\ new.calls = row.calls
              /\ new.request = row.request /\ new.verdicts = verdicts /\ new.coverage = row.coverage
              /\ new.shown = row.shown /\ new.result = result /\ new.plan = row.plan
         /\ \A said : LET new == [row EXCEPT !.at = "told", !.shown = said] IN
              /\ DOMAIN new = ReviewFields /\ new.at = "told" /\ new.calls = row.calls
              /\ new.request = row.request /\ new.verdicts = row.verdicts /\ new.coverage = row.coverage
              /\ new.shown = said /\ new.result = row.result /\ new.plan = row.plan
  BY DEF ReviewFields

LEMMA ScreenStays ==
  ASSUME OnScreen, terminal' = terminal, review'.request = review.request
  PROVE  OnScreen'
  BY DEF OnScreen

\* A review that ends without success keeps what it has.
LEMMA EndsKeeps ==
  ASSUME Kept, review.at \in Unfinished, NEW result, result \notin {"ok", "none"}, Ends(result)
  PROVE  Kept' /\ review'.request = review.request
<1>1. /\ DOMAIN review' = ReviewFields /\ review'.at = "done" /\ review'.result = result
      /\ review'.request = review.request /\ review'.calls = review.calls /\ review'.verdicts = review.verdicts
      /\ review'.shown = review.shown /\ review'.plan = review.plan /\ review'.coverage = review.coverage
  BY ReviewRow DEF Kept, ReviewTyped, Ends
<1>2. ReviewTyped' /\ Paced'
  BY <1>1 DEF Kept, ReviewTyped, Paced, Unfinished
<1>3. CallsAsPlanned' /\ Concluded'
  BY <1>1 DEF Kept, CallsAsPlanned, Concluded, Approved
<1>4. CallsFit'
  BY <1>1 DEF Kept, CallsFit, Sharded
<1> QED
  BY <1>1, <1>2, <1>3, <1>4 DEF Kept

LEMMA AcquireReviewKeeps == ASSUME Kept, RunsIInv, OwnDecided, Acquire PROVE Kept' /\ review'.request = review.request
<1> DEFINE q == review.request
<1>1. review.at = "asked" /\ review.at \in Unfinished
  BY DEF Acquire, Unfinished
<1>2. ASSUME review' = [review EXCEPT !.at = "acquired", !.diff = Diff(q)], Diff(q) # <<>>
      PROVE  Kept' /\ review'.request = review.request
  <2>1. /\ DOMAIN review' = ReviewFields /\ review'.at = "acquired" /\ review'.diff = Diff(q)
        /\ review'.request = review.request /\ review'.calls = review.calls /\ review'.verdicts = review.verdicts
        /\ review'.shown = review.shown /\ review'.result = review.result /\ review'.plan = review.plan
        /\ review'.coverage = review.coverage
    BY <1>2, ReviewRow DEF Kept, ReviewTyped
  <2>2. review.calls = <<>> /\ review.plan = <<>> /\ review.result = "none"
    BY <1>1 DEF Kept, CallsAsPlanned, ReviewTyped
  <2>3. ReviewTyped' /\ Paced'
    BY <1>1, <2>1 DEF Kept, ReviewTyped, Paced, Unfinished
  <2>4. CallsAsPlanned' /\ Concluded'
    BY <1>2, <2>1, <2>2 DEF Kept, CallsAsPlanned, Concluded, Approved
  <2>5. CallsFit'
    BY <2>1 DEF Kept, CallsFit, Sharded
  <2> QED
    BY <2>1, <2>3, <2>4, <2>5 DEF Kept
<1>3. Acquired(q) # "none"
  <2>1. CASE q.source \in {"stdin", "local"}
    BY <2>1 DEF Acquired
  <2>2. CASE q.source \notin {"stdin", "local"}
    <3>1. q.source = "pr"
      BY <2>2, RequestFacts DEF Kept, ReviewTyped
    <3>2. acquirer[Own].at = "returned"
      BY <3>1 DEF Acquire, AtRun
    <3>3. acquirer[Own].result # "none"
      BY <3>2 DEF OwnDecided, Undecided, Setting, Working
    <3> QED
      BY <2>2, <3>3 DEF Acquired
  <2> QED
    BY <2>1, <2>2
<1>4. ASSUME NEW result, result \notin {"ok", "none"}, Ends(result)  PROVE Kept' /\ review'.request = review.request
  BY <1>1, <1>4, EndsKeeps
<1>5. EmptyDiff(q) \notin {"ok", "none"}
  BY DEF EmptyDiff
<1>6. \/ Ends("cancelled") \/ (Acquired(q) # "ok" /\ Ends(Acquired(q))) \/ Ends(EmptyDiff(q)) \/ Ends("invalid")
      \/ (Diff(q) # <<>> /\ review' = [review EXCEPT !.at = "acquired", !.diff = Diff(q)])
  BY DEF Acquire
<1> QED
  BY <1>2, <1>3, <1>4, <1>5, <1>6

LEMMA NoCalls ==
  ASSUME NEW q \in Request
  PROVE  Total(q, <<>>) <= TotalMax
<1>1. <<>> \in Seq(Sections) /\ TotalMax \in Nat
  BY ReviewAssumption
<1>2. Total(q, <<>>) = 0
  BY <1>1, TotalIsNat
<1> QED
  BY <1>1, <1>2

LEMMA PlanReviewKeeps == ASSUME Kept, Plan PROVE Kept' /\ review'.request = review.request
<1> DEFINE q == review.request
           plan == PlanFor(q, review.diff)
<1>1. review.at = "acquired" /\ review.at \in Unfinished /\ q \in Request
  BY DEF Plan, Unfinished, Kept, ReviewTyped
<1>2. review.diff = Diff(q) /\ review.diff # <<>> /\ review.calls = <<>> /\ review.result = "none"
  BY <1>1 DEF Kept, CallsAsPlanned, ReviewTyped
<1>3. (plan.error # "ok" /\ Ends(plan.error))
      \/ (plan.error = "ok" /\ review' = [review EXCEPT !.at = "ready", !.plan = plan.shards, !.coverage = plan.coverage])
  BY DEF Plan
<1>4. plan.error # "none"
  <2>1. Diff(q) \in Sections /\ Distinct(Diff(q))
    BY <1>1, DiffFacts
  <2>2. CASE q.payload = "shard"
    <3>1. plan = ShardPlan(q, Diff(q))
      BY <1>2, <2>2 DEF PlanFor
    <3> QED
      BY <2>1, <3>1, ShardsAreSound
  <2>3. CASE q.payload # "shard"
    <3>1. plan = SinglePlan(q, Diff(q))
      BY <1>2, <2>3 DEF PlanFor
    <3> QED
      BY <1>1, <2>1, <3>1, SingleFacts
  <2> QED
    BY <2>2, <2>3
<1>5. plan.error = "ok" => PlanIsRight(q, plan.shards, plan.coverage)
  BY <1>1, <1>2, PlansAreRight
<1> HIDE DEF plan
<1>6. CASE plan.error # "ok" /\ Ends(plan.error)
  BY <1>1, <1>4, <1>6, EndsKeeps
<1>7. ASSUME plan.error = "ok", review' = [review EXCEPT !.at = "ready", !.plan = plan.shards, !.coverage = plan.coverage]
      PROVE  Kept' /\ review'.request = review.request
  <2>1. /\ DOMAIN review' = ReviewFields /\ review'.at = "ready" /\ review'.plan = plan.shards
        /\ review'.coverage = plan.coverage
        /\ review'.request = review.request /\ review'.calls = review.calls /\ review'.verdicts = review.verdicts
        /\ review'.shown = review.shown /\ review'.result = review.result
    BY <1>7, ReviewRow DEF Kept, ReviewTyped
  <2>2. PlanIsRight(q, plan.shards, plan.coverage)
    BY <1>5, <1>7
  <2>3. plan.shards \in Seq(Sections) /\ plan.shards # <<>> /\ plan.coverage \in {"none", "complete", "partial"}
    BY <2>2 DEF PlanIsRight, SoundPlan
  <2>4. Len(review.calls) = 0 /\ Len(plan.shards) \in Nat /\ 0 < Len(plan.shards)
    BY <1>2, <2>3
  <2>5. ReviewTyped'
    BY <1>1, <1>2, <2>1, <2>3 DEF Kept, ReviewTyped, Unfinished
  <2>6. Paced'
    BY <1>1, <2>1, <2>4 DEF Kept, ReviewTyped, Paced
  <2>7. CallsAsPlanned'
    BY <2>1, <2>2, <2>4 DEF CallsAsPlanned
  <2>8. Concluded'
    BY <1>2, <2>1 DEF Kept, Concluded, Approved
  <2>9. CallsFit'
    BY <1>1, <1>2, <2>1, <2>4, NoCalls DEF CallsFit, Sharded
  <2> QED
    BY <2>1, <2>5, <2>6, <2>7, <2>8, <2>9 DEF Kept
<1> QED
  BY <1>3, <1>6, <1>7

LEMMA CallIsAdded ==
  ASSUME NEW calls \in Seq(Sections), NEW shard \in Sections
  PROVE  LET more == Append(calls, shard)
         IN  /\ more \in Seq(Sections) /\ Len(calls) \in Nat /\ Len(more) = Len(calls) + 1
             /\ more[Len(calls) + 1] = shard /\ \A i \in 1..Len(calls) : more[i] = calls[i]
             /\ \A i \in 1..Len(more) : i = Len(calls) + 1 \/ i \in 1..Len(calls)
  OBVIOUS

LEMMA SendKeeps == ASSUME Kept, Send PROVE Kept' /\ review'.request = review.request
<1> DEFINE sent == Len(review.calls)
           shard == review.plan[sent + 1]
           q == review.request
           more == Append(review.calls, shard)
<1>1. review.at = "ready" /\ review.at \in Unfinished /\ q \in Request
  BY DEF Send, Unfinished, Kept, ReviewTyped
<1>2. \/ Ends("cancelled") \/ Ends("limit")
      \/ /\ Sharded => ~(Weight(q, shard) > ShardMax \/ Total(q, more) > TotalMax)
         /\ review' = [review EXCEPT !.at = "called", !.calls = Append(@, shard)]
  BY DEF Send
<1>3. /\ sent < Len(review.plan) /\ sent = review.verdicts /\ sent \in Nat /\ review.result = "none"
      /\ review.calls \in Seq(Sections) /\ review.plan \in Seq(Sections)
  <2>1. review.calls \in Seq(Sections) /\ review.plan \in Seq(Sections) /\ review.result = "none"
    BY <1>1 DEF Kept, ReviewTyped
  <2>2. sent < Len(review.plan) /\ sent = review.verdicts
    BY <1>1 DEF Kept, Paced
  <2> QED
    BY <2>1, <2>2
<1>4. shard \in Sections
  <2>1. sent + 1 \in 1..Len(review.plan)
    BY <1>3
  <2> QED
    BY <1>3, <2>1
<1> HIDE DEF shard
<1>5. ASSUME Sharded => ~(Weight(q, shard) > ShardMax \/ Total(q, more) > TotalMax),
             review' = [review EXCEPT !.at = "called", !.calls = Append(@, shard)]
      PROVE  Kept' /\ review'.request = review.request
  <2>1. /\ DOMAIN review' = ReviewFields /\ review'.at = "called" /\ review'.calls = more
        /\ review'.request = review.request /\ review'.verdicts = review.verdicts /\ review'.coverage = review.coverage
        /\ review'.shown = review.shown /\ review'.result = review.result /\ review'.plan = review.plan
    BY <1>5, ReviewMoves DEF Kept, ReviewTyped
  <2>2. /\ more \in Seq(Sections) /\ Len(more) = sent + 1
        /\ more[sent + 1] = shard /\ \A i \in 1..sent : more[i] = review.calls[i]
        /\ \A i \in 1..Len(more) : i = sent + 1 \/ i \in 1..sent
    <3> DEFINE calls == review.calls
    <3>1. calls \in Seq(Sections)
      BY <1>3
    <3> HIDE DEF calls
    <3>2. LET new == Append(calls, shard)
          IN  /\ new \in Seq(Sections) /\ Len(new) = Len(calls) + 1
              /\ new[Len(calls) + 1] = shard /\ \A i \in 1..Len(calls) : new[i] = calls[i]
              /\ \A i \in 1..Len(new) : i = Len(calls) + 1 \/ i \in 1..Len(calls)
      BY <1>4, <3>1, CallIsAdded
    <3> QED
      BY <3>2 DEF calls
  <2>3. Weight(q, shard) \in Nat /\ Total(q, more) \in Nat /\ ShardMax \in Nat /\ TotalMax \in Nat
    BY <1>1, <1>4, <2>2, WeightIsNat, TotalIsNat, ReviewAssumption
  <2>4. Sharded => Weight(q, shard) <= ShardMax /\ Total(q, more) <= TotalMax
    BY <1>5, <2>3
  <2> HIDE DEF more, sent
  <2>5. ReviewTyped'
    BY <1>3, <2>1, <2>2 DEF Kept, ReviewTyped, Unfinished
  <2>6. Paced'
    BY <1>3, <2>1, <2>2 DEF Paced
  <2>7. \A i \in 1..Len(more) : more[i] = review.plan[i]
    <3>1. \A i \in 1..sent : review.calls[i] = review.plan[i]
      BY DEF Kept, CallsAsPlanned, sent
    <3> QED
      BY <2>2, <3>1 DEF shard
  <2>8. CallsAsPlanned'
    <3>1. PlanIsRight(q, review.plan, review.coverage)
      BY <1>1 DEF Kept, CallsAsPlanned
    <3> QED
      BY <2>1, <2>7, <3>1 DEF CallsAsPlanned
  <2>9. Concluded'
    BY <1>3, <2>1 DEF Kept, Concluded, Approved
  <2>10. CallsFit'
    <3>1. ASSUME Sharded  PROVE \A i \in 1..Len(more) : Weight(q, more[i]) <= ShardMax
      <4>1. \A i \in 1..sent : Weight(q, review.calls[i]) <= ShardMax
        BY <3>1 DEF Kept, CallsFit, sent
      <4> QED
        BY <2>2, <2>4, <3>1, <4>1
    <3> QED
      BY <2>1, <2>4, <3>1 DEF CallsFit, Sharded
  <2> QED
    BY <2>1, <2>5, <2>6, <2>8, <2>9, <2>10 DEF Kept
<1> QED
  BY <1>1, <1>2, <1>5, EndsKeeps

LEMMA SignalKeeps == ASSUME Kept, SignalAborts PROVE Kept' /\ review'.request = review.request
<1>1. /\ DOMAIN review' = ReviewFields /\ review'.at = review.at /\ review'.coverage = review.coverage
      /\ review'.calls = review.calls /\ review'.request = review.request /\ review'.verdicts = review.verdicts
      /\ review'.diff = review.diff /\ review'.shown = review.shown /\ review'.result = review.result
      /\ review'.plan = review.plan
  BY ReviewMoves DEF SignalAborts, Kept, ReviewTyped
<1>2. ReviewTyped' /\ Paced' /\ Concluded'
  BY <1>1 DEF Kept, ReviewTyped, Paced, Concluded, Approved
<1>3. CallsAsPlanned'
  BY <1>1 DEF Kept, CallsAsPlanned, Approved
<1>4. CallsFit'
  BY <1>1 DEF Kept, CallsFit, Sharded
<1> QED
  BY <1>1, <1>2, <1>3, <1>4 DEF Kept

LEMMA AnswersKeeps == ASSUME Kept, Answers PROVE Kept' /\ review'.request = review.request
<1> DEFINE last == Len(review.calls) = Len(review.plan)
           at == IF last THEN "done" ELSE "ready"
           result == IF last THEN "ok" ELSE review.result
<1>1. review.at = "called"
  BY DEF Answers
<1>2. review' = [review EXCEPT !.verdicts = review.verdicts + 1, !.at = at, !.result = result]
  BY DEF Answers
<1> HIDE DEF at, result
<1>3. /\ DOMAIN review' = ReviewFields /\ review'.at = at /\ review'.calls = review.calls
      /\ review'.request = review.request /\ review'.verdicts = review.verdicts + 1 /\ review'.coverage = review.coverage
      /\ review'.shown = review.shown /\ review'.result = result /\ review'.plan = review.plan
  BY <1>2, ReviewMoves DEF Kept, ReviewTyped
<1>4. /\ Len(review.calls) = review.verdicts + 1 /\ Len(review.calls) <= Len(review.plan)
      /\ review.verdicts \in Nat /\ review.result = "none"
      /\ review.shown \in Nat /\ review.shown <= review.verdicts
      /\ Len(review.calls) \in Nat /\ Len(review.plan) \in Nat
  <2>1. review.verdicts \in Nat /\ review.result = "none" /\ Len(review.calls) \in Nat /\ Len(review.plan) \in Nat
    BY <1>1 DEF Kept, ReviewTyped, Unfinished
  <2>2. Len(review.calls) = review.verdicts + 1 /\ Len(review.calls) <= Len(review.plan)
    BY <1>1 DEF Kept, Paced
  <2>3. review.shown \in Nat /\ review.shown <= review.verdicts
    BY DEF Kept, Concluded
  <2> QED
    BY <2>1, <2>2, <2>3
<1>5. (last /\ at = "done" /\ result = "ok") \/ (~last /\ at = "ready" /\ result = "none")
  BY <1>4 DEF at, result
<1>6. ReviewTyped'
  <2>1. at \in {"done", "ready"} /\ (at \in Unfinished <=> result = "none")
    BY <1>5 DEF Unfinished
  <2>2. review.verdicts + 1 \in Nat
    BY <1>4
  <2> QED
    BY <1>3, <2>1, <2>2 DEF Kept, ReviewTyped, Unfinished
<1>7. Paced'
  <2>1. ~last => Len(review.calls) < Len(review.plan)
    BY <1>4
  <2> QED
    BY <1>3, <1>4, <1>5, <2>1 DEF Paced
<1>8. Concluded'
  BY <1>3, <1>4, <1>5 DEF Concluded, Approved
<1>9. CallsAsPlanned'
  <2>1. PlanIsRight(review.request, review.plan, review.coverage) /\ \A i \in 1..Len(review.calls) : review.calls[i] = review.plan[i]
    BY <1>1 DEF Kept, CallsAsPlanned
  <2> QED
    BY <1>3, <1>5, <2>1 DEF CallsAsPlanned
<1>10. CallsFit'
  BY <1>3 DEF Kept, CallsFit, Sharded
<1> QED
  BY <1>3, <1>6, <1>7, <1>8, <1>9, <1>10 DEF Kept

LEMMA RefusesKeeps == ASSUME Kept, Refuses PROVE Kept' /\ review'.request = review.request
<1>1. review.at \in Unfinished /\ \E result : result \notin {"ok", "none"} /\ Ends(result)
  BY DEF Refuses, Unfinished
<1> QED
  BY <1>1, EndsKeeps

LEMMA ReportsKeeps == ASSUME Kept, Reports PROVE Kept' /\ review'.request = review.request
<1>1. PICK said \in {review.verdicts, 0} : review' = [review EXCEPT !.at = "told", !.shown = said]
  BY DEF Reports
<1>2. /\ DOMAIN review' = ReviewFields /\ review'.at = "told" /\ review'.calls = review.calls
      /\ review'.request = review.request /\ review'.verdicts = review.verdicts /\ review'.coverage = review.coverage
      /\ review'.shown = said /\ review'.result = review.result /\ review'.plan = review.plan
  BY <1>1, ReviewMoves DEF Kept, ReviewTyped
<1>3. review.at = "done" /\ review.verdicts \in Nat
  BY DEF Reports, Kept, ReviewTyped
<1>4. ReviewTyped' /\ Paced'
  BY <1>2, <1>3 DEF Kept, ReviewTyped, Paced, Unfinished
<1>5. Concluded'
  BY <1>2, <1>3 DEF Kept, Concluded, Approved
<1>6. CallsAsPlanned'
  BY <1>2 DEF Kept, CallsAsPlanned, Approved
<1>7. CallsFit'
  BY <1>2 DEF Kept, CallsFit, Sharded
<1> QED
  BY <1>2, <1>4, <1>5, <1>6, <1>7 DEF Kept

\* What is written counts for no chunk but its own.
SameChunks(t, u) == "chunks" \in DOMAIN u /\ u.chunks = t.chunks
LEMMA WritingsKeepChunks ==
  ASSUME NEW t, "chunks" \in DOMAIN t
  PROVE  /\ \A w, e : SameChunks(t, Writes(t, w, e))
         /\ SameChunks(t, CloseReasoning(t)) /\ SameChunks(t, TerminatePartial(t)) /\ SameChunks(t, FlushPending(t))
<1>1. ASSUME NEW w, NEW e  PROVE SameChunks(t, Writes(t, w, e))
  BY DEF SameChunks, Writes
<1>2. ASSUME NEW u, SameChunks(t, u)
      PROVE  /\ SameChunks(t, [u EXCEPT !.open = FALSE]) /\ SameChunks(t, [u EXCEPT !.stdoutOpen = FALSE])
             /\ SameChunks(t, [u EXCEPT !.pending = FALSE])
  BY <1>2 DEF SameChunks
<1>3. SameChunks(t, t)
  BY DEF SameChunks
<1> QED
  BY <1>1, <1>2, <1>3 DEF CloseReasoning, TerminatePartial, FlushPending

LEMMA AnswersKeepChunks ==
  ASSUME NEW t, "chunks" \in DOMAIN t
  PROVE  SameChunks(t, Complained(t)) /\ SameChunks(t, Printed(t)) /\ SameChunks(t, Finished(t))
<1>1. SameChunks(t, Complained(t))
  <2> DEFINE a == CloseReasoning(t)
             b == TerminatePartial(a)
             c == FlushPending(b)
  <2>1. SameChunks(t, a)
    BY WritingsKeepChunks
  <2>2. SameChunks(a, b)
    <3>1. "chunks" \in DOMAIN a
      BY <2>1 DEF SameChunks
    <3> HIDE DEF a
    <3> QED
      BY <3>1, WritingsKeepChunks
  <2>3. SameChunks(b, c)
    <3>1. "chunks" \in DOMAIN b
      BY <2>2 DEF SameChunks
    <3> HIDE DEF b
    <3> QED
      BY <3>1, WritingsKeepChunks
  <2>4. SameChunks(c, Writes(c, "error", TRUE))
    <3>1. "chunks" \in DOMAIN c
      BY <2>3 DEF SameChunks
    <3> HIDE DEF c
    <3> QED
      BY <3>1, WritingsKeepChunks
  <2> HIDE DEF a, b, c
  <2> QED
    BY <2>1, <2>2, <2>3, <2>4 DEF SameChunks, Complained, a, b, c
<1>2. SameChunks(t, Printed(t))
  <2> DEFINE a == CloseReasoning(t)
  <2>1. SameChunks(t, a)
    BY WritingsKeepChunks
  <2> HIDE DEF a
  <2>2. SameChunks(a, Writes(a, "verdict", TRUE))
    <3>1. "chunks" \in DOMAIN a
      BY <2>1 DEF SameChunks
    <3> QED
      BY <3>1, WritingsKeepChunks
  <2> QED
    BY <2>1, <2>2 DEF SameChunks, Printed, a
<1>3. SameChunks(t, Finished(t))
  <2> DEFINE b == TerminatePartial(t)
             c == FlushPending(b)
             d == Writes(c, "usage", TRUE)
  <2>1. SameChunks(t, b)
    BY WritingsKeepChunks
  <2>2. SameChunks(b, c)
    <3>1. "chunks" \in DOMAIN b
      BY <2>1 DEF SameChunks
    <3> HIDE DEF b
    <3> QED
      BY <3>1, WritingsKeepChunks
  <2>3. SameChunks(c, d)
    <3>1. "chunks" \in DOMAIN c
      BY <2>2 DEF SameChunks
    <3> HIDE DEF c
    <3> QED
      BY <3>1, WritingsKeepChunks
  <2>4. SameChunks(d, Writes(d, "usage", TRUE))
    <3>1. "chunks" \in DOMAIN d
      BY <2>3 DEF SameChunks
    <3> HIDE DEF d
    <3> QED
      BY <3>1, WritingsKeepChunks
  <2> HIDE DEF b, c, d
  <2> QED
    BY <2>1, <2>2, <2>3, <2>4 DEF SameChunks, Finished, b, c, d
<1> QED
  BY <1>1, <1>2, <1>3

LEMMA ChunksKeepChunks ==
  ASSUME NEW t, "chunks" \in DOMAIN t
  PROVE  SameChunks(t, Reasoned(t)) /\ \A ends \in BOOLEAN : SameChunks(t, Texted(t, ends))
<1>1. SameChunks(t, Reasoned(t))
  <2>1. SameChunks(t, t) /\ SameChunks(t, [t EXCEPT !.pending = TRUE])
    BY DEF SameChunks
  <2> DEFINE u == IF t.open THEN t ELSE Writes(t, "marker", TRUE)
             v == Writes(u, "reasoning", FALSE)
  <2>2. SameChunks(t, u)
    BY <2>1, WritingsKeepChunks
  <2>3. SameChunks(u, v)
    <3>1. "chunks" \in DOMAIN u
      BY <2>2 DEF SameChunks
    <3> HIDE DEF u
    <3> QED
      BY <3>1, WritingsKeepChunks
  <2> HIDE DEF u, v
  <2>4. SameChunks(t, [v EXCEPT !.open = TRUE])
    BY <2>2, <2>3 DEF SameChunks
  <2>5. Reasoned(t) = IF t.started THEN [t EXCEPT !.pending = TRUE] ELSE [v EXCEPT !.open = TRUE]
    BY DEF Reasoned, u, v
  <2> QED
    BY <2>1, <2>4, <2>5
<1>2. ASSUME NEW ends \in BOOLEAN  PROVE SameChunks(t, Texted(t, ends))
  <2>1. SameChunks(t, t)
    BY DEF SameChunks
  <2> DEFINE u == IF t.started THEN t ELSE CloseReasoning(t)
             v == Writes(u, "verdict", ends)
  <2>2. SameChunks(t, u)
    BY <2>1, WritingsKeepChunks
  <2>3. SameChunks(u, v)
    <3>1. "chunks" \in DOMAIN u
      BY <2>2 DEF SameChunks
    <3> HIDE DEF u
    <3> QED
      BY <3>1, WritingsKeepChunks
  <2> HIDE DEF u, v
  <2>4. SameChunks(t, [v EXCEPT !.started = TRUE, !.stdoutOpen = ~ends])
    BY <2>2, <2>3 DEF SameChunks
  <2>5. Texted(t, ends) = [v EXCEPT !.started = TRUE, !.stdoutOpen = ~ends]
    BY DEF Texted, u, v
  <2> QED
    BY <2>4, <2>5
<1> QED
  BY <1>1, <1>2

\* The terminal after the answer of a call that failed, or that succeeded.
LEMMA TerminalKeeps ==
  ASSUME OnScreen, Answers \/ Refuses, review'.request = review.request
  PROVE  OnScreen'
<1> DEFINE t == terminal
<1>1. t \in Terminal /\ Tidy(t) /\ "chunks" \in DOMAIN t
  BY DEF OnScreen, Tidy, Terminal
<1>2. ASSUME NEW u, Tidy(u), u.started = t.started, SameChunks(t, u), terminal' = IF FromMcp \/ Sharded THEN t ELSE u
      PROVE  OnScreen'
  <2>1. terminal' = t \/ terminal' = u
    BY <1>2
  <2> QED
    BY <1>2, <2>1 DEF OnScreen, SameChunks
<1>3. CASE Answers
  <2>1. PICK w \in AfterWarnings(t) : OnTerminal(IF review.request.stream THEN Finished(w) ELSE Printed(w))
    BY <1>3 DEF Answers
  <2> DEFINE u == IF review.request.stream THEN Finished(w) ELSE Printed(w)
  <2>2. /\ review.request.stream => t.started
        /\ t.started => review.request.stream
        /\ terminal' = IF FromMcp \/ Sharded THEN t ELSE u
    BY <1>3, <2>1 DEF Answers, OnScreen, OnTerminal
  <2>3. w \in Terminal /\ Tidy(w) /\ w.started = t.started /\ w.chunks = t.chunks /\ "chunks" \in DOMAIN w
    BY <1>1, WarningsAreTidy DEF Terminal
  <2>4. Tidy(u) /\ u.started = w.started
    BY <2>2, <2>3, EndingsAreTidy
  <2>5. SameChunks(w, u)
    BY <2>3, AnswersKeepChunks
  <2> HIDE DEF u
  <2>6. SameChunks(t, u)
    BY <2>3, <2>5 DEF SameChunks
  <2> QED
    BY <1>2, <2>2, <2>3, <2>4, <2>6
<1>4. CASE Refuses
  <2>1. PICK w \in AfterWarnings(t) \cup {t} : OnTerminal(Complained(w))
    BY <1>4 DEF Refuses
  <2>2. terminal' = IF FromMcp \/ Sharded THEN t ELSE Complained(w)
    BY <2>1 DEF OnTerminal
  <2>3. w \in Terminal /\ Tidy(w) /\ w.started = t.started /\ w.chunks = t.chunks /\ "chunks" \in DOMAIN w
    BY <1>1, WarningsAreTidy DEF Terminal
  <2>4. Tidy(Complained(w)) /\ Complained(w).started = w.started
    BY <2>3, EndingsAreTidy
  <2>5. SameChunks(w, Complained(w))
    BY <2>3, AnswersKeepChunks
  <2>6. SameChunks(t, Complained(w))
    BY <2>3, <2>5 DEF SameChunks
  <2> QED
    BY <1>2, <2>2, <2>3, <2>4, <2>6
<1> QED
  BY <1>3, <1>4

LEMMA ChunkIsTidy ==
  ASSUME OnScreen, ReasoningArrives \/ TextArrives
  PROVE  OnScreen' /\ review' = review
<1> DEFINE t == terminal
<1>1. t \in Terminal /\ Tidy(t) /\ "chunks" \in DOMAIN t /\ t.chunks \in Nat /\ t.chunks < MaxChunks /\ MaxChunks \in Nat
      /\ review' = review
  BY ReviewAssumption DEF OnScreen, Tidy, Terminal, ReasoningArrives, TextArrives, Streams
<1>2. ASSUME NEW u, Tidy(u), SameChunks(t, u), u.started => review.request.stream, terminal' = Counted(u)
      PROVE  OnScreen'
  <2>1. u \in Terminal /\ u.chunks = t.chunks
    BY <1>2 DEF Tidy, SameChunks
  <2>2. Tidy(Counted(u)) /\ Counted(u).started = u.started
    BY <1>2, <2>1, Counts
  <2>3. Counted(u).chunks = u.chunks + 1
    BY <2>1 DEF Counted, Terminal
  <2>4. Counted(u).chunks <= MaxChunks
    BY <1>1, <2>1, <2>3
  <2> QED
    BY <1>1, <1>2, <2>2, <2>4 DEF OnScreen
<1>3. CASE ReasoningArrives
  <2>1. Tidy(Reasoned(t)) /\ Reasoned(t).started = t.started /\ SameChunks(t, Reasoned(t))
    BY <1>1, ReasoningIsTidy, ChunksKeepChunks
  <2>2. (t.started => review.request.stream) /\ terminal' = Counted(Reasoned(t))
    BY <1>3 DEF ReasoningArrives, OnScreen
  <2> QED
    BY <1>1, <1>2, <2>1, <2>2
<1>4. CASE TextArrives
  <2>1. PICK ends \in BOOLEAN : terminal' = Counted(Texted(t, ends))
    BY <1>4 DEF TextArrives
  <2>2. review.request.stream
    BY <1>4 DEF TextArrives
  <2>3. Tidy(Texted(t, ends)) /\ SameChunks(t, Texted(t, ends))
    BY <1>1, TextIsTidy, ChunksKeepChunks
  <2> QED
    BY <1>1, <1>2, <2>1, <2>2, <2>3
<1> QED
  BY <1>1, <1>3, <1>4

ReviewedRight == RunsIInv /\ OwnDecided /\ ReviewIInv

LEMMA ReviewIInvInit == RunsInit /\ ReviewInit => ReviewedRight
<1> SUFFICES ASSUME RunsInit, ReviewInit PROVE ReviewedRight
  OBVIOUS
<1>1. PICK q \in Request : review = NewReview(q)
  BY DEF ReviewInit
<1>2. /\ DOMAIN review = ReviewFields /\ review.at = "asked" /\ review.request = q /\ review.calls = <<>>
      /\ review.plan = <<>> /\ review.verdicts = 0 /\ review.shown = 0 /\ review.result = "none"
      /\ review.coverage = "none"
  BY <1>1 DEF NewReview, ReviewFields
<1>3. <<>> \in Seq(Sections) /\ Len(<<>>) = 0
  OBVIOUS
<1>4. ReviewTyped /\ Paced /\ CallsAsPlanned /\ Concluded
  BY <1>2, <1>3 DEF ReviewTyped, Paced, CallsAsPlanned, Concluded, Approved, Unfinished
<1>5. CallsFit
  BY <1>2, <1>3, NoCalls DEF CallsFit
<1>6. OnScreen
  BY ReviewAssumption DEF ReviewInit, NewTerminal, OnScreen, Tidy, LineIsTold, Terminal
<1>7. OwnDecided
  <2>1. Own \in Acquirer
    BY ReviewAssumption
  <2>2. acquirer[Own].at = "idle"
    BY <2>1 DEF RunsInit, NewAcquirer
  <2> QED
    BY <2>2 DEF OwnDecided, Undecided, Setting
<1> QED
  BY <1>4, <1>5, <1>6, <1>7, RunsIInvInit DEF ReviewedRight, ReviewIInv, Kept

LEMMA ReviewStepKeeps == ASSUME ReviewedRight, ReviewStep PROVE ReviewIInv'
<1>1. Kept /\ OnScreen /\ RunsIInv /\ OwnDecided
  BY DEF ReviewedRight, ReviewIInv
<1>2. CASE Acquire \/ Plan \/ Send \/ SignalAborts \/ Reports
  <2>1. Kept' /\ review'.request = review.request
    BY <1>1, <1>2, AcquireReviewKeeps, PlanReviewKeeps, SendKeeps, SignalKeeps, ReportsKeeps
  <2>2. terminal' = terminal
    BY <1>2 DEF Acquire, Plan, Send, SignalAborts, Reports
  <2> QED
    BY <1>1, <2>1, <2>2, ScreenStays DEF ReviewIInv
<1>3. CASE Answers \/ Refuses
  <2>1. Kept' /\ review'.request = review.request
    BY <1>1, <1>3, AnswersKeeps, RefusesKeeps
  <2> QED
    BY <1>1, <1>3, <2>1, TerminalKeeps DEF ReviewIInv
<1>4. CASE ReasoningArrives \/ TextArrives
  <2>1. OnScreen' /\ review' = review
    BY <1>1, <1>4, ChunkIsTidy
  <2>2. ReviewTyped' /\ Paced' /\ Concluded' /\ CallsFit'
    BY <1>1, <2>1 DEF Kept, ReviewTyped, Paced, Concluded, Approved, CallsFit, Sharded
  <2>3. CallsAsPlanned'
    BY <1>1, <2>1 DEF Kept, CallsAsPlanned, Approved
  <2> QED
    BY <2>1, <2>2, <2>3 DEF ReviewIInv, Kept
<1> QED
  BY <1>2, <1>3, <1>4 DEF ReviewStep

LEMMA ReviewIInvNext == ReviewedRight /\ [ReviewNext]_<<reviewVars, runVars>> => ReviewedRight'
<1> SUFFICES ASSUME ReviewedRight, [ReviewNext]_<<reviewVars, runVars>> PROVE ReviewedRight'
  OBVIOUS
<1>1. ASSUME UNCHANGED runVars  PROVE RunsIInv' /\ OwnDecided'
  <2>1. RunsIInv'
    BY <1>1, RunsIInvNext DEF ReviewedRight
  <2>2. OwnDecided'
    BY <1>1 DEF ReviewedRight, runVars, OwnDecided, Undecided
  <2> QED
    BY <2>1, <2>2
<1>2. ASSUME UNCHANGED reviewVars  PROVE ReviewIInv'
  <2>1. review' = review /\ terminal' = terminal
    BY <1>2 DEF reviewVars
  <2>2. ReviewTyped' /\ Paced' /\ Concluded' /\ CallsFit'
    BY <2>1 DEF ReviewedRight, ReviewIInv, Kept, ReviewTyped, Paced, Concluded, Approved, CallsFit, Sharded
  <2>3. CallsAsPlanned'
    BY <2>1 DEF ReviewedRight, ReviewIInv, Kept, CallsAsPlanned, Approved
  <2>4. OnScreen'
    BY <2>1, ScreenStays DEF ReviewedRight, ReviewIInv
  <2> QED
    BY <2>2, <2>3, <2>4 DEF ReviewIInv, Kept
<1>3. CASE ReviewStep /\ UNCHANGED runVars
  BY <1>1, <1>3, ReviewStepKeeps DEF ReviewedRight
<1>4. CASE AcquireStep(Own) /\ UNCHANGED reviewVars
  <2>1. RunsNext
    BY <1>4, ReviewAssumption DEF RunsNext
  <2>2. RunsIInv'
    BY <2>1, RunsIInvNext DEF ReviewedRight
  <2>3. OwnDecided'
    BY <1>4, OwnKeeps DEF ReviewedRight
  <2> QED
    BY <1>2, <1>4, <2>2, <2>3 DEF ReviewedRight
<1>5. CASE UNCHANGED <<reviewVars, runVars>>
  BY <1>1, <1>2, <1>5 DEF ReviewedRight
<1> QED
  BY <1>3, <1>4, <1>5 DEF ReviewNext

\* What was sent, of what was planned.
LEMMA CallsKnown ==
  ASSUME Kept
  PROVE  /\ review.calls \in Seq(Sections) /\ review.plan \in Seq(Sections) /\ review.request \in Request
         /\ DOMAIN review.calls = 1..Len(review.calls) /\ Len(review.calls) \in Nat /\ Len(review.plan) \in Nat
         /\ Len(review.calls) <= Len(review.plan)
         /\ \A i \in 1..Len(review.calls) : i \in 1..Len(review.plan) /\ review.calls[i] = review.plan[i]
         /\ (\E i \in 1..Len(review.calls) : TRUE) \/ Approved =>
              PlanIsRight(review.request, review.plan, review.coverage)
<1>1. review.calls \in Seq(Sections) /\ review.plan \in Seq(Sections) /\ review.request \in Request
  BY DEF Kept, ReviewTyped
<1>2. DOMAIN review.calls = 1..Len(review.calls) /\ Len(review.calls) \in Nat /\ Len(review.plan) \in Nat
  BY <1>1
<1>3. Len(review.calls) <= Len(review.plan)
  BY DEF Kept, Paced
<1>4. \A i \in 1..Len(review.calls) : i \in 1..Len(review.plan) /\ review.calls[i] = review.plan[i]
  BY <1>2, <1>3 DEF Kept, CallsAsPlanned
<1>5. (\E i \in 1..Len(review.calls) : TRUE) => review.calls # <<>>
  OBVIOUS
<1>6. review.calls # <<>> \/ Approved => PlanIsRight(review.request, review.plan, review.coverage)
  BY DEF Kept, CallsAsPlanned
<1> QED
  BY <1>1, <1>2, <1>3, <1>4, <1>5, <1>6

LEMMA AllWereSent == ASSUME Kept, Approved PROVE review.calls = review.plan
<1>1. /\ Len(review.calls) = Len(review.plan) /\ review.calls \in Seq(Sections) /\ review.plan \in Seq(Sections)
      /\ \A i \in 1..Len(review.calls) : review.calls[i] = review.plan[i]
  BY CallsKnown DEF Kept, Concluded
<1> QED
  BY <1>1

LEMMA NoneDropped == ASSUME Kept PROVE NothingIsDropped
<1> DEFINE q == review.request
           sent == Len(review.calls)
<1>1. /\ review.calls \in Seq(Sections) /\ q \in Request /\ DOMAIN review.calls = 1..sent
      /\ \A i \in 1..sent : i \in 1..Len(review.plan) /\ review.calls[i] = review.plan[i] /\ review.calls[i] \in Sections
      /\ ((\E i \in 1..sent : TRUE) \/ Approved => PlanIsRight(q, review.plan, review.coverage))
  BY CallsKnown
<1> HIDE DEF sent
<1>2. ASSUME Approved, NEW s \in ToSet(q.change), q.selectors = {} \/ Named(s) \cap q.selectors # {}
      PROVE  s \in Reviewed
  <2>1. Carries(review.plan, s)
    BY <1>1, <1>2 DEF PlanIsRight, Asked
  <2>2. review.plan = review.calls
    BY <1>2, AllWereSent
  <2>3. PICK i \in 1..sent : s \in ToSet(review.calls[i])
    BY <2>1, <2>2 DEF Carries, sent
  <2> QED
    BY <1>1, <2>3 DEF Reviewed
<1>3. ASSUME NEW i \in DOMAIN review.calls, NEW j \in DOMAIN review.calls,
             NEW k \in DOMAIN review.calls[i], NEW l \in DOMAIN review.calls[j],
             review.calls[i][k].nr = review.calls[j][l].nr
      PROVE  i = j /\ k = l
  <2>1. i \in 1..sent /\ j \in 1..sent /\ review.calls[i] \in Sections /\ review.calls[j] \in Sections
    BY <1>1
  <2> DEFINE x == review.calls[i][k]
             y == review.calls[j][l]
             diff == Diff(q)
  <2>2. /\ i \in 1..Len(review.plan) /\ j \in 1..Len(review.plan)
        /\ review.calls[i] = review.plan[i] /\ review.calls[j] = review.plan[j]
        /\ SoundPlan(review.plan, diff)
    BY <1>1, <2>1 DEF PlanIsRight
  <2>3. k \in 1..Len(review.calls[i]) /\ l \in 1..Len(review.calls[j])
    BY <2>1, SectionAt
  <2>4. x \in ToSet(review.calls[i]) /\ y \in ToSet(review.calls[j])
    BY <2>1, <2>3, ElementsOf
  <2>5. diff \in Sections /\ Distinct(diff)
    BY <1>1, DiffFacts
  <2>6. x \in ToSet(diff) /\ y \in ToSet(diff) /\ Distinct(review.calls[i])
        /\ (i # j => x.path # y.path)
    BY <2>2, <2>4 DEF SoundPlan
  <2>7. x = y
    BY <1>3, <2>5, <2>6, DifferentNumbers
  <2>8. i = j
    BY <2>6, <2>7
  <2>9. k = l
    BY <1>3, <2>1, <2>3, <2>6, <2>8, ElementsOf
  <2> QED
    BY <2>8, <2>9
<1> QED
  BY <1>2, <1>3 DEF NothingIsDropped

LEMMA NoneSpread == ASSUME Kept PROVE FilesStayWhole
<1> SUFFICES ASSUME NEW i \in DOMAIN review.calls, NEW j \in DOMAIN review.calls, i # j,
                    NEW s \in ToSet(review.calls[i]), NEW t \in ToSet(review.calls[j])
             PROVE  s.path # t.path
  BY DEF FilesStayWhole
<1>1. i \in 1..Len(review.calls) /\ j \in 1..Len(review.calls)
  BY CallsKnown
<1>2. /\ i \in 1..Len(review.plan) /\ j \in 1..Len(review.plan)
      /\ review.calls[i] = review.plan[i] /\ review.calls[j] = review.plan[j]
      /\ SoundPlan(review.plan, Diff(review.request))
  BY <1>1, CallsKnown DEF PlanIsRight
<1> QED
  BY <1>2 DEF SoundPlan

\* A review that is not sharded has planned one call.
LEMMA OneCall ==
  ASSUME Kept, ~Sharded, (\E i \in 1..Len(review.calls) : TRUE) \/ Approved
  PROVE  SingleIsRight(review.request, review.plan, review.coverage)
<1>1. review.request.payload \in {"single", "shard"}
  BY CallsKnown, RequestFacts
<1>2. review.request.payload = "single"
  BY <1>1 DEF Sharded
<1> QED
  BY <1>2, CallsKnown DEF PlanIsRight

LEMMA AllBounded == ASSUME Kept PROVE CallsAreBounded
<1>1. CASE Sharded
  <2>1. DOMAIN review.calls = 1..Len(review.calls)
    BY CallsKnown
  <2> QED
    BY <1>1, <2>1 DEF Kept, CallsFit, CallsAreBounded
<1>2. CASE ~Sharded
  <2>1. ASSUME NEW i \in DOMAIN review.calls
        PROVE  Overhead + review.request.ticket + Size(review.calls[i]) <= SingleMax
    <3>1. i \in 1..Len(review.calls)
      BY CallsKnown
    <3>2. i \in 1..Len(review.plan) /\ review.calls[i] = review.plan[i]
      BY <3>1, CallsKnown
    <3>3. PICK wanted \in Sections :
            review.plan = <<wanted>> /\ Overhead + review.request.ticket + Size(wanted) <= SingleMax
      BY <1>2, <3>1, OneCall DEF SingleIsRight
    <3>4. review.plan[i] = wanted
      BY <3>2, <3>3
    <3> QED
      BY <3>2, <3>3, <3>4
  <2> QED
    BY <1>2, <2>1 DEF CallsAreBounded
<1> QED
  BY <1>1, <1>2

LEMMA NoneOverNothing == ASSUME Kept PROVE NoVerdictOverNothing
<1> DEFINE found == {sel \in review.request.selectors : \E s \in Reviewed : ~s.binary /\ sel \in Named(s)}
<1> SUFFICES ASSUME Approved, ~Sharded
             PROVE  /\ review.request.selectors # {} => found # {}
                    /\ review.coverage = "complete" => found = review.request.selectors
  BY DEF NoVerdictOverNothing
<1>1. PICK wanted \in Sections :
        /\ review.plan = <<wanted>>
        /\ review.request.selectors # {} => Matches(wanted, review.request.selectors) # {}
        /\ review.coverage = "complete" => Matches(wanted, review.request.selectors) = review.request.selectors
  BY OneCall DEF SingleIsRight
<1>2. review.calls = <<wanted>>
  BY <1>1, AllWereSent
<1>3. Reviewed = ToSet(wanted)
  <2>1. DOMAIN review.calls = {1} /\ review.calls[1] = wanted
    BY <1>2
  <2> QED
    BY <2>1 DEF Reviewed
<1>4. \A s : s \in ToSet(wanted) <=> \E n \in DOMAIN wanted : wanted[n] = s
  BY SectionAt, ElementsOf
<1>5. found = Matches(wanted, review.request.selectors)
  BY <1>3, <1>4 DEF Matches
<1> HIDE DEF found
<1> QED
  BY <1>1, <1>5

LEMMA EndsInTime == ASSUME Kept PROVE FailureEndsTheReview
<1>1. Len(review.calls) \in Nat /\ review.verdicts \in Nat
  BY CallsKnown DEF Kept, ReviewTyped
<1>2. Len(review.calls) - review.verdicts \in {0, 1} /\ (review.at = "ready" => review.verdicts = Len(review.calls))
  BY <1>1 DEF Kept, Paced
<1> QED
  BY <1>2, AllWereSent DEF FailureEndsTheReview, Kept, Concluded

LEMMA ReviewIsTyped == ASSUME ReviewIInv PROVE ReviewTypeOK
<1>1. Kept /\ OnScreen
  BY DEF ReviewIInv
<1>2. /\ review.at \in {"asked", "acquired", "ready", "called", "done", "told"}
      /\ review.result = "none" <=> review.at \in {"asked", "acquired", "ready", "called"}
      /\ review.coverage \in {"none", "complete", "partial"}
  BY <1>1 DEF Kept, ReviewTyped, Unfinished
<1>3. IsPrefix(review.calls, review.plan)
  <2> DEFINE s == review.calls
             t == review.plan
  <2>1. /\ s \in Seq(Sections) /\ t \in Seq(Sections) /\ Len(s) \in Nat /\ Len(t) \in Nat /\ Len(s) <= Len(t)
        /\ \A i \in 1..Len(s) : s[i] = t[i]
    BY <1>1, CallsKnown
  <2> HIDE DEF s, t
  <2>2. \A i \in 1..Len(s) : SubSeq(s, 1, Len(s))[i] = s[i] /\ SubSeq(t, 1, Len(s))[i] = t[i]
    BY <2>1
  <2>3. /\ SubSeq(s, 1, Len(s)) \in Seq(Sections) /\ SubSeq(t, 1, Len(s)) \in Seq(Sections)
        /\ Len(SubSeq(s, 1, Len(s))) = Len(s) /\ Len(SubSeq(t, 1, Len(s))) = Len(s)
    BY <2>1
  <2>4. SubSeq(s, 1, Len(s)) = SubSeq(t, 1, Len(s))
    BY <2>1, <2>2, <2>3
  <2> QED
    BY <2>1, <2>4 DEF IsPrefix, s, t
<1>4. review.verdicts <= Len(review.calls)
  <2>1. Len(review.calls) \in Nat /\ review.verdicts \in Nat
    BY <1>1, CallsKnown DEF Kept, ReviewTyped
  <2> QED
    BY <1>1, <2>1 DEF Kept, Paced
<1>5. terminal.line \in {"empty", "marker", "reasoning", "verdict", "error", "usage"}
  BY <1>1 DEF OnScreen, Tidy, Terminal
<1>6. terminal.chunks \in 0..MaxChunks
  <2>1. terminal.chunks \in Nat /\ MaxChunks \in Nat /\ terminal.chunks <= MaxChunks
    BY <1>1, ReviewAssumption DEF OnScreen, Tidy, Terminal
  <2> QED
    BY <2>1
<1> QED
  BY <1>2, <1>3, <1>4, <1>5, <1>6 DEF ReviewTypeOK

(* Whatever is asked, of changes and selectors of any size: a review that  *)
(* succeeds has sent every section asked for, none twice and no file in    *)
(* two calls, within the bounds; the first call without a verdict is the   *)
(* last, a text none of the files is in gets no verdict, and nothing but a *)
(* warning of the model's result is begun on the line of something else.   *)
THEOREM ReviewAnswersWhatWasAsked == ReviewSpec => []ReviewInv
<1>1. RunsInit /\ ReviewInit => ReviewedRight
  BY ReviewIInvInit
<1>2. ReviewedRight /\ [ReviewNext]_<<reviewVars, runVars>> => ReviewedRight'
  BY ReviewIInvNext
<1>3. ReviewedRight => ReviewInv
  <2> SUFFICES ASSUME ReviewedRight PROVE ReviewInv
    OBVIOUS
  <2>1. ReviewIInv /\ Kept /\ Tidy(terminal)
    BY DEF ReviewedRight, ReviewIInv, OnScreen
  <2>2. LinesAreKeptApart
    BY <2>1 DEF Tidy, LinesAreKeptApart
  <2> QED
    BY <2>1, <2>2, ReviewIsTyped, NoneDropped, NoneSpread, AllBounded, NoneOverNothing, EndsInTime DEF ReviewInv
<1> QED
  BY <1>1, <1>2, <1>3, PTL DEF ReviewSpec

=============================================================================
