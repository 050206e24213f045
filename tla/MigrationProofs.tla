--------------------------- MODULE MigrationProofs ---------------------------
(***************************************************************************)
(* Two programs that rewrite configuration: what `triss migrate` promises  *)
(* for any files, any number of migrators and whatever fails, dies or is   *)
(* edited meanwhile, and, in the second half, that the registration in     *)
(* Codex's configuration rewrites any text without touching what is not of *)
(* triss, and overwrites nothing it has read.  MigrationInv is not         *)
(* inductive: that a file stays readable rests on what every migrator has  *)
(* read being readable, that what is not verified is backed up on the      *)
(* phases in which there is a backup, and that one works at a time on who  *)
(* holds the lock.  CodexInv is not either: what is about to be written is *)
(* sound because of what was read (RegistrarsFit), and overtakes nobody    *)
(* because it was read again (ReadOrLate).                                 *)
(***************************************************************************)
EXTENDS Migration, CodexConfig, SequenceTheorems, WellFoundedInduction, TLAPS

-----------------------------------------------------------------------------
(* The inductive invariant                                                 *)

Place == Unfinished \cup {"preflight", "decide", "done", "died"}
Read(m, t) == migrator[m].saw[t] # Gone

MigratorRecord ==
  [at : Place, n : Index, saw : [Target -> Text \cup {Gone}], tried : BOOLEAN, now : Text \cup {Gone, Garbled},
   backup : BOOLEAN, wrote : SUBSET Target, verified : BOOLEAN, says : Outcomes]

MigrationTyped ==
  /\ DOMAIN file = Target /\ (\A t \in Target : file[t] \in TextsOf(t) \cup {Gone})
  /\ lockHeld \in {NoLock} \cup [by : Migrator, written : BOOLEAN]
  /\ migrator \in [Migrator -> MigratorRecord]
  /\ edits \in Nat /\ raced \in BOOLEAN
  /\ DOMAIN meant = Target

\* What a migrator has read it could plan, and it reads all before it goes on.
HasRead(m) ==
  /\ \A t \in Target : Read(m, t) => migrator[m].saw[t] \in TextsOf(t) /\ ~Blocked(t, migrator[m].saw[t])
  /\ migrator[m].at = "preflight" => \A i \in Index : i < migrator[m].n => Read(m, Targets[i])
  /\ migrator[m].at \in Unfinished \cup {"decide", "died"} => \A t \in Target : Read(m, t)

\* Unedited, what somebody could plan once can be planned for good.
StaysReadable ==
  edits = 0 => \A t \in Target : (\E m \in Migrator : Read(m, t)) => ~Blocked(t, file[t])

\* From the backup to the verification there is one, or nothing was written.
Phases(m) ==
  LET q == migrator[m] IN
  /\ q.at \in {"preflight", "decide", "open", "dead", "stale", "lock", "backup"} => q.wrote = {} /\ ~q.verified
  /\ q.at \in {"check", "replace", "verify", "resolve", "read back", "check back", "restore"} => q.backup /\ ~q.verified
  /\ q.at \in {"check cleanup", "replace cleanup", "verify cleanup"} => q.verified
  /\ q.at \in {"read back", "check back", "restore"} => \A i \in Index : i < q.n => Targets[i] \notin q.wrote
  /\ q.wrote # {} /\ ~q.verified => q.backup

\* Nobody works without the lock, but after a live owner's was removed.
Holds(m) == lockHeld # NoLock /\ lockHeld.by = m
LockedWork ==
  ~raced => \A m \in Migrator : migrator[m].at \in AtWork \cup {"lock", "release"} => Holds(m)

MigrationIInv ==
  /\ MigrationTyped /\ (\A m \in Migrator : HasRead(m) /\ Phases(m))
  /\ SettingsSurvive /\ StaysReadable /\ LockedWork

-----------------------------------------------------------------------------
(* What the planners make of a text                                        *)

LEMMA Indexed ==
  /\ Len(Targets) \in Nat /\ Len(Targets) > 0 /\ 1 \in Index
  /\ \A i \in Index : Targets[i] \in Target
  /\ \A t \in Target : \E i \in Index : t = Targets[i]
  /\ \A i \in Index : i # Len(Targets) => i + 1 \in Index
BY MigrationAssumption DEF Index, Target

LEMMA Planned ==
  ASSUME NEW t \in Target, NEW x \in TextsOf(t), ~Blocked(t, x)
  PROVE  /\ x \in Text /\ x # Gone /\ x # Garbled
         /\ Canonical(t, x) \in TextsOf(t) /\ Canonical(t, x) \in Text /\ ~Blocked(t, Canonical(t, x))
         /\ Cleanup(t, x) \in TextsOf(t) /\ Cleanup(t, x) \in Text /\ ~Blocked(t, Cleanup(t, x))
         /\ Told(Canonical(t, x)) = Told(x) /\ Told(Cleanup(t, x)) = Told(x)
<1>1. x \in Text /\ x # Gone /\ x # Garbled
  BY MigrationAssumption DEF TextsOf, Blocked
<1>2. ASSUME NEW y \in Text
      PROVE  y # Gone /\ y # Garbled /\ (Told(y) = IF y.canonical # Unset THEN y.canonical ELSE y.legacy)
             /\ y.legacy \in Value \cup {Unset} /\ y.canonical \in Value \cup {Unset} /\ y.schema \in BOOLEAN
  BY MigrationAssumption DEF Told, Text
<1>3. ASSUME NEW y \in Text
      PROVE  /\ Moved(y) \in Text /\ Moved(y).legacy = Unset /\ Moved(y).canonical = Told(y)
             /\ Moved(y).schema = y.schema /\ Told(Moved(y)) = Told(y)
  <2>1. Told(y) \in Value \cup {Unset}
    BY <1>2
  <2>2. Moved(y) \in Text /\ Moved(y).legacy = Unset /\ Moved(y).canonical = Told(y) /\ Moved(y).schema = y.schema
    BY <2>1 DEF Moved, Text
  <2> QED
    BY <1>2, <2>2
<1>4. ASSUME NEW y \in Text, y.legacy = Unset, y.schema = x.schema
      PROVE  y \in TextsOf(t) /\ ~Blocked(t, y)
  BY <1>1, <1>2, <1>4, MigrationAssumption DEF TextsOf, Blocked
<1>5. /\ Canonical(t, x) \in TextsOf(t) /\ Canonical(t, x) \in Text /\ ~Blocked(t, Canonical(t, x))
      /\ Told(Canonical(t, x)) = Told(x) /\ (KindOf[t] # "env" => Canonical(t, x).schema = x.schema)
  <2>1. CASE KindOf[t] = "env"
    <3> DEFINE y == [x EXCEPT !.canonical = Told(x), !.schema = TRUE]
    <3>1. Canonical(t, x) = y
      BY <2>1 DEF Canonical
    <3>2. Told(x) \in Value \cup {Unset}
      BY <1>1, <1>2
    <3>3. y \in Text /\ y.legacy = x.legacy /\ y.canonical = Told(x)
      BY <1>1, <3>2 DEF Text
    <3> HIDE DEF y
    <3>4. y \in TextsOf(t)
      BY <2>1, <3>3 DEF TextsOf
    <3>5. Told(y) = Told(x)
      BY <1>1, <1>2, <3>3
    <3>6. ~Blocked(t, y)
      BY <1>1, <1>2, <2>1, <3>3, MigrationAssumption DEF Blocked
    <3> QED
      BY <2>1, <3>1, <3>3, <3>4, <3>5, <3>6
  <2>2. CASE KindOf[t] = "rule"
    BY <1>1, <2>2 DEF Canonical
  <2>3. CASE KindOf[t] \notin {"env", "rule"}
    <3>1. Canonical(t, x) = Moved(x)
      BY <2>3 DEF Canonical
    <3> QED
      BY <1>1, <1>3, <1>4, <3>1
  <2> QED
    BY <2>1, <2>2, <2>3
<1>6. /\ Cleanup(t, x) \in TextsOf(t) /\ Cleanup(t, x) \in Text /\ ~Blocked(t, Cleanup(t, x))
      /\ Told(Cleanup(t, x)) = Told(x)
  <2> DEFINE y == Moved(Canonical(t, x))
  <2>1. Cleanup(t, x) = y
    BY DEF Cleanup
  <2>2. y \in Text /\ y.legacy = Unset /\ Told(y) = Told(x) /\ (KindOf[t] # "env" => y.schema = x.schema)
    BY <1>3, <1>5
  <2> HIDE DEF y
  <2>3. y \in TextsOf(t) /\ ~Blocked(t, y)
    BY <1>1, <1>2, <2>2, MigrationAssumption DEF TextsOf, Blocked
  <2> QED
    BY <2>1, <2>2, <2>3
<1> QED
  BY <1>1, <1>5, <1>6

LEMMA MigrationIInvImplies == MigrationIInv => MigrationInv
<1> SUFFICES ASSUME MigrationIInv PROVE MigrationInv
  OBVIOUS
<1>1. ASSUME NEW m \in Migrator
      PROVE  migrator[m] \in MigratorRecord /\ migrator[m].at \in Place /\ migrator[m].says \in Outcomes
             /\ migrator[m].n \in Index /\ migrator[m].wrote \subseteq Target
  BY DEF MigrationIInv, MigrationTyped, MigratorRecord
<1>2. MigrationTypeOK
  BY <1>1 DEF MigrationIInv, MigrationTyped, MigrationTypeOK, Place
<1>3. ResumeIsPossible
  BY DEF MigrationIInv, HasRead, StaysReadable, ResumeIsPossible, Readable
<1>4. UnverifiedIsBackedUp
  BY DEF MigrationIInv, Phases, UnverifiedIsBackedUp
<1>5. OneAtWork
  BY DEF MigrationIInv, LockedWork, OneAtWork, Holds
<1> QED
  BY <1>2, <1>3, <1>4, <1>5 DEF MigrationIInv, MigrationInv

LEMMA MigrationIInvInit == MigrationInit => MigrationIInv
<1> SUFFICES ASSUME MigrationInit PROVE MigrationIInv
  OBVIOUS
<1>1. At0 \in MigratorRecord
  <2>1. "preflight" \in Place /\ 1 \in Index /\ [t \in Target |-> Gone] \in [Target -> Text \cup {Gone}]
        /\ Gone \in Text \cup {Gone, Garbled} /\ "none" \in Outcomes /\ {} \in SUBSET Target
    BY Indexed DEF Place, Outcomes
  <2> QED
    BY <2>1 DEF At0, MigratorRecord
<1>2. MigrationTyped
  BY <1>1 DEF MigrationTyped, MigrationInit
<1>3. ASSUME NEW m \in Migrator PROVE HasRead(m) /\ Phases(m)
  <2>1. migrator[m] = At0
    BY DEF MigrationInit
  <2>2. migrator[m].at = "preflight" /\ migrator[m].n = 1 /\ migrator[m].wrote = {} /\ ~migrator[m].verified
        /\ \A t \in Target : migrator[m].saw[t] = Gone
    BY <2>1 DEF At0
  <2>3. \A i \in Index : ~(i < 1)
    BY Indexed DEF Index
  <2> QED
    BY <2>2, <2>3 DEF HasRead, Read, Phases, Unfinished
<1>4. SettingsSurvive
  BY DEF SettingsSurvive, MigrationInit
<1>5. StaysReadable
  BY DEF StaysReadable, MigrationInit, Read, At0
<1>6. LockedWork
  BY DEF LockedWork, MigrationInit, At0, AtWork
<1> QED
  BY <1>2, <1>3, <1>4, <1>5, <1>6 DEF MigrationIInv

-----------------------------------------------------------------------------
(* One migrator and the others                                             *)

LEMMA RowTyped ==
  ASSUME MigrationTyped, NEW m \in Migrator
  PROVE  /\ migrator[m] \in MigratorRecord /\ migrator[m].at \in Place /\ migrator[m].n \in Index
         /\ migrator[m].saw \in [Target -> Text \cup {Gone}] /\ migrator[m].tried \in BOOLEAN
         /\ migrator[m].now \in Text \cup {Gone, Garbled} /\ migrator[m].backup \in BOOLEAN
         /\ migrator[m].wrote \subseteq Target /\ migrator[m].verified \in BOOLEAN /\ migrator[m].says \in Outcomes
         /\ Here(m) \in Target
<1>1. migrator[m] \in MigratorRecord
  BY DEF MigrationTyped
<1>2. /\ migrator[m].at \in Place /\ migrator[m].n \in Index
      /\ migrator[m].saw \in [Target -> Text \cup {Gone}] /\ migrator[m].tried \in BOOLEAN
      /\ migrator[m].now \in Text \cup {Gone, Garbled} /\ migrator[m].backup \in BOOLEAN
      /\ migrator[m].wrote \subseteq Target /\ migrator[m].verified \in BOOLEAN /\ migrator[m].says \in Outcomes
  BY <1>1 DEF MigratorRecord
<1> QED
  BY <1>1, <1>2, Indexed DEF Here

\* What a step does to the files: nothing, or a text that can be planned.
FilesSound ==
  /\ edits' = edits /\ DOMAIN file' = Target /\ DOMAIN meant' = Target
  /\ \A t \in Target : file'[t] = file[t] \/ (file'[t] \in TextsOf(t) /\ ~Blocked(t, file'[t]))
  /\ SettingsSurvive'

LEMMA FilesStaySound == MigrationIInv /\ FilesStay => FilesSound
BY DEF MigrationIInv, MigrationTyped, FilesStay, FilesSound, SettingsSurvive

LEMMA StepKeeps ==
  ASSUME MigrationIInv, NEW m \in Migrator, NEW r \in MigratorRecord, migrator' = [migrator EXCEPT ![m] = r],
         FilesSound, lockHeld' \in {NoLock} \cup [by : Migrator, written : BOOLEAN], raced' \in BOOLEAN,
         raced => raced', LockedWork', HasRead(m)', Phases(m)',
         \A t \in Target : r.saw[t] # Gone => Read(m, t) \/ ~Blocked(t, file'[t])
  PROVE  MigrationIInv'
<1>1. /\ migrator' \in [Migrator -> MigratorRecord] /\ migrator'[m] = r
      /\ \A o \in Migrator \ {m} : migrator'[o] = migrator[o]
  BY DEF MigrationIInv, MigrationTyped
<1>2. MigrationTyped'
  BY <1>1 DEF MigrationIInv, MigrationTyped, FilesSound
<1>3. ASSUME NEW o \in Migrator PROVE (HasRead(o) /\ Phases(o))'
  <2>1. CASE o = m
    BY <2>1
  <2>2. CASE o # m
    BY <1>1, <2>2 DEF MigrationIInv, HasRead, Phases, Read
  <2> QED
    BY <2>1, <2>2
<1>4. StaysReadable'
  <2> SUFFICES ASSUME edits = 0, NEW t \in Target, NEW o \in Migrator, Read(o, t)' PROVE ~Blocked(t, file'[t])
    BY DEF StaysReadable, FilesSound
  <2>1. CASE file'[t] # file[t]
    BY <2>1 DEF FilesSound
  <2>2. CASE file'[t] = file[t] /\ Read(o, t)
    BY <2>2 DEF MigrationIInv, StaysReadable
  <2>3. CASE o = m
    BY <1>1, <2>1, <2>2, <2>3 DEF Read
  <2>4. CASE o # m
    BY <1>1, <2>1, <2>2, <2>4 DEF Read
  <2> QED
    BY <2>3, <2>4
<1> QED
  BY <1>2, <1>3, <1>4 DEF MigrationIInv, FilesSound

\* The steps that leave the lock alone.
LEMMA QuietKeeps ==
  ASSUME MigrationIInv, NEW m \in Migrator, NEW r \in MigratorRecord, migrator' = [migrator EXCEPT ![m] = r],
         FilesSound, LockStays, r.saw = migrator[m].saw, r.at \notin {"preflight", "decide"},
         r.at \in Unfinished \cup {"died"} => migrator[m].at \in Unfinished \cup {"decide", "died"},
         r.at \in AtWork \cup {"lock", "release"} => migrator[m].at \in AtWork \cup {"lock", "release"},
         Phases(m)'
  PROVE  MigrationIInv'
<1>1. migrator'[m] = r /\ \A o \in Migrator \ {m} : migrator'[o] = migrator[o]
  BY DEF MigrationIInv, MigrationTyped
<1>2. HasRead(m)'
  BY <1>1 DEF MigrationIInv, HasRead, Read
<1>3. LockedWork'
  BY <1>1 DEF MigrationIInv, LockedWork, Holds, LockStays
<1>4. lockHeld' \in {NoLock} \cup [by : Migrator, written : BOOLEAN] /\ raced' = raced /\ raced \in BOOLEAN
  BY DEF MigrationIInv, MigrationTyped, LockStays
<1>5. \A t \in Target : r.saw[t] # Gone => Read(m, t)
  BY DEF Read
<1> QED
  BY <1>2, <1>3, <1>4, <1>5, StepKeeps

\* A migrator that ends, or goes on before it has written anything.
LEMMA Ended ==
  ASSUME MigrationIInv, NEW m \in Migrator, NEW o \in Outcomes, MigratorEnds(m, o), FilesStay,
         lockHeld' \in {NoLock} \cup [by : Migrator, written : BOOLEAN], raced' \in BOOLEAN, raced => raced',
         ~raced' => \A d \in Migrator \ {m} : migrator[d].at \in AtWork \cup {"lock", "release"} => Holds(d)'
  PROVE  MigrationIInv'
<1> DEFINE r == [migrator[m] EXCEPT !.at = "done", !.says = o]
<1>1. migrator' = [migrator EXCEPT ![m] = r]
  BY DEF MigratorEnds, MigrationIInv, MigrationTyped
<1>2. /\ r \in MigratorRecord /\ r.at = "done" /\ r.saw = migrator[m].saw /\ r.wrote = migrator[m].wrote
      /\ r.verified = migrator[m].verified /\ r.backup = migrator[m].backup
  <2>1. migrator[m] \in MigratorRecord /\ "done" \in Place
    BY RowTyped DEF MigrationIInv, Place
  <2> QED
    BY <2>1 DEF MigratorRecord
<1> HIDE DEF r
<1>3. migrator'[m] = r /\ \A d \in Migrator \ {m} : migrator'[d] = migrator[d]
  BY <1>1 DEF MigrationIInv, MigrationTyped
<1>4. HasRead(m)' /\ Phases(m)'
  BY <1>2, <1>3 DEF MigrationIInv, HasRead, Read, Phases, Unfinished
<1>5. LockedWork'
  BY <1>2, <1>3 DEF LockedWork, AtWork
<1>6. \A t \in Target : r.saw[t] # Gone => Read(m, t)
  BY <1>2 DEF Read
<1> QED
  BY <1>1, <1>2, <1>4, <1>5, <1>6, FilesStaySound, StepKeeps

LEMMA WentOn ==
  ASSUME MigrationIInv, NEW m \in Migrator, NEW place \in {"open", "dead", "stale", "lock", "backup"}, NEW n \in Index,
         NEW tried \in BOOLEAN, migrator' = [migrator EXCEPT ![m] = [migrator[m] EXCEPT !.at = place, !.n = n, !.tried = tried]],
         migrator[m].at \in {"decide", "open", "dead", "stale", "lock"}, FilesStay,
         lockHeld' \in {NoLock} \cup [by : Migrator, written : BOOLEAN], raced' \in BOOLEAN, raced => raced',
         place \in {"lock", "backup"} /\ ~raced' => Holds(m)',
         ~raced' => \A d \in Migrator \ {m} : migrator[d].at \in AtWork \cup {"lock", "release"} => Holds(d)'
  PROVE  MigrationIInv'
<1> DEFINE r == [migrator[m] EXCEPT !.at = place, !.n = n, !.tried = tried]
<1>1. migrator' = [migrator EXCEPT ![m] = r]
  OBVIOUS
<1>2. /\ r \in MigratorRecord /\ r.at = place /\ r.saw = migrator[m].saw /\ r.wrote = migrator[m].wrote
      /\ r.verified = migrator[m].verified /\ r.backup = migrator[m].backup
  <2>1. migrator[m] \in MigratorRecord /\ place \in Place
    BY RowTyped DEF MigrationIInv, Place, Unfinished
  <2> QED
    BY <2>1 DEF MigratorRecord
<1> HIDE DEF r
<1>3. migrator'[m] = r /\ \A d \in Migrator \ {m} : migrator'[d] = migrator[d]
  BY <1>1 DEF MigrationIInv, MigrationTyped
<1>5. migrator[m].wrote = {} /\ ~migrator[m].verified
  BY DEF MigrationIInv, Phases
<1>6. HasRead(m)'
  <2>1. HasRead(m) /\ \A t \in Target : Read(m, t)
    BY DEF MigrationIInv, HasRead, Unfinished
  <2>2. migrator'[m].saw = migrator[m].saw /\ migrator'[m].at # "preflight"
    BY <1>2, <1>3
  <2> QED
    BY <2>1, <2>2 DEF HasRead, Read
<1>7. Phases(m)'
  BY <1>2, <1>3, <1>5 DEF Phases
<1>8. LockedWork'
  BY <1>2, <1>3 DEF LockedWork, AtWork
<1>9. \A t \in Target : r.saw[t] # Gone => Read(m, t)
  BY <1>2 DEF Read
<1> QED
  BY <1>1, <1>2, <1>6, <1>7, <1>8, <1>9, FilesStaySound, StepKeeps

-----------------------------------------------------------------------------
(* Reading, deciding and the lock                                          *)

\* Where a migrator is after one of its targets.
LEMMA NextRow ==
  ASSUME MigrationTyped, NEW m \in Migrator, NEW place \in Place, NEW after \in Place
  PROVE  /\ NextTarget(m, place, after) \in MigratorRecord
         /\ NextTarget(m, place, after).at = IF IsLast(m) THEN after ELSE place
         /\ NextTarget(m, place, after).n = IF IsLast(m) THEN 1 ELSE migrator[m].n + 1
         /\ NextTarget(m, place, after).saw = migrator[m].saw /\ NextTarget(m, place, after).wrote = migrator[m].wrote
         /\ NextTarget(m, place, after).backup = migrator[m].backup
         /\ NextTarget(m, place, after).verified = migrator[m].verified
<1> DEFINE at == IF IsLast(m) THEN after ELSE place
           n == IF IsLast(m) THEN 1 ELSE migrator[m].n + 1
           r == [migrator[m] EXCEPT !.at = at, !.n = n]
<1>1. migrator[m] \in MigratorRecord /\ migrator[m].n \in Index
  BY RowTyped
<1>2. NextTarget(m, place, after) = r
  BY <1>1 DEF NextTarget, MigratorRecord
<1>3. at \in Place /\ n \in Index
  BY <1>1, Indexed DEF IsLast
<1> HIDE DEF at, n
<1>4. /\ r \in MigratorRecord /\ r.at = at /\ r.n = n /\ r.saw = migrator[m].saw /\ r.wrote = migrator[m].wrote
      /\ r.backup = migrator[m].backup /\ r.verified = migrator[m].verified
  BY <1>1, <1>3 DEF MigratorRecord
<1> HIDE DEF r
<1> QED
  BY <1>2, <1>4 DEF at, n

LEMMA ReadTargetKeeps == ASSUME MigrationIInv, NEW m \in Migrator, ReadTarget(m) PROVE MigrationIInv'
<1> DEFINE t == Here(m)
<1>1. /\ migrator[m].at = "preflight" /\ FilesStay /\ LockStays /\ MigrationTyped /\ t \in Target
      /\ migrator[m] \in MigratorRecord /\ migrator[m].n \in Index /\ lockHeld' = lockHeld /\ raced' = raced
      /\ lockHeld \in {NoLock} \cup [by : Migrator, written : BOOLEAN] /\ raced \in BOOLEAN /\ LockedWork
  BY RowTyped DEF ReadTarget, MigratorAt, MigrationIInv, MigrationTyped, LockStays
<1>2. CASE Blocked(t, file[t])
  <2>1. MigratorEnds(m, "blocked") /\ "blocked" \in Outcomes
    BY <1>2 DEF ReadTarget, Outcomes
  <2>2. ~raced' => \A d \in Migrator \ {m} : migrator[d].at \in AtWork \cup {"lock", "release"} => Holds(d)'
    BY <1>1 DEF LockedWork, Holds
  <2> QED
    BY <1>1, <2>1, <2>2, Ended
<1>3. CASE ~Blocked(t, file[t])
  <2> DEFINE q == NextTarget(m, "preflight", "decide")
             r == [q EXCEPT !.saw = [q.saw EXCEPT ![t] = file[t]]]
  <2>1. /\ q \in MigratorRecord /\ q.at = (IF IsLast(m) THEN "decide" ELSE "preflight")
        /\ q.n = (IF IsLast(m) THEN 1 ELSE migrator[m].n + 1) /\ q.saw = migrator[m].saw
        /\ q.wrote = migrator[m].wrote /\ q.verified = migrator[m].verified /\ q.saw \in [Target -> Text \cup {Gone}]
    <3>1. "preflight" \in Place /\ "decide" \in Place
      BY DEF Place
    <3> QED
      BY <1>1, <3>1, NextRow, RowTyped
  <2>2. migrator' = [migrator EXCEPT ![m] = r]
    <3>1. migrator' = [migrator EXCEPT ![m] = [q EXCEPT !.saw[t] = file[t]]]
      BY <1>3 DEF ReadTarget
    <3> HIDE DEF q, t
    <3> QED
      BY <3>1
  <2>3. file[t] \in TextsOf(t) /\ file[t] \in Text /\ file[t] # Gone
    <3>1. file[t] \in TextsOf(t) \cup {Gone} /\ file[t] # Gone
      BY <1>1, <1>3 DEF MigrationTyped, Blocked
    <3> QED
      BY <1>1, <1>3, <3>1, Planned
  <2> DEFINE saw == [migrator[m].saw EXCEPT ![t] = file[t]]
  <2>4. saw \in [Target -> Text \cup {Gone}] /\ saw[t] = file[t] /\ \A u \in Target \ {t} : saw[u] = migrator[m].saw[u]
    <3> HIDE DEF t
    <3> QED
      BY <1>1, <2>1, <2>3
  <2>5. r \in MigratorRecord /\ r.at = q.at /\ r.n = q.n /\ r.wrote = q.wrote /\ r.verified = q.verified /\ r.saw = saw
    <3> DEFINE w == [q.saw EXCEPT ![t] = file[t]]
    <3>1. w = saw
      BY <2>1
    <3> HIDE DEF q, saw, w
    <3>2. [q EXCEPT !.saw = w] \in MigratorRecord /\ [q EXCEPT !.saw = w].at = q.at /\ [q EXCEPT !.saw = w].n = q.n
          /\ [q EXCEPT !.saw = w].wrote = q.wrote /\ [q EXCEPT !.saw = w].verified = q.verified /\ [q EXCEPT !.saw = w].saw = w
      BY <2>1, <2>4, <3>1 DEF MigratorRecord
    <3> QED
      BY <3>1, <3>2 DEF w
  <2> HIDE DEF q, r, saw
  <2>6. migrator'[m] = r /\ \A d \in Migrator \ {m} : migrator'[d] = migrator[d]
    BY <1>1, <2>2, <2>5 DEF MigrationTyped
  <2>7. HasRead(m)'
    <3>1. HasRead(m)
      BY DEF MigrationIInv
    <3>2. ASSUME NEW u \in Target, Read(m, u)'
          PROVE  migrator'[m].saw[u] \in TextsOf(u) /\ ~Blocked(u, migrator'[m].saw[u])
      <4>1. CASE u = t
        BY <1>3, <2>3, <2>4, <2>5, <2>6, <4>1
      <4>2. CASE u # t
        BY <2>4, <2>5, <2>6, <3>1, <3>2, <4>2 DEF HasRead, Read
      <4> QED
        BY <4>1, <4>2
    <3>3. ASSUME NEW i \in Index, i <= migrator[m].n PROVE Read(m, Targets[i])'
      <4>1. CASE Targets[i] = t
        BY <2>3, <2>4, <2>5, <2>6, <4>1 DEF Read
      <4>2. CASE Targets[i] # t
        <5>1. i # migrator[m].n
          BY <4>2 DEF Here
        <5>2. i < migrator[m].n /\ Targets[i] \in Target
          BY <1>1, <3>3, <5>1, Indexed DEF Index
        <5> QED
          BY <1>1, <2>4, <2>5, <2>6, <3>1, <4>2, <5>2 DEF HasRead, Read
      <4> QED
        BY <4>1, <4>2
    <3>4. CASE IsLast(m)
      <4>1. migrator'[m].at = "decide" /\ \A i \in Index : i <= migrator[m].n
        BY <2>1, <2>5, <2>6, <3>4, Indexed DEF IsLast, Index
      <4>2. \A u \in Target : Read(m, u)'
        BY <3>3, <4>1, Indexed
      <4> QED
        BY <3>2, <4>1, <4>2 DEF HasRead
    <3>5. CASE ~IsLast(m)
      <4>1. migrator'[m].at = "preflight" /\ migrator'[m].n = migrator[m].n + 1
        BY <2>1, <2>5, <2>6, <3>5
      <4>2. \A i \in Index : i < migrator'[m].n => i <= migrator[m].n
        BY <1>1, <4>1 DEF Index
      <4> QED
        BY <3>2, <3>3, <4>1, <4>2 DEF HasRead, Unfinished
    <3> QED
      BY <3>4, <3>5
  <2>8. Phases(m)'
    <3>1. migrator[m].wrote = {} /\ ~migrator[m].verified
      BY <1>1 DEF MigrationIInv, Phases
    <3>2. migrator'[m].wrote = {} /\ ~migrator'[m].verified /\ migrator'[m].at \in {"preflight", "decide"}
      BY <2>1, <2>5, <2>6, <3>1
    <3> QED
      BY <3>2 DEF Phases
  <2>9. LockedWork'
    <3>1. migrator'[m].at \notin AtWork \cup {"lock", "release"}
      BY <2>1, <2>5, <2>6 DEF AtWork
    <3> QED
      BY <1>1, <2>6, <3>1 DEF LockedWork, Holds
  <2>10. \A u \in Target : r.saw[u] # Gone => Read(m, u) \/ ~Blocked(u, file'[u])
    <3>1. file' = file
      BY <1>1 DEF FilesStay
    <3> QED
      BY <1>3, <2>4, <2>5, <3>1 DEF Read
  <2> QED
    BY <1>1, <2>2, <2>5, <2>7, <2>8, <2>9, <2>10, FilesStaySound, StepKeeps
<1> QED
  BY <1>2, <1>3

\* Frames of the steps before the work, as Ended and WentOn take them.
LEMMA Others ==
  ASSUME MigrationIInv, NEW m \in Migrator, lockHeld' = lockHeld
  PROVE  /\ ~raced => \A d \in Migrator \ {m} : migrator[d].at \in AtWork \cup {"lock", "release"} => Holds(d)'
         /\ ~raced /\ migrator[m].at \in AtWork \cup {"lock", "release"} => Holds(m)'
         /\ lockHeld' \in {NoLock} \cup [by : Migrator, written : BOOLEAN] /\ raced \in BOOLEAN
BY DEF MigrationIInv, MigrationTyped, LockedWork, Holds

LEMMA GoesOn ==
  ASSUME MigrationIInv, NEW m \in Migrator, NEW place \in {"open", "dead", "stale", "lock", "backup"}, MigratorGoes(m, place)
  PROVE  /\ migrator' = [migrator EXCEPT ![m] = [migrator[m] EXCEPT !.at = place, !.n = 1, !.tried = migrator[m].tried]]
         /\ 1 \in Index /\ migrator[m].tried \in BOOLEAN
<1>1. migrator[m] \in MigratorRecord /\ migrator \in [Migrator -> MigratorRecord] /\ 1 \in Index /\ migrator[m].tried \in BOOLEAN
  BY RowTyped, Indexed DEF MigrationIInv, MigrationTyped
<1>2. [migrator[m] EXCEPT !.at = place, !.n = 1, !.tried = migrator[m].tried] = [migrator[m] EXCEPT !.at = place, !.n = 1]
  BY <1>1 DEF MigratorRecord
<1> QED
  BY <1>1, <1>2 DEF MigratorGoes

LEMMA DecideKeeps == ASSUME MigrationIInv, NEW m \in Migrator, Decide(m) PROVE MigrationIInv'
<1>1. migrator[m].at = "decide" /\ FilesStay /\ lockHeld' = lockHeld /\ raced' = raced
      /\ {"already_migrated", "blocked"} \subseteq Outcomes
  BY DEF Decide, MigratorAt, LockStays, Outcomes
<1>2. CASE MigratorEnds(m, "already_migrated") \/ MigratorEnds(m, "blocked")
  BY <1>1, <1>2, Others, Ended
<1>3. CASE MigratorGoes(m, "open")
  BY <1>1, <1>3, GoesOn, Others, WentOn
<1> QED
  BY <1>2, <1>3 DEF Decide

LEMMA OpenLockKeeps == ASSUME MigrationIInv, NEW m \in Migrator, OpenLock(m) PROVE MigrationIInv'
<1>1. migrator[m].at = "open" /\ FilesStay /\ raced' = raced /\ {"failed", "busy"} \subseteq Outcomes
  BY DEF OpenLock, MigratorAt, Outcomes
<1>2. CASE lockHeld' = lockHeld /\ (MigratorEnds(m, "failed") \/ MigratorEnds(m, "busy"))
  BY <1>1, <1>2, Others, Ended
<1>3. CASE lockHeld' = lockHeld /\ MigratorGoes(m, "dead")
  BY <1>1, <1>3, GoesOn, Others, WentOn
<1>4. CASE lockHeld = NoLock /\ lockHeld' = [by |-> m, written |-> FALSE] /\ MigratorGoes(m, "lock")
  <2>1. lockHeld' \in [by : Migrator, written : BOOLEAN] /\ lockHeld' # NoLock /\ lockHeld'.by = m
    <3>1. [by |-> m, written |-> FALSE] \in [by : Migrator, written : BOOLEAN]
      OBVIOUS
    <3> QED
      BY <1>4, <3>1, MigrationAssumption
  <2>2. Holds(m)' /\ raced \in BOOLEAN
    BY <2>1 DEF Holds, MigrationIInv, MigrationTyped
  <2>3. ~raced => \A d \in Migrator : migrator[d].at \notin AtWork \cup {"lock", "release"}
    BY <1>4 DEF MigrationIInv, LockedWork, Holds
  <2>4. /\ migrator' = [migrator EXCEPT ![m] = [migrator[m] EXCEPT !.at = "lock", !.n = 1, !.tried = migrator[m].tried]]
        /\ 1 \in Index /\ migrator[m].tried \in BOOLEAN
    BY <1>4, GoesOn
  <2>5. ~raced' => \A d \in Migrator \ {m} : migrator[d].at \in AtWork \cup {"lock", "release"} => Holds(d)'
    BY <1>1, <2>3
  <2>6. lockHeld' \in {NoLock} \cup [by : Migrator, written : BOOLEAN] /\ raced' \in BOOLEAN /\ (raced => raced')
    BY <1>1, <2>1, <2>2
  <2> QED
    BY <1>1, <2>2, <2>4, <2>5, <2>6, WentOn
<1> QED
  BY <1>2, <1>3, <1>4 DEF OpenLock

LEMMA AskOwnerKeeps == ASSUME MigrationIInv, NEW m \in Migrator, AskOwner(m) PROVE MigrationIInv'
<1>1. migrator[m].at = "dead" /\ FilesStay /\ lockHeld' = lockHeld /\ raced' = raced /\ {"failed", "busy"} \subseteq Outcomes
  BY DEF AskOwner, MigratorAt, LockStays, Outcomes
<1>2. CASE MigratorEnds(m, "failed") \/ MigratorEnds(m, "busy")
  BY <1>1, <1>2, Others, Ended
<1>3. CASE MigratorGoes(m, "stale")
  BY <1>1, <1>3, GoesOn, Others, WentOn
<1> QED
  BY <1>2, <1>3 DEF AskOwner

\* Without the lock nobody works, and who is dead does not.
LEMMA LockRemoved ==
  ASSUME MigrationIInv, NEW m \in Migrator,
         raced' \/ lockHeld = NoLock \/ lockHeld.by = m \/ Dead(lockHeld.by), raced => raced'
  PROVE  ~raced' => \A d \in Migrator \ {m} : migrator[d].at \notin AtWork \cup {"lock", "release"}
BY DEF MigrationIInv, LockedWork, Holds, Dead, MigratorAt, AtWork

LEMMA RemoveStaleKeeps == ASSUME MigrationIInv, NEW m \in Migrator, RemoveStale(m) PROVE MigrationIInv'
<1>1. /\ migrator[m].at = "stale" /\ FilesStay /\ lockHeld' = NoLock /\ "failed" \in Outcomes
      /\ raced' = (raced \/ (lockHeld # NoLock /\ ~Dead(lockHeld.by)))
  BY DEF RemoveStale, MigratorAt, Outcomes
<1>2. raced' \in BOOLEAN /\ (raced => raced')
  BY <1>1 DEF MigrationIInv, MigrationTyped
<1>3. ~raced' => \A d \in Migrator \ {m} : migrator[d].at \notin AtWork \cup {"lock", "release"}
  BY <1>1, <1>2, LockRemoved
<1>4. CASE lockHeld = NoLock
  <2>1. MigratorEnds(m, "failed")
    BY <1>4 DEF RemoveStale
  <2> QED
    BY <1>1, <1>2, <1>3, <2>1, Ended
<1>5. CASE lockHeld # NoLock
  <2>1. migrator' = [migrator EXCEPT ![m] = [migrator[m] EXCEPT !.at = "open", !.n = migrator[m].n, !.tried = TRUE]]
    <3>1. migrator[m] \in MigratorRecord /\ migrator \in [Migrator -> MigratorRecord]
      BY DEF MigrationIInv, MigrationTyped
    <3>2. [migrator[m] EXCEPT !.at = "open", !.n = migrator[m].n, !.tried = TRUE] = [migrator[m] EXCEPT !.at = "open", !.tried = TRUE]
      BY <3>1 DEF MigratorRecord
    <3> QED
      BY <1>5, <3>1, <3>2 DEF RemoveStale
  <2>2. migrator[m].n \in Index
    BY RowTyped DEF MigrationIInv
  <2> QED
    BY <1>1, <1>2, <1>3, <2>1, <2>2, WentOn
<1> QED
  BY <1>4, <1>5

LEMMA WriteLockKeeps == ASSUME MigrationIInv, NEW m \in Migrator, WriteLock(m) PROVE MigrationIInv'
<1>1. migrator[m].at = "lock" /\ FilesStay /\ raced' = raced /\ raced \in BOOLEAN /\ "failed" \in Outcomes
  BY DEF WriteLock, MigratorAt, Outcomes, MigrationIInv, MigrationTyped
<1>2. ~raced => Holds(m)
  BY <1>1 DEF MigrationIInv, LockedWork
<1>3. CASE /\ lockHeld' = IF lockHeld # NoLock /\ lockHeld.by = m THEN [lockHeld EXCEPT !.written = TRUE] ELSE lockHeld
           /\ MigratorGoes(m, "backup")
  <2>1. /\ lockHeld' \in {NoLock} \cup [by : Migrator, written : BOOLEAN]
        /\ lockHeld # NoLock => lockHeld' # NoLock /\ lockHeld'.by = lockHeld.by
    <3>1. lockHeld \in {NoLock} \cup [by : Migrator, written : BOOLEAN]
      BY DEF MigrationIInv, MigrationTyped
    <3>2. CASE lockHeld = NoLock
      BY <1>3, <3>2
    <3>3. CASE lockHeld \in [by : Migrator, written : BOOLEAN]
      <4>1. /\ [lockHeld EXCEPT !.written = TRUE] \in [by : Migrator, written : BOOLEAN]
            /\ [lockHeld EXCEPT !.written = TRUE].by = lockHeld.by
        BY <3>3
      <4> QED
        BY <1>3, <3>3, <4>1, MigrationAssumption
    <3> QED
      BY <3>1, <3>2, <3>3
  <2>2. ~raced => \A d \in Migrator : migrator[d].at \in AtWork \cup {"lock", "release"} => Holds(d)'
    BY <2>1 DEF MigrationIInv, LockedWork, Holds
  <2>3. /\ migrator' = [migrator EXCEPT ![m] = [migrator[m] EXCEPT !.at = "backup", !.n = 1, !.tried = migrator[m].tried]]
        /\ 1 \in Index /\ migrator[m].tried \in BOOLEAN
    BY <1>3, GoesOn
  <2>4. ~raced' => /\ \A d \in Migrator \ {m} : migrator[d].at \in AtWork \cup {"lock", "release"} => Holds(d)'
                   /\ Holds(m)'
    BY <1>1, <2>2
  <2> QED
    BY <1>1, <2>1, <2>3, <2>4, WentOn
<1>4. CASE lockHeld' = NoLock /\ MigratorEnds(m, "failed")
  <2>1. ~raced => \A d \in Migrator \ {m} : migrator[d].at \notin AtWork \cup {"lock", "release"}
    BY <1>1, <1>2, LockRemoved DEF Holds
  <2> QED
    BY <1>1, <1>4, <2>1, Ended
<1> QED
  BY <1>3, <1>4 DEF WriteLock

-----------------------------------------------------------------------------
(* The work under the lock                                                 *)

\* A row that is at work before and after, with what a phase says of it.
LEMMA WorkKeeps ==
  ASSUME MigrationIInv, NEW m \in Migrator, NEW r \in MigratorRecord, migrator' = [migrator EXCEPT ![m] = r],
         FilesSound, LockStays, r.saw = migrator[m].saw, migrator[m].at \in AtWork,
         r.at \in AtWork \cup {"release"}, r.at # "backup", r.wrote # {} /\ ~r.verified => r.backup,
         r.at \in {"check", "replace", "verify", "resolve", "read back", "check back", "restore"} => r.backup /\ ~r.verified,
         r.at \in {"check cleanup", "replace cleanup", "verify cleanup"} => r.verified,
         r.at \in {"read back", "check back", "restore"} => \A i \in Index : i < r.n => Targets[i] \notin r.wrote
  PROVE  MigrationIInv'
<1>1. migrator'[m] = r
  BY DEF MigrationIInv, MigrationTyped
<1>2. Phases(m)'
  BY <1>1 DEF Phases, AtWork
<1>3. migrator[m].at \in Unfinished /\ r.at \notin {"preflight", "decide"}
  BY DEF AtWork, Unfinished
<1> QED
  BY <1>2, <1>3, QuietKeeps

LEMMA FailKeeps ==
  ASSUME MigrationIInv, NEW m \in Migrator, FilesSound, LockStays,
         migrator[m].at \in AtWork \ {"backup"}, migrator' = [migrator EXCEPT ![m] = FailsTo(m, "incomplete")]
  PROVE  MigrationIInv'
<1>1. migrator[m] \in MigratorRecord /\ Phases(m) /\ migrator[m].verified \in BOOLEAN
  BY RowTyped DEF MigrationIInv
<1>2. {"release", "read back"} \subseteq Place /\ "incomplete" \in Outcomes /\ 1 \in Index /\ \A i \in Index : ~(i < 1)
  BY Indexed DEF Place, Unfinished, Outcomes, Index
<1>3. CASE migrator[m].verified
  <2> DEFINE r == [migrator[m] EXCEPT !.at = "release", !.says = "incomplete"]
  <2>1. r \in MigratorRecord /\ r.at = "release" /\ r.saw = migrator[m].saw /\ r.verified = migrator[m].verified
    BY <1>1, <1>2 DEF MigratorRecord
  <2>2. migrator' = [migrator EXCEPT ![m] = r]
    BY <1>3 DEF FailsTo
  <2> HIDE DEF r
  <2> QED
    BY <1>3, <2>1, <2>2, WorkKeeps
<1>4. CASE ~migrator[m].verified
  <2> DEFINE r == [migrator[m] EXCEPT !.at = "read back", !.n = 1]
  <2>1. /\ r \in MigratorRecord /\ r.at = "read back" /\ r.n = 1 /\ r.saw = migrator[m].saw
        /\ r.verified = migrator[m].verified /\ r.backup = migrator[m].backup
    BY <1>1, <1>2 DEF MigratorRecord
  <2>2. migrator' = [migrator EXCEPT ![m] = r]
    BY <1>4 DEF FailsTo
  <2>3. migrator[m].backup
    BY <1>1, <1>4 DEF Phases, AtWork
  <2> HIDE DEF r
  <2>4. r.at \in AtWork
    BY <2>1 DEF AtWork
  <2> QED
    BY <1>2, <1>4, <2>1, <2>2, <2>3, <2>4, WorkKeeps
<1> QED
  BY <1>1, <1>3, <1>4

LEMMA BackUpKeeps == ASSUME MigrationIInv, NEW m \in Migrator, BackUp(m) PROVE MigrationIInv'
<1>1. /\ migrator[m].at = "backup" /\ FilesSound /\ LockStays /\ migrator[m] \in MigratorRecord /\ Phases(m)
      /\ migrator \in [Migrator -> MigratorRecord]
      /\ {"check", "release"} \subseteq Place /\ "failed" \in Outcomes /\ "backup" \in AtWork /\ "check" \in AtWork
  BY RowTyped, FilesStaySound DEF BackUp, MigratorAt, MigrationIInv, MigrationTyped, Place, Unfinished, Outcomes, AtWork
<1>2. migrator[m].wrote = {} /\ ~migrator[m].verified
  BY <1>1 DEF Phases
<1>3. CASE migrator' = [migrator EXCEPT ![m].at = "check", ![m].backup = TRUE]
  <2> DEFINE r == [migrator[m] EXCEPT !.at = "check", !.backup = TRUE]
  <2>1. migrator' = [migrator EXCEPT ![m] = r]
    BY <1>1, <1>3
  <2>2. r \in MigratorRecord /\ r.at = "check" /\ r.backup = TRUE /\ r.saw = migrator[m].saw
        /\ r.wrote = migrator[m].wrote /\ r.verified = migrator[m].verified
    BY <1>1 DEF MigratorRecord
  <2> HIDE DEF r
  <2> QED
    BY <1>1, <1>2, <2>1, <2>2, WorkKeeps
<1>4. CASE migrator' = [migrator EXCEPT ![m].at = "release", ![m].says = "failed"]
  <2> DEFINE r == [migrator[m] EXCEPT !.at = "release", !.says = "failed"]
  <2>1. migrator' = [migrator EXCEPT ![m] = r]
    BY <1>1, <1>4
  <2>2. r \in MigratorRecord /\ r.at = "release" /\ r.saw = migrator[m].saw /\ r.wrote = migrator[m].wrote
    BY <1>1 DEF MigratorRecord
  <2> HIDE DEF r
  <2> QED
    BY <1>1, <1>2, <2>1, <2>2, WorkKeeps
<1> QED
  BY <1>3, <1>4 DEF BackUp

LEMMA CheckHashKeeps == ASSUME MigrationIInv, NEW m \in Migrator, CheckHash(m) PROVE MigrationIInv'
<1>1. /\ FilesSound /\ LockStays /\ migrator[m] \in MigratorRecord /\ Phases(m)
      /\ migrator \in [Migrator -> MigratorRecord]
  BY RowTyped, FilesStaySound DEF CheckHash, MigrationIInv, MigrationTyped
<1>2. ASSUME NEW from, NEW to,
             (from = "check" /\ to = "replace") \/ (from = "check cleanup" /\ to = "replace cleanup"),
             migrator[m].at = from,
             migrator' = [migrator EXCEPT ![m] = IF file[Here(m)] = Expected(m) THEN [@ EXCEPT !.at = to]
                                                 ELSE FailsTo(m, "incomplete")]
      PROVE  MigrationIInv'
  <2>1. from \in AtWork \ {"backup"} /\ to \in AtWork \ {"backup"} /\ to \in Place
    BY <1>2 DEF AtWork, Place, Unfinished
  <2>2. CASE file[Here(m)] # Expected(m)
    BY <1>1, <1>2, <2>1, <2>2, FailKeeps
  <2>3. CASE file[Here(m)] = Expected(m)
    <3> DEFINE r == [migrator[m] EXCEPT !.at = to]
    <3>1. migrator' = [migrator EXCEPT ![m] = r]
      BY <1>1, <1>2, <2>3
    <3>2. r \in MigratorRecord /\ r.at = to /\ r.saw = migrator[m].saw /\ r.backup = migrator[m].backup
          /\ r.wrote = migrator[m].wrote /\ r.verified = migrator[m].verified
      BY <1>1, <2>1 DEF MigratorRecord
    <3> HIDE DEF r
    <3>3. /\ r.at = "replace" => r.backup /\ ~r.verified
          /\ r.at = "replace cleanup" => r.verified
          /\ r.at \in {"replace", "replace cleanup"}
          /\ r.wrote # {} /\ ~r.verified => r.backup
      BY <1>1, <1>2, <3>2 DEF Phases
    <3> QED
      BY <1>1, <1>2, <2>1, <3>1, <3>2, <3>3, WorkKeeps
  <2> QED
    BY <2>2, <2>3
<1>3. PICK phase \in {<<"check", "replace">>, <<"check cleanup", "replace cleanup">>} :
        /\ migrator[m].at = phase[1]
        /\ migrator' = [migrator EXCEPT ![m] = IF file[Here(m)] = Expected(m) THEN [@ EXCEPT !.at = phase[2]]
                                               ELSE FailsTo(m, "incomplete")]
  BY DEF CheckHash, MigratorAt
<1>4. \/ phase[1] = "check" /\ phase[2] = "replace"
      \/ phase[1] = "check cleanup" /\ phase[2] = "replace cleanup"
  <2>1. CASE phase = <<"check", "replace">>
    BY <2>1
  <2>2. CASE phase = <<"check cleanup", "replace cleanup">>
    BY <2>2
  <2> QED
    BY <2>1, <2>2
<1> QED
  BY <1>2, <1>3, <1>4

LEMMA VerifyHashesKeeps == ASSUME MigrationIInv, NEW m \in Migrator, VerifyHashes(m) PROVE MigrationIInv'
<1>1. /\ migrator[m].at = "verify" /\ FilesSound /\ LockStays /\ Phases(m) /\ MigrationTyped
      /\ {"verify", "resolve"} \subseteq Place \cap AtWork
  BY FilesStaySound DEF VerifyHashes, MigratorAt, MigrationIInv, Place, Unfinished, AtWork
<1>2. CASE file[Here(m)] = Canonical(Here(m), migrator[m].saw[Here(m)])
  <2> DEFINE r == NextTarget(m, "verify", "resolve")
  <2>1. migrator' = [migrator EXCEPT ![m] = r]
    BY <1>2 DEF VerifyHashes
  <2>2. r \in MigratorRecord /\ r.at \in {"verify", "resolve"} /\ r.saw = migrator[m].saw /\ r.backup = migrator[m].backup
        /\ r.wrote = migrator[m].wrote /\ r.verified = migrator[m].verified
    BY <1>1, NextRow
  <2> HIDE DEF r
  <2>3. r.backup /\ ~r.verified
    BY <1>1, <2>2 DEF Phases
  <2> QED
    BY <1>1, <2>1, <2>2, <2>3, WorkKeeps
<1>3. CASE file[Here(m)] # Canonical(Here(m), migrator[m].saw[Here(m)])
  <2>1. migrator' = [migrator EXCEPT ![m] = FailsTo(m, "incomplete")]
    BY <1>3 DEF VerifyHashes
  <2> QED
    BY <1>1, <2>1, FailKeeps
<1> QED
  BY <1>2, <1>3

LEMMA ResolveKeeps == ASSUME MigrationIInv, NEW m \in Migrator, ResolveFromDisk(m) PROVE MigrationIInv'
<1>1. /\ migrator[m].at = "resolve" /\ FilesSound /\ LockStays /\ Phases(m) /\ migrator \in [Migrator -> MigratorRecord]
      /\ migrator[m] \in MigratorRecord /\ "resolve" \in AtWork /\ "check cleanup" \in Place \cap AtWork
  BY FilesStaySound DEF ResolveFromDisk, MigratorAt, MigrationIInv, MigrationTyped, Place, Unfinished, AtWork
<1>2. CASE Resolves(file)
  <2> DEFINE r == [migrator[m] EXCEPT !.at = "check cleanup", !.verified = TRUE]
  <2>1. migrator' = [migrator EXCEPT ![m] = r]
    BY <1>1, <1>2 DEF ResolveFromDisk
  <2>2. r \in MigratorRecord /\ r.at = "check cleanup" /\ r.saw = migrator[m].saw /\ r.verified = TRUE
    BY <1>1 DEF MigratorRecord
  <2> HIDE DEF r
  <2> QED
    BY <1>1, <2>1, <2>2, WorkKeeps
<1>3. CASE ~Resolves(file)
  <2>1. migrator' = [migrator EXCEPT ![m] = FailsTo(m, "incomplete")]
    BY <1>3 DEF ResolveFromDisk
  <2> QED
    BY <1>1, <2>1, FailKeeps
<1> QED
  BY <1>2, <1>3

LEMMA VerifyCleanupKeeps == ASSUME MigrationIInv, NEW m \in Migrator, VerifyCleanup(m) PROVE MigrationIInv'
<1>1. /\ migrator[m].at = "verify cleanup" /\ FilesSound /\ LockStays /\ MigrationTyped /\ migrator \in [Migrator -> MigratorRecord]
      /\ migrator[m] \in MigratorRecord /\ {"verify cleanup", "check cleanup"} \subseteq AtWork
      /\ {"release", "check cleanup"} \subseteq Place /\ "complete" \in Outcomes /\ migrator[m].verified
  BY FilesStaySound DEF VerifyCleanup, MigratorAt, MigrationIInv, MigrationTyped, Place, Unfinished, AtWork, Outcomes, Phases
<1>2. CASE file[Here(m)] # Cleanup(Here(m), migrator[m].saw[Here(m)])
  <2>1. migrator' = [migrator EXCEPT ![m] = FailsTo(m, "incomplete")]
    BY <1>2 DEF VerifyCleanup
  <2> QED
    BY <1>1, <2>1, FailKeeps
<1>3. CASE file[Here(m)] = Cleanup(Here(m), migrator[m].saw[Here(m)]) /\ IsLast(m)
  <2> DEFINE r == [migrator[m] EXCEPT !.at = "release", !.says = "complete", !.backup = FALSE]
  <2>1. migrator' = [migrator EXCEPT ![m] = r]
    BY <1>1, <1>3 DEF VerifyCleanup
  <2>2. r \in MigratorRecord /\ r.at = "release" /\ r.saw = migrator[m].saw /\ r.verified = migrator[m].verified
    BY <1>1 DEF MigratorRecord
  <2> HIDE DEF r
  <2> QED
    BY <1>1, <2>1, <2>2, WorkKeeps
<1>4. CASE file[Here(m)] = Cleanup(Here(m), migrator[m].saw[Here(m)]) /\ ~IsLast(m)
  <2> DEFINE r == NextTarget(m, "check cleanup", "release")
  <2>1. migrator' = [migrator EXCEPT ![m] = r]
    BY <1>4 DEF VerifyCleanup
  <2>2. r \in MigratorRecord /\ r.at \in {"check cleanup", "release"} /\ r.saw = migrator[m].saw /\ r.verified = migrator[m].verified
    BY <1>1, NextRow
  <2> HIDE DEF r
  <2> QED
    BY <1>1, <2>1, <2>2, WorkKeeps
<1> QED
  BY <1>2, <1>3, <1>4

-----------------------------------------------------------------------------
(* Writing and restoring the files                                         *)

LEMMA WorkRead ==
  ASSUME MigrationIInv, NEW m \in Migrator, migrator[m].at \in Unfinished, NEW t \in Target
  PROVE  migrator[m].saw[t] \in TextsOf(t) /\ ~Blocked(t, migrator[m].saw[t])
BY DEF MigrationIInv, HasRead

\* A rename that finds what it compared with puts what says the same; any
\* other is one that overtook a save.
LEMMA PutSound ==
  ASSUME MigrationIInv, NEW m \in Migrator, NEW x \in TextsOf(Here(m)), ~Blocked(Here(m), x),
         Told(x) = Told(Expected(m)), Put(m, x), UNCHANGED <<edits, deaths, meant, undone>>
  PROVE  FilesSound
<1>1. Here(m) \in Target /\ DOMAIN file = Target /\ DOMAIN meant = Target
  BY RowTyped DEF MigrationIInv, MigrationTyped
<1>2. file' = [file EXCEPT ![Here(m)] = x] /\ DOMAIN file' = Target /\ file'[Here(m)] = x
      /\ \A t \in Target \ {Here(m)} : file'[t] = file[t]
  BY <1>1 DEF Put
<1>3. SettingsSurvive'
  <2> SUFFICES ASSUME NEW t \in Target, t \notin overtaken', t \notin undone PROVE Told(file'[t]) = meant[t]
    BY DEF SettingsSurvive
  <2>1. t \notin overtaken
    BY DEF Put
  <2>2. Told(file[t]) = meant[t]
    BY <2>1 DEF MigrationIInv, SettingsSurvive
  <2>3. CASE t = Here(m)
    <3>1. file[t] = Expected(m)
      BY <2>3 DEF Put
    <3> QED
      BY <1>2, <2>2, <2>3, <3>1
  <2>4. CASE t # Here(m)
    BY <1>2, <2>2, <2>4
  <2> QED
    BY <2>3, <2>4
<1> QED
  BY <1>1, <1>2, <1>3 DEF FilesSound

LEMMA ReplaceCanonicalKeeps == ASSUME MigrationIInv, NEW m \in Migrator, ReplaceCanonical(m) PROVE MigrationIInv'
<1> DEFINE t == Here(m)
           x == migrator[m].saw[t]
<1>1. /\ migrator[m].at = "replace" /\ LockStays /\ Phases(m) /\ MigrationTyped /\ t \in Target
      /\ migrator \in [Migrator -> MigratorRecord] /\ UNCHANGED <<edits, deaths, meant, undone>>
      /\ "replace" \in AtWork \cap Unfinished /\ {"check", "verify"} \subseteq Place \cap AtWork
  BY RowTyped DEF ReplaceCanonical, MigratorAt, MigrationIInv, MigrationTyped, Place, Unfinished, AtWork
<1>2. x \in TextsOf(t) /\ ~Blocked(t, x) /\ Expected(m) = x
  BY <1>1, WorkRead DEF Expected, MigratorAt
<1>3. CASE Put(m, Canonical(t, x)) /\ migrator' = [migrator EXCEPT ![m] = [NextTarget(m, "check", "verify")
                                                                    EXCEPT !.wrote = @ \cup {Here(m)}]]
  <2>1. FilesSound
    <3>1. Canonical(t, x) \in TextsOf(t) /\ ~Blocked(t, Canonical(t, x)) /\ Told(Canonical(t, x)) = Told(x)
      BY <1>1, <1>2, Planned
    <3> QED
      BY <1>1, <1>2, <1>3, <3>1, PutSound
  <2> DEFINE q == NextTarget(m, "check", "verify")
             r == [q EXCEPT !.wrote = q.wrote \cup {t}]
  <2>2. migrator' = [migrator EXCEPT ![m] = r]
    BY <1>3
  <2>3. /\ q \in MigratorRecord /\ q.at \in {"check", "verify"} /\ q.saw = migrator[m].saw
        /\ q.backup = migrator[m].backup /\ q.verified = migrator[m].verified /\ q.wrote \subseteq Target
    BY <1>1, NextRow, RowTyped
  <2> HIDE DEF q, t
  <2>4. r \in MigratorRecord /\ r.at = q.at /\ r.saw = q.saw /\ r.backup = q.backup /\ r.verified = q.verified
    BY <1>1, <2>3 DEF MigratorRecord
  <2> HIDE DEF r
  <2>5. r.backup /\ ~r.verified
    BY <1>1, <2>3, <2>4 DEF Phases
  <2> QED
    BY <1>1, <2>1, <2>2, <2>3, <2>4, <2>5, WorkKeeps
<1>4. CASE migrator' = [migrator EXCEPT ![m] = FailsTo(m, "incomplete")] /\ UNCHANGED <<file, overtaken>>
  <2>1. FilesSound
    BY <1>1, <1>4, FilesStaySound DEF FilesStay
  <2> QED
    BY <1>1, <1>4, <2>1, FailKeeps DEF AtWork
<1> QED
  BY <1>3, <1>4 DEF ReplaceCanonical

LEMMA ReplaceCleanupKeeps == ASSUME MigrationIInv, NEW m \in Migrator, ReplaceCleanup(m) PROVE MigrationIInv'
<1> DEFINE t == Here(m)
           x == migrator[m].saw[t]
<1>1. /\ migrator[m].at = "replace cleanup" /\ LockStays /\ Phases(m) /\ MigrationTyped /\ t \in Target
      /\ migrator \in [Migrator -> MigratorRecord] /\ UNCHANGED <<edits, deaths, meant, undone>>
      /\ "replace cleanup" \in AtWork \cap Unfinished /\ "verify cleanup" \in Place \cap AtWork
      /\ migrator[m] \in MigratorRecord
  BY RowTyped DEF ReplaceCleanup, MigratorAt, MigrationIInv, MigrationTyped, Place, Unfinished, AtWork
<1>2. x \in TextsOf(t) /\ ~Blocked(t, x) /\ Expected(m) = Canonical(t, x)
  BY <1>1, WorkRead DEF Expected, MigratorAt
<1>3. CASE Put(m, Cleanup(t, x)) /\ migrator' = [migrator EXCEPT ![m].at = "verify cleanup"]
  <2>1. FilesSound
    <3>1. /\ Cleanup(t, x) \in TextsOf(t) /\ ~Blocked(t, Cleanup(t, x))
          /\ Told(Cleanup(t, x)) = Told(x) /\ Told(Canonical(t, x)) = Told(x)
      BY <1>1, <1>2, Planned
    <3> QED
      BY <1>1, <1>2, <1>3, <3>1, PutSound
  <2> DEFINE r == [migrator[m] EXCEPT !.at = "verify cleanup"]
  <2>2. migrator' = [migrator EXCEPT ![m] = r]
    BY <1>1, <1>3
  <2>3. r \in MigratorRecord /\ r.at = "verify cleanup" /\ r.saw = migrator[m].saw /\ r.verified = migrator[m].verified
    BY <1>1 DEF MigratorRecord
  <2> HIDE DEF r
  <2>4. r.verified
    BY <1>1, <2>3 DEF Phases
  <2> QED
    BY <1>1, <2>1, <2>2, <2>3, <2>4, WorkKeeps
<1>4. CASE migrator' = [migrator EXCEPT ![m] = FailsTo(m, "incomplete")] /\ UNCHANGED <<file, overtaken>>
  <2>1. FilesSound
    BY <1>1, <1>4, FilesStaySound DEF FilesStay
  <2> QED
    BY <1>1, <1>4, <2>1, FailKeeps DEF AtWork
<1> QED
  BY <1>3, <1>4 DEF ReplaceCleanup

LEMMA ReadBackKeeps == ASSUME MigrationIInv, NEW m \in Migrator, ReadBack(m) PROVE MigrationIInv'
<1>1. /\ migrator[m].at = "read back" /\ FilesSound /\ LockStays /\ Phases(m) /\ migrator[m] \in MigratorRecord
      /\ migrator \in [Migrator -> MigratorRecord] /\ "read back" \in AtWork /\ Here(m) \in Target
      /\ "check back" \in Place \cap AtWork /\ "release" \in Place /\ "rollback failed" \in Outcomes
  BY RowTyped, FilesStaySound DEF ReadBack, MigratorAt, MigrationIInv, MigrationTyped, Place, Unfinished, AtWork, Outcomes
<1>2. CASE file[Here(m)] = Gone
  <2> DEFINE r == [migrator[m] EXCEPT !.at = "release", !.says = "rollback failed"]
  <2>1. migrator' = [migrator EXCEPT ![m] = r]
    BY <1>1, <1>2 DEF ReadBack
  <2>2. r \in MigratorRecord /\ r.at = "release" /\ r.saw = migrator[m].saw /\ r.backup = migrator[m].backup
    BY <1>1 DEF MigratorRecord
  <2> HIDE DEF r
  <2> QED
    BY <1>1, <2>1, <2>2, WorkKeeps DEF Phases
<1>3. CASE file[Here(m)] # Gone
  <2> DEFINE r == [migrator[m] EXCEPT !.at = "check back", !.now = file[Here(m)]]
  <2>1. migrator' = [migrator EXCEPT ![m] = r]
    BY <1>1, <1>3 DEF ReadBack
  <2>2. file[Here(m)] \in Text \cup {Gone, Garbled}
    BY <1>1 DEF MigrationIInv, MigrationTyped, TextsOf
  <2>3. /\ r \in MigratorRecord /\ r.at = "check back" /\ r.saw = migrator[m].saw /\ r.backup = migrator[m].backup
        /\ r.verified = migrator[m].verified /\ r.wrote = migrator[m].wrote /\ r.n = migrator[m].n
    <3> DEFINE now == file[Here(m)]
    <3> HIDE DEF now
    <3>1. now \in Text \cup {Gone, Garbled}
      BY <2>2 DEF now
    <3>2. [migrator[m] EXCEPT !.at = "check back", !.now = now] = r
      BY DEF now
    <3> HIDE DEF r
    <3> QED
      BY <1>1, <3>1, <3>2 DEF MigratorRecord
  <2> HIDE DEF r
  <2>4. r.backup /\ ~r.verified /\ \A i \in Index : i < r.n => Targets[i] \notin r.wrote
    BY <1>1, <2>3 DEF Phases
  <2> QED
    BY <1>1, <2>1, <2>3, <2>4, WorkKeeps
<1> QED
  BY <1>2, <1>3

LEMMA CheckBackKeeps == ASSUME MigrationIInv, NEW m \in Migrator, CheckBack(m) PROVE MigrationIInv'
<1>1. /\ migrator[m].at = "check back" /\ FilesSound /\ LockStays /\ Phases(m) /\ migrator[m] \in MigratorRecord
      /\ migrator \in [Migrator -> MigratorRecord] /\ "check back" \in AtWork
      /\ "restore" \in Place \cap AtWork /\ "release" \in Place /\ "rollback failed" \in Outcomes
  BY RowTyped, FilesStaySound DEF CheckBack, MigratorAt, MigrationIInv, MigrationTyped, Place, Unfinished, AtWork, Outcomes
<1>2. CASE file[Here(m)] = migrator[m].now
  <2> DEFINE r == [[migrator[m] EXCEPT !.at = "restore"] EXCEPT !.now = Gone]
  <2>1. migrator' = [migrator EXCEPT ![m] = r]
    BY <1>1, <1>2 DEF CheckBack
  <2>2. /\ r \in MigratorRecord /\ r.at = "restore" /\ r.saw = migrator[m].saw /\ r.backup = migrator[m].backup
        /\ r.verified = migrator[m].verified /\ r.wrote = migrator[m].wrote /\ r.n = migrator[m].n
    BY <1>1 DEF MigratorRecord
  <2> HIDE DEF r
  <2>3. r.backup /\ ~r.verified /\ \A i \in Index : i < r.n => Targets[i] \notin r.wrote
    BY <1>1, <2>2 DEF Phases
  <2> QED
    BY <1>1, <2>1, <2>2, <2>3, WorkKeeps
<1>3. CASE file[Here(m)] # migrator[m].now
  <2> DEFINE r == [[migrator[m] EXCEPT !.at = "release", !.says = "rollback failed"] EXCEPT !.now = Gone]
  <2>1. migrator' = [migrator EXCEPT ![m] = r]
    BY <1>1, <1>3 DEF CheckBack
  <2>2. r \in MigratorRecord /\ r.at = "release" /\ r.saw = migrator[m].saw /\ r.backup = migrator[m].backup
    BY <1>1 DEF MigratorRecord
  <2> HIDE DEF r
  <2> QED
    BY <1>1, <2>1, <2>2, WorkKeeps DEF Phases
<1> QED
  BY <1>2, <1>3

LEMMA RestoreKeeps == ASSUME MigrationIInv, NEW m \in Migrator, Restore(m) PROVE MigrationIInv'
<1> DEFINE t == Here(m)
           x == migrator[m].saw[t]
           q == NextTarget(m, "read back", "release")
           says == IF IsLast(m) THEN "failed" ELSE q.says
           r == [q EXCEPT !.backup = ~IsLast(m), !.wrote = q.wrote \ {t}, !.says = says]
<1>1. /\ migrator[m].at = "restore" /\ LockStays /\ Phases(m) /\ MigrationTyped /\ t \in Target
      /\ migrator[m].n \in Index /\ migrator[m].wrote \subseteq Target
      /\ UNCHANGED <<edits, deaths, meant, overtaken>> /\ file' = [file EXCEPT ![t] = x]
      /\ undone' = (IF Told(file[t]) = Told(file'[t]) THEN undone ELSE undone \cup {t})
      /\ "restore" \in AtWork \cap Unfinished /\ "read back" \in Place \cap AtWork /\ "release" \in Place
  BY RowTyped DEF Restore, MigratorAt, MigrationIInv, MigrationTyped, Place, Unfinished, AtWork
<1>2. x \in TextsOf(t) /\ ~Blocked(t, x)
  BY <1>1, WorkRead
<1>3. FilesSound
  <2>1. DOMAIN file = Target /\ DOMAIN file' = Target /\ file'[t] = x /\ \A u \in Target \ {t} : file'[u] = file[u]
    BY <1>1 DEF MigrationTyped
  <2>2. SettingsSurvive'
    <3> SUFFICES ASSUME NEW u \in Target, u \notin overtaken, u \notin undone' PROVE Told(file'[u]) = meant[u]
      BY <1>1 DEF SettingsSurvive
    <3>1. u \notin undone
      BY <1>1
    <3>2. Told(file[u]) = meant[u]
      BY <3>1 DEF MigrationIInv, SettingsSurvive
    <3> HIDE DEF t
    <3> QED
      BY <1>1, <2>1, <3>2
  <2> QED
    BY <1>1, <1>2, <2>1, <2>2 DEF FilesSound, MigrationTyped
<1>4. migrator' = [migrator EXCEPT ![m] = r]
  BY DEF Restore
<1>5. /\ q \in MigratorRecord /\ q.at = (IF IsLast(m) THEN "release" ELSE "read back") /\ q.saw = migrator[m].saw
      /\ q.n = (IF IsLast(m) THEN 1 ELSE migrator[m].n + 1)
      /\ q.verified = migrator[m].verified /\ q.wrote = migrator[m].wrote
  <2>1. "read back" \in Place /\ "release" \in Place /\ MigrationTyped
    BY <1>1
  <2> HIDE DEF r, t, x, says, q
  <2>2. q = NextTarget(m, "read back", "release")
    BY DEF q
  <2>3. /\ NextTarget(m, "read back", "release") \in MigratorRecord
        /\ NextTarget(m, "read back", "release").saw = migrator[m].saw
        /\ NextTarget(m, "read back", "release").verified = migrator[m].verified
        /\ NextTarget(m, "read back", "release").wrote = migrator[m].wrote
    BY <2>1, NextRow
  <2>4. IsLast(m) => /\ NextTarget(m, "read back", "release").at = "release"
                     /\ NextTarget(m, "read back", "release").n = 1
    BY <2>1, NextRow
  <2>5. ~IsLast(m) => /\ NextTarget(m, "read back", "release").at = "read back"
                      /\ NextTarget(m, "read back", "release").n = migrator[m].n + 1
    BY <2>1, NextRow
  <2> QED
    BY <2>2, <2>3, <2>4, <2>5
<1>6. says \in Outcomes
  BY <1>5 DEF MigratorRecord, Outcomes
<1> HIDE DEF q, says
<1>7. /\ r \in MigratorRecord /\ r.at = q.at /\ r.saw = q.saw /\ r.backup = ~IsLast(m) /\ r.wrote = q.wrote \ {t}
      /\ r.verified = q.verified /\ r.n = q.n
  <2> DEFINE w == q.wrote \ {t}
             b == ~IsLast(m)
  <2>1. w \in SUBSET Target /\ b \in BOOLEAN /\ r = [q EXCEPT !.backup = b, !.wrote = w, !.says = says]
    BY <1>1, <1>5
  <2> HIDE DEF w, b, r, t
  <2>2. /\ r \in MigratorRecord /\ r.at = q.at /\ r.saw = q.saw /\ r.backup = b /\ r.wrote = w
        /\ r.verified = q.verified /\ r.n = q.n
    BY <1>5, <1>6, <2>1 DEF MigratorRecord
  <2> QED
    BY <2>2 DEF w, b
<1> HIDE DEF r
<1>11. migrator[m].n \in Nat /\ \A i \in Index : i \in Nat
  <2>1. migrator[m].n \in Index
    BY <1>1
  <2> QED
    BY <2>1, Indexed DEF Index
<1>8. ASSUME NEW i \in Index, i <= migrator[m].n PROVE Targets[i] \notin r.wrote
  <2>1. CASE i = migrator[m].n
    BY <1>7, <2>1 DEF Here
  <2>2. CASE i # migrator[m].n
    <3>1. i < migrator[m].n
      BY <1>8, <1>11, <2>2
    <3> QED
      BY <1>1, <1>5, <1>7, <3>1 DEF Phases
  <2> QED
    BY <2>1, <2>2
<1>9. CASE IsLast(m)
  <2>1. \A i \in Index : i <= migrator[m].n
    BY <1>9, Indexed DEF IsLast, Index
  <2>2. r.wrote = {}
    <3>1. r.wrote \subseteq Target
      BY <1>1, <1>5, <1>7
    <3> QED
      BY <1>8, <2>1, <3>1, Indexed
  <2> QED
    BY <1>1, <1>3, <1>4, <1>5, <1>7, <1>9, <2>2, WorkKeeps
<1>10. CASE ~IsLast(m)
  <2>1. r.at = "read back" /\ r.backup /\ ~r.verified /\ r.n = migrator[m].n + 1
    BY <1>1, <1>5, <1>7, <1>10 DEF Phases
  <2>2. \A i \in Index : i < r.n => Targets[i] \notin r.wrote
    <3> DEFINE n == migrator[m].n
               k == r.n
    <3>2. n \in Nat /\ k = n + 1 /\ \A i \in Index : i \in Nat
      BY <1>11, <2>1
    <3> HIDE DEF n, k
    <3>3. \A i \in Nat : i < k => i <= n
      BY <3>2
    <3>1. \A i \in Index : i < r.n => i <= migrator[m].n
      BY <3>2, <3>3 DEF n, k
    <3> QED
      BY <1>8, <3>1
  <2> QED
    BY <1>1, <1>3, <1>4, <1>5, <1>7, <2>1, <2>2, WorkKeeps
<1> QED
  BY <1>9, <1>10

-----------------------------------------------------------------------------
(* Releases, deaths and edits                                              *)

LEMMA ReleaseKeeps == ASSUME MigrationIInv, NEW m \in Migrator, Release(m) PROVE MigrationIInv'
<1> DEFINE r == [migrator[m] EXCEPT !.at = "done"]
<1>1. /\ migrator[m].at = "release" /\ FilesSound /\ migrator[m] \in MigratorRecord /\ lockHeld' = NoLock
      /\ raced' = (raced \/ (lockHeld # NoLock /\ lockHeld.by # m /\ ~Dead(lockHeld.by)))
      /\ migrator' = [migrator EXCEPT ![m] = r] /\ "done" \in Place
  BY RowTyped, FilesStaySound DEF Release, MigratorAt, MigrationIInv, MigrationTyped, Place
<1>2. raced' \in BOOLEAN /\ (raced => raced')
  BY <1>1 DEF MigrationIInv, MigrationTyped
<1>3. ~raced' => \A d \in Migrator \ {m} : migrator[d].at \notin AtWork \cup {"lock", "release"}
  BY <1>1, <1>2, LockRemoved
<1>4. /\ r \in MigratorRecord /\ r.at = "done" /\ r.saw = migrator[m].saw /\ r.wrote = migrator[m].wrote
      /\ r.verified = migrator[m].verified /\ r.backup = migrator[m].backup
  BY <1>1 DEF MigratorRecord
<1> HIDE DEF r
<1>5. migrator'[m] = r /\ \A d \in Migrator \ {m} : migrator'[d] = migrator[d]
  BY <1>1 DEF MigrationIInv, MigrationTyped
<1>6. HasRead(m)' /\ Phases(m)'
  BY <1>4, <1>5 DEF MigrationIInv, HasRead, Read, Phases, Unfinished
<1>7. LockedWork'
  BY <1>3, <1>4, <1>5 DEF LockedWork, AtWork
<1>8. \A t \in Target : r.saw[t] # Gone => Read(m, t)
  BY <1>4 DEF Read
<1> QED
  BY <1>1, <1>2, <1>4, <1>6, <1>7, <1>8, StepKeeps

LEMMA DiesKeeps == ASSUME MigrationIInv, NEW m \in Migrator, MigratorDies(m) PROVE MigrationIInv'
<1> DEFINE r == [migrator[m] EXCEPT !.at = "died"]
<1>1. /\ migrator[m].at \in Unfinished /\ UNCHANGED <<file, edits, meant, overtaken, undone>> /\ LockStays
      /\ migrator[m] \in MigratorRecord /\ migrator' = [migrator EXCEPT ![m] = r] /\ "died" \in Place
  BY RowTyped DEF MigratorDies, MigrationIInv, MigrationTyped, Place
<1>2. FilesSound
  BY <1>1 DEF FilesSound, MigrationIInv, MigrationTyped, SettingsSurvive
<1>3. /\ r \in MigratorRecord /\ r.at = "died" /\ r.saw = migrator[m].saw /\ r.wrote = migrator[m].wrote
      /\ r.verified = migrator[m].verified /\ r.backup = migrator[m].backup
  BY <1>1 DEF MigratorRecord
<1> HIDE DEF r
<1>4. migrator'[m] = r
  BY <1>1 DEF MigrationIInv, MigrationTyped
<1>5. Phases(m)'
  BY <1>3, <1>4 DEF MigrationIInv, Phases
<1>6. "died" \notin AtWork \cup {"lock", "release"}
  BY DEF AtWork
<1> QED
  BY <1>1, <1>2, <1>3, <1>5, <1>6, QuietKeeps

LEMMA UserEditsKeeps == ASSUME MigrationIInv, NEW t \in Target, UserEdits(t) PROVE MigrationIInv'
<1>1. PICK x \in TextsOf(t) \cup {Gone} : file' = [file EXCEPT ![t] = x] /\ meant' = [meant EXCEPT ![t] = Told(x)]
  BY DEF UserEdits
<1>2. /\ overtaken' = overtaken \ {t} /\ undone' = undone \ {t} /\ UNCHANGED <<migrator, lockHeld, raced>> /\ edits' = edits + 1
      /\ MigrationTyped
  BY DEF UserEdits, LockStays, MigrationIInv
<1>3. /\ DOMAIN file' = Target /\ DOMAIN meant' = Target /\ file'[t] = x /\ meant'[t] = Told(x)
      /\ \A u \in Target \ {t} : file'[u] = file[u] /\ meant'[u] = meant[u]
  BY <1>1, <1>2 DEF MigrationTyped
<1>4. MigrationTyped' /\ edits' # 0
  BY <1>2, <1>3 DEF MigrationTyped
<1>5. \A m \in Migrator : HasRead(m)' /\ Phases(m)'
  BY <1>2 DEF MigrationIInv, HasRead, Read, Phases
<1>6. SettingsSurvive'
  BY <1>2, <1>3 DEF MigrationIInv, SettingsSurvive
<1>7. LockedWork'
  BY <1>2 DEF MigrationIInv, LockedWork, Holds
<1> QED
  BY <1>4, <1>5, <1>6, <1>7 DEF MigrationIInv, StaysReadable

LEMMA MigrationIInvNext == MigrationIInv /\ [MigrationNext]_migrationVars => MigrationIInv'
<1> SUFFICES ASSUME MigrationIInv, [MigrationNext]_migrationVars PROVE MigrationIInv'
  OBVIOUS
<1>1. CASE UNCHANGED migrationVars
  BY <1>1 DEF migrationVars, MigrationIInv, MigrationTyped, HasRead, Read, Phases, SettingsSurvive, StaysReadable, LockedWork, Holds
<1>2. ASSUME NEW t \in Target, UserEdits(t) PROVE MigrationIInv'
  BY <1>2, UserEditsKeeps
<1>3. ASSUME NEW m \in Migrator, MigratorStep(m) PROVE MigrationIInv'
  <2>1. CASE ReadTarget(m) \/ Decide(m)
    BY <2>1, ReadTargetKeeps, DecideKeeps
  <2>2. CASE OpenLock(m) \/ AskOwner(m) \/ RemoveStale(m) \/ WriteLock(m)
    BY <2>2, OpenLockKeeps, AskOwnerKeeps, RemoveStaleKeeps, WriteLockKeeps
  <2>3. CASE BackUp(m) \/ CheckHash(m) \/ ReplaceCanonical(m) \/ VerifyHashes(m) \/ ResolveFromDisk(m)
    BY <2>3, BackUpKeeps, CheckHashKeeps, ReplaceCanonicalKeeps, VerifyHashesKeeps, ResolveKeeps
  <2>4. CASE ReplaceCleanup(m) \/ VerifyCleanup(m)
    BY <2>4, ReplaceCleanupKeeps, VerifyCleanupKeeps
  <2>5. CASE ReadBack(m) \/ CheckBack(m) \/ Restore(m)
    BY <2>5, ReadBackKeeps, CheckBackKeeps, RestoreKeeps
  <2>6. CASE Release(m) \/ MigratorDies(m)
    BY <2>6, ReleaseKeeps, DiesKeeps
  <2> QED
    BY <1>3, <2>1, <2>2, <2>3, <2>4, <2>5, <2>6 DEF MigratorStep
<1> QED
  BY <1>1, <1>2, <1>3 DEF MigrationNext

(* A migration that fails, dies or is edited at any point leaves every     *)
(* file saying what the user made it say, but for a save in the window of  *)
(* a rename or under a rollback; what it leaves half done can be resumed;  *)
(* what is not verified can be restored; and two work at a time only after *)
(* a live owner's lock was removed (runMigration, acquireMigrationLock).   *)
THEOREM MigrationsKeepSettings == MigrationSpec => []MigrationInv
<1>1. MigrationInit => MigrationIInv
  BY MigrationIInvInit
<1>2. MigrationIInv /\ [MigrationNext]_migrationVars => MigrationIInv'
  BY MigrationIInvNext
<1>3. MigrationIInv => MigrationInv
  BY MigrationIInvImplies
<1> QED
  BY <1>1, <1>2, <1>3, PTL DEF MigrationSpec

-----------------------------------------------------------------------------
(* Codex's configuration.  A recursion over the lines of a text is of a    *)
(* function that exists, and over the same lines the scanner opens and     *)
(* closes the same: the induction the rest about texts is made of.         *)

LEMMA SomeFirst ==
  ASSUME NEW S, S \subseteq Nat, S # {}
  PROVE  \E n \in S : \A k \in S : n <= k
<1> DEFINE R == OpToRel(<, Nat)
<1>1. PICK n \in S : \A k \in S : <<k, n>> \notin R
  <2>1. IsWellFoundedOn(R, Nat)
    BY NatLessThanWellFounded
  <2> HIDE DEF R
  <2> QED
    BY <2>1, WFMin
<1>2. ASSUME NEW k \in S  PROVE n <= k
  <2>1. ~(k < n)
    BY <1>1 DEF OpToRel
  <2>2. k \in Nat /\ n \in Nat
    OBVIOUS
  <2> QED
    BY <2>1, <2>2
<1> QED
  BY <1>2

LEMMA SomeLast ==
  ASSUME NEW m \in Nat, NEW S, S \subseteq 1..m, S # {}
  PROVE  \E n \in S : \A k \in S : k <= n
<1> DEFINE T == {j \in 0..m : m - j \in S}
<1>1. T \subseteq Nat
  OBVIOUS
<1>2. T # {}
  <2>1. PICK k \in S : TRUE
    OBVIOUS
  <2>2. k \in 1..m
    OBVIOUS
  <2>3. m - k \in 0..m /\ m - (m - k) = k
    BY <2>2
  <2> QED
    BY <2>1, <2>3
<1>3. PICK j \in T : \A k \in T : j <= k
  BY <1>1, <1>2, SomeFirst
<1>4. ASSUME NEW k \in S  PROVE k <= m - j
  <2>1. k \in 1..m
    OBVIOUS
  <2>2. m - k \in 0..m /\ m - (m - k) = k
    BY <2>1
  <2>3. j <= m - k
    BY <1>3, <2>2
  <2> QED
    BY <2>1, <2>3, <1>3
<1> QED
  BY <1>3, <1>4

LEMMA EveryPosition ==
  ASSUME NEW m \in Nat, NEW S, 0 \in S, \A n \in 1..m : n - 1 \in S => n \in S
  PROVE  \A n \in 0..m : n \in S
<1> DEFINE Bad == (0..m) \ S
<1>1. SUFFICES ASSUME Bad # {}  PROVE FALSE
  BY <1>1
<1>2. PICK n \in Bad : \A k \in Bad : n <= k
  <2>1. Bad \subseteq Nat
    OBVIOUS
  <2> HIDE DEF Bad
  <2> QED
    BY <1>1, <2>1, SomeFirst
<1>3. n \in 1..m /\ n - 1 \in 0..m /\ ~(n <= n - 1)
  BY <1>2
<1>4. n - 1 \notin Bad
  <2> HIDE DEF Bad
  <2> QED
    BY <1>2, <1>3
<1> QED
  BY <1>2, <1>3, <1>4

(* A recursion over positions, of a step that stays among some values, is  *)
(* of a function that exists.                                              *)
StaysIn(D, step, m) == \A a \in D, n \in 1..m : step[<<a, n>>] \in D
Steps(D, first, step, m, f) ==
  f \in [0..m -> D] /\ f[0] = first /\ \A n \in 1..m : f[n] = step[<<f[n - 1], n>>]

LEMMA SomeRun ==
  ASSUME NEW D, NEW first \in D, NEW m \in Nat, NEW step, StaysIn(D, step, m)
  PROVE  \E f : Steps(D, first, step, m, f)
<1>0. \A a \in D, n \in 1..m : step[<<a, n>>] \in D
  BY DEF StaysIn
<1> DEFINE Runs(f, k) == f \in [0..k -> D] /\ f[0] = first /\ \A n \in 1..k : f[n] = step[<<f[n - 1], n>>]
           S == {k \in 0..m : \E f : Runs(f, k)}
<1>1. 0 \in S
  <2> DEFINE f == [n \in 0..0 |-> first]
  <2>1. Runs(f, 0)
    OBVIOUS
  <2> HIDE DEF Runs
  <2> QED
    BY <2>1
<1>2. ASSUME NEW k \in 1..m, k - 1 \in S  PROVE k \in S
  <2>1. PICK g : Runs(g, k - 1)
    BY <1>2
  <2>2. k \in Nat /\ k - 1 \in 0..(k - 1) /\ k - 1 \in Nat
    OBVIOUS
  <2> DEFINE last == step[<<g[k - 1], k>>]
             f == [n \in 0..k |-> IF n = k THEN last ELSE g[n]]
  <2>3. last \in D
    <3>1. g[k - 1] \in D
      BY <2>1, <2>2
    <3> QED
      BY <1>0, <3>1
  <2>4. ASSUME NEW n \in 0..k  PROVE f[n] = (IF n = k THEN last ELSE g[n]) /\ f[n] \in D
    <3>1. CASE n = k
      BY <2>3, <3>1
    <3>2. CASE n # k
      <4>1. n \in 0..(k - 1)
        BY <2>2, <3>2
      <4>2. g[n] \in D
        BY <2>1, <4>1
      <4> QED
        BY <3>2, <4>2
    <3> QED
      BY <3>1, <3>2
  <2>5. f \in [0..k -> D]
    BY <2>4
  <2> HIDE DEF last, f
  <2>6. f[0] = first
    <3>1. 0 \in 0..k /\ 0 # k
      BY <2>2
    <3> QED
      BY <2>1, <2>4, <3>1
  <2>7. ASSUME NEW n \in 1..k  PROVE f[n] = step[<<f[n - 1], n>>]
    <3>1. n \in 0..k /\ n - 1 \in 0..k /\ n - 1 # k
      BY <2>2
    <3>2. f[n - 1] = g[n - 1]
      BY <2>4, <3>1
    <3>3. CASE n = k
      BY <2>4, <3>1, <3>2, <3>3 DEF last
    <3>4. CASE n # k
      <4>1. n \in 1..(k - 1)
        BY <2>2, <3>4
      <4>2. f[n] = g[n] /\ g[n] = step[<<g[n - 1], n>>]
        BY <2>1, <2>4, <3>1, <3>4, <4>1
      <4> QED
        BY <3>2, <4>2
    <3> QED
      BY <3>3, <3>4
  <2>8. Runs(f, k)
    BY <2>5, <2>6, <2>7
  <2> HIDE DEF Runs
  <2>9. k \in 0..m
    OBVIOUS
  <2> QED
    BY <2>8, <2>9
<1>3. m \in S
  <2>1. m \in 0..m
    OBVIOUS
  <2> HIDE DEF S
  <2>2. \A n \in 1..m : n - 1 \in S => n \in S
    BY <1>2
  <2> QED
    BY <1>1, <2>1, <2>2, EveryPosition
<1> QED
  BY <1>3 DEF Steps


\* Any text, the empty one too; and what a scanner has open.
Lines == Seq(Line)

LEMMA LineKinds ==
  /\ Header \subseteq Line /\ Root \subseteq Header /\ Section \subseteq Header /\ TimeoutKey \subseteq Line
  /\ "blank" \in Line /\ "quotes" \in Line /\ "[" \in Line /\ "broken" \in Line
  BY DEF Line, Header, Root, Section, TimeoutKey

LEMMA LinesAre ==
  ASSUME NEW s \in Lines
  PROVE  /\ Len(s) \in Nat /\ DOMAIN s = 1..Len(s) /\ Len(s) \in 0..Len(s) /\ 0 \in 0..Len(s)
         /\ \A k \in 1..Len(s) : s[k] \in Line
  BY DEF Lines

LEMMA LexedStays ==
  ASSUME NEW open \in Lines, NEW line \in Line
  PROVE  Lexed(open, line) \in Lines
<1>1. open # <<>> => Front(open) \in Lines
  BY DEF Front, Lines
<1>2. line \in {"quotes", "["} => Append(open, line) \in Lines
  BY DEF Lines
<1>3. <<"broken">> \in Lines
  BY LineKinds DEF Lines
<1> HIDE DEF Lines
<1> QED
  BY <1>1, <1>2, <1>3 DEF Lexed

\* OpenAfter is the function its recursion says.
OpensTo(s, f) == f = [k \in 0..Len(s) |-> IF k = 0 THEN <<>> ELSE Lexed(f[k - 1], s[k])]

LEMMA OpenIs ==
  ASSUME NEW s \in Lines
  PROVE  /\ OpenAfter(s)[0] = <<>>
         /\ \A k \in 1..Len(s) : OpenAfter(s)[k] = Lexed(OpenAfter(s)[k - 1], s[k])
         /\ \A k \in 0..Len(s) : OpenAfter(s)[k] \in Lines
<1> DEFINE m == Len(s)
           step == [p \in Lines \X (1..m) |-> Lexed(p[1], s[p[2]])]
<1>1. m \in Nat /\ (\A n \in 1..m : s[n] \in Line) /\ <<>> \in Lines
  BY LinesAre DEF Lines
<1>2. \A a \in Lines, n \in 1..m : step[<<a, n>>] = Lexed(a, s[n])
  OBVIOUS
<1>3. StaysIn(Lines, step, m)
  <2> SUFFICES ASSUME NEW a \in Lines, NEW n \in 1..m PROVE step[<<a, n>>] \in Lines
    BY DEF StaysIn
  <2>1. Lexed(a, s[n]) \in Lines
    <3>1. s[n] \in Line
      BY <1>1
    <3> QED
      BY <3>1, LexedStays
  <2> HIDE DEF step
  <2> QED
    BY <1>2, <2>1
<1> HIDE DEF m, step
<1>4. PICK f : Steps(Lines, <<>>, step, m, f)
  BY <1>1, <1>3, SomeRun
<1>5. ASSUME NEW n \in 0..m  PROVE f[n] = IF n = 0 THEN <<>> ELSE Lexed(f[n - 1], s[n])
  <2>1. CASE n = 0
    BY <1>4, <2>1 DEF Steps
  <2>2. CASE n # 0
    <3>1. n \in 1..m /\ n - 1 \in 0..m
      BY <1>1, <2>2
    <3>2. f[n - 1] \in Lines
      BY <1>4, <3>1 DEF Steps
    <3>3. f[n] = step[<<f[n - 1], n>>]
      BY <1>4, <3>1 DEF Steps
    <3> QED
      BY <1>2, <2>2, <3>1, <3>2, <3>3
  <2> QED
    BY <2>1, <2>2
<1>6. OpensTo(s, f)
  <2>1. f = [n \in 0..m |-> f[n]]
    BY <1>4 DEF Steps
  <2> QED
    BY <1>5, <2>1 DEF OpensTo, m
<1>7. OpensTo(s, OpenAfter(s))
  <2>1. OpenAfter(s) = CHOOSE g : OpensTo(s, g)
    BY DEF OpenAfter, OpensTo
  <2> QED
    BY <1>6, <2>1
<1> DEFINE g == OpenAfter(s)
           S == {n \in 0..m : g[n] \in Lines}
<1>8. \A n \in 0..m : g[n] = IF n = 0 THEN <<>> ELSE Lexed(g[n - 1], s[n])
  BY <1>7 DEF OpensTo, m
<1> HIDE DEF g
<1>9. g[0] = <<>> /\ \A n \in 1..m : g[n] = Lexed(g[n - 1], s[n])
  BY <1>1, <1>8
<1>10. 0 \in S
  BY <1>1, <1>9
<1>11. ASSUME NEW n \in 1..m, n - 1 \in S  PROVE n \in S
  <2>1. n \in 0..m
    BY <1>1
  <2>2. g[n] \in Lines
    BY <1>1, <1>9, <1>11, LexedStays
  <2> QED
    BY <2>1, <2>2
<1> HIDE DEF S
<1>12. \A n \in 0..m : n \in S
  BY <1>1, <1>10, <1>11, EveryPosition
<1> QED
  BY <1>9, <1>12 DEF S, g, m

\* Lines the scanner takes alike.
Alike(a, b) == a = b \/ (a \in TimeoutKey /\ b \in TimeoutKey)

LEMMA AlikeLexed ==
  ASSUME NEW a, NEW b, Alike(a, b)
  PROVE  \A open : Lexed(open, a) = Lexed(open, b)
  BY DEF Alike, Lexed, TimeoutKey

Alongside(s, i, t, j, m) ==
  i + m <= Len(s) /\ j + m <= Len(t) /\ \A k \in 1..m : Alike(s[i + k], t[j + k])
SameOpen(s, i, t, j, m) == \A k \in 0..m : OpenAfter(s)[i + k] = OpenAfter(t)[j + k]

(* Over the same lines, what is open stays the same: the one induction the *)
(* scanner needs.                                                          *)
LEMMA OpenWalk ==
  ASSUME NEW s \in Lines, NEW t \in Lines, NEW i \in Nat, NEW j \in Nat, NEW m \in Nat,
         Alongside(s, i, t, j, m), OpenAfter(s)[i] = OpenAfter(t)[j]
  PROVE  SameOpen(s, i, t, j, m)
<1> DEFINE f == OpenAfter(s)
           g == OpenAfter(t)
           S == {k \in 0..m : f[i + k] = g[j + k]}
<1>0. Len(s) \in Nat /\ Len(t) \in Nat /\ i + m <= Len(s) /\ j + m <= Len(t)
  BY LinesAre DEF Alongside
<1>1. \A k \in 1..Len(s) : f[k] = Lexed(f[k - 1], s[k])
  BY OpenIs
<1>2. \A k \in 1..Len(t) : g[k] = Lexed(g[k - 1], t[k])
  BY OpenIs
<1>3. f[i] = g[j]
  OBVIOUS
<1> HIDE DEF f, g
<1>4. 0 \in S
  BY <1>3
<1>5. ASSUME NEW k \in 1..m, k - 1 \in S  PROVE k \in S
  <2>1. i + k \in 1..Len(s) /\ j + k \in 1..Len(t) /\ (i + k) - 1 = i + (k - 1) /\ (j + k) - 1 = j + (k - 1)
    BY <1>0
  <2>2. f[i + k] = Lexed(f[i + (k - 1)], s[i + k])
    BY <1>1, <2>1
  <2>3. g[j + k] = Lexed(g[j + (k - 1)], t[j + k])
    BY <1>2, <2>1
  <2>4. f[i + (k - 1)] = g[j + (k - 1)]
    BY <1>5
  <2>5. Lexed(f[i + (k - 1)], s[i + k]) = Lexed(f[i + (k - 1)], t[j + k])
    BY AlikeLexed DEF Alongside
  <2>6. k \in 0..m
    OBVIOUS
  <2> QED
    BY <2>2, <2>3, <2>4, <2>5, <2>6
<1> HIDE DEF S
<1>6. \A k \in 0..m : k \in S
  BY <1>4, <1>5, EveryPosition
<1> QED
  BY <1>6 DEF S, f, g, SameOpen

-----------------------------------------------------------------------------
(* A text followed by another: what is open, its headers and the lines     *)
(* that are not of triss are those of the two.                             *)

LEMMA Joined ==
  ASSUME NEW s \in Lines, NEW t \in Lines
  PROVE  /\ s \o t \in Lines /\ Len(s \o t) = Len(s) + Len(t)
         /\ \A k \in 1..Len(s) : (s \o t)[k] = s[k]
         /\ \A k \in 1..Len(t) : (s \o t)[Len(s) + k] = t[k]
<1>1. /\ s \o t \in Lines /\ Len(s \o t) = Len(s) + Len(t) /\ Len(s) \in Nat /\ Len(t) \in Nat
      /\ \A i \in 1..Len(s) + Len(t) : (s \o t)[i] = IF i <= Len(s) THEN s[i] ELSE t[i - Len(s)]
  BY ConcatProperties, LinesAre DEF Lines
<1>2. ASSUME NEW k \in 1..Len(s)  PROVE (s \o t)[k] = s[k]
  BY <1>1
<1>3. ASSUME NEW k \in 1..Len(t)  PROVE (s \o t)[Len(s) + k] = t[k]
  <2>1. Len(s) + k \in 1..Len(s) + Len(t) /\ ~(Len(s) + k <= Len(s)) /\ (Len(s) + k) - Len(s) = k
    BY <1>1
  <2> QED
    BY <1>1, <2>1
<1> QED
  BY <1>1, <1>2, <1>3

LEMMA Sides ==
  ASSUME NEW m \in Nat, NEW n \in Nat, NEW k \in 1..(m + n)
  PROVE  k \in 1..m \/ (k - m \in 1..n /\ k = m + (k - m))
  OBVIOUS

LEMMA JoinOpens ==
  ASSUME NEW s \in Lines, NEW t \in Lines
  PROVE  /\ \A k \in 0..Len(s) : OpenAfter(s \o t)[k] = OpenAfter(s)[k]
         /\ ~Malformed(s) => \A k \in 0..Len(t) : OpenAfter(s \o t)[Len(s) + k] = OpenAfter(t)[k]
<1> DEFINE u == s \o t
<1>1. /\ u \in Lines /\ Len(u) = Len(s) + Len(t)
      /\ \A k \in 1..Len(s) : u[k] = s[k]
      /\ \A k \in 1..Len(t) : u[Len(s) + k] = t[k]
  BY Joined
<1>0. Len(s) \in Nat /\ Len(t) \in Nat
  BY LinesAre
<1> HIDE DEF u
<1>2. SameOpen(u, 0, s, 0, Len(s))
  <2>1. OpenAfter(u)[0] = OpenAfter(s)[0]
    BY <1>1, OpenIs
  <2>2. Alongside(u, 0, s, 0, Len(s))
    BY <1>0, <1>1 DEF Alongside, Alike
  <2> QED
    BY <1>0, <1>1, <2>1, <2>2, OpenWalk
<1>3. \A k \in 0..Len(s) : OpenAfter(u)[k] = OpenAfter(s)[k]
  BY <1>0, <1>2 DEF SameOpen
<1>4. ASSUME ~Malformed(s)  PROVE SameOpen(u, Len(s), t, 0, Len(t))
  <2>1. OpenAfter(u)[Len(s)] = OpenAfter(t)[0]
    <3>1. Len(s) \in 0..Len(s)
      BY <1>0
    <3> QED
      BY <1>3, <1>4, <3>1, OpenIs DEF Malformed
  <2>2. Alongside(u, Len(s), t, 0, Len(t))
    BY <1>0, <1>1 DEF Alongside, Alike
  <2> QED
    BY <1>0, <1>1, <2>1, <2>2, OpenWalk
<1>5. ~Malformed(s) => \A k \in 0..Len(t) : OpenAfter(u)[Len(s) + k] = OpenAfter(t)[k]
  BY <1>0, <1>4 DEF SameOpen
<1> QED
  BY <1>3, <1>5 DEF u

LEMMA HeaderAt ==
  ASSUME NEW s \in Lines, NEW K
  PROVE  \A k : k \in HeadersIn(s, K) <=> k \in 1..Len(s) /\ s[k] \in K /\ OpenAfter(s)[k - 1] = <<>>
<1>1. DOMAIN s = 1..Len(s)
  BY LinesAre
<1> QED
  BY <1>1 DEF HeadersIn, IsStatement

LEMMA JoinHeaders ==
  ASSUME NEW s \in Lines, NEW t \in Lines, ~Malformed(s), NEW K
  PROVE  /\ \A k \in 1..Len(s) : k \in HeadersIn(s \o t, K) <=> k \in HeadersIn(s, K)
         /\ \A k \in 1..Len(t) : Len(s) + k \in HeadersIn(s \o t, K) <=> k \in HeadersIn(t, K)
<1> DEFINE u == s \o t
<1>1. /\ u \in Lines /\ Len(u) = Len(s) + Len(t)
      /\ \A k \in 1..Len(s) : u[k] = s[k]
      /\ \A k \in 1..Len(t) : u[Len(s) + k] = t[k]
  BY Joined
<1>0. Len(s) \in Nat /\ Len(t) \in Nat
  BY LinesAre
<1>2. /\ \A k \in 0..Len(s) : OpenAfter(u)[k] = OpenAfter(s)[k]
      /\ \A k \in 0..Len(t) : OpenAfter(u)[Len(s) + k] = OpenAfter(t)[k]
  BY JoinOpens
<1> HIDE DEF u
<1>3. ASSUME NEW k \in 1..Len(s)  PROVE k \in HeadersIn(u, K) <=> k \in HeadersIn(s, K)
  <2>1. k \in 1..Len(u) /\ k - 1 \in 0..Len(s)
    BY <1>0, <1>1
  <2> QED
    BY <1>1, <1>2, <2>1, HeaderAt
<1>4. ASSUME NEW k \in 1..Len(t)  PROVE Len(s) + k \in HeadersIn(u, K) <=> k \in HeadersIn(t, K)
  <2>1. Len(s) + k \in 1..Len(u) /\ k - 1 \in 0..Len(t) /\ (Len(s) + k) - 1 = Len(s) + (k - 1)
    BY <1>0, <1>1
  <2>2. OpenAfter(u)[(Len(s) + k) - 1] = OpenAfter(t)[k - 1]
    BY <1>2, <2>1
  <2> QED
    BY <1>1, <2>1, <2>2, HeaderAt
<1> QED
  BY <1>3, <1>4 DEF u

\* Every line of it that is not blank comes after a header of its own.
Settled(t) == \A k \in 1..Len(t) : t[k] = "blank" \/ \E h \in Tables(t) : h <= k
OwnTables(t) == HeadersIn(t, Root \cup Section)

LEMMA ForeignAt ==
  ASSUME NEW s \in Lines, NEW k
  PROVE  IsForeign(s, k) <=> s[k] # "blank" /\ ~\E h \in OwnTables(s) : h <= k /\ \A j \in Tables(s) : j <= k => j <= h
  BY DEF IsForeign, OwnTables

LEMMA TablesAre ==
  ASSUME NEW s \in Lines
  PROVE  OwnTables(s) \subseteq Tables(s) /\ Tables(s) \subseteq 1..Len(s) /\ Tables(s) \subseteq Nat
<1>1. Tables(s) \subseteq 1..Len(s)
  BY HeaderAt DEF Tables
<1>2. OwnTables(s) \subseteq Tables(s)
  BY HeaderAt DEF Tables, OwnTables, Header
<1> QED
  BY <1>1, <1>2

LEMMA JoinForeignFirst ==
  ASSUME NEW s \in Lines, NEW t \in Lines, ~Malformed(s), NEW k \in 1..Len(s)
  PROVE  IsForeign(s \o t, k) <=> IsForeign(s, k)
<1> DEFINE u == s \o t
<1>1. /\ u \in Lines /\ Len(u) = Len(s) + Len(t) /\ u[k] = s[k]
  BY Joined
<1>0. Len(s) \in Nat /\ Len(t) \in Nat
  BY LinesAre
<1>2. \A j \in 1..Len(s) : (j \in Tables(u) <=> j \in Tables(s)) /\ (j \in OwnTables(u) <=> j \in OwnTables(s))
  BY JoinHeaders DEF Tables, OwnTables
<1> HIDE DEF u
<1>3. \A j \in Tables(u) : j <= k => j \in 1..Len(s)
  BY <1>0, <1>1, TablesAre
<1>4. \A h : h \in OwnTables(u) /\ h <= k <=> h \in OwnTables(s) /\ h <= k
  <2>1. OwnTables(u) \subseteq Tables(u) /\ OwnTables(s) \subseteq 1..Len(s)
    BY <1>1, TablesAre
  <2> QED
    BY <1>2, <1>3, <2>1
<1>5. \A h : (\A j \in Tables(u) : j <= k => j <= h) <=> (\A j \in Tables(s) : j <= k => j <= h)
  <2>1. \A j : j \in Tables(u) /\ j <= k <=> j \in Tables(s) /\ j <= k
    <3>1. Tables(s) \subseteq 1..Len(s)
      BY TablesAre
    <3> QED
      BY <1>2, <1>3, <3>1
  <2> QED
    BY <2>1
<1>6. IsForeign(u, k) <=> u[k] # "blank" /\ ~\E h \in OwnTables(u) : h <= k /\ \A j \in Tables(u) : j <= k => j <= h
  BY <1>1, ForeignAt
<1>7. IsForeign(s, k) <=> s[k] # "blank" /\ ~\E h \in OwnTables(s) : h <= k /\ \A j \in Tables(s) : j <= k => j <= h
  BY ForeignAt
<1> QED
  BY <1>1, <1>4, <1>5, <1>6, <1>7 DEF u

LEMMA JoinForeignSecond ==
  ASSUME NEW s \in Lines, NEW t \in Lines, ~Malformed(s), Settled(t), NEW k \in 1..Len(t)
  PROVE  IsForeign(s \o t, Len(s) + k) <=> IsForeign(t, k)
<1> DEFINE u == s \o t
           m == Len(s)
<1>1. /\ u \in Lines /\ Len(u) = m + Len(t) /\ u[m + k] = t[k]
  BY Joined
<1>0. m \in Nat /\ Len(t) \in Nat
  BY LinesAre
<1>2. \A j \in 1..Len(t) : (m + j \in Tables(u) <=> j \in Tables(t)) /\ (m + j \in OwnTables(u) <=> j \in OwnTables(t))
  BY JoinHeaders DEF Tables, OwnTables
<1>6. IsForeign(u, m + k) <=> u[m + k] # "blank" /\ ~\E h \in OwnTables(u) : h <= m + k /\ \A j \in Tables(u) : j <= m + k => j <= h
  <2> HIDE DEF u, m
  <2> QED
    BY <1>1, ForeignAt
<1>7. IsForeign(t, k) <=> t[k] # "blank" /\ ~\E h \in OwnTables(t) : h <= k /\ \A j \in Tables(t) : j <= k => j <= h
  BY ForeignAt
<1> SUFFICES IsForeign(u, m + k) <=> IsForeign(t, k)
  OBVIOUS
<1> HIDE DEF u, m
<1>3. CASE t[k] = "blank"
  BY <1>1, <1>3, <1>6, <1>7
<1>4. CASE t[k] # "blank"
  <2>1. PICK h \in Tables(t) : h <= k
    BY <1>4 DEF Settled
  <2>2. OwnTables(u) \subseteq Tables(u) /\ Tables(u) \subseteq 1..Len(u) /\ OwnTables(t) \subseteq Tables(t) /\ Tables(t) \subseteq 1..Len(t)
    BY <1>1, TablesAre
  <2>3. ASSUME NEW g \in OwnTables(u), g <= m + k, \A j \in Tables(u) : j <= m + k => j <= g
        PROVE  \E f \in OwnTables(t) : f <= k /\ \A j \in Tables(t) : j <= k => j <= f
    <3>1. m + h \in Tables(u) /\ m + h <= m + k
      BY <1>0, <1>2, <2>1, <2>2
    <3>2. m + h <= g /\ g \in 1..Len(u)
      BY <2>2, <2>3, <3>1
    <3>3. g - m \in 1..Len(t) /\ g = m + (g - m)
      BY <1>0, <1>1, <3>2, <2>1, <2>2
    <3>4. g - m \in OwnTables(t)
      BY <1>2, <2>3, <3>3
    <3>5. g - m <= k
      BY <1>0, <2>3, <3>2
    <3>6. ASSUME NEW j \in Tables(t), j <= k  PROVE j <= g - m
      <4>1. j \in 1..Len(t) /\ m + j \in Tables(u)
        BY <1>2, <2>2
      <4>2. m + j <= m + k
        BY <1>0, <3>6, <4>1
      <4>3. m + j <= g
        BY <2>3, <4>1, <4>2
      <4> QED
        BY <1>0, <3>2, <4>1, <4>3
    <3> QED
      BY <3>4, <3>5, <3>6
  <2>4. ASSUME NEW f \in OwnTables(t), f <= k, \A j \in Tables(t) : j <= k => j <= f
        PROVE  \E g \in OwnTables(u) : g <= m + k /\ \A j \in Tables(u) : j <= m + k => j <= g
    <3>1. f \in 1..Len(t) /\ m + f \in OwnTables(u)
      BY <1>2, <2>2
    <3>2. m + f <= m + k
      BY <1>0, <2>4, <3>1
    <3>3. ASSUME NEW j \in Tables(u), j <= m + k  PROVE j <= m + f
      <4>1. j \in 1..Len(u)
        BY <2>2
      <4>2. CASE j <= m
        BY <1>0, <3>1, <4>1, <4>2
      <4>3. CASE ~(j <= m)
        <5>1. j - m \in 1..Len(t) /\ j = m + (j - m) /\ j - m <= k
          BY <1>0, <1>1, <3>3, <4>1, <4>3
        <5>2. j - m \in Tables(t)
          BY <1>2, <5>1
        <5>3. j - m <= f
          BY <2>4, <5>1, <5>2
        <5> QED
          BY <1>0, <3>1, <4>1, <5>3
      <4> QED
        BY <4>2, <4>3
    <3> QED
      BY <3>1, <3>2, <3>3
  <2> QED
    BY <1>1, <1>4, <1>6, <1>7, <2>3, <2>4
<1> QED
  BY <1>3, <1>4

-----------------------------------------------------------------------------
(* The lines kept of a text, and of two of them together.                  *)

\* What Picked has kept after each line.
KeepsTo(s, K, f) == f = [k \in 0..Len(s) |-> IF k = 0 THEN <<>> ELSE IF k \in K THEN Append(f[k - 1], s[k]) ELSE f[k - 1]]
Kept(s, K) == CHOOSE f : KeepsTo(s, K, f)

LEMMA KeptIs ==
  ASSUME NEW s \in Lines, NEW K
  PROVE  /\ Picked(s, K) = Kept(s, K)[Len(s)] /\ Kept(s, K)[0] = <<>>
         /\ \A k \in 1..Len(s) : Kept(s, K)[k] = IF k \in K THEN Append(Kept(s, K)[k - 1], s[k]) ELSE Kept(s, K)[k - 1]
         /\ \A k \in 0..Len(s) : Kept(s, K)[k] \in Lines
<1> DEFINE m == Len(s)
           step == [p \in Lines \X (1..m) |-> IF p[2] \in K THEN Append(p[1], s[p[2]]) ELSE p[1]]
<1>1. m \in Nat /\ (\A n \in 1..m : s[n] \in Line) /\ <<>> \in Lines
  BY LinesAre DEF Lines
<1>2. \A a \in Lines, n \in 1..m : step[<<a, n>>] = IF n \in K THEN Append(a, s[n]) ELSE a
  OBVIOUS
<1>3. StaysIn(Lines, step, m)
  <2> SUFFICES ASSUME NEW a \in Lines, NEW n \in 1..m PROVE step[<<a, n>>] \in Lines
    BY DEF StaysIn
  <2>1. Append(a, s[n]) \in Lines
    BY <1>1 DEF Lines
  <2> HIDE DEF step
  <2> QED
    BY <1>2, <2>1
<1> HIDE DEF m, step
<1>4. PICK f : Steps(Lines, <<>>, step, m, f)
  BY <1>1, <1>3, SomeRun
<1>5. ASSUME NEW n \in 0..m  PROVE f[n] = IF n = 0 THEN <<>> ELSE IF n \in K THEN Append(f[n - 1], s[n]) ELSE f[n - 1]
  <2>1. CASE n = 0
    BY <1>4, <2>1 DEF Steps
  <2>2. CASE n # 0
    <3>1. n \in 1..m /\ n - 1 \in 0..m
      BY <1>1, <2>2
    <3>2. f[n - 1] \in Lines
      BY <1>4, <3>1 DEF Steps
    <3>3. f[n] = step[<<f[n - 1], n>>]
      BY <1>4, <3>1 DEF Steps
    <3> QED
      BY <1>2, <2>2, <3>1, <3>2, <3>3
  <2> QED
    BY <2>1, <2>2
<1>6. KeepsTo(s, K, f)
  <2>1. f = [n \in 0..m |-> f[n]]
    BY <1>4 DEF Steps
  <2> QED
    BY <1>5, <2>1 DEF KeepsTo, m
<1>7. KeepsTo(s, K, Kept(s, K))
  BY <1>6 DEF Kept
<1> DEFINE g == Kept(s, K)
           S == {n \in 0..m : g[n] \in Lines}
<1>8. \A n \in 0..m : g[n] = IF n = 0 THEN <<>> ELSE IF n \in K THEN Append(g[n - 1], s[n]) ELSE g[n - 1]
  BY <1>7 DEF KeepsTo, m
<1>13. Picked(s, K) = g[m]
  BY DEF Picked, Kept, KeepsTo, m
<1> HIDE DEF g
<1>9. g[0] = <<>> /\ \A n \in 1..m : g[n] = IF n \in K THEN Append(g[n - 1], s[n]) ELSE g[n - 1]
  BY <1>1, <1>8
<1>10. 0 \in S
  BY <1>1, <1>9
<1>11. ASSUME NEW n \in 1..m, n - 1 \in S  PROVE n \in S
  <2>1. n \in 0..m /\ s[n] \in Line /\ g[n - 1] \in Lines
    BY <1>1, <1>11
  <2>2. Append(g[n - 1], s[n]) \in Lines
    BY <2>1 DEF Lines
  <2> QED
    BY <1>9, <2>1, <2>2
<1> HIDE DEF S
<1>12. \A n \in 0..m : n \in S
  BY <1>1, <1>10, <1>11, EveryPosition
<1> QED
  BY <1>9, <1>12, <1>13 DEF S, g, m

\* From i in s and from j in t, m lines of which the same are kept.
KeptAlongside(s, K, i, t, L, j, m) ==
  i + m <= Len(s) /\ j + m <= Len(t)
  /\ \A k \in 1..m : (i + k \in K <=> j + k \in L) /\ (i + k \in K => s[i + k] = t[j + k])
KeptTogether(s, K, i, t, L, j, m, p) == Kept(s, K)[i + m] = p \o Kept(t, L)[j + m]

LEMMA AppendJoin ==
  ASSUME NEW p \in Lines, NEW y \in Lines, NEW z \in Line
  PROVE  Append(p \o y, z) = p \o Append(y, z)
<1>1. Append(y, z) = y \o <<z>> /\ Append(p \o y, z) = (p \o y) \o <<z>> /\ <<z>> \in Lines
  BY Joined, AppendIsConcat DEF Lines
<1> QED
  BY <1>1, ConcatAssociative DEF Lines

LEMMA KeptWalk ==
  ASSUME NEW s \in Lines, NEW t \in Lines, NEW K, NEW L, NEW i \in Nat, NEW j \in Nat, NEW m \in Nat,
         KeptAlongside(s, K, i, t, L, j, m), NEW p \in Lines, Kept(s, K)[i] = p \o Kept(t, L)[j]
  PROVE  KeptTogether(s, K, i, t, L, j, m, p)
<1> DEFINE f == Kept(s, K)
           g == Kept(t, L)
           S == {k \in 0..m : f[i + k] = p \o g[j + k]}
<1>0. Len(s) \in Nat /\ Len(t) \in Nat /\ i + m <= Len(s) /\ j + m <= Len(t)
  BY LinesAre DEF KeptAlongside
<1>1. \A k \in 1..Len(s) : f[k] = IF k \in K THEN Append(f[k - 1], s[k]) ELSE f[k - 1]
  BY KeptIs
<1>2. /\ \A k \in 1..Len(t) : g[k] = IF k \in L THEN Append(g[k - 1], t[k]) ELSE g[k - 1]
      /\ \A k \in 0..Len(t) : g[k] \in Lines
  BY KeptIs
<1>3. f[i] = p \o g[j]
  OBVIOUS
<1> HIDE DEF f, g
<1>4. 0 \in S
  BY <1>3
<1>5. ASSUME NEW k \in 1..m, k - 1 \in S  PROVE k \in S
  <2>1. i + k \in 1..Len(s) /\ j + k \in 1..Len(t) /\ (i + k) - 1 = i + (k - 1) /\ (j + k) - 1 = j + (k - 1)
        /\ j + (k - 1) \in 0..Len(t)
    BY <1>0
  <2> DEFINE x == f[i + (k - 1)]
             y == g[j + (k - 1)]
  <2>2. f[i + k] = IF i + k \in K THEN Append(x, s[i + k]) ELSE x
    BY <1>1, <2>1
  <2>3. g[j + k] = IF j + k \in L THEN Append(y, t[j + k]) ELSE y
    BY <1>2, <2>1
  <2>4. x = p \o y /\ y \in Lines
    BY <1>2, <1>5, <2>1
  <2>5. (i + k \in K <=> j + k \in L) /\ (i + k \in K => s[i + k] = t[j + k])
    BY DEF KeptAlongside
  <2>6. k \in 0..m /\ t[j + k] \in Line
    BY <2>1, LinesAre
  <2> DEFINE z == t[j + k]
  <2> HIDE DEF x, y, z
  <2>7. Append(p \o y, z) = p \o Append(y, z)
    BY <2>4, <2>6, AppendJoin DEF z
  <2>8. f[i + k] = p \o g[j + k]
    BY <2>2, <2>3, <2>4, <2>5, <2>7 DEF z
  <2> QED
    BY <2>6, <2>8
<1> HIDE DEF S
<1>6. \A k \in 0..m : k \in S
  BY <1>4, <1>5, EveryPosition
<1>7. m \in S
  BY <1>6
<1> QED
  BY <1>7 DEF S, f, g, KeptTogether

LEMMA PickedStays == ASSUME NEW s \in Lines, NEW K PROVE Picked(s, K) \in Lines
<1>1. Len(s) \in 0..Len(s)
  BY LinesAre
<1> QED
  BY <1>1, KeptIs

LEMMA JoinEmpty == ASSUME NEW s \in Lines PROVE <<>> \in Lines /\ <<>> \o s = s /\ s \o <<>> = s
  BY DEF Lines

\* The same lines kept of texts of one length.
LEMMA PickedSame ==
  ASSUME NEW s \in Lines, NEW t \in Lines, Len(s) = Len(t), NEW K, NEW L,
         \A k \in 1..Len(s) : (k \in K <=> k \in L) /\ (k \in K => s[k] = t[k])
  PROVE  Picked(s, K) = Picked(t, L)
<1>1. KeptAlongside(s, K, 0, t, L, 0, Len(s)) /\ Len(s) \in Nat
  BY LinesAre DEF KeptAlongside
<1>2. Kept(s, K)[0] = <<>> \o Kept(t, L)[0] /\ <<>> \in Lines
  BY KeptIs, JoinEmpty
<1>3. KeptTogether(s, K, 0, t, L, 0, Len(s), <<>>)
  BY <1>1, <1>2, KeptWalk
<1>4. 0 + Len(s) = Len(s) /\ Kept(t, L)[Len(t)] \in Lines
  BY <1>1, PickedStays, KeptIs
<1> QED
  BY <1>3, <1>4, KeptIs, JoinEmpty DEF KeptTogether

\* In s followed by t, M is K of s and L of t.
Shared(s, t, K, L, M) ==
  (\A k \in 1..Len(s) : k \in M <=> k \in K) /\ \A k \in 1..Len(t) : Len(s) + k \in M <=> k \in L

LEMMA PickedJoin ==
  ASSUME NEW s \in Lines, NEW t \in Lines, NEW K, NEW L, NEW M, Shared(s, t, K, L, M)
  PROVE  Picked(s \o t, M) = Picked(s, K) \o Picked(t, L)
<1> DEFINE u == s \o t
<1>0. Len(s) \in Nat /\ Len(t) \in Nat
  BY LinesAre
<1>1. /\ u \in Lines /\ Len(u) = Len(s) + Len(t)
      /\ \A k \in 1..Len(s) : u[k] = s[k]
      /\ \A k \in 1..Len(t) : u[Len(s) + k] = t[k]
  BY Joined
<1> HIDE DEF u
<1>2. KeptAlongside(u, M, 0, s, K, 0, Len(s))
  BY <1>0, <1>1 DEF KeptAlongside, Shared
<1>3. Kept(u, M)[0] = <<>> \o Kept(s, K)[0] /\ <<>> \in Lines
  BY <1>1, KeptIs, JoinEmpty
<1>4. KeptTogether(u, M, 0, s, K, 0, Len(s), <<>>)
  BY <1>0, <1>1, <1>2, <1>3, KeptWalk
<1>5. Kept(u, M)[Len(s)] = Picked(s, K) /\ Picked(s, K) \in Lines
  <2>1. 0 + Len(s) = Len(s) /\ Kept(s, K)[Len(s)] = Picked(s, K) /\ Picked(s, K) \in Lines
    BY <1>0, PickedStays, KeptIs
  <2> QED
    BY <1>4, <2>1, JoinEmpty DEF KeptTogether
<1>6. KeptAlongside(u, M, Len(s), t, L, 0, Len(t))
  BY <1>0, <1>1 DEF KeptAlongside, Shared
<1>7. Kept(u, M)[Len(s)] = Picked(s, K) \o Kept(t, L)[0]
  <2>1. Kept(t, L)[0] = <<>>
    BY KeptIs
  <2>2. Picked(s, K) \o <<>> = Picked(s, K)
    BY <1>5, JoinEmpty
  <2> QED
    BY <1>5, <2>1, <2>2
<1>8. KeptTogether(u, M, Len(s), t, L, 0, Len(t), Picked(s, K))
  BY <1>0, <1>1, <1>5, <1>6, <1>7, KeptWalk
<1>9. Picked(u, M) = Picked(s, K) \o Picked(t, L)
  <2>1. Kept(u, M)[Len(u)] = Picked(u, M) /\ Kept(t, L)[Len(t)] = Picked(t, L)
    BY <1>1, KeptIs
  <2>2. 0 + Len(t) = Len(t)
    BY <1>0
  <2> QED
    BY <1>1, <1>8, <2>1, <2>2 DEF KeptTogether
<1> QED
  BY <1>9 DEF u

LEMMA PickedNone ==
  ASSUME NEW s \in Lines, NEW K, \A k \in 1..Len(s) : k \notin K
  PROVE  Picked(s, K) = <<>>
<1> DEFINE g == Kept(s, K)
           S == {n \in 0..Len(s) : g[n] = <<>>}
<1>1. /\ Picked(s, K) = g[Len(s)] /\ g[0] = <<>> /\ Len(s) \in Nat
      /\ \A k \in 1..Len(s) : g[k] = IF k \in K THEN Append(g[k - 1], s[k]) ELSE g[k - 1]
  BY KeptIs, LinesAre
<1> HIDE DEF g
<1>2. 0 \in S
  BY <1>1
<1>3. ASSUME NEW n \in 1..Len(s), n - 1 \in S  PROVE n \in S
  <2>1. n \in 0..Len(s) /\ g[n] = g[n - 1]
    BY <1>1
  <2> QED
    BY <1>3, <2>1
<1> HIDE DEF S
<1>4. \A n \in 0..Len(s) : n \in S
  BY <1>1, <1>2, <1>3, EveryPosition
<1>5. Len(s) \in S
  BY <1>1, <1>4
<1> QED
  BY <1>1, <1>5 DEF S

-----------------------------------------------------------------------------
(* Texts without a table of triss, and lines that open nothing.            *)

\* A text the scanner accepts that has no table of triss.
Tame(s) == ~Malformed(s) /\ Roots(s) = {} /\ ArrayRoots(s) = {}

LEMMA JoinMalformed ==
  ASSUME NEW s \in Lines, NEW t \in Lines, ~Malformed(s)
  PROVE  Malformed(s \o t) <=> Malformed(t)
<1>1. Len(s \o t) = Len(s) + Len(t) /\ Len(t) \in 0..Len(t)
  BY Joined, LinesAre
<1>2. OpenAfter(s \o t)[Len(s) + Len(t)] = OpenAfter(t)[Len(t)]
  BY <1>1, JoinOpens
<1> QED
  BY <1>1, <1>2 DEF Malformed

LEMMA NoHeaders ==
  ASSUME NEW s \in Lines, NEW t \in Lines, ~Malformed(s), NEW K
  PROVE  HeadersIn(s \o t, K) = {} <=> HeadersIn(s, K) = {} /\ HeadersIn(t, K) = {}
<1> DEFINE u == s \o t
<1>0. Len(s) \in Nat /\ Len(t) \in Nat
  BY LinesAre
<1>1. u \in Lines /\ Len(u) = Len(s) + Len(t)
  BY Joined
<1>2. /\ \A k \in 1..Len(s) : k \in HeadersIn(u, K) <=> k \in HeadersIn(s, K)
      /\ \A k \in 1..Len(t) : Len(s) + k \in HeadersIn(u, K) <=> k \in HeadersIn(t, K)
  BY JoinHeaders
<1> SUFFICES HeadersIn(u, K) = {} <=> HeadersIn(s, K) = {} /\ HeadersIn(t, K) = {}
  OBVIOUS
<1> HIDE DEF u
<1>3. /\ HeadersIn(s, K) \subseteq 1..Len(s) /\ HeadersIn(t, K) \subseteq 1..Len(t)
      /\ HeadersIn(u, K) \subseteq 1..(Len(s) + Len(t))
  BY <1>1, HeaderAt
<1>4. \A k \in HeadersIn(u, K) : k \in 1..Len(s) \/ (k - Len(s) \in 1..Len(t) /\ k = Len(s) + (k - Len(s)))
  BY <1>0, <1>3
<1> QED
  BY <1>2, <1>3, <1>4

LEMMA TameParts ==
  ASSUME NEW s \in Lines, NEW t \in Lines, ~Malformed(s)
  PROVE  Tame(s \o t) <=> Tame(s) /\ Tame(t)
  BY JoinMalformed, NoHeaders DEF Tame, Roots, ArrayRoots

LEMMA ForeignJoin ==
  ASSUME NEW s \in Lines, NEW t \in Lines, ~Malformed(s), Settled(t)
  PROVE  Foreign(s \o t) = Foreign(s) \o Foreign(t)
<1> DEFINE u == s \o t
           K == {k \in DOMAIN s : IsForeign(s, k)}
           L == {k \in DOMAIN t : IsForeign(t, k)}
           M == {k \in DOMAIN u : IsForeign(u, k)}
<1>0. Len(s) \in Nat /\ Len(t) \in Nat
  BY LinesAre
<1>1. /\ u \in Lines /\ Len(u) = Len(s) + Len(t)
  BY Joined
<1>2. DOMAIN u = 1..Len(u) /\ DOMAIN s = 1..Len(s) /\ DOMAIN t = 1..Len(t)
  <2> HIDE DEF u
  <2> QED
    BY <1>1, LinesAre
<1>3. ASSUME NEW k \in 1..Len(s)  PROVE k \in M <=> k \in K
  <2>1. IsForeign(u, k) <=> IsForeign(s, k)
    BY JoinForeignFirst
  <2> HIDE DEF u
  <2>2. k \in 1..Len(u)
    BY <1>0, <1>1
  <2> QED
    BY <1>2, <2>1, <2>2
<1>4. ASSUME NEW k \in 1..Len(t)  PROVE Len(s) + k \in M <=> k \in L
  <2>1. IsForeign(u, Len(s) + k) <=> IsForeign(t, k)
    BY JoinForeignSecond
  <2> HIDE DEF u
  <2>2. Len(s) + k \in 1..Len(u)
    BY <1>0, <1>1
  <2> QED
    BY <1>2, <2>1, <2>2
<1> HIDE DEF K, L, M
<1>5. Picked(u, M) = Picked(s, K) \o Picked(t, L)
  <2>1. Shared(s, t, K, L, M)
    BY <1>3, <1>4 DEF Shared
  <2> QED
    BY <2>1, PickedJoin
<1> QED
  BY <1>5 DEF Foreign, K, L, M, u

LEMMA InkedJoin ==
  ASSUME NEW s \in Lines, NEW t \in Lines
  PROVE  Inked(s \o t) = Inked(s) \o Inked(t)
<1> DEFINE u == s \o t
           K == {k \in DOMAIN s : s[k] # "blank"}
           L == {k \in DOMAIN t : t[k] # "blank"}
           M == {k \in DOMAIN u : u[k] # "blank"}
<1>0. Len(s) \in Nat /\ Len(t) \in Nat
  BY LinesAre
<1>1. /\ u \in Lines /\ Len(u) = Len(s) + Len(t)
      /\ \A k \in 1..Len(s) : u[k] = s[k]
      /\ \A k \in 1..Len(t) : u[Len(s) + k] = t[k]
  BY Joined
<1>2. DOMAIN u = 1..Len(u) /\ DOMAIN s = 1..Len(s) /\ DOMAIN t = 1..Len(t)
  <2> HIDE DEF u
  <2> QED
    BY <1>1, LinesAre
<1>3. ASSUME NEW k \in 1..Len(s)  PROVE k \in M <=> k \in K
  <2> HIDE DEF u
  <2>1. k \in 1..Len(u)
    BY <1>0, <1>1
  <2> QED
    BY <1>1, <1>2, <2>1
<1>4. ASSUME NEW k \in 1..Len(t)  PROVE Len(s) + k \in M <=> k \in L
  <2> HIDE DEF u
  <2>1. Len(s) + k \in 1..Len(u)
    BY <1>0, <1>1
  <2> QED
    BY <1>1, <1>2, <2>1
<1> HIDE DEF K, L, M
<1>5. Picked(u, M) = Picked(s, K) \o Picked(t, L)
  <2>1. Shared(s, t, K, L, M)
    BY <1>3, <1>4 DEF Shared
  <2> QED
    BY <2>1, PickedJoin
<1> QED
  BY <1>5 DEF Inked, K, L, M, u

LEMMA PartsStay == ASSUME NEW s \in Lines PROVE Foreign(s) \in Lines /\ Inked(s) \in Lines
  BY PickedStays DEF Foreign, Inked

\* Lines that open and close nothing.
Plain(s) == \A k \in 1..Len(s) : s[k] \notin {"quotes", "[", "]", "broken"}

LEMMA PlainOpens ==
  ASSUME NEW s \in Lines, Plain(s)
  PROVE  ~Malformed(s) /\ \A k \in 0..Len(s) : OpenAfter(s)[k] = <<>>
<1> DEFINE g == OpenAfter(s)
           S == {n \in 0..Len(s) : g[n] = <<>>}
<1>1. g[0] = <<>> /\ Len(s) \in Nat /\ \A k \in 1..Len(s) : g[k] = Lexed(g[k - 1], s[k])
  BY OpenIs, LinesAre
<1> HIDE DEF g
<1>2. 0 \in S
  BY <1>1
<1>3. ASSUME NEW n \in 1..Len(s), n - 1 \in S  PROVE n \in S
  <2>1. n \in 0..Len(s) /\ g[n] = Lexed(<<>>, s[n])
    BY <1>1, <1>3
  <2>2. Lexed(<<>>, s[n]) = <<>>
    BY DEF Plain, Lexed
  <2> QED
    BY <2>1, <2>2
<1> HIDE DEF S
<1>4. \A n \in 0..Len(s) : n \in S
  BY <1>1, <1>2, <1>3, EveryPosition
<1>5. \A k \in 0..Len(s) : g[k] = <<>>
  BY <1>4 DEF S
<1>6. Len(s) \in 0..Len(s)
  BY <1>1
<1> QED
  BY <1>5, <1>6 DEF g, Malformed

LEMMA PlainHeaders ==
  ASSUME NEW s \in Lines, Plain(s), NEW K
  PROVE  HeadersIn(s, K) = {k \in 1..Len(s) : s[k] \in K}
<1>1. \A k \in 1..Len(s) : OpenAfter(s)[k - 1] = <<>>
  <2> SUFFICES ASSUME NEW k \in 1..Len(s) PROVE OpenAfter(s)[k - 1] = <<>>
    OBVIOUS
  <2>1. k - 1 \in 0..Len(s)
    BY LinesAre
  <2> QED
    BY <2>1, PlainOpens
<1> QED
  BY <1>1, HeaderAt

LEMMA Blanks ==
  ASSUME NEW s \in Lines, IsBlank(s)
  PROVE  /\ Tame(s) /\ Settled(s) /\ Tables(s) = {} /\ Foreign(s) = <<>> /\ Inked(s) = <<>>
<1>1. \A k \in 1..Len(s) : s[k] = "blank"
  BY LinesAre DEF IsBlank
<1>2. Plain(s)
  BY <1>1 DEF Plain
<1>3. ASSUME NEW K, "blank" \notin K  PROVE HeadersIn(s, K) = {}
  BY <1>1, <1>2, <1>3, PlainHeaders
<1>4. Tame(s) /\ Tables(s) = {}
  <2>1. "blank" \notin Root /\ "blank" \notin {"array root"} /\ "blank" \notin Header
    BY DEF Root, Header, Section
  <2> QED
    BY <1>2, <1>3, <2>1, PlainOpens DEF Tame, Tables, Roots, ArrayRoots
<1>5. Settled(s)
  BY <1>1 DEF Settled
<1> DEFINE K == {k \in DOMAIN s : IsForeign(s, k)}
           L == {k \in DOMAIN s : s[k] # "blank"}
<1>6. \A k \in 1..Len(s) : k \notin K
  BY <1>1 DEF IsForeign
<1>7. \A k \in 1..Len(s) : k \notin L
  BY <1>1
<1> HIDE DEF K, L
<1>8. Picked(s, K) = <<>> /\ Picked(s, L) = <<>>
  BY <1>6, <1>7, PickedNone
<1> QED
  BY <1>4, <1>5, <1>8 DEF Foreign, Inked, K, L

-----------------------------------------------------------------------------
(* A text cut in two, and the blank lines added and removed at its ends.   *)

\* A text is what comes before a place, and the rest.
LEMMA Cut ==
  ASSUME NEW s \in Lines, NEW m \in 0..Len(s)
  PROVE  /\ SubSeq(s, 1, m) \in Lines /\ Len(SubSeq(s, 1, m)) = m
         /\ SubSeq(s, m + 1, Len(s)) \in Lines /\ Len(SubSeq(s, m + 1, Len(s))) = Len(s) - m
         /\ s = SubSeq(s, 1, m) \o SubSeq(s, m + 1, Len(s))
         /\ \A k \in 1..m : SubSeq(s, 1, m)[k] = s[k]
         /\ \A k \in 1..(Len(s) - m) : SubSeq(s, m + 1, Len(s))[k] = s[m + k]
<1>0. Len(s) \in Nat /\ m \in Nat /\ m <= Len(s) /\ \A k \in 1..Len(s) : s[k] \in Line
  BY LinesAre
<1> DEFINE b == SubSeq(s, 1, m)
           r == SubSeq(s, m + 1, Len(s))
<1>1. b \in Lines /\ Len(b) = (IF 1 <= m THEN m - 1 + 1 ELSE 0) /\ \A i \in 1..(m - 1 + 1) : b[i] = s[1 + i - 1]
  <2>1. 1 \in Int /\ m \in Int /\ \A i \in 1..m : s[i] \in Line
    BY <1>0
  <2> QED
    BY <2>1, SubSeqProperties DEF Lines
<1>2. r \in Lines /\ Len(r) = (IF m + 1 <= Len(s) THEN Len(s) - (m + 1) + 1 ELSE 0)
      /\ \A i \in 1..(Len(s) - (m + 1) + 1) : r[i] = s[(m + 1) + i - 1]
  <2>1. m + 1 \in Int /\ Len(s) \in Int /\ \A i \in (m + 1)..Len(s) : s[i] \in Line
    BY <1>0
  <2> QED
    BY <2>1, SubSeqProperties DEF Lines
<1>3. s = b \o r
  <2>1. 1 \in 1..Len(s) + 1 /\ m \in (1 - 1)..Len(s) /\ Len(s) \in m..Len(s)
    BY <1>0
  <2>2. SubSeq(s, 1, m) \o SubSeq(s, m + 1, Len(s)) = SubSeq(s, 1, Len(s))
    BY <2>1, ConcatAdjacentSubSeq DEF Lines
  <2>3. SubSeq(s, 1, Len(s)) = s
    BY SubSeqFull DEF Lines
  <2> QED
    BY <2>2, <2>3
<1> HIDE DEF b, r
<1>4. Len(b) = m /\ Len(r) = Len(s) - m
  BY <1>0, <1>1, <1>2
<1>5. ASSUME NEW k \in 1..m  PROVE b[k] = s[k]
  <2>1. k \in 1..(m - 1 + 1) /\ 1 + k - 1 = k
    BY <1>0
  <2> QED
    BY <1>1, <2>1
<1>6. ASSUME NEW k \in 1..(Len(s) - m)  PROVE r[k] = s[m + k]
  <2>1. k \in 1..(Len(s) - (m + 1) + 1) /\ (m + 1) + k - 1 = m + k
    BY <1>0
  <2> QED
    BY <1>2, <2>1
<1> QED
  BY <1>1, <1>2, <1>3, <1>4, <1>5, <1>6 DEF b, r

LEMMA LeastIs ==
  ASSUME NEW S, S \subseteq Nat, NEW f \in S, \A k \in S : f <= k
  PROVE  LeastOf(S) = f
<1>1. LeastOf(S) \in S /\ \A k \in S : LeastOf(S) <= k
  BY DEF LeastOf
<1>2. LeastOf(S) \in Nat /\ f \in Nat /\ LeastOf(S) <= f /\ f <= LeastOf(S)
  BY <1>1
<1> QED
  BY <1>2

LEMMA LeastFound ==
  ASSUME NEW S, S \subseteq Nat, S # {}
  PROVE  LeastOf(S) \in S /\ LeastOf(S) \in Nat /\ \A k \in S : LeastOf(S) <= k
<1>1. PICK f \in S : \A k \in S : f <= k
  BY SomeFirst
<1>2. LeastOf(S) = f
  BY <1>1, LeastIs
<1> QED
  BY <1>1, <1>2

LEMMA BlankLine == Blank \in Lines /\ Len(Blank) = 1 /\ Blank[1] = "blank" /\ IsBlank(Blank)
  BY LineKinds DEF Blank, IsBlank, Lines

\* A text and the blank at its end are two texts.
LEMMA EndsInBlank ==
  ASSUME NEW s \in Lines, s # <<>>, Last(s) = "blank"
  PROVE  Front(s) \in Lines /\ Len(Front(s)) = Len(s) - 1 /\ s = Front(s) \o Blank
<1>1. Len(s) \in Nat \ {0} /\ s[Len(s)] = "blank"
  <2>1. Len(s) # 0
    BY EmptySeq DEF Lines
  <2> QED
    BY <2>1, LinesAre DEF Last
<1> DEFINE m == Len(s) - 1
           r == SubSeq(s, m + 1, Len(s))
<1>2. Front(s) = SubSeq(s, 1, m)
  BY DEF Front
<1>3. /\ SubSeq(s, 1, m) \in Lines /\ Len(SubSeq(s, 1, m)) = m
      /\ r \in Lines /\ Len(r) = Len(s) - m /\ s = SubSeq(s, 1, m) \o r
      /\ \A k \in 1..(Len(s) - m) : r[k] = s[m + k]
  <2>1. m \in 0..Len(s)
    BY <1>1
  <2> HIDE DEF m
  <2> QED
    BY <2>1, Cut
<1>4. r = Blank
  <2>1. Len(s) - m = 1 /\ m + 1 = Len(s) /\ 1 \in 1..(Len(s) - m)
    BY <1>1
  <2> HIDE DEF m, r
  <2>2. Len(r) = 1 /\ r[1] = "blank"
    BY <1>1, <1>3, <2>1
  <2>3. Len(r) = Len(Blank) /\ \A i \in 1..Len(r) : r[i] = Blank[i]
    BY <2>2, BlankLine
  <2> QED
    BY <1>3, <2>3, BlankLine, SeqEqual DEF Lines
<1> QED
  BY <1>2, <1>3, <1>4

\* Two accepted texts that say the same but for blanks.
SaysTheSame(s, t) == Foreign(s) = Foreign(t) /\ Inked(s) = Inked(t)

LEMMA BlankAdds ==
  ASSUME NEW s \in Lines
  PROVE  /\ s \o Blank \in Lines /\ Len(s \o Blank) = Len(s) + 1 /\ (s \o Blank)[Len(s) + 1] = "blank"
         /\ Malformed(s \o Blank) <=> Malformed(s)
         /\ ~Malformed(s) => (Tame(s \o Blank) <=> Tame(s)) /\ SaysTheSame(s \o Blank, s)
<1> DEFINE u == s \o Blank
<1>0. Len(s) \in Nat /\ Len(s) \in 0..Len(s) /\ 1 \in 1..1
  BY LinesAre
<1>1. u \in Lines /\ Len(u) = Len(s) + 1 /\ u[Len(s) + 1] = "blank"
  <2>1. Len(u) = Len(s) + Len(Blank) /\ u \in Lines /\ \A k \in 1..Len(Blank) : u[Len(s) + k] = Blank[k]
    BY BlankLine, Joined
  <2> HIDE DEF u
  <2>2. 1 \in 1..Len(Blank)
    BY BlankLine
  <2> QED
    BY <2>1, <2>2, BlankLine
<1>2. OpenAfter(u)[Len(s)] = OpenAfter(s)[Len(s)]
  BY <1>0, BlankLine, JoinOpens
<1> SUFFICES /\ Malformed(u) <=> Malformed(s)
             /\ ~Malformed(s) => (Tame(u) <=> Tame(s)) /\ SaysTheSame(u, s)
  BY <1>1
<1>4. ASSUME ~Malformed(s)  PROVE (Tame(u) <=> Tame(s)) /\ SaysTheSame(u, s)
  <2>1. Tame(u) <=> Tame(s)
    BY <1>4, BlankLine, TameParts, Blanks
  <2>2. Foreign(u) = Foreign(s) \o <<>> /\ Inked(u) = Inked(s) \o <<>>
    BY <1>4, BlankLine, Blanks, ForeignJoin, InkedJoin
  <2> QED
    BY <2>1, <2>2, PartsStay, JoinEmpty DEF SaysTheSame
<1> HIDE DEF u
<1>3. OpenAfter(u)[Len(s) + 1] = OpenAfter(s)[Len(s)]
  <2>1. Len(s) + 1 \in 1..Len(u) /\ (Len(s) + 1) - 1 = Len(s)
    BY <1>0, <1>1
  <2>2. OpenAfter(u)[Len(s) + 1] = Lexed(OpenAfter(u)[(Len(s) + 1) - 1], u[Len(s) + 1])
    BY <1>1, <2>1, OpenIs
  <2>3. \A open : Lexed(open, "blank") = open
    BY DEF Lexed
  <2> QED
    BY <1>1, <1>2, <2>1, <2>2, <2>3
<1>5. Malformed(u) <=> Malformed(s)
  BY <1>1, <1>3 DEF Malformed
<1> QED
  BY <1>4, <1>5

LEMMA BlankHasNoInk == ASSUME NEW s \in Lines PROVE IsBlank(s \o Blank) <=> IsBlank(s)
<1> DEFINE u == s \o Blank
<1>0. Len(s) \in Nat
  BY LinesAre
<1>1. u \in Lines /\ Len(u) = Len(s) + 1 /\ u[Len(s) + 1] = "blank" /\ \A k \in 1..Len(s) : u[k] = s[k]
  BY BlankAdds, Joined, BlankLine
<1> SUFFICES IsBlank(u) <=> IsBlank(s)
  OBVIOUS
<1> HIDE DEF u
<1>2. DOMAIN u = 1..(Len(s) + 1) /\ DOMAIN s = 1..Len(s)
  BY <1>1, LinesAre
<1>3. \A k \in 1..(Len(s) + 1) : k \in 1..Len(s) \/ k = Len(s) + 1
  BY <1>0
<1>4. \A k \in 1..Len(s) : k \in 1..(Len(s) + 1)
  BY <1>0
<1> QED
  BY <1>1, <1>2, <1>3, <1>4 DEF IsBlank

LEMMA UnendedKeeps ==
  ASSUME NEW s \in Lines, s # <<>>
  PROVE  /\ Unended(s) \in Lines
         /\ Malformed(Unended(s)) <=> Malformed(s)
         /\ ~Malformed(s) => (Tame(Unended(s)) <=> Tame(s)) /\ SaysTheSame(Unended(s), s)
         /\ IsBlank(Unended(s)) <=> IsBlank(s)
<1>1. CASE Last(s) = "blank"
  <2> DEFINE u == Front(s)
  <2>1. u \in Lines /\ s = u \o Blank /\ Unended(s) = u
    BY <1>1, EndsInBlank DEF Unended
  <2> HIDE DEF u
  <2> QED
    BY <2>1, BlankAdds, BlankHasNoInk DEF SaysTheSame
<1>2. CASE Last(s) # "blank"
  BY <1>2 DEF Unended, SaysTheSame
<1> QED
  BY <1>1, <1>2

LEMMA HeadSettles == ASSUME NEW s \in Lines, 1 \in Tables(s) PROVE Settled(s)
  BY DEF Settled

\* A text without the blanks before its first line.
LEMMA LeadingKeeps ==
  ASSUME NEW s \in Lines, Tame(s), Settled(s)
  PROVE  LET n == NoLeadingBlanks(s) IN
         n \in Lines /\ n # <<>> /\ Tame(n) /\ Settled(n) /\ SaysTheSame(n, s) /\ (IsBlank(n) <=> IsBlank(s))
<1> DEFINE full == {k \in DOMAIN s : s[k] # "blank"}
           n == NoLeadingBlanks(s)
<1>0. Len(s) \in Nat /\ DOMAIN s = 1..Len(s)
  BY LinesAre
<1>1. CASE full = {}
  <2>1. n = Blank /\ IsBlank(s)
    BY <1>1 DEF NoLeadingBlanks, IsBlank
  <2>2. Blank # <<>>
    BY DEF Blank
  <2> QED
    BY <2>1, <2>2, BlankLine, Blanks DEF SaysTheSame
<1>2. CASE full # {}
  <2> DEFINE f == LeastOf(full)
  <2>1. f \in full /\ f \in Nat /\ \A k \in full : f <= k
    <3>1. full \subseteq Nat
      BY <1>0
    <3> HIDE DEF full
    <3> QED
      BY <1>2, <3>1, LeastFound
  <2> HIDE DEF f
  <2>3. f \in 1..Len(s) /\ s[f] # "blank"
    BY <1>0, <2>1
  <2> DEFINE b == SubSeq(s, 1, f - 1)
             r == SubSeq(s, (f - 1) + 1, Len(s))
  <2>4. n = r
    <3>1. (f - 1) + 1 = f
      BY <2>1
    <3> QED
      BY <1>2, <3>1 DEF NoLeadingBlanks, f
  <2>5. /\ b \in Lines /\ r \in Lines /\ Len(b) = f - 1 /\ Len(r) = Len(s) - f + 1
        /\ \A k \in 1..(f - 1) : b[k] = s[k]
        /\ s = b \o r
    <3> DEFINE m == f - 1
    <3>1. m \in 0..Len(s) /\ Len(s) - m = Len(s) - f + 1
      BY <1>0, <2>1, <2>3
    <3>2. /\ SubSeq(s, 1, m) \in Lines /\ Len(SubSeq(s, 1, m)) = m
          /\ SubSeq(s, m + 1, Len(s)) \in Lines /\ Len(SubSeq(s, m + 1, Len(s))) = Len(s) - m
          /\ s = SubSeq(s, 1, m) \o SubSeq(s, m + 1, Len(s))
          /\ \A k \in 1..m : SubSeq(s, 1, m)[k] = s[k]
      <4> HIDE DEF m
      <4> QED
        BY <3>1, Cut
    <3> QED
      BY <3>1, <3>2
  <2>6. s = b \o r
    BY <2>5
  <2> HIDE DEF b, r, n
  <2>7. r[1] = s[f] /\ 1 \in 1..Len(r)
    <3>1. 1 \in 1..Len(r) /\ f = Len(b) + 1
      BY <1>0, <2>3, <2>5
    <3> QED
      BY <2>5, <2>6, <3>1, Joined
  <2>8. IsBlank(b)
    <3>1. \A k \in 1..(f - 1) : k \in 1..Len(s) /\ ~(f <= k)
      BY <1>0, <2>3
    <3>2. \A k \in 1..(f - 1) : s[k] = "blank"
      BY <1>0, <2>1, <3>1
    <3>3. DOMAIN b = 1..(f - 1)
      BY <2>5, LinesAre
    <3> QED
      BY <2>5, <3>2, <3>3 DEF IsBlank
  <2>9. Tame(b) /\ Tables(b) = {} /\ Foreign(b) = <<>> /\ Inked(b) = <<>>
    BY <2>5, <2>8, Blanks
  <2>10. Tame(r)
    BY <2>5, <2>6, <2>9, TameParts DEF Tame
  <2>11. 1 \in Tables(r)
    <3>1. PICK h \in Tables(s) : h <= f
      BY <2>3 DEF Settled
    <3>2. h \in 1..Len(s)
      BY TablesAre
    <3>3. /\ \A k \in 1..Len(b) : k \in Tables(s) <=> k \in Tables(b)
          /\ \A k \in 1..Len(r) : Len(b) + k \in Tables(s) <=> k \in Tables(r)
      BY <2>5, <2>6, <2>9, JoinHeaders DEF Tables, Tame
    <3>4. h \notin 1..Len(b)
      BY <2>9, <3>1, <3>3
    <3>5. h = Len(b) + 1
      BY <1>0, <2>3, <2>5, <3>1, <3>2, <3>4
    <3> QED
      BY <2>7, <3>1, <3>3, <3>5
  <2>12. Settled(r)
    BY <2>5, <2>11, HeadSettles
  <2>13. SaysTheSame(r, s)
    <3>1. Foreign(s) = <<>> \o Foreign(r) /\ Inked(s) = <<>> \o Inked(r)
      BY <2>5, <2>6, <2>9, <2>12, ForeignJoin, InkedJoin DEF Tame
    <3> QED
      BY <2>5, <3>1, PartsStay, JoinEmpty DEF SaysTheSame
  <2>14. ~IsBlank(r) /\ ~IsBlank(s) /\ r # <<>>
    <3>1. ~IsBlank(s)
      BY <1>0, <2>3 DEF IsBlank
    <3>2. ~IsBlank(r)
      BY <2>3, <2>5, <2>7, LinesAre DEF IsBlank
    <3>3. r # <<>>
      BY <2>7
    <3> QED
      BY <3>1, <3>2, <3>3
  <2>15. r \in Lines
    BY <2>5
  <2> QED
    BY <2>4, <2>10, <2>12, <2>13, <2>14, <2>15 DEF n
<1> QED
  BY <1>1, <1>2

-----------------------------------------------------------------------------
(* The table of triss, what comes before it and what comes after it.       *)

LEMMA BlankRun ==
  ASSUME NEW s \in Lines, NEW i \in Nat, NEW m \in Nat, i + m <= Len(s), \A k \in 1..m : s[i + k] = "blank"
  PROVE  OpenAfter(s)[i + m] = OpenAfter(s)[i]
<1> DEFINE f == OpenAfter(s)
           S == {k \in 0..m : f[i + k] = f[i]}
<1>1. Len(s) \in Nat /\ \A k \in 1..Len(s) : f[k] = Lexed(f[k - 1], s[k])
  BY OpenIs, LinesAre
<1>2. \A open : Lexed(open, "blank") = open
  BY DEF Lexed
<1> HIDE DEF f
<1>3. 0 \in S
  OBVIOUS
<1>4. ASSUME NEW k \in 1..m, k - 1 \in S  PROVE k \in S
  <2>1. i + k \in 1..Len(s) /\ (i + k) - 1 = i + (k - 1) /\ k \in 0..m
    BY <1>1
  <2>2. f[i + k] = Lexed(f[i + (k - 1)], "blank")
    BY <1>1, <2>1
  <2>3. f[i + (k - 1)] = f[i]
    BY <1>4
  <2> QED
    BY <1>2, <2>1, <2>2, <2>3
<1> HIDE DEF S
<1>5. \A k \in 0..m : k \in S
  BY <1>3, <1>4, EveryPosition
<1>6. m \in S
  BY <1>5
<1> QED
  BY <1>6 DEF S, f

\* The table of triss in a text that may be rewritten, and what is before and after it.
Rewritable(s) == ~Malformed(s) /\ ~Refused(s)
Closed(s, k) == OpenAfter(s)[k] = <<>>

LEMMA BlockFrom ==
  ASSUME NEW s \in Lines, Rewritable(s), HasBlock(s)
  PROVE  /\ BlockStart(s) \in 1..Len(s) /\ Roots(s) = {BlockStart(s)} /\ ArrayRoots(s) = {}
         /\ s[BlockStart(s)] \in Root /\ Closed(s, BlockStart(s) - 1)
<1>1. Roots(s) # {} /\ ArrayRoots(s) = {} /\ \A j, k \in Roots(s) : j = k
  BY DEF Rewritable, Refused, HasBlock
<1>2. Len(s) \in Nat /\ Roots(s) \subseteq 1..Len(s) /\ Roots(s) \subseteq Nat
  BY LinesAre, HeaderAt DEF Roots
<1>3. BlockStart(s) \in Roots(s)
  BY <1>1, <1>2, LeastFound DEF BlockStart
<1>4. s[BlockStart(s)] \in Root /\ Closed(s, BlockStart(s) - 1)
  BY <1>3, HeaderAt DEF Roots, Closed
<1> QED
  BY <1>1, <1>2, <1>3, <1>4

LEMMA BlockTo ==
  ASSUME NEW s \in Lines, Rewritable(s), HasBlock(s)
  PROVE  LET start == BlockStart(s)
             end == BlockEnd(s, start)
         IN /\ end \in start..Len(s) /\ Closed(s, end)
            /\ \A k \in (start + 1)..end : k \notin HeadersIn(s, Header \ Section)
            /\ \A k \in (end + 1)..Len(s) : s[k] = "blank" \/ \E h \in Tables(s) : end < h /\ h <= k
<1> DEFINE start == BlockStart(s)
           end == BlockEnd(s, start)
           others == HeadersIn(s, Header \ Section)
           ends == {k \in others : k > start} \cup {Len(s) + 1}
           limit == LeastOf(ends)
           full == {k \in start..(limit - 1) : k = start \/ s[k] # "blank"}
<1>1. Len(s) \in Nat /\ start \in 1..Len(s) /\ start \in Nat
  BY LinesAre, BlockFrom
<1>2. others \subseteq 1..Len(s) /\ others \subseteq Tables(s) /\ \A k \in others : Closed(s, k - 1)
  BY HeaderAt DEF Tables, Closed
<1>3. end = CHOOSE k \in full : \A j \in full : j <= k
  BY DEF BlockEnd
<1> HIDE DEF others, start, end
<1>4. limit \in ends /\ \A k \in ends : limit <= k
  <2>1. ends \subseteq Nat /\ ends # {}
    <3>1. others \subseteq Nat /\ Len(s) + 1 \in Nat
      BY <1>1, <1>2
    <3>2. Len(s) + 1 \in ends
      OBVIOUS
    <3> QED
      BY <3>1, <3>2
  <2> HIDE DEF ends
  <2> QED
    BY <2>1, LeastFound
<1> HIDE DEF limit
<1>5. limit \in (start + 1)..(Len(s) + 1)
  BY <1>1, <1>2, <1>4
<1>6. end \in full /\ \A j \in full : j <= end
  <2>1. start \in full /\ full \subseteq 1..Len(s)
    BY <1>1, <1>5
  <2> HIDE DEF full
  <2>2. \E k \in full : \A j \in full : j <= k
    BY <1>1, <2>1, SomeLast
  <2> QED
    BY <1>3, <2>2
<1>7. end \in start..(limit - 1) /\ end \in start..Len(s) /\ end \in Nat
  BY <1>1, <1>5, <1>6
<1>8. ASSUME NEW k \in (end + 1)..(limit - 1)  PROVE s[k] = "blank"
  <2>1. k \in start..(limit - 1) /\ ~(k <= end)
    BY <1>1, <1>5, <1>7
  <2>2. k \notin full
    BY <1>6, <2>1
  <2> QED
    BY <2>1, <2>2
<1>9. Closed(s, limit - 1)
  <2>1. CASE limit = Len(s) + 1
    <3>1. limit - 1 = Len(s)
      BY <1>1, <2>1
    <3> QED
      BY <3>1 DEF Rewritable, Malformed, Closed
  <2>2. CASE limit # Len(s) + 1
    BY <1>2, <1>4, <2>2
  <2> QED
    BY <2>1, <2>2
<1>10. Closed(s, end)
  <2> DEFINE m == (limit - 1) - end
  <2>1. m \in Nat /\ end + m = limit - 1 /\ end + m <= Len(s)
    BY <1>1, <1>5, <1>7
  <2>2. ASSUME NEW k \in 1..m  PROVE s[end + k] = "blank"
    <3>1. end + k \in (end + 1)..(limit - 1)
      BY <1>1, <1>5, <1>7
    <3> QED
      BY <1>8, <3>1
  <2> HIDE DEF m
  <2>3. OpenAfter(s)[end + m] = OpenAfter(s)[end]
    BY <1>7, <2>1, <2>2, BlankRun
  <2> QED
    BY <1>9, <2>1, <2>3 DEF Closed
<1>11. ASSUME NEW k \in (start + 1)..end  PROVE k \notin others
  <2>1. ~(limit <= k) /\ k > start
    BY <1>1, <1>5, <1>7
  <2> QED
    BY <1>4, <2>1
<1>12. ASSUME NEW k \in (end + 1)..Len(s), s[k] # "blank"  PROVE \E h \in Tables(s) : end < h /\ h <= k
  <2>1. limit <= k
    <3>1. k \notin (end + 1)..(limit - 1)
      BY <1>8, <1>12
    <3> QED
      BY <1>1, <1>5, <1>7, <3>1
  <2>2. limit # Len(s) + 1 /\ end < limit
    BY <1>1, <1>5, <1>7, <2>1
  <2>3. limit \in Tables(s)
    BY <1>2, <1>4, <2>2
  <2> QED
    BY <2>1, <2>2, <2>3
<1> QED
  BY <1>7, <1>10, <1>11, <1>12 DEF start, end, others

Before(s) == SubSeq(s, 1, BlockStart(s) - 1)
Own(s) == SubSeq(s, BlockStart(s), BlockEnd(s, BlockStart(s)))
After(s) == SubSeq(s, BlockEnd(s, BlockStart(s)) + 1, Len(s))

LEMMA SubSeqAt ==
  ASSUME NEW s \in Lines, NEW m \in 1..(Len(s) + 1), NEW n \in (m - 1)..Len(s)
  PROVE  /\ SubSeq(s, m, n) \in Lines /\ Len(SubSeq(s, m, n)) = (n - m) + 1
         /\ \A k \in 1..((n - m) + 1) : SubSeq(s, m, n)[k] = s[(m - 1) + k]
<1>1. Len(s) \in Nat /\ \A k \in 1..Len(s) : s[k] \in Line
  BY LinesAre
<1>2. m \in Int /\ n \in Int /\ \A i \in m..n : s[i] \in Line
  BY <1>1
<1> DEFINE r == SubSeq(s, m, n)
<1>3. r \in Lines /\ Len(r) = (IF m <= n THEN n - m + 1 ELSE 0) /\ \A i \in 1..(n - m + 1) : r[i] = s[m + i - 1]
  BY <1>2, SubSeqProperties DEF Lines
<1> HIDE DEF r
<1>4. Len(r) = (n - m) + 1
  BY <1>1, <1>3
<1>5. ASSUME NEW k \in 1..((n - m) + 1)  PROVE r[k] = s[(m - 1) + k]
  <2>1. k \in 1..(n - m + 1) /\ m + k - 1 = (m - 1) + k
    BY <1>1
  <2> QED
    BY <1>3, <2>1
<1> QED
  BY <1>3, <1>4, <1>5 DEF r

\* A text is what comes before the table, the table, and what comes after it.
LEMMA ThreeParts ==
  ASSUME NEW s \in Lines, Rewritable(s), HasBlock(s)
  PROVE  /\ Before(s) \in Lines /\ Own(s) \in Lines /\ After(s) \in Lines
         /\ Len(Before(s)) = BlockStart(s) - 1 /\ Len(Own(s)) = (BlockEnd(s, BlockStart(s)) - BlockStart(s)) + 1
         /\ Len(After(s)) = Len(s) - BlockEnd(s, BlockStart(s))
         /\ s = (Before(s) \o Own(s)) \o After(s)
         /\ ~Malformed(Before(s)) /\ ~Malformed(Own(s)) /\ ~Malformed(Before(s) \o Own(s))
<1> DEFINE start == BlockStart(s)
           end == BlockEnd(s, start)
           b == SubSeq(s, 1, start - 1)
           o == SubSeq(s, start, end)
           a == SubSeq(s, end + 1, Len(s))
           h == b \o o
<1>1. Len(s) \in Nat /\ start \in 1..Len(s) /\ end \in start..Len(s) /\ Closed(s, start - 1) /\ Closed(s, end)
  BY LinesAre, BlockFrom, BlockTo
<1> HIDE DEF start, end
<1>2. b \in Lines /\ Len(b) = start - 1 /\ o \in Lines /\ Len(o) = (end - start) + 1 /\ a \in Lines /\ Len(a) = Len(s) - end
  <2>1. 1 \in 1..(Len(s) + 1) /\ start - 1 \in (1 - 1)..Len(s) /\ start \in 1..(Len(s) + 1) /\ end \in (start - 1)..Len(s)
        /\ end + 1 \in 1..(Len(s) + 1) /\ Len(s) \in ((end + 1) - 1)..Len(s)
    BY <1>1
  <2>2. b \in Lines /\ Len(b) = ((start - 1) - 1) + 1
    BY <2>1, SubSeqAt
  <2>3. o \in Lines /\ Len(o) = (end - start) + 1
    BY <2>1, SubSeqAt
  <2>4. a \in Lines /\ Len(a) = (Len(s) - (end + 1)) + 1
    BY <2>1, SubSeqAt
  <2> HIDE DEF b, o, a
  <2> QED
    BY <1>1, <2>2, <2>3, <2>4
<1>3. h = SubSeq(s, 1, end)
  <2>1. 1 \in 1..Len(s) + 1 /\ start - 1 \in (1 - 1)..Len(s) /\ end \in (start - 1)..Len(s) /\ (start - 1) + 1 = start
    BY <1>1
  <2>2. SubSeq(s, 1, start - 1) \o SubSeq(s, (start - 1) + 1, end) = SubSeq(s, 1, end)
    BY <2>1, ConcatAdjacentSubSeq DEF Lines
  <2> QED
    BY <2>1, <2>2
<1>4. s = h \o a /\ h \in Lines /\ Len(h) = end
  <2>1. end \in 0..Len(s)
    BY <1>1
  <2> QED
    BY <1>3, <2>1, Cut
<1>5. s = b \o SubSeq(s, (start - 1) + 1, Len(s)) /\ SubSeq(s, (start - 1) + 1, Len(s)) \in Lines
  <2> DEFINE m == start - 1
  <2>1. m \in 0..Len(s)
    BY <1>1
  <2> HIDE DEF m
  <2>2. s = SubSeq(s, 1, m) \o SubSeq(s, m + 1, Len(s)) /\ SubSeq(s, m + 1, Len(s)) \in Lines
    BY <2>1, Cut
  <2> QED
    BY <2>2 DEF m
<1> DEFINE r == SubSeq(s, (start - 1) + 1, Len(s))
<1> HIDE DEF b, o, a, h, r
<1>6. ~Malformed(b)
  <2>1. s = b \o r /\ r \in Lines
    BY <1>5 DEF r
  <2>2. Len(b) \in 0..Len(b) /\ Len(b) = start - 1
    BY <1>1, <1>2
  <2>3. OpenAfter(s)[Len(b)] = OpenAfter(b)[Len(b)]
    BY <1>2, <2>1, <2>2, JoinOpens
  <2> QED
    BY <1>1, <2>2, <2>3 DEF Malformed, Closed
<1>7. ~Malformed(h)
  <2>1. Len(h) \in 0..Len(h)
    BY <1>1, <1>4
  <2>2. OpenAfter(s)[Len(h)] = OpenAfter(h)[Len(h)]
    BY <1>2, <1>4, <2>1, JoinOpens
  <2> QED
    BY <1>1, <1>4, <2>2 DEF Malformed, Closed
<1>8. ~Malformed(o)
  BY <1>2, <1>6, <1>7, JoinMalformed DEF h
<1>9. s = (b \o o) \o a /\ ~Malformed(b \o o)
  BY <1>4, <1>7 DEF h
<1>10. b = Before(s) /\ o = Own(s) /\ a = After(s)
  BY DEF b, o, a, start, end, Before, Own, After
<1> QED
  BY <1>2, <1>6, <1>8, <1>9, <1>10 DEF start, end

-----------------------------------------------------------------------------
(* Around its table a text has no other of triss, and says the rest.       *)

LEMMA RefusedNot ==
  ASSUME NEW s \in Lines, Rewritable(s)
  PROVE  ~Malformed(s) /\ ArrayRoots(s) = {} /\ (~HasBlock(s) => Tame(s))
  BY DEF Rewritable, Refused, HasBlock, Tame

\* Nothing before or after the table is in another table of triss.
LEMMA PartsAreTame ==
  ASSUME NEW s \in Lines, Rewritable(s), HasBlock(s)
  PROVE  Tame(Before(s)) /\ Tame(After(s))
<1> DEFINE b == Before(s)
           o == Own(s)
           a == After(s)
           h == b \o o
           start == BlockStart(s)
           end == BlockEnd(s, start)
<1>1. /\ b \in Lines /\ o \in Lines /\ a \in Lines /\ Len(b) = start - 1 /\ Len(o) = (end - start) + 1
      /\ Len(a) = Len(s) - end /\ s = h \o a /\ ~Malformed(b) /\ ~Malformed(o) /\ ~Malformed(h)
  BY ThreeParts
<1>2. Len(s) \in Nat /\ start \in 1..Len(s) /\ end \in start..Len(s) /\ Roots(s) = {start} /\ ArrayRoots(s) = {}
  BY LinesAre, BlockFrom, BlockTo
<1>3. ~Malformed(s)
  BY DEF Rewritable
<1> HIDE DEF b, o, a, start, end
<1>4. h \in Lines /\ Len(h) = end
  <2>1. h \in Lines /\ Len(h) = Len(b) + Len(o)
    BY <1>1, Joined
  <2> HIDE DEF h
  <2> QED
    BY <1>1, <1>2, <2>1
<1>5. /\ \A k \in 1..Len(b) : k \in Roots(h) <=> k \in Roots(b)
      /\ \A k \in 1..Len(h) : k \in Roots(s) <=> k \in Roots(h)
      /\ \A k \in 1..Len(a) : Len(h) + k \in Roots(s) <=> k \in Roots(a)
  <2>1. \A k \in 1..Len(b) : k \in Roots(h) <=> k \in Roots(b)
    BY <1>1, JoinHeaders DEF Roots
  <2> HIDE DEF h
  <2>2. /\ \A k \in 1..Len(h) : k \in Roots(s) <=> k \in Roots(h)
        /\ \A k \in 1..Len(a) : Len(h) + k \in Roots(s) <=> k \in Roots(a)
    BY <1>1, <1>4, JoinHeaders DEF Roots
  <2> QED
    BY <2>1, <2>2
<1> HIDE DEF h
<1>6. ArrayRoots(h) = {} /\ ArrayRoots(a) = {}
  BY <1>1, <1>2, <1>4, NoHeaders DEF ArrayRoots
<1>7. ArrayRoots(b) = {}
  BY <1>1, <1>6, NoHeaders DEF ArrayRoots, h
<1>8. Roots(b) \subseteq 1..Len(b) /\ Roots(a) \subseteq 1..Len(a)
  BY <1>1, HeaderAt DEF Roots
<1>9. Roots(b) = {}
  <2> SUFFICES ASSUME NEW k \in Roots(b) PROVE FALSE
    OBVIOUS
  <2>1. k \in 1..Len(b) /\ k \in 1..Len(h) /\ k # start
    BY <1>1, <1>2, <1>4, <1>8
  <2> QED
    BY <1>2, <1>5, <2>1
<1>10. Roots(a) = {}
  <2> SUFFICES ASSUME NEW k \in Roots(a) PROVE FALSE
    OBVIOUS
  <2>1. k \in 1..Len(a) /\ Len(h) + k # start
    BY <1>1, <1>2, <1>4, <1>8
  <2> QED
    BY <1>2, <1>5, <2>1
<1>11. ~Malformed(a)
  BY <1>1, <1>3, <1>4, JoinMalformed
<1> QED
  BY <1>1, <1>6, <1>7, <1>9, <1>10, <1>11 DEF Tame, b, a

LEMMA AfterIsSettled ==
  ASSUME NEW s \in Lines, Rewritable(s), HasBlock(s)
  PROVE  Settled(After(s))
<1> DEFINE a == After(s)
           h == Before(s) \o Own(s)
           start == BlockStart(s)
           end == BlockEnd(s, start)
<1>1. /\ a \in Lines /\ Len(a) = Len(s) - end /\ s = h \o a /\ ~Malformed(h)
      /\ Before(s) \in Lines /\ Own(s) \in Lines /\ Len(Before(s)) = start - 1 /\ Len(Own(s)) = (end - start) + 1
  BY ThreeParts
<1>2. /\ Len(s) \in Nat /\ start \in 1..Len(s) /\ end \in start..Len(s)
      /\ \A k \in (end + 1)..Len(s) : s[k] = "blank" \/ \E g \in Tables(s) : end < g /\ g <= k
  BY LinesAre, BlockFrom, BlockTo
<1>3. h \in Lines /\ Len(h) = Len(Before(s)) + Len(Own(s))
  BY <1>1, Joined
<1> HIDE DEF a, h, start, end
<1>4. Len(h) = end
  BY <1>1, <1>2, <1>3
<1>5. /\ \A k \in 1..Len(a) : s[end + k] = a[k]
      /\ \A k \in 1..Len(a) : end + k \in Tables(s) <=> k \in Tables(a)
  BY <1>1, <1>3, <1>4, Joined, JoinHeaders DEF Tables
<1>6. SUFFICES ASSUME NEW k \in 1..Len(a), a[k] # "blank"  PROVE \E g \in Tables(a) : g <= k
  BY DEF Settled, a
<1>7. end + k \in (end + 1)..Len(s) /\ s[end + k] # "blank"
  BY <1>1, <1>2, <1>5, <1>6
<1>8. PICK g \in Tables(s) : end < g /\ g <= end + k
  BY <1>2, <1>7
<1>9. g \in 1..Len(s)
  BY TablesAre
<1>10. g - end \in 1..Len(a) /\ g = end + (g - end) /\ g - end <= k
  BY <1>1, <1>2, <1>8, <1>9
<1>11. g - end \in Tables(a)
  BY <1>5, <1>8, <1>10
<1> QED
  BY <1>10, <1>11

\* The table itself holds no line of another.
LEMMA OwnIsNotForeign ==
  ASSUME NEW s \in Lines, Rewritable(s), HasBlock(s)
  PROVE  Settled(Own(s)) /\ Foreign(Own(s)) = <<>>
<1> DEFINE b == Before(s)
           o == Own(s)
           h == b \o o
           start == BlockStart(s)
           end == BlockEnd(s, start)
<1>1. /\ b \in Lines /\ o \in Lines /\ After(s) \in Lines /\ Len(b) = start - 1 /\ Len(o) = (end - start) + 1
      /\ s = h \o After(s) /\ ~Malformed(b) /\ ~Malformed(o) /\ ~Malformed(h)
  BY ThreeParts
<1>2. /\ Len(s) \in Nat /\ start \in 1..Len(s) /\ end \in start..Len(s) /\ Roots(s) = {start}
      /\ \A k \in (start + 1)..end : k \notin HeadersIn(s, Header \ Section)
  BY LinesAre, BlockFrom, BlockTo
<1>3. h \in Lines /\ Len(h) = Len(b) + Len(o)
  BY <1>1, Joined
<1> HIDE DEF b, o, h, start, end
<1>4. Len(h) = end
  BY <1>1, <1>2, <1>3
<1>5. ASSUME NEW K, NEW k \in 1..Len(o)  PROVE (start - 1) + k \in HeadersIn(s, K) <=> k \in HeadersIn(o, K)
  <2>1. (start - 1) + k \in 1..Len(h)
    BY <1>1, <1>2, <1>4
  <2>2. (start - 1) + k \in HeadersIn(s, K) <=> (start - 1) + k \in HeadersIn(h, K)
    <3> DEFINE p == (start - 1) + k
               a == After(s)
    <3>1. p \in 1..Len(h) /\ a \in Lines /\ s = h \o a
      BY <1>1, <2>1
    <3> HIDE DEF p, a
    <3>2. \A j \in 1..Len(h) : j \in HeadersIn(h \o a, K) <=> j \in HeadersIn(h, K)
      BY <1>1, <1>3, <3>1, JoinHeaders
    <3>3. p \in HeadersIn(s, K) <=> p \in HeadersIn(h, K)
      BY <3>1, <3>2
    <3> QED
      BY <3>3 DEF p
  <2>3. (start - 1) + k \in HeadersIn(h, K) <=> k \in HeadersIn(o, K)
    BY <1>1, JoinHeaders DEF h
  <2> QED
    BY <2>2, <2>3
<1>6. 1 \in 1..Len(o) /\ 1 \in OwnTables(o)
  <2>1. 1 \in 1..Len(o) /\ (start - 1) + 1 = start
    BY <1>1, <1>2
  <2>2. start \in HeadersIn(s, Root)
    BY <1>2 DEF Roots
  <2>3. 1 \in HeadersIn(o, Root)
    BY <1>5, <2>1, <2>2
  <2> QED
    BY <1>1, <2>1, <2>3, HeaderAt DEF OwnTables
<1>7. ASSUME NEW k \in Tables(o)  PROVE k \in OwnTables(o)
  <2>1. k \in 1..Len(o)
    BY <1>1, TablesAre
  <2>2. CASE k = 1
    BY <1>6, <2>2
  <2>3. CASE k # 1
    <3>1. (start - 1) + k \in (start + 1)..end
      BY <1>1, <1>2, <2>1, <2>3
    <3>2. k \notin HeadersIn(o, Header \ Section)
      BY <1>2, <1>5, <2>1, <3>1
    <3>3. o[k] \in Section
      BY <1>1, <1>7, <3>2, HeaderAt DEF Tables
    <3> QED
      BY <1>1, <1>7, <3>3, HeaderAt DEF Tables, OwnTables
  <2> QED
    BY <2>2, <2>3
<1>8. Settled(o)
  BY <1>1, <1>6, TablesAre, HeadSettles
<1>9. ASSUME NEW k \in 1..Len(o)  PROVE ~IsForeign(o, k)
  <2> DEFINE S == {j \in Tables(o) : j <= k}
  <2>1. S \subseteq 1..Len(o) /\ 1 \in S /\ Len(o) \in Nat
    BY <1>1, <1>6, TablesAre, LinesAre
  <2>2. PICK f \in S : \A j \in S : j <= f
    <3> HIDE DEF S
    <3> QED
      BY <2>1, SomeLast
  <2>3. f \in OwnTables(o) /\ f <= k /\ \A j \in Tables(o) : j <= k => j <= f
    BY <1>7, <2>2
  <2> QED
    BY <1>1, <2>3, ForeignAt
<1> DEFINE K == {k \in DOMAIN o : IsForeign(o, k)}
<1>10. \A k \in 1..Len(o) : k \notin K
  BY <1>9
<1> HIDE DEF K
<1>11. Picked(o, K) = <<>>
  BY <1>1, <1>10, PickedNone
<1> QED
  BY <1>8, <1>11 DEF Foreign, K, o

LEMMA ForeignIsAround ==
  ASSUME NEW s \in Lines, Rewritable(s), HasBlock(s)
  PROVE  Foreign(s) = Foreign(Before(s)) \o Foreign(After(s))
<1> DEFINE b == Before(s)
           o == Own(s)
           a == After(s)
<1>1. /\ b \in Lines /\ o \in Lines /\ a \in Lines
      /\ s = (b \o o) \o a /\ ~Malformed(b) /\ ~Malformed(b \o o)
  BY ThreeParts
<1>2. Settled(o) /\ Foreign(o) = <<>> /\ Settled(a)
  BY OwnIsNotForeign, AfterIsSettled
<1> HIDE DEF b, o, a
<1>3. Foreign(b \o o) = Foreign(b) \o <<>>
  BY <1>1, <1>2, ForeignJoin
<1>4. Foreign(b \o o) = Foreign(b)
  BY <1>1, <1>3, PartsStay, JoinEmpty
<1>5. b \o o \in Lines
  BY <1>1, Joined
<1> DEFINE h == b \o o
<1> HIDE DEF h
<1>6. Foreign(h \o a) = Foreign(h) \o Foreign(a)
  BY <1>1, <1>2, <1>5, ForeignJoin DEF h
<1> QED
  BY <1>1, <1>4, <1>6 DEF h, b, a

-----------------------------------------------------------------------------
(* The text an uninstallation leaves.                                      *)

\* What stays of the text before the table: one blank line before it goes too.
From(s) == IF BlockStart(s) > 1 /\ s[BlockStart(s) - 1] = "blank" THEN BlockStart(s) - 1 ELSE BlockStart(s)
Lead(s) == SubSeq(s, 1, From(s) - 1)
Gap(t) == IF t[1] = "blank" THEN Blank ELSE <<>>

LEMMA StrippedBy ==
  ASSUME NEW s, HasBlock(s)
  PROVE  Stripped(s) = IF Lead(s) \in {<<>>, Blank} THEN NoLeadingBlanks(After(s))
                       ELSE IF IsBlank(After(s)) THEN Unended(Lead(s)) \o Blank
                       ELSE Unended(Lead(s)) \o Gap(After(s)) \o NoLeadingBlanks(After(s))
  BY DEF Stripped, Lead, From, After, Gap

LEMMA LeadKeeps ==
  ASSUME NEW s \in Lines, Rewritable(s), HasBlock(s)
  PROVE  Lead(s) \in Lines /\ Tame(Lead(s)) /\ SaysTheSame(Lead(s), Before(s))
<1> DEFINE start == BlockStart(s)
           b == Before(s)
<1>1. Len(s) \in Nat /\ start \in 1..Len(s) /\ b \in Lines /\ Len(b) = start - 1 /\ Tame(b)
  BY LinesAre, BlockFrom, ThreeParts, PartsAreTame
<1>2. b = SubSeq(s, 1, start - 1)
  BY DEF Before
<1> HIDE DEF start, b
<1>3. CASE start > 1 /\ s[start - 1] = "blank"
  <2> DEFINE m == start - 2
             l == SubSeq(s, 1, m)
  <2>1. m \in 0..Len(s) /\ m + 1 = start - 1 /\ (start - 1) - 1 = m /\ start - 1 \in 1..Len(s)
    BY <1>1, <1>3
  <2>2. l \in Lines /\ Len(l) = m /\ \A k \in 1..m : l[k] = s[k]
    <3> HIDE DEF m
    <3> QED
      BY <2>1, Cut
  <2>3. Lead(s) = l
    BY <1>3, <2>1 DEF Lead, From, start
  <2>4. \A k \in 1..(start - 1) : b[k] = s[k]
    <3> DEFINE n == start - 1
    <3>1. n \in 0..Len(s)
      BY <1>1
    <3> HIDE DEF n
    <3>2. \A k \in 1..n : SubSeq(s, 1, n)[k] = s[k]
      BY <3>1, Cut
    <3> QED
      BY <1>2, <3>2 DEF n
  <2> HIDE DEF l, m
  <2>5. l \o Blank \in Lines /\ Len(l \o Blank) = m + 1 /\ (l \o Blank)[m + 1] = "blank" /\ \A k \in 1..m : (l \o Blank)[k] = l[k]
    BY <2>2, BlankAdds, BlankLine, Joined
  <2>6. b = l \o Blank
    <3> DEFINE u == l \o Blank
    <3> HIDE DEF u
    <3>1. Len(b) = Len(u) /\ u \in Lines
      BY <1>1, <2>1, <2>5 DEF u
    <3>2. ASSUME NEW k \in 1..Len(b)  PROVE b[k] = u[k]
      <4>1. k \in 1..m \/ k = m + 1
        BY <1>1, <2>1
      <4>2. b[k] = s[k]
        BY <1>1, <2>4
      <4>3. CASE k \in 1..m
        BY <2>2, <2>5, <4>2, <4>3 DEF u
      <4>4. CASE k = m + 1
        BY <1>3, <2>1, <2>5, <4>2, <4>4 DEF u
      <4> QED
        BY <4>1, <4>3, <4>4
    <3>3. b = u
      BY <1>1, <3>1, <3>2, SeqEqual DEF Lines
    <3> QED
      BY <3>3 DEF u
  <2>7. ~Malformed(l)
    BY <1>1, <2>2, <2>6, BlankAdds DEF Tame
  <2>8. Tame(l) /\ SaysTheSame(l, b)
    BY <1>1, <2>2, <2>6, <2>7, BlankAdds DEF SaysTheSame
  <2> QED
    BY <2>2, <2>3, <2>8 DEF b
<1>4. CASE ~(start > 1 /\ s[start - 1] = "blank")
  <2>1. Lead(s) = b
    BY <1>2, <1>4 DEF Lead, From, start
  <2> QED
    BY <1>1, <2>1 DEF SaysTheSame, b
<1> QED
  BY <1>3, <1>4

LEMMA TameJoins ==
  ASSUME NEW b \in Lines, NEW n \in Lines, Tame(b), Tame(n), Settled(n)
  PROVE  /\ b \o n \in Lines /\ Tame(b \o n) /\ Foreign(b \o n) = Foreign(b) \o Foreign(n)
         /\ Inked(b \o n) = Inked(b) \o Inked(n)
<1>1. ~Malformed(b)
  BY DEF Tame
<1> QED
  BY <1>1, Joined, TameParts, ForeignJoin, InkedJoin

LEMMA NonEmptyJoin == ASSUME NEW b \in Lines, NEW n \in Lines, n # <<>> PROVE b \o n # <<>>
  BY ConcatEqualIffEmpty DEF Lines

(* Without its table a text keeps every line of the others, and has none   *)
(* of triss.                                                               *)
LEMMA StrippedKeeps ==
  ASSUME NEW s \in Lines, Rewritable(s), HasBlock(s)
  PROVE  /\ Stripped(s) \in Lines /\ Stripped(s) # <<>> /\ Tame(Stripped(s)) /\ Foreign(Stripped(s)) = Foreign(s)
         /\ Inked(Stripped(s)) = Inked(Before(s)) \o Inked(After(s))
<1> DEFINE b == Before(s)
           a == After(s)
           l == Lead(s)
           n == NoLeadingBlanks(a)
           r == Stripped(s)
<1>1. l \in Lines /\ Tame(l) /\ SaysTheSame(l, b)
  BY LeadKeeps
<1>2. a \in Lines /\ b \in Lines /\ Tame(a) /\ Settled(a) /\ Foreign(s) = Foreign(b) \o Foreign(a)
  BY ThreeParts, PartsAreTame, AfterIsSettled, ForeignIsAround
<1>3. r = IF l \in {<<>>, Blank} THEN n
          ELSE IF IsBlank(a) THEN Unended(l) \o Blank ELSE Unended(l) \o Gap(a) \o n
  BY StrippedBy
<1> HIDE DEF b, a, l, r
<1>4. n \in Lines /\ n # <<>> /\ Tame(n) /\ Settled(n) /\ SaysTheSame(n, a)
  BY <1>2, LeadingKeeps
<1> HIDE DEF n
<1>5. Foreign(b) \in Lines /\ Inked(b) \in Lines /\ Foreign(a) \in Lines /\ Inked(a) \in Lines
  BY <1>2, PartsStay
<1>6. CASE l \in {<<>>, Blank}
  <2>1. Foreign(l) = <<>> /\ Inked(l) = <<>>
    <3>1. IsBlank(l)
      BY <1>6, BlankLine DEF IsBlank
    <3> QED
      BY <1>1, <3>1, Blanks
  <2>2. Foreign(s) = Foreign(n) /\ Inked(b) \o Inked(a) = Inked(n)
    BY <1>1, <1>2, <1>4, <1>5, <2>1, JoinEmpty DEF SaysTheSame
  <2>3. r = n
    BY <1>3, <1>6
  <2> QED
    BY <1>4, <2>2, <2>3 DEF r, b, a
<1>7. CASE l \notin {<<>>, Blank}
  <2> DEFINE u == Unended(l)
  <2>1. u \in Lines /\ Tame(u) /\ SaysTheSame(u, b)
    <3>1. l # <<>> /\ ~Malformed(l)
      BY <1>1, <1>7 DEF Tame
    <3> QED
      BY <1>1, <3>1, UnendedKeeps DEF SaysTheSame
  <2> HIDE DEF u
  <2>2. ~Malformed(u)
    BY <2>1 DEF Tame
  <2>3. CASE IsBlank(a)
    <3>1. Foreign(a) = <<>> /\ Inked(a) = <<>>
      BY <1>2, <2>3, Blanks
    <3>2. Foreign(s) = Foreign(b) /\ Inked(b) \o Inked(a) = Inked(b)
      BY <1>2, <1>5, <3>1, JoinEmpty
    <3>3. r = u \o Blank
      BY <1>3, <1>7, <2>3 DEF u
    <3>4. r \in Lines /\ Tame(r) /\ SaysTheSame(r, u)
      BY <2>1, <2>2, <3>3, BlankAdds
    <3>5. r # <<>>
      <4>1. Blank # <<>>
        BY DEF Blank
      <4> QED
        BY <2>1, <3>3, <4>1, BlankLine, NonEmptyJoin
    <3> QED
      BY <2>1, <3>2, <3>4, <3>5 DEF SaysTheSame, r, b, a
  <2>4. CASE ~IsBlank(a)
    <3> DEFINE x == u \o Gap(a)
    <3>1. x \in Lines /\ Tame(x) /\ SaysTheSame(x, u)
      <4>1. CASE Gap(a) = Blank
        BY <2>1, <2>2, <4>1, BlankAdds
      <4>2. CASE Gap(a) = <<>>
        <5>1. x = u
          BY <2>1, <4>2, JoinEmpty
        <5> QED
          BY <2>1, <5>1 DEF SaysTheSame
      <4> QED
        BY <4>1, <4>2 DEF Gap
    <3>2. r = x \o n
      BY <1>3, <1>7, <2>4 DEF u
    <3> HIDE DEF x
    <3>3. r \in Lines /\ Tame(r) /\ Foreign(r) = Foreign(x) \o Foreign(n) /\ Inked(r) = Inked(x) \o Inked(n)
      BY <1>4, <3>1, <3>2, TameJoins
    <3>4. r # <<>>
      BY <1>4, <3>1, <3>2, NonEmptyJoin
    <3>5. Foreign(x) = Foreign(b) /\ Inked(x) = Inked(b) /\ Foreign(n) = Foreign(a) /\ Inked(n) = Inked(a)
      BY <1>4, <2>1, <3>1 DEF SaysTheSame
    <3>6. Foreign(r) = Foreign(s) /\ Inked(r) = Inked(b) \o Inked(a)
      BY <1>2, <3>3, <3>5
    <3> QED
      BY <3>3, <3>4, <3>6 DEF r, b, a
  <2> QED
    BY <2>3, <2>4
<1> QED
  BY <1>6, <1>7

-----------------------------------------------------------------------------
(* The text an installation writes: the table itself.                      *)

LEMMA RenderedIs ==
  ASSUME NEW env
  PROVE  LET r == Rendered(env) IN
         /\ r \in Lines /\ r[1] = "root" /\ r[2] = "key" /\ r[3] = "timeout" /\ r[4] = "blank"
         /\ Len(r) = 4 \/ (Len(r) = 7 /\ r[5] = "section" /\ r[6] = "key" /\ r[7] = "blank")
<1> DEFINE x == <<"root", "key", "timeout">>
           y == IF env THEN <<"blank", "section", "key">> ELSE <<>>
<1>1. x \in Lines /\ Len(x) = 3 /\ x[1] = "root" /\ x[2] = "key" /\ x[3] = "timeout"
  BY DEF Lines, Line, Header, Root
<1>2. <<"blank", "section", "key">> \in Lines
  BY DEF Lines, Line, Header, Section
<1>3. y \in Lines /\ (Len(y) = 0 \/ (Len(y) = 3 /\ y[1] = "blank" /\ y[2] = "section" /\ y[3] = "key"))
  <2>1. CASE env
    BY <1>2, <2>1
  <2>2. CASE ~env
    BY <2>2, EmptySeq DEF Lines
  <2> QED
    BY <2>1, <2>2
<1>4. Rendered(env) = (x \o y) \o Blank
  BY DEF Rendered
<1> DEFINE z == x \o y
<1> HIDE DEF x, y
<1>5. z \in Lines /\ Len(z) = 3 + Len(y) /\ (\A k \in 1..3 : z[k] = x[k]) /\ \A k \in 1..Len(y) : z[3 + k] = y[k]
  <2>1. z \in Lines /\ Len(z) = Len(x) + Len(y) /\ (\A k \in 1..Len(x) : z[k] = x[k]) /\ \A k \in 1..Len(y) : z[Len(x) + k] = y[k]
    BY <1>1, <1>3, Joined
  <2> HIDE DEF z
  <2> QED
    BY <1>1, <2>1
<1>6. Rendered(env) = z \o Blank
  BY <1>4
<1> HIDE DEF z
<1>7. /\ z \o Blank \in Lines /\ Len(z \o Blank) = Len(z) + 1 /\ (z \o Blank)[Len(z) + 1] = "blank"
      /\ \A k \in 1..Len(z) : (z \o Blank)[k] = z[k]
  BY <1>5, BlankAdds, BlankLine, Joined
<1> DEFINE r == z \o Blank
<1> HIDE DEF r
<1>8. /\ r \in Lines /\ Len(r) = Len(z) + 1 /\ r[Len(z) + 1] = "blank" /\ \A k \in 1..Len(z) : r[k] = z[k]
  BY <1>7 DEF r
<1>9. r = Rendered(env)
  BY <1>6 DEF r
<1>10. z[1] = "root" /\ z[2] = "key" /\ z[3] = "timeout"
  BY <1>1, <1>5
<1>11. CASE Len(y) = 0
  <2>1. Len(z) = 3 /\ Len(r) = 4
    BY <1>5, <1>8, <1>11
  <2>2. r[1] = z[1] /\ r[2] = z[2] /\ r[3] = z[3] /\ r[4] = "blank"
    BY <1>8, <2>1
  <2> QED
    BY <1>8, <1>9, <1>10, <2>1, <2>2
<1>12. CASE Len(y) = 3 /\ y[1] = "blank" /\ y[2] = "section" /\ y[3] = "key"
  <2>1. Len(z) = 6 /\ Len(r) = 7
    BY <1>5, <1>8, <1>12
  <2>2. r[1] = z[1] /\ r[2] = z[2] /\ r[3] = z[3] /\ r[4] = z[4] /\ r[5] = z[5] /\ r[6] = z[6] /\ r[7] = "blank"
    BY <1>8, <2>1
  <2>3. z[4] = y[1] /\ z[5] = y[2] /\ z[6] = y[3]
    BY <1>5, <1>12
  <2> QED
    BY <1>8, <1>9, <1>10, <1>12, <2>1, <2>2, <2>3
<1> QED
  BY <1>3, <1>11, <1>12

LEMMA RenderedHeaders ==
  ASSUME NEW env
  PROVE  LET r == Rendered(env) IN
         /\ Plain(r) /\ ~Malformed(r) /\ (\A k \in 1..Len(r) : r[k] # "pin")
         /\ Roots(r) = {1} /\ ArrayRoots(r) = {} /\ HeadersIn(r, Header \ Section) = {1}
         /\ Tables(r) = {1} \cup (IF Len(r) = 7 THEN {5} ELSE {}) /\ OwnTables(r) = Tables(r)
<1> DEFINE r == Rendered(env)
<1>1. /\ r \in Lines /\ r[1] = "root" /\ r[2] = "key" /\ r[3] = "timeout" /\ r[4] = "blank"
      /\ Len(r) = 4 \/ (Len(r) = 7 /\ r[5] = "section" /\ r[6] = "key" /\ r[7] = "blank")
  BY RenderedIs
<1> HIDE DEF r
<1>2. ASSUME NEW k \in 1..Len(r)
      PROVE  \/ k = 1 /\ r[k] = "root"
             \/ k = 5 /\ Len(r) = 7 /\ r[k] = "section"
             \/ k # 1 /\ k # 5 /\ r[k] \in {"key", "timeout", "blank"}
  <2>1. Len(r) = 4 \/ Len(r) = 7
    BY <1>1
  <2>2. k = 1 \/ k = 2 \/ k = 3 \/ k = 4 \/ (Len(r) = 7 /\ (k = 5 \/ k = 6 \/ k = 7))
    <3>1. ASSUME Len(r) = 4  PROVE k = 1 \/ k = 2 \/ k = 3 \/ k = 4
      <4>1. k \in 1..4
        BY <3>1
      <4> QED
        BY <4>1
    <3>2. ASSUME Len(r) = 7  PROVE k = 1 \/ k = 2 \/ k = 3 \/ k = 4 \/ k = 5 \/ k = 6 \/ k = 7
      <4>1. k \in 1..7
        BY <3>2
      <4> QED
        BY <4>1
    <3> QED
      BY <2>1, <3>1, <3>2
  <2> QED
    BY <1>1, <2>2
<1>3. \A k \in 1..Len(r) : r[k] \notin {"quotes", "[", "]", "broken", "pin"}
  BY <1>2
<1>4. Plain(r)
  BY <1>3 DEF Plain
<1>5. ~Malformed(r) /\ \A k \in 1..Len(r) : r[k] # "pin"
  BY <1>1, <1>3, <1>4, PlainOpens
<1>6. 1 \in 1..Len(r) /\ (Len(r) = 7 => 5 \in 1..Len(r))
  BY <1>1
<1>7. "root" \in Root /\ "root" \in Header /\ "section" \in Section /\ "section" \in Header /\ "section" \notin Root /\ "root" \notin Section
      /\ "key" \notin Header /\ "timeout" \notin Header /\ "blank" \notin Header /\ Root \subseteq Header /\ Section \subseteq Header
      /\ "array root" \in Header
  BY DEF Root, Section, Header
<1>8. ASSUME NEW K  PROVE \A k : k \in HeadersIn(r, K) <=> k \in 1..Len(r) /\ r[k] \in K
  BY <1>1, <1>4, PlainHeaders
<1>9. ASSUME NEW K, K \subseteq Header, "root" \in K, "section" \notin K  PROVE HeadersIn(r, K) = {1}
  <2>1. \A k : k \in HeadersIn(r, K) <=> k \in 1..Len(r) /\ r[k] \in K
    BY <1>8
  <2>2. 1 \in HeadersIn(r, K)
    BY <1>1, <1>6, <1>9, <2>1
  <2>3. ASSUME NEW k \in HeadersIn(r, K)  PROVE k = 1
    BY <1>2, <1>7, <1>9, <2>1, <2>3
  <2> QED
    BY <2>2, <2>3
<1>10. ASSUME NEW K, K \subseteq Header, "root" \in K, "section" \in K
       PROVE  HeadersIn(r, K) = {1} \cup (IF Len(r) = 7 THEN {5} ELSE {})
  <2>1. \A k : k \in HeadersIn(r, K) <=> k \in 1..Len(r) /\ r[k] \in K
    BY <1>8
  <2>2. 1 \in HeadersIn(r, K) /\ (Len(r) = 7 => 5 \in HeadersIn(r, K))
    BY <1>1, <1>6, <1>10, <2>1
  <2>3. ASSUME NEW k \in HeadersIn(r, K)  PROVE k = 1 \/ (k = 5 /\ Len(r) = 7)
    BY <1>2, <1>7, <1>10, <2>1, <2>3
  <2> QED
    BY <2>2, <2>3
<1>11. HeadersIn(r, {"array root"}) = {}
  <2>1. \A k \in 1..Len(r) : r[k] # "array root"
    BY <1>2
  <2> DEFINE K == {"array root"}
  <2>2. \A k \in 1..Len(r) : r[k] \notin K
    BY <2>1
  <2> HIDE DEF K
  <2>3. \A k : k \in HeadersIn(r, K) <=> k \in 1..Len(r) /\ r[k] \in K
    BY <1>8
  <2>4. HeadersIn(r, K) = {}
    BY <2>2, <2>3
  <2> QED
    BY <2>4 DEF K
<1>12. Roots(r) = {1} /\ HeadersIn(r, Header \ Section) = {1}
  BY <1>7, <1>9 DEF Roots
<1>13. Tables(r) = {1} \cup (IF Len(r) = 7 THEN {5} ELSE {}) /\ OwnTables(r) = {1} \cup (IF Len(r) = 7 THEN {5} ELSE {})
  BY <1>7, <1>10 DEF Tables, OwnTables
<1> QED
  BY <1>4, <1>5, <1>11, <1>12, <1>13 DEF ArrayRoots, r

LEMMA RenderedIsOwn ==
  ASSUME NEW env
  PROVE  Settled(Rendered(env)) /\ Foreign(Rendered(env)) = <<>>
<1> DEFINE r == Rendered(env)
<1>1. r \in Lines /\ Len(r) \in Nat
  BY RenderedIs, LinesAre
<1>2. Tables(r) = {1} \cup (IF Len(r) = 7 THEN {5} ELSE {}) /\ OwnTables(r) = Tables(r)
  BY RenderedHeaders
<1> HIDE DEF r
<1>3. Settled(r)
  BY <1>1, <1>2, HeadSettles
<1>4. ASSUME NEW k \in 1..Len(r)  PROVE ~IsForeign(r, k)
  <2>1. \E h \in OwnTables(r) : h <= k /\ \A j \in Tables(r) : j <= k => j <= h
    <3>1. CASE Len(r) = 7 /\ 5 <= k
      BY <1>1, <1>2, <3>1
    <3>2. CASE ~(Len(r) = 7 /\ 5 <= k)
      BY <1>1, <1>2, <3>2
    <3> QED
      BY <3>1, <3>2
  <2> QED
    BY <1>1, <2>1, ForeignAt
<1> DEFINE K == {k \in DOMAIN r : IsForeign(r, k)}
<1>5. \A k \in 1..Len(r) : k \notin K
  BY <1>4
<1> HIDE DEF K
<1>6. Picked(r, K) = <<>>
  BY <1>1, <1>5, PickedNone
<1> QED
  BY <1>3, <1>6 DEF Foreign, K, r

\* What an install writes is what it keeps, and the table.
LEMMA WithBlockIs ==
  ASSUME NEW s \in Lines, s # <<>>, Rewritable(s), NEW env
  PROVE  \E pre \in Lines : /\ WithBlock(s, env) = pre \o Rendered(env) /\ Tame(pre)
                            /\ Foreign(pre) = Foreign(s) /\ Inked(pre) = Inked(Stripped(s))
<1> DEFINE rest == Stripped(s)
           body == Unended(rest)
<1>1. rest \in Lines /\ rest # <<>> /\ Tame(rest) /\ Foreign(rest) = Foreign(s)
  <2>1. CASE HasBlock(s)
    BY <2>1, StrippedKeeps
  <2>2. CASE ~HasBlock(s)
    BY <2>2, RefusedNot DEF Stripped
  <2> QED
    BY <2>1, <2>2
<1>2. WithBlock(s, env) = IF IsBlank(rest) THEN Rendered(env)
                          ELSE body \o (IF Last(body) = "blank" THEN <<>> ELSE Blank) \o Rendered(env)
  BY DEF WithBlock
<1>3. body \in Lines /\ Tame(body) /\ SaysTheSame(body, rest)
  <2>1. ~Malformed(rest)
    BY <1>1 DEF Tame
  <2> HIDE DEF rest
  <2> QED
    BY <1>1, <2>1, UnendedKeeps
<1> HIDE DEF body, rest
<1>4. Rendered(env) \in Lines
  BY RenderedIs
<1>5. CASE IsBlank(rest)
  <2>1. Foreign(rest) = <<>> /\ Inked(rest) = <<>>
    BY <1>1, <1>5, Blanks
  <2>2. <<>> \in Lines /\ WithBlock(s, env) = <<>> \o Rendered(env)
    BY <1>2, <1>4, <1>5, JoinEmpty
  <2>3. IsBlank(<<>>)
    BY DEF IsBlank
  <2>4. Tame(<<>>) /\ Foreign(<<>>) = <<>> /\ Inked(<<>>) = <<>>
    BY <2>2, <2>3, Blanks
  <2> QED
    BY <1>1, <2>1, <2>2, <2>4 DEF rest
<1>6. CASE ~IsBlank(rest)
  <2> DEFINE pre == body \o (IF Last(body) = "blank" THEN <<>> ELSE Blank)
  <2>1. WithBlock(s, env) = pre \o Rendered(env)
    BY <1>2, <1>6
  <2>2. pre \in Lines /\ Tame(pre) /\ SaysTheSame(pre, body)
    <3>1. CASE Last(body) = "blank"
      <4>1. pre = body
        BY <1>3, <3>1, JoinEmpty
      <4> QED
        BY <1>3, <4>1 DEF SaysTheSame
    <3>2. CASE Last(body) # "blank"
      <4>1. pre = body \o Blank /\ ~Malformed(body)
        BY <1>3, <3>2 DEF Tame
      <4> QED
        BY <1>3, <4>1, BlankAdds
    <3> QED
      BY <3>1, <3>2
  <2> HIDE DEF pre
  <2>3. Foreign(pre) = Foreign(s) /\ Inked(pre) = Inked(rest)
    BY <1>1, <1>3, <2>2 DEF SaysTheSame
  <2> QED
    BY <2>1, <2>2, <2>3 DEF rest
<1> QED
  BY <1>5, <1>6

-----------------------------------------------------------------------------
(* The table at the end of a text that had none.                           *)

\* What is true of a text that ends in the table an install writes.
LEMMA NewTable ==
  ASSUME NEW pre \in Lines, Tame(pre), NEW env
  PROVE  LET r == Rendered(env)
             u == pre \o r
             start == Len(pre) + 1
         IN /\ u \in Lines /\ u # <<>> /\ ~Malformed(u) /\ Len(u) = Len(pre) + Len(r) /\ ArrayRoots(u) = {}
            /\ Roots(u) = {start} /\ BlockStart(u) = start
            /\ \A k \in 1..Len(r) : u[Len(pre) + k] = r[k] /\ OpenAfter(u)[(Len(pre) + k) - 1] = <<>>
            /\ \A k : k > Len(pre) /\ k \in HeadersIn(u, Header \ Section) => k = start
            /\ \A k : k > Len(pre) /\ k \in Tables(u) => k = start \/ k = Len(pre) + 5
            /\ Len(r) = 7 => Len(pre) + 5 \in Tables(u)
            /\ Foreign(u) = Foreign(pre) /\ Inked(u) = Inked(pre) \o Inked(r)
<1> DEFINE r == Rendered(env)
           u == pre \o r
           m == Len(pre)
<1>0. m \in Nat /\ ~Malformed(pre) /\ Roots(pre) = {} /\ ArrayRoots(pre) = {}
  BY LinesAre DEF Tame
<1>1. /\ r \in Lines /\ Len(r) \in Nat /\ Len(r) \in {4, 7} /\ Plain(r) /\ ~Malformed(r) /\ Roots(r) = {1} /\ ArrayRoots(r) = {}
      /\ HeadersIn(r, Header \ Section) = {1} /\ Tables(r) = {1} \cup (IF Len(r) = 7 THEN {5} ELSE {})
      /\ Settled(r) /\ Foreign(r) = <<>>
  BY RenderedIs, RenderedHeaders, RenderedIsOwn, LinesAre
<1> HIDE DEF r
<1>2. u \in Lines /\ Len(u) = m + Len(r) /\ \A k \in 1..Len(r) : u[m + k] = r[k]
  BY <1>1, Joined
<1>3. ~Malformed(u) /\ ArrayRoots(u) = {}
  BY <1>0, <1>1, JoinMalformed, NoHeaders DEF ArrayRoots
<1>4. \A k \in 0..Len(r) : OpenAfter(u)[m + k] = OpenAfter(r)[k]
  BY <1>0, <1>1, JoinOpens
<1>5. ASSUME NEW K  PROVE /\ \A k \in 1..m : k \in HeadersIn(u, K) <=> k \in HeadersIn(pre, K)
                          /\ \A k \in 1..Len(r) : m + k \in HeadersIn(u, K) <=> k \in HeadersIn(r, K)
                          /\ HeadersIn(u, K) \subseteq 1..(m + Len(r)) /\ HeadersIn(pre, K) \subseteq 1..m
  <2>1. /\ \A k \in 1..m : k \in HeadersIn(u, K) <=> k \in HeadersIn(pre, K)
        /\ \A k \in 1..Len(r) : m + k \in HeadersIn(u, K) <=> k \in HeadersIn(r, K)
    BY <1>0, <1>1, JoinHeaders
  <2> HIDE DEF u
  <2>2. HeadersIn(u, K) \subseteq 1..(m + Len(r)) /\ HeadersIn(pre, K) \subseteq 1..m
    BY <1>2, HeaderAt
  <2> QED
    BY <2>1, <2>2
<1>6. Foreign(u) = Foreign(pre)
  <2>1. Foreign(u) = Foreign(pre) \o <<>>
    BY <1>0, <1>1, ForeignJoin
  <2> QED
    BY <2>1, PartsStay, JoinEmpty
<1>7. Inked(u) = Inked(pre) \o Inked(r)
  BY <1>1, InkedJoin
<1> HIDE DEF u, m
<1>8. ASSUME NEW k, NEW K, k \in HeadersIn(u, K)
      PROVE  k \in HeadersIn(pre, K) \/ (k - m \in HeadersIn(r, K) /\ k = m + (k - m) /\ k \in Nat)
  <2>1. k \in 1..(m + Len(r)) /\ (k \in 1..m \/ (k - m \in 1..Len(r) /\ k = m + (k - m)))
    <3>1. k \in 1..(m + Len(r))
      BY <1>5, <1>8
    <3> QED
      BY <1>0, <1>1, <3>1, Sides
  <2>2. CASE k \in 1..m
    BY <1>5, <1>8, <2>2
  <2>3. CASE k - m \in 1..Len(r) /\ k = m + (k - m)
    BY <1>5, <1>8, <2>1, <2>3
  <2> QED
    BY <2>1, <2>2, <2>3
<1>9. 1 \in 1..Len(r) /\ (Len(r) = 7 => 5 \in 1..Len(r))
  BY <1>1
<1>10. Roots(u) = {m + 1}
  <2>1. m + 1 \in HeadersIn(u, Root)
    BY <1>1, <1>5, <1>9 DEF Roots
  <2>2. ASSUME NEW k \in HeadersIn(u, Root)  PROVE k = m + 1
    <3>1. k - m \in HeadersIn(r, Root) /\ k = m + (k - m) /\ k \in Nat
      BY <1>0, <1>8 DEF Roots
    <3>2. k - m = 1
      BY <1>1, <3>1 DEF Roots
    <3> QED
      BY <3>1, <3>2
  <2> QED
    BY <2>1, <2>2 DEF Roots
<1>11. BlockStart(u) = m + 1
  <2>1. Roots(u) \subseteq Nat /\ m + 1 \in Roots(u) /\ \A k \in Roots(u) : m + 1 <= k
    BY <1>0, <1>10
  <2> QED
    BY <2>1, LeastIs DEF BlockStart
<1>12. ASSUME NEW k, k > m, k \in HeadersIn(u, Header \ Section)  PROVE k = m + 1
  <2>1. k \notin HeadersIn(pre, Header \ Section)
    BY <1>0, <1>5, <1>12
  <2>2. k - m \in HeadersIn(r, Header \ Section) /\ k = m + (k - m) /\ k \in Nat
    BY <1>8, <1>12, <2>1
  <2> QED
    BY <1>1, <2>2
<1>13. ASSUME NEW k, k > m, k \in Tables(u)  PROVE k = m + 1 \/ k = m + 5
  <2>0. k \in HeadersIn(u, Header)
    BY <1>13 DEF Tables
  <2>1. k \notin HeadersIn(pre, Header)
    BY <1>0, <1>5, <1>13
  <2>2. k - m \in Tables(r) /\ k = m + (k - m) /\ k \in Nat
    BY <1>8, <2>0, <2>1 DEF Tables
  <2>3. k - m = 1 \/ k - m = 5
    BY <1>1, <2>2
  <2> QED
    BY <2>2, <2>3
<1>14. Len(r) = 7 => m + 5 \in Tables(u)
  <2> SUFFICES ASSUME Len(r) = 7 PROVE m + 5 \in Tables(u)
    OBVIOUS
  <2>1. 5 \in HeadersIn(r, Header)
    BY <1>1 DEF Tables
  <2> QED
    BY <1>5, <1>9, <2>1 DEF Tables
<1>15. ASSUME NEW k \in 1..Len(r)  PROVE OpenAfter(u)[(m + k) - 1] = <<>>
  <2>1. (m + k) - 1 = m + (k - 1) /\ k - 1 \in 0..Len(r)
    BY <1>0, <1>1
  <2>2. OpenAfter(r)[k - 1] = <<>>
    BY <1>1, <2>1, PlainOpens
  <2> QED
    BY <1>4, <2>1, <2>2
<1>16. u # <<>>
  <2>1. Len(u) # 0
    <3>1. Len(u) = m + 4 \/ Len(u) = m + 7
      BY <1>1, <1>2
    <3> QED
      BY <1>0, <3>1
  <2> QED
    BY <2>1, EmptySeq
<1> QED
  BY <1>2, <1>3, <1>6, <1>7, <1>10, <1>11, <1>12, <1>13, <1>14, <1>15, <1>16 DEF u, m, r

-----------------------------------------------------------------------------
(* Where that table ends.                                                  *)

LEMMA OneRoot ==
  ASSUME NEW s \in Lines, ~Malformed(s), ArrayRoots(s) = {}, NEW start, Roots(s) = {start}
  PROVE  Rewritable(s) /\ HasBlock(s) /\ ~Refused(s)
  BY DEF Rewritable, Refused, HasBlock

LEMMA ElementOfRendered ==
  ASSUME NEW env, NEW k \in 1..Len(Rendered(env))
  PROVE  LET r == Rendered(env) IN
         /\ r[k] # "pin"
         /\ k # Len(r) /\ k # 1 /\ k # 4 /\ k # 5 => r[k] # "blank"
         /\ r[k] \in TimeoutKey <=> k = 3
<1> DEFINE r == Rendered(env)
<1>1. /\ r[1] = "root" /\ r[2] = "key" /\ r[3] = "timeout" /\ r[4] = "blank"
      /\ Len(r) = 4 \/ (Len(r) = 7 /\ r[5] = "section" /\ r[6] = "key" /\ r[7] = "blank")
  BY RenderedIs
<1>2. k \in 1..Len(r)
  OBVIOUS
<1> HIDE DEF r
<1>3. k = 1 \/ k = 2 \/ k = 3 \/ k = 4 \/ (Len(r) = 7 /\ (k = 5 \/ k = 6 \/ k = 7))
  <2>1. Len(r) = 4 \/ Len(r) = 7
    BY <1>1
  <2>2. ASSUME Len(r) = 4  PROVE k = 1 \/ k = 2 \/ k = 3 \/ k = 4
    <3>1. k \in 1..4
      BY <1>2, <2>2
    <3> QED
      BY <3>1
  <2>3. ASSUME Len(r) = 7  PROVE k = 1 \/ k = 2 \/ k = 3 \/ k = 4 \/ k = 5 \/ k = 6 \/ k = 7
    <3>1. k \in 1..7
      BY <1>2, <2>3
    <3> QED
      BY <3>1
  <2> QED
    BY <2>1, <2>2, <2>3
<1> DEFINE Goal == /\ r[k] # "pin"
                   /\ k # Len(r) /\ k # 1 /\ k # 4 /\ k # 5 => r[k] # "blank"
                   /\ r[k] \in TimeoutKey <=> k = 3
<1>4. CASE k = 3
  <2>1. r[k] = "timeout" /\ "timeout" \in TimeoutKey
    BY <1>1, <1>4 DEF TimeoutKey
  <2>2. Goal
    BY <1>4, <2>1
  <2> QED
    BY <2>2 DEF r
<1>5. CASE k = 1 \/ k = 2 \/ k = 4 \/ (Len(r) = 7 /\ (k = 5 \/ k = 6 \/ k = 7))
  <2>1. r[k] \in {"root", "key", "blank", "section"}
    BY <1>1, <1>5
  <2>2. r[k] \notin TimeoutKey /\ r[k] # "pin" /\ k # 3
    <3>1. r[k] \notin TimeoutKey /\ r[k] # "pin"
      BY <2>1 DEF TimeoutKey
    <3>2. k # 3
      BY <1>5
    <3> QED
      BY <3>1, <3>2
  <2>3. ASSUME k # Len(r), k # 1, k # 4, k # 5  PROVE r[k] # "blank"
    <3>1. k = 2 \/ k = 6
      BY <1>5, <2>3
    <3>2. CASE k = 2
      BY <1>1, <3>2
    <3>3. CASE k = 6
      <4>1. Len(r) = 7
        BY <1>5, <3>3
      <4>2. r[6] = "key"
        BY <1>1, <4>1
      <4> QED
        BY <3>3, <4>2
    <3> QED
      BY <3>1, <3>2, <3>3
  <2>4. Goal
    BY <2>2, <2>3
  <2> QED
    BY <2>4 DEF r
<1> QED
  BY <1>3, <1>4, <1>5

\* Where that table ends: before the blank after it.
LEMMA NewTableEnds ==
  ASSUME NEW pre \in Lines, Tame(pre), NEW env
  PROVE  LET u == pre \o Rendered(env) IN BlockEnd(u, BlockStart(u)) = Len(u) - 1
<1> DEFINE r == Rendered(env)
           u == pre \o r
           m == Len(pre)
           start == m + 1
           ends == {k \in HeadersIn(u, Header \ Section) : k > start} \cup {Len(u) + 1}
           full(limit) == {k \in start..(limit - 1) : k = start \/ u[k] # "blank"}
<1>1. /\ u \in Lines /\ Len(u) = m + Len(r) /\ BlockStart(u) = start
      /\ \A k \in 1..Len(r) : u[m + k] = r[k]
      /\ \A k : k > m /\ k \in HeadersIn(u, Header \ Section) => k = start
  BY NewTable
<1>2. m \in Nat /\ (Len(r) = 4 \/ Len(r) = 7) /\ r[3] = "timeout" /\ r[4] = "blank" /\ (Len(r) = 7 => r[6] = "key" /\ r[7] = "blank")
  BY RenderedIs, LinesAre
<1>3. HeadersIn(u, Header \ Section) \subseteq 1..Len(u)
  <2> HIDE DEF u
  <2> QED
    BY <1>1, HeaderAt
<1>4. BlockEnd(u, start) = CHOOSE k \in full(LeastOf(ends)) : \A j \in full(LeastOf(ends)) : j <= k
  BY DEF BlockEnd
<1> HIDE DEF u, r, m
<1>5. ends = {Len(u) + 1}
  <2>1. ASSUME NEW k \in HeadersIn(u, Header \ Section), k > start  PROVE FALSE
    <3>1. k \in 1..Len(u) /\ Len(u) \in Nat
      BY <1>1, <1>3, <2>1, LinesAre
    <3>2. k > m /\ k # start
      BY <1>2, <2>1, <3>1
    <3> QED
      BY <1>1, <2>1, <3>2
  <2> QED
    BY <2>1
<1>6. LeastOf(ends) = Len(u) + 1 /\ (Len(u) + 1) - 1 = Len(u)
  <2>1. Len(u) + 1 \in Nat /\ (Len(u) + 1) - 1 = Len(u)
    BY <1>1, LinesAre
  <2>2. ends \subseteq Nat /\ Len(u) + 1 \in ends /\ \A k \in ends : Len(u) + 1 <= k
    <3> HIDE DEF ends
    <3>1. \A k \in ends : k = Len(u) + 1
      BY <1>5
    <3> QED
      BY <1>5, <2>1, <3>1
  <2> HIDE DEF ends
  <2> QED
    BY <2>1, <2>2, LeastIs
<1> DEFINE F == {k \in start..Len(u) : k = start \/ u[k] # "blank"}
<1>7. BlockEnd(u, start) = CHOOSE k \in F : \A j \in F : j <= k
  BY <1>4, <1>6
<1>8. Len(u) - 1 \in F
  <2>1. CASE Len(r) = 4
    <3>1. Len(u) - 1 = m + 3 /\ 3 \in 1..Len(r)
      BY <1>1, <1>2, <2>1
    <3>2. u[Len(u) - 1] = "timeout" /\ Len(u) - 1 \in start..Len(u)
      BY <1>1, <1>2, <2>1, <3>1
    <3> QED
      BY <3>2
  <2>2. CASE Len(r) = 7
    <3>1. Len(u) - 1 = m + 6 /\ 6 \in 1..Len(r)
      BY <1>1, <1>2, <2>2
    <3>2. u[Len(u) - 1] = "key" /\ Len(u) - 1 \in start..Len(u)
      BY <1>1, <1>2, <2>2, <3>1
    <3> QED
      BY <3>2
  <2> QED
    BY <1>2, <2>1, <2>2
<1>9. ASSUME NEW j \in F  PROVE j <= Len(u) - 1
  <2>1. u[Len(u)] = "blank" /\ Len(u) # start
    <3>1. CASE Len(r) = 4
      <4>1. Len(u) = m + 4 /\ 4 \in 1..Len(r)
        BY <1>1, <1>2, <3>1
      <4> QED
        BY <1>1, <1>2, <3>1, <4>1
    <3>2. CASE Len(r) = 7
      <4>1. Len(u) = m + 7 /\ 7 \in 1..Len(r)
        BY <1>1, <1>2, <3>2
      <4> QED
        BY <1>1, <1>2, <3>2, <4>1
    <3> QED
      BY <1>2, <3>1, <3>2
  <2>2. j \in start..Len(u) /\ j # Len(u)
    BY <2>1
  <2> QED
    BY <1>2, <2>2
<1>10. F \subseteq Nat
  BY <1>2
<1> HIDE DEF F
<1>11. BlockEnd(u, start) \in F /\ \A j \in F : j <= BlockEnd(u, start)
  BY <1>7, <1>8, <1>9
<1>12. BlockEnd(u, start) = Len(u) - 1
  <2> DEFINE e == BlockEnd(u, start)
             n == Len(u) - 1
  <2>1. e \in Nat /\ n \in Nat /\ e <= n /\ n <= e
    BY <1>8, <1>9, <1>10, <1>11
  <2> HIDE DEF e, n
  <2>2. e = n
    BY <2>1
  <2> QED
    BY <2>2 DEF e, n
<1> QED
  BY <1>1, <1>12 DEF u, r

-----------------------------------------------------------------------------
(* What such a text says, and what an installation keeps.                  *)

LEMMA NewTableIsNotPinned ==
  ASSUME NEW pre \in Lines, Tame(pre), NEW env
  PROVE  ~Pinned(pre \o Rendered(env))
<1> DEFINE r == Rendered(env)
           u == pre \o r
           m == Len(pre)
<1>1. /\ u \in Lines /\ Len(u) = m + Len(r) /\ BlockStart(u) = m + 1 /\ BlockEnd(u, BlockStart(u)) = Len(u) - 1
      /\ \A k \in 1..Len(r) : u[m + k] = r[k]
  BY NewTable, NewTableEnds
<1>2. m \in Nat /\ Len(r) \in Nat /\ Len(u) \in Nat
  BY <1>1, RenderedIs, LinesAre
<1>3. \A k \in 1..Len(r) : r[k] # "pin"
  BY ElementOfRendered
<1>4. Pinned(u) => \E k \in BlockStart(u)..BlockEnd(u, BlockStart(u)) : u[k] = "pin"
  BY DEF Pinned
<1> SUFFICES ~Pinned(u)
  OBVIOUS
<1> HIDE DEF u, r, m
<1>5. ASSUME NEW k \in (m + 1)..(Len(u) - 1)  PROVE u[k] # "pin"
  <2>1. k - m \in 1..Len(r) /\ k = m + (k - m)
    BY <1>1, <1>2
  <2> QED
    BY <1>1, <1>3, <2>1
<1> QED
  BY <1>1, <1>4, <1>5

LEMMA NewTableIsCurrent ==
  ASSUME NEW pre \in Lines, Tame(pre), NEW env
  PROVE  MigrationVerdict(pre \o Rendered(env)) = "current"
<1> DEFINE r == Rendered(env)
           u == pre \o r
           m == Len(pre)
           start == m + 1
           ends == {k \in HeadersIn(u, Header) : k > start} \cup {Len(u) + 1}
<1>1. /\ u \in Lines /\ Len(u) = m + Len(r) /\ BlockStart(u) = start /\ Roots(u) = {start} /\ ArrayRoots(u) = {} /\ ~Malformed(u)
      /\ \A k \in 1..Len(r) : u[m + k] = r[k] /\ OpenAfter(u)[(m + k) - 1] = <<>>
      /\ \A k : k > m /\ k \in Tables(u) => k = start \/ k = m + 5
      /\ Len(r) = 7 => m + 5 \in Tables(u)
  BY NewTable
<1>2. m \in Nat /\ (Len(r) = 4 \/ Len(r) = 7) /\ r[1] = "root" /\ r[3] = "timeout"
  BY RenderedIs, LinesAre
<1>3. \A k \in 1..Len(r) : r[k] \in TimeoutKey <=> k = 3
  BY ElementOfRendered
<1>4. TimeoutsOf(u) = {k \in start..(LeastOf(ends) - 1) : u[k] \in TimeoutKey /\ IsStatement(u, k)}
  BY <1>1 DEF TimeoutsOf
<1>5. HeadersIn(u, Header) = Tables(u)
  BY DEF Tables
<1> SUFFICES MigrationVerdict(u) = "current"
  OBVIOUS
<1> HIDE DEF u, r, m
<1>6. Tables(u) \subseteq 1..Len(u) /\ Len(u) \in Nat
  BY <1>1, TablesAre, LinesAre
<1>7. ends = {Len(u) + 1, m + 5}
  <2>1. ASSUME NEW k \in Tables(u), k > start  PROVE k = m + 5
    <3>1. k \in 1..Len(u) /\ Len(u) \in Nat
      BY <1>6
    <3>2. k > m /\ k # start
      BY <1>2, <2>1, <3>1
    <3> QED
      BY <1>1, <2>1, <3>2
  <2>2. CASE Len(r) = 4
    <3>1. Len(u) + 1 = m + 5
      BY <1>1, <1>2, <2>2
    <3>2. \A k \in Tables(u) : ~(k > start)
      <4>1. m + 5 \notin Tables(u)
        BY <1>6, <3>1
      <4> QED
        BY <2>1, <4>1
    <3> QED
      BY <1>5, <3>1, <3>2
  <2>3. CASE Len(r) = 7
    <3>1. m + 5 \in Tables(u) /\ m + 5 > start
      BY <1>1, <1>2, <2>3
    <3> QED
      BY <1>5, <2>1, <3>1
  <2> QED
    BY <1>2, <2>2, <2>3
<1>8. LeastOf(ends) = m + 5 /\ (m + 5) - 1 = m + 4 /\ m + 4 <= Len(u)
  <2>1. m + 5 \in Nat /\ Len(u) + 1 \in Nat /\ m + 5 <= Len(u) + 1 /\ (m + 5) - 1 = m + 4 /\ m + 4 <= Len(u)
    <3>1. m \in Nat /\ Len(u) = m + Len(r) /\ (Len(r) = 4 \/ Len(r) = 7)
      BY <1>1, <1>2
    <3>2. Len(u) = m + 4 \/ Len(u) = m + 7
      BY <3>1
    <3> QED
      BY <3>1, <3>2
  <2> HIDE DEF ends
  <2>2. ends \subseteq Nat /\ m + 5 \in ends /\ \A k \in ends : m + 5 <= k
    BY <1>7, <2>1
  <2> QED
    BY <2>1, <2>2, LeastIs
<1> HIDE DEF ends
<1>9. TimeoutsOf(u) = {m + 3}
  <2>1. ASSUME NEW k \in start..(m + 4)  PROVE u[k] \in TimeoutKey <=> k = m + 3
    <3>1. k - m \in 1..4 /\ k = m + (k - m) /\ (k - m = 3 <=> k = m + 3)
      BY <1>2
    <3>2. k - m \in 1..Len(r)
      <4> DEFINE j == k - m
      <4>1. (Len(r) = 4 \/ Len(r) = 7) /\ j \in 1..4
        BY <1>2, <3>1
      <4> HIDE DEF j
      <4>2. j \in 1..Len(r)
        <5>1. ASSUME NEW n \in {4, 7}  PROVE j \in 1..n
          BY <4>1
        <5>2. Len(r) \in {4, 7}
          BY <4>1
        <5> QED
          BY <5>1, <5>2
      <4> QED
        BY <4>2 DEF j
    <3>3. u[k] = r[k - m]
      BY <1>1, <3>1, <3>2
    <3> QED
      BY <1>3, <3>1, <3>2, <3>3
  <2>2. m + 3 \in start..(m + 4) /\ 3 \in 1..Len(r)
    BY <1>2
  <2>3. IsStatement(u, m + 3)
    BY <1>1, <2>2 DEF IsStatement
  <2>4. TimeoutsOf(u) = {k \in start..(m + 4) : u[k] \in TimeoutKey /\ IsStatement(u, k)}
    BY <1>4, <1>8
  <2>5. \A k : k \in TimeoutsOf(u) <=> k \in start..(m + 4) /\ u[k] \in TimeoutKey /\ IsStatement(u, k)
    BY <2>4
  <2>6. \A k : k \in TimeoutsOf(u) <=> k = m + 3
    BY <2>1, <2>2, <2>3, <2>5
  <2> QED
    BY <2>6
<1>10. LeastOf(TimeoutsOf(u)) = m + 3
  <2>1. {m + 3} \subseteq Nat /\ m + 3 \in {m + 3} /\ \A k \in {m + 3} : m + 3 <= k
    BY <1>2
  <2> QED
    BY <1>9, <2>1, LeastIs
<1>11. u[m + 3] = "timeout" /\ u[start] = "root"
  <2>1. 3 \in 1..Len(r) /\ 1 \in 1..Len(r)
    BY <1>2
  <2> QED
    BY <1>1, <1>2, <2>1
<1>12. HasBlock(u) /\ ~Refused(u)
  BY <1>1, OneRoot
<1>13. u[BlockStart(u)] = "root"
  BY <1>1, <1>11
<1>14. (\A j, k \in TimeoutsOf(u) : j = k) /\ TimeoutsOf(u) # {} /\ u[LeastOf(TimeoutsOf(u))] = "timeout"
  BY <1>9, <1>10, <1>11
<1> QED
  BY <1>1, <1>12, <1>13, <1>14 DEF MigrationVerdict

\* What comes before and after that table.
LEMMA NewTableAround ==
  ASSUME NEW pre \in Lines, Tame(pre), NEW env
  PROVE  LET u == pre \o Rendered(env) IN Before(u) = pre /\ IsBlank(After(u)) /\ After(u) \in Lines
<1> DEFINE r == Rendered(env)
           u == pre \o r
           m == Len(pre)
<1>1. /\ u \in Lines /\ Len(u) = m + Len(r) /\ BlockStart(u) = m + 1 /\ BlockEnd(u, BlockStart(u)) = Len(u) - 1
      /\ \A k \in 1..Len(r) : u[m + k] = r[k]
      /\ \A k \in 1..m : u[k] = pre[k]
  BY NewTable, NewTableEnds, RenderedIs, Joined
<1>2. m \in Nat /\ (Len(r) = 4 \/ Len(r) = 7) /\ r[4] = "blank" /\ (Len(r) = 7 => r[7] = "blank")
  BY RenderedIs, LinesAre
<1> SUFFICES Before(u) = pre /\ IsBlank(After(u)) /\ After(u) \in Lines
  OBVIOUS
<1> HIDE DEF u, r, m
<1>3. Before(u) = SubSeq(u, 1, m)
  <2>1. (m + 1) - 1 = m
    BY <1>2
  <2> QED
    BY <1>1, <2>1 DEF Before
<1>4. Before(u) = pre
  <2>1. m \in 0..Len(u)
    BY <1>1, <1>2
  <2>2. Before(u) \in Lines /\ Len(Before(u)) = m /\ \A k \in 1..m : Before(u)[k] = u[k]
    <3>1. /\ SubSeq(u, 1, m) \in Lines /\ Len(SubSeq(u, 1, m)) = m
          /\ \A k \in 1..m : SubSeq(u, 1, m)[k] = u[k]
      BY <1>1, <2>1, Cut
    <3> QED
      BY <1>3, <3>1
  <2> DEFINE b == Before(u)
  <2> HIDE DEF b
  <2>3. b \in Lines /\ Len(b) = Len(pre) /\ \A k \in 1..Len(b) : b[k] = pre[k]
    BY <1>1, <2>2 DEF b, m
  <2>4. b = pre
    BY <2>3, SeqEqual DEF Lines
  <2> QED
    BY <2>4 DEF b
<1>5. Len(u) \in Nat \ {0} /\ u[Len(u)] = "blank"
  <2>1. CASE Len(r) = 4
    <3>1. Len(u) = m + 4 /\ 4 \in 1..Len(r)
      BY <1>1, <1>2, <2>1
    <3> QED
      BY <1>1, <1>2, <2>1, <3>1
  <2>2. CASE Len(r) = 7
    <3>1. Len(u) = m + 7 /\ 7 \in 1..Len(r)
      BY <1>1, <1>2, <2>2
    <3> QED
      BY <1>1, <1>2, <2>2, <3>1
  <2> QED
    BY <1>2, <2>1, <2>2
<1>6. After(u) = SubSeq(u, (Len(u) - 1) + 1, Len(u))
  BY <1>1 DEF After
<1> DEFINE n == Len(u) - 1
           a == After(u)
<1>7. n \in 0..Len(u) /\ Len(u) - n = 1 /\ n + 1 = Len(u) /\ 1 \in 1..(Len(u) - n)
  BY <1>5
<1> HIDE DEF n
<1>8. a \in Lines /\ Len(a) = Len(u) - n /\ \A k \in 1..(Len(u) - n) : a[k] = u[n + k]
  <2>1. /\ SubSeq(u, n + 1, Len(u)) \in Lines /\ Len(SubSeq(u, n + 1, Len(u))) = Len(u) - n
        /\ \A k \in 1..(Len(u) - n) : SubSeq(u, n + 1, Len(u))[k] = u[n + k]
    BY <1>1, <1>7, Cut
  <2>2. a = SubSeq(u, n + 1, Len(u))
    BY <1>6 DEF n
  <2> HIDE DEF a
  <2> QED
    BY <2>1, <2>2
<1> HIDE DEF a
<1>9. DOMAIN a = 1..1 /\ a[1] = "blank"
  <2>1. DOMAIN a = 1..Len(a)
    BY <1>8, LinesAre
  <2> QED
    BY <1>5, <1>7, <1>8, <2>1
<1>10. IsBlank(a)
  BY <1>9 DEF IsBlank
<1> QED
  BY <1>4, <1>8, <1>10 DEF a

(* An install leaves a text the scanner accepts, with every line of the    *)
(* other tables and one table of its own that a second install would leave *)
(* as it is up to blanks.                                                  *)
LEMMA InstallKeeps ==
  ASSUME NEW s \in Lines, s # <<>>, Rewritable(s), NEW env
  PROVE  LET new == WithBlock(s, env) IN
         /\ new \in Lines /\ new # <<>> /\ ~Malformed(new) /\ ~Refused(new) /\ Foreign(new) = Foreign(s)
         /\ HasBlock(new) /\ ~Pinned(new) /\ MigrationVerdict(new) = "current"
         /\ Inked(WithBlock(new, env)) = Inked(new)
<1> DEFINE new == WithBlock(s, env)
           r == Rendered(env)
<1>1. PICK pre \in Lines : new = pre \o r /\ Tame(pre) /\ Foreign(pre) = Foreign(s)
  BY WithBlockIs
<1> HIDE DEF new
<1>2. /\ new \in Lines /\ new # <<>> /\ ~Malformed(new) /\ ArrayRoots(new) = {} /\ Roots(new) = {Len(pre) + 1}
      /\ Foreign(new) = Foreign(pre) /\ Inked(new) = Inked(pre) \o Inked(r)
  BY <1>1, NewTable
<1>3. Rewritable(new) /\ HasBlock(new) /\ ~Refused(new)
  BY <1>2, OneRoot
<1>4. ~Pinned(new) /\ MigrationVerdict(new) = "current"
  BY <1>1, NewTableIsNotPinned, NewTableIsCurrent
<1>5. PICK pre2 \in Lines : WithBlock(new, env) = pre2 \o r /\ Inked(pre2) = Inked(Stripped(new))
  BY <1>2, <1>3, WithBlockIs
<1>6. Inked(Stripped(new)) = Inked(Before(new)) \o Inked(After(new))
  BY <1>2, <1>3, StrippedKeeps
<1>7. Before(new) = pre /\ IsBlank(After(new)) /\ After(new) \in Lines
  BY <1>1, NewTableAround
<1>8. Inked(After(new)) = <<>> /\ Inked(pre) \o <<>> = Inked(pre)
  BY <1>7, Blanks, PartsStay, JoinEmpty
<1>9. Inked(pre2) = Inked(pre)
  BY <1>5, <1>6, <1>7, <1>8
<1> HIDE DEF r
<1>10. Inked(pre2 \o r) = Inked(pre2) \o Inked(r)
  <2>1. r \in Lines
    BY RenderedIs DEF r
  <2> QED
    BY <2>1, InkedJoin
<1>11. Inked(WithBlock(new, env)) = Inked(new)
  BY <1>2, <1>5, <1>9, <1>10
<1> QED
  BY <1>1, <1>2, <1>3, <1>4, <1>11 DEF new

-----------------------------------------------------------------------------
(* What an uninstallation and the migration of the timeout keep.           *)

LEMMA UninstallKeeps ==
  ASSUME NEW s \in Lines, Rewritable(s), HasBlock(s)
  PROVE  LET new == Stripped(s) IN
         new \in Lines /\ new # <<>> /\ ~Malformed(new) /\ ~Refused(new) /\ Foreign(new) = Foreign(s) /\ ~HasBlock(new)
<1>1. /\ Stripped(s) \in Lines /\ Stripped(s) # <<>> /\ Tame(Stripped(s)) /\ Foreign(Stripped(s)) = Foreign(s)
  BY StrippedKeeps
<1> QED
  BY <1>1 DEF Tame, Refused, HasBlock

LEMMA WhatIsMigrated ==
  ASSUME NEW s \in Lines, MigrationVerdict(s) = "updated"
  PROVE  /\ Rewritable(s) /\ HasBlock(s) /\ s[BlockStart(s)] # "quoted root"
         /\ (\A j, k \in TimeoutsOf(s) : j = k) /\ TimeoutsOf(s) # {}
         /\ s[LeastOf(TimeoutsOf(s))] \notin {"timeout", "own timeout"}
<1>1. ~Malformed(s) /\ ArrayRoots(s) = {} /\ ~Refused(s)
  BY DEF MigrationVerdict
<1>2. HasBlock(s) /\ s[BlockStart(s)] # "quoted root"
  BY DEF MigrationVerdict
<1>3. (\A j, k \in TimeoutsOf(s) : j = k) /\ TimeoutsOf(s) # {}
  BY <1>1, <1>2 DEF MigrationVerdict
<1>4. s[LeastOf(TimeoutsOf(s))] \notin {"timeout", "own timeout"}
  <2> DEFINE key == s[LeastOf(TimeoutsOf(s))]
  <2>1. MigrationVerdict(s) = CASE key = "timeout" -> "current" [] key = "own timeout" -> "custom" [] OTHER -> "updated"
    BY <1>1, <1>2, <1>3 DEF MigrationVerdict
  <2> HIDE DEF key
  <2>2. key # "timeout"
    BY <2>1
  <2>3. key # "own timeout"
    BY <2>1
  <2> QED
    BY <2>2, <2>3 DEF key
<1> QED
  BY <1>1, <1>2, <1>3, <1>4 DEF Rewritable

LEMMA TimeoutPlace ==
  ASSUME NEW s \in Lines, MigrationVerdict(s) = "updated"
  PROVE  LET k == LeastOf(TimeoutsOf(s)) IN
         k \in 1..Len(s) /\ s[k] = "legacy timeout" /\ TimeoutsOf(s) = {k} /\ ~IsForeign(s, k)
<1> DEFINE T == TimeoutsOf(s)
           k == LeastOf(T)
           start == BlockStart(s)
           ends == {j \in HeadersIn(s, Header) : j > start} \cup {Len(s) + 1}
           limit == LeastOf(ends)
<1>1. (\A i, j \in T : i = j) /\ T # {} /\ s[k] \notin {"timeout", "own timeout"}
  BY WhatIsMigrated
<1>2. /\ Len(s) \in Nat /\ start \in 1..Len(s) /\ s[start] \in Root /\ Closed(s, start - 1)
  BY WhatIsMigrated, BlockFrom, LinesAre
<1>3. T = {j \in start..(limit - 1) : s[j] \in TimeoutKey /\ IsStatement(s, j)}
  BY DEF TimeoutsOf
<1>4. HeadersIn(s, Header) = Tables(s) /\ Tables(s) \subseteq 1..Len(s)
  BY TablesAre DEF Tables
<1> HIDE DEF T, start
<1>5. limit \in ends /\ \A j \in ends : limit <= j
  <2>1. ends \subseteq Nat /\ ends # {}
    <3>1. HeadersIn(s, Header) \subseteq Nat /\ Len(s) + 1 \in Nat
      BY <1>2, <1>4
    <3>2. Len(s) + 1 \in ends
      OBVIOUS
    <3> QED
      BY <3>1, <3>2
  <2> HIDE DEF ends
  <2> QED
    BY <2>1, LeastFound
<1> HIDE DEF limit
<1>6. limit \in (start + 1)..(Len(s) + 1)
  BY <1>2, <1>4, <1>5
<1>7. T \subseteq Nat
  BY <1>2, <1>3
<1>8. k \in T
  BY <1>1, <1>7, LeastFound
<1> HIDE DEF k
<1>9. k \in start..(limit - 1) /\ s[k] \in TimeoutKey
  BY <1>3, <1>8
<1>10. s[k] = "legacy timeout"
  BY <1>1, <1>9 DEF TimeoutKey
<1>11. T = {k}
  BY <1>1, <1>8
<1>12. k \in 1..Len(s)
  BY <1>2, <1>6, <1>9
<1>13. start \in OwnTables(s)
  BY <1>2, HeaderAt DEF OwnTables, Closed
<1>14. ASSUME NEW j \in Tables(s), j <= k  PROVE j <= start
  <2>1. j \in 1..Len(s) /\ ~(limit <= j)
    BY <1>2, <1>4, <1>6, <1>9, <1>14
  <2>2. ~(j > start)
    BY <1>4, <1>5, <2>1
  <2> QED
    BY <1>2, <2>1, <2>2
<1>15. ~IsForeign(s, k)
  <2>1. start <= k
    BY <1>2, <1>6, <1>9
  <2> QED
    BY <1>13, <1>14, <2>1, ForeignAt
<1> QED
  BY <1>10, <1>11, <1>12, <1>15 DEF k, T

(* A migration leaves every line but the one it rewrites, and a text it    *)
(* has nothing more to do in.                                              *)
LEMMA MigrateKeeps ==
  ASSUME NEW s \in Lines, MigrationVerdict(s) = "updated"
  PROVE  LET new == Migrated(s) IN
         /\ new \in Lines /\ new # <<>> /\ ~Malformed(new) /\ ~Refused(new) /\ Foreign(new) = Foreign(s)
         /\ MigrationVerdict(new) = "current"
<1> DEFINE k == LeastOf(TimeoutsOf(s))
           n == Migrated(s)
<1>1. k \in 1..Len(s) /\ s[k] = "legacy timeout" /\ TimeoutsOf(s) = {k} /\ ~IsForeign(s, k)
  BY TimeoutPlace
<1>2. /\ Rewritable(s) /\ HasBlock(s) /\ s[BlockStart(s)] # "quoted root"
  BY WhatIsMigrated
<1>3. Len(s) \in Nat
  BY LinesAre
<1>0. k \in Nat /\ k \in 1..Len(s) /\ Len(s) # 0
  <2>1. k \in 1..Len(s)
    BY <1>1
  <2> HIDE DEF k
  <2> QED
    BY <1>3, <2>1
<1>4. n = [s EXCEPT ![k] = "timeout"]
  BY DEF Migrated
<1> HIDE DEF k, n
<1>5. n \in Lines /\ Len(n) = Len(s) /\ \A j \in 1..Len(s) : n[j] = IF j = k THEN "timeout" ELSE s[j]
  <2>1. "timeout" \in Line
    BY DEF Line
  <2> QED
    <3> DEFINE m == [s EXCEPT ![k] = "timeout"]
    <3>1. m \in Lines /\ Len(m) = Len(s) /\ \A j \in 1..Len(s) : m[j] = IF j = k THEN "timeout" ELSE s[j]
      BY <1>0, <2>1, ExceptSeq DEF Lines
    <3>2. n = m
      BY <1>4
    <3> HIDE DEF m
    <3> QED
      BY <3>1, <3>2
<1>6. \A j \in 1..Len(s) : s[j] = n[j] \/ (j = k /\ s[j] = "legacy timeout" /\ n[j] = "timeout")
  BY <1>1, <1>5
<1>7. \A j \in 0..Len(s) : OpenAfter(n)[j] = OpenAfter(s)[j]
  <2>1. Alongside(n, 0, s, 0, Len(s))
    <3>1. \A j \in 1..Len(s) : Alike(n[j], s[j])
      BY <1>6 DEF Alike, TimeoutKey
    <3> QED
      BY <1>3, <1>5, <3>1 DEF Alongside
  <2>2. OpenAfter(n)[0] = OpenAfter(s)[0]
    BY <1>5, OpenIs
  <2>3. SameOpen(n, 0, s, 0, Len(s))
    BY <1>3, <1>5, <2>1, <2>2, OpenWalk
  <2> QED
    BY <1>3, <2>3 DEF SameOpen
<1>8. Malformed(n) <=> Malformed(s)
  BY <1>3, <1>5, <1>7 DEF Malformed
<1>9. ASSUME NEW K, K \cap TimeoutKey = {}  PROVE HeadersIn(n, K) = HeadersIn(s, K)
  <2>1. ASSUME NEW j \in 1..Len(s)  PROVE n[j] \in K <=> s[j] \in K
    BY <1>6, <1>9 DEF TimeoutKey
  <2>2. ASSUME NEW j \in 1..Len(s)  PROVE OpenAfter(n)[j - 1] = OpenAfter(s)[j - 1]
    <3>1. j - 1 \in 0..Len(s)
      BY <1>3
    <3> QED
      BY <1>7, <3>1
  <2>3. \A j : j \in HeadersIn(n, K) <=> j \in HeadersIn(s, K)
    BY <1>5, <2>1, <2>2, HeaderAt
  <2> QED
    BY <2>3
<1>10. Roots(n) = Roots(s) /\ ArrayRoots(n) = ArrayRoots(s) /\ Tables(n) = Tables(s) /\ OwnTables(n) = OwnTables(s)
       /\ HeadersIn(n, Header) = HeadersIn(s, Header)
  <2>1. Root \cap TimeoutKey = {} /\ {"array root"} \cap TimeoutKey = {} /\ Header \cap TimeoutKey = {}
        /\ (Root \cup Section) \cap TimeoutKey = {}
    BY DEF Root, Section, Header, TimeoutKey
  <2> QED
    BY <1>9, <2>1 DEF Roots, ArrayRoots, Tables, OwnTables
<1>11. BlockStart(n) = BlockStart(s) /\ (HasBlock(n) <=> HasBlock(s)) /\ (Refused(n) <=> Refused(s))
  BY <1>10 DEF BlockStart, HasBlock, Refused
<1>12. TimeoutsOf(n) = {k}
  <2> DEFINE start == BlockStart(s)
             ends == {j \in HeadersIn(s, Header) : j > start} \cup {Len(s) + 1}
             span == start..(LeastOf(ends) - 1)
  <2>1. TimeoutsOf(s) = {j \in span : s[j] \in TimeoutKey /\ IsStatement(s, j)}
    BY DEF TimeoutsOf
  <2>2. TimeoutsOf(n) = {j \in span : n[j] \in TimeoutKey /\ IsStatement(n, j)}
    BY <1>5, <1>10, <1>11 DEF TimeoutsOf
  <2>3. span \subseteq 1..Len(s)
    <3>1. start \in 1..Len(s)
      BY <1>2, BlockFrom
    <3>2. LeastOf(ends) \in Nat /\ LeastOf(ends) <= Len(s) + 1
      <4>1. ends \subseteq Nat /\ Len(s) + 1 \in ends
        <5>1. Tables(s) \subseteq Nat /\ HeadersIn(s, Header) = Tables(s)
          BY TablesAre DEF Tables
        <5> QED
          BY <1>3, <5>1
      <4> HIDE DEF ends
      <4> QED
        BY <4>1, LeastFound
    <3> HIDE DEF ends, start
    <3> QED
      BY <1>3, <3>1, <3>2
  <2> HIDE DEF span
  <2>4. ASSUME NEW j \in span  PROVE (n[j] \in TimeoutKey <=> s[j] \in TimeoutKey) /\ (IsStatement(n, j) <=> IsStatement(s, j))
    <3>1. j \in 1..Len(s) /\ j - 1 \in 0..Len(s)
      BY <1>3, <2>3
    <3>2. IsStatement(n, j) <=> IsStatement(s, j)
      BY <1>7, <3>1 DEF IsStatement
    <3>3. n[j] \in TimeoutKey <=> s[j] \in TimeoutKey
      BY <1>6, <3>1 DEF TimeoutKey
    <3> QED
      BY <3>2, <3>3
  <2>5. TimeoutsOf(n) = TimeoutsOf(s)
    BY <2>1, <2>2, <2>4
  <2> QED
    BY <1>1, <2>5
<1>13. LeastOf(TimeoutsOf(n)) = k /\ n[k] = "timeout"
  <2>1. {k} \subseteq Nat /\ k \in {k} /\ \A j \in {k} : k <= j
    BY <1>0
  <2>2. n[k] = "timeout"
    BY <1>0, <1>5
  <2>3. LeastOf({k}) = k
    BY <2>1, LeastIs
  <2> QED
    BY <1>12, <2>2, <2>3
<1>14. BlockStart(s) \in 1..Len(s) /\ s[BlockStart(s)] \in Root
  BY <1>2, BlockFrom
<1>15. n[BlockStart(n)] # "quoted root"
  BY <1>2, <1>6, <1>11, <1>14
<1>16. ~Malformed(n) /\ ArrayRoots(n) = {} /\ ~Refused(n) /\ HasBlock(n)
  BY <1>2, <1>8, <1>10, <1>11, RefusedNot DEF Rewritable
<1>17. MigrationVerdict(n) = "current"
  <2>1. (\A i, j \in TimeoutsOf(n) : i = j) /\ TimeoutsOf(n) # {} /\ n[LeastOf(TimeoutsOf(n))] = "timeout"
    BY <1>12, <1>13
  <2> QED
    BY <1>15, <1>16, <2>1 DEF MigrationVerdict
<1>18. ASSUME NEW j \in 1..Len(s)  PROVE IsForeign(n, j) <=> IsForeign(s, j)
  <2>1. n[j] # "blank" <=> s[j] # "blank"
    BY <1>6
  <2> QED
    BY <1>5, <1>10, <2>1, ForeignAt
<1> DEFINE K == {j \in DOMAIN s : IsForeign(s, j)}
           L == {j \in DOMAIN n : IsForeign(n, j)}
<1>19. \A j \in 1..Len(n) : (j \in L <=> j \in K) /\ (j \in L => n[j] = s[j])
  <2>1. DOMAIN s = 1..Len(s) /\ DOMAIN n = 1..Len(s)
    BY <1>5, LinesAre
  <2> QED
    BY <1>1, <1>5, <1>6, <1>18, <2>1
<1> HIDE DEF K, L
<1>20. Picked(n, L) = Picked(s, K)
  BY <1>5, <1>19, PickedSame
<1>21. n # <<>>
  <2>1. Len(n) # 0
    BY <1>0, <1>5
  <2> QED
    BY <2>1, EmptySeq
<1> QED
  BY <1>5, <1>16, <1>17, <1>20, <1>21 DEF Foreign, K, L, n

-----------------------------------------------------------------------------
(* Every rewriting a process may make keeps what is not of triss.          *)

LEMMA VerdictTyped ==
  ASSUME NEW job \in Job, NEW s
  PROVE  Verdict(job, s) \in Outcome
<1>1. MigrationVerdict(s) \in {"malformed", "ambiguous", "absent", "current", "custom", "updated"}
  <2> DEFINE key == s[LeastOf(TimeoutsOf(s))]
             last == CASE key = "timeout" -> "current" [] key = "own timeout" -> "custom" [] OTHER -> "updated"
  <2>1. last \in {"current", "custom", "updated"}
    <3> HIDE DEF key
    <3> QED
      OBVIOUS
  <2>2. MigrationVerdict(s) \in {"malformed", "ambiguous", "absent", last}
    BY DEF MigrationVerdict
  <2> HIDE DEF last
  <2> QED
    BY <2>1, <2>2
<1>2. Verdict(job, s) \in {MigrationVerdict(s), "refused", "updated", "added", "removed", "absent", "present"}
  <2>1. CASE job = "migrate"
    BY <2>1 DEF Verdict
  <2>2. CASE job \in {"install", "install with env"}
    BY <2>2 DEF Verdict
  <2>3. CASE job = "uninstall"
    BY <2>3 DEF Verdict
  <2>4. CASE job = "status"
    BY <2>4 DEF Verdict
  <2> QED
    BY <2>1, <2>2, <2>3, <2>4 DEF Job
<1> DEFINE v == MigrationVerdict(s)
           w == Verdict(job, s)
<1> HIDE DEF v, w
<1>3. v \in {"malformed", "ambiguous", "absent", "current", "custom", "updated"}
      /\ w \in {v, "refused", "updated", "added", "removed", "absent", "present"}
  BY <1>1, <1>2 DEF v, w
<1>4. w \in Outcome
  BY <1>3 DEF Outcome
<1> QED
  BY <1>4 DEF w

\* When a process writes, and what it can count on then.
LEMMA WhatWrites ==
  ASSUME NEW job \in Job, NEW s, Writes(Verdict(job, s))
  PROVE  /\ job \in {"install", "install with env"} => Rewritable(s)
         /\ job = "uninstall" => Rewritable(s) /\ HasBlock(s)
         /\ job = "migrate" => MigrationVerdict(s) = "updated"
         /\ job # "status"
<1>1. ~Writes("refused") /\ ~Writes("absent") /\ ~Writes("present")
  BY DEF Writes
<1>2. ASSUME job # "migrate"  PROVE Rewritable(s)
  <2>1. ASSUME Malformed(s) \/ Refused(s)  PROVE FALSE
    BY <1>1, <1>2, <2>1 DEF Verdict
  <2> QED
    BY <2>1 DEF Rewritable
<1>3. ASSUME job = "uninstall"  PROVE HasBlock(s)
  <2>1. ASSUME ~HasBlock(s)  PROVE FALSE
    <3>1. ~(Malformed(s) \/ Refused(s))
      BY <1>2, <1>3 DEF Rewritable
    <3>2. Verdict(job, s) = "absent"
      BY <1>3, <2>1, <3>1 DEF Verdict
    <3> QED
      BY <1>1, <3>2
  <2> QED
    BY <2>1
<1>4. ASSUME job = "migrate"  PROVE MigrationVerdict(s) = "updated"
  <2> DEFINE key == s[LeastOf(TimeoutsOf(s))]
             last == CASE key = "timeout" -> "current" [] key = "own timeout" -> "custom" [] OTHER -> "updated"
             v == MigrationVerdict(s)
  <2>1. last \in {"current", "custom", "updated"}
    <3> HIDE DEF key
    <3> QED
      OBVIOUS
  <2>2. v \in {"malformed", "ambiguous", "absent", last}
    BY DEF MigrationVerdict
  <2>3. Writes(v)
    BY <1>4 DEF Verdict
  <2> HIDE DEF last, v
  <2>4. v = "updated"
    BY <2>1, <2>2, <2>3 DEF Writes
  <2> QED
    BY <2>4 DEF v
<1>5. ASSUME job = "status"  PROVE FALSE
  <2>1. ~(Malformed(s) \/ Refused(s))
    BY <1>2, <1>5 DEF Rewritable
  <2>2. Verdict(job, s) \in {"present", "absent"}
    BY <1>5, <2>1 DEF Verdict
  <2> QED
    BY <1>1, <2>2
<1> QED
  BY <1>2, <1>3, <1>4, <1>5

(* What a process writes in place of a text, for any text at all: one that *)
(* keeps the rest, and says of triss what the job was to say.              *)
Sound(job, old, new) ==
  /\ new \in Lines /\ new # <<>> /\ ~Malformed(new) /\ ~Refused(new) /\ Foreign(new) = Foreign(old)
  /\ job \in {"install", "install with env"} =>
       /\ HasBlock(new) /\ ~Pinned(new) /\ MigrationVerdict(new) = "current"
       /\ Inked(Applied(job, new)) = Inked(new)
  /\ job = "uninstall" => ~HasBlock(new)
  /\ job = "migrate" => MigrationVerdict(new) = "current"

LEMMA RewriteIsSound ==
  ASSUME NEW job \in Job, NEW s \in Lines, s # <<>>, Writes(Verdict(job, s))
  PROVE  Sound(job, s, Applied(job, s))
<1>1. CASE job \in {"install", "install with env"}
  <2> DEFINE env == job = "install with env"
  <2>1. \A x : Applied(job, x) = WithBlock(x, env)
    BY <1>1 DEF Applied
  <2>2. Rewritable(s)
    BY <1>1, WhatWrites
  <2>3. job # "uninstall" /\ job # "migrate"
    BY <1>1
  <2> HIDE DEF env
  <2> DEFINE new == WithBlock(s, env)
  <2>4. /\ new \in Lines /\ new # <<>> /\ ~Malformed(new) /\ ~Refused(new) /\ Foreign(new) = Foreign(s)
        /\ HasBlock(new) /\ ~Pinned(new) /\ MigrationVerdict(new) = "current"
        /\ Inked(WithBlock(new, env)) = Inked(new)
    BY <2>2, InstallKeeps
  <2>5. Applied(job, s) = new /\ Applied(job, new) = WithBlock(new, env)
    BY <2>1
  <2> HIDE DEF new
  <2> QED
    BY <2>3, <2>4, <2>5 DEF Sound
<1>2. CASE job = "uninstall"
  <2>1. Applied(job, s) = Stripped(s)
    BY <1>2 DEF Applied
  <2>2. Rewritable(s) /\ HasBlock(s) /\ job \notin {"install", "install with env"} /\ job # "migrate"
    BY <1>2, WhatWrites
  <2> QED
    BY <2>1, <2>2, UninstallKeeps DEF Sound
<1>3. CASE job = "migrate"
  <2>1. Applied(job, s) = Migrated(s)
    BY <1>3 DEF Applied
  <2>2. MigrationVerdict(s) = "updated" /\ job \notin {"install", "install with env"} /\ job # "uninstall"
    BY <1>3, WhatWrites
  <2> QED
    BY <2>1, <2>2, MigrateKeeps DEF Sound
<1>4. job # "status"
  BY WhatWrites
<1> QED
  BY <1>1, <1>2, <1>3, <1>4 DEF Job

-----------------------------------------------------------------------------
(* The registration.  A process that writes has read a text whose rewriting *)
(* is sound; at its last two steps what it has read is the file, or another *)
(* write has come in between.                                              *)

LateAt == {"identity", "rename"}
WritingAt == {"again", "temp", "recheck"} \cup LateAt
RegistrarRow == [job : Job, at : ToolAt, saw : ConfigFile \cup {NoConfig}, says : Outcome]
RowFits(row) ==
  /\ row \in RegistrarRow
  /\ row.at \in {"reading", "re-read"} => row.saw # NoConfig
  /\ row.at \in WritingAt /\ row.saw # NoConfig => Writes(Verdict(row.job, row.saw.text))

RegistrarsFit == DOMAIN registrar = Registrar /\ \A t \in Registrar : RowFits(registrar[t])
ConfigTyped ==
  /\ config \in ConfigFile \cup {NoConfig} /\ entries \in Nat
  /\ lateSave \subseteq Registrar /\ lostSave \subseteq Registrar
ReadOrLate == \A t \in Registrar : registrar[t].at \in LateAt => config = registrar[t].saw \/ t \in lateSave
CodexIInv == RegistrarsFit /\ ConfigTyped /\ ReadOrLate /\ OnlyALateSaveIsLost

LEMMA FileIs ==
  ASSUME NEW held \in ConfigFile
  PROVE  /\ held # NoConfig /\ held.text \in Toml /\ held.entry \in Nat /\ held.inode \in Nat /\ held.link \in BOOLEAN
         /\ \A text \in Toml : [held EXCEPT !.text = text] \in ConfigFile
         /\ \A inode \in Nat, text \in Toml : [held EXCEPT !.inode = inode, !.text = text] \in ConfigFile
<1>1. held # NoConfig
  BY CodexAssumption
<1> DEFINE T == Toml
<1> HIDE DEF T
<1>2. held \in [entry : Nat, inode : Nat, link : BOOLEAN, text : T]
  BY DEF ConfigFile, T
<1>3. held.text \in T /\ held.entry \in Nat /\ held.inode \in Nat /\ held.link \in BOOLEAN
  BY <1>2
<1>4. \A text \in T : [held EXCEPT !.text = text] \in [entry : Nat, inode : Nat, link : BOOLEAN, text : T]
  BY <1>2
<1>5. \A inode \in Nat, text \in T :
        [held EXCEPT !.inode = inode, !.text = text] \in [entry : Nat, inode : Nat, link : BOOLEAN, text : T]
  BY <1>2
<1> QED
  BY <1>1, <1>3, <1>4, <1>5 DEF ConfigFile, T

LEMMA FileMade ==
  ASSUME NEW entry \in Nat, NEW inode \in Nat, NEW link \in BOOLEAN, NEW text \in Toml
  PROVE  [entry |-> entry, inode |-> inode, link |-> link, text |-> text] \in ConfigFile
  BY DEF ConfigFile

LEMMA RowIs ==
  ASSUME NEW row \in RegistrarRow
  PROVE  row.job \in Job /\ row.at \in ToolAt /\ row.saw \in ConfigFile \cup {NoConfig} /\ row.says \in Outcome
  BY DEF RegistrarRow

\* A process goes on to a place it may be at.
LEMMA RowGoes ==
  ASSUME NEW row, RowFits(row), NEW at \in ToolAt,
         at \in {"reading", "re-read"} => row.saw # NoConfig,
         at \in WritingAt /\ row.saw # NoConfig => Writes(Verdict(row.job, row.saw.text))
  PROVE  LET new == [row EXCEPT !.at = at] IN RowFits(new) /\ new.at = at /\ new.saw = row.saw
<1> DEFINE new == [row EXCEPT !.at = at]
<1>1. row \in RegistrarRow
  BY DEF RowFits
<1>2. new \in RegistrarRow /\ new.at = at /\ new.saw = row.saw /\ new.job = row.job
  BY <1>1 DEF RegistrarRow
<1> HIDE DEF new
<1>3. RowFits(new)
  BY <1>2 DEF RowFits
<1> QED
  BY <1>2, <1>3 DEF new

LEMMA RowEnds ==
  ASSUME NEW row, RowFits(row), NEW says \in Outcome
  PROVE  LET new == [row EXCEPT !.at = "done", !.says = says] IN RowFits(new) /\ new.at = "done"
<1> DEFINE new == [row EXCEPT !.at = "done", !.says = says]
<1>1. row \in RegistrarRow
  BY DEF RowFits
<1>2. new \in RegistrarRow /\ new.at = "done"
  BY <1>1 DEF RegistrarRow, ToolAt
<1> HIDE DEF new
<1>3. RowFits(new)
  BY <1>2 DEF RowFits, WritingAt, LateAt
<1> QED
  BY <1>2, <1>3 DEF new

\* What a process has just read has still to be judged.
ReadsTo(saw, at) ==
  saw \in ConfigFile \cup {NoConfig} /\ at \in {"reading", "re-read", "temp"} /\ (at = "temp" <=> saw = NoConfig)

LEMMA RowReads ==
  ASSUME NEW row, RowFits(row), NEW saw, NEW at, ReadsTo(saw, at)
  PROVE  LET new == [row EXCEPT !.saw = saw, !.at = at] IN RowFits(new) /\ new.at = at
<1> DEFINE new == [row EXCEPT !.saw = saw, !.at = at]
<1>1. row \in RegistrarRow
  BY DEF RowFits
<1>2. new \in RegistrarRow /\ new.at = at /\ new.saw = saw
  <2>1. at \in ToolAt /\ saw \in ConfigFile \cup {NoConfig}
    BY DEF ReadsTo, ToolAt
  <2> QED
    BY <1>1, <2>1 DEF RegistrarRow
<1> HIDE DEF new
<1>3. RowFits(new)
  BY <1>2 DEF RowFits, WritingAt, LateAt, ReadsTo
<1> QED
  BY <1>2, <1>3 DEF new

LEMMA QuietStep ==
  ASSUME CodexIInv, ConfigStays, NEW t \in Registrar, NEW row, registrar' = [registrar EXCEPT ![t] = row],
         RowFits(row), row.at \in LateAt => config = row.saw \/ t \in lateSave
  PROVE  CodexIInv'
<1>1. registrar'[t] = row /\ (\A u \in Registrar \ {t} : registrar'[u] = registrar[u]) /\ DOMAIN registrar' = Registrar
  BY DEF CodexIInv, RegistrarsFit
<1>2. config' = config /\ entries' = entries /\ lateSave' = lateSave /\ lostSave' = lostSave
  BY DEF ConfigStays
<1>3. ReadOrLate'
  BY <1>1, <1>2 DEF CodexIInv, ReadOrLate
<1>4. RegistrarsFit'
  BY <1>1 DEF CodexIInv, RegistrarsFit
<1>5. ConfigTyped' /\ OnlyALateSaveIsLost'
  BY <1>2 DEF CodexIInv, ConfigTyped, OnlyALateSaveIsLost
<1> QED
  BY <1>3, <1>4, <1>5 DEF CodexIInv

\* Where a process may go from what it has read.
MayGo(t, at) ==
  LET row == registrar[t] IN
  /\ at \in ToolAt \ {"reading", "re-read"}
  /\ at \in WritingAt /\ row.saw # NoConfig => Writes(Verdict(row.job, row.saw.text))
  /\ at \in LateAt => config = row.saw \/ t \in lateSave

LEMMA GoesKeeps ==
  ASSUME CodexIInv, ConfigStays, NEW t \in Registrar, NEW at, MayGo(t, at), Goes(t, at)
  PROVE  CodexIInv'
<1> DEFINE row == registrar[t]
           new == [row EXCEPT !.at = at]
<1>1. RowFits(row)
  BY DEF CodexIInv, RegistrarsFit
<1>2. registrar' = [registrar EXCEPT ![t] = new]
  BY DEF Goes
<1>3. /\ at \in ToolAt /\ at \notin {"reading", "re-read"}
      /\ at \in WritingAt /\ row.saw # NoConfig => Writes(Verdict(row.job, row.saw.text))
      /\ at \in LateAt => config = row.saw \/ t \in lateSave
  BY DEF MayGo
<1> HIDE DEF row
<1>4. RowFits(new) /\ new.at = at /\ new.saw = row.saw
  BY <1>1, <1>3, RowGoes
<1> HIDE DEF new
<1> QED
  BY <1>2, <1>3, <1>4, QuietStep

LEMMA EndsKeeps ==
  ASSUME CodexIInv, ConfigStays, NEW t \in Registrar, NEW says \in Outcome, Ends(t, says)
  PROVE  CodexIInv'
<1> DEFINE row == registrar[t]
           new == [row EXCEPT !.at = "done", !.says = says]
<1>1. RowFits(row)
  BY DEF CodexIInv, RegistrarsFit
<1>2. registrar' = [registrar EXCEPT ![t] = new]
  BY DEF Ends
<1> HIDE DEF row
<1>3. RowFits(new) /\ new.at = "done"
  BY <1>1, RowEnds
<1> HIDE DEF new
<1> QED
  BY <1>2, <1>3, QuietStep DEF LateAt

LEMMA ReadsKeeps ==
  ASSUME CodexIInv, ConfigStays, NEW t \in Registrar,
         NEW saw, NEW at, ReadsTo(saw, at),
         registrar' = [registrar EXCEPT ![t] = [registrar[t] EXCEPT !.saw = saw, !.at = at]]
  PROVE  CodexIInv'
<1> DEFINE row == registrar[t]
           new == [row EXCEPT !.saw = saw, !.at = at]
<1>1. RowFits(row)
  BY DEF CodexIInv, RegistrarsFit
<1>2. registrar' = [registrar EXCEPT ![t] = new]
  OBVIOUS
<1> HIDE DEF row
<1>3. RowFits(new) /\ new.at = at
  BY <1>1, RowReads
<1> HIDE DEF new
<1> QED
  BY <1>2, <1>3, QuietStep DEF LateAt, ReadsTo

LEMMA CaptureKeeps == ASSUME CodexIInv, NEW t \in Registrar, Capture(t) PROVE CodexIInv'
<1>1. ConfigStays /\ config \in ConfigFile \cup {NoConfig}
  BY DEF Capture, CodexIInv, ConfigTyped
<1>2. CASE Ends(t, "absent")
  BY <1>1, <1>2, EndsKeeps DEF Outcome
<1>3. CASE ~Ends(t, "absent")
  <2> DEFINE at == IF config = NoConfig THEN "temp" ELSE "reading"
  <2>1. registrar' = [registrar EXCEPT ![t].saw = config, ![t].at = at]
    BY <1>3 DEF Capture
  <2>2. ReadsTo(config, at)
    BY <1>1 DEF ReadsTo
  <2> HIDE DEF at
  <2>3. registrar' = [registrar EXCEPT ![t] = [registrar[t] EXCEPT !.saw = config, !.at = at]]
    BY <2>1
  <2> QED
    BY <1>1, <2>2, <2>3, ReadsKeeps
<1> QED
  BY <1>2, <1>3

LEMMA ReadTextKeeps == ASSUME CodexIInv, NEW t \in Registrar, ReadText(t) PROVE CodexIInv'
<1>1. ConfigStays /\ config \in ConfigFile \cup {NoConfig} /\ RowFits(registrar[t]) /\ At(t, "reading")
  BY DEF ReadText, CodexIInv, ConfigTyped, RegistrarsFit
<1>2. CASE Ends(t, "absent")
  BY <1>1, <1>2, EndsKeeps DEF Outcome
<1>3. CASE config = NoConfig /\ ~Ends(t, "absent")
  <2>1. registrar' = [registrar EXCEPT ![t].saw = NoConfig, ![t].at = "temp"]
    BY <1>3 DEF ReadText
  <2>2. registrar' = [registrar EXCEPT ![t] = [registrar[t] EXCEPT !.saw = NoConfig, !.at = "temp"]]
    BY <2>1
  <2>3. ReadsTo(NoConfig, "temp")
    BY DEF ReadsTo
  <2> QED
    BY <1>1, <2>2, <2>3, ReadsKeeps
<1>4. CASE config # NoConfig
  <2>1. registrar' = [registrar EXCEPT ![t].saw.text = config.text, ![t].at = "re-read"]
    BY <1>4 DEF ReadText
  <2> DEFINE row == registrar[t]
             saw == [row.saw EXCEPT !.text = config.text]
  <2>2. row \in RegistrarRow /\ row.saw # NoConfig
    BY <1>1 DEF RowFits, At
  <2>3. row.saw \in ConfigFile /\ config.text \in Toml
    BY <1>1, <1>4, <2>2, RowIs, FileIs
  <2>4. saw \in ConfigFile
    <3> DEFINE held == row.saw
               text == config.text
    <3>1. held \in ConfigFile /\ text \in Toml
      BY <2>3
    <3> HIDE DEF held, text
    <3>2. [held EXCEPT !.text = text] \in ConfigFile
      BY <3>1, FileIs
    <3> QED
      BY <3>2 DEF held, text
  <2>5. saw # NoConfig
    BY <2>4, CodexAssumption
  <2>6. registrar' = [registrar EXCEPT ![t] = [registrar[t] EXCEPT !.saw = saw, !.at = "re-read"]]
    BY <2>1
  <2> HIDE DEF saw, row
  <2>7. ReadsTo(saw, "re-read")
    BY <2>4, <2>5 DEF ReadsTo
  <2> QED
    BY <1>1, <2>6, <2>7, ReadsKeeps
<1> QED
  BY <1>2, <1>3, <1>4

-----------------------------------------------------------------------------
(* Every step of a registration, and every save of the user's.             *)

LEMMA AnalyseKeeps == ASSUME CodexIInv, NEW t \in Registrar, Analyse(t) PROVE CodexIInv'
<1> DEFINE row == registrar[t]
           outcome == Verdict(row.job, row.saw.text)
<1>1. ConfigStays /\ RowFits(row)
  BY DEF Analyse, CodexIInv, RegistrarsFit
<1>2. outcome \in Outcome
  BY <1>1, RowIs, VerdictTyped DEF RowFits
<1>3. \/ Ends(t, "conflict") \/ Ends(t, "refused") \/ Ends(t, outcome)
      \/ Writes(outcome) /\ (Goes(t, "again") \/ Goes(t, "temp"))
  BY DEF Analyse
<1>4. CASE Ends(t, "conflict") \/ Ends(t, "refused") \/ Ends(t, outcome)
  <2>1. "conflict" \in Outcome /\ "refused" \in Outcome
    BY DEF Outcome
  <2> HIDE DEF outcome
  <2> QED
    BY <1>1, <1>2, <1>4, <2>1, EndsKeeps
<1>5. CASE Writes(outcome) /\ (Goes(t, "again") \/ Goes(t, "temp"))
  <2>1. MayGo(t, "again") /\ MayGo(t, "temp")
    BY <1>5 DEF MayGo, ToolAt, LateAt
  <2> QED
    BY <1>1, <1>5, <2>1, GoesKeeps
<1> QED
  BY <1>3, <1>4, <1>5

\* Once it writes, a process goes on to write what it was to write.
LEMMA WaysOnAre ==
  ASSUME CodexIInv, NEW t \in Registrar, registrar[t].at \in WritingAt,
         NEW at \in {"temp", "recheck", "identity", "rename", "dead"},
         at \in LateAt => config = registrar[t].saw \/ t \in lateSave
  PROVE  MayGo(t, at)
<1> DEFINE row == registrar[t]
<1>1. RowFits(row) /\ row.at \in WritingAt
  BY DEF CodexIInv, RegistrarsFit
<1>2. row.saw # NoConfig => Writes(Verdict(row.job, row.saw.text))
  BY <1>1 DEF RowFits
<1>3. at \in ToolAt \ {"reading", "re-read"}
  BY DEF ToolAt
<1> QED
  BY <1>2, <1>3 DEF MayGo

LEMMA WaysOn ==
  ASSUME CodexIInv, ConfigStays, NEW t \in Registrar, registrar[t].at \in WritingAt
  PROVE  /\ \A at \in {"temp", "recheck", "dead"} : Goes(t, at) => CodexIInv'
         /\ \A at \in LateAt : Goes(t, at) /\ (config = registrar[t].saw \/ t \in lateSave) => CodexIInv'
         /\ Ends(t, "conflict") \/ Ends(t, "refused") => CodexIInv'
<1>1. ASSUME NEW at \in {"temp", "recheck", "dead"}, Goes(t, at)  PROVE CodexIInv'
  <2>1. MayGo(t, at)
    BY WaysOnAre DEF LateAt
  <2> QED
    BY <1>1, <2>1, GoesKeeps
<1>2. ASSUME NEW at \in LateAt, Goes(t, at), config = registrar[t].saw \/ t \in lateSave  PROVE CodexIInv'
  <2>1. MayGo(t, at)
    BY <1>2, WaysOnAre DEF LateAt
  <2> QED
    BY <1>2, <2>1, GoesKeeps
<1>3. ASSUME Ends(t, "conflict") \/ Ends(t, "refused")  PROVE CodexIInv'
  <2>1. "conflict" \in Outcome /\ "refused" \in Outcome
    BY DEF Outcome
  <2> QED
    BY <1>3, <2>1, EndsKeeps
<1> QED
  BY <1>1, <1>2, <1>3

\* What a process is about to write is a text.
LEMMA WrittenIsText ==
  ASSUME CodexIInv, NEW t \in Registrar, registrar[t].at \in WritingAt
  PROVE  TextToWrite(t) \in Toml
<1> DEFINE row == registrar[t]
<1>1. RowFits(row) /\ row.at \in WritingAt
  BY DEF CodexIInv, RegistrarsFit
<1>2. CASE row.saw = NoConfig
  <2> DEFINE r == Rendered(row.job = "install with env")
  <2>1. r \in Lines /\ r[1] = "root" /\ (Len(r) = 4 \/ Len(r) = 7)
    BY RenderedIs
  <2>2. TextToWrite(t) = r
    BY <1>2 DEF TextToWrite
  <2> HIDE DEF r
  <2>3. r # <<>>
    BY <2>1, EmptySeq
  <2> QED
    BY <2>1, <2>2, <2>3 DEF Lines, Toml
<1>3. CASE row.saw # NoConfig
  <2> DEFINE job == row.job
             s == row.saw.text
  <2>1. job \in Job /\ s \in Toml /\ Writes(Verdict(job, s))
    BY <1>1, <1>3, RowIs, FileIs DEF RowFits
  <2>2. TextToWrite(t) = Applied(job, s)
    BY <1>3 DEF TextToWrite
  <2> HIDE DEF job, s
  <2>3. s \in Lines /\ s # <<>>
    BY <2>1 DEF Toml, Lines
  <2>4. Sound(job, s, Applied(job, s))
    BY <2>1, <2>3, RewriteIsSound
  <2>5. Applied(job, s) \in Lines /\ Applied(job, s) # <<>>
    BY <2>4 DEF Sound
  <2> QED
    BY <2>2, <2>5 DEF Lines, Toml
<1> QED
  BY <1>2, <1>3

LEMMA RenameKeeps == ASSUME CodexIInv, NEW t \in Registrar, RenameConfig(t) PROVE CodexIInv'
<1>1. registrar[t].at = "rename" /\ registrar[t].at \in WritingAt
  BY DEF RenameConfig, At, WritingAt, LateAt
<1>2. CASE Ends(t, "refused") /\ ConfigStays
  BY <1>1, <1>2, WaysOn
<1>3. CASE ~(registrar[t].saw = NoConfig /\ config # NoConfig)
  <2> DEFINE outcome == IF registrar[t].saw = NoConfig THEN "added" ELSE Verdict(registrar[t].job, registrar[t].saw.text)
             written == TextToWrite(t)
             row == registrar[t]
             new == [row EXCEPT !.at = "done", !.says = outcome]
  <2>1. /\ Overtake(t) /\ entries' = entries + 1 /\ Ends(t, outcome)
        /\ lostSave' = IF config = registrar[t].saw THEN lostSave ELSE lostSave \cup {t}
        /\ config' = IF config # NoConfig /\ config.link
                     THEN [config EXCEPT !.inode = entries + 1, !.text = written]
                     ELSE [entry |-> entries + 1, inode |-> entries + 1, link |-> FALSE, text |-> written]
    BY <1>3 DEF RenameConfig
  <2>2. RowFits(row)
    BY DEF CodexIInv, RegistrarsFit
  <2>3. outcome \in Outcome
    <3>1. "added" \in Outcome
      BY DEF Outcome
    <3>2. Verdict(row.job, row.saw.text) \in Outcome
      BY <2>2, RowIs, VerdictTyped DEF RowFits
    <3> QED
      BY <3>1, <3>2
  <2>4. written \in Toml
    BY <1>1, WrittenIsText
  <2>5. registrar' = [registrar EXCEPT ![t] = new]
    BY <2>1 DEF Ends
  <2> HIDE DEF outcome, written
  <2>6. RowFits(new) /\ new.at = "done"
    <3> HIDE DEF row
    <3> QED
      BY <2>2, <2>3, RowEnds
  <2> HIDE DEF new
  <2>7. registrar'[t] = new /\ (\A u \in Registrar \ {t} : registrar'[u] = registrar[u]) /\ DOMAIN registrar' = Registrar
    BY <2>5 DEF CodexIInv, RegistrarsFit
  <2>8. RegistrarsFit'
    BY <2>6, <2>7 DEF CodexIInv, RegistrarsFit
  <2>9. ReadOrLate'
    BY <2>1, <2>6, <2>7 DEF ReadOrLate, LateAt, Overtake
  <2>10. config = registrar[t].saw \/ t \in lateSave
    BY <1>1 DEF CodexIInv, ReadOrLate, LateAt
  <2>11. OnlyALateSaveIsLost'
    BY <2>1, <2>10 DEF CodexIInv, OnlyALateSaveIsLost, Overtake
  <2>12. config' \in ConfigFile
    <3>1. entries + 1 \in Nat /\ config \in ConfigFile \cup {NoConfig}
      BY DEF CodexIInv, ConfigTyped
    <3> DEFINE e == entries + 1
    <3> HIDE DEF e
    <3>2. e \in Nat
      BY <3>1 DEF e
    <3>3. [entry |-> e, inode |-> e, link |-> FALSE, text |-> written] \in ConfigFile
      BY <2>4, <3>2, FileMade
    <3>4. config # NoConfig => [config EXCEPT !.inode = e, !.text = written] \in ConfigFile
      BY <2>4, <3>1, <3>2, FileIs
    <3> QED
      BY <2>1, <3>3, <3>4 DEF e
  <2>13. ConfigTyped'
    <3>1. lateSave' \subseteq Registrar /\ lostSave' \subseteq Registrar /\ entries' \in Nat
      BY <2>1 DEF CodexIInv, ConfigTyped, Overtake
    <3> QED
      BY <2>12, <3>1 DEF ConfigTyped
  <2> QED
    BY <2>8, <2>9, <2>11, <2>13 DEF CodexIInv
<1> QED
  BY <1>2, <1>3 DEF RenameConfig

LEMMA SaveKeeps == ASSUME CodexIInv, UserSaves PROVE CodexIInv'
<1>1. /\ registrar' = registrar /\ lostSave' = lostSave
      /\ lateSave' = lateSave \cup {t \in Registrar : registrar[t].at \in LateAt}
  BY DEF UserSaves, LateAt
<1>2. config \in ConfigFile \cup {NoConfig} /\ entries \in Nat /\ lateSave \subseteq Registrar /\ lostSave \subseteq Registrar
  BY DEF CodexIInv, ConfigTyped
<1>3. PICK text \in Saves :
       \/ config # NoConfig /\ config' = [config EXCEPT !.text = text] /\ entries' = entries
       \/ /\ config' = [entry |-> entries + 1, inode |-> entries + 1, link |-> FALSE, text |-> text]
          /\ entries' = entries + 1
       \/ /\ config' = [entry |-> entries + 1, inode |-> entries + 2, link |-> TRUE, text |-> text]
          /\ entries' = entries + 2
       \/ config # NoConfig /\ config' = NoConfig /\ entries' = entries
  BY DEF UserSaves
<1>4. text \in Toml
  BY CodexAssumption
<1>5. config' \in ConfigFile \cup {NoConfig} /\ entries' \in Nat
  <2>1. CASE config # NoConfig /\ config' = [config EXCEPT !.text = text] /\ entries' = entries
    BY <1>2, <1>4, <2>1, FileIs
  <2>2. CASE config' = [entry |-> entries + 1, inode |-> entries + 1, link |-> FALSE, text |-> text] /\ entries' = entries + 1
    <3>1. entries + 1 \in Nat
      BY <1>2
    <3> QED
      BY <1>4, <2>2, <3>1, FileMade
  <2>3. CASE config' = [entry |-> entries + 1, inode |-> entries + 2, link |-> TRUE, text |-> text] /\ entries' = entries + 2
    <3>1. entries + 1 \in Nat /\ entries + 2 \in Nat
      BY <1>2
    <3> QED
      BY <1>4, <2>3, <3>1, FileMade
  <2>4. CASE config # NoConfig /\ config' = NoConfig /\ entries' = entries
    BY <1>2, <2>4
  <2> QED
    BY <1>3, <2>1, <2>2, <2>3, <2>4
<1>6. ConfigTyped'
  <2>1. lateSave' \subseteq Registrar /\ lostSave' \subseteq Registrar
    BY <1>1, <1>2
  <2> QED
    BY <1>5, <2>1 DEF ConfigTyped
<1>7. RegistrarsFit' /\ ReadOrLate' /\ OnlyALateSaveIsLost'
  BY <1>1 DEF CodexIInv, RegistrarsFit, ReadOrLate, OnlyALateSaveIsLost
<1> QED
  BY <1>6, <1>7 DEF CodexIInv

LEMMA CodexIInvNext == CodexIInv /\ [CodexNext]_codexVars => CodexIInv'
<1> SUFFICES ASSUME CodexIInv, [CodexNext]_codexVars PROVE CodexIInv'
  OBVIOUS
<1>1. CASE UNCHANGED codexVars
  BY <1>1 DEF codexVars, CodexIInv, RegistrarsFit, ConfigTyped, ReadOrLate, OnlyALateSaveIsLost
<1>2. CASE UserSaves
  BY <1>2, SaveKeeps
<1>3. ASSUME NEW t \in Registrar, CodexStep(t)  PROVE CodexIInv'
  <2>1. CASE Capture(t)
    BY <2>1, CaptureKeeps
  <2>2. CASE ReadText(t)
    BY <2>2, ReadTextKeeps
  <2>3. CASE Analyse(t)
    BY <2>3, AnalyseKeeps
  <2>4. CASE ReadAgain(t)
    <3>1. ConfigStays /\ registrar[t].at \in WritingAt /\ (Goes(t, "temp") \/ Ends(t, "conflict"))
      BY <2>4 DEF ReadAgain, At, WritingAt
    <3> QED
      BY <3>1, WaysOn
  <2>5. CASE WriteTempConfig(t)
    <3>1. ConfigStays /\ registrar[t].at \in WritingAt /\ (Goes(t, "recheck") \/ Ends(t, "refused"))
      BY <2>5 DEF WriteTempConfig, At, WritingAt
    <3> QED
      BY <3>1, WaysOn
  <2>6. CASE CodexToolDies(t)
    <3>1. ConfigStays /\ registrar[t].at \in WritingAt /\ Goes(t, "dead")
      BY <2>6 DEF CodexToolDies, WritingAt, LateAt
    <3> QED
      BY <3>1, WaysOn
  <2>7. CASE RecheckConfig(t)
    <3>1. ConfigStays /\ registrar[t].at \in WritingAt /\ ((config = registrar[t].saw /\ Goes(t, "identity")) \/ Ends(t, "refused"))
      BY <2>7 DEF RecheckConfig, At, WritingAt
    <3>2. "identity" \in LateAt
      BY DEF LateAt
    <3> QED
      BY <3>1, <3>2, WaysOn
  <2>8. CASE CheckConfigIdentity(t)
    <3>1. ConfigStays /\ registrar[t].at = "identity" /\ (Goes(t, "rename") \/ Ends(t, "refused"))
      BY <2>8 DEF CheckConfigIdentity, At
    <3>2. "rename" \in LateAt /\ registrar[t].at \in LateAt /\ registrar[t].at \in WritingAt
      BY <3>1 DEF LateAt, WritingAt
    <3>3. config = registrar[t].saw \/ t \in lateSave
      BY <3>2 DEF CodexIInv, ReadOrLate
    <3> QED
      BY <3>1, <3>2, <3>3, WaysOn
  <2>9. CASE RenameConfig(t)
    BY <2>9, RenameKeeps
  <2> QED
    BY <1>3, <2>1, <2>2, <2>3, <2>4, <2>5, <2>6, <2>7, <2>8, <2>9 DEF CodexStep
<1> QED
  BY <1>1, <1>2, <1>3 DEF CodexNext

LEMMA CodexIInvInit == CodexInit => CodexIInv
<1> SUFFICES ASSUME CodexInit PROVE CodexIInv
  OBVIOUS
<1>1. registrar \in [Registrar -> [job : Job, at : {"ready"}, saw : {NoConfig}, says : {"none"}]]
      /\ lateSave = {} /\ lostSave = {} /\ entries = 1
  BY DEF CodexInit
<1>2. config \in ConfigFile \cup {NoConfig}
  <2>1. config \in {NoConfig} \cup {AFile(text) : text \in Drafts} \cup {ALink(text) : text \in Saves}
    BY DEF CodexInit
  <2>2. \A text \in Drafts : AFile(text) \in ConfigFile
    BY CodexAssumption, FileMade DEF AFile
  <2>3. \A text \in Saves : ALink(text) \in ConfigFile
    BY CodexAssumption, FileMade DEF ALink
  <2> QED
    BY <2>1, <2>2, <2>3
<1>3. ConfigTyped
  BY <1>1, <1>2 DEF ConfigTyped
<1>4. ASSUME NEW t \in Registrar  PROVE RowFits(registrar[t]) /\ registrar[t].at = "ready"
  <2> DEFINE row == registrar[t]
  <2>1. row \in [job : Job, at : {"ready"}, saw : {NoConfig}, says : {"none"}]
    BY <1>1
  <2> HIDE DEF row
  <2>2. row.at = "ready" /\ row \in RegistrarRow
    BY <2>1 DEF RegistrarRow, ToolAt, Outcome
  <2>3. RowFits(row)
    BY <2>2 DEF RowFits, WritingAt, LateAt
  <2> QED
    BY <2>2, <2>3 DEF row
<1>5. RegistrarsFit
  BY <1>1, <1>4 DEF RegistrarsFit
<1>6. ReadOrLate
  BY <1>4 DEF ReadOrLate, LateAt
<1> QED
  BY <1>1, <1>3, <1>5, <1>6 DEF CodexIInv, OnlyALateSaveIsLost

LEMMA CodexIInvImplies == CodexIInv => CodexInv
<1> SUFFICES ASSUME CodexIInv PROVE CodexInv
  OBVIOUS
<1>1. CodexTypeOK
  <2>1. \A t \in Registrar : registrar[t].job \in Job /\ registrar[t].at \in ToolAt /\ registrar[t].says \in Outcome
    BY RowIs DEF CodexIInv, RegistrarsFit, RowFits
  <2> QED
    BY <2>1 DEF CodexIInv, ConfigTyped, CodexTypeOK
<1>2. RewriteKeepsTheRest
  <2> SUFFICES ASSUME NEW t \in Registrar, At(t, "temp"), registrar[t].saw # NoConfig
               PROVE  LET old == registrar[t].saw.text
                          new == TextToWrite(t)
                      IN /\ ~Malformed(new) /\ ~Refused(new)
                         /\ Foreign(new) = Foreign(old)
                         /\ registrar[t].job \in {"install", "install with env"} =>
                              /\ HasBlock(new) /\ ~Pinned(new)
                              /\ MigrationVerdict(new) = "current"
                              /\ Inked(Applied(registrar[t].job, new)) = Inked(new)
                         /\ registrar[t].job = "uninstall" => ~HasBlock(new)
                         /\ registrar[t].job = "migrate" => MigrationVerdict(new) = "current"
    BY DEF RewriteKeepsTheRest
  <2> DEFINE row == registrar[t]
             job == row.job
             s == row.saw.text
  <2>1. RowFits(row) /\ row.at \in WritingAt /\ row.saw # NoConfig
    BY DEF CodexIInv, RegistrarsFit, At, WritingAt
  <2>2. job \in Job /\ s \in Toml /\ Writes(Verdict(job, s))
    BY <2>1, RowIs, FileIs DEF RowFits
  <2>3. TextToWrite(t) = Applied(job, s)
    BY DEF TextToWrite
  <2> HIDE DEF job, s
  <2>4. s \in Lines /\ s # <<>>
    BY <2>2 DEF Toml, Lines
  <2>5. Sound(job, s, Applied(job, s))
    BY <2>2, <2>4, RewriteIsSound
  <2>6. Sound(registrar[t].job, registrar[t].saw.text, TextToWrite(t))
    BY <2>3, <2>5 DEF job, s
  <2> QED
    BY <2>6 DEF Sound
<1> QED
  BY <1>1, <1>2 DEF CodexInv, CodexIInv

(* For any text of lines, any number of processes that install, remove or  *)
(* migrate the registration, and any saves of the user's meanwhile: what a *)
(* process is about to write keeps every line of another table in its      *)
(* order, is a file the scanner accepts, has one table of triss after an   *)
(* install, that a second install leaves as it is, and none after an       *)
(* uninstall; and a save is overwritten only when it came after the last   *)
(* check of the text.                                                      *)
THEOREM CodexIsSafe == CodexSpec => []CodexInv
<1>1. CodexSpec => []CodexIInv
  BY CodexIInvInit, CodexIInvNext, PTL DEF CodexSpec
<1> QED
  BY <1>1, CodexIInvImplies, PTL

=============================================================================
