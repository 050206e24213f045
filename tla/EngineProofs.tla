---------------------------- MODULE EngineProofs ----------------------------
(***************************************************************************)
(* What surrounds an engine: a call resolves only after the engine's whole *)
(* process group is gone, where signal 0 tells the truth about a group;    *)
(* the notices of newer releases that servers and commands show beside it; *)
(* and what the setup wizard promises and the env files then say.          *)
(***************************************************************************)
EXTENDS EngineSupervision, UpdateNotices, Setup, FiniteSetTheorems, SequenceTheorems, TLAPS

-----------------------------------------------------------------------------
(* The supervision of one engine                                           *)

LEMMA EngineInvInit == Init => EngineInv
  BY DEF Init, EngineInv, TypeOK, SpawnInv, CleanupInv, SourcesInv, Descends, Causes

\* One callback, or one event in the life of the processes, keeps what the
\* outcome of the call rests on.
LEMMA OutcomeStep ==
  ASSUME ~ProbeDenied, TypeOK, SpawnInv, CleanupInv, [Next]_vars
  PROVE  TypeOK' /\ SpawnInv' /\ CleanupInv'
<1> USE FlagAssumption DEF TypeOK, SpawnInv, CleanupInv, Descends, Causes
<1>0. crush' \in BOOLEAN
  BY DEF Next, vars
<1> USE <1>0
<1>1. CASE DescendantStarts
  BY <1>1 DEF DescendantStarts, flags
<1>2. CASE DescendantLeaves
  BY <1>2 DEF DescendantLeaves, flags
<1>3. CASE DescendantEnds
  BY <1>3 DEF DescendantEnds, flags
<1>4. CASE LeaderEnds
  BY <1>4 DEF LeaderEnds, flags
<1>5. CASE NumberReused
  BY <1>5 DEF NumberReused, flags
<1>6. CASE Start
  BY <1>6 DEF Start, flags
<1> DEFINE Signals == system' = system /\ cleanup' = cleanup
<1>7. ASSUME Terminate, Signals
      PROVE  SpawnInv' /\ CleanupInv' /\ call' \in {call, "unverified"}
             /\ settled' \in BOOLEAN /\ armed' \in BOOLEAN /\ interrupted' \in BOOLEAN
             /\ grace' \in {"unset", "set", "cleared", "fired"}
  BY <1>7 DEF Terminate, RejectNow, Disarm, ScheduleSigkill, Refused, Sent, Nobody,
              GroupLives, system
<1>8. CASE Deadline
  <2>1. Signals BY <1>8 DEF Deadline
  <2> QED BY <1>7, <1>8, <2>1 DEF Deadline, First, system
<1>9. CASE Watchdog
  <2>1. Signals BY <1>9 DEF Watchdog
  <2> QED BY <1>7, <1>9, <2>1 DEF Watchdog, First, system
<1>10. CASE HostSignal
  <2>1. Signals BY <1>10 DEF HostSignal
  <2> QED BY <1>7, <1>10, <2>1 DEF HostSignal, First, system, flags
<1>11. CASE Abort
  <2>1. Signals BY <1>11 DEF Abort
  <2>2. CASE armed BY <1>7, <1>11, <2>1, <2>2 DEF Abort, First, system
  <2>3. CASE ~armed BY <1>11, <2>3 DEF Abort, system
  <2> QED BY <2>2, <2>3
<1>12. CASE LimitLine
  <2>1. Signals BY <1>12 DEF LimitLine
  <2>2. CASE ~settled BY <1>7, <1>12, <2>1, <2>2 DEF LimitLine, First, system
  <2>3. CASE settled BY <1>12, <2>3 DEF LimitLine, system
  <2> QED BY <2>2, <2>3
<1>13. CASE OutputLimit
  <2>1. Signals BY <1>13 DEF OutputLimit
  <2> QED BY <1>7, <1>13, <2>1 DEF OutputLimit, system
<1>14. CASE CrushOutputLimit
  <2>1. Signals /\ UNCHANGED <<closed, timedOut, rateLimited, aborted>>
    BY <1>14 DEF CrushOutputLimit
  <2>2. /\ cause' \in Causes
        /\ {overLimit', settled', armed', interrupted'} \subseteq BOOLEAN
        /\ call' \in {call, "uncaught"}
        /\ grace' \in {"unset", "set", "cleared", "fired"}
    BY <1>14 DEF CrushOutputLimit, Uncaught, First, ScheduleSigkill
  <2> QED BY <2>1, <2>2 DEF system
<1>24. CASE FoldThrows
  <2>1. Signals /\ UNCHANGED <<closed, timedOut, rateLimited, aborted, cause>>
    BY <1>24 DEF FoldThrows
  <2>2. /\ {overLimit', settled', armed', interrupted'} \subseteq BOOLEAN
        /\ call' = "uncaught" /\ grace' = "cleared"
    BY <1>24 DEF FoldThrows, Uncaught
  <2> QED BY <2>1, <2>2 DEF system
<1>15. CASE Escalate
  <2>1. UNCHANGED <<leader, exit, descendant, reused, cleanup, closed, cause, interrupted>>
        /\ UNCHANGED flags
    BY <1>15 DEF Escalate
  <2>2. {slain', settled', armed'} \subseteq BOOLEAN
        /\ call' \in {call, "unverified"} /\ grace' = "fired"
    BY <1>15 DEF Escalate, GroupLives
  <2> QED BY <2>1, <2>2 DEF flags
<1>16. CASE SpawnFails
  BY <1>16 DEF SpawnFails, RejectNow, Disarm, system, flags
<1>17. CASE Exit
  <2>1. UNCHANGED <<exit, descendant, slain, reused, call, settled, closed, cause, interrupted>>
        /\ UNCHANGED flags
    BY <1>17 DEF Exit
  <2>2. leader = "zombie" /\ leader' = "reaped"
    BY <1>17 DEF Exit
  <2>3. armed' \in BOOLEAN /\ grace' \in {"unset", "set", "cleared", "fired"}
    BY <1>17 DEF Exit, Disarm
  <2>4. cleanup' \in {"none", "term"} \/ (cleanup' = "gone" /\ ~Descends)
    BY <1>17, <2>2 DEF Exit
  <2> QED BY <2>1, <2>2, <2>3, <2>4 DEF flags
<1>18. CASE CleanupGone
  BY <1>18 DEF CleanupGone, SeesNobody, system, flags
<1>19. CASE CleanupKill
  <2>1. UNCHANGED <<leader, exit, descendant, reused, call, settled, armed, grace,
                    closed, cause, interrupted>> /\ UNCHANGED flags
    BY <1>19 DEF CleanupKill
  <2>2. cleanup = "term" /\ slain' \in BOOLEAN
    BY <1>19 DEF CleanupKill
  <2>3. cleanup' = "kill" \/ (cleanup' = "gone" /\ ~Descends)
    BY <1>19 DEF CleanupKill
  <2> QED BY <2>1, <2>2, <2>3 DEF flags
<1>20. CASE CleanupFails
  <2>1. UNCHANGED <<closed, cause, interrupted>> /\ UNCHANGED system /\ UNCHANGED flags
    BY <1>20 DEF CleanupFails
  <2>2. cleanup = "kill" /\ cleanup' = "failed" /\ call' \in {call, "unverified"}
    BY <1>20 DEF CleanupFails, RejectNow
  <2>3. {settled', armed'} \subseteq BOOLEAN
        /\ grace' \in {"unset", "set", "cleared", "fired"}
    BY <1>20 DEF CleanupFails, RejectNow, Disarm
  <2> QED BY <2>1, <2>2, <2>3 DEF system, flags
<1>21. CASE Close
  <2>1. UNCHANGED <<call, cleanup, cause, interrupted>> /\ UNCHANGED system /\ UNCHANGED flags
    BY <1>21 DEF Close
  <2>2. {settled', armed', closed'} \subseteq BOOLEAN
        /\ grace' \in {"unset", "set", "cleared", "fired"}
    BY <1>21 DEF Close, Disarm
  <2> QED BY <2>1, <2>2 DEF system, flags
<1>22. CASE Resolve
  BY <1>22 DEF Resolve, system, flags
<1>23. CASE UNCHANGED vars
  BY <1>23 DEF vars, system, flags
<1> QED
  BY <1>1, <1>2, <1>3, <1>4, <1>5, <1>6, <1>8, <1>9, <1>10, <1>11, <1>12, <1>13, <1>14,
     <1>15, <1>16, <1>17, <1>18, <1>19, <1>20, <1>21, <1>22, <1>23, <1>24
     DEF Next, Processes, Sources, Ending

\* Only Start arms the sources; what settles the call or sees the exit disarms.
LEMMA SourcesStep ==
  ASSUME TypeOK, SpawnInv, SourcesInv, [Next]_vars
  PROVE  SourcesInv'
<1> USE DEF SourcesInv
<1>1. CASE Processes
  BY <1>1 DEF Processes, DescendantStarts, DescendantLeaves, DescendantEnds, LeaderEnds,
              NumberReused
<1>2. CASE Start
  BY <1>2 DEF Start, SpawnInv
<1>3. ASSUME Terminate, UNCHANGED leader
      PROVE  SourcesInv'
  BY <1>3 DEF Terminate, RejectNow, Disarm
<1>4. CASE Sources
  <2>1. UNCHANGED leader
    BY <1>4 DEF Sources, Deadline, Watchdog, HostSignal, Abort, LimitLine, OutputLimit,
                FoldThrows, CrushOutputLimit, system
  <2>2. \/ Terminate
        \/ UNCHANGED <<settled, armed, call>>
        \/ Uncaught
    BY <1>4 DEF Sources, Deadline, Watchdog, HostSignal, Abort, LimitLine, OutputLimit,
                FoldThrows, CrushOutputLimit
  <2> QED BY <1>3, <2>1, <2>2 DEF Uncaught
<1>5. CASE Ending
  <2>1. CASE Escalate BY <2>1 DEF Escalate
  <2>2. CASE SpawnFails BY <2>2 DEF SpawnFails, RejectNow, Disarm
  <2>3. CASE Exit BY <2>3 DEF Exit, Disarm
  <2>4. CASE CleanupGone \/ CleanupKill \/ Resolve
    BY <2>4 DEF CleanupGone, CleanupKill, Resolve, system
  <2>5. CASE CleanupFails BY <2>5 DEF CleanupFails, RejectNow, Disarm, system
  <2>6. CASE Close BY <2>6 DEF Close, Disarm, SpawnInv, system
  <2> QED BY <1>5, <2>1, <2>2, <2>3, <2>4, <2>5, <2>6 DEF Ending
<1>6. CASE UNCHANGED vars
  BY <1>6 DEF vars, system
<1> QED BY <1>1, <1>2, <1>4, <1>5, <1>6 DEF Next

\* A call's outcome rests on EngineInv in every behaviour.
THEOREM EngineInvariant ==
  ASSUME ~ProbeDenied
  PROVE  Spec => []EngineInv
<1>1. EngineInv /\ [Next]_vars => EngineInv'
  BY OutcomeStep, SourcesStep DEF EngineInv
<1> QED BY EngineInvInit, <1>1, PTL DEF Spec

\* After the leader's exit the run is not relabelled as a timeout, an abort or
\* a host signal (coder.js lines 4736-4740).
THEOREM ExitStands ==
  ASSUME ~ProbeDenied
  PROVE  Spec => ExitIsFinal
<1> DEFINE Stands == leader = "reaped" =>
     timedOut' = timedOut /\ cause' \in {cause, "provider_rate_limit", "output_limit"}
<1>1. EngineInv /\ [Next]_vars => Stands
  <2> SUFFICES ASSUME EngineInv, [Next]_vars, leader = "reaped"
               PROVE  timedOut' = timedOut
                      /\ cause' \in {cause, "provider_rate_limit", "output_limit"}
    OBVIOUS
  <2>1. ~armed
    BY DEF EngineInv, TypeOK, SourcesInv
  <2>2. CASE Processes
    BY <2>2 DEF Processes, DescendantStarts, DescendantLeaves, DescendantEnds,
                LeaderEnds, NumberReused, flags
  <2>3. CASE Start
    BY <2>3 DEF Start, flags
  <2>4. CASE Sources
    BY <2>1, <2>4 DEF Sources, Deadline, Watchdog, HostSignal, Abort, LimitLine,
                      OutputLimit, FoldThrows, CrushOutputLimit, First
  <2>5. CASE Ending
    BY <2>5 DEF Ending, Escalate, SpawnFails, Exit, CleanupGone, CleanupKill,
                CleanupFails, Close, Resolve, flags
  <2>6. CASE UNCHANGED vars
    BY <2>6 DEF vars, flags
  <2> QED BY <2>2, <2>3, <2>4, <2>5, <2>6 DEF Next
<1> QED BY <1>1, EngineInvariant, PTL DEF Spec, ExitIsFinal

\* No envelope is returned while a descendant of the engine in its process
\* group may still write (coder.js lines 4587-4603).
THEOREM CompletionIsClean ==
  ASSUME ~ProbeDenied
  PROVE  Spec => []ResolvedMeansGone
<1>1. EngineInv => ResolvedMeansGone
  BY DEF EngineInv, TypeOK, CleanupInv, ResolvedMeansGone, GroupLives
<1> QED BY <1>1, EngineInvariant, PTL

\* A rejection that lets the caller abandon the session row means that nothing
\* of the engine's group is left (coder.js line 6264).
THEOREM RejectionSparesRows ==
  ASSUME ~ProbeDenied
  PROVE  Spec => []RejectionIsHonest
<1>1. EngineInv => RejectionIsHonest
  BY DEF EngineInv, SpawnInv, RejectionIsHonest, GroupLives, Descends
<1> QED BY <1>1, EngineInvariant, PTL

\* A source of spawnCrush that asks the running engine to end has recorded a
\* cause first, and no step takes a cause back.
Recorded == crush /\ interrupted => cause # "none"

LEMMA RecordedStep ==
  ASSUME Recorded, [Next]_vars
  PROVE  Recorded'
<1>1. CASE UNCHANGED vars
  BY <1>1 DEF vars, Recorded
<1>2. CASE Next
  <2>1. crush' = crush
    BY <1>2 DEF Next
  <2>2. CASE Processes \/ Start \/ Ending
    <3>1. interrupted' = interrupted /\ cause' = cause
      BY <2>2 DEF Processes, DescendantStarts, DescendantLeaves, DescendantEnds, LeaderEnds, NumberReused,
                  Start, Ending, Escalate, SpawnFails, Exit, CleanupGone, CleanupKill, CleanupFails, Close, Resolve
    <3> QED
      BY <2>1, <3>1 DEF Recorded
  <2>3. CASE Deadline \/ HostSignal \/ Abort \/ CrushOutputLimit
    <3>1. crush => \/ cause' # "none"
                   \/ interrupted' = interrupted /\ cause' = cause
      BY <2>3 DEF Deadline, HostSignal, Abort, CrushOutputLimit, First
    <3> QED
      BY <2>1, <3>1 DEF Recorded
  <2>4. CASE Watchdog \/ LimitLine \/ OutputLimit \/ FoldThrows
    BY <2>1, <2>4 DEF Watchdog, LimitLine, OutputLimit, FoldThrows, Recorded
  <2> QED
    BY <1>2, <2>2, <2>3, <2>4 DEF Next, Sources
<1> QED
  BY <1>1, <1>2

\* What spawnCrush interrupted it reports as interrupted, in every order of
\* the sources, the exit and the clean-up.
THEOREM CrushOwnsUp == Spec => []CrushReportsInterruption
<1>1. Init => Recorded
  BY DEF Init, Recorded
<1>2. Recorded => CrushReportsInterruption
  BY DEF Recorded, CrushReportsInterruption, InterruptedIsReported, ReportedStatus
<1> QED
  BY <1>1, <1>2, RecordedStep, PTL DEF Spec

-----------------------------------------------------------------------------
(* The notices of newer releases.  NoticesInv is not inductive: what is    *)
(* written was put together some steps before, so the invariant says of    *)
(* every process in the lock that what it is about to write rests on what  *)
(* is on record, as long as the clock has not been set back.               *)

ToldRecord == [version : Release \cup {0}, at : Nat]
CacheRecord ==
  [checked : Nat, next : Nat, failures : Nat, manifest : Release \cup {0}, told : [Channel -> ToldRecord]]
Place ==
  Locked \cup {"idle", "notify", "schedule", "emit", "asleep", "ask", "reread", "cli lock", "lock", "closed"}
ProcessRecord ==
  [at : Place, began : Nat, due : BOOLEAN, seen : CacheRecord, next : CacheRecord,
   version : Release \cup {0}, answered : Nat, left : Nat, again : BOOLEAN]

NoticesTyped ==
  /\ clock \in 1..MaxTime /\ published \in Release /\ backs \in Nat
  /\ cache \in CacheRecord /\ proc \in [Process -> ProcessRecord]
  /\ shown \in [Channel -> ToldRecord] /\ latest \in ToldRecord
  /\ early \in BOOLEAN /\ eager \in BOOLEAN

\* What a process in the lock is about to write rests on what is written: the
\* result is the one on record or a later one, and nothing told is forgotten.
Newer(r) == r.answered # 0 /\ r.answered >= cache.checked
KeepsLatest(r) ==
  /\ r.next.checked = IF Newer(r) THEN r.answered ELSE cache.checked
  /\ r.next.manifest = IF Newer(r) THEN r.version ELSE cache.manifest
ClaimsOnce(p, r) ==
  LET before == cache.told[ChannelOf(p)]
      claimed == [version |-> r.next.manifest, at |-> r.began] IN
  /\ r.next.told = [cache.told EXCEPT ![ChannelOf(p)] = claimed] /\ r.began # 0 /\ r.next.manifest # 0
  /\ before.version = r.next.manifest => r.began - before.at >= Throttle
Rests(p, r) ==
  /\ r.at \in {"fetch", "record", "cli fetch"} => r.seen = cache
  /\ r.at \in {"cli lock", "cli read", "cli fetch"} => r.answered = 0
  /\ r.at \in {"record", "refail", "mark", "cli tell", "cli mark", "cli save", "save"} => KeepsLatest(r)
  /\ r.at \in {"record", "refail", "cli tell", "cli save", "save"} => r.next.told = cache.told
  /\ r.at \in {"mark", "cli mark"} => ClaimsOnce(p, r)
  /\ r.at \in {"claim", "cli tell"} => r.began # 0

\* While the clock has not been set back, what is on record is true.
OnRecord ==
  /\ ValidAt(cache, clock) /\ ~early /\ ~eager
  /\ cache.checked = latest.at /\ cache.manifest = latest.version /\ cache.told = shown
  /\ \A c \in Channel : shown[c].at = 0 => shown[c].version = 0
  /\ \A p \in Process : Rests(p, proc[p])

NoticesIInv == NoticesTyped /\ OneHolder /\ ServersWake /\ (backs = 0 => OnRecord)

LEMMA ReleaseIsNumber == Release \cup {0} \subseteq Nat /\ 0 \in Release \cup {0}
  BY NoticesAssumption

LEMMA PeriodsAreNumbers ==
  /\ Fresh \in Nat /\ Throttle \in Nat /\ FailureBase \in Nat /\ FailureMax \in Nat /\ Retry \in Nat
  /\ Throttle > 0 /\ FailureMax <= Fresh /\ Retry <= Fresh
  BY PeriodAssumption

LEMMA EmptyTyped == EmptyCache \in CacheRecord /\ Nothing \in ToldRecord
<1>1. Nothing \in ToldRecord
  BY ReleaseIsNumber DEF Nothing, ToldRecord
<1>2. [c \in Channel |-> Nothing] \in [Channel -> ToldRecord]
  BY <1>1
<1> QED
  BY <1>1, <1>2, ReleaseIsNumber DEF EmptyCache, CacheRecord

LEMMA NewProcessTyped == NewProcess \in ProcessRecord
  BY EmptyTyped, ReleaseIsNumber DEF NewProcess, ProcessRecord, Place

LEMMA CacheFields ==
  ASSUME NEW s \in CacheRecord
  PROVE  /\ s.checked \in Nat /\ s.next \in Nat /\ s.failures \in Nat
         /\ s.manifest \in Release \cup {0} /\ s.manifest \in Nat
         /\ s.told \in [Channel -> ToldRecord]
         /\ \A c \in Channel : s.told[c].at \in Nat /\ s.told[c].version \in Release \cup {0}
  BY ReleaseIsNumber DEF CacheRecord, ToldRecord

LEMMA RowFields ==
  ASSUME NEW r \in ProcessRecord
  PROVE  /\ r.at \in Place /\ r.began \in Nat /\ r.due \in BOOLEAN /\ r.seen \in CacheRecord
         /\ r.next \in CacheRecord /\ r.version \in Release \cup {0} /\ r.answered \in Nat
         /\ r.left \in Nat /\ r.again \in BOOLEAN
  BY DEF ProcessRecord

LEMMA NoticeFacts ==
  ASSUME NoticesTyped
  PROVE  /\ clock \in Nat /\ clock > 0 /\ published \in Release \cup {0} /\ backs \in Nat
         /\ cache \in CacheRecord /\ \A p \in Process : proc[p] \in ProcessRecord
         /\ proc \in [Process -> ProcessRecord]
  BY NoticesAssumption DEF NoticesTyped

\* The delay after a failure is a number of moments within its limit.
LEMMA DelayIsBounded ==
  ASSUME NEW n \in Nat, n > 0
  PROVE  FailureDelay(n) \in 0..FailureMax
<1> DEFINE k == IF n < 6 THEN n ELSE 6
           delay == FailureBase * Doublings[k]
<1>1. k \in 1..6
  OBVIOUS
<1>2. Doublings[k] \in Nat
  <2>1. k = 1 \/ k = 2 \/ k = 3 \/ k = 4 \/ k = 5 \/ k = 6
    BY <1>1
  <2> HIDE DEF k
  <2> QED
    BY <2>1 DEF Doublings
<1>3. delay \in Nat
  <2> DEFINE d == Doublings[k]
  <2>1. d \in Nat
    BY <1>2
  <2> HIDE DEF d, k
  <2>2. FailureBase * d \in Nat
    BY <2>1, PeriodsAreNumbers
  <2> QED
    BY <2>2 DEF d
<1>4. FailureDelay(n) = IF delay < FailureMax THEN delay ELSE FailureMax
  BY DEF FailureDelay
<1> HIDE DEF delay
<1> QED
  BY <1>3, <1>4, PeriodsAreNumbers

LEMMA ReadTyped == ASSUME NoticesTyped PROVE ReadCache(clock) \in CacheRecord
  BY EmptyTyped DEF ReadCache, NoticesTyped

LEMMA ReadIsCache == ASSUME OnRecord PROVE ReadCache(clock) = cache
  BY DEF ReadCache, OnRecord

LEMMA FailedTyped ==
  ASSUME NEW s \in CacheRecord, NEW time \in Nat
  PROVE  /\ Failed(s, time) \in CacheRecord
         /\ Failed(s, time).checked = s.checked /\ Failed(s, time).manifest = s.manifest
         /\ Failed(s, time).told = s.told
<1>1. s.failures \in Nat /\ s.failures + 1 \in Nat /\ s.failures + 1 > 0
  BY CacheFields
<1>2. FailureDelay(s.failures + 1) \in Nat
  BY <1>1, DelayIsBounded, PeriodsAreNumbers
<1>3. time + FailureDelay(s.failures + 1) \in Nat
  BY <1>2
<1>4. Failed(s, time) = [s EXCEPT !.next = time + FailureDelay(s.failures + 1), !.failures = s.failures + 1]
  BY DEF Failed
<1> QED
  BY <1>1, <1>3, <1>4 DEF CacheRecord

LEMMA CheckedTyped ==
  ASSUME NEW s \in CacheRecord, NEW version \in Release \cup {0}, NEW time \in Nat
  PROVE  /\ Checked(s, version, time) \in CacheRecord
         /\ Checked(s, version, time).checked = IF time < s.checked THEN s.checked ELSE time
         /\ Checked(s, version, time).manifest = IF time < s.checked THEN s.manifest ELSE version
         /\ Checked(s, version, time).told = s.told
  BY ReleaseIsNumber DEF CacheRecord, Checked

LEMMA ChannelTyped == ASSUME NEW p PROVE ChannelOf(p) \in Channel
  BY DEF ChannelOf, Channel

LEMMA MarkedTyped ==
  ASSUME NEW s \in CacheRecord, NEW p, NEW time \in Nat
  PROVE  /\ Marked(s, p, time) \in CacheRecord
         /\ Marked(s, p, time).checked = s.checked /\ Marked(s, p, time).manifest = s.manifest
         /\ Marked(s, p, time).told
              = [s.told EXCEPT ![ChannelOf(p)] = [version |-> s.manifest, at |-> time]]
<1> DEFINE claimed == [version |-> s.manifest, at |-> time]
           told == [s.told EXCEPT ![ChannelOf(p)] = claimed]
<1>1. claimed \in ToldRecord
  BY CacheFields DEF ToldRecord
<1>2. told \in [Channel -> ToldRecord]
  BY <1>1, CacheFields
<1>3. Marked(s, p, time) = [s EXCEPT !.told = told]
  BY DEF Marked, CacheRecord
<1> HIDE DEF claimed, told
<1>4. Marked(s, p, time) \in CacheRecord /\ Marked(s, p, time).told = told
      /\ Marked(s, p, time).checked = s.checked /\ Marked(s, p, time).manifest = s.manifest
  BY <1>2, <1>3 DEF CacheRecord
<1> QED
  BY <1>4 DEF told, claimed

\* A server sleeps for a day at most.
LEMMA SleepIsBounded ==
  ASSUME NEW s \in CacheRecord, NEW time \in Nat, NEW again \in BOOLEAN
  PROVE  NextDelay(s, time, again) \in 0..Fresh
<1>1. s.checked \in Nat /\ s.next \in Nat
  BY CacheFields
<1>2. CASE Due(s, time)
  <2>1. NextDelay(s, time, again) = IF again THEN Retry ELSE 0
    BY <1>2 DEF NextDelay
  <2> QED
    BY <2>1, PeriodsAreNumbers
<1>3. CASE ~Due(s, time) /\ s.next # 0
  <2>1. NextDelay(s, time, again) = IF s.next - time > 0 THEN s.next - time ELSE 0
    BY <1>3 DEF NextDelay
  <2>2. s.next <= time + FailureMax
    BY <1>1, <1>3, PeriodsAreNumbers DEF Due
  <2> QED
    BY <1>1, <2>1, <2>2, PeriodsAreNumbers
<1>4. CASE ~Due(s, time) /\ s.next = 0
  <2>1. NextDelay(s, time, again) = IF Fresh - (time - s.checked) > 0 THEN Fresh - (time - s.checked) ELSE 0
    BY <1>4 DEF NextDelay
  <2>2. s.checked <= time
    BY <1>1, <1>4 DEF Due
  <2> QED
    BY <1>1, <2>1, <2>2, PeriodsAreNumbers
<1> QED
  BY <1>2, <1>3, <1>4

LEMMA Apart ==
  ASSUME NEW new \in Nat, NEW old \in Nat, new - old >= Throttle
  PROVE  ~((IF new > old THEN new - old ELSE old - new) < Throttle)
  BY PeriodsAreNumbers

\* One process takes a step, and neither the state file nor the world changes.
LEMMA TurnKeeps ==
  ASSUME NoticesIInv, NEW p \in Process, NEW r \in ProcessRecord, proc' = [proc EXCEPT ![p] = r],
         UNCHANGED <<clock, published, backs, cache, shown, early, latest>>,
         eager' \in BOOLEAN, backs = 0 => ~eager',
         r.at \in Locked => proc[p].at \in Locked \/ LockFree,
         p \in Host => r.left <= Fresh,
         backs = 0 => Rests(p, r)
  PROVE  NoticesIInv'
<1>1. /\ proc' \in [Process -> ProcessRecord] /\ proc'[p] = r
      /\ \A q \in Process \ {p} : proc'[q] = proc[q]
  BY DEF NoticesIInv, NoticesTyped
<1>2. NoticesTyped'
  BY <1>1 DEF NoticesIInv, NoticesTyped
<1>3. OneHolder'
  BY <1>1 DEF NoticesIInv, OneHolder, LockFree
<1>4. ServersWake'
  BY <1>1 DEF NoticesIInv, ServersWake, Process
<1>5. ASSUME backs' = 0  PROVE OnRecord'
  <2>1. OnRecord /\ ~eager' /\ Rests(p, r)
    BY <1>5 DEF NoticesIInv
  <2>2. \A q \in Process : Rests(q, proc[q])'
    <3>1. \A q \in Process : Rests(q, proc'[q])
      BY <1>1, <2>1 DEF OnRecord
    <3>2. ASSUME NEW q \in Process, Rests(q, proc'[q])
          PROVE  Rests(q, proc[q])'
      <4>1. cache' = cache
        OBVIOUS
      <4> DEFINE x == proc'[q]
      <4>2. Rests(q, x)
        BY <3>2
      <4>3. (KeepsLatest(x) <=> KeepsLatest(proc[q])') /\ (ClaimsOnce(q, x) <=> ClaimsOnce(q, proc[q])')
        BY <4>1 DEF KeepsLatest, ClaimsOnce, Newer
      <4> QED
        BY <4>1, <4>2, <4>3 DEF Rests
    <3> QED
      BY <3>1, <3>2
  <2> QED
    BY <2>1, <2>2 DEF OnRecord, ValidAt
<1> QED
  BY <1>2, <1>3, <1>4, <1>5 DEF NoticesIInv

\* Who has the lock writes what it has prepared, and claims what it claims.
LEMMA WriteKeeps ==
  ASSUME NoticesIInv, NEW p \in Process, NEW r \in ProcessRecord, proc' = [proc EXCEPT ![p] = r],
         proc[p].at \in {"record", "refail", "mark", "cli mark", "cli save", "save"},
         Puts(p), UNCHANGED <<clock, published, backs, eager>>,
         \/ proc[p].at \in {"mark", "cli mark"} /\ Claims(p)
         \/ proc[p].at \notin {"mark", "cli mark"} /\ UNCHANGED <<shown, early>>,
         r.at \in {"idle", "reread", "emit", "cli print"},
         p \in Host => r.left <= Fresh
  PROVE  NoticesIInv'
<1> DEFINE row == proc[p]
           ch == ChannelOf(p)
           claimed == [version |-> row.next.manifest, at |-> row.began]
<1>1. /\ proc' \in [Process -> ProcessRecord] /\ proc'[p] = r
      /\ \A q \in Process \ {p} : proc'[q] = proc[q]
  BY DEF NoticesIInv, NoticesTyped
<1>2. row \in ProcessRecord
  BY DEF NoticesIInv, NoticesTyped
<1>3. row.next \in CacheRecord /\ row.version \in Release \cup {0} /\ row.answered \in Nat /\ row.began \in Nat
  BY <1>2, RowFields
<1>4. row.next.manifest \in Release \cup {0} /\ row.next.manifest \in Nat /\ row.next.checked \in Nat
  BY <1>3, CacheFields
<1>5. row.at \in Locked
  BY DEF Locked
<1>6. cache' = row.next /\ ValidAt(row.next, clock)
  BY DEF Puts
<1>7. latest' = IF row.answered # 0 /\ row.answered >= latest.at
                THEN [version |-> row.version, at |-> row.answered] ELSE latest
  BY DEF Puts
<1>8. ch \in Channel
  BY ChannelTyped
<1>9. claimed \in ToldRecord
  BY <1>3, <1>4 DEF ToldRecord
<1>10. ASSUME Claims(p)
       PROVE  shown' = [shown EXCEPT ![ch] = claimed]
  BY <1>10 DEF Claims
<1>11. shown \in [Channel -> ToldRecord] /\ early \in BOOLEAN /\ eager \in BOOLEAN /\ latest \in ToldRecord
  BY DEF NoticesIInv, NoticesTyped
<1>12. shown' \in [Channel -> ToldRecord] /\ early' \in BOOLEAN
  <2>1. CASE Claims(p)
    <3>1. shown' \in [Channel -> ToldRecord]
      BY <1>8, <1>9, <1>10, <1>11, <2>1
    <3>2. early' \in BOOLEAN
      BY <2>1 DEF Claims
    <3> QED
      BY <3>1, <3>2
  <2>2. CASE UNCHANGED <<shown, early>>
    BY <1>11, <2>2
  <2> QED
    BY <2>1, <2>2
<1>13. latest' \in ToldRecord
  <2>1. [version |-> row.version, at |-> row.answered] \in ToldRecord
    BY <1>3 DEF ToldRecord
  <2> QED
    BY <1>7, <1>11, <2>1
<1>14. NoticesTyped'
  BY <1>1, <1>3, <1>6, <1>11, <1>12, <1>13 DEF NoticesIInv, NoticesTyped
<1>15. r.at \notin Locked \/ r.at = "cli print"
  BY DEF Locked
<1>16. \A q \in Process \ {p} : proc[q].at \notin Locked
  BY <1>5 DEF NoticesIInv, OneHolder
<1>17. OneHolder'
  BY <1>1, <1>16 DEF OneHolder
<1>18. ServersWake'
  BY <1>1 DEF NoticesIInv, ServersWake, Process
<1>19. ASSUME backs' = 0  PROVE OnRecord'
  <2>1. OnRecord /\ Rests(p, row)
    BY <1>19 DEF NoticesIInv, OnRecord
  <2>2. KeepsLatest(row)
    BY <2>1 DEF Rests
  <2>3. latest.at \in Nat /\ cache.checked = latest.at /\ cache.manifest = latest.version
    BY <1>11, <2>1 DEF OnRecord, ToldRecord
  <2>4. cache'.checked = latest'.at /\ cache'.manifest = latest'.version
    BY <1>6, <1>7, <2>2, <2>3 DEF KeepsLatest, Newer
  <2>5. cache'.told = shown' /\ ~early' /\ \A c \in Channel : shown'[c].at = 0 => shown'[c].version = 0
    <3>1. cache.told = shown /\ ~early /\ \A c \in Channel : shown[c].at = 0 => shown[c].version = 0
      BY <2>1 DEF OnRecord
    <3>2. CASE row.at \in {"mark", "cli mark"} /\ Claims(p)
      <4>1. ClaimsOnce(p, row)
        BY <2>1, <3>2 DEF Rests
      <4>2. /\ row.next.told = [shown EXCEPT ![ch] = claimed] /\ row.began # 0 /\ row.next.manifest # 0
            /\ shown[ch].version = row.next.manifest => row.began - shown[ch].at >= Throttle
        BY <3>1, <4>1 DEF ClaimsOnce
      <4>3. cache'.told = shown'
        BY <1>6, <1>10, <3>2, <4>2
      <4>4. \A c \in Channel : shown'[c].at = 0 => shown'[c].version = 0
        <5> TAKE c \in Channel
        <5>1. CASE c = ch
          <6>1. shown'[ch] = claimed
            BY <1>8, <1>10, <1>11, <3>2
          <6>2. shown'[ch].at = row.began
            <7> HIDE DEF row, ch
            <7>1. claimed.at = row.began
              OBVIOUS
            <7> QED
              BY <6>1, <7>1
          <6> QED
            BY <4>2, <5>1, <6>2
        <5>2. CASE c # ch
          BY <1>8, <1>10, <1>11, <3>1, <3>2, <5>2
        <5> QED
          BY <5>1, <5>2
      <4>5. shown[ch].at \in Nat
        BY <1>8, <1>11 DEF ToldRecord
      <4>6. ~early'
        <5> DEFINE new == claimed.at
                   old == shown[ch].at
                   gap == IF new > old THEN new - old ELSE old - new
        <5>1. early' = (early \/ (shown[ch].version = claimed.version /\ gap < Throttle))
          BY <3>2 DEF Claims
        <5>2. new = row.began /\ claimed.version = row.next.manifest
          <6> HIDE DEF row
          <6> QED
            OBVIOUS
        <5>3. new \in Nat /\ old \in Nat
          BY <1>3, <4>5, <5>2
        <5>4. shown[ch].version = claimed.version => new - old >= Throttle
          BY <4>2, <5>2
        <5> HIDE DEF new, old
        <5>5. new - old >= Throttle => ~(gap < Throttle)
          BY <5>3, Apart
        <5> HIDE DEF gap, claimed
        <5> QED
          BY <3>1, <5>1, <5>4, <5>5
      <4> QED
        BY <4>3, <4>4, <4>6
    <3>3. CASE row.at \notin {"mark", "cli mark"} /\ UNCHANGED <<shown, early>>
      <4>1. row.next.told = cache.told
        BY <2>1, <3>3 DEF Rests
      <4> QED
        BY <1>6, <3>1, <3>3, <4>1
    <3> QED
      BY <3>2, <3>3
  <2>6. ValidAt(cache, clock)'
    BY <1>6 DEF ValidAt
  <2>7. \A q \in Process : Rests(q, proc[q])'
    <3> TAKE q \in Process
    <3>1. CASE q = p
      BY <1>1, <3>1 DEF Rests
    <3>2. CASE q # p
      <4>1. proc'[q] = proc[q] /\ proc[q].at \notin Locked
        BY <1>1, <1>16, <3>2
      <4>2. Rests(q, proc[q])
        BY <2>1 DEF OnRecord
      <4> QED
        BY <4>1, <4>2 DEF Rests, Locked
    <3> QED
      BY <3>1, <3>2
  <2> QED
    BY <2>1, <2>4, <2>5, <2>6, <2>7 DEF OnRecord
<1> QED
  BY <1>14, <1>17, <1>18, <1>19 DEF NoticesIInv

LEMMA MovedTyped ==
  ASSUME NEW r \in ProcessRecord, NEW place \in Place
  PROVE  LET moved == [r EXCEPT !.at = place] IN
         /\ moved \in ProcessRecord /\ moved.at = place
         /\ moved.began = r.began /\ moved.due = r.due /\ moved.seen = r.seen /\ moved.next = r.next
         /\ moved.version = r.version /\ moved.answered = r.answered /\ moved.left = r.left
  BY DEF ProcessRecord

Free ==
  {"idle", "notify", "schedule", "emit", "asleep", "ask", "reread", "lock", "closed", "recheck", "keep", "cli print"}

LEMMA FreeRests == ASSUME NEW p, NEW r, r.at \in Free PROVE Rests(p, r)
  BY DEF Rests, Free

LEMMA FreePlaces ==
  /\ Free \subseteq Place
  /\ \A place \in {"idle", "notify", "schedule", "emit", "asleep", "ask", "reread", "lock", "closed"} :
       place \in Free /\ place \notin Locked
  /\ {"claim", "mark", "fetch", "record", "refail", "cli lock", "cli read", "cli fetch", "cli tell", "cli mark",
      "cli save", "save"} \cup Locked \subseteq Place
  BY DEF Free, Place, Locked

LEMMA Kinds == /\ Host \subseteq Process /\ Command \subseteq Process /\ Updater \subseteq Process
               /\ \A p \in Command \cup Updater : p \notin Host
  BY NoticesAssumption DEF Process

LEMMA StepFacts ==
  ASSUME NoticesIInv, NEW p \in Process
  PROVE  /\ NoticesTyped /\ proc[p] \in ProcessRecord /\ clock \in Nat /\ clock > 0
         /\ published \in Release \cup {0} /\ cache \in CacheRecord /\ ReadCache(clock) \in CacheRecord
         /\ eager \in BOOLEAN /\ (p \in Host => proc[p].left <= Fresh)
         /\ (backs = 0 => ReadCache(clock) = cache /\ ~eager /\ Rests(p, proc[p]) /\ cache.told = shown
                          /\ \A c \in Channel : cache.told[c].at = 0 => cache.told[c].version = 0)
<1>1. NoticesTyped
  BY DEF NoticesIInv
<1>2. p \in Host => proc[p].left <= Fresh
  BY DEF NoticesIInv, ServersWake
<1>3. backs = 0 => OnRecord
  BY DEF NoticesIInv
<1>4. OnRecord => ReadCache(clock) = cache
  BY ReadIsCache
<1>5. ReadCache(clock) \in CacheRecord
  BY <1>1, ReadTyped
<1>6. eager \in BOOLEAN
  BY <1>1 DEF NoticesTyped
<1>7. backs = 0 => Rests(p, proc[p]) /\ ~eager /\ cache.told = shown
                   /\ \A c \in Channel : cache.told[c].at = 0 => cache.told[c].version = 0
  BY <1>3 DEF OnRecord
<1> QED
  BY <1>1, <1>2, <1>3, <1>4, <1>5, <1>6, <1>7, NoticeFacts

\* A step outside the lock, or one that only moves on inside it.
LEMMA MoveKeeps ==
  ASSUME NoticesIInv, NEW p \in Process, NEW place \in Free, Moves(p, place),
         UNCHANGED cache, WorldStays, HistoryStays,
         place \in Locked => proc[p].at \in Locked \/ LockFree
  PROVE  NoticesIInv'
<1> DEFINE r == [proc[p] EXCEPT !.at = place]
<1>1. r \in ProcessRecord /\ r.at = place /\ r.left = proc[p].left
  BY MovedTyped, StepFacts, FreePlaces
<1>2. proc' = [proc EXCEPT ![p] = r]
  BY DEF Moves, Goes
<1>3. Rests(p, r)
  BY <1>1, FreeRests
<1> HIDE DEF r
<1>4. eager' \in BOOLEAN /\ (backs = 0 => ~eager')
  BY StepFacts DEF HistoryStays
<1>5. p \in Host => r.left <= Fresh
  BY <1>1, StepFacts
<1>6. UNCHANGED <<clock, published, backs, cache, shown, early, latest>>
  BY DEF WorldStays, HistoryStays
<1> QED
  BY <1>1, <1>2, <1>3, <1>4, <1>5, <1>6, TurnKeeps

\* A step to a new record of the process, with neither lock nor claim.
LEMMA RenewKeeps ==
  ASSUME NoticesIInv, NEW p \in Process, NEW r \in ProcessRecord, Goes(p, r),
         UNCHANGED cache, WorldStays, HistoryStays,
         r.at \in Free \ Locked, p \in Host => r.left <= Fresh
  PROVE  NoticesIInv'
<1>1. Rests(p, r)
  BY FreeRests
<1>2. eager' \in BOOLEAN /\ (backs = 0 => ~eager')
  BY StepFacts DEF HistoryStays
<1>3. UNCHANGED <<clock, published, backs, cache, shown, early, latest>>
  BY DEF WorldStays, HistoryStays
<1>4. proc' = [proc EXCEPT ![p] = r]
  BY DEF Goes
<1> QED
  BY <1>1, <1>2, <1>3, <1>4, TurnKeeps

LEMMA FreshIdle == NewProcess.at = "idle" /\ NewProcess.left = 0
  BY DEF NewProcess

LEMMA FreshAt ==
  ASSUME NEW place \in Place
  PROVE  LET row == [NewProcess EXCEPT !.at = place] IN
         /\ row \in ProcessRecord /\ row.at = place
         /\ row.left = 0
<1> DEFINE n == NewProcess
<1>1. n \in ProcessRecord /\ n.left = 0 /\ n.answered = 0
  BY NewProcessTyped DEF NewProcess
<1> HIDE DEF n
<1> DEFINE row == [n EXCEPT !.at = place]
<1>2. /\ row \in ProcessRecord /\ row.at = place
      /\ row.left = 0
  BY <1>1 DEF ProcessRecord
<1> QED
  BY <1>2 DEF n

LEMMA FreshAsleep ==
  ASSUME NEW place \in Place, NEW left \in Nat
  PROVE  LET row == [NewProcess EXCEPT !.at = place, !.left = left] IN
         /\ row \in ProcessRecord /\ row.at = place
         /\ row.left = left
<1> DEFINE n == NewProcess
<1>1. n \in ProcessRecord /\ n.left = 0 /\ n.answered = 0
  BY NewProcessTyped DEF NewProcess
<1> HIDE DEF n
<1> DEFINE row == [n EXCEPT !.at = place, !.left = left]
<1>2. /\ row \in ProcessRecord /\ row.at = place
      /\ row.left = left
  BY <1>1 DEF ProcessRecord
<1> QED
  BY <1>2 DEF n

LEMMA FreshSeen ==
  ASSUME NEW place \in Place, NEW s \in CacheRecord
  PROVE  LET row == [NewProcess EXCEPT !.at = place, !.seen = s] IN
         /\ row \in ProcessRecord /\ row.at = place
         /\ row.left = 0
<1> DEFINE n == NewProcess
<1>1. n \in ProcessRecord /\ n.left = 0 /\ n.answered = 0
  BY NewProcessTyped DEF NewProcess
<1> HIDE DEF n
<1> DEFINE row == [n EXCEPT !.at = place, !.seen = s]
<1>2. /\ row \in ProcessRecord /\ row.at = place
      /\ row.left = 0
  BY <1>1 DEF ProcessRecord
<1> QED
  BY <1>2 DEF n

LEMMA FreshAgain ==
  ASSUME NEW place \in Place, NEW s \in CacheRecord
  PROVE  LET row == [NewProcess EXCEPT !.at = place, !.seen = s, !.again = TRUE] IN
         /\ row \in ProcessRecord /\ row.at = place
         /\ row.left = 0
<1> DEFINE n == NewProcess
<1>1. n \in ProcessRecord /\ n.left = 0 /\ n.answered = 0
  BY NewProcessTyped DEF NewProcess
<1> HIDE DEF n
<1> DEFINE row == [n EXCEPT !.at = place, !.seen = s, !.again = TRUE]
<1>2. /\ row \in ProcessRecord /\ row.at = place
      /\ row.left = 0
  BY <1>1 DEF ProcessRecord
<1> QED
  BY <1>2 DEF n

LEMMA FreshDue ==
  ASSUME NEW place \in Place, NEW began \in Nat, NEW due \in BOOLEAN
  PROVE  LET row == [NewProcess EXCEPT !.at = place, !.began = began, !.due = due] IN
         /\ row \in ProcessRecord /\ row.at = place
         /\ row.answered = 0
<1> DEFINE n == NewProcess
<1>1. n \in ProcessRecord /\ n.left = 0 /\ n.answered = 0
  BY NewProcessTyped DEF NewProcess
<1> HIDE DEF n
<1> DEFINE row == [n EXCEPT !.at = place, !.began = began, !.due = due]
<1>2. /\ row \in ProcessRecord /\ row.at = place
      /\ row.answered = 0
  BY <1>1 DEF ProcessRecord
<1> QED
  BY <1>2 DEF n

LEMMA FreshAnswer ==
  ASSUME NEW place \in Place, NEW version \in Release \cup {0}, NEW answered \in Nat
  PROVE  LET row == [NewProcess EXCEPT !.at = place, !.version = version, !.answered = answered] IN
         /\ row \in ProcessRecord /\ row.at = place
         /\ row.left = 0
<1> DEFINE n == NewProcess
<1>1. n \in ProcessRecord /\ n.left = 0 /\ n.answered = 0
  BY NewProcessTyped DEF NewProcess
<1> HIDE DEF n
<1> DEFINE row == [n EXCEPT !.at = place, !.version = version, !.answered = answered]
<1>2. /\ row \in ProcessRecord /\ row.at = place
      /\ row.left = 0
  BY <1>1 DEF ProcessRecord
<1> QED
  BY <1>2 DEF n

LEMMA InitializedKeeps == ASSUME NoticesIInv, NEW h \in Host, Initialized(h) PROVE NoticesIInv'
<1> DEFINE r == [NewProcess EXCEPT !.at = "notify", !.seen = ReadCache(clock)]
<1>1. h \in Process
  BY Kinds
<1>2. r \in ProcessRecord /\ r.at = "notify" /\ r.left = 0
  BY <1>1, StepFacts, FreePlaces, FreshSeen
<1>3. Goes(h, r) /\ UNCHANGED cache /\ WorldStays /\ HistoryStays
  BY DEF Initialized
<1> HIDE DEF r
<1>4. r.at \in Free \ Locked
  BY <1>2, FreePlaces
<1>5. r.left <= Fresh
  BY <1>2, PeriodsAreNumbers
<1> QED
  BY <1>1, <1>2, <1>3, <1>4, <1>5, RenewKeeps

LEMMA NotifyKeeps == ASSUME NoticesIInv, NEW h \in Host, Notify(h) PROVE NoticesIInv'
<1>1. h \in Process
  BY Kinds
<1>2. UNCHANGED cache /\ WorldStays /\ HistoryStays
  BY DEF Notify
<1>3. CASE Moves(h, "schedule")
  BY <1>1, <1>2, <1>3, MoveKeeps, FreePlaces
<1>4. CASE LockFree /\ Goes(h, [proc[h] EXCEPT !.at = "claim", !.began = clock])
  <2> DEFINE r == [proc[h] EXCEPT !.at = "claim", !.began = clock]
  <2>1. proc[h] \in ProcessRecord /\ clock \in Nat /\ clock > 0 /\ proc[h].left <= Fresh
    BY <1>1, StepFacts
  <2>2. r \in ProcessRecord /\ r.at = "claim" /\ r.began = clock /\ r.left = proc[h].left
    BY <2>1, FreePlaces DEF ProcessRecord
  <2>3. proc' = [proc EXCEPT ![h] = r]
    BY <1>4 DEF Goes
  <2> HIDE DEF r
  <2>4. Rests(h, r)
    BY <2>1, <2>2 DEF Rests
  <2>5. eager' \in BOOLEAN /\ (backs = 0 => ~eager')
    BY <1>1, <1>2, StepFacts DEF HistoryStays
  <2>6. UNCHANGED <<clock, published, backs, cache, shown, early, latest>>
    BY <1>2 DEF WorldStays, HistoryStays
  <2>7. r.left <= Fresh
    BY <2>1, <2>2
  <2> QED
    BY <1>1, <1>4, <2>2, <2>3, <2>4, <2>5, <2>6, <2>7, TurnKeeps
<1> QED
  BY <1>3, <1>4 DEF Notify

\* What may be told now was not told, or long ago.
LEMMA NoticeIsDue ==
  ASSUME NEW p \in Process, NEW s \in CacheRecord, NEW time \in Nat, ShouldNotify(s, p, time),
         \A c \in Channel : s.told[c].at = 0 => s.told[c].version = 0
  PROVE  /\ s.manifest # 0
         /\ s.told[ChannelOf(p)].version = s.manifest => time - s.told[ChannelOf(p)].at >= Throttle
<1> DEFINE before == s.told[ChannelOf(p)]
<1>1. s.manifest \in Nat /\ Running[p] \in Nat /\ s.manifest > Running[p]
  BY CacheFields, NoticesAssumption DEF ShouldNotify
<1>2. s.manifest # 0
  BY <1>1
<1>3. before.at = 0 => before.version = 0
  BY ChannelTyped
<1>4. before.version # s.manifest \/ before.at = 0 \/ time - before.at >= Throttle
  BY DEF ShouldNotify
<1> HIDE DEF before
<1>5. before.version = s.manifest => time - before.at >= Throttle
  BY <1>2, <1>3, <1>4
<1> QED
  BY <1>2, <1>5 DEF before

LEMMA ClaimKeeps == ASSUME NoticesIInv, NEW h \in Host, Claim(h) PROVE NoticesIInv'
<1> DEFINE s == ReadCache(clock)
           row == proc[h]
           marked == Marked(s, h, row.began)
<1>1. h \in Process
  BY Kinds
<1>2. UNCHANGED cache /\ WorldStays /\ HistoryStays /\ row.at = "claim"
  BY DEF Claim, In
<1>3. row \in ProcessRecord /\ s \in CacheRecord /\ row.left <= Fresh
      /\ (backs = 0 => s = cache /\ Rests(h, row) /\ \A c \in Channel : cache.told[c].at = 0 => cache.told[c].version = 0)
  BY <1>1, StepFacts
<1>4. row.began \in Nat /\ row.left \in Nat
  BY <1>3, RowFields
<1>5. marked \in CacheRecord /\ marked.checked = s.checked /\ marked.manifest = s.manifest
      /\ marked.told = [s.told EXCEPT ![ChannelOf(h)] = [version |-> s.manifest, at |-> row.began]]
  BY <1>3, <1>4, MarkedTyped
<1>6. eager' \in BOOLEAN /\ (backs = 0 => ~eager')
  BY <1>1, <1>2, StepFacts DEF HistoryStays
<1>7. UNCHANGED <<clock, published, backs, cache, shown, early, latest>>
  BY <1>2 DEF WorldStays, HistoryStays
<1>8. CASE ShouldNotify(s, h, row.began)
  <2> DEFINE r == [row EXCEPT !.at = "mark", !.answered = 0, !.next = marked]
  <2>1. Goes(h, r)
    BY <1>8 DEF Claim
  <2>2. proc' = [proc EXCEPT ![h] = r]
    BY <2>1 DEF Goes
  <2> HIDE DEF marked, row, s
  <2>3. r \in ProcessRecord /\ r.at = "mark" /\ r.answered = 0 /\ r.next = marked /\ r.began = row.began /\ r.left = row.left
    BY <1>3, <1>5, FreePlaces DEF ProcessRecord
  <2> HIDE DEF r
  <2>4. ASSUME backs = 0  PROVE Rests(h, r)
    <3>1. s = cache /\ row.began # 0
      BY <1>2, <1>3, <2>4 DEF Rests
    <3>2. s.manifest # 0 /\ (s.told[ChannelOf(h)].version = s.manifest => row.began - s.told[ChannelOf(h)].at >= Throttle)
      <4>1. \A c \in Channel : s.told[c].at = 0 => s.told[c].version = 0
        BY <1>3, <2>4
      <4> QED
        BY <1>1, <1>3, <1>4, <1>8, <4>1, NoticeIsDue
    <3>3. KeepsLatest(r)
      BY <1>5, <2>3, <3>1 DEF KeepsLatest, Newer
    <3>4. ClaimsOnce(h, r)
      BY <1>5, <2>3, <3>1, <3>2 DEF ClaimsOnce
    <3> QED
      BY <2>3, <3>3, <3>4 DEF Rests
  <2>5. r.left <= Fresh /\ row.at \in Locked
    BY <1>2, <1>3, <2>3 DEF Locked
  <2> QED
    BY <1>1, <1>6, <1>7, <2>2, <2>3, <2>4, <2>5, TurnKeeps DEF row
<1>9. CASE ~ShouldNotify(s, h, row.began)
  <2> DEFINE r == [row EXCEPT !.at = "schedule", !.began = 0]
  <2>1. Goes(h, r)
    BY <1>9 DEF Claim
  <2> HIDE DEF row
  <2>2. r \in ProcessRecord /\ r.at = "schedule" /\ r.left = row.left
    BY <1>3, FreePlaces DEF ProcessRecord
  <2> HIDE DEF r
  <2>3. r.at \in Free \ Locked /\ r.left <= Fresh
    BY <1>3, <2>2, FreePlaces
  <2> QED
    BY <1>1, <1>2, <2>1, <2>2, <2>3, RenewKeeps
<1> QED
  BY <1>8, <1>9

LEMMA MarkKeepsNotices == ASSUME NoticesIInv, NEW h \in Host, Mark(h) PROVE NoticesIInv'
<1>1. h \in Process
  BY Kinds
<1>2. In(h, "mark") /\ WorldStays /\ UNCHANGED eager
  BY DEF Mark
<1>3. proc[h] \in ProcessRecord /\ proc[h].left <= Fresh
  BY <1>1, StepFacts
<1>4. CASE Puts(h) /\ Claims(h) /\ Moves(h, "emit")
  <2> DEFINE r == [proc[h] EXCEPT !.at = "emit"]
  <2>1. r \in ProcessRecord /\ r.at = "emit" /\ r.left = proc[h].left
    BY <1>3, MovedTyped, FreePlaces
  <2>2. proc' = [proc EXCEPT ![h] = r]
    BY <1>4 DEF Moves, Goes
  <2> HIDE DEF r
  <2>3. UNCHANGED <<clock, published, backs, eager>> /\ proc[h].at = "mark" /\ r.left <= Fresh
    BY <1>2, <1>3, <2>1 DEF WorldStays, In
  <2> QED
    BY <1>1, <1>4, <2>1, <2>2, <2>3, WriteKeeps
<1>5. CASE Goes(h, [NewProcess EXCEPT !.at = "asleep", !.left = Fresh]) /\ UNCHANGED <<cache, latest, shown, early>>
  <2> DEFINE r == [NewProcess EXCEPT !.at = "asleep", !.left = Fresh]
  <2>1. r \in ProcessRecord /\ r.at = "asleep" /\ r.left = Fresh
    BY FreshAsleep, FreePlaces, PeriodsAreNumbers
  <2> HIDE DEF r
  <2>2. Goes(h, r) /\ UNCHANGED cache /\ HistoryStays
    BY <1>2, <1>5 DEF r, HistoryStays
  <2>3. r.at \in Free \ Locked
    BY <2>1, FreePlaces
  <2>4. r.left <= Fresh
    BY <2>1, PeriodsAreNumbers
  <2> QED
    BY <1>1, <1>2, <2>1, <2>2, <2>3, <2>4, RenewKeeps
<1> QED
  BY <1>4, <1>5 DEF Mark

LEMMA EmitKeeps == ASSUME NoticesIInv, NEW h \in Host, Emit(h) PROVE NoticesIInv'
<1> DEFINE row == proc[h]
           r == [row EXCEPT !.at = "schedule", !.began = 0, !.next = EmptyCache]
<1>1. h \in Process
  BY Kinds
<1>2. UNCHANGED cache /\ WorldStays /\ HistoryStays /\ Goes(h, r)
  BY DEF Emit
<1>3. row \in ProcessRecord /\ row.left <= Fresh
  BY <1>1, StepFacts
<1> HIDE DEF row
<1>4. r \in ProcessRecord /\ r.at = "schedule" /\ r.left = row.left
  BY <1>3, FreePlaces, EmptyTyped DEF ProcessRecord
<1> HIDE DEF r
<1>5. r.at \in Free \ Locked /\ r.left <= Fresh
  BY <1>3, <1>4, FreePlaces
<1> QED
  BY <1>1, <1>2, <1>4, <1>5, RenewKeeps

LEMMA ScheduleKeeps == ASSUME NoticesIInv, NEW h \in Host, Schedule(h) PROVE NoticesIInv'
<1> DEFINE delay == NextDelay(proc[h].seen, clock, proc[h].again)
           r == [NewProcess EXCEPT !.at = "asleep", !.left = delay]
<1>1. h \in Process
  BY Kinds
<1>2. UNCHANGED cache /\ WorldStays /\ HistoryStays /\ Goes(h, r)
  BY DEF Schedule
<1>3. proc[h].seen \in CacheRecord /\ proc[h].again \in BOOLEAN /\ clock \in Nat
  BY <1>1, StepFacts, RowFields
<1>4. delay \in 0..Fresh
  BY <1>3, SleepIsBounded
<1> HIDE DEF delay
<1>5. delay \in Nat /\ delay <= Fresh
  BY <1>4, PeriodsAreNumbers
<1>6. r \in ProcessRecord /\ r.at = "asleep" /\ r.left = delay
  BY <1>5, FreshAsleep, FreePlaces
<1> HIDE DEF r
<1>7. r.at \in Free \ Locked /\ r.left <= Fresh
  BY <1>5, <1>6, FreePlaces
<1> QED
  BY <1>1, <1>2, <1>6, <1>7, RenewKeeps

LEMMA WakeKeeps == ASSUME NoticesIInv, NEW h \in Host, Wake(h) PROVE NoticesIInv'
<1>1. h \in Process
  BY Kinds
<1>2. UNCHANGED cache /\ WorldStays /\ HistoryStays
  BY DEF Wake
<1>3. Moves(h, "ask") \/ Moves(h, "reread")
  BY DEF Wake
<1> QED
  BY <1>1, <1>2, <1>3, MoveKeeps, FreePlaces

\* Taking the lock, or leaving it to others.
LEMMA TakeLockKeeps ==
  ASSUME NoticesIInv, NEW p \in Process, NEW inside \in Free, NEW outside \in Free \ Locked,
         TakeLock(p, inside, outside), UNCHANGED cache, WorldStays, HistoryStays
  PROVE  NoticesIInv'
<1>1. CASE LockFree /\ Moves(p, inside)
  BY <1>1, MoveKeeps
<1>2. CASE ~LockFree /\ Moves(p, outside)
  BY <1>2, MoveKeeps
<1> QED
  BY <1>1, <1>2 DEF TakeLock

LEMMA AskKeeps == ASSUME NoticesIInv, NEW h \in Host, Ask(h) PROVE NoticesIInv'
<1>1. "recheck" \in Free /\ "reread" \in Free \ Locked
  BY FreePlaces DEF Free
<1> QED
  BY <1>1, TakeLockKeeps, Kinds DEF Ask

\* A step of one in the lock to a request, which is on time.
LEMMA AskOnceKeeps ==
  ASSUME NoticesIInv, NEW p \in Process, NEW r \in ProcessRecord, proc' = [proc EXCEPT ![p] = r],
         UNCHANGED <<clock, published, backs, cache, shown, early, latest>>, proc[p].at \in Locked,
         Asks, Due(ReadCache(clock), clock), p \in Host => r.left <= Fresh, backs = 0 => Rests(p, r)
  PROVE  NoticesIInv'
<1>1. eager \in BOOLEAN /\ (backs = 0 => ReadCache(clock) = cache /\ ~eager)
  BY StepFacts
<1>2. eager' = (eager \/ ~Due(cache, clock))
  BY DEF Asks
<1>3. eager' \in BOOLEAN
  BY <1>1, <1>2
<1>4. backs = 0 => ~eager'
  BY <1>1, <1>2
<1> QED
  BY <1>3, <1>4, TurnKeeps

LEMMA RecheckKeeps == ASSUME NoticesIInv, NEW h \in Host, Recheck(h) PROVE NoticesIInv'
<1> DEFINE s == ReadCache(clock)
           row == proc[h]
<1>1. h \in Process
  BY Kinds
<1>2. UNCHANGED <<clock, published, backs, cache, shown, early, latest>> /\ row.at = "recheck"
      /\ UNCHANGED cache /\ WorldStays
  BY DEF Recheck, WorldStays, In
<1>3. row \in ProcessRecord /\ s \in CacheRecord /\ row.left <= Fresh /\ (backs = 0 => s = cache)
  BY <1>1, StepFacts
<1>4. CASE Due(s, clock)
  <2> DEFINE r == [row EXCEPT !.at = "fetch", !.seen = s]
  <2>1. proc' = [proc EXCEPT ![h] = r] /\ Asks
    BY <1>4 DEF Recheck, Goes
  <2> HIDE DEF row, s
  <2>2. r \in ProcessRecord /\ r.at = "fetch" /\ r.seen = s /\ r.left = row.left
    BY <1>3, FreePlaces DEF ProcessRecord
  <2> HIDE DEF r
  <2>3. backs = 0 => Rests(h, r)
    BY <1>3, <2>2 DEF Rests
  <2>4. row.at \in Locked /\ r.left <= Fresh
    BY <1>2, <1>3, <2>2 DEF Locked
  <2> QED
    BY <1>1, <1>2, <1>4, <2>1, <2>2, <2>3, <2>4, AskOnceKeeps DEF row, s
<1>5. CASE ~Due(s, clock)
  <2> DEFINE r == [NewProcess EXCEPT !.at = "reread"]
  <2>1. Goes(h, r) /\ HistoryStays
    BY <1>2, <1>5 DEF Recheck, HistoryStays
  <2>2. r \in ProcessRecord /\ r.at = "reread" /\ r.left = 0
    BY FreshAt, FreePlaces
  <2> HIDE DEF r
  <2>3. r.at \in Free \ Locked
    BY <2>2, FreePlaces
  <2>4. r.left <= Fresh
    BY <2>2, PeriodsAreNumbers
  <2> QED
    BY <1>1, <1>2, <2>1, <2>2, <2>3, <2>4, RenewKeeps
<1> QED
  BY <1>4, <1>5

\* An answer, put together with the state that the process has read.
LEMMA AnsweredRests ==
  ASSUME NoticesIInv, NEW p \in Process, NEW s \in CacheRecord, NEW version \in Release \cup {0},
         NEW time \in Nat, time # 0, backs = 0 => s = cache, Answered(p, s, version, time),
         p \in Command => proc[p].began # 0
  PROVE  \E r \in ProcessRecord :
           /\ Goes(p, r) /\ r.at = (IF p \in Host THEN "record" ELSE "cli tell") /\ r.left = proc[p].left
           /\ r.seen = proc[p].seen /\ r.began = proc[p].began
           /\ backs = 0 => KeepsLatest(r) /\ r.next.told = cache.told
<1> DEFINE row == proc[p]
           next == Checked(s, version, time)
           place == IF p \in Host THEN "record" ELSE "cli tell"
           r == [row EXCEPT !.next = next, !.version = version, !.answered = time, !.at = place]
<1>1. Goes(p, r)
  BY DEF Answered
<1>2. row \in ProcessRecord /\ cache \in CacheRecord
  BY StepFacts
<1>3. /\ next \in CacheRecord /\ next.told = s.told
      /\ next.checked = IF time < s.checked THEN s.checked ELSE time
      /\ next.manifest = IF time < s.checked THEN s.manifest ELSE version
  BY CheckedTyped
<1>4. place \in Place
  BY FreePlaces
<1> HIDE DEF row, next, place
<1>5. /\ r \in ProcessRecord /\ r.at = place /\ r.left = row.left /\ r.seen = row.seen /\ r.began = row.began
      /\ r.next = next /\ r.version = version /\ r.answered = time
  BY <1>2, <1>3, <1>4 DEF ProcessRecord
<1>6. Goes(p, r)
  BY <1>1 DEF row, next, place
<1> HIDE DEF r
<1>7. ASSUME backs = 0  PROVE KeepsLatest(r) /\ r.next.told = cache.told
  <2>1. s = cache /\ s.checked \in Nat
    BY <1>2, <1>7, CacheFields
  <2>2. Newer(r) <=> ~(time < s.checked)
    BY <1>5, <2>1 DEF Newer
  <2>3. r.next.checked = IF Newer(r) THEN r.answered ELSE cache.checked
    BY <1>3, <1>5, <2>1, <2>2
  <2>4. r.next.manifest = IF Newer(r) THEN r.version ELSE cache.manifest
    BY <1>3, <1>5, <2>1, <2>2
  <2> QED
    BY <1>3, <1>5, <2>1, <2>3, <2>4 DEF KeepsLatest
<1> QED
  BY <1>5, <1>6, <1>7 DEF row, place

\* A failure, recorded on top of the state that the process has read.
LEMMA FailedRests ==
  ASSUME NoticesIInv, NEW h \in Host, backs = 0 => proc[h].seen = cache, proc[h].at \in Locked,
         Goes(h, [proc[h] EXCEPT !.at = "refail", !.next = Failed(proc[h].seen, clock), !.answered = 0]),
         UNCHANGED cache, WorldStays, HistoryStays
  PROVE  NoticesIInv'
<1> DEFINE row == proc[h]
           next == Failed(row.seen, clock)
           r == [row EXCEPT !.at = "refail", !.next = next, !.answered = 0]
<1>1. h \in Process
  BY Kinds
<1>2. row \in ProcessRecord /\ clock \in Nat /\ row.left <= Fresh /\ cache \in CacheRecord
  BY <1>1, StepFacts
<1>3. row.seen \in CacheRecord
  BY <1>2, RowFields
<1>4. next \in CacheRecord /\ next.checked = row.seen.checked /\ next.manifest = row.seen.manifest
      /\ next.told = row.seen.told
  BY <1>2, <1>3, FailedTyped
<1>5. proc' = [proc EXCEPT ![h] = r]
  BY DEF Goes
<1>6. eager' \in BOOLEAN /\ (backs = 0 => ~eager')
  BY <1>1, StepFacts DEF HistoryStays
<1>7. UNCHANGED <<clock, published, backs, cache, shown, early, latest>>
  BY DEF WorldStays, HistoryStays
<1> HIDE DEF next, row
<1>8. r \in ProcessRecord /\ r.at = "refail" /\ r.next = next /\ r.answered = 0 /\ r.left = row.left
  BY <1>2, <1>4, FreePlaces DEF ProcessRecord
<1> HIDE DEF r
<1>9. backs = 0 => Rests(h, r)
  <2> SUFFICES ASSUME backs = 0  PROVE Rests(h, r)
    OBVIOUS
  <2>1. row.seen = cache
    BY DEF row
  <2>2. KeepsLatest(r) /\ r.next.told = cache.told
    BY <1>4, <1>8, <2>1 DEF KeepsLatest, Newer
  <2> QED
    BY <1>8, <2>2 DEF Rests
<1>10. r.left <= Fresh /\ row.at \in Locked
  BY <1>2, <1>8 DEF row
<1> QED
  BY <1>1, <1>5, <1>6, <1>7, <1>8, <1>9, <1>10, TurnKeeps DEF row

LEMMA FetchKeeps == ASSUME NoticesIInv, NEW h \in Host, Fetch(h) PROVE NoticesIInv'
<1>1. h \in Process /\ h \notin Command
  BY Kinds
<1>2. UNCHANGED cache /\ WorldStays /\ HistoryStays /\ proc[h].at = "fetch"
  BY DEF Fetch, In
<1>3. proc[h].at \in Locked
  BY <1>2 DEF Locked
<1>4. /\ proc[h] \in ProcessRecord /\ clock \in Nat /\ clock # 0 /\ published \in Release \cup {0}
      /\ proc[h].left <= Fresh /\ (backs = 0 => Rests(h, proc[h]))
  BY <1>1, StepFacts
<1>5. backs = 0 => proc[h].seen = cache
  BY <1>2, <1>4 DEF Rests
<1>6. proc[h].seen \in CacheRecord
  BY <1>4, RowFields
<1>7. CASE Answered(h, proc[h].seen, published, clock)
  <2>1. PICK r \in ProcessRecord :
          /\ Goes(h, r) /\ r.at = "record" /\ r.left = proc[h].left /\ r.seen = proc[h].seen
          /\ backs = 0 => KeepsLatest(r) /\ r.next.told = cache.told
    BY <1>1, <1>4, <1>5, <1>6, <1>7, AnsweredRests
  <2>2. backs = 0 => Rests(h, r)
    BY <1>5, <2>1 DEF Rests
  <2>3. eager' \in BOOLEAN /\ (backs = 0 => ~eager')
    BY <1>1, <1>2, StepFacts DEF HistoryStays
  <2>4. UNCHANGED <<clock, published, backs, cache, shown, early, latest>>
    BY <1>2 DEF WorldStays, HistoryStays
  <2>5. proc' = [proc EXCEPT ![h] = r] /\ r.left <= Fresh
    BY <1>4, <2>1 DEF Goes
  <2> QED
    BY <1>1, <1>3, <2>2, <2>3, <2>4, <2>5, TurnKeeps
<1>8. CASE Goes(h, [proc[h] EXCEPT !.at = "refail", !.next = Failed(proc[h].seen, clock), !.answered = 0])
  BY <1>2, <1>3, <1>5, <1>8, FailedRests
<1> QED
  BY <1>7, <1>8 DEF Fetch

LEMMA RecordKeeps == ASSUME NoticesIInv, NEW h \in Host, Record(h) PROVE NoticesIInv'
<1>1. h \in Process
  BY Kinds
<1>2. WorldStays /\ UNCHANGED <<shown, early, eager>> /\ proc[h].at = "record"
  BY DEF Record, In
<1>3. proc[h].at \in Locked
  BY <1>2 DEF Locked
<1>4. CASE Puts(h) /\ Goes(h, [NewProcess EXCEPT !.at = "reread"])
  <2> DEFINE r == [NewProcess EXCEPT !.at = "reread"]
  <2>1. r \in ProcessRecord /\ r.at = "reread" /\ r.left = 0
    BY FreshAt, FreePlaces
  <2>2. proc' = [proc EXCEPT ![h] = r]
    BY <1>4 DEF Goes
  <2> HIDE DEF r
  <2>3. r.left <= Fresh
    BY <2>1, PeriodsAreNumbers
  <2>4. UNCHANGED <<clock, published, backs, eager>>
    BY <1>2 DEF WorldStays
  <2> QED
    BY <1>1, <1>2, <1>4, <2>1, <2>2, <2>3, <2>4, WriteKeeps
<1>5. CASE /\ Goes(h, [proc[h] EXCEPT !.at = "refail", !.next = Failed(proc[h].seen, clock), !.answered = 0])
           /\ UNCHANGED <<cache, latest>>
  <2>1. backs = 0 => proc[h].seen = cache
    BY <1>1, <1>2, StepFacts DEF Rests
  <2>2. HistoryStays
    BY <1>2, <1>5 DEF HistoryStays
  <2> QED
    BY <1>2, <1>3, <1>5, <2>1, <2>2, FailedRests
<1> QED
  BY <1>4, <1>5 DEF Record

LEMMA RefailKeeps == ASSUME NoticesIInv, NEW h \in Host, Refail(h) PROVE NoticesIInv'
<1> DEFINE r == [NewProcess EXCEPT !.at = "reread"]
<1>1. h \in Process
  BY Kinds
<1>2. WorldStays /\ UNCHANGED <<shown, early, eager>> /\ proc[h].at = "refail" /\ Goes(h, r)
  BY DEF Refail, In
<1>3. r \in ProcessRecord /\ r.at = "reread" /\ r.left = 0
  BY FreshAt, FreePlaces
<1> HIDE DEF r
<1>4. r.left <= Fresh
  BY <1>3, PeriodsAreNumbers
<1>5. CASE Puts(h)
  <2>1. UNCHANGED <<clock, published, backs, eager>> /\ proc' = [proc EXCEPT ![h] = r]
    BY <1>2 DEF WorldStays, Goes
  <2> QED
    BY <1>1, <1>2, <1>3, <1>4, <1>5, <2>1, WriteKeeps
<1>6. CASE UNCHANGED <<cache, latest>>
  <2>1. HistoryStays
    BY <1>2, <1>6 DEF HistoryStays
  <2>2. r.at \in Free \ Locked
    BY <1>3, FreePlaces
  <2> QED
    BY <1>1, <1>2, <1>3, <1>4, <1>6, <2>1, <2>2, RenewKeeps
<1> QED
  BY <1>5, <1>6 DEF Refail

LEMMA RereadKeeps == ASSUME NoticesIInv, NEW h \in Host, Reread(h) PROVE NoticesIInv'
<1> DEFINE r == [NewProcess EXCEPT !.at = "notify", !.seen = ReadCache(clock), !.again = TRUE]
<1>1. h \in Process
  BY Kinds
<1>2. r \in ProcessRecord /\ r.at = "notify" /\ r.left = 0
  <2>1. ReadCache(clock) \in CacheRecord /\ "notify" \in Place
    BY <1>1, StepFacts, FreePlaces
  <2> QED
    BY <2>1, FreshAgain
<1>3. Goes(h, r) /\ UNCHANGED cache /\ WorldStays /\ HistoryStays
  BY DEF Reread
<1> HIDE DEF r
<1>4. r.at \in Free \ Locked
  BY <1>2, FreePlaces
<1>5. r.left <= Fresh
  BY <1>2, PeriodsAreNumbers
<1> QED
  BY <1>1, <1>2, <1>3, <1>4, <1>5, RenewKeeps

LEMMA CommandChecksKeeps == ASSUME NoticesIInv, NEW c \in Command, CommandChecks(c) PROVE NoticesIInv'
<1> DEFINE due == Due(ReadCache(clock), clock)
           r == [NewProcess EXCEPT !.at = "cli lock", !.began = clock, !.due = due]
<1>1. c \in Process /\ c \notin Host
  BY Kinds
<1>2. UNCHANGED cache /\ WorldStays /\ HistoryStays /\ proc' = [proc EXCEPT ![c] = r]
  BY DEF CommandChecks, Goes
<1>3. due \in BOOLEAN /\ clock \in Nat
  BY <1>1, StepFacts DEF Due
<1> HIDE DEF due
<1>4. r \in ProcessRecord /\ r.at = "cli lock" /\ r.answered = 0
  <2>1. "cli lock" \in Place
    BY FreePlaces
  <2> QED
    BY <1>3, <2>1, FreshDue
<1> HIDE DEF r
<1>5. Rests(c, r) /\ r.at \notin Locked
  BY <1>4 DEF Rests, Locked
<1>6. eager' \in BOOLEAN /\ (backs = 0 => ~eager')
  BY <1>1, <1>2, StepFacts DEF HistoryStays
<1>7. UNCHANGED <<clock, published, backs, cache, shown, early, latest>>
  BY <1>2 DEF WorldStays, HistoryStays
<1> QED
  BY <1>1, <1>2, <1>4, <1>5, <1>6, <1>7, TurnKeeps

LEMMA CommandLocksKeeps == ASSUME NoticesIInv, NEW c \in Command, CommandLocks(c) PROVE NoticesIInv'
<1>1. c \in Process /\ c \notin Host
  BY Kinds
<1>2. UNCHANGED cache /\ WorldStays /\ HistoryStays /\ proc[c].at = "cli lock"
  BY DEF CommandLocks, InTime, In
<1>3. CASE ~LockFree /\ Moves(c, "idle")
  BY <1>1, <1>2, <1>3, MoveKeeps, FreePlaces
<1>4. CASE LockFree /\ Moves(c, "cli read")
  <2> DEFINE r == [proc[c] EXCEPT !.at = "cli read"]
  <2>1. proc[c] \in ProcessRecord /\ (backs = 0 => Rests(c, proc[c]))
    BY <1>1, StepFacts
  <2>2. r \in ProcessRecord /\ r.at = "cli read" /\ r.answered = proc[c].answered
    BY <2>1, MovedTyped, FreePlaces
  <2>3. proc' = [proc EXCEPT ![c] = r]
    BY <1>4 DEF Moves, Goes
  <2> HIDE DEF r
  <2>4. backs = 0 => Rests(c, r)
    BY <1>2, <2>1, <2>2 DEF Rests
  <2>5. eager' \in BOOLEAN /\ (backs = 0 => ~eager')
    BY <1>1, <1>2, StepFacts DEF HistoryStays
  <2>6. UNCHANGED <<clock, published, backs, cache, shown, early, latest>>
    BY <1>2 DEF WorldStays, HistoryStays
  <2> QED
    BY <1>1, <1>4, <2>2, <2>3, <2>4, <2>5, <2>6, TurnKeeps
<1> QED
  BY <1>3, <1>4 DEF CommandLocks, TakeLock

LEMMA CommandReadsKeeps == ASSUME NoticesIInv, NEW c \in Command, CommandReads(c) PROVE NoticesIInv'
<1> DEFINE s == ReadCache(clock)
           row == proc[c]
<1>1. c \in Process /\ c \notin Host
  BY Kinds
<1>2. UNCHANGED <<clock, published, backs, cache, shown, early, latest>> /\ row.at = "cli read"
      /\ clock = row.began
  BY DEF CommandReads, WorldStays, InTime, In
<1>3. row \in ProcessRecord /\ s \in CacheRecord /\ clock \in Nat /\ clock > 0 /\ cache \in CacheRecord
      /\ (backs = 0 => s = cache /\ Rests(c, row))
  BY <1>1, StepFacts
<1>4. row.at \in Locked /\ row.began # 0
  <2>1. clock # 0
    BY <1>3
  <2> QED
    BY <1>2, <2>1 DEF Locked
<1>5. CASE row.due /\ Due(s, row.began)
  <2> DEFINE r == [row EXCEPT !.at = "cli fetch", !.seen = s]
  <2>1. proc' = [proc EXCEPT ![c] = r] /\ Asks
    BY <1>5 DEF CommandReads, Goes
  <2> HIDE DEF row, s
  <2>2. r \in ProcessRecord /\ r.at = "cli fetch" /\ r.seen = s /\ r.answered = row.answered
    BY <1>3, FreePlaces DEF ProcessRecord
  <2> HIDE DEF r
  <2>3. backs = 0 => Rests(c, r)
    BY <1>2, <1>3, <2>2 DEF Rests
  <2>4. Due(s, clock)
    BY <1>2, <1>5
  <2> QED
    BY <1>1, <1>2, <1>4, <2>1, <2>2, <2>3, <2>4, AskOnceKeeps DEF row, s
<1>6. CASE ~(row.due /\ Due(s, row.began))
  <2> DEFINE r == [row EXCEPT !.at = "cli tell", !.next = s]
  <2>1. proc' = [proc EXCEPT ![c] = r] /\ eager' = eager
    BY <1>6 DEF CommandReads, Goes
  <2> HIDE DEF row, s
  <2>2. r \in ProcessRecord /\ r.at = "cli tell" /\ r.next = s /\ r.answered = row.answered /\ r.began = row.began
    BY <1>3, FreePlaces DEF ProcessRecord
  <2> HIDE DEF r
  <2>3. backs = 0 => Rests(c, r)
    <3> SUFFICES ASSUME backs = 0  PROVE Rests(c, r)
      OBVIOUS
    <3>1. row.answered = 0 /\ s = cache
      BY <1>2, <1>3 DEF Rests
    <3>2. r.began # 0
      BY <1>4, <2>2
    <3>3. KeepsLatest(r) /\ r.next.told = cache.told
      BY <2>2, <3>1 DEF KeepsLatest, Newer
    <3> QED
      BY <2>2, <3>2, <3>3 DEF Rests
  <2>4. eager' \in BOOLEAN /\ (backs = 0 => ~eager')
    BY <1>1, <2>1, StepFacts
  <2> QED
    BY <1>1, <1>2, <1>4, <2>1, <2>2, <2>3, <2>4, TurnKeeps DEF row
<1> QED
  BY <1>5, <1>6

LEMMA CommandFetchesKeeps == ASSUME NoticesIInv, NEW c \in Command, CommandFetches(c) PROVE NoticesIInv'
<1> DEFINE row == proc[c]
<1>1. c \in Process /\ c \notin Host
  BY Kinds
<1>2. UNCHANGED cache /\ WorldStays /\ HistoryStays /\ row.at = "cli fetch" /\ clock = row.began
  BY DEF CommandFetches, InTime, In
<1>3. row.at \in Locked
  BY <1>2 DEF Locked
<1>4. /\ row \in ProcessRecord /\ clock \in Nat /\ clock # 0 /\ published \in Release \cup {0}
      /\ (backs = 0 => Rests(c, row))
  BY <1>1, StepFacts
<1>5. backs = 0 => row.seen = cache /\ row.answered = 0
  BY <1>2, <1>4 DEF Rests
<1>6. row.seen \in CacheRecord
  BY <1>4, RowFields
<1>7. eager' \in BOOLEAN /\ (backs = 0 => ~eager')
  BY <1>1, <1>2, StepFacts DEF HistoryStays
<1>8. UNCHANGED <<clock, published, backs, cache, shown, early, latest>>
  BY <1>2 DEF WorldStays, HistoryStays
<1>9. CASE Answered(c, row.seen, published, row.began)
  <2>1. row.began \in Nat /\ row.began # 0
    BY <1>2, <1>4
  <2>2. PICK r \in ProcessRecord :
          /\ Goes(c, r) /\ r.at = "cli tell" /\ r.began = row.began
          /\ backs = 0 => KeepsLatest(r) /\ r.next.told = cache.told
    BY <1>1, <1>4, <1>5, <1>6, <1>9, <2>1, AnsweredRests
  <2>3. backs = 0 => Rests(c, r)
    BY <2>1, <2>2 DEF Rests
  <2>4. proc' = [proc EXCEPT ![c] = r]
    BY <2>2 DEF Goes
  <2> QED
    BY <1>1, <1>3, <1>7, <1>8, <2>3, <2>4, TurnKeeps
<1>10. CASE Goes(c, [row EXCEPT !.at = "cli save", !.next = Failed(row.seen, row.began)])
  <2> DEFINE next == Failed(row.seen, row.began)
             r == [row EXCEPT !.at = "cli save", !.next = next]
  <2>1. next \in CacheRecord /\ next.checked = row.seen.checked /\ next.manifest = row.seen.manifest
        /\ next.told = row.seen.told
    BY <1>2, <1>4, <1>6, FailedTyped
  <2>2. proc' = [proc EXCEPT ![c] = r]
    BY <1>10 DEF Goes
  <2> HIDE DEF next, row
  <2>3. r \in ProcessRecord /\ r.at = "cli save" /\ r.next = next /\ r.answered = row.answered
    BY <1>4, <2>1, FreePlaces DEF ProcessRecord
  <2> HIDE DEF r
  <2>4. backs = 0 => Rests(c, r)
    <3> SUFFICES ASSUME backs = 0  PROVE Rests(c, r)
      OBVIOUS
    <3>1. KeepsLatest(r) /\ r.next.told = cache.told
      BY <1>5, <2>1, <2>3 DEF KeepsLatest, Newer
    <3> QED
      BY <2>3, <3>1 DEF Rests
  <2> QED
    BY <1>1, <1>3, <1>7, <1>8, <2>2, <2>3, <2>4, TurnKeeps DEF row
<1> QED
  BY <1>9, <1>10 DEF CommandFetches

LEMMA CommandTellsKeeps == ASSUME NoticesIInv, NEW c \in Command, CommandTells(c) PROVE NoticesIInv'
<1> DEFINE row == proc[c]
           marked == Marked(row.next, c, row.began)
<1>1. c \in Process /\ c \notin Host
  BY Kinds
<1>2. UNCHANGED cache /\ WorldStays /\ HistoryStays /\ row.at = "cli tell"
  BY DEF CommandTells, InTime, In
<1>3. row.at \in Locked
  BY <1>2 DEF Locked
<1>4. /\ row \in ProcessRecord
      /\ (backs = 0 => Rests(c, row) /\ \A d \in Channel : cache.told[d].at = 0 => cache.told[d].version = 0)
  BY <1>1, StepFacts
<1>5. row.next \in CacheRecord /\ row.began \in Nat
  BY <1>4, RowFields
<1>6. backs = 0 => KeepsLatest(row) /\ row.next.told = cache.told /\ row.began # 0
  BY <1>2, <1>4 DEF Rests
<1>7. eager' \in BOOLEAN /\ (backs = 0 => ~eager')
  BY <1>1, <1>2, StepFacts DEF HistoryStays
<1>8. UNCHANGED <<clock, published, backs, cache, shown, early, latest>>
  BY <1>2 DEF WorldStays, HistoryStays
<1>9. CASE ShouldNotify(row.next, c, row.began)
  <2> DEFINE r == [row EXCEPT !.at = "cli mark", !.next = marked]
  <2>1. Goes(c, [row EXCEPT !.at = "cli mark", !.next = Marked(@, c, row.began)])
    BY <1>9 DEF CommandTells
  <2>2. marked \in CacheRecord /\ marked.checked = row.next.checked /\ marked.manifest = row.next.manifest
        /\ marked.told = [row.next.told EXCEPT ![ChannelOf(c)] = [version |-> row.next.manifest, at |-> row.began]]
    BY <1>5, MarkedTyped
  <2>3. proc' = [proc EXCEPT ![c] = r]
    BY <1>4, <2>1 DEF Goes, ProcessRecord
  <2> HIDE DEF marked, row
  <2>4. r \in ProcessRecord /\ r.at = "cli mark" /\ r.next = marked /\ r.answered = row.answered
        /\ r.version = row.version /\ r.began = row.began
    BY <1>4, <2>2, FreePlaces DEF ProcessRecord
  <2> HIDE DEF r
  <2>5. backs = 0 => Rests(c, r)
    <3> SUFFICES ASSUME backs = 0  PROVE Rests(c, r)
      OBVIOUS
    <3>1. \A d \in Channel : row.next.told[d].at = 0 => row.next.told[d].version = 0
      BY <1>4, <1>6
    <3>2. row.next.manifest # 0 /\ (row.next.told[ChannelOf(c)].version = row.next.manifest
                                      => row.began - row.next.told[ChannelOf(c)].at >= Throttle)
      BY <1>1, <1>5, <1>9, <3>1, NoticeIsDue
    <3>3. KeepsLatest(r)
      BY <1>6, <2>2, <2>4 DEF KeepsLatest, Newer
    <3>4. ClaimsOnce(c, r)
      BY <1>6, <2>2, <2>4, <3>2 DEF ClaimsOnce
    <3> QED
      BY <2>4, <3>3, <3>4 DEF Rests
  <2> QED
    BY <1>1, <1>3, <1>7, <1>8, <2>3, <2>4, <2>5, TurnKeeps DEF row
<1>10. CASE ~ShouldNotify(row.next, c, row.began) /\ row.due
  <2> DEFINE r == [row EXCEPT !.at = "cli save"]
  <2>1. proc' = [proc EXCEPT ![c] = r]
    BY <1>10 DEF CommandTells, Goes
  <2> HIDE DEF row
  <2>2. r \in ProcessRecord /\ r.at = "cli save" /\ r.next = row.next /\ r.answered = row.answered /\ r.version = row.version
    BY <1>4, MovedTyped, FreePlaces
  <2> HIDE DEF r
  <2>3. backs = 0 => Rests(c, r)
    BY <1>6, <2>2 DEF Rests, KeepsLatest, Newer
  <2> QED
    BY <1>1, <1>3, <1>7, <1>8, <2>1, <2>2, <2>3, TurnKeeps DEF row
<1>11. CASE ~ShouldNotify(row.next, c, row.began) /\ ~row.due
  <2>1. Goes(c, NewProcess)
    BY <1>11 DEF CommandTells
  <2>2. NewProcess.at \in Free \ Locked
    BY FreshIdle, FreePlaces
  <2> QED
    BY <1>1, <1>2, <2>1, <2>2, NewProcessTyped, RenewKeeps
<1> QED
  BY <1>9, <1>10, <1>11

\* A command, or an update, that has written.
LEMMA SavesKeeps ==
  ASSUME NoticesIInv, NEW p \in Command \cup Updater, proc[p].at \in {"cli save", "save"}, Puts(p),
         Goes(p, NewProcess), WorldStays, UNCHANGED <<shown, early, eager>>
  PROVE  NoticesIInv'
<1>1. p \in Process /\ p \notin Host
  BY Kinds
<1>2. UNCHANGED <<clock, published, backs, eager>> /\ proc' = [proc EXCEPT ![p] = NewProcess]
  BY DEF WorldStays, Goes
<1>3. NewProcess \in ProcessRecord /\ NewProcess.at = "idle"
  BY NewProcessTyped, FreshIdle
<1> QED
  BY <1>1, <1>2, <1>3, WriteKeeps

LEMMA CommandMarksKeeps == ASSUME NoticesIInv, NEW c \in Command, CommandMarks(c) PROVE NoticesIInv'
<1> DEFINE r == [proc[c] EXCEPT !.at = "cli print"]
<1>1. c \in Process /\ c \notin Host
  BY Kinds
<1>2. proc[c].at = "cli mark" /\ Puts(c) /\ Claims(c) /\ proc' = [proc EXCEPT ![c] = r]
      /\ UNCHANGED <<clock, published, backs, eager>>
  BY DEF CommandMarks, InTime, In, Moves, Goes, WorldStays
<1>3. proc[c] \in ProcessRecord
  BY <1>1, StepFacts
<1>4. r \in ProcessRecord /\ r.at = "cli print"
  BY <1>3, MovedTyped, FreePlaces DEF Free
<1> HIDE DEF r
<1> QED
  BY <1>1, <1>2, <1>4, WriteKeeps

LEMMA CommandPrintsKeeps == ASSUME NoticesIInv, NEW c \in Command, CommandPrints(c) PROVE NoticesIInv'
<1>1. c \in Process /\ c \notin Host
  BY Kinds
<1>2. Goes(c, NewProcess) /\ UNCHANGED cache /\ WorldStays /\ HistoryStays
  BY DEF CommandPrints
<1>3. NewProcess.at \in Free \ Locked
  BY FreshIdle, FreePlaces
<1> QED
  BY <1>1, <1>2, <1>3, NewProcessTyped, RenewKeeps

LEMMA UpdateFetchesKeeps == ASSUME NoticesIInv, NEW u \in Updater, UpdateFetches(u) PROVE NoticesIInv'
<1>1. u \in Process /\ u \notin Host
  BY Kinds
<1>2. UNCHANGED cache /\ WorldStays /\ HistoryStays
  BY DEF UpdateFetches
<1>3. "lock" \in Free \ Locked
  BY FreePlaces
<1>4. CASE Goes(u, [NewProcess EXCEPT !.at = "lock", !.version = published, !.answered = clock])
  <2> DEFINE r == [NewProcess EXCEPT !.at = "lock", !.version = published, !.answered = clock]
  <2>1. published \in Release \cup {0} /\ clock \in Nat /\ "lock" \in Place
    BY <1>1, StepFacts, FreePlaces
  <2>2. r \in ProcessRecord /\ r.at = "lock"
    BY <2>1, FreshAnswer
  <2> HIDE DEF r
  <2>3. Goes(u, r)
    BY <1>4 DEF r
  <2> QED
    BY <1>1, <1>2, <1>3, <2>2, <2>3, RenewKeeps
<1>5. CASE Goes(u, [NewProcess EXCEPT !.at = "lock"])
  <2> DEFINE r == [NewProcess EXCEPT !.at = "lock"]
  <2>1. r \in ProcessRecord /\ r.at = "lock"
    BY FreshAt, FreePlaces
  <2> HIDE DEF r
  <2>2. Goes(u, r)
    BY <1>5 DEF r
  <2> QED
    BY <1>1, <1>2, <1>3, <2>1, <2>2, RenewKeeps
<1> QED
  BY <1>4, <1>5 DEF UpdateFetches

LEMMA UpdateLocksKeeps == ASSUME NoticesIInv, NEW u \in Updater, UpdateLocks(u) PROVE NoticesIInv'
<1>1. "keep" \in Free /\ "idle" \in Free \ Locked
  BY FreePlaces DEF Free
<1> QED
  BY <1>1, TakeLockKeeps, Kinds DEF UpdateLocks

LEMMA UpdateKeepsKeeps == ASSUME NoticesIInv, NEW u \in Updater, UpdateKeeps(u) PROVE NoticesIInv'
<1> DEFINE row == proc[u]
           s == ReadCache(clock)
           next == IF row.answered = 0 THEN s ELSE Checked(s, row.version, row.answered)
           r == [row EXCEPT !.at = "save", !.next = next]
<1>1. u \in Process /\ u \notin Host
  BY Kinds
<1>2. UNCHANGED cache /\ WorldStays /\ HistoryStays /\ row.at = "keep" /\ proc' = [proc EXCEPT ![u] = r]
  BY DEF UpdateKeeps, In, Goes
<1>3. row \in ProcessRecord /\ s \in CacheRecord /\ cache \in CacheRecord /\ (backs = 0 => s = cache)
  BY <1>1, StepFacts
<1>4. row.answered \in Nat /\ row.version \in Release \cup {0} /\ cache.checked \in Nat /\ s.checked \in Nat
  BY <1>3, RowFields, CacheFields
<1>5. /\ next \in CacheRecord /\ next.told = s.told
      /\ next.checked = IF row.answered # 0 /\ row.answered >= s.checked THEN row.answered ELSE s.checked
      /\ next.manifest = IF row.answered # 0 /\ row.answered >= s.checked THEN row.version ELSE s.manifest
  <2>1. CASE row.answered = 0
    BY <1>3, <2>1
  <2>2. CASE row.answered # 0
    <3>1. /\ next \in CacheRecord /\ next.told = s.told
          /\ next.checked = IF row.answered < s.checked THEN s.checked ELSE row.answered
          /\ next.manifest = IF row.answered < s.checked THEN s.manifest ELSE row.version
      <4> DEFINE known == Checked(s, row.version, row.answered)
      <4>1. next = known
        BY <2>2
      <4> HIDE DEF row, s, next
      <4>2. /\ known \in CacheRecord /\ known.told = s.told
            /\ known.checked = IF row.answered < s.checked THEN s.checked ELSE row.answered
            /\ known.manifest = IF row.answered < s.checked THEN s.manifest ELSE row.version
        <5> DEFINE version == row.version
                   time == row.answered
        <5>1. s \in CacheRecord /\ version \in Release \cup {0} /\ time \in Nat
          BY <1>3, <1>4
        <5> HIDE DEF version, time
        <5>2. /\ Checked(s, version, time) \in CacheRecord /\ Checked(s, version, time).told = s.told
              /\ Checked(s, version, time).checked = IF time < s.checked THEN s.checked ELSE time
              /\ Checked(s, version, time).manifest = IF time < s.checked THEN s.manifest ELSE version
          BY <5>1, CheckedTyped
        <5> QED
          BY <5>2 DEF version, time
      <4> QED
        BY <4>1, <4>2
    <3> QED
      BY <1>4, <2>2, <3>1
  <2> QED
    BY <2>1, <2>2
<1> HIDE DEF row, next, s
<1>6. r \in ProcessRecord /\ r.at = "save" /\ r.next = next /\ r.answered = row.answered /\ r.version = row.version
  BY <1>3, <1>5, FreePlaces DEF ProcessRecord
<1> HIDE DEF r
<1>7. backs = 0 => Rests(u, r)
  <2> SUFFICES ASSUME backs = 0  PROVE Rests(u, r)
    OBVIOUS
  <2>1. s = cache
    BY <1>3
  <2>2. KeepsLatest(r) /\ r.next.told = cache.told
    BY <1>5, <1>6, <2>1 DEF KeepsLatest, Newer
  <2> QED
    BY <1>6, <2>2 DEF Rests
<1>8. eager' \in BOOLEAN /\ (backs = 0 => ~eager')
  BY <1>1, <1>2, StepFacts DEF HistoryStays
<1>9. UNCHANGED <<clock, published, backs, cache, shown, early, latest>>
  BY <1>2 DEF WorldStays, HistoryStays
<1>10. row.at \in Locked
  BY <1>2 DEF Locked
<1> QED
  BY <1>1, <1>2, <1>6, <1>7, <1>8, <1>9, <1>10, TurnKeeps DEF row

LEMMA GivesUpKeeps == ASSUME NoticesIInv, NEW p \in Process, GivesUp(p) PROVE NoticesIInv'
<1> DEFINE place == IF p \in Host THEN "closed" ELSE "idle"
           r == [NewProcess EXCEPT !.at = place]
<1>1. Goes(p, r) /\ UNCHANGED cache /\ WorldStays /\ HistoryStays
  BY DEF GivesUp
<1>2. place \in Free \ Locked /\ place \in Place
  BY FreePlaces
<1> HIDE DEF place
<1>3. r \in ProcessRecord /\ r.at = place /\ r.left = 0
  BY <1>2, FreshAt
<1> HIDE DEF r
<1>4. r.left <= Fresh
  BY <1>3, PeriodsAreNumbers
<1> QED
  BY <1>1, <1>2, <1>3, <1>4, RenewKeeps

LEMMA TimePassesKeeps == ASSUME NoticesIInv, TimePasses PROVE NoticesIInv'
<1> DEFINE Later(r) == [r EXCEPT !.left = IF @ > 0 THEN @ - 1 ELSE 0]
<1>1. clock \in Nat /\ clock' = clock + 1 /\ clock' \in 1..MaxTime
  BY NoticesAssumption DEF NoticesIInv, NoticesTyped, TimePasses
<1>2. UNCHANGED <<published, backs, cache, shown, early, eager, latest>>
  BY DEF TimePasses, HistoryStays
<1>3. ASSUME NEW r \in ProcessRecord
      PROVE  /\ Later(r) \in ProcessRecord /\ Later(r).at = r.at /\ Later(r).left <= r.left
             /\ Later(r).seen = r.seen /\ Later(r).answered = r.answered /\ Later(r).next = r.next
             /\ Later(r).version = r.version /\ Later(r).began = r.began
  <2> DEFINE left == IF r.left > 0 THEN r.left - 1 ELSE 0
  <2>1. r.left \in Nat
    BY RowFields
  <2>2. left \in Nat /\ left <= r.left
    BY <2>1
  <2>3. Later(r) = [r EXCEPT !.left = left]
    BY DEF ProcessRecord
  <2> HIDE DEF left, Later
  <2>4. [r EXCEPT !.left = left] \in ProcessRecord
    BY <2>2 DEF ProcessRecord
  <2> QED
    BY <2>2, <2>3, <2>4 DEF ProcessRecord
<1>4. proc' = [p \in Process |-> Later(proc[p])]
  BY DEF TimePasses
<1> HIDE DEF Later
<1>5. \A p \in Process : proc[p] \in ProcessRecord /\ proc'[p] = Later(proc[p])
  BY <1>4 DEF NoticesIInv, NoticesTyped
<1>6. \A p \in Process :
        /\ proc'[p] \in ProcessRecord /\ proc'[p].at = proc[p].at /\ proc'[p].left <= proc[p].left
        /\ proc'[p].seen = proc[p].seen /\ proc'[p].answered = proc[p].answered /\ proc'[p].next = proc[p].next
        /\ proc'[p].version = proc[p].version /\ proc'[p].began = proc[p].began
  BY <1>3, <1>5
<1>7. proc' \in [Process -> ProcessRecord]
  BY <1>4, <1>5, <1>6
<1>8. NoticesTyped'
  BY <1>1, <1>2, <1>7 DEF NoticesIInv, NoticesTyped
<1>9. OneHolder'
  BY <1>6 DEF NoticesIInv, OneHolder
<1>10. ServersWake'
  <2> SUFFICES ASSUME NEW h \in Host  PROVE proc'[h].left <= Fresh
    BY DEF ServersWake
  <2>1. h \in Process /\ proc[h].left <= Fresh
    BY Kinds DEF NoticesIInv, ServersWake
  <2>2. proc'[h].left \in Nat /\ proc[h].left \in Nat /\ proc'[h].left <= proc[h].left
    BY <1>5, <1>6, <2>1, RowFields
  <2> QED
    BY <2>1, <2>2, PeriodsAreNumbers
<1>11. ASSUME backs' = 0  PROVE OnRecord'
  <2>1. OnRecord
    BY <1>2, <1>11 DEF NoticesIInv
  <2>2. ValidAt(cache, clock)'
    <3>1. cache.checked \in Nat /\ cache.next \in Nat /\ \A c \in Channel : cache.told[c].at \in Nat
      BY CacheFields DEF NoticesIInv, NoticesTyped
    <3>2. ValidAt(cache, clock)
      BY <2>1 DEF OnRecord
    <3> QED
      BY <1>1, <1>2, <3>1, <3>2, PeriodsAreNumbers DEF ValidAt
  <2>3. \A p \in Process : Rests(p, proc[p])'
    <3> TAKE p \in Process
    <3>1. Rests(p, proc[p])
      BY <2>1 DEF OnRecord
    <3>2. (KeepsLatest(proc[p]) <=> KeepsLatest(proc[p])') /\ (ClaimsOnce(p, proc[p]) <=> ClaimsOnce(p, proc[p])')
      BY <1>2, <1>6 DEF KeepsLatest, ClaimsOnce, Newer
    <3> QED
      BY <1>2, <1>6, <3>1, <3>2 DEF Rests
  <2> QED
    BY <1>2, <2>1, <2>2, <2>3 DEF OnRecord
<1> QED
  BY <1>8, <1>9, <1>10, <1>11 DEF NoticesIInv

LEMMA WorldKeeps == ASSUME NoticesIInv, ClockIsSetBack \/ Released PROVE NoticesIInv'
<1>1. CASE ClockIsSetBack
  <2>1. UNCHANGED <<published, cache, proc, shown, early, eager, latest>> /\ backs' = backs + 1
        /\ clock' \in 1..(clock - 1)
    BY <1>1 DEF ClockIsSetBack, HistoryStays
  <2>2. backs \in Nat /\ clock \in 1..MaxTime
    BY DEF NoticesIInv, NoticesTyped
  <2>3. backs' # 0 /\ backs' \in Nat /\ clock' \in 1..MaxTime
    BY <2>1, <2>2, NoticesAssumption
  <2>4. NoticesTyped'
    BY <2>1, <2>3 DEF NoticesIInv, NoticesTyped
  <2> QED
    BY <2>1, <2>3, <2>4 DEF NoticesIInv, OneHolder, ServersWake
<1>2. CASE Released
  <2>1. UNCHANGED <<clock, backs, cache, proc, shown, early, eager, latest>> /\ published' \in Release
    BY <1>2 DEF Released, HistoryStays
  <2>2. NoticesTyped'
    BY <2>1 DEF NoticesIInv, NoticesTyped
  <2>3. OnRecord => OnRecord'
    BY <2>1 DEF OnRecord, ValidAt, Rests, KeepsLatest, ClaimsOnce, Newer
  <2> QED
    BY <2>1, <2>2, <2>3 DEF NoticesIInv, OneHolder, ServersWake
<1> QED
  BY <1>1, <1>2

LEMMA NoticesIInvInit == NoticesInit => NoticesIInv
<1> SUFFICES ASSUME NoticesInit  PROVE NoticesIInv
  OBVIOUS
<1>1. NoticesTyped
  <2>1. shown \in [Channel -> ToldRecord]
    BY EmptyTyped DEF NoticesInit
  <2>2. proc \in [Process -> ProcessRecord]
    BY NewProcessTyped DEF NoticesInit
  <2>3. clock \in 1..MaxTime
    BY NoticesAssumption DEF NoticesInit
  <2> QED
    BY <2>1, <2>2, <2>3, EmptyTyped DEF NoticesTyped, NoticesInit
<1>2. \A p \in Process : proc[p] = NewProcess
  BY DEF NoticesInit
<1>3. OneHolder
  BY <1>2, FreshIdle, FreePlaces DEF OneHolder
<1>4. ServersWake
  BY <1>2, FreshIdle, PeriodsAreNumbers, Kinds DEF ServersWake
<1>5. ValidAt(cache, clock)
  BY PeriodsAreNumbers DEF NoticesInit, ValidAt, EmptyCache, Nothing
<1>6. \A p \in Process : Rests(p, proc[p])
  <2>1. \A p \in Process : proc[p].at \in Free
    BY <1>2, FreshIdle, FreePlaces
  <2> QED
    BY <2>1, FreeRests
<1>7. ~early /\ ~eager /\ cache.checked = latest.at /\ cache.manifest = latest.version /\ cache.told = shown
  BY DEF NoticesInit, EmptyCache, Nothing
<1>8. \A c \in Channel : shown[c].version = 0
  BY DEF NoticesInit, Nothing
<1> QED
  BY <1>1, <1>3, <1>4, <1>5, <1>6, <1>7, <1>8 DEF NoticesIInv, OnRecord

LEMMA NoticesIInvNext == NoticesIInv /\ [NoticesNext]_noticeVars => NoticesIInv'
<1> SUFFICES ASSUME NoticesIInv, [NoticesNext]_noticeVars  PROVE NoticesIInv'
  OBVIOUS
<1>1. ASSUME NEW h \in Host, HostStep(h)  PROVE NoticesIInv'
  BY <1>1, InitializedKeeps, NotifyKeeps, ClaimKeeps, MarkKeepsNotices, EmitKeeps, ScheduleKeeps, WakeKeeps, AskKeeps,
     RecheckKeeps, FetchKeeps, RecordKeeps, RefailKeeps, RereadKeeps DEF HostStep
<1>2. ASSUME NEW c \in Command, CommandStep(c)  PROVE NoticesIInv'
  <2>1. CASE CommandSaves(c)
    <3>1. c \in Command \cup Updater /\ proc[c].at \in {"cli save", "save"}
      BY <2>1 DEF CommandSaves, InTime, In
    <3> QED
      BY <2>1, <3>1, SavesKeeps DEF CommandSaves
  <2> QED
    BY <1>2, <2>1, CommandChecksKeeps, CommandLocksKeeps, CommandReadsKeeps, CommandFetchesKeeps, CommandTellsKeeps,
       CommandMarksKeeps, CommandPrintsKeeps DEF CommandStep
<1>3. ASSUME NEW u \in Updater, UpdaterStep(u)  PROVE NoticesIInv'
  <2>1. CASE UpdateSaves(u)
    <3>1. u \in Command \cup Updater /\ proc[u].at \in {"cli save", "save"}
      BY <2>1 DEF UpdateSaves, In
    <3> QED
      BY <2>1, <3>1, SavesKeeps DEF UpdateSaves
  <2> QED
    BY <1>3, <2>1, UpdateFetchesKeeps, UpdateLocksKeeps, UpdateKeepsKeeps DEF UpdaterStep
<1>4. CASE UNCHANGED noticeVars
  <2>1. UNCHANGED <<clock, published, backs, cache, proc, shown, early, eager, latest>>
    BY <1>4 DEF noticeVars
  <2>2. NoticesTyped'
    BY <2>1 DEF NoticesIInv, NoticesTyped
  <2>3. OnRecord => OnRecord'
    BY <2>1 DEF OnRecord, ValidAt, Rests, KeepsLatest, ClaimsOnce, Newer
  <2> QED
    BY <2>1, <2>2, <2>3 DEF NoticesIInv, OneHolder, ServersWake
<1> QED
  BY <1>1, <1>2, <1>3, <1>4, GivesUpKeeps, TimePassesKeeps, WorldKeeps DEF NoticesNext

LEMMA NoticesIInvImplies == NoticesIInv => NoticesInv
<1> SUFFICES ASSUME NoticesIInv  PROVE NoticesInv
  OBVIOUS
<1>1. NoticesTypeOK
  <2>1. \A p \in Process : proc[p].left \in Nat
    BY NoticeFacts, RowFields DEF NoticesIInv
  <2>2. cache.manifest \in Release \cup {0} /\ cache.failures \in Nat
    BY NoticeFacts, CacheFields DEF NoticesIInv
  <2> QED
    BY <2>1, <2>2 DEF NoticesIInv, NoticesTyped, NoticesTypeOK
<1> QED
  BY <1>1 DEF NoticesIInv, OnRecord, NoticesInv, NoticesAreThrottled, RequestsAreSpaced, LatestIsKept

(* However many servers, commands and updates share the state file: while  *)
(* the clock is not set back, no notice of a release is claimed again too  *)
(* soon, no request is made before the one on record lets it, and no late  *)
(* answer hides a later one; and whatever the clock does, no server sleeps *)
(* longer than a day (src/src/update/cache.js, src/src/mcp/server.js).     *)
THEOREM NoticesAreSafe == NoticesSpec => []NoticesInv
<1>1. NoticesSpec => []NoticesIInv
  BY NoticesIInvInit, NoticesIInvNext, PTL DEF NoticesSpec
<1> QED
  BY <1>1, NoticesIInvImplies, PTL

-----------------------------------------------------------------------------
(* The wizard and the env files.  What a text says of a key                *)

\* Any text of an env file, and anything it can say of a key.
Text == Seq(Line)
Reading == Value \cup {Absent}

\* A set of positions has a first and a last one.
LEMMA SomeFirst ==
  ASSUME NEW S, S \subseteq Nat, S # {}
  PROVE  \E n \in S : \A k \in S : n <= k
<1> DEFINE R == OpToRel(<, Nat)
<1>1. PICK n \in S : \A k \in S : <<k, n>> \notin R
  <2>1. IsWellFoundedOn(R, Nat)
    BY NatLessThanWellFounded
  <2> HIDE DEF R
  <2> QED
    BY <2>1, WFMin
<1>2. ASSUME NEW k \in S  PROVE n <= k
  <2>1. ~(k < n)
    BY <1>1 DEF OpToRel
  <2>2. k \in Nat /\ n \in Nat
    OBVIOUS
  <2> QED
    BY <2>1, <2>2
<1> QED
  BY <1>2

LEMMA SomeLast ==
  ASSUME NEW m \in Nat, NEW S, S \subseteq 1..m, S # {}
  PROVE  \E n \in S : \A k \in S : k <= n
<1> DEFINE T == {j \in 0..m : m - j \in S}
<1>1. T \subseteq Nat
  OBVIOUS
<1>2. T # {}
  <2>1. PICK k \in S : TRUE
    OBVIOUS
  <2>2. k \in 1..m
    OBVIOUS
  <2>3. m - k \in 0..m /\ m - (m - k) = k
    BY <2>2
  <2> QED
    BY <2>1, <2>3
<1>3. PICK j \in T : \A k \in T : j <= k
  BY <1>1, <1>2, SomeFirst
<1>4. ASSUME NEW k \in S  PROVE k <= m - j
  <2>1. k \in 1..m
    OBVIOUS
  <2>2. m - k \in 0..m /\ m - (m - k) = k
    BY <2>1
  <2>3. j <= m - k
    BY <1>3, <2>2
  <2> QED
    BY <2>1, <2>3, <1>3
<1> QED
  BY <1>3, <1>4

LEMMA Positions ==
  ASSUME NEW lines \in Text, NEW key
  PROVE  /\ Len(lines) \in Nat /\ DOMAIN lines = 1..Len(lines) /\ At(lines, key) \subseteq 1..Len(lines)
         /\ \A n \in 1..Len(lines) : lines[n] \in Line /\ lines[n].key \in Key /\ lines[n].value \in Value
         /\ \A n \in 1..Len(lines) : n \in At(lines, key) <=> lines[n].key = key
<1>1. Len(lines) \in Nat /\ DOMAIN lines = 1..Len(lines) /\ \A n \in 1..Len(lines) : lines[n] \in Line
  BY DEF Text
<1>2. \A n \in 1..Len(lines) : lines[n].key \in Key /\ lines[n].value \in Value
  BY <1>1 DEF Line
<1>3. At(lines, key) = {n \in 1..Len(lines) : lines[n].key = key}
  BY <1>1 DEF At
<1> QED
  BY <1>1, <1>2, <1>3

LEMMA LastStands ==
  ASSUME NEW lines \in Text, NEW key, Has(lines, key)
  PROVE  Greatest(At(lines, key)) \in At(lines, key) /\ \A k \in At(lines, key) : k <= Greatest(At(lines, key))
<1>1. \E n \in At(lines, key) : \A k \in At(lines, key) : k <= n
  BY Positions, SomeLast DEF Has
<1> QED
  BY <1>1 DEF Greatest

LEMMA FirstThere ==
  ASSUME NEW lines \in Text, NEW key, Has(lines, key)
  PROVE  Least(At(lines, key)) \in At(lines, key) /\ \A k \in At(lines, key) : Least(At(lines, key)) <= k
<1>1. At(lines, key) \subseteq Nat
  BY Positions
<1>2. \E n \in At(lines, key) : \A k \in At(lines, key) : n <= k
  BY <1>1, SomeFirst DEF Has
<1> QED
  BY <1>2 DEF Least

\* What a text says of a key is what its last assignment to it says.
LEMMA SaysLast ==
  ASSUME NEW lines \in Text, NEW key, NEW m \in 1..Len(lines), lines[m].key = key,
         \A n \in 1..Len(lines) : lines[n].key = key => n <= m
  PROVE  Has(lines, key) /\ Says(lines, key) = lines[m].value /\ Greatest(At(lines, key)) = m
<1>1. m \in At(lines, key) /\ \A n \in At(lines, key) : n <= m
  BY Positions
<1>2. Has(lines, key)
  BY <1>1 DEF Has
<1>3. Greatest(At(lines, key)) = m
  <2> DEFINE g == Greatest(At(lines, key))
  <2>1. g \in At(lines, key) /\ m <= g
    BY <1>1, <1>2, LastStands
  <2>2. g <= m
    BY <1>1, <2>1
  <2>3. g \in 1..Len(lines) /\ Len(lines) \in Nat
    BY <2>1, Positions
  <2> HIDE DEF g
  <2>4. g \in Nat /\ m \in Nat
    BY <2>3
  <2>5. g = m
    BY <2>1, <2>2, <2>4
  <2> QED
    BY <2>5 DEF g
<1> QED
  BY <1>2, <1>3 DEF Says

LEMMA SaysSomething ==
  ASSUME NEW lines \in Text, NEW key
  PROVE  /\ Says(lines, key) \in Reading
         /\ Has(lines, key) <=> Says(lines, key) # Absent
         /\ Says(lines, key) # Absent =>
              \E m \in 1..Len(lines) : /\ lines[m].key = key /\ Says(lines, key) = lines[m].value
                                       /\ \A n \in 1..Len(lines) : lines[n].key = key => n <= m
<1>1. CASE ~Has(lines, key)
  BY <1>1 DEF Says, Reading
<1>2. CASE Has(lines, key)
  <2> DEFINE m == Greatest(At(lines, key))
  <2>1. m \in At(lines, key) /\ \A k \in At(lines, key) : k <= m
    BY <1>2, LastStands
  <2>2. Says(lines, key) = lines[m].value
    BY <1>2 DEF Says
  <2> HIDE DEF m
  <2>3. m \in 1..Len(lines) /\ lines[m].key = key /\ lines[m].value \in Value
    BY <2>1, Positions
  <2>4. \A n \in 1..Len(lines) : lines[n].key = key => n <= m
    BY <2>1, Positions
  <2>5. Says(lines, key) # Absent
    BY <2>2, <2>3, SetupAssumption
  <2> QED
    BY <1>2, <2>2, <2>3, <2>4, <2>5 DEF Reading
<1> QED
  BY <1>1, <1>2

\* Nothing is said of a key that no line assigns.
LEMMA SaysNothing ==
  ASSUME NEW lines \in Text, NEW key, \A n \in 1..Len(lines) : lines[n].key # key
  PROVE  Says(lines, key) = Absent
  BY Positions DEF Says, Has

\* Two texts whose assignments to a key agree line by line say the same of it.
LEMMA SaysTheSame ==
  ASSUME NEW a \in Text, NEW b \in Text, NEW key, Len(a) = Len(b),
         \A n \in 1..Len(a) : a[n].key = b[n].key /\ (a[n].key = key => a[n].value = b[n].value)
  PROVE  Says(a, key) = Says(b, key)
<1>1. CASE Says(a, key) = Absent
  <2>1. \A n \in 1..Len(a) : a[n].key # key
    BY <1>1, SaysSomething, Positions DEF Has
  <2>2. \A n \in 1..Len(b) : b[n].key # key
    BY <2>1
  <2> QED
    BY <1>1, <2>2, SaysNothing
<1>2. CASE Says(a, key) # Absent
  <2>1. PICK m \in 1..Len(a) : /\ a[m].key = key /\ Says(a, key) = a[m].value
                               /\ \A n \in 1..Len(a) : a[n].key = key => n <= m
    BY <1>2, SaysSomething
  <2>2. Says(b, key) = b[m].value
    BY <2>1, SaysLast
  <2> QED
    BY <2>1, <2>2
<1> QED
  BY <1>1, <1>2

LEMMA SaysAppended ==
  ASSUME NEW lines \in Text, NEW l \in Line
  PROVE  /\ Append(lines, l) \in Text
         /\ \A key : Says(Append(lines, l), key) = IF key = l.key THEN l.value ELSE Says(lines, key)
<1> DEFINE new == Append(lines, l)
<1>1. new \in Text /\ Len(lines) \in Nat /\ Len(new) = Len(lines) + 1 /\ new[Len(lines) + 1] = l
      /\ \A n \in 1..Len(lines) : new[n] = lines[n]
  BY DEF Text
<1> HIDE DEF new
<1>2. ASSUME NEW key  PROVE Says(new, key) = IF key = l.key THEN l.value ELSE Says(lines, key)
  <2>1. CASE key = l.key
    <3>1. Len(lines) + 1 \in 1..Len(new) /\ \A n \in 1..Len(new) : n <= Len(lines) + 1
      BY <1>1
    <3> QED
      BY <1>1, <2>1, <3>1, SaysLast
  <2>2. CASE key # l.key /\ Says(lines, key) = Absent
    <3>1. \A n \in 1..Len(lines) : lines[n].key # key
      BY <2>2, SaysSomething, Positions DEF Has
    <3>2. \A n \in 1..Len(new) : new[n].key # key
      <4> TAKE n \in 1..Len(new)
      <4>1. CASE n = Len(lines) + 1
        BY <1>1, <2>2, <4>1
      <4>2. CASE n # Len(lines) + 1
        <5>1. n \in 1..Len(lines)
          BY <1>1, <4>2
        <5> QED
          BY <1>1, <3>1, <5>1
      <4> QED
        BY <4>1, <4>2
    <3> QED
      BY <1>1, <2>2, <3>2, SaysNothing
  <2>3. CASE key # l.key /\ Says(lines, key) # Absent
    <3>1. PICK m \in 1..Len(lines) : /\ lines[m].key = key /\ Says(lines, key) = lines[m].value
                                     /\ \A n \in 1..Len(lines) : lines[n].key = key => n <= m
      BY <2>3, SaysSomething
    <3>2. m \in 1..Len(new) /\ new[m] = lines[m]
      BY <1>1
    <3>3. \A n \in 1..Len(new) : new[n].key = key => n <= m
      <4> SUFFICES ASSUME NEW n \in 1..Len(new), new[n].key = key PROVE n <= m
        OBVIOUS
      <4>1. n # Len(lines) + 1
        BY <1>1, <2>3
      <4>2. n \in 1..Len(lines)
        BY <1>1, <4>1
      <4> QED
        BY <1>1, <3>1, <4>2
    <3>4. Says(new, key) = new[m].value
      BY <1>1, <3>1, <3>2, <3>3, SaysLast
    <3> QED
      BY <2>3, <3>1, <3>2, <3>4
  <2> QED
    BY <2>1, <2>2, <2>3
<1> QED
  BY <1>1, <1>2 DEF new

\* Where one assignment gets another value, what is said of its key is that value or what it was.
LEMMA SaysChanged ==
  ASSUME NEW a \in Text, NEW b \in Text, Len(a) = Len(b), NEW own, NEW n \in 1..Len(a), a[n].key = own,
         \A k \in 1..Len(a) : a[k].key = b[k].key /\ (k # n => a[k].value = b[k].value)
  PROVE  /\ \A key : key # own => Says(b, key) = Says(a, key)
         /\ Says(b, own) \in {b[n].value, Says(a, own)}
         /\ n = Greatest(At(a, own)) => Says(b, own) = b[n].value
<1>1. ASSUME NEW key, key # own  PROVE Says(b, key) = Says(a, key)
  <2>1. \A k \in 1..Len(a) : a[k].key = b[k].key /\ (a[k].key = key => a[k].value = b[k].value)
    BY <1>1
  <2> QED
    BY <2>1, SaysTheSame
<1>2. Says(a, own) # Absent
  <2>1. n \in At(a, own)
    BY Positions
  <2> QED
    BY <2>1, SaysSomething DEF Has
<1>3. PICK m \in 1..Len(a) : /\ a[m].key = own /\ Says(a, own) = a[m].value
                             /\ \A k \in 1..Len(a) : a[k].key = own => k <= m
  BY <1>2, SaysSomething
<1>4. Says(b, own) = b[m].value
  <2>1. m \in 1..Len(b) /\ b[m].key = own
    BY <1>3
  <2>2. \A k \in 1..Len(b) : b[k].key = own => k <= m
    BY <1>3
  <2> QED
    BY <2>1, <2>2, SaysLast
<1>5. Greatest(At(a, own)) = m
  BY <1>3, SaysLast
<1>6. Says(b, own) \in {b[n].value, Says(a, own)}
  BY <1>3, <1>4
<1> QED
  BY <1>1, <1>4, <1>5, <1>6

LEMMA SaysReplaced ==
  ASSUME NEW lines \in Text, NEW n \in 1..Len(lines), NEW v \in Value, NEW own, own = lines[n].key
  PROVE  LET new == ReplaceAt(lines, n, Assignment(own, v)) IN
         /\ new \in Text
         /\ \A key : key # own => Says(new, key) = Says(lines, key)
         /\ Says(new, own) \in {v, Says(lines, own)}
         /\ n = Greatest(At(lines, own)) => Says(new, own) = v
<1> DEFINE new == ReplaceAt(lines, n, Assignment(own, v))
<1>1. DOMAIN lines = 1..Len(lines) /\ Len(lines) \in Nat /\ lines \in [1..Len(lines) -> Line] /\ own \in Key
  BY Positions DEF Text
<1>2. Assignment(own, v) \in Line /\ Assignment(own, v).key = own /\ Assignment(own, v).value = v
  BY <1>1 DEF Line, Assignment
<1>3. new \in Text /\ Len(new) = Len(lines)
  BY <1>1, <1>2 DEF Text, ReplaceAt
<1>4. \A k \in 1..Len(lines) : new[k] = IF k = n THEN Assignment(own, v) ELSE lines[k]
  BY <1>1 DEF ReplaceAt
<1> HIDE DEF new
<1>5. \A k \in 1..Len(lines) : lines[k].key = new[k].key /\ (k # n => lines[k].value = new[k].value)
  BY <1>2, <1>4
<1>6. new[n].value = v /\ lines[n].key = own
  BY <1>2, <1>4
<1> QED
  BY <1>3, <1>5, <1>6, SaysChanged DEF new

\* A concatenation says what its end says, and of the rest what its beginning says.
LEMMA SaysJoined ==
  ASSUME NEW a \in Text, NEW b \in Text, NEW key
  PROVE  /\ a \o b \in Text
         /\ Says(a \o b, key) = IF Says(b, key) # Absent THEN Says(b, key) ELSE Says(a, key)
<1> DEFINE c == a \o b
<1>1. c \in Text /\ Len(a) \in Nat /\ Len(b) \in Nat /\ Len(c) = Len(a) + Len(b)
      /\ (\A n \in 1..Len(a) : c[n] = a[n]) /\ (\A n \in 1..Len(b) : c[Len(a) + n] = b[n])
  BY DEF Text
<1> HIDE DEF c
<1>2. ASSUME NEW n \in 1..Len(c)  PROVE  n \in 1..Len(a) \/ (n - Len(a) \in 1..Len(b) /\ c[n] = b[n - Len(a)])
  <2>1. CASE n <= Len(a)
    <3>1. n \in 1..Len(a)
      BY <1>1, <2>1
    <3> QED
      BY <3>1
  <2>2. CASE ~(n <= Len(a))
    <3>1. n - Len(a) \in 1..Len(b) /\ Len(a) + (n - Len(a)) = n
      BY <1>1, <2>2
    <3>2. c[Len(a) + (n - Len(a))] = b[n - Len(a)]
      BY <1>1, <3>1
    <3> QED
      BY <3>1, <3>2
  <2> QED
    BY <2>1, <2>2
<1>3. CASE Says(b, key) # Absent
  <2>1. PICK m \in 1..Len(b) : /\ b[m].key = key /\ Says(b, key) = b[m].value
                               /\ \A n \in 1..Len(b) : b[n].key = key => n <= m
    BY <1>3, SaysSomething
  <2>2. Len(a) + m \in 1..Len(c) /\ c[Len(a) + m] = b[m]
    BY <1>1
  <2>3. ASSUME NEW n \in 1..Len(c), c[n].key = key  PROVE n <= Len(a) + m
    <3>1. CASE n \in 1..Len(a)
      BY <1>1, <3>1
    <3>2. CASE n - Len(a) \in 1..Len(b) /\ c[n] = b[n - Len(a)]
      <4>1. n - Len(a) <= m
        BY <2>1, <2>3, <3>2
      <4> QED
        BY <1>1, <4>1
    <3> QED
      BY <1>2, <3>1, <3>2
  <2>4. Says(c, key) = c[Len(a) + m].value
    BY <1>1, <2>1, <2>2, <2>3, SaysLast
  <2> QED
    BY <1>1, <1>3, <2>1, <2>2, <2>4 DEF c
<1>4. CASE Says(b, key) = Absent /\ Says(a, key) # Absent
  <2>1. PICK m \in 1..Len(a) : /\ a[m].key = key /\ Says(a, key) = a[m].value
                               /\ \A n \in 1..Len(a) : a[n].key = key => n <= m
    BY <1>4, SaysSomething
  <2>2. \A n \in 1..Len(b) : b[n].key # key
    BY <1>4, SaysSomething, Positions DEF Has
  <2>3. m \in 1..Len(c) /\ c[m] = a[m]
    BY <1>1
  <2>4. ASSUME NEW n \in 1..Len(c), c[n].key = key  PROVE n <= m
    <3>1. n \in 1..Len(a)
      BY <1>2, <2>2, <2>4
    <3> QED
      BY <1>1, <2>1, <2>4, <3>1
  <2>5. Says(c, key) = c[m].value
    BY <1>1, <2>1, <2>3, <2>4, SaysLast
  <2> QED
    BY <1>1, <1>4, <2>1, <2>3, <2>5 DEF c
<1>5. CASE Says(b, key) = Absent /\ Says(a, key) = Absent
  <2>1. (\A n \in 1..Len(b) : b[n].key # key) /\ \A n \in 1..Len(a) : a[n].key # key
    BY <1>5, SaysSomething, Positions DEF Has
  <2>2. \A n \in 1..Len(c) : c[n].key # key
    BY <1>1, <1>2, <2>1
  <2> QED
    BY <1>1, <1>5, <2>2, SaysNothing DEF c
<1> QED
  BY <1>3, <1>4, <1>5

\* setVar and unsetVar change nothing of what is said of the other keys.
LEMMA AssignedSpares ==
  ASSUME NEW lines \in Text, NEW key \in Key, NEW v \in Value \cup {Erase}
  PROVE  /\ Assigned(lines, key, v) \in Text
         /\ \A j \in Key \ {key} : Says(Assigned(lines, key, v), j) = Says(lines, j)
<1>1. CASE ~Has(lines, key) /\ v = Erase
  BY <1>1 DEF Assigned
<1>2. CASE ~Has(lines, key) /\ v # Erase
  <2>1. Assignment(key, v) \in Line /\ Assignment(key, v).key = key
    BY <1>2 DEF Line, Assignment
  <2>2. Assigned(lines, key, v) = Append(lines, Assignment(key, v))
    BY <1>2 DEF Assigned
  <2> QED
    BY <2>1, <2>2, SaysAppended
<1>3. CASE Has(lines, key)
  <2> DEFINE n == Least(At(lines, key))
  <2>1. n \in At(lines, key)
    BY <1>3, FirstThere
  <2>2. Assigned(lines, key, v) = IF v = Erase THEN RemoveAt(lines, n) ELSE ReplaceAt(lines, n, Assignment(key, v))
    BY <1>3 DEF Assigned
  <2> HIDE DEF n
  <2>3. n \in 1..Len(lines) /\ lines[n].key = key /\ Len(lines) \in Nat /\ lines[n] \in Line
    BY <2>1, Positions
  <2>4. CASE v # Erase
    <3> DEFINE new == ReplaceAt(lines, n, Assignment(key, v))
    <3>1. new = ReplaceAt(lines, n, Assignment(key, v)) /\ v \in Value
      BY <2>4
    <3>2. Assigned(lines, key, v) = new
      BY <2>2, <2>4
    <3> HIDE DEF new
    <3>3. new \in Text /\ \A j : j # key => Says(new, j) = Says(lines, j)
      BY <2>3, <3>1, SaysReplaced
    <3> QED
      BY <3>2, <3>3
  <2>5. CASE v = Erase
    <3> DEFINE a == SubSeq(lines, 1, n - 1)
               b == SubSeq(lines, n + 1, Len(lines))
    <3>1. a \in Text /\ b \in Text
      BY <2>3 DEF Text
    <3>2. Assigned(lines, key, v) = a \o b
      BY <2>2, <2>5 DEF RemoveAt
    <3> DEFINE c == Append(a, lines[n])
    <3>3. c \in Text /\ Len(c) = n /\ \A i \in 1..n : c[i] = lines[i]
      BY <2>3, <3>1 DEF Text
    <3>6. Len(b) = Len(lines) - n /\ \A i \in 1..Len(lines) - n : b[i] = lines[n + i]
      BY <2>3 DEF Text
    <3>7. lines = Append(a, lines[n]) \o b
      <4> HIDE DEF a, b, c
      <4>1. c \o b \in Seq(Line) /\ lines \in Seq(Line)
        BY <3>1, <3>3 DEF Text
      <4>4. Len(c \o b) = Len(lines)
        <5>1. Len(c \o b) = Len(c) + Len(b)
          <6>1. c \in Seq(Line) /\ b \in Seq(Line)
            BY <3>1, <3>3 DEF Text
          <6> QED
            BY <6>1, ConcatProperties
        <5> QED
          BY <2>3, <3>3, <3>6, <5>1
      <4>2. ASSUME NEW i \in 1..Len(lines)  PROVE (c \o b)[i] = lines[i]
        <5>1. CASE i <= n
          BY <2>3, <3>1, <3>3, <3>6, <5>1 DEF Text
        <5>2. CASE ~(i <= n)
          <6>1. i - n \in 1..Len(lines) - n /\ n + (i - n) = i
            BY <2>3, <5>2
          <6>2. (c \o b)[i] = b[i - n]
            BY <2>3, <3>1, <3>3, <3>6, <5>2 DEF Text
          <6>3. b[i - n] = lines[n + (i - n)]
            BY <3>6, <6>1
          <6> QED
            BY <6>1, <6>2, <6>3
        <5> QED
          BY <5>1, <5>2
      <4>3. c \o b = lines
        BY <4>1, <4>2, <4>4, SeqEqual
      <4> QED
        BY <4>3 DEF c
    <3> HIDE DEF a, b
    <3>4. Append(a, lines[n]) \in Text /\ \A j \in Key \ {key} : Says(Append(a, lines[n]), j) = Says(a, j)
      BY <2>3, <3>1, SaysAppended
    <3>5. ASSUME NEW j \in Key \ {key}  PROVE Says(a \o b, j) = Says(lines, j)
      <4>1. Says(a \o b, j) = IF Says(b, j) # Absent THEN Says(b, j) ELSE Says(a, j)
        BY <3>1, SaysJoined
      <4>2. Says(c \o b, j) = IF Says(b, j) # Absent THEN Says(b, j) ELSE Says(c, j)
        BY <3>1, <3>3, SaysJoined
      <4> QED
        BY <3>4, <3>7, <4>1, <4>2
    <3> QED
      BY <3>1, <3>2, <3>5, SaysJoined
  <2> QED
    BY <2>4, <2>5
<1> QED
  BY <1>1, <1>2, <1>3

\* setVar: what is said of its key is its value, or still what the last line says.
LEMMA AssignedSays ==
  ASSUME NEW lines \in Text, NEW key \in Key, NEW v \in Value
  PROVE  /\ Says(lines, key) = Absent => Says(Assigned(lines, key, v), key) = v
         /\ Says(lines, key) # Absent => Says(Assigned(lines, key, v), key) \in {v, Says(lines, key)}
<1>0. v # Erase
  BY SetupAssumption
<1>1. CASE ~Has(lines, key)
  <2>1. Assignment(key, v) \in Line /\ Assignment(key, v).key = key /\ Assignment(key, v).value = v
    BY DEF Line, Assignment
  <2>2. Assigned(lines, key, v) = Append(lines, Assignment(key, v))
    BY <1>0, <1>1 DEF Assigned
  <2> QED
    BY <1>1, <2>1, <2>2, SaysAppended, SaysSomething
<1>2. CASE Has(lines, key)
  <2> DEFINE n == Least(At(lines, key))
  <2>1. n \in At(lines, key)
    BY <1>2, FirstThere
  <2>2. Assigned(lines, key, v) = ReplaceAt(lines, n, Assignment(key, v))
    BY <1>0, <1>2 DEF Assigned
  <2> HIDE DEF n
  <2>3. n \in 1..Len(lines) /\ lines[n].key = key
    BY <2>1, Positions
  <2> QED
    BY <1>2, <2>2, <2>3, SaysReplaced, SaysSomething
<1> QED
  BY <1>1, <1>2

-----------------------------------------------------------------------------
(* A patched text says what it was told                                    *)

Keeps(lines, key, f, m) ==
  f = [n \in 0..m |-> IF n = 0 THEN <<>> ELSE IF lines[n].key = key THEN f[n - 1] ELSE Append(f[n - 1], lines[n])]

\* The recursion of Without is of a function that exists.
LEMMA SomeKept ==
  ASSUME NEW lines, NEW key, NEW m \in Nat
  PROVE  \E f : Keeps(lines, key, f, m)
<1> DEFINE Bad == {k \in 0..m : ~\E f : Keeps(lines, key, f, k)}
<1>1. SUFFICES ASSUME Bad # {}  PROVE FALSE
  <2>1. m \in 0..m
    OBVIOUS
  <2> QED
    BY <1>1, <2>1
<1>2. PICK k \in Bad : \A j \in Bad : k <= j
  <2>1. Bad \subseteq Nat
    OBVIOUS
  <2> HIDE DEF Bad
  <2> QED
    BY <1>1, <2>1, SomeFirst
<1>3. k \in 0..m /\ ~\E f : Keeps(lines, key, f, k)
  BY <1>2
<1>4. CASE k = 0
  <2> DEFINE f == [n \in 0..0 |-> <<>>]
  <2>1. f = [n \in 0..0 |-> IF n = 0 THEN <<>> ELSE IF lines[n].key = key THEN f[n - 1] ELSE Append(f[n - 1], lines[n])]
    <3>1. \A n \in 0..0 : n = 0
      OBVIOUS
    <3> QED
      BY <3>1
  <2> QED
    BY <1>3, <1>4, <2>1 DEF Keeps
<1>5. CASE k # 0
  <2>1. k \in Nat /\ k - 1 \in 0..m /\ ~(k <= k - 1)
    BY <1>3, <1>5
  <2>2. k - 1 \notin Bad
    <3> HIDE DEF Bad
    <3> QED
      BY <1>2, <2>1
  <2>3. PICK g : Keeps(lines, key, g, k - 1)
    BY <2>1, <2>2
  <2> DEFINE last == IF lines[k].key = key THEN g[k - 1] ELSE Append(g[k - 1], lines[k])
             f == [n \in 0..k |-> IF n = k THEN last ELSE g[n]]
             step(n) == IF n = 0 THEN <<>> ELSE IF lines[n].key = key THEN f[n - 1] ELSE Append(f[n - 1], lines[n])
  <2>4. ASSUME NEW n \in 0..k  PROVE f[n] = step(n)
    <3>1. CASE n = k
      <4>1. k - 1 \in 0..k /\ k - 1 # k
        BY <2>1
      <4>2. f[k - 1] = g[k - 1] /\ f[k] = last
        BY <2>1, <4>1
      <4> HIDE DEF f
      <4> QED
        BY <1>5, <3>1, <4>2
    <3>2. CASE n = 0
      <4>1. 0 \in 0..k - 1 /\ n \in 0..k /\ n # k
        BY <1>5, <2>1, <3>2
      <4>2. g[0] = <<>>
        BY <2>3, <4>1 DEF Keeps
      <4> QED
        BY <3>2, <4>1, <4>2
    <3>3. CASE n # 0 /\ n # k
      <4>1. n \in 0..k - 1 /\ n - 1 \in 0..k /\ n - 1 # k
        BY <2>1, <3>3
      <4>2. f[n - 1] = g[n - 1] /\ f[n] = g[n]
        BY <3>3, <4>1
      <4>3. g[n] = IF lines[n].key = key THEN g[n - 1] ELSE Append(g[n - 1], lines[n])
        BY <2>3, <3>3, <4>1 DEF Keeps
      <4> HIDE DEF f
      <4> QED
        BY <3>3, <4>2, <4>3
    <3> QED
      BY <3>1, <3>2, <3>3
  <2>5. f = [n \in 0..k |-> step(n)]
    <3>1. f = [n \in 0..k |-> f[n]]
      OBVIOUS
    <3> HIDE DEF f
    <3> QED
      BY <2>4, <3>1
  <2> HIDE DEF f
  <2>6. Keeps(lines, key, f, k)
    BY <2>5 DEF Keeps
  <2> QED
    BY <1>3, <2>6
<1> QED
  BY <1>4, <1>5

LEMMA WithoutIsKept ==
  ASSUME NEW lines \in Text, NEW key
  PROVE  \E f : Keeps(lines, key, f, Len(lines)) /\ Without(lines, key) = f[Len(lines)]
<1>1. \E f : Keeps(lines, key, f, Len(lines))
  BY SomeKept, Positions
<1> QED
  BY <1>1 DEF Keeps, Without

\* What is removed is said no more, and nothing else is.
LEMMA SaysWithout ==
  ASSUME NEW lines \in Text, NEW key
  PROVE  /\ Without(lines, key) \in Text
         /\ Says(Without(lines, key), key) = Absent
         /\ \A j : j # key => Says(Without(lines, key), j) = Says(lines, j)
<1>1. PICK f : Keeps(lines, key, f, Len(lines)) /\ Without(lines, key) = f[Len(lines)]
  BY WithoutIsKept
<1>2. Len(lines) \in Nat /\ \A n \in 1..Len(lines) : lines[n] \in Line
  BY Positions
<1> DEFINE Good(n) == /\ f[n] \in Text
                      /\ Says(f[n], key) = Absent
                      /\ \A j : j # key => Says(f[n], j) = Says(SubSeq(lines, 1, n), j)
           Bad == {n \in 0..Len(lines) : ~Good(n)}
<1>3. f[0] = <<>> /\ \A n \in 1..Len(lines) : f[n] = IF lines[n].key = key THEN f[n - 1] ELSE Append(f[n - 1], lines[n])
  <2>1. 0 \in 0..Len(lines)
    BY <1>2
  <2>2. f[0] = <<>>
    BY <1>1, <2>1 DEF Keeps
  <2>3. ASSUME NEW n \in 1..Len(lines)
        PROVE  f[n] = IF lines[n].key = key THEN f[n - 1] ELSE Append(f[n - 1], lines[n])
    <3>1. n \in 0..Len(lines) /\ n # 0
      BY <1>2
    <3> QED
      BY <1>1, <3>1 DEF Keeps
  <2> QED
    BY <2>2, <2>3
<1>4. ASSUME NEW n \in 0..Len(lines)  PROVE SubSeq(lines, 1, n) \in Text
  BY <1>2 DEF Text
<1>5. Good(0)
  <2>1. <<>> \in Text /\ Len(<<>>) = 0
    BY DEF Text
  <2>2. \A j : Says(<<>>, j) = Absent
    BY <2>1, SaysNothing
  <2>3. SubSeq(lines, 1, 0) = <<>>
    BY <1>2 DEF Text
  <2> QED
    BY <1>3, <2>1, <2>2, <2>3
<1>6. ASSUME NEW n \in 1..Len(lines), Good(n - 1)  PROVE Good(n)
  <2>0. n \in Nat /\ n - 1 \in 0..Len(lines)
    BY <1>2
  <2> DEFINE before == SubSeq(lines, 1, n - 1)
             upto == SubSeq(lines, 1, n)
  <2>1. before \in Text /\ upto \in Text /\ lines[n] \in Line
    BY <1>2, <1>4, <2>0
  <2>2. upto = Append(before, lines[n])
    BY <1>2, <2>0 DEF Text
  <2> HIDE DEF before, upto
  <2>3. \A j : Says(upto, j) = IF j = lines[n].key THEN lines[n].value ELSE Says(before, j)
    BY <2>1, <2>2, SaysAppended
  <2>4. f[n - 1] \in Text /\ Says(f[n - 1], key) = Absent /\ \A j : j # key => Says(f[n - 1], j) = Says(before, j)
    BY <1>6 DEF before
  <2>5. CASE lines[n].key = key
    <3>1. f[n] = f[n - 1]
      BY <1>3, <2>5
    <3> QED
      BY <2>3, <2>4, <2>5, <3>1 DEF upto
  <2>6. CASE lines[n].key # key
    <3>1. f[n] = Append(f[n - 1], lines[n])
      BY <1>3, <2>6
    <3>2. f[n] \in Text /\ \A j : Says(f[n], j) = IF j = lines[n].key THEN lines[n].value ELSE Says(f[n - 1], j)
      BY <2>1, <2>4, <3>1, SaysAppended
    <3> QED
      BY <2>3, <2>4, <2>6, <3>2 DEF upto
  <2> QED
    BY <2>5, <2>6
<1>7. Bad = {}
  <2>1. SUFFICES ASSUME Bad # {}  PROVE FALSE
    OBVIOUS
  <2>2. PICK n \in Bad : \A j \in Bad : n <= j
    <3>1. Bad \subseteq Nat
      OBVIOUS
    <3> HIDE DEF Bad
    <3> QED
      BY <2>1, <3>1, SomeFirst
  <2>3. n \in 0..Len(lines) /\ ~Good(n)
    BY <2>2
  <2> HIDE DEF Good
  <2>4. n # 0
    BY <1>5, <2>3
  <2>5. n \in 1..Len(lines) /\ n - 1 \in 0..Len(lines) /\ ~(n <= n - 1)
    BY <1>2, <2>3, <2>4
  <2>6. n - 1 \notin Bad
    <3> HIDE DEF Bad
    <3> QED
      BY <2>2, <2>5
  <2>7. Good(n - 1)
    BY <2>5, <2>6
  <2> QED
    BY <1>6, <2>3, <2>5, <2>7
<1>8. Good(Len(lines))
  <2>1. Len(lines) \in 0..Len(lines)
    BY <1>2
  <2> HIDE DEF Good
  <2> QED
    BY <1>7, <2>1
<1>9. SubSeq(lines, 1, Len(lines)) = lines
  BY <1>2 DEF Text
<1> QED
  BY <1>1, <1>8, <1>9

Change == Value \cup {Keep, Erase}
Told(change, before) == IF change = Keep THEN before ELSE IF change = Erase THEN Absent ELSE change

\* planEnvPatch: each key says what it is told, and what it said where it is told nothing.
LEMMA PatchedKeySays ==
  ASSUME NEW lines \in Text, NEW key \in Key, NEW v \in Change
  PROVE  /\ PatchedKey(lines, key, v) \in Text
         /\ \A j : Says(PatchedKey(lines, key, v), j) = IF j = key THEN Told(v, Says(lines, j)) ELSE Says(lines, j)
<1>0. Keep # Erase /\ Keep \notin Value /\ Erase \notin Value
  BY SetupAssumption DEF Keep, Erase
<1>1. CASE v = Keep
  BY <1>1 DEF PatchedKey, Told
<1>2. CASE v = Erase
  <2>1. PatchedKey(lines, key, v) = Without(lines, key)
    BY <1>0, <1>2 DEF PatchedKey
  <2> QED
    BY <1>0, <1>2, <2>1, SaysWithout DEF Told
<1>3. CASE v \in Value /\ Has(lines, key)
  <2> DEFINE n == Greatest(At(lines, key))
             new == ReplaceAt(lines, n, Assignment(key, v))
  <2>1. n \in At(lines, key)
    BY <1>3, LastStands
  <2>2. PatchedKey(lines, key, v) = new
    BY <1>0, <1>3 DEF PatchedKey
  <2>3. n \in 1..Len(lines) /\ lines[n].key = key
    BY <2>1, Positions
  <2>4. n = Greatest(At(lines, key))
    OBVIOUS
  <2> HIDE DEF n
  <2>5. new \in Text /\ (\A j : j # key => Says(new, j) = Says(lines, j)) /\ Says(new, key) = v
    BY <1>3, <2>3, <2>4, SaysReplaced
  <2> HIDE DEF new
  <2> QED
    BY <1>0, <1>3, <2>2, <2>5 DEF Told
<1>4. CASE v \in Value /\ ~Has(lines, key)
  <2>1. Assignment(key, v) \in Line /\ Assignment(key, v).key = key /\ Assignment(key, v).value = v
    BY <1>4 DEF Line, Assignment
  <2>2. PatchedKey(lines, key, v) = Append(lines, Assignment(key, v))
    BY <1>0, <1>4 DEF PatchedKey
  <2> QED
    BY <1>0, <1>4, <2>1, <2>2, SaysAppended DEF Told
<1> QED
  BY <1>1, <1>2, <1>3, <1>4 DEF Change

LEMMA PatchedSays ==
  ASSUME NEW lines \in Text, NEW edits \in [Key -> Change]
  PROVE  /\ Patched(lines, edits) \in Text
         /\ \A k \in Key : Says(Patched(lines, edits), k) = Told(edits[k], Says(lines, k))
<1> DEFINE a == PatchedKey(lines, "cred", edits["cred"])
           b == PatchedKey(a, "model", edits["model"])
           c == PatchedKey(b, "schema", edits["schema"])
           d == PatchedKey(c, "other", edits["other"])
<1>0. \A k \in Key : edits[k] \in Change
  OBVIOUS
<1>1. "cred" \in Key /\ "model" \in Key /\ "schema" \in Key /\ "other" \in Key
  BY DEF Key
<1>2. Patched(lines, edits) = d
  BY DEF Patched
<1>3. a \in Text /\ \A j : Says(a, j) = IF j = "cred" THEN Told(edits[j], Says(lines, j)) ELSE Says(lines, j)
  BY <1>0, <1>1, PatchedKeySays
<1> HIDE DEF a
<1>4. b \in Text /\ \A j : Says(b, j) = IF j = "model" THEN Told(edits[j], Says(a, j)) ELSE Says(a, j)
  BY <1>0, <1>1, <1>3, PatchedKeySays
<1> HIDE DEF b
<1>5. c \in Text /\ \A j : Says(c, j) = IF j = "schema" THEN Told(edits[j], Says(b, j)) ELSE Says(b, j)
  BY <1>0, <1>1, <1>4, PatchedKeySays
<1> HIDE DEF c
<1>6. d \in Text /\ \A j : Says(d, j) = IF j = "other" THEN Told(edits[j], Says(c, j)) ELSE Says(c, j)
  BY <1>0, <1>1, <1>5, PatchedKeySays
<1> HIDE DEF d
<1>7. ASSUME NEW k \in Key  PROVE Says(d, k) = Told(edits[k], Says(lines, k))
  <2>1. k = "cred" \/ k = "model" \/ k = "schema" \/ k = "other"
    BY DEF Key
  <2> QED
    BY <1>3, <1>4, <1>5, <1>6, <2>1
<1> QED
  BY <1>2, <1>6, <1>7

\* The value in force, by what the texts say.
Wins(sh, texts, key) ==
  IF sh[key] # Absent THEN sh[key]
  ELSE IF Says(texts["local"], key) # Absent THEN Says(texts["local"], key)
  ELSE IF Says(texts["global"], key) # Absent THEN Says(texts["global"], key)
  ELSE IF key = "cred" THEN Absent ELSE Default

LEMMA InForceWins ==
  ASSUME NEW texts \in [Scope -> Text], NEW key
  PROVE  InForce(texts, key) = Wins(shell, texts, key)
<1>1. texts["local"] \in Text /\ texts["global"] \in Text
  BY DEF Scope
<1> QED
  BY <1>1, SaysSomething DEF InForce, Wins

LEMMA WinsTyped ==
  ASSUME NEW texts \in [Scope -> Text], NEW sh \in [Key -> Reading], NEW key \in Key
  PROVE  Wins(sh, texts, key) \in Reading /\ (key # "cred" => Wins(sh, texts, key) \in Value)
<1>1. texts["local"] \in Text /\ texts["global"] \in Text
  BY DEF Scope
<1>2. Says(texts["local"], key) \in Reading /\ Says(texts["global"], key) \in Reading /\ sh[key] \in Reading
  BY <1>1, SaysSomething
<1> QED
  BY <1>2, SetupAssumption DEF Wins, Reading

\* Texts that say the same have the same in force.
LEMMA WinsTheSame ==
  ASSUME NEW a, NEW b, NEW sh, NEW key, \A s \in Scope : Says(a[s], key) = Says(b[s], key)
  PROVE  Wins(sh, a, key) = Wins(sh, b, key)
  BY DEF Wins, Scope

\* What the draft leaves out of the patch would change nothing that is in force.
LEMMA EditsAreDraft ==
  ASSUME NEW draft \in Draft, NEW texts \in [Scope -> Text], NEW scope \in Scope, shell \in [Key -> Reading]
  PROVE  LET edits == DraftEdits(draft, texts, scope) IN
         /\ edits \in [Key -> Change]
         /\ \A k \in Key : Preview(draft, texts, scope)[k]
                             = Wins(shell, [texts EXCEPT ![scope] = Patched(texts[scope], edits)], k)
<1> DEFINE edits == DraftEdits(draft, texts, scope)
           whole == [k \in Key |-> IF k \in DOMAIN draft THEN draft[k] ELSE Keep]
           a == [texts EXCEPT ![scope] = Patched(texts[scope], whole)]
           b == [texts EXCEPT ![scope] = Patched(texts[scope], edits)]
           of(k) == IF draft[k] = Erase /\ (shell[k] # Absent \/ ~Has(texts[scope], k)) THEN Keep ELSE draft[k]
           stamped == \E s \in Scope : Has(texts[s], "schema")
<1>1. DOMAIN draft = {"cred", "model"} /\ draft["cred"] \in Change /\ draft["model"] \in Change /\ Keep \in Change
      /\ Default \in Change
  BY SetupAssumption DEF Draft, Change
<1>2. whole \in [Key -> Change] /\ whole["cred"] = draft["cred"] /\ whole["model"] = draft["model"]
      /\ whole["schema"] = Keep /\ whole["other"] = Keep
  BY <1>1 DEF Key
<1>3. edits \in [Key -> Change] /\ edits["cred"] = of("cred") /\ edits["model"] = of("model")
      /\ edits["other"] = Keep
      /\ (edits["schema"] = Keep \/ (edits["schema"] = Default /\ ~stamped /\ shell["schema"] = Absent))
  BY <1>1 DEF DraftEdits, Key
<1>4. texts["local"] \in Text /\ texts["global"] \in Text /\ texts[scope] \in Text /\ DOMAIN texts = Scope
  BY DEF Scope
<1> HIDE DEF edits, whole
<1>5. Patched(texts[scope], whole) \in Text /\ Patched(texts[scope], edits) \in Text
  BY <1>2, <1>3, <1>4, PatchedSays
<1>6. a \in [Scope -> Text] /\ b \in [Scope -> Text]
  BY <1>5
<1>7. /\ \A k \in Key : Says(a[scope], k) = Told(whole[k], Says(texts[scope], k))
      /\ \A k \in Key : Says(b[scope], k) = Told(edits[k], Says(texts[scope], k))
      /\ \A s \in Scope : s # scope => a[s] = texts[s] /\ b[s] = texts[s]
  <2>1. a[scope] = Patched(texts[scope], whole) /\ b[scope] = Patched(texts[scope], edits)
    BY <1>4
  <2>2. \A s \in Scope : s # scope => a[s] = texts[s] /\ b[s] = texts[s]
    BY <1>4
  <2> HIDE DEF a, b
  <2> QED
    BY <1>2, <1>3, <1>4, <2>1, <2>2, PatchedSays
<1>8. ASSUME NEW k \in Key  PROVE Preview(draft, texts, scope)[k] = Wins(shell, a, k)
  BY <1>6, InForceWins DEF Preview, whole
<1> HIDE DEF a, b
<1>9. ASSUME NEW k \in Key, k = "other" \/ whole[k] = edits[k]
      PROVE  Wins(shell, a, k) = Wins(shell, b, k)
  <2>1. ASSUME NEW s \in Scope  PROVE Says(a[s], k) = Says(b[s], k)
    BY <1>2, <1>3, <1>7, <1>9
  <2> QED
    BY <2>1, WinsTheSame
<1>10. ASSUME NEW k \in {"cred", "model"}  PROVE Wins(shell, a, k) = Wins(shell, b, k)
  <2>0. k \in Key /\ whole[k] = draft[k] /\ edits[k] = of(k)
    BY <1>2, <1>3 DEF Key
  <2>1. CASE draft[k] = Erase /\ shell[k] # Absent
    BY <2>1 DEF Wins
  <2>2. CASE draft[k] = Erase /\ shell[k] = Absent /\ ~Has(texts[scope], k)
    <3>1. Says(texts[scope], k) = Absent /\ edits[k] = Keep
      BY <1>4, <2>0, <2>2, SaysSomething
    <3>2. Keep # Erase
      BY DEF Keep, Erase
    <3>3. Says(a[scope], k) = Absent /\ Says(b[scope], k) = Absent
      BY <1>7, <2>0, <2>2, <3>1, <3>2 DEF Told
    <3>4. ASSUME NEW s \in Scope  PROVE Says(a[s], k) = Says(b[s], k)
      BY <1>7, <3>3
    <3> QED
      BY <3>4, WinsTheSame
  <2>3. CASE edits[k] = draft[k]
    BY <1>9, <2>0, <2>3
  <2> QED
    BY <2>0, <2>1, <2>2, <2>3
<1>11. Wins(shell, a, "schema") = Wins(shell, b, "schema")
  <2>0. "schema" \in Key
    BY DEF Key
  <2>1. CASE edits["schema"] = Keep
    BY <1>2, <1>9, <2>0, <2>1
  <2>2. CASE edits["schema"] = Default /\ ~stamped /\ shell["schema"] = Absent
    <3>1. \A s \in Scope : Says(texts[s], "schema") = Absent
      <4> SUFFICES ASSUME NEW s \in Scope  PROVE Says(texts[s], "schema") = Absent
        OBVIOUS
      <4>1. texts[s] \in Text /\ ~Has(texts[s], "schema")
        BY <2>2
      <4> QED
        BY <4>1, SaysSomething
    <3>2. Default # Keep /\ Default # Erase /\ Default # Absent
      BY SetupAssumption
    <3>3. \A s \in Scope : Says(a[s], "schema") = Absent
      BY <1>2, <1>7, <2>0, <3>1 DEF Told
    <3>4. \A s \in Scope : Says(b[s], "schema") = IF s = scope THEN Default ELSE Absent
      BY <1>7, <2>0, <2>2, <3>1, <3>2 DEF Told
    <3>5. Wins(shell, a, "schema") = Default
      BY <2>2, <3>3 DEF Wins, Scope
    <3>6. Wins(shell, b, "schema") = Default
      BY <2>2, <3>2, <3>4 DEF Wins, Scope
    <3> QED
      BY <3>5, <3>6
  <2> QED
    BY <1>3, <2>1, <2>2
<1>12. ASSUME NEW k \in Key  PROVE Preview(draft, texts, scope)[k] = Wins(shell, b, k)
  <2>1. k = "cred" \/ k = "model" \/ k = "schema" \/ k = "other"
    BY DEF Key
  <2> QED
    BY <1>8, <1>9, <1>10, <1>11, <2>1
<1> QED
  BY <1>3, <1>12 DEF edits, b

\* Nothing to change is nothing changed.
LEMMA NoEditsKeep ==
  ASSUME NEW lines \in Text
  PROVE  Patched(lines, NoEdits) = lines /\ NoEdits \in [Key -> Change]
<1>1. NoEdits \in [Key -> Change] /\ \A k \in Key : NoEdits[k] = Keep
  BY DEF NoEdits, Change
<1>2. \A k \in Key : PatchedKey(lines, k, NoEdits[k]) = lines
  BY <1>1 DEF PatchedKey
<1>3. "cred" \in Key /\ "model" \in Key /\ "schema" \in Key /\ "other" \in Key
  BY DEF Key
<1>4. Patched(lines, NoEdits) = lines
  BY <1>2, <1>3 DEF Patched
<1> QED
  BY <1>1, <1>4

-----------------------------------------------------------------------------
(* What the wizard has seen and promised                                   *)

Early == {"gate", "read", "hash", "collect"}
Planned == {"plan", "confirm", "ignore", "compare"}
Writing == {"base", "rename"}
Applied == {"hosts", "install", "load", "provider", "persist", "missing"}
Failure == {"gitignore", "env", "host", "reread", "install", "provider"}

WizardRow ==
  [at : Early \cup Planned \cup Writing \cup Applied \cup {"done"}, scope : Scope, interactive : BOOLEAN,
   saw : [Scope -> Text], hash : Text, edits : [Key -> Change], preview : [Key -> Reading], engine : Engines,
   needs : BOOLEAN, install : BOOLEAN, base : Text, failed : SUBSET Failure, loaded : Reading, touched : BOOLEAN,
   says : {"none", "refused", "cancelled", "ready", "incomplete", "died"}]
Item == [key : Key, value : Value \cup {Erase}]
WriterRow ==
  [at : {"idle", "read", "empty", "fill", "next"}, scope : Scope, raw : Text, todo : Seq(Item), ignores : BOOLEAN]

SetupTyped ==
  /\ text \in [Scope -> Text]
  /\ shell \in [Key -> Reading] /\ \A k \in Key \ {"cred"} : shell[k] = Absent
  /\ ignored \in BOOLEAN /\ installed \in {"absent", "old", "good"}
  /\ wizard \in [Wizard -> WizardRow]
  /\ writer \in [Wizard \cup Setter -> WriterRow]
  /\ meant \in [Scope -> [Key -> Reading]] /\ raced \in BOOLEAN

WritersBusy == \A p \in Wizard \cup Setter : writer[p].at # "idle" => writer[p].todo # <<>>

\* What is meant is what the file says, or what was read of it by the one that has emptied it.
MeantKept ==
  ~raced =>
    /\ \A p, q \in Wizard \cup Setter :
         writer[p].at = "fill" /\ writer[q].at = "fill" /\ writer[p].scope = writer[q].scope => p = q
    /\ \A p \in Wizard \cup Setter :
         writer[p].at = "fill" => \A k \in Key : Says(writer[p].raw, k) = meant[writer[p].scope][k]
    /\ \A s \in Scope :
         (\A p \in Wizard \cup Setter : ~(writer[p].at = "fill" /\ writer[p].scope = s)) =>
           \A k \in Key : Says(text[s], k) = meant[s][k]

(* Of a wizard's row `me`, the row `mine` of its writing in place, and     *)
(* what both stand in.                                                     *)
StageGood(me, mine) ==
  /\ me.at = "done" <=> me.says # "none"
  /\ me.at \in Early \cup Planned \cup Writing \cup {"hosts", "install", "load"} => me.loaded = Absent
  /\ me.at \notin Early \cup {"done"} => me.preview["model"] \in Value
  /\ me.at = "persist" => me.engine \in {"opencode", "opencode2"}
  /\ mine.at # "idle" => me.at = "persist" /\ mine.scope = me.scope
                         /\ mine.todo = <<Assignment("model", me.preview["model"])>>

SecretGood(me, ig) ==
  /\ me.scope = "local" /\ me.at \in Writing \cup {"compare"} => ig
  /\ me.scope = "local" /\ me.edits["cred"] \in Value /\ me.at \in Applied /\ "env" \notin me.failed => ig

EngineGood(me, ins) ==
  /\ me.says = "ready" => me.failed = {}
  /\ "provider" \notin me.failed /\ me.engine = "omp" /\ (me.at = "missing" \/ me.says = "ready") => ins = "good"
  /\ "provider" \notin me.failed /\ me.engine = "opencode"
       /\ (me.at \in {"persist", "missing"} \/ me.says = "ready") => ins # "absent"

\* The preview is what would be in force if `lines`, patched, were the file of the wizard's scope.
Promised(me, texts, sh, lines) ==
  \A k \in Key : Wins(sh, [texts EXCEPT ![me.scope] = Patched(lines, me.edits)], k) = me.preview[k]

\* The files as they were before a rewriting of the wizard's own emptied one.
Restored(me, mine, texts) == IF mine.at = "fill" THEN [texts EXCEPT ![me.scope] = mine.raw] ELSE texts

SeesFirst(me, texts) ==
  /\ me.at = "hash" => me.saw = texts
  /\ me.at = "collect" => me.saw = [texts EXCEPT ![me.scope] = me.hash]

SeesPlan(me, texts, sh) ==
  /\ me.at \in Planned => Promised(me, texts, sh, me.hash)
  /\ me.at \in Planned \ {"plan"} /\ me.edits = NoEdits => me.hash = texts[me.scope]
  /\ me.at = "base" => Promised(me, texts, sh, texts[me.scope])
  /\ me.at = "rename" => Promised(me, texts, sh, me.base) /\ me.base = texts[me.scope]

SeesEnd(me, mine, texts, sh) ==
  (me.at \in Applied \/ me.says \in {"ready", "incomplete"}) /\ "env" \notin me.failed =>
    /\ \A k \in Key : Wins(sh, Restored(me, mine, texts), k) = me.preview[k]
    /\ mine.at = "empty" => mine.raw = texts[me.scope]
    /\ me.loaded \in {Absent, me.preview["cred"]}
    /\ me.says = "ready" => me.preview["cred"] # Absent

RowGood(me, mine, texts, sh, ig, ins) ==
  /\ StageGood(me, mine) /\ SecretGood(me, ig) /\ EngineGood(me, ins)
  /\ ~me.touched => SeesFirst(me, texts) /\ SeesPlan(me, texts, sh) /\ SeesEnd(me, mine, texts, sh)

WizardsGood == \A w \in Wizard : RowGood(wizard[w], writer[w], text, shell, ignored, installed)

(* The wizard's promise, at each of its stages: what it has seen is what   *)
(* the files say until somebody touches them behind its back, and what it  *)
(* will write there makes its preview true.                                *)
SetupIInv == SetupTyped /\ WritersBusy /\ MeantKept /\ WizardsGood

-----------------------------------------------------------------------------
(* What keeps the promise                                                  *)

\* A step of one wizard that leaves files, writers and shell alone.
LEMMA QuietKeeps ==
  ASSUME SetupIInv, NEW w \in Wizard, NEW new \in WizardRow, WizGoes(w, new), FilesStay, RestStays,
         ignored' \in BOOLEAN, ignored => ignored', installed' \in {"absent", "old", "good"},
         installed = "good" => installed' = "good", installed # "absent" => installed' # "absent",
         RowGood(new, writer[w], text, shell, ignored', installed')
  PROVE  SetupIInv'
<1>1. SetupTyped /\ WritersBusy /\ MeantKept /\ WizardsGood
  BY DEF SetupIInv
<1>2. text' = text /\ writer' = writer /\ meant' = meant /\ raced' = raced /\ shell' = shell
  BY DEF FilesStay, RestStays
<1>3. wizard \in [Wizard -> WizardRow] /\ wizard' = [wizard EXCEPT ![w] = new]
  BY <1>1 DEF SetupTyped, WizGoes
<1>4. SetupTyped'
  <2>1. wizard' \in [Wizard -> WizardRow]
    BY <1>3
  <2> QED
    BY <1>1, <1>2, <2>1 DEF SetupTyped
<1>5. WritersBusy' /\ MeantKept'
  BY <1>1, <1>2 DEF WritersBusy, MeantKept
<1>6. ASSUME NEW v \in Wizard  PROVE RowGood(wizard'[v], writer'[v], text', shell', ignored', installed')
  <2>1. CASE v = w
    BY <1>2, <1>3, <2>1
  <2>2. CASE v # w
    <3>1. RowGood(wizard[v], writer[v], text, shell, ignored, installed)
      BY <1>1 DEF WizardsGood
    <3>2. wizard'[v] = wizard[v]
      BY <1>3, <2>2
    <3>3. SecretGood(wizard[v], ignored') /\ EngineGood(wizard[v], installed')
      BY <3>1 DEF RowGood, SecretGood, EngineGood
    <3> QED
      BY <1>2, <3>1, <3>2, <3>3 DEF RowGood
  <2> QED
    BY <2>1, <2>2
<1> QED
  BY <1>4, <1>5, <1>6 DEF SetupIInv, WizardsGood

\* The types of what a wizard stands in.
LEMMA RowTyped ==
  ASSUME SetupIInv, NEW w \in Wizard
  PROVE  /\ wizard[w] \in WizardRow /\ writer[w] \in WriterRow /\ text \in [Scope -> Text]
         /\ shell \in [Key -> Reading] /\ wizard[w].scope \in Scope /\ text[wizard[w].scope] \in Text
         /\ RowGood(wizard[w], writer[w], text, shell, ignored, installed)
         /\ ignored \in BOOLEAN /\ installed \in {"absent", "old", "good"}
<1>1. SetupTyped /\ WizardsGood
  BY DEF SetupIInv
<1>2. wizard[w] \in WizardRow /\ writer[w] \in WriterRow /\ text \in [Scope -> Text] /\ shell \in [Key -> Reading]
  BY <1>1 DEF SetupTyped
<1>3. wizard[w].scope \in Scope
  BY <1>2 DEF WizardRow
<1> QED
  BY <1>1, <1>2, <1>3 DEF WizardsGood, SetupTyped

\* A step of one wizard that changes nothing but its row.
LEMMA CalmKeeps ==
  ASSUME SetupIInv, NEW w \in Wizard, NEW new, WizGoes(w, new), FilesStay, RestStays, SystemStays,
         new \in WizardRow, RowGood(new, writer[w], text, shell, ignored, installed)
  PROVE  SetupIInv'
<1>1. ignored' = ignored /\ installed' = installed
  BY DEF SystemStays
<1>2. ignored \in BOOLEAN /\ installed \in {"absent", "old", "good"}
  BY RowTyped
<1> QED
  BY <1>1, <1>2, QuietKeeps

\* A wizard that ends without having applied anything promises nothing more.
LEMMA StopIsGood ==
  ASSUME NEW me \in WizardRow, NEW mine, mine.at = "idle", NEW new \in WizardRow, NEW ig, NEW ins,
         new.at = "done", new.says \in {"refused", "cancelled", "died"}
  PROVE  RowGood(new, mine, text, shell, ig, ins)
<1>1. StageGood(new, mine)
  BY DEF StageGood, Early, Planned, Writing
<1>2. SecretGood(new, ig) /\ EngineGood(new, ins)
  BY DEF SecretGood, EngineGood, Writing, Applied
<1>3. SeesFirst(new, text) /\ SeesPlan(new, text, shell) /\ SeesEnd(new, mine, text, shell)
  BY DEF SeesFirst, SeesPlan, SeesEnd, Planned, Applied
<1> QED
  BY <1>1, <1>2, <1>3 DEF RowGood

\* Before anything is persisted a wizard writes nothing in place.
LEMMA IdleBefore ==
  ASSUME SetupIInv, NEW w \in Wizard, wizard[w].at # "persist"
  PROVE  writer[w].at = "idle"
  BY RowTyped DEF RowGood, StageGood

LEMMA NoText == <<>> \in Text /\ Forgotten \in [Scope -> Text]
  BY DEF Text, Forgotten

LEMMA RefuseKeeps ==
  ASSUME SetupIInv, NEW w \in Wizard, wizard[w].at # "persist", Refuse(w), FilesStay, RestStays,
         ignored' = ignored, installed' = installed
  PROVE  SetupIInv'
<1> DEFINE me == wizard[w]
           new == [me EXCEPT !.at = "done", !.says = "refused", !.saw = Forgotten, !.hash = <<>>]
<1>1. me \in WizardRow /\ ignored \in BOOLEAN /\ installed \in {"absent", "old", "good"}
  BY RowTyped
<1>3. new \in WizardRow /\ new.at = "done" /\ new.says = "refused"
  BY <1>1, NoText DEF WizardRow
<1>4. WizGoes(w, new)
  BY DEF Refuse
<1> HIDE DEF new
<1>5. RowGood(new, writer[w], text, shell, ignored', installed')
  BY <1>1, <1>3, IdleBefore, StopIsGood
<1> QED
  BY <1>1, <1>3, <1>4, <1>5, QuietKeeps

LEMMA GateKeeps ==
  ASSUME SetupIInv, NEW w \in Wizard, Gate(w)
  PROVE  SetupIInv'
<1> DEFINE me == wizard[w]
           new == [me EXCEPT !.at = "read"]
<1>1. me \in WizardRow /\ me.at = "gate" /\ RowGood(me, writer[w], text, shell, ignored, installed)
      /\ ignored \in BOOLEAN /\ installed \in {"absent", "old", "good"}
  BY RowTyped DEF Gate, Wiz
<1>2. FilesStay /\ RestStays /\ ignored' = ignored /\ installed' = installed
  BY DEF Gate
<1>3. CASE Refuse(w)
  BY <1>1, <1>2, <1>3, RefuseKeeps
<1>4. CASE WizGoes(w, new)
  <2>1. new \in WizardRow
    BY <1>1 DEF WizardRow, Early
  <2>2. RowGood(new, writer[w], text, shell, ignored, installed)
    BY <1>1 DEF RowGood, StageGood, SecretGood, EngineGood, SeesFirst, SeesPlan, SeesEnd, WizardRow,
                Early, Planned, Writing, Applied
  <2> QED
    BY <1>1, <1>2, <1>4, <2>1, <2>2, QuietKeeps
<1> QED
  BY <1>3, <1>4 DEF Gate

LEMMA ReadStateKeeps ==
  ASSUME SetupIInv, NEW w \in Wizard, ReadState(w)
  PROVE  SetupIInv'
<1> DEFINE me == wizard[w]
           new == [me EXCEPT !.at = "hash", !.saw = text]
<1>1. me \in WizardRow /\ me.at = "read" /\ RowGood(me, writer[w], text, shell, ignored, installed)
      /\ text \in [Scope -> Text]
  BY RowTyped DEF ReadState, Wiz
<1>2. new \in WizardRow
  BY <1>1 DEF WizardRow, Early
<1>3. RowGood(new, writer[w], text, shell, ignored, installed)
  BY <1>1 DEF RowGood, StageGood, SecretGood, EngineGood, SeesFirst, SeesPlan, SeesEnd, WizardRow,
              Early, Planned, Writing, Applied
<1> QED
  BY <1>2, <1>3, CalmKeeps DEF ReadState

LEMMA ReadHashKeeps ==
  ASSUME SetupIInv, NEW w \in Wizard, ReadHash(w)
  PROVE  SetupIInv'
<1> DEFINE me == wizard[w]
           new == [me EXCEPT !.at = "collect", !.hash = text[me.scope]]
<1>1. me \in WizardRow /\ me.at = "hash" /\ RowGood(me, writer[w], text, shell, ignored, installed)
      /\ text \in [Scope -> Text] /\ text[me.scope] \in Text
  BY RowTyped DEF ReadHash, Wiz
<1>2. new \in WizardRow
  BY <1>1 DEF WizardRow, Early
<1>3. [text EXCEPT ![me.scope] = text[me.scope]] = text
  BY <1>1
<1>4. RowGood(new, writer[w], text, shell, ignored, installed)
  BY <1>1, <1>3 DEF RowGood, StageGood, SecretGood, EngineGood, SeesFirst, SeesPlan, SeesEnd, WizardRow,
                    Early, Planned, Writing, Applied
<1> QED
  BY <1>2, <1>4, CalmKeeps DEF ReadHash

LEMMA CollectKeeps ==
  ASSUME SetupIInv, NEW w \in Wizard, Collect(w)
  PROVE  SetupIInv'
<1> DEFINE me == wizard[w]
<1>1. me \in WizardRow /\ me.at = "collect" /\ RowGood(me, writer[w], text, shell, ignored, installed)
      /\ text \in [Scope -> Text] /\ text[me.scope] \in Text /\ shell \in [Key -> Reading]
      /\ me.saw \in [Scope -> Text] /\ me.scope \in Scope /\ me.hash \in Text
  BY RowTyped DEF Collect, Wiz, WizardRow
<1>2. FilesStay /\ RestStays /\ SystemStays
  BY DEF Collect
<1>3. PICK draft \in Collected(w), install \in BOOLEAN :
        LET preview == Preview(draft, me.saw, me.scope)
            planned == [me EXCEPT !.at = "plan", !.preview = preview, !.saw = Forgotten,
                          !.edits = DraftEdits(draft, me.saw, me.scope),
                          !.needs = NeedsInstall(me.engine), !.install = install] IN
        Refuse(w) \/ WizGoes(w, planned)
  BY DEF Collect
<1> DEFINE preview == Preview(draft, me.saw, me.scope)
           edits == DraftEdits(draft, me.saw, me.scope)
           new == [me EXCEPT !.at = "plan", !.preview = preview, !.saw = Forgotten, !.edits = edits,
                     !.needs = NeedsInstall(me.engine), !.install = install]
<1>4. CASE Refuse(w)
  <2>1. ignored' = ignored /\ installed' = installed
    BY <1>2 DEF SystemStays
  <2> QED
    BY <1>1, <1>2, <1>4, <2>1, RefuseKeeps
<1>5. CASE WizGoes(w, new)
  <2>1. draft \in Draft
    BY SetupAssumption DEF Collected, EasyDrafts, AdvancedDrafts, HeadlessDrafts
  <2>2. edits \in [Key -> Change]
        /\ \A k \in Key : preview[k] = Wins(shell, [me.saw EXCEPT ![me.scope] = Patched(me.saw[me.scope], edits)], k)
    BY <1>1, <2>1, EditsAreDraft
  <2>3. Patched(me.saw[me.scope], edits) \in Text
    <3>1. me.saw[me.scope] \in Text
      BY <1>1
    <3> HIDE DEF edits
    <3> QED
      BY <2>2, <3>1, PatchedSays
  <2> DEFINE after == [me.saw EXCEPT ![me.scope] = Patched(me.saw[me.scope], edits)]
  <2>4. after \in [Scope -> Text]
    BY <1>1, <2>3
  <2>5. preview \in [Key -> Reading] /\ preview["model"] \in Value
    <3>1. DOMAIN preview = Key /\ preview = [k \in Key |-> preview[k]]
      BY DEF Preview
    <3>2. \A k \in Key : preview[k] \in Reading /\ (k # "cred" => preview[k] \in Value)
      <4> HIDE DEF preview, after
      <4> QED
        BY <1>1, <2>2, <2>4, WinsTyped DEF after
    <3>3. "model" \in Key
      BY DEF Key
    <3> HIDE DEF preview
    <3> QED
      BY <3>1, <3>2, <3>3
  <2> HIDE DEF preview, edits, after
  <2>7. new \in WizardRow /\ new.at = "plan" /\ new.preview = preview /\ new.edits = edits /\ new.hash = me.hash
        /\ new.scope = me.scope /\ new.touched = me.touched /\ new.loaded = me.loaded /\ new.says = me.says
        /\ new.engine = me.engine /\ new.failed = me.failed
    BY <1>1, <2>2, <2>5, NoText DEF WizardRow, Planned, NeedsInstall
  <2> HIDE DEF new
  <2>8. ~me.touched => Promised(new, text, shell, new.hash)
    <3> SUFFICES ASSUME ~me.touched PROVE Promised(new, text, shell, new.hash)
      OBVIOUS
    <3>1. me.saw = [text EXCEPT ![me.scope] = me.hash]
      BY <1>1 DEF RowGood, SeesFirst
    <3>2. me.saw[me.scope] = me.hash /\ after = [text EXCEPT ![me.scope] = Patched(me.hash, edits)]
      BY <1>1, <3>1 DEF after
    <3> QED
      BY <2>2, <2>7, <3>2 DEF Promised, after
  <2>9. RowGood(new, writer[w], text, shell, ignored, installed)
    BY <1>1, <2>5, <2>7, <2>8 DEF RowGood, StageGood, SecretGood, EngineGood, SeesFirst, SeesPlan, SeesEnd,
                             Early, Planned, Writing, Applied
  <2> QED
    BY <1>2, <1>5, <2>7, <2>9, CalmKeeps DEF new
<1> QED
  BY <1>3, <1>4, <1>5

-----------------------------------------------------------------------------
(* The wizard, until it is confirmed                                       *)

LEMMA BuildPlanKeeps ==
  ASSUME SetupIInv, NEW w \in Wizard, BuildPlan(w)
  PROVE  SetupIInv'
<1> DEFINE me == wizard[w]
           new == [me EXCEPT !.at = "confirm"]
<1>1. me \in WizardRow /\ me.at = "plan" /\ RowGood(me, writer[w], text, shell, ignored, installed)
  BY RowTyped DEF BuildPlan, Wiz
<1>2. FilesStay /\ RestStays /\ SystemStays /\ ignored' = ignored /\ installed' = installed
  BY DEF BuildPlan, SystemStays
<1>3. CASE Refuse(w)
  BY <1>1, <1>2, <1>3, RefuseKeeps
<1>4. CASE text[me.scope] = me.hash /\ WizGoes(w, new)
  <2>1. new \in WizardRow
    BY <1>1 DEF WizardRow, Planned
  <2>2. RowGood(new, writer[w], text, shell, ignored, installed)
    BY <1>1, <1>4 DEF RowGood, StageGood, SecretGood, EngineGood, SeesFirst, SeesPlan, SeesEnd, WizardRow, Promised,
                      Early, Planned, Writing, Applied
  <2> QED
    BY <1>2, <1>4, <2>1, <2>2, CalmKeeps
<1> QED
  BY <1>3, <1>4 DEF BuildPlan

LEMMA ConfirmKeeps ==
  ASSUME SetupIInv, NEW w \in Wizard, Confirm(w)
  PROVE  SetupIInv'
<1> DEFINE me == wizard[w]
           on == [me EXCEPT !.at = "ignore"]
           off == [me EXCEPT !.at = "done", !.says = "cancelled", !.hash = <<>>]
<1>1. me \in WizardRow /\ me.at = "confirm" /\ RowGood(me, writer[w], text, shell, ignored, installed)
  BY RowTyped DEF Confirm, Wiz
<1>2. FilesStay /\ RestStays /\ SystemStays
  BY DEF Confirm
<1>3. CASE WizGoes(w, on)
  <2>1. on \in WizardRow
    BY <1>1 DEF WizardRow, Planned
  <2>2. RowGood(on, writer[w], text, shell, ignored, installed)
    BY <1>1 DEF RowGood, StageGood, SecretGood, EngineGood, SeesFirst, SeesPlan, SeesEnd, WizardRow, Promised,
                Early, Planned, Writing, Applied
  <2> QED
    BY <1>2, <1>3, <2>1, <2>2, CalmKeeps
<1>4. CASE WizGoes(w, off)
  <2>1. off \in WizardRow /\ off.at = "done" /\ off.says = "cancelled"
    BY <1>1, NoText DEF WizardRow
  <2> HIDE DEF off
  <2>2. RowGood(off, writer[w], text, shell, ignored, installed)
    BY <1>1, <2>1, IdleBefore, StopIsGood
  <2> QED
    BY <1>2, <1>4, <2>1, <2>2, CalmKeeps
<1> QED
  BY <1>3, <1>4 DEF Confirm

LEMMA IgnoreKeeps ==
  ASSUME SetupIInv, NEW w \in Wizard, Ignore(w)
  PROVE  SetupIInv'
<1> DEFINE me == wizard[w]
           none == [me EXCEPT !.at = "hosts", !.hash = <<>>]
           on == [me EXCEPT !.at = "compare"]
           off == [me EXCEPT !.at = "install", !.hash = <<>>, !.failed = {"gitignore", "env"}]
<1>1. me \in WizardRow /\ me.at = "ignore" /\ RowGood(me, writer[w], text, shell, ignored, installed)
      /\ text \in [Scope -> Text] /\ text[me.scope] \in Text /\ me.scope \in Scope
      /\ ignored \in BOOLEAN /\ installed \in {"absent", "old", "good"}
  BY RowTyped DEF Ignore, Wiz
<1>2. FilesStay /\ RestStays /\ installed' = installed
  BY DEF Ignore
<1>3. writer[w].at = "idle"
  BY <1>1, IdleBefore
<1>4. CASE me.edits = NoEdits /\ WizGoes(w, none) /\ ignored' = ignored
  <2>1. none \in WizardRow /\ none.at = "hosts" /\ none.preview = me.preview /\ none.edits = me.edits
        /\ none.scope = me.scope /\ none.touched = me.touched /\ none.loaded = me.loaded /\ none.says = me.says
        /\ none.engine = me.engine /\ none.failed = me.failed
    BY <1>1, NoText DEF WizardRow, Applied
  <2> HIDE DEF none
  <2>2. NoEdits["cred"] \notin Value
    BY SetupAssumption DEF NoEdits, Key
  <2>3. ~me.touched => \A k \in Key : Wins(shell, text, k) = me.preview[k]
    <3> SUFFICES ASSUME ~me.touched  PROVE \A k \in Key : Wins(shell, text, k) = me.preview[k]
      OBVIOUS
    <3>1. Promised(me, text, shell, me.hash) /\ me.hash = text[me.scope]
      BY <1>1, <1>4 DEF RowGood, SeesPlan, Planned
    <3>2. Patched(me.hash, me.edits) = text[me.scope]
      BY <1>1, <1>4, <3>1, NoEditsKeep
    <3>3. [text EXCEPT ![me.scope] = text[me.scope]] = text
      BY <1>1
    <3> QED
      BY <3>1, <3>2, <3>3 DEF Promised
  <2>4. StageGood(none, writer[w]) /\ SecretGood(none, ignored) /\ EngineGood(none, installed)
    BY <1>1, <1>3, <1>4, <2>1, <2>2 DEF RowGood, StageGood, SecretGood, EngineGood, Early, Planned, Writing, Applied
  <2>5. ~none.touched => SeesFirst(none, text) /\ SeesPlan(none, text, shell) /\ SeesEnd(none, writer[w], text, shell)
    BY <1>1, <1>3, <2>1, <2>3 DEF RowGood, StageGood, SeesFirst, SeesPlan, SeesEnd, Restored, Planned
  <2> QED
    BY <1>1, <1>2, <1>4, <2>1, <2>4, <2>5, QuietKeeps DEF RowGood
<1>5. CASE WizGoes(w, on) /\ (ignored' = TRUE \/ (me.scope = "global" /\ ignored' = ignored))
  <2>1. on \in WizardRow
    BY <1>1 DEF WizardRow, Planned
  <2>2. RowGood(on, writer[w], text, shell, ignored', installed)
    BY <1>1, <1>3, <1>5 DEF RowGood, StageGood, SecretGood, EngineGood, SeesFirst, SeesPlan, SeesEnd, WizardRow,
                            Promised, Early, Planned, Writing, Applied
  <2>3. ignored' \in BOOLEAN /\ (ignored => ignored')
    <3>1. ignored \in BOOLEAN
      BY <1>1
    <3>2. ignored' = TRUE \/ ignored' = ignored
      BY <1>5
    <3> QED
      BY <3>1, <3>2
  <2> HIDE DEF on
  <2> QED
    BY <1>1, <1>2, <1>5, <2>1, <2>2, <2>3, QuietKeeps
<1>6. CASE WizGoes(w, off) /\ ignored' = ignored
  <2>1. off \in WizardRow /\ off.at = "install" /\ off.preview = me.preview /\ "env" \in off.failed
        /\ off.loaded = me.loaded /\ off.says = me.says /\ off.engine = me.engine
    BY <1>1, NoText DEF WizardRow, Applied, Failure
  <2> HIDE DEF off
  <2>2. RowGood(off, writer[w], text, shell, ignored, installed)
    BY <1>1, <1>3, <2>1 DEF RowGood, StageGood, SecretGood, EngineGood, SeesFirst, SeesPlan, SeesEnd,
                            Early, Planned, Writing, Applied
  <2> QED
    BY <1>1, <1>2, <1>6, <2>1, <2>2, QuietKeeps
<1> QED
  BY <1>4, <1>5, <1>6 DEF Ignore

LEMMA CompareKeeps ==
  ASSUME SetupIInv, NEW w \in Wizard, Compare(w)
  PROVE  SetupIInv'
<1> DEFINE me == wizard[w]
           new == [me EXCEPT !.at = "base", !.hash = <<>>]
<1>1. me \in WizardRow /\ me.at = "compare" /\ RowGood(me, writer[w], text, shell, ignored, installed)
  BY RowTyped DEF Compare, Wiz
<1>2. FilesStay /\ RestStays /\ SystemStays /\ ignored' = ignored /\ installed' = installed
  BY DEF Compare, SystemStays
<1>3. CASE Refuse(w)
  BY <1>1, <1>2, <1>3, RefuseKeeps
<1>4. CASE text[me.scope] = me.hash /\ WizGoes(w, new)
  <2>1. new \in WizardRow
    BY <1>1, NoText DEF WizardRow, Writing
  <2>2. RowGood(new, writer[w], text, shell, ignored, installed)
    BY <1>1, <1>4 DEF RowGood, StageGood, SecretGood, EngineGood, SeesFirst, SeesPlan, SeesEnd, WizardRow, Promised,
                      Early, Planned, Writing, Applied
  <2> QED
    BY <1>2, <1>4, <2>1, <2>2, CalmKeeps
<1> QED
  BY <1>3, <1>4 DEF Compare

LEMMA ReadToPatchKeeps ==
  ASSUME SetupIInv, NEW w \in Wizard, ReadToPatch(w)
  PROVE  SetupIInv'
<1> DEFINE me == wizard[w]
           new == [me EXCEPT !.at = "rename", !.base = text[me.scope]]
<1>1. me \in WizardRow /\ me.at = "base" /\ RowGood(me, writer[w], text, shell, ignored, installed)
      /\ text[me.scope] \in Text
  BY RowTyped DEF ReadToPatch, Wiz
<1>2. new \in WizardRow
  BY <1>1 DEF WizardRow, Writing
<1>3. RowGood(new, writer[w], text, shell, ignored, installed)
  BY <1>1 DEF RowGood, StageGood, SecretGood, EngineGood, SeesFirst, SeesPlan, SeesEnd, WizardRow, Promised,
              Early, Planned, Writing, Applied
<1> QED
  BY <1>2, <1>3, CalmKeeps DEF ReadToPatch

LEMMA ApplyHostsKeeps ==
  ASSUME SetupIInv, NEW w \in Wizard, ApplyHosts(w)
  PROVE  SetupIInv'
<1> DEFINE me == wizard[w]
<1>1. me \in WizardRow /\ me.at = "hosts" /\ RowGood(me, writer[w], text, shell, ignored, installed)
  BY RowTyped DEF ApplyHosts, Wiz
<1>2. FilesStay /\ RestStays /\ SystemStays
  BY DEF ApplyHosts
<1>3. PICK failures \in SUBSET {"host", "reread"} :
        WizGoes(w, [me EXCEPT !.at = "install", !.failed = @ \cup failures])
  BY DEF ApplyHosts
<1> DEFINE new == [me EXCEPT !.at = "install", !.failed = @ \cup failures]
<1>4. new \in WizardRow /\ new.at = "install" /\ new.failed = me.failed \cup failures /\ new.preview = me.preview
      /\ new.edits = me.edits /\ new.scope = me.scope /\ new.touched = me.touched /\ new.loaded = me.loaded
      /\ new.says = me.says /\ new.engine = me.engine
  BY <1>1 DEF WizardRow, Applied, Failure
<1> HIDE DEF new
<1>5. StageGood(new, writer[w]) /\ SecretGood(new, ignored) /\ EngineGood(new, installed)
  BY <1>1, <1>4 DEF RowGood, StageGood, SecretGood, EngineGood, Early, Planned, Writing, Applied
<1>6. "env" \notin new.failed => "env" \notin me.failed
  BY <1>4
<1>7. ~new.touched => SeesFirst(new, text) /\ SeesPlan(new, text, shell) /\ SeesEnd(new, writer[w], text, shell)
  BY <1>1, <1>4, <1>6 DEF RowGood, StageGood, SeesFirst, SeesPlan, SeesEnd, Restored, Planned, Applied
<1> QED
  BY <1>2, <1>3, <1>4, <1>5, <1>7, CalmKeeps DEF new, RowGood

-----------------------------------------------------------------------------
(* What was confirmed is applied                                           *)

LEMMA InstallEngineKeeps ==
  ASSUME SetupIInv, NEW w \in Wizard, InstallEngine(w)
  PROVE  SetupIInv'
<1> DEFINE me == wizard[w]
<1>1. me \in WizardRow /\ me.at = "install" /\ RowGood(me, writer[w], text, shell, ignored, installed)
      /\ ignored \in BOOLEAN /\ installed \in {"absent", "old", "good"}
  BY RowTyped DEF InstallEngine, Wiz
<1>2. FilesStay /\ RestStays /\ ignored' = ignored
  BY DEF InstallEngine
<1>3. installed' \in {"good", installed}
  BY DEF InstallEngine
<1>4. ASSUME NEW at \in {"missing", "load"}, NEW failed \in SUBSET Failure, me.failed \subseteq failed,
             WizGoes(w, [me EXCEPT !.at = at, !.failed = failed]), at = "missing" => me.engine = "none"
      PROVE  SetupIInv'
  <2> DEFINE new == [me EXCEPT !.at = at, !.failed = failed]
  <2>1. new \in WizardRow /\ new.at = at /\ new.failed = failed /\ new.preview = me.preview
        /\ new.edits = me.edits /\ new.scope = me.scope /\ new.touched = me.touched /\ new.loaded = me.loaded
        /\ new.says = me.says /\ new.engine = me.engine
    BY <1>1 DEF WizardRow, Applied
  <2>2. WizGoes(w, new)
    BY <1>4
  <2> HIDE DEF new
  <2>3. "env" \notin new.failed => "env" \notin me.failed
    BY <1>4, <2>1
  <2>4. StageGood(new, writer[w]) /\ SecretGood(new, ignored) /\ EngineGood(new, installed')
    BY <1>1, <1>4, <2>1, <2>3 DEF RowGood, StageGood, SecretGood, EngineGood, Early, Planned, Writing, Applied
  <2>5. ~new.touched => SeesFirst(new, text) /\ SeesPlan(new, text, shell) /\ SeesEnd(new, writer[w], text, shell)
    BY <1>1, <1>4, <2>1, <2>3 DEF RowGood, StageGood, SeesFirst, SeesPlan, SeesEnd, Restored, Planned, Applied
  <2>6. RowGood(new, writer[w], text, shell, ignored', installed')
    BY <1>2, <2>4, <2>5 DEF RowGood
  <2> QED
    BY <1>1, <1>2, <1>3, <2>1, <2>2, <2>6, QuietKeeps
<1>5. me.failed \in SUBSET Failure /\ me.failed \cup {"install"} \in SUBSET Failure
  BY <1>1 DEF WizardRow, Failure
<1>6. \A at : [me EXCEPT !.at = at] = [me EXCEPT !.at = at, !.failed = me.failed]
  BY <1>1 DEF WizardRow
<1>7. CASE me.engine = "none" /\ WizGoes(w, [me EXCEPT !.at = "missing"])
  BY <1>4, <1>5, <1>6, <1>7
<1>8. CASE WizGoes(w, [me EXCEPT !.at = "load"])
  BY <1>4, <1>5, <1>6, <1>8
<1>9. CASE WizGoes(w, [me EXCEPT !.at = "load", !.failed = @ \cup {"install"}])
  BY <1>4, <1>5, <1>9
<1> QED
  BY <1>7, <1>8, <1>9 DEF InstallEngine

LEMMA LoadFilesKeeps ==
  ASSUME SetupIInv, NEW w \in Wizard, LoadFiles(w)
  PROVE  SetupIInv'
<1> DEFINE me == wizard[w]
           cred == InForce(text, "cred")
           new == [me EXCEPT !.at = "provider", !.loaded = cred]
<1>1. me \in WizardRow /\ me.at = "load" /\ RowGood(me, writer[w], text, shell, ignored, installed)
      /\ text \in [Scope -> Text] /\ shell \in [Key -> Reading]
  BY RowTyped DEF LoadFiles, Wiz
<1>2. cred = Wins(shell, text, "cred") /\ cred \in Reading /\ "cred" \in Key
  <2>1. "cred" \in Key
    BY DEF Key
  <2> QED
    BY <1>1, <2>1, InForceWins, WinsTyped
<1>3. WizGoes(w, new)
  BY DEF LoadFiles
<1> HIDE DEF cred
<1>4. new \in WizardRow /\ new.at = "provider" /\ new.failed = me.failed /\ new.preview = me.preview
      /\ new.edits = me.edits /\ new.scope = me.scope /\ new.touched = me.touched /\ new.loaded = cred
      /\ new.says = me.says /\ new.engine = me.engine
  BY <1>1, <1>2 DEF WizardRow, Applied
<1> HIDE DEF new
<1>5. writer[w].at = "idle"
  BY <1>1, IdleBefore
<1>6. StageGood(new, writer[w]) /\ SecretGood(new, ignored) /\ EngineGood(new, installed)
  BY <1>1, <1>4, <1>5 DEF RowGood, StageGood, SecretGood, EngineGood, Early, Planned, Writing, Applied
<1>7. ~new.touched => SeesFirst(new, text) /\ SeesPlan(new, text, shell) /\ SeesEnd(new, writer[w], text, shell)
  BY <1>1, <1>2, <1>4, <1>5 DEF RowGood, StageGood, SeesFirst, SeesPlan, SeesEnd, Restored, Planned, Applied
<1> QED
  BY <1>3, <1>4, <1>6, <1>7, CalmKeeps DEF LoadFiles, RowGood

\* The engine's setup is over, having failed or not.
LEMMA ProviderKeeps ==
  ASSUME SetupIInv, NEW w \in Wizard, wizard[w].at \in {"provider", "persist"}, writer[w].at = "idle",
         FilesStay, RestStays, SystemStays,
         \/ WizGoes(w, ProviderFails(wizard[w]))
         \/ /\ WizGoes(w, ProviderDone(wizard[w]))
            /\ wizard[w].engine = "omp" => installed = "good"
            /\ wizard[w].engine = "opencode" => wizard[w].at = "persist"
  PROVE  SetupIInv'
<1> DEFINE me == wizard[w]
           off == ProviderFails(me)
           on == ProviderDone(me)
<1>1. me \in WizardRow /\ RowGood(me, writer[w], text, shell, ignored, installed)
  BY RowTyped
<1>2. CASE WizGoes(w, off)
  <2>1. off \in WizardRow /\ off.at = "missing" /\ off.failed = me.failed \cup {"provider"} /\ off.preview = me.preview
        /\ off.edits = me.edits /\ off.scope = me.scope /\ off.touched = me.touched /\ off.loaded = me.loaded
        /\ off.says = me.says /\ off.engine = me.engine
    BY <1>1 DEF WizardRow, Applied, ProviderFails, Failure
  <2> HIDE DEF off
  <2>2. StageGood(off, writer[w]) /\ SecretGood(off, ignored) /\ EngineGood(off, installed)
    BY <1>1, <2>1 DEF RowGood, StageGood, SecretGood, EngineGood, Early, Planned, Writing, Applied
  <2>3. ~off.touched => SeesFirst(off, text) /\ SeesPlan(off, text, shell) /\ SeesEnd(off, writer[w], text, shell)
    BY <1>1, <2>1 DEF RowGood, StageGood, SeesFirst, SeesPlan, SeesEnd, Restored, Planned, Applied
  <2> QED
    BY <1>2, <2>1, <2>2, <2>3, CalmKeeps DEF RowGood
<1>3. CASE WizGoes(w, on) /\ (me.engine = "omp" => installed = "good") /\ (me.engine = "opencode" => me.at = "persist")
  <2>1. on \in WizardRow /\ on.at = "missing" /\ on.failed = me.failed /\ on.preview = me.preview
        /\ on.edits = me.edits /\ on.scope = me.scope /\ on.touched = me.touched /\ on.loaded = me.loaded
        /\ on.says = me.says /\ on.engine = me.engine
    BY <1>1 DEF WizardRow, Applied, ProviderDone
  <2> HIDE DEF on
  <2>2. StageGood(on, writer[w]) /\ SecretGood(on, ignored) /\ EngineGood(on, installed)
    BY <1>1, <1>3, <2>1 DEF RowGood, StageGood, SecretGood, EngineGood, Early, Planned, Writing, Applied
  <2>3. ~on.touched => SeesFirst(on, text) /\ SeesPlan(on, text, shell) /\ SeesEnd(on, writer[w], text, shell)
    BY <1>1, <2>1 DEF RowGood, StageGood, SeesFirst, SeesPlan, SeesEnd, Restored, Planned, Applied
  <2> QED
    BY <1>3, <2>1, <2>2, <2>3, CalmKeeps DEF RowGood
<1> QED
  BY <1>2, <1>3

LEMMA SetUpOmpKeeps ==
  ASSUME SetupIInv, NEW w \in Wizard, SetUpOmp(w)
  PROVE  SetupIInv'
<1>1. wizard[w].at = "provider" /\ writer[w].at = "idle" /\ wizard[w].engine = "omp"
      /\ FilesStay /\ RestStays /\ SystemStays
  BY IdleBefore DEF SetUpOmp, Wiz
<1> QED
  BY <1>1, ProviderKeeps DEF SetUpOmp

LEMMA SetUpCrushKeeps ==
  ASSUME SetupIInv, NEW w \in Wizard, SetUpCrush(w)
  PROVE  SetupIInv'
<1>1. wizard[w].at = "provider" /\ writer[w].at = "idle" /\ wizard[w].engine = "crush"
      /\ FilesStay /\ RestStays /\ SystemStays
  BY IdleBefore DEF SetUpCrush, Wiz
<1> QED
  BY <1>1, ProviderKeeps DEF SetUpCrush

LEMMA EndPersistKeeps ==
  ASSUME SetupIInv, NEW w \in Wizard, EndPersist(w)
  PROVE  SetupIInv'
<1>1. wizard[w].at = "persist" /\ writer[w].at = "idle" /\ FilesStay /\ RestStays /\ SystemStays
  BY DEF EndPersist, Wiz
<1>2. wizard[w].engine \in {"opencode", "opencode2"}
  BY <1>1, RowTyped DEF RowGood, StageGood
<1> QED
  BY <1>1, <1>2, ProviderKeeps DEF EndPersist

LEMMA FinishKeeps ==
  ASSUME SetupIInv, NEW w \in Wizard, Finish(w)
  PROVE  SetupIInv'
<1> DEFINE me == wizard[w]
           missing == me.loaded = Absent /\ InForce(text, "cred") = Absent
           new == [me EXCEPT !.at = "done", !.says = IF me.failed = {} /\ ~missing THEN "ready" ELSE "incomplete"]
<1>1. me \in WizardRow /\ me.at = "missing" /\ RowGood(me, writer[w], text, shell, ignored, installed)
      /\ text \in [Scope -> Text]
  BY RowTyped DEF Finish, Wiz
<1>2. InForce(text, "cred") = Wins(shell, text, "cred") /\ "cred" \in Key
  BY <1>1, InForceWins DEF Key
<1>3. WizGoes(w, new)
  BY DEF Finish
<1> HIDE DEF missing
<1>4. new \in WizardRow /\ new.at = "done" /\ new.failed = me.failed /\ new.preview = me.preview
      /\ new.edits = me.edits /\ new.scope = me.scope /\ new.touched = me.touched /\ new.loaded = me.loaded
      /\ new.says \in {"ready", "incomplete"} /\ (new.says = "ready" => me.failed = {} /\ ~missing)
      /\ new.engine = me.engine
  BY <1>1 DEF WizardRow
<1> HIDE DEF new
<1>5. writer[w].at = "idle"
  BY <1>1, IdleBefore
<1>6. StageGood(new, writer[w]) /\ SecretGood(new, ignored) /\ EngineGood(new, installed)
  BY <1>1, <1>4, <1>5 DEF RowGood, StageGood, SecretGood, EngineGood, Early, Planned, Writing, Applied
<1>7. ~new.touched => SeesFirst(new, text) /\ SeesPlan(new, text, shell) /\ SeesEnd(new, writer[w], text, shell)
  <2>1. SeesFirst(new, text) /\ SeesPlan(new, text, shell)
    BY <1>4 DEF SeesFirst, SeesPlan, Planned
  <2>2. ~me.touched /\ "env" \notin me.failed =>
          /\ \A k \in Key : Wins(shell, text, k) = me.preview[k]
          /\ me.loaded \in {Absent, me.preview["cred"]}
    BY <1>1, <1>5 DEF RowGood, SeesEnd, Restored, Applied
  <2>3. ~me.touched /\ "env" \notin me.failed /\ new.says = "ready" => me.preview["cred"] # Absent
    BY <1>2, <1>4, <2>2 DEF missing
  <2> QED
    BY <1>4, <1>5, <2>1, <2>2, <2>3 DEF SeesEnd, Restored
<1> QED
  BY <1>3, <1>4, <1>6, <1>7, CalmKeeps DEF Finish, RowGood

ExposedRow(me, s) ==
  ~(\/ me.at \in {"gate", "read"}
    \/ s = me.scope /\ me.at \in {"collect", "plan"}
    \/ s = me.scope /\ me.at \in {"confirm", "ignore", "compare"} /\ me.edits # NoEdits)
Touch(me, s) == IF ExposedRow(me, s) THEN [me EXCEPT !.touched = TRUE] ELSE me

\* A wizard that is touched has no more to promise; one that is not looks away from what changed.
LEMMA TouchKeeps ==
  ASSUME NEW me \in WizardRow, NEW mine, NEW texts \in [Scope -> Text], NEW new \in [Scope -> Text], NEW s \in Scope,
         \A r \in Scope : r # s => new[r] = texts[r], NEW sh, NEW ig, NEW ins,
         RowGood(me, mine, texts, sh, ig, ins)
  PROVE  Touch(me, s) \in WizardRow /\ RowGood(Touch(me, s), mine, new, sh, ig, ins)
<1>1. CASE ExposedRow(me, s)
  <2> DEFINE touched == [me EXCEPT !.touched = TRUE]
  <2>1. touched \in WizardRow /\ touched.touched = TRUE /\ touched.at = me.at /\ touched.failed = me.failed
        /\ touched.preview = me.preview /\ touched.edits = me.edits /\ touched.scope = me.scope
        /\ touched.loaded = me.loaded /\ touched.says = me.says /\ touched.engine = me.engine
    BY DEF WizardRow
  <2>2. Touch(me, s) = touched
    BY <1>1 DEF Touch
  <2> HIDE DEF touched
  <2>3. StageGood(touched, mine) /\ SecretGood(touched, ig) /\ EngineGood(touched, ins)
    BY <2>1 DEF RowGood, StageGood, SecretGood, EngineGood
  <2> QED
    BY <2>1, <2>2, <2>3 DEF RowGood
<1>2. CASE ~ExposedRow(me, s)
  <2>1. Touch(me, s) = me
    BY <1>2 DEF Touch
  <2>2. me.scope \in Scope
    BY DEF WizardRow
  <2>3. me.at \in {"gate", "read"} \/ (s = me.scope /\ me.at \in Planned \cup {"collect"})
    BY <1>2 DEF ExposedRow, Planned
  <2>4. me.at \in Planned \ {"plan"} => me.edits # NoEdits
    BY <1>2 DEF ExposedRow, Planned
  <2>5. \A x : s = me.scope => [new EXCEPT ![me.scope] = x] = [texts EXCEPT ![me.scope] = x]
    <3>1. DOMAIN new = Scope /\ DOMAIN texts = Scope
      OBVIOUS
    <3> QED
      BY <3>1
  <2>6. StageGood(me, mine)
    BY DEF RowGood
  <2>7. me.says = "none"
    BY <2>3, <2>6 DEF StageGood, Planned
  <2>8. ~me.touched => SeesFirst(me, new) /\ SeesPlan(me, new, sh)
    <3> SUFFICES ASSUME ~me.touched  PROVE SeesFirst(me, new) /\ SeesPlan(me, new, sh)
      OBVIOUS
    <3>1. SeesFirst(me, texts) /\ SeesPlan(me, texts, sh)
      BY DEF RowGood
    <3>2. CASE me.at \in {"gate", "read"}
      BY <3>2 DEF SeesFirst, SeesPlan, Planned
    <3>3. CASE s = me.scope /\ me.at = "collect"
      <4>1. [new EXCEPT ![me.scope] = me.hash] = [texts EXCEPT ![me.scope] = me.hash]
        BY <2>5, <3>3
      <4> QED
        BY <3>1, <3>3, <4>1 DEF SeesFirst, SeesPlan, Planned
    <3>4. CASE s = me.scope /\ me.at \in Planned
      <4>1. [new EXCEPT ![me.scope] = Patched(me.hash, me.edits)]
              = [texts EXCEPT ![me.scope] = Patched(me.hash, me.edits)]
        BY <2>5, <3>4
      <4>2. Promised(me, texts, sh, me.hash)
        BY <3>1, <3>4 DEF SeesPlan
      <4>3. Promised(me, new, sh, me.hash)
        BY <4>1, <4>2 DEF Promised
      <4> QED
        BY <2>4, <3>4, <4>3 DEF SeesFirst, SeesPlan, Planned
    <3> QED
      BY <2>3, <3>2, <3>3, <3>4
  <2>9. SeesEnd(me, mine, new, sh)
    BY <2>3, <2>7 DEF SeesEnd, Planned, Applied
  <2> QED
    BY <2>1, <2>6, <2>8, <2>9 DEF RowGood
<1> QED
  BY <1>1, <1>2

\* A step of one process in the file of one scope, which touches every other wizard that looks.
LEMMA LandingKeeps ==
  ASSUME SetupIInv, NEW p \in Wizard \cup Setter, NEW s \in Scope, NEW lines \in Text,
         text' = [text EXCEPT ![s] = lines], shell' = shell, ignored' = ignored, installed' = installed,
         NEW mine \in WriterRow, writer' = [writer EXCEPT ![p] = mine],
         NEW row, p \in Wizard => row \in WizardRow /\ RowGood(row, mine, text', shell, ignored, installed),
         wizard' = [w \in Wizard |-> wizard'[w]],
         \A w \in Wizard : wizard'[w] = IF w = p THEN row ELSE Touch(wizard[w], s),
         meant' \in [Scope -> [Key -> Reading]], raced' \in BOOLEAN
  PROVE  SetupTyped' /\ WizardsGood'
<1>1. SetupTyped /\ WizardsGood
  BY DEF SetupIInv
<1>2. text \in [Scope -> Text] /\ text' \in [Scope -> Text] /\ \A r \in Scope : r # s => text'[r] = text[r]
  BY <1>1 DEF SetupTyped
<1>3. ASSUME NEW w \in Wizard
      PROVE  wizard'[w] \in WizardRow /\ RowGood(wizard'[w], writer'[w], text', shell', ignored', installed')
  <2>1. CASE w = p
    <3>1. wizard'[w] = row /\ writer'[w] = mine
      BY <1>1, <2>1 DEF SetupTyped
    <3> QED
      BY <2>1, <3>1
  <2>2. CASE w # p
    <3>1. wizard'[w] = Touch(wizard[w], s) /\ writer'[w] = writer[w]
      BY <1>1, <2>2 DEF SetupTyped
    <3>2. wizard[w] \in WizardRow /\ RowGood(wizard[w], writer[w], text, shell, ignored, installed)
      BY RowTyped
    <3>3. Touch(wizard[w], s) \in WizardRow
          /\ RowGood(Touch(wizard[w], s), writer[w], text', shell, ignored, installed)
      BY <1>2, <3>2, TouchKeeps
    <3> QED
      BY <3>1, <3>3
  <2> QED
    BY <2>1, <2>2
<1>4. wizard' \in [Wizard -> WizardRow]
  BY <1>3
<1>5. writer' \in [Wizard \cup Setter -> WriterRow]
  BY <1>1 DEF SetupTyped
<1> QED
  BY <1>1, <1>2, <1>3, <1>4, <1>5 DEF SetupTyped, WizardsGood

\* A step of one process that leaves the files as they are.
LEMMA TurnKeepsFiles ==
  ASSUME SetupIInv, NEW p \in Wizard \cup Setter, text' = text, shell' = shell, meant' = meant,
         ignored' \in BOOLEAN, ignored => ignored', installed' = installed,
         NEW mine \in WriterRow, writer' = [writer EXCEPT ![p] = mine],
         \A w \in Wizard : w # p => wizard'[w] = wizard[w], wizard' \in [Wizard -> WizardRow],
         p \in Wizard => RowGood(wizard'[p], mine, text, shell, ignored', installed), raced' \in BOOLEAN
  PROVE  SetupTyped' /\ WizardsGood'
<1>1. SetupTyped /\ WizardsGood
  BY DEF SetupIInv
<1>2. ASSUME NEW w \in Wizard  PROVE RowGood(wizard'[w], writer'[w], text', shell', ignored', installed')
  <2>1. CASE w = p
    <3>1. writer'[w] = mine
      BY <1>1, <2>1 DEF SetupTyped
    <3> QED
      BY <2>1, <3>1
  <2>2. CASE w # p
    <3>1. wizard'[w] = wizard[w] /\ writer'[w] = writer[w]
      BY <1>1, <2>2 DEF SetupTyped
    <3>2. RowGood(wizard[w], writer[w], text, shell, ignored, installed)
      BY RowTyped
    <3>3. SecretGood(wizard[w], ignored')
      BY <3>2 DEF RowGood, SecretGood
    <3> QED
      BY <3>1, <3>2, <3>3 DEF RowGood
  <2> QED
    BY <2>1, <2>2
<1>3. writer' \in [Wizard \cup Setter -> WriterRow]
  BY <1>1 DEF SetupTyped
<1> QED
  BY <1>1, <1>2, <1>3 DEF SetupTyped, WizardsGood

\* A step of one process that fills nothing and empties nothing leaves what is meant.
LEMMA MeantStays ==
  ASSUME SetupIInv, NEW p \in Wizard \cup Setter, text' = text, meant' = meant,
         NEW mine \in WriterRow, writer' = [writer EXCEPT ![p] = mine],
         mine.at # "idle" => mine.todo # <<>>, mine.at # "fill",
         writer[p].at = "fill" => raced', raced => raced'
  PROVE  WritersBusy' /\ MeantKept'
<1>1. SetupTyped /\ WritersBusy /\ MeantKept
  BY DEF SetupIInv
<1>2. writer \in [Wizard \cup Setter -> WriterRow]
  BY <1>1 DEF SetupTyped
<1>3. \A q \in Wizard \cup Setter : writer'[q] = IF q = p THEN mine ELSE writer[q]
  BY <1>2
<1>4. WritersBusy'
  BY <1>1, <1>3 DEF WritersBusy
<1>5. MeantKept'
  <2> SUFFICES ASSUME ~raced'  PROVE MeantKept'
    BY DEF MeantKept
  <2>1. \A q \in Wizard \cup Setter : writer'[q].at = "fill" <=> writer[q].at = "fill"
    BY <1>3
  <2>2. \A q \in Wizard \cup Setter : writer[q].at = "fill" => writer'[q] = writer[q]
    BY <1>3
  <2>3. ~raced
    OBVIOUS
  <2> QED
    BY <1>1, <2>1, <2>2, <2>3 DEF MeantKept
<1> QED
  BY <1>4, <1>5

\* A process's own row of the writers, and what it is told to do.
LEMMA WriterTyped ==
  ASSUME SetupIInv, NEW p \in Wizard \cup Setter
  PROVE  /\ writer[p] \in WriterRow /\ text \in [Scope -> Text] /\ writer[p].scope \in Scope
         /\ text[writer[p].scope] \in Text /\ wizard \in [Wizard -> WizardRow] /\ raced \in BOOLEAN
         /\ meant \in [Scope -> [Key -> Reading]] /\ ignored \in BOOLEAN
         /\ DOMAIN writer = Wizard \cup Setter
         /\ writer[p].at # "idle" => /\ writer[p].todo # <<>> /\ Len(writer[p].todo) \in Nat \ {0}
                                     /\ writer[p].todo[1].key \in Key
                                     /\ writer[p].todo[1].value \in Value \cup {Erase}
<1>1. SetupTyped /\ WritersBusy
  BY DEF SetupIInv
<1>2. writer[p] \in WriterRow /\ text \in [Scope -> Text] /\ wizard \in [Wizard -> WizardRow]
      /\ raced \in BOOLEAN /\ meant \in [Scope -> [Key -> Reading]] /\ ignored \in BOOLEAN
      /\ DOMAIN writer = Wizard \cup Setter
  BY <1>1 DEF SetupTyped
<1>3. writer[p].scope \in Scope /\ writer[p].todo \in Seq(Item)
  BY <1>2 DEF WriterRow
<1>4. ASSUME NEW todo \in Seq(Item), todo # <<>>
      PROVE  Len(todo) \in Nat \ {0} /\ todo[1].key \in Key /\ todo[1].value \in Value \cup {Erase}
  <2>1. Len(todo) \in Nat \ {0} /\ todo[1] \in Item
    BY <1>4
  <2> QED
    BY <2>1 DEF Item
<1> QED
  BY <1>1, <1>2, <1>3, <1>4 DEF WritersBusy

LEMMA ReadInPlaceKeeps ==
  ASSUME SetupIInv, NEW p \in Wizard \cup Setter, ReadInPlace(p)
  PROVE  SetupIInv'
<1> DEFINE me == writer[p]
           mine == [me EXCEPT !.at = "empty", !.raw = text[me.scope]]
<1>1. me \in WriterRow /\ me.at = "read" /\ me.scope \in Scope /\ text[me.scope] \in Text /\ me.todo # <<>>
      /\ wizard \in [Wizard -> WizardRow] /\ raced \in BOOLEAN /\ ignored \in BOOLEAN
  BY WriterTyped DEF ReadInPlace, Wri
<1>2. text' = text /\ meant' = meant /\ raced' = raced /\ wizard' = wizard /\ shell' = shell /\ ignored' = ignored
      /\ installed' = installed
  BY DEF ReadInPlace, RestStays, SystemStays
<1>3. writer' = [writer EXCEPT ![p] = mine]
  BY DEF ReadInPlace
<1>4. mine \in WriterRow /\ mine.at = "empty" /\ mine.scope = me.scope /\ mine.todo = me.todo
      /\ mine.raw = text[me.scope]
  BY <1>1 DEF WriterRow
<1> HIDE DEF mine
<1>5. ASSUME p \in Wizard  PROVE RowGood(wizard[p], mine, text, shell, ignored, installed)
  <2>1. RowGood(wizard[p], me, text, shell, ignored, installed)
    BY <1>5, RowTyped
  <2>2. StageGood(wizard[p], mine) /\ me.scope = wizard[p].scope
    BY <1>1, <1>4, <2>1 DEF RowGood, StageGood
  <2>3. SeesEnd(wizard[p], me, text, shell) => SeesEnd(wizard[p], mine, text, shell)
    BY <1>1, <1>4, <2>2 DEF SeesEnd, Restored
  <2> QED
    BY <2>1, <2>2, <2>3 DEF RowGood
<1>6. WritersBusy' /\ MeantKept'
  BY <1>1, <1>2, <1>3, <1>4, MeantStays
<1>7. SetupTyped' /\ WizardsGood'
  BY <1>1, <1>2, <1>3, <1>4, <1>5, TurnKeepsFiles
<1> QED
  BY <1>6, <1>7 DEF SetupIInv

LEMMA IdleTyped == Idle \in WriterRow /\ Idle.at = "idle"
  BY NoText DEF Idle, WriterRow, Scope

LEMMA RestTodo ==
  ASSUME NEW todo \in Seq(Item), Len(todo) > 1
  PROVE  Tail(todo) \in Seq(Item) /\ Tail(todo) # <<>>
<1>1. Len(todo) \in Nat /\ todo # <<>>
  OBVIOUS
<1>2. Tail(todo) \in Seq(Item) /\ Len(Tail(todo)) = Len(todo) - 1
  BY <1>1, HeadTailProperties
<1>3. Len(Tail(todo)) # 0
  BY <1>1, <1>2
<1> QED
  BY <1>2, <1>3, EmptySeq

LEMMA NextAssignmentKeeps ==
  ASSUME SetupIInv, NEW p \in Wizard \cup Setter, NextAssignment(p)
  PROVE  SetupIInv'
<1> DEFINE me == writer[p]
           next == [me EXCEPT !.at = "read", !.raw = <<>>, !.todo = Tail(@)]
<1>1. me \in WriterRow /\ me.at = "next" /\ me.scope \in Scope /\ me.todo # <<>> /\ Len(me.todo) \in Nat \ {0}
      /\ wizard \in [Wizard -> WizardRow] /\ raced \in BOOLEAN /\ ignored \in BOOLEAN /\ me.todo \in Seq(Item)
  BY WriterTyped DEF NextAssignment, Wri, WriterRow
<1>2. text' = text /\ meant' = meant /\ raced' = raced /\ wizard' = wizard /\ shell' = shell /\ installed' = installed
  BY DEF NextAssignment, RestStays
<1>3. ASSUME p \in Wizard
      PROVE  /\ RowGood(wizard[p], me, text, shell, ignored, installed)
             /\ Len(me.todo) = 1 /\ me.scope = wizard[p].scope
  <2>1. RowGood(wizard[p], me, text, shell, ignored, installed)
    BY <1>3, RowTyped
  <2>2. me.todo = <<Assignment("model", wizard[p].preview["model"])>> /\ me.scope = wizard[p].scope
    BY <1>1, <2>1 DEF RowGood, StageGood
  <2> HIDE DEF me
  <2> QED
    BY <2>1, <2>2
<1>4. CASE Len(me.todo) > 1
  <2>1. writer' = [writer EXCEPT ![p] = next] /\ ignored' = ignored
    BY <1>4 DEF NextAssignment
  <2>2. Tail(me.todo) \in Seq(Item) /\ Tail(me.todo) # <<>>
    BY <1>1, <1>4, RestTodo
  <2>3. next \in WriterRow /\ next.at = "read" /\ next.todo # <<>>
    BY <1>1, <2>2, NoText DEF WriterRow
  <2> HIDE DEF next
  <2>4. p \notin Wizard
    <3> SUFFICES ASSUME p \in Wizard  PROVE ~(Len(me.todo) > 1)
      BY <1>4
    <3>1. Len(me.todo) = 1
      BY <1>3
    <3> QED
      BY <3>1
  <2>5. WritersBusy' /\ MeantKept'
    BY <1>1, <1>2, <2>1, <2>3, MeantStays
  <2>6. SetupTyped' /\ WizardsGood'
    BY <1>1, <1>2, <2>1, <2>3, <2>4, TurnKeepsFiles
  <2> QED
    BY <2>5, <2>6 DEF SetupIInv
<1>5. CASE ~(Len(me.todo) > 1)
  <2>1. writer' = [writer EXCEPT ![p] = Idle]
        /\ ignored' \in {ignored, ignored \/ (me.ignores /\ me.scope = "local")}
    BY <1>5 DEF NextAssignment
  <2>2. ignored' \in BOOLEAN /\ (ignored => ignored')
    BY <1>1, <2>1
  <2>3. ASSUME p \in Wizard  PROVE RowGood(wizard'[p], Idle, text, shell, ignored', installed)
    <3>1. RowGood(wizard[p], me, text, shell, ignored, installed)
      BY <1>3, <2>3
    <3>2. StageGood(wizard[p], Idle) /\ SecretGood(wizard[p], ignored')
      BY <2>2, <3>1, IdleTyped DEF RowGood, StageGood, SecretGood
    <3>3. SeesEnd(wizard[p], me, text, shell) => SeesEnd(wizard[p], Idle, text, shell)
      BY <1>1, IdleTyped DEF SeesEnd, Restored
    <3> QED
      BY <1>2, <3>1, <3>2, <3>3 DEF RowGood
  <2>4. WritersBusy' /\ MeantKept'
    BY <1>1, <1>2, <2>1, IdleTyped, MeantStays
  <2>5. SetupTyped' /\ WizardsGood'
    BY <1>1, <1>2, <2>1, <2>2, <2>3, IdleTyped, TurnKeepsFiles
  <2> QED
    BY <2>4, <2>5 DEF SetupIInv
<1> QED
  BY <1>4, <1>5

LEMMA SetupDiesKeeps ==
  ASSUME SetupIInv, NEW p \in Wizard \cup Setter, SetupDies(p)
  PROVE  SetupIInv'
<1> DEFINE dead == [wizard[p] EXCEPT !.at = "done", !.says = "died"]
<1>1. wizard \in [Wizard -> WizardRow] /\ raced \in BOOLEAN /\ ignored \in BOOLEAN
  BY WriterTyped
<1>2. text' = text /\ meant' = meant /\ shell' = shell /\ installed' = installed /\ ignored' = ignored
      /\ writer' = [writer EXCEPT ![p] = Idle] /\ raced' = (raced \/ writer[p].at = "fill")
      /\ wizard' = IF p \in Wizard THEN [wizard EXCEPT ![p].at = "done", ![p].says = "died"] ELSE wizard
  BY DEF SetupDies, SystemStays
<1>3. ASSUME p \in Wizard
      PROVE  wizard' = [wizard EXCEPT ![p] = dead] /\ dead \in WizardRow /\ dead.at = "done" /\ dead.says = "died"
  <2>1. wizard[p] \in WizardRow
    BY <1>1, <1>3
  <2>2. dead \in WizardRow /\ dead.at = "done" /\ dead.says = "died"
    BY <2>1 DEF WizardRow
  <2>3. wizard' = [wizard EXCEPT ![p] = dead]
    BY <1>1, <1>2, <1>3
  <2> QED
    BY <2>2, <2>3
<1> HIDE DEF dead
<1>4. ASSUME p \in Wizard  PROVE RowGood(wizard'[p], Idle, text, shell, ignored', installed)
  <2>1. wizard'[p] = dead /\ wizard[p] \in WizardRow
    BY <1>1, <1>3, <1>4
  <2> QED
    BY <1>3, <1>4, <2>1, IdleTyped, StopIsGood
<1>5. wizard' \in [Wizard -> WizardRow] /\ \A w \in Wizard : w # p => wizard'[w] = wizard[w]
  BY <1>1, <1>2, <1>3
<1>6. raced' \in BOOLEAN /\ (writer[p].at = "fill" => raced') /\ (raced => raced')
  BY <1>1, <1>2
<1>7. WritersBusy' /\ MeantKept'
  BY <1>2, <1>6, IdleTyped, MeantStays
<1>8. SetupTyped' /\ WizardsGood'
  BY <1>1, <1>2, <1>4, <1>5, <1>6, IdleTyped, TurnKeepsFiles
<1> QED
  BY <1>7, <1>8 DEF SetupIInv

LEMMA SetUpOpencodeKeeps ==
  ASSUME SetupIInv, NEW w \in Wizard, SetUpOpencode(w)
  PROVE  SetupIInv'
<1> DEFINE me == wizard[w]
           new == [me EXCEPT !.at = "persist"]
           model == me.preview["model"]
           mine == [Idle EXCEPT !.at = "read", !.scope = me.scope, !.todo = <<Assignment("model", model)>>]
<1>1. me \in WizardRow /\ me.at = "provider" /\ RowGood(me, writer[w], text, shell, ignored, installed)
      /\ me.engine \in {"opencode", "opencode2"} /\ ignored \in BOOLEAN /\ me.scope \in Scope
  BY RowTyped DEF SetUpOpencode, Wiz
<1>2. text' = text /\ meant' = meant /\ raced' = raced /\ shell' = shell /\ installed' = installed
      /\ ignored' = ignored /\ RestStays /\ SystemStays
  BY DEF SetUpOpencode, RestStays, SystemStays
<1>3. writer[w].at = "idle"
  BY <1>1, IdleBefore
<1>4. CASE WizGoes(w, ProviderFails(me)) /\ UNCHANGED writer
  <2>1. FilesStay
    BY <1>2, <1>4 DEF FilesStay
  <2> QED
    BY <1>1, <1>2, <1>3, <1>4, <2>1, ProviderKeeps
<1>5. CASE (me.engine = "opencode" => installed # "absent") /\ WizGoes(w, new) /\ writer' = [writer EXCEPT ![w] = mine]
  <2>1. new \in WizardRow /\ new.at = "persist" /\ new.failed = me.failed /\ new.preview = me.preview
        /\ new.edits = me.edits /\ new.scope = me.scope /\ new.touched = me.touched /\ new.loaded = me.loaded
        /\ new.says = me.says /\ new.engine = me.engine
    BY <1>1 DEF WizardRow, Applied
  <2>2. model \in Value /\ wizard' = [wizard EXCEPT ![w] = new] /\ wizard \in [Wizard -> WizardRow] /\ raced \in BOOLEAN
    BY <1>1, <1>5, WriterTyped DEF RowGood, StageGood, WizGoes, Early
  <2> HIDE DEF new, model
  <2>3. Assignment("model", model) \in Item
    BY <2>2 DEF Item, Assignment, Key
  <2>4. <<Assignment("model", model)>> \in Seq(Item) /\ <<Assignment("model", model)>> # <<>>
    BY <2>3
  <2>5. mine \in WriterRow /\ mine.at = "read" /\ mine.scope = me.scope /\ mine.todo = <<Assignment("model", model)>>
    BY <1>1, <2>4, IdleTyped DEF WriterRow
  <2> HIDE DEF mine
  <2>6. StageGood(new, mine) /\ SecretGood(new, ignored) /\ EngineGood(new, installed)
    BY <1>1, <1>5, <2>1, <2>2, <2>5 DEF model, RowGood, StageGood, SecretGood, EngineGood, Early, Planned, Writing, Applied
  <2>7. ~new.touched => SeesFirst(new, text) /\ SeesPlan(new, text, shell) /\ SeesEnd(new, mine, text, shell)
    BY <1>1, <1>3, <2>1, <2>5 DEF RowGood, StageGood, SeesFirst, SeesPlan, SeesEnd, Restored, Planned, Applied
  <2>8. RowGood(wizard'[w], mine, text, shell, ignored', installed)
    BY <1>2, <2>2, <2>6, <2>7 DEF RowGood
  <2>9. wizard' \in [Wizard -> WizardRow] /\ \A v \in Wizard : v # w => wizard'[v] = wizard[v]
    BY <2>1, <2>2
  <2>10. WritersBusy' /\ MeantKept'
    BY <1>2, <1>3, <1>5, <2>4, <2>5, MeantStays
  <2>11. SetupTyped' /\ WizardsGood'
    BY <1>1, <1>2, <1>5, <2>2, <2>5, <2>8, <2>9, TurnKeepsFiles
  <2> QED
    BY <2>10, <2>11 DEF SetupIInv
<1> QED
  BY <1>4, <1>5 DEF SetUpOpencode

-----------------------------------------------------------------------------
(* Commands that rewrite a file in place, and deaths                       *)

LEMMA TouchedRows ==
  ASSUME NEW p, NEW s
  PROVE  TouchedBy(p, s) = [w \in Wizard |-> IF w = p THEN wizard[w] ELSE Touch(wizard[w], s)]
  BY DEF TouchedBy, Exposed, Touch, ExposedRow

LEMMA RenameEnvKeeps ==
  ASSUME SetupIInv, NEW w \in Wizard, RenameEnv(w)
  PROVE  SetupIInv'
<1> DEFINE me == wizard[w]
           s == me.scope
           lines == Patched(me.base, me.edits)
           on == [me EXCEPT !.at = "hosts", !.base = <<>>]
           off == [me EXCEPT !.at = "hosts", !.base = <<>>, !.failed = {"env"}]
<1>1. me \in WizardRow /\ me.at = "rename" /\ RowGood(me, writer[w], text, shell, ignored, installed)
      /\ s \in Scope /\ text \in [Scope -> Text] /\ me.base \in Text /\ me.edits \in [Key -> Change]
      /\ writer[w] \in WriterRow
  BY RowTyped DEF RenameEnv, Wiz, WizardRow
<1>2. writer' = writer /\ RestStays /\ SystemStays /\ shell' = shell /\ ignored' = ignored /\ installed' = installed
  BY DEF RenameEnv, RestStays, SystemStays
<1>3. writer[w].at = "idle"
  BY <1>1, IdleBefore
<1>4. wizard \in [Wizard -> WizardRow] /\ raced \in BOOLEAN /\ meant \in [Scope -> [Key -> Reading]]
      /\ writer \in [Wizard \cup Setter -> WriterRow] /\ MeantKept /\ WritersBusy
  BY DEF SetupIInv, SetupTyped
<1>5. CASE WizGoes(w, off) /\ text' = text /\ meant' = meant /\ raced' = raced
  <2>1. off \in WizardRow /\ off.at = "hosts" /\ "env" \in off.failed /\ off.preview = me.preview
        /\ off.loaded = me.loaded /\ off.says = me.says /\ off.engine = me.engine
    BY <1>1, NoText DEF WizardRow, Applied, Failure
  <2>2. FilesStay
    BY <1>2, <1>5 DEF FilesStay
  <2> HIDE DEF off
  <2>3. RowGood(off, writer[w], text, shell, ignored, installed)
    BY <1>1, <1>3, <2>1 DEF RowGood, StageGood, SecretGood, EngineGood, SeesFirst, SeesPlan, SeesEnd,
                            Early, Planned, Writing, Applied
  <2> QED
    BY <1>2, <1>5, <2>1, <2>2, <2>3, CalmKeeps
<1>6. CASE /\ text' = [text EXCEPT ![s] = lines]
           /\ meant' = [meant EXCEPT ![s] = [k \in Key |-> CASE me.edits[k] = Keep -> meant[s][k]
                                                             [] me.edits[k] = Erase -> Absent [] OTHER -> me.edits[k]]]
           /\ raced' = (raced \/ text[s] # me.base \/ Emptied(s))
           /\ wizard' = [TouchedBy(w, s) EXCEPT ![w] = on]
  <2>1. on \in WizardRow /\ on.at = "hosts" /\ on.failed = me.failed /\ on.preview = me.preview
        /\ on.edits = me.edits /\ on.scope = me.scope /\ on.touched = me.touched /\ on.loaded = me.loaded
        /\ on.says = me.says /\ on.engine = me.engine
    BY <1>1, NoText DEF WizardRow, Applied
  <2> HIDE DEF on
  <2>2. lines \in Text /\ \A k \in Key : Says(lines, k) = Told(me.edits[k], Says(me.base, k))
    BY <1>1, PatchedSays
  <2>3. text' \in [Scope -> Text]
    BY <1>1, <1>6, <2>2
  <2>4. ~me.touched => \A k \in Key : Wins(shell, text', k) = me.preview[k]
    BY <1>1, <1>6 DEF RowGood, SeesPlan, Promised
  <2>5. StageGood(on, writer[w]) /\ SecretGood(on, ignored) /\ EngineGood(on, installed)
    BY <1>1, <1>3, <2>1 DEF RowGood, StageGood, SecretGood, EngineGood, Early, Planned, Writing, Applied
  <2>6. ~on.touched => SeesFirst(on, text') /\ SeesPlan(on, text', shell) /\ SeesEnd(on, writer[w], text', shell)
    <3>1. me.loaded = Absent /\ me.says = "none"
      BY <1>1 DEF RowGood, StageGood, Writing
    <3> QED
      BY <1>3, <2>1, <2>4, <3>1 DEF SeesFirst, SeesPlan, SeesEnd, Restored, Planned
  <2>7. RowGood(on, writer[w], text', shell, ignored, installed)
    BY <2>5, <2>6 DEF RowGood
  <2> DEFINE told == [k \in Key |-> CASE me.edits[k] = Keep -> meant[s][k]
                                      [] me.edits[k] = Erase -> Absent [] OTHER -> me.edits[k]]
  <2>8. \A k \in Key : told[k] = Told(me.edits[k], meant[s][k])
    BY SetupAssumption DEF Told, Keep, Erase
  <2>9. told \in [Key -> Reading]
    <3>1. \A k \in Key : Told(me.edits[k], meant[s][k]) \in Reading
      BY <1>1, <1>4 DEF Told, Change, Reading
    <3> QED
      BY <2>8, <3>1
  <2> HIDE DEF told
  <2>10. meant' = [meant EXCEPT ![s] = told]
    BY <1>6 DEF told
  <2>11. meant' \in [Scope -> [Key -> Reading]] /\ raced' \in BOOLEAN
    BY <1>1, <1>4, <1>6, <2>9, <2>10
  <2>12. writer' = [writer EXCEPT ![w] = writer[w]]
    BY <1>2, <1>4
  <2>13. wizard' = [v \in Wizard |-> wizard'[v]]
         /\ \A v \in Wizard : wizard'[v] = IF v = w THEN on ELSE Touch(wizard[v], s)
    BY <1>6, TouchedRows
  <2>14. SetupTyped' /\ WizardsGood'
    BY <1>1, <1>2, <1>6, <2>1, <2>2, <2>7, <2>11, <2>12, <2>13, LandingKeeps
  <2>15. MeantKept'
    <3> SUFFICES ASSUME ~raced'  PROVE MeantKept'
      BY DEF MeantKept
    <3>1. ~raced /\ text[s] = me.base /\ ~Emptied(s)
      BY <1>6
    <3>2. \A p \in Wizard \cup Setter : ~(writer[p].at = "fill" /\ writer[p].scope = s)
      BY <1>4, <3>1 DEF Emptied
    <3>3. \A k \in Key : Says(text[s], k) = meant[s][k]
      BY <1>1, <1>4, <3>1, <3>2 DEF MeantKept
    <3>4. \A k \in Key : Says(text'[s], k) = meant'[s][k]
      BY <1>1, <1>4, <1>6, <2>2, <2>8, <2>10, <3>1, <3>3
    <3>5. \A r \in Scope : r # s => text'[r] = text[r] /\ meant'[r] = meant[r]
      BY <1>1, <1>4, <1>6, <2>10
    <3>6. \A p \in Wizard \cup Setter : writer[p].scope \in Scope
      BY <1>4 DEF WriterRow
    <3> QED
      BY <1>2, <1>4, <3>1, <3>2, <3>4, <3>5, <3>6 DEF MeantKept
  <2>16. WritersBusy'
    BY <1>2, <1>4 DEF WritersBusy
  <2> QED
    BY <2>14, <2>15, <2>16 DEF SetupIInv
<1> QED
  BY <1>5, <1>6 DEF RenameEnv

LEMMA EmptyFileKeeps ==
  ASSUME SetupIInv, NEW p \in Wizard \cup Setter, EmptyFile(p)
  PROVE  SetupIInv'
<1> DEFINE me == writer[p]
           s == me.scope
           next == [me EXCEPT !.at = "next"]
           fill == [me EXCEPT !.at = "fill"]
<1>1. me \in WriterRow /\ me.at = "empty" /\ s \in Scope /\ text \in [Scope -> Text] /\ text[s] \in Text
      /\ me.todo # <<>> /\ wizard \in [Wizard -> WizardRow] /\ raced \in BOOLEAN /\ ignored \in BOOLEAN
      /\ meant \in [Scope -> [Key -> Reading]]
  BY WriterTyped DEF EmptyFile, Wri
<1>2. meant' = meant /\ shell' = shell /\ ignored' = ignored /\ installed' = installed
  BY DEF EmptyFile, RestStays, SystemStays
<1>3. next \in WriterRow /\ next.at = "next" /\ next.todo = me.todo
  BY <1>1 DEF WriterRow
<1>4. fill \in WriterRow /\ fill.at = "fill" /\ fill.todo = me.todo /\ fill.scope = s /\ fill.raw = me.raw
  BY <1>1 DEF WriterRow
<1>5. ASSUME p \in Wizard
      PROVE  /\ RowGood(wizard[p], me, text, shell, ignored, installed) /\ ~Unchanged(p)
             /\ wizard[p] \in WizardRow /\ s = wizard[p].scope /\ wizard[p].at = "persist"
  <2>1. RowGood(wizard[p], me, text, shell, ignored, installed) /\ wizard[p] \in WizardRow
    BY <1>5, RowTyped
  <2>2. me.todo = <<Assignment("model", wizard[p].preview["model"])>> /\ s = wizard[p].scope
        /\ wizard[p].at = "persist" /\ wizard[p].preview["model"] \in Value
    BY <1>1, <2>1 DEF RowGood, StageGood, Early
  <2>3. me.todo[1].value \in Value
    BY <2>2 DEF Assignment
  <2> QED
    BY <2>1, <2>2, <2>3, SetupAssumption DEF Unchanged
<1>6. CASE Unchanged(p)
  <2>1. text' = text /\ raced' = raced /\ wizard' = wizard /\ writer' = [writer EXCEPT ![p] = next] /\ p \notin Wizard
    BY <1>5, <1>6 DEF EmptyFile
  <2> HIDE DEF next
  <2>2. WritersBusy' /\ MeantKept'
    BY <1>1, <1>2, <1>3, <2>1, MeantStays
  <2>3. SetupTyped' /\ WizardsGood'
    BY <1>1, <1>2, <1>3, <2>1, TurnKeepsFiles
  <2> QED
    BY <2>2, <2>3 DEF SetupIInv
<1>7. CASE ~Unchanged(p)
  <2>1. /\ text' = [text EXCEPT ![s] = <<>>] /\ raced' = (raced \/ text[s] # me.raw \/ Emptied(s))
        /\ wizard' = TouchedBy(p, s) /\ writer' = [writer EXCEPT ![p] = fill]
    BY <1>7 DEF EmptyFile
  <2>2. text' \in [Scope -> Text] /\ raced' \in BOOLEAN
    BY <1>1, <2>1, NoText
  <2> HIDE DEF fill, next
  <2>3. ASSUME p \in Wizard  PROVE RowGood(wizard[p], fill, text', shell, ignored, installed)
    <3> DEFINE row == wizard[p]
    <3>1. RowGood(row, me, text, shell, ignored, installed) /\ s = row.scope /\ row.at = "persist"
      BY <1>5, <2>3
    <3>2. StageGood(row, fill)
      BY <1>1, <1>4, <3>1 DEF RowGood, StageGood
    <3>3. ~row.touched => SeesFirst(row, text') /\ SeesPlan(row, text', shell)
      BY <3>1 DEF SeesFirst, SeesPlan, Planned
    <3>4. ASSUME ~row.touched  PROVE SeesEnd(row, fill, text', shell)
      <4>1. SeesEnd(row, me, text, shell)
        BY <3>1, <3>4 DEF RowGood
      <4>2. "env" \notin row.failed => Restored(row, me, text) = text /\ me.raw = text[s]
        BY <1>1, <3>1, <4>1 DEF SeesEnd, Restored, Applied
      <4>3. "env" \notin row.failed => Restored(row, fill, text') = text
        <5>1. [[text EXCEPT ![s] = <<>>] EXCEPT ![s] = text[s]] = text
          BY <1>1
        <5> QED
          BY <1>4, <2>1, <3>1, <4>2, <5>1 DEF Restored
      <4> QED
        BY <1>4, <3>1, <4>1, <4>2, <4>3 DEF SeesEnd
    <3> QED
      BY <3>1, <3>2, <3>3, <3>4 DEF RowGood
  <2>4. wizard' = [w \in Wizard |-> wizard'[w]]
        /\ \A w \in Wizard : wizard'[w] = IF w = p THEN wizard[p] ELSE Touch(wizard[w], s)
    BY <2>1, TouchedRows
  <2>5. SetupTyped' /\ WizardsGood'
    <3>1. p \in Wizard => wizard[p] \in WizardRow /\ RowGood(wizard[p], fill, text', shell, ignored, installed)
      BY <1>5, <2>3
    <3>2. meant' \in [Scope -> [Key -> Reading]] /\ s \in Scope /\ <<>> \in Text /\ fill \in WriterRow
      BY <1>1, <1>2, <1>4, NoText
    <3> HIDE DEF s, me
    <3> QED
      BY <1>2, <2>1, <2>2, <2>4, <3>1, <3>2, LandingKeeps
  <2>6. SetupTyped /\ WritersBusy /\ MeantKept
    BY DEF SetupIInv
  <2>7. writer \in [Wizard \cup Setter -> WriterRow] /\ \A q \in Wizard \cup Setter : writer[q].scope \in Scope
    BY <2>6 DEF SetupTyped, WriterRow
  <2>8. \A q \in Wizard \cup Setter : writer'[q] = IF q = p THEN fill ELSE writer[q]
    BY <2>1, <2>7
  <2>9. WritersBusy'
    BY <1>1, <1>4, <2>6, <2>8 DEF WritersBusy
  <2>10. MeantKept'
    <3> SUFFICES ASSUME ~raced'  PROVE MeantKept'
      BY DEF MeantKept
    <3>1. ~raced /\ text[s] = me.raw /\ ~Emptied(s)
      BY <2>1
    <3>2. \A q \in Wizard \cup Setter : ~(writer[q].at = "fill" /\ writer[q].scope = s)
      BY <2>7, <3>1 DEF Emptied
    <3>3. \A k \in Key : Says(fill.raw, k) = meant[s][k]
      BY <1>1, <1>4, <2>6, <3>1, <3>2 DEF MeantKept
    <3>4. \A r \in Scope : r # s => text'[r] = text[r]
      BY <1>1, <2>1
    <3>5. ASSUME NEW q \in Wizard \cup Setter, NEW r \in Wizard \cup Setter, writer'[q].at = "fill",
                 writer'[r].at = "fill", writer'[q].scope = writer'[r].scope
          PROVE  q = r
      BY <1>4, <2>6, <2>8, <3>1, <3>2, <3>5 DEF MeantKept
    <3>6. ASSUME NEW q \in Wizard \cup Setter, writer'[q].at = "fill", NEW k \in Key
          PROVE  Says(writer'[q].raw, k) = meant'[writer'[q].scope][k]
      BY <1>2, <1>4, <2>6, <2>8, <3>1, <3>3, <3>6 DEF MeantKept
    <3>7. ASSUME NEW r \in Scope, \A q \in Wizard \cup Setter : ~(writer'[q].at = "fill" /\ writer'[q].scope = r),
                 NEW k \in Key
          PROVE  Says(text'[r], k) = meant'[r][k]
      <4>1. r # s
        BY <1>4, <2>8, <3>7
      <4>2. \A q \in Wizard \cup Setter : ~(writer[q].at = "fill" /\ writer[q].scope = r)
        BY <1>1, <2>8, <3>7
      <4> QED
        BY <1>2, <2>6, <3>1, <3>4, <4>1, <4>2 DEF MeantKept
    <3> QED
      BY <3>5, <3>6, <3>7 DEF MeantKept
  <2> QED
    BY <2>5, <2>9, <2>10 DEF SetupIInv
<1> QED
  BY <1>6, <1>7

\* What is in force stays so if it is assigned once more.
LEMMA WinsAssigned ==
  ASSUME NEW texts \in [Scope -> Text], NEW s \in Scope, NEW sh \in [Key -> Reading], NEW key \in Key, sh[key] = Absent,
         NEW v \in Value, Wins(sh, texts, key) = v,
         NEW new, new[s] = Assigned(texts[s], key, v), \A r \in Scope : r # s => new[r] = texts[r]
  PROVE  \A k \in Key : Wins(sh, new, k) = Wins(sh, texts, k)
<1> DEFINE a == Assigned(texts[s], key, v)
<1>1. texts[s] \in Text
  OBVIOUS
<1>2. a \in Text /\ \A j \in Key \ {key} : Says(a, j) = Says(texts[s], j)
  BY <1>1, AssignedSpares
<1>3. /\ Says(texts[s], key) = Absent => Says(a, key) = v
      /\ Says(texts[s], key) # Absent => Says(a, key) \in {v, Says(texts[s], key)}
  BY <1>1, AssignedSays
<1>4. new[s] = a /\ \A r \in Scope : r # s => new[r] = texts[r]
  OBVIOUS
<1> HIDE DEF a
<1>6. v # Absent
  BY SetupAssumption
<1>7. ASSUME NEW k \in Key, k # key  PROVE Wins(sh, new, k) = Wins(sh, texts, k)
  <2>1. \A r \in Scope : Says(new[r], k) = Says(texts[r], k)
    BY <1>2, <1>4, <1>7
  <2>2. Says(new["local"], k) = Says(texts["local"], k) /\ Says(new["global"], k) = Says(texts["global"], k)
    BY <2>1 DEF Scope
  <2> QED
    BY <2>2 DEF Wins
<1>8. Wins(sh, new, key) = v
  <2>1. CASE s = "local"
    <3>1. Says(texts["local"], key) # Absent => Says(texts["local"], key) = v
      BY DEF Wins
    <3>2. Says(new["local"], key) = v
      BY <1>3, <1>4, <2>1, <3>1
    <3> QED
      BY <1>6, <3>2 DEF Wins
  <2>2. CASE s = "global"
    <3>1. new["local"] = texts["local"]
      BY <1>4, <2>2 DEF Scope
    <3>2. CASE Says(texts["local"], key) # Absent
      BY <3>1, <3>2 DEF Wins
    <3>3. CASE Says(texts["local"], key) = Absent
      <4>1. Says(texts["global"], key) # Absent => Says(texts["global"], key) = v
        BY <3>3 DEF Wins
      <4>2. Says(new["global"], key) = v
        BY <1>3, <1>4, <2>2, <4>1
      <4> QED
        BY <1>6, <3>1, <3>3, <4>2 DEF Wins
    <3> QED
      BY <3>2, <3>3
  <2> QED
    BY <2>1, <2>2 DEF Scope
<1> QED
  BY <1>7, <1>8

LEMMA FillFileKeeps ==
  ASSUME SetupIInv, NEW p \in Wizard \cup Setter, FillFile(p)
  PROVE  SetupIInv'
<1> DEFINE me == writer[p]
           s == me.scope
           key == me.todo[1].key
           value == me.todo[1].value
           lines == NewText(p)
           next == [me EXCEPT !.at = "next"]
<1>1. me \in WriterRow /\ me.at = "fill" /\ s \in Scope /\ text \in [Scope -> Text] /\ me.raw \in Text
      /\ me.todo # <<>> /\ key \in Key /\ value \in Value \cup {Erase} /\ wizard \in [Wizard -> WizardRow]
      /\ raced \in BOOLEAN /\ meant \in [Scope -> [Key -> Reading]]
  BY WriterTyped DEF FillFile, Wri, WriterRow
<1>2. shell' = shell /\ ignored' = ignored /\ installed' = installed /\ raced' = raced
  BY DEF FillFile, RestStays, SystemStays
<1>3. next \in WriterRow /\ next.at = "next" /\ next.todo = me.todo
  BY <1>1 DEF WriterRow
<1>4. lines = Assigned(me.raw, key, value)
  BY DEF NewText
<1>5. lines \in Text /\ \A j \in Key \ {key} : Says(lines, j) = Says(me.raw, j)
  BY <1>1, <1>4, AssignedSpares
<1>6. /\ text' = [text EXCEPT ![s] = lines] /\ meant' = [meant EXCEPT ![s][key] = Says(lines, key)]
      /\ writer' = [writer EXCEPT ![p] = next]
      /\ wizard' = [w \in Wizard |-> wizard'[w]]
      /\ \A w \in Wizard : wizard'[w] = IF w = p THEN wizard[p] ELSE Touch(wizard[w], s)
  BY TouchedRows DEF FillFile
<1>7. text' \in [Scope -> Text]
  BY <1>1, <1>5, <1>6
<1>8. Says(lines, key) \in Reading
  BY <1>5, SaysSomething
<1>9. meant' \in [Scope -> [Key -> Reading]]
  BY <1>1, <1>6, <1>8
<1>10. ASSUME p \in Wizard  PROVE RowGood(wizard[p], next, text', shell, ignored, installed)
  <2> DEFINE row == wizard[p]
             model == row.preview["model"]
             raws == [text EXCEPT ![s] = me.raw]
  <2>1. RowGood(row, me, text, shell, ignored, installed)
    BY <1>10, RowTyped
  <2>2. row.at = "persist" /\ s = row.scope /\ me.todo = <<Assignment("model", model)>> /\ model \in Value
    BY <1>1, <2>1 DEF RowGood, StageGood, Early
  <2>3. key = "model" /\ value = model
    BY <2>2 DEF Assignment
  <2>4. StageGood(row, next)
    BY <1>1, <1>3, <2>1, <1>3 DEF RowGood, StageGood, WriterRow
  <2>5. ~row.touched => SeesFirst(row, text') /\ SeesPlan(row, text', shell)
    BY <2>2 DEF SeesFirst, SeesPlan, Planned
  <2>6. ASSUME ~row.touched  PROVE SeesEnd(row, next, text', shell)
    <3> SUFFICES ASSUME "env" \notin row.failed  PROVE SeesEnd(row, next, text', shell)
      BY DEF SeesEnd
    <3>1. SeesEnd(row, me, text, shell)
      BY <2>1, <2>6 DEF RowGood
    <3>2. \A k \in Key : Wins(shell, raws, k) = row.preview[k]
      BY <1>1, <2>2, <3>1 DEF SeesEnd, Restored, Applied
    <3>3. raws \in [Scope -> Text] /\ raws[s] = me.raw /\ text'[s] = lines
          /\ \A r \in Scope : r # s => text'[r] = raws[r]
      BY <1>1, <1>6
    <3>4. shell \in [Key -> Reading] /\ shell["model"] = Absent /\ "model" \in Key
      BY DEF SetupIInv, SetupTyped, Key
    <3> HIDE DEF raws, lines, key, value, row
    <3>5. Wins(shell, raws, key) = value /\ value \in Value
      BY <2>2, <2>3, <3>2, <3>4
    <3>6. \A k \in Key : Wins(shell, text', k) = row.preview[k]
      <4>1. shell[key] = Absent /\ key \in Key /\ s \in Scope
        BY <1>1, <2>3, <3>4
      <4>2. text'[s] = Assigned(raws[s], key, value) /\ \A r \in Scope : r # s => text'[r] = raws[r]
        BY <1>4, <3>3
      <4> HIDE DEF me, s, next
      <4>3. \A k \in Key : Wins(shell, text', k) = Wins(shell, raws, k)
        BY <3>3, <3>4, <3>5, <4>1, <4>2, WinsAssigned
      <4> QED
        BY <3>2, <4>3
    <3> QED
      BY <1>3, <2>2, <3>1, <3>6 DEF SeesEnd, Restored, Applied
  <2> QED
    BY <2>1, <2>4, <2>5, <2>6 DEF RowGood
<1>11. SetupTyped' /\ WizardsGood'
  <2>1. p \in Wizard => wizard[p] \in WizardRow /\ RowGood(wizard[p], next, text', shell, ignored, installed)
    BY <1>1, <1>10
  <2>2. s \in Scope /\ raced' \in BOOLEAN
    BY <1>1, <1>2
  <2> HIDE DEF s, me, lines, key, value, next
  <2> QED
    BY <1>2, <1>3, <1>5, <1>6, <1>9, <2>1, <2>2, LandingKeeps
<1> HIDE DEF lines, key, value
<1>12. SetupTyped /\ WritersBusy /\ MeantKept
  BY DEF SetupIInv
<1>13. writer \in [Wizard \cup Setter -> WriterRow] /\ \A q \in Wizard \cup Setter : writer[q].scope \in Scope
  BY <1>12 DEF SetupTyped, WriterRow
<1>14. \A q \in Wizard \cup Setter : writer'[q] = IF q = p THEN next ELSE writer[q]
  BY <1>6, <1>13
<1> HIDE DEF next
<1>15. WritersBusy'
  BY <1>1, <1>3, <1>12, <1>14 DEF WritersBusy
<1>16. MeantKept'
  <2> SUFFICES ASSUME ~raced'  PROVE MeantKept'
    BY DEF MeantKept
  <2>1. ~raced
    BY <1>2
  <2>2. \A q \in Wizard \cup Setter : q # p => ~(writer[q].at = "fill" /\ writer[q].scope = s)
    BY <1>1, <1>12, <2>1 DEF MeantKept
  <2>3. \A q \in Wizard \cup Setter : writer'[q].at = "fill" => q # p /\ writer'[q] = writer[q] /\ writer[q].scope # s
    BY <1>3, <1>14, <2>2
  <2>4. \A r \in Scope : r # s => text'[r] = text[r] /\ meant'[r] = meant[r]
    BY <1>1, <1>6
  <2>5. \A k \in Key : Says(text'[s], k) = meant'[s][k]
    <3>1. \A k \in Key : Says(me.raw, k) = meant[s][k]
      BY <1>1, <1>12, <2>1 DEF MeantKept
    <3>2. text'[s] = lines /\ \A k \in Key : meant'[s][k] = IF k = key THEN Says(lines, key) ELSE meant[s][k]
      BY <1>1, <1>6
    <3> QED
      BY <1>5, <3>1, <3>2
  <2>6. ASSUME NEW q \in Wizard \cup Setter, writer'[q].at = "fill", NEW k \in Key
        PROVE  Says(writer'[q].raw, k) = meant'[writer'[q].scope][k]
    BY <1>12, <1>13, <2>1, <2>3, <2>4, <2>6 DEF MeantKept
  <2>7. ASSUME NEW q \in Wizard \cup Setter, NEW r \in Wizard \cup Setter, writer'[q].at = "fill",
               writer'[r].at = "fill", writer'[q].scope = writer'[r].scope
        PROVE  q = r
    BY <1>12, <2>1, <2>3, <2>7 DEF MeantKept
  <2>8. ASSUME NEW r \in Scope, \A q \in Wizard \cup Setter : ~(writer'[q].at = "fill" /\ writer'[q].scope = r),
               NEW k \in Key
        PROVE  Says(text'[r], k) = meant'[r][k]
    <3>1. CASE r = s
      BY <2>5, <3>1
    <3>2. CASE r # s
      <4>1. \A q \in Wizard \cup Setter : ~(writer[q].at = "fill" /\ writer[q].scope = r)
        BY <1>1, <1>14, <2>8, <3>2
      <4> QED
        BY <1>12, <2>1, <2>4, <3>2, <4>1 DEF MeantKept
    <3> QED
      BY <3>1, <3>2
  <2> QED
    BY <2>6, <2>7, <2>8 DEF MeantKept
<1> QED
  BY <1>11, <1>15, <1>16 DEF SetupIInv

-----------------------------------------------------------------------------
(* The wizard keeps its promise                                            *)

LEMMA SetupIInvInit == SetupInit => SetupIInv
<1> SUFFICES ASSUME SetupInit  PROVE SetupIInv
  OBVIOUS
<1>1. text \in [Scope -> Text] /\ meant = [s \in Scope |-> [k \in Key |-> Says(text[s], k)]] /\ raced = FALSE
  BY SetupAssumption DEF SetupInit, FilesInit, Text
<1>2. shell \in [Key -> Reading] /\ (\A k \in Key \ {"cred"} : shell[k] = Absent)
      /\ ignored \in BOOLEAN /\ installed \in {"absent", "old", "good"}
  BY DEF SetupInit, SystemInit, Reading
<1>3. meant \in [Scope -> [Key -> Reading]]
  BY <1>1, SaysSomething
<1>4. ASSUME NEW s \in Scope, NEW i \in BOOLEAN, NEW e \in Engines
      PROVE  /\ Opened(s, i, e) \in WizardRow
             /\ Opened(s, i, e).at = "gate" /\ Opened(s, i, e).says = "none" /\ Opened(s, i, e).loaded = Absent
             /\ Opened(s, i, e).failed = {}
  <2>1. [k \in Key |-> Absent] \in [Key -> Reading] /\ Absent \in Reading /\ NoEdits \in [Key -> Change]
    BY DEF Reading, NoEdits, Change
  <2> QED
    BY <2>1, NoText DEF Opened, NewWizard, WizardRow, Early
<1>5. ASSUME NEW w \in Wizard
      PROVE  \E s \in Scope, i \in BOOLEAN, e \in Engines : wizard[w] = Opened(s, i, e)
  BY DEF SetupInit, WizardsInit
<1>6. ASSUME NEW w \in Wizard
      PROVE  wizard[w] \in WizardRow /\ wizard[w].at = "gate" /\ wizard[w].says = "none" /\ wizard[w].loaded = Absent
             /\ wizard[w].failed = {}
  BY <1>4, <1>5
<1>7. wizard \in [Wizard -> WizardRow]
  <2>1. wizard = [w \in Wizard |-> wizard[w]]
    BY DEF SetupInit, WizardsInit
  <2> QED
    BY <1>6, <2>1
<1>8. PICK command \in [Setter -> Commands] :
        writer = [p \in Wizard \cup Setter |-> IF p \in Wizard THEN Idle ELSE Ordered(command[p])]
  BY DEF SetupInit, WritersInit
<1>9. ASSUME NEW p \in Wizard \cup Setter
      PROVE  writer[p] \in WriterRow /\ writer[p].at \in {"idle", "read"} /\ (p \in Wizard => writer[p].at = "idle")
             /\ (writer[p].at = "read" => writer[p].todo # <<>>)
  <2>1. CASE p \in Wizard
    BY <1>8, <2>1, IdleTyped
  <2>2. CASE p \notin Wizard
    <3>1. command[p] \in Order
      BY <2>2, SetupAssumption
    <3>2. command[p].scope \in Scope /\ command[p].todo \in Seq(Item) /\ command[p].todo # <<>>
      BY <3>1 DEF Order, Item
    <3> DEFINE row == Ordered(command[p])
    <3>3. row \in WriterRow /\ row.at = "read" /\ row.todo = command[p].todo
      BY <3>2, IdleTyped DEF WriterRow, Ordered
    <3>4. writer[p] = row
      BY <1>8, <2>2
    <3> HIDE DEF row
    <3> QED
      BY <2>2, <3>2, <3>3, <3>4
  <2> QED
    BY <2>1, <2>2
<1>10. writer \in [Wizard \cup Setter -> WriterRow]
  <2>1. writer = [p \in Wizard \cup Setter |-> writer[p]]
    BY <1>8
  <2> QED
    BY <1>9, <2>1
<1>11. SetupTyped /\ WritersBusy /\ MeantKept
  <2>1. SetupTyped
    BY <1>1, <1>2, <1>3, <1>7, <1>10 DEF SetupTyped
  <2>2. WritersBusy
    BY <1>9 DEF WritersBusy
  <2>3. \A p \in Wizard \cup Setter : writer[p].at # "fill"
    BY <1>9
  <2>4. \A s \in Scope, k \in Key : Says(text[s], k) = meant[s][k]
    BY <1>1
  <2> QED
    BY <2>1, <2>2, <2>3, <2>4 DEF MeantKept
<1>12. ASSUME NEW w \in Wizard  PROVE RowGood(wizard[w], writer[w], text, shell, ignored, installed)
  BY <1>6, <1>9 DEF RowGood, StageGood, SecretGood, EngineGood, SeesFirst, SeesPlan, SeesEnd, Early, Planned,
                    Writing, Applied
<1> QED
  BY <1>11, <1>12 DEF SetupIInv, WizardsGood

LEMMA SetupIInvNext == SetupIInv /\ [SetupNext]_setupVars => SetupIInv'
<1> SUFFICES ASSUME SetupIInv, [SetupNext]_setupVars  PROVE SetupIInv'
  OBVIOUS
<1>1. ASSUME NEW w \in Wizard, SetupStep(w)  PROVE SetupIInv'
  BY <1>1, GateKeeps, ReadStateKeeps, ReadHashKeeps, CollectKeeps, BuildPlanKeeps, ConfirmKeeps, IgnoreKeeps,
     CompareKeeps, ReadToPatchKeeps, RenameEnvKeeps, ApplyHostsKeeps, InstallEngineKeeps, LoadFilesKeeps,
     SetUpOmpKeeps, SetUpCrushKeeps, SetUpOpencodeKeeps, EndPersistKeeps, FinishKeeps
     DEF SetupStep
<1>2. ASSUME NEW p \in Wizard \cup Setter, WriterStep(p)  PROVE SetupIInv'
  BY <1>2, ReadInPlaceKeeps, EmptyFileKeeps, FillFileKeeps, NextAssignmentKeeps, SetupDiesKeeps DEF WriterStep
<1>3. CASE UNCHANGED setupVars
  <2>1. text' = text /\ shell' = shell /\ ignored' = ignored /\ installed' = installed /\ wizard' = wizard
        /\ writer' = writer /\ meant' = meant /\ raced' = raced
    BY <1>3 DEF setupVars
  <2> QED
    BY <2>1 DEF SetupIInv, SetupTyped, WritersBusy, MeantKept, WizardsGood
<1> QED
  BY <1>1, <1>2, <1>3 DEF SetupNext

LEMMA SetupIInvImplies == SetupIInv => SetupInv
<1> SUFFICES ASSUME SetupIInv  PROVE SetupInv
  OBVIOUS
<1>1. SetupTyped /\ MeantKept
  BY DEF SetupIInv
<1>2. DOMAIN writer = Wizard \cup Setter /\ writer \in [Wizard \cup Setter -> WriterRow] /\ text \in [Scope -> Text]
      /\ shell \in [Key -> Reading]
  BY <1>1 DEF SetupTyped
<1>3. SetupTypeOK
  <2>1. \A s \in Scope : \A n \in DOMAIN text[s] : text[s][n] \in Line
    <3> SUFFICES ASSUME NEW s \in Scope, NEW n \in DOMAIN text[s]  PROVE text[s][n] \in Line
      OBVIOUS
    <3>1. text[s] \in Text
      BY <1>2
    <3> HIDE DEF Text
    <3> QED
      BY <3>1, Positions
  <2>2. \A w \in Wizard : /\ wizard[w].says \in {"none", "refused", "cancelled", "ready", "incomplete", "died"}
                          /\ wizard[w].failed \subseteq {"gitignore", "env", "host", "reread", "install", "provider"}
    BY RowTyped DEF WizardRow, Failure
  <2>3. \A p \in DOMAIN writer : writer[p].at \in {"idle", "read", "empty", "fill", "next"}
    BY <1>2 DEF WriterRow
  <2> QED
    BY <2>1, <2>2, <2>3 DEF SetupTypeOK
<1>4. OthersSurvive
  BY <1>1, <1>2 DEF OthersSurvive, MeantKept, Emptied
<1>5. ASSUME NEW w \in Wizard, wizard[w].says \in {"ready", "incomplete"}, "env" \notin wizard[w].failed,
             ~wizard[w].touched
      PROVE  /\ \A k \in Key : InForce(text, k) = wizard[w].preview[k]
             /\ wizard[w].says = "ready" => wizard[w].preview["cred"] # Absent
  <2>1. RowGood(wizard[w], writer[w], text, shell, ignored, installed)
    BY RowTyped
  <2>2. wizard[w].at = "done" /\ writer[w].at = "idle"
    BY <1>5, <2>1 DEF RowGood, StageGood
  <2>3. SeesEnd(wizard[w], writer[w], text, shell)
    BY <1>5, <2>1 DEF RowGood
  <2>4. \A k \in Key : Wins(shell, text, k) = wizard[w].preview[k]
    BY <1>5, <2>2, <2>3 DEF SeesEnd, Restored
  <2>5. wizard[w].says = "ready" => wizard[w].preview["cred"] # Absent
    BY <1>5, <2>3 DEF SeesEnd
  <2> QED
    BY <1>2, <2>4, <2>5, InForceWins
<1>6. ConfirmedHolds
  BY <1>5 DEF ConfirmedHolds
<1>7. SecretsAreIgnored
  <2>1. \A w \in Wizard : SecretGood(wizard[w], ignored)
    BY RowTyped DEF RowGood
  <2> QED
    BY <2>1 DEF SecretsAreIgnored, SecretGood, Applied
<1>8. ReadyIsReady
  <2> SUFFICES ASSUME NEW w \in Wizard, wizard[w].says = "ready", ~wizard[w].touched
               PROVE  /\ InForce(text, "cred") # Absent
                      /\ wizard[w].engine = "omp" => installed = "good"
                      /\ wizard[w].engine = "opencode" => installed # "absent"
    BY DEF ReadyIsReady
  <2>1. EngineGood(wizard[w], installed)
    BY RowTyped DEF RowGood
  <2>2. wizard[w].failed = {}
    BY <2>1 DEF EngineGood
  <2>3. InForce(text, "cred") # Absent
    <3>1. "cred" \in Key
      BY DEF Key
    <3> QED
      BY <1>5, <2>2, <3>1
  <2> QED
    BY <2>1, <2>2, <2>3 DEF EngineGood
<1> QED
  BY <1>3, <1>4, <1>6, <1>7, <1>8 DEF SetupInv

(* The wizard keeps its promise, whatever the env files hold, however many *)
(* wizards and commands run beside it and wherever they die: what is       *)
(* confirmed is in force once everything is applied, no key changes that   *)
(* nobody was told to change, no credential stays where git would take it, *)
(* and ready means ready (runSetupWizard, applySetupPlan, applyEnvPatch,   *)
(* runSet, runCoderSetupUnlocked).                                         *)
THEOREM WhatIsConfirmedIsInForce == SetupSpec => []SetupInv
<1>1. SetupInit => SetupIInv
  BY SetupIInvInit
<1>2. SetupIInv /\ [SetupNext]_setupVars => SetupIInv'
  BY SetupIInvNext
<1>3. SetupIInv => SetupInv
  BY SetupIInvImplies
<1> QED
  BY <1>1, <1>2, <1>3, PTL DEF SetupSpec
=============================================================================
