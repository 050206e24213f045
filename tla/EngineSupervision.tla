--------------------------- MODULE EngineSupervision ---------------------------
(***************************************************************************)
(* One engine process under spawnEngine or spawnCrush                      *)
(* (src/src/commands/coder.js): the call, the sources that may end it      *)
(* early (deadline, caller's abort, host signal, rate limit, output        *)
(* limit), the escalation to SIGKILL, the clean-up of the process group    *)
(* after the leader's exit, and what is reported of it all.                *)
(*                                                                         *)
(* JavaScript runs one callback at a time, so a callback is one action.    *)
(* The engine's leader, and one descendant that stands for all, live their *)
(* own lives in between.  That the group's number is given to strangers    *)
(* once the group is empty is `reused`: they answer EPERM.                 *)
(***************************************************************************)
CONSTANTS
  SignalDenied,   \* the system may refuse to signal a group with its leader in it
  ProbeDenied,    \* the system refuses signal 0 to a group
  Escapes         \* a descendant may leave the group and keep the engine's stdout

ASSUME FlagAssumption ==
  {SignalDenied, ProbeDenied, Escapes} \subseteq BOOLEAN

VARIABLES
  \* the operating system
  leader,       \* the direct child, whose pid names the group
  exit,         \* how the leader ended
  descendant,   \* quiet and piped ones are in the group; piped ones hold stdout
  slain,        \* SIGKILL was sent to the group
  reused,       \* the group's number names somebody else's group
  \* the call
  crush,        \* of spawnCrush, not of spawnEngine
  call,         \* of the promise: pending, resolved, or rejected for a reason
  settled, armed, grace, cleanup, closed,
  cause,        \* terminationCause
  timedOut, rateLimited, overLimit, aborted,
  interrupted   \* history: Triss asked the running engine to end

system == <<leader, exit, descendant, slain, reused>>
flags == <<timedOut, rateLimited, overLimit, aborted>>
vars == <<crush, system, call, settled, armed, grace, cleanup, closed, cause, flags, interrupted>>

Causes == {"none", "deadline", "caller_abort", "host_signal",
           "provider_rate_limit", "output_limit"}

TypeOK ==
  /\ leader \in {"none", "failed", "alive", "zombie", "reaped"}
  /\ exit \in {"none", "zero", "nonzero", "signal"}
  /\ descendant \in {"none", "quiet", "piped", "escaped"}
  /\ call \in {"idle", "pending", "resolved", "cancelled", "unspawned", "unverified", "uncaught"}
  /\ grace \in {"unset", "set", "cleared", "fired"}
  /\ cleanup \in {"none", "term", "kill", "gone", "failed"}
  /\ cause \in Causes
  /\ {crush, slain, reused, settled, armed, closed, timedOut, rateLimited, overLimit,
      aborted, interrupted} \subseteq BOOLEAN

Init ==
  /\ leader = "none" /\ exit = "none" /\ descendant = "none"
  /\ slain = FALSE /\ reused = FALSE
  /\ crush \in BOOLEAN
  /\ call = "idle" /\ settled = FALSE /\ armed = FALSE
  /\ grace = "unset" /\ cleanup = "none" /\ closed = FALSE
  /\ cause = "none"
  /\ timedOut = FALSE /\ rateLimited = FALSE /\ overLimit = FALSE
  /\ aborted \in BOOLEAN
  /\ interrupted = FALSE

Descends == descendant \in {"quiet", "piped"}
GroupLives == leader \in {"alive", "zombie"} \/ Descends

-----------------------------------------------------------------------------
(* The processes.                                                          *)

DescendantStarts ==
  /\ leader = "alive"
  /\ descendant = "none"
  /\ descendant' \in {"quiet", "piped"}
  /\ UNCHANGED <<leader, exit, slain, reused, call, settled, armed, grace,
                 cleanup, closed, cause, flags, interrupted>>

DescendantLeaves ==
  /\ Escapes
  /\ Descends
  /\ ~slain
  /\ descendant' = "escaped"
  /\ UNCHANGED <<leader, exit, slain, reused, call, settled, armed, grace,
                 cleanup, closed, cause, flags, interrupted>>

DescendantEnds ==
  /\ descendant # "none"
  /\ descendant' = "none"
  /\ UNCHANGED <<leader, exit, slain, reused, call, settled, armed, grace,
                 cleanup, closed, cause, flags, interrupted>>

LeaderEnds ==
  /\ leader = "alive"
  /\ leader' = "zombie"
  /\ exit' \in {"zero", "nonzero", "signal"}
  /\ UNCHANGED <<descendant, slain, reused, call, settled, armed, grace,
                 cleanup, closed, cause, flags, interrupted>>

NumberReused ==
  /\ leader = "reaped"
  /\ ~Descends
  /\ reused' = TRUE
  /\ UNCHANGED <<leader, exit, descendant, slain, call, settled, armed, grace,
                 cleanup, closed, cause, flags, interrupted>>

-----------------------------------------------------------------------------
(* killProcessGroup, strict: a signal is sent, or there is nobody to send  *)
(* it to, or it fails.  After the leader's exit a refusal means a foreign  *)
(* group, that is nobody.                                                  *)

Sent == GroupLives
Nobody == ~GroupLives
Refused == SignalDenied /\ leader \in {"alive", "zombie"}

\* Signal 0.  A refusal is a living group unless the leader's number is free.
SeesGroup ==
  \/ Descends /\ ~ProbeDenied
  \/ ~Descends /\ reused
SeesNobody ==
  \/ ~Descends
  \/ ProbeDenied /\ ~reused

-----------------------------------------------------------------------------
(* The executor.                                                           *)

Start ==
  /\ call = "idle"
  /\ IF aborted
     THEN call' = "cancelled" /\ UNCHANGED <<leader, settled, armed>>
     ELSE \/ call' = "unspawned" /\ UNCHANGED <<leader, settled, armed>>
          \/ /\ call' = "pending"
             /\ leader' \in {"alive", "failed"}
             /\ armed' = TRUE
             /\ UNCHANGED settled
  /\ UNCHANGED <<exit, descendant, slain, reused, grace, cleanup, closed,
                 cause, flags, interrupted>>

\* disarmExecutionSources: only the first time.
Disarm ==
  /\ armed' = FALSE
  /\ grace' = IF armed /\ grace = "set" THEN "cleared" ELSE grace

\* settle(reject, { cleanup: false }).
RejectNow(reason) ==
  IF settled
  THEN UNCHANGED <<settled, call, armed, grace>>
  ELSE settled' = TRUE /\ call' = reason /\ Disarm

\* scheduleSigkill: once, and not for a settled call.
ScheduleSigkill ==
  grace' = IF settled \/ grace # "unset" THEN grace ELSE "set"

\* requestGroupSignal("SIGTERM"), scheduleSigkill.
Terminate ==
  \/ /\ Refused
     /\ RejectNow("unverified")
     /\ UNCHANGED interrupted
  \/ /\ Sent \/ Nobody
     /\ ScheduleSigkill
     /\ interrupted' = (interrupted \/ leader = "alive")
     /\ UNCHANGED <<settled, call, armed>>

First(c) == cause' = IF cause = "none" THEN c ELSE cause

\* A bug: the deadline asks once and never insists.
DeadlineOnce ==
  /\ armed
  /\ ~timedOut
  /\ timedOut' = TRUE
  /\ First("deadline")
  /\ UNCHANGED <<system, cleanup, closed, rateLimited, overLimit, aborted,
                 settled, call, armed, grace, interrupted>>

Deadline ==
  /\ armed
  /\ ~timedOut
  /\ timedOut' = TRUE
  /\ First("deadline")
  /\ Terminate
  /\ UNCHANGED <<system, cleanup, closed, rateLimited, overLimit, aborted>>

\* The log watchdog of spawnEngine.
Watchdog ==
  /\ ~crush
  /\ armed
  /\ ~settled
  /\ ~rateLimited
  /\ rateLimited' = TRUE
  /\ First("provider_rate_limit")
  /\ Terminate
  /\ UNCHANGED <<system, cleanup, closed, timedOut, overLimit, aborted>>

\* A bug: the signal is forwarded and forgotten.
HostSignalForgotten ==
  /\ armed
  /\ UNCHANGED cause
  /\ Terminate
  /\ UNCHANGED <<system, cleanup, closed, flags>>

\* spawnCrush records the cause, spawnEngine does not.
HostSignal ==
  /\ armed
  /\ IF crush THEN First("host_signal") ELSE UNCHANGED cause
  /\ Terminate
  /\ UNCHANGED <<system, cleanup, closed, flags>>

Abort ==
  /\ call # "idle"
  /\ ~aborted
  /\ aborted' = TRUE
  /\ IF armed
     THEN First("caller_abort") /\ Terminate
     ELSE UNCHANGED <<cause, settled, call, armed, grace, interrupted>>
  /\ UNCHANGED <<system, cleanup, closed, timedOut, rateLimited, overLimit>>

\* A rate limit on stdout; a settled call only remembers it.
LimitLine ==
  /\ ~crush
  /\ ~closed
  /\ leader \in {"alive", "zombie", "reaped"}
  /\ ~rateLimited
  /\ rateLimited' = TRUE
  /\ IF settled
     THEN UNCHANGED <<cause, settled, call, armed, grace, interrupted>>
     ELSE First("provider_rate_limit") /\ Terminate
  /\ UNCHANGED <<system, cleanup, closed, timedOut, overLimit, aborted>>

\* What a callback throws ends the host process.
Uncaught ==
  call' = "uncaught" /\ settled' = TRUE /\ armed' = FALSE /\ grace' = "cleared"

\* Too much output, spawnEngine: no cause is recorded.
OutputLimit ==
  /\ ~crush
  /\ ~closed
  /\ leader \in {"alive", "zombie", "reaped"}
  /\ ~overLimit
  /\ overLimit' = TRUE
  /\ Terminate
  /\ UNCHANGED <<system, cleanup, closed, timedOut, rateLimited, aborted, cause>>

\* foldLine runs unprotected in the stdout callback, after the output limit was
\* looked at: a line it does not expect (null, a second session id of OMP)
\* throws out of the callback.
FoldThrows ==
  /\ ~crush
  /\ ~closed
  /\ leader \in {"alive", "zombie", "reaped"}
  /\ \/ UNCHANGED <<overLimit, interrupted>>
     \/ /\ ~overLimit
        /\ overLimit' = TRUE
        /\ \/ Refused /\ UNCHANGED interrupted
           \/ (Sent \/ Nobody) /\ interrupted' = (interrupted \/ leader = "alive")
  /\ Uncaught
  /\ UNCHANGED <<system, cleanup, closed, timedOut, rateLimited, aborted, cause>>

\* Too much output, spawnCrush: the group is signalled outside of
\* requestGroupSignal; what it throws, nobody catches.
CrushOutputLimit ==
  /\ crush
  /\ ~closed
  /\ leader \in {"alive", "zombie", "reaped"}
  /\ ~overLimit
  /\ overLimit' = TRUE
  /\ First("output_limit")
  /\ \/ /\ Refused
        /\ Uncaught
        /\ UNCHANGED interrupted
     \/ /\ Sent \/ Nobody
        /\ ScheduleSigkill
        /\ interrupted' = (interrupted \/ leader = "alive")
        /\ UNCHANGED <<call, settled, armed>>
  /\ UNCHANGED <<system, cleanup, closed, timedOut, rateLimited, aborted>>

\* A bug: the grace timer repeats the signal that the engine has ignored.
AskAgain ==
  /\ grace = "set"
  /\ grace' = "fired"
  /\ UNCHANGED <<system, call, settled, armed, cleanup, closed, cause, flags, interrupted>>

\* The grace timer: requestGroupSignal("SIGKILL").
Escalate ==
  /\ grace = "set"
  /\ \/ /\ Refused
        /\ IF settled
           THEN UNCHANGED <<settled, call, armed>>
           ELSE settled' = TRUE /\ call' = "unverified" /\ armed' = FALSE
        /\ UNCHANGED slain
     \/ /\ Sent \/ Nobody
        /\ slain' = (slain \/ GroupLives)
        /\ UNCHANGED <<settled, call, armed>>
  /\ grace' = "fired"
  /\ UNCHANGED <<leader, exit, descendant, reused, cleanup, closed, cause, flags, interrupted>>

-----------------------------------------------------------------------------
(* The end of the child.                                                   *)

\* "error": the engine was not spawned.
SpawnFails ==
  /\ leader = "failed"
  /\ ~settled
  /\ RejectNow("unspawned")
  /\ UNCHANGED <<system, cleanup, closed, cause, flags, interrupted>>

\* A bug: what is left of the group is asked to end and not waited for.
ExitUnattended ==
  /\ leader = "zombie"
  /\ leader' = "reaped"
  /\ IF settled
     THEN UNCHANGED <<armed, grace, cleanup>>
     ELSE Disarm /\ cleanup' = "gone"
  /\ UNCHANGED <<exit, descendant, slain, reused, call, settled, closed,
                 cause, flags, interrupted>>

\* A bug: the deadline and the other sources stay armed until the close.
ExitArmed ==
  /\ leader = "zombie"
  /\ leader' = "reaped"
  /\ cleanup' = IF settled THEN cleanup ELSE IF Descends THEN "term" ELSE "gone"
  /\ UNCHANGED <<exit, descendant, slain, reused, call, settled, armed, grace,
                 closed, cause, flags, interrupted>>

\* "exit": the sources are disarmed, the rest of the group is asked to end.
Exit ==
  /\ leader = "zombie"
  /\ leader' = "reaped"
  /\ IF settled
     THEN UNCHANGED <<armed, grace, cleanup>>
     ELSE Disarm /\ cleanup' = IF Descends THEN "term" ELSE "gone"
  /\ UNCHANGED <<exit, descendant, slain, reused, call, settled, closed,
                 cause, flags, interrupted>>

\* terminateResidualGroup: nobody is left ...
CleanupGone ==
  /\ cleanup \in {"term", "kill"}
  /\ SeesNobody
  /\ cleanup' = "gone"
  /\ UNCHANGED <<system, call, settled, armed, grace, closed, cause, flags, interrupted>>

\* ... or somebody, after the first grace period ...
CleanupKill ==
  /\ cleanup = "term"
  /\ SeesGroup
  /\ IF Descends
     THEN slain' = TRUE /\ cleanup' = "kill"
     ELSE cleanup' = "gone" /\ UNCHANGED slain
  /\ UNCHANGED <<leader, exit, descendant, reused, call, settled, armed, grace,
                 closed, cause, flags, interrupted>>

\* A bug: after the last wait the group is taken for gone.
CleanupGivesUp ==
  /\ cleanup = "kill"
  /\ SeesGroup
  /\ cleanup' = "gone"
  /\ UNCHANGED <<system, call, settled, armed, grace, closed, cause, flags, interrupted>>

\* A bug: the failed clean-up rejects like a failed engine.
CleanupMislabelled ==
  /\ cleanup = "kill"
  /\ SeesGroup
  /\ cleanup' = "failed"
  /\ IF settled
     THEN call' = (IF call = "pending" THEN "unspawned" ELSE call) /\ UNCHANGED <<settled, armed, grace>>
     ELSE RejectNow("unspawned")
  /\ UNCHANGED <<system, closed, cause, flags, interrupted>>

\* ... and after the second.
CleanupFails ==
  /\ cleanup = "kill"
  /\ SeesGroup
  /\ cleanup' = "failed"
  /\ IF settled
     THEN call' = (IF call = "pending" THEN "unverified" ELSE call) /\ UNCHANGED <<settled, armed, grace>>
     ELSE RejectNow("unverified")
  /\ UNCHANGED <<system, closed, cause, flags, interrupted>>

\* "close": the leader is reaped and nobody has its stdout any more.
Close ==
  /\ leader = "reaped"
  /\ descendant \notin {"piped", "escaped"}
  /\ ~closed
  /\ closed' = TRUE
  /\ IF settled THEN UNCHANGED <<settled, armed, grace>> ELSE settled' = TRUE /\ Disarm
  /\ UNCHANGED <<system, call, cleanup, cause, flags, interrupted>>

Resolve ==
  /\ closed
  /\ call = "pending"
  /\ cleanup = "gone"
  /\ call' = "resolved"
  /\ UNCHANGED <<system, settled, armed, grace, cleanup, closed, cause, flags, interrupted>>

-----------------------------------------------------------------------------
Processes ==
  DescendantStarts \/ DescendantLeaves \/ DescendantEnds \/ LeaderEnds \/ NumberReused

\* No callback runs in a host process that an uncaught throw has ended.
HostRuns == call # "uncaught"

Sources ==
  /\ HostRuns
  /\ \/ Deadline \/ Watchdog \/ HostSignal \/ Abort
     \/ LimitLine \/ OutputLimit \/ FoldThrows \/ CrushOutputLimit

Ending ==
  /\ HostRuns
  /\ Escalate \/ SpawnFails \/ Exit \/ CleanupGone \/ CleanupKill \/ CleanupFails \/ Close \/ Resolve

Next ==
  /\ Processes \/ Start \/ Sources \/ Ending
  /\ UNCHANGED crush

Spec == Init /\ [][Next]_vars

(***************************************************************************)
(* Timers fire, child events and promise continuations are delivered, and  *)
(* the system ends what was sent SIGKILL.  Nothing else makes an engine    *)
(* end; a descendant that escaped the group may stay for ever.             *)
(***************************************************************************)
Fairness ==
  /\ WF_vars(Deadline /\ UNCHANGED crush)
  /\ WF_vars(Ending /\ UNCHANGED crush)
  /\ WF_vars(slain /\ LeaderEnds /\ UNCHANGED crush)

FairSpec == Spec /\ Fairness

-----------------------------------------------------------------------------
(* What is reported (deriveV2LifecycleFields).                             *)

ReportedStatus ==
  CASE timedOut -> "timeout"
    [] ~timedOut /\ (cause # "none" \/ exit = "signal") -> "killed"
    [] ~timedOut /\ cause = "none" /\ exit = "zero" -> "completed"
    [] OTHER -> "error"

-----------------------------------------------------------------------------
(* Properties.                                                             *)

\* Without a spawned leader there is no group, and no call fails for want of
\* an engine that was spawned.
SpawnInv ==
  /\ call = "idle" => leader = "none"
  /\ call \in {"cancelled", "unspawned"} => leader \in {"none", "failed"}
  /\ leader \in {"none", "failed"} => descendant = "none"

\* The clean-up begins with the exit, and finds the group gone for good.
CleanupInv ==
  /\ cleanup # "none" => leader = "reaped"
  /\ cleanup = "gone" => ~Descends
  /\ call = "resolved" => cleanup = "gone"

\* The sources are armed for a call that is not settled, until the exit.
SourcesInv ==
  /\ settled \/ leader \in {"none", "reaped"} => ~armed
  /\ call = "idle" => ~settled

\* What the call's outcome rests on (lines 4587-4603 and 4706-4743): the
\* engine was spawned, its leader was reaped before its group was cleaned up,
\* the group was seen empty before the call resolved, and nothing is armed
\* after the exit.
EngineInv == TypeOK /\ SpawnInv /\ CleanupInv /\ SourcesInv

\* No envelope is returned while a descendant of the engine may still write:
\* the call resolves only after the clean-up saw the group empty, however the
\* exit, the close and the clean-up's periods fall (lines 4587-4603).
ResolvedMeansGone == call = "resolved" => ~GroupLives

\* A rejection with any other code than the unverified clean-up's leads the
\* caller to abandon the session row and the worktree
\* (retainV2SessionAfterUnverifiedCleanup, line 6264): it must mean that
\* nothing of the engine is left.
RejectionIsHonest == GroupLives => call \notin {"cancelled", "unspawned"}

\* What Triss interrupted is reported as interrupted even when the engine
\* handles SIGTERM and exits zero: "The first cause wins atomically and is set
\* before sending any signal" (docs/reliable-delegation-contract-plan.md lines
\* 367-368).  Fails: spawnEngine records no cause for a host signal.
InterruptedIsReported ==
  call = "resolved" /\ interrupted => ReportedStatus \in {"killed", "timeout"}

\* spawnCrush keeps it for every source, in every order of the sources, the
\* exit and the clean-up (lines 4986-5011 and 5053-5059).
CrushReportsInterruption == crush => InterruptedIsReported

\* After the leader's exit no deadline, abort or host signal relabels the run
\* (lines 4736-4740); only output that was still buffered may add to it.
ExitIsFinal ==
  [][leader = "reaped" =>
       timedOut' = timedOut /\ cause' \in {cause, "provider_rate_limit", "output_limit"}]_vars

\* Every call that started ends, whatever the engine does with SIGTERM, unless
\* a descendant left the group and keeps the engine's stdout: with the sources
\* disarmed at the exit (line 4740) nothing bounds the wait for that one.  A
\* throw out of a callback ends the call with its host process.
EveryCallEnds == call = "pending" ~> call # "pending" \/ descendant = "escaped"

\* No engine is left running for good, though it ignores SIGTERM, unless the
\* call says so (the group refused a signal: unverified) or a throw out of a
\* callback, a line that foldLine rejects or spawnCrush's unprotected signal,
\* took the host process and with it every timer (lines 4615-4648, 4770, 5057).
EngineIsNotLeft ==
  leader = "alive" ~> leader # "alive" \/ call \in {"unverified", "uncaught"}

\* No grace timer "outlives settle()" (lines 4615-4621).  Fails: output that
\* arrives between exit and close arms one that nobody clears.
NoTimerOutlivesSettle == settled => grace # "set"
=============================================================================
