----------------------------- MODULE UpdateNotices -----------------------------
(***************************************************************************)
(* What the updater knows of newer releases, and who is told: the state    *)
(* file of src/src/update/cache.js under its lock (UpdateLock), between    *)
(* MCP servers that live for days (src/src/mcp/server.js), commands that   *)
(* check for at most about a second after they are done                    *)
(* (src/src/update/passive.js) and `triss update`                          *)
(* (src/src/commands/update.js).                                           *)
(*                                                                         *)
(* A moment is a number, 0 where the file says null.  The lock is held     *)
(* where a process is in one of its places; who dies there leaves a lock   *)
(* that the next one takes over.                                           *)
(***************************************************************************)
EXTENDS Integers

CONSTANTS Host, Command, Updater,
          Release, Running,          \* numbers; process -> the release it runs
          Fresh, Throttle, FailureBase, FailureMax, Retry,
          MaxTime, MaxReleases, MaxBack

ASSUME PeriodAssumption ==
  /\ {Fresh, Throttle, FailureBase, FailureMax, Retry} \subseteq Nat \ {0}
  /\ FailureBase <= FailureMax /\ FailureMax <= Fresh /\ Retry <= Fresh

Process == Host \cup Command \cup Updater
Channel == {"mcp", "cli"}

ASSUME NoticesAssumption ==
  /\ Release \subseteq Nat \ {0} /\ Running \in [Process -> Nat]
  /\ Host \cap Command = {} /\ Host \cap Updater = {} /\ Command \cap Updater = {}
  /\ MaxTime \in Nat \ {0} /\ MaxReleases \in Nat /\ MaxBack \in Nat

ChannelOf(p) == IF p \in Host THEN "mcp" ELSE "cli"

VARIABLES
  clock, published,
  releases, backs,   \* how often each has changed
  cache,             \* update-state.json
  proc,              \* process -> where it is and what it has read
  shown,             \* history: channel -> the last notice that was claimed
  early,             \* history: some claim repeated the one before it too soon
  eager,             \* history: some passive request was made too soon
  latest             \* history: the latest result that was written

noticeVars == <<clock, published, releases, backs, cache, proc, shown, early, eager, latest>>

-----------------------------------------------------------------------------
(* The state file                                                          *)

Nothing == [version |-> 0, at |-> 0]
EmptyCache == [checked |-> 0, next |-> 0, failures |-> 0, manifest |-> 0, told |-> [c \in Channel |-> Nothing]]

\* What the clock cannot have written yet is no state at all; the tolerance of five
\* minutes for skewed clocks is left out.
ValidAt(s, time) ==
  /\ s.checked <= time /\ \A c \in Channel : s.told[c].at <= time
  /\ s.next <= time + FailureMax

ReadCache(time) == IF ValidAt(cache, time) THEN cache ELSE EmptyCache

Due(s, time) ==
  IF s.next # 0 THEN time >= s.next \/ s.next > time + FailureMax
  ELSE s.checked = 0 \/ s.checked > time \/ time - s.checked >= Fresh

\* Doubled by every failure, five times at most.
Doublings == <<1, 2, 4, 8, 16, 32>>
FailureDelay(n) ==
  LET delay == FailureBase * Doublings[IF n < 6 THEN n ELSE 6] IN
  IF delay < FailureMax THEN delay ELSE FailureMax

Failed(s, time) == [s EXCEPT !.next = time + FailureDelay(s.failures + 1), !.failures = @ + 1]

\* An answer older than the one that is known clears the failures only.
Checked(s, version, time) ==
  [s EXCEPT !.next = 0, !.failures = 0,
            !.checked = IF time < @ THEN @ ELSE time,
            !.manifest = IF time < s.checked THEN @ ELSE version]

ShouldNotify(s, p, time) ==
  LET told == s.told[ChannelOf(p)] IN
  s.manifest > Running[p]
    /\ (told.version # s.manifest \/ told.at = 0 \/ time - told.at >= Throttle)

Marked(s, p, time) == [s EXCEPT !.told[ChannelOf(p)] = [version |-> s.manifest, at |-> time]]

\* How long a server sleeps.
NextDelay(s, time, again) ==
  LET left(n) == IF n > 0 THEN n ELSE 0 IN
  CASE Due(s, time) -> IF again THEN Retry ELSE 0
    [] ~Due(s, time) /\ s.next # 0 -> left(s.next - time)
    [] OTHER -> left(Fresh - (time - s.checked))

-----------------------------------------------------------------------------

NewProcess ==
  [at |-> "idle", began |-> 0, due |-> FALSE, seen |-> EmptyCache, next |-> EmptyCache,
   version |-> 0, answered |-> 0, left |-> 0, again |-> FALSE]

NoticesInit ==
  /\ clock = 1 /\ published \in Release /\ releases = 0 /\ backs = 0
  /\ cache = EmptyCache
  /\ proc = [p \in Process |-> NewProcess]
  /\ shown = [c \in Channel |-> Nothing] /\ early = FALSE /\ eager = FALSE
  /\ latest = Nothing

In(p, place) == proc[p].at = place
Goes(p, changed) == proc' = [proc EXCEPT ![p] = changed]
Moves(p, place) == Goes(p, [proc[p] EXCEPT !.at = place])
WorldStays == UNCHANGED <<clock, published, releases, backs>>
HistoryStays == UNCHANGED <<shown, early, eager, latest>>

Locked == {"claim", "mark", "recheck", "fetch", "record", "refail",
           "cli read", "cli fetch", "cli tell", "cli mark", "cli print", "cli save", "keep", "save"}
LockFree == \A p \in Process : proc[p].at \notin Locked

\* maxWaitMs 0: the lock is there for the taking, or its work is left to others.
TakeLock(p, inside, outside) ==
  \/ LockFree /\ Moves(p, inside)
  \/ ~LockFree /\ Moves(p, outside)

\* A rename puts all of the state, if it is a valid one and the disk lets it.
Puts(p) == /\ ValidAt(proc[p].next, clock) /\ cache' = proc[p].next
           /\ latest' = IF proc[p].answered # 0 /\ proc[p].answered >= latest.at
                        THEN [version |-> proc[p].version, at |-> proc[p].answered] ELSE latest

\* The claim of a notice, which only who wrote it shows, and only once.
Claims(p) ==
  LET before == shown[ChannelOf(p)]
      notice == [version |-> proc[p].next.manifest, at |-> proc[p].began]
      gap == IF notice.at > before.at THEN notice.at - before.at ELSE before.at - notice.at IN
  /\ shown' = [shown EXCEPT ![ChannelOf(p)] = notice]
  /\ early' = (early \/ (before.version = notice.version /\ gap < Throttle))

\* Asking too soon after an answer, or a failure, that is on record.
Asks == eager' = (eager \/ ~Due(cache, clock))

Answered(p, s, version, time) ==
  Goes(p, [proc[p] EXCEPT !.next = Checked(s, version, time), !.version = version, !.answered = time,
                          !.at = IF p \in Host THEN "record" ELSE "cli tell"])

-----------------------------------------------------------------------------
(* An MCP server: once initialized, and whenever its timer fires           *)

Initialized(h) ==
  /\ In(h, "idle") /\ Goes(h, [NewProcess EXCEPT !.at = "notify", !.seen = ReadCache(clock)])
  /\ UNCHANGED cache /\ WorldStays /\ HistoryStays

Notify(h) ==
  /\ In(h, "notify")
  /\ IF ShouldNotify(proc[h].seen, h, clock)
     THEN \/ LockFree /\ Goes(h, [proc[h] EXCEPT !.at = "claim", !.began = clock])
          \/ ~LockFree /\ Moves(h, "schedule")
     ELSE Moves(h, "schedule")
  /\ UNCHANGED cache /\ WorldStays /\ HistoryStays

\* claimUpdateNotice
Claim(h) ==
  LET s == ReadCache(clock) IN
  /\ In(h, "claim")
  /\ IF ShouldNotify(s, h, proc[h].began)
     THEN Goes(h, [proc[h] EXCEPT !.at = "mark", !.answered = 0, !.next = Marked(s, h, proc[h].began)])
     ELSE Goes(h, [proc[h] EXCEPT !.at = "schedule", !.began = 0])
  /\ UNCHANGED cache /\ WorldStays /\ HistoryStays

\* A claim that cannot be written ends the round.
Mark(h) ==
  /\ In(h, "mark")
  /\ \/ Puts(h) /\ Claims(h) /\ Moves(h, "emit")
     \/ Goes(h, [NewProcess EXCEPT !.at = "asleep", !.left = Fresh]) /\ UNCHANGED <<cache, latest, shown, early>>
  /\ WorldStays /\ UNCHANGED eager

Emit(h) ==
  /\ In(h, "emit") /\ Goes(h, [proc[h] EXCEPT !.at = "schedule", !.began = 0, !.next = EmptyCache])
  /\ UNCHANGED cache /\ WorldStays /\ HistoryStays

Schedule(h) ==
  /\ In(h, "schedule")
  /\ Goes(h, [NewProcess EXCEPT !.at = "asleep", !.left = NextDelay(proc[h].seen, clock, proc[h].again)])
  /\ UNCHANGED cache /\ WorldStays /\ HistoryStays

Wake(h) ==
  /\ In(h, "asleep") /\ proc[h].left = 0
  /\ Moves(h, IF Due(ReadCache(clock), clock) THEN "ask" ELSE "reread")
  /\ UNCHANGED cache /\ WorldStays /\ HistoryStays

Ask(h) ==
  /\ In(h, "ask") /\ TakeLock(h, "recheck", "reread")
  /\ UNCHANGED cache /\ WorldStays /\ HistoryStays

\* A bug: who has the lock need not look again.
RecheckBlind(h) ==
  /\ In(h, "recheck")
  /\ Goes(h, [proc[h] EXCEPT !.at = "fetch", !.seen = ReadCache(clock)]) /\ Asks
  /\ UNCHANGED <<cache, shown, early, latest>> /\ WorldStays

Recheck(h) ==
  LET s == ReadCache(clock) IN
  /\ In(h, "recheck")
  /\ IF Due(s, clock) THEN Goes(h, [proc[h] EXCEPT !.at = "fetch", !.seen = s]) /\ Asks
     ELSE Goes(h, [NewProcess EXCEPT !.at = "reread"]) /\ UNCHANGED eager
  /\ UNCHANGED <<cache, shown, early, latest>> /\ WorldStays

\* fetchManifest: an answer, or any failure of it, its own timeout included.
Fetch(h) ==
  /\ In(h, "fetch")
  /\ \/ Answered(h, proc[h].seen, published, clock)
     \/ Goes(h, [proc[h] EXCEPT !.at = "refail", !.next = Failed(proc[h].seen, clock), !.answered = 0])
  /\ UNCHANGED cache /\ WorldStays /\ HistoryStays

\* An answer that cannot be written is recorded as a failure, if that can be.
Record(h) ==
  /\ In(h, "record")
  /\ \/ Puts(h) /\ Goes(h, [NewProcess EXCEPT !.at = "reread"])
     \/ /\ Goes(h, [proc[h] EXCEPT !.at = "refail", !.next = Failed(proc[h].seen, clock), !.answered = 0])
        /\ UNCHANGED <<cache, latest>>
  /\ WorldStays /\ UNCHANGED <<shown, early, eager>>

Refail(h) ==
  /\ In(h, "refail") /\ Goes(h, [NewProcess EXCEPT !.at = "reread"])
  /\ Puts(h) \/ UNCHANGED <<cache, latest>>
  /\ WorldStays /\ UNCHANGED <<shown, early, eager>>

Reread(h) ==
  /\ In(h, "reread")
  /\ Goes(h, [NewProcess EXCEPT !.at = "notify", !.seen = ReadCache(clock), !.again = TRUE])
  /\ UNCHANGED cache /\ WorldStays /\ HistoryStays

-----------------------------------------------------------------------------
(* A command, after its own work: its deadline is far shorter than a       *)
(* moment, and is looked at between any two steps.                         *)

InTime(c, place) == In(c, place) /\ clock = proc[c].began

CommandChecks(c) ==
  /\ In(c, "idle")
  /\ Goes(c, [NewProcess EXCEPT !.at = "cli lock", !.began = clock, !.due = Due(ReadCache(clock), clock)])
  /\ UNCHANGED cache /\ WorldStays /\ HistoryStays

CommandLocks(c) ==
  /\ InTime(c, "cli lock") /\ TakeLock(c, "cli read", "idle")
  /\ UNCHANGED cache /\ WorldStays /\ HistoryStays

CommandReads(c) ==
  LET s == ReadCache(clock) IN
  /\ InTime(c, "cli read")
  /\ IF proc[c].due /\ Due(s, proc[c].began) THEN Goes(c, [proc[c] EXCEPT !.at = "cli fetch", !.seen = s]) /\ Asks
     ELSE Goes(c, [proc[c] EXCEPT !.at = "cli tell", !.next = s]) /\ UNCHANGED eager
  /\ UNCHANGED <<cache, shown, early, latest>> /\ WorldStays

CommandFetches(c) ==
  /\ InTime(c, "cli fetch")
  /\ \/ Answered(c, proc[c].seen, published, proc[c].began)
     \/ Goes(c, [proc[c] EXCEPT !.at = "cli save", !.next = Failed(proc[c].seen, proc[c].began)])
  /\ UNCHANGED cache /\ WorldStays /\ HistoryStays

CommandTells(c) ==
  /\ InTime(c, "cli tell")
  /\ IF ShouldNotify(proc[c].next, c, proc[c].began)
     THEN Goes(c, [proc[c] EXCEPT !.at = "cli mark", !.next = Marked(@, c, proc[c].began)])
     ELSE Goes(c, IF proc[c].due THEN [proc[c] EXCEPT !.at = "cli save"] ELSE NewProcess)
  /\ UNCHANGED cache /\ WorldStays /\ HistoryStays

CommandMarks(c) ==
  /\ InTime(c, "cli mark") /\ Puts(c) /\ Claims(c) /\ Moves(c, "cli print")
  /\ WorldStays /\ UNCHANGED eager

CommandPrints(c) ==
  /\ InTime(c, "cli print") /\ Goes(c, NewProcess)
  /\ UNCHANGED cache /\ WorldStays /\ HistoryStays

CommandSaves(c) ==
  /\ InTime(c, "cli save") /\ Puts(c) /\ Goes(c, NewProcess)
  /\ WorldStays /\ UNCHANGED <<shown, early, eager>>

-----------------------------------------------------------------------------
(* `triss update`: an answer first, then the lock, then the state          *)

UpdateFetches(u) ==
  /\ In(u, "idle")
  /\ \/ Goes(u, [NewProcess EXCEPT !.at = "lock", !.version = published, !.answered = clock])
     \/ Goes(u, [NewProcess EXCEPT !.at = "lock"])
  /\ UNCHANGED cache /\ WorldStays /\ HistoryStays

UpdateLocks(u) ==
  /\ In(u, "lock") /\ TakeLock(u, "keep", "idle")
  /\ UNCHANGED cache /\ WorldStays /\ HistoryStays

\* An explicit failure leaves the passive schedule as it is.
UpdateKeeps(u) ==
  LET s == ReadCache(clock) IN
  /\ In(u, "keep")
  /\ Goes(u, [proc[u] EXCEPT !.at = "save",
                !.next = IF proc[u].answered = 0 THEN s ELSE Checked(s, proc[u].version, proc[u].answered)])
  /\ UNCHANGED cache /\ WorldStays /\ HistoryStays

UpdateSaves(u) ==
  /\ In(u, "save") /\ Puts(u) /\ Goes(u, NewProcess)
  /\ WorldStays /\ UNCHANGED <<shown, early, eager>>

-----------------------------------------------------------------------------

\* A deadline, a disk that is full, a state that is not valid: commands give up
\* silently wherever they are.  Servers and commands may also die there.
GivesUp(p) ==
  /\ ~In(p, "idle") /\ ~In(p, "closed")
  /\ Goes(p, [NewProcess EXCEPT !.at = IF p \in Host THEN "closed" ELSE "idle"])
  /\ UNCHANGED cache /\ WorldStays /\ HistoryStays

TimePasses ==
  /\ clock < MaxTime /\ clock' = clock + 1
  /\ proc' = [p \in Process |-> [proc[p] EXCEPT !.left = IF @ > 0 THEN @ - 1 ELSE 0]]
  /\ UNCHANGED <<published, releases, backs, cache>> /\ HistoryStays

ClockIsSetBack ==
  /\ backs < MaxBack /\ backs' = backs + 1
  /\ clock' \in 1..(clock - 1)
  /\ UNCHANGED <<published, releases, cache, proc>> /\ HistoryStays

Released ==
  /\ releases < MaxReleases /\ releases' = releases + 1
  /\ published' \in Release \ {published}
  /\ UNCHANGED <<clock, backs, cache, proc>> /\ HistoryStays

HostStep(h) ==
  \/ Initialized(h) \/ Notify(h) \/ Claim(h) \/ Mark(h) \/ Emit(h) \/ Schedule(h) \/ Wake(h) \/ Ask(h)
  \/ Recheck(h) \/ Fetch(h) \/ Record(h) \/ Refail(h) \/ Reread(h)

CommandStep(c) ==
  \/ CommandChecks(c) \/ CommandLocks(c) \/ CommandReads(c) \/ CommandFetches(c)
  \/ CommandTells(c) \/ CommandMarks(c) \/ CommandPrints(c) \/ CommandSaves(c)

UpdaterStep(u) == UpdateFetches(u) \/ UpdateLocks(u) \/ UpdateKeeps(u) \/ UpdateSaves(u)

NoticesNext ==
  \/ (\E h \in Host : HostStep(h)) \/ (\E c \in Command : CommandStep(c))
  \/ (\E u \in Updater : UpdaterStep(u)) \/ (\E p \in Process : GivesUp(p))
  \/ TimePasses \/ ClockIsSetBack \/ Released

NoticesSpec == NoticesInit /\ [][NoticesNext]_noticeVars

-----------------------------------------------------------------------------
NoticesTypeOK ==
  /\ clock \in 1..MaxTime /\ published \in Release
  /\ cache.manifest \in Release \cup {0} /\ cache.failures \in Nat
  /\ \A p \in Process : proc[p].left \in Nat

OneHolder == \A p, q \in Process : p # q => ~(proc[p].at \in Locked /\ proc[q].at \in Locked)

(* "the same release is notified at most once every 72 hours per channel"  *)
(* (docs/update-system-plan.md:436), as far as one release is remembered:  *)
(* no claim of a notice repeats the one before it too soon, whoever makes  *)
(* them.  Who claims a notice may be slow to show it.                      *)
NoticesAreThrottled == backs = 0 => ~early

(* All processes together ask no sooner than the last answer or failure    *)
(* that is on record lets them.                                            *)
RequestsAreSpaced == backs = 0 => ~eager

(* An answer that comes late does not hide a later one.                    *)
LatestIsKept ==
  backs = 0 => (cache.checked = latest.at /\ cache.manifest = latest.version)

(* No server sleeps longer than a day, whatever moments the file names and *)
(* however the clock was set; the five minutes by which the code lets a    *)
(* moment lie in the future (cache.js 21 and 79-82) are left out here.     *)
ServersWake == \A h \in Host : proc[h].left <= Fresh

NoticesInv ==
  NoticesTypeOK /\ OneHolder /\ NoticesAreThrottled /\ RequestsAreSpaced /\ LatestIsKept /\ ServersWake
=============================================================================
