# Triss coworker: specifications and proofs

TLA+ models of what is hard to test in Triss: locks and leases shared by several
processes, the life of a named coder session and of one run, the supervision of an
engine's process group and the report made of its output, the stores of results,
processes, backups, settings and usage, the updater, the reviews and the setup. The
models are written from the code under `src/src` and `src/scripts`; paths and line
numbers in comments refer to it. `PROJECT.json` lists the runs, the lines that each
definition stands for, the findings, hazards and theorems.

    tlasany M.tla                       parse
    tlc -workers 2 -config R.cfg M      one run (module and cfg: section 3)
    tlapm MProofs.tla                   the proofs

## 1. Inventory

Triss is a command-line program and an MCP server over the same modules. Its
core delegates a task to an engine (OpenCode, OpenCode 2, OMP, Crush) that runs
in a process group of its own, in an isolated or in the caller's worktree, and
reports one envelope. Sessions make such runs continuable. Commands, an MCP
server that handles several calls at once, and maintenance share a repository's
state directory and a user's home without a daemon between them: everything they
agree on goes through files, and anything may die between two of them.

| Component | State | Operations | Hard behaviour | Correct when | Status |
| --- | --- | --- | --- | --- | --- |
| Fixed kernel lock (`fixed-kernel-lock.js`) | marker in the lock file; per process a registry of readers and writers and a promise-chain mutex | acquire shared or exclusive, release | every file operation is awaited; a dead owner's marker; texts that overlay each other; a failing fsync | exclusive inside a process always, across processes but for overlapping marker sections; nobody waits for the dead | modelled, proved |
| Session leases (`coder-lease.js`) | maintenance, target, slot and inventory locks | lease, retake, release | order, a slot lost between selection and lease | no deadlock | partly, in `CoderSession` |
| Session lifecycle (`commands/coder.js`, `coder-session-*.js`) | inventory rows, one file per engine; worktree, proxies, directories of a run | reserve, continue, revalidate, publish, finalize, abandon, clean | snapshots used after the lease was given back; crashes between row and mapping; each engine's own error path | a row belongs to its run; rows, slots and mappings agree; no foreign conversation; nothing leaked | partly, proved |
| Mapping store (`coder-lock.js`, `commands/coder.js`) | `sessions.json`, `sessions.lock` | publish, remove | reclaim of a dead owner's lock, the lock-free fallback | atomic update of one slug | partly, proved |
| Engine supervision (`spawnEngine`, `spawnCrush`) | promise, timers, cause, process group | spawn, deadline, abort, signal, escalation, clean-up | callbacks in any order, refused signals, descendants that outlive or leave | the outcome says what is left of the group; every call ends | partly, proved |
| Engines and adapters (`coder-engines/`) | a summary folded from output | fold, finish, envelope | partial, repeated, contradictory messages | success is reported of a success; sums are whole | partly |
| State backup (`coder-state-backup.js`) | snapshot, manifest, completion marker | backup, restore | the source changes under the snapshot | complete means a moment of the source | partly, proved |
| Result stores (`coder-result*.js`, `coder-write-quota.js`) | retained results, tombstones, quarantine, quota | publish, phased delete, quarantine, recover | a crash in each phase, a quota in memory | only what was published is removed, and wholly | partly, proved |
| Owned process journal (`owned-process-*.js`) | entries of process sets | transition, reconcile | read and write under two sections, either of which may fail | no reference released too early, none forgotten | partly, proved |
| Isolation policy (`coder-sandbox.js`, `managed-root.js`) | none | probe, contain | depends on the platform | a capability is never overstated | not modelled |
| Credential proxy (`coder-credential-proxy.js`) | requests in flight, revoked | forward, revoke | revocation against streams and new requests | nothing is served after revocation; it closes | modelled, proved |
| Marker transactions (`marker-transaction.js`) | a plan over several files | apply, roll back | an editor saves in between | undone to what was there, foreign edits kept | partly, proved |
| Updater (`update/`, `scripts/standalone-bootstrap.js`) | update lock, receipt, journal, launcher, cache of releases | check, tell, install, roll back, recover | stale locks, a crash in each phase, two programs over one tree, late answers | one version is current and complete; told rarely and of the latest | partly, proved |
| MCP layer (`mcp/`) | registrations in Codex's and Claude's configuration, notices | register, serve, notify | an editor saves meanwhile; every start migrates | what the user wrote stays | partly; Codex proved |
| Usage log (`usage*.js`) | `usage.jsonl` | fold, normalise, estimate, append, rotate, sum up | partial sums, unknown counts, two processes at the rotation | a cost is the whole cost; what is missing is said | partly; rotation proved |
| Review (`review-*.js`, `commands/review.js`) | disposable folders with markers, quotas, one review | acquire, recover, plan, send, answer | dead or suspended acquisitions, failing folders, packing at the limits, streams that alternate | capped, given back; nothing is dropped from the input | partly; proved |
| Setup, configuration, migration (`setup/`, `migration/`, `config.js`) | two env files, `.gitignore`, other files with settings | wizard, set, unset, migrate | stale answers, failure in the middle | what others saved survives; what was confirmed is in force | partly, proved |
| Provider runtime, CLI layer, integrations | none | requests, parsing, output | little concurrency | results as documented | not modelled |
| Release scripts, site | none | build | outside the program | | not modelled |

How they interact: a coder run takes maintenance (shared), the target lease if
it works in the caller's tree, and its slot (all fixed locks), briefly the
inventory lock to admit its row; it opens its credential proxies, calls the
supervision, folds what the engine prints, publishes the native id in the mapping
store and finalizes the row under the same leases. The outcome of the supervision
decides how a run ends: a rejection for unverified clean-up retains the row as
running, any other abandons it. `session clean`, backup and restore take the same
leases. Setup, migration and the registrations meet each other and the user's
editor in the user's files; the updater's three programs meet in one tree.

## 2. Modules and their correspondence to the code

Component modules. One action is one section that nothing of the same process
interrupts: from one `await` or callback to the next, or, where other processes
see the steps between (files), one system call.

| Module | Models |
| --- | --- |
| `FixedLock` | `acquireFixedKernelLock`, its `release`, `withMarkerMutex`, `waitForStateChange`; truncating and writing are two steps, and a text written over a longer one leaves its end (`tail`); `IOFails` at every file operation; `Crash` |
| `CoderSession` | `reserveV2SessionRow`, `acquireCoderSessionRunLease`, `revalidateV2SessionRowBeforeSpawn`, the end of `runCoderRun`, `finalizeV2SessionRow`, `retainV2SessionAfterUnverifiedCleanup`, `runCoderSessionClean`; engines that outlive their run |
| `CoderRun` | `runCoderRun` and `runCrushFlow` around that: worktree, proxies, row and lease, run directories, the engine, and the error path of each engine |
| `MappingStore`, `SessionStore` | the promise of the session store (an update of one slug), and `persistSessionMapping`, `removeSessionStoreMapping` over `sessions.lock`, which implement it |
| `EngineSupervision` | `spawnEngine`, `spawnCrush`, `killProcessGroup`, `deriveV2LifecycleFields`, one action per callback, the processes' own steps, and what a throw out of a callback ends |
| `EngineEvents` | the folds of the four engines' output, what each makes of it at the end, the exit reason, warnings and envelope |
| `StateBackup` | `triss coder state backup` beside runs, cleans and resets |
| `ResultRegistry`, `ResultQuarantine` | publication, phased deletion and recovery of a retained result; calls that quarantine, clean and recover runs, several of them one run, with the quota |
| `OwnedProcessJournal` | every transition of a process set's entry and the reconciliation; a reading, a writing, a release may fail |
| `CredentialProxy` | admission, body, forwarding, relaying, caps and revocation |
| `MarkerTransaction` | planning, checks, installation and rollback over several files |
| `UpdateLock` | the update lock of `update/install.js`, `update/cache.js` and the installer |
| `StandaloneUpdate` | `triss update --apply`, `--rollback` and the installer, with both recoveries |
| `UpdateNotices` | the cache of releases, MCP servers that check and notify, commands, `triss update` |
| `CodexConfig` | install, uninstall, status and timeout migration in `~/.codex/config.toml` |
| `UsageLog` | counts, estimate, append, rotation and summary |
| `Setup` | the wizard and its engine setup beside commands that rewrite an env file |
| `Migration` | `triss migrate`: plan, backups, two replacements, verification, rollback, resumption |
| `ReviewRuns` | the registry of disposable folders, acquisitions, recovery, quotas; every operation on the disk may fail |
| `Review` | one review: selection, plan, calls, answers, warnings and terminal; extends `ReviewRuns` |

`FixedLockProofs`, `CoderSessionProofs`, `CoderRunProofs`, `ServicesProofs` (store,
proxy, usage log), `ResultsProofs` (registry, quarantine, journal, disposable folders,
reviews), `FilesProofs` (marker transaction, update lock, standalone installation,
backup), `MigrationProofs` (migration, Codex configuration) and `EngineProofs`
(supervision, notices, setup) hold the theorems; those of `CoderRunProofs` are about
runs and about the folds of their output.

MC modules: `MCFixedLock`, `MCCoderSession`; `MCServices` (session store and
credential proxy); `MCFiles` (backup, marker transaction, update lock, standalone
installation, Codex configuration, usage log); `MCResults` (registry, quarantine,
journal), extended by `MCRuns` (runs) and `MCSetup` (migration, events); `MCEngine`
(supervision, setup, notices, review folders, reviews). Components in one MC module
share no state. Its variable `focus` or `topic` chooses the component of a
behaviour, and the others stay where they started; the state space is the union of
theirs, and each component has every interleaving of its own actors. A component
may have several topics: one actor over all its data, and several actors over few.

How components are tied together:

* `FixedLock` is the detail below the leases of `CoderSession`, where a lease is its
  owner. That is what it promises inside a process and, but for overlapping marker
  sections (`UndisturbedExclusion`), between processes; the properties of
  `CoderSession` hold under that proviso.
* `SessionStore` implements `MappingStore` (`MappingSpec`; the refinement mapping
  takes the file for the map) until a write without the lock or a second reclaim
  disturbs it. `CoderSession` uses the store through that interface.
* `EngineSupervision` gives the outcomes of `EngineEnds` and `Retain` in
  `CoderSession` and of the engine in `CoderRun`, and the ends of the process in
  `EngineEvents`. `CoderRun` leaves slots and mappings to `CoderSession`.
* `StandaloneUpdate` and `UpdateNotices` take the update lock for exclusive;
  `UpdateLock` says how far it is.
* `Review` gets the change of a pull request through `ReviewRuns`.

State worth a word: in `FixedLock` `pc` says where a call stands (`reading` ..
`written` inside the mutex, `synced` not yet registered, `held`, `rel` ..
`reltruncated`), a nonce is the handle that wrote it, and `raced` remembers handles
whose section overlapped one of another process. A text there is its handle and its
length, which only the digits of the pid vary; a text with a `tail` names the pid that
wrote last beside a nonce that nobody registered. In `CoderSession` a row carries the
run that reserved it as its instance; native ids are the run that published them,
the slug for crush, or `Legacy`; `stripped` remembers the orphan branch of a clean;
`adrift` are the runs that are over, by a crash or by `Retain`, while their engine's
group still works, and `cleaned` those of them whose row a clean has marked since.
In `SessionStore` `disturbed` becomes true when a writer goes on without the lock or
removes a lock file that it did not examine; in `OwnedProcessJournal` `lost`
holds the sets whose entry was overwritten by a writing that had not seen it, and
`unacknowledged` the releases that a process made before a failure of its own. In
`ResultQuarantine` `covered` says that a complete directory has a unit of the quota,
and `overdrawn` that a clean released a unit which was another's. In `ReviewRuns`
`mishaps` tells, per folder, which kind of operation failed on it. In `EngineSupervision` one
descendant stands for all: quiet, holding stdout, or outside the group with stdout.
In `EngineEvents` a counter adds 1 whenever it is reported, so a sum says from how
many steps it was made. In `CodexConfig` a text is a sequence of the kinds of lines
that the scanner tells apart, in `Setup` of assignments, in `Migration` what a file
has in the old and the new place of a setting. In `StandaloneUpdate` a tree is
whole, torn or absent. In `StateBackup` `again` says that the first of two readings is
done, whatever it found. In `UpdateNotices` a claim and what is shown for it are one
write, and the printing is a step after it. In the reviews a change is a sequence of sections of files
with sizes, each with a number that tells it from the others.

## 3. Runs

| Run | Module | Checks |
| --- | --- | --- |
| `FixedLock_main` | `MCFixedLock` | `LockInv`, `InProcessExclusion`, `UndisturbedExclusion`; `ReleaseEnds`, `BlockedBySomebody` |
| `Session_main` | `MCCoderSession` | `RowsInv`, `OneEnginePerSlugAndTree`, `ConversationsInv`, `CleanTakesWhatItSaw`; `RowsKeepTheirLife` |
| `Session_live` | `MCCoderSession` | `EveryJobEnds` |
| `Services_main` | `MCServices` | `StoreInv`, `ProxyInv`; `MappingSpec` (refinement), `EveryWriterEnds`, `RevokeEnds` |
| `Engine_main` | `MCEngine` | `EngineInv`, `ResolvedMeansGone`, `RejectionIsHonest`, `CrushReportsInterruption`, `SetupInv`, `NoticesInv`, `RunsInv`, `ReviewInv`; `ExitIsFinal`, `EveryCallEnds`, `EngineIsNotLeft` |
| `Results_main` | `MCSetup` | `RegistryInv`, `QuarantineInv`, `JournalInv`, `RunInv`, `MigrationInv`, `EventsInv` |
| `Files_main` | `MCFiles` | `BackupInv`, `MarkerInv`, `UpdateLockInv`, `StandaloneInv`, `CodexInv`, `UsageInv`; `CommitsWhatWasConfirmed` |
| `Session_orphan`, `Run_work`, `Quarantine_recover`, `Migration_rollback`, `Standalone_recover` | | one finding each (section 5) |

Invariants whose name ends in `Inv` are conjunctions of named parts, each stated
and commented in its module:

* `LockInv` ties registry, mutex, marker and program counters; inductive, as are
  `StoreInv` and `EngineInv`.
* `RowsInv`: `TypeOK`, `SlotsStayConsistent`, `RunKeepsItsRow`, `IdleIsContinuable`.
  `ConversationsInv`: `NoForeignConversation`, `NoNewOrphan`.
* `RunInv`: `EveryExitSettles` (whatever fails, row, lease, proxies and directories
  are given back), `UnverifiedStaysBusy`, `NoTreeUnderItsEngine`,
  `ProxiesOutliveTheEngine`.
* `EventsInv`: `EndTurnIsHonest`, `ErrorsAreTold`, `CompletedByItself`,
  `UsageIsWhole`, `TextIsTheLast`, `PartialAnswersAreKept`, `WarningsAreFew`.
* `RegistryInv`: `OnlyPublishedRemoved`, `ListedRetainedIsWhole`,
  `PhaseTellsWhatIsGone`, `AbandonedIsEmpty`. `QuarantineInv`: `QuotaCoversFlight`,
  `PhaseWasReached`, `OnlyCompleteIsCleaned`. `JournalInv`: `ReleasedOnlyEmpty`,
  `AcknowledgedWasReleased`, `ReleasedOnceByHost`, `NoneForgotten`.
* `MigrationInv`: `SettingsSurvive`, `ResumeIsPossible`, `UnverifiedIsBackedUp`,
  `OneAtWork`. `SetupInv`: `OthersSurvive`, `ConfirmedHolds`, `SecretsAreIgnored`,
  `ReadyIsReady`.
* `BackupInv`: `ValidIsAMoment`, `MarkerIsEarned`, `LeasesFollowBackup`. `MarkerInv`:
  `EditLostOnlyInWindow`, `UndoneOrReported`, `NeverVacant`. `CodexInv`:
  `OnlyALateSaveIsLost`, `RewriteKeepsTheRest`.
* `UpdateLockInv`: `ExclusiveUnlessRobbed`. `StandaloneInv`: `StartsCommitted`,
  `SettledAgrees`, `SomeoneRecovers`. `NoticesInv`: `OneHolder`,
  `NoticesAreThrottled`, `RequestsAreSpaced`, `LatestIsKept`, `ServersWake`.
* `UsageInv`: `ACostIsTheWholeCost`, `CountsAreHonest`, `ReportsSayWhatIsMissing`,
  `RotationKeepsRecent`. `ProxyInv`: `FetchIsOnRecord`, `RevokedServesNobody`.
* `RunsInv`: `RunsAreCapped`, `LiveRunsKeepTheirFolder`, `DiskIsReserved`,
  `EverythingIsGivenBack`. `ReviewInv`: `NothingIsDropped`, `FilesStayWhole`,
  `CallsAreBounded`, `NoVerdictOverNothing`, `FailureEndsTheReview`,
  `LinesAreKeptApart`.

Each but `ConversationsInv` has its module's type invariant as a first conjunct. Definitions named as
"A bug" are not part of the specifications: each is what a plausible mistake would
make of the definition next to it, and the property it is paired with in
`PROJECT.json` fails under it.

### Bounds

* `FixedLock`: three handles, two in one process: two for the registry of one
  process, a third for the marker of another. The pid of the one has two digits, that
  of the other one: a shorter text over a longer, and the reverse. `MaxFaults` 1 fails
  any one file operation. Handles are used again, so lock cycles are not bounded.
* `CoderSession`: two runs (each reserves, continues or collides) and a clean.
  `MaxRows` 1 (4 in the code) fills an inventory with the first row; `SlotCount` 1
  or 2 (4) makes slots scarce; `Retries` 1 or 2 (8) lets a retake succeed and
  exhaust. A process may crash once, and an engine may outlive it. In `Session_live`
  the store engine is one whose failure after publication keeps the leases (opencode),
  and both runs ask for the caller's tree.
* `CoderRun`: one run with each engine and up to two proxies; two runs of a slug
  with OpenCode or OMP and none: the engines differ in their error paths, and two
  runs are what it takes to remove a worktree under somebody.
* `SessionStore`: three writers, the least for a dead owner and two reclaimers;
  `Attempts` 2 (8) allows one reclaim and then the fallback; one crash.
  `CredentialProxy`: two requests, each cap 1, a rate of 2, so that each limit is
  met by the second request or chunk; one refused closing.
* `EngineSupervision`: one call, one descendant. Timers have no durations: one that
  is set may fire at any time, which covers every length.
* `EngineEvents`: at most three lines or messages, of the kinds that the folds tell
  apart; three are needed for a session, a message and an end. The third is only of
  a kind that bears on the end; stops in the middle, oversized output and
  conflicting sessions come with up to two. Crush prints one envelope, with garbage
  around it.
* `StateBackup`: one other writer, two snapshot attempts (5), one backup. The second
  attempt is the retry; a writer makes at most one operation of several steps.
* Results: two cleaners, one recoverer and publisher, one refused removal; two
  calls on one quarantined run, over a concurrency of 1 and a budget of 2 (both may be
  in flight, or one beside a complete directory), one restart; two process sets, one of
  them ephemeral, in a journal of 1, and two calls of one process. Failures of the
  journal, of the quarantine's operations and of the folders below are not counted:
  any may happen at any time.
* `MarkerTransaction`: two files, three edits: one before, one in, one after the
  window of a file. `UpdateLock`: two lockers, five inodes: a stale one, two takes
  and a retry of both. `StandaloneUpdate`: two interchangeable updaters (symmetry),
  two releases, two commits, one crash, one damaged release: a rollback after an
  update, and a recovery of either by either program.
* `CodexConfig`: every text of up to three lines, and of four behind a root table;
  two registrars and an editor with one save over few texts. `UsageLog`: one call
  over every report of two steps; two callers with a cap of 2 records and 5 in all.
* `Migration`: three targets (an env file, a rule file, a structured file). One
  migrator, one file of any text, with one edit and one death; two migrators over
  plain texts, with one edit or one death. `Setup`: env files of up to two
  assignments and some of three; every engine, preflight result and scope; one
  command that races, or one death.
* `UpdateNotices`: five moments, two releases; two servers, or one beside a command,
  an update, or a clock that is set back by one. The periods are 1 to 3 moments, in
  the order of the code's. `ReviewRuns`: two acquisitions, a cap of 1 (3), one death,
  a grace of 1 in two days; the quota holds two folders. `Review`: changes of up to
  three sections out of five, among them two of one file, a rename, a binary and one
  below a directory; limits of 3 to 5 units so that a review may fill, exceed and
  just fit each; answers of up to four chunks.

A call that is over makes no further step and callers need never start one, so
every cfg has `CHECK_DEADLOCK FALSE`; that nobody waits for ever is what the
liveness properties say.

### Fairness

* `FixedLock`: weak fairness of the steps of a call that was started (ready
  continuations run, the poll timer fires); strong fairness of entering the marker
  mutex, a promise chain that serves its callers in order. Nothing makes anybody
  acquire, release or abort.
* `CoderSession`: weak fairness of each started job; an engine is ended by its
  deadline. A lease that is free stays so once its other askers are finished.
* `SessionStore`: weak fairness of each writer's steps; that code is synchronous.
* `CredentialProxy`: weak fairness of the runtime's callbacks (a closed server calls
  back, an aborted fetch fails, a client is ready or gone). Nothing makes a provider
  answer.
* `EngineSupervision`: the deadline fires, child events and timers are delivered, a
  process that was sent SIGKILL ends. Aborts, signals and limits need not come, and
  an escaped descendant need not end.

`MCServices` and `MCEngine` add only the fairness of the components whose liveness
they check; the other components' steps are under none.

## 4. Proofs

For every value of the constants, from the named assumptions of the modules
(disjoint sets of actors, bounds that are natural numbers, values that are no
member of the sets beside them):

* `FixedLockProofs`: `LockInvariant`, `TypeCorrect`, `InProcess`, `Undisturbed`.
  Exclusion alone is not inductive, because whether a handle may become a holder
  depends on the mutex (`MutexInv`), on what was admitted when it was entered
  (`EntryInv`), on the registry saying who owns the lock (`WriterInv`, `ReaderInv`)
  and, across processes, on the marker of an undisturbed handle being its own and
  whole: nobody else is between a truncation and its write.
* `ServicesProofs`, store: `StoreInvariant` and `Implements`. While undisturbed the
  lock file is that of the writer that believes to hold it, and what it has read is
  what the store holds; so its write changes one slug, an `Update` of `MappingStore`.
  Every other step leaves the map alone or is a disturbance by name. Proxy:
  `ProxyIsSafe`. The invariant adds that the counters count the requests under way,
  that an answer is relayed only after its headers were, and that revocation comes
  with closing.
* `ServicesProofs`, usage log: `UsageIsHonest`, for any reports and logs of any length.
  A fold of steps is at most what was spent, and all of it for a class that every step
  reported (`AccSound`); from there a call carries what makes its record honest until
  it is written (`CallSound`), and direct answers never count a write of the cache,
  which is why an estimate without the input's sum is impossible. What a summary adds
  up is a sum of sums over positions of the log (`SumsAdd`), by a least position at
  which they would differ. Until a rename lands on a log that another put there, the
  log is the end of what was written, what is before it ends in
  its predecessor, and that was full (`LogEnds`): so the last `Cap` records are in one
  of the two. That a rotation puts aside a full log is said of the call that measured
  it (`RotatesWhatIsFull`).
* `EngineProofs`, supervision: `EngineInvariant`, `CompletionIsClean`,
  `RejectionSparesRows`, `ExitStands`, for platforms that answer signal 0 for a group
  (`~ProbeDenied`), and `CrushOwnsUp` without that assumption.
  `ResolvedMeansGone` needs that the clean-up starts after the leader was reaped, and
  so that an empty group stays empty; `ExitIsFinal` that nothing is armed once the
  leader was reaped or the call settled; `CrushReportsInterruption` that a cause is
  recorded with every interruption, long before anything is reported.
* `EngineProofs`, notices: `NoticesAreSafe`. What a process in the lock is about to
  write rests on what is on record (`OnRecord`): one that is about to claim a notice
  has seen the claim on record lapse, one that is about to record an answer read the
  record that still stands, and a request stands on record before it is made. That
  the throttle holds is said of the claim, at which the code writes what it will
  show. Nothing of this survives a clock that is set back, which is why these parts
  are promised until it is; one holder and a bounded sleep are promised always.
* `ResultsProofs`, folders: `DisposableFoldersAreSafe`. The invariant says per
  acquisition what its place implies of its marker, its reservation and the locks
  (`Sound`), that whoever counts and makes a folder
  is the one in the registry's lock (`Registered`), that the count is below the cap before a folder is added
  (`Capped`) and that a sweep removes only what was abandoned (`OnlyDoomedSwept`). What
  is still reserved at the end is exactly what a named mishap of that folder accounts
  for, so an acquisition without one holds neither folder nor quota.
* `ResultsProofs`, reviews: `ReviewAnswersWhatWasAsked`, for requests, changes and
  limits of any size. First the operators: each is a recursion over positions, so that
  one lemma (`SomeRun`) gives the function it defines and a least position gives what
  it computes: what `Only` picks (`OnlyPicks`), that `Files` lists every file once
  (`FilesListed`), and that packing one more file keeps whole files in single parts
  with none left out (`PartAdded`, `PartGrown`, `PackedIsWell`). From these, what is
  acquired holds every section asked for, both sides of a rename included
  (`DiffFacts`), and a plan without an error is right (`PlanIsRight`). The invariant
  then counts the calls against the verdicts at each place (`Paced`), says that the
  calls are the plan's first ones (`CallsAsPlanned`) and fit (`CallsFit`), that the
  acquisition a review waits for returns with an outcome (`OwnDecided`, beside the
  folders' own invariant), and that the flags of the callbacks tell what stands on the
  terminal's unfinished line (`LineIsTold`), on which only a warning is ever begun.
* `EngineProofs`, setup: `WhatIsConfirmedIsInForce`, for every text of the env files,
  any answers and commands, and any number of wizards, commands and deaths. The
  invariant `SetupIInv` says of each stage of a wizard what it has seen and what is to
  come true (`SeesFirst`, `SeesPlan`, `SeesEnd`): until somebody touches the files
  behind its back, the text it hashed, patched, makes its preview what is in force; at
  the rename the text it read is the one that stands; and while it rewrites its file in
  place, the text it read is what will stand again (`Restored`). What every file is
  meant to say is what it says, or what the one process that has emptied it read
  (`MeantKept`). It rests on lemmas about texts of every length: a patched text says
  what it was told and of other keys what it said (`PatchedSays`), and a first
  assignment that is replaced or removed changes no other key.
* `CoderSessionProofs`: `RowsAreSound`, `OneEngineAtATime`, `ConversationsStayHome`,
  `CleansAreAccurate`, `RowsLive`, from the invariant `SessionIInv`. Two live actors
  never hold one lease (`Leased`), but that alone says nothing of rows, which are
  written under the inventory lock while slots are leased before. The invariant adds
  that the slot an actor holds is the slot of its row, that one slug has one slot and
  two live slugs two (`SlotsConsistent`); which stages of a run imply a row of its own
  (`RunOwns`) and of a clean a row that it has marked (`Removes`, `CleansPin`); what a
  job may remember of a row after it gave the inventory back (`Remembers`); that a run
  whose engine outlived it still owns its running row until a clean has marked it
  (`Drifting`), and that nothing is published of a row that is still reserved
  (`Unspawned`); and, for
  the conversations, that crush never has a mapping (`OnlyStored`), that a mapping
  goes before its row (`Unlinked`) and was published by the row's instance. The
  action property follows from it, step by step.
* `CoderRunProofs`: `EveryRunSettles`. `RunInv` speaks of runs that are over. It holds
  because whatever a run holds while it unwinds (row, lease, proxies, directories,
  worktree) is named by a step that is still due (`Sound`), for each engine's own
  error path; the exits where that fails are those `EveryExitSettles` names.
* `CoderRunProofs`, events: `ReportsAreHonest`, for output of any length. The fold of
  the lines tells of all the lines so far (`SummaryTells`): which errors it heard, the
  text of the last that had one, in how many steps each counter was reported
  (`OpenTold`, `OmpTold`). OMP's final end replaces sums of lines by a fold over the
  messages it repeats; that this fold counts each of them once is shown for the
  prefixes of the messages (`SummedUp`), and that it exists by a least prefix for which
  it would not (`SomeUpTo`, `FoldAllIsUpTo`). Exit, envelope and lifecycle then follow
  from fold and child (`ReportTells`).
* `ResultsProofs`, registry: `RegistryIsSafe`. Which artifacts are gone follows from
  the stage of a deletion (`StagesAreCleared`), a deleter has a published result or a
  tombstone (`DeletersPublished`, `TombstoneStands`), and the directory goes only when
  nothing that can go is left. Quarantine: `QuarantineIsSafe`, for any
  number of calls on any number of runs. The total is the number of units held
  (`TotalStands`); a run holds one for each call in flight and one for its complete
  directory, which is a bijection between sets that a step extends or shortens by one
  (`UnitTaken`, `UnitReturned`); and what was done to the tree follows from the phase
  on the disk and from the place of each call, which may be writing into a directory
  that another has renamed (`RunSound`, `CallSound`). Journal: `JournalIsSafe`. Turns
  on one set are serialized inside a process (`Serialized`), so what it has released is
  known to the one call that is about to acknowledge it, or was released by a call that
  failed (`ReleasesOnce`). All of that is said of each set that was not overwritten,
  whatever becomes of the other entries; what is released was recorded as empty
  whichever updates are lost, because entries only move on (`Backed`).
* `FilesProofs`, marker transaction: `MarkerTransactionIsSafe`, for every list of
  files. A block that is in a file was written there by this transaction
  (`BlocksAreWritten`), nothing is written at or behind its place while it goes
  forward (`NothingWrittenAhead`), everything behind it is undone or reported while it
  turns back (`NothingLeftBehind`); what it found at its last check is its plan but
  for an edit of the window (`WindowHolds`), and what it put aside is its own
  (`AsideIsOurs`).
* `FilesProofs`, update lock: `LockIsExclusiveUnlessRobbed`. A holder's file stays in
  place because a breaker only removes the file of a dead process (`BreaksTheDead`)
  and because its alias, while it stands, keeps everybody else before the claim
  (`ClaimPins`); who broke an alias that was not its own is `robbed`.
* `FilesProofs`, standalone installation: `InstallationSurvives` and
  `ConfirmedReceiptIsReplaced`. A crash forgets where a process was, so what journal,
  receipt, pointer, launcher and trees may be together is first said without program
  counters (`AtRest`, `OpenTransaction`: what was planned, what is stored, what is
  pointed to), and then place by place (`Confirmed`, `Publishing`, `Recovered`) under
  the lock. A crash keeps the first part, a recovery starts from it alone.
* `FilesProofs`, backup: `BackupsAreMoments`. The two readings follow the files one by
  one, so the invariant says what the files can no longer be: an inventory carries
  the time of its writing and a new identity a new number, so what is left never
  returns (`Drift`), and two equal readings enclose a moment (`SecondReading`), which
  the copies then have to match file by file (`Copying`). An inventory that is gone
  carries no time, and several resets beside one backup can bring its absence back:
  the property says so (`Tells`), and with at most one reset it is unconditional.
* `MigrationProofs`: `MigrationsKeepSettings`. That a file stays readable rests on all
  that a migrator has read being readable (`HasRead`, `StaysReadable`), that what is
  not verified has a backup on the phase (`Phases`), and that one works at a time on
  who wrote the lock it stands in (`LockedWork`).
* `MigrationProofs`, Codex's configuration: `CodexIsSafe`, over texts of any length.
  The scanner is a recursion over the lines; that the recursion has a solution
  (`SomeRun`, `OpenIs`) and that equal lines leave equal containers open (`OpenWalk`)
  are the inductions, each by a least line that would break it. From them a text that
  is closed and one that follows it are scanned separately (`JoinOpens`,
  `JoinHeaders`, `ForeignJoin`), a file with a table of triss is what stands before
  it, the table, and what follows (`ThreeParts`), and neither neighbour has another
  (`PartsAreTame`). Then a removal keeps the two neighbours (`StrippedKeeps`), an
  installation writes a table that is found again, with its end where it was written
  (`NewTable`, `NewTableEnds`, `InstallKeeps`), and a migration changes one line into
  one the scanner takes alike (`MigrateKeeps`). The invariant of the protocol says of
  a process that is going to write that its job does write over what it read
  (`RegistrarsFit`), and of one after its last check of the text that it stands before
  the file it read, or a later write is on record (`ReadOrLate`).

The invariants of the standalone installation, of the backup and of the setup were
checked by TLC, the last two with two writers of any kind, before they were proved.
The proof of the setup corrected its model twice: a history variable took two
commands that overlap harmlessly for a race, and missed one that rewrites a file
between the emptying and the filling by another; and the arms of a `CASE` overlapped,
as they did in three other modules, where the code has an order and TLA+ none.

Only model-checked: the liveness properties (`ReleaseEnds`, `BlockedBySomebody`,
`EveryJobEnds`, `EveryCallEnds`, `EngineIsNotLeft`, `EveryWriterEnds`, `RevokeEnds`),
since fairness and
ENABLED are beyond the prover. Every safety and action property of the passing runs
has a theorem. Recursions over data (texts of the env files and of Codex's
configuration, repeated messages, logs, the packing of a change) are functions, and an
induction over them is the choice of a least position, because the induction theorems
of the library take an operator. For `CodexInv` the proof changed the model in form
only: the lines that are not blank are picked by a recursion in place of `SelectSeq`,
of which the provers know nothing, and the last header before a line is said without
`CHOOSE`.

## 5. Findings

`PROJECT.json` quotes the line each contradicts. The traces are short enough to be
replayed by hand.

1. `session clean` without a row removes the mapping of a row admitted since
   (`Session_orphan`).
2. A git diff that fails counts as an empty one, and the worktree is removed by force
   with what the engine wrote (`Run_work`). Two runs of a slug reach the same end by
   another way: the clean-up of one looks at the tree before the other writes.
3. Recovery of a quarantine after its marker reads fields of another spelling, and
   the result can no longer be cleaned (`Quarantine_recover`).
4. The rollback of a migration overwrites what was saved since (`Migration_rollback`).
5. A rollback or an installation that dies after it anchored the launcher leaves what
   the installer refuses for good (`Standalone_recover`). The other program recovers.

Disagreements that the modules state or contain, without a run of their own. Where
a name is given it is a definition of the module, and an invariant that TLC refutes
under the constants of the component's run:

* `FixedLock`: a marker blocks others although nobody holds the lock, against "True
  iff the pinned inode's marker is genuinely held" (`fixed-kernel-lock.js` 123-124;
  `MarkerGenuine`): after an fsync that failed; and after two sections that overlapped,
  where a shorter text over a longer one leaves a nonce that the release (288) does not
  recognise as its own, beside the pid of a process that may live on.
* `CoderSession`: a clean that saw an idle row deletes it though a live owner has
  retained it since (`LiveOwnerNeedsAttestation`); an OpenCode run that fails after
  its engine keeps its leases (`OverHoldsNothing`), and until its process ends others
  wait. An engine that outlives its run, after a crash or a cleanup that failed, is past
  the leases: the target lease is free (`commands/coder.js` 6258-6291), so a run of
  another slug may share the caller's tree with it, and one of another engine the slug;
  and a clean with `--recover-live`, or after the owner's death, takes the row while the
  engine still works. `CoderRun`: a rejected admission
  leaves the proxies open (`commands/coder.js` near 7493).
* `SessionStore`: two processes reclaim one dead lock and share the section
  (`LockedWritersSerialize`). `UpdateLock`: so does the update lock through its alias
  (`OneUpdater`). `OwnedProcessJournal`: transitions read and write in two sections
  (`TransitionIsAtomic`; `owned-process-journal.js` 295-300), and a process whose
  writing of `acknowledged` fails releases the reference again at its next call
  (`owned-process-reconcile.js` 273-274 says exactly once).
* `ResultQuarantine`: nothing keeps two calls off one run, and both reserve a unit under
  the run's key. A clean of a directory that outlived the process that reserved it, or
  the second of two cleans, releases the unit of a call in flight (`overdrawn`).
* `EngineSupervision`: `spawnEngine` does not record a host signal as the cause
  (`InterruptedIsReported`); output between exit and close arms a timer nobody clears
  (`NoTimerOutlivesSettle`).
* `EngineEvents`: OpenCode 2 and OMP report `end_turn` for an aborted or limited run
  whose child exits with 0 on SIGTERM (`commands/coder.js` 4760-4777, 8074). A line
  `null`, or an OMP session that contradicts, throws inside the stdout callback
  (comment at 3669-3674; 4770): nobody catches it, the host ends, and the engine's group,
  which is detached, goes on (`FoldThrows`; the exception in `EngineIsNotLeft`). A rate limit found only in the final log does not reach the
  lifecycle of OpenCode. OMP's cost may be a partial sum. Warnings past 16 vanish
  silently in OpenCode; OpenCode 2 has no limit.
* `CredentialProxy`: requests are counted when their bodies are read, so several that
  arrive together pass the cap (`RequestCap`); a call that was taken off the record
  when its client left outlives the closing (`RevokedHasNoCall`).
* `UsageLog`: a second rotation renames over the recent history
  (`RecentHistoryIsKept`, `usage.js` 37-39).
* `CodexConfig`: a `[mcp_servers.triss.env]` section apart from its root survives an
  uninstall and is declared twice by an install (comment at `mcp/install.js` 9-12).
* `Setup`: `config set` patches the first of several assignments while the last is
  in force; the wizard says ready for crush when its installation is incompatible;
  `coder init` and `config set --local` write the secret before `.gitignore`, in
  place; after a failure of `.gitignore` the engine setup still writes locally.
* `UpdateNotices`: only the last release told is remembered, so one that was withdrawn
  and reappears is told again within the throttle (`docs/update-system-plan.md` 436).
* `ReviewRuns`: a run that dies in `live` or `release_pending`, or before its marker,
  is never removed, and three of them block the cap, as does a folder whose marker
  could not be written. A listing that fails counts as no folder, and the cap is
  passed. A failed fetch returns its quota while its files are there; the reservation of
  a fetch whose directory cannot be made is never returned (`review-pr-fetch.js` 75-81);
  one that succeeded is returned even when the clean-up failed and the repository stays
  ("held while the bare repo is on disk", `review-pr.js` 98-100). A folder that could
  not be made, acknowledged or removed keeps its quota; another's recovery may remove an
  acknowledged folder before its owner, whose quota then stays. `Review`: a warning
  about the model's result is printed (`commands/review.js` 491) before the open line
  of reasoning or of a partial answer is ended, against the invariants of the comment
  at 420-431. In shard mode a directory
  selects more than was asked (`review-scoped.js` 205-208); acquisitions get no abort
  signal (`docs/reliable-delegation-contract-plan.md` 2722); one failing shard of an
  MCP review drops the verdicts of the others.

Facts that are built into the models: the deadline that passes in the grace of an
abort is reported in its place; a descendant that left the group with stdout keeps
the call pending (the exception in `EveryCallEnds`); a probe refused after the reap
is taken for an empty group (`ProbeDenied`); a writer of the mapping store that gave
up the lock may undo another's update; a crash while recovery removes a tree leaves
a torn version that blocks its reinstallation; the launcher of a first installation
whose smoke test failed may dangle, which neither program accepts.

## 6. Not modelled

* Isolation policy, provider runtime, CLI layer, integrations: functions of their
  input or of the platform that hold no protocol. Release scripts and the site are
  outside the program.
* `session list`, `gc` and `migrate`, restore of a backup, the release controller and
  exclusive maintenance of `coder-lease.js`; the registration in Claude's JSON
  (`mcp/install.js` 62-160, a read and a write without comparison); the MCP
  request loop and tool schemas.
* Encodings of inventories, stores, records and manifests; normalization of older
  versions; download, unpacking and verification of a release (one step that works or
  fails); prompts, git's diff, the platform's metadata; the projection of a
  configuration to the engines' own files; prices of models.
* `deriveCoderResultFacts` and `deriveArtifactStatus`, which only tests call.
* Reuse of a process id by an unrelated process, apart from groups in
  `EngineSupervision`.

Abstractions to know: the five minutes by which `UpdateNotices` lets a moment lie in
the future (`update/cache.js` 21, 79-82) are left out, so that "no server sleeps longer
than a day" is exact to these five minutes only; in `ResultQuarantine` a clean reads
manifest and marker in one step and removes and releases in another, and the manifests
of two calls differ (`created_at`); `Setup` reads its several files as one; the lock of
`UpdateNotices` is held by being in a place, and that of `ReviewRuns` is freed by the
death of its holder, as `UpdateLock` and `FixedLock` say; a stream's success in
`Review` presumes that the text came through `onText`; in `EngineEvents` OMP sends
one terminal end per run and tools are counted, not named.

## 7. Plan

Done: the locks, sessions, runs, supervision and events; stores and files; updater;
setup, migration and reviews; eight modules of proofs, for every safety property of
the runs. Next, in this order:

1. `RunLease`: the release controller with failing releases and exclusive maintenance,
   composed with `StateBackup` and restore.
2. `session gc` and `migrate` in `CoderSession`: two more removers of rows.
3. Claude's registration, and the cancellation path of the MCP request loop.
4. Resolution of models, roles and providers against a reference over small
   registries.
