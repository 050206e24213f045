------------------------------ MODULE CoderRun ------------------------------
(***************************************************************************)
(* What one `coder run` holds while it goes through its steps              *)
(* (src/src/commands/coder.js, runCoderRun and runCrushFlow): the worktree *)
(* of its slug, the credential proxies, the session row with its lease,    *)
(* the run-private directories and the engine's process group; and the     *)
(* order in which each engine's error paths give them up. Every step may   *)
(* fail. Runs of one session slug share the worktree, its branch and the   *)
(* row, in whatever processes they are.                                    *)
(***************************************************************************)
EXTENDS Naturals, Sequences, FiniteSets

CONSTANTS Run, NoRun,
          Engine,      \* of {"opencode", "opencode2", "omp", "crush"}
          MaxProxies   \* bound: one, or two when the small model has a transport of its own

ASSUME RunAssumption ==
  /\ NoRun \notin Run
  /\ Engine \subseteq {"opencode", "opencode2", "omp", "crush"} /\ MaxProxies \in 0..2

VARIABLES
  run,        \* run -> what it is doing and what it holds
  tree,       \* .triss/wt/<slug>: "absent", "clean" or "dirty"
  branch,     \* coder/<slug>: "absent", "plain", or "ahead" of the default branch
  row,        \* the session row of the slug
  lease,      \* the run that holds the slug's leases
  identified, \* the host can name a process; if not, sessions are ephemeral
  work        \* the runs whose engine has left something in the worktree

runVars == <<run, tree, branch, row, lease, identified, work>>
Git == <<tree, branch, work>>
Session == <<row, lease, identified>>

At == {"start", "tree", "add", "preflight", "proxy", "admit", "prepare", "spawn", "engine", "publish",
       "changes", "remove", "complete", "envelope", "unwind", "over"}

NewRun == [engine |-> "none", at |-> "start", isolated |-> FALSE, fresh |-> FALSE, tried |-> FALSE,
           needs |-> 0, proxies |-> 0, dirs |-> FALSE, claim |-> "none", attempted |-> FALSE, stuck |-> FALSE,
           group |-> "none", took |-> "nothing", unwind |-> <<>>, end |-> "none"]

RunTypeOK ==
  /\ \A r \in Run : /\ run[r].engine \in Engine \cup {"none"} /\ run[r].at \in At
                    /\ run[r].group \in {"none", "alive", "gone", "unverified"}
                    /\ run[r].claim \in {"none", "new", "resumed"} /\ run[r].proxies \in 0..2
  /\ tree \in {"absent", "clean", "dirty"} /\ branch \in {"absent", "plain", "ahead"}
  /\ row \in {"absent", "reserved", "running", "idle"} /\ lease \in Run \cup {NoRun} /\ work \subseteq Run

RunInit ==
  /\ run = [r \in Run |-> NewRun]
  /\ tree = "absent" /\ branch = "absent" /\ work = {}
  /\ row \in {"absent", "idle"} /\ lease = NoRun /\ identified \in BOOLEAN

Is(r, at) == run[r].at = at
Becomes(r, new) == run' = [run EXCEPT ![r] = new]
Go(r, at) == Becomes(r, [run[r] EXCEPT !.at = at])
GiveUp(q, how, steps) == [q EXCEPT !.at = "unwind", !.end = how, !.unwind = steps]
Fail(r, steps) == Becomes(r, GiveUp(run[r], "failed", steps))

-----------------------------------------------------------------------------
(* The order in which each engine's catch and finally blocks clean up      *)

Finally(e) == IF e = "crush" THEN <<"dirs", "proxy">> ELSE <<"proxy">>

\* The engine, or the check right before it, failed.
EngineFailed(e) ==
  CASE e = "opencode"  -> <<"row", "tree", "proxy">>
    [] e = "opencode2" -> <<"tree", "row", "proxy">>
    [] e = "omp"       -> <<"row", "dirs", "tree", "proxy">>
    [] e = "crush"     -> <<"tree", "row", "dirs", "proxy">>

\* Something after the engine failed: for opencode no handler is left.
AfterFailed(e) ==
  CASE e = "opencode"  -> <<>>
    [] e = "opencode2" -> <<"tree", "row", "proxy">>
    [] e = "omp"       -> <<"row", "dirs", "tree", "proxy">>
    [] e = "crush"     -> <<"row", "dirs", "proxy">>

\* The steps after the engine, which not every engine takes in the same order.
Following(e, at) ==
  CASE at = "engine"  -> IF e \in {"omp", "crush"} THEN "changes" ELSE "publish"
    [] at = "publish" -> IF e = "omp" THEN "complete" ELSE "changes"
    [] at = "changes" -> IF e = "omp" THEN "publish" ELSE "complete"

\* A bug: crush's catch treats an unverified clean-up as any other failure.
UnverifiedIsFailure(e) == IF e = "crush" THEN EngineFailed(e) ELSE <<"retain">> \o Finally(e)
Unverified(e) == <<"retain">> \o Finally(e)

-----------------------------------------------------------------------------
(* From the options to the worktree: setupIsolation                        *)

\* validateCoderRunOptions, or an engine whose installed version is below its minimum.
Refused(r, e) == Becomes(r, GiveUp([run[r] EXCEPT !.engine = e], "failed", <<>>))

\* The engine, its models and the mode of its credentials are settled.
Chosen(r, e, at) == Becomes(r, [run[r] EXCEPT !.engine = e, !.at = at])

Begin(r) ==
  /\ Is(r, "start")
  /\ \E e \in Engine :
       \/ Chosen(r, e, "tree")
       \/ Chosen(r, e, "preflight")      \* --no-isolate
       \/ Refused(r, e)
  /\ UNCHANGED <<Git, Session>>

\* Isolation cannot be had: refused, or run in the caller's tree if that was allowed.
Unavailable(r) == Fail(r, <<>>) \/ Go(r, "preflight")

FindTree(r) ==
  /\ Is(r, "tree")
  /\ \/ tree # "absent" /\ Becomes(r, [run[r] EXCEPT !.at = "preflight", !.isolated = TRUE])
     \/ tree = "absent" /\ branch = "absent" /\ Go(r, "add")
     \/ tree = "absent" /\ branch # "absent" /\ Fail(r, <<>>)
     \/ Unavailable(r)
  /\ UNCHANGED <<Git, Session>>

AddTree(r) ==
  /\ Is(r, "add")
  /\ \/ /\ tree = "absent" /\ branch = "absent"
        /\ tree' = "clean" /\ branch' = "plain"
        /\ \/ Becomes(r, [run[r] EXCEPT !.at = "preflight", !.isolated = TRUE, !.fresh = TRUE])
           \/ Unavailable(r)                          \* its configuration could not be seeded
     \/ /\ tree # "absent" \/ branch # "absent"       \* another run was quicker
        /\ Fail(r, <<>>) /\ UNCHANGED <<tree, branch>>
     \/ Unavailable(r) /\ UNCHANGED <<tree, branch>>
  /\ UNCHANGED <<work, Session>>

-----------------------------------------------------------------------------
(* Audits, credential proxies, admission                                   *)

Preflight(r) ==
  /\ Is(r, "preflight")
  /\ \/ Fail(r, <<"tree">>)
     \/ \E n \in 0..(IF run[r].engine = "opencode2" /\ MaxProxies > 1 THEN 1 ELSE MaxProxies) :
          Becomes(r, [run[r] EXCEPT !.at = "proxy", !.needs = n])
  /\ UNCHANGED <<Git, Session>>

StartProxy(r) ==
  /\ Is(r, "proxy")
  /\ IF run[r].proxies < run[r].needs
     THEN \/ Becomes(r, [run[r] EXCEPT !.proxies = @ + 1])
          \/ Fail(r, <<"proxy", "tree">>)
     ELSE \/ Go(r, "admit")
          \/ run[r].engine = "opencode" /\ Fail(r, <<"proxy", "tree">>)   \* the merged configuration
  /\ UNCHANGED <<Git, Session>>

Admit(r) ==
  /\ Is(r, "admit")
  /\ \/ /\ identified /\ lease = NoRun /\ row \in {"absent", "idle"}
        /\ lease' = r
        /\ IF row = "idle" THEN row' = "running" /\ Becomes(r, [run[r] EXCEPT !.at = "prepare", !.claim = "resumed"])
                           ELSE row' = "reserved" /\ Becomes(r, [run[r] EXCEPT !.at = "prepare", !.claim = "new"])
     \/ ~identified /\ Go(r, "prepare") /\ UNCHANGED <<row, lease>>
     \/ Becomes(r, GiveUp(run[r], "rejected", <<"tree">>)) /\ UNCHANGED <<row, lease>>
  /\ UNCHANGED <<Git, identified>>

-----------------------------------------------------------------------------
(* The engine                                                              *)

Ready(r, q) == Becomes(r, [q EXCEPT !.at = "spawn"])
WithDirs(r) == [run[r] EXCEPT !.dirs = TRUE]
Prepares(r, engines) == Is(r, "prepare") /\ run[r].engine \in engines /\ UNCHANGED <<Git, Session>>

\* The session's real id is looked up.
PrepareOpencode(r) ==
  /\ Prepares(r, {"opencode"})
  /\ Ready(r, run[r]) \/ Fail(r, <<"tree", "row", "proxy">>)

\* Lookup, audits, runtime directories of the project and the binary, each with a clean-up of its own.
PrepareOpencode2(r) ==
  /\ Prepares(r, {"opencode2"})
  /\ Ready(r, run[r]) \/ Fail(r, <<"tree", "tree", "row", "proxy">>)

PrepareOmp(r) ==
  /\ Prepares(r, {"omp"})
  /\ \/ Ready(r, WithDirs(r))
     \/ Fail(r, <<"tree", "row", "proxy">>)                      \* the real id
     \/ Fail(r, <<"tree", "row", "dirs", "tree", "proxy">>)      \* no binary
     \/ Becomes(r, GiveUp(WithDirs(r), "failed", EngineFailed("omp")))

\* createCrushRuntimeConfig names the directories only when it has written all of them.
PrepareCrush(r) ==
  /\ Prepares(r, {"crush"})
  /\ \/ Ready(r, WithDirs(r))
     \/ Fail(r, <<"row", "proxy">>)
     \/ Becomes(r, GiveUp(WithDirs(r), "unrooted", <<"row", "proxy">>))

Spawn(r) ==
  /\ Is(r, "spawn")
  /\ \/ /\ Becomes(r, [run[r] EXCEPT !.at = "engine", !.group = "alive"])
        /\ row' = IF run[r].claim = "none" THEN row ELSE "running"
     \/ /\ Fail(r, IF run[r].engine = "crush" THEN AfterFailed("crush") ELSE EngineFailed(run[r].engine))
        /\ UNCHANGED row
  /\ UNCHANGED <<Git, lease, identified>>

\* The engine edits its worktree, or commits there; a group nobody saw die may, too.
EngineWrites(r) ==
  /\ run[r].isolated /\ run[r].group \in {"alive", "unverified"} /\ tree # "absent"
  /\ work' = work \cup {r}
  /\ \/ tree' = "dirty" /\ UNCHANGED branch
     \/ tree' = "clean" /\ branch' = "ahead"
  /\ UNCHANGED <<run, Session>>

Ended(r, group) == [run[r] EXCEPT !.group = group]

\* opencode's proxies are closed by the finally block around its engine alone.
EngineAnswers(r) ==
  /\ Is(r, "engine")
  /\ Becomes(r, [Ended(r, "gone") EXCEPT !.at = Following(run[r].engine, "engine"),
                                         !.proxies = IF run[r].engine = "opencode" THEN 0 ELSE @])
  /\ UNCHANGED <<Git, Session>>

\* No output, a usage limit, a binary that changed, an error of the spawn.
EngineFails(r) ==
  /\ Is(r, "engine")
  /\ Becomes(r, GiveUp(Ended(r, "gone"), "failed", EngineFailed(run[r].engine)))
  /\ UNCHANGED <<Git, Session>>

\* Its process group could not be shown to be gone.
EngineUnverified(r) ==
  /\ Is(r, "engine")
  /\ Becomes(r, GiveUp(Ended(r, "unverified"), "retained", Unverified(run[r].engine)))
  /\ UNCHANGED <<Git, Session>>

-----------------------------------------------------------------------------
(* After the engine: the mapping, the changes, the row, the envelope       *)

FailAfter(r) ==
  Becomes(r, GiveUp(run[r], IF run[r].engine = "opencode" THEN "stranded" ELSE "failed", AfterFailed(run[r].engine)))

Publish(r) ==
  /\ Is(r, "publish")
  /\ Go(r, Following(run[r].engine, "publish")) \/ FailAfter(r)
  /\ UNCHANGED <<Git, Session>>

\* computeWorktreeChanges; no list of changes, because there are none or because git could not
\* say, lets the worktree go.
Changes(r) ==
  /\ Is(r, "changes")
  /\ \/ run[r].isolated /\ Go(r, "remove")
     \/ (run[r].isolated => tree = "dirty") /\ Go(r, Following(run[r].engine, "changes"))
     \/ FailAfter(r)
  /\ UNCHANGED <<Git, Session>>

\* git worktree remove --force, then git branch -d, which keeps commits.
TakeTree(r) ==
  /\ tree # "absent"
  /\ tree' = "absent" /\ branch' = IF branch = "ahead" THEN branch ELSE "absent"

RemoveUnchanged(r) ==
  /\ Is(r, "remove")
  /\ LET q == [run[r] EXCEPT !.at = Following(run[r].engine, "changes")]
     IN  \/ TakeTree(r) /\ Becomes(r, [q EXCEPT !.took = q.group, !.fresh = @ /\ q.engine # "opencode2"])
         \/ Becomes(r, q) /\ UNCHANGED <<tree, branch>>       \* reported as a warning
  /\ UNCHANGED <<work, Session>>

\* finalizeV2SessionRow: the row is settled or kept for recovery, then the lease is released.
Settled(r, settled, onRelease, onStuck) ==
  \/ row' \in settled \cup {row} /\ lease' = NoRun /\ onRelease
  \/ row' \in settled \cup {row} /\ UNCHANGED lease /\ onStuck

Complete(r) ==
  /\ Is(r, "complete")
  /\ LET q == [run[r] EXCEPT !.attempted = TRUE]
         fails == GiveUp(q, IF q.engine = "opencode" THEN "kept" ELSE "failed", AfterFailed(q.engine))
     IN  IF q.claim = "none" THEN Go(r, "envelope") /\ UNCHANGED <<row, lease>>
         ELSE Settled(r, {"idle", "absent"},
                      Becomes(r, IF row' = "running" THEN fails ELSE [q EXCEPT !.at = "envelope"]),
                      Becomes(r, [fails EXCEPT !.stuck = TRUE]))
  /\ UNCHANGED <<Git, identified>>

Envelope(r) ==
  /\ Is(r, "envelope")
  /\ LET q == [run[r] EXCEPT !.dirs = @ /\ run[r].engine # "omp"]
     IN  \/ Becomes(r, GiveUp(q, "envelope", IF q.engine = "opencode" THEN <<>> ELSE Finally(q.engine)))
         \/ FailAfter(r)
  /\ UNCHANGED <<Git, Session>>

-----------------------------------------------------------------------------
(* Unwinding                                                               *)

Due(r, step) == Is(r, "unwind") /\ run[r].unwind # <<>> /\ Head(run[r].unwind) = step
Undone(r) == [run[r] EXCEPT !.unwind = Tail(@)]

\* cleanupAbandonedIsolation, once: git status, and the removal if that is clean.
AbandonTree(r) ==
  /\ Due(r, "tree")
  /\ LET mine == run[r].isolated /\ run[r].fresh /\ ~run[r].tried
     IN  Becomes(r, [Undone(r) EXCEPT !.tried = @ \/ mine,
                                      !.unwind = IF mine /\ tree = "clean" THEN <<"remove">> \o @ ELSE @])
  /\ UNCHANGED <<Git, Session>>

RemoveAbandoned(r) ==
  /\ Due(r, "remove")
  /\ \/ TakeTree(r) /\ Becomes(r, [Undone(r) EXCEPT !.took = run[r].group])
     \/ Becomes(r, Undone(r)) /\ UNCHANGED <<tree, branch>>
  /\ UNCHANGED <<work, Session>>

\* releaseV2SessionRow; one that throws leaves only the finally block.
ReleaseRow(r) ==
  /\ Due(r, "row")
  /\ LET q == [Undone(r) EXCEPT !.attempted = @ \/ run[r].claim # "none"]
     IN  IF run[r].claim = "none" \/ run[r].attempted THEN Becomes(r, q) /\ UNCHANGED <<row, lease>>
         ELSE Settled(r, IF q.claim = "new" THEN {"absent", "idle"} ELSE {"idle"},
                      Becomes(r, q), Becomes(r, [q EXCEPT !.stuck = TRUE, !.unwind = Finally(q.engine)]))
  /\ UNCHANGED <<Git, identified>>

\* retainV2SessionAfterUnverifiedCleanup: the row stays as it is, the lease is given back.
Retain(r) ==
  /\ Due(r, "retain")
  /\ LET q == [Undone(r) EXCEPT !.attempted = @ \/ run[r].claim # "none"]
     IN  \/ Becomes(r, q) /\ lease' = IF q.claim = "none" THEN lease ELSE NoRun
         \/ q.claim # "none" /\ Becomes(r, [q EXCEPT !.stuck = TRUE]) /\ UNCHANGED lease
  /\ UNCHANGED <<Git, row, identified>>

RemoveDirs(r) ==
  /\ Due(r, "dirs") /\ Becomes(r, [Undone(r) EXCEPT !.dirs = FALSE])
  /\ UNCHANGED <<Git, Session>>

ReleaseProxies(r) ==
  /\ Due(r, "proxy") /\ Becomes(r, [Undone(r) EXCEPT !.proxies = 0])
  /\ UNCHANGED <<Git, Session>>

Leave(r) ==
  /\ Is(r, "unwind") /\ run[r].unwind = <<>>
  /\ Becomes(r, [run[r] EXCEPT !.at = "over", !.tried = FALSE, !.needs = 0])
  /\ UNCHANGED <<Git, Session>>

RunStep(r) ==
  \/ Begin(r) \/ FindTree(r) \/ AddTree(r) \/ Preflight(r) \/ StartProxy(r) \/ Admit(r)
  \/ PrepareOpencode(r) \/ PrepareOpencode2(r) \/ PrepareOmp(r) \/ PrepareCrush(r) \/ Spawn(r)
  \/ EngineWrites(r) \/ EngineAnswers(r) \/ EngineFails(r) \/ EngineUnverified(r)
  \/ Publish(r) \/ Changes(r) \/ RemoveUnchanged(r)
  \/ Complete(r) \/ Envelope(r) \/ AbandonTree(r) \/ RemoveAbandoned(r)
  \/ ReleaseRow(r) \/ Retain(r) \/ RemoveDirs(r) \/ ReleaseProxies(r) \/ Leave(r)

RunNext == \E r \in Run : RunStep(r)
RunSpec == RunInit /\ [][RunNext]_runVars

-----------------------------------------------------------------------------
(* Properties                                                              *)

Over(r) == Is(r, "over")

\* Whatever failed, and wherever, a run that is over has closed its proxies, released its leases
\* and removed its directories. The exits that do not are named: a rejected admission
\* leaves the proxies, opencode's steps after its engine leave the lease, and the directories
\* outlive an unverified clean-up of omp and a half-written configuration of crush.
EveryExitSettles ==
  \A r \in Run : Over(r) =>
    /\ run[r].proxies > 0 => run[r].end = "rejected"
    /\ lease = r => run[r].stuck \/ run[r].end = "stranded"
    /\ run[r].dirs => \/ run[r].end = "unrooted"
                      \/ run[r].engine = "omp" /\ (run[r].end = "retained" \/ run[r].stuck)

\* While an engine's death is not established its slug stays busy: the row is running, and no
\* other run was admitted in its place.
UnverifiedStaysBusy ==
  \A r \in Run : run[r].group = "unverified" /\ run[r].claim # "none" =>
    row = "running" /\ (lease = NoRun \/ lease = r)

\* No run removes a worktree under its own engine, dead or not known to be; and an envelope is
\* only ever written for an engine seen to end and a row that was settled.
NoTreeUnderItsEngine ==
  \A r \in Run : /\ run[r].took \notin {"alive", "unverified"}
                 /\ run[r].end = "envelope" => /\ run[r].group = "gone" /\ ~run[r].stuck
                                               /\ run[r].claim = "none" \/ run[r].attempted

\* A protected engine, and one whose death is not established, keeps no proxy of another's run
\* and never runs without its own: they are closed after it and not before.
ProxiesOutliveTheEngine ==
  \A r \in Run : run[r].group = "alive" => run[r].proxies = run[r].needs

RunInv == RunTypeOK /\ EveryExitSettles /\ UnverifiedStaysBusy /\ NoTreeUnderItsEngine /\ ProxiesOutliveTheEngine

\* What an engine left in its worktree is there, or on its branch, until somebody has seen it.
\* "files_changed is [] ONLY for a successfully performed comparison that found nothing"
\* (coder.js lines 8100-8102): a git diff that failed gives the same empty list, and the
\* worktree is removed with what the engine wrote. Of several runs another one may be
\* the culprit: cleanupAbandonedIsolation removes a worktree "only when the engine wrote nothing
\* to it" (line 4245), but an engine of a run that was admitted first may write after it looked.
WorkSurvives == work # {} => tree = "dirty" \/ branch = "ahead"

=============================================================================
