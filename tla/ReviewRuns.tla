----------------------------- MODULE ReviewRuns -----------------------------
(* The disposable folders of pull request reviews (review-pr-registry.js,  *)
(* review-pr.js, review-pr-fetch.js).  Each acquisition makes one folder   *)
(* under the registry lock, says in a marker how far it is, fetches into   *)
(* it, and always tries to give everything back; afterwards it removes     *)
(* what other acquisitions left behind, outside the lock.  An acquisition  *)
(* may die between any two steps, and may be suspended for any time, and   *)
(* every operation on the disk may fail.                                   *)
EXTENDS Integers, FiniteSets

CONSTANTS Acquirer,   \* the acquisitions, each with a folder of its own
          MaxRuns,    \* PR_REGISTRY_MAX_RUNS
          Grace,      \* how long a folder may stay reserved (graceMs)
          RunUnits,   \* PR_REGISTRY_ROOT_QUOTA_BYTES
          FetchUnits, \* PR_FETCH_FS_QUOTA_BYTES
          QuotaUnits, \* the limit of an acquisition's quota handle
          MaxToday,   \* bound: the clock
          MaxDead     \* bound: acquisitions that die

ASSUME RunsAssumption ==
  /\ MaxRuns \in Nat \ {0} /\ {Grace, MaxToday, MaxDead} \subseteq Nat
  /\ {RunUnits, FetchUnits, QuotaUnits} \subseteq Nat \ {0}

ASSUME AcquirerAssumption == IsFiniteSet(Acquirer) /\ "nobody" \notin Acquirer

VARIABLES folder,    \* the folder of each acquisition, as the disk has it
          acquirer,  \* what each acquisition does and holds
          registry,  \* who holds .registry.lock
          mishaps,   \* what went wrong around the folder of each (history)
          today

runVars == <<folder, acquirer, registry, mishaps, today>>

(* An operation on the folder itself that failed, the folder of the        *)
(* repository that could not be made, another acquisition's recovery that  *)
(* removed the folder, the listing of the folders that failed.             *)
Mishap == {"disk", "bare", "swept", "unlisted"}
Suffers(a, mishap) == mishaps' = [mishaps EXCEPT ![a] = @ \cup {mishap}]

Lifecycle == <<"reserving", "live", "release_pending", "acknowledged">>
Unread == "no marker"
Rank(state) == IF state = Unread THEN 0 ELSE CHOOSE i \in 1..4 : state = Lifecycle[i]
NoFolder == [state |-> "absent", made |-> 0, bare |-> FALSE]
There(a) == folder[a] # NoFolder
Marker(a) == IF There(a) THEN folder[a].state ELSE Unread
FreeRegistry == "nobody"

NewAcquirer ==
  [at |-> "idle", saw |-> Unread, target |-> "live", quota |-> 0, fetched |-> 0,
   result |-> "none", names |-> {}, late |-> FALSE]

Proceeds(a, at) == acquirer' = [acquirer EXCEPT ![a].at = at]
AtRun(a, at) == acquirer[a].at = at
Less(units, given) == IF units < given THEN 0 ELSE units - given

(* --- createPrRunDirectory --------------------------------------------- *)
(* A bug: folders are counted and made outside the registry lock.          *)
EnterUnlocked(a) ==
  /\ AtRun(a, "idle")
  /\ Proceeds(a, "listing")
  /\ UNCHANGED <<folder, registry, mishaps, today>>

EnterRegistry(a) ==
  /\ AtRun(a, "idle") /\ registry = FreeRegistry
  /\ registry' = a /\ Proceeds(a, "listing")
  /\ UNCHANGED <<folder, mishaps, today>>

(* What throws before there is a folder or a reservation ends the          *)
(* acquisition: the root of the folders cannot be made, the lock is busy   *)
(* for too long.                                                           *)
Broken(q) == [q EXCEPT !.at = "returned", !.result = "failed"]

EnterFails(a) ==
  /\ AtRun(a, "idle")
  /\ acquirer' = [acquirer EXCEPT ![a] = Broken(@)]
  /\ UNCHANGED <<folder, registry, mishaps, today>>

Folders == {a \in Acquirer : There(a)}

(* A listing that fails counts as one without any folder.                  *)
ListRuns(a) ==
  /\ AtRun(a, "listing")
  /\ \E listed \in {Folders, {}} :
       IF Cardinality(listed) >= MaxRuns \/ acquirer[a].quota + RunUnits > QuotaUnits
       THEN /\ acquirer' = [acquirer EXCEPT ![a].at = "returned", ![a].result = "limit"]
            /\ registry' = FreeRegistry /\ UNCHANGED mishaps
       ELSE /\ acquirer' = [acquirer EXCEPT ![a].at = "making", ![a].quota = @ + RunUnits]
            /\ IF listed # Folders THEN Suffers(a, "unlisted") ELSE UNCHANGED mishaps
            /\ UNCHANGED registry
  /\ UNCHANGED <<folder, today>>

MakeFolder(a) ==
  /\ AtRun(a, "making")
  /\ folder' = [folder EXCEPT ![a] = [state |-> Unread, made |-> today, bare |-> FALSE]]
  /\ Proceeds(a, "marking")
  /\ UNCHANGED <<registry, mishaps, today>>

MarkReserving(a) ==
  /\ AtRun(a, "marking")
  /\ folder' = [folder EXCEPT ![a].state = "reserving", ![a].made = today]
  /\ registry' = FreeRegistry /\ Proceeds(a, "publishing")
  /\ UNCHANGED <<mishaps, today>>

(* The folder or its first marker cannot be made, or the lock does not     *)
(* close cleanly once they are: nothing takes the folder or what was       *)
(* reserved for it back.                                                   *)
MakeFails(a) ==
  /\ \/ AtRun(a, "making") /\ UNCHANGED folder
     \/ /\ AtRun(a, "marking")
        /\ \/ UNCHANGED folder
           \/ folder' = [folder EXCEPT ![a].state = "reserving", ![a].made = today]
  /\ acquirer' = [acquirer EXCEPT ![a] = Broken(@)]
  /\ registry' = FreeRegistry /\ Suffers(a, "disk")
  /\ UNCHANGED today

(* --- publishPrRunState: read the marker, then replace it ------------- *)
(* Where an acquisition goes once the marker says what it wanted to say,   *)
(* and where it goes when publishing throws.                               *)
AfterPublish(q) ==
  CASE q.target = "live" -> [q EXCEPT !.at = "fetching", !.target = "release_pending"]
    [] q.target = "release_pending" -> [q EXCEPT !.at = "publishing", !.target = "acknowledged"]
    [] OTHER -> [q EXCEPT !.at = "cleaning"]

Thrown(q) ==
  IF q.target = "live" THEN [q EXCEPT !.at = "publishing", !.target = "release_pending", !.result = "failed"]
  ELSE [q EXCEPT !.at = "cleaning"]

(* A marker that cannot be read counts as none.                            *)
PublishReads(a) ==
  LET target == acquirer[a].target
  IN  /\ AtRun(a, "publishing")
      /\ \E seen \in {Marker(a), Unread} :
           acquirer' = [acquirer EXCEPT ![a] =
             IF seen = target THEN AfterPublish(@)
             ELSE IF Rank(target) <= Rank(seen) THEN Thrown(@)
             ELSE [@ EXCEPT !.at = "renaming"]]
      /\ UNCHANGED <<folder, registry, mishaps, today>>

(* The temporary file is written into the folder: without one it throws.   *)
(* `late` records that the folder was taken into use after its grace.      *)
PublishWrites(a) ==
  LET target == acquirer[a].target
  IN  /\ AtRun(a, "renaming")
      /\ IF There(a)
         THEN /\ folder' = [folder EXCEPT ![a].state = target]
              /\ acquirer' = [acquirer EXCEPT ![a] =
                   [AfterPublish(@) EXCEPT !.late = acquirer[a].late \/ (target = "live" /\ today - folder[a].made > Grace)]]
         ELSE /\ acquirer' = [acquirer EXCEPT ![a] = [Thrown(@) EXCEPT !.late = acquirer[a].late \/ target = "live"]]
              /\ UNCHANGED folder
      /\ UNCHANGED <<registry, mishaps, today>>

(* The temporary file cannot be written or renamed though the folder       *)
(* stands.  A folder that never says `live` is still cleaned; one that     *)
(* does not say `acknowledged` is not.                                     *)
PublishFails(a) ==
  /\ AtRun(a, "renaming") /\ There(a)
  /\ acquirer' = [acquirer EXCEPT ![a] = Thrown(@)]
  /\ IF acquirer[a].target = "live" THEN UNCHANGED mishaps ELSE Suffers(a, "disk")
  /\ UNCHANGED <<folder, registry, today>>

(* --- acquireSelectedPrDiff, fetchExactPrObjects ----------------------- *)
Leaving(q, result) == [q EXCEPT !.at = "publishing", !.result = result, !.target = "release_pending"]
LeavesWith(a, result) == acquirer' = [acquirer EXCEPT ![a] = Leaving(@, result)]

(* `mkdir -p` makes the folder again when somebody has removed it.         *)
FetchReserves(a) ==
  /\ AtRun(a, "fetching")
  /\ IF acquirer[a].quota + FetchUnits > QuotaUnits
     THEN LeavesWith(a, "limit") /\ UNCHANGED folder
     ELSE /\ acquirer' = [acquirer EXCEPT ![a].at = "verifying", ![a].quota = @ + FetchUnits]
          /\ folder' = [folder EXCEPT ![a] =
                          IF There(a) THEN [@ EXCEPT !.bare = TRUE]
                          ELSE [state |-> Unread, made |-> today, bare |-> TRUE]]
  /\ UNCHANGED <<registry, mishaps, today>>

(* The folder of the repository cannot be made: what was reserved for it   *)
(* a line before is not given back then or later.                          *)
BareFails(a) ==
  /\ AtRun(a, "fetching") /\ acquirer[a].quota + FetchUnits <= QuotaUnits
  /\ acquirer' = [acquirer EXCEPT ![a] = [Leaving(@, "failed") EXCEPT !.quota = acquirer[a].quota + FetchUnits]]
  /\ Suffers(a, "bare")
  /\ UNCHANGED <<folder, registry, today>>

FetchFails(a) ==
  /\ AtRun(a, "verifying")
  /\ \E result \in {"limit", "invalid"} :
       acquirer' = [acquirer EXCEPT ![a] = [Leaving(@, result) EXCEPT !.quota = acquirer[a].quota - FetchUnits]]
  /\ UNCHANGED <<folder, registry, mishaps, today>>

FetchVerifies(a) ==
  /\ AtRun(a, "verifying")
  /\ acquirer' = [acquirer EXCEPT ![a].at = "selecting", ![a].fetched = FetchUnits]
  /\ UNCHANGED <<folder, registry, mishaps, today>>

(* The merge base, the inventory and the selected content: each may fail.  *)
Select(a) ==
  /\ AtRun(a, "selecting")
  /\ \E result \in {"ok", "limit", "invalid"} : LeavesWith(a, result)
  /\ UNCHANGED <<folder, registry, mishaps, today>>

(* --- cleanPrRunDirectory ---------------------------------------------- *)
CleanReads(a) ==
  /\ AtRun(a, "cleaning")
  /\ Proceeds(a, IF Marker(a) = "acknowledged" THEN "unlinking" ELSE "naming")
  /\ UNCHANGED <<folder, registry, mishaps, today>>

(* The marker says `acknowledged` but cannot be read: the folder stays     *)
(* until somebody's recovery removes it, its units stay reserved.          *)
CleanUnread(a) ==
  /\ AtRun(a, "cleaning") /\ Marker(a) = "acknowledged"
  /\ Proceeds(a, "naming") /\ Suffers(a, "disk")
  /\ UNCHANGED <<folder, registry, today>>

(* A folder is emptied and then removed: who dies in between leaves one    *)
(* without a marker.                                                       *)
Empties(b) == folder' = [folder EXCEPT ![b] = IF There(b) THEN [@ EXCEPT !.state = Unread, !.bare = FALSE] ELSE @]
Removes(b) == folder' = [folder EXCEPT ![b] = NoFolder]

CleanEmpties(a) ==
  /\ AtRun(a, "unlinking")
  /\ Empties(a) /\ Proceeds(a, "removing")
  /\ UNCHANGED <<registry, mishaps, today>>

CleanRemoves(a) ==
  /\ AtRun(a, "removing")
  /\ Removes(a)
  /\ acquirer' = [acquirer EXCEPT ![a].at = "naming", ![a].quota = Less(@, RunUnits)]
  /\ UNCHANGED <<registry, mishaps, today>>

(* The reservation of the fetch goes last, with the folder or without.     *)
Departs(q) == [q EXCEPT !.at = "returned", !.quota = Less(@, q.fetched), !.fetched = 0]

(* Removing throws, before anything is gone or half-way: the exception     *)
(* replaces whatever the acquisition would have answered.                  *)
CleanFails(a) ==
  /\ AtRun(a, "unlinking") \/ AtRun(a, "removing")
  /\ acquirer' = [acquirer EXCEPT ![a] = Broken(Departs(@))]
  /\ Suffers(a, "disk")
  /\ UNCHANGED <<folder, registry, today>>

(* --- recoverPrRunDirectories ------------------------------------------ *)
RecoverLists(a) ==
  /\ AtRun(a, "naming")
  /\ \E listed \in {Folders, {}} : acquirer' = [acquirer EXCEPT ![a].at = "recovering", ![a].names = listed]
  /\ UNCHANGED <<folder, registry, mishaps, today>>

Abandoned(b) ==
  \/ Marker(b) = "reserving" /\ today - folder[b].made > Grace
  \/ Marker(b) = "acknowledged"

(* A folder whose marker cannot be read, or says anything else, stays.     *)
Recover(a) ==
  /\ AtRun(a, "recovering")
  /\ \E b \in acquirer[a].names :
       \/ Abandoned(b) /\ acquirer' = [acquirer EXCEPT ![a].at = "emptying", ![a].saw = b]
       \/ acquirer' = [acquirer EXCEPT ![a].names = @ \ {b}]
  /\ UNCHANGED <<folder, registry, mishaps, today>>

Sweeps(a) == IF acquirer[a].saw # a THEN Suffers(acquirer[a].saw, "swept") ELSE UNCHANGED mishaps

RecoverEmpties(a) ==
  /\ AtRun(a, "emptying")
  /\ Empties(acquirer[a].saw) /\ Sweeps(a) /\ Proceeds(a, "sweeping")
  /\ UNCHANGED <<registry, today>>

RecoverRemoves(a) ==
  /\ AtRun(a, "sweeping")
  /\ Removes(acquirer[a].saw) /\ Sweeps(a)
  /\ acquirer' = [acquirer EXCEPT ![a].at = "recovering", ![a].names = @ \ {acquirer[a].saw}, ![a].saw = Unread]
  /\ UNCHANGED <<registry, today>>

RecoverFails(a) ==
  /\ AtRun(a, "emptying") \/ AtRun(a, "sweeping")
  /\ acquirer' = [acquirer EXCEPT ![a] = [Broken(Departs(@)) EXCEPT !.names = {}, !.saw = Unread]]
  /\ UNCHANGED <<folder, registry, mishaps, today>>

Return(a) ==
  /\ AtRun(a, "recovering") /\ acquirer[a].names = {}
  /\ acquirer' = [acquirer EXCEPT ![a] = Departs(@)]
  /\ UNCHANGED <<folder, registry, mishaps, today>>

AcquirerDies(a) ==
  /\ acquirer[a].at \notin {"idle", "returned", "dead"}
  /\ Cardinality({b \in Acquirer : AtRun(b, "dead")}) < MaxDead
  /\ Proceeds(a, "dead")
  /\ registry' = IF registry = a THEN FreeRegistry ELSE registry
  /\ UNCHANGED <<folder, mishaps, today>>

DaysPass ==
  /\ today < MaxToday /\ today' = today + 1
  /\ UNCHANGED <<folder, acquirer, registry, mishaps>>

AcquireStep(a) ==
  \/ EnterRegistry(a) \/ EnterFails(a) \/ ListRuns(a) \/ MakeFolder(a) \/ MarkReserving(a) \/ MakeFails(a)
  \/ PublishReads(a) \/ PublishWrites(a) \/ PublishFails(a)
  \/ FetchReserves(a) \/ BareFails(a) \/ FetchFails(a) \/ FetchVerifies(a) \/ Select(a)
  \/ CleanReads(a) \/ CleanUnread(a) \/ CleanEmpties(a) \/ CleanRemoves(a) \/ CleanFails(a)
  \/ RecoverLists(a) \/ Recover(a) \/ RecoverEmpties(a) \/ RecoverRemoves(a) \/ RecoverFails(a) \/ Return(a)

RunsInit ==
  /\ folder = [a \in Acquirer |-> NoFolder]
  /\ acquirer = [a \in Acquirer |-> NewAcquirer]
  /\ registry = FreeRegistry /\ today = 0
  /\ mishaps = [a \in Acquirer |-> {}]

RunsNext == DaysPass \/ \E a \in Acquirer : AcquireStep(a) \/ AcquirerDies(a)

RunsSpec == RunsInit /\ [][RunsNext]_runVars

(* --- properties ------------------------------------------------------- *)
Works(a) == acquirer[a].at \in {"fetching", "verifying", "selecting"}

(* No more folders than the cap: counting and making happen under one      *)
(* lock, whoever else makes or removes a folder meanwhile.  On top come    *)
(* only the folders of acquisitions that slept through their grace, or     *)
(* whose listing failed.                                                   *)
RunsAreCapped == Cardinality({a \in Folders : ~acquirer[a].late /\ "unlisted" \notin mishaps[a]}) <= MaxRuns

(* The folder an acquisition fetches into is there and says `live`,        *)
(* whatever the recovery of another removes, unless the acquisition slept  *)
(* through its grace before it took the folder into use.                   *)
LiveRunsKeepTheirFolder ==
  \A a \in Acquirer : Works(a) /\ ~acquirer[a].late => Marker(a) = "live"

(* As long as the process lives, what an acquisition has on the disk is    *)
(* covered by what it has reserved: the folder by the run's units, even    *)
(* when it could not be cleaned, and a verified repository by the units of *)
(* the fetch as well until the acquisition returns.                        *)
DiskIsReserved ==
  \A a \in Acquirer :
    There(a) /\ ~AtRun(a, "dead") =>
      acquirer[a].quota >= RunUnits + (IF acquirer[a].fetched > 0 /\ folder[a].bare THEN FetchUnits ELSE 0)

(* An acquisition gives everything back whatever git refuses, whoever      *)
(* shares the registry and however long it sleeps.  The run's units stay   *)
(* reserved only when an operation on its folder failed or the recovery of *)
(* another acquisition took the folder first, the units of the fetch only  *)
(* when the folder of the repository could not be made; nothing else is    *)
(* ever kept.                                                              *)
Unharmed(a) == mishaps[a] \cap {"disk", "swept"} = {}
Leaked(a) == IF "bare" \in mishaps[a] THEN FetchUnits ELSE 0
EverythingIsGivenBack ==
  \A a \in Acquirer : AtRun(a, "returned") =>
    /\ Unharmed(a) => ~There(a) /\ acquirer[a].quota = Leaked(a)
    /\ acquirer[a].quota \in {Leaked(a), RunUnits + Leaked(a)}

RunsTypeOK ==
  /\ \A a \in Acquirer :
       /\ folder[a].state \in {"absent", Unread} \cup {Lifecycle[i] : i \in 1..4}
       /\ acquirer[a].quota \in 0..QuotaUnits /\ acquirer[a].fetched \in {0, FetchUnits}
       /\ acquirer[a].names \subseteq Acquirer /\ mishaps[a] \subseteq Mishap
  /\ registry \in Acquirer \cup {FreeRegistry} /\ today \in 0..MaxToday

(* The registry of disposable folders is sound: the types, the cap, no     *)
(* live folder removed under its owner, reservations that cover the disk   *)
(* and are given back (createPrRunDirectory, publishPrRunState,            *)
(* recoverPrRunDirectories, withDisposablePrRepository).                   *)
RunsInv ==
  RunsTypeOK /\ RunsAreCapped /\ LiveRunsKeepTheirFolder /\ DiskIsReserved /\ EverythingIsGivenBack
=============================================================================
