---------------------------- MODULE CoderSession ----------------------------
(***************************************************************************)
(* The life of a named coder session: admission, run, publication and      *)
(* completion of a run cycle (reserveV2SessionRow ... finalizeV2SessionRow *)
(* of src/src/commands/coder.js), `session clean`, and the crash of the    *)
(* process that runs either, over                                          *)
(*   - the canonical inventory row of each engine/slug,                    *)
(*   - the session store's mapping slug -> native conversation id,         *)
(*   - the target lease, the slot leases and the inventory lock.           *)
(* The three are the exclusive locks of FixedLock, each here as its owner; *)
(* the maintenance lease is left out: every actor here takes it shared.    *)
(***************************************************************************)
EXTENDS Naturals, FiniteSets

CONSTANTS
  Run,            \* run cycles; a run that reserves a row mints its instance id
  Clean,          \* `session clean` commands
  Process,        \* processes (the MCP server runs several actors in one)
  ProcessOf,      \* ProcessOf[a]: the process of a run or a clean
  StoreEngine,    \* engines with a namespace in the session store
  OtherEngine,    \* engines without (crush): the native id is the slug
  Unguarded,      \* store engines that publish outside any catch (opencode)
  Slug,
  Requests,       \* what may be asked for: records [key, isolated]
  SlotCount,      \* 4 in the code
  MaxRows,        \* rows an engine's inventory holds, 4 in the code
  Retries,        \* RUN_LEASE_RETRIES, 8 in the code
  Legacy,         \* native id of a mapping left by an older version
  None

Engine == StoreEngine \cup OtherEngine
Key == [engine : Engine, slug : Slug]
Actor == Run \cup Clean
Slots == 0..(SlotCount - 1)
RealId == Run \cup Slug \cup {Legacy}

ASSUME ActorAssumption == Run \cap Clean = {} /\ IsFiniteSet(Key)
ASSUME ProcessAssumption == ProcessOf \in [Actor -> Process]
ASSUME RequestAssumption == Requests \subseteq [key : Key, isolated : BOOLEAN]
ASSUME SizeAssumption ==
  SlotCount \in Nat \ {0} /\ MaxRows \in Nat \ {0} /\ Retries \in Nat \ {0}

VARIABLES
  rows,       \* rows[k]: the inventory row of k, or None
  mapping,    \* mapping[k]: the session store's native id of k, or None
  slots,      \* slots[n]: owner of slot lease n, or None
  target,     \* owner of the non-isolated target lease, or None
  inventory,  \* owner of the inventory lock inside a longer section, or None
  alive,      \* alive[p]
  pc,         \* pc[a]: where actor a stands
  job,        \* job[a]: what a asked for and remembers
  stripped,   \* history: keys whose row lost its mapping to an orphan clean
  adrift,     \* runs that are over while their engine's group still works
  cleaned     \* history: those of them whose row a clean has marked since

vars == <<rows, mapping, slots, target, inventory, alive, pc, job, stripped, adrift, cleaned>>
leases == <<slots, target>>
engines == <<adrift, cleaned>>

Row == [state : {"reserved", "running", "idle", "deleting"},
        instance : Run, owner : Actor \cup {None}, slot : Slots, isolated : BOOLEAN]

ASSUME NoneAssumption == None \notin Actor \cup Key \cup RealId /\ None \notin Row

Job == [key : Key \cup {None}, isolated : BOOLEAN, slot : Slots, tries : 0..Retries,
        continues : BOOLEAN, instance : Run \cup {None},
        resumed : RealId \cup {None}, native : RealId \cup {None},
        published : RealId \cup {None}, force : BOOLEAN, snap : Row \cup {None}]

Executing == {"engine", "publish", "complete"}
Steps == {"new", "select", "target", "slot", "admit", "admitted", "abandon",
          "unlink", "drop", "scan", "orphan", "mark", "done", "leaked", "dead"}
         \cup Executing

TypeOK ==
  /\ rows \in [Key -> Row \cup {None}]
  /\ mapping \in [Key -> RealId \cup {None}]
  /\ slots \in [Slots -> Actor \cup {None}]
  /\ target \in Actor \cup {None}
  /\ inventory \in Actor \cup {None}
  /\ alive \in [Process -> BOOLEAN]
  /\ pc \in [Actor -> Steps]
  /\ job \in [Actor -> Job]
  /\ stripped \subseteq Key
  /\ adrift \subseteq Run /\ cleaned \subseteq adrift
  /\ \A e \in Engine :
       Cardinality({k \in Key : k.engine = e /\ rows[k] # None}) <= MaxRows

NoJob == [key |-> None, isolated |-> FALSE, slot |-> 0, tries |-> 0,
          continues |-> FALSE, instance |-> None, resumed |-> None,
          native |-> None, published |-> None, force |-> FALSE, snap |-> None]

\* A store may hold one mapping that an older version left without a row.
Init ==
  /\ rows = [k \in Key |-> None]
  /\ mapping \in {m \in [Key -> {None, Legacy}] :
                    /\ \A k \in Key : m[k] = Legacy => k.engine \in StoreEngine
                    /\ Cardinality({k \in Key : m[k] = Legacy}) <= 1}
  /\ slots = [n \in Slots |-> None]
  /\ target = None
  /\ inventory = None
  /\ alive = [p \in Process |-> TRUE]
  /\ pc = [a \in Actor |-> "new"]
  /\ job = [a \in Actor |-> NoJob]
  /\ stripped = {}
  /\ adrift = {} /\ cleaned = {}

-----------------------------------------------------------------------------
(* Project-wide slots (src/src/coder-session-slots.js).                    *)

Present == {k \in Key : rows[k] # None}
LiveRows == {k \in Present : rows[k].state \in {"reserved", "running", "deleting"}}
SameSlug(s) == {k \in Present : k.slug = s}

\* projectCoderSessionSlots finds no reason to complain.
SlotsConsistent ==
  /\ \A j, k \in Present : j.slug = k.slug => rows[j].slot = rows[k].slot
  /\ \A j, k \in LiveRows : j.slug # k.slug => rows[j].slot # rows[k].slot

FreeSlots == Slots \ {rows[k].slot : k \in LiveRows}

Resolvable(s) == SlotsConsistent /\ (SameSlug(s) = {} => FreeSlots # {})

\* resolveProjectCoderSessionSlot: the stored slot of the slug, else the
\* lowest slot no live row has.  There is one if the slug is resolvable.
IsCanonicalSlot(s, n) ==
  IF SameSlug(s) # {}
  THEN \E k \in SameSlug(s) : rows[k].slot = n
  ELSE n \in FreeSlots /\ \A m \in FreeSlots : n <= m

\* Another slug is live on the slot s would take or keep.
Conflict(s, n) == \E k \in LiveRows : k.slug # s /\ rows[k].slot = n

-----------------------------------------------------------------------------
(* Helpers.                                                                *)

Goto(a, s) == pc' = [pc EXCEPT ![a] = s]
Key_(a) == job[a].key
InStore(a) == Key_(a).engine \in StoreEngine
Row_(a) == rows[Key_(a)]

FreeLeases(a) ==
  /\ slots' = [n \in Slots |-> IF slots[n] = a THEN None ELSE slots[n]]
  /\ target' = IF target = a THEN None ELSE target

\* A bug: an early return forgets the leases.
EndHolding(a) == UNCHANGED leases /\ Goto(a, "done")

\* The actor is finished and its leases are given back.
End(a) == FreeLeases(a) /\ Goto(a, "done")

SetRow(a, row) == rows' = [rows EXCEPT ![Key_(a)] = row]

\* rowOwnedByRun: the whole owner tuple and the immutable instance id.
Owned(r) ==
  /\ Row_(r) # None
  /\ Row_(r).owner = r
  /\ Row_(r).instance = job[r].instance

-----------------------------------------------------------------------------
(* Admission under the run lease (acquireCoderSessionRunLease).            *)

StartRun(r, q) ==
  /\ pc[r] = "new"
  /\ alive[ProcessOf[r]]
  /\ job' = [job EXCEPT ![r].key = q.key, ![r].isolated = q.isolated]
  /\ Goto(r, "select")
  /\ UNCHANGED <<rows, mapping, leases, inventory, alive, stripped, engines>>

SelectSlot(r) ==
  /\ pc[r] = "select"
  /\ inventory = None
  /\ Resolvable(Key_(r).slug)
  /\ \E n \in Slots :
       IsCanonicalSlot(Key_(r).slug, n) /\ job' = [job EXCEPT ![r].slot = n]
  /\ Goto(r, "target")
  /\ UNCHANGED <<rows, mapping, leases, inventory, alive, stripped, engines>>

\* No slot is free, or the inventories contradict each other.
SelectFails(r) ==
  /\ pc[r] = "select"
  /\ inventory = None
  /\ ~Resolvable(Key_(r).slug)
  /\ End(r)
  /\ UNCHANGED <<rows, mapping, inventory, alive, job, stripped, engines>>

\* Conditional target lease, for runs and for the rows of cleans.
TakeTarget(a) ==
  /\ pc[a] = "target"
  /\ IF job[a].isolated THEN UNCHANGED target ELSE target = None /\ target' = a
  /\ Goto(a, "slot")
  /\ UNCHANGED <<rows, mapping, slots, inventory, alive, job, stripped, engines>>

\* A bug: the slot lease is not taken.
SkipSlot(a) ==
  /\ pc[a] = "slot"
  /\ Goto(a, IF a \in Run THEN "admit" ELSE "mark")
  /\ UNCHANGED <<rows, mapping, leases, inventory, alive, job, stripped, engines>>

TakeSlot(a) ==
  /\ pc[a] = "slot"
  /\ slots[job[a].slot] = None
  /\ slots' = [slots EXCEPT ![job[a].slot] = a]
  /\ Goto(a, IF a \in Run THEN "admit" ELSE "mark")
  /\ UNCHANGED <<rows, mapping, target, inventory, alive, job, stripped, engines>>

\* classifyAndWrite finds the candidate stale: slot and target go back, a
\* bounded number of times.
Retake(r) ==
  /\ pc[r] = "admit"
  /\ inventory = None
  /\ Resolvable(Key_(r).slug)
  /\ ~IsCanonicalSlot(Key_(r).slug, job[r].slot)
  /\ FreeLeases(r)
  /\ job' = [job EXCEPT ![r].tries = @ + 1]
  /\ Goto(r, IF job[r].tries + 1 < Retries THEN "select" ELSE "done")
  /\ UNCHANGED <<rows, mapping, inventory, alive, stripped, engines>>

\* The candidate is the canonical slot and, for a slug that has rows, no
\* other live slug sits on it.
CandidateHolds(r) ==
  LET s == Key_(r).slug
  IN  /\ inventory = None
      /\ Resolvable(s)
      /\ IsCanonicalSlot(s, job[r].slot)
      /\ SameSlug(s) # {} => ~Conflict(s, job[r].slot)

\* A bug: the capacity of the inventory is not checked.
Unbounded(r) == Row_(r) = None /\ (InStore(r) => mapping[Key_(r)] = None)

MayReserve(r) ==
  /\ Row_(r) = None
  /\ InStore(r) => mapping[Key_(r)] = None
  /\ Cardinality({k \in Present : k.engine = Key_(r).engine}) < MaxRows

\* A bug: only reserved and running rows are busy.
ContinuesDeleting(r) ==
  /\ Row_(r) # None
  /\ Row_(r).state \in {"idle", "deleting"}
  /\ Row_(r).isolated = job[r].isolated
  /\ InStore(r) => mapping[Key_(r)] # None

MayContinue(r) ==
  /\ Row_(r) # None
  /\ Row_(r).state = "idle"
  /\ Row_(r).isolated = job[r].isolated
  /\ InStore(r) => mapping[Key_(r)] # None

AdmitNew(r) ==
  /\ pc[r] = "admit"
  /\ CandidateHolds(r)
  /\ MayReserve(r)
  /\ SetRow(r, [state |-> "reserved", instance |-> r, owner |-> r,
                slot |-> job[r].slot, isolated |-> job[r].isolated])
  /\ job' = [job EXCEPT ![r].instance = r]
  /\ Goto(r, "admitted")
  /\ UNCHANGED <<mapping, leases, inventory, alive, stripped, engines>>

AdmitContinuation(r) ==
  /\ pc[r] = "admit"
  /\ CandidateHolds(r)
  /\ MayContinue(r)
  /\ SetRow(r, [Row_(r) EXCEPT !.state = "running", !.owner = r, !.slot = job[r].slot])
  /\ job' = [job EXCEPT ![r].instance = Row_(r).instance, ![r].continues = TRUE,
                        ![r].resumed = mapping[Key_(r)]]
  /\ Goto(r, "admitted")
  /\ UNCHANGED <<mapping, leases, inventory, alive, stripped, engines>>

\* Busy, incompatible, orphaned mapping, full inventory, slot conflict.
AdmitRejects(r) ==
  /\ pc[r] = "admit"
  /\ inventory = None
  /\ \/ ~Resolvable(Key_(r).slug)
     \/ /\ Resolvable(Key_(r).slug)
        /\ IsCanonicalSlot(Key_(r).slug, job[r].slot)
        /\ ~CandidateHolds(r) \/ (~MayReserve(r) /\ ~MayContinue(r))
  /\ End(r)
  /\ UNCHANGED <<rows, mapping, inventory, alive, job, stripped, engines>>

-----------------------------------------------------------------------------
(* The run.                                                                *)

\* revalidateV2SessionRowBeforeSpawn.
Revalidate(r) ==
  /\ pc[r] = "admitted"
  /\ inventory = None
  /\ IF Owned(r) /\ Row_(r).state \in {"reserved", "running"}
     THEN SetRow(r, [Row_(r) EXCEPT !.state = "running"]) /\ Goto(r, "engine")
     ELSE UNCHANGED rows /\ Goto(r, "abandon")
  /\ UNCHANGED <<mapping, leases, inventory, alive, job, stripped, engines>>

\* The engine ends with no native id, a conversation of its own, the one it
\* was asked to resume, or (without a store) the slug.
NativeIds(r) ==
  {None, r} \cup (IF job[r].resumed # None THEN {job[r].resumed} ELSE {})
            \cup (IF InStore(r) THEN {} ELSE {Key_(r).slug})

EngineEnds(r, id) ==
  /\ pc[r] = "engine"
  /\ id \in NativeIds(r)
  /\ job' = [job EXCEPT ![r].native = id]
  /\ Goto(r, "publish")
  /\ UNCHANGED <<rows, mapping, leases, inventory, alive, stripped, engines>>

\* A bug: the run that could not end its engine leaves an idle row.
RetainIdle(r) ==
  /\ pc[r] = "engine"
  /\ End(r)
  /\ adrift' = adrift \cup {r}
  /\ SetRow(r, [Row_(r) EXCEPT !.state = "idle", !.owner = None])
  /\ UNCHANGED <<mapping, inventory, alive, job, stripped, cleaned>>

\* retainV2SessionAfterUnverifiedCleanup: the engine's group could not be
\* ended; the row stays running, the leases go.
Retain(r) ==
  /\ pc[r] = "engine"
  /\ End(r)
  /\ adrift' = adrift \cup {r}
  /\ UNCHANGED <<rows, mapping, inventory, alive, job, stripped, cleaned>>

\* The group of an engine nobody watches any more ends by itself.
EngineIsGone(r) ==
  /\ r \in adrift
  /\ adrift' = adrift \ {r}
  /\ cleaned' = cleaned \ {r}
  /\ UNCHANGED <<rows, mapping, leases, inventory, alive, pc, job, stripped>>

\* persistSessionMapping, then the attribution anchor publishedRealId.
Publish(r) ==
  /\ pc[r] = "publish"
  /\ IF InStore(r) /\ job[r].native # None
     THEN /\ mapping' = [mapping EXCEPT ![Key_(r)] = job[r].native]
          /\ job' = [job EXCEPT ![r].published = job[r].native]
     ELSE UNCHANGED <<mapping, job>>
  /\ Goto(r, "complete")
  /\ UNCHANGED <<rows, leases, inventory, alive, stripped, engines>>

\* The flow throws: a failed spawn, engine, store write, usage log, envelope.
\* Outside every catch nobody finalizes the row or releases the run lease.
Throw(r) ==
  /\ pc[r] \in {"admitted"} \cup Executing
  /\ IF pc[r] \in {"publish", "complete"} /\ Key_(r).engine \in Unguarded
     THEN Goto(r, "leaked")
     ELSE Goto(r, "abandon")
  /\ UNCHANGED <<rows, mapping, leases, inventory, alive, job, stripped, engines>>

-----------------------------------------------------------------------------
(* finalizeV2SessionRow: complete and abandon.                             *)

OwnId(r) == IF job[r].continues THEN job[r].resumed ELSE job[r].published

\* removeUnpublished may take the mapping along only if it is the run's own.
MayRemove(r) ==
  /\ Owned(r) /\ Row_(r).state \in {"reserved", "running"}
  /\ InStore(r) => mapping[Key_(r)] \in {None, OwnId(r)}

CompletesIdle(r) ==
  /\ Owned(r) /\ Row_(r).state = "running"
  /\ job[r].native # None
  /\ IF InStore(r) THEN mapping[Key_(r)] = job[r].native ELSE job[r].native = Key_(r).slug

\* Nothing resumable came of the run.
CompletesRemoved(r) ==
  /\ MayRemove(r) /\ Row_(r).state = "running"
  /\ job[r].native = None \/ (InStore(r) /\ mapping[Key_(r)] = None)

\* The published conversation survives the failure.
AbandonsIdle(r) ==
  /\ Owned(r)
  /\ IF job[r].continues
     THEN /\ Row_(r).state = "running"
          /\ InStore(r) => mapping[Key_(r)] = job[r].resumed
     ELSE /\ Row_(r).state \in {"reserved", "running"}
          /\ InStore(r) /\ job[r].published # None
          /\ mapping[Key_(r)] = job[r].published

AbandonsRemoved(r) ==
  /\ ~job[r].continues
  /\ MayRemove(r)
  /\ InStore(r) => mapping[Key_(r)] = None

ToIdle(r) ==
  \/ pc[r] = "complete" /\ CompletesIdle(r)
  \/ pc[r] = "abandon" /\ AbandonsIdle(r)

ToRemoved(r) ==
  \/ pc[r] = "complete" /\ CompletesRemoved(r)
  \/ pc[r] = "abandon" /\ AbandonsRemoved(r)

FinishIdle(r) ==
  /\ ToIdle(r)
  /\ inventory = None
  /\ SetRow(r, [Row_(r) EXCEPT !.state = "idle", !.owner = None])
  /\ End(r)
  /\ UNCHANGED <<mapping, inventory, alive, job, stripped, engines>>

\* The deleting breadcrumb is published first, under the inventory lock that
\* stays held until the row is gone.
FinishRemoval(r) ==
  /\ ToRemoved(r)
  /\ inventory = None
  /\ inventory' = r
  /\ SetRow(r, [Row_(r) EXCEPT !.state = "deleting", !.owner = r])
  /\ Goto(r, "unlink")
  /\ UNCHANGED <<mapping, leases, alive, job, stripped, engines>>

\* Anything ambiguous: the row stays for recovery, the leases go back.
FinishRetained(r) ==
  /\ pc[r] \in {"complete", "abandon"}
  /\ inventory = None
  /\ ~ToIdle(r) /\ ~ToRemoved(r)
  /\ End(r)
  /\ UNCHANGED <<rows, mapping, inventory, alive, job, stripped, engines>>

-----------------------------------------------------------------------------
(* runCoderSessionClean.                                                   *)

StartClean(c, k, force) ==
  /\ pc[c] = "new"
  /\ alive[ProcessOf[c]]
  /\ job' = [job EXCEPT ![c].key = k, ![c].force = force]
  /\ Goto(c, "scan")
  /\ UNCHANGED <<rows, mapping, leases, inventory, alive, stripped, engines>>

\* Idle and deleting rows, rows whose owner is provably gone
\* (classifyRecordedSessionOwner), and any row under --recover-live.
Cleanable(c, row) ==
  \/ row.state \in {"idle", "deleting"}
  \/ row.owner # None /\ ~alive[ProcessOf[row.owner]]
  \/ job[c].force

\* Discovery: the row's identity is pinned, its stored slot is the candidate.
Scan(c) ==
  /\ pc[c] = "scan"
  /\ inventory = None
  /\ Row_(c) # None
  /\ Cleanable(c, Row_(c))
  /\ job' = [job EXCEPT ![c].snap = Row_(c), ![c].slot = Row_(c).slot,
                        ![c].isolated = Row_(c).isolated]
  /\ Goto(c, "target")
  /\ UNCHANGED <<rows, mapping, leases, inventory, alive, stripped, engines>>

ScanRefuses(c) ==
  /\ pc[c] = "scan"
  /\ inventory = None
  /\ Row_(c) # None
  /\ ~Cleanable(c, Row_(c))
  /\ End(c)
  /\ UNCHANGED <<rows, mapping, inventory, alive, job, stripped, engines>>

ScanNoRow(c) ==
  /\ pc[c] = "scan"
  /\ inventory = None
  /\ Row_(c) = None
  /\ Goto(c, "orphan")
  /\ UNCHANGED <<rows, mapping, leases, inventory, alive, job, stripped, engines>>

\* The orphan's mapping is removed with no lease and no inventory lock held.
CleanOrphan(c) ==
  /\ pc[c] = "orphan"
  /\ mapping' = [mapping EXCEPT ![Key_(c)] = None]
  /\ stripped' = IF Row_(c) # None /\ mapping[Key_(c)] # None
                 THEN stripped \cup {Key_(c)} ELSE stripped
  /\ End(c)
  /\ UNCHANGED <<rows, inventory, alive, job, engines>>

\* A bug: any row of the slug will do.
SameName(c) == Row_(c) # None

\* sameRow: the immutable fields of the row that was discovered.
SameRow(c) ==
  /\ Row_(c) # None
  /\ Row_(c).instance = job[c].snap.instance
  /\ Row_(c).isolated = job[c].snap.isolated
  /\ Row_(c).slot = job[c].snap.slot

\* Inventory section 1: publish the breadcrumb unless there is one already.
Mark(c) ==
  /\ pc[c] = "mark"
  /\ inventory = None
  /\ SlotsConsistent
  /\ ~Conflict(Key_(c).slug, job[c].slot)
  /\ SameRow(c)
  /\ IF Row_(c).state = "deleting"
     THEN UNCHANGED rows
     ELSE SetRow(c, [Row_(c) EXCEPT !.state = "deleting", !.owner = c])
  /\ cleaned' = cleaned \cup ({Row_(c).owner} \cap adrift)
  /\ Goto(c, "unlink")
  /\ UNCHANGED <<mapping, leases, inventory, alive, job, stripped, adrift>>

MarkFails(c) ==
  /\ pc[c] = "mark"
  /\ inventory = None
  /\ ~SlotsConsistent \/ Conflict(Key_(c).slug, job[c].slot) \/ ~SameRow(c)
  /\ End(c)
  /\ UNCHANGED <<rows, mapping, inventory, alive, job, stripped, engines>>

-----------------------------------------------------------------------------
(* The end of a removal, by a run or by a clean.                           *)

\* A bug: the mapping is left behind.
LeaveMapping(a) ==
  /\ pc[a] = "unlink"
  /\ Goto(a, "drop")
  /\ UNCHANGED <<rows, mapping, leases, inventory, alive, job, stripped, engines>>

\* removeSessionStoreMapping.
Unlink(a) ==
  /\ pc[a] = "unlink"
  /\ mapping' = [mapping EXCEPT ![Key_(a)] = None]
  /\ Goto(a, "drop")
  /\ UNCHANGED <<rows, leases, inventory, alive, job, stripped, engines>>

\* The session store is locked (LOCK_HELD) or unwritable: the row stays.
UnlinkFails(a) ==
  /\ pc[a] = "unlink"
  /\ inventory' = IF inventory = a THEN None ELSE inventory
  /\ End(a)
  /\ UNCHANGED <<rows, mapping, alive, job, stripped, engines>>

\* The breadcrumb a clean expects: its own, or the one it came to recover.
Breadcrumb(c) == IF job[c].snap.state = "deleting" THEN job[c].snap.owner ELSE c

DropOwn(r) ==
  /\ pc[r] = "drop" /\ r \in Run
  /\ SetRow(r, None)
  /\ inventory' = None
  /\ End(r)
  /\ UNCHANGED <<mapping, alive, job, stripped, engines>>

\* Inventory section 2 of a clean.
DropCleaned(c) ==
  /\ pc[c] = "drop" /\ c \in Clean
  /\ inventory = None
  /\ IF SameRow(c) /\ Row_(c).state = "deleting" /\ Row_(c).owner = Breadcrumb(c)
     THEN SetRow(c, None)
     ELSE UNCHANGED rows
  /\ End(c)
  /\ UNCHANGED <<mapping, inventory, alive, job, stripped, engines>>

-----------------------------------------------------------------------------
\* The process dies: its locks are reclaimed (FixedLock), files stay, and so
\* do the detached groups of its engines.
Crash(p) ==
  LET gone == {a \in Actor : ProcessOf[a] = p}
  IN  /\ alive[p]
      /\ alive' = [alive EXCEPT ![p] = FALSE]
      /\ pc' = [a \in Actor |-> IF a \in gone THEN "dead" ELSE pc[a]]
      /\ slots' = [n \in Slots |-> IF slots[n] \in gone THEN None ELSE slots[n]]
      /\ target' = IF target \in gone THEN None ELSE target
      /\ inventory' = IF inventory \in gone THEN None ELSE inventory
      /\ adrift' = adrift \cup {r \in gone \cap Run : pc[r] = "engine"}
      /\ UNCHANGED <<rows, mapping, job, stripped, cleaned>>

RunStep(r) ==
  \/ SelectSlot(r) \/ SelectFails(r) \/ Retake(r)
  \/ AdmitNew(r) \/ AdmitContinuation(r) \/ AdmitRejects(r)
  \/ Revalidate(r) \/ Publish(r)
  \/ FinishIdle(r) \/ FinishRemoval(r) \/ FinishRetained(r) \/ DropOwn(r)
  \/ \E id \in RealId \cup {None} : EngineEnds(r, id)

CleanStep(c) ==
  \/ Scan(c) \/ ScanRefuses(c) \/ ScanNoRow(c) \/ CleanOrphan(c)
  \/ Mark(c) \/ MarkFails(c) \/ DropCleaned(c)

SharedStep(a) == TakeTarget(a) \/ TakeSlot(a) \/ Unlink(a)

Next ==
  \/ \E r \in Run :
       \/ \E q \in Requests : StartRun(r, q)
       \/ RunStep(r) \/ Retain(r) \/ Throw(r) \/ EngineIsGone(r)
  \/ \E c \in Clean :
       \/ \E q \in Requests, force \in BOOLEAN : StartClean(c, q.key, force)
       \/ CleanStep(c)
  \/ \E a \in Actor : SharedStep(a) \/ UnlinkFails(a)
  \/ \E p \in Process : Crash(p)

Spec == Init /\ [][Next]_vars

(***************************************************************************)
(* An actor that was started goes on: the event loop runs its ready        *)
(* continuations, waits on leases poll, and an engine is ended by its      *)
(* timeout.  With finitely many jobs weak fairness is enough: a lease that *)
(* is free stays free once its other askers are finished.  Nothing makes a *)
(* job start, fail or crash.                                               *)
(***************************************************************************)
Fairness ==
  /\ \A r \in Run : WF_vars(RunStep(r) \/ SharedStep(r))
  /\ \A c \in Clean : WF_vars(CleanStep(c) \/ SharedStep(c))

FairSpec == Spec /\ Fairness

-----------------------------------------------------------------------------
(* Properties.                                                             *)

\* The project-wide slot invariants survive every interleaving of admissions,
\* retakes, cleans and crashes across engines: a slug has one slot, and two
\* live slugs never share one (coder-session-slots.js lines 37-75).
SlotsStayConsistent == SlotsConsistent

\* A running engine keeps what its admission gave it: its row stays running,
\* its own and of the same incarnation, and it holds that row's slot lease,
\* whatever other runs and cleans (--recover-live included) do meanwhile.
RunKeepsItsRow ==
  \A r \in Run :
    pc[r] \in Executing \cup {"leaked"} =>
      /\ Owned(r) /\ Row_(r).state = "running"
      /\ slots[Row_(r).slot] = r

\* Runs whose engine may still change files.
AtWork(r) == pc[r] \in Executing \/ r \in adrift

\* Runs never have two engines at work at the same time on one slug, not even
\* engines of different kinds, nor two of them in the caller's worktree (the
\* target lease, coder-lease.js lines 96-110).  An engine that outlives its
\* run, after a crash or a cleanup that failed, is past those leases; what
\* still holds is that its session stays busy: no other run gets it before a
\* clean has taken the row that names the lost run (coder.js 6258-6264).
OneEnginePerSlugAndTree ==
  \A r, s \in Run :
    r # s /\ AtWork(r) /\ AtWork(s) =>
      /\ {r, s} \cap adrift = {} =>
           /\ Key_(r).slug # Key_(s).slug
           /\ job[r].isolated \/ job[s].isolated
      /\ Key_(r) = Key_(s) => {r, s} \cap cleaned # {}

\* A session never resumes a conversation of another incarnation of its slug:
\* the mapping beside a row was published by a run of that very incarnation
\* (coder.js lines 5829-5851 and 6044-6075).
NoForeignConversation ==
  \A k \in Key :
    rows[k] # None /\ mapping[k] # None =>
      /\ mapping[k] \in Run
      /\ job[mapping[k]].key = k
      /\ job[mapping[k]].instance = rows[k].instance

\* An idle row of a store engine can be continued: its mapping is there,
\* unless a clean that had seen no row took it (coder.js lines 6086-6129).
IdleIsContinuable ==
  \A k \in Key :
    /\ rows[k] # None
    /\ rows[k].state = "idle"
    /\ k.engine \in StoreEngine
    /\ k \notin stripped
    => mapping[k] # None

\* No removal leaves an orphan mapping behind: the row goes last, after the
\* deleting breadcrumb and the mapping, through failures and crashes
\* (coder.js lines 6076-6084 and 8588-8615).
NoNewOrphan ==
  \A k \in Key : rows[k] = None => mapping[k] \in {None, Legacy}

\* What later commands trust of the inventory, and of the conversations.
RowsInv == TypeOK /\ SlotsStayConsistent /\ RunKeepsItsRow /\ IdleIsContinuable
ConversationsInv == NoForeignConversation /\ NoNewOrphan

\* ALLOWED_TRANSITIONS.
Transitions == {<<"reserved", "running">>, <<"reserved", "deleting">>,
                <<"running", "idle">>, <<"running", "deleting">>,
                <<"idle", "running">>, <<"idle", "deleting">>}

\* What a row may become: the owner changes with the state.
LivesOn(old, new) ==
  /\ new.instance = old.instance /\ new.isolated = old.isolated /\ new.slot = old.slot
  /\ <<old.state, new.state>> \in Transitions
  /\ new.state = "idle" => new.owner = None
  /\ new.state = "running" => IF old.state = "idle" THEN new.owner \in Run ELSE new.owner = old.owner
  /\ new.state = "deleting" => new.owner \in Clean \/ (new.owner = old.owner /\ new.owner # None)

\* A row begins reserved by the run it is named after; then its state changes
\* only along the transition table and its owner only with its state, while
\* incarnation, slot and isolation stay for life; it disappears only from
\* deleting (coder-session-transitions.js lines 69-77).
RowStep(k) ==
  /\ rows[k] = None /\ rows'[k] # None =>
       rows'[k].state = "reserved" /\ rows'[k].owner = rows'[k].instance
  /\ rows[k] # None /\ rows'[k] = None => rows[k].state = "deleting"
  /\ rows[k] # None /\ rows'[k] \notin {None, rows[k]} => LivesOn(rows[k], rows'[k])

RowsKeepTheirLife == [][\A k \in Key : RowStep(k)]_vars

\* A clean destroys the very incarnation it discovered, never one that took
\* the slug's place while it waited for its leases (coder.js lines 8438-8446).
CleanTakesWhatItSaw ==
  \A c \in Clean :
    pc[c] \in {"unlink", "drop"} =>
      /\ Row_(c) # None
      /\ Row_(c).state = "deleting"
      /\ Row_(c).instance = job[c].snap.instance

\* "Explicit session clean/recovery must independently prove the owner gone
\* before mutating the retained row" (coder.js lines 6262-6263).  Fails: the
\* state and the owner are judged at discovery only, before the clean waits
\* for its leases; a row that was idle then may be retained by a live owner
\* when the leases are free.
LiveOwnerNeedsAttestation ==
  [][\A c \in Clean :
       pc[c] = "mark" /\ pc'[c] = "unlink" /\ ~job[c].force =>
         \/ Row_(c).state \in {"idle", "deleting"}
         \/ ~alive[ProcessOf[Row_(c).owner]]]_vars

\* The orphan branch of a clean removes "a durable store mapping WITHOUT an
\* inventory row" (coder.js line 8468).  Fails: the row may be admitted and
\* its mapping published after the discovery snapshot.
OrphanCleanSparesRows == stripped = {}

\* "The caller MUST call release() exactly once when the run cycle ends"
\* (coder-lease.js line 389): a run cycle that is over holds no lease.  Fails
\* for the engine whose publication runs outside every catch.
OverHoldsNothing ==
  \A r \in Run :
    pc[r] \in {"done", "leaked"} => target # r /\ \A n \in Slots : slots[n] # r

\* Every job ends, in success, failure or with its process: no lease, lock or
\* retake loop keeps one waiting for ever while the others end.  A run that
\* fails outside every catch is over but keeps its leases as long as its
\* process lives (coder.js lines 8088-8098): the others end if it does.
EveryJobEnds ==
  \A a \in Actor :
    (\A r \in Run \ {a} : []<>(pc[r] # "leaked")) =>
      (pc[a] \in {"select", "scan"} ~> pc[a] \in {"done", "dead", "leaked"})
=============================================================================
