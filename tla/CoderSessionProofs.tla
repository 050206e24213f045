------------------------ MODULE CoderSessionProofs ------------------------
(***************************************************************************)
(* What CoderSession promises for every set of runs, cleans, processes,    *)
(* engines and slugs and any number of crashes.  The properties follow     *)
(* from one inductive invariant in three parts: what the variables hold    *)
(* and where an actor can stand; who holds a row and the leases that go    *)
(* with it; and what a run remembers of conversations.  That no two        *)
(* engines meet rests on the middle one: the slot an actor holds is the    *)
(* slot of the row it works on, a slug has one slot and two live slugs     *)
(* have two.                                                               *)
(***************************************************************************)
EXTENDS CoderSession, FiniteSetTheorems, TLAPS

USE ActorAssumption, NoneAssumption, ProcessAssumption, RequestAssumption, SizeAssumption

-----------------------------------------------------------------------------
(* The inductive invariant                                                 *)

Fresh == {"new", "select", "target", "slot", "admit"}
OwnsRow == {"admitted", "abandon", "leaked"} \cup Executing
WithSlot == {"admit", "mark", "unlink", "drop"} \cup OwnsRow
WithTarget == {"slot"} \cup WithSlot

Typed ==
  /\ rows \in [Key -> Row \cup {None}]
  /\ mapping \in [Key -> RealId \cup {None}]
  /\ slots \in [Slots -> Actor \cup {None}]
  /\ target \in Actor \cup {None}
  /\ inventory \in Actor \cup {None}
  /\ alive \in [Process -> BOOLEAN]
  /\ pc \in [Actor -> Steps]
  /\ stripped \subseteq Key

JobsTyped == job \in [Actor -> Job]

\* Where runs and cleans can stand.
Stages ==
  /\ \A a \in Actor : pc[a] \notin {"new", "dead"} => job[a].key \in Key
  /\ \A r \in Run : /\ pc[r] \notin {"scan", "orphan", "mark"}
                    /\ pc[r] \in Fresh => job[r].tries < Retries
  /\ \A c \in Clean : pc[c] \in {"new", "scan", "target", "slot", "mark", "orphan", "unlink", "drop", "done", "dead"}

OfEngine(e) == {k \in Key : k.engine = e /\ rows[k] # None}
RowsFit == \A e \in Engine : Cardinality(OfEngine(e)) <= MaxRows

\* The leases an actor holds are those its row and its place call for.
Leased ==
  \A a \in Actor :
    /\ pc[a] \in WithSlot => slots[job[a].slot] = a
    /\ pc[a] \in WithTarget /\ ~job[a].isolated => target = a

\* A run between its admission and its end owns its row.
RunOwns(r) ==
  /\ Owned(r) /\ Row_(r).slot = job[r].slot /\ Row_(r).isolated = job[r].isolated
  /\ Row_(r).state \in {"reserved", "running"}
  /\ pc[r] \in Executing \cup {"leaked"} => Row_(r).state = "running"

RunsOwn == \A r \in Run : pc[r] \in OwnsRow => RunOwns(r)

\* What is being removed is marked as such, and is what was found.
Removes(a) ==
  /\ Row_(a) # None /\ Row_(a).state = "deleting" /\ Row_(a).slot = job[a].slot
  /\ a \in Clean => Row_(a).instance = job[a].snap.instance

Removing == \A a \in Actor : pc[a] \in {"unlink", "drop"} => Removes(a)

\* A clean asks for the leases of the row it has found.
CleansPin ==
  \A c \in Clean : pc[c] \in {"target", "slot", "mark", "unlink", "drop"} =>
    /\ job[c].snap \in Row
    /\ job[c].slot = job[c].snap.slot


\* What a run remembers of conversations is of its own incarnation.
Remembers ==
  \A r \in Run :
    /\ pc[r] \in Fresh =>
         /\ job[r].instance = None /\ job[r].resumed = None /\ ~job[r].continues
         /\ job[r].native = None /\ job[r].published = None
    /\ job[r].resumed # None =>
         /\ job[r].resumed \in Run
         /\ job[job[r].resumed].key = job[r].key
         /\ job[job[r].resumed].instance = job[r].instance
         /\ job[r].instance # None
    /\ pc[r] \in OwnsRow /\ InStore(r) /\ job[r].continues => job[r].resumed # None
    /\ pc[r] \in OwnsRow /\ InStore(r) => job[r].native \in {None, r, job[r].resumed}

\* Only engines with a store have mappings; what is dropped has none any more.
OnlyStored == \A k \in Key : mapping[k] # None => k.engine \in StoreEngine
Unlinked == \A a \in Actor : pc[a] = "drop" => mapping[Key_(a)] = None


SessionIInv ==
  /\ Typed /\ JobsTyped /\ Stages /\ RowsFit
  /\ Leased /\ RunsOwn /\ Removing /\ CleansPin /\ SlotsConsistent
  /\ Remembers /\ OnlyStored /\ Unlinked
  /\ NoForeignConversation /\ NoNewOrphan /\ IdleIsContinuable

LEMMA SessionIInvInit == Init => SessionIInv
<1> SUFFICES ASSUME Init PROVE SessionIInv
  OBVIOUS
<1>1. NoJob \in Job
  BY DEF NoJob, Job, Slots
<1>2. /\ \A a \in Actor : pc[a] = "new" /\ job[a] = NoJob
      /\ \A k \in Key : rows[k] = None /\ mapping[k] \in {None, Legacy}
      /\ \A k \in Key : mapping[k] = Legacy => k.engine \in StoreEngine
  BY DEF Init
<1>3. Typed
  BY DEF Init, Typed, Actor, Steps, RealId
<1>4. JobsTyped
  BY <1>1 DEF Init, JobsTyped
<1>5. Stages
  BY <1>2 DEF Stages, Actor, NoJob, Fresh
<1>6. RowsFit
  <2>1. ASSUME NEW e \in Engine PROVE OfEngine(e) = {}
    BY <1>2 DEF OfEngine
  <2> QED
    BY <2>1, FS_EmptySet DEF RowsFit
<1>7. Leased /\ RunsOwn /\ Removing /\ CleansPin /\ SlotsConsistent
  BY <1>2 DEF Leased, RunsOwn, Removing, CleansPin, SlotsConsistent, Present, LiveRows, WithSlot, WithTarget, OwnsRow,
     Executing, Actor
<1>8. Remembers /\ OnlyStored /\ Unlinked
  BY <1>2 DEF Remembers, OnlyStored, Unlinked, NoJob, OwnsRow, Executing, Actor
<1>9. NoForeignConversation /\ NoNewOrphan /\ IdleIsContinuable
  BY <1>2 DEF NoForeignConversation, NoNewOrphan, IdleIsContinuable
<1> QED
  BY <1>3, <1>4, <1>5, <1>6, <1>7, <1>8, <1>9 DEF SessionIInv

-----------------------------------------------------------------------------
(* How rows and jobs change                                                *)

\* A row in another state and of another owner is the row otherwise.
Becomes(k, s, o) ==
  \E q \in Row :
    /\ rows' = [rows EXCEPT ![k] = q]
    /\ q.state = s /\ q.owner = o
    /\ q.instance = rows[k].instance /\ q.slot = rows[k].slot /\ q.isolated = rows[k].isolated

LEMMA RowBecomes ==
  ASSUME NEW k, rows[k] \in Row, NEW s \in {"reserved", "running", "idle", "deleting"}, NEW o \in Actor \cup {None},
         rows' = [rows EXCEPT ![k] = [rows[k] EXCEPT !.state = s, !.owner = o]]
  PROVE  Becomes(k, s, o)
<1> DEFINE q == [rows[k] EXCEPT !.state = s, !.owner = o]
<1>1. /\ q \in Row /\ q.state = s /\ q.owner = o
      /\ q.instance = rows[k].instance /\ q.slot = rows[k].slot /\ q.isolated = rows[k].isolated
  BY DEF Row
<1>2. rows' = [rows EXCEPT ![k] = q]
  OBVIOUS
<1> HIDE DEF q
<1> QED
  BY <1>1, <1>2 DEF Becomes

\* An admission rebinds an idle row at the slot it has.
LEMMA AdmitContinuationMoves ==
  ASSUME SessionIInv, NEW a \in Run, AdmitContinuation(a)
  PROVE  /\ Key_(a) \in Key /\ Row_(a) \in Row /\ Row_(a).state = "idle"
         /\ Row_(a).slot = job[a].slot /\ Row_(a).isolated = job[a].isolated
         /\ Becomes(Key_(a), "running", a)
         /\ ~Conflict(Key_(a).slug, job[a].slot)
<1>1. Key_(a) \in Key /\ Row_(a) \in Row /\ Row_(a).state = "idle" /\ job[a].slot \in Slots
  BY DEF SessionIInv, Typed, JobsTyped, Job, Stages, Actor, AdmitContinuation, MayContinue, Key_, Row_
<1>2. Key_(a) \in SameSlug(Key_(a).slug)
  BY <1>1 DEF SameSlug, Present, Row_, AdmitContinuation, MayContinue
<1>3. \E k \in SameSlug(Key_(a).slug) : rows[k].slot = job[a].slot
  BY <1>2 DEF AdmitContinuation, CandidateHolds, IsCanonicalSlot
<1>4. Row_(a).slot = job[a].slot
  BY <1>2, <1>3 DEF SessionIInv, SlotsConsistent, SameSlug, Present, Row_
<1>5. ~Conflict(Key_(a).slug, job[a].slot) /\ Row_(a).isolated = job[a].isolated
  BY <1>2 DEF AdmitContinuation, CandidateHolds, MayContinue
<1> DEFINE q == [Row_(a) EXCEPT !.state = "running", !.owner = a, !.slot = job[a].slot]
<1>6. /\ q \in Row /\ q.state = "running" /\ q.owner = a /\ q.slot = Row_(a).slot
      /\ q.instance = Row_(a).instance /\ q.isolated = Row_(a).isolated
  <2>1. a \in Actor
    BY DEF Actor
  <2> QED
    BY <1>1, <1>4, <2>1 DEF Row
<1>7. rows' = [rows EXCEPT ![Key_(a)] = q]
  BY DEF AdmitContinuation, SetRow
<1> HIDE DEF q
<1>8. Becomes(Key_(a), "running", a)
  BY <1>6, <1>7 DEF Becomes, Row_
<1> QED
  BY <1>1, <1>4, <1>5, <1>8

\* A row that was admitted is its run's before the engine is spawned.
LEMMA RevalidateMoves ==
  ASSUME SessionIInv, NEW a \in Run, Revalidate(a)
  PROVE  /\ Key_(a) \in Key /\ Row_(a) \in Row /\ Row_(a).state \in {"reserved", "running"}
         /\ Row_(a).owner = a
         /\ Becomes(Key_(a), "running", a)
         /\ pc[a] = "admitted" /\ pc' = [pc EXCEPT ![a] = "engine"]
         /\ UNCHANGED <<mapping, leases, inventory, alive, job, stripped>>
<1>1. /\ pc[a] = "admitted" /\ Owned(a) /\ Row_(a).state \in {"reserved", "running"}
      /\ Key_(a) \in Key /\ a \in Actor
  BY DEF SessionIInv, RunsOwn, RunOwns, OwnsRow, Stages, Actor, Revalidate, Key_
<1>2. Row_(a) \in Row /\ Row_(a).owner = a
  BY <1>1 DEF SessionIInv, Typed, Row_, Owned
<1> DEFINE q == [Row_(a) EXCEPT !.state = "running"]
<1>3. /\ rows' = [rows EXCEPT ![Key_(a)] = q] /\ pc' = [pc EXCEPT ![a] = "engine"]
      /\ UNCHANGED <<mapping, leases, inventory, alive, job, stripped>>
  BY <1>1 DEF Revalidate, SetRow, Goto
<1>4. /\ q \in Row /\ q.state = "running" /\ q.owner = a
      /\ q.instance = Row_(a).instance /\ q.slot = Row_(a).slot /\ q.isolated = Row_(a).isolated
  BY <1>2 DEF Row
<1> HIDE DEF q
<1>5. Becomes(Key_(a), "running", a)
  BY <1>3, <1>4 DEF Becomes, Row_
<1> QED
  BY <1>1, <1>2, <1>3, <1>5

LEMMA FinishIdleMoves ==
  ASSUME SessionIInv, NEW a \in Run, FinishIdle(a)
  PROVE  /\ Key_(a) \in Key /\ Row_(a) \in Row /\ Row_(a).state \in {"reserved", "running"}
         /\ Becomes(Key_(a), "idle", None)
         /\ InStore(a) => mapping[Key_(a)] # None
<1>1. pc[a] \in {"complete", "abandon"} /\ Owned(a) /\ Key_(a) \in Key /\ a \in Actor
  BY DEF SessionIInv, Stages, Actor, Key_, FinishIdle, ToIdle, CompletesIdle, AbandonsIdle
<1>2. Row_(a) \in Row /\ Row_(a).state \in {"reserved", "running"}
  BY <1>1 DEF SessionIInv, Typed, Row_, Owned, RunsOwn, RunOwns, OwnsRow, Executing
<1>3. rows' = [rows EXCEPT ![Key_(a)] = [Row_(a) EXCEPT !.state = "idle", !.owner = None]]
  BY DEF FinishIdle, SetRow
<1>4. Becomes(Key_(a), "idle", None)
  BY <1>2, <1>3, RowBecomes DEF Row_
<1>5. InStore(a) => mapping[Key_(a)] # None
  BY <1>1 DEF SessionIInv, Remembers, OwnsRow, Executing, FinishIdle, ToIdle, CompletesIdle, AbandonsIdle
<1> QED
  BY <1>1, <1>2, <1>4, <1>5

LEMMA FinishRemovalMoves ==
  ASSUME SessionIInv, NEW a \in Run, FinishRemoval(a)
  PROVE  /\ Key_(a) \in Key /\ Row_(a) \in Row /\ Row_(a).state \in {"reserved", "running"}
         /\ Row_(a).slot = job[a].slot
         /\ pc[a] \in {"complete", "abandon"}
         /\ Becomes(Key_(a), "deleting", a)
<1>1. pc[a] \in {"complete", "abandon"} /\ Owned(a) /\ Key_(a) \in Key /\ a \in Actor
  BY DEF SessionIInv, Stages, Actor, Key_, FinishRemoval, ToRemoved, CompletesRemoved, AbandonsRemoved, MayRemove
<1>2. Row_(a) \in Row /\ Row_(a).state \in {"reserved", "running"} /\ Row_(a).slot = job[a].slot
  BY <1>1 DEF SessionIInv, Typed, Row_, Owned, RunsOwn, RunOwns, OwnsRow, Executing
<1>3. rows' = [rows EXCEPT ![Key_(a)] = [Row_(a) EXCEPT !.state = "deleting", !.owner = a]]
  BY DEF FinishRemoval, SetRow
<1>4. Becomes(Key_(a), "deleting", a)
  BY <1>1, <1>2, <1>3, RowBecomes DEF Row_
<1> QED
  BY <1>1, <1>2, <1>4

\* Nobody else holds a row whose slot a clean holds.
LEMMA MarkMoves ==
  ASSUME SessionIInv, NEW a \in Clean, Mark(a)
  PROVE  /\ Key_(a) \in Key /\ Row_(a) \in Row /\ Row_(a).slot = job[a].slot
         /\ Row_(a).instance = job[a].snap.instance
         /\ (UNCHANGED rows /\ Row_(a).state = "deleting") \/ Becomes(Key_(a), "deleting", a)
         /\ \A r \in Run : pc[r] \in OwnsRow => Key_(r) # Key_(a)
         /\ ~Conflict(Key_(a).slug, job[a].slot)
<1>1. /\ pc[a] = "mark" /\ Key_(a) \in Key /\ a \in Actor /\ Row_(a) # None
      /\ Row_(a).slot = job[a].snap.slot /\ Row_(a).instance = job[a].snap.instance
      /\ ~Conflict(Key_(a).slug, job[a].slot)
  BY DEF SessionIInv, Stages, Actor, Key_, Mark, SameRow
<1>2. Row_(a) \in Row /\ Row_(a).slot = job[a].slot
  BY <1>1 DEF SessionIInv, Typed, Row_, CleansPin
<1>3. (UNCHANGED rows /\ Row_(a).state = "deleting") \/ Becomes(Key_(a), "deleting", a)
  <2>1. CASE Row_(a).state = "deleting"
    BY <2>1 DEF Mark
  <2>2. CASE Row_(a).state # "deleting"
    <3>1. rows' = [rows EXCEPT ![Key_(a)] = [Row_(a) EXCEPT !.state = "deleting", !.owner = a]]
      BY <2>2 DEF Mark, SetRow
    <3> QED
      BY <1>1, <1>2, <3>1, RowBecomes DEF Row_
  <2> QED
    BY <2>1, <2>2
<1>4. ASSUME NEW r \in Run, pc[r] \in OwnsRow PROVE Key_(r) # Key_(a)
  <2>1. slots[job[a].slot] = a /\ slots[job[r].slot] = r /\ Row_(r).slot = job[r].slot
    BY <1>1, <1>4 DEF SessionIInv, Leased, RunsOwn, RunOwns, WithSlot, Actor
  <2> QED
    BY <1>2, <2>1 DEF Row_
<1> QED
  BY <1>1, <1>2, <1>3, <1>4

\* What a step writes into a job is of the kind the job takes.
LEMMA JobChanges ==
  ASSUME NEW j \in Job
  PROVE  /\ \A k \in Key, i \in BOOLEAN : [j EXCEPT !.key = k, !.isolated = i] \in Job
         /\ \A k \in Key, f \in BOOLEAN : [j EXCEPT !.key = k, !.force = f] \in Job
         /\ \A n \in Slots : [j EXCEPT !.slot = n] \in Job
         /\ j.tries < Retries => [j EXCEPT !.tries = j.tries + 1] \in Job
         /\ \A r \in Run : [j EXCEPT !.instance = r] \in Job
         /\ \A r \in Run, m \in RealId \cup {None} :
              [j EXCEPT !.instance = r, !.continues = TRUE, !.resumed = m] \in Job
         /\ \A m \in RealId \cup {None} : [j EXCEPT !.native = m] \in Job /\ [j EXCEPT !.published = m] \in Job
         /\ \A row \in Row : [j EXCEPT !.snap = row, !.slot = row.slot, !.isolated = row.isolated] \in Job
<1>1. \A k \in Key, i \in BOOLEAN : [j EXCEPT !.key = k, !.isolated = i] \in Job
  BY DEF Job
<1>2. \A k \in Key, f \in BOOLEAN : [j EXCEPT !.key = k, !.force = f] \in Job
  BY DEF Job
<1>3. \A n \in Slots : [j EXCEPT !.slot = n] \in Job
  BY DEF Job
<1>4. j.tries < Retries => [j EXCEPT !.tries = j.tries + 1] \in Job
  <2>1. j.tries < Retries => j.tries + 1 \in 0..Retries
    BY DEF Job
  <2> QED
    BY <2>1 DEF Job
<1>5. \A r \in Run : [j EXCEPT !.instance = r] \in Job
  BY DEF Job
<1>6. \A r \in Run, m \in RealId \cup {None} :
        [j EXCEPT !.instance = r, !.continues = TRUE, !.resumed = m] \in Job
  BY DEF Job
<1>7. \A m \in RealId \cup {None} : [j EXCEPT !.native = m] \in Job /\ [j EXCEPT !.published = m] \in Job
  BY DEF Job
<1>8. \A row \in Row : [j EXCEPT !.snap = row, !.slot = row.slot, !.isolated = row.isolated] \in Job
  <2>1. \A row \in Row : row.slot \in Slots /\ row.isolated \in BOOLEAN
    BY DEF Row
  <2> QED
    BY <2>1 DEF Job
<1> QED
  BY <1>1, <1>2, <1>3, <1>4, <1>5, <1>6, <1>7, <1>8

\* One job changes and keeps its kind.
LEMMA JobBecomes ==
  ASSUME JobsTyped, NEW a \in Actor, NEW j \in Job, job' = [job EXCEPT ![a] = j]
  PROVE  JobsTyped'
  BY DEF JobsTyped

\* Unless a row appears, the inventories stay within their size.
LEMMA RowsStayFit ==
  ASSUME SessionIInv, \A k \in Key : rows'[k] # None => rows[k] # None
  PROVE  RowsFit'
<1> SUFFICES ASSUME NEW e \in Engine PROVE Cardinality(OfEngine(e)') <= MaxRows
  BY DEF RowsFit
<1>1. OfEngine(e)' \subseteq OfEngine(e) /\ OfEngine(e) \subseteq Key
  BY DEF OfEngine
<1>2. IsFiniteSet(OfEngine(e)) /\ IsFiniteSet(OfEngine(e)')
  BY <1>1, FS_Subset
<1>3. /\ Cardinality(OfEngine(e)') <= Cardinality(OfEngine(e))
      /\ Cardinality(OfEngine(e)') \in Nat /\ Cardinality(OfEngine(e)) \in Nat
  BY <1>1, <1>2, FS_Subset, FS_CardinalityType
<1> QED
  BY <1>3 DEF SessionIInv, RowsFit

\* What a changed row means for the rest.
LEMMA BecomesFits ==
  ASSUME SessionIInv, NEW k \in Key, rows[k] \in Row, NEW s, NEW o, Becomes(k, s, o)
  PROVE  rows' \in [Key -> Row \cup {None}] /\ RowsFit'
<1>1. rows' \in [Key -> Row \cup {None}] /\ \A j \in Key : rows'[j] # None => rows[j] # None
  BY DEF SessionIInv, Typed, Becomes
<1> QED
  BY <1>1, RowsStayFit

\* A row that stays, becomes or stops being live takes no other slug's slot.
LEMMA BecomesConsistent ==
  ASSUME SessionIInv, NEW k \in Key, rows[k] \in Row, NEW s, NEW o, Becomes(k, s, o),
         rows[k].state # "idle" \/ s = "idle" \/ ~Conflict(k.slug, rows[k].slot)
  PROVE  SlotsConsistent'
<1> USE DEF SessionIInv, Typed
<1>1. PICK q \in Row :
        /\ rows' = [rows EXCEPT ![k] = q] /\ q.state = s
        /\ q.instance = rows[k].instance /\ q.slot = rows[k].slot
  BY DEF Becomes
<1>2. /\ Present' = Present
      /\ \A j \in Present : rows'[j].slot = rows[j].slot
  BY <1>1 DEF Present
<1>3. LiveRows' \subseteq LiveRows \cup {k} /\ (s = "idle" => LiveRows' \subseteq LiveRows)
  BY <1>1, <1>2 DEF LiveRows, Present
<1>4. rows[k].state # "idle" => k \in LiveRows
  BY DEF LiveRows, Present, Row
<1>5. LiveRows \subseteq Present /\ k \in Present
  BY DEF LiveRows, Present
<1>6. \A i, j \in LiveRows' : i.slug # j.slug => rows[i].slot # rows[j].slot
  BY <1>3, <1>4 DEF SlotsConsistent, Conflict
<1>7. LiveRows' \subseteq Present
  BY <1>3, <1>5
<1> QED
  BY <1>2, <1>6, <1>7 DEF SlotsConsistent

\* A step that leaves a run and the row it owns alone leaves it its owner.
LEMMA StillOwns ==
  ASSUME NEW r \in Run, RunOwns(r), rows'[Key_(r)] = rows[Key_(r)], UNCHANGED job[r], UNCHANGED pc[r]
  PROVE  RunOwns(r)'
  BY DEF RunOwns, Owned, Row_, Key_

LEMMA StillRemoves ==
  ASSUME NEW a \in Actor, Removes(a), rows'[Key_(a)] = rows[Key_(a)], UNCHANGED job[a]
  PROVE  Removes(a)'
  BY DEF Removes, Row_, Key_

\* Two actors with slots work on different rows.
LEMMA OneHolder ==
  ASSUME SessionIInv, NEW a \in Actor, NEW b \in Actor, a # b, pc[a] \in WithSlot, pc[b] \in WithSlot,
         Row_(a).slot = job[a].slot, Row_(b).slot = job[b].slot
  PROVE  Key_(a) # Key_(b)
<1>1. slots[job[a].slot] = a /\ slots[job[b].slot] = b
  BY DEF SessionIInv, Leased
<1> QED
  BY <1>1 DEF Row_

\* The variables keep their kinds and the actors their places.
LEMMA TypesStep ==
  ASSUME SessionIInv, [Next]_vars
  PROVE  Typed' /\ JobsTyped' /\ Stages' /\ RowsFit'
<1>1. ASSUME NEW a \in Run, NEW q \in Requests, StartRun(a, q)
      PROVE  Typed' /\ JobsTyped' /\ Stages' /\ RowsFit'
  <2>1. Typed'
    BY <1>1 DEF SessionIInv, StartRun, Goto, leases, Typed, Actor, Steps, Executing
  <2>2. JobsTyped'
    <3> DEFINE j == [job[a] EXCEPT !.key = q.key, !.isolated = q.isolated]
    <3>1. a \in Actor /\ job[a] \in Job
      BY DEF SessionIInv, JobsTyped, Actor
    <3>2. q.key \in Key /\ q.isolated \in BOOLEAN
      BY <3>1, <1>1
    <3>3. j \in Job
      BY <3>1, <3>2, JobChanges
    <3>4. job' = [job EXCEPT ![a] = j]
      BY <1>1 DEF StartRun
    <3> HIDE DEF j
    <3> QED
      BY <3>1, <3>3, <3>4, JobBecomes DEF SessionIInv
  <2>3. Stages'
    BY <1>1 DEF SessionIInv, StartRun, Goto, leases, JobsTyped, Job, Stages, Actor, Fresh, Typed
  <2>4. RowsFit'
    BY <1>1, RowsStayFit DEF SessionIInv, StartRun, Goto, leases
  <2> QED
    BY <2>1, <2>2, <2>3, <2>4
<1>2. ASSUME NEW a \in Run, SelectSlot(a)
      PROVE  Typed' /\ JobsTyped' /\ Stages' /\ RowsFit'
  <2>1. Typed'
    BY <1>2 DEF SessionIInv, SelectSlot, Goto, leases, Key_, Typed, Actor, Steps, Executing
  <2>2. JobsTyped'
    <3>1. PICK n \in Slots : job' = [job EXCEPT ![a] = [job[a] EXCEPT !.slot = n]]
      BY <1>2 DEF SelectSlot
    <3>2. a \in Actor /\ [job[a] EXCEPT !.slot = n] \in Job
      BY JobChanges DEF SessionIInv, JobsTyped, Actor
    <3> QED
      BY <3>1, <3>2, JobBecomes DEF SessionIInv
  <2>3. Stages'
    BY <1>2 DEF SessionIInv, SelectSlot, Goto, leases, Key_, Stages, Actor, Fresh
  <2>4. RowsFit'
    BY <1>2, RowsStayFit DEF SessionIInv, SelectSlot, Goto, leases
  <2> QED
    BY <2>1, <2>2, <2>3, <2>4
<1>3. ASSUME NEW a \in Run, SelectFails(a)
      PROVE  Typed' /\ JobsTyped' /\ Stages' /\ RowsFit'
  <2>1. Typed'
    BY <1>3 DEF SessionIInv, SelectFails, FreeLeases, End, Goto, Key_, Typed, Actor, Steps, Executing
  <2>2. JobsTyped'
    BY <1>3 DEF SessionIInv, JobsTyped, SelectFails
  <2>3. Stages'
    BY <1>3 DEF SessionIInv, SelectFails, FreeLeases, End, Goto, Key_, Stages, Actor, Fresh
  <2>4. RowsFit'
    BY <1>3, RowsStayFit DEF SessionIInv, SelectFails, FreeLeases, End, Goto
  <2> QED
    BY <2>1, <2>2, <2>3, <2>4
<1>4. ASSUME NEW a \in Run, Retake(a)
      PROVE  Typed' /\ JobsTyped' /\ Stages' /\ RowsFit'
  <2>1. Typed'
    BY <1>4 DEF SessionIInv, Retake, FreeLeases, Goto, Key_, Typed, Actor, Steps, Executing
  <2>2. JobsTyped'
    <3> DEFINE j == [job[a] EXCEPT !.tries = job[a].tries + 1]
    <3>1. a \in Actor /\ job[a] \in Job
      BY DEF SessionIInv, JobsTyped, Actor
    <3>2. job[a].tries < Retries
      BY <3>1, <1>4 DEF Retake, Stages, SessionIInv, Fresh
    <3>3. j \in Job
      BY <3>1, <3>2, JobChanges
    <3>4. job' = [job EXCEPT ![a] = j]
      BY <1>4 DEF Retake
    <3> HIDE DEF j
    <3> QED
      BY <3>1, <3>3, <3>4, JobBecomes DEF SessionIInv
  <2>3. Stages'
    BY <1>4 DEF SessionIInv, Retake, FreeLeases, Goto, Key_, JobsTyped, Job, Stages, Actor, Fresh, Typed
  <2>4. RowsFit'
    BY <1>4, RowsStayFit DEF SessionIInv, Retake, FreeLeases, Goto
  <2> QED
    BY <2>1, <2>2, <2>3, <2>4
<1>5. ASSUME NEW a \in Run, AdmitNew(a)
      PROVE  Typed' /\ JobsTyped' /\ Stages' /\ RowsFit'
  <2>1. Typed'
    <3> DEFINE q == [state |-> "reserved", instance |-> a, owner |-> a, slot |-> job[a].slot, isolated |-> job[a].isolated]
    <3>0. rows' = [rows EXCEPT ![Key_(a)] = q]
      BY <1>5 DEF AdmitNew, SetRow
    <3>4. q \in Row /\ Key_(a) \in Key
      BY <1>5 DEF AdmitNew, SessionIInv, JobsTyped, Job, Row, Actor, Stages, Key_
    <3> HIDE DEF q
    <3>1. rows' \in [Key -> Row \cup {None}]
      BY <3>0, <3>4 DEF SessionIInv, Typed
    <3>2. pc' \in [Actor -> Steps]
      BY <1>5 DEF AdmitNew, Goto, End, SessionIInv, Typed, Steps, Executing, Actor
    <3>3. /\ slots' \in [Slots -> Actor \cup {None}] /\ target' \in Actor \cup {None}
          /\ inventory' \in Actor \cup {None}
      BY <1>5 DEF AdmitNew, End, FreeLeases, leases, SessionIInv, Typed, Actor
    <3> QED
      BY <1>5, <3>1, <3>2, <3>3 DEF AdmitNew, SessionIInv, Typed, leases
  <2>2. JobsTyped'
    <3> DEFINE j == [job[a] EXCEPT !.instance = a]
    <3>1. a \in Actor /\ job[a] \in Job
      BY DEF SessionIInv, JobsTyped, Actor
    <3>3. j \in Job
      BY <3>1, JobChanges
    <3>4. job' = [job EXCEPT ![a] = j]
      BY <1>5 DEF AdmitNew
    <3> HIDE DEF j
    <3> QED
      BY <3>1, <3>3, <3>4, JobBecomes DEF SessionIInv
  <2>3. Stages'
    BY <1>5 DEF SessionIInv, AdmitNew, MayReserve, Goto, leases, SetRow, Key_, Row_, InStore, Stages, Actor,
       Fresh
  <2>4. RowsFit'
    <3> DEFINE q == [state |-> "reserved", instance |-> a, owner |-> a, slot |-> job[a].slot, isolated |-> job[a].isolated]
    <3>0. rows' = [rows EXCEPT ![Key_(a)] = q]
      BY <1>5 DEF AdmitNew, SetRow
    <3>1. q \in Row /\ Key_(a) \in Key
      BY <1>5 DEF AdmitNew, SessionIInv, JobsTyped, Job, Row, Actor, Stages, Key_
    <3> HIDE DEF q
    <3>2. /\ rows[Key_(a)] = None
          /\ Cardinality(OfEngine(Key_(a).engine)) < MaxRows
      <4>1. {k \in Present : k.engine = Key_(a).engine} = OfEngine(Key_(a).engine)
        BY DEF Present, OfEngine
      <4> QED
        BY <1>5, <4>1 DEF AdmitNew, MayReserve, Row_
    <3> SUFFICES ASSUME NEW e \in Engine PROVE Cardinality(OfEngine(e)') <= MaxRows
      BY DEF RowsFit
    <3>3. IsFiniteSet(OfEngine(e)) /\ Cardinality(OfEngine(e)) \in Nat /\ Cardinality(OfEngine(e)) <= MaxRows
      <4>1. OfEngine(e) \subseteq Key
        BY DEF OfEngine
      <4> QED
        BY <4>1, FS_Subset, FS_CardinalityType DEF SessionIInv, RowsFit
    <3>4. CASE e # Key_(a).engine
      <4>1. OfEngine(e)' = OfEngine(e)
        BY <3>0, <3>1, <3>4 DEF OfEngine, SessionIInv, Typed
      <4> QED
        BY <3>3, <4>1
    <3>5. CASE e = Key_(a).engine
      <4>1. OfEngine(e)' = OfEngine(e) \cup {Key_(a)}
        BY <3>0, <3>1, <3>5 DEF OfEngine, SessionIInv, Typed
      <4>2. \/ Cardinality(OfEngine(e) \cup {Key_(a)}) = Cardinality(OfEngine(e)) + 1
            \/ Cardinality(OfEngine(e) \cup {Key_(a)}) = Cardinality(OfEngine(e))
        BY <3>3, FS_AddElement
      <4> QED
        BY <3>2, <3>3, <3>5, <4>1, <4>2
    <3> QED
      BY <3>4, <3>5
  <2> QED
    BY <2>1, <2>2, <2>3, <2>4
<1>6. ASSUME NEW a \in Run, AdmitContinuation(a)
      PROVE  Typed' /\ JobsTyped' /\ Stages' /\ RowsFit'
  <2>1. Typed'
    <3>1. rows' \in [Key -> Row \cup {None}]
      BY <1>6, AdmitContinuationMoves, BecomesFits DEF Row_
    <3>2. pc' \in [Actor -> Steps]
      BY <1>6 DEF AdmitContinuation, Goto, End, SessionIInv, Typed, Steps, Executing, Actor
    <3>3. /\ slots' \in [Slots -> Actor \cup {None}] /\ target' \in Actor \cup {None}
          /\ inventory' \in Actor \cup {None}
      BY <1>6 DEF AdmitContinuation, End, FreeLeases, leases, SessionIInv, Typed, Actor
    <3> QED
      BY <1>6, <3>1, <3>2, <3>3 DEF AdmitContinuation, SessionIInv, Typed, leases
  <2>2. JobsTyped'
    <3> DEFINE j == [job[a] EXCEPT !.instance = Row_(a).instance, !.continues = TRUE, !.resumed = mapping[Key_(a)]]
    <3>1. a \in Actor /\ job[a] \in Job
      BY DEF SessionIInv, JobsTyped, Actor
    <3>2. Row_(a).instance \in Run /\ mapping[Key_(a)] \in RealId \cup {None}
      BY AdmitContinuationMoves, <3>1, <1>6 DEF Row, Typed, SessionIInv
    <3>3. j \in Job
      BY <3>1, <3>2, JobChanges
    <3>4. job' = [job EXCEPT ![a] = j]
      BY <1>6 DEF AdmitContinuation
    <3> HIDE DEF j
    <3> QED
      BY <3>1, <3>3, <3>4, JobBecomes DEF SessionIInv
  <2>3. Stages'
    BY <1>6 DEF SessionIInv, AdmitContinuation, MayContinue, FreeLeases, End, Goto, leases, SetRow, Key_, Row_,
       Owned, InStore, JobsTyped, Job, Stages, Actor, Fresh, Executing, Typed
  <2>4. RowsFit'
    BY <1>6, AdmitContinuationMoves, BecomesFits DEF Row_
  <2> QED
    BY <2>1, <2>2, <2>3, <2>4
<1>7. ASSUME NEW a \in Run, AdmitRejects(a)
      PROVE  Typed' /\ JobsTyped' /\ Stages' /\ RowsFit'
  <2>1. Typed'
    BY <1>7 DEF SessionIInv, AdmitRejects, FreeLeases, End, Goto, Key_, Typed, Actor, Steps, Executing
  <2>2. JobsTyped'
    BY <1>7 DEF SessionIInv, JobsTyped, AdmitRejects
  <2>3. Stages'
    BY <1>7 DEF SessionIInv, AdmitRejects, FreeLeases, End, Goto, Key_, Stages, Actor, Fresh
  <2>4. RowsFit'
    BY <1>7, RowsStayFit DEF SessionIInv, AdmitRejects, FreeLeases, End, Goto
  <2> QED
    BY <2>1, <2>2, <2>3, <2>4
<1>8. ASSUME NEW a \in Run, Revalidate(a)
      PROVE  Typed' /\ JobsTyped' /\ Stages' /\ RowsFit'
  <2>1. Typed'
    <3>1. rows' \in [Key -> Row \cup {None}]
      BY <1>8, RevalidateMoves, BecomesFits DEF Row_
    <3>2. pc' \in [Actor -> Steps]
      BY <1>8 DEF Revalidate, Goto, End, SessionIInv, Typed, Steps, Executing, Actor
    <3>3. /\ slots' \in [Slots -> Actor \cup {None}] /\ target' \in Actor \cup {None}
          /\ inventory' \in Actor \cup {None}
      BY <1>8 DEF Revalidate, End, FreeLeases, leases, SessionIInv, Typed, Actor
    <3> QED
      BY <1>8, <3>1, <3>2, <3>3 DEF Revalidate, SessionIInv, Typed, leases
  <2>2. JobsTyped'
    BY <1>8 DEF SessionIInv, JobsTyped, Revalidate
  <2>3. Stages'
    BY <1>8, RevalidateMoves DEF Becomes, SessionIInv, Revalidate, Goto, leases, SetRow, Key_, Row_, Owned,
       JobsTyped, Job, Stages, Actor, Fresh, Typed
  <2>4. RowsFit'
    BY <1>8, RevalidateMoves, BecomesFits DEF Row_
  <2> QED
    BY <2>1, <2>2, <2>3, <2>4
<1>9. ASSUME NEW a \in Run, Publish(a)
      PROVE  Typed' /\ JobsTyped' /\ Stages' /\ RowsFit'
  <2>1. Typed'
    <3>1. mapping' \in [Key -> RealId \cup {None}]
      <4>1. job[a].native \in RealId \cup {None}
        BY DEF SessionIInv, JobsTyped, Job, Actor
      <4> QED
        BY <1>9, <4>1 DEF Publish, SessionIInv, Typed
    <3>2. pc' \in [Actor -> Steps]
      BY <1>9 DEF Publish, Goto, SessionIInv, Typed, Steps, Executing
    <3> QED
      BY <1>9, <3>1, <3>2 DEF Publish, SessionIInv, Typed, leases
  <2>2. JobsTyped'
    <3>1. a \in Actor /\ job[a] \in Job /\ job[a].native \in RealId \cup {None}
      BY DEF SessionIInv, JobsTyped, Actor, Job
    <3>2. UNCHANGED job \/ job' = [job EXCEPT ![a] = [job[a] EXCEPT !.published = job[a].native]]
      BY <1>9 DEF Publish
    <3>3. [job[a] EXCEPT !.published = job[a].native] \in Job
      BY <3>1, JobChanges
    <3> HIDE DEF JobsTyped
    <3>4. UNCHANGED job => JobsTyped'
      BY DEF SessionIInv, JobsTyped
    <3> QED
      BY <3>1, <3>2, <3>3, <3>4, JobBecomes DEF SessionIInv
  <2>3. Stages'
    BY <1>9 DEF SessionIInv, Publish, Goto, leases, Key_, InStore, JobsTyped, Job, Stages, Actor, Fresh, Typed
  <2>4. RowsFit'
    BY <1>9, RowsStayFit DEF SessionIInv, Publish, Goto, leases
  <2> QED
    BY <2>1, <2>2, <2>3, <2>4
<1>10. ASSUME NEW a \in Run, FinishIdle(a)
      PROVE  Typed' /\ JobsTyped' /\ Stages' /\ RowsFit'
  <2>1. Typed'
    <3>1. rows' \in [Key -> Row \cup {None}]
      BY <1>10, FinishIdleMoves, BecomesFits DEF Row_
    <3>2. pc' \in [Actor -> Steps]
      BY <1>10 DEF FinishIdle, Goto, End, SessionIInv, Typed, Steps, Executing, Actor
    <3>3. /\ slots' \in [Slots -> Actor \cup {None}] /\ target' \in Actor \cup {None}
          /\ inventory' \in Actor \cup {None}
      BY <1>10 DEF FinishIdle, End, FreeLeases, leases, SessionIInv, Typed, Actor
    <3> QED
      BY <1>10, <3>1, <3>2, <3>3 DEF FinishIdle, SessionIInv, Typed, leases
  <2>2. JobsTyped'
    BY <1>10 DEF SessionIInv, JobsTyped, FinishIdle
  <2>3. Stages'
    BY <1>10, FinishIdleMoves DEF Becomes, SessionIInv, FinishIdle, ToIdle, CompletesIdle, AbandonsIdle,
       FreeLeases, End, Goto, SetRow, Key_, Row_, Owned, InStore, JobsTyped, Job, Stages, Actor, Fresh, Typed
  <2>4. RowsFit'
    BY <1>10, FinishIdleMoves, BecomesFits DEF Row_
  <2> QED
    BY <2>1, <2>2, <2>3, <2>4
<1>11. ASSUME NEW a \in Run, FinishRemoval(a)
      PROVE  Typed' /\ JobsTyped' /\ Stages' /\ RowsFit'
  <2>1. Typed'
    <3>1. rows' \in [Key -> Row \cup {None}]
      BY <1>11, FinishRemovalMoves, BecomesFits DEF Row_
    <3>2. pc' \in [Actor -> Steps]
      BY <1>11 DEF FinishRemoval, Goto, End, SessionIInv, Typed, Steps, Executing, Actor
    <3>3. /\ slots' \in [Slots -> Actor \cup {None}] /\ target' \in Actor \cup {None}
          /\ inventory' \in Actor \cup {None}
      BY <1>11 DEF FinishRemoval, End, FreeLeases, leases, SessionIInv, Typed, Actor
    <3> QED
      BY <1>11, <3>1, <3>2, <3>3 DEF FinishRemoval, SessionIInv, Typed, leases
  <2>2. JobsTyped'
    BY <1>11 DEF SessionIInv, JobsTyped, FinishRemoval
  <2>3. Stages'
    BY <1>11, FinishRemovalMoves DEF Becomes, SessionIInv, FinishRemoval, ToRemoved, CompletesRemoved,
       AbandonsRemoved, MayRemove, Goto, leases, SetRow, Key_, Row_, Owned, InStore, JobsTyped, Job, Stages,
       Actor, Fresh, Typed
  <2>4. RowsFit'
    BY <1>11, FinishRemovalMoves, BecomesFits DEF Row_
  <2> QED
    BY <2>1, <2>2, <2>3, <2>4
<1>12. ASSUME NEW a \in Run, FinishRetained(a)
      PROVE  Typed' /\ JobsTyped' /\ Stages' /\ RowsFit'
  <2>1. Typed'
    BY <1>12 DEF SessionIInv, FinishRetained, FreeLeases, End, Goto, Typed, Actor, Steps, Executing
  <2>2. JobsTyped'
    BY <1>12 DEF SessionIInv, JobsTyped, FinishRetained
  <2>3. Stages'
    BY <1>12 DEF SessionIInv, FinishRetained, FreeLeases, End, Goto, Stages, Actor, Fresh
  <2>4. RowsFit'
    BY <1>12, RowsStayFit DEF SessionIInv, FinishRetained, FreeLeases, End, Goto
  <2> QED
    BY <2>1, <2>2, <2>3, <2>4
<1>13. ASSUME NEW a \in Run, DropOwn(a)
      PROVE  Typed' /\ JobsTyped' /\ Stages' /\ RowsFit'
  <2>1. Typed'
    BY <1>13 DEF SessionIInv, DropOwn, FreeLeases, End, Goto, SetRow, Key_, Typed, Actor, Steps, Executing
  <2>2. JobsTyped'
    BY <1>13 DEF SessionIInv, JobsTyped, DropOwn
  <2>3. Stages'
    BY <1>13 DEF SessionIInv, DropOwn, FreeLeases, End, Goto, SetRow, Key_, Stages, Actor, Fresh
  <2>4. RowsFit'
    BY <1>13, RowsStayFit DEF SessionIInv, DropOwn, FreeLeases, End, Goto, SetRow
  <2> QED
    BY <2>1, <2>2, <2>3, <2>4
<1>14. ASSUME NEW a \in Run, Retain(a)
      PROVE  Typed' /\ JobsTyped' /\ Stages' /\ RowsFit'
  <2>1. Typed'
    BY <1>14 DEF SessionIInv, Retain, FreeLeases, End, Goto, Typed, Actor, Steps, Executing
  <2>2. JobsTyped'
    BY <1>14 DEF SessionIInv, JobsTyped, Retain
  <2>3. Stages'
    BY <1>14 DEF SessionIInv, Retain, FreeLeases, End, Goto, Stages, Actor, Fresh
  <2>4. RowsFit'
    BY <1>14, RowsStayFit DEF SessionIInv, Retain, FreeLeases, End, Goto
  <2> QED
    BY <2>1, <2>2, <2>3, <2>4
<1>15. ASSUME NEW a \in Run, Throw(a)
      PROVE  Typed' /\ JobsTyped' /\ Stages' /\ RowsFit'
  <2>1. Typed'
    BY <1>15 DEF SessionIInv, Throw, Goto, leases, Key_, Typed, Actor, Steps, Executing
  <2>2. JobsTyped'
    BY <1>15 DEF SessionIInv, JobsTyped, Throw
  <2>3. Stages'
    BY <1>15 DEF SessionIInv, Throw, Goto, leases, Key_, JobsTyped, Job, Stages, Actor, Fresh, Executing, Typed
  <2>4. RowsFit'
    BY <1>15, RowsStayFit DEF SessionIInv, Throw, Goto, leases
  <2> QED
    BY <2>1, <2>2, <2>3, <2>4
<1>16. ASSUME NEW a \in Run, NEW id \in RealId \cup {None}, EngineEnds(a, id)
      PROVE  Typed' /\ JobsTyped' /\ Stages' /\ RowsFit'
  <2>1. Typed'
    BY <1>16 DEF SessionIInv, EngineEnds, NativeIds, Goto, leases, Key_, InStore, Typed, Actor, Steps, Executing
  <2>2. JobsTyped'
    <3> DEFINE j == [job[a] EXCEPT !.native = id]
    <3>1. a \in Actor /\ job[a] \in Job
      BY DEF SessionIInv, JobsTyped, Actor
    <3>3. j \in Job
      BY <3>1, JobChanges
    <3>4. job' = [job EXCEPT ![a] = j]
      BY <1>16 DEF EngineEnds
    <3> HIDE DEF j
    <3> QED
      BY <3>1, <3>3, <3>4, JobBecomes DEF SessionIInv
  <2>3. Stages'
    BY <1>16 DEF SessionIInv, EngineEnds, NativeIds, Goto, leases, Key_, InStore, Stages, Actor, Fresh
  <2>4. RowsFit'
    BY <1>16, RowsStayFit DEF SessionIInv, EngineEnds, Goto, leases
  <2> QED
    BY <2>1, <2>2, <2>3, <2>4
<1>17. ASSUME NEW a \in Clean, NEW q \in Requests, NEW force \in BOOLEAN, StartClean(a, q.key, force)
      PROVE  Typed' /\ JobsTyped' /\ Stages' /\ RowsFit'
  <2>1. Typed'
    BY <1>17 DEF SessionIInv, StartClean, Goto, leases, Typed, Actor, Steps, Executing
  <2>2. JobsTyped'
    <3> DEFINE j == [job[a] EXCEPT !.key = q.key, !.force = force]
    <3>1. a \in Actor /\ job[a] \in Job
      BY DEF SessionIInv, JobsTyped, Actor
    <3>2. q.key \in Key
      BY <3>1, <1>17
    <3>3. j \in Job
      BY <3>1, <3>2, JobChanges
    <3>4. job' = [job EXCEPT ![a] = j]
      BY <1>17 DEF StartClean
    <3> HIDE DEF j
    <3> QED
      BY <3>1, <3>3, <3>4, JobBecomes DEF SessionIInv
  <2>3. Stages'
    BY <1>17 DEF SessionIInv, StartClean, Goto, leases, JobsTyped, Job, Stages, Actor, Fresh, Typed
  <2>4. RowsFit'
    BY <1>17, RowsStayFit DEF SessionIInv, StartClean, Goto, leases
  <2> QED
    BY <2>1, <2>2, <2>3, <2>4
<1>18. ASSUME NEW a \in Clean, Scan(a)
      PROVE  Typed' /\ JobsTyped' /\ Stages' /\ RowsFit'
  <2>1. Typed'
    BY <1>18 DEF SessionIInv, Scan, Goto, leases, Key_, Row_, Typed, Actor, Steps, Executing
  <2>2. JobsTyped'
    <3> DEFINE j == [job[a] EXCEPT !.snap = Row_(a), !.slot = Row_(a).slot, !.isolated = Row_(a).isolated]
    <3>1. a \in Actor /\ job[a] \in Job
      BY DEF SessionIInv, JobsTyped, Actor
    <3>2. Row_(a) \in Row
      BY <3>1, <1>18 DEF Scan, Row_, Key_, Typed, SessionIInv, Stages
    <3>3. j \in Job
      BY <3>1, <3>2, JobChanges
    <3>4. job' = [job EXCEPT ![a] = j]
      BY <1>18 DEF Scan
    <3> HIDE DEF j
    <3> QED
      BY <3>1, <3>3, <3>4, JobBecomes DEF SessionIInv
  <2>3. Stages'
    BY <1>18 DEF SessionIInv, Scan, Goto, leases, Key_, Row_, JobsTyped, Job, Stages, Actor, Fresh, Typed
  <2>4. RowsFit'
    BY <1>18, RowsStayFit DEF SessionIInv, Scan, Goto, leases
  <2> QED
    BY <2>1, <2>2, <2>3, <2>4
<1>19. ASSUME NEW a \in Clean, ScanRefuses(a)
      PROVE  Typed' /\ JobsTyped' /\ Stages' /\ RowsFit'
  <2>1. Typed'
    BY <1>19 DEF SessionIInv, ScanRefuses, FreeLeases, End, Goto, Key_, Row_, Typed, Actor, Steps, Executing
  <2>2. JobsTyped'
    BY <1>19 DEF SessionIInv, JobsTyped, ScanRefuses
  <2>3. Stages'
    BY <1>19 DEF SessionIInv, ScanRefuses, FreeLeases, End, Goto, Key_, Row_, Stages, Actor, Fresh
  <2>4. RowsFit'
    BY <1>19, RowsStayFit DEF SessionIInv, ScanRefuses, FreeLeases, End, Goto
  <2> QED
    BY <2>1, <2>2, <2>3, <2>4
<1>20. ASSUME NEW a \in Clean, ScanNoRow(a)
      PROVE  Typed' /\ JobsTyped' /\ Stages' /\ RowsFit'
  <2>1. Typed'
    BY <1>20 DEF SessionIInv, ScanNoRow, Goto, leases, Key_, Row_, Typed, Actor, Steps, Executing
  <2>2. JobsTyped'
    BY <1>20 DEF SessionIInv, JobsTyped, ScanNoRow
  <2>3. Stages'
    BY <1>20 DEF SessionIInv, ScanNoRow, Goto, leases, Key_, Row_, Stages, Actor, Fresh
  <2>4. RowsFit'
    BY <1>20, RowsStayFit DEF SessionIInv, ScanNoRow, Goto, leases
  <2> QED
    BY <2>1, <2>2, <2>3, <2>4
<1>21. ASSUME NEW a \in Clean, CleanOrphan(a)
      PROVE  Typed' /\ JobsTyped' /\ Stages' /\ RowsFit'
  <2>1. Typed'
    BY <1>21 DEF SessionIInv, CleanOrphan, FreeLeases, End, Goto, Key_, Row_, Typed, Actor, Steps, Executing,
       Stages
  <2>2. JobsTyped'
    BY <1>21 DEF SessionIInv, JobsTyped, CleanOrphan
  <2>3. Stages'
    BY <1>21 DEF SessionIInv, CleanOrphan, FreeLeases, End, Goto, Key_, Row_, Stages, Actor, Fresh
  <2>4. RowsFit'
    BY <1>21, RowsStayFit DEF SessionIInv, CleanOrphan, FreeLeases, End, Goto
  <2> QED
    BY <2>1, <2>2, <2>3, <2>4
<1>22. ASSUME NEW a \in Clean, Mark(a)
      PROVE  Typed' /\ JobsTyped' /\ Stages' /\ RowsFit'
  <2>1. Typed'
    <3>1. rows' \in [Key -> Row \cup {None}]
      BY <1>22, MarkMoves, BecomesFits DEF Row_, SessionIInv, Typed
    <3>2. pc' \in [Actor -> Steps]
      BY <1>22 DEF Mark, Goto, End, SessionIInv, Typed, Steps, Executing, Actor
    <3>3. /\ slots' \in [Slots -> Actor \cup {None}] /\ target' \in Actor \cup {None}
          /\ inventory' \in Actor \cup {None}
      BY <1>22 DEF Mark, End, FreeLeases, leases, SessionIInv, Typed, Actor
    <3> QED
      BY <1>22, <3>1, <3>2, <3>3 DEF Mark, SessionIInv, Typed, leases
  <2>2. JobsTyped'
    BY <1>22 DEF SessionIInv, JobsTyped, Mark
  <2>3. Stages'
    BY <1>22, MarkMoves DEF Becomes, SessionIInv, Mark, SameRow, Goto, leases, SetRow, Key_, Row_, JobsTyped,
       Job, Stages, Actor, Fresh, Typed
  <2>4. RowsFit'
    BY <1>22, MarkMoves, BecomesFits, RowsStayFit DEF Row_
  <2> QED
    BY <2>1, <2>2, <2>3, <2>4
<1>23. ASSUME NEW a \in Clean, MarkFails(a)
      PROVE  Typed' /\ JobsTyped' /\ Stages' /\ RowsFit'
  <2>1. Typed'
    BY <1>23 DEF SessionIInv, MarkFails, FreeLeases, End, Goto, Key_, Typed, Actor, Steps, Executing
  <2>2. JobsTyped'
    BY <1>23 DEF SessionIInv, JobsTyped, MarkFails
  <2>3. Stages'
    BY <1>23 DEF SessionIInv, MarkFails, FreeLeases, End, Goto, Key_, Stages, Actor, Fresh
  <2>4. RowsFit'
    BY <1>23, RowsStayFit DEF SessionIInv, MarkFails, FreeLeases, End, Goto
  <2> QED
    BY <2>1, <2>2, <2>3, <2>4
<1>24. ASSUME NEW a \in Clean, DropCleaned(a)
      PROVE  Typed' /\ JobsTyped' /\ Stages' /\ RowsFit'
  <2>1. Typed'
    BY <1>24 DEF SessionIInv, DropCleaned, SameRow, FreeLeases, End, Goto, SetRow, Key_, Row_, Typed, Actor,
       Steps, Executing
  <2>2. JobsTyped'
    BY <1>24 DEF SessionIInv, JobsTyped, DropCleaned
  <2>3. Stages'
    BY <1>24 DEF SessionIInv, DropCleaned, SameRow, FreeLeases, End, Goto, SetRow, Key_, Row_, Stages, Actor,
       Fresh
  <2>4. RowsFit'
    <3>1. UNCHANGED rows \/ rows' = [rows EXCEPT ![Key_(a)] = None]
      BY <1>24 DEF DropCleaned, SetRow
    <3> QED
      BY <3>1, RowsStayFit DEF SessionIInv, Typed
  <2> QED
    BY <2>1, <2>2, <2>3, <2>4
<1>25. ASSUME NEW a \in Actor, TakeTarget(a)
      PROVE  Typed' /\ JobsTyped' /\ Stages' /\ RowsFit'
  <2>1. Typed'
    BY <1>25 DEF SessionIInv, TakeTarget, Goto, Typed, Actor, Steps, Executing
  <2>2. JobsTyped'
    BY <1>25 DEF SessionIInv, JobsTyped, TakeTarget
  <2>3. Stages'
    BY <1>25 DEF SessionIInv, TakeTarget, Goto, Stages, Actor, Fresh
  <2>4. RowsFit'
    BY <1>25, RowsStayFit DEF SessionIInv, TakeTarget, Goto
  <2> QED
    BY <2>1, <2>2, <2>3, <2>4
<1>26. ASSUME NEW a \in Actor, TakeSlot(a)
      PROVE  Typed' /\ JobsTyped' /\ Stages' /\ RowsFit'
  <2>1. Typed'
    BY <1>26 DEF SessionIInv, TakeSlot, Goto, Typed, Actor, Steps, Executing
  <2>2. JobsTyped'
    BY <1>26 DEF SessionIInv, JobsTyped, TakeSlot
  <2>3. Stages'
    BY <1>26 DEF SessionIInv, TakeSlot, Goto, Stages, Actor, Fresh
  <2>4. RowsFit'
    BY <1>26, RowsStayFit DEF SessionIInv, TakeSlot, Goto
  <2> QED
    BY <2>1, <2>2, <2>3, <2>4
<1>27. ASSUME NEW a \in Actor, Unlink(a)
      PROVE  Typed' /\ JobsTyped' /\ Stages' /\ RowsFit'
  <2>1. Typed'
    BY <1>27 DEF SessionIInv, Unlink, Goto, leases, Key_, Typed, Actor, Steps, Executing
  <2>2. JobsTyped'
    BY <1>27 DEF SessionIInv, JobsTyped, Unlink
  <2>3. Stages'
    BY <1>27 DEF SessionIInv, Unlink, Goto, leases, Key_, Stages, Actor, Fresh
  <2>4. RowsFit'
    BY <1>27, RowsStayFit DEF SessionIInv, Unlink, Goto, leases
  <2> QED
    BY <2>1, <2>2, <2>3, <2>4
<1>28. ASSUME NEW a \in Actor, UnlinkFails(a)
      PROVE  Typed' /\ JobsTyped' /\ Stages' /\ RowsFit'
  <2>1. Typed'
    BY <1>28 DEF SessionIInv, UnlinkFails, FreeLeases, End, Goto, Typed, Actor, Steps, Executing
  <2>2. JobsTyped'
    BY <1>28 DEF SessionIInv, JobsTyped, UnlinkFails
  <2>3. Stages'
    BY <1>28 DEF SessionIInv, UnlinkFails, FreeLeases, End, Goto, Stages, Actor, Fresh
  <2>4. RowsFit'
    BY <1>28, RowsStayFit DEF SessionIInv, UnlinkFails, FreeLeases, End, Goto
  <2> QED
    BY <2>1, <2>2, <2>3, <2>4
<1>29. ASSUME NEW p \in Process, Crash(p)
      PROVE  Typed' /\ JobsTyped' /\ Stages' /\ RowsFit'
  <2>1. Typed'
    BY <1>29 DEF SessionIInv, Crash, Typed, Actor, Steps, Executing
  <2>2. JobsTyped'
    BY <1>29 DEF SessionIInv, JobsTyped, Crash
  <2>3. Stages'
    BY <1>29 DEF SessionIInv, Crash, Stages, Actor, Fresh
  <2>4. RowsFit'
    BY <1>29, RowsStayFit DEF SessionIInv, Crash
  <2> QED
    BY <2>1, <2>2, <2>3, <2>4
<1>30. CASE UNCHANGED vars
  BY <1>30 DEF vars, SessionIInv, Typed, JobsTyped, Stages, RowsFit, OfEngine
<1>31. ASSUME NEW a \in Run, EngineIsGone(a)
      PROVE  Typed' /\ JobsTyped' /\ Stages' /\ RowsFit'
  BY <1>31 DEF EngineIsGone, leases, SessionIInv, Typed, JobsTyped, Stages, RowsFit, OfEngine
<1> QED
  BY <1>1, <1>2, <1>3, <1>4, <1>5, <1>6, <1>7, <1>8, <1>9, <1>10, <1>11, <1>12, <1>13, <1>14, <1>15, <1>16,
     <1>17, <1>18, <1>19, <1>20, <1>21, <1>22, <1>23, <1>24, <1>25, <1>26, <1>27, <1>28, <1>29, <1>30, <1>31 DEF
     Next, RunStep, CleanStep, SharedStep

\* Rows stay with those who hold them.
LEMMA HeldStep ==
  ASSUME SessionIInv, [Next]_vars
  PROVE  Leased' /\ RunsOwn' /\ Removing' /\ CleansPin' /\ SlotsConsistent'
<1>1. ASSUME NEW a \in Run, NEW q \in Requests, StartRun(a, q)
      PROVE  Leased' /\ RunsOwn' /\ Removing' /\ CleansPin' /\ SlotsConsistent'
  <2>1. Leased'
    BY <1>1 DEF SessionIInv, StartRun, Goto, leases, JobsTyped, Job, Actor, Fresh, OwnsRow, WithSlot,
       WithTarget, Executing, Typed, Stages, Leased
  <2>2. RunsOwn'
    BY <1>1 DEF SessionIInv, StartRun, Goto, leases, Key_, Row_, Owned, JobsTyped, Job, Actor, Fresh, OwnsRow,
       Executing, Typed, Stages, RunsOwn, RunOwns
  <2>3. Removing'
    BY <1>1 DEF SessionIInv, StartRun, Goto, leases, Key_, Row_, JobsTyped, Job, Actor, Fresh, Typed, Stages,
       Removing, Removes, CleansPin
  <2>4. CleansPin'
    BY <1>1 DEF SessionIInv, StartRun, Goto, leases, JobsTyped, Job, Actor, Fresh, Typed, Stages, CleansPin
  <2>5. SlotsConsistent'
    BY <1>1 DEF SessionIInv, StartRun, Goto, leases, Present, LiveRows, SlotsConsistent
  <2> QED
    BY <2>1, <2>2, <2>3, <2>4, <2>5
<1>2. ASSUME NEW a \in Run, SelectSlot(a)
      PROVE  Leased' /\ RunsOwn' /\ Removing' /\ CleansPin' /\ SlotsConsistent'
  <2>1. Leased'
    BY <1>2 DEF SessionIInv, SelectSlot, Goto, leases, Key_, Actor, OwnsRow, WithSlot, WithTarget, Executing,
       Leased
  <2>2. RunsOwn'
    BY <1>2 DEF SessionIInv, SelectSlot, Goto, leases, Key_, Row_, Owned, OwnsRow, Executing, RunsOwn, RunOwns
  <2>3. Removing'
    BY <1>2 DEF SessionIInv, SelectSlot, Goto, leases, Key_, Row_, Actor, Removing, Removes
  <2>4. CleansPin'
    BY <1>2 DEF SessionIInv, SelectSlot, Goto, leases, Key_, CleansPin
  <2>5. SlotsConsistent'
    BY <1>2 DEF SessionIInv, SelectSlot, Goto, leases, Key_, Present, LiveRows, SameSlug, FreeSlots,
       IsCanonicalSlot, SlotsConsistent
  <2> QED
    BY <2>1, <2>2, <2>3, <2>4, <2>5
<1>3. ASSUME NEW a \in Run, SelectFails(a)
      PROVE  Leased' /\ RunsOwn' /\ Removing' /\ CleansPin' /\ SlotsConsistent'
  <2>1. Leased'
    BY <1>3 DEF SessionIInv, SelectFails, FreeLeases, End, Goto, Key_, JobsTyped, Job, Actor, Fresh, OwnsRow,
       WithSlot, WithTarget, Executing, Typed, Stages, Leased
  <2>2. RunsOwn'
    BY <1>3 DEF SessionIInv, SelectFails, FreeLeases, End, Goto, Key_, Row_, Owned, OwnsRow, Executing, RunsOwn,
       RunOwns
  <2>3. Removing'
    BY <1>3 DEF SessionIInv, SelectFails, FreeLeases, End, Goto, Key_, Row_, Actor, Removing, Removes
  <2>4. CleansPin'
    BY <1>3 DEF SessionIInv, SelectFails, FreeLeases, End, Goto, Key_, CleansPin
  <2>5. SlotsConsistent'
    BY <1>3 DEF SessionIInv, SelectFails, FreeLeases, End, Goto, Key_, Present, LiveRows, SlotsConsistent
  <2> QED
    BY <2>1, <2>2, <2>3, <2>4, <2>5
<1>4. ASSUME NEW a \in Run, Retake(a)
      PROVE  Leased' /\ RunsOwn' /\ Removing' /\ CleansPin' /\ SlotsConsistent'
  <2>1. Leased'
    BY <1>4 DEF SessionIInv, Retake, FreeLeases, Goto, Key_, JobsTyped, Job, Actor, Fresh, OwnsRow, WithSlot,
       WithTarget, Executing, Typed, Stages, Leased
  <2>2. RunsOwn'
    BY <1>4 DEF SessionIInv, Retake, FreeLeases, Goto, Key_, Row_, Owned, OwnsRow, Executing, RunsOwn, RunOwns
  <2>3. Removing'
    BY <1>4 DEF SessionIInv, Retake, FreeLeases, Goto, Key_, Row_, Actor, Removing, Removes
  <2>4. CleansPin'
    BY <1>4 DEF SessionIInv, Retake, FreeLeases, Goto, Key_, CleansPin
  <2>5. SlotsConsistent'
    BY <1>4 DEF SessionIInv, Retake, FreeLeases, Goto, Key_, Present, LiveRows, SameSlug, FreeSlots,
       IsCanonicalSlot, SlotsConsistent
  <2> QED
    BY <2>1, <2>2, <2>3, <2>4, <2>5
<1>5. ASSUME NEW a \in Run, AdmitNew(a)
      PROVE  Leased' /\ RunsOwn' /\ Removing' /\ CleansPin' /\ SlotsConsistent'
  <2>1. Leased'
    BY <1>5 DEF SessionIInv, AdmitNew, MayReserve, Goto, leases, SetRow, Key_, Row_, InStore, Actor, OwnsRow,
       WithSlot, WithTarget, Executing, Leased
  <2>2. RunsOwn'
    <3> DEFINE q == [state |-> "reserved", instance |-> a, owner |-> a, slot |-> job[a].slot, isolated |-> job[a].isolated]
    <3>0. rows' = [rows EXCEPT ![Key_(a)] = q]
      BY <1>5 DEF AdmitNew, SetRow
    <3>5. q \in Row /\ Key_(a) \in Key
      BY <1>5 DEF AdmitNew, SessionIInv, JobsTyped, Job, Row, Actor, Stages, Key_
    <3> SUFFICES ASSUME NEW r \in Run, pc'[r] \in OwnsRow PROVE RunOwns(r)'
      BY DEF RunsOwn
    <3>1. CASE r = a
      <4>1. /\ Key_(a)' = Key_(a) /\ Row_(a)' = q /\ job'[a].slot = job[a].slot
            /\ job'[a].isolated = job[a].isolated /\ job'[a].instance = a /\ pc'[a] = "admitted"
        <5>1. job'[a] = [job[a] EXCEPT !.instance = a] /\ job[a] \in Job /\ pc'[a] = "admitted"
          BY <1>5 DEF AdmitNew, Goto, SessionIInv, Typed, JobsTyped, Actor
        <5>2. /\ job'[a].key = job[a].key /\ job'[a].slot = job[a].slot
              /\ job'[a].isolated = job[a].isolated /\ job'[a].instance = a
          BY <5>1 DEF Job
        <5> HIDE DEF q
        <5> QED
          BY <5>1, <5>2, <3>0, <3>5 DEF Key_, Row_, SessionIInv, Typed
      <4>2. q # None
        BY <3>5
      <4> QED
        BY <3>1, <4>1, <4>2 DEF RunOwns, Owned, Executing
    <3> HIDE DEF q
    <3>2. CASE r # a
      <4>1. pc[r] \in OwnsRow /\ UNCHANGED pc[r] /\ UNCHANGED job[r] /\ RunOwns(r) /\ Key_(r) \in Key
        BY <1>5, <3>2 DEF AdmitNew, Goto, SessionIInv, Typed, JobsTyped, RunsOwn, OwnsRow, Executing, Stages, Actor, Key_
      <4>2. Key_(r) # Key_(a)
        BY <1>5, <3>2, <4>1 DEF AdmitNew, MayReserve, RunOwns, Owned, Row_
      <4>3. rows'[Key_(r)] = rows[Key_(r)]
        BY <1>5, <4>1, <4>2, <3>0, <3>5 DEF SessionIInv, Typed
      <4> QED
        BY <4>1, <4>3, StillOwns
    <3> QED
      BY <3>1, <3>2
  <2>3. Removing'
    BY <1>5 DEF SessionIInv, AdmitNew, MayReserve, Goto, leases, SetRow, Key_, Row_, InStore, Actor, Removing,
       Removes
  <2>4. CleansPin'
    BY <1>5 DEF SessionIInv, AdmitNew, MayReserve, Goto, leases, SetRow, Key_, Row_, InStore, CleansPin
  <2>5. SlotsConsistent'
    BY <1>5 DEF SessionIInv, AdmitNew, MayReserve, Goto, leases, SetRow, Key_, Row_, InStore, CandidateHolds,
       Present, LiveRows, SameSlug, FreeSlots, IsCanonicalSlot, Conflict, SlotsConsistent
  <2> QED
    BY <2>1, <2>2, <2>3, <2>4, <2>5
<1>6. ASSUME NEW a \in Run, AdmitContinuation(a)
      PROVE  Leased' /\ RunsOwn' /\ Removing' /\ CleansPin' /\ SlotsConsistent'
  <2>1. Leased'
    BY <1>6 DEF SessionIInv, AdmitContinuation, MayContinue, Goto, leases, SetRow, Key_, Row_, InStore,
       JobsTyped, Job, Actor, Fresh, OwnsRow, WithSlot, WithTarget, Executing, Typed, Stages, Leased
  <2>2. RunsOwn'
    <3> SUFFICES ASSUME NEW r \in Run, pc'[r] \in OwnsRow PROVE RunOwns(r)'
      BY DEF RunsOwn
    <3>1. CASE r = a
      <4>1. PICK q \in Row :
              /\ rows' = [rows EXCEPT ![Key_(a)] = q] /\ q.state = "running" /\ q.owner = a
              /\ q.instance = Row_(a).instance /\ q.slot = Row_(a).slot /\ q.isolated = Row_(a).isolated
        BY <1>6, AdmitContinuationMoves DEF Becomes, Row_
      <4>2. /\ Key_(a)' = Key_(a) /\ Row_(a)' = q /\ job'[a].slot = job[a].slot
            /\ job'[a].isolated = job[a].isolated /\ job'[a].instance = Row_(a).instance
        <5>1. /\ job[a] \in Job
              /\ job'[a] = [job[a] EXCEPT !.instance = Row_(a).instance, !.continues = TRUE, !.resumed = mapping[Key_(a)]]
          BY <1>6 DEF AdmitContinuation, SessionIInv, JobsTyped, Actor
        <5>2. /\ job'[a].key = job[a].key /\ job'[a].slot = job[a].slot
              /\ job'[a].isolated = job[a].isolated /\ job'[a].instance = Row_(a).instance
          BY <5>1 DEF Job
        <5>3. Key_(a)' = Key_(a)
          BY <5>2 DEF Key_
        <5>4. Row_(a)' = q
          BY <1>6, <5>3, <4>1, AdmitContinuationMoves DEF Row_, SessionIInv, Typed
        <5> QED
          BY <5>2, <5>3, <5>4
      <4>3. Row_(a).slot = job[a].slot /\ Row_(a).isolated = job[a].isolated
        BY <1>6, AdmitContinuationMoves DEF SessionIInv, RunsOwn, RunOwns, OwnsRow
      <4> HIDE DEF RunOwns
      <4> QED
        BY <3>1, <4>1, <4>2, <4>3 DEF RunOwns, Owned
    <3>2. CASE r # a
      <4>1. pc[r] \in OwnsRow /\ UNCHANGED pc[r] /\ UNCHANGED job[r] /\ RunOwns(r) /\ Key_(r) \in Key
        BY <1>6, <3>2 DEF AdmitContinuation, Goto, SessionIInv, Typed, JobsTyped, RunsOwn, OwnsRow, Executing, Stages, Actor, Key_
      <4>2. Key_(r) # Key_(a)
        BY <1>6, <3>2, <4>1, AdmitContinuationMoves DEF RunOwns, Owned, Row_
      <4>3. rows'[Key_(r)] = rows[Key_(r)]
        BY <1>6, <4>1, <4>2, AdmitContinuationMoves DEF Becomes, SessionIInv, Typed
      <4> QED
        BY <4>1, <4>3, StillOwns
    <3> QED
      BY <3>1, <3>2
  <2>3. Removing'
    BY <1>6 DEF SessionIInv, AdmitContinuation, MayContinue, Goto, leases, SetRow, Key_, Row_, InStore,
       JobsTyped, Job, Actor, Fresh, Typed, Stages, Removing, Removes, CleansPin
  <2>4. CleansPin'
    BY <1>6 DEF SessionIInv, AdmitContinuation, MayContinue, Goto, leases, SetRow, Key_, Row_, InStore,
       JobsTyped, Job, Actor, Fresh, Typed, Stages, CleansPin
  <2>5. SlotsConsistent'
    BY <1>6, AdmitContinuationMoves, BecomesConsistent DEF Row_
  <2> QED
    BY <2>1, <2>2, <2>3, <2>4, <2>5
<1>7. ASSUME NEW a \in Run, AdmitRejects(a)
      PROVE  Leased' /\ RunsOwn' /\ Removing' /\ CleansPin' /\ SlotsConsistent'
  <2>1. Leased'
    BY <1>7 DEF SessionIInv, AdmitRejects, FreeLeases, End, Goto, Key_, JobsTyped, Job, Actor, Fresh, OwnsRow,
       WithSlot, WithTarget, Executing, Typed, Stages, Leased
  <2>2. RunsOwn'
    BY <1>7 DEF SessionIInv, AdmitRejects, FreeLeases, End, Goto, Key_, Row_, Owned, OwnsRow, Executing,
       RunsOwn, RunOwns
  <2>3. Removing'
    BY <1>7 DEF SessionIInv, AdmitRejects, FreeLeases, End, Goto, Key_, Row_, Actor, Removing, Removes
  <2>4. CleansPin'
    BY <1>7 DEF SessionIInv, AdmitRejects, FreeLeases, End, Goto, Key_, CleansPin
  <2>5. SlotsConsistent'
    BY <1>7 DEF SessionIInv, AdmitRejects, FreeLeases, End, Goto, Key_, CandidateHolds, Present, LiveRows,
       SameSlug, FreeSlots, IsCanonicalSlot, Conflict, SlotsConsistent
  <2> QED
    BY <2>1, <2>2, <2>3, <2>4, <2>5
<1>8. ASSUME NEW a \in Run, Revalidate(a)
      PROVE  Leased' /\ RunsOwn' /\ Removing' /\ CleansPin' /\ SlotsConsistent'
  <2>1. Leased'
    BY <1>8 DEF SessionIInv, Revalidate, Goto, leases, SetRow, Key_, Row_, Owned, JobsTyped, Job, Actor, Fresh,
       OwnsRow, WithSlot, WithTarget, Executing, Typed, Stages, Leased
  <2>2. RunsOwn'
    <3> SUFFICES ASSUME NEW r \in Run, pc'[r] \in OwnsRow PROVE RunOwns(r)'
      BY DEF RunsOwn
    <3>1. CASE r = a
      <4>1. PICK q \in Row :
              /\ rows' = [rows EXCEPT ![Key_(a)] = q] /\ q.state = "running" /\ q.owner = a
              /\ q.instance = Row_(a).instance /\ q.slot = Row_(a).slot /\ q.isolated = Row_(a).isolated
        BY <1>8, RevalidateMoves DEF Becomes, Row_
      <4>2. /\ Key_(a)' = Key_(a) /\ Row_(a)' = q /\ job'[a].slot = job[a].slot
            /\ job'[a].isolated = job[a].isolated /\ job'[a].instance = Row_(a).instance
        BY <1>8, <4>1, RevalidateMoves DEF Revalidate, Key_, Row_, SessionIInv, Typed, JobsTyped, Job, Actor, RunsOwn, RunOwns,
           Owned, OwnsRow
      <4>3. Row_(a).slot = job[a].slot /\ Row_(a).isolated = job[a].isolated
        BY <1>8, RevalidateMoves DEF SessionIInv, RunsOwn, RunOwns, OwnsRow
      <4> HIDE DEF RunOwns
      <4> QED
        BY <3>1, <4>1, <4>2, <4>3 DEF RunOwns, Owned
    <3>2. CASE r # a
      <4>1. pc[r] \in OwnsRow /\ UNCHANGED pc[r] /\ UNCHANGED job[r] /\ RunOwns(r) /\ Key_(r) \in Key
        BY <1>8, <3>2 DEF Revalidate, Goto, SessionIInv, Typed, JobsTyped, RunsOwn, OwnsRow, Executing, Stages, Actor, Key_
      <4>2. Key_(r) # Key_(a)
        BY <1>8, <3>2, <4>1, RevalidateMoves DEF RunOwns, Owned, Row_
      <4>3. rows'[Key_(r)] = rows[Key_(r)]
        BY <1>8, <4>1, <4>2, RevalidateMoves DEF Becomes, SessionIInv, Typed
      <4> QED
        BY <4>1, <4>3, StillOwns
    <3> QED
      BY <3>1, <3>2
  <2>3. Removing'
    BY <1>8 DEF SessionIInv, Revalidate, Goto, leases, SetRow, Key_, Row_, Owned, JobsTyped, Job, Actor, Fresh,
       Typed, Stages, Removing, Removes, CleansPin
  <2>4. CleansPin'
    BY <1>8 DEF SessionIInv, Revalidate, Goto, leases, SetRow, Key_, Row_, Owned, JobsTyped, Job, Actor, Fresh,
       Typed, Stages, CleansPin
  <2>5. SlotsConsistent'
    BY <1>8, RevalidateMoves, BecomesConsistent DEF Row_
  <2> QED
    BY <2>1, <2>2, <2>3, <2>4, <2>5
<1>9. ASSUME NEW a \in Run, Publish(a)
      PROVE  Leased' /\ RunsOwn' /\ Removing' /\ CleansPin' /\ SlotsConsistent'
  <2>1. Leased'
    BY <1>9 DEF SessionIInv, Publish, Goto, leases, Key_, InStore, JobsTyped, Job, Actor, Fresh, OwnsRow,
       WithSlot, WithTarget, Executing, Typed, Stages, Leased
  <2>2. RunsOwn'
    BY <1>9 DEF SessionIInv, Publish, Goto, leases, Key_, Row_, Owned, InStore, JobsTyped, Job, Actor, Fresh,
       OwnsRow, Executing, Typed, Stages, RunsOwn, RunOwns
  <2>3. Removing'
    BY <1>9 DEF SessionIInv, Publish, Goto, leases, Key_, Row_, InStore, JobsTyped, Job, Actor, Fresh, Typed,
       Stages, Removing, Removes, CleansPin
  <2>4. CleansPin'
    BY <1>9 DEF SessionIInv, Publish, Goto, leases, Key_, InStore, JobsTyped, Job, Actor, Fresh, Typed, Stages,
       CleansPin
  <2>5. SlotsConsistent'
    BY <1>9 DEF SessionIInv, Publish, Goto, leases, Key_, InStore, Present, LiveRows, SlotsConsistent
  <2> QED
    BY <2>1, <2>2, <2>3, <2>4, <2>5
<1>10. ASSUME NEW a \in Run, FinishIdle(a)
      PROVE  Leased' /\ RunsOwn' /\ Removing' /\ CleansPin' /\ SlotsConsistent'
  <2>1. Leased'
    BY <1>10 DEF SessionIInv, FinishIdle, ToIdle, CompletesIdle, AbandonsIdle, FreeLeases, End, Goto, SetRow,
       Key_, Row_, Owned, InStore, JobsTyped, Job, Actor, Fresh, OwnsRow, WithSlot, WithTarget, Executing,
       Typed, Stages, Leased
  <2>2. RunsOwn'
    BY <1>10 DEF SessionIInv, FinishIdle, ToIdle, CompletesIdle, AbandonsIdle, FreeLeases, End, Goto, SetRow,
       Key_, Row_, Owned, InStore, JobsTyped, Job, Actor, Fresh, OwnsRow, Executing, Typed, Stages, RunsOwn,
       RunOwns
  <2>3. Removing'
    BY <1>10 DEF SessionIInv, FinishIdle, ToIdle, CompletesIdle, AbandonsIdle, FreeLeases, End, Goto, SetRow,
       Key_, Row_, Owned, InStore, Actor, Removing, Removes
  <2>4. CleansPin'
    BY <1>10 DEF SessionIInv, FinishIdle, ToIdle, CompletesIdle, AbandonsIdle, FreeLeases, End, Goto, SetRow,
       Key_, Row_, Owned, InStore, CleansPin
  <2>5. SlotsConsistent'
    BY <1>10, FinishIdleMoves, BecomesConsistent DEF Row_
  <2> QED
    BY <2>1, <2>2, <2>3, <2>4, <2>5
<1>11. ASSUME NEW a \in Run, FinishRemoval(a)
      PROVE  Leased' /\ RunsOwn' /\ Removing' /\ CleansPin' /\ SlotsConsistent'
  <2>1. Leased'
    BY <1>11 DEF SessionIInv, FinishRemoval, ToRemoved, CompletesRemoved, AbandonsRemoved, MayRemove, Goto,
       leases, SetRow, Key_, Row_, Owned, InStore, Actor, OwnsRow, WithSlot, WithTarget, Executing, Leased
  <2>2. RunsOwn'
    BY <1>11 DEF SessionIInv, FinishRemoval, ToRemoved, CompletesRemoved, AbandonsRemoved, MayRemove, Goto,
       leases, SetRow, Key_, Row_, Owned, InStore, JobsTyped, Job, Actor, Fresh, OwnsRow, Executing, Typed,
       Stages, RunsOwn, RunOwns
  <2>3. Removing'
    <3> SUFFICES ASSUME NEW b \in Actor, pc'[b] \in {"unlink", "drop"} PROVE Removes(b)'
      BY DEF Removing
    <3>1. CASE b = a
      <4>1. PICK q \in Row : rows' = [rows EXCEPT ![Key_(a)] = q] /\ q.state = "deleting" /\ q.slot = Row_(a).slot
        BY <1>11, FinishRemovalMoves DEF Becomes, Row_
      <4>2. Row_(a)' = q /\ UNCHANGED job
        BY <1>11, <4>1, FinishRemovalMoves DEF FinishRemoval, Row_, Key_, SessionIInv, Typed
      <4> QED
        BY <1>11, <3>1, <4>1, <4>2, FinishRemovalMoves DEF Removes
    <3>2. CASE b # a
      <4>1. pc[b] \in {"unlink", "drop"} /\ UNCHANGED job[b] /\ Removes(b) /\ Key_(b) \in Key /\ pc[b] \in WithSlot
        BY <1>11, <3>2 DEF FinishRemoval, End, Goto, SessionIInv, Typed, Removing, Stages, Actor, Key_, WithSlot
      <4>2. Key_(b) # Key_(a)
        BY <1>11, <4>1, FinishRemovalMoves DEF Removes, Row_
      <4>3. rows'[Key_(b)] = rows[Key_(b)]
        BY <1>11, <4>1, <4>2, FinishRemovalMoves DEF Becomes, SessionIInv, Typed
      <4> QED
        BY <4>1, <4>3, StillRemoves
    <3> QED
      BY <3>1, <3>2
  <2>4. CleansPin'
    BY <1>11 DEF SessionIInv, FinishRemoval, ToRemoved, CompletesRemoved, AbandonsRemoved, MayRemove, Goto,
       leases, SetRow, Key_, Row_, Owned, InStore, CleansPin
  <2>5. SlotsConsistent'
    BY <1>11, FinishRemovalMoves, BecomesConsistent DEF Row_
  <2> QED
    BY <2>1, <2>2, <2>3, <2>4, <2>5
<1>12. ASSUME NEW a \in Run, FinishRetained(a)
      PROVE  Leased' /\ RunsOwn' /\ Removing' /\ CleansPin' /\ SlotsConsistent'
  <2>1. Leased'
    BY <1>12 DEF SessionIInv, FinishRetained, FreeLeases, End, Goto, JobsTyped, Job, Actor, Fresh, OwnsRow,
       WithSlot, WithTarget, Executing, Typed, Stages, Leased
  <2>2. RunsOwn'
    BY <1>12 DEF SessionIInv, FinishRetained, FreeLeases, End, Goto, Key_, Row_, Owned, OwnsRow, Executing,
       RunsOwn, RunOwns
  <2>3. Removing'
    BY <1>12 DEF SessionIInv, FinishRetained, FreeLeases, End, Goto, Key_, Row_, Actor, Removing, Removes
  <2>4. CleansPin'
    BY <1>12 DEF SessionIInv, FinishRetained, FreeLeases, End, Goto, CleansPin
  <2>5. SlotsConsistent'
    BY <1>12 DEF SessionIInv, FinishRetained, FreeLeases, End, Goto, Present, LiveRows, SlotsConsistent
  <2> QED
    BY <2>1, <2>2, <2>3, <2>4, <2>5
<1>13. ASSUME NEW a \in Run, DropOwn(a)
      PROVE  Leased' /\ RunsOwn' /\ Removing' /\ CleansPin' /\ SlotsConsistent'
  <2>1. Leased'
    BY <1>13 DEF SessionIInv, DropOwn, FreeLeases, End, Goto, SetRow, Key_, JobsTyped, Job, Actor, Fresh,
       OwnsRow, WithSlot, WithTarget, Executing, Typed, Stages, Leased
  <2>2. RunsOwn'
    <3> SUFFICES ASSUME NEW r \in Run, pc'[r] \in OwnsRow PROVE RunOwns(r)'
      BY DEF RunsOwn
    <3>1. r # a
      BY <1>13 DEF DropOwn, End, Goto, SessionIInv, Typed, OwnsRow, Executing, Actor
    <3>2. pc[r] \in OwnsRow /\ UNCHANGED pc[r] /\ UNCHANGED job[r] /\ RunOwns(r) /\ Key_(r) \in Key
      BY <1>13, <3>1 DEF DropOwn, End, Goto, SessionIInv, Typed, RunsOwn, OwnsRow, Executing, Stages, Actor, Key_
    <3>3. Row_(a).state = "deleting"
      BY <1>13 DEF DropOwn, SessionIInv, Removing, Removes, Actor
    <3>4. Key_(r) # Key_(a)
      BY <3>2, <3>3 DEF RunOwns, Row_
    <3>5. rows'[Key_(r)] = rows[Key_(r)]
      BY <1>13, <3>2, <3>4 DEF DropOwn, SetRow, SessionIInv, Typed
    <3> QED
      BY <3>2, <3>5, StillOwns
  <2>3. Removing'
    <3> SUFFICES ASSUME NEW b \in Actor, pc'[b] \in {"unlink", "drop"} PROVE Removes(b)'
      BY DEF Removing
    <3>1. a \in Actor /\ pc[a] = "drop" /\ Removes(a) /\ b # a
      BY <1>13 DEF DropOwn, End, Goto, SessionIInv, Typed, Removing, Actor
    <3>2. CASE b # a
      <4>1. pc[b] \in {"unlink", "drop"} /\ UNCHANGED job[b] /\ Removes(b) /\ Key_(b) \in Key /\ pc[b] \in WithSlot
        BY <1>13, <3>2 DEF DropOwn, End, Goto, SessionIInv, Typed, Removing, Stages, Actor, Key_, WithSlot
      <4>2. Key_(b) # Key_(a)
        <5>1. pc[a] \in WithSlot
          BY <3>1 DEF WithSlot
        <5> QED
          BY <3>1, <4>1, <5>1, OneHolder DEF Removes
      <4>3. rows'[Key_(b)] = rows[Key_(b)]
        BY <1>13, <4>1, <4>2 DEF DropOwn, SetRow, SessionIInv, Typed
      <4> QED
        BY <4>1, <4>3, StillRemoves
    <3> QED
      BY <3>1, <3>2
  <2>4. CleansPin'
    BY <1>13 DEF SessionIInv, DropOwn, FreeLeases, End, Goto, SetRow, Key_, CleansPin
  <2>5. SlotsConsistent'
    BY <1>13 DEF SessionIInv, DropOwn, FreeLeases, End, Goto, SetRow, Key_, Present, LiveRows, SlotsConsistent
  <2> QED
    BY <2>1, <2>2, <2>3, <2>4, <2>5
<1>14. ASSUME NEW a \in Run, Retain(a)
      PROVE  Leased' /\ RunsOwn' /\ Removing' /\ CleansPin' /\ SlotsConsistent'
  <2>1. Leased'
    BY <1>14 DEF SessionIInv, Retain, FreeLeases, End, Goto, JobsTyped, Job, Actor, Fresh, OwnsRow, WithSlot,
       WithTarget, Executing, Typed, Stages, Leased
  <2>2. RunsOwn'
    BY <1>14 DEF SessionIInv, Retain, FreeLeases, End, Goto, Key_, Row_, Owned, OwnsRow, Executing, RunsOwn,
       RunOwns
  <2>3. Removing'
    BY <1>14 DEF SessionIInv, Retain, FreeLeases, End, Goto, Key_, Row_, Actor, Removing, Removes
  <2>4. CleansPin'
    BY <1>14 DEF SessionIInv, Retain, FreeLeases, End, Goto, CleansPin
  <2>5. SlotsConsistent'
    BY <1>14 DEF SessionIInv, Retain, FreeLeases, End, Goto, Present, LiveRows, SlotsConsistent
  <2> QED
    BY <2>1, <2>2, <2>3, <2>4, <2>5
<1>15. ASSUME NEW a \in Run, Throw(a)
      PROVE  Leased' /\ RunsOwn' /\ Removing' /\ CleansPin' /\ SlotsConsistent'
  <2>1. Leased'
    BY <1>15 DEF SessionIInv, Throw, Goto, leases, Key_, JobsTyped, Job, Actor, Fresh, OwnsRow, WithSlot,
       WithTarget, Executing, Typed, Stages, Leased
  <2>2. RunsOwn'
    BY <1>15 DEF SessionIInv, Throw, Goto, leases, Key_, Row_, Owned, JobsTyped, Job, Actor, Fresh, OwnsRow,
       Executing, Typed, Stages, RunsOwn, RunOwns
  <2>3. Removing'
    BY <1>15 DEF SessionIInv, Throw, Goto, leases, Key_, Row_, JobsTyped, Job, Actor, Fresh, Executing, Typed,
       Stages, Removing, Removes, CleansPin
  <2>4. CleansPin'
    BY <1>15 DEF SessionIInv, Throw, Goto, leases, Key_, JobsTyped, Job, Actor, Fresh, Executing, Typed, Stages,
       CleansPin
  <2>5. SlotsConsistent'
    BY <1>15 DEF SessionIInv, Throw, Goto, leases, Key_, Executing, Present, LiveRows, SlotsConsistent
  <2> QED
    BY <2>1, <2>2, <2>3, <2>4, <2>5
<1>16. ASSUME NEW a \in Run, NEW id \in RealId \cup {None}, EngineEnds(a, id)
      PROVE  Leased' /\ RunsOwn' /\ Removing' /\ CleansPin' /\ SlotsConsistent'
  <2>1. Leased'
    BY <1>16 DEF SessionIInv, EngineEnds, NativeIds, Goto, leases, Key_, InStore, Actor, OwnsRow, WithSlot,
       WithTarget, Executing, Leased
  <2>2. RunsOwn'
    BY <1>16 DEF SessionIInv, EngineEnds, NativeIds, Goto, leases, Key_, Row_, Owned, InStore, OwnsRow,
       Executing, RunsOwn, RunOwns
  <2>3. Removing'
    BY <1>16 DEF SessionIInv, EngineEnds, NativeIds, Goto, leases, Key_, Row_, InStore, Actor, Removing, Removes
  <2>4. CleansPin'
    BY <1>16 DEF SessionIInv, EngineEnds, NativeIds, Goto, leases, Key_, InStore, CleansPin
  <2>5. SlotsConsistent'
    BY <1>16 DEF SessionIInv, EngineEnds, NativeIds, Goto, leases, Key_, InStore, Present, LiveRows,
       SlotsConsistent
  <2> QED
    BY <2>1, <2>2, <2>3, <2>4, <2>5
<1>17. ASSUME NEW a \in Clean, NEW q \in Requests, NEW force \in BOOLEAN, StartClean(a, q.key, force)
      PROVE  Leased' /\ RunsOwn' /\ Removing' /\ CleansPin' /\ SlotsConsistent'
  <2>1. Leased'
    BY <1>17 DEF SessionIInv, StartClean, Goto, leases, JobsTyped, Job, Actor, Fresh, OwnsRow, WithSlot,
       WithTarget, Executing, Typed, Stages, Leased
  <2>2. RunsOwn'
    BY <1>17 DEF SessionIInv, StartClean, Goto, leases, Key_, Row_, Owned, JobsTyped, Job, Actor, Fresh, OwnsRow,
       Executing, Typed, Stages, RunsOwn, RunOwns
  <2>3. Removing'
    BY <1>17 DEF SessionIInv, StartClean, Goto, leases, Key_, Row_, JobsTyped, Job, Actor, Fresh, Typed, Stages,
       Removing, Removes, CleansPin
  <2>4. CleansPin'
    BY <1>17 DEF SessionIInv, StartClean, Goto, leases, JobsTyped, Job, Actor, Fresh, Typed, Stages, CleansPin
  <2>5. SlotsConsistent'
    BY <1>17 DEF SessionIInv, StartClean, Goto, leases, Present, LiveRows, SlotsConsistent
  <2> QED
    BY <2>1, <2>2, <2>3, <2>4, <2>5
<1>18. ASSUME NEW a \in Clean, Scan(a)
      PROVE  Leased' /\ RunsOwn' /\ Removing' /\ CleansPin' /\ SlotsConsistent'
  <2>1. Leased'
    BY <1>18 DEF SessionIInv, Scan, Goto, leases, Key_, Row_, JobsTyped, Job, Actor, Fresh, OwnsRow, WithSlot,
       WithTarget, Executing, Typed, Stages, Leased
  <2>2. RunsOwn'
    BY <1>18 DEF SessionIInv, Scan, Goto, leases, Key_, Row_, Owned, JobsTyped, Job, Actor, Fresh, OwnsRow,
       Executing, Typed, Stages, RunsOwn, RunOwns
  <2>3. Removing'
    BY <1>18 DEF SessionIInv, Scan, Goto, leases, Key_, Row_, JobsTyped, Job, Actor, Fresh, Typed, Stages,
       Removing, Removes, CleansPin
  <2>4. CleansPin'
    BY <1>18 DEF SessionIInv, Scan, Goto, leases, Key_, Row_, JobsTyped, Job, Actor, Fresh, Typed, Stages,
       CleansPin
  <2>5. SlotsConsistent'
    BY <1>18 DEF SessionIInv, Scan, Goto, leases, Key_, Row_, Present, LiveRows, SlotsConsistent
  <2> QED
    BY <2>1, <2>2, <2>3, <2>4, <2>5
<1>19. ASSUME NEW a \in Clean, ScanRefuses(a)
      PROVE  Leased' /\ RunsOwn' /\ Removing' /\ CleansPin' /\ SlotsConsistent'
  <2>1. Leased'
    BY <1>19 DEF SessionIInv, ScanRefuses, FreeLeases, End, Goto, Key_, Row_, JobsTyped, Job, Actor, Fresh,
       OwnsRow, WithSlot, WithTarget, Executing, Typed, Stages, Leased
  <2>2. RunsOwn'
    BY <1>19 DEF SessionIInv, ScanRefuses, FreeLeases, End, Goto, Key_, Row_, Owned, OwnsRow, Executing, RunsOwn,
       RunOwns
  <2>3. Removing'
    BY <1>19 DEF SessionIInv, ScanRefuses, FreeLeases, End, Goto, Key_, Row_, Actor, Removing, Removes
  <2>4. CleansPin'
    BY <1>19 DEF SessionIInv, ScanRefuses, FreeLeases, End, Goto, Key_, Row_, CleansPin
  <2>5. SlotsConsistent'
    BY <1>19 DEF SessionIInv, ScanRefuses, FreeLeases, End, Goto, Key_, Row_, Present, LiveRows, SlotsConsistent
  <2> QED
    BY <2>1, <2>2, <2>3, <2>4, <2>5
<1>20. ASSUME NEW a \in Clean, ScanNoRow(a)
      PROVE  Leased' /\ RunsOwn' /\ Removing' /\ CleansPin' /\ SlotsConsistent'
  <2>1. Leased'
    BY <1>20 DEF SessionIInv, ScanNoRow, Goto, leases, Key_, Row_, Actor, OwnsRow, WithSlot, WithTarget,
       Executing, Leased
  <2>2. RunsOwn'
    BY <1>20 DEF SessionIInv, ScanNoRow, Goto, leases, Key_, Row_, Owned, OwnsRow, Executing, RunsOwn, RunOwns
  <2>3. Removing'
    BY <1>20 DEF SessionIInv, ScanNoRow, Goto, leases, Key_, Row_, Actor, Removing, Removes
  <2>4. CleansPin'
    BY <1>20 DEF SessionIInv, ScanNoRow, Goto, leases, Key_, Row_, CleansPin
  <2>5. SlotsConsistent'
    BY <1>20 DEF SessionIInv, ScanNoRow, Goto, leases, Key_, Row_, Present, LiveRows, SlotsConsistent
  <2> QED
    BY <2>1, <2>2, <2>3, <2>4, <2>5
<1>21. ASSUME NEW a \in Clean, CleanOrphan(a)
      PROVE  Leased' /\ RunsOwn' /\ Removing' /\ CleansPin' /\ SlotsConsistent'
  <2>1. Leased'
    BY <1>21 DEF SessionIInv, CleanOrphan, FreeLeases, End, Goto, Key_, Row_, JobsTyped, Job, Actor, Fresh,
       OwnsRow, WithSlot, WithTarget, Executing, Typed, Stages, Leased
  <2>2. RunsOwn'
    BY <1>21 DEF SessionIInv, CleanOrphan, FreeLeases, End, Goto, Key_, Row_, Owned, OwnsRow, Executing, RunsOwn,
       RunOwns
  <2>3. Removing'
    BY <1>21 DEF SessionIInv, CleanOrphan, FreeLeases, End, Goto, Key_, Row_, Actor, Removing, Removes
  <2>4. CleansPin'
    BY <1>21 DEF SessionIInv, CleanOrphan, FreeLeases, End, Goto, Key_, Row_, CleansPin
  <2>5. SlotsConsistent'
    BY <1>21 DEF SessionIInv, CleanOrphan, FreeLeases, End, Goto, Key_, Row_, Present, LiveRows, SlotsConsistent
  <2> QED
    BY <2>1, <2>2, <2>3, <2>4, <2>5
<1>22. ASSUME NEW a \in Clean, Mark(a)
      PROVE  Leased' /\ RunsOwn' /\ Removing' /\ CleansPin' /\ SlotsConsistent'
  <2>1. Leased'
    BY <1>22 DEF SessionIInv, Mark, SameRow, Goto, leases, SetRow, Key_, Row_, Actor, OwnsRow, WithSlot,
       WithTarget, Executing, Leased
  <2>2. RunsOwn'
    <3> SUFFICES ASSUME NEW r \in Run, pc'[r] \in OwnsRow PROVE RunOwns(r)'
      BY DEF RunsOwn
    <3>1. r # a /\ pc[r] \in OwnsRow /\ UNCHANGED pc[r] /\ UNCHANGED job[r] /\ RunOwns(r) /\ Key_(r) \in Key
      BY <1>22 DEF Mark, Goto, SessionIInv, Typed, RunsOwn, OwnsRow, Executing, Stages, Actor, Key_
    <3>2. Key_(r) # Key_(a)
      BY <1>22, <3>1, MarkMoves
    <3>3. rows'[Key_(r)] = rows[Key_(r)]
      BY <1>22, <3>1, <3>2, MarkMoves DEF Becomes, SessionIInv, Typed
    <3> QED
      BY <3>1, <3>3, StillOwns
  <2>3. Removing'
    <3> SUFFICES ASSUME NEW b \in Actor, pc'[b] \in {"unlink", "drop"} PROVE Removes(b)'
      BY DEF Removing
    <3>1. CASE b = a
      <4>1. UNCHANGED job
        BY <1>22 DEF Mark
      <4>2. CASE UNCHANGED rows /\ Row_(a).state = "deleting"
        <5>1. Row_(a)' = Row_(a)
          BY <4>1, <4>2 DEF Row_, Key_
        <5> QED
          BY <1>22, <3>1, <4>1, <4>2, <5>1, MarkMoves DEF Removes
      <4>3. CASE Becomes(Key_(a), "deleting", a)
        <5>1. PICK q \in Row : /\ rows' = [rows EXCEPT ![Key_(a)] = q] /\ q.state = "deleting"
                               /\ q.slot = Row_(a).slot /\ q.instance = Row_(a).instance
          BY <4>3 DEF Becomes, Row_
        <5>2. Row_(a)' = q
          BY <1>22, <4>1, <5>1, MarkMoves DEF Row_, Key_, SessionIInv, Typed
        <5> QED
          BY <1>22, <3>1, <4>1, <5>1, <5>2, MarkMoves DEF Removes
      <4> QED
        BY <1>22, <4>2, <4>3, MarkMoves
    <3>2. CASE b # a
      <4>1. pc[b] \in {"unlink", "drop"} /\ UNCHANGED job[b] /\ Removes(b) /\ Key_(b) \in Key /\ pc[b] \in WithSlot
        BY <1>22, <3>2 DEF Mark, End, Goto, SessionIInv, Typed, Removing, Stages, Actor, Key_, WithSlot
      <4>2. Key_(b) # Key_(a)
        <5>1. pc[a] \in WithSlot /\ a \in Actor
          BY <1>22 DEF Mark, WithSlot, Actor
        <5> QED
          BY <1>22, <3>2, <4>1, <5>1, MarkMoves, OneHolder DEF Removes
      <4>3. rows'[Key_(b)] = rows[Key_(b)]
        BY <1>22, <4>1, <4>2, MarkMoves DEF Becomes, SessionIInv, Typed
      <4> QED
        BY <4>1, <4>3, StillRemoves
    <3> QED
      BY <3>1, <3>2
  <2>4. CleansPin'
    BY <1>22 DEF SessionIInv, Mark, SameRow, Goto, leases, SetRow, Key_, Row_, CleansPin
  <2>5. SlotsConsistent'
    <3>1. CASE UNCHANGED rows
      BY <3>1 DEF SessionIInv, SlotsConsistent, Present, LiveRows
    <3>2. CASE Becomes(Key_(a), "deleting", a)
      BY <1>22, <3>2, MarkMoves, BecomesConsistent DEF Row_
    <3> QED
      BY <1>22, <3>1, <3>2, MarkMoves
  <2> QED
    BY <2>1, <2>2, <2>3, <2>4, <2>5
<1>23. ASSUME NEW a \in Clean, MarkFails(a)
      PROVE  Leased' /\ RunsOwn' /\ Removing' /\ CleansPin' /\ SlotsConsistent'
  <2>1. Leased'
    BY <1>23 DEF SessionIInv, MarkFails, FreeLeases, End, Goto, Key_, JobsTyped, Job, Actor, Fresh, OwnsRow,
       WithSlot, WithTarget, Executing, Typed, Stages, Leased
  <2>2. RunsOwn'
    BY <1>23 DEF SessionIInv, MarkFails, FreeLeases, End, Goto, Key_, Row_, Owned, OwnsRow, Executing, RunsOwn,
       RunOwns
  <2>3. Removing'
    BY <1>23 DEF SessionIInv, MarkFails, FreeLeases, End, Goto, Key_, Row_, Actor, Removing, Removes
  <2>4. CleansPin'
    BY <1>23 DEF SessionIInv, MarkFails, FreeLeases, End, Goto, Key_, CleansPin
  <2>5. SlotsConsistent'
    BY <1>23 DEF SessionIInv, MarkFails, FreeLeases, End, Goto, Key_, Present, LiveRows, Conflict,
       SlotsConsistent
  <2> QED
    BY <2>1, <2>2, <2>3, <2>4, <2>5
<1>24. ASSUME NEW a \in Clean, DropCleaned(a)
      PROVE  Leased' /\ RunsOwn' /\ Removing' /\ CleansPin' /\ SlotsConsistent'
  <2>1. Leased'
    BY <1>24 DEF SessionIInv, DropCleaned, SameRow, FreeLeases, End, Goto, SetRow, Key_, Row_, JobsTyped, Job,
       Actor, Fresh, OwnsRow, WithSlot, WithTarget, Executing, Typed, Stages, Leased
  <2>2. RunsOwn'
    BY <1>24 DEF SessionIInv, DropCleaned, SameRow, FreeLeases, End, Goto, SetRow, Key_, Row_, Owned, JobsTyped,
       Job, Actor, Fresh, OwnsRow, Executing, Typed, Stages, RunsOwn, RunOwns
  <2>3. Removing'
    <3> SUFFICES ASSUME NEW b \in Actor, pc'[b] \in {"unlink", "drop"} PROVE Removes(b)'
      BY DEF Removing
    <3>1. a \in Actor /\ pc[a] = "drop" /\ Removes(a) /\ b # a
      BY <1>24 DEF DropCleaned, End, Goto, SessionIInv, Typed, Removing, Actor
    <3>2. CASE b # a
      <4>1. pc[b] \in {"unlink", "drop"} /\ UNCHANGED job[b] /\ Removes(b) /\ Key_(b) \in Key /\ pc[b] \in WithSlot
        BY <1>24, <3>2 DEF DropCleaned, End, Goto, SessionIInv, Typed, Removing, Stages, Actor, Key_, WithSlot
      <4>2. Key_(b) # Key_(a)
        <5>1. pc[a] \in WithSlot
          BY <3>1 DEF WithSlot
        <5> QED
          BY <3>1, <4>1, <5>1, OneHolder DEF Removes
      <4>3. rows'[Key_(b)] = rows[Key_(b)]
        BY <1>24, <4>1, <4>2 DEF DropCleaned, SetRow, SessionIInv, Typed
      <4> QED
        BY <4>1, <4>3, StillRemoves
    <3> QED
      BY <3>1, <3>2
  <2>4. CleansPin'
    BY <1>24 DEF SessionIInv, DropCleaned, SameRow, FreeLeases, End, Goto, SetRow, Key_, Row_, CleansPin
  <2>5. SlotsConsistent'
    BY <1>24 DEF SessionIInv, DropCleaned, SameRow, FreeLeases, End, Goto, SetRow, Key_, Row_, Owned, JobsTyped,
       Job, Actor, Fresh, OwnsRow, Executing, Typed, Stages, CleansPin, RunsOwn, RunOwns, Present, LiveRows,
       SlotsConsistent
  <2> QED
    BY <2>1, <2>2, <2>3, <2>4, <2>5
<1>25. ASSUME NEW a \in Actor, TakeTarget(a)
      PROVE  Leased' /\ RunsOwn' /\ Removing' /\ CleansPin' /\ SlotsConsistent'
  <2>1. Leased'
    BY <1>25 DEF SessionIInv, TakeTarget, Goto, Actor, OwnsRow, WithSlot, WithTarget, Executing, Leased
  <2>2. RunsOwn'
    BY <1>25 DEF SessionIInv, TakeTarget, Goto, Key_, Row_, Owned, OwnsRow, Executing, RunsOwn, RunOwns
  <2>3. Removing'
    BY <1>25 DEF SessionIInv, TakeTarget, Goto, Key_, Row_, Actor, Removing, Removes
  <2>4. CleansPin'
    BY <1>25 DEF SessionIInv, TakeTarget, Goto, CleansPin
  <2>5. SlotsConsistent'
    BY <1>25 DEF SessionIInv, TakeTarget, Goto, Present, LiveRows, SlotsConsistent
  <2> QED
    BY <2>1, <2>2, <2>3, <2>4, <2>5
<1>26. ASSUME NEW a \in Actor, TakeSlot(a)
      PROVE  Leased' /\ RunsOwn' /\ Removing' /\ CleansPin' /\ SlotsConsistent'
  <2>1. Leased'
    BY <1>26 DEF SessionIInv, TakeSlot, Goto, JobsTyped, Job, Actor, Fresh, OwnsRow, WithSlot, WithTarget,
       Executing, Typed, Stages, Leased
  <2>2. RunsOwn'
    BY <1>26 DEF SessionIInv, TakeSlot, Goto, Key_, Row_, Owned, OwnsRow, Executing, RunsOwn, RunOwns
  <2>3. Removing'
    BY <1>26 DEF SessionIInv, TakeSlot, Goto, Key_, Row_, Actor, Removing, Removes
  <2>4. CleansPin'
    BY <1>26 DEF SessionIInv, TakeSlot, Goto, CleansPin
  <2>5. SlotsConsistent'
    BY <1>26 DEF SessionIInv, TakeSlot, Goto, Present, LiveRows, SlotsConsistent
  <2> QED
    BY <2>1, <2>2, <2>3, <2>4, <2>5
<1>27. ASSUME NEW a \in Actor, Unlink(a)
      PROVE  Leased' /\ RunsOwn' /\ Removing' /\ CleansPin' /\ SlotsConsistent'
  <2>1. Leased'
    BY <1>27 DEF SessionIInv, Unlink, Goto, leases, Key_, Actor, OwnsRow, WithSlot, WithTarget, Executing, Leased
  <2>2. RunsOwn'
    BY <1>27 DEF SessionIInv, Unlink, Goto, leases, Key_, Row_, Owned, OwnsRow, Executing, RunsOwn, RunOwns
  <2>3. Removing'
    BY <1>27 DEF SessionIInv, Unlink, Goto, leases, Key_, Row_, Actor, Removing, Removes
  <2>4. CleansPin'
    BY <1>27 DEF SessionIInv, Unlink, Goto, leases, Key_, CleansPin
  <2>5. SlotsConsistent'
    BY <1>27 DEF SessionIInv, Unlink, Goto, leases, Key_, Present, LiveRows, SlotsConsistent
  <2> QED
    BY <2>1, <2>2, <2>3, <2>4, <2>5
<1>28. ASSUME NEW a \in Actor, UnlinkFails(a)
      PROVE  Leased' /\ RunsOwn' /\ Removing' /\ CleansPin' /\ SlotsConsistent'
  <2>1. Leased'
    BY <1>28 DEF SessionIInv, UnlinkFails, FreeLeases, End, Goto, JobsTyped, Job, Actor, Fresh, OwnsRow,
       WithSlot, WithTarget, Executing, Typed, Stages, Leased
  <2>2. RunsOwn'
    BY <1>28 DEF SessionIInv, UnlinkFails, FreeLeases, End, Goto, Key_, Row_, Owned, OwnsRow, Executing, RunsOwn,
       RunOwns
  <2>3. Removing'
    BY <1>28 DEF SessionIInv, UnlinkFails, FreeLeases, End, Goto, Key_, Row_, Actor, Removing, Removes
  <2>4. CleansPin'
    BY <1>28 DEF SessionIInv, UnlinkFails, FreeLeases, End, Goto, CleansPin
  <2>5. SlotsConsistent'
    BY <1>28 DEF SessionIInv, UnlinkFails, FreeLeases, End, Goto, Present, LiveRows, SlotsConsistent
  <2> QED
    BY <2>1, <2>2, <2>3, <2>4, <2>5
<1>29. ASSUME NEW p \in Process, Crash(p)
      PROVE  Leased' /\ RunsOwn' /\ Removing' /\ CleansPin' /\ SlotsConsistent'
  <2>1. Leased'
    BY <1>29 DEF SessionIInv, Crash, JobsTyped, Job, Actor, Fresh, OwnsRow, WithSlot, WithTarget, Executing,
       Typed, Stages, Leased
  <2>2. RunsOwn'
    BY <1>29 DEF SessionIInv, Crash, Key_, Row_, Owned, Actor, OwnsRow, Executing, RunsOwn, RunOwns
  <2>3. Removing'
    BY <1>29 DEF SessionIInv, Crash, Key_, Row_, Actor, Removing, Removes
  <2>4. CleansPin'
    BY <1>29 DEF SessionIInv, Crash, Actor, CleansPin
  <2>5. SlotsConsistent'
    BY <1>29 DEF SessionIInv, Crash, Actor, Present, LiveRows, SlotsConsistent
  <2> QED
    BY <2>1, <2>2, <2>3, <2>4, <2>5
<1>30. CASE UNCHANGED vars
  BY <1>30 DEF vars, SessionIInv, Leased, RunsOwn, RunOwns, Owned, Row_, Key_, Removing, Removes, CleansPin,
     SlotsConsistent, Present, LiveRows
<1>31. ASSUME NEW a \in Run, EngineIsGone(a)
      PROVE  Leased' /\ RunsOwn' /\ Removing' /\ CleansPin' /\ SlotsConsistent'
  BY <1>31 DEF EngineIsGone, leases, SessionIInv, Leased, RunsOwn, RunOwns, Owned, Row_, Key_, Removing, Removes, CleansPin,
     SlotsConsistent, Present, LiveRows
<1> QED
  BY <1>1, <1>2, <1>3, <1>4, <1>5, <1>6, <1>7, <1>8, <1>9, <1>10, <1>11, <1>12, <1>13, <1>14, <1>15, <1>16,
     <1>17, <1>18, <1>19, <1>20, <1>21, <1>22, <1>23, <1>24, <1>25, <1>26, <1>27, <1>28, <1>29, <1>30, <1>31 DEF
     Next, RunStep, CleanStep, SharedStep

-----------------------------------------------------------------------------
(* Conversations                                                           *)

\* Runs that know their incarnation keep it and their session.
KeepIncarnations ==
  \A r \in Run : job[r].instance # None => job'[r].key = job[r].key /\ job'[r].instance = job[r].instance

\* A row that changes keeps its incarnation, and so its conversation.
LEMMA BecomesTalk ==
  ASSUME SessionIInv, NEW k \in Key, rows[k] \in Row, NEW s, NEW o, Becomes(k, s, o),
         UNCHANGED <<mapping, stripped>>, KeepIncarnations,
         s = "idle" /\ k.engine \in StoreEngine => mapping[k] # None
  PROVE  NoForeignConversation' /\ NoNewOrphan' /\ IdleIsContinuable'
<1> USE DEF SessionIInv
<1>1. PICK q \in Row :
        /\ rows' = [rows EXCEPT ![k] = q] /\ q.state = s /\ q.instance = rows[k].instance
  BY DEF Becomes
<1>2. /\ \A j \in Key : rows'[j] # None <=> rows[j] # None
      /\ \A j \in Key : rows[j] # None => rows'[j].instance = rows[j].instance
      /\ rows'[k] = q /\ \A j \in Key : j # k => rows'[j] = rows[j]
  BY <1>1 DEF Typed
<1>3. ASSUME NEW j \in Key, rows'[j] # None, mapping'[j] # None
      PROVE  /\ mapping'[j] \in Run /\ job'[mapping'[j]].key = j
             /\ job'[mapping'[j]].instance = rows'[j].instance
  <2>1. /\ mapping[j] \in Run /\ job[mapping[j]].key = j
        /\ job[mapping[j]].instance = rows[j].instance /\ rows[j] \in Row
    BY <1>2, <1>3 DEF NoForeignConversation, Typed
  <2>2. job[mapping[j]].instance # None
    BY <2>1 DEF Row, Actor
  <2> QED
    BY <1>2, <1>3, <2>1, <2>2 DEF KeepIncarnations
<1>4. NoNewOrphan'
  BY <1>2 DEF NoNewOrphan
<1>5. IdleIsContinuable'
  BY <1>1, <1>2 DEF IdleIsContinuable
<1> QED
  BY <1>3, <1>4, <1>5 DEF NoForeignConversation

\* Conversations stay with their incarnation.
LEMMA TalkStep ==
  ASSUME SessionIInv, [Next]_vars
  PROVE  Remembers' /\ OnlyStored' /\ Unlinked' /\ NoForeignConversation' /\ NoNewOrphan' /\ IdleIsContinuable'
<1>1. ASSUME NEW a \in Run, NEW q \in Requests, StartRun(a, q)
      PROVE  Remembers' /\ OnlyStored' /\ Unlinked' /\ NoForeignConversation' /\ NoNewOrphan' /\ IdleIsContinuable'
  <2>1. Remembers'
    BY <1>1 DEF SessionIInv, StartRun, Goto, leases, Key_, Row_, Owned, InStore, JobsTyped, Job, Actor, Fresh,
       OwnsRow, Executing, Typed, Stages, RunsOwn, RunOwns, OnlyStored, NoForeignConversation, Remembers
  <2>2. OnlyStored'
    BY <1>1 DEF SessionIInv, StartRun, Goto, leases, OnlyStored
  <2>3. Unlinked'
    BY <1>1 DEF SessionIInv, StartRun, Goto, leases, Key_, Row_, Owned, JobsTyped, Job, Actor, Fresh, OwnsRow,
       Executing, Typed, Stages, RunsOwn, RunOwns, Removing, Removes, Unlinked
  <2>4. NoForeignConversation'
    <3>1. UNCHANGED <<rows, mapping>> /\ KeepIncarnations
      BY <1>1 DEF StartRun, KeepIncarnations, SessionIInv, Remembers, Fresh, JobsTyped, Actor
    <3> SUFFICES ASSUME NEW k \in Key, rows[k] # None, mapping[k] # None
                 PROVE  /\ mapping[k] \in Run /\ job'[mapping[k]].key = k
                        /\ job'[mapping[k]].instance = rows[k].instance
      BY <3>1 DEF NoForeignConversation
    <3>2. /\ mapping[k] \in Run /\ job[mapping[k]].key = k
          /\ job[mapping[k]].instance = rows[k].instance /\ rows[k] \in Row
      BY DEF SessionIInv, NoForeignConversation, Typed
    <3>3. job[mapping[k]].instance # None
      BY <3>2 DEF Row, Actor
    <3> QED
      BY <3>1, <3>2, <3>3 DEF KeepIncarnations
  <2>5. NoNewOrphan'
    BY <1>1 DEF SessionIInv, StartRun, Goto, leases, NoNewOrphan
  <2>6. IdleIsContinuable'
    BY <1>1 DEF SessionIInv, StartRun, Goto, leases, IdleIsContinuable
  <2> QED
    BY <2>1, <2>2, <2>3, <2>4, <2>5, <2>6
<1>2. ASSUME NEW a \in Run, SelectSlot(a)
      PROVE  Remembers' /\ OnlyStored' /\ Unlinked' /\ NoForeignConversation' /\ NoNewOrphan' /\ IdleIsContinuable'
  <2>1. Remembers'
    BY <1>2 DEF SessionIInv, SelectSlot, Goto, leases, Key_, InStore, Fresh, OwnsRow, Executing, Remembers
  <2>2. OnlyStored'
    BY <1>2 DEF SessionIInv, SelectSlot, Goto, leases, Key_, OnlyStored
  <2>3. Unlinked'
    BY <1>2 DEF SessionIInv, SelectSlot, Goto, leases, Key_, Actor, Unlinked
  <2>4. NoForeignConversation'
    BY <1>2 DEF SessionIInv, SelectSlot, Goto, leases, Key_, NoForeignConversation
  <2>5. NoNewOrphan'
    BY <1>2 DEF SessionIInv, SelectSlot, Goto, leases, Key_, NoNewOrphan
  <2>6. IdleIsContinuable'
    BY <1>2 DEF SessionIInv, SelectSlot, Goto, leases, Key_, IdleIsContinuable
  <2> QED
    BY <2>1, <2>2, <2>3, <2>4, <2>5, <2>6
<1>3. ASSUME NEW a \in Run, SelectFails(a)
      PROVE  Remembers' /\ OnlyStored' /\ Unlinked' /\ NoForeignConversation' /\ NoNewOrphan' /\ IdleIsContinuable'
  <2>1. Remembers'
    BY <1>3 DEF SessionIInv, SelectFails, FreeLeases, End, Goto, Key_, InStore, Fresh, OwnsRow, Executing,
       Remembers
  <2>2. OnlyStored'
    BY <1>3 DEF SessionIInv, SelectFails, FreeLeases, End, Goto, Key_, OnlyStored
  <2>3. Unlinked'
    BY <1>3 DEF SessionIInv, SelectFails, FreeLeases, End, Goto, Key_, Actor, Unlinked
  <2>4. NoForeignConversation'
    BY <1>3 DEF SessionIInv, SelectFails, FreeLeases, End, Goto, Key_, NoForeignConversation
  <2>5. NoNewOrphan'
    BY <1>3 DEF SessionIInv, SelectFails, FreeLeases, End, Goto, Key_, NoNewOrphan
  <2>6. IdleIsContinuable'
    BY <1>3 DEF SessionIInv, SelectFails, FreeLeases, End, Goto, Key_, IdleIsContinuable
  <2> QED
    BY <2>1, <2>2, <2>3, <2>4, <2>5, <2>6
<1>4. ASSUME NEW a \in Run, Retake(a)
      PROVE  Remembers' /\ OnlyStored' /\ Unlinked' /\ NoForeignConversation' /\ NoNewOrphan' /\ IdleIsContinuable'
  <2>1. Remembers'
    BY <1>4 DEF SessionIInv, Retake, FreeLeases, Goto, Key_, InStore, Fresh, OwnsRow, Executing, Remembers
  <2>2. OnlyStored'
    BY <1>4 DEF SessionIInv, Retake, FreeLeases, Goto, Key_, OnlyStored
  <2>3. Unlinked'
    BY <1>4 DEF SessionIInv, Retake, FreeLeases, Goto, Key_, Actor, Unlinked
  <2>4. NoForeignConversation'
    BY <1>4 DEF SessionIInv, Retake, FreeLeases, Goto, Key_, NoForeignConversation
  <2>5. NoNewOrphan'
    BY <1>4 DEF SessionIInv, Retake, FreeLeases, Goto, Key_, NoNewOrphan
  <2>6. IdleIsContinuable'
    BY <1>4 DEF SessionIInv, Retake, FreeLeases, Goto, Key_, IdleIsContinuable
  <2> QED
    BY <2>1, <2>2, <2>3, <2>4, <2>5, <2>6
<1>5. ASSUME NEW a \in Run, AdmitNew(a)
      PROVE  Remembers' /\ OnlyStored' /\ Unlinked' /\ NoForeignConversation' /\ NoNewOrphan' /\ IdleIsContinuable'
  <2>1. Remembers'
    BY <1>5 DEF SessionIInv, AdmitNew, MayReserve, Goto, leases, SetRow, Key_, Row_, Owned, InStore, JobsTyped,
       Job, Actor, Fresh, OwnsRow, Executing, Typed, Stages, RunsOwn, RunOwns, OnlyStored,
       NoForeignConversation, Remembers
  <2>2. OnlyStored'
    BY <1>5 DEF SessionIInv, AdmitNew, MayReserve, Goto, leases, SetRow, Key_, Row_, InStore, OnlyStored
  <2>3. Unlinked'
    BY <1>5 DEF SessionIInv, AdmitNew, MayReserve, Goto, leases, SetRow, Key_, Row_, InStore, Actor, Unlinked
  <2>4. NoForeignConversation'
    BY <1>5 DEF SessionIInv, AdmitNew, MayReserve, Goto, leases, SetRow, Key_, Row_, Owned, InStore, JobsTyped,
       Job, Actor, Fresh, OwnsRow, Executing, Typed, Stages, RunsOwn, RunOwns, Remembers, OnlyStored,
       NoForeignConversation
  <2>5. NoNewOrphan'
    BY <1>5 DEF SessionIInv, AdmitNew, MayReserve, Goto, leases, SetRow, Key_, Row_, InStore, NoNewOrphan
  <2>6. IdleIsContinuable'
    BY <1>5 DEF SessionIInv, AdmitNew, MayReserve, Goto, leases, SetRow, Key_, Row_, InStore, IdleIsContinuable
  <2> QED
    BY <2>1, <2>2, <2>3, <2>4, <2>5, <2>6
<1>6. ASSUME NEW a \in Run, AdmitContinuation(a)
      PROVE  Remembers' /\ OnlyStored' /\ Unlinked' /\ NoForeignConversation' /\ NoNewOrphan' /\ IdleIsContinuable'
  <2>1. Remembers'
    <3>1. /\ a \in Actor /\ job[a] \in Job /\ pc[a] = "admit" /\ Key_(a) \in Key /\ Row_(a) \in Row
          /\ pc' = [pc EXCEPT ![a] = "admitted"]
          /\ job' = [job EXCEPT ![a] = [job[a] EXCEPT !.instance = Row_(a).instance, !.continues = TRUE,
                                                      !.resumed = mapping[Key_(a)]]]
      BY <1>6, AdmitContinuationMoves DEF AdmitContinuation, Goto, SessionIInv, JobsTyped, Actor
    <3>2. /\ pc'[a] = "admitted" /\ job'[a].key = Key_(a) /\ job'[a].instance = Row_(a).instance
          /\ job'[a].continues /\ job'[a].resumed = mapping[Key_(a)] /\ job'[a].native = job[a].native
      <4> DEFINE j == [job[a] EXCEPT !.instance = Row_(a).instance, !.continues = TRUE, !.resumed = mapping[Key_(a)]]
      <4>1. /\ j.key = job[a].key /\ j.instance = Row_(a).instance /\ j.continues
            /\ j.resumed = mapping[Key_(a)] /\ j.native = job[a].native
        BY <3>1 DEF Job
      <4>2. job'[a] = j /\ pc'[a] = "admitted"
        BY <3>1 DEF SessionIInv, Typed, JobsTyped
      <4> HIDE DEF j
      <4> QED
        BY <4>1, <4>2 DEF Key_
    <3>3. \A r \in Run : r # a => job'[r] = job[r] /\ pc'[r] = pc[r]
      BY <3>1 DEF SessionIInv, Typed, JobsTyped, Actor
    <3>4. job[a].instance = None /\ job[a].native = None
      BY <3>1 DEF SessionIInv, Remembers, Fresh
    <3>5. Row_(a).instance \in Run /\ Row_(a).instance # None /\ Row_(a) = rows[Key_(a)] /\ Row_(a) # None
      BY <3>1 DEF Row, Row_, Actor
    <3>6. InStore(a) => mapping[Key_(a)] # None
      BY <1>6 DEF AdmitContinuation, MayContinue
    <3> DEFINE Rem(r) ==
          /\ pc'[r] \in Fresh =>
               /\ job'[r].instance = None /\ job'[r].resumed = None /\ ~job'[r].continues
               /\ job'[r].native = None /\ job'[r].published = None
          /\ job'[r].resumed # None =>
               /\ job'[r].resumed \in Run
               /\ job'[job'[r].resumed].key = job'[r].key
               /\ job'[job'[r].resumed].instance = job'[r].instance
               /\ job'[r].instance # None
          /\ pc'[r] \in OwnsRow /\ InStore(r)' /\ job'[r].continues => job'[r].resumed # None
          /\ pc'[r] \in OwnsRow /\ InStore(r)' => job'[r].native \in {None, r, job'[r].resumed}
    <3>7. Rem(a)
      <4>1. mapping[Key_(a)] # None => /\ mapping[Key_(a)] \in Run /\ job[mapping[Key_(a)]].key = Key_(a)
                                       /\ job[mapping[Key_(a)]].instance = Row_(a).instance
        BY <3>1, <3>5 DEF SessionIInv, NoForeignConversation
      <4>2. mapping[Key_(a)] # None => mapping[Key_(a)] # a
        BY <4>1, <3>4, <3>5
      <4>3. InStore(a)' = InStore(a)
        BY <3>2 DEF InStore, Key_
      <4> QED
        BY <3>2, <3>3, <3>4, <3>5, <3>6, <4>1, <4>2, <4>3 DEF Fresh
    <3>8. ASSUME NEW r \in Run, r # a PROVE Rem(r)
      <4>1. job[r].resumed # None => job[r].resumed # a
        BY <3>4 DEF SessionIInv, Remembers
      <4>2. UNCHANGED job[r] /\ UNCHANGED pc[r] /\ InStore(r)' = InStore(r)
        BY <3>3, <3>8 DEF InStore, Key_
      <4> QED
        BY <3>3, <3>8, <4>1, <4>2 DEF SessionIInv, Remembers
    <3> QED
      BY <3>7, <3>8 DEF Remembers
  <2>2. OnlyStored'
    BY <1>6 DEF SessionIInv, AdmitContinuation, MayContinue, Goto, leases, SetRow, Key_, Row_, InStore,
       OnlyStored
  <2>3. Unlinked'
    BY <1>6 DEF SessionIInv, AdmitContinuation, MayContinue, Goto, leases, SetRow, Key_, Row_, Owned, InStore,
       JobsTyped, Job, Actor, Fresh, OwnsRow, Executing, Typed, Stages, RunsOwn, RunOwns, Removing, Removes,
       Unlinked
  <2>4. NoForeignConversation'
    <3>1. KeepIncarnations
      BY <1>6 DEF AdmitContinuation, KeepIncarnations, SessionIInv, Remembers, Fresh, JobsTyped, Actor
    <3> QED
      BY <1>6, <3>1, AdmitContinuationMoves, BecomesTalk DEF AdmitContinuation, Row_
  <2>5. NoNewOrphan'
    <3>1. KeepIncarnations
      BY <1>6 DEF AdmitContinuation, KeepIncarnations, SessionIInv, Remembers, Fresh, JobsTyped, Actor
    <3> QED
      BY <1>6, <3>1, AdmitContinuationMoves, BecomesTalk DEF AdmitContinuation, Row_
  <2>6. IdleIsContinuable'
    <3>1. KeepIncarnations
      BY <1>6 DEF AdmitContinuation, KeepIncarnations, SessionIInv, Remembers, Fresh, JobsTyped, Actor
    <3> QED
      BY <1>6, <3>1, AdmitContinuationMoves, BecomesTalk DEF AdmitContinuation, Row_
  <2> QED
    BY <2>1, <2>2, <2>3, <2>4, <2>5, <2>6
<1>7. ASSUME NEW a \in Run, AdmitRejects(a)
      PROVE  Remembers' /\ OnlyStored' /\ Unlinked' /\ NoForeignConversation' /\ NoNewOrphan' /\ IdleIsContinuable'
  <2>1. Remembers'
    BY <1>7 DEF SessionIInv, AdmitRejects, FreeLeases, End, Goto, Key_, InStore, Fresh, OwnsRow, Executing,
       Remembers
  <2>2. OnlyStored'
    BY <1>7 DEF SessionIInv, AdmitRejects, FreeLeases, End, Goto, Key_, OnlyStored
  <2>3. Unlinked'
    BY <1>7 DEF SessionIInv, AdmitRejects, FreeLeases, End, Goto, Key_, Actor, Unlinked
  <2>4. NoForeignConversation'
    BY <1>7 DEF SessionIInv, AdmitRejects, FreeLeases, End, Goto, Key_, NoForeignConversation
  <2>5. NoNewOrphan'
    BY <1>7 DEF SessionIInv, AdmitRejects, FreeLeases, End, Goto, Key_, NoNewOrphan
  <2>6. IdleIsContinuable'
    BY <1>7 DEF SessionIInv, AdmitRejects, FreeLeases, End, Goto, Key_, IdleIsContinuable
  <2> QED
    BY <2>1, <2>2, <2>3, <2>4, <2>5, <2>6
<1>8. ASSUME NEW a \in Run, Revalidate(a)
      PROVE  Remembers' /\ OnlyStored' /\ Unlinked' /\ NoForeignConversation' /\ NoNewOrphan' /\ IdleIsContinuable'
  <2>1. Remembers'
    BY <1>8 DEF SessionIInv, Revalidate, Goto, leases, SetRow, Key_, Row_, Owned, InStore, JobsTyped, Job,
       Actor, Fresh, OwnsRow, Executing, Typed, Stages, RunsOwn, RunOwns, OnlyStored, NoForeignConversation,
       Remembers
  <2>2. OnlyStored'
    BY <1>8 DEF SessionIInv, Revalidate, Goto, leases, SetRow, Key_, Row_, Owned, OnlyStored
  <2>3. Unlinked'
    BY <1>8 DEF SessionIInv, Revalidate, Goto, leases, SetRow, Key_, Row_, Owned, JobsTyped, Job, Actor, Fresh,
       OwnsRow, Executing, Typed, Stages, RunsOwn, RunOwns, Removing, Removes, Unlinked
  <2>4. NoForeignConversation'
    BY <1>8, RevalidateMoves, BecomesTalk DEF Revalidate, InStore, Row_, KeepIncarnations
  <2>5. NoNewOrphan'
    BY <1>8, RevalidateMoves, BecomesTalk DEF Revalidate, InStore, Row_, KeepIncarnations
  <2>6. IdleIsContinuable'
    BY <1>8, RevalidateMoves, BecomesTalk DEF Revalidate, InStore, Row_, KeepIncarnations
  <2> QED
    BY <2>1, <2>2, <2>3, <2>4, <2>5, <2>6
<1>9. ASSUME NEW a \in Run, Publish(a)
      PROVE  Remembers' /\ OnlyStored' /\ Unlinked' /\ NoForeignConversation' /\ NoNewOrphan' /\ IdleIsContinuable'
  <2>1. Remembers'
    BY <1>9 DEF SessionIInv, Publish, Goto, leases, Key_, Row_, Owned, InStore, JobsTyped, Job, Actor, Fresh,
       OwnsRow, Executing, Typed, Stages, RunsOwn, RunOwns, OnlyStored, NoForeignConversation, Remembers
  <2>2. OnlyStored'
    BY <1>9 DEF SessionIInv, Publish, Goto, leases, Key_, InStore, JobsTyped, Job, Actor, Fresh, Typed, Stages,
       OnlyStored
  <2>3. Unlinked'
    BY <1>9 DEF SessionIInv, Publish, Goto, leases, Key_, Row_, Owned, InStore, JobsTyped, Job, Actor, Fresh,
       OwnsRow, Executing, Typed, Stages, RunsOwn, RunOwns, Removing, Removes, Unlinked
  <2>4. NoForeignConversation'
    BY <1>9 DEF SessionIInv, Publish, Goto, leases, Key_, Row_, Owned, InStore, JobsTyped, Job, Actor, Fresh,
       OwnsRow, Executing, Typed, Stages, RunsOwn, RunOwns, Remembers, OnlyStored, NoForeignConversation
  <2>5. NoNewOrphan'
    BY <1>9 DEF SessionIInv, Publish, Goto, leases, Key_, Row_, Owned, InStore, JobsTyped, Job, Actor, Fresh,
       OwnsRow, Executing, Typed, Stages, RunsOwn, RunOwns, Unlinked, NoNewOrphan
  <2>6. IdleIsContinuable'
    BY <1>9 DEF SessionIInv, Publish, Goto, leases, Key_, Row_, Owned, InStore, JobsTyped, Job, Actor, Fresh,
       OwnsRow, Executing, Typed, Stages, Remembers, Removing, Removes, RunsOwn, RunOwns, IdleIsContinuable
  <2> QED
    BY <2>1, <2>2, <2>3, <2>4, <2>5, <2>6
<1>10. ASSUME NEW a \in Run, FinishIdle(a)
      PROVE  Remembers' /\ OnlyStored' /\ Unlinked' /\ NoForeignConversation' /\ NoNewOrphan' /\ IdleIsContinuable'
  <2>1. Remembers'
    BY <1>10 DEF SessionIInv, FinishIdle, ToIdle, CompletesIdle, AbandonsIdle, FreeLeases, End, Goto, SetRow,
       Key_, Row_, Owned, InStore, Fresh, OwnsRow, Executing, Remembers
  <2>2. OnlyStored'
    BY <1>10 DEF SessionIInv, FinishIdle, ToIdle, CompletesIdle, AbandonsIdle, FreeLeases, End, Goto, SetRow,
       Key_, Row_, Owned, InStore, OnlyStored
  <2>3. Unlinked'
    BY <1>10 DEF SessionIInv, FinishIdle, ToIdle, CompletesIdle, AbandonsIdle, FreeLeases, End, Goto, SetRow,
       Key_, Row_, Owned, InStore, Actor, Unlinked
  <2>4. NoForeignConversation'
    BY <1>10, FinishIdleMoves, BecomesTalk DEF FinishIdle, InStore, Row_, KeepIncarnations
  <2>5. NoNewOrphan'
    BY <1>10, FinishIdleMoves, BecomesTalk DEF FinishIdle, InStore, Row_, KeepIncarnations
  <2>6. IdleIsContinuable'
    BY <1>10, FinishIdleMoves, BecomesTalk DEF FinishIdle, InStore, Row_, KeepIncarnations
  <2> QED
    BY <2>1, <2>2, <2>3, <2>4, <2>5, <2>6
<1>11. ASSUME NEW a \in Run, FinishRemoval(a)
      PROVE  Remembers' /\ OnlyStored' /\ Unlinked' /\ NoForeignConversation' /\ NoNewOrphan' /\ IdleIsContinuable'
  <2>1. Remembers'
    BY <1>11 DEF SessionIInv, FinishRemoval, ToRemoved, CompletesRemoved, AbandonsRemoved, MayRemove, Goto,
       leases, SetRow, Key_, Row_, Owned, InStore, Fresh, OwnsRow, Executing, Remembers
  <2>2. OnlyStored'
    BY <1>11 DEF SessionIInv, FinishRemoval, ToRemoved, CompletesRemoved, AbandonsRemoved, MayRemove, Goto,
       leases, SetRow, Key_, Row_, Owned, InStore, OnlyStored
  <2>3. Unlinked'
    BY <1>11 DEF SessionIInv, FinishRemoval, ToRemoved, CompletesRemoved, AbandonsRemoved, MayRemove, Goto,
       leases, SetRow, Key_, Row_, Owned, InStore, Actor, Unlinked
  <2>4. NoForeignConversation'
    BY <1>11, FinishRemovalMoves, BecomesTalk DEF FinishRemoval, InStore, Row_, KeepIncarnations
  <2>5. NoNewOrphan'
    BY <1>11, FinishRemovalMoves, BecomesTalk DEF FinishRemoval, InStore, Row_, KeepIncarnations
  <2>6. IdleIsContinuable'
    BY <1>11, FinishRemovalMoves, BecomesTalk DEF FinishRemoval, InStore, Row_, KeepIncarnations
  <2> QED
    BY <2>1, <2>2, <2>3, <2>4, <2>5, <2>6
<1>12. ASSUME NEW a \in Run, FinishRetained(a)
      PROVE  Remembers' /\ OnlyStored' /\ Unlinked' /\ NoForeignConversation' /\ NoNewOrphan' /\ IdleIsContinuable'
  <2>1. Remembers'
    BY <1>12 DEF SessionIInv, FinishRetained, FreeLeases, End, Goto, Key_, InStore, Fresh, OwnsRow, Executing,
       Remembers
  <2>2. OnlyStored'
    BY <1>12 DEF SessionIInv, FinishRetained, FreeLeases, End, Goto, OnlyStored
  <2>3. Unlinked'
    BY <1>12 DEF SessionIInv, FinishRetained, FreeLeases, End, Goto, Key_, Actor, Unlinked
  <2>4. NoForeignConversation'
    BY <1>12 DEF SessionIInv, FinishRetained, FreeLeases, End, Goto, NoForeignConversation
  <2>5. NoNewOrphan'
    BY <1>12 DEF SessionIInv, FinishRetained, FreeLeases, End, Goto, NoNewOrphan
  <2>6. IdleIsContinuable'
    BY <1>12 DEF SessionIInv, FinishRetained, FreeLeases, End, Goto, IdleIsContinuable
  <2> QED
    BY <2>1, <2>2, <2>3, <2>4, <2>5, <2>6
<1>13. ASSUME NEW a \in Run, DropOwn(a)
      PROVE  Remembers' /\ OnlyStored' /\ Unlinked' /\ NoForeignConversation' /\ NoNewOrphan' /\ IdleIsContinuable'
  <2>1. Remembers'
    BY <1>13 DEF SessionIInv, DropOwn, FreeLeases, End, Goto, SetRow, Key_, InStore, Fresh, OwnsRow, Executing,
       Remembers
  <2>2. OnlyStored'
    BY <1>13 DEF SessionIInv, DropOwn, FreeLeases, End, Goto, SetRow, Key_, OnlyStored
  <2>3. Unlinked'
    BY <1>13 DEF SessionIInv, DropOwn, FreeLeases, End, Goto, SetRow, Key_, Actor, Unlinked
  <2>4. NoForeignConversation'
    BY <1>13 DEF SessionIInv, DropOwn, FreeLeases, End, Goto, SetRow, Key_, NoForeignConversation
  <2>5. NoNewOrphan'
    BY <1>13 DEF SessionIInv, DropOwn, FreeLeases, End, Goto, SetRow, Key_, Row_, Owned, JobsTyped, Job, Actor,
       Fresh, OwnsRow, Executing, Typed, Stages, RunsOwn, RunOwns, Unlinked, NoNewOrphan
  <2>6. IdleIsContinuable'
    BY <1>13 DEF SessionIInv, DropOwn, FreeLeases, End, Goto, SetRow, Key_, IdleIsContinuable
  <2> QED
    BY <2>1, <2>2, <2>3, <2>4, <2>5, <2>6
<1>14. ASSUME NEW a \in Run, Retain(a)
      PROVE  Remembers' /\ OnlyStored' /\ Unlinked' /\ NoForeignConversation' /\ NoNewOrphan' /\ IdleIsContinuable'
  <2>1. Remembers'
    BY <1>14 DEF SessionIInv, Retain, FreeLeases, End, Goto, Key_, InStore, Fresh, OwnsRow, Executing, Remembers
  <2>2. OnlyStored'
    BY <1>14 DEF SessionIInv, Retain, FreeLeases, End, Goto, OnlyStored
  <2>3. Unlinked'
    BY <1>14 DEF SessionIInv, Retain, FreeLeases, End, Goto, Key_, Actor, Unlinked
  <2>4. NoForeignConversation'
    BY <1>14 DEF SessionIInv, Retain, FreeLeases, End, Goto, NoForeignConversation
  <2>5. NoNewOrphan'
    BY <1>14 DEF SessionIInv, Retain, FreeLeases, End, Goto, NoNewOrphan
  <2>6. IdleIsContinuable'
    BY <1>14 DEF SessionIInv, Retain, FreeLeases, End, Goto, IdleIsContinuable
  <2> QED
    BY <2>1, <2>2, <2>3, <2>4, <2>5, <2>6
<1>15. ASSUME NEW a \in Run, Throw(a)
      PROVE  Remembers' /\ OnlyStored' /\ Unlinked' /\ NoForeignConversation' /\ NoNewOrphan' /\ IdleIsContinuable'
  <2>1. Remembers'
    BY <1>15 DEF SessionIInv, Throw, Goto, leases, Key_, Row_, Owned, InStore, JobsTyped, Job, Actor, Fresh,
       OwnsRow, Executing, Typed, Stages, RunsOwn, RunOwns, OnlyStored, NoForeignConversation, Remembers
  <2>2. OnlyStored'
    BY <1>15 DEF SessionIInv, Throw, Goto, leases, Key_, Executing, OnlyStored
  <2>3. Unlinked'
    BY <1>15 DEF SessionIInv, Throw, Goto, leases, Key_, Row_, Owned, JobsTyped, Job, Actor, Fresh, OwnsRow,
       Executing, Typed, Stages, RunsOwn, RunOwns, Removing, Removes, Unlinked
  <2>4. NoForeignConversation'
    BY <1>15 DEF SessionIInv, Throw, Goto, leases, Key_, Executing, NoForeignConversation
  <2>5. NoNewOrphan'
    BY <1>15 DEF SessionIInv, Throw, Goto, leases, Key_, Executing, NoNewOrphan
  <2>6. IdleIsContinuable'
    BY <1>15 DEF SessionIInv, Throw, Goto, leases, Key_, Executing, IdleIsContinuable
  <2> QED
    BY <2>1, <2>2, <2>3, <2>4, <2>5, <2>6
<1>16. ASSUME NEW a \in Run, NEW id \in RealId \cup {None}, EngineEnds(a, id)
      PROVE  Remembers' /\ OnlyStored' /\ Unlinked' /\ NoForeignConversation' /\ NoNewOrphan' /\ IdleIsContinuable'
  <2>1. Remembers'
    BY <1>16 DEF SessionIInv, EngineEnds, NativeIds, Goto, leases, Key_, InStore, Fresh, OwnsRow, Executing,
       Remembers
  <2>2. OnlyStored'
    BY <1>16 DEF SessionIInv, EngineEnds, NativeIds, Goto, leases, Key_, InStore, OnlyStored
  <2>3. Unlinked'
    BY <1>16 DEF SessionIInv, EngineEnds, NativeIds, Goto, leases, Key_, InStore, Actor, Unlinked
  <2>4. NoForeignConversation'
    BY <1>16 DEF SessionIInv, EngineEnds, NativeIds, Goto, leases, Key_, InStore, NoForeignConversation
  <2>5. NoNewOrphan'
    BY <1>16 DEF SessionIInv, EngineEnds, NativeIds, Goto, leases, Key_, InStore, NoNewOrphan
  <2>6. IdleIsContinuable'
    BY <1>16 DEF SessionIInv, EngineEnds, NativeIds, Goto, leases, Key_, InStore, IdleIsContinuable
  <2> QED
    BY <2>1, <2>2, <2>3, <2>4, <2>5, <2>6
<1>17. ASSUME NEW a \in Clean, NEW q \in Requests, NEW force \in BOOLEAN, StartClean(a, q.key, force)
      PROVE  Remembers' /\ OnlyStored' /\ Unlinked' /\ NoForeignConversation' /\ NoNewOrphan' /\ IdleIsContinuable'
  <2>1. Remembers'
    BY <1>17 DEF SessionIInv, StartClean, Goto, leases, Key_, Row_, Owned, InStore, JobsTyped, Job, Actor, Fresh,
       OwnsRow, Executing, Typed, Stages, RunsOwn, RunOwns, OnlyStored, NoForeignConversation, Remembers
  <2>2. OnlyStored'
    BY <1>17 DEF SessionIInv, StartClean, Goto, leases, OnlyStored
  <2>3. Unlinked'
    BY <1>17 DEF SessionIInv, StartClean, Goto, leases, Key_, Row_, Owned, JobsTyped, Job, Actor, Fresh, OwnsRow,
       Executing, Typed, Stages, RunsOwn, RunOwns, Removing, Removes, Unlinked
  <2>4. NoForeignConversation'
    BY <1>17 DEF SessionIInv, StartClean, Goto, leases, Key_, Row_, Owned, InStore, JobsTyped, Job, Actor, Fresh,
       OwnsRow, Executing, Typed, Stages, RunsOwn, RunOwns, Remembers, OnlyStored, NoForeignConversation
  <2>5. NoNewOrphan'
    BY <1>17 DEF SessionIInv, StartClean, Goto, leases, NoNewOrphan
  <2>6. IdleIsContinuable'
    BY <1>17 DEF SessionIInv, StartClean, Goto, leases, IdleIsContinuable
  <2> QED
    BY <2>1, <2>2, <2>3, <2>4, <2>5, <2>6
<1>18. ASSUME NEW a \in Clean, Scan(a)
      PROVE  Remembers' /\ OnlyStored' /\ Unlinked' /\ NoForeignConversation' /\ NoNewOrphan' /\ IdleIsContinuable'
  <2>1. Remembers'
    <3>1. \A r \in Run : UNCHANGED job[r] /\ UNCHANGED pc[r]
      BY <1>18 DEF Scan, Goto, SessionIInv, Typed, JobsTyped, Actor
    <3> QED
      BY <3>1 DEF SessionIInv, Remembers, InStore, Key_
  <2>2. OnlyStored'
    BY <1>18 DEF SessionIInv, Scan, Goto, leases, Key_, Row_, OnlyStored
  <2>3. Unlinked'
    BY <1>18 DEF SessionIInv, Scan, Goto, leases, Key_, Row_, Owned, JobsTyped, Job, Actor, Fresh, OwnsRow,
       Executing, Typed, Stages, RunsOwn, RunOwns, Removing, Removes, Unlinked
  <2>4. NoForeignConversation'
    BY <1>18 DEF SessionIInv, Scan, Goto, leases, Key_, Row_, Owned, InStore, JobsTyped, Job, Actor, Fresh,
       OwnsRow, Executing, Typed, Stages, RunsOwn, RunOwns, Remembers, OnlyStored, NoForeignConversation
  <2>5. NoNewOrphan'
    BY <1>18 DEF SessionIInv, Scan, Goto, leases, Key_, Row_, NoNewOrphan
  <2>6. IdleIsContinuable'
    BY <1>18 DEF SessionIInv, Scan, Goto, leases, Key_, Row_, IdleIsContinuable
  <2> QED
    BY <2>1, <2>2, <2>3, <2>4, <2>5, <2>6
<1>19. ASSUME NEW a \in Clean, ScanRefuses(a)
      PROVE  Remembers' /\ OnlyStored' /\ Unlinked' /\ NoForeignConversation' /\ NoNewOrphan' /\ IdleIsContinuable'
  <2>1. Remembers'
    BY <1>19 DEF SessionIInv, ScanRefuses, FreeLeases, End, Goto, Key_, Row_, InStore, Fresh, OwnsRow, Executing,
       Remembers
  <2>2. OnlyStored'
    BY <1>19 DEF SessionIInv, ScanRefuses, FreeLeases, End, Goto, Key_, Row_, OnlyStored
  <2>3. Unlinked'
    BY <1>19 DEF SessionIInv, ScanRefuses, FreeLeases, End, Goto, Key_, Row_, Actor, Unlinked
  <2>4. NoForeignConversation'
    BY <1>19 DEF SessionIInv, ScanRefuses, FreeLeases, End, Goto, Key_, Row_, NoForeignConversation
  <2>5. NoNewOrphan'
    BY <1>19 DEF SessionIInv, ScanRefuses, FreeLeases, End, Goto, Key_, Row_, NoNewOrphan
  <2>6. IdleIsContinuable'
    BY <1>19 DEF SessionIInv, ScanRefuses, FreeLeases, End, Goto, Key_, Row_, IdleIsContinuable
  <2> QED
    BY <2>1, <2>2, <2>3, <2>4, <2>5, <2>6
<1>20. ASSUME NEW a \in Clean, ScanNoRow(a)
      PROVE  Remembers' /\ OnlyStored' /\ Unlinked' /\ NoForeignConversation' /\ NoNewOrphan' /\ IdleIsContinuable'
  <2>1. Remembers'
    BY <1>20 DEF SessionIInv, ScanNoRow, Goto, leases, Key_, Row_, InStore, Fresh, OwnsRow, Executing, Remembers
  <2>2. OnlyStored'
    BY <1>20 DEF SessionIInv, ScanNoRow, Goto, leases, Key_, Row_, OnlyStored
  <2>3. Unlinked'
    BY <1>20 DEF SessionIInv, ScanNoRow, Goto, leases, Key_, Row_, Actor, Unlinked
  <2>4. NoForeignConversation'
    BY <1>20 DEF SessionIInv, ScanNoRow, Goto, leases, Key_, Row_, NoForeignConversation
  <2>5. NoNewOrphan'
    BY <1>20 DEF SessionIInv, ScanNoRow, Goto, leases, Key_, Row_, NoNewOrphan
  <2>6. IdleIsContinuable'
    BY <1>20 DEF SessionIInv, ScanNoRow, Goto, leases, Key_, Row_, IdleIsContinuable
  <2> QED
    BY <2>1, <2>2, <2>3, <2>4, <2>5, <2>6
<1>21. ASSUME NEW a \in Clean, CleanOrphan(a)
      PROVE  Remembers' /\ OnlyStored' /\ Unlinked' /\ NoForeignConversation' /\ NoNewOrphan' /\ IdleIsContinuable'
  <2>1. Remembers'
    BY <1>21 DEF SessionIInv, CleanOrphan, FreeLeases, End, Goto, Key_, Row_, InStore, Fresh, OwnsRow, Executing,
       Remembers
  <2>2. OnlyStored'
    BY <1>21 DEF SessionIInv, CleanOrphan, FreeLeases, End, Goto, Key_, Row_, OnlyStored
  <2>3. Unlinked'
    BY <1>21 DEF SessionIInv, CleanOrphan, FreeLeases, End, Goto, Key_, Row_, Actor, Unlinked
  <2>4. NoForeignConversation'
    BY <1>21 DEF SessionIInv, CleanOrphan, FreeLeases, End, Goto, Key_, Row_, NoForeignConversation
  <2>5. NoNewOrphan'
    BY <1>21 DEF SessionIInv, CleanOrphan, FreeLeases, End, Goto, Key_, Row_, NoNewOrphan
  <2>6. IdleIsContinuable'
    BY <1>21 DEF SessionIInv, CleanOrphan, FreeLeases, End, Goto, Key_, Row_, IdleIsContinuable
  <2> QED
    BY <2>1, <2>2, <2>3, <2>4, <2>5, <2>6
<1>22. ASSUME NEW a \in Clean, Mark(a)
      PROVE  Remembers' /\ OnlyStored' /\ Unlinked' /\ NoForeignConversation' /\ NoNewOrphan' /\ IdleIsContinuable'
  <2>1. Remembers'
    BY <1>22 DEF SessionIInv, Mark, SameRow, Goto, leases, SetRow, Key_, Row_, InStore, Fresh, OwnsRow,
       Executing, Remembers
  <2>2. OnlyStored'
    BY <1>22 DEF SessionIInv, Mark, SameRow, Goto, leases, SetRow, Key_, Row_, OnlyStored
  <2>3. Unlinked'
    BY <1>22 DEF SessionIInv, Mark, SameRow, Goto, leases, SetRow, Key_, Row_, Actor, Unlinked
  <2>4. NoForeignConversation'
    <3>1. UNCHANGED <<mapping, job, stripped>>
      BY <1>22 DEF Mark
    <3>2. CASE UNCHANGED rows
      BY <3>1, <3>2 DEF SessionIInv, NoForeignConversation
    <3>3. CASE Becomes(Key_(a), "deleting", a)
      BY <1>22, <3>1, <3>3, MarkMoves, BecomesTalk DEF Row_, KeepIncarnations
    <3> QED
      BY <1>22, <3>2, <3>3, MarkMoves
  <2>5. NoNewOrphan'
    <3>1. UNCHANGED <<mapping, job, stripped>>
      BY <1>22 DEF Mark
    <3>2. CASE UNCHANGED rows
      BY <3>1, <3>2 DEF SessionIInv, NoNewOrphan
    <3>3. CASE Becomes(Key_(a), "deleting", a)
      BY <1>22, <3>1, <3>3, MarkMoves, BecomesTalk DEF Row_, KeepIncarnations
    <3> QED
      BY <1>22, <3>2, <3>3, MarkMoves
  <2>6. IdleIsContinuable'
    <3>1. UNCHANGED <<mapping, job, stripped>>
      BY <1>22 DEF Mark
    <3>2. CASE UNCHANGED rows
      BY <3>1, <3>2 DEF SessionIInv, IdleIsContinuable
    <3>3. CASE Becomes(Key_(a), "deleting", a)
      BY <1>22, <3>1, <3>3, MarkMoves, BecomesTalk DEF Row_, KeepIncarnations
    <3> QED
      BY <1>22, <3>2, <3>3, MarkMoves
  <2> QED
    BY <2>1, <2>2, <2>3, <2>4, <2>5, <2>6
<1>23. ASSUME NEW a \in Clean, MarkFails(a)
      PROVE  Remembers' /\ OnlyStored' /\ Unlinked' /\ NoForeignConversation' /\ NoNewOrphan' /\ IdleIsContinuable'
  <2>1. Remembers'
    BY <1>23 DEF SessionIInv, MarkFails, FreeLeases, End, Goto, Key_, InStore, Fresh, OwnsRow, Executing,
       Remembers
  <2>2. OnlyStored'
    BY <1>23 DEF SessionIInv, MarkFails, FreeLeases, End, Goto, Key_, OnlyStored
  <2>3. Unlinked'
    BY <1>23 DEF SessionIInv, MarkFails, FreeLeases, End, Goto, Key_, Actor, Unlinked
  <2>4. NoForeignConversation'
    BY <1>23 DEF SessionIInv, MarkFails, FreeLeases, End, Goto, Key_, NoForeignConversation
  <2>5. NoNewOrphan'
    BY <1>23 DEF SessionIInv, MarkFails, FreeLeases, End, Goto, Key_, NoNewOrphan
  <2>6. IdleIsContinuable'
    BY <1>23 DEF SessionIInv, MarkFails, FreeLeases, End, Goto, Key_, IdleIsContinuable
  <2> QED
    BY <2>1, <2>2, <2>3, <2>4, <2>5, <2>6
<1>24. ASSUME NEW a \in Clean, DropCleaned(a)
      PROVE  Remembers' /\ OnlyStored' /\ Unlinked' /\ NoForeignConversation' /\ NoNewOrphan' /\ IdleIsContinuable'
  <2>1. Remembers'
    BY <1>24 DEF SessionIInv, DropCleaned, SameRow, FreeLeases, End, Goto, SetRow, Key_, Row_, InStore, Fresh,
       OwnsRow, Executing, Remembers
  <2>2. OnlyStored'
    BY <1>24 DEF SessionIInv, DropCleaned, SameRow, FreeLeases, End, Goto, SetRow, Key_, Row_, OnlyStored
  <2>3. Unlinked'
    BY <1>24 DEF SessionIInv, DropCleaned, SameRow, FreeLeases, End, Goto, SetRow, Key_, Row_, Actor, Unlinked
  <2>4. NoForeignConversation'
    BY <1>24 DEF SessionIInv, DropCleaned, SameRow, FreeLeases, End, Goto, SetRow, Key_, Row_, Owned, InStore,
       JobsTyped, Job, Actor, Fresh, OwnsRow, Executing, Typed, Stages, RunsOwn, RunOwns, Remembers, OnlyStored,
       NoForeignConversation
  <2>5. NoNewOrphan'
    BY <1>24 DEF SessionIInv, DropCleaned, SameRow, FreeLeases, End, Goto, SetRow, Key_, Row_, Owned, JobsTyped,
       Job, Actor, Fresh, OwnsRow, Executing, Typed, Stages, RunsOwn, RunOwns, Unlinked, NoNewOrphan
  <2>6. IdleIsContinuable'
    BY <1>24 DEF SessionIInv, DropCleaned, SameRow, FreeLeases, End, Goto, SetRow, Key_, Row_, Owned, InStore,
       JobsTyped, Job, Actor, Fresh, OwnsRow, Executing, Typed, Stages, Remembers, Removing, Removes, RunsOwn,
       RunOwns, IdleIsContinuable
  <2> QED
    BY <2>1, <2>2, <2>3, <2>4, <2>5, <2>6
<1>25. ASSUME NEW a \in Actor, TakeTarget(a)
      PROVE  Remembers' /\ OnlyStored' /\ Unlinked' /\ NoForeignConversation' /\ NoNewOrphan' /\ IdleIsContinuable'
  <2>1. Remembers'
    BY <1>25 DEF SessionIInv, TakeTarget, Goto, Key_, InStore, Fresh, OwnsRow, Executing, Remembers
  <2>2. OnlyStored'
    BY <1>25 DEF SessionIInv, TakeTarget, Goto, OnlyStored
  <2>3. Unlinked'
    BY <1>25 DEF SessionIInv, TakeTarget, Goto, Key_, Actor, Unlinked
  <2>4. NoForeignConversation'
    BY <1>25 DEF SessionIInv, TakeTarget, Goto, NoForeignConversation
  <2>5. NoNewOrphan'
    BY <1>25 DEF SessionIInv, TakeTarget, Goto, NoNewOrphan
  <2>6. IdleIsContinuable'
    BY <1>25 DEF SessionIInv, TakeTarget, Goto, IdleIsContinuable
  <2> QED
    BY <2>1, <2>2, <2>3, <2>4, <2>5, <2>6
<1>26. ASSUME NEW a \in Actor, TakeSlot(a)
      PROVE  Remembers' /\ OnlyStored' /\ Unlinked' /\ NoForeignConversation' /\ NoNewOrphan' /\ IdleIsContinuable'
  <2>1. Remembers'
    BY <1>26 DEF SessionIInv, TakeSlot, Goto, Key_, InStore, Fresh, OwnsRow, Executing, Remembers
  <2>2. OnlyStored'
    BY <1>26 DEF SessionIInv, TakeSlot, Goto, OnlyStored
  <2>3. Unlinked'
    BY <1>26 DEF SessionIInv, TakeSlot, Goto, Key_, Actor, Unlinked
  <2>4. NoForeignConversation'
    BY <1>26 DEF SessionIInv, TakeSlot, Goto, NoForeignConversation
  <2>5. NoNewOrphan'
    BY <1>26 DEF SessionIInv, TakeSlot, Goto, NoNewOrphan
  <2>6. IdleIsContinuable'
    BY <1>26 DEF SessionIInv, TakeSlot, Goto, IdleIsContinuable
  <2> QED
    BY <2>1, <2>2, <2>3, <2>4, <2>5, <2>6
<1>27. ASSUME NEW a \in Actor, Unlink(a)
      PROVE  Remembers' /\ OnlyStored' /\ Unlinked' /\ NoForeignConversation' /\ NoNewOrphan' /\ IdleIsContinuable'
  <2>1. Remembers'
    BY <1>27 DEF SessionIInv, Unlink, Goto, leases, Key_, InStore, Fresh, OwnsRow, Executing, Remembers
  <2>2. OnlyStored'
    BY <1>27 DEF SessionIInv, Unlink, Goto, leases, Key_, OnlyStored
  <2>3. Unlinked'
    BY <1>27 DEF SessionIInv, Unlink, Goto, leases, Key_, Row_, Owned, JobsTyped, Job, Actor, Fresh, OwnsRow,
       Executing, Typed, Stages, RunsOwn, RunOwns, Removing, Removes, Unlinked
  <2>4. NoForeignConversation'
    BY <1>27 DEF SessionIInv, Unlink, Goto, leases, Key_, NoForeignConversation
  <2>5. NoNewOrphan'
    BY <1>27 DEF SessionIInv, Unlink, Goto, leases, Key_, NoNewOrphan
  <2>6. IdleIsContinuable'
    BY <1>27 DEF SessionIInv, Unlink, Goto, leases, Key_, Row_, Owned, InStore, JobsTyped, Job, Actor, Fresh,
       OwnsRow, Executing, Typed, Stages, Remembers, Removing, Removes, RunsOwn, RunOwns, IdleIsContinuable
  <2> QED
    BY <2>1, <2>2, <2>3, <2>4, <2>5, <2>6
<1>28. ASSUME NEW a \in Actor, UnlinkFails(a)
      PROVE  Remembers' /\ OnlyStored' /\ Unlinked' /\ NoForeignConversation' /\ NoNewOrphan' /\ IdleIsContinuable'
  <2>1. Remembers'
    BY <1>28 DEF SessionIInv, UnlinkFails, FreeLeases, End, Goto, Key_, InStore, Fresh, OwnsRow, Executing,
       Remembers
  <2>2. OnlyStored'
    BY <1>28 DEF SessionIInv, UnlinkFails, FreeLeases, End, Goto, OnlyStored
  <2>3. Unlinked'
    BY <1>28 DEF SessionIInv, UnlinkFails, FreeLeases, End, Goto, Key_, Actor, Unlinked
  <2>4. NoForeignConversation'
    BY <1>28 DEF SessionIInv, UnlinkFails, FreeLeases, End, Goto, NoForeignConversation
  <2>5. NoNewOrphan'
    BY <1>28 DEF SessionIInv, UnlinkFails, FreeLeases, End, Goto, NoNewOrphan
  <2>6. IdleIsContinuable'
    BY <1>28 DEF SessionIInv, UnlinkFails, FreeLeases, End, Goto, IdleIsContinuable
  <2> QED
    BY <2>1, <2>2, <2>3, <2>4, <2>5, <2>6
<1>29. ASSUME NEW p \in Process, Crash(p)
      PROVE  Remembers' /\ OnlyStored' /\ Unlinked' /\ NoForeignConversation' /\ NoNewOrphan' /\ IdleIsContinuable'
  <2>1. Remembers'
    BY <1>29 DEF SessionIInv, Crash, Key_, InStore, Actor, Fresh, OwnsRow, Executing, Remembers
  <2>2. OnlyStored'
    BY <1>29 DEF SessionIInv, Crash, Actor, OnlyStored
  <2>3. Unlinked'
    BY <1>29 DEF SessionIInv, Crash, Key_, Actor, Unlinked
  <2>4. NoForeignConversation'
    BY <1>29 DEF SessionIInv, Crash, Actor, NoForeignConversation
  <2>5. NoNewOrphan'
    BY <1>29 DEF SessionIInv, Crash, Actor, NoNewOrphan
  <2>6. IdleIsContinuable'
    BY <1>29 DEF SessionIInv, Crash, Actor, IdleIsContinuable
  <2> QED
    BY <2>1, <2>2, <2>3, <2>4, <2>5, <2>6
<1>30. CASE UNCHANGED vars
  BY <1>30 DEF vars, SessionIInv, Remembers, InStore, Key_, OnlyStored, Unlinked, Key_, NoForeignConversation,
     NoNewOrphan, IdleIsContinuable
<1>31. ASSUME NEW a \in Run, EngineIsGone(a)
      PROVE  Remembers' /\ OnlyStored' /\ Unlinked' /\ NoForeignConversation' /\ NoNewOrphan' /\ IdleIsContinuable'
  BY <1>31 DEF EngineIsGone, leases, SessionIInv, Remembers, InStore, Key_, OnlyStored, Unlinked, Key_, NoForeignConversation,
     NoNewOrphan, IdleIsContinuable
<1> QED
  BY <1>1, <1>2, <1>3, <1>4, <1>5, <1>6, <1>7, <1>8, <1>9, <1>10, <1>11, <1>12, <1>13, <1>14, <1>15, <1>16,
     <1>17, <1>18, <1>19, <1>20, <1>21, <1>22, <1>23, <1>24, <1>25, <1>26, <1>27, <1>28, <1>29, <1>30, <1>31 DEF
     Next, RunStep, CleanStep, SharedStep

-----------------------------------------------------------------------------
(* What becomes of a row that somebody owns                                *)

LEMMA SessionIsInductive == Spec => []SessionIInv
<1>1. ASSUME SessionIInv, [Next]_vars PROVE SessionIInv'
  BY <1>1, TypesStep, HeldStep, TalkStep DEF SessionIInv
<1> QED
  BY <1>1, SessionIInvInit, PTL DEF Spec

\* An owner's row stays as it is, unless the owner itself moves on, or a
\* clean takes it from an owner that is over.
Stays(r) ==
  \/ rows'[Key_(r)] = rows[Key_(r)]
  \/ pc[r] \in {"admitted", "complete", "abandon"} /\ pc'[r] \in {"engine", "done", "unlink"}
  \/ pc[r] \notin OwnsRow /\ (r \in adrift => r \in cleaned')

LEMMA OtherRowStays ==
  ASSUME NEW r \in Run, NEW k \in Key, NEW s, NEW o, rows \in [Key -> Row \cup {None}],
         k # Key_(r), Key_(r) \in Key, Becomes(k, s, o)
  PROVE  Stays(r)
  BY DEF Stays, Becomes

LEMMA OwnedRowsStay ==
  ASSUME SessionIInv, [Next]_vars, NEW r \in Run, Key_(r) \in Key, Owned(r),
         Row_(r).state \in {"reserved", "running"}
  PROVE  Stays(r)
<1>1. rows \in [Key -> Row \cup {None}] /\ r \in Actor /\ Row_(r) # None /\ pc \in [Actor -> Steps]
  BY DEF SessionIInv, Typed, Actor, Owned
<1>2. CASE UNCHANGED rows
  BY <1>2 DEF Stays
<1>3. ASSUME NEW a \in Run, AdmitNew(a) PROVE Stays(r)
  <2>1. Key_(a) # Key_(r)
    BY <1>1, <1>3 DEF AdmitNew, MayReserve, Row_
  <2> QED
    BY <1>1, <1>3, <2>1 DEF AdmitNew, SetRow, Stays
<1>4. ASSUME NEW a \in Run, AdmitContinuation(a) PROVE Stays(r)
  <2>1. Key_(a) # Key_(r) /\ Key_(a) \in Key /\ Becomes(Key_(a), "running", a)
    BY <1>1, <1>4, AdmitContinuationMoves DEF Row_
  <2> QED
    BY <1>1, <2>1, OtherRowStays
<1>5. ASSUME NEW a \in Run, Revalidate(a) PROVE Stays(r)
  <2>1. /\ Key_(a) \in Key /\ Becomes(Key_(a), "running", a) /\ Row_(a).owner = a
        /\ pc[a] = "admitted" /\ pc' = [pc EXCEPT ![a] = "engine"]
    BY <1>5, RevalidateMoves
  <2>2. CASE a = r
    BY <1>1, <2>1, <2>2 DEF Stays
  <2>3. CASE a # r
    <3>1. Key_(a) # Key_(r)
      BY <2>1, <2>3 DEF Owned, Row_
    <3> QED
      BY <1>1, <2>1, <3>1, OtherRowStays
  <2> QED
    BY <2>2, <2>3
<1>6. ASSUME NEW a \in Run, FinishIdle(a) PROVE Stays(r)
  <2>1. Key_(a) \in Key /\ Becomes(Key_(a), "idle", None)
    BY <1>6, FinishIdleMoves
  <2>2. Owned(a) /\ pc[a] \in {"complete", "abandon"} /\ pc' = [pc EXCEPT ![a] = "done"]
    BY <1>6 DEF FinishIdle, ToIdle, CompletesIdle, AbandonsIdle, End, Goto
  <2>3. CASE a = r
    BY <1>1, <2>2, <2>3 DEF Stays
  <2>4. CASE a # r
    <3>1. Key_(a) # Key_(r)
      BY <2>2, <2>4 DEF Owned, Row_
    <3> QED
      BY <1>1, <2>1, <3>1, OtherRowStays
  <2> QED
    BY <2>3, <2>4
<1>7. ASSUME NEW a \in Run, FinishRemoval(a) PROVE Stays(r)
  <2>1. Key_(a) \in Key /\ Becomes(Key_(a), "deleting", a)
    BY <1>7, FinishRemovalMoves
  <2>2. Owned(a) /\ pc[a] \in {"complete", "abandon"} /\ pc' = [pc EXCEPT ![a] = "unlink"]
    BY <1>7 DEF FinishRemoval, ToRemoved, CompletesRemoved, AbandonsRemoved, MayRemove, Goto
  <2>3. CASE a = r
    BY <1>1, <2>2, <2>3 DEF Stays
  <2>4. CASE a # r
    <3>1. Key_(a) # Key_(r)
      BY <2>2, <2>4 DEF Owned, Row_
    <3> QED
      BY <1>1, <2>1, <3>1, OtherRowStays
  <2> QED
    BY <2>3, <2>4
<1>8. ASSUME NEW a \in Clean, Mark(a) PROVE Stays(r)
  <2>1. CASE Key_(a) = Key_(r)
    <3>1. pc[r] \notin OwnsRow
      BY <1>8, <2>1, MarkMoves
    <3>2. r \in adrift => r \in cleaned'
      BY <1>8, <2>1 DEF Mark, Owned, Row_
    <3> QED
      BY <3>1, <3>2 DEF Stays
  <2>2. CASE Key_(a) # Key_(r)
    <3>1. CASE UNCHANGED rows
      BY <1>2, <3>1
    <3>2. CASE Becomes(Key_(a), "deleting", a)
      BY <1>1, <1>8, <2>2, <3>2, MarkMoves, OtherRowStays
    <3> QED
      BY <1>8, <3>1, <3>2, MarkMoves
  <2> QED
    BY <2>1, <2>2
<1>9. ASSUME NEW a \in Actor, pc[a] = "drop", SetRow(a, None) PROVE Stays(r)
  <2>1. Key_(a) # Key_(r)
    BY <1>9 DEF SessionIInv, Removing, Removes, Row_
  <2> QED
    BY <1>1, <1>9, <2>1 DEF SetRow, Stays
<1>10. ASSUME NEW a \in Run, RunStep(a) PROVE Stays(r)
  <2>1. DropOwn(a) => Stays(r)
    BY <1>9 DEF DropOwn, Actor
  <2> QED
    BY <1>2, <1>3, <1>4, <1>5, <1>6, <1>7, <1>10, <2>1
       DEF RunStep, SelectSlot, SelectFails, Retake, AdmitRejects, Publish, FinishRetained, EngineEnds
<1>11. ASSUME NEW c \in Clean, CleanStep(c) PROVE Stays(r)
  <2>1. DropCleaned(c) => Stays(r)
    BY <1>2, <1>9 DEF DropCleaned, Actor
  <2> QED
    BY <1>2, <1>8, <1>11, <2>1 DEF CleanStep, Scan, ScanRefuses, ScanNoRow, CleanOrphan, MarkFails
<1>12. CASE UNCHANGED vars
  BY <1>2, <1>12 DEF vars
<1> QED
  BY <1>2, <1>10, <1>11, <1>12
     DEF Next, SharedStep, StartRun, Retain, Throw, EngineIsGone, StartClean, TakeTarget, TakeSlot, Unlink,
         UnlinkFails, Crash

-----------------------------------------------------------------------------
(* Runs that are over and runs that have not begun                         *)

\* How a run comes to its end, to its admission and to giving up.
Moves(r) ==
  /\ pc[r] \in {"done", "dead"} => pc'[r] \in {"done", "dead"} /\ job'[r] = job[r]
  /\ pc'[r] = "admitted" => pc[r] \in {"admit", "admitted"} /\ job'[r].published = job[r].published
  /\ pc'[r] = "abandon" =>
       \/ pc[r] = "abandon" /\ job'[r] = job[r]
       \/ pc[r] \in {"admitted"} \cup Executing /\ UNCHANGED <<rows, job>>

LEMMA RunMoves ==
  ASSUME SessionIInv, [Next]_vars, NEW r \in Run
  PROVE  Moves(r)
<1>1. r \in Actor /\ pc \in [Actor -> Steps] /\ job \in [Actor -> Job] /\ Run \subseteq Actor /\ Clean \subseteq Actor
  BY DEF SessionIInv, Typed, JobsTyped, Actor
<1>2. ASSUME NEW j \in Job, NEW i, NEW m
      PROVE  /\ [j EXCEPT !.instance = i].published = j.published
             /\ [j EXCEPT !.instance = i, !.continues = TRUE, !.resumed = m].published = j.published
  BY DEF Job
<1>3. ASSUME NEW a \in Run, NEW q \in Requests, StartRun(a, q) PROVE Moves(r)
  BY <1>1, <1>3 DEF StartRun, Goto, Moves, Executing
<1>4. ASSUME NEW a \in Run, SelectSlot(a) PROVE Moves(r)
  BY <1>1, <1>4 DEF SelectSlot, FreeLeases, End, Goto, Moves, Executing, ToIdle, ToRemoved
<1>5. ASSUME NEW a \in Run, SelectFails(a) PROVE Moves(r)
  BY <1>1, <1>5 DEF SelectFails, FreeLeases, End, Goto, Moves, Executing, ToIdle, ToRemoved
<1>6. ASSUME NEW a \in Run, Retake(a) PROVE Moves(r)
  BY <1>1, <1>6 DEF Retake, FreeLeases, End, Goto, Moves, Executing, ToIdle, ToRemoved
<1>7. ASSUME NEW a \in Run, AdmitNew(a) PROVE Moves(r)
  <2>1. /\ pc[a] = "admit" /\ pc' = [pc EXCEPT ![a] = "admitted"]
        /\ job' = [job EXCEPT ![a] = [job[a] EXCEPT !.instance = a]]
    BY <1>7 DEF AdmitNew, Goto
  <2>2. job'[r].published = job[r].published
    BY <1>1, <1>2, <2>1
  <2> QED
    BY <1>1, <2>1, <2>2 DEF Moves
<1>8. ASSUME NEW a \in Run, AdmitContinuation(a) PROVE Moves(r)
  <2>1. pc[a] = "admit" /\ pc' = [pc EXCEPT ![a] = "admitted"]
    BY <1>8 DEF AdmitContinuation, Goto
  <2>2. job' = [job EXCEPT ![a] = [job[a] EXCEPT !.instance = Row_(a).instance, !.continues = TRUE,
                                                 !.resumed = mapping[Key_(a)]]]
    BY <1>8 DEF AdmitContinuation
  <2>3. job'[r].published = job[r].published
    BY <1>1, <1>2, <2>2
  <2>4. r # a => job'[r] = job[r]
    BY <1>1, <2>2
  <2> QED
    BY <1>1, <2>1, <2>3, <2>4 DEF Moves
<1>9. ASSUME NEW a \in Run, AdmitRejects(a) PROVE Moves(r)
  BY <1>1, <1>9 DEF AdmitRejects, FreeLeases, End, Goto, Moves, Executing, ToIdle, ToRemoved
<1>10. ASSUME NEW a \in Run, Revalidate(a) PROVE Moves(r)
  BY <1>1, <1>10 DEF Revalidate, FreeLeases, End, Goto, Moves, Executing, ToIdle, ToRemoved
<1>11. ASSUME NEW a \in Run, Publish(a) PROVE Moves(r)
  BY <1>1, <1>11 DEF Publish, FreeLeases, End, Goto, Moves, Executing, ToIdle, ToRemoved
<1>12. ASSUME NEW a \in Run, FinishIdle(a) PROVE Moves(r)
  BY <1>1, <1>12 DEF FinishIdle, FreeLeases, End, Goto, Moves, Executing, ToIdle, ToRemoved
<1>13. ASSUME NEW a \in Run, FinishRemoval(a) PROVE Moves(r)
  BY <1>1, <1>13 DEF FinishRemoval, FreeLeases, End, Goto, Moves, Executing, ToIdle, ToRemoved
<1>14. ASSUME NEW a \in Run, FinishRetained(a) PROVE Moves(r)
  BY <1>1, <1>14 DEF FinishRetained, FreeLeases, End, Goto, Moves, Executing, ToIdle, ToRemoved
<1>15. ASSUME NEW a \in Run, DropOwn(a) PROVE Moves(r)
  BY <1>1, <1>15 DEF DropOwn, FreeLeases, End, Goto, Moves, Executing, ToIdle, ToRemoved
<1>16. ASSUME NEW a \in Run, Retain(a) PROVE Moves(r)
  BY <1>1, <1>16 DEF Retain, FreeLeases, End, Goto, Moves, Executing, ToIdle, ToRemoved
<1>17. ASSUME NEW a \in Run, Throw(a) PROVE Moves(r)
  BY <1>1, <1>17 DEF Throw, FreeLeases, End, Goto, Moves, Executing, ToIdle, ToRemoved
<1>18. ASSUME NEW a \in Run, EngineIsGone(a) PROVE Moves(r)
  BY <1>1, <1>18 DEF EngineIsGone, FreeLeases, End, Goto, Moves, Executing, ToIdle, ToRemoved
<1>19. ASSUME NEW a \in Run, NEW id \in RealId \cup {None}, EngineEnds(a, id) PROVE Moves(r)
  BY <1>1, <1>19 DEF EngineEnds, Goto, Moves, Executing
<1>20. ASSUME NEW a \in Clean, NEW q \in Requests, NEW f \in BOOLEAN, StartClean(a, q.key, f) PROVE Moves(r)
  BY <1>1, <1>20 DEF StartClean, Goto, Moves, Executing
<1>21. ASSUME NEW a \in Clean, Scan(a) PROVE Moves(r)
  BY <1>1, <1>21 DEF Scan, FreeLeases, End, Goto, Moves, Executing
<1>22. ASSUME NEW a \in Clean, ScanRefuses(a) PROVE Moves(r)
  BY <1>1, <1>22 DEF ScanRefuses, FreeLeases, End, Goto, Moves, Executing
<1>23. ASSUME NEW a \in Clean, ScanNoRow(a) PROVE Moves(r)
  BY <1>1, <1>23 DEF ScanNoRow, FreeLeases, End, Goto, Moves, Executing
<1>24. ASSUME NEW a \in Clean, CleanOrphan(a) PROVE Moves(r)
  BY <1>1, <1>24 DEF CleanOrphan, FreeLeases, End, Goto, Moves, Executing
<1>25. ASSUME NEW a \in Clean, Mark(a) PROVE Moves(r)
  BY <1>1, <1>25 DEF Mark, FreeLeases, End, Goto, Moves, Executing
<1>26. ASSUME NEW a \in Clean, MarkFails(a) PROVE Moves(r)
  BY <1>1, <1>26 DEF MarkFails, FreeLeases, End, Goto, Moves, Executing
<1>27. ASSUME NEW a \in Clean, DropCleaned(a) PROVE Moves(r)
  BY <1>1, <1>27 DEF DropCleaned, FreeLeases, End, Goto, Moves, Executing
<1>28. ASSUME NEW a \in Actor, TakeTarget(a) PROVE Moves(r)
  BY <1>1, <1>28 DEF TakeTarget, FreeLeases, End, Goto, Moves, Executing
<1>29. ASSUME NEW a \in Actor, TakeSlot(a) PROVE Moves(r)
  BY <1>1, <1>29 DEF TakeSlot, FreeLeases, End, Goto, Moves, Executing
<1>30. ASSUME NEW a \in Actor, Unlink(a) PROVE Moves(r)
  BY <1>1, <1>30 DEF Unlink, FreeLeases, End, Goto, Moves, Executing
<1>31. ASSUME NEW a \in Actor, UnlinkFails(a) PROVE Moves(r)
  BY <1>1, <1>31 DEF UnlinkFails, FreeLeases, End, Goto, Moves, Executing
<1>32. ASSUME NEW p \in Process, Crash(p) PROVE Moves(r)
  BY <1>1, <1>32 DEF Crash, Moves
<1>33. CASE UNCHANGED vars
  BY <1>33 DEF vars, Moves
<1> QED
  BY <1>3, <1>4, <1>5, <1>6, <1>7, <1>8, <1>9, <1>10, <1>11, <1>12, <1>13, <1>14, <1>15, <1>16, <1>17, <1>18,
     <1>19, <1>20, <1>21, <1>22, <1>23, <1>24, <1>25, <1>26, <1>27, <1>28, <1>29, <1>30, <1>31, <1>32, <1>33
     DEF Next, RunStep, CleanStep, SharedStep

\* A run whose engine outlived it is over, and owns its running row until a
\* clean has marked that.
Drifts(r) ==
  /\ pc[r] \in {"done", "dead"}
  /\ r \notin cleaned => Key_(r) \in Key /\ Owned(r) /\ Row_(r).state = "running"

Drifting == adrift \subseteq Run /\ cleaned \subseteq adrift /\ \A r \in adrift : Drifts(r)

\* Nothing is published of a run whose row is still reserved.
Unspawned ==
  \A r \in Run :
    /\ pc[r] = "admitted" => job[r].published = None
    /\ pc[r] = "abandon" => Row_(r).state = "running" \/ job[r].published = None

\* What a step changes of the engines nobody watches.
LEMMA DriftersChange ==
  ASSUME SessionIInv, Drifting, [Next]_vars
  PROVE  /\ adrift' \subseteq Run /\ cleaned' \subseteq adrift'
         /\ \A r \in adrift' \ adrift :
              pc[r] = "engine" /\ pc'[r] \in {"done", "dead"} /\ UNCHANGED <<rows, job>>
         /\ \A r \in cleaned : r \in adrift' => r \in cleaned'
<1> DEFINE G == /\ adrift' \subseteq Run /\ cleaned' \subseteq adrift'
                /\ \A r \in adrift' \ adrift :
                     pc[r] = "engine" /\ pc'[r] \in {"done", "dead"} /\ UNCHANGED <<rows, job>>
                /\ \A r \in cleaned : r \in adrift' => r \in cleaned'
<1>1. pc \in [Actor -> Steps] /\ Run \subseteq Actor /\ adrift \subseteq Run /\ cleaned \subseteq adrift
  BY DEF SessionIInv, Typed, Actor, Drifting
<1>2. ASSUME UNCHANGED engines PROVE G
  BY <1>1, <1>2 DEF engines
<1>3. ASSUME NEW a \in Run, Retain(a) PROVE G
  BY <1>1, <1>3 DEF Retain, End, Goto
<1>4. ASSUME NEW a \in Run, EngineIsGone(a) PROVE G
  BY <1>1, <1>4 DEF EngineIsGone
<1>5. ASSUME NEW a \in Clean, Mark(a) PROVE G
  BY <1>1, <1>5 DEF Mark
<1>6. ASSUME NEW p \in Process, Crash(p) PROVE G
  BY <1>1, <1>6 DEF Crash
<1>7. ASSUME UNCHANGED vars PROVE G
  BY <1>2, <1>7 DEF vars, engines
<1> HIDE DEF G
<1>8. ASSUME NEW a \in Run, RunStep(a) PROVE G
  BY <1>2, <1>8 DEF RunStep, SelectSlot, SelectFails, Retake, AdmitNew, AdmitContinuation, AdmitRejects, Revalidate,
     Publish, FinishIdle, FinishRemoval, FinishRetained, DropOwn, EngineEnds, engines
<1>9. ASSUME NEW c \in Clean, CleanStep(c) PROVE G
  BY <1>2, <1>5, <1>9 DEF CleanStep, Scan, ScanRefuses, ScanNoRow, CleanOrphan, MarkFails, DropCleaned, engines
<1>10. ASSUME NEW a \in Actor, SharedStep(a) \/ UnlinkFails(a) PROVE G
  BY <1>2, <1>10 DEF SharedStep, TakeTarget, TakeSlot, Unlink, UnlinkFails, engines
<1>11. G
  BY <1>2, <1>3, <1>4, <1>6, <1>7, <1>8, <1>9, <1>10 DEF Next, StartRun, Throw, StartClean, engines
<1> QED
  BY <1>11 DEF G

LEMMA DriftingStep ==
  ASSUME SessionIInv, Drifting, [Next]_vars
  PROVE  Drifting'
<1>1. /\ adrift' \subseteq Run /\ cleaned' \subseteq adrift'
      /\ \A r \in adrift' \ adrift :
           pc[r] = "engine" /\ pc'[r] \in {"done", "dead"} /\ UNCHANGED <<rows, job>>
      /\ \A r \in cleaned : r \in adrift' => r \in cleaned'
  BY DriftersChange
<1>2. ASSUME NEW r \in Run, r \in adrift', r \in adrift PROVE Drifts(r)'
  <2>1. Drifts(r) /\ pc[r] \in {"done", "dead"}
    BY <1>2 DEF Drifting, Drifts
  <2>2. pc'[r] \in {"done", "dead"} /\ job'[r] = job[r]
    BY <2>1, RunMoves DEF Moves
  <2>3. CASE r \in cleaned'
    BY <2>2, <2>3 DEF Drifts
  <2>4. CASE r \notin cleaned'
    <3>1. Key_(r) \in Key /\ Owned(r) /\ Row_(r).state = "running"
      BY <1>1, <1>2, <2>1, <2>4 DEF Drifts
    <3>2. Stays(r)
      BY <3>1, OwnedRowsStay
    <3>3. rows'[Key_(r)] = rows[Key_(r)]
      BY <1>2, <2>1, <2>4, <3>2 DEF Stays
    <3> QED
      BY <2>2, <3>1, <3>3 DEF Drifts, Owned, Row_, Key_
  <2> QED
    BY <2>3, <2>4
<1>3. ASSUME NEW r \in Run, r \in adrift', r \notin adrift PROVE Drifts(r)'
  <2>1. pc[r] = "engine" /\ pc'[r] \in {"done", "dead"} /\ UNCHANGED <<rows, job>>
    BY <1>1, <1>3
  <2>2. RunOwns(r) /\ Row_(r).state = "running" /\ Key_(r) \in Key
    BY <2>1 DEF SessionIInv, RunsOwn, RunOwns, OwnsRow, Executing, Stages, Actor, Key_
  <2> QED
    BY <2>1, <2>2 DEF Drifts, RunOwns, Owned, Row_, Key_
<1> QED
  BY <1>1, <1>2, <1>3 DEF Drifting

LEMMA UnspawnedStep ==
  ASSUME SessionIInv, Unspawned, [Next]_vars
  PROVE  Unspawned'
<1> SUFFICES ASSUME NEW r \in Run
             PROVE  /\ pc'[r] = "admitted" => job'[r].published = None
                    /\ pc'[r] = "abandon" => Row_(r)'.state = "running" \/ job'[r].published = None
  BY DEF Unspawned
<1>1. Moves(r) /\ r \in Actor
  BY RunMoves DEF Actor
<1>2. pc'[r] = "admitted" => job'[r].published = None
  BY <1>1 DEF Moves, Unspawned, SessionIInv, Remembers, Fresh
<1>3. ASSUME pc[r] = "abandon", pc'[r] = "abandon", job'[r] = job[r]
      PROVE  Row_(r)'.state = "running" \/ job'[r].published = None
  <2>1. RunOwns(r) /\ Key_(r) \in Key
    BY <1>1, <1>3 DEF SessionIInv, RunsOwn, OwnsRow, Stages, Key_
  <2>2. Stays(r)
    BY <2>1, OwnedRowsStay DEF RunOwns
  <2>3. rows'[Key_(r)] = rows[Key_(r)]
    BY <1>3, <2>2 DEF Stays, OwnsRow
  <2> QED
    BY <1>3, <2>3 DEF Unspawned, Row_, Key_
<1>4. ASSUME pc[r] \in {"admitted"} \cup Executing, UNCHANGED <<rows, job>>
      PROVE  Row_(r)'.state = "running" \/ job'[r].published = None
  <2>1. pc[r] \in Executing => Row_(r).state = "running"
    BY <1>4 DEF SessionIInv, RunsOwn, RunOwns, OwnsRow
  <2> QED
    BY <1>4, <2>1 DEF Unspawned, Row_, Key_
<1>5. pc'[r] = "abandon" => Row_(r)'.state = "running" \/ job'[r].published = None
  BY <1>1, <1>3, <1>4 DEF Moves
<1> QED
  BY <1>2, <1>5

LEMMA DriftingAlways == Spec => [](SessionIInv /\ Drifting /\ Unspawned)
<1>1. Init => Drifting /\ Unspawned
  BY DEF Init, Drifting, Unspawned, Actor
<1>2. ASSUME SessionIInv, Drifting, Unspawned, [Next]_vars PROVE Drifting' /\ Unspawned'
  BY <1>2, DriftingStep, UnspawnedStep
<1> QED
  BY <1>1, <1>2, SessionIsInductive, PTL DEF Spec

-----------------------------------------------------------------------------
(* The theorems                                                            *)

\* Every reachable inventory is one later commands may trust: its slots agree
\* across the engines, it fits, a run works on a row of its own whose slot it
\* holds, and an idle session can be continued.
THEOREM RowsAreSound == Spec => []RowsInv
<1>1. ASSUME SessionIInv, Drifting PROVE RowsInv
  <2>1. TypeOK
    <3>1. \A e \in Engine : {k \in Key : k.engine = e /\ rows[k] # None} = OfEngine(e)
      BY DEF OfEngine
    <3> QED
      BY <1>1, <3>1 DEF SessionIInv, Typed, JobsTyped, RowsFit, TypeOK, Drifting
  <2>2. SlotsStayConsistent
    BY <1>1 DEF SessionIInv, SlotsStayConsistent
  <2>3. RunKeepsItsRow
    <3> SUFFICES ASSUME NEW r \in Run, pc[r] \in Executing \cup {"leaked"}
                 PROVE  Owned(r) /\ Row_(r).state = "running" /\ slots[Row_(r).slot] = r
      BY DEF RunKeepsItsRow
    <3>1. RunOwns(r) /\ slots[job[r].slot] = r
      BY <1>1 DEF SessionIInv, RunsOwn, Leased, OwnsRow, WithSlot, Actor
    <3> QED
      BY <3>1 DEF RunOwns
  <2> QED
    BY <1>1, <2>1, <2>2, <2>3 DEF RowsInv, SessionIInv
<1> QED
  BY <1>1, DriftingAlways, PTL

\* Two runs never have their engines at work on one slug, nor both in the
\* caller's worktree: the slots of one slug are one, and each run holds the
\* lease of its slot.  An engine that outlived its run keeps its session busy
\* by the row alone, which only a clean takes away.
THEOREM OneEngineAtATime == Spec => []OneEnginePerSlugAndTree
<1>1. ASSUME SessionIInv, Drifting PROVE OneEnginePerSlugAndTree
  <2> SUFFICES ASSUME NEW r \in Run, NEW s \in Run, r # s, AtWork(r), AtWork(s)
               PROVE  /\ {r, s} \cap adrift = {} =>
                           /\ Key_(r).slug # Key_(s).slug
                           /\ job[r].isolated \/ job[s].isolated
                      /\ Key_(r) = Key_(s) => {r, s} \cap cleaned # {}
    BY DEF OneEnginePerSlugAndTree
  <2>1. ASSUME r \notin adrift, s \notin adrift
        PROVE  Key_(r).slug # Key_(s).slug /\ (job[r].isolated \/ job[s].isolated)
    <3>1. pc[r] \in Executing /\ pc[s] \in Executing
      BY <2>1 DEF AtWork
    <3>2. /\ r \in Actor /\ s \in Actor /\ RunOwns(r) /\ RunOwns(s) /\ Key_(r) \in Key /\ Key_(s) \in Key
          /\ slots[job[r].slot] = r /\ slots[job[s].slot] = s
          /\ (~job[r].isolated => target = r) /\ (~job[s].isolated => target = s)
      BY <1>1, <3>1 DEF SessionIInv, RunsOwn, Leased, Stages, OwnsRow, WithSlot, WithTarget, Executing, Actor, Key_
    <3>3. Key_(r) \in Present /\ Key_(s) \in Present
      BY <3>2 DEF RunOwns, Owned, Row_, Present
    <3>4. Key_(r).slug = Key_(s).slug => rows[Key_(r)].slot = rows[Key_(s)].slot
      BY <1>1, <3>3 DEF SessionIInv, SlotsConsistent
    <3> QED
      BY <3>2, <3>4 DEF RunOwns, Row_
  <2>2. ASSUME NEW a \in Run, AtWork(a), a \notin cleaned PROVE Owned(a)
    BY <1>1, <2>2 DEF AtWork, SessionIInv, RunsOwn, RunOwns, OwnsRow, Drifting, Drifts
  <2>3. ASSUME Key_(r) = Key_(s) PROVE r \in cleaned \/ s \in cleaned
    BY <2>2, <2>3 DEF Owned, Row_
  <2> QED
    BY <2>1, <2>3
<1> QED
  BY <1>1, DriftingAlways, PTL

\* No session resumes a conversation of another incarnation of its slug, and
\* no removal leaves an orphan mapping, through every failure and crash.
THEOREM ConversationsStayHome == Spec => []ConversationsInv
<1>1. SessionIInv => ConversationsInv
  BY DEF SessionIInv, ConversationsInv
<1> QED
  BY <1>1, SessionIsInductive, PTL

\* What a clean destroys is what it discovered.
THEOREM CleansAreAccurate == Spec => []CleanTakesWhatItSaw
<1>1. ASSUME SessionIInv PROVE CleanTakesWhatItSaw
  BY <1>1 DEF SessionIInv, Removing, Removes, CleanTakesWhatItSaw, Actor
<1> QED
  BY <1>1, SessionIsInductive, PTL

\* The changes of a row to another state are those of the transition table.
LEMMA BecomesLives ==
  ASSUME NEW k \in Key, rows[k] \in Row, NEW s, NEW o, Becomes(k, s, o),
         rows \in [Key -> Row \cup {None}], NEW j \in Key,
         <<rows[k].state, s>> \in Transitions,
         s = "idle" => o = None,
         s = "running" => IF rows[k].state = "idle" THEN o \in Run ELSE o = rows[k].owner,
         s = "deleting" => o \in Clean \/ (o = rows[k].owner /\ o # None)
  PROVE  RowStep(j)
<1>1. PICK q \in Row :
        /\ rows' = [rows EXCEPT ![k] = q] /\ q.state = s /\ q.owner = o
        /\ q.instance = rows[k].instance /\ q.slot = rows[k].slot /\ q.isolated = rows[k].isolated
  BY DEF Becomes
<1>2. rows'[k] = q /\ (j # k => rows'[j] = rows[j])
  BY <1>1
<1>3. LivesOn(rows[k], q)
  BY <1>1 DEF LivesOn
<1>4. rows'[j] # None => rows[j] # None
  BY <1>2
<1>5. rows[j] # None => rows'[j] # None
  BY <1>2
<1> QED
  BY <1>2, <1>3, <1>4, <1>5 DEF RowStep

\* A row begins reserved by its own run, lives by the transition table, changes
\* its owner only with its state, and leaves only from deleting.
THEOREM RowsLive == Spec => RowsKeepTheirLife
<1>1. ASSUME SessionIInv, Unspawned, [Next]_vars PROVE \A k \in Key : RowStep(k)
  <2> SUFFICES ASSUME NEW k \in Key PROVE RowStep(k)
    OBVIOUS
  <2>1. rows \in [Key -> Row \cup {None}]
    BY <1>1 DEF SessionIInv, Typed
  <2>2. CASE UNCHANGED rows
    BY <2>2 DEF RowStep
  <2>3. ASSUME NEW a \in Run, AdmitNew(a) PROVE RowStep(k)
    <3> DEFINE q == [state |-> "reserved", instance |-> a, owner |-> a,
                     slot |-> job[a].slot, isolated |-> job[a].isolated]
    <3>1. Row_(a) = None /\ rows' = [rows EXCEPT ![Key_(a)] = q]
      BY <2>3 DEF AdmitNew, MayReserve, SetRow
    <3>2. q.state = "reserved" /\ q.owner = q.instance
      OBVIOUS
    <3> HIDE DEF q
    <3>3. k # Key_(a) => rows'[k] = rows[k]
      BY <2>1, <3>1
    <3>4. k = Key_(a) => rows[k] = None /\ rows'[k] = q
      BY <2>1, <3>1 DEF Row_
    <3> QED
      BY <3>2, <3>3, <3>4 DEF RowStep
  <2>4. ASSUME NEW a \in Run, AdmitContinuation(a) PROVE RowStep(k)
    <3>1. /\ Key_(a) \in Key /\ rows[Key_(a)] \in Row /\ rows[Key_(a)].state = "idle"
          /\ Becomes(Key_(a), "running", a)
      BY <1>1, <2>4, AdmitContinuationMoves DEF Row_
    <3>2. <<rows[Key_(a)].state, "running">> \in Transitions
      BY <3>1 DEF Transitions
    <3> QED
      BY <2>1, <3>1, <3>2, BecomesLives
  <2>5. ASSUME NEW a \in Run, Revalidate(a) PROVE RowStep(k)
    <3>1. /\ Key_(a) \in Key /\ rows[Key_(a)] \in Row /\ rows[Key_(a)].owner = a
          /\ rows[Key_(a)].state \in {"reserved", "running"}
          /\ Becomes(Key_(a), "running", a)
      BY <1>1, <2>5, RevalidateMoves DEF Row_
    <3>2. CASE rows[Key_(a)].state = "running"
      <4>1. UNCHANGED rows
        <5>1. rows' = [rows EXCEPT ![Key_(a)] = [rows[Key_(a)] EXCEPT !.state = "running"]] \/ UNCHANGED rows
          BY <2>5 DEF Revalidate, SetRow, Row_
        <5>2. [rows[Key_(a)] EXCEPT !.state = "running"] = rows[Key_(a)]
          BY <3>1, <3>2 DEF Row
        <5> QED
          BY <2>1, <5>1, <5>2
      <4> QED
        BY <2>2, <4>1
    <3>3. CASE rows[Key_(a)].state = "reserved"
      <4>1. <<rows[Key_(a)].state, "running">> \in Transitions
        BY <3>3 DEF Transitions
      <4> QED
        BY <2>1, <3>1, <3>3, <4>1, BecomesLives
    <3> QED
      BY <3>1, <3>2, <3>3
  <2>6. ASSUME NEW a \in Run, FinishIdle(a) PROVE RowStep(k)
    <3>1. /\ Key_(a) \in Key /\ rows[Key_(a)] \in Row /\ Becomes(Key_(a), "idle", None)
      BY <1>1, <2>6, FinishIdleMoves DEF Row_
    <3>2. rows[Key_(a)].state = "running"
      BY <1>1, <2>6 DEF FinishIdle, ToIdle, CompletesIdle, AbandonsIdle, Unspawned, Row_
    <3>3. <<rows[Key_(a)].state, "idle">> \in Transitions
      BY <3>2 DEF Transitions
    <3> QED
      BY <2>1, <3>1, <3>3, BecomesLives
  <2>7. ASSUME NEW a \in Run, FinishRemoval(a) PROVE RowStep(k)
    <3>1. /\ Key_(a) \in Key /\ rows[Key_(a)] \in Row /\ Becomes(Key_(a), "deleting", a)
          /\ rows[Key_(a)].state \in {"reserved", "running"}
      BY <1>1, <2>7, FinishRemovalMoves DEF Row_
    <3>2. rows[Key_(a)].owner = a /\ a # None
      BY <2>7 DEF FinishRemoval, ToRemoved, CompletesRemoved, AbandonsRemoved, MayRemove, Owned, Row_, Actor
    <3>3. <<rows[Key_(a)].state, "deleting">> \in Transitions
      BY <3>1 DEF Transitions
    <3> QED
      BY <2>1, <3>1, <3>2, <3>3, BecomesLives
  <2>8. ASSUME NEW a \in Clean, Mark(a) PROVE RowStep(k)
    <3>1. CASE Row_(a).state = "deleting"
      BY <2>2, <2>8, <3>1 DEF Mark
    <3>2. CASE Row_(a).state # "deleting"
      <4>1. Key_(a) \in Key /\ rows[Key_(a)] \in Row /\ (UNCHANGED rows \/ Becomes(Key_(a), "deleting", a))
        BY <1>1, <2>8, MarkMoves DEF Row_
      <4>2. <<rows[Key_(a)].state, "deleting">> \in Transitions
        BY <3>2, <4>1 DEF Transitions, Row, Row_
      <4>3. CASE Becomes(Key_(a), "deleting", a)
        BY <2>1, <4>1, <4>2, <4>3, BecomesLives
      <4> QED
        BY <2>2, <4>1, <4>3
    <3> QED
      BY <3>1, <3>2
  <2>9. ASSUME NEW a \in Run, DropOwn(a) PROVE RowStep(k)
    <3>1. Row_(a).state = "deleting"
      BY <1>1, <2>9 DEF DropOwn, SessionIInv, Removing, Removes, Actor
    <3>2. k # Key_(a) => rows'[k] = rows[k]
      BY <2>1, <2>9 DEF DropOwn, SetRow
    <3>3. k = Key_(a) => rows'[k] = None
      BY <2>1, <2>9 DEF DropOwn, SetRow
    <3> QED
      BY <3>1, <3>2, <3>3 DEF RowStep, Row_
  <2>10. ASSUME NEW a \in Clean, DropCleaned(a) PROVE RowStep(k)
    <3>1. CASE UNCHANGED rows
      BY <2>2, <3>1
    <3>2. CASE rows' = [rows EXCEPT ![Key_(a)] = None]
      <4>1. Row_(a).state = "deleting"
        BY <1>1, <2>10 DEF DropCleaned, SessionIInv, Removing, Removes, Actor
      <4> QED
        BY <2>1, <3>2, <4>1 DEF RowStep, Row_
    <3> QED
      BY <2>10, <3>1, <3>2 DEF DropCleaned, SetRow
  <2>11. CASE UNCHANGED vars
    BY <2>2, <2>11 DEF vars
  <2>12. ASSUME NEW a \in Run, UNCHANGED rows \/ RunStep(a) PROVE RowStep(k)
    BY <2>2, <2>3, <2>4, <2>5, <2>6, <2>7, <2>9, <2>12
       DEF RunStep, SelectSlot, SelectFails, Retake, AdmitRejects, Publish, FinishRetained, EngineEnds
  <2>13. ASSUME NEW c \in Clean, CleanStep(c) PROVE RowStep(k)
    BY <2>2, <2>8, <2>10, <2>13 DEF CleanStep, Scan, ScanRefuses, ScanNoRow, CleanOrphan, MarkFails
  <2> QED
    BY <1>1, <2>2, <2>11, <2>12, <2>13
       DEF Next, SharedStep, StartRun, Retain, Throw, EngineIsGone, StartClean, TakeTarget, TakeSlot, Unlink, UnlinkFails, Crash
<1> QED
  BY <1>1, DriftingAlways, PTL DEF Spec, RowsKeepTheirLife
=============================================================================
