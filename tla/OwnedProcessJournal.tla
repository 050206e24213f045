------------------------ MODULE OwnedProcessJournal ------------------------
(***************************************************************************)
(* The journal of owned process sets (src/src/owned-process-journal.js)    *)
(* and the release protocol over it (src/src/owned-process-reconcile.js).  *)
(* Each reading and each writing of the file is under the journal's lock,  *)
(* a transition is one of each and the lock is free in between.  A release *)
(* is serialized per sandbox inside a process, not between processes.  A   *)
(* reading, a writing and the owner's own release may each fail; the call  *)
(* ends then, and may be made again.                                       *)
(***************************************************************************)
EXTENDS Naturals, FiniteSets

CONSTANTS
  Sandbox,       \* process sets; an identity is allocated once
  Ephemeral,     \* those of kind ephemeral, without an owner
  Host,          \* processes
  Call,          \* calls; each has its host
  HostOf,
  Concerns,      \* which call may be about which set: <<call, sandbox>>
  JournalCap     \* entries the journal takes, 32

ASSUME SandboxAssumption == Sandbox # {} /\ Ephemeral \subseteq Sandbox
ASSUME CallAssumption == HostOf \in [Call -> Host] /\ Concerns \subseteq Call \X Sandbox

StateOrder == [absent |-> 0, reserving |-> 1, live |-> 2, verified_empty |-> 3,
               release_pending |-> 4, acknowledged |-> 5]
EntryState == DOMAIN StateOrder

OwnCalls == {"allocate", "cancel", "live", "empty"}   \* begin and after: only a release
Operation == OwnCalls \cup {"begin", "acknowledge", "prune"}

VARIABLES
  journal,      \* sandbox -> state of its entry
  call,         \* what each call is doing: its operation, and what it has read
  allocated,    \* history: identities given out
  recorded,     \* history: sets whose reservation was written
  cancelled,    \* history: reservations taken back
  emptied,      \* history: sets recorded as verified empty
  released,     \* history: how often a host released the set's reference in its life
  everReleased, \* history: sets whose reference was ever released
  unacknowledged, \* history: <<host, sandbox>>: a call released and failed before it acknowledged
  lost          \* history: sets whose entry was overwritten by a writing that had not seen it

journalVars ==
  <<journal, call, allocated, recorded, cancelled, emptied, released, everReleased, unacknowledged, lost>>

Journals == [Sandbox -> EntryState]
Many == 2   \* releases are counted no further
NoCall == [at |-> "idle", op |-> "allocate", sandbox |-> CHOOSE s \in Sandbox : TRUE,
           snap |-> [s \in Sandbox |-> "absent"], whole |-> FALSE]

JournalTypeOK ==
  /\ journal \in Journals
  /\ call \in [Call -> [at : {"idle", "read", "write", "look", "release"},
                        op : Operation, sandbox : Sandbox, snap : Journals, whole : BOOLEAN]]
  /\ recorded \subseteq allocated /\ allocated \subseteq Sandbox /\ cancelled \subseteq Sandbox /\ emptied \subseteq Sandbox
  /\ released \in [Host -> [Sandbox -> 0..Many]]
  /\ everReleased \subseteq Sandbox
  /\ unacknowledged \subseteq Host \X Sandbox /\ lost \subseteq Sandbox

JournalInit ==
  /\ journal = [s \in Sandbox |-> "absent"]
  /\ call = [c \in Call |-> NoCall]
  /\ allocated = {} /\ recorded = {} /\ cancelled = {} /\ emptied = {}
  /\ released = [h \in Host |-> [s \in Sandbox |-> 0]]
  /\ everReleased = {} /\ unacknowledged = {} /\ lost = {}

Doing(c, s) == call[c].at = s
Does(c, s) == call' = [call EXCEPT ![c].at = s]
EndCall(c) == call' = [call EXCEPT ![c] = NoCall]
NoRelease == UNCHANGED <<released, everReleased>>
NoEntry == UNCHANGED <<journal, recorded, cancelled, emptied, lost>>
Unwritten == NoRelease /\ NoEntry /\ UNCHANGED <<allocated, unacknowledged>>

EntriesOf(j) == {s \in Sandbox : j[s] # "absent"}

\* The states each operation accepts; in any other it throws.
Accepts ==
  [allocate |-> {"absent"}, cancel |-> {"absent", "reserving"}, live |-> {"reserving", "live"},
   empty |-> {"live"}, begin |-> {"verified_empty"}, acknowledge |-> {"release_pending"},
   prune |-> {"absent", "acknowledged"}]

\* ... and the state it leaves.
Leaves ==
  [allocate |-> "reserving", cancel |-> "absent", live |-> "live", empty |-> "verified_empty",
   begin |-> "release_pending", acknowledge |-> "acknowledged", prune |-> "absent"]

\* An ephemeral entry cannot hold the owner reference that `begin` gives it.
Permitted(op, j, s) ==
  /\ j[s] \in Accepts[op]
  /\ op = "allocate" => Cardinality(EntriesOf(j)) < JournalCap
  /\ op = "begin" => s \notin Ephemeral

-----------------------------------------------------------------------------
(* transitionJournal: read under the lock, compute, write under the lock.  *)

StartTransition(c, op, s) ==
  /\ Doing(c, "idle") /\ <<c, s>> \in Concerns
  /\ op = "allocate" <=> s \notin allocated
  /\ allocated' = IF op = "allocate" THEN allocated \cup {s} ELSE allocated
  /\ call' = [call EXCEPT ![c] = [NoCall EXCEPT !.at = "read", !.op = op, !.sandbox = s]]
  /\ NoRelease /\ NoEntry /\ UNCHANGED unacknowledged

ReadEntries(c) ==
  LET k == call[c] IN
  /\ Doing(c, "read")
  /\ IF Permitted(k.op, journal, k.sandbox)
     THEN call' = [call EXCEPT ![c] = [k EXCEPT !.at = "write", !.snap = journal]]
     ELSE EndCall(c)
  /\ Unwritten

\* writeJournal replaces the file by what was computed from the reading.
\* Where the lock cannot be let go the file is written and the call fails.
WriteEntries(c) ==
  LET k == call[c] IN
  /\ Doing(c, "write")
  /\ journal' = [k.snap EXCEPT ![k.sandbox] = Leaves[k.op]]
  /\ lost' = lost \cup {s \in Sandbox : journal[s] # k.snap[s]}
  /\ recorded' = IF k.op = "allocate" THEN recorded \cup {k.sandbox} ELSE recorded
  /\ cancelled' = IF k.op = "cancel" THEN cancelled \cup {k.sandbox} ELSE cancelled
  /\ emptied' = IF k.op = "empty" THEN emptied \cup {k.sandbox} ELSE emptied
  /\ EndCall(c) \/ (k.whole /\ k.op # "prune" /\ Does(c, "look"))
  /\ NoRelease /\ UNCHANGED <<allocated, unacknowledged>>

\* The lock, a reading, or a writing before its rename fails: nothing is
\* written, and a reference that was released stays without acknowledgement.
Pending(k) == k.whole /\ k.op = "acknowledge" /\ k.at \in {"read", "write"}
CallFails(c) ==
  LET k == call[c] IN
  /\ k.at \in {"read", "write", "look"}
  /\ EndCall(c)
  /\ unacknowledged' = unacknowledged \cup (IF Pending(k) THEN {<<HostOf[c], k.sandbox>>} ELSE {})
  /\ NoRelease /\ NoEntry /\ UNCHANGED allocated

-----------------------------------------------------------------------------
(* reconcileOwnedProcessSetRelease *)

Reconciling(h, s) ==
  \E c \in Call : HostOf[c] = h /\ call[c].whole /\ call[c].sandbox = s /\ ~Doing(c, "idle")

\* A bug: two calls of one process are not serialized.
ReconcileAtOnce(c, s) ==
  /\ Doing(c, "idle") /\ <<c, s>> \in Concerns
  /\ s \in allocated
  /\ call' = [call EXCEPT ![c] = [NoCall EXCEPT !.at = "look", !.sandbox = s, !.whole = TRUE]]
  /\ Unwritten

\* reconcileLocks: the turn of this sandbox in this process.
Reconcile(c, s) ==
  /\ Doing(c, "idle") /\ <<c, s>> \in Concerns
  /\ s \in allocated
  /\ ~Reconciling(HostOf[c], s)
  /\ call' = [call EXCEPT ![c] = [NoCall EXCEPT !.at = "look", !.sandbox = s, !.whole = TRUE]]
  /\ Unwritten

\* Each step starts from a fresh reading of the entry, and none goes back to
\* a step before the one that the call has come from.
LookAtEntry(c) ==
  LET k == call[c]
      Then(at, op) == call' = [call EXCEPT ![c] = [k EXCEPT !.at = at, !.op = op]] IN
  /\ Doing(c, "look")
  /\ CASE journal[k.sandbox] = "verified_empty" /\ k.sandbox \notin Ephemeral /\ k.op \notin {"begin", "acknowledge"} ->
              Then("read", "begin")
       [] journal[k.sandbox] = "release_pending" /\ k.op # "acknowledge" -> Then("release", "acknowledge")
       [] journal[k.sandbox] = "acknowledged" -> Then("read", "prune")
       [] OTHER -> EndCall(c)   \* nothing left, or cleanup is blocked
  /\ Unwritten

\* releaseReference of the owner's adapter; it may fail when it has released.
Released(c) ==
  LET k == call[c] IN
  /\ Doing(c, "release")
  /\ released' = [released EXCEPT ![HostOf[c]][k.sandbox] = IF @ = Many THEN @ ELSE @ + 1]
  /\ everReleased' = everReleased \cup {k.sandbox}
  /\ NoEntry /\ UNCHANGED allocated
ReleaseReference(c) == Released(c) /\ Does(c, "read") /\ UNCHANGED unacknowledged
ReleaseFails(c) ==
  /\ Doing(c, "release")
  /\ EndCall(c)
  /\ \/ Unwritten
     \/ Released(c) /\ unacknowledged' = unacknowledged \cup {<<HostOf[c], call[c].sandbox>>}

\* A process ends with all its calls and turns, and is started again.
HostCrash(h) ==
  /\ \E c \in Call : HostOf[c] = h /\ ~Doing(c, "idle")
  /\ call' = [c \in Call |-> IF HostOf[c] = h THEN NoCall ELSE call[c]]
  /\ released' = [released EXCEPT ![h] = [s \in Sandbox |-> 0]]
  /\ unacknowledged' = {u \in unacknowledged : u[1] # h}
  /\ NoEntry /\ UNCHANGED <<allocated, everReleased>>

JournalNext ==
  \/ \E c \in Call :
       \/ \E op \in OwnCalls, s \in Sandbox : StartTransition(c, op, s)
       \/ ReadEntries(c) \/ WriteEntries(c) \/ CallFails(c)
       \/ \E s \in Sandbox : Reconcile(c, s)
       \/ LookAtEntry(c) \/ ReleaseReference(c) \/ ReleaseFails(c)
  \/ \E h \in Host : HostCrash(h)

JournalSpec == JournalInit /\ [][JournalNext]_journalVars

-----------------------------------------------------------------------------

(* A reference is released only for a set that was recorded as verified    *)
(* empty, whichever entries were overwritten, whatever failed and whoever  *)
(* crashed.                                                                *)
ReleasedOnlyEmpty == \A s \in Sandbox : s \in everReleased => s \in emptied

(* An entry is acknowledged only after its reference was released: a crash *)
(* or a failure between the two leads to a second release, never to none.  *)
AcknowledgedWasReleased ==
  \A s \in Sandbox : journal[s] = "acknowledged" => s \in everReleased

(* A process releases a reference a second time only when an earlier call  *)
(* of its own released it and failed before it had acknowledged it, or     *)
(* when this very entry was overwritten: not because several of its calls  *)
(* reconcile the set, nor by what other processes do or what becomes of    *)
(* other entries.                                                          *)
ReleasedOnceByHost ==
  \A h \in Host, s \in Sandbox \ lost : <<h, s>> \notin unacknowledged => released[h][s] <= 1

(* Whatever fails or crashes, the entry of a set that was not overwritten  *)
(* leaves the journal by way of a cancelled reservation or a released      *)
(* reference.                                                              *)
NoneForgotten ==
  \A s \in recorded \ lost : journal[s] = "absent" => s \in cancelled \/ s \in everReleased

JournalInv ==
  /\ JournalTypeOK /\ ReleasedOnlyEmpty /\ AcknowledgedWasReleased
  /\ ReleasedOnceByHost /\ NoneForgotten

(* transitionJournal is an "Atomic transition helper: read under mutex,    *)
(* apply a pure transition fn, write under mutex": what it writes is made  *)
(* from what it overwrites.                                                *)
TransitionIsAtomic == lost = {}
=============================================================================
