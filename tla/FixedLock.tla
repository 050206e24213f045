----------------------------- MODULE FixedLock -----------------------------
(***************************************************************************)
(* src/src/fixed-kernel-lock.js: the best-effort shared/exclusive lock on  *)
(* a fixed file that every lease of the coder is built from.               *)
(*                                                                         *)
(* One lock path.  A process keeps an in-memory reader/writer registry     *)
(* (rwStates), the set of nonces it has registered (activeMarkerNonces)    *)
(* and one mutex (markerQueue); all processes share the marker written in  *)
(* the lock file.  A handle is one call of acquireFixedKernelLock and the  *)
(* release of what it returned; it may be used again.  The nonce a handle  *)
(* writes is the handle itself, the pid beside it is Owner of the handle.  *)
(* Truncating and writing are two awaited steps, and the text is written   *)
(* at offset 0: where two processes both truncate and then both write, the *)
(* end of a longer text stays behind a shorter one.  Texts differ in       *)
(* length only by the digits of the pid; what stays is the end of the      *)
(* older nonce, so such a torn marker still names the pid of the last      *)
(* writer, beside a nonce nobody registered.                               *)
(* Every await inside the mutex is a step of its own: the steps of other   *)
(* processes, and a crash, fall between them.                              *)
(***************************************************************************)
EXTENDS Naturals

CONSTANTS
  Process,      \* processes that use the lock path; a process id is never reused
  Handle,       \* acquisitions
  Owner,        \* Owner[h]: the process that runs handle h
  Digits,       \* Digits[p]: how many digits the pid of p has
  NoOne,        \* null: an empty marker, no writer, a free mutex
  MaxFaults     \* bound: failures of a read, truncate, write or fsync

ASSUME OwnerAssumption == Owner \in [Handle -> Process]
ASSUME DigitsAssumption == Digits \in [Process -> Nat]
ASSUME NoOneAssumption == NoOne \notin Handle
ASSUME FaultAssumption == MaxFaults \in Nat

VARIABLES
  alive,    \* alive[p]: kill(pid, 0) finds p
  marker,   \* the handle whose text was written last, or NoOne: an empty file
  tail,     \* how many characters of an older text follow it; 0: it is whole
  active,   \* active[p]: activeMarkerNonces of p
  writer,   \* writer[p]: state.writer
  readers,  \* readers[p]: state.readers
  mutex,    \* mutex[p]: the handle running inside withMarkerMutex
  mode,     \* mode[h]: "shared" or "exclusive"
  pc,       \* pc[h]: where the call of h stands
  faults,   \* failures injected so far
  raced     \* history: handles whose marker section overlapped another process's

vars == <<alive, marker, tail, active, writer, readers, mutex, mode, pc, faults, raced>>

Acquiring == {"reading", "checked", "truncated", "written"}
Releasing == {"relread", "relchecked", "reltruncated"}
InMutex == Acquiring \cup Releasing
\* From a decision about the marker to the write it leads to.
Section == {"checked", "truncated", "written", "relchecked"}
Owning == {"synced", "held", "rel", "unreleased"} \cup Releasing
States == {"idle", "try", "wait", "close", "dead"} \cup Acquiring \cup Owning

TypeOK ==
  /\ alive \in [Process -> BOOLEAN]
  /\ marker \in Handle \cup {NoOne}
  /\ tail \in Nat
  /\ active \in [Process -> SUBSET Handle]
  /\ writer \in [Process -> Handle \cup {NoOne}]
  /\ readers \in [Process -> SUBSET Handle]
  /\ mutex \in [Process -> Handle \cup {NoOne}]
  /\ mode \in [Handle -> {"shared", "exclusive"}]
  /\ pc \in [Handle -> States]
  /\ faults \in 0..MaxFaults
  /\ raced \subseteq Handle

Init ==
  /\ alive = [p \in Process |-> TRUE]
  /\ marker = NoOne
  /\ tail = 0
  /\ active = [p \in Process |-> {}]
  /\ writer = [p \in Process |-> NoOne]
  /\ readers = [p \in Process |-> {}]
  /\ mutex = [p \in Process |-> NoOne]
  /\ mode = [h \in Handle |-> "shared"]
  /\ pc = [h \in Handle |-> "idle"]
  /\ faults = 0
  /\ raced = {}

-----------------------------------------------------------------------------
(* What an attempt looks at.                                               *)

\* A bug: the marker of another process is honoured after that process died.
MarkerHeldForever(p) ==
  /\ marker # NoOne
  /\ Owner[marker] = p => marker \in active[p]

\* The nonce in the lock file is one that p has registered: the text is whole
\* and was written by a handle of p that has not given it back.
Registered(p) == marker # NoOne /\ tail = 0 /\ marker \in active[p]

\* markerHeldViaFd: a marker of this process counts while its nonce is
\* registered, a marker of another process while that process is alive.
MarkerHeld(p) ==
  /\ marker # NoOne
  /\ IF Owner[marker] = p THEN Registered(p) ELSE alive[Owner[marker]]

\* A bug: an exclusive attempt overlooks the readers.
WriterExcluded(h) == writer[Owner[h]] = NoOne

\* The in-process registry lets h read the marker.
Admissible(h) ==
  /\ writer[Owner[h]] = NoOne
  /\ mode[h] = "exclusive" => readers[Owner[h]] = {}

Goto(h, s) == pc' = [pc EXCEPT ![h] = s]
Lock(h) == mutex[Owner[h]] = NoOne /\ mutex' = [mutex EXCEPT ![Owner[h]] = h]
Unlock(h) == mutex' = [mutex EXCEPT ![Owner[h]] = NoOne]

\* h takes a decision about the marker while other processes act on theirs.
Overlap(h) ==
  LET others == {g \in Handle : Owner[g] # Owner[h] /\ pc[g] \in Section}
  IN  raced' = IF others = {} THEN raced ELSE raced \cup others \cup {h}

-----------------------------------------------------------------------------
(* Acquisition.                                                            *)

\* acquireFixedKernelLock: the call, up to the pinned descriptor.
Begin(h, m) ==
  /\ pc[h] = "idle"
  /\ Goto(h, "try")
  /\ mode' = [mode EXCEPT ![h] = m]
  /\ raced' = raced \ {h}
  /\ UNCHANGED <<alive, marker, tail, active, writer, readers, mutex, faults>>

\* The signal is aborted when the loop comes round.
Abort(h) ==
  /\ pc[h] = "try"
  /\ Goto(h, "idle")
  /\ UNCHANGED <<alive, marker, tail, active, writer, readers, mutex, mode, faults, raced>>

\* The turn in the mutex ends at once: the registry excludes h.
EnterBusy(h) ==
  /\ pc[h] = "try"
  /\ mutex[Owner[h]] = NoOne
  /\ ~Admissible(h)
  /\ Goto(h, "wait")
  /\ UNCHANGED <<alive, marker, tail, active, writer, readers, mutex, mode, faults, raced>>

EnterRead(h) ==
  /\ pc[h] = "try"
  /\ Lock(h)
  /\ Admissible(h)
  /\ Goto(h, "reading")
  /\ UNCHANGED <<alive, marker, tail, active, writer, readers, mode, faults, raced>>

\* A bug: the waiter keeps the mutex while it polls.
PollInsideMutex(h) ==
  /\ pc[h] = "reading"
  /\ MarkerHeld(Owner[h])
  /\ UNCHANGED vars

ReadHeld(h) ==
  /\ pc[h] = "reading"
  /\ MarkerHeld(Owner[h])
  /\ Unlock(h)
  /\ Goto(h, "wait")
  /\ UNCHANGED <<alive, marker, tail, active, writer, readers, mode, faults, raced>>

ReadFreeShared(h) ==
  /\ pc[h] = "reading"
  /\ mode[h] = "shared"
  /\ ~MarkerHeld(Owner[h])
  /\ readers' = [readers EXCEPT ![Owner[h]] = @ \cup {h}]
  /\ Unlock(h)
  /\ Goto(h, "held")
  /\ UNCHANGED <<alive, marker, tail, active, writer, mode, faults, raced>>

ReadFreeExclusive(h) ==
  /\ pc[h] = "reading"
  /\ mode[h] = "exclusive"
  /\ ~MarkerHeld(Owner[h])
  /\ Overlap(h)
  /\ Goto(h, "checked")
  /\ UNCHANGED <<alive, marker, tail, active, writer, readers, mutex, mode, faults>>

Truncate(h) ==
  /\ pc[h] = "checked"
  /\ marker' = NoOne
  /\ tail' = 0
  /\ Goto(h, "truncated")
  /\ UNCHANGED <<alive, active, writer, readers, mutex, mode, faults, raced>>

\* What h's text leaves of the text in the file: nothing of an empty file, the
\* end of a longer one.
Uncovered(h) ==
  IF marker = NoOne THEN 0
  ELSE LET there == Digits[Owner[marker]] + tail
           mine == Digits[Owner[h]]
       IN  IF there > mine THEN there - mine ELSE 0

Write(h) ==
  /\ pc[h] = "truncated"
  /\ marker' = h
  /\ tail' = Uncovered(h)
  /\ Goto(h, "written")
  /\ UNCHANGED <<alive, active, writer, readers, mutex, mode, faults, raced>>

\* A bug: the registry learns of the writer only after the mutex is free.
SyncUnregistered(h) ==
  /\ pc[h] = "written"
  /\ Unlock(h)
  /\ Goto(h, "synced")
  /\ UNCHANGED <<alive, marker, tail, active, writer, readers, mode, faults, raced>>

Sync(h) ==
  /\ pc[h] = "written"
  /\ writer' = [writer EXCEPT ![Owner[h]] = h]
  /\ Unlock(h)
  /\ Goto(h, "synced")
  /\ UNCHANGED <<alive, marker, tail, active, readers, mode, faults, raced>>

\* activeMarkerNonces.add runs after the mutex was released.
Register(h) ==
  /\ pc[h] = "synced"
  /\ active' = [active EXCEPT ![Owner[h]] = @ \cup {h}]
  /\ Goto(h, "held")
  /\ UNCHANGED <<alive, marker, tail, writer, readers, mutex, mode, faults, raced>>

\* waitForStateChange: a notification or the poll timer.
Wake(h) ==
  /\ pc[h] = "wait"
  /\ Goto(h, "try")
  /\ UNCHANGED <<alive, marker, tail, active, writer, readers, mutex, mode, faults, raced>>

-----------------------------------------------------------------------------
(* Release.                                                                *)

\* release() is called, again after an attempt that failed.
Release(h) ==
  /\ pc[h] \in {"held", "unreleased"}
  /\ Goto(h, "rel")
  /\ UNCHANGED <<alive, marker, tail, active, writer, readers, mutex, mode, faults, raced>>

RelShared(h) ==
  /\ pc[h] = "rel"
  /\ mode[h] = "shared"
  /\ mutex[Owner[h]] = NoOne
  /\ readers' = [readers EXCEPT ![Owner[h]] = @ \ {h}]
  /\ Goto(h, "close")
  /\ UNCHANGED <<alive, marker, tail, active, writer, mutex, mode, faults, raced>>

RelEnter(h) ==
  /\ pc[h] = "rel"
  /\ mode[h] = "exclusive"
  /\ Lock(h)
  /\ Goto(h, "relread")
  /\ UNCHANGED <<alive, marker, tail, active, writer, readers, mode, faults, raced>>

\* The registry forgets the writer; the mutex is free again.
Forget(h) ==
  /\ active' = [active EXCEPT ![Owner[h]] = @ \ {h}]
  /\ writer' = [writer EXCEPT ![Owner[h]] = NoOne]
  /\ Unlock(h)
  /\ Goto(h, "close")

\* A bug: release clears whatever marker it finds.
RelReadAny(h) ==
  /\ pc[h] = "relread"
  /\ marker # NoOne
  /\ Overlap(h)
  /\ Goto(h, "relchecked")
  /\ UNCHANGED <<alive, marker, tail, active, writer, readers, mutex, mode, faults>>

RelReadOwn(h) ==
  /\ pc[h] = "relread"
  /\ Registered(Owner[h])
  /\ Overlap(h)
  /\ Goto(h, "relchecked")
  /\ UNCHANGED <<alive, marker, tail, active, writer, readers, mutex, mode, faults>>

RelReadOther(h) ==
  /\ pc[h] = "relread"
  /\ ~Registered(Owner[h])
  /\ Forget(h)
  /\ UNCHANGED <<alive, marker, tail, readers, mode, faults, raced>>

RelTruncate(h) ==
  /\ pc[h] = "relchecked"
  /\ marker' = NoOne
  /\ tail' = 0
  /\ Goto(h, "reltruncated")
  /\ UNCHANGED <<alive, active, writer, readers, mutex, mode, faults, raced>>

RelSync(h) ==
  /\ pc[h] = "reltruncated"
  /\ Forget(h)
  /\ UNCHANGED <<alive, marker, tail, readers, mode, faults, raced>>

CloseFd(h) ==
  /\ pc[h] = "close"
  /\ Goto(h, "idle")
  /\ UNCHANGED <<alive, marker, tail, active, writer, readers, mutex, mode, faults, raced>>

-----------------------------------------------------------------------------
(* The environment.                                                        *)

\* A read, truncate, write or fsync rejects: the acquisition is over, or the
\* release stays open for another attempt.
IOFails(h) ==
  /\ pc[h] \in InMutex
  /\ faults < MaxFaults
  /\ faults' = faults + 1
  /\ Unlock(h)
  /\ Goto(h, IF pc[h] \in Acquiring THEN "idle" ELSE "unreleased")
  /\ UNCHANGED <<alive, marker, tail, active, writer, readers, mode, raced>>

\* The process dies: its memory goes, the marker it wrote stays.
Crash(p) ==
  /\ alive[p]
  /\ alive' = [alive EXCEPT ![p] = FALSE]
  /\ active' = [active EXCEPT ![p] = {}]
  /\ writer' = [writer EXCEPT ![p] = NoOne]
  /\ readers' = [readers EXCEPT ![p] = {}]
  /\ mutex' = [mutex EXCEPT ![p] = NoOne]
  /\ pc' = [h \in Handle |-> IF Owner[h] = p THEN "dead" ELSE pc[h]]
  /\ UNCHANGED <<marker, tail, mode, faults, raced>>

\* What a handle does on its own once acquire or release was called.
Step(h) ==
  \/ EnterBusy(h) \/ EnterRead(h) \/ ReadHeld(h)
  \/ ReadFreeShared(h) \/ ReadFreeExclusive(h)
  \/ Truncate(h) \/ Write(h) \/ Sync(h) \/ Register(h) \/ Wake(h)
  \/ RelShared(h) \/ RelEnter(h) \/ RelReadOwn(h) \/ RelReadOther(h)
  \/ RelTruncate(h) \/ RelSync(h) \/ CloseFd(h)

Next ==
  \/ \E h \in Handle :
       \/ \E m \in {"shared", "exclusive"} : Begin(h, m)
       \/ Step(h) \/ Abort(h) \/ Release(h) \/ IOFails(h)
  \/ \E p \in Process : Crash(p)

Spec == Init /\ [][Next]_vars

(***************************************************************************)
(* The event loop runs every ready continuation and the poll timer fires;  *)
(* the promise queue serves the mutex first come, first served, so a       *)
(* handle that keeps asking for it gets its turn.  Nothing makes a caller  *)
(* acquire, release or abort.                                              *)
(***************************************************************************)
Fairness ==
  \A h \in Handle :
    /\ WF_vars(Step(h))
    /\ SF_vars(EnterBusy(h) \/ EnterRead(h) \/ RelShared(h) \/ RelEnter(h))

FairSpec == Spec /\ Fairness

-----------------------------------------------------------------------------
(* Properties.                                                             *)

\* The caller of h may rely on the lock.
Holds(h) == pc[h] = "held"

\* Inside one process the lock is real: whoever holds it together with an
\* exclusive holder of the same process is that holder, whatever failures of
\* the marker's I/O and whatever other processes do to the marker
\* (the registry check under withMarkerMutex, lines 239-262).
InProcessExclusion ==
  \A g, h \in Handle :
    /\ Owner[g] = Owner[h]
    /\ Holds(g) /\ Holds(h)
    /\ mode[h] = "exclusive"
    => g = h

\* Across processes the lock excludes exclusive holders too, apart from those
\* whose read-check-write section (or the clearing section of their release)
\* overlapped another process's: two exclusive holders of different processes
\* never both went through undisturbed (lines 123-146 and 278-300).
UndisturbedExclusion ==
  \A g, h \in Handle :
    /\ Owner[g] # Owner[h]
    /\ Holds(g) /\ Holds(h)
    /\ mode[g] = "exclusive" /\ mode[h] = "exclusive"
    => g \in raced \/ h \in raced

\* The inductive invariant behind the two, in named parts.

\* A process that died runs nothing; a process that lives was never stopped.
DeadInv == \A h \in Handle : pc[h] = "dead" <=> ~alive[Owner[h]]

\* Exactly the handle inside withMarkerMutex has the mutex of its process.
MutexInv == \A h \in Handle : pc[h] \in InMutex <=> mutex[Owner[h]] = h

\* Only an exclusive handle writes, clears or registers a marker.
ModeInv ==
  \A h \in Handle :
    pc[h] \in Section \cup Releasing \cup {"truncated", "written", "synced", "unreleased"}
      => mode[h] = "exclusive"

\* state.writer is the handle that owns the lock exclusively.
WriterInv ==
  \A h \in Handle :
    writer[Owner[h]] = h <=> mode[h] = "exclusive" /\ pc[h] \in Owning

\* Registry entries belong to handles of the process.
ActiveInv == \A p \in Process : \A h \in active[p] : Owner[h] = p

ReaderInv ==
  /\ \A p \in Process : \A h \in readers[p] : Owner[h] = p
  /\ \A h \in Handle :
       h \in readers[Owner[h]] <=> mode[h] = "shared" /\ pc[h] \in Owning

\* What was seen on entering the mutex still holds when the lock is taken.
EntryInv ==
  /\ \A h \in Handle : pc[h] \in Acquiring => Admissible(h)
  /\ \A p \in Process : writer[p] # NoOne => readers[p] = {}

\* Undisturbed: h's section overlaps no other process's, h writes into an empty
\* file, and the marker it wrote stays h's, and whole, as long as h relies on it.
MarkerInv ==
  /\ marker = NoOne => tail = 0
  /\ \A h \in Handle :
       /\ h \notin raced
       /\ mode[h] = "exclusive"
       /\ pc[h] \in Section \cup {"synced", "held"}
       => /\ \A g \in Handle : Owner[g] # Owner[h] => pc[g] \notin Section
          /\ pc[h] = "truncated" => marker = NoOne
          /\ pc[h] \in {"written", "synced", "held"} => marker = h /\ tail = 0

\* The registry, the mutex, the marker and the handles' progress agree: what
\* every decision of acquire and release relies on (lines 239-300).
LockInv ==
  /\ TypeOK
  /\ DeadInv /\ MutexInv /\ ModeInv /\ WriterInv
  /\ ActiveInv /\ ReaderInv /\ EntryInv /\ MarkerInv

\* A live process's marker stands for a handle that owns the lock or is on its
\* way to it: the comment on markerHeldViaFd, "True iff the pinned inode's
\* marker is genuinely held" (line 123).  Fails once an fsync does, and once
\* two overlapping sections leave a torn marker: the release of the handle
\* that wrote it does not recognise it (line 288).
MarkerGenuine ==
  marker # NoOne /\ alive[Owner[marker]]
    => pc[marker] \in Owning \cup {"written"}

\* A release that was called ends: the lock is given back, the attempt failed
\* and may be repeated, or the process died.  Waiters of the same process can
\* never keep it from the mutex (comment at lines 132-138).
ReleaseEnds ==
  \A h \in Handle : pc[h] = "rel" ~> pc[h] \in {"idle", "unreleased", "dead"}

Waiting(h) == pc[h] \in {"try", "wait", "reading"}

\* The marker is torn, and the process whose pid it shows lives: nobody will
\* clear it, and every other process takes it for held.
TornAlive == tail > 0 /\ alive[Owner[marker]]

\* A waiter is blocked by somebody: as long as h waits, again and again some
\* other handle owns the lock or is about to.  A dead process's marker blocks
\* nobody (line 129) and no wake-up is lost for good (waitForStateChange).  Two
\* things alone block without an owner: the marker a failed fsync leaves behind,
\* and a torn marker of overlapping sections while its last writer lives.
BlockedBySomebody ==
  \A h \in Handle :
    Waiting(h) ~> \/ ~Waiting(h)
                  \/ \E g \in Handle \ {h} : pc[g] \in Owning \cup Section
                  \/ TornAlive
                  \/ faults > 0
=============================================================================
