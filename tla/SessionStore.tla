---------------------------- MODULE SessionStore ----------------------------
(***************************************************************************)
(* The session store .triss/sessions.json under its O_EXCL lock file:      *)
(* persistSessionMapping and removeSessionStoreMapping                     *)
(* (src/src/commands/coder.js) and the lock they take                      *)
(* (src/src/coder-lock.js), system call by system call.  A process is      *)
(* synchronous in these functions, so a writer is a process with one       *)
(* publication or removal to make.  All of it concerns one engine's        *)
(* namespace; another engine's is other slugs of the same file.            *)
(***************************************************************************)
EXTENDS Naturals, FiniteSets

CONSTANTS
  Writer,     \* processes; a publisher publishes its own id, itself
  Slug,
  Asks,       \* which writer may be asked for what: <<writer, operation, slug>>
  Attempts,   \* tries to take the lock before a publisher does without, 8
  MaxCrashes, \* bound
  None

ASSUME AttemptsAssumption == Attempts \in Nat \ {0} /\ MaxCrashes \in Nat

VARIABLES
  store,      \* the file: slug -> id or None
  lock,       \* the lock file: None, or who made it and whether its token is in
  pc, job,
  disturbed   \* history: somebody wrote without the lock or lost its exclusion

vars == <<store, lock, pc, job, disturbed>>

Map == [Slug -> Writer \cup {None}]
LockFile == [by : Writer, stamped : BOOLEAN]

Job == [op : {"publish", "remove"}, slug : Slug,
        tries : 0..Attempts, again : BOOLEAN, locked : BOOLEAN,
        repair : BOOLEAN, failed : BOOLEAN,
        seen : LockFile \cup {None}, snap : Map \cup {None}]

ASSUME NoneAssumption == None \notin Writer \cup LockFile \cup Map \cup Job

\* The lock file is a writer's while it stands at one of these, if locked.
Guarded == {"stamp", "read", "write", "check", "unlink"}
Steps == {"idle", "open", "peek", "recheck", "reclaim", "verify", "done", "dead"}
         \cup Guarded

TypeOK ==
  /\ store \in Map
  /\ lock \in LockFile \cup {None}
  /\ pc \in [Writer -> Steps]
  /\ job \in [Writer -> Job \cup {None}]
  /\ disturbed \in BOOLEAN

Init ==
  /\ store = [s \in Slug |-> None]
  /\ lock = None
  /\ pc = [w \in Writer |-> "idle"]
  /\ job = [w \in Writer |-> None]
  /\ disturbed = FALSE

Goto(w, s) == pc' = [pc EXCEPT ![w] = s]
At(w, s) == pc[w] = s
Alive(w) == pc[w] # "dead"

\* The call is over; nothing of it is remembered.
Finish(w) == Goto(w, "done") /\ job' = [job EXCEPT ![w] = None]

-----------------------------------------------------------------------------
(* The lock file (acquireCoderMutationLock, reclaimDeadLock, release).     *)

Start(w, op, s) ==
  /\ At(w, "idle")
  /\ <<w, op, s>> \in Asks
  /\ job' = [job EXCEPT ![w] =
       [op |-> op, slug |-> s, tries |-> 0, again |-> FALSE, locked |-> FALSE,
        repair |-> FALSE, failed |-> FALSE, seen |-> None, snap |-> None]]
  /\ Goto(w, "open")
  /\ UNCHANGED <<store, lock, disturbed>>

\* A bug: the file is opened for writing, existing or not.
CreateAnyway(w) ==
  /\ At(w, "open")
  /\ lock' = [by |-> w, stamped |-> FALSE]
  /\ job' = [job EXCEPT ![w].locked = TRUE]
  /\ Goto(w, "stamp")
  /\ UNCHANGED <<store, disturbed>>

\* openSync(lockPath, 'wx').
Create(w) ==
  /\ At(w, "open")
  /\ lock = None
  /\ lock' = [by |-> w, stamped |-> FALSE]
  /\ job' = [job EXCEPT ![w].locked = TRUE]
  /\ Goto(w, "stamp")
  /\ UNCHANGED <<store, disturbed>>

Stamp(w) ==
  /\ At(w, "stamp")
  /\ lock' = IF lock # None /\ lock.by = w THEN [lock EXCEPT !.stamped = TRUE] ELSE lock
  /\ Goto(w, "read")
  /\ UNCHANGED <<store, job, disturbed>>

\* EEXIST: the first time the lock is examined, the second it is held.
Exists(w) ==
  /\ At(w, "open")
  /\ lock # None
  /\ ~job[w].again
  /\ Goto(w, "peek")
  /\ UNCHANGED <<store, lock, job, disturbed>>

\* A bug: every token is taken for a dead owner's.
PeekAnybody(w) ==
  /\ At(w, "peek")
  /\ lock # None
  /\ lock.stamped
  /\ job' = [job EXCEPT ![w].seen = lock]
  /\ Goto(w, "recheck")
  /\ UNCHANGED <<store, lock, disturbed>>

\* A dead owner's token is remembered.
Peek(w) ==
  /\ At(w, "peek")
  /\ lock # None
  /\ lock.stamped
  /\ ~Alive(lock.by)
  /\ job' = [job EXCEPT ![w].seen = lock]
  /\ Goto(w, "recheck")
  /\ UNCHANGED <<store, lock, disturbed>>

Recheck(w) ==
  /\ At(w, "recheck")
  /\ lock = job[w].seen
  /\ Goto(w, "reclaim")
  /\ UNCHANGED <<store, lock, job, disturbed>>

\* rmSync(lockPath), whatever file has that name by now.
Reclaim(w) ==
  /\ At(w, "reclaim")
  /\ lock # None
  /\ lock' = None
  /\ disturbed' = (disturbed \/ lock # job[w].seen)
  /\ job' = [job EXCEPT ![w] = [@ EXCEPT !.again = TRUE, !.seen = None]]
  /\ Goto(w, "open")
  /\ UNCHANGED store

\* LOCK_HELD: the lock is alive, malformed, or changed under our eyes.
Refused(w) ==
  \/ At(w, "open") /\ lock # None /\ job[w].again
  \/ At(w, "peek") /\ (lock # None => ~lock.stamped \/ Alive(lock.by))
  \/ At(w, "recheck") /\ lock # job[w].seen
  \/ At(w, "reclaim") /\ lock = None

\* A removal gives up at once.
Throws(w) ==
  /\ Refused(w)
  /\ job[w].op = "remove"
  /\ Finish(w)
  /\ UNCHANGED <<store, lock, disturbed>>

\* A bug: the backoff starts over for ever.
RetriesForever(w) ==
  /\ Refused(w)
  /\ job[w].op = "publish"
  /\ job' = [job EXCEPT ![w].again = FALSE]
  /\ Goto(w, "open")
  /\ UNCHANGED <<store, lock, disturbed>>

\* A publisher sleeps and tries again ...
Retries(w) ==
  /\ Refused(w)
  /\ job[w].op = "publish"
  /\ job[w].tries + 1 < Attempts
  /\ job' = [job EXCEPT ![w] =
       [@ EXCEPT !.tries = job[w].tries + 1, !.again = FALSE, !.seen = None]]
  /\ Goto(w, "open")
  /\ UNCHANGED <<store, lock, disturbed>>

\* ... and then does without the lock.
Degrades(w) ==
  /\ Refused(w)
  /\ job[w].op = "publish"
  /\ job[w].tries + 1 >= Attempts
  /\ disturbed' = TRUE
  /\ Goto(w, "read")
  /\ UNCHANGED <<store, lock, job>>

-----------------------------------------------------------------------------
(* Read-modify-write.                                                      *)

Leave(w) == Goto(w, IF job[w].locked THEN "check" ELSE "verify")

\* readSessionStore; a removal of an absent slug writes nothing.
Read(w) ==
  /\ At(w, "read")
  /\ IF job[w].op = "remove" /\ store[job[w].slug] = None
     THEN Leave(w) /\ UNCHANGED job
     ELSE Goto(w, "write") /\ job' = [job EXCEPT ![w].snap = store]
  /\ UNCHANGED <<store, lock, disturbed>>

\* atomicWriteJson replaces the whole file.
Write(w) ==
  /\ At(w, "write")
  /\ store' = [job[w].snap EXCEPT
                 ![job[w].slug] = IF job[w].op = "publish" THEN w ELSE None]
  /\ job' = [job EXCEPT ![w].snap = None]
  /\ Leave(w)
  /\ UNCHANGED <<lock, disturbed>>

\* The lock file cannot be opened, or the store is unreadable or unwritable:
\* the call throws, after its finally.
Fails(w) ==
  /\ pc[w] \in {"open", "read", "write", "verify"}
  /\ IF job[w].locked
     THEN Goto(w, "check") /\ job' = [job EXCEPT ![w] = [@ EXCEPT !.failed = TRUE, !.snap = None]]
     ELSE Finish(w)
  /\ UNCHANGED <<store, lock, disturbed>>

\* Only a first, successful publication is verified.
Released(w) ==
  IF job[w].failed \/ job[w].repair \/ job[w].op = "remove"
  THEN Finish(w)
  ELSE Goto(w, "verify") /\ job' = [job EXCEPT ![w].locked = FALSE]

\* release(): first the token is compared ...
Check(w) ==
  /\ At(w, "check")
  /\ IF lock # None /\ lock.by = w
     THEN Goto(w, "unlink") /\ UNCHANGED job
     ELSE Released(w)
  /\ UNCHANGED <<store, lock, disturbed>>

\* ... then the file of that name is removed.
Unlink(w) ==
  /\ At(w, "unlink")
  /\ lock' = None
  /\ Released(w)
  /\ UNCHANGED <<store, disturbed>>

\* The mapping is looked for and, once, published again.
Verify(w) ==
  /\ At(w, "verify")
  /\ IF store[job[w].slug] = w \/ job[w].repair
     THEN Finish(w)
     ELSE /\ Goto(w, "open")
          /\ job' = [job EXCEPT ![w] =
                [@ EXCEPT !.repair = TRUE, !.tries = 0, !.again = FALSE]]
  /\ UNCHANGED <<store, lock, disturbed>>

\* The process dies; its lock file stays.
Crash(w) ==
  /\ Alive(w)
  /\ Cardinality({x \in Writer : ~Alive(x)}) < MaxCrashes
  /\ Goto(w, "dead")
  /\ job' = [job EXCEPT ![w] = None]
  /\ UNCHANGED <<store, lock, disturbed>>

Step(w) ==
  \/ Create(w) \/ Stamp(w) \/ Exists(w) \/ Peek(w) \/ Recheck(w) \/ Reclaim(w)
  \/ Throws(w) \/ Retries(w) \/ Degrades(w)
  \/ Read(w) \/ Write(w) \/ Check(w) \/ Unlink(w) \/ Verify(w)

Next ==
  \E w \in Writer :
    \/ \E op \in {"publish", "remove"}, s \in Slug : Start(w, op, s)
    \/ Step(w) \/ Fails(w) \/ Crash(w)

Spec == Init /\ [][Next]_vars

\* The code is synchronous: it goes on until it returns, throws or dies.
Fairness == \A w \in Writer : WF_vars(Step(w))

FairSpec == Spec /\ Fairness

-----------------------------------------------------------------------------
(* The inductive invariant.                                                *)

Locked(w) == job[w] # None /\ job[w].locked

\* A writer inside a call has a job; the lock is taken exactly inside the
\* guarded section, which a publisher that does without enters for reading and
\* writing only.
JobInv ==
  \A w \in Writer :
    /\ job[w] = None <=> pc[w] \in {"idle", "done", "dead"}
    /\ Locked(w) => pc[w] \in Guarded
    /\ pc[w] \in Guarded /\ ~job[w].locked =>
         disturbed /\ pc[w] \in {"read", "write"}
    /\ pc[w] = "write" => job[w].snap # None

\* Who is about to reclaim has seen the lock of a dead writer.
SeenInv ==
  \A w \in Writer :
    pc[w] \in {"recheck", "reclaim"} =>
      job[w].seen # None /\ ~Alive(job[w].seen.by)

\* Undisturbed, the lock file is that of the writer that believes to hold it.
OwnerInv ==
  ~disturbed => \A w \in Writer : Locked(w) => lock # None /\ lock.by = w

\* Undisturbed, what the holder has read is what is still there.
SnapInv ==
  ~disturbed => \A w \in Writer :
    Locked(w) /\ pc[w] = "write" => job[w].snap = store

(***************************************************************************)
(* Through failing files, crashes and reclaimed locks the lock has one     *)
(* owner and its read-modify-write is atomic, until somebody writes        *)
(* without it or reclaims a lock that was not the one it examined          *)
(* (coder-lock.js lines 44-122).                                           *)
(***************************************************************************)
StoreInv == TypeOK /\ JobInv /\ SeenInv /\ OwnerInv /\ SnapInv

Mapping == INSTANCE MappingStore WITH Id <- Writer, map <- store

\* Publications and removals of different processes are updates of single
\* slugs as long as the store is undisturbed (coder.js lines 4016-4095).
MappingSpec == Mapping!Spec

\* Every publication and removal ends, even at a lock file that a crash left
\* behind without its token (coder.js lines 3993-4015: bounded backoff).
EveryWriterEnds ==
  \A w \in Writer : pc[w] = "open" ~> pc[w] \in {"done", "dead"}

\* "every engine's writer within THIS project serializes on the same file"
\* (coder.js line 3971): two writers never have the lock at once.  Fails: the
\* dead owner's lock that a reclaimer checked may have been replaced by a live
\* one before the reclaimer's rmSync.
LockedWritersSerialize ==
  \A v, w \in Writer :
    v # w /\ Locked(v) /\ Locked(w) => ~({pc[v], pc[w]} \subseteq {"read", "write"})
=============================================================================
