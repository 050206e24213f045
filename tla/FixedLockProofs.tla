-------------------------- MODULE FixedLockProofs --------------------------
(***************************************************************************)
(* What FixedLock promises for every set of processes and handles and any  *)
(* number of I/O failures and crashes.  LockInv is inductive; both kinds   *)
(* of exclusion follow from its parts.                                     *)
(***************************************************************************)
EXTENDS FixedLock, TLAPS

USE OwnerAssumption, DigitsAssumption, NoOneAssumption, FaultAssumption

\* Nothing runs, nothing is registered and the lock file is empty at the
\* start, so every part of LockInv holds (rwStateFor, lines 61-68).
LEMMA LockInvInit == Init => LockInv
  BY DEF Init, LockInv, TypeOK, DeadInv, MutexInv, ModeInv, WriterInv,
     ActiveInv, ReaderInv, EntryInv, MarkerInv, States, Acquiring, Owning,
     Releasing, Section, InMutex, Admissible

\* Every step of acquire and release, every failure and every crash keeps the
\* registry, the mutex, the marker and the progress of the handles in accord.
LEMMA LockInvStep == LockInv /\ [Next]_vars => LockInv'
<1> SUFFICES ASSUME LockInv, [Next]_vars PROVE LockInv'
  OBVIOUS
<1> USE DEF LockInv, TypeOK, DeadInv, MutexInv, ModeInv, WriterInv, ActiveInv,
            ReaderInv, EntryInv, MarkerInv, States, Acquiring, Owning,
            Releasing, Section, InMutex, Admissible
<1>1. ASSUME NEW h \in Handle, NEW m \in {"shared", "exclusive"}, Begin(h, m)
      PROVE  LockInv'
  BY <1>1 DEF Begin, Goto
<1>2. ASSUME NEW h \in Handle, Step(h) PROVE LockInv'
  <2>1. CASE EnterBusy(h) BY <2>1 DEF EnterBusy, Goto
  <2>2. CASE EnterRead(h) BY <2>2 DEF EnterRead, Lock, Goto
  <2>3. CASE ReadHeld(h) BY <2>3 DEF ReadHeld, Unlock, Goto
  <2>4. CASE ReadFreeShared(h) BY <2>4 DEF ReadFreeShared, Unlock, Goto
  <2>5. CASE ReadFreeExclusive(h)
    BY <2>5 DEF ReadFreeExclusive, MarkerHeld, Registered, Overlap, Goto
  <2>6. CASE Truncate(h) BY <2>6 DEF Truncate, Goto
  <2>7. CASE Write(h) BY <2>7 DEF Write, Uncovered, Goto
  <2>8. CASE Sync(h) BY <2>8 DEF Sync, Unlock, Goto
  <2>9. CASE Register(h) BY <2>9 DEF Register, Goto
  <2>10. CASE Wake(h) BY <2>10 DEF Wake, Goto
  <2>11. CASE RelShared(h) BY <2>11 DEF RelShared, Goto
  <2>12. CASE RelEnter(h) BY <2>12 DEF RelEnter, Lock, Goto
  <2>13. CASE RelReadOwn(h) BY <2>13 DEF RelReadOwn, Registered, Overlap, Goto
  <2>14. CASE RelReadOther(h) BY <2>14 DEF RelReadOther, Registered, Forget, Unlock, Goto
  <2>15. CASE RelTruncate(h) BY <2>15 DEF RelTruncate, Goto
  <2>16. CASE RelSync(h) BY <2>16 DEF RelSync, Forget, Unlock, Goto
  <2>17. CASE CloseFd(h) BY <2>17 DEF CloseFd, Goto
  <2> QED
    BY <1>2, <2>1, <2>2, <2>3, <2>4, <2>5, <2>6, <2>7, <2>8, <2>9, <2>10,
       <2>11, <2>12, <2>13, <2>14, <2>15, <2>16, <2>17 DEF Step
<1>3. ASSUME NEW h \in Handle, Abort(h) PROVE LockInv' BY <1>3 DEF Abort, Goto
<1>4. ASSUME NEW h \in Handle, Release(h) PROVE LockInv' BY <1>4 DEF Release, Goto
<1>5. ASSUME NEW h \in Handle, IOFails(h) PROVE LockInv'
  BY <1>5 DEF IOFails, Unlock, Goto
<1>6. ASSUME NEW p \in Process, Crash(p) PROVE LockInv' BY <1>6 DEF Crash
<1>7. CASE UNCHANGED vars BY <1>7 DEF vars
<1> QED BY <1>1, <1>2, <1>3, <1>4, <1>5, <1>6, <1>7 DEF Next

\* The registry, the mutex, the marker and the handles agree in every
\* reachable state; TypeOK, the type invariant, is its first conjunct.
THEOREM LockInvariant == Spec => []LockInv
  BY LockInvInit, LockInvStep, PTL DEF Spec

\* Type correctness of the lock's state.
THEOREM TypeCorrect == Spec => []TypeOK
<1>1. LockInv => TypeOK
  BY DEF LockInv
<1> QED BY LockInvariant, <1>1, PTL

\* An exclusive holder is alone in its process: it is state.writer, which is
\* one handle, and with a writer there are no readers (lines 239-262).
THEOREM InProcess == Spec => []InProcessExclusion
<1>1. LockInv => InProcessExclusion
  <2> SUFFICES ASSUME LockInv, NEW g \in Handle, NEW h \in Handle,
                      Owner[g] = Owner[h], Holds(g), Holds(h),
                      mode[h] = "exclusive"
               PROVE  g = h
    BY DEF InProcessExclusion
  <2>1. writer[Owner[h]] = h /\ readers[Owner[h]] = {}
    BY DEF LockInv, WriterInv, EntryInv, Holds, Owning
  <2>2. CASE mode[g] = "exclusive"
    BY <2>1, <2>2 DEF LockInv, WriterInv, Holds, Owning
  <2>3. CASE mode[g] = "shared"
    BY <2>1, <2>3 DEF LockInv, ReaderInv, Holds, Owning
  <2> QED BY <2>2, <2>3 DEF LockInv, TypeOK
<1> QED BY LockInvariant, <1>1, PTL

\* Two exclusive holders of different processes that both went through
\* undisturbed would both find their own nonce in the one marker.
THEOREM Undisturbed == Spec => []UndisturbedExclusion
<1>1. LockInv => UndisturbedExclusion
  <2> SUFFICES ASSUME LockInv, NEW g \in Handle, NEW h \in Handle,
                      Owner[g] # Owner[h], Holds(g), Holds(h),
                      mode[g] = "exclusive", mode[h] = "exclusive",
                      g \notin raced, h \notin raced
               PROVE  FALSE
    BY DEF UndisturbedExclusion
  <2>1. marker = g /\ marker = h
    BY DEF LockInv, MarkerInv, Holds
  <2> QED BY <2>1
<1> QED BY LockInvariant, <1>1, PTL
=============================================================================
