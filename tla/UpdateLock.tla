----------------------------- MODULE UpdateLock -----------------------------
(***************************************************************************)
(* The update lock: a file published by a hard link of a payload written   *)
(* aside in an owner container, and broken, when its owner is dead, under  *)
(* the hard link <lock>.break-link.  Three tools follow this protocol:     *)
(* triss update (src/src/update/install.js) and the installer              *)
(* (src/scripts/standalone-bootstrap.js) on the lock of the standalone     *)
(* root, the update notices (src/src/update/cache.js) on that of the       *)
(* cache.  A file is the inode it was created with; the owner an inode     *)
(* names is Dead once its process has ended.                               *)
(***************************************************************************)
EXTENDS Naturals, FiniteSets

CONSTANTS Locker,     \* processes
          Dead,
          MaxInode    \* bound: payloads written, the stale one included

ASSUME LockerAssumption == Dead \notin Locker
ASSUME MaxInodeAssumption == MaxInode \in Nat \ {0}

Tool == {"install", "bootstrap", "cache"}
Inode == 1..MaxInode
NoFile == 0

VARIABLES
  tool,        \* which of the three programs a process is
  lockFile,    \* inode of the lock, or NoFile
  breakLink,   \* inode of the alias
  containers,  \* inodes whose owner container exists
  payloads,    \* ... with the payload in it
  nextInode,
  ownerOf,     \* inode -> its process, or Dead
  locker,      \* process -> [at, mine, read, seen, won]
  aliasOf,     \* history: the process that made the alias, or Dead
  robbed       \* history: an alias was removed while its maker was at its claim

lockVars == <<tool, lockFile, breakLink, containers, payloads, nextInode, ownerOf, locker, aliasOf, robbed>>

LockerAt == {"idle", "clean", "unalias stale", "mark", "fill", "link", "unmark", "probe", "stat",
             "claim", "contend", "drop", "check", "remove", "unalias", "unalias again",
             "hold", "leave", "unlock"}
NoLocker == [at |-> "idle", mine |-> NoFile, read |-> NoFile, seen |-> NoFile, won |-> FALSE]

LockTypeOK ==
  /\ tool \in [Locker -> Tool]
  /\ lockFile \in Inode \cup {NoFile} /\ breakLink \in Inode \cup {NoFile}
  /\ payloads \subseteq containers /\ containers \subseteq Inode
  /\ nextInode \in 1..(MaxInode + 1)
  /\ ownerOf \in [Inode -> Locker \cup {Dead}]
  /\ locker \in [Locker -> [at : LockerAt, mine : Inode \cup {NoFile}, read : Inode \cup {NoFile},
                            seen : Inode \cup {NoFile}, won : BOOLEAN]]

\* A first process may have died holding the lock, or in the middle of breaking one.
LockInit ==
  /\ tool \in [Locker -> {"install", "bootstrap"}] \cup [Locker -> {"cache"}]
  /\ lockFile \in {NoFile, 1} /\ breakLink \in {NoFile, 1}
  /\ containers = {} /\ payloads = {}
  /\ nextInode = 2
  /\ ownerOf = [i \in Inode |-> Dead]
  /\ locker = [p \in Locker |-> NoLocker]
  /\ aliasOf = Dead /\ robbed = FALSE

LockerIs(p, s) == locker[p].at = s
LockerGoes(p, s) == locker' = [locker EXCEPT ![p].at = s]
SameFiles == UNCHANGED <<lockFile, breakLink, containers, payloads, nextInode, aliasOf, robbed>>

\* The process ends, with or without the lock: what it published is a dead process's.
LockerEnds(p) ==
  /\ locker' = [locker EXCEPT ![p] = NoLocker]
  /\ ownerOf' = [i \in Inode |-> IF ownerOf[i] = p THEN Dead ELSE ownerOf[i]]

\* acquireUpdateLock of the cache and acquireLock of the installer try again.
TriesAgain(p) ==
  IF nextInode \in Inode THEN LockerGoes(p, "mark") /\ UNCHANGED ownerOf ELSE LockerEnds(p)

-----------------------------------------------------------------------------
(* Leftovers of dead processes                                             *)

\* A container may go if the lock is its payload, or its owner is dead.
Removable(i) == (i \in payloads /\ lockFile = i) \/ ownerOf[i] = Dead

StartLocking(p) ==
  /\ LockerIs(p, "idle") /\ nextInode \in Inode
  /\ LockerGoes(p, "clean")
  /\ UNCHANGED <<tool, ownerOf>> /\ SameFiles

\* cleanup...LockPublicationAlias: all of the containers or, if one is in doubt, none.
CleanPublications(p) ==
  /\ LockerIs(p, "clean")
  /\ IF \A i \in containers : Removable(i)
     THEN /\ containers' = {} /\ payloads' = {}
          /\ LockerGoes(p, "unalias stale") /\ UNCHANGED ownerOf
     ELSE LockerEnds(p) /\ UNCHANGED <<containers, payloads>>
  /\ UNCHANGED <<tool, lockFile, breakLink, nextInode, aliasOf, robbed>>

AliasRemoved ==
  /\ breakLink' = NoFile
  /\ aliasOf' = Dead
  /\ robbed' = (robbed \/ (aliasOf # Dead /\ locker[aliasOf].at \in {"check", "remove"}))

\* cleanup...LockBreakAlias: an alias of the present lock is left to the claim, by the installer
\* removed; one without a lock goes if its owner is dead.
CleanBreakLink(p) ==
  LET goesOn == nextInode \in Inode
      doubtful == IF lockFile # NoFile THEN breakLink # lockFile ELSE ownerOf[breakLink] # Dead IN
  /\ LockerIs(p, "unalias stale")
  /\ IF (breakLink # NoFile /\ doubtful) \/ ~goesOn
     THEN LockerEnds(p) /\ UNCHANGED <<breakLink, aliasOf, robbed>>
     ELSE /\ LockerGoes(p, "mark") /\ UNCHANGED ownerOf
          /\ IF breakLink # NoFile /\ (lockFile = NoFile \/ tool[p] = "bootstrap")
             THEN AliasRemoved ELSE UNCHANGED <<breakLink, aliasOf, robbed>>
  /\ UNCHANGED <<tool, lockFile, containers, payloads, nextInode>>

-----------------------------------------------------------------------------
(* Publication                                                             *)

MarkPublication(p) ==
  /\ LockerIs(p, "mark") /\ nextInode \in Inode
  /\ containers' = containers \cup {nextInode}
  /\ ownerOf' = [ownerOf EXCEPT ![nextInode] = p]
  /\ nextInode' = nextInode + 1
  /\ locker' = [locker EXCEPT ![p].at = "fill", ![p].mine = nextInode]
  /\ UNCHANGED <<tool, lockFile, breakLink, payloads, aliasOf, robbed>>

FillPayload(p) ==
  /\ LockerIs(p, "fill")
  /\ payloads' = payloads \cup {locker[p].mine}
  /\ LockerGoes(p, "link")
  /\ UNCHANGED <<tool, lockFile, breakLink, containers, nextInode, ownerOf, aliasOf, robbed>>

\* link(2) fails when there is a lock.
LinkPayload(p) ==
  /\ LockerIs(p, "link")
  /\ lockFile' = IF lockFile = NoFile THEN locker[p].mine ELSE lockFile
  /\ locker' = [locker EXCEPT ![p].at = "unmark", ![p].won = lockFile = NoFile]
  /\ UNCHANGED <<tool, breakLink, containers, payloads, nextInode, ownerOf, aliasOf, robbed>>

\* The finally clause; a process that failed goes on to look at the lock.
Unmark(p) ==
  /\ LockerIs(p, "unmark")
  /\ containers' = containers \ {locker[p].mine}
  /\ payloads' = payloads \ {locker[p].mine}
  /\ LockerGoes(p, IF locker[p].won THEN "hold" ELSE "probe")
  /\ UNCHANGED <<tool, lockFile, breakLink, nextInode, ownerOf, aliasOf, robbed>>

IsStale == IF lockFile = NoFile THEN FALSE ELSE ownerOf[lockFile] = Dead

\* Only a dead owner's lock is claimed; triss update also wants --break-lock, without which it ends,
\* and claims once.
ProbeOwner(p) ==
  /\ LockerIs(p, "probe")
  /\ \/ /\ IsStale
        /\ tool[p] = "install" => locker[p].seen = NoFile
        /\ locker' = [locker EXCEPT ![p].at = "stat", ![p].read = lockFile]
        /\ UNCHANGED ownerOf
     \/ /\ ~IsStale \/ tool[p] = "install"
        /\ LockerEnds(p)
     \/ /\ ~IsStale /\ tool[p] = "cache"
        /\ TriesAgain(p)
  /\ UNCHANGED tool /\ SameFiles

-----------------------------------------------------------------------------
(* claimStaleInstallLock, claimStaleCacheLock, the loop of acquireLock     *)

\* `return false`: triss update gives up, the others may go round again.
ClaimFails(p) == \/ (tool[p] # "bootstrap" /\ LockerEnds(p))
                 \/ (tool[p] # "install" /\ TriesAgain(p))

StatLock(p) ==
  /\ LockerIs(p, "stat")
  /\ IF lockFile = NoFile THEN ClaimFails(p)
     ELSE locker' = [locker EXCEPT ![p].at = "claim", ![p].seen = lockFile] /\ UNCHANGED ownerOf
  /\ UNCHANGED tool /\ SameFiles

LinkAlias(p) ==
  /\ LockerIs(p, "claim")
  /\ CASE lockFile = NoFile -> ClaimFails(p) /\ UNCHANGED <<breakLink, aliasOf>>
       [] lockFile # NoFile /\ breakLink # NoFile ->
            LockerGoes(p, "contend") /\ UNCHANGED <<ownerOf, breakLink, aliasOf>>
       [] OTHER -> /\ breakLink' = lockFile /\ aliasOf' = p
                   /\ LockerGoes(p, "check") /\ UNCHANGED ownerOf
  /\ UNCHANGED <<tool, lockFile, containers, payloads, nextInode, robbed>>

\* The alias exists: if it is one of the same stale lock it is dropped, if not it is somebody's.
\* The installer drops either.
Contend(p) ==
  LET same == breakLink = lockFile /\ lockFile = locker[p].read IN
  /\ LockerIs(p, "contend")
  /\ CASE tool[p] = "bootstrap" -> LockerGoes(p, "drop") /\ UNCHANGED ownerOf
       [] tool[p] # "bootstrap" /\ NoFile \in {breakLink, lockFile} -> ClaimFails(p)
       [] OTHER -> IF same THEN LockerGoes(p, "drop") /\ UNCHANGED ownerOf ELSE LockerEnds(p)
  /\ UNCHANGED tool /\ SameFiles

DropAlias(p) ==
  /\ LockerIs(p, "drop")
  /\ AliasRemoved
  /\ ClaimFails(p)
  /\ UNCHANGED <<tool, lockFile, containers, payloads, nextInode>>

\* A bug: the link alone is taken for the claim.
ClaimUnchecked(p) ==
  /\ LockerIs(p, "check")
  /\ LockerGoes(p, "remove")
  /\ UNCHANGED <<tool, ownerOf>> /\ SameFiles

\* The lock and the alias must still be the inode that was inspected.
CheckClaim(p) ==
  LET k == locker[p] IN
  /\ LockerIs(p, "check")
  /\ IF {lockFile, breakLink, k.read} = {k.seen}
     THEN LockerGoes(p, "remove")
     ELSE locker' = [locker EXCEPT ![p].at = "unalias", ![p].won = FALSE]
  /\ UNCHANGED <<tool, ownerOf>> /\ SameFiles

\* unlink goes by name.
RemoveStale(p) ==
  /\ LockerIs(p, "remove")
  /\ lockFile' = NoFile
  /\ locker' = [locker EXCEPT ![p].at = "unalias", ![p].won = lockFile # NoFile]
  /\ UNCHANGED <<tool, breakLink, containers, payloads, nextInode, ownerOf, aliasOf, robbed>>

Unalias(p) ==
  /\ LockerIs(p, "unalias")
  /\ AliasRemoved
  /\ LockerGoes(p, "unalias again")
  /\ UNCHANGED <<tool, lockFile, containers, payloads, nextInode, ownerOf>>

\* The finally clause repeats it; then the lock is created, or the claim has failed.
UnaliasAgain(p) ==
  /\ LockerIs(p, "unalias again")
  /\ AliasRemoved
  /\ IF locker[p].won THEN TriesAgain(p) ELSE ClaimFails(p)
  /\ UNCHANGED <<tool, lockFile, containers, payloads, nextInode>>

-----------------------------------------------------------------------------
(* Release, and the death of a process                                     *)

StartRelease(p) ==
  /\ LockerIs(p, "hold")
  /\ LockerGoes(p, "leave")
  /\ UNCHANGED <<tool, ownerOf>> /\ SameFiles

ReadOwnNonce(p) ==
  /\ LockerIs(p, "leave")
  /\ IF lockFile = locker[p].mine THEN LockerGoes(p, "unlock") /\ UNCHANGED ownerOf ELSE LockerEnds(p)
  /\ UNCHANGED tool /\ SameFiles

Unlock(p) ==
  /\ LockerIs(p, "unlock")
  /\ lockFile' = NoFile
  /\ LockerEnds(p)
  /\ UNCHANGED <<tool, breakLink, containers, payloads, nextInode, aliasOf, robbed>>

LockerDies(p) ==
  /\ ~LockerIs(p, "idle")
  /\ LockerEnds(p)
  /\ UNCHANGED tool /\ SameFiles

LockStep(p) ==
  \/ StartLocking(p) \/ CleanPublications(p) \/ CleanBreakLink(p)
  \/ MarkPublication(p) \/ FillPayload(p) \/ LinkPayload(p) \/ Unmark(p) \/ ProbeOwner(p)
  \/ StatLock(p) \/ LinkAlias(p) \/ Contend(p) \/ DropAlias(p) \/ CheckClaim(p)
  \/ RemoveStale(p) \/ Unalias(p) \/ UnaliasAgain(p)
  \/ StartRelease(p) \/ ReadOwnNonce(p) \/ Unlock(p)

LockNext == \E p \in Locker : LockStep(p) \/ LockerDies(p)

LockSpec == LockInit /\ [][LockNext]_lockVars

-----------------------------------------------------------------------------
(* Properties                                                              *)

Holds(p) == \/ LockerIs(p, "unmark") /\ locker[p].won
            \/ locker[p].at \in {"hold", "leave", "unlock"}
Holders == {p \in Locker : Holds(p)}

\* "The alias pins the inode being inspected, making a replacement lock harmless"
\* (install.js): whoever breaks a stale lock, one process at a time holds the lock.
OneUpdater == Cardinality(Holders) <= 1

\* What does hold: two processes hold the lock, or a holder has lost its file, only after a
\* breaker's alias was removed by another process before the breaker had removed the lock.
ExclusiveUnlessRobbed ==
  robbed \/ /\ Cardinality(Holders) <= 1
            /\ \A p \in Holders : lockFile = locker[p].mine

UpdateLockInv == LockTypeOK /\ ExclusiveUnlessRobbed
=============================================================================
