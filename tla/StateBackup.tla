---------------------------- MODULE StateBackup ----------------------------
(***************************************************************************)
(* `triss coder state backup` (src/src/coder-state-backup.js) beside runs, *)
(* cleans and resets of other processes.  The state is three files: the    *)
(* session inventory, the session store and the project's identity; one    *)
(* session stands for the rows.  The exclusive maintenance lock of the     *)
(* backup does not see shared holders of other processes that were there   *)
(* first; slot leases and two equal readings have to make up for it.       *)
(***************************************************************************)
EXTENDS Naturals, FiniteSets

CONSTANTS Writer,            \* other processes' operations, one each
          SnapshotAttempts,  \* 5
          MaxBackups,        \* bound: backups into the same directory
          Gone               \* a file that is not there

File == {"inventory", "identity", "store"}
RowState == {"none", "running", "idle", "deleting"}

VARIABLES
  files,      \* the three files
  stamps,     \* history counter: how often the inventory was written
  writer,     \* where each writer is
  slotOf,     \* who holds the session's slot lease: a writer, "backup" or "none"
  backup,     \* the running backup
  kept,       \* the backup directory: copies, manifest, what its marker hashes
  moments,    \* history: every state the files have been in
  attempts    \* backups begun

backupVars == <<files, stamps, writer, slotOf, backup, kept, moments, attempts>>

\* The readings of a snapshot in their order, and the copying in its own.
Readings == {"read inventory", "read store", "read identity", "read rows"}
Copies == {"copy inventory", "copy identity", "copy store"}

\* An inventory carries the time of its writing; the store carries none.
Inventory == [row : RowState, at : Nat, project : Nat \cup {Gone}]
BackupFiles == [inventory : Inventory \cup {Gone}, identity : Nat \cup {Gone}, store : BOOLEAN \cup {Gone}]
Nothing == [inventory |-> Gone, identity |-> Gone, store |-> Gone]
Unread == [files |-> Nothing, rows |-> Gone]   \* rows: the inventory, read again

NoBackup == [at |-> "idle", again |-> FALSE, first |-> Unread, second |-> Unread, tries |-> 0, project |-> Gone]

ASSUME BackupAssumption ==
  /\ SnapshotAttempts \in Nat \ {0} /\ MaxBackups \in Nat /\ {"backup", "none"} \cap Writer = {}
  /\ Gone \notin Nat /\ Gone \notin BOOLEAN /\ Gone \notin Inventory /\ Gone \notin BackupFiles

BackupTypeOK ==
  /\ writer \in [Writer -> [does : {"run", "clean", "reset"},
                            at : {"idle", "admitted", "slot", "row", "mapped", "unfiled", "identity", "end"}]]
  /\ slotOf \in Writer \cup {"backup", "none"}
  /\ backup.at \in {"idle", "lease", "compare", "gate", "check", "manifest", "marker"}
                  \cup Readings \cup Copies
  /\ backup.tries \in 0..SnapshotAttempts
  /\ DOMAIN files = File /\ DOMAIN kept.copies = File
  /\ attempts \in 0..MaxBackups

BackupInit ==
  /\ \E r \in {"none", "idle"} :
       files = [inventory |-> [row |-> r, at |-> 0, project |-> 0], identity |-> 0,
                store |-> (r = "idle")]
  /\ stamps = 0
  /\ writer \in [Writer -> {[does |-> d, at |-> "idle"] : d \in {"run", "clean", "reset"}}]
  /\ slotOf = "none"
  /\ backup = NoBackup
  /\ kept \in {[copies |-> files, manifest |-> files, marker |-> files],   \* an earlier backup
              [copies |-> Nothing, manifest |-> Gone, marker |-> Gone]}
  /\ moments = {files}
  /\ attempts = 0

-----------------------------------------------------------------------------
(* classifyRowMappingConsistency over one reading of the files.            *)

Consistent(s) ==
  LET row == IF s.inventory = Gone THEN "none" ELSE s.inventory.row
      mapped == s.store # Gone /\ s.store
  IN  /\ row # "none" => s.identity # Gone /\ s.identity = s.inventory.project
      /\ mapped <=> row \in {"running", "idle"}

\* The exclusive lock is held from before the first reading to the end.
MaintenanceHeld == backup.at # "idle"

WriterAt(w, s) == writer[w].at = s
WriterGoes(w, s) == writer' = [writer EXCEPT ![w].at = s]
Publish(s) == files' = s /\ moments' = moments \cup {s}
NoFileChange == UNCHANGED <<files, moments, stamps>>
Row == IF files.inventory = Gone THEN "none" ELSE files.inventory.row
PutRow(r) ==
  /\ stamps' = stamps + 1
  /\ Publish([files EXCEPT !.inventory = [row |-> r, at |-> stamps + 1, project |-> files.identity]])
NewIdentity ==
  /\ stamps' = stamps + 1
  /\ Publish([files EXCEPT !.identity = stamps + 1])
NotBackup == UNCHANGED <<backup, kept, attempts>>

-----------------------------------------------------------------------------
(* Writers in other processes: src/src/commands/coder.js. *)

\* Shared maintenance is refused while a marker of an exclusive holder stands.
WriterAdmitted(w) ==
  /\ WriterAt(w, "idle") /\ writer[w].does # "reset"
  /\ ~MaintenanceHeld
  /\ files.identity # Gone
  /\ WriterGoes(w, "admitted")
  /\ NoFileChange /\ NotBackup /\ UNCHANGED slotOf

WriterTakesSlot(w) ==
  /\ WriterAt(w, "admitted")
  /\ slotOf = "none"
  /\ IF writer[w].does = "run" THEN Row \in {"none", "idle"} ELSE Row = "idle"
  /\ slotOf' = w
  /\ WriterGoes(w, "slot")
  /\ NoFileChange /\ NotBackup

\* A run's row becomes running, a clean's deleting.
WriterClaimsRow(w) ==
  /\ WriterAt(w, "slot") /\ files.identity # Gone
  /\ PutRow(IF writer[w].does = "run" THEN "running" ELSE "deleting")
  /\ WriterGoes(w, "row")
  /\ NotBackup /\ UNCHANGED slotOf

WriterMaps(w) ==
  /\ WriterAt(w, "row")
  /\ Publish([files EXCEPT !.store = (writer[w].does = "run")])
  /\ WriterGoes(w, "mapped")
  /\ UNCHANGED <<stamps, slotOf>> /\ NotBackup

WriterFinishesRow(w) ==
  /\ WriterAt(w, "mapped") /\ files.identity # Gone
  /\ PutRow(IF writer[w].does = "run" THEN "idle" ELSE "none")
  /\ slotOf' = "none"
  /\ WriterGoes(w, "end")
  /\ NotBackup

\* state reset takes no lock: directories, then the store, then the identity.
ResetInventory(w) ==
  /\ writer[w] = [does |-> "reset", at |-> "idle"]
  /\ Publish([files EXCEPT !.inventory = Gone])
  /\ WriterGoes(w, "unfiled")
  /\ UNCHANGED <<stamps, slotOf>> /\ NotBackup

ResetStore(w) ==
  /\ writer[w] = [does |-> "reset", at |-> "unfiled"]
  /\ Publish([files EXCEPT !.store = Gone])
  /\ WriterGoes(w, "identity")
  /\ UNCHANGED <<stamps, slotOf>> /\ NotBackup

ResetIdentity(w) ==
  /\ WriterAt(w, "identity")
  /\ IF files.identity = Gone
     THEN NewIdentity /\ WriterGoes(w, "end")
     ELSE Publish([files EXCEPT !.identity = Gone]) /\ UNCHANGED <<stamps, writer>>
  /\ UNCHANGED slotOf /\ NotBackup

\* A writer dies where it is; the kernel frees its lease.
WriterDies(w) ==
  /\ writer[w].at \notin {"idle", "end"}
  /\ slotOf' = IF slotOf = w THEN "none" ELSE slotOf
  /\ WriterGoes(w, "end")
  /\ NoFileChange /\ NotBackup

-----------------------------------------------------------------------------
(* backupCoderV2State *)

BackupGoes(s) == backup' = [backup EXCEPT !.at = s]
BackupOnly == UNCHANGED <<writer, attempts>> /\ NoFileChange
ReleaseLeases == slotOf' = IF slotOf = "backup" THEN "none" ELSE slotOf

\* Any failure, and any death of the process: the locks are given up, what
\* was copied stays.
BackupFails ==
  /\ backup.at # "idle"
  /\ backup' = NoBackup
  /\ ReleaseLeases
  /\ UNCHANGED kept /\ BackupOnly

\* The command loads the identity, or creates it, and takes the lock.
BackupStart ==
  /\ backup.at = "idle" /\ attempts < MaxBackups
  /\ attempts' = attempts + 1
  /\ IF files.identity = Gone THEN NewIdentity ELSE NoFileChange
  /\ backup' = [NoBackup EXCEPT !.at = "read inventory", !.tries = 1, !.project = files'.identity]
  /\ UNCHANGED <<writer, slotOf, kept>>

\* One file after the other; the second time around into the second snapshot.
ReadFile ==
  LET next == [r \in Readings |->
        CASE r = "read inventory" -> "read store" [] r = "read store" -> "read identity"
          [] r = "read identity" -> "read rows" [] OTHER -> "lease"]
      f == CASE backup.at = "read inventory" -> "inventory" [] backup.at = "read store" -> "store"
             [] OTHER -> "identity"
      seen == IF backup.at = "read rows" THEN [backup.second EXCEPT !.rows = files.inventory]
              ELSE [backup.second EXCEPT !.files[f] = files[f]]
  IN /\ backup.at \in Readings
     /\ backup' = [backup EXCEPT !.second = seen,
          !.at = IF next[backup.at] = "lease" /\ backup.again THEN "compare" ELSE next[backup.at]]
     /\ UNCHANGED <<slotOf, kept>> /\ BackupOnly

Live(i) == i # Gone /\ i.row \in {"running", "deleting"}

\* The slots of live rows; one that is held by a run is busy, the backup fails.
TakeLeases ==
  LET seen == backup.second IN
  /\ backup.at = "lease"
  /\ Live(seen.rows) => slotOf = "none"
  /\ slotOf' = IF Live(seen.rows) THEN "backup" ELSE slotOf
  /\ backup' = [backup EXCEPT !.at = "read inventory", !.again = TRUE, !.first = seen, !.second = Unread]
  /\ UNCHANGED kept /\ BackupOnly

\* Unequal: give the leases back and start again, for a bounded time.
Compare ==
  /\ backup.at = "compare"
  /\ IF backup.first = backup.second
     THEN BackupGoes("gate") /\ UNCHANGED slotOf
     ELSE /\ backup.tries < SnapshotAttempts
          /\ backup.first.rows # Gone => backup.second.rows # Gone
          /\ ReleaseLeases
          /\ backup' = [backup EXCEPT !.at = "read inventory", !.again = FALSE, !.tries = @ + 1,
                                      !.first = Unread, !.second = Unread]
  /\ UNCHANGED kept /\ BackupOnly

\* The first gate reads the source once more.
SourceAgrees == Consistent(files) /\ files.identity = backup.project

SourceGate ==
  /\ backup.at = "gate"
  /\ SourceAgrees
  /\ BackupGoes("copy inventory")
  /\ UNCHANGED <<slotOf, kept>> /\ BackupOnly

CopyInto(f) ==
  kept' = IF backup.second.files[f] = Gone THEN kept
          ELSE [kept EXCEPT !.copies[f] = files[f]]

\* A bug: the copy is not compared with the hash in the manifest.
CopyUnverified ==
  LET f == CASE backup.at = "copy inventory" -> "inventory"
             [] backup.at = "copy identity" -> "identity" [] OTHER -> "store"
  IN /\ backup.at \in Copies
     /\ backup.second.files[f] # Gone => files[f] # Gone
     /\ CopyInto(f)
     /\ BackupGoes(CASE f = "inventory" -> "copy identity" [] f = "identity" -> "copy store"
                     [] OTHER -> "check")
     /\ UNCHANGED slotOf /\ BackupOnly

\* A listed file is copied as it is by now, and its hash has to be the listed
\* one; a copy that is wrong stays where it is, and the backup fails.
CopyFile ==
  LET f == CASE backup.at = "copy inventory" -> "inventory"
             [] backup.at = "copy identity" -> "identity" [] OTHER -> "store"
  IN /\ backup.at \in Copies
     /\ backup.second.files[f] # Gone => files[f] # Gone
     /\ CopyInto(f)
     /\ IF backup.second.files[f] \in {Gone, files[f]}
        THEN /\ BackupGoes(CASE f = "inventory" -> "copy identity"
                             [] f = "identity" -> "copy store" [] OTHER -> "check")
             /\ UNCHANGED slotOf
        ELSE /\ backup' = NoBackup
             /\ ReleaseLeases
     /\ BackupOnly

\* No file beside the listed ones, and the second gate, over the copies.
CopiesAreListed == \A f \in File : kept.copies[f] = Gone <=> backup.second.files[f] = Gone
CopiesAgree == Consistent(kept.copies) /\ kept.copies.identity = backup.project

CopyGate ==
  /\ backup.at = "check"
  /\ CopiesAreListed /\ CopiesAgree
  /\ BackupGoes("manifest")
  /\ UNCHANGED <<slotOf, kept>> /\ BackupOnly

WriteBackupManifest ==
  /\ backup.at = "manifest"
  /\ kept' = [kept EXCEPT !.manifest = backup.second.files]
  /\ BackupGoes("marker")
  /\ UNCHANGED slotOf /\ BackupOnly

WriteBackupMarker ==
  /\ backup.at = "marker"
  /\ kept' = [kept EXCEPT !.marker = kept.manifest]
  /\ backup' = NoBackup
  /\ ReleaseLeases
  /\ BackupOnly

BackupStep ==
  \/ ReadFile \/ TakeLeases \/ Compare \/ SourceGate \/ CopyFile \/ CopyGate
  \/ WriteBackupManifest \/ WriteBackupMarker \/ BackupFails

WriterStep(w) ==
  \/ WriterAdmitted(w) \/ WriterTakesSlot(w) \/ WriterClaimsRow(w) \/ WriterMaps(w)
  \/ WriterFinishesRow(w) \/ WriterDies(w)
  \/ ResetInventory(w) \/ ResetStore(w) \/ ResetIdentity(w)

BackupNext == BackupStart \/ BackupStep \/ \E w \in Writer : WriterStep(w)

BackupSpec == BackupInit /\ [][BackupNext]_backupVars

-----------------------------------------------------------------------------
\* validateCoderV2Backup
ValidBackup ==
  /\ kept.manifest # Gone /\ kept.marker = kept.manifest
  /\ kept.copies = kept.manifest
  /\ Consistent(kept.copies)

(* What validation accepts is a state the three files really were in, all  *)
(* at one moment, though they are read and copied one after the other      *)
(* while runs, cleans and resets of other processes write them, and though *)
(* an earlier backup into the same directory has left its files there.     *)
(* Only a reset takes an inventory away, and what is not there carries no  *)
(* time: with resets beside resets, only an inventory that is there tells. *)
OneReset == \A v, w \in Writer : writer[v].does = "reset" /\ writer[w].does = "reset" => v = w
Tells(s) == s.inventory # Gone \/ OneReset
ValidIsAMoment == ValidBackup /\ Tells(kept.copies) => kept.copies \in moments

(* A completed backup is valid at once: its completion marker is written   *)
(* only over copies of one moment that agree with the manifest and with    *)
(* one another.                                                            *)
MarkerIsEarned ==
  backup.at = "marker" =>
    /\ kept.copies = kept.manifest /\ Consistent(kept.copies)
    /\ Tells(kept.copies) => kept.copies \in moments

(* A backup that has ended, however it ended, holds no session's lease,    *)
(* and one that was about to copy holds that of a live row.                *)
LeasesFollowBackup ==
  /\ backup.at = "idle" => slotOf # "backup"
  /\ backup.at \in Copies \cup {"check", "manifest", "marker"} /\ Live(backup.second.rows)
       => slotOf = "backup"

BackupInv == BackupTypeOK /\ ValidIsAMoment /\ MarkerIsEarned /\ LeasesFollowBackup
=============================================================================
