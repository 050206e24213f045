--------------------------- MODULE StandaloneUpdate ---------------------------
(***************************************************************************)
(* The standalone installation and the journalled transactions that change *)
(* it: triss update --apply and --rollback (src/src/update/install.js,     *)
(* src/src/commands/update.js) and the installer                           *)
(* (src/scripts/standalone-bootstrap.js), whose order of steps and whose   *)
(* recovery differ.  Any of them may die between two durable operations    *)
(* and either program may meet what is left.  The update lock is taken to  *)
(* exclude (UpdateLock says how far it does); a release's tree and its     *)
(* integrity inventory are whole, torn or absent.                          *)
(***************************************************************************)
EXTENDS Integers, FiniteSets

CONSTANTS Updater,      \* processes
          MaxRelease,
          MaxCommits,   \* bound: transactions begun
          MaxCrashes,   \* bound
          MaxDamage     \* bound: releases damaged on disk

Release == 1..MaxRelease
None == 0
Legacy == MaxRelease + 1   \* the checkout that an older installer made

ASSUME StandaloneAssumption == MaxRelease \in Nat \ {0, 1} /\ MaxCommits \in Nat

VARIABLES
  receipt,     \* install.json: [state, cur, prev, vers, stamp]
  current,     \* the pointer root/current
  launcher,    \* the public command: none, through root/current, or direct
  tree,        \* versions/<release>
  inventory,   \* integrity/<release>.json that exist
  staged,      \* tools that left a staging directory with its owner marker
  spool,       \* what the open transaction still has in staging
  journal,
  lockedBy,    \* updaters that hold the update lock
  updater,     \* process -> [at, kind, target, sawReceipt, sawJournal, newBad, own]
  commits, crashes, damaged

standaloneVars == <<receipt, current, launcher, tree, inventory, staged, spool, journal, lockedBy,
                    updater, commits, crashes, damaged>>

Receipt == [state : {"none", "initializing", "active"}, cur : 0..MaxRelease, prev : 0..MaxRelease,
            vers : SUBSET Release, stamp : 0..MaxCommits]
Launcher == [via : {"none", "current", "direct"}, to : 0..Legacy]
Phases == {"PREPARED", "VERSION_PUBLISHED", "CURRENT_ACTIVATED", "RECEIPT_COMMITTED",
           "LAUNCHER_ACTIVATED", "ROLLED_BACK", "COMMITTED"}
Journal == [op : {"none", "apply", "rollback", "install"}, phase : Phases, target : 0..MaxRelease,
            old : Receipt, new : Receipt, oldLauncher : 0..Legacy, reused : BOOLEAN, pending : BOOLEAN]

NoReceipt == [state |-> "none", cur |-> None, prev |-> None, vers |-> {}, stamp |-> 0]
Initializing == [NoReceipt EXCEPT !.state = "initializing"]
NoLauncher == [via |-> "none", to |-> None]
ViaCurrent == [via |-> "current", to |-> None]
Direct(v) == [via |-> "direct", to |-> v]
NoJournal == [op |-> "none", phase |-> "PREPARED", target |-> None, old |-> NoReceipt, new |-> NoReceipt,
              oldLauncher |-> None, reused |-> FALSE, pending |-> FALSE]
NoCommand == [at |-> "idle", kind |-> "none", target |-> None, sawReceipt |-> NoReceipt,
              sawJournal |-> NoJournal, newBad |-> FALSE, own |-> FALSE]

PublishAt == {"inventory", "tree", "note tree", "anchor", "switch", "note current", "candidate", "pend",
              "commit", "note receipt", "activate", "note launcher", "smoke", "smoked", "note end", "end"}
UndoAt == {"recover", "undo current", "undo launcher", "undo receipt", "undo tree", "undo torn",
           "undo spool", "undo inventory", "undo journal", "back current", "back launcher"}
UpdaterAt == {"idle", "lock", "begin", "prepare", "stage"} \cup PublishAt \cup UndoAt

StandaloneTypeOK ==
  /\ receipt \in Receipt /\ current \in 0..MaxRelease /\ launcher \in Launcher
  /\ tree \in [Release -> {"none", "whole", "torn"}] /\ inventory \subseteq Release
  /\ staged \subseteq {"runtime", "installer"} /\ spool \subseteq {"tree", "inventory"}
  /\ journal \in Journal /\ lockedBy \subseteq Updater /\ Cardinality(lockedBy) <= 1
  /\ \A c \in Updater : updater[c].at \in UpdaterAt /\ updater[c].sawReceipt \in Receipt
                        /\ updater[c].sawJournal \in Journal
  /\ damaged \subseteq Release

Installed(cur, prev, n) ==
  /\ receipt = [state |-> "active", cur |-> cur, prev |-> prev, vers |-> 1..n, stamp |-> 0]
  /\ current = cur
  /\ tree = [v \in Release |-> IF v <= n THEN "whole" ELSE "none"] /\ inventory = 1..n

\* An empty root, with or without the legacy launcher, or one or two releases installed.
StandaloneInit ==
  /\ \/ /\ receipt = NoReceipt /\ current = None
        /\ launcher \in {NoLauncher, Direct(Legacy)}
        /\ tree = [v \in Release |-> "none"] /\ inventory = {}
     \/ Installed(1, None, 1) /\ launcher \in {ViaCurrent, NoLauncher}
     \/ Installed(2, 1, 2) /\ launcher = ViaCurrent
  /\ staged = {} /\ spool = {} /\ journal = NoJournal /\ lockedBy = {}
  /\ updater = [c \in Updater |-> NoCommand]
  /\ commits = 0 /\ crashes = 0 /\ damaged = {}

UpdaterIs(c, s) == updater[c].at = s
UpdaterGoes(c, s) == updater' = [updater EXCEPT ![c].at = s]
UpdaterEnds(c) == updater' = [updater EXCEPT ![c] = NoCommand] /\ lockedBy' = lockedBy \ {c}
Bounds == UNCHANGED <<commits, crashes, damaged>>
Trees == UNCHANGED <<tree, inventory, staged, spool>>
Pointers == UNCHANGED <<receipt, current, launcher>>
Installer(c) == updater[c].kind = "install"

-----------------------------------------------------------------------------
(* What the programs verify                                                *)

\* validateReceiptVersionTree, validateReceiptTree: inventory and tree as the receipt says.
Inventoried(r, v) == v \in r.vers /\ v \in inventory
WholeTree(v) == tree[v] = "whole"
SoundIn(r, v) == Inventoried(r, v) /\ WholeTree(v)

\* What the launcher resolves to; a link through a missing pointer resolves to nothing.
Runs == CASE launcher.via = "none" -> None
          [] launcher.via = "direct" -> launcher.to
          [] launcher.via = "current" -> current
Dangling == launcher.via = "current" /\ current = None
CanonicalLauncher == launcher = ViaCurrent \/ launcher = Direct(Legacy)

\* validateActiveLayout
ActiveLayout == receipt.state = "active" /\ current = receipt.cur /\ launcher = ViaCurrent

\* transactionLauncherTargets
LauncherOfJournal ==
  ~Dangling /\ Runs \in {None, journal.oldLauncher, journal.target}

OldActiveIsSound(r) == r.state = "active" => SoundIn(r, r.cur)
NewTreeBad == tree[journal.target] # "none" /\ ~SoundIn(journal.new, journal.target)

\* inspectRecovery
CanRecover ==
  /\ journal # NoJournal /\ LauncherOfJournal
  /\ IF ~journal.pending /\ receipt = journal.new /\ current = journal.target
     THEN SoundIn(journal.new, journal.target)
     ELSE /\ \/ /\ journal.old.state = "active"
                /\ receipt = journal.old \/ (journal.pending /\ receipt = journal.new)
             \/ /\ journal.old.state # "active"
                /\ receipt = journal.old
          /\ OldActiveIsSound(journal.old)

\* validateRecoveryLauncher
InstallerAccepts ==
  LET anchored == journal.phase \in {"CURRENT_ACTIVATED", "RECEIPT_COMMITTED", "ROLLED_BACK"}
      activated == journal.phase \in {"LAUNCHER_ACTIVATED", "COMMITTED"}
      expected == (IF activated THEN {} ELSE {journal.oldLauncher})
                    \cup (IF anchored \/ activated THEN {current} ELSE {})
  IN  IF launcher = NoLauncher THEN ~activated /\ journal.oldLauncher = None
      ELSE IF Dangling THEN anchored
      ELSE /\ Runs \in expected \ {None}
           /\ CanonicalLauncher \/ (anchored /\ Runs = journal.oldLauncher)

-----------------------------------------------------------------------------
(* A command: the user is asked, then the lock is taken                    *)

\* runUpdate classifies the installation and asks; the installer asks nobody.
Ask(c) ==
  /\ UpdaterIs(c, "idle") /\ commits < MaxCommits
  /\ \E kind \in {"recover", "apply", "rollback", "install"}, v \in Release :
       /\ CASE kind = "recover" -> CanRecover /\ v = journal.target
            [] kind = "apply" -> journal = NoJournal /\ ActiveLayout /\ v > receipt.cur
            [] kind = "rollback" -> journal = NoJournal /\ ActiveLayout /\ v = receipt.prev
            [] kind = "install" -> TRUE
       /\ updater' = [updater EXCEPT ![c] =
            [NoCommand EXCEPT !.at = "lock", !.kind = kind, !.target = v,
                              !.sawReceipt = IF kind = "install" THEN NoReceipt ELSE receipt,
                              !.sawJournal = IF kind = "recover" THEN journal ELSE NoJournal]]
  /\ UNCHANGED <<journal, lockedBy>> /\ Trees /\ Pointers /\ Bounds

TakeLock(c) ==
  /\ UpdaterIs(c, "lock") /\ lockedBy = {}
  /\ lockedBy' = {c}
  /\ UpdaterGoes(c, "begin")
  /\ UNCHANGED journal /\ Trees /\ Pointers /\ Bounds

\* A bug: the receipt is not compared with the one that was confirmed.
BeginUnconfirmed(c) ==
  LET target == IF updater[c].kind = "rollback" THEN receipt.prev ELSE updater[c].target IN
  /\ UpdaterIs(c, "begin")
  /\ IF updater[c].kind \in {"apply", "rollback"} /\ journal = NoJournal /\ ActiveLayout /\ target \in Release \ {receipt.cur}
        /\ OldActiveIsSound(receipt)
     THEN updater' = [updater EXCEPT ![c].at = "prepare", ![c].target = target] /\ UNCHANGED lockedBy
     ELSE UpdaterEnds(c)
  /\ UNCHANGED journal /\ Trees /\ Pointers /\ Bounds

\* Under the lock: recovery wants the journal that was confirmed; apply and rollback want no journal
\* and the receipt that was confirmed; the installer refuses a downgrade, then recovers.
Begin(c) ==
  LET k == updater[c] IN
  /\ UpdaterIs(c, "begin")
  /\ CASE k.kind = "recover" -> IF journal = k.sawJournal THEN UpdaterGoes(c, "recover") /\ UNCHANGED lockedBy
                                ELSE UpdaterEnds(c)
       [] k.kind = "install" -> IF receipt.state = "active" /\ k.target < receipt.cur THEN UpdaterEnds(c)
                                ELSE UpdaterGoes(c, IF journal # NoJournal THEN "recover" ELSE "prepare")
                                     /\ UNCHANGED lockedBy
       [] OTHER -> IF /\ journal = NoJournal /\ receipt = k.sawReceipt
                      /\ ActiveLayout /\ OldActiveIsSound(receipt)
                      /\ k.kind = "rollback" /\ receipt.prev # None => SoundIn(receipt, receipt.prev)
                   THEN UpdaterGoes(c, "prepare") /\ UNCHANGED lockedBy
                   ELSE UpdaterEnds(c)
  /\ UNCHANGED journal /\ Trees /\ Pointers /\ Bounds

-----------------------------------------------------------------------------
(* prepareTarget, and installManifest up to its journal                    *)

NewReceipt(c) ==
  [state |-> "active", cur |-> updater[c].target, prev |-> receipt.cur,
   vers |-> receipt.vers \cup {updater[c].target}, stamp |-> commits + 1]

OpenJournal(c, op, reused) ==
  /\ commits' = commits + 1
  /\ journal' = [op |-> op, phase |-> "PREPARED", target |-> updater[c].target, old |-> receipt,
                 new |-> NewReceipt(c), oldLauncher |-> Runs, reused |-> reused, pending |-> FALSE]
  /\ UNCHANGED <<crashes, damaged>>

\* Abandoned staging of the same tool is removed first.
CleanStaging(t) == staged' = staged \ {t}

\* A retained release is reactivated as it is.
PrepareRuntime(c) ==
  LET k == updater[c] IN
  /\ UpdaterIs(c, "prepare") /\ ~Installer(c)
  /\ CleanStaging("runtime")
  /\ IF k.kind = "rollback" \/ tree[k.target] # "none"
     THEN /\ IF SoundIn(receipt, k.target) /\ commits < MaxCommits
             THEN /\ OpenJournal(c, k.kind, k.kind = "apply")
                  /\ UpdaterGoes(c, "anchor") /\ UNCHANGED lockedBy
             ELSE UpdaterEnds(c) /\ UNCHANGED journal /\ Bounds
     ELSE UpdaterGoes(c, "stage") /\ UNCHANGED <<journal, lockedBy>> /\ Bounds
  /\ UNCHANGED <<tree, inventory, spool>> /\ Pointers

\* validateActiveInstallation; a missing launcher is no objection.
ActiveIsBroken ==
  \/ current # receipt.cur \/ ~SoundIn(receipt, receipt.cur)
  \/ receipt.prev # None /\ ~SoundIn(receipt, receipt.prev)
  \/ launcher = Direct(Legacy)

\* The installer validates the active installation, restores a missing launcher, and has nothing
\* more to do if it is the release asked for; an empty root gets its first receipt.
PrepareInstall(c) ==
  LET v == updater[c].target
      active == receipt.state = "active" IN
  /\ UpdaterIs(c, "prepare") /\ Installer(c)
  /\ CleanStaging("installer")
  /\ IF \/ launcher # NoLauncher /\ ~CanonicalLauncher
        \/ active /\ (v < receipt.cur \/ ActiveIsBroken)
     THEN UpdaterEnds(c) /\ Pointers
     ELSE /\ launcher' = IF active THEN ViaCurrent ELSE launcher
          /\ receipt' = IF receipt = NoReceipt /\ tree[v] = "none" THEN Initializing ELSE receipt
          /\ UNCHANGED current
          /\ IF tree[v] # "none" THEN UpdaterEnds(c) ELSE UpdaterGoes(c, "stage") /\ UNCHANGED lockedBy
  /\ UNCHANGED <<journal, tree, inventory, spool>> /\ Bounds

StagesAs(c) == IF Installer(c) THEN "installer" ELSE "runtime"

\* Staging is marked as the tool's own, and the artifact goes into it.
FillStaging(c) ==
  /\ StagesAs(c) \notin staged
  /\ staged' = staged \cup {StagesAs(c)}
  /\ UNCHANGED <<journal, updater, lockedBy, spool>> /\ Bounds

\* The artifact could not be fetched, extracted or tried out.
StagingFails(c) ==
  /\ StagesAs(c) \in staged
  /\ CleanStaging(StagesAs(c))
  /\ UpdaterEnds(c) /\ UNCHANGED <<journal, spool>> /\ Bounds

\* Tree and inventory are ready to be moved. Integrity metadata that exists already is never
\* overwritten.
OpensStaged(c) ==
  /\ StagesAs(c) \in staged
  /\ CleanStaging(StagesAs(c))
  /\ updater[c].target \notin inventory /\ commits < MaxCommits
  /\ OpenJournal(c, updater[c].kind, FALSE)
  /\ spool' = {"tree", "inventory"}
  /\ UpdaterGoes(c, "inventory") /\ UNCHANGED lockedBy

Stage(c) ==
  /\ UpdaterIs(c, "stage")
  /\ FillStaging(c) \/ StagingFails(c) \/ OpensStaged(c)
  /\ UNCHANGED <<tree, inventory>> /\ Pointers

-----------------------------------------------------------------------------
(* publishPrepared, and the rest of installManifest                        *)

Note(c, phase, next) ==
  /\ journal' = [journal EXCEPT !.phase = phase]
  /\ UpdaterGoes(c, next)
  /\ UNCHANGED lockedBy /\ Trees /\ Pointers /\ Bounds

PublishInventory(c) ==
  /\ UpdaterIs(c, "inventory")
  /\ inventory' = inventory \cup {journal.target} /\ spool' = spool \ {"inventory"}
  /\ UpdaterGoes(c, "tree")
  /\ UNCHANGED <<journal, tree, staged, lockedBy>> /\ Pointers /\ Bounds

PublishTree(c) ==
  /\ UpdaterIs(c, "tree")
  /\ tree' = [tree EXCEPT ![journal.target] = "whole"] /\ spool' = spool \ {"tree"}
  /\ UpdaterGoes(c, "note tree")
  /\ UNCHANGED <<journal, inventory, staged, lockedBy>> /\ Pointers /\ Bounds

NoteTree(c) == UpdaterIs(c, "note tree") /\ Note(c, "VERSION_PUBLISHED", "anchor")

\* A bug: the launcher follows `current` again before the receipt is committed.
AnchorThroughCurrent(c) ==
  /\ UpdaterIs(c, "anchor")
  /\ launcher' = IF journal.oldLauncher = None THEN launcher ELSE ViaCurrent
  /\ UpdaterGoes(c, "switch")
  /\ UNCHANGED <<journal, lockedBy, receipt, current>> /\ Trees /\ Bounds

\* The launcher is kept on the old release's own file while `current` moves.
AnchorLauncher(c) ==
  /\ UpdaterIs(c, "anchor")
  /\ launcher' = IF journal.oldLauncher = None THEN launcher ELSE Direct(journal.oldLauncher)
  /\ UpdaterGoes(c, "switch")
  /\ UNCHANGED <<journal, lockedBy, receipt, current>> /\ Trees /\ Bounds

SwitchCurrent(c) ==
  /\ UpdaterIs(c, "switch")
  /\ current' = journal.target
  /\ UpdaterGoes(c, "note current")
  /\ UNCHANGED <<journal, lockedBy, receipt, launcher>> /\ Trees /\ Bounds

NoteCurrent(c) == UpdaterIs(c, "note current") /\ Note(c, "CURRENT_ACTIVATED", "candidate")

\* The candidate is verified and tried.  When it fails, triss update recovers, the installer
\* turns the pointers back and keeps its journal.
TryCandidate(c) ==
  /\ UpdaterIs(c, "candidate")
  /\ \/ /\ Installer(c) \/ SoundIn(journal.new, journal.target)
        /\ UpdaterGoes(c, IF Installer(c) THEN "commit" ELSE "pend") /\ UNCHANGED journal
     \/ /\ Installer(c)
        /\ UpdaterGoes(c, "back current") /\ journal' = [journal EXCEPT !.phase = "ROLLED_BACK"]
     \/ ~Installer(c) /\ UpdaterGoes(c, "recover") /\ UNCHANGED journal
  /\ UNCHANGED lockedBy /\ Trees /\ Pointers /\ Bounds

\* Until the launcher was tried the receipt it will be committed with is pending.
NotePending(c) ==
  /\ UpdaterIs(c, "pend")
  /\ journal' = [journal EXCEPT !.phase = "RECEIPT_COMMITTED", !.pending = TRUE]
  /\ UpdaterGoes(c, "commit")
  /\ UNCHANGED lockedBy /\ Trees /\ Pointers /\ Bounds

CommitReceipt(c) ==
  /\ UpdaterIs(c, "commit")
  /\ receipt' = journal.new
  /\ UpdaterGoes(c, IF Installer(c) THEN "note receipt" ELSE "activate")
  /\ UNCHANGED <<journal, lockedBy, current, launcher>> /\ Trees /\ Bounds

NoteReceipt(c) == UpdaterIs(c, "note receipt") /\ Note(c, "RECEIPT_COMMITTED", "activate")

ActivateLauncher(c) ==
  /\ UpdaterIs(c, "activate")
  /\ launcher' = ViaCurrent
  /\ UpdaterGoes(c, IF Installer(c) THEN "smoke" ELSE "note launcher")
  /\ UNCHANGED <<journal, lockedBy, receipt, current>> /\ Trees /\ Bounds

NoteLauncher(c) ==
  UpdaterIs(c, "note launcher") /\ Note(c, "LAUNCHER_ACTIVATED", IF Installer(c) THEN "note end" ELSE "smoke")

\* The public launcher is tried: the installer's rollbackPublishedTransaction wants the old tree.
TryLauncher(c) ==
  /\ UpdaterIs(c, "smoke")
  /\ \/ UpdaterGoes(c, IF Installer(c) THEN "note launcher" ELSE "smoked") /\ UNCHANGED lockedBy
     \/ ~Installer(c) /\ UpdaterGoes(c, "recover") /\ UNCHANGED lockedBy
     \/ /\ Installer(c)
        /\ IF OldActiveIsSound(journal.old)
           THEN updater' = [updater EXCEPT ![c].at = "undo current", ![c].own = TRUE] /\ UNCHANGED lockedBy
           ELSE UpdaterEnds(c)
  /\ UNCHANGED journal /\ Trees /\ Pointers /\ Bounds

NoteSmoked(c) ==
  /\ UpdaterIs(c, "smoked")
  /\ journal' = [journal EXCEPT !.pending = FALSE]
  /\ UpdaterGoes(c, "note end")
  /\ UNCHANGED lockedBy /\ Trees /\ Pointers /\ Bounds

NoteCommitted(c) == UpdaterIs(c, "note end") /\ Note(c, "COMMITTED", "end")

CloseJournal(c) ==
  /\ UpdaterIs(c, "end")
  /\ journal' = NoJournal
  /\ UpdaterEnds(c)
  /\ UNCHANGED <<commits, crashes, damaged>> /\ Trees /\ Pointers

\* Any file operation of a publication may fail: triss update recovers at once, the installer ends.
PublicationFails(c) ==
  /\ updater[c].at \in PublishAt \ {"candidate", "smoke"}
  /\ IF Installer(c) THEN UpdaterEnds(c) /\ spool' = {}
     ELSE UpdaterGoes(c, "recover") /\ UNCHANGED <<lockedBy, spool>>
  /\ UNCHANGED <<journal, tree, inventory, staged>> /\ Pointers /\ Bounds

-----------------------------------------------------------------------------
(* recoverStandaloneTransaction and recoverJournal                         *)

Completes(c) ==
  /\ tree[journal.target] # "none" /\ ~NewTreeBad
  /\ receipt = journal.new /\ current = journal.target
  /\ IF Installer(c) THEN journal.phase # "PREPARED" ELSE ~journal.pending

\* What is committed is completed; else the old release must be whole, and all is undone.
Recover(c) ==
  LET undoes == IF OldActiveIsSound(journal.old)
                THEN updater' = [updater EXCEPT ![c].at = "undo current", ![c].newBad = NewTreeBad]
                     /\ UNCHANGED lockedBy
                ELSE UpdaterEnds(c) IN
  /\ UpdaterIs(c, "recover")
  /\ IF journal = NoJournal \/ (IF Installer(c) THEN ~InstallerAccepts ELSE ~LauncherOfJournal)
     THEN UpdaterEnds(c) /\ UNCHANGED <<journal, launcher>>
     ELSE \/ /\ Completes(c)
             /\ launcher' = ViaCurrent
             /\ UpdaterGoes(c, "undo journal")
             /\ UNCHANGED <<journal, lockedBy>>
          \/ /\ ~Completes(c)
             /\ undoes /\ UNCHANGED <<journal, launcher>>
          \/ /\ Completes(c) /\ Installer(c)   \* the launcher was tried and failed
             /\ launcher' = ViaCurrent
             /\ undoes /\ UNCHANGED journal
  /\ UNCHANGED <<receipt, current>> /\ Trees /\ Bounds

RestoredLauncher == CASE journal.oldLauncher = None -> NoLauncher
                      [] journal.oldLauncher = Legacy -> Direct(Legacy)
                      [] OTHER -> ViaCurrent

UndoCurrent(c) ==
  /\ updater[c].at \in {"undo current", "back current"}
  /\ current' = journal.old.cur
  /\ UpdaterGoes(c, IF UpdaterIs(c, "undo current") THEN "undo launcher" ELSE "back launcher")
  /\ UNCHANGED <<journal, lockedBy, receipt, launcher>> /\ Trees /\ Bounds

UndoLauncher(c) ==
  /\ updater[c].at \in {"undo launcher", "back launcher"}
  /\ launcher' = RestoredLauncher
  /\ IF UpdaterIs(c, "undo launcher") THEN UpdaterGoes(c, "undo receipt") /\ UNCHANGED lockedBy
     ELSE UpdaterEnds(c)
  /\ UNCHANGED <<journal, receipt, current>> /\ Trees /\ Bounds

UndoReceipt(c) ==
  /\ UpdaterIs(c, "undo receipt")
  /\ receipt' = journal.old
  /\ UpdaterGoes(c, "undo tree")
  /\ UNCHANGED <<journal, lockedBy, current, launcher>> /\ Trees /\ Bounds

RemovesTree(c) == ~updater[c].newBad /\ ~journal.reused /\ journal.op # "rollback"

\* A tree is removed file by file.  One that is not what the new receipt says is kept to be looked at.
UndoTree(c) ==
  /\ updater[c].at \in {"undo tree", "undo torn"}
  /\ IF RemovesTree(c) /\ tree[journal.target] # "none"
     THEN /\ tree' = [tree EXCEPT ![journal.target] = IF UpdaterIs(c, "undo tree") THEN "torn" ELSE "none"]
          /\ UpdaterGoes(c, IF UpdaterIs(c, "undo tree") THEN "undo torn" ELSE "undo spool")
     ELSE UNCHANGED tree /\ UpdaterGoes(c, "undo spool")
  /\ UNCHANGED <<journal, inventory, staged, spool, lockedBy>> /\ Pointers /\ Bounds

UndoSpool(c) ==
  /\ UpdaterIs(c, "undo spool")
  /\ spool' = {}
  /\ UpdaterGoes(c, "undo inventory")
  /\ UNCHANGED <<journal, tree, inventory, staged, lockedBy>> /\ Pointers /\ Bounds

UndoInventory(c) ==
  /\ UpdaterIs(c, "undo inventory")
  /\ inventory' = IF RemovesTree(c) THEN inventory \ {journal.target} ELSE inventory
  /\ UpdaterGoes(c, "undo journal")
  /\ UNCHANGED <<journal, tree, staged, spool, lockedBy>> /\ Pointers /\ Bounds

\* The recovery ends; the installer may go on to install.
UndoJournal(c) ==
  /\ UpdaterIs(c, "undo journal")
  /\ journal' = NoJournal
  /\ \/ UpdaterEnds(c)
     \/ /\ Installer(c) /\ ~updater[c].newBad /\ ~updater[c].own
        /\ UpdaterGoes(c, "prepare") /\ UNCHANGED lockedBy
  /\ Trees /\ Pointers /\ Bounds

-----------------------------------------------------------------------------
(* The process dies, with the lock and whatever it left; a disk goes bad.  *)

UpdaterDies(c) ==
  /\ ~UpdaterIs(c, "idle") /\ crashes < MaxCrashes
  /\ crashes' = crashes + 1
  /\ UpdaterEnds(c)
  /\ UNCHANGED <<journal, commits, damaged>> /\ Trees /\ Pointers

TreeRots(v) ==
  /\ Cardinality(damaged) < MaxDamage /\ tree[v] = "whole"
  /\ damaged' = damaged \cup {v}
  /\ tree' = [tree EXCEPT ![v] = "torn"]
  /\ UNCHANGED <<inventory, staged, spool, journal, lockedBy, updater, commits, crashes>> /\ Pointers

PublishStep(c) ==
  \/ PublishInventory(c) \/ PublishTree(c) \/ NoteTree(c) \/ AnchorLauncher(c) \/ SwitchCurrent(c)
  \/ NoteCurrent(c) \/ TryCandidate(c) \/ NotePending(c) \/ CommitReceipt(c) \/ NoteReceipt(c)
  \/ ActivateLauncher(c) \/ NoteLauncher(c) \/ TryLauncher(c) \/ NoteSmoked(c) \/ NoteCommitted(c)
  \/ CloseJournal(c) \/ PublicationFails(c)

UndoStep(c) ==
  \/ UndoCurrent(c) \/ UndoLauncher(c) \/ UndoReceipt(c) \/ UndoTree(c) \/ UndoSpool(c)
  \/ UndoInventory(c) \/ UndoJournal(c)

StandaloneNext ==
  \/ \E c \in Updater :
       \/ Ask(c) \/ TakeLock(c) \/ Begin(c) \/ PrepareRuntime(c) \/ PrepareInstall(c) \/ Stage(c)
       \/ PublishStep(c) \/ Recover(c) \/ UndoStep(c) \/ UpdaterDies(c)
  \/ \E v \in Release : TreeRots(v)

StandaloneSpec == StandaloneInit /\ [][StandaloneNext]_standaloneVars

-----------------------------------------------------------------------------
(* At every moment, a crash at any of them included, the public command of *)
(* an active installation starts a release that some receipt committed:    *)
(* the one of the present receipt or the one the open transaction came     *)
(* from, and its tree is whole unless the disk damaged it.                 *)
StartsCommitted ==
  LET olds == IF journal = NoJournal THEN {} ELSE {journal.old.cur} IN
  /\ launcher # NoLauncher =>
       Runs \in {receipt.cur, Legacy} \cup olds
  /\ Runs \in Release => tree[Runs] = "whole" \/ Runs \in damaged

(* No transaction open: pointer, launcher and receipt agree, whatever the  *)
(* receipt lists is there, and nothing whole is there that it does not     *)
(* list.                                                                   *)
SettledAgrees ==
  journal = NoJournal /\ lockedBy = {} =>
    /\ current = receipt.cur
    /\ receipt.state = "active" => launcher \in {ViaCurrent, NoLauncher}
    /\ receipt.state # "active" => Runs \in {None, Legacy}
    /\ \A v \in receipt.vers : SoundIn(receipt, v) \/ v \in damaged
    /\ \A v \in Release \ receipt.vers : tree[v] # "whole"

(* A transaction over an active installation that some process left open   *)
(* can be recovered by triss update or by the installer, unless the disk   *)
(* lost a release.  (Not so a first install: the launcher of a phase       *)
(* LAUNCHER_ACTIVATED whose recovery fails its smoke test and dies as it   *)
(* takes `current` away dangles, which neither program accepts.)           *)
SomeoneRecovers ==
  journal # NoJournal /\ lockedBy = {} /\ damaged = {} /\ journal.old.state = "active"
    => CanRecover \/ InstallerAccepts

\* src/docs/update-system-plan.md has the installer perform "journal recovery before any normal
\* install work".
InstallerRecovers ==
  journal # NoJournal /\ lockedBy = {} /\ damaged = {} => InstallerAccepts

(* An update or rollback commits over the very receipt the user was shown. *)
CommitsWhatWasConfirmed ==
  [][\A c \in Updater : updater[c].at = "commit" /\ receipt' # receipt /\ updater[c].kind \in {"apply", "rollback"}
                          => receipt = updater[c].sawReceipt]_standaloneVars

StandaloneInv == StandaloneTypeOK /\ StartsCommitted /\ SettledAgrees /\ SomeoneRecovers
=============================================================================
