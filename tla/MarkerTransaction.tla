------------------------- MODULE MarkerTransaction -------------------------
(***************************************************************************)
(* Replacement of the managed block in several instruction files as one    *)
(* transaction (src/src/marker-transaction.js), beside a user whose editor *)
(* saves, replaces, deletes and creates the same files.  A file is an      *)
(* inode and a text; the temporary file of an installation is written      *)
(* before the last check.  Links and modes are part of an inode's identity *)
(* here.                                                                   *)
(***************************************************************************)
EXTENDS Naturals, FiniteSets, Sequences

CONSTANTS Destinations,  \* the files, in the order of the plans
          Missing,
          MaxEdits       \* bound: what the user does meanwhile

Destination == {Destinations[k] : k \in DOMAIN Destinations}

\* Two plans for one target are refused before the transaction (validateFileTransaction).
ASSUME DestinationsAssumption ==
  /\ Destinations \in Seq(Destination) /\ Destinations # <<>>
  /\ \A j, k \in DOMAIN Destinations : Destinations[j] = Destinations[k] => j = k

\* "current" already holds the block as it should be.
Text == {"user", "current", "edit", "managed"}
Entry == [inode : Nat, text : Text]

ASSUME MissingAssumption == Missing \notin Entry

VARIABLES
  disk,       \* destination -> entry
  inodes,     \* how many inodes were made
  plan,       \* destination -> the entry that was planned against, or Missing
  tx,         \* where the transaction is, and at which destination
  written,    \* destination -> what the transaction installed there
  aside,      \* an entry moved out of the way during a removal
  reported,   \* rollback failures
  edits,      \* edits so far
  late, lost, deleted  \* history: edits after the last check; overwritten; removed

markerVars == <<disk, inodes, plan, tx, written, aside, reported, edits, late, lost, deleted>>
History == <<late, lost, deleted>>

TxAt == {"plan", "check", "temp", "recheck", "identity", "install", "undo", "undo recheck",
         "undo identity", "undo install", "away", "compare", "restore", "done", "failed", "dead"}

MarkerTypeOK ==
  /\ \A f \in Destination : disk[f] \in Entry \cup {Missing}
  /\ tx.at \in TxAt /\ tx.k \in 0..(Len(Destinations) + 1)
  /\ \A f \in Destination : written[f] \in Entry \cup {Missing}
  /\ aside \in Entry \cup {Missing}
  /\ reported \subseteq Destination
  /\ late \subseteq Destination /\ lost \subseteq Destination /\ deleted \subseteq Destination

MarkerInit ==
  /\ disk \in [Destination -> {Missing, [inode |-> 0, text |-> "user"], [inode |-> 0, text |-> "current"]}]
  /\ inodes = 0
  /\ plan = [f \in Destination |-> Missing]
  /\ tx = [at |-> "plan", k |-> 1]
  /\ written = [f \in Destination |-> Missing]
  /\ aside = Missing
  /\ reported = {} /\ edits = 0
  /\ late = {} /\ lost = {} /\ deleted = {}

Here == Destinations[tx.k]
TxAtStep(s) == tx.at = s
TxGoes(s) == tx' = [tx EXCEPT !.at = s]
NextFile == IF tx.k = Len(Destinations) THEN tx' = [at |-> "done", k |-> tx.k]
            ELSE tx' = [at |-> "check", k |-> tx.k + 1]
Changed(f) == plan[f] = Missing \/ plan[f].text # "current"
NoUser == UNCHANGED <<edits, late, deleted>>
NoDisk == UNCHANGED <<disk, inodes, aside, lost>>

-----------------------------------------------------------------------------
(* planManagedPath and applyFileTransaction *)

PlanFile ==
  /\ TxAtStep("plan")
  /\ plan' = [plan EXCEPT ![Here] = disk[Here]]
  /\ tx' = IF tx.k = Len(Destinations) THEN [at |-> "check", k |-> 1] ELSE [tx EXCEPT !.k = @ + 1]
  /\ UNCHANGED <<written, reported>> /\ NoDisk /\ NoUser

\* verifyPrecondition: the entry is still the planned one; else all is undone.
CheckFile ==
  /\ TxAtStep("check")
  /\ IF ~Changed(Here) THEN NextFile
     ELSE TxGoes(IF disk[Here] = plan[Here] THEN "temp" ELSE "undo")
  /\ UNCHANGED <<plan, written, reported>> /\ NoDisk /\ NoUser

\* The temporary file may fail to be written.
WriteTemp ==
  /\ TxAtStep("temp")
  /\ TxGoes("recheck") \/ TxGoes("undo")
  /\ UNCHANGED <<plan, written, reported>> /\ NoDisk /\ NoUser

\* A bug: the caller's check is taken for the last one.
SkipRecheck ==
  /\ TxAtStep("recheck")
  /\ TxGoes("install")
  /\ UNCHANGED <<plan, written, reported>> /\ NoDisk /\ NoUser

\* atomicReplace checks the same again before it installs.
Recheck ==
  /\ TxAtStep("recheck")
  /\ TxGoes(IF disk[Here] = plan[Here] THEN "identity" ELSE "undo")
  /\ UNCHANGED <<plan, written, reported>> /\ NoDisk /\ NoUser

\* Last, the kind and the identity of the entry, no longer its content.
CheckIdentity ==
  /\ TxAtStep("identity")
  /\ TxGoes(IF \/ disk[Here] = Missing /\ plan[Here] = Missing
               \/ /\ disk[Here] # Missing /\ plan[Here] # Missing
                  /\ disk[Here].inode = plan[Here].inode
            THEN "install" ELSE "undo")
  /\ UNCHANGED <<plan, written, reported>> /\ NoDisk /\ NoUser

Fresh(text) == [inode |-> inodes + 1, text |-> text]
Loses(f) == IF disk[f] # Missing /\ disk[f].text = "edit" /\ disk[f] # plan[f]
            THEN lost \cup {f} ELSE lost

\* link does not clobber what appeared; rename replaces whatever is there.
\* The temporary name of a link may fail to go: installed, and yet an error.
Install ==
  /\ TxAtStep("install")
  /\ IF plan[Here] = Missing /\ disk[Here] # Missing
     THEN TxGoes("undo") /\ NoDisk /\ UNCHANGED written
     ELSE /\ disk' = [disk EXCEPT ![Here] = Fresh("managed")]
          /\ inodes' = inodes + 1
          /\ written' = [written EXCEPT ![Here] = Fresh("managed")]
          /\ lost' = Loses(Here)
          /\ NextFile \/ (plan[Here] = Missing /\ TxGoes("undo"))
          /\ UNCHANGED aside
  /\ UNCHANGED <<plan, reported>> /\ NoUser

-----------------------------------------------------------------------------
(* rollback: in reverse, only what is still as the transaction wrote it.   *)

UndoNext == IF tx.k = 1 THEN tx' = [tx EXCEPT !.at = "failed"]
            ELSE tx' = [at |-> "undo", k |-> tx.k - 1]
GiveUp == reported' = reported \cup {Here} /\ UndoNext

\* A bug: what is there is not compared with what was written.
UndoAnything ==
  /\ TxAtStep("undo")
  /\ IF written[Here] = Missing THEN UndoNext /\ UNCHANGED reported
     ELSE TxGoes(IF plan[Here] = Missing THEN "away" ELSE "undo install") /\ UNCHANGED reported
  /\ UNCHANGED <<plan, written>> /\ NoDisk /\ NoUser

UndoFile ==
  /\ TxAtStep("undo")
  /\ IF written[Here] = Missing THEN UndoNext /\ UNCHANGED reported
     ELSE IF disk[Here] # written[Here] THEN GiveUp
     ELSE TxGoes(IF plan[Here] = Missing THEN "away" ELSE "undo recheck") /\ UNCHANGED reported
  /\ UNCHANGED <<plan, written>> /\ NoDisk /\ NoUser

\* The original goes back through the same installation, with its checks.
UndoRecheck ==
  /\ TxAtStep("undo recheck")
  /\ IF disk[Here] = written[Here]
     THEN \/ TxGoes("undo identity") /\ UNCHANGED reported
          \/ GiveUp   \* the temporary file may fail again
     ELSE GiveUp
  /\ UNCHANGED <<plan, written>> /\ NoDisk /\ NoUser

UndoIdentity ==
  /\ TxAtStep("undo identity")
  /\ IF disk[Here] # Missing /\ disk[Here].inode = written[Here].inode
     THEN TxGoes("undo install") /\ UNCHANGED reported ELSE GiveUp
  /\ UNCHANGED <<plan, written>> /\ NoDisk /\ NoUser

UndoInstall ==
  /\ TxAtStep("undo install")
  /\ disk' = [disk EXCEPT ![Here] = Fresh(plan[Here].text)]
  /\ inodes' = inodes + 1
  /\ lost' = Loses(Here)
  /\ UndoNext
  /\ UNCHANGED <<plan, written, reported, aside>> /\ NoUser

\* removeOwned moves the file away before it looks at it again.
MoveAway ==
  /\ TxAtStep("away")
  /\ IF disk[Here] = Missing THEN GiveUp /\ NoDisk
     ELSE /\ aside' = disk[Here]
          /\ disk' = [disk EXCEPT ![Here] = Missing]
          /\ TxGoes("compare")
          /\ UNCHANGED <<inodes, lost, reported>>
  /\ UNCHANGED <<plan, written>> /\ NoUser

\* Ours is removed, unless that fails; anything else goes back.
CompareAside ==
  /\ TxAtStep("compare")
  /\ \/ aside = written[Here] /\ aside' = Missing /\ UndoNext
     \/ TxGoes("restore") /\ UNCHANGED aside
  /\ UNCHANGED <<disk, inodes, lost, plan, written, reported>> /\ NoUser

\* Back by link, which does not clobber a file that appeared meanwhile.
RestoreAside ==
  /\ TxAtStep("restore")
  /\ IF disk[Here] = Missing
     THEN disk' = [disk EXCEPT ![Here] = aside] /\ aside' = Missing
     ELSE UNCHANGED <<disk, aside>>
  /\ GiveUp
  /\ UNCHANGED <<inodes, lost, plan, written>> /\ NoUser

TxDies ==
  /\ tx.at \notin {"done", "failed", "dead"}
  /\ TxGoes("dead")
  /\ UNCHANGED <<plan, written, reported>> /\ NoDisk /\ NoUser

-----------------------------------------------------------------------------
(* The user's editor: writes in place or replaces; deletes; creates.       *)

InWindow(f) == tx.at \in {"identity", "install", "undo identity", "undo install"} /\ Here = f

UserEdits(f) ==
  /\ edits < MaxEdits /\ tx.at # "dead"
  /\ edits' = edits + 1
  /\ \/ /\ disk[f] # Missing
        /\ disk' = [disk EXCEPT ![f].text = "edit"]
        /\ UNCHANGED <<inodes, deleted>>
     \/ /\ disk' = [disk EXCEPT ![f] = Fresh("edit")]
        /\ inodes' = inodes + 1
        /\ UNCHANGED deleted
     \/ /\ disk[f] # Missing
        /\ disk' = [disk EXCEPT ![f] = Missing]
        /\ deleted' = deleted \cup {f}
        /\ UNCHANGED inodes
  /\ late' = IF InWindow(f) THEN late \cup {f} ELSE late
  /\ UNCHANGED <<plan, tx, written, aside, reported, lost>>

TxStep ==
  \/ PlanFile \/ CheckFile \/ WriteTemp \/ Recheck \/ CheckIdentity \/ Install
  \/ UndoFile \/ UndoRecheck \/ UndoIdentity \/ UndoInstall
  \/ MoveAway \/ CompareAside \/ RestoreAside

MarkerNext == TxStep \/ TxDies \/ \E f \in Destination : UserEdits(f)

MarkerSpec == MarkerInit /\ [][MarkerNext]_markerVars

-----------------------------------------------------------------------------
(* A user's save is overwritten only if it came after the last check of    *)
(* that file, in the window the code names as the limit of what portable   *)
(* file operations can do; neither applying nor rolling back loses another.*)
EditLostOnlyInWindow == lost \subseteq late

(* A transaction that failed has left its block in a file only where it    *)
(* reports a rollback failure.                                             *)
UndoneOrReported ==
  tx.at = "failed" =>
    \A f \in Destination :
      disk[f] # Missing /\ disk[f].text = "managed" => f \in reported

(* A file that existed when it was planned is never away, at no moment a   *)
(* crash could pick, unless the user deleted it.                           *)
NeverVacant ==
  \A f \in Destination : plan[f] # Missing /\ disk[f] = Missing => f \in deleted

MarkerInv ==
  /\ MarkerTypeOK /\ EditLostOnlyInWindow /\ UndoneOrReported
  /\ NeverVacant
=============================================================================
