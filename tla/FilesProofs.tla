----------------------------- MODULE FilesProofs -----------------------------
(***************************************************************************)
(* What the protocols that replace files in place promise for every set of *)
(* processes, files and bounds.                                            *)
(***************************************************************************)
EXTENDS UpdateLock, MarkerTransaction, StandaloneUpdate, StateBackup, FiniteSetTheorems, TLAPS

-----------------------------------------------------------------------------
(* The marker transaction.  What it finds at its last check is what it     *)
(* planned, or an edit of the window; while it goes forward nothing is     *)
(* written at or behind its place, and while it undoes everything behind   *)
(* its place is undone or reported.                                        *)

IsManaged(f) == disk[f] # Missing /\ disk[f].text = "managed"

MarkerTyped ==
  /\ disk \in [Destination -> Entry \cup {Missing}]
  /\ plan \in [Destination -> Entry \cup {Missing}]
  /\ written \in [Destination -> Entry \cup {Missing}]
  /\ aside \in Entry \cup {Missing}
  /\ inodes \in Nat
  /\ tx \in [at : TxAt, k : 1..Len(Destinations)]
  /\ reported \subseteq Destination
  /\ late \subseteq Destination /\ lost \subseteq Destination /\ deleted \subseteq Destination

Forward == {"check", "temp", "recheck", "identity", "install"}
TurnedBack == {"undo", "undo recheck", "undo identity", "undo install", "away", "compare", "restore"}

\* The block in a file is the one the transaction installed there, and no plan was made of one.
BlocksAreWritten ==
  \A f \in Destination :
    /\ IsManaged(f) => disk[f] = written[f]
    /\ written[f] # Missing => written[f].text = "managed"
    /\ plan[f] # Missing => plan[f].text # "managed"

NothingWrittenAhead ==
  /\ tx.at = "plan" => \A f \in Destination : written[f] = Missing
  /\ tx.at \in Forward => \A j \in tx.k..Len(Destinations) : written[Destinations[j]] = Missing

NothingLeftBehind ==
  /\ tx.at \in TurnedBack =>
       \A j \in (tx.k + 1)..Len(Destinations) : IsManaged(Destinations[j]) => Destinations[j] \in reported
  /\ tx.at = "failed" => \A f \in Destination : IsManaged(f) => f \in reported

WindowHolds ==
  /\ tx.at \in {"identity", "install"} => disk[Here] = plan[Here] \/ Here \in late
  /\ tx.at \in {"undo recheck", "undo identity", "undo install"} => plan[Here] # Missing /\ written[Here] # Missing
  /\ tx.at \in {"undo identity", "undo install"} => disk[Here] = written[Here] \/ Here \in late

AsideIsOurs ==
  /\ tx.at \in {"away", "compare", "restore"} => plan[Here] = Missing
  /\ tx.at \in {"compare", "restore"} =>
       /\ ~IsManaged(Here) /\ aside # Missing
       /\ aside.text = "managed" => aside = written[Here]

MarkerIInv ==
  /\ MarkerTyped /\ BlocksAreWritten /\ NothingWrittenAhead /\ NothingLeftBehind
  /\ WindowHolds /\ AsideIsOurs /\ EditLostOnlyInWindow /\ NeverVacant

LEMMA DestinationFacts ==
  /\ Len(Destinations) \in Nat \ {0}
  /\ \A k \in 1..Len(Destinations) : Destinations[k] \in Destination
  /\ \A f \in Destination : \E k \in 1..Len(Destinations) : f = Destinations[k]
  /\ \A j, k \in 1..Len(Destinations) : Destinations[j] = Destinations[k] => j = k
<1>1. Destinations \in Seq(Destination) /\ Destinations # <<>>
  BY DestinationsAssumption
<1>2. Len(Destinations) \in Nat /\ DOMAIN Destinations = 1..Len(Destinations)
  BY <1>1
<1>3. Len(Destinations) # 0
  BY <1>1
<1> QED
  BY <1>2, <1>3, DestinationsAssumption DEF Destination

LEMMA PlacesBehind ==
  ASSUME NEW n \in Nat, NEW k \in 1..n
  PROVE  /\ \A j \in (k + 1)..n : j \in 1..n /\ j \in k..n /\ j # k
         /\ \A j \in k..n : j \in 1..n /\ (j = k \/ j \in (k + 1)..n)
  OBVIOUS

LEMMA MarkerIInvInit == MarkerInit => MarkerIInv
<1> SUFFICES ASSUME MarkerInit PROVE MarkerIInv
  OBVIOUS
<1>1. MarkerTyped
  BY DestinationFacts DEF MarkerInit, MarkerTyped, Entry, Text, TxAt
<1>2. tx.at = "plan" /\ \A f \in Destination : plan[f] = Missing /\ written[f] = Missing /\ ~IsManaged(f)
  BY MissingAssumption DEF MarkerInit, IsManaged, Entry, Text
<1> QED
  BY <1>1, <1>2 DEF MarkerIInv, BlocksAreWritten, NothingWrittenAhead, NothingLeftBehind, WindowHolds, AsideIsOurs,
     EditLostOnlyInWindow, NeverVacant, MarkerInit, Forward, TurnedBack

LEMMA MarkerIInvImplies == MarkerIInv => MarkerInv
<1> SUFFICES ASSUME MarkerIInv PROVE MarkerInv
  OBVIOUS
<1>1. MarkerTypeOK
  <2>1. tx.at \in TxAt /\ tx.k \in 0..(Len(Destinations) + 1)
    BY DestinationFacts DEF MarkerIInv, MarkerTyped
  <2> QED
    BY <2>1 DEF MarkerIInv, MarkerTyped, MarkerTypeOK
<1>2. UndoneOrReported
  BY DEF MarkerIInv, NothingLeftBehind, IsManaged, UndoneOrReported
<1> QED
  BY <1>1, <1>2 DEF MarkerIInv, MarkerInv

TxPlaces == [at : TxAt, k : 1..Len(Destinations)]

LEMMA TxMoves ==
  ASSUME MarkerTyped
  PROVE  /\ \A s \in TxAt : TxGoes(s) => tx' \in TxPlaces /\ tx'.at = s /\ tx'.k = tx.k
         /\ NextFile => /\ tx' \in TxPlaces
                        /\ \/ tx'.at = "done"
                           \/ tx'.at = "check" /\ tx'.k = tx.k + 1
         /\ UndoNext => /\ tx' \in TxPlaces
                        /\ \/ tx.k = 1 /\ tx'.at = "failed"
                           \/ tx'.at = "undo" /\ tx'.k = tx.k - 1
<1>1. tx \in TxPlaces /\ tx.k \in 1..Len(Destinations) /\ Len(Destinations) \in Nat
  BY DestinationFacts DEF MarkerTyped, TxPlaces
<1>2. \A s \in TxAt : TxGoes(s) => tx' \in TxPlaces /\ tx'.at = s /\ tx'.k = tx.k
  BY <1>1 DEF TxGoes, TxPlaces
<1>3. NextFile => tx' \in TxPlaces /\ (tx'.at = "done" \/ (tx'.at = "check" /\ tx'.k = tx.k + 1))
  <2>1. [at |-> "done", k |-> tx.k] \in TxPlaces
    BY <1>1 DEF TxPlaces, TxAt
  <2>2. tx.k # Len(Destinations) => [at |-> "check", k |-> tx.k + 1] \in TxPlaces
    <3>1. tx.k # Len(Destinations) => tx.k + 1 \in 1..Len(Destinations)
      BY <1>1
    <3> QED
      BY <3>1 DEF TxPlaces, TxAt
  <2> QED
    BY <2>1, <2>2 DEF NextFile
<1>4. UndoNext => /\ tx' \in TxPlaces
                  /\ (tx.k = 1 /\ tx'.at = "failed") \/ (tx'.at = "undo" /\ tx'.k = tx.k - 1)
  <2>1. [tx EXCEPT !.at = "failed"] \in TxPlaces /\ [tx EXCEPT !.at = "failed"].at = "failed"
    BY <1>1 DEF TxPlaces, TxAt
  <2>2. tx.k # 1 => [at |-> "undo", k |-> tx.k - 1] \in TxPlaces
    <3>1. tx.k # 1 => tx.k - 1 \in 1..Len(Destinations)
      BY <1>1
    <3> QED
      BY <3>1 DEF TxPlaces, TxAt
  <2>3. CASE tx.k = 1
    BY <2>1, <2>3 DEF UndoNext
  <2>4. CASE tx.k # 1
    BY <2>2, <2>4 DEF UndoNext
  <2> QED
    BY <2>3, <2>4
<1> QED
  BY <1>2, <1>3, <1>4

LEMMA TxStays ==
  ASSUME MarkerTyped, NEW s \in TxAt, TxGoes(s)
  PROVE  tx' \in TxPlaces /\ tx'.at = s /\ tx'.k = tx.k /\ Here' = Here
  BY TxMoves DEF Here

\* Going on to the next file leaves nothing written ahead.
LEMMA NextFileIsAhead ==
  ASSUME MarkerTyped, NextFile,
         \A j \in (tx.k + 1)..Len(Destinations) : written'[Destinations[j]] = Missing
  PROVE  tx' \in TxPlaces /\ NothingWrittenAhead' /\ NothingLeftBehind' /\ WindowHolds' /\ AsideIsOurs'
  BY TxMoves DEF NothingWrittenAhead, NothingLeftBehind, WindowHolds, AsideIsOurs, Forward, TurnedBack

\* Going back to the file before leaves nothing behind that is not reported.
LEMMA UndoNextLeavesNothing ==
  ASSUME MarkerTyped, UndoNext,
         \A j \in tx.k..Len(Destinations) : IsManaged(Destinations[j])' => Destinations[j] \in reported'
  PROVE  tx' \in TxPlaces /\ NothingWrittenAhead' /\ NothingLeftBehind' /\ WindowHolds' /\ AsideIsOurs'
<1>0. tx.k \in 1..Len(Destinations) /\ Len(Destinations) \in Nat
  BY DestinationFacts DEF MarkerTyped, TxPlaces
<1>1. CASE tx.k = 1 /\ tx'.at = "failed"
  BY <1>1, TxMoves, DestinationFacts
  DEF NothingWrittenAhead, NothingLeftBehind, WindowHolds, AsideIsOurs, Forward, TurnedBack
<1>2. CASE tx'.at = "undo" /\ tx'.k = tx.k - 1
  <2>1. tx'.k + 1 = tx.k
    BY <1>0, <1>2
  <2> QED
    BY <1>2, <2>1, TxMoves
    DEF NothingWrittenAhead, NothingLeftBehind, WindowHolds, AsideIsOurs, Forward, TurnedBack
<1> QED
  BY <1>1, <1>2, TxMoves

\* Turning back at a file: nothing was written ahead of it.
LEMMA TurningBack ==
  ASSUME MarkerIInv, TxGoes("undo"),
         \A j \in (tx.k + 1)..Len(Destinations) : IsManaged(Destinations[j])' => Destinations[j] \in reported'
  PROVE  tx' \in TxPlaces /\ NothingWrittenAhead' /\ NothingLeftBehind' /\ WindowHolds' /\ AsideIsOurs'
<1>1. tx' \in TxPlaces /\ tx'.at = "undo" /\ tx'.k = tx.k
  BY TxMoves DEF MarkerIInv, TxAt
<1> QED
  BY <1>1 DEF NothingWrittenAhead, NothingLeftBehind, WindowHolds, AsideIsOurs, Forward, TurnedBack

PlacesHold == NothingWrittenAhead /\ NothingLeftBehind /\ WindowHolds /\ AsideIsOurs

\* A step that touches no file keeps what is said of the files.
LEMMA QuietStep ==
  ASSUME MarkerIInv, tx' \in TxPlaces, reported \subseteq reported', reported' \subseteq Destination,
         UNCHANGED <<disk, inodes, lost, plan, written, late, deleted>>, aside' \in {aside, Missing}
  PROVE  /\ MarkerTyped' /\ BlocksAreWritten' /\ EditLostOnlyInWindow' /\ NeverVacant'
         /\ \A f \in Destination : IsManaged(f)' <=> IsManaged(f)
<1>1. MarkerTyped'
  BY DEF MarkerIInv, MarkerTyped, TxPlaces
<1>2. BlocksAreWritten'
  BY DEF MarkerIInv, BlocksAreWritten, IsManaged
<1> QED
  BY <1>1, <1>2 DEF MarkerIInv, EditLostOnlyInWindow, NeverVacant, IsManaged

\* Steps to the next place at the same file, forward and back.
LEMMA MarkerStepsWithoutFiles ==
  ASSUME MarkerIInv,
         CheckFile \/ WriteTemp \/ Recheck \/ CheckIdentity
           \/ UndoFile \/ UndoRecheck \/ UndoIdentity \/ CompareAside \/ TxDies
  PROVE  MarkerIInv'
<1>0. /\ MarkerTyped /\ Here \in Destination /\ Here = Destinations[tx.k]
      /\ tx.k \in 1..Len(Destinations) /\ Len(Destinations) \in Nat
      /\ BlocksAreWritten /\ PlacesHold /\ tx \in TxPlaces
  BY DestinationFacts DEF MarkerIInv, MarkerTyped, Here, PlacesHold, TxPlaces
<1>1. /\ UNCHANGED <<disk, inodes, lost, plan, written, late, deleted>> /\ aside' \in {aside, Missing}
      /\ reported' = reported \/ reported' = reported \cup {Here}
  BY DEF CheckFile, WriteTemp, Recheck, CheckIdentity, UndoFile, UndoRecheck, UndoIdentity, CompareAside, TxDies,
         NoDisk, NoUser, GiveUp
<1>2. /\ \A f \in Destination : IsManaged(f)' <=> IsManaged(f)
      /\ reported \subseteq reported' /\ reported' \subseteq Destination
      /\ \A j \in 1..Len(Destinations) : IsManaged(Destinations[j])' <=> IsManaged(Destinations[j])
  BY <1>0, <1>1, DestinationFacts DEF IsManaged, MarkerTyped
<1>3. tx.at \in Forward => \A j \in tx.k..Len(Destinations) :
        written[Destinations[j]] = Missing /\ ~IsManaged(Destinations[j])
  BY <1>0, DestinationFacts, MissingAssumption
  DEF PlacesHold, NothingWrittenAhead, BlocksAreWritten, IsManaged
<1>4. CASE TxGoes("undo") /\ tx.at \in Forward
  <2>1. \A j \in (tx.k + 1)..Len(Destinations) : IsManaged(Destinations[j])' => Destinations[j] \in reported'
    BY <1>0, <1>2, <1>3, <1>4
  <2> QED
    BY <1>0, <1>1, <1>2, <1>4, <2>1, TurningBack, QuietStep DEF MarkerIInv
<1>5. CASE GiveUp /\ tx.at \in TurnedBack
  <2>1. \A j \in tx.k..Len(Destinations) : IsManaged(Destinations[j])' => Destinations[j] \in reported'
    BY <1>0, <1>2, <1>5 DEF GiveUp, PlacesHold, NothingLeftBehind
  <2> QED
    BY <1>0, <1>1, <1>2, <1>5, <2>1, UndoNextLeavesNothing, QuietStep DEF MarkerIInv, GiveUp
<1>6. CASE TxGoes("dead")
  <2>1. tx' \in TxPlaces /\ tx'.at = "dead"
    BY <1>0, <1>6, TxMoves DEF TxAt
  <2>2. PlacesHold'
    BY <2>1 DEF PlacesHold, NothingWrittenAhead, NothingLeftBehind, WindowHolds, AsideIsOurs, Forward, TurnedBack
  <2> QED
    BY <1>0, <1>1, <1>2, <2>1, <2>2, QuietStep DEF MarkerIInv, PlacesHold
<1>7. CASE NextFile /\ tx.at \in Forward
  <2>1. \A j \in (tx.k + 1)..Len(Destinations) : written'[Destinations[j]] = Missing
    BY <1>0, <1>1, <1>3, <1>7
  <2> QED
    BY <1>0, <1>1, <1>2, <1>7, <2>1, NextFileIsAhead, QuietStep DEF MarkerIInv
<1>8. ASSUME NEW s \in Forward, TxGoes(s), tx.at \in Forward,
             s \in {"identity", "install"} => disk[Here] = plan[Here] \/ Here \in late
      PROVE  MarkerIInv'
  <2>1. tx' \in TxPlaces /\ tx'.at = s /\ tx'.k = tx.k /\ Here' = Here
    BY <1>0, <1>8, TxStays DEF TxAt, Forward
  <2>2. PlacesHold'
    BY <1>1, <1>3, <1>8, <2>1
    DEF PlacesHold, NothingWrittenAhead, NothingLeftBehind, WindowHolds, AsideIsOurs, Forward, TurnedBack
  <2> QED
    BY <1>0, <1>1, <1>2, <2>1, <2>2, QuietStep DEF MarkerIInv, PlacesHold
<1>9. ASSUME NEW s \in TurnedBack, TxGoes(s), tx.at \in TurnedBack,
             s \in {"undo recheck", "undo identity", "undo install"} => plan[Here] # Missing /\ written[Here] # Missing,
             s \in {"undo identity", "undo install"} => disk[Here] = written[Here] \/ Here \in late,
             s \in {"away", "restore"} => plan[Here] = Missing,
             s = "restore" => tx.at = "compare" /\ UNCHANGED aside,
             s # "compare"
      PROVE  MarkerIInv'
  <2>1. tx' \in TxPlaces /\ tx'.at = s /\ tx'.k = tx.k /\ Here' = Here
    BY <1>0, <1>9, TxStays DEF TxAt, TurnedBack
  <2>2. NothingWrittenAhead' /\ WindowHolds'
    BY <1>1, <1>9, <2>1 DEF NothingWrittenAhead, WindowHolds, Forward, TurnedBack
  <2>3. NothingLeftBehind'
    <3>1. \A j \in (tx.k + 1)..Len(Destinations) : j \in 1..Len(Destinations)
      BY <1>0
    <3>2. \A j \in (tx.k + 1)..Len(Destinations) :
            IsManaged(Destinations[j])' => Destinations[j] \in reported'
      BY <1>0, <1>2, <1>9, <3>1 DEF PlacesHold, NothingLeftBehind
    <3>3. tx'.at # "failed"
      BY <2>1 DEF TurnedBack
    <3> QED
      BY <2>1, <3>2, <3>3 DEF NothingLeftBehind
  <2>4. AsideIsOurs'
    BY <1>0, <1>1, <1>2, <1>9, <2>1 DEF PlacesHold, AsideIsOurs, TurnedBack
  <2> QED
    BY <1>0, <1>1, <1>2, <2>1, <2>2, <2>3, <2>4, QuietStep DEF MarkerIInv
<1>10. CASE UndoNext /\ tx.at \in TurnedBack /\ ~IsManaged(Here)
  <2>1. \A j \in tx.k..Len(Destinations) : IsManaged(Destinations[j])' => Destinations[j] \in reported'
    BY <1>0, <1>2, <1>10 DEF PlacesHold, NothingLeftBehind
  <2> QED
    BY <1>0, <1>1, <1>2, <1>10, <2>1, UndoNextLeavesNothing, QuietStep DEF MarkerIInv
<1>11. CASE CheckFile
  BY <1>4, <1>7, <1>8, <1>11 DEF CheckFile, TxAtStep, Forward
<1>12. CASE WriteTemp
  BY <1>4, <1>8, <1>12 DEF WriteTemp, TxAtStep, Forward
<1>13. CASE Recheck
  BY <1>4, <1>8, <1>13 DEF Recheck, TxAtStep, Forward
<1>14. CASE CheckIdentity
  <2>1. disk[Here] = plan[Here] \/ Here \in late
    BY <1>0, <1>14 DEF CheckIdentity, TxAtStep, PlacesHold, WindowHolds
  <2> QED
    BY <1>4, <1>8, <1>14, <2>1 DEF CheckIdentity, TxAtStep, Forward
<1>15. CASE UndoFile
  <2>1. written[Here] = Missing => ~IsManaged(Here)
    BY <1>0 DEF BlocksAreWritten, IsManaged
  <2> QED
    BY <1>5, <1>9, <1>10, <1>15, <2>1 DEF UndoFile, TxAtStep, TurnedBack
<1>16. CASE UndoRecheck
  <2>1. plan[Here] # Missing /\ written[Here] # Missing
    BY <1>0, <1>16 DEF UndoRecheck, TxAtStep, PlacesHold, WindowHolds
  <2> QED
    BY <1>5, <1>9, <1>16, <2>1 DEF UndoRecheck, TxAtStep, TurnedBack
<1>17. CASE UndoIdentity
  <2>1. plan[Here] # Missing /\ written[Here] # Missing /\ (disk[Here] = written[Here] \/ Here \in late)
    BY <1>0, <1>17 DEF UndoIdentity, TxAtStep, PlacesHold, WindowHolds
  <2> QED
    BY <1>5, <1>9, <1>17, <2>1 DEF UndoIdentity, TxAtStep, TurnedBack
<1>18. CASE CompareAside
  <2>1. ~IsManaged(Here) /\ plan[Here] = Missing
    BY <1>0, <1>18 DEF CompareAside, TxAtStep, PlacesHold, AsideIsOurs
  <2> QED
    BY <1>9, <1>10, <1>18, <2>1 DEF CompareAside, TxAtStep, TurnedBack
<1> QED
  BY <1>6, <1>11, <1>12, <1>13, <1>14, <1>15, <1>16, <1>17, <1>18 DEF TxDies

LEMMA PlanFileStep == MarkerIInv /\ PlanFile => MarkerIInv'
<1> SUFFICES ASSUME MarkerIInv, PlanFile PROVE MarkerIInv'
  OBVIOUS
<1>0. /\ MarkerTyped /\ Here \in Destination /\ tx \in TxPlaces /\ tx.at = "plan"
      /\ tx.k \in 1..Len(Destinations) /\ Len(Destinations) \in Nat \ {0}
      /\ \A f \in Destination : written[f] = Missing /\ ~IsManaged(f)
  BY DestinationFacts, MissingAssumption
  DEF MarkerIInv, MarkerTyped, Here, TxPlaces, PlanFile, TxAtStep, NothingWrittenAhead, BlocksAreWritten, IsManaged
<1>1. tx' \in TxPlaces /\ tx'.at \in {"plan", "check"}
  <2>1. [at |-> "check", k |-> 1] \in TxPlaces
    <3>1. 1 \in 1..Len(Destinations)
      BY <1>0
    <3> QED
      BY <3>1 DEF TxPlaces, TxAt
  <2>2. tx.k # Len(Destinations) => [tx EXCEPT !.k = @ + 1] \in TxPlaces /\ [tx EXCEPT !.k = @ + 1].at = "plan"
    <3>1. tx.k # Len(Destinations) => tx.k + 1 \in 1..Len(Destinations)
      BY <1>0
    <3> QED
      BY <1>0, <3>1 DEF TxPlaces
  <2> QED
    BY <2>1, <2>2 DEF PlanFile
<1>2. MarkerTyped'
  BY <1>0, <1>1 DEF PlanFile, NoDisk, NoUser, MarkerTyped, TxPlaces
<1>3. \A f \in Destination : written'[f] = Missing /\ IsManaged(f)' = IsManaged(f)
  BY <1>0 DEF PlanFile, NoDisk, IsManaged
<1>4. BlocksAreWritten' /\ NeverVacant'
  <2>1. \A f \in Destination : plan'[f] = plan[f] \/ plan'[f] = disk[f]
    BY <1>0 DEF PlanFile, MarkerTyped
  <2>2. BlocksAreWritten'
    BY <1>0, <1>3, <2>1 DEF BlocksAreWritten, MarkerIInv, PlanFile, NoDisk, IsManaged
  <2> QED
    BY <2>1, <2>2 DEF NeverVacant, MarkerIInv, PlanFile, NoDisk, NoUser
<1>5. NothingWrittenAhead'
  BY <1>0, <1>1, <1>3, DestinationFacts DEF NothingWrittenAhead, TxPlaces
<1>6. NothingLeftBehind' /\ WindowHolds' /\ AsideIsOurs'
  BY <1>1 DEF NothingLeftBehind, WindowHolds, AsideIsOurs, TurnedBack
<1> QED
  BY <1>2, <1>4, <1>5, <1>6 DEF MarkerIInv, EditLostOnlyInWindow, PlanFile, NoDisk, NoUser

LEMMA InstallStep == MarkerIInv /\ Install => MarkerIInv'
<1> SUFFICES ASSUME MarkerIInv, Install PROVE MarkerIInv'
  OBVIOUS
<1>0. /\ MarkerTyped /\ Here \in Destination /\ Here = Destinations[tx.k] /\ tx \in TxPlaces /\ tx.at = "install"
      /\ tx.k \in 1..Len(Destinations) /\ Len(Destinations) \in Nat \ {0}
      /\ disk[Here] = plan[Here] \/ Here \in late
      /\ reported' = reported
  BY DestinationFacts
  DEF MarkerIInv, MarkerTyped, Here, TxPlaces, Install, TxAtStep, WindowHolds
<1>1. \A j \in (tx.k + 1)..Len(Destinations) :
        j \in 1..Len(Destinations) /\ Destinations[j] # Here
        /\ written[Destinations[j]] = Missing /\ ~IsManaged(Destinations[j])
  <2>1. \A j \in (tx.k + 1)..Len(Destinations) : j \in 1..Len(Destinations) /\ j # tx.k /\ j \in tx.k..Len(Destinations)
    BY <1>0
  <2>2. \A j \in (tx.k + 1)..Len(Destinations) : written[Destinations[j]] = Missing
    BY <1>0, <2>1 DEF MarkerIInv, NothingWrittenAhead, Forward
  <2> QED
    BY <1>0, <2>1, <2>2, DestinationFacts DEF MarkerIInv, BlocksAreWritten, IsManaged
<1>2. CASE plan[Here] = Missing /\ disk[Here] # Missing
  <2>1. TxGoes("undo") /\ NoDisk /\ UNCHANGED <<written, plan, late, deleted>>
    BY <1>2 DEF Install, NoUser
  <2>2. \A j \in (tx.k + 1)..Len(Destinations) : ~IsManaged(Destinations[j])'
    BY <1>1, <2>1 DEF IsManaged, NoDisk
  <2>3. tx' \in TxPlaces /\ NothingWrittenAhead' /\ NothingLeftBehind' /\ WindowHolds' /\ AsideIsOurs'
    BY <2>1, <2>2, TurningBack
  <2>4. reported' \subseteq Destination
    BY <1>0 DEF MarkerTyped
  <2> QED
    BY <1>0, <2>1, <2>3, <2>4, QuietStep DEF MarkerIInv, NoDisk
<1>3. CASE ~(plan[Here] = Missing /\ disk[Here] # Missing)
  <2>1. /\ disk' = [disk EXCEPT ![Here] = Fresh("managed")] /\ inodes' = inodes + 1
        /\ written' = [written EXCEPT ![Here] = Fresh("managed")]
        /\ lost' = Loses(Here) /\ UNCHANGED <<plan, aside, late, deleted>>
        /\ NextFile \/ TxGoes("undo")
    BY <1>3 DEF Install, NoUser
  <2>2. Fresh("managed") \in Entry /\ Fresh("managed") # Missing /\ Fresh("managed").text = "managed"
    BY <1>0, MissingAssumption DEF Fresh, Entry, Text, MarkerTyped
  <2>3. tx' \in TxPlaces
    BY <1>0, <2>1, TxMoves DEF TxAt
  <2>4. MarkerTyped'
    BY <1>0, <2>1, <2>2, <2>3 DEF MarkerTyped, Loses, TxPlaces
  <2>5. /\ disk'[Here] = Fresh("managed") /\ written'[Here] = Fresh("managed")
        /\ \A f \in Destination : f # Here => disk'[f] = disk[f] /\ written'[f] = written[f]
    BY <1>0, <2>1 DEF MarkerTyped
  <2>6. BlocksAreWritten'
    BY <2>1, <2>2, <2>5 DEF MarkerIInv, BlocksAreWritten, IsManaged
  <2>7. EditLostOnlyInWindow' /\ NeverVacant'
    BY <1>0, <2>1, <2>2, <2>5 DEF MarkerIInv, EditLostOnlyInWindow, NeverVacant, Loses
  <2>8. \A j \in (tx.k + 1)..Len(Destinations) :
          written'[Destinations[j]] = Missing /\ ~IsManaged(Destinations[j])'
    BY <1>1, <2>5, DestinationFacts DEF IsManaged
  <2>9. NothingWrittenAhead' /\ NothingLeftBehind' /\ WindowHolds' /\ AsideIsOurs'
    BY <1>0, <2>1, <2>8, NextFileIsAhead, TurningBack
  <2> QED
    BY <2>4, <2>6, <2>7, <2>9 DEF MarkerIInv
<1> QED
  BY <1>2, <1>3

\* Steps of the rollback that touch the file at its place.
LEMMA UndoFileSteps == MarkerIInv /\ (UndoInstall \/ MoveAway \/ RestoreAside) => MarkerIInv'
<1> SUFFICES ASSUME MarkerIInv, UndoInstall \/ MoveAway \/ RestoreAside PROVE MarkerIInv'
  OBVIOUS
<1>0. /\ MarkerTyped /\ Here \in Destination /\ Here = Destinations[tx.k] /\ tx \in TxPlaces
      /\ tx.k \in 1..Len(Destinations) /\ Len(Destinations) \in Nat \ {0}
      /\ tx.at \in {"undo install", "away", "restore"}
      /\ UNCHANGED <<plan, written, late, deleted>>
  BY DestinationFacts
  DEF MarkerIInv, MarkerTyped, Here, TxPlaces, UndoInstall, MoveAway, RestoreAside, TxAtStep, NoUser
<1>1. \A j \in (tx.k + 1)..Len(Destinations) :
        j \in 1..Len(Destinations) /\ Destinations[j] # Here
        /\ (IsManaged(Destinations[j]) => Destinations[j] \in reported)
  <2>1. \A j \in (tx.k + 1)..Len(Destinations) : j \in 1..Len(Destinations) /\ j # tx.k
    BY <1>0, PlacesBehind
  <2> QED
    BY <1>0, <2>1, DestinationFacts DEF MarkerIInv, NothingLeftBehind, TurnedBack
<1>2. ASSUME UndoNext, \A f \in Destination : f # Here => disk'[f] = disk[f],
             disk'[Here] # Missing /\ disk'[Here].text = "managed" => Here \in reported', reported \subseteq reported'
      PROVE  tx' \in TxPlaces /\ NothingWrittenAhead' /\ NothingLeftBehind' /\ WindowHolds' /\ AsideIsOurs'
  <2>1. \A j \in tx.k..Len(Destinations) : j = tx.k \/ j \in (tx.k + 1)..Len(Destinations)
    BY <1>0, PlacesBehind
  <2>2. \A j \in tx.k..Len(Destinations) : IsManaged(Destinations[j])' => Destinations[j] \in reported'
    BY <1>0, <1>1, <1>2, <2>1, DestinationFacts DEF IsManaged
  <2> QED
    BY <1>0, <1>2, <2>2, UndoNextLeavesNothing
<1>3. CASE UndoInstall
  <2>1. /\ plan[Here] # Missing /\ plan[Here] \in Entry /\ plan[Here].text # "managed"
        /\ disk[Here] = written[Here] \/ Here \in late
        /\ written[Here] # Missing /\ written[Here].text = "managed"
    BY <1>0, <1>3 DEF UndoInstall, TxAtStep, MarkerIInv, WindowHolds, BlocksAreWritten, MarkerTyped
  <2>2. /\ disk' = [disk EXCEPT ![Here] = Fresh(plan[Here].text)] /\ inodes' = inodes + 1
        /\ lost' = Loses(Here) /\ UndoNext /\ UNCHANGED <<reported, aside>>
    BY <1>3 DEF UndoInstall
  <2>3. Fresh(plan[Here].text) \in Entry /\ Fresh(plan[Here].text) # Missing /\ Fresh(plan[Here].text).text # "managed"
    <3>1. plan[Here].text \in Text
      BY <2>1 DEF Entry
    <3>0. inodes + 1 \in Nat
      <4>1. inodes \in Nat
        BY <1>0 DEF MarkerTyped
      <4> QED
        BY <4>1
    <3>2. Fresh(plan[Here].text) \in Entry /\ Fresh(plan[Here].text).text = plan[Here].text
      BY <3>0, <3>1 DEF Fresh, Entry
    <3> QED
      BY <2>1, <3>2, MissingAssumption
  <2>4. /\ disk'[Here] = Fresh(plan[Here].text)
        /\ \A f \in Destination : f # Here => disk'[f] = disk[f]
        /\ disk' \in [Destination -> Entry \cup {Missing}]
    BY <1>0, <2>2, <2>3 DEF MarkerTyped
  <2>5. tx' \in TxPlaces /\ NothingWrittenAhead' /\ NothingLeftBehind' /\ WindowHolds' /\ AsideIsOurs'
    BY <1>2, <2>2, <2>3, <2>4 DEF IsManaged
  <2>6. MarkerTyped'
    <3>1. inodes \in Nat /\ lost' \subseteq Destination
      BY <1>0, <2>2 DEF MarkerTyped, Loses
    <3>2. inodes' \in Nat
      BY <2>2, <3>1
    <3> QED
      BY <1>0, <2>2, <2>4, <2>5, <3>1, <3>2 DEF MarkerTyped, TxPlaces
  <2>7. BlocksAreWritten'
    BY <1>0, <2>3, <2>4 DEF MarkerIInv, BlocksAreWritten, IsManaged
  <2>8. lost' \subseteq late'
    BY <1>0, <2>1, <2>2 DEF MarkerIInv, EditLostOnlyInWindow, Loses
  <2>9. NeverVacant'
    BY <1>0, <2>3, <2>4 DEF MarkerIInv, NeverVacant
  <2> QED
    BY <2>5, <2>6, <2>7, <2>8, <2>9 DEF MarkerIInv, EditLostOnlyInWindow
<1>4. CASE MoveAway
  <2>1. plan[Here] = Missing
    BY <1>4 DEF MoveAway, TxAtStep, MarkerIInv, AsideIsOurs
  <2>2. CASE disk[Here] = Missing
    <3>1. GiveUp /\ NoDisk
      BY <1>4, <2>2 DEF MoveAway
    <3>2. reported' \subseteq Destination
      BY <1>0, <3>1 DEF GiveUp, MarkerTyped
    <3>3. tx' \in TxPlaces /\ NothingWrittenAhead' /\ NothingLeftBehind' /\ WindowHolds' /\ AsideIsOurs'
      BY <1>2, <3>1 DEF GiveUp, NoDisk
    <3> QED
      BY <1>0, <3>1, <3>2, <3>3, QuietStep DEF MarkerIInv, NoDisk, GiveUp
  <2>3. CASE disk[Here] # Missing
    <3>1. /\ aside' = disk[Here] /\ disk' = [disk EXCEPT ![Here] = Missing]
          /\ TxGoes("compare") /\ UNCHANGED <<inodes, lost, reported>>
      BY <1>4, <2>3 DEF MoveAway
    <3>2. /\ disk'[Here] = Missing /\ \A f \in Destination : f # Here => disk'[f] = disk[f]
          /\ disk' \in [Destination -> Entry \cup {Missing}] /\ aside' \in Entry
      BY <1>0, <2>3, <3>1 DEF MarkerTyped
    <3>3. tx' \in TxPlaces /\ tx'.at = "compare" /\ tx'.k = tx.k /\ Here' = Here
      BY <1>0, <3>1, TxStays DEF TxAt
    <3>4. MarkerTyped'
      BY <1>0, <3>1, <3>2, <3>3 DEF MarkerTyped, TxPlaces
    <3>5. BlocksAreWritten' /\ NeverVacant'
      BY <1>0, <2>1, <3>2 DEF MarkerIInv, BlocksAreWritten, NeverVacant, IsManaged
    <3>6. NothingWrittenAhead' /\ WindowHolds'
      BY <3>3 DEF NothingWrittenAhead, WindowHolds, Forward
    <3>7. NothingLeftBehind'
      BY <1>1, <3>1, <3>2, <3>3, DestinationFacts DEF NothingLeftBehind, IsManaged
    <3>8. AsideIsOurs'
      BY <1>0, <2>1, <2>3, <3>1, <3>2, <3>3 DEF AsideIsOurs, MarkerIInv, BlocksAreWritten, IsManaged
    <3> QED
      BY <1>0, <3>1, <3>4, <3>5, <3>6, <3>7, <3>8 DEF MarkerIInv, EditLostOnlyInWindow
  <2> QED
    BY <2>2, <2>3
<1>5. CASE RestoreAside
  <2>1. plan[Here] = Missing /\ aside # Missing /\ (aside.text = "managed" => aside = written[Here])
    BY <1>5 DEF RestoreAside, TxAtStep, MarkerIInv, AsideIsOurs
  <2>2. /\ \/ disk' = [disk EXCEPT ![Here] = aside] /\ aside' = Missing
           \/ UNCHANGED <<disk, aside>>
        /\ GiveUp /\ UNCHANGED <<inodes, lost>>
    BY <1>5 DEF RestoreAside
  <2>3. /\ disk'[Here] \in {aside, disk[Here]} /\ \A f \in Destination : f # Here => disk'[f] = disk[f]
        /\ disk' \in [Destination -> Entry \cup {Missing}] /\ aside' \in Entry \cup {Missing}
    BY <1>0, <2>2 DEF MarkerTyped
  <2>4. tx' \in TxPlaces /\ NothingWrittenAhead' /\ NothingLeftBehind' /\ WindowHolds' /\ AsideIsOurs'
    BY <1>2, <2>2, <2>3 DEF GiveUp
  <2>5. MarkerTyped'
    BY <1>0, <2>2, <2>3, <2>4 DEF MarkerTyped, GiveUp, TxPlaces
  <2>6. BlocksAreWritten'
    BY <1>0, <2>1, <2>3 DEF MarkerIInv, BlocksAreWritten, IsManaged
  <2>7. NeverVacant'
    BY <1>0, <2>1, <2>3 DEF MarkerIInv, NeverVacant
  <2> QED
    BY <1>0, <2>2, <2>4, <2>5, <2>6, <2>7 DEF MarkerIInv, EditLostOnlyInWindow
<1> QED
  BY <1>3, <1>4, <1>5

LEMMA UserEditsStep == MarkerIInv /\ (\E f \in Destination : UserEdits(f)) => MarkerIInv'
<1> SUFFICES ASSUME MarkerIInv, NEW f \in Destination, UserEdits(f) PROVE MarkerIInv'
  OBVIOUS
<1>0. /\ MarkerTyped /\ Here \in Destination /\ UNCHANGED <<plan, tx, written, aside, reported, lost>>
      /\ Here' = Here
  BY DestinationFacts DEF MarkerIInv, MarkerTyped, Here, UserEdits
<1>1. PICK e \in Entry \cup {Missing} :
        /\ disk' = [disk EXCEPT ![f] = e] /\ (e # Missing => e.text = "edit")
        /\ IF e = Missing THEN deleted' = deleted \cup {f} ELSE deleted' = deleted
        /\ inodes' \in Nat
  <2>1. CASE disk[f] # Missing /\ disk' = [disk EXCEPT ![f].text = "edit"] /\ UNCHANGED <<inodes, deleted>>
    <3>1. /\ [disk[f] EXCEPT !.text = "edit"] \in Entry
          /\ [disk[f] EXCEPT !.text = "edit"] # Missing /\ [disk[f] EXCEPT !.text = "edit"].text = "edit"
      BY <1>0, <2>1, MissingAssumption DEF MarkerTyped, Entry, Text
    <3> QED
      BY <1>0, <2>1, <3>1 DEF MarkerTyped
  <2>2. CASE disk' = [disk EXCEPT ![f] = Fresh("edit")] /\ inodes' = inodes + 1 /\ UNCHANGED deleted
    <3>1. Fresh("edit") \in Entry /\ Fresh("edit") # Missing /\ Fresh("edit").text = "edit" /\ inodes' \in Nat
      BY <1>0, <2>2, MissingAssumption DEF Fresh, Entry, Text, MarkerTyped
    <3> QED
      BY <2>2, <3>1
  <2>3. CASE /\ disk' = [disk EXCEPT ![f] = Missing] /\ deleted' = deleted \cup {f} /\ UNCHANGED inodes
    BY <1>0, <2>3 DEF MarkerTyped
  <2> QED
    BY <2>1, <2>2, <2>3 DEF UserEdits
<1>2. /\ disk'[f] = e /\ \A g \in Destination : g # f => disk'[g] = disk[g]
      /\ disk' \in [Destination -> Entry \cup {Missing}]
      /\ ~IsManaged(f)' /\ \A g \in Destination : IsManaged(g)' => IsManaged(g) /\ g # f
  BY <1>0, <1>1 DEF MarkerTyped, IsManaged
<1>3. late \subseteq late' /\ late' \subseteq Destination /\ (InWindow(f) => f \in late')
  BY <1>0 DEF UserEdits, MarkerTyped
<1>4. MarkerTyped'
  BY <1>0, <1>1, <1>2, <1>3 DEF MarkerTyped
<1>5. BlocksAreWritten' /\ NeverVacant' /\ EditLostOnlyInWindow'
  BY <1>0, <1>1, <1>2, <1>3 DEF MarkerIInv, BlocksAreWritten, NeverVacant, EditLostOnlyInWindow, IsManaged
<1>6. NothingWrittenAhead'
  BY <1>0 DEF MarkerIInv, NothingWrittenAhead
<1>7. NothingLeftBehind'
  <2>1. \A j \in (tx.k + 1)..Len(Destinations) : j \in 1..Len(Destinations)
    BY <1>0, DestinationFacts DEF MarkerTyped
  <2> QED
    BY <1>0, <1>2, <2>1, DestinationFacts DEF MarkerIInv, NothingLeftBehind
<1>8. WindowHolds'
  BY <1>0, <1>2, <1>3 DEF MarkerIInv, WindowHolds, InWindow
<1>9. AsideIsOurs'
  BY <1>0, <1>2 DEF MarkerIInv, AsideIsOurs
<1> QED
  BY <1>4, <1>5, <1>6, <1>7, <1>8, <1>9 DEF MarkerIInv

LEMMA MarkerIInvStep == MarkerIInv /\ [MarkerNext]_markerVars => MarkerIInv'
<1> SUFFICES ASSUME MarkerIInv, [MarkerNext]_markerVars PROVE MarkerIInv'
  OBVIOUS
<1>1. CASE UNCHANGED markerVars
  BY <1>1 DEF markerVars, MarkerIInv, MarkerTyped, BlocksAreWritten, NothingWrittenAhead, NothingLeftBehind,
     WindowHolds, AsideIsOurs, EditLostOnlyInWindow, NeverVacant, IsManaged, Here
<1>2. CASE MarkerNext
  BY <1>2, MarkerStepsWithoutFiles, PlanFileStep, InstallStep, UndoFileSteps, UserEditsStep DEF MarkerNext, TxStep
<1> QED
  BY <1>1, <1>2

\* Whatever the user saves, replaces or deletes meanwhile: an edit is lost only in the window after the
\* last check, a failed transaction reports what it could not undo, and a file is never away.
THEOREM MarkerTransactionIsSafe == MarkerSpec => []MarkerInv
<1>1. MarkerIInv /\ [MarkerNext]_markerVars => MarkerIInv'
  BY MarkerIInvStep
<1> QED
  BY <1>1, MarkerIInvInit, MarkerIInvImplies, PTL DEF MarkerSpec

-----------------------------------------------------------------------------
(* The standalone installation.  A crash forgets where the process was, so *)
(* what a journal, the receipt, the pointer and the launcher may be        *)
(* together is said first without it, and then place by place.             *)

CommandRow == [at : UpdaterAt, kind : {"none", "recover", "apply", "rollback", "install"}, target : 0..MaxRelease,
               sawReceipt : Receipt, sawJournal : Journal, newBad : BOOLEAN, own : BOOLEAN]
Command == {k \in CommandRow : k.kind # "none" => k.target \in Release}

StandaloneTyped ==
  /\ receipt \in Receipt /\ current \in 0..MaxRelease /\ launcher \in Launcher
  /\ tree \in [Release -> {"none", "whole", "torn"}] /\ inventory \subseteq Release
  /\ staged \subseteq {"runtime", "installer"} /\ spool \subseteq {"tree", "inventory"}
  /\ journal \in Journal /\ lockedBy \subseteq Updater
  /\ updater \in [Updater -> Command]
  /\ commits \in 0..MaxCommits /\ damaged \subseteq Release

\* On disk as its receipt says, but for what the disk lost.
Kept(v) == v \in inventory /\ (tree[v] = "whole" \/ v \in damaged)
WholeIsListed == \A v \in Release : tree[v] = "whole" => v \in inventory

WellFormed(r) ==
  /\ r.state = "active" => r.cur \in r.vers /\ r.prev \in r.vers \cup {None} /\ r.prev # r.cur
  /\ r.state # "active" => r.cur = None /\ r.prev = None /\ r.vers = {}

AtRest ==
  journal.op = "none" =>
    /\ journal = NoJournal /\ WellFormed(receipt) /\ current = receipt.cur
    /\ \A v \in receipt.vers : Kept(v)
    /\ \A v \in Release \ receipt.vers : tree[v] # "whole"
    /\ receipt.state = "active" => launcher \in {ViaCurrent, NoLauncher}
    /\ receipt.state # "active" => launcher \in {NoLauncher, Direct(Legacy)}

\* The launcher on the old release's own file.
Anchored == IF journal.oldLauncher = None THEN NoLauncher ELSE Direct(journal.oldLauncher)
WasActive == journal.old.state = "active"

\* What the journal says of the transaction, from its first write to its last.
Planned ==
  LET old == journal.old
      t == journal.target IN
  /\ WellFormed(old) /\ t \in Release /\ t # old.cur
  /\ journal.new.state = "active" /\ journal.new.cur = t
  /\ journal.new.prev = old.cur /\ journal.new.vers = old.vers \cup {t}
  /\ t \in old.vers <=> (journal.reused \/ journal.op = "rollback")
  /\ WasActive => journal.oldLauncher = old.cur
  /\ ~WasActive => journal.oldLauncher \in {None, Legacy}

\* What is on disk beside the release it brings.
Stored ==
  /\ \A v \in journal.old.vers : Kept(v)
  /\ \A v \in Release \ (journal.old.vers \cup {journal.target}) : tree[v] # "whole"

\* What leads to it.
Pointed ==
  LET t == journal.target IN
  /\ receipt \in {journal.old, journal.new} /\ current \in {journal.old.cur, t}
  /\ receipt = journal.new \/ current = t => Kept(t)
  /\ launcher \in {ViaCurrent, Anchored}
  /\ launcher = ViaCurrent /\ current = t => receipt = journal.new
  /\ receipt = journal.new => journal.phase \notin {"PREPARED", "VERSION_PUBLISHED"}
  /\ WasActive /\ journal.phase \in {"LAUNCHER_ACTIVATED", "COMMITTED"} => launcher = ViaCurrent

OpenTransaction == journal.op # "none" => Planned /\ Stored /\ Pointed

\* Who works holds the lock, alone.
Outside == {"idle", "lock"}
LockIsHeld ==
  /\ \A c \in Updater : updater[c].at \notin Outside => c \in lockedBy
  /\ \A c, d \in lockedBy : c = d

Early == {"PREPARED", "VERSION_PUBLISHED"}
Placing == {"inventory", "tree", "note tree"}
Before == Placing \cup {"anchor", "switch", "note current", "candidate", "pend", "commit"}
Undoing == {"undo current", "undo launcher", "undo receipt", "undo tree", "undo torn", "undo spool",
            "undo inventory", "undo journal"}

\* What was asked for and is confirmed by the receipt.
Confirmed(k) ==
  /\ k.at \in {"lock", "begin", "prepare", "stage"} \cup PublishAt => ~k.newBad
  /\ k.at \in {"lock", "begin", "prepare", "stage"} =>
       /\ k.target \in Release /\ k.kind \in {"recover", "apply", "rollback", "install"}
       /\ k.kind = "apply" => k.target > k.sawReceipt.cur
       /\ k.kind = "rollback" => k.target = k.sawReceipt.prev
  /\ k.at \in {"prepare", "stage"} \cup Before /\ k.kind \in {"apply", "rollback"} => receipt = k.sawReceipt
  /\ k.at \in {"prepare", "stage"} =>
       /\ journal.op = "none" /\ k.kind # "recover"
       /\ k.kind # "install" => ActiveLayout
  /\ k.at = "stage" => k.kind # "rollback" /\ (receipt.state = "active" => launcher = ViaCurrent)

\* How far a publication is.
Publishing(k) ==
  /\ k.at \in PublishAt => journal.op # "none"
  /\ k.at \in Before => receipt = journal.old
  /\ k.at \in Placing \cup {"anchor", "switch"} => current = journal.old.cur
  /\ k.at \in Placing \cup {"anchor"} /\ ~WasActive => launcher = Anchored
  /\ k.at \in Placing \cup {"anchor", "switch", "note current"} => journal.phase \in Early
  /\ k.at \in Placing => journal.target \notin journal.old.vers
  /\ k.at = "tree" => journal.target \in inventory
  /\ k.at \in PublishAt \ {"inventory", "tree"} => Kept(journal.target)
  /\ k.at \in {"switch", "note current", "candidate", "pend", "commit"} => launcher = Anchored
  /\ k.at \in PublishAt \ (Placing \cup {"anchor", "switch"}) => current = journal.target
  /\ k.at \in {"candidate", "pend"} => journal.phase = "CURRENT_ACTIVATED"
  /\ k.at \in {"commit", "note receipt", "activate"} => journal.phase \in {"CURRENT_ACTIVATED", "RECEIPT_COMMITTED"}
  /\ k.at \in PublishAt \ Before => receipt = journal.new
  /\ k.at \in {"smoke", "note launcher", "smoked", "note end", "end"} => launcher = ViaCurrent

\* How far a recovery is.
Recovered(k) ==
  /\ k.at \in Undoing \cup {"back current", "back launcher"} => journal.op # "none"
  /\ k.at \in {"back current", "back launcher"} =>
       receipt = journal.old /\ launcher = Anchored /\ journal.phase = "ROLLED_BACK"
  /\ k.at \in {"undo launcher", "undo receipt", "back launcher"} => current = journal.old.cur
  /\ k.at = "undo receipt" => launcher = RestoredLauncher
  /\ k.at \in {"undo tree", "undo torn", "undo spool", "undo inventory"} =>
       current = journal.old.cur /\ launcher = RestoredLauncher /\ receipt = journal.old
  /\ k.at \in Undoing \ {"undo journal"} /\ k.newBad => tree[journal.target] # "whole"
  /\ k.at \in {"undo spool", "undo inventory"} =>
       journal.target \in journal.old.vers \/ tree[journal.target] # "whole"
  /\ k.at = "undo journal" =>
       \/ /\ receipt = journal.new /\ current = journal.target /\ launcher = ViaCurrent
       \/ /\ receipt = journal.old /\ current = journal.old.cur /\ launcher = RestoredLauncher
          /\ journal.target \in journal.old.vers \/ tree[journal.target] # "whole"

Disk == StandaloneTyped /\ WholeIsListed /\ AtRest /\ OpenTransaction
Where(c) == Confirmed(updater[c]) /\ Publishing(updater[c]) /\ Recovered(updater[c])
StandaloneIInv == Disk /\ LockIsHeld /\ \A c \in Updater : Where(c)

-----------------------------------------------------------------------------
LEMMA Numbers ==
  /\ None \notin Release /\ Legacy \notin Release /\ Legacy # None
  /\ Release \subseteq 0..MaxRelease /\ None \in 0..MaxRelease /\ Legacy \in 0..Legacy
  /\ 0..MaxRelease \subseteq 0..Legacy /\ Legacy \notin 0..MaxRelease
  /\ \A v \in 0..MaxRelease : v = None \/ v \in Release
  /\ {1, 2} \subseteq Release
  BY StandaloneAssumption DEF Release, None, Legacy

LEMMA Launchers ==
  /\ ViaCurrent \in Launcher /\ NoLauncher \in Launcher /\ \A v \in 0..Legacy : Direct(v) \in Launcher
  /\ ViaCurrent # NoLauncher /\ ViaCurrent.via = "current" /\ NoLauncher.via = "none"
  /\ \A v \in 0..Legacy : /\ Direct(v).via = "direct" /\ Direct(v).to = v
                         /\ Direct(v) # ViaCurrent /\ Direct(v) # NoLauncher
  <1>1. None \in 0..Legacy
    BY Numbers
  <1>2. \A v \in 0..Legacy : Direct(v) \in Launcher
    BY DEF Direct, Launcher
  <1>3. ViaCurrent \in Launcher /\ NoLauncher \in Launcher
    BY <1>1 DEF ViaCurrent, NoLauncher, Launcher
  <1> QED
    BY <1>2, <1>3 DEF ViaCurrent, NoLauncher, Direct

\* What the launcher runs, with a transaction open.
LEMMA RunsInTransaction ==
  ASSUME StandaloneTyped, OpenTransaction, journal.op # "none"
  PROVE  /\ launcher = ViaCurrent => Runs = current
         /\ launcher # ViaCurrent => Runs = journal.oldLauncher
         /\ launcher # ViaCurrent /\ journal.oldLauncher # None => launcher = Direct(journal.oldLauncher)
         /\ launcher = NoLauncher => journal.oldLauncher = None
<1>1. launcher \in {ViaCurrent, Anchored} /\ journal.oldLauncher \in 0..Legacy
  BY DEF OpenTransaction, Pointed, StandaloneTyped, Journal
<1>2. CASE launcher = ViaCurrent
  BY <1>2, Launchers DEF Runs
<1>3. CASE launcher # ViaCurrent /\ journal.oldLauncher = None
  BY <1>1, <1>3, Launchers DEF Runs, Anchored
<1>4. CASE launcher # ViaCurrent /\ journal.oldLauncher # None
  BY <1>1, <1>4, Launchers DEF Runs, Anchored
<1> QED
  BY <1>2, <1>3, <1>4

LEMMA StartsCommittedHolds == Disk => StartsCommitted
<1> SUFFICES ASSUME Disk PROVE StartsCommitted
  OBVIOUS
<1>1. StandaloneTyped /\ AtRest /\ OpenTransaction
  BY DEF Disk
<1>2. CASE journal.op = "none"
  <2>1. /\ journal = NoJournal /\ WellFormed(receipt) /\ current = receipt.cur /\ \A v \in receipt.vers : Kept(v)
        /\ launcher \in {ViaCurrent, NoLauncher, Direct(Legacy)}
    BY <1>1, <1>2 DEF AtRest
  <2>2. Runs \in {None, Legacy, receipt.cur} /\ (launcher # NoLauncher => Runs \in {receipt.cur, Legacy})
    BY <2>1, Launchers, Numbers DEF Runs
  <2>3. ASSUME Runs \in Release PROVE tree[Runs] = "whole" \/ Runs \in damaged
    BY <2>1, <2>2, <2>3, Numbers DEF WellFormed, Kept
  <2> QED
    BY <2>1, <2>2, <2>3 DEF StartsCommitted
<1>3. CASE journal.op # "none"
  <2>1. Planned /\ Stored /\ Pointed /\ journal # NoJournal
    BY <1>1, <1>3 DEF OpenTransaction, NoJournal
  <2>2. CASE launcher = ViaCurrent
    <3>1. Runs = current /\ (current \in {receipt.cur, journal.old.cur})
      BY <1>1, <1>3, <2>1, <2>2, RunsInTransaction DEF Pointed, Planned
    <3>2. current \in Release => tree[current] = "whole" \/ current \in damaged
      BY <2>1, Numbers DEF Pointed, Planned, Stored, WellFormed, Kept
    <3> QED
      BY <2>1, <3>1, <3>2 DEF StartsCommitted
  <2>3. CASE launcher # ViaCurrent
    <3>1. Runs = journal.oldLauncher /\ (launcher # NoLauncher => journal.oldLauncher # None)
      BY <1>1, <1>3, <2>1, <2>3, RunsInTransaction DEF Pointed, Anchored
    <3>2. journal.oldLauncher \in {journal.old.cur, None, Legacy}
      BY <2>1 DEF Planned
    <3>3. journal.oldLauncher \in Release => Kept(journal.oldLauncher)
      BY <2>1, Numbers DEF Planned, Stored, WellFormed
    <3> QED
      BY <2>1, <3>1, <3>2, <3>3 DEF StartsCommitted, Kept
  <2> QED
    BY <2>2, <2>3
<1> QED
  BY <1>2, <1>3

LEMMA SettledAgreesHolds == Disk => SettledAgrees
<1> SUFFICES ASSUME Disk, journal = NoJournal PROVE SettledAgrees
  BY DEF SettledAgrees
<1>1. journal.op = "none" /\ AtRest
  BY DEF Disk, NoJournal
<1>2. receipt.state # "active" => Runs \in {None, Legacy}
  BY <1>1, Launchers, Numbers DEF AtRest, Runs
<1> QED
  BY <1>1, <1>2 DEF SettledAgrees, AtRest, SoundIn, Inventoried, WholeTree, Kept

LEMMA SomeoneRecoversHolds == Disk => SomeoneRecovers
<1> SUFFICES ASSUME Disk, journal # NoJournal, damaged = {}, WasActive PROVE CanRecover \/ InstallerAccepts
  BY DEF SomeoneRecovers, WasActive
<1>1. /\ StandaloneTyped /\ OpenTransaction /\ journal.op # "none"
      /\ Planned /\ Stored /\ Pointed
  BY DEF Disk, AtRest, OpenTransaction
<1> DEFINE o == journal.old.cur
<1>2. o \in Release /\ o # None /\ o # Legacy /\ Kept(o) /\ o \in journal.old.vers /\ journal.oldLauncher = o
      /\ journal.target \in Release /\ journal.target # None /\ journal.target # o
      /\ journal.new.cur = journal.target
  <2>1. o \in journal.old.vers /\ journal.old.vers \subseteq Release
    BY <1>1 DEF Planned, WasActive, WellFormed, StandaloneTyped, Journal, Receipt
  <2> QED
    BY <1>1, <2>1, Numbers DEF Planned, Stored
<1>3. OldActiveIsSound(journal.old)
  BY <1>2 DEF OldActiveIsSound, SoundIn, Inventoried, WholeTree, Kept
<1>4. ~Dangling /\ Runs \in {o, journal.target}
  BY <1>1, <1>2, RunsInTransaction, Launchers DEF Pointed, Dangling, Anchored
<1>5. LauncherOfJournal
  BY <1>2, <1>4 DEF LauncherOfJournal
<1>6. journal.old # journal.new
  BY <1>2
<1>7. CASE receipt = journal.old \/ journal.pending
  <2>1. ~(~journal.pending /\ receipt = journal.new /\ current = journal.target)
    BY <1>6, <1>7
  <2> QED
    BY <1>1, <1>3, <1>5, <1>7, <2>1 DEF CanRecover, WasActive, Pointed
<1>8. CASE receipt = journal.new /\ ~journal.pending /\ current = journal.target
  <2>1. SoundIn(journal.new, journal.target)
    BY <1>1, <1>8 DEF Pointed, Kept, SoundIn, Inventoried, WholeTree, Planned
  <2> QED
    BY <1>5, <1>8, <2>1 DEF CanRecover
<1>9. CASE receipt = journal.new /\ ~journal.pending /\ current = o
  <2>1. Runs = o /\ launcher # NoLauncher
    BY <1>1, <1>2, <1>9, RunsInTransaction
  <2>2. launcher = ViaCurrent \/ journal.phase \in {"CURRENT_ACTIVATED", "RECEIPT_COMMITTED", "ROLLED_BACK"}
    BY <1>1, <1>9 DEF Pointed, StandaloneTyped, Journal, Phases, WasActive
  <2> QED
    BY <1>2, <1>4, <1>9, <2>1, <2>2 DEF InstallerAccepts, CanonicalLauncher
<1> QED
  BY <1>1, <1>7, <1>8, <1>9 DEF Pointed

LEMMA StandaloneIInvImplies == StandaloneIInv => StandaloneInv
<1> SUFFICES ASSUME StandaloneIInv PROVE StandaloneInv
  OBVIOUS
<1>1. Disk /\ LockIsHeld /\ StandaloneTyped
  BY DEF StandaloneIInv, Disk
<1>2. Cardinality(lockedBy) <= 1
  <2>1. lockedBy = {} \/ \E c : lockedBy = {c}
    BY <1>1 DEF LockIsHeld
  <2>2. Cardinality({}) = 0 /\ \A c : Cardinality({c}) = 1
    BY FS_EmptySet, FS_Singleton
  <2>3. CASE lockedBy = {}
    BY <2>2, <2>3
  <2>4. ASSUME NEW c, lockedBy = {c} PROVE Cardinality(lockedBy) <= 1
    <3>1. Cardinality(lockedBy) = 1
      BY <2>2, <2>4
    <3> QED
      BY <3>1
  <2> QED
    BY <2>1, <2>3, <2>4
<1>3. StandaloneTypeOK
  BY <1>1, <1>2 DEF StandaloneTyped, StandaloneTypeOK, Command, CommandRow
<1> QED
  BY <1>1, <1>3, StartsCommittedHolds, SettledAgreesHolds, SomeoneRecoversHolds DEF StandaloneInv

LEMMA NothingYet ==
  /\ NoReceipt \in Receipt /\ Initializing \in Receipt /\ NoJournal \in Journal /\ NoCommand \in Command
  /\ WellFormed(NoReceipt) /\ WellFormed(Initializing)
  /\ NoReceipt.cur = None /\ NoReceipt.vers = {} /\ NoReceipt.state = "none"
  /\ Initializing.cur = None /\ Initializing.vers = {} /\ Initializing.state = "initializing"
  /\ NoJournal.op = "none" /\ NoCommand.at = "idle" /\ NoCommand.newBad = FALSE
<1>1. None \in 0..MaxRelease /\ 0 \in 0..MaxCommits /\ {} \in SUBSET Release /\ None \in 0..Legacy
  BY Numbers, StandaloneAssumption
<1>2. NoReceipt \in Receipt
  BY <1>1 DEF NoReceipt, Receipt
<1>3. Initializing = [state |-> "initializing", cur |-> None, prev |-> None, vers |-> {}, stamp |-> 0]
  BY DEF Initializing, NoReceipt
<1>4. Initializing \in Receipt
  BY <1>1, <1>3 DEF Receipt
<1>5. NoJournal \in Journal
  <2> HIDE DEF Receipt, NoReceipt
  <2> QED
    BY <1>1, <1>2 DEF NoJournal, Journal, Phases
<1>6. NoCommand \in Command
  BY <1>1, <1>2, <1>5 DEF NoCommand, Command, CommandRow, UpdaterAt
<1> QED
  BY <1>2, <1>3, <1>4, <1>5, <1>6 DEF NoReceipt, NoJournal, NoCommand, WellFormed

LEMMA StandaloneIInvInit == StandaloneInit => StandaloneIInv
<1> SUFFICES ASSUME StandaloneInit PROVE StandaloneIInv
  OBVIOUS
<1>1. /\ staged = {} /\ spool = {} /\ journal = NoJournal /\ lockedBy = {}
      /\ updater = [c \in Updater |-> NoCommand] /\ commits = 0 /\ damaged = {}
  BY DEF StandaloneInit
<1>2. /\ receipt \in Receipt /\ current \in 0..MaxRelease /\ launcher \in Launcher
      /\ tree \in [Release -> {"none", "whole", "torn"}] /\ inventory \subseteq Release
      /\ WholeIsListed /\ WellFormed(receipt) /\ current = receipt.cur
      /\ \A v \in receipt.vers : Kept(v)
      /\ \A v \in Release \ receipt.vers : tree[v] # "whole"
      /\ receipt.state = "active" => launcher \in {ViaCurrent, NoLauncher}
      /\ receipt.state # "active" => launcher \in {NoLauncher, Direct(Legacy)}
  <2>1. CASE /\ receipt = NoReceipt /\ current = None
             /\ launcher \in {NoLauncher, Direct(Legacy)}
             /\ tree = [v \in Release |-> "none"] /\ inventory = {}
    <3>1. receipt \in Receipt /\ current \in 0..MaxRelease /\ launcher \in Launcher
      BY <2>1, NothingYet, Numbers, Launchers
    <3>2. WellFormed(receipt) /\ current = receipt.cur /\ receipt.vers = {} /\ receipt.state = "none"
      BY <2>1, NothingYet
    <3> QED
      BY <2>1, <3>1, <3>2 DEF WholeIsListed
  <2>2. ASSUME NEW n \in {1, 2}, NEW cur \in {1, 2}, NEW prev \in {0, 1}, cur = n, prev # cur, prev < n, Installed(cur, prev, n),
               launcher \in {ViaCurrent, NoLauncher}
        PROVE  /\ receipt \in Receipt /\ current \in 0..MaxRelease /\ launcher \in Launcher
               /\ tree \in [Release -> {"none", "whole", "torn"}] /\ inventory \subseteq Release
               /\ WholeIsListed /\ WellFormed(receipt) /\ current = receipt.cur
               /\ \A v \in receipt.vers : Kept(v)
               /\ \A v \in Release \ receipt.vers : tree[v] # "whole"
               /\ receipt.state = "active"
    <3>1. /\ receipt = [state |-> "active", cur |-> cur, prev |-> prev, vers |-> 1..n, stamp |-> 0]
          /\ current = cur /\ inventory = 1..n
          /\ tree = [v \in Release |-> IF v <= n THEN "whole" ELSE "none"]
      BY <2>2 DEF Installed
    <3>2. /\ 1..n \subseteq Release /\ cur \in 1..n /\ prev \in 1..n \cup {None} /\ cur \in 0..MaxRelease
          /\ prev \in 0..MaxRelease /\ 0 \in 0..MaxCommits
      BY <2>2, StandaloneAssumption DEF Release, None
    <3>3. \A v \in Release : v <= n <=> v \in 1..n
      BY <2>2, StandaloneAssumption DEF Release
    <3> HIDE DEF Release
    <3>4. receipt \in Receipt
      BY <3>1, <3>2 DEF Receipt
    <3>5. WellFormed(receipt)
      BY <2>2, <3>1, <3>2 DEF WellFormed
    <3>6. \A v \in Release : tree[v] = "whole" <=> v \in 1..n
      BY <3>1, <3>3
    <3> QED
      BY <2>2, <3>1, <3>2, <3>4, <3>5, <3>6, Launchers DEF WholeIsListed, Kept
  <2>3. CASE Installed(1, None, 1) /\ launcher \in {ViaCurrent, NoLauncher}
    <3>1. None \in {0, 1} /\ None # 1 /\ None < 1
      BY DEF None
    <3> QED
      BY <2>2, <2>3, <3>1
  <2>4. CASE Installed(2, 1, 2) /\ launcher = ViaCurrent
    BY <2>2, <2>4
  <2> QED
    BY <2>1, <2>3, <2>4 DEF StandaloneInit
<1>3. 0 \in 0..MaxCommits /\ updater \in [Updater -> Command] /\ \A c \in Updater : updater[c] = NoCommand
  BY <1>1, NothingYet, StandaloneAssumption
<1>4. Disk
  BY <1>1, <1>2, <1>3, NothingYet DEF Disk, StandaloneTyped, AtRest, OpenTransaction
<1>5. LockIsHeld
  BY <1>1, <1>3, NothingYet DEF LockIsHeld, Outside
<1>6. ASSUME NEW c \in Updater PROVE Where(c)
  BY <1>3, NothingYet DEF Where, Confirmed, Publishing, Recovered, PublishAt, Undoing, Before, Placing
<1> QED
  BY <1>4, <1>5, <1>6 DEF StandaloneIInv

-----------------------------------------------------------------------------
(* Frames: what a step leaves alone                                        *)

LEMMA Waits ==
  ASSUME StandaloneTyped, StandaloneTyped', NEW d \in Updater, updater'[d] = updater[d], updater[d].at \in Outside, Where(d)
  PROVE  Where(d)'
  BY DEF Where, Confirmed, Publishing, Recovered, Outside, PublishAt, Undoing, Before, Placing

\* Who holds the lock works alone: the others wait.
LEMMA HolderKeeps ==
  ASSUME StandaloneIInv, NEW c \in Updater, updater[c].at \notin Outside, Disk', Where(c)', lockedBy' = lockedBy,
         \A d \in Updater \ {c} : updater'[d] = updater[d]
  PROVE  StandaloneIInv'
<1>1. c \in lockedBy /\ lockedBy \subseteq {c}
  BY DEF StandaloneIInv, LockIsHeld
<1>2. ASSUME NEW d \in Updater, d # c PROVE updater[d].at \in Outside /\ updater'[d] = updater[d] /\ Where(d)'
  <2>1. updater[d].at \in Outside /\ updater'[d] = updater[d] /\ Where(d) /\ StandaloneTyped /\ StandaloneTyped'
    BY <1>1, <1>2 DEF StandaloneIInv, LockIsHeld, Disk
  <2> QED
    BY <2>1, Waits
<1>3. LockIsHeld'
  BY <1>1, <1>2 DEF LockIsHeld
<1> QED
  BY <1>2, <1>3 DEF StandaloneIInv

LEMMA EndKeeps ==
  ASSUME StandaloneIInv, NEW c \in Updater, updater[c].at \notin Outside, Disk', UpdaterEnds(c)
  PROVE  StandaloneIInv'
<1>1. /\ updater'[c] = NoCommand /\ lockedBy' = lockedBy \ {c} /\ StandaloneTyped /\ StandaloneTyped'
      /\ \A d \in Updater \ {c} : updater'[d] = updater[d]
      /\ c \in lockedBy /\ lockedBy \subseteq {c}
  BY DEF UpdaterEnds, StandaloneIInv, Disk, StandaloneTyped, LockIsHeld
<1>2. Where(c)'
  BY <1>1, NothingYet DEF Where, Confirmed, Publishing, Recovered, PublishAt, Undoing, Before, Placing
<1>3. ASSUME NEW d \in Updater, d # c PROVE updater'[d].at \in Outside /\ Where(d)'
  <2>1. updater[d].at \in Outside /\ updater'[d] = updater[d] /\ Where(d)
    BY <1>1, <1>3 DEF StandaloneIInv, LockIsHeld
  <2> QED
    BY <1>1, <2>1, Waits
<1>4. LockIsHeld'
  BY <1>1, <1>3, NothingYet DEF LockIsHeld, Outside
<1> QED
  BY <1>2, <1>3, <1>4 DEF StandaloneIInv

\* The row of a process that goes on.
LEMMA Goes ==
  ASSUME StandaloneTyped, NEW c \in Updater, NEW s \in UpdaterAt, UpdaterGoes(c, s)
  PROVE  /\ updater' \in [Updater -> Command] /\ \A d \in Updater \ {c} : updater'[d] = updater[d]
         /\ updater'[c].at = s /\ updater'[c].kind = updater[c].kind /\ updater'[c].target = updater[c].target
         /\ updater'[c].sawReceipt = updater[c].sawReceipt /\ updater'[c].newBad = updater[c].newBad
<1> DEFINE r == [updater[c] EXCEPT !.at = s]
<1>1. updater \in [Updater -> Command] /\ updater' = [updater EXCEPT ![c] = r]
  BY DEF UpdaterGoes, StandaloneTyped
<1>2. /\ r \in Command /\ r.at = s /\ r.kind = updater[c].kind /\ r.target = updater[c].target
      /\ r.sawReceipt = updater[c].sawReceipt /\ r.newBad = updater[c].newBad
  BY <1>1 DEF Command, CommandRow
<1> HIDE DEF r
<1> QED
  BY <1>1, <1>2

\* The transaction stays what it was when only its progress is noted.
SameTransaction ==
  /\ journal'.op = journal.op /\ journal'.target = journal.target /\ journal'.old = journal.old
  /\ journal'.new = journal.new /\ journal'.oldLauncher = journal.oldLauncher /\ journal'.reused = journal.reused

LEMMA Noted ==
  ASSUME journal \in Journal, NEW phase \in Phases, NEW pending \in BOOLEAN,
         journal' = [journal EXCEPT !.phase = phase, !.pending = pending]
  PROVE  journal' \in Journal /\ SameTransaction /\ journal'.phase = phase /\ journal'.pending = pending
<1> HIDE DEF Phases
<1> QED
  BY DEF Journal, SameTransaction

LEMMA PhaseNoted ==
  ASSUME journal \in Journal, NEW phase \in Phases, journal' = [journal EXCEPT !.phase = phase]
  PROVE  journal' \in Journal /\ SameTransaction /\ journal'.phase = phase /\ journal'.pending = journal.pending
  BY DEF Journal, SameTransaction

LEMMA PlannedStays == Planned /\ SameTransaction => Planned'
  BY DEF Planned, SameTransaction, WasActive

LEMMA StoredStays == Stored /\ SameTransaction /\ UNCHANGED <<tree, inventory, damaged>> => Stored'
  BY DEF Stored, SameTransaction, Kept

LEMMA JournalStays == UNCHANGED journal => SameTransaction
  BY DEF SameTransaction

LEMMA DiskStays ==
  ASSUME Disk, UNCHANGED <<receipt, current, launcher, tree, inventory, journal, damaged, commits>>,
         staged' \subseteq {"runtime", "installer"}, spool' \subseteq {"tree", "inventory"},
         lockedBy' \subseteq Updater, updater' \in [Updater -> Command]
  PROVE  Disk'
<1>1. StandaloneTyped' /\ WholeIsListed'
  BY DEF Disk, StandaloneTyped, WholeIsListed
<1>2. AtRest'
  BY DEF Disk, AtRest, Kept
<1>3. OpenTransaction'
  <2>1. SameTransaction /\ UNCHANGED <<tree, inventory, damaged>>
    BY JournalStays
  <2>2. Pointed => Pointed'
    BY DEF Pointed, Kept, Anchored, WasActive
  <2> QED
    BY <2>1, <2>2, PlannedStays, StoredStays DEF Disk, OpenTransaction
<1> QED
  BY <1>1, <1>2, <1>3 DEF Disk

LEMMA Untouched ==
  ASSUME NEW d \in Updater, Where(d), updater'[d] = updater[d],
         UNCHANGED <<receipt, current, launcher, tree, inventory, journal, damaged>>
  PROVE  Where(d)'
<1>1. Confirmed(updater[d])'
  BY DEF Where, Confirmed, ActiveLayout
<1>2. Publishing(updater[d])'
  <2> DEFINE at == updater[d].at
             keptNow == Kept(journal.target)
  <2>1. Kept(journal.target)' <=> keptNow
    BY DEF Kept
  <2>2. Anchored' = Anchored /\ (WasActive' <=> WasActive)
    BY DEF Anchored, WasActive
  <2>3. /\ at \in PublishAt => journal'.op # "none"
        /\ at \in Before => receipt' = journal'.old
        /\ at \in Placing \cup {"anchor", "switch"} => current' = journal'.old.cur
        /\ at \in Placing \cup {"anchor"} /\ ~WasActive => launcher' = Anchored
        /\ at \in Placing \cup {"anchor", "switch", "note current"} => journal'.phase \in Early
        /\ at \in Placing => journal'.target \notin journal'.old.vers
        /\ at = "tree" => journal'.target \in inventory'
        /\ at \in PublishAt \ {"inventory", "tree"} => keptNow
    BY DEF Where, Publishing
  <2>4. /\ at \in {"switch", "note current", "candidate", "pend", "commit"} => launcher' = Anchored
        /\ at \in PublishAt \ (Placing \cup {"anchor", "switch"}) => current' = journal'.target
        /\ at \in {"candidate", "pend"} => journal'.phase = "CURRENT_ACTIVATED"
        /\ at \in {"commit", "note receipt", "activate"} => journal'.phase \in {"CURRENT_ACTIVATED", "RECEIPT_COMMITTED"}
        /\ at \in PublishAt \ Before => receipt' = journal'.new
        /\ at \in {"smoke", "note launcher", "smoked", "note end", "end"} => launcher' = ViaCurrent
    BY DEF Where, Publishing
  <2>5. updater'[d].at = at
    OBVIOUS
  <2> HIDE DEF at, keptNow
  <2> QED
    BY <2>1, <2>2, <2>3, <2>4, <2>5 DEF Publishing
<1>3. Recovered(updater[d])'
  BY DEF Where, Recovered, Anchored, RestoredLauncher
<1> QED
  BY <1>1, <1>2, <1>3 DEF Where

LEMMA Pieces ==
  ASSUME StandaloneIInv, NEW c \in Updater
  PROVE  /\ Disk /\ StandaloneTyped /\ WholeIsListed /\ AtRest /\ OpenTransaction /\ LockIsHeld
         /\ Where(c) /\ Confirmed(updater[c]) /\ Publishing(updater[c]) /\ Recovered(updater[c])
         /\ updater[c] \in Command
  BY DEF StandaloneIInv, Disk, Where, StandaloneTyped

-----------------------------------------------------------------------------
(* A command begins                                                        *)

LEMMA AskKeeps == ASSUME StandaloneIInv, NEW c \in Updater, Ask(c) PROVE StandaloneIInv'
<1>1. PICK kind \in {"recover", "apply", "rollback", "install"}, v \in Release :
        /\ kind = "apply" => v > receipt.cur
        /\ kind = "rollback" => v = receipt.prev
        /\ updater' = [updater EXCEPT ![c] =
            [NoCommand EXCEPT !.at = "lock", !.kind = kind, !.target = v,
                              !.sawReceipt = IF kind = "install" THEN NoReceipt ELSE receipt,
                              !.sawJournal = IF kind = "recover" THEN journal ELSE NoJournal]]
  BY DEF Ask
<1> DEFINE seen == IF kind = "install" THEN NoReceipt ELSE receipt
           read == IF kind = "recover" THEN journal ELSE NoJournal
           r == [NoCommand EXCEPT !.at = "lock", !.kind = kind, !.target = v, !.sawReceipt = seen, !.sawJournal = read]
<1>2. updater[c].at = "idle" /\ UNCHANGED <<receipt, current, launcher, tree, inventory, journal, damaged, commits, staged, spool, lockedBy>>
  BY DEF Ask, UpdaterIs, Trees, Pointers, Bounds
<1>3. seen \in Receipt /\ read \in Journal /\ v \in 0..MaxRelease /\ updater' = [updater EXCEPT ![c] = r]
  BY <1>1, Pieces, NothingYet, Numbers DEF StandaloneTyped
<1>4. (kind \in {"apply", "rollback"} => seen = receipt)
  OBVIOUS
<1> HIDE DEF seen, read
<1>5. r \in Command /\ r.at = "lock" /\ r.kind = kind /\ r.target = v /\ r.sawReceipt = seen /\ ~r.newBad
  BY <1>3, NothingYet DEF Command, CommandRow, UpdaterAt
<1> HIDE DEF r
<1>6. updater' \in [Updater -> Command] /\ updater'[c] = r /\ \A d \in Updater \ {c} : updater'[d] = updater[d]
  BY <1>3, <1>5, Pieces DEF StandaloneTyped
<1>7. Disk'
  BY <1>2, <1>6, DiskStays, Pieces DEF StandaloneTyped
<1>8. Where(c)'
  BY <1>1, <1>4, <1>5, <1>6 DEF Where, Confirmed, Publishing, Recovered, PublishAt, Undoing, Before, Placing
<1>9. \A d \in Updater : Where(d)'
  BY <1>2, <1>6, <1>8, Untouched DEF StandaloneIInv
<1>10. LockIsHeld'
  BY <1>2, <1>5, <1>6, Pieces DEF LockIsHeld, Outside
<1> QED
  BY <1>7, <1>9, <1>10 DEF StandaloneIInv

LEMMA TakeLockKeeps == ASSUME StandaloneIInv, NEW c \in Updater, TakeLock(c) PROVE StandaloneIInv'
<1>1. /\ updater[c].at = "lock" /\ lockedBy = {} /\ lockedBy' = {c} /\ UpdaterGoes(c, "begin") /\ "begin" \in UpdaterAt
      /\ UNCHANGED <<receipt, current, launcher, tree, inventory, journal, damaged, commits, staged, spool>>
  BY DEF TakeLock, UpdaterIs, Trees, Pointers, Bounds, UpdaterAt
<1>2. /\ updater' \in [Updater -> Command] /\ \A d \in Updater \ {c} : updater'[d] = updater[d]
      /\ updater'[c].at = "begin" /\ updater'[c].kind = updater[c].kind /\ updater'[c].target = updater[c].target
      /\ updater'[c].sawReceipt = updater[c].sawReceipt /\ updater'[c].newBad = updater[c].newBad
  BY <1>1, Pieces, Goes
<1>3. Disk'
  BY <1>1, <1>2, DiskStays, Pieces DEF StandaloneTyped
<1>4. Where(c)'
  BY <1>1, <1>2, Pieces DEF Where, Confirmed, Publishing, Recovered, PublishAt, Undoing, Before, Placing
<1>5. \A d \in Updater : Where(d)'
  BY <1>1, <1>2, <1>4, Untouched DEF StandaloneIInv
<1>6. LockIsHeld'
  BY <1>1, <1>2, Pieces DEF LockIsHeld, Outside
<1> QED
  BY <1>3, <1>5, <1>6 DEF StandaloneIInv

LEMMA BeginKeeps == ASSUME StandaloneIInv, NEW c \in Updater, Begin(c) PROVE StandaloneIInv'
<1>1. /\ updater[c].at = "begin" /\ updater[c].at \notin Outside
      /\ UNCHANGED <<receipt, current, launcher, tree, inventory, journal, damaged, commits, staged, spool>>
      /\ {"recover", "prepare"} \subseteq UpdaterAt /\ updater[c].kind \in {"recover", "apply", "rollback", "install"}
  BY Pieces DEF Begin, UpdaterIs, Trees, Pointers, Bounds, Outside, UpdaterAt, UndoAt, Confirmed
<1>2. CASE UpdaterEnds(c)
  <2>1. Disk'
    BY <1>1, <1>2, Pieces, DiskStays, NothingYet DEF UpdaterEnds, StandaloneTyped
  <2> QED
    BY <1>1, <1>2, <2>1, EndKeeps
<1>3. ASSUME NEW s \in {"recover", "prepare"}, UpdaterGoes(c, s), lockedBy' = lockedBy,
             s = "prepare" => /\ journal = NoJournal /\ updater[c].kind # "recover"
                              /\ updater[c].kind # "install" => receipt = updater[c].sawReceipt /\ ActiveLayout
      PROVE  StandaloneIInv'
  <2>1. /\ updater' \in [Updater -> Command] /\ \A d \in Updater \ {c} : updater'[d] = updater[d]
        /\ updater'[c].at = s /\ updater'[c].kind = updater[c].kind /\ updater'[c].target = updater[c].target
        /\ updater'[c].sawReceipt = updater[c].sawReceipt /\ updater'[c].newBad = updater[c].newBad
    BY <1>1, <1>3, Pieces, Goes
  <2>2. Disk'
    BY <1>1, <1>3, <2>1, DiskStays, Pieces DEF StandaloneTyped
  <2>3. ActiveLayout' <=> ActiveLayout
    BY <1>1 DEF ActiveLayout
  <2>4. Confirmed(updater[c])'
    BY <1>1, <1>3, <2>1, <2>3, Pieces, NothingYet DEF Confirmed, PublishAt, Before, Placing
  <2>5. Publishing(updater[c])' /\ Recovered(updater[c])'
    BY <1>3, <2>1 DEF Publishing, Recovered, PublishAt, Undoing, Before, Placing
  <2> QED
    BY <1>1, <1>3, <2>1, <2>2, <2>4, <2>5, HolderKeeps DEF Where
<1>4. CASE updater[c].kind = "recover"
  BY <1>2, <1>3, <1>4 DEF Begin
<1>5. CASE updater[c].kind = "install"
  BY <1>2, <1>3, <1>5 DEF Begin
<1>6. CASE updater[c].kind \in {"apply", "rollback"}
  BY <1>2, <1>3, <1>6 DEF Begin
<1> QED
  BY <1>1, <1>4, <1>5, <1>6

-----------------------------------------------------------------------------
(* A process dies, a release rots                                          *)

LEMMA UpdaterDiesKeeps == ASSUME StandaloneIInv, NEW c \in Updater, UpdaterDies(c) PROVE StandaloneIInv'
<1>1. /\ UNCHANGED <<receipt, current, launcher, tree, inventory, journal, damaged, commits, staged, spool>>
      /\ UpdaterEnds(c)
  BY DEF UpdaterDies, Trees, Pointers
<1>2. /\ updater' \in [Updater -> Command] /\ updater'[c] = NoCommand /\ lockedBy' = lockedBy \ {c}
      /\ \A d \in Updater \ {c} : updater'[d] = updater[d]
  BY <1>1, Pieces, NothingYet DEF UpdaterEnds, StandaloneTyped
<1>3. Disk'
  BY <1>1, <1>2, DiskStays, Pieces DEF StandaloneTyped
<1>4. Where(c)'
  BY <1>2, NothingYet DEF Where, Confirmed, Publishing, Recovered, PublishAt, Undoing, Before, Placing
<1>5. \A d \in Updater : Where(d)'
  BY <1>1, <1>2, <1>4, Untouched DEF StandaloneIInv
<1>6. LockIsHeld'
  BY <1>2, Pieces, NothingYet DEF LockIsHeld, Outside
<1> QED
  BY <1>3, <1>5, <1>6 DEF StandaloneIInv

LEMMA TreeRotsKeeps == ASSUME StandaloneIInv, NEW v \in Release, TreeRots(v) PROVE StandaloneIInv'
<1>1. /\ UNCHANGED <<receipt, current, launcher, inventory, journal, commits, staged, spool, updater, lockedBy>>
      /\ damaged' = damaged \cup {v} /\ tree' = [tree EXCEPT ![v] = "torn"]
      /\ Disk /\ StandaloneTyped /\ LockIsHeld
  BY DEF TreeRots, Pointers, StandaloneIInv, Disk
<1>2. /\ tree' \in [Release -> {"none", "whole", "torn"}] /\ damaged' \subseteq Release
      /\ \A u \in Release : tree'[u] = "whole" => tree[u] = "whole"
      /\ \A u \in Release : tree[u] = "whole" \/ u \in damaged => tree'[u] = "whole" \/ u \in damaged'
  BY <1>1 DEF StandaloneTyped
<1>3. \A u \in Release : Kept(u) => Kept(u)'
  BY <1>1, <1>2 DEF Kept
<1>4. StandaloneTyped' /\ WholeIsListed'
  BY <1>1, <1>2 DEF StandaloneTyped, WholeIsListed, Disk
<1>5. AtRest'
  <2>1. receipt.vers \subseteq Release
    BY <1>1 DEF StandaloneTyped, Receipt
  <2> QED
    BY <1>1, <1>2, <1>3, <2>1 DEF Disk, AtRest
<1>6. OpenTransaction'
  <2> SUFFICES ASSUME journal.op # "none" PROVE Planned' /\ Stored' /\ Pointed'
    BY <1>1 DEF OpenTransaction
  <2>1. Planned /\ Stored /\ Pointed /\ SameTransaction /\ journal.old.vers \subseteq Release /\ journal.target \in Release
    BY <1>1, JournalStays DEF Disk, OpenTransaction, Planned, StandaloneTyped, Journal, Receipt
  <2>2. Stored'
    BY <1>1, <1>2, <1>3, <2>1 DEF Stored
  <2>3. Pointed'
    BY <1>1, <1>3, <2>1 DEF Pointed, Anchored, WasActive
  <2> QED
    BY <2>1, <2>2, <2>3, PlannedStays
<1>7. ASSUME NEW c \in Updater PROVE Where(c)'
  <2>1. Confirmed(updater[c])'
    BY <1>1, Pieces DEF Confirmed, ActiveLayout
  <2>2. journal.op # "none" => journal.target \in Release
    BY <1>1 DEF Disk, OpenTransaction, Planned
  <2>3. Publishing(updater[c])'
    BY <1>1, <1>3, <2>2, Pieces DEF Publishing, Anchored, WasActive
  <2>4. Recovered(updater[c])'
    BY <1>1, <1>2, <2>2, Pieces DEF Recovered, Anchored, RestoredLauncher, Undoing
  <2> QED
    BY <2>1, <2>3, <2>4 DEF Where
<1> QED
  BY <1>1, <1>4, <1>5, <1>6, <1>7 DEF StandaloneIInv, Disk, LockIsHeld

-----------------------------------------------------------------------------
(* The steps of a publication                                              *)

LEMMA Open ==
  ASSUME StandaloneIInv, NEW c \in Updater,
         updater[c].at \in PublishAt \cup Undoing \cup {"back current", "back launcher"} \/ journal.op # "none"
  PROVE  /\ journal.op # "none" /\ Planned /\ Stored /\ Pointed
         /\ journal.target \in Release /\ journal.old \in Receipt /\ journal.new \in Receipt
         /\ journal.old.cur \in 0..MaxRelease /\ journal.old.vers \subseteq Release /\ journal \in Journal
         /\ journal.oldLauncher \in 0..Legacy
<1>1. journal.op # "none"
  BY Pieces DEF Publishing, Recovered
<1> QED
  BY <1>1, Pieces DEF OpenTransaction, Planned, StandaloneTyped, Journal, Receipt

LEMMA Places ==
  /\ PublishAt \subseteq UpdaterAt \ Outside /\ UndoAt \subseteq UpdaterAt \ Outside
  /\ {"prepare", "stage"} \subseteq UpdaterAt \ Outside
  /\ Before \subseteq PublishAt /\ Placing \subseteq Before /\ Undoing \subseteq UndoAt
  /\ PublishAt \cap UndoAt = {} /\ {"prepare", "stage"} \cap (PublishAt \cup UndoAt) = {}
  BY DEF PublishAt, UndoAt, UpdaterAt, Outside, Before, Placing, Undoing

\* What is the same as long as the transaction and the disk are.
LEMMA ProgressStays ==
  ASSUME SameTransaction
  PROVE  /\ Anchored' = Anchored /\ (WasActive' <=> WasActive) /\ RestoredLauncher' = RestoredLauncher
         /\ UNCHANGED <<tree, inventory, damaged>> => (Kept(journal.target)' <=> Kept(journal.target))
  BY DEF SameTransaction, Anchored, WasActive, RestoredLauncher, Kept

LEMMA DiskOpen ==
  ASSUME StandaloneTyped', WholeIsListed', journal'.op # "none", Planned', Stored', Pointed'
  PROVE  Disk'
  BY DEF Disk, AtRest, OpenTransaction

\* A process goes on in a publication, or turns to recover.
LEMMA Continues ==
  ASSUME StandaloneIInv, NEW c \in Updater, NEW s \in PublishAt, UpdaterGoes(c, s), lockedBy' = lockedBy,
         updater[c].at \in {"prepare", "stage"} \cup PublishAt,
         s \in Before => updater[c].at \in {"prepare", "stage"} \cup Before /\ receipt' = receipt,
         Disk', Publishing(updater[c])'
  PROVE  StandaloneIInv'
<1>1. /\ s \in UpdaterAt /\ s \notin UndoAt /\ s \notin {"lock", "begin", "prepare", "stage"}
      /\ updater[c].at \notin Outside /\ StandaloneTyped
  BY Places, Pieces DEF PublishAt, UndoAt, Outside
<1>2. /\ \A d \in Updater \ {c} : updater'[d] = updater[d]
      /\ updater'[c].at = s /\ updater'[c].kind = updater[c].kind
      /\ updater'[c].sawReceipt = updater[c].sawReceipt /\ updater'[c].newBad = updater[c].newBad
  BY <1>1, Goes
<1>3. ~updater[c].newBad /\ (s \in Before /\ updater[c].kind \in {"apply", "rollback"} => receipt = updater[c].sawReceipt)
  BY Pieces DEF Confirmed
<1>4. Confirmed(updater[c])'
  BY <1>1, <1>2, <1>3 DEF Confirmed
<1>5. Recovered(updater[c])'
  BY <1>1, <1>2, Places DEF Recovered, UndoAt, Undoing
<1> QED
  BY <1>1, <1>2, <1>4, <1>5, HolderKeeps DEF Where

LEMMA TurnsBack ==
  ASSUME StandaloneIInv, NEW c \in Updater, NEW s \in UndoAt, updater[c].at \notin Outside,
         updater'[c].at = s, \A d \in Updater \ {c} : updater'[d] = updater[d],
         lockedBy' = lockedBy, Disk', Recovered(updater[c])'
  PROVE  StandaloneIInv'
<1>1. s \in UpdaterAt /\ s \notin PublishAt /\ s \notin Before /\ s \notin Placing /\ StandaloneTyped
      /\ s \notin {"lock", "begin", "prepare", "stage"} /\ s \notin {"switch", "note current", "candidate", "pend", "commit"}
  BY Places, Pieces DEF PublishAt, UndoAt, Placing, Before
<1>3. Confirmed(updater[c])'
  BY <1>1 DEF Confirmed
<1>4. Publishing(updater[c])'
  BY <1>1 DEF Publishing, UndoAt, PublishAt, Placing
<1> QED
  BY <1>3, <1>4, HolderKeeps DEF Where

LEMMA PublishInventoryKeeps == ASSUME StandaloneIInv, NEW c \in Updater, PublishInventory(c) PROVE StandaloneIInv'
<1>1. /\ updater[c].at = "inventory" /\ UpdaterGoes(c, "tree") /\ lockedBy' = lockedBy
      /\ inventory' = inventory \cup {journal.target} /\ spool' = spool \ {"inventory"}
      /\ UNCHANGED <<receipt, current, launcher, tree, journal, damaged, commits, staged>>
      /\ {"inventory", "tree"} \subseteq Before /\ "tree" \in UpdaterAt
  BY DEF PublishInventory, UpdaterIs, Pointers, Bounds, Before, Placing, UpdaterAt, PublishAt
<1>2. /\ receipt = journal.old /\ current = journal.old.cur /\ journal.phase \in Early
      /\ journal.target \notin journal.old.vers /\ (~WasActive => launcher = Anchored)
  BY <1>1, Pieces DEF Publishing, Placing
<1>3. /\ Planned /\ Stored /\ Pointed /\ journal.op # "none" /\ journal.target \in Release /\ SameTransaction
  BY <1>1, Open, Places, JournalStays
<1>4. \A v \in Release : Kept(v) => Kept(v)'
  BY <1>1 DEF Kept
<1>5. StandaloneTyped' /\ WholeIsListed'
  <2>1. updater' \in [Updater -> Command]
    BY <1>1, Goes, Pieces
  <2> QED
    BY <1>1, <1>3, <2>1, Pieces DEF StandaloneTyped, WholeIsListed
<1>6. Stored'
  BY <1>1, <1>3, <1>4, Open DEF Stored
<1>7. Pointed'
  BY <1>1, <1>3, <1>4, ProgressStays DEF Pointed
<1>8. Disk'
  BY <1>1, <1>3, <1>5, <1>6, <1>7, DiskOpen, PlannedStays
<1>9. Publishing(updater[c])'
  <2>1. updater'[c].at = "tree"
    BY <1>1, Goes, Pieces
  <2> QED
    BY <1>1, <1>2, <1>3, <2>1, ProgressStays DEF Publishing, PublishAt, Before, Placing
<1> QED
  BY <1>1, <1>8, <1>9, Continues, Places

LEMMA PublishTreeKeeps == ASSUME StandaloneIInv, NEW c \in Updater, PublishTree(c) PROVE StandaloneIInv'
<1>1. /\ updater[c].at = "tree" /\ UpdaterGoes(c, "note tree") /\ lockedBy' = lockedBy
      /\ tree' = [tree EXCEPT ![journal.target] = "whole"] /\ spool' = spool \ {"tree"}
      /\ UNCHANGED <<receipt, current, launcher, inventory, journal, damaged, commits, staged>>
      /\ {"tree", "note tree"} \subseteq Before /\ "note tree" \in UpdaterAt
  BY DEF PublishTree, UpdaterIs, Pointers, Bounds, Before, Placing, UpdaterAt, PublishAt
<1>2. /\ receipt = journal.old /\ current = journal.old.cur /\ journal.phase \in Early
      /\ journal.target \notin journal.old.vers /\ (~WasActive => launcher = Anchored) /\ journal.target \in inventory
  BY <1>1, Pieces DEF Publishing, Placing
<1>3. /\ Planned /\ Stored /\ Pointed /\ journal.op # "none" /\ journal.target \in Release /\ SameTransaction
  BY <1>1, Open, Places, JournalStays
<1>4. /\ tree' \in [Release -> {"none", "whole", "torn"}] /\ tree'[journal.target] = "whole"
      /\ \A v \in Release \ {journal.target} : tree'[v] = tree[v]
  BY <1>1, <1>3, Pieces DEF StandaloneTyped
<1>5. (\A v \in Release : Kept(v) => Kept(v)') /\ Kept(journal.target)'
  BY <1>1, <1>2, <1>3, <1>4 DEF Kept
<1>6. StandaloneTyped' /\ WholeIsListed'
  <2>1. updater' \in [Updater -> Command]
    BY <1>1, Goes, Pieces
  <2> QED
    BY <1>1, <1>2, <1>4, <2>1, Pieces DEF StandaloneTyped, WholeIsListed
<1>7. Stored'
  BY <1>1, <1>3, <1>4, <1>5, Open DEF Stored
<1>8. Pointed'
  BY <1>1, <1>3, <1>5, ProgressStays DEF Pointed
<1>9. Disk'
  BY <1>1, <1>3, <1>6, <1>7, <1>8, DiskOpen, PlannedStays
<1>10. Publishing(updater[c])'
  <2>1. updater'[c].at = "note tree"
    BY <1>1, Goes, Pieces
  <2> QED
    BY <1>1, <1>2, <1>3, <1>5, <2>1, ProgressStays DEF Publishing, PublishAt, Before, Placing
<1> QED
  BY <1>1, <1>9, <1>10, Continues, Places

LEMMA JournalMoves ==
  ASSUME StandaloneIInv, NEW c \in Updater, updater[c].at \in PublishAt, SameTransaction, journal' \in Journal,
         UNCHANGED <<receipt, current, launcher, tree, inventory, damaged, commits, staged, spool, lockedBy>>,
         updater' \in [Updater -> Command],
         receipt = journal.new => journal'.phase \notin Early,
         WasActive /\ journal'.phase \in {"LAUNCHER_ACTIVATED", "COMMITTED"} => launcher = ViaCurrent
  PROVE  Disk'
<1>1. /\ journal'.op # "none" /\ Planned' /\ Stored' /\ Pointed
  BY Open, PlannedStays, StoredStays DEF SameTransaction
<1>2. Pointed'
  <2>1. Kept(journal.target)' <=> Kept(journal.target)
    BY ProgressStays
  <2>2. Anchored' = Anchored /\ (WasActive' <=> WasActive)
    BY ProgressStays
  <2>3. journal'.old = journal.old /\ journal'.new = journal.new /\ journal'.target = journal.target
    BY DEF SameTransaction
  <2> QED
    BY <1>1, <2>1, <2>2, <2>3 DEF Pointed, Early
<1>3. StandaloneTyped' /\ WholeIsListed'
  BY Pieces DEF StandaloneTyped, WholeIsListed
<1> QED
  BY <1>1, <1>2, <1>3, DiskOpen

LEMMA PointersMove ==
  ASSUME StandaloneIInv, journal.op # "none", NEW c \in Updater, 
         UNCHANGED <<tree, inventory, journal, damaged, commits, staged, spool, lockedBy>>,
         updater' \in [Updater -> Command],
         receipt' \in Receipt, current' \in 0..MaxRelease, launcher' \in Launcher, Pointed'
  PROVE  Disk'
<1>1. /\ journal'.op # "none" /\ Planned' /\ Stored'
  BY Open, PlannedStays, StoredStays, JournalStays
<1>2. StandaloneTyped' /\ WholeIsListed'
  BY Pieces DEF StandaloneTyped, WholeIsListed
<1> QED
  BY <1>1, <1>2, DiskOpen

\* A progress note, and where the publication goes on.
LEMMA NoteKeeps ==
  ASSUME StandaloneIInv, NEW c \in Updater, NEW phase \in Phases, NEW s \in PublishAt,
         updater[c].at \in PublishAt, Note(c, phase, s), s \in Before => updater[c].at \in Before,
         receipt = journal.new => phase \notin Early,
         WasActive /\ phase \in {"LAUNCHER_ACTIVATED", "COMMITTED"} => launcher = ViaCurrent,
         SameTransaction /\ journal'.phase = phase /\ updater'[c].at = s => Publishing(updater[c])'
  PROVE  StandaloneIInv'
<1>1. /\ UpdaterGoes(c, s) /\ journal' = [journal EXCEPT !.phase = phase] /\ s \in UpdaterAt /\ StandaloneTyped
      /\ UNCHANGED <<receipt, current, launcher, tree, inventory, damaged, commits, staged, spool, lockedBy>>
  BY Places, Pieces DEF Note, Trees, Pointers, Bounds
<1>2. SameTransaction /\ journal'.phase = phase /\ journal' \in Journal
  BY <1>1, PhaseNoted DEF StandaloneTyped
<1>3. updater' \in [Updater -> Command] /\ updater'[c].at = s
  BY <1>1, Goes
<1>4. Disk'
  BY <1>1, <1>2, <1>3, JournalMoves
<1> QED
  BY <1>1, <1>2, <1>3, <1>4, Continues

LEMMA NoteTreeKeeps == ASSUME StandaloneIInv, NEW c \in Updater, NoteTree(c) PROVE StandaloneIInv'
<1>1. /\ updater[c].at = "note tree" /\ Note(c, "VERSION_PUBLISHED", "anchor") /\ "VERSION_PUBLISHED" \in Phases \cap Early
      /\ {"note tree", "anchor"} \subseteq Before
  BY DEF NoteTree, UpdaterIs, Phases, Early, Before, Placing
<1>2. /\ receipt = journal.old /\ current = journal.old.cur /\ (~WasActive => launcher = Anchored)
      /\ Kept(journal.target) /\ journal.op # "none" /\ journal.old.cur # journal.target /\ journal.new.cur = journal.target
  BY <1>1, Pieces, Open, Places DEF Publishing, Placing, PublishAt, Planned
<1>3. receipt # journal.new
  BY <1>2
<1>4. ASSUME SameTransaction, journal'.phase = "VERSION_PUBLISHED", updater'[c].at = "anchor"
      PROVE  Publishing(updater[c])'
  <2>1. /\ UNCHANGED <<receipt, current, launcher, tree, inventory, damaged>>
    BY <1>1 DEF Note, Trees, Pointers, Bounds
  <2>2. /\ Anchored' = Anchored /\ (WasActive' <=> WasActive) /\ Kept(journal.target)'
    BY <1>2, <1>4, <2>1, ProgressStays
  <2> QED
    BY <1>1, <1>2, <1>4, <2>1, <2>2 DEF Publishing, PublishAt, Before, Placing, SameTransaction
<1> QED
  BY <1>1, <1>3, <1>4, NoteKeeps, Places

LEMMA NoteCurrentKeeps == ASSUME StandaloneIInv, NEW c \in Updater, NoteCurrent(c) PROVE StandaloneIInv'
<1>1. /\ updater[c].at = "note current" /\ Note(c, "CURRENT_ACTIVATED", "candidate")
      /\ "CURRENT_ACTIVATED" \in Phases \ Early /\ {"note current", "candidate"} \subseteq Before
  BY DEF NoteCurrent, UpdaterIs, Phases, Early, Before, Placing
<1>2. /\ receipt = journal.old /\ current = journal.target /\ launcher = Anchored
      /\ Kept(journal.target) /\ journal.op # "none"
  BY <1>1, Pieces DEF Publishing, Placing, PublishAt, Before
<1>4. ASSUME SameTransaction, journal'.phase = "CURRENT_ACTIVATED", updater'[c].at = "candidate"
      PROVE  Publishing(updater[c])'
  <2>1. /\ UNCHANGED <<receipt, current, launcher, tree, inventory, damaged>>
    BY <1>1 DEF Note, Trees, Pointers, Bounds
  <2>2. /\ Anchored' = Anchored /\ (WasActive' <=> WasActive) /\ Kept(journal.target)'
    BY <1>2, <1>4, <2>1, ProgressStays
  <2> QED
    BY <1>1, <1>2, <1>4, <2>1, <2>2 DEF Publishing, PublishAt, Before, Placing, SameTransaction
<1> QED
  BY <1>1, <1>4, NoteKeeps, Places

\* After the commit the transaction is the new release's.
Committed == receipt = journal.new /\ current = journal.target /\ Kept(journal.target) /\ journal.op # "none"

LEMMA CommittedIs ==
  ASSUME StandaloneIInv, NEW c \in Updater, updater[c].at \in PublishAt \ Before
  PROVE  Committed /\ (updater[c].at \notin {"note receipt", "activate"} => launcher = ViaCurrent)
  BY Pieces DEF Publishing, PublishAt, Before, Placing, Committed

LEMMA CommittedGoesOn ==
  ASSUME StandaloneIInv, NEW c \in Updater, Committed', updater'[c].at \in PublishAt \ Before,
         updater'[c].at = "activate" => journal'.phase \in {"CURRENT_ACTIVATED", "RECEIPT_COMMITTED"},
         updater'[c].at = "note receipt" => journal'.phase \in {"CURRENT_ACTIVATED", "RECEIPT_COMMITTED"},
         updater'[c].at \in {"smoke", "note launcher", "smoked", "note end", "end"} => launcher' = ViaCurrent
  PROVE  Publishing(updater[c])'
  BY DEF Publishing, PublishAt, Before, Placing, Committed

LEMMA LateNoteKeeps ==
  ASSUME StandaloneIInv, NEW c \in Updater, NEW phase \in Phases \ Early, NEW s \in PublishAt \ Before,
         updater[c].at \in PublishAt \ Before, Note(c, phase, s),
         phase # "RECEIPT_COMMITTED" \/ s # "activate" => launcher = ViaCurrent, s # "note receipt",
         s = "activate" => phase = "RECEIPT_COMMITTED"
  PROVE  StandaloneIInv'
<1>1. /\ UNCHANGED <<receipt, current, launcher, tree, inventory, damaged>> /\ Committed
  BY CommittedIs DEF Note, Trees, Pointers, Bounds
<1>2. ASSUME SameTransaction, journal'.phase = phase, updater'[c].at = s
      PROVE  Publishing(updater[c])'
  <2>1. Committed'
    BY <1>1, <1>2, ProgressStays DEF Committed, SameTransaction
  <2> QED
    BY <1>1, <1>2, <2>1, CommittedGoesOn
<1> QED
  BY <1>1, <1>2, NoteKeeps

LEMMA NoteReceiptKeeps == ASSUME StandaloneIInv, NEW c \in Updater, NoteReceipt(c) PROVE StandaloneIInv'
<1>1. /\ updater[c].at = "note receipt" /\ Note(c, "RECEIPT_COMMITTED", "activate")
      /\ "RECEIPT_COMMITTED" \in Phases \ Early /\ {"note receipt", "activate"} \subseteq PublishAt \ Before
  BY DEF NoteReceipt, UpdaterIs, Phases, Early, Before, Placing, PublishAt
<1> QED
  BY <1>1, LateNoteKeeps

LEMMA NoteLauncherKeeps == ASSUME StandaloneIInv, NEW c \in Updater, NoteLauncher(c) PROVE StandaloneIInv'
<1> DEFINE s == IF Installer(c) THEN "note end" ELSE "smoke"
<1>1. /\ updater[c].at = "note launcher" /\ Note(c, "LAUNCHER_ACTIVATED", s) /\ s \notin {"activate", "note receipt"}
      /\ "LAUNCHER_ACTIVATED" \in Phases \ Early /\ "note launcher" \in PublishAt \ Before /\ s \in PublishAt \ Before
  BY DEF NoteLauncher, UpdaterIs, Phases, Early, Before, Placing, PublishAt
<1>2. launcher = ViaCurrent
  BY <1>1, CommittedIs
<1> HIDE DEF s
<1> QED
  BY <1>1, <1>2, LateNoteKeeps

LEMMA NoteCommittedKeeps == ASSUME StandaloneIInv, NEW c \in Updater, NoteCommitted(c) PROVE StandaloneIInv'
<1>1. /\ updater[c].at = "note end" /\ Note(c, "COMMITTED", "end")
      /\ "COMMITTED" \in Phases \ Early /\ {"note end", "end"} \subseteq PublishAt \ Before
  BY DEF NoteCommitted, UpdaterIs, Phases, Early, Before, Placing, PublishAt
<1>2. launcher = ViaCurrent
  BY <1>1, CommittedIs
<1> QED
  BY <1>1, <1>2, LateNoteKeeps

LEMMA AnchorLauncherKeeps == ASSUME StandaloneIInv, NEW c \in Updater, AnchorLauncher(c) PROVE StandaloneIInv'
<1>1. /\ updater[c].at = "anchor" /\ UpdaterGoes(c, "switch") /\ lockedBy' = lockedBy
      /\ launcher' = (IF journal.oldLauncher = None THEN launcher ELSE Direct(journal.oldLauncher))
      /\ UNCHANGED <<receipt, current, tree, inventory, journal, damaged, commits, staged, spool, lockedBy>>
      /\ {"anchor", "switch"} \subseteq Before
  BY DEF AnchorLauncher, UpdaterIs, Trees, Bounds, Before, Placing
<1>2. /\ receipt = journal.old /\ current = journal.old.cur /\ journal.phase \in Early
      /\ (~WasActive => launcher = Anchored) /\ Kept(journal.target)
  BY <1>1, Pieces DEF Publishing, Placing, PublishAt
<1>3. /\ Planned /\ Pointed /\ journal.op # "none" /\ SameTransaction /\ journal.oldLauncher \in 0..Legacy
      /\ updater' \in [Updater -> Command] /\ updater'[c].at = "switch"
  <2>1. updater[c].at \in PublishAt /\ updater'[c].at \in UpdaterAt
    <3>1. updater[c].at \in PublishAt /\ StandaloneTyped
      BY <1>1, Places, Pieces
    <3>2. updater'[c].at \in UpdaterAt
      BY <1>1, <3>1, Goes, Places
    <3> QED
      BY <3>1, <3>2
  <2>2. /\ Planned /\ Pointed /\ journal.op # "none" /\ journal.new \in Receipt /\ journal.oldLauncher \in 0..Legacy
        /\ journal.target \in 0..MaxRelease
    BY <2>1, Open, Numbers
  <2>3. SameTransaction
    BY <1>1, JournalStays
  <2> QED
    BY <1>1, <2>2, <2>3, Places, Goes, Pieces
<1>4. launcher' = Anchored /\ launcher' \in Launcher
  <2>1. CASE journal.oldLauncher = None
    <3>1. ~WasActive
      BY <1>3, <2>1, Numbers, Open DEF Planned, WasActive, WellFormed
    <3> QED
      BY <1>1, <1>2, <2>1, <3>1, Pieces DEF StandaloneTyped
  <2>2. CASE journal.oldLauncher # None
    BY <1>1, <1>3, <2>2, Launchers DEF Anchored
  <2> QED
    BY <2>1, <2>2
<1>5. /\ Anchored' = Anchored /\ (WasActive' <=> WasActive) /\ (Kept(journal.target)' <=> Kept(journal.target))
  BY <1>1, <1>3, ProgressStays
<1>6. Pointed'
  BY <1>1, <1>2, <1>3, <1>4, <1>5, Pieces DEF Pointed, Early, Planned
<1>7. Disk'
  BY <1>1, <1>3, <1>4, <1>6, PointersMove, Pieces DEF StandaloneTyped
<1>8. Publishing(updater[c])'
  BY <1>1, <1>2, <1>3, <1>4, <1>5 DEF Publishing, PublishAt, Before, Placing
<1> QED
  BY <1>1, <1>7, <1>8, Continues, Places

LEMMA SwitchCurrentKeeps == ASSUME StandaloneIInv, NEW c \in Updater, SwitchCurrent(c) PROVE StandaloneIInv'
<1>1. /\ updater[c].at = "switch" /\ UpdaterGoes(c, "note current") /\ current' = journal.target
      /\ UNCHANGED <<receipt, launcher, tree, inventory, journal, damaged, commits, staged, spool, lockedBy>>
      /\ {"note current", "switch"} \subseteq Before
  BY DEF SwitchCurrent, UpdaterIs, Trees, Bounds, Before, Placing
<1>2. /\ receipt = journal.old /\ journal.phase \in Early /\ launcher = Anchored /\ Kept(journal.target)
  BY <1>1, Pieces DEF Publishing, Placing, PublishAt
<1>3. /\ Planned /\ Pointed /\ journal.op # "none" /\ SameTransaction /\ journal.oldLauncher \in 0..Legacy
      /\ updater' \in [Updater -> Command] /\ updater'[c].at = "note current" /\ journal.target \in 0..MaxRelease
  <2>1. updater[c].at \in PublishAt /\ updater'[c].at \in UpdaterAt
    <3>1. updater[c].at \in PublishAt /\ StandaloneTyped
      BY <1>1, Places, Pieces
    <3>2. updater'[c].at \in UpdaterAt
      BY <1>1, <3>1, Goes, Places
    <3> QED
      BY <3>1, <3>2
  <2>2. /\ Planned /\ Pointed /\ journal.op # "none" /\ journal.new \in Receipt /\ journal.oldLauncher \in 0..Legacy
        /\ journal.target \in 0..MaxRelease
    BY <2>1, Open, Numbers
  <2>3. SameTransaction
    BY <1>1, JournalStays
  <2> QED
    BY <1>1, <2>2, <2>3, Places, Goes, Pieces
<1>4. launcher # ViaCurrent
  BY <1>2, <1>3, Launchers DEF Anchored
<1>5. /\ Anchored' = Anchored /\ (WasActive' <=> WasActive) /\ (Kept(journal.target)' <=> Kept(journal.target))
  BY <1>1, <1>3, ProgressStays
<1>6. Pointed'
  BY <1>1, <1>2, <1>3, <1>4, <1>5 DEF Pointed
<1>7. Disk'
  BY <1>1, <1>3, <1>6, PointersMove, Pieces DEF StandaloneTyped
<1>8. Publishing(updater[c])'
  BY <1>1, <1>2, <1>3, <1>5 DEF Publishing, PublishAt, Before, Placing
<1> QED
  BY <1>1, <1>7, <1>8, Continues, Places

LEMMA CommitReceiptKeeps == ASSUME StandaloneIInv, NEW c \in Updater, CommitReceipt(c) PROVE StandaloneIInv'
<1> DEFINE s == IF Installer(c) THEN "note receipt" ELSE "activate"
<1>1. /\ updater[c].at = "commit" /\ UpdaterGoes(c, s) /\ receipt' = journal.new
      /\ UNCHANGED <<current, launcher, tree, inventory, journal, damaged, commits, staged, spool, lockedBy>>
      /\ s \in {"note receipt", "activate"} /\ {"note receipt", "activate"} \subseteq PublishAt \ Before /\ "commit" \in Before
  BY DEF CommitReceipt, UpdaterIs, Trees, Bounds, Before, Placing, PublishAt
<1> HIDE DEF s
<1>2. /\ journal.phase \in {"CURRENT_ACTIVATED", "RECEIPT_COMMITTED"} /\ current = journal.target /\ launcher = Anchored
      /\ Kept(journal.target)
  BY <1>1, Pieces DEF Publishing, Placing, PublishAt
<1>3. /\ Planned /\ Pointed /\ journal.op # "none" /\ SameTransaction /\ journal.new \in Receipt
      /\ updater' \in [Updater -> Command] /\ updater'[c].at = s
  <2>1. updater[c].at \in PublishAt /\ updater'[c].at \in UpdaterAt
    <3>1. updater[c].at \in PublishAt /\ StandaloneTyped
      BY <1>1, Places, Pieces
    <3>2. updater'[c].at \in UpdaterAt
      BY <1>1, <3>1, Goes, Places
    <3> QED
      BY <3>1, <3>2
  <2>2. /\ Planned /\ Pointed /\ journal.op # "none" /\ journal.new \in Receipt /\ journal.oldLauncher \in 0..Legacy
        /\ journal.target \in 0..MaxRelease
    BY <2>1, Open, Numbers
  <2>3. SameTransaction
    BY <1>1, JournalStays
  <2> QED
    BY <1>1, <2>2, <2>3, Places, Goes, Pieces
<1>5. /\ Anchored' = Anchored /\ (WasActive' <=> WasActive) /\ (Kept(journal.target)' <=> Kept(journal.target))
  BY <1>1, <1>3, ProgressStays
<1>6. Pointed'
  BY <1>1, <1>2, <1>3, <1>5 DEF Pointed
<1>7. Disk'
  BY <1>1, <1>3, <1>6, PointersMove, Pieces DEF StandaloneTyped
<1>8. Committed'
  BY <1>1, <1>2, <1>3, <1>5 DEF Committed
<1>9. Publishing(updater[c])'
  BY <1>1, <1>2, <1>3, <1>8, CommittedGoesOn
<1> QED
  BY <1>1, <1>7, <1>9, Continues, Places

LEMMA ActivateLauncherKeeps == ASSUME StandaloneIInv, NEW c \in Updater, ActivateLauncher(c) PROVE StandaloneIInv'
<1> DEFINE s == IF Installer(c) THEN "smoke" ELSE "note launcher"
<1>1. /\ updater[c].at = "activate" /\ UpdaterGoes(c, s) /\ launcher' = ViaCurrent
      /\ UNCHANGED <<current, receipt, tree, inventory, journal, damaged, commits, staged, spool, lockedBy>>
      /\ s \in {"smoke", "note launcher"} /\ {"smoke", "note launcher"} \subseteq PublishAt \ Before
      /\ "activate" \in PublishAt \ Before
  BY DEF ActivateLauncher, UpdaterIs, Trees, Bounds, Before, Placing, PublishAt
<1> HIDE DEF s
<1>2. Committed
  BY <1>1, CommittedIs
<1>3. /\ Planned /\ Pointed /\ journal.op # "none" /\ SameTransaction
      /\ updater' \in [Updater -> Command] /\ updater'[c].at = s
  <2>1. updater[c].at \in PublishAt /\ updater'[c].at \in UpdaterAt
    <3>1. updater[c].at \in PublishAt /\ StandaloneTyped
      BY <1>1, Places, Pieces
    <3>2. updater'[c].at \in UpdaterAt
      BY <1>1, <3>1, Goes, Places
    <3> QED
      BY <3>1, <3>2
  <2>2. /\ Planned /\ Pointed /\ journal.op # "none" /\ journal.new \in Receipt /\ journal.oldLauncher \in 0..Legacy
        /\ journal.target \in 0..MaxRelease
    BY <2>1, Open, Numbers
  <2>3. SameTransaction
    BY <1>1, JournalStays
  <2> QED
    BY <1>1, <2>2, <2>3, Places, Goes, Pieces
<1>5. /\ Anchored' = Anchored /\ (WasActive' <=> WasActive) /\ (Kept(journal.target)' <=> Kept(journal.target))
  BY <1>1, <1>3, ProgressStays
<1>6. Pointed'
  BY <1>1, <1>2, <1>3, <1>5 DEF Pointed, Committed
<1>7. Disk'
  BY <1>1, <1>3, <1>6, PointersMove, Pieces, Launchers DEF StandaloneTyped
<1>8. Committed'
  BY <1>1, <1>2, <1>5 DEF Committed
<1>9. Publishing(updater[c])'
  BY <1>1, <1>3, <1>8, CommittedGoesOn
<1> QED
  BY <1>1, <1>7, <1>9, Continues, Places

\* What leaves the disk as it is.
LEMMA Same ==
  ASSUME StandaloneIInv, NEW c \in Updater, NEW s \in UpdaterAt, UpdaterGoes(c, s),
         UNCHANGED <<receipt, current, launcher, tree, inventory, journal, damaged, commits, staged, spool, lockedBy>>
  PROVE  /\ Disk' /\ updater' \in [Updater -> Command] /\ updater'[c].at = s /\ \A d \in Updater \ {c} : updater'[d] = updater[d]
         /\ Anchored' = Anchored /\ (WasActive' <=> WasActive) /\ (Kept(journal.target)' <=> Kept(journal.target))
<1>1. /\ updater' \in [Updater -> Command] /\ updater'[c].at = s /\ \A d \in Updater \ {c} : updater'[d] = updater[d]
  BY Goes, Pieces
<1>2. Disk'
  BY <1>1, DiskStays, Pieces DEF StandaloneTyped
<1>3. /\ Anchored' = Anchored /\ (WasActive' <=> WasActive) /\ (Kept(journal.target)' <=> Kept(journal.target))
  BY JournalStays, ProgressStays
<1> QED
  BY <1>1, <1>2, <1>3

LEMMA ToRecovery ==
  ASSUME StandaloneIInv, NEW c \in Updater, updater[c].at \notin Outside, UpdaterGoes(c, "recover"),
         UNCHANGED <<receipt, current, launcher, tree, inventory, journal, damaged, commits, staged, spool, lockedBy>>
  PROVE  StandaloneIInv'
<1>1. "recover" \in UndoAt /\ "recover" \in UpdaterAt
  BY DEF UndoAt, UpdaterAt
<1>2. /\ Disk' /\ updater'[c].at = "recover" /\ \A d \in Updater \ {c} : updater'[d] = updater[d]
  BY <1>1, Same
<1>3. Recovered(updater[c])'
  BY <1>2 DEF Recovered, Undoing
<1> QED
  BY <1>1, <1>2, <1>3, TurnsBack

LEMMA EndsHere ==
  ASSUME StandaloneIInv, NEW c \in Updater, updater[c].at \notin Outside, UpdaterEnds(c),
         UNCHANGED <<receipt, current, launcher, tree, inventory, journal, damaged, commits>>,
         staged' \subseteq staged, spool' \subseteq spool
  PROVE  StandaloneIInv'
<1>1. Disk'
  BY Pieces, DiskStays, NothingYet DEF UpdaterEnds, StandaloneTyped
<1> QED
  BY <1>1, EndKeeps

LEMMA PublicationFailsKeeps == ASSUME StandaloneIInv, NEW c \in Updater, PublicationFails(c) PROVE StandaloneIInv'
<1>1. /\ UNCHANGED <<receipt, current, launcher, tree, inventory, journal, damaged, commits, staged>>
      /\ updater[c].at \notin Outside
  BY Places DEF PublicationFails, Pointers, Bounds
<1>2. CASE Installer(c)
  BY <1>1, <1>2, EndsHere DEF PublicationFails
<1>3. CASE ~Installer(c)
  BY <1>1, <1>3, ToRecovery DEF PublicationFails
<1> QED
  BY <1>2, <1>3

\* The candidate of an open transaction, its receipt not committed.
Trying ==
  /\ receipt = journal.old /\ current = journal.target /\ launcher = Anchored
  /\ Kept(journal.target) /\ journal.op # "none"

LEMMA TryingIs ==
  ASSUME StandaloneIInv, NEW c \in Updater, updater[c].at \in {"candidate", "pend"}
  PROVE  Trying /\ journal.phase = "CURRENT_ACTIVATED" /\ updater[c].at \in Before /\ receipt # journal.new
<1>1. Trying /\ journal.phase = "CURRENT_ACTIVATED" /\ updater[c].at \in Before /\ updater[c].at \in PublishAt
  BY Pieces DEF Publishing, PublishAt, Before, Placing, Trying
<1>2. journal.new.cur # journal.old.cur
  BY <1>1, Open DEF Planned
<1> QED
  BY <1>1, <1>2 DEF Trying

LEMMA TryCandidateKeeps == ASSUME StandaloneIInv, NEW c \in Updater, TryCandidate(c) PROVE StandaloneIInv'
<1>1. /\ updater[c].at = "candidate" /\ updater[c].at \notin Outside /\ updater[c].at \in PublishAt
      /\ UNCHANGED <<receipt, current, launcher, tree, inventory, damaged, commits, staged, spool, lockedBy>>
      /\ {"commit", "pend"} \subseteq Before \cap UpdaterAt /\ "back current" \in UndoAt \cap UpdaterAt
  BY DEF TryCandidate, UpdaterIs, Trees, Pointers, Bounds, Outside, Before, UndoAt, UpdaterAt, PublishAt
<1>2. Trying /\ journal.phase = "CURRENT_ACTIVATED" /\ updater[c].at \in Before /\ receipt # journal.new
  BY <1>1, TryingIs
<1>3. ASSUME NEW s \in {"commit", "pend"}, UpdaterGoes(c, s), UNCHANGED journal PROVE StandaloneIInv'
  <2>1. /\ Disk' /\ updater'[c].at = s
        /\ Anchored' = Anchored /\ (WasActive' <=> WasActive) /\ (Kept(journal.target)' <=> Kept(journal.target))
    BY <1>1, <1>3, Same
  <2>2. Publishing(updater[c])'
    BY <1>1, <1>2, <1>3, <2>1 DEF Publishing, PublishAt, Before, Placing, Trying
  <2>3. s \in PublishAt
    BY <1>1, Places
  <2> QED
    BY <1>1, <1>2, <1>3, <2>1, <2>2, <2>3, Continues
<1>4. ASSUME UpdaterGoes(c, "back current"), journal' = [journal EXCEPT !.phase = "ROLLED_BACK"] PROVE StandaloneIInv'
  <2>1. SameTransaction /\ journal'.phase = "ROLLED_BACK" /\ journal' \in Journal
    BY <1>4, PhaseNoted, Pieces DEF StandaloneTyped, Phases
  <2>2. /\ updater' \in [Updater -> Command] /\ updater'[c].at = "back current"
        /\ \A d \in Updater \ {c} : updater'[d] = updater[d]
    BY <1>1, <1>4, Goes, Pieces
  <2>3. Disk'
    BY <1>1, <1>2, <2>1, <2>2, JournalMoves
  <2>4. Recovered(updater[c])'
    BY <1>1, <1>2, <2>1, <2>2, ProgressStays DEF Recovered, Undoing, Trying, SameTransaction
  <2> QED
    BY <1>1, <2>2, <2>3, <2>4, TurnsBack
<1> QED
  BY <1>1, <1>3, <1>4, ToRecovery DEF TryCandidate

LEMMA NotePendingKeeps == ASSUME StandaloneIInv, NEW c \in Updater, NotePending(c) PROVE StandaloneIInv'
<1>1. /\ updater[c].at = "pend" /\ UpdaterGoes(c, "commit") /\ updater[c].at \in PublishAt
      /\ journal' = [journal EXCEPT !.phase = "RECEIPT_COMMITTED", !.pending = TRUE]
      /\ UNCHANGED <<receipt, current, launcher, tree, inventory, damaged, commits, staged, spool, lockedBy>>
      /\ "commit" \in Before /\ "commit" \in UpdaterAt /\ "RECEIPT_COMMITTED" \in Phases \ Early
  BY DEF NotePending, UpdaterIs, Trees, Pointers, Bounds, Before, UpdaterAt, PublishAt, Phases, Early
<1>2. Trying /\ updater[c].at \in Before /\ receipt # journal.new
  BY <1>1, TryingIs
<1>3. SameTransaction /\ journal'.phase = "RECEIPT_COMMITTED" /\ journal' \in Journal
  BY <1>1, Noted, Pieces DEF StandaloneTyped
<1>4. updater' \in [Updater -> Command] /\ updater'[c].at = "commit"
  BY <1>1, Goes, Pieces
<1>5. Disk'
  BY <1>1, <1>2, <1>3, <1>4, JournalMoves
<1>6. /\ Anchored' = Anchored /\ (WasActive' <=> WasActive) /\ (Kept(journal.target)' <=> Kept(journal.target))
  BY <1>1, <1>3, ProgressStays
<1>7. Publishing(updater[c])'
  BY <1>1, <1>2, <1>3, <1>4, <1>6 DEF Publishing, PublishAt, Before, Placing, Trying, SameTransaction
<1> QED
  BY <1>1, <1>2, <1>5, <1>7, Continues, Places

LEMMA NoteSmokedKeeps == ASSUME StandaloneIInv, NEW c \in Updater, NoteSmoked(c) PROVE StandaloneIInv'
<1>1. /\ updater[c].at = "smoked" /\ UpdaterGoes(c, "note end") /\ updater[c].at \in PublishAt \ Before
      /\ journal' = [journal EXCEPT !.pending = FALSE]
      /\ UNCHANGED <<receipt, current, launcher, tree, inventory, damaged, commits, staged, spool, lockedBy>>
      /\ "note end" \in PublishAt \ Before /\ "note end" \in UpdaterAt
  BY DEF NoteSmoked, UpdaterIs, Trees, Pointers, Bounds, Before, Placing, UpdaterAt, PublishAt
<1>2. Committed /\ launcher = ViaCurrent
  BY <1>1, CommittedIs
<1>3. SameTransaction /\ journal'.phase = journal.phase /\ journal' \in Journal
  BY <1>1, Pieces DEF StandaloneTyped, Journal, SameTransaction
<1>4. updater' \in [Updater -> Command] /\ updater'[c].at = "note end"
  BY <1>1, Goes, Pieces
<1>5. Disk'
  BY <1>1, <1>2, <1>3, <1>4, JournalMoves, Open DEF Pointed, Early
<1>6. Committed'
  BY <1>1, <1>2, <1>3, ProgressStays DEF Committed, SameTransaction
<1>7. Publishing(updater[c])'
  BY <1>1, <1>2, <1>4, <1>6, CommittedGoesOn
<1> QED
  BY <1>1, <1>5, <1>7, Continues

LEMMA CommittedAdvances ==
  ASSUME StandaloneIInv, NEW c \in Updater, NEW s \in {"note launcher", "smoked"}, updater[c].at = "smoke",
         UpdaterGoes(c, s),
         UNCHANGED <<receipt, current, launcher, tree, inventory, journal, damaged, commits, staged, spool, lockedBy>>
  PROVE  StandaloneIInv'
<1>1. s \in PublishAt \ Before /\ s \in UpdaterAt /\ "smoke" \in PublishAt \ Before
  BY DEF Before, Placing, UpdaterAt, PublishAt
<1>2. Committed /\ launcher = ViaCurrent
  BY <1>1, CommittedIs
<1>3. /\ Disk' /\ updater'[c].at = s /\ (Kept(journal.target)' <=> Kept(journal.target))
  BY <1>1, Same
<1>4. Committed'
  BY <1>2, <1>3 DEF Committed
<1>5. Publishing(updater[c])'
  BY <1>1, <1>2, <1>3, <1>4, CommittedGoesOn
<1> QED
  BY <1>1, <1>3, <1>5, Continues

LEMMA TryLauncherKeeps == ASSUME StandaloneIInv, NEW c \in Updater, TryLauncher(c) PROVE StandaloneIInv'
<1>1. /\ updater[c].at = "smoke" /\ updater[c].at \notin Outside /\ updater[c].at \in PublishAt
      /\ UNCHANGED <<receipt, current, launcher, tree, inventory, journal, damaged, commits, staged, spool>>
      /\ "undo current" \in UndoAt \cap UpdaterAt
  BY DEF TryLauncher, UpdaterIs, Trees, Pointers, Bounds, Outside, UndoAt, UpdaterAt, PublishAt
<1>2. ASSUME NEW s \in {"note launcher", "smoked"}, UpdaterGoes(c, s), UNCHANGED lockedBy PROVE StandaloneIInv'
  BY <1>1, <1>2, CommittedAdvances
<1>3. ASSUME UpdaterGoes(c, "recover"), UNCHANGED lockedBy PROVE StandaloneIInv'
  BY <1>1, <1>3, ToRecovery
<1>4. CASE UpdaterEnds(c)
  BY <1>1, <1>4, EndsHere
<1>5. ASSUME updater' = [updater EXCEPT ![c].at = "undo current", ![c].own = TRUE], UNCHANGED lockedBy
      PROVE  StandaloneIInv'
  <2> DEFINE r == [updater[c] EXCEPT !.at = "undo current", !.own = TRUE]
  <2>1. updater' = [updater EXCEPT ![c] = r] /\ updater[c] \in Command /\ updater \in [Updater -> Command]
    BY <1>5, Pieces DEF StandaloneTyped
  <2>2. r \in Command /\ r.at = "undo current" /\ r.newBad = updater[c].newBad
    BY <1>1, <2>1 DEF Command, CommandRow
  <2> HIDE DEF r
  <2>3. /\ updater' \in [Updater -> Command] /\ updater'[c].at = "undo current" /\ ~updater'[c].newBad
        /\ \A d \in Updater \ {c} : updater'[d] = updater[d]
    BY <1>1, <2>1, <2>2, Pieces DEF Confirmed
  <2>4. Disk'
    BY <1>1, <1>5, <2>3, DiskStays, Pieces DEF StandaloneTyped
  <2>5. Recovered(updater[c])'
    BY <1>1, <2>3, Open DEF Recovered, Undoing
  <2> QED
    BY <1>1, <1>5, <2>3, <2>4, <2>5, TurnsBack
<1> QED
  BY <1>2, <1>3, <1>4, <1>5 DEF TryLauncher

\* A transaction is closed with the new release in place, or with the old one.
Undone ==
  /\ receipt = journal.old /\ current = journal.old.cur /\ launcher = RestoredLauncher
  /\ journal.target \in journal.old.vers \/ tree[journal.target] # "whole"

LEMMA RestoredIs ==
  ASSUME Planned, journal \in Journal
  PROVE  /\ WasActive => RestoredLauncher = ViaCurrent
         /\ ~WasActive => RestoredLauncher \in {NoLauncher, Direct(Legacy)}
         /\ RestoredLauncher \in {ViaCurrent, Anchored}
<1>1. CASE WasActive
  <2>1. journal.old.vers \subseteq Release
    BY DEF Journal, Receipt
  <2>2. journal.oldLauncher \in Release
    BY <1>1, <2>1 DEF Planned, WellFormed, WasActive
  <2> QED
    BY <1>1, <2>2, Numbers DEF RestoredLauncher
<1>2. CASE ~WasActive
  BY <1>2, Numbers DEF Planned, RestoredLauncher, Anchored
<1> QED
  BY <1>1, <1>2

LEMMA Closes ==
  ASSUME StandaloneIInv, journal.op # "none", NEW c \in Updater, journal' = NoJournal,
         UNCHANGED <<receipt, current, launcher, tree, inventory, damaged, commits, staged, spool>>,
         lockedBy' \subseteq lockedBy, updater' \in [Updater -> Command],
         Undone \/ (receipt = journal.new /\ current = journal.target /\ launcher = ViaCurrent)
  PROVE  Disk'
<1>1. /\ Planned /\ Stored /\ Pointed /\ journal.target \in Release /\ journal.old.vers \subseteq Release
      /\ \A v \in Release : Kept(v)' <=> Kept(v)
  BY Open DEF Kept
<1>2. StandaloneTyped' /\ WholeIsListed' /\ journal'.op = "none"
  BY NothingYet, Pieces DEF StandaloneTyped, WholeIsListed
<1>3. CASE Undone
  <2>1. WellFormed(receipt) /\ current = receipt.cur /\ receipt = journal.old
    BY <1>1, <1>3 DEF Undone, Planned
  <2>2. \A v \in receipt.vers : Kept(v)'
    BY <1>1, <2>1 DEF Stored
  <2>3. \A v \in Release \ receipt.vers : tree[v] # "whole"
    BY <1>1, <1>3, <2>1 DEF Stored, Undone
  <2>4. /\ receipt.state = "active" => launcher \in {ViaCurrent, NoLauncher}
        /\ receipt.state # "active" => launcher \in {NoLauncher, Direct(Legacy)}
    BY <1>1, <1>3, <2>1, RestoredIs, Open DEF WasActive, Undone
  <2> QED
    BY <1>2, <2>1, <2>2, <2>3, <2>4 DEF Disk, AtRest, OpenTransaction
<1>4. CASE receipt = journal.new /\ current = journal.target /\ launcher = ViaCurrent
  <2>1. WellFormed(receipt) /\ current = receipt.cur /\ receipt.vers = journal.old.vers \cup {journal.target}
        /\ receipt.state = "active"
    BY <1>1, <1>4, Numbers DEF Planned, WellFormed
  <2>2. \A v \in receipt.vers : Kept(v)'
    BY <1>1, <1>4, <2>1 DEF Stored, Pointed
  <2>3. \A v \in Release \ receipt.vers : tree[v] # "whole"
    BY <1>1, <2>1 DEF Stored
  <2> QED
    BY <1>2, <1>4, <2>1, <2>2, <2>3 DEF Disk, AtRest, OpenTransaction
<1> QED
  BY <1>3, <1>4

LEMMA CloseJournalKeeps == ASSUME StandaloneIInv, NEW c \in Updater, CloseJournal(c) PROVE StandaloneIInv'
<1>1. /\ updater[c].at = "end" /\ updater[c].at \in PublishAt \ Before /\ journal' = NoJournal /\ UpdaterEnds(c)
      /\ UNCHANGED <<receipt, current, launcher, tree, inventory, damaged, commits, staged, spool>>
  BY DEF CloseJournal, UpdaterIs, Trees, Pointers, PublishAt, Before, Placing
<1>2. Committed /\ launcher = ViaCurrent
  BY <1>1, CommittedIs
<1>3. updater' \in [Updater -> Command] /\ lockedBy' \subseteq lockedBy
  BY <1>1, NothingYet, Pieces DEF UpdaterEnds, StandaloneTyped
<1>4. Disk'
  BY <1>1, <1>2, <1>3, Closes DEF Committed
<1> QED
  BY <1>1, <1>4, EndKeeps, Places

-----------------------------------------------------------------------------
(* The steps of a recovery                                                 *)

LEMMA UndoRow ==
  ASSUME StandaloneTyped, NEW c \in Updater,
         updater' = [updater EXCEPT ![c].at = "undo current", ![c].newBad = NewTreeBad]
  PROVE  /\ updater' \in [Updater -> Command] /\ updater'[c].at = "undo current" /\ (updater'[c].newBad <=> NewTreeBad)
         /\ \A d \in Updater \ {c} : updater'[d] = updater[d]
<1> DEFINE bad == NewTreeBad
           r == [updater[c] EXCEPT !.at = "undo current", !.newBad = bad]
<1>1. updater' = [updater EXCEPT ![c] = r] /\ updater[c] \in Command /\ updater \in [Updater -> Command]
  BY DEF StandaloneTyped
<1>2. bad \in BOOLEAN /\ "undo current" \in UpdaterAt
  BY DEF NewTreeBad, UpdaterAt, UndoAt
<1> HIDE DEF bad
<1>4. r \in Command /\ r.at = "undo current" /\ r.newBad = bad
  BY <1>1, <1>2 DEF Command, CommandRow
<1> HIDE DEF r
<1>5. /\ updater' \in [Updater -> Command] /\ updater'[c].at = "undo current" /\ updater'[c].newBad = bad
      /\ \A d \in Updater \ {c} : updater'[d] = updater[d]
  BY <1>1, <1>4
<1> QED
  BY <1>5 DEF bad

LEMMA BeginsUndo ==
  ASSUME StandaloneIInv, NEW c \in Updater, updater[c].at = "recover", journal.op # "none", 
         updater' = [updater EXCEPT ![c].at = "undo current", ![c].newBad = NewTreeBad], Disk', 
         UNCHANGED <<lockedBy, journal, tree>>
  PROVE  StandaloneIInv'
<1>2. "undo current" \in UndoAt /\ updater[c].at \notin Outside
  BY DEF UndoAt, Outside
<1>3. NewTreeBad => tree[journal.target] # "whole"
  <2>1. journal.target \in journal.new.vers /\ journal.target \in Release /\ WholeIsListed
    BY Open, Pieces DEF Planned
  <2> QED
    BY <2>1 DEF NewTreeBad, SoundIn, Inventoried, WholeTree, WholeIsListed
<1>5. /\ updater'[c].at = "undo current" /\ (updater'[c].newBad <=> NewTreeBad) /\ \A d \in Updater \ {c} : updater'[d] = updater[d]
  BY UndoRow, Pieces
<1>6. Recovered(updater[c])'
  BY <1>3, <1>5 DEF Recovered, Undoing
<1> QED
  BY <1>2, <1>5, <1>6, TurnsBack

LEMMA RecoverKeeps == ASSUME StandaloneIInv, NEW c \in Updater, Recover(c) PROVE StandaloneIInv'
<1>1. /\ updater[c].at = "recover" /\ updater[c].at \notin Outside
      /\ UNCHANGED <<receipt, current, tree, inventory, damaged, commits, staged, spool>>
      /\ "undo journal" \in UndoAt \cap UpdaterAt
  BY DEF Recover, UpdaterIs, Trees, Bounds, Outside, UndoAt, UpdaterAt
<1>2. CASE UpdaterEnds(c) /\ UNCHANGED <<journal, launcher>>
  BY <1>1, <1>2, EndsHere
<1> DEFINE undoes == IF OldActiveIsSound(journal.old)
                     THEN updater' = [updater EXCEPT ![c].at = "undo current", ![c].newBad = NewTreeBad]
                          /\ UNCHANGED lockedBy
                     ELSE UpdaterEnds(c)
<1>3. CASE journal # NoJournal /\ ~Completes(c) /\ undoes /\ UNCHANGED <<journal, launcher>>
  <2>1. CASE UpdaterEnds(c)
    BY <1>2, <1>3, <2>1
  <2>2. CASE updater' = [updater EXCEPT ![c].at = "undo current", ![c].newBad = NewTreeBad] /\ UNCHANGED lockedBy
    <3>1. updater' \in [Updater -> Command]
      BY <2>2, UndoRow, Pieces
    <3>2. Disk'
      BY <1>1, <1>3, <2>2, <3>1, DiskStays, Pieces DEF StandaloneTyped
    <3>3. journal.op # "none"
      BY <1>3, Pieces DEF AtRest
    <3> QED
      BY <1>1, <1>3, <2>2, <3>2, <3>3, BeginsUndo
  <2> QED
    BY <1>3, <2>1, <2>2
<1>4. ASSUME journal # NoJournal, Completes(c), launcher' = ViaCurrent, UNCHANGED journal,
             updater' \in [Updater -> Command], lockedBy' \subseteq lockedBy
      PROVE  Disk' /\ Committed' /\ journal.op # "none"
  <2>1. /\ Committed /\ Pointed /\ Planned /\ Stored
    <3>1. journal.op # "none"
      BY <1>4, Pieces DEF AtRest
    <3>2. /\ Pointed /\ Planned /\ Stored
      BY <3>1, Open
    <3> QED
      BY <1>4, <3>1, <3>2 DEF Completes, Committed, Pointed
  <2>2. /\ Anchored' = Anchored /\ (WasActive' <=> WasActive) /\ (Kept(journal.target)' <=> Kept(journal.target))
    BY <1>1, <1>4, JournalStays, ProgressStays
  <2>3. Committed'
    BY <1>1, <1>4, <2>1, <2>2 DEF Committed
  <2>4. Pointed'
    BY <1>1, <1>4, <2>1, <2>2 DEF Pointed, Committed
  <2>5. Planned' /\ Stored'
    BY <1>1, <1>4, <2>1, JournalStays, PlannedStays, StoredStays
  <2>6. StandaloneTyped' /\ WholeIsListed' /\ journal'.op # "none"
    BY <1>1, <1>4, <2>1, Launchers, Pieces DEF StandaloneTyped, WholeIsListed, Committed
  <2> QED
    BY <2>1, <2>3, <2>4, <2>5, <2>6, DiskOpen DEF Committed
<1>5. CASE /\ journal # NoJournal /\ Completes(c) /\ launcher' = ViaCurrent /\ UpdaterGoes(c, "undo journal")
           /\ UNCHANGED <<journal, lockedBy>>
  <2>1. /\ updater' \in [Updater -> Command] /\ updater'[c].at = "undo journal"
        /\ \A d \in Updater \ {c} : updater'[d] = updater[d]
    BY <1>1, <1>5, Goes, Pieces
  <2>2. Disk' /\ Committed'
    BY <1>4, <1>5, <2>1
  <2>3. Recovered(updater[c])'
    BY <1>5, <2>1, <2>2 DEF Recovered, Undoing, Committed
  <2> QED
    BY <1>1, <1>5, <2>1, <2>2, <2>3, TurnsBack
<1>6. CASE /\ journal # NoJournal /\ Completes(c) /\ launcher' = ViaCurrent /\ undoes /\ UNCHANGED journal
  <2>1. CASE UpdaterEnds(c)
    <3>1. updater' \in [Updater -> Command] /\ lockedBy' \subseteq lockedBy
      BY <2>1, NothingYet, Pieces DEF UpdaterEnds, StandaloneTyped
    <3>2. Disk'
      BY <1>4, <1>6, <3>1
    <3> QED
      BY <1>1, <2>1, <3>2, EndKeeps
  <2>2. CASE updater' = [updater EXCEPT ![c].at = "undo current", ![c].newBad = NewTreeBad] /\ UNCHANGED lockedBy
    <3>1. updater' \in [Updater -> Command]
      BY <2>2, UndoRow, Pieces
    <3>2. Disk' /\ journal.op # "none"
      BY <1>4, <1>6, <2>2, <3>1
    <3> QED
      BY <1>1, <1>6, <2>2, <3>2, BeginsUndo
  <2> QED
    BY <1>6, <2>1, <2>2
<1> QED
  BY <1>2, <1>3, <1>5, <1>6 DEF Recover

\* An undoing that moves a pointer.
LEMMA UndoMoves ==
  ASSUME StandaloneIInv, NEW c \in Updater, NEW s \in Undoing \cup {"back launcher"},
         updater[c].at \in Undoing \cup {"back current", "back launcher"},
         UpdaterGoes(c, s), UNCHANGED <<tree, inventory, journal, damaged, commits, staged, spool, lockedBy>>,
         receipt' \in {receipt, journal.old}, current' \in {current, journal.old.cur},
         launcher' \in {launcher, RestoredLauncher},
         Pointed',
         updater'[c].at = s /\ updater'[c].newBad = updater[c].newBad => Recovered(updater[c])'
  PROVE  StandaloneIInv'
<1>1. /\ s \in UndoAt \cap UpdaterAt /\ updater[c].at \notin Outside /\ journal.op # "none"
      /\ RestoredLauncher \in Launcher
  BY Places, Open, Launchers, Numbers DEF UndoAt, UpdaterAt, Outside, Undoing, RestoredLauncher
<1>2. /\ updater' \in [Updater -> Command] /\ updater'[c].at = s /\ updater'[c].newBad = updater[c].newBad
      /\ \A d \in Updater \ {c} : updater'[d] = updater[d]
  BY <1>1, Goes, Pieces
<1>3. Disk'
  <2>1. receipt' \in Receipt /\ current' \in 0..MaxRelease /\ launcher' \in Launcher
    BY <1>1, Open, Pieces DEF StandaloneTyped
  <2> QED
    BY <1>1, <1>2, <2>1, PointersMove
<1> QED
  BY <1>1, <1>2, <1>3, TurnsBack

LEMMA UndoCurrentKeeps == ASSUME StandaloneIInv, NEW c \in Updater, UndoCurrent(c) PROVE StandaloneIInv'
<1> DEFINE s == IF UpdaterIs(c, "undo current") THEN "undo launcher" ELSE "back launcher"
<1>1. /\ updater[c].at \in {"undo current", "back current"} /\ UpdaterGoes(c, s) /\ current' = journal.old.cur
      /\ UNCHANGED <<receipt, launcher, tree, inventory, journal, damaged, commits, staged, spool, lockedBy>>
      /\ s = IF updater[c].at = "undo current" THEN "undo launcher" ELSE "back launcher"
  BY DEF UndoCurrent, UpdaterIs, Trees, Bounds
<1> HIDE DEF s
<1>2. s \in Undoing \cup {"back launcher"} /\ updater[c].at \in Undoing \cup {"back current", "back launcher"}
  BY <1>1 DEF Undoing
<1>3. /\ Pointed /\ Planned /\ journal.op # "none" /\ SameTransaction
  BY <1>1, <1>2, Open, JournalStays
<1>4. /\ Anchored' = Anchored /\ (WasActive' <=> WasActive) /\ (Kept(journal.target)' <=> Kept(journal.target))
  BY <1>1, <1>3, ProgressStays
<1>5. Pointed'
  BY <1>1, <1>3, <1>4 DEF Pointed, Planned
<1>6. ASSUME updater'[c].at = s, updater'[c].newBad = updater[c].newBad PROVE Recovered(updater[c])'
  <2>1. CASE updater[c].at = "undo current"
    <3>1. updater[c].newBad => tree[journal.target] # "whole"
      BY <2>1, Pieces DEF Recovered, Undoing
    <3> QED
      BY <1>1, <1>3, <1>6, <2>1, <3>1 DEF Recovered, Undoing
  <2>2. CASE updater[c].at = "back current"
    <3>1. receipt = journal.old /\ launcher = Anchored /\ journal.phase = "ROLLED_BACK"
      BY <2>2, Pieces DEF Recovered
    <3> QED
      BY <1>1, <1>3, <1>4, <1>6, <2>2, <3>1 DEF Recovered, Undoing
  <2> QED
    BY <1>1, <2>1, <2>2
<1> QED
  BY <1>1, <1>2, <1>5, <1>6, UndoMoves

LEMMA UndoLauncherKeeps == ASSUME StandaloneIInv, NEW c \in Updater, UndoLauncher(c) PROVE StandaloneIInv'
<1>1. /\ updater[c].at \in {"undo launcher", "back launcher"} /\ launcher' = RestoredLauncher
      /\ UNCHANGED <<receipt, current, tree, inventory, journal, damaged, commits, staged, spool>>
  BY DEF UndoLauncher, UpdaterIs, Trees, Bounds
<1>2. updater[c].at \in Undoing \cup {"back current", "back launcher"} /\ updater[c].at \notin Outside
  BY <1>1 DEF Undoing, Outside
<1>3. /\ Pointed /\ Planned /\ journal.op # "none" /\ SameTransaction /\ journal \in Journal /\ current = journal.old.cur
  BY <1>1, <1>2, Open, JournalStays, Pieces DEF Recovered
<1>4. /\ Anchored' = Anchored /\ (WasActive' <=> WasActive) /\ (Kept(journal.target)' <=> Kept(journal.target))
      /\ RestoredLauncher' = RestoredLauncher
  BY <1>1, <1>3, ProgressStays
<1>5. Pointed'
  BY <1>1, <1>3, <1>4, RestoredIs DEF Pointed, Planned
<1>6. CASE updater[c].at = "undo launcher"
  <2>1. UpdaterGoes(c, "undo receipt") /\ lockedBy' = lockedBy /\ "undo receipt" \in Undoing
    BY <1>6 DEF UndoLauncher, UpdaterIs, Undoing
  <2>2. updater[c].newBad => tree[journal.target] # "whole"
    BY <1>6, Pieces DEF Recovered, Undoing
  <2>3. ASSUME updater'[c].at = "undo receipt", updater'[c].newBad = updater[c].newBad PROVE Recovered(updater[c])'
    BY <1>1, <1>3, <1>4, <2>2, <2>3 DEF Recovered, Undoing
  <2> QED
    BY <1>1, <1>2, <1>5, <2>1, <2>3, UndoMoves
<1>7. CASE updater[c].at = "back launcher"
  <2>1. UpdaterEnds(c)
    BY <1>7 DEF UndoLauncher, UpdaterIs
  <2>2. updater' \in [Updater -> Command] /\ lockedBy' \subseteq Updater
    BY <2>1, NothingYet, Pieces DEF UpdaterEnds, StandaloneTyped
  <2>3. RestoredLauncher \in Launcher
    BY <1>3, Launchers, Numbers DEF RestoredLauncher
  <2>4. StandaloneTyped' /\ WholeIsListed'
    BY <1>1, <2>2, <2>3, Pieces DEF StandaloneTyped, WholeIsListed
  <2>5. Planned' /\ Stored' /\ journal'.op # "none"
    BY <1>1, <1>3, PlannedStays, StoredStays, Open
  <2>6. Disk'
    BY <1>5, <2>4, <2>5, DiskOpen
  <2> QED
    BY <1>2, <2>1, <2>6, EndKeeps
<1> QED
  BY <1>1, <1>6, <1>7

LEMMA UndoReceiptKeeps == ASSUME StandaloneIInv, NEW c \in Updater, UndoReceipt(c) PROVE StandaloneIInv'
<1>1. /\ updater[c].at = "undo receipt" /\ UpdaterGoes(c, "undo tree") /\ receipt' = journal.old
      /\ UNCHANGED <<current, launcher, tree, inventory, journal, damaged, commits, staged, spool, lockedBy>>
  BY DEF UndoReceipt, UpdaterIs, Trees, Bounds
<1>2. {"undo receipt", "undo tree"} \subseteq Undoing
  BY DEF Undoing
<1>3. /\ Pointed /\ Planned /\ journal.op # "none" /\ SameTransaction /\ current = journal.old.cur
      /\ launcher = RestoredLauncher /\ (updater[c].newBad => tree[journal.target] # "whole")
  BY <1>1, <1>2, Open, JournalStays, Pieces DEF Recovered, Undoing
<1>4. /\ Anchored' = Anchored /\ (WasActive' <=> WasActive) /\ (Kept(journal.target)' <=> Kept(journal.target))
      /\ RestoredLauncher' = RestoredLauncher
  BY <1>1, <1>3, ProgressStays
<1>5. Pointed'
  BY <1>1, <1>3, <1>4 DEF Pointed, Planned
<1>6. ASSUME updater'[c].at = "undo tree", updater'[c].newBad = updater[c].newBad PROVE Recovered(updater[c])'
  BY <1>1, <1>3, <1>4, <1>6 DEF Recovered, Undoing
<1> QED
  BY <1>1, <1>2, <1>5, <1>6, UndoMoves

\* Everything of the old release is restored; what is left is the new one's tree.
OldIsBack == receipt = journal.old /\ current = journal.old.cur /\ launcher = RestoredLauncher

LEMMA OldBackIs ==
  ASSUME StandaloneIInv, NEW c \in Updater, updater[c].at \in {"undo tree", "undo torn", "undo spool", "undo inventory"}
  PROVE  /\ OldIsBack /\ journal.op # "none" /\ (updater[c].newBad => tree[journal.target] # "whole")
         /\ updater[c].at \in Undoing /\ updater[c].at \notin Outside
         /\ updater[c].at \in {"undo spool", "undo inventory"} =>
              journal.target \in journal.old.vers \/ tree[journal.target] # "whole"
  BY Pieces DEF Recovered, Undoing, OldIsBack, Outside

\* With the old release restored its target alone is changed on disk.
LEMMA UndoRemoves ==
  ASSUME StandaloneIInv, NEW c \in Updater, updater[c].at \in {"undo tree", "undo torn", "undo spool", "undo inventory"},
         NEW s \in {"undo torn", "undo spool", "undo inventory", "undo journal"}, UpdaterGoes(c, s),
         UNCHANGED <<receipt, current, launcher, journal, damaged, commits, staged, lockedBy>>, spool' \subseteq spool,
         tree' \in [Release -> {"none", "whole", "torn"}], inventory' \subseteq Release, WholeIsListed',
         \A v \in Release \ {journal.target} : tree'[v] = tree[v] /\ (v \in inventory <=> v \in inventory'),
         journal.target \in journal.old.vers =>
           tree'[journal.target] = tree[journal.target] /\ (journal.target \in inventory => journal.target \in inventory'),
         tree[journal.target] # "whole" => tree'[journal.target] # "whole",
         s # "undo torn" => journal.target \in journal.old.vers \/ tree'[journal.target] # "whole"
  PROVE  StandaloneIInv'
<1>1. /\ OldIsBack /\ journal.op # "none" /\ (updater[c].newBad => tree[journal.target] # "whole")
      /\ updater[c].at \in Undoing /\ updater[c].at \notin Outside
  BY OldBackIs
<1>2. /\ Planned /\ Stored /\ Pointed /\ journal.target \in Release /\ journal.old.vers \subseteq Release /\ SameTransaction
      /\ s \in UndoAt \cap UpdaterAt
  BY <1>1, Open, JournalStays DEF UndoAt, UpdaterAt
<1>3. /\ updater' \in [Updater -> Command] /\ updater'[c].at = s /\ updater'[c].newBad = updater[c].newBad
      /\ \A d \in Updater \ {c} : updater'[d] = updater[d]
  BY <1>2, Goes, Pieces
<1>4. \A v \in journal.old.vers : Kept(v)'
  <2> SUFFICES ASSUME NEW v \in journal.old.vers PROVE Kept(v)'
    OBVIOUS
  <2>1. Kept(v) /\ v \in Release
    BY <1>2 DEF Stored
  <2>2. CASE v = journal.target
    BY <2>1, <2>2 DEF Kept
  <2>3. CASE v # journal.target
    BY <2>1, <2>3 DEF Kept
  <2> QED
    BY <2>2, <2>3
<1>5. Stored'
  BY <1>2, <1>4 DEF Stored
<1>6. Pointed'
  <2>1. /\ Anchored' = Anchored /\ (WasActive' <=> WasActive)
    BY <1>2, ProgressStays
  <2>2. receipt # journal.new /\ current # journal.target
    BY <1>1, <1>2 DEF OldIsBack, Planned
  <2> QED
    BY <1>2, <2>1, <2>2 DEF Pointed
<1>7. StandaloneTyped'
  BY <1>3, Pieces DEF StandaloneTyped
<1>8. Disk'
  BY <1>1, <1>2, <1>5, <1>6, <1>7, DiskOpen, PlannedStays
<1>9. Recovered(updater[c])'
  <2>1. OldIsBack' /\ journal'.op # "none" /\ (updater'[c].newBad => tree'[journal'.target] # "whole")
    BY <1>1, <1>2, <1>3, ProgressStays DEF OldIsBack
  <2> QED
    BY <1>3, <2>1 DEF Recovered, Undoing, OldIsBack
<1> QED
  BY <1>1, <1>2, <1>3, <1>8, <1>9, TurnsBack

LEMMA RemovedIs ==
  ASSUME StandaloneIInv, journal.op # "none", NEW c \in Updater
  PROVE  RemovesTree(c) => journal.target \notin journal.old.vers /\ ~updater[c].newBad
  BY Open DEF RemovesTree, Planned

LEMMA UndoTreeKeeps == ASSUME StandaloneIInv, NEW c \in Updater, UndoTree(c) PROVE StandaloneIInv'
<1>1. /\ updater[c].at \in {"undo tree", "undo torn"}
      /\ UNCHANGED <<receipt, current, launcher, inventory, journal, damaged, commits, staged, spool, lockedBy>>
  BY DEF UndoTree, Pointers, Bounds
<1>2. /\ OldIsBack /\ journal.op # "none" /\ (updater[c].newBad => tree[journal.target] # "whole")
  BY <1>1, OldBackIs
<1>3. journal.target \in Release /\ StandaloneTyped /\ WholeIsListed /\ Planned
  BY <1>2, Open, Pieces
<1>4. CASE RemovesTree(c) /\ tree[journal.target] # "none"
  <2> DEFINE left == IF UpdaterIs(c, "undo tree") THEN "torn" ELSE "none"
             s == IF UpdaterIs(c, "undo tree") THEN "undo torn" ELSE "undo spool"
  <2>1. tree' = [tree EXCEPT ![journal.target] = left] /\ UpdaterGoes(c, s)
    BY <1>4 DEF UndoTree
  <2>2. left \in {"torn", "none"} /\ s \in {"undo torn", "undo spool"}
    OBVIOUS
  <2> HIDE DEF left, s
  <2>3. /\ tree' \in [Release -> {"none", "whole", "torn"}] /\ tree'[journal.target] # "whole"
        /\ \A v \in Release \ {journal.target} : tree'[v] = tree[v]
    BY <1>3, <2>1, <2>2 DEF StandaloneTyped
  <2>4. journal.target \notin journal.old.vers
    BY <1>2, <1>4, RemovedIs
  <2>5. WholeIsListed' /\ inventory' \subseteq Release
    BY <1>1, <1>3, <2>3 DEF WholeIsListed, StandaloneTyped
  <2> QED
    BY <1>1, <2>1, <2>2, <2>3, <2>4, <2>5, UndoRemoves
<1>5. CASE ~(RemovesTree(c) /\ tree[journal.target] # "none")
  <2>1. tree' = tree /\ UpdaterGoes(c, "undo spool")
    BY <1>5 DEF UndoTree
  <2>2. journal.target \in journal.old.vers \/ tree[journal.target] # "whole"
    BY <1>2, <1>3, <1>5 DEF RemovesTree, Planned
  <2>3. WholeIsListed' /\ inventory' \subseteq Release /\ tree' \in [Release -> {"none", "whole", "torn"}]
    BY <1>1, <1>3, <2>1 DEF WholeIsListed, StandaloneTyped
  <2> QED
    BY <1>1, <2>1, <2>2, <2>3, UndoRemoves
<1> QED
  BY <1>4, <1>5

LEMMA UndoSpoolKeeps == ASSUME StandaloneIInv, NEW c \in Updater, UndoSpool(c) PROVE StandaloneIInv'
<1>1. /\ updater[c].at = "undo spool" /\ UpdaterGoes(c, "undo inventory") /\ spool' \subseteq spool
      /\ UNCHANGED <<receipt, current, launcher, tree, inventory, journal, damaged, commits, staged, lockedBy>>
  BY DEF UndoSpool, UpdaterIs, Pointers, Bounds
<1>2. journal.target \in journal.old.vers \/ tree[journal.target] # "whole"
  BY <1>1, OldBackIs
<1>3. WholeIsListed' /\ inventory' \subseteq Release /\ tree' \in [Release -> {"none", "whole", "torn"}]
  BY <1>1, Pieces DEF WholeIsListed, StandaloneTyped
<1> QED
  BY <1>1, <1>2, <1>3, UndoRemoves

LEMMA UndoInventoryKeeps == ASSUME StandaloneIInv, NEW c \in Updater, UndoInventory(c) PROVE StandaloneIInv'
<1>1. /\ updater[c].at = "undo inventory" /\ UpdaterGoes(c, "undo journal")
      /\ inventory' = IF RemovesTree(c) THEN inventory \ {journal.target} ELSE inventory
      /\ UNCHANGED <<receipt, current, launcher, tree, journal, damaged, commits, staged, spool, lockedBy>>
  BY DEF UndoInventory, UpdaterIs, Pointers, Bounds
<1>2. journal.op # "none" /\ (journal.target \in journal.old.vers \/ tree[journal.target] # "whole")
  BY <1>1, OldBackIs
<1>3. RemovesTree(c) => journal.target \notin journal.old.vers
  BY <1>2, RemovedIs
<1>4. WholeIsListed' /\ inventory' \subseteq Release /\ tree' \in [Release -> {"none", "whole", "torn"}]
  BY <1>1, <1>2, <1>3, Pieces DEF WholeIsListed, StandaloneTyped
<1> QED
  BY <1>1, <1>2, <1>3, <1>4, UndoRemoves

LEMMA UndoJournalKeeps == ASSUME StandaloneIInv, NEW c \in Updater, UndoJournal(c) PROVE StandaloneIInv'
<1>1. /\ updater[c].at = "undo journal" /\ updater[c].at \notin Outside /\ journal' = NoJournal
      /\ UNCHANGED <<receipt, current, launcher, tree, inventory, damaged, commits, staged, spool>>
      /\ "prepare" \in UpdaterAt /\ "undo journal" \in Undoing
  BY DEF UndoJournal, UpdaterIs, Trees, Pointers, Bounds, UpdaterAt, Undoing, Outside
<1>2. journal.op # "none" /\ (Undone \/ (receipt = journal.new /\ current = journal.target /\ launcher = ViaCurrent))
  BY <1>1, Pieces DEF Recovered, Undone
<1>3. CASE UpdaterEnds(c)
  <2>1. updater' \in [Updater -> Command] /\ lockedBy' \subseteq lockedBy
    BY <1>3, NothingYet, Pieces DEF UpdaterEnds, StandaloneTyped
  <2>2. Disk'
    BY <1>1, <1>2, <2>1, Closes
  <2> QED
    BY <1>1, <1>3, <2>2, EndKeeps
<1>4. CASE Installer(c) /\ ~updater[c].newBad /\ ~updater[c].own /\ UpdaterGoes(c, "prepare") /\ UNCHANGED lockedBy
  <2>1. /\ updater' \in [Updater -> Command] /\ \A d \in Updater \ {c} : updater'[d] = updater[d]
        /\ updater'[c].at = "prepare" /\ updater'[c].kind = "install" /\ ~updater'[c].newBad
        /\ updater'[c].target = updater[c].target
    BY <1>1, <1>4, Goes, Pieces DEF Installer
  <2>2. Disk'
    BY <1>1, <1>2, <1>4, <2>1, Closes
  <2>3. updater[c].target \in Release
    BY <1>4, Pieces DEF Command, Installer
  <2>4. Confirmed(updater[c])'
    BY <1>1, <2>1, <2>3, NothingYet DEF Confirmed, PublishAt, Before, Placing
  <2>5. Publishing(updater[c])' /\ Recovered(updater[c])'
    BY <2>1 DEF Publishing, Recovered, PublishAt, Undoing, Before, Placing
  <2> QED
    BY <1>1, <1>4, <2>1, <2>2, <2>4, <2>5, HolderKeeps DEF Where
<1> QED
  BY <1>3, <1>4 DEF UndoJournal

-----------------------------------------------------------------------------
(* A transaction opens                                                     *)

\* Where a command prepares there is no transaction, and the lock is its own.
LEMMA Prepares ==
  ASSUME StandaloneIInv, NEW c \in Updater, updater[c].at \in {"prepare", "stage"}
  PROVE  /\ updater[c].at \notin Outside /\ ~updater[c].newBad /\ updater[c].target \in Release
         /\ updater[c].kind \in {"apply", "rollback", "install"}
         /\ updater[c].kind # "install" => ActiveLayout /\ receipt = updater[c].sawReceipt
         /\ journal.op = "none" /\ journal = NoJournal /\ WellFormed(receipt) /\ current = receipt.cur
         /\ \A v \in receipt.vers : Kept(v)
         /\ \A v \in Release \ receipt.vers : tree[v] # "whole"
         /\ receipt.state = "active" => launcher \in {ViaCurrent, NoLauncher}
         /\ receipt.state # "active" => launcher \in {NoLauncher, Direct(Legacy)}
         /\ receipt \in Receipt /\ receipt.cur \in 0..MaxRelease /\ receipt.vers \subseteq Release
<1>1. /\ ~updater[c].newBad /\ updater[c].target \in Release /\ journal.op = "none"
      /\ updater[c].kind \in {"apply", "rollback", "install"}
      /\ updater[c].kind # "install" => ActiveLayout /\ receipt = updater[c].sawReceipt
  BY Pieces DEF Confirmed
<1>2. receipt \in Receipt /\ receipt.cur \in 0..MaxRelease /\ receipt.vers \subseteq Release
  BY Pieces DEF StandaloneTyped, Receipt
<1>3. updater[c].at \notin Outside
  BY DEF Outside
<1> QED
  BY <1>1, <1>2, <1>3, Pieces DEF AtRest

LEMMA RunsAtRest ==
  ASSUME StandaloneIInv, NEW c \in Updater, updater[c].at \in {"prepare", "stage"},
         receipt.state = "active" => launcher = ViaCurrent
  PROVE  /\ Runs \in 0..Legacy
         /\ receipt.state = "active" => Runs = receipt.cur
         /\ receipt.state # "active" =>
              Runs \in {None, Legacy} /\ launcher = (IF Runs = None THEN NoLauncher ELSE Direct(Runs))
<1>1. current = receipt.cur /\ receipt.cur \in 0..MaxRelease
      /\ (receipt.state # "active" => launcher \in {NoLauncher, Direct(Legacy)})
  BY Prepares
<1>2. CASE receipt.state = "active"
  <2>1. Runs = current
    BY <1>2, Launchers DEF Runs
  <2> QED
    BY <1>1, <1>2, <2>1, Numbers
<1>3. CASE receipt.state # "active" /\ launcher = NoLauncher
  <2>1. Runs = None
    BY <1>3, Launchers DEF Runs
  <2> QED
    BY <1>3, <2>1, Numbers
<1>4. CASE receipt.state # "active" /\ launcher = Direct(Legacy)
  <2>1. Runs = Legacy /\ Legacy # None
    BY <1>4, Launchers, Numbers DEF Runs
  <2> QED
    BY <1>4, <2>1, Numbers
<1> QED
  BY <1>1, <1>2, <1>3, <1>4

\* The journal that a command opens for release t.
LEMMA JournalOpened ==
  ASSUME StandaloneIInv, NEW c \in Updater, updater[c].at \in {"prepare", "stage"},
         NEW op \in {"apply", "rollback", "install"}, NEW reused \in BOOLEAN, OpenJournal(c, op, reused),
         commits < MaxCommits, receipt.state = "active" => launcher = ViaCurrent
  PROVE  /\ journal' \in Journal /\ commits' \in 0..MaxCommits /\ damaged' = damaged
         /\ journal'.op = op /\ journal'.phase = "PREPARED" /\ journal'.target = updater[c].target
         /\ journal'.old = receipt /\ journal'.reused = reused /\ journal'.oldLauncher = Runs
         /\ journal'.new.state = "active" /\ journal'.new.cur = updater[c].target /\ journal'.new.prev = receipt.cur
         /\ journal'.new.vers = receipt.vers \cup {updater[c].target}
<1> DEFINE new == NewReceipt(c)
           next == [op |-> op, phase |-> "PREPARED", target |-> updater[c].target, old |-> receipt,
                    new |-> new, oldLauncher |-> Runs, reused |-> reused, pending |-> FALSE]
<1>1. /\ updater[c].target \in Release /\ updater[c].target \in 0..MaxRelease /\ receipt \in Receipt
      /\ receipt.cur \in 0..MaxRelease /\ receipt.vers \subseteq Release /\ Runs \in 0..Legacy
  BY Prepares, RunsAtRest, Numbers
<1>2. commits + 1 \in 0..MaxCommits
  BY Pieces, StandaloneAssumption DEF StandaloneTyped
<1>3. /\ new \in Receipt /\ new.state = "active" /\ new.cur = updater[c].target /\ new.prev = receipt.cur
      /\ new.vers = receipt.vers \cup {updater[c].target}
  BY <1>1, <1>2 DEF NewReceipt, Receipt
<1>4. journal' = next /\ commits' = commits + 1 /\ damaged' = damaged
  BY DEF OpenJournal
<1> HIDE DEF new
<1>5. /\ next \in Journal /\ next.op = op /\ next.phase = "PREPARED" /\ next.target = updater[c].target
      /\ next.old = receipt /\ next.reused = reused /\ next.oldLauncher = Runs /\ next.new = new
  BY <1>1, <1>3 DEF Journal, Phases
<1> HIDE DEF next
<1> QED
  BY <1>2, <1>3, <1>4, <1>5

LEMMA Opens ==
  ASSUME StandaloneIInv, NEW c \in Updater, updater[c].at \in {"prepare", "stage"},
         NEW op \in {"apply", "rollback", "install"}, NEW reused \in BOOLEAN, OpenJournal(c, op, reused),
         commits < MaxCommits, receipt.state = "active" => launcher = ViaCurrent,
         updater[c].target # receipt.cur,
         updater[c].target \in receipt.vers <=> (reused \/ op = "rollback"),
         UNCHANGED <<receipt, current, launcher, tree, inventory, lockedBy>>,
         staged' \subseteq {"runtime", "installer"}, spool' \subseteq {"tree", "inventory"},
         updater' \in [Updater -> Command]
  PROVE  /\ Disk' /\ journal'.op # "none" /\ journal'.phase \in Early /\ journal'.target = updater[c].target
         /\ receipt' = journal'.old /\ current' = journal'.old.cur /\ journal'.old = receipt
         /\ (~WasActive' => launcher' = Anchored') /\ damaged' = damaged
<1>1. /\ updater[c].target \in Release /\ WellFormed(receipt) /\ current = receipt.cur
      /\ \A v \in receipt.vers : Kept(v)
      /\ \A v \in Release \ receipt.vers : tree[v] # "whole"
  BY Prepares
<1>2. /\ journal' \in Journal /\ commits' \in 0..MaxCommits /\ damaged' = damaged
      /\ journal'.op = op /\ journal'.phase = "PREPARED" /\ journal'.target = updater[c].target
      /\ journal'.old = receipt /\ journal'.reused = reused /\ journal'.oldLauncher = Runs
      /\ journal'.new.state = "active" /\ journal'.new.cur = updater[c].target /\ journal'.new.prev = receipt.cur
      /\ journal'.new.vers = receipt.vers \cup {updater[c].target}
  BY JournalOpened
<1>3. /\ receipt.state = "active" => Runs = receipt.cur
      /\ receipt.state # "active" =>
           Runs \in {None, Legacy} /\ launcher = (IF Runs = None THEN NoLauncher ELSE Direct(Runs))
  BY RunsAtRest
<1>4. StandaloneTyped' /\ WholeIsListed'
  BY <1>2, Pieces DEF StandaloneTyped, WholeIsListed
<1>5. WasActive' <=> receipt.state = "active"
  BY <1>2 DEF WasActive
<1>6. Anchored' = (IF Runs = None THEN NoLauncher ELSE Direct(Runs))
  BY <1>2 DEF Anchored
<1>7. Planned'
  BY <1>1, <1>2, <1>3, <1>5 DEF Planned, WellFormed
<1>8. \A v \in Release : Kept(v)' <=> Kept(v)
  BY <1>2 DEF Kept
<1>9. Stored'
  <2>1. receipt.vers \subseteq Release
    BY Prepares
  <2> QED
    BY <1>1, <1>2, <1>8, <2>1 DEF Stored
<1>10. launcher' \in {ViaCurrent, Anchored'} /\ (~WasActive' => launcher' = Anchored')
  BY <1>3, <1>5, <1>6
<1>11. receipt' = journal'.old /\ receipt' # journal'.new /\ current' # journal'.target /\ current' = journal'.old.cur
  BY <1>1, <1>2
<1>12. Pointed'
  BY <1>2, <1>10, <1>11 DEF Pointed
<1>13. Disk'
  BY <1>2, <1>4, <1>7, <1>9, <1>12, DiskOpen
<1> QED
  BY <1>2, <1>10, <1>11, <1>13 DEF Early

LEMMA PrepareRuntimeKeeps == ASSUME StandaloneIInv, NEW c \in Updater, PrepareRuntime(c) PROVE StandaloneIInv'
<1>1. /\ updater[c].at = "prepare" /\ updater[c].at \notin Outside /\ staged' = staged \ {"runtime"}
      /\ UNCHANGED <<receipt, current, launcher, tree, inventory, spool>>
      /\ {"anchor", "stage"} \subseteq UpdaterAt /\ "anchor" \in PublishAt /\ "anchor" \in Before /\ "anchor" \notin Placing
      /\ updater[c].kind # "install"
  BY DEF PrepareRuntime, CleanStaging, UpdaterIs, Pointers, Outside, UpdaterAt, PublishAt, Before, Placing, Installer
<1>2. /\ updater[c].target \in Release /\ ActiveLayout /\ receipt = updater[c].sawReceipt
      /\ updater[c].kind \in {"apply", "rollback"} /\ ~updater[c].newBad /\ journal.op = "none"
      /\ WellFormed(receipt) /\ receipt.cur \in 0..MaxRelease
  BY <1>1, Prepares
<1>3. staged' \subseteq {"runtime", "installer"} /\ spool' \subseteq {"tree", "inventory"} /\ staged' \subseteq staged
  BY <1>1, Pieces DEF StandaloneTyped
<1>4. ASSUME UpdaterEnds(c), UNCHANGED journal, Bounds PROVE StandaloneIInv'
  BY <1>1, <1>3, <1>4, EndsHere DEF Bounds
<1>5. ASSUME UpdaterGoes(c, "stage"), UNCHANGED <<journal, lockedBy>>, Bounds, updater[c].kind # "rollback"
      PROVE  StandaloneIInv'
  <2>1. /\ updater' \in [Updater -> Command] /\ \A d \in Updater \ {c} : updater'[d] = updater[d]
        /\ updater'[c].at = "stage" /\ updater'[c].kind = updater[c].kind /\ updater'[c].target = updater[c].target
        /\ updater'[c].sawReceipt = updater[c].sawReceipt /\ updater'[c].newBad = updater[c].newBad
    BY <1>1, <1>5, Goes, Pieces
  <2>2. Disk'
    BY <1>1, <1>3, <1>5, <2>1, DiskStays, Pieces DEF StandaloneTyped, Bounds
  <2>3. ActiveLayout' /\ launcher' = ViaCurrent
    BY <1>1, <1>2 DEF ActiveLayout
  <2>4. updater[c].kind = "apply" => updater[c].target > updater[c].sawReceipt.cur
    BY <1>1, Pieces DEF Confirmed
  <2>5. Confirmed(updater[c])'
    BY <1>1, <1>2, <1>5, <2>1, <2>3, <2>4 DEF Confirmed
  <2>6. Publishing(updater[c])' /\ Recovered(updater[c])'
    BY <2>1 DEF Publishing, Recovered, PublishAt, Undoing, Before, Placing
  <2> QED
    BY <1>1, <1>5, <2>1, <2>2, <2>5, <2>6, HolderKeeps DEF Where
<1>6. ASSUME OpenJournal(c, updater[c].kind, updater[c].kind = "apply"), UpdaterGoes(c, "anchor"),
             UNCHANGED lockedBy, SoundIn(receipt, updater[c].target), commits < MaxCommits
      PROVE  StandaloneIInv'
  <2>1. updater[c].target \in receipt.vers /\ Kept(updater[c].target)
    BY <1>6 DEF SoundIn, Inventoried, WholeTree, Kept
  <2>2. updater[c].target # receipt.cur
    <3>1. updater[c].kind = "rollback" => updater[c].target = receipt.prev
      BY <1>1, <1>2, Pieces DEF Confirmed
    <3>2. updater[c].kind = "apply" => updater[c].target > receipt.cur
      BY <1>1, <1>2, Pieces DEF Confirmed
    <3>3. receipt.prev # receipt.cur
      BY <1>2 DEF ActiveLayout, WellFormed
    <3>4. receipt.cur \in Int
      BY <1>2, StandaloneAssumption
    <3> QED
      BY <1>2, <3>1, <3>2, <3>3, <3>4
  <2>3. updater' \in [Updater -> Command] /\ updater'[c].at = "anchor"
    BY <1>1, <1>6, Goes, Pieces
  <2>4. launcher = ViaCurrent
    BY <1>2 DEF ActiveLayout
  <2> DEFINE op == updater[c].kind
             reused == updater[c].kind = "apply"
  <2>5. op \in {"apply", "rollback", "install"} /\ reused \in BOOLEAN /\ (reused \/ op = "rollback")
    BY <1>2
  <2>6. OpenJournal(c, op, reused) /\ (updater[c].target \in receipt.vers <=> (reused \/ op = "rollback"))
    BY <1>6, <2>1, <2>5
  <2> HIDE DEF op, reused
  <2>7. /\ Disk' /\ journal'.op # "none" /\ journal'.phase \in Early /\ journal'.target = updater[c].target
        /\ receipt' = journal'.old /\ current' = journal'.old.cur
        /\ (~WasActive' => launcher' = Anchored') /\ damaged' = damaged
    BY <1>1, <1>3, <1>6, <2>2, <2>3, <2>4, <2>5, <2>6, Opens
  <2>8. Kept(journal.target)'
    BY <1>1, <2>1, <2>7 DEF Kept
  <2>9. Publishing(updater[c])'
    BY <1>1, <2>3, <2>7, <2>8 DEF Publishing
  <2> QED
    BY <1>1, <1>6, <2>7, <2>9, Continues
<1> QED
  BY <1>4, <1>5, <1>6 DEF PrepareRuntime, CleanStaging

LEMMA PrepareInstallKeeps == ASSUME StandaloneIInv, NEW c \in Updater, PrepareInstall(c) PROVE StandaloneIInv'
<1>1. /\ updater[c].at = "prepare" /\ updater[c].at \notin Outside /\ staged' = staged \ {"installer"}
      /\ UNCHANGED <<current, journal, tree, inventory, spool, commits, damaged>> /\ "stage" \in UpdaterAt
      /\ updater[c].kind = "install"
  BY DEF PrepareInstall, CleanStaging, ActiveIsBroken, UpdaterIs, Pointers, Bounds, Outside, UpdaterAt, Installer
<1>2. /\ updater[c].target \in Release /\ ~updater[c].newBad /\ journal.op = "none"
      /\ WellFormed(receipt) /\ current = receipt.cur /\ receipt \in Receipt
      /\ \A v \in receipt.vers : Kept(v)
      /\ \A v \in Release \ receipt.vers : tree[v] # "whole"
      /\ receipt.state # "active" => launcher \in {NoLauncher, Direct(Legacy)}
  BY <1>1, Prepares
<1>3. staged' \subseteq {"runtime", "installer"} /\ spool' \subseteq {"tree", "inventory"} /\ staged' \subseteq staged
  BY <1>1, Pieces DEF StandaloneTyped
<1>4. CASE UpdaterEnds(c) /\ Pointers
  BY <1>1, <1>3, <1>4, EndsHere DEF Pointers
<1>5. ASSUME launcher' = IF receipt.state = "active" THEN ViaCurrent ELSE launcher,
             receipt' = receipt \/ (receipt = NoReceipt /\ receipt' = Initializing),
             UpdaterEnds(c) \/ (UpdaterGoes(c, "stage") /\ lockedBy' = lockedBy)
      PROVE  StandaloneIInv'
  <2>1. /\ receipt' \in Receipt /\ WellFormed(receipt') /\ receipt'.cur = receipt.cur /\ receipt'.vers = receipt.vers
        /\ receipt'.state = "active" <=> receipt.state = "active"
    BY <1>2, <1>5, NothingYet
  <2>2. launcher' \in Launcher
    BY <1>5, Launchers, Pieces DEF StandaloneTyped
  <2>3. updater' \in [Updater -> Command] /\ lockedBy' \subseteq Updater
    <3>1. CASE UpdaterEnds(c)
      BY <3>1, NothingYet, Pieces DEF UpdaterEnds, StandaloneTyped
    <3>2. CASE UpdaterGoes(c, "stage") /\ lockedBy' = lockedBy
      <4>1. updater' \in [Updater -> Command]
        BY <1>1, <3>2, Goes, Pieces
      <4> QED
        BY <3>2, <4>1, Pieces DEF StandaloneTyped
    <3> QED
      BY <1>5, <3>1, <3>2
  <2>4. StandaloneTyped' /\ WholeIsListed'
    BY <1>1, <1>3, <2>1, <2>2, <2>3, Pieces DEF StandaloneTyped, WholeIsListed
  <2>5. AtRest'
    <3>1. journal' = NoJournal
      BY <1>1, <1>2, Pieces DEF AtRest
    <3>2. \A v \in receipt'.vers : Kept(v)'
      BY <1>1, <1>2, <2>1 DEF Kept
    <3>3. /\ receipt'.state = "active" => launcher' \in {ViaCurrent, NoLauncher}
          /\ receipt'.state # "active" => launcher' \in {NoLauncher, Direct(Legacy)}
      BY <1>2, <1>5, <2>1
    <3> QED
      BY <1>1, <1>2, <2>1, <3>1, <3>2, <3>3 DEF AtRest
  <2>6. Disk'
    BY <1>1, <1>2, <2>4, <2>5 DEF Disk, OpenTransaction
  <2>7. CASE UpdaterEnds(c)
    BY <1>1, <2>6, <2>7, EndKeeps
  <2>8. CASE UpdaterGoes(c, "stage") /\ lockedBy' = lockedBy
    <3>1. /\ \A d \in Updater \ {c} : updater'[d] = updater[d]
          /\ updater'[c].at = "stage" /\ updater'[c].kind = "install" /\ updater'[c].target = updater[c].target
          /\ ~updater'[c].newBad
      BY <1>1, <1>2, <2>8, Goes, Pieces
    <3>2. receipt'.state = "active" => launcher' = ViaCurrent
      BY <1>5, <2>1
    <3>3. Confirmed(updater[c])'
      BY <1>1, <1>2, <3>1, <3>2 DEF Confirmed
    <3>4. Publishing(updater[c])' /\ Recovered(updater[c])'
      BY <3>1 DEF Publishing, Recovered, PublishAt, Undoing, Before, Placing
    <3> QED
      BY <1>1, <2>6, <2>8, <3>1, <3>3, <3>4, HolderKeeps DEF Where
  <2> QED
    BY <1>5, <2>7, <2>8
<1> QED
  BY <1>4, <1>5 DEF PrepareInstall, CleanStaging, ActiveIsBroken

LEMMA StageKeeps == ASSUME StandaloneIInv, NEW c \in Updater, Stage(c) PROVE StandaloneIInv'
<1> DEFINE stager == StagesAs(c)
<1>1. /\ updater[c].at = "stage" /\ updater[c].at \notin Outside
      /\ UNCHANGED <<receipt, current, launcher, tree, inventory>>
      /\ "inventory" \in UpdaterAt /\ "inventory" \in PublishAt /\ "inventory" \in Before /\ "inventory" \in Placing
  BY DEF Stage, FillStaging, StagingFails, OpensStaged, UpdaterIs, Pointers, Outside, UpdaterAt, PublishAt, Before, Placing
<1>2. /\ updater[c].target \in Release /\ ~updater[c].newBad /\ journal.op = "none"
      /\ \A v \in receipt.vers : Kept(v)
      /\ WellFormed(receipt) /\ receipt.cur \in 0..MaxRelease
      /\ updater[c].kind # "rollback" /\ (receipt.state = "active" => launcher = ViaCurrent)
      /\ updater[c].kind \in {"apply", "install"}
  BY <1>1, Prepares, Pieces DEF Confirmed
<1>3. stager \in {"runtime", "installer"} /\ staged \subseteq {"runtime", "installer"} /\ spool \subseteq {"tree", "inventory"}
  BY Pieces DEF StandaloneTyped, StagesAs
<1>4. ASSUME staged' = staged \cup {stager}, UNCHANGED <<journal, updater, lockedBy, spool>>, Bounds
      PROVE  StandaloneIInv'
  <2>1. Disk'
    BY <1>1, <1>3, <1>4, DiskStays, Pieces DEF StandaloneTyped, Bounds
  <2>2. ASSUME NEW d \in Updater PROVE Where(d)'
    BY <1>1, <1>4, Pieces, Untouched DEF Bounds
  <2> QED
    BY <1>4, <2>1, <2>2 DEF StandaloneIInv, LockIsHeld
<1>5. ASSUME staged' = staged \ {stager}, UpdaterEnds(c), UNCHANGED <<journal, spool>>, Bounds PROVE StandaloneIInv'
  BY <1>1, <1>5, EndsHere DEF Bounds
<1>6. ASSUME staged' = staged \ {stager}, updater[c].target \notin inventory, commits < MaxCommits,
             OpenJournal(c, updater[c].kind, FALSE), spool' = {"tree", "inventory"},
             UpdaterGoes(c, "inventory"), UNCHANGED lockedBy
      PROVE  StandaloneIInv'
  <2>1. updater[c].target \notin receipt.vers
    BY <1>2, <1>6 DEF Kept
  <2>2. updater[c].target # receipt.cur
    BY <1>2, <2>1, Numbers DEF WellFormed
  <2>3. updater' \in [Updater -> Command] /\ updater'[c].at = "inventory"
    BY <1>1, <1>6, Goes, Pieces
  <2> DEFINE op == updater[c].kind
  <2>4. op \in {"apply", "rollback", "install"} /\ OpenJournal(c, op, FALSE) /\ op # "rollback"
    BY <1>2, <1>6
  <2>5. (updater[c].target \in receipt.vers <=> (FALSE \/ op = "rollback")) /\ FALSE \in BOOLEAN
    BY <2>1, <2>4
  <2>6. staged' \subseteq {"runtime", "installer"} /\ spool' \subseteq {"tree", "inventory"}
    BY <1>3, <1>6
  <2> HIDE DEF op
  <2>7. /\ Disk' /\ journal'.op # "none" /\ journal'.phase \in Early /\ journal'.target = updater[c].target
        /\ receipt' = journal'.old /\ current' = journal'.old.cur /\ journal'.old = receipt
        /\ (~WasActive' => launcher' = Anchored') /\ damaged' = damaged
    BY <1>1, <1>2, <1>6, <2>2, <2>3, <2>4, <2>5, <2>6, Opens
  <2>8. Publishing(updater[c])'
    BY <1>1, <2>1, <2>3, <2>7 DEF Publishing
  <2> QED
    BY <1>1, <1>6, <2>7, <2>8, Continues
<1> QED
  BY <1>4, <1>5, <1>6 DEF Stage, FillStaging, StagingFails, OpensStaged, CleanStaging

-----------------------------------------------------------------------------
LEMMA PublishStepKeeps == ASSUME StandaloneIInv, NEW c \in Updater, PublishStep(c) PROVE StandaloneIInv'
  BY PublishInventoryKeeps, PublishTreeKeeps, NoteTreeKeeps, AnchorLauncherKeeps, SwitchCurrentKeeps,
     NoteCurrentKeeps, TryCandidateKeeps, NotePendingKeeps, CommitReceiptKeeps, NoteReceiptKeeps,
     ActivateLauncherKeeps, NoteLauncherKeeps, TryLauncherKeeps, NoteSmokedKeeps, NoteCommittedKeeps,
     CloseJournalKeeps, PublicationFailsKeeps DEF PublishStep

LEMMA UndoStepKeeps == ASSUME StandaloneIInv, NEW c \in Updater, UndoStep(c) PROVE StandaloneIInv'
  BY UndoCurrentKeeps, UndoLauncherKeeps, UndoReceiptKeeps, UndoTreeKeeps, UndoSpoolKeeps,
     UndoInventoryKeeps, UndoJournalKeeps DEF UndoStep

LEMMA StandaloneIInvNext == StandaloneIInv /\ [StandaloneNext]_standaloneVars => StandaloneIInv'
<1> SUFFICES ASSUME StandaloneIInv, [StandaloneNext]_standaloneVars PROVE StandaloneIInv'
  OBVIOUS
<1>1. ASSUME NEW c \in Updater,
             \/ Ask(c) \/ TakeLock(c) \/ Begin(c) \/ PrepareRuntime(c) \/ PrepareInstall(c) \/ Stage(c)
             \/ PublishStep(c) \/ Recover(c) \/ UndoStep(c) \/ UpdaterDies(c)
      PROVE  StandaloneIInv'
  BY <1>1, AskKeeps, TakeLockKeeps, BeginKeeps, PrepareRuntimeKeeps, PrepareInstallKeeps, StageKeeps,
     PublishStepKeeps, RecoverKeeps, UndoStepKeeps, UpdaterDiesKeeps
<1>2. ASSUME NEW v \in Release, TreeRots(v) PROVE StandaloneIInv'
  BY <1>2, TreeRotsKeeps
<1>3. CASE UNCHANGED standaloneVars
  <2>1. /\ UNCHANGED <<receipt, current, launcher, tree, inventory, journal, damaged, commits>>
        /\ UNCHANGED <<staged, spool, lockedBy, updater>>
    BY <1>3 DEF standaloneVars
  <2>2. Disk /\ StandaloneTyped /\ LockIsHeld
    BY DEF StandaloneIInv, Disk
  <2>3. Disk'
    BY <2>1, <2>2, DiskStays DEF StandaloneTyped
  <2>4. ASSUME NEW d \in Updater PROVE Where(d)'
    BY <2>1, Pieces, Untouched
  <2> QED
    BY <2>1, <2>2, <2>3, <2>4 DEF StandaloneIInv, LockIsHeld
<1> QED
  BY <1>1, <1>2, <1>3 DEF StandaloneNext

(* Whatever dies between whichever two writes, whoever recovers and        *)
(* whatever the disk loses: the public command of an active installation   *)
(* starts a release that a receipt committed, a settled installation       *)
(* agrees with its receipt, and an undamaged transaction over an active    *)
(* installation is one that one of the two programs recovers.              *)
THEOREM InstallationSurvives == StandaloneSpec => []StandaloneInv
<1>1. StandaloneInit => StandaloneIInv
  BY StandaloneIInvInit
<1>2. StandaloneIInv /\ [StandaloneNext]_standaloneVars => StandaloneIInv'
  BY StandaloneIInvNext
<1>3. StandaloneIInv => StandaloneInv
  BY StandaloneIInvImplies
<1> QED
  BY <1>1, <1>2, <1>3, PTL DEF StandaloneSpec

\* Whoever is to commit still meets the receipt that was confirmed.
LEMMA CommitIsConfirmed ==
  ASSUME StandaloneIInv, NEW c \in Updater, updater[c].at = "commit", updater[c].kind \in {"apply", "rollback"}
  PROVE  receipt = updater[c].sawReceipt
<1>1. "commit" \in Before
  BY DEF Before
<1> QED
  BY <1>1, Pieces DEF Confirmed

(* The confirmation is asked for before the lock is taken, yet an update   *)
(* or a rollback commits over the very receipt the user was shown: nothing *)
(* that happened between the answer and the lock slips in.                 *)
THEOREM ConfirmedReceiptIsReplaced == StandaloneSpec => CommitsWhatWasConfirmed
<1> DEFINE A == \A c \in Updater : updater[c].at = "commit" /\ receipt' # receipt /\ updater[c].kind \in {"apply", "rollback"}
                                     => receipt = updater[c].sawReceipt
<1>1. StandaloneInit => StandaloneIInv
  BY StandaloneIInvInit
<1>2. StandaloneIInv /\ [StandaloneNext]_standaloneVars => StandaloneIInv'
  BY StandaloneIInvNext
<1>3. StandaloneIInv => [A]_standaloneVars
  BY CommitIsConfirmed
<1> QED
  BY <1>1, <1>2, <1>3, PTL DEF StandaloneSpec, CommitsWhatWasConfirmed

-----------------------------------------------------------------------------
(* The state backup.  BackupInv is not inductive: the two readings follow  *)
(* the files one by one, so the invariant says what the files can no       *)
(* longer be once they have moved on.  An inventory carries the time of    *)
(* its writing, a new identity a new number: what is left never returns.   *)

BackupReading == [files : BackupFiles, rows : Inventory \cup {Gone}]
BackupPlace ==
  {"idle", "lease", "compare", "gate", "check", "manifest", "marker"} \cup Readings \cup Copies
BackupRecord ==
  [at : BackupPlace, again : BOOLEAN, first : BackupReading, second : BackupReading,
   tries : 0..SnapshotAttempts, project : Nat \cup {Gone}]
KeptRecord == [copies : BackupFiles, manifest : BackupFiles \cup {Gone}, marker : BackupFiles \cup {Gone}]
WriterRecord ==
  [does : {"run", "clean", "reset"},
   at : {"idle", "admitted", "slot", "row", "mapped", "unfiled", "identity", "end"}]

BackupTyped ==
  /\ files \in BackupFiles /\ stamps \in Nat /\ moments \subseteq BackupFiles
  /\ writer \in [Writer -> WriterRecord] /\ slotOf \in Writer \cup {"backup", "none"}
  /\ backup \in BackupRecord /\ kept \in KeptRecord /\ attempts \in 0..MaxBackups

NoResetAhead == \A w \in Writer : writer[w].does = "reset" => writer[w].at # "idle"
Trusted(i) == i # Gone \/ OneReset
Known(i) == (i # Gone => i.at <= stamps) /\ (i = Gone /\ OneReset => NoResetAhead)
KnownIdentity(d) == d # Gone => d <= stamps

FilesAreKnown == files \in moments /\ Known(files.inventory) /\ KnownIdentity(files.identity)
SlotsAreHeld == \A w \in Writer : writer[w].at \in {"slot", "row", "mapped"} => slotOf = w

Late == {"gate", "check", "manifest", "marker"} \cup Copies
Leased(b, slot) ==
  /\ b.at = "idle" => slot # "backup" /\ ~b.again
  /\ b.again /\ Live(b.first.rows) => slot = "backup"
  /\ b.at = "lease" => ~b.again
  /\ b.at \in Late \cup {"compare"} => b.again
  /\ b.at \in Late => b.first = b.second
  /\ b.at # "idle" => b.project # Gone

\* An inventory that was gone at the end of a reading is gone for good.
RowsTell(r) == Trusted(r.files.inventory) /\ r.rows # r.files.inventory => files.inventory # r.files.inventory

KnownReadings(b) ==
  /\ b.again => Known(b.first.files.inventory) /\ KnownIdentity(b.first.files.identity)
  /\ b.at \notin {"idle", "read inventory"} => Known(b.second.files.inventory)
  /\ KnownIdentity(b.second.files.identity)
  /\ b.again => RowsTell(b.first)
  /\ b.at = "lease" => RowsTell(b.second)

Together(b) == [inventory |-> b.second.files.inventory, identity |-> b.first.files.identity,
             store |-> b.second.files.store]
Moved(b) == files.inventory # b.second.files.inventory
SecondReading(b) ==
  b.again /\ Trusted(b.second.files.inventory) =>
    /\ /\ b.at # "read inventory"
       /\ b.second.files.inventory = b.first.files.inventory
       => b.first.rows = b.first.files.inventory
    /\ b.first.files.identity # Gone =>
         /\ b.at = "read identity" =>
              Together(b) \in moments \/ Moved(b) \/ files.identity # b.first.files.identity
         /\ b.at \in {"read rows", "compare"} /\ b.second.files.identity = b.first.files.identity =>
              \/ Together(b) \in moments
              \/ IF b.at = "read rows" THEN Moved(b)
                 ELSE b.second.rows # b.second.files.inventory

OfOneMoment(s) == Tells(s) /\ s.identity # Gone => s \in moments
Copied(b, k, f) == b.second.files[f] # Gone => k.copies[f] = b.second.files[f]
Copying(b, k) ==
  /\ b.at \in Late => OfOneMoment(b.second.files)
  /\ b.at \in {"copy identity", "copy store", "check"} => Copied(b, k, "inventory")
  /\ b.at \in {"copy store", "check"} => Copied(b, k, "identity")
  /\ b.at = "check" => Copied(b, k, "store")
  /\ b.at \in {"manifest", "marker"} =>
       k.copies = b.second.files /\ Consistent(k.copies) /\ k.copies.identity # Gone
  /\ b.at = "marker" => k.manifest = b.second.files
  /\ k.marker # Gone /\ Tells(k.marker) => k.marker \in moments

BackupIInv ==
  /\ BackupTyped /\ FilesAreKnown /\ SlotsAreHeld /\ Leased(backup, slotOf)
  /\ KnownReadings(backup) /\ SecondReading(backup) /\ Copying(backup, kept)

LEMMA GoneFacts ==
  /\ Gone \notin Nat /\ Gone \notin BOOLEAN /\ Gone \notin Inventory /\ Gone \notin BackupFiles
  /\ SnapshotAttempts \in Nat /\ SnapshotAttempts >= 1 /\ MaxBackups \in Nat
  /\ "backup" \notin Writer /\ "none" \notin Writer
  BY BackupAssumption

LEMMA FileFields ==
  ASSUME NEW s \in BackupFiles
  PROVE  /\ s.inventory \in Inventory \cup {Gone} /\ s.identity \in Nat \cup {Gone}
         /\ s.store \in BOOLEAN \cup {Gone}
         /\ s = [inventory |-> s.inventory, identity |-> s.identity, store |-> s.store]
  BY DEF BackupFiles

LEMMA InventoryFields == ASSUME NEW i \in Inventory PROVE i.at \in Nat /\ i.row \in RowState /\ i.project \in Nat \cup {Gone}
  BY DEF Inventory

LEMMA BackupFields ==
  ASSUME NEW b \in BackupRecord
  PROVE  /\ b.at \in BackupPlace /\ b.again \in BOOLEAN /\ b.first \in BackupReading /\ b.second \in BackupReading
         /\ b.tries \in 0..SnapshotAttempts /\ b.project \in Nat \cup {Gone}
         /\ b.first.files \in BackupFiles /\ b.second.files \in BackupFiles
         /\ b.first.rows \in Inventory \cup {Gone} /\ b.second.rows \in Inventory \cup {Gone}
  BY DEF BackupRecord, BackupReading

LEMMA KeptFields ==
  ASSUME NEW k \in KeptRecord
  PROVE  /\ k.copies \in BackupFiles /\ k.manifest \in BackupFiles \cup {Gone} /\ k.marker \in BackupFiles \cup {Gone}
  BY DEF KeptRecord

LEMMA NothingTyped == Nothing \in BackupFiles /\ Unread \in BackupReading /\ NoBackup \in BackupRecord
<1>1. Nothing \in BackupFiles
  BY DEF Nothing, BackupFiles
<1>2. Unread \in BackupReading
  BY <1>1 DEF Unread, BackupReading
<1> QED
  BY <1>1, <1>2, GoneFacts DEF NoBackup, BackupRecord, BackupPlace

\* How the files move, whoever writes them: what is left never returns.
Drift ==
  /\ files' \in BackupFiles /\ stamps' \in Nat /\ stamps' >= stamps
  /\ moments' = moments \cup {files'} /\ (OneReset <=> OneReset') /\ (NoResetAhead => NoResetAhead')
  /\ Known(files.inventory)' /\ KnownIdentity(files.identity)'
  /\ \A i \in Inventory \cup {Gone} :
       Known(i) /\ Trusted(i) /\ files.inventory # i => files'.inventory # i
  /\ \A d \in Nat : KnownIdentity(d) /\ files.identity # d => files'.identity # d

LEMMA OneResetStands ==
  ASSUME BackupTyped, writer' \in [Writer -> WriterRecord],
         \A w \in Writer : writer'[w].does = writer[w].does
  PROVE  OneReset <=> OneReset'
  BY DEF OneReset

LEMMA KnownStands ==
  ASSUME BackupTyped, Drift, NEW i \in Inventory \cup {Gone}, Known(i)
  PROVE  (i # Gone => i.at <= stamps') /\ (i = Gone /\ OneReset' => NoResetAhead')
<1>1. i # Gone => i.at \in Nat /\ i.at <= stamps
  BY InventoryFields DEF Known
<1>2. stamps \in Nat /\ stamps' \in Nat /\ stamps' >= stamps
  BY DEF BackupTyped, Drift
<1>3. i # Gone => i.at <= stamps'
  BY <1>1, <1>2
<1> QED
  BY <1>3 DEF Drift, Known

LEMMA IdentityStands ==
  ASSUME BackupTyped, Drift, NEW d \in Nat \cup {Gone}, KnownIdentity(d)
  PROVE  d # Gone => d <= stamps'
  BY GoneFacts DEF BackupTyped, Drift, KnownIdentity


LEMMA UnreadFields ==
  /\ Unread.files = Nothing /\ Unread.rows = Gone
  /\ Unread.files.identity = Gone /\ Unread.files.inventory = Gone
<1>1. Unread.files = Nothing /\ Unread.rows = Gone
  BY DEF Unread
<1>2. Nothing.identity = Gone /\ Nothing.inventory = Gone
  BY DEF Nothing
<1> QED
  BY <1>1, <1>2

\* The files and the writers move, the backup and what it has kept do not.
LEMMA DriftKeeps ==
  ASSUME BackupIInv, Drift, UNCHANGED <<backup, kept, attempts>>,
         writer' \in [Writer -> WriterRecord], slotOf' \in Writer \cup {"backup", "none"},
         SlotsAreHeld', slotOf = "backup" <=> slotOf' = "backup"
  PROVE  BackupIInv'
<1>1. /\ BackupTyped /\ FilesAreKnown /\ SlotsAreHeld /\ Leased(backup, slotOf) /\ KnownReadings(backup) /\ SecondReading(backup) /\ Copying(backup, kept)
  BY DEF BackupIInv
<1>2. backup \in BackupRecord /\ kept \in KeptRecord
  BY <1>1 DEF BackupTyped
<1>3. BackupTyped'
  BY <1>1 DEF BackupTyped, Drift
<1>4. FilesAreKnown'
  BY DEF FilesAreKnown, Drift
<1>5. Leased(backup, slotOf)'
  BY <1>1 DEF Leased
<1>6. moments \subseteq moments' /\ (OneReset <=> OneReset')
  BY DEF Drift
<1> DEFINE first == backup.first
           second == backup.second
           i1 == first.files.inventory
           i2 == second.files.inventory
           d1 == first.files.identity
           d2 == second.files.identity
<1>7. i1 \in Inventory \cup {Gone} /\ i2 \in Inventory \cup {Gone} /\ d1 \in Nat \cup {Gone} /\ d2 \in Nat \cup {Gone}
  BY <1>2, BackupFields, FileFields
<1>8. \A i \in {i1, i2} : Known(i) => (Known(i))'
  <2>1. ASSUME Known(i1)  PROVE Known(backup.first.files.inventory)'
    BY <1>1, <1>7, <2>1, KnownStands DEF Known
  <2>2. ASSUME Known(i2)  PROVE Known(backup.second.files.inventory)'
    BY <1>1, <1>7, <2>2, KnownStands DEF Known
  <2> QED
    BY <2>1, <2>2 DEF Known
<1>9. \A d \in {d1, d2} : KnownIdentity(d) => (KnownIdentity(d))'
  BY <1>1, <1>7, IdentityStands DEF KnownIdentity
<1>10. \A i \in {i1, i2} : Known(i) /\ Trusted(i) /\ files.inventory # i => files'.inventory # i
  BY <1>7 DEF Drift
<1>11. \A d \in {d1, d2} : d # Gone /\ KnownIdentity(d) /\ files.identity # d => files'.identity # d
  BY <1>7 DEF Drift
<1>12. \A i \in {i1, i2} : Trusted(i) <=> (Trusted(i))'
  BY <1>6 DEF Trusted
<1>13. KnownReadings(backup)'
  <2>1. backup' = backup
    OBVIOUS
  <2>2. backup.again => Known(i1)' /\ KnownIdentity(d1)'
    BY <1>1, <1>8, <1>9 DEF KnownReadings
  <2>3. backup.at \notin {"idle", "read inventory"} => Known(i2)'
    BY <1>1, <1>8 DEF KnownReadings
  <2>4. KnownIdentity(d2)'
    BY <1>1, <1>9 DEF KnownReadings
  <2>5. backup.again => RowsTell(backup.first)'
    BY <1>1, <1>10, <1>12 DEF KnownReadings, RowsTell
  <2>6. backup.at = "lease" => RowsTell(backup.second)'
    BY <1>1, <1>10, <1>12 DEF KnownReadings, RowsTell
  <2> QED
    BY <2>1, <2>2, <2>3, <2>4, <2>5, <2>6 DEF KnownReadings
<1>14. SecondReading(backup)'
  <2> SUFFICES ASSUME backup.again, Trusted(i2)'  PROVE SecondReading(backup)'
    BY DEF SecondReading
  <2>1. Trusted(i2) /\ (backup.at \notin {"idle", "read inventory"} => Known(i2)) /\ KnownIdentity(d1)
    BY <1>1, <1>12 DEF KnownReadings
  <2>2. backup.at \notin {"idle", "read inventory"} /\ Moved(backup) => Moved(backup)'
    BY <1>10, <2>1 DEF Moved
  <2>3. d1 # Gone /\ files.identity # d1 => files'.identity # d1
    BY <1>11, <2>1
  <2>4. Together(backup)' = Together(backup)
    BY DEF Together
  <2> QED
    BY <1>1, <1>6, <2>1, <2>2, <2>3, <2>4 DEF SecondReading
<1>15. Copying(backup, kept)'
  BY <1>1, <1>6 DEF Copying, OfOneMoment, Tells, Copied, Consistent
<1> QED
  BY <1>3, <1>4, <1>5, <1>13, <1>14, <1>15 DEF BackupIInv

\* The backup takes a step of its own, and the files stay as they are.
LEMMA StillKnown ==
  ASSUME FilesAreKnown, UNCHANGED <<files, moments, stamps, writer>>
  PROVE  FilesAreKnown' /\ (OneReset <=> OneReset') /\ (NoResetAhead <=> NoResetAhead')
         /\ \A i : Known(i) <=> (Known(i))'
  BY DEF FilesAreKnown, Known, KnownIdentity, OneReset, NoResetAhead

\* A writer's step that leaves the files alone, or writes one of them.
LEMMA WriterTyped ==
  ASSUME BackupTyped, NEW w \in Writer, NEW at \in {"idle", "admitted", "slot", "row", "mapped", "unfiled", "identity", "end"},
         WriterGoes(w, at), at # "idle"
  PROVE  /\ writer' \in [Writer -> WriterRecord] /\ writer'[w].at = at
         /\ \A v \in Writer : writer'[v].does = writer[v].does /\ (v # w => writer'[v] = writer[v])
         /\ (OneReset <=> OneReset') /\ (NoResetAhead => NoResetAhead')
<1>1. writer' = [writer EXCEPT ![w] = [writer[w] EXCEPT !.at = at]]
  BY DEF WriterGoes, BackupTyped
<1>2. writer[w] \in WriterRecord
  BY DEF BackupTyped
<1>3. [writer[w] EXCEPT !.at = at] \in WriterRecord /\ [writer[w] EXCEPT !.at = at].at = at
      /\ [writer[w] EXCEPT !.at = at].does = writer[w].does
  BY <1>2 DEF WriterRecord
<1>4. /\ writer' \in [Writer -> WriterRecord] /\ writer'[w].at = at
      /\ \A v \in Writer : writer'[v].does = writer[v].does /\ (v # w => writer'[v] = writer[v])
  BY <1>1, <1>3 DEF BackupTyped
<1>5. OneReset <=> OneReset'
  BY <1>4 DEF OneReset
<1>6. NoResetAhead => NoResetAhead'
  BY <1>4 DEF NoResetAhead
<1> QED
  BY <1>4, <1>5, <1>6

LEMMA QuietDrifts ==
  ASSUME BackupTyped, FilesAreKnown, NoFileChange, OneReset <=> OneReset', NoResetAhead => NoResetAhead'
  PROVE  Drift
<1>1. moments' = moments \cup {files'}
  BY DEF FilesAreKnown, NoFileChange
<1>2. Known(files.inventory)' /\ KnownIdentity(files.identity)'
  BY DEF FilesAreKnown, Known, KnownIdentity, NoFileChange
<1> QED
  BY <1>1, <1>2 DEF Drift, BackupTyped, NoFileChange

LEMMA PutRowDrifts ==
  ASSUME BackupTyped, FilesAreKnown, NEW r \in RowState, PutRow(r), files.identity # Gone,
         OneReset <=> OneReset', NoResetAhead => NoResetAhead'
  PROVE  Drift
<1> DEFINE i == [row |-> r, at |-> stamps + 1, project |-> files.identity]
<1>1. files \in BackupFiles /\ stamps \in Nat
  BY DEF BackupTyped
<1>2. stamps' = stamps + 1 /\ moments' = moments \cup {files'} /\ files' = [files EXCEPT !.inventory = i]
  BY DEF PutRow, Publish
<1>3. i \in Inventory /\ i.at = stamps + 1
  BY <1>1, FileFields DEF Inventory
<1> HIDE DEF i
<1>4. files' \in BackupFiles /\ files'.inventory = i /\ files'.identity = files.identity
  BY <1>1, <1>2, <1>3 DEF BackupFiles
<1>5. i # Gone
  BY <1>3, GoneFacts
<1>6. Known(files.inventory)' /\ KnownIdentity(files.identity)'
  <2>1. files.identity # Gone => files.identity \in Nat /\ files.identity <= stamps
    BY <1>1, FileFields DEF FilesAreKnown, KnownIdentity
  <2>2. files.identity # Gone => files.identity <= stamps + 1
    BY <1>1, <2>1
  <2> QED
    BY <1>1, <1>2, <1>3, <1>4, <1>5, <2>2 DEF Known, KnownIdentity
<1>7. ASSUME NEW j \in Inventory \cup {Gone}, Known(j)  PROVE j # i
  <2>1. CASE j = Gone
    BY <1>5, <2>1
  <2>2. CASE j # Gone
    <3>1. j.at \in Nat /\ j.at <= stamps
      BY <1>7, <2>2, InventoryFields DEF Known
    <3> QED
      BY <1>1, <1>3, <3>1
  <2> QED
    BY <2>1, <2>2
<1>8. stamps' \in Nat /\ stamps' >= stamps
  BY <1>1, <1>2
<1>9. \A d \in Nat : KnownIdentity(d) /\ files.identity # d => files'.identity # d
  BY <1>4
<1>10. \A j \in Inventory \cup {Gone} : Known(j) /\ Trusted(j) /\ files.inventory # j => files'.inventory # j
  BY <1>4, <1>7
<1> QED
  BY <1>2, <1>4, <1>6, <1>8, <1>9, <1>10 DEF Drift

LEMMA NewIdentityDrifts ==
  ASSUME BackupTyped, FilesAreKnown, NewIdentity, OneReset <=> OneReset', NoResetAhead => NoResetAhead'
  PROVE  Drift
<1>1. files \in BackupFiles /\ stamps \in Nat
  BY DEF BackupTyped
<1>2. stamps' = stamps + 1 /\ moments' = moments \cup {files'} /\ files' = [files EXCEPT !.identity = stamps + 1]
  BY DEF NewIdentity, Publish
<1>3. stamps + 1 \in Nat
  BY <1>1
<1>4. files' \in BackupFiles /\ files'.inventory = files.inventory /\ files'.identity = stamps + 1
  BY <1>1, <1>2, <1>3 DEF BackupFiles
<1>5. Known(files.inventory)' /\ KnownIdentity(files.identity)'
  <2>1. files.inventory # Gone => files.inventory.at \in Nat /\ files.inventory.at <= stamps
    BY <1>1, FileFields, InventoryFields DEF FilesAreKnown, Known
  <2>2. files.inventory # Gone => files.inventory.at <= stamps + 1
    BY <1>1, <2>1
  <2>3. Known(files.inventory)'
    BY <1>2, <1>4, <2>2 DEF FilesAreKnown, Known
  <2>4. stamps + 1 <= stamps'
    BY <1>1, <1>2
  <2> QED
    BY <1>4, <2>3, <2>4 DEF KnownIdentity
<1>6. ASSUME NEW d \in Nat, KnownIdentity(d)  PROVE d # stamps + 1
  <2>1. d <= stamps
    BY <1>6, GoneFacts DEF KnownIdentity
  <2> QED
    BY <1>1, <2>1
<1>7. stamps' \in Nat /\ stamps' >= stamps
  BY <1>1, <1>2
<1>8. \A j \in Inventory \cup {Gone} : Known(j) /\ Trusted(j) /\ files.inventory # j => files'.inventory # j
  BY <1>4
<1>9. \A d \in Nat : KnownIdentity(d) /\ files.identity # d => files'.identity # d
  BY <1>4, <1>6
<1> QED
  BY <1>2, <1>4, <1>5, <1>7, <1>8, <1>9 DEF Drift

\* A store, or nothing, in the place of the store; or an identity that is removed.
LEMMA PublishDrifts ==
  ASSUME BackupTyped, FilesAreKnown, NEW s \in BackupFiles, Publish(s), stamps' = stamps,
         s.inventory = files.inventory, s.identity \in {files.identity, Gone},
         OneReset <=> OneReset', NoResetAhead => NoResetAhead'
  PROVE  Drift
<1>1. files' = s /\ moments' = moments \cup {files'} /\ stamps \in Nat
  BY DEF Publish, BackupTyped
<1>2. Known(files.inventory)' /\ KnownIdentity(files.identity)'
  BY <1>1 DEF FilesAreKnown, Known, KnownIdentity
<1>3. \A d \in Nat : d # Gone
  BY GoneFacts
<1> QED
  BY <1>1, <1>2, <1>3 DEF Drift

\* An inventory that is removed, by a reset that has only begun.
LEMMA RemovalDrifts ==
  ASSUME BackupTyped, FilesAreKnown, NEW w \in Writer, ResetInventory(w), OneReset <=> OneReset', NoResetAhead => NoResetAhead',
         NoResetAhead' \/ ~OneReset
  PROVE  Drift
<1>1. files \in BackupFiles /\ stamps \in Nat
  BY DEF BackupTyped
<1>2. stamps' = stamps /\ moments' = moments \cup {files'} /\ files' = [files EXCEPT !.inventory = Gone]
  BY DEF ResetInventory, Publish
<1>3. files' \in BackupFiles /\ files'.inventory = Gone /\ files'.identity = files.identity
  BY <1>1, <1>2 DEF BackupFiles
<1>4. Known(files.inventory)' /\ KnownIdentity(files.identity)'
  BY <1>2, <1>3 DEF FilesAreKnown, Known, KnownIdentity
<1>5. ~NoResetAhead
  BY DEF ResetInventory, NoResetAhead
<1>6. \A j \in Inventory \cup {Gone} : Known(j) /\ Trusted(j) /\ files.inventory # j => files'.inventory # j
  BY <1>3, <1>5 DEF Known, Trusted
<1>7. \A d \in Nat : KnownIdentity(d) /\ files.identity # d => files'.identity # d
  BY <1>3
<1> QED
  BY <1>1, <1>2, <1>3, <1>4, <1>6, <1>7 DEF Drift

LEMMA WriterKeeps == ASSUME BackupIInv, NEW w \in Writer, WriterStep(w) PROVE BackupIInv'
<1>1. BackupTyped /\ FilesAreKnown /\ SlotsAreHeld /\ Leased(backup, slotOf)
  BY DEF BackupIInv
<1>2. UNCHANGED <<backup, kept, attempts>>
  BY DEF WriterStep, NotBackup, WriterAdmitted, WriterTakesSlot, WriterClaimsRow, WriterMaps, WriterFinishesRow,
     WriterDies, ResetInventory, ResetStore, ResetIdentity
<1>3. files \in BackupFiles /\ slotOf \in Writer \cup {"backup", "none"} /\ w # "backup" /\ w # "none"
  BY <1>1, GoneFacts DEF BackupTyped
<1> DEFINE Turn(at) ==
      /\ writer' \in [Writer -> WriterRecord] /\ writer'[w].at = at
      /\ \A v \in Writer : writer'[v].does = writer[v].does /\ (v # w => writer'[v] = writer[v])
      /\ (OneReset <=> OneReset') /\ (NoResetAhead => NoResetAhead')
<1>4. \A at \in {"admitted", "slot", "row", "mapped", "unfiled", "identity", "end"} : WriterGoes(w, at) => Turn(at)
  BY <1>1, WriterTyped
<1>5. ASSUME NEW at \in {"admitted", "unfiled", "identity", "end"}, Turn(at), slotOf' = slotOf
      PROVE  SlotsAreHeld'
  BY <1>1, <1>5 DEF SlotsAreHeld
<1>6. ASSUME NEW at \in {"slot", "row", "mapped"}, Turn(at), slotOf' = slotOf, slotOf = w
      PROVE  SlotsAreHeld'
  BY <1>1, <1>6 DEF SlotsAreHeld
<1>7. CASE WriterAdmitted(w)
  <2>1. Turn("admitted") /\ NoFileChange /\ slotOf' = slotOf
    BY <1>4, <1>7 DEF WriterAdmitted
  <2>2. Drift
    BY <1>1, <2>1, QuietDrifts
  <2> QED
    BY <1>2, <1>3, <1>5, <2>1, <2>2, DriftKeeps
<1>8. CASE WriterTakesSlot(w)
  <2>1. Turn("slot") /\ NoFileChange /\ slotOf = "none" /\ slotOf' = w
    BY <1>4, <1>8 DEF WriterTakesSlot
  <2>2. Drift
    BY <1>1, <2>1, QuietDrifts
  <2>3. SlotsAreHeld'
    BY <1>1, <1>3, <2>1, GoneFacts DEF SlotsAreHeld
  <2> QED
    BY <1>2, <1>3, <2>1, <2>2, <2>3, DriftKeeps
<1>9. CASE WriterClaimsRow(w)
  <2>1. Turn("row") /\ slotOf' = slotOf /\ files.identity # Gone /\ slotOf = w
    BY <1>1, <1>4, <1>9 DEF WriterClaimsRow, WriterAt, SlotsAreHeld
  <2>2. \E r \in RowState : PutRow(r)
    BY <1>9 DEF WriterClaimsRow, RowState
  <2>3. Drift
    BY <1>1, <2>1, <2>2, PutRowDrifts
  <2> QED
    BY <1>2, <1>3, <1>6, <2>1, <2>3, DriftKeeps
<1>10. CASE WriterMaps(w)
  <2> DEFINE s == [files EXCEPT !.store = (writer[w].does = "run")]
  <2>1. Turn("mapped") /\ slotOf' = slotOf /\ stamps' = stamps /\ Publish(s) /\ slotOf = w
    BY <1>1, <1>4, <1>10 DEF WriterMaps, WriterAt, SlotsAreHeld
  <2>2. s \in BackupFiles /\ s.inventory = files.inventory /\ s.identity = files.identity
    BY <1>3 DEF BackupFiles
  <2> HIDE DEF s
  <2>3. Drift
    BY <1>1, <2>1, <2>2, PublishDrifts
  <2> QED
    BY <1>2, <1>3, <1>6, <2>1, <2>3, DriftKeeps
<1>11. CASE WriterFinishesRow(w)
  <2>1. Turn("end") /\ slotOf' = "none" /\ files.identity # Gone /\ slotOf = w
    BY <1>1, <1>4, <1>11 DEF WriterFinishesRow, WriterAt, SlotsAreHeld
  <2>2. \E r \in RowState : PutRow(r)
    BY <1>11 DEF WriterFinishesRow, RowState
  <2>3. Drift
    BY <1>1, <2>1, <2>2, PutRowDrifts
  <2>4. SlotsAreHeld'
    BY <1>1, <2>1 DEF SlotsAreHeld
  <2> QED
    BY <1>2, <1>3, <2>1, <2>3, <2>4, DriftKeeps
<1>12. CASE ResetInventory(w)
  <2>1. Turn("unfiled") /\ slotOf' = slotOf
    BY <1>4, <1>12 DEF ResetInventory
  <2>2. NoResetAhead' \/ ~OneReset
    BY <1>12, <2>1 DEF ResetInventory, NoResetAhead, OneReset
  <2>3. Drift
    BY <1>1, <1>12, <2>1, <2>2, RemovalDrifts
  <2> QED
    BY <1>2, <1>3, <1>5, <2>1, <2>3, DriftKeeps
<1>13. CASE ResetStore(w)
  <2> DEFINE s == [files EXCEPT !.store = Gone]
  <2>1. Turn("identity") /\ slotOf' = slotOf /\ stamps' = stamps /\ Publish(s)
    BY <1>4, <1>13 DEF ResetStore
  <2>2. s \in BackupFiles /\ s.inventory = files.inventory /\ s.identity = files.identity
    BY <1>3 DEF BackupFiles
  <2> HIDE DEF s
  <2>3. Drift
    BY <1>1, <2>1, <2>2, PublishDrifts
  <2> QED
    BY <1>2, <1>3, <1>5, <2>1, <2>3, DriftKeeps
<1>14. CASE ResetIdentity(w)
  <2>1. CASE files.identity = Gone
    <3>1. NewIdentity /\ Turn("end") /\ slotOf' = slotOf
      BY <1>4, <1>14, <2>1 DEF ResetIdentity
    <3>2. Drift
      BY <1>1, <3>1, NewIdentityDrifts
    <3> QED
      BY <1>2, <1>3, <1>5, <3>1, <3>2, DriftKeeps
  <2>2. CASE files.identity # Gone
    <3> DEFINE s == [files EXCEPT !.identity = Gone]
    <3>1. Publish(s) /\ stamps' = stamps /\ writer' = writer /\ slotOf' = slotOf
      BY <1>14, <2>2 DEF ResetIdentity
    <3>2. s \in BackupFiles /\ s.inventory = files.inventory /\ s.identity = Gone
      BY <1>3 DEF BackupFiles
    <3> HIDE DEF s
    <3>3. (OneReset <=> OneReset') /\ (NoResetAhead => NoResetAhead')
      BY <3>1 DEF OneReset, NoResetAhead
    <3>4. Drift
      BY <1>1, <3>1, <3>2, <3>3, PublishDrifts
    <3>5. writer' \in [Writer -> WriterRecord] /\ SlotsAreHeld'
      BY <1>1, <3>1 DEF BackupTyped, SlotsAreHeld
    <3> QED
      BY <1>2, <1>3, <3>1, <3>4, <3>5, DriftKeeps
  <2> QED
    BY <2>1, <2>2
<1>15. CASE WriterDies(w)
  <2>1. Turn("end") /\ NoFileChange /\ slotOf' = (IF slotOf = w THEN "none" ELSE slotOf)
    BY <1>4, <1>15 DEF WriterDies
  <2>2. Drift
    BY <1>1, <2>1, QuietDrifts
  <2>3. SlotsAreHeld'
    BY <1>1, <1>3, <2>1, GoneFacts DEF SlotsAreHeld
  <2> QED
    BY <1>2, <1>3, <2>1, <2>2, <2>3, DriftKeeps
<1> QED
  BY <1>7, <1>8, <1>9, <1>10, <1>11, <1>12, <1>13, <1>14, <1>15 DEF WriterStep

\* The backup takes a step, and the files stay as they are.
LEMMA BackupKeeps ==
  ASSUME BackupIInv, BackupOnly, NEW b \in BackupRecord, backup' = b, NEW k \in KeptRecord, kept' = k,
         NEW slot \in Writer \cup {"backup", "none"}, slotOf' = slot,
         slot = slotOf \/ slotOf \in {"backup", "none"},
         Leased(b, slot), KnownReadings(b), SecondReading(b), Copying(b, k)
  PROVE  BackupIInv'
<1>1. UNCHANGED <<files, moments, stamps, writer, attempts>>
  BY DEF BackupOnly, NoFileChange
<1>2. BackupTyped /\ FilesAreKnown /\ SlotsAreHeld
  BY DEF BackupIInv
<1>3. BackupTyped'
  BY <1>1, <1>2 DEF BackupTyped
<1>4. (OneReset <=> OneReset') /\ (NoResetAhead <=> NoResetAhead')
  BY <1>1 DEF OneReset, NoResetAhead
<1>5. FilesAreKnown'
  BY <1>1, <1>2, <1>4 DEF FilesAreKnown, Known, KnownIdentity
<1>6. SlotsAreHeld'
  BY <1>1, <1>2, GoneFacts DEF SlotsAreHeld
<1>7. Leased(backup, slotOf)'
  BY DEF Leased
<1>8. KnownReadings(backup)'
  BY <1>1, <1>4 DEF KnownReadings, Known, KnownIdentity, RowsTell, Trusted
<1>9. SecondReading(backup)'
  BY <1>1, <1>4 DEF SecondReading, Trusted, Together, Moved
<1>10. Copying(backup, kept)'
  BY <1>1, <1>4 DEF Copying, OfOneMoment, Tells, Copied, Consistent
<1> QED
  BY <1>3, <1>5, <1>6, <1>7, <1>8, <1>9, <1>10 DEF BackupIInv

LEMMA BackupFacts ==
  ASSUME BackupIInv
  PROVE  /\ files \in BackupFiles /\ stamps \in Nat /\ backup \in BackupRecord /\ kept \in KeptRecord
         /\ slotOf \in Writer \cup {"backup", "none"} /\ FilesAreKnown
         /\ Leased(backup, slotOf) /\ KnownReadings(backup) /\ SecondReading(backup) /\ Copying(backup, kept)
  BY DEF BackupIInv, BackupTyped

\* What an ended backup leaves.
LEMMA EndedBackup ==
  ASSUME BackupIInv, NEW k \in KeptRecord, k.marker # Gone /\ Tells(k.marker) => k.marker \in moments
  PROVE  Leased(NoBackup, IF slotOf = "backup" THEN "none" ELSE slotOf) /\ KnownReadings(NoBackup)
         /\ SecondReading(NoBackup) /\ Copying(NoBackup, k)
<1>1. NoBackup.at = "idle" /\ NoBackup.again = FALSE /\ NoBackup.second = Unread
  BY DEF NoBackup
<1>2. Leased(NoBackup, IF slotOf = "backup" THEN "none" ELSE slotOf)
  BY <1>1 DEF Leased, Late, Copies
<1>3. KnownReadings(NoBackup)
  BY <1>1, UnreadFields DEF KnownReadings, KnownIdentity
<1>4. SecondReading(NoBackup)
  BY <1>1 DEF SecondReading
<1>5. Copying(NoBackup, k)
  BY <1>1 DEF Copying, Late, Copies
<1> QED
  BY <1>2, <1>3, <1>4, <1>5

LEMMA EndedBackupKeeps ==
  ASSUME BackupIInv, BackupOnly, backup' = NoBackup, slotOf' = (IF slotOf = "backup" THEN "none" ELSE slotOf),
         kept' \in KeptRecord, kept'.marker # Gone /\ Tells(kept'.marker) => kept'.marker \in moments
  PROVE  BackupIInv'
<1> DEFINE slot == IF slotOf = "backup" THEN "none" ELSE slotOf
<1>1. slot \in Writer \cup {"backup", "none"} /\ (slot = slotOf \/ slotOf \in {"backup", "none"})
  BY BackupFacts
<1>2. Leased(NoBackup, slot) /\ KnownReadings(NoBackup) /\ SecondReading(NoBackup) /\ Copying(NoBackup, kept')
  BY EndedBackup
<1> HIDE DEF slot
<1>3. slotOf' = slot
  BY DEF slot
<1> QED
  BY <1>1, <1>2, <1>3, NothingTyped, BackupKeeps

LEMMA FailsKeeps == ASSUME BackupIInv, BackupFails PROVE BackupIInv'
<1>1. kept' = kept /\ kept \in KeptRecord /\ (kept.marker # Gone /\ Tells(kept.marker) => kept.marker \in moments)
  BY BackupFacts DEF BackupFails, ReleaseLeases, Copying
<1>2. BackupOnly /\ backup' = NoBackup /\ slotOf' = (IF slotOf = "backup" THEN "none" ELSE slotOf)
  BY DEF BackupFails, ReleaseLeases
<1> QED
  BY <1>1, <1>2, EndedBackupKeeps

LEMMA StartKeeps == ASSUME BackupIInv, BackupStart PROVE BackupIInv'
<1> DEFINE b == [NoBackup EXCEPT !.at = "read inventory", !.tries = 1, !.project = files'.identity]
<1>1. BackupTyped /\ FilesAreKnown /\ SlotsAreHeld /\ files \in BackupFiles /\ attempts' \in 0..MaxBackups
  <2>1. attempts \in 0..MaxBackups /\ MaxBackups \in Nat
    BY GoneFacts DEF BackupIInv, BackupTyped
  <2>2. attempts < MaxBackups /\ attempts' = attempts + 1
    BY DEF BackupStart
  <2>3. attempts' \in 0..MaxBackups
    BY <2>1, <2>2
  <2> QED
    BY <2>3, BackupFacts DEF BackupIInv
<1>2. UNCHANGED <<writer, slotOf, kept>> /\ backup' = b /\ backup.at = "idle"
  BY DEF BackupStart
<1>3. (OneReset <=> OneReset') /\ (NoResetAhead => NoResetAhead')
  BY <1>2 DEF OneReset, NoResetAhead
<1>4. Drift
  <2>1. CASE files.identity = Gone
    BY <1>1, <1>3, <2>1, NewIdentityDrifts DEF BackupStart
  <2>2. CASE files.identity # Gone
    BY <1>1, <1>3, <2>2, QuietDrifts DEF BackupStart
  <2> QED
    BY <2>1, <2>2
<1>5. files' \in BackupFiles /\ files'.identity # Gone
  <2>1. CASE files.identity = Gone
    <3>1. files' = [files EXCEPT !.identity = stamps + 1] /\ stamps + 1 \in Nat
      BY <1>1, <2>1 DEF BackupStart, NewIdentity, Publish, BackupTyped
    <3>2. files'.identity = stamps + 1
      BY <1>1, <3>1 DEF BackupFiles
    <3> QED
      BY <1>4, <3>1, <3>2, GoneFacts DEF Drift
  <2>2. CASE files.identity # Gone
    BY <1>1, <2>2 DEF BackupStart, NoFileChange
  <2> QED
    BY <2>1, <2>2
<1>6. b \in BackupRecord /\ b.at = "read inventory" /\ b.again = FALSE /\ b.second = Unread /\ b.project # Gone
  <2>1. files'.identity \in Nat \cup {Gone}
    BY <1>5, FileFields
  <2>2. 1 \in 0..SnapshotAttempts /\ "read inventory" \in BackupPlace
    BY GoneFacts DEF BackupPlace, Readings
  <2>3. NoBackup \in BackupRecord /\ NoBackup.second = Unread /\ NoBackup.again = FALSE
    BY NothingTyped DEF NoBackup
  <2> DEFINE d == files'.identity
  <2> HIDE DEF d
  <2>4. d \in Nat \cup {Gone} /\ d # Gone
    BY <1>5, <2>1 DEF d
  <2>5. [NoBackup EXCEPT !.at = "read inventory", !.tries = 1, !.project = d] \in BackupRecord
    BY <2>2, <2>3, <2>4 DEF BackupRecord
  <2>6. /\ [NoBackup EXCEPT !.at = "read inventory", !.tries = 1, !.project = d].at = "read inventory"
        /\ [NoBackup EXCEPT !.at = "read inventory", !.tries = 1, !.project = d].again = FALSE
        /\ [NoBackup EXCEPT !.at = "read inventory", !.tries = 1, !.project = d].second = Unread
        /\ [NoBackup EXCEPT !.at = "read inventory", !.tries = 1, !.project = d].project = d
    BY <2>3 DEF BackupRecord
  <2> QED
    BY <2>4, <2>5, <2>6 DEF d
<1> HIDE DEF b
<1>7. BackupTyped'
  BY <1>1, <1>2, <1>4, <1>6 DEF BackupTyped, Drift
<1>8. FilesAreKnown'
  BY <1>4 DEF Drift, FilesAreKnown
<1>9. SlotsAreHeld'
  BY <1>1, <1>2 DEF SlotsAreHeld
<1>10. Leased(backup, slotOf)'
  BY <1>2, <1>6, BackupFacts DEF Leased, Late, Copies
<1>11. KnownReadings(backup)'
  <2>1. backup' = b /\ b.second.files.identity = Gone
    BY <1>2, <1>6, UnreadFields
  <2>2. KnownIdentity(backup.second.files.identity)'
    BY <2>1 DEF KnownIdentity
  <2> QED
    BY <1>2, <1>6, <2>2 DEF KnownReadings
<1>12. SecondReading(backup)'
  BY <1>2, <1>6 DEF SecondReading
<1>13. Copying(backup, kept)'
  <2>1. kept.marker # Gone /\ Tells(kept.marker) => kept.marker \in moments
    BY BackupFacts DEF Copying
  <2> QED
    BY <1>2, <1>4, <1>6, <2>1 DEF Copying, Late, Copies, Drift, Tells
<1> QED
  BY <1>7, <1>8, <1>9, <1>10, <1>11, <1>12, <1>13 DEF BackupIInv

LEMMA ReadingRow ==
  ASSUME NEW b \in BackupRecord, NEW at \in BackupPlace, NEW seen \in BackupReading
  PROVE  LET r == [b EXCEPT !.second = seen, !.at = at] IN
         /\ r \in BackupRecord /\ r.at = at /\ r.second = seen /\ r.first = b.first
         /\ r.again = b.again /\ r.project = b.project
  BY DEF BackupRecord

\* One reading of one file.
LEMMA ReadStep ==
  ASSUME BackupIInv, ReadFile
  PROVE  \E b \in BackupRecord :
           /\ backup' = b /\ b.first = backup.first /\ b.again = backup.again /\ b.project = backup.project
           /\ \/ backup.at = "read inventory" /\ b.at = "read store"
                 /\ b.second = [backup.second EXCEPT !.files["inventory"] = files.inventory]
              \/ backup.at = "read store" /\ b.at = "read identity"
                 /\ b.second = [backup.second EXCEPT !.files["store"] = files.store]
              \/ backup.at = "read identity" /\ b.at = "read rows"
                 /\ b.second = [backup.second EXCEPT !.files["identity"] = files.identity]
              \/ backup.at = "read rows" /\ b.at = (IF backup.again THEN "compare" ELSE "lease")
                 /\ b.second = [backup.second EXCEPT !.rows = files.inventory]
<1> DEFINE at == backup.at
           next == [r \in Readings |->
             CASE r = "read inventory" -> "read store" [] r = "read store" -> "read identity"
               [] r = "read identity" -> "read rows" [] OTHER -> "lease"]
           f == CASE at = "read inventory" -> "inventory" [] at = "read store" -> "store" [] OTHER -> "identity"
           seen == IF at = "read rows" THEN [backup.second EXCEPT !.rows = files.inventory]
                   ELSE [backup.second EXCEPT !.files[f] = files[f]]
           place == IF next[at] = "lease" /\ backup.again THEN "compare" ELSE next[at]
           b == [backup EXCEPT !.second = seen, !.at = place]
<1>1. at \in Readings /\ backup' = b
  BY DEF ReadFile
<1>2. backup \in BackupRecord /\ files \in BackupFiles /\ backup.second \in BackupReading
  BY BackupFacts, BackupFields
<1>3. files.inventory \in Inventory \cup {Gone}
  BY <1>2, FileFields
<1>4. CASE at = "read inventory"
  <2>1. place = "read store"
    BY <1>4 DEF Readings
  <2>2. seen = [backup.second EXCEPT !.files["inventory"] = files.inventory]
    BY <1>4
  <2>3. seen \in BackupReading
    BY <1>2, <2>2 DEF BackupReading, BackupFiles
  <2>4. place \in BackupPlace
    BY <2>1 DEF BackupPlace, Readings
  <2> HIDE DEF seen, place
  <2>5. /\ b \in BackupRecord /\ b.at = place /\ b.second = seen /\ b.first = backup.first
        /\ b.again = backup.again /\ b.project = backup.project
    BY <1>2, <2>3, <2>4, ReadingRow
  <2> HIDE DEF b
  <2> QED
    BY <1>1, <1>4, <2>1, <2>2, <2>5
<1>5. CASE at = "read store"
  <2>1. place = "read identity"
    BY <1>5 DEF Readings
  <2>2. seen = [backup.second EXCEPT !.files["store"] = files.store]
    BY <1>5
  <2>3. seen \in BackupReading
    BY <1>2, <2>2 DEF BackupReading, BackupFiles
  <2>4. place \in BackupPlace
    BY <2>1 DEF BackupPlace, Readings
  <2> HIDE DEF seen, place
  <2>5. /\ b \in BackupRecord /\ b.at = place /\ b.second = seen /\ b.first = backup.first
        /\ b.again = backup.again /\ b.project = backup.project
    BY <1>2, <2>3, <2>4, ReadingRow
  <2> HIDE DEF b
  <2> QED
    BY <1>1, <1>5, <2>1, <2>2, <2>5
<1>6. CASE at = "read identity"
  <2>1. place = "read rows"
    BY <1>6 DEF Readings
  <2>2. seen = [backup.second EXCEPT !.files["identity"] = files.identity]
    BY <1>6
  <2>3. seen \in BackupReading
    BY <1>2, <2>2 DEF BackupReading, BackupFiles
  <2>4. place \in BackupPlace
    BY <2>1 DEF BackupPlace, Readings
  <2> HIDE DEF seen, place
  <2>5. /\ b \in BackupRecord /\ b.at = place /\ b.second = seen /\ b.first = backup.first
        /\ b.again = backup.again /\ b.project = backup.project
    BY <1>2, <2>3, <2>4, ReadingRow
  <2> HIDE DEF b
  <2> QED
    BY <1>1, <1>6, <2>1, <2>2, <2>5
<1>7. CASE at = "read rows"
  <2>1. place = IF backup.again THEN "compare" ELSE "lease"
    BY <1>7 DEF Readings
  <2>2. seen = [backup.second EXCEPT !.rows = files.inventory]
    BY <1>7
  <2>3. seen \in BackupReading
    BY <1>2, <1>3, <2>2 DEF BackupReading
  <2>4. place \in BackupPlace
    BY <2>1 DEF BackupPlace
  <2> HIDE DEF seen, place
  <2>5. /\ b \in BackupRecord /\ b.at = place /\ b.second = seen /\ b.first = backup.first
        /\ b.again = backup.again /\ b.project = backup.project
    BY <1>2, <2>3, <2>4, ReadingRow
  <2> HIDE DEF b
  <2> QED
    BY <1>1, <1>7, <2>1, <2>2, <2>5
<1> QED
  BY <1>1, <1>4, <1>5, <1>6, <1>7 DEF Readings

LEMMA ReadingFields ==
  ASSUME NEW r \in BackupReading
  PROVE  /\ LET seen == [r EXCEPT !.files["inventory"] = files.inventory] IN
            /\ seen.rows = r.rows /\ seen.files.inventory = files.inventory
            /\ seen.files.store = r.files.store /\ seen.files.identity = r.files.identity
         /\ LET seen == [r EXCEPT !.files["store"] = files.store] IN
            /\ seen.rows = r.rows /\ seen.files.store = files.store
            /\ seen.files.inventory = r.files.inventory /\ seen.files.identity = r.files.identity
         /\ LET seen == [r EXCEPT !.files["identity"] = files.identity] IN
            /\ seen.rows = r.rows /\ seen.files.identity = files.identity
            /\ seen.files.inventory = r.files.inventory /\ seen.files.store = r.files.store
  BY DEF BackupReading, BackupFiles

LEMMA ReadKeeps == ASSUME BackupIInv, ReadFile PROVE BackupIInv'
<1>1. PICK b \in BackupRecord :
        /\ backup' = b /\ b.first = backup.first /\ b.again = backup.again /\ b.project = backup.project
        /\ \/ backup.at = "read inventory" /\ b.at = "read store"
              /\ b.second = [backup.second EXCEPT !.files["inventory"] = files.inventory]
           \/ backup.at = "read store" /\ b.at = "read identity"
              /\ b.second = [backup.second EXCEPT !.files["store"] = files.store]
           \/ backup.at = "read identity" /\ b.at = "read rows"
              /\ b.second = [backup.second EXCEPT !.files["identity"] = files.identity]
           \/ backup.at = "read rows" /\ b.at = (IF backup.again THEN "compare" ELSE "lease")
              /\ b.second = [backup.second EXCEPT !.rows = files.inventory]
  BY ReadStep
<1>2. /\ backup \in BackupRecord /\ kept \in KeptRecord /\ FilesAreKnown /\ files \in BackupFiles
      /\ Leased(backup, slotOf) /\ KnownReadings(backup) /\ SecondReading(backup) /\ Copying(backup, kept)
      /\ slotOf \in Writer \cup {"backup", "none"}
  BY BackupFacts
<1>3. BackupOnly /\ kept' = kept /\ slotOf' = slotOf
  BY DEF ReadFile
<1>4. backup.second \in BackupReading /\ backup.first \in BackupReading
  BY <1>2, BackupFields
<1>5. Leased(b, slotOf)
  BY <1>1, <1>2 DEF Leased, Late, Copies
<1>6. Copying(b, kept)
  BY <1>1, <1>2 DEF Copying, Late, Copies
<1> DEFINE fi == b.first.files.inventory
           i == b.second.files.inventory
           s == b.second.files.store
           d == b.second.files.identity
           old == backup.second.files
<1>7. CASE backup.at = "read inventory"
  <2>1. b.at = "read store" /\ i = files.inventory /\ d = old.identity
    <3>1. b.at = "read store" /\ b.second = [backup.second EXCEPT !.files["inventory"] = files.inventory]
      BY <1>1, <1>7
    <3> QED
      BY <1>4, <3>1, ReadingFields
  <2>2. KnownReadings(b)
    BY <1>1, <1>2, <1>7, <2>1 DEF KnownReadings, FilesAreKnown
  <2>3. SecondReading(b)
    <3> SUFFICES ASSUME b.again, Trusted(i), i = fi  PROVE b.first.rows = fi
      BY <2>1 DEF SecondReading
    <3>1. RowsTell(backup.first)
      BY <1>1, <1>2 DEF KnownReadings
    <3> QED
      BY <1>1, <2>1, <3>1 DEF RowsTell
  <2> QED
    BY <1>1, <1>2, <1>3, <1>5, <1>6, <2>2, <2>3, BackupKeeps
<1>8. CASE backup.at = "read store"
  <2>1. b.at = "read identity" /\ s = files.store /\ i = old.inventory /\ d = old.identity
    <3> DEFINE seen == [backup.second EXCEPT !.files["store"] = files.store]
    <3>1. b.at = "read identity" /\ b.second = seen
      BY <1>1, <1>8
    <3>2. seen.files.store = files.store /\ seen.files.inventory = old.inventory /\ seen.files.identity = old.identity
      BY <1>4, ReadingFields
    <3> HIDE DEF seen
    <3> QED
      BY <3>1, <3>2
  <2>2. KnownReadings(b)
    BY <1>1, <1>2, <1>8, <2>1 DEF KnownReadings
  <2>3. SecondReading(b)
    <3> SUFFICES ASSUME b.again, Trusted(i)
                 PROVE  /\ i = fi => b.first.rows = fi
                        /\ Together(b) \in moments \/ Moved(b) \/ files.identity # b.first.files.identity
      BY <2>1 DEF SecondReading
    <3>1. i = fi => b.first.rows = fi
      BY <1>1, <1>2, <1>8, <2>1 DEF SecondReading
    <3>2. ASSUME ~Moved(b), files.identity = b.first.files.identity  PROVE Together(b) \in moments
      <4>1. Together(b) = files
        BY <1>2, <2>1, <3>2, FileFields DEF Together, Moved
      <4> QED
        BY <1>2, <4>1 DEF FilesAreKnown
    <3> QED
      BY <3>1, <3>2
  <2> QED
    BY <1>1, <1>2, <1>3, <1>5, <1>6, <2>2, <2>3, BackupKeeps
<1>9. CASE backup.at = "read identity"
  <2>1. b.at = "read rows" /\ d = files.identity /\ i = old.inventory /\ s = old.store
    <3> DEFINE seen == [backup.second EXCEPT !.files["identity"] = files.identity]
    <3>1. b.at = "read rows" /\ b.second = seen
      BY <1>1, <1>9
    <3>2. seen.files.identity = files.identity /\ seen.files.inventory = old.inventory /\ seen.files.store = old.store
      BY <1>4, ReadingFields
    <3> HIDE DEF seen
    <3> QED
      BY <3>1, <3>2
  <2>2. KnownReadings(b)
    BY <1>1, <1>2, <1>9, <2>1 DEF KnownReadings, FilesAreKnown
  <2>3. SecondReading(b)
    BY <1>1, <1>2, <1>9, <2>1 DEF SecondReading, Together, Moved
  <2> QED
    BY <1>1, <1>2, <1>3, <1>5, <1>6, <2>2, <2>3, BackupKeeps
<1>10. CASE backup.at = "read rows"
  <2>1. b.at = (IF backup.again THEN "compare" ELSE "lease") /\ b.second.rows = files.inventory
        /\ i = old.inventory /\ s = old.store /\ d = old.identity
    BY <1>1, <1>4, <1>10 DEF BackupReading
  <2>2. KnownReadings(b)
    BY <1>1, <1>2, <1>10, <2>1 DEF KnownReadings, RowsTell
  <2>3. SecondReading(b)
    BY <1>1, <1>2, <1>10, <2>1 DEF SecondReading, Together, Moved
  <2> QED
    BY <1>1, <1>2, <1>3, <1>5, <1>6, <2>2, <2>3, BackupKeeps
<1> QED
  BY <1>1, <1>7, <1>8, <1>9, <1>10

LEMMA LeasesKeep == ASSUME BackupIInv, TakeLeases PROVE BackupIInv'
<1> DEFINE seen == backup.second
           slot == IF Live(seen.rows) THEN "backup" ELSE slotOf
           b == [backup EXCEPT !.at = "read inventory", !.again = TRUE, !.first = seen, !.second = Unread]
<1>1. backup.at = "lease" /\ backup' = b /\ slotOf' = slot /\ kept' = kept /\ BackupOnly
      /\ (Live(seen.rows) => slotOf = "none")
  BY DEF TakeLeases
<1>2. /\ backup \in BackupRecord /\ kept \in KeptRecord /\ FilesAreKnown
      /\ Leased(backup, slotOf) /\ KnownReadings(backup) /\ Copying(backup, kept)
      /\ slotOf \in Writer \cup {"backup", "none"}
  BY BackupFacts
<1>3. seen \in BackupReading /\ "read inventory" \in BackupPlace
  BY <1>2, BackupFields DEF BackupPlace, Readings
<1>4. /\ b \in BackupRecord /\ b.at = "read inventory" /\ b.again = TRUE /\ b.first = seen /\ b.second = Unread
      /\ b.project = backup.project
  BY <1>2, <1>3, NothingTyped DEF BackupRecord
<1> HIDE DEF b
<1>5. Leased(b, slot)
  BY <1>1, <1>2, <1>4 DEF Leased, Late, Copies
<1>6. KnownReadings(b)
  <2>1. b.second.files.identity = Gone
    BY <1>4, UnreadFields
  <2>2. KnownIdentity(b.second.files.identity)
    BY <2>1 DEF KnownIdentity
  <2>3. Known(seen.files.inventory) /\ KnownIdentity(seen.files.identity) /\ RowsTell(seen)
    BY <1>1, <1>2 DEF KnownReadings
  <2> QED
    BY <1>4, <2>2, <2>3 DEF KnownReadings
<1>7. SecondReading(b)
  BY <1>4 DEF SecondReading
<1>8. Copying(b, kept)
  BY <1>2, <1>4 DEF Copying, Late, Copies
<1>9. slot \in Writer \cup {"backup", "none"} /\ (slot = slotOf \/ slotOf \in {"backup", "none"})
  BY <1>1, <1>2
<1> HIDE DEF slot
<1> QED
  BY <1>1, <1>2, <1>4, <1>5, <1>6, <1>7, <1>8, <1>9, BackupKeeps

LEMMA PlacedRow ==
  ASSUME NEW b \in BackupRecord, NEW at \in BackupPlace
  PROVE  LET r == [b EXCEPT !.at = at] IN
         /\ r \in BackupRecord /\ r.at = at /\ r.second = b.second /\ r.first = b.first
         /\ r.again = b.again /\ r.project = b.project
  BY DEF BackupRecord

LEMMA CompareKeeps == ASSUME BackupIInv, Compare PROVE BackupIInv'
<1>1. backup.at = "compare" /\ kept' = kept /\ BackupOnly
  BY DEF Compare, ReleaseLeases
<1>2. /\ backup \in BackupRecord /\ kept \in KeptRecord /\ FilesAreKnown
      /\ Leased(backup, slotOf) /\ KnownReadings(backup) /\ SecondReading(backup) /\ Copying(backup, kept)
      /\ slotOf \in Writer \cup {"backup", "none"}
  BY BackupFacts
<1>3. backup.again
  BY <1>1, <1>2 DEF Leased
<1>4. CASE backup.first = backup.second
  <2> DEFINE b == [backup EXCEPT !.at = "gate"]
  <2>1. backup' = b /\ slotOf' = slotOf
    BY <1>4 DEF Compare, ReleaseLeases, BackupGoes
  <2>2. /\ b \in BackupRecord /\ b.at = "gate" /\ b.again = backup.again /\ b.first = backup.first
        /\ b.second = backup.second /\ b.project = backup.project
    BY <1>2, PlacedRow DEF BackupPlace
  <2> HIDE DEF b
  <2>3. Leased(b, slotOf)
    BY <1>1, <1>2, <1>4, <2>2 DEF Leased, Late, Copies
  <2>4. KnownReadings(b)
    BY <1>1, <1>2, <2>2 DEF KnownReadings
  <2>5. SecondReading(b)
    BY <1>1, <1>2, <2>2 DEF SecondReading
  <2>6. OfOneMoment(b.second.files)
    <3> DEFINE s == backup.second.files
    <3> SUFFICES ASSUME Trusted(s.inventory), s.identity # Gone  PROVE s \in moments
      BY <2>2 DEF OfOneMoment, Tells, Trusted
    <3>1. backup.first.rows = s.inventory
      BY <1>1, <1>2, <1>3, <1>4 DEF SecondReading
    <3>2. Together(backup) \in moments
      BY <1>1, <1>2, <1>3, <1>4, <3>1 DEF SecondReading
    <3>3. s \in BackupFiles
      BY <1>2, BackupFields
    <3>4. Together(backup) = s
      BY <1>4, <3>3, FileFields DEF Together
    <3> QED
      BY <3>2, <3>4
  <2>7. Copying(b, kept)
    BY <1>1, <1>2, <2>2, <2>6 DEF Copying
  <2> QED
    BY <1>1, <1>2, <2>1, <2>2, <2>3, <2>4, <2>5, <2>7, BackupKeeps
<1>5. CASE backup.first # backup.second
  <2> DEFINE b == [backup EXCEPT !.at = "read inventory", !.again = FALSE, !.tries = backup.tries + 1,
                                 !.first = Unread, !.second = Unread]
             slot == IF slotOf = "backup" THEN "none" ELSE slotOf
  <2>1. backup.tries < SnapshotAttempts /\ slotOf' = slot
    BY <1>5 DEF Compare, ReleaseLeases
  <2>2. backup' = b
    BY <1>2, <1>5 DEF Compare, ReleaseLeases, BackupRecord
  <2>3. backup.tries \in 0..SnapshotAttempts
    BY <1>2, BackupFields
  <2>4. backup.tries + 1 \in 0..SnapshotAttempts
    BY <2>1, <2>3, GoneFacts
  <2>5. /\ b \in BackupRecord /\ b.at = "read inventory" /\ b.again = FALSE /\ b.first = Unread /\ b.second = Unread
        /\ b.project = backup.project
    <3>1. "read inventory" \in BackupPlace
      BY DEF BackupPlace, Readings
    <3> DEFINE n == backup.tries + 1
    <3> HIDE DEF n
    <3>2. n \in 0..SnapshotAttempts
      BY <2>4 DEF n
    <3> DEFINE c == [backup EXCEPT !.at = "read inventory", !.again = FALSE, !.tries = n,
                                   !.first = Unread, !.second = Unread]
    <3>3. /\ c \in BackupRecord /\ c.at = "read inventory" /\ c.again = FALSE /\ c.first = Unread /\ c.second = Unread
          /\ c.project = backup.project
      BY <1>2, <3>1, <3>2, NothingTyped DEF BackupRecord
    <3> QED
      BY <3>3 DEF n
  <2> HIDE DEF b
  <2>6. Leased(b, slot)
    BY <1>1, <1>2, <2>5 DEF Leased, Late, Copies
  <2>7. KnownReadings(b)
    <3>1. b.second.files.identity = Gone
      BY <2>5, UnreadFields
    <3> QED
      BY <2>5, <3>1 DEF KnownReadings, KnownIdentity
  <2>8. SecondReading(b)
    BY <2>5 DEF SecondReading
  <2>9. Copying(b, kept)
    BY <1>2, <2>5 DEF Copying, Late, Copies
  <2>10. slot \in Writer \cup {"backup", "none"} /\ (slot = slotOf \/ slotOf \in {"backup", "none"})
    BY <1>2
  <2> HIDE DEF slot
  <2> QED
    BY <1>1, <1>2, <2>1, <2>2, <2>5, <2>6, <2>7, <2>8, <2>9, <2>10, BackupKeeps
<1> QED
  BY <1>4, <1>5


\* The backup only moves on.
LEMMA MovesOn ==
  ASSUME BackupIInv, NEW at \in Late, backup.at \in Late, backup' = [backup EXCEPT !.at = at],
         NEW k \in KeptRecord, kept' = k, slotOf' = slotOf, BackupOnly,
         Copying([backup EXCEPT !.at = at], k)
  PROVE  BackupIInv'
<1> DEFINE b == [backup EXCEPT !.at = at]
<1>1. /\ backup \in BackupRecord /\ slotOf \in Writer \cup {"backup", "none"}
      /\ Leased(backup, slotOf) /\ KnownReadings(backup) /\ SecondReading(backup)
  BY BackupFacts
<1>2. at \in BackupPlace
  BY DEF Late, BackupPlace
<1>3. /\ b \in BackupRecord /\ b.at = at /\ b.second = backup.second /\ b.first = backup.first
      /\ b.again = backup.again /\ b.project = backup.project
  BY <1>1, <1>2, PlacedRow
<1>4. backup' = b /\ Copying(b, k)
  OBVIOUS
<1> HIDE DEF b
<1>5. at \notin {"idle", "lease", "read inventory", "read identity", "read rows", "compare"}
      /\ backup.at \notin {"idle", "lease", "read inventory", "read identity", "read rows", "compare"}
  BY DEF Late, Copies
<1>6. Leased(b, slotOf)
  BY <1>1, <1>3, <1>5 DEF Leased
<1>7. KnownReadings(b)
  BY <1>1, <1>3, <1>5 DEF KnownReadings
<1>8. SecondReading(b)
  BY <1>1, <1>3, <1>5 DEF SecondReading
<1> QED
  BY <1>1, <1>3, <1>4, <1>6, <1>7, <1>8, BackupKeeps

LEMMA LatePlaces ==
  /\ Late = {"gate", "check", "manifest", "marker", "copy inventory", "copy identity", "copy store"}
  BY DEF Late, Copies

LEMMA SourceGateKeeps == ASSUME BackupIInv, SourceGate PROVE BackupIInv'
<1> DEFINE b == [backup EXCEPT !.at = "copy inventory"]
<1>1. backup.at = "gate" /\ backup' = b /\ kept' = kept /\ slotOf' = slotOf /\ BackupOnly
  BY DEF SourceGate, SourceAgrees, BackupGoes
<1>2. backup \in BackupRecord /\ kept \in KeptRecord /\ Copying(backup, kept)
  BY BackupFacts
<1>3. b.at = "copy inventory" /\ b.second = backup.second
  BY <1>2, PlacedRow DEF BackupPlace, Copies
<1>4. Copying(b, kept)
  BY <1>1, <1>2, <1>3, LatePlaces DEF Copying
<1> QED
  BY <1>1, <1>2, <1>4, LatePlaces, MovesOn

LEMMA CopyGateKeeps == ASSUME BackupIInv, CopyGate PROVE BackupIInv'
<1> DEFINE b == [backup EXCEPT !.at = "manifest"]
           s == backup.second.files
<1>1. /\ backup.at = "check" /\ backup' = b /\ kept' = kept /\ slotOf' = slotOf /\ BackupOnly
      /\ \A f \in File : kept.copies[f] = Gone <=> s[f] = Gone
      /\ Consistent(kept.copies) /\ kept.copies.identity = backup.project
  BY DEF CopyGate, CopiesAreListed, CopiesAgree, BackupGoes
<1>2. backup \in BackupRecord /\ kept \in KeptRecord /\ Copying(backup, kept) /\ Leased(backup, slotOf)
  BY BackupFacts
<1>3. b.at = "manifest" /\ b.second = backup.second
  BY <1>2, PlacedRow DEF BackupPlace
<1>4. s \in BackupFiles /\ kept.copies \in BackupFiles
  BY <1>2, BackupFields, KeptFields
<1>5. Copied(backup, kept, "inventory") /\ Copied(backup, kept, "identity") /\ Copied(backup, kept, "store")
  BY <1>1, <1>2 DEF Copying
<1>6. /\ kept.copies.inventory = s.inventory /\ kept.copies.identity = s.identity
      /\ kept.copies.store = s.store
  BY <1>1, <1>5 DEF Copied, File
<1>7. kept.copies = s
  BY <1>4, <1>6, FileFields
<1>8. backup.project # Gone
  BY <1>1, <1>2 DEF Leased
<1>9. Copying(b, kept)
  BY <1>1, <1>2, <1>3, <1>7, <1>8, LatePlaces DEF Copying
<1> QED
  BY <1>1, <1>2, <1>9, LatePlaces, MovesOn

LEMMA WriteBackupManifestKeeps == ASSUME BackupIInv, WriteBackupManifest PROVE BackupIInv'
<1> DEFINE b == [backup EXCEPT !.at = "marker"]
           s == backup.second.files
           k == [kept EXCEPT !.manifest = s]
<1>1. backup.at = "manifest" /\ backup' = b /\ kept' = k /\ slotOf' = slotOf /\ BackupOnly
  BY DEF WriteBackupManifest, BackupGoes
<1>2. backup \in BackupRecord /\ kept \in KeptRecord /\ Copying(backup, kept)
  BY BackupFacts
<1>3. b.at = "marker" /\ b.second = backup.second
  BY <1>2, PlacedRow DEF BackupPlace
<1>4. s \in BackupFiles
  BY <1>2, BackupFields
<1> HIDE DEF s
<1>5. k \in KeptRecord /\ k.copies = kept.copies /\ k.manifest = s /\ k.marker = kept.marker
  BY <1>2, <1>4 DEF KeptRecord
<1> HIDE DEF k
<1>6. kept.copies = s /\ Consistent(kept.copies) /\ kept.copies.identity # Gone
  BY <1>1, <1>2 DEF Copying, s
<1>7. OfOneMoment(s) /\ (kept.marker # Gone /\ Tells(kept.marker) => kept.marker \in moments)
  BY <1>1, <1>2, LatePlaces DEF Copying, s
<1>8. b.second.files = s
  BY <1>3 DEF s
<1> HIDE DEF b
<1>9. Copying(b, k)
  BY <1>3, <1>5, <1>6, <1>7, <1>8 DEF Copying
<1> QED
  BY <1>1, <1>2, <1>5, <1>9, LatePlaces, MovesOn DEF b

LEMMA WriteBackupMarkerKeeps == ASSUME BackupIInv, WriteBackupMarker PROVE BackupIInv'
<1> DEFINE s == backup.second.files
<1>1. /\ backup.at = "marker" /\ backup' = NoBackup /\ kept' = [kept EXCEPT !.marker = kept.manifest] /\ BackupOnly
      /\ slotOf' = (IF slotOf = "backup" THEN "none" ELSE slotOf)
  BY DEF WriteBackupMarker, ReleaseLeases
<1>2. backup \in BackupRecord /\ kept \in KeptRecord /\ Copying(backup, kept)
  BY BackupFacts
<1>3. kept' \in KeptRecord /\ kept'.marker = kept.manifest
  BY <1>1, <1>2 DEF KeptRecord
<1>4. kept.manifest = s /\ s.identity # Gone /\ OfOneMoment(s)
  BY <1>1, <1>2, LatePlaces DEF Copying
<1>5. kept'.marker # Gone /\ Tells(kept'.marker) => kept'.marker \in moments
  BY <1>3, <1>4 DEF OfOneMoment
<1> QED
  BY <1>1, <1>3, <1>5, EndedBackupKeeps

\* One copy: as listed, or the backup fails.
LEMMA CopyStep ==
  ASSUME BackupIInv, CopyFile
  PROVE  \E k \in KeptRecord :
           /\ kept' = k /\ k.manifest = kept.manifest /\ k.marker = kept.marker /\ BackupOnly
           /\ \/ /\ backup' = NoBackup /\ slotOf' = (IF slotOf = "backup" THEN "none" ELSE slotOf)
              \/ /\ slotOf' = slotOf
                 /\ \/ /\ backup.at = "copy inventory" /\ backup' = [backup EXCEPT !.at = "copy identity"]
                       /\ Copied(backup, k, "inventory")
                    \/ /\ backup.at = "copy identity" /\ backup' = [backup EXCEPT !.at = "copy store"]
                       /\ Copied(backup, k, "identity") /\ k.copies.inventory = kept.copies.inventory
                    \/ /\ backup.at = "copy store" /\ backup' = [backup EXCEPT !.at = "check"]
                       /\ Copied(backup, k, "store") /\ k.copies.inventory = kept.copies.inventory
                       /\ k.copies.identity = kept.copies.identity
<1> DEFINE s == backup.second.files
           f == CASE backup.at = "copy inventory" -> "inventory"
                  [] backup.at = "copy identity" -> "identity" [] OTHER -> "store"
           k == IF s[f] = Gone THEN kept ELSE [kept EXCEPT !.copies[f] = files[f]]
<1>1. backup \in BackupRecord /\ kept \in KeptRecord /\ files \in BackupFiles
  BY BackupFacts
<1>2. kept' = k /\ BackupOnly /\ backup.at \in Copies
  BY DEF CopyFile, CopyInto, ReleaseLeases
<1>3. CASE s[f] \notin {Gone, files[f]}
  <2>1. backup' = NoBackup /\ slotOf' = (IF slotOf = "backup" THEN "none" ELSE slotOf)
    BY <1>3 DEF CopyFile, CopyInto, ReleaseLeases
  <2>2. f \in File
    BY DEF File
  <2>3. k = [kept EXCEPT !.copies[f] = files[f]]
    BY <1>3
  <2>4. k \in KeptRecord /\ k.manifest = kept.manifest /\ k.marker = kept.marker
    <3> HIDE DEF f, k
    <3> QED
      BY <1>1, <2>2, <2>3 DEF KeptRecord, BackupFiles, File
  <2> HIDE DEF k, f
  <2> QED
    BY <1>2, <2>1, <2>4
<1>4. CASE s[f] \in {Gone, files[f]}
  <2>1. slotOf' = slotOf
        /\ BackupGoes(CASE f = "inventory" -> "copy identity" [] f = "identity" -> "copy store" [] OTHER -> "check")
    BY <1>4 DEF CopyFile, CopyInto, ReleaseLeases
  <2>2. CASE backup.at = "copy inventory"
    <3>1. f = "inventory"
      BY <2>2
    <3>2. backup' = [backup EXCEPT !.at = "copy identity"]
      BY <2>1, <3>1 DEF BackupGoes
    <3>3. /\ k \in KeptRecord /\ k.manifest = kept.manifest /\ k.marker = kept.marker
          /\ (s["inventory"] # Gone => k.copies["inventory"] = files["inventory"])
      <4>1. k = IF s["inventory"] = Gone THEN kept ELSE [kept EXCEPT !.copies["inventory"] = files["inventory"]]
        BY <3>1
      <4> HIDE DEF k
      <4> QED
        BY <1>1, <4>1 DEF KeptRecord, BackupFiles
    <3>4. s["inventory"] \in {Gone, files["inventory"]}
      BY <1>4, <3>1
    <3> HIDE DEF k, f
    <3>5. Copied(backup, k, "inventory")
      BY <3>3, <3>4 DEF Copied
    <3> QED
      BY <1>2, <2>1, <2>2, <3>2, <3>3, <3>5
  <2>3. CASE backup.at = "copy identity"
    <3>1. f = "identity"
      BY <2>3
    <3>2. backup' = [backup EXCEPT !.at = "copy store"]
      BY <2>1, <3>1 DEF BackupGoes
    <3>3. /\ k \in KeptRecord /\ k.manifest = kept.manifest /\ k.marker = kept.marker
          /\ (s["identity"] # Gone => k.copies["identity"] = files["identity"])
          /\ k.copies.inventory = kept.copies.inventory
      <4>1. k = IF s["identity"] = Gone THEN kept ELSE [kept EXCEPT !.copies["identity"] = files["identity"]]
        BY <3>1
      <4> HIDE DEF k
      <4> QED
        BY <1>1, <4>1 DEF KeptRecord, BackupFiles
    <3>4. s["identity"] \in {Gone, files["identity"]}
      BY <1>4, <3>1
    <3> HIDE DEF k, f
    <3>5. Copied(backup, k, "identity")
      BY <3>3, <3>4 DEF Copied
    <3> QED
      BY <1>2, <2>1, <2>3, <3>2, <3>3, <3>5
  <2>4. CASE backup.at = "copy store"
    <3>1. f = "store"
      BY <2>4
    <3>2. backup' = [backup EXCEPT !.at = "check"]
      BY <2>1, <3>1 DEF BackupGoes
    <3>3. /\ k \in KeptRecord /\ k.manifest = kept.manifest /\ k.marker = kept.marker
          /\ (s["store"] # Gone => k.copies["store"] = files["store"])
          /\ k.copies.inventory = kept.copies.inventory /\ k.copies.identity = kept.copies.identity
      <4>1. k = IF s["store"] = Gone THEN kept ELSE [kept EXCEPT !.copies["store"] = files["store"]]
        BY <3>1
      <4> HIDE DEF k
      <4> QED
        BY <1>1, <4>1 DEF KeptRecord, BackupFiles
    <3>4. s["store"] \in {Gone, files["store"]}
      BY <1>4, <3>1
    <3> HIDE DEF k, f
    <3>5. Copied(backup, k, "store")
      BY <3>3, <3>4 DEF Copied
    <3> QED
      BY <1>2, <2>1, <2>4, <3>2, <3>3, <3>5
  <2> QED
    BY <1>2, <2>2, <2>3, <2>4 DEF Copies
<1> QED
  BY <1>3, <1>4


LEMMA CopyFileKeeps == ASSUME BackupIInv, CopyFile PROVE BackupIInv'
<1>1. PICK k \in KeptRecord :
        /\ kept' = k /\ k.manifest = kept.manifest /\ k.marker = kept.marker /\ BackupOnly
        /\ \/ /\ backup' = NoBackup /\ slotOf' = (IF slotOf = "backup" THEN "none" ELSE slotOf)
           \/ /\ slotOf' = slotOf
              /\ \/ /\ backup.at = "copy inventory" /\ backup' = [backup EXCEPT !.at = "copy identity"]
                    /\ Copied(backup, k, "inventory")
                 \/ /\ backup.at = "copy identity" /\ backup' = [backup EXCEPT !.at = "copy store"]
                    /\ Copied(backup, k, "identity") /\ k.copies.inventory = kept.copies.inventory
                 \/ /\ backup.at = "copy store" /\ backup' = [backup EXCEPT !.at = "check"]
                    /\ Copied(backup, k, "store") /\ k.copies.inventory = kept.copies.inventory
                    /\ k.copies.identity = kept.copies.identity
  BY CopyStep
<1>2. backup \in BackupRecord /\ kept \in KeptRecord /\ Copying(backup, kept)
  BY BackupFacts
<1>3. k.marker # Gone /\ Tells(k.marker) => k.marker \in moments
  BY <1>1, <1>2 DEF Copying
<1>4. CASE backup' = NoBackup /\ slotOf' = (IF slotOf = "backup" THEN "none" ELSE slotOf)
  BY <1>1, <1>3, <1>4, EndedBackupKeeps
<1>5. ASSUME NEW at \in {"copy identity", "copy store", "check"}, backup.at \in Late, slotOf' = slotOf,
             backup' = [backup EXCEPT !.at = at], Copied(backup, k, "inventory"),
             at # "copy identity" => Copied(backup, k, "identity"),
             at = "check" => Copied(backup, k, "store")
      PROVE  BackupIInv'
  <2> DEFINE b == [backup EXCEPT !.at = at]
  <2>1. at \in Late /\ at \in BackupPlace
    BY LatePlaces DEF BackupPlace, Copies
  <2>2. b.at = at /\ b.second = backup.second
    BY <1>2, <2>1, PlacedRow
  <2>3. OfOneMoment(backup.second.files)
    BY <1>2, <1>5 DEF Copying
  <2> HIDE DEF b
  <2>4. Copied(b, k, "inventory") /\ (at # "copy identity" => Copied(b, k, "identity"))
        /\ (at = "check" => Copied(b, k, "store"))
    BY <1>5, <2>2 DEF Copied
  <2>5. at \notin {"manifest", "marker"}
    OBVIOUS
  <2>6. Copying(b, k)
    BY <1>3, <2>2, <2>3, <2>4, <2>5 DEF Copying
  <2> QED
    BY <1>1, <1>5, <2>1, <2>6, MovesOn DEF b
<1>6. CASE /\ slotOf' = slotOf /\ backup.at = "copy inventory" /\ backup' = [backup EXCEPT !.at = "copy identity"]
           /\ Copied(backup, k, "inventory")
  BY <1>5, <1>6, LatePlaces
<1>7. CASE /\ slotOf' = slotOf /\ backup.at = "copy identity" /\ backup' = [backup EXCEPT !.at = "copy store"]
           /\ Copied(backup, k, "identity") /\ k.copies.inventory = kept.copies.inventory
  <2>1. Copied(backup, k, "inventory")
    BY <1>2, <1>7 DEF Copying, Copied
  <2> QED
    BY <1>5, <1>7, <2>1, LatePlaces
<1>8. CASE /\ slotOf' = slotOf /\ backup.at = "copy store" /\ backup' = [backup EXCEPT !.at = "check"]
           /\ Copied(backup, k, "store") /\ k.copies.inventory = kept.copies.inventory
           /\ k.copies.identity = kept.copies.identity
  <2>1. Copied(backup, k, "inventory") /\ Copied(backup, k, "identity")
    BY <1>2, <1>8 DEF Copying, Copied
  <2> QED
    BY <1>5, <1>8, <2>1, LatePlaces
<1> QED
  BY <1>1, <1>4, <1>6, <1>7, <1>8

LEMMA BackupIInvInit == BackupInit => BackupIInv
<1> SUFFICES ASSUME BackupInit PROVE BackupIInv
  OBVIOUS
<1>1. PICK r \in {"none", "idle"} :
        files = [inventory |-> [row |-> r, at |-> 0, project |-> 0], identity |-> 0, store |-> (r = "idle")]
  BY DEF BackupInit
<1> DEFINE i == [row |-> r, at |-> 0, project |-> 0]
<1>2. i \in Inventory /\ i.at = 0
  BY DEF Inventory, RowState
<1>3. i # Gone
  BY <1>2, GoneFacts
<1> HIDE DEF i
<1>4. files = [inventory |-> i, identity |-> 0, store |-> (r = "idle")]
  BY <1>1 DEF i
<1>5. files \in BackupFiles /\ files.inventory = i /\ files.identity = 0
  BY <1>2, <1>4 DEF BackupFiles
<1>6. stamps = 0 /\ slotOf = "none" /\ backup = NoBackup /\ moments = {files} /\ attempts = 0
  BY DEF BackupInit
<1>7. writer \in [Writer -> WriterRecord] /\ \A w \in Writer : writer[w].at = "idle"
  <2>1. {[does |-> d, at |-> "idle"] : d \in {"run", "clean", "reset"}} \subseteq WriterRecord
    BY DEF WriterRecord
  <2>2. writer \in [Writer -> {[does |-> d, at |-> "idle"] : d \in {"run", "clean", "reset"}}]
    BY DEF BackupInit
  <2> QED
    BY <2>1, <2>2
<1>8. kept \in KeptRecord /\ kept.marker \in {files, Gone}
  <2>1. CASE kept = [copies |-> files, manifest |-> files, marker |-> files]
    BY <1>5, <2>1 DEF KeptRecord
  <2>2. CASE kept = [copies |-> Nothing, manifest |-> Gone, marker |-> Gone]
    BY <2>2, NothingTyped DEF KeptRecord
  <2> QED
    BY <2>1, <2>2 DEF BackupInit
<1>9. BackupTyped
  BY <1>5, <1>6, <1>7, <1>8, NothingTyped, GoneFacts DEF BackupTyped
<1>10. FilesAreKnown
  BY <1>2, <1>3, <1>5, <1>6 DEF FilesAreKnown, Known, KnownIdentity
<1>11. SlotsAreHeld
  BY <1>7 DEF SlotsAreHeld
<1>12. kept.marker # Gone /\ Tells(kept.marker) => kept.marker \in moments
  BY <1>6, <1>8
<1>13. NoBackup.at = "idle" /\ NoBackup.again = FALSE /\ NoBackup.second = Unread
  BY DEF NoBackup
<1>14. Leased(NoBackup, "none")
  BY <1>13 DEF Leased, Late, Copies
<1>15. KnownReadings(NoBackup)
  BY <1>13, UnreadFields DEF KnownReadings, KnownIdentity
<1>16. SecondReading(NoBackup)
  BY <1>13 DEF SecondReading
<1>17. Copying(NoBackup, kept)
  BY <1>12, <1>13 DEF Copying, Late, Copies
<1> QED
  BY <1>6, <1>9, <1>10, <1>11, <1>14, <1>15, <1>16, <1>17 DEF BackupIInv

LEMMA BackupIInvNext == BackupIInv /\ [BackupNext]_backupVars => BackupIInv'
<1> SUFFICES ASSUME BackupIInv, [BackupNext]_backupVars PROVE BackupIInv'
  OBVIOUS
<1>1. CASE BackupStart
  BY <1>1, StartKeeps
<1>2. CASE BackupStep
  BY <1>2, ReadKeeps, LeasesKeep, CompareKeeps, SourceGateKeeps, CopyFileKeeps, CopyGateKeeps,
     WriteBackupManifestKeeps, WriteBackupMarkerKeeps, FailsKeeps DEF BackupStep
<1>3. CASE \E w \in Writer : WriterStep(w)
  BY <1>3, WriterKeeps
<1>4. CASE UNCHANGED backupVars
  <2>1. NoFileChange /\ UNCHANGED <<backup, kept, attempts>> /\ writer' = writer /\ slotOf' = slotOf
    BY <1>4 DEF backupVars, NoFileChange
  <2>2. BackupTyped /\ FilesAreKnown /\ SlotsAreHeld
    BY DEF BackupIInv
  <2>3. (OneReset <=> OneReset') /\ (NoResetAhead => NoResetAhead')
    BY <2>1 DEF OneReset, NoResetAhead
  <2>4. Drift
    BY <2>1, <2>2, <2>3, QuietDrifts
  <2>5. writer' \in [Writer -> WriterRecord] /\ slotOf' \in Writer \cup {"backup", "none"} /\ SlotsAreHeld'
    BY <2>1, <2>2 DEF BackupTyped, SlotsAreHeld
  <2> QED
    BY <2>1, <2>4, <2>5, DriftKeeps
<1> QED
  BY <1>1, <1>2, <1>3, <1>4 DEF BackupNext

LEMMA BackupIInvImplies == BackupIInv => BackupInv
<1> SUFFICES ASSUME BackupIInv PROVE BackupInv
  OBVIOUS
<1>1. BackupTyped /\ Leased(backup, slotOf) /\ Copying(backup, kept)
  BY DEF BackupIInv
<1>2. backup \in BackupRecord /\ kept \in KeptRecord /\ files \in BackupFiles
  BY <1>1 DEF BackupTyped
<1>3. kept.copies \in BackupFiles
  BY <1>2, KeptFields
<1>4. BackupTypeOK
  <2>1. writer \in [Writer -> WriterRecord] /\ slotOf \in Writer \cup {"backup", "none"} /\ attempts \in 0..MaxBackups
    BY <1>1 DEF BackupTyped
  <2>2. backup.at \in BackupPlace /\ backup.tries \in 0..SnapshotAttempts
    BY <1>2, BackupFields
  <2>3. DOMAIN files = File /\ DOMAIN kept.copies = File
    BY <1>2, <1>3 DEF BackupFiles, File
  <2> QED
    BY <2>1, <2>2, <2>3 DEF BackupTypeOK, WriterRecord, BackupPlace
<1>5. ValidIsAMoment
  BY <1>1 DEF ValidIsAMoment, ValidBackup, Copying
<1>6. MarkerIsEarned
  <2> SUFFICES ASSUME backup.at = "marker"
               PROVE  /\ kept.copies = kept.manifest /\ Consistent(kept.copies)
                      /\ Tells(kept.copies) => kept.copies \in moments
    BY DEF MarkerIsEarned
  <2>1. kept.copies = backup.second.files /\ Consistent(kept.copies) /\ kept.copies.identity # Gone
        /\ kept.manifest = backup.second.files /\ OfOneMoment(backup.second.files)
    BY <1>1, LatePlaces DEF Copying
  <2> QED
    BY <2>1 DEF OfOneMoment
<1>7. LeasesFollowBackup
  BY <1>1 DEF LeasesFollowBackup, Leased, Late
<1> QED
  BY <1>4, <1>5, <1>6, <1>7 DEF BackupInv

(* A state backup validates only over a moment: for any number of runs,    *)
(* cleans and resets beside it, of attempts and of earlier backups in the  *)
(* same directory, what validateCoderV2Backup accepts is a state the three *)
(* files were in together; the completion marker is written over agreeing  *)
(* copies alone; a backup that ends gives its leases back, and copies with *)
(* the lease of a live row.                                                *)
THEOREM BackupsAreMoments == BackupSpec => []BackupInv
<1>1. BackupInit => BackupIInv
  BY BackupIInvInit
<1>2. BackupIInv /\ [BackupNext]_backupVars => BackupIInv'
  BY BackupIInvNext
<1>3. BackupIInv => BackupInv
  BY BackupIInvImplies
<1> QED
  BY <1>1, <1>2, <1>3, PTL DEF BackupSpec

USE LockerAssumption, MaxInodeAssumption

-----------------------------------------------------------------------------
(* The update lock.  ExclusiveUnlessRobbed is not inductive: what keeps a  *)
(* holder's file in place is that a breaker only ever removes the file of  *)
(* a dead process, and that while nobody removes its alias no other        *)
(* process can get past the claim.                                         *)

\* The payloads that exist or once existed.
Written == {i \in Inode : i < nextInode}

\* A payload is its writer's from the moment it is written until the writer ends.
OwnsItsPayload ==
  \A l \in Locker :
    locker[l].at \in {"fill", "link", "unmark", "hold", "leave", "unlock"} =>
      /\ locker[l].mine \in Written
      /\ ownerOf[locker[l].mine] = l

\* Nobody removes the container of a live process before its payload is there.
ContainerStands ==
  \A l \in Locker : locker[l].at = "fill" => locker[l].mine \in containers \ payloads

\* Whoever is about to break a lock has read it as a dead process's, and the dead stay dead.
BreaksTheDead ==
  \A l \in Locker :
    locker[l].at \in {"stat", "claim", "contend", "drop", "check", "remove"} =>
      /\ locker[l].read \in Written
      /\ ownerOf[locker[l].read] = Dead

LinksExist ==
  /\ lockFile \in Written \cup {NoFile} /\ breakLink \in Written \cup {NoFile}
  /\ aliasOf \in Locker \cup {Dead}
  /\ aliasOf # Dead => breakLink # NoFile
  /\ containers \subseteq Written

HolderHasFile == \A l \in Locker : Holds(l) => lockFile = locker[l].mine

\* One process at a time is past the claim, and the lock it removes is the one it inspected.
ClaimPins ==
  \A l \in Locker :
    /\ locker[l].at \in {"check", "remove"} => aliasOf = l
    /\ locker[l].at = "remove" => lockFile = locker[l].read

LockIInv ==
  /\ LockTypeOK /\ robbed \in BOOLEAN
  /\ OwnsItsPayload /\ ContainerStands /\ BreaksTheDead /\ LinksExist
  /\ ~robbed => HolderHasFile /\ ClaimPins

LEMMA LockIInvInit == LockInit => LockIInv
<1> SUFFICES ASSUME LockInit PROVE LockIInv
  OBVIOUS
<1>1. LockTypeOK
  BY DEF LockInit, LockTypeOK, Tool, Inode, NoFile, NoLocker, LockerAt
<1>2. \A l \in Locker : locker[l].at = "idle"
  BY DEF LockInit, NoLocker
<1>3. OwnsItsPayload /\ ContainerStands /\ BreaksTheDead /\ HolderHasFile /\ ClaimPins
  BY <1>2 DEF OwnsItsPayload, ContainerStands, BreaksTheDead, HolderHasFile, Holds, LockerIs, ClaimPins
<1>4. LinksExist
  <2>1. lockFile \in {0, 1} /\ breakLink \in {0, 1} /\ nextInode = 2
    BY DEF LockInit, NoFile
  <2>2. 1 \in Written
    BY <2>1 DEF Written, Inode
  <2> QED
    BY <2>1, <2>2 DEF LinksExist, LockInit, NoFile
<1>5. robbed \in BOOLEAN
  BY DEF LockInit
<1> QED
  BY <1>1, <1>3, <1>4, <1>5 DEF LockIInv

\* Two holders would have written the same payload.
LEMMA LockIInvExclusive == LockIInv => UpdateLockInv
<1> SUFFICES ASSUME LockIInv, ~robbed
             PROVE /\ Cardinality(Holders) <= 1
                   /\ \A p \in Holders : lockFile = locker[p].mine
  BY DEF LockIInv, UpdateLockInv, ExclusiveUnlessRobbed
<1>1. \A p \in Holders : p \in Locker /\ lockFile = locker[p].mine /\ ownerOf[lockFile] = p
  BY DEF LockIInv, HolderHasFile, Holders, OwnsItsPayload, Holds, LockerIs
<1>2. CASE Holders = {}
  BY <1>1, <1>2, FS_EmptySet
<1>3. CASE Holders # {}
  <2>1. PICK p \in Holders : TRUE
    BY <1>3
  <2>2. Holders = {p}
    BY <1>1, <2>1
  <2> QED
    BY <1>1, <2>2, FS_Singleton
<1> QED
  BY <1>2, <1>3

LockerRow == [at : LockerAt, mine : Inode \cup {NoFile}, read : Inode \cup {NoFile},
              seen : Inode \cup {NoFile}, won : BOOLEAN]

\* A step moves one process, and either nobody's payloads change hands, or it writes one, or it ends.
Moves(p) == \E r \in LockerRow : locker' = [locker EXCEPT ![p] = r]
Writes(p) ==
  /\ nextInode \in Inode /\ nextInode' = nextInode + 1
  /\ ownerOf' = [ownerOf EXCEPT ![nextInode] = p]
Apart(p) ==
  \/ LockerEnds(p) /\ UNCHANGED nextInode
  \/ Moves(p) /\ UNCHANGED <<ownerOf, nextInode>>
  \/ Moves(p) /\ Writes(p)

LEMMA GoesIsAMove ==
  ASSUME LockTypeOK, NEW p \in Locker, NEW s \in LockerAt, LockerGoes(p, s)
  PROVE  Moves(p)
<1>1. locker[p] \in LockerRow
  BY DEF LockTypeOK, LockerRow
<1>2. [locker[p] EXCEPT !.at = s] \in LockerRow
  BY <1>1 DEF LockerRow
<1> QED
  BY <1>2 DEF LockerGoes, Moves

LEMMA StepIsApart ==
  ASSUME LockTypeOK, NEW p \in Locker, LockStep(p) \/ LockerDies(p)
  PROVE  Apart(p)
<1> DEFINE Onward == \E s \in LockerAt : LockerGoes(p, s)
<1>0. /\ \A s \in {"idle", "clean", "unalias stale", "mark", "fill", "link", "unmark", "probe", "stat",
                   "claim", "contend", "drop", "check", "remove", "unalias", "unalias again",
                   "hold", "leave", "unlock"} : s \in LockerAt
      /\ Onward => Moves(p)
      /\ locker[p] \in LockerRow
  BY GoesIsAMove DEF LockerAt, LockTypeOK, LockerRow
<1> HIDE DEF Onward
<1>1. CASE StartLocking(p)
  <2>1. Onward
    BY <1>0, <1>1 DEF StartLocking, Onward
  <2> QED
    BY <1>0, <1>1, <2>1 DEF StartLocking, SameFiles, Apart
<1>2. CASE CleanPublications(p)
  <2>1. LockerEnds(p) \/ (Onward /\ UNCHANGED ownerOf)
    BY <1>0, <1>2 DEF CleanPublications, Onward
  <2> QED
    BY <1>0, <1>2, <2>1 DEF CleanPublications, Apart
<1>3. CASE CleanBreakLink(p)
  <2>1. LockerEnds(p) \/ (Onward /\ UNCHANGED ownerOf)
    BY <1>0, <1>3 DEF CleanBreakLink, Onward
  <2> QED
    BY <1>0, <1>3, <2>1 DEF CleanBreakLink, Apart
<1>4. CASE FillPayload(p)
  <2>1. Onward
    BY <1>0, <1>4 DEF FillPayload, Onward
  <2> QED
    BY <1>0, <1>4, <2>1 DEF FillPayload, Apart
<1>5. CASE Unmark(p)
  <2>1. Onward
    BY <1>0, <1>5 DEF Unmark, Onward
  <2> QED
    BY <1>0, <1>5, <2>1 DEF Unmark, Apart
<1>6. CASE Contend(p)
  <2>1. LockerEnds(p) \/ (Onward /\ UNCHANGED ownerOf)
    BY <1>0, <1>6 DEF Contend, ClaimFails, TriesAgain, Onward
  <2> QED
    BY <1>0, <1>6, <2>1 DEF Contend, SameFiles, Apart
<1>7. CASE DropAlias(p)
  <2>1. LockerEnds(p) \/ (Onward /\ UNCHANGED ownerOf)
    BY <1>0, <1>7 DEF DropAlias, ClaimFails, TriesAgain, Onward
  <2> QED
    BY <1>0, <1>7, <2>1 DEF DropAlias, Apart
<1>8. CASE Unalias(p)
  <2>1. Onward
    BY <1>0, <1>8 DEF Unalias, Onward
  <2> QED
    BY <1>0, <1>8, <2>1 DEF Unalias, Apart
<1>9. CASE UnaliasAgain(p)
  <2>1. LockerEnds(p) \/ (Onward /\ UNCHANGED ownerOf)
    BY <1>0, <1>9 DEF UnaliasAgain, ClaimFails, TriesAgain, Onward
  <2> QED
    BY <1>0, <1>9, <2>1 DEF UnaliasAgain, Apart
<1>10. CASE LinkAlias(p)
  <2>1. LockerEnds(p) \/ (Onward /\ UNCHANGED ownerOf)
    BY <1>0, <1>10 DEF LinkAlias, ClaimFails, TriesAgain, Onward
  <2> QED
    BY <1>0, <1>10, <2>1 DEF LinkAlias, Apart
<1>11. CASE StartRelease(p)
  <2>1. Onward
    BY <1>0, <1>11 DEF StartRelease, Onward
  <2> QED
    BY <1>0, <1>11, <2>1 DEF StartRelease, SameFiles, Apart
<1>12. CASE ReadOwnNonce(p)
  <2>1. LockerEnds(p) \/ (Onward /\ UNCHANGED ownerOf)
    BY <1>0, <1>12 DEF ReadOwnNonce, Onward
  <2> QED
    BY <1>0, <1>12, <2>1 DEF ReadOwnNonce, SameFiles, Apart
<1>13. CASE Unlock(p) \/ LockerDies(p)
  BY <1>13 DEF Unlock, LockerDies, SameFiles, Apart
<1>14. CASE MarkPublication(p)
  <2>1. [locker[p] EXCEPT !.at = "fill", !.mine = nextInode] \in LockerRow
    BY <1>0, <1>14 DEF MarkPublication, LockerRow
  <2> QED
    BY <1>14, <2>1 DEF MarkPublication, Apart, Moves, Writes
<1>15. CASE LinkPayload(p)
  <2>1. [locker[p] EXCEPT !.at = "unmark", !.won = lockFile = NoFile] \in LockerRow
    BY <1>0, <1>15 DEF LinkPayload, LockerRow
  <2> QED
    BY <1>15, <2>1 DEF LinkPayload, Apart, Moves
<1>16. CASE CheckClaim(p)
  <2>1. [locker[p] EXCEPT !.at = "unalias", !.won = FALSE] \in LockerRow
    BY <1>0 DEF LockerRow
  <2>2. CASE Onward
    BY <1>0, <1>16, <2>2 DEF CheckClaim, SameFiles, Apart
  <2>3. CASE locker' = [locker EXCEPT ![p].at = "unalias", ![p].won = FALSE]
    BY <1>16, <2>1, <2>3 DEF CheckClaim, SameFiles, Apart, Moves
  <2> QED
    BY <1>0, <1>16, <2>2, <2>3 DEF CheckClaim, Onward
<1>17. CASE RemoveStale(p)
  <2>1. [locker[p] EXCEPT !.at = "unalias", !.won = lockFile # NoFile] \in LockerRow
    BY <1>0, <1>17 DEF RemoveStale, LockerRow
  <2> QED
    BY <1>17, <2>1 DEF RemoveStale, Apart, Moves
<1>18. CASE ProbeOwner(p)
  <2>1. CASE LockerEnds(p) \/ (Onward /\ UNCHANGED ownerOf)
    BY <1>0, <1>18, <2>1 DEF ProbeOwner, SameFiles, Apart
  <2>2. CASE lockFile # NoFile /\ locker' = [locker EXCEPT ![p].at = "stat", ![p].read = lockFile] /\ UNCHANGED ownerOf
    <3>1. [locker[p] EXCEPT !.at = "stat", !.read = lockFile] \in LockerRow
      BY <1>0 DEF LockerRow, LockTypeOK
    <3> QED
      BY <1>18, <2>2, <3>1 DEF ProbeOwner, SameFiles, Apart, Moves
  <2> QED
    BY <1>0, <1>18, <2>1, <2>2 DEF ProbeOwner, TriesAgain, IsStale, Onward
<1>19. CASE StatLock(p)
  <2>1. CASE LockerEnds(p) \/ (Onward /\ UNCHANGED ownerOf)
    BY <1>0, <1>19, <2>1 DEF StatLock, SameFiles, Apart
  <2>2. CASE locker' = [locker EXCEPT ![p].at = "claim", ![p].seen = lockFile] /\ UNCHANGED ownerOf
    <3>1. [locker[p] EXCEPT !.at = "claim", !.seen = lockFile] \in LockerRow
      BY <1>0 DEF LockerRow, LockTypeOK
    <3> QED
      BY <1>19, <2>2, <3>1 DEF StatLock, SameFiles, Apart, Moves
  <2> QED
    BY <1>0, <1>19, <2>1, <2>2 DEF StatLock, ClaimFails, TriesAgain, Onward
<1> QED
  BY <1>1, <1>2, <1>3, <1>4, <1>5, <1>6, <1>7, <1>8, <1>9, <1>10, <1>11, <1>12, <1>13, <1>14, <1>15, <1>16, <1>17, <1>18, <1>19 DEF LockStep

\* What such a step leaves alone: the other processes, and who wrote what.
LEMMA ApartKeeps ==
  ASSUME LockTypeOK, NEW p \in Locker, Apart(p)
  PROVE  /\ locker' \in [Locker -> LockerRow] /\ ownerOf' \in [Inode -> Locker \cup {Dead}]
         /\ nextInode' \in 1..(MaxInode + 1)
         /\ \A l \in Locker : l # p => locker'[l] = locker[l]
         /\ Written \subseteq Written'
         /\ \A i \in Written : ownerOf'[i] = ownerOf[i] \/ (ownerOf[i] = p /\ ownerOf'[i] = Dead)
<1>1. CASE LockerEnds(p) /\ UNCHANGED nextInode
  <2>1. NoLocker \in LockerRow
    BY DEF NoLocker, LockerRow, LockerAt
  <2> QED
    BY <1>1, <2>1 DEF LockerEnds, LockTypeOK, LockerRow, Written
<1>2. CASE Moves(p) /\ UNCHANGED <<ownerOf, nextInode>>
  BY <1>2 DEF Moves, LockTypeOK, LockerRow, Written
<1>3. CASE Moves(p) /\ Writes(p)
  <2>1. locker' \in [Locker -> LockerRow] /\ \A l \in Locker : l # p => locker'[l] = locker[l]
    BY <1>3 DEF Moves, LockTypeOK, LockerRow
  <2>2. /\ Written' = Written \cup {nextInode} /\ nextInode \notin Written
        /\ nextInode' \in 1..(MaxInode + 1)
    BY <1>3 DEF Written, Writes, LockTypeOK, Inode
  <2>3. /\ ownerOf' \in [Inode -> Locker \cup {Dead}]
        /\ \A i \in Inode : i # nextInode => ownerOf'[i] = ownerOf[i]
    BY <1>3 DEF Writes, LockTypeOK
  <2> QED
    BY <2>1, <2>2, <2>3 DEF Written
<1> QED
  BY <1>1, <1>2, <1>3 DEF Apart

LEMMA WritesFresh ==
  ASSUME LockTypeOK, NEW p \in Locker, Writes(p)
  PROVE  nextInode \in Written' /\ ownerOf'[nextInode] = p
  BY DEF Writes, Written, LockTypeOK, Inode

\* The other processes keep what they rely on whatever a step of p is.
LEMMA OthersKeepTheirs ==
  ASSUME LockIInv, NEW p \in Locker, Apart(p), NEW l \in Locker, l # p
  PROVE  /\ locker'[l].at \in {"fill", "link", "unmark", "hold", "leave", "unlock"} =>
              locker'[l].mine \in Written' /\ ownerOf'[locker'[l].mine] = l
         /\ locker'[l].at \in {"stat", "claim", "contend", "drop", "check", "remove"} =>
              locker'[l].read \in Written' /\ ownerOf'[locker'[l].read] = Dead
<1>1. locker'[l] = locker[l] /\ Written \subseteq Written'
  BY ApartKeeps DEF LockIInv
<1>2. \A i \in Written : ownerOf'[i] = ownerOf[i] \/ (ownerOf[i] = p /\ ownerOf'[i] = Dead)
  BY ApartKeeps DEF LockIInv
<1>3. CASE locker[l].at \in {"fill", "link", "unmark", "hold", "leave", "unlock"}
  BY <1>1, <1>2, <1>3 DEF LockIInv, OwnsItsPayload
<1>4. CASE locker[l].at \in {"stat", "claim", "contend", "drop", "check", "remove"}
  BY <1>1, <1>2, <1>4 DEF LockIInv, BreaksTheDead
<1> QED
  BY <1>1, <1>3, <1>4

\* The files of the lock are payloads somebody wrote.
LEMMA FilesTyped ==
  ASSUME LockIInv, NEW p \in Locker, LockStep(p) \/ LockerDies(p)
  PROVE  LinksExist' /\ robbed' \in BOOLEAN /\ tool' = tool /\ payloads' \subseteq containers'
<1>0. /\ Written \subseteq Written' /\ Dead # p
      /\ LinksExist /\ robbed \in BOOLEAN /\ payloads \subseteq containers /\ LockTypeOK
      /\ locker[p].at \in {"fill", "link", "unmark"} => locker[p].mine \in Written
      /\ locker[p].at = "fill" => locker[p].mine \in containers
  BY StepIsApart, ApartKeeps DEF LockIInv, OwnsItsPayload, ContainerStands, LockTypeOK
<1>1. CASE StartLocking(p) \/ ProbeOwner(p) \/ StatLock(p) \/ Contend(p) \/ CheckClaim(p)
           \/ StartRelease(p) \/ ReadOwnNonce(p) \/ LockerDies(p)
  <2>1. SameFiles /\ UNCHANGED tool
    BY <1>1 DEF StartLocking, ProbeOwner, StatLock, Contend, CheckClaim, StartRelease, ReadOwnNonce, LockerDies
  <2> QED
    BY <1>0, <2>1 DEF SameFiles, LinksExist
<1>2. CASE CleanPublications(p) \/ MarkPublication(p) \/ FillPayload(p) \/ Unmark(p)
  <2>1. UNCHANGED <<tool, lockFile, breakLink, aliasOf, robbed>>
    BY <1>2 DEF CleanPublications, MarkPublication, FillPayload, Unmark
  <2>2. MarkPublication(p) => nextInode \in Written'
    BY <1>0, WritesFresh DEF MarkPublication, Writes
  <2>3. containers' \subseteq Written' /\ payloads' \subseteq containers'
    BY <1>0, <1>2, <2>2 DEF CleanPublications, MarkPublication, FillPayload, Unmark, LinksExist, LockerIs
  <2> QED
    BY <1>0, <2>1, <2>3 DEF LinksExist
<1>3. CASE LinkPayload(p) \/ RemoveStale(p) \/ Unlock(p)
  <2>1. UNCHANGED <<tool, containers, payloads, breakLink, aliasOf, robbed>>
    BY <1>3 DEF LinkPayload, RemoveStale, Unlock
  <2>2. lockFile' \in Written \cup {NoFile}
    BY <1>0, <1>3 DEF LinkPayload, RemoveStale, Unlock, LockerIs, LinksExist
  <2> QED
    BY <1>0, <2>1, <2>2 DEF LinksExist
<1>4. CASE CleanBreakLink(p) \/ DropAlias(p) \/ Unalias(p) \/ UnaliasAgain(p)
  <2>1. UNCHANGED <<tool, lockFile, containers, payloads>>
    BY <1>4 DEF CleanBreakLink, DropAlias, Unalias, UnaliasAgain
  <2>2. UNCHANGED <<breakLink, aliasOf, robbed>> \/ AliasRemoved
    BY <1>4 DEF CleanBreakLink, DropAlias, Unalias, UnaliasAgain
  <2>3. robbed' \in BOOLEAN
    BY <1>0, <2>2 DEF AliasRemoved
  <2> QED
    BY <1>0, <2>1, <2>2, <2>3 DEF LinksExist, AliasRemoved
<1>5. CASE LinkAlias(p)
  <2>1. UNCHANGED <<tool, lockFile, containers, payloads, robbed>>
    BY <1>5 DEF LinkAlias
  <2>2. UNCHANGED <<breakLink, aliasOf>> \/ (lockFile # NoFile /\ breakLink' = lockFile /\ aliasOf' = p)
    BY <1>5 DEF LinkAlias
  <2> QED
    BY <1>0, <2>1, <2>2 DEF LinksExist
<1> QED
  BY <1>1, <1>2, <1>3, <1>4, <1>5 DEF LockStep

\* A step of p by where it leads p: to a payload of its own, past a probe, or neither.
Own == {"fill", "link", "unmark", "hold", "leave", "unlock"}
Breaking == {"stat", "claim", "contend", "drop", "check", "remove"}

LEMMA StepLeads ==
  ASSUME LockTypeOK, NEW p \in Locker, LockStep(p) \/ LockerDies(p)
  PROVE  \/ locker'[p].at \notin Own \cup Breaking
         \/ MarkPublication(p) /\ Writes(p) /\ locker'[p].mine = nextInode /\ locker'[p].at = "fill"
         \/ ProbeOwner(p) /\ IsStale /\ locker'[p].read = lockFile /\ UNCHANGED <<ownerOf, nextInode>>
            /\ locker'[p].at = "stat"
         \/ /\ UNCHANGED <<ownerOf, nextInode>> /\ locker'[p].at # "fill"
            /\ \/ locker[p].at \in Own /\ locker'[p].at \in Own /\ locker'[p].mine = locker[p].mine
               \/ locker[p].at \in Breaking /\ locker'[p].at \in Breaking /\ locker'[p].read = locker[p].read
<1> DEFINE To(s) == /\ locker'[p].at = s /\ locker'[p].mine = locker[p].mine
                    /\ locker'[p].read = locker[p].read
<1>0. /\ locker \in [Locker -> LockerRow]
      /\ \A s \in LockerAt : LockerGoes(p, s) => To(s)
      /\ LockerEnds(p) => locker'[p].at = "idle"
  BY DEF LockTypeOK, LockerRow, LockerGoes, LockerEnds, NoLocker
<1>a. /\ LockerGoes(p, "clean") => To("clean")
      /\ LockerGoes(p, "unalias stale") => To("unalias stale")
      /\ LockerGoes(p, "mark") => To("mark")
      /\ LockerGoes(p, "link") => To("link")
      /\ LockerGoes(p, "hold") => To("hold")
      /\ LockerGoes(p, "probe") => To("probe")
      /\ LockerGoes(p, "contend") => To("contend")
      /\ LockerGoes(p, "drop") => To("drop")
      /\ LockerGoes(p, "check") => To("check")
      /\ LockerGoes(p, "remove") => To("remove")
      /\ LockerGoes(p, "unalias again") => To("unalias again")
      /\ LockerGoes(p, "leave") => To("leave")
      /\ LockerGoes(p, "unlock") => To("unlock")
      /\ LockerEnds(p) => locker'[p].at = "idle"
  BY <1>0 DEF LockerAt
<1> USE <1>a DEF LockerIs, Own, Breaking, SameFiles, ClaimFails, TriesAgain
<1>1. CASE StartLocking(p)
  BY <1>1 DEF StartLocking
<1>2. CASE CleanPublications(p)
  BY <1>2 DEF CleanPublications
<1>3. CASE CleanBreakLink(p)
  BY <1>3 DEF CleanBreakLink
<1>4. CASE MarkPublication(p)
  BY <1>0, <1>4 DEF MarkPublication, Writes, LockerRow
<1>5. CASE FillPayload(p)
  BY <1>5 DEF FillPayload
<1>6. CASE LinkPayload(p)
  BY <1>0, <1>6 DEF LinkPayload, LockerRow
<1>7. CASE Unmark(p)
  BY <1>7 DEF Unmark
<1>8. CASE ProbeOwner(p)
  BY <1>0, <1>8 DEF ProbeOwner, IsStale, LockerRow
<1>9. CASE StatLock(p)
  <2>1. locker' = [locker EXCEPT ![p].at = "claim", ![p].seen = lockFile] => To("claim")
    BY <1>0 DEF LockerRow
  <2> QED
    BY <1>9, <2>1 DEF StatLock
<1>10. CASE LinkAlias(p)
  BY <1>10 DEF LinkAlias
<1>11. CASE Contend(p)
  BY <1>11 DEF Contend
<1>12. CASE DropAlias(p)
  BY <1>12 DEF DropAlias
<1>13. CASE CheckClaim(p)
  <2>1. locker' = [locker EXCEPT ![p].at = "unalias", ![p].won = FALSE] => To("unalias")
    BY <1>0 DEF LockerRow
  <2> QED
    BY <1>13, <2>1 DEF CheckClaim
<1>14. CASE RemoveStale(p)
  BY <1>0, <1>14 DEF RemoveStale, LockerRow
<1>15. CASE Unalias(p)
  BY <1>15 DEF Unalias
<1>16. CASE UnaliasAgain(p)
  BY <1>16 DEF UnaliasAgain
<1>17. CASE StartRelease(p)
  BY <1>17 DEF StartRelease
<1>18. CASE ReadOwnNonce(p)
  BY <1>18 DEF ReadOwnNonce
<1>19. CASE Unlock(p)
  BY <1>19 DEF Unlock
<1>20. CASE LockerDies(p)
  BY <1>20 DEF LockerDies
<1> QED
  BY <1>1, <1>2, <1>3, <1>4, <1>5, <1>6, <1>7, <1>8, <1>9, <1>10, <1>11, <1>12, <1>13, <1>14, <1>15, <1>16, <1>17, <1>18, <1>19, <1>20 DEF LockStep

\* A payload goes to the process that writes it, and a lock is broken only once read as a dead one's.
LEMMA PayloadsKept ==
  ASSUME LockIInv, NEW p \in Locker, LockStep(p) \/ LockerDies(p)
  PROVE  OwnsItsPayload' /\ BreaksTheDead'
<1>1. Apart(p) /\ LockTypeOK
  BY StepIsApart DEF LockIInv
<1>2. Written \subseteq Written' /\ (IsStale => lockFile \in Written /\ ownerOf[lockFile] = Dead)
  BY <1>1, ApartKeeps DEF LockIInv, LinksExist, IsStale
<1>3. /\ locker'[p].at \in Own => locker'[p].mine \in Written' /\ ownerOf'[locker'[p].mine] = p
      /\ locker'[p].at \in Breaking => locker'[p].read \in Written' /\ ownerOf'[locker'[p].read] = Dead
  <2>1. /\ locker[p].at \in Own => locker[p].mine \in Written /\ ownerOf[locker[p].mine] = p
        /\ locker[p].at \in Breaking => locker[p].read \in Written /\ ownerOf[locker[p].read] = Dead
    BY DEF LockIInv, OwnsItsPayload, BreaksTheDead, Own, Breaking
  <2>2. "fill" \notin Breaking /\ "stat" \notin Own /\ Own \cap Breaking = {}
    BY DEF Own, Breaking
  <2> QED
    BY <1>1, <1>2, <2>1, <2>2, StepLeads, WritesFresh
<1>4. \A l \in Locker : l # p =>
        /\ locker'[l].at \in Own => locker'[l].mine \in Written' /\ ownerOf'[locker'[l].mine] = l
        /\ locker'[l].at \in Breaking => locker'[l].read \in Written' /\ ownerOf'[locker'[l].read] = Dead
  BY <1>1, OthersKeepTheirs DEF Own, Breaking
<1> QED
  BY <1>3, <1>4 DEF OwnsItsPayload, BreaksTheDead, Own, Breaking

\* Containers are swept only if each is a dead process's or holds the present lock.
LEMMA ContainersStand ==
  ASSUME LockIInv, NEW p \in Locker, LockStep(p) \/ LockerDies(p)
  PROVE  ContainerStands'
<1> SUFFICES ASSUME NEW l \in Locker, locker'[l].at = "fill"
             PROVE  locker'[l].mine \in containers' \ payloads'
  BY DEF ContainerStands
<1>1. CASE l = p
  <2>1. MarkPublication(p) /\ locker'[p].mine = nextInode
    BY <1>1, StepLeads DEF LockIInv, Own
  <2>2. nextInode \notin containers
    BY DEF LockIInv, LinksExist, LockTypeOK, Written, Inode
  <2> QED
    BY <1>1, <2>1, <2>2 DEF MarkPublication, LockIInv, LockTypeOK
<1>2. CASE l # p
  <2>1. /\ locker'[l] = locker[l] /\ locker[l].at = "fill" /\ locker[l].mine \in containers \ payloads
        /\ ownerOf[locker[l].mine] = l /\ l # Dead /\ locker[l].mine # nextInode
    BY <1>2, StepIsApart, ApartKeeps DEF LockIInv, ContainerStands, OwnsItsPayload, Written, LockTypeOK, Inode
  <2>2. LockerIs(p, "fill") \/ LockerIs(p, "unmark") => locker[p].mine # locker[l].mine
    BY <1>2, <2>1 DEF LockIInv, OwnsItsPayload, LockerIs
  <2>3. CASE CleanPublications(p)
    BY <2>1, <2>3 DEF CleanPublications, Removable
  <2>4. CASE MarkPublication(p) \/ FillPayload(p) \/ Unmark(p)
    BY <2>1, <2>2, <2>4 DEF MarkPublication, FillPayload, Unmark
  <2>5. CASE UNCHANGED <<containers, payloads>>
    BY <2>1, <2>5
  <2> QED
    BY <2>3, <2>4, <2>5
    DEF LockStep, StartLocking, CleanBreakLink, LinkPayload, ProbeOwner, StatLock, LinkAlias, Contend,
        DropAlias, CheckClaim, RemoveStale, Unalias, UnaliasAgain, StartRelease, ReadOwnNonce, Unlock,
        LockerDies, SameFiles
<1> QED
  BY <1>1, <1>2

\* Which steps touch the two links, and what a removal of the alias that robs nobody says.
LEMMA LinksMove ==
  ASSUME LockIInv, NEW p \in Locker, LockStep(p) \/ LockerDies(p)
  PROVE  /\ UNCHANGED lockFile \/ LinkPayload(p) \/ RemoveStale(p) \/ Unlock(p)
         /\ \/ UNCHANGED <<aliasOf, robbed>>
            \/ AliasRemoved
            \/ LinkAlias(p) /\ breakLink = NoFile /\ aliasOf' = p /\ UNCHANGED robbed
  BY DEF LockStep, StartLocking, CleanPublications, CleanBreakLink, MarkPublication, FillPayload, LinkPayload, Unmark, ProbeOwner,
      StatLock, LinkAlias, Contend, DropAlias, CheckClaim, RemoveStale, Unalias, UnaliasAgain, StartRelease,
      ReadOwnNonce, Unlock, LockerDies, SameFiles

LEMMA NotRobbed ==
  ASSUME LockIInv, NEW p \in Locker, LockStep(p) \/ LockerDies(p), ~robbed'
  PROVE  /\ ~robbed /\ HolderHasFile /\ ClaimPins
         /\ AliasRemoved => \A l \in Locker : locker[l].at \notin {"check", "remove"}
<1>1. ~robbed
  BY LinksMove DEF AliasRemoved, LockIInv
<1>2. HolderHasFile /\ ClaimPins
  BY <1>1 DEF LockIInv
<1>3. ASSUME AliasRemoved, NEW l \in Locker, locker[l].at \in {"check", "remove"} PROVE FALSE
  <2>1. aliasOf = l /\ l # Dead
    BY <1>2, <1>3 DEF ClaimPins
  <2> QED
    BY <1>3, <2>1 DEF AliasRemoved
<1> QED
  BY <1>1, <1>2, <1>3

\* A step of p that leaves p holding the lock, claiming it or about to remove it.
LEMMA StepWins ==
  ASSUME LockTypeOK, NEW p \in Locker, LockStep(p) \/ LockerDies(p)
  PROVE  /\ locker'[p].at \in {"hold", "leave", "unlock"} \/ (locker'[p].at = "unmark" /\ locker'[p].won) =>
              \/ LinkPayload(p) /\ lockFile = NoFile
              \/ Holds(p) /\ UNCHANGED lockFile
         /\ locker'[p].at = "check" => LinkAlias(p) /\ aliasOf' = p
         /\ locker'[p].at = "remove" =>
              CheckClaim(p) /\ UNCHANGED <<lockFile, aliasOf>> /\ lockFile = locker[p].read
<1> DEFINE To(s) == locker'[p].at = s
<1>0. /\ locker \in [Locker -> LockerRow]
      /\ \A s \in LockerAt : LockerGoes(p, s) => To(s)
      /\ LockerEnds(p) => To("idle")
  BY DEF LockTypeOK, LockerRow, LockerGoes, LockerEnds, NoLocker
<1>a. /\ LockerGoes(p, "clean") => To("clean")
      /\ LockerGoes(p, "unalias stale") => To("unalias stale")
      /\ LockerGoes(p, "mark") => To("mark")
      /\ LockerGoes(p, "link") => To("link")
      /\ LockerGoes(p, "hold") => To("hold")
      /\ LockerGoes(p, "probe") => To("probe")
      /\ LockerGoes(p, "contend") => To("contend")
      /\ LockerGoes(p, "drop") => To("drop")
      /\ LockerGoes(p, "check") => To("check")
      /\ LockerGoes(p, "remove") => To("remove")
      /\ LockerGoes(p, "unalias again") => To("unalias again")
      /\ LockerGoes(p, "leave") => To("leave")
      /\ LockerGoes(p, "unlock") => To("unlock")
      /\ LockerEnds(p) => To("idle")
  BY <1>0 DEF LockerAt
<1>1. CASE StartLocking(p) \/ CleanPublications(p) \/ CleanBreakLink(p) \/ FillPayload(p)
  BY <1>a, <1>1 DEF StartLocking, CleanPublications, CleanBreakLink, FillPayload
<1>2. CASE Contend(p) \/ DropAlias(p) \/ Unalias(p) \/ UnaliasAgain(p) \/ LockerDies(p)
  BY <1>a, <1>2 DEF Contend, DropAlias, Unalias, UnaliasAgain, LockerDies, ClaimFails, TriesAgain
<1>3. CASE LinkAlias(p)
  BY <1>a, <1>3 DEF LinkAlias, ClaimFails, TriesAgain
<1>4. CASE Unmark(p) \/ StartRelease(p)
  BY <1>a, <1>4 DEF Unmark, StartRelease, Holds, LockerIs, SameFiles
<1>5. CASE ReadOwnNonce(p) \/ Unlock(p)
  BY <1>a, <1>5 DEF ReadOwnNonce, Unlock, Holds, LockerIs, SameFiles
<1>6. CASE MarkPublication(p)
  BY <1>0, <1>6 DEF MarkPublication, LockerRow
<1>7. CASE LinkPayload(p)
  <2>1. locker'[p].at = "unmark" /\ (locker'[p].won <=> lockFile = NoFile)
    BY <1>0, <1>7 DEF LinkPayload, LockerRow
  <2> QED
    BY <1>7, <2>1
<1>8. CASE ProbeOwner(p)
  <2>1. locker' = [locker EXCEPT ![p].at = "stat", ![p].read = lockFile] => To("stat")
    BY <1>0 DEF LockerRow
  <2> QED
    BY <1>a, <1>8, <2>1 DEF ProbeOwner, TriesAgain
<1>9. CASE StatLock(p)
  <2>1. locker' = [locker EXCEPT ![p].at = "claim", ![p].seen = lockFile] => To("claim")
    BY <1>0 DEF LockerRow
  <2> QED
    BY <1>a, <1>9, <2>1 DEF StatLock, ClaimFails, TriesAgain
<1>10. CASE CheckClaim(p)
  <2>1. locker' = [locker EXCEPT ![p].at = "unalias", ![p].won = FALSE] => To("unalias")
    BY <1>0 DEF LockerRow
  <2> QED
    BY <1>a, <1>10, <2>1 DEF CheckClaim, SameFiles
<1>11. CASE RemoveStale(p)
  BY <1>0, <1>11 DEF RemoveStale, LockerRow
<1> QED
  BY <1>1, <1>2, <1>3, <1>4, <1>5, <1>6, <1>7, <1>8, <1>9, <1>10, <1>11 DEF LockStep

LEMMA HolderKeepsFile ==
  ASSUME LockIInv, NEW p \in Locker, LockStep(p) \/ LockerDies(p), ~robbed'
  PROVE  HolderHasFile'
<1> SUFFICES ASSUME NEW l \in Locker, Holds(l)'
             PROVE  lockFile' = locker'[l].mine
  BY DEF HolderHasFile
<1>0. LockTypeOK /\ HolderHasFile /\ ClaimPins /\ NoFile \notin Written
  BY NotRobbed DEF LockIInv, Written, Inode, NoFile
<1>1. locker'[l].at \in {"hold", "leave", "unlock"} \/ (locker'[l].at = "unmark" /\ locker'[l].won)
  BY DEF Holds, LockerIs
<1>2. CASE l = p
  <2>1. CASE Holds(p) /\ UNCHANGED lockFile
    <3>1. locker'[p].mine = locker[p].mine
      BY <1>0, <1>1, <1>2, <2>1, StepLeads DEF Own, Breaking, Holds, LockerIs
    <3> QED
      BY <1>0, <1>2, <2>1, <3>1 DEF HolderHasFile
  <2>2. CASE LinkPayload(p) /\ lockFile = NoFile
    BY <1>0, <1>2, <2>2 DEF LinkPayload, LockTypeOK
  <2> QED
    BY <1>0, <1>1, <1>2, <2>1, <2>2, StepWins
<1>3. CASE l # p
  <2>1. locker'[l] = locker[l] /\ Holds(l)
    BY <1>0, <1>1, <1>3, StepIsApart, ApartKeeps DEF Holds, LockerIs
  <2>2. lockFile = locker[l].mine /\ lockFile \in Written /\ ownerOf[lockFile] = l /\ l # Dead
    BY <1>0, <2>1 DEF HolderHasFile, LockIInv, OwnsItsPayload, Holds, LockerIs
  <2>3. CASE LinkPayload(p)
    BY <1>0, <2>1, <2>2, <2>3 DEF LinkPayload
  <2>4. ~RemoveStale(p)
    BY <1>0, <2>2 DEF RemoveStale, LockerIs, ClaimPins, LockIInv, BreaksTheDead
  <2>5. ~Unlock(p)
    BY <1>0, <1>3, <2>2 DEF Unlock, LockerIs, HolderHasFile, Holds, LockIInv, OwnsItsPayload
  <2> QED
    BY <2>1, <2>2, <2>3, <2>4, <2>5, LinksMove
<1> QED
  BY <1>2, <1>3

LEMMA ClaimStaysPinned ==
  ASSUME LockIInv, NEW p \in Locker, LockStep(p) \/ LockerDies(p), ~robbed'
  PROVE  ClaimPins'
<1> SUFFICES ASSUME NEW l \in Locker, locker'[l].at \in {"check", "remove"}
             PROVE  aliasOf' = l /\ (locker'[l].at = "remove" => lockFile' = locker'[l].read)
  BY DEF ClaimPins
<1>0. LockTypeOK /\ HolderHasFile /\ ClaimPins /\ NoFile \notin Written
  BY NotRobbed DEF LockIInv, Written, Inode, NoFile
<1>2. CASE l = p
  <2>1. CASE locker'[p].at = "check"
    BY <1>0, <1>2, <2>1, StepWins
  <2>2. CASE locker'[p].at = "remove"
    <3>1. CheckClaim(p) /\ UNCHANGED <<lockFile, aliasOf>> /\ lockFile = locker[p].read
      BY <1>0, <2>2, StepWins
    <3>2. aliasOf = p
      BY <1>0, <3>1 DEF CheckClaim, LockerIs, ClaimPins
    <3>3. locker'[p].read = locker[p].read
      BY <1>0, <2>2, <3>1, StepLeads DEF CheckClaim, LockerIs, Own, Breaking, ProbeOwner, MarkPublication
    <3> QED
      BY <1>2, <2>2, <3>1, <3>2, <3>3
  <2> QED
    BY <1>2, <2>1, <2>2
<1>3. CASE l # p
  <2>1. locker'[l] = locker[l] /\ aliasOf = l /\ l # Dead /\ breakLink # NoFile
    BY <1>0, <1>3, StepIsApart, ApartKeeps DEF ClaimPins, LockIInv, LinksExist
  <2>2. aliasOf' = l
    BY <2>1, LinksMove, NotRobbed
  <2>3. ASSUME locker[l].at = "remove" PROVE UNCHANGED lockFile
    <3>1. lockFile = locker[l].read /\ lockFile \in Written /\ ownerOf[lockFile] = Dead
      BY <1>0, <2>3 DEF ClaimPins, LockIInv, BreaksTheDead
    <3>2. CASE LinkPayload(p)
      BY <1>0, <3>1, <3>2 DEF LinkPayload
    <3>3. ~RemoveStale(p)
      BY <1>0, <1>3, <2>1 DEF RemoveStale, LockerIs, ClaimPins
    <3>4. ~Unlock(p)
      BY <1>0, <3>1 DEF Unlock, LockerIs, HolderHasFile, Holds, LockIInv, OwnsItsPayload
    <3> QED
      BY <3>2, <3>3, <3>4, LinksMove
  <2>4. locker[l].at = "remove" => lockFile = locker[l].read
    BY <1>0 DEF ClaimPins
  <2> QED
    BY <2>1, <2>2, <2>3, <2>4
<1> QED
  BY <1>2, <1>3

LEMMA LockIInvStep == LockIInv /\ [LockNext]_lockVars => LockIInv'
<1> SUFFICES ASSUME LockIInv, [LockNext]_lockVars PROVE LockIInv'
  OBVIOUS
<1>1. CASE UNCHANGED lockVars
  BY <1>1 DEF lockVars, LockIInv, LockTypeOK, OwnsItsPayload, ContainerStands, BreaksTheDead, LinksExist,
              HolderHasFile, ClaimPins, Holds, LockerIs, Written
<1>2. CASE LockNext
  <2>1. PICK p \in Locker : LockStep(p) \/ LockerDies(p)
    BY <1>2 DEF LockNext
  <2>2. LinksExist' /\ robbed' \in BOOLEAN /\ tool' = tool /\ payloads' \subseteq containers'
    BY <2>1, FilesTyped
  <2>3. LockTypeOK'
    <3>1. /\ locker' \in [Locker -> LockerRow] /\ ownerOf' \in [Inode -> Locker \cup {Dead}]
          /\ nextInode' \in 1..(MaxInode + 1)
      BY <2>1, StepIsApart, ApartKeeps DEF LockIInv
    <3>2. /\ lockFile' \in Inode \cup {NoFile} /\ breakLink' \in Inode \cup {NoFile}
          /\ containers' \subseteq Inode
      BY <2>2 DEF LinksExist, Written
    <3> QED
      BY <2>2, <3>1, <3>2 DEF LockTypeOK, LockIInv, LockerRow
  <2> QED
    BY <2>1, <2>2, <2>3, PayloadsKept, ContainersStand, HolderKeepsFile, ClaimStaysPinned DEF LockIInv
<1> QED
  BY <1>1, <1>2

\* Whoever breaks a stale lock, one process at a time holds it and has its own file there,
\* until a breaker is robbed of its alias at its claim.
THEOREM LockIsExclusiveUnlessRobbed == LockSpec => []UpdateLockInv
<1>1. LockIInv /\ [LockNext]_lockVars => LockIInv'
  BY LockIInvStep
<1> QED
  BY <1>1, LockIInvInit, LockIInvExclusive, PTL DEF LockSpec
=============================================================================
