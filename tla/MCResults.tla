----------------------------- MODULE MCResults -----------------------------
(* TLC instance of the three stores of results and processes.  They share  *)
(* no state, so a behaviour is one of one of them: `focus` says of which,  *)
(* and the others stay where they started.                                 *)
EXTENDS ResultRegistry, ResultQuarantine, OwnedProcessJournal

CONSTANTS k1, k2, x, y, h1, r1, q1, q2
VARIABLE focus

MCOneRun == [c \in QCall |-> r1]
MCOneHost == [c \in Call |-> h1]
MCConcerns == {<<k1, x>>, <<k2, x>>, <<k2, y>>}

ResultsInit ==
  /\ RegistryInit /\ QuarantineInit /\ JournalInit
  /\ focus \in {"registry", "quarantine", "journal"}
  /\ focus # "registry" => runDir.record = "own"

ResultsNext ==
  /\ UNCHANGED focus
  /\ \/ focus = "registry" /\ RegistryNext /\ UNCHANGED <<quarantineVars, journalVars>>
     \/ focus = "quarantine" /\ QuarantineNext /\ UNCHANGED <<registryVars, journalVars>>
     \/ focus = "journal" /\ JournalNext /\ UNCHANGED <<registryVars, quarantineVars>>

ResultsSpec == ResultsInit /\ [][ResultsNext]_<<focus, registryVars, quarantineVars, journalVars>>
=============================================================================
