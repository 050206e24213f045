------------------------------- MODULE MCRuns -------------------------------
(* TLC instance of what a run holds and what it leaves behind: MCResults   *)
(* and, as further components of their own, one run with every engine and  *)
(* up to two proxies, and two runs of a slug with a choice of engines.     *)
EXTENDS MCResults, CoderRun, TLC

CONSTANTS PairEngine
VARIABLE runs   \* 0, or how many runs there are

SameRuns == Permutations(Run)

RunsInit ==
  /\ ResultsInit /\ RunInit /\ runs \in 0..2
  /\ runs > 0 => focus = "journal"
  /\ runs = 0 => row = "absent" /\ identified

RunsNext ==
  /\ UNCHANGED runs
  /\ \/ runs = 0 /\ ResultsNext /\ UNCHANGED runVars
     \/ /\ runs > 0 /\ RunNext /\ UNCHANGED <<focus, registryVars, quarantineVars, journalVars>>
        /\ runs = 1 => \E r \in Run : run'[r] = NewRun
        /\ runs = 2 => \A r \in Run : run'[r].engine \in PairEngine \cup {"none"} /\ run'[r].needs = 0

RunsSpec == RunsInit /\ [][RunsNext]_<<runs, runVars, focus, registryVars, quarantineVars, journalVars>>
=============================================================================
