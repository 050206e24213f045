--------------------------- MODULE MCCoderSession ---------------------------
(* Two runs and a clean in one long-lived server process p and a command   *)
(* process q; an engine with a store, and crush without.                   *)
EXTENDS CoderSession

CONSTANTS p, q, r1, r2, c1, omp, crush, s1, s2

OwnerProcess == [a \in Actor |-> IF a \in {r2, c1} THEN q ELSE p]

Ask(e, s, isolated) == [key |-> [engine |-> e, slug |-> s], isolated |-> isolated]

Anything == {Ask(omp, s1, FALSE), Ask(omp, s2, TRUE),
             Ask(crush, s1, TRUE), Ask(crush, s2, FALSE)}
InTree == {Ask(omp, s1, FALSE), Ask(crush, s2, FALSE)}
OneAsk == {Ask(omp, s1, TRUE)}
=============================================================================
