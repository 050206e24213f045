---------------------------- MODULE MappingStore ----------------------------
(***************************************************************************)
(* What the session store promises its callers: a map from slugs to native *)
(* conversation ids that is updated one slug at a time, until it has been  *)
(* disturbed; after that nothing is promised.  CoderSession uses the store *)
(* through this interface.                                                 *)
(***************************************************************************)
CONSTANTS Slug, Id, None

VARIABLES map, disturbed

Init ==
  /\ map \in [Slug -> Id \cup {None}]
  /\ disturbed = FALSE

\* One mapping is published or removed, the others stay.
Update ==
  /\ \E s \in Slug, v \in Id \cup {None} : map' = [map EXCEPT ![s] = v]
  /\ UNCHANGED disturbed

Disturb == disturbed' = TRUE /\ UNCHANGED map

Scramble ==
  /\ disturbed
  /\ map' \in [Slug -> Id \cup {None}]
  /\ UNCHANGED disturbed

Next == Update \/ Disturb \/ Scramble

Spec == Init /\ [][Next]_<<map, disturbed>>
=============================================================================
