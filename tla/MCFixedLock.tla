---------------------------- MODULE MCFixedLock ----------------------------
(* Two processes; process a has two handles on the lock path, b one.  The  *)
(* pid of a is one digit longer than that of b.                            *)
EXTENDS FixedLock

CONSTANTS a, b, h1, h2, h3

Digits2 == [p \in {a, b} |-> IF p = a THEN 2 ELSE 1]
Owner3 == [h \in {h1, h2, h3} |-> IF h = h3 THEN b ELSE a]
=============================================================================
