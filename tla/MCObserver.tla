------------------------------ MODULE MCObserver ------------------------------
(* An observer, and decisions recorded for its node and for another. *)
EXTENDS Observer

TwoNodes == [p \in Processes |-> IF p = "r2" THEN "n2" ELSE "n1"]
===============================================================================
