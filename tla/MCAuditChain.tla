----------------------------- MODULE MCAuditChain -----------------------------
(* AuditChain for TLC: its writers and contents are interchangeable. *)
EXTENDS AuditChain, TLC

Interchangeable == Permutations(Writers) \cup Permutations(Contents)
===============================================================================
