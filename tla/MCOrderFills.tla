----------------------------- MODULE MCOrderFills -----------------------------
(* Small instances of OrderFills for TLC. *)
EXTENDS OrderFills, TLC
CONSTANTS o1, o2, k1, s1, s2
=============================================================================
