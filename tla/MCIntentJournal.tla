---------------------------- MODULE MCIntentJournal ----------------------------
(* Small instances of IntentJournal for TLC. *)
EXTENDS IntentJournal, TLC
CONSTANTS a, b, w1, w2, i1, i2, i3, i4, r1, r2

(* Intents, strategies, runs and rows are interchangeable. *)
Symmetry ==
    Permutations(Intents) \cup Permutations(Strategies) \cup Permutations(Runs)
        \cup Permutations(Rows)
=============================================================================
