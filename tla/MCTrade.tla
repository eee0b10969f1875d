------------------------------- MODULE MCTrade -------------------------------
(* Three players, of whom two can trade at a time.                         *)
EXTENDS Trade, TLC

Perms == Permutations(Players) \cup Permutations(Items) \cup Permutations(Slots)
=============================================================================
