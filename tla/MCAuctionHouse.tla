--------------------------- MODULE MCAuctionHouse ---------------------------
(* Three players, one of whom has everything there is to sell.             *)
EXTENDS AuctionHouse

\* What theorems take for granted holds in these instances.
ASSUME SalesExample == ProfitsFit /\ SalesPay

Perms == Permutations(Players) \cup Permutations(Units)
=============================================================================
