----------------------------- MODULE MCMigrate -----------------------------
(* Processes for TLC: two of the present code, or two and one of the  *)
(* release that still had the watchlist.                                   *)
EXTENDS Migrate

CONSTANTS p1, p2, old

MCTwo == {p1, p2}
MCTwoCode == [p \in MCTwo |-> 4]
MCThree == {p1, p2, old}
MCThreeCode == [p \in MCThree |-> IF p = old THEN 3 ELSE 4]
=============================================================================
