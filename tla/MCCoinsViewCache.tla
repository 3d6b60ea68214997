-------------------------- MODULE MCCoinsViewCache --------------------------
(* Two outpoints, two coins of different size, two blocks.                 *)
EXTENDS CoinsViewCache, TLC

CONSTANTS o1, o2, c1, c2, b1, b2

MCOutPoints == {o1, o2}
MCCoins == {c1, c2}
MCBlocks == {b1, b2}
MCUsage == (c1 :> 1) @@ (c2 :> 3)

Symmetric == Permutations({o1, o2}) \cup Permutations({b1, b2})
=============================================================================
