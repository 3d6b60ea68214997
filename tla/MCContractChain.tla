------------------------- MODULE MCContractChain -------------------------
(* ContractChain for TLC.  Two branches from the genesis block; a1, a3 and *)
(* b1 hold contract transactions, one of a3's fails, and x names a false   *)
(* root.                                                                   *)
(*                                                                         *)
(*    g -- a1 -- a2 -- a3                                                  *)
(*     \-- b1 -- x                                                         *)
EXTENDS ContractChain, TLC

CONSTANTS g, a1, a2, a3, b1, x, t1, t2, bad

MCBlocks == {g, a1, a2, a3, b1, x}
MCParent == g :> g @@ a1 :> g @@ a2 :> a1 @@ a3 :> a2 @@ b1 :> g @@ x :> b1
MCHeight == g :> 0 @@ a1 :> 1 @@ a2 :> 2 @@ a3 :> 3 @@ b1 :> 1 @@ x :> 2
MCTxs == g :> << >> @@ a1 :> <<t1, t2>> @@ a2 :> << >> @@ a3 :> <<t1, bad>>
         @@ b1 :> <<t1>> @@ x :> <<t2>>
=============================================================================
