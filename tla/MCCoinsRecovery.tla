-------------------------- MODULE MCCoinsRecovery --------------------------
(***************************************************************************)
(* A genesis block g with two branches, a1-a2 and b1-b2.  a2 spends what   *)
(* a1 creates, b2 what b1 creates; b1 creates two outputs, so that a batch *)
(* can hold one of them.  a2 and b1 have contract transactions: a flush    *)
(* from a2 to g has a block without any to roll back on its way, one from  *)
(* b2 to g has a block with some.                                          *)
(***************************************************************************)
EXTENDS CoinsRecovery

CONSTANTS g, a1, a2, b1, b2, p, q, r, s

MCBlocks == {g, a1, a2, b1, b2}
MCOutPoints == {p, q, r, s}
MCParent == [b \in {a1, a2, b1, b2} |-> CASE b = a2 -> a1 [] b = b2 -> b1 [] OTHER -> g]
MCHeight == [b \in MCBlocks |-> CASE b = g -> 0 [] b \in {a1, b1} -> 1 [] OTHER -> 2]
MCGetAncestor == [b \in MCBlocks |-> [h \in 0..MCHeight[b] |->
    IF h = 0 THEN g ELSE IF h = MCHeight[b] THEN b ELSE MCParent[b]]]
MCSpends == [b \in MCBlocks |-> CASE b = a2 -> {p} [] b = b2 -> {r} [] OTHER -> {}]
MCCreates == [b \in MCBlocks |->
    CASE b = a1 -> {p} [] b = a2 -> {q} [] b = b1 -> {r, s} [] OTHER -> {}]
MCUtxo == [b \in MCBlocks |-> IF b = b2 THEN {s} ELSE MCCreates[b]]
MCRoot == [b \in MCBlocks |->
    CASE b = a2 -> <<a2>> [] b \in {b1, b2} -> <<b1>> [] OTHER -> << >>]
=============================================================================
