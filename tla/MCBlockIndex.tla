---------------------------- MODULE MCBlockIndex ----------------------------
(***************************************************************************)
(* Instances of BlockIndex.  Tree has two branches, one of which forks     *)
(* again: a reorganisation, a block that waits for its parent, and blocks  *)
(* that fail on arrival (<<2, 2>>) and when connected (<<1, 1>>).  <<1>>   *)
(* can be pruned as a side branch before the candidate <<1, 1>> is tried,  *)
(* and come again.  RaceTree has a chain of three, so that one thread can  *)
(* move the tip beyond the block another is working towards.  All blocks   *)
(* have work 1.                                                            *)
(***************************************************************************)
EXTENDS BlockIndex

Tree == {<<>>, <<1>>, <<1, 1>>, <<2>>, <<2, 1>>, <<2, 2>>}
Work == [b \in Tree |-> Len(b)]

(* Addresses decide only between blocks with equal sequence ids, that is   *)
(* after a restart; either block of a tie may then be the tip.             *)
Upwards == [b \in Tree |-> CASE b = <<>> -> 0 [] b = <<1>> -> 1 [] b = <<2>> -> 2
                            [] b = <<1, 1>> -> 3 [] b = <<2, 1>> -> 4 [] b = <<2, 2>> -> 5]
OneOrder == {Upwards}
RejectedOnArrival == {<<2, 2>>}
RejectedWhenConnected == {<<1, 1>>}

(* The reverse sequence ids saturate at the second preciousblock. *)
MinSeq == -2
NoBlocks == {}

RaceTree == {<<>>, <<1>>, <<1, 1>>, <<2>>, <<2, 1>>, <<2, 1, 1>>}
RaceWork == [b \in RaceTree |-> Len(b)]
RaceOrders == {[b \in RaceTree |-> CASE b = <<>> -> 0 [] b = <<1>> -> 1 [] b = <<2>> -> 2
                            [] b = <<1, 1>> -> 3 [] b = <<2, 1>> -> 4 [] b = <<2, 1, 1>> -> 5]}
=============================================================================
