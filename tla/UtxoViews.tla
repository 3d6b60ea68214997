----------------------------- MODULE UtxoViews -----------------------------
(***************************************************************************)
(* What the stack of coin views promises (src/src/coins.h, CCoinsView and  *)
(* CCoinsViewCache): each live view is a map from outpoints to coins plus  *)
(* a best block.  Writes change the topmost view only, Flush makes the     *)
(* view below equal to it, and destroying a view forgets what was not      *)
(* flushed.  Reading, filling a cache and evicting from it are invisible.  *)
(*                                                                         *)
(* View 0 is the coin database, view 1 is pcoinsTip, view 2 is the         *)
(* scratch view of ConnectTip, DisconnectTip and the mempool checks.       *)
(***************************************************************************)
EXTENDS Naturals

CONSTANTS
    OutPoints,      \* COutPoint
    Coins,          \* unspent Coin values
    NoCoin,         \* a spent (null) Coin
    Blocks,         \* block hashes
    NoBlock         \* the null uint256

VARIABLES
    utxo,           \* utxo[l][o]: the coin view l holds at o, NoCoin if none
    best,           \* best[l]: the block view l says it stands at
    live            \* the number of caches that exist above the database

absVars == <<utxo, best, live>>

Views == 0..2

(***************************************************************************)
(* A view that does not exist is kept equal to the topmost one that does,  *)
(* which is what a cache opened there would show.                          *)
(***************************************************************************)
Init ==
    /\ utxo \in [Views -> [OutPoints -> Coins \cup {NoCoin}]]
    /\ best \in [Views -> Blocks \cup {NoBlock}]
    /\ live = 0
    /\ \A l \in Views : utxo[l] = utxo[0] /\ best[l] = best[0]

Open ==
    /\ live < 2
    /\ live' = live + 1
    /\ UNCHANGED <<utxo, best>>

Discard ==
    /\ live > 0
    /\ live' = live - 1
    /\ utxo' = [l \in Views |-> IF l >= live THEN utxo[live - 1] ELSE utxo[l]]
    /\ best' = [l \in Views |-> IF l >= live THEN best[live - 1] ELSE best[l]]

Put(o, c) ==
    /\ live > 0
    /\ utxo' = [l \in Views |->
                   IF l >= live THEN [utxo[l] EXCEPT ![o] = c] ELSE utxo[l]]
    /\ UNCHANGED <<best, live>>

MoveBest(b) ==
    /\ live > 0
    /\ best' = [l \in Views |-> IF l >= live THEN b ELSE best[l]]
    /\ UNCHANGED <<utxo, live>>

Flush ==
    /\ live > 0
    /\ utxo' = [l \in Views |-> IF l >= live - 1 THEN utxo[live] ELSE utxo[l]]
    /\ best' = [l \in Views |-> IF l >= live - 1 THEN best[live] ELSE best[l]]
    /\ UNCHANGED live

Next ==
    \/ Open
    \/ Discard
    \/ \E o \in OutPoints, c \in Coins \cup {NoCoin} : Put(o, c)
    \/ \E b \in Blocks : MoveBest(b)
    \/ Flush

Spec == Init /\ [][Next]_absVars
=============================================================================
