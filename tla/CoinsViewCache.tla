--------------------------- MODULE CoinsViewCache ---------------------------
(***************************************************************************)
(* The write-back caches of the UTXO set: src/src/coins.cpp over the coin  *)
(* database of src/src/txdb.cpp.                                           *)
(*                                                                         *)
(* The program stacks at most two caches on the database: pcoinsTip        *)
(* (level 1) and a scratch view on top of it (level 2).  An entry carries  *)
(* the flags DIRTY (may differ from the view below) and FRESH (the view    *)
(* below has no unspent coin here), which decide what a flush writes,      *)
(* skips or erases.  The state of an entry is spread over three levels,    *)
(* so a wrong flag shows only several calls later.                         *)
(***************************************************************************)
EXTENDS Integers, Functions

CONSTANTS
    OutPoints, Coins, NoCoin, Blocks, NoBlock,
    NoEntry,        \* cacheCoins.find(o) == cacheCoins.end()
    Usage           \* Usage[c]: DynamicMemoryUsage of an unspent coin

ASSUME CoinsAssumption ==
    /\ NoCoin \notin Coins
    /\ NoBlock \notin Blocks
    /\ NoEntry \notin [coin : Coins \cup {NoCoin}, flags : SUBSET {"DIRTY", "FRESH"}]
    /\ Usage \in [Coins -> Nat]

VARIABLES
    db,                 \* the coin records of the database
    dbBest,             \* DB_BEST_BLOCK
    live,               \* how many caches exist: 0, 1 or 2
    cacheCoins,         \* cacheCoins[l][o]: entry of cache l at o, or NoEntry
    hashBlock,          \* hashBlock[l]: memoised best block of cache l
    cachedCoinsUsage    \* cachedCoinsUsage[l]: running total of coin sizes

vars == <<db, dbBest, live, cacheCoins, hashBlock, cachedCoinsUsage>>

Caches == 1..2
Coin == Coins \cup {NoCoin}
Flags == {"DIRTY", "FRESH"}
Entry == [coin : Coin, flags : SUBSET Flags]

TypeOK ==
    /\ db \in [OutPoints -> Coin]
    /\ dbBest \in Blocks \cup {NoBlock}
    /\ live \in 0..2
    /\ cacheCoins \in [Caches -> [OutPoints -> Entry \cup {NoEntry}]]
    /\ hashBlock \in [Caches -> Blocks \cup {NoBlock}]

-----------------------------------------------------------------------------
(* Reading through the stack.                                              *)

IsSpent(c) == c = NoCoin

DynamicMemoryUsage(c) == IF IsSpent(c) THEN 0 ELSE Usage[c]

EntryUsage(e) == IF e = NoEntry THEN 0 ELSE DynamicMemoryUsage(e.coin)

(* The coin a lookup at o finds when entry e shadows the value below.      *)
Shadow(e, below) == IF e = NoEntry THEN below ELSE e.coin

(* GetCoin at level l: the topmost cached entry at or under l, else the    *)
(* database record.  NoCoin stands for both "no record" and "spent":       *)
(* GetCoin returns false for either.                                       *)
CoinAt(l, o) ==
    IF l = 0 THEN db[o]
    ELSE IF l = 1 THEN Shadow(cacheCoins[1][o], db[o])
    ELSE Shadow(cacheCoins[2][o], Shadow(cacheCoins[1][o], db[o]))

(* GetBestBlock at level l: a null hashBlock defers to the view below.     *)
BestAt(l) ==
    IF l >= 2 /\ hashBlock[2] # NoBlock THEN hashBlock[2]
    ELSE IF l >= 1 /\ hashBlock[1] # NoBlock THEN hashBlock[1]
    ELSE dbBest

(* FetchCoin at level l asks the view below only on a miss, and so on      *)
(* down: every level passed on the way to an unspent coin keeps a clean    *)
(* copy of it.  (A base view never returns a spent coin from GetCoin, so   *)
(* the code's FRESH-on-fetch branch is not taken in this stack.)           *)
Fills(k, l, o) ==
    /\ k <= l
    /\ \A j \in Caches : k <= j /\ j <= l => cacheCoins[j][o] = NoEntry
    /\ ~IsSpent(CoinAt(k, o))

FetchCoin(l, o) ==
    [k \in Caches |->
        IF Fills(k, l, o)
        THEN [cacheCoins[k] EXCEPT ![o] = [coin |-> CoinAt(k, o), flags |-> {}]]
        ELSE cacheCoins[k]]

FetchUsage(l, o) ==
    [k \in Caches |->
        IF Fills(k, l, o)
        THEN cachedCoinsUsage[k] + DynamicMemoryUsage(CoinAt(k, o))
        ELSE cachedCoinsUsage[k]]

EmptyCache == [o \in OutPoints |-> NoEntry]

-----------------------------------------------------------------------------
Init ==
    /\ db \in [OutPoints -> Coin]
    /\ dbBest \in Blocks \cup {NoBlock}
    /\ live = 0
    /\ cacheCoins = [l \in Caches |-> EmptyCache]
    /\ hashBlock = [l \in Caches |-> NoBlock]
    /\ cachedCoinsUsage = [l \in Caches |-> 0]

(* Constructing a cache over the topmost view.                             *)
Open ==
    /\ live < 2
    /\ live' = live + 1
    /\ UNCHANGED <<db, dbBest, cacheCoins, hashBlock, cachedCoinsUsage>>

(* Destroying the topmost cache without flushing it: a failed ConnectTip,  *)
(* the scratch view of a mempool check, or the process dying.              *)
Discard ==
    /\ live > 0
    /\ live' = live - 1
    /\ cacheCoins' = [cacheCoins EXCEPT ![live] = EmptyCache]
    /\ hashBlock' = [hashBlock EXCEPT ![live] = NoBlock]
    /\ cachedCoinsUsage' = [cachedCoinsUsage EXCEPT ![live] = 0]
    /\ UNCHANGED <<db, dbBest>>

(* GetCoin, HaveCoin and AccessCoin: a read that fills the caches.         *)
GetCoin(l, o) ==
    /\ l <= live
    /\ cacheCoins' = FetchCoin(l, o)
    /\ cachedCoinsUsage' = FetchUsage(l, o)
    /\ UNCHANGED <<db, dbBest, live, hashBlock>>

(* Mutants of AddedFlags: a spent entry not yet written below is forgotten; *)
(* an overwriting coin is taken for a new one.                             *)
AddedFlags_ForgetsDirty(e, possible_overwrite) ==
    {"DIRTY"} \cup (IF possible_overwrite THEN {} ELSE {"FRESH"})

AddedFlags_AlwaysFresh(e, possible_overwrite) == {"DIRTY", "FRESH"}

(* AddCoin's new flags: when nothing unspent can exist here, the coin is   *)
(* FRESH unless a spent entry still has to be written to the level below.  *)
AddedFlags(e, possible_overwrite) ==
    LET had == IF e = NoEntry THEN {} ELSE e.flags
        fresh == ~possible_overwrite /\ "DIRTY" \notin had
    IN  had \cup {"DIRTY"} \cup (IF fresh THEN {"FRESH"} ELSE {})

(* AddCoin on the topmost cache.  potential_overwrite may be false only    *)
(* when no unspent coin exists here (coins.h): ApplyTxInUndo asks HaveCoin *)
(* first, and UpdateCoins relies on the transaction id being new.          *)
AddCoin(o, c, possible_overwrite) ==
    LET e == cacheCoins[live][o] IN
    /\ live > 0
    /\ possible_overwrite \/ IsSpent(CoinAt(live, o))
    /\ cacheCoins' = [cacheCoins EXCEPT ![live][o] =
                        [coin |-> c, flags |-> AddedFlags(e, possible_overwrite)]]
    /\ cachedCoinsUsage' = [cachedCoinsUsage EXCEPT ![live] =
                        @ - EntryUsage(e) + DynamicMemoryUsage(c)]
    /\ UNCHANGED <<db, dbBest, live, hashBlock>>

(* What SpendCoin leaves in place of a cached entry.                       *)
SpentEntry(e) ==
    IF "FRESH" \in e.flags
    THEN NoEntry
    ELSE [coin |-> NoCoin, flags |-> e.flags \cup {"DIRTY"}]

(* SpendCoin on the topmost cache: fetch, then erase or clear the entry.   *)
SpendCoin(o) ==
    LET fetched == FetchCoin(live, o)
        usage == FetchUsage(live, o)
        e == fetched[live][o]
    IN
    /\ live > 0
    /\ IF e = NoEntry
       THEN cacheCoins' = fetched /\ cachedCoinsUsage' = usage
       ELSE /\ cacheCoins' = [fetched EXCEPT ![live][o] = SpentEntry(e)]
            /\ cachedCoinsUsage' = [usage EXCEPT ![live] = @ - EntryUsage(e)]
    /\ UNCHANGED <<db, dbBest, live, hashBlock>>

(* Mutants of Uncache: the running total is not reduced; a dirty entry is  *)
(* dropped.                                                                *)
Uncache_KeepsUsage(l, o) ==
    /\ l <= live
    /\ cacheCoins[l][o] # NoEntry
    /\ cacheCoins[l][o].flags = {}
    /\ cacheCoins' = [cacheCoins EXCEPT ![l][o] = NoEntry]
    /\ UNCHANGED <<db, dbBest, live, hashBlock, cachedCoinsUsage>>

Uncache_DropsDirty(l, o) ==
    /\ l <= live
    /\ cacheCoins[l][o] # NoEntry
    /\ cacheCoins' = [cacheCoins EXCEPT ![l][o] = NoEntry]
    /\ cachedCoinsUsage' = [cachedCoinsUsage EXCEPT ![l] = @ - EntryUsage(cacheCoins[l][o])]
    /\ UNCHANGED <<db, dbBest, live, hashBlock>>

(* Uncache: only an unmodified entry may be dropped.                       *)
Uncache(l, o) ==
    LET e == cacheCoins[l][o] IN
    /\ l <= live
    /\ e # NoEntry
    /\ e.flags = {}
    /\ cacheCoins' = [cacheCoins EXCEPT ![l][o] = NoEntry]
    /\ cachedCoinsUsage' = [cachedCoinsUsage EXCEPT ![l] = @ - EntryUsage(e)]
    /\ UNCHANGED <<db, dbBest, live, hashBlock>>

(* GetBestBlock memoises the answer at every level it passes.              *)
GetBestBlock(l) ==
    /\ l <= live
    /\ hashBlock' = [k \in Caches |->
            IF k <= l /\ \A j \in Caches : k <= j /\ j <= l => hashBlock[j] = NoBlock
            THEN BestAt(k)
            ELSE hashBlock[k]]
    /\ UNCHANGED <<db, dbBest, live, cacheCoins, cachedCoinsUsage>>

SetBestBlock(b) ==
    /\ live > 0
    /\ hashBlock' = [hashBlock EXCEPT ![live] = b]
    /\ UNCHANGED <<db, dbBest, live, cacheCoins, cachedCoinsUsage>>

-----------------------------------------------------------------------------
(* BatchWrite into a parent cache, one entry: it is the child's entry and  *)
(* us the parent's.                                                        *)
MergedEntry(it, us) ==
    IF it = NoEntry \/ "DIRTY" \notin it.flags THEN us
    ELSE IF us = NoEntry
         THEN IF "FRESH" \in it.flags /\ IsSpent(it.coin) THEN NoEntry ELSE it
    ELSE IF "FRESH" \in us.flags /\ IsSpent(it.coin) THEN NoEntry
    ELSE [coin |-> it.coin, flags |-> us.flags \cup {"DIRTY"}]

(* BatchWrite throws logic_error for an entry that is FRESH although the   *)
(* parent holds an unspent coin.                                           *)
FreshMisapplied(it, us) ==
    /\ it # NoEntry /\ us # NoEntry
    /\ {"DIRTY", "FRESH"} \subseteq it.flags
    /\ ~IsSpent(us.coin)

(* BatchWrite into the database, one entry: only dirty entries are         *)
(* written, a spent coin erases the record.                                *)
WrittenCoin(it, old) ==
    IF it = NoEntry \/ "DIRTY" \notin it.flags THEN old ELSE it.coin

(* The callers flush a view that knows its block: ConnectBlock and         *)
(* DisconnectBlock have called SetBestBlock, FlushStateToDisk has asked    *)
(* GetBestBlock, and CCoinsViewDB::BatchWrite asserts it.                  *)
Flushable == live > 0 /\ hashBlock[live] # NoBlock

(* The running total after merging entry by entry.                         *)
MergedUsage ==
    cachedCoinsUsage[1] + SumFunction([o \in OutPoints |->
        EntryUsage(MergedEntry(cacheCoins[2][o], cacheCoins[1][o]))
            - EntryUsage(cacheCoins[1][o])])

(* Flush of the scratch view into pcoinsTip.                               *)
FlushView ==
    /\ live = 2
    /\ Flushable
    /\ \A o \in OutPoints : ~FreshMisapplied(cacheCoins[2][o], cacheCoins[1][o])
    /\ cacheCoins' = [cacheCoins EXCEPT
            ![1] = [o \in OutPoints |-> MergedEntry(cacheCoins[2][o], cacheCoins[1][o])],
            ![2] = EmptyCache]
    /\ hashBlock' = [hashBlock EXCEPT ![1] = hashBlock[2]]
    /\ cachedCoinsUsage' = [cachedCoinsUsage EXCEPT ![1] = MergedUsage, ![2] = 0]
    /\ UNCHANGED <<db, dbBest, live>>

(* Flush of pcoinsTip into the database.  The batches of one BatchWrite    *)
(* are a single step here; CoinsRecovery splits them and lets the process  *)
(* die between two.                                                        *)
FlushTip ==
    /\ live = 1
    /\ Flushable
    /\ db' = [o \in OutPoints |-> WrittenCoin(cacheCoins[1][o], db[o])]
    /\ dbBest' = hashBlock[1]
    /\ cacheCoins' = [cacheCoins EXCEPT ![1] = EmptyCache]
    /\ cachedCoinsUsage' = [cachedCoinsUsage EXCEPT ![1] = 0]
    /\ UNCHANGED <<live, hashBlock>>

Next ==
    \/ Open
    \/ Discard
    \/ \E l \in Caches, o \in OutPoints : GetCoin(l, o)
    \/ \E o \in OutPoints, c \in Coins, b \in BOOLEAN : AddCoin(o, c, b)
    \/ \E o \in OutPoints : SpendCoin(o)
    \/ \E l \in Caches, o \in OutPoints : Uncache(l, o)
    \/ \E l \in Caches : GetBestBlock(l)
    \/ \E b \in Blocks : SetBestBlock(b)
    \/ FlushView
    \/ FlushTip

Spec == Init /\ [][Next]_vars

-----------------------------------------------------------------------------
(* Correctness.                                                            *)

(* An entry whose flags agree with the coin of the view below it.          *)
Honest(e, below) ==
    e # NoEntry =>
        /\ "DIRTY" \notin e.flags => e.coin = below
        /\ "FRESH" \in e.flags => IsSpent(below)

(* The flags tell the truth at every level and at all times: an entry that *)
(* is not DIRTY equals what the view below shows, and a FRESH entry sits   *)
(* over nothing unspent.  This is what the comments of CCoinsCacheEntry    *)
(* say (coins.h:109-110), and what lets SpendCoin and BatchWrite erase an  *)
(* entry without telling the level below.                                  *)
FlagsHonest ==
    \A l \in Caches, o \in OutPoints : Honest(cacheCoins[l][o], CoinAt(l - 1, o))

(* A cache that does not exist holds nothing and remembers no block, so    *)
(* that opening one later shows the view below (coins.cpp:34).             *)
DeadCachesEmpty ==
    \A l \in Caches :
        l > live => cacheCoins[l] = EmptyCache /\ hashBlock[l] = NoBlock

(* Flushing the scratch view never throws "FRESH flag misapplied to cache  *)
(* entry for base transaction with spendable outputs" (coins.cpp:175).     *)
NoLogicError ==
    \A o \in OutPoints : ~FreshMisapplied(cacheCoins[2][o], cacheCoins[1][o])

(* cachedCoinsUsage, adjusted piecemeal by every operation, always equals  *)
(* the total of the cached coins' sizes.  FlushStateToDisk decides from it *)
(* when the cache must be written.                                         *)
UsageExact ==
    \A l \in Caches :
        cachedCoinsUsage[l] =
            SumFunction([o \in OutPoints |-> EntryUsage(cacheCoins[l][o])])

(* The caches implement plain views: whatever is filled, evicted, merged   *)
(* or skipped, each level shows exactly the coins written to it, and a     *)
(* flush makes the level below show the same.                              *)
Views == INSTANCE UtxoViews WITH
    utxo <- [l \in 0..2 |-> [o \in OutPoints |-> CoinAt(l, o)]],
    best <- [l \in 0..2 |-> BestAt(l)]

ImplementsViews == Views!Spec
=============================================================================
