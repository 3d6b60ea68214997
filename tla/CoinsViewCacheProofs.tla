------------------------ MODULE CoinsViewCacheProofs ------------------------
(***************************************************************************)
(* Proofs about CoinsViewCache, for any sets of outpoints, coins and       *)
(* blocks.  FlagsHonest together with the types and the emptiness of the   *)
(* caches that do not exist is inductive; it yields that a flush never     *)
(* throws, and that the stack of caches implements plain views.            *)
(***************************************************************************)
EXTENDS CoinsViewCache, TLAPS

(* The inductive invariant.                                                *)
IInv == TypeOK /\ DeadCachesEmpty /\ FlagsHonest

CacheEntry == Entry \cup {NoEntry}

(* FlagsHonest with the two levels written out.                            *)
LEMMA HonestLevels ==
    FlagsHonest <=>
        \A o \in OutPoints :
            /\ Honest(cacheCoins[1][o], db[o])
            /\ Honest(cacheCoins[2][o], Shadow(cacheCoins[1][o], db[o]))
  BY DEF FlagsHonest, CoinAt, Caches

(* What a lookup in the stack finds is a coin or NoCoin.                   *)
LEMMA CoinAtType ==
    ASSUME TypeOK, NEW l \in 0..2, NEW o \in OutPoints
    PROVE  CoinAt(l, o) \in Coin
  BY CoinsAssumption DEF TypeOK, CoinAt, Shadow, Entry, Coin, Caches

(* Merging a child's entry into the parent cache (BatchWrite, coins.cpp:   *)
(* 145-201) makes the parent show the child's coin, and leaves the         *)
(* parent's flags truthful about the level below it.                       *)
LEMMA MergeShowsChild ==
    ASSUME NEW it \in CacheEntry, NEW us \in CacheEntry, NEW below \in Coin,
           Honest(us, below), Honest(it, Shadow(us, below)),
           ~FreshMisapplied(it, us)
    PROVE  /\ MergedEntry(it, us) \in CacheEntry
           /\ Honest(MergedEntry(it, us), below)
           /\ Shadow(MergedEntry(it, us), below) = Shadow(it, Shadow(us, below))
  BY CoinsAssumption
     DEF CacheEntry, Entry, Coin, Flags, Honest, Shadow, MergedEntry,
         FreshMisapplied, IsSpent

(* A truthful FRESH flag is never misapplied.                              *)
LEMMA HonestNotMisapplied ==
    ASSUME NEW it \in CacheEntry, NEW us \in CacheEntry, NEW below \in Coin,
           Honest(it, Shadow(us, below))
    PROVE  ~FreshMisapplied(it, us)
  BY DEF CacheEntry, Honest, Shadow, FreshMisapplied, IsSpent

(* Writing a dirty entry to the database makes it show the entry's coin.   *)
LEMMA WriteShowsEntry ==
    ASSUME NEW it \in CacheEntry, NEW old \in Coin, Honest(it, old)
    PROVE  /\ WrittenCoin(it, old) \in Coin
           /\ WrittenCoin(it, old) = Shadow(it, old)
  BY DEF CacheEntry, Entry, Coin, Honest, WrittenCoin, Shadow

-----------------------------------------------------------------------------
(* FetchCoin leaves what every level shows unchanged, and the flags        *)
(* truthful: the entries it adds are clean copies.                         *)
LEMMA FetchInvisible ==
    ASSUME IInv, NEW l \in Caches, NEW o \in OutPoints, l <= live
    PROVE  LET cc == FetchCoin(l, o) IN
           /\ cc \in [Caches -> [OutPoints -> CacheEntry]]
           /\ \A k \in Caches : k > live => cc[k] = cacheCoins[k]
           /\ \A k \in Caches, p \in OutPoints : p # o => cc[k][p] = cacheCoins[k][p]
           /\ Shadow(cc[1][o], db[o]) = CoinAt(1, o)
           /\ Shadow(cc[2][o], CoinAt(1, o)) = CoinAt(2, o)
           /\ Honest(cc[1][o], db[o])
           /\ Honest(cc[2][o], CoinAt(1, o))
           /\ cc[l][o] # NoEntry => cc[l][o].coin = CoinAt(l, o)
           /\ cc[l][o] = NoEntry => IsSpent(CoinAt(l, o))
  <1> DEFINE cc == FetchCoin(l, o)
  <1>1. CoinAt(1, o) \in Coin /\ CoinAt(2, o) \in Coin
    BY CoinAtType DEF IInv
  <1>2. cc \in [Caches -> [OutPoints -> CacheEntry]]
    BY <1>1 DEF IInv, TypeOK, FetchCoin, CacheEntry, Entry, Caches
  <1>3. \A k \in Caches : k > live => cc[k] = cacheCoins[k]
    BY DEF IInv, TypeOK, FetchCoin, Fills, Caches
  <1>4. \A k \in Caches, p \in OutPoints : p # o => cc[k][p] = cacheCoins[k][p]
    BY DEF IInv, TypeOK, FetchCoin
  <1>5. /\ Honest(cacheCoins[1][o], db[o])
        /\ Honest(cacheCoins[2][o], Shadow(cacheCoins[1][o], db[o]))
    BY HonestLevels DEF IInv
  <1>6. ASSUME NEW k \in Caches
        PROVE  cc[k][o] = IF Fills(k, l, o)
                          THEN [coin |-> CoinAt(k, o), flags |-> {}]
                          ELSE cacheCoins[k][o]
    BY DEF IInv, TypeOK, FetchCoin
  <1>7. [coin |-> CoinAt(1, o), flags |-> {}] # NoEntry
        /\ [coin |-> CoinAt(2, o), flags |-> {}] # NoEntry
    BY <1>1, CoinsAssumption DEF Coin
  <1>8. CoinAt(1, o) = Shadow(cacheCoins[1][o], db[o])
        /\ CoinAt(2, o) = Shadow(cacheCoins[2][o], CoinAt(1, o))
    BY DEF CoinAt
  <1>9. cc[1][o] = IF Fills(1, l, o)
                   THEN [coin |-> CoinAt(1, o), flags |-> {}]
                   ELSE cacheCoins[1][o]
    BY <1>6 DEF Caches
  <1>10. cc[2][o] = IF Fills(2, l, o)
                    THEN [coin |-> CoinAt(2, o), flags |-> {}]
                    ELSE cacheCoins[2][o]
    BY <1>6 DEF Caches
  <1>11. Fills(1, l, o) => cacheCoins[1][o] = NoEntry
    BY DEF Fills, Caches
  <1>12. Fills(2, l, o) => cacheCoins[2][o] = NoEntry
    BY DEF Fills, Caches
  <1>13. Shadow(cc[1][o], db[o]) = CoinAt(1, o) /\ Honest(cc[1][o], db[o])
    BY <1>5, <1>7, <1>8, <1>9, <1>11 DEF Shadow, Honest
  <1>14. Shadow(cc[2][o], CoinAt(1, o)) = CoinAt(2, o) /\ Honest(cc[2][o], CoinAt(1, o))
    BY <1>5, <1>7, <1>8, <1>10, <1>12 DEF Shadow, Honest
  <1>15. cc[l][o] # NoEntry => cc[l][o].coin = CoinAt(l, o)
    <2>1. CASE l = 1
      BY <2>1, <1>8, <1>13 DEF Shadow
    <2>2. CASE l = 2
      BY <2>2, <1>8, <1>14 DEF Shadow
    <2> QED BY <2>1, <2>2 DEF Caches
  <1>16. cc[l][o] = NoEntry => IsSpent(CoinAt(l, o))
    <2>1. cc[l][o] = NoEntry => ~Fills(l, l, o) /\ cacheCoins[l][o] = NoEntry
      BY <1>6, <1>7 DEF Caches
    <2>2. cacheCoins[l][o] = NoEntry /\ ~IsSpent(CoinAt(l, o)) => Fills(l, l, o)
      BY DEF Fills, Caches
    <2> QED BY <2>1, <2>2
  <1> QED
    BY <1>2, <1>3, <1>4, <1>13, <1>14, <1>15, <1>16

-----------------------------------------------------------------------------
(* The stack as plain views: the state of UtxoViews it stands for.         *)
UtxoOf == [l \in 0..2 |-> [o \in OutPoints |-> CoinAt(l, o)]]
BestOf == [l \in 0..2 |-> BestAt(l)]

(* The invariant, level by level, as the action proofs use it.             *)
LEMMA Unfold ==
    IInv <=>
        /\ TypeOK
        /\ live < 1 => cacheCoins[1] = EmptyCache /\ hashBlock[1] = NoBlock
        /\ live < 2 => cacheCoins[2] = EmptyCache /\ hashBlock[2] = NoBlock
        /\ \A o \in OutPoints :
            /\ Honest(cacheCoins[1][o], db[o])
            /\ Honest(cacheCoins[2][o], Shadow(cacheCoins[1][o], db[o]))
  <1>1. TypeOK => (DeadCachesEmpty <=>
          /\ live < 1 => cacheCoins[1] = EmptyCache /\ hashBlock[1] = NoBlock
          /\ live < 2 => cacheCoins[2] = EmptyCache /\ hashBlock[2] = NoBlock)
    BY DEF TypeOK, DeadCachesEmpty, Caches
  <1> QED BY <1>1, HonestLevels DEF IInv

-----------------------------------------------------------------------------
(* One lemma per action: the invariant is kept, and the step is one of     *)
(* UtxoViews or changes nothing there.                                     *)

LEMMA OpenStep == ASSUME IInv, Open PROVE IInv' /\ Views!Open
  <1>1. IInv'
    <2>1. TypeOK' BY DEF IInv, TypeOK, Open
    <2>2. DeadCachesEmpty' BY DEF IInv, TypeOK, DeadCachesEmpty, Open, Caches, EmptyCache
    <2>3. FlagsHonest' BY DEF IInv, FlagsHonest, Open, CoinAt
    <2> QED BY <2>1, <2>2, <2>3 DEF IInv
  <1>2. Views!Open
    BY DEF IInv, Open, Views!Open, CoinAt, BestAt
  <1> QED BY <1>1, <1>2

LEMMA DiscardStep == ASSUME IInv, Discard PROVE IInv' /\ Views!Discard
  <1>1. live \in {1, 2} /\ live' = live - 1
    BY DEF IInv, TypeOK, Discard
  <1>2. EmptyCache \in [OutPoints -> CacheEntry]
    BY DEF EmptyCache, CacheEntry
  <1>3. TypeOK'
    BY <1>1, <1>2 DEF IInv, TypeOK, Discard, Caches, CacheEntry
  <1>4. /\ live = 1 => cacheCoins'[1] = EmptyCache /\ cacheCoins'[2] = EmptyCache
                      /\ hashBlock'[1] = NoBlock /\ hashBlock'[2] = NoBlock
        /\ live = 2 => cacheCoins'[1] = cacheCoins[1] /\ cacheCoins'[2] = EmptyCache
                      /\ hashBlock'[1] = hashBlock[1] /\ hashBlock'[2] = NoBlock
        /\ db' = db /\ dbBest' = dbBest
    BY <1>1, Unfold DEF TypeOK, Discard, Caches
  <1>5. IInv'
    <2>1. \A o \in OutPoints : EmptyCache[o] = NoEntry
      BY DEF EmptyCache
    <2>2. \A o \in OutPoints :
            /\ Honest(cacheCoins[1][o], db[o])'
            /\ Honest(cacheCoins[2][o], Shadow(cacheCoins[1][o], db[o]))'
      BY <1>1, <1>4, <2>1, Unfold DEF Honest
    <2>3. DeadCachesEmpty'
      BY <1>1, <1>4 DEF DeadCachesEmpty, Caches, EmptyCache
    <2>4. FlagsHonest'
      BY <2>2 DEF FlagsHonest, CoinAt, Caches
    <2> QED BY <1>3, <2>3, <2>4 DEF IInv
  <1>6. \A o \in OutPoints :
          /\ CoinAt(0, o)' = CoinAt(0, o)
          /\ CoinAt(1, o)' = IF live = 1 THEN CoinAt(0, o) ELSE CoinAt(1, o)
          /\ CoinAt(2, o)' = CoinAt(live - 1, o)
    BY <1>1, <1>4 DEF CoinAt, Shadow, EmptyCache
  <1>7. UtxoOf' = [l \in 0..2 |-> IF l >= live THEN UtxoOf[live - 1] ELSE UtxoOf[l]]
    BY <1>1, <1>6 DEF UtxoOf
  <1>8. BestOf' = [l \in 0..2 |-> IF l >= live THEN BestOf[live - 1] ELSE BestOf[l]]
    BY <1>1, <1>4 DEF BestOf, BestAt
  <1> QED
    BY <1>1, <1>5, <1>7, <1>8 DEF Views!Discard, Views!Views, UtxoOf, BestOf

(* Reading changes nothing a view shows (coins.cpp:40-64, 116-128).        *)
LEMMA GetCoinStep ==
    ASSUME IInv, NEW l \in Caches, NEW o \in OutPoints, GetCoin(l, o)
    PROVE  IInv' /\ UNCHANGED <<UtxoOf, BestOf, live>>
  <1>1. /\ cacheCoins' = FetchCoin(l, o) /\ l <= live
        /\ UNCHANGED <<db, dbBest, live, hashBlock>>
    BY DEF GetCoin
  <1>2. /\ cacheCoins' \in [Caches -> [OutPoints -> CacheEntry]]
        /\ \A k \in Caches : k > live => cacheCoins'[k] = cacheCoins[k]
        /\ \A k \in Caches, p \in OutPoints :
             p # o => cacheCoins'[k][p] = cacheCoins[k][p]
        /\ Shadow(cacheCoins'[1][o], db[o]) = CoinAt(1, o)
        /\ Shadow(cacheCoins'[2][o], CoinAt(1, o)) = CoinAt(2, o)
        /\ Honest(cacheCoins'[1][o], db[o])
        /\ Honest(cacheCoins'[2][o], CoinAt(1, o))
    BY <1>1, FetchInvisible
  <1>3. TypeOK' /\ DeadCachesEmpty'
    BY <1>1, <1>2
    DEF IInv, TypeOK, DeadCachesEmpty, CacheEntry, EmptyCache
  <1>4. \A p \in OutPoints :
          /\ CoinAt(0, p)' = CoinAt(0, p)
          /\ CoinAt(1, p)' = CoinAt(1, p)
          /\ CoinAt(2, p)' = CoinAt(2, p)
    BY <1>1, <1>2 DEF CoinAt, Shadow, Caches
  <1>5. \A p \in OutPoints :
          /\ Honest(cacheCoins'[1][p], CoinAt(0, p))
          /\ Honest(cacheCoins'[2][p], CoinAt(1, p))
    BY <1>2, Unfold DEF CoinAt, Caches
  <1>6. FlagsHonest'
    BY <1>4, <1>5 DEF FlagsHonest, Honest, Caches
  <1>7. UtxoOf' = UtxoOf
    BY <1>4 DEF UtxoOf
  <1>8. BestOf' = BestOf
    BY <1>1 DEF BestOf, BestAt
  <1> QED BY <1>1, <1>3, <1>6, <1>7, <1>8 DEF IInv

(* A step that changes only outpoint o, truthfully, and nothing that the   *)
(* levels under the topmost show, is a write of what the topmost cache     *)
(* then shows at o.                                                        *)
LEMMA TopStep ==
    ASSUME IInv, live > 0, NEW o \in OutPoints,
           UNCHANGED <<db, dbBest, live, hashBlock>>,
           cacheCoins' \in [Caches -> [OutPoints -> CacheEntry]],
           \A k \in Caches : k > live => cacheCoins'[k] = cacheCoins[k],
           \A k \in Caches, p \in OutPoints :
               p # o => cacheCoins'[k][p] = cacheCoins[k][p],
           live = 2 => /\ Shadow(cacheCoins'[1][o], db[o]) = CoinAt(1, o)
                       /\ Honest(cacheCoins'[1][o], db[o]),
           Honest(cacheCoins'[live][o], CoinAt(live - 1, o))
    PROVE  /\ IInv'
           /\ Views!Put(o, Shadow(cacheCoins'[live][o], CoinAt(live - 1, o)))
  <1> DEFINE c == Shadow(cacheCoins'[live][o], CoinAt(live - 1, o))
  <1>1. live \in {1, 2}
    BY DEF IInv, TypeOK
  <1>2. live = 1 => cacheCoins[2] = EmptyCache /\ cacheCoins'[2] = EmptyCache
    BY Unfold DEF Caches
  <1>3. \A p \in OutPoints : EmptyCache[p] = NoEntry
    BY DEF EmptyCache
  <1>4. \A p \in OutPoints :
          /\ CoinAt(0, p)' = CoinAt(0, p)
          /\ CoinAt(1, p)' = IF live = 1 /\ p = o THEN c ELSE CoinAt(1, p)
          /\ CoinAt(2, p)' = IF p = o THEN c ELSE CoinAt(2, p)
    BY <1>1, <1>2, <1>3 DEF CoinAt, Shadow, Caches
  <1>5. \A p \in OutPoints :
          /\ Honest(cacheCoins'[1][p], CoinAt(0, p))
          /\ Honest(cacheCoins'[2][p], IF live = 1 /\ p = o THEN c ELSE CoinAt(1, p))
    <2>1. \A p \in OutPoints : Honest(cacheCoins'[1][p], CoinAt(0, p))
      <3>1. Honest(cacheCoins'[1][o], CoinAt(0, o))
        BY <1>1 DEF CoinAt
      <3>2. \A p \in OutPoints : p # o => Honest(cacheCoins'[1][p], CoinAt(0, p))
        BY Unfold DEF CoinAt, Caches
      <3> QED BY <3>1, <3>2
    <2>2. CASE live = 1
      BY <2>1, <2>2, <1>2, <1>3 DEF Honest
    <2>3. CASE live = 2
      <3>1. Honest(cacheCoins'[2][o], CoinAt(1, o))
        BY <2>3 DEF CoinAt
      <3>2. \A p \in OutPoints : p # o => Honest(cacheCoins'[2][p], CoinAt(1, p))
        BY Unfold DEF CoinAt, Caches
      <3> QED BY <2>1, <2>3, <3>1, <3>2
    <2> QED BY <1>1, <2>2, <2>3
  <1>6. FlagsHonest'
    BY <1>4, <1>5 DEF FlagsHonest, Honest, Caches
  <1>7. TypeOK' /\ DeadCachesEmpty'
    BY DEF IInv, TypeOK, DeadCachesEmpty, CacheEntry, EmptyCache
  <1>8. UtxoOf' = [l \in 0..2 |-> IF l >= live
                                  THEN [UtxoOf[l] EXCEPT ![o] = c]
                                  ELSE UtxoOf[l]]
    <2>1. ASSUME NEW l \in 0..2
          PROVE  UtxoOf'[l] = IF l >= live THEN [UtxoOf[l] EXCEPT ![o] = c] ELSE UtxoOf[l]
      <3> HIDE DEF c
      <3>1. ASSUME NEW p \in OutPoints
            PROVE  CoinAt(l, p)' = IF l >= live /\ p = o THEN c ELSE CoinAt(l, p)
        BY <1>1, <1>4
      <3> QED BY <1>1, <3>1 DEF UtxoOf
    <2> HIDE DEF c
    <2> QED BY <2>1 DEF UtxoOf
  <1>9. BestOf' = BestOf
    BY DEF BestOf, BestAt
  <1> HIDE DEF c
  <1>10. Views!Put(o, c)
    BY <1>8, <1>9 DEF Views!Put, Views!Views, UtxoOf, BestOf
  <1> QED BY <1>6, <1>7, <1>10 DEF IInv, c

(* AddCoin (coins.cpp:66-85) writes its coin.                              *)
LEMMA AddCoinStep ==
    ASSUME IInv, NEW o \in OutPoints, NEW c \in Coins, NEW b \in BOOLEAN,
           AddCoin(o, c, b)
    PROVE  IInv' /\ Views!Put(o, c)
  <1> DEFINE e == cacheCoins[live][o]
             n == [coin |-> c, flags |-> AddedFlags(e, b)]
  <1>1. /\ live \in {1, 2} /\ live > 0
        /\ b \/ IsSpent(CoinAt(live, o))
        /\ cacheCoins' = [cacheCoins EXCEPT ![live][o] = n]
        /\ UNCHANGED <<db, dbBest, live, hashBlock>>
    BY DEF AddCoin, IInv, TypeOK
  <1>2. e \in CacheEntry
    BY <1>1 DEF IInv, TypeOK, CacheEntry, Caches
  <1>3. n \in Entry /\ n # NoEntry
    BY <1>2, CoinsAssumption DEF Entry, CacheEntry, Coin, Flags, AddedFlags
  <1>4. /\ cacheCoins' \in [Caches -> [OutPoints -> CacheEntry]]
        /\ cacheCoins'[live][o] = n
        /\ \A k \in Caches : k # live => cacheCoins'[k] = cacheCoins[k]
        /\ \A k \in Caches, p \in OutPoints :
             p # o => cacheCoins'[k][p] = cacheCoins[k][p]
    BY <1>1, <1>3 DEF IInv, TypeOK, CacheEntry, Caches
  <1>5. Honest(e, CoinAt(live - 1, o)) /\ CoinAt(live, o) = Shadow(e, CoinAt(live - 1, o))
    BY <1>1, Unfold DEF CoinAt
  <1>6. Honest(n, CoinAt(live - 1, o))
    BY <1>1, <1>2, <1>5 DEF Honest, AddedFlags, Shadow, IsSpent, CacheEntry, Entry
  <1>7. live = 2 => /\ Shadow(cacheCoins'[1][o], db[o]) = CoinAt(1, o)
                    /\ Honest(cacheCoins'[1][o], db[o])
    BY <1>4, Unfold DEF CoinAt, Caches
  <1>8. Shadow(n, CoinAt(live - 1, o)) = c
    BY <1>3 DEF Shadow
  <1>9. IInv' /\ Views!Put(o, Shadow(cacheCoins'[live][o], CoinAt(live - 1, o)))
    BY <1>1, <1>4, <1>6, <1>7, TopStep DEF Caches
  <1> QED BY <1>4, <1>8, <1>9

(* SpendCoin (coins.cpp:98-112) writes NoCoin, or finds nothing to spend.  *)
LEMMA SpendCoinStep ==
    ASSUME IInv, NEW o \in OutPoints, SpendCoin(o)
    PROVE  IInv' /\ Views!Put(o, NoCoin)
  <1> DEFINE f == FetchCoin(live, o)
             e == f[live][o]
             n == IF e = NoEntry THEN NoEntry ELSE SpentEntry(e)
  <1>1. /\ live \in Caches /\ live > 0 /\ live <= live
        /\ UNCHANGED <<db, dbBest, live, hashBlock>>
    BY DEF SpendCoin, IInv, TypeOK, Caches
  <1>2. /\ f \in [Caches -> [OutPoints -> CacheEntry]]
        /\ \A k \in Caches : k > live => f[k] = cacheCoins[k]
        /\ \A k \in Caches, p \in OutPoints : p # o => f[k][p] = cacheCoins[k][p]
        /\ Shadow(f[1][o], db[o]) = CoinAt(1, o)
        /\ Honest(f[1][o], db[o])
        /\ Honest(f[2][o], CoinAt(1, o))
        /\ e = NoEntry => IsSpent(CoinAt(live, o))
    BY <1>1, FetchInvisible
  <1>3. Honest(e, CoinAt(live - 1, o))
    BY <1>1, <1>2 DEF Caches, CoinAt
  <1>4. CoinAt(live, o) = Shadow(e, CoinAt(live - 1, o))
    BY <1>1, <1>2, FetchInvisible DEF Caches, CoinAt
  <1>5. e \in CacheEntry /\ n \in CacheEntry
    BY <1>1, <1>2 DEF CacheEntry, Entry, Coin, Flags, SpentEntry
  <1>6. cacheCoins' = [f EXCEPT ![live][o] = n]
    <2>1. CASE e = NoEntry
      BY <2>1, <1>1, <1>2 DEF SpendCoin
    <2>2. CASE e # NoEntry
      BY <2>2 DEF SpendCoin
    <2> QED BY <2>1, <2>2
  <1> HIDE DEF f
  <1>7. /\ cacheCoins' \in [Caches -> [OutPoints -> CacheEntry]]
        /\ cacheCoins'[live][o] = n
        /\ \A k \in Caches : k # live => cacheCoins'[k] = f[k]
        /\ \A k \in Caches, p \in OutPoints : p # o => cacheCoins'[k][p] = f[k][p]
    BY <1>1, <1>2, <1>5, <1>6
  <1>8. Honest(n, CoinAt(live - 1, o)) /\ Shadow(n, CoinAt(live - 1, o)) = NoCoin
    <2>1. CASE e = NoEntry
      BY <2>1, <1>2, <1>4 DEF Honest, Shadow, IsSpent
    <2>2. CASE e # NoEntry
      <3>1. e \in Entry BY <2>2, <1>5 DEF CacheEntry
      <3>2. CASE "FRESH" \in e.flags
        BY <2>2, <3>2, <1>3 DEF Honest, Shadow, IsSpent, SpentEntry
      <3>3. CASE "FRESH" \notin e.flags
        <4>1. n = [coin |-> NoCoin, flags |-> e.flags \cup {"DIRTY"}]
          BY <2>2, <3>3 DEF SpentEntry
        <4>2. n # NoEntry
          BY <3>1, <4>1, CoinsAssumption DEF Entry, Flags
        <4> QED BY <3>3, <4>1, <4>2 DEF Honest, Shadow
      <3> QED BY <3>2, <3>3
    <2> QED BY <2>1, <2>2
  <1>9. live = 2 => /\ Shadow(cacheCoins'[1][o], db[o]) = CoinAt(1, o)
                    /\ Honest(cacheCoins'[1][o], db[o])
    BY <1>2, <1>7 DEF Caches
  <1> HIDE DEF n, e
  <1>10. IInv' /\ Views!Put(o, Shadow(cacheCoins'[live][o], CoinAt(live - 1, o)))
    BY <1>1, <1>2, <1>7, <1>8, <1>9, TopStep DEF Caches
  <1> QED BY <1>7, <1>8, <1>10

(* Uncache (coins.cpp:210-217) drops a clean entry: the level below shows  *)
(* the same coin.                                                          *)
LEMMA UncacheStep ==
    ASSUME IInv, NEW l \in Caches, NEW o \in OutPoints, Uncache(l, o)
    PROVE  IInv' /\ UNCHANGED <<UtxoOf, BestOf, live>>
  <1> DEFINE e == cacheCoins[l][o]
  <1>1. /\ e # NoEntry /\ e.flags = {} /\ l <= live
        /\ cacheCoins' = [cacheCoins EXCEPT ![l][o] = NoEntry]
        /\ UNCHANGED <<db, dbBest, live, hashBlock>>
    BY DEF Uncache
  <1>2. /\ cacheCoins' \in [Caches -> [OutPoints -> CacheEntry]]
        /\ cacheCoins'[l][o] = NoEntry
        /\ \A k \in Caches : k # l => cacheCoins'[k] = cacheCoins[k]
        /\ \A k \in Caches, p \in OutPoints :
             p # o => cacheCoins'[k][p] = cacheCoins[k][p]
    BY <1>1 DEF IInv, TypeOK, CacheEntry
  <1>3. l \in {1, 2} /\ e.coin = CoinAt(l - 1, o)
    BY <1>1 DEF IInv, FlagsHonest, Honest, Caches
  <1>4. \A p \in OutPoints :
          /\ CoinAt(0, p)' = CoinAt(0, p)
          /\ CoinAt(1, p)' = CoinAt(1, p)
          /\ CoinAt(2, p)' = CoinAt(2, p)
    <2> SUFFICES ASSUME NEW p \in OutPoints
                 PROVE  /\ CoinAt(0, p)' = CoinAt(0, p)
                        /\ CoinAt(1, p)' = CoinAt(1, p)
                        /\ CoinAt(2, p)' = CoinAt(2, p)
      OBVIOUS
    <2>1. CASE p # o
      <3>1. cacheCoins'[1][p] = cacheCoins[1][p] /\ cacheCoins'[2][p] = cacheCoins[2][p]
        BY <2>1, <1>2 DEF Caches
      <3> QED BY <3>1, <1>1 DEF CoinAt
    <2>2. CASE p = o /\ l = 1
      <3>1. cacheCoins'[1][o] = NoEntry /\ cacheCoins'[2][o] = cacheCoins[2][o]
            /\ cacheCoins[1][o] # NoEntry /\ cacheCoins[1][o].coin = db[o]
        BY <2>2, <1>1, <1>2, <1>3 DEF Caches, CoinAt
      <3> QED BY <3>1, <2>2, <1>1 DEF CoinAt, Shadow
    <2>3. CASE p = o /\ l = 2
      <3>1. cacheCoins'[2][o] = NoEntry /\ cacheCoins'[1][o] = cacheCoins[1][o]
            /\ cacheCoins[2][o] # NoEntry
            /\ cacheCoins[2][o].coin = Shadow(cacheCoins[1][o], db[o])
        BY <2>3, <1>1, <1>2, <1>3 DEF Caches, CoinAt
      <3> QED BY <3>1, <2>3, <1>1 DEF CoinAt, Shadow
    <2> QED BY <1>3, <2>1, <2>2, <2>3
  <1>5. \A p \in OutPoints :
          /\ Honest(cacheCoins'[1][p], CoinAt(0, p))
          /\ Honest(cacheCoins'[2][p], CoinAt(1, p))
    <2>1. \A p \in OutPoints : Honest(cacheCoins[1][p], CoinAt(0, p))
                            /\ Honest(cacheCoins[2][p], CoinAt(1, p))
      BY Unfold DEF CoinAt
    <2>2. ASSUME NEW k \in Caches, NEW p \in OutPoints
          PROVE  cacheCoins'[k][p] = cacheCoins[k][p] \/ cacheCoins'[k][p] = NoEntry
      BY <1>2
    <2> QED BY <2>1, <2>2 DEF Honest, Caches
  <1>6. FlagsHonest'
    BY <1>4, <1>5 DEF FlagsHonest, Honest, Caches
  <1>7. TypeOK' /\ DeadCachesEmpty'
    BY <1>1, <1>2 DEF IInv, TypeOK, DeadCachesEmpty, CacheEntry, EmptyCache, Caches
  <1>8. UtxoOf' = UtxoOf
    BY <1>4 DEF UtxoOf
  <1>9. BestOf' = BestOf
    BY <1>1 DEF BestOf, BestAt
  <1> QED BY <1>1, <1>6, <1>7, <1>8, <1>9 DEF IInv

(* A step that touches hashBlock only keeps the coins and the flags.       *)
LEMMA HashOnly ==
    ASSUME IInv, UNCHANGED <<db, dbBest, live, cacheCoins>>,
           hashBlock' \in [Caches -> Blocks \cup {NoBlock}],
           \A k \in Caches : k > live => hashBlock'[k] = NoBlock
    PROVE  IInv' /\ UtxoOf' = UtxoOf
  <1>1. TypeOK' /\ DeadCachesEmpty'
    BY DEF IInv, TypeOK, DeadCachesEmpty, EmptyCache
  <1>2. FlagsHonest'
    BY DEF IInv, FlagsHonest, CoinAt
  <1>3. UtxoOf' = UtxoOf
    BY DEF UtxoOf, CoinAt
  <1> QED BY <1>1, <1>2, <1>3 DEF IInv

(* GetBestBlock (coins.cpp:135-139) memoises what it returns.              *)
LEMMA GetBestBlockStep ==
    ASSUME IInv, NEW l \in Caches, GetBestBlock(l)
    PROVE  IInv' /\ UNCHANGED <<UtxoOf, BestOf, live>>
  <1>1. UNCHANGED <<db, dbBest, live, cacheCoins>> /\ l <= live /\ l \in {1, 2}
    BY DEF GetBestBlock, Caches
  <1>2. /\ hashBlock' \in [Caches -> Blocks \cup {NoBlock}]
        /\ \A k \in Caches : k > l => hashBlock'[k] = hashBlock[k]
    BY DEF IInv, TypeOK, GetBestBlock, BestAt, Caches
  <1>3. \A k \in Caches : k > live => hashBlock'[k] = NoBlock
    BY <1>1, <1>2 DEF IInv, TypeOK, DeadCachesEmpty, Caches
  <1>4. \A k \in 0..2 : BestAt(k)' = BestAt(k)
    BY <1>1 DEF IInv, TypeOK, GetBestBlock, BestAt, Caches
  <1>5. BestOf' = BestOf
    BY <1>4 DEF BestOf
  <1> QED BY <1>1, <1>2, <1>3, <1>5, HashOnly

(* SetBestBlock (coins.cpp:141-143) moves the topmost view.                *)
LEMMA SetBestBlockStep ==
    ASSUME IInv, NEW b \in Blocks, SetBestBlock(b)
    PROVE  IInv' /\ Views!MoveBest(b)
  <1>1. /\ UNCHANGED <<db, dbBest, live, cacheCoins>> /\ live \in {1, 2}
        /\ hashBlock' = [hashBlock EXCEPT ![live] = b]
    BY DEF SetBestBlock, IInv, TypeOK
  <1>2. /\ hashBlock' \in [Caches -> Blocks \cup {NoBlock}]
        /\ \A k \in Caches : k > live => hashBlock'[k] = NoBlock
    BY <1>1 DEF IInv, TypeOK, DeadCachesEmpty, Caches
  <1>3. \A k \in 0..2 : BestAt(k)' = IF k >= live THEN b ELSE BestAt(k)
    <2>1. b # NoBlock BY CoinsAssumption
    <2> QED BY <1>1, <1>2, <2>1, Unfold DEF TypeOK, BestAt, Caches
  <1>4. BestOf' = [k \in 0..2 |-> IF k >= live THEN b ELSE BestOf[k]]
    BY <1>3 DEF BestOf
  <1>5. IInv' /\ UtxoOf' = UtxoOf
    BY <1>1, <1>2, HashOnly
  <1> QED
    BY <1>1, <1>4, <1>5 DEF Views!MoveBest, Views!Views, UtxoOf, BestOf

(* Flushing the scratch view (coins.cpp:145-208) makes pcoinsTip show what *)
(* the scratch view shows.                                                 *)
LEMMA FlushViewStep == ASSUME IInv, FlushView PROVE IInv' /\ Views!Flush
  <1>1. /\ live = 2 /\ hashBlock[2] # NoBlock
        /\ UNCHANGED <<db, dbBest, live>>
    BY DEF FlushView, Flushable
  <1>2. ASSUME NEW o \in OutPoints
        PROVE  /\ MergedEntry(cacheCoins[2][o], cacheCoins[1][o]) \in CacheEntry
               /\ Honest(MergedEntry(cacheCoins[2][o], cacheCoins[1][o]), db[o])
               /\ Shadow(MergedEntry(cacheCoins[2][o], cacheCoins[1][o]), db[o])
                    = CoinAt(2, o)
    <2>1. /\ cacheCoins[1][o] \in CacheEntry /\ cacheCoins[2][o] \in CacheEntry
          /\ db[o] \in Coin
      BY DEF IInv, TypeOK, CacheEntry, Caches
    <2>2. /\ Honest(cacheCoins[1][o], db[o])
          /\ Honest(cacheCoins[2][o], Shadow(cacheCoins[1][o], db[o]))
      BY Unfold
    <2>3. ~FreshMisapplied(cacheCoins[2][o], cacheCoins[1][o])
      BY DEF FlushView
    <2> QED BY <2>1, <2>2, <2>3, MergeShowsChild DEF CoinAt
  <1>3. /\ cacheCoins' \in [Caches -> [OutPoints -> CacheEntry]]
        /\ cacheCoins'[2] = EmptyCache
        /\ \A o \in OutPoints :
             cacheCoins'[1][o] = MergedEntry(cacheCoins[2][o], cacheCoins[1][o])
    <2>1. EmptyCache \in [OutPoints -> CacheEntry]
      BY DEF EmptyCache, CacheEntry
    <2>2. cacheCoins \in [Caches -> [OutPoints -> CacheEntry]]
      BY DEF IInv, TypeOK, CacheEntry
    <2> QED BY <1>2, <2>1, <2>2 DEF FlushView, Caches
  <1>4. /\ hashBlock' \in [Caches -> Blocks \cup {NoBlock}]
        /\ hashBlock'[1] = hashBlock[2] /\ hashBlock'[2] = hashBlock[2]
    BY DEF IInv, TypeOK, FlushView, Caches
  <1>5. \A o \in OutPoints :
          /\ CoinAt(0, o)' = CoinAt(0, o)
          /\ CoinAt(1, o)' = CoinAt(2, o)
          /\ CoinAt(2, o)' = CoinAt(2, o)
    <2>1. \A o \in OutPoints : EmptyCache[o] = NoEntry
      BY DEF EmptyCache
    <2>2. \A o \in OutPoints : CoinAt(1, o)' = CoinAt(2, o)
      BY <1>1, <1>2, <1>3 DEF CoinAt
    <2> QED BY <1>1, <1>3, <2>1, <2>2 DEF CoinAt, Shadow
  <1>6. FlagsHonest'
    <2>1. \A o \in OutPoints : Honest(cacheCoins'[1][o], CoinAt(0, o))
      BY <1>2, <1>3 DEF CoinAt
    <2>2. \A o \in OutPoints : cacheCoins'[2][o] = NoEntry
      BY <1>3 DEF EmptyCache
    <2> QED BY <1>5, <2>1, <2>2 DEF FlagsHonest, Honest, Caches
  <1>7. TypeOK' /\ DeadCachesEmpty'
    BY <1>1, <1>3, <1>4 DEF IInv, TypeOK, DeadCachesEmpty, CacheEntry, EmptyCache, Caches
  <1>8. UtxoOf' = [l \in 0..2 |-> IF l >= live - 1 THEN UtxoOf[live] ELSE UtxoOf[l]]
    BY <1>1, <1>5 DEF UtxoOf
  <1>9. BestOf' = [l \in 0..2 |-> IF l >= live - 1 THEN BestOf[live] ELSE BestOf[l]]
    BY <1>1, <1>4 DEF BestOf, BestAt
  <1> QED
    BY <1>1, <1>6, <1>7, <1>8, <1>9 DEF IInv, Views!Flush, Views!Views, UtxoOf, BestOf

(* Flushing pcoinsTip (txdb.cpp:84-143) makes the database show what       *)
(* pcoinsTip shows.                                                        *)
LEMMA FlushTipStep == ASSUME IInv, FlushTip PROVE IInv' /\ Views!Flush
  <1>1. /\ live = 1 /\ hashBlock[1] # NoBlock
        /\ dbBest' = hashBlock[1] /\ UNCHANGED <<live, hashBlock>>
        /\ db' = [o \in OutPoints |-> WrittenCoin(cacheCoins[1][o], db[o])]
    BY DEF FlushTip, Flushable
  <1>2. ASSUME NEW o \in OutPoints
        PROVE  db'[o] \in Coin /\ db'[o] = CoinAt(1, o)
    <2>1. cacheCoins[1][o] \in CacheEntry /\ db[o] \in Coin
      BY DEF IInv, TypeOK, CacheEntry, Caches
    <2>2. Honest(cacheCoins[1][o], db[o])
      BY Unfold
    <2> QED BY <1>1, <2>1, <2>2, WriteShowsEntry DEF CoinAt
  <1>3. /\ cacheCoins' \in [Caches -> [OutPoints -> CacheEntry]]
        /\ cacheCoins'[1] = EmptyCache /\ cacheCoins'[2] = EmptyCache
        /\ hashBlock[2] = NoBlock /\ cacheCoins[2] = EmptyCache
    <2>1. EmptyCache \in [OutPoints -> CacheEntry]
      BY DEF EmptyCache, CacheEntry
    <2>2. cacheCoins \in [Caches -> [OutPoints -> CacheEntry]]
      BY DEF IInv, TypeOK, CacheEntry
    <2>3. cacheCoins[2] = EmptyCache /\ hashBlock[2] = NoBlock
      BY <1>1, Unfold
    <2> QED BY <2>1, <2>2, <2>3 DEF FlushTip, Caches
  <1>4. \A o \in OutPoints : EmptyCache[o] = NoEntry
    BY DEF EmptyCache
  <1>5. \A o \in OutPoints, l \in 0..2 : CoinAt(l, o)' = CoinAt(1, o)
    BY <1>2, <1>3, <1>4 DEF CoinAt, Shadow
  <1>6. \A o \in OutPoints : CoinAt(2, o) = CoinAt(1, o)
    BY <1>3, <1>4 DEF CoinAt, Shadow
  <1>7. FlagsHonest'
    BY <1>3, <1>4 DEF FlagsHonest, Honest, Caches
  <1>8. TypeOK' /\ DeadCachesEmpty'
    <2>1. db' \in [OutPoints -> Coin]
      BY <1>1, <1>2
    <2> QED
      BY <1>1, <1>3, <2>1 DEF IInv, TypeOK, DeadCachesEmpty, CacheEntry, EmptyCache, Caches
  <1>9. UtxoOf' = [l \in 0..2 |-> IF l >= live - 1 THEN UtxoOf[live] ELSE UtxoOf[l]]
    BY <1>1, <1>5, <1>6 DEF UtxoOf
  <1>10. BestOf' = [l \in 0..2 |-> IF l >= live - 1 THEN BestOf[live] ELSE BestOf[l]]
    BY <1>1, <1>3 DEF BestOf, BestAt
  <1> QED
    BY <1>1, <1>7, <1>8, <1>9, <1>10 DEF IInv, Views!Flush, Views!Views, UtxoOf, BestOf

-----------------------------------------------------------------------------
(* The invariant holds of a fresh database with no cache over it.          *)
LEMMA InitIInv == Init => IInv /\ Views!Init
  <1> SUFFICES ASSUME Init PROVE IInv /\ Views!Init
    OBVIOUS
  <1>1. TypeOK /\ DeadCachesEmpty
    BY DEF Init, TypeOK, DeadCachesEmpty, EmptyCache, Caches
  <1>2. \A l \in Caches, o \in OutPoints : cacheCoins[l][o] = NoEntry
    BY DEF Init, EmptyCache
  <1>3. FlagsHonest
    BY <1>2 DEF FlagsHonest, Honest
  <1>4. \A l \in 0..2, o \in OutPoints : CoinAt(l, o) = db[o] /\ db[o] \in Coin
    BY <1>2 DEF Init, CoinAt, Shadow, Caches
  <1>5. \A l \in 0..2 : BestAt(l) = dbBest
    BY DEF Init, BestAt, Caches
  <1> QED
    BY <1>1, <1>3, <1>4, <1>5 DEF IInv, Views!Init, Views!Views, Init, Coin

(* Every step keeps the invariant and is a step, or a stutter, of the      *)
(* abstract views.                                                         *)
LEMMA NextIInv ==
    ASSUME IInv, [Next]_vars
    PROVE  IInv' /\ [Views!Next]_(Views!absVars)
  <1> USE DEF Views!absVars
  <1>1. CASE Open
    BY <1>1, OpenStep DEF Views!Next
  <1>2. CASE Discard
    BY <1>2, DiscardStep DEF Views!Next
  <1>3. CASE \E l \in Caches, o \in OutPoints : GetCoin(l, o)
    BY <1>3, GetCoinStep DEF UtxoOf, BestOf
  <1>4. CASE \E o \in OutPoints, c \in Coins, b \in BOOLEAN : AddCoin(o, c, b)
    BY <1>4, AddCoinStep DEF Views!Next
  <1>5. CASE \E o \in OutPoints : SpendCoin(o)
    BY <1>5, SpendCoinStep DEF Views!Next
  <1>6. CASE \E l \in Caches, o \in OutPoints : Uncache(l, o)
    BY <1>6, UncacheStep DEF UtxoOf, BestOf
  <1>7. CASE \E l \in Caches : GetBestBlock(l)
    BY <1>7, GetBestBlockStep DEF UtxoOf, BestOf
  <1>8. CASE \E b \in Blocks : SetBestBlock(b)
    BY <1>8, SetBestBlockStep DEF Views!Next
  <1>9. CASE FlushView
    BY <1>9, FlushViewStep DEF Views!Next
  <1>10. CASE FlushTip
    BY <1>10, FlushTipStep DEF Views!Next
  <1>11. CASE UNCHANGED vars
    <2>1. IInv'
      BY <1>11 DEF vars, IInv, TypeOK, DeadCachesEmpty, FlagsHonest, CoinAt
    <2>2. UNCHANGED <<UtxoOf, BestOf, live>>
      BY <1>11 DEF vars, UtxoOf, BestOf, CoinAt, BestAt
    <2> QED BY <2>1, <2>2 DEF UtxoOf, BestOf
  <1> QED
    BY <1>1, <1>2, <1>3, <1>4, <1>5, <1>6, <1>7, <1>8, <1>9, <1>10, <1>11 DEF Next

(* The strengthened invariant holds in every reachable state.              *)
THEOREM Invariance == Spec => []IInv
  <1>1. Init => IInv
    BY InitIInv
  <1>2. IInv /\ [Next]_vars => IInv'
    BY NextIInv
  <1> QED BY <1>1, <1>2, PTL DEF Spec

(* The variables keep their types, whatever the sets of outpoints, coins   *)
(* and blocks.                                                             *)
THEOREM TypeCorrect == Spec => []TypeOK
  <1>1. IInv => TypeOK
    BY DEF IInv
  <1> QED BY <1>1, Invariance, PTL

(* The DIRTY and FRESH flags are truthful at every level at all times      *)
(* (coins.h:109-110).                                                      *)
THEOREM FlagsAlwaysHonest == Spec => []FlagsHonest
  <1>1. IInv => FlagsHonest
    BY DEF IInv
  <1> QED BY <1>1, Invariance, PTL

(* BatchWrite never throws "FRESH flag misapplied" (coins.cpp:175).        *)
THEOREM FlushNeverThrows == Spec => []NoLogicError
  <1>1. IInv => NoLogicError
    <2> SUFFICES ASSUME IInv, NEW o \in OutPoints
                 PROVE  ~FreshMisapplied(cacheCoins[2][o], cacheCoins[1][o])
      BY DEF NoLogicError
    <2>1. /\ cacheCoins[1][o] \in CacheEntry /\ cacheCoins[2][o] \in CacheEntry
          /\ db[o] \in Coin
      BY DEF IInv, TypeOK, CacheEntry, Caches
    <2>2. Honest(cacheCoins[2][o], Shadow(cacheCoins[1][o], db[o]))
      BY Unfold
    <2> QED BY <2>1, <2>2, HonestNotMisapplied
  <1> QED BY <1>1, Invariance, PTL

(* The stack of write-back caches implements plain views: no fill, merge,  *)
(* eviction or skipped write is ever visible (coins.cpp, txdb.cpp).        *)
THEOREM CachesImplementViews == Spec => ImplementsViews
  <1>1. Init => Views!Init
    BY InitIInv
  <1>2. IInv /\ [Next]_vars => [Views!Next]_(Views!absVars)
    BY NextIInv
  <1> QED BY <1>1, <1>2, Invariance, PTL DEF Spec, ImplementsViews, Views!Spec
=============================================================================
