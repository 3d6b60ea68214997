------------------------ MODULE CoinsRecoveryProofs ------------------------
(***************************************************************************)
(* Proofs about CoinsRecovery, for any block tree, any coins and any       *)
(* number of crashes.                                                      *)
(*                                                                         *)
(* Stored says that the disk knows a block's whole branch; it holds of     *)
(* every block the chainstate names, because the index is written first.   *)
(* Exact relates the coins on disk and in memory to the two heads; it      *)
(* holds until a batch write fails or a replay goes on after an error.     *)
(***************************************************************************)
EXTENDS CoinsRecovery, TLAPS

(* A block is its own ancestor; the others are its parent's.               *)
LEMMA OnParent ==
    ASSUME NEW a \in Blocks, NEW b \in Tree
    PROVE  OnBranch(a, b) <=> a = b \/ OnBranch(a, Parent[b])
  <1>1. /\ Height[a] \in Nat /\ Height[b] \in Nat /\ Height[Parent[b]] \in Nat
        /\ b \in Blocks /\ Parent[b] \in Blocks
        /\ Height[b] = Height[Parent[b]] + 1 /\ GetAncestor[b][Height[b]] = b
    BY TreeAssumption DEF Tree
  <1>2. ASSUME Height[a] < Height[b]
        PROVE  GetAncestor[b][Height[a]] = GetAncestor[Parent[b]][Height[a]]
    <2>1. Height[a] \in 0..Height[b]
      BY <1>1, <1>2
    <2> QED BY <1>1, <1>2, <2>1, TreeAssumption
  <1>3. CASE Height[a] < Height[b]
    BY <1>1, <1>2, <1>3 DEF OnBranch
  <1>4. CASE Height[a] = Height[b]
    BY <1>1, <1>4 DEF OnBranch
  <1>5. CASE Height[a] > Height[b]
    BY <1>1, <1>5 DEF OnBranch
  <1> QED BY <1>1, <1>3, <1>4, <1>5

LEMMA OnSelf == \A b \in Blocks : OnBranch(b, b)
  BY TreeAssumption DEF OnBranch

(* The genesis block is on every branch, and alone on its own.             *)
LEMMA OnGenesis ==
    ASSUME NEW b \in Blocks
    PROVE  OnBranch(Genesis, b) /\ (OnBranch(b, Genesis) => b = Genesis)
  <1>1. Height[b] \in Nat /\ Height[Genesis] = 0 /\ 0 \in 0..Height[b]
    BY TreeAssumption
  <1>2. GetAncestor[b][0] \in Blocks /\ Height[GetAncestor[b][0]] = 0
    <2>1. \A h \in 0..Height[b] :
            GetAncestor[b][h] \in Blocks /\ Height[GetAncestor[b][h]] = h
      BY TreeAssumption
    <2> QED BY <1>1, <2>1
  <1>3. ASSUME NEW c \in Tree PROVE Height[c] # 0
    <2>1. Parent[c] \in Blocks /\ Height[c] = Height[Parent[c]] + 1
      BY TreeAssumption
    <2>2. Height[Parent[c]] \in Nat
      BY <2>1, TreeAssumption
    <2> QED BY <2>1, <2>2
  <1>4. GetAncestor[b][0] = Genesis
    BY <1>2, <1>3 DEF Tree
  <1>5. GetAncestor[Genesis][0] = Genesis
    BY <1>1, TreeAssumption
  <1> QED BY <1>1, <1>4, <1>5 DEF OnBranch

-----------------------------------------------------------------------------
(* The contract storage keeps its type, whatever is committed, rolled back *)
(* or cut short.                                                           *)
LEMMA StoreFields ==
    ASSUME NEW s \in Stores
    PROVE  /\ s.root \in CommitIds /\ s.top \in CommitIds
           /\ s.rows \in Seq(CommitIds) /\ s.sound \in BOOLEAN
  BY DEF Stores

LEMMA StoreUpdate ==
    ASSUME NEW s \in Stores, NEW r \in CommitIds, NEW t \in CommitIds,
           NEW rows \in Seq(CommitIds), NEW ok \in BOOLEAN
    PROVE  /\ [s EXCEPT !.root = r] \in Stores
           /\ [s EXCEPT !.rows = rows] \in Stores
           /\ [s EXCEPT !.sound = ok] \in Stores
           /\ [s EXCEPT !.top = t, !.rows = rows] \in Stores
           /\ [s EXCEPT !.top = t, !.sound = ok] \in Stores
           /\ [s EXCEPT !.root = r, !.top = t] \in Stores
           /\ [s EXCEPT !.root = r, !.top = t, !.rows = rows] \in Stores
           /\ [root |-> r, top |-> t, rows |-> rows, sound |-> ok] \in Stores
  BY DEF Stores

LEMMA RootType == \A b \in Blocks : Root[b] \in CommitIds
  BY RootAssumption DEF CommitIds, MaybeBlock

LEMMA NewStoreType == NewStore \in Stores
  <1>1. << >> \in CommitIds /\ << >> \in Seq(CommitIds)
    BY DEF CommitIds
  <1> QED BY <1>1 DEF NewStore, EMPTY_COMMIT_ID, Stores

LEMMA RowsUpToType ==
    ASSUME NEW s \in Stores, NEW dest, Found(s, dest)
    PROVE  RowsUpTo(s, dest) \in Seq(CommitIds)
  <1>1. s.rows \in Seq(CommitIds)
    BY StoreFields
  <1>2. CASE dest = EMPTY_COMMIT_ID
    BY <1>2 DEF RowsUpTo
  <1>3. CASE dest # EMPTY_COMMIT_ID
    <2> DEFINE n == CHOOSE i \in DOMAIN s.rows : s.rows[i] = dest
    <2>1. n \in DOMAIN s.rows
      BY <1>3 DEF Found, get_commit_info
    <2>2. n \in 1..Len(s.rows)
      BY <1>1, <2>1
    <2> HIDE DEF n
    <2>3. SubSeq(s.rows, 1, n) \in Seq(CommitIds)
      BY <1>1, <2>2
    <2> QED BY <1>3, <2>3 DEF RowsUpTo, n
  <1> QED BY <1>2, <1>3

LEMMA RolledBackType ==
    ASSUME NEW s \in Stores, NEW dest \in CommitIds, Found(s, dest)
    PROVE  RolledBack(s, dest) \in Stores
  BY RowsUpToType, StoreUpdate, StoreFields DEF RolledBack

LEMMA CutRollbackType ==
    ASSUME NEW s \in Stores, NEW dest \in CommitIds
    PROVE  CutRollback(s, dest) \subseteq Stores
  <1> DEFINE t == [s EXCEPT !.sound = @ /\ NothingNewer(s, dest)]
  <1>1. t \in Stores
    BY StoreFields DEF Stores, NothingNewer
  <1> HIDE DEF t
  <1>2. [t EXCEPT !.root = dest] \in Stores /\ [t EXCEPT !.root = dest, !.top = dest] \in Stores
    BY <1>1, StoreUpdate, StoreFields
  <1> QED BY <1>1, <1>2 DEF CutRollback, t

LEMMA RowsBeforeType ==
    ASSUME NEW s \in Stores, NEW id, MayCommit(s, id)
    PROVE  RowsBefore(s) \in Seq(CommitIds)
  BY RowsUpToType, StoreFields DEF RowsBefore, MayCommit

LEMMA CommittedType ==
    ASSUME NEW s \in Stores, NEW id \in CommitIds, MayCommit(s, id)
    PROVE  Committed(s, id) \in Stores
  <1>1. Append(RowsBefore(s), id) \in Seq(CommitIds)
    BY RowsBeforeType
  <1> QED BY <1>1, StoreUpdate, StoreFields DEF Committed

LEMMA CutCommitType ==
    ASSUME NEW s \in Stores, NEW id \in CommitIds, MayCommit(s, id)
    PROVE  CutCommit(s, id) \cup TornCommit(s, id) \subseteq Stores
  <1> DEFINE rolled == {[s EXCEPT !.rows = SubSeq(s.rows, 1, k)] :
                           k \in Len(RowsBefore(s))..Len(s.rows)}
                         \cup {[s EXCEPT !.top = s.root, !.rows = RowsBefore(s)]}
  <1>1. /\ RowsBefore(s) \in Seq(CommitIds) /\ s.rows \in Seq(CommitIds)
        /\ s.root \in CommitIds /\ s.top \in CommitIds
    BY RowsBeforeType, StoreFields
  <1>2. rolled \subseteq Stores
    <2>1. ASSUME NEW k \in Len(RowsBefore(s))..Len(s.rows)
          PROVE  SubSeq(s.rows, 1, k) \in Seq(CommitIds)
      <3>1. Len(RowsBefore(s)) \in Nat /\ Len(s.rows) \in Nat
        BY <1>1
      <3>2. k \in 0..Len(s.rows)
        BY <3>1
      <3> QED BY <1>1, <3>2
    <2>2. ASSUME NEW k \in Len(RowsBefore(s))..Len(s.rows)
          PROVE  [s EXCEPT !.rows = SubSeq(s.rows, 1, k)] \in Stores
      BY <1>1, <2>1, StoreUpdate, StoreFields
    <2>3. [s EXCEPT !.top = s.root, !.rows = RowsBefore(s)] \in Stores
      BY <1>1, StoreUpdate, StoreFields
    <2> QED BY <2>2, <2>3
  <1>3. [s EXCEPT !.top = s.root, !.sound = FALSE] \in Stores
    BY <1>1, StoreUpdate
  <1> HIDE DEF rolled
  <1>4. ASSUME NEW t \in rolled PROVE [t EXCEPT !.sound = FALSE] \in Stores
    BY <1>1, <1>2, StoreUpdate
  <1>5. CutCommit(s, id) \subseteq Stores
    <2>1. CutCommit(s, id) = rolled \cup {[t EXCEPT !.sound = FALSE] : t \in rolled}
                                   \cup {[s EXCEPT !.top = s.root, !.sound = FALSE]}
      BY DEF CutCommit, rolled
    <2> QED BY <1>2, <1>3, <1>4, <2>1
  <1>6. TornCommit(s, id) \subseteq Stores
    BY <1>1 DEF TornCommit, Stores
  <1> QED BY <1>5, <1>6

LEMMA CommitDiesType ==
    ASSUME store \in Stores, NEW x \in MaybeBlock PROVE CommitDies(x) \subseteq Stores
  <1> DEFINE id == Append(store.root, x)
  <1>1. id \in CommitIds
    BY StoreFields DEF CommitIds
  <1> HIDE DEF id
  <1>2. CASE MayCommit(store, id)
    <2>1. CommitDies(x) = {Committed(store, id)} \cup CutCommit(store, id) \cup TornCommit(store, id)
      BY <1>2 DEF CommitDies, id
    <2> QED BY <1>1, <1>2, <2>1, CommittedType, CutCommitType
  <1>3. CASE ~MayCommit(store, id)
    BY <1>3 DEF CommitDies, id
  <1> QED BY <1>2, <1>3

LEMMA RollbackDiesType ==
    ASSUME store \in Stores, NEW dest \in CommitIds PROVE RollbackDies(dest) \subseteq Stores
  BY RolledBackType, CutRollbackType DEF RollbackDies

-----------------------------------------------------------------------------
(* The branch of b is in an index, with undo data above the genesis block. *)
Has(index, rev, b) ==
    b # NoBlock => \A a \in Blocks :
        OnBranch(a, b) => a \in index /\ (a # Genesis => a \in rev)

Stored(b) == Has(diskIndex, diskUndo, b)

(* The inductive invariant about what the disk and the memory know.        *)
Bookkeeping ==
    /\ dbHeads # <<>> => dbBest = NoBlock /\ Stored(dbHeads[1]) /\ Stored(dbHeads[2])
    /\ Stored(dbBest)
    /\ phase # "down" => diskIndex \subseteq mapBlockIndex /\ diskUndo \subseteq undo
    /\ phase = "running" => Has(mapBlockIndex, undo, best)
    /\ Flushing => best # NoBlock /\ Stored(best)
    /\ phase = "replay" => dbHeads # <<>>

KInv == TypeOK /\ Bookkeeping

(* Knowing a branch is knowing the parent's branch and the block.          *)
LEMMA HasParent ==
    ASSUME NEW index, NEW rev, NEW b \in Tree
    PROVE  /\ Has(index, rev, b) => Has(index, rev, Parent[b])
           /\ Has(index, rev, Parent[b]) /\ b \in index /\ b \in rev => Has(index, rev, b)
  <1>1. Parent[b] \in Blocks /\ Parent[b] # NoBlock /\ b # NoBlock
    BY TreeAssumption DEF Tree
  <1> QED BY <1>1, OnParent DEF Has

(* More blocks in the index never hurt.                                    *)
LEMMA HasMono ==
    ASSUME NEW i, NEW j, NEW r, NEW q, NEW b, i \subseteq j, r \subseteq q, Has(i, r, b)
    PROVE  Has(j, q, b)
  BY DEF Has

LEMMA InitKInv == Init => KInv
  <1> SUFFICES ASSUME Init PROVE KInv
    OBVIOUS
  <1>1. TypeOK
    <2>1. ignored \in BOOLEAN
      BY DEF Init
    <2>2. /\ dbCoins = {} /\ dbBest = NoBlock /\ dbHeads = <<>> /\ diskIndex = {}
          /\ diskUndo = {} /\ phase = "down" /\ mapBlockIndex = {} /\ undo = {} /\ coins = {}
          /\ best = NoBlock /\ pending = {} /\ cur = NoBlock /\ crashes = 0 /\ ioErrors = 0
      BY DEF Init
    <2>3. store \in Stores
      BY NewStoreType DEF Init
    <2> QED BY <2>1, <2>2, <2>3, BoundAssumption DEF TypeOK, MaybeBlock, Phases
  <1>2. Bookkeeping
    BY DEF Init, Bookkeeping, Stored, Has, Flushing
  <1> QED BY <1>1, <1>2 DEF KInv

-----------------------------------------------------------------------------
(* The blocks the disk refers to are known, action by action.              *)
LEMMA AcceptBlockKeeps ==
    ASSUME KInv, NEW b \in Tree, AcceptBlock(b) PROVE KInv'
  <1>1. mapBlockIndex \subseteq mapBlockIndex' /\ b \in Blocks
    BY DEF AcceptBlock, Tree
  <1>2. TypeOK'
    BY <1>1 DEF KInv, TypeOK, AcceptBlock, disk, chainstate
  <1>3. Has(mapBlockIndex, undo, best) => Has(mapBlockIndex', undo', best')
    BY <1>1, HasMono DEF AcceptBlock
  <1> QED
    BY <1>1, <1>2, <1>3 DEF KInv, Bookkeeping, AcceptBlock, Stored, Has, Flushing, disk, chainstate

LEMMA ConnectTipKeeps ==
    ASSUME KInv, NEW b \in Blocks, ConnectTip(b) PROVE KInv'
  <1>1. UNCHANGED <<dbCoins, dbBest, dbHeads, diskIndex, diskUndo, phase>>
        /\ phase = "running" /\ UNCHANGED <<mapBlockIndex, pending, cur, crashes, ioErrors, ignored>>
        /\ best' = b /\ b \in mapBlockIndex
    BY DEF ConnectTip, disk, chainstate
  <1>2. coins' \subseteq OutPoints /\ undo \subseteq undo' /\ undo' \subseteq Blocks
    <2>1. CASE b = Genesis
      BY <2>1 DEF ConnectTip, KInv, TypeOK
    <2>2. CASE b # Genesis
      BY <2>2, UtxoAssumption DEF ConnectTip, KInv, TypeOK, Applied
    <2> QED BY <2>1, <2>2
  <1>3. Has(mapBlockIndex', undo', b)
    <2>1. CASE b = Genesis
      BY <1>1, <2>1, OnGenesis DEF Has
    <2>2. CASE b # Genesis
      <3>1. b \in Tree /\ best = Parent[b] /\ b \in undo'
        BY <2>2 DEF ConnectTip, Tree
      <3>2. Has(mapBlockIndex', undo', Parent[b])
        BY <1>1, <1>2, <3>1, HasMono DEF KInv, Bookkeeping
      <3> QED BY <1>1, <3>1, <3>2, HasParent
    <2> QED BY <2>1, <2>2
  <1>4. store' \in Stores
    <2>0. store \in Stores /\ Root[b] \in CommitIds
      BY RootType DEF KInv, TypeOK
    <2>1. \/ store' = store
          \/ MayCommit(store, Root[b]) /\ store' = Committed(store, Root[b])
      BY DEF ConnectTip
    <2> QED BY <2>0, <2>1, CommittedType
  <1>5. TypeOK'
    BY <1>1, <1>2, <1>4 DEF KInv, TypeOK, MaybeBlock
  <1> QED
    BY <1>1, <1>2, <1>3, <1>5 DEF KInv, Bookkeeping, Stored, Has, Flushing

LEMMA DisconnectTipKeeps == ASSUME KInv, DisconnectTip PROVE KInv'
  <1>1. UNCHANGED <<dbCoins, dbBest, dbHeads, diskIndex, diskUndo, phase>>
        /\ phase = "running" /\ UNCHANGED <<mapBlockIndex, undo, pending, cur, crashes, ioErrors, ignored>>
        /\ best \in Tree
        /\ Found(store, Root[Parent[best]]) /\ store' = RolledBack(store, Root[Parent[best]])
        /\ \/ coins' = Undone(coins, best) /\ best' = Parent[best]
           \/ UNCHANGED <<coins, best>>
    BY DEF DisconnectTip, CanDisconnect, chainstate
  <1>2. best \in Blocks /\ Parent[best] \in Blocks
    BY <1>1, TreeAssumption DEF Tree
  <1>3. coins' \subseteq OutPoints /\ best' \in Blocks
    <2>1. Spends[best] \subseteq OutPoints
      BY <1>2, UtxoAssumption
    <2> QED BY <1>1, <1>2, <2>1 DEF KInv, TypeOK, Undone
  <1>4. Has(mapBlockIndex, undo, best')
    BY <1>1, HasParent DEF KInv, Bookkeeping
  <1>5. store' \in Stores
    BY <1>1, <1>2, RootType, RolledBackType DEF KInv, TypeOK
  <1>6. TypeOK'
    BY <1>1, <1>3, <1>5 DEF KInv, TypeOK, MaybeBlock
  <1> QED
    BY <1>1, <1>4, <1>6 DEF KInv, Bookkeeping, Stored, Has, Flushing

(* Writing the index keeps everything stored that was.                     *)
LEMMA IndexWritten ==
    ASSUME KInv, phase = "running", diskIndex' = mapBlockIndex, diskUndo' = undo,
           UNCHANGED <<dbBest, dbHeads, best>>
    PROVE  /\ Stored(dbBest)' /\ Stored(best)'
           /\ dbHeads # <<>> => dbBest' = NoBlock /\ Stored(dbHeads[1])' /\ Stored(dbHeads[2])'
  <1>1. diskIndex \subseteq diskIndex' /\ diskUndo \subseteq diskUndo'
    BY DEF KInv, Bookkeeping
  <1>2. Has(diskIndex', diskUndo', best)
    BY DEF KInv, Bookkeeping
  <1> QED BY <1>1, <1>2 DEF KInv, Bookkeeping, Stored, Has

LEMMA WriteIndexKeeps == ASSUME KInv, WriteIndex PROVE KInv'
  <1>1. TypeOK'
    BY DEF KInv, TypeOK, WriteIndex, memory
  <1> QED
    BY <1>1, IndexWritten DEF KInv, Bookkeeping, WriteIndex, memory, Flushing

LEMMA FlushKeeps ==
    ASSUME KInv, NEW stop \in BOOLEAN, FlushStateToDisk(stop) PROVE KInv'
  <1>1. TypeOK'
    BY DEF KInv, TypeOK, FlushStateToDisk, Modified, Phases
  <1>2. phase' \in {"flush", "stopping"}
    BY DEF FlushStateToDisk
  <1> QED
    BY <1>1, <1>2, IndexWritten DEF KInv, Bookkeeping, FlushStateToDisk, Flushing

(* The old tip BatchWrite records is a block the disk knows, and resuming  *)
(* an interrupted transition records the same heads again.                 *)
LEMMA OldTipStored ==
    ASSUME KInv
    PROVE  /\ OldTip \in MaybeBlock /\ Stored(OldTip)
           /\ Flushing /\ MayWrite /\ dbHeads # <<>> => <<best, OldTip>> = dbHeads
  <1>1. dbHeads # <<>> => /\ dbHeads \in Blocks \X MaybeBlock
                          /\ dbHeads = <<dbHeads[1], dbHeads[2]>> /\ dbHeads[2] \in MaybeBlock
    BY DEF KInv, TypeOK
  <1>2. dbHeads # <<>> => dbBest = NoBlock /\ Stored(dbHeads[2])
    BY DEF KInv, Bookkeeping
  <1>3. Stored(NoBlock) /\ Stored(dbBest) /\ dbBest \in MaybeBlock
    BY DEF KInv, TypeOK, Bookkeeping, Stored, Has
  <1>4. CASE dbHeads # <<>>
    BY <1>1, <1>2, <1>4 DEF OldTip, MayWrite
  <1>5. CASE dbHeads = <<>>
    BY <1>3, <1>5 DEF OldTip, MaybeBlock
  <1> QED BY <1>4, <1>5

LEMMA PartialKeeps ==
    ASSUME KInv, NEW S \in SUBSET pending, WritePartialBatch(S)
    PROVE  KInv' /\ (dbHeads # <<>> => dbHeads' = dbHeads)
  <1>1. /\ Flushing /\ MayWrite /\ dbBest' = NoBlock /\ dbHeads' = <<best, OldTip>>
        /\ dbCoins' = WithWritten(S) /\ pending' = pending \ S
        /\ UNCHANGED <<diskIndex, diskUndo, store, phase, mapBlockIndex, undo, coins, best, cur,
                       crashes, ioErrors, ignored>>
    BY DEF WritePartialBatch
  <1>2. best \in Blocks /\ Stored(best)
    BY <1>1 DEF KInv, TypeOK, Bookkeeping, MaybeBlock
  <1>3. /\ dbHeads' \in Blocks \X MaybeBlock /\ dbHeads'[1] = best /\ dbHeads'[2] = OldTip
        /\ Stored(OldTip)
    BY <1>1, <1>2, OldTipStored
  <1>4. TypeOK'
    BY <1>1, <1>3 DEF KInv, TypeOK, WithWritten, MaybeBlock
  <1>5. Bookkeeping'
    BY <1>1, <1>2, <1>3 DEF KInv, Bookkeeping, Stored, Has, Flushing
  <1>6. dbHeads # <<>> => dbHeads' = dbHeads
    BY <1>1, OldTipStored
  <1> QED BY <1>4, <1>5, <1>6 DEF KInv

LEMMA FinalKeeps == ASSUME KInv, WriteFinalBatch PROVE KInv' /\ dbHeads' = <<>>
  <1>1. /\ Flushing /\ dbBest' = best /\ dbHeads' = <<>>
        /\ dbCoins' = WithWritten(pending)
        /\ UNCHANGED <<diskIndex, diskUndo, store, crashes, ioErrors, ignored>>
    BY DEF WriteFinalBatch
  <1>2. best \in Blocks /\ Stored(best)
    BY <1>1 DEF KInv, TypeOK, Bookkeeping, MaybeBlock
  <1>3. CASE phase = "stopping"
    <2>1. Lost
      BY <1>3 DEF WriteFinalBatch
    <2>2. TypeOK'
      BY <1>1, <2>1, <1>2 DEF KInv, TypeOK, Lost, WithWritten, Phases, MaybeBlock
    <2> QED
      BY <1>1, <1>2, <2>1, <2>2 DEF KInv, Bookkeeping, Lost, Stored, Has, Flushing
  <1>4. CASE phase # "stopping"
    <2>1. /\ phase' = "running" /\ pending' = {} /\ cur' = NoBlock
          /\ UNCHANGED <<mapBlockIndex, undo, coins, best>>
      BY <1>4 DEF WriteFinalBatch
    <2>2. TypeOK'
      BY <1>1, <2>1, <1>2 DEF KInv, TypeOK, WithWritten, Phases, MaybeBlock
    <2>3. diskIndex \subseteq mapBlockIndex /\ diskUndo \subseteq undo
      BY <1>1 DEF KInv, Bookkeeping, Flushing
    <2>4. Has(mapBlockIndex', undo', best')
      BY <1>2, <2>1, <2>3, HasMono DEF Stored
    <2> QED
      BY <1>1, <1>2, <2>1, <2>2, <2>3, <2>4 DEF KInv, Bookkeeping, Stored, Has, Flushing
  <1> QED BY <1>1, <1>3, <1>4

LEMMA WriteFailsKeeps ==
    ASSUME KInv, NEW S \in SUBSET pending, WriteFails(S) PROVE KInv'
  <1>1. /\ phase = "flush" /\ phase' = "running" /\ pending' = {}
        /\ coins' = (coins \ S) \cup (dbCoins \cap S)
        /\ ioErrors < MaxIoErrors /\ ioErrors' = ioErrors + 1
        /\ UNCHANGED <<dbCoins, dbBest, dbHeads, diskIndex, diskUndo, store, mapBlockIndex, undo,
                       best, cur, crashes, ignored>>
    BY DEF WriteFails, disk, chainstate
  <1>2. TypeOK'
    BY <1>1, BoundAssumption DEF KInv, TypeOK, Phases
  <1>3. diskIndex \subseteq mapBlockIndex /\ diskUndo \subseteq undo /\ Stored(best)
    BY <1>1 DEF KInv, Bookkeeping, Flushing
  <1>4. Has(mapBlockIndex, undo, best)
    BY <1>3, HasMono DEF Stored
  <1> QED
    BY <1>1, <1>2, <1>3, <1>4 DEF KInv, Bookkeeping, Stored, Has, Flushing

(* Losing the memory keeps what the disk knows.                            *)
LEMMA LostKeeps ==
    ASSUME KInv, Lost, UNCHANGED <<dbCoins, dbBest, dbHeads, diskIndex, diskUndo>>,
           store' \in Stores, crashes' \in 0..MaxCrashes, UNCHANGED <<ioErrors, ignored>>
    PROVE  KInv'
  <1>1. TypeOK'
    BY DEF KInv, TypeOK, Lost, Phases, MaybeBlock
  <1> QED BY <1>1 DEF KInv, Bookkeeping, Lost, Stored, Has, Flushing

(* A block the roll-back loop still has to undo is not the genesis block.  *)
LEMMA RollBackBlock ==
    ASSUME KInv, phase = "replay", ~AtFork
    PROVE  cur \in Tree /\ Parent[cur] \in Blocks
  <1>1. cur \in Blocks /\ ~OnBranch(cur, dbHeads[1]) /\ dbHeads[1] \in Blocks
    BY DEF KInv, TypeOK, Bookkeeping, AtFork, MaybeBlock
  <1>2. cur \in Tree
    BY <1>1, OnGenesis DEF Tree
  <1> QED BY <1>2, TreeAssumption

LEMMA KilledType == ASSUME KInv PROVE StoreWhenKilled \subseteq Stores
  <1>1. store \in Stores /\ store.root \in CommitIds /\ mapBlockIndex \subseteq MaybeBlock
    BY StoreFields DEF KInv, TypeOK, MaybeBlock
  <1>2. CommitDies(NoBlock) \subseteq Stores /\ RollbackDies(store.root) \subseteq Stores
    BY <1>1, CommitDiesType, RollbackDiesType DEF MaybeBlock
  <1>3. ASSUME NEW b \in mapBlockIndex PROVE CommitDies(b) \subseteq Stores
    BY <1>1, CommitDiesType
  <1>4. ASSUME NEW b \in Tree PROVE RollbackDies(Root[Parent[b]]) \subseteq Stores
    <2>1. Parent[b] \in Blocks
      BY TreeAssumption
    <2> QED BY <1>1, <2>1, RootType, RollbackDiesType
  <1>5. CASE phase = "running"
    <2>1. StoreWhenKilled = {store} \cup (WhileConnecting \cup WhileDisconnecting \cup WhileTrying)
      BY <1>5 DEF StoreWhenKilled
    <2>2. WhileConnecting \subseteq Stores
      BY <1>3 DEF WhileConnecting
    <2>3. WhileDisconnecting \subseteq Stores
      BY <1>4 DEF WhileDisconnecting
    <2>4. WhileTrying \subseteq Stores
      BY <1>2 DEF WhileTrying
    <2> QED BY <1>1, <2>1, <2>2, <2>3, <2>4
  <1>6. CASE phase = "replay" /\ ~AtFork
    <2>1. StoreWhenKilled = {store} \cup RollbackDies(Root[Parent[cur]])
      BY <1>6 DEF StoreWhenKilled
    <2> QED BY <1>1, <1>4, <1>6, <2>1, RollBackBlock
  <1>7. CASE phase # "running" /\ ~(phase = "replay" /\ ~AtFork)
    <2>1. StoreWhenKilled = {store}
      BY <1>7 DEF StoreWhenKilled
    <2> QED BY <1>1, <2>1
  <1> QED BY <1>5, <1>6, <1>7

LEMMA CrashKeeps == ASSUME KInv, Crash PROVE KInv'
  <1>1. crashes' \in 0..MaxCrashes
    BY BoundAssumption DEF Crash, KInv, TypeOK
  <1>2. store' \in Stores
    BY KilledType DEF Crash
  <1> QED BY <1>1, <1>2, LostKeeps DEF Crash, chainstate

(* The process also dies on its own, with the disk as it was.              *)
Dies == BatchWriteAsserts \/ ScopeExitThrows \/ RollBackFails \/ RollForwardDies

LEMMA DiesKeeps == ASSUME KInv, Dies PROVE KInv' /\ dbHeads' = dbHeads
  <1>1. Lost /\ UNCHANGED <<disk, crashes, ioErrors, ignored>>
    BY DEF Dies, BatchWriteAsserts, ScopeExitThrows, RollBackFails, RollForwardDies
  <1>2. crashes' \in 0..MaxCrashes /\ store' \in Stores
    BY <1>1 DEF KInv, TypeOK, disk
  <1> QED BY <1>1, <1>2, LostKeeps DEF disk, chainstate

(* Rolling the contract storage back touches nothing else.                 *)
LEMMA InVainKeeps == ASSUME KInv, ExecutedInVain PROVE KInv' /\ dbHeads' = dbHeads
  <1>1. store' \in Stores
    <2>1. store \in Stores /\ store.root \in CommitIds
      BY StoreFields DEF KInv, TypeOK
    <2> QED BY <2>1, RolledBackType DEF ExecutedInVain
  <1>2. UNCHANGED <<dbCoins, dbBest, dbHeads, diskIndex, diskUndo, phase, mapBlockIndex, undo,
                    coins, best, pending, cur, crashes, ioErrors, ignored>>
    BY DEF ExecutedInVain, chainstate, memory
  <1>3. TypeOK'
    BY <1>1, <1>2 DEF KInv, TypeOK
  <1> QED BY <1>2, <1>3 DEF KInv, Bookkeeping, Stored, Has, Flushing

LEMMA BootKeeps == ASSUME KInv, Boot PROVE KInv'
  <1>1. /\ phase = "down" /\ mapBlockIndex' = diskIndex \cup {Genesis} /\ undo' = diskUndo
        /\ coins' = dbCoins /\ best' = dbBest
        /\ UNCHANGED <<dbCoins, dbBest, dbHeads, diskIndex, diskUndo, store, pending, crashes, ioErrors, ignored>>
    BY DEF Boot, disk, chainstate
  <1>2. /\ phase' \in {"running", "replay"} /\ cur' \in MaybeBlock
        /\ phase' = "replay" => dbHeads # <<>>
    BY DEF Boot, KInv, TypeOK, MaybeBlock
  <1>3. TypeOK'
    BY <1>1, <1>2, TreeAssumption DEF KInv, TypeOK, Phases
  <1>4. Has(mapBlockIndex', undo', best')
    BY <1>1, HasMono DEF KInv, Bookkeeping, Stored
  <1> QED
    BY <1>1, <1>2, <1>3, <1>4 DEF KInv, Bookkeeping, Stored, Has, Flushing

LEMMA RollBackKeeps == ASSUME KInv, RollBack PROVE KInv'
  <1>1. /\ phase = "replay" /\ best' = Parent[cur] /\ cur' = Parent[cur]
        /\ coins' = Undone(coins, cur)
        /\ UNCHANGED <<dbCoins, dbBest, dbHeads, diskIndex, diskUndo, phase, mapBlockIndex,
                       undo, pending, crashes, ioErrors, ignored>>
    BY DEF RollBack, disk, chainstate
  <1>2. cur \in Tree /\ Parent[cur] \in Blocks
    BY RollBackBlock DEF RollBack
  <1>3. Spends[cur] \subseteq OutPoints
    BY <1>2, UtxoAssumption DEF Tree
  <1>4. store' \in Stores
    BY <1>2, RootType, RolledBackType DEF RollBack, CanDisconnect, KInv, TypeOK
  <1>5. TypeOK'
    BY <1>1, <1>2, <1>3, <1>4 DEF KInv, TypeOK, MaybeBlock, Undone
  <1> QED BY <1>1, <1>5 DEF KInv, Bookkeeping, Stored, Has, Flushing

LEMMA IgnoredKeeps == ASSUME KInv, RollForwardIgnored PROVE KInv'
  <1>1. /\ phase = "replay" /\ Behind /\ cur' = NextForward
        /\ UNCHANGED <<dbCoins, dbBest, dbHeads, diskIndex, diskUndo, store, phase, mapBlockIndex,
                       undo, coins, best, pending, crashes, ioErrors>>
        /\ ignored' = TRUE
    BY DEF RollForwardIgnored, AtFork, disk, chainstate
  <1>2. NextForward \in Blocks
    <2>1. dbHeads[1] \in Blocks
      BY <1>1 DEF KInv, TypeOK, Bookkeeping
    <2>2. nForkHeight \in Nat /\ Height[dbHeads[1]] \in Nat
      BY <2>1, TreeAssumption DEF nForkHeight, KInv, TypeOK, MaybeBlock
    <2>3. nForkHeight + 1 \in 0..Height[dbHeads[1]]
      BY <1>1, <2>2 DEF Behind
    <2>4. \A h \in 0..Height[dbHeads[1]] : GetAncestor[dbHeads[1]][h] \in Blocks
      BY <2>1, TreeAssumption
    <2> QED BY <2>3, <2>4 DEF NextForward
  <1>3. TypeOK'
    BY <1>1, <1>2 DEF KInv, TypeOK, MaybeBlock
  <1> QED BY <1>1, <1>3 DEF KInv, Bookkeeping, Stored, Has, Flushing

LEMMA ReplayDoneKeeps == ASSUME KInv, ReplayDone PROVE KInv'
  <1>1. /\ phase = "replay" /\ best' = dbHeads[1] /\ pending' = Modified
        /\ phase' = "replayflush"
        /\ UNCHANGED <<dbCoins, dbBest, dbHeads, diskIndex, diskUndo, store, mapBlockIndex, undo,
                       coins, cur, crashes, ioErrors, ignored>>
    BY DEF ReplayDone, AtFork, disk, chainstate
  <1>2. dbHeads[1] \in Blocks /\ Stored(dbHeads[1]) /\ dbHeads[1] # NoBlock
    BY <1>1, TreeAssumption DEF KInv, TypeOK, Bookkeeping
  <1>3. TypeOK'
    BY <1>1, <1>2 DEF KInv, TypeOK, MaybeBlock, Modified, Phases
  <1> QED
    BY <1>1, <1>2, <1>3 DEF KInv, Bookkeeping, Stored, Has, Flushing

(* Every step keeps the bookkeeping and leaves an interrupted transition   *)
(* alone.                                                                  *)
LEMMA NextKInv ==
    ASSUME KInv, [Next]_vars
    PROVE  KInv' /\ (dbHeads # <<>> => dbHeads' \in {dbHeads, <<>>})
  <1>1. CASE \E b \in Tree : AcceptBlock(b)
    BY <1>1, AcceptBlockKeeps DEF AcceptBlock, disk, chainstate
  <1>2. CASE \E b \in Blocks : ConnectTip(b)
    BY <1>2, ConnectTipKeeps DEF ConnectTip, disk, chainstate
  <1>3. CASE DisconnectTip
    BY <1>3, DisconnectTipKeeps DEF DisconnectTip, disk, chainstate
  <1>4. CASE WriteIndex
    BY <1>4, WriteIndexKeeps DEF WriteIndex
  <1>5. CASE \E stop \in BOOLEAN : FlushStateToDisk(stop)
    BY <1>5, FlushKeeps DEF FlushStateToDisk
  <1>6. CASE \E S \in SUBSET pending : WritePartialBatch(S)
    BY <1>6, PartialKeeps
  <1>7. CASE WriteFinalBatch
    BY <1>7, FinalKeeps
  <1>8. CASE \E S \in SUBSET pending : WriteFails(S)
    BY <1>8, WriteFailsKeeps DEF WriteFails, disk, chainstate
  <1>9. CASE Dies
    BY <1>9, DiesKeeps
  <1>10. CASE Crash
    BY <1>10, CrashKeeps DEF Crash, chainstate
  <1>11. CASE ExecutedInVain
    BY <1>11, InVainKeeps
  <1>12. CASE Boot
    BY <1>12, BootKeeps DEF Boot, disk, chainstate
  <1>13. CASE RollBack
    BY <1>13, RollBackKeeps DEF RollBack, chainstate
  <1>14. CASE RollForwardIgnored
    BY <1>14, IgnoredKeeps DEF RollForwardIgnored, disk, chainstate
  <1>15. CASE ReplayDone
    BY <1>15, ReplayDoneKeeps DEF ReplayDone, disk, chainstate
  <1>16. CASE UNCHANGED vars
    BY <1>16 DEF vars, disk, chainstate, memory, KInv, TypeOK, Bookkeeping, Stored, Has, Flushing
  <1> QED
    BY <1>1, <1>2, <1>3, <1>4, <1>5, <1>6, <1>7, <1>8, <1>9, <1>10, <1>11, <1>12,
       <1>13, <1>14, <1>15, <1>16 DEF Next, Dies

THEOREM BookkeepingHolds == Spec => []KInv
  <1>1. Init => KInv
    BY InitKInv
  <1>2. KInv /\ [Next]_vars => KInv'
    BY NextKInv
  <1> QED BY <1>1, <1>2, PTL DEF Spec

(* The variables keep their types.                                         *)
THEOREM RecoveryTypes == Spec => []TypeOK
  <1>1. KInv => TypeOK
    BY DEF KInv
  <1> QED BY <1>1, BookkeepingHolds, PTL

(* Start-up finds every block the chainstate names in the block index, and *)
(* the undo data of every block it has to roll back (validation.cpp:3445-  *)
(* 3551, 5614-5661), also after failed writes.                             *)
THEOREM HeadsAlwaysKnown == Spec => []HeadsKnown
  <1>1. KInv => HeadsKnown
    <2> SUFFICES ASSUME KInv PROVE HeadsKnown
      OBVIOUS
    <2>1. dbHeads # <<>> => /\ dbHeads[1] \in Blocks /\ dbHeads[2] \in MaybeBlock
                            /\ dbHeads[1] # NoBlock
      BY TreeAssumption DEF KInv, TypeOK
    <2>2. ASSUME NEW b \in Blocks, Stored(b) PROVE b \in diskIndex
      BY <2>2, OnSelf, TreeAssumption DEF Stored, Has
    <2>3. Known(diskIndex)
      BY <2>1, <2>2 DEF Known, KInv, TypeOK, Bookkeeping, MaybeBlock
    <2>4. ASSUME dbHeads # <<>>, dbHeads[2] # NoBlock, NEW b \in Blocks,
                 OnBranch(b, dbHeads[2]), ~OnBranch(b, dbHeads[1])
          PROVE  b \in diskUndo
      BY <2>1, <2>4, OnGenesis DEF KInv, Bookkeeping, Stored, Has
    <2> QED BY <2>3, <2>4 DEF HeadsKnown
  <1> QED BY <1>1, BookkeepingHolds, PTL

(* A transition that was interrupted is resumed or completed, never        *)
(* overwritten by another (txdb.cpp:92-100).                               *)
THEOREM TransitionsResume == Spec => OneTransition
  <1>1. KInv /\ [Next]_vars => [dbHeads # <<>> => dbHeads' \in {dbHeads, <<>>}]_vars
    BY NextKInv
  <1> QED BY <1>1, BookkeepingHolds, PTL DEF Spec, OneTransition

-----------------------------------------------------------------------------
(* The coins.  A set between two others agrees with one or the other at    *)
(* every outpoint.                                                         *)
Between(s, x, y) == s \subseteq x \cup y /\ x \cap y \subseteq s

Exact ==
    /\ dbHeads = <<>> => dbCoins = UtxoAt(dbBest)
    /\ dbHeads # <<>> => Between(dbCoins, UtxoAt(dbHeads[1]), UtxoAt(dbHeads[2]))
    /\ phase = "running" => dbHeads = <<>> /\ coins = UtxoAt(best)
    /\ Flushing => /\ coins = UtxoAt(best)
                   /\ Modified \subseteq pending
                   /\ dbHeads # <<>> => dbHeads[1] = best
    /\ phase = "replay" => Between(coins, UtxoAt(cur), UtxoAt(dbHeads[1]))

(* Connecting and disconnecting a block move between the UTXO sets of the  *)
(* block and its parent.                                                   *)
LEMMA MoveCoins ==
    ASSUME NEW b \in Tree
    PROVE  /\ Applied(UtxoAt(Parent[b]), b) = UtxoAt(b)
           /\ Undone(UtxoAt(b), b) = UtxoAt(Parent[b])
  <1>1. b # NoBlock /\ Parent[b] # NoBlock
    BY TreeAssumption DEF Tree
  <1>2. /\ Spends[b] \subseteq Utxo[Parent[b]]
        /\ Creates[b] \cap Utxo[Parent[b]] = {}
        /\ Utxo[b] = (Utxo[Parent[b]] \ Spends[b]) \cup Creates[b]
    BY UtxoAssumption
  <1> QED BY <1>1, <1>2 DEF UtxoAt, Applied, Undone

(* Undoing a block is right even when only part of it had been applied:    *)
(* the roll-back loop moves from "between b and y" to "between the parent  *)
(* and y".                                                                 *)
LEMMA UndoBetween ==
    ASSUME NEW b \in Tree, NEW s, NEW y, Between(s, UtxoAt(b), y)
    PROVE  Between(Undone(s, b), UtxoAt(Parent[b]), y)
  <1>1. b # NoBlock /\ Parent[b] # NoBlock
    BY TreeAssumption DEF Tree
  <1>2. /\ Spends[b] \subseteq Utxo[Parent[b]]
        /\ Creates[b] \cap Utxo[Parent[b]] = {}
        /\ Utxo[b] = (Utxo[Parent[b]] \ Spends[b]) \cup Creates[b]
    BY UtxoAssumption
  <1> QED BY <1>1, <1>2 DEF UtxoAt, Undone, Between

LEMMA InitExact == Init => Exact
  BY DEF Init, Exact, UtxoAt, Flushing

LEMMA ChainMoveExact ==
    ASSUME KInv, Exact, (\E b \in Blocks : ConnectTip(b)) \/ DisconnectTip
    PROVE  Exact'
  <1>1. /\ phase = "running" /\ phase' = phase
        /\ UNCHANGED <<dbCoins, dbBest, dbHeads>>
    BY DEF ConnectTip, DisconnectTip, disk, chainstate
  <1>2. coins = UtxoAt(best) /\ dbHeads = <<>>
    BY <1>1 DEF Exact
  <1>3. coins' = UtxoAt(best')
    <2>1. ASSUME NEW b \in Blocks, ConnectTip(b) PROVE coins' = UtxoAt(best')
      <3>1. CASE b = Genesis
        BY <3>1, <2>1, <1>2, UtxoAssumption, TreeAssumption DEF ConnectTip, UtxoAt
      <3>2. CASE b # Genesis
        <4>1. b \in Tree
          BY <3>2 DEF Tree
        <4>2. best = Parent[b] /\ coins' = Applied(coins, b) /\ best' = b
          BY <2>1, <3>2 DEF ConnectTip
        <4> QED BY <4>1, <4>2, <1>2, MoveCoins
      <3> QED BY <3>1, <3>2
    <2>2. ASSUME DisconnectTip PROVE coins' = UtxoAt(best')
      BY <2>2, <1>2, MoveCoins DEF DisconnectTip
    <2> QED BY <2>1, <2>2
  <1> QED BY <1>1, <1>2, <1>3 DEF Exact, Flushing, UtxoAt

LEMMA StartFlushExact ==
    ASSUME KInv, Exact, NEW stop \in BOOLEAN, FlushStateToDisk(stop) PROVE Exact'
  <1>1. /\ phase = "running" /\ phase' \in {"flush", "stopping"} /\ pending' = Modified
        /\ UNCHANGED <<dbCoins, dbBest, dbHeads, coins, best>>
    BY DEF FlushStateToDisk
  <1>2. Modified' = Modified
    BY <1>1 DEF Modified
  <1> QED BY <1>1, <1>2 DEF Exact, Flushing, UtxoAt

LEMMA PartialExact ==
    ASSUME KInv, Exact, NEW S \in SUBSET pending, WritePartialBatch(S) PROVE Exact'
  <1>1. /\ Flushing /\ phase' = phase /\ dbBest' = NoBlock /\ dbHeads' = <<best, OldTip>>
        /\ dbCoins' = WithWritten(S) /\ pending' = pending \ S
        /\ UNCHANGED <<coins, best, cur>>
    BY DEF WritePartialBatch
  <1>2. coins = UtxoAt(best) /\ Modified \subseteq pending
    BY <1>1 DEF Exact
  <1>3. dbHeads'[1] = best /\ dbHeads'[2] = OldTip /\ dbHeads' # <<>>
    BY <1>1
  <1>4. Between(dbCoins, UtxoAt(best), UtxoAt(OldTip))
    <2>1. CASE dbHeads = <<>>
      BY <2>1 DEF Exact, OldTip, Between
    <2>2. CASE dbHeads # <<>>
      BY <2>2, <1>1 DEF Exact, OldTip, KInv, Bookkeeping
    <2> QED BY <2>1, <2>2
  <1>5. Between(dbCoins', UtxoAt(best), UtxoAt(OldTip))
    BY <1>1, <1>2, <1>4 DEF Between, WithWritten
  <1>6. Modified' \subseteq pending'
    BY <1>1, <1>2 DEF Modified, WithWritten
  <1>7. UtxoAt(best)' = UtxoAt(best) /\ UtxoAt(dbHeads[2])' = UtxoAt(OldTip)
    BY <1>1, <1>3 DEF UtxoAt
  <1> QED BY <1>1, <1>2, <1>3, <1>5, <1>6, <1>7 DEF Exact, Flushing

LEMMA FinalExact == ASSUME KInv, Exact, WriteFinalBatch PROVE Exact'
  <1>1. /\ Flushing /\ dbBest' = best /\ dbHeads' = <<>>
        /\ dbCoins' = WithWritten(pending)
    BY DEF WriteFinalBatch
  <1>2. dbCoins' = coins /\ coins = UtxoAt(best)
    BY <1>1 DEF Exact, WithWritten, Modified
  <1>3. \/ phase' = "down"
        \/ phase' = "running" /\ UNCHANGED <<coins, best>>
    BY DEF WriteFinalBatch, Lost
  <1> QED BY <1>1, <1>2, <1>3 DEF Exact, Flushing, UtxoAt

(* A dead process leaves the database as it was.                           *)
LEMMA LostExact ==
    ASSUME Exact, Lost, UNCHANGED chainstate PROVE Exact'
  BY DEF Exact, Lost, Flushing, UtxoAt, chainstate

LEMMA BootExact == ASSUME KInv, Exact, Boot PROVE Exact'
  <1>1. /\ coins' = dbCoins /\ best' = dbBest /\ UNCHANGED <<dbCoins, dbBest, dbHeads>>
        /\ IF dbHeads = <<>> THEN phase' = "running"
                             ELSE phase' = "replay" /\ cur' = dbHeads[2]
    BY DEF Boot, disk, chainstate
  <1>2. CASE dbHeads = <<>>
    BY <1>1, <1>2 DEF Exact, Flushing, UtxoAt
  <1>3. CASE dbHeads # <<>>
    <2>1. Between(coins', UtxoAt(cur'), UtxoAt(dbHeads[1]))
      BY <1>1, <1>3 DEF Exact, Between
    <2> QED BY <1>1, <1>3, <2>1 DEF Exact, Flushing, UtxoAt
  <1> QED BY <1>2, <1>3

LEMMA RollBackExact == ASSUME KInv, Exact, RollBack PROVE Exact'
  <1>1. /\ phase = "replay" /\ phase' = phase /\ cur' = Parent[cur]
        /\ coins' = Undone(coins, cur)
        /\ UNCHANGED <<dbCoins, dbBest, dbHeads>>
    BY DEF RollBack, disk, chainstate
  <1>2. cur \in Tree
    BY RollBackBlock DEF RollBack
  <1>3. Between(coins', UtxoAt(cur'), UtxoAt(dbHeads[1]))
    BY <1>1, <1>2, UndoBetween DEF Exact
  <1> QED BY <1>1, <1>3 DEF Exact, Flushing, UtxoAt

(* When both loops are over the cache holds the new tip's UTXO set.        *)
LEMMA ReplayDoneExact == ASSUME KInv, Exact, ReplayDone PROVE Exact'
  <1>1. /\ phase = "replay" /\ phase' = "replayflush" /\ best' = dbHeads[1]
        /\ pending' = Modified /\ UNCHANGED <<dbCoins, dbBest, dbHeads, coins, cur>>
        /\ ~Behind /\ AtFork
    BY DEF ReplayDone, AtFork, disk, chainstate
  <1>2. dbHeads # <<>> /\ dbHeads[1] \in Blocks /\ Height[dbHeads[1]] \in Nat
    BY <1>1, TreeAssumption DEF KInv, TypeOK, Bookkeeping
  <1>3. UtxoAt(cur) = UtxoAt(dbHeads[1])
    <2>1. CASE cur = NoBlock
      <3>1. Height[dbHeads[1]] = 0
        BY <1>1, <1>2, <2>1 DEF Behind, nForkHeight
      <3>2. dbHeads[1] = Genesis
        BY <1>2, <3>1, TreeAssumption, OnGenesis DEF OnBranch
      <3> QED BY <2>1, <3>2, UtxoAssumption DEF UtxoAt
    <2>2. CASE cur # NoBlock
      <3>1. cur \in Blocks /\ Height[cur] \in Nat /\ OnBranch(cur, dbHeads[1])
        BY <1>1, <2>2, TreeAssumption DEF KInv, TypeOK, MaybeBlock, AtFork
      <3>2. Height[cur] = Height[dbHeads[1]]
        BY <1>1, <1>2, <2>2, <3>1 DEF Behind, nForkHeight, OnBranch
      <3> QED BY <1>2, <3>1, <3>2, TreeAssumption DEF OnBranch
    <2> QED BY <2>1, <2>2
  <1>4. coins = UtxoAt(dbHeads[1])
    BY <1>1, <1>3 DEF Exact, Between
  <1>5. Modified' = Modified
    BY <1>1 DEF Modified
  <1> QED BY <1>1, <1>2, <1>4, <1>5 DEF Exact, Flushing, UtxoAt

(* A fault is never forgotten.                                             *)
LEMMA NextFaultless ==
    ASSUME KInv, [Next]_vars, Faultless' PROVE Faultless
  <1>1. ASSUME UNCHANGED <<ioErrors, ignored>> PROVE Faultless
    BY <1>1 DEF Faultless
  <1>2. ASSUME NEW S \in SUBSET pending, WriteFails(S) PROVE FALSE
    <2>1. ioErrors \in Nat /\ ioErrors' = ioErrors + 1 /\ ioErrors' = 0
      BY <1>2, BoundAssumption DEF WriteFails, Faultless, KInv, TypeOK
    <2> QED BY <2>1
  <1>3. ASSUME RollForwardIgnored PROVE FALSE
    BY <1>3 DEF RollForwardIgnored, Faultless
  <1>4. CASE UNCHANGED vars
    BY <1>1, <1>4 DEF vars
  <1>5. CASE \/ \E b \in Tree : AcceptBlock(b)
             \/ \E b \in Blocks : ConnectTip(b)
             \/ DisconnectTip \/ WriteIndex
             \/ \E stop \in BOOLEAN : FlushStateToDisk(stop)
             \/ \E S \in SUBSET pending : WritePartialBatch(S)
             \/ WriteFinalBatch
    BY <1>1, <1>5 DEF AcceptBlock, ConnectTip, DisconnectTip, WriteIndex,
                      FlushStateToDisk, WritePartialBatch, WriteFinalBatch
  <1>6. CASE Dies \/ Crash \/ ExecutedInVain \/ Boot \/ RollBack \/ ReplayDone
    BY <1>1, <1>6 DEF Dies, BatchWriteAsserts, ScopeExitThrows, RollBackFails, RollForwardDies,
                      Crash, ExecutedInVain, Boot, RollBack, ReplayDone
  <1> QED BY <1>2, <1>3, <1>4, <1>5, <1>6 DEF Next, Dies

LEMMA NextExact ==
    ASSUME KInv, Faultless => Exact, [Next]_vars, Faultless' PROVE Exact'
  <1>0. Faultless /\ Exact
    BY NextFaultless
  <1>1. CASE \E b \in Tree : AcceptBlock(b)
    BY <1>0, <1>1 DEF AcceptBlock, disk, chainstate, Exact, Flushing, UtxoAt, Modified
  <1>2. CASE (\E b \in Blocks : ConnectTip(b)) \/ DisconnectTip
    BY <1>2, <1>0, ChainMoveExact
  <1>3. CASE WriteIndex
    BY <1>0, <1>3 DEF WriteIndex, memory, Exact, Flushing, UtxoAt, Modified
  <1>4. CASE \E stop \in BOOLEAN : FlushStateToDisk(stop)
    BY <1>4, <1>0, StartFlushExact
  <1>5. CASE \E S \in SUBSET pending : WritePartialBatch(S)
    BY <1>5, <1>0, PartialExact
  <1>6. CASE WriteFinalBatch
    BY <1>6, <1>0, FinalExact
  <1>7. ASSUME NEW S \in SUBSET pending, WriteFails(S) PROVE FALSE
    BY <1>7, <1>0 DEF WriteFails, Faultless
  <1>8. CASE Dies \/ Crash
    <2>1. Lost /\ UNCHANGED chainstate
      BY <1>8 DEF Dies, BatchWriteAsserts, ScopeExitThrows, RollBackFails, RollForwardDies,
                  Crash, disk
    <2> QED BY <1>0, <2>1, LostExact
  <1>9. CASE Boot
    BY <1>9, <1>0, BootExact
  <1>10. CASE RollBack
    BY <1>10, <1>0, RollBackExact
  <1>11. CASE RollForwardIgnored
    BY <1>11 DEF RollForwardIgnored, Faultless
  <1>12. CASE ReplayDone
    BY <1>12, <1>0, ReplayDoneExact
  <1>13. CASE ExecutedInVain
    BY <1>0, <1>13 DEF ExecutedInVain, chainstate, memory, Exact, Flushing, UtxoAt, Modified
  <1>14. CASE UNCHANGED vars
    BY <1>0, <1>14 DEF vars, disk, chainstate, memory, Exact, Flushing, UtxoAt, Modified
  <1> QED
    BY <1>1, <1>2, <1>3, <1>4, <1>5, <1>6, <1>7, <1>8, <1>9, <1>10, <1>11, <1>12,
       <1>13, <1>14 DEF Next, Dies

THEOREM ExactHolds == Spec => [](Faultless => Exact)
  <1>1. Init => (Faultless => Exact)
    BY InitExact
  <1>2. KInv /\ (Faultless => Exact) /\ [Next]_vars => (Faultless => Exact)'
    BY NextExact
  <1> QED BY <1>1, <1>2, BookkeepingHolds, PTL DEF Spec

(* A database with a best block holds exactly that block's UTXO set,       *)
(* however often the process dies while flushing or recovering             *)
(* (txdb.cpp:135).                                                         *)
THEOREM MarkedMeansExact == Spec => []DbExact
  <1>1. KInv /\ (Faultless => Exact) => DbExact
    BY DEF KInv, Bookkeeping, Exact, DbExact, UtxoAt
  <1> QED BY <1>1, BookkeepingHolds, ExactHolds, PTL

(* An interrupted database holds only records of its two heads, which is   *)
(* what makes undoing partly applied blocks right (validation.cpp:5656).   *)
THEOREM InterruptedIsBetween == Spec => []BetweenTips
  <1>1. (Faultless => Exact) => BetweenTips
    BY DEF Exact, Between, BetweenTips
  <1> QED BY <1>1, ExactHolds, PTL
=============================================================================
