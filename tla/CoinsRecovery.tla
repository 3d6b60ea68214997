---------------------------- MODULE CoinsRecovery ----------------------------
(***************************************************************************)
(* Writing the UTXO set to disk and recovering after the process died in   *)
(* the middle: FlushStateToDisk and ReplayBlocks (src/src/validation.cpp), *)
(* CCoinsViewDB::BatchWrite (src/src/txdb.cpp) and the start-up sequence   *)
(* of src/src/init.cpp.                                                    *)
(*                                                                         *)
(* A flush is a series of database batches.  The first one replaces        *)
(* DB_BEST_BLOCK by DB_HEAD_BLOCKS = <<new tip, old tip>>, the last one    *)
(* puts DB_BEST_BLOCK back; coins are written in hash-map order, so any    *)
(* subset may be on disk when the process dies.  CoinsViewCache shows that *)
(* a cache is a plain set of coins, so here a view is the set of its       *)
(* unspent outpoints and a best block.                                     *)
(*                                                                         *)
(* DisconnectBlock also rolls the contract storage back to the root that   *)
(* the previous block names, in the running node and in a replay, and      *)
(* fails when commit_info no longer has it.  That storage is on disk at    *)
(* once, while the coins wait for a flush.  CommitLog says what its        *)
(* operations leave; here the contract transactions of a block are one     *)
(* commit (ContractChain has them one by one, and the blocks that are      *)
(* refused because of their root), and contracts are active at every       *)
(* height above the genesis block.                                         *)
(***************************************************************************)
EXTENDS CommitLog, FiniteSets

CONSTANTS
    Blocks, NoBlock, Genesis,
    Parent,             \* pprev of every block but the genesis block
    Height,             \* nHeight
    GetAncestor,        \* GetAncestor[b][h]: the block at height h on b's branch
    OutPoints,
    Spends, Creates,    \* net inputs and outputs of a block
    Utxo,               \* the UTXO set that ends at a block
    Root,               \* the root state hash a block's coinbase names
    EnforceBIP30,       \* fEnforceBIP30 of the network's blocks (regtest: TRUE)
    MaxCrashes,         \* bound: how often the process is killed
    MaxIoErrors         \* bound: how many batch writes fail

Tree == Blocks \ {Genesis}

ASSUME TreeAssumption ==
    /\ Genesis \in Blocks
    /\ NoBlock \notin Blocks
    /\ Parent \in [Tree -> Blocks]
    /\ Height \in [Blocks -> Nat]
    /\ Height[Genesis] = 0
    /\ \A b \in Tree : Height[b] = Height[Parent[b]] + 1
    /\ \A b \in Blocks :
        /\ GetAncestor[b][Height[b]] = b
        /\ \A h \in 0..Height[b] :
            /\ GetAncestor[b][h] \in Blocks
            /\ Height[GetAncestor[b][h]] = h
            /\ h < Height[b] => GetAncestor[b][h] = GetAncestor[Parent[b]][h]

(* Block a is b or one of its ancestors.                                   *)
OnBranch(a, b) == Height[a] <= Height[b] /\ GetAncestor[b][Height[a]] = a

(* What block validation guarantees of a chain: inputs exist, outputs are  *)
(* new, and the genesis block's coinbase is not in the set.                *)
ASSUME UtxoAssumption ==
    /\ Spends \in [Blocks -> SUBSET OutPoints]
    /\ Creates \in [Blocks -> SUBSET OutPoints]
    /\ Utxo \in [Blocks -> SUBSET OutPoints]
    /\ Utxo[Genesis] = {}
    /\ \A b \in Tree :
        /\ Spends[b] \subseteq Utxo[Parent[b]]
        /\ Creates[b] \cap Utxo[Parent[b]] = {}
        /\ Utxo[b] = (Utxo[Parent[b]] \ Spends[b]) \cup Creates[b]

(* A root hash stands for the blocks whose contract transactions led to it. *)
ASSUME RootAssumption ==
    /\ Root \in [Blocks -> Seq(Blocks)]
    /\ Root[Genesis] = EMPTY_COMMIT_ID
    /\ \A b \in Tree : Root[b] \in {Root[Parent[b]], Append(Root[Parent[b]], b)}

HasContracts(b) == b \in Tree /\ Root[b] # Root[Parent[b]]

ASSUME BoundAssumption ==
    EnforceBIP30 \in BOOLEAN /\ MaxCrashes \in Nat /\ MaxIoErrors \in Nat

VARIABLES
    dbCoins, dbBest, dbHeads,   \* the chainstate database
    diskIndex, diskUndo,        \* the block tree database and the rev files
    store,                      \* the contract storage
    phase,                      \* what the process is doing
    mapBlockIndex, undo,        \* blocks with data, blocks with BLOCK_HAVE_UNDO
    coins, best,                \* what the cache over the database shows
    pending,                    \* modified entries BatchWrite has not reached
    cur,                        \* ReplayBlocks: the block the cache stands at
    crashes, ioErrors,
    ignored                     \* a replay has gone on after a failed ConnectBlock

chainstate == <<dbCoins, dbBest, dbHeads, diskIndex, diskUndo>>
disk == <<chainstate, store>>
memory == <<mapBlockIndex, undo, coins, best, pending, cur>>
vars == <<disk, phase, memory, crashes, ioErrors, ignored>>

Phases == {"down", "running", "flush", "stopping", "replay", "replayflush"}
MaybeBlock == Blocks \cup {NoBlock}

(* NoBlock stands for a transaction that was executed on its own. *)
CommitIds == Seq(MaybeBlock)
Stores == [root : CommitIds, top : CommitIds, rows : Seq(CommitIds), sound : BOOLEAN]

TypeOK ==
    /\ dbCoins \subseteq OutPoints
    /\ dbBest \in MaybeBlock
    /\ dbHeads \in {<<>>} \cup (Blocks \X MaybeBlock)
    /\ diskIndex \subseteq Blocks /\ diskUndo \subseteq Blocks
    /\ store \in Stores
    /\ phase \in Phases
    /\ mapBlockIndex \subseteq Blocks /\ undo \subseteq Blocks
    /\ coins \subseteq OutPoints /\ pending \subseteq OutPoints
    /\ best \in MaybeBlock /\ cur \in MaybeBlock
    /\ crashes \in 0..MaxCrashes /\ ioErrors \in 0..MaxIoErrors
    /\ ignored \in BOOLEAN

Init ==
    /\ dbCoins = {} /\ dbBest = NoBlock /\ dbHeads = <<>>
    /\ diskIndex = {} /\ diskUndo = {}
    /\ store = NewStore
    /\ phase = "down"
    /\ mapBlockIndex = {} /\ undo = {}
    /\ coins = {} /\ best = NoBlock /\ pending = {} /\ cur = NoBlock
    /\ crashes = 0 /\ ioErrors = 0 /\ ignored = FALSE

-----------------------------------------------------------------------------
(* The running node.  cs_main is held throughout each of these.            *)

(* AcceptBlock: a block whose parent is known is stored.                   *)
AcceptBlock(b) ==
    /\ phase = "running"
    /\ b \notin mapBlockIndex /\ Parent[b] \in mapBlockIndex
    /\ mapBlockIndex' = mapBlockIndex \cup {b}
    /\ UNCHANGED <<disk, phase, undo, coins, best, pending, cur, crashes, ioErrors, ignored>>

(* ConnectBlock's effect on the coins.                                     *)
Applied(s, b) == (s \ Spends[b]) \cup Creates[b]

(* Mutant: the outputs of the block are left behind.                       *)
Undone_KeepsOutputs(s, b) == s \cup Spends[b]

(* DisconnectBlock: outputs are removed, inputs restored.  Both are        *)
(* idempotent, which replay relies on.                                     *)
Undone(s, b) == (s \ Creates[b]) \cup Spends[b]

(* DISCONNECT_OK rather than DISCONNECT_UNCLEAN. *)
Clean(s, b) == Creates[b] \subseteq s /\ Spends[b] \cap s = {}

(* Its undo data can be read, and the root of the block before is found:   *)
(* otherwise DISCONNECT_FAILED.                                            *)
CanDisconnect(b) == b \in undo /\ Found(store, Root[Parent[b]])
DisconnectMayFail(b) == b \notin undo \/ RollbackMayThrow(store, Root[Parent[b]])

(* ConnectBlock finds an output of the block present: a BIP30 violation.   *)
OverwriteReported(b) == EnforceBIP30 /\ Creates[b] \cap coins # {}

(* ConnectTip: the inputs exist, the contract transactions lead to the     *)
(* root the block names, the scratch view is flushed into pcoinsTip, the   *)
(* undo data written.                                                      *)
ConnectTip(b) ==
    /\ phase = "running"
    /\ b \in mapBlockIndex
    /\ IF b = Genesis
       THEN best = NoBlock /\ UNCHANGED <<coins, undo, store>>
       ELSE /\ best = Parent[b]
            /\ Spends[b] \subseteq coins /\ ~OverwriteReported(b)
            /\ store.root = Root[Parent[b]]
            /\ IF HasContracts(b)
               THEN MayCommit(store, Root[b]) /\ store' = Committed(store, Root[b])
               ELSE UNCHANGED store
            /\ coins' = Applied(coins, b)
            /\ undo' = undo \cup {b}
    /\ best' = b
    /\ UNCHANGED <<chainstate, phase, mapBlockIndex, pending, cur, crashes, ioErrors, ignored>>

(* DisconnectTip gives up when DisconnectBlock's result is unclean, which  *)
(* has rolled the contract storage back by then.                           *)
DisconnectTip ==
    /\ phase = "running"
    /\ best \in Tree
    /\ CanDisconnect(best)
    /\ store' = RolledBack(store, Root[Parent[best]])
    /\ IF Clean(coins, best)
       THEN coins' = Undone(coins, best) /\ best' = Parent[best]
       ELSE UNCHANGED <<coins, best>>
    /\ UNCHANGED <<chainstate, phase, mapBlockIndex, undo, pending, cur, crashes, ioErrors,
                   ignored>>

-----------------------------------------------------------------------------
(* Flushing.                                                               *)

(* The entries whose write changes the database.                           *)
Modified == (coins \ dbCoins) \cup (dbCoins \ coins)

(* The block files, then the block index: FlushStateToDisk writes these    *)
(* first, on their own (periodic write) or before the coins.               *)
WriteIndex ==
    /\ phase = "running"
    /\ diskIndex' = mapBlockIndex
    /\ diskUndo' = undo
    /\ UNCHANGED <<dbCoins, dbBest, dbHeads, store, phase, memory, crashes, ioErrors, ignored>>

(* Mutant: the coins are flushed without writing the block index first.    *)
FlushStateToDisk_SkipsIndex(stop) ==
    /\ phase = "running"
    /\ best # NoBlock
    /\ pending' = Modified
    /\ phase' = IF stop THEN "stopping" ELSE "flush"
    /\ UNCHANGED <<disk, mapBlockIndex, undo, coins, best, cur, crashes, ioErrors, ignored>>

(* The full flush of FlushStateToDisk, up to the first coin batch; also    *)
(* the flush of Shutdown.                                                  *)
FlushStateToDisk(stop) ==
    /\ phase = "running"
    /\ best # NoBlock
    /\ diskIndex' = mapBlockIndex
    /\ diskUndo' = undo
    /\ pending' = Modified
    /\ phase' = IF stop THEN "stopping" ELSE "flush"
    /\ UNCHANGED <<dbCoins, dbBest, dbHeads, store, mapBlockIndex, undo, coins, best, cur,
                   crashes, ioErrors, ignored>>

Flushing == phase \in {"flush", "stopping", "replayflush"}

(* BatchWrite's old_tip: the best block on disk, or the old head of the    *)
(* transition that was interrupted.                                        *)
OldTip ==
    IF dbBest # NoBlock THEN dbBest
    ELSE IF dbHeads # <<>> THEN dbHeads[2]
    ELSE NoBlock

(* Mutant: the assertion is compiled out.                                  *)
MayWrite_Always == TRUE

(* BatchWrite's assertion: an interrupted transition may only be resumed   *)
(* towards the same tip.                                                   *)
MayWrite == dbBest = NoBlock /\ dbHeads # <<>> => dbHeads[1] = best

(* The coins of the entries S reach the database.                          *)
WithWritten(S) == (dbCoins \ S) \cup (coins \cap S)

(* Mutant: the old and the new tip are swapped.                            *)
WritePartialBatch_HeadsSwapped(S) ==
    /\ Flushing
    /\ MayWrite
    /\ S # {}
    /\ dbCoins' = WithWritten(S)
    /\ dbBest' = NoBlock
    /\ dbHeads' = <<OldTip, best>>
    /\ pending' = pending \ S
    /\ UNCHANGED <<diskIndex, diskUndo, store, phase, mapBlockIndex, undo, coins, best, cur,
                   crashes, ioErrors, ignored>>

(* A batch that got full: the head markers and some entries.               *)
WritePartialBatch(S) ==
    /\ Flushing
    /\ MayWrite
    /\ S # {}
    /\ dbCoins' = WithWritten(S)
    /\ dbBest' = NoBlock
    /\ dbHeads' = <<best, OldTip>>
    /\ pending' = pending \ S
    /\ UNCHANGED <<diskIndex, diskUndo, store, phase, mapBlockIndex, undo, coins, best, cur,
                   crashes, ioErrors, ignored>>

(* The process is killed: the memory is gone.                              *)
Lost ==
    /\ phase' = "down"
    /\ mapBlockIndex' = {} /\ undo' = {}
    /\ coins' = {} /\ best' = NoBlock /\ pending' = {} /\ cur' = NoBlock

(* Mutant: the entries collected since the last full batch are dropped.    *)
WriteFinalBatch_OnlyMarkers ==
    /\ Flushing
    /\ MayWrite
    /\ dbBest' = best
    /\ dbHeads' = <<>>
    /\ IF phase = "stopping"
       THEN Lost
       ELSE /\ phase' = "running" /\ pending' = {} /\ cur' = NoBlock
            /\ UNCHANGED <<mapBlockIndex, undo, coins, best>>
    /\ UNCHANGED <<dbCoins, diskIndex, diskUndo, store, crashes, ioErrors, ignored>>

(* The last batch, and what its caller does next: carry on, exit, or load  *)
(* the chain tip from the recovered database.                              *)
WriteFinalBatch ==
    /\ Flushing
    /\ MayWrite
    /\ dbCoins' = WithWritten(pending)
    /\ dbBest' = best
    /\ dbHeads' = <<>>
    /\ IF phase = "stopping"
       THEN Lost
       ELSE /\ phase' = "running" /\ pending' = {} /\ cur' = NoBlock
            /\ UNCHANGED <<mapBlockIndex, undo, coins, best>>
    /\ UNCHANGED <<diskIndex, diskUndo, store, crashes, ioErrors, ignored>>

(* WriteBatch throws.  The entries of the batch have already been erased   *)
(* from the cache, so from now on it shows the database's version of them. *)
(* AbortNode asks for a shutdown; until it comes the node carries on.      *)
WriteFails(S) ==
    /\ phase = "flush"
    /\ MayWrite
    /\ ioErrors < MaxIoErrors
    /\ coins' = (coins \ S) \cup (dbCoins \cap S)
    /\ pending' = {}
    /\ phase' = "running"
    /\ ioErrors' = ioErrors + 1
    /\ UNCHANGED <<disk, mapBlockIndex, undo, best, cur, crashes, ignored>>

(* The assertion fails and aborts the process.                             *)
BatchWriteAsserts ==
    /\ Flushing
    /\ ~MayWrite
    /\ Lost
    /\ UNCHANGED <<disk, crashes, ioErrors, ignored>>

(* The roll-back loop has reached pindexFork, the first block of the old   *)
(* branch that is also on the new one.  Without an old tip there is        *)
(* nothing to roll back.                                                   *)
AtFork == phase = "replay" /\ (cur # NoBlock => OnBranch(cur, dbHeads[1]))

(* What a death inside a commit for x, or inside a rollback, leaves of the *)
(* contract storage; or one right after it, before the coins are flushed.  *)
CommitDies(x) ==
    LET id == Append(store.root, x)
    IN  IF MayCommit(store, id)
        THEN {Committed(store, id)} \cup CutCommit(store, id) \cup TornCommit(store, id) ELSE {}

RollbackDies(dest) ==
    IF Found(store, dest) THEN {RolledBack(store, dest)} \cup CutRollback(store, dest) ELSE {}

(* The running node may have been connecting a block, disconnecting the    *)
(* tip, or trying a transaction out.                                       *)
WhileConnecting ==
    UNION {CommitDies(b) : b \in {c \in mapBlockIndex : HasContracts(c) /\ Parent[c] = best}}

WhileDisconnecting == IF best \in Tree THEN RollbackDies(Root[Parent[best]]) ELSE {}

WhileTrying == CommitDies(NoBlock) \cup RollbackDies(store.root)

StoreWhenKilled ==
    {store} \cup
    CASE phase = "running" -> WhileConnecting \cup WhileDisconnecting \cup WhileTrying
      [] phase = "replay" /\ ~AtFork -> RollbackDies(Root[Parent[cur]])
      [] OTHER -> {}

Crash ==
    /\ phase # "down"
    /\ crashes < MaxCrashes
    /\ crashes' = crashes + 1
    /\ store' \in StoreWhenKilled
    /\ Lost
    /\ UNCHANGED <<chainstate, ioErrors, ignored>>

(* A transaction, a template or a block is executed and not kept: a scope  *)
(* exit rolls the contract storage back to the root it was at.             *)
ExecutedInVain ==
    /\ phase = "running"
    /\ Found(store, store.root)
    /\ store' = RolledBack(store, store.root)
    /\ UNCHANGED <<chainstate, phase, memory, crashes, ioErrors, ignored>>

(* The rollback throws inside the scope exit: the process is terminated.   *)
ScopeExitThrows ==
    /\ phase = "running"
    /\ RollbackMayThrow(store, store.root)
    /\ Lost
    /\ UNCHANGED <<disk, crashes, ioErrors, ignored>>

-----------------------------------------------------------------------------
(* Start-up.                                                               *)

(* The blocks ReplayBlocks looks up must be in the index it has loaded     *)
(* (else "reorganization to unknown block requested").                     *)
Known(index) ==
    IF dbHeads = <<>> THEN dbBest \in index \cup {NoBlock}
    ELSE dbHeads[1] \in index /\ dbHeads[2] \in index \cup {NoBlock}

(* LoadBlockIndex and LoadGenesisBlock, then ReplayBlocks up to its loops, *)
(* or LoadChainTip when the database is consistent.                        *)
Boot ==
    /\ phase = "down"
    /\ mapBlockIndex' = diskIndex \cup {Genesis}
    /\ undo' = diskUndo
    /\ Known(mapBlockIndex')
    /\ coins' = dbCoins
    /\ best' = dbBest
    /\ IF dbHeads = <<>>
       THEN phase' = "running" /\ cur' = NoBlock
       ELSE phase' = "replay" /\ cur' = dbHeads[2]
    /\ UNCHANGED <<disk, pending, crashes, ioErrors, ignored>>

(* Mutant: the loop does not move to the previous block.                   *)
RollBack_Stays ==
    /\ phase = "replay"
    /\ ~AtFork
    /\ CanDisconnect(cur)
    /\ coins' = Undone(coins, cur)
    /\ store' = RolledBack(store, Root[Parent[cur]])
    /\ best' = Parent[cur]
    /\ UNCHANGED <<chainstate, phase, mapBlockIndex, undo, pending, cur, crashes, ioErrors,
                   ignored>>

(* One round of the roll-back loop.  An unclean result is accepted.        *)
RollBack ==
    /\ phase = "replay"
    /\ ~AtFork
    /\ CanDisconnect(cur)
    /\ coins' = Undone(coins, cur)
    /\ store' = RolledBack(store, Root[Parent[cur]])
    /\ best' = Parent[cur]
    /\ cur' = Parent[cur]
    /\ UNCHANGED <<chainstate, phase, mapBlockIndex, undo, pending, crashes, ioErrors, ignored>>

(* DISCONNECT_FAILED: ReplayBlocks returns false and the node does not     *)
(* start.                                                                  *)
RollBackFails ==
    /\ phase = "replay"
    /\ ~AtFork
    /\ DisconnectMayFail(cur)
    /\ Lost
    /\ UNCHANGED <<disk, crashes, ioErrors, ignored>>

(* The roll-forward loop runs from nForkHeight + 1 up to the new tip.      *)
nForkHeight == IF cur = NoBlock THEN 0 ELSE Height[cur]

Behind == nForkHeight < Height[dbHeads[1]]

NextForward == GetAncestor[dbHeads[1]][nForkHeight + 1]

(* ConnectBlock reports a BIP30 violation, and RollforwardBlock ignores    *)
(* the result.                                                             *)
RollForwardIgnored ==
    /\ AtFork
    /\ Behind
    /\ best = Parent[NextForward]
    /\ OverwriteReported(NextForward)
    /\ cur' = NextForward
    /\ ignored' = TRUE
    /\ UNCHANGED <<disk, phase, mapBlockIndex, undo, coins, best, pending, crashes, ioErrors>>

(* ConnectBlock does not return: its assertion that the view stands at the *)
(* previous block fails, or it reads the height of chainActive.Tip(),      *)
(* which is null until LoadChainTip has run.                               *)
RollForwardDies ==
    /\ AtFork
    /\ Behind
    /\ best = Parent[NextForward] => ~OverwriteReported(NextForward)
    /\ Lost
    /\ UNCHANGED <<disk, crashes, ioErrors, ignored>>

(* Both loops are done: SetBestBlock and Flush.                            *)
ReplayDone ==
    /\ AtFork
    /\ ~Behind
    /\ best' = dbHeads[1]
    /\ pending' = Modified
    /\ phase' = "replayflush"
    /\ UNCHANGED <<disk, mapBlockIndex, undo, coins, cur, crashes, ioErrors, ignored>>

Next ==
    \/ \E b \in Tree : AcceptBlock(b)
    \/ \E b \in Blocks : ConnectTip(b)
    \/ DisconnectTip
    \/ WriteIndex
    \/ \E stop \in BOOLEAN : FlushStateToDisk(stop)
    \/ \E S \in SUBSET pending : WritePartialBatch(S)
    \/ WriteFinalBatch
    \/ \E S \in SUBSET pending : WriteFails(S)
    \/ BatchWriteAsserts
    \/ Crash
    \/ ExecutedInVain
    \/ ScopeExitThrows
    \/ Boot
    \/ RollBack
    \/ RollBackFails
    \/ RollForwardIgnored
    \/ RollForwardDies
    \/ ReplayDone

(* A flush and the start-up sequence run to their end in one thread, and   *)
(* the operator restarts a node that is down.                              *)
Fairness ==
    /\ WF_vars(Boot) /\ WF_vars(RollBack \/ RollBackFails)
    /\ WF_vars(RollForwardIgnored) /\ WF_vars(RollForwardDies)
    /\ WF_vars(ReplayDone) /\ WF_vars(WriteFinalBatch) /\ WF_vars(BatchWriteAsserts)

Spec == Init /\ [][Next]_vars /\ Fairness

-----------------------------------------------------------------------------
(* Correctness.                                                            *)

(* No batch write has failed, and no replay has gone on after a block it   *)
(* could not connect.                                                      *)
Faultless == ioErrors = 0 /\ ~ignored

(* Whenever DB_BEST_BLOCK is present, the coins on disk are exactly the    *)
(* UTXO set of that block, after any number of crashes: "mark the database *)
(* as consistent with hashBlock" (txdb.cpp:135) means what it says.        *)
DbExact == Faultless /\ dbBest # NoBlock => dbCoins = Utxo[dbBest]

(* While DB_HEAD_BLOCKS is present, every coin record is the old tip's or  *)
(* the new tip's version, whichever batches got through and however often  *)
(* the recovery was itself interrupted.  Rolling back relies on it         *)
(* (validation.cpp:5656).                                                  *)
UtxoAt(b) == IF b = NoBlock THEN {} ELSE Utxo[b]

BetweenTips ==
    Faultless /\ dbHeads # <<>> =>
        /\ dbCoins \subseteq UtxoAt(dbHeads[1]) \cup UtxoAt(dbHeads[2])
        /\ UtxoAt(dbHeads[1]) \cap UtxoAt(dbHeads[2]) \subseteq dbCoins

(* The block index on disk always knows the blocks the chainstate refers   *)
(* to, and has the undo data of those a replay must roll back, since       *)
(* FlushStateToDisk writes it first: start-up never stops at               *)
(* "reorganization to unknown block requested" (validation.cpp:5630) or    *)
(* "failure reading undo data" (1752).                                     *)
HeadsKnown ==
    /\ Known(diskIndex)
    /\ dbHeads # <<>> /\ dbHeads[2] # NoBlock =>
         \A b \in Blocks :
             OnBranch(b, dbHeads[2]) /\ ~OnBranch(b, dbHeads[1]) => b \in diskUndo

(* An interrupted transition is completed or resumed, never replaced by    *)
(* another one: the two heads stay until DB_BEST_BLOCK is back             *)
(* (txdb.cpp:97).                                                          *)
OneTransition == [][dbHeads # <<>> => dbHeads' \in {dbHeads, <<>>}]_vars

(* A node that went down during a flush to an ancestor of the old tip      *)
(* brings the database back to a consistent state, however often the       *)
(* replay is interrupted (ReplayBlocks, validation.cpp:5616), if the       *)
(* contract storage has the new tip's root and nothing newer, and of the   *)
(* blocks to roll back only the old tip has contract transactions.         *)
(* Otherwise a replay asks for a root the running node, or an earlier      *)
(* replay, has taken out of commit_info, and fails each time.              *)
RollbackOnly ==
    /\ dbHeads # <<>> /\ dbHeads[2] # NoBlock
    /\ OnBranch(dbHeads[1], dbHeads[2])
    /\ \A b \in Blocks :
          OnBranch(dbHeads[1], b) /\ OnBranch(b, dbHeads[2]) /\ b # dbHeads[2]
              => Root[b] = Root[dbHeads[1]]
    /\ Found(store, Root[dbHeads[1]]) /\ NothingNewer(store, Root[dbHeads[1]])

RollbackRecovers == phase = "down" /\ RollbackOnly ~> dbHeads = <<>>

(* Every crash during chainstate writing is recovered from by restarting   *)
(* (test/functional/dbcrash.py:24-26: "if node crashed on/after            *)
(* submitting: restart until recovery succeeds").                          *)
RecoverySucceeds == phase = "down" ~> phase = "running"
=============================================================================
