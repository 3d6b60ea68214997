# UnitedBitcoin in TLA+

Specifications of the parts of this node (a Bitcoin Core 0.15 derivative with
smart contracts and proof of stake) whose correctness depends on orders of
events: caches written back late, two databases without a common transaction,
processes that die between two writes, threads that share a queue. TLC checks
each on a small instance; for three of the six components TLAPS proves the
safety properties for all values of the constants. Paths below are those of
the repository checkout, mounted at `src/`.

## The system

| Part | State | Operations | Hard behaviour |
|---|---|---|---|
| UTXO caches (`coins.cpp`) | `cacheCoins` with DIRTY/FRESH flags, `hashBlock`, `cachedCoinsUsage`, the coin database | fetch, add, spend, uncache, set best block, flush, discard | a wrong flag shows several calls and two levels later |
| Chainstate on disk (`validation.cpp`, `txdb.cpp`, `init.cpp`) | DB_BEST_BLOCK, DB_HEAD_BLOCKS, coin records, block index, undo files | flush in batches, crash, replay | death between batches, recovery interrupted again, failed writes |
| Contract storage (`contract_storage.cpp`) | LevelDB keys, SQLite `commit_info`, two root hashes | save, commit, roll back, reset root | undo by hand across two databases |
| Contract state of the chain (`validation.cpp`, `miner.cpp`) | tip, block index, root hashes, scope exits | connect, disconnect, test, mine, verify, restart | contract commits are durable at once, coins are not |
| Script check queue (`checkqueue.h`) | queue, `nTodo`, `nIdle`, `nTotal`, `fAllOk` | add, wait, take a batch, count off | lost wake-ups, stale verdicts, interruptions |
| Block index and chain selection (`validation.cpp`, `chain.cpp`) | `mapBlockIndex`, `setBlockIndexCandidates`, `mapBlocksUnlinked` | headers, block data, activate, invalidate, reconsider, precious | data out of order, failed branches, the lock released half-way |
| Memory pool (`txmempool.cpp`) | entries, links, ancestor and descendant totals | accept, replace, remove for block or reorganisation, expire, trim | totals kept incrementally |
| Scheduler and validation interface | task queue, callback queue | schedule, drain, stop | order and mutual exclusion of callbacks |
| Block download (`net_processing.cpp`) | blocks in flight, stalling timers | headers, requests, timeouts, compact blocks | late and duplicate answers |
| Version bits, address manager, pruning, wallet | caches, buckets, files, balances | | consistency after long sequences of calls |

`ActivateBestChain` chooses the chain, and `ConnectBlock` ties the first five
together: it works on a scratch cache above
`pcoinsTip`, hands script checks to the queue, executes contract transactions
against the contract storage, and its result moves the tip; `FlushStateToDisk`
later writes coins and index. `PROJECT.json` lists every part, the ones left
out with the reason.

## Modules

| Module | Models | Extends / uses |
|---|---|---|
| `UtxoViews` | abstract specification: a stack of plain views, each a map from outpoints to coins and a best block | |
| `CoinsViewCache` | `CCoinsViewCache`, `CCoinsViewDB` as seen by it | refines `UtxoViews` |
| `CoinsRecovery` | `FlushStateToDisk`, `BatchWrite`, `ReplayBlocks`, start-up | a view is a set of coins, as `CoinsViewCache` justifies; `CommitLog` |
| `ContractStorage` | `ContractStorageService`, one write at a time | |
| `CommitLog` | the contract storage as its callers see it: both roots and the rows of `commit_info`, and what a commit or rollback leaves when it succeeds, fails or is cut short | |
| `ContractChain` | the root hash while the chain moves | a commit or rollback is one step, described by `CommitLog` |
| `CheckQueue` | `CCheckQueue`, `CCheckQueueControl` | |
| `BlockIndex` | `CChainState`: block tree, candidates, choice of the active chain | connecting a block is one step; what is below it is in the modules above |
| `MC*` | instances for TLC | the module of that name |
| `CoinsViewCacheProofs`, `CoinsRecoveryProofs`, `CheckQueueProofs` | theorems | the module of that name |

A definition such as `Return_KeepsStatus`, the name of another one with the
mistake as a suffix, is a mutant when `PROJECT.json` lists it among them. It is
not used by any specification; putting it in place of the original must make
TLC report the property listed with it. (Suffixes like those of
`AcceptBlock_Ignored` name the outcomes of one handler.)

### CoinsViewCache

Level 0 is the database, level 1 `pcoinsTip`, level 2 the scratch view of a
block. `cacheCoins[l][o]` is an entry (coin, flags) or `NoEntry`. One action
per method: `GetCoin` (fills every level it reads through), `AddCoin`,
`SpendCoin`, `Uncache`, `GetBestBlock` (memoises), `SetBestBlock`, `FlushView`
(level 2 into 1), `FlushTip` (level 1 into the database); `Open` and `Discard`
create and drop a cache. The refinement mapping sends a stack of caches to the
views a caller can observe: eviction and fetching become stuttering, a flush
becomes the copy of one view to the one below.

### CoinsRecovery

`dbCoins`, `dbBest`, `dbHeads`, `diskIndex` and `diskUndo` survive a crash, the
rest does not. A flush is any number of `WritePartialBatch` steps, each with an
arbitrary set of entries (the cache is iterated in hash order), and one
`WriteFinalBatch`. `Crash` may fall between any two steps; `WriteFails` is an
exception of `WriteBatch`, after which the erased entries are gone from the
cache (`txdb.cpp:120`). `Boot`, `RollBack`, `RollForwardIgnored`,
`RollForwardDies` and `ReplayDone` are the start-up sequence. `store` is the
contract storage, which `DisconnectBlock` rolls back (`validation.cpp:1825`)
both when the running node disconnects its tip and when a replay rolls back:
a commit that is not found makes it fail (`CanDisconnect`, `RollBackFails`).
What it has rolled back stays so whatever becomes of the coins. `ExecutedInVain`
is a block whose contract transactions are executed and then taken back,
`ScopeExitThrows` the case that they cannot be; a `Crash` may also leave a
commit or a rollback half done.

### ContractStorage

`db` is LevelDB, `sql` the rows of `commit_info`. An operation is translated
into its program, the sequence of single writes the code makes, and `Step`
performs one; `Throws` and `WriteFails` end it early by the scope-exit handler
(`Abort`) with its snapshot and `changed_leveldb_keys`, `Death` by the end of
the process. A commit may begin while a reset is pending and then starts with a
rollback, inside the transaction or before it. A commit id, in the
code a hash of old root, change and height, is the sequence of changes since
the empty root. Storage diffs are pairs of an old and a new value. The keys
transaction id => events are left out; so is the loss of LevelDB writes the
operating system has not yet put on disk.

### ContractChain

One operation at a time holds `cs_main`; a step executes one contract
transaction, so that the process can die between two commits. `BlockRoot` is
the root a node computes when it connects a block to its parent, with the
height of the active tip in every commit id as `validation.cpp:2975` has it.
`goal` is the progress of `ActivateBestChainStep`, `job` the contract work in
progress together with the root its scope exit rolls back to (`base`), `store`
the contract storage as in `CommitLog`. The process can also die inside a
commit or a rollback (`used.cut`), between the root of a commit and its row
(`used.torn`), or because a scope exit's rollback throws. A template leaves out
transactions that fail or do not fit (`SkipTx`); `VerifyErrs` and
`VerifyUnconnectable` are the early returns of `VerifyDB`; a flush may come in
the middle of a reorganisation.

### CheckQueue

One step per critical section of `Loop`, or the work between two of them.
`Start`, `WakeUp` and `CleanUp` are the three ways into the `while` loop, and
`Proceed` its continuation: `Return`, `WaitFor` or `Take`. Condition variables
wake up on their own (`SpuriousWakeUp`). `interrupt_all` at shutdown ends a
waiting worker and makes a waiting master, which may be a thread of the same
group (import, staking), unwind into `~CCheckQueueControl`, which waits again;
if it was the destructor that waited, the exception ends the process. The
master without a queue (`pqueue == nullptr`) has nothing to interleave with and
is left out, as are the lifetimes of what a check refers to.

### BlockIndex

A block is its path from the genesis block. `validity`, `failed`, `haveData`,
`received` (`nTx`) and `linked` (`nChainTx`) are the fields of `CBlockIndex`;
`setBlockIndexCandidates`, `mapBlocksUnlinked` and `g_failed_blocks` are those
of the code. A handler under `cs_main` is one action, except that the loops of
`ReceivedBlockTransactions` (`Link`), `FindMostWorkChain` and
`ActivateBestChainStep` (`DisconnectTip`, `ConnectTip`, `InvalidBlockFound`)
take a step per turn, with the lock held. `thread[t].pindex` is
`pindexMostWork`, which survives the release of the lock between two calls of
`ActivateBestChainStep`. `Processors` bring headers and blocks, `Operators` run
commands. Entries are compared by address after a restart (`addr`), when all
sequence ids are 0. `leftBehind`, `refetched` and `outdated` are history, see
below.

## Runs

Sizes are distinct states.

| Run | Size | Shows |
|---|---|---|
| `coins_cache` | 50672 | flags are truthful about the level below; the `logic_error` of `BatchWrite` is unreachable; the memory total is exact; the stack refines `UtxoViews` |
| `coins_recovery` | 651998 | see below |
| `recovery_forward` (violation) | | an interrupted flush that moved forward is never recovered from |
| `storage` | 1947341 | operations that fail are undone completely; the root describes the data; `commit_info` is the history; commits cut short can be repeated |
| `storage_torn` (violation) | | a death inside `save_contract_info` leaves data that no root describes |
| `chain` | 1885631 | root and tip agree whenever `cs_main` is free; no valid block is marked failed; templates name the right root; every scope exit finds its commit |
| `chain_live` | 4585 | the best valid chain wins |
| `chain_crash` (violation) | | a crash between contract commit and coin flush makes the node reject a valid block |
| `chain_level4` (violation) | | `verifychain 4` cannot reconnect blocks with contract transactions |
| `check_queue` | 376080 | right verdict per block, nothing outlives its control, no lost wake-up, `Wait` returns |
| `block_index` | 1325986 | the assertions of `CheckBlockIndex` and of the handlers hold; the best known valid chain is active when the threads are done |
| `block_index_race` (violation) | | of two threads in `ActivateBestChain` one undoes the other's work, and both succeed |

`coins_recovery` allows two crashes and one failed batch write anywhere. The
index on disk knows every block the chainstate names (`HeadsKnown`), an
interrupted transition is never replaced by another (`OneTransition`), both
whatever fails. Roll-backs recover however often they are interrupted
(`RollbackRecovers`), if the contract storage has the commits they need
(`RollbackOnly`). `DbExact` and `BetweenTips` are claimed until a batch write
fails or a replay carries on after a block it could not connect (`Faultless`).

### Conditions in the properties

Some properties carry a premise because the code does not keep them without it.
For each premise TLC finds a counterexample to a property that carries it once
the premise is dropped; these were observed and are not runs of their own:

* `Faultless` (`DbExact`, `BetweenTips`). A failed batch write has already
  erased its entries from the cache (`txdb.cpp:120`), and the shutdown flush
  then marks the database consistent without them. With BIP30 enforced, the
  replay's `ConnectBlock` fails on outputs that are already there
  (`validation.cpp:3117-3126`), its result is ignored (`5597`), and the
  database is marked consistent without the block's coins.
* `RollbackOnly` (`RollbackRecovers`). A replay rolls the contract storage back
  block by block. The running node did so before the flush was interrupted, and
  an earlier replay may have: the commit a later replay asks for is then gone,
  or, after a death inside a rollback, cannot be taken back, and every start
  fails. The premise asks for the new tip's root with nothing newer, and for
  contract transactions in no rolled-back block but the old tip.
* `used.undo = 0` (`ContractStorage`). The diffs a rollback deletes are not
  among the keys it would restore (`contract_storage.cpp:1013`), so a rollback
  that fails after deleting rows cannot be repeated. `DiffsKept` fails at once,
  `RootIsWorldWhileUp` at the next rollback (three events).
* `used.late` (`RootIsWorldWhileUp`, `HistoryKept`) and the last conjunct of
  `Ended` (`FailedLeavesNoTrace`). A commit begun while a reset is pending was
  executed on the data of the top root and is applied to those of the older
  one. Besides, `commit_contract_changes` rolls back before `BEGIN` (`571`
  against `583`), so a failure after it restores one database and not the
  other.
* `used.torn = 0` (`CommitRepeatable`, `ScopeExitsFindRoot`). A death between
  the write of the root and SQLite's `COMMIT` leaves a root that `commit_info`
  does not have: nothing can be rolled back to it.
* `used.crash = 0` (`RootIsWorldWhileUp`, `HistoryKept`): the run
  `storage_torn`, and a rollback that dies before its `COMMIT`.
* `Undisturbed` (`ContractChain`). A crash, between or inside commits and
  rollbacks, check level 4 (the violation runs), and a shutdown request or an
  error inside `VerifyDB` (`validation.cpp:5547`) leave the root behind or ahead
  of the tip, although line 5531 speaks of a "memory-only disconnect".
* `outdated` (`Candidates`, `UnlinkedRight`, `NoAssertFails`,
  `BestChainActive`). A `pindexMostWork` kept while
  another thread moved the tip (the violation run) may also have been
  invalidated meanwhile: the step that connects it leaves no candidate and the
  assertion of line 3888 fails, then or at the next start.
* `leftBehind` (`BlockIndex`). Blocks the bookkeeping loses: data that comes
  while the parent is failed is not put in `mapBlocksUnlinked` (line 4296);
  reconsidering a block below a failed one clears the ancestors' flags without
  making them candidates or erasing them from `g_failed_blocks`, and leaves
  their other descendants marked (4184-4216); pruning takes unlinked blocks out
  of `mapBlocksUnlinked`, and a restart puts them back without data (5354).
* `refetched` (`Candidates`, `UnlinkedRight`, `BestChainActive`). A pruned block
  that is fetched again gets a new sequence id, even while it is the tip or a
  member of the set ordered by it.
* These properties are stated for states in which no thread is inside
  `ActivateBestChain`: in the middle of a failed reorganisation the tip need
  not be a candidate.

### Bounds

* `coins_cache`: two outpoints, so that an operation on one can disturb the
  other; two coins of different size; two blocks; both cache levels. There is
  no bound on the number of operations. Outpoints and blocks are symmetric.
* `coins_recovery`: branches a1-a2 and b1-b2 from the genesis block, enough for
  a flush forward, backward and across; b1 creates two outputs, so a batch can
  hold half of a block. a2 and b1 have contract transactions: of two blocks to
  roll back, the newer or the older one has some. Two crashes allow a recovery
  to be interrupted.
* `storage`: two contracts, three commits deep, and any two of two rollbacks,
  one reset, one failed write, one death (`MaxEvents`). One commit may begin
  while the reset is pending (`MaxResetCommits`).
* `chain`: branches a1-a2-a3 and b1-x; a1 has two contract transactions, so
  that the process can die between them, b1 shares one of them, a3 has one that
  fails, x a false root. Any two of a test or template, a verification, a stop,
  an interruption or error of `VerifyDB`, a crash between commits, one inside,
  one between root and row. A node that a throwing rollback has ended stays
  down (`MaxKills = 0`).
* `check_queue`: a master and two workers, four checks, batches of at most two:
  all three threads can hold batches at once and batches of both sizes occur.
  The number of blocks is not bounded; the master is interrupted at most once,
  since `interrupt_all` is called once.
* `block_index`: two branches of length two, one of which ends in two blocks;
  `<<2, 2>>` is bad on arrival and `<<1, 1>>` when it is connected, before which
  its parent can be pruned. One thread brings
  headers and blocks, each as often as it likes; another gives two commands.
  `MIN_BLOCKS_TO_KEEP` is 1, so that a block can be pruned, and the reverse
  sequence ids saturate at the second `preciousblock`. One order of addresses.
* `block_index_race`: a chain of three and a branch of two, all valid, two
  threads that bring blocks, no commands.

Deadlock is not checked in `block_index` and `block_index_race`, where an
assertion ends the process, in `storage` and `storage_torn`, where the bounded
events run out, nor in `check_queue`, where an interrupted destructor ends the
process; there `WaitReturns` excludes a stuck master.

### Fairness

* `CoinsRecovery`: weak fairness of the steps of a flush and of the start-up
  sequence, which one thread runs to the end, and of `Boot`: the operator
  restarts a node that is down. Crashes and failed writes are not fair.
* `ContractChain` (`FairSpec`): weak fairness of `Work`, what holds `cs_main`
  or follows from `ActivateBestChain`, which the code calls for every block
  received and at start-up. Receiving, mining, stopping are not fair.
* `CheckQueue`: weak fairness of each thread's own steps: the operating system
  schedules runnable threads, mutexes are held briefly, and a script check
  terminates. Wake-ups without notification are not fair.

## Proofs

All of them hold for any values of the constants that satisfy the named
assumptions.

**CoinsViewCacheProofs** (assumes `CoinsAssumption`: the null values are
distinct and sizes are natural numbers). The inductive invariant `IInv` is
`TypeOK`, `DeadCachesEmpty` and `FlagsHonest`. `FlagsHonest` says what DIRTY
and FRESH promise about the level below; it is what makes a flush correct, and
it is inductive only together with the emptiness of caches that do not exist.
From it: `TypeCorrect`, `FlagsAlwaysHonest`, `FlushNeverThrows`, and the
refinement `CachesImplementViews`, where each action is shown to be a step of
`UtxoViews` or to leave all views as they are. `TypeOK` is proved only, not a
property of a run. `UsageExact` is a sum over a
finite map, which would need induction over data; TLC alone checks it.

**CoinsRecoveryProofs** (assumes `TreeAssumption`, that blocks form a tree with
heights and ancestors; `UtxoAssumption`, that blocks spend what exists and
create what does not; `RootAssumption`, that a block's root is
its parent's or adds one commit to it; `BoundAssumption`). `BookkeepingHolds` proves `KInv`,
which ties the memory of the process to the disk (the index in memory contains
the one on disk, heads are only written for blocks already indexed, undo data
is there for every connected block); `RecoveryTypes`, `HeadsAlwaysKnown` and
`TransitionsResume` follow, whatever fails. `ExactHolds` then proves that until
a fault every coin record not yet settled is the old or the new tip's version
and the cache shows the set of its best block, also in the middle of a replay
and when a replay is replayed; `MarkedMeansExact` and `InterruptedIsBetween`
follow.

**CheckQueueProofs** (assumes `QueueAssumption`: finitely many workers and
checks, a positive batch size). At the beginning of a critical section the
thread is as good as one that enters `Loop` anew: its batch counted off, its
result handed in. The invariant is therefore stated over the arguments of
`Proceed` and shown once for `Proceed` and once per action for the lines before
it. `IInv` says that each check is in one place and `nTodo` counts them, that
`fAllOk` and the threads' results are about the checks of this block no longer
held, that a sleeping master has an empty queue and work outstanding, and that
`nIdle` and `nTotal` are never too small. The last part gives a positive
divisor, hence batches that are not empty, hence that a thread with a result
has a batch, without which the verdict of one block could leak into the next.
From it: `QueueTypes`, `VerdictAlwaysRight`, `AlwaysFinished`,
`MasterNeverSleepsInVain`.

Only model-checked: liveness (`RollbackRecovers`, `BestChainWins`,
`WaitReturns`), for which the prover has no fairness rules; `UsageExact`; and
so far all of `ContractStorage` and `ContractChain`, whose programs and roots
are built by folds and recursive functions, and of `BlockIndex`.

## Not modelled

Noticed while reading and not covered: the LevelDB snapshot of
`contract_storage.cpp:1034` is never released; the service object that
`get_contract_storage_service` hands out closes the databases when its last
inner holder goes, while an outer one may carry on; the RPCs `rollbackrootstatehash` and `rollbacktoheight`; name
uniqueness is checked before a commit and not by it.

Scripts, proof of work and stake, keys and encodings are functions of byte
strings without state; fee estimation is statistics; RPC, GUI and sockets are
input and output; the contract virtual machine is an interpreter whose effect
on the storage is taken as any change the chain API allows. LevelDB, SQLite,
secp256k1 and univalue are libraries.

## Plan

In order of weight:

1. Proofs for `BlockIndex`: `TypeOK` and `Status` for any tree and any number of
   threads, then the invariant of the candidate set.
2. `Mempool`: incremental ancestor and descendant totals against their
   definition, removal for blocks and reorganisations, no conflicts.
3. Proofs for `ContractChain`: `RootAtTip` and `NoFalseInvalidWhileUp`, with an
   invariant relating `job.base`, `store.root` and the block in progress.
4. `Scheduler`: callbacks in order and one at a time, drain and stop.
5. `BlockDownload`: in-flight bookkeeping with timeouts and late answers.
6. `JsonDiff`: `patch(a, diff(a, b)) = b` and `rollback` over bounded values,
   with TLC only, for which `ContractStorage` takes diffs as pairs.
7. Version bits against their definition; address manager against
   `CAddrMan::Check_`; automatic pruning and undo data; wallet balances under
   reorganisations.
