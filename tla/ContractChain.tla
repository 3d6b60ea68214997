-------------------------- MODULE ContractChain --------------------------
(***************************************************************************)
(* The contract state and the chain (validation.cpp, miner.cpp): which     *)
(* root state hash the contract storage is at while blocks are connected   *)
(* and disconnected, transactions and templates are tried out, the         *)
(* database is verified, and the process stops and starts.                 *)
(*                                                                         *)
(* The coins of the tip live in memory until a flush; a commit to the      *)
(* contract storage is on disk at once.  One operation at a time holds     *)
(* cs_main; a model step executes one contract transaction, so that the    *)
(* process can die between two commits.                                    *)
(*                                                                         *)
(* ContractStorage shows what one commit or rollback does, CommitLog what  *)
(* it leaves.  Contracts are active at every height above the genesis      *)
(* block.                                                                  *)
(***************************************************************************)
EXTENDS CommitLog, FiniteSets

CONSTANTS
    Blocks,         \* the blocks of the network
    Genesis,
    Parent,         \* Parent[b]: the block before b (Genesis for itself)
    Height,         \* Height[b]: also the work of the chain up to b
    Txs,            \* Txs[b]: the contract transactions of b, in order
    BadTxs,         \* transactions whose execution fails
    FalseRoots,     \* blocks whose coinbase names another root than theirs
    NoBlock,
    CheckLevels,    \* values of -checklevel and of verifychain's argument, 3 or 4
    CheckDepth,     \* -checkblocks
    MaxTries,       \* transactions and templates tried out
    MaxVerifies,    \* calls of verifychain
    MaxStops,       \* orderly shutdowns
    MaxInterrupts,  \* shutdowns and read errors while blocks are being verified
    MaxCrashes,     \* deaths of the process, between two commits or rollbacks
    MaxCuts,        \* deaths inside one
    MaxTorn,        \* deaths inside a commit between its root and its row
    MaxEvents,      \* all of these together
    MaxKills        \* how often a failing rollback ends the process before it is left down

ASSUME TreeAssumption ==
    /\ Genesis \in Blocks /\ NoBlock \notin Blocks
    /\ Parent \in [Blocks -> Blocks] /\ Height \in [Blocks -> Nat]
    /\ Height[Genesis] = 0
    /\ \A b \in Blocks \ {Genesis} : Height[b] = Height[Parent[b]] + 1
    /\ \A b \in Blocks : Height[b] = 0 => b = Genesis
    /\ DOMAIN Txs = Blocks /\ Txs[Genesis] = << >>
    /\ \A b \in Blocks : Len(Txs[b]) \in Nat

VARIABLES
    tip,    \* chainActive.Tip(), or NoBlock while the process is down
    have,   \* blocks whose data has been received
    failed, \* blocks marked BLOCK_FAILED_VALID
    disk,   \* what a flush has written: the best block, have and failed
    store,  \* the contract storage
    goal,   \* the step of ActivateBestChain in progress: where to, and from where
    job,    \* the operation on the contract storage in progress
    used    \* how often each bounded event has happened

vars == <<tip, have, failed, disk, store, goal, job, used>>

(* What executing tx on the state of the root commits.  When the root has  *)
(* been reset, execution reads the data of the top root instead, and may   *)
(* find something else; so it may after an operation was cut short.        *)
Result(tx, height, fresh) == [tx |-> tx, height |-> height, fresh |-> fresh]

(* set_current_block_height(chainActive.Height()): the height of the tip   *)
(* goes into the commit id, not the height of the block.                   *)
Extended(id, txs, height) == id \o [i \in DOMAIN txs |-> Result(txs[i], height, TRUE)]

BlockRoot[b \in Blocks] ==
    IF Height[b] = 0 THEN EMPTY_COMMIT_ID
    ELSE Extended(BlockRoot[Parent[b]], Txs[b], Height[Parent[b]])

(* get_root_state_hash_from_block; FalseRoots name their parent's root, or *)
(* something unknown where that would be right.                            *)
Claimed(b) ==
    IF b \notin FalseRoots THEN BlockRoot[b]
    ELSE IF Txs[b] # << >> THEN BlockRoot[Parent[b]]
    ELSE Append(BlockRoot[b], Result(NoBlock, 0, TRUE))

Chain[b \in Blocks] == IF Height[b] = 0 THEN {b} ELSE {b} \cup Chain[Parent[b]]

Valid(b) ==
    \A c \in Chain[b] : c \notin FalseRoots /\ \A i \in DOMAIN Txs[c] : Txs[c][i] \notin BadTxs

-----------------------------------------------------------------------------
(* The contract storage.                                                   *)

rollback_contract_state(dest) == Found(store, dest) /\ store' = RolledBack(store, dest)

reset_root_state_hash(dest) == store' = [store EXCEPT !.root = dest]

(* The commit ids that executing tx may give. *)
NextIds(tx, height) ==
    {Append(store.root, Result(tx, height, fresh)) : fresh \in {TRUE, Latest(store) /\ store.sound}}

commit_changes_TemplateHeight(tx) ==
    \E id \in NextIds(tx, IF job.do = "template" THEN Height[job.blk] ELSE Height[tip]) :
        MayCommit(store, id) /\ store' = Committed(store, id)

commit_changes(tx) ==
    \E id \in NextIds(tx, Height[tip]) : MayCommit(store, id) /\ store' = Committed(store, id)

CommitMayFail(tx) == \E id \in NextIds(tx, Height[tip]) : ~MayCommit(store, id)

-----------------------------------------------------------------------------
Idle == [do |-> "idle", blk |-> NoBlock, todo |-> << >>, done |-> << >>,
         base |-> EMPTY_COMMIT_ID, boot |-> FALSE]
NoGoal == [to |-> NoBlock, from |-> NoBlock]

(* done: what a template has taken in; base: the root found at the start. *)
Job(what, b, txs) == [do |-> what, blk |-> b, todo |-> txs, done |-> << >>,
                      base |-> store.root, boot |-> FALSE]

Init ==
    /\ tip = Genesis
    /\ have = {Genesis}
    /\ failed = {}
    /\ disk = [best |-> Genesis, have |-> {Genesis}, failed |-> {}]
    /\ store = NewStore
    /\ goal = NoGoal
    /\ job = Idle
    /\ used = [try |-> 0, verify |-> 0, stop |-> 0, interrupt |-> 0, crash |-> 0, cut |-> 0,
               torn |-> 0, kill |-> 0, level4 |-> FALSE]

Free == tip # NoBlock /\ job = Idle /\ goal = NoGoal

Count(what, max) ==
    /\ used[what] < max
    /\ used.try + used.verify + used.stop + used.interrupt + used.crash + used.cut + used.torn
          < MaxEvents
    /\ used' = [used EXCEPT ![what] = @ + 1]

AcceptBlock(b) ==
    /\ Free
    /\ b \notin have
    /\ Parent[b] \in have /\ Chain[b] \cap failed = {}
    /\ have' = have \cup {b}
    /\ UNCHANGED <<tip, failed, disk, store, goal, job, used>>

-----------------------------------------------------------------------------
(* ActivateBestChain                                                       *)

Candidates == {b \in have : Chain[b] \cap failed = {}}

FindMostWorkChain == {b \in Candidates : \A c \in Candidates : Height[c] <= Height[b]}

ActivateBestChain ==
    /\ Free
    /\ tip \notin FindMostWorkChain
    /\ \E b \in FindMostWorkChain : goal' = [to |-> b, from |-> tip]
    /\ UNCHANGED <<tip, have, failed, disk, store, job, used>>

(* DisconnectBlock rolls back to the root that the previous block names.   *)
DisconnectTip_KeepsRoot ==
    /\ goal # NoGoal /\ job = Idle
    /\ tip \notin Chain[goal.to]
    /\ tip' = Parent[tip]
    /\ UNCHANGED <<have, failed, disk, store, goal, job, used>>

DisconnectTip ==
    /\ goal # NoGoal /\ job = Idle
    /\ tip \notin Chain[goal.to]
    /\ rollback_contract_state(Claimed(Parent[tip]))
    /\ tip' = Parent[tip]
    /\ UNCHANGED <<have, failed, disk, goal, job, used>>

(* The rollback throws: ActivateBestChain gives up. *)
DisconnectFails ==
    /\ goal # NoGoal /\ job = Idle
    /\ tip \notin Chain[goal.to]
    /\ RollbackMayThrow(store, Claimed(Parent[tip]))
    /\ goal' = NoGoal
    /\ UNCHANGED <<tip, have, failed, disk, store, job, used>>

ConnectTip ==
    /\ goal # NoGoal /\ job = Idle
    /\ tip \in Chain[goal.to]
    /\ \E b \in Chain[goal.to] :
          /\ b # Genesis /\ Parent[b] = tip
          /\ job' = Job("connect", b, Txs[b])
    /\ UNCHANGED <<tip, have, failed, disk, store, goal, used>>

Executing == job.do \in {"connect", "try", "template", "reconnect"} /\ job.todo # << >>

(* The loop over the transactions of a block, a template or a test. *)
ExecTx ==
    /\ Executing
    /\ Head(job.todo) \notin BadTxs
    /\ commit_changes(Head(job.todo))
    /\ job' = [job EXCEPT !.todo = Tail(@),
                          !.done = IF job.do = "template" THEN Append(@, Head(job.todo)) ELSE @]
    /\ UNCHANGED <<tip, have, failed, disk, goal, used>>

(* A transaction fails, before or after its commit. *)
ExecFails == Executing /\ (Head(job.todo) \in BadTxs \/ CommitMayFail(Head(job.todo)))

(* ConnectBlock has returned true. *)
BlockConnected ==
    /\ job.do = "connect" /\ job.todo = << >>
    /\ store.root = Claimed(job.blk)
    /\ tip' = job.blk
    /\ job' = Idle
    /\ goal' = IF Height[job.blk] > Height[goal.from] \/ job.blk = goal.to THEN NoGoal ELSE goal
    /\ UNCHANGED <<have, failed, disk, store, used>>

Mismatch == job.todo = << >> /\ store.root # Claimed(job.blk)

(* ConnectBlock has returned false: InvalidBlockFound, and another branch. *)
(* The scope exit of the transaction has rolled back to the root before    *)
(* it, the one of the block rolls back to the root before the block.       *)
BlockInvalid_NotMarked ==
    /\ job.do = "connect"
    /\ Mismatch \/ ExecFails
    /\ rollback_contract_state(job.base)
    /\ job' = Idle
    /\ goal' = NoGoal
    /\ UNCHANGED <<tip, have, failed, disk, used>>

BlockInvalid ==
    /\ job.do = "connect"
    /\ Mismatch \/ ExecFails
    /\ rollback_contract_state(job.base)
    /\ failed' = failed \cup {job.blk}
    /\ job' = Idle
    /\ goal' = NoGoal
    /\ UNCHANGED <<tip, have, disk, used>>

-----------------------------------------------------------------------------
(* CheckAddContractTxToMempoolAvailable, the testing and offline RPCs,     *)
(* TestBlockValidity.                                                      *)
TryTx(txs) ==
    /\ Free
    /\ Count("try", MaxTries)
    /\ job' = Job("try", NoBlock, txs)
    /\ UNCHANGED <<tip, have, failed, disk, store, goal>>

(* CreateNewBlock with the transactions of b in the mempool. *)
CreateNewBlock(b) ==
    /\ Free
    /\ Parent[b] = tip /\ b # Genesis
    /\ Count("try", MaxTries)
    /\ job' = Job("template", b, Txs[b])
    /\ UNCHANGED <<tip, have, failed, disk, store, goal>>

(* AttemptToAddContractToBlock leaves a transaction out: untried, or with  *)
(* its scope exit rolling back to the root before it, also after a commit. *)
SkipTx ==
    /\ Executing /\ job.do = "template"
    /\ UNCHANGED store \/ rollback_contract_state(store.root)
    /\ job' = [job EXCEPT !.todo = Tail(@)]
    /\ UNCHANGED <<tip, have, failed, disk, goal, used>>

TryOver ==
    \/ job.do = "try" /\ (job.todo = << >> \/ ExecFails)
    \/ job.do = "template" /\ job.todo = << >>

TryEnds_KeepsCommits ==
    /\ TryOver
    /\ job' = Idle
    /\ UNCHANGED <<tip, have, failed, disk, store, goal, used>>

(* The scope exit of either rolls back to the root found at the start. *)
TryEnds ==
    /\ TryOver
    /\ rollback_contract_state(job.base)
    /\ job' = Idle
    /\ UNCHANGED <<tip, have, failed, disk, goal, used>>

-----------------------------------------------------------------------------
(* CVerifyDB::VerifyDB                                                     *)

VerifyChain ==
    /\ Free
    /\ tip # Genesis
    /\ Count("verify", MaxVerifies)
    /\ job' = Job("verify", tip, << >>)
    /\ UNCHANGED <<tip, have, failed, disk, store, goal>>

(* VerifyDB has returned false: at start-up the process gives up. *)
VerifyFails ==
    /\ job' = Idle
    /\ tip' = IF job.boot THEN NoBlock ELSE tip

(* Check level 3: DisconnectBlock with only_reset_root_state_hash. *)
VerifyDisconnect ==
    /\ job.do = "verify"
    /\ job.blk # Genesis /\ Height[job.blk] + CheckDepth >= Height[tip]
    /\ IF Found(store, Claimed(Parent[job.blk]))
       THEN /\ reset_root_state_hash(Claimed(Parent[job.blk]))
            /\ job' = [job EXCEPT !.blk = Parent[@]]
            /\ UNCHANGED tip
       ELSE VerifyFails /\ UNCHANGED store
    /\ UNCHANGED <<have, failed, disk, goal, used>>

Child(b) == CHOOSE c \in Chain[tip] : c # Genesis /\ Parent[c] = b

Reconnect(b) ==
    [job EXCEPT !.do = "reconnect", !.blk = b, !.todo = Txs[b], !.base = store.root]

(* The blocks have been disconnected, or as many as the memory limit and   *)
(* pruning allow: back to the old root, or on to check level 4.            *)
VerifyTurns ==
    /\ job.do = "verify"
    /\ \/ /\ 4 \in CheckLevels
          /\ job' = IF job.blk = tip THEN Idle ELSE Reconnect(Child(job.blk))
          /\ used' = [used EXCEPT !.level4 = TRUE]
          /\ UNCHANGED <<tip, store>>
       \/ /\ 3 \in CheckLevels
          /\ IF Found(store, job.base)
             THEN reset_root_state_hash(job.base) /\ job' = Idle /\ UNCHANGED tip
             ELSE VerifyFails /\ UNCHANGED store
          /\ UNCHANGED used
    /\ UNCHANGED <<have, failed, disk, goal>>

(* Check level 4: try reconnecting blocks. *)
VerifyReconnected ==
    /\ job.do = "reconnect" /\ job.todo = << >>
    /\ store.root = Claimed(job.blk)
    /\ job' = IF job.blk = tip THEN Idle ELSE Reconnect(Child(job.blk))
    /\ UNCHANGED <<tip, have, failed, disk, store, goal, used>>

(* ConnectBlock has returned false, and rolled back as in BlockInvalid. *)
VerifyUnconnectable ==
    /\ job.do = "reconnect"
    /\ Mismatch \/ ExecFails
    /\ rollback_contract_state(job.base)
    /\ VerifyFails
    /\ UNCHANGED <<have, failed, disk, goal, used>>

(* ShutdownRequested() in the loop: VerifyDB returns true at once. *)
VerifyInterrupted ==
    /\ job.do = "verify"
    /\ Count("interrupt", MaxInterrupts)
    /\ job' = Idle
    /\ tip' = NoBlock
    /\ disk' = [best |-> tip, have |-> have, failed |-> failed]
    /\ UNCHANGED <<have, failed, store, goal>>

(* A block or its undo data cannot be read or is not right, or the coins   *)
(* are inconsistent: the root stays where it is.                           *)
VerifyErrs ==
    /\ job.do \in {"verify", "reconnect"}
    /\ job.do = "reconnect" => job.todo = Txs[job.blk] /\ store.root = job.base
    /\ Count("interrupt", MaxInterrupts)
    /\ VerifyFails
    /\ UNCHANGED <<have, failed, disk, store, goal>>

-----------------------------------------------------------------------------
(* Also between the blocks of a reorganisation. *)
FlushStateToDisk ==
    /\ tip # NoBlock /\ job = Idle
    /\ disk' = [best |-> tip, have |-> have, failed |-> failed]
    /\ UNCHANGED <<tip, have, failed, store, goal, job, used>>

Shutdown ==
    /\ Free
    /\ Count("stop", MaxStops)
    /\ disk' = [best |-> tip, have |-> have, failed |-> failed]
    /\ tip' = NoBlock
    /\ UNCHANGED <<have, failed, store, goal, job>>

(* The memory is gone. *)
Dead ==
    /\ tip' = NoBlock
    /\ job' = Idle
    /\ goal' = NoGoal
    /\ have' = disk.have /\ failed' = disk.failed
    /\ UNCHANGED disk

Unwinds ==
    IF job.do \in {"connect", "reconnect"} THEN Mismatch \/ ExecFails ELSE TryOver

(* A rollback throws inside a scope exit, or DisconnectBlock's rollback    *)
(* finds a row without its diff: the process is terminated.                *)
RollbackKills ==
    /\ \/ Unwinds /\ RollbackMayThrow(store, job.base)
       \/ Executing /\ job.do = "template" /\ RollbackMayThrow(store, store.root)
       \/ /\ goal # NoGoal /\ job = Idle /\ tip \notin Chain[goal.to]
          /\ ~store.sound /\ RollbackMayThrow(store, Claimed(Parent[tip]))
    /\ used' = [used EXCEPT !.kill = @ + 1]
    /\ Dead
    /\ UNCHANGED store

(* What commits and rollbacks that can be under way leave when they are    *)
(* cut short; the rollback of a transaction may follow its commit.         *)
CommitsUnderWay ==
    IF Executing THEN {id \in NextIds(Head(job.todo), Height[tip]) : MayCommit(store, id)} ELSE {}

RollbacksUnderWay ==
    {dest \in
        (IF goal # NoGoal /\ job = Idle /\ tip \notin Chain[goal.to] THEN {Claimed(Parent[tip])} ELSE {})
        \cup (IF Unwinds THEN {job.base} ELSE {})
        \cup (IF Executing THEN {store.root} ELSE {}) : Found(store, dest)}

CutShort ==
    UNION {CutCommit(store, id) \cup CutRollback(Committed(store, id), store.root) :
              id \in CommitsUnderWay}
    \cup UNION {CutRollback(store, dest) : dest \in RollbacksUnderWay}

Crash ==
    /\ tip # NoBlock
    /\ Count("crash", MaxCrashes)
    /\ Dead
    /\ UNCHANGED store

CrashCuts ==
    /\ tip # NoBlock
    /\ Count("cut", MaxCuts)
    /\ store' \in CutShort
    /\ Dead

CrashTears ==
    /\ tip # NoBlock
    /\ Count("torn", MaxTorn)
    /\ \E id \in CommitsUnderWay : store' \in TornCommit(store, id)
    /\ Dead

(* LoadBlockIndex, LoadChainTip, then VerifyDB; nothing looks at the root. *)
Boot_EmptyIndex ==
    /\ tip = NoBlock
    /\ tip' = disk.best
    /\ have' = {Genesis}
    /\ failed' = {}
    /\ job' = Idle
    /\ UNCHANGED <<disk, store, goal, used>>

Boot ==
    /\ tip = NoBlock
    /\ used.kill <= MaxKills
    /\ tip' = disk.best
    /\ have' = disk.have
    /\ failed' = disk.failed
    /\ job' = IF disk.best = Genesis THEN Idle
              ELSE [Job("verify", disk.best, << >>) EXCEPT !.boot = TRUE]
    /\ UNCHANGED <<disk, store, goal, used>>

LeftDown == tip = NoBlock /\ used.kill > MaxKills /\ UNCHANGED vars

Work ==
    \/ ActivateBestChain \/ DisconnectTip \/ DisconnectFails \/ ConnectTip
    \/ ExecTx \/ BlockConnected \/ BlockInvalid \/ SkipTx \/ TryEnds
    \/ VerifyDisconnect \/ VerifyTurns \/ VerifyReconnected \/ VerifyUnconnectable
    \/ RollbackKills \/ Boot

Next ==
    \/ Work
    \/ \E b \in Blocks : AcceptBlock(b) \/ CreateNewBlock(b)
    \/ \E b \in Blocks : TryTx(Txs[b])
    \/ VerifyChain \/ VerifyInterrupted \/ VerifyErrs
    \/ FlushStateToDisk \/ Shutdown \/ Crash \/ CrashCuts \/ CrashTears \/ LeftDown

Spec == Init /\ [][Next]_vars

(* What holds cs_main finishes; ActivateBestChain is called for every      *)
(* block received and at start-up.                                         *)
FairSpec == Spec /\ WF_vars(Work)

-----------------------------------------------------------------------------
TypeOK ==
    /\ have \subseteq Blocks /\ failed \subseteq have
    /\ tip \in have \cup {NoBlock}
    /\ disk.best \in Blocks /\ disk.have \subseteq Blocks /\ disk.failed \subseteq Blocks
    /\ job.blk \in Blocks \cup {NoBlock}
    /\ {goal.to, goal.from} \subseteq Blocks \cup {NoBlock}

(* The process has not died, VerifyDB was not cut short, and it did not    *)
(* reconnect blocks.                                                       *)
Undisturbed == used.crash + used.cut + used.torn + used.interrupt = 0 /\ ~used.level4

(* Whenever cs_main is free, the contract storage is at the root that the  *)
(* tip's coinbase names, with no reset pending: connecting, disconnecting, *)
(* trying out, verifying at level 3 and orderly restarts all restore it.   *)
RootAtTip == Free /\ Undisturbed => store.root = Claimed(tip) /\ Latest(store)

(* validation.cpp:3935 "The block violates a consensus rule": no block     *)
(* whose chain is valid is marked failed; what ConnectBlock finds wrong    *)
(* with the root is wrong with the block, not with the storage.            *)
NoFalseInvalid == \A b \in failed : ~Valid(b)

(* The same of a node that has not crashed, nor been stopped or checked at *)
(* level 4 by VerifyDB.                                                    *)
NoFalseInvalidWhileUp == Undisturbed => NoFalseInvalid

(* The root that CreateNewBlock puts into a template is the one every node *)
(* computes when it connects the block: that of the transactions taken in, *)
(* with nothing left of those that failed or did not fit.                  *)
TemplatesRight ==
    Undisturbed /\ job.do = "template" /\ job.todo = << >> =>
        store.root = Extended(BlockRoot[tip], job.done, Height[tip])

(* Every scope exit, of a transaction, a block or a template, finds the    *)
(* commit it rolls back to, after crashes and interrupted rollbacks too,   *)
(* unless a crash came between the root of a commit and its row            *)
(* (contract_storage.cpp:736): otherwise rollback_contract_state throws    *)
(* out of a destructor.                                                    *)
ScopeExitsFindRoot ==
    used.torn = 0 /\ (Executing \/ Unwinds) =>
        Found(store, job.base) /\ Found(store, store.root)

(* A valid block that has been received is overtaken or becomes the tip.   *)
BestChainWins ==
    \A b \in Blocks : Valid(b) =>
        (b \in have ~> (tip # NoBlock /\ Height[tip] >= Height[b]))

(* validation.cpp:5553 "check level 4: try reconnecting blocks": the       *)
(* blocks of a chain that has been connected connect again.                *)
Reconnects ==
    job.do = "reconnect" /\ job.todo = << >> => store.root = Claimed(job.blk)
=============================================================================
