----------------------------- MODULE BlockIndex -----------------------------
(***************************************************************************)
(* The block tree and the choice of the active chain: CChainState in       *)
(* src/src/validation.cpp, with the flags of CBlockIndex (chain.h).        *)
(*                                                                         *)
(* A block's hash commits to all its ancestors, so a block is the path to  *)
(* it from the genesis block <<>>: pprev is Front, an ancestor is a        *)
(* prefix, the height is the length.  Threads run handlers under cs_main;  *)
(* ActivateBestChain releases the lock between two ActivateBestChainStep   *)
(* and keeps pindexMostWork meanwhile.  A step of the model is one         *)
(* critical section, or one turn of a loop inside one.                     *)
(*                                                                         *)
(* Left out: errors of the disk, the undo data, fork warnings              *)
(* (pindexBestInvalid), the mempool, that the block a handler came with is *)
(* connected from memory and not from disk, and restarts other than        *)
(* orderly ones (what a crash leaves on disk is CoinsRecovery's subject).  *)
(***************************************************************************)
EXTENDS Integers, FiniteSets, Sequences, SequencesExt

CONSTANTS
    Blocks,             \* every block of the run, as its path
    nChainWork,         \* the total work up to each block
    BadContents,        \* blocks ContextualCheckBlock rejects
    BadScripts,         \* blocks ConnectBlock rejects
    Addresses,          \* the orders of the entries in memory
    Processors,         \* threads that bring headers and blocks (messages, submitblock)
    Operators,          \* threads that run the operator's commands
    Null,
    MIN_BLOCKS_TO_KEEP,
    nMinimumChainWork,
    MinSequenceId,      \* numeric_limits<int32_t>::min()
    MaxCommands,        \* bound: commands of the operator
    Commands            \* the commands the operator uses

Genesis == <<>>
Threads == Processors \cup Operators

ASSUME TreeAssumption ==
    /\ Genesis \in Blocks
    /\ IsFiniteSet(Blocks)
    /\ \A b \in Blocks : b = Genesis \/ (b # <<>> /\ Front(b) \in Blocks)
    /\ nChainWork \in [Blocks -> Nat]
    /\ \A b \in Blocks \ {Genesis} : nChainWork[b] > nChainWork[Front(b)]
    /\ BadContents \subseteq Blocks \ {Genesis} /\ BadScripts \subseteq Blocks \ {Genesis}
    /\ Addresses # {} /\ Addresses \subseteq [Blocks -> Int]
    /\ \A f \in Addresses : \A a, b \in Blocks : f[a] = f[b] => a = b
    /\ MIN_BLOCKS_TO_KEEP \in Nat /\ nMinimumChainWork \in Nat /\ MaxCommands \in Nat
    /\ MinSequenceId \in Int /\ MinSequenceId < 0
    /\ Null \notin Blocks

TREE == 2
TRANSACTIONS == 3
SCRIPTS == 5

VARIABLES
    mapBlockIndex,      \* the known blocks
    validity,           \* nStatus & BLOCK_VALID_MASK of each
    failed,             \* nStatus & BLOCK_FAILED_MASK, as a set of "VALID" and "CHILD"
    haveData,           \* the blocks with BLOCK_HAVE_DATA
    received,           \* the blocks with nTx > 0
    linked,             \* the blocks with nChainTx > 0
    nSequenceId,
    addr,               \* where each entry is in memory
    setBlockIndexCandidates,
    mapBlocksUnlinked,  \* the second components, in order of insertion
    g_failed_blocks,
    pindexBestHeader,
    tip,                \* chainActive.Tip()
    nBlockSequenceId, nBlockReverseSequenceId, nLastPreciousChainwork,
    fHavePruned,
    thread,             \* where each thread is, with its locals
    stopping,           \* a shutdown is requested
    aborted,            \* an assert has ended the process
    commands,           \* how many commands the operator gave
    leftBehind,         \* history: blocks the bookkeeping has lost sight of
    refetched,          \* history: a pruned block came again, and its sequence id changed
    outdated            \* history: a pindexMostWork was used when it was no longer the best

entries == <<mapBlockIndex, validity, failed, nSequenceId, addr>>
data == <<haveData, received, linked, fHavePruned>>
sets == <<setBlockIndexCandidates, mapBlocksUnlinked, g_failed_blocks>>
counters == <<nBlockSequenceId, nBlockReverseSequenceId, nLastPreciousChainwork>>
control == <<stopping, aborted, commands>>
history == <<leftBehind, refetched, outdated>>
vars == <<entries, data, sets, counters, control, history, pindexBestHeader, tip, thread>>

-----------------------------------------------------------------------------
AncestorsOf == [b \in Blocks |-> Prefixes(b)]     \* with b itself
Ancestors(b) == AncestorsOf[b]
Descends(b, a) == a \in Ancestors(b)
InChain(b) == Descends(tip, b)

(* CBlockIndexWorkComparator: a sorts before b.  Among equals the earlier  *)
(* sequence id, then the lower address, is the better one.                 *)
WorseIn(seq, a, b) ==
    \/ nChainWork[a] < nChainWork[b]
    \/ /\ nChainWork[a] = nChainWork[b]
       /\ seq[a] > seq[b] \/ (seq[a] = seq[b] /\ addr[a] > addr[b])

Worse(a, b) == WorseIn(nSequenceId, a, b)

IsValid(b, nUpTo) == failed[b] = {} /\ validity[b] >= nUpTo

RaiseValidity(b, nUpTo) ==
    [validity EXCEPT ![b] = IF failed[b] = {} /\ @ < nUpTo THEN nUpTo ELSE @]

Mark(S, flag) == [b \in Blocks |-> IF b \in S THEN failed[b] \cup {flag} ELSE failed[b]]

(* The blocks on the path from a, exclusive, to b. *)
PathAbove(a, b) == {x \in Ancestors(b) : Descends(x, a) /\ x # a}

-----------------------------------------------------------------------------
Idle == [pc |-> "idle", pindex |-> Null, oldTip |-> Null, queue |-> <<>>]
At(pc, b) == [Idle EXCEPT !.pc = pc, !.pindex = b]

cs_main_free == \A t \in Threads : thread[t].pc \in {"idle", "activate"}

Goto(t, where) == thread' = [thread EXCEPT ![t] = where]

(* ActivateBestChain is called, with no lock held. *)
CallActivate(t) == Goto(t, At("activate", Null))

Running(t, pc) == thread[t].pc = pc /\ ~aborted

Enter(t) == Running(t, "idle") /\ cs_main_free

Command(t, name) ==
    /\ Enter(t) /\ ~stopping
    /\ name \in Commands /\ commands < MaxCommands
    /\ commands' = commands + 1

Init ==
    /\ mapBlockIndex = {Genesis}
    /\ validity = [b \in Blocks |-> IF b = Genesis THEN TRANSACTIONS ELSE 0]
    /\ failed = [b \in Blocks |-> {}]
    /\ haveData = {Genesis} /\ received = {Genesis} /\ linked = {Genesis}
    /\ nSequenceId = [b \in Blocks |-> IF b = Genesis THEN 1 ELSE 0]
    /\ addr \in Addresses
    /\ setBlockIndexCandidates = {Genesis}
    /\ mapBlocksUnlinked = <<>> /\ g_failed_blocks = {}
    /\ pindexBestHeader = Genesis /\ tip = Genesis
    /\ nBlockSequenceId = 2 /\ nBlockReverseSequenceId = -1 /\ nLastPreciousChainwork = 0
    /\ fHavePruned = FALSE
    /\ thread = [t \in Threads |-> Idle]
    /\ stopping = FALSE /\ aborted = FALSE /\ commands = 0
    /\ leftBehind = {} /\ refetched = FALSE /\ outdated = FALSE

-----------------------------------------------------------------------------
(* Headers. *)

(* nUpTo is the validity that the rest of the handler raises the entry to. *)
AddToBlockIndex_NotInserted(b, nUpTo) ==
    /\ validity' = RaiseValidity(b, nUpTo)
    /\ pindexBestHeader' = IF b \notin mapBlockIndex /\ nChainWork[pindexBestHeader] < nChainWork[b]
                           THEN b ELSE pindexBestHeader
    /\ UNCHANGED mapBlockIndex

AddToBlockIndex(b, nUpTo) ==
    /\ mapBlockIndex' = mapBlockIndex \cup {b}
    /\ validity' = RaiseValidity(b, nUpTo)
    /\ pindexBestHeader' = IF b \notin mapBlockIndex /\ nChainWork[pindexBestHeader] < nChainWork[b]
                           THEN b ELSE pindexBestHeader

NewHeader(b) ==
    /\ b \notin mapBlockIndex
    /\ Front(b) \in mapBlockIndex
    /\ failed[Front(b)] = {}

(* The blocks in g_failed_blocks that the loop of AcceptBlockHeader finds. *)
FailedAncestors(b) ==
    IF IsValid(Front(b), SCRIPTS) THEN {} ELSE g_failed_blocks \cap Ancestors(Front(b))

(* AcceptBlockHeader returns true. *)
HeaderFine(b) ==
    \/ b \in mapBlockIndex \ {Genesis} /\ failed[b] = {}
    \/ NewHeader(b) /\ FailedAncestors(b) = {}

(* A header that is known already changes nothing. *)
AcceptBlockHeader(t, b) ==
    /\ Enter(t)
    /\ NewHeader(b) /\ FailedAncestors(b) = {}
    /\ AddToBlockIndex(b, TREE)
    /\ UNCHANGED <<history, failed, nSequenceId, addr, data, sets, counters, control, tip, thread>>

(* The header, alone or with its block, builds on a failed block: the      *)
(* blocks in between are marked.                                           *)
AcceptBlockHeader_Refused(t, b) ==
    /\ Enter(t)
    /\ NewHeader(b)
    /\ \E f \in FailedAncestors(b) :
          IF "VALID" \in failed[f]
          THEN failed' = Mark(PathAbove(f, Front(b)), "CHILD") /\ UNCHANGED aborted
          ELSE aborted' = TRUE /\ UNCHANGED failed
    /\ UNCHANGED <<history, mapBlockIndex, validity, nSequenceId, addr, data, sets, counters,
                   stopping, commands, pindexBestHeader, tip, thread>>

(* GetRightBestHeader adds headers without looking at g_failed_blocks. *)
TryAcceptBlockHeader(t, b) ==
    /\ Enter(t)
    /\ NewHeader(b)
    /\ AddToBlockIndex(b, TREE)
    /\ UNCHANGED <<history, failed, nSequenceId, addr, data, sets, counters, control, tip, thread>>

-----------------------------------------------------------------------------
(* Blocks.  ProcessNewBlock calls AcceptBlock, which begins with           *)
(* AcceptBlockHeader, under one lock.                                      *)

Unwanted(b, fRequested) ==
    \/ b \in haveData
    \/ /\ ~fRequested
       /\ \/ b \in received
          \/ nChainWork[b] < nChainWork[tip]
          \/ Len(b) > Len(tip) + MIN_BLOCKS_TO_KEEP
          \/ nChainWork[b] < nMinimumChainWork

AcceptBlock_Ignored(t, b) ==
    /\ Enter(t)
    /\ HeaderFine(b)
    /\ TRUE \in {Unwanted(b, fRequested) : fRequested \in BOOLEAN}
    /\ AddToBlockIndex(b, TREE)
    /\ CallActivate(t)
    /\ UNCHANGED <<history, failed, nSequenceId, addr, data, sets, counters, control, tip>>

(* The contents are bad, or those of another block with the same header    *)
(* (CorruptionPossible), which says nothing about this one.                *)
AcceptBlock_Rejected(t, b) ==
    /\ Enter(t)
    /\ HeaderFine(b)
    /\ FALSE \in {Unwanted(b, fRequested) : fRequested \in BOOLEAN}
    /\ AddToBlockIndex(b, TREE)
    /\ \/ b \in BadContents /\ failed' = Mark({b}, "VALID")
       \/ UNCHANGED failed
    /\ UNCHANGED <<history, nSequenceId, addr, data, sets, counters, control, tip, thread>>

(* A block whose parent is not linked waits, unless the parent is failed. *)
NowWaiting_Forgotten(b) == mapBlocksUnlinked

NowWaiting(b) ==
    IF IsValid(Front(b), TREE) THEN Append(mapBlocksUnlinked, b) ELSE mapBlocksUnlinked

(* The data is stored; ReceivedBlockTransactions. *)
AcceptBlock(t, b) ==
    /\ Enter(t)
    /\ HeaderFine(b)
    /\ b \notin BadContents
    /\ FALSE \in {Unwanted(b, fRequested) : fRequested \in BOOLEAN}
    /\ AddToBlockIndex(b, TRANSACTIONS)
    /\ haveData' = haveData \cup {b}
    /\ received' = received \cup {b}
    /\ linked' = linked \ {b}
    /\ refetched' = (refetched \/ b \in received)
    /\ leftBehind' = IF Front(b) \in linked \/ IsValid(Front(b), TREE)
                     THEN leftBehind ELSE leftBehind \cup {b}
    /\ IF Front(b) \in linked
       THEN /\ Goto(t, [At("link", Null) EXCEPT !.queue = <<b>>])
            /\ UNCHANGED mapBlocksUnlinked
       ELSE /\ CallActivate(t)
            /\ mapBlocksUnlinked' = NowWaiting(b)
    /\ UNCHANGED <<outdated, failed, nSequenceId, addr, fHavePruned, setBlockIndexCandidates,
                   g_failed_blocks, counters, control, tip>>

IsChildOf(x, b) == Front(x) = b

(* The blocks that wait for b, in the order they came. *)
WaitingFor_Nobody(b) == <<>>

WaitingFor(b) == SelectSeq(mapBlocksUnlinked, LAMBDA x : IsChildOf(x, b))

(* One turn of the loop that links the descendants that were waiting. *)
Link(t) ==
    LET b == Head(thread[t].queue)
        queue == Tail(thread[t].queue) \o WaitingFor(b)
        seq == [nSequenceId EXCEPT ![b] = nBlockSequenceId]
    IN
    /\ Running(t, "link")
    /\ linked' = linked \cup {b}
    /\ nSequenceId' = seq
    /\ nBlockSequenceId' = nBlockSequenceId + 1
    /\ setBlockIndexCandidates' =
          setBlockIndexCandidates \cup (IF WorseIn(seq, b, tip) THEN {} ELSE {b})
    /\ mapBlocksUnlinked' = SelectSeq(mapBlocksUnlinked, LAMBDA x : ~IsChildOf(x, b))
    /\ IF queue = <<>> THEN CallActivate(t) ELSE Goto(t, [thread[t] EXCEPT !.queue = queue])
    /\ UNCHANGED <<history, mapBlockIndex, validity, failed, addr, haveData, received,
                   fHavePruned, g_failed_blocks, nBlockReverseSequenceId,
                   nLastPreciousChainwork, control, pindexBestHeader, tip>>

-----------------------------------------------------------------------------
(* ActivateBestChain. *)

Return(t) == Goto(t, Idle)

BestCandidate ==
    CHOOSE b \in setBlockIndexCandidates : \A c \in setBlockIndexCandidates \ {b} : Worse(c, b)

Unusable(b) == failed[b] # {} \/ b \notin haveData

(* The first unusable block on the way from b down to the active chain, or *)
(* Null.                                                                   *)
FirstUnusable(b) ==
    LET found == {x \in Ancestors(b) : ~InChain(x) /\ Unusable(x)} IN
    IF found = {} THEN Null ELSE CHOOSE x \in found : \A y \in found : Len(y) <= Len(x)

(* The blocks FindMostWorkChain looks at for candidate b, each of which it *)
(* asserts to be linked.                                                   *)
Tested(b) ==
    {x \in Ancestors(b) : ~InChain(x) /\ (FirstUnusable(b) = Null \/ Descends(x, FirstUnusable(b)))}

(* What FindMostWorkChain would return at once. *)
IsBest(b) ==
    /\ b \in setBlockIndexCandidates /\ b = BestCandidate
    /\ FirstUnusable(b) = Null

(* The loop of ActivateBestChain takes cs_main again, with the             *)
(* pindexMostWork of the turn before.                                      *)
ActivateBestChain(t) ==
    LET m == thread[t].pindex IN
    /\ Running(t, "activate") /\ cs_main_free
    /\ m # Null
    /\ IF m = tip THEN Return(t) ELSE Goto(t, [At("step", m) EXCEPT !.oldTip = tip])
    /\ outdated' = (outdated \/ ~(m = tip \/ IsBest(m)))
    /\ UNCHANGED <<leftBehind, refetched, entries, data, sets, counters, control,
                   pindexBestHeader, tip>>

(* It has none and looks for one: one turn of the loop of                  *)
(* FindMostWorkChain.                                                      *)
FindMostWorkChain(t) ==
    LET pindexNew == BestCandidate
        pindexTest == FirstUnusable(pindexNew)
        chain == PathAbove(pindexTest, pindexNew)
        downwards == [i \in 1..Cardinality(chain) |-> SubSeq(pindexNew, 1, Len(pindexNew) + 1 - i)]
    IN
    /\ Running(t, "find") \/ (Running(t, "activate") /\ cs_main_free)
    /\ thread[t].pindex = Null
    /\ IF setBlockIndexCandidates = {}
       THEN Return(t) /\ UNCHANGED <<failed, setBlockIndexCandidates, mapBlocksUnlinked>>
       ELSE IF pindexTest = Null
       THEN /\ IF pindexNew = tip THEN Return(t)
               ELSE Goto(t, [At("step", pindexNew) EXCEPT !.oldTip = tip])
            /\ UNCHANGED <<failed, setBlockIndexCandidates, mapBlocksUnlinked>>
       ELSE /\ setBlockIndexCandidates' = setBlockIndexCandidates \ (chain \cup {pindexTest})
            /\ IF failed[pindexTest] # {}
               THEN failed' = Mark(chain, "CHILD") /\ UNCHANGED mapBlocksUnlinked
               ELSE mapBlocksUnlinked' = mapBlocksUnlinked \o downwards /\ UNCHANGED failed
            /\ Goto(t, At("find", Null))
    /\ aborted' = (setBlockIndexCandidates # {} /\ ~(Tested(pindexNew) \subseteq linked))
    /\ UNCHANGED <<history, mapBlockIndex, validity, nSequenceId, addr, data, g_failed_blocks,
                   counters, stopping, commands, pindexBestHeader, tip>>

(* AbortNode: the handler gives up and the node shuts down. *)
AbortNode(t) ==
    /\ stopping' = TRUE
    /\ Return(t)

(* ReadBlockFromDisk cannot find the next block to disconnect or to        *)
(* connect: it has been pruned.                                            *)
ReadBlockFromDisk_Fails(t) ==
    LET m == thread[t].pindex
        b == IF Descends(m, tip) THEN SubSeq(m, 1, Len(tip) + 1) ELSE tip
    IN
    /\ Running(t, "step")
    /\ b \notin haveData
    /\ AbortNode(t)
    /\ UNCHANGED <<history, entries, data, sets, counters, aborted, commands,
                   pindexBestHeader, tip>>

(* ActivateBestChainStep disconnects down to the fork, which is            *)
(* pindexMostWork itself when another thread has moved the tip past it, ... *)
DisconnectTip(t) ==
    LET m == thread[t].pindex IN
    /\ Running(t, "step")
    /\ ~Descends(m, tip)
    /\ tip \in haveData
    /\ tip' = Front(tip)
    /\ IF tip' = m THEN Return(t) ELSE UNCHANGED thread
    /\ UNCHANGED <<history, entries, data, sets, counters, control, pindexBestHeader>>

(* The end of a turn of ActivateBestChain, with the tip it reached. *)
EndOfStep_NoLoop(t, newTip, m) == Return(t)

EndOfStep(t, newTip, m) ==
    IF m = newTip \/ stopping THEN Return(t) ELSE Goto(t, At("activate", m))

(* PruneBlockIndexCandidates drops what sorts before the tip and asserts   *)
(* that something is left.                                                 *)
PruneBlockIndexCandidates_DropsTip(cands, seq, newTip) ==
    {c \in cands : WorseIn(seq, newTip, c)}

PruneBlockIndexCandidates(cands, seq, newTip) == {c \in cands : ~WorseIn(seq, c, newTip)}

(* ... and connects upwards until the tip is better than it was. *)
ConnectTip(t) ==
    LET m == thread[t].pindex
        b == SubSeq(m, 1, Len(tip) + 1)
        left == PruneBlockIndexCandidates(setBlockIndexCandidates, nSequenceId, b)
    IN
    /\ Running(t, "step")
    /\ Descends(m, tip)
    /\ b \in haveData /\ b \notin BadScripts
    /\ tip' = b
    /\ validity' = RaiseValidity(b, SCRIPTS)
    /\ setBlockIndexCandidates' = left
    /\ aborted' = (left = {})
    /\ IF b = m \/ nChainWork[b] > nChainWork[thread[t].oldTip]
       THEN EndOfStep(t, b, m)
       ELSE UNCHANGED thread
    /\ UNCHANGED <<history, mapBlockIndex, failed, nSequenceId, addr, data,
                   mapBlocksUnlinked, g_failed_blocks, counters, stopping, commands,
                   pindexBestHeader>>

(* ConnectBlock rejects the block: InvalidBlockFound. *)
InvalidBlockFound(t) ==
    LET m == thread[t].pindex
        b == SubSeq(m, 1, Len(tip) + 1)
    IN
    /\ Running(t, "step")
    /\ Descends(m, tip)
    /\ b \in haveData \cap BadScripts
    /\ failed' = Mark({b}, "VALID")
    /\ g_failed_blocks' = g_failed_blocks \cup {b}
    /\ setBlockIndexCandidates' = setBlockIndexCandidates \ {b}
    /\ EndOfStep(t, tip, Null)
    /\ UNCHANGED <<history, mapBlockIndex, validity, nSequenceId, addr, data,
                   mapBlocksUnlinked, counters, control, pindexBestHeader, tip>>

-----------------------------------------------------------------------------
(* The operator's commands. *)

PreciousBlock(t, b) ==
    LET rev == IF nChainWork[tip] > nLastPreciousChainwork THEN -1 ELSE nBlockReverseSequenceId
        seq == [nSequenceId EXCEPT ![b] = rev]
        cands == setBlockIndexCandidates \ {b}
        left == PruneBlockIndexCandidates(cands \cup {b}, seq, tip)
    IN
    /\ Command(t, "precious")
    /\ b \in mapBlockIndex
    /\ nChainWork[b] >= nChainWork[tip]
    /\ nBlockReverseSequenceId' = IF rev > MinSequenceId THEN rev - 1 ELSE rev
    /\ nLastPreciousChainwork' = nChainWork[tip]
    /\ nSequenceId' = seq
    /\ IF IsValid(b, TRANSACTIONS) /\ b \in linked
       THEN setBlockIndexCandidates' = left /\ aborted' = (left = {})
       ELSE setBlockIndexCandidates' = cands /\ UNCHANGED aborted
    /\ CallActivate(t)
    /\ UNCHANGED <<history, mapBlockIndex, validity, failed, addr, data, mapBlocksUnlinked,
                   g_failed_blocks, nBlockSequenceId, stopping, pindexBestHeader, tip>>

(* The blocks InvalidateBlock disconnects on top of b. *)
ConnectedAbove(b) == IF InChain(b) THEN PathAbove(b, tip) ELSE {}

InvalidFlags(b) == [Mark(ConnectedAbove(b), "CHILD") EXCEPT ![b] = @ \cup {"VALID"}]

Eligible_None(flags, newTip) == {}

Eligible(flags, newTip) ==
    {x \in mapBlockIndex \cap linked :
        flags[x] = {} /\ validity[x] >= TRANSACTIONS /\ ~Worse(x, newTip)}

(* invalidateblock: the tip falls to b's parent, the blocks that were      *)
(* connected on top of b and b itself are marked, and everything at least  *)
(* as good as the new tip is a candidate again.                            *)
InvalidateBlock(t, b) ==
    LET newTip == IF InChain(b) THEN Front(b) ELSE tip IN
    /\ Command(t, "invalidate")
    /\ b \in mapBlockIndex \ {Genesis}
    /\ InChain(b) => PathAbove(Front(b), tip) \subseteq haveData
    /\ tip' = newTip
    /\ failed' = InvalidFlags(b)
    /\ setBlockIndexCandidates' =
          (setBlockIndexCandidates \ (ConnectedAbove(b) \cup {b})) \cup Eligible(failed', newTip)
    /\ g_failed_blocks' = g_failed_blocks \cup {b}
    /\ CallActivate(t)
    /\ UNCHANGED <<history, mapBlockIndex, validity, nSequenceId, addr, data,
                   mapBlocksUnlinked, counters, stopping, aborted, pindexBestHeader>>

(* The data of a block to disconnect is gone: the tip stays on that block. *)
InvalidateBlock_NoData(t, b) ==
    LET pruned == PathAbove(Front(b), tip) \ haveData IN
    /\ Command(t, "invalidate")
    /\ b \in mapBlockIndex \ {Genesis} /\ InChain(b)
    /\ pruned # {}
    /\ tip' = CHOOSE x \in pruned : \A y \in pruned : Len(y) <= Len(x)
    /\ AbortNode(t)
    /\ UNCHANGED <<history, entries, data, sets, counters, aborted, pindexBestHeader>>

NotValidBelow(b) == {x \in mapBlockIndex : Descends(x, b) /\ ~IsValid(x, TRANSACTIONS)}

Cleared_AncestorsOnly(b) == Ancestors(b)

Cleared(b) == NotValidBelow(b) \cup Ancestors(b)

(* reconsiderblock: b, its descendants and its ancestors lose their flags; *)
(* of these b and its descendants may become candidates and leave          *)
(* g_failed_blocks.                                                        *)
ResetBlockFailureFlags(t, b) ==
    LET below == NotValidBelow(b) IN
    /\ Command(t, "reconsider")
    /\ b \in mapBlockIndex
    /\ failed' = [x \in Blocks |-> IF x \in Cleared(b) THEN {} ELSE failed[x]]
    /\ setBlockIndexCandidates' = setBlockIndexCandidates \cup
          {x \in below \cap linked : validity[x] >= TRANSACTIONS /\ Worse(tip, x)}
    /\ g_failed_blocks' = g_failed_blocks \ below
    /\ leftBehind' = leftBehind \cup
          {x \in mapBlockIndex \ below : \E a \in Ancestors(b) \cap Ancestors(x) : failed[a] # {}}
    /\ CallActivate(t)
    /\ UNCHANGED <<refetched, outdated, mapBlockIndex, validity, nSequenceId, addr, data,
                   mapBlocksUnlinked, counters, stopping, aborted, pindexBestHeader, tip>>

(* pruneblockchain: block files whose highest block is far below the tip.  *)
PruneOneBlockFile(t, file) ==
    /\ Command(t, "prune")
    /\ file # {} /\ file \subseteq haveData
    /\ \A b \in file : Len(b) <= Len(tip) - MIN_BLOCKS_TO_KEEP
    /\ haveData' = haveData \ file
    /\ fHavePruned' = TRUE
    /\ leftBehind' = leftBehind \cup (file \ linked)
    /\ mapBlocksUnlinked' = SelectSeq(mapBlocksUnlinked, LAMBDA x : x \notin file)
    /\ UNCHANGED <<refetched, outdated, entries, received, linked, setBlockIndexCandidates,
                   g_failed_blocks, counters, stopping, aborted, pindexBestHeader, tip,
                   thread>>

Stop(t) ==
    /\ Command(t, "restart")
    /\ stopping' = TRUE
    /\ UNCHANGED <<history, entries, data, sets, counters, aborted, pindexBestHeader, tip,
                   thread>>

(* The order in which LoadBlockIndex goes through the entries. *)
vSortedByHeight ==
    [f \in Addresses |->
        SetToSortSeq(Blocks, LAMBDA a, b : Len(a) < Len(b) \/ (Len(a) = Len(b) /\ f[a] < f[b]))]

(* LoadBlockIndex, LoadChainTip and the ActivateBestChain of ThreadImport: *)
(* the links, the candidates, the flags of the descendants of failed       *)
(* blocks and the best header are computed anew.                           *)
Restart(t) ==
    LET fails == {b \in mapBlockIndex : \E a \in Ancestors(b) : failed[a] # {}}
        links == {b \in mapBlockIndex : Ancestors(b) \subseteq received}
        unlinked == {b \in received \ {Genesis} : Front(b) \notin links}
        better(f, a, b) == \/ nChainWork[a] > nChainWork[b]
                           \/ nChainWork[a] = nChainWork[b] /\ f[a] < f[b]
        valid == {b \in mapBlockIndex \ fails : validity[b] >= TRANSACTIONS}
    IN
    /\ stopping /\ cs_main_free /\ ~aborted
    /\ \E f \in Addresses :
          LET left == {b \in valid \cap links : b = tip \/ better(f, b, tip)} IN
          /\ addr' = f
          /\ mapBlocksUnlinked' =
                SelectSeq(vSortedByHeight[f], LAMBDA b : b \in unlinked)
          /\ setBlockIndexCandidates' = left
          /\ aborted' = (left = {})
          /\ pindexBestHeader' = CHOOSE b \in mapBlockIndex \ fails :
                                    \A c \in mapBlockIndex \ fails : b = c \/ better(f, b, c)
    /\ failed' = [b \in Blocks |-> IF b \in fails /\ failed[b] = {} THEN {"CHILD"} ELSE failed[b]]
    /\ linked' = links
    /\ nSequenceId' = [b \in Blocks |-> 0]
    /\ g_failed_blocks' = {}
    /\ nBlockSequenceId' = 1 /\ nBlockReverseSequenceId' = -1 /\ nLastPreciousChainwork' = 0
    /\ stopping' = FALSE
    /\ leftBehind' = {b \in leftBehind : failed'[b] # {}}
          \cup (unlinked \ haveData)
    /\ refetched' = FALSE
    /\ thread' = [u \in Threads |-> IF u = t THEN At("activate", Null) ELSE Idle]
    /\ UNCHANGED <<mapBlockIndex, validity, haveData, received, fHavePruned, commands,
                   outdated, tip>>

-----------------------------------------------------------------------------
Step(t) ==
    \/ Link(t) \/ ActivateBestChain(t) \/ FindMostWorkChain(t)
    \/ ReadBlockFromDisk_Fails(t) \/ DisconnectTip(t) \/ ConnectTip(t) \/ InvalidBlockFound(t)

Next ==
    \/ \E t \in Threads : Step(t)
    \/ \E t \in Processors, b \in Blocks \ {Genesis} :
          \/ AcceptBlockHeader(t, b) \/ AcceptBlockHeader_Refused(t, b) \/ TryAcceptBlockHeader(t, b)
          \/ AcceptBlock_Ignored(t, b) \/ AcceptBlock_Rejected(t, b) \/ AcceptBlock(t, b)
    \/ \E t \in Operators, b \in Blocks :
          \/ PreciousBlock(t, b) \/ InvalidateBlock(t, b) \/ InvalidateBlock_NoData(t, b)
          \/ ResetBlockFailureFlags(t, b)
    \/ \E t \in Operators, file \in SUBSET haveData : PruneOneBlockFile(t, file)
    \/ \E t \in Operators : Stop(t)
    \/ \E t \in Processors : Restart(t)

Spec == Init /\ [][Next]_vars

-----------------------------------------------------------------------------
(* The state has its shape, and the tip, the best header, the candidates   *)
(* and everything received are known blocks.                               *)
TypeOK ==
    /\ mapBlockIndex \subseteq Blocks /\ tip \in mapBlockIndex /\ pindexBestHeader \in mapBlockIndex
    /\ validity \in [Blocks -> {0, TREE, TRANSACTIONS, SCRIPTS}]
    /\ failed \in [Blocks -> SUBSET {"VALID", "CHILD"}]
    /\ haveData \subseteq received /\ received \subseteq mapBlockIndex /\ linked \subseteq received
    /\ nSequenceId \in [Blocks -> Int] /\ addr \in Addresses
    /\ setBlockIndexCandidates \subseteq mapBlockIndex /\ g_failed_blocks \subseteq mapBlockIndex
    /\ mapBlocksUnlinked \in Seq(received) /\ leftBehind \subseteq mapBlockIndex
    /\ refetched \in BOOLEAN /\ outdated \in BOOLEAN /\ fHavePruned \in BOOLEAN
    /\ stopping \in BOOLEAN /\ aborted \in BOOLEAN

(* The properties below are the assertions of CheckBlockIndex, where       *)
(* pindexFirstInvalid and its like are quantifiers over the ancestors.     *)
(* They are claimed when every call of ActivateBestChain has returned      *)
(* (Settled), those about candidates and tip if besides none of them went  *)
(* on with a pindexMostWork that another thread had made outdated.         *)
Settled == ~aborted /\ ~stopping /\ \A t \in Threads : thread[t].pc = "idle"
AtRest == Settled /\ ~outdated

NoInvalid(b) == \A a \in Ancestors(b) : "VALID" \notin failed[a]
NeverProcessed(b) == ~(Ancestors(b) \subseteq received)
Missing(b) == ~(Ancestors(b) \subseteq haveData)
Unlinked(b) == b \in ToSet(mapBlocksUnlinked)

(* The block, or one it builds on, has been lost sight of. *)
LeftBehind(b) == Ancestors(b) \cap leftBehind # {}

(* setBlockIndexCandidates holds the tip and every valid block with all    *)
(* its data that is at least as good, and nothing that is worse than the   *)
(* tip or not linked to it: whatever headers, blocks, reorganisations,     *)
(* failures and commands came before, no chain that could win is           *)
(* overlooked (validation.cpp:6079-6094).  Not claimed of blocks left      *)
(* behind, nor after a pruned block was fetched again.                     *)
Candidates ==
    AtRest /\ ~refetched => \A b \in mapBlockIndex :
       IF Worse(b, tip) \/ NeverProcessed(b)
       THEN b \notin setBlockIndexCandidates
       ELSE NoInvalid(b) /\ ~LeftBehind(b) /\ (~Missing(b) \/ b = tip)
               => b \in setBlockIndexCandidates

(* mapBlocksUnlinked remembers every block whose data came before that of  *)
(* an ancestor, so that it is linked when the ancestor arrives, and holds  *)
(* no other block (validation.cpp:6095-6128).                              *)
UnlinkedRight ==
    AtRest /\ ~refetched => \A b \in {x \in mapBlockIndex \ {Genesis} : ~LeftBehind(x)} :
       /\ b \in haveData /\ NeverProcessed(b) /\ NoInvalid(b) => Unlinked(b)
       /\ Unlinked(b) => b \in haveData /\ Missing(b)
       /\ /\ b \in haveData /\ ~NeverProcessed(b) /\ Missing(b) /\ NoInvalid(b)
          /\ ~Worse(b, tip) /\ b \notin setBlockIndexCandidates
          => Unlinked(b)

(* The flags of an entry agree with each other and with its ancestors':    *)
(* nChainTx is set exactly when all ancestors have been received, however  *)
(* out of order they came, and a block is SCRIPTS valid only on top of     *)
(* blocks that are (validation.cpp:6047-6072).                             *)
Status ==
    Settled => \A b \in mapBlockIndex :
       /\ b \notin linked => nSequenceId[b] <= 0
       /\ ~fHavePruned => (b \in haveData <=> b \in received)
       /\ validity[b] >= TRANSACTIONS <=> b \in received
       /\ LeftBehind(b) \/ (b \in linked <=> ~NeverProcessed(b))
       /\ validity[b] = SCRIPTS => \A a \in Ancestors(b) \ {Genesis} : validity[a] = SCRIPTS

(* "The failed mask cannot be set for blocks without invalid parents"      *)
(* (validation.cpp:6077): after any number of invalidations, rejections,   *)
(* reconsiderations and restarts, a flag has a cause.                      *)
FailedHasReason ==
    Settled => \A b \in mapBlockIndex : failed[b] # {} /\ ~LeftBehind(b) => ~NoInvalid(b)

(* The assertions inside the handlers hold: FindMostWorkChain walks over   *)
(* linked blocks (line 3842), PruneBlockIndexCandidates leaves a candidate *)
(* (line 3888) and the blocks in g_failed_blocks are failed (line 4852).   *)
NoAssertFails == leftBehind = {} /\ ~outdated => ~aborted

(* No chain that is complete and not known to be invalid is better than    *)
(* the active one.                                                         *)
NoneBetter ==
    \A b \in mapBlockIndex :
       (\A a \in Ancestors(b) : failed[a] = {} /\ a \in haveData \ leftBehind) => ~Worse(tip, b)

(* When the calls of ActivateBestChain have returned, the best chain is    *)
(* active: after whatever order of headers and blocks, failed              *)
(* reorganisations, commands and restarts, as long as no thread went on    *)
(* with an outdated pindexMostWork (line 4029).                            *)
BestChainActive == AtRest /\ ~refetched => NoneBetter

(* "The result is either failure or an activated best chain" (lines        *)
(* 3998-3999), for any number of threads in ActivateBestChain.             *)
BestChainActivated == Settled /\ ~refetched => NoneBetter

=============================================================================
