------------------------- MODULE ContractStorage -------------------------
(***************************************************************************)
(* ContractStorageService (contract_storage.cpp): the state of the smart   *)
(* contracts, kept in two databases that have no common transaction.       *)
(*                                                                         *)
(*   LevelDB  contract infos, name => id mappings, storages, events, the   *)
(*            diff of every commit, ROOT_STATE_HASH, TOP_ROOT_STATE_HASH   *)
(*   SQLite   table commit_info, one row per commit, in commit order       *)
(*                                                                         *)
(* An operation is a sequence of single writes.  SQL statements between    *)
(* BEGIN and COMMIT are undone by SQLite itself; LevelDB writes are undone *)
(* by hand, from a snapshot and a list of changed keys.  The model takes   *)
(* one step per write, so that an exception, a failed write or the death   *)
(* of the process can fall between any two of them.                        *)
(*                                                                         *)
(* A commit id is hash(old root, change, height).  Here it is the sequence *)
(* of the changes since EMPTY_COMMIT_ID: distinct histories have distinct  *)
(* ids.  The height is left to ContractChain.                              *)
(***************************************************************************)
EXTENDS Integers, Sequences, SequencesExt, FiniteSets, TLC

CONSTANTS
    Contracts,      \* contract addresses
    Names,          \* contract names
    Values,         \* values of a contract's storage
    Null,           \* the JSON null of a storage that is not there
    NoName,         \* the empty name
    NoEntry,        \* a balance list without an entry for asset 0
    Absent,         \* a key that LevelDB does not have
    MaxAmount,      \* largest amount moved by one change
    MaxHistory,     \* longest history of commits
    MaxResets,      \* calls of reset_root_state_hash
    MaxResetCommits,\* commits begun while a reset is pending
    MaxRollbacks,   \* calls of rollback_contract_state
    MaxIoErrors,    \* LevelDB writes that fail
    MaxCrashes,     \* deaths of the process
    MaxEvents       \* resets, rollbacks, failed writes and deaths together

ASSUME BoundsAssumption ==
    {MaxAmount, MaxHistory, MaxResets, MaxResetCommits,
     MaxRollbacks, MaxIoErrors, MaxCrashes, MaxEvents} \subseteq Nat

VARIABLES
    db,     \* LevelDB: a function on the keys that are present
    sql,    \* rows of commit_info as the connection sees them: a sequence of commit ids
    op,     \* the operation in progress, or Idle
    used    \* how often each bounded event has happened

vars == <<db, sql, op, used>>

EMPTY_COMMIT_ID == << >>

InfoKey(c) == <<"contract_info_key", c>>
NameKey(n) == <<"contract_name_id_mapping", n>>
StorageKey(c) == <<"contract_storage_key", c>>
EventsKey(id) == <<"commit_events", id>>
DiffKey(id) == <<"commit", id>>
RootKey == <<"ROOT_STATE_HASH">>
TopKey == <<"TOP_ROOT_STATE_HASH">>

Get(d, key) == IF key \in DOMAIN d THEN d[key] ELSE Absent

Put(d, key, val) ==
    IF val = Absent THEN [k \in DOMAIN d \ {key} |-> d[k]]
                    ELSE (key :> val) @@ d

current_root_state_hash(d) ==
    IF Get(d, RootKey) = Absent THEN EMPTY_COMMIT_ID ELSE Get(d, RootKey)

top_root_state_hash(d) ==
    IF Get(d, TopKey) = Absent THEN EMPTY_COMMIT_ID ELSE Get(d, TopKey)

get_contract_storage(d, c) ==
    IF Get(d, StorageKey(c)) = Absent THEN Null ELSE Get(d, StorageKey(c))

get_commit_info(rows, id) == \E i \in DOMAIN rows : rows[i] = id

find_contract_id_by_name(d, n) ==
    LET c == Get(d, NameKey(n))
    IN  IF c = Absent THEN Absent
        ELSE IF Get(d, InfoKey(c)) = Absent THEN Absent ELSE c

-----------------------------------------------------------------------------
(* Writes.  A program is a sequence of them.                               *)

Write(key, val) == [do |-> "write", key |-> key, val |-> val]
Insert(id) == [do |-> "insert", key |-> id, val |-> Absent]
Delete(id) == [do |-> "delete", key |-> id, val |-> Absent]
Begin == [do |-> "begin", key |-> Absent, val |-> Absent]
Commit == [do |-> "commit", key |-> Absent, val |-> Absent]
Die == [do |-> "die", key |-> Absent, val |-> Absent]
Throw(what) == [do |-> "throw", key |-> what, val |-> Absent]

(* The database after the writes of a program. *)
Run(d, prog) ==
    FoldLeft(LAMBDA e, w : IF w.do = "write" THEN Put(e, w.key, w.val) ELSE e, d, prog)

(* ContractInfo::to_json and from_json both drop an entry of amount 0. *)
Normalized(info) == [info EXCEPT !.balance = IF @ = 0 THEN NoEntry ELSE @]

Amount(info) == IF info.balance = NoEntry THEN 0 ELSE info.balance

AddedBalance(info, delta) ==
    [info EXCEPT !.balance = IF @ # NoEntry THEN @ + delta
                             ELSE IF delta > 0 THEN delta ELSE 0]

RemovedBalance(info, delta) ==
    Normalized([Normalized(info) EXCEPT
        !.balance = IF @ # NoEntry THEN @ - delta
                    ELSE IF delta > 0 THEN 0 ELSE -delta])

-----------------------------------------------------------------------------
(* Changes.  A change of type "info" saves a new contract; one of type     *)
(* "changes" moves balances, patches storages and may name a contract.     *)

NoDelta == [c \in Contracts |-> 0]
NoPatch == [c \in Contracts |-> <<Null, Null>>]

InfoChange(c) ==
    [type |-> "info", contract |-> c, name |-> NoName, delta |-> NoDelta, patch |-> NoPatch]

Changes(c, name, delta, patch) ==
    [type |-> "changes", contract |-> c, name |-> name, delta |-> delta, patch |-> patch]

Affected(ch) == SetToSeq({c \in Contracts : ch.delta[c] # 0})
Patched(ch) == SetToSeq({c \in Contracts : ch.patch[c][1] # ch.patch[c][2]})

(* The loop over balance_changes: it stops at the first exception. *)
BalanceWrite(d, c, delta) ==
    LET info == Get(d, InfoKey(c))
    IN  IF info = Absent THEN Throw("contract info not found to transfer balance")
        ELSE IF info.balance # NoEntry /\ info.balance + delta < 0
             THEN Throw("contract balance can't be negative")
             ELSE Write(InfoKey(c), AddedBalance(info, delta))

(* The writes of commit_contract_changes after BEGIN. *)
ChangeWrites(d, ch, id) ==
    LET balances == [i \in DOMAIN Affected(ch) |->
                        BalanceWrite(d, Affected(ch)[i], ch.delta[Affected(ch)[i]])]
        patches  == [i \in DOMAIN Patched(ch) |->
                        Write(StorageKey(Patched(ch)[i]), ch.patch[Patched(ch)[i]][2])]
        info     == Get(Run(d, balances), InfoKey(ch.contract))
        upgrade  == IF ch.name = NoName THEN << >>
                    ELSE IF info = Absent THEN <<Throw("contract info not found to upgrade")>>
                    ELSE IF info.name # NoName THEN <<Throw("contract with name can't upgrade again")>>
                    ELSE << Write(InfoKey(ch.contract), [Normalized(info) EXCEPT !.name = ch.name]),
                            Write(NameKey(ch.name), ch.contract) >>
    IN  balances \o patches \o <<Write(EventsKey(id), TRUE)>> \o upgrade

(* add_commit_info, then the two root hashes. *)
CommitWrites_DiffLast(ch, id) ==
    << Insert(id), Write(RootKey, id), Write(TopKey, id), Commit, Write(DiffKey(id), ch) >>

CommitWrites_RootsLast(ch, id) ==
    << Insert(id), Write(DiffKey(id), ch), Commit, Write(RootKey, id), Write(TopKey, id) >>

CommitWrites(ch, id) ==
    << Insert(id), Write(DiffKey(id), ch), Write(RootKey, id), Write(TopKey, id), Commit >>

-----------------------------------------------------------------------------
(* rollback_to_root_state_hash_without_transactional                       *)

RemoveWrite(d, c, delta) ==
    IF Get(d, InfoKey(c)) = Absent THEN Throw("contract info not found to transfer balance")
    ELSE Write(InfoKey(c), RemovedBalance(Get(d, InfoKey(c)), delta))

(* A row of type "info": the info's diff from {} is taken back.  The row    *)
(* dereferences the contract's info without a check.  Without a diff        *)
(* rollback returns its argument.                                          *)
UndoInfo(d, id) ==
    LET c    == Last(id).contract
        info == Get(d, InfoKey(c))
    IN  IF info = Absent THEN <<Die>>
        ELSE IF Get(d, DiffKey(id)) = Absent THEN <<Write(InfoKey(c), Normalized(info))>>
        ELSE <<Write(InfoKey(c), Absent)>> \o
             (IF info.name = NoName THEN << >> ELSE <<Write(NameKey(info.name), Absent)>>)

(* The old name is the empty one: name_diff was taken from "". *)
Downgraded_JsonNull(info) == [Normalized(info) EXCEPT !.name = Null]
Downgraded(info) == [Normalized(info) EXCEPT !.name = NoName]

(* A row of type "changes"; converting a missing diff to an object throws. *)
UndoChanges(d, id) ==
    LET ch       == Get(d, DiffKey(id))
        balances == [i \in DOMAIN Affected(ch) |->
                        RemoveWrite(d, Affected(ch)[i], ch.delta[Affected(ch)[i]])]
        patches  == [i \in DOMAIN Patched(ch) |->
                        Write(StorageKey(Patched(ch)[i]), ch.patch[Patched(ch)[i]][1])]
        info     == Get(Run(d, balances), InfoKey(ch.contract))
        upgrade  == IF ch.name = NoName THEN << >>
                    ELSE IF info = Absent THEN <<Throw("contract info not found to rollback upgrade")>>
                    ELSE <<Write(InfoKey(ch.contract), Downgraded(info))>> \o
                         (IF info.name = NoName THEN << >> ELSE <<Write(NameKey(info.name), Absent)>>)
    IN  IF ch = Absent THEN <<Throw("bad cast of null")>>
        ELSE balances \o patches \o upgrade \o <<Write(EventsKey(id), Absent)>>

UndoRow_KeepsRow(d, id) ==
    (IF Last(id).type = "info" THEN UndoInfo(d, id) ELSE UndoChanges(d, id))
        \o <<Write(DiffKey(id), Absent)>>

UndoRow(d, id) ==
    (IF Last(id).type = "info" THEN UndoInfo(d, id) ELSE UndoChanges(d, id))
        \o <<Delete(id), Write(DiffKey(id), Absent)>>

(* The rows newer than dest, newest first. *)
NewerRows_OldestFirst(rows, dest) ==
    IF dest = EMPTY_COMMIT_ID THEN rows
    ELSE SubSeq(rows, 1 + CHOOSE i \in DOMAIN rows : rows[i] = dest, Len(rows))

NewerRows(rows, dest) ==
    Reverse(IF dest = EMPTY_COMMIT_ID THEN rows
            ELSE SubSeq(rows, 1 + CHOOSE i \in DOMAIN rows : rows[i] = dest, Len(rows)))

RollbackWrites(d, rows, dest) ==
    IF dest # EMPTY_COMMIT_ID /\ ~get_commit_info(rows, dest) THEN <<Throw("Can't find commit")>>
    ELSE FoldLeft(LAMBDA prog, id : prog \o UndoRow(Run(d, prog), id),
                  << >>, NewerRows(rows, dest))
         \o << Write(RootKey, dest), Write(TopKey, dest) >>

(* The rows after a program: those it deletes are the newest. *)
RowsAfter(rows, prog) ==
    SelectSeq(rows, LAMBDA id :
        \A i \in DOMAIN prog : prog[i].do = "delete" => prog[i].key # id)

-----------------------------------------------------------------------------
(* The operations as programs.                                             *)

(* When the root was reset, a commit first rolls the data back to it. *)
PendingRollback(d, rows) ==
    IF current_root_state_hash(d) = top_root_state_hash(d) THEN << >>
    ELSE RollbackWrites(d, rows, current_root_state_hash(d))

save_contract_info(d, rows, c) ==
    LET undo == PendingRollback(d, rows)
        ch   == InfoChange(c)
        id   == Append(current_root_state_hash(d), ch)
        same == get_commit_info(RowsAfter(rows, undo), id)
    IN  <<Begin>> \o undo
        \o <<Write(InfoKey(c), [name |-> NoName, balance |-> NoEntry])>>
        \o (IF same THEN <<Throw("same commitId existed before")>> ELSE CommitWrites(ch, id))

commit_contract_changes(d, rows, ch) ==
    LET undo == PendingRollback(d, rows)
        id   == Append(current_root_state_hash(d), ch)
        same == get_commit_info(RowsAfter(rows, undo), id)
    IN  undo \o
        (IF ch = Changes(ch.contract, NoName, NoDelta, NoPatch) THEN << >>
         ELSE IF same THEN <<Throw("same commitId existed before")>>
         ELSE <<Begin>> \o ChangeWrites(Run(d, undo), ch, id) \o CommitWrites(ch, id))

rollback_contract_state(d, rows, dest) ==
    <<Begin>> \o RollbackWrites(d, rows, dest) \o <<Commit>>

-----------------------------------------------------------------------------
(* What executing a contract transaction on the data d can ask to commit:  *)
(* ContractExec::performByteCode and the chain API the contract calls.     *)

Live(d) == {c \in Contracts : Get(d, InfoKey(c)) # Absent}

Deposits(d) ==
    {Changes(c, NoName, [NoDelta EXCEPT ![c] = a], NoPatch) : c \in Live(d), a \in 1..MaxAmount}

(* A call writes the contract's storage; the diff holds the value it read. *)
Calls(d) ==
    {Changes(c, NoName, NoDelta, [NoPatch EXCEPT ![c] = <<get_contract_storage(d, c), v>>]) :
        c \in Live(d), v \in Values \cup {Null}}

(* transfer_from_contract_to_address checks the payer's balance, and of    *)
(* the payee only the format of its address.                               *)
Transfers(d) ==
    UNION {{Changes(c, NoName, [NoDelta EXCEPT ![c] = -a], NoPatch)} \cup
           {Changes(c, NoName, [NoDelta EXCEPT ![c] = -a, ![e] = a], NoPatch) : e \in Contracts \ {c}} :
              <<c, a>> \in {p \in Live(d) \X (1..MaxAmount) : p[2] <= Amount(Get(d, InfoKey(p[1])))}}

Upgrades(d) ==
    {Changes(c, n, NoDelta, NoPatch) :
        c \in {e \in Live(d) : Get(d, InfoKey(e)).name = NoName},
        n \in {m \in Names : find_contract_id_by_name(d, m) = Absent}}

Executed(d) == Deposits(d) \cup Calls(d) \cup Transfers(d) \cup Upgrades(d)

-----------------------------------------------------------------------------
(* prog: the writes still to do.  snap, rows: both databases at the start  *)
(* (rows only for the properties).  changed: changed_leveldb_keys.  tx: the *)
(* rows a ROLLBACK restores, once BEGIN was executed.                      *)
Idle == [prog |-> << >>, snap |-> << >>, rows |-> << >>, changed |-> {}, tx |-> Absent]

Init ==
    /\ db = << >>
    /\ sql = << >>
    /\ op = Idle
    /\ used = [reset |-> 0, late |-> 0, rollback |-> 0, io |-> 0, crash |-> 0, undo |-> 0, torn |-> 0]

(* The caller holds storage_mutex until the operation is over. *)
Start(prog) ==
    /\ op = Idle
    /\ op' = IF prog = << >> THEN Idle
             ELSE [prog |-> prog, snap |-> db, rows |-> sql, changed |-> {}, tx |-> Absent]
    /\ UNCHANGED <<db, sql>>

Events == used.reset + used.rollback + used.io + used.crash

is_latest == current_root_state_hash(db) = top_root_state_hash(db)

Bounded ==
    /\ Len(current_root_state_hash(db)) < MaxHistory
    /\ is_latest \/ used.late < MaxResetCommits
    /\ used' = IF is_latest THEN used ELSE [used EXCEPT !.late = @ + 1]

SaveContractInfo(c) ==
    /\ Bounded
    /\ c \notin Live(db)
    /\ Start(save_contract_info(db, sql, c))

CommitContractChanges(ch) ==
    /\ Bounded
    /\ Start(commit_contract_changes(db, sql, ch))

(* Callers roll back to a root they have read, or to one a block names. *)
RollbackContractState(dest) ==
    /\ used.rollback < MaxRollbacks /\ Events < MaxEvents
    /\ Start(rollback_contract_state(db, sql, dest))
    /\ used' = [used EXCEPT !.rollback = @ + 1]

(* VerifyDB moves the root without touching the data. *)
ResetRootStateHash(dest) ==
    /\ op = Idle
    /\ used.reset < MaxResets /\ Events < MaxEvents
    /\ dest = EMPTY_COMMIT_ID \/ get_commit_info(sql, dest)
    /\ db' = Put(db, RootKey, dest)
    /\ used' = [used EXCEPT !.reset = @ + 1]
    /\ UNCHANGED <<sql, op>>

(* The exception leaves the operation through its scope-exit handler; one  *)
(* thrown before BEGIN finds no handler.                                   *)
Restored(d, snap, changed) ==
    [k \in (DOMAIN d \ changed) \cup (DOMAIN snap \cap changed) |->
        IF k \in changed THEN snap[k] ELSE d[k]]

Abort ==
    /\ op' = Idle
    /\ IF op.tx = Absent THEN UNCHANGED <<db, sql>>
       ELSE sql' = op.tx /\ db' = Restored(db, op.snap, op.changed)

(* Death of the process, on its own or by a null dereference: SQLite       *)
(* forgets an open transaction, LevelDB keeps every write it was given.    *)
Death ==
    /\ op' = Idle
    /\ sql' = IF op.tx = Absent THEN sql ELSE op.tx
    /\ UNCHANGED db

(* changed_leveldb_keys gets every key but those of the diffs. *)
Remembered_NotRoot(key) == IF key[1] \in {"commit", "ROOT_STATE_HASH"} THEN {} ELSE {key}

Remembered(key) == IF key[1] = "commit" THEN {} ELSE {key}

Step ==
    /\ op # Idle
    /\ LET w == Head(op.prog)
           rest == Tail(op.prog)
           next == IF rest = << >> THEN Idle ELSE [op EXCEPT !.prog = rest]
       IN  \/ /\ w.do = "write"
              /\ db' = Put(db, w.key, w.val)
              /\ op' = IF rest = << >> THEN Idle
                       ELSE [op EXCEPT !.prog = rest, !.changed = @ \cup Remembered(w.key)]
              /\ UNCHANGED sql
           \/ /\ w.do = "insert"
              /\ sql' = Append(sql, w.key)
              /\ op' = next
              /\ UNCHANGED db
           \/ /\ w.do = "delete"
              /\ sql' = SelectSeq(sql, LAMBDA id : id # w.key)
              /\ op' = next
              /\ UNCHANGED db
           \/ /\ w.do = "begin"
              /\ op' = [op EXCEPT !.prog = rest, !.tx = sql]
              /\ UNCHANGED <<db, sql>>
           \/ /\ w.do = "commit"
              /\ op' = IF rest = << >> THEN Idle
                       ELSE [op EXCEPT !.prog = rest, !.tx = Absent]
              /\ UNCHANGED <<db, sql>>
    /\ UNCHANGED used

(* Has the operation already taken back a commit, before or after BEGIN? *)
RowsDeleted == ~(Range(op.rows) \subseteq Range(sql)) \/ op.tx \notin {Absent, op.rows}

Throws ==
    /\ op # Idle
    /\ Head(op.prog).do = "throw"
    /\ Abort
    /\ used' = IF RowsDeleted THEN [used EXCEPT !.undo = @ + 1] ELSE used

(* Has it written the root of a commit that SQLite has not committed? *)
RootAhead ==
    op.tx # Absent /\ current_root_state_hash(db) # current_root_state_hash(op.snap)

Faulted(kind) ==
    used' = [used EXCEPT ![kind] = @ + 1,
                         !.undo = IF RowsDeleted THEN @ + 1 ELSE @,
                         !.torn = IF kind = "crash" /\ RootAhead THEN @ + 1 ELSE @]

WriteFails ==
    /\ op # Idle
    /\ Head(op.prog).do = "write"
    /\ used.io < MaxIoErrors /\ Events < MaxEvents
    /\ Abort
    /\ Faulted("io")

Crash ==
    /\ op # Idle
    /\ Head(op.prog) = Die \/ (used.crash < MaxCrashes /\ Events < MaxEvents)
    /\ Death
    /\ Faulted("crash")

Next ==
    \/ \E c \in Contracts : SaveContractInfo(c)
    \/ op = Idle /\ \E ch \in Executed(db) : CommitContractChanges(ch)
    \/ \E dest \in Range(sql) \cup {EMPTY_COMMIT_ID} :
           RollbackContractState(dest) \/ ResetRootStateHash(dest)
    \/ Step
    \/ Throws
    \/ WriteFails
    \/ Crash

Spec == Init /\ [][Next]_vars

-----------------------------------------------------------------------------
(* Reference: the world a history of changes describes.                    *)

EmptyWorld ==
    [info |-> [c \in Contracts |-> Absent], store |-> [c \in Contracts |-> Null],
     names |-> [n \in Names |-> Absent]]

Applied(w, ch) ==
    IF ch.type = "info"
    THEN [w EXCEPT !.info[ch.contract] = [name |-> NoName, amount |-> 0]]
    ELSE [info  |-> [c \in Contracts |->
                        IF w.info[c] = Absent THEN Absent
                        ELSE [name   |-> IF c = ch.contract /\ ch.name # NoName
                                         THEN ch.name ELSE w.info[c].name,
                              amount |-> w.info[c].amount + ch.delta[c]]],
          store |-> [c \in Contracts |->
                        IF ch.patch[c][1] = ch.patch[c][2] THEN w.store[c] ELSE ch.patch[c][2]],
          names |-> [n \in Names |-> IF n = ch.name THEN ch.contract ELSE w.names[n]]]

Replayed(history) == FoldLeft(Applied, EmptyWorld, history)

World(d) ==
    [info  |-> [c \in Contracts |->
                   IF c \in Live(d) THEN [name |-> d[InfoKey(c)].name, amount |-> Amount(d[InfoKey(c)])]
                   ELSE Absent],
     store |-> [c \in Contracts |-> get_contract_storage(d, c)],
     names |-> [n \in Names |-> Get(d, NameKey(n))]]

TypeOK ==
    /\ \A key \in DOMAIN db : key[1] = "contract_info_key" =>
          db[key].balance \in (0..MaxAmount * MaxHistory * (1 + MaxEvents)) \cup {NoEntry}
                /\ db[key].name \in Names \cup {NoName}
    /\ \A i \in DOMAIN sql : Len(sql[i]) \in 1..MaxHistory
    /\ op = Idle \/ Len(op.prog) > 0
    /\ op.tx # Absent => \A i \in DOMAIN op.tx : Len(op.tx[i]) \in 1..MaxHistory

(* contract_storage.hpp:60 "hash the all contract-storage world": between  *)
(* operations, unless a reset is pending, the databases hold exactly what  *)
(* the commits behind the current root hash describe.                      *)
RootIsWorld ==
    op = Idle /\ is_latest =>
        World(db) = Replayed(current_root_state_hash(db))

(* The same of a process that has not died, in which no operation failed   *)
(* after it had deleted rows, and no commit was begun while a reset was    *)
(* pending (what it commits was executed on the data of the top root, and  *)
(* is applied to those of the root): exceptions and failed writes in       *)
(* commits are undone completely.                                          *)
RootIsWorldWhileUp ==
    used.crash = 0 /\ used.undo = 0 /\ used.late = 0 => RootIsWorld

(* commit_info holds the whole history of the top root, in order: the rows *)
(* a rollback finds newer than its destination are the ones to take back   *)
(* (contract_storage.cpp:1051).  Not so once a commit has failed after it  *)
(* rolled back to a reset root: that rollback is done before BEGIN (571),  *)
(* and the handler gives LevelDB its old values but not SQLite its rows.   *)
HistoryKept ==
    op = Idle /\ used.crash = 0 /\ (used.late = 0 \/ used.undo = 0) =>
        LET top == top_root_state_hash(db)
        IN  sql = [i \in DOMAIN top |-> SubSeq(top, 1, i)]

(* Every commit in commit_info can be taken back: its diff is in LevelDB,  *)
(* also after a commit that failed or died, since add_commit_info writes   *)
(* the diff before COMMIT.  Only an operation that fails or dies after it  *)
(* deleted rows loses diffs: they are not among changed_leveldb_keys.      *)
DiffsKept ==
    op = Idle /\ used.undo = 0 =>
        \A i \in DOMAIN sql : Get(db, DiffKey(sql[i])) = Last(sql[i])

(* A commit that a death of the process cut short before the root hash was *)
(* written can be made again, also when it first has to roll back to a     *)
(* reset root: it meets neither its own row and "same commitId existed     *)
(* before" (contract_storage.cpp:181, 581) nor a root that commit_info     *)
(* does not have and "Can't find commit" (789).  A death between the root  *)
(* hash and COMMIT leaves such a root, and a rollback that dies after it   *)
(* has moved the root keeps its rows: the commits it had taken back can    *)
(* then not be made again.                                                 *)
CommitRepeatable ==
    used.undo = 0 /\ used.torn = 0 =>
        \A i \in DOMAIN op.prog : op.prog[i].do = "throw" =>
            op.prog[i].key \notin {"same commitId existed before", "Can't find commit"}

(* contract_storage.cpp:371 "snapshot leveldb for rollback": an operation  *)
(* that ends before its COMMIT, but not by the death of the process,       *)
(* leaves world, history and roots as it found them.  The exception is a   *)
(* commit that has rolled back to a reset root before its BEGIN.           *)
Ended ==
    /\ op # Idle /\ op' = Idle
    /\ Len(op.prog) > 1 \/ Head(op.prog).do = "throw"
    /\ used'.crash = used.crash
    /\ \/ op.tx = op.rows
       \/ current_root_state_hash(op.snap) = top_root_state_hash(op.snap)

FailedLeavesNoTrace ==
    [][Ended => /\ World(db') = World(op.snap)
                /\ current_root_state_hash(db') = current_root_state_hash(op.snap)
                /\ top_root_state_hash(db') = top_root_state_hash(op.snap)
                /\ sql' = op.rows]_vars
=============================================================================
