------------------------------ MODULE CommitLog ------------------------------
(***************************************************************************)
(* The contract storage as its callers see it: the root hash, the top root *)
(* hash and the rows of commit_info.  ContractStorage models the writes    *)
(* behind these operations one by one; ContractChain and CoinsRecovery     *)
(* take a commit or a rollback as one step, and use the operators below    *)
(* for what it leaves when it succeeds, fails or is cut short by the death *)
(* of the process.                                                         *)
(*                                                                         *)
(* LevelDB keeps the writes of an operation that was cut short and SQLite  *)
(* forgets them.  What is then in LevelDB need not be what the rows say;   *)
(* s.sound is FALSE from there on, and a rollback over such rows may fail  *)
(* (ContractStorage: UndoInfo, UndoChanges).                               *)
(***************************************************************************)
EXTENDS Integers, Sequences

EMPTY_COMMIT_ID == << >>

NewStore == [root |-> EMPTY_COMMIT_ID, top |-> EMPTY_COMMIT_ID, rows |-> << >>, sound |-> TRUE]

get_commit_info(s, id) == \E i \in DOMAIN s.rows : s.rows[i] = id

(* Otherwise reset and rollback throw "Can't find commit". *)
Found(s, dest) == dest = EMPTY_COMMIT_ID \/ get_commit_info(s, dest)

(* Mutant: the row of dest goes as well ("where id >="). *)
RowsUpTo_DestToo(s, dest) ==
    IF dest = EMPTY_COMMIT_ID THEN << >>
    ELSE SubSeq(s.rows, 1, (CHOOSE i \in DOMAIN s.rows : s.rows[i] = dest) - 1)

RowsUpTo(s, dest) ==
    IF dest = EMPTY_COMMIT_ID THEN << >>
    ELSE SubSeq(s.rows, 1, CHOOSE i \in DOMAIN s.rows : s.rows[i] = dest)

NothingNewer(s, dest) == RowsUpTo(s, dest) = s.rows

-----------------------------------------------------------------------------
(* rollback_contract_state.  A rollback that throws leaves the store as it *)
(* was.                                                                    *)

RolledBack(s, dest) == [s EXCEPT !.root = dest, !.top = dest, !.rows = RowsUpTo(s, dest)]

RollbackMayThrow(s, dest) == Found(s, dest) => ~s.sound /\ ~NothingNewer(s, dest)

(* A death inside it: the diffs of rows that are still there may be gone,  *)
(* and the root, or both roots, may have moved already.                    *)
CutRollback(s, dest) ==
    LET t == [s EXCEPT !.sound = @ /\ NothingNewer(s, dest)]
    IN  {t, [t EXCEPT !.root = dest], [t EXCEPT !.root = dest, !.top = dest]}

-----------------------------------------------------------------------------
(* save_contract_info and commit_contract_changes.  A commit that finds    *)
(* the root reset first rolls the data back to it.                         *)

Latest(s) == s.root = s.top

RowsBefore(s) == IF Latest(s) THEN s.rows ELSE RowsUpTo(s, s.root)

(* The commit meets neither "Can't find commit" nor "same commitId existed *)
(* before".                                                                *)
MayCommit(s, id) ==
    /\ Latest(s) \/ Found(s, s.root)
    /\ \A i \in DOMAIN RowsBefore(s) : RowsBefore(s)[i] # id

Committed(s, id) ==
    [s EXCEPT !.root = id, !.top = id, !.rows = Append(RowsBefore(s), id)]

(* A death inside it before the root is written: some of the data may be   *)
(* written, and the rollback to a reset root be under way or done, in a    *)
(* transaction (save_contract_info) or not.                                *)
CutCommit(s, id) ==
    LET rolled == {[s EXCEPT !.rows = SubSeq(s.rows, 1, k)] : k \in Len(RowsBefore(s))..Len(s.rows)}
                     \cup {[s EXCEPT !.top = s.root, !.rows = RowsBefore(s)]}
    IN  rolled \cup {[t EXCEPT !.sound = FALSE] : t \in rolled}
               \cup {[s EXCEPT !.top = s.root, !.sound = FALSE]}

(* A death between the write of the root and SQLite's COMMIT: the root is  *)
(* one that commit_info does not have.                                     *)
TornCommit(s, id) ==
    [root : {id}, top : {s.root, id}, rows : {s.rows, RowsBefore(s)}, sound : {FALSE}]
=============================================================================
