----------------------------- MODULE CheckQueue -----------------------------
(***************************************************************************)
(* CCheckQueue and CCheckQueueControl (src/src/checkqueue.h): the script   *)
(* checks of a block are spread over worker threads; the thread that       *)
(* connects the block, the master, adds them and then joins in until all   *)
(* are done.                                                               *)
(*                                                                         *)
(* A step is one critical section of Loop, from taking the mutex to        *)
(* waiting, returning or unlocking with a batch, or the work between two   *)
(* of them.  "As the order of booleans doesn't matter" (line 43), queue is *)
(* a set.  Condition variables may wake up on their own.  A thread of the  *)
(* group can be interrupted in cond.wait: a worker ends there, and the     *)
(* master unwinds into ~CCheckQueueControl, which waits again; in a        *)
(* destructor the exception ends the process.  Nothing corrects nIdle and  *)
(* nTotal then; they only steer the size of the batches.                   *)
(***************************************************************************)
EXTENDS Integers, FiniteSets, FiniteSetsExt

CONSTANTS
    Workers, Master,
    Checks,             \* the checks of a block
    Good,               \* those that return true
    nBatchSize

Threads == Workers \cup {Master}

ASSUME QueueAssumption ==
    /\ Master \notin Workers
    /\ IsFiniteSet(Workers) /\ IsFiniteSet(Checks)
    /\ Good \subseteq Checks
    /\ nBatchSize \in Nat \ {0}

VARIABLES
    queue, nIdle, nTotal, fAllOk, nTodo,    \* members of CCheckQueue
    pc,             \* where each thread is
    vChecks,        \* its batch, kept here until nTodo is lowered: nNow is its size
    fOk,            \* its result so far
    added,          \* the checks added under the current or last control
    fRet,           \* what the last Wait returned
    destructing,    \* the master is in ~CCheckQueueControl with fDone unset
    interrupted     \* the master has been interrupted

vars == <<queue, nIdle, nTotal, fAllOk, nTodo, pc, vChecks, fOk, added, fRet, destructing, interrupted>>

TypeOK ==
    /\ queue \subseteq Checks /\ added \subseteq Checks
    /\ nTodo \in Nat
    /\ nIdle \in Nat /\ nTotal \in Nat
    /\ fAllOk \in BOOLEAN /\ fRet \in BOOLEAN
    /\ destructing \in BOOLEAN /\ interrupted \in BOOLEAN
    /\ vChecks \in [Threads -> SUBSET Checks]
    /\ fOk \in [Threads -> BOOLEAN]
    /\ pc \in [Threads -> {"idle", "adding", "start", "waiting", "woken", "working", "done", "gone"}]

Init ==
    /\ queue = {} /\ nIdle = 0 /\ nTotal = 0 /\ fAllOk = TRUE /\ nTodo = 0
    /\ pc = [t \in Threads |-> IF t = Master THEN "idle" ELSE "start"]
    /\ vChecks = [t \in Threads |-> {}]
    /\ fOk = [t \in Threads |-> TRUE]
    /\ added = {} /\ fRet = TRUE /\ destructing = FALSE /\ interrupted = FALSE

-----------------------------------------------------------------------------
(* The master adds the checks of a block, transaction by transaction.      *)

CreateControl ==
    /\ pc[Master] = "idle"
    /\ pc' = [pc EXCEPT ![Master] = "adding"]
    /\ added' = {}
    /\ UNCHANGED <<queue, nIdle, nTotal, fAllOk, nTodo, vChecks, fOk, fRet, destructing, interrupted>>

Waiting == {w \in Workers : pc[w] = "waiting"}

(* condWorker: notify_one for one check, notify_all for more.              *)
Notified(S) ==
    IF Cardinality(S) = 0 \/ Waiting = {} THEN {{}}
    ELSE IF Cardinality(S) = 1 THEN {{w} : w \in Waiting}
    ELSE {Waiting}

Add(S) ==
    /\ pc[Master] = "adding"
    /\ queue' = queue \cup S
    /\ nTodo' = nTodo + Cardinality(S)
    /\ added' = added \cup S
    /\ \E W \in Notified(S) :
           pc' = [t \in Threads |-> IF t \in W THEN "woken" ELSE pc[t]]
    /\ UNCHANGED <<nIdle, nTotal, fAllOk, vChecks, fOk, fRet, destructing, interrupted>>

(* control.Wait().                                                         *)
CallWait ==
    /\ pc[Master] = "adding"
    /\ pc' = [pc EXCEPT ![Master] = "start"]
    /\ destructing' = FALSE
    /\ UNCHANGED <<queue, nIdle, nTotal, fAllOk, nTodo, vChecks, fOk, added, fRet, interrupted>>

(* ConnectBlock returns without having called Wait.                        *)
DestroyControl ==
    /\ pc[Master] = "adding"
    /\ pc' = [pc EXCEPT ![Master] = "start"]
    /\ destructing' = TRUE
    /\ UNCHANGED <<queue, nIdle, nTotal, fAllOk, nTodo, vChecks, fOk, added, fRet, interrupted>>

-----------------------------------------------------------------------------
(* Loop.  The rest of a critical section, given the members as its first   *)
(* lines have left them and the threads p after a notification.            *)

(* Mutant: the master leaves when the queue is empty.                      *)
MasterDone_QueueEmpty(t, todo) == t = Master

MasterDone(t, todo) == t = Master /\ todo = 0

(* Mutant: the status is not reset for new work.                           *)
Return_KeepsStatus(t, ok, todo, total, idle, p) ==
    /\ queue = {} /\ MasterDone(t, todo)
    /\ nTotal' = total - 1
    /\ fRet' = ok
    /\ fAllOk' = ok
    /\ nTodo' = todo /\ nIdle' = idle
    /\ vChecks' = [vChecks EXCEPT ![t] = {}]
    /\ pc' = [p EXCEPT ![t] = "idle"]
    /\ UNCHANGED <<queue, fOk, added, destructing, interrupted>>

Return(t, ok, todo, total, idle, p) ==
    /\ queue = {} /\ MasterDone(t, todo)
    /\ nTotal' = total - 1
    /\ fRet' = ok
    /\ fAllOk' = TRUE
    /\ nTodo' = todo /\ nIdle' = idle
    /\ vChecks' = [vChecks EXCEPT ![t] = {}]
    /\ pc' = [p EXCEPT ![t] = "idle"]
    /\ UNCHANGED <<queue, fOk, added, destructing, interrupted>>

WaitFor(t, ok, todo, total, idle, p) ==
    /\ queue = {} /\ ~MasterDone(t, todo)
    /\ nIdle' = idle + 1
    /\ fAllOk' = ok /\ nTodo' = todo /\ nTotal' = total
    /\ vChecks' = [vChecks EXCEPT ![t] = {}]
    /\ pc' = [p EXCEPT ![t] = "waiting"]
    /\ UNCHANGED <<queue, fOk, added, fRet, destructing, interrupted>>

(* Mutant: without the minimum of one check.                               *)
nNow_NoMinimum(total, idle) ==
    Min({nBatchSize, Cardinality(queue) \div (total + idle + 1)})

nNow(total, idle) ==
    Max({1, Min({nBatchSize, Cardinality(queue) \div (total + idle + 1)})})

Take(t, ok, todo, total, idle, p) ==
    /\ queue # {}
    /\ \E S \in SUBSET queue :
           /\ Cardinality(S) = nNow(total, idle)
           /\ queue' = queue \ S
           /\ vChecks' = [vChecks EXCEPT ![t] = S]
    /\ fOk' = [fOk EXCEPT ![t] = ok]
    /\ fAllOk' = ok /\ nTodo' = todo /\ nTotal' = total /\ nIdle' = idle
    /\ pc' = [p EXCEPT ![t] = "working"]
    /\ UNCHANGED <<added, fRet, destructing, interrupted>>

Proceed(t, ok, todo, total, idle, p) ==
    \/ Return(t, ok, todo, total, idle, p)
    \/ WaitFor(t, ok, todo, total, idle, p)
    \/ Take(t, ok, todo, total, idle, p)

Start(t) ==
    /\ pc[t] = "start"
    /\ Proceed(t, fAllOk, nTodo, nTotal + 1, nIdle, pc)

WakeUp(t) ==
    /\ pc[t] = "woken"
    /\ Proceed(t, fAllOk, nTodo, nTotal, nIdle - 1, pc)

(* Without the mutex: the checks run until one fails.                      *)
Execute(t) ==
    /\ pc[t] = "working"
    /\ fOk' = [fOk EXCEPT ![t] = @ /\ vChecks[t] \subseteq Good]
    /\ pc' = [pc EXCEPT ![t] = "done"]
    /\ UNCHANGED <<queue, nIdle, nTotal, fAllOk, nTodo, vChecks, added, fRet, destructing, interrupted>>

(* condMaster.notify_one, when a worker has processed the last element.    *)
(* Mutant: only when no check has failed.                                  *)
MasterNotified_WhenOk(t, todo) ==
    IF todo = 0 /\ t # Master /\ fAllOk /\ pc[Master] = "waiting"
    THEN [pc EXCEPT ![Master] = "woken"] ELSE pc

MasterNotified(t, todo) ==
    IF todo = 0 /\ t # Master /\ pc[Master] = "waiting"
    THEN [pc EXCEPT ![Master] = "woken"] ELSE pc

(* Mutant: a whole batch size is subtracted.                               *)
CleanedTodo_BatchSize(t) == nTodo - nBatchSize

CleanedTodo(t) == nTodo - Cardinality(vChecks[t])

CleanUp(t) ==
    /\ pc[t] = "done"
    /\ Proceed(t, fAllOk /\ fOk[t], CleanedTodo(t), nTotal, nIdle,
               MasterNotified(t, CleanedTodo(t)))

-----------------------------------------------------------------------------
SpuriousWakeUp(t) ==
    /\ pc[t] = "waiting"
    /\ pc' = [pc EXCEPT ![t] = "woken"]
    /\ UNCHANGED <<queue, nIdle, nTotal, fAllOk, nTodo, vChecks, fOk, added, fRet, destructing, interrupted>>

(* threadGroup.interrupt_all() at shutdown.                                *)
WorkerInterrupted(w) ==
    /\ pc[w] \in {"waiting", "woken"}
    /\ pc' = [pc EXCEPT ![w] = "gone"]
    /\ UNCHANGED <<queue, nIdle, nTotal, fAllOk, nTodo, vChecks, fOk, added, fRet, destructing, interrupted>>

MasterInterrupted ==
    /\ ~interrupted /\ ~destructing
    /\ pc[Master] \in {"waiting", "woken"}
    /\ pc' = [pc EXCEPT ![Master] = "start"]
    /\ destructing' = TRUE /\ interrupted' = TRUE
    /\ UNCHANGED <<queue, nIdle, nTotal, fAllOk, nTodo, vChecks, fOk, added, fRet>>

(* std::terminate: destructors let no exception out.                       *)
DestructorInterrupted ==
    /\ ~interrupted /\ destructing
    /\ pc[Master] \in {"waiting", "woken"}
    /\ pc' = [t \in Threads |-> "gone"]
    /\ interrupted' = TRUE
    /\ UNCHANGED <<queue, nIdle, nTotal, fAllOk, nTodo, vChecks, fOk, added, fRet, destructing>>

Step(t) == Start(t) \/ WakeUp(t) \/ Execute(t) \/ CleanUp(t)

Next ==
    \/ CreateControl
    \/ \E S \in SUBSET (Checks \ added) : Add(S)
    \/ CallWait \/ DestroyControl
    \/ \E t \in Threads : Step(t) \/ SpuriousWakeUp(t)
    \/ \E w \in Workers : WorkerInterrupted(w)
    \/ MasterInterrupted \/ DestructorInterrupted

(* A thread that can run is scheduled, and a check ends.                   *)
Spec == Init /\ [][Next]_vars /\ \A t \in Threads : WF_vars(Step(t))

-----------------------------------------------------------------------------
(* Wait returns true exactly when every check that was added is good, for  *)
(* each block anew: "return whether all evaluations were successful"       *)
(* (checkqueue.h:139).                                                     *)
VerdictRight == pc[Master] = "idle" => (fRet <=> added \subseteq Good)

(* CCheckQueueControl "guarantees the passed queue is finished before      *)
(* continuing" (checkqueue.h:167): without a control no check is queued    *)
(* and no thread holds one, also after interruptions.                      *)
Finished ==
    pc[Master] = "idle" => queue = {} /\ nTodo = 0 /\ \A t \in Threads : vChecks[t] = {}

(* The master never waits in vain: while it sleeps on condMaster, some     *)
(* worker still holds checks, and the last of them will notify it.         *)
SomebodyWorks ==
    pc[Master] = "waiting" => \E w \in Workers : vChecks[w] # {}

(* Whoever called Wait gets an answer, whichever worker took the last      *)
(* checks, slept through a notification or was interrupted.                *)
WaitReturns == pc[Master] = "start" ~> pc[Master] \in {"idle", "gone"}
=============================================================================
