--------------------------- MODULE CheckQueueProofs ---------------------------
(***************************************************************************)
(* Proofs about CheckQueue, for any number of workers and checks and any   *)
(* batch size.                                                             *)
(*                                                                         *)
(* Every critical section of Loop ends with Proceed, and at its beginning  *)
(* the thread is as good as one that enters Loop anew: its batch counted   *)
(* off, its result handed in.  So the invariant is stated over the         *)
(* arguments of Proceed, Sound over the checks and Counted over the        *)
(* threads, and each is shown once for Proceed and once per action for the *)
(* lines before it.                                                        *)
(***************************************************************************)
EXTENDS CheckQueue, FiniteSetTheorems, TLAPS

(* The checks that are queued or in a batch.                               *)
Held(q, v) == {c \in Checks : c \in q \/ \E u \in Threads : c \in v[u]}

Busy == {"working", "done"}
Free == {"idle", "adding", "start", "waiting", "woken"}

(* Each check is in one place; nTodo counts them; the results so far are   *)
(* about the checks of this block that are no longer held.                 *)
Placed(q, v, p) ==
    /\ \A u \in Threads : v[u] \cap q = {}
    /\ \A u, w \in Threads : u # w => v[u] \cap v[w] = {}
    /\ \A u \in Threads : p[u] \in Free => v[u] = {}
    /\ \A u \in Threads : p[u] \in Busy => v[u] # {}

Judged(q, v, p, ok) ==
    /\ Held(q, v) \subseteq added
    /\ ok /\ p[Master] # "idle" => added \ Held(q, v) \subseteq Good
    /\ ~ok => ~(added \subseteq Good)
    /\ \A u \in Threads : p[u] = "done" /\ fOk[u] => v[u] \subseteq Good
    /\ \A u \in Threads : p[u] \in Busy /\ ~fOk[u] => ~(added \subseteq Good)

AtRest(q, v, p, ok, todo) ==
    /\ todo = Cardinality(Held(q, v))
    /\ p[Master] = "waiting" => q = {} /\ todo # 0
    /\ p[Master] = "idle" => Held(q, v) = {} /\ ok /\ (fRet <=> added \subseteq Good)

Sound(q, v, p, ok, todo) ==
    Placed(q, v, p) /\ Judged(q, v, p, ok) /\ AtRest(q, v, p, ok, todo)

Asleep(p) == {t \in Threads : p[t] \in {"waiting", "woken"}}
Inside(p) == {t \in Threads : p[t] \in {"waiting", "woken", "working", "done"}}

(* nIdle and nTotal are never too small; interruptions leave them too big. *)
Counted(p, total, idle) ==
    Cardinality(Asleep(p)) <= idle /\ Cardinality(Inside(p)) <= total

IInv ==
    /\ TypeOK
    /\ \A w \in Workers : pc[w] \notin {"idle", "adding"}
    /\ Sound(queue, vChecks, pc, fAllOk, nTodo)
    /\ Counted(pc, nTotal, nIdle)

-----------------------------------------------------------------------------
(* Sets of checks and of threads.                                          *)

(* The larger of two numbers.                                              *)
LEMMA MaxOfTwo ==
    ASSUME NEW a \in Int, NEW b \in Int
    PROVE  Max({a, b}) \in {a, b} /\ Max({a, b}) >= a
<1>1. \E x \in {a, b} : \A y \in {a, b} : x >= y
    <2>1. CASE a >= b BY <2>1
    <2>2. CASE b >= a BY <2>2
    <2> QED BY <2>1, <2>2
<1> QED BY <1>1 DEF Max

LEMMA MinOfTwo ==
    ASSUME NEW a \in Int, NEW b \in Int
    PROVE  Min({a, b}) \in {a, b}
<1>1. \E x \in {a, b} : \A y \in {a, b} : x <= y
    <2>1. CASE a >= b BY <2>1
    <2>2. CASE b >= a BY <2>2
    <2> QED BY <2>1, <2>2
<1> QED BY <1>1 DEF Min

(* A batch is never empty: the maximum with 1 (checkqueue.h:107).          *)
LEMMA BatchNotEmpty ==
    ASSUME NEW total \in Nat, NEW idle \in Nat, queue \subseteq Checks
    PROVE  nNow(total, idle) >= 1
<1>1. Cardinality(queue) \in Nat
    BY QueueAssumption, FS_Subset, FS_CardinalityType
<1>2. Cardinality(queue) \div (total + idle + 1) \in Int
    BY <1>1
<1> DEFINE share == Cardinality(queue) \div (total + idle + 1)
<1>3. nBatchSize \in Int
    BY QueueAssumption
<1>4. Min({nBatchSize, share}) \in Int
    BY <1>2, <1>3, MinOfTwo
<1> DEFINE m == Min({nBatchSize, share})
<1>5. Max({1, m}) >= 1
    <2> HIDE DEF m
    <2> m \in Int BY <1>4 DEF m
    <2> QED BY MaxOfTwo
<1> QED BY <1>5 DEF nNow

(* What is held is a finite set of checks.                                 *)
LEMMA HeldFinite ==
    ASSUME NEW q, NEW v
    PROVE  Held(q, v) \subseteq Checks /\ IsFiniteSet(Held(q, v)) /\ Cardinality(Held(q, v)) \in Nat
BY QueueAssumption, FS_Subset, FS_CardinalityType DEF Held

LEMMA ThreadsFinite ==
    ASSUME NEW T, T \subseteq Threads
    PROVE  IsFiniteSet(T) /\ Cardinality(T) \in Nat
<1>1. IsFiniteSet(Threads)
    BY QueueAssumption, FS_AddElement, FS_Singleton, FS_Union DEF Threads
<1> QED BY <1>1, FS_Subset, FS_CardinalityType

(* A smaller set of threads has no more elements, and one that gains or    *)
(* loses a thread one more or less.                                        *)
LEMMA ThreadsSmaller ==
    ASSUME NEW T, T \subseteq Threads, NEW U, U \subseteq T
    PROVE  Cardinality(U) <= Cardinality(T)
BY ThreadsFinite, FS_Subset

LEMMA ThreadsPlus ==
    ASSUME NEW T, T \subseteq Threads, NEW t \in Threads, t \notin T
    PROVE  Cardinality(T \cup {t}) = Cardinality(T) + 1
BY ThreadsFinite, FS_AddElement

-----------------------------------------------------------------------------
(* The end of a critical section.                                          *)

Places == {"idle", "adding", "start", "waiting", "woken", "working", "done", "gone"}
AtStart(p, t) == [p EXCEPT ![t] = "start"]
NoBatch(t) == [vChecks EXCEPT ![t] = {}]

(* Proceed leads from a sound to a sound state.                            *)
LEMMA ProceedSound ==
    ASSUME TypeOK, NEW t \in Threads, NEW ok \in BOOLEAN, NEW todo \in Nat,
           NEW total \in Nat, NEW idle \in Nat, NEW p \in [Threads -> Places],
           Sound(queue, NoBatch(t), AtStart(p, t), ok, todo),
           Proceed(t, ok, todo, total, idle, p)
    PROVE  Sound(queue, vChecks, pc, fAllOk, nTodo)'
<1> DEFINE v == NoBatch(t)
           q == AtStart(p, t)
<1>v. v \in [Threads -> SUBSET Checks] /\ v[t] = {} /\ \A u \in Threads \ {t} : v[u] = vChecks[u]
    BY DEF TypeOK, NoBatch
<1>q. q \in [Threads -> Places] /\ q[t] = "start" /\ \A u \in Threads \ {t} : q[u] = p[u]
    BY DEF Places, AtStart
<1>m. Master \in Threads
    BY DEF Threads
<1>p. Placed(queue, v, q) /\ Judged(queue, v, q, ok) /\ AtRest(queue, v, q, ok, todo)
    BY DEF Sound
<1> HIDE DEF v, q
<1>1. CASE Return(t, ok, todo, total, idle, p)
    <2>1. queue' = {} /\ queue = {} /\ t = Master /\ todo = 0 /\ vChecks' = v /\ nTodo' = todo
          /\ added' = added /\ fOk' = fOk /\ fAllOk' = TRUE /\ fRet' = ok
        BY <1>1 DEF Return, MasterDone, v, NoBatch
    <2>2. pc' \in [Threads -> Places] /\ pc'[t] = "idle" /\ \A u \in Threads \ {t} : pc'[u] = q[u]
        BY <1>1, <1>q DEF Return, Places
    <2>3. Held(queue, v) = {}
        BY <1>p, <2>1, HeldFinite, FS_EmptySet DEF AtRest
    <2>4. Held(queue', vChecks') = {}
        BY <2>1, <2>3
    <2>5. Placed(queue, vChecks, pc)'
        BY <1>p, <1>v, <1>q, <2>1, <2>2 DEF Placed, Free, Busy
    <2>6. Judged(queue, vChecks, pc, fAllOk)'
        BY <1>p, <1>q, <2>1, <2>2, <2>3, <2>4 DEF Judged, Busy
    <2>7. ok <=> added \subseteq Good
        BY <1>p, <1>q, <1>m, <2>1, <2>3 DEF Judged
    <2>8. AtRest(queue, vChecks, pc, fAllOk, nTodo)'
        BY <2>1, <2>2, <2>4, <2>7, FS_EmptySet DEF AtRest
    <2> QED BY <2>5, <2>6, <2>8 DEF Sound
<1>2. CASE WaitFor(t, ok, todo, total, idle, p)
    <2>1. queue' = {} /\ queue = {} /\ (t = Master => todo # 0) /\ vChecks' = v /\ nTodo' = todo
          /\ added' = added /\ fOk' = fOk /\ fAllOk' = ok /\ fRet' = fRet
        BY <1>2 DEF WaitFor, MasterDone, v, NoBatch
    <2>2. pc' \in [Threads -> Places] /\ pc'[t] = "waiting" /\ \A u \in Threads \ {t} : pc'[u] = q[u]
        BY <1>2, <1>q DEF WaitFor, Places
    <2>4. Held(queue', vChecks') = Held(queue, v)
        BY <2>1
    <2>5. Placed(queue, vChecks, pc)'
        BY <1>p, <1>v, <1>q, <2>1, <2>2 DEF Placed, Free, Busy
    <2>6. Judged(queue, vChecks, pc, fAllOk)'
        BY <1>p, <1>q, <1>m, <2>1, <2>2, <2>4 DEF Judged, Busy
    <2>8. AtRest(queue, vChecks, pc, fAllOk, nTodo)'
        BY <1>p, <1>q, <1>m, <2>1, <2>2, <2>4 DEF AtRest
    <2> QED BY <2>5, <2>6, <2>8 DEF Sound
<1>3. CASE Take(t, ok, todo, total, idle, p)
    <2>1. PICK S \in SUBSET queue :
              /\ Cardinality(S) = nNow(total, idle)
              /\ queue' = queue \ S
              /\ vChecks' = [vChecks EXCEPT ![t] = S]
        BY <1>3 DEF Take
    <2>2. queue # {} /\ nTodo' = todo /\ added' = added /\ fAllOk' = ok /\ fRet' = fRet
        BY <1>3 DEF Take
    <2>3. fOk' \in [Threads -> BOOLEAN] /\ fOk'[t] = ok /\ \A u \in Threads \ {t} : fOk'[u] = fOk[u]
        BY <1>3 DEF Take, TypeOK
    <2>4. pc' \in [Threads -> Places] /\ pc'[t] = "working" /\ \A u \in Threads \ {t} : pc'[u] = q[u]
        BY <1>3, <1>q DEF Take, Places
    <2>5. S # {}
        <3>1. queue \subseteq Checks
            BY DEF TypeOK
        <3>2. nNow(total, idle) >= 1
            BY <3>1, BatchNotEmpty
        <3> QED BY <2>1, <3>2, FS_EmptySet
    <2>6. /\ vChecks' \in [Threads -> SUBSET Checks] /\ vChecks'[t] = S
          /\ \A u \in Threads \ {t} : vChecks'[u] = v[u]
        BY <2>1, <1>v DEF TypeOK
    <2>7. Held(queue', vChecks') = Held(queue, v)
        BY <2>1, <2>6, <1>v DEF Held
    <2>8. Placed(queue, vChecks, pc)'
        BY <1>p, <1>v, <1>q, <2>1, <2>4, <2>5, <2>6 DEF Placed, Free, Busy
    <2>9. pc'[Master] \notin {"waiting", "idle"}
        <3>1. Held(queue, v) # {}
            BY <2>2 DEF Held, TypeOK
        <3> QED BY <1>p, <1>q, <1>m, <2>2, <2>4, <3>1 DEF AtRest
    <2>10. Judged(queue, vChecks, pc, fAllOk)'
        <3>1. pc'[Master] = "idle" <=> q[Master] = "idle"
            BY <2>9, <2>4, <1>q, <1>m
        <3>2. (Held(queue, vChecks) \subseteq added)'
            BY <1>p, <2>2, <2>7 DEF Judged
        <3>3. (fAllOk /\ pc[Master] # "idle" => added \ Held(queue, vChecks) \subseteq Good)'
            BY <1>p, <2>2, <2>7, <3>1 DEF Judged
        <3>4. (~fAllOk => ~(added \subseteq Good))'
            BY <1>p, <2>2 DEF Judged
        <3>5. (\A u \in Threads : pc[u] = "done" /\ fOk[u] => vChecks[u] \subseteq Good)'
            BY <1>p, <2>3, <2>4, <2>6 DEF Judged
        <3>6. (\A u \in Threads : pc[u] \in Busy /\ ~fOk[u] => ~(added \subseteq Good))'
            BY <1>p, <2>2, <2>3, <2>4 DEF Judged
        <3> QED BY <3>2, <3>3, <3>4, <3>5, <3>6 DEF Judged
    <2>11. AtRest(queue, vChecks, pc, fAllOk, nTodo)'
        BY <1>p, <2>2, <2>7, <2>9 DEF AtRest
    <2> QED BY <2>8, <2>10, <2>11 DEF Sound
<1> QED BY <1>1, <1>2, <1>3 DEF Proceed

(* Proceed keeps the counters large enough, for a thread that nIdle no     *)
(* longer counts and nTotal does.                                          *)
LEMMA ProceedCounted ==
    ASSUME NEW t \in Threads, NEW ok \in BOOLEAN, NEW todo \in Nat,
           NEW total \in Nat, NEW idle \in Nat, NEW p \in [Threads -> Places],
           Cardinality(Asleep(AtStart(p, t))) <= idle,
           Cardinality(Inside(AtStart(p, t))) + 1 <= total,
           Proceed(t, ok, todo, total, idle, p)
    PROVE  Counted(pc, nTotal, nIdle)' /\ nTotal' \in Nat /\ nIdle' \in Nat
<1> DEFINE A == Asleep(AtStart(p, t))
           I == Inside(AtStart(p, t))
<1>1. A \subseteq Threads /\ t \notin A /\ I \subseteq Threads /\ t \notin I
    BY DEF Asleep, Inside, AtStart, Places
<1>2. /\ Cardinality(A \cup {t}) = Cardinality(A) + 1
      /\ Cardinality(I \cup {t}) = Cardinality(I) + 1
    BY <1>1, ThreadsPlus
<1>3. Cardinality(A) \in Nat /\ Cardinality(I) \in Nat
    BY <1>1, ThreadsFinite
<1>4. CASE Return(t, ok, todo, total, idle, p)
    <2>1. Asleep(pc') = A /\ Inside(pc') = I
        BY <1>4 DEF Return, Asleep, Inside, AtStart, Places
    <2>2. nTotal' = total - 1 /\ nIdle' = idle
        BY <1>4 DEF Return
    <2> HIDE DEF A, I
    <2> QED BY <1>3, <2>1, <2>2 DEF Counted, A, I
<1>5. CASE WaitFor(t, ok, todo, total, idle, p)
    <2>1. Asleep(pc') = A \cup {t} /\ Inside(pc') = I \cup {t}
        BY <1>5 DEF WaitFor, Asleep, Inside, AtStart, Places
    <2>2. nTotal' = total /\ nIdle' = idle + 1
        BY <1>5 DEF WaitFor
    <2> QED BY <1>2, <1>3, <2>1, <2>2 DEF Counted
<1>6. CASE Take(t, ok, todo, total, idle, p)
    <2>1. Asleep(pc') = A /\ Inside(pc') = I \cup {t}
        BY <1>6 DEF Take, Asleep, Inside, AtStart, Places
    <2>2. nTotal' = total /\ nIdle' = idle
        BY <1>6 DEF Take
    <2> QED BY <1>2, <1>3, <2>1, <2>2 DEF Counted
<1> QED BY <1>4, <1>5, <1>6 DEF Proceed

(* Proceed keeps the types, and only the master becomes idle.              *)
LEMMA ProceedTypes ==
    ASSUME TypeOK, NEW t \in Threads, NEW ok \in BOOLEAN, NEW todo \in Nat,
           NEW total \in Nat, NEW idle \in Nat, NEW p \in [Threads -> Places],
           \A w \in Workers : p[w] \notin {"idle", "adding"},
           nTotal' \in Nat, nIdle' \in Nat,
           Proceed(t, ok, todo, total, idle, p)
    PROVE  TypeOK' /\ (\A w \in Workers : pc'[w] \notin {"idle", "adding"})
<1>1. CASE Return(t, ok, todo, total, idle, p)
    <2>1. TypeOK'
        BY <1>1 DEF Return, TypeOK, Places
    <2>2. \A w \in Workers : w # t /\ w \in Threads
        BY <1>1, QueueAssumption DEF Return, MasterDone, Threads
    <2> QED BY <1>1, <2>1, <2>2 DEF Return
<1>2. CASE WaitFor(t, ok, todo, total, idle, p)
    <2>1. TypeOK'
        BY <1>2 DEF WaitFor, TypeOK, Places
    <2> QED BY <1>2, <2>1 DEF WaitFor, Threads
<1>3. CASE Take(t, ok, todo, total, idle, p)
    <2>1. TypeOK'
        BY <1>3 DEF Take, TypeOK, Places
    <2> QED BY <1>3, <2>1 DEF Take, Threads
<1> QED BY <1>1, <1>2, <1>3 DEF Proceed

(* The three together.                                                     *)
LEMMA ProceedKeepsIInv ==
    ASSUME TypeOK, NEW t \in Threads, NEW ok \in BOOLEAN, NEW todo \in Nat,
           NEW total \in Nat, NEW idle \in Nat, NEW p \in [Threads -> Places],
           \A w \in Workers : p[w] \notin {"idle", "adding"},
           Sound(queue, NoBatch(t), AtStart(p, t), ok, todo),
           Cardinality(Asleep(AtStart(p, t))) <= idle,
           Cardinality(Inside(AtStart(p, t))) + 1 <= total,
           Proceed(t, ok, todo, total, idle, p)
    PROVE  IInv'
<1>1. Sound(queue, vChecks, pc, fAllOk, nTodo)'
    BY ProceedSound
<1>2. Counted(pc, nTotal, nIdle)' /\ nTotal' \in Nat /\ nIdle' \in Nat
    BY ProceedCounted
<1>3. TypeOK' /\ (\A w \in Workers : pc'[w] \notin {"idle", "adding"})
    BY <1>2, ProceedTypes
<1> QED BY <1>1, <1>2, <1>3 DEF IInv

-----------------------------------------------------------------------------
(* The beginnings of the critical sections.                                *)

(* Entering Loop.                                                          *)
LEMMA StartKeepsIInv ==
    ASSUME IInv, NEW t \in Threads, Start(t)
    PROVE  IInv'
<1>1. TypeOK /\ pc \in [Threads -> Places] /\ AtStart(pc, t) = pc
    BY DEF IInv, Start, TypeOK, Places, AtStart
<1>2. NoBatch(t) = vChecks
    BY DEF IInv, Start, Sound, Placed, Free, TypeOK, NoBatch
<1>3. Sound(queue, NoBatch(t), AtStart(pc, t), fAllOk, nTodo)
    BY <1>1, <1>2 DEF IInv
<1>4. fAllOk \in BOOLEAN
    BY DEF IInv, TypeOK
<1>5. nTodo \in Nat /\ nTotal + 1 \in Nat /\ nIdle \in Nat
    BY DEF IInv, TypeOK
<1>6. Cardinality(Inside(pc)) \in Nat
    BY ThreadsFinite DEF Inside
<1>7. Cardinality(Asleep(AtStart(pc, t))) <= nIdle /\ Cardinality(Inside(AtStart(pc, t))) + 1 <= nTotal + 1
    BY <1>1, <1>5, <1>6 DEF IInv, Counted, TypeOK
<1>8. Proceed(t, fAllOk, nTodo, nTotal + 1, nIdle, pc)
    BY DEF Start
<1>9. \A w \in Workers : pc[w] \notin {"idle", "adding"}
    BY DEF IInv
<1> QED BY <1>1, <1>3, <1>4, <1>5, <1>7, <1>8, <1>9, ProceedKeepsIInv

(* Returning from cond.wait.                                               *)
LEMMA WakeUpKeepsIInv ==
    ASSUME IInv, NEW t \in Threads, WakeUp(t)
    PROVE  IInv'
<1>1. TypeOK /\ pc \in [Threads -> Places] /\ pc[t] = "woken"
    BY DEF IInv, WakeUp, TypeOK, Places
<1>2. NoBatch(t) = vChecks
    BY DEF IInv, WakeUp, Sound, Placed, Free, TypeOK, NoBatch
<1> DEFINE q == AtStart(pc, t)
<1>3. q \in [Threads -> Places] /\ q[t] = "start" /\ \A u \in Threads \ {t} : q[u] = pc[u]
    BY <1>1 DEF AtStart, Places
<1>4. Master \in Threads
    BY DEF Threads
<1> HIDE DEF q
<1>5. Placed(queue, vChecks, q)
    BY <1>1, <1>3 DEF IInv, Sound, Placed, Free, Busy
<1>6. Judged(queue, vChecks, q, fAllOk)
    BY <1>1, <1>3, <1>4 DEF IInv, Sound, Judged, Busy
<1>7. AtRest(queue, vChecks, q, fAllOk, nTodo)
    BY <1>1, <1>3, <1>4 DEF IInv, Sound, AtRest
<1>8. Sound(queue, NoBatch(t), AtStart(pc, t), fAllOk, nTodo)
    BY <1>2, <1>5, <1>6, <1>7 DEF Sound, q
<1>9. /\ Asleep(pc) = Asleep(q) \cup {t} /\ t \notin Asleep(q) /\ Asleep(q) \subseteq Threads
      /\ Inside(pc) = Inside(q) \cup {t} /\ t \notin Inside(q) /\ Inside(q) \subseteq Threads
    BY <1>1, <1>3 DEF Asleep, Inside
<1>10. /\ Cardinality(Asleep(pc)) = Cardinality(Asleep(q)) + 1
       /\ Cardinality(Inside(pc)) = Cardinality(Inside(q)) + 1
    BY <1>9, ThreadsPlus
<1>11. Cardinality(Asleep(q)) \in Nat /\ Cardinality(Inside(q)) \in Nat
    BY <1>9, ThreadsFinite
<1>12. nTodo \in Nat /\ nTotal \in Nat /\ nIdle \in Nat
    BY <1>1 DEF TypeOK
<1>13. /\ Cardinality(Asleep(q)) <= nIdle - 1 /\ nIdle - 1 \in Nat
       /\ Cardinality(Inside(q)) + 1 <= nTotal
    BY <1>10, <1>11, <1>12 DEF IInv, Counted
<1>14. fAllOk \in BOOLEAN /\ \A w \in Workers : pc[w] \notin {"idle", "adding"}
    BY DEF IInv, TypeOK
<1>15. Proceed(t, fAllOk, nTodo, nTotal, nIdle - 1, pc)
    BY DEF WakeUp
<1> QED BY <1>1, <1>8, <1>12, <1>13, <1>14, <1>15, ProceedKeepsIInv DEF q

(* Counting off a batch.                                                   *)
LEMMA CleanUpKeepsIInv ==
    ASSUME IInv, NEW t \in Threads, CleanUp(t)
    PROVE  IInv'
<1> DEFINE ok == fAllOk /\ fOk[t]
           todo == CleanedTodo(t)
           p == MasterNotified(t, todo)
           q == AtStart(p, t)
           v == NoBatch(t)
           H == Held(queue, vChecks)
           K == Held(queue, v)
<1>1. TypeOK /\ pc \in [Threads -> Places] /\ pc[t] = "done"
    BY DEF IInv, CleanUp, TypeOK, Places
<1>2. Master \in Threads
    BY DEF Threads
<1>3. Placed(queue, vChecks, pc) /\ Judged(queue, vChecks, pc, fAllOk) /\ AtRest(queue, vChecks, pc, fAllOk, nTodo)
    BY DEF IInv, Sound
<1>4. p \in [Threads -> Places] /\ p[t] = "done"
    BY <1>1, <1>2 DEF MasterNotified, Places
<1>5. /\ q \in [Threads -> Places] /\ q[t] = "start"
      /\ \A u \in Threads \ {t} : q[u] = p[u]
    BY <1>4 DEF AtStart, Places
<1>6. \A u \in Threads \ {t} :
          \/ q[u] = pc[u] /\ (u = Master => ~(pc[u] = "waiting" /\ todo = 0))
          \/ u = Master /\ pc[u] = "waiting" /\ q[u] = "woken"
    <2>1. \A u \in Threads \ {t} : p[u] = pc[u] \/ (u = Master /\ pc[u] = "waiting" /\ p[u] = "woken")
        BY <1>1, <1>2 DEF MasterNotified, Places
    <2>2. Master # t /\ todo = 0 /\ pc[Master] = "waiting" => p[Master] = "woken"
        BY <1>1, <1>2 DEF MasterNotified, Places
    <2> HIDE DEF p, q, todo
    <2> QED BY <1>5, <2>1, <2>2
<1>7. v \in [Threads -> SUBSET Checks] /\ v[t] = {} /\ \A u \in Threads \ {t} : v[u] = vChecks[u]
    BY <1>1 DEF TypeOK, NoBatch
<1>8. vChecks[t] # {} /\ vChecks[t] \subseteq Checks
    BY <1>1, <1>3 DEF Placed, Busy, TypeOK
<1> HIDE DEF p, q, v
<1>9. H = K \cup vChecks[t] /\ K \cap vChecks[t] = {}
    <2>1. \A c \in K : c \notin vChecks[t]
        BY <1>3, <1>7 DEF Held, Placed
    <2>2. H = K \cup vChecks[t]
        BY <1>7, <1>8 DEF Held
    <2> QED BY <2>1, <2>2
<1>10. todo = Cardinality(K) /\ todo \in Nat
    <2>1. IsFiniteSet(K) /\ Cardinality(K) \in Nat
        BY HeldFinite
    <2>2. IsFiniteSet(vChecks[t]) /\ Cardinality(vChecks[t]) \in Nat
        BY <1>8, QueueAssumption, FS_Subset, FS_CardinalityType
    <2> HIDE DEF H, K
    <2>3. Cardinality(K \cup vChecks[t]) = Cardinality(K) + Cardinality(vChecks[t])
        BY <1>9, <2>1, <2>2, FS_Union, FS_EmptySet
    <2>4. nTodo = Cardinality(H)
        BY <1>3 DEF AtRest, H
    <2> QED BY <1>9, <2>1, <2>2, <2>3, <2>4 DEF CleanedTodo
<1> HIDE DEF todo
<1>11. pc[Master] # "idle"
    BY <1>3, <1>8, <1>9 DEF AtRest
<1>12. Placed(queue, v, q)
    BY <1>3, <1>5, <1>6, <1>7 DEF Placed, Free, Busy
<1>13. ok \in BOOLEAN /\ fAllOk \in BOOLEAN /\ fOk[t] \in BOOLEAN
    BY <1>1 DEF TypeOK
<1>14. Judged(queue, v, q, ok)
    <2>1. K \subseteq added /\ vChecks[t] \subseteq added
        BY <1>3, <1>9 DEF Judged
    <2>2. ok => added \ K \subseteq Good
        <3>1. ASSUME ok PROVE added \ H \subseteq Good /\ vChecks[t] \subseteq Good
            BY <1>1, <1>3, <1>11, <3>1 DEF Judged
        <3> QED BY <3>1, <1>9
    <2>3. ~ok => ~(added \subseteq Good)
        BY <1>1, <1>3, <1>13 DEF Judged, Busy
    <2>4. \A u \in Threads : q[u] = "done" /\ fOk[u] => v[u] \subseteq Good
        BY <1>3, <1>5, <1>6, <1>7 DEF Judged
    <2>5. \A u \in Threads : q[u] \in Busy /\ ~fOk[u] => ~(added \subseteq Good)
        BY <1>3, <1>5, <1>6 DEF Judged, Busy
    <2> HIDE DEF ok
    <2> QED BY <2>1, <2>2, <2>3, <2>4, <2>5 DEF Judged
<1>15. AtRest(queue, v, q, ok, todo)
    <2>1. q[Master] # "idle"
        BY <1>2, <1>5, <1>6, <1>11
    <2>2. q[Master] = "waiting" => queue = {} /\ todo # 0
        BY <1>2, <1>3, <1>5, <1>6 DEF AtRest
    <2> QED BY <1>10, <2>1, <2>2 DEF AtRest
<1>16. Sound(queue, v, q, ok, todo)
    BY <1>12, <1>14, <1>15 DEF Sound
<1>17. /\ Asleep(q) = Asleep(pc)
       /\ Inside(pc) = Inside(q) \cup {t} /\ t \notin Inside(q) /\ Inside(q) \subseteq Threads
    BY <1>1, <1>5, <1>6 DEF Asleep, Inside
<1>18. Cardinality(Inside(pc)) = Cardinality(Inside(q)) + 1
    BY <1>17, ThreadsPlus
<1>19. nTotal \in Nat /\ nIdle \in Nat
    BY <1>1 DEF TypeOK
<1>20. Cardinality(Asleep(q)) <= nIdle /\ Cardinality(Inside(q)) + 1 <= nTotal
    BY <1>17, <1>18 DEF IInv, Counted
<1>21. \A w \in Workers : p[w] \notin {"idle", "adding"}
    BY <1>1, <1>2, QueueAssumption DEF IInv, p, MasterNotified, Threads, Places
<1>22. Proceed(t, ok, todo, nTotal, nIdle, p)
    BY DEF CleanUp, p, todo
<1> HIDE DEF ok
<1> QED BY <1>1, <1>4, <1>10, <1>13, <1>16, <1>19, <1>20, <1>21, <1>22, ProceedKeepsIInv DEF q, v

-----------------------------------------------------------------------------
(* The other actions.                                                      *)

(* Running the checks of a batch.                                          *)
LEMMA ExecuteKeepsIInv ==
    ASSUME IInv, NEW t \in Threads, Execute(t)
    PROVE  IInv'
<1>1. TypeOK'
    BY DEF IInv, Execute, TypeOK
<1>2. /\ pc' \in [Threads -> Places] /\ pc[t] = "working" /\ pc'[t] = "done"
      /\ \A u \in Threads \ {t} : pc'[u] = pc[u]
    BY DEF IInv, Execute, TypeOK, Places
<1>3. fOk' \in [Threads -> BOOLEAN] /\ \A u \in Threads \ {t} : fOk'[u] = fOk[u]
    BY DEF IInv, Execute, TypeOK
<1>4. fOk'[t] <=> fOk[t] /\ vChecks[t] \subseteq Good
    BY DEF IInv, Execute, TypeOK
<1>5. UNCHANGED <<queue, nIdle, nTotal, fAllOk, nTodo, vChecks, added, fRet>>
    BY DEF Execute
<1>6. Placed(queue, vChecks, pc) /\ Judged(queue, vChecks, pc, fAllOk) /\ AtRest(queue, vChecks, pc, fAllOk, nTodo)
    BY DEF IInv, Sound
<1>7. Master \in Threads
    BY DEF Threads
<1>8. Held(queue, vChecks)' = Held(queue, vChecks)
    BY <1>5 DEF Held
<1>9. Placed(queue, vChecks, pc)'
    BY <1>2, <1>5, <1>6 DEF Placed, Free, Busy
<1>10. Judged(queue, vChecks, pc, fAllOk)'
    <2>1. vChecks[t] \subseteq added
        BY <1>6 DEF Judged, Held, IInv, TypeOK
    <2>2. (\A u \in Threads : pc[u] = "done" /\ fOk[u] => vChecks[u] \subseteq Good)'
        BY <1>2, <1>3, <1>4, <1>5, <1>6 DEF Judged
    <2>3. (\A u \in Threads : pc[u] \in Busy /\ ~fOk[u] => ~(added \subseteq Good))'
        <3>1. ~fOk[t] => ~(added \subseteq Good)
            BY <1>2, <1>6 DEF Judged, Busy
        <3>2. ~fOk'[t] => ~(added' \subseteq Good)
            BY <1>4, <1>5, <2>1, <3>1
        <3> QED BY <1>2, <1>3, <1>5, <1>6, <3>2 DEF Judged
    <2>4. pc'[Master] = "idle" <=> pc[Master] = "idle"
        BY <1>2, <1>7
    <2> QED BY <1>5, <1>6, <1>8, <2>2, <2>3, <2>4 DEF Judged
<1>11. AtRest(queue, vChecks, pc, fAllOk, nTodo)'
    BY <1>2, <1>5, <1>6, <1>7, <1>8 DEF AtRest
<1>12. Counted(pc, nTotal, nIdle)'
    <2>1. Asleep(pc') = Asleep(pc) /\ Inside(pc') = Inside(pc)
        BY <1>2 DEF Asleep, Inside
    <2> QED BY <1>5, <2>1 DEF IInv, Counted
<1>13. (\A w \in Workers : pc[w] \notin {"idle", "adding"})'
    BY <1>2 DEF IInv, Threads
<1> QED BY <1>1, <1>9, <1>10, <1>11, <1>12, <1>13 DEF IInv, Sound

(* A step that only moves threads that hold no batch, or ends them.        *)
LEMMA MoveKeepsIInv ==
    ASSUME IInv, pc' \in [Threads -> Places],
           destructing' \in BOOLEAN, interrupted' \in BOOLEAN,
           UNCHANGED <<queue, nIdle, nTotal, fAllOk, nTodo, vChecks, fOk, added, fRet>>,
           \A u \in Threads : \/ pc'[u] = pc[u]
                              \/ pc[u] \in Free /\ pc'[u] \in Free \ {"idle", "waiting"}
                              \/ pc'[u] = "gone",
           \A u \in Threads : pc'[u] \in {"waiting", "woken"} => pc[u] \in {"waiting", "woken"},
           pc[Master] = "idle" => pc'[Master] = "idle",
           \A w \in Workers : pc'[w] # "adding"
    PROVE  IInv'
<1>1. TypeOK'
    BY DEF IInv, TypeOK, Places
<1>2. Master \in Threads
    BY DEF Threads
<1>3. Held(queue, vChecks)' = Held(queue, vChecks)
    BY DEF Held
<1>4. Placed(queue, vChecks, pc)'
    BY DEF IInv, Sound, Placed, Free, Busy
<1>5. Judged(queue, vChecks, pc, fAllOk)'
    BY <1>3 DEF IInv, Sound, Judged, Free, Busy
<1>6. AtRest(queue, vChecks, pc, fAllOk, nTodo)'
    <2>1. pc'[Master] = "waiting" => pc[Master] = "waiting"
        BY <1>2 DEF Free
    <2>2. pc'[Master] = "idle" => pc[Master] = "idle"
        BY <1>2 DEF Free
    <2> QED BY <1>3, <2>1, <2>2 DEF IInv, Sound, AtRest
<1>7. Counted(pc, nTotal, nIdle)'
    <2>1. Asleep(pc') \subseteq Asleep(pc) /\ Asleep(pc) \subseteq Threads
        BY DEF Asleep
    <2>2. Inside(pc') \subseteq Inside(pc) /\ Inside(pc) \subseteq Threads
        BY DEF Inside, Free
    <2>3. /\ Cardinality(Asleep(pc')) <= Cardinality(Asleep(pc))
          /\ Cardinality(Inside(pc')) <= Cardinality(Inside(pc))
        BY <2>1, <2>2, ThreadsSmaller
    <2>4. /\ Cardinality(Asleep(pc)) \in Nat /\ Cardinality(Asleep(pc')) \in Nat
          /\ Cardinality(Inside(pc)) \in Nat /\ Cardinality(Inside(pc')) \in Nat
        BY <2>1, <2>2, ThreadsFinite
    <2> QED BY <2>3, <2>4 DEF IInv, Counted, TypeOK
<1>8. (\A w \in Workers : pc[w] \notin {"idle", "adding"})'
    BY DEF IInv, Threads, Free
<1> QED BY <1>1, <1>4, <1>5, <1>6, <1>7, <1>8 DEF IInv, Sound

(* A new control: nothing is left of the last block.                       *)
LEMMA CreateKeepsIInv ==
    ASSUME IInv, CreateControl
    PROVE  IInv'
<1>1. TypeOK'
    BY DEF IInv, CreateControl, TypeOK
<1>2. /\ Master \in Threads /\ pc' \in [Threads -> Places] /\ pc[Master] = "idle" /\ pc'[Master] = "adding"
      /\ \A u \in Threads \ {Master} : pc'[u] = pc[u]
    BY DEF IInv, CreateControl, TypeOK, Places, Threads
<1>3. /\ UNCHANGED <<queue, nIdle, nTotal, fAllOk, nTodo, vChecks, fOk, fRet>>
      /\ added' = {}
    BY DEF CreateControl
<1>4. Held(queue, vChecks) = {} /\ fAllOk
    BY <1>2 DEF IInv, Sound, AtRest
<1>5. Held(queue, vChecks)' = {}
    BY <1>3, <1>4 DEF Held
<1>6. \A u \in Threads : pc[u] \notin Busy
    BY <1>4 DEF IInv, Sound, Placed, Held, TypeOK
<1>7. Placed(queue, vChecks, pc)'
    BY <1>2, <1>3 DEF IInv, Sound, Placed, Free, Busy
<1>8. Judged(queue, vChecks, pc, fAllOk)'
    BY <1>2, <1>3, <1>4, <1>5, <1>6 DEF Judged, Busy
<1>9. AtRest(queue, vChecks, pc, fAllOk, nTodo)'
    BY <1>2, <1>3, <1>4, <1>5 DEF IInv, Sound, AtRest
<1>10. Counted(pc, nTotal, nIdle)'
    <2>1. Asleep(pc') = Asleep(pc) /\ Inside(pc') = Inside(pc)
        BY <1>2 DEF Asleep, Inside
    <2> QED BY <1>3, <2>1 DEF IInv, Counted
<1>11. (\A w \in Workers : pc[w] \notin {"idle", "adding"})'
    BY <1>2, QueueAssumption DEF IInv, Threads
<1> QED BY <1>1, <1>7, <1>8, <1>9, <1>10, <1>11 DEF IInv, Sound

(* Adding checks that the block has not added before.                      *)
LEMMA AddKeepsIInv ==
    ASSUME IInv, NEW S \in SUBSET (Checks \ added), Add(S)
    PROVE  IInv'
<1> DEFINE H == Held(queue, vChecks)
<1>1. PICK W \in Notified(S) : pc' = [t \in Threads |-> IF t \in W THEN "woken" ELSE pc[t]]
    BY DEF Add
<1>2. W \subseteq Waiting
    BY <1>1 DEF Notified
<1>3. /\ Master \in Threads /\ pc' \in [Threads -> Places] /\ pc'[Master] = "adding" /\ pc[Master] = "adding"
      /\ \A u \in Threads : pc'[u] = pc[u] \/ (pc[u] = "waiting" /\ pc'[u] = "woken")
    BY <1>1, <1>2, QueueAssumption DEF IInv, Add, TypeOK, Places, Threads, Waiting
<1>4. /\ UNCHANGED <<nIdle, nTotal, fAllOk, vChecks, fOk, fRet, destructing, interrupted>>
      /\ queue' = queue \cup S /\ added' = added \cup S /\ nTodo' = nTodo + Cardinality(S)
    BY DEF Add
<1>5. IsFiniteSet(S) /\ Cardinality(S) \in Nat
    BY QueueAssumption, FS_Subset, FS_CardinalityType
<1>6. TypeOK'
    BY <1>3, <1>4, <1>5 DEF IInv, TypeOK, Places
<1>7. Held(queue, vChecks)' = H \cup S /\ H \cap S = {}
    <2>1. H \subseteq added
        BY DEF IInv, Sound, Judged
    <2>2. Held(queue, vChecks)' = H \cup S
        BY <1>4 DEF Held
    <2> QED BY <2>1, <2>2
<1>8. Placed(queue, vChecks, pc)'
    <2>1. \A u \in Threads : vChecks[u] \subseteq added
        BY DEF IInv, Sound, Judged, Held, TypeOK
    <2> QED BY <1>3, <1>4, <2>1 DEF IInv, Sound, Placed, Free, Busy
<1>9. Judged(queue, vChecks, pc, fAllOk)'
    <2>1. Judged(queue, vChecks, pc, fAllOk)
        BY DEF IInv, Sound
    <2> HIDE DEF H
    <2> QED BY <1>3, <1>4, <1>7, <2>1 DEF Judged, Busy, H
<1>10. nTodo' = Cardinality(Held(queue, vChecks)')
    <2>1. nTodo = Cardinality(H) /\ IsFiniteSet(H) /\ Cardinality(H) \in Nat
        BY HeldFinite DEF IInv, Sound, AtRest
    <2> HIDE DEF H
    <2>2. Cardinality(H \cup S) = Cardinality(H) + Cardinality(S)
        <3>1. H \cap S = {}
            BY <1>7
        <3>2. Cardinality(H \cup S) = Cardinality(H) + Cardinality(S) - Cardinality(H \cap S)
            BY <1>5, <2>1, FS_Union
        <3>3. Cardinality(H \cap S) = 0
            BY <3>1, FS_EmptySet
        <3> QED BY <1>5, <2>1, <3>2, <3>3
    <2> QED BY <1>4, <1>7, <2>1, <2>2
<1>11. AtRest(queue, vChecks, pc, fAllOk, nTodo)'
    BY <1>3, <1>10 DEF AtRest
<1>12. Counted(pc, nTotal, nIdle)'
    <2>1. Asleep(pc') = Asleep(pc) /\ Inside(pc') = Inside(pc)
        BY <1>3 DEF Asleep, Inside
    <2> QED BY <1>4, <2>1 DEF IInv, Counted
<1>13. (\A w \in Workers : pc[w] \notin {"idle", "adding"})'
    BY <1>3 DEF IInv, Threads
<1> QED BY <1>6, <1>8, <1>9, <1>11, <1>12, <1>13 DEF IInv, Sound

-----------------------------------------------------------------------------
(* The theorems.                                                           *)

LEMMA InitIInv ==
    ASSUME Init
    PROVE  IInv
<1>1. TypeOK
    BY DEF Init, TypeOK
<1>2. /\ Master \in Threads /\ pc[Master] = "idle"
      /\ \A u \in Threads : pc[u] \in {"idle", "start"}
      /\ \A w \in Workers : pc[w] = "start"
    BY QueueAssumption DEF Init, Threads
<1>3. Held(queue, vChecks) = {}
    BY DEF Init, Held
<1>4. Placed(queue, vChecks, pc) /\ Judged(queue, vChecks, pc, fAllOk)
    BY <1>2, <1>3 DEF Init, Placed, Judged, Busy
<1>5. AtRest(queue, vChecks, pc, fAllOk, nTodo)
    BY <1>2, <1>3, FS_EmptySet DEF Init, AtRest
<1>6. Counted(pc, nTotal, nIdle)
    <2>1. Asleep(pc) = {} /\ Inside(pc) = {}
        BY <1>2 DEF Asleep, Inside
    <2> QED BY <2>1, FS_EmptySet DEF Counted, Init
<1> QED BY <1>1, <1>2, <1>4, <1>5, <1>6 DEF IInv, Sound

LEMMA NextIInv ==
    ASSUME IInv, [Next]_vars
    PROVE  IInv'
<1>0. TypeOK /\ pc \in [Threads -> Places] /\ Master \in Threads /\ Master \notin Workers
    BY QueueAssumption DEF IInv, TypeOK, Places, Threads
<1>t. destructing \in BOOLEAN /\ interrupted \in BOOLEAN /\ \A w \in Workers : w \in Threads /\ pc[w] # "adding"
    BY DEF IInv, TypeOK, Threads
<1>1. CASE CreateControl
    BY <1>1, CreateKeepsIInv
<1>2. CASE \E S \in SUBSET (Checks \ added) : Add(S)
    BY <1>2, AddKeepsIInv
<1>3. CASE CallWait
    BY <1>0, <1>t, <1>3, MoveKeepsIInv DEF CallWait, Places, Free
<1>4. CASE DestroyControl
    BY <1>0, <1>t, <1>4, MoveKeepsIInv DEF DestroyControl, Places, Free
<1>5. ASSUME NEW t \in Threads, Step(t) PROVE IInv'
    BY <1>5, StartKeepsIInv, WakeUpKeepsIInv, ExecuteKeepsIInv, CleanUpKeepsIInv DEF Step
<1>6. ASSUME NEW t \in Threads, SpuriousWakeUp(t) PROVE IInv'
    BY <1>0, <1>t, <1>6, MoveKeepsIInv DEF SpuriousWakeUp, Places, Free
<1>7. ASSUME NEW w \in Workers, WorkerInterrupted(w) PROVE IInv'
    BY <1>0, <1>t, <1>7, MoveKeepsIInv DEF WorkerInterrupted, Places, Free
<1>8. CASE MasterInterrupted
    BY <1>0, <1>t, <1>8, MoveKeepsIInv DEF MasterInterrupted, Places, Free
<1>9. CASE DestructorInterrupted
    BY <1>0, <1>t, <1>9, MoveKeepsIInv DEF DestructorInterrupted, Places, Free
<1>10. CASE UNCHANGED vars
    BY <1>10 DEF vars, IInv, TypeOK, Sound, Placed, Judged, AtRest, Counted, Held, Asleep, Inside
<1> QED BY <1>1, <1>2, <1>3, <1>4, <1>5, <1>6, <1>7, <1>8, <1>9, <1>10 DEF Next

(* The inductive invariant holds for any number of threads and checks.     *)
THEOREM QueueInvariance == Spec => []IInv
BY InitIInv, NextIInv, PTL DEF Spec

(* The members of CCheckQueue keep their types: nTodo, nIdle and nTotal    *)
(* are never lowered below zero, so the divisor at checkqueue.h:107 is     *)
(* positive.                                                               *)
THEOREM QueueTypes == Spec => []TypeOK
BY QueueInvariance, PTL DEF IInv

(* Wait returns true exactly when every check added for this block is good *)
(* (Loop, checkqueue.h:90-96).                                             *)
THEOREM VerdictAlwaysRight == Spec => []VerdictRight
<1>1. IInv => VerdictRight
    BY DEF IInv, Sound, AtRest, VerdictRight
<1> QED BY <1>1, QueueInvariance, PTL

(* Whoever is past ~CCheckQueueControl finds the queue finished: nothing   *)
(* queued, nothing in a batch (checkqueue.h:204-211).                      *)
THEOREM AlwaysFinished == Spec => []Finished
<1>1. ASSUME IInv, pc[Master] = "idle"
      PROVE  queue = {} /\ nTodo = 0 /\ \A t \in Threads : vChecks[t] = {}
    <2>1. Held(queue, vChecks) = {} /\ nTodo = Cardinality({})
        BY <1>1 DEF IInv, Sound, AtRest
    <2>2. nTodo = 0
        BY <2>1, FS_EmptySet
    <2>3. queue = {} /\ \A t \in Threads : vChecks[t] = {}
        BY <1>1, <2>1 DEF Held, IInv, TypeOK
    <2> QED BY <2>2, <2>3
<1>2. IInv => Finished
    BY <1>1 DEF Finished
<1> QED BY <1>2, QueueInvariance, PTL

(* While the master sleeps a worker holds checks: the notification at      *)
(* checkqueue.h:82 is never lost.                                          *)
THEOREM MasterNeverSleepsInVain == Spec => []SomebodyWorks
<1>1. ASSUME IInv, pc[Master] = "waiting"
      PROVE  \E w \in Workers : vChecks[w] # {}
    <2>1. queue = {} /\ nTodo # 0 /\ nTodo = Cardinality(Held(queue, vChecks))
        BY <1>1 DEF IInv, Sound, AtRest
    <2>2. Held(queue, vChecks) # {}
        BY <2>1, FS_EmptySet
    <2>3. vChecks[Master] = {}
        BY <1>1 DEF IInv, Sound, Placed, Free, Threads
    <2> QED BY <2>1, <2>2, <2>3 DEF Held, Threads
<1>2. IInv => SomebodyWorks
    BY <1>1 DEF SomebodyWorks
<1> QED BY <1>2, QueueInvariance, PTL
=============================================================================
