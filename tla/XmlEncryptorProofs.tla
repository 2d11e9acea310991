------------------------- MODULE XmlEncryptorProofs -------------------------
(***************************************************************************)
(* Theorems about the programs of xmlEncryptor/.                           *)
(*                                                                         *)
(* WorkStealingPool, for every number of workers and of tasks: where each  *)
(* task is, what activeTasks counts, and what the return of                *)
(* WaitAllTasksDone means.                                                 *)
(*                                                                         *)
(* XmlEncryptors, for every tree: both encryptXmlTree compute what the     *)
(* recursive definition does, and the one that uses a pool leaves nothing  *)
(* but a notification behind it.                                           *)
(***************************************************************************)
EXTENDS WorkStealingPool, XmlEncryptors, DataLemmas

(***************************************************************************)
(* WorkStealingPool                                                        *)
(***************************************************************************)
\* Where a thread is inside Submit or SubmitToWorker.
CallingPlaces == CallPlaces \ {"undefined", "undefinedMember"}

\* Every thread is at a place, and its loop at a worker.
Located ==
  /\ at \in [Thread -> WorkerPlaces \cup CallPlaces \cup MainPlaces]
  /\ \A w \in Worker : at[w] \notin MainPlaces
  /\ at[Main] \notin WorkerPlaces
  /\ scan \in [Thread -> Worker]

\* No task has a number that was not given out yet.
Numbered ==
  /\ queue \in [Worker -> Seq(1 .. created)]
  /\ hand \in [Worker -> 0 .. created]
  /\ giving \in [Thread -> 0 .. created]
  /\ created \in 0 .. MaxTasks
  /\ direct \subseteq 1 .. created /\ done \subseteq 1 .. created

\* A worker has a task in its hand exactly while the task runs, its calls of
\* Submit included, and a call has the task it submits.
HandsMatchPlaces ==
  /\ \A w \in Worker : at[w] \in {"running"} \cup CallingPlaces => hand[w] # NoTask
  /\ \A w \in Worker : hand[w] # NoTask => at[w] \in {"running"} \cup CallPlaces
  /\ \A t \in Submitters : giving[t] # NoTask

\* Only while the destructor frees the queues does a thread meet a freed one, or a
\* member that is gone.
UndefinedWhileFreeing ==
  \A t \in Thread : at[t] \in {"undefined", "undefinedMember"} => at[Main] \in {"joining", "gone"}

\* The workers that the constructor has not started yet do nothing.
NotYetStarted ==
  at[Main] \in {"appending", "starting"} =>
    \A w \in Worker : w >= scan[Main] => at[w] = "unstarted"

\* The counter, against the history: no task is counted off twice.
CounterMatchesHistory == activeTasks = created - Cardinality(done)

\* The inductive invariant.
IInv ==
  /\ Located
  /\ Numbered
  /\ HandsMatchPlaces
  /\ UndefinedWhileFreeing
  /\ NotYetStarted
  /\ submitIdx \in Worker
  /\ TaskPlaces
  /\ CounterMatchesHistory

-----------------------------------------------------------------------------
(***************************************************************************)
(* Where the threads are.                                                  *)
(***************************************************************************)
\* What a step does with the places of the threads that neither begins a call nor
\* pushes, takes or finishes a task.
Quiet ==
  /\ Located' /\ UndefinedWhileFreeing' /\ NotYetStarted'
  /\ \A w \in Worker :
       /\ at'[w] \in {"running"} \cup CallingPlaces => at[w] \in {"running"} \cup CallingPlaces
       /\ at[w] \in {"running"} \cup CallPlaces => at'[w] \in {"running"} \cup CallPlaces
  /\ \A t \in Thread :
       /\ at'[t] \in SubmitPlaces => at[t] \in SubmitPlaces /\ giving'[t] = giving[t]
       /\ at[t] \in SubmitPlaces => \/ at'[t] \in SubmitPlaces \cup {"undefined"}
                                   \/ at'[Main] \in {"joining", "gone"}
       /\ at[t] = "undefined" => at'[t] = "undefined"
  /\ at[Main] \in {"joining", "gone"} => at'[Main] \in {"joining", "gone"}
  /\ giving' \in [Thread -> 0 .. created]

\* The numbers of the workers, and of the main thread.
LEMMA Numbers ==
  /\ NumThreads \in Nat /\ NumThreads >= 1
  /\ \A w : w \in Worker <=> w \in Nat /\ w < NumThreads
  /\ \A t : t \in Thread <=> t \in Worker \/ t = Main
  /\ Main \notin Worker
BY PoolAssumption DEF Worker, Thread, Main

\* A loop over the workers stays within them.
LEMMA ScanToProperties ==
  ASSUME Located, NEW t \in Thread, NEW q \in Nat, NEW place, NEW end,
         ScanTo(t, q, place, end)
  PROVE  /\ \E w \in Worker : scan' = [scan EXCEPT ![t] = w]
         /\ at' = [at EXCEPT ![t] = place] \/ at' = [at EXCEPT ![t] = end]
<1>1. Size \in Int /\ Size <= NumThreads
  BY Numbers DEF Size, Located
<1>2. 0 \in Worker /\ (q < Size => q \in Worker)
  BY <1>1, Numbers
<1>. QED  BY <1>2, Numbers DEF ScanTo, Located

\* The steps that are quiet.
LEMMA QuietSteps ==
  ASSUME Located, Numbered, UndefinedWhileFreeing, NotYetStarted, submitIdx \in Worker
  PROVE  /\ Construct \/ StartWorker \/ TestDone \/ WaitBlock => Quiet
         /\ RequestStop \/ NotifyAll \/ JoinAndFree \/ WaitAllTasksDone \/ Destroy => Quiet
         /\ \A t \in Thread :
              LockQueue(t) \/ Index(t) \/ Notify(t) \/ Unlock(t) \/ UseFreed(t)
                \/ UseDestroyed(t) \/ SpuriousWakeup(t) => Quiet
         /\ \A w \in Worker :
              Top(w) \/ Signal(w) \/ TestStop(w) \/ TestOwn(w) \/ TestOther(w) \/ Block(w)
                \/ (PopOwn(w) /\ queue[w] = << >>)
                \/ (Steal(w) /\ queue[scan[w]] = << >>) => Quiet
<1>0. giving \in [Thread -> 0 .. created] /\ 0 \in 0 .. created
  BY DEF Numbered
<1>. USE Numbers, <1>0 DEF Quiet, Located, UndefinedWhileFreeing, NotYetStarted, Goto, NoTask,
                     WorkerPlaces, CallPlaces, MainPlaces, CallingPlaces, SubmitPlaces
<1>1. ASSUME Construct  PROVE Quiet
  BY <1>1 DEF Construct
<1>2. ASSUME StartWorker  PROVE Quiet
  <2>1. PICK w \in Worker : w = scan[Main] /\ at[w] = "unstarted"
    BY <1>2 DEF StartWorker
  <2>2. \/ /\ at' = [at EXCEPT ![w] = "top", ![Main] = "ready"]
           /\ scan' = [scan EXCEPT ![Main] = 0]
        \/ /\ at' = [at EXCEPT ![w] = "top", ![Main] = "appending"]
           /\ scan' = [scan EXCEPT ![Main] = w + 1]
           /\ w + 1 \in Worker
    <3>1. Size = w + 1
      BY <1>2, <2>1 DEF StartWorker, Size
    <3>2. Size # NumThreads => w + 1 \in Worker
      BY <2>1, <3>1
    <3>3. 0 \in Worker
      OBVIOUS
    <3>. QED  BY <1>2, <2>1, <3>1, <3>2 DEF StartWorker
  <2>3. at[Main] = "starting" /\ giving' = giving
    BY <1>2 DEF StartWorker
  <2>4. CASE at' = [at EXCEPT ![w] = "top", ![Main] = "ready"] /\ scan' = [scan EXCEPT ![Main] = 0]
    BY <2>1, <2>3, <2>4
  <2>5. CASE /\ at' = [at EXCEPT ![w] = "top", ![Main] = "appending"]
             /\ scan' = [scan EXCEPT ![Main] = w + 1] /\ w + 1 \in Worker
    BY <2>1, <2>3, <2>5
  <2>. QED  BY <2>2, <2>4, <2>5
<1>3. ASSUME NEW w \in Worker, Top(w)  PROVE Quiet
  BY <1>3 DEF Top
<1>4. ASSUME NEW t \in Thread, LockQueue(t)  PROVE Quiet
  BY <1>4 DEF LockQueue
<1>5. ASSUME NEW w \in Worker, Signal(w)  PROVE Quiet
  BY <1>5 DEF Signal
<1>6. ASSUME NEW w \in Worker, TestStop(w)  PROVE Quiet
  BY <1>6 DEF TestStop
<1>7. ASSUME NEW w \in Worker, TestOwn(w)  PROVE Quiet
  <2>1. at[w] = "ownTest" /\ giving' = giving
    BY <1>7 DEF TestOwn
  <2>2. \/ at' = [at EXCEPT ![w] = "top"] /\ UNCHANGED scan
        \/ ScanTo(w, OtherFrom(w, 0), "othersTest", "blocking")
    BY <1>7 DEF TestOwn
  <2>3. OtherFrom(w, 0) \in Nat
    BY DEF OtherFrom
  <2>4. CASE ScanTo(w, OtherFrom(w, 0), "othersTest", "blocking")
    <3>1. /\ \E v \in Worker : scan' = [scan EXCEPT ![w] = v]
          /\ at' = [at EXCEPT ![w] = "othersTest"] \/ at' = [at EXCEPT ![w] = "blocking"]
      BY <2>3, <2>4, ScanToProperties
    <3>. QED  BY <2>1, <3>1
  <2>. QED  BY <2>1, <2>2, <2>4
<1>8. ASSUME NEW w \in Worker, TestOther(w)  PROVE Quiet
  <2>1. at[w] = "othersTest" /\ giving' = giving
    BY <1>8 DEF TestOther
  <2>2. \/ at' = [at EXCEPT ![w] = "top"] /\ scan' = [scan EXCEPT ![w] = 0]
        \/ ScanTo(w, OtherFrom(w, scan[w] + 1), "othersTest", "blocking")
    BY <1>8 DEF TestOther
  <2>3. OtherFrom(w, scan[w] + 1) \in Nat /\ 0 \in Worker
    BY DEF OtherFrom
  <2>4. CASE ScanTo(w, OtherFrom(w, scan[w] + 1), "othersTest", "blocking")
    <3>1. /\ \E v \in Worker : scan' = [scan EXCEPT ![w] = v]
          /\ at' = [at EXCEPT ![w] = "othersTest"] \/ at' = [at EXCEPT ![w] = "blocking"]
      BY <2>3, <2>4, ScanToProperties
    <3>. QED  BY <2>1, <3>1
  <2>. QED  BY <2>1, <2>2, <2>3, <2>4
<1>9. ASSUME NEW w \in Worker, Block(w)  PROVE Quiet
  BY <1>9 DEF Block
<1>10. ASSUME NEW t \in Thread, SpuriousWakeup(t)  PROVE Quiet
  BY <1>10 DEF SpuriousWakeup
<1>11. ASSUME NEW t \in Thread, Index(t)  PROVE Quiet
  BY <1>11 DEF Index
<1>12. ASSUME NEW t \in Thread, Notify(t)  PROVE Quiet
  <2>1. PICK woken \in WakeOne :
          \/ /\ at[t] = "notify" /\ at' = [woken EXCEPT ![t] = Home(t)]
             /\ scan' = [scan EXCEPT ![t] = 0] /\ giving' = [giving EXCEPT ![t] = NoTask]
          \/ /\ at[t] = "notifyTo" /\ at' = [woken EXCEPT ![t] = "unlockTo"]
             /\ UNCHANGED <<scan, giving>>
    BY <1>12 DEF Notify
  <2>2. woken = at \/ \E w \in Worker : at[w] = "asleep" /\ woken = [at EXCEPT ![w] = "idle"]
    BY DEF WakeOne, Asleep
  <2>3. 0 \in Worker
    OBVIOUS
  <2>4. CASE woken = at
    BY <2>1, <2>3, <2>4 DEF Home
  <2>5. ASSUME NEW w \in Worker, at[w] = "asleep", woken = [at EXCEPT ![w] = "idle"]
        PROVE  Quiet
    <3>1. CASE at[t] = "notify"
      <4>1. /\ at' = [at EXCEPT ![w] = "idle", ![t] = Home(t)]
            /\ scan' = [scan EXCEPT ![t] = 0] /\ giving' = [giving EXCEPT ![t] = NoTask]
        BY <2>1, <2>5, <3>1
      <4>. QED  BY <2>3, <2>5, <3>1, <4>1 DEF Home
    <3>2. CASE at[t] = "notifyTo"
      <4>1. at' = [at EXCEPT ![w] = "idle", ![t] = "unlockTo"] /\ UNCHANGED <<scan, giving>>
        BY <2>1, <2>5, <3>2
      <4>. QED  BY <2>5, <3>2, <4>1
    <3>. QED  BY <2>1, <3>1, <3>2
  <2>. QED  BY <2>2, <2>4, <2>5
<1>13. ASSUME NEW t \in Thread, Unlock(t)  PROVE Quiet
  BY <1>13 DEF Unlock, Home
<1>14. ASSUME NEW t \in Thread, UseFreed(t)  PROVE Quiet
  BY <1>14 DEF UseFreed, HoldsQueue, WantsQueue, Freed
<1>15. ASSUME WaitAllTasksDone  PROVE Quiet
  BY <1>15 DEF WaitAllTasksDone
<1>16. ASSUME TestDone  PROVE Quiet
  BY <1>16 DEF TestDone
<1>17. ASSUME WaitBlock  PROVE Quiet
  BY <1>17 DEF WaitBlock
<1>18. ASSUME Destroy  PROVE Quiet
  BY <1>18 DEF Destroy
<1>19. ASSUME RequestStop  PROVE Quiet
  <2>1. at[Main] = "stopping" /\ giving' = giving /\ scan[Main] + 1 \in Nat
    BY <1>19 DEF RequestStop
  <2>2. /\ \E v \in Worker : scan' = [scan EXCEPT ![Main] = v]
        /\ at' = [at EXCEPT ![Main] = "stopping"] \/ at' = [at EXCEPT ![Main] = "notifyAll"]
    BY <1>19, <2>1, ScanToProperties DEF RequestStop
  <2>. QED  BY <2>1, <2>2
<1>20. ASSUME NotifyAll  PROVE Quiet
  BY <1>20 DEF NotifyAll, WakeAll, Asleep
<1>21. ASSUME NEW w \in Worker, PopOwn(w), queue[w] = << >>  PROVE Quiet
  <2>1. at[w] = "popping" /\ giving' = giving /\ ScanTo(w, OtherFrom(w, 0), "steal", "idle")
    BY <1>21, Zenon DEF PopOwn
  <2>2. OtherFrom(w, 0) \in Nat
    BY DEF OtherFrom
  <2>3. /\ \E v \in Worker : scan' = [scan EXCEPT ![w] = v]
        /\ at' = [at EXCEPT ![w] = "steal"] \/ at' = [at EXCEPT ![w] = "idle"]
    BY <2>1, <2>2, ScanToProperties
  <2>. QED  BY <2>1, <2>3
<1>22. ASSUME NEW w \in Worker, Steal(w), queue[scan[w]] = << >>  PROVE Quiet
  <2>1. /\ at[w] = "stealing" /\ giving' = giving
        /\ ScanTo(w, OtherFrom(w, scan[w] + 1), "steal", "idle")
    BY <1>22, Zenon DEF Steal, Stealable
  <2>2. OtherFrom(w, scan[w] + 1) \in Nat
    BY DEF OtherFrom
  <2>3. /\ \E v \in Worker : scan' = [scan EXCEPT ![w] = v]
        /\ at' = [at EXCEPT ![w] = "steal"] \/ at' = [at EXCEPT ![w] = "idle"]
    BY <2>1, <2>2, ScanToProperties
  <2>. QED  BY <2>1, <2>3
<1>23. ASSUME JoinAndFree  PROVE Quiet
  <2>1. at[Main] = "joining" /\ giving' = giving /\ ScanTo(Main, scan[Main] + 1, "joining", "gone")
    BY <1>23, Zenon DEF JoinAndFree
  <2>2. scan[Main] + 1 \in Nat
    BY DEF OtherFrom
  <2>3. /\ \E v \in Worker : scan' = [scan EXCEPT ![Main] = v]
        /\ at' = [at EXCEPT ![Main] = "joining"] \/ at' = [at EXCEPT ![Main] = "gone"]
    BY <2>1, <2>2, ScanToProperties
  <2>. QED  BY <2>1, <2>3
<1>24. ASSUME NEW t \in Thread, UseDestroyed(t)  PROVE Quiet
  BY <1>24 DEF UseDestroyed, UsesMember, HoldsIdle
<1>. HIDE DEF Quiet
<1>. QED  BY <1>1, <1>2, <1>3, <1>4, <1>5, <1>6, <1>7, <1>8, <1>9, <1>10,
             <1>11, <1>12, <1>13, <1>14, <1>15, <1>16, <1>17, <1>18, <1>19, <1>20,
             <1>21, <1>22, <1>23, <1>24
-----------------------------------------------------------------------------
(***************************************************************************)
(* Where the tasks are.                                                    *)
(***************************************************************************)
\* What is said of the tasks.
Placed == Numbered /\ HandsMatchPlaces /\ TaskPlaces /\ CounterMatchesHistory

\* The set of finished tasks is finite, and none is finished that was not counted.
LEMMA DoneFinite ==
  ASSUME Numbered
  PROVE  IsFiniteSet(done) /\ Cardinality(done) \in 0 .. created
<1>1. created \in Nat
  BY PoolAssumption DEF Numbered
<1>2. IsFiniteSet(1 .. created) /\ Cardinality(1 .. created) = created
  BY <1>1, FS_Interval
<1>3. done \in SUBSET (1 .. created)
  BY DEF Numbered
<1>4. IsFiniteSet(done) /\ Cardinality(done) <= created
  BY <1>2, <1>3, FS_Subset
<1>5. Cardinality(done) \in Nat
  BY <1>4, FS_CardinalityType
<1>. QED  BY <1>1, <1>4, <1>5

\* A quiet step leaves every task where it is.
LEMMA QuietKeepsTasks ==
  ASSUME IInv, Quiet, UNCHANGED <<queue, activeTasks, hand, history>>
  PROVE  Placed'
<1>1. UNCHANGED <<queue, activeTasks, hand, created, direct, done>>
  BY DEF history
<1>2. Numbered'
  BY <1>1 DEF IInv, Numbered, Quiet
<1>3. HandsMatchPlaces'
  BY <1>1 DEF IInv, HandsMatchPlaces, Quiet, Submitters
<1>4. CounterMatchesHistory'
  BY <1>1 DEF IInv, CounterMatchesHistory
<1>5. \A w \in Worker : Queued(w)' = Queued(w)
  BY <1>1 DEF Queued
<1>6. /\ \A t \in Submitters' : t \in Submitters /\ giving'[t] = giving[t]
      /\ QueuesAlive' => QueuesAlive
      /\ QueuesAlive' => \A t \in Submitters : t \in Submitters'
  BY DEF Quiet, QueuesAlive, Submitters
<1>7. TaskPlaces'
  BY <1>1, <1>5, <1>6 DEF IInv, TaskPlaces
<1>. QED  BY <1>2, <1>3, <1>4, <1>7 DEF Placed

\* The destructor frees a queue with the tasks in it.
LEMMA FreeKeepsTasks ==
  ASSUME IInv, Quiet, JoinAndFree
  PROVE  Placed'
<1>1. PICK v \in Worker : queue' = [queue EXCEPT ![v] = << >>]
  BY Numbers, Zenon DEF JoinAndFree, IInv, Located
<1>2. UNCHANGED <<activeTasks, hand, giving, created, direct, done>>
  BY Zenon DEF JoinAndFree, history
<1>3. queue' \in [Worker -> Seq(1 .. created)]
  BY <1>1 DEF IInv, Numbered
<1>4. Numbered'
  BY <1>2, <1>3 DEF IInv, Numbered
<1>5. HandsMatchPlaces'
  BY <1>2 DEF IInv, HandsMatchPlaces, Quiet, Submitters
<1>6. CounterMatchesHistory'
  BY <1>2 DEF IInv, CounterMatchesHistory
<1>7. /\ \A w \in Worker : Queued(w)' \subseteq Queued(w)
      /\ \A w \in Worker : IsInjective(queue'[w])
  <2>1. ToSet(<< >>) = {} /\ IsInjective(<< >>)
    BY DEF ToSet, IsInjective
  <2>2. \A w \in Worker : queue'[w] = IF w = v THEN << >> ELSE queue[w]
    BY <1>1 DEF IInv, Numbered
  <2>3. \A w \in Worker : IsInjective(queue[w])
    BY DEF IInv, TaskPlaces
  <2>. QED  BY <2>1, <2>2, <2>3 DEF Queued
<1>8. /\ \A t \in Submitters' : t \in Submitters /\ giving'[t] = giving[t]
      /\ ~QueuesAlive'
  BY Zenon DEF Quiet, QueuesAlive, Submitters, JoinAndFree
<1>9. TaskPlaces'
  BY <1>2, <1>7, <1>8 DEF IInv, TaskPlaces
<1>. QED  BY <1>4, <1>5, <1>6, <1>9 DEF Placed

\* A task goes from a queue to the hand of a worker.
LEMMA TakeKeepsTasks ==
  ASSUME IInv, NEW w \in Worker, NEW v \in Worker, at[w] \in {"popping", "stealing"},
         NEW k \in Queued(v), NEW s \in Seq(1 .. created), IsInjective(s),
         ToSet(s) = Queued(v) \ {k},
         queue' = [queue EXCEPT ![v] = s], hand' = [hand EXCEPT ![w] = k],
         at' = [at EXCEPT ![w] = "running"],
         UNCHANGED <<activeTasks, giving, created, direct, done>>
  PROVE  Placed'
<1>0. k \in 1 .. created /\ \A x \in Worker : Queued(x) \subseteq 1 .. created
  BY DEF IInv, Numbered, Queued, ToSet
<1>1. Numbered'
  BY <1>0 DEF IInv, Numbered
<1>2. /\ \A x \in Worker : hand'[x] = IF x = w THEN k ELSE hand[x]
      /\ \A x \in Worker : queue'[x] = IF x = v THEN s ELSE queue[x]
      /\ \A t \in Thread : at'[t] = IF t = w THEN "running" ELSE at[t]
      /\ w \in Thread /\ w # Main
  BY Numbers DEF IInv, Numbered, Located
<1>3. Submitters' = Submitters
  BY <1>2 DEF Submitters, SubmitPlaces
<1>4. hand[w] = NoTask /\ k # NoTask
  BY <1>0 DEF IInv, HandsMatchPlaces, CallPlaces, NoTask
<1>5. HandsMatchPlaces'
  <2>1. \A x \in Worker : x \in Thread
    BY Numbers
  <2>. QED  BY <1>2, <1>3, <1>4, <2>1 DEF IInv, HandsMatchPlaces
<1>6. CounterMatchesHistory'
  BY DEF IInv, CounterMatchesHistory
<1>7. /\ \A x \in Worker : Queued(x)' = IF x = v THEN Queued(x) \ {k} ELSE Queued(x)
      /\ \A x \in Worker : IsInjective(queue'[x])
  <2>1. \A x \in Worker : IsInjective(queue[x])
    BY DEF IInv, TaskPlaces
  <2>2. \A x \in Worker : Queued(x)' = IF x = v THEN Queued(x) \ {k} ELSE Queued(x)
    <3>1. queue'[v] = s /\ \A x \in Worker : x # v => queue'[x] = queue[x]
      BY <1>2
    <3>2. Queued(v)' = Queued(v) \ {k}
      BY <3>1, Zenon DEF Queued
    <3>3. \A x \in Worker : x # v => Queued(x)' = Queued(x)
      BY <3>1, Zenon DEF Queued
    <3>. QED  BY <3>2, <3>3
  <2>3. \A x \in Worker : IsInjective(queue'[x])
    BY <1>2, <2>1
  <2>. QED  BY <2>2, <2>3
<1>8. QueuesAlive' => QueuesAlive
  <2>1. at'[Main] = at[Main]
    BY <1>2, Numbers
  <2>2. \A t \in Thread : at[t] = "undefined" => at'[t] = "undefined"
    BY <1>2
  <2>. QED  BY <2>1, <2>2 DEF QueuesAlive
<1>9. TaskPlaces'
  <2>1. \A t \in Submitters : giving[t] # k
    BY DEF IInv, TaskPlaces
  <2>2. \A x \in Worker : k # hand[x] /\ (x # v => k \notin Queued(x))
    BY DEF IInv, TaskPlaces
  <2>3. k \notin done
    BY DEF IInv, TaskPlaces
  <2>. USE <1>2, <1>7 DEF IInv, TaskPlaces
  <2>4. \A x \in Worker : \A q \in Queued(x)' :
          /\ q \notin done'
          /\ \A y \in Worker : q # hand'[y] /\ (q \in Queued(y)' => y = x)
    BY <2>2
  <2>5. \A x \in Worker :
          /\ hand'[x] \notin done'
          /\ \A y \in Worker : hand'[y] = hand'[x] => y = x \/ hand'[x] = NoTask
    BY <1>4, <2>2, <2>3
  <2>6. \A t \in Submitters' :
          /\ giving'[t] \notin done'
          /\ \A x \in Worker : giving'[t] \notin Queued(x)' /\ giving'[t] # hand'[x]
          /\ \A u \in Submitters' : giving'[u] = giving'[t] => u = t
    BY <1>3, <2>1
  <2>7. ASSUME QueuesAlive', NEW q \in 1 .. created'
        PROVE  \/ q \in done'
               \/ \E x \in Worker : q \in Queued(x)' \/ q = hand'[x]
               \/ \E t \in Submitters' : q = giving'[t]
    <3>1. \/ q \in done
          \/ \E x \in Worker : q \in Queued(x) \/ q = hand[x]
          \/ \E t \in Submitters : q = giving[t]
      BY <1>8, <2>7
    <3>2. q # NoTask
      BY DEF NoTask
    <3>3. ASSUME NEW x \in Worker, q = hand[x]  PROVE q = hand'[x]
      BY <1>4, <3>2, <3>3
    <3>4. ASSUME NEW x \in Worker, q \in Queued(x)
          PROVE  \E y \in Worker : q \in Queued(y)' \/ q = hand'[y]
      BY <3>4
    <3>. QED  BY <1>3, <3>1, <3>3, <3>4
  <2>. QED  BY <1>7, <2>4, <2>5, <2>6, <2>7
<1>. QED  BY <1>1, <1>5, <1>6, <1>9 DEF Placed
\* A task is finished.
LEMMA FinishKeepsTasks ==
  ASSUME IInv, NEW w \in Worker, Finish(w)
  PROVE  Placed'
<1> DEFINE k == hand[w]
<1>1. /\ at[w] = "running" /\ activeTasks' = activeTasks - 1 /\ done' = done \cup {k}
      /\ UNCHANGED <<queue, giving, created, direct>>
      /\ hand' = [hand EXCEPT ![w] = NoTask]
  BY DEF Finish
<1>2. PICK p : p \in {"top", "signal", "signalLocked"} /\ at' = [at EXCEPT ![w] = p]
  BY DEF Finish
<1>3. k # NoTask /\ k \in 1 .. created /\ k \notin done
  BY <1>1 DEF IInv, HandsMatchPlaces, Numbered, TaskPlaces, NoTask
<1>4. /\ \A x \in Worker : hand'[x] = IF x = w THEN NoTask ELSE hand[x]
      /\ \A t \in Thread : at'[t] = IF t = w THEN p ELSE at[t]
      /\ w \in Thread /\ w # Main
  BY <1>1, <1>2, Numbers DEF IInv, Numbered, Located
<1>5. Numbered'
  <2>1. NoTask \in 0 .. created
    BY PoolAssumption DEF NoTask, IInv, Numbered
  <2>2. hand' \in [Worker -> 0 .. created]
    BY <1>1, <2>1 DEF IInv, Numbered
  <2>3. done' \subseteq 1 .. created
    <3>1. done \subseteq 1 .. created
      BY DEF IInv, Numbered
    <3>. QED  BY <1>1, <1>3, <3>1
  <2>4. /\ queue' = queue /\ giving' = giving /\ created' = created /\ direct' = direct
        /\ queue \in [Worker -> Seq(1 .. created)] /\ giving \in [Thread -> 0 .. created]
        /\ created \in 0 .. MaxTasks /\ direct \subseteq 1 .. created
    BY <1>1 DEF IInv, Numbered
  <2>. QED  BY <2>2, <2>3, <2>4 DEF Numbered
<1>6. Submitters' = Submitters
  BY <1>1, <1>2, <1>4 DEF Submitters, SubmitPlaces
<1>7. HandsMatchPlaces'
  <2>1. \A x \in Worker : x \in Thread
    BY Numbers
  <2>. QED  BY <1>1, <1>2, <1>4, <1>6, <2>1 DEF IInv, HandsMatchPlaces, CallingPlaces, CallPlaces
<1>8. CounterMatchesHistory'
  <2>1. IsFiniteSet(done) /\ Cardinality(done) \in Nat
    BY DoneFinite DEF IInv
  <2>2. Cardinality(done \cup {k}) = Cardinality(done) + 1
    BY <1>3, <2>1, FS_AddElement
  <2>3. activeTasks = created - Cardinality(done) /\ created \in Nat
    BY DEF IInv, CounterMatchesHistory, Numbered
  <2>. QED  BY <1>1, <2>1, <2>2, <2>3 DEF CounterMatchesHistory
<1>9. \A x \in Worker : Queued(x)' = Queued(x)
  BY <1>1 DEF Queued
<1>10. QueuesAlive' => QueuesAlive
  <2>1. at'[Main] = at[Main]
    BY <1>4, Numbers
  <2>2. \A t \in Thread : at[t] = "undefined" => at'[t] = "undefined"
    BY <1>1, <1>4
  <2>. QED  BY <2>1, <2>2 DEF QueuesAlive
<1>11. TaskPlaces'
  <2>. USE <1>1, <1>4, <1>9 DEF IInv, TaskPlaces
  <2>0. NoTask \notin done' /\ \A x \in Worker : NoTask \notin Queued(x)
    BY <1>3 DEF Numbered, Queued, ToSet, NoTask
  <2>1. \A x \in Worker : \A q \in Queued(x)' :
          /\ q \notin done'
          /\ \A y \in Worker : q # hand'[y] /\ (q \in Queued(y)' => y = x)
    BY <2>0
  <2>2. \A x \in Worker :
          /\ hand'[x] \notin done'
          /\ \A y \in Worker : hand'[y] = hand'[x] => y = x \/ hand'[x] = NoTask
    BY <1>3, <2>0
  <2>3. \A t \in Submitters' :
          /\ giving'[t] \notin done'
          /\ \A x \in Worker : giving'[t] \notin Queued(x)' /\ giving'[t] # hand'[x]
          /\ \A u \in Submitters' : giving'[u] = giving'[t] => u = t
    BY <1>6 DEF HandsMatchPlaces
  <2>4. ASSUME QueuesAlive', NEW q \in 1 .. created'
        PROVE  \/ q \in done'
               \/ \E x \in Worker : q \in Queued(x)' \/ q = hand'[x]
               \/ \E t \in Submitters' : q = giving'[t]
    BY <1>6, <1>10, <2>4
  <2>. QED  BY <2>1, <2>2, <2>3, <2>4
<1>. QED  BY <1>5, <1>7, <1>8, <1>11 DEF Placed

\* A task is counted, and its submission begins.
LEMMA CountKeepsTasks ==
  ASSUME IInv, NEW t \in Thread, NEW p \in {"index", "lockTo"}, Goto(t, Home(t), p), Count(t),
         direct' \subseteq direct \cup {created + 1}
  PROVE  Placed'
<1> DEFINE k == created + 1
<1>1. /\ created < MaxTasks /\ created' = k /\ activeTasks' = activeTasks + 1
      /\ giving' = [giving EXCEPT ![t] = k]
      /\ UNCHANGED <<queue, hand, done>>
  BY DEF Count, Counted
<1>2. at[t] = Home(t) /\ at' = [at EXCEPT ![t] = p]
  BY DEF Goto
<1>3. created \in Nat /\ MaxTasks \in Nat /\ 1 .. created \subseteq 1 .. k
  BY PoolAssumption DEF IInv, Numbered
<1>4. Numbered'
  <2>1. queue \in [Worker -> Seq(1 .. k)]
    BY <1>3 DEF IInv, Numbered
  <2>. QED  BY <1>1, <1>3, <2>1 DEF IInv, Numbered
<1>5. /\ \A u \in Thread : at'[u] = IF u = t THEN p ELSE at[u]
      /\ \A u \in Thread : giving'[u] = IF u = t THEN k ELSE giving[u]
  BY <1>1, <1>2 DEF IInv, Numbered, Located
<1>6. Submitters' = Submitters \cup {t} /\ t \notin Submitters
  BY <1>2, <1>5 DEF Submitters, SubmitPlaces, Home
<1>7. HandsMatchPlaces'
  <2>1. \A x \in Worker : x \in Thread /\ (x = t => at[x] = "running")
    BY <1>2, Numbers DEF Home
  <2>2. k # NoTask
    BY <1>3 DEF NoTask
  <2>. QED  BY <1>1, <1>5, <1>6, <2>1, <2>2 DEF IInv, HandsMatchPlaces, CallingPlaces, CallPlaces
<1>8. CounterMatchesHistory'
  <2>1. Cardinality(done) \in Nat
    BY DoneFinite DEF IInv
  <2>. QED  BY <1>1, <1>3, <2>1 DEF IInv, CounterMatchesHistory
<1>9. \A x \in Worker : Queued(x)' = Queued(x)
  BY <1>1 DEF Queued
<1>10. QueuesAlive' => QueuesAlive
  <2>1. at[Main] \in {"joining", "gone"} => at'[Main] = at[Main]
    BY <1>2, <1>5, Numbers DEF Home
  <2>2. \A u \in Thread : at[u] = "undefined" => at'[u] = "undefined"
    BY <1>2, <1>5 DEF Home
  <2>. QED  BY <2>1, <2>2 DEF QueuesAlive
<1>11. TaskPlaces'
  <2>. USE <1>1, <1>5, <1>9 DEF IInv, TaskPlaces
  <2>0. k \notin done /\ \A x \in Worker : k \notin Queued(x) /\ k # hand[x]
    BY <1>3 DEF Numbered, Queued, ToSet
  <2>1. \A u \in Thread : giving[u] # k
    BY <1>3 DEF Numbered
  <2>2. \A u \in Submitters' :
          /\ giving'[u] \notin done'
          /\ \A x \in Worker : giving'[u] \notin Queued(x)' /\ giving'[u] # hand'[x]
          /\ \A y \in Submitters' : giving'[y] = giving'[u] => y = u
    <3>1. \A u \in Submitters : u \in Thread
      BY DEF Submitters
    <3>. QED  BY <1>6, <2>0, <2>1, <3>1
  <2>3. ASSUME QueuesAlive', NEW q \in 1 .. created'
        PROVE  \/ q \in done'
               \/ \E x \in Worker : q \in Queued(x)' \/ q = hand'[x]
               \/ \E u \in Submitters' : q = giving'[u]
    <3>1. CASE q = k
      BY <1>6, <3>1
    <3>2. CASE q # k
      <4>1. q \in 1 .. created
        BY <1>3, <3>2
      <4>2. \A u \in Submitters : giving'[u] = giving[u]
        BY <1>6 DEF Submitters
      <4>. QED  BY <1>6, <1>10, <2>3, <4>1, <4>2
    <3>. QED  BY <3>1, <3>2
  <2>. QED  BY <2>2, <2>3
<1>. QED  BY <1>4, <1>7, <1>8, <1>11 DEF Placed

\* A submitted task is queued.
LEMMA PushKeepsTasks ==
  ASSUME IInv, NEW t \in Thread, Push(t)
  PROVE  Placed'
<1>1. PICK v, k : /\ v \in Worker /\ v = scan[t] /\ k = giving[t]
                  /\ queue' = [queue EXCEPT ![v] = Append(@, k)]
  BY DEF Push, IInv, Located
<1>2. UNCHANGED <<activeTasks, hand, giving, created, direct, done>>
  BY DEF Push, history
<1>3. PICK p : /\ at' = [at EXCEPT ![t] = p]
               /\ \/ at[t] = "pushing" /\ p = "notify"
                  \/ at[t] = "pushingTo" /\ p = "notifyTo"
  BY DEF Push, Goto
<1>4. \A u \in Thread : at'[u] = IF u = t THEN p ELSE at[u]
  BY <1>3 DEF IInv, Located
<1>5. t \in Submitters /\ Submitters' = Submitters \ {t}
  BY <1>3, <1>4 DEF Submitters, SubmitPlaces
<1>6. k \in 1 .. created
  BY <1>1, <1>5 DEF IInv, Numbered, HandsMatchPlaces, NoTask
<1>7. PICK s : /\ s = Append(queue[v], k) /\ s \in Seq(1 .. created) /\ IsInjective(s)
               /\ ToSet(s) = Queued(v) \cup {k}
  <2>1. queue[v] \in Seq(1 .. created) /\ IsInjective(queue[v]) /\ ~Contains(queue[v], k)
    <3>1. queue[v] \in Seq(1 .. created) /\ IsInjective(queue[v]) /\ k \notin Queued(v)
      BY <1>1, <1>5 DEF IInv, Numbered, TaskPlaces
    <3>. QED  BY <3>1, ContainsIsToSet DEF Queued
  <2>2. /\ Append(queue[v], k) \in Seq(1 .. created) /\ IsInjective(Append(queue[v], k))
        /\ \A x : Contains(Append(queue[v], k), x) <=> x = k \/ Contains(queue[v], x)
    BY <1>6, <2>1, PushBackProperties
  <2>3. /\ \A x : x \in ToSet(queue[v]) <=> Contains(queue[v], x)
        /\ \A x : x \in ToSet(Append(queue[v], k)) <=> Contains(Append(queue[v], k), x)
    BY <2>1, <2>2, ContainsIsToSet
  <2>. QED  BY <2>2, <2>3 DEF Queued
<1>8. queue' = [queue EXCEPT ![v] = s]
  BY <1>1, <1>7
<1>9. Numbered'
  BY <1>2, <1>7, <1>8 DEF IInv, Numbered
<1>10. HandsMatchPlaces'
  <2>1. \A x \in Worker : x \in Thread
    BY Numbers
  <2>. QED  BY <1>2, <1>3, <1>4, <1>5, <2>1 DEF IInv, HandsMatchPlaces, CallingPlaces, CallPlaces
<1>11. CounterMatchesHistory'
  BY <1>2 DEF IInv, CounterMatchesHistory
<1>12. /\ \A x \in Worker : Queued(x)' = IF x = v THEN Queued(x) \cup {k} ELSE Queued(x)
       /\ \A x \in Worker : IsInjective(queue'[x])
  <2>1. \A x \in Worker : IsInjective(queue[x])
    BY DEF IInv, TaskPlaces
  <2>2. \A x \in Worker : queue'[x] = IF x = v THEN s ELSE queue[x]
    BY <1>8 DEF IInv, Numbered
  <2>. QED  BY <1>7, <2>1, <2>2 DEF Queued
<1>13. QueuesAlive' => QueuesAlive
  <2>1. at[Main] \in {"joining", "gone"} => at'[Main] = at[Main]
    BY <1>3, <1>4, Numbers
  <2>2. \A u \in Thread : at[u] = "undefined" => at'[u] = "undefined"
    BY <1>3, <1>4
  <2>. QED  BY <2>1, <2>2 DEF QueuesAlive
<1>14. TaskPlaces'
  <2>. USE <1>2, <1>12 DEF IInv, TaskPlaces
  <2>1. k \notin done /\ \A x \in Worker : k \notin Queued(x) /\ k # hand[x]
    BY <1>1, <1>5
  <2>2. \A u \in Submitters' : u \in Submitters /\ giving[u] # k
    BY <1>1, <1>5
  <2>3. \A x \in Worker : \A q \in Queued(x)' :
          /\ q \notin done'
          /\ \A y \in Worker : q # hand'[y] /\ (q \in Queued(y)' => y = x)
    BY <2>1
  <2>4. \A u \in Submitters' :
          /\ giving'[u] \notin done'
          /\ \A x \in Worker : giving'[u] \notin Queued(x)' /\ giving'[u] # hand'[x]
          /\ \A y \in Submitters' : giving'[y] = giving'[u] => y = u
    BY <2>2
  <2>5. ASSUME QueuesAlive', NEW q \in 1 .. created'
        PROVE  \/ q \in done'
               \/ \E x \in Worker : q \in Queued(x)' \/ q = hand'[x]
               \/ \E u \in Submitters' : q = giving'[u]
    <3>1. CASE q = k
      BY <1>1, <3>1
    <3>2. CASE q # k
      <4>1. \/ q \in done
            \/ \E x \in Worker : q \in Queued(x) \/ q = hand[x]
            \/ \E u \in Submitters : q = giving[u]
        BY <1>13, <2>5
      <4>2. \A u \in Submitters : q = giving[u] => u \in Submitters'
        BY <1>1, <1>5, <3>2
      <4>. QED  BY <4>1, <4>2
    <3>. QED  BY <3>1, <3>2
  <2>. QED  BY <2>3, <2>4, <2>5
<1>. QED  BY <1>9, <1>10, <1>11, <1>14 DEF Placed
-----------------------------------------------------------------------------
(***************************************************************************)
(* The invariant.                                                          *)
(***************************************************************************)
\* Where the threads are after a step that is not quiet.
LEMMA LoudSteps ==
  ASSUME IInv
  PROVE  /\ \A w \in Worker :
              \/ PopOwn(w) /\ queue[w] # << >>
              \/ Steal(w) /\ queue[scan[w]] # << >>
              \/ Finish(w)
              => Located' /\ UndefinedWhileFreeing' /\ NotYetStarted'
         /\ \A t \in Thread :
              Submit(t) \/ (\E w \in Worker : SubmitToWorker(t, w)) \/ Push(t)
              => Located' /\ UndefinedWhileFreeing' /\ NotYetStarted'
<1>0. /\ Located /\ UndefinedWhileFreeing /\ NotYetStarted
      /\ 0 \in Worker
  BY Numbers DEF IInv
<1>1. ASSUME NEW w \in Worker, at[w] \in {"popping", "stealing", "running"},
             NEW p \in {"running", "top", "signal", "signalLocked"},
             at' = [at EXCEPT ![w] = p], scan' = scan \/ scan' = [scan EXCEPT ![w] = 0]
      PROVE  Located' /\ UndefinedWhileFreeing' /\ NotYetStarted'
  BY <1>0, <1>1, Numbers
     DEF Located, UndefinedWhileFreeing, NotYetStarted, WorkerPlaces, CallPlaces, MainPlaces
<1>2. ASSUME NEW t \in Thread, NEW p \in {"index", "lockTo", "notify", "notifyTo"},
             NEW w \in Worker,
             at[t] \in {Home(t), "pushing", "pushingTo"}, at' = [at EXCEPT ![t] = p],
             scan' = scan \/ scan' = [scan EXCEPT ![t] = w]
      PROVE  Located' /\ UndefinedWhileFreeing' /\ NotYetStarted'
  BY <1>0, <1>2, Numbers
     DEF Located, UndefinedWhileFreeing, NotYetStarted, WorkerPlaces, CallPlaces, MainPlaces, Home
<1>3. ASSUME NEW w \in Worker, PopOwn(w), queue[w] # << >>
      PROVE  Located' /\ UndefinedWhileFreeing' /\ NotYetStarted'
  <2>1. at[w] = "popping" /\ at' = [at EXCEPT ![w] = "running"] /\ scan' = [scan EXCEPT ![w] = 0]
    BY <1>3, Zenon DEF PopOwn
  <2>. QED  BY <1>1, <2>1
<1>4. ASSUME NEW w \in Worker, Steal(w), queue[scan[w]] # << >>
      PROVE  Located' /\ UndefinedWhileFreeing' /\ NotYetStarted'
  <2>1. at[w] = "stealing" /\ at' = [at EXCEPT ![w] = "running"] /\ scan' = [scan EXCEPT ![w] = 0]
    BY <1>4, Zenon DEF Steal, Stealable
  <2>. QED  BY <1>1, <2>1
<1>5. ASSUME NEW w \in Worker, Finish(w)
      PROVE  Located' /\ UndefinedWhileFreeing' /\ NotYetStarted'
  <2>1. PICK p \in {"top", "signal", "signalLocked"} : at' = [at EXCEPT ![w] = p]
    BY <1>5 DEF Finish
  <2>2. at[w] = "running" /\ scan' = scan
    BY <1>5 DEF Finish
  <2>. QED  BY <1>1, <2>1, <2>2
<1>6. ASSUME NEW t \in Thread, Submit(t)
      PROVE  Located' /\ UndefinedWhileFreeing' /\ NotYetStarted'
  BY <1>0, <1>2, <1>6 DEF Submit, Goto
<1>7. ASSUME NEW t \in Thread, NEW w \in Worker, SubmitToWorker(t, w)
      PROVE  Located' /\ UndefinedWhileFreeing' /\ NotYetStarted'
  BY <1>2, <1>7 DEF SubmitToWorker, Goto
<1>8. ASSUME NEW t \in Thread, Push(t)
      PROVE  Located' /\ UndefinedWhileFreeing' /\ NotYetStarted'
  <2>1. /\ \/ at[t] = "pushing" /\ at' = [at EXCEPT ![t] = "notify"]
           \/ at[t] = "pushingTo" /\ at' = [at EXCEPT ![t] = "notifyTo"]
        /\ scan' = scan
    BY <1>8 DEF Push, Goto
  <2>. QED  BY <1>0, <1>2, <2>1
<1>. QED  BY <1>3, <1>4, <1>5, <1>6, <1>7, <1>8

\* A worker takes the newest task of its own queue, or the oldest of another.
LEMMA TakeSteps ==
  ASSUME IInv, NEW w \in Worker
  PROVE  /\ PopOwn(w) /\ queue[w] # << >> => Placed'
         /\ Steal(w) /\ queue[scan[w]] # << >> => Placed'
<1>1. \A v \in Worker :
        /\ queue[v] \in Seq(1 .. created) /\ IsInjective(queue[v])
        /\ \A x : x \in Queued(v) <=> Contains(queue[v], x)
  <2>1. \A v \in Worker : queue[v] \in Seq(1 .. created) /\ IsInjective(queue[v])
    BY DEF IInv, Numbered, TaskPlaces
  <2>. QED  BY <2>1, ContainsIsToSet DEF Queued
<1>2. ASSUME PopOwn(w), queue[w] # << >>  PROVE Placed'
  <2>1. PICK s, k : s = Front(queue[w]) /\ k = Last(queue[w])
    OBVIOUS
  <2>2. /\ s \in Seq(1 .. created) /\ IsInjective(s)
        /\ k \in 1 .. created /\ Contains(queue[w], k)
        /\ \A x : Contains(s, x) <=> x # k /\ Contains(queue[w], x)
    BY <1>1, <1>2, <2>1, PopBackProperties
  <2>3. k \in Queued(w) /\ ToSet(s) = Queued(w) \ {k}
    <3>1. \A x : x \in ToSet(s) <=> Contains(s, x)
      BY <2>2, ContainsIsToSet
    <3>. QED  BY <1>1, <2>2, <3>1
  <2>4. /\ queue' = [queue EXCEPT ![w] = s] /\ hand' = [hand EXCEPT ![w] = k]
        /\ at[w] = "popping" /\ at' = [at EXCEPT ![w] = "running"]
        /\ UNCHANGED <<activeTasks, giving, created, direct, done>>
    BY <1>2, <2>1, Zenon DEF PopOwn, history
  <2>. QED  BY <2>2, <2>3, <2>4, TakeKeepsTasks
<1>3. ASSUME Steal(w), queue[scan[w]] # << >>  PROVE Placed'
  <2>0. PICK v \in Worker : v = scan[w]
    BY Numbers DEF IInv, Located
  <2>1. PICK s, k : s = Tail(queue[v]) /\ k = Head(queue[v])
    OBVIOUS
  <2>2. /\ s \in Seq(1 .. created) /\ IsInjective(s)
        /\ k \in 1 .. created /\ Contains(queue[v], k)
        /\ \A x : Contains(s, x) <=> x # k /\ Contains(queue[v], x)
    BY <1>1, <1>3, <2>0, <2>1, PopFrontProperties
  <2>3. k \in Queued(v) /\ ToSet(s) = Queued(v) \ {k}
    <3>1. \A x : x \in ToSet(s) <=> Contains(s, x)
      BY <2>2, ContainsIsToSet
    <3>. QED  BY <1>1, <2>2, <3>1
  <2>4. /\ queue' = [queue EXCEPT ![v] = s] /\ hand' = [hand EXCEPT ![w] = k]
        /\ at[w] = "stealing" /\ at' = [at EXCEPT ![w] = "running"]
        /\ UNCHANGED <<activeTasks, giving, created, direct, done>>
    BY <1>3, <2>0, <2>1, Zenon DEF Steal, Stealable, Stolen, history
  <2>. QED  BY <2>2, <2>3, <2>4, TakeKeepsTasks
<1>. QED  BY <1>2, <1>3

\* Every step of the system preserves the invariant.
LEMMA NextInvariant == IInv /\ [Next]_vars => IInv'
<1>. SUFFICES ASSUME IInv, [Next]_vars  PROVE IInv'
  OBVIOUS
<1>0. Located /\ Numbered /\ UndefinedWhileFreeing /\ NotYetStarted /\ submitIdx \in Worker
  BY DEF IInv
<1>1. ASSUME Quiet, UNCHANGED <<queue, activeTasks, hand, history>>, submitIdx' \in Worker
      PROVE  IInv'
  BY <1>1, QuietKeepsTasks DEF Placed, Quiet, IInv
<1>2. ASSUME Located' /\ UndefinedWhileFreeing' /\ NotYetStarted', Placed', submitIdx' = submitIdx
      PROVE  IInv'
  BY <1>0, <1>2 DEF Placed, IInv
<1>3. ASSUME NEW t \in Thread, CallStep(t)  PROVE IInv'
  <2>1. CASE LockQueue(t) \/ Notify(t) \/ Unlock(t) \/ UseFreed(t) \/ UseDestroyed(t)
    <3>1. UNCHANGED <<queue, activeTasks, hand, history, submitIdx>>
      BY <2>1 DEF LockQueue, Notify, Unlock, UseFreed, UseDestroyed, shared
    <3>. QED  BY <1>0, <1>1, <2>1, <3>1, QuietSteps
  <2>2. CASE Index(t)
    <3>1. UNCHANGED <<queue, activeTasks, hand, history>>
      BY <2>2 DEF Index
    <3>2. submitIdx' \in Worker
      <4>1. \A n \in Nat : \A m \in Nat : m >= 1 => n % m \in Nat /\ n % m < m
        OBVIOUS
      <4>2. submitIdx + 1 \in Nat
        BY <1>0, Numbers
      <4>. QED  BY <2>2, <4>1, <4>2, Numbers DEF Index, NextIndex
    <3>. QED  BY <1>0, <1>1, <2>2, <3>1, <3>2, QuietSteps
  <2>3. CASE Push(t)
    <3>1. submitIdx' = submitIdx
      BY <2>3 DEF Push
    <3>. QED  BY <1>2, <2>3, <3>1, LoudSteps, PushKeepsTasks
  <2>. QED  BY <1>3, <2>1, <2>2, <2>3 DEF CallStep
<1>4. ASSUME NEW w \in Worker, WorkerStep(w)  PROVE IInv'
  <2>1. CASE Top(w) \/ Signal(w) \/ TestStop(w) \/ TestOwn(w) \/ TestOther(w) \/ Block(w)
    <3>1. UNCHANGED <<queue, activeTasks, hand, history, submitIdx>>
      BY <2>1, Zenon DEF Top, Signal, TestStop, TestOwn, TestOther, Block, shared
    <3>. QED  BY <1>0, <1>1, <2>1, <3>1, QuietSteps
  <2>2. CASE PopOwn(w) /\ queue[w] = << >>
    <3>1. UNCHANGED <<queue, activeTasks, hand, history, submitIdx>>
      BY <2>2, Zenon DEF PopOwn
    <3>. QED  BY <1>0, <1>1, <2>2, <3>1, QuietSteps
  <2>3. CASE Steal(w) /\ queue[scan[w]] = << >>
    <3>1. UNCHANGED <<queue, activeTasks, hand, history, submitIdx>>
      BY <2>3, Zenon DEF Steal, Stealable
    <3>. QED  BY <1>0, <1>1, <2>3, <3>1, QuietSteps
  <2>4. CASE PopOwn(w) /\ queue[w] # << >>
    <3>1. submitIdx' = submitIdx
      BY <2>4, Zenon DEF PopOwn
    <3>. QED  BY <1>2, <2>4, <3>1, LoudSteps, TakeSteps
  <2>5. CASE Steal(w) /\ queue[scan[w]] # << >>
    <3>1. submitIdx' = submitIdx
      BY <2>5, Zenon DEF Steal
    <3>. QED  BY <1>2, <2>5, <3>1, LoudSteps, TakeSteps
  <2>6. CASE Finish(w)
    <3>1. submitIdx' = submitIdx
      BY <2>6 DEF Finish
    <3>. QED  BY <1>2, <2>6, <3>1, LoudSteps, FinishKeepsTasks
  <2>. QED  BY <1>4, <2>1, <2>2, <2>3, <2>4, <2>5, <2>6 DEF WorkerStep
<1>5. ASSUME MainStep \/ WaitAllTasksDone \/ Destroy  PROVE IInv'
  <2>1. CASE JoinAndFree
    <3>1. submitIdx' = submitIdx
      BY <2>1, Zenon DEF JoinAndFree
    <3>2. Quiet
      BY <1>0, <2>1, QuietSteps
    <3>. QED  BY <1>2, <2>1, <3>1, <3>2, FreeKeepsTasks DEF Quiet
  <2>2. CASE \/ Construct \/ StartWorker \/ TestDone \/ WaitBlock \/ RequestStop \/ NotifyAll
             \/ WaitAllTasksDone \/ Destroy
    <3>1. UNCHANGED <<queue, activeTasks, hand, history, submitIdx>>
      BY <2>2 DEF Construct, StartWorker, TestDone, WaitBlock, RequestStop, NotifyAll,
                  WaitAllTasksDone, Destroy, shared
    <3>. QED  BY <1>0, <1>1, <2>2, <3>1, QuietSteps
  <2>. QED  BY <1>5, <2>1, <2>2 DEF MainStep
<1>6. ASSUME NEW t \in Thread, SpuriousWakeup(t)  PROVE IInv'
  <2>1. UNCHANGED <<queue, activeTasks, hand, history, submitIdx>>
    BY <1>6 DEF SpuriousWakeup, shared
  <2>. QED  BY <1>0, <1>1, <1>6, <2>1, QuietSteps
<1>7. ASSUME NEW t \in Thread, Submit(t)  PROVE IInv'
  <2>1. Placed'
    BY <1>7, CountKeepsTasks DEF Submit
  <2>2. submitIdx' = submitIdx
    BY <1>7 DEF Submit, Count
  <2>. QED  BY <1>2, <1>7, <2>1, <2>2, LoudSteps
<1>8. ASSUME NEW t \in Thread, NEW w \in Worker, SubmitToWorker(t, w)  PROVE IInv'
  <2>1. Placed'
    BY <1>8, CountKeepsTasks DEF SubmitToWorker
  <2>2. submitIdx' = submitIdx
    BY <1>8 DEF SubmitToWorker, Count
  <2>. QED  BY <1>2, <1>8, <2>1, <2>2, LoudSteps
<1>9. CASE UNCHANGED vars
  <2>1. UNCHANGED <<queue, submitIdx, activeTasks, at, scan, hand, giving, created, direct, done>>
    BY <1>9 DEF vars, shared, history
  <2>2. TaskPlaces'
    BY <2>1 DEF IInv, TaskPlaces, Queued, Submitters, QueuesAlive
  <2>. QED  BY <2>1, <2>2 DEF IInv, Located, Numbered, HandsMatchPlaces, UndefinedWhileFreeing,
                              NotYetStarted, CounterMatchesHistory, Submitters
<1>. QED  BY <1>3, <1>4, <1>5, <1>6, <1>7, <1>8, <1>9 DEF Next, Step, Over
\* A pool under construction has the invariant.
LEMMA InitInvariant == Init => IInv
<1>. SUFFICES ASSUME Init  PROVE IInv
  OBVIOUS
<1>1. /\ \A w \in Worker : queue[w] = << >> /\ hand[w] = NoTask
      /\ \A t \in Thread : giving[t] = NoTask /\ scan[t] = 0
      /\ at[Main] = "appending" /\ \A w \in Worker : at[w] = "unstarted"
      /\ created = 0 /\ direct = {} /\ done = {} /\ activeTasks = 0 /\ submitIdx = 0
  BY Numbers DEF Init
<1>2. 0 \in Worker /\ \A t \in Thread : at[t] \in {"appending", "unstarted"}
  BY <1>1, Numbers
<1>3. Located
  BY <1>2, Numbers DEF Init, Located, WorkerPlaces, CallPlaces, MainPlaces
<1>4. Submitters = {}
  BY <1>2 DEF Submitters, SubmitPlaces
<1>5. Numbered
  <2>1. queue \in [Worker -> Seq(1 .. 0)] /\ NoTask \in 0 .. 0 /\ 0 \in 0 .. MaxTasks
    BY PoolAssumption DEF Init, NoTask
  <2>2. hand \in [Worker -> 0 .. 0] /\ giving \in [Thread -> 0 .. 0]
    BY <2>1 DEF Init
  <2>. QED  BY <1>1, <2>1, <2>2 DEF Numbered
<1>6. HandsMatchPlaces
  BY <1>1, <1>4 DEF HandsMatchPlaces, CallingPlaces, CallPlaces
<1>7. UndefinedWhileFreeing /\ NotYetStarted /\ submitIdx \in Worker
  BY <1>1, <1>2 DEF UndefinedWhileFreeing, NotYetStarted
<1>8. TaskPlaces
  <2>1. IsInjective(<< >>) /\ ToSet(<< >>) = {}
    BY DEF IsInjective, ToSet
  <2>2. \A w \in Worker : Queued(w) = {} /\ IsInjective(queue[w])
    BY <1>1, <2>1 DEF Queued
  <2>. QED  BY <1>1, <1>4, <2>2 DEF TaskPlaces
<1>9. CounterMatchesHistory
  BY <1>1, FS_EmptySet DEF CounterMatchesHistory
<1>. QED  BY <1>3, <1>5, <1>6, <1>7, <1>8, <1>9 DEF IInv

\* The invariant holds for ever.
THEOREM Invariant == Spec => []IInv
<1>. QED  BY InitInvariant, NextInvariant, PTL DEF Spec

-----------------------------------------------------------------------------
\* The members keep their types; activeTasks, an atomic int, never falls below zero and
\* every index is that of a worker.
THEOREM TypeCorrect == Spec => []TypeOK
<1>1. IInv => TypeOK
  <2>. SUFFICES ASSUME IInv  PROVE TypeOK
    OBVIOUS
  <2>1. created \in Nat /\ created <= MaxTasks /\ MaxTasks \in Nat
    BY PoolAssumption DEF IInv, Numbered
  <2>2. 1 .. created \subseteq Task /\ 0 .. created \subseteq Task \cup {NoTask}
    BY <2>1 DEF Task, NoTask
  <2>3. queue \in [Worker -> Seq(Task)]
    BY <2>2 DEF IInv, Numbered
  <2>4. activeTasks \in 0 .. MaxTasks
    BY <2>1, DoneFinite DEF IInv, CounterMatchesHistory
  <2>5. /\ hand \in [Worker -> Task \cup {NoTask}] /\ giving \in [Thread -> Task \cup {NoTask}]
        /\ direct \subseteq Task /\ done \subseteq Task
    BY <2>2 DEF IInv, Numbered
  <2>. QED  BY <2>3, <2>4, <2>5 DEF IInv, Located, Numbered, TypeOK
<1>. QED  BY <1>1, Invariant, PTL

\* A task is in one queue, or run by one worker, or being submitted, or done: never
\* at two places, and at none only when the destructor has dropped it.
THEOREM TasksAlwaysPlaced == Spec => []TaskPlaces
<1>1. IInv => TaskPlaces
  BY DEF IInv
<1>. QED  BY <1>1, Invariant, PTL

\* The numbers of the tasks at the various places.
LEMMA NumbersOfTasks ==
  ASSUME IInv
  PROVE  /\ created \in Nat /\ created <= MaxTasks
         /\ \A w \in Worker : \A k \in Queued(w) : k \in (1 .. created) \ done
         /\ \A w \in Worker : hand[w] # NoTask => hand[w] \in (1 .. created) \ done
         /\ \A t \in Submitters : giving[t] \in (1 .. created) \ done
<1>1. created \in Nat /\ created <= MaxTasks
  BY PoolAssumption DEF IInv, Numbered
<1>2. ASSUME NEW w \in Worker, NEW k \in Queued(w)  PROVE k \in (1 .. created) \ done
  <2>1. k \in 1 .. created
    BY DEF IInv, Numbered, Queued, ToSet
  <2>. QED  BY <2>1 DEF IInv, TaskPlaces
<1>3. \A w \in Worker : hand[w] # NoTask => hand[w] \in (1 .. created) \ done
  BY <1>1 DEF IInv, Numbered, TaskPlaces, NoTask
<1>4. \A t \in Submitters : giving[t] \in (1 .. created) \ done
  <2>1. \A t \in Submitters : giving[t] \in 0 .. created /\ giving[t] # 0
    BY DEF IInv, Numbered, HandsMatchPlaces, Submitters, NoTask
  <2>. QED  BY <1>1, <2>1 DEF IInv, TaskPlaces
<1>. QED  BY <1>1, <1>2, <1>3, <1>4

\* The elements of Unfinished.
LEMMA UnfinishedElements ==
  \A k : k \in Unfinished <=> \/ \E w \in Worker : k \in Queued(w)
                              \/ \E w \in Worker : hand[w] # NoTask /\ k = hand[w]
                              \/ \E t \in Submitters : k = giving[t]
<1> DEFINE A == UNION {Queued(w) : w \in Worker}
           B == {hand[w] : w \in {v \in Worker : hand[v] # NoTask}}
           C == {giving[t] : t \in Submitters}
<1>1. Unfinished = A \cup B \cup C
  BY DEF Unfinished
<1>2. \A k : k \in A <=> \E w \in Worker : k \in Queued(w)
  OBVIOUS
<1>3. \A k : k \in B <=> \E w \in Worker : hand[w] # NoTask /\ k = hand[w]
  OBVIOUS
<1>4. \A k : k \in C <=> \E t \in Submitters : k = giving[t]
  OBVIOUS
<1>. HIDE DEF A, B, C
<1>6. \A k : k \in Unfinished <=> k \in A \/ k \in B \/ k \in C
  BY <1>1
<1>. QED  BY <1>2, <1>3, <1>4, <1>6, Zenon

\* activeTasks is the number of tasks that are not finished.  By the invariant these
\* are the tasks counted and not yet done, which is what the counter has counted.
THEOREM ActiveTasksAlwaysExact == Spec => []ActiveTasksExact
<1>1. IInv => ActiveTasksExact
  <2>. SUFFICES ASSUME IInv, QueuesAlive  PROVE activeTasks = Cardinality(Unfinished)
    BY DEF ActiveTasksExact
  <2>1. created \in Nat /\ IsFiniteSet(done) /\ Cardinality(done) \in Nat
    BY PoolAssumption, DoneFinite DEF IInv, Numbered
  <2>2. ASSUME NEW k \in Unfinished  PROVE k \in (1 .. created) \ done
    BY UnfinishedElements, NumbersOfTasks
  <2>3. ASSUME NEW k \in (1 .. created) \ done  PROVE k \in Unfinished
    <3>1. \/ \E w \in Worker : k \in Queued(w) \/ k = hand[w]
          \/ \E t \in Submitters : k = giving[t]
      BY <2>3 DEF IInv, TaskPlaces
    <3>2. k # NoTask
      BY DEF NoTask
    <3>. QED  BY <3>1, <3>2, UnfinishedElements
  <2>4. Unfinished = (1 .. created) \ done
    BY <2>2, <2>3
  <2>5. IsFiniteSet(1 .. created) /\ Cardinality(1 .. created) = created
    BY <2>1, FS_Interval
  <2>6. Cardinality((1 .. created) \ done) = created - Cardinality((1 .. created) \cap done)
    BY <2>5, FS_Difference
  <2>7. (1 .. created) \cap done = done
    BY DEF IInv, Numbered
  <2>. QED  BY <2>4, <2>6, <2>7 DEF IInv, CounterMatchesHistory
<1>. QED  BY <1>1, Invariant, PTL

\* The wait of the main thread ends where its predicate is evaluated, nowhere else.
LEMMA OnlyTestDoneEndsWait ==
  ASSUME IInv, [Next]_vars, at[Main] = "wait", at'[Main] = "ready"
  PROVE  TestDone
<1>0. Located /\ Main \in Thread
  BY Numbers DEF IInv
<1>. USE <1>0, Numbers DEF Located, Goto
<1>1. ASSUME NEW t \in Thread, CallStep(t)  PROVE FALSE
  <2>1. ASSUME Notify(t)  PROVE FALSE
    <3>1. PICK woken \in WakeOne : \E p : at' = [woken EXCEPT ![t] = p]
      BY <2>1 DEF Notify
    <3>2. t # Main
      BY <2>1 DEF Notify
    <3>3. woken = at \/ \E w \in Worker : woken = [at EXCEPT ![w] = "idle"]
      BY DEF WakeOne, Asleep
    <3>. QED  BY <3>1, <3>2, <3>3
  <2>2. ASSUME Index(t) \/ LockQueue(t)  PROVE FALSE
    BY <2>2 DEF Index, LockQueue
  <2>3. ASSUME Push(t) \/ Unlock(t)  PROVE FALSE
    BY <2>3 DEF Push, Unlock
  <2>4. ASSUME UseFreed(t)  PROVE FALSE
    BY <2>4 DEF UseFreed, HoldsQueue, WantsQueue
  <2>5. ASSUME UseDestroyed(t)  PROVE FALSE
    BY <2>5 DEF UseDestroyed
  <2>. QED  BY <1>1, <2>1, <2>2, <2>3, <2>4, <2>5 DEF CallStep
<1>2. ASSUME NEW w \in Worker, WorkerStep(w)  PROVE FALSE
  <2>1. ASSUME NEW p, NEW m,
               \/ at' = [at EXCEPT ![w] = p]
               \/ at' = [at EXCEPT ![w] = p, ![Main] = at[Main]]
        PROVE  FALSE
    BY <2>1
  <2>2. CASE Top(w) \/ Finish(w) \/ TestStop(w) \/ Block(w)
    BY <2>1, <2>2 DEF Top, Finish, TestStop, Block
  <2>3. CASE Signal(w)
    BY <2>1, <2>3 DEF Signal
  <2>4. CASE PopOwn(w)
    BY <2>1, <2>4, Zenon DEF PopOwn, ScanTo
  <2>5. CASE Steal(w)
    BY <2>1, <2>5, Zenon DEF Steal, ScanTo
  <2>6. CASE TestOwn(w)
    BY <2>1, <2>6, Zenon DEF TestOwn, ScanTo
  <2>7. CASE TestOther(w)
    BY <2>1, <2>7, Zenon DEF TestOther, ScanTo
  <2>. QED  BY <1>2, <2>2, <2>3, <2>4, <2>5, <2>6, <2>7 DEF WorkerStep
<1>3. ASSUME MainStep  PROVE TestDone
  BY <1>3, Zenon DEF MainStep, Construct, StartWorker, WaitBlock, RequestStop, NotifyAll,
                     JoinAndFree
<1>4. ASSUME NEW t \in Thread, SpuriousWakeup(t) \/ Submit(t)  PROVE FALSE
  BY <1>4 DEF SpuriousWakeup, Submit, Home
<1>5. ASSUME NEW t \in Thread, NEW w \in Worker, SubmitToWorker(t, w)  PROVE FALSE
  BY <1>5 DEF SubmitToWorker, Home
<1>6. ASSUME WaitAllTasksDone \/ Destroy  PROVE FALSE
  BY <1>6 DEF WaitAllTasksDone, Destroy
<1>7. ASSUME UNCHANGED vars  PROVE FALSE
  BY <1>7 DEF vars
<1>. QED  BY <1>1, <1>2, <1>3, <1>4, <1>5, <1>6, <1>7 DEF Next, Step, Over

\* Where the wait ends, activeTasks is zero, so that all tasks counted are done.
LEMMA WaitEndsDone ==
  ASSUME IInv, [Next]_vars, at[Main] = "wait", at'[Main] = "ready"
  PROVE  /\ 1 .. created \subseteq done
         /\ \A w \in Worker : queue[w] = << >> /\ at[w] # "running"
<1>1. activeTasks = 0
  BY OnlyTestDoneEndsWait DEF TestDone, AllDone, Goto, IInv, Located
<1>2. created \in Nat /\ IsFiniteSet(1 .. created) /\ Cardinality(1 .. created) = created
  <2>1. created \in Nat
    BY NumbersOfTasks
  <2>. QED  BY <2>1, FS_Interval
<1>3. done \in SUBSET (1 .. created) /\ Cardinality(done) = created
  <2>1. activeTasks = created - Cardinality(done) /\ Cardinality(done) \in 0 .. created
    BY DoneFinite DEF IInv, CounterMatchesHistory
  <2>2. done \in SUBSET (1 .. created)
    BY DEF IInv, Numbered
  <2>. QED  BY <1>1, <1>2, <2>1, <2>2
<1>4. done = 1 .. created
  BY <1>2, <1>3, FS_Subset
<1>5. ASSUME NEW w \in Worker  PROVE queue[w] = << >>
  <2>1. queue[w] \in Seq(1 .. created)
    BY DEF IInv, Numbered
  <2>2. Queued(w) = {}
    BY <1>4, NumbersOfTasks
  <2>3. \A x : ~Contains(queue[w], x)
    BY <2>1, <2>2, ContainsIsToSet DEF Queued
  <2>. QED  BY <2>1, <2>3, EmptyContains
<1>6. \A w \in Worker : at[w] # "running"
  <2>1. \A w \in Worker : hand[w] = NoTask
    BY <1>4, NumbersOfTasks
  <2>. QED  BY <2>1 DEF IInv, HandsMatchPlaces
<1>. QED  BY <1>4, <1>5, <1>6

\* WaitAllTasksDone returns only when every task is finished, those that tasks have
\* submitted included.
THEOREM WaitAlwaysMeansDone == Spec => WaitMeansDone
<1>1. IInv /\ [Next]_vars =>
        [at[Main] = "wait" /\ at'[Main] = "ready" =>
           /\ 1 .. created \subseteq done
           /\ \A w \in Worker : queue[w] = << >> /\ at[w] # "running"]_vars
  BY WaitEndsDone
<1>. QED  BY <1>1, Invariant, PTL DEF Spec, WaitMeansDone

-----------------------------------------------------------------------------
(***************************************************************************)
(* The trees of both encryptors: a node is a path, and a parent has all the*)
(* children up to its arity.                                               *)
(***************************************************************************)

Child(n, i) == Append(n, i)

\* The nodes are the paths that are short enough.
LEMMA NodesArePaths ==
  \A n : n \in Nodes <=> n \in Seq(1 .. MaxChildren) /\ Len(n) <= MaxDepth
<1>1. ASSUME NEW n, n \in Nodes  PROVE n \in Seq(1 .. MaxChildren) /\ Len(n) <= MaxDepth
  <2>1. PICK d \in 0 .. MaxDepth : n \in [1 .. d -> 1 .. MaxChildren]
    BY <1>1 DEF Nodes
  <2>2. n \in Seq(1 .. MaxChildren) /\ Len(n) = d
    BY <2>1, TreeAssumption
  <2>. QED  BY <2>2, TreeAssumption
<1>2. ASSUME NEW n, n \in Seq(1 .. MaxChildren), Len(n) <= MaxDepth  PROVE n \in Nodes
  <2>1. n \in [1 .. Len(n) -> 1 .. MaxChildren] /\ Len(n) \in 0 .. MaxDepth
    BY <1>2, TreeAssumption, LenProperties
  <2>. QED  BY <2>1 DEF Nodes
<1>. QED  BY <1>1, <1>2

\* A path is its parent's with its own place appended, and only so.
LEMMA PathParent ==
  ASSUME NEW S, NEW n \in Seq(S), n # Root
  PROVE  /\ Parent(n) \in Seq(S) /\ Last(n) \in S
         /\ Len(Parent(n)) = Len(n) - 1
         /\ n = Child(Parent(n), Last(n))
<1>1. Len(n) \in Nat /\ Len(n) >= 1
  BY EmptySeq DEF Root
<1>2. PICK p \in Seq(S) : p = Parent(n) /\ Len(p) = Len(n) - 1 /\ \A i \in 1..Len(p) : p[i] = n[i]
  BY FrontElements DEF Parent, Root
<1>3. PICK e \in S : e = Last(n) /\ e = n[Len(n)]
  BY <1>1 DEF Last
<1>4. n = Append(p, e)
  <2>1. PICK m \in Seq(S) : m = Append(p, e)
    BY AppendProperties
  <2>2. Len(m) = Len(p) + 1 /\ (\A i \in 1 .. Len(p) : m[i] = p[i]) /\ m[Len(p) + 1] = e
    BY <2>1, AppendProperties
  <2>3. ASSUME NEW i \in 1 .. Len(n)  PROVE n[i] = m[i]
    <3>1. CASE i = Len(n)
      BY <1>1, <1>2, <1>3, <2>2, <3>1
    <3>2. CASE i # Len(n)
      BY <1>1, <1>2, <2>2, <3>2
    <3>. QED  BY <3>1, <3>2
  <2>. QED  BY <1>1, <1>2, <2>1, <2>2, <2>3, SeqEqual
<1>. QED  BY <1>2, <1>3, <1>4 DEF Child

\* A child's path, taken apart.
LEMMA PathChild ==
  ASSUME NEW S, NEW n \in Seq(S), NEW i \in S
  PROVE  /\ Child(n, i) \in Seq(S) /\ Child(n, i) # Root
         /\ Parent(Child(n, i)) = n /\ Last(Child(n, i)) = i
         /\ Len(Child(n, i)) = Len(n) + 1
<1>1. PICK m \in Seq(S) : m = Child(n, i)
  BY AppendProperties DEF Child
<1>2. /\ Len(m) = Len(n) + 1 /\ Len(n) \in Nat
      /\ \A j \in 1 .. Len(n) : m[j] = n[j]
      /\ m[Len(n) + 1] = i
  BY <1>1, AppendProperties DEF Child
<1>3. m # Root
  BY <1>2, EmptySeq DEF Root
<1>4. /\ Parent(m) \in Seq(S) /\ Len(Parent(m)) = Len(m) - 1
      /\ \A j \in 1 .. Len(Parent(m)) : Parent(m)[j] = m[j]
  BY <1>3, FrontElements DEF Parent, Root
<1>5. Parent(m) = n
  <2>1. Len(Parent(m)) = Len(n)
    BY <1>2, <1>4
  <2>2. \A j \in 1 .. Len(n) : Parent(m)[j] = n[j]
    BY <1>2, <1>4, <2>1
  <2>. QED  BY <1>4, <2>1, <2>2, SeqEqual
<1>6. Last(m) = i
  BY <1>2 DEF Last
<1>. QED  BY <1>1, <1>2, <1>3, <1>5, <1>6

\* A set of numbers from 1 that has with a number all the smaller ones counts them.
LEMMA Initial ==
  ASSUME NEW n \in Nat, NEW S, S \subseteq 1 .. n,
         \A i \in S : \A j \in 1 .. i : j \in S
  PROVE  Cardinality(S) \in 0 .. n /\ S = 1 .. Cardinality(S)
<1> DEFINE T == {j \in 1 .. n + 1 : j \notin S}
<1>1. T \subseteq 1 .. n + 1 /\ n + 1 \in T
  OBVIOUS
<1>2. Min(T) \in T /\ \A y \in T : Min(T) <= y
  <2>. HIDE DEF T
  <2>1. 1 \in Int /\ n + 1 \in Int /\ T # {}
    BY <1>1
  <2>. QED  BY <1>1, <2>1, MinOfInterval, Zenon
<1>3. PICK m \in 1 .. n + 1 : m \notin S /\ \A y \in 1 .. n + 1 : y \notin S => m <= y
  BY <1>2
<1>4. S = 1 .. m - 1
  <2>1. ASSUME NEW i \in S  PROVE i \in 1 .. m - 1
    <3>1. i \in 1 .. n /\ (m <= i => m \in 1 .. i)
      BY <1>3
    <3>. QED  BY <1>3, <3>1
  <2>2. ASSUME NEW i \in 1 .. m - 1  PROVE i \in S
    BY <1>3
  <2>. QED  BY <2>1, <2>2
<1>5. Cardinality(1 .. m - 1) = m - 1
  BY <1>3, FS_Interval
<1>. QED  BY <1>3, <1>4, <1>5

-----------------------------------------------------------------------------
\* Root, parents, and children, in any tree.
LEMMA TreeShape ==
  ASSUME NEW t \in Trees
  PROVE  /\ Root \in t
         /\ \A n \in t : /\ n \in Seq(1 .. MaxChildren) /\ Len(n) \in 0 .. MaxDepth
                         /\ Arity(t, n) \in Nat
                         /\ \A i \in 1 .. Arity(t, n) :
                              /\ Child(n, i) \in t /\ Child(n, i) # Root
                              /\ Parent(Child(n, i)) = n /\ Last(Child(n, i)) = i
                              /\ Len(Child(n, i)) = Len(n) + 1
         /\ \A n \in t \ {Root} : /\ Parent(n) \in t /\ Len(Parent(n)) = Len(n) - 1
                                  /\ Last(n) \in 1 .. Arity(t, Parent(n))
                                  /\ n = Child(Parent(n), Last(n))
<1>1. t \subseteq Nodes /\ IsTree(t)
  BY DEF Trees
<1>2. Root \in t
  BY <1>1 DEF IsTree
<1>3. \A n \in t : n \in Seq(1 .. MaxChildren) /\ Len(n) \in 0 .. MaxDepth
  <2>. SUFFICES ASSUME NEW n \in t
                PROVE n \in Seq(1 .. MaxChildren) /\ Len(n) \in 0 .. MaxDepth
    OBVIOUS
  <2>1. n \in Seq(1 .. MaxChildren) /\ Len(n) <= MaxDepth
    BY <1>1, NodesArePaths
  <2>2. Len(n) \in Nat
    BY <2>1, LenProperties
  <2>. QED  BY <2>1, <2>2, TreeAssumption
<1>4. ASSUME NEW n \in t \ {Root}
      PROVE  /\ Parent(n) \in t /\ Len(Parent(n)) = Len(n) - 1
             /\ Last(n) \in 1 .. MaxChildren
             /\ n = Child(Parent(n), Last(n))
             /\ \A i \in 1 .. Last(n) : Child(Parent(n), i) \in t
  <2>1. Parent(n) \in t /\ \A i \in 1 .. Last(n) : Child(Parent(n), i) \in t
    BY <1>1 DEF IsTree, Child
  <2>2. n \in Seq(1 .. MaxChildren)
    BY <1>3
  <2>. QED  BY <2>1, <2>2, PathParent
<1>5. \A n \in t : \A i \in 1 .. MaxChildren :
        /\ Child(n, i) # Root
        /\ Parent(Child(n, i)) = n /\ Last(Child(n, i)) = i
        /\ Len(Child(n, i)) = Len(n) + 1
  <2>. SUFFICES ASSUME NEW n \in t, NEW i \in 1 .. MaxChildren
                PROVE  /\ Child(n, i) # Root
                       /\ Parent(Child(n, i)) = n /\ Last(Child(n, i)) = i
                       /\ Len(Child(n, i)) = Len(n) + 1
    OBVIOUS
  <2>. n \in Seq(1 .. MaxChildren)
    BY <1>3
  <2>. QED  BY PathChild
<1>6. \A n \in t : /\ Arity(t, n) \in 0 .. MaxChildren
                   /\ {i \in 1 .. MaxChildren : Child(n, i) \in t} = 1 .. Arity(t, n)
  <2>. SUFFICES ASSUME NEW n \in t
                PROVE  /\ Arity(t, n) \in 0 .. MaxChildren
                       /\ {i \in 1 .. MaxChildren : Child(n, i) \in t} = 1 .. Arity(t, n)
    OBVIOUS
  <2> DEFINE S == {i \in 1 .. MaxChildren : Child(n, i) \in t}
  <2>1. Arity(t, n) = Cardinality(S)
    BY DEF Arity, Child
  <2>2. S \subseteq 1 .. MaxChildren
    OBVIOUS
  <2>3. ASSUME NEW i \in S, NEW j \in 1 .. i  PROVE j \in S
    <3>1. Child(n, i) \in t \ {Root} /\ Parent(Child(n, i)) = n /\ Last(Child(n, i)) = i
      BY <1>5
    <3>2. Child(n, j) \in t
      BY <1>4, <3>1
    <3>. QED  BY <3>2, TreeAssumption
  <2>. HIDE DEF S
  <2>4. Cardinality(S) \in 0 .. MaxChildren /\ S = 1 .. Cardinality(S)
    BY <2>2, <2>3, Initial, TreeAssumption
  <2>. QED  BY <2>1, <2>4 DEF S
<1>7. \A n \in t : Arity(t, n) \in Nat /\ \A i \in 1 .. Arity(t, n) :
        i \in 1 .. MaxChildren /\ Child(n, i) \in t
  BY <1>6, TreeAssumption
<1>8. \A n \in t \ {Root} : Last(n) \in 1 .. Arity(t, Parent(n))
  <2>. SUFFICES ASSUME NEW n \in t \ {Root}  PROVE Last(n) \in 1 .. Arity(t, Parent(n))
    OBVIOUS
  <2>1. Parent(n) \in t /\ Last(n) \in {i \in 1 .. MaxChildren : Child(Parent(n), i) \in t}
    BY <1>4
  <2>. QED  BY <1>6, <2>1
<1>. QED  BY <1>2, <1>3, <1>4, <1>5, <1>7, <1>8

-----------------------------------------------------------------------------
(***************************************************************************)
(* The recursive definition of the result.                                 *)
(***************************************************************************)
\* One unfolding of it, for the nodes of D.
Unfolded(t, D, f) ==
  [n \in D |-> EncryptNode(n, [i \in 1 .. Arity(t, n) |-> f[Append(n, i)]])]

Deep(t, d) == {n \in t : Len(n) + d >= MaxDepth}

\* A function that satisfies it on nodes up to d edges above the lowest level.
LEMMA UnfoldedUpTo ==
  ASSUME NEW t \in Trees, NEW d \in 0 .. MaxDepth
  PROVE  \E f : f = Unfolded(t, Deep(t, d), f)
<1> DEFINE Bad == {e \in 0 .. MaxDepth : ~\E f : f = Unfolded(t, Deep(t, e), f)}
<1>. SUFFICES ASSUME Bad # {}  PROVE FALSE
  OBVIOUS
<1>1. Min(Bad) \in Bad /\ \A y \in Bad : Min(Bad) <= y
  <2>1. Bad \subseteq 0 .. MaxDepth /\ 0 \in Int /\ MaxDepth \in Int
    BY TreeAssumption
  <2>. HIDE DEF Bad
  <2>. QED  BY <2>1, MinOfInterval, Zenon
<1>2. PICK e \in 0 .. MaxDepth : e \in Bad /\ \A y \in Bad : e <= y
  BY <1>1
<1>3. ASSUME NEW n \in Deep(t, e), NEW i \in 1 .. Arity(t, n)
      PROVE  e > 0 /\ Append(n, i) \in Deep(t, e - 1) /\ Append(n, i) \in Deep(t, e)
  <2>1. PICK c \in t : c = Append(n, i) /\ Len(c) = Len(n) + 1
    BY TreeShape DEF Deep, Child
  <2>2. Len(c) <= MaxDepth /\ Len(n) \in Nat /\ Len(n) + e >= MaxDepth
    BY TreeShape DEF Deep
  <2>. QED  BY <2>1, <2>2, TreeAssumption DEF Deep
<1>4. PICK g : e > 0 => g = Unfolded(t, Deep(t, e - 1), g)
  <2>1. CASE e > 0
    <3>1. e - 1 \in 0 .. MaxDepth /\ ~(e <= e - 1)
      BY <2>1, TreeAssumption
    <3>2. e - 1 \notin Bad
      BY <1>2, <3>1
    <3>. QED  BY <3>1, <3>2
  <2>. QED  BY <2>1
<1>5. PICK f : f = Unfolded(t, Deep(t, e), g)
  OBVIOUS
<1>6. \A n \in Deep(t, e) : \A i \in 1 .. Arity(t, n) : f[Append(n, i)] = g[Append(n, i)]
  <2>. SUFFICES ASSUME NEW n \in Deep(t, e), NEW i \in 1 .. Arity(t, n)
                PROVE  f[Append(n, i)] = g[Append(n, i)]
    OBVIOUS
  <2>1. PICK c : c = Append(n, i)
    OBVIOUS
  <2>2. /\ g = Unfolded(t, Deep(t, e - 1), g)
        /\ c \in Deep(t, e - 1) /\ c \in Deep(t, e)
    BY <1>3, <1>4, <2>1
  <2>3. g[c] = EncryptNode(c, [j \in 1 .. Arity(t, c) |-> g[Append(c, j)]])
    BY <2>2 DEF Unfolded
  <2>4. f[c] = EncryptNode(c, [j \in 1 .. Arity(t, c) |-> g[Append(c, j)]])
    BY <1>5, <2>2 DEF Unfolded
  <2>. QED  BY <2>1, <2>3, <2>4
<1>7. \A n \in Deep(t, e) : [i \in 1 .. Arity(t, n) |-> f[Append(n, i)]]
                              = [i \in 1 .. Arity(t, n) |-> g[Append(n, i)]]
  BY <1>6
<1>8. f = Unfolded(t, Deep(t, e), f)
  BY <1>5, <1>7 DEF Unfolded
<1>. QED  BY <1>2, <1>8

\* There is such a function on the whole tree, so the recursion defines one.
LEMMA EncryptedUnfolds ==
  ASSUME NEW t \in Trees, NEW n \in t
  PROVE  Encrypted(t)[n] = EncryptNode(n, [i \in 1 .. Arity(t, n) |-> Encrypted(t)[Child(n, i)]])
<1>1. Deep(t, MaxDepth) = t
  BY TreeShape, TreeAssumption DEF Deep
<1>2. MaxDepth \in 0 .. MaxDepth
  BY TreeAssumption
<1>3. PICK f : f = Unfolded(t, t, f)
  BY <1>1, <1>2, UnfoldedUpTo
<1>4. Encrypted(t) = Unfolded(t, t, Encrypted(t))
  BY <1>3 DEF Encrypted, Unfolded
<1>5. Unfolded(t, t, Encrypted(t))[n]
        = EncryptNode(n, [i \in 1 .. Arity(t, n) |-> Encrypted(t)[Append(n, i)]])
  BY DEF Unfolded
<1>. QED  BY <1>4, <1>5, Zenon DEF Child

-----------------------------------------------------------------------------
\* XmlEncryptorMt and XmlEncryptor speak of the same trees and results.
LEMMA MtOperators ==
  /\ Mt!Root = Root /\ Mt!Nothing = Nothing /\ Mt!Trees = Trees
  /\ \A s : Mt!Front(s) = Front(s) /\ Mt!Last(s) = Last(s) /\ Mt!ToSet(s) = ToSet(s)
  /\ \A n : Mt!Parent(n) = Parent(n)
  /\ \A t, n : Mt!Arity(t, n) = Arity(t, n) /\ Mt!Children(t, n) = Children(t, n)
  /\ \A n, e : Mt!EncryptNode(n, e) = EncryptNode(n, e)
  /\ \A t : Mt!Encrypted(t) = Encrypted(t)
<1>1. /\ Mt!Root = Root /\ Mt!Nothing = Nothing
      /\ \A s : Mt!Front(s) = Front(s) /\ Mt!Last(s) = Last(s) /\ Mt!ToSet(s) = ToSet(s)
  BY DEF Mt!Root, Root, Mt!Nothing, Nothing, Mt!Front, Front, Mt!Last, Last, Mt!ToSet, ToSet
<1>2. \A n : Mt!Parent(n) = Parent(n)
  BY <1>1 DEF Mt!Parent, Parent
<1>3. \A t, n : Mt!Arity(t, n) = Arity(t, n)
  <2>. SUFFICES ASSUME NEW t, NEW n  PROVE Mt!Arity(t, n) = Arity(t, n)
    OBVIOUS
  <2>1. \A S : Mt!Cardinality(S) = Cardinality(S)
    BY DEF Mt!Cardinality, Cardinality
  <2>. QED  BY <2>1 DEF Mt!Arity, Arity
<1>4. \A t, n : Mt!Children(t, n) = Children(t, n)
  BY <1>3 DEF Mt!Children, Children
<1>5. \A n, e : Mt!EncryptNode(n, e) = EncryptNode(n, e)
  BY DEF Mt!EncryptNode, EncryptNode
<1>6. Mt!Trees = Trees
  <2>1. Mt!Nodes = Nodes
    BY DEF Mt!Nodes, Nodes
  <2>2. \A t : Mt!IsTree(t) = IsTree(t)
    BY <1>1, <1>2 DEF Mt!IsTree, IsTree
  <2>. QED  BY <2>1, <2>2 DEF Mt!Trees, Trees
<1>7. ASSUME NEW t  PROVE Mt!Encrypted(t) = Encrypted(t)
  BY <1>3, <1>5 DEF Mt!Encrypted, Encrypted
<1>. QED  BY <1>1, <1>2, <1>3, <1>4, <1>5, <1>6, <1>7

\* XmlEncryptor speaks of them too.
LEMMA PlainOperators ==
  /\ Plain!Root = Root /\ Plain!Nothing = Nothing /\ Plain!Trees = Trees
  /\ \A s : Plain!Front(s) = Front(s) /\ Plain!Last(s) = Last(s)
  /\ \A t, n : Plain!Arity(t, n) = Arity(t, n)
  /\ \A n, e : Plain!EncryptNode(n, e) = EncryptNode(n, e)
  /\ \A t : Plain!Encrypted(t) = Encrypted(t)
<1>1. /\ Plain!Root = Root /\ Plain!Nothing = Nothing
      /\ \A s : Plain!Front(s) = Front(s) /\ Plain!Last(s) = Last(s)
  BY DEF Plain!Root, Root, Plain!Nothing, Nothing, Plain!Front, Front, Plain!Last, Last
<1>2. \A n : Plain!Parent(n) = Parent(n)
  BY <1>1 DEF Plain!Parent, Parent
<1>3. \A t, n : Plain!Arity(t, n) = Arity(t, n)
  <2>. SUFFICES ASSUME NEW t, NEW n  PROVE Plain!Arity(t, n) = Arity(t, n)
    OBVIOUS
  <2>1. \A S : Plain!Cardinality(S) = Cardinality(S)
    BY DEF Plain!Cardinality, Cardinality
  <2>. QED  BY <2>1 DEF Plain!Arity, Arity
<1>4. \A n, e : Plain!EncryptNode(n, e) = EncryptNode(n, e)
  BY DEF Plain!EncryptNode, EncryptNode
<1>5. Plain!Trees = Trees
  <2>1. Plain!Nodes = Nodes
    BY DEF Plain!Nodes, Nodes
  <2>2. \A t : Plain!IsTree(t) = IsTree(t)
    BY <1>1, <1>2 DEF Plain!IsTree, IsTree
  <2>. QED  BY <2>1, <2>2 DEF Plain!Trees, Trees
<1>6. ASSUME NEW t  PROVE Plain!Encrypted(t) = Encrypted(t)
  BY <1>3, <1>4 DEF Plain!Encrypted, Encrypted
<1>. QED  BY <1>1, <1>3, <1>4, <1>5, <1>6

-----------------------------------------------------------------------------
(***************************************************************************)
(* The tasks of XmlEncryptorMt: which nodes have one, and how far it is.   *)
(***************************************************************************)
Stages == {"submitted", "encrypted", "stored", "notifying", "ended"}

Results(t) == {Nothing} \cup {Encrypted(t)[n] : n \in t}

NodeTask(t) == [node : t, at : Stages, encrypted : Results(t)]

HasTask(ts, n) == \E j \in DOMAIN ts : ts[j].node = n

Ended(ts, n) == \E j \in DOMAIN ts : ts[j].node = n /\ ts[j].at = "ended"

\* The task of n has stored its result with its parent.
HasStored(ts, n) == \E j \in DOMAIN ts : ts[j].node = n /\ ts[j].at \in {"stored", "ended"}

SubmittedOnce(ts) == \A i, j \in DOMAIN ts : ts[i].node = ts[j].node => i = j

\* A task that moves on is still the task of its node.
LEMMA TaskMoves ==
  ASSUME NEW t, NEW ts \in Seq(NodeTask(t)), SubmittedOnce(ts), NEW j \in DOMAIN ts,
         NEW r \in NodeTask(t), r.node = ts[j].node, NEW u, u = [ts EXCEPT ![j] = r]
  PROVE  /\ u \in Seq(NodeTask(t)) /\ DOMAIN u = DOMAIN ts
         /\ u[j] = r /\ \A i \in DOMAIN ts \ {j} : u[i] = ts[i]
         /\ SubmittedOnce(u)
         /\ \A n : HasTask(u, n) <=> HasTask(ts, n)
<1>1. /\ u \in Seq(NodeTask(t)) /\ DOMAIN u = DOMAIN ts
      /\ \A i \in DOMAIN ts : u[i] = IF i = j THEN r ELSE ts[i]
  <2>1. DOMAIN ts = 1 .. Len(ts)
    BY LenProperties
  <2>2. [ts EXCEPT ![j] = r] \in Seq(NodeTask(t))
    BY <2>1, ExceptSeq
  <2>. QED  BY <2>2
<1>2. \A i \in DOMAIN ts : u[i].node = ts[i].node
  BY <1>1
<1>3. SubmittedOnce(u)
  BY <1>1, <1>2 DEF SubmittedOnce
<1>4. \A n : HasTask(u, n) <=> HasTask(ts, n)
  BY <1>1, <1>2 DEF HasTask
<1>. QED  BY <1>1, <1>3, <1>4

\* How far the others are does not change with it.
LEMMA OthersStay ==
  ASSUME NEW t, NEW ts \in Seq(NodeTask(t)), SubmittedOnce(ts), NEW j \in DOMAIN ts,
         NEW r \in NodeTask(t), r.node = ts[j].node, NEW u, u = [ts EXCEPT ![j] = r]
  PROVE  /\ \A n : Ended(u, n) <=>
                (n = r.node /\ r.at = "ended") \/ (n # r.node /\ Ended(ts, n))
         /\ \A n : HasStored(u, n) <=>
                \/ (n = r.node /\ r.at \in {"stored", "ended"})
                \/ (n # r.node /\ HasStored(ts, n))
<1>1. DOMAIN u = DOMAIN ts /\ \A i \in DOMAIN ts : u[i] = IF i = j THEN r ELSE ts[i]
  OBVIOUS
<1>2. \A i \in DOMAIN ts : u[i].node = ts[i].node
  BY <1>1
<1>3. \A n : Ended(u, n) <=>
                (n = r.node /\ r.at = "ended") \/ (n # r.node /\ Ended(ts, n))
  <2>1. \A i \in DOMAIN ts : ts[i].node = r.node => i = j
    BY DEF SubmittedOnce
  <2>. QED  BY <1>1, <1>2, <2>1 DEF Ended
<1>4. \A n : HasStored(u, n) <=>
                \/ (n = r.node /\ r.at \in {"stored", "ended"})
                \/ (n # r.node /\ HasStored(ts, n))
  <2>1. \A i \in DOMAIN ts : ts[i].node = r.node => i = j
    BY DEF SubmittedOnce
  <2>. QED  BY <1>1, <1>2, <2>1 DEF HasStored
<1>. QED  BY <1>3, <1>4

\* Where the task of a node is, if it has one.
LEMMA TaskIs ==
  ASSUME NEW ts, SubmittedOnce(ts), NEW j \in DOMAIN ts
  PROVE  /\ HasTask(ts, ts[j].node)
         /\ Ended(ts, ts[j].node) <=> ts[j].at = "ended"
         /\ HasStored(ts, ts[j].node) <=> ts[j].at \in {"stored", "ended"}
BY DEF SubmittedOnce, HasTask, Ended, HasStored

\* A new task.
Fresh(n) == [node |-> n, at |-> "submitted", encrypted |-> Nothing]

\* A task that is submitted, for a node that had none.
LEMMA TaskAdded ==
  ASSUME NEW t, NEW ts \in Seq(NodeTask(t)), SubmittedOnce(ts), NEW n \in t, ~HasTask(ts, n),
         NEW u, u = Append(ts, Fresh(n))
  PROVE  /\ u \in Seq(NodeTask(t))
         /\ \A i \in DOMAIN u : u[i] = Fresh(n) \/ (i \in DOMAIN ts /\ u[i] = ts[i])
         /\ \A i \in DOMAIN ts : i \in DOMAIN u /\ u[i] = ts[i]
         /\ SubmittedOnce(u)
         /\ \A m : HasTask(u, m) <=> m = n \/ HasTask(ts, m)
         /\ \A m : Ended(u, m) <=> Ended(ts, m)
         /\ \A m : HasStored(u, m) <=> HasStored(ts, m)
<1>1. Fresh(n) \in NodeTask(t)
  BY DEF Fresh, NodeTask, Stages, Results
<1>2. u \in Seq(NodeTask(t))
  BY <1>1, AppendProperties
<1>3. /\ Len(ts) \in Nat /\ DOMAIN ts = 1 .. Len(ts) /\ DOMAIN u = 1 .. Len(ts) + 1
      /\ \A i \in 1 .. Len(ts) : u[i] = ts[i]
      /\ u[Len(ts) + 1] = Fresh(n)
  BY <1>1, <1>2, AppendProperties, LenProperties
<1>4. /\ \A i \in DOMAIN u : (i = Len(ts) + 1 /\ u[i] = Fresh(n))
                              \/ (i \in DOMAIN ts /\ u[i] = ts[i])
      /\ \A i \in DOMAIN ts : i \in DOMAIN u /\ u[i] = ts[i]
      /\ Len(ts) + 1 \in DOMAIN u
  BY <1>3
<1>5. Fresh(n).node = n /\ Fresh(n).at = "submitted"
  BY DEF Fresh
<1>6. SubmittedOnce(u)
  BY <1>4, <1>5 DEF SubmittedOnce, HasTask
<1>7. \A m : HasTask(u, m) <=> m = n \/ HasTask(ts, m)
  BY <1>3, <1>4, <1>5 DEF HasTask
<1>8. \A m : Ended(u, m) <=> Ended(ts, m)
  BY <1>4, <1>5 DEF Ended
<1>9. \A m : HasStored(u, m) <=> HasStored(ts, m)
  BY <1>4, <1>5 DEF HasStored
<1>. QED  BY <1>2, <1>4, <1>6, <1>7, <1>8, <1>9

-----------------------------------------------------------------------------
(***************************************************************************)
(* The inductive invariant.                                                *)
(***************************************************************************)
\* The nodes that have a collector.
Collected == DOMAIN remainChilds

MtTyped ==
  /\ unvisited \in Seq(tree) /\ IsInjective(unvisited)
  /\ Collected \subseteq tree
  /\ DOMAIN encryptedChilds = Collected
  /\ \A n \in Collected : encryptedChilds[n] \in [1 .. Arity(tree, n) -> Results(tree)]
  /\ tasks \in Seq(NodeTask(tree))
  /\ main \in {"walking", "waiting", "asleep", "returned"}
  /\ resultDone \in BOOLEAN

\* The caller has made the collectors of the children of the nodes it has visited.
Walk ==
  /\ Root \in Collected
  /\ \A n \in tree : Contains(unvisited, n) => n \in Collected
  /\ \A n \in Collected \ {Root} : Parent(n) \in Collected
  /\ \A n \in Collected : \A i \in 1 .. Arity(tree, n) :
       Child(n, i) \in Collected <=> ~Contains(unvisited, n)
  /\ main # "walking" => unvisited = << >>

\* remainChilds counts the children whose tasks have not ended.
RemainExact ==
  \A n \in Collected :
    remainChilds[n] = Cardinality({i \in 1 .. Arity(tree, n) : ~Ended(tasks, Child(n, i))})

\* A leaf is submitted when it is visited, another node when no child remains.
Ready(n) ==
  /\ n \in Collected
  /\ IF Arity(tree, n) = 0 THEN ~Contains(unvisited, n) ELSE remainChilds[n] = 0

Submissions ==
  /\ SubmittedOnce(tasks)
  /\ \A n \in tree : HasTask(tasks, n) <=> Ready(n)

\* A task has the result of its node, and a place the result of its child.
TaskRight(k) ==
  /\ k.at # "submitted" => k.encrypted = Encrypted(tree)[k.node]
  /\ k.at = "stored" => k.node # Root
  /\ k.at = "notifying" => k.node = Root

PlacesRight ==
  \A n \in Collected : \A i \in 1 .. Arity(tree, n) :
    \/ encryptedChilds[n][i] = Encrypted(tree)[Child(n, i)]
    \/ encryptedChilds[n][i] = Nothing /\ ~HasStored(tasks, Child(n, i))

\* The task of the root has set the result, and the caller returns only after that.
Finished ==
  /\ resultDone => /\ res = Encrypted(tree)[Root]
                   /\ \E j \in DOMAIN tasks : /\ tasks[j].node = Root
                                              /\ tasks[j].at \in {"notifying", "ended"}
  /\ main = "returned" => resultDone

\* The invariant of the call of XmlEncryptorMt.
MtInv ==
  /\ tree \in Trees
  /\ MtTyped
  /\ Walk
  /\ RemainExact
  /\ Submissions
  /\ \A j \in DOMAIN tasks : TaskRight(tasks[j])
  /\ PlacesRight
  /\ Finished

\* The collectors of the stack: each refers to the one below it.
Frame(t) == [node : t, processedChilds : Nat, encryptedChilds : Seq(Results(t)), onDone : Nat]

\* A collector at place d of the stack s has, in order, the right results of the
\* children that it has pushed, up to the one above it.
FrameRight(t, s, d) ==
  LET c == s[d]
      k == Len(c.encryptedChilds)
  IN  /\ c.processedChilds \in 0 .. Arity(t, c.node)
      /\ c.onDone = d - 1
      /\ \A i \in 1 .. k : c.encryptedChilds[i] = Encrypted(t)[Append(c.node, i)]
      /\ c.processedChilds = IF d = Len(s) THEN k ELSE k + 1
      /\ d < Len(s) => s[d + 1].node = Append(c.node, k + 1)

Stacked(t, s) ==
  /\ s \in Seq(Frame(t))
  /\ s # << >> => s[1].node = Root
  /\ \A d \in 1 .. Len(s) : FrameRight(t, s, d)

\* The invariant of the call of XmlEncryptor.
PlainInv ==
  /\ tree \in Trees
  /\ Stacked(tree, stack)
  /\ stack = << >> => plainRes = Encrypted(tree)[Root]
  /\ plainMain \in {"running", "returned"}
  /\ plainMain = "returned" => stack = << >>

\* Of both: the second call begins when the first has returned.
XmlIInv ==
  /\ MtInv
  /\ PlainInv
  /\ main = "returned" => plainMain = "returned"

-----------------------------------------------------------------------------
(***************************************************************************)
(* The call of XmlEncryptorMt keeps its part of the invariant.             *)
(***************************************************************************)

\* SubmitLeaf: a leaf is visited, and has a task from then on.
LEMMA SubmitLeafKeeps ==
  ASSUME MtInv, Mt!SubmitLeaf
  PROVE  MtInv'
<1> USE DEF Collected
<1>1. PICK n : /\ n = Head(unvisited) /\ unvisited # << >> /\ Arity(tree, n) = 0
               /\ tasks' = Append(tasks, Fresh(n))
               /\ unvisited' = Tail(unvisited)
               /\ UNCHANGED <<tree, remainChilds, encryptedChilds, main, resultDone, res>>
  BY MtOperators DEF Mt!SubmitLeaf, Mt!IsLeaf, Mt!Submitted, Fresh
<1>2. /\ tree \in Trees /\ unvisited \in Seq(tree) /\ IsInjective(unvisited)
      /\ tasks \in Seq(NodeTask(tree)) /\ SubmittedOnce(tasks)
  BY DEF MtInv, MtTyped, Submissions
<1>3. /\ unvisited' \in Seq(tree) /\ n \in tree /\ Contains(unvisited, n)
      /\ IsInjective(unvisited')
      /\ \A x : Contains(unvisited', x) <=> x # n /\ Contains(unvisited, x)
  BY <1>1, <1>2, PopFrontProperties
<1>4. n \in Collected /\ main = "walking"
  BY <1>1, <1>3 DEF MtInv, Walk
<1>5. ~HasTask(tasks, n)
  BY <1>1, <1>3 DEF MtInv, Submissions, Ready
<1>6. /\ tasks' \in Seq(NodeTask(tree))
      /\ \A i \in DOMAIN tasks' : tasks'[i] = Fresh(n)
                                  \/ (i \in DOMAIN tasks /\ tasks'[i] = tasks[i])
      /\ \A i \in DOMAIN tasks : i \in DOMAIN tasks' /\ tasks'[i] = tasks[i]
      /\ SubmittedOnce(tasks')
      /\ \A m : HasTask(tasks', m) <=> m = n \/ HasTask(tasks, m)
      /\ \A m : Ended(tasks', m) <=> Ended(tasks, m)
      /\ \A m : HasStored(tasks', m) <=> HasStored(tasks, m)
  <2>1. PICK u : u = tasks'
    OBVIOUS
  <2>2. u = Append(tasks, Fresh(n))
    BY <1>1, <2>1
  <2>. QED  BY <1>2, <1>3, <1>5, <2>1, <2>2, TaskAdded
<1>7. MtTyped'
  BY <1>1, <1>3, <1>6 DEF MtInv, MtTyped
<1>8. Walk'
  BY <1>1, <1>3, <1>4 DEF MtInv, Walk
<1>9. RemainExact'
  BY <1>1, <1>6 DEF MtInv, RemainExact
<1>10. Submissions'
  BY <1>1, <1>3, <1>4, <1>6 DEF MtInv, Submissions, Ready
<1>11. \A j \in DOMAIN tasks' : TaskRight(tasks[j])'
  BY <1>1, <1>6 DEF MtInv, TaskRight, Fresh
<1>12. PlacesRight'
  BY <1>1, <1>6 DEF MtInv, PlacesRight
<1>13. Finished'
  BY <1>1, <1>6 DEF MtInv, Finished
<1>. QED  BY <1>1, <1>2, <1>7, <1>8, <1>9, <1>10, <1>11, <1>12, <1>13 DEF MtInv

\* The children of a node, as a sequence.
LEMMA ChildrenProperties ==
  ASSUME NEW t \in Trees, NEW n \in t
  PROVE  /\ Children(t, n) \in Seq(t) /\ IsInjective(Children(t, n))
         /\ \A x : Contains(Children(t, n), x) <=> \E i \in 1 .. Arity(t, n) : x = Child(n, i)
<1>1. PICK k \in Nat : k = Arity(t, n)
  BY TreeShape
<1>2. \A i \in 1 .. k : Child(n, i) \in t /\ Last(Child(n, i)) = i
  BY <1>1, TreeShape
<1>3. PICK c : c = [i \in 1 .. k |-> Child(n, i)]
  OBVIOUS
<1>4. c \in [1 .. k -> t] /\ \A i \in 1 .. k : c[i] = Child(n, i)
  BY <1>2, <1>3
<1>5. c \in Seq(t) /\ Len(c) = k /\ DOMAIN c = 1 .. k
  BY <1>4
<1>6. c = Children(t, n)
  BY <1>1, <1>3 DEF Children, Child
<1>7. IsInjective(c)
  BY <1>2, <1>4, <1>5 DEF IsInjective
<1>8. \A x : Contains(c, x) <=> \E i \in 1 .. k : x = Child(n, i)
  BY <1>4, <1>5 DEF Contains
<1>. QED  BY <1>1, <1>5, <1>6, <1>7, <1>8

\* A step that makes the collectors of the children of a node, which are new.
LEMMA EnqueueChildrenKeeps ==
  ASSUME MtInv, Mt!EnqueueChildren
  PROVE  MtInv'
<1> USE DEF Collected
<1>1. PICK n, kids : /\ n = Head(unvisited) /\ unvisited # << >> /\ Arity(tree, n) # 0
                     /\ kids = Children(tree, n)
                     /\ unvisited' = Tail(unvisited) \o kids
                     /\ remainChilds' = Mt!Joined(remainChilds, Mt!Remaining(kids))
                     /\ encryptedChilds' = Mt!Joined(encryptedChilds, Mt!Places(kids))
                     /\ UNCHANGED <<tree, tasks, main, resultDone, res>>
  BY MtOperators DEF Mt!EnqueueChildren, Mt!IsLeaf
<1>2. /\ tree \in Trees /\ unvisited \in Seq(tree) /\ IsInjective(unvisited)
      /\ Collected \subseteq tree /\ DOMAIN encryptedChilds = Collected
      /\ SubmittedOnce(tasks)
  BY DEF MtInv, MtTyped, Submissions
<1>3. PICK rest \in Seq(tree) :
        /\ rest = Tail(unvisited) /\ IsInjective(rest)
        /\ n \in tree /\ Contains(unvisited, n)
        /\ \A x : Contains(rest, x) <=> x # n /\ Contains(unvisited, x)
  BY <1>1, <1>2, PopFrontProperties
<1>4. n \in Collected /\ main = "walking"
  BY <1>1, <1>3 DEF MtInv, Walk
<1> DEFINE Kids == {Child(n, i) : i \in 1 .. Arity(tree, n)}
<1>5. /\ kids \in Seq(tree) /\ IsInjective(kids)
      /\ \A x : Contains(kids, x) <=> x \in Kids
  <2>1. tree \in Trees /\ n \in tree /\ kids = Children(tree, n)
    BY <1>1, <1>2, <1>3
  <2>2. /\ kids \in Seq(tree) /\ IsInjective(kids)
        /\ \A x : Contains(kids, x) <=> \E i \in 1 .. Arity(tree, n) : x = Child(n, i)
    BY <2>1, ChildrenProperties
  <2>. QED  BY <2>2
<1>6. /\ Kids \subseteq tree
      /\ \A x \in Kids : x # Root /\ Parent(x) = n /\ x \notin Collected
  <2>. SUFFICES ASSUME NEW i \in 1 .. Arity(tree, n)
                PROVE  /\ Child(n, i) \in tree /\ Child(n, i) # Root
                       /\ Parent(Child(n, i)) = n /\ Child(n, i) \notin Collected
    OBVIOUS
  <2>1. Child(n, i) \notin Collected
    BY <1>3, <1>4 DEF MtInv, Walk
  <2>. QED  BY <1>2, <1>3, <2>1, TreeShape
<1>7. /\ unvisited' \in Seq(tree) /\ IsInjective(unvisited')
      /\ \A x : Contains(unvisited', x) <=> (x # n /\ Contains(unvisited, x)) \/ x \in Kids
  <2>1. \A x : Contains(rest, x) => x \in Collected
    <3>1. \A x : Contains(rest, x) => x \in tree
      BY <1>3, ElementOfSeq DEF Contains
    <3>. QED  BY <1>3, <3>1 DEF MtInv, Walk
  <2>2. \A x : ~(Contains(rest, x) /\ Contains(kids, x))
    BY <1>5, <1>6, <2>1
  <2>. HIDE DEF Kids
  <2>3. /\ rest \o kids \in Seq(tree) /\ IsInjective(rest \o kids)
        /\ \A x : Contains(rest \o kids, x) <=> Contains(rest, x) \/ Contains(kids, x)
    BY <1>3, <1>5, <2>2, ConcatElements
  <2>4. unvisited' = rest \o kids
    BY <1>1, <1>3
  <2>. QED  BY <1>3, <1>5, <2>3, <2>4, Zenon
<1>8. /\ DOMAIN remainChilds' = Collected \cup Kids
      /\ \A x \in Collected : remainChilds'[x] = remainChilds[x]
      /\ \A x \in Kids : remainChilds'[x] = Arity(tree, x)
      /\ DOMAIN encryptedChilds' = Collected \cup Kids
      /\ \A x \in Collected : encryptedChilds'[x] = encryptedChilds[x]
      /\ \A x \in Kids : encryptedChilds'[x] = [i \in 1 .. Arity(tree, x) |-> Nothing]
  <2>1. ToSet(kids) = Kids
    <3>1. \A x : x \in ToSet(kids) <=> Contains(kids, x)
      BY <1>5, ContainsIsToSet
    <3>. QED  BY <1>5, <3>1
  <2>. HIDE DEF Kids
  <2>2. /\ Mt!Remaining(kids) = [x \in Kids |-> Arity(tree, x)]
        /\ Mt!Places(kids) = [x \in Kids |-> [i \in 1 .. Arity(tree, x) |-> Nothing]]
    BY <2>1, MtOperators DEF Mt!Remaining, Mt!Places
  <2>. QED  BY <1>1, <1>2, <1>6, <2>2 DEF Mt!Joined
<1>. HIDE DEF Kids
<1>9. Collected' = Collected \cup Kids /\ tree' = tree /\ tasks' = tasks
  BY <1>1, <1>8
\* Nothing is known yet of what is below the new nodes.
<1>10. \A x \in Kids : \A i \in 1 .. Arity(tree, x) :
         /\ Child(x, i) \in tree /\ Child(x, i) \notin Collected'
         /\ ~HasTask(tasks, Child(x, i))
         /\ ~Ended(tasks, Child(x, i)) /\ ~HasStored(tasks, Child(x, i))
  <2>. SUFFICES ASSUME NEW x \in Kids, NEW i \in 1 .. Arity(tree, x)
                PROVE  /\ Child(x, i) \in tree /\ Child(x, i) \notin Collected'
                       /\ ~HasTask(tasks, Child(x, i))
                       /\ ~Ended(tasks, Child(x, i)) /\ ~HasStored(tasks, Child(x, i))
    OBVIOUS
  <2>1. /\ Child(x, i) \in tree /\ Child(x, i) # Root /\ Parent(Child(x, i)) = x
        /\ x \notin Collected /\ x # n
    BY <1>2, <1>4, <1>6, TreeShape
  <2>2. Child(x, i) \notin Collected
    BY <2>1 DEF MtInv, Walk
  <2>3. Child(x, i) \notin Kids
    BY <1>6, <2>1
  <2>4. ~HasTask(tasks, Child(x, i))
    BY <2>1, <2>2 DEF MtInv, Submissions, Ready
  <2>. QED  BY <1>9, <2>1, <2>2, <2>3, <2>4 DEF HasTask, Ended, HasStored
<1>11. MtTyped'
  <2>1. \A x \in Collected' : encryptedChilds'[x] \in [1 .. Arity(tree, x) -> Results(tree)]
    BY <1>8, <1>9 DEF MtInv, MtTyped, Results
  <2>. QED  BY <1>1, <1>2, <1>6, <1>7, <1>8, <1>9, <2>1 DEF MtInv, MtTyped
<1>12. Walk'
  <2>1. ASSUME NEW m \in Collected', NEW i \in 1 .. Arity(tree, m)
        PROVE  Child(m, i) \in Collected' <=> ~Contains(unvisited', m)
    <3>1. CASE m \in Kids
      BY <1>7, <1>10, <3>1
    <3>2. CASE m = n
      BY <1>4, <1>6, <1>7, <1>9, <3>2 DEF Kids
    <3>3. CASE m \in Collected /\ m # n
      <4>1. m \notin Kids /\ Child(m, i) \notin Kids
        BY <1>2, <1>6, <3>3, TreeShape
      <4>. QED  BY <1>7, <1>9, <3>3, <4>1 DEF MtInv, Walk
    <3>. QED  BY <1>9, <3>1, <3>2, <3>3
  <2>2. \A m \in Collected' \ {Root} : Parent(m) \in Collected'
    BY <1>4, <1>6, <1>9 DEF MtInv, Walk
  <2>. QED  BY <1>1, <1>4, <1>7, <1>9, <2>1, <2>2 DEF MtInv, Walk
<1>13. RemainExact'
  <2>1. ASSUME NEW m \in Collected'
        PROVE  remainChilds'[m] =
                 Cardinality({i \in 1 .. Arity(tree, m) : ~Ended(tasks, Child(m, i))})
    <3>1. CASE m \in Kids
      <4>1. {i \in 1 .. Arity(tree, m) : ~Ended(tasks, Child(m, i))} = 1 .. Arity(tree, m)
        BY <1>10, <3>1
      <4>2. Cardinality(1 .. Arity(tree, m)) = Arity(tree, m)
        BY <1>2, <1>6, <3>1, TreeShape, FS_Interval
      <4>. QED  BY <1>8, <3>1, <4>1, <4>2
    <3>2. CASE m \in Collected
      BY <1>8, <3>2 DEF MtInv, RemainExact
    <3>. QED  BY <1>9, <3>1, <3>2
  <2>. QED  BY <1>9, <2>1 DEF RemainExact
<1>14. Submissions'
  <2>1. ASSUME NEW m \in tree  PROVE HasTask(tasks, m) <=> Ready(m)'
    <3>1. CASE m \in Kids
      <4>1. ~HasTask(tasks, m)
        BY <1>6, <2>1, <3>1 DEF MtInv, Submissions, Ready
      <4>. QED  BY <1>7, <1>8, <1>9, <3>1, <4>1 DEF Ready
    <3>2. CASE m = n
      BY <1>1, <1>4, <1>8, <1>9, <2>1, <3>2 DEF MtInv, Submissions, Ready
    <3>3. CASE m \notin Kids /\ m # n
      BY <1>7, <1>8, <1>9, <2>1, <3>3 DEF MtInv, Submissions, Ready
    <3>. QED  BY <3>1, <3>2, <3>3
  <2>. QED  BY <1>2, <1>9, <2>1 DEF Submissions
<1>15. \A j \in DOMAIN tasks' : TaskRight(tasks[j])'
  BY <1>9 DEF MtInv, TaskRight
<1>16. PlacesRight'
  <2>1. ASSUME NEW m \in Collected', NEW i \in 1 .. Arity(tree, m)
        PROVE  \/ encryptedChilds'[m][i] = Encrypted(tree)[Child(m, i)]
               \/ encryptedChilds'[m][i] = Nothing /\ ~HasStored(tasks, Child(m, i))
    <3>1. CASE m \in Kids
      BY <1>8, <1>10, <3>1
    <3>2. CASE m \in Collected
      BY <1>8, <3>2 DEF MtInv, PlacesRight
    <3>. QED  BY <1>9, <3>1, <3>2
  <2>. QED  BY <1>9, <2>1 DEF PlacesRight
<1>17. Finished'
  BY <1>1 DEF MtInv, Finished
<1>. QED  BY <1>2, <1>9, <1>11, <1>12, <1>13, <1>14, <1>15, <1>16, <1>17 DEF MtInv

\* A task that moves on, but does not end, leaves alone what is counted.
LEMMA TaskStepKeeps ==
  ASSUME MtInv, NEW j \in DOMAIN tasks, NEW r \in NodeTask(tree), r.node = tasks[j].node,
         tasks[j].at # "ended", r.at = "ended" => r.node = Root,
         tasks' = [tasks EXCEPT ![j] = r], TaskRight(r),
         UNCHANGED <<tree, unvisited, remainChilds>>, main = "walking" => main' = "walking"
  PROVE  /\ tasks' \in Seq(NodeTask(tree))
         /\ Walk' /\ RemainExact' /\ Submissions'
         /\ \A i \in DOMAIN tasks' : TaskRight(tasks[i])'
         /\ DOMAIN tasks' = DOMAIN tasks /\ tasks'[j] = r
         /\ \A i \in DOMAIN tasks \ {j} : tasks'[i] = tasks[i]
         /\ \A n : HasStored(tasks', n) <=>
                \/ (n = r.node /\ r.at \in {"stored", "ended"})
                \/ (n # r.node /\ HasStored(tasks, n))
<1> USE DEF Collected
<1>1. /\ tree \in Trees /\ tasks \in Seq(NodeTask(tree)) /\ SubmittedOnce(tasks)
      /\ Collected \subseteq tree
  BY DEF MtInv, MtTyped, Submissions
<1>2. /\ tasks' \in Seq(NodeTask(tree)) /\ DOMAIN tasks' = DOMAIN tasks
      /\ tasks'[j] = r /\ \A i \in DOMAIN tasks \ {j} : tasks'[i] = tasks[i]
      /\ SubmittedOnce(tasks')
      /\ \A n : HasTask(tasks', n) <=> HasTask(tasks, n)
      /\ \A n : Ended(tasks', n) <=>
                (n = r.node /\ r.at = "ended") \/ (n # r.node /\ Ended(tasks, n))
      /\ \A n : HasStored(tasks', n) <=>
                \/ (n = r.node /\ r.at \in {"stored", "ended"})
                \/ (n # r.node /\ HasStored(tasks, n))
  <2>1. PICK u : u = tasks'
    OBVIOUS
  <2>2. u = [tasks EXCEPT ![j] = r]
    BY <2>1
  <2>3. /\ u \in Seq(NodeTask(tree)) /\ DOMAIN u = DOMAIN tasks /\ u[j] = r
        /\ \A i \in DOMAIN tasks \ {j} : u[i] = tasks[i]
    BY <1>1, <2>2, TaskMoves
  <2>4. SubmittedOnce(u) /\ \A n : HasTask(u, n) <=> HasTask(tasks, n)
    BY <1>1, <2>2, TaskMoves
  <2>5. \A n : Ended(u, n) <=> (n = r.node /\ r.at = "ended") \/ (n # r.node /\ Ended(tasks, n))
    BY <1>1, <2>2, OthersStay
  <2>6. \A n : HasStored(u, n) <=> \/ (n = r.node /\ r.at \in {"stored", "ended"})
                                  \/ (n # r.node /\ HasStored(tasks, n))
    BY <1>1, <2>2, OthersStay
  <2>. QED  BY <2>1, <2>3, <2>4, <2>5, <2>6
<1>3. Walk'
  BY DEF MtInv, Walk
<1>4. RemainExact'
  <2>1. ~Ended(tasks, r.node)
    BY <1>1, TaskIs
  <2>2. \A n \in Collected : \A i \in 1 .. Arity(tree, n) :
          Ended(tasks', Child(n, i)) <=> Ended(tasks, Child(n, i))
    <3>. SUFFICES ASSUME NEW n \in Collected, NEW i \in 1 .. Arity(tree, n)
                  PROVE  Ended(tasks', Child(n, i)) <=> Ended(tasks, Child(n, i))
      OBVIOUS
    <3>1. PICK c : c = Child(n, i) /\ c # Root
      BY <1>1, TreeShape
    <3>2. c = r.node => r.at # "ended"
      BY <3>1
    <3>3. Ended(tasks', c) <=> Ended(tasks, c)
      BY <1>2, <2>1, <3>2
    <3>. QED  BY <3>1, <3>3
  <2>3. \A n \in Collected : {i \in 1 .. Arity(tree, n) : ~Ended(tasks', Child(n, i))}
                               = {i \in 1 .. Arity(tree, n) : ~Ended(tasks, Child(n, i))}
    BY <2>2
  <2>. QED  BY <2>3 DEF MtInv, RemainExact
<1>5. Submissions'
  BY <1>2 DEF MtInv, Submissions, Ready
<1>6. \A i \in DOMAIN tasks' : TaskRight(tasks[i])'
  BY <1>2 DEF MtInv, TaskRight
<1>. QED  BY <1>2, <1>3, <1>4, <1>5, <1>6

\* The task of a node that has one: its children have ended, and their results are
\* in their places.
LEMMA ReadyToEncrypt ==
  ASSUME MtInv, NEW j \in DOMAIN tasks
  PROVE  /\ tasks[j].node \in tree /\ tasks[j].node \in Collected
         /\ \A i \in 1 .. Arity(tree, tasks[j].node) : Ended(tasks, Child(tasks[j].node, i))
         /\ EncryptNode(tasks[j].node, encryptedChilds[tasks[j].node])
              = Encrypted(tree)[tasks[j].node]
<1>1. tree \in Trees /\ tasks \in Seq(NodeTask(tree)) /\ SubmittedOnce(tasks)
  BY DEF MtInv, MtTyped, Submissions
<1>2. PICK n \in tree : n = tasks[j].node
  <2>1. tasks[j] \in NodeTask(tree)
    BY <1>1, ElementOfSeq, LenProperties
  <2>. QED  BY <2>1 DEF NodeTask
<1>3. Ready(n)
  BY <1>1, <1>2, TaskIs DEF MtInv, Submissions
<1>4. /\ n \in Collected /\ DOMAIN encryptedChilds[n] = 1 .. Arity(tree, n)
      /\ encryptedChilds[n] = [i \in 1 .. Arity(tree, n) |-> encryptedChilds[n][i]]
  BY <1>3 DEF MtInv, MtTyped, Ready
<1>5. \A i \in 1 .. Arity(tree, n) : Ended(tasks, Child(n, i))
  <2> DEFINE Left == {i \in 1 .. Arity(tree, n) : ~Ended(tasks, Child(n, i))}
  <2>1. CASE Arity(tree, n) = 0
    BY <2>1
  <2>2. CASE Arity(tree, n) # 0
    <3>1. Cardinality(Left) = 0
      BY <1>3, <1>4, <2>2 DEF MtInv, RemainExact, Ready
    <3>2. IsFiniteSet(Left)
      <4>1. IsFiniteSet(1 .. Arity(tree, n)) /\ Left \in SUBSET (1 .. Arity(tree, n))
        BY <1>1, TreeShape, FS_Interval
      <4>. HIDE DEF Left
      <4>. QED  BY <4>1, FS_Subset
    <3>3. Left = {}
      BY <3>1, <3>2, FS_EmptySet
    <3>. QED  BY <3>3
  <2>. QED  BY <2>1, <2>2
<1>6. \A i \in 1 .. Arity(tree, n) : encryptedChilds[n][i] = Encrypted(tree)[Child(n, i)]
  BY <1>4, <1>5 DEF MtInv, PlacesRight, Ended, HasStored
<1>7. encryptedChilds[n] = [i \in 1 .. Arity(tree, n) |-> Encrypted(tree)[Child(n, i)]]
  BY <1>4, <1>6
<1>8. Encrypted(tree)[n]
        = EncryptNode(n, [i \in 1 .. Arity(tree, n) |-> Encrypted(tree)[Child(n, i)]])
  BY <1>1, EncryptedUnfolds
<1>. QED  BY <1>2, <1>4, <1>5, <1>7, <1>8

\* encryptNode of a task, whose children have all ended and stored their results.
LEMMA EncryptKeeps ==
  ASSUME MtInv, NEW j \in DOMAIN tasks, Mt!Encrypt(j)
  PROVE  MtInv'
<1> USE DEF Collected
<1>1. PICK n, v : n = tasks[j].node /\ v = EncryptNode(n, encryptedChilds[n])
  OBVIOUS
<1>2. v = Encrypted(tree)[n] /\ n \in tree
  BY <1>1, ReadyToEncrypt
<1>3. PICK r \in NodeTask(tree) : r = [node |-> n, at |-> "encrypted", encrypted |-> v]
  BY <1>2 DEF NodeTask, Stages, Results
<1>4. /\ tasks[j].at = "submitted"
      /\ tasks' = [tasks EXCEPT ![j] = r]
      /\ UNCHANGED <<tree, unvisited, remainChilds, encryptedChilds, main, resultDone, res>>
  BY <1>1, <1>3, MtOperators DEF Mt!Encrypt
<1>5. /\ tasks' \in Seq(NodeTask(tree))
      /\ Walk' /\ RemainExact' /\ Submissions'
      /\ \A i \in DOMAIN tasks' : TaskRight(tasks[i])'
      /\ DOMAIN tasks' = DOMAIN tasks /\ tasks'[j] = r
      /\ \A i \in DOMAIN tasks \ {j} : tasks'[i] = tasks[i]
      /\ \A m : HasStored(tasks', m) => HasStored(tasks, m)
  <2>1. TaskRight(r)
    BY <1>2, <1>3 DEF TaskRight
  <2>2. ~(r.at \in {"stored", "ended"}) /\ r.node = n
    BY <1>3
  <2>. QED  BY <1>1, <1>4, <2>1, <2>2, TaskStepKeeps
<1>6. MtTyped'
  BY <1>4, <1>5 DEF MtInv, MtTyped
<1>7. PlacesRight'
  BY <1>4, <1>5 DEF MtInv, PlacesRight
<1>8. Finished'
  BY <1>3, <1>4, <1>5 DEF MtInv, Finished
<1>. QED  BY <1>4, <1>5, <1>6, <1>7, <1>8 DEF MtInv

Moved(ts, j, to) == [ts EXCEPT ![j].at = to]

\* A task with another place in its course.
LEMMA TaskAt ==
  ASSUME NEW t, NEW ts \in Seq(NodeTask(t)), NEW j \in DOMAIN ts, NEW to \in Stages
  PROVE  \E r \in NodeTask(t) : /\ r.node = ts[j].node /\ r.encrypted = ts[j].encrypted
                                /\ r.at = to
                                /\ Moved(ts, j, to) = [ts EXCEPT ![j] = r]
<1>1. PICK k \in NodeTask(t) : k = ts[j]
  BY ElementOfSeq, LenProperties
<1>2. PICK r : r = [k EXCEPT !.at = to]
  OBVIOUS
<1>3. r \in NodeTask(t) /\ r.node = k.node /\ r.encrypted = k.encrypted /\ r.at = to
  BY <1>2 DEF NodeTask
<1>4. Moved(ts, j, to) = [ts EXCEPT ![j] = r]
  BY <1>1, <1>2 DEF Moved
<1>. QED  BY <1>1, <1>3, <1>4

\* OnChildEncrypted stores the result of a child, which had none, in its place.
LEMMA StoreKeeps ==
  ASSUME MtInv, NEW j \in DOMAIN tasks, Mt!Store(j)
  PROVE  MtInv'
<1> USE DEF Collected
<1>1. /\ tree \in Trees /\ tasks \in Seq(NodeTask(tree)) /\ SubmittedOnce(tasks)
      /\ Collected \subseteq tree
  BY DEF MtInv, MtTyped, Submissions
<1>2. PICK r \in NodeTask(tree) : /\ r.node = tasks[j].node /\ r.encrypted = tasks[j].encrypted
                                  /\ r.at = "stored"
                                  /\ Moved(tasks, j, "stored") = [tasks EXCEPT ![j] = r]
  <2>1. "stored" \in Stages
    BY DEF Stages
  <2>. QED  BY <1>1, <2>1, TaskAt
<1>3. PICK n, p, i : n = tasks[j].node /\ p = Parent(n) /\ i = Last(n)
  OBVIOUS
<1>4. /\ n # Root /\ tasks[j].at = "encrypted"
      /\ tasks' = [tasks EXCEPT ![j] = r]
      /\ encryptedChilds' = [encryptedChilds EXCEPT ![p][i] = r.encrypted]
      /\ UNCHANGED <<tree, unvisited, remainChilds, main, resultDone, res>>
  BY <1>2, <1>3, MtOperators DEF Mt!Store, Mt!Goto, Mt!Place, Moved
<1>5. n \in tree /\ n \in Collected
  BY <1>3, ReadyToEncrypt
<1>6. p \in Collected /\ i \in 1 .. Arity(tree, p) /\ n = Child(p, i)
  BY <1>1, <1>3, <1>4, <1>5, TreeShape DEF MtInv, Walk
<1>7. r.encrypted = Encrypted(tree)[n] /\ TaskRight(r)
  BY <1>2, <1>3, <1>4 DEF MtInv, TaskRight
<1>8. /\ tasks' \in Seq(NodeTask(tree))
      /\ Walk' /\ RemainExact' /\ Submissions'
      /\ \A k \in DOMAIN tasks' : TaskRight(tasks[k])'
      /\ DOMAIN tasks' = DOMAIN tasks /\ tasks'[j] = r
      /\ \A k \in DOMAIN tasks \ {j} : tasks'[k] = tasks[k]
      /\ \A m : HasStored(tasks', m) => m = n \/ HasStored(tasks, m)
  BY <1>2, <1>3, <1>4, <1>7, TaskStepKeeps
<1>9. /\ DOMAIN encryptedChilds' = DOMAIN encryptedChilds
      /\ \A m \in Collected : /\ encryptedChilds'[m] \in [1 .. Arity(tree, m) -> Results(tree)]
                              /\ \A k \in 1 .. Arity(tree, m) : encryptedChilds'[m][k] =
                                   IF m = p /\ k = i THEN r.encrypted ELSE encryptedChilds[m][k]
  <2>1. r.encrypted \in Results(tree)
    BY <1>5, <1>7 DEF Results
  <2>. QED  BY <1>4, <1>6, <2>1 DEF MtInv, MtTyped
<1>10. MtTyped'
  BY <1>4, <1>8, <1>9 DEF MtInv, MtTyped
<1>11. PlacesRight'
  <2>1. ASSUME NEW m \in Collected, NEW k \in 1 .. Arity(tree, m)
        PROVE  \/ encryptedChilds'[m][k] = Encrypted(tree)[Child(m, k)]
               \/ encryptedChilds'[m][k] = Nothing /\ ~HasStored(tasks', Child(m, k))
    <3>1. CASE m = p /\ k = i
      BY <1>6, <1>7, <1>9, <3>1
    <3>2. CASE ~(m = p /\ k = i)
      <4>1. Child(m, k) # n
        BY <1>1, <1>3, <1>6, <3>2, TreeShape
      <4>2. encryptedChilds'[m][k] = encryptedChilds[m][k]
        BY <1>9, <3>2
      <4>3. HasStored(tasks', Child(m, k)) => HasStored(tasks, Child(m, k))
        BY <1>8, <4>1
      <4>. QED  BY <2>1, <4>2, <4>3 DEF MtInv, PlacesRight
    <3>. QED  BY <3>1, <3>2
  <2>. QED  BY <1>4, <2>1 DEF PlacesRight
<1>12. Finished'
  BY <1>3, <1>4, <1>8 DEF MtInv, Finished
<1>. QED  BY <1>1, <1>4, <1>8, <1>10, <1>11, <1>12 DEF MtInv

\* The callback of the root writes the result.
LEMMA SetResultKeeps ==
  ASSUME MtInv, NEW j \in DOMAIN tasks, Mt!SetResult(j)
  PROVE  MtInv'
<1> USE DEF Collected
<1>1. /\ tree \in Trees /\ tasks \in Seq(NodeTask(tree)) /\ SubmittedOnce(tasks)
      /\ Collected \subseteq tree
  BY DEF MtInv, MtTyped, Submissions
<1>2. PICK r \in NodeTask(tree) : /\ r.node = tasks[j].node /\ r.encrypted = tasks[j].encrypted
                                  /\ r.at = "notifying"
                                  /\ Moved(tasks, j, "notifying") = [tasks EXCEPT ![j] = r]
  <2>1. "notifying" \in Stages
    BY DEF Stages
  <2>. QED  BY <1>1, <2>1, TaskAt
<1>3. /\ r.node = Root /\ tasks[j].at = "encrypted"
      /\ tasks' = [tasks EXCEPT ![j] = r]
      /\ res' = r.encrypted /\ resultDone' = TRUE
      /\ UNCHANGED <<tree, unvisited, remainChilds, encryptedChilds, main>>
  BY <1>2, MtOperators DEF Mt!SetResult, Mt!Goto, Moved
<1>4. r.encrypted = Encrypted(tree)[Root] /\ TaskRight(r)
  BY <1>2, <1>3 DEF MtInv, TaskRight
<1>5. /\ tasks' \in Seq(NodeTask(tree))
      /\ Walk' /\ RemainExact' /\ Submissions'
      /\ \A k \in DOMAIN tasks' : TaskRight(tasks[k])'
      /\ DOMAIN tasks' = DOMAIN tasks /\ tasks'[j] = r
      /\ \A m : HasStored(tasks', m) => HasStored(tasks, m)
  BY <1>2, <1>3, <1>4, TaskStepKeeps
<1>6. MtTyped'
  BY <1>3, <1>5 DEF MtInv, MtTyped
<1>7. PlacesRight'
  BY <1>3, <1>5 DEF MtInv, PlacesRight
<1>8. Finished'
  <2>1. /\ j \in DOMAIN tasks' /\ tasks'[j].node = Root
        /\ tasks'[j].at \in {"notifying", "ended"}
    BY <1>2, <1>3, <1>5
  <2>. QED  BY <1>3, <1>4, <2>1 DEF Finished
<1>. QED  BY <1>1, <1>3, <1>5, <1>6, <1>7, <1>8 DEF MtInv

\* It notifies the caller, and the task of the root ends.
LEMMA NotifyKeeps ==
  ASSUME MtInv, NEW j \in DOMAIN tasks, Mt!Notify(j)
  PROVE  MtInv'
<1> USE DEF Collected
<1>1. /\ tree \in Trees /\ tasks \in Seq(NodeTask(tree)) /\ SubmittedOnce(tasks)
      /\ Collected \subseteq tree
  BY DEF MtInv, MtTyped, Submissions
<1>2. PICK r \in NodeTask(tree) : /\ r.node = tasks[j].node /\ r.encrypted = tasks[j].encrypted
                                  /\ r.at = "ended"
                                  /\ Moved(tasks, j, "ended") = [tasks EXCEPT ![j] = r]
  <2>1. "ended" \in Stages
    BY DEF Stages
  <2>. QED  BY <1>1, <2>1, TaskAt
<1>3. /\ tasks[j].at = "notifying"
      /\ tasks' = [tasks EXCEPT ![j] = r]
      /\ main' = IF main = "asleep" THEN "waiting" ELSE main
      /\ UNCHANGED <<tree, unvisited, remainChilds, encryptedChilds, resultDone, res>>
  BY <1>2, MtOperators DEF Mt!Notify, Mt!Goto, Mt!Woken, Moved
<1>4. r.node = Root /\ TaskRight(r)
  BY <1>2, <1>3 DEF MtInv, TaskRight
<1>5. /\ tasks' \in Seq(NodeTask(tree))
      /\ Walk' /\ RemainExact' /\ Submissions'
      /\ \A k \in DOMAIN tasks' : TaskRight(tasks[k])'
      /\ DOMAIN tasks' = DOMAIN tasks /\ tasks'[j] = r
      /\ \A k \in DOMAIN tasks \ {j} : tasks'[k] = tasks[k]
      /\ \A m : HasStored(tasks', m) => m = Root \/ HasStored(tasks, m)
  BY <1>2, <1>3, <1>4, TaskStepKeeps
<1>6. MtTyped'
  BY <1>3, <1>5 DEF MtInv, MtTyped
<1>7. PlacesRight'
  <2>1. \A m \in Collected : \A i \in 1 .. Arity(tree, m) : Child(m, i) # Root
    BY <1>1, TreeShape
  <2>. QED  BY <1>3, <1>5, <2>1 DEF MtInv, PlacesRight
<1>8. Finished'
  <2>1. \A k \in DOMAIN tasks : tasks'[k].node = tasks[k].node
    BY <1>2, <1>5
  <2>2. \A k \in DOMAIN tasks : tasks[k].at = "ended" => tasks'[k].at = "ended"
    BY <1>2, <1>5
  <2>3. resultDone => tasks'[j].node = Root /\ tasks'[j].at = "ended"
    BY <1>2, <1>4, <1>5
  <2>. QED  BY <1>3, <1>5, <2>3 DEF MtInv, Finished
<1>. QED  BY <1>1, <1>3, <1>5, <1>6, <1>7, <1>8 DEF MtInv

\* The count of a parent goes down with a child that ends, and the last child to end
\* submits it.
LEMMA CountOffKeeps ==
  ASSUME MtInv, NEW j \in DOMAIN tasks, Mt!CountOff(j)
  PROVE  MtInv'
<1> USE DEF Collected
<1>1. /\ tree \in Trees /\ tasks \in Seq(NodeTask(tree)) /\ SubmittedOnce(tasks)
      /\ Collected \subseteq tree
  BY DEF MtInv, MtTyped, Submissions
<1>2. PICK r \in NodeTask(tree) : /\ r.node = tasks[j].node /\ r.encrypted = tasks[j].encrypted
                                  /\ r.at = "ended"
                                  /\ Moved(tasks, j, "ended") = [tasks EXCEPT ![j] = r]
  <2>1. "ended" \in Stages
    BY DEF Stages
  <2>. QED  BY <1>1, <2>1, TaskAt
<1>3. PICK n, p, u, i : /\ n = tasks[j].node /\ p = Parent(n)
                        /\ u = [tasks EXCEPT ![j] = r] /\ i = Last(n)
  OBVIOUS
<1>4. /\ tasks[j].at = "stored"
      /\ tasks' = IF remainChilds[p] = 1 THEN Append(u, Fresh(p)) ELSE u
      /\ remainChilds' = [remainChilds EXCEPT ![p] = @ - 1]
      /\ UNCHANGED <<tree, unvisited, encryptedChilds, main, resultDone, res>>
  BY <1>2, <1>3, MtOperators DEF Mt!CountOff, Mt!LastOf, Mt!Submitted, Fresh, Moved
<1>5. n \in tree /\ n \in Collected /\ n # Root
  BY <1>3, <1>4, ReadyToEncrypt DEF MtInv, TaskRight
<1>6. p \in Collected /\ i \in 1 .. Arity(tree, p) /\ n = Child(p, i)
  BY <1>1, <1>3, <1>5, TreeShape DEF MtInv, Walk
<1>7. /\ u \in Seq(NodeTask(tree)) /\ DOMAIN u = DOMAIN tasks
      /\ u[j] = r /\ \A k \in DOMAIN tasks \ {j} : u[k] = tasks[k]
  BY <1>1, <1>2, <1>3, TaskMoves
<1>8. SubmittedOnce(u) /\ \A m : HasTask(u, m) <=> HasTask(tasks, m)
  BY <1>1, <1>2, <1>3, TaskMoves
<1>9. \A m : Ended(u, m) <=> m = n \/ Ended(tasks, m)
  <2>1. \A m : Ended(u, m) <=> (m = r.node /\ r.at = "ended") \/ (m # r.node /\ Ended(tasks, m))
    <3>1. r.node = tasks[j].node /\ u = [tasks EXCEPT ![j] = r]
      BY <1>2, <1>3
    <3>. QED  BY <1>1, <3>1, OthersStay
  <2>. QED  BY <1>2, <1>3, <2>1
<1>10. \A m : HasStored(u, m) <=> HasStored(tasks, m)
  <2>1. HasStored(tasks, n)
    BY <1>1, <1>3, <1>4, TaskIs
  <2>2. \A m : HasStored(u, m) <=> \/ (m = r.node /\ r.at \in {"stored", "ended"})
                                  \/ (m # r.node /\ HasStored(tasks, m))
    <3>1. r.node = tasks[j].node /\ u = [tasks EXCEPT ![j] = r]
      BY <1>2, <1>3
    <3>. QED  BY <1>1, <3>1, OthersStay
  <2>. QED  BY <1>2, <1>3, <2>1, <2>2
<1>11. /\ remainChilds[p] \in Nat \ {0}
       /\ remainChilds[p] - 1 = Cardinality({k \in 1 .. Arity(tree, p) : ~Ended(u, Child(p, k))})
  <2> DEFINE Left == {k \in 1 .. Arity(tree, p) : ~Ended(tasks, Child(p, k))}
             Rest == {k \in 1 .. Arity(tree, p) : ~Ended(u, Child(p, k))}
  <2>1. ~Ended(tasks, n)
    BY <1>1, <1>3, <1>4, TaskIs
  <2>2. i \in Left
    BY <1>6, <2>1
  <2>3. Rest = Left \ {i}
    <3>1. \A k \in 1 .. Arity(tree, p) : Child(p, k) = n <=> k = i
      BY <1>1, <1>3, <1>6, TreeShape
    <3>. QED  BY <1>9, <3>1
  <2>4. remainChilds[p] = Cardinality(Left)
    BY <1>6 DEF MtInv, RemainExact
  <2>5. IsFiniteSet(1 .. Arity(tree, p)) /\ Left \in SUBSET (1 .. Arity(tree, p))
    BY <1>1, <1>6, TreeShape, FS_Interval
  <2>. HIDE DEF Left, Rest
  <2>6. IsFiniteSet(Left) /\ Cardinality(Left) \in Nat
    BY <2>5, FS_Subset, FS_CardinalityType
  <2>7. Cardinality(Left) # 0
    BY <2>2, <2>6, FS_EmptySet
  <2>8. Cardinality(Rest) = Cardinality(Left) - 1
    BY <2>2, <2>3, <2>6, FS_RemoveElement
  <2>. QED  BY <2>4, <2>6, <2>7, <2>8 DEF Rest
<1>12. p \in tree /\ Arity(tree, p) # 0 /\ ~HasTask(u, p) /\ DOMAIN remainChilds' = Collected
  <2>1. p \in tree /\ Arity(tree, p) # 0
    BY <1>1, <1>6, TreeShape
  <2>2. ~HasTask(tasks, p)
    BY <1>11, <2>1 DEF MtInv, Submissions, Ready
  <2>. QED  BY <1>4, <1>8, <2>1, <2>2
<1>13. \A m \in Collected :
         remainChilds'[m] = IF m = p THEN remainChilds[p] - 1 ELSE remainChilds[m]
  BY <1>4
\* The tasks, with the parent's or without.
<1>14. /\ tasks' \in Seq(NodeTask(tree)) /\ SubmittedOnce(tasks')
       /\ \A k \in DOMAIN tasks' : tasks'[k] = Fresh(p) \/ (k \in DOMAIN u /\ tasks'[k] = u[k])
       /\ \A k \in DOMAIN u : k \in DOMAIN tasks' /\ tasks'[k] = u[k]
       /\ \A m : HasTask(tasks', m) <=> (m = p /\ remainChilds[p] = 1) \/ HasTask(u, m)
       /\ \A m : Ended(tasks', m) <=> Ended(u, m)
       /\ \A m : HasStored(tasks', m) <=> HasStored(u, m)
  <2>1. CASE remainChilds[p] = 1
    <3>1. u \in Seq(NodeTask(tree)) /\ SubmittedOnce(u) /\ p \in tree /\ ~HasTask(u, p)
      BY <1>7, <1>8, <1>12
    <3>2. PICK w : w = Append(u, Fresh(p))
      OBVIOUS
    <3>3. w \in Seq(NodeTask(tree)) /\ SubmittedOnce(w)
      BY <3>1, <3>2, TaskAdded
    <3>4. /\ \A k \in DOMAIN w : w[k] = Fresh(p) \/ (k \in DOMAIN u /\ w[k] = u[k])
          /\ \A k \in DOMAIN u : k \in DOMAIN w /\ w[k] = u[k]
      BY <3>1, <3>2, TaskAdded
    <3>5. /\ \A m : HasTask(w, m) <=> m = p \/ HasTask(u, m)
          /\ \A m : Ended(w, m) <=> Ended(u, m)
          /\ \A m : HasStored(w, m) <=> HasStored(u, m)
      BY <3>1, <3>2, TaskAdded
    <3>6. tasks' = w
      BY <1>4, <2>1, <3>2
    <3>. QED  BY <2>1, <3>3, <3>4, <3>5, <3>6
  <2>2. CASE remainChilds[p] # 1
    BY <1>4, <1>7, <1>8, <2>2
  <2>. QED  BY <2>1, <2>2
<1>15. MtTyped'
  BY <1>1, <1>4, <1>12, <1>14 DEF MtInv, MtTyped
<1>16. Walk'
  BY <1>4, <1>12 DEF MtInv, Walk
<1>17. RemainExact'
  <2>1. ASSUME NEW m \in Collected
        PROVE  remainChilds'[m] =
                 Cardinality({k \in 1 .. Arity(tree, m) : ~Ended(tasks', Child(m, k))})
    <3>1. CASE m = p
      BY <1>11, <1>13, <1>14, <3>1
    <3>2. CASE m # p
      <4>1. \A k \in 1 .. Arity(tree, m) : Child(m, k) # n
        BY <1>1, <1>3, <3>2, TreeShape
      <4>2. {k \in 1 .. Arity(tree, m) : ~Ended(tasks', Child(m, k))}
              = {k \in 1 .. Arity(tree, m) : ~Ended(tasks, Child(m, k))}
        BY <1>9, <1>14, <4>1
      <4>. QED  BY <1>13, <3>2, <4>2 DEF MtInv, RemainExact
    <3>. QED  BY <3>1, <3>2
  <2>. QED  BY <1>4, <1>12, <2>1 DEF RemainExact
<1>18. Submissions'
  <2>1. ASSUME NEW m \in tree  PROVE HasTask(tasks', m) <=> Ready(m)'
    <3>1. CASE m = p
      BY <1>4, <1>6, <1>11, <1>12, <1>13, <1>14, <3>1 DEF Ready
    <3>2. CASE m # p
      BY <1>4, <1>8, <1>12, <1>13, <1>14, <3>2 DEF MtInv, Submissions, Ready
    <3>. QED  BY <3>1, <3>2
  <2>. QED  BY <1>4, <1>14, <2>1 DEF Submissions
<1>19. \A k \in DOMAIN tasks' : TaskRight(tasks[k])'
  <2>1. \A k \in DOMAIN u : TaskRight(u[k])
    BY <1>2, <1>3, <1>4, <1>7 DEF MtInv, TaskRight
  <2>. QED  BY <1>4, <1>14, <2>1 DEF TaskRight, Fresh
<1>20. PlacesRight'
  BY <1>4, <1>10, <1>12, <1>14 DEF MtInv, PlacesRight
<1>21. Finished'
  BY <1>4, <1>7, <1>14 DEF MtInv, Finished
<1>. QED  BY <1>1, <1>4, <1>15, <1>16, <1>17, <1>18, <1>19, <1>20, <1>21 DEF MtInv

\* The root has a collector and is the only node to visit.
LEMMA MtInitially ==
  ASSUME Mt!Init
  PROVE  MtInv
<1> USE DEF Collected
<1>1. PICK s : s = <<Root>>
  OBVIOUS
<1>2. /\ tree \in Trees /\ unvisited = s
      /\ remainChilds = Mt!Remaining(s) /\ encryptedChilds = Mt!Places(s)
      /\ tasks = << >> /\ main = "walking" /\ resultDone = FALSE
  BY <1>1, MtOperators DEF Mt!Init
<1>3. Root \in tree /\ Arity(tree, Root) \in Nat
  BY <1>2, TreeShape
<1>4. /\ s \in Seq(tree) /\ IsInjective(s)
      /\ \A x : Contains(s, x) <=> x = Root
      /\ ToSet(s) = {Root}
  BY <1>1, <1>3 DEF IsInjective, Contains, ToSet
<1>5. /\ DOMAIN remainChilds = {Root} /\ remainChilds[Root] = Arity(tree, Root)
      /\ DOMAIN encryptedChilds = {Root}
      /\ encryptedChilds[Root] = [i \in 1 .. Arity(tree, Root) |-> Nothing]
  BY <1>2, <1>4, MtOperators DEF Mt!Remaining, Mt!Places
<1>6. \A n : ~HasTask(tasks, n) /\ ~Ended(tasks, n) /\ ~HasStored(tasks, n)
  BY <1>2 DEF HasTask, Ended, HasStored
<1>7. MtTyped
  <2>1. encryptedChilds[Root] \in [1 .. Arity(tree, Root) -> Results(tree)]
    BY <1>5 DEF Results
  <2>2. tasks \in Seq(NodeTask(tree))
    BY <1>2
  <2>. QED  BY <1>2, <1>3, <1>4, <1>5, <2>1, <2>2 DEF MtTyped
<1>8. Walk
  <2>1. \A i \in 1 .. Arity(tree, Root) : Child(Root, i) # Root
    BY <1>2, <1>3, TreeShape
  <2>. QED  BY <1>2, <1>4, <1>5, <2>1 DEF Walk
<1>9. RemainExact
  <2>1. {i \in 1 .. Arity(tree, Root) : ~Ended(tasks, Child(Root, i))} = 1 .. Arity(tree, Root)
    BY <1>6
  <2>2. Cardinality(1 .. Arity(tree, Root)) = Arity(tree, Root)
    BY <1>3, FS_Interval
  <2>. QED  BY <1>5, <2>1, <2>2 DEF RemainExact
<1>10. Submissions
  <2>1. SubmittedOnce(tasks)
    BY <1>2 DEF SubmittedOnce
  <2>2. \A n \in tree : ~Ready(n)
    BY <1>2, <1>4, <1>5 DEF Ready
  <2>. QED  BY <1>6, <2>1, <2>2 DEF Submissions
<1>11. \A j \in DOMAIN tasks : TaskRight(tasks[j])
  BY <1>2
<1>12. PlacesRight
  BY <1>5, <1>6 DEF PlacesRight
<1>13. Finished
  BY <1>2 DEF Finished
<1>. QED  BY <1>2, <1>7, <1>8, <1>9, <1>10, <1>11, <1>12, <1>13 DEF MtInv

\* The other steps of the caller move nothing but the caller.
LEMMA CallerKeeps ==
  ASSUME MtInv, \/ Mt!Walked \/ Mt!Wait \/ Mt!SpuriousWakeup
                \/ UNCHANGED <<tree, unvisited, remainChilds, encryptedChilds, tasks, main,
                               resultDone, res>>
  PROVE  MtInv'
<1> USE DEF Collected
<1>1. UNCHANGED <<tree, unvisited, remainChilds, encryptedChilds, tasks, resultDone, res>>
  BY DEF Mt!Walked, Mt!Wait, Mt!SpuriousWakeup
<1>2. /\ main' \in {"walking", "waiting", "asleep", "returned"}
      /\ main' # "walking" => unvisited = << >>
      /\ main' = "returned" => resultDone
  BY DEF MtInv, MtTyped, Walk, Finished, Mt!Walked, Mt!Wait, Mt!SpuriousWakeup
<1>3. MtTyped' /\ Walk' /\ Finished'
  BY <1>1, <1>2 DEF MtInv, MtTyped, Walk, Finished
<1>4. RemainExact' /\ Submissions' /\ PlacesRight'
  BY <1>1 DEF MtInv, RemainExact, Submissions, Ready, PlacesRight
<1>5. (\A j \in DOMAIN tasks : TaskRight(tasks[j]))'
  BY <1>1 DEF MtInv, TaskRight
<1>. QED  BY <1>1, <1>3, <1>4, <1>5 DEF MtInv

\* Every step of the call keeps its invariant.
LEMMA MtNextKeeps ==
  ASSUME MtInv, Mt!Next
  PROVE  MtInv'
<1>1. CASE Mt!SubmitLeaf
  BY <1>1, SubmitLeafKeeps
<1>2. CASE Mt!EnqueueChildren
  BY <1>2, EnqueueChildrenKeeps
<1>3. CASE Mt!Walked \/ Mt!Wait \/ Mt!SpuriousWakeup \/ Mt!Returned
  BY <1>3, CallerKeeps DEF Mt!Returned, Mt!vars
<1>4. ASSUME NEW j \in DOMAIN tasks, Mt!TaskStep(j)  PROVE MtInv'
  BY <1>4, EncryptKeeps, StoreKeeps, CountOffKeeps, SetResultKeeps, NotifyKeeps DEF Mt!TaskStep
<1>. QED  BY <1>1, <1>2, <1>3, <1>4 DEF Mt!Next, Mt!Caller

-----------------------------------------------------------------------------
\* While the root has a task, every other node's task has ended: one of least depth
\* that has not would keep its parent, and with it the root, from being submitted.
LEMMA OthersEnded ==
  ASSUME MtInv, HasTask(tasks, Root)
  PROVE  \A n \in Collected \ {Root} : Ended(tasks, n)
<1> USE DEF Collected
<1>1. tree \in Trees /\ Collected \subseteq tree /\ SubmittedOnce(tasks)
  BY DEF MtInv, MtTyped, Submissions
<1> DEFINE Late == {n \in Collected \ {Root} : ~Ended(tasks, n)}
           Depths == {Len(n) : n \in Late}
<1>. SUFFICES ASSUME Late # {}  PROVE FALSE
  OBVIOUS
<1>2. Min(Depths) \in Depths /\ \A y \in Depths : Min(Depths) <= y
  <2>1. ASSUME NEW n \in Late  PROVE Len(n) \in 0 .. MaxDepth
    BY <1>1, TreeShape
  <2>2. Depths \subseteq 0 .. MaxDepth /\ Depths # {}
    BY <2>1
  <2>3. 0 \in Int /\ MaxDepth \in Int
    BY TreeAssumption
  <2>. HIDE DEF Depths
  <2>. QED  BY <2>2, <2>3, MinOfInterval, Zenon
<1>3. PICK n \in Late : \A m \in Late : Len(n) <= Len(m)
  BY <1>2
<1>4. PICK p \in Collected : /\ p = Parent(n) /\ Len(p) = Len(n) - 1 /\ Len(n) \in Int
                             /\ Last(n) \in 1 .. Arity(tree, p) /\ n = Child(p, Last(n))
  BY <1>1, <1>3, TreeShape DEF MtInv, Walk
<1>5. HasTask(tasks, p)
  <2>1. CASE p = Root
    BY <2>1
  <2>2. CASE p # Root
    <3>1. p \notin Late
      BY <1>3, <1>4
    <3>. QED  BY <2>2, <3>1 DEF Ended, HasTask
  <2>. QED  BY <2>1, <2>2
<1>6. PICK j \in DOMAIN tasks : tasks[j].node = p
  BY <1>5 DEF HasTask
<1>7. Ended(tasks, Child(p, Last(n)))
  BY <1>4, <1>6, ReadyToEncrypt
<1>. QED  BY <1>3, <1>4, <1>7

-----------------------------------------------------------------------------
(***************************************************************************)
(* The sequential call keeps its part.                                     *)
(***************************************************************************)

\* A collector counts another child, or gets the result of one.
LEMMA ChildCounted ==
  ASSUME NEW t, NEW c \in Frame(t), NEW k \in Nat, NEW r, r = [c EXCEPT !.processedChilds = k]
  PROVE  /\ r \in Frame(t)
         /\ r.node = c.node /\ r.processedChilds = k
         /\ r.encryptedChilds = c.encryptedChilds /\ r.onDone = c.onDone
BY DEF Frame

\* A collector gets the result of a child.
LEMMA ResultAdded ==
  ASSUME NEW t, NEW c \in Frame(t), NEW e \in Results(t),
         NEW r, r = [c EXCEPT !.encryptedChilds = Append(@, e)]
  PROVE  /\ r \in Frame(t)
         /\ r.node = c.node /\ r.processedChilds = c.processedChilds
         /\ r.encryptedChilds = Append(c.encryptedChilds, e) /\ r.onDone = c.onDone
<1>1. PICK q \in Seq(Results(t)) : q = Append(c.encryptedChilds, e)
  BY AppendProperties DEF Frame
<1>2. r = [c EXCEPT !.encryptedChilds = q]
  BY <1>1 DEF Frame
<1>. QED  BY <1>1, <1>2 DEF Frame

\* The invariant of the sequential call is as strong as what the runs check.
LEMMA PlainInvImplies ==
  ASSUME PlainInv
  PROVE  Plain!TypeOK /\ Plain!PartialResults
<1>1. stack \in Seq(Frame(tree)) /\ \A d \in 1 .. Len(stack) : FrameRight(tree, stack, d)
  BY DEF PlainInv, Stacked
<1>2. /\ DOMAIN stack = 1 .. Len(stack)
      /\ \A d \in 1 .. Len(stack) : stack[d].node \in tree
  <2>1. \A d \in 1 .. Len(stack) : stack[d] \in Frame(tree)
    BY <1>1
  <2>. QED  BY <1>1, <2>1, LenProperties DEF Frame
<1>3. Plain!TypeOK
  BY <1>1, <1>2, PlainOperators DEF PlainInv, Plain!TypeOK, FrameRight
<1>4. \A d \in DOMAIN stack :
        LET c == stack[d]
            k == Len(c.encryptedChilds)
        IN  /\ \A i \in 1 .. k : c.encryptedChilds[i] = Encrypted(tree)[Append(c.node, i)]
            /\ c.processedChilds = IF d = Len(stack) THEN k ELSE k + 1
            /\ d < Len(stack) => stack[d + 1].node = Append(c.node, k + 1)
  BY <1>1, <1>2 DEF FrameRight
<1>5. Plain!PartialResults
  BY <1>4, PlainOperators, Zenon DEF PlainInv, Plain!PartialResults
<1>. QED  BY <1>3, <1>5

\* A stack whose top has changed, with another collector above it.
LEMMA ReplaceAndPush ==
  ASSUME NEW S, NEW s \in Seq(S), NEW n, n = Len(s), n > 0, NEW r \in S, NEW v \in S,
         NEW u, u = Append([s EXCEPT ![n] = r], v)
  PROVE  /\ u \in Seq(S) /\ u # << >>
         /\ Len(u) = n + 1 /\ u[n + 1] = v /\ u[n] = r
         /\ \A d \in 1 .. n : d # n => u[d] = s[d]
<1>1. n \in Nat /\ n \in 1 .. Len(s)
  BY LenProperties
<1>2. PICK w : w = [s EXCEPT ![n] = r]
  OBVIOUS
<1>3. /\ w \in Seq(S) /\ Len(w) = n /\ w[n] = r
      /\ \A d \in 1 .. n : d # n => w[d] = s[d]
  BY <1>1, <1>2, ElementChanged
<1>4. u = Append(w, v)
  BY <1>2
<1>5. /\ u \in Seq(S) /\ Len(u) = n + 1 /\ u[n + 1] = v
      /\ \A d \in 1 .. n : u[d] = w[d]
  BY <1>3, <1>4, AppendProperties
<1>6. u # << >>
  BY <1>1, <1>5, EmptySeq
<1>. QED  BY <1>1, <1>3, <1>5, <1>6

\* A stack without its top, in which the collector below it has changed.
LEMMA PopReplaced ==
  ASSUME NEW S, NEW s \in Seq(S), NEW n \in Nat, n = Len(s), n > 1, NEW r \in S,
         NEW w \in Seq(S), Len(w) = n, w[n - 1] = r,
         \A d \in 1 .. n : d # n - 1 => w[d] = s[d],
         NEW u, u = Front(w)
  PROVE  /\ u \in Seq(S) /\ u # << >>
         /\ Len(u) = n - 1 /\ u[n - 1] = r
         /\ \A d \in 1 .. n - 1 : d # n - 1 => u[d] = s[d]
<1>1. w # << >>
  BY EmptySeq
<1>2. u \in Seq(S) /\ Len(u) = Len(w) - 1 /\ \A d \in 1 .. Len(u) : u[d] = w[d]
  BY <1>1, FrontElements
<1>3. Len(u) = n - 1
  BY <1>2
<1>4. PICK m \in Nat : m = Len(u) /\ m # 0
  BY <1>3
<1>5. u # << >>
  BY <1>4, EmptySeq
<1>. QED  BY <1>2, <1>3, <1>5

\* When a collector is right, unfolded.
LEMMA FrameIsRight ==
  ASSUME NEW t, NEW s, NEW d,
         s[d].processedChilds \in 0 .. Arity(t, s[d].node), s[d].onDone = d - 1,
         \A i \in 1 .. Len(s[d].encryptedChilds) :
           s[d].encryptedChilds[i] = Encrypted(t)[Append(s[d].node, i)],
         \/ /\ d = Len(s) /\ ~(d < Len(s))
            /\ s[d].processedChilds = Len(s[d].encryptedChilds)
         \/ /\ d # Len(s) /\ s[d].processedChilds = Len(s[d].encryptedChilds) + 1
            /\ s[d + 1].node = Append(s[d].node, Len(s[d].encryptedChilds) + 1)
  PROVE  FrameRight(t, s, d)
BY DEF FrameRight

\* A push: the top counts its next child, whose collector goes on top.
LEMMA PushStacked ==
  ASSUME NEW t \in Trees, NEW s, Stacked(t, s), NEW L \in Nat, L > 0, L = Len(s),
         s[L].processedChilds < Arity(t, s[L].node),
         NEW r \in Frame(t), r.node = s[L].node, r.processedChilds = s[L].processedChilds + 1,
         r.encryptedChilds = s[L].encryptedChilds, r.onDone = s[L].onDone,
         NEW v \in Frame(t), v.node = Append(s[L].node, r.processedChilds),
         v.processedChilds = 0, Len(v.encryptedChilds) = 0, v.onDone = L,
         NEW u \in Seq(Frame(t)), Len(u) = L + 1, u[L + 1] = v, u[L] = r,
         \A d \in 1 .. L : d # L => u[d] = s[d]
  PROVE  Stacked(t, u)
<1>1. s \in Seq(Frame(t)) /\ s[1].node = Root /\ \A d \in 1 .. L : FrameRight(t, s, d)
  BY EmptySeq DEF Stacked
<1>2. u[1].node = Root
  BY <1>1
<1>3. ASSUME NEW d \in 1 .. L + 1  PROVE FrameRight(t, u, d)
  <2>1. CASE d = L + 1
    <3>1. v.node \in t /\ Arity(t, v.node) \in Nat
      BY TreeShape DEF Frame
    <3>2. /\ v.processedChilds \in 0 .. Arity(t, v.node)
          /\ \A i \in 1 .. Len(v.encryptedChilds) :
               v.encryptedChilds[i] = Encrypted(t)[Append(v.node, i)]
          /\ v.processedChilds = Len(v.encryptedChilds)
      BY <3>1
    <3>3. v = u[d] /\ v.onDone = d - 1 /\ d = Len(u) /\ ~(d < Len(u))
      BY <2>1
    <3>. QED  BY <3>2, <3>3, FrameIsRight, Zenon
  <2>2. CASE d = L
    <3>1. FrameRight(t, s, L)
      BY <1>1
    <3>2. s[L] \in Frame(t)
      BY <1>1
    <3>3. s[L].node \in t /\ s[L].processedChilds \in Nat /\ Arity(t, s[L].node) \in Nat
      BY <3>2, TreeShape DEF Frame
    <3>4. PICK k : k = Len(r.encryptedChilds)
      OBVIOUS
    <3>5. /\ s[L].processedChilds = k /\ s[L].onDone = L - 1
          /\ \A i \in 1 .. k : r.encryptedChilds[i] = Encrypted(t)[Append(r.node, i)]
      BY <3>1, <3>4 DEF FrameRight
    <3>6. /\ r.processedChilds \in 0 .. Arity(t, r.node) /\ r.onDone = L - 1
          /\ r.processedChilds = Len(r.encryptedChilds) + 1
          /\ v.node = Append(r.node, Len(r.encryptedChilds) + 1)
      BY <3>3, <3>4, <3>5
    <3>7. /\ r = u[d] /\ d # Len(u) /\ u[d + 1] = v /\ d = L
          /\ \A i \in 1 .. Len(r.encryptedChilds) :
               r.encryptedChilds[i] = Encrypted(t)[Append(r.node, i)]
      BY <2>2, <3>4, <3>5
    <3>. QED  BY <3>6, <3>7, FrameIsRight, Zenon
  <2>3. CASE d < L
    <3>1. FrameRight(t, s, d) /\ u[d] = s[d] /\ u[d + 1].node = s[d + 1].node
      BY <1>1, <2>3
    <3>. QED  BY <2>3, <3>1 DEF FrameRight
  <2>. QED  BY <2>1, <2>2, <2>3
<1>. QED  BY <1>2, <1>3, EmptySeq DEF Stacked

\* A collector all of whose children have been pushed has their results, so what is
\* encrypted is the result of its node.
LEMMA TopResult ==
  ASSUME NEW t \in Trees, NEW s, Stacked(t, s), NEW L \in Nat \ {0}, L = Len(s),
         NEW c, c = s[L], ~(c.processedChilds < Arity(t, c.node))
  PROVE  EncryptNode(c.node, c.encryptedChilds) = Encrypted(t)[c.node] /\ c.node \in t
<1>1. s \in Seq(Frame(t)) /\ FrameRight(t, s, L)
  BY DEF Stacked
<1>2. c \in Frame(t)
  BY <1>1
<1>3. c.node \in t /\ c.encryptedChilds \in Seq(Results(t)) /\ c.processedChilds \in Nat
  BY <1>2 DEF Frame
<1>4. Arity(t, c.node) \in Nat
  BY <1>3, TreeShape
<1>5. /\ Len(c.encryptedChilds) = Arity(t, c.node)
      /\ \A i \in 1 .. Arity(t, c.node) : c.encryptedChilds[i] = Encrypted(t)[Child(c.node, i)]
  BY <1>1, <1>3, <1>4 DEF FrameRight, Child
<1>6. PICK e \in Seq(Results(t)) : e = c.encryptedChilds
  BY <1>3
<1>7. e = [i \in 1 .. Arity(t, c.node) |-> Encrypted(t)[Child(c.node, i)]]
  <2>1. e = [i \in 1 .. Len(e) |-> e[i]]
    BY <1>6
  <2>2. Len(e) = Arity(t, c.node)
    BY <1>5, <1>6
  <2>3. \A i \in 1 .. Arity(t, c.node) : e[i] = Encrypted(t)[Child(c.node, i)]
    BY <1>5, <1>6
  <2>. QED  BY <2>1, <2>2, <2>3
<1>. QED  BY <1>3, <1>6, <1>7, EncryptedUnfolds

\* A pop: the collector below gets the result of the top.
LEMMA PopStacked ==
  ASSUME NEW t \in Trees, NEW s, Stacked(t, s), NEW L \in Nat, L > 1, L = Len(s),
         NEW r \in Frame(t), r.node = s[L - 1].node,
         r.processedChilds = s[L - 1].processedChilds,
         r.encryptedChilds = Append(s[L - 1].encryptedChilds, Encrypted(t)[s[L].node]),
         r.onDone = s[L - 1].onDone,
         NEW u \in Seq(Frame(t)), Len(u) = L - 1, u[L - 1] = r,
         \A d \in 1 .. L - 1 : d # L - 1 => u[d] = s[d]
  PROVE  Stacked(t, u)
<1>1. s \in Seq(Frame(t)) /\ s[1].node = Root /\ \A d \in 1 .. L : FrameRight(t, s, d)
  BY EmptySeq DEF Stacked
<1>2. u[1].node = Root
  BY <1>1
<1>3. FrameRight(t, u, L - 1)
  <2>1. FrameRight(t, s, L - 1)
    BY <1>1
  <2>2. PICK b \in Frame(t) : b = s[L - 1]
    BY <1>1
  <2>3. PICK c \in Frame(t) : c = s[L]
    BY <1>1
  <2>4. PICK o \in Seq(Results(t)) : o = b.encryptedChilds
    BY DEF Frame
  <2>5. PICK k \in Nat : k = Len(o)
    BY LenProperties
  <2>6. /\ b.processedChilds \in 0 .. Arity(t, b.node) /\ b.onDone = (L - 1) - 1
        /\ \A i \in 1 .. k : o[i] = Encrypted(t)[Append(b.node, i)]
        /\ b.processedChilds = k + 1 /\ c.node = Append(b.node, k + 1)
    BY <2>1, <2>2, <2>3, <2>4, <2>5 DEF FrameRight
  <2>7. PICK x \in Results(t) : x = Encrypted(t)[c.node]
    BY DEF Results, Frame
  <2>8. PICK q : q = Append(o, x)
    OBVIOUS
  <2>9. /\ q \in Seq(Results(t))
        /\ Len(q) = k + 1 /\ q[k + 1] = x /\ \A i \in 1 .. k : q[i] = o[i]
    BY <2>4, <2>5, <2>7, <2>8, AppendElements
  <2>10. ASSUME NEW i \in 1 .. k + 1  PROVE q[i] = Encrypted(t)[Append(b.node, i)]
    <3>1. CASE i = k + 1
      <4>1. q[i] = x /\ c.node = Append(b.node, i)
        BY <2>6, <2>9, <3>1
      <4>. QED  BY <2>7, <4>1, Zenon
    <3>2. CASE i # k + 1
      <4>1. i \in 1 .. k
        BY <2>5, <3>2
      <4>. QED  BY <2>6, <2>9, <4>1, Zenon
    <3>. QED  BY <3>1, <3>2
  <2>11. /\ r.encryptedChilds = q /\ r.node = b.node /\ r.onDone = b.onDone
         /\ r.processedChilds = b.processedChilds
    BY <2>2, <2>3, <2>4, <2>7, <2>8
  <2>12. /\ r.processedChilds \in 0 .. Arity(t, r.node) /\ r.onDone = (L - 1) - 1
         /\ r.processedChilds = Len(r.encryptedChilds)
         /\ \A i \in 1 .. Len(r.encryptedChilds) :
              r.encryptedChilds[i] = Encrypted(t)[Append(r.node, i)]
    BY <2>6, <2>9, <2>10, <2>11
  <2>13. L - 1 = Len(u) /\ ~(L - 1 < Len(u)) /\ r = u[L - 1]
    OBVIOUS
  <2>. QED  BY <2>12, <2>13, FrameIsRight, Zenon
<1>4. ASSUME NEW d \in 1 .. L - 1, d < L - 1  PROVE FrameRight(t, u, d)
  <2>1. FrameRight(t, s, d) /\ u[d] = s[d] /\ u[d + 1].node = s[d + 1].node
    BY <1>1, <1>4
  <2>. QED  BY <1>4, <2>1 DEF FrameRight
<1>. QED  BY <1>2, <1>3, <1>4, EmptySeq DEF Stacked

\* The collector of the root is the only one on the stack.
LEMMA PlainInitially ==
  ASSUME Plain!Init
  PROVE  PlainInv
<1>1. PICK v : v = Plain!Collector(Root, 0)
  OBVIOUS
<1>2. tree \in Trees /\ stack = <<v>> /\ plainMain = "running"
  BY <1>1, PlainOperators DEF Plain!Init
<1>3. Root \in tree /\ Arity(tree, Root) \in Nat
  BY <1>2, TreeShape
<1>4. /\ v \in Frame(tree) /\ v.node = Root /\ v.processedChilds = 0
      /\ Len(v.encryptedChilds) = 0 /\ v.onDone = 0
  BY <1>1, <1>3 DEF Plain!Collector, Frame
<1>5. PICK u \in Seq(Frame(tree)) : u = <<v>> /\ Len(u) = 1 /\ u[1] = v
  BY <1>4, OneElement, Zenon
<1>6. FrameRight(tree, u, 1)
  <2>1. /\ v.processedChilds \in 0 .. Arity(tree, v.node)
        /\ \A i \in 1 .. Len(v.encryptedChilds) :
             v.encryptedChilds[i] = Encrypted(tree)[Append(v.node, i)]
        /\ v.processedChilds = Len(v.encryptedChilds)
    BY <1>3, <1>4
  <2>2. v = u[1] /\ v.onDone = 1 - 1 /\ 1 = Len(u) /\ ~(1 < Len(u))
    BY <1>4, <1>5
  <2>. QED  BY <2>1, <2>2, FrameIsRight, Zenon
<1>7. Stacked(tree, u) /\ u # << >>
  BY <1>4, <1>5, <1>6, EmptySeq DEF Stacked
<1>8. Stacked(tree, stack) /\ stack # << >>
  BY <1>2, <1>5, <1>7
<1>. QED  BY <1>2, <1>8 DEF PlainInv

\* The next child of the top is pushed.
LEMMA PushChildKeeps ==
  ASSUME PlainInv, Plain!PushChild
  PROVE  PlainInv'
<1>1. tree \in Trees /\ Stacked(tree, stack)
  BY DEF PlainInv
<1>2. PICK s \in Seq(Frame(tree)) : s = stack /\ s # << >>
  BY <1>1 DEF Stacked, Plain!PushChild
<1>3. PICK L \in Nat : L = Len(s) /\ L > 0
  BY <1>2, EmptySeq
<1>4. PICK c \in Frame(tree) : c = s[L] /\ c = Plain!Top
  BY <1>2, <1>3 DEF Plain!Top
<1>5. PICK k \in Nat : k = c.processedChilds + 1
  BY DEF Frame
<1>6. c.processedChilds < Arity(tree, c.node)
  BY <1>4, PlainOperators DEF Plain!PushChild, Plain!ChildLeft
<1>7. PICK r : r = [c EXCEPT !.processedChilds = k]
  OBVIOUS
<1>8. /\ r \in Frame(tree) /\ r.node = c.node /\ r.processedChilds = k
       /\ r.encryptedChilds = c.encryptedChilds /\ r.onDone = c.onDone
  BY <1>7, ChildCounted
<1>9. PICK v \in Frame(tree) : /\ v = Plain!Collector(Append(c.node, k), L)
                               /\ v.node = Append(c.node, k) /\ v.processedChilds = 0
                               /\ Len(v.encryptedChilds) = 0 /\ v.onDone = L
  <2>1. Append(c.node, k) \in tree
    <3>1. c.node \in tree /\ c.processedChilds \in Nat /\ k \in 1 .. Arity(tree, c.node)
      BY <1>1, <1>5, <1>6, TreeShape DEF Frame
    <3>. QED  BY <1>1, <3>1, TreeShape DEF Child
  <2>2. PICK v : v = Plain!Collector(Append(c.node, k), L)
    OBVIOUS
  <2>3. PICK n \in tree : n = Append(c.node, k)
    BY <2>1
  <2>4. /\ v \in Frame(tree) /\ v.node = n /\ v.processedChilds = 0
        /\ Len(v.encryptedChilds) = 0 /\ v.onDone = L
    BY <2>2, <2>3 DEF Plain!Collector, Frame
  <2>. QED  BY <2>2, <2>3, <2>4
<1>10. stack' = Append([s EXCEPT ![L] = r], v)
  BY <1>2, <1>3, <1>4, <1>5, <1>7, <1>9 DEF Plain!PushChild
<1>11. PICK u : u = Append([s EXCEPT ![L] = r], v)
  OBVIOUS
<1>12. /\ u \in Seq(Frame(tree)) /\ u # << >>
       /\ Len(u) = L + 1 /\ u[L + 1] = v /\ u[L] = r
       /\ \A d \in 1 .. L : d # L => u[d] = s[d]
  BY <1>2, <1>3, <1>9, <1>11, <1>8, ReplaceAndPush
<1>13. Stacked(tree, u)
  <2>1. Stacked(tree, s) /\ s[L].processedChilds < Arity(tree, s[L].node)
    BY <1>1, <1>2, <1>4, <1>6
  <2>2. /\ r.node = s[L].node /\ r.processedChilds = s[L].processedChilds + 1
        /\ r.encryptedChilds = s[L].encryptedChilds /\ r.onDone = s[L].onDone
    BY <1>4, <1>5, <1>8
  <2>3. v.node = Append(s[L].node, r.processedChilds)
    BY <1>4, <1>9, <1>8
  <2>4. /\ tree \in Trees /\ L \in Nat /\ L > 0 /\ L = Len(s)
        /\ r \in Frame(tree) /\ v \in Frame(tree)
        /\ v.processedChilds = 0 /\ Len(v.encryptedChilds) = 0 /\ v.onDone = L
    BY <1>1, <1>3, <1>9, <1>8
  <2>. QED  BY <1>12, <2>1, <2>2, <2>3, <2>4, PushStacked
<1>14. plainMain \in {"running", "returned"} /\ plainMain # "returned"
  BY <1>2 DEF PlainInv
<1>15. stack' = u /\ UNCHANGED <<tree, plainRes, plainMain>>
  BY <1>10, <1>11 DEF Plain!PushChild
<1>. QED  BY <1>1, <1>12, <1>13, <1>14, <1>15 DEF PlainInv

\* The top is encrypted, and its result goes to the collector below it, or to res.
LEMMA EncryptTopKeeps ==
  ASSUME PlainInv, Plain!EncryptTop
  PROVE  PlainInv'
<1>1. tree \in Trees /\ Stacked(tree, stack)
  BY DEF PlainInv
<1>2. PICK s \in Seq(Frame(tree)) : s = stack /\ s # << >>
  BY <1>1 DEF Stacked, Plain!EncryptTop
<1>3. PICK L \in Nat : L = Len(s) /\ L > 0
  BY <1>2, EmptySeq
<1>4. PICK c \in Frame(tree) : c = s[L] /\ c = Plain!Top
  BY <1>2, <1>3 DEF Plain!Top
<1>5. c.node \in tree /\ Plain!EncryptNode(c.node, c.encryptedChilds) = Encrypted(tree)[c.node]
  <2>1. Stacked(tree, s) /\ ~(c.processedChilds < Arity(tree, c.node))
    BY <1>1, <1>2, <1>4, PlainOperators DEF Plain!EncryptTop, Plain!ChildLeft
  <2>2. EncryptNode(c.node, c.encryptedChilds) = Encrypted(tree)[c.node] /\ c.node \in tree
    <3>1. tree \in Trees /\ L \in Nat \ {0} /\ L = Len(s) /\ c = s[L]
      BY <1>1, <1>3, <1>4
    <3>. QED  BY <2>1, <3>1, TopResult
  <2>. QED  BY <2>2, PlainOperators
<1>6. PICK e \in Results(tree) : e = Encrypted(tree)[c.node]
  BY <1>5 DEF Results
<1>7. c.onDone = L - 1 /\ (L = 1 => c.node = Root)
  <2>1. FrameRight(tree, s, L) /\ s[1].node = Root
    BY <1>1, <1>2, <1>3 DEF Stacked
  <2>. QED  BY <1>4, <2>1 DEF FrameRight
<1>8. UNCHANGED <<tree, plainMain>> /\ plainMain \in {"running", "returned"}
      /\ plainMain # "returned"
  BY <1>2 DEF PlainInv, Plain!EncryptTop
<1>9. CASE L = 1
  <2>1. stack' = Plain!Front(stack) /\ plainRes' = e
    BY <1>4, <1>5, <1>6, <1>7, <1>9 DEF Plain!EncryptTop
  <2>2. stack' = Front(s)
    BY <1>2, <2>1, PlainOperators
  <2>3. PICK u : u = Front(s)
    OBVIOUS
  <2>4. u \in Seq(Frame(tree)) /\ u = << >>
    BY <1>2, <1>3, <1>9, <2>3, FrontOfOne
  <2>5. Stacked(tree, u)
    <3>1. \A d \in 1 .. Len(u) : FALSE
      BY <2>4, EmptySeq
    <3>. QED  BY <2>4, <3>1 DEF Stacked
  <2>6. stack' = u /\ plainRes' = Encrypted(tree)[Root]
    BY <1>6, <1>7, <1>9, <2>1, <2>2, <2>3
  <2>. QED  BY <1>1, <1>8, <2>4, <2>5, <2>6 DEF PlainInv
<1>10. CASE L > 1
  <2>1. PICK b \in Frame(tree) : b = s[L - 1]
    BY <1>2, <1>3, <1>10
  <2>2. PICK r : r = [b EXCEPT !.encryptedChilds = Append(@, e)]
    OBVIOUS
  <2>3. /\ r \in Frame(tree) /\ r.node = b.node /\ r.processedChilds = b.processedChilds
        /\ r.encryptedChilds = Append(b.encryptedChilds, e) /\ r.onDone = b.onDone
    BY <1>6, <2>1, <2>2, ResultAdded
  <2>4. /\ stack' = Plain!Front([stack EXCEPT ![L - 1].encryptedChilds = Append(@, e)])
        /\ UNCHANGED plainRes
    BY <1>4, <1>5, <1>6, <1>7, <1>10 DEF Plain!EncryptTop
  <2>5. stack' = Front([s EXCEPT ![L - 1] = r])
    BY <1>2, <1>3, <1>10, <2>1, <2>2, <2>4, PlainOperators
  <2>6. PICK w : w = [s EXCEPT ![L - 1] = r]
    OBVIOUS
  <2>7. /\ w \in Seq(Frame(tree)) /\ Len(w) = L /\ w[L - 1] = r
         /\ \A d \in 1 .. L : d # L - 1 => w[d] = s[d]
    <3>1. L - 1 \in 1 .. Len(s)
      BY <1>3, <1>10
    <3>. QED  BY <1>2, <1>3, <2>6, <2>3, <3>1, ElementChanged
  <2>8. PICK u : u = Front(w)
    OBVIOUS
  <2>9. /\ u \in Seq(Frame(tree)) /\ u # << >>
        /\ Len(u) = L - 1 /\ u[L - 1] = r
        /\ \A d \in 1 .. L - 1 : d # L - 1 => u[d] = s[d]
    <3>1. /\ L \in Nat /\ L = Len(s) /\ L > 1
          /\ s \in Seq(Frame(tree)) /\ r \in Frame(tree)
      BY <1>2, <1>3, <1>10, <2>3
    <3>. QED  BY <2>7, <2>8, <3>1, PopReplaced
  <2>10. Stacked(tree, u)
    <3>1. /\ tree \in Trees /\ L \in Nat /\ L > 1 /\ L = Len(s) /\ Stacked(tree, s)
          /\ r \in Frame(tree)
      BY <1>1, <1>2, <1>3, <1>10, <2>3
    <3>2. /\ r.node = s[L - 1].node /\ r.processedChilds = s[L - 1].processedChilds
          /\ r.onDone = s[L - 1].onDone
      BY <2>1, <2>3
    <3>3. r.encryptedChilds = Append(s[L - 1].encryptedChilds, Encrypted(tree)[s[L].node])
      BY <1>4, <1>6, <2>1, <2>3
    <3>. QED  BY <2>9, <3>1, <3>2, <3>3, PopStacked
  <2>11. stack' = u
    BY <2>5, <2>6, <2>8
  <2>. QED  BY <1>1, <1>8, <2>4, <2>9, <2>10, <2>11 DEF PlainInv
<1>. QED  BY <1>3, <1>9, <1>10

\* Every step of the sequential call, and none, keep its invariant.
LEMMA PlainNextKeeps ==
  ASSUME PlainInv, Plain!Next \/ UNCHANGED <<tree, plainVars>>
  PROVE  PlainInv'
<1>1. CASE Plain!Return
  BY <1>1 DEF PlainInv, Plain!Return
<1>2. CASE UNCHANGED <<tree, plainVars>>
  BY <1>2 DEF PlainInv, plainVars
<1>. QED  BY <1>1, <1>2, PushChildKeeps, EncryptTopKeeps DEF Plain!Next

-----------------------------------------------------------------------------
(***************************************************************************)
(* Both calls.                                                             *)
(***************************************************************************)

\* The client makes its first call.
LEMMA XmlInitially ==
  XmlInit => XmlIInv
<1>. SUFFICES ASSUME XmlInit  PROVE XmlIInv
  OBVIOUS
<1>1. MtInv /\ PlainInv
  BY MtInitially, PlainInitially DEF XmlInit
<1>2. main # "returned"
  BY DEF XmlInit, Mt!Init
<1>. QED  BY <1>1, <1>2 DEF XmlIInv

\* The calls only read the tree.
LEMMA TreeStays ==
  /\ Plain!Next => UNCHANGED tree
  /\ Mt!Next => UNCHANGED tree
<1>1. Plain!Next => UNCHANGED tree
  BY DEF Plain!Next, Plain!PushChild, Plain!EncryptTop, Plain!Return
<1>2. Mt!Caller \/ Mt!SpuriousWakeup \/ Mt!Returned => UNCHANGED tree
  BY DEF Mt!Caller, Mt!SubmitLeaf, Mt!EnqueueChildren, Mt!Walked, Mt!Wait, Mt!SpuriousWakeup,
         Mt!Returned, Mt!vars
<1>3. ASSUME NEW j \in DOMAIN tasks, Mt!TaskStep(j)  PROVE UNCHANGED tree
  BY <1>3 DEF Mt!TaskStep, Mt!Encrypt, Mt!Store, Mt!CountOff, Mt!SetResult, Mt!Notify
<1>. QED  BY <1>1, <1>2, <1>3 DEF Mt!Next

\* Every step of either call keeps the invariant of both.
LEMMA XmlInductive ==
  XmlIInv /\ [XmlNext]_xmlVars => XmlIInv'
<1>. SUFFICES ASSUME XmlIInv, [XmlNext]_xmlVars  PROVE XmlIInv'
  OBVIOUS
<1>1. CASE First
  <2>1. UNCHANGED <<tree, mtVars>> /\ Plain!Next
    BY <1>1, TreeStays DEF First
  <2>2. PlainInv'
    BY <2>1, PlainNextKeeps DEF XmlIInv
  <2>3. MtInv'
    BY <2>1, CallerKeeps DEF XmlIInv, mtVars
  <2>4. plainMain # "returned"
    BY <2>1 DEF XmlIInv, PlainInv, Plain!Next, Plain!PushChild, Plain!EncryptTop, Plain!Return
  <2>. QED  BY <2>1, <2>2, <2>3, <2>4 DEF XmlIInv, mtVars
<1>2. CASE Second(Mt!Next)
  <2>1. UNCHANGED <<tree, plainVars>> /\ Mt!Next /\ plainMain = "returned"
    BY <1>2, TreeStays DEF Second, XmlIInv
  <2>2. PlainInv'
    BY <2>1, PlainNextKeeps DEF XmlIInv
  <2>3. MtInv'
    BY <2>1, MtNextKeeps DEF XmlIInv
  <2>. QED  BY <2>1, <2>2, <2>3 DEF XmlIInv, plainVars
<1>3. CASE UNCHANGED xmlVars
  BY <1>3, PlainNextKeeps, CallerKeeps DEF XmlIInv, xmlVars, plainVars, mtVars
<1>. QED  BY <1>1, <1>2, <1>3 DEF XmlNext

\* The invariant has the types.
LEMMA XmlTypes ==
  XmlIInv => XmlTypeOK
<1>. SUFFICES ASSUME XmlIInv  PROVE XmlTypeOK
  OBVIOUS
<1>. USE DEF Collected
<1>1. tree \in Trees /\ Collected \subseteq tree /\ MtTyped
  BY DEF XmlIInv, MtInv, MtTyped
<1>2. ASSUME NEW n \in Collected
      PROVE  remainChilds[n] \in 0 .. Arity(tree, n) /\ Len(encryptedChilds[n]) = Arity(tree, n)
  <2>1. PICK k \in Nat : k = Arity(tree, n)
    BY <1>1, TreeShape
  <2>2. PICK S : S = {i \in 1 .. k : ~Ended(tasks, Child(n, i))}
    OBVIOUS
  <2>3. remainChilds[n] = Cardinality(S)
    BY <2>1, <2>2 DEF XmlIInv, MtInv, RemainExact
  <2>4. Cardinality(S) \in Nat /\ Cardinality(S) <= Cardinality(1 .. k)
    BY <2>2, FS_Subset, FS_Interval, FS_CardinalityType
  <2>5. Cardinality(1 .. k) = k
    BY <2>1, FS_Interval
  <2>6. encryptedChilds[n] \in [1 .. k -> Results(tree)]
    BY <1>1, <2>1 DEF MtTyped
  <2>7. Len(encryptedChilds[n]) = k
    BY <2>1, <2>6
  <2>. QED  BY <2>1, <2>3, <2>4, <2>5, <2>7
<1>3. \A j \in DOMAIN tasks : tasks[j].node \in tree /\ tasks[j].at \in Stages
  <2>1. \A j \in DOMAIN tasks : tasks[j] \in NodeTask(tree)
    BY <1>1 DEF MtTyped
  <2>. QED  BY <2>1 DEF NodeTask
<1>4. Mt!TypeOK
  BY <1>1, <1>2, <1>3, MtOperators DEF Mt!TypeOK, MtTyped, Stages
<1>5. Plain!TypeOK
  BY PlainInvImplies DEF XmlIInv
<1>. QED  BY <1>4, <1>5 DEF XmlTypeOK

\* It has the right results, partial and final.
LEMMA ResultsAgree ==
  XmlIInv => PartialResults
<1>. SUFFICES ASSUME XmlIInv  PROVE PartialResults
  OBVIOUS
<1>. USE DEF Collected
<1>1. Plain!PartialResults
  BY PlainInvImplies DEF XmlIInv
<1>2. main = "returned" => res = plainRes
  BY DEF XmlIInv, MtInv, Finished, PlainInv
<1>3. \A i, j \in DOMAIN tasks : tasks[i].node = tasks[j].node => i = j
  BY DEF XmlIInv, MtInv, Submissions, SubmittedOnce
<1>4. \A j \in DOMAIN tasks :
        tasks[j].at = "submitted" \/ tasks[j].encrypted = Encrypted(tree)[tasks[j].node]
  BY DEF XmlIInv, MtInv, TaskRight
<1>5. \A n \in DOMAIN encryptedChilds : \A i \in DOMAIN encryptedChilds[n] :
        encryptedChilds[n][i] \in {Nothing, Encrypted(tree)[Append(n, i)]}
  <2>. SUFFICES ASSUME NEW n \in DOMAIN encryptedChilds, NEW i \in DOMAIN encryptedChilds[n]
                PROVE  encryptedChilds[n][i] \in {Nothing, Encrypted(tree)[Append(n, i)]}
    OBVIOUS
  <2>1. n \in Collected /\ i \in 1 .. Arity(tree, n)
    BY DEF XmlIInv, MtInv, MtTyped
  <2>. QED  BY <2>1 DEF XmlIInv, MtInv, PlacesRight, Child
<1>6. resultDone => res = Encrypted(tree)[Root]
  BY DEF XmlIInv, MtInv, Finished
<1>7. Mt!PartialResults
  BY <1>3, <1>4, <1>5, <1>6, MtOperators DEF Mt!PartialResults
<1>. QED  BY <1>1, <1>2, <1>7 DEF PartialResults

\* Once the second call has returned, the root's task is the only one that may not have
\* ended, and that one has at most its notification left.
LEMMA NotificationLate ==
  XmlIInv => OnlyNotifyLate
<1>. SUFFICES ASSUME XmlIInv, main = "returned", NEW j \in DOMAIN tasks
              PROVE  \/ tasks[j].at = "ended"
                     \/ tasks[j].at = "notifying" /\ tasks[j].node = Root
  BY MtOperators DEF OnlyNotifyLate, Mt!OnlyNotifyLate
<1>1. MtInv /\ SubmittedOnce(tasks)
  BY DEF XmlIInv, MtInv, Submissions
<1>2. PICK i \in DOMAIN tasks : tasks[i].node = Root /\ tasks[i].at \in {"notifying", "ended"}
  BY DEF XmlIInv, MtInv, Finished
<1>3. CASE tasks[j].node = Root
  BY <1>1, <1>2, <1>3 DEF SubmittedOnce
<1>4. CASE tasks[j].node # Root
  <2>1. HasTask(tasks, Root)
    BY <1>2 DEF HasTask
  <2>2. tasks[j].node \in Collected
    BY <1>1, ReadyToEncrypt
  <2>3. Ended(tasks, tasks[j].node)
    BY <1>1, <1>4, <2>1, <2>2, OthersEnded
  <2>. QED  BY <1>1, <2>3, TaskIs
<1>. QED  BY <1>3, <1>4

\* Whatever the tree, the stack of the sequential call and the collectors and tasks of
\* the other have their types: no count of children falls below zero or exceeds their
\* number, and each collector keeps a place per child.
THEOREM EncryptorsTypeCorrect ==
  XmlSpec => []XmlTypeOK
BY XmlInitially, XmlInductive, XmlTypes, PTL DEF XmlSpec

\* Whatever the tree and the order in which tasks run, no node is submitted twice; each is
\* encrypted from the results of all its children, none of which is in the place of
\* another; and both encryptXmlTree yield what the recursive definition does.
THEOREM EncryptorsAgree ==
  XmlSpec => []PartialResults
BY XmlInitially, XmlInductive, ResultsAgree, PTL DEF XmlSpec

\* Whatever the tree, when encryptXmlTree of xmlEncryptorMt.cpp has returned and its
\* caller has taken the tree and cv away, no task has a step left but that of the root,
\* its notify_one (a Submit, all of it, being part of the step of its caller).
THEOREM NothingButNotificationLate ==
  XmlSpec => []OnlyNotifyLate
BY XmlInitially, XmlInductive, NotificationLate, PTL DEF XmlSpec
=============================================================================
