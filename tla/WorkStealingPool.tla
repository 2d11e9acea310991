--------------------------- MODULE WorkStealingPool ---------------------------
(***************************************************************************)
(* xmlEncryptor/workStealingPool.cpp: a pool of workers, each with a queue *)
(* of tasks of its own, that steal from one another and sleep on one       *)
(* condition variable when they find nothing.                              *)
(*                                                                         *)
(* The main thread constructs the pool, submits tasks, waits for them and  *)
(* destroys the pool; a running task may submit further tasks.  A task is  *)
(* numbered by the order in which tasks are counted.                       *)
(*                                                                         *)
(* Steps are apart wherever another thread can get in between.  Mutexes    *)
(* have no variables: who holds one shows in where the threads are.        *)
(***************************************************************************)
EXTENDS Integers, Sequences, FiniteSets, SequencesExt

CONSTANTS NumThreads,  \* the constructor's argument
          MaxTasks     \* bound: tasks submitted

ASSUME PoolAssumption == NumThreads \in Nat \ {0} /\ MaxTasks \in Nat

VARIABLES queue,        \* workers[i]->tasks
          submitIdx,    \* modulo workers.size(), as it is used
          activeTasks,
          at,           \* where each thread is
          scan,         \* the queue, or the worker, its loop or call is at
          hand,         \* the task a worker has taken
          giving,       \* the task a thread is submitting
          created,      \* history: tasks counted so far
          direct,       \* those submitted with SubmitToWorker
          done          \* history: tasks whose wrapper has counted them off

shared == <<queue, submitIdx, activeTasks>>
history == <<created, direct, done>>
vars == <<shared, at, scan, hand, giving, history>>

Worker == 0 .. NumThreads - 1
Main == NumThreads
Thread == 0 .. NumThreads
Task == 1 .. MaxTasks
NoTask == 0

\* Where a thread holds workers[scan]->mtx.
HoldsQueue == {"popping", "stealing", "pushing", "pushingTo", "notifyTo", "unlockTo"}

\* Where it is about to lock it, or to try.
WantsQueue == {"own", "steal", "lock", "lockTo", "othersTest"}

\* Where a worker holds idleMtx: in the predicate of idleCv.wait, up to its sleep.
HoldsIdle == {"ownTest", "othersTest", "blocking"}

\* Where a thread is about to use a member declared after workers, or has idleMtx
\* locked: a counter, a condition variable or its mutex.
UsesMember ==
  HoldsIdle \cup {"idle", "running", "signal", "signalLocked", "index", "notify", "notifyTo"}

\* workers[q]->mtx, idleMtx and allDoneMtx are free.
QueueFree(q) == \A t \in Thread : ~(at[t] \in HoldsQueue /\ scan[t] = q)
IdleFree == \A w \in Worker : at[w] \notin HoldsIdle
AllDoneFree == at[Main] # "waitBlocking"

\* The workers that have been asked to stop, and those whose queue has been freed.
Stopped ==
  CASE at[Main] = "stopping"                       -> 0 .. scan[Main] - 1
    [] at[Main] \in {"notifyAll", "joining", "gone"} -> Worker
    [] OTHER                                       -> {}

Freed ==
  CASE at[Main] = "joining" -> 0 .. scan[Main] - 1
    [] at[Main] = "gone"    -> Worker
    [] OTHER                -> {}

Init ==
  /\ queue = [w \in Worker |-> << >>]
  /\ submitIdx = 0 /\ activeTasks = 0
  /\ at = [t \in Thread |-> IF t = Main THEN "appending" ELSE "unstarted"]
  /\ scan = [t \in Thread |-> 0]
  /\ hand = [w \in Worker |-> NoTask]
  /\ giving = [t \in Thread |-> NoTask]
  /\ created = 0 /\ direct = {} /\ done = {}

Goto(t, from, to) == at[t] = from /\ at' = [at EXCEPT ![t] = to]

\* workers.size().  The first workers read it while the constructor appends: the
\* vector has been reserved, and a read sees the old size or the new one.
Size ==
  CASE at[Main] = "appending" -> scan[Main]
    [] at[Main] = "starting"  -> scan[Main] + 1
    [] OTHER                  -> NumThreads

\* The loop of thread t goes to queue q; past the last queue, to place end.
ScanTo(t, q, place, end) ==
  IF q < Size
    THEN at' = [at EXCEPT ![t] = place] /\ scan' = [scan EXCEPT ![t] = q]
    ELSE at' = [at EXCEPT ![t] = end]   /\ scan' = [scan EXCEPT ![t] = 0]

\* The first queue from i on that is not worker w's own.
OtherFrom(w, i) == IF i = w THEN i + 1 ELSE i

-----------------------------------------------------------------------------
(***************************************************************************)
(* The constructor.                                                        *)
(***************************************************************************)
\* workers.push_back(...)
Construct ==
  /\ Goto(Main, "appending", "starting")
  /\ UNCHANGED <<shared, scan, hand, giving, history>>

\* The thread of the new worker is started, and runs from then on.
StartWorker ==
  /\ at[Main] = "starting"
  /\ LET last == Size = NumThreads
     IN  /\ at' = [at EXCEPT ![scan[Main]] = "top", ![Main] = IF last THEN "ready" ELSE "appending"]
         /\ scan' = [scan EXCEPT ![Main] = IF last THEN 0 ELSE @ + 1]
  /\ UNCHANGED <<shared, hand, giving, history>>

-----------------------------------------------------------------------------
(***************************************************************************)
(* The workers' loop: tryPopOwn, trySteal, the task.                       *)
(***************************************************************************)
\* while (!token.stop_requested())
Top(w) ==
  /\ at[w] = "top"
  /\ at' = [at EXCEPT ![w] = IF w \in Stopped THEN "exited" ELSE "own"]
  /\ scan' = [scan EXCEPT ![w] = IF w \in Stopped THEN 0 ELSE w]
  /\ UNCHANGED <<shared, hand, giving, history>>

\* lock_guard on workers[scan]->mtx, in tryPopOwn, trySteal and the two Submits.
LockQueue(t) ==
  /\ scan[t] \notin Freed /\ QueueFree(scan[t])
  /\ \/ Goto(t, "own", "popping")
     \/ Goto(t, "steal", "stealing")
     \/ Goto(t, "lock", "pushing")
     \/ Goto(t, "lockTo", "pushingTo")
  /\ UNCHANGED <<shared, scan, hand, giving, history>>

\* The rest of tryPopOwn: the newest task, or on to stealing.
PopOwn(w) ==
  /\ at[w] = "popping"
  /\ IF queue[w] = << >>
       THEN /\ ScanTo(w, OtherFrom(w, 0), "steal", "idle")
            /\ UNCHANGED <<queue, hand>>
       ELSE /\ hand' = [hand EXCEPT ![w] = Last(queue[w])]
            /\ queue' = [queue EXCEPT ![w] = Front(@)]
            /\ at' = [at EXCEPT ![w] = "running"] /\ scan' = [scan EXCEPT ![w] = 0]
  /\ UNCHANGED <<submitIdx, activeTasks, giving, history>>

\* Mutant: the task stays in the queue it is stolen from.
NotStolen(s) == s

\* pop_front()
Stolen(s) == Tail(s)

\* Mutant: the last task of a queue is left to its owner.
HasTwo(s) == Len(s) > 1

\* !tasks.empty(), as trySteal tests it.
Stealable(s) == s # << >>

\* The rest of one iteration of trySteal: the oldest task, or the next queue.
Steal(w) ==
  /\ at[w] = "stealing" /\ scan[w] \notin Freed
  /\ IF Stealable(queue[scan[w]])
       THEN /\ hand' = [hand EXCEPT ![w] = Head(queue[scan[w]])]
            /\ queue' = [queue EXCEPT ![scan[w]] = Stolen(@)]
            /\ at' = [at EXCEPT ![w] = "running"] /\ scan' = [scan EXCEPT ![w] = 0]
       ELSE /\ ScanTo(w, OtherFrom(w, scan[w] + 1), "steal", "idle")
            /\ UNCHANGED <<queue, hand>>
  /\ UNCHANGED <<submitIdx, activeTasks, giving, history>>

\* Mutant: no wrapper takes allDoneMtx.
SignalsUnlocked(k) == FALSE

\* Only the wrapper of SubmitToWorker notifies allDoneCv holding allDoneMtx.
SignalsLocked(k) == k \in direct

\* The task returns and its wrapper counts it off.
Finish(w) ==
  /\ at[w] = "running"
  /\ activeTasks' = activeTasks - 1
  /\ done' = done \cup {hand[w]}
  /\ hand' = [hand EXCEPT ![w] = NoTask]
  /\ at' = [at EXCEPT ![w] = IF activeTasks # 1 THEN "top"
                             ELSE IF SignalsLocked(hand[w]) THEN "signalLocked"
                             ELSE "signal"]
  /\ UNCHANGED <<queue, submitIdx, scan, giving, created, direct>>

\* allDoneCv.notify_all() by the last task's wrapper.
Signal(w) ==
  /\ at[w] = "signal" \/ (at[w] = "signalLocked" /\ AllDoneFree)
  /\ at' = [at EXCEPT ![w] = "top",
                      ![Main] = IF @ = "waiting" THEN "wait" ELSE @]
  /\ UNCHANGED <<shared, scan, hand, giving, history>>

-----------------------------------------------------------------------------
(***************************************************************************)
(* idleCv.wait: the predicate reads one thing after another, holding       *)
(* idleMtx, which no Submit and no destructor takes.                       *)
(***************************************************************************)
\* The worker locks idleMtx, first or after a wakeup, and tests its stop token.
TestStop(w) ==
  /\ at[w] = "idle" /\ IdleFree
  /\ at' = [at EXCEPT ![w] = IF w \in Stopped THEN "top" ELSE "ownTest"]
  /\ UNCHANGED <<shared, scan, hand, giving, history>>

\* Its own queue is read without its mutex: while another thread holds that, the
\* read races with a change and may say either.
TestOwn(w) ==
  /\ at[w] = "ownTest"
  /\ \E nonEmpty \in IF QueueFree(w) THEN {queue[w] # << >>} ELSE BOOLEAN :
       IF nonEmpty
         THEN at' = [at EXCEPT ![w] = "top"] /\ UNCHANGED scan
         ELSE ScanTo(w, OtherFrom(w, 0), "othersTest", "blocking")
  /\ UNCHANGED <<shared, hand, giving, history>>

\* try_lock of another queue's mutex; a queue whose mutex is held counts as empty.
TestOther(w) ==
  /\ at[w] = "othersTest" /\ scan[w] \notin Freed
  /\ IF QueueFree(scan[w]) /\ queue[scan[w]] # << >>
       THEN at' = [at EXCEPT ![w] = "top"] /\ scan' = [scan EXCEPT ![w] = 0]
       ELSE ScanTo(w, OtherFrom(w, scan[w] + 1), "othersTest", "blocking")
  /\ UNCHANGED <<shared, hand, giving, history>>

\* The predicate was false: idleMtx is released and the worker sleeps, in one step.
Block(w) ==
  /\ Goto(w, "blocking", "asleep")
  /\ UNCHANGED <<shared, scan, hand, giving, history>>

WorkerStep(w) ==
  \/ Top(w) \/ PopOwn(w) \/ Steal(w) \/ Finish(w) \/ Signal(w)
  \/ TestStop(w) \/ TestOwn(w) \/ TestOther(w) \/ Block(w)

\* A condition variable may wake without a notification.
SpuriousWakeup(t) ==
  /\ \/ Goto(t, "asleep", "idle")
     \/ Goto(t, "waiting", "wait")
  /\ UNCHANGED <<shared, scan, hand, giving, history>>

-----------------------------------------------------------------------------
(***************************************************************************)
(* Submit and SubmitToWorker, called by the main thread and by tasks.      *)
(***************************************************************************)
Asleep == {w \in Worker : at[w] = "asleep"}

\* Where thread t is when it is not inside a call.
Home(t) == IF t = Main THEN "ready" ELSE "running"

\* Mutant: a submission is not counted.
CountNothing == activeTasks

\* activeTasks.fetch_add(1)
Counted == activeTasks + 1

\* The call begins: the task is counted.
Count(t) ==
  /\ created < MaxTasks
  /\ created' = created + 1
  /\ giving' = [giving EXCEPT ![t] = created + 1]
  /\ activeTasks' = Counted
  /\ UNCHANGED <<queue, submitIdx, hand, done>>

Submit(t) ==
  /\ Goto(t, Home(t), "index") /\ Count(t)
  /\ UNCHANGED <<scan, direct>>

SubmitToWorker(t, w) ==
  /\ Goto(t, Home(t), "lockTo") /\ Count(t)
  /\ scan' = [scan EXCEPT ![t] = w]
  /\ direct' = direct \cup {created + 1}

\* Mutant: the index is not taken modulo the number of workers.
IndexUnbounded == submitIdx + 1

\* submitIdx after fetch_add(1).
NextIndex == (submitIdx + 1) % NumThreads

\* Submit chooses the queue.
Index(t) ==
  /\ Goto(t, "index", "lock")
  /\ scan' = [scan EXCEPT ![t] = submitIdx]
  /\ submitIdx' = NextIndex
  /\ UNCHANGED <<queue, activeTasks, hand, giving, history>>

\* push_back of the wrapper.  Submit releases the mutex, SubmitToWorker keeps it.
Push(t) ==
  /\ scan[t] \notin Freed
  /\ \/ Goto(t, "pushing", "notify")
     \/ Goto(t, "pushingTo", "notifyTo")
  /\ queue' = [queue EXCEPT ![scan[t]] = Append(@, giving[t])]
  /\ UNCHANGED <<submitIdx, activeTasks, scan, hand, giving, history>>

\* Mutant: notify_one() reaches no one.
WakeNobody == {at}

\* idleCv.notify_one(): at with one sleeper woken, or with none if none sleeps.
WakeOne ==
  IF Asleep = {} THEN {at} ELSE {[at EXCEPT ![w] = "idle"] : w \in Asleep}

\* The notification: the last of Submit, in SubmitToWorker still under the mutex.
Notify(t) ==
  /\ \/ /\ at[t] = "notify"
        /\ \E woken \in WakeOne : at' = [woken EXCEPT ![t] = Home(t)]
        /\ scan' = [scan EXCEPT ![t] = 0] /\ giving' = [giving EXCEPT ![t] = NoTask]
     \/ /\ at[t] = "notifyTo"
        /\ \E woken \in WakeOne : at' = [woken EXCEPT ![t] = "unlockTo"]
        /\ UNCHANGED <<scan, giving>>
  /\ UNCHANGED <<shared, hand, history>>

\* SubmitToWorker's lock_guard goes out of scope.
Unlock(t) ==
  /\ scan[t] \notin Freed
  /\ Goto(t, "unlockTo", Home(t))
  /\ scan' = [scan EXCEPT ![t] = 0] /\ giving' = [giving EXCEPT ![t] = NoTask]
  /\ UNCHANGED <<shared, hand, history>>

\* A thread that locks or holds the mutex of a queue that has been freed.  What
\* the program does then is undefined; in the model the thread goes no further.
UseFreed(t) ==
  /\ at[t] \in HoldsQueue \cup WantsQueue /\ scan[t] \in Freed
  /\ at' = [at EXCEPT ![t] = "undefined"]
  /\ UNCHANGED <<shared, scan, hand, giving, history>>

\* Members are destroyed in the reverse order of their declaration: idleMtx, idleCv,
\* allDoneCv, allDoneMtx, activeTasks and submitIdx before workers, so before any
\* thread is joined.  What the program does when it uses one then is undefined: it
\* may go on as if the member were still there, as the other actions have it, or do
\* anything else, and in the model the thread goes no further.
UseDestroyed(t) ==
  /\ at[Main] = "joining" /\ at[t] \in UsesMember
  /\ at' = [at EXCEPT ![t] = "undefinedMember"]
  /\ UNCHANGED <<shared, scan, hand, giving, history>>

CallStep(t) ==
  \/ LockQueue(t) \/ Index(t) \/ Push(t) \/ Notify(t) \/ Unlock(t)
  \/ UseFreed(t) \/ UseDestroyed(t)

-----------------------------------------------------------------------------
(***************************************************************************)
(* WaitAllTasksDone and the destructor, called by the main thread.         *)
(***************************************************************************)
WaitAllTasksDone ==
  /\ Goto(Main, "ready", "wait")
  /\ UNCHANGED <<shared, scan, hand, giving, history>>

\* Mutant: the last task is not waited for.
AtMostOne == activeTasks <= 1

\* The predicate of allDoneCv.wait.
AllDone == activeTasks = 0

\* allDoneMtx is locked and the predicate evaluated.
TestDone ==
  /\ Goto(Main, "wait", IF AllDone THEN "ready" ELSE "waitBlocking")
  /\ UNCHANGED <<shared, scan, hand, giving, history>>

\* allDoneMtx is released and the main thread sleeps, in one step.
WaitBlock ==
  /\ Goto(Main, "waitBlocking", "waiting")
  /\ UNCHANGED <<shared, scan, hand, giving, history>>

Destroy ==
  /\ Goto(Main, "ready", "stopping")
  /\ UNCHANGED <<shared, scan, hand, giving, history>>

\* request_stop() of one worker after the other.
RequestStop ==
  /\ at[Main] = "stopping"
  /\ ScanTo(Main, scan[Main] + 1, "stopping", "notifyAll")
  /\ UNCHANGED <<shared, hand, giving, history>>

\* Mutant: the destructor notifies nobody.
WakeNone == {}

\* The workers that idleCv.notify_all() wakes.
WakeAll == Asleep

NotifyAll ==
  /\ at[Main] = "notifyAll"
  /\ at' = [t \in Thread |-> IF t = Main THEN "joining"
                             ELSE IF t \in WakeAll THEN "idle" ELSE at[t]]
  /\ UNCHANGED <<shared, scan, hand, giving, history>>

\* The vector's elements are destroyed in their order: the thread is joined, the
\* queue freed with the tasks still in it.  The members declared after the vector
\* are gone by then (UseDestroyed).
JoinAndFree ==
  /\ at[Main] = "joining" /\ at[scan[Main]] = "exited"
  /\ ScanTo(Main, scan[Main] + 1, "joining", "gone")
  /\ queue' = [queue EXCEPT ![scan[Main]] = << >>]
  /\ UNCHANGED <<submitIdx, activeTasks, hand, giving, history>>

MainStep ==
  \/ Construct \/ StartWorker
  \/ TestDone \/ WaitBlock
  \/ RequestStop \/ NotifyAll \/ JoinAndFree

\* A thread has used what is no longer there: the program's behaviour is undefined.
Undefined == \E t \in Thread : at[t] \in {"undefined", "undefinedMember"}

\* The pool is gone, or the program's behaviour undefined.
Over ==
  /\ at[Main] = "gone" \/ Undefined
  /\ UNCHANGED vars

Step(t) == CallStep(t) \/ (t \in Worker /\ WorkerStep(t)) \/ (t = Main /\ MainStep)

Next ==
  \/ \E t \in Thread :
       \/ Step(t) \/ SpuriousWakeup(t) \/ Submit(t)
       \/ \E w \in Worker : SubmitToWorker(t, w)
  \/ WaitAllTasksDone \/ Destroy \/ Over

Spec == Init /\ [][Next]_vars

\* Each thread is scheduled by the operating system, tasks return, and a call that
\* has begun goes on.  Nobody has to submit, wait or destroy, no spurious wakeup
\* has to come, and they do not come for ever.
Fairness ==
  /\ \A t \in Thread : WF_vars(Step(t))
  /\ <>[][\A t \in Thread : ~SpuriousWakeup(t)]_vars

FairSpec == Spec /\ Fairness

-----------------------------------------------------------------------------
(***************************************************************************)
(* Properties.                                                             *)
(***************************************************************************)
WorkerPlaces ==
  {"unstarted", "top", "own", "popping", "steal", "stealing", "running", "signal", "signalLocked",
   "idle", "ownTest", "othersTest", "blocking", "asleep", "exited"}
CallPlaces ==
  {"index", "lock", "pushing", "notify", "lockTo", "pushingTo", "notifyTo", "unlockTo",
   "undefined", "undefinedMember"}
MainPlaces ==
  {"appending", "starting", "ready", "wait", "waitBlocking", "waiting",
   "stopping", "notifyAll", "joining", "gone"}

TypeOK ==
  /\ queue \in [Worker -> Seq(Task)]
  /\ submitIdx \in Worker
  /\ activeTasks \in 0 .. MaxTasks
  /\ at \in [Thread -> WorkerPlaces \cup CallPlaces \cup MainPlaces]
  /\ \A w \in Worker : at[w] \notin MainPlaces
  /\ at[Main] \notin WorkerPlaces
  /\ scan \in [Thread -> Worker]
  /\ hand \in [Worker -> Task \cup {NoTask}]
  /\ giving \in [Thread -> Task \cup {NoTask}]
  /\ created \in 0 .. MaxTasks
  /\ direct \subseteq Task /\ done \subseteq Task

\* The destructor has been called.
Destroying == at[Main] \in {"stopping", "notifyAll", "joining", "gone"}

\* The threads with a task between its count and its push_back.
SubmitPlaces == {"index", "lock", "pushing", "lockTo", "pushingTo"}
Submitters == {t \in Thread : at[t] \in SubmitPlaces}

Queued(w) == ToSet(queue[w])

\* No queue has been freed yet, with the tasks in it.
QueuesAlive ==
  at[Main] \notin {"joining", "gone"} /\ \A t \in Thread : at[t] # "undefined"

\* Each task is at exactly one place, whatever is popped, stolen and submitted at
\* the same time: none is queued or run twice, and none is lost, until the
\* destructor drops the queues it frees.
TaskPlaces ==
  /\ \A w \in Worker : IsInjective(queue[w])
  /\ \A w \in Worker : \A k \in Queued(w) :
       /\ k \notin done
       /\ \A v \in Worker : k # hand[v] /\ (k \in Queued(v) => v = w)
  /\ \A w \in Worker :
       /\ hand[w] \notin done
       /\ \A v \in Worker : hand[v] = hand[w] => v = w \/ hand[w] = NoTask
  /\ \A t \in Submitters :
       /\ giving[t] \notin done
       /\ \A w \in Worker : giving[t] \notin Queued(w) /\ giving[t] # hand[w]
       /\ \A u \in Submitters : giving[u] = giving[t] => u = t
  /\ QueuesAlive =>
       \A k \in 1 .. created :
         \/ k \in done
         \/ \E w \in Worker : k \in Queued(w) \/ k = hand[w]
         \/ \E t \in Submitters : k = giving[t]

\* The tasks that wait in a queue, are run, or are being submitted.
Unfinished ==
  (UNION {Queued(w) : w \in Worker}) \cup {hand[w] : w \in {v \in Worker : hand[v] # NoTask}}
    \cup {giving[t] : t \in Submitters}

\* activeTasks is the number of unfinished tasks: no interleaving of submitting,
\* popping, stealing and finishing makes the counter drift from what the queues
\* and the workers really hold.
ActiveTasksExact == QueuesAlive => activeTasks = Cardinality(Unfinished)

\* WaitAllTasksDone returns only when every task is finished: also the tasks that
\* tasks submitted, and the tasks those submitted.
WaitMeansDone ==
  [][at[Main] = "wait" /\ at'[Main] = "ready" =>
       /\ 1 .. created \subseteq done
       /\ \A w \in Worker : queue[w] = << >> /\ at[w] # "running"]_vars

\* A queued task is not left behind by the workers that are awake: it is taken,
\* unless they all sleep, or the pool is destroyed.
NotLeftBehind ==
  \A k \in Task :
    (\E w \in Worker : k \in Queued(w)) ~>
      (k \in done \/ Asleep = Worker \/ Destroying)

\* If all workers sleep when Submit notifies, the task it has queued is finished.
\* (A further submission may come in between: it can hold the queue's mutex when
\* the worker that was woken tries it, and the worker sleeps again.)
SleepersRunTask ==
  \A k \in Task :
    (Asleep = Worker /\ at[Main] = "notify" /\ giving[Main] = k) ~>
      (k \in done \/ created > k \/ Destroying)

\* Where every task was submitted with SubmitToWorker, whose wrapper takes
\* allDoneMtx before it notifies, WaitAllTasksDone returns once they are finished.
DirectWaitReturns ==
  (at[Main] \in {"waitBlocking", "waiting"} /\ activeTasks = 0 /\ 1 .. created \subseteq direct)
    ~> at[Main] = "ready"

\* The destructor returns, if no worker is between its test of its stop token and
\* its sleep when the destructor notifies; and if one is, nothing but that worker,
\* asleep for ever, can keep the destructor from returning.  This is all that can be
\* said where a thread uses neither a queue that has been freed nor a member that
\* has been destroyed before workers: idleMtx, which every worker that wakes locks
\* again, or idleCv, on which it slept.
ShutdownIfNoneBlocking ==
  /\ (at[Main] = "notifyAll" /\ IdleFree) ~> (at[Main] = "gone" \/ Undefined)
  /\ at[Main] = "joining" ~> (at[Main] = "gone" \/ Undefined \/ [](Asleep # {}))

\* workStealingPool.h:20 "Submits a task to the pool for execution": a submitted
\* task is executed, if the pool is not destroyed.
SubmittedRuns ==
  \A k \in Task : (k \in 1 .. created /\ k \notin direct) ~> (k \in done \/ Destroying)

\* workStealingPool.h:26 "Waits for all tasks in all threads done": the wait ends
\* when all tasks are done.
WaitReturns == (at[Main] = "waiting" /\ activeTasks = 0) ~> at[Main] # "waiting"

\* workStealingPool.h:17 "shuts down the pool and waits for all threads to finish":
\* no queue is freed before all threads have finished, so that none can still use it.
FreedAfterThreads == \A t \in Thread : at[t] # "undefined"
=============================================================================
