--------------------------- MODULE CallbackScheduler --------------------------
(***************************************************************************)
(* callbackScheduler/callbackScheduler.h: one worker thread that runs      *)
(* callbacks at their time, clients that schedule and cancel callbacks,    *)
(* and the destructor.                                                     *)
(*                                                                         *)
(* The worker holds mtx from one step to another, so its steps are apart   *)
(* wherever a client, a callback or the destructor can get in between.  A  *)
(* client's critical section (Schedule) is one step, possible when the     *)
(* worker does not hold mtx.  stop and cancelled are atomics that clients  *)
(* write without mtx.                                                      *)
(*                                                                         *)
(* A callback is numbered by the order of the Schedule calls.              *)
(***************************************************************************)
EXTENDS Integers, Sequences, FiniteSets, SequencesExt

CONSTANTS MaxCallbacks,  \* bound: Schedule calls
          MaxTime        \* bound: the clock, and the times callbacks are scheduled for

ASSUME SchedulerAssumption == MaxCallbacks \in Nat /\ MaxTime \in Nat

VARIABLES clock,      \* system_clock::now()
          callbacks,  \* the multimap: the callbacks in it
          due,        \* the time each callback was scheduled for, its key there
          cancelled,  \* the callbacks whose cancelled flag is set
          stop,
          worker,     \* where workThread is in run()
          when,       \* the deadline of its wait_until
          taken,      \* history: what it erased to call, the last being cbPtr, each
                      \* with the number of callbacks scheduled by then
          dtor        \* where ~CallbackScheduler is

vars == <<clock, callbacks, due, cancelled, stop, worker, when, taken, dtor>>

Time == 0..MaxTime

\* Where the worker is.
WorkerHoldsMutex == {"check", "blocking", "timedTest", "timedBlocking"}
WorkerElsewhere  == {"loop", "lock", "waiting", "calling", "running",
                     "timedWaiting", "timedWoken", "exited"}

Init ==
  /\ clock = 0
  /\ callbacks = {} /\ due = << >> /\ cancelled = {}
  /\ stop = FALSE
  /\ worker = "loop" /\ when = 0 /\ taken = << >>
  /\ dtor = "alive"

-----------------------------------------------------------------------------
\* Mutant: the callback scheduled last of those with the least time.
BeginLifo ==
  CHOOSE c \in callbacks : \A d \in callbacks : due[c] < due[d] \/ (due[c] = due[d] /\ c >= d)

\* callbacks.begin(): the least time; the multimap keeps equal keys in the order
\* of their insertion.
Begin ==
  CHOOSE c \in callbacks : \A d \in callbacks : due[c] < due[d] \/ (due[c] = due[d] /\ c <= d)

\* cv.notify_one() as it acts on the worker, the only thread that waits on cv.
Notified(pc) ==
  CASE pc = "waiting"      -> "lock"
    [] pc = "timedWaiting" -> "timedWoken"
    [] OTHER               -> pc

-----------------------------------------------------------------------------
(***************************************************************************)
(* The worker.                                                             *)
(***************************************************************************)
Goto(from, to) == worker = from /\ worker' = to

\* while (!stop)
Loop ==
  /\ Goto("loop", IF stop THEN "exited" ELSE "lock")
  /\ UNCHANGED <<clock, callbacks, due, cancelled, stop, when, taken, dtor>>

\* The worker locks mtx, for the first time or again after wait() has been
\* notified, and evaluates the predicate of wait().
Lock ==
  /\ Goto("lock", IF stop \/ callbacks # {} THEN "check" ELSE "blocking")
  /\ UNCHANGED <<clock, callbacks, due, cancelled, stop, when, taken, dtor>>

\* wait() releases mtx and sleeps, in one step.
Block ==
  /\ Goto("blocking", "waiting")
  /\ UNCHANGED <<clock, callbacks, due, cancelled, stop, when, taken, dtor>>

\* if (stop.load()) return
StopSeen ==
  /\ stop
  /\ Goto("check", "exited")
  /\ UNCHANGED <<clock, callbacks, due, cancelled, stop, when, taken, dtor>>

\* Mutant: a cancelled callback is called like any other.
SkipNothing == FALSE

\* cbPtr->cancelled.load()
Skip == Begin \in cancelled

\* Mutant: a callback is due a tick early.
DueEarly == due[Begin] <= clock + 1

\* when <= now
Due == due[Begin] <= clock

\* Mutant: the callback stays in the multimap.
NotErased == callbacks

\* callbacks.erase(callbacks.begin())
Erased == callbacks \ {Begin}

\* A callback whose time has come leaves the multimap; it is dropped if it has
\* been cancelled, or called after mtx is released.
Take ==
  /\ worker = "check" /\ ~stop /\ Due
  /\ worker' = IF Skip THEN "loop" ELSE "calling"
  /\ callbacks' = Erased
  /\ taken' = IF Skip THEN taken ELSE Append(taken, [id |-> Begin, known |-> Len(due)])
  /\ UNCHANGED <<clock, due, cancelled, stop, when, dtor>>

\* cbPtr->func() is entered.
Call ==
  /\ Goto("calling", "running")
  /\ UNCHANGED <<clock, callbacks, due, cancelled, stop, when, taken, dtor>>

\* func returns, or throws: both catch clauses fall through to the loop.
Return ==
  /\ Goto("running", "loop")
  /\ UNCHANGED <<clock, callbacks, due, cancelled, stop, when, taken, dtor>>

\* The first callback is not due: wait_until(when).
NotDue ==
  /\ worker = "check" /\ ~stop /\ ~Due
  /\ worker' = "timedTest"
  /\ when' = due[Begin]
  /\ UNCHANGED <<clock, callbacks, due, cancelled, stop, taken, dtor>>

\* Mutant: the sleep has no deadline.
NeverExpired == FALSE

\* The deadline of wait_until has passed.
Expired == when <= clock

\* The predicate of wait_until.
Earlier == callbacks # {} /\ due[Begin] < when

\* The predicate is evaluated, holding mtx, before the first sleep and after each
\* wakeup; a wakeup after the deadline counts as the timeout.
TimedTest ==
  /\ worker \in {"timedTest", "timedWoken"}
  /\ worker' = IF stop \/ Earlier \/ (worker = "timedWoken" /\ Expired)
               THEN "loop" ELSE "timedBlocking"
  /\ UNCHANGED <<clock, callbacks, due, cancelled, stop, when, taken, dtor>>

TimedBlock ==
  /\ Goto("timedBlocking", "timedWaiting")
  /\ UNCHANGED <<clock, callbacks, due, cancelled, stop, when, taken, dtor>>

\* The deadline has passed; what the predicate returns then is not used.
Timeout ==
  /\ Expired
  /\ Goto("timedWaiting", "loop")
  /\ UNCHANGED <<clock, callbacks, due, cancelled, stop, when, taken, dtor>>

Worker ==
  \/ Loop \/ Lock \/ Block \/ StopSeen \/ Take \/ Call \/ Return
  \/ NotDue \/ TimedTest \/ TimedBlock \/ Timeout

\* A condition variable may wake without a notification.
SpuriousWakeup ==
  /\ worker \in {"waiting", "timedWaiting"}
  /\ worker' = Notified(worker)
  /\ UNCHANGED <<clock, callbacks, due, cancelled, stop, when, taken, dtor>>

-----------------------------------------------------------------------------
(***************************************************************************)
(* The clients: other threads while the scheduler lives, and the callback  *)
(* that is running, which may also use the scheduler while the destructor  *)
(* waits for it.                                                           *)
(***************************************************************************)
ClientActive == dtor = "alive" \/ worker = "running"

\* Mutant: the worker is notified only if it waits for a first callback.
WakeForFirst(pc) == IF pc = "waiting" THEN "lock" ELSE pc

\* Mutant: nobody is notified.
WakeNobody(pc) == pc

\* The notification of Schedule.
Wake(pc) == Notified(pc)

\* Mutant: the number of the callback before.
NewestBefore == Len(due)

\* The number of a new callback.
Newest == Len(due) + 1

Schedule(t) ==
  /\ ClientActive /\ Len(due) < MaxCallbacks
  /\ worker \notin WorkerHoldsMutex
  /\ due' = Append(due, t)
  /\ callbacks' = callbacks \cup {Newest}
  /\ worker' = Wake(worker)
  /\ UNCHANGED <<clock, cancelled, stop, when, taken, dtor>>

\* Cancel(handle) of any callback, at any time: queued, running or gone.
Cancel(c) ==
  /\ ClientActive
  /\ cancelled' = cancelled \cup {c}
  /\ UNCHANGED <<clock, callbacks, due, stop, worker, when, taken, dtor>>

-----------------------------------------------------------------------------
(***************************************************************************)
(* The destructor: two steps before join(), neither of them under mtx.     *)
(***************************************************************************)
StoreStop ==
  /\ dtor = "alive"
  /\ dtor' = "stopping" /\ stop' = TRUE
  /\ UNCHANGED <<clock, callbacks, due, cancelled, worker, when, taken>>

NotifyStop ==
  /\ dtor = "stopping"
  /\ dtor' = "joining" /\ worker' = Notified(worker)
  /\ UNCHANGED <<clock, callbacks, due, cancelled, stop, when, taken>>

Join ==
  /\ dtor = "joining" /\ worker = "exited"
  /\ dtor' = "joined"
  /\ UNCHANGED <<clock, callbacks, due, cancelled, stop, worker, when, taken>>

\* Time passes.
Tick ==
  /\ clock < MaxTime
  /\ clock' = clock + 1
  /\ UNCHANGED <<callbacks, due, cancelled, stop, worker, when, taken, dtor>>

\* The scheduler is gone.
Joined == dtor = "joined" /\ UNCHANGED vars

Next ==
  \/ Worker \/ SpuriousWakeup
  \/ \E t \in Time : Schedule(t)
  \/ \E c \in DOMAIN due : Cancel(c)
  \/ StoreStop \/ NotifyStop \/ Join
  \/ Tick \/ Joined

Spec == Init /\ [][Next]_vars

\* The worker is scheduled by the operating system, callbacks return, timeouts
\* are delivered, a destructor that has begun goes on, and time passes.  Nobody
\* has to schedule, cancel or destroy, and no spurious wakeup has to come.
Fairness ==
  /\ WF_vars(Worker) /\ WF_vars(NotifyStop) /\ WF_vars(Join) /\ WF_vars(Tick)

FairSpec == Spec /\ Fairness

-----------------------------------------------------------------------------
(***************************************************************************)
(* Properties.                                                             *)
(***************************************************************************)
TypeOK ==
  /\ clock \in Time
  /\ due \in Seq(Time) /\ Len(due) <= MaxCallbacks
  /\ callbacks \subseteq DOMAIN due /\ cancelled \subseteq DOMAIN due
  /\ stop \in BOOLEAN
  /\ worker \in WorkerHoldsMutex \cup WorkerElsewhere
  /\ when \in Time
  /\ taken \in Seq([id : 1..MaxCallbacks, known : 0..MaxCallbacks])
  /\ dtor \in {"alive", "stopping", "joining", "joined"}

Taken == {taken[i].id : i \in DOMAIN taken}

\* The callbacks whose function has been entered.
Started == IF worker = "calling" THEN Taken \ {Last(taken).id} ELSE Taken

\* No callback is lost and none is run twice: every scheduled callback is in the
\* multimap, or was taken to be called, exactly once, or was cancelled.
Accounted ==
  /\ \A i, j \in DOMAIN taken : taken[i].id = taken[j].id => i = j
  /\ callbacks \cap Taken = {}
  /\ DOMAIN due = callbacks \cup Taken \cup (DOMAIN due \cap cancelled)

\* The worker never sleeps past a callback: in wait() the multimap is empty, in
\* wait_until no callback in it is due before the deadline.  Schedule may insert
\* one only while the worker is not between its test and its sleep.
NoOversleep ==
  /\ worker \in {"blocking", "waiting"} => callbacks = {}
  /\ worker \in {"timedBlocking", "timedWaiting"} => \A c \in callbacks : when <= due[c]

\* Callbacks are called in the order of their times, and in the order of the
\* Schedule calls at equal times, except before one that was scheduled only after
\* the other had been taken.
InOrder ==
  \A i, j \in DOMAIN taken : i < j =>
    LET c == taken[i].id
        d == taken[j].id
    IN  due[c] < due[d] \/ (due[c] = due[d] /\ c < d) \/ d > taken[i].known

\* A callback's function is never entered before its time.
NeverEarly == \A c \in Taken : due[c] <= clock

\* A callback that is cancelled while it is in the multimap is never called.
CancelHolds ==
  \A c \in 1..MaxCallbacks :
    [](c \in cancelled /\ c \in callbacks => [](c \notin Taken))

\* Every callback is called unless it is cancelled or the scheduler destroyed:
\* whatever else the worker waits for, it wakes in time.
EventuallyCalled ==
  \A c \in 1..MaxCallbacks :
    c \in callbacks ~> (c \in Started \/ c \in cancelled \/ stop)

\* If a callback is pending, the destructor returns: a stop notification that
\* comes between the worker's test and its sleep is lost, but the deadline of
\* the pending callback ends the sleep.
PendingShutdownCompletes ==
  (dtor = "stopping" /\ callbacks # {}) ~> dtor = "joined"

\* README.md:22 "Correct shutdown: the destructor sets stop, the thread is woken
\* by notify_one and joined": the destructor returns.
ShutdownCompletes == dtor = "stopping" ~> dtor = "joined"
=============================================================================
