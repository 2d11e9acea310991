# algocodeio in TLA+

The repository holds three small C++ libraries: caches (`LRUCache/`), a scheduler of callbacks
(`callbackScheduler/`), and an XML encryptor with a work-stealing thread pool (`xmlEncryptor/`).
This directory specifies them in TLA+, checks the specifications with TLC on small instances and
proves, with TLAPS, what matters most for instances of any size. Paths below are relative to the
root of the repository. `PROJECT.json` lists components, runs, mutants, findings, hazards and
theorems, and gives for every definition the lines of source it stands for.

## 1. Inventory

### The components

| component | state | operations | status |
|---|---|---|---|
| `TLfuCache.h`, LFU cache | `KeyMap`, `FreqBuckets`, `MinFreq` | `TryGet`, `Set`, `Erase`, `Exist` | modelled, checked, proved |
| `callbackScheduler.h` | multimap `callbacks`, `stop`, a flag per callback, the worker thread | `run` (the worker), `Schedule`, `Cancel`, destructor | modelled, checked, proved |
| `workStealingPool.cpp` | a deque, a mutex and a thread per worker, `submitIdx`, `activeTasks`, two condition variables | constructor, the workers' loop, `Submit`, `SubmitToWorker`, `WaitAllTasksDone`, destructor | modelled, checked, proved |
| `TLfuCacheThreadsafeLazyUpdate.h` | the LFU index, `readCounter` per key, a `shared_mutex` | as `TLfuCache`, `TryGet` in two critical sections | modelled, checked, proved |
| `TLfuCacheLockStripping.h` | shards: an LFU index, a capacity and a `shared_mutex` each | as `TLfuCache` on the shard of the key, `TryGet` in two critical sections | modelled, checked, proved |
| `TLruCache.h` | a list of nodes, a map from keys to positions in it | `TryGet`, `Set`, `Erase`, `Exist` | modelled, checked, proved |
| `xmlEncryptorMt.cpp` | a collector per node: `remainChilds`, the results of the children, `onDone` | `encryptXmlTree` on the calling thread, tasks on a pool | modelled, checked, proved |
| `xmlEncryptor.cpp` | a stack of collectors | `encryptXmlTree`, sequential | modelled, checked, proved |
| tests, three `main.cpp` | | | not modelled: read for what they expect |

### How they interact

The four caches are independent of one another, and three of them contain the same algorithm,
written out three times: the helpers `UpdateFrequency`, `EvictLFU`, `UpdateMinFreq` and the body of
`Erase`. That algorithm is one module here (`LfuIndex`). `TLfuCache` and `TLruCache` have no locks
and one caller. The other two are called by any number of threads.

The scheduler's clients share with its worker thread the multimap, under `mtx`, and two kinds of
atomics they write without it: `stop` and `cancelled`. A callback runs on the worker without the
mutex and may call `Schedule` and `Cancel`.

The pool's workers, submitters, waiter and destructor share the queues (a mutex each), the counter
`activeTasks` (an atomic) and two condition variables, `idleCv` (with `idleMtx`, taken only by the
workers) and `allDoneCv` (with `allDoneMtx`). A task may submit tasks.

`xmlEncryptorMt` uses a `Pool` with one virtual function. `WorkStealingPool` has that function but
does not derive from `Pool`; no code of the repository joins the two, and neither do these modules.
What `xmlEncryptorMt` is composed with is the sequential encryptor, whose result it must equal.

### What is hard, and what correctness means

* **LFU caches.** `MinFreq` is a cache of a minimum that is updated by rules of thumb: it is *not*
  the minimum in every state, `FreqBuckets` keeps empty lists, and a use count of 64 bits indexes it
  through an `int`. Correct means that `KeyMap` and the buckets agree, so that every stored iterator
  is valid, that the limit is kept, that an eviction never reads an empty list, and that the victim
  is the least frequently used key, the least recently used among equals.
* **Scheduler.** Between the worker's tests and its sleeps anything may arrive: an earlier
  callback, a cancellation, the destructor. Correct means that no callback is lost, called twice,
  early or out of order, that the worker never sleeps past one, and that destruction ends.
* **Pool.** Predicates that read several queues one after the other, notifications sent without
  the mutex that the sleepers test under, a counter that decides when a wait ends, and a destruction
  that frees queues one by one. Correct means that each task is run once, that it *is* run, that
  the wait ends when and only when all tasks are finished, and that destruction ends.
* **Thread-safe caches.** `TryGet` releases one lock and takes another; what it has read may be
  stale. Correct means that the index stays consistent, that no use is lost or counted twice in the
  gap, and that the cache is still an LFU cache of the uses it counts.
* **LRU cache.** `TryGet` returns a raw pointer into the list. Correct means that map and list agree
  and that the pointer stays good until its key leaves.
* **Encryptor.** The children of a node finish in any order, on threads that may outlive the call.
  Correct means that each node is encrypted once, after its children, that the result is the
  sequential one, that the call returns, and that nothing uses its variables afterwards.

`PROJECT.json` ("hazards") has each such place with its line and the properties that cover it.

## 2. The modules

| module | what it is |
|---|---|
| `LfuIndex` | the index of the LFU caches as a record, and each private helper as an operator from index to index; no variables |
| `LfuPolicy` | the abstract LFU cache: keys, values, use counts, the order of uses and a limit; the victim is found by looking at every key |
| `TLfuCache` | the state machine of `TLfuCache.h` over such an index |
| `TLfuCacheThreadsafeLazyUpdate` | the same under a shared mutex, with `readCounter` and the threads in `TryGet` |
| `TLfuCacheLockStripping` | a shard per hash, each with an index and a capacity, and the threads in `TryGet` |
| `LruPolicy`, `TLruCache` | the abstract LRU cache, and the list and map that implement it |
| `CallbackScheduler` | the scheduler: worker, clients, destructor and clock |
| `WorkStealingPool` | the pool: workers, main thread and the tasks that submit |
| `XmlTree` | trees and the recursive definition of the result; no variables |
| `XmlEncryptor`, `XmlEncryptorMt` | one call of either `encryptXmlTree` |
| `XmlEncryptors` | the composition: both calls, on the same tree |
| `MCTLfuCache`, `MCTLfuCacheThreadsafeLazyUpdate`, `MCTLfuCacheLockStripping` | the symmetry of keys and threads, for TLC |
| `DataLemmas` | lemmas on minima, on remainders and on sequences: parts, changes of one element, and, without repetition, the order and places of the elements |
| `LfuIndexProofs` | what each helper of the index preserves |
| `TLfuCacheProofs`, `TLfuCacheThreadsafeLazyUpdateProofs`, `TLfuCacheLockStrippingProofs`, `TLruCacheProofs` | the theorems about the caches |
| `CallbackSchedulerProofs` | those about the scheduler |
| `XmlEncryptorProofs` | those about the programs of `xmlEncryptor/`: the pool, and both encryptors |

### TLfuCache

One action per operation and outcome: `TryGet`, `SetPresent`, `SetAbsent` (with or without an
eviction), `Erase`. Operations that return early change nothing and are stuttering steps. `index`
is the three private members; a `std::list` is a sequence, front first, and `Node::it` is implied by
the position of the key. Empty lists in `FreqBuckets` are kept exactly where the code keeps them:
`operator[]` creates one, and only some paths erase it. `Frequency` is an `int` while `Node::freq`
has 64 bits: `ToFrequency` is the conversion between them, with `IntMax` a parameter.
`SetWithoutVictim` is the `Set` that calls `back()` on an empty list; nothing is said of what
follows. `recency` is a history variable that the abstract policy needs and the code does not have.

### TLfuCacheThreadsafeLazyUpdate and TLfuCacheLockStripping

Both headers write the helpers of `LfuIndex` out again; where they differ the module says so
(`EvictLFU` of the striped cache leaves `MinFreq` alone: `Evict`). A section under a unique lock is
one step. In the striped cache a section under the shared lock writes nothing and is one step too.
In the lazy cache it increments an atomic and reads it back, while other readers do the same:
`Read` and `Check` are two steps, and a section under the unique lock is possible only while no
thread is between them (`Unlocked`). After `Check`, or after `Find` in the striped cache, a thread
holds no lock, and the key it has found (`key`) may be evicted, erased, or come back before
`Update`, whose re-tests (`StillDue`; the early return in `Use`) are what the properties are about.
`Set` and `Erase` are one step of any thread besides the ones named.

The constructor of the striped cache is in `Init`, `Capacity` and `GetShard`: the limit and the
number of shards are chosen there once and never change. `reads`, `sets`, `uses` and `recency` are
history variables. The refinement of `LfuPolicy` is that of one shard, `watched`, with its capacity
as the limit. `watched` is chosen in `Init` among all shards and never changes, so that what is
checked, and proved, of it holds of every shard; a step changes one shard at most.

### TLruCache

A node has an address, which iterators, `Data` and the pointers `TryGet` returns have in common. A
new node takes any free address, also that of the node just evicted, so that a stale pointer would
be seen to point at something else. `splice` moves the node, not its contents.

### CallbackScheduler

The worker is a program counter, `worker`, with a place for every point at which another thread can
get in between: before and after each acquisition of `mtx`, between the evaluation of a predicate
and the sleep, between the release of `mtx` and the callback. Schedule's critical section is one
step; it is possible only while the worker does not hold the mutex. `stop` and `cancelled` are
atomics, so a client writes them at any moment. The destructor is three steps: store, notify, join.
A wait may time out, be notified, or wake spuriously. A callback is a number, in the order of the
`Schedule` calls, which is also the order of insertion that breaks ties in the multimap.

### WorkStealingPool

Each thread has a place (`at`) and, where its code has a loop index or an argument, a queue it is
at (`scan`). Mutexes have no variable: `QueueFree`, `IdleFree` and `AllDoneFree` say from the
threads' places whether one is held. The predicate of `idleCv.wait` is not one step: the stop token,
the worker's own queue and each other queue are read one after another, since neither submitters
nor the destructor take `idleMtx`. The worker's own queue is read without its mutex; while another
thread holds that mutex the read may say either. `try_lock` fails exactly when the mutex is held.
The destructor requests the stops one by one, notifies, and then the vector's elements are joined
and freed in their order. A thread that touches a queue already freed goes to the place
`undefined` and no further.

Members are destroyed in the reverse order of their declaration, and the mutexes, condition variables
and counters are declared after `workers`: they are destroyed before the first thread is joined, right
after the notification. A thread that uses one from then on, if only to lock `idleMtx` again when it
wakes, has undefined behaviour. `UseDestroyed` makes this a choice: the thread goes on as if the member
were still there (which is what trivial destructors give), or goes to `undefinedMember` and no further.

The main thread is the only one outside the pool; it constructs it, and then submits, waits and
destroys in any order. Any running task may submit, with either function. The constructor appends
one worker and starts it, then the next; a worker already started reads `workers.size()` meanwhile
(`Size`), without synchronisation, and may look at the first queues only.

### XmlEncryptor, XmlEncryptorMt and XmlEncryptors

A tree is a set of paths, chosen in `Init`. `EncryptNode(n, children)` is a pair, so that two results
are equal only if they come from the same node and the same results in the same order. In
`XmlEncryptor` a collector's callback is the place in the deque of its parent's collector, 0 for `res`.
In `XmlEncryptorMt` a task has a place for each thing it does: encrypt, store into the parent's
collector (without a mutex), count itself off and submit the parent if it was the last, or, for the
root, write `res` and `done` under the mutex and then notify. The caller walks the tree at the same
time, and waits. A submitted task may run at any moment, as on the detached threads of `SimplePool`.
`XmlEncryptors` runs the sequential call and then the other on the same tree, and compares them.
There `queue` and `done` of `XmlEncryptorMt` are called `unvisited` and `resultDone`, and the
specification `XmlSpec`, because the proof module extends `WorkStealingPool` too, which has the short
names. The composition is one of two calls: neither encryptor runs on the model of the pool.

## 3. The runs

| run | instance | what it shows |
|---|---|---|
| `tlfu_core` | 4 keys, limit 3, an `int` up to 3, counts up to 5 | map and buckets agree, the limit is kept, `MinFreq` is exact when the cache is full, `TLfuCache` implements `LfuPolicy`; the last two while counts fit in an `int` |
| `lazy` | 3 keys, limit 2, 2 threads, thresholds 0..2, 3 uses of a stored key | the index through every gap in `TryGet`; each lazy update is earned by a threshold of uses, and reads that do not overlap are all counted; implements `LfuPolicy` |
| `striped` | 3 keys, limits 0..3, 1 to 3 shards, 2 threads, an `int` up to 2, counts up to 5 | every shard consistent, the shards together within the limit, and at it when all are full, no use lost in the gap; `MinFreq` exact in a full shard, and every shard an LFU cache of its capacity, while counts fit in an `int` |
| `lru` | 4 keys, limit 3, 4 addresses | map and list agree, pointers stay good, implements `LruPolicy` |
| `sched` | 3 callbacks, times 0..2 | no callback lost or repeated, no sleep past one, order, not early, cancellation while queued; every callback is called in the end, unless cancelled; the destructor returns if one is pending |
| `pool` | 2 workers, 2 tasks | each task at exactly one place, `activeTasks` exact, the wait returns only when all is done, and what the wakeups do achieve (below) |
| `xml` | trees of at most 2 children per node and 3 levels | all partial results, the agreement of both encryptors, the return of both calls, and that nothing but a notification of theirs is left after it |
| `sched_shutdown` | 1 callback | *violated*: the destructor always returns |
| `pool_lost_submit` | 1 worker, 1 task | *violated*: a submitted task is run |
| `pool_wait_hang` | 1 worker, 1 task | *violated*: `WaitAllTasksDone` returns when all is done |
| `pool_freed_queue` | 2 workers, 1 task | *violated*: no thread uses a freed queue |
| `xml_notify_gone` | a root with at most one child | *violated*: the call returns after the root's notification |

Each property of a passing run comes with a mutant: a change of one mapped definition such as a bug
could make (a notification too few, an erase forgotten, an off-by-one), under which TLC finds the
property violated by the same run.

**Bounds.** `SizeLimit`, `NumThreads`, `IntMax`, `Threads` and the sets of keys and values are
parameters of the code. The bounds of the model are `MaxFreq` (uses of a key), `MaxUses` (uses of a
key while it is stored, in the two thread-safe caches), `MaxThreshold`, `MaxLimit` and `MaxShards`
(arguments of constructors, chosen in `Init`), `Addresses`, `MaxCallbacks`, `MaxTime`, `MaxTasks`,
`MaxChildren` and `MaxDepth`; each is in `Init` or in the guard of the action that would exceed it.

* Caches: four keys over three places give evictions with ties, buckets that empty above the
  minimum, and erasures followed by refills. With `IntMax` 3 and five uses counts pass `INT_MAX` and
  become negative buckets; in the striped cache, whose `freq` has 64 bits as well, `IntMax` 2 and two
  uses with two late readers do the same. Only in the lazy cache is `Node::freq` an `int`:
  `MaxUses + |Threads| < IntMax` keeps it below `INT_MAX`, where overflow would be undefined. Two threads suffice for
  each way to be overtaken in the gap: by a reader, by `Set`, by `Erase`, and by both in turn. Three
  keys over a limit of two evict; thresholds 0, 1 and 2 separate never waiting, waiting for one use,
  and accumulating. Limits 0 to 3 over one to three shards include every remainder and shards
  without a place. One spare address lets a new node take a new or a used one.
* Scheduler: three callbacks over three times give equal times, a callback in the past, one earlier
  than the worker's deadline, and one scheduled while another is taken.
* Pool: two workers and two tasks give an owner, a thief and a submitter at one queue, a task that
  submits another, and round robin that wraps. The conditions under which the pool fails need one
  worker and one task, or two workers to steal.
* Encryptor: two children and three levels give a node whose children finish in either order, on
  either side of the caller's visit, siblings of different depths, and a last child that is not a leaf.

**Fairness.** Safety runs assume none. In `CallbackScheduler` the worker's steps, the destructor's
second and third, and the clock are weakly fair: the operating system schedules a thread that can
run, timeouts are delivered, callbacks return, time passes. In `WorkStealingPool` every thread's
steps are weakly fair: threads run, tasks return, a call that has begun goes on. Weak fairness
suffices for the mutexes because work ends: submissions are bounded, and spurious wakeups, which
could otherwise keep a mutex busy for ever, are assumed finitely many. Nobody has to submit,
schedule, cancel, wait or destroy, and no spurious wakeup has to come. In `XmlEncryptors` the
sequential call, the caller's part of the other and the tasks taken together are weakly fair; that
suffices because each task has finitely many steps and a tree finitely many nodes. The caches
claim no liveness: each section is finite, but `std::shared_mutex` promises no writer that it will get
the lock among readers.

### What the violated properties mean

* `sched_shutdown`: the destructor stores the stop and notifies without the mutex under which the
  worker tests it. Between the test and the sleep both are missed, and the join waits for ever.
  `PendingShutdownCompletes` says when it does return. The pool's destructor is built the same way:
  `ShutdownIfNoneBlocking` says that it returns if no worker is at that point, and that if it does not
  return some worker sleeps for ever; both for programs that have not used a queue or a member
  already destroyed.
* `pool_lost_submit`: the same for a task pushed between a worker's look at the queues and its
  sleep. It stays queued until a later notification. `NotLeftBehind` says what is left of the
  promise: a queued task is taken unless *all* workers sleep; and `SleepersRunTask`: if they all sleep
  when `Submit` notifies, and no other submission gets in between, the task is finished.
* `pool_wait_hang`: the wrapper made by `Submit` notifies `allDoneCv` without `allDoneMtx`. The one
  made by `SubmitToWorker` takes it, and `DirectWaitReturns` shows that this suffices.
* `pool_freed_queue`: worker 0 is joined and its queue deleted while worker 1 may still look there
  for a task to steal.
* `xml_notify_gone`: the root's callback sets `done` under the mutex, releases it, and then notifies a
  condition variable on the caller's stack. A caller that tests `done` in between has returned by
  then. `OnlyNotifyLate` says that of all uses of the call's variables this notification is the only one
  that is ever late. (The end of the last child's `Submit`, once the caller's pool has the root's task,
  may be late too; in the model it is part of `CountOff`.)

Seen while modelling, and not runs of their own:

* `LRUCache/README.md:51` says that `UpdateMinFreq` computes the minimal frequency. It counts empty
  buckets, so `MinFreq` is wrong after some erasures. It does no harm while counts fit in an `int`: a
  full cache, the only one that evicts, has had a `Set` of a new key since (`EvictionReady`).
* Past `INT_MAX` uses of a key an eviction may read an empty list in `TLfuCache` and in a shard of
  `TLfuCacheLockStripping`: `freq` has 64 bits and `Frequency` is an `int` in both, so that `MinFreq` may
  become negative and no longer be what `UpdateFrequency` compares the old frequency with. So may
  an eviction in a shard without a place. `SetWithoutVictim` is reached in `tlfu_core` and `striped`, in
  the latter both ways.
* The pool's destructor destroys its mutexes, condition variables and counters before it joins a thread
  (`workStealingPool.h:44-53`: they are declared after `workers`), so that nearly every destruction of a
  pool with sleeping workers uses a destroyed `idleMtx`. A worker asleep without a notification at that
  time sleeps on a destroyed `idleCv`, which is undefined by itself; with glibc the destruction blocks,
  as the join does in the model. The properties of the destructor speak of the program as if destroyed
  members went on working, and end their claim where one did not (`UseDestroyed`).
* `SubmitToWorker` notifies while it holds the queue's mutex, so that a worker it wakes may fail its
  `try_lock` and sleep again, even if nobody was falling asleep (hence the exclusion in
  `SleepersRunTask` of submissions in between).
* A `Cancel` that returns after the worker's test of `cancelled` does not keep the callback from being
  entered.
* In the lazy cache a `Set` of a key that is there increments `readCounter`; a comment of its test of
  frequent updates (`testLfuCacheThreadsafeLazyUpdate.cpp:195`) says that it resets it.
  `FrequencyEarned` counts the `Set`s.
* `LRUCache/README.md:106` says that a shard's limit is `sizeLimit / NumShards`, rounded down. The
  constructor gives the remainder to the first shards, one each (`Capacity`), and `CapacityRespected`
  says that the whole still keeps the limit.
* In the lazy cache readers that meet the threshold together count as one: with threshold 1 two
  concurrent reads may be one use of the key. `testLfuCacheThreadsafeLazyUpdate.cpp:83-100`
  (`ThreadSafeEvictDeterministic`) expects otherwise: it reads `a` twice and `b` once in three threads,
  states "now 'a' freq=3, 'b' freq=2" (line 92), and expects that `b` is evicted. If both
  readers of `a` load the counter at 2 and the first to get the unique lock resets it, the second finds
  it below the threshold and `a` stays at 2, level with `b`; if `b` was used last, `a` is evicted and
  the test fails. The test passes whenever the reads do not overlap. `LagBounded` says just that: the
  reads that began while another of the key had not returned (`overlaps`) may be missing, no others.

## 4. What is proved

TLAPS checks every proof to its leaves; the assumptions are the named `ASSUME`s of the modules
(`IntMaxAssumption`, `CacheAssumption`, `LazyAssumption`, `StripingAssumption`, `LruAssumption`,
`SchedulerAssumption`, `PoolAssumption`, `TreeAssumption`) and what a theorem states itself. They
say that constants are numbers or finite sets and, for the lazy cache, that use counts stay below
`INT_MAX`. In each module `IInv` is the inductive invariant (`XmlIInv` for the encryptors), and the
theorems below follow from it.

| theorems of | state |
|---|---|
| `TLfuCacheProofs` | `TypeOK`, `IndexConsistent`, `CapacityRespected`, `EvictionReady`, no undefined behaviour, `ImplementsPolicy` |
| `TLfuCacheThreadsafeLazyUpdateProofs` | `TypeOK`, `IndexConsistent`, `FrequencyEarned`, `LagBounded`, `ImplementsPolicy` |
| `TLfuCacheLockStrippingProofs` | `TypeOK`, `ShardsConsistent`, `CapacityRespected`, `EvictionReady`, `NoUseLost`, `ShardImplementsPolicy`, where undefined behaviour comes from |
| `TLruCacheProofs` | `TypeOK`, `MapMatchesList`, `PointersStay`, `ImplementsPolicy` |
| `CallbackSchedulerProofs` | `TypeOK`, `Accounted`, `NoOversleep`, `InOrder`, `NeverEarly`, `CancelHolds` |
| `XmlEncryptorProofs`, pool | `TypeOK`, `TaskPlaces`, `ActiveTasksExact`, `WaitMeansDone` |
| `XmlEncryptorProofs`, encryptors | `XmlTypeOK`, `PartialResults`, `OnlyNotifyLate` |

### The index of the LFU caches

`LfuIndexProofs` has a lemma per helper of the code: given an index whose map and buckets agree
(`Agreed`) it returns one whose map and buckets agree, with these keys; and where the counts fit in
a `Frequency` (`Sound`) they still do, and `MinFreq` stays exact. That a use takes a key to another
bucket even where the conversion to `int` wraps rests on a lemma about remainders (`ModNext`). For
the refinements it also has `Ordered`: within a bucket, the keys are in the order in which they were
last used. Each helper keeps it, because a used key enters the front of its new bucket, and with it
the back of the bucket `MinFreq` names is the victim that the policy finds by looking at every key
(`VictimFound`). The three caches share these lemmas.

**TLfuCache**, for all keys, values and limits. The types, the agreement and the limit hold
whatever the use counts, also after they have passed `INT_MAX` and the frequencies are negative.
`EvictionReady` and `ImplementsPolicy`, which speak of the states in which all frequencies are counts,
hold as long as no count comes full circle (`NoLap`: 2^32 uses of one key). That bound is exact: a key
one use further shares a bucket with keys used once, empties it without `MinFreq` following, and TLC
finds `ImplementsPolicy` violated with `IntMax` 1 and `MaxFreq` 5, but not with 4. `NeverUndefined` holds
as long as counts fit in an `int` (`MaxFreq <= IntMax`); `tlfu_core` shows that it fails beyond.

The invariant consists of `Agreed`, `Ordered`, the limit, the bound on the counts, and the last two
properties under their conditions. `EvictionReady` alone is not inductive. A use of a key moves it
out of a bucket, and whether `MinFreq` may follow depends on which other keys are in that bucket
(`Agreed`); after an `Erase` `MinFreq` may be wrong, and only the free place it leaves (the limit)
makes that harmless. Where all frequencies are counts and none has come full circle, every count fits
(`CountsFitSound`), so that the stronger lemmas on `Sound` apply; a use that takes a count past
`INT_MAX` leaves a negative frequency behind, and then nothing is claimed.

**TLfuCacheThreadsafeLazyUpdate**, for any number of threads and any threshold. The index part is
as above: a late `Update` is a use like any other. `FrequencyEarned` and `LagBounded` are about
reads, updates and the readers in between, and neither is inductive alone. `Good` is what is, for one
key with `u` updates by readers, `readCounter` at `c`, `r` reads, `o` of which overlap another, `s` `Set`s
and `n` threads in `TryGet`: the threshold times `u`, with `c`, is at most `r + s` (an update takes a
threshold from the counter); and `r - o` exceeds `u` thresholds by no more than `c`, and by no more
than a threshold less one and, if `n` is not 0, one. A reader that leaves without an update turns the
first of these bounds into the second, an update the second into the first. A thread whose
key was evicted and stored again has no read of the new node, hence the bound on `u + n`.

**TLfuCacheLockStripping**, for any number of threads and shards and any limit. As for `TLfuCache`,
types, agreement, limit and `NoUseLost` hold whatever the use counts; `EvictionReady` and
`ShardImplementsPolicy` hold while the counts of the shard fit in an `int`, if no count comes full
circle (`NoLap`), and so does that an eviction reads an empty list only in a shard without a place
(`UndefinedOnlyBeyond`). Past `INT_MAX` the last is false and nothing is claimed of the other two.
`ShardGood` is the invariant of one shard, with `MinFreq` exact only when the shard is full:
`EvictLFU` leaves it stale, and the `Set` that called it repairs it in the same step. `Counted`
bounds a frequency from both sides by the uses begun and the threads on their way; the lower bound
is `NoUseLost`, the upper keeps the frequency within `MaxFreq`, which `NoLap` is about.
`CapacityRespected` is about all shards at once: the key numbered `j` in shard `i` is given the
place `j * NumShards + i`, no two keys get the same place (`PlacesDiffer`), and no place is beyond
the limit (`PlacesBelowLimit`), because `Capacity` gives the remainder to the first shards. Where
all shards are full every place below the limit is taken (`FullShardsHoldLimit`).

### TLruCache

For all keys, values and addresses. `MapMatchesList` with the types is inductive. For the refinement,
the age of a key in `LruPolicy`, the number of keys used after it, must be the position of its node
(`PositionsOf`): in a list without repetition a place is the number of elements before it
(`PlaceCounts`, by a bijection). The operations are then compared by the order in the list only; the
lemma `UseIsPolicyUse` serves `TryGet` and both kinds of `Set`, and `LastIsOldest` gives the eviction.
That a new node may get the address of the evicted one is part of the proof.

### CallbackScheduler

For every number of callbacks and range of times. `InOrder` speaks of callbacks already taken; it
becomes inductive with `TakenBeforeQueued`, which says the same of a taken callback and the ones still
queued, and with bounds on the history. The steps of the worker that only move it share one lemma,
`WorkerMoves`; `Take` and `Schedule`, which change the multimap, have a lemma each. `CancelHolds`
follows because being cancelled and not taken is stable under every step, `Take` included
(`CancelledStaysOut`).

### WorkStealingPool

For every number of workers and tasks. `TaskPlaces` is inductive only with where the threads are: a
worker has a task in its hand exactly while it runs it or a call made by it (`HandsMatchPlaces`),
task numbers are given out once (`Numbered`), a worker not started yet does nothing
(`NotYetStarted`), and a freed queue or a destroyed member is met only while the destructor frees the
queues. The counter
is related to the history (`CounterMatchesHistory`: tasks created less tasks done), and
`ActiveTasksExact` follows by counting the tasks that `TaskPlaces` places. The many steps that move
a thread but no task share `Quiet`. `WaitMeansDone` is an action property: the waiter's test sees zero,
which by the invariant means that every task created is done.

### The encryptors

For every tree, of any depth and any number of children.

`PartialResults` compares with the recursive definition `Encrypted`. That there is such a function
has to be shown first. Induction over depths is not available, so the proof takes a
least counterexample (`UnfoldedUpTo`): of the depths up to which no function satisfies the
recursion take the smallest; below it there is one, and one step of the definition extends it.
`EncryptedUnfolds` is what the rest uses: the result of a node is that of `encryptNode` on the node
and the results of its children.

Of `XmlEncryptorMt` the invariant `MtInv` says: the collectors made so far are those of the root and of
the children of every visited node (`Walk`); `remainChilds` of a node is the number of its children
whose tasks have not ended (`RemainExact`); a node has a task, and only one, if and only if it is a
leaf that has been visited, or another node whose `remainChilds` is 0 (`Submissions`); a place in a
collector is empty or has the right result, and is not empty once the child has stored it
(`PlacesRight`); and the result is there only when the root's task has set it (`Finished`). The step
that matters is `CountOff`: it is the count's being exact that makes one child, and no second one, see
it reach 0, and then no place is empty (`ReadyToEncrypt`). `OnlyNotifyLate` is about tasks
that nothing waits for directly. If one had not ended when the root's has, take one of least depth:
its parent has a task by the choice, or is the root, so `remainChilds` of the parent is 0, although it
counts that child (`OthersEnded`).

Of `XmlEncryptor` the invariant `PlainInv` is about the stack: each collector's callback refers to the
one below it, which has pushed one child more than it has results, namely the collector above; and the
results it has are the right ones, in order (`FrameRight`). A pop stores a result one place down
and leaves a stack of which the same holds (`PopStacked`). `XmlIInv` has both, and that the second call
begins when the first has returned, from which the equality of their results follows.

### Only model-checked

Every invariant and every safety property of steps that a passing run checks is proved, and every
refinement, for `TLfuCache` and `TLfuCacheLockStripping` under the conditions above. What TLC alone
checks are the properties that need fairness or `ENABLED`, which are beyond the prover: in the
scheduler, the pool and the encryptors, everything that says that something happens in the end. The
runs that expect a violation are TLC's as well.

## 5. Not modelled

* In the pool: what a use of a destroyed member or of a freed queue does beyond what section 2 says; no
  threads at all; tasks that throw (the program terminates); a task that waits for
  the pool it runs on; and what else a compiler may make of the workers' unsynchronised reads than
  the outcomes named above.
* What a callback of the scheduler does besides using the scheduler; one that never returns; and a
  system clock set back, which delays callbacks: the deadline is compared with the clock again
  before every call.
* In the caches: the overflow of the `int` use count of the lazy one (undefined), a striped
  cache of no shards (a division by zero in its constructor), hashes other than the identity that
  libstdc++ has for integers, and starvation of writers.
* In the encryptors: the `Pool` base class itself, which drops tasks; the life of the collectors
  behind `shared_ptr`; the text that `encryptNode` makes, so that two nodes with one name are still
  told apart.
* Memory orders: all atomics of the code are sequentially consistent by default.
* Log output, the cost of operations, `reserve`, and the life of the values behind `shared_ptr`.
* The tests, the `main` functions and the build files.

## 6. Plan

Every component of the repository with state of its own is modelled, and every safety property that
a run checks is proved. What could be added:

1. The parts of the liveness arguments that are about single states: that a worker of the scheduler that
   sleeps has been notified or has a deadline, that a queued task of the pool means a worker
   awake or a missed notification, that while the encryptor's caller waits some task can make a step.
   The properties themselves stay with TLC.
2. An invariant of the scheduler's destructor, from which the condition in
   `PendingShutdownCompletes` would follow as a theorem on states.
