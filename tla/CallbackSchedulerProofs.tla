------------------------ MODULE CallbackSchedulerProofs -----------------------
(***************************************************************************)
(* Theorems about CallbackScheduler, for every number of callbacks and     *)
(* every range of times.                                                   *)
(***************************************************************************)
EXTENDS CallbackScheduler, DataLemmas

\* c is before d in the multimap.
DueBefore(c, d) == due[c] < due[d] \/ (due[c] = due[d] /\ c < d)

\* What InOrder needs of the callbacks still in the multimap: those that were
\* there when a callback was taken come after it.
TakenBeforeQueued ==
  \A i \in DOMAIN taken : \A c \in callbacks :
    DueBefore(taken[i].id, c) \/ c > taken[i].known

\* The inductive invariant: the properties, with what makes them inductive.
IInv ==
  /\ TypeOK
  /\ Accounted /\ NoOversleep /\ InOrder /\ NeverEarly
  /\ TakenBeforeQueued
  /\ Taken \subseteq DOMAIN due
  /\ \A i \in DOMAIN taken : taken[i].known <= Len(due)
  /\ worker = "check" /\ ~stop => callbacks # {}

\* begin() of a multimap that is not empty is its least element.
LEMMA BeginProperties ==
  ASSUME TypeOK, callbacks # {}
  PROVE  /\ Begin \in callbacks
         /\ \A c \in callbacks : c = Begin \/ DueBefore(Begin, c)
<1> DEFINE D == {due[c] : c \in callbacks}
           m == Min(D)
           E == {c \in callbacks : due[c] = m}
           b == Min(E)
<1>1. /\ Len(due) \in Nat /\ MaxTime \in Nat
      /\ \A c \in callbacks : c \in 1..Len(due) /\ due[c] \in 0..MaxTime
  <2>1. due \in Seq(0..MaxTime) /\ callbacks \subseteq 1..Len(due)
    BY DEF TypeOK, Time
  <2>. QED  BY <2>1, SchedulerAssumption
<1>2. m \in D /\ \A t \in D : m <= t
  <2>1. D \subseteq 0..MaxTime /\ 0 \in Int /\ MaxTime \in Int
    BY <1>1
  <2>2. D # {}
    <3>1. PICK c \in callbacks : TRUE
      OBVIOUS
    <3>2. due[c] \in D
      BY <3>1
    <3>. QED  BY <3>2
  <2>. HIDE DEF D
  <2>. QED  BY <2>1, <2>2, MinOfInterval, Zenon
<1>3. b \in E /\ \A c \in E : b <= c
  <2>1. E \subseteq 1..Len(due) /\ 1 \in Int /\ Len(due) \in Int
    BY <1>1
  <2>2. E # {}
    <3>1. PICK c \in callbacks : due[c] = m
      BY <1>2
    <3>. QED  BY <3>1
  <2>. HIDE DEF E
  <2>. QED  BY <2>1, <2>2, MinOfInterval, Zenon
<1>4. \A c \in callbacks : m <= due[c] /\ (m = due[c] => b <= c)
  <2>. HIDE DEF m, b
  <2>. QED  BY <1>2, <1>3
<1>. HIDE DEF m, b
<1>5. b \in callbacks /\ due[b] = m
  BY <1>3
<1>. HIDE DEF D, E
<1>6. \A c \in callbacks : due[b] < due[c] \/ (due[b] = due[c] /\ b <= c)
  BY <1>1, <1>4, <1>5
<1>7. /\ Begin \in callbacks
      /\ \A c \in callbacks : due[Begin] < due[c] \/ (due[Begin] = due[c] /\ Begin <= c)
  BY <1>5, <1>6 DEF Begin
<1>8. \A c, d \in callbacks : c <= d => c = d \/ c < d
  BY <1>1
<1>. QED  BY <1>7, <1>8 DEF DueBefore

\* A new scheduler has the invariant.
LEMMA InitInvariant == Init => IInv
<1>. SUFFICES ASSUME Init  PROVE IInv
  OBVIOUS
<1>1. /\ taken = << >> /\ due = << >> /\ callbacks = {} /\ cancelled = {}
      /\ DOMAIN taken = {} /\ DOMAIN due = {} /\ Len(due) = 0
      /\ clock = 0 /\ when = 0 /\ stop = FALSE /\ worker = "loop" /\ dtor = "alive"
  BY DEF Init
<1>2. TypeOK
  <2>1. clock \in Time /\ when \in Time
    BY <1>1, SchedulerAssumption DEF Time
  <2>2. /\ due \in Seq(Time)
        /\ taken \in Seq([id : 1..MaxCallbacks, known : 0..MaxCallbacks])
    BY <1>1, EmptySeq
  <2>3. callbacks \subseteq DOMAIN due /\ cancelled \subseteq DOMAIN due
    BY <1>1
  <2>4. Len(due) <= MaxCallbacks
    BY <1>1, SchedulerAssumption
  <2>. QED  BY <1>1, <2>1, <2>2, <2>3, <2>4 DEF TypeOK, WorkerElsewhere
<1>3. Taken = {}
  BY <1>1 DEF Taken
<1>. QED  BY <1>1, <1>2, <1>3
          DEF IInv, Accounted, NoOversleep, InOrder, NeverEarly, TakenBeforeQueued

\* The types of what the invariant compares.
LEMMA Numbers ==
  ASSUME IInv
  PROVE  /\ clock \in Nat /\ when \in Nat /\ Len(due) \in Nat /\ Len(taken) \in Nat
         /\ DOMAIN due = 1..Len(due) /\ DOMAIN taken = 1..Len(taken)
         /\ callbacks \subseteq 1..Len(due)
         /\ \A c \in DOMAIN due : c \in Nat /\ due[c] \in Nat
         /\ \A i \in DOMAIN taken : taken[i].id \in DOMAIN due /\ taken[i].known \in Nat
<1>1. /\ due \in Seq(Time) /\ clock \in Time /\ when \in Time
      /\ taken \in Seq([id : 1..MaxCallbacks, known : 0..MaxCallbacks])
      /\ callbacks \subseteq DOMAIN due /\ Taken \subseteq DOMAIN due
  BY DEF IInv, TypeOK
<1>2. Time \subseteq Nat /\ MaxCallbacks \in Nat
  BY SchedulerAssumption DEF Time
<1>3. ASSUME NEW R, NEW s \in Seq(R)
      PROVE  /\ Len(s) \in Nat /\ DOMAIN s = 1..Len(s)
             /\ \A i \in DOMAIN s : i \in Nat /\ s[i] \in R
  OBVIOUS
<1>4. /\ Len(due) \in Nat /\ DOMAIN due = 1..Len(due)
      /\ \A c \in DOMAIN due : c \in Nat /\ due[c] \in Nat
  BY <1>1, <1>2, <1>3
<1>5. /\ Len(taken) \in Nat /\ DOMAIN taken = 1..Len(taken)
      /\ \A i \in DOMAIN taken : taken[i] \in [id : 1..MaxCallbacks, known : 0..MaxCallbacks]
  BY <1>1, <1>3
<1>6. \A i \in DOMAIN taken : taken[i].known \in Nat
  BY <1>2, <1>5
<1>7. \A i \in DOMAIN taken : taken[i].id \in Taken
  BY DEF Taken
<1>. QED  BY <1>1, <1>2, <1>4, <1>5, <1>6, <1>7

\* A step that moves the worker or sets a flag, and puts it to sleep or into its
\* check only when it may be there, preserves the invariant.
LEMMA WorkerMoves ==
  ASSUME IInv, UNCHANGED <<clock, callbacks, due, when, taken>>,
         cancelled \subseteq cancelled', cancelled' \subseteq DOMAIN due,
         stop' \in BOOLEAN, dtor' \in {"alive", "stopping", "joining", "joined"},
         worker' \in WorkerHoldsMutex \cup WorkerElsewhere,
         worker' = "check" /\ ~stop' => callbacks # {},
         worker' \in {"blocking", "waiting"} => callbacks = {},
         worker' \in {"timedBlocking", "timedWaiting"} => \A c \in callbacks : when <= due[c]
  PROVE  IInv'
<1>1. TypeOK'
  BY DEF IInv, TypeOK
<1>2. Taken' = Taken
  BY DEF Taken
<1>3. Accounted'
  BY <1>2 DEF IInv, Accounted
<1>4. NoOversleep'
  BY DEF NoOversleep
<1>5. InOrder' /\ NeverEarly' /\ TakenBeforeQueued'
  BY <1>2 DEF IInv, InOrder, NeverEarly, TakenBeforeQueued, DueBefore
<1>. QED  BY <1>1, <1>2, <1>3, <1>4, <1>5 DEF IInv

\* Taking the first callback off the multimap preserves the invariant.
LEMMA TakeInvariant ==
  ASSUME IInv, Take
  PROVE  IInv'
<1>1. /\ worker = "check" /\ ~stop /\ due[Begin] <= clock
      /\ worker' \in {"loop", "calling"} /\ callbacks' = callbacks \ {Begin}
      /\ \/ Begin \in cancelled /\ taken' = taken
         \/ taken' = Append(taken, [id |-> Begin, known |-> Len(due)])
      /\ UNCHANGED <<clock, due, cancelled, stop, when, dtor>>
  BY DEF Take, Due, Erased, Skip
<1>2. /\ Begin \in callbacks /\ \A c \in callbacks : c = Begin \/ DueBefore(Begin, c)
      /\ Begin \in DOMAIN due
  BY <1>1, BeginProperties DEF IInv, TypeOK
<1>3. CASE Begin \in cancelled /\ taken' = taken
  <2>1. Taken' = Taken
    BY <1>3 DEF Taken
  <2>2. TypeOK'
    BY <1>1, <1>3 DEF IInv, TypeOK, WorkerElsewhere
  <2>3. Accounted'
    BY <1>1, <1>2, <1>3, <2>1 DEF IInv, Accounted
  <2>4. NoOversleep'
    BY <1>1 DEF NoOversleep
  <2>5. InOrder' /\ NeverEarly' /\ TakenBeforeQueued'
    BY <1>1, <1>3, <2>1 DEF IInv, InOrder, NeverEarly, TakenBeforeQueued, DueBefore
  <2>. QED  BY <1>1, <1>3, <2>1, <2>2, <2>3, <2>4, <2>5 DEF IInv
<1>4. CASE taken' = Append(taken, [id |-> Begin, known |-> Len(due)])
  <2> DEFINE n == Len(taken)
             r == [id |-> Begin, known |-> Len(due)]
  <2>1. /\ n \in Nat /\ DOMAIN taken = 1..n /\ DOMAIN taken' = 1..n + 1
        /\ taken'[n + 1] = r /\ r.id = Begin /\ r.known = Len(due)
        /\ \A i \in 1..n : taken'[i] = taken[i]
    BY <1>4, Numbers DEF IInv, TypeOK
  <2>. HIDE DEF n, r
  <2>2. Taken' = Taken \cup {Begin}
    <3>1. \A i \in 1..n + 1 : taken'[i].id \in Taken \cup {Begin}
      BY <2>1 DEF Taken
    <3>2. \A c \in Taken : \E i \in 1..n + 1 : taken'[i].id = c
      BY <2>1 DEF Taken
    <3>. QED  BY <2>1, <3>1, <3>2 DEF Taken
  <2>3. Begin \notin Taken
    BY <1>2 DEF IInv, Accounted
  <2>4. TypeOK'
    <3>1. r \in [id : 1..MaxCallbacks, known : 0..MaxCallbacks]
      <4>1. Begin \in 1..Len(due) /\ Len(due) \in Nat /\ Len(due) <= MaxCallbacks
        BY <1>2, Numbers DEF IInv, TypeOK
      <4>. QED  BY <4>1, SchedulerAssumption DEF r
    <3>2. taken' \in Seq([id : 1..MaxCallbacks, known : 0..MaxCallbacks])
      BY <1>4, <3>1 DEF IInv, TypeOK, r
    <3>. QED  BY <1>1, <3>2 DEF IInv, TypeOK, WorkerElsewhere
  <2>5. Accounted'
    <3>1. \A i, j \in 1..n + 1 : taken'[i].id = taken'[j].id => i = j
      <4>1. \A i \in 1..n : taken[i].id # Begin
        BY <2>1, <2>3 DEF Taken
      <4>2. \A i, j \in 1..n : taken[i].id = taken[j].id => i = j
        BY <2>1 DEF IInv, Accounted
      <4>. QED  BY <2>1, <4>1, <4>2
    <3>2. /\ callbacks' \cap Taken' = {}
          /\ (DOMAIN due)' = callbacks' \cup Taken' \cup ((DOMAIN due)' \cap cancelled')
      BY <1>1, <1>2, <2>2 DEF IInv, Accounted
    <3>. QED  BY <2>1, <3>1, <3>2 DEF Accounted
  <2>6. NoOversleep'
    BY <1>1 DEF NoOversleep
  <2>7. InOrder'
    <3>. SUFFICES ASSUME NEW i \in 1..n + 1, NEW j \in 1..n + 1, i < j
                  PROVE  DueBefore(taken'[i].id, taken'[j].id)
                         \/ taken'[j].id > taken'[i].known
      BY <1>1, <2>1 DEF InOrder, DueBefore
    <3>1. CASE j \in 1..n
      BY <2>1, <3>1 DEF IInv, InOrder, DueBefore
    <3>2. CASE j = n + 1
      BY <1>2, <2>1, <3>2 DEF IInv, TakenBeforeQueued
    <3>. QED  BY <2>1, <3>1, <3>2
  <2>8. NeverEarly'
    BY <1>1, <2>2 DEF IInv, NeverEarly
  <2>9. TakenBeforeQueued'
    <3>. SUFFICES ASSUME NEW i \in 1..n + 1, NEW c \in callbacks, c # Begin
                  PROVE  DueBefore(taken'[i].id, c) \/ c > taken'[i].known
      BY <1>1, <2>1 DEF TakenBeforeQueued, DueBefore
    <3>1. CASE i \in 1..n
      BY <2>1, <3>1 DEF IInv, TakenBeforeQueued
    <3>2. CASE i = n + 1
      BY <1>2, <2>1, <3>2
    <3>. QED  BY <2>1, <3>1, <3>2
  <2>10. \A i \in 1..n + 1 : taken'[i].known <= Len(due)
    <3>1. Len(due) \in Nat
      BY Numbers
    <3>. QED  BY <2>1, <3>1 DEF IInv
  <2>11. Taken' \subseteq DOMAIN due
    BY <1>2, <2>2 DEF IInv
  <2>. QED  BY <1>1, <2>1, <2>4, <2>5, <2>6, <2>7, <2>8, <2>9, <2>10, <2>11 DEF IInv
<1>. QED  BY <1>1, <1>3, <1>4

\* A newly scheduled callback preserves the invariant.
LEMMA ScheduleInvariant ==
  ASSUME IInv, NEW t \in Time, Schedule(t)
  PROVE  IInv'
<1> DEFINE n == Len(due)
<1>1. /\ n < MaxCallbacks /\ worker \notin WorkerHoldsMutex
      /\ due' = Append(due, t) /\ callbacks' = callbacks \cup {n + 1}
      /\ worker' = Notified(worker)
      /\ UNCHANGED <<clock, cancelled, stop, when, taken, dtor>>
  BY DEF Schedule, Newest, Wake
<1>2. /\ n \in Nat /\ DOMAIN due = 1..n /\ DOMAIN due' = 1..n + 1 /\ Len(due') = n + 1
      /\ due' \in Seq(Time)
      /\ \A c \in 1..n : due'[c] = due[c]
      /\ n + 1 \notin 1..n /\ \A c \in 1..n : c < n + 1
  BY <1>1, Numbers DEF IInv, TypeOK
<1>. HIDE DEF n
<1>3. Taken' = Taken /\ Taken \subseteq 1..n /\ callbacks \subseteq 1..n
  BY <1>1, <1>2 DEF Taken, IInv, TypeOK
<1>4. /\ worker' \in WorkerElsewhere
      /\ worker' \notin {"check", "blocking", "waiting", "timedBlocking", "timedWaiting"}
  <2>1. worker \in WorkerElsewhere
    BY <1>1 DEF IInv, TypeOK
  <2>. QED  BY <1>1, <2>1 DEF Notified, WorkerElsewhere
<1>5. TypeOK'
  <2>1. Len(due') <= MaxCallbacks
    BY <1>1, <1>2, SchedulerAssumption
  <2>. QED  BY <1>1, <1>2, <1>3, <1>4, <2>1 DEF IInv, TypeOK
<1>6. Accounted'
  BY <1>1, <1>2, <1>3 DEF IInv, Accounted
<1>7. NoOversleep'
  BY <1>4 DEF NoOversleep
<1>8. \A i \in DOMAIN taken : taken[i].id \in 1..n /\ taken[i].known \in Nat
                              /\ taken[i].known <= n
  BY <1>2, Numbers DEF IInv, n
<1>9. InOrder'
  BY <1>1, <1>2, <1>8 DEF IInv, InOrder
<1>10. NeverEarly'
  BY <1>1, <1>2, <1>3 DEF IInv, NeverEarly
<1>11. TakenBeforeQueued'
  <2>. SUFFICES ASSUME NEW i \in DOMAIN taken, NEW c \in callbacks'
                PROVE  DueBefore(taken[i].id, c)' \/ c > taken[i].known
    BY <1>1 DEF TakenBeforeQueued
  <2>1. CASE c = n + 1
    <3>1. taken[i].known \in Nat /\ taken[i].known <= n /\ n \in Nat
      BY <1>2, <1>8
    <3>2. n + 1 > taken[i].known
      BY <3>1
    <3>. QED  BY <2>1, <3>2
  <2>2. CASE c \in callbacks
    <3>1. DueBefore(taken[i].id, c) \/ c > taken[i].known
      BY <2>2 DEF IInv, TakenBeforeQueued
    <3>2. due'[c] = due[c] /\ due'[taken[i].id] = due[taken[i].id] /\ taken' = taken
      BY <1>1, <1>2, <1>3, <1>8, <2>2
    <3>. QED  BY <3>1, <3>2 DEF DueBefore
  <2>. QED  BY <1>1, <2>1, <2>2
<1>12. \A i \in DOMAIN taken' : taken'[i].known <= Len(due')
  BY <1>1, <1>2, <1>8
<1>. QED  BY <1>1, <1>2, <1>3, <1>4, <1>5, <1>6, <1>7, <1>9, <1>10, <1>11, <1>12 DEF IInv

\* Every step preserves the invariant.
LEMMA NextInvariant ==
  ASSUME IInv, [Next]_vars
  PROVE  IInv'
<1> USE DEF WorkerHoldsMutex, WorkerElsewhere
<1>1. TypeOK /\ NoOversleep /\ (worker = "check" /\ ~stop => callbacks # {})
  BY DEF IInv
<1>2. CASE Loop
  BY <1>1, <1>2, WorkerMoves DEF Loop, Goto, TypeOK
<1>3. CASE Lock
  BY <1>1, <1>3, WorkerMoves DEF Lock, Goto, TypeOK
<1>4. CASE Block
  BY <1>1, <1>4, WorkerMoves DEF Block, Goto, TypeOK, NoOversleep
<1>5. CASE StopSeen
  BY <1>1, <1>5, WorkerMoves DEF StopSeen, Goto, TypeOK
<1>6. CASE Take
  BY <1>6, TakeInvariant
<1>7. CASE Call
  BY <1>1, <1>7, WorkerMoves DEF Call, Goto, TypeOK
<1>8. CASE Return
  BY <1>1, <1>8, WorkerMoves DEF Return, Goto, TypeOK
<1>9. CASE NotDue
  <2>1. /\ worker' = "timedTest" /\ when' = due[Begin]
        /\ UNCHANGED <<clock, callbacks, due, cancelled, stop, taken, dtor>>
    BY <1>9 DEF NotDue
  <2>2. when' \in Time
    <3>1. Begin \in DOMAIN due
      BY <1>1, <1>9, BeginProperties DEF NotDue, TypeOK
    <3>. QED  BY <1>1, <2>1, <3>1 DEF TypeOK
  <2>3. TypeOK'
    BY <1>1, <2>1, <2>2 DEF TypeOK
  <2>4. Taken' = Taken
    BY <2>1 DEF Taken
  <2>5. Accounted' /\ NoOversleep' /\ InOrder' /\ NeverEarly' /\ TakenBeforeQueued'
    BY <2>1, <2>4 DEF IInv, Accounted, NoOversleep, InOrder, NeverEarly,
                      TakenBeforeQueued, DueBefore
  <2>. QED  BY <2>1, <2>3, <2>4, <2>5 DEF IInv
<1>10. CASE TimedTest
  <2>1. /\ UNCHANGED <<clock, callbacks, due, cancelled, stop, when, taken, dtor>>
        /\ worker' \in {"loop", "timedBlocking"}
        /\ worker' = "timedBlocking" => ~Earlier
    BY <1>10 DEF TimedTest
  <2>2. worker' = "timedBlocking" => \A c \in callbacks : when <= due[c]
    <3>. SUFFICES ASSUME ~Earlier, NEW c \in callbacks  PROVE when <= due[c]
      BY <2>1
    <3>1. /\ Begin \in callbacks /\ (c = Begin \/ DueBefore(Begin, c)) /\ ~(due[Begin] < when)
      BY <1>1, BeginProperties DEF Earlier
    <3>2. due[Begin] \in Nat /\ due[c] \in Nat /\ when \in Nat
      BY <3>1, Numbers
    <3>. QED  BY <3>1, <3>2 DEF DueBefore
  <2>. QED  BY <1>1, <2>1, <2>2, WorkerMoves DEF TypeOK
<1>11. CASE TimedBlock
  BY <1>1, <1>11, WorkerMoves DEF TimedBlock, Goto, TypeOK, NoOversleep
<1>12. CASE Timeout
  BY <1>1, <1>12, WorkerMoves DEF Timeout, Goto, TypeOK
<1>13. CASE SpuriousWakeup
  BY <1>1, <1>13, WorkerMoves DEF SpuriousWakeup, Notified, TypeOK
<1>14. ASSUME NEW t \in Time, Schedule(t)  PROVE IInv'
  BY <1>14, ScheduleInvariant
<1>15. ASSUME NEW c \in DOMAIN due, Cancel(c)  PROVE IInv'
  BY <1>1, <1>15, WorkerMoves DEF Cancel, TypeOK, NoOversleep
<1>16. CASE StoreStop
  BY <1>1, <1>16, WorkerMoves DEF StoreStop, TypeOK, NoOversleep
<1>17. CASE NotifyStop
  <2>1. /\ worker' = worker \/ worker' \in {"lock", "timedWoken"}
        /\ dtor' = "joining"
        /\ UNCHANGED <<clock, callbacks, due, cancelled, stop, when, taken>>
    BY <1>17 DEF NotifyStop, Notified
  <2>. QED  BY <1>1, <2>1, WorkerMoves DEF TypeOK, NoOversleep
<1>18. CASE Join
  BY <1>1, <1>18, WorkerMoves DEF Join, TypeOK, NoOversleep
<1>19. CASE Tick
  <2>1. /\ clock' \in Time /\ clock' = clock + 1
        /\ UNCHANGED <<callbacks, due, cancelled, stop, worker, when, taken, dtor>>
    BY <1>1, <1>19, SchedulerAssumption DEF Tick, TypeOK, Time
  <2>2. Taken' = Taken
    BY <2>1 DEF Taken
  <2>3. NeverEarly'
    BY <2>1, <2>2, Numbers DEF IInv, NeverEarly
  <2>4. Accounted' /\ NoOversleep' /\ InOrder' /\ TakenBeforeQueued'
    BY <2>1, <2>2 DEF IInv, Accounted, NoOversleep, InOrder, TakenBeforeQueued, DueBefore
  <2>. QED  BY <1>1, <2>1, <2>2, <2>3, <2>4 DEF IInv, TypeOK
<1>20. CASE UNCHANGED vars
  BY <1>1, <1>20, WorkerMoves DEF vars, TypeOK, NoOversleep
<1>. QED
  BY <1>2, <1>3, <1>4, <1>5, <1>6, <1>7, <1>8, <1>9, <1>10, <1>11, <1>12, <1>13, <1>14,
     <1>15, <1>16, <1>17, <1>18, <1>19, <1>20 DEF Next, Worker, Joined

\* The invariant holds for ever.
THEOREM Invariant == Spec => []IInv
<1>1. IInv /\ [Next]_vars => IInv'
  BY NextInvariant
<1>. QED  BY <1>1, InitInvariant, PTL DEF Spec

-----------------------------------------------------------------------------
\* The members keep their types.
THEOREM TypeCorrect == Spec => []TypeOK
<1>1. IInv => TypeOK
  BY DEF IInv
<1>. QED  BY <1>1, Invariant, PTL

\* No callback is lost and none is run twice.
THEOREM AlwaysAccounted == Spec => []Accounted
<1>1. IInv => Accounted
  BY DEF IInv
<1>. QED  BY <1>1, Invariant, PTL

\* The worker never sleeps past a callback.
THEOREM NeverOversleeps == Spec => []NoOversleep
<1>1. IInv => NoOversleep
  BY DEF IInv
<1>. QED  BY <1>1, Invariant, PTL

\* Callbacks are called in the order of their times, first scheduled first at
\* equal times.
THEOREM AlwaysInOrder == Spec => []InOrder
<1>1. IInv => InOrder
  BY DEF IInv
<1>. QED  BY <1>1, Invariant, PTL

\* No callback is called before its time.
THEOREM AlwaysNeverEarly == Spec => []NeverEarly
<1>1. IInv => NeverEarly
  BY DEF IInv
<1>. QED  BY <1>1, Invariant, PTL
\* A cancelled callback that has not been taken is not taken any more: the worker
\* tests the flag under the mutex, in the step that would take it.
LEMMA CancelledStaysOut ==
  ASSUME IInv, [Next]_vars, NEW c, c \in cancelled, c \notin Taken
  PROVE  c \in cancelled' /\ c \notin Taken'
<1>1. cancelled \subseteq cancelled' /\ (taken' = taken \/ Take)
  BY DEF Next, vars, Worker, Loop, Lock, Block, StopSeen, Take, Call, Return, NotDue, TimedTest,
         TimedBlock, Timeout, SpuriousWakeup, Schedule, Cancel, StoreStop, NotifyStop, Join,
         Tick, Joined, Goto
<1>2. CASE taken' = taken
  BY <1>1, <1>2 DEF Taken
<1>3. CASE Take /\ taken' # taken
  <2>1. Begin \notin cancelled /\ taken' = Append(taken, [id |-> Begin, known |-> Len(due)])
    BY <1>3 DEF Take, Skip
  <2>2. Len(taken) \in Nat /\ DOMAIN taken = 1..Len(taken)
    BY Numbers
  <2>3. taken \in Seq([id : 1..MaxCallbacks, known : 0..MaxCallbacks])
    BY DEF IInv, TypeOK
  <2>4. PICK r : r = [id |-> Begin, known |-> Len(due)]
    OBVIOUS
  <2>5. /\ DOMAIN taken' = 1..Len(taken) + 1 /\ taken'[Len(taken) + 1] = r
        /\ \A i \in 1..Len(taken) : taken'[i] = taken[i]
    BY <2>1, <2>3, <2>4
  <2>6. ASSUME NEW i \in DOMAIN taken'  PROVE taken'[i].id # c
    <3>1. i \in DOMAIN taken \/ i = Len(taken) + 1
      BY <2>2, <2>5
    <3>2. r.id = Begin
      BY <2>4
    <3>. QED  BY <2>1, <2>2, <2>5, <3>1, <3>2 DEF Taken
  <2>. QED  BY <1>1, <2>6 DEF Taken
<1>. QED  BY <1>1, <1>2, <1>3

\* A callback that is cancelled while it is in the multimap is never called.
THEOREM CancelAlwaysHolds == Spec => CancelHolds
<1>1. ASSUME NEW c \in 1..MaxCallbacks
      PROVE  Spec => [](c \in cancelled /\ c \in callbacks => [](c \notin Taken))
  <2>1. IInv /\ (c \in cancelled /\ c \in callbacks) => c \in cancelled /\ c \notin Taken
    BY DEF IInv, Accounted
  <2>2. IInv /\ [Next]_vars /\ (c \in cancelled /\ c \notin Taken)
          => (c \in cancelled /\ c \notin Taken)'
    BY CancelledStaysOut
  <2>. QED  BY <2>1, <2>2, Invariant, PTL DEF Spec
<1>. QED  BY <1>1 DEF CancelHolds
=============================================================================
