----------------------------- MODULE XmlEncryptorMt ---------------------------
(***************************************************************************)
(* encryptXmlTree of xmlEncryptor/xmlEncryptorMt.cpp.  The calling thread  *)
(* walks the tree, submits a task for each leaf and waits.  A task         *)
(* encrypts a node and hands the result to the collector of its parent;    *)
(* the child that finishes last submits the parent's task, and the task of *)
(* the root wakes the caller.  A submitted task runs on a thread of its    *)
(* own, as in SimplePool, at any moment from then on.                      *)
(***************************************************************************)
EXTENDS XmlTree

VARIABLES tree,             \* the argument
          queue,            \* the nodes whose collectors the caller has not visited
          remainChilds,     \* of each collector made so far
          encryptedChilds,  \* of each, a place per child
          tasks,            \* the tasks, in the order of their submission
          main,             \* where the caller is
          done, res         \* what the callback of the root writes

vars == <<tree, queue, remainChilds, encryptedChilds, tasks, main, done, res>>

\* remainChilds of new collectors, for the nodes of the sequence s.
Remaining(s) == [n \in ToSet(s) |-> Arity(tree, n)]

\* The values of old collectors and of new ones.
Joined(old, new) ==
  [n \in DOMAIN old \cup DOMAIN new |-> IF n \in DOMAIN new THEN new[n] ELSE old[n]]

\* Mutant: room is reserved, but the vector has no elements.
PlacesReserved(s) == [n \in ToSet(s) |-> << >>]

\* Their encryptedChilds, resized to one empty place per child.
Places(s) == [n \in ToSet(s) |-> [i \in 1 .. Arity(tree, n) |-> Nothing]]

Init ==
  /\ tree \in Trees
  /\ queue = <<Root>>
  /\ remainChilds = Remaining(<<Root>>) /\ encryptedChilds = Places(<<Root>>)
  /\ tasks = << >>
  /\ main = "walking"
  /\ done = FALSE /\ res = Nothing

IsLeaf(n) == Arity(tree, n) = 0

\* pool->Submit of the task of n, once the tasks are as in ts.
Submitted(ts, n) == Append(ts, [node |-> n, at |-> "submitted", encrypted |-> Nothing])

-----------------------------------------------------------------------------
(***************************************************************************)
(* The caller.                                                             *)
(***************************************************************************)
\* A leaf at the front of the queue: SubmitLeaf.
SubmitLeaf ==
  /\ queue # << >> /\ IsLeaf(Head(queue))
  /\ tasks' = Submitted(tasks, Head(queue))
  /\ queue' = Tail(queue)
  /\ UNCHANGED <<tree, remainChilds, encryptedChilds, main, done, res>>

\* Another node there: EnqueueChildren.
EnqueueChildren ==
  /\ queue # << >> /\ ~IsLeaf(Head(queue))
  /\ LET new == Children(tree, Head(queue))
     IN  /\ queue' = Tail(queue) \o new
         /\ remainChilds' = Joined(remainChilds, Remaining(new))
         /\ encryptedChilds' = Joined(encryptedChilds, Places(new))
  /\ UNCHANGED <<tree, tasks, main, done, res>>

\* The queue is empty: the caller goes on to cv.wait.
Walked ==
  /\ queue = << >> /\ main = "walking"
  /\ main' = "waiting"
  /\ UNCHANGED <<tree, queue, remainChilds, encryptedChilds, tasks, done, res>>

\* The predicate of cv.wait, first or after a wakeup.  done is written under mutex,
\* so nothing gets between the test and the sleep.
Wait ==
  /\ main = "waiting"
  /\ main' = IF done THEN "returned" ELSE "asleep"
  /\ UNCHANGED <<tree, queue, remainChilds, encryptedChilds, tasks, done, res>>

\* A condition variable may wake without a notification.
SpuriousWakeup ==
  /\ main = "asleep"
  /\ main' = "waiting"
  /\ UNCHANGED <<tree, queue, remainChilds, encryptedChilds, tasks, done, res>>

Caller == SubmitLeaf \/ EnqueueChildren \/ Walked \/ Wait

-----------------------------------------------------------------------------
(***************************************************************************)
(* The tasks.  A step of task j is a step of the thread that runs it.      *)
(***************************************************************************)
Goto(j, from, to) ==
  /\ tasks[j].at = from
  /\ tasks' = [tasks EXCEPT ![j].at = to]

\* encryptNode.  A leaf's collector has no places for children.
Encrypt(j) ==
  LET n == tasks[j].node
  IN  /\ tasks[j].at = "submitted"
      /\ tasks' = [tasks EXCEPT ![j] = [node |-> n, at |-> "encrypted",
                                        encrypted |-> EncryptNode(n, encryptedChilds[n])]]
      /\ UNCHANGED <<tree, queue, remainChilds, encryptedChilds, main, done, res>>

\* Mutant: the results are stored in the order in which children finish.
PlaceByCompletion(n) == Arity(tree, Parent(n)) + 1 - remainChilds[Parent(n)]

\* childIdx
Place(n) == Last(n)

\* OnChildEncrypted of the parent's collector: the result is stored, without a mutex.
Store(j) ==
  /\ tasks[j].node # Root
  /\ Goto(j, "encrypted", "stored")
  /\ encryptedChilds' =
       [encryptedChilds EXCEPT ![Parent(tasks[j].node)][Place(tasks[j].node)] =
          tasks[j].encrypted]
  /\ UNCHANGED <<tree, queue, remainChilds, main, done, res>>

\* Mutant: the first child to finish submits the parent.
FirstOf(p) == remainChilds[p] = Arity(tree, p)

\* fetch_sub(1) returns 1.
LastOf(p) == remainChilds[p] = 1

\* The child is counted off, and the last one submits the parent's task.  All that
\* Submit does is part of this step; in the program its end, once the pool has the
\* task, may come later than steps of that task.
CountOff(j) ==
  LET p     == Parent(tasks[j].node)
      ended == [tasks EXCEPT ![j].at = "ended"]
  IN  /\ tasks[j].at = "stored"
      /\ remainChilds' = [remainChilds EXCEPT ![p] = @ - 1]
      /\ tasks' = IF LastOf(p) THEN Submitted(ended, p) ELSE ended
      /\ UNCHANGED <<tree, queue, encryptedChilds, main, done, res>>

\* The callback of the root writes the result under mutex.
SetResult(j) ==
  /\ tasks[j].node = Root
  /\ Goto(j, "encrypted", "notifying")
  /\ res' = tasks[j].encrypted /\ done' = TRUE
  /\ UNCHANGED <<tree, queue, remainChilds, encryptedChilds, main>>

\* Mutant: the caller is not woken.
WokenNever(pc) == pc

\* cv.notify_one() as it acts on the caller.
Woken(pc) == IF pc = "asleep" THEN "waiting" ELSE pc

\* It notifies after it has released the mutex.
Notify(j) ==
  /\ Goto(j, "notifying", "ended")
  /\ main' = Woken(main)
  /\ UNCHANGED <<tree, queue, remainChilds, encryptedChilds, done, res>>

TaskStep(j) == Encrypt(j) \/ Store(j) \/ CountOff(j) \/ SetResult(j) \/ Notify(j)

\* The call is over.
Returned == main = "returned" /\ UNCHANGED vars

Next == Caller \/ SpuriousWakeup \/ Returned \/ \E j \in DOMAIN tasks : TaskStep(j)

\* The caller and the thread of every submitted task are scheduled by the operating
\* system; encryptNode returns.  No spurious wakeup has to come.
Fairness == WF_vars(Caller) /\ WF_vars(\E j \in DOMAIN tasks : TaskStep(j))

Spec == Init /\ [][Next]_vars /\ Fairness

-----------------------------------------------------------------------------
TypeOK ==
  /\ tree \in Trees
  /\ queue \in Seq(tree)
  /\ DOMAIN remainChilds \subseteq tree /\ DOMAIN encryptedChilds = DOMAIN remainChilds
  /\ \A n \in DOMAIN remainChilds :
       /\ remainChilds[n] \in 0 .. Arity(tree, n)
       /\ Len(encryptedChilds[n]) = Arity(tree, n)
  /\ \A j \in DOMAIN tasks :
       /\ tasks[j].node \in tree
       /\ tasks[j].at \in {"submitted", "encrypted", "stored", "notifying", "ended"}
  /\ main \in {"walking", "waiting", "asleep", "returned"}
  /\ done \in BOOLEAN

\* However the children of a node finish, the node is submitted once, after all of
\* them: a task that has encrypted its node has the recursive result, no place of a
\* collector has the result of another child, and res is right once done is set.
PartialResults ==
  /\ \A i, j \in DOMAIN tasks : tasks[i].node = tasks[j].node => i = j
  /\ \A j \in DOMAIN tasks :
       tasks[j].at = "submitted" \/ tasks[j].encrypted = Encrypted(tree)[tasks[j].node]
  /\ \A n \in DOMAIN encryptedChilds : \A i \in DOMAIN encryptedChilds[n] :
       encryptedChilds[n][i] \in {Nothing, Encrypted(tree)[Append(n, i)]}
  /\ done => res = Encrypted(tree)[Root]

\* Once the caller has returned, and its tree and its variables may be gone, no task
\* has a step left that uses them, but for the notification of the root's task.
\* (Of the tasks' calls of Submit, which use the pool and not these variables, the
\* end of the last one may also be late: see CountOff.)
OnlyNotifyLate ==
  main = "returned" =>
    \A j \in DOMAIN tasks :
      tasks[j].at = "ended" \/ (tasks[j].at = "notifying" /\ tasks[j].node = Root)

\* The call returns, whatever the order in which the tasks run.
CallReturns == <>(main = "returned")

\* xmlEncryptor/README.md:49 says that the callback of the root writes the result
\* and notifies cv, and that the calling thread wakes up and returns: taken at its
\* word, the call returns after the notification, when nobody needs its cv any more.
NotifiedBeforeReturn ==
  main = "returned" => \A j \in DOMAIN tasks : tasks[j].at # "notifying"
=============================================================================
