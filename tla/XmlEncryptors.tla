----------------------------- MODULE XmlEncryptors ----------------------------
(***************************************************************************)
(* A client that encrypts the same tree with the sequential encryptor and  *)
(* then with the one that uses a pool, which must agree.                   *)
(***************************************************************************)
EXTENDS XmlTree

VARIABLES tree,
          stack, plainRes, plainMain,                            \* XmlEncryptor
          unvisited, remainChilds, encryptedChilds, tasks, main, \* XmlEncryptorMt
          resultDone, res

Plain == INSTANCE XmlEncryptor WITH res <- plainRes, main <- plainMain
Mt == INSTANCE XmlEncryptorMt WITH queue <- unvisited, done <- resultDone

plainVars == <<stack, plainRes, plainMain>>
mtVars == <<unvisited, remainChilds, encryptedChilds, tasks, main, resultDone, res>>
xmlVars == <<tree, plainVars, mtVars>>

XmlInit == Plain!Init /\ Mt!Init

\* A step of the second call, which begins when the first has returned.
Second(step) == plainMain = "returned" /\ step /\ UNCHANGED plainVars

First == Plain!Next /\ UNCHANGED mtVars

XmlNext == First \/ Second(Mt!Next)

\* As in the two modules: every thread that can run is scheduled.
XmlFairness ==
  /\ WF_xmlVars(First)
  /\ WF_xmlVars(Second(Mt!Caller))
  /\ WF_xmlVars(Second(\E j \in DOMAIN tasks : Mt!TaskStep(j)))

XmlSpec == XmlInit /\ [][XmlNext]_xmlVars /\ XmlFairness

-----------------------------------------------------------------------------
XmlTypeOK == Plain!TypeOK /\ Mt!TypeOK

\* At every step of either call what has been computed agrees with the recursive
\* definition, and with it the two results with each other.
PartialResults ==
  /\ Plain!PartialResults /\ Mt!PartialResults
  /\ main = "returned" => res = plainRes

\* After the second call has returned its caller may go on: none of its tasks still
\* uses the tree, the result or the mutex; only a notification of its condition
\* variable may be left (and, on the pool, the end of a Submit).
OnlyNotifyLate == Mt!OnlyNotifyLate

\* Both calls return, whatever the order in which the tasks run.
CallsReturn == Plain!CallReturns /\ Mt!CallReturns
=============================================================================
