------------------------------ MODULE XmlEncryptor ----------------------------
(***************************************************************************)
(* encryptXmlTree of xmlEncryptor/xmlEncryptor.cpp, the sequential one: an *)
(* explicit stack of collectors in place of recursion.                     *)
(***************************************************************************)
EXTENDS XmlTree

VARIABLES tree,   \* the argument
          stack,  \* treeTraverseStack, the top at the end
          res,
          main    \* "running", or "returned"

vars == <<tree, stack, res, main>>

\* A new collector.  onDone is the place in the deque of the collector that its
\* callback writes to, which no push and no pop above it moves; 0 stands for res.
Collector(n, onDone) ==
  [node |-> n, processedChilds |-> 0, encryptedChilds |-> << >>, onDone |-> onDone]

Init ==
  /\ tree \in Trees
  /\ stack = <<Collector(Root, 0)>>
  /\ res = Nothing
  /\ main = "running"

\* nodeWrp
Top == stack[Len(stack)]

\* Mutant: the last child is forgotten.
ChildLeftButLast == Top.processedChilds + 1 < Arity(tree, Top.node)

\* The node on top has a child that has not been pushed.
ChildLeft == Top.processedChilds < Arity(tree, Top.node)

\* The next child is pushed, with a callback to the collector that was on top.
PushChild ==
  /\ stack # << >> /\ ChildLeft
  /\ LET next == Top.processedChilds + 1
     IN  stack' = Append([stack EXCEPT ![Len(stack)].processedChilds = next],
                         Collector(Append(Top.node, next), Len(stack)))
  /\ UNCHANGED <<tree, res, main>>

\* The top is encrypted, its result goes to its callback, and it is popped.
EncryptTop ==
  /\ stack # << >> /\ ~ChildLeft
  /\ LET encrypted == EncryptNode(Top.node, Top.encryptedChilds)
     IN  IF Top.onDone = 0
           THEN stack' = Front(stack) /\ res' = encrypted
           ELSE /\ stack' = Front([stack EXCEPT ![Top.onDone].encryptedChilds =
                                                  Append(@, encrypted)])
                /\ UNCHANGED res
  /\ UNCHANGED <<tree, main>>

Return ==
  /\ stack = << >> /\ main = "running"
  /\ main' = "returned"
  /\ UNCHANGED <<tree, stack, res>>

Next == PushChild \/ EncryptTop \/ Return

Spec == Init /\ [][Next]_vars /\ WF_vars(Next)

-----------------------------------------------------------------------------
TypeOK ==
  /\ tree \in Trees
  /\ \A d \in DOMAIN stack :
       /\ stack[d].node \in tree
       /\ stack[d].processedChilds \in 0 .. Arity(tree, stack[d].node)
       /\ stack[d].onDone = d - 1
  /\ main \in {"running", "returned"}

\* Each collector on the stack has the right results of its children, in order, up
\* to the one that is still on the stack above it, and res is right once it is
\* written: the explicit stack computes what the recursion does.
PartialResults ==
  /\ \A d \in DOMAIN stack :
       LET c == stack[d]
           k == Len(c.encryptedChilds)
       IN  /\ \A i \in 1 .. k : c.encryptedChilds[i] = Encrypted(tree)[Append(c.node, i)]
           /\ c.processedChilds = IF d = Len(stack) THEN k ELSE k + 1
           /\ d < Len(stack) => stack[d + 1].node = Append(c.node, k + 1)
  /\ stack = << >> => res = Encrypted(tree)[Root]

\* The call returns.
CallReturns == <>(main = "returned")
=============================================================================
