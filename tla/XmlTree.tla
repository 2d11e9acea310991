-------------------------------- MODULE XmlTree -------------------------------
(***************************************************************************)
(* The trees that both encryptors of xmlEncryptor/ work on, and the result *)
(* they should have.  A node is its path from the root: the positions of   *)
(* its ancestors, and its own, among their siblings.  A tree is the set of *)
(* its nodes.  Tag names and texts are abstracted to the node itself.      *)
(***************************************************************************)
EXTENDS Integers, Sequences, FiniteSets, SequencesExt

CONSTANTS MaxChildren,  \* bound: children of a node
          MaxDepth      \* bound: edges from the root to a leaf

ASSUME TreeAssumption == MaxChildren \in Nat /\ MaxDepth \in Nat

Root == << >>

Nodes == UNION {[1 .. d -> 1 .. MaxChildren] : d \in 0 .. MaxDepth}

Parent(n) == Front(n)

\* Every node but the root has its parent and its elder siblings.
IsTree(tree) ==
  /\ Root \in tree
  /\ \A n \in tree \ {Root} :
       Parent(n) \in tree /\ \A i \in 1 .. Last(n) : Append(Parent(n), i) \in tree

Trees == {tree \in SUBSET Nodes : IsTree(tree)}

\* node->children.size()
Arity(tree, n) == Cardinality({i \in 1 .. MaxChildren : Append(n, i) \in tree})

\* node->children
Children(tree, n) == [i \in 1 .. Arity(tree, n) |-> Append(n, i)]

\* The place of a child that has not been encrypted: an empty string.
Nothing == << >>

\* encryptNode(path, text, encryptedChild): a value that tells apart the node and
\* the results of its children, in their order.
EncryptNode(n, encryptedChild) == <<n, encryptedChild>>

\* The result of a node, by recursion over the tree.
Encrypted(tree) ==
  LET result[n \in tree] ==
        EncryptNode(n, [i \in 1 .. Arity(tree, n) |-> result[Append(n, i)]])
  IN  result
=============================================================================
