----------------------------- MODULE Dictionary -----------------------------
(***************************************************************************)
(* NodeDictionary (dictionary.hh, dictionary-decl.hh): the red-black tree  *)
(* behind dictionaries, with its links to parents.                         *)
(*                                                                         *)
(* A node is named by its key, which no two nodes share; its value goes    *)
(* wherever its key goes, and is left out.  The tree is the field root     *)
(* and a function from the keys that are there to nodes.  What a loop or a *)
(* recursion of the code does is one operator from trees to trees.         *)
(***************************************************************************)
EXTENDS Integers, Sequences, FiniteSets

CONSTANT MaxKey  \* bound on the keys

ASSUME MaxKeyAssumption == MaxKey \in Nat

Keys == 1..MaxKey
Nil == 0   \* nullptr

VARIABLES
    tree,     \* the dictionary
    members   \* the keys put and not removed, for the properties

dictionaryVars == <<tree, members>>

EmptyTree == [root |-> Nil, node |-> << >>]

\* isRed, isBlack: a missing node is black.
IsRed(t, n) == n # Nil /\ t.node[n].color = "red"
IsBlack(t, n) == ~IsRed(t, n)

Paint(t, n, color) == [t EXCEPT !.node[n].color = color]

SetParent(t, n, p) == IF n = Nil THEN t ELSE [t EXCEPT !.node[n].parent = p]

\* `new` takes the place of `old` below parent, or at the root.
Relink(t, parent, old, new) ==
    IF parent = Nil THEN [t EXCEPT !.root = new]
    ELSE IF t.node[parent].left = old THEN [t EXCEPT !.node[parent].left = new]
    ELSE [t EXCEPT !.node[parent].right = new]

\* getTheOtherChild
TheOtherChild(t, parent, child) ==
    IF child = t.node[parent].left THEN t.node[parent].right ELSE t.node[parent].left

\* Fault: the child that changes sides keeps its old parent.
RotateLeftOrphan(t, parent, child) ==
    LET moved == t.node[child].left
        grand == t.node[parent].parent
        linked == [t EXCEPT !.node[parent].right = moved,
                            !.node[parent].parent = child,
                            !.node[child].left = parent,
                            !.node[child].parent = grand]
    IN Relink(linked, grand, parent, child)

RotateLeft(t, parent, child) ==
    LET moved == t.node[child].left
        grand == t.node[parent].parent
        linked == [t EXCEPT !.node[parent].right = moved,
                            !.node[parent].parent = child,
                            !.node[child].left = parent,
                            !.node[child].parent = grand]
    IN Relink(SetParent(linked, moved, parent), grand, parent, child)

RotateRight(t, parent, child) ==
    LET moved == t.node[child].right
        grand == t.node[parent].parent
        linked == [t EXCEPT !.node[parent].left = moved,
                            !.node[parent].parent = child,
                            !.node[child].right = parent,
                            !.node[child].parent = grand]
    IN Relink(SetParent(linked, moved, parent), grand, parent, child)

-----------------------------------------------------------------------------
(* Lookup *)

RECURSIVE Descend(_, _, _, _)
Descend(t, key, node, parent) ==
    IF node = Nil \/ key = node THEN [node |-> node, parent |-> parent]
    ELSE IF key < node THEN Descend(t, key, t.node[node].left, node)
    ELSE Descend(t, key, t.node[node].right, node)

\* lookupNode: the node, or Nil and the node below which it would be.
LookupNode(t, key) == Descend(t, key, t.root, Nil)

RECURSIVE InOrder(_, _)
InOrder(t, n) ==
    IF n = Nil THEN << >>
    ELSE InOrder(t, t.node[n].left) \o <<n>> \o InOrder(t, t.node[n].right)

\* foldRight, which walks from the right, and puts each entry before the others.
Entries(t) == InOrder(t, t.root)

-----------------------------------------------------------------------------
(* lookupOrCreate *)

\* Cases 4 and 5: first make of the node an outer grandchild.
RotateGrandParent(t, node, parent, grand) ==
    LET inner == \/ node = t.node[parent].right /\ parent = t.node[grand].left
                 \/ node = t.node[parent].left /\ parent = t.node[grand].right
        outer == IF ~inner THEN t
                 ELSE IF node = t.node[parent].right THEN RotateLeft(t, parent, node)
                 ELSE RotateRight(t, parent, node)
        top == IF inner THEN node ELSE parent
        painted == Paint(Paint(outer, top, "black"), grand, "red")
    IN IF top = painted.node[grand].left
       THEN RotateRight(painted, grand, top)
       ELSE RotateLeft(painted, grand, top)

RECURSIVE FixInsert(_, _)
FixInsert(t, node) ==
    LET parent == t.node[node].parent IN
    IF parent = Nil THEN Paint(t, node, "black")
    ELSE IF IsBlack(t, parent) THEN t
    ELSE LET grand == t.node[parent].parent
             uncle == TheOtherChild(t, grand, parent)
         IN IF IsRed(t, uncle)
            THEN FixInsert(Paint(Paint(Paint(t, parent, "black"), uncle, "black"),
                                 grand, "red"), grand)
            ELSE RotateGrandParent(t, node, parent, grand)

Insert(t, key) ==
    LET parent == LookupNode(t, key).parent
        new == [left |-> Nil, right |-> Nil, parent |-> parent, color |-> "red"]
        added == [t EXCEPT !.node = [k \in DOMAIN @ \cup {key} |->
                                        IF k = key THEN new ELSE @[k]]]
        linked == IF parent = Nil THEN [added EXCEPT !.root = key]
                  ELSE IF key < parent THEN [added EXCEPT !.node[parent].left = key]
                  ELSE [added EXCEPT !.node[parent].right = key]
    IN FixInsert(linked, key)

LookupOrCreate(key) ==
    /\ tree' = IF LookupNode(tree, key).node # Nil THEN tree ELSE Insert(tree, key)
    /\ members' = members \cup {key}

-----------------------------------------------------------------------------
(* remove *)

RECURSIVE RightMost(_, _)
RightMost(t, n) == IF t.node[n].right = Nil THEN n ELSE RightMost(t, t.node[n].right)

\* Cases 5 and 6: a child of the sibling is red.
RotateSibling(t, node, parent, sibling) ==
    LET left == node = t.node[parent].left
        inner == IF left THEN t.node[sibling].left ELSE t.node[sibling].right
        outer == IF left THEN t.node[sibling].right ELSE t.node[sibling].left
        turned == IF IsRed(t, outer) THEN t
                  ELSE IF left THEN RotateRight(t, sibling, inner)
                  ELSE RotateLeft(t, sibling, inner)
        top == IF IsRed(t, outer) THEN sibling ELSE inner
        painted == Paint(Paint(turned, top, turned.node[parent].color), parent, "black")
    IN IF left
       THEN RotateLeft(Paint(painted, painted.node[top].right, "black"), parent, top)
       ELSE RotateRight(Paint(painted, painted.node[top].left, "black"), parent, top)

\* Case 2: the sibling becomes black.
BlackSibling(t, node, parent) ==
    LET sibling == TheOtherChild(t, parent, node)
        painted == Paint(Paint(t, parent, "red"), sibling, "black")
    IN IF IsBlack(t, sibling) THEN t
       ELSE IF node = t.node[parent].left THEN RotateLeft(painted, parent, sibling)
       ELSE RotateRight(painted, parent, sibling)

RECURSIVE FixRemove(_, _, _)
FixRemove(t0, node, parent) ==
    IF parent = Nil THEN t0
    ELSE LET t == BlackSibling(t0, node, parent)
             sibling == TheOtherChild(t, parent, node)
         IN IF IsBlack(t, t.node[sibling].left) /\ IsBlack(t, t.node[sibling].right)
            THEN IF IsBlack(t, parent)
                 THEN FixRemove(Paint(t, sibling, "red"), parent, t.node[parent].parent)
                 ELSE Paint(Paint(t, sibling, "red"), parent, "black")
            ELSE RotateSibling(t, node, parent, sibling)

\* removeNodeWithAtMostOneNonLeafChild
RemoveNode(t, node) ==
    LET parent == t.node[node].parent
        child == IF t.node[node].left = Nil THEN t.node[node].right ELSE t.node[node].left
        linked == SetParent(Relink(t, parent, node, child), child, parent)
        freed == [linked EXCEPT !.node = [k \in DOMAIN @ \ {node} |-> @[k]]]
    IN IF IsRed(t, node) THEN freed
       ELSE IF child # Nil THEN Paint(freed, child, "black")
       ELSE FixRemove(freed, child, parent)

\* The node with key `from` gets key `to`, whose own node has gone.
Rename(t, from, to) ==
    LET Name(n) == IF n = from THEN to ELSE n
        Old(k) == IF k = to THEN from ELSE k
    IN [root |-> Name(t.root),
        node |-> [k \in (DOMAIN t.node \ {from}) \cup {to} |->
                     LET n == t.node[Old(k)]
                     IN [n EXCEPT !.left = Name(@), !.right = Name(@), !.parent = Name(@)]]]

\* Fault: a node with two children is unlinked like the others.
RemoveKeyInPlace(t, key) == RemoveNode(t, key)

\* A node with two children takes the key and the value of the last node before
\* it, which is removed instead.
RemoveKey(t, key) ==
    IF t.node[key].left # Nil /\ t.node[key].right # Nil
    THEN LET bottom == RightMost(t, t.node[key].left)
         IN Rename(RemoveNode(t, bottom), key, bottom)
    ELSE RemoveNode(t, key)

Remove(key) ==
    /\ tree' = IF LookupNode(tree, key).node = Nil THEN tree ELSE RemoveKey(tree, key)
    /\ members' = members \ {key}

RemoveAll ==
    /\ tree' = EmptyTree
    /\ members' = {}

-----------------------------------------------------------------------------
(* replicate, by clone and by the graph replicator: the copy takes the place
   of the original *)

RECURSIVE CopyBelow(_, _, _)
CopyBelow(t, n, parent) ==
    IF n = Nil THEN << >>
    ELSE LET left == CopyBelow(t, t.node[n].left, n)
             right == CopyBelow(t, t.node[n].right, n)
         IN [k \in {n} \cup DOMAIN left \cup DOMAIN right |->
                IF k = n THEN [t.node[n] EXCEPT !.parent = parent]
                ELSE IF k \in DOMAIN left THEN left[k] ELSE right[k]]

Replicate ==
    /\ tree' = [root |-> tree.root, node |-> CopyBelow(tree, tree.root, Nil)]
    /\ UNCHANGED members

-----------------------------------------------------------------------------
DictionaryInit == tree = EmptyTree /\ members = {}

DictionaryNext ==
    \/ \E key \in Keys : LookupOrCreate(key) \/ Remove(key)
    \/ RemoveAll
    \/ Replicate

-----------------------------------------------------------------------------
(* Properties *)

\* Whatever was put and removed, and in whatever order, a lookup finds the keys
\* that are there and no other, and the entries come in the order of the keys
\* (dictionary.hh, lookupNode and foldRight).
DictionaryIsMap ==
    /\ DOMAIN tree.node = members
    /\ \A k \in Keys : (LookupNode(tree, k).node = k) <=> k \in members
    /\ LET s == Entries(tree)
       IN /\ Len(s) = Cardinality(members)
          /\ \A i \in 1..(Len(s) - 1) : s[i] < s[i + 1]

RECURSIVE BlackHeight(_, _)
BlackHeight(t, n) ==  \* or -1, when the two sides of a node differ
    IF n = Nil THEN 0
    ELSE LET left == BlackHeight(t, t.node[n].left)
             right == BlackHeight(t, t.node[n].right)
         IN IF left # right \/ left = -1 THEN -1
            ELSE left + (IF t.node[n].color = "black" THEN 1 ELSE 0)

\* The tree stays balanced, and the links to the parents agree with the links
\* to the children: what the assertions of fixInsert and fixRemove rely on.
DictionaryIsRedBlack ==
    /\ IsBlack(tree, tree.root)
    /\ tree.root # Nil => tree.node[tree.root].parent = Nil
    /\ BlackHeight(tree, tree.root) # -1
    /\ \A n \in DOMAIN tree.node :
          \A c \in {tree.node[n].left, tree.node[n].right} \ {Nil} :
              /\ tree.node[c].parent = n
              /\ IsRed(tree, n) => IsBlack(tree, c)

=============================================================================
