------------------------------ MODULE Bintree -------------------------------
(***************************************************************************)
(* bintree_t of lib/lib_bintree.c in the hands of one caller: values come  *)
(* and go by reference or as nodes, which the caller may keep, insert      *)
(* again or trash.  The tree promises a sorted bag: bag is a history       *)
(* variable, the references each key has in the tree by the calls so far.  *)
(***************************************************************************)
EXTENDS BintreeOps

CONSTANTS Key,       \* what the comparator sees: a function on the data pointers
          MaxRefs,   \* bound: references in the tree
          MaxHeld,   \* bound: nodes with the caller
          MaxDrift   \* bound: how far refnum may be off

VARIABLES tree,
          held,      \* nodes the caller popped
          bag,       \* references by key
          exact,     \* nothing has happened yet that refnum loses
          broken     \* freed memory was used: what the tree is then nobody can say

vars == <<tree, held, bag, exact, broken>>

Data == DOMAIN Key
Keys == {Key[d] : d \in Data}
InBag == {k \in Keys : bag[k] > 0}
Total == LET upto[n \in Nat] == IF n = 0 THEN 0 ELSE upto[n - 1] + (IF n \in Keys THEN bag[n] ELSE 0)
         IN  upto[CHOOSE k \in Keys : \A j \in Keys : j <= k]

NodeOf(d) == LET path == Path(tree, Key, d) IN path[Len(path)]
KeyOf(n) == Key[tree.data[n]]

Init ==
    /\ tree = EmptyTree
    /\ held = {} /\ bag = [k \in Keys |-> 0] /\ exact = TRUE /\ broken = FALSE

InsertDatum(d) ==
    /\ Total < MaxRefs
    /\ \E n \in Fresh(tree) : tree' = InsertData(tree, Key, n, d)
    /\ bag' = [bag EXCEPT ![Key[d]] = @ + 1]
    /\ UNCHANGED <<held, exact, broken>>

\* A node that several references were merged into counts as one.
InsertNode(n) ==
    /\ Total + tree.ref[n] <= MaxRefs
    /\ tree' = Insert(tree, Key, n)
    /\ held' = held \ {n}
    /\ bag' = [bag EXCEPT ![KeyOf(n)] = @ + tree.ref[n]]
    /\ exact' = (exact /\ tree.ref[n] = 1)
    /\ UNCHANGED broken

\* The node whose references are taken off refnum when the node of d is popped.
Counted(d) == IF HasBoth(tree, NodeOf(d)) THEN Rightest(tree, tree.left[NodeOf(d)]) ELSE NodeOf(d)

PopNode(d) ==
    /\ Found(tree, Key, d) /\ Cardinality(held) < MaxHeld
    /\ LET p == Pop(tree, Key, d)
       IN  tree' = p.tree /\ held' = held \cup {p.node}
    /\ bag' = [bag EXCEPT ![Key[d]] = 0]
    /\ exact' = (exact /\ tree.ref[Counted(d)] = tree.ref[NodeOf(d)])
    /\ UNCHANGED broken

DeleteValue(d) ==
    /\ tree' = Delete(tree, Key, d)
    /\ bag' = [bag EXCEPT ![Key[d]] = IF @ = 0 THEN 0 ELSE @ - 1]
    /\ exact' = (exact /\ (bag[Key[d]] = 1 /\ HasBoth(tree, NodeOf(d)) => tree.ref[Counted(d)] = 1))
    /\ UNCHANGED <<held, broken>>

TrashNode(n) ==
    /\ tree' = Trash(tree, n)
    /\ held' = held \ {n}
    /\ UNCHANGED <<bag, exact, broken>>

ResetTree ==
    \/ /\ ResetReadsFreed(tree)
       /\ broken' = TRUE
       /\ UNCHANGED <<tree, held, bag, exact>>
    \/ /\ ~ ResetReadsFreed(tree)
       /\ tree' = Reset(tree)
       /\ bag' = [k \in Keys |-> 0]
       /\ exact' = (exact /\ tree.duplicates = 0)
       /\ UNCHANGED <<held, broken>>

\* bintree_pop_top_node, bintree_pop_top_data and their like for the bottom.
AtEnd(end) ==
    \/ /\ end = Dangling
       /\ broken' = TRUE
       /\ UNCHANGED <<tree, held, bag, exact>>
    \/ /\ end \notin {NULL, Dangling}
       /\ PopNode(tree.data[end]) \/ DeleteValue(tree.data[end])

Next ==
    /\ ~ broken /\ get_refnum(tree) - Total \in - MaxDrift .. MaxDrift
    /\ \/ \E d \in Data : InsertDatum(d) \/ PopNode(d) \/ DeleteValue(d)
       \/ \E n \in held : InsertNode(n) \/ TrashNode(n)
       \/ ResetTree \/ AtEnd(tree.top) \/ AtEnd(tree.bottom)

Spec == Init /\ [][Next]_vars

-----------------------------------------------------------------------------
\* Up to the first use of freed memory - a pop at an end that a reset left dangling, or a
\* reset of more nodes than the puffer has room for, when top or bottom has an inner child
\* that was freed already - the tree is the sorted bag that the calls made: every key is in
\* one node with its references, smaller keys to the left; top and bottom are its ends, and
\* only after a reset do they point to freed memory; refnum counts all references, unless a
\* node with duplicates took another one's place, was inserted as a node, or was there at a
\* reset.
TreeIsSortedBag ==
    LET inside == Reachable(tree)
        below(n) == IF n = NULL THEN {} ELSE Reachable([tree EXCEPT !.root = n])
    IN  /\ {KeyOf(n) : n \in inside} = InBag
        /\ Cardinality(InBag) = Cardinality(inside) /\ get_nodenum(tree) = Cardinality(inside)
        /\ \A n \in inside :
              /\ tree.ref[n] = bag[KeyOf(n)]
              /\ \A m \in below(tree.left[n]) : KeyOf(m) < KeyOf(n)
              /\ \A m \in below(tree.right[n]) : KeyOf(n) < KeyOf(m)
              /\ KeyOf(n) <= KeyOf(tree.top) /\ KeyOf(tree.bottom) <= KeyOf(n)
        /\ inside = {} => {tree.top, tree.bottom} \subseteq {NULL, Dangling}
        /\ exact => get_refnum(tree) = Total

\* A node is in the tree, in the puffer, with the caller or freed, and in one of them only.
NodesHaveOneOwner ==
    LET recycled == {tree.recycle[i] : i \in DOMAIN tree.recycle}
    IN  /\ Reachable(tree) \cup recycled \cup held \cup tree.free = Addresses
        /\ Cardinality(Reachable(tree)) + Len(tree.recycle) + Cardinality(held)
              + Cardinality(tree.free) = Cardinality(Addresses)
=============================================================================
