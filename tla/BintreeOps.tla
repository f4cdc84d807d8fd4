----------------------------- MODULE BintreeOps -----------------------------
(***************************************************************************)
(* The functions of lib_bintree.c on one tree, which is a record of its    *)
(* fields and of the fields of its nodes.  A node is an address; data is   *)
(* what a node points to and key[data] what the comparator sees there.     *)
(* Nodes that were trashed wait in the puffer recycle, links and all.      *)
(***************************************************************************)
EXTENDS Integers, Sequences, FiniteSets

CONSTANTS Addresses,    \* where malloc puts nodes
          RecycleSize,  \* bintree_t.recycle holds so many nodes (32)
          NULL

Dangling == -1   \* a pointer into memory that was freed

EmptyTree == [root |-> NULL, top |-> NULL, bottom |-> NULL, nodes |-> 0, duplicates |-> 0,
              recycle |-> << >>, free |-> Addresses,
              data |-> [a \in Addresses |-> NULL], ref |-> [a \in Addresses |-> 0],
              left |-> [a \in Addresses |-> NULL], right |-> [a \in Addresses |-> NULL]]

\* The nodes a search for data looks at, from the root on.
Path(t, key, data) ==
    LET child(n) == IF key[data] < key[t.data[n]] THEN t.left[n] ELSE t.right[n]
        from[n \in Addresses] ==
            IF key[t.data[n]] = key[data] \/ child(n) = NULL THEN <<n>>
            ELSE <<n>> \o from[child(n)]
    IN  IF t.root = NULL THEN << >> ELSE from[t.root]

Found(t, key, data) ==
    LET path == Path(t, key, data)
    IN  path # << >> /\ key[t.data[path[Len(path)]]] = key[data]

Rightest(t, n) ==
    LET from[m \in Addresses] == IF t.right[m] = NULL THEN m ELSE from[t.right[m]]
    IN  IF n = NULL THEN NULL ELSE from[n]

Leftest(t, n) ==
    LET from[m \in Addresses] == IF t.left[m] = NULL THEN m ELSE from[t.left[m]]
    IN  IF n = NULL THEN NULL ELSE from[n]

\* Mutant of RefreshTop: the child of the old top, which need not be the greatest.
RefreshTopShallow(t, n) ==
    IF n # t.top THEN t ELSE [t EXCEPT !.top = IF t.left[n] # NULL THEN t.left[n] ELSE t.root]

\* _refresh_top and _refresh_bottom, for a node that leaves.
RefreshTop(t, n) ==
    IF n # t.top THEN t
    ELSE [t EXCEPT !.top = Rightest(t, IF t.left[n] # NULL THEN t.left[n] ELSE t.root)]

RefreshBottom(t, n) ==
    IF n # t.bottom THEN t
    ELSE [t EXCEPT !.bottom = Leftest(t, IF t.right[n] # NULL THEN t.right[n] ELSE t.root)]

\* What a trashed node holds is not looked at any more, so it is cleared here.
Trash(t, n) ==
    LET s == [RefreshBottom(RefreshTop(t, n), n) EXCEPT
                 !.data[n] = NULL, !.ref[n] = 0, !.left[n] = NULL, !.right[n] = NULL]
    IN  IF Len(s.recycle) = RecycleSize THEN [s EXCEPT !.free = @ \cup {n}]
        ELSE [s EXCEPT !.recycle = Append(@, n)]

\* The nodes Make may return, and the tree after it.
Fresh(t) == IF t.recycle # << >> THEN {Head(t.recycle)} ELSE t.free

Make(t, n, data) ==
    LET s == IF t.recycle # << >> THEN [t EXCEPT !.recycle = Tail(@)] ELSE [t EXCEPT !.free = @ \ {n}]
    IN  [s EXCEPT !.data[n] = data, !.ref[n] = 1]

-----------------------------------------------------------------------------
\* The parent of the last node of a path gets another child in its place.
Relink(t, path, child) ==
    LET n == path[Len(path)]
        parent == path[Len(path) - 1]
    IN  IF Len(path) = 1 THEN [t EXCEPT !.root = child]
        ELSE IF t.left[parent] = n THEN [t EXCEPT !.left[parent] = child]
        ELSE [t EXCEPT !.right[parent] = child]

HasBoth(t, n) == t.left[n] # NULL /\ t.right[n] # NULL
OnlyChild(t, n) == IF t.left[n] = NULL THEN t.right[n] ELSE t.left[n]

\* What came to a place may be the new greatest or the new smallest.
Ends(t, key, inserted) ==
    IF t.nodes = 1 THEN [t EXCEPT !.top = inserted, !.bottom = inserted]
    ELSE IF key[t.data[t.top]] < key[t.data[inserted]] THEN [t EXCEPT !.top = inserted]
    ELSE IF key[t.data[inserted]] < key[t.data[t.bottom]] THEN [t EXCEPT !.bottom = inserted]
    ELSE t

\* _insert of a node whose fields are set: into a leaf, or into the node that has its key.
Insert(t, key, n) ==
    LET path == Path(t, key, t.data[n])
        last == path[Len(path)]
        merged == Trash([t EXCEPT !.ref[last] = @ + t.ref[n], !.data[last] = t.data[n],
                                  !.duplicates = @ + 1], n)
        leaf == IF path = << >> THEN [t EXCEPT !.root = n, !.nodes = @ + 1]
                ELSE IF key[t.data[last]] < key[t.data[n]] THEN [t EXCEPT !.right[last] = n, !.nodes = @ + 1]
                ELSE [t EXCEPT !.left[last] = n, !.nodes = @ + 1]
    IN  IF Found(t, key, t.data[n]) THEN Ends(merged, key, last) ELSE Ends(leaf, key, n)

InsertData(t, key, n, data) == Insert(Make(t, n, data), key, n)

\* The label remove of _pop_from_tree: a node that lacks a child leaves the tree.
Detach(t, path) ==
    LET n == path[Len(path)]
        s == [Relink(t, path, OnlyChild(t, n)) EXCEPT !.nodes = @ - 1,
                 !.duplicates = @ - (t.ref[n] - 1), !.left[n] = NULL, !.right[n] = NULL]
    IN  RefreshBottom(RefreshTop(s, n), n)

\* _pop_from_tree of a value that is there: the node to take out, and the tree after it.
\* Between two children the greatest node of the left ones takes the place.
Pop(t, key, data) ==
    LET path == Path(t, key, data)
        n == path[Len(path)]
        candidate == Rightest(t, t.left[n])
        s == Detach(t, Path(t, key, t.data[candidate]))
    IN  IF ~ HasBoth(t, n) THEN [node |-> n, tree |-> Detach(t, path)]
        ELSE [node |-> candidate,
              tree |-> [s EXCEPT !.data[n] = t.data[candidate], !.data[candidate] = t.data[n],
                                 !.ref[n] = t.ref[candidate], !.ref[candidate] = t.ref[n]]]

TrashPopped(popped) == Trash(popped.tree, popped.node)

\* _deref_from_tree.
Delete(t, key, data) ==
    LET path == Path(t, key, data)
        n == path[Len(path)]
    IN  IF ~ Found(t, key, data) THEN t
        ELSE IF t.ref[n] > 1 THEN [t EXCEPT !.ref[n] = @ - 1, !.duplicates = @ - 1]
        ELSE IF HasBoth(t, n) THEN TrashPopped(Pop(t, key, data))
        ELSE [Trash(Relink(t, path, OnlyChild(t, n)), n) EXCEPT !.nodes = @ - 1]

Reachable(t) ==
    LET below[n \in Addresses] ==
            {n} \cup (IF t.left[n] = NULL THEN {} ELSE below[t.left[n]])
                \cup (IF t.right[n] = NULL THEN {} ELSE below[t.right[n]])
    IN  IF t.root = NULL THEN {} ELSE below[t.root]

\* The order in which bintree_reset trashes the nodes: first what is below, then the node.
PostOrder(t) ==
    LET from[n \in Addresses \cup {NULL}] ==
            IF n = NULL THEN << >> ELSE from[t.left[n]] \o from[t.right[n]] \o <<n>>
    IN  from[t.root]

\* A node that the puffer has no room for is freed at once.  When top or bottom itself is
\* trashed, _refresh_top and _refresh_bottom start from its inner child, which went before;
\* without one they start from the root and meet only nodes that are still to come.
ResetReadsFreed(t) ==
    LET room == RecycleSize - Len(t.recycle)
        freed == {PostOrder(t)[i] : i \in room + 1 .. Len(PostOrder(t))}
    IN  t.root # NULL /\ (t.left[t.top] \in freed \/ t.right[t.bottom] \in freed)

\* bintree_reset where it reads nothing freed: every node goes through the puffer and is
\* freed, top and bottom keep pointing to one; duplicate_counter stays.
Reset(t) ==
    LET gone(pointer) == IF pointer = NULL THEN NULL ELSE Dangling
        cleared(field, nothing) == [a \in Addresses |-> IF a \in Reachable(t) THEN nothing ELSE field[a]]
    IN  [t EXCEPT !.root = NULL, !.nodes = 0, !.top = gone(@), !.bottom = gone(@),
                  !.recycle = << >>, !.free = @ \cup Reachable(t) \cup {t.recycle[i] : i \in DOMAIN t.recycle},
                  !.data = cleared(@, NULL), !.ref = cleared(@, 0),
                  !.left = cleared(@, NULL), !.right = cleared(@, NULL)]

get_nodenum(t) == t.nodes
get_refnum(t) == t.nodes + t.duplicates
=============================================================================
