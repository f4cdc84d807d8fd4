------------------------------- MODULE Trees --------------------------------
(***************************************************************************)
(* A tree of lib_bintree.c in the hands of one caller: Bintree, with its   *)
(* memory and its state named apart from those of the other modules.       *)
(***************************************************************************)
EXTENDS Integers, FiniteSets

CONSTANTS TreeNodes, TreeKey, TreeRecycle, NIL, MaxRefs, MaxHeld, MaxDrift   \* of Bintree

VARIABLES tree, held, bag, exact, broken

Tree == INSTANCE Bintree WITH Key <- TreeKey, Addresses <- TreeNodes, RecycleSize <- TreeRecycle, NULL <- NIL

\* Memory is finite, and no node lies at NULL or where a freed one lay.  There are finitely many
\* values, none of them NULL; the comparator puts them in an order, as positive numbers are.
ASSUME TreeAssumption ==
    /\ IsFiniteSet(TreeNodes) /\ NIL \notin TreeNodes /\ Tree!Dangling \notin TreeNodes /\ NIL # Tree!Dangling
    /\ IsFiniteSet(Tree!Data) /\ Tree!Data # {} /\ NIL \notin Tree!Data
    /\ TreeKey \in [Tree!Data -> Nat \ {0}]
    /\ TreeRecycle \in Nat

\* A tree is the sorted bag that its calls made, and each node is at one place, up to the first
\* use of freed memory: a pop at an end that a reset left, or a reset of a tree with more nodes
\* than the puffer has room for, whose top or bottom has an inner child (see ResetReadsFreed).
TreeIsSortedBag == Tree!TreeIsSortedBag /\ Tree!NodesHaveOneOwner
=============================================================================
