-------------------------------- MODULE Fifo --------------------------------
(***************************************************************************)
(* What every puffer of NTRT promises to the component that owns it: a     *)
(* first-in first-out queue that never holds more than Capacity items.     *)
(* DataPuffer (lib_puffers.c) implements it with a ring of slots; the      *)
(* other modules of this project use the sequence directly.                *)
(***************************************************************************)
EXTENDS Naturals, Sequences

CONSTANTS Items,      \* the pointers a puffer can hold
          Capacity,   \* abs_length
          NULL        \* what nobody has read yet

VARIABLES queue,      \* the items inside, the oldest first
          taken       \* the item the last read returned

vars == <<queue, taken>>

Init == queue = << >> /\ taken = NULL

Enqueue(item) ==
    /\ Len(queue) < Capacity
    /\ queue' = Append(queue, item)
    /\ UNCHANGED taken

Dequeue ==
    /\ queue # << >>
    /\ taken' = Head(queue)
    /\ queue' = Tail(queue)

\* Everything is taken out at once, in order: the newest item is the last one.
Drain ==
    /\ queue # << >>
    /\ taken' = queue[Len(queue)]
    /\ queue' = << >>

Next == (\E item \in Items : Enqueue(item)) \/ Dequeue \/ Drain

Spec == Init /\ [][Next]_vars
=============================================================================
