----------------------------- MODULE DataPuffer -----------------------------
(***************************************************************************)
(* datapuffer_t of lib/lib_puffers.c: the ring of pointers under the       *)
(* accumulator's windows, both recycle pools, the blocking record puffer,  *)
(* the bintree's node pool and the sliding window.                         *)
(*                                                                         *)
(* The ring itself checks nothing: datapuffer_write on a full puffer       *)
(* overwrites and datapuffer_read on an empty one returns a stale slot.    *)
(* Every caller asks datapuffer_isfull or datapuffer_isempty first         *)
(* (cmp_accumulator.c, cmp_predefs.h, lib_bintree.c), so those tests are   *)
(* the guards of the actions.  datapuffer_dtor frees every slot that is    *)
(* not NULL, so a slot outside the window that kept its pointer would be   *)
(* freed under its new owner: see VacatedSlotsAreNull.                     *)
(***************************************************************************)
EXTENDS Naturals, Sequences

CONSTANTS Items,   \* the pointers written into the puffer
          Size,    \* abs_length
          NULL

ASSUME SizeAssumption == Size \in Nat \ {0}
ASSUME NullAssumption == NULL \notin Items

VARIABLES items,   \* items[0 .. abs_length - 1]
          start,   \* the slot of the oldest item
          end,     \* the slot the next write goes to
          count,   \* the number of items inside
          read     \* the field read: what the last datapuffer_read returned

vars == <<items, start, end, count, read>>

Slots == 0 .. Size - 1

isfull == count = Size
isempty == count = 0

\* An index that ran off the end of the array starts over.
Wrap(index) == IF Size <= index THEN 0 ELSE index

\* The slot of the i-th item of a window that starts at slot first.
SlotOf(first, i) == IF first + i - 1 < Size THEN first + i - 1 ELSE first + i - 1 - Size

Occupied == {SlotOf(start, i) : i \in 1 .. count}

\* The puffer seen as a queue.
Contents == [i \in 1 .. count |-> items[SlotOf(start, i)]]

-----------------------------------------------------------------------------
Init ==
    /\ items = [i \in Slots |-> NULL]
    /\ start = 0
    /\ end = 0
    /\ count = 0
    /\ read = NULL

Write(item) ==
    /\ ~ isfull
    /\ items' = [items EXCEPT ![end] = item]
    /\ end' = Wrap(end + 1)
    /\ count' = count + 1
    /\ UNCHANGED <<start, read>>

\* Mutant of Read: the newest item is returned instead of the oldest.
ReadNewest ==
    /\ ~ isempty
    /\ read' = items[SlotOf(start, count)]
    /\ items' = [items EXCEPT ![SlotOf(start, count)] = NULL]
    /\ end' = SlotOf(start, count)
    /\ count' = count - 1
    /\ UNCHANGED start

Read ==
    /\ ~ isempty
    /\ read' = items[start]
    /\ items' = [items EXCEPT ![start] = NULL]
    /\ start' = Wrap(start + 1)
    /\ count' = count - 1
    /\ UNCHANGED end

\* datapuffer_clear: count reads in a row.
Clear ==
    /\ ~ isempty
    /\ read' = items[SlotOf(start, count)]
    /\ items' = [i \in Slots |-> IF i \in Occupied THEN NULL ELSE items[i]]
    /\ start' = Wrap(SlotOf(start, count) + 1)
    /\ count' = 0
    /\ UNCHANGED end

Next == (\E item \in Items : Write(item)) \/ Read \/ Clear

Spec == Init /\ [][Next]_vars

-----------------------------------------------------------------------------
\* The fields keep their types: both indices stay inside the array.
TypeOK ==
    /\ items \in [Slots -> Items \cup {NULL}]
    /\ start \in Slots
    /\ end \in Slots
    /\ count \in 0 .. Size
    /\ read \in Items \cup {NULL}

\* Only live items have a pointer in the array: datapuffer_dtor, which frees
\* every slot that is not NULL, frees what the puffer owns and nothing that a
\* reader took out of it before.
VacatedSlotsAreNull == \A i \in Slots : items[i] # NULL <=> i \in Occupied

\* The ring implements the queue of module Fifo.
Queue == INSTANCE Fifo WITH Capacity <- Size, queue <- Contents, taken <- read
FifoSpec == Queue!Spec
=============================================================================
