------------------------------- MODULE Vector -------------------------------
(***************************************************************************)
(* vector_t of lib/lib_vector.c: an array that grows.  memory is what is   *)
(* allocated, items_alloc_num what the vector believes; bytes behind an    *)
(* item that was never written, or outside of the memory, read as Garbage. *)
(* inside is a history variable, the list the calls should have made.      *)
(***************************************************************************)
EXTENDS Integers, Sequences, SequencesExt

CONSTANTS Items, Garbage, ItemSize, InitSize, MaxItems   \* MaxItems is a bound

VARIABLES memory, items_num, items_alloc_num,
          inside,
          astray,   \* a call that does something else than its name says was made
          overrun   \* memory behind the items was read or written

vars == <<memory, items_num, items_alloc_num, inside, astray, overrun>>

Init ==
    /\ memory = [i \in 1 .. InitSize |-> Garbage] /\ items_num = 0 /\ items_alloc_num = InitSize
    /\ inside = << >> /\ astray = FALSE /\ overrun = FALSE

At(m, i) == IF i \in DOMAIN m THEN m[i] ELSE Garbage
Realloc(n) == [i \in 1 .. n |-> At(memory, i)]
hasspace == items_num + 1 <= items_alloc_num

\* vector_grow(v, size) for a vector without space.
Grown(size) == IF hasspace THEN items_alloc_num
               ELSE IF size > items_alloc_num THEN size ELSE 2 * items_alloc_num
Room(size) == IF hasspace THEN memory ELSE Realloc(Grown(size))

\* The memory m when the items from position i on move by n places; index is one more than in C.
Moved(m, from, to, n) == [i \in DOMAIN m |-> IF i \in to .. to + n - 1 THEN At(m, i - to + from) ELSE m[i]]
Put(m, i, item) == [j \in DOMAIN m |-> IF j = i THEN item ELSE m[j]]
Outside(m, i) == i \notin DOMAIN m

push(item) ==
    /\ memory' = Put(Room(0), items_num + 1, item)
    /\ overrun' = (overrun \/ Outside(memory', items_num + 1))
    /\ items_alloc_num' = Grown(0) /\ items_num' = items_num + 1
    /\ inside' = Append(inside, item)
    /\ UNCHANGED astray

\* vector_insert with an index replaces, and does nothing for an index out of bounds.
insert(item, i) ==
    /\ i <= items_num
    /\ memory' = Put(memory, i, item) /\ inside' = ReplaceAt(inside, i, item)
    /\ UNCHANGED <<items_num, items_alloc_num, astray, overrun>>

\* Behind the end nothing is written, but the number of items grows.
insert_at(item, i) ==
    /\ items_alloc_num' = Grown(0) /\ items_num' = items_num + 1
    /\ LET opened == Moved(Room(0), i, i + 1, items_num - i + 1)
       IN  memory' = IF i <= items_num + 1 THEN Put(opened, i, item) ELSE Room(0)
    /\ inside' = IF i <= items_num + 1 THEN InsertAt(inside, i, item) ELSE inside
    /\ astray' = (astray \/ i > items_num + 1)
    /\ overrun' = (overrun \/ Outside(memory', items_num + 1))

pop ==
    /\ items_num > 0
    /\ items_num' = items_num - 1 /\ inside' = Front(inside)
    /\ UNCHANGED <<memory, items_alloc_num, astray, overrun>>

\* One item too many is moved.
shift ==
    /\ items_num > 0
    /\ memory' = Moved(memory, 2, 1, items_num)
    /\ overrun' = (overrun \/ Outside(memory, items_num + 1))
    /\ items_num' = items_num - 1 /\ inside' = Tail(inside)
    /\ UNCHANGED <<items_alloc_num, astray>>

unshift(item) ==
    /\ memory' = Put(Moved(Room(items_num + 1), 1, 2, items_num), 1, item)
    /\ overrun' = (overrun \/ Outside(memory', items_num + 1))
    /\ items_alloc_num' = Grown(items_num + 1) /\ items_num' = items_num + 1
    /\ inside' = <<item>> \o inside
    /\ UNCHANGED astray

transpose(i, j) ==
    /\ memory' = [memory EXCEPT ![i] = memory[j], ![j] = memory[i]]
    /\ inside' = [inside EXCEPT ![i] = inside[j], ![j] = inside[i]]
    /\ UNCHANGED <<items_num, items_alloc_num, astray, overrun>>

\* The next item is copied over the removed one, those behind it stay where they are.
remove(i) ==
    /\ memory' = Moved(memory, i + 1, i, 1)
    /\ overrun' = (overrun \/ Outside(memory, i + 1))
    /\ items_num' = items_num - 1
    /\ astray' = (astray \/ i < items_num - 1)
    /\ inside' = RemoveAt(inside, i)
    /\ UNCHANGED items_alloc_num

\* realloc gets the number of items for a number of bytes.
remove_all ==
    /\ items_num' = 0 /\ memory' = Realloc(items_alloc_num \div ItemSize)
    /\ inside' = << >> /\ astray' = (astray \/ ItemSize > 1)
    /\ UNCHANGED <<items_alloc_num, overrun>>

Next ==
    /\ ~ astray /\ ~ overrun
    /\ items_num <= MaxItems
    /\ \/ \E item \in Items : push(item) \/ unshift(item)
       \/ \E item \in Items, i \in 1 .. items_num + 2 : insert(item, i) \/ insert_at(item, i)
       \/ \E i \in 2 .. items_num : remove(i)
       \/ \E i, j \in 1 .. items_num : transpose(i, j)
       \/ pop \/ shift \/ remove_all

Spec == Init /\ [][Next]_vars

-----------------------------------------------------------------------------
\* Until a call goes astray the vector is the list its calls make.  Memory behind the
\* items is touched before that only by reading one item too many of a full vector.
VectorIsList ==
    ~ astray => /\ items_num = Len(inside)
                /\ \A i \in 1 .. items_num : At(memory, i) = inside[i]
                /\ items_num <= items_alloc_num /\ Len(memory) = items_alloc_num
                /\ overrun => items_num = items_alloc_num - 1
=============================================================================
