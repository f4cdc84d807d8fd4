---------------------------- MODULE MultiPuffer -----------------------------
(***************************************************************************)
(* mdatapuffer_t of lib/lib_puffers.c: a ring that is read from behind its *)
(* _plus oldest items, so that NULL holes open inside its window.  Writers *)
(* ask mdatapuffer_writecapacity and write as many items as they are told, *)
(* readers set the read index and ask mdatapuffer_readcapacity.  promised  *)
(* (what a writer was told and has not written yet), inside (the items     *)
(* that were written and not read), due (what the last read should have    *)
(* returned) and passed are history variables.                             *)
(***************************************************************************)
EXTENDS Integers, Sequences, SequencesExt

CONSTANTS Items, Length, NULL

VARIABLES items, start, end, read_index, count, plus,
          read,     \* _read
          promised,
          aimed,    \* the read index was set, and what can be read since has not run out
          inside, due,
          passed    \* a write went into the slot start while there were items

vars == <<items, start, end, read_index, count, plus, read, promised, aimed, inside, due, passed>>

Slots == 0 .. Length - 1
Onward(i, n) == IF i + n < Length THEN i + n ELSE i + n - Length
After(i) == Onward(i, 1)

\* The slots with an item, and the first slot of a set, from slot i on.
Taken == {i \in Slots : items[i] # NULL}
FirstOf(set, i) ==
    LET n == CHOOSE n \in Slots : Onward(i, n) \in set /\ \A m \in 0 .. n - 1 : Onward(i, m) \notin set
    IN  Onward(i, n)

\* The do loops of setreadindex and read: from slot i to an item, or as far as the slot end.
Seek(i) == FirstOf(Taken \cup {end}, i)

\* The items of s, in their order, are what is in the slots from start on.
Holds(s) ==
    \E at \in [DOMAIN s -> Slots] :
        /\ \A n, m \in DOMAIN s : n < m => at[n] < at[m]
        /\ Taken = {Onward(start, at[n]) : n \in DOMAIN s}
        /\ \A n \in DOMAIN s : items[Onward(start, at[n])] = s[n]

readcapacity == count - plus

\* The first branch counts one or two slots too many.
writecapacity ==
    IF count = 0 THEN Length
    ELSE IF start = end THEN 0
    ELSE IF start < end THEN Length - end + start + 1
    ELSE start - end

Init ==
    /\ items = [i \in Slots |-> NULL]
    /\ start = 0 /\ end = 0 /\ read_index = 0 /\ count = 0 /\ plus = 0 /\ promised = 0
    /\ read = NULL /\ aimed = FALSE /\ inside = << >> /\ due = NULL /\ passed = FALSE

Ask ==
    /\ promised' = writecapacity
    /\ UNCHANGED <<items, start, end, read_index, count, plus, read, aimed, inside, due, passed>>

write(item) ==
    /\ promised > 0
    /\ promised' = promised - 1
    /\ items' = [items EXCEPT ![end] = item]
    /\ end' = After(end) /\ count' = count + 1
    /\ inside' = Append(inside, item)
    /\ passed' = (end = start /\ count > 0)
    /\ UNCHANGED <<start, read_index, plus, read, aimed, due>>

\* From the item in slot i, n items further, or to end.
Skip(i, n) ==
    LET from[k \in Slots] == [j \in Slots |->
            IF k = 0 THEN j
            ELSE IF Seek(After(j)) = end THEN end
            ELSE from[k - 1][Seek(After(j))]]
    IN  from[n][i]

\* Mutant of setreadindex: holes are skipped like items.
setreadindex_slots(n) ==
    /\ plus' = n
    /\ start' = IF count = 0 THEN start ELSE FirstOf(Taken, start)
    /\ aimed' = (count > n)
    /\ read_index' = IF count > n THEN Onward(start', n) ELSE read_index
    /\ UNCHANGED <<items, end, count, read, promised, inside, due, passed>>

setreadindex(n) ==
    /\ plus' = n
    /\ start' = IF count = 0 THEN start ELSE FirstOf(Taken, start)
    /\ aimed' = (count > n)
    /\ read_index' = IF count > n THEN Skip(start', n) ELSE read_index
    /\ UNCHANGED <<items, end, count, read, promised, inside, due, passed>>

\* The loop looks at its first slot before it looks for the end.
Reached == LET i == IF read_index = Length THEN 0 ELSE read_index
           IN  IF items[i] # NULL THEN i ELSE Seek(After(i))

read_one ==
    /\ aimed /\ readcapacity > 0
    /\ read' = items[Reached]
    /\ items' = [items EXCEPT ![Reached] = NULL]
    /\ read_index' = IF items[Reached] = NULL THEN Reached ELSE Reached + 1
    /\ count' = count - 1
    /\ due' = inside[plus + 1]
    /\ inside' = RemoveAt(inside, plus + 1)
    /\ aimed' = (count' > plus)
    /\ UNCHANGED <<start, end, plus, promised, passed>>

\* mdatapuffer_clear reads everything there is, up to the last item that start finds;
\* mdatapuffer_reset starts over after it.
Newest ==
    LET n == CHOOSE n \in Slots : Onward(start, n) \in Taken /\ \A m \in n + 1 .. Length - 1 : Onward(start, m) \notin Taken
    IN  Onward(start, n)

ReadAll ==
    /\ items' = [i \in Slots |-> NULL]
    /\ read' = IF count = 0 THEN read ELSE items[Newest]
    /\ due' = IF inside = << >> THEN due ELSE Last(inside)
    /\ count' = 0 /\ plus' = 0 /\ inside' = << >> /\ aimed' = FALSE
    /\ UNCHANGED <<promised, passed>>

clear ==
    /\ ReadAll
    /\ start' = IF count = 0 THEN start ELSE FirstOf(Taken, start)
    /\ read_index' = start'
    /\ UNCHANGED end

reset == ReadAll /\ start' = 0 /\ end' = 0 /\ read_index' = 0

\* What a ring does that lost count of its items is not followed.
Next ==
    /\ ~ passed
    /\ \/ Ask
       \/ \E item \in Items : write(item)
       \/ \E n \in Slots : setreadindex(n)
       \/ read_one \/ clear \/ reset

Spec == Init /\ [][Next]_vars

-----------------------------------------------------------------------------
\* Until a write passes start, reads return the items in order from behind the plus
\* oldest ones and nothing is lost.  A writer that asks before every write never passes it;
\* one that writes as many as it was promised may, because the capacity counts a slot that
\* is taken, or because start was left behind when the ring ran empty.
ReadsInOrder == ~ passed => read = due /\ count = Len(inside) /\ Holds(inside)
=============================================================================
