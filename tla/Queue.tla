------------------------------- MODULE Queue --------------------------------
(***************************************************************************)
(* queue_t of lib/lib_queue.c: a doubly linked list used from both ends.   *)
(* Nodes are addresses.  A call that touches a freed node ends in broken.  *)
(* inside is a history variable: the data of the nodes that were pushed    *)
(* and not popped, from head to tail.                                      *)
(***************************************************************************)
EXTENDS Integers, Sequences, SequencesExt

CONSTANTS Data, Addresses, NULL

VARIABLES node,     \* dlist_t at each allocated address
          head, tail, counter,
          inside,
          phase     \* in use, destroyed, or how it went wrong

vars == <<node, head, tail, counter, inside, phase>>

Nodes == DOMAIN node

Init ==
    /\ node = << >> /\ head = NULL /\ tail = NULL /\ counter = 0
    /\ inside = << >> /\ phase = "in_use"

\* A pointer that is neither NULL nor a node points to freed memory.
Follow(pointer, call) ==
    IF pointer \in Nodes \cup {NULL} THEN call
    ELSE phase' = "broken" /\ UNCHANGED <<node, head, tail, counter, inside>>

With(a, fields) == [b \in Nodes \cup {a} |-> IF b = a THEN fields ELSE node[b]]
Without(a) == [b \in Nodes \ {a} |-> node[b]]

push_head(d) ==
    /\ inside' = <<d>> \o inside /\ counter' = counter + 1 /\ UNCHANGED phase
    /\ \E a \in Addresses \ Nodes :
          /\ head' = a
          /\ IF head = NULL
             THEN tail' = a /\ node' = With(a, [data |-> d, prev |-> NULL, next |-> NULL])
             ELSE /\ UNCHANGED tail
                  /\ node' = [With(a, [data |-> d, prev |-> NULL, next |-> head]) EXCEPT ![head].prev = a]

push_tail(d) ==
    /\ inside' = Append(inside, d) /\ counter' = counter + 1 /\ UNCHANGED phase
    /\ \E a \in Addresses \ Nodes :
          /\ tail' = a
          /\ IF tail = NULL
             THEN head' = a /\ node' = With(a, [data |-> d, prev |-> NULL, next |-> NULL])
             ELSE /\ UNCHANGED head
                  /\ node' = [With(a, [data |-> d, prev |-> tail, next |-> NULL]) EXCEPT ![tail].next = a]

\* Mutant of pop_head: the new head keeps pointing to the freed node.
pop_head_linked ==
    /\ head # NULL
    /\ counter' = counter - 1 /\ inside' = Tail(inside) /\ UNCHANGED phase
    /\ head' = node[head].next
    /\ node' = Without(head)
    /\ tail' = IF head' = NULL THEN NULL ELSE tail

pop_head ==
    /\ head # NULL
    /\ counter' = counter - 1 /\ inside' = Tail(inside) /\ UNCHANGED phase
    /\ head' = node[head].next
    /\ IF head' = NULL THEN tail' = NULL /\ node' = Without(head)
       ELSE UNCHANGED tail /\ node' = [Without(head) EXCEPT ![head'].prev = NULL]

\* The last node leaves tail NULL and head as it was.
pop_tail ==
    /\ tail # NULL
    /\ counter' = counter - 1 /\ inside' = Front(inside) /\ UNCHANGED <<phase, head>>
    /\ tail' = node[tail].prev
    /\ node' = IF tail' = NULL THEN Without(tail) ELSE [Without(tail) EXCEPT ![tail'].next = NULL]

\* queue_dtor pops while queue_is_empty says no, which it does while the counter is 0:
\* with items it frees only the queue, without any it pops NULL for ever.
dtor ==
    /\ phase' = IF 0 < counter THEN "leaked" ELSE "endless"
    /\ UNCHANGED <<node, head, tail, counter, inside>>

Next ==
    /\ phase = "in_use"
    /\ \/ \E d \in Data : Follow(head, push_head(d)) \/ push_tail(d)
       \/ Follow(head, pop_head) \/ pop_tail
       \/ IF counter = 0 THEN Follow(head, dtor) ELSE dtor

Spec == Init /\ [][Next]_vars

-----------------------------------------------------------------------------
\* The nodes from head on along next; head means nothing while the counter is 0.
along[n \in Nodes] == IF node[n].next = NULL THEN <<n>> ELSE <<n>> \o along[node[n].next]
nodes == IF counter = 0 THEN << >> ELSE along[head]

\* The list holds what was pushed and not popped, in order and linked both ways; freed
\* memory is touched only after the last item was popped at the tail, which leaves head
\* behind, and the destructor comes back only by leaking what is still inside.
QueueIsDeque ==
    /\ counter = Len(inside)
    /\ inside = [i \in DOMAIN nodes |-> node[nodes[i]].data]
    /\ \A i \in DOMAIN nodes : node[nodes[i]].prev = IF i = 1 THEN NULL ELSE nodes[i - 1]
    /\ tail = IF nodes = << >> THEN NULL ELSE nodes[Len(nodes)]
    /\ phase = "broken" => inside = << >> /\ head # NULL
    /\ phase = "leaked" => inside # << >>
=============================================================================
