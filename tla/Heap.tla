-------------------------------- MODULE Heap --------------------------------
(***************************************************************************)
(* struct Heap of lib/lib_heap.c: a binary heap in an array that doubles   *)
(* when it is full and halves when a quarter of it is used.  Indices are   *)
(* those of C.  The loops that move items up and down are functions of the *)
(* index they are at.  added is a history variable, a bag of the values    *)
(* pushed and not popped.                                                  *)
(***************************************************************************)
EXTENDS Integers, FiniteSets

CONSTANTS Values, BaseSize, MaxCount   \* base_size is 4; MaxCount is a bound

VARIABLES data, count, size, added

vars == <<data, count, size, added>>

Parent(index) == (index - 1) \div 2
Left(index) == 2 * index + 1

\* Arrays of the length of this one.
Arrays(array) == [DOMAIN array -> Values \cup {0}]

\* The array when value rises from index, and when temp sinks from it among n items.
RiseOver(array, value, index) ==
    LET at[i \in DOMAIN array] == [a \in Arrays(array) |->
            IF i = 0 \/ a[Parent(i)] >= value THEN [a EXCEPT ![i] = value]
            ELSE at[Parent(i)][[a EXCEPT ![i] = a[Parent(i)]]]]
    IN  at[index][array]

\* Mutant of Larger: the left child even if the right one is larger.
LargerLeft(a, i, n) == Left(i)

Larger(a, i, n) == IF Left(i) + 1 < n /\ a[Left(i) + 1] >= a[Left(i)] THEN Left(i) + 1 ELSE Left(i)

SinkFrom(array, temp, index, n) ==
    LET at[i \in DOMAIN array] == [a \in Arrays(array) |->
            IF Left(i) >= n \/ temp >= a[Larger(a, i, n)] THEN [a EXCEPT ![i] = temp]
            ELSE at[Larger(a, i, n)][[a EXCEPT ![i] = a[Larger(a, i, n)]]]]
    IN  at[index][array]

\* realloc keeps what fits; what it adds reads as anything, which is 0 here.
Resize(array, n) == [i \in 0 .. n - 1 |-> IF i \in DOMAIN array THEN array[i] ELSE 0]

Init ==
    /\ data = Resize(<< >>, BaseSize) /\ count = 0 /\ size = BaseSize
    /\ added = [v \in Values |-> 0]

push(value) ==
    /\ count < MaxCount
    /\ size' = IF count = size THEN 2 * size ELSE size
    /\ count' = count + 1
    /\ data' = RiseOver(Resize(data, size'), value, count)
    /\ added' = [added EXCEPT ![value] = @ + 1]

pop ==
    /\ count > 0
    /\ count' = count - 1
    /\ size' = IF count' <= size \div 4 /\ size > BaseSize THEN size \div 2 ELSE size
    /\ data' = SinkFrom(Resize(data, size'), data[count'], 0, count')
    /\ added' = [added EXCEPT ![CHOOSE v \in Values : added[v] > 0 /\ \A w \in Values : added[w] > 0 => w <= v] = @ - 1]

\* _heapify: every item with children sinks, the last one first.
heapify(array) ==
    LET n == Cardinality(DOMAIN array)
        from[k \in 0 .. n] == [a \in Arrays(array) |->
            IF k = 0 THEN a ELSE from[k - 1][SinkFrom(a, a[k - 1], k - 1, n)]]
    IN  from[n \div 2][array]

\* An array of the caller's becomes the heap.
Adopt(array) ==
    /\ count = 0 /\ size = BaseSize
    /\ data' = heapify(array)
    /\ count' = Cardinality(DOMAIN array)
    /\ added' = [v \in Values |-> Cardinality({i \in DOMAIN array : array[i] = v})]
    /\ UNCHANGED size

Next ==
    \/ \E value \in Values : push(value)
    \/ pop
    \/ \E array \in [0 .. BaseSize - 1 -> Values] : Adopt(array)

Spec == Init /\ [][Next]_vars

-----------------------------------------------------------------------------
\* The heap is a priority queue: it holds what was pushed and not popped, a pop takes a
\* greatest item, no parent is smaller than its children, and all of it is in memory.
HeapIsPriorityQueue ==
    /\ count <= size /\ DOMAIN data = 0 .. size - 1
    /\ \A v \in Values : added[v] = Cardinality({i \in 0 .. count - 1 : data[i] = v})
    /\ \A i \in 1 .. count - 1 : data[Parent(i)] >= data[i]
=============================================================================
