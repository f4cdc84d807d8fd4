--------------------------- MODULE SlidingWindow ----------------------------
(***************************************************************************)
(* slidingwindow_t of lib/lib_puffers.c with the plugins of                *)
(* lib/lib_swplugins.c: the smallest and the greatest item, a percentile   *)
(* and the sum, kept up to date by trees and by adding and subtracting,    *)
(* never by looking at the window.  Items are copied into a ring of slots; *)
(* a slot is what the trees point to, and the storage says what they see.  *)
(*                                                                         *)
(* A call removes items one step at a time, then adds its own.             *)
(***************************************************************************)
EXTENDS Integers, Sequences, SequencesExt

CONSTANTS Values, NumLimit, TimeLimit,   \* TimeLimit 0: no limit
          Percentile,                    \* 10 .. 90
          Addresses,                     \* for the nodes of each tree
          NULL

\* Which of its trashed nodes a tree uses next makes no difference here.
B == INSTANCE BintreeOps WITH RecycleSize <- 0

VARIABLES pending,    \* the call at work, "none", "add", "refresh" or "clear", and its value
          tracked,    \* trackeditems, the oldest first, by slot and age
          spare,      \* items in recycle
          storage, index,
          tree, stat,                                \* swminmax_t
          maxtree, mintree, Mxc, Mnc, candidates,    \* swpercentile_t
          sum,                                       \* swint32summer
          distinct    \* history: no value was ever in the window twice

window == <<tracked, spare, storage, index>>
minmax == <<tree, stat>>
percentile == <<maxtree, mintree, Mxc, Mnc, candidates>>
vars == <<pending, window, minmax, percentile, sum, distinct>>

\* Mutant of StorageLength: one slot for each item that is not the newest or the oldest.
StorageTooShort == NumLimit - 1

StorageLength == NumLimit + 1
Idle == [call |-> "none", value |-> 0]
Slots == 1 .. StorageLength

\* The constructors of the plugins.
MinMax == tree = B!EmptyTree /\ stat = [min |-> NULL, max |-> NULL]
Percentiles ==
    /\ maxtree = B!EmptyTree /\ mintree = B!EmptyTree /\ Mxc = 0 /\ Mnc = 0
    /\ candidates = [processed |-> FALSE, left |-> NULL, right |-> NULL]
Summer == sum = 0

Init ==
    /\ pending = Idle
    /\ tracked = << >> /\ spare = 0
    /\ storage = [s \in Slots |-> 0] /\ index = 1
    /\ MinMax /\ Percentiles /\ Summer /\ distinct = TRUE

InsertInto(t, key, data) == B!InsertData(t, key, CHOOSE n \in B!Fresh(t) : TRUE, data)
DataAt(t, end) == IF end = NULL THEN NULL ELSE t.data[end]

-----------------------------------------------------------------------------
\* swminmax_t: the ends of the tree after an item came or went.
Extremes(t) ==
    /\ tree' = t
    /\ stat' = [min |-> DataAt(t, t.bottom), max |-> DataAt(t, t.top)]

\* swpercentile_t: maxtree and mintree hold the smaller and the greater items, in numbers
\* whose ratio is to be that of the percentile.  A double divides by zero.
required == IF Percentile < 50 THEN (100 - Percentile) \div Percentile + 1
            ELSE IF Percentile > 50 THEN Percentile \div (100 - Percentile) + 1 ELSE 2
RatioBelow(x, y) ==
    IF y = 0 THEN x > 0
    ELSE IF y > 0 THEN Percentile * y < (100 - Percentile) * x ELSE Percentile * y > (100 - Percentile) * x
RatioAbove(x, y) ==
    IF y = 0 THEN x < 0
    ELSE IF y > 0 THEN (100 - Percentile) * x < Percentile * y ELSE (100 - Percentile) * x > Percentile * y

Halves(max, min, x, n) == [max |-> max, min |-> min, Mxc |-> x, Mnc |-> n]

\* One item changes sides.
ToMax(h, key) ==
    LET data == DataAt(h.min, h.min.bottom)
    IN  Halves(InsertInto(h.max, key, data), B!Delete(h.min, key, data), h.Mxc + 1, h.Mnc - 1)
ToMin(h, key) ==
    LET data == DataAt(h.max, h.max.top)
    IN  Halves(B!Delete(h.max, key, data), InsertInto(h.min, key, data), h.Mxc - 1, h.Mnc + 1)

RECURSIVE ReduceMin(_, _), ReduceMax(_, _)
ReduceMin(h, key) ==
    IF RatioBelow(h.Mxc + 1, h.Mnc - 1) \/ h.Mnc < 1 THEN h ELSE ReduceMin(ToMax(h, key), key)
ReduceMax(h, key) ==
    IF RatioAbove(h.Mxc - 1, h.Mnc + 1) \/ h.Mxc < 1 THEN h ELSE ReduceMax(ToMin(h, key), key)

\* Mutant of Balance: only the trees with too small a ratio are balanced.
BalanceOneWay(h, key) == IF h.Mxc + h.Mnc < required THEN h ELSE ReduceMin(h, key)

Balance(h, key) ==
    IF h.Mxc + h.Mnc < required THEN h
    ELSE IF h.Mnc = 0 THEN ReduceMax(h, key)
    ELSE IF h.Mxc = 0 THEN ReduceMin(h, key)
    ELSE IF RatioBelow(h.Mxc, h.Mnc) THEN ReduceMax(h, key) ELSE ReduceMin(h, key)

\* What goes to the pipe, and the fields after it.
Candidates(h) ==
    LET left == DataAt(h.max, h.max.top)
        right == DataAt(h.min, h.min.bottom)
        processed == h.Mnc + h.Mxc >= required
    IN  [processed |-> processed,
         left |-> IF processed /\ ~ RatioAbove(h.Mxc, h.Mnc) THEN left ELSE NULL,
         right |-> IF processed /\ ~ RatioBelow(h.Mxc, h.Mnc) THEN right ELSE NULL]
Become(h) ==
    /\ maxtree' = h.max /\ mintree' = h.min /\ Mxc' = h.Mxc /\ Mnc' = h.Mnc
    /\ candidates' = Candidates(h)
Split(h, key) == Become(Balance(h, key))

AddPercentile(key, data) ==
    Split(IF Mxc + Mnc < required \/ key[data] <= key[DataAt(maxtree, maxtree.top)]
          THEN Halves(InsertInto(maxtree, key, data), mintree, Mxc + 1, Mnc)
          ELSE Halves(maxtree, InsertInto(mintree, key, data), Mxc, Mnc + 1), key)

\* An item leaves both trees; below the required number all go back to maxtree.
RECURSIVE Gather(_, _)
Gather(h, key) == IF 0 < h.Mnc THEN Gather(ToMax(h, key), key) ELSE h
Kept(max, min) == Halves(max, min, B!get_refnum(max), B!get_refnum(min))
Gathered(h, key) == IF h.Mxc + h.Mnc < required THEN Gather(h, key) ELSE h
RemPercentile(key, data) ==
    Split(Gathered(Kept(B!Delete(maxtree, key, data), B!Delete(mintree, key, data)), key), key)

-----------------------------------------------------------------------------
\* Time goes by; what is too old need not grow older.
Tick ==
    /\ tracked' = [i \in DOMAIN tracked |-> [tracked[i] EXCEPT !.age = IF @ < TimeLimit THEN @ + 1 ELSE @]]
    /\ UNCHANGED <<pending, spare, storage, index, minmax, percentile, sum, distinct>>

Call(name, value) ==
    /\ pending = Idle /\ pending' = [call |-> name, value |-> value]
    /\ UNCHANGED <<window, minmax, percentile, sum, distinct>>

isfull == Len(tracked) = NumLimit
Due == /\ pending # Idle /\ tracked # << >>
       /\ \/ pending.call = "clear"
          \/ TimeLimit # 0 /\ Head(tracked).age >= TimeLimit
          \/ isfull

\* _slidingwindow_rem: the oldest item goes through the plugins and into recycle.
Rem ==
    /\ Due
    /\ LET data == Head(tracked).data
       IN  /\ Extremes(B!Delete(tree, storage, data))
           /\ RemPercentile(storage, data)
           /\ sum' = sum - storage[data]
    /\ tracked' = Tail(tracked)
    /\ spare' = IF spare = NumLimit THEN spare ELSE spare + 1
    /\ UNCHANGED <<pending, storage, index, distinct>>

Return ==
    /\ pending.call \in {"refresh", "clear"} /\ ~ Due
    /\ pending' = Idle
    /\ UNCHANGED <<window, minmax, percentile, sum, distinct>>

\* The rest of slidingwindow_add_data, with a storage.
Add ==
    /\ pending.call = "add" /\ ~ Due
    /\ storage' = [storage EXCEPT ![index] = pending.value]
    /\ index' = IF index = StorageLength THEN 1 ELSE index + 1
    /\ spare' = IF spare = 0 THEN 0 ELSE spare - 1
    /\ tracked' = Append(tracked, [data |-> index, age |-> 0])
    /\ Extremes(InsertInto(tree, storage', index))
    /\ AddPercentile(storage', index)
    /\ sum' = sum + pending.value
    /\ distinct' = (distinct /\ \A i \in DOMAIN tracked : storage[tracked[i].data] # pending.value)
    /\ pending' = Idle

Next ==
    \/ Tick \/ Rem \/ Return \/ Add
    \/ Call("refresh", 0) \/ Call("clear", 0) \/ \E v \in Values : Call("add", v)

Spec == Init /\ [][Next]_vars

-----------------------------------------------------------------------------
Inside == [i \in DOMAIN tracked |-> storage[tracked[i].data]]
Below(v) == {w \in Range(Inside) : w <= v}

\* The plugins' sum, minimum and maximum are those of the items in the window, read
\* through the slots the trees kept, whatever was removed and overwritten since.
StatisticsOfWindow ==
    /\ sum = FoldSeq(LAMBDA v, acc : v + acc, 0, Inside)
    /\ IF tracked = << >> THEN stat = [min |-> NULL, max |-> NULL]
       ELSE /\ storage[stat.min] \in Range(Inside) /\ storage[stat.max] \in Range(Inside)
            /\ \A v \in Range(Inside) : storage[stat.min] <= v /\ v <= storage[stat.max]

\* As long as no value was in the window twice: a percentile is reported from the required
\* number of items on, left and right are the neighbours at the place where the items are
\* split, and moving one more item to either side would pass the ratio.
PercentileSplits ==
    LET n == Len(tracked)
        x == IF candidates.left # NULL THEN Cardinality(Below(storage[candidates.left]))
             ELSE Cardinality(Below(storage[candidates.right])) - 1
    IN  distinct =>
          /\ candidates.processed = (n >= required)
          /\ candidates.processed =>
                /\ candidates.left # NULL \/ candidates.right # NULL
                /\ candidates.left # NULL => ~ RatioAbove(x, n - x)
                /\ candidates.right # NULL => ~ RatioBelow(x, n - x)
                /\ x > 0 => RatioAbove(x - 1, n - x + 1)
                /\ x < n => RatioBelow(x + 1, n - x - 1)
                /\ candidates.left # NULL /\ candidates.right # NULL =>
                      Cardinality(Below(storage[candidates.right])) = x + 1
=============================================================================
