------------------------------ MODULE Library -------------------------------
(***************************************************************************)
(* What is proved of the library (lib/) next to its ring: the evaluators   *)
(* of lost packets, the barrier, the vector, the queue, the heap and the   *)
(* multi-reader puffer (m...), and of the ini files (etc/), each with      *)
(* variables of its own.                                                   *)
(***************************************************************************)
EXTENDS DataPuffer, Integers

CONSTANTS
    SeqSize, WordSize, MaxGap, Timestamps,   \* of RtpLoss
    Gatherers, Gatenum, Flag, MaxGates,      \* of Barrier
    Garbage, ItemSize, InitSize, MaxItems,   \* of Vector
    Addresses,                               \* of Queue
    Values, BaseSize, MaxCount,              \* of Heap
    Lines, Lower, Entries, Texts,            \* of IniFile
    MinSize, MaxLines, MaxKeys

VARIABLES
    seq_num, seq_num_initialized, last_timestamp, packets, frames, arrived, missing, wraps,
    current, place, asleep, destroyer, opened, gate,
    memory, items_num, items_alloc_num, listed, astray, overrun,
    node, head, tail, counter, pushed, phase,
    data, held_count, held_size, added,
    mitems, mstart, mend, mcount, mread, mindex, mplus, promised, aimed, minside, due, passed,
    reading, load, file, means

Loss == INSTANCE RtpLoss
Gate == INSTANCE Barrier WITH Threads <- Gatherers
Vect == INSTANCE Vector WITH inside <- listed
List == INSTANCE Queue WITH Data <- Items, inside <- pushed
Prio == INSTANCE Heap WITH count <- held_count, size <- held_size
Multi == INSTANCE MultiPuffer WITH
             Length <- Size, items <- mitems, start <- mstart, end <- mend, count <- mcount,
             read <- mread, read_index <- mindex, plus <- mplus, inside <- minside
Ini == INSTANCE IniFile WITH Values <- Texts, phase <- reading

ASSUME LossAssumption == Loss!SizesFit
ASSUME GateAssumption == Gate!GatenumFits

\* vector_init takes its own size for one that is not positive; no address is NULL.
ASSUME ListAssumption == ItemSize \in Nat \ {0} /\ InitSize \in Nat \ {0} /\ NULL \notin Addresses

\* The heap compares ints; its base_size is 4, and _heapify has no case for a single item.
ASSUME HeapAssumption == Values \subseteq Int /\ BaseSize \in Nat \ {0, 1}

\* A text is a sequence of the words that tolower knows, and no text is NULL; DICTMINSZ is
\* 128.
ASSUME IniAssumption ==
    /\ MinSize \in Nat \ {0}
    /\ Lower \in [DOMAIN Lower -> DOMAIN Lower] /\ ":" \in DOMAIN Lower
    /\ Lines \cup Entries \cup Texts \subseteq Seq(DOMAIN Lower) /\ NULL \notin Seq(DOMAIN Lower)

\* Whatever was lost from the stream and however often its numbers started over, the sum
\* of LOST_RTP_PACKETS_X is the number of lost packets less the number of these wraps.
LossIsExactButForWraps == Loss!LossIsExactButForWraps

\* The gate lets through all who gathered and nobody else, forgets none of them asleep,
\* and is not freed while one of them is still inside.
BarrierHoldsAll == Gate!BarrierHoldsAll /\ Gate!FreedWhenAllLeft

\* Vector and queue keep what was put into them, in order, up to the calls that break them.
ListsKeepItems == Vect!VectorIsList /\ List!QueueIsDeque

\* The heap has what was pushed and not popped, the greatest on top.
HeapIsPriorityQueue == Prio!HeapIsPriorityQueue

\* As long as no write passed the oldest item, the ring with holes gives its items in order.
ReadsInOrder == Multi!ReadsInOrder

\* At every line that may be the last one the dictionary says what the lines say, and the
\* file will be refused if its last entry makes no sense.
LoadReadsLines == Ini!LoadReadsLines

\* No key is in two slots, every slot in use is counted, and a lookup in a loaded dictionary
\* finds what was set last.
DictionaryIsMap == Ini!DictionaryIsMap
=============================================================================
