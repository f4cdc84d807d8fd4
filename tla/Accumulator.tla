---------------------------- MODULE Accumulator ----------------------------
(***************************************************************************)
(* The measuring core of NTRT: one sniffer thread per pcap listener, the   *)
(* evaluator that runs in those threads with its pool of recycled records  *)
(* (cmp_evaluator.c, CMP_DEF_RECPUFFER of cmp_predefs.h), the accumulator  *)
(* that keeps a window of records per listener (cmp_accumulator.c), and    *)
(* the records relayer thread that asks for the sums (cmp_recorder.c).     *)
(*                                                                         *)
(* A step is what a thread does between two points where another thread    *)
(* can be seen: the accumulator's mutex is a variable, its critical        *)
(* section is several steps, a call to the record pool is one step (it     *)
(* runs under the pool's spin lock).  The items of a record are summed     *)
(* index by index, so one item stands for all of them.                     *)
(***************************************************************************)
EXTENDS Integers, Sequences

CONSTANTS
    ListenerNum,       \* pcap listeners, each with a sniffer thread
    Relayer,           \* the records relayer thread
    Nobody,            \* holds an unlocked mutex
    Records,           \* addresses malloc can give to a record_t
    NoRecord,          \* the NULL record pointer
    PufferSize,        \* puffer_size of every listener
    PoolSize,          \* CMP_PUFFER_RECYCLE_SIZE
    AccumulationTime,  \* accumulation_time
    WordSize,          \* 2^32: items are uint32_t
    Values,            \* what a feature can evaluate a packet to
    MaxTime            \* bound: the clock stops here

Listeners == 0 .. ListenerNum - 1
Threads == Listeners \cup {Relayer}
Word == 0 .. WordSize - 1
Time == 0 .. MaxTime

ASSUME ConstantsAssumption ==
    /\ ListenerNum \in Nat \ {0}
    /\ PufferSize \in Nat \ {0} /\ PoolSize \in Nat \ {0}
    /\ AccumulationTime \in Nat /\ MaxTime \in Nat
    /\ WordSize \in Nat \ {0} /\ Values \subseteq Word
    /\ Relayer \notin Listeners /\ Nobody \notin Threads /\ NoRecord \notin Records

VARIABLES
    now,        \* gettimeofday, in units of the accumulation time
    pc,         \* what each thread does next
    mutex,      \* the accumulator's mutex: its holder
    cursor,     \* the listener a thread's loop over the accumulators is at
    hand,       \* per sniffer: the record it measured and has not pushed yet
    victim,     \* per thread: the record it took out of a window
    data,       \* the contents of every record_t
    heap,       \* the records that are allocated
    pool,       \* the evaluator's puffer of recycled records
    window,     \* accumulator_t.records of each listener, the oldest first
    result,     \* accumulator_t.result
    total,      \* accumulator_t.total
    report,     \* what the relayer copied into the mxrecord it is filling
    asked       \* history: when the holder of the mutex got it, 0 without one

vars == <<now, pc, mutex, cursor, hand, victim, data, heap, pool, window,
          result, total, report, asked>>
sums == <<result, total>>
memory == <<data, heap, pool>>

\* uint32_t arithmetic: it wraps.
Plus(a, b) == IF a + b < WordSize THEN a + b ELSE a + b - WordSize
Minus(a, b) == IF a >= b THEN a - b ELSE a - b + WordSize

\* A record as memset leaves it.  The field mark is history: the total of the
\* listener just after the record was added to it.
Clean == [listener_id |-> 0, timestamp |-> 0, item |-> 0, mark |-> 0]

\* An mxrecord the relayer has not filled yet.
Blank == [features |-> 0, aggregations |-> 0]

\* A sniffer with a record in its hand pushes it; without one it runs an impulse.
Pushing(t) == t \in Listeners /\ hand[t] # NoRecord

\* The accumulator that a thread inside the critical section works on.
Target(t) == IF Pushing(t) THEN data[hand[t]].listener_id ELSE cursor[t]

Goto(t, label) == pc' = [pc EXCEPT ![t] = label]
-----------------------------------------------------------------------------
Init ==
    /\ now = 0
    /\ pc = [t \in Threads |-> "idle"]
    /\ mutex = Nobody
    /\ cursor = [t \in Threads |-> 0]
    /\ hand = [l \in Listeners |-> NoRecord]
    /\ victim = [t \in Threads |-> NoRecord]
    /\ data = [r \in Records |-> Clean]
    /\ heap = {}
    /\ pool = << >>
    /\ window = [l \in Listeners |-> << >>]
    /\ result = [l \in Listeners |-> 0]
    /\ total = [l \in Listeners |-> 0]
    /\ report = Blank
    /\ asked = 0

Tick ==
    /\ now < MaxTime
    /\ now' = now + 1
    /\ UNCHANGED <<pc, mutex, cursor, hand, victim, memory, window, sums, report, asked>>

\* pcap_next timed out: the sniffer sends NULL through the evaluator.
Impulse(l) ==
    /\ pc[l] = "idle"
    /\ Goto(l, "lock")
    /\ UNCHANGED <<now, mutex, cursor, hand, victim, memory, window, sums, report, asked>>

\* A packet: the evaluator demands a record (from the pool, or a new one when
\* the pool is empty), fills it and stamps it before the accumulator's mutex.
Sniff(l) ==
    /\ pc[l] = "idle"
    /\ \E r \in Records, value \in Values :
         /\ IF pool = << >>
            THEN r \notin heap /\ heap' = heap \cup {r} /\ pool' = pool
            ELSE r = Head(pool) /\ pool' = Tail(pool) /\ heap' = heap
         /\ data' = [data EXCEPT ![r] = [listener_id |-> l, timestamp |-> now,
                                         item |-> value, mark |-> 0]]
         /\ hand' = [hand EXCEPT ![l] = r]
    /\ Goto(l, "lock")
    /\ UNCHANGED <<now, mutex, cursor, victim, window, sums, report, asked>>

\* The relayer wakes up and starts its loop over the listeners.
Request ==
    /\ pc[Relayer] = "idle"
    /\ Goto(Relayer, "lock")
    /\ UNCHANGED <<now, mutex, cursor, hand, victim, memory, window, sums, report, asked>>
-----------------------------------------------------------------------------
\* Mutant of Lock: the mutex is not taken.
LockIgnored(t) ==
    /\ pc[t] = "lock"
    /\ mutex' = t
    /\ asked' = now
    /\ Goto(t, IF Pushing(t) THEN "push" ELSE "obsolate")
    /\ UNCHANGED <<now, cursor, hand, victim, memory, window, sums, report>>

Lock(t) ==
    /\ pc[t] = "lock"
    /\ mutex = Nobody
    /\ mutex' = t
    /\ asked' = now
    /\ Goto(t, IF Pushing(t) THEN "push" ELSE "obsolate")
    /\ UNCHANGED <<now, cursor, hand, victim, memory, window, sums, report>>

\* Take the oldest record of the target's window out of it.
TakeOldest(t) ==
    /\ victim' = [victim EXCEPT ![t] = Head(window[Target(t)])]
    /\ window' = [window EXCEPT ![Target(t)] = Tail(@)]
    /\ Goto(t, "subtract")
    /\ UNCHANGED <<now, mutex, cursor, hand, memory, sums, report, asked>>

\* Mutant of Push: the test for a full window is off by one.
PushEvictsEarly(l) ==
    /\ pc[l] = "push"
    /\ IF Len(window[Target(l)]) + 1 >= PufferSize /\ window[Target(l)] # << >>
       THEN TakeOldest(l)
       ELSE /\ Goto(l, "add")
            /\ UNCHANGED <<now, mutex, cursor, hand, victim, memory, window, sums,
                           report, asked>>

\* _push_record: a full window gives up its oldest record first.
Push(l) ==
    /\ pc[l] = "push"
    /\ \/ /\ Len(window[Target(l)]) = PufferSize
          /\ TakeOldest(l)
       \/ /\ Len(window[Target(l)]) # PufferSize
          /\ Goto(l, "add")
          /\ UNCHANGED <<now, mutex, cursor, hand, victim, memory, window, sums,
                         report, asked>>

Expired(r) == AccumulationTime < now - data[r].timestamp

\* Mutant of ObsolateOne: the record is subtracted but left in the window.
ObsolatePeeks(t) ==
    /\ pc[t] = "obsolate"
    /\ window[cursor[t]] # << >>
    /\ Expired(Head(window[cursor[t]]))
    /\ victim' = [victim EXCEPT ![t] = Head(window[cursor[t]])]
    /\ Goto(t, "subtract")
    /\ UNCHANGED <<now, mutex, cursor, hand, memory, window, sums, report, asked>>

\* _obsolate_records, while the oldest record of the window is too old.
ObsolateOne(t) ==
    /\ pc[t] = "obsolate"
    /\ window[cursor[t]] # << >>
    /\ Expired(Head(window[cursor[t]]))
    /\ TakeOldest(t)

\* Mutant of ObsolateDone: the loop ends as soon as the newest record is
\* recent, whatever lies before it.
ObsolateDoneByNewest(t) ==
    /\ pc[t] = "obsolate"
    /\ window[cursor[t]] # << >> => ~ Expired(window[cursor[t]][Len(window[cursor[t]])])
    /\ \/ t = Relayer /\ Goto(t, "copy") /\ UNCHANGED cursor
       \/ /\ t # Relayer /\ cursor[t] + 1 < ListenerNum
          /\ cursor' = [cursor EXCEPT ![t] = @ + 1]
          /\ UNCHANGED pc
       \/ t # Relayer /\ cursor[t] + 1 = ListenerNum /\ Goto(t, "unlock") /\ UNCHANGED cursor
    /\ UNCHANGED <<now, mutex, hand, victim, memory, window, sums, report, asked>>

\* _obsolate_records returns.  The relayer copies the sums of this listener, an
\* impulse goes on to the next accumulator.
ObsolateDone(t) ==
    /\ pc[t] = "obsolate"
    /\ window[cursor[t]] # << >> => ~ Expired(Head(window[cursor[t]]))
    /\ \/ t = Relayer /\ Goto(t, "copy") /\ UNCHANGED cursor
       \/ /\ t # Relayer /\ cursor[t] + 1 < ListenerNum
          /\ cursor' = [cursor EXCEPT ![t] = @ + 1]
          /\ UNCHANGED pc
       \/ t # Relayer /\ cursor[t] + 1 = ListenerNum /\ Goto(t, "unlock") /\ UNCHANGED cursor
    /\ UNCHANGED <<now, mutex, hand, victim, memory, window, sums, report, asked>>

\* _records_subtract: the record leaves the sum of its window.
Subtract(t) ==
    /\ pc[t] = "subtract"
    /\ result' = [result EXCEPT ![Target(t)] = Minus(@, data[victim[t]].item)]
    /\ Goto(t, "recycle")
    /\ UNCHANGED <<now, mutex, cursor, hand, victim, memory, window, total, report, asked>>

\* Mutant of Recycle: a full pool drops the record without the destructor.
RecycleLeaks(t) ==
    /\ pc[t] = "recycle"
    /\ IF Len(pool) = PoolSize
       THEN UNCHANGED <<heap, pool, data>>
       ELSE /\ data' = [data EXCEPT ![victim[t]] = Clean]
            /\ pool' = Append(pool, victim[t])
            /\ UNCHANGED heap
    /\ victim' = [victim EXCEPT ![t] = NoRecord]
    /\ Goto(t, IF Pushing(t) THEN "add" ELSE "obsolate")
    /\ UNCHANGED <<now, mutex, cursor, hand, window, sums, report, asked>>

\* send_record: the pool's receiver cleans and keeps it, or frees it when full.
Recycle(t) ==
    /\ pc[t] = "recycle"
    /\ IF Len(pool) = PoolSize
       THEN heap' = heap \ {victim[t]} /\ UNCHANGED <<pool, data>>
       ELSE /\ data' = [data EXCEPT ![victim[t]] = Clean]
            /\ pool' = Append(pool, victim[t])
            /\ UNCHANGED heap
    /\ victim' = [victim EXCEPT ![t] = NoRecord]
    /\ Goto(t, IF Pushing(t) THEN "add" ELSE "obsolate")
    /\ UNCHANGED <<now, mutex, cursor, hand, window, sums, report, asked>>

\* Mutant of AddItems: the running total misses a record that made room first.
AddItemsForgetsTotal(l) ==
    /\ pc[l] = "add"
    /\ LET a == Target(l)
           item == data[hand[l]].item
           grown == IF Len(window[a]) + 1 = PufferSize THEN total[a] ELSE Plus(total[a], item)
       IN /\ result' = [result EXCEPT ![a] = Plus(@, item)]
          /\ total' = [total EXCEPT ![a] = grown]
          /\ data' = [data EXCEPT ![hand[l]].mark = grown]
    /\ Goto(l, "write")
    /\ UNCHANGED <<now, mutex, cursor, hand, victim, heap, pool, window, report, asked>>

\* _records_addition, to the sum of the window and to the running total.
AddItems(l) ==
    /\ pc[l] = "add"
    /\ LET a == Target(l)
           item == data[hand[l]].item
       IN /\ result' = [result EXCEPT ![a] = Plus(@, item)]
          /\ total' = [total EXCEPT ![a] = Plus(@, item)]
          /\ data' = [data EXCEPT ![hand[l]].mark = Plus(total[a], item)]
    /\ Goto(l, "write")
    /\ UNCHANGED <<now, mutex, cursor, hand, victim, heap, pool, window, report, asked>>

\* datapuffer_write: the record enters the window.
Write(l) ==
    /\ pc[l] = "write"
    /\ window' = [window EXCEPT ![Target(l)] = Append(@, hand[l])]
    /\ hand' = [hand EXCEPT ![l] = NoRecord]
    /\ Goto(l, "unlock")
    /\ UNCHANGED <<now, mutex, cursor, victim, memory, sums, report, asked>>

\* The request copies both sums of one listener into the mxrecord.
Copy ==
    /\ pc[Relayer] = "copy"
    /\ report' = [features |-> result[cursor[Relayer]],
                  aggregations |-> total[cursor[Relayer]]]
    /\ Goto(Relayer, "unlock")
    /\ UNCHANGED <<now, mutex, cursor, hand, victim, memory, window, sums, asked>>

\* The relayer hands the mxrecord on and goes on to its next listener, or sleeps
\* after the last one.
Unlock(t) ==
    /\ pc[t] = "unlock"
    /\ mutex' = Nobody
    /\ asked' = 0
    /\ IF t = Relayer /\ cursor[t] + 1 < ListenerNum
       THEN Goto(t, "lock") /\ cursor' = [cursor EXCEPT ![t] = @ + 1]
       ELSE Goto(t, "idle") /\ cursor' = [cursor EXCEPT ![t] = 0]
    /\ report' = IF t = Relayer THEN Blank ELSE report
    /\ UNCHANGED <<now, hand, victim, memory, window, sums>>

Critical(t) ==
    \/ ObsolateOne(t) \/ ObsolateDone(t) \/ Subtract(t) \/ Recycle(t) \/ Unlock(t)

Sniffer(l) ==
    \/ Impulse(l) \/ Sniff(l) \/ Push(l) \/ AddItems(l) \/ Write(l)

Next ==
    \/ Tick
    \/ \E l \in Listeners : Sniffer(l)
    \/ Request \/ Copy
    \/ \E t \in Threads : Lock(t) \/ Critical(t)

Spec == Init /\ [][Next]_vars
-----------------------------------------------------------------------------
Labels == {"idle", "lock", "push", "obsolate", "subtract", "recycle", "add", "write",
           "copy", "unlock"}
Inside == {"push", "obsolate", "subtract", "recycle", "add", "write", "copy", "unlock"}

Content == [listener_id : Listeners, timestamp : Time, item : Word, mark : Word]

\* Every field keeps its type.
TypeOK ==
    /\ now \in Time /\ asked \in Time
    /\ pc \in [Threads -> Labels]
    /\ mutex \in Threads \cup {Nobody}
    /\ cursor \in [Threads -> Listeners]
    /\ hand \in [Listeners -> Records \cup {NoRecord}]
    /\ victim \in [Threads -> Records \cup {NoRecord}]
    /\ data \in [Records -> Content]
    /\ heap \subseteq Records
    /\ pool \in Seq(Records) /\ Len(pool) <= PoolSize
    /\ window \in [Listeners -> Seq(Records)]
    /\ \A l \in Listeners : Len(window[l]) <= PufferSize
    /\ result \in [Listeners -> Word]
    /\ total \in [Listeners -> Word]
    /\ report \in [features : Word, aggregations : Word]

\* The sum of the items of a sequence of records.
SumOf(s) ==
    LET sum[i \in 0 .. Len(s)] == IF i = 0 THEN 0 ELSE Plus(sum[i - 1], data[s[i]].item)
    IN  sum[Len(s)]

\* Outside the critical section, and when the relayer has just copied it, the
\* result of a listener is the sum of the records that are in its window: no
\* push, eviction, impulse or request of any thread leaves a trace in it.
ResultIsWindowSum ==
    mutex = Nobody \/ pc[mutex] = "unlock" =>
        \A l \in Listeners : result[l] = SumOf(window[l])

\* What the total of a listener was before a record of its window was added.
Before(r) == Minus(data[r].mark, data[r].item)

\* The closed form of ResultIsWindowSum: the result of a listener is what its
\* total has grown by since before the oldest record of its window, and every
\* record of the window starts where the one before it ended, up to the total.
ResultIsGrowthOfTotal ==
    mutex = Nobody \/ pc[mutex] = "unlock" =>
        \A l \in Listeners :
            LET w == window[l]
            IN  /\ w = << >> => result[l] = 0
                /\ w # << >> => /\ result[l] = Minus(total[l], Before(Head(w)))
                                /\ data[w[Len(w)]].mark = total[l]
                /\ \A i \in 1 .. Len(w) - 1 : Before(w[i + 1]) = data[w[i]].mark

\* The places a record can be in.
Held(r) == {<<"hand", l>> : l \in {m \in Listeners : hand[m] = r}}
    \cup {<<"victim", t>> : t \in {u \in Threads : victim[u] = r}}
    \cup {<<"pool", i>> : i \in {j \in 1 .. Len(pool) : pool[j] = r}}
    \cup UNION {{<<"window", l, i>> : i \in {j \in 1 .. Len(window[l]) : window[l][j] = r}} :
                    l \in Listeners}

\* A record that is allocated is in exactly one place and a freed one in none:
\* no two threads share a record, none is freed or recycled twice, none leaks.
OneOwner == \A r \in Records : IF r \in heap THEN \E p \in Held(r) : Held(r) = {p}
                                             ELSE Held(r) = {}

\* A window holds its own listener's records, in the order of their stamps:
\* the evaluator stamps them before the mutex, _obsolate_records looks only at
\* the oldest one.
WindowOrdered ==
    \A l \in Listeners : \A i, j \in 1 .. Len(window[l]) :
        /\ data[window[l][i]].listener_id = l
        /\ i <= j => data[window[l][i]].timestamp <= data[window[l][j]].timestamp

\* What the relayer has just copied is the sum over a window in which nothing
\* is older than the accumulation time, counted when the request got the mutex.
ReportIsFresh ==
    pc[Relayer] = "unlock" =>
        LET w == window[cursor[Relayer]]
        IN  /\ report.features = SumOf(w)
            /\ \A i \in 1 .. Len(w) : asked - data[w[i]].timestamp <= AccumulationTime

\* A record leaves a window only as its oldest one, and only because it is too
\* old or because the window is full.
LeavesOldOrCrowdedOut ==
    [][\A l \in Listeners : Len(window'[l]) < Len(window[l]) =>
          /\ window'[l] = Tail(window[l])
          /\ \/ now - data[Head(window[l])].timestamp > AccumulationTime
             \/ Len(window[l]) = PufferSize]_vars

\* How far a thread is from the end of its critical section, at most: a record of
\* the window it works on costs it a round, the window grows in the last step.
Weight(label) ==
    CASE label = "copy" -> 1  [] label = "obsolate" -> 3 [] label = "write" -> 4
      [] label = "add" -> 5   [] label = "recycle" -> 6  [] label = "subtract" -> 7
      [] label = "push" -> 8  [] OTHER -> 0

Work(t) == IF pc[t] = "unlock" THEN 0 ELSE 8 * Len(window[Target(t)]) + Weight(pc[t])

\* Whoever gets the mutex gives it back: every step inside the critical section
\* brings its holder to the next listener of its loop or nearer to the end of
\* its work: the loops of _obsolate_records and of the impulse end.
CriticalSectionShrinks ==
    [][\A t \in Threads : mutex = t /\ mutex' = t /\ <<pc[t], cursor[t]>>' # <<pc[t], cursor[t]>> =>
          \/ cursor'[t] > cursor[t]
          \/ cursor'[t] = cursor[t] /\ Work(t)' < Work(t)]_vars
=============================================================================
