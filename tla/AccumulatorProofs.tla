------------------------- MODULE AccumulatorProofs -------------------------
(***************************************************************************)
(* For every number of listeners, every window and pool size and every     *)
(* width of the items: one thread at a time is in the accumulator's        *)
(* critical section, every record has one owner, windows stay inside their *)
(* puffers and in the order of their stamps, and sums are exact.           *)
(***************************************************************************)
EXTENDS Accumulator, SequenceTheorems, WellFoundedInduction, TLAPS

-----------------------------------------------------------------------------
(***************************************************************************)
(* Sequences of records.  Has and Distinct hide the indices, which a Tail  *)
(* shifts, from the proofs about threads.                                  *)
(***************************************************************************)
Has(s, r) == \E i \in 1 .. Len(s) : s[i] = r
Distinct(s) == \A i, j \in 1 .. Len(s) : s[i] = s[j] => i = j

\* Taking the oldest record out of a sequence.
LEMMA TailHas ==
    ASSUME NEW s \in Seq(Records), s # << >>, Distinct(s)
    PROVE  /\ Head(s) \in Records /\ Tail(s) \in Seq(Records)
           /\ Len(Tail(s)) = Len(s) - 1 /\ Len(s) > 0
           /\ Has(s, Head(s))
           /\ Distinct(Tail(s))
           /\ \A r : Has(Tail(s), r) <=> Has(s, r) /\ r # Head(s)
<1>1. /\ Head(s) \in Records /\ Tail(s) \in Seq(Records) /\ Head(s) = s[1]
      /\ Len(s) \in Nat /\ Len(s) > 0 /\ Len(Tail(s)) = Len(s) - 1
      /\ \A i \in 1 .. Len(s) - 1 : Tail(s)[i] = s[i + 1]
  BY HeadTailProperties, EmptySeq, LenProperties
<1>2. Has(s, Head(s))
  BY <1>1 DEF Has
<1>3. Distinct(Tail(s))
  BY <1>1 DEF Distinct
<1>4. ASSUME NEW r PROVE Has(Tail(s), r) <=> Has(s, r) /\ r # Head(s)
  <2>1. ASSUME NEW i \in 1 .. Len(s), s[i] = r, r # Head(s)
        PROVE  Has(Tail(s), r)
    <3>1. i - 1 \in 1 .. Len(s) - 1 /\ Tail(s)[i - 1] = r
      BY <1>1, <2>1
    <3>2. QED
      BY <1>1, <3>1 DEF Has
  <2>2. ASSUME NEW i \in 1 .. Len(s) - 1, Tail(s)[i] = r
        PROVE  Has(s, r) /\ r # Head(s)
    <3>1. i + 1 \in 1 .. Len(s) /\ s[i + 1] = r
      BY <1>1, <2>2
    <3>2. QED
      BY <1>1, <3>1 DEF Has, Distinct
  <2>3. QED
    BY <1>1, <2>1, <2>2 DEF Has
<1>5. QED
  BY <1>1, <1>2, <1>3, <1>4

\* Putting a record behind a sequence that does not have it.
LEMMA AppendHas ==
    ASSUME NEW s \in Seq(Records), NEW x \in Records, Distinct(s), ~ Has(s, x)
    PROVE  /\ Append(s, x) \in Seq(Records)
           /\ Len(Append(s, x)) = Len(s) + 1
           /\ Distinct(Append(s, x))
           /\ \A r : Has(Append(s, x), r) <=> Has(s, r) \/ r = x
<1>1. /\ Append(s, x) \in Seq(Records) /\ Len(Append(s, x)) = Len(s) + 1
      /\ Append(s, x)[Len(s) + 1] = x /\ Len(s) \in Nat
      /\ \A i \in 1 .. Len(s) : Append(s, x)[i] = s[i]
  BY AppendProperties, LenProperties
<1>2. \A i \in 1 .. Len(s) + 1 : i \in 1 .. Len(s) \/ i = Len(s) + 1
  BY <1>1
<1>3. Distinct(Append(s, x))
  BY <1>1, <1>2 DEF Distinct, Has
<1>4. ASSUME NEW r PROVE Has(Append(s, x), r) <=> Has(s, r) \/ r = x
  <2>1. \A i \in 1 .. Len(s) : i \in 1 .. Len(s) + 1
    BY <1>1
  <2>2. Len(s) + 1 \in 1 .. Len(s) + 1
    BY <1>1
  <2>3. QED
    BY <1>1, <1>2, <2>1, <2>2 DEF Has
<1>5. QED
  BY <1>1, <1>3, <1>4

-----------------------------------------------------------------------------
(***************************************************************************)
(* The inductive invariant.                                                *)
(***************************************************************************)

\* Where a thread is determines whether it has the mutex, a victim, a record.
Control ==
    /\ \A t \in Threads : pc[t] \in Inside <=> mutex = t
    /\ \A t \in Threads : pc[t] \in {"subtract", "recycle"} <=> victim[t] # NoRecord
    /\ \A l \in Listeners :
         /\ pc[l] \in {"push", "add", "write"} => hand[l] # NoRecord
         /\ pc[l] \in {"idle", "obsolate", "unlock"} => hand[l] = NoRecord
         /\ pc[l] # "copy"
    /\ pc[Relayer] \notin {"push", "add", "write"}

\* OneOwner, with the indices hidden.
Owned == \A r \in Records :
    /\ \A l, m \in Listeners : hand[l] = r /\ hand[m] = r => l = m
    /\ \A t, u \in Threads : victim[t] = r /\ victim[u] = r => t = u
    /\ \A l, m \in Listeners : Has(window[l], r) /\ Has(window[m], r) => l = m
    /\ \A l \in Listeners, t \in Threads : ~ (hand[l] = r /\ victim[t] = r)
    /\ \A l, m \in Listeners : ~ (hand[l] = r /\ Has(window[m], r))
    /\ \A l \in Listeners : ~ (hand[l] = r /\ Has(pool, r))
    /\ \A t \in Threads, l \in Listeners : ~ (victim[t] = r /\ Has(window[l], r))
    /\ \A t \in Threads : ~ (victim[t] = r /\ Has(pool, r))
    /\ \A l \in Listeners : ~ (Has(window[l], r) /\ Has(pool, r))
    /\ r \in heap <=> \/ \E l \in Listeners : hand[l] = r
                      \/ \E t \in Threads : victim[t] = r
                      \/ \E l \in Listeners : Has(window[l], r)
                      \/ Has(pool, r)

\* No sequence holds a record twice.
NoRepeats == Distinct(pool) /\ \A l \in Listeners : Distinct(window[l])

\* A record in a sniffer's hand belongs to its listener, and the window it is
\* about to enter has room for it.
Room == \A l \in Listeners : hand[l] # NoRecord =>
    /\ data[hand[l]].listener_id = l
    /\ pc[l] \in {"subtract", "recycle", "add", "write"} => Len(window[l]) < PufferSize

IInv == TypeOK /\ Control /\ Owned /\ NoRepeats /\ Room

LEMMA InitIInv == Init => IInv
<1> SUFFICES ASSUME Init PROVE IInv
  OBVIOUS
<1> USE ConstantsAssumption
<1>1. << >> \in Seq(Records) /\ Len(<< >>) = 0
  BY EmptySeq
<1>2. \A r : ~ Has(<< >>, r)
  BY <1>1 DEF Has
<1>3. Distinct(<< >>)
  BY <1>1 DEF Distinct
<1>4. Clean \in Content
  <2>1. 0 \in Listeners /\ 0 \in Time /\ 0 \in Word
    BY DEF Listeners, Time, Word
  <2>2. QED
    BY <2>1 DEF Clean, Content
<1>5. TypeOK
  <2>1. 0 \in Listeners /\ 0 \in Time /\ 0 \in Word
    BY DEF Listeners, Time, Word
  <2>2. QED
    BY <1>1, <1>4, <2>1 DEF Init, TypeOK, Labels, Blank
<1>6. Control
  BY DEF Init, Control, Threads, Inside
<1>7. Owned /\ NoRepeats
  BY <1>2, <1>3 DEF Init, Owned, NoRepeats
<1>8. Room
  BY DEF Init, Room
<1>9. QED
  BY <1>5, <1>6, <1>7, <1>8 DEF IInv

\* Nothing moves: the records stay with their owners.
LEMMA OwnedStays ==
    Owned /\ NoRepeats /\ UNCHANGED <<hand, victim, heap, pool, window>> => Owned' /\ NoRepeats'
BY DEF Owned, NoRepeats

\* A sniffer that pushes works on its own window.
LEMMA TargetOf ==
    IInv => \A t \in Threads :
        /\ Target(t) \in Listeners
        /\ Pushing(t) => t \in Listeners /\ Target(t) = t
        /\ ~ Pushing(t) => Target(t) = cursor[t]
        /\ pc[t] \in {"push", "add", "write"} => Pushing(t)
        /\ pc[t] = "obsolate" => ~ Pushing(t)
BY ConstantsAssumption DEF IInv, TypeOK, Control, Room, Target, Pushing, Threads

\* The oldest record of a window goes into the hands of the thread.
LEMMA TakeOldestIInv ==
    ASSUME IInv, NEW t \in Threads, pc[t] \in {"push", "obsolate"},
           window[Target(t)] # << >>, TakeOldest(t)
    PROVE  IInv'
<1> DEFINE a == Target(t)
           r == Head(window[a])
<1> USE ConstantsAssumption
<1>1. a \in Listeners /\ (Pushing(t) => t \in Listeners /\ a = t)
  BY TargetOf
<1>2. window[a] \in Seq(Records) /\ Distinct(window[a])
  BY <1>1 DEF IInv, TypeOK, NoRepeats
<1>3. /\ r \in Records /\ Tail(window[a]) \in Seq(Records)
      /\ Len(Tail(window[a])) = Len(window[a]) - 1 /\ Len(window[a]) > 0
      /\ Has(window[a], r)
      /\ Distinct(Tail(window[a]))
      /\ \A q : Has(Tail(window[a]), q) <=> Has(window[a], q) /\ q # r
  BY <1>2, TailHas
<1>4. /\ victim' = [victim EXCEPT ![t] = r]
      /\ window' = [window EXCEPT ![a] = Tail(window[a])]
      /\ pc' = [pc EXCEPT ![t] = "subtract"]
      /\ UNCHANGED <<now, mutex, cursor, hand, data, heap, pool, result, total,
                     report, asked>>
  BY DEF TakeOldest, Goto, memory, sums
<1> HIDE DEF a, r
<1>5. /\ window \in [Listeners -> Seq(Records)]
      /\ \A l \in Listeners : Len(window[l]) \in Nat /\ Len(window[l]) <= PufferSize
  BY LenProperties DEF IInv, TypeOK
<1>6. TypeOK'
  <2>1. pc' \in [Threads -> Labels] /\ victim' \in [Threads -> Records \cup {NoRecord}]
    BY <1>3, <1>4 DEF IInv, TypeOK, Labels
  <2>2. /\ window' \in [Listeners -> Seq(Records)]
        /\ \A l \in Listeners : Len(window'[l]) <= PufferSize
    BY <1>1, <1>3, <1>4, <1>5
  <2>3. QED
    BY <1>4, <2>1, <2>2 DEF IInv, TypeOK
<1>7. Control'
  <2>1. mutex = t /\ victim[t] = NoRecord
    BY DEF IInv, Control, Inside
  <2>2. QED
    BY <1>3, <1>4, <2>1 DEF IInv, TypeOK, Control, Inside, Threads
<1>8. Owned'
  <2>1. victim[t] = NoRecord
    BY DEF IInv, Control
  <2>2. \A l \in Listeners, q \in Records :
            Has(window'[l], q) <=> Has(window[l], q) /\ ~ (l = a /\ q = r)
    BY <1>1, <1>3, <1>4, <1>5
  <2>3. \A u \in Threads, q \in Records :
            victim'[u] = q <=> (victim[u] = q /\ u # t) \/ (u = t /\ q = r)
    BY <1>4 DEF IInv, TypeOK
  <2>4. \A u \in Threads, q \in Records :
            victim'[u] = q <=> victim[u] = q \/ (u = t /\ q = r)
    BY <2>1, <2>3
  <2>5. Owned
    BY DEF IInv
  <2>6. UNCHANGED <<hand, heap, pool>>
    BY <1>4
  <2>7. QED
    BY <1>1, <1>3, <2>2, <2>4, <2>5, <2>6 DEF Owned
<1>9. NoRepeats'
  BY <1>1, <1>3, <1>4, <1>5 DEF IInv, NoRepeats
<1>10. Room'
  <2>1. \A l \in Listeners : Len(window'[l]) <= Len(window[l])
    BY <1>1, <1>3, <1>4, <1>5
  <2>2. Pushing(t) => Len(window'[t]) < PufferSize
    BY <1>1, <1>3, <1>4, <1>5
  <2>3. \A l \in Listeners : hand[l] # NoRecord =>
            data'[hand'[l]].listener_id = l
    BY <1>4 DEF IInv, Room
  <2>4. \A l \in Listeners : hand[l] # NoRecord /\ l # t =>
            (pc[l] \in {"subtract", "recycle", "add", "write"} => Len(window'[l]) < PufferSize)
    BY <1>4, <1>5, <1>1, <1>3 DEF IInv, Room
  <2>5. QED
    BY <1>4, <2>2, <2>3, <2>4 DEF IInv, TypeOK, Room, Pushing
<1>11. QED
  BY <1>6, <1>7, <1>8, <1>9, <1>10 DEF IInv

\* A record leaves the pool, or malloc's free memory, for a sniffer's hand.
LEMMA SniffIInv ==
    ASSUME IInv, NEW l \in Listeners, Sniff(l) PROVE IInv'
<1> USE ConstantsAssumption
<1>1. PICK r \in Records, value \in Values :
        /\ IF pool = << >>
           THEN r \notin heap /\ heap' = heap \cup {r} /\ pool' = pool
           ELSE r = Head(pool) /\ pool' = Tail(pool) /\ heap' = heap
        /\ data' = [data EXCEPT ![r] = [listener_id |-> l, timestamp |-> now,
                                        item |-> value, mark |-> 0]]
        /\ hand' = [hand EXCEPT ![l] = r]
  BY DEF Sniff
<1>2. /\ pc[l] = "idle" /\ pc' = [pc EXCEPT ![l] = "lock"] /\ hand[l] = NoRecord
      /\ UNCHANGED <<now, mutex, cursor, victim, window, result, total, report, asked>>
  BY DEF Sniff, Goto, sums, IInv, Control
<1>3. l \in Threads /\ pool \in Seq(Records) /\ Distinct(pool) /\ Len(pool) <= PoolSize
  BY DEF Threads, IInv, TypeOK, NoRepeats
<1>4. /\ pool' \in Seq(Records) /\ Len(pool') <= PoolSize /\ Distinct(pool')
      /\ \A q : Has(pool', q) <=> Has(pool, q) /\ q # r
      /\ heap' = heap \cup {r}
      /\ r \in heap <=> Has(pool, r)
  <2>1. CASE pool = << >>
    <3>1. \A q : ~ Has(pool, q)
      BY <2>1, EmptySeq DEF Has
    <3>2. QED
      BY <1>1, <1>3, <2>1, <3>1
  <2>2. CASE pool # << >>
    <3>1. /\ r = Head(pool) /\ pool' = Tail(pool) /\ heap' = heap
      BY <1>1, <2>2
    <3>2. /\ Tail(pool) \in Seq(Records) /\ Len(Tail(pool)) = Len(pool) - 1
          /\ Has(pool, r) /\ Distinct(Tail(pool))
          /\ \A q : Has(Tail(pool), q) <=> Has(pool, q) /\ q # r
      BY <1>3, <2>2, <3>1, TailHas
    <3>3. r \in heap
      BY <3>2 DEF IInv, Owned
    <3>4. QED
      BY <1>3, <3>1, <3>2, <3>3, LenProperties
  <2>3. QED
    BY <2>1, <2>2
<1>5. /\ \A m \in Listeners : hand[m] # r /\ ~ Has(window[m], r)
      /\ \A t \in Threads : victim[t] # r
  BY <1>1, <1>4 DEF IInv, Owned
<1>6. TypeOK'
  <2>1. [listener_id |-> l, timestamp |-> now, item |-> value, mark |-> 0] \in Content
    <3>1. value \in Word /\ 0 \in Word
      BY DEF Word
    <3>2. QED
      BY <3>1 DEF Content, IInv, TypeOK
  <2>2. data' \in [Records -> Content] /\ hand' \in [Listeners -> Records \cup {NoRecord}]
    BY <1>1, <2>1 DEF IInv, TypeOK
  <2>3. pc' \in [Threads -> Labels]
    BY <1>2 DEF IInv, TypeOK, Labels
  <2>4. heap' \subseteq Records
    BY <1>4 DEF IInv, TypeOK
  <2>5. QED
    BY <1>2, <1>4, <2>2, <2>3, <2>4 DEF IInv, TypeOK
<1>7. Control'
  BY <1>1, <1>2, <1>3 DEF IInv, TypeOK, Control, Inside, Threads
<1>8. Owned'
  <2>1. \A m \in Listeners, q \in Records :
            hand'[m] = q <=> (hand[m] = q \/ (m = l /\ q = r))
    BY <1>1, <1>2 DEF IInv, TypeOK
  <2>2. Owned /\ UNCHANGED <<victim, window>>
    BY <1>2 DEF IInv
  <2>3. QED
    BY <1>4, <1>5, <2>1, <2>2 DEF Owned
<1>9. NoRepeats'
  BY <1>2, <1>4 DEF IInv, NoRepeats
<1>10. Room'
  BY <1>1, <1>2, <1>3, <1>5 DEF IInv, TypeOK, Room
<1>11. QED
  BY <1>6, <1>7, <1>8, <1>9, <1>10 DEF IInv

\* A victim goes to the pool, or back to malloc's free memory.
LEMMA RecycleIInv ==
    ASSUME IInv, NEW t \in Threads, Recycle(t) PROVE IInv'
<1> USE ConstantsAssumption
<1> DEFINE next == IF Pushing(t) THEN "add" ELSE "obsolate"
<1>0. PICK r \in Records : victim[t] = r
  BY DEF Recycle, IInv, TypeOK, Control
<1>1. /\ pc[t] = "recycle" /\ r # NoRecord /\ mutex = t
      /\ r \in heap /\ ~ Has(pool, r)
      /\ \A l \in Listeners : hand[l] # r /\ ~ Has(window[l], r)
      /\ \A u \in Threads : victim[u] = r => u = t
  BY <1>0 DEF Recycle, IInv, TypeOK, Control, Owned, Inside
<1>2. /\ victim' = [victim EXCEPT ![t] = NoRecord]
      /\ pc' = [pc EXCEPT ![t] = next]
      /\ UNCHANGED <<now, mutex, cursor, hand, window, result, total, report, asked>>
  BY DEF Recycle, Goto, sums
<1>3. Len(pool) = PoolSize => heap' = heap \ {r} /\ pool' = pool /\ data' = data
  BY <1>0 DEF Recycle
<1>4. Len(pool) # PoolSize =>
        data' = [data EXCEPT ![r] = Clean] /\ pool' = Append(pool, r) /\ heap' = heap
  BY <1>0 DEF Recycle
<1>5. /\ pool \in Seq(Records) /\ Distinct(pool) /\ Len(pool) \in Nat
      /\ Len(pool) <= PoolSize
  BY LenProperties DEF IInv, TypeOK, NoRepeats
<1>6. /\ pool' \in Seq(Records) /\ Len(pool') <= PoolSize /\ Distinct(pool')
      /\ \/ heap' = heap \ {r} /\ \A q : Has(pool', q) <=> Has(pool, q)
         \/ heap' = heap /\ \A q : Has(pool', q) <=> Has(pool, q) \/ q = r
  <2>1. CASE Len(pool) = PoolSize
    BY <1>3, <1>5, <2>1
  <2>2. CASE Len(pool) # PoolSize
    <3>1. /\ Append(pool, r) \in Seq(Records) /\ Len(Append(pool, r)) = Len(pool) + 1
          /\ Distinct(Append(pool, r))
          /\ \A q : Has(Append(pool, r), q) <=> Has(pool, q) \/ q = r
      BY <1>1, <1>5, AppendHas
    <3>2. pool' = Append(pool, r) /\ heap' = heap /\ Len(pool) + 1 <= PoolSize
      BY <1>4, <1>5, <2>2
    <3>3. QED
      BY <3>1, <3>2
  <2>3. QED
    BY <2>1, <2>2
<1>7. data' \in [Records -> Content] /\ \A q \in Records : q # r => data'[q] = data[q]
  <2>1. Clean \in Content
    <3>1. 0 \in Listeners /\ 0 \in Time /\ 0 \in Word
      BY DEF Listeners, Time, Word
    <3>2. QED
      BY <3>1 DEF Clean, Content
  <2>2. data \in [Records -> Content]
    BY DEF IInv, TypeOK
  <2>3. data' = data \/ data' = [data EXCEPT ![r] = Clean]
    BY <1>3, <1>4
  <2>4. QED
    BY <2>1, <2>2, <2>3
<1>8. TypeOK'
  <2>1. pc' \in [Threads -> Labels] /\ victim' \in [Threads -> Records \cup {NoRecord}]
    BY <1>2 DEF IInv, TypeOK, Labels
  <2>2. heap' \subseteq Records
    BY <1>6 DEF IInv, TypeOK
  <2>3. QED
    BY <1>2, <1>6, <1>7, <2>1, <2>2 DEF IInv, TypeOK
<1>9. Control'
  <2>1. t \in Listeners => (next = "add" <=> hand[t] # NoRecord)
    BY DEF Pushing
  <2>2. t = Relayer => next = "obsolate"
    BY DEF Pushing, Threads
  <2>3. next \in {"add", "obsolate"}
    OBVIOUS
  <2> HIDE DEF next
  <2>4. QED
    BY <1>1, <1>2, <2>1, <2>2, <2>3 DEF IInv, TypeOK, Control, Inside, Threads
<1>10. Owned'
  <2>1. \A u \in Threads, q \in Records :
            victim'[u] = q <=> victim[u] = q /\ q # r
    BY <1>0, <1>1, <1>2 DEF IInv, TypeOK
  <2>2. Owned /\ UNCHANGED <<hand, window>> /\ r \in Records
    BY <1>1, <1>2 DEF IInv
  <2>3. \A l \in Listeners : hand[l] # r /\ ~ Has(window[l], r)
    BY <1>1
  <2>4. ~ Has(pool, r)
    BY <1>1
  <2>5. \A u \in Threads : victim'[u] # r
    BY <2>1, <2>2
  <2>6. CASE heap' = heap \ {r} /\ \A q : Has(pool', q) <=> Has(pool, q)
    BY <2>1, <2>2, <2>3, <2>4, <2>6 DEF Owned
  <2>7. CASE heap' = heap /\ \A q : Has(pool', q) <=> Has(pool, q) \/ q = r
    BY <1>1, <2>1, <2>2, <2>3, <2>5, <2>7 DEF Owned
  <2>8. QED
    BY <1>6, <2>6, <2>7
<1>11. NoRepeats'
  BY <1>2, <1>6 DEF IInv, NoRepeats
<1>12. Room'
  BY <1>1, <1>2, <1>7 DEF IInv, TypeOK, Room, Pushing, Threads
<1>13. QED
  BY <1>8, <1>9, <1>10, <1>11, <1>12 DEF IInv

\* A record goes from a sniffer's hand into its window.
LEMMA WriteIInv ==
    ASSUME IInv, NEW l \in Listeners, Write(l) PROVE IInv'
<1> USE ConstantsAssumption
<1>0. PICK r \in Records : hand[l] = r
  BY DEF Write, IInv, TypeOK, Control
<1>1. /\ pc[l] = "write" /\ l \in Threads /\ r # NoRecord /\ mutex = l
      /\ Target(l) = l /\ Len(window[l]) < PufferSize
      /\ \A m \in Listeners : ~ Has(window[m], r) /\ (hand[m] = r => m = l)
      /\ \A t \in Threads : victim[t] # r
      /\ ~ Has(pool, r)
  <2>1. /\ pc[l] = "write" /\ l \in Threads /\ r # NoRecord /\ mutex = l
    BY <1>0 DEF Write, Threads, IInv, TypeOK, Control, Inside
  <2>2. Target(l) = l /\ Len(window[l]) < PufferSize
    BY <1>0, <2>1, TargetOf DEF IInv, Room
  <2>3. /\ \A m \in Listeners : ~ Has(window[m], r) /\ (hand[m] = r => m = l)
        /\ \A t \in Threads : victim[t] # r
        /\ ~ Has(pool, r)
    BY <1>0 DEF IInv, Owned
  <2>4. QED
    BY <2>1, <2>2, <2>3
<1>2. /\ window' = [window EXCEPT ![l] = Append(window[l], r)]
      /\ hand' = [hand EXCEPT ![l] = NoRecord]
      /\ pc' = [pc EXCEPT ![l] = "unlock"]
      /\ UNCHANGED <<now, mutex, cursor, victim, data, heap, pool, result, total,
                     report, asked>>
  BY <1>0, <1>1 DEF Write, Goto, memory, sums
<1>3. window \in [Listeners -> Seq(Records)] /\ Distinct(window[l])
  BY DEF IInv, TypeOK, NoRepeats
<1>4. /\ Append(window[l], r) \in Seq(Records)
      /\ Len(Append(window[l], r)) = Len(window[l]) + 1
      /\ Distinct(Append(window[l], r))
      /\ \A q : Has(Append(window[l], r), q) <=> Has(window[l], q) \/ q = r
  BY <1>1, <1>3, AppendHas
<1>5. TypeOK'
  <2>1. pc' \in [Threads -> Labels] /\ hand' \in [Listeners -> Records \cup {NoRecord}]
    BY <1>2 DEF IInv, TypeOK, Labels
  <2>2. Len(window[l]) + 1 <= PufferSize
    BY <1>1, <1>3, LenProperties
  <2>3. /\ window' \in [Listeners -> Seq(Records)]
        /\ \A m \in Listeners : Len(window'[m]) <= PufferSize
    BY <1>2, <1>3, <1>4, <2>2 DEF IInv, TypeOK
  <2>4. QED
    BY <1>2, <2>1, <2>3 DEF IInv, TypeOK
<1>6. Control'
  BY <1>0, <1>1, <1>2 DEF IInv, TypeOK, Control, Inside, Threads
<1>7. Owned'
  <2>1. \A m \in Listeners, q \in Records : hand'[m] = q <=> hand[m] = q /\ q # r
    BY <1>0, <1>1, <1>2 DEF IInv, TypeOK
  <2>2. \A m \in Listeners, q \in Records :
            Has(window'[m], q) <=> Has(window[m], q) \/ (m = l /\ q = r)
    BY <1>2, <1>3, <1>4
  <2>3. Owned /\ UNCHANGED <<victim, heap, pool>>
    BY <1>2 DEF IInv
  <2>4. QED
    BY <1>0, <1>1, <2>1, <2>2, <2>3 DEF Owned
<1>8. NoRepeats'
  BY <1>2, <1>3, <1>4 DEF IInv, NoRepeats
<1>9. Room'
  BY <1>1, <1>2, <1>3 DEF IInv, TypeOK, Room
<1>10. QED
  BY <1>5, <1>6, <1>7, <1>8, <1>9 DEF IInv

\* The arithmetic of the items stays inside the word.
LEMMA WordClosed ==
    ASSUME NEW a \in Word, NEW b \in Word
    PROVE  Plus(a, b) \in Word /\ Minus(a, b) \in Word
BY ConstantsAssumption DEF Word, Plus, Minus

\* Steps that neither move a record nor change what is in one.
LEMMA QuietIInv ==
    ASSUME IInv, TypeOK', Control',
           UNCHANGED <<hand, victim, heap, pool, window>>,
           \A r \in Records : data'[r].listener_id = data[r].listener_id,
           \A l \in Listeners :
               pc'[l] \in {"subtract", "recycle", "add", "write"} =>
                   \/ pc[l] \in {"subtract", "recycle", "add", "write"}
                   \/ Len(window[l]) < PufferSize
    PROVE  IInv'
<1>1. Owned' /\ NoRepeats'
  BY OwnedStays DEF IInv
<1>2. Room'
  BY DEF IInv, Room, TypeOK
<1>3. QED
  BY <1>1, <1>2 DEF IInv

\* One step for each action.
LEMMA NextIInv == IInv /\ [Next]_vars => IInv'
<1> SUFFICES ASSUME IInv, [Next]_vars PROVE IInv'
  OBVIOUS
<1> USE ConstantsAssumption
<1>a. /\ \A l \in Listeners : l \in Threads /\ l # Relayer
      /\ Relayer \in Threads /\ 0 \in Listeners /\ 0 \in Time
  BY DEF Threads, Listeners, Time
<1>1. CASE Tick
  <2>1. TypeOK' /\ Control'
    BY <1>1 DEF Tick, memory, sums, IInv, TypeOK, Time, Control
  <2>2. QED
    BY <1>1, <2>1, QuietIInv DEF Tick, memory, sums
<1>2. ASSUME NEW l \in Listeners, Impulse(l) PROVE IInv'
  <2>1. TypeOK'
    BY <1>2, <1>a DEF Impulse, Goto, memory, sums, IInv, TypeOK, Labels
  <2>2. Control'
    BY <1>2, <1>a DEF Impulse, Goto, memory, sums, IInv, TypeOK, Control, Inside
  <2>3. QED
    BY <1>2, <1>a, <2>1, <2>2, QuietIInv DEF Impulse, Goto, memory, sums, IInv, TypeOK
<1>3. CASE Request
  <2>1. TypeOK'
    BY <1>3, <1>a DEF Request, Goto, memory, sums, IInv, TypeOK, Labels
  <2>2. Control'
    BY <1>3, <1>a DEF Request, Goto, memory, sums, IInv, TypeOK, Control, Inside
  <2>3. QED
    BY <1>3, <1>a, <2>1, <2>2, QuietIInv DEF Request, Goto, memory, sums, IInv, TypeOK
<1>4. ASSUME NEW t \in Threads, Lock(t) PROVE IInv'
  <2> DEFINE next == IF Pushing(t) THEN "push" ELSE "obsolate"
  <2>1. next \in {"push", "obsolate"} /\ (t = Relayer => next = "obsolate")
        /\ (t \in Listeners => (next = "push" <=> hand[t] # NoRecord))
    BY <1>a DEF Pushing
  <2>2. /\ pc[t] = "lock" /\ mutex = Nobody /\ mutex' = t /\ asked' = now
        /\ pc' = [pc EXCEPT ![t] = next]
        /\ UNCHANGED <<now, cursor, hand, victim, data, heap, pool, window, result,
                       total, report>>
    BY <1>4 DEF Lock, Goto, memory, sums
  <2> HIDE DEF next
  <2>3. TypeOK'
    BY <2>1, <2>2 DEF IInv, TypeOK, Labels
  <2>4. Control'
    BY <2>1, <2>2, <1>a DEF IInv, TypeOK, Control, Inside
  <2>5. QED
    BY <2>1, <2>2, <2>3, <2>4, <1>a, QuietIInv DEF IInv, TypeOK
<1>5. ASSUME NEW l \in Listeners, Push(l) PROVE IInv'
  <2>1. pc[l] = "push" /\ Target(l) = l
    BY <1>5, <1>a, TargetOf DEF Push
  <2>2. CASE Len(window[l]) = PufferSize
    <3>1. TakeOldest(l) /\ window[Target(l)] # << >>
      BY <1>5, <2>1, <2>2, EmptySeq DEF Push
    <3>2. QED
      BY <2>1, <3>1, <1>a, TakeOldestIInv
  <2>3. CASE Len(window[l]) # PufferSize
    <3>1. /\ pc' = [pc EXCEPT ![l] = "add"]
          /\ UNCHANGED <<now, mutex, cursor, hand, victim, data, heap, pool, window,
                         result, total, report, asked>>
      BY <1>5, <2>1, <2>3 DEF Push, Goto, memory, sums
    <3>2. TypeOK'
      BY <3>1 DEF IInv, TypeOK, Labels
    <3>3. Control'
      BY <2>1, <3>1, <1>a DEF IInv, TypeOK, Control, Inside
    <3>4. Len(window[l]) < PufferSize
      BY <2>3, LenProperties DEF IInv, TypeOK
    <3>5. QED
      BY <2>1, <3>1, <3>2, <3>3, <3>4, <1>a, QuietIInv DEF IInv, TypeOK
  <2>4. QED
    BY <2>2, <2>3
<1>6. ASSUME NEW t \in Threads, ObsolateOne(t) PROVE IInv'
  <2>1. pc[t] = "obsolate" /\ window[Target(t)] # << >> /\ TakeOldest(t)
    BY <1>6, TargetOf DEF ObsolateOne
  <2>2. QED
    BY <2>1, TakeOldestIInv
<1>7. ASSUME NEW t \in Threads, ObsolateDone(t) PROVE IInv'
  <2>1. PICK label \in {"copy", "obsolate", "unlock"} :
          /\ pc[t] = "obsolate" /\ pc' = [pc EXCEPT ![t] = label]
          /\ (label = "copy" <=> t = Relayer)
          /\ \/ cursor' = cursor
             \/ cursor[t] + 1 < ListenerNum /\ cursor' = [cursor EXCEPT ![t] = @ + 1]
          /\ UNCHANGED <<now, mutex, hand, victim, data, heap, pool, window, result,
                         total, report, asked>>
    <3>1. pc' = [pc EXCEPT ![t] = pc[t]] <=> pc' = pc
      BY DEF IInv, TypeOK
    <3>2. QED
      BY <1>7, <3>1 DEF ObsolateDone, Goto, memory, sums
  <2>2. cursor' \in [Threads -> Listeners]
    <3>1. cursor[t] \in Listeners /\ cursor \in [Threads -> Listeners]
      BY DEF IInv, TypeOK
    <3>2. cursor[t] + 1 < ListenerNum => cursor[t] + 1 \in Listeners
      BY <3>1 DEF Listeners
    <3>3. QED
      BY <2>1, <3>1, <3>2
  <2>3. TypeOK'
    BY <2>1, <2>2 DEF IInv, TypeOK, Labels
  <2>4. Control'
    BY <2>1, <1>a DEF IInv, TypeOK, Control, Inside
  <2>5. QED
    BY <2>1, <2>3, <2>4, <1>a, QuietIInv DEF IInv, TypeOK
<1>8. ASSUME NEW t \in Threads, Subtract(t) PROVE IInv'
  <2>1. /\ pc[t] = "subtract" /\ pc' = [pc EXCEPT ![t] = "recycle"]
        /\ result' = [result EXCEPT ![Target(t)] = Minus(@, data[victim[t]].item)]
        /\ UNCHANGED <<now, mutex, cursor, hand, victim, data, heap, pool, window,
                       total, report, asked>>
    BY <1>8 DEF Subtract, Goto, memory, sums
  <2>2. victim[t] \in Records
    BY <2>1 DEF IInv, TypeOK, Control
  <2>3. Minus(result[Target(t)], data[victim[t]].item) \in Word
    BY <2>2, TargetOf, WordClosed DEF IInv, TypeOK, Content
  <2>4. TypeOK'
    BY <2>1, <2>3 DEF IInv, TypeOK, Labels
  <2>5. Control'
    BY <2>1, <1>a DEF IInv, TypeOK, Control, Inside
  <2>6. QED
    BY <2>1, <2>4, <2>5, <1>a, QuietIInv DEF IInv, TypeOK
<1>9. ASSUME NEW l \in Listeners, AddItems(l) PROVE IInv'
  <2>1. pc[l] = "add" /\ hand[l] \in Records /\ Target(l) = l
    <3>1. pc[l] = "add"
      BY <1>9 DEF AddItems
    <3>2. hand[l] \in Records
      BY <3>1 DEF IInv, TypeOK, Control
    <3>3. QED
      BY <3>1, <3>2, <1>a, TargetOf
  <2>2. PICK item \in Word, mark \in Word :
          /\ item = data[hand[l]].item /\ mark = Plus(total[l], item)
          /\ Plus(result[l], item) \in Word
    BY <2>1, WordClosed DEF IInv, TypeOK, Content
  <2>3. /\ result' = [result EXCEPT ![l] = Plus(result[l], item)]
        /\ total' = [total EXCEPT ![l] = mark]
        /\ data' = [data EXCEPT ![hand[l]].mark = mark]
        /\ pc' = [pc EXCEPT ![l] = "write"]
        /\ UNCHANGED <<now, mutex, cursor, hand, victim, heap, pool, window, report, asked>>
    BY <1>9, <2>1, <2>2 DEF AddItems, Goto
  <2>4. /\ data' \in [Records -> Content]
        /\ \A r \in Records : data'[r].listener_id = data[r].listener_id
    <3>1. data \in [Records -> Content]
      BY DEF IInv, TypeOK
    <3>2. data[hand[l]] \in Content
      BY <2>1, <3>1
    <3>3. /\ [data[hand[l]] EXCEPT !.mark = mark] \in Content
          /\ [data[hand[l]] EXCEPT !.mark = mark].listener_id = data[hand[l]].listener_id
      BY <2>2, <3>2 DEF Content
    <3>4. data' = [data EXCEPT ![hand[l]] = [data[hand[l]] EXCEPT !.mark = mark]]
      BY <2>1, <2>3, <3>1
    <3>5. QED
      BY <2>1, <3>1, <3>3, <3>4
  <2>5. TypeOK'
    BY <2>2, <2>3, <2>4 DEF IInv, TypeOK, Labels
  <2>6. Control'
    BY <2>1, <2>3, <1>a DEF IInv, TypeOK, Control, Inside
  <2>7. QED
    BY <2>1, <2>3, <2>4, <2>5, <2>6, <1>a, QuietIInv DEF IInv, TypeOK
<1>10. CASE Copy
  <2>1. /\ pc[Relayer] = "copy" /\ pc' = [pc EXCEPT ![Relayer] = "unlock"]
        /\ report' = [features |-> result[cursor[Relayer]],
                      aggregations |-> total[cursor[Relayer]]]
        /\ UNCHANGED <<now, mutex, cursor, hand, victim, data, heap, pool, window,
                       result, total, asked>>
    BY <1>10 DEF Copy, Goto, memory, sums
  <2>2. TypeOK'
    BY <2>1, <1>a DEF IInv, TypeOK, Labels
  <2>3. Control'
    BY <2>1, <1>a DEF IInv, TypeOK, Control, Inside
  <2>4. QED
    BY <2>1, <2>2, <2>3, <1>a, QuietIInv DEF IInv, TypeOK
<1>11. ASSUME NEW t \in Threads, Unlock(t) PROVE IInv'
  <2>1. PICK label \in {"lock", "idle"}, c \in Listeners :
          /\ pc[t] = "unlock" /\ pc' = [pc EXCEPT ![t] = label]
          /\ label = "lock" => t = Relayer
          /\ cursor' = [cursor EXCEPT ![t] = c]
          /\ mutex' = Nobody /\ asked' = 0 /\ report' \in {Blank, report}
          /\ UNCHANGED <<now, hand, victim, data, heap, pool, window, result, total>>
    <3>1. t = Relayer /\ cursor[t] + 1 < ListenerNum => cursor[t] + 1 \in Listeners
      BY DEF IInv, TypeOK, Listeners
    <3>2. QED
      BY <1>11, <1>a, <3>1 DEF Unlock, Goto, memory, sums
  <2>2. Blank \in [features : Word, aggregations : Word]
    BY DEF Blank, Word
  <2>3. TypeOK'
    BY <2>1, <2>2, <1>a DEF IInv, TypeOK, Labels
  <2>4. Control'
    BY <2>1, <1>a DEF IInv, TypeOK, Control, Inside, Threads
  <2>5. QED
    BY <2>1, <2>3, <2>4, <1>a, QuietIInv DEF IInv, TypeOK
<1>12. CASE UNCHANGED vars
  <2>1. TypeOK' /\ Control'
    BY <1>12 DEF vars, memory, sums, IInv, TypeOK, Control
  <2>2. QED
    BY <1>12, <2>1, QuietIInv DEF vars, memory, sums
<1>13. QED
  BY <1>1, <1>2, <1>3, <1>4, <1>5, <1>6, <1>7, <1>8, <1>9, <1>10, <1>11, <1>12,
     SniffIInv, RecycleIInv, WriteIInv DEF Next, Sniffer, Critical

LEMMA Invariance == Spec => []IInv
BY InitIInv, NextIInv, PTL DEF Spec

\* Every field of the accumulator keeps its type: no window outgrows the puffer
\* of _accumulator_start and the recycle pool never outgrows its own.
THEOREM TypeCorrect == Spec => []TypeOK
<1>1. IInv => TypeOK
  BY DEF IInv
<1>2. QED
  BY <1>1, Invariance, PTL

\* Mutual exclusion: no two threads are between mutex_lock and mutex_unlock.
ExclusiveAccess ==
    \A t, u \in Threads : pc[t] \in Inside /\ pc[u] \in Inside => t = u

\* Two sniffers, or a sniffer and the relayer, are never in the critical
\* section of cmp_accumulator.c together.
THEOREM MutualExclusion == Spec => []ExclusiveAccess
<1>1. IInv => ExclusiveAccess
  BY DEF IInv, Control, ExclusiveAccess
<1>2. QED
  BY <1>1, Invariance, PTL

\* Every record_t has one owner as long as it is allocated, and none after it is
\* freed: the evaluator, the accumulator and the recycle pool hand records to
\* each other without a leak, a double free or a use after free.
THEOREM RecordsHaveOneOwner == Spec => []OneOwner
<1>1. ASSUME IInv PROVE OneOwner
  <2> SUFFICES ASSUME NEW r \in Records
               PROVE  IF r \in heap THEN \E p \in Held(r) : Held(r) = {p} ELSE Held(r) = {}
    BY DEF OneOwner
  <2> USE DEF Held
  <2>a. Owned /\ NoRepeats
    BY <1>1 DEF IInv
  <2>1. CASE r \notin heap
    <3>1. /\ \A l \in Listeners : hand[l] # r /\ ~ Has(window[l], r)
          /\ \A t \in Threads : victim[t] # r
          /\ ~ Has(pool, r)
      BY <2>a, <2>1 DEF Owned
    <3>2. QED
      BY <2>1, <3>1 DEF Has
  <2>2. ASSUME r \in heap, NEW l \in Listeners, hand[l] = r
        PROVE  Held(r) = {<<"hand", l>>}
    <3>1. /\ \A m \in Listeners : (hand[m] = r <=> m = l) /\ ~ Has(window[m], r)
          /\ \A t \in Threads : victim[t] # r
          /\ ~ Has(pool, r)
      BY <2>a, <2>2 DEF Owned
    <3>2. QED
      BY <3>1 DEF Has
  <2>3. ASSUME r \in heap, NEW t \in Threads, victim[t] = r
        PROVE  Held(r) = {<<"victim", t>>}
    <3>1. /\ \A m \in Listeners : hand[m] # r /\ ~ Has(window[m], r)
          /\ \A u \in Threads : victim[u] = r <=> u = t
          /\ ~ Has(pool, r)
      BY <2>a, <2>3 DEF Owned
    <3>2. QED
      BY <3>1 DEF Has
  <2>4. ASSUME r \in heap, NEW l \in Listeners, NEW i \in 1 .. Len(window[l]),
               window[l][i] = r
        PROVE  Held(r) = {<<"window", l, i>>}
    <3>1. Has(window[l], r) /\ \A j \in 1 .. Len(window[l]) : window[l][j] = r <=> j = i
      BY <2>a, <2>4 DEF Has, NoRepeats, Distinct
    <3>2. /\ \A m \in Listeners : hand[m] # r /\ (m # l => ~ Has(window[m], r))
          /\ \A t \in Threads : victim[t] # r
          /\ ~ Has(pool, r)
      BY <2>a, <3>1 DEF Owned
    <3>3. \A m \in Listeners : \A j \in 1 .. Len(window[m]) :
              window[m][j] = r <=> m = l /\ j = i
      BY <3>1, <3>2 DEF Has
    <3>4. \A j \in 1 .. Len(pool) : pool[j] # r
      BY <3>2 DEF Has
    <3>5. QED
      BY <3>2, <3>3, <3>4
  <2>5. ASSUME r \in heap, NEW i \in 1 .. Len(pool), pool[i] = r
        PROVE  Held(r) = {<<"pool", i>>}
    <3>1. Has(pool, r) /\ \A j \in 1 .. Len(pool) : pool[j] = r <=> j = i
      BY <2>a, <2>5 DEF Has, NoRepeats, Distinct
    <3>2. /\ \A m \in Listeners : hand[m] # r /\ ~ Has(window[m], r)
          /\ \A t \in Threads : victim[t] # r
      BY <2>a, <3>1 DEF Owned
    <3>3. QED
      BY <3>1, <3>2 DEF Has
  <2>6. r \in heap => \/ \E l \in Listeners : hand[l] = r
                      \/ \E t \in Threads : victim[t] = r
                      \/ \E l \in Listeners : \E i \in 1 .. Len(window[l]) : window[l][i] = r
                      \/ \E i \in 1 .. Len(pool) : pool[i] = r
    BY <2>a DEF Owned, Has
  <2> HIDE DEF Held
  <2>7. r \in heap => \E p : Held(r) = {p}
    BY <2>2, <2>3, <2>4, <2>5, <2>6
  <2>8. QED
    BY <2>1, <2>7
<1>2. QED
  BY <1>1, Invariance, PTL

\* What a single step may do to a window that gets shorter.
LeavesItsWindow(l) ==
    Len(window'[l]) < Len(window[l]) =>
        /\ window'[l] = Tail(window[l])
        /\ \/ now - data[Head(window[l])].timestamp > AccumulationTime
           \/ Len(window[l]) = PufferSize

\* A record leaves a window only as the oldest one, and only when it is older
\* than the accumulation time (_obsolate_records) or the window is full
\* (_push_record).
THEOREM NothingLeavesEarly == Spec => LeavesOldOrCrowdedOut
<1>1. ASSUME IInv, [Next]_vars, NEW l \in Listeners PROVE LeavesItsWindow(l)
  <2> USE ConstantsAssumption
  <2>a. /\ Len(window[l]) \in Nat
        /\ window \in [Listeners -> Seq(Records)]
        /\ data \in [Records -> Content] /\ now \in Nat
    BY <1>1, LenProperties DEF IInv, TypeOK, Time
  <2>1. ASSUME window' = window PROVE LeavesItsWindow(l)
    BY <2>1, <2>a DEF LeavesItsWindow
  <2>2. ASSUME NEW t \in Threads, TakeOldest(t)
        PROVE  window'[l] = IF l = Target(t) THEN Tail(window[l]) ELSE window[l]
    BY <2>2, <2>a DEF TakeOldest
  <2>3. ASSUME NEW m \in Listeners, Push(m) PROVE LeavesItsWindow(l)
    <3>1. CASE Len(window[Target(m)]) = PufferSize
      <4>1. TakeOldest(m) /\ m \in Threads
        BY <2>3, <3>1 DEF Push, Threads
      <4>2. window'[l] = IF l = Target(m) THEN Tail(window[l]) ELSE window[l]
        BY <2>2, <4>1
      <4>3. QED
        BY <2>a, <3>1, <4>2 DEF LeavesItsWindow
    <3>2. CASE Len(window[Target(m)]) # PufferSize
      BY <2>1, <2>3, <3>2 DEF Push
    <3>3. QED
      BY <3>1, <3>2
  <2>4. ASSUME NEW t \in Threads, ObsolateOne(t) PROVE LeavesItsWindow(l)
    <3>1. /\ TakeOldest(t) /\ Target(t) = cursor[t] /\ cursor[t] \in Listeners
          /\ window[cursor[t]] # << >> /\ Expired(Head(window[cursor[t]]))
      BY <1>1, <2>4, TargetOf DEF ObsolateOne, IInv, TypeOK
    <3>2. Head(window[cursor[t]]) \in Records
      BY <2>a, <3>1, HeadTailProperties
    <3>3. now - data[Head(window[cursor[t]])].timestamp > AccumulationTime
      BY <2>a, <3>1, <3>2 DEF Expired, Content, Time
    <3>4. window'[l] = IF l = Target(t) THEN Tail(window[l]) ELSE window[l]
      BY <2>2, <3>1
    <3>5. QED
      BY <2>a, <3>1, <3>3, <3>4 DEF LeavesItsWindow
  <2>5. ASSUME NEW m \in Listeners, Write(m) PROVE LeavesItsWindow(l)
    <3>1. Target(m) \in Listeners /\ m \in Threads /\ hand[m] \in Records
      BY <1>1, <2>5, TargetOf DEF Write, Threads, IInv, TypeOK, Control
    <3>2. Len(Append(window[Target(m)], hand[m])) = Len(window[Target(m)]) + 1
      BY <2>a, <3>1, AppendProperties
    <3>3. /\ window'[Target(m)] = Append(window[Target(m)], hand[m])
          /\ l # Target(m) => window'[l] = window[l]
      BY <2>5, <2>a, <3>1 DEF Write
    <3>4. QED
      BY <2>a, <3>2, <3>3 DEF LeavesItsWindow
  <2>6. [Next]_vars => \/ window' = window
                       \/ \E m \in Listeners : Push(m) \/ Write(m)
                       \/ \E t \in Threads : ObsolateOne(t)
    BY DEF Next, Sniffer, Critical, Tick, Impulse, Sniff, AddItems, Request, Copy, Lock,
           ObsolateDone, Subtract, Recycle, Unlock, vars
  <2>7. QED
    BY <1>1, <2>1, <2>3, <2>4, <2>5, <2>6
<1>2. IInv /\ [Next]_vars =>
        [\A l \in Listeners : Len(window'[l]) < Len(window[l]) =>
            /\ window'[l] = Tail(window[l])
            /\ \/ now - data[Head(window[l])].timestamp > AccumulationTime
               \/ Len(window[l]) = PufferSize]_vars
  BY <1>1 DEF LeavesItsWindow
<1>3. QED
  BY <1>2, Invariance, PTL DEF Spec, LeavesOldOrCrowdedOut

\* The window that the holder of the mutex works on stays the same until it goes
\* on to another listener or has written its record.
LEMMA TargetStays ==
    ASSUME IInv, IInv', NEW t \in Threads, cursor'[t] = cursor[t],
           hand' = hand
    PROVE  Target(t)' = Target(t)
<1>1. Target(t) = IF Pushing(t) THEN t ELSE cursor[t]
  BY TargetOf
<1>2. Target(t)' = IF Pushing(t)' THEN t ELSE cursor'[t]
  BY ConstantsAssumption DEF IInv, TypeOK, Control, Room, Target, Pushing, Threads
<1>3. Pushing(t)' = Pushing(t)
  BY DEF Pushing
<1>4. QED
  BY <1>1, <1>2, <1>3

\* Every step that the holder of the accumulator's mutex takes inside the
\* critical section brings it nearer to mutex_unlock, for windows of any size:
\* the loop of _obsolate_records and the one over the accumulators end.
THEOREM CriticalSectionEnds == Spec => CriticalSectionShrinks
<1>1. ASSUME IInv, IInv', [Next]_vars, NEW t \in Threads, mutex = t, mutex' = t,
             <<pc[t], cursor[t]>>' # <<pc[t], cursor[t]>>
      PROVE  \/ cursor'[t] > cursor[t]
             \/ cursor'[t] = cursor[t] /\ Work(t)' < Work(t)
  <2> DEFINE a == Target(t)
  <2> USE ConstantsAssumption
  <2>a. /\ pc \in [Threads -> Labels] /\ cursor \in [Threads -> Listeners]
        /\ window \in [Listeners -> Seq(Records)] /\ a \in Listeners
        /\ pc[t] \in Inside /\ mutex # Nobody /\ t # Nobody
        /\ Len(window[a]) \in Nat
    BY <1>1, TargetOf, LenProperties DEF IInv, TypeOK, Control
  <2>b. ASSUME hand' = hand, cursor'[t] = cursor[t], pc'[t] # "unlock"
        PROVE  Work(t)' = 8 * Len(window'[a]) + Weight(pc'[t])
    BY <1>1, <2>b, TargetStays DEF Work
  <2>c. pc[t] # "unlock" => Work(t) = 8 * Len(window[a]) + Weight(pc[t])
    BY DEF Work
  <2>d. pc'[t] = "unlock" => Work(t)' = 0
    BY DEF Work
  \* A record leaves the window for the hands of the thread.
  <2>e. ASSUME TakeOldest(t), window[a] # << >>, pc[t] \in {"push", "obsolate"}
        PROVE  cursor'[t] = cursor[t] /\ Work(t)' < Work(t)
    <3>1. /\ cursor' = cursor /\ hand' = hand /\ pc'[t] = "subtract"
          /\ window'[a] = Tail(window[a])
      BY <2>a, <2>e DEF TakeOldest, Goto
    <3>2. Len(Tail(window[a])) = Len(window[a]) - 1
      BY <2>a, <2>e, HeadTailProperties
    <3>3. Work(t)' = 8 * (Len(window[a]) - 1) + 7
      BY <2>b, <3>1, <3>2 DEF Weight
    <3>4. Work(t) = 8 * Len(window[a]) + 3 \/ Work(t) = 8 * Len(window[a]) + 8
      BY <2>a, <2>c, <2>e DEF Weight
    <3>5. QED
      BY <2>a, <3>1, <3>3, <3>4
  \* The thread goes on to a label of less weight, and the window stays.
  <2>f. ASSUME cursor' = cursor, hand' = hand, window' = window, pc[t] # "unlock",
               pc'[t] = "unlock" \/ Weight(pc'[t]) < Weight(pc[t]),
               Weight(pc[t]) \in Nat \ {0}, Weight(pc'[t]) \in Nat
        PROVE  cursor'[t] = cursor[t] /\ Work(t)' < Work(t)
    BY <2>a, <2>b, <2>c, <2>d, <2>f
  <2>1. ASSUME NEW l \in Listeners, Push(l), l = t
        PROVE  cursor'[t] = cursor[t] /\ Work(t)' < Work(t)
    <3>1. CASE Len(window[a]) = PufferSize
      <4>1. window[a] # << >>
        BY <3>1, <2>a, EmptySeq
      <4>2. QED
        BY <2>1, <2>e, <3>1, <4>1 DEF Push
    <3>2. CASE Len(window[a]) # PufferSize
      <4>1. /\ pc[t] = "push" /\ pc'[t] = "add"
            /\ cursor' = cursor /\ hand' = hand /\ window' = window
        BY <2>1, <2>a, <3>2 DEF Push, Goto
      <4>2. QED
        BY <2>f, <4>1 DEF Weight
    <3>3. QED
      BY <3>1, <3>2
  <2>2. ASSUME NEW l \in Listeners, AddItems(l), l = t
        PROVE  cursor'[t] = cursor[t] /\ Work(t)' < Work(t)
    <3>1. /\ pc[t] = "add" /\ pc'[t] = "write"
          /\ cursor' = cursor /\ hand' = hand /\ window' = window
      BY <2>2, <2>a DEF AddItems, Goto
    <3>2. QED
      BY <2>f, <3>1 DEF Weight
  <2>3. ASSUME NEW l \in Listeners, Write(l), l = t
        PROVE  cursor'[t] = cursor[t] /\ Work(t)' < Work(t)
    <3>1. pc[t] = "write" /\ pc'[t] = "unlock" /\ cursor' = cursor
      BY <2>3, <2>a DEF Write, Goto
    <3>2. QED
      BY <2>a, <2>c, <2>d, <3>1 DEF Weight
  <2>4. ASSUME ObsolateOne(t)
        PROVE  cursor'[t] = cursor[t] /\ Work(t)' < Work(t)
    <3>1. Target(t) = cursor[t]
      BY <1>1, <2>4, TargetOf DEF ObsolateOne
    <3>2. QED
      BY <2>4, <2>e, <3>1 DEF ObsolateOne
  <2>5. ASSUME ObsolateDone(t)
        PROVE  \/ cursor'[t] > cursor[t]
               \/ cursor'[t] = cursor[t] /\ Work(t)' < Work(t)
    <3>1. CASE t # Relayer /\ cursor[t] + 1 < ListenerNum
      BY <2>5, <2>a, <3>1 DEF ObsolateDone, Listeners
    <3>2. CASE t = Relayer \/ cursor[t] + 1 = ListenerNum
      <4>1. /\ pc[t] = "obsolate" /\ pc'[t] \in {"copy", "unlock"}
            /\ cursor' = cursor /\ hand' = hand /\ window' = window
        BY <2>5, <2>a, <3>2 DEF ObsolateDone, Goto
      <4>2. QED
        BY <2>f, <4>1 DEF Weight
    <3>3. QED
      BY <2>5, <3>1, <3>2 DEF ObsolateDone
  <2>6. ASSUME Subtract(t)
        PROVE  cursor'[t] = cursor[t] /\ Work(t)' < Work(t)
    <3>1. /\ pc[t] = "subtract" /\ pc'[t] = "recycle"
          /\ cursor' = cursor /\ hand' = hand /\ window' = window
      BY <2>6, <2>a DEF Subtract, Goto
    <3>2. QED
      BY <2>f, <3>1 DEF Weight
  <2>7. ASSUME Recycle(t)
        PROVE  cursor'[t] = cursor[t] /\ Work(t)' < Work(t)
    <3>1. /\ pc[t] = "recycle" /\ pc'[t] \in {"add", "obsolate"}
          /\ cursor' = cursor /\ hand' = hand /\ window' = window
      BY <2>7, <2>a DEF Recycle, Goto
    <3>2. QED
      BY <2>f, <3>1 DEF Weight
  <2>8. ASSUME Copy, t = Relayer
        PROVE  cursor'[t] = cursor[t] /\ Work(t)' < Work(t)
    <3>1. /\ pc[t] = "copy" /\ pc'[t] = "unlock"
          /\ cursor' = cursor /\ hand' = hand /\ window' = window
      BY <2>8, <2>a DEF Copy, Goto
    <3>2. QED
      BY <2>f, <3>1 DEF Weight
  \* Nobody else moves the thread, and inside it does nothing else.
  <2>9. \/ \E l \in Listeners : l = t /\ (Push(l) \/ AddItems(l) \/ Write(l))
        \/ ObsolateOne(t) \/ ObsolateDone(t) \/ Subtract(t) \/ Recycle(t)
        \/ Copy /\ t = Relayer
    <3> DEFINE Still == pc'[t] = pc[t] /\ cursor'[t] = cursor[t]
    <3>1. ~ Still
      BY <1>1
    <3>2. Tick => Still
      BY DEF Tick
    <3>3. \A l \in Listeners : Impulse(l) \/ Sniff(l) => Still
      BY <2>a DEF Impulse, Sniff, Goto, Inside, Threads
    <3>4. Request => Still
      BY <2>a DEF Request, Goto, Inside, Threads
    <3>5. \A u \in Threads : Lock(u) => FALSE
      BY <1>1, <2>a DEF Lock
    <3>6. \A u \in Threads : Unlock(u) => FALSE
      BY <1>1, <2>a DEF Unlock
    <3>7. \A l \in Listeners : (Push(l) \/ AddItems(l) \/ Write(l)) /\ l # t => Still
      BY <2>a DEF Push, AddItems, Write, TakeOldest, Goto, Threads
    <3>8. \A u \in Threads : u # t /\ (ObsolateOne(u) \/ ObsolateDone(u) \/ Subtract(u)
                                       \/ Recycle(u)) => Still
      BY <2>a DEF ObsolateOne, ObsolateDone, Subtract, Recycle, TakeOldest, Goto
    <3>9. Copy /\ t # Relayer => Still
      BY <2>a DEF Copy, Goto, Threads
    <3>10. UNCHANGED vars => Still
      BY DEF vars
    <3>11. QED
      BY <1>1, <3>1, <3>2, <3>3, <3>4, <3>5, <3>6, <3>7, <3>8, <3>9, <3>10
      DEF Next, Sniffer, Critical
  <2>10. QED
    BY <2>1, <2>2, <2>3, <2>4, <2>5, <2>6, <2>7, <2>8, <2>9
<1>2. IInv /\ IInv' /\ [Next]_vars =>
        [\A t \in Threads :
            mutex = t /\ mutex' = t /\ <<pc[t], cursor[t]>>' # <<pc[t], cursor[t]>> =>
                \/ cursor'[t] > cursor[t]
                \/ cursor'[t] = cursor[t] /\ Work(t)' < Work(t)]_vars
  BY <1>1
<1>3. QED
  BY <1>2, Invariance, PTL DEF Spec, CriticalSectionShrinks

-----------------------------------------------------------------------------
(***************************************************************************)
(* The sums.  The records of a window are its listener's, in the order of  *)
(* their stamps, and the result of a listener is exact at every moment     *)
(* another thread can read it.  Both rest on the ownership of records:     *)
(* nothing changes a record in a window.                                   *)
(***************************************************************************)

\* The stamps of the records of a listener, up to the one in its sniffer's hand.
Stamps ==
    /\ WindowOrdered
    /\ \A l \in Listeners :
         /\ \A i \in 1 .. Len(window[l]) :
              /\ data[window[l][i]].timestamp <= now
              /\ hand[l] # NoRecord =>
                     data[window[l][i]].timestamp <= data[hand[l]].timestamp
         /\ hand[l] # NoRecord => data[hand[l]].timestamp <= now

\* The total of a listener before the records that its result still counts.
Base(l) ==
    IF window[l] # << >> THEN Before(Head(window[l]))
    ELSE IF pc[l] = "write" THEN Before(hand[l])
    ELSE total[l]

\* Some thread has taken a record out of the window and not subtracted it yet.
Owing(l) == mutex # Nobody /\ pc[mutex] = "subtract" /\ Target(mutex) = l

\* Every record of a window starts where the one before it ended.
Chained(l) ==
    \A i \in 1 .. Len(window[l]) - 1 : Before(window[l][i + 1]) = data[window[l][i]].mark

\* The newest record ends at the total, or where the one about to follow starts.
EndsAtTotal(l) ==
    /\ window[l] # << >> => data[window[l][Len(window[l])]].mark =
                                IF pc[l] = "write" THEN Before(hand[l]) ELSE total[l]
    /\ pc[l] = "write" => data[hand[l]].mark = total[l]

\* The result, before and after a record that left the window is subtracted.
Counts(l) ==
    IF Owing(l)
    THEN /\ result[l] = Minus(total[l], Before(victim[mutex]))
         /\ data[victim[mutex]].mark = Base(l)
    ELSE result[l] = Minus(total[l], Base(l))

\* ResultIsGrowthOfTotal at every step of the critical section.
Sums == \A l \in Listeners : Chained(l) /\ EndsAtTotal(l) /\ Counts(l)

JInv == IInv /\ Stamps /\ Sums

LEMMA InitJInv == Init => JInv
<1> SUFFICES ASSUME Init PROVE JInv
  OBVIOUS
<1>1. \A l \in Listeners : window[l] = << >> /\ Len(window[l]) = 0 /\ hand[l] = NoRecord
  BY EmptySeq DEF Init
<1>2. Stamps
  BY <1>1 DEF Stamps, WindowOrdered
<1>3. \A l \in Listeners : pc[l] = "idle" /\ result[l] = 0 /\ total[l] = 0 /\ mutex = Nobody
  BY DEF Init, Threads
<1>4. Minus(0, 0) = 0
  BY DEF Minus
<1>5. Sums
  BY <1>1, <1>3, <1>4 DEF Sums, Chained, EndsAtTotal, Counts, Base, Owing
<1>6. QED
  BY <1>2, <1>5, InitIInv DEF JInv

-----------------------------------------------------------------------------
(***************************************************************************)
(* Facts the steps share.                                                  *)
(***************************************************************************)

LEMMA WindowElements ==
    IInv => \A l \in Listeners :
        /\ window[l] \in Seq(Records) /\ Len(window[l]) \in Nat
        /\ \A i \in 1 .. Len(window[l]) :
             window[l][i] \in Records /\ Has(window[l], window[l][i])
        /\ window[l] # << >> => /\ Len(window[l]) \in 1 .. Len(window[l])
                                /\ 1 \in 1 .. Len(window[l])
                                /\ Head(window[l]) = window[l][1]
<1> SUFFICES ASSUME IInv, NEW l \in Listeners
             PROVE  /\ window[l] \in Seq(Records) /\ Len(window[l]) \in Nat
                    /\ \A i \in 1 .. Len(window[l]) :
                         window[l][i] \in Records /\ Has(window[l], window[l][i])
                    /\ window[l] # << >> => /\ Len(window[l]) \in 1 .. Len(window[l])
                                            /\ 1 \in 1 .. Len(window[l])
                                            /\ Head(window[l]) = window[l][1]
  OBVIOUS
<1>1. window[l] \in Seq(Records)
  BY DEF IInv, TypeOK
<1>2. Len(window[l]) \in Nat /\ \A i \in 1 .. Len(window[l]) : window[l][i] \in Records
  BY <1>1, LenProperties, ElementOfSeq
<1>3. window[l] # << >> => Len(window[l]) # 0 /\ Head(window[l]) = window[l][1]
  BY <1>1, EmptySeq, HeadTailProperties
<1>4. QED
  BY <1>1, <1>2, <1>3 DEF Has

\* Subtracting what was added, in the arithmetic of a word.
LEMMA WordArithmetic ==
    ASSUME NEW a \in Word, NEW b \in Word, NEW c \in Word
    PROVE  /\ Minus(Plus(a, b), b) = a
           /\ Minus(Plus(a, b), a) = b
           /\ Plus(Minus(a, b), c) = Minus(Plus(a, c), b)
           /\ Minus(Minus(a, Minus(b, c)), c) = Minus(a, b)
           /\ Minus(a, a) = 0
BY ConstantsAssumption DEF Word, Plus, Minus

\* A step that changes no record that is in a window or in a hand.
LEMMA StampsStay ==
    ASSUME JInv, now <= now', now' \in Nat, UNCHANGED <<hand, window>>,
           \A l \in Listeners :
               /\ \A i \in 1 .. Len(window[l]) :
                    /\ data'[window[l][i]].timestamp = data[window[l][i]].timestamp
                    /\ data'[window[l][i]].listener_id = data[window[l][i]].listener_id
               /\ hand[l] # NoRecord =>
                    data'[hand[l]].timestamp = data[hand[l]].timestamp
    PROVE  Stamps'
<1>1. \A l \in Listeners :
        /\ \A i \in 1 .. Len(window[l]) : data[window[l][i]].timestamp \in Nat
        /\ hand[l] # NoRecord => data[hand[l]].timestamp \in Nat
  BY WindowElements DEF JInv, IInv, TypeOK, Content, Time
<1>2. now \in Nat
  BY DEF JInv, IInv, TypeOK, Time
<1>3. WindowOrdered'
  BY DEF JInv, Stamps, WindowOrdered
<1>4. \A l \in Listeners :
        /\ \A i \in 1 .. Len(window[l]) :
             /\ data[window[l][i]].timestamp <= now
             /\ hand[l] # NoRecord => data[window[l][i]].timestamp <= data[hand[l]].timestamp
        /\ hand[l] # NoRecord => data[hand[l]].timestamp <= now
  BY DEF JInv, Stamps
<1>5. QED
  BY <1>1, <1>2, <1>3, <1>4 DEF Stamps

\* A step that leaves the sums and the records they are made of.
LEMMA SumsStay ==
    ASSUME JInv, UNCHANGED <<window, result, total>>,
           \A l \in Listeners :
               /\ \A i \in 1 .. Len(window[l]) : data'[window[l][i]] = data[window[l][i]]
               /\ pc'[l] = "write" <=> pc[l] = "write"
               /\ pc[l] = "write" => hand'[l] = hand[l] /\ data'[hand[l]] = data[hand[l]]
               /\ Owing(l)' <=> Owing(l)
               /\ Owing(l) => mutex' = mutex /\ victim'[mutex] = victim[mutex]
                              /\ data'[victim[mutex]] = data[victim[mutex]]
    PROVE  Sums'
<1>1. \A l \in Listeners :
        /\ \A i \in 1 .. Len(window[l]) :
             (Before(window[l][i]))' = Before(window[l][i])
        /\ window[l] # << >> => Before(Head(window[l]))' = Before(Head(window[l]))
        /\ pc[l] = "write" => Before(hand[l])' = Before(hand[l])
        /\ Owing(l) => Before(victim[mutex])' = Before(victim[mutex])
  BY WindowElements DEF JInv, Before
<1>2. \A l \in Listeners : Base(l)' = Base(l)
  BY <1>1 DEF Base
<1>3. \A l \in Listeners : \A i \in 1 .. Len(window[l]) - 1 :
        i \in 1 .. Len(window[l]) /\ i + 1 \in 1 .. Len(window[l])
  BY WindowElements DEF JInv
<1>4. \A l \in Listeners : window[l] # << >> => Len(window[l]) \in 1 .. Len(window[l])
  BY WindowElements DEF JInv
<1>5. ASSUME NEW l \in Listeners PROVE Chained(l)' /\ EndsAtTotal(l)' /\ Counts(l)'
  <2>1. Chained(l) /\ EndsAtTotal(l) /\ Counts(l)
    BY DEF JInv, Sums
  <2>2. Chained(l)'
    BY <1>1, <1>3, <2>1 DEF Chained
  <2>3. EndsAtTotal(l)'
    BY <1>1, <1>4, <2>1 DEF EndsAtTotal
  <2>4. Counts(l)'
    BY <1>1, <1>2, <2>1 DEF Counts
  <2>5. QED
    BY <2>2, <2>3, <2>4
<1>6. QED
  BY <1>5 DEF Sums

\* A step of a thread that holds the mutex after it or before it, and neither
\* takes, subtracts nor adds: nobody owes a subtraction.
LEMMA QuietJInv ==
    ASSUME JInv, NEW t \in Threads, NEW label \in Labels \ {"subtract", "write"},
           pc[t] \notin {"subtract", "write"},
           pc' = [pc EXCEPT ![t] = label],
           mutex' = mutex \/ (mutex = t /\ mutex' = Nobody) \/ (mutex = Nobody /\ mutex' = t),
           mutex = t \/ mutex' = t \/ (UNCHANGED <<mutex, cursor>> /\ t # mutex),
           UNCHANGED <<now, hand, victim, data, window, result, total>>
    PROVE  Stamps' /\ Sums'
<1> USE ConstantsAssumption
<1>1. Stamps'
  <2>1. now \in Nat
    BY DEF JInv, IInv, TypeOK, Time
  <2>2. QED
    BY <2>1, StampsStay
<1>2. pc \in [Threads -> Labels] /\ \A u \in Threads : pc'[u] = IF u = t THEN label ELSE pc[u]
  BY DEF JInv, IInv, TypeOK
<1>3. \A l \in Listeners : pc'[l] = "write" <=> pc[l] = "write"
  BY <1>2 DEF Threads
<1>4. \A l \in Listeners : Owing(l)' <=> Owing(l)
  <2>1. CASE mutex = t \/ mutex' = t
    <3>1. \A l \in Listeners : ~ Owing(l) /\ ~ Owing(l)'
      BY <1>2, <2>1 DEF Owing
    <3>2. QED
      BY <3>1
  <2>2. CASE UNCHANGED <<mutex, cursor>> /\ t # mutex
    <3>1. mutex # Nobody => mutex \in Threads
      BY DEF JInv, IInv, TypeOK
    <3>2. mutex # Nobody => pc'[mutex] = pc[mutex] /\ Target(mutex)' = Target(mutex)
      BY <1>2, <2>2, <3>1 DEF Target, Pushing
    <3>3. QED
      BY <2>2, <3>2 DEF Owing
  <2>3. QED
    BY <2>1, <2>2
<1>5. \A l \in Listeners : Owing(l) => mutex' = mutex
  BY <1>2 DEF Owing
<1>6. Sums'
  BY <1>3, <1>4, <1>5, SumsStay
<1>7. QED
  BY <1>1, <1>6

\* The same for a thread that is inside the critical section.
LEMMA QuietInside ==
    ASSUME JInv, NEW t \in Threads, NEW label \in Labels \ {"subtract", "write"},
           mutex = t, pc[t] # "subtract", pc[t] # "write",
           pc' = [pc EXCEPT ![t] = label],
           mutex' = t \/ mutex' = Nobody,
           UNCHANGED <<now, hand, victim, data, window, result, total>>
    PROVE  Stamps' /\ Sums'
<1>1. pc[t] \notin {"subtract", "write"}
  OBVIOUS
<1>2. mutex' = mutex \/ (mutex = t /\ mutex' = Nobody) \/ (mutex = Nobody /\ mutex' = t)
  OBVIOUS
<1>3. mutex = t \/ mutex' = t \/ (UNCHANGED <<mutex, cursor>> /\ t # mutex)
  OBVIOUS
<1>4. QED
  BY <1>1, <1>2, <1>3, QuietJInv

-----------------------------------------------------------------------------
(***************************************************************************)
(* The steps that change a window, a sum or a record.                      *)
(***************************************************************************)

\* The oldest record leaves: its listener owes its item.
LEMMA TakeOldestJInv ==
    ASSUME JInv, NEW t \in Threads, pc[t] \in {"push", "obsolate"},
           window[Target(t)] # << >>, TakeOldest(t)
    PROVE  Stamps' /\ Sums'
<1> USE ConstantsAssumption
<1>1. PICK a \in Listeners : Target(t) = a
  BY TargetOf DEF JInv
<1>2. /\ victim' = [victim EXCEPT ![t] = Head(window[a])]
      /\ window' = [window EXCEPT ![a] = Tail(window[a])]
      /\ pc' = [pc EXCEPT ![t] = "subtract"]
      /\ UNCHANGED <<now, mutex, cursor, hand, data, heap, pool, result, total,
                     report, asked>>
  BY <1>1 DEF TakeOldest, Goto, memory, sums
<1>3. /\ window[a] \in Seq(Records) /\ window[a] # << >>
      /\ Len(window[a]) \in Nat /\ Len(window[a]) > 0 /\ Head(window[a]) = window[a][1]
      /\ Tail(window[a]) \in Seq(Records) /\ Len(Tail(window[a])) = Len(window[a]) - 1
      /\ \A i \in 1 .. Len(window[a]) - 1 : Tail(window[a])[i] = window[a][i + 1]
      /\ Tail(window[a]) # << >> => /\ Len(window[a]) > 1
                                    /\ Head(Tail(window[a])) = window[a][2]
  <2>1. window[a] \in Seq(Records) /\ window[a] # << >>
    BY <1>1 DEF JInv, IInv, TypeOK
  <2>2. /\ Len(window[a]) \in Nat /\ Len(window[a]) > 0 /\ Head(window[a]) = window[a][1]
        /\ Tail(window[a]) \in Seq(Records) /\ Len(Tail(window[a])) = Len(window[a]) - 1
        /\ \A i \in 1 .. Len(window[a]) - 1 : Tail(window[a])[i] = window[a][i + 1]
    BY <2>1, HeadTailProperties, EmptySeq, LenProperties
  <2>3. Tail(window[a]) # << >> => /\ Len(Tail(window[a])) > 0
                                   /\ Head(Tail(window[a])) = Tail(window[a])[1]
    BY <2>2, HeadTailProperties, EmptySeq, LenProperties
  <2>4. QED
    BY <2>1, <2>2, <2>3
<1>4. /\ window \in [Listeners -> Seq(Records)]
      /\ window'[a] = Tail(window[a])
      /\ \A l \in Listeners : l # a => window'[l] = window[l]
  BY <1>2 DEF JInv, IInv, TypeOK
<1>5. /\ mutex = t /\ pc'[t] = "subtract" /\ victim'[t] = window[a][1]
      /\ pc[t] # "subtract" /\ t # Nobody
      /\ \A l \in Listeners : pc[l] # "write" /\ pc'[l] # "write"
  <2>1. mutex = t
    BY DEF JInv, IInv, Control, Inside
  <2>2. pc' \in [Threads -> Labels] /\ pc'[t] = "subtract" /\ victim'[t] = window[a][1]
        /\ \A u \in Threads : u # t => pc'[u] = pc[u]
    BY <1>2, <1>3 DEF JInv, IInv, TypeOK, Labels
  <2>3. \A l \in Listeners : pc[l] # "write"
    BY <2>1 DEF JInv, IInv, Control, Inside, Threads
  <2>4. QED
    BY <2>1, <2>2, <2>3 DEF Threads
<1>6. Stamps'
  <2>1. \A i \in 1 .. Len(window'[a]) :
          i + 1 \in 1 .. Len(window[a]) /\ window'[a][i] = window[a][i + 1]
    BY <1>3, <1>4
  <2>2. \A i, j \in 1 .. Len(window'[a]) : i <= j => i + 1 <= j + 1
    OBVIOUS
  <2>3. UNCHANGED <<now, hand, data>>
    BY <1>2
  <2>4. Stamps
    BY DEF JInv
  <2>5. \A i \in 1 .. Len(window'[a]) :
          /\ data'[window'[a][i]].listener_id = a
          /\ data'[window'[a][i]].timestamp <= now'
          /\ hand'[a] # NoRecord => data'[window'[a][i]].timestamp <= data'[hand'[a]].timestamp
    BY <2>1, <2>3, <2>4 DEF Stamps, WindowOrdered
  <2>6. \A i, j \in 1 .. Len(window'[a]) : i <= j =>
          data'[window'[a][i]].timestamp <= data'[window'[a][j]].timestamp
    BY <2>1, <2>2, <2>3, <2>4 DEF Stamps, WindowOrdered
  <2>7. ASSUME NEW l \in Listeners, l # a
        PROVE  /\ \A i, j \in 1 .. Len(window'[l]) :
                    /\ data'[window'[l][i]].listener_id = l
                    /\ i <= j => data'[window'[l][i]].timestamp <= data'[window'[l][j]].timestamp
               /\ \A i \in 1 .. Len(window'[l]) :
                    /\ data'[window'[l][i]].timestamp <= now'
                    /\ hand'[l] # NoRecord =>
                           data'[window'[l][i]].timestamp <= data'[hand'[l]].timestamp
    BY <1>4, <2>3, <2>4, <2>7 DEF Stamps, WindowOrdered
  <2>8. \A l \in Listeners : hand'[l] # NoRecord => data'[hand'[l]].timestamp <= now'
    BY <2>3, <2>4 DEF Stamps
  <2>9. QED
    BY <2>5, <2>6, <2>7, <2>8 DEF Stamps, WindowOrdered
<1>7. ASSUME NEW l \in Listeners PROVE Chained(l)' /\ EndsAtTotal(l)' /\ Counts(l)'
  <2>1. Chained(l) /\ EndsAtTotal(l) /\ Counts(l) /\ ~ Owing(l)
    BY <1>5 DEF JInv, Sums, Owing
  <2>2. \A r : Before(r)' = Before(r)
    BY <1>2 DEF Before
  <2>3. Target(t)' = a
    BY <1>1, <1>2 DEF Target, Pushing
  <2>4. Owing(l)' <=> l = a
    BY <1>2, <1>5, <2>3 DEF Owing
  <2>5. CASE l # a
    BY <1>2, <1>4, <1>5, <2>1, <2>2, <2>4, <2>5 DEF Chained, EndsAtTotal, Counts, Base
  <2>6. CASE l = a
    <3>1. Chained(a)'
      <4>1. \A i \in 1 .. Len(window'[a]) - 1 :
              /\ i + 1 \in 1 .. Len(window[a]) - 1
              /\ window'[a][i] = window[a][i + 1] /\ window'[a][i + 1] = window[a][(i + 1) + 1]
        BY <1>3, <1>4
      <4>2. QED
        BY <1>2, <2>1, <2>2, <2>6, <4>1 DEF Chained
    <3>2. EndsAtTotal(a)'
      <4>1. window'[a] # << >> => window'[a][Len(window'[a])] = window[a][Len(window[a])]
        BY <1>3, <1>4
      <4>2. QED
        BY <1>2, <1>3, <1>5, <2>1, <2>6, <4>1 DEF EndsAtTotal
    <3>3. Base(a)' = data[window[a][1]].mark
      <4>1. CASE Tail(window[a]) # << >>
        <5>1. 1 \in 1 .. Len(window[a]) - 1
          BY <1>3, <4>1
        <5>2. Before(window[a][1 + 1]) = data[window[a][1]].mark
          BY <2>1, <2>6, <5>1 DEF Chained
        <5>3. window'[a] # << >> /\ Head(window'[a]) = window[a][1 + 1]
          BY <1>3, <1>4, <4>1
        <5>a. data' = data
          BY <1>2
        <5>4. Base(a)' = Before(window[a][1 + 1])
          BY <5>3, <5>a, Zenon DEF Base, Before
        <5>5. QED
          BY <5>2, <5>4
      <4>2. CASE Tail(window[a]) = << >>
        <5>a. Len(Tail(window[a])) = 0
          BY <4>2, EmptySeq
        <5>1. Len(window[a]) = 1
          BY <1>3, <5>a
        <5>2. data[window[a][1]].mark = total[a]
          BY <1>3, <1>5, <2>1, <2>6, <5>1 DEF EndsAtTotal
        <5>3. QED
          BY <1>1, <1>2, <1>4, <1>5, <4>2, <5>2 DEF Base
      <4>3. QED
        BY <4>1, <4>2
    <3>4. result[a] = Minus(total[a], Before(window[a][1]))
      BY <1>3, <2>1, <2>6 DEF Counts, Base
    <3>5. Counts(a)'
      BY <1>2, <1>5, <2>2, <2>4, <2>6, <3>3, <3>4 DEF Counts
    <3>6. QED
      BY <2>6, <3>1, <3>2, <3>5
  <2>7. QED
    BY <2>5, <2>6
<1>8. QED
  BY <1>6, <1>7 DEF Sums

\* A new record, stamped now, is no older than any of its listener's window.
LEMMA SniffJInv ==
    ASSUME JInv, NEW l \in Listeners, Sniff(l) PROVE Stamps' /\ Sums'
<1> USE ConstantsAssumption
<1>1. PICK r \in Records, value \in Values :
        /\ IF pool = << >> THEN r \notin heap ELSE r = Head(pool)
        /\ data' = [data EXCEPT ![r] = [listener_id |-> l, timestamp |-> now,
                                        item |-> value, mark |-> 0]]
        /\ hand' = [hand EXCEPT ![l] = r]
  BY DEF Sniff
<1>2. /\ pc[l] = "idle" /\ pc' = [pc EXCEPT ![l] = "lock"] /\ hand[l] = NoRecord
      /\ UNCHANGED <<now, mutex, cursor, victim, window, result, total>>
  BY DEF Sniff, Goto, sums, JInv, IInv, Control
<1>3. r \notin heap \/ Has(pool, r)
  BY <1>1, TailHas DEF JInv, IInv, TypeOK, NoRepeats
<1>4. /\ \A m \in Listeners : hand[m] # r /\ ~ Has(window[m], r)
      /\ \A t \in Threads : victim[t] # r
  BY <1>3 DEF JInv, IInv, Owned
<1>5. \A m \in Listeners : \A i \in 1 .. Len(window[m]) :
        window[m][i] \in Records /\ window[m][i] # r
  BY <1>4, WindowElements DEF JInv
<1>6. /\ data'[r].timestamp = now
      /\ \A q \in Records : q # r => data'[q] = data[q]
      /\ hand'[l] = r /\ \A m \in Listeners : m # l => hand'[m] = hand[m]
  BY <1>1 DEF JInv, IInv, TypeOK
<1>7. \A m \in Listeners : m # l /\ hand[m] # NoRecord =>
        hand[m] \in Records /\ data'[hand[m]] = data[hand[m]]
  BY <1>4, <1>6 DEF JInv, IInv, TypeOK
<1>8. Stamps'
  <2>1. Stamps /\ now' = now /\ now \in Nat /\ window' = window
    BY <1>2 DEF JInv, IInv, TypeOK, Time
  <2>2. WindowOrdered'
    BY <1>5, <1>6, <2>1 DEF Stamps, WindowOrdered
  <2>3. ASSUME NEW m \in Listeners
        PROVE  /\ \A i \in 1 .. Len(window'[m]) :
                    /\ data'[window'[m][i]].timestamp <= now'
                    /\ hand'[m] # NoRecord =>
                           data'[window'[m][i]].timestamp <= data'[hand'[m]].timestamp
               /\ hand'[m] # NoRecord => data'[hand'[m]].timestamp <= now'
    BY <1>5, <1>6, <1>7, <2>1 DEF Stamps
  <2>4. QED
    BY <2>2, <2>3 DEF Stamps
<1>9. Sums'
  <2>1. pc \in [Threads -> Labels] /\ l \in Threads
    BY DEF JInv, IInv, TypeOK, Threads
  <2>2. \A m \in Listeners : /\ pc'[m] = "write" <=> pc[m] = "write"
                             /\ pc[m] = "write" => m # l
    BY <1>2, <2>1 DEF Threads
  <2>3. \A m \in Listeners : pc[m] = "write" => hand[m] # NoRecord
    BY DEF JInv, IInv, Control
  <2>4. mutex # l
    BY <1>2, <2>1 DEF JInv, IInv, Control, Inside
  <2>5. mutex # Nobody => mutex \in Threads /\ pc'[mutex] = pc[mutex]
    BY <1>2, <2>1, <2>4 DEF JInv, IInv, TypeOK
  <2>6. mutex # Nobody => Target(mutex)' = Target(mutex)
    BY <1>2, <1>6, <1>7, <2>4, <2>5 DEF Target, Pushing
  <2>7. \A m \in Listeners : Owing(m)' <=> Owing(m)
    BY <1>2, <2>5, <2>6 DEF Owing
  <2>8. \A m \in Listeners : Owing(m) => data'[victim[mutex]] = data[victim[mutex]]
    <3>1. mutex # Nobody /\ pc[mutex] = "subtract" => victim[mutex] \in Records
      BY <2>5 DEF JInv, IInv, Control, TypeOK
    <3>2. QED
      BY <1>4, <1>6, <2>5, <3>1 DEF Owing
  <2>9. QED
    BY <1>2, <1>5, <1>6, <1>7, <2>2, <2>3, <2>7, <2>8, SumsStay
<1>10. QED
  BY <1>8, <1>9

\* A victim that goes to the pool or is freed is in no window and in no hand.
LEMMA RecycleJInv ==
    ASSUME JInv, NEW t \in Threads, Recycle(t) PROVE Stamps' /\ Sums'
<1> USE ConstantsAssumption
<1> DEFINE next == IF Pushing(t) THEN "add" ELSE "obsolate"
<1>0. PICK r \in Records : victim[t] = r
  BY DEF Recycle, JInv, IInv, TypeOK, Control
<1>1. /\ pc[t] = "recycle" /\ mutex = t /\ t # Nobody
      /\ \A l \in Listeners : hand[l] # r /\ ~ Has(window[l], r)
  BY <1>0 DEF Recycle, JInv, IInv, Control, Owned, Inside
<1>2. /\ data' = data \/ data' = [data EXCEPT ![r] = Clean]
      /\ pc' = [pc EXCEPT ![t] = next]
      /\ UNCHANGED <<now, mutex, cursor, hand, window, result, total>>
  BY <1>0 DEF Recycle, Goto, sums
<1>3. \A q \in Records : q # r => data'[q] = data[q]
  BY <1>2 DEF JInv, IInv, TypeOK
<1>4. \A l \in Listeners :
        /\ \A i \in 1 .. Len(window[l]) : data'[window[l][i]] = data[window[l][i]]
        /\ hand[l] # NoRecord => data'[hand[l]] = data[hand[l]]
  <2>1. \A l \in Listeners : hand[l] # NoRecord => hand[l] \in Records
    BY DEF JInv, IInv, TypeOK
  <2>2. \A l \in Listeners : \A i \in 1 .. Len(window[l]) :
          window[l][i] \in Records /\ window[l][i] # r
    BY <1>1, WindowElements DEF JInv
  <2>3. QED
    BY <1>1, <1>3, <2>1, <2>2
<1>5. Stamps'
  <2>1. now \in Nat
    BY DEF JInv, IInv, TypeOK, Time
  <2>2. QED
    BY <1>2, <1>4, <2>1, StampsStay
<1>6. Sums'
  <2>1. next \in {"add", "obsolate"}
    OBVIOUS
  <2> HIDE DEF next
  <2>2. pc \in [Threads -> Labels] /\ \A u \in Threads : pc'[u] = IF u = t THEN next ELSE pc[u]
    BY <1>2 DEF JInv, IInv, TypeOK
  <2>3. \A l \in Listeners : /\ pc'[l] = "write" <=> pc[l] = "write"
                             /\ pc[l] = "write" => hand[l] # NoRecord
    BY <1>1, <2>1, <2>2 DEF Threads, JInv, IInv, Control
  <2>4. \A l \in Listeners : ~ Owing(l) /\ ~ Owing(l)'
    BY <1>1, <1>2, <2>1, <2>2 DEF Owing
  <2>5. QED
    BY <1>2, <1>4, <2>3, <2>4, SumsStay
<1>7. QED
  BY <1>5, <1>6

\* The item of the record that left goes out of the result.
LEMMA SubtractJInv ==
    ASSUME JInv, NEW t \in Threads, Subtract(t) PROVE Stamps' /\ Sums'
<1> USE ConstantsAssumption
<1>0. PICK r \in Records, a \in Listeners : victim[t] = r /\ Target(t) = a
  BY TargetOf DEF Subtract, JInv, IInv, TypeOK, Control
<1>1. /\ pc[t] = "subtract" /\ mutex = t /\ t # Nobody
      /\ pc' = [pc EXCEPT ![t] = "recycle"]
      /\ result' = [result EXCEPT ![a] = Minus(result[a], data[r].item)]
      /\ UNCHANGED <<now, mutex, cursor, hand, victim, data, window, total>>
  BY <1>0 DEF Subtract, Goto, memory, JInv, IInv, Control, Inside
<1>2. Stamps'
  <2>1. now \in Nat
    BY DEF JInv, IInv, TypeOK, Time
  <2>2. QED
    BY <1>1, <2>1, StampsStay
<1>3. \A u \in Threads : pc'[u] = IF u = t THEN "recycle" ELSE pc[u]
  BY <1>1 DEF JInv, IInv, TypeOK
<1>4. ASSUME NEW l \in Listeners PROVE Chained(l)' /\ EndsAtTotal(l)' /\ Counts(l)'
  <2>1. Chained(l) /\ EndsAtTotal(l) /\ Counts(l)
    BY DEF JInv, Sums
  <2>2. pc'[l] = "write" <=> pc[l] = "write"
    BY <1>1, <1>3 DEF Threads
  <2>3. \A q : Before(q)' = Before(q)
    BY <1>1 DEF Before
  <2>4. Base(l)' = Base(l)
    BY <1>1, <2>2, <2>3 DEF Base
  <2>5. Chained(l)'
    BY <1>1, <2>1, <2>3 DEF Chained
  <2>6. EndsAtTotal(l)'
    BY <1>1, <2>1, <2>2, <2>3 DEF EndsAtTotal
  <2>7. ~ Owing(l)' /\ (Owing(l) <=> l = a)
    BY <1>0, <1>1, <1>3 DEF Owing
  <2>8. CASE l = a
    <3>1. result[a] = Minus(total[a], Before(r)) /\ data[r].mark = Base(a)
      BY <1>0, <1>1, <2>1, <2>7, <2>8 DEF Counts
    <3>2. total[a] \in Word /\ data[r].item \in Word /\ data[r].mark \in Word
      BY DEF JInv, IInv, TypeOK, Content
    <3>3. Minus(result[a], data[r].item) = Minus(total[a], data[r].mark)
      BY <3>1, <3>2, WordArithmetic DEF Before
    <3>4. result'[a] = Minus(total'[a], Base(a)')
      BY <1>1, <2>4, <2>8, <3>1, <3>3 DEF JInv, IInv, TypeOK
    <3>5. QED
      BY <2>5, <2>6, <2>7, <2>8, <3>4 DEF Counts
  <2>9. CASE l # a
    <3>1. result'[l] = result[l]
      BY <1>1, <2>9 DEF JInv, IInv, TypeOK
    <3>2. QED
      BY <1>1, <2>1, <2>4, <2>5, <2>6, <2>7, <2>9, <3>1 DEF Counts
  <2>10. QED
    BY <2>8, <2>9
<1>5. QED
  BY <1>2, <1>4 DEF Sums

\* The item of the record in the hand goes into both sums.
LEMMA AddItemsJInv ==
    ASSUME JInv, NEW l \in Listeners, AddItems(l) PROVE Stamps' /\ Sums'
<1> USE ConstantsAssumption
<1>0. PICK r \in Records, item \in Word, mark \in Word :
        /\ hand[l] = r /\ item = data[r].item /\ mark = Plus(total[l], item)
  BY WordClosed DEF AddItems, JInv, IInv, TypeOK, Control, Content
<1>1. pc[l] = "add" /\ l \in Threads /\ mutex = l /\ Target(l) = l /\ r # NoRecord
  BY TargetOf, <1>0 DEF AddItems, Threads, JInv, IInv, Control, Inside
<1>2. /\ pc' = [pc EXCEPT ![l] = "write"]
      /\ result' = [result EXCEPT ![l] = Plus(result[l], item)]
      /\ total' = [total EXCEPT ![l] = mark]
      /\ data' = [data EXCEPT ![r].mark = mark]
      /\ UNCHANGED <<now, mutex, cursor, hand, victim, window>>
  BY <1>0, <1>1 DEF AddItems, Goto
<1>3. /\ \A q \in Records : q # r => data'[q] = data[q]
      /\ data'[r].mark = mark /\ data'[r].item = item
      /\ data'[r].timestamp = data[r].timestamp
      /\ data'[r].listener_id = data[r].listener_id
  <2>1. data \in [Records -> Content] /\ data[r] \in Content
    BY DEF JInv, IInv, TypeOK
  <2>2. data' = [data EXCEPT ![r] = [data[r] EXCEPT !.mark = mark]]
    BY <1>2
  <2>3. data'[r] = [data[r] EXCEPT !.mark = mark]
    BY <2>1, <2>2
  <2>4. QED
    BY <1>0, <2>1, <2>2, <2>3 DEF Content
<1>4. \A m \in Listeners :
        /\ ~ Has(window[m], r)
        /\ hand[m] = r => m = l
        /\ hand[m] # NoRecord => hand[m] \in Records
  BY <1>0 DEF JInv, IInv, TypeOK, Owned
<1>5. \A m \in Listeners : \A i \in 1 .. Len(window[m]) :
        window[m][i] \in Records /\ data'[window[m][i]] = data[window[m][i]]
  BY <1>3, <1>4, WindowElements DEF JInv
<1>6. Stamps'
  <2>1. now \in Nat
    BY DEF JInv, IInv, TypeOK, Time
  <2>2. \A m \in Listeners : hand[m] # NoRecord =>
          data'[hand[m]].timestamp = data[hand[m]].timestamp
    BY <1>3, <1>4
  <2>3. QED
    BY <1>2, <1>5, <2>1, <2>2, StampsStay
<1>7. /\ \A u \in Threads : pc'[u] = IF u = l THEN "write" ELSE pc[u]
      /\ \A m \in Listeners : pc[m] # "write" /\ (pc'[m] = "write" <=> m = l)
      /\ \A m \in Listeners : ~ Owing(m) /\ ~ Owing(m)'
  <2>1. \A u \in Threads : pc'[u] = IF u = l THEN "write" ELSE pc[u]
    BY <1>2 DEF JInv, IInv, TypeOK
  <2>2. \A m \in Listeners : pc[m] # "write"
    BY <1>1 DEF JInv, IInv, Control, Inside, Threads
  <2>3. QED
    BY <1>1, <1>2, <2>1, <2>2 DEF Owing, Threads
<1>8. ASSUME NEW m \in Listeners PROVE Chained(m)' /\ EndsAtTotal(m)' /\ Counts(m)'
  <2>1. Chained(m) /\ EndsAtTotal(m) /\ Counts(m)
    BY DEF JInv, Sums
  <2>2. \A i \in 1 .. Len(window[m]) : Before(window[m][i])' = Before(window[m][i])
    BY <1>2, <1>5 DEF Before
  <2>3. /\ Len(window[m]) \in Nat
        /\ window[m] # << >> => /\ Len(window[m]) \in 1 .. Len(window[m])
                                /\ 1 \in 1 .. Len(window[m])
                                /\ Head(window[m]) = window[m][1]
    BY WindowElements DEF JInv
  <2>4. Chained(m)'
    <3>1. \A i \in 1 .. Len(window[m]) - 1 :
            i \in 1 .. Len(window[m]) /\ i + 1 \in 1 .. Len(window[m])
      BY <2>3
    <3>2. window' = window
      BY <1>2
    <3>3. ASSUME NEW i \in 1 .. Len(window[m]) - 1
          PROVE  Before(window[m][i + 1])' = data'[window[m][i]].mark
      <4>1. Before(window[m][i + 1]) = data[window[m][i]].mark
        BY <2>1 DEF Chained
      <4>2. QED
        BY <1>5, <2>2, <3>1, <4>1
    <3>4. QED
      BY <3>2, <3>3 DEF Chained, Before
  <2>5. window[m] # << >> => Before(Head(window[m]))' = Before(Head(window[m]))
    BY <1>2, <2>2, <2>3
  <2>6. CASE m # l
    <3>1. result'[m] = result[m] /\ total'[m] = total[m]
      BY <1>2, <2>6 DEF JInv, IInv, TypeOK
    <3>2. Base(m)' = Base(m)
      BY <1>2, <1>7, <2>5, <2>6, <3>1 DEF Base
    <3>a. window' = window /\ pc'[m] # "write" /\ pc[m] # "write"
      BY <1>2, <1>7, <2>6
    <3>b. window[m] # << >> => data'[window[m][Len(window[m])]].mark = total[m]
      BY <1>5, <2>1, <2>3, <3>a DEF EndsAtTotal
    <3>3. EndsAtTotal(m)'
      BY <3>1, <3>a, <3>b DEF EndsAtTotal
    <3>4. QED
      BY <1>7, <2>1, <2>4, <3>1, <3>2, <3>3 DEF Counts
  <2>7. CASE m = l
    <3>1. result'[l] = Plus(result[l], item) /\ total'[l] = mark /\ hand'[l] = r
      BY <1>0, <1>2 DEF JInv, IInv, TypeOK
    <3>2. /\ total[l] \in Word /\ result[l] \in Word
          /\ result[l] = Minus(total[l], Base(l))
      BY <1>7, <2>1, <2>7 DEF JInv, IInv, TypeOK, Counts
    <3>3. Before(r)' = total[l]
      BY <1>0, <1>3, <3>2, WordArithmetic DEF Before
    <3>a. window' = window /\ pc'[l] = "write" /\ pc[l] # "write" /\ hand' = hand /\ hand[l] = r
      BY <1>0, <1>2, <1>7
    <3>b. window[l] # << >> => data'[window[l][Len(window[l])]].mark = total[l]
      BY <1>5, <2>1, <2>3, <2>7, <3>a DEF EndsAtTotal
    <3>c. Before(hand[l])' = total[l]
      BY <3>3, <3>a DEF Before
    <3>4. EndsAtTotal(l)'
      BY <1>3, <3>1, <3>a, <3>b, <3>c DEF EndsAtTotal
    <3>5. Base(l) \in Word /\ Base(l)' = Base(l)
      <4>1. CASE window[l] = << >>
        BY <3>2, <3>a, <3>c, <4>1 DEF Base
      <4>2. CASE window[l] # << >>
        <5>1. Base(l) = Before(window[l][1]) /\ Base(l)' = Base(l)
          BY <1>2, <2>3, <2>5, <2>7, <4>2 DEF Base
        <5>2. data[window[l][1]] \in Content
          BY <1>5, <2>3, <2>7, <4>2 DEF JInv, IInv, TypeOK
        <5>3. QED
          BY <5>1, <5>2, WordClosed DEF Before, Content
      <4>3. QED
        BY <4>1, <4>2
    <3>6. Plus(result[l], item) = Minus(mark, Base(l))
      BY <1>0, <3>2, <3>5, WordArithmetic
    <3>7. QED
      BY <1>7, <2>4, <2>7, <3>1, <3>4, <3>5, <3>6, Zenon DEF Counts
  <2>8. QED
    BY <2>6, <2>7
<1>9. QED
  BY <1>6, <1>8 DEF Sums

\* The record follows the newest one of the window, whose stamp is no later and
\* whose mark is where this one starts.
LEMMA WriteJInv ==
    ASSUME JInv, NEW l \in Listeners, Write(l) PROVE Stamps' /\ Sums'
<1> USE ConstantsAssumption
<1>0. PICK r \in Records : hand[l] = r
  BY DEF Write, JInv, IInv, TypeOK, Control
<1>1. /\ pc[l] = "write" /\ l \in Threads /\ mutex = l /\ Target(l) = l
      /\ l # Nobody /\ r # NoRecord
  BY <1>0, TargetOf DEF Write, Threads, JInv, IInv, Control, Inside
<1>2. /\ window' = [window EXCEPT ![l] = Append(window[l], r)]
      /\ hand' = [hand EXCEPT ![l] = NoRecord]
      /\ pc' = [pc EXCEPT ![l] = "unlock"]
      /\ UNCHANGED <<now, mutex, cursor, data, result, total>>
  BY <1>0, <1>1 DEF Write, Goto, memory, sums
<1>3. /\ window \in [Listeners -> Seq(Records)] /\ hand \in [Listeners -> Records \cup {NoRecord}]
      /\ window'[l] = Append(window[l], r) /\ hand'[l] = NoRecord
      /\ \A m \in Listeners : m # l => window'[m] = window[m] /\ hand'[m] = hand[m]
  BY <1>2 DEF JInv, IInv, TypeOK
<1>4. /\ Len(window[l]) \in Nat /\ Len(window'[l]) = Len(window[l]) + 1
      /\ window'[l][Len(window[l]) + 1] = r
      /\ \A i \in 1 .. Len(window[l]) : window'[l][i] = window[l][i]
      /\ window'[l] # << >> /\ Head(window'[l]) = window'[l][1]
      /\ window[l] = << >> <=> Len(window[l]) = 0
  <2>1. window[l] \in Seq(Records) /\ window'[l] \in Seq(Records)
    BY <1>3, AppendProperties
  <2>2. /\ Len(window[l]) \in Nat /\ Len(window'[l]) = Len(window[l]) + 1
        /\ window'[l][Len(window[l]) + 1] = r
        /\ \A i \in 1 .. Len(window[l]) : window'[l][i] = window[l][i]
    BY <1>3, <2>1, AppendProperties, LenProperties
  <2>3. window'[l] # << >> /\ Head(window'[l]) = window'[l][1]
    BY <2>1, <2>2, EmptySeq, HeadTailProperties
  <2>4. window[l] = << >> <=> Len(window[l]) = 0
    BY <2>1, EmptySeq
  <2>5. QED
    BY <2>2, <2>3, <2>4
<1>5. \A i \in 1 .. Len(window'[l]) : i \in 1 .. Len(window[l]) \/ i = Len(window[l]) + 1
  BY <1>4
<1>6. /\ \A q : Before(q)' = Before(q)
      /\ data' = data /\ now' = now
  BY <1>2 DEF Before
<1>7. Stamps'
  <2>1. Stamps /\ data[r].listener_id = l
    BY <1>0, <1>1 DEF JInv, IInv, Room
  <2>2. \A i \in 1 .. Len(window'[l]) :
          /\ data[window'[l][i]].listener_id = l
          /\ data[window'[l][i]].timestamp <= now
    BY <1>0, <1>1, <1>4, <1>5, <2>1 DEF Stamps, WindowOrdered
  <2>3. \A i \in 1 .. Len(window[l]) : data[window[l][i]].timestamp <= data[r].timestamp
    BY <1>0, <1>1, <2>1 DEF Stamps
  <2>4. ASSUME NEW i \in 1 .. Len(window'[l]), NEW j \in 1 .. Len(window'[l]), i <= j
        PROVE  data[window'[l][i]].timestamp <= data[window'[l][j]].timestamp
    <3>1. CASE j \in 1 .. Len(window[l])
      <4>1. i \in 1 .. Len(window[l])
        BY <1>4, <2>4, <3>1
      <4>2. QED
        BY <1>4, <2>1, <2>4, <3>1, <4>1 DEF Stamps, WindowOrdered
    <3>2. CASE j = Len(window[l]) + 1 /\ i \in 1 .. Len(window[l])
      BY <1>4, <2>3, <3>2
    <3>3. CASE j = Len(window[l]) + 1 /\ i = Len(window[l]) + 1
      <4>1. data[r].timestamp \in Nat
        BY DEF JInv, IInv, TypeOK, Content, Time
      <4>2. QED
        BY <1>4, <3>3, <4>1
    <3>4. QED
      BY <1>5, <3>1, <3>2, <3>3
  <2>5. ASSUME NEW m \in Listeners, m # l
        PROVE  /\ \A i, j \in 1 .. Len(window'[m]) :
                    /\ data[window'[m][i]].listener_id = m
                    /\ i <= j => data[window'[m][i]].timestamp <= data[window'[m][j]].timestamp
               /\ \A i \in 1 .. Len(window'[m]) :
                    /\ data[window'[m][i]].timestamp <= now
                    /\ hand'[m] # NoRecord =>
                           data[window'[m][i]].timestamp <= data[hand'[m]].timestamp
               /\ hand'[m] # NoRecord => data[hand'[m]].timestamp <= now
    BY <1>3, <2>1, <2>5 DEF Stamps, WindowOrdered
  <2>6. QED
    BY <1>3, <1>6, <2>2, <2>4, <2>5 DEF Stamps, WindowOrdered
<1>8. /\ \A u \in Threads : pc'[u] = IF u = l THEN "unlock" ELSE pc[u]
      /\ \A m \in Listeners : (pc[m] = "write" <=> m = l) /\ pc'[m] # "write"
      /\ \A m \in Listeners : ~ Owing(m) /\ ~ Owing(m)'
  <2>1. \A u \in Threads : pc'[u] = IF u = l THEN "unlock" ELSE pc[u]
    BY <1>2 DEF JInv, IInv, TypeOK
  <2>2. \A m \in Listeners : pc[m] = "write" <=> m = l
    BY <1>1 DEF JInv, IInv, Control, Inside, Threads
  <2>3. QED
    BY <1>1, <1>2, <2>1, <2>2 DEF Owing, Threads
<1>9. ASSUME NEW m \in Listeners PROVE Chained(m)' /\ EndsAtTotal(m)' /\ Counts(m)'
  <2>1. Chained(m) /\ EndsAtTotal(m) /\ Counts(m)
    BY DEF JInv, Sums
  <2>2. UNCHANGED <<result, total>>
    BY <1>2
  <2>3. CASE m # l
    <3>1. window'[m] = window[m] /\ pc[m] # "write" /\ pc'[m] # "write"
      BY <1>3, <1>8, <2>3
    <3>2. Base(m)' = Base(m)
      BY <1>6, <2>2, <3>1 DEF Base
    <3>3. Chained(m)'
      BY <1>6, <2>1, <3>1 DEF Chained
    <3>4. EndsAtTotal(m)'
      BY <1>6, <2>1, <2>2, <3>1 DEF EndsAtTotal
    <3>5. QED
      BY <1>8, <2>1, <2>2, <3>2, <3>3, <3>4 DEF Counts
  <2>4. CASE m = l
    <3>1. data[r].mark = total[l]
      BY <1>0, <1>8, <2>1, <2>4 DEF EndsAtTotal
    <3>2. window[l] # << >> => data[window[l][Len(window[l])]].mark = Before(r)
      BY <1>0, <1>8, <2>1, <2>4 DEF EndsAtTotal
    <3>3. ASSUME NEW i \in 1 .. Len(window'[l]) - 1
          PROVE  Before(window'[l][i + 1]) = data[window'[l][i]].mark
      <4>1. CASE i + 1 \in 1 .. Len(window[l])
        <5>1. i \in 1 .. Len(window[l]) - 1 /\ i \in 1 .. Len(window[l])
          BY <1>4, <4>1
        <5>2. Before(window[l][i + 1]) = data[window[l][i]].mark
          BY <2>1, <2>4, <5>1 DEF Chained
        <5>3. QED
          BY <1>4, <4>1, <5>1, <5>2
      <4>2. CASE i = Len(window[l])
        <5>1. window[l] # << >> /\ i \in 1 .. Len(window[l])
          BY <1>4, <4>2
        <5>2. QED
          BY <1>4, <3>2, <4>2, <5>1
      <4>3. QED
        BY <1>4, <4>1, <4>2
    <3>4. Chained(l)'
      BY <1>6, <3>3 DEF Chained
    <3>5. EndsAtTotal(l)'
      BY <1>4, <1>6, <1>8, <2>2, <3>1 DEF EndsAtTotal
    <3>6. Base(l)' = Base(l)
      <4>1. Base(l)' = Before(window'[l][1])
        BY <1>4, <1>6 DEF Base
      <4>2. CASE window[l] = << >>
        BY <1>0, <1>1, <1>4, <4>1, <4>2 DEF Base
      <4>3. CASE window[l] # << >>
        <5>1. 1 \in 1 .. Len(window[l]) /\ Head(window[l]) = window[l][1]
          BY <4>3, WindowElements DEF JInv
        <5>2. QED
          BY <1>4, <4>1, <4>3, <5>1 DEF Base
      <4>4. QED
        BY <4>2, <4>3
    <3>7. QED
      BY <1>8, <2>1, <2>2, <2>4, <3>4, <3>5, <3>6 DEF Counts
  <2>5. QED
    BY <2>3, <2>4
<1>10. QED
  BY <1>7, <1>9 DEF Sums

-----------------------------------------------------------------------------
\* One step for each action.
LEMMA NextJInv == JInv /\ [Next]_vars => JInv'
<1> SUFFICES ASSUME JInv, [Next]_vars PROVE Stamps' /\ Sums'
  BY NextIInv DEF JInv
<1> USE ConstantsAssumption
<1>a. /\ \A l \in Listeners : l \in Threads /\ l # Relayer
      /\ Relayer \in Threads /\ Nobody \notin Threads
  BY DEF Threads
<1>b. IInv /\ pc \in [Threads -> Labels] /\ mutex \in Threads \cup {Nobody}
  BY DEF JInv, IInv, TypeOK
<1>c. /\ now \in Nat
      /\ \A t \in Threads : pc[t] \in Inside <=> mutex = t
  BY DEF JInv, IInv, TypeOK, Control, Time
<1>1. CASE Tick
  <2>1. /\ now' = now + 1
        /\ UNCHANGED <<pc, mutex, cursor, hand, victim, data, window, result, total>>
    BY <1>1 DEF Tick, memory, sums
  <2>2. Stamps'
    BY <1>c, <2>1, StampsStay
  <2>3. \A l \in Listeners : Owing(l)' <=> Owing(l)
    BY <2>1 DEF Owing, Target, Pushing
  <2>4. Sums'
    BY <2>1, <2>3, SumsStay
  <2>5. QED
    BY <2>2, <2>4
<1>2. ASSUME NEW t \in Threads, pc[t] = "idle", Goto(t, "lock"),
             UNCHANGED <<now, mutex, cursor, hand, victim, memory, window, sums, report, asked>>
      PROVE  Stamps' /\ Sums'
  <2>1. mutex # t
    BY <1>2, <1>c DEF Inside
  <2>2. QED
    BY <1>2, <2>1, QuietJInv DEF Goto, memory, sums, Labels
<1>3. ASSUME NEW l \in Listeners, Impulse(l) PROVE Stamps' /\ Sums'
  BY <1>2, <1>3, <1>a DEF Impulse
<1>4. CASE Request
  BY <1>2, <1>4, <1>a DEF Request
<1>5. ASSUME NEW t \in Threads, Lock(t) PROVE Stamps' /\ Sums'
  <2>1. PICK label \in {"push", "obsolate"} : pc' = [pc EXCEPT ![t] = label]
    BY <1>5 DEF Lock, Goto
  <2>2. /\ pc[t] = "lock" /\ mutex = Nobody /\ mutex' = t
        /\ UNCHANGED <<now, hand, victim, data, window, result, total>>
    BY <1>5 DEF Lock, memory, sums
  <2>3. label \in Labels \ {"subtract", "write"}
    BY DEF Labels
  <2>4. QED
    BY <2>1, <2>2, <2>3, QuietJInv
<1>6. ASSUME NEW l \in Listeners, Push(l) PROVE Stamps' /\ Sums'
  <2>1. pc[l] = "push" /\ Target(l) = l /\ l \in Threads /\ mutex = l
    BY <1>6, <1>a, <1>b, <1>c, TargetOf DEF Push, Inside
  <2>2. CASE Len(window[l]) = PufferSize
    <3>1. TakeOldest(l) /\ window[Target(l)] # << >>
      BY <1>6, <2>1, <2>2, EmptySeq DEF Push
    <3>2. QED
      BY <2>1, <3>1, TakeOldestJInv
  <2>3. CASE Len(window[l]) # PufferSize
    <3>1. /\ pc' = [pc EXCEPT ![l] = "add"]
          /\ UNCHANGED <<now, mutex, cursor, hand, victim, data, window, result, total>>
      BY <1>6, <2>1, <2>3 DEF Push, Goto, memory, sums
    <3>2. "add" \in Labels \ {"subtract", "write"}
      BY DEF Labels
    <3>3. QED
      BY <2>1, <3>1, <3>2, QuietInside
  <2>4. QED
    BY <2>2, <2>3
<1>7. ASSUME NEW t \in Threads, ObsolateOne(t) PROVE Stamps' /\ Sums'
  <2>1. pc[t] = "obsolate" /\ window[Target(t)] # << >> /\ TakeOldest(t)
    BY <1>7, <1>b, TargetOf DEF ObsolateOne
  <2>2. QED
    BY <2>1, TakeOldestJInv
<1>8. ASSUME NEW t \in Threads, ObsolateDone(t) PROVE Stamps' /\ Sums'
  <2>1. PICK label \in {"copy", "obsolate", "unlock"} :
          /\ pc[t] = "obsolate" /\ pc' = [pc EXCEPT ![t] = label]
          /\ UNCHANGED <<now, mutex, hand, victim, data, window, result, total>>
    <3>1. pc[t] = "obsolate" => pc = [pc EXCEPT ![t] = "obsolate"]
      BY <1>b
    <3>2. QED
      BY <1>8, <3>1 DEF ObsolateDone, Goto, memory, sums
  <2>2. mutex = t /\ label \in Labels \ {"subtract", "write"}
    BY <1>c, <2>1 DEF Inside, Labels
  <2>3. QED
    BY <2>1, <2>2, QuietInside
<1>9. CASE Copy
  <2>1. /\ pc[Relayer] = "copy" /\ pc' = [pc EXCEPT ![Relayer] = "unlock"]
        /\ UNCHANGED <<now, mutex, hand, victim, data, window, result, total>>
    BY <1>9 DEF Copy, Goto, memory, sums
  <2>2. mutex = Relayer /\ "unlock" \in Labels \ {"subtract", "write"}
    BY <1>a, <1>c, <2>1 DEF Inside, Labels
  <2>3. QED
    BY <1>a, <2>1, <2>2, QuietInside
<1>10. ASSUME NEW t \in Threads, Unlock(t) PROVE Stamps' /\ Sums'
  <2>1. PICK label \in {"lock", "idle"} :
          /\ pc[t] = "unlock" /\ pc' = [pc EXCEPT ![t] = label] /\ mutex' = Nobody
          /\ UNCHANGED <<now, hand, victim, data, window, result, total>>
    BY <1>10 DEF Unlock, Goto, memory, sums
  <2>2. mutex = t /\ label \in Labels \ {"subtract", "write"}
    BY <1>c, <2>1 DEF Inside, Labels
  <2>3. QED
    BY <2>1, <2>2, QuietInside
<1>11. CASE UNCHANGED vars
  <2>1. UNCHANGED <<now, pc, mutex, cursor, hand, victim, data, window, result, total>>
    BY <1>11 DEF vars, memory, sums
  <2>2. Stamps'
    BY <1>c, <2>1, StampsStay
  <2>3. \A l \in Listeners : Owing(l)' <=> Owing(l)
    BY <2>1 DEF Owing, Target, Pushing
  <2>4. Sums'
    BY <2>1, <2>3, SumsStay
  <2>5. QED
    BY <2>2, <2>4
<1>12. QED
  BY <1>1, <1>3, <1>4, <1>5, <1>6, <1>7, <1>8, <1>9, <1>10, <1>11, SniffJInv, RecycleJInv,
     SubtractJInv, AddItemsJInv, WriteJInv DEF Next, Sniffer, Critical

\* A window holds its own listener's records, oldest first, although the
\* evaluator stamps a record before it waits for the accumulator's mutex:
\* what _obsolate_records looks at first is always what expires first.
THEOREM WindowsStayOrdered == Spec => []WindowOrdered
<1>1. JInv => WindowOrdered
  BY DEF JInv, Stamps
<1>2. QED
  BY <1>1, InitJInv, NextJInv, PTL DEF Spec

\* Whenever the mutex is free, and when the relayer has just copied the sums,
\* the result of a listener is exactly what its total has grown by since before
\* the oldest record of its window: addition and subtraction always pair up,
\* also when items wrap around and when the window is full.
THEOREM ResultIsExact == Spec => []ResultIsGrowthOfTotal
<1>1. ASSUME JInv, mutex = Nobody \/ pc[mutex] = "unlock", NEW l \in Listeners
      PROVE  /\ window[l] = << >> => result[l] = 0
             /\ window[l] # << >> =>
                  /\ result[l] = Minus(total[l], Before(Head(window[l])))
                  /\ data[window[l][Len(window[l])]].mark = total[l]
             /\ Chained(l)
  <2>1. Chained(l) /\ EndsAtTotal(l) /\ Counts(l)
    BY <1>1 DEF JInv, Sums
  <2>2. ~ Owing(l)
    BY <1>1 DEF Owing
  <2>3. pc[l] # "write"
    BY <1>1, ConstantsAssumption DEF JInv, IInv, Control, Inside, Threads
  <2>4. total[l] \in Word
    BY <1>1 DEF JInv, IInv, TypeOK
  <2>5. QED
    BY <2>1, <2>2, <2>3, <2>4, WordArithmetic DEF EndsAtTotal, Counts, Base
<1>2. JInv => ResultIsGrowthOfTotal
  BY <1>1 DEF ResultIsGrowthOfTotal, Chained
<1>3. QED
  BY <1>2, InitJInv, NextJInv, PTL DEF Spec

-----------------------------------------------------------------------------
(***************************************************************************)
(* The sum of a window as SumOf computes it, item by item.  Induction over *)
(* its length is the well-foundedness of the natural numbers: of the       *)
(* lengths for which a statement fails there is a least one.               *)
(***************************************************************************)

LEMMA LeastOfNat ==
    ASSUME NEW T \in SUBSET Nat, T # {}
    PROVE  \E n \in T : \A m \in T : ~ (m < n)
<1>1. PICK n \in T : \A m \in T : ~ (<<m, n>> \in OpToRel(<, Nat))
  <2>1. IsWellFoundedOn(OpToRel(<, Nat), Nat)
    BY NatLessThanWellFounded
  <2>2. QED
    BY ONLY <2>1, WFMin, T \in SUBSET Nat, T # {}
<1>2. QED
  BY <1>1 DEF OpToRel

\* g has the sums of the first n records of s at most.
PartialSums(s, n, g) ==
    /\ g \in [0 .. n -> Word]
    /\ \A i \in 0 .. n : g[i] = IF i = 0 THEN 0 ELSE Plus(g[i - 1], data[s[i]].item)

\* The function that SumOf defines exists.
LEMMA PartialSumsExist ==
    ASSUME NEW s \in Seq(Records), \A r \in Records : data[r].item \in Word
    PROVE  \A n \in 0 .. Len(s) : \E g : PartialSums(s, n, g)
<1> DEFINE Without == {n \in 0 .. Len(s) : ~ \E g : PartialSums(s, n, g)}
<1>1. SUFFICES ASSUME Without # {} PROVE FALSE
  OBVIOUS
<1>2. Len(s) \in Nat /\ \A i \in 1 .. Len(s) : s[i] \in Records
  BY LenProperties, ElementOfSeq
<1>3. PICK n \in Without : \A m \in Without : ~ (m < n)
  <2>1. Without \in SUBSET Nat
    BY <1>2
  <2>2. QED
    BY ONLY <1>1, <2>1, LeastOfNat
<1>4. CASE n = 0
  <2>1. 0 \in Word
    BY ConstantsAssumption DEF Word
  <2>2. PartialSums(s, 0, [i \in 0 .. 0 |-> 0])
    BY <2>1 DEF PartialSums
  <2>3. QED
    BY <1>3, <1>4, <2>2
<1>5. CASE n # 0
  <2>1. n - 1 \in 0 .. Len(s) /\ n \in 1 .. Len(s) /\ n - 1 < n
    BY <1>2, <1>3, <1>5
  <2>2. PICK g : PartialSums(s, n - 1, g)
    BY <2>1, <1>3
  <2> DEFINE item == data[s[n]].item
             h == [i \in 0 .. n |-> IF i = n THEN Plus(g[n - 1], item) ELSE g[i]]
  <2>3. item \in Word /\ g[n - 1] \in Word
    BY <1>2, <2>1, <2>2 DEF PartialSums
  <2>4. Plus(g[n - 1], item) \in Word
    BY <2>3, WordClosed
  <2>5. h \in [0 .. n -> Word]
    BY <2>1, <2>2, <2>4 DEF PartialSums
  <2>6. ASSUME NEW i \in 0 .. n
        PROVE  h[i] = IF i = 0 THEN 0 ELSE Plus(h[i - 1], data[s[i]].item)
    <3>1. CASE i = n
      BY <3>1, <2>1
    <3>2. CASE i # n
      <4>1. i \in 0 .. n - 1 /\ (i # 0 => i - 1 \in 0 .. n /\ i - 1 # n)
        BY <2>1, <3>2
      <4>2. g[i] = IF i = 0 THEN 0 ELSE Plus(g[i - 1], data[s[i]].item)
        BY <4>1, <2>2 DEF PartialSums
      <4>3. QED
        BY <4>1, <4>2, <3>2
    <3>3. QED
      BY <3>1, <3>2
  <2>7. PartialSums(s, n, h)
    BY <2>5, <2>6 DEF PartialSums
  <2>8. QED
    BY <1>3, <2>7
<1>6. QED
  BY <1>4, <1>5

\* SumOf adds one record after the other.
LEMMA SumOfUnfolds ==
    ASSUME NEW s \in Seq(Records), \A r \in Records : data[r].item \in Word
    PROVE  \E f : /\ SumOf(s) = f[Len(s)] /\ f[0] = 0
                  /\ \A i \in 1 .. Len(s) : f[i] = Plus(f[i - 1], data[s[i]].item)
<1> DEFINE Following(f) ==
             [i \in 0 .. Len(s) |-> IF i = 0 THEN 0 ELSE Plus(f[i - 1], data[s[i]].item)]
           sum == CHOOSE f : f = Following(f)
<1>1. Len(s) \in Nat
  BY LenProperties
<1>2. PICK g : PartialSums(s, Len(s), g)
  BY <1>1, PartialSumsExist
<1>3. g = Following(g)
  BY <1>2 DEF PartialSums
<1>4. sum = Following(sum)
  <2> HIDE DEF Following
  <2>1. QED
    BY ONLY <1>3, Zenon
<1>5. SumOf(s) = sum[Len(s)]
  BY Zenon DEF SumOf
<1>6. 0 \in 0 .. Len(s) /\ \A i \in 1 .. Len(s) : i \in 0 .. Len(s) /\ i # 0
  BY <1>1
<1> HIDE DEF sum
<1>7. sum[0] = 0 /\ \A i \in 1 .. Len(s) : sum[i] = Plus(sum[i - 1], data[s[i]].item)
  BY <1>4, <1>6
<1>8. QED
  BY <1>5, <1>7

\* Where every record starts where the one before it ended, the sum telescopes.
LEMMA SumTelescopes ==
    ASSUME NEW s \in Seq(Records), s # << >>,
           \A r \in Records : data[r].item \in Word /\ data[r].mark \in Word,
           \A i \in 1 .. Len(s) - 1 : Before(s[i + 1]) = data[s[i]].mark
    PROVE  SumOf(s) = Minus(data[s[Len(s)]].mark, Before(s[1]))
<1>1. PICK f : /\ SumOf(s) = f[Len(s)] /\ f[0] = 0
               /\ \A i \in 1 .. Len(s) : f[i] = Plus(f[i - 1], data[s[i]].item)
  BY SumOfUnfolds
<1>2. Len(s) \in Nat /\ Len(s) # 0 /\ \A i \in 1 .. Len(s) : s[i] \in Records
  BY LenProperties, ElementOfSeq, EmptySeq
<1>3. ASSUME NEW r \in Records PROVE Before(r) \in Word /\ Plus(Before(r), data[r].item) = data[r].mark
  <2>1. data[r].item \in Word /\ data[r].mark \in Word
    OBVIOUS
  <2> DEFINE item == data[r].item
             mark == data[r].mark
  <2> HIDE DEF item, mark
  <2>2. Minus(mark, item) \in Word /\ Plus(Minus(mark, item), item) = mark
    <3>1. item \in Word /\ mark \in Word
      BY <2>1 DEF item, mark
    <3>2. Plus(Minus(mark, item), item) = Minus(Plus(mark, item), item)
      BY ONLY <3>1, WordArithmetic
    <3>3. Minus(Plus(mark, item), item) = mark
      BY ONLY <3>1, WordArithmetic
    <3>4. QED
      BY <3>1, <3>2, <3>3, WordClosed
  <2>3. QED
    BY <2>2 DEF Before, item, mark
<1> DEFINE Wrong == {i \in 1 .. Len(s) : f[i] # Minus(data[s[i]].mark, Before(s[1]))}
<1>4. ASSUME Wrong # {} PROVE FALSE
  <2>1. PICK n \in Wrong : \A m \in Wrong : ~ (m < n)
    <3>1. Wrong \in SUBSET Nat
      BY <1>2
    <3>2. QED
      BY ONLY <1>4, <3>1, LeastOfNat
  <2>2. n \in 1 .. Len(s) /\ f[n] = Plus(f[n - 1], data[s[n]].item) /\ s[n] \in Records /\ s[1] \in Records
    BY <1>1, <1>2
  <2>3. CASE n = 1
    <3>1. f[1] = Plus(0, data[s[1]].item)
      BY <1>1, <2>2, <2>3
    <3>2. f[1] = data[s[1]].item
      BY <2>2, <3>1, ConstantsAssumption DEF Plus, Word
    <3>3. Minus(data[s[1]].mark, Before(s[1])) = data[s[1]].item
      BY <1>3, <2>2, WordArithmetic
    <3>4. QED
      BY <2>1, <2>3, <3>2, <3>3
  <2>4. CASE n # 1
    <3>1. n - 1 \in 1 .. Len(s) - 1 /\ n - 1 \in 1 .. Len(s) /\ n - 1 < n /\ (n - 1) + 1 = n
      BY <1>2, <2>2, <2>4
    <3>2. f[n - 1] = Minus(data[s[n - 1]].mark, Before(s[1])) /\ s[n - 1] \in Records
      BY <1>2, <2>1, <3>1
    <3>3. Before(s[n]) = data[s[n - 1]].mark
      BY <3>1
    <3>4. f[n] = Minus(Plus(Before(s[n]), data[s[n]].item), Before(s[1]))
      BY <1>3, <2>2, <3>2, <3>3, WordArithmetic
    <3>5. QED
      BY <1>3, <2>1, <2>2, <3>4
  <2>5. QED
    BY <2>3, <2>4
<1>5. Len(s) \in 1 .. Len(s)
  BY <1>2
<1>6. QED
  BY <1>1, <1>4, <1>5

\* The closed form gives the sum.
LEMMA ResultIsSum ==
    ASSUME JInv, mutex = Nobody \/ pc[mutex] = "unlock", NEW l \in Listeners
    PROVE  result[l] = SumOf(window[l])
<1>1. /\ window[l] \in Seq(Records)
      /\ \A r \in Records : data[r].item \in Word /\ data[r].mark \in Word
  BY DEF JInv, IInv, TypeOK, Content
<1>2. Chained(l) /\ EndsAtTotal(l) /\ Counts(l) /\ ~ Owing(l) /\ total[l] \in Word
  BY DEF JInv, IInv, TypeOK, Sums, Owing
<1>3. pc[l] # "write"
  BY ConstantsAssumption DEF JInv, IInv, Control, Inside, Threads
<1>4. CASE window[l] = << >>
  <2>1. PICK f : SumOf(window[l]) = f[Len(window[l])] /\ f[0] = 0
    BY <1>1, SumOfUnfolds
  <2>2. Len(window[l]) = 0
    BY <1>4, EmptySeq
  <2>3. result[l] = 0
    BY <1>2, <1>3, <1>4, WordArithmetic DEF Counts, Base
  <2>4. QED
    BY <2>1, <2>2, <2>3
<1>5. CASE window[l] # << >>
  <2>1. SumOf(window[l]) = Minus(data[window[l][Len(window[l])]].mark, Before(window[l][1]))
    BY <1>1, <1>2, <1>5, SumTelescopes DEF Chained
  <2>2. Head(window[l]) = window[l][1]
    BY <1>1, <1>5, HeadTailProperties
  <2>3. QED
    BY <1>2, <1>3, <1>5, <2>1, <2>2 DEF EndsAtTotal, Counts, Base
<1>6. QED
  BY <1>4, <1>5

\* Whenever the mutex is free, and when the relayer has just copied the sums, the
\* result of a listener is the sum of exactly the records in its window, although
\* the code only ever adds and subtracts.
THEOREM ResultIsTheSum == Spec => []ResultIsWindowSum
<1>1. JInv => ResultIsWindowSum
  BY ResultIsSum DEF ResultIsWindowSum
<1>2. QED
  BY <1>1, InitJInv, NextJInv, PTL DEF Spec

-----------------------------------------------------------------------------
\* What the relayer has found fresh stays so until it gives the mutex back.
FreshSince(l) == \A i \in 1 .. Len(window[l]) : asked - data[window[l][i]].timestamp <= AccumulationTime

Reported ==
    /\ asked <= now
    /\ pc[Relayer] \in {"copy", "unlock"} => FreshSince(cursor[Relayer])
    /\ pc[Relayer] = "unlock" => report.features = result[cursor[Relayer]]

\* A step of another thread while the relayer has the mutex.
LEMMA ReportedStays ==
    ASSUME JInv, Reported, UNCHANGED <<asked, cursor, window, result, report>>,
           pc'[Relayer] = pc[Relayer], now <= now', now' \in Nat,
           \A l \in Listeners : \A i \in 1 .. Len(window[l]) : data'[window[l][i]] = data[window[l][i]]
    PROVE  Reported'
<1>1. /\ cursor[Relayer] \in Listeners /\ asked \in Nat /\ now \in Nat
  BY DEF JInv, IInv, TypeOK, Threads, Time
<1>2. QED
  BY <1>1 DEF Reported, FreshSince

\* A clock that was read earlier finds a later record no older.
LEMMA StillFresh ==
    ASSUME NEW earlier \in Nat, NEW clock \in Nat, NEW limit \in Nat,
           NEW first \in Nat, NEW later \in Nat,
           earlier <= clock, first <= later, ~ (limit < clock - first)
    PROVE  earlier - later <= limit
OBVIOUS

LEMMA NextReported == JInv /\ JInv' /\ Reported /\ [Next]_vars => Reported'
<1> SUFFICES ASSUME JInv, JInv', Reported, [Next]_vars PROVE Reported'
  OBVIOUS
<1> USE ConstantsAssumption
<1>a. /\ \A l \in Listeners : l \in Threads /\ l # Relayer
      /\ Relayer \in Threads /\ cursor[Relayer] \in Listeners
  BY DEF Threads, JInv, IInv, TypeOK
<1>b. /\ pc \in [Threads -> Labels] /\ now \in Nat /\ asked \in Nat /\ now' \in Nat
      /\ asked <= now /\ AccumulationTime \in Nat
      /\ \A t \in Threads : pc[t] \in Inside <=> mutex = t
  BY DEF JInv, IInv, TypeOK, Control, Time, Reported
<1>c. ASSUME asked' <= now', pc'[Relayer] \notin {"copy", "unlock"} PROVE Reported'
  BY <1>c DEF Reported
<1>d. ASSUME NEW t \in Threads, t # Relayer, pc[t] \in Inside
      PROVE  pc[Relayer] \notin {"copy", "unlock"}
  BY <1>a, <1>b, <1>d DEF Inside
<1>1. CASE Tick
  BY <1>1, <1>b, ReportedStays DEF Tick, memory, sums
<1>2. ASSUME NEW l \in Listeners, Impulse(l) PROVE Reported'
  BY <1>2, <1>a, <1>b, ReportedStays DEF Impulse, Goto, memory, sums
<1>3. ASSUME NEW l \in Listeners, Sniff(l) PROVE Reported'
  <2>1. \A m \in Listeners : \A i \in 1 .. Len(window[m]) : data'[window[m][i]] = data[window[m][i]]
    <3>1. PICK r \in Records, value \in Values :
            /\ IF pool = << >> THEN r \notin heap ELSE r = Head(pool)
            /\ data' = [data EXCEPT ![r] = [listener_id |-> l, timestamp |-> now,
                                            item |-> value, mark |-> 0]]
      BY <1>3 DEF Sniff
    <3>2. r \notin heap \/ Has(pool, r)
      BY <3>1, TailHas DEF JInv, IInv, TypeOK, NoRepeats
    <3>3. \A m \in Listeners : ~ Has(window[m], r)
      BY <3>2 DEF JInv, IInv, Owned
    <3>4. QED
      BY <3>1, <3>3, WindowElements DEF JInv, IInv, TypeOK
  <2>2. UNCHANGED <<now, asked, cursor, window, result, report>> /\ pc'[Relayer] = pc[Relayer]
    BY <1>3, <1>a, <1>b DEF Sniff, Goto, sums
  <2>3. QED
    BY <1>b, <2>1, <2>2, ReportedStays
<1>4. CASE Request
  <2>1. asked' = asked /\ now' = now /\ pc'[Relayer] = "lock"
    BY <1>4, <1>a, <1>b DEF Request, Goto
  <2>2. QED
    BY <1>b, <1>c, <2>1
<1>5. ASSUME NEW t \in Threads, Lock(t) PROVE Reported'
  <2>1. asked' = now /\ now' = now /\ pc[t] = "lock" /\ mutex = Nobody
        /\ \E label \in {"push", "obsolate"} : pc' = [pc EXCEPT ![t] = label]
    BY <1>5 DEF Lock, Goto
  <2>2. pc[Relayer] \notin {"copy", "unlock"}
    BY <1>a, <1>b, <2>1 DEF Inside
  <2>3. QED
    BY <1>a, <1>b, <1>c, <2>1, <2>2
<1>6. ASSUME NEW l \in Listeners, Push(l) \/ AddItems(l) \/ Write(l) PROVE Reported'
  <2>1. pc[l] \in Inside /\ asked' = asked /\ now' = now /\ pc'[Relayer] = pc[Relayer]
    BY <1>6, <1>a, <1>b DEF Push, TakeOldest, AddItems, Write, Goto, Inside
  <2>2. QED
    BY <1>a, <1>b, <1>c, <1>d, <2>1
<1>7. ASSUME NEW t \in Threads, ObsolateOne(t) \/ Subtract(t) \/ Recycle(t) PROVE Reported'
  <2>1. /\ pc[t] \in Inside \ {"copy", "unlock"} /\ asked' = asked /\ now' = now
        /\ \E label \in {"subtract", "recycle", "add", "obsolate"} : pc' = [pc EXCEPT ![t] = label]
    BY <1>7 DEF ObsolateOne, TakeOldest, Subtract, Recycle, Goto, Inside
  <2>2. pc'[Relayer] \notin {"copy", "unlock"}
    BY <1>a, <1>b, <1>d, <2>1
  <2>3. QED
    BY <1>b, <1>c, <2>1, <2>2
<1>8. ASSUME NEW t \in Threads, ObsolateDone(t) PROVE Reported'
  <2>1. pc[t] = "obsolate" /\ pc[t] \in Inside /\ asked' = asked /\ now' = now
        /\ UNCHANGED <<data, window>>
    BY <1>8 DEF ObsolateDone, Inside, memory
  <2>2. CASE t # Relayer
    <3>1. pc'[Relayer] = pc[Relayer]
      BY <1>8, <1>a, <1>b, <2>2 DEF ObsolateDone, Goto
    <3>2. QED
      BY <1>b, <1>c, <1>d, <2>1, <2>2, <3>1
  <2>3. CASE t = Relayer
    <3>1. /\ pc'[Relayer] = "copy" /\ cursor' = cursor
          /\ window[cursor[t]] # << >> => ~ Expired(Head(window[cursor[t]]))
      BY <1>8, <1>a, <1>b, <2>3 DEF ObsolateDone, Goto
    <3> DEFINE w == window[cursor[Relayer]]
    <3>2. ASSUME NEW i \in 1 .. Len(w) PROVE asked - data[w[i]].timestamp <= AccumulationTime
      <4>1. /\ w # << >> /\ Head(w) = w[1] /\ 1 \in 1 .. Len(w) /\ 1 <= i
            /\ w[1] \in Records /\ w[i] \in Records
        BY <1>a, <3>2, WindowElements, EmptySeq DEF JInv
      <4>2. data[w[1]].timestamp <= data[w[i]].timestamp
        BY <1>a, <3>2, <4>1 DEF JInv, Stamps, WindowOrdered
      <4>3. data[w[1]].timestamp \in Nat /\ data[w[i]].timestamp \in Nat
        <5>1. data \in [Records -> Content]
          BY DEF JInv, IInv, TypeOK
        <5>2. data[w[1]] \in Content /\ data[w[i]] \in Content
          BY ONLY <4>1, <5>1
        <5>3. QED
          BY <5>2 DEF Content, Time
      <4>4. ~ (AccumulationTime < now - data[w[1]].timestamp)
        BY <2>3, <3>1, <4>1 DEF Expired
      <4>5. QED
        BY ONLY <1>b, <4>2, <4>3, <4>4, StillFresh
    <3>3. QED
      BY <1>b, <2>1, <3>1, <3>2 DEF Reported, FreshSince
  <2>4. QED
    BY <2>2, <2>3
<1>9. CASE Copy
  <2>1. pc[Relayer] = "copy" /\ pc'[Relayer] = "unlock" /\ report'.features = result[cursor[Relayer]]
        /\ UNCHANGED <<now, asked, cursor, data, window, result>>
    BY <1>9, <1>a, <1>b DEF Copy, Goto, memory, sums
  <2>2. QED
    BY <1>b, <2>1 DEF Reported, FreshSince
<1>10. ASSUME NEW t \in Threads, Unlock(t) PROVE Reported'
  <2>1. pc[t] \in Inside /\ asked' = 0 /\ now' = now
        /\ \E label \in {"lock", "idle"} : pc' = [pc EXCEPT ![t] = label]
    BY <1>10 DEF Unlock, Goto, Inside
  <2>2. pc'[Relayer] \notin {"copy", "unlock"}
    BY <1>a, <1>b, <1>d, <2>1
  <2>3. QED
    BY <1>b, <1>c, <2>1, <2>2
<1>11. CASE UNCHANGED vars
  BY <1>11, <1>b, ReportedStays DEF vars, memory, sums
<1>12. QED
  BY <1>1, <1>2, <1>3, <1>4, <1>5, <1>6, <1>7, <1>8, <1>9, <1>10, <1>11 DEF Next, Sniffer, Critical

\* What the relayer has just copied is the sum over a window in which nothing was older
\* than the accumulation time when the request got the mutex, whatever the sniffers and
\* the clock did meanwhile.
THEOREM ReportsAreFresh == Spec => []ReportIsFresh
<1>1. Init => Reported
  <2> SUFFICES ASSUME Init PROVE Reported
    OBVIOUS
  <2>1. asked = 0 /\ now = 0 /\ pc[Relayer] = "idle"
    BY DEF Init, Threads
  <2>2. QED
    BY <2>1 DEF Reported
<1>2. ASSUME JInv, Reported, pc[Relayer] = "unlock"
      PROVE  /\ report.features = SumOf(window[cursor[Relayer]])
             /\ FreshSince(cursor[Relayer])
  <2>1. Relayer \in Threads /\ cursor[Relayer] \in Listeners
    BY <1>2 DEF Threads, JInv, IInv, TypeOK
  <2>2. mutex = Relayer
    BY <1>2, <2>1 DEF JInv, IInv, Control, Inside
  <2>3. QED
    BY <1>2, <2>1, <2>2, ResultIsSum DEF Reported
<1>3. JInv /\ Reported => ReportIsFresh
  BY <1>2 DEF ReportIsFresh, FreshSince
<1>4. QED
  BY <1>1, <1>3, InitJInv, NextJInv, NextReported, PTL DEF Spec
=============================================================================
