--------------------------- MODULE LibraryProofs ---------------------------
(***************************************************************************)
(* The parts of Library, for every size, number of threads and length of a *)
(* run.  The ring of lib_puffers.c keeps its indices and its slots         *)
(* consistent, and is a bounded FIFO queue.  What LOST_RTP_PACKETS_X adds  *)
(* up is the number of lost packets, less one for each time the sequence   *)
(* numbers started over.  The barrier lets through those who gathered.     *)
(* Vector and queue keep their items in order, up to the calls that break  *)
(* them.  The heap keeps its items and gives the greatest first.  The      *)
(* reading of an ini file puts in the dictionary what its lines mean.      *)
(* The ring with holes is read in order until a writer passes its start.   *)
(***************************************************************************)
EXTENDS Library, Integers, SequenceTheorems, FiniteSetTheorems, FunctionTheorems,
        NaturalsInduction, WellFoundedInduction, TLAPS

(***************************************************************************)
(* The ring.                                                               *)
(***************************************************************************)
\* The write index is where the window ends, also after it wrapped: otherwise
\* a write would fall on a live item or leave a hole (datapuffer_write).
EndFollowsWindow == end = IF start + count < Size THEN start + count
                                                  ELSE start + count - Size

\* The inductive invariant: VacatedSlotsAreNull needs to know where the window
\* ends, and where it ends stays inside the array only if the window is no
\* larger than the array.
RingInv == TypeOK /\ EndFollowsWindow /\ VacatedSlotsAreNull

\* The window that starts at slot s with c items covers slot i: without the
\* quantifier in Occupied, what a step does to it is linear arithmetic.
Covers(s, c, i) == (s <= i /\ i < s + c) \/ i + Size < s + c

LEMMA WindowCovers ==
    ASSUME NEW s \in Slots, NEW c \in 0 .. Size, NEW i \in Slots
    PROVE  Covers(s, c, i) <=>
             \E k \in 1 .. c : i = SlotOf(s, k)
<1> USE SizeAssumption DEF Slots, Covers, SlotOf
<1>1. ASSUME s <= i, i < s + c PROVE \E k \in 1 .. c : i = SlotOf(s, k)
  <2>1. i - s + 1 \in 1 .. c /\ i = SlotOf(s, i - s + 1)
    BY <1>1
  <2>2. QED
    BY <2>1
<1>2. ASSUME i + Size < s + c PROVE \E k \in 1 .. c : i = SlotOf(s, k)
  <2>1. i + Size - s + 1 \in 1 .. c /\ i = SlotOf(s, i + Size - s + 1)
    BY <1>2
  <2>2. QED
    BY <2>1
<1>3. ASSUME NEW k \in 1 .. c, i = SlotOf(s, k) PROVE Covers(s, c, i)
  BY <1>3
<1>4. QED
  BY <1>1, <1>2, <1>3

LEMMA OccupiedCovers ==
    TypeOK => \A i \in Slots : i \in Occupied <=> Covers(start, count, i)
BY WindowCovers DEF TypeOK, Occupied

LEMMA OccupiedCoversPrime ==
    TypeOK' => \A i \in Slots : (i \in Occupied)' <=> Covers(start', count', i)
BY WindowCovers DEF TypeOK, Occupied

LEMMA InitRing == Init => RingInv
BY SizeAssumption DEF Init, RingInv, TypeOK, EndFollowsWindow, VacatedSlotsAreNull,
                      Slots, Occupied, SlotOf

\* One step for each operation of the puffer.
LEMMA NextRing == RingInv /\ [Next]_vars => RingInv'
<1> SUFFICES ASSUME RingInv, [Next]_vars PROVE RingInv'
  OBVIOUS
<1> USE SizeAssumption, NullAssumption
<1> USE DEF RingInv, TypeOK, EndFollowsWindow, Slots, Wrap, isfull, isempty
<1>0. \A i \in Slots : items[i] # NULL <=> Covers(start, count, i)
  BY OccupiedCovers DEF VacatedSlotsAreNull
<1>1. ASSUME NEW item \in Items, Write(item) PROVE RingInv'
  <2>1. TypeOK' /\ EndFollowsWindow'
    BY <1>1 DEF Write
  <2>2. \A i \in Slots : Covers(start, count + 1, i) <=> Covers(start, count, i) \/ i = end
    BY <1>1 DEF Write, Covers
  <2>3. VacatedSlotsAreNull'
    BY <1>0, <1>1, <2>1, <2>2, OccupiedCoversPrime DEF Write, VacatedSlotsAreNull
  <2>4. QED
    BY <2>1, <2>3
<1>2. CASE Read
  <2>1. TypeOK' /\ EndFollowsWindow'
    BY <1>2 DEF Read
  <2>2. \A i \in Slots : Covers(start', count', i) <=> Covers(start, count, i) /\ i # start
    BY <1>2 DEF Read, Covers
  <2>3. VacatedSlotsAreNull'
    BY <1>0, <1>2, <2>1, <2>2, OccupiedCoversPrime DEF Read, VacatedSlotsAreNull
  <2>4. QED
    BY <2>1, <2>3
<1>3. CASE Clear
  <2>1. TypeOK' /\ EndFollowsWindow'
    BY <1>3 DEF Clear, SlotOf
  <2>2. \A i \in Slots : items'[i] = NULL /\ ~ Covers(start', count', i)
    BY <1>3, OccupiedCovers, <1>0, <2>1 DEF Clear, Covers
  <2>3. VacatedSlotsAreNull'
    BY <2>1, <2>2, OccupiedCoversPrime DEF VacatedSlotsAreNull
  <2>4. QED
    BY <2>1, <2>3
<1>4. CASE UNCHANGED vars
  BY <1>4 DEF vars, VacatedSlotsAreNull, Occupied, SlotOf
<1>5. QED
  BY <1>1, <1>2, <1>3, <1>4 DEF Next

\* Every field of a puffer has its type in every reachable state.
THEOREM RingTypeCorrect == Spec => []TypeOK
<1>1. RingInv => TypeOK
  BY DEF RingInv
<1>2. QED
  BY <1>1, InitRing, NextRing, PTL DEF Spec

\* A slot has a pointer exactly when it is inside the window, so datapuffer_dtor
\* frees exactly the items the puffer owns.
THEOREM NoStaleSlots == Spec => []VacatedSlotsAreNull
<1>1. RingInv => VacatedSlotsAreNull
  BY DEF RingInv
<1>2. QED
  BY <1>1, InitRing, NextRing, PTL DEF Spec

-----------------------------------------------------------------------------
\* What Contents is: a sequence of count items.
ContentsOK ==
    /\ Contents \in Seq(Items)
    /\ Len(Contents) = count
    /\ \A i \in 1 .. count : Contents[i] = items[SlotOf(start, i)]

LEMMA ContentsProperties == RingInv => ContentsOK
<1> SUFFICES ASSUME RingInv PROVE ContentsOK
  OBVIOUS
<1> USE SizeAssumption DEF RingInv, TypeOK, Slots
<1>1. \A i \in 1 .. count : SlotOf(start, i) \in Slots /\ SlotOf(start, i) \in Occupied
  <2>1. \A i \in 1 .. count : SlotOf(start, i) \in Slots
    BY DEF SlotOf
  <2>2. QED
    BY <2>1 DEF Occupied
<1>2. \A i \in 1 .. count : items[SlotOf(start, i)] \in Items
  BY <1>1 DEF VacatedSlotsAreNull
<1>3. Contents \in [1 .. count -> Items] /\ count \in Nat
  BY <1>2 DEF Contents
<1>4. QED
  BY <1>3, SeqDef DEF Contents, ContentsOK

LEMMA ContentsPropertiesPrime == RingInv' => ContentsOK'
BY ContentsProperties, PTL

\* Every operation of the ring is the operation of the queue it stands for.
LEMMA StepSimulation == RingInv /\ RingInv' /\ [Next]_vars => [Queue!Next]_(Queue!vars)
<1> SUFFICES ASSUME RingInv, RingInv', [Next]_vars PROVE [Queue!Next]_(Queue!vars)
  OBVIOUS
<1>a. /\ Contents \in Seq(Items) /\ Len(Contents) = count
      /\ \A i \in 1 .. count : Contents[i] = items[SlotOf(start, i)]
  BY ContentsProperties DEF ContentsOK
<1>b. /\ Contents' \in Seq(Items) /\ Len(Contents') = count'
      /\ \A i \in 1 .. count' : Contents'[i] = items'[SlotOf(start', i)]
  BY ContentsPropertiesPrime DEF ContentsOK
<1>c. /\ items \in [Slots -> Items \cup {NULL}]
      /\ start \in Slots /\ count \in 0 .. Size /\ EndFollowsWindow
  BY DEF RingInv, TypeOK
<1> HIDE DEF Contents
<1> USE SizeAssumption
<1>1. ASSUME NEW item \in Items, Write(item) PROVE Queue!Enqueue(item)
  <2>1. /\ count < Size /\ count' = count + 1 /\ start' = start /\ read' = read
        /\ items' = [items EXCEPT ![end] = item]
    BY <1>1, <1>c DEF Write, isfull
  <2>2. /\ end = SlotOf(start, count + 1) /\ end \in Slots
        /\ \A i \in 1 .. count : SlotOf(start, i) \in Slots /\ SlotOf(start, i) # end
    BY <1>c, <2>1 DEF EndFollowsWindow, SlotOf, Slots
  <2>3. \A i \in 1 .. count : Contents'[i] = Contents[i]
    BY <1>a, <1>b, <1>c, <2>1, <2>2
  <2>4. Contents'[count + 1] = item
    BY <1>b, <1>c, <2>1, <2>2
  <2>5. Contents' = Append(Contents, item)
    <3>1. /\ Append(Contents, item) \in Seq(Items)
          /\ Len(Append(Contents, item)) = count + 1
          /\ \A i \in 1 .. count : Append(Contents, item)[i] = Contents[i]
          /\ Append(Contents, item)[count + 1] = item
      BY <1>a, AppendProperties
    <3>2. \A i \in 1 .. count + 1 : Contents'[i] = Append(Contents, item)[i]
      BY <1>c, <2>3, <2>4, <3>1
    <3>3. QED
      BY <1>b, <2>1, <3>1, <3>2, SeqEqual
  <2>6. QED
    BY <1>a, <2>1, <2>5 DEF Queue!Enqueue
<1>2. ASSUME Read PROVE Queue!Dequeue
  <2>1. /\ 0 < count /\ count' = count - 1 /\ read' = items[start]
        /\ start' = Wrap(start + 1) /\ items' = [items EXCEPT ![start] = NULL]
    BY <1>2, <1>c DEF Read, isempty
  <2>2. Contents # << >> /\ read' = Head(Contents)
    <3>1. start = SlotOf(start, 1)
      BY <1>c DEF SlotOf, Slots
    <3>2. Contents # << >> /\ read' = Contents[1]
      BY <1>a, <1>c, <2>1, <3>1
    <3>3. QED
      BY <1>a, <3>2
  <2>3. \A i \in 1 .. count - 1 : /\ SlotOf(start', i) = SlotOf(start, i + 1)
                                  /\ SlotOf(start, i + 1) # start
                                  /\ SlotOf(start, i + 1) \in Slots
    BY <1>c, <2>1 DEF SlotOf, Slots, Wrap
  <2>4. ASSUME NEW i \in 1 .. count - 1 PROVE Contents'[i] = Contents[i + 1]
    <3>1. i + 1 \in 1 .. count /\ i \in 1 .. count'
      BY <1>c, <2>1
    <3>2. Contents'[i] = items'[SlotOf(start, i + 1)]
      BY <1>b, <2>3, <3>1
    <3>3. items'[SlotOf(start, i + 1)] = items[SlotOf(start, i + 1)]
      BY <1>c, <2>1, <2>3
    <3>4. QED
      BY <1>a, <3>1, <3>2, <3>3
  <2>5. Contents' = Tail(Contents)
    <3>1. /\ Tail(Contents) \in Seq(Items)
          /\ Len(Tail(Contents)) = count - 1
          /\ \A i \in 1 .. count - 1 : Tail(Contents)[i] = Contents[i + 1]
      BY <1>a, <2>2, HeadTailProperties
    <3>2. \A i \in 1 .. count - 1 : Contents'[i] = Tail(Contents)[i]
      BY <2>4, <3>1
    <3>3. QED
      BY <1>b, <2>1, <3>1, <3>2, SeqEqual
  <2>6. QED
    BY <2>2, <2>5 DEF Queue!Dequeue
<1>3. ASSUME Clear PROVE Queue!Drain
  <2>1. 0 < count /\ count' = 0 /\ read' = items[SlotOf(start, count)]
    BY <1>3, <1>c DEF Clear, isempty
  <2>2. Contents # << >> /\ Contents' = << >> /\ read' = Contents[count]
    BY <1>a, <1>b, <1>c, <2>1
  <2>3. QED
    BY <1>a, <2>2 DEF Queue!Drain
<1>4. CASE UNCHANGED vars
  BY <1>4 DEF vars, Queue!vars, Contents, SlotOf
<1>5. QED
  BY <1>1, <1>2, <1>3, <1>4 DEF Next, Queue!Next

\* A datapuffer_t is a bounded first-in first-out queue: the sequence of items
\* its callers read is the sequence they wrote, whatever the size of the ring.
THEOREM RefinesFifo == Spec => FifoSpec
<1>1. Init => Queue!Init
  BY SizeAssumption DEF Init, Queue!Init, Contents
<1>2. QED
  BY <1>1, InitRing, NextRing, StepSimulation, PTL DEF Spec, FifoSpec, Queue!Spec
-----------------------------------------------------------------------------
(***************************************************************************)
(* Lost packets and frames.                                                *)
(***************************************************************************)
LEMMA LossSizes ==
    /\ SeqSize \in Nat \ {0} /\ SeqSize % 2 = 0
    /\ WordSize \in Nat /\ WordSize > SeqSize
    /\ MaxGap \in Nat /\ 2 * (MaxGap + 1) < SeqSize
    /\ 0 \in Timestamps
BY LossAssumption DEF Loss!SizesFit

\* Before the first packet nothing is counted; after it the container remembers
\* the last packet of the stream.
InStep ==
    IF seq_num_initialized THEN seq_num = arrived
                           ELSE packets = 0 /\ missing = 0 /\ wraps = 0

LossInv == Loss!TypeOK /\ InStep /\ Loss!LossIsExactButForWraps

LEMMA InitLoss == Loss!Init => LossInv
<1> SUFFICES ASSUME Loss!Init PROVE LossInv
  OBVIOUS
<1>1. 0 \in Loss!SeqNums /\ 0 \in Loss!Word /\ 0 \in Timestamps /\ Loss!Minus(0, 0) = 0
  <2>1. SeqSize > 0 /\ WordSize > 0 /\ SeqSize \in Int /\ WordSize \in Int
    BY LossSizes
  <2>2. 0 \in Timestamps
    BY LossSizes
  <2> QED BY <2>1, <2>2 DEF Loss!SeqNums, Loss!Word, Loss!Minus
<1>2. arrived \in Loss!SeqNums /\ seq_num_initialized = FALSE
  BY DEF Loss!Init
<1> QED BY <1>1, <1>2 DEF Loss!Init, LossInv, Loss!TypeOK, InStep, Loss!LossIsExactButForWraps

\* What a packet after gap lost ones adds: gap, less one if the numbers wrapped.
LEMMA DiffOfGap ==
    ASSUME NEW a \in Loss!SeqNums, NEW gap \in 0 .. MaxGap, NEW b \in Loss!SeqNums,
           b = IF a + gap + 1 >= SeqSize THEN a + gap + 1 - SeqSize ELSE a + gap + 1
    PROVE  /\ ~ Loss!NotLater(b, a)
           /\ Loss!u_short_diff(a, b) = IF a + gap + 1 >= SeqSize THEN gap ELSE gap + 1
BY LossSizes DEF Loss!NotLater, Loss!u_short_diff, Loss!SeqNums

LEMMA SumsStayExact ==
    ASSUME NEW p \in Loss!Word, NEW m \in Loss!Word, NEW w \in Loss!Word, NEW gap \in 0 .. MaxGap,
           p = Loss!Minus(m, w)
    PROVE  /\ Loss!Plus(p, Loss!Minus(gap + 1, 1)) = Loss!Minus(Loss!Plus(m, gap), w)
           /\ Loss!Plus(p, Loss!Minus(gap, 1)) = Loss!Minus(Loss!Plus(m, gap), Loss!Plus(w, 1))
           /\ Loss!Minus(gap + 1, 1) \in Loss!Word /\ Loss!Minus(gap, 1) \in Loss!Word
BY LossSizes DEF Loss!Plus, Loss!Minus, Loss!Word

LEMMA WordClosed ==
    ASSUME NEW a \in Loss!Word, NEW b \in Loss!Word
    PROVE  Loss!Plus(a, b) \in Loss!Word /\ Loss!Minus(a, b) \in Loss!Word
BY LossSizes DEF Loss!Plus, Loss!Minus, Loss!Word

LEMMA LaterLoss ==
    ASSUME LossInv, NEW ts \in Timestamps, NEW gap \in 0 .. MaxGap, Loss!Later(gap, ts)
    PROVE  LossInv'
<1> DEFINE wrapped == arrived + gap + 1 >= SeqSize
<1> USE DEF LossInv, Loss!TypeOK
<1>1. /\ arrived' \in Loss!SeqNums
      /\ arrived' = IF wrapped THEN arrived + gap + 1 - SeqSize ELSE arrived + gap + 1
  BY LossSizes DEF Loss!Later, Loss!SeqNums
<1>2. /\ seq_num = arrived /\ seq_num_initialized' = seq_num_initialized /\ seq_num_initialized
  BY DEF Loss!Later, InStep
<1>3. /\ ~ Loss!NotLater(arrived', seq_num)
      /\ Loss!u_short_diff(seq_num, arrived') = IF wrapped THEN gap ELSE gap + 1
  BY <1>1, <1>2, DiffOfGap
<1>4. /\ gap \in Loss!Word /\ 1 \in Loss!Word
      /\ missing' = Loss!Plus(missing, gap)
      /\ wraps' = IF wrapped THEN Loss!Plus(wraps, 1) ELSE wraps
  BY LossSizes DEF Loss!Later, Loss!Word
<1>5. /\ seq_num' = arrived'
      /\ packets' = Loss!Plus(packets, Loss!Minus(IF wrapped THEN gap ELSE gap + 1, 1))
      /\ frames' \in {frames, Loss!Plus(frames, 1)}
      /\ last_timestamp' \in Timestamps
  BY <1>3 DEF Loss!Later, Loss!Evaluate
<1>6. packets = Loss!Minus(missing, wraps)
  BY DEF Loss!LossIsExactButForWraps
<1>7. packets' = Loss!Minus(missing', wraps') /\ packets' \in Loss!Word
  <2> packets \in Loss!Word /\ missing \in Loss!Word /\ wraps \in Loss!Word
    OBVIOUS
  <2> HIDE DEF LossInv, Loss!TypeOK
  <2>1. CASE wrapped
    <3>1. packets' = Loss!Plus(packets, Loss!Minus(gap, 1)) /\ wraps' = Loss!Plus(wraps, 1)
      BY <2>1, <1>4, <1>5
    <3>2. packets' = Loss!Minus(missing', wraps')
      BY <3>1, <1>4, <1>6, SumsStayExact
    <3>3. Loss!Minus(gap, 1) \in Loss!Word
      BY <1>6, SumsStayExact
    <3> QED BY <3>1, <3>2, <3>3, WordClosed
  <2>2. CASE ~ wrapped
    <3>1. packets' = Loss!Plus(packets, Loss!Minus(gap + 1, 1)) /\ wraps' = wraps
      BY <2>2, <1>4, <1>5
    <3>2. packets' = Loss!Minus(missing', wraps')
      <4>1. Loss!Plus(packets, Loss!Minus(gap + 1, 1)) = Loss!Minus(Loss!Plus(missing, gap), wraps)
        BY <1>6, SumsStayExact
      <4> QED BY <3>1, <4>1, <1>4
    <3>3. Loss!Minus(gap + 1, 1) \in Loss!Word
      BY <1>6, SumsStayExact
    <3> QED BY <3>1, <3>2, <3>3, WordClosed
  <2> QED BY <2>1, <2>2
<1>8. Loss!TypeOK'
  <2>1. seq_num' \in Loss!SeqNums /\ arrived' \in Loss!SeqNums /\ seq_num_initialized' \in BOOLEAN
    BY <1>1, <1>2, <1>5
  <2>2. frames' \in Loss!Word /\ missing' \in Loss!Word /\ wraps' \in Loss!Word
    BY <1>4, <1>5, WordClosed
  <2> QED BY <2>1, <2>2, <1>5, <1>7
<1>9. InStep' /\ Loss!LossIsExactButForWraps'
  BY <1>2, <1>5, <1>7 DEF InStep, Loss!LossIsExactButForWraps
<1> QED BY <1>8, <1>9

LEMMA NextLoss == LossInv /\ [Loss!Next]_(Loss!vars) => LossInv'
<1> SUFFICES ASSUME LossInv, [Loss!Next]_(Loss!vars) PROVE LossInv'
  OBVIOUS
<1>1. CASE Loss!First
  BY <1>1 DEF Loss!First, LossInv, Loss!TypeOK, InStep, Loss!LossIsExactButForWraps
<1>2. ASSUME NEW ts \in Timestamps, Loss!Duplicate(ts) PROVE LossInv'
  <2>1. UNCHANGED <<seq_num, last_timestamp, packets, frames>>
    BY <1>2 DEF Loss!Duplicate, Loss!Evaluate, Loss!NotLater, LossInv, InStep
  <2> QED BY <1>2, <2>1 DEF Loss!Duplicate, LossInv, Loss!TypeOK, InStep, Loss!LossIsExactButForWraps
<1>3. ASSUME NEW ts \in Timestamps, NEW gap \in 0 .. MaxGap, Loss!Later(gap, ts) PROVE LossInv'
  BY <1>3, LaterLoss
<1>4. CASE UNCHANGED Loss!vars
  BY <1>4 DEF Loss!vars, LossInv, Loss!TypeOK, InStep, Loss!LossIsExactButForWraps
<1> QED BY <1>1, <1>2, <1>3, <1>4 DEF Loss!Next

LEMMA LossInvariance == Loss!Spec => []LossInv
BY InitLoss, NextLoss, PTL DEF Loss!Spec

\* Every field keeps its type: both sums stay words.
THEOREM LossTypeCorrect == Loss!Spec => []Loss!TypeOK
<1>1. LossInv => Loss!TypeOK
  BY DEF LossInv
<1> QED BY <1>1, LossInvariance, PTL

\* LOST_RTP_PACKETS_X is the number of lost packets less the number of times the
\* sequence numbers of the stream started over.
THEOREM LossIsExact == Loss!Spec => []LossIsExactButForWraps
<1>1. LossInv => LossIsExactButForWraps
  BY DEF LossInv, LossIsExactButForWraps
<1> QED BY <1>1, LossInvariance, PTL

\* LOST_RTP_FRAMES_X grows only at a gap, and by one.
THEOREM FramesNeedGaps == Loss!Spec => Loss!FrameNeedsAGap
<1>1. ASSUME LossInv, Loss!Next, frames' # frames
      PROVE  /\ frames' = Loss!Plus(frames, 1)
             /\ arrived' # arrived /\ arrived' # (arrived + 1) % SeqSize
  <2>1. PICK ts \in Timestamps, gap \in 0 .. MaxGap : Loss!Later(gap, ts)
    <3>1. ~ Loss!First
      BY <1>1 DEF Loss!First
    <3>2. ASSUME NEW ts \in Timestamps, Loss!Duplicate(ts) PROVE FALSE
      BY <1>1, <3>2 DEF Loss!Duplicate, Loss!Evaluate, Loss!NotLater, LossInv, InStep
    <3> QED BY <1>1, <3>1, <3>2 DEF Loss!Next
  <2> DEFINE wrapped == arrived + gap + 1 >= SeqSize
  <2>2. /\ arrived \in Loss!SeqNums /\ arrived' \in Loss!SeqNums /\ seq_num = arrived
        /\ arrived' = IF wrapped THEN arrived + gap + 1 - SeqSize ELSE arrived + gap + 1
    BY <1>1, <2>1, LossSizes DEF Loss!Later, LossInv, Loss!TypeOK, InStep, Loss!SeqNums
  <2>3. /\ ~ Loss!NotLater(arrived', seq_num)
        /\ Loss!u_short_diff(seq_num, arrived') = IF wrapped THEN gap ELSE gap + 1
    BY <2>2, DiffOfGap
  <2>4. /\ frames' = Loss!Plus(frames, 1)
        /\ 1 < (IF wrapped THEN gap ELSE gap + 1)
    BY <1>1, <2>1, <2>3 DEF Loss!Later, Loss!Evaluate
  <2>5. (arrived + 1) % SeqSize = IF arrived + 1 = SeqSize THEN 0 ELSE arrived + 1
    BY <2>2, LossSizes DEF Loss!SeqNums
  <2> QED BY <2>2, <2>4, <2>5, LossSizes DEF Loss!SeqNums
<1>2. LossInv /\ [Loss!Next]_(Loss!vars) =>
        [frames' # frames => frames' = Loss!Plus(frames, 1) /\ arrived' # arrived
                             /\ arrived' # (arrived + 1) % SeqSize]_(Loss!vars)
  BY <1>1 DEF Loss!vars
<1> QED BY <1>2, LossInvariance, PTL DEF Loss!Spec, Loss!FrameNeedsAGap
-----------------------------------------------------------------------------
(***************************************************************************)
(* The barrier.                                                            *)
(***************************************************************************)
Places == {"away", "behind", "inside"}

\* Those inside are a finite set, whose size the counter knows; once barrier_dtor was
\* called no thread comes any more.
GateInv ==
    /\ current \in Nat /\ opened \in Nat
    /\ place \in [Gatherers -> Places] /\ gate \in [Gatherers -> Nat]
    /\ destroyer \in {"none", "waiting", "done"}
    /\ current < Flag => current < Gatenum
    /\ IsFiniteSet(Gate!Inside)
    /\ destroyer # "none" => \A t \in Gatherers : place[t] = "away" \/ t \in Gate!Leaving
    /\ Gate!BarrierHoldsAll /\ Gate!FreedWhenAllLeft

LEMMA GateSizes == Flag \in Nat /\ Gatenum \in 1 .. Flag /\ "destroyer" \notin Gatherers
BY GateAssumption DEF Gate!GatenumFits

\* Barrier's Cardinality is the one that the library's theorems are about.
LEMMA SameCardinality == \A S : Gate!Cardinality(S) = Cardinality(S)
BY DEF Gate!Cardinality, Cardinality

\* Nobody leaves while they gather, and nobody gathers while they leave.
LEMMA WhoIsInside ==
    ASSUME GateInv
    PROVE  /\ Gate!Leaving \subseteq Gate!Inside /\ Gate!Inside \subseteq Gatherers
           /\ Cardinality(Gate!Inside) \in Nat
           /\ current < Flag => Gate!Leaving = {} /\ Cardinality(Gate!Inside) = current
           /\ current >= Flag => Gate!Leaving = Gate!Inside /\ Cardinality(Gate!Inside) = current - Flag
           /\ current = Flag => Gate!Inside = {}
           /\ current > Flag => Gate!Inside # {}
<1>1. Gate!Leaving \subseteq Gate!Inside /\ Gate!Inside \subseteq Gatherers
  BY DEF Gate!Leaving, Gate!Inside
<1>2. IsFiniteSet(Gate!Inside) /\ Cardinality(Gate!Inside) \in Nat
  BY FS_CardinalityType DEF GateInv
<1>3. /\ current < Flag => Gate!Leaving = {} /\ Cardinality(Gate!Inside) = current
      /\ current >= Flag => Gate!Leaving = Gate!Inside /\ Cardinality(Gate!Inside) = current - Flag
  BY GateSizes, SameCardinality DEF GateInv, Gate!BarrierHoldsAll
<1>4. Cardinality(Gate!Inside) = 0 <=> Gate!Inside = {}
  BY <1>2, FS_EmptySet
<1>5. QED
  BY <1>1, <1>2, <1>3, <1>4, GateSizes DEF GateInv

LEMMA InitGate == Gate!Init => GateInv
<1> SUFFICES ASSUME Gate!Init PROVE GateInv
  OBVIOUS
<1>1. Gate!Inside = {} /\ Gate!Leaving = {}
  BY DEF Gate!Init, Gate!Inside, Gate!Leaving
<1>2. IsFiniteSet({}) /\ Gate!Cardinality({}) = 0
  BY FS_EmptySet, SameCardinality
<1>3. QED
  BY <1>1, <1>2, GateSizes DEF Gate!Init, GateInv, Places, Gate!BarrierHoldsAll, Gate!FreedWhenAllLeft

\* A thread that the last opening does not let through yet.
LEMMA GatherGate ==
    ASSUME GateInv, NEW t \in Gatherers, Gate!barrier_wait(t)
    PROVE  GateInv'
<1>1. place[t] # "inside" /\ destroyer = "none" /\ destroyer' = destroyer
  BY DEF Gate!barrier_wait, Gate!Arrive, GateInv, Gate!Leaving, Gate!Inside
<1>2. t \notin Gate!Inside
  BY <1>1 DEF Gate!Inside
<1>3. CASE Gate!Occupied
  <2>1. /\ place' = [place EXCEPT ![t] = "behind"] /\ asleep' = asleep \cup {t}
        /\ UNCHANGED <<current, opened, gate>>
    BY <1>3 DEF Gate!barrier_wait
  <2>2. Gate!Inside' = Gate!Inside /\ Gate!Leaving' = Gate!Leaving
    BY <1>1, <2>1 DEF GateInv, Gate!Inside, Gate!Leaving
  <2>3. Gate!Leaving # {}
    BY <1>3, WhoIsInside, GateSizes DEF Gate!Occupied, GateInv
  <2>4. place' \in [Gatherers -> Places]
    BY <2>1 DEF GateInv, Places
  <2>5. QED
    BY <1>1, <1>2, <2>1, <2>2, <2>3, <2>4, WhoIsInside DEF GateInv, Gate!BarrierHoldsAll, Gate!FreedWhenAllLeft
<1>4. CASE ~ Gate!Occupied
  <2> DEFINE n == IF current = Flag THEN 0 ELSE current
  <2>1. /\ gate' = [gate EXCEPT ![t] = opened + 1]
        /\ IF n + 1 = Gatenum
           THEN /\ current' = Gatenum + (Flag - 1) /\ asleep' = {}
                /\ place' = [place EXCEPT ![t] = "away"] /\ opened' = opened + 1
           ELSE /\ current' = n + 1 /\ asleep' = asleep \cup {t}
                /\ place' = [place EXCEPT ![t] = "inside"] /\ opened' = opened
    BY <1>4 DEF Gate!barrier_wait, Gate!Enter, Gate!Open, Gate!Broadcast
  <2>2. /\ n \in Nat /\ Cardinality(Gate!Inside) = n /\ Gate!Leaving = {} /\ n < Gatenum
        /\ IsFiniteSet(Gate!Inside)
    BY <1>4, WhoIsInside, GateSizes DEF Gate!Occupied, GateInv
  <2> HIDE DEF n
  <2>3. CASE n + 1 = Gatenum
    <3>1. /\ current' = Gatenum + (Flag - 1) /\ asleep' = {} /\ opened' = opened + 1
          /\ place' = [place EXCEPT ![t] = "away"]
      BY <2>1, <2>3
    <3>2. Gate!Inside' = Gate!Inside
      BY <1>1, <3>1 DEF GateInv, Gate!Inside
    <3>3. \A x \in Gate!Inside : gate[x] = opened + 1 /\ gate'[x] = opened'
      BY <1>2, <2>1, <2>2, <3>1 DEF GateInv, Gate!BarrierHoldsAll, Gate!Leaving, Gate!Inside
    <3>4. opened' \in Nat /\ gate' \in [Gatherers -> Nat] /\ place' \in [Gatherers -> Places]
      BY <2>1, <3>1 DEF GateInv, Places
    <3>5. Gate!Leaving' = Gate!Inside
      BY <3>2, <3>3, <3>4 DEF Gate!Leaving
    <3>6. /\ current' \in Nat /\ current' >= Flag /\ ~ (current' < Flag)
          /\ Gate!Cardinality(Gate!Inside) = current' - Flag
      BY <2>2, <2>3, <3>1, GateSizes, SameCardinality
    <3>7. Gate!BarrierHoldsAll'
      BY <3>1, <3>2, <3>3, <3>4, <3>5, <3>6, GateSizes DEF Gate!BarrierHoldsAll
    <3>8. QED
      BY <1>1, <2>2, <3>2, <3>4, <3>6, <3>7 DEF GateInv, Gate!FreedWhenAllLeft
  <2>4. CASE n + 1 # Gatenum
    <3>1. /\ current' = n + 1 /\ asleep' = asleep \cup {t} /\ opened' = opened
          /\ place' = [place EXCEPT ![t] = "inside"] /\ gate' = [gate EXCEPT ![t] = opened + 1]
      BY <2>1, <2>4
    <3>2. Gate!Inside' = Gate!Inside \cup {t}
      BY <3>1 DEF GateInv, Gate!Inside
    <3>3. opened' \in Nat /\ gate' \in [Gatherers -> Nat] /\ place' \in [Gatherers -> Places]
      BY <3>1 DEF GateInv, Places
    <3>4. \A x \in Gate!Inside' : gate'[x] = opened + 1
      BY <2>2, <3>1, <3>2 DEF GateInv, Gate!BarrierHoldsAll, Gate!Leaving, Gate!Inside
    <3>5. Gate!Leaving' = {}
      BY <3>1, <3>4 DEF GateInv, Gate!Leaving
    <3>6. IsFiniteSet(Gate!Inside') /\ Cardinality(Gate!Inside') = n + 1
      BY <1>2, <2>2, <3>2, FS_AddElement
    <3>7. current' \in Nat /\ ~ (current' >= Flag) /\ current' < Gatenum
      BY <2>2, <2>4, <3>1, GateSizes
    <3>8. \A x \in asleep' : x # "destroyer" /\ x \in Gate!Inside'
      BY <2>2, <3>1, <3>2, GateSizes DEF GateInv, Gate!BarrierHoldsAll
    <3>9. Gate!BarrierHoldsAll'
      BY <3>1, <3>4, <3>5, <3>6, <3>7, <3>8, SameCardinality DEF Gate!BarrierHoldsAll
    <3>10. QED
      BY <1>1, <3>3, <3>5, <3>6, <3>7, <3>9 DEF GateInv, Gate!FreedWhenAllLeft
  <2>5. QED
    BY <2>3, <2>4
<1>5. QED
  BY <1>3, <1>4

LEMMA LeaveGate == ASSUME GateInv, NEW t \in Gatherers, Gate!Leave(t) PROVE GateInv'
<1>1. /\ t \in Gate!Inside /\ t \notin asleep
      /\ IF current < Flag
         THEN asleep' = asleep \cup {t} /\ current' = current /\ place' = place
         ELSE /\ current' = current - 1
              /\ place' = [place EXCEPT ![t] = "away"]
              /\ asleep' = IF current' = Flag THEN {} ELSE asleep
      /\ UNCHANGED <<destroyer, opened, gate>>
  BY DEF Gate!Leave, Gate!Inside, Gate!Broadcast
<1>2. CASE current < Flag
  <2>1. Gate!Inside' = Gate!Inside /\ Gate!Leaving' = Gate!Leaving
    BY <1>1, <1>2 DEF Gate!Inside, Gate!Leaving
  <2>2. Gate!Leaving = {}
    BY <1>2, WhoIsInside
  <2>3. t # "destroyer"
    BY <1>1, GateSizes DEF Gate!Inside
  <2>4. QED
    BY <1>1, <1>2, <2>1, <2>2, <2>3 DEF GateInv, Gate!BarrierHoldsAll, Gate!FreedWhenAllLeft
<1>3. CASE ~ (current < Flag)
  <2>1. /\ current' = current - 1 /\ place' = [place EXCEPT ![t] = "away"]
        /\ asleep' = IF current' = Flag THEN {} ELSE asleep
    BY <1>1, <1>3
  <2>2. /\ Gate!Leaving = Gate!Inside /\ Cardinality(Gate!Inside) = current - Flag
        /\ current > Flag /\ IsFiniteSet(Gate!Inside) /\ Gate!Inside \subseteq Gatherers
    BY <1>1, <1>3, WhoIsInside, GateSizes DEF GateInv
  <2>3. /\ Gate!Inside' = Gate!Inside \ {t} /\ Gate!Leaving' = Gate!Inside \ {t}
        /\ place' \in [Gatherers -> Places]
    <3>1. Gate!Inside' = Gate!Inside \ {t}
      BY <1>1, <2>1, <2>2 DEF GateInv, Gate!Inside
    <3>2. Gate!Leaving' = Gate!Leaving \ {t}
      BY <1>1, <3>1 DEF Gate!Leaving
    <3>3. QED
      BY <2>1, <2>2, <3>1, <3>2 DEF GateInv, Places
  <2>4. IsFiniteSet(Gate!Inside \ {t}) /\ Cardinality(Gate!Inside \ {t}) = current' - Flag
    <3>1. /\ IsFiniteSet(Gate!Inside \ {t})
          /\ Cardinality(Gate!Inside \ {t}) = Cardinality(Gate!Inside) - 1
      BY <1>1, <2>2, FS_RemoveElement
    <3>2. QED
      BY <2>1, <2>2, <3>1, GateSizes DEF GateInv
  <2>5. /\ current' \in Nat /\ current' >= Flag /\ ~ (current' < Flag)
        /\ current' > Flag => Gate!Inside \ {t} # {}
    <3>1. current' \in Nat /\ current' >= Flag /\ ~ (current' < Flag)
      BY <2>1, <2>2, GateSizes DEF GateInv
    <3>2. Gate!Inside \ {t} = {} => Cardinality(Gate!Inside \ {t}) = 0
      BY FS_EmptySet
    <3>3. QED
      <4>1. \A c, f \in Nat : c - f = 0 => ~ (c > f)
        OBVIOUS
      <4>2. CASE Gate!Inside \ {t} = {}
        <5>1. current' - Flag = 0
          BY <2>4, <3>2, <4>2
        <5>2. QED
          BY <3>1, <4>1, <5>1, GateSizes
      <4>3. QED
        BY <3>1, <4>2
  <2>6. Gate!BarrierHoldsAll'
    BY <1>1, <2>1, <2>2, <2>3, <2>4, <2>5, SameCardinality, GateSizes DEF GateInv, Gate!BarrierHoldsAll
  <2>7. destroyer # "done"
    BY <1>1, <2>2 DEF GateInv, Gate!FreedWhenAllLeft
  <2>8. destroyer # "none" => \A x \in Gatherers : place'[x] = "away" \/ x \in Gate!Leaving'
    BY <1>1, <2>1, <2>2, <2>3 DEF GateInv
  <2>9. QED
    BY <1>1, <2>3, <2>4, <2>5, <2>6, <2>7, <2>8 DEF GateInv, Gate!FreedWhenAllLeft
<1>4. QED
  BY <1>2, <1>3

LEMMA NextGate == GateInv /\ [Gate!Next]_(Gate!vars) => GateInv'
<1> SUFFICES ASSUME GateInv, [Gate!Next]_(Gate!vars) PROVE GateInv'
  OBVIOUS
<1>1. ASSUME NEW t \in Gatherers, Gate!barrier_wait(t) \/ Gate!Leave(t) PROVE GateInv'
  BY <1>1, GatherGate, LeaveGate
<1>2. ASSUME UNCHANGED <<current, place, opened, gate>>
      PROVE  Gate!Inside' = Gate!Inside /\ Gate!Leaving' = Gate!Leaving
  BY <1>2 DEF Gate!Inside, Gate!Leaving
<1>3. ASSUME NEW t \in Gatherers \cup {"destroyer"}, Gate!WakeUp(t) PROVE GateInv'
  BY <1>2, <1>3 DEF Gate!WakeUp, GateInv, Gate!BarrierHoldsAll, Gate!FreedWhenAllLeft
<1>4. CASE Gate!barrier_dtor
  <2>1. /\ UNCHANGED <<current, place, opened, gate>>
        /\ \A x \in Gatherers : place[x] = "away" \/ x \in Gate!Leaving
        /\ IF current > Flag
           THEN destroyer' = "waiting" /\ asleep' = asleep \cup {"destroyer"}
           ELSE destroyer' = "done" /\ asleep' = asleep
    BY <1>4 DEF Gate!barrier_dtor, Gate!Occupied, GateInv
  <2>2. IF current > Flag THEN Gate!Leaving # {} ELSE Gate!Leaving = {}
    BY WhoIsInside, GateSizes DEF GateInv
  <2>3. "destroyer" \notin Gate!Leaving
    BY GateSizes DEF Gate!Leaving, Gate!Inside
  <2>4. QED
    BY <1>2, <2>1, <2>2, <2>3 DEF GateInv, Gate!BarrierHoldsAll, Gate!FreedWhenAllLeft
<1>5. CASE UNCHANGED Gate!vars
  BY <1>2, <1>5 DEF Gate!vars, GateInv, Gate!BarrierHoldsAll, Gate!FreedWhenAllLeft
<1>6. QED
  BY <1>1, <1>3, <1>4, <1>5 DEF Gate!Next

\* For any threads and any number of them that the gate waits for, an opening lets
\* through exactly those who gathered for it, leaves none of them asleep, and
\* barrier_dtor does not free the barrier before they all have left.
THEOREM BarrierIsSafe == Gate!Spec => []BarrierHoldsAll
<1>1. GateInv => BarrierHoldsAll
  BY DEF GateInv, BarrierHoldsAll
<1>2. QED
  BY <1>1, InitGate, NextGate, PTL DEF Gate!Spec

(***************************************************************************)
(* The vector.                                                             *)
(***************************************************************************)
Words == Items \cup {Garbage}

\* A memory of a words whose first items are those of the list s.
Stores(m, a, s) ==
    /\ a \in Nat \ {0} /\ m \in [1 .. a -> Words]
    /\ s \in Seq(Items) /\ Len(s) <= a
    /\ \A i \in 1 .. Len(s) : m[i] = s[i]

\* The inductive invariant: until a call goes astray the memory is as large as the vector
\* believes, never empty, and its first items_num words are the list.
VectorInv ==
    /\ overrun \in BOOLEAN
    /\ ~ astray => /\ Stores(memory, items_alloc_num, listed)
                   /\ items_num = Len(listed)
                   /\ overrun => items_num = items_alloc_num - 1

LEMMA FunctionIsSeq ==
    ASSUME NEW S, NEW n \in Nat, NEW f \in [1 .. n -> S]
    PROVE  f \in Seq(S) /\ Len(f) = n
<1>1. f \in Seq(S)
  BY SeqDef
<1>2. QED
  BY <1>1, LenProperties

LEMMA AtStored ==
    ASSUME NEW a \in Nat, NEW m \in [1 .. a -> Words], NEW i
    PROVE  /\ i \in 1 .. a => Vect!At(m, i) = m[i]
           /\ Vect!At(m, i) \in Words
           /\ ~ Vect!Outside(m, i) <=> i \in 1 .. a
BY DEF Vect!At, Vect!Outside, Words

LEMMA VectorInvList == VectorInv => Vect!VectorIsList
<1> SUFFICES ASSUME VectorInv, ~ astray PROVE Vect!VectorIsList
  BY DEF Vect!VectorIsList
<1>1. Stores(memory, items_alloc_num, listed) /\ items_num = Len(listed)
  BY DEF VectorInv
<1>2. Len(listed) \in Nat
  BY <1>1, LenProperties DEF Stores
<1>3. Len(memory) = items_alloc_num
  BY <1>1, FunctionIsSeq DEF Stores
<1>4. \A i \in 1 .. items_num : Vect!At(memory, i) = listed[i]
  BY <1>1, <1>2, AtStored DEF Stores
<1>5. QED
  BY <1>1, <1>3, <1>4 DEF Stores, VectorInv, Vect!VectorIsList

LEMMA InitVector == Vect!Init => VectorInv
<1> SUFFICES ASSUME Vect!Init PROVE VectorInv
  OBVIOUS
<1>1. listed \in Seq(Items) /\ Len(listed) = 0
  BY EmptySeq DEF Vect!Init
<1>2. memory \in [1 .. items_alloc_num -> Words]
  BY DEF Vect!Init, Words
<1>3. items_alloc_num \in Nat \ {0} /\ Stores(memory, items_alloc_num, listed)
  BY <1>1, <1>2, ListAssumption DEF Vect!Init, Stores
<1>4. QED
  BY <1>1, <1>3 DEF Vect!Init, VectorInv

\* vector_grow makes room for one item more and keeps those there are.
LEMMA RoomKeepsItems ==
    ASSUME VectorInv, ~ astray, NEW size \in Nat
    PROVE  /\ Stores(Vect!Room(size), Vect!Grown(size), listed)
           /\ Len(listed) + 1 <= Vect!Grown(size)
<1> DEFINE a == items_alloc_num  n == Len(listed)  g == Vect!Grown(size)
<1>1. Stores(memory, a, listed) /\ items_num = n
  BY DEF VectorInv
<1>2. n \in Nat /\ a \in Nat \ {0} /\ n <= a
  BY <1>1, LenProperties DEF Stores
<1>3. g \in Nat \ {0} /\ n + 1 <= g
  BY <1>1, <1>2 DEF Vect!Grown, Vect!hasspace
<1>4. CASE Vect!hasspace
  BY <1>1, <1>3, <1>4 DEF Vect!Room, Vect!Grown
<1>5. CASE ~ Vect!hasspace
  <2>1. Vect!Room(size) = [i \in 1 .. g |-> Vect!At(memory, i)]
    BY <1>5 DEF Vect!Room, Vect!Realloc
  <2>2. memory \in [1 .. a -> Words]
    BY <1>1 DEF Stores
  <2>3. Vect!Room(size) \in [1 .. g -> Words]
    BY <1>2, <2>1, <2>2, AtStored
  <2>4. \A i \in 1 .. n : Vect!Room(size)[i] = listed[i]
    <3>1. TAKE i \in 1 .. n
    <3>2. i \in 1 .. g /\ i \in 1 .. a
      BY <1>2, <1>3
    <3>3. memory[i] = listed[i]
      BY <1>1 DEF Stores
    <3>4. Vect!At(memory, i) = memory[i]
      BY <1>2, <2>2, <3>2, AtStored
    <3> HIDE DEF n, a, g
    <3>5. Vect!Room(size)[i] = Vect!At(memory, i)
      BY <2>1, <3>2
    <3>6. QED
      BY <3>3, <3>4, <3>5
  <2>5. QED
    BY <1>1, <1>2, <1>3, <2>3, <2>4 DEF Stores
<1>6. QED
  BY <1>3, <1>4, <1>5

\* What the list operators of the history do, item by item.
LEMMA AppendItems ==
    ASSUME NEW s \in Seq(Items), NEW x \in Items
    PROVE  /\ Append(s, x) \in Seq(Items) /\ Len(Append(s, x)) = Len(s) + 1
           /\ \A i \in 1 .. Len(s) + 1 : Append(s, x)[i] = IF i = Len(s) + 1 THEN x ELSE s[i]
BY AppendProperties, LenProperties

LEMMA ConsItems ==
    ASSUME NEW S, NEW s \in Seq(S), NEW x \in S
    PROVE  /\ <<x>> \o s \in Seq(S) /\ Len(<<x>> \o s) = Len(s) + 1
           /\ \A i \in 1 .. Len(s) + 1 : (<<x>> \o s)[i] = IF i = 1 THEN x ELSE s[i - 1]
<1>1. PICK one : one = <<x>>
  OBVIOUS
<1>2. one \in Seq(S) /\ Len(one) = 1 /\ one[1] = x
  BY <1>1
<1>3. PICK r : r = one \o s
  OBVIOUS
<1>4. /\ r \in Seq(S) /\ Len(r) = Len(one) + Len(s)
      /\ \A i \in 1 .. Len(one) + Len(s) : r[i] = IF i <= Len(one) THEN one[i] ELSE s[i - Len(one)]
  BY <1>2, <1>3, ConcatProperties
<1>5. Len(s) \in Nat
  BY LenProperties
<1>6. /\ r \in Seq(S) /\ Len(r) = Len(s) + 1
      /\ \A i \in 1 .. Len(s) + 1 : r[i] = IF i = 1 THEN x ELSE s[i - 1]
  BY <1>2, <1>4, <1>5
<1>7. r = <<x>> \o s
  BY <1>1, <1>3
<1>8. QED
  BY <1>6, <1>7

LEMMA RemoveItem ==
    ASSUME NEW s \in Seq(Items), NEW k \in 1 .. Len(s)
    PROVE  /\ Vect!RemoveAt(s, k) \in Seq(Items) /\ Len(Vect!RemoveAt(s, k)) = Len(s) - 1
           /\ \A i \in 1 .. Len(s) - 1 : Vect!RemoveAt(s, k)[i] = IF i < k THEN s[i] ELSE s[i + 1]
<1>1. PICK b : b = SubSeq(s, 1, k - 1)
  OBVIOUS
<1>2. PICK e : e = SubSeq(s, k + 1, Len(s))
  OBVIOUS
<1>3. Len(s) \in Nat /\ \A i \in 1 .. Len(s) : s[i] \in Items
  BY LenProperties, ElementOfSeq
<1>4. b \in Seq(Items) /\ Len(b) = k - 1 /\ \A i \in 1 .. k - 1 : b[i] = s[i]
  <2>1. \A i \in 1 .. k - 1 : s[i] \in Items
    BY <1>3
  <2>2. QED
    BY <1>1, <1>3, <2>1, SubSeqProperties
<1>5. e \in Seq(Items) /\ Len(e) = Len(s) - k /\ \A i \in 1 .. Len(s) - k : e[i] = s[k + i]
  <2>1. \A i \in k + 1 .. Len(s) : s[i] \in Items
    BY <1>3
  <2>2. k + 1 \in Int /\ Len(s) \in Int
    BY <1>3
  <2>3. /\ e \in Seq(Items) /\ Len(e) = IF k + 1 <= Len(s) THEN Len(s) - (k + 1) + 1 ELSE 0
        /\ \A i \in 1 .. Len(s) - (k + 1) + 1 : e[i] = s[k + 1 + i - 1]
    BY <1>2, <2>1, <2>2, SubSeqProperties
  <2>4. QED
    BY <1>3, <2>3
<1>6. Vect!RemoveAt(s, k) = b \o e
  BY <1>1, <1>2 DEF Vect!RemoveAt
<1>7. PICK r : r = b \o e
  OBVIOUS
<1>8. /\ r \in Seq(Items) /\ Len(r) = Len(b) + Len(e)
      /\ \A i \in 1 .. Len(b) + Len(e) : r[i] = IF i <= Len(b) THEN b[i] ELSE e[i - Len(b)]
  BY <1>4, <1>5, <1>7, ConcatProperties
<1>9. /\ r \in Seq(Items) /\ Len(r) = Len(s) - 1
      /\ \A i \in 1 .. Len(s) - 1 : r[i] = IF i < k THEN s[i] ELSE s[i + 1]
  <2>1. Len(b) = k - 1 /\ Len(b) + Len(e) = Len(s) - 1
    BY <1>3, <1>4, <1>5
  <2>2. ASSUME NEW i \in 1 .. Len(s) - 1, i < k PROVE r[i] = s[i]
    <3>1. i \in 1 .. k - 1 /\ i <= Len(b)
      BY <1>3, <2>1, <2>2
    <3>2. QED
      BY <1>4, <1>8, <2>1, <3>1
  <2>3. ASSUME NEW i \in 1 .. Len(s) - 1, ~ (i < k) PROVE r[i] = s[i + 1]
    <3>1. i - (k - 1) \in 1 .. Len(s) - k /\ k + (i - (k - 1)) = i + 1
      BY <1>3, <2>3
    <3>2. r[i] = e[i - (k - 1)]
      BY <1>3, <1>8, <2>1, <2>3
    <3>3. QED
      BY <1>5, <3>1, <3>2
  <2>4. QED
    BY <1>8, <2>1, <2>2, <2>3
<1>10. QED
  BY <1>6, <1>7, <1>9

LEMMA InsertItem ==
    ASSUME NEW s \in Seq(Items), NEW k \in 1 .. Len(s) + 1, NEW x \in Items
    PROVE  /\ Vect!InsertAt(s, k, x) \in Seq(Items) /\ Len(Vect!InsertAt(s, k, x)) = Len(s) + 1
           /\ \A i \in 1 .. Len(s) + 1 :
                 Vect!InsertAt(s, k, x)[i] = IF i < k THEN s[i] ELSE IF i = k THEN x ELSE s[i - 1]
<1>1. PICK b : b = SubSeq(s, 1, k - 1)
  OBVIOUS
<1>2. PICK e : e = SubSeq(s, k, Len(s))
  OBVIOUS
<1>3. Len(s) \in Nat /\ \A i \in 1 .. Len(s) : s[i] \in Items
  BY LenProperties, ElementOfSeq
<1>4. b \in Seq(Items) /\ Len(b) = k - 1 /\ \A i \in 1 .. k - 1 : b[i] = s[i]
  <2>1. \A i \in 1 .. k - 1 : s[i] \in Items
    BY <1>3
  <2>2. QED
    BY <1>1, <1>3, <2>1, SubSeqProperties
<1>5. e \in Seq(Items) /\ Len(e) = Len(s) - k + 1 /\ \A i \in 1 .. Len(s) - k + 1 : e[i] = s[k + i - 1]
  <2>1. \A i \in k .. Len(s) : s[i] \in Items
    BY <1>3
  <2>2. k \in Int /\ Len(s) \in Int
    BY <1>3
  <2>3. /\ e \in Seq(Items) /\ Len(e) = IF k <= Len(s) THEN Len(s) - k + 1 ELSE 0
        /\ \A i \in 1 .. Len(s) - k + 1 : e[i] = s[k + i - 1]
    BY <1>2, <2>1, <2>2, SubSeqProperties
  <2>4. k <= Len(s) \/ Len(s) - k + 1 = 0
    BY <2>2
  <2>5. Len(e) = Len(s) - k + 1
    BY <2>2, <2>3, <2>4
  <2>6. QED
    BY <2>3, <2>5
<1>6. PICK one : one = <<x>>
  OBVIOUS
<1>7. one \in Seq(Items) /\ Len(one) = 1 /\ one[1] = x
  BY <1>6
<1>8. PICK front : front = b \o one
  OBVIOUS
<1>9. /\ front \in Seq(Items) /\ Len(front) = Len(b) + Len(one)
      /\ \A i \in 1 .. Len(b) + Len(one) : front[i] = IF i <= Len(b) THEN b[i] ELSE one[i - Len(b)]
  BY <1>4, <1>7, <1>8, ConcatProperties
<1>10. front \in Seq(Items) /\ Len(front) = k /\ \A i \in 1 .. k : front[i] = IF i < k THEN s[i] ELSE x
  BY <1>3, <1>4, <1>7, <1>9
<1>11. PICK r : r = front \o e
  OBVIOUS
<1>12. /\ r \in Seq(Items) /\ Len(r) = Len(front) + Len(e)
       /\ \A i \in 1 .. Len(front) + Len(e) : r[i] = IF i <= Len(front) THEN front[i] ELSE e[i - Len(front)]
  BY <1>5, <1>10, <1>11, ConcatProperties
<1>13. /\ r \in Seq(Items) /\ Len(r) = Len(s) + 1
       /\ \A i \in 1 .. Len(s) + 1 : r[i] = IF i < k THEN s[i] ELSE IF i = k THEN x ELSE s[i - 1]
  BY <1>3, <1>5, <1>10, <1>12
<1>14. Vect!InsertAt(s, k, x) = r
  BY <1>1, <1>2, <1>6, <1>8, <1>11 DEF Vect!InsertAt
<1>15. QED
  BY <1>13, <1>14

\* What is moved or put in the memory, word by word.
LEMMA MovedWords ==
    ASSUME NEW a \in Nat, NEW m \in [1 .. a -> Words], NEW from \in Int, NEW to \in Int, NEW n \in Int
    PROVE  /\ Vect!Moved(m, from, to, n) \in [1 .. a -> Words]
           /\ \A i \in 1 .. a : Vect!Moved(m, from, to, n)[i] =
                 IF i \in to .. to + n - 1 THEN Vect!At(m, i - to + from) ELSE m[i]
BY AtStored DEF Vect!Moved

LEMMA PutWord ==
    ASSUME NEW a \in Nat, NEW m \in [1 .. a -> Words], NEW k, NEW x \in Items
    PROVE  /\ Vect!Put(m, k, x) \in [1 .. a -> Words]
           /\ \A i \in 1 .. a : Vect!Put(m, k, x)[i] = IF i = k THEN x ELSE m[i]
BY DEF Vect!Put, Words

LEMMA PushVector ==
    ASSUME VectorInv, ~ astray, ~ overrun, NEW x \in Items, Vect!push(x)
    PROVE  VectorInv'
<1> DEFINE n == Len(listed)  r == Vect!Room(0)  g == Vect!Grown(0)
<1>1. Stores(r, g, listed) /\ n + 1 <= g /\ items_num = n
  BY RoomKeepsItems DEF VectorInv
<1>2. memory' = Vect!Put(r, n + 1, x) /\ items_alloc_num' = g /\ listed' = Append(listed, x)
  BY <1>1 DEF Vect!push
<1>3. n \in Nat /\ g \in Nat \ {0} /\ r \in [1 .. g -> Words] /\ listed \in Seq(Items)
  BY <1>1, LenProperties DEF Stores
<1>4. /\ listed' \in Seq(Items) /\ Len(listed') = n + 1
      /\ \A i \in 1 .. n + 1 : listed'[i] = IF i = n + 1 THEN x ELSE listed[i]
  BY <1>2, <1>3, AppendItems
<1>5. memory' \in [1 .. g -> Words] /\ \A i \in 1 .. g : memory'[i] = IF i = n + 1 THEN x ELSE r[i]
  BY <1>2, <1>3, PutWord
<1>6. \A i \in 1 .. n : r[i] = listed[i]
  BY <1>1 DEF Stores
<1> HIDE DEF n, r, g
<1>7. \A i \in 1 .. n + 1 : memory'[i] = listed'[i]
  BY <1>1, <1>3, <1>4, <1>5, <1>6
<1>8. Stores(memory', items_alloc_num', listed')
  BY <1>1, <1>2, <1>3, <1>4, <1>5, <1>7 DEF Stores
<1>9. ~ Vect!Outside(memory', items_num + 1)
  BY <1>1, <1>3, <1>5, AtStored
<1>10. items_num' = Len(listed') /\ overrun' = FALSE
  BY <1>1, <1>4, <1>9 DEF Vect!push
<1>11. QED
  BY <1>8, <1>10 DEF VectorInv

LEMMA UnshiftVector ==
    ASSUME VectorInv, ~ astray, ~ overrun, NEW x \in Items, Vect!unshift(x)
    PROVE  VectorInv'
<1> DEFINE n == Len(listed)  r == Vect!Room(n + 1)  g == Vect!Grown(n + 1)  o == Vect!Moved(r, 1, 2, n)
<1>1. n \in Nat /\ items_num = n
  BY LenProperties DEF VectorInv, Stores
<1>2. Stores(r, g, listed) /\ n + 1 <= g
  BY <1>1, RoomKeepsItems
<1>3. memory' = Vect!Put(o, 1, x) /\ items_alloc_num' = g /\ listed' = <<x>> \o listed
  BY <1>1 DEF Vect!unshift
<1>4. g \in Nat \ {0} /\ r \in [1 .. g -> Words] /\ listed \in Seq(Items)
  BY <1>2 DEF Stores
<1>5. /\ listed' \in Seq(Items) /\ Len(listed') = n + 1
      /\ \A i \in 1 .. n + 1 : listed'[i] = IF i = 1 THEN x ELSE listed[i - 1]
  BY <1>3, <1>4, ConsItems
<1>6. /\ o \in [1 .. g -> Words]
      /\ \A i \in 1 .. g : o[i] = IF i \in 2 .. 2 + n - 1 THEN Vect!At(r, i - 2 + 1) ELSE r[i]
  BY <1>1, <1>4, MovedWords
<1> HIDE DEF r, g, o
<1>7. memory' \in [1 .. g -> Words] /\ \A i \in 1 .. g : memory'[i] = IF i = 1 THEN x ELSE o[i]
  BY <1>3, <1>4, <1>6, PutWord
<1>8. \A i \in 1 .. n : r[i] = listed[i] /\ Vect!At(r, i) = r[i]
  BY <1>1, <1>2, <1>4, AtStored DEF Stores
<1> HIDE DEF n
<1>9. \A i \in 1 .. n + 1 : memory'[i] = listed'[i]
  <2>1. TAKE i \in 1 .. n + 1
  <2>2. CASE i = 1
    BY <1>1, <1>2, <1>4, <1>5, <1>7, <2>2
  <2>3. CASE i # 1
    <3>1. i - 1 \in 1 .. n /\ i \in 1 .. g /\ i \in 2 .. 2 + n - 1 /\ i - 2 + 1 = i - 1
      BY <1>1, <1>2, <1>4, <2>3
    <3>2. memory'[i] = Vect!At(r, i - 1)
      BY <1>6, <1>7, <2>3, <3>1
    <3>3. QED
      BY <1>5, <1>8, <2>3, <3>1, <3>2
  <2>4. QED
    BY <2>2, <2>3
<1>10. Stores(memory', items_alloc_num', listed')
  BY <1>2, <1>3, <1>4, <1>5, <1>7, <1>9 DEF Stores
<1>11. ~ Vect!Outside(memory', items_num + 1)
  BY <1>1, <1>2, <1>4, <1>7, AtStored
<1>12. items_num' = Len(listed') /\ overrun' = FALSE
  BY <1>1, <1>5, <1>11 DEF Vect!unshift
<1>13. QED
  BY <1>10, <1>12 DEF VectorInv

LEMMA InsertAtVector ==
    ASSUME VectorInv, ~ astray, ~ overrun, NEW x \in Items, NEW k \in 1 .. items_num + 2,
           Vect!insert_at(x, k)
    PROVE  VectorInv'
<1> DEFINE n == Len(listed)  r == Vect!Room(0)  g == Vect!Grown(0)
           o == Vect!Moved(r, k, k + 1, n - k + 1)
<1>1. n \in Nat /\ items_num = n /\ k \in Nat
  BY LenProperties DEF VectorInv, Stores
<1>2. CASE k > n + 1
  <2>1. astray' /\ overrun' \in BOOLEAN
    BY <1>1, <1>2 DEF Vect!insert_at
  <2>2. QED
    BY <2>1 DEF VectorInv
<1>3. CASE k <= n + 1
  <2>1. Stores(r, g, listed) /\ n + 1 <= g
    BY RoomKeepsItems
  <2>2. memory' = Vect!Put(o, k, x) /\ items_alloc_num' = g /\ listed' = Vect!InsertAt(listed, k, x)
    BY <1>1, <1>3 DEF Vect!insert_at
  <2>3. g \in Nat \ {0} /\ r \in [1 .. g -> Words] /\ listed \in Seq(Items) /\ k \in 1 .. n + 1
    BY <1>1, <1>3, <2>1 DEF Stores
  <2>4. /\ listed' \in Seq(Items) /\ Len(listed') = n + 1
        /\ \A i \in 1 .. n + 1 :
              listed'[i] = IF i < k THEN listed[i] ELSE IF i = k THEN x ELSE listed[i - 1]
    <3> HIDE DEF r, g, o
    <3>1. listed \in Seq(Items) /\ k \in 1 .. Len(listed) + 1
      BY <2>3
    <3>2. PICK s : s = listed
      OBVIOUS
    <3>3. PICK e : e = Vect!InsertAt(s, k, x)
      OBVIOUS
    <3>4. /\ e \in Seq(Items) /\ Len(e) = Len(s) + 1
          /\ \A i \in 1 .. Len(s) + 1 : e[i] = IF i < k THEN s[i] ELSE IF i = k THEN x ELSE s[i - 1]
      <4>1. s \in Seq(Items) /\ k \in 1 .. Len(s) + 1 /\ x \in Items
        BY <3>1, <3>2
      <4>2. /\ Vect!InsertAt(s, k, x) \in Seq(Items) /\ Len(Vect!InsertAt(s, k, x)) = Len(s) + 1
            /\ \A i \in 1 .. Len(s) + 1 :
                 Vect!InsertAt(s, k, x)[i] = IF i < k THEN s[i] ELSE IF i = k THEN x ELSE s[i - 1]
        BY <4>1, InsertItem, ZenonT(60)
      <4>3. QED
        BY <3>3, <4>2
    <3>5. QED
      BY <2>2, <3>2, <3>3, <3>4
  <2>5. /\ o \in [1 .. g -> Words]
        /\ \A i \in 1 .. g :
              o[i] = IF i \in k + 1 .. k + 1 + (n - k + 1) - 1 THEN Vect!At(r, i - (k + 1) + k) ELSE r[i]
    <3>1. k + 1 \in Int /\ n - k + 1 \in Int /\ k \in Int
      BY <1>1
    <3>2. QED
      BY <2>3, <3>1, MovedWords
  <2> HIDE DEF r, g, o
  <2>6. memory' \in [1 .. g -> Words] /\ \A i \in 1 .. g : memory'[i] = IF i = k THEN x ELSE o[i]
    BY <2>2, <2>3, <2>5, PutWord, SMTT(40)
  <2>7. \A i \in 1 .. n : r[i] = listed[i] /\ Vect!At(r, i) = r[i]
    BY <1>1, <2>1, <2>3, AtStored DEF Stores
  <2> HIDE DEF n
  <2>8. \A i \in 1 .. n + 1 : memory'[i] = listed'[i]
    <3>1. TAKE i \in 1 .. n + 1
    <3>2. CASE i = k
      BY <2>1, <2>3, <2>4, <2>6, <3>2
    <3>3. CASE i < k
      <4>1. i \in 1 .. n /\ i \in 1 .. g /\ i # k /\ i \notin k + 1 .. k + 1 + (n - k + 1) - 1
        BY <1>1, <1>3, <2>1, <2>3, <3>3
      <4>2. memory'[i] = r[i] /\ listed'[i] = listed[i]
        BY <2>4, <2>5, <2>6, <3>3, <4>1
      <4>3. QED
        BY <2>7, <4>1, <4>2
    <3>4. CASE i > k
      <4>1. /\ i - 1 \in 1 .. n /\ i \in 1 .. g
            /\ i \in k + 1 .. k + 1 + (n - k + 1) - 1 /\ i - (k + 1) + k = i - 1
        BY <1>1, <2>1, <2>3, <3>4
      <4>2. memory'[i] = Vect!At(r, i - 1)
        BY <1>1, <2>5, <2>6, <3>4, <4>1
      <4>3. listed'[i] = listed[i - 1]
        BY <1>1, <2>4, <3>4
      <4>4. QED
        BY <2>7, <4>1, <4>2, <4>3
    <3>5. QED
      BY <1>1, <3>2, <3>3, <3>4
  <2>9. Stores(memory', items_alloc_num', listed')
    BY <2>1, <2>2, <2>3, <2>4, <2>6, <2>8 DEF Stores
  <2>10. ~ Vect!Outside(memory', items_num + 1)
    BY <1>1, <2>1, <2>3, <2>6, AtStored
  <2>11. items_num' = Len(listed') /\ overrun' = FALSE
    BY <1>1, <2>4, <2>10 DEF Vect!insert_at
  <2>12. QED
    BY <2>9, <2>11 DEF VectorInv
<1>4. QED
  BY <1>1, <1>2, <1>3

LEMMA InsertVector ==
    ASSUME VectorInv, ~ astray, ~ overrun, NEW x \in Items, NEW k \in 1 .. items_num + 2,
           Vect!insert(x, k)
    PROVE  VectorInv'
<1> DEFINE n == Len(listed)  a == items_alloc_num
<1>1. Stores(memory, a, listed) /\ items_num = n
  BY DEF VectorInv
<1>2. n \in Nat /\ k \in 1 .. n /\ listed \in Seq(Items) /\ memory \in [1 .. a -> Words] /\ a \in Nat /\ n <= a
  BY <1>1, LenProperties DEF Vect!insert, Stores
<1>3. memory' = Vect!Put(memory, k, x) /\ listed' = [listed EXCEPT ![k] = x]
  BY DEF Vect!insert, Vect!ReplaceAt
<1>4. /\ listed' \in Seq(Items) /\ Len(listed') = n
      /\ \A i \in 1 .. n : listed'[i] = IF i = k THEN x ELSE listed[i]
  BY <1>2, <1>3, ExceptSeq
<1>5. memory' \in [1 .. a -> Words] /\ \A i \in 1 .. a : memory'[i] = IF i = k THEN x ELSE memory[i]
  BY <1>2, <1>3, PutWord
<1>6. Stores(memory', a, listed')
  BY <1>1, <1>2, <1>4, <1>5 DEF Stores
<1>7. QED
  BY <1>1, <1>4, <1>6 DEF Vect!insert, VectorInv

\* What a step starts from, unless a call went astray.
LEMMA VectorFacts ==
    ASSUME VectorInv, ~ astray
    PROVE  /\ Len(listed) \in Nat /\ items_num = Len(listed)
           /\ items_alloc_num \in Nat /\ Len(listed) <= items_alloc_num
           /\ listed \in Seq(Items) /\ memory \in [1 .. items_alloc_num -> Words]
           /\ \A i \in 1 .. Len(listed) : memory[i] = listed[i] /\ listed[i] \in Items
BY LenProperties, ElementOfSeq DEF VectorInv, Stores

LEMMA PopVector ==
    ASSUME VectorInv, ~ astray, ~ overrun, Vect!pop
    PROVE  VectorInv'
<1> DEFINE n == Len(listed)
<1>1. n \in Nat \ {0} /\ listed \in Seq(Items) /\ listed' = SubSeq(listed, 1, n - 1)
  BY VectorFacts DEF Vect!pop, Vect!Front
<1>2. \A i \in 1 .. n - 1 : listed[i] \in Items
  BY <1>1, VectorFacts
<1>3. /\ listed' \in Seq(Items) /\ Len(listed') = n - 1
      /\ \A i \in 1 .. n - 1 : listed'[i] = listed[i]
  <2>1. PICK s : s = SubSeq(listed, 1, n - 1)
    OBVIOUS
  <2>2. /\ s \in Seq(Items) /\ Len(s) = IF 1 <= n - 1 THEN n - 1 - 1 + 1 ELSE 0
        /\ \A i \in 1 .. n - 1 - 1 + 1 : s[i] = listed[1 + i - 1]
    BY <1>1, <1>2, <2>1, SubSeqProperties
  <2> HIDE DEF n
  <2>3. n - 1 - 1 + 1 = n - 1 /\ \A i \in 1 .. n - 1 : 1 + i - 1 = i
    BY <1>1
  <2>4. Len(s) = n - 1
    BY <1>1, <2>2
  <2>5. \A i \in 1 .. n - 1 : s[i] = listed[i]
    BY <2>2, <2>3
  <2>6. QED
    BY <1>1, <2>1, <2>2, <2>4, <2>5
<1>4. /\ items_alloc_num' \in Nat \ {0} /\ memory' \in [1 .. items_alloc_num' -> Words]
      /\ Len(listed') <= items_alloc_num'
      /\ \A i \in 1 .. Len(listed') : memory'[i] = listed'[i]
  BY <1>1, <1>3, VectorFacts DEF Vect!pop, VectorInv, Stores
<1>5. Stores(memory', items_alloc_num', listed')
  BY <1>3, <1>4 DEF Stores
<1>6. QED
  BY <1>1, <1>3, <1>5, VectorFacts DEF Vect!pop, VectorInv

LEMMA ShiftVector ==
    ASSUME VectorInv, ~ astray, ~ overrun, Vect!shift
    PROVE  VectorInv'
<1> DEFINE n == Len(listed)  a == items_alloc_num
<1>1. n \in Nat \ {0} /\ listed \in Seq(Items) /\ listed' = Tail(listed) /\ items_num = n
  BY VectorFacts DEF Vect!shift
<1>2. a \in Nat /\ n <= a /\ memory \in [1 .. a -> Words]
  BY VectorFacts
<1>3. /\ listed' \in Seq(Items) /\ Len(listed') = n - 1
      /\ \A i \in 1 .. n - 1 : listed'[i] = listed[i + 1]
  BY <1>1, HeadTailProperties
<1>4. memory' = Vect!Moved(memory, 2, 1, n)
  BY <1>1 DEF Vect!shift
<1>5. /\ memory' \in [1 .. a -> Words]
      /\ \A i \in 1 .. a : memory'[i] = IF i \in 1 .. 1 + n - 1 THEN Vect!At(memory, i - 1 + 2) ELSE memory[i]
  BY <1>1, <1>2, <1>4, MovedWords
<1>6. \A i \in 1 .. n - 1 : memory'[i] = listed'[i]
  <2>1. TAKE i \in 1 .. n - 1
  <2>2. i \in 1 .. a /\ i + 1 \in 1 .. a /\ i \in 1 .. 1 + n - 1 /\ i - 1 + 2 = i + 1 /\ i + 1 \in 1 .. n
    BY <1>1, <1>2
  <2>3. memory'[i] = Vect!At(memory, i + 1)
    BY <1>5, <2>2
  <2>4. Vect!At(memory, i + 1) = memory[i + 1]
    BY <1>2, <2>2, AtStored
  <2>5. QED
    BY <1>3, <2>2, <2>3, <2>4, VectorFacts
<1>7. Stores(memory', a, listed')
  BY <1>1, <1>2, <1>3, <1>5, <1>6 DEF Stores
<1>8. overrun' => n = a
  <2>1. overrun' => Vect!Outside(memory, n + 1)
    BY <1>1 DEF Vect!shift
  <2>2. ~ Vect!Outside(memory, n + 1) <=> n + 1 \in 1 .. a
    BY <1>2, AtStored
  <2>3. QED
    BY <1>1, <1>2, <2>1, <2>2
<1>9. overrun' \in BOOLEAN
  BY DEF Vect!shift, Vect!Outside
<1>10. QED
  BY <1>1, <1>3, <1>7, <1>8, <1>9 DEF Vect!shift, VectorInv

LEMMA RemoveVector ==
    ASSUME VectorInv, ~ astray, ~ overrun, NEW k \in 2 .. items_num, Vect!remove(k)
    PROVE  VectorInv'
<1> DEFINE n == Len(listed)  a == items_alloc_num
<1>1. /\ n \in Nat /\ listed \in Seq(Items) /\ items_num = n /\ k \in 1 .. n /\ k >= 2
      /\ a \in Nat /\ n <= a /\ memory \in [1 .. a -> Words]
  BY VectorFacts
<1>2. overrun' \in BOOLEAN
  BY DEF Vect!remove, Vect!Outside
<1>3. CASE k < n - 1
  <2>1. astray'
    BY <1>1, <1>3 DEF Vect!remove
  <2>2. QED
    BY <1>2, <2>1 DEF VectorInv
<1>4. CASE ~ (k < n - 1)
  <2>1. k = n - 1 \/ k = n
    BY <1>1, <1>4
  <2>2. listed' = Vect!RemoveAt(listed, k) /\ memory' = Vect!Moved(memory, k + 1, k, 1)
    BY DEF Vect!remove
  <2>3. /\ listed' \in Seq(Items) /\ Len(listed') = n - 1
        /\ \A i \in 1 .. n - 1 : listed'[i] = IF i < k THEN listed[i] ELSE listed[i + 1]
    BY <1>1, <2>2, RemoveItem
  <2>4. /\ memory' \in [1 .. a -> Words]
        /\ \A i \in 1 .. a : memory'[i] = IF i \in k .. k + 1 - 1 THEN Vect!At(memory, i - k + (k + 1))
                                                            ELSE memory[i]
    <3>1. k \in Int /\ k + 1 \in Int
      BY <1>1
    <3>2. QED
      BY <1>1, <2>2, <3>1, MovedWords
  <2>5. \A i \in 1 .. n - 1 : memory'[i] = listed'[i]
    <3>1. TAKE i \in 1 .. n - 1
    <3>2. i \in 1 .. a /\ i \in 1 .. n
      BY <1>1
    <3>3. CASE i < k
      <4>1. i \notin k .. k + 1 - 1
        BY <1>1, <3>3
      <4>2. memory'[i] = memory[i] /\ listed'[i] = listed[i]
        BY <2>3, <2>4, <3>2, <3>3, <4>1
      <4>3. QED
        BY <3>2, <4>2, VectorFacts
    <3>4. CASE ~ (i < k)
      <4>1. i = k /\ k = n - 1 /\ i + 1 \in 1 .. n /\ i + 1 \in 1 .. a /\ i - k + (k + 1) = i + 1 /\ i \in k .. k + 1 - 1
        BY <1>1, <2>1, <3>4
      <4>2. memory'[i] = Vect!At(memory, i + 1)
        BY <2>4, <3>2, <4>1
      <4>3. Vect!At(memory, i + 1) = memory[i + 1]
        BY <1>1, <4>1, AtStored
      <4>4. QED
        BY <2>3, <3>4, <4>1, <4>2, <4>3, VectorFacts
    <3>5. QED
      BY <3>3, <3>4
  <2>6. Stores(memory', a, listed')
    BY <1>1, <2>3, <2>4, <2>5 DEF Stores
  <2>7. overrun' => n = a
    <3>1. overrun' => Vect!Outside(memory, k + 1)
      BY DEF Vect!remove
    <3>2. ~ Vect!Outside(memory, k + 1) <=> k + 1 \in 1 .. a
      BY <1>1, AtStored
    <3>3. QED
      BY <1>1, <2>1, <3>1, <3>2
  <2>8. QED
    BY <1>1, <1>2, <2>3, <2>6, <2>7 DEF Vect!remove, VectorInv
<1>5. QED
  BY <1>3, <1>4

LEMMA TransposeVector ==
    ASSUME VectorInv, ~ astray, ~ overrun, NEW i \in 1 .. items_num, NEW j \in 1 .. items_num,
           Vect!transpose(i, j)
    PROVE  VectorInv'
<1> DEFINE n == Len(listed)  a == items_alloc_num
<1>1. /\ n \in Nat /\ listed \in Seq(Items) /\ items_num = n /\ i \in 1 .. n /\ j \in 1 .. n
      /\ a \in Nat /\ n <= a /\ memory \in [1 .. a -> Words]
      /\ \A k \in 1 .. n : memory[k] = listed[k] /\ listed[k] \in Items
  BY VectorFacts
<1>2. PICK s : s = [listed EXCEPT ![i] = listed[j]]
  OBVIOUS
<1>3. /\ s \in Seq(Items) /\ Len(s) = n
      /\ \A k \in 1 .. n : s[k] = IF k = i THEN listed[j] ELSE listed[k]
  BY <1>1, <1>2, ExceptSeq
<1>4. listed' = [s EXCEPT ![j] = listed[i]]
  BY <1>2 DEF Vect!transpose
<1>5. /\ listed' \in Seq(Items) /\ Len(listed') = n
      /\ \A k \in 1 .. n : listed'[k] = IF k = j THEN listed[i] ELSE IF k = i THEN listed[j] ELSE listed[k]
  BY <1>1, <1>3, <1>4, ExceptSeq
<1>6. i \in 1 .. a /\ j \in 1 .. a
  BY <1>1
<1>7. /\ memory' \in [1 .. a -> Words]
      /\ \A k \in 1 .. n : memory'[k] = IF k = j THEN memory[i] ELSE IF k = i THEN memory[j] ELSE memory[k]
  BY <1>1, <1>6 DEF Vect!transpose
<1>8. \A k \in 1 .. n : memory'[k] = listed'[k]
  BY <1>1, <1>5, <1>7
<1>9. Stores(memory', a, listed')
  BY <1>1, <1>5, <1>7, <1>8 DEF Stores
<1>10. QED
  BY <1>1, <1>5, <1>9 DEF Vect!transpose, VectorInv

LEMMA RemoveAllVector ==
    ASSUME VectorInv, ~ astray, ~ overrun, Vect!remove_all
    PROVE  VectorInv'
<1>1. CASE ItemSize > 1
  BY <1>1 DEF Vect!remove_all, VectorInv
<1>2. CASE ~ (ItemSize > 1)
  <2>1. ItemSize = 1
    BY <1>2, ListAssumption
  <2>2. items_alloc_num \in Nat \ {0} /\ memory \in [1 .. items_alloc_num -> Words]
    BY DEF VectorInv, Stores
  <2>3. items_alloc_num \div ItemSize = items_alloc_num
    BY <2>1, <2>2
  <2>4. memory' = [i \in 1 .. items_alloc_num |-> Vect!At(memory, i)]
    BY <2>3 DEF Vect!remove_all, Vect!Realloc
  <2>5. memory' \in [1 .. items_alloc_num -> Words]
    BY <2>2, <2>4, AtStored
  <2>6. listed' \in Seq(Items) /\ Len(listed') = 0
    BY EmptySeq DEF Vect!remove_all
  <2>7. Stores(memory', items_alloc_num, listed')
    BY <2>2, <2>5, <2>6 DEF Stores
  <2>8. QED
    BY <2>6, <2>7 DEF Vect!remove_all, VectorInv
<1>3. QED
  BY <1>1, <1>2

LEMMA NextVector == VectorInv /\ [Vect!Next]_(Vect!vars) => VectorInv'
<1> SUFFICES ASSUME VectorInv, [Vect!Next]_(Vect!vars) PROVE VectorInv'
  OBVIOUS
<1>1. CASE UNCHANGED Vect!vars
  BY <1>1 DEF Vect!vars, VectorInv
<1>2. CASE Vect!Next
  BY <1>2, PushVector, UnshiftVector, InsertVector, InsertAtVector, RemoveVector, TransposeVector,
     PopVector, ShiftVector, RemoveAllVector DEF Vect!Next
<1>3. QED
  BY <1>1, <1>2

(***************************************************************************)
(* The queue.                                                              *)
(***************************************************************************)
Cell(d, p, x) == [data |-> d, prev |-> p, next |-> x]

\* The nodes f are the addresses q, each once, linked in this order both ways, with the data s.
Links(f, q, s) ==
    /\ q \in Seq(Addresses) /\ s \in Seq(Items) /\ Len(q) = Len(s)
    /\ \A i, j \in 1 .. Len(q) : q[i] = q[j] => i = j
    /\ DOMAIN f = {q[i] : i \in 1 .. Len(q)}
    /\ \A i \in 1 .. Len(q) :
          f[q[i]] = Cell(s[i], IF i = 1 THEN NULL ELSE q[i - 1], IF i = Len(q) THEN NULL ELSE q[i + 1])

\* head is left behind when the last item is popped at the tail, everything else follows the links.
QueueAt(q) ==
    /\ Links(node, q, pushed) /\ counter = Len(q)
    /\ IF Len(q) = 0 THEN tail = NULL ELSE head = q[1] /\ tail = q[Len(q)]
    /\ phase = "broken" => Len(q) = 0 /\ head # NULL
    /\ phase = "leaked" => Len(q) > 0

\* The inductive invariant.
QueueInv == \E q : QueueAt(q)

LEMMA CellFields ==
    ASSUME NEW d, NEW p, NEW x, NEW y
    PROVE  /\ Cell(d, p, x).data = d /\ Cell(d, p, x).prev = p /\ Cell(d, p, x).next = x
           /\ [Cell(d, p, x) EXCEPT !.prev = y] = Cell(d, y, x)
           /\ [Cell(d, p, x) EXCEPT !.next = y] = Cell(d, p, y)
BY DEF Cell

\* Links without its conjuncts about other sequences, one address at a time.
LEMMA LinkFacts ==
    ASSUME NEW f, NEW q, NEW s, Links(f, q, s)
    PROVE  /\ Len(q) \in Nat /\ q \in Seq(Addresses) /\ s \in Seq(Items) /\ Len(s) = Len(q)
           /\ \A i \in 1 .. Len(q) : q[i] \in Addresses /\ q[i] # NULL /\ q[i] \in DOMAIN f /\ s[i] \in Items
           /\ \A b \in DOMAIN f : \E i \in 1 .. Len(q) : b = q[i]
           /\ Len(q) = 0 => DOMAIN f = {}
BY LenProperties, ElementOfSeq, ListAssumption DEF Links

LEMMA LinkFirst ==
    ASSUME NEW f, NEW q, NEW s, Links(f, q, s),
           NEW a \in Addresses, a \notin DOMAIN f, NEW d \in Items, NEW g,
           DOMAIN g = DOMAIN f \cup {a},
           g[a] = Cell(d, NULL, IF Len(q) = 0 THEN NULL ELSE q[1]),
           \A b \in DOMAIN f : g[b] = IF b = q[1] THEN [f[b] EXCEPT !.prev = a] ELSE f[b]
    PROVE  Links(g, <<a>> \o q, <<d>> \o s)
<1> DEFINE n == Len(q)
<1>1. PICK r : r = <<a>> \o q
  OBVIOUS
<1>2. PICK t : t = <<d>> \o s
  OBVIOUS
<1>3. /\ n \in Nat /\ q \in Seq(Addresses) /\ s \in Seq(Items) /\ Len(s) = n
      /\ \A i \in 1 .. n : q[i] \in DOMAIN f
      /\ \A b \in DOMAIN f : \E i \in 1 .. n : b = q[i]
  BY LinkFacts
<1>4. r \in Seq(Addresses) /\ Len(r) = n + 1 /\ \A i \in 1 .. n + 1 : r[i] = IF i = 1 THEN a ELSE q[i - 1]
  BY <1>1, <1>3, ConsItems
<1>5. t \in Seq(Items) /\ Len(t) = n + 1 /\ \A i \in 1 .. n + 1 : t[i] = IF i = 1 THEN d ELSE s[i - 1]
  BY <1>2, <1>3, ConsItems
<1>6. ASSUME NEW i \in 1 .. n + 1, NEW j \in 1 .. n + 1, r[i] = r[j] PROVE i = j
  <2>1. CASE i = 1 \/ j = 1
    <3>1. \A k \in 1 .. n + 1 : k # 1 => k - 1 \in 1 .. n /\ r[k] = q[k - 1]
      BY <1>3, <1>4
    <3>2. r[1] = a
      BY <1>3, <1>4
    <3>3. QED
      BY <1>3, <1>6, <2>1, <3>1, <3>2
  <2>2. CASE i # 1 /\ j # 1
    <3>1. i - 1 \in 1 .. n /\ j - 1 \in 1 .. n /\ r[i] = q[i - 1] /\ r[j] = q[j - 1]
      BY <1>3, <1>4, <2>2
    <3>2. i - 1 = j - 1
      BY <1>6, <3>1 DEF Links
    <3>3. QED
      BY <1>3, <3>2
  <2>3. QED
    BY <2>1, <2>2
<1>7. DOMAIN g = {r[i] : i \in 1 .. n + 1}
  <2>1. \A b \in DOMAIN f : \E i \in 1 .. n + 1 : b = r[i]
    <3>1. TAKE b \in DOMAIN f
    <3>2. PICK i \in 1 .. n : b = q[i]
      BY <1>3
    <3>3. i + 1 \in 1 .. n + 1 /\ i + 1 # 1 /\ i + 1 - 1 = i
      BY <1>3
    <3>4. r[i + 1] = q[i]
      BY <1>4, <3>3
    <3>5. QED
      BY <3>2, <3>3, <3>4
  <2>2. \A i \in 1 .. n + 1 : r[i] \in DOMAIN g
    <3>1. \A i \in 1 .. n + 1 : i = 1 \/ i - 1 \in 1 .. n
      BY <1>3
    <3>2. QED
      BY <1>3, <1>4, <3>1
  <2>3. 1 \in 1 .. n + 1 /\ r[1] = a
    BY <1>3, <1>4
  <2>4. QED
    BY <2>1, <2>2, <2>3
<1>8. ASSUME NEW i \in 1 .. n + 1
      PROVE  g[r[i]] = Cell(t[i], IF i = 1 THEN NULL ELSE r[i - 1], IF i = n + 1 THEN NULL ELSE r[i + 1])
  <2>1. CASE i = 1
    <3>1. r[i] = a /\ t[i] = d
      BY <1>4, <1>5, <2>1
    <3>2. (IF Len(q) = 0 THEN NULL ELSE q[1]) = IF i = n + 1 THEN NULL ELSE r[i + 1]
      <4>1. CASE n = 0
        BY <2>1, <4>1
      <4>2. CASE n # 0
        <5>1. i + 1 \in 1 .. n + 1 /\ i + 1 # 1 /\ i + 1 - 1 = 1 /\ i # n + 1
          BY <1>3, <2>1, <4>2
        <5>2. r[i + 1] = q[1]
          BY <1>4, <2>1, <5>1
        <5>3. QED
          BY <4>2, <5>1, <5>2
      <4>3. QED
        BY <4>1, <4>2
    <3>3. QED
      BY <2>1, <3>1, <3>2
  <2>2. CASE i # 1
    <3>1. PICK k \in 1 .. n : i = k + 1
      <4>1. i - 1 \in 1 .. n /\ i = i - 1 + 1
        BY <1>3, <2>2
      <4>2. QED
        BY <4>1
    <3>2. i - 1 = k /\ i # 1 /\ (k # 1 => k \in 1 .. n + 1)
      BY <1>3, <3>1
    <3>3. r[i] = q[k] /\ t[i] = s[k] /\ r[k] = IF k = 1 THEN a ELSE q[k - 1]
      <4>1. k \in 1 .. n + 1
        BY <1>3
      <4>2. QED
        BY <1>4, <1>5, <3>2, <4>1
    <3>4. f[q[k]] = Cell(s[k], IF k = 1 THEN NULL ELSE q[k - 1], IF k = n THEN NULL ELSE q[k + 1])
      BY DEF Links
    <3>5. (IF k = n THEN NULL ELSE q[k + 1]) = IF i = n + 1 THEN NULL ELSE r[i + 1]
      <4>1. CASE k = n
        BY <3>1, <4>1
      <4>2. CASE k # n
        <5>1. i # n + 1 /\ i + 1 \in 1 .. n + 1 /\ i + 1 # 1 /\ i + 1 - 1 = k + 1
          BY <1>3, <3>1, <4>2
        <5>2. r[i + 1] = q[k + 1]
          BY <1>4, <5>1
        <5>3. QED
          BY <4>2, <5>1, <5>2
      <4>3. QED
        BY <4>1, <4>2
    <3>6. CASE k = 1
      <4>1. g[q[k]] = [f[q[k]] EXCEPT !.prev = a]
        BY <1>3, <3>6
      <4>2. g[q[k]] = Cell(s[k], a, IF k = n THEN NULL ELSE q[k + 1])
        <5>1. PICK p, x : f[q[k]] = Cell(s[k], p, x) /\ x = IF k = n THEN NULL ELSE q[k + 1]
          BY <3>4
        <5>2. g[q[k]] = [Cell(s[k], p, x) EXCEPT !.prev = a]
          BY <4>1, <5>1
        <5>3. g[q[k]] = Cell(s[k], a, x)
          BY <5>2, CellFields
        <5>4. QED
          BY <5>1, <5>3
      <4>3. (IF i = 1 THEN NULL ELSE r[i - 1]) = a
        BY <3>2, <3>3, <3>6
      <4>4. QED
        BY <3>3, <3>5, <4>2, <4>3
    <3>7. CASE k # 1
      <4>1. q[k] # q[1]
        <5>1. 1 \in 1 .. n
          BY <1>3
        <5>2. QED
          BY <3>7, <5>1 DEF Links
      <4>2. g[q[k]] = f[q[k]]
        BY <1>3, <4>1
      <4>3. (IF i = 1 THEN NULL ELSE r[i - 1]) = IF k = 1 THEN NULL ELSE q[k - 1]
        BY <3>2, <3>3, <3>7
      <4>4. QED
        BY <3>3, <3>4, <3>5, <4>2, <4>3
    <3>8. QED
      BY <3>6, <3>7
  <2>3. QED
    BY <2>1, <2>2
<1>9. Links(g, r, t)
  BY <1>4, <1>5, <1>6, <1>7, <1>8 DEF Links
<1>10. QED
  BY <1>1, <1>2, <1>9

LEMMA LinkLast ==
    ASSUME NEW f, NEW q, NEW s, Links(f, q, s),
           NEW a \in Addresses, a \notin DOMAIN f, NEW d \in Items, NEW g,
           DOMAIN g = DOMAIN f \cup {a},
           g[a] = Cell(d, IF Len(q) = 0 THEN NULL ELSE q[Len(q)], NULL),
           \A b \in DOMAIN f : g[b] = IF b = q[Len(q)] THEN [f[b] EXCEPT !.next = a] ELSE f[b]
    PROVE  Links(g, Append(q, a), Append(s, d))
<1> DEFINE n == Len(q)
<1>1. PICK r : r = Append(q, a)
  OBVIOUS
<1>2. PICK t : t = Append(s, d)
  OBVIOUS
<1>3. /\ n \in Nat /\ q \in Seq(Addresses) /\ s \in Seq(Items) /\ Len(s) = n
      /\ \A i \in 1 .. n : q[i] \in DOMAIN f
      /\ \A b \in DOMAIN f : \E i \in 1 .. n : b = q[i]
  BY LinkFacts
<1>4. r \in Seq(Addresses) /\ Len(r) = n + 1 /\ (\A i \in 1 .. n : r[i] = q[i]) /\ r[n + 1] = a
  BY <1>1, <1>3, AppendProperties
<1>5. t \in Seq(Items) /\ Len(t) = n + 1 /\ (\A i \in 1 .. n : t[i] = s[i]) /\ t[n + 1] = d
  BY <1>2, <1>3, AppendProperties
<1>6. \A i \in 1 .. n + 1 : i \in 1 .. n \/ i = n + 1
  BY <1>3
<1>7. ASSUME NEW i \in 1 .. n + 1, NEW j \in 1 .. n + 1, r[i] = r[j] PROVE i = j
  <2>1. \A k, l \in 1 .. n : q[k] = q[l] => k = l
    BY DEF Links
  <2>2. \A k \in 1 .. n : r[k] # a
    BY <1>3, <1>4
  <2>3. CASE i = n + 1 \/ j = n + 1
    BY <1>4, <1>6, <1>7, <2>2, <2>3
  <2>4. CASE i \in 1 .. n /\ j \in 1 .. n
    BY <1>4, <1>7, <2>1, <2>4
  <2>5. QED
    BY <1>6, <2>3, <2>4
<1>8. DOMAIN g = {r[i] : i \in 1 .. n + 1}
  <2>1. \A i \in 1 .. n : i \in 1 .. n + 1
    BY <1>3
  <2>2. \A b \in DOMAIN f : \E i \in 1 .. n + 1 : b = r[i]
    BY <1>3, <1>4, <2>1
  <2>3. \A i \in 1 .. n + 1 : r[i] \in DOMAIN g
    BY <1>3, <1>4, <1>6
  <2>4. n + 1 \in 1 .. n + 1
    BY <1>3
  <2>5. QED
    BY <1>4, <2>2, <2>3, <2>4
<1>9. ASSUME NEW i \in 1 .. n + 1
      PROVE  g[r[i]] = Cell(t[i], IF i = 1 THEN NULL ELSE r[i - 1], IF i = n + 1 THEN NULL ELSE r[i + 1])
  <2>1. CASE i = n + 1
    <3>1. (IF n = 0 THEN NULL ELSE q[n]) = IF i = 1 THEN NULL ELSE r[i - 1]
      <4>1. n # 0 => n \in 1 .. n /\ i # 1 /\ i - 1 = n
        BY <1>3, <2>1
      <4>2. n = 0 => i = 1
        BY <2>1
      <4>3. QED
        BY <1>4, <4>1, <4>2
    <3>2. QED
      BY <1>4, <1>5, <2>1, <3>1
  <2>2. CASE i # n + 1
    <3>1. i \in 1 .. n /\ r[i] = q[i] /\ t[i] = s[i]
      BY <1>4, <1>5, <1>6, <2>2
    <3>2. f[q[i]] = Cell(s[i], IF i = 1 THEN NULL ELSE q[i - 1], IF i = n THEN NULL ELSE q[i + 1])
      BY <3>1 DEF Links
    <3>3. (IF i = 1 THEN NULL ELSE q[i - 1]) = IF i = 1 THEN NULL ELSE r[i - 1]
      <4>1. i # 1 => i - 1 \in 1 .. n
        BY <3>1
      <4>2. QED
        BY <1>4, <4>1
    <3>4. CASE i = n
      <4>1. PICK p, x : f[q[i]] = Cell(s[i], p, x) /\ p = IF i = 1 THEN NULL ELSE q[i - 1]
        BY <3>2
      <4>2. g[q[i]] = [Cell(s[i], p, x) EXCEPT !.next = a]
        BY <1>3, <3>1, <3>4, <4>1
      <4>3. g[q[i]] = Cell(s[i], p, a)
        BY <4>2, CellFields
      <4>4. a = IF i = n + 1 THEN NULL ELSE r[i + 1]
        BY <1>4, <2>2, <3>4
      <4>5. QED
        BY <3>1, <3>3, <4>1, <4>3, <4>4
    <3>5. CASE i # n
      <4>1. q[i] # q[n]
        <5>1. n \in 1 .. n
          BY <1>3, <3>1
        <5>2. QED
          BY <3>1, <3>5, <5>1 DEF Links
      <4>2. g[q[i]] = f[q[i]]
        BY <1>3, <3>1, <4>1
      <4>3. (IF i = n THEN NULL ELSE q[i + 1]) = IF i = n + 1 THEN NULL ELSE r[i + 1]
        <5>1. i + 1 \in 1 .. n
          BY <1>3, <3>1, <3>5
        <5>2. QED
          BY <1>4, <2>2, <3>5, <5>1
      <4>4. QED
        BY <3>1, <3>2, <3>3, <4>2, <4>3
    <3>6. QED
      BY <3>4, <3>5
  <2>3. QED
    BY <2>1, <2>2
<1>10. Links(g, r, t)
  BY <1>4, <1>5, <1>7, <1>8, <1>9, ZenonT(60) DEF Links
<1>11. QED
  BY <1>1, <1>2, <1>10

LEMMA UnlinkFirst ==
    ASSUME NEW f, NEW q, NEW s, Links(f, q, s), Len(q) # 0, NEW g,
           DOMAIN g = DOMAIN f \ {q[1]},
           \A b \in DOMAIN g : g[b] = IF Len(q) > 1 /\ b = q[2] THEN [f[b] EXCEPT !.prev = NULL] ELSE f[b]
    PROVE  Links(g, Tail(q), Tail(s))
<1> DEFINE n == Len(q)
<1>1. PICK r : r = Tail(q)
  OBVIOUS
<1>2. PICK t : t = Tail(s)
  OBVIOUS
<1>3. /\ n \in Nat \ {0} /\ q \in Seq(Addresses) /\ s \in Seq(Items) /\ Len(s) = n
      /\ q # << >> /\ s # << >>
      /\ \A i \in 1 .. n : q[i] \in DOMAIN f
      /\ \A b \in DOMAIN f : \E i \in 1 .. n : b = q[i]
      /\ \A i, j \in 1 .. n : q[i] = q[j] => i = j
  <2>1. /\ n \in Nat \ {0} /\ q \in Seq(Addresses) /\ s \in Seq(Items) /\ Len(s) = n
        /\ \A i \in 1 .. n : q[i] \in DOMAIN f
        /\ \A b \in DOMAIN f : \E i \in 1 .. n : b = q[i]
    BY LinkFacts
  <2>2. q # << >> /\ s # << >>
    BY <2>1, EmptySeq
  <2>3. QED
    BY <2>1, <2>2 DEF Links
<1>4. r \in Seq(Addresses) /\ Len(r) = n - 1 /\ \A i \in 1 .. n - 1 : r[i] = q[i + 1]
  BY <1>1, <1>3, HeadTailProperties
<1>5. t \in Seq(Items) /\ Len(t) = n - 1 /\ \A i \in 1 .. n - 1 : t[i] = s[i + 1]
  BY <1>2, <1>3, HeadTailProperties
<1>6. \A i \in 1 .. n - 1 : i + 1 \in 1 .. n /\ i + 1 # 1 /\ i \in 1 .. n
  BY <1>3
<1>7. ASSUME NEW i \in 1 .. n - 1, NEW j \in 1 .. n - 1, r[i] = r[j] PROVE i = j
  <2>1. i + 1 = j + 1
    BY <1>3, <1>4, <1>6, <1>7
  <2>2. QED
    BY <1>3, <2>1
<1>8. 1 \in 1 .. n
  BY <1>3
<1>9. DOMAIN g = {r[i] : i \in 1 .. n - 1}
  <2>1. \A b \in DOMAIN g : \E i \in 1 .. n - 1 : b = r[i]
    <3>1. TAKE b \in DOMAIN g
    <3>2. PICK i \in 1 .. n : b = q[i]
      BY <1>3
    <3>3. i - 1 \in 1 .. n - 1 /\ i - 1 + 1 = i
      BY <1>3, <3>2
    <3>4. QED
      BY <1>4, <3>2, <3>3
  <2>2. \A i \in 1 .. n - 1 : r[i] \in DOMAIN g
    BY <1>3, <1>4, <1>6, <1>8
  <2>3. QED
    BY <2>1, <2>2
<1>10. ASSUME NEW i \in 1 .. n - 1
       PROVE  g[r[i]] = Cell(t[i], IF i = 1 THEN NULL ELSE r[i - 1], IF i = n - 1 THEN NULL ELSE r[i + 1])
  <2>1. PICK k \in 1 .. n : k = i + 1
    BY <1>6
  <2>2. r[i] = q[k] /\ t[i] = s[k] /\ k # 1 /\ k - 1 = i /\ n > 1
    BY <1>3, <1>4, <1>5, <2>1
  <2>3. f[q[k]] = Cell(s[k], q[k - 1], IF k = n THEN NULL ELSE q[k + 1])
    BY <2>2 DEF Links
  <2>4. (IF k = n THEN NULL ELSE q[k + 1]) = IF i = n - 1 THEN NULL ELSE r[i + 1]
    <3>1. k = n <=> i = n - 1
      BY <1>3, <2>1
    <3>2. i # n - 1 => i + 1 \in 1 .. n - 1
      BY <1>3
    <3>3. QED
      BY <1>4, <2>1, <3>1, <3>2
  <2>5. q[k] \in DOMAIN g
    BY <1>9, <2>2
  <2>6. CASE k = 2
    <3>1. PICK x : f[q[k]] = Cell(s[k], q[k - 1], x) /\ x = IF k = n THEN NULL ELSE q[k + 1]
      BY <2>3
    <3>2. g[q[k]] = [Cell(s[k], q[k - 1], x) EXCEPT !.prev = NULL]
      BY <2>2, <2>5, <2>6, <3>1
    <3>3. g[q[k]] = Cell(s[k], NULL, x)
      BY <3>2, CellFields
    <3>4. i = 1
      BY <2>1, <2>6
    <3>5. QED
      BY <2>2, <2>4, <3>1, <3>3, <3>4
  <2>7. CASE k # 2
    <3>1. q[k] # q[2]
      <4>1. 2 \in 1 .. n
        BY <1>3, <2>2
      <4>2. QED
        BY <1>3, <2>7, <4>1
    <3>2. g[q[k]] = f[q[k]]
      BY <2>5, <3>1
    <3>3. i # 1 /\ i - 1 \in 1 .. n - 1 /\ i - 1 + 1 = i
      BY <1>3, <2>1, <2>7
    <3>4. r[i - 1] = q[k - 1]
      BY <1>4, <2>2, <3>3
    <3>5. QED
      BY <2>2, <2>3, <2>4, <3>2, <3>3, <3>4
  <2>8. QED
    BY <2>6, <2>7
<1>11. Links(g, r, t)
  BY <1>4, <1>5, <1>7, <1>9, <1>10 DEF Links
<1>12. QED
  BY <1>1, <1>2, <1>11

LEMMA UnlinkLast ==
    ASSUME NEW f, NEW q, NEW s, Links(f, q, s), Len(q) # 0, NEW g,
           DOMAIN g = DOMAIN f \ {q[Len(q)]},
           \A b \in DOMAIN g :
              g[b] = IF Len(q) > 1 /\ b = q[Len(q) - 1] THEN [f[b] EXCEPT !.next = NULL] ELSE f[b]
    PROVE  Links(g, SubSeq(q, 1, Len(q) - 1), SubSeq(s, 1, Len(s) - 1))
<1> DEFINE n == Len(q)
<1>1. PICK r : r = SubSeq(q, 1, n - 1)
  OBVIOUS
<1>2. PICK t : t = SubSeq(s, 1, n - 1)
  OBVIOUS
<1>3. /\ n \in Nat \ {0} /\ q \in Seq(Addresses) /\ s \in Seq(Items) /\ Len(s) = n
      /\ \A i \in 1 .. n : q[i] \in DOMAIN f /\ q[i] \in Addresses /\ s[i] \in Items
      /\ \A b \in DOMAIN f : \E i \in 1 .. n : b = q[i]
  BY LinkFacts
<1>4. \A i, j \in 1 .. n : q[i] = q[j] => i = j
  BY DEF Links
<1>5. \A i \in 1 .. n - 1 : i \in 1 .. n
  BY <1>3
<1>6. /\ (IF 1 <= n - 1 THEN n - 1 - 1 + 1 ELSE 0) = n - 1
      /\ \A i \in 1 .. n - 1 : i \in 1 .. n - 1 - 1 + 1 /\ 1 + i - 1 = i
  BY <1>3
<1>7. r \in Seq(Addresses) /\ Len(r) = n - 1 /\ \A i \in 1 .. n - 1 : r[i] = q[i]
  <2>1. /\ r \in Seq(Addresses) /\ Len(r) = IF 1 <= n - 1 THEN n - 1 - 1 + 1 ELSE 0
        /\ \A i \in 1 .. n - 1 - 1 + 1 : r[i] = q[1 + i - 1]
    <3>1. n - 1 \in Int /\ \A i \in 1 .. n - 1 : q[i] \in Addresses
      BY <1>3
    <3> HIDE DEF n
    <3>2. QED
      BY <1>1, <3>1, SubSeqProperties
  <2> HIDE DEF n
  <2>2. \A i \in 1 .. n - 1 : r[i] = q[i]
    BY <1>6, <2>1
  <2>3. QED
    BY <1>6, <2>1, <2>2
<1>8. t \in Seq(Items) /\ Len(t) = n - 1 /\ \A i \in 1 .. n - 1 : t[i] = s[i]
  <2>1. /\ t \in Seq(Items) /\ Len(t) = IF 1 <= n - 1 THEN n - 1 - 1 + 1 ELSE 0
        /\ \A i \in 1 .. n - 1 - 1 + 1 : t[i] = s[1 + i - 1]
    <3>1. n - 1 \in Int /\ \A i \in 1 .. n - 1 : s[i] \in Items
      BY <1>3
    <3> HIDE DEF n
    <3>2. QED
      BY <1>2, <3>1, SubSeqProperties
  <2> HIDE DEF n
  <2>2. \A i \in 1 .. n - 1 : t[i] = s[i]
    BY <1>6, <2>1
  <2>3. QED
    BY <1>6, <2>1, <2>2
<1>9. n \in 1 .. n
  BY <1>3
<1>10. DOMAIN g = {r[i] : i \in 1 .. n - 1}
  <2>1. \A b \in DOMAIN g : \E i \in 1 .. n - 1 : b = r[i]
    <3>1. TAKE b \in DOMAIN g
    <3>2. PICK i \in 1 .. n : b = q[i]
      BY <1>3
    <3>3. i # n
      BY <3>2
    <3>4. i \in 1 .. n - 1
      BY <1>3, <3>3
    <3>5. QED
      BY <1>7, <3>2, <3>4
  <2>2. \A i \in 1 .. n - 1 : r[i] \in DOMAIN g
    <3>1. TAKE i \in 1 .. n - 1
    <3>2. i # n
      BY <1>3
    <3>3. q[i] # q[n]
      BY <1>4, <1>5, <1>9, <3>2
    <3>4. QED
      BY <1>3, <1>5, <1>7, <3>3
  <2>3. QED
    BY <2>1, <2>2
<1>11. ASSUME NEW i \in 1 .. n - 1
       PROVE  g[r[i]] = Cell(t[i], IF i = 1 THEN NULL ELSE r[i - 1], IF i = n - 1 THEN NULL ELSE r[i + 1])
  <2>1. r[i] = q[i] /\ t[i] = s[i] /\ i \in 1 .. n /\ i # n /\ n > 1
    BY <1>3, <1>7, <1>8
  <2>2. f[q[i]] = Cell(s[i], IF i = 1 THEN NULL ELSE q[i - 1], q[i + 1])
    BY <2>1 DEF Links
  <2>3. (IF i = 1 THEN NULL ELSE q[i - 1]) = IF i = 1 THEN NULL ELSE r[i - 1]
    <3>1. i # 1 => i - 1 \in 1 .. n - 1
      BY <1>3
    <3>2. QED
      BY <1>7, <3>1
  <2>4. q[i] \in DOMAIN g
    BY <1>10, <2>1
  <2>5. CASE i = n - 1
    <3>1. PICK p : f[q[i]] = Cell(s[i], p, q[i + 1]) /\ p = IF i = 1 THEN NULL ELSE q[i - 1]
      BY <2>2
    <3>2. g[q[i]] = [Cell(s[i], p, q[i + 1]) EXCEPT !.next = NULL]
      BY <2>1, <2>4, <2>5, <3>1
    <3>3. g[q[i]] = Cell(s[i], p, NULL)
      BY <3>2, CellFields
    <3>4. QED
      BY <2>1, <2>3, <2>5, <3>1, <3>3
  <2>6. CASE i # n - 1
    <3>1. q[i] # q[n - 1]
      <4>1. n - 1 \in 1 .. n
        BY <1>3, <2>1
      <4>2. QED
        BY <1>4, <2>1, <2>6, <4>1
    <3>2. g[q[i]] = f[q[i]]
      BY <2>4, <3>1
    <3>3. i + 1 \in 1 .. n - 1
      BY <1>3, <2>6
    <3>4. r[i + 1] = q[i + 1]
      BY <1>7, <3>3
    <3>5. QED
      BY <2>1, <2>2, <2>3, <2>6, <3>2, <3>4
  <2>7. QED
    BY <2>5, <2>6
<1>12. Links(g, r, t)
  BY <1>7, <1>8, <1>4, <1>5, <1>10, <1>11 DEF Links
<1>13. QED
  BY <1>1, <1>2, <1>3, <1>12

LEMMA InitQueue == List!Init => QueueInv
<1> SUFFICES ASSUME List!Init PROVE QueueInv
  OBVIOUS
<1>1. PICK q : q = << >>
  OBVIOUS
<1>2. /\ q \in Seq(Addresses) /\ Len(q) = 0
      /\ pushed \in Seq(Items) /\ Len(pushed) = 0 /\ DOMAIN node = {}
  BY <1>1, EmptySeq DEF List!Init
<1>3. Links(node, q, pushed)
  BY <1>2 DEF Links
<1>4. QueueAt(q)
  BY <1>2, <1>3 DEF QueueAt, List!Init
<1>5. QED
  BY <1>4 DEF QueueInv

\* What a step starts from: head is NULL, or left behind, exactly when nothing is linked.
LEMMA QueueFacts ==
    ASSUME NEW q, QueueAt(q)
    PROVE  /\ Len(q) \in Nat /\ counter = Len(q) /\ q \in Seq(Addresses)
           /\ pushed \in Seq(Items) /\ Len(pushed) = Len(q)
           /\ head = NULL => Len(q) = 0
           /\ head \in List!Nodes \cup {NULL} /\ head # NULL => Len(q) # 0
           /\ Len(q) = 0 => List!Nodes = {} /\ tail = NULL
           /\ Len(q) # 0 => head = q[1] /\ tail = q[Len(q)] /\ tail # NULL
                            /\ head \in List!Nodes /\ tail \in List!Nodes
<1>1. Links(node, q, pushed)
  BY DEF QueueAt
<1>2. /\ Len(q) \in Nat /\ q \in Seq(Addresses) /\ pushed \in Seq(Items) /\ Len(pushed) = Len(q)
      /\ \A i \in 1 .. Len(q) : q[i] # NULL /\ q[i] \in DOMAIN node
      /\ Len(q) = 0 => DOMAIN node = {}
  BY <1>1, LinkFacts
<1>3. Len(q) # 0 => 1 \in 1 .. Len(q) /\ Len(q) \in 1 .. Len(q)
  BY <1>2
<1>4. QED
  BY <1>2, <1>3 DEF QueueAt, List!Nodes

\* After a call that leaves the queue in use.
LEMMA QueueInUse ==
    ASSUME NEW r, phase = "in_use", UNCHANGED phase,
           Links(node', r, pushed'), counter' = Len(r),
           IF Len(r) = 0 THEN tail' = NULL ELSE head' = r[1] /\ tail' = r[Len(r)]
    PROVE  QueueInv'
<1>1. QueueAt(r)'
  BY DEF QueueAt
<1>2. QED
  BY <1>1 DEF QueueInv

LEMMA PushHeadQueue ==
    ASSUME NEW q, QueueAt(q), phase = "in_use", head \in List!Nodes \cup {NULL},
           NEW d \in Items, List!push_head(d)
    PROVE  QueueInv'
<1> DEFINE n == Len(q)
<1>1. PICK a \in Addresses \ DOMAIN node :
         /\ head' = a
         /\ IF head = NULL
            THEN tail' = a /\ node' = List!With(a, Cell(d, NULL, NULL))
            ELSE tail' = tail /\ node' = [List!With(a, Cell(d, NULL, head)) EXCEPT ![head].prev = a]
  BY DEF List!push_head, List!Nodes, Cell
<1>2. PICK r : r = <<a>> \o q
  OBVIOUS
<1>3. /\ n \in Nat /\ q \in Seq(Addresses) /\ counter' = n + 1
      /\ pushed' = <<d>> \o pushed
  BY QueueFacts DEF List!push_head
<1>4. r \in Seq(Addresses) /\ Len(r) = n + 1 /\ \A i \in 1 .. n + 1 : r[i] = IF i = 1 THEN a ELSE q[i - 1]
  BY <1>2, <1>3, ConsItems
<1>5. n + 1 \in 1 .. n + 1 /\ 1 \in 1 .. n + 1 /\ n + 1 - 1 = n
  BY <1>3
<1>6. Links(node, q, pushed)
  BY DEF QueueAt
<1>7. a \in Addresses /\ a \notin DOMAIN node
  OBVIOUS
<1>8. CASE head = NULL
  <2>1. n = 0 /\ DOMAIN node = {}
    BY <1>8, QueueFacts DEF List!Nodes
  <2>2. DOMAIN node' = DOMAIN node \cup {a} /\ node'[a] = Cell(d, NULL, NULL)
    BY <1>1, <1>8 DEF List!With, List!Nodes
  <2>3. PICK g : g = node'
    OBVIOUS
  <2>4. Links(g, <<a>> \o q, <<d>> \o pushed)
    BY <1>6, <1>7, <2>1, <2>2, <2>3, LinkFirst
  <2>5. Links(node', r, pushed')
    BY <1>2, <1>3, <2>3, <2>4
  <2>6. Len(r) # 0 /\ head' = r[1] /\ tail' = r[Len(r)]
    BY <1>1, <1>3, <1>4, <1>8, <2>1
  <2>7. QED
    BY <1>3, <1>4, <2>5, <2>6, QueueInUse DEF List!push_head
<1>9. CASE head # NULL
  <2>1. n # 0 /\ head = q[1] /\ tail = q[n] /\ head \in DOMAIN node
    BY <1>9, QueueFacts DEF List!Nodes
  <2>2. PICK w : w = List!With(a, Cell(d, NULL, head))
    OBVIOUS
  <2>3. DOMAIN w = DOMAIN node \cup {a} /\ w[a] = Cell(d, NULL, q[1]) /\ \A b \in DOMAIN node : w[b] = node[b]
    BY <1>7, <2>1, <2>2 DEF List!With, List!Nodes
  <2>4. PICK g : g = [w EXCEPT ![head].prev = a]
    OBVIOUS
  <2>5. /\ DOMAIN g = DOMAIN node \cup {a} /\ g[a] = Cell(d, NULL, q[1])
        /\ \A b \in DOMAIN node : g[b] = IF b = q[1] THEN [node[b] EXCEPT !.prev = a] ELSE node[b]
    BY <1>7, <2>1, <2>3, <2>4
  <2>6. Links(g, <<a>> \o q, <<d>> \o pushed)
    BY <1>6, <1>7, <2>1, <2>5, LinkFirst
  <2>7. node' = g /\ tail' = q[n] /\ head' = a
    BY <1>1, <1>9, <2>1, <2>2, <2>4
  <2>8. r[n + 1] = q[n] /\ r[1] = a
    BY <1>4, <1>5, <2>1
  <2>9. Links(node', r, pushed')
    BY <1>2, <1>3, <2>6, <2>7
  <2>10. Len(r) # 0 /\ head' = r[1] /\ tail' = r[Len(r)]
    BY <1>3, <1>4, <2>7, <2>8
  <2>11. QED
    BY <1>3, <1>4, <2>9, <2>10, QueueInUse DEF List!push_head
<1>10. QED
  BY <1>8, <1>9

LEMMA PushTailQueue ==
    ASSUME NEW q, QueueAt(q), phase = "in_use", NEW d \in Items, List!push_tail(d)
    PROVE  QueueInv'
<1> DEFINE n == Len(q)
<1>1. PICK a \in Addresses \ DOMAIN node :
         /\ tail' = a
         /\ IF tail = NULL
            THEN head' = a /\ node' = List!With(a, Cell(d, NULL, NULL))
            ELSE head' = head /\ node' = [List!With(a, Cell(d, tail, NULL)) EXCEPT ![tail].next = a]
  BY DEF List!push_tail, List!Nodes, Cell
<1>2. PICK r : r = Append(q, a)
  OBVIOUS
<1>3. /\ n \in Nat /\ q \in Seq(Addresses) /\ counter' = n + 1
      /\ pushed' = Append(pushed, d)
  BY QueueFacts DEF List!push_tail
<1>4. r \in Seq(Addresses) /\ Len(r) = n + 1 /\ (\A i \in 1 .. n : r[i] = q[i]) /\ r[n + 1] = a
  BY <1>2, <1>3, AppendProperties
<1>5. Links(node, q, pushed)
  BY DEF QueueAt
<1>6. a \in Addresses /\ a \notin DOMAIN node
  OBVIOUS
<1>7. CASE tail = NULL
  <2>1. n = 0 /\ DOMAIN node = {}
    BY <1>7, QueueFacts DEF List!Nodes
  <2>2. DOMAIN node' = DOMAIN node \cup {a} /\ node'[a] = Cell(d, NULL, NULL)
    BY <1>1, <1>7 DEF List!With, List!Nodes
  <2>3. PICK g : g = node'
    OBVIOUS
  <2>4. Links(g, Append(q, a), Append(pushed, d))
    BY <1>5, <1>6, <2>1, <2>2, <2>3, LinkLast
  <2>5. Links(node', r, pushed')
    BY <1>2, <1>3, <2>3, <2>4
  <2>6. Len(r) # 0 /\ head' = r[1] /\ tail' = r[Len(r)]
    BY <1>1, <1>3, <1>4, <1>7, <2>1
  <2>7. QED
    BY <1>3, <1>4, <2>5, <2>6, QueueInUse DEF List!push_tail
<1>8. CASE tail # NULL
  <2>1. n # 0 /\ head = q[1] /\ tail = q[n] /\ tail \in DOMAIN node
    BY <1>8, QueueFacts DEF List!Nodes
  <2>2. PICK w : w = List!With(a, Cell(d, tail, NULL))
    OBVIOUS
  <2>3. DOMAIN w = DOMAIN node \cup {a} /\ w[a] = Cell(d, q[n], NULL) /\ \A b \in DOMAIN node : w[b] = node[b]
    BY <1>6, <2>1, <2>2 DEF List!With, List!Nodes
  <2>4. PICK g : g = [w EXCEPT ![tail].next = a]
    OBVIOUS
  <2>5. /\ DOMAIN g = DOMAIN node \cup {a} /\ g[a] = Cell(d, q[n], NULL)
        /\ \A b \in DOMAIN node : g[b] = IF b = q[n] THEN [node[b] EXCEPT !.next = a] ELSE node[b]
    BY <1>6, <2>1, <2>3, <2>4
  <2>6. Links(g, Append(q, a), Append(pushed, d))
    BY <1>5, <1>6, <2>1, <2>5, LinkLast
  <2>7. node' = g /\ head' = q[1] /\ tail' = a
    BY <1>1, <1>8, <2>1, <2>2, <2>4
  <2>8. r[n + 1] = a /\ r[1] = q[1]
    BY <1>3, <1>4, <2>1
  <2>9. Links(node', r, pushed')
    BY <1>2, <1>3, <2>6, <2>7
  <2>10. Len(r) # 0 /\ head' = r[1] /\ tail' = r[Len(r)]
    BY <1>3, <1>4, <2>7, <2>8
  <2>11. QED
    BY <1>3, <1>4, <2>9, <2>10, QueueInUse DEF List!push_tail
<1>9. QED
  BY <1>7, <1>8

LEMMA PopHeadQueue ==
    ASSUME NEW q, QueueAt(q), phase = "in_use", head \in List!Nodes \cup {NULL}, List!pop_head
    PROVE  QueueInv'
<1> DEFINE n == Len(q)
<1>1. /\ n \in Nat \ {0} /\ head = q[1] /\ tail = q[n] /\ q \in Seq(Addresses) /\ q # << >>
      /\ counter' = n - 1 /\ pushed' = Tail(pushed)
  <2>1. n # 0
    BY QueueFacts DEF List!pop_head
  <2>2. q # << >>
    BY <2>1, EmptySeq
  <2>3. QED
    BY <2>1, <2>2, QueueFacts DEF List!pop_head
<1>2. Links(node, q, pushed)
  BY DEF QueueAt
<1>3. PICK r : r = Tail(q)
  OBVIOUS
<1>4. r \in Seq(Addresses) /\ Len(r) = n - 1 /\ \A i \in 1 .. n - 1 : r[i] = q[i + 1]
  BY <1>1, <1>3, HeadTailProperties
<1>5. head' = IF n = 1 THEN NULL ELSE q[2]
  <2>1. 1 \in 1 .. n /\ (1 = n <=> n = 1)
    BY <1>1
  <2>2. node[q[1]] = Cell(pushed[1], NULL, IF 1 = n THEN NULL ELSE q[1 + 1])
    BY <1>2, <2>1 DEF Links
  <2>3. node[q[1]].next = IF n = 1 THEN NULL ELSE q[2]
    BY <2>2 DEF Cell
  <2>4. QED
    BY <1>1, <2>3 DEF List!pop_head
<1>6. PICK w : w = List!Without(head)
  OBVIOUS
<1>7. DOMAIN w = DOMAIN node \ {q[1]} /\ \A b \in DOMAIN w : w[b] = node[b]
  BY <1>1, <1>6 DEF List!Without, List!Nodes
<1>8. CASE n = 1
  <2>1. head' = NULL /\ tail' = NULL /\ node' = w
    BY <1>5, <1>6, <1>8 DEF List!pop_head
  <2>2. Links(w, Tail(q), Tail(pushed))
    BY <1>2, <1>7, <1>8, UnlinkFirst
  <2>3. Len(r) = 0
    BY <1>4, <1>8
  <2>4. QED
    BY <1>1, <1>3, <1>4, <2>1, <2>2, <2>3, QueueInUse DEF List!pop_head
<1>9. CASE n # 1
  <2>1. 2 \in 1 .. n /\ n > 1 /\ 1 \in 1 .. n - 1 /\ n - 1 \in 1 .. n - 1 /\ n - 1 + 1 = n
    <3>1. \A k \in Nat \ {0} : k # 1 => 2 \in 1 .. k /\ k > 1 /\ 1 \in 1 .. k - 1 /\ k - 1 \in 1 .. k - 1 /\ k - 1 + 1 = k
      OBVIOUS
    <3>2. QED
      BY <1>1, <1>9, <3>1
  <2>2. /\ head' = q[2] /\ q[2] # NULL /\ tail' = q[n]
        /\ node' = [w EXCEPT ![q[2]].prev = NULL]
    <3>1. head' = q[2] /\ q[2] # NULL
      BY <1>2, <1>5, <1>9, <2>1, LinkFacts
    <3>2. tail' = tail /\ node' = [w EXCEPT ![head'].prev = NULL]
      BY <1>6, <3>1 DEF List!pop_head
    <3>3. QED
      BY <1>1, <3>1, <3>2
  <2>3. PICK g : g = [w EXCEPT ![q[2]].prev = NULL]
    OBVIOUS
  <2>4. /\ DOMAIN g = DOMAIN node \ {q[1]}
        /\ \A b \in DOMAIN g : g[b] = IF n > 1 /\ b = q[2] THEN [node[b] EXCEPT !.prev = NULL] ELSE node[b]
    BY <1>7, <2>1, <2>3
  <2>5. Links(g, Tail(q), Tail(pushed))
    BY <1>1, <1>2, <2>4, UnlinkFirst
  <2>6. r[1] = q[2] /\ r[n - 1] = q[n] /\ n - 1 # 0
    BY <1>1, <1>4, <2>1
  <2>7. QED
    BY <1>1, <1>3, <1>4, <2>2, <2>3, <2>5, <2>6, QueueInUse DEF List!pop_head
<1>10. QED
  BY <1>8, <1>9

LEMMA PopTailQueue ==
    ASSUME NEW q, QueueAt(q), phase = "in_use", List!pop_tail
    PROVE  QueueInv'
<1> DEFINE n == Len(q)
<1>1. /\ n \in Nat \ {0} /\ head = q[1] /\ tail = q[n] /\ q \in Seq(Addresses)
      /\ counter' = n - 1 /\ pushed' = SubSeq(pushed, 1, Len(pushed) - 1)
  BY QueueFacts DEF List!pop_tail, List!Front
<1>2. Links(node, q, pushed)
  BY DEF QueueAt
<1>3. PICK r : r = SubSeq(q, 1, Len(q) - 1)
  OBVIOUS
<1>4. tail' = IF n = 1 THEN NULL ELSE q[n - 1]
  <2>1. n \in 1 .. n
    BY <1>1
  <2>2. node[q[n]] = Cell(pushed[n], IF n = 1 THEN NULL ELSE q[n - 1], NULL)
    BY <1>2, <2>1 DEF Links
  <2>3. node[q[n]].prev = IF n = 1 THEN NULL ELSE q[n - 1]
    BY <2>2 DEF Cell
  <2>4. QED
    BY <1>1, <2>3 DEF List!pop_tail
<1>5. PICK w : w = List!Without(tail)
  OBVIOUS
<1>6. DOMAIN w = DOMAIN node \ {q[n]} /\ \A b \in DOMAIN w : w[b] = node[b]
  BY <1>1, <1>5 DEF List!Without, List!Nodes
<1>7. PICK g : g = IF n = 1 THEN w ELSE [w EXCEPT ![q[n - 1]].next = NULL]
  OBVIOUS
<1>8. node' = g /\ head' = head
  <2>1. n # 1 => n - 1 \in 1 .. n /\ q[n - 1] # NULL
    <3>1. \A k \in Nat \ {0} : k # 1 => k - 1 \in 1 .. k
      OBVIOUS
    <3>2. n # 1 => n - 1 \in 1 .. n
      BY <1>1, <3>1
    <3>3. QED
      BY <1>2, <3>2, LinkFacts
  <2>2. QED
    BY <1>4, <1>5, <1>7, <2>1 DEF List!pop_tail
<1>9. /\ DOMAIN g = DOMAIN node \ {q[n]}
      /\ \A b \in DOMAIN g : g[b] = IF n > 1 /\ b = q[n - 1] THEN [node[b] EXCEPT !.next = NULL] ELSE node[b]
  <2>1. CASE n = 1
    <3>1. ~ (n > 1) /\ g = w
      BY <1>7, <2>1
    <3>2. QED
      BY <1>6, <3>1
  <2>2. CASE n # 1
    <3>1. \A k \in Nat \ {0} : k # 1 => k > 1
      OBVIOUS
    <3>2. n > 1 /\ g = [w EXCEPT ![q[n - 1]].next = NULL]
      BY <1>1, <1>7, <2>2, <3>1
    <3>3. QED
      BY <1>6, <3>2
  <2>3. QED
    BY <2>1, <2>2
<1>10. Links(g, SubSeq(q, 1, Len(q) - 1), SubSeq(pushed, 1, Len(pushed) - 1))
  BY <1>1, <1>2, <1>9, UnlinkLast
<1>11. r \in Seq(Addresses) /\ Len(r) = n - 1 /\ (n # 1 => r[1] = q[1] /\ r[n - 1] = q[n - 1])
  <2>1. /\ \A i \in 1 .. n - 1 : q[i] \in Addresses
        /\ n - 1 \in Int
    <3>1. \A i \in 1 .. n - 1 : i \in 1 .. n
      BY <1>1
    <3>2. QED
      BY <1>1, <1>2, <3>1, LinkFacts
  <2> HIDE DEF n
  <2>2. /\ r \in Seq(Addresses) /\ Len(r) = IF 1 <= n - 1 THEN n - 1 - 1 + 1 ELSE 0
        /\ \A i \in 1 .. n - 1 - 1 + 1 : r[i] = q[1 + i - 1]
    <3>1. r = SubSeq(q, 1, n - 1)
      BY <1>3 DEF n
    <3>2. QED
      BY <2>1, <3>1, SubSeqProperties
  <2>3. n # 1 => /\ 1 \in 1 .. n - 1 - 1 + 1 /\ n - 1 \in 1 .. n - 1 - 1 + 1
                 /\ 1 + 1 - 1 = 1 /\ 1 + (n - 1) - 1 = n - 1
    BY <1>1
  <2>4. (IF 1 <= n - 1 THEN n - 1 - 1 + 1 ELSE 0) = n - 1
    BY <1>1
  <2>5. QED
    BY <2>2, <2>3, <2>4
<1>12. IF Len(r) = 0 THEN tail' = NULL ELSE head' = r[1] /\ tail' = r[Len(r)]
  BY <1>1, <1>4, <1>8, <1>11
<1>13. Links(node', r, pushed')
  BY <1>1, <1>3, <1>8, <1>10
<1>14. counter' = Len(r) /\ UNCHANGED phase
  BY <1>1, <1>11 DEF List!pop_tail
<1>15. QED
  BY <1>12, <1>13, <1>14, QueueInUse

LEMMA NextQueue == QueueInv /\ [List!Next]_(List!vars) => QueueInv'
<1> SUFFICES ASSUME QueueInv, [List!Next]_(List!vars) PROVE QueueInv'
  OBVIOUS
<1>1. PICK q : QueueAt(q)
  BY DEF QueueInv
<1>2. CASE UNCHANGED List!vars
  <2>1. QueueAt(q)'
    BY <1>1, <1>2 DEF QueueAt, List!vars
  <2>2. QED
    BY <2>1 DEF QueueInv
<1>3. ASSUME phase = "in_use", head \notin List!Nodes \cup {NULL}, phase' = "broken",
             UNCHANGED <<node, head, tail, counter, pushed>>
      PROVE  QueueInv'
  <2>1. Len(q) = 0 /\ head # NULL
    BY <1>1, <1>3, QueueFacts
  <2>2. QueueAt(q)'
    BY <1>1, <1>3, <2>1 DEF QueueAt
  <2>3. QED
    BY <2>2 DEF QueueInv
<1>4. ASSUME phase = "in_use", List!dtor PROVE QueueInv'
  <2>1. phase' = "leaked" => Len(q) > 0
    BY <1>1, <1>4, QueueFacts DEF List!dtor
  <2>2. phase' # "broken"
    BY <1>4 DEF List!dtor
  <2>3. QueueAt(q)'
    BY <1>1, <1>4, <2>1, <2>2 DEF QueueAt, List!dtor
  <2>4. QED
    BY <2>3 DEF QueueInv
<1>5. CASE List!Next
  <2>1. phase = "in_use"
    BY <1>5 DEF List!Next
  <2>2. ASSUME NEW d \in Items, List!Follow(head, List!push_head(d)) PROVE QueueInv'
    BY <1>1, <1>3, <2>1, <2>2, PushHeadQueue DEF List!Follow
  <2>3. ASSUME NEW d \in Items, List!push_tail(d) PROVE QueueInv'
    BY <1>1, <2>1, <2>3, PushTailQueue
  <2>4. CASE List!Follow(head, List!pop_head)
    BY <1>1, <1>3, <2>1, <2>4, PopHeadQueue DEF List!Follow
  <2>5. CASE List!pop_tail
    BY <1>1, <2>1, <2>5, PopTailQueue
  <2>6. CASE List!Follow(head, List!dtor)
    BY <1>3, <1>4, <2>1, <2>6 DEF List!Follow
  <2>7. CASE List!dtor
    BY <1>4, <2>1, <2>7
  <2>8. QED
    BY <1>5, <2>2, <2>3, <2>4, <2>5, <2>6, <2>7 DEF List!Next
<1>6. QED
  BY <1>2, <1>5

\* A set of numbers that is not empty has a least one.
LEMMA LeastOf ==
    ASSUME NEW T \in SUBSET Nat, T # {}
    PROVE  \E n \in T : \A m \in T : ~ (m < n)
<1>1. PICK n \in T : \A m \in T : ~ (<<m, n>> \in OpToRel(<, Nat))
  <2>1. IsWellFoundedOn(OpToRel(<, Nat), Nat)
    BY NatLessThanWellFounded
  <2>2. QED
    BY ONLY <2>1, WFMin, T \in SUBSET Nat, T # {}
<1>2. QED
  BY <1>1 DEF OpToRel

\* The rest of q from its address b on.
Place(q, b) == CHOOSE i \in 1 .. Len(q) : q[i] = b
RestFrom(q, b) == SubSeq(q, Place(q, b), Len(q))

\* along, as far as it is told by the links.
FollowsNext(f, g) ==
    g = [b \in DOMAIN f |-> IF f[b].next = NULL THEN <<b>> ELSE <<b>> \o g[f[b].next]]

LEMMA PlaceOf ==
    ASSUME NEW f, NEW q, NEW s, Links(f, q, s), NEW i \in 1 .. Len(q)
    PROVE  Place(q, q[i]) = i
<1>1. \A j \in 1 .. Len(q) : q[j] = q[i] => j = i
  BY DEF Links
<1>2. QED
  BY <1>1 DEF Place

LEMMA RestOf ==
    ASSUME NEW f, NEW q, NEW s, Links(f, q, s), NEW i \in 1 .. Len(q)
    PROVE  /\ f[q[i]].next = NULL <=> i = Len(q)
           /\ i = Len(q) => SubSeq(q, i, Len(q)) = <<q[i]>>
           /\ i # Len(q) => /\ i + 1 \in 1 .. Len(q) /\ f[q[i]].next = q[i + 1]
                            /\ SubSeq(q, i, Len(q)) = <<q[i]>> \o SubSeq(q, i + 1, Len(q))
<1> DEFINE n == Len(q)
<1>1. n \in Nat /\ q \in Seq(Addresses) /\ \A k \in 1 .. n : q[k] # NULL
  BY LinkFacts
<1>2. i # n => i + 1 \in 1 .. n
  BY <1>1
<1>3. f[q[i]] = Cell(s[i], IF i = 1 THEN NULL ELSE q[i - 1], IF i = n THEN NULL ELSE q[i + 1])
  BY DEF Links
<1>4. f[q[i]].next = IF i = n THEN NULL ELSE q[i + 1]
  BY <1>3, CellFields
<1>5. i \in 1 .. n /\ n \in i .. n
  BY <1>1
<1>6. SubSeq(q, i, n) = <<q[i]>> \o SubSeq(q, i + 1, n)
  BY <1>1, <1>5, SubSeqRecursiveFirst
<1>7. i = n => SubSeq(q, i, n) = <<q[i]>>
  <2>1. SUFFICES ASSUME i = n PROVE SubSeq(q, i, n) = <<q[i]>>
    OBVIOUS
  <2>2. PICK e : e = SubSeq(q, i + 1, n)
    OBVIOUS
  <2>3. i + 1 \in Int /\ n \in Int /\ n < i + 1
    BY <1>1, <2>1
  <2>4. e = << >>
    BY <2>2, <2>3, SubSeqEmpty
  <2>5. PICK one : one = <<q[i]>>
    OBVIOUS
  <2>6. one \in Seq(Addresses)
    BY <1>1, <2>5, LinkFacts
  <2>7. one \o << >> = one
    BY <2>6, ConcatEmptySeq
  <2>8. QED
    BY <1>6, <2>2, <2>4, <2>5, <2>7
<1>8. QED
  BY <1>1, <1>2, <1>4, <1>6, <1>7

\* There is such a function: a linked list has an end.
LEMMA AlongExists ==
    ASSUME NEW f, NEW q, NEW s, Links(f, q, s)
    PROVE  \E g : FollowsNext(f, g)
<1>1. PICK g : g = [b \in DOMAIN f |-> RestFrom(q, b)]
  OBVIOUS
<1>2. ASSUME NEW b \in DOMAIN f
      PROVE  g[b] = IF f[b].next = NULL THEN <<b>> ELSE <<b>> \o g[f[b].next]
  <2>1. PICK i \in 1 .. Len(q) : b = q[i]
    BY LinkFacts
  <2>2. \A j \in 1 .. Len(q) : g[q[j]] = SubSeq(q, j, Len(q))
    <3>1. TAKE j \in 1 .. Len(q)
    <3>2. q[j] \in DOMAIN f
      BY LinkFacts
    <3>3. Place(q, q[j]) = j
      BY PlaceOf
    <3>4. QED
      BY <1>1, <3>2, <3>3 DEF RestFrom
  <2>3. CASE i = Len(q)
    <3>1. f[q[i]].next = NULL /\ SubSeq(q, i, Len(q)) = <<q[i]>>
      <4>1. f[q[i]].next = NULL <=> i = Len(q)
        BY RestOf, Zenon
      <4>2. i = Len(q) => SubSeq(q, i, Len(q)) = <<q[i]>>
        BY RestOf, Zenon
      <4>3. QED
        BY <2>3, <4>1, <4>2
    <3>2. g[b] = <<b>>
      BY <2>1, <2>2, <3>1
    <3>3. QED
      BY <2>1, <3>1, <3>2
  <2>4. CASE i # Len(q)
    <3>1. /\ f[b].next # NULL /\ i + 1 \in 1 .. Len(q) /\ f[b].next = q[i + 1]
          /\ SubSeq(q, i, Len(q)) = <<b>> \o SubSeq(q, i + 1, Len(q))
      BY <2>1, <2>4, RestOf
    <3>2. g[f[b].next] = SubSeq(q, i + 1, Len(q))
      BY <2>2, <3>1
    <3>3. g[b] = <<b>> \o g[f[b].next]
      BY <2>1, <2>2, <3>1, <3>2
    <3>4. QED
      BY <3>1, <3>3
  <2>5. QED
    BY <2>3, <2>4
<1>3. g = [b \in DOMAIN f |-> IF f[b].next = NULL THEN <<b>> ELSE <<b>> \o g[f[b].next]]
  BY <1>1, <1>2
<1>4. QED
  BY <1>3 DEF FollowsNext

\* And only one.
LEMMA AlongIsRest ==
    ASSUME NEW f, NEW q, NEW s, Links(f, q, s), NEW g, FollowsNext(f, g), NEW i \in 1 .. Len(q)
    PROVE  g[q[i]] = SubSeq(q, i, Len(q))
<1> DEFINE n == Len(q)
           Wrong == {k \in Nat : k < n /\ g[q[n - k]] # SubSeq(q, n - k, n)}
<1>1. n \in Nat /\ \A k \in 1 .. n : q[k] \in DOMAIN f
  BY LinkFacts
<1>2. \A b \in DOMAIN f : g[b] = IF f[b].next = NULL THEN <<b>> ELSE <<b>> \o g[f[b].next]
  BY DEF FollowsNext
<1>3. ASSUME Wrong # {} PROVE FALSE
  <2>1. PICK k \in Wrong : \A m \in Wrong : ~ (m < k)
    BY <1>3, LeastOf
  <2>2. PICK j \in 1 .. n : j = n - k
    BY <1>1, <2>1
  <2>3. g[q[j]] # SubSeq(q, j, n)
    BY <2>1, <2>2
  <2>4. g[q[j]] = IF f[q[j]].next = NULL THEN <<q[j]>> ELSE <<q[j]>> \o g[f[q[j]].next]
    BY <1>1, <1>2
  <2>5. CASE j = n
    BY <2>3, <2>4, <2>5, RestOf
  <2>6. CASE j # n
    <3>1. /\ f[q[j]].next # NULL /\ j + 1 \in 1 .. n /\ f[q[j]].next = q[j + 1]
          /\ SubSeq(q, j, n) = <<q[j]>> \o SubSeq(q, j + 1, n)
      BY <2>6, RestOf
    <3>2. k - 1 \in Nat /\ k - 1 < k /\ k - 1 < n /\ n - (k - 1) = j + 1
      BY <1>1, <2>1, <2>2, <2>6
    <3>3. k - 1 \notin Wrong
      BY <2>1, <3>2
    <3>4. g[q[j + 1]] = SubSeq(q, j + 1, n)
      BY <3>2, <3>3
    <3>5. g[q[j]] = <<q[j]>> \o SubSeq(q, j + 1, n)
      BY <2>4, <3>1, <3>4
    <3>6. QED
      BY <2>3, <3>1, <3>5
  <2>7. QED
    BY <2>5, <2>6
<1>4. n - i \in Nat /\ n - i < n /\ n - (n - i) = i
  BY <1>1
<1>5. n - i \notin Wrong
  BY <1>3
<1>6. QED
  BY <1>4, <1>5

LEMMA NodesAreLinked ==
    ASSUME NEW q, QueueAt(q)
    PROVE  List!nodes = q
<1>1. Links(node, q, pushed)
  BY DEF QueueAt
<1>2. /\ Len(q) \in Nat /\ counter = Len(q) /\ q \in Seq(Addresses)
      /\ Len(q) # 0 => head = q[1]
  BY QueueFacts
<1>3. CASE Len(q) = 0
  <2>1. q = << >>
    BY <1>2, <1>3, EmptySeq
  <2>2. QED
    BY <1>2, <1>3, <2>1 DEF List!nodes
<1>4. CASE Len(q) # 0
  <2>1. PICK f : f = node
    OBVIOUS
  <2>2. \E g : FollowsNext(f, g)
    BY <1>1, <2>1, AlongExists, SMTT(40)
  <2>3. FollowsNext(f, List!along)
    BY <2>1, <2>2, ZenonT(60) DEF FollowsNext, List!along, List!Nodes
  <2>4. PICK g : g = List!along
    OBVIOUS
  <2>5. 1 \in 1 .. Len(q)
    BY <1>2, <1>4
  <2>6. g[q[1]] = SubSeq(q, 1, Len(q))
    BY <1>1, <2>1, <2>3, <2>4, <2>5, AlongIsRest
  <2>7. SubSeq(q, 1, Len(q)) = q
    BY <1>2, SubSeqFull
  <2>8. QED
    BY <1>2, <1>4, <2>4, <2>6, <2>7 DEF List!nodes
<1>5. QED
  BY <1>3, <1>4

LEMMA QueueInvDeque == QueueInv => List!QueueIsDeque
<1> SUFFICES ASSUME QueueInv PROVE List!QueueIsDeque
  OBVIOUS
<1>1. PICK q : QueueAt(q)
  BY DEF QueueInv
<1>2. List!nodes = q
  BY <1>1, NodesAreLinked
<1>3. Links(node, q, pushed)
  BY <1>1 DEF QueueAt
<1>4. /\ Len(q) \in Nat /\ counter = Len(q) /\ q \in Seq(Addresses) /\ DOMAIN q = 1 .. Len(q)
      /\ pushed \in Seq(Items) /\ Len(pushed) = Len(q) /\ DOMAIN pushed = 1 .. Len(q)
  BY <1>1, QueueFacts, LenProperties
<1>5. \A i \in 1 .. Len(q) : node[q[i]].data = pushed[i] /\ node[q[i]].prev = IF i = 1 THEN NULL ELSE q[i - 1]
  BY <1>3, CellFields DEF Links
<1>6. pushed = [i \in 1 .. Len(q) |-> pushed[i]]
  BY <1>4, LenProperties
<1>7. pushed = [i \in DOMAIN List!nodes |-> node[List!nodes[i]].data]
  BY <1>2, <1>4, <1>5, <1>6
<1>8. \A i \in DOMAIN List!nodes : node[List!nodes[i]].prev = IF i = 1 THEN NULL ELSE List!nodes[i - 1]
  BY <1>2, <1>4, <1>5
<1>9. q = << >> <=> Len(q) = 0
  BY <1>4, EmptySeq
<1>10. pushed = << >> <=> Len(q) = 0
  BY <1>4, EmptySeq
<1>11. tail = IF List!nodes = << >> THEN NULL ELSE List!nodes[Len(List!nodes)]
  BY <1>1, <1>2, <1>9 DEF QueueAt
<1>12. /\ phase = "broken" => pushed = << >> /\ head # NULL
       /\ phase = "leaked" => pushed # << >>
  BY <1>1, <1>4, <1>10 DEF QueueAt
<1>13. QED
  BY <1>4, <1>7, <1>8, <1>11, <1>12 DEF List!QueueIsDeque

\* For every item size, initial size and set of addresses, and after any calls: the vector
\* is the list that its calls make until one of them goes astray, and the queue is linked
\* both ways in the order of what was pushed and not popped.
THEOREM ListsAreKept == Vect!Spec /\ List!Spec => []ListsKeepItems
<1>1. VectorInv /\ QueueInv => ListsKeepItems
  BY VectorInvList, QueueInvDeque DEF ListsKeepItems
<1>2. QED
  BY <1>1, InitVector, NextVector, InitQueue, NextQueue, PTL DEF Vect!Spec, List!Spec

(***************************************************************************)
(* The heap.                                                               *)
(***************************************************************************)
\* A loop over an index and an array: unless it stops there, f goes on with the next ones.
IsLoop(f, D, A, Stop, out, nxt, upd) ==
    f = [i \in D |-> [a \in A |-> IF <<i, a>> \in Stop THEN out[i][a] ELSE f[nxt[i][a]][upd[i][a]]]]

\* There is such a function if the index comes closer to an end.
LEMMA LoopExists ==
    ASSUME NEW D, NEW A, NEW Stop, NEW out, NEW nxt, NEW upd, NEW N \in Nat, NEW left \in [D -> 0 .. N],
           \A i \in D : \A a \in A : <<i, a>> \notin Stop =>
               nxt[i][a] \in D /\ left[nxt[i][a]] < left[i]
    PROVE  \E f : IsLoop(f, D, A, Stop, out, nxt, upd)
<1> DEFINE Near(k) == {i \in D : left[i] < k}
           Partly(f, k) == IsLoop(f, Near(k), A, Stop, out, nxt, upd)
           Wrong == {k \in Nat : ~ \E f : Partly(f, k)}
<1>1. ASSUME Wrong # {} PROVE FALSE
  <2>1. PICK n \in Wrong : \A m \in Wrong : ~ (m < n)
    BY <1>1, LeastOf
  <2>2. CASE n = 0
    <3>1. Near(0) = {}
      OBVIOUS
    <3>2. Partly([i \in {} |-> 0], 0)
      BY <3>1 DEF IsLoop
    <3>3. QED
      BY <2>1, <2>2, <3>2
  <2>3. CASE n # 0
    <3>1. PICK k \in Nat : n = k + 1
      <4>1. n \in Nat
        BY <2>1
      <4>2. n - 1 \in Nat /\ n = (n - 1) + 1
        BY <2>3, <4>1
      <4>3. QED
        BY <4>2
    <3>2. k < n
      BY <3>1
    <3>3. k \notin Wrong
      BY <2>1, <3>2
    <3>4. PICK f : Partly(f, k)
      BY <3>3
    <3>5. PICK g : g = [i \in Near(n) |-> [a \in A |->
                           IF <<i, a>> \in Stop THEN out[i][a] ELSE f[nxt[i][a]][upd[i][a]]]]
      OBVIOUS
    <3>6. \A i \in Near(k) : i \in Near(n) /\ g[i] = f[i]
      <4>1. TAKE i \in Near(k)
      <4>2. i \in Near(n)
        BY <3>1, SMTT(40)
      <4>3. f[i] = [a \in A |-> IF <<i, a>> \in Stop THEN out[i][a] ELSE f[nxt[i][a]][upd[i][a]]]
        BY <3>4, ZenonT(60) DEF IsLoop
      <4>4. g[i] = [a \in A |-> IF <<i, a>> \in Stop THEN out[i][a] ELSE f[nxt[i][a]][upd[i][a]]]
        BY <3>5, <4>2
      <4>5. QED
        BY <4>2, <4>3, <4>4
    <3>7. ASSUME NEW i \in Near(n), NEW a \in A, <<i, a>> \notin Stop
          PROVE  g[nxt[i][a]] = f[nxt[i][a]]
      <4>1. nxt[i][a] \in D /\ left[nxt[i][a]] < left[i] /\ left[i] < n /\ left[i] \in 0 .. N
        BY <3>7
      <4>2. left[nxt[i][a]] \in 0 .. N
        BY <4>1
      <4>3. nxt[i][a] \in Near(k)
        BY <3>1, <4>1, <4>2
      <4>4. QED
        BY <3>6, <4>3
    <3>8. \A i \in Near(n) : \A a \in A :
             (IF <<i, a>> \in Stop THEN out[i][a] ELSE f[nxt[i][a]][upd[i][a]])
             = (IF <<i, a>> \in Stop THEN out[i][a] ELSE g[nxt[i][a]][upd[i][a]])
      BY <3>7, ZenonT(60)
    <3>9. g = [i \in Near(n) |-> [a \in A |->
                 IF <<i, a>> \in Stop THEN out[i][a] ELSE g[nxt[i][a]][upd[i][a]]]]
      <4> HIDE DEF Near
      <4>1. QED
        BY <3>5, <3>8, ZenonT(60)
    <3>10. Partly(g, n)
      BY <3>9, ZenonT(60) DEF IsLoop
    <3>11. QED
      BY <2>1, <3>10
  <2>4. QED
    BY <2>2, <2>3
<1>2. PICK f : Partly(f, N + 1)
  BY <1>1
<1>3. Near(N + 1) = D
  OBVIOUS
<1>4. QED
  BY <1>2, <1>3

\* A step from a good index and array goes closer to the end and to good ones, or the result is right.
Advances(D, A, Stop, out, nxt, upd, left, Good, Right) ==
    \A i \in D : \A a \in A : <<i, a>> \in Good =>
        IF <<i, a>> \in Stop THEN out[i][a] \in Right
        ELSE /\ nxt[i][a] \in D /\ left[nxt[i][a]] < left[i]
             /\ upd[i][a] \in A /\ <<nxt[i][a], upd[i][a]>> \in Good

\* What is good before a step is good after it, and then the result is.
LEMMA LoopReaches ==
    ASSUME NEW D, NEW A, NEW Stop, NEW out, NEW nxt, NEW upd, NEW N \in Nat, NEW left \in [D -> 0 .. N],
           NEW Good, NEW Right, NEW f, IsLoop(f, D, A, Stop, out, nxt, upd),
           Advances(D, A, Stop, out, nxt, upd, left, Good, Right)
    PROVE  \A i \in D : \A a \in A : <<i, a>> \in Good => f[i][a] \in Right
<1> DEFINE Wrong == {n \in Nat : \E i \in D : \E a \in A : left[i] = n /\ <<i, a>> \in Good /\ f[i][a] \notin Right}
<1>1. ASSUME Wrong # {} PROVE FALSE
  <2>1. PICK n \in Wrong : \A m \in Wrong : ~ (m < n)
    BY <1>1, LeastOf
  <2>2. PICK i \in D, a \in A : left[i] = n /\ <<i, a>> \in Good /\ f[i][a] \notin Right
    BY <2>1
  <2>3. f[i][a] = IF <<i, a>> \in Stop THEN out[i][a] ELSE f[nxt[i][a]][upd[i][a]]
    <3>1. f[i] = [c \in A |-> IF <<i, c>> \in Stop THEN out[i][c] ELSE f[nxt[i][c]][upd[i][c]]]
      BY DEF IsLoop
    <3>2. QED
      BY <3>1, SMTT(40)
  <2>4. <<i, a>> \notin Stop
    BY <2>2, <2>3 DEF Advances
  <2>5. PICK j \in D, b \in A : j = nxt[i][a] /\ b = upd[i][a] /\ left[j] < left[i] /\ <<j, b>> \in Good
    <3>1. nxt[i][a] \in D /\ left[nxt[i][a]] < left[i] /\ upd[i][a] \in A /\ <<nxt[i][a], upd[i][a]>> \in Good
      BY <2>2, <2>4 DEF Advances
    <3>2. QED
      BY <3>1
  <2>6. f[j][b] \notin Right
    BY <2>2, <2>3, <2>4, <2>5
  <2>7. left[j] \in Nat
    OBVIOUS
  <2>8. left[j] \in Wrong
    BY <2>5, <2>6, <2>7
  <2>9. QED
    BY <2>1, <2>2, <2>5, <2>8
<1>2. SUFFICES ASSUME NEW i \in D, NEW a \in A, <<i, a>> \in Good, f[i][a] \notin Right PROVE FALSE
  OBVIOUS
<1>3. left[i] \in Nat
  OBVIOUS
<1>4. left[i] \in Wrong
  BY <1>2, <1>3
<1>5. QED
  BY <1>1, <1>4

\* Where, and how often, v is among the first m of an array.
PlacesOf(a, m, v) == {i \in 0 .. m - 1 : a[i] = v}
CountIn(a, m, v) == Cardinality(PlacesOf(a, m, v))

LEMMA HeapCardinality == \A S : Prio!Cardinality(S) = Cardinality(S)
BY DEF Prio!Cardinality, Cardinality

LEMMA CountIsFinite ==
    ASSUME NEW a, NEW m \in Nat, NEW v
    PROVE  /\ IsFiniteSet(PlacesOf(a, m, v)) /\ CountIn(a, m, v) \in Nat
           /\ CountIn(a, m, v) > 0 <=> \E i \in 0 .. m - 1 : a[i] = v
<1> DEFINE S == PlacesOf(a, m, v)
<1>1. IsFiniteSet(0 .. m - 1) /\ S \in SUBSET (0 .. m - 1)
  BY FS_Interval DEF PlacesOf
<1>2. IsFiniteSet(S)
  BY <1>1, FS_Subset
<1>3. Cardinality(S) \in Nat /\ (Cardinality(S) = 0 <=> S = {})
  BY <1>2, FS_CardinalityType, FS_EmptySet
<1>4. S # {} <=> \E i \in 0 .. m - 1 : a[i] = v
  BY DEF PlacesOf
<1>5. QED
  BY <1>2, <1>3, <1>4 DEF CountIn

LEMMA SameCount ==
    ASSUME NEW a, NEW b, NEW m, NEW v, \A i \in 0 .. m - 1 : a[i] = b[i]
    PROVE  CountIn(a, m, v) = CountIn(b, m, v)
<1>1. PlacesOf(a, m, v) = PlacesOf(b, m, v)
  BY DEF PlacesOf
<1>2. QED
  BY <1>1 DEF CountIn

\* Two items that change places are still there.
LEMMA SwapKeepsCount ==
    ASSUME NEW a, NEW b, NEW m \in Nat, NEW v, NEW p \in 0 .. m - 1, NEW q \in 0 .. m - 1,
           b[p] = a[q], b[q] = a[p], \A i \in 0 .. m - 1 : i \notin {p, q} => b[i] = a[i]
    PROVE  CountIn(b, m, v) = CountIn(a, m, v)
<1> DEFINE S == PlacesOf(a, m, v)
           T == PlacesOf(b, m, v)
           t == [i \in S |-> IF i = p THEN q ELSE IF i = q THEN p ELSE i]
<1>1. t \in [S -> T]
  BY DEF PlacesOf
<1>2. \A i, j \in S : t[i] = t[j] => i = j
  BY DEF PlacesOf
<1>3. \A j \in T : \E i \in S : t[i] = j
  <2> USE DEF PlacesOf
  <2>1. TAKE j \in T
  <2>2. CASE j = p
    BY <2>2
  <2>3. CASE j = q
    BY <2>3
  <2>4. CASE j \notin {p, q}
    BY <2>4
  <2>5. QED
    BY <2>2, <2>3, <2>4
<1>4. IsFiniteSet(S)
  BY CountIsFinite
<1> HIDE DEF S, T, t
<1>5. t \in Bijection(S, T)
  BY <1>1, <1>2, <1>3, Fun_IsBij
<1>6. ExistsBijection(S, T)
  BY <1>5, Fun_ExistsBij
<1>7. Cardinality(T) = Cardinality(S)
  BY <1>4, <1>6, FS_Bijection
<1>8. QED
  BY <1>7 DEF CountIn, S, T

\* The item behind the others counts once more.
LEMMA CountOneMore ==
    ASSUME NEW a, NEW m \in Nat, NEW v
    PROVE  CountIn(a, m + 1, v) = CountIn(a, m, v) + (IF a[m] = v THEN 1 ELSE 0)
<1> DEFINE S == PlacesOf(a, m, v)
           T == PlacesOf(a, m + 1, v)
<1>1. T = IF a[m] = v THEN S \cup {m} ELSE S
  <2>1. 0 .. m + 1 - 1 = (0 .. m - 1) \cup {m}
    OBVIOUS
  <2>2. QED
    BY <2>1 DEF PlacesOf
<1>2. IsFiniteSet(S) /\ m \notin S
  <2>1. IsFiniteSet(S)
    BY CountIsFinite
  <2>2. m \notin S
    BY DEF PlacesOf
  <2>3. QED
    BY <2>1, <2>2
<1>3. CountIn(a, m, v) \in Nat
  BY CountIsFinite
<1> HIDE DEF S, T
<1>4. Cardinality(S \cup {m}) = Cardinality(S) + 1
  BY <1>2, FS_AddElement
<1>5. Cardinality(T) = Cardinality(S) + (IF a[m] = v THEN 1 ELSE 0)
  <2>1. Cardinality(S) \in Nat
    BY <1>3 DEF CountIn, S
  <2>2. QED
    BY <1>1, <1>4, <2>1
<1>6. QED
  BY <1>5 DEF CountIn, S, T

\* What 2 * i + 1 and (i - 1) / 2 have to do with each other.
LEMMA ParentOf ==
    /\ \A i \in Nat \ {0} : /\ Prio!Parent(i) \in Nat /\ Prio!Parent(i) < i
                            /\ i \in {Prio!Left(Prio!Parent(i)), Prio!Left(Prio!Parent(i)) + 1}
    /\ \A i \in Nat : /\ Prio!Left(i) \in Nat /\ Prio!Left(i) > i
                      /\ Prio!Parent(Prio!Left(i)) = i /\ Prio!Parent(Prio!Left(i) + 1) = i
BY DEF Prio!Parent, Prio!Left

\* Of n items of a, no child is greater than its parent if that is at k or behind it.
OrderedFrom(a, k, n) == \A i \in 1 .. n - 1 : Prio!Parent(i) >= k => a[Prio!Parent(i)] >= a[i]

LEMMA RootIsGreatest ==
    ASSUME NEW n \in Nat, NEW a, \A i \in 0 .. n - 1 : a[i] \in Int, OrderedFrom(a, 0, n), NEW j \in 0 .. n - 1
    PROVE  a[0] >= a[j]
<1> DEFINE Wrong == {i \in Nat : i < n /\ ~ (a[0] >= a[i])}
<1>1. ASSUME Wrong # {} PROVE FALSE
  <2>1. PICK i \in Wrong : \A m \in Wrong : ~ (m < i)
    BY <1>1, LeastOf
  <2>2. i \in Nat /\ i < n /\ ~ (a[0] >= a[i]) /\ 0 \in 0 .. n - 1 /\ i \in 0 .. n - 1
    BY <2>1
  <2>3. i # 0
    BY <2>2
  <2>4. PICK p \in Nat : p = Prio!Parent(i) /\ p < i
    BY <2>2, <2>3, ParentOf
  <2>5. a[p] >= a[i]
    BY <2>2, <2>3, <2>4 DEF OrderedFrom
  <2>6. p \notin Wrong
    BY <2>1, <2>4
  <2>7. a[0] >= a[p] /\ p \in 0 .. n - 1
    BY <2>2, <2>4, <2>6
  <2>8. QED
    BY <2>2, <2>5, <2>7
<1>2. QED
  BY <1>1

Memory(n) == [0 .. n - 1 -> Values \cup {0}]

\* The first m of b are values, each as often as in the bag.
Holds(b, m, often) ==
    /\ \A k \in 0 .. m - 1 : b[k] \in Values
    /\ \A v \in Values : CountIn(b, m, v) = often[v]

\* The item that moves into the hole at i leaves one at j.
LEMMA HoleMoves ==
    ASSUME NEW N \in Nat, NEW a \in Memory(N), NEW m \in 0 .. N, NEW i \in 0 .. m - 1, NEW j \in 0 .. m - 1,
           i # j, NEW x \in Values, NEW often, Holds([a EXCEPT ![i] = x], m, often)
    PROVE  /\ [a EXCEPT ![i] = a[j]] \in Memory(N)
           /\ Holds([[a EXCEPT ![i] = a[j]] EXCEPT ![j] = x], m, often)
<1>1. PICK b, c : b = [a EXCEPT ![i] = x] /\ c = [[a EXCEPT ![i] = a[j]] EXCEPT ![j] = x]
  OBVIOUS
<1>2. DOMAIN a = 0 .. N - 1 /\ i \in DOMAIN a /\ j \in DOMAIN a /\ 0 .. m - 1 \subseteq DOMAIN a
  BY DEF Memory
<1>3. /\ c[j] = b[i] /\ c[i] = b[j]
      /\ \A k \in 0 .. m - 1 : k \notin {i, j} => c[k] = b[k]
  BY <1>1, <1>2
<1>4. \A v \in Values : CountIn(c, m, v) = CountIn(b, m, v)
  BY <1>3, SwapKeepsCount
<1>5. Holds(b, m, often)
  BY <1>1
<1>6. Holds(c, m, often)
  BY <1>3, <1>4, <1>5 DEF Holds
<1>7. [a EXCEPT ![i] = a[j]] \in Memory(N)
  BY <1>2 DEF Memory
<1>8. QED
  BY <1>1, <1>6, <1>7

LEMMA ValuesAreInts == \A u \in Values \cup {0} : u \in Int
<1>1. TAKE u \in Values \cup {0}
<1>2. CASE u \in Values
  BY <1>2, HeapAssumption, Zenon
<1>3. CASE u = 0
  BY <1>3
<1>4. QED
  BY <1>2, <1>3

LEMMA MemoryOfInts ==
    ASSUME NEW N \in Nat, NEW a \in Memory(N), NEW m \in 0 .. N
    PROVE  DOMAIN a = 0 .. N - 1 /\ 0 .. m - 1 \subseteq DOMAIN a /\ \A k \in 0 .. m - 1 : a[k] \in Int
<1>1. DOMAIN a = 0 .. N - 1 /\ \A k \in 0 .. N - 1 : a[k] \in Values \cup {0}
  BY DEF Memory
<1>2. ASSUME NEW k \in 0 .. m - 1 PROVE k \in 0 .. N - 1 /\ a[k] \in Int
  <2>1. k \in 0 .. N - 1
    OBVIOUS
  <2>2. a[k] \in Values \cup {0}
    BY <1>1, <2>1
  <2>3. QED
    BY <2>1, <2>2, ValuesAreInts, Zenon
<1>3. QED
  BY <1>1, <1>2

\* While x rises among m items the hole at i is the only place out of order, and what
\* is below it may be above it.
OrderedButHole(i, a, x, m) ==
    \A k \in 1 .. m - 1 : /\ i \notin {k, Prio!Parent(k)} => a[Prio!Parent(k)] >= a[k]
                          /\ Prio!Parent(k) = i => x >= a[k]
                          /\ Prio!Parent(k) = i /\ i > 0 => a[Prio!Parent(i)] >= a[k]
Rising(i, a, x, m, often) ==
    i \in 0 .. m - 1 /\ Holds([a EXCEPT ![i] = x], m, often) /\ OrderedButHole(i, a, x, m)

LEMMA RiseStops ==
    ASSUME NEW N \in Nat, NEW a \in Memory(N), NEW m \in 0 .. N, NEW i, NEW x \in Values, NEW often,
           Rising(i, a, x, m, often), i = 0 \/ a[Prio!Parent(i)] >= x
    PROVE  [a EXCEPT ![i] = x] \in Memory(N) /\ OrderedFrom([a EXCEPT ![i] = x], 0, m)
<1>1. PICK b : b = [a EXCEPT ![i] = x]
  OBVIOUS
<1>2. /\ i \in 0 .. m - 1 /\ OrderedButHole(i, a, x, m)
      /\ DOMAIN a = 0 .. N - 1 /\ 0 .. m - 1 \subseteq DOMAIN a /\ \A k \in 0 .. m - 1 : a[k] \in Int
  BY MemoryOfInts DEF Rising
<1>3. b[i] = x /\ \A k \in 0 .. m - 1 : k # i => b[k] = a[k]
  BY <1>1, <1>2
<1>4. ASSUME NEW k \in 1 .. m - 1 PROVE b[Prio!Parent(k)] >= b[k]
  <2>1. PICK p \in 0 .. m - 1 : p = Prio!Parent(k) /\ p < k /\ k \in 0 .. m - 1
    BY ParentOf
  <2>2. CASE k = i
    BY <1>3, <2>1, <2>2
  <2>3. CASE p = i
    <3>1. x >= a[k]
      BY <1>2, <2>1, <2>3 DEF OrderedButHole
    <3>2. QED
      BY <1>3, <2>1, <2>3, <3>1
  <2>4. CASE i \notin {k, p}
    <3>1. a[p] >= a[k]
      BY <1>2, <2>1, <2>4 DEF OrderedButHole
    <3>2. QED
      BY <1>3, <2>1, <2>4, <3>1
  <2>5. QED
    BY <2>2, <2>3, <2>4
<1>5. b \in Memory(N)
  BY <1>1, <1>2 DEF Memory
<1>6. QED
  BY <1>1, <1>4, <1>5 DEF OrderedFrom

LEMMA RiseGoesOn ==
    ASSUME NEW N \in Nat, NEW a \in Memory(N), NEW m \in 0 .. N, NEW i, NEW x \in Values, NEW often,
           Rising(i, a, x, m, often), i # 0, ~ (a[Prio!Parent(i)] >= x)
    PROVE  /\ [a EXCEPT ![i] = a[Prio!Parent(i)]] \in Memory(N)
           /\ Rising(Prio!Parent(i), [a EXCEPT ![i] = a[Prio!Parent(i)]], x, m, often)
<1>1. /\ i \in 0 .. m - 1 /\ OrderedButHole(i, a, x, m) /\ Holds([a EXCEPT ![i] = x], m, often)
      /\ DOMAIN a = 0 .. N - 1 /\ 0 .. m - 1 \subseteq DOMAIN a /\ \A k \in 0 .. m - 1 : a[k] \in Int
  BY MemoryOfInts DEF Rising
<1>2. PICK p \in 0 .. m - 1 : p = Prio!Parent(i) /\ p < i
  BY <1>1, ParentOf
<1>3. PICK b : b = [a EXCEPT ![i] = a[p]]
  OBVIOUS
<1>4. b \in Memory(N) /\ Holds([b EXCEPT ![p] = x], m, often)
  <2>1. i \in 0 .. m - 1 /\ i # p /\ Holds([a EXCEPT ![i] = x], m, often)
    BY <1>1, <1>2
  <2>2. /\ [a EXCEPT ![i] = a[p]] \in Memory(N)
        /\ Holds([[a EXCEPT ![i] = a[p]] EXCEPT ![p] = x], m, often)
    BY <2>1, HoleMoves
  <2>3. QED
    BY <1>3, <2>2, Zenon
<1>5. b[i] = a[p] /\ \A k \in 0 .. m - 1 : k # i => b[k] = a[k]
  BY <1>1, <1>3
<1>6. a[p] < x
  <2>1. a[p] \in Int /\ x \in Int
    BY <1>1, <1>2, ValuesAreInts
  <2>2. ~ (a[p] >= x)
    BY <1>2
  <2>3. QED
    BY <2>1, <2>2
<1>7. p > 0 => Prio!Parent(p) \in 0 .. m - 1 /\ Prio!Parent(p) < p /\ a[Prio!Parent(p)] >= a[p]
  <2>1. SUFFICES ASSUME p > 0 PROVE Prio!Parent(p) \in 0 .. m - 1 /\ Prio!Parent(p) < p /\ a[Prio!Parent(p)] >= a[p]
    OBVIOUS
  <2>2. Prio!Parent(p) \in 0 .. m - 1 /\ Prio!Parent(p) < p
    BY <1>2, <2>1, ParentOf
  <2>3. p \in 1 .. m - 1 /\ i \notin {p, Prio!Parent(p)}
    BY <1>2, <2>1, <2>2
  <2>4. QED
    BY <1>1, <2>2, <2>3 DEF OrderedButHole
<1>8. ASSUME NEW k \in 1 .. m - 1
      PROVE  /\ p \notin {k, Prio!Parent(k)} => b[Prio!Parent(k)] >= b[k]
             /\ Prio!Parent(k) = p => x >= b[k]
             /\ Prio!Parent(k) = p /\ p > 0 => b[Prio!Parent(p)] >= b[k]
  <2>1. PICK q \in 0 .. m - 1 : q = Prio!Parent(k) /\ q < k /\ k \in 0 .. m - 1
    BY ParentOf
  <2>2. /\ i \notin {k, q} => a[q] >= a[k]
        /\ q = i => x >= a[k]
        /\ q = i /\ i > 0 => a[p] >= a[k]
    BY <1>1, <1>2, <2>1 DEF OrderedButHole
  <2>3. p \notin {k, q} => b[q] >= b[k]
    BY <1>1, <1>2, <1>5, <2>1, <2>2
  <2>4. q = p => a[p] >= b[k]
    BY <1>1, <1>2, <1>5, <2>1, <2>2
  <2>5. a[p] \in Int /\ b[k] \in Int /\ x \in Int
    BY <1>1, <1>2, <1>5, <2>1, ValuesAreInts
  <2>6. q = p => x >= b[k]
    BY <1>6, <2>4, <2>5
  <2>7. q = p /\ p > 0 => b[Prio!Parent(p)] >= b[k]
    <3>1. SUFFICES ASSUME q = p, p > 0 PROVE b[Prio!Parent(p)] >= b[k]
      OBVIOUS
    <3>2. PICK r \in 0 .. m - 1 : r = Prio!Parent(p) /\ r < p /\ a[r] >= a[p]
      BY <1>7, <3>1
    <3>3. b[r] = a[r] /\ a[r] \in Int
      BY <1>1, <1>2, <1>5, <3>2
    <3>4. QED
      BY <2>4, <2>5, <3>1, <3>2, <3>3
  <2>8. QED
    BY <2>1, <2>3, <2>6, <2>7
<1>9. Rising(p, b, x, m, often)
  BY <1>4, <1>8 DEF Rising, OrderedButHole
<1>10. QED
  BY <1>2, <1>3, <1>4, <1>9

\* What RiseOver's loop is.
RiseLoop(f, D, A, x) ==
    f = [i \in D |-> [a \in A |->
            IF i = 0 \/ a[Prio!Parent(i)] >= x THEN [a EXCEPT ![i] = x]
            ELSE f[Prio!Parent(i)][[a EXCEPT ![i] = a[Prio!Parent(i)]]]]]

LEMMA RiseEnds ==
    ASSUME NEW N \in Nat, NEW array \in Memory(N), NEW m \in 0 .. N, NEW start_at, NEW x \in Values, NEW often,
           Rising(start_at, array, x, m, often)
    PROVE  LET b == Prio!RiseOver(array, x, start_at)
           IN  b \in Memory(N) /\ Holds(b, m, often) /\ OrderedFrom(b, 0, m)
<1> DEFINE D == 0 .. N - 1
           A == Memory(N)
           Stop == {s \in D \X A : s[1] = 0 \/ s[2][Prio!Parent(s[1])] >= x}
           out == [i \in D |-> [a \in A |-> [a EXCEPT ![i] = x]]]
           nxt == [i \in D |-> [a \in A |-> Prio!Parent(i)]]
           upd == [i \in D |-> [a \in A |-> [a EXCEPT ![i] = a[Prio!Parent(i)]]]]
           left == [i \in D |-> i]
           Good == {s \in D \X A : Rising(s[1], s[2], x, m, often)}
           Right == {b \in Memory(N) : Holds(b, m, often) /\ OrderedFrom(b, 0, m)}
<1>1. left \in [D -> 0 .. N] /\ \A i \in D : left[i] = i
  OBVIOUS
<1>2. \A i \in D : \A a \in A :
         /\ <<i, a>> \in Stop <=> (i = 0 \/ a[Prio!Parent(i)] >= x)
         /\ <<i, a>> \in Good <=> Rising(i, a, x, m, often)
         /\ out[i][a] = [a EXCEPT ![i] = x] /\ nxt[i][a] = Prio!Parent(i)
         /\ upd[i][a] = [a EXCEPT ![i] = a[Prio!Parent(i)]]
  OBVIOUS
<1>3. \A i \in D : i # 0 => Prio!Parent(i) \in D /\ Prio!Parent(i) < i
  BY ParentOf
<1>4. DOMAIN array = D /\ Prio!Arrays(array) = A
  BY DEF Memory, Prio!Arrays
<1> HIDE DEF D, A, Stop, out, nxt, upd, left, Good
<1>5. \A i \in D : \A a \in A : <<i, a>> \notin Stop => nxt[i][a] \in D /\ left[nxt[i][a]] < left[i]
  <2>1. TAKE i \in D
  <2>2. TAKE a \in A
  <2>3. HAVE <<i, a>> \notin Stop
  <2>4. nxt[i][a] = Prio!Parent(i) /\ i # 0
    BY <1>2, <2>3
  <2>5. QED
    BY <1>1, <1>3, <2>4
<1>6. PICK g : IsLoop(g, D, A, Stop, out, nxt, upd)
  BY <1>1, <1>5, LoopExists
<1>7. \A f : RiseLoop(f, D, A, x) <=> IsLoop(f, D, A, Stop, out, nxt, upd)
  <2>1. TAKE f
  <2>2. \A i \in D : \A a \in A :
           (IF i = 0 \/ a[Prio!Parent(i)] >= x THEN [a EXCEPT ![i] = x]
            ELSE f[Prio!Parent(i)][[a EXCEPT ![i] = a[Prio!Parent(i)]]])
           = (IF <<i, a>> \in Stop THEN out[i][a] ELSE f[nxt[i][a]][upd[i][a]])
    BY <1>2
  <2>3. [i \in D |-> [a \in A |->
           IF i = 0 \/ a[Prio!Parent(i)] >= x THEN [a EXCEPT ![i] = x]
           ELSE f[Prio!Parent(i)][[a EXCEPT ![i] = a[Prio!Parent(i)]]]]]
        = [i \in D |-> [a \in A |-> IF <<i, a>> \in Stop THEN out[i][a] ELSE f[nxt[i][a]][upd[i][a]]]]
    BY <2>2
  <2>4. QED
    BY <2>3, Zenon DEF RiseLoop, IsLoop
<1>8. PICK f : RiseLoop(f, D, A, x) /\ Prio!RiseOver(array, x, start_at) = f[start_at][array]
  <2>1. RiseLoop(CHOOSE f : RiseLoop(f, D, A, x), D, A, x)
    BY <1>6, <1>7
  <2>2. Prio!RiseOver(array, x, start_at) = (CHOOSE f : RiseLoop(f, D, A, x))[start_at][array]
    BY <1>4 DEF Prio!RiseOver, RiseLoop
  <2>3. QED
    BY <2>1, <2>2
<1>9. IsLoop(f, D, A, Stop, out, nxt, upd)
  BY <1>7, <1>8
<1>10. ASSUME NEW i \in D, NEW a \in A, <<i, a>> \in Good
       PROVE  IF <<i, a>> \in Stop THEN out[i][a] \in Right
              ELSE /\ nxt[i][a] \in D /\ left[nxt[i][a]] < left[i]
                   /\ upd[i][a] \in A /\ <<nxt[i][a], upd[i][a]>> \in Good
  <2>1. Rising(i, a, x, m, often) /\ a \in Memory(N)
    BY <1>2, <1>10 DEF A
  <2>2. CASE <<i, a>> \in Stop
    <3>1. i = 0 \/ a[Prio!Parent(i)] >= x
      BY <1>2, <2>2
    <3>2. [a EXCEPT ![i] = x] \in Memory(N) /\ OrderedFrom([a EXCEPT ![i] = x], 0, m)
      BY <2>1, <3>1, RiseStops
    <3>3. Holds([a EXCEPT ![i] = x], m, often)
      BY <2>1 DEF Rising
    <3>4. out[i][a] = [a EXCEPT ![i] = x]
      BY <1>2
    <3>5. QED
      BY <2>2, <3>2, <3>3, <3>4
  <2>3. CASE <<i, a>> \notin Stop
    <3>1. i # 0 /\ ~ (a[Prio!Parent(i)] >= x)
      BY <1>2, <2>3
    <3>2. PICK p, b : p = Prio!Parent(i) /\ b = [a EXCEPT ![i] = a[Prio!Parent(i)]]
      OBVIOUS
    <3>3. b \in Memory(N) /\ Rising(p, b, x, m, often)
      BY <2>1, <3>1, <3>2, RiseGoesOn
    <3>4. p \in D /\ p < i
      BY <1>3, <3>1, <3>2
    <3>5. nxt[i][a] = p /\ upd[i][a] = b
      BY <1>2, <3>2
    <3>6. b \in A /\ <<p, b>> \in Good
      BY <1>2, <3>3, <3>4 DEF A
    <3>7. QED
      BY <1>1, <2>3, <3>4, <3>5, <3>6
  <2>4. QED
    BY <2>2, <2>3
<1>11. \A i \in D : \A a \in A : <<i, a>> \in Good => f[i][a] \in Right
  <2> HIDE DEF Right
  <2>1. Advances(D, A, Stop, out, nxt, upd, left, Good, Right)
    BY <1>10, Zenon DEF Advances
  <2>2. QED
    BY <1>1, <1>9, <2>1, LoopReaches
<1>12. start_at \in D /\ array \in A
  BY DEF D, A, Rising
<1>13. <<start_at, array>> \in Good
  BY <1>2, <1>12
<1>14. QED
  BY <1>8, <1>11, <1>12, <1>13

LEMMA LargerChild ==
    ASSUME NEW n \in Nat, NEW a, NEW i \in Nat, \A j \in 0 .. n - 1 : a[j] \in Int, Prio!Left(i) < n
    PROVE  LET s == Prio!Larger(a, i, n)
           IN  /\ s \in 1 .. n - 1 /\ s > i /\ Prio!Parent(s) = i
               /\ \A j \in 1 .. n - 1 : Prio!Parent(j) = i => a[s] >= a[j]
<1>1. PICK k \in 1 .. n - 1 : k = Prio!Left(i) /\ k > i /\ Prio!Parent(k) = i /\ Prio!Parent(k + 1) = i
  BY ParentOf
<1>2. ASSUME NEW j \in 1 .. n - 1, Prio!Parent(j) = i PROVE j \in {k, k + 1}
  BY <1>1, <1>2, ParentOf
<1>3. a[k] \in Int /\ (k + 1 < n => a[k + 1] \in Int)
  BY <1>1
<1>4. Prio!Larger(a, i, n) = IF k + 1 < n /\ a[k + 1] >= a[k] THEN k + 1 ELSE k
  BY <1>1 DEF Prio!Larger
<1>5. CASE k + 1 < n /\ a[k + 1] >= a[k]
  <2>1. a[k + 1] >= a[k + 1]
    BY <1>3, <1>5
  <2>2. Prio!Larger(a, i, n) = k + 1
    BY <1>4, <1>5
  <2>3. QED
    BY <1>1, <1>2, <1>5, <2>1, <2>2
<1>6. CASE ~ (k + 1 < n /\ a[k + 1] >= a[k])
  <2>1. a[k] >= a[k] /\ (k + 1 < n => a[k] >= a[k + 1])
    BY <1>3, <1>6
  <2>2. Prio!Larger(a, i, n) = k
    BY <1>4, <1>6
  <2>3. QED
    BY <1>1, <1>2, <1>6, <2>1, <2>2
<1>7. QED
  BY <1>5, <1>6

\* While x sinks among n items, from l downwards, the hole at i is the only place out of
\* order, and what is above it may be above x and what is below.
OrderedAroundHole(i, a, x, l, n) ==
    \A j \in 1 .. n - 1 : Prio!Parent(j) >= l =>
        /\ i \notin {j, Prio!Parent(j)} => a[Prio!Parent(j)] >= a[j]
        /\ j = i => a[Prio!Parent(j)] >= x
        /\ Prio!Parent(j) = i /\ i > 0 /\ Prio!Parent(i) >= l => a[Prio!Parent(i)] >= a[j]
Sinking(i, a, x, l, n, often) == Holds([a EXCEPT ![i] = x], n, often) /\ OrderedAroundHole(i, a, x, l, n)

LEMMA SinkStops ==
    ASSUME NEW N \in Nat, NEW a \in Memory(N), NEW n \in 0 .. N, NEW l \in Nat, NEW i \in 0 .. N - 1, NEW x \in Values,
           OrderedAroundHole(i, a, x, l, n), Prio!Left(i) >= n \/ x >= a[Prio!Larger(a, i, n)]
    PROVE  [a EXCEPT ![i] = x] \in Memory(N) /\ OrderedFrom([a EXCEPT ![i] = x], l, n)
<1>1. PICK b : b = [a EXCEPT ![i] = x]
  OBVIOUS
<1>2. DOMAIN a = 0 .. N - 1 /\ 0 .. n - 1 \subseteq DOMAIN a /\ x \in Int /\ \A k \in 0 .. n - 1 : a[k] \in Int
  BY MemoryOfInts, ValuesAreInts
<1>3. b[i] = x /\ \A k \in 0 .. n - 1 : k # i => b[k] = a[k]
  BY <1>1, <1>2
<1>4. ASSUME NEW j \in 1 .. n - 1, Prio!Parent(j) >= l PROVE b[Prio!Parent(j)] >= b[j]
  <2>1. PICK p \in 0 .. n - 1 : p = Prio!Parent(j) /\ p < j /\ j \in 0 .. n - 1
    BY ParentOf
  <2>2. CASE j = i
    <3>1. a[p] >= x
      BY <1>4, <2>1, <2>2 DEF OrderedAroundHole
    <3>2. QED
      BY <1>3, <2>1, <2>2, <3>1
  <2>3. CASE p = i
    <3>1. i \in Nat /\ n \in Nat /\ Prio!Left(i) \in Nat /\ Prio!Left(i) < n
      <4>1. i \in Nat /\ n \in Nat /\ j \in Nat \ {0} /\ Prio!Parent(j) = i /\ j < n
        BY <2>1, <2>3
      <4>2. j \in {Prio!Left(i), Prio!Left(i) + 1} /\ Prio!Left(i) \in Nat
        BY <4>1, ParentOf
      <4>3. QED
        BY <4>1, <4>2
    <3>2. PICK s \in 1 .. n - 1 : s = Prio!Larger(a, i, n) /\ a[s] >= a[j]
      <4>1. LET s == Prio!Larger(a, i, n)
            IN  s \in 1 .. n - 1 /\ \A k \in 1 .. n - 1 : Prio!Parent(k) = i => a[s] >= a[k]
        <5>1. \A k \in 0 .. n - 1 : a[k] \in Int
          BY <1>2
        <5>2. QED
          BY <3>1, <5>1, LargerChild, Zenon
      <4>2. QED
        BY <2>1, <2>3, <4>1
    <3>3. x >= a[s]
      BY <3>1, <3>2
    <3>4. a[s] \in Int /\ a[j] \in Int
      BY <1>2, <2>1
    <3>5. x >= a[j]
      BY <1>2, <3>2, <3>3, <3>4
    <3>6. QED
      BY <1>3, <2>1, <2>3, <3>5
  <2>4. CASE i \notin {j, p}
    <3>1. a[p] >= a[j]
      BY <1>4, <2>1, <2>4 DEF OrderedAroundHole
    <3>2. QED
      BY <1>3, <2>1, <2>4, <3>1
  <2>5. QED
    BY <2>2, <2>3, <2>4
<1>5. b \in Memory(N)
  BY <1>1, <1>2 DEF Memory
<1>6. QED
  BY <1>1, <1>4, <1>5 DEF OrderedFrom

LEMMA SinkGoesOn ==
    ASSUME NEW N \in Nat, NEW a \in Memory(N), NEW n \in 0 .. N, NEW l \in Nat, NEW i \in 0 .. N - 1, NEW x \in Values,
           NEW often, Sinking(i, a, x, l, n, often), Prio!Left(i) < n, ~ (x >= a[Prio!Larger(a, i, n)])
    PROVE  /\ [a EXCEPT ![i] = a[Prio!Larger(a, i, n)]] \in Memory(N)
           /\ Sinking(Prio!Larger(a, i, n), [a EXCEPT ![i] = a[Prio!Larger(a, i, n)]], x, l, n, often)
<1>1. /\ OrderedAroundHole(i, a, x, l, n) /\ Holds([a EXCEPT ![i] = x], n, often)
      /\ DOMAIN a = 0 .. N - 1 /\ 0 .. n - 1 \subseteq DOMAIN a /\ x \in Int /\ \A k \in 0 .. n - 1 : a[k] \in Int
  BY MemoryOfInts, ValuesAreInts DEF Sinking
<1>2. PICK s \in 1 .. n - 1 : /\ s = Prio!Larger(a, i, n) /\ s > i /\ Prio!Parent(s) = i
                              /\ \A j \in 1 .. n - 1 : Prio!Parent(j) = i => a[s] >= a[j]
  <2>1. i \in Nat /\ n \in Nat /\ Prio!Left(i) < n /\ \A j \in 0 .. n - 1 : a[j] \in Int
    BY <1>1
  <2>2. LET s == Prio!Larger(a, i, n)
        IN  /\ s \in 1 .. n - 1 /\ s > i /\ Prio!Parent(s) = i
            /\ \A j \in 1 .. n - 1 : Prio!Parent(j) = i => a[s] >= a[j]
    BY <2>1, LargerChild, Zenon
  <2>3. QED
    BY <2>2
<1>3. PICK b : b = [a EXCEPT ![i] = a[s]]
  OBVIOUS
<1>4. i \in 0 .. n - 1 /\ s \in 0 .. n - 1 /\ i # s /\ n \in Nat
  BY <1>2
<1>5. b \in Memory(N) /\ Holds([b EXCEPT ![s] = x], n, often)
  <2>1. /\ [a EXCEPT ![i] = a[s]] \in Memory(N)
        /\ Holds([[a EXCEPT ![i] = a[s]] EXCEPT ![s] = x], n, often)
    BY <1>1, <1>4, HoleMoves
  <2>2. QED
    BY <1>3, <2>1, Zenon
<1>6. b[i] = a[s] /\ \A k \in 0 .. n - 1 : k # i => b[k] = a[k]
  BY <1>1, <1>3, <1>4
<1>7. x < a[s] /\ a[s] \in Int
  <2>1. a[s] \in Int /\ ~ (x >= a[s])
    BY <1>1, <1>2, <1>4
  <2>2. QED
    BY <1>1, <2>1
<1>8. ASSUME NEW j \in 1 .. n - 1, Prio!Parent(j) >= l
      PROVE  /\ s \notin {j, Prio!Parent(j)} => b[Prio!Parent(j)] >= b[j]
             /\ j = s => b[Prio!Parent(j)] >= x
             /\ Prio!Parent(j) = s /\ s > 0 /\ Prio!Parent(s) >= l => b[Prio!Parent(s)] >= b[j]
  <2>1. PICK q \in 0 .. n - 1 : q = Prio!Parent(j) /\ q < j /\ j \in 0 .. n - 1
    BY ParentOf
  <2>2. /\ i \notin {j, q} => a[q] >= a[j]
        /\ q = i => a[s] >= a[j]
    BY <1>1, <1>2, <1>8, <2>1 DEF OrderedAroundHole
  <2>3. j = i => a[q] >= a[s]
    <3>1. SUFFICES ASSUME j = i PROVE a[q] >= a[s]
      OBVIOUS
    <3>2. Prio!Parent(s) = i /\ i > 0 /\ Prio!Parent(i) >= l /\ i >= l
      BY <1>2, <1>8, <2>1, <3>1
    <3>3. a[Prio!Parent(i)] >= a[s]
      BY <1>1, <1>2, <3>2 DEF OrderedAroundHole
    <3>4. QED
      BY <2>1, <3>1, <3>3
  <2>4. s \notin {j, q} => b[q] >= b[j]
    <3>1. SUFFICES ASSUME s \notin {j, q} PROVE b[q] >= b[j]
      OBVIOUS
    <3>2. CASE j = i
      <4>1. b[j] = a[s] /\ b[q] = a[q]
        BY <1>6, <2>1, <3>2
      <4>2. QED
        BY <2>3, <3>2, <4>1
    <3>3. CASE q = i
      <4>1. b[j] = a[j] /\ b[q] = a[s]
        BY <1>6, <2>1, <3>3
      <4>2. QED
        BY <2>2, <3>3, <4>1
    <3>4. CASE i \notin {j, q}
      <4>1. b[j] = a[j] /\ b[q] = a[q]
        BY <1>6, <2>1, <3>4
      <4>2. QED
        BY <2>2, <3>4, <4>1
    <3>5. QED
      BY <3>2, <3>3, <3>4
  <2>5. j = s => b[q] >= x
    BY <1>1, <1>2, <1>6, <1>7, <2>1
  <2>6. q = s => b[i] >= b[j]
    <3>1. SUFFICES ASSUME q = s PROVE b[i] >= b[j]
      OBVIOUS
    <3>2. i \notin {j, q} /\ b[j] = a[j]
      BY <1>2, <1>6, <2>1, <3>1
    <3>3. QED
      BY <1>6, <2>2, <3>1, <3>2
  <2>7. QED
    BY <1>2, <2>1, <2>4, <2>5, <2>6
<1>9. Sinking(s, b, x, l, n, often)
  BY <1>5, <1>8 DEF Sinking, OrderedAroundHole
<1>10. QED
  BY <1>2, <1>3, <1>5, <1>9

\* What SinkFrom's loop is.
SinkLoop(f, D, A, x, n) ==
    f = [i \in D |-> [a \in A |->
            IF Prio!Left(i) >= n \/ x >= a[Prio!Larger(a, i, n)] THEN [a EXCEPT ![i] = x]
            ELSE f[Prio!Larger(a, i, n)][[a EXCEPT ![i] = a[Prio!Larger(a, i, n)]]]]]

LEMMA SinkEnds ==
    ASSUME NEW N \in Nat, NEW array \in Memory(N), NEW n \in 0 .. N, NEW l \in 0 .. N - 1, NEW x \in Values, NEW often,
           Sinking(l, array, x, l, n, often)
    PROVE  LET b == Prio!SinkFrom(array, x, l, n)
           IN  b \in Memory(N) /\ Holds(b, n, often) /\ OrderedFrom(b, l, n)
<1> DEFINE D == 0 .. N - 1
           A == Memory(N)
           Stop == {s \in D \X A : Prio!Left(s[1]) >= n \/ x >= s[2][Prio!Larger(s[2], s[1], n)]}
           out == [i \in D |-> [a \in A |-> [a EXCEPT ![i] = x]]]
           nxt == [i \in D |-> [a \in A |-> Prio!Larger(a, i, n)]]
           upd == [i \in D |-> [a \in A |-> [a EXCEPT ![i] = a[Prio!Larger(a, i, n)]]]]
           left == [i \in D |-> N - i]
           Good == {s \in D \X A : Sinking(s[1], s[2], x, l, n, often)}
           Right == {b \in Memory(N) : Holds(b, n, often) /\ OrderedFrom(b, l, n)}
<1>1. left \in [D -> 0 .. N] /\ \A i \in D : left[i] = N - i
  OBVIOUS
<1>2. \A i \in D : \A a \in A :
         /\ <<i, a>> \in Stop <=> (Prio!Left(i) >= n \/ x >= a[Prio!Larger(a, i, n)])
         /\ <<i, a>> \in Good <=> Sinking(i, a, x, l, n, often)
         /\ out[i][a] = [a EXCEPT ![i] = x] /\ nxt[i][a] = Prio!Larger(a, i, n)
         /\ upd[i][a] = [a EXCEPT ![i] = a[Prio!Larger(a, i, n)]]
  OBVIOUS
<1>3. ASSUME NEW i \in D, NEW a \in A, Prio!Left(i) < n
      PROVE  Prio!Larger(a, i, n) \in D /\ N - Prio!Larger(a, i, n) < N - i
  <2>1. i \in Nat /\ n \in Nat /\ \A j \in 0 .. n - 1 : a[j] \in Int
    BY MemoryOfInts
  <2>2. Prio!Larger(a, i, n) \in 1 .. n - 1 /\ Prio!Larger(a, i, n) > i
    BY <1>3, <2>1, LargerChild
  <2>3. QED
    BY <2>1, <2>2
<1>4. \A i \in D : Prio!Left(i) \in Nat /\ (~ (Prio!Left(i) >= n) <=> Prio!Left(i) < n)
  BY ParentOf
<1>5. DOMAIN array = D /\ Prio!Arrays(array) = A
  BY DEF Memory, Prio!Arrays
<1> HIDE DEF D, A, Stop, out, nxt, upd, left, Good
<1>6. \A i \in D : \A a \in A : <<i, a>> \notin Stop => nxt[i][a] \in D /\ left[nxt[i][a]] < left[i]
  <2>1. TAKE i \in D
  <2>2. TAKE a \in A
  <2>3. HAVE <<i, a>> \notin Stop
  <2>4. nxt[i][a] = Prio!Larger(a, i, n) /\ Prio!Left(i) < n
    BY <1>2, <1>4, <2>3
  <2>5. QED
    BY <1>1, <1>3, <2>4
<1>7. PICK g : IsLoop(g, D, A, Stop, out, nxt, upd)
  BY <1>1, <1>6, LoopExists
<1>8. \A f : SinkLoop(f, D, A, x, n) <=> IsLoop(f, D, A, Stop, out, nxt, upd)
  <2>1. TAKE f
  <2>2. \A i \in D : \A a \in A :
           (IF Prio!Left(i) >= n \/ x >= a[Prio!Larger(a, i, n)] THEN [a EXCEPT ![i] = x]
            ELSE f[Prio!Larger(a, i, n)][[a EXCEPT ![i] = a[Prio!Larger(a, i, n)]]])
           = (IF <<i, a>> \in Stop THEN out[i][a] ELSE f[nxt[i][a]][upd[i][a]])
    BY <1>2
  <2>3. [i \in D |-> [a \in A |->
           IF Prio!Left(i) >= n \/ x >= a[Prio!Larger(a, i, n)] THEN [a EXCEPT ![i] = x]
           ELSE f[Prio!Larger(a, i, n)][[a EXCEPT ![i] = a[Prio!Larger(a, i, n)]]]]]
        = [i \in D |-> [a \in A |-> IF <<i, a>> \in Stop THEN out[i][a] ELSE f[nxt[i][a]][upd[i][a]]]]
    BY <2>2
  <2>4. QED
    BY <2>3, Zenon DEF SinkLoop, IsLoop
<1>9. PICK f : SinkLoop(f, D, A, x, n) /\ Prio!SinkFrom(array, x, l, n) = f[l][array]
  <2>1. SinkLoop(CHOOSE f : SinkLoop(f, D, A, x, n), D, A, x, n)
    BY <1>7, <1>8
  <2>2. Prio!SinkFrom(array, x, l, n) = (CHOOSE f : SinkLoop(f, D, A, x, n))[l][array]
    BY <1>5 DEF Prio!SinkFrom, SinkLoop
  <2>3. QED
    BY <2>1, <2>2
<1>10. IsLoop(f, D, A, Stop, out, nxt, upd)
  BY <1>8, <1>9
<1>11. ASSUME NEW i \in D, NEW a \in A, <<i, a>> \in Good
       PROVE  IF <<i, a>> \in Stop THEN out[i][a] \in Right
              ELSE /\ nxt[i][a] \in D /\ left[nxt[i][a]] < left[i]
                   /\ upd[i][a] \in A /\ <<nxt[i][a], upd[i][a]>> \in Good
  <2>1. Sinking(i, a, x, l, n, often) /\ a \in Memory(N) /\ i \in 0 .. N - 1 /\ l \in Nat
    <3>1. Sinking(i, a, x, l, n, often)
      BY <1>2, <1>11
    <3>2. QED
      BY <3>1 DEF A, D
  <2>2. CASE <<i, a>> \in Stop
    <3>1. Prio!Left(i) >= n \/ x >= a[Prio!Larger(a, i, n)]
      BY <1>2, <2>2
    <3>2. Holds([a EXCEPT ![i] = x], n, often) /\ OrderedAroundHole(i, a, x, l, n)
      BY <2>1 DEF Sinking
    <3>3. [a EXCEPT ![i] = x] \in Memory(N) /\ OrderedFrom([a EXCEPT ![i] = x], l, n)
      BY <2>1, <3>1, <3>2, SinkStops
    <3>4. out[i][a] = [a EXCEPT ![i] = x]
      BY <1>2
    <3>5. QED
      BY <2>2, <3>2, <3>3, <3>4
  <2>3. CASE <<i, a>> \notin Stop
    <3>1. Prio!Left(i) < n /\ ~ (x >= a[Prio!Larger(a, i, n)])
      BY <1>2, <1>4, <2>3
    <3>2. PICK s, b : s = Prio!Larger(a, i, n) /\ b = [a EXCEPT ![i] = a[Prio!Larger(a, i, n)]]
      OBVIOUS
    <3>3. b \in Memory(N) /\ Sinking(s, b, x, l, n, often)
      BY <2>1, <3>1, <3>2, SinkGoesOn
    <3>4. s \in D /\ N - s < N - i
      BY <1>3, <3>1, <3>2
    <3>5. nxt[i][a] = s /\ upd[i][a] = b
      BY <1>2, <3>2
    <3>6. b \in A /\ <<s, b>> \in Good
      BY <1>2, <3>3, <3>4 DEF A
    <3>7. QED
      BY <1>1, <2>3, <3>4, <3>5, <3>6
  <2>4. QED
    BY <2>2, <2>3
<1>12. \A i \in D : \A a \in A : <<i, a>> \in Good => f[i][a] \in Right
  <2> HIDE DEF Right
  <2>1. Advances(D, A, Stop, out, nxt, upd, left, Good, Right)
    BY <1>11, Zenon DEF Advances
  <2>2. QED
    BY <1>1, <1>10, <2>1, LoopReaches
<1>13. l \in D /\ array \in A
  BY DEF D, A
<1>14. <<l, array>> \in Good
  BY <1>2, <1>13
<1>15. QED
  BY <1>9, <1>12, <1>13, <1>14

\* What heapify's loop is.
HeapifyLoop(f, D, A, n) ==
    f = [k \in D |-> [a \in A |-> IF k = 0 THEN a ELSE f[k - 1][Prio!SinkFrom(a, a[k - 1], k - 1, n)]]]

\* One more item sinks into what is in order behind it.
LEMMA OneMoreSinks ==
    ASSUME NEW N \in Nat, NEW a \in Memory(N), NEW k \in 1 .. N, NEW often, Holds(a, N, often), OrderedFrom(a, k, N)
    PROVE  LET b == Prio!SinkFrom(a, a[k - 1], k - 1, N)
           IN  b \in Memory(N) /\ Holds(b, N, often) /\ OrderedFrom(b, k - 1, N)
<1>1. PICK l \in 0 .. N - 1 : l = k - 1 /\ k = l + 1
  OBVIOUS
<1>2. PICK x \in Values : x = a[l]
  BY <1>1 DEF Holds
<1>3. [a EXCEPT ![l] = x] = a
  BY <1>2 DEF Memory
<1>4. ASSUME NEW j \in 1 .. N - 1, Prio!Parent(j) >= l
      PROVE  /\ l \notin {j, Prio!Parent(j)} => a[Prio!Parent(j)] >= a[j]
             /\ j = l => a[Prio!Parent(j)] >= x
             /\ Prio!Parent(j) = l /\ l > 0 /\ Prio!Parent(l) >= l => a[Prio!Parent(l)] >= a[j]
  <2>1. Prio!Parent(j) \in Nat /\ Prio!Parent(j) < j
    BY ParentOf
  <2>2. l > 0 => Prio!Parent(l) \in Nat /\ Prio!Parent(l) < l
    BY ParentOf
  <2>3. j # l /\ ~ (l > 0 /\ Prio!Parent(l) >= l)
    BY <1>4, <2>1, <2>2
  <2>4. l # Prio!Parent(j) => Prio!Parent(j) >= k
    BY <1>1, <1>4, <2>1
  <2>5. l \notin {j, Prio!Parent(j)} => a[Prio!Parent(j)] >= a[j]
    BY <2>4 DEF OrderedFrom
  <2>6. QED
    BY <2>3, <2>5
<1>5. N \in 0 .. N
  OBVIOUS
<1>6. Sinking(l, a, x, l, N, often)
  BY <1>3, <1>4 DEF Sinking, OrderedAroundHole
<1>7. QED
  BY <1>1, <1>2, <1>5, <1>6, SinkEnds

LEMMA HeapifyEnds ==
    ASSUME NEW N \in Nat \ {0}, NEW array \in Memory(N), NEW often, Holds(array, N, often)
    PROVE  LET b == Prio!heapify(array)
           IN  b \in Memory(N) /\ Holds(b, N, often) /\ OrderedFrom(b, 0, N)
<1> DEFINE D == 0 .. N
           A == Memory(N)
           Stop == {s \in D \X A : s[1] = 0}
           out == [k \in D |-> [a \in A |-> a]]
           nxt == [k \in D |-> [a \in A |-> k - 1]]
           upd == [k \in D |-> [a \in A |-> Prio!SinkFrom(a, a[k - 1], k - 1, N)]]
           left == [k \in D |-> k]
           Good == {s \in D \X A : Holds(s[2], N, often) /\ OrderedFrom(s[2], s[1], N)}
           Right == {b \in Memory(N) : Holds(b, N, often) /\ OrderedFrom(b, 0, N)}
           half == N \div 2
<1>1. left \in [D -> 0 .. N] /\ \A k \in D : left[k] = k
  OBVIOUS
<1>2. \A k \in D : \A a \in A :
         /\ <<k, a>> \in Stop <=> k = 0
         /\ <<k, a>> \in Good <=> Holds(a, N, often) /\ OrderedFrom(a, k, N)
         /\ out[k][a] = a /\ nxt[k][a] = k - 1
         /\ upd[k][a] = Prio!SinkFrom(a, a[k - 1], k - 1, N)
  OBVIOUS
<1>3. \A k \in D : k # 0 => k - 1 \in D /\ k - 1 < k /\ k \in 1 .. N
  OBVIOUS
<1>4. DOMAIN array = 0 .. N - 1 /\ Prio!Arrays(array) = A /\ Prio!Cardinality(DOMAIN array) = N
  <2>1. DOMAIN array = 0 .. N - 1 /\ Prio!Arrays(array) = A
    BY DEF Memory, Prio!Arrays
  <2>2. 0 \in Int /\ N - 1 \in Int /\ ~ (0 > N - 1) /\ N - 1 - 0 + 1 = N
    OBVIOUS
  <2>3. Cardinality(0 .. N - 1) = N
    BY <2>2, FS_Interval
  <2>4. QED
    BY <2>1, <2>3, HeapCardinality
<1>5. half \in D /\ OrderedFrom(array, half, N)
  <2>1. half \in D /\ \A i \in 1 .. N - 1 : ~ (Prio!Parent(i) >= half)
    BY DEF Prio!Parent
  <2>2. QED
    BY <2>1 DEF OrderedFrom
<1>6. array \in A
  OBVIOUS
<1> HIDE DEF D, A, Stop, out, nxt, upd, left, Good, half
<1>7. \A k \in D : \A a \in A : <<k, a>> \notin Stop => nxt[k][a] \in D /\ left[nxt[k][a]] < left[k]
  BY <1>1, <1>2, <1>3
<1>8. PICK g : IsLoop(g, D, A, Stop, out, nxt, upd)
  <2>1. N \in Nat
    OBVIOUS
  <2>2. QED
    BY <1>1, <1>7, <2>1, LoopExists
<1>9. \A f : HeapifyLoop(f, D, A, N) <=> IsLoop(f, D, A, Stop, out, nxt, upd)
  <2>1. TAKE f
  <2>2. \A k \in D : \A a \in A :
           (IF k = 0 THEN a ELSE f[k - 1][Prio!SinkFrom(a, a[k - 1], k - 1, N)])
           = (IF <<k, a>> \in Stop THEN out[k][a] ELSE f[nxt[k][a]][upd[k][a]])
    BY <1>2
  <2>3. [k \in D |-> [a \in A |-> IF k = 0 THEN a ELSE f[k - 1][Prio!SinkFrom(a, a[k - 1], k - 1, N)]]]
        = [k \in D |-> [a \in A |-> IF <<k, a>> \in Stop THEN out[k][a] ELSE f[nxt[k][a]][upd[k][a]]]]
    BY <2>2
  <2>4. QED
    BY <2>3, Zenon DEF HeapifyLoop, IsLoop
<1>10. PICK f : HeapifyLoop(f, D, A, N) /\ Prio!heapify(array) = f[half][array]
  <2>1. HeapifyLoop(CHOOSE f : HeapifyLoop(f, D, A, N), D, A, N)
    BY <1>8, <1>9
  <2>2. Prio!heapify(array) = (CHOOSE f : HeapifyLoop(f, D, A, N))[half][array]
    BY <1>4 DEF Prio!heapify, HeapifyLoop, D, half
  <2>3. QED
    BY <2>1, <2>2
<1>11. IsLoop(f, D, A, Stop, out, nxt, upd)
  BY <1>9, <1>10
<1>12. ASSUME NEW k \in D, NEW a \in A, <<k, a>> \in Good
       PROVE  IF <<k, a>> \in Stop THEN out[k][a] \in Right
              ELSE /\ nxt[k][a] \in D /\ left[nxt[k][a]] < left[k]
                   /\ upd[k][a] \in A /\ <<nxt[k][a], upd[k][a]>> \in Good
  <2>1. Holds(a, N, often) /\ OrderedFrom(a, k, N) /\ a \in Memory(N)
    BY <1>2, <1>12 DEF A
  <2>2. CASE <<k, a>> \in Stop
    BY <1>2, <2>1, <2>2
  <2>3. CASE <<k, a>> \notin Stop
    <3>1. k \in 1 .. N /\ k - 1 \in D /\ nxt[k][a] = k - 1
      BY <1>2, <1>3, <2>3
    <3>2. PICK b : b = Prio!SinkFrom(a, a[k - 1], k - 1, N)
      OBVIOUS
    <3>3. b \in Memory(N) /\ Holds(b, N, often) /\ OrderedFrom(b, k - 1, N)
      BY <2>1, <3>1, <3>2, OneMoreSinks
    <3>4. upd[k][a] = b
      BY <1>2, <3>2
    <3>5. b \in A /\ <<k - 1, b>> \in Good
      BY <1>2, <3>1, <3>3 DEF A
    <3>6. QED
      BY <1>7, <2>3, <3>1, <3>4, <3>5
  <2>4. QED
    BY <2>2, <2>3
<1>13. \A k \in D : \A a \in A : <<k, a>> \in Good => f[k][a] \in Right
  <2> HIDE DEF Right
  <2>1. Advances(D, A, Stop, out, nxt, upd, left, Good, Right)
    BY <1>12, Zenon DEF Advances
  <2>2. N \in Nat
    OBVIOUS
  <2>3. QED
    BY <1>1, <1>11, <2>1, <2>2, LoopReaches
<1>14. <<half, array>> \in Good
  BY <1>2, <1>5, <1>6
<1>15. QED
  BY <1>5, <1>6, <1>10, <1>13, <1>14

\* The inductive invariant: the items are values, each as often as it was pushed and not
\* popped, in memory and in the heap's order.
PrioInv ==
    /\ held_size \in Nat \ {0} /\ held_count \in 0 .. held_size
    /\ data \in Memory(held_size) /\ added \in [Values -> Nat]
    /\ Holds(data, held_count, added) /\ OrderedFrom(data, 0, held_count)

LEMMA ResizeKeepsItems ==
    ASSUME NEW N \in Nat, NEW n \in Nat, NEW a \in Memory(N), NEW m \in 0 .. N, m <= n
    PROVE  /\ Prio!Resize(a, n) \in Memory(n)
           /\ \A i \in 0 .. m - 1 : Prio!Resize(a, n)[i] = a[i]
<1>1. DOMAIN a = 0 .. N - 1
  BY DEF Memory
<1>2. \A i \in 0 .. n - 1 : Prio!Resize(a, n)[i] = IF i \in DOMAIN a THEN a[i] ELSE 0
  BY DEF Prio!Resize
<1>3. Prio!Resize(a, n) \in Memory(n)
  BY <1>1 DEF Prio!Resize, Memory
<1>4. \A i \in 0 .. m - 1 : i \in 0 .. n - 1 /\ i \in DOMAIN a
  BY <1>1
<1>5. QED
  BY <1>2, <1>3, <1>4

LEMMA InitHeap == Prio!Init => PrioInv
<1> SUFFICES ASSUME Prio!Init PROVE PrioInv
  OBVIOUS
<1>1. BaseSize \in Nat \ {0} /\ held_size = BaseSize /\ held_count = 0 /\ added = [v \in Values |-> 0]
  BY HeapAssumption DEF Prio!Init
<1>2. data \in Memory(BaseSize)
  <2>1. Prio!Resize(<< >>, BaseSize) \in Memory(BaseSize)
    BY DEF Prio!Resize, Memory
  <2>2. QED
    BY <2>1 DEF Prio!Init
<1>3. \A v \in Values : CountIn(data, 0, v) = 0
  <2>1. \A v \in Values : PlacesOf(data, 0, v) = {}
    BY DEF PlacesOf
  <2>2. QED
    BY <2>1, FS_EmptySet DEF CountIn
<1>4. Holds(data, 0, added) /\ OrderedFrom(data, 0, 0)
  BY <1>1, <1>3 DEF Holds, OrderedFrom
<1>5. QED
  BY <1>1, <1>2, <1>4 DEF PrioInv

LEMMA PushKeepsHeap ==
    ASSUME NEW N \in Nat, NEW M \in Nat, NEW n \in 0 .. N, n < M, NEW h \in Memory(N), NEW often \in [Values -> Nat],
           Holds(h, n, often), OrderedFrom(h, 0, n), NEW value \in Values
    PROVE  LET b == Prio!RiseOver(Prio!Resize(h, M), value, n)
               more == [often EXCEPT ![value] = @ + 1]
           IN  /\ b \in Memory(M) /\ more \in [Values -> Nat]
               /\ Holds(b, n + 1, more) /\ OrderedFrom(b, 0, n + 1)
<1>1. PICK a, more : a = Prio!Resize(h, M) /\ more = [often EXCEPT ![value] = @ + 1]
  OBVIOUS
<1>2. PICK b : b = [a EXCEPT ![n] = value]
  OBVIOUS
<1>3. PICK m \in 0 .. M : m = n + 1 /\ n \in 0 .. m - 1 /\ n \in 0 .. M - 1 /\ n \in Nat
  OBVIOUS
<1>4. a \in Memory(M) /\ \A i \in 0 .. n - 1 : a[i] = h[i]
  BY <1>1, ResizeKeepsItems
<1>5. DOMAIN a = 0 .. M - 1
  BY <1>4 DEF Memory
<1>6. b[n] = value /\ \A i \in 0 .. n - 1 : b[i] = h[i]
  BY <1>2, <1>3, <1>4, <1>5
<1>7. ASSUME NEW v \in Values PROVE CountIn(b, m, v) = more[v]
  <2>1. CountIn(b, n, v) = CountIn(h, n, v)
    BY <1>6, SameCount
  <2>2. CountIn(b, m, v) = CountIn(b, n, v) + (IF b[n] = v THEN 1 ELSE 0)
    BY <1>3, CountOneMore
  <2>3. CountIn(h, n, v) = often[v] /\ often[v] \in Nat
    BY DEF Holds
  <2>4. more[v] = often[v] + (IF value = v THEN 1 ELSE 0)
    BY <1>1, <2>3
  <2>5. QED
    BY <1>6, <2>1, <2>2, <2>3, <2>4
<1>8. \A k \in 0 .. m - 1 : b[k] \in Values
  <2>1. \A k \in 0 .. n - 1 : h[k] \in Values
    BY DEF Holds
  <2>2. QED
    BY <1>3, <1>6, <2>1
<1>9. OrderedButHole(n, a, value, m)
  <2>1. SUFFICES ASSUME NEW k \in 1 .. m - 1
                 PROVE  n # Prio!Parent(k) /\ (n # k => a[Prio!Parent(k)] >= a[k])
    BY DEF OrderedButHole
  <2>2. PICK p \in Nat : p = Prio!Parent(k) /\ p < k /\ k \in Nat /\ k <= n
    BY <1>3, ParentOf
  <2>3. n # p
    BY <1>3, <2>2
  <2>4. ASSUME n # k PROVE a[p] >= a[k]
    <3>1. k \in 1 .. n - 1 /\ k \in 0 .. n - 1 /\ p \in 0 .. n - 1
      BY <1>3, <2>2, <2>4
    <3>2. h[p] >= h[k]
      BY <2>2, <3>1 DEF OrderedFrom
    <3>3. QED
      BY <1>4, <3>1, <3>2
  <2>5. QED
    BY <2>2, <2>3, <2>4
<1>10. Rising(n, a, value, m, more)
  <2>1. Holds(b, m, more)
    BY <1>7, <1>8 DEF Holds
  <2>2. QED
    BY <1>2, <1>3, <1>9, <2>1 DEF Rising
<1>11. more \in [Values -> Nat]
  BY <1>1
<1>12. QED
  BY <1>1, <1>3, <1>4, <1>10, <1>11, RiseEnds

LEMMA PopKeepsHeap ==
    ASSUME NEW N \in Nat, NEW M \in Nat \ {0}, NEW n \in 1 .. N, n <= M + 1, NEW h \in Memory(N),
           NEW often \in [Values -> Nat], Holds(h, n, often), OrderedFrom(h, 0, n)
    PROVE  LET b == Prio!SinkFrom(Prio!Resize(h, M), h[n - 1], 0, n - 1)
               top == CHOOSE v \in Values : often[v] > 0 /\ \A w \in Values : often[w] > 0 => w <= v
               less == [often EXCEPT ![top] = @ - 1]
           IN  /\ b \in Memory(M) /\ less \in [Values -> Nat]
               /\ Holds(b, n - 1, less) /\ OrderedFrom(b, 0, n - 1)
<1>1. PICK c \in Nat : /\ c = n - 1 /\ n = c + 1 /\ c \in 0 .. n - 1 /\ 0 \in 0 .. n - 1 /\ c \in 0 .. N - 1
                       /\ c \in 0 .. M /\ c \in 0 .. N /\ 0 \in 0 .. N - 1 /\ 0 \in 0 .. M - 1
  <2>1. n - 1 \in Nat
    OBVIOUS
  <2>2. QED
    BY <2>1
<1>2. PICK a, x : a = Prio!Resize(h, M) /\ x = h[c]
  OBVIOUS
<1>3. PICK b, d : b = [a EXCEPT ![0] = x] /\ d = [h EXCEPT ![0] = x, ![c] = h[0]]
  OBVIOUS
<1>4. \A k \in 0 .. n - 1 : h[k] \in Values /\ h[k] \in Int
  BY ValuesAreInts DEF Holds
<1>5. x \in Values /\ h[0] \in Values
  BY <1>1, <1>2, <1>4
<1>6. a \in Memory(M) /\ \A i \in 0 .. c - 1 : a[i] = h[i]
  <2>1. c <= M /\ M \in Nat
    BY <1>1
  <2>2. QED
    BY <1>1, <1>2, <2>1, ResizeKeepsItems
<1>7. DOMAIN a = 0 .. M - 1 /\ DOMAIN h = 0 .. N - 1
  BY <1>6 DEF Memory
<1>8. \A v \in Values : CountIn(h, n, v) = often[v] /\ often[v] \in Nat
  BY DEF Holds
<1>9. \A v \in Values : often[v] > 0 <=> \E i \in 0 .. n - 1 : h[i] = v
  <2>1. TAKE v \in Values
  <2>2. n \in Nat
    OBVIOUS
  <2>3. CountIn(h, n, v) > 0 <=> \E i \in 0 .. n - 1 : h[i] = v
    BY <2>2, CountIsFinite, Zenon
  <2>4. CountIn(h, n, v) = often[v]
    BY <1>8
  <2>5. QED
    BY <2>3, <2>4, Zenon
<1>10. PICK top : /\ top = CHOOSE v \in Values : often[v] > 0 /\ \A w \in Values : often[w] > 0 => w <= v
                  /\ top = h[0]
  <2>1. often[h[0]] > 0
    BY <1>1, <1>5, <1>9
  <2>2. ASSUME NEW w \in Values, often[w] > 0 PROVE w <= h[0]
    <3>1. PICK k \in 0 .. n - 1 : h[k] = w
      BY <1>9, <2>2
    <3>2. n \in Nat
      OBVIOUS
    <3>3. h[0] >= h[k]
      BY <1>4, <3>2, RootIsGreatest
    <3>4. h[0] \in Int /\ h[k] \in Int
      BY <1>1, <1>4
    <3>5. QED
      BY <3>1, <3>3, <3>4
  <2>3. \A v, w \in Values : v <= w /\ w <= v => v = w
    BY ValuesAreInts
  <2>4. QED
    BY <1>5, <2>1, <2>2, <2>3
<1>11. /\ \A i \in 0 .. c - 1 : b[i] = IF i = 0 THEN x ELSE h[i]
       /\ \A i \in 0 .. c - 1 : d[i] = b[i]
       /\ d[c] = h[0] /\ d[0] = h[c]
       /\ \A i \in 0 .. n - 1 : i \notin {0, c} => d[i] = h[i]
  <2>1. \A i \in 0 .. c - 1 : i \in 0 .. M - 1 /\ i # c /\ i \in 0 .. N - 1
    BY <1>1
  <2>2. \A i \in 0 .. c - 1 : b[i] = IF i = 0 THEN x ELSE h[i]
    BY <1>3, <1>6, <1>7, <2>1
  <2>3. /\ d[c] = h[0] /\ d[0] = h[c]
        /\ \A i \in 0 .. N - 1 : i \notin {0, c} => d[i] = h[i]
    BY <1>1, <1>2, <1>3, <1>7
  <2>4. \A i \in 0 .. n - 1 : i \in 0 .. N - 1
    OBVIOUS
  <2>5. \A i \in 0 .. c - 1 : d[i] = b[i]
    <3>1. TAKE i \in 0 .. c - 1
    <3>2. CASE i = 0
      BY <1>2, <2>2, <2>3, <3>2
    <3>3. CASE i # 0
      BY <2>1, <2>2, <2>3, <3>3
    <3>4. QED
      BY <3>2, <3>3
  <2>6. QED
    BY <2>2, <2>3, <2>4, <2>5
<1>12. PICK less : less = [often EXCEPT ![top] = @ - 1]
  OBVIOUS
<1>13. ASSUME NEW v \in Values PROVE CountIn(b, c, v) = less[v] /\ less[v] \in Nat
  <2>1. CountIn(d, n, v) = CountIn(h, n, v)
    <3>1. n \in Nat
      OBVIOUS
    <3>2. QED
      BY <1>1, <1>11, <3>1, SwapKeepsCount
  <2>2. CountIn(d, n, v) = CountIn(d, c, v) + (IF h[0] = v THEN 1 ELSE 0)
    BY <1>1, <1>11, CountOneMore
  <2>3. CountIn(d, c, v) = CountIn(b, c, v)
    BY <1>11, SameCount
  <2>4. CountIn(b, c, v) \in Nat
    BY <1>1, CountIsFinite
  <2>5. less[v] = IF h[0] = v THEN often[v] - 1 ELSE often[v]
    BY <1>10, <1>12
  <2>6. CountIn(h, n, v) = often[v] /\ often[v] \in Nat
    BY <1>8
  <2>7. often[v] = CountIn(b, c, v) + (IF h[0] = v THEN 1 ELSE 0)
    BY <2>1, <2>2, <2>3, <2>6, Zenon
  <2>8. CASE h[0] = v
    <3>1. often[v] = CountIn(b, c, v) + 1 /\ less[v] = often[v] - 1
      BY <2>5, <2>7, <2>8, Zenon
    <3>2. QED
      BY <2>4, <2>6, <3>1
  <2>9. CASE h[0] # v
    <3>1. often[v] = CountIn(b, c, v) + 0 /\ less[v] = often[v]
      BY <2>5, <2>7, <2>9, Zenon
    <3>2. QED
      BY <2>4, <2>6, <3>1
  <2>10. QED
    BY <2>8, <2>9
<1>14. \A k \in 0 .. c - 1 : b[k] \in Values
  BY <1>1, <1>4, <1>5, <1>11
<1>15. OrderedAroundHole(0, a, x, 0, c)
  <2>1. SUFFICES ASSUME NEW j \in 1 .. c - 1 PROVE a[Prio!Parent(j)] >= a[j]
    BY DEF OrderedAroundHole
  <2>2. PICK p \in Nat : p = Prio!Parent(j) /\ p < j
    BY ParentOf
  <2>3. j \in 1 .. n - 1 /\ j \in 0 .. c - 1 /\ p \in 0 .. c - 1 /\ p >= 0
    BY <1>1, <2>2
  <2>4. h[p] >= h[j]
    BY <2>2, <2>3 DEF OrderedFrom
  <2>5. QED
    BY <1>6, <2>2, <2>3, <2>4
<1>16. Sinking(0, a, x, 0, c, less)
  <2>1. Holds(b, c, less)
    BY <1>13, <1>14 DEF Holds
  <2>2. QED
    BY <1>3, <1>15, <2>1 DEF Sinking
<1>17. less \in [Values -> Nat]
  BY <1>12, <1>13
<1>18. PICK e : e = Prio!SinkFrom(a, x, 0, c)
  OBVIOUS
<1>19. e \in Memory(M) /\ Holds(e, c, less) /\ OrderedFrom(e, 0, c)
  <2>1. M \in Nat
    OBVIOUS
  <2>2. QED
    BY <1>1, <1>5, <1>6, <1>16, <1>18, <2>1, SinkEnds
<1>20. QED
  BY <1>1, <1>2, <1>10, <1>12, <1>17, <1>18, <1>19

LEMMA PushHeap == ASSUME PrioInv, NEW value \in Values, Prio!push(value) PROVE PrioInv'
<1>1. /\ held_size \in Nat \ {0} /\ held_count \in 0 .. held_size /\ data \in Memory(held_size)
      /\ added \in [Values -> Nat] /\ Holds(data, held_count, added) /\ OrderedFrom(data, 0, held_count)
  BY DEF PrioInv
<1>2. PICK M : M = IF held_count = held_size THEN 2 * held_size ELSE held_size
  OBVIOUS
<1>3. held_size \in Nat /\ M \in Nat \ {0} /\ M \in Nat /\ held_count < M /\ held_count + 1 \in 0 .. M
  BY <1>1, <1>2
<1>4. /\ held_size' = M /\ held_count' = held_count + 1
      /\ data' = Prio!RiseOver(Prio!Resize(data, M), value, held_count)
      /\ added' = [added EXCEPT ![value] = @ + 1]
  BY <1>2 DEF Prio!push
<1>5. LET b == Prio!RiseOver(Prio!Resize(data, M), value, held_count)
          more == [added EXCEPT ![value] = @ + 1]
      IN  /\ b \in Memory(M) /\ more \in [Values -> Nat]
          /\ Holds(b, held_count + 1, more) /\ OrderedFrom(b, 0, held_count + 1)
  BY <1>1, <1>3, PushKeepsHeap
<1>6. QED
  BY <1>3, <1>4, <1>5 DEF PrioInv

LEMMA PopHeap == ASSUME PrioInv, Prio!pop PROVE PrioInv'
<1>1. /\ held_size \in Nat \ {0} /\ held_count \in 0 .. held_size /\ data \in Memory(held_size)
      /\ added \in [Values -> Nat] /\ Holds(data, held_count, added) /\ OrderedFrom(data, 0, held_count)
  BY DEF PrioInv
<1>2. PICK M : M = IF held_count - 1 <= held_size \div 4 /\ held_size > BaseSize THEN held_size \div 2 ELSE held_size
  OBVIOUS
<1>3. BaseSize \in Nat \ {0} /\ held_count > 0
  BY HeapAssumption DEF Prio!pop
<1>4. /\ held_size \in Nat /\ M \in Nat \ {0} /\ held_count \in 1 .. held_size /\ held_count <= M + 1
      /\ held_count - 1 \in 0 .. M
  BY <1>1, <1>2, <1>3
<1>5. /\ held_size' = M /\ held_count' = held_count - 1
      /\ data' = Prio!SinkFrom(Prio!Resize(data, M), data[held_count - 1], 0, held_count - 1)
      /\ added' = [added EXCEPT ![CHOOSE v \in Values : added[v] > 0 /\ \A w \in Values : added[w] > 0 => w <= v] = @ - 1]
  BY <1>2 DEF Prio!pop
<1>6. LET b == Prio!SinkFrom(Prio!Resize(data, M), data[held_count - 1], 0, held_count - 1)
          top == CHOOSE v \in Values : added[v] > 0 /\ \A w \in Values : added[w] > 0 => w <= v
          less == [added EXCEPT ![top] = @ - 1]
      IN  /\ b \in Memory(M) /\ less \in [Values -> Nat]
          /\ Holds(b, held_count - 1, less) /\ OrderedFrom(b, 0, held_count - 1)
  BY <1>1, <1>4, PopKeepsHeap
<1>7. QED
  BY <1>4, <1>5, <1>6 DEF PrioInv

LEMMA AdoptHeap ==
    ASSUME PrioInv, NEW array \in [0 .. BaseSize - 1 -> Values], Prio!Adopt(array)
    PROVE  PrioInv'
<1>1. /\ held_size' = BaseSize /\ data' = Prio!heapify(array)
      /\ held_count' = Prio!Cardinality(DOMAIN array)
      /\ added' = [v \in Values |-> Prio!Cardinality({i \in DOMAIN array : array[i] = v})]
  BY DEF Prio!Adopt
<1>2. BaseSize \in Nat \ {0} /\ DOMAIN array = 0 .. BaseSize - 1 /\ BaseSize \in 0 .. BaseSize
  BY HeapAssumption
<1>3. held_count' = BaseSize
  <2>1. 0 \in Int /\ BaseSize - 1 \in Int /\ ~ (0 > BaseSize - 1) /\ BaseSize - 1 - 0 + 1 = BaseSize
    BY <1>2
  <2>2. Cardinality(0 .. BaseSize - 1) = BaseSize
    BY <2>1, FS_Interval
  <2>3. QED
    BY <1>1, <1>2, <2>2, HeapCardinality
<1>4. \A v \in Values : added'[v] = CountIn(array, BaseSize, v) /\ CountIn(array, BaseSize, v) \in Nat
  <2>1. \A v \in Values : {i \in DOMAIN array : array[i] = v} = PlacesOf(array, BaseSize, v)
    BY <1>2 DEF PlacesOf
  <2>2. \A v \in Values : CountIn(array, BaseSize, v) \in Nat
    BY <1>2, CountIsFinite
  <2>3. \A v \in Values : added'[v] = Prio!Cardinality({i \in DOMAIN array : array[i] = v})
    BY <1>1
  <2>4. QED
    BY <2>1, <2>2, <2>3, HeapCardinality DEF CountIn
<1>5. array \in Memory(BaseSize)
  BY DEF Memory
<1>6. Holds(array, BaseSize, added')
  BY <1>4 DEF Holds
<1>7. /\ data' \in Memory(BaseSize) /\ Holds(data', BaseSize, added')
      /\ OrderedFrom(data', 0, BaseSize)
  BY <1>1, <1>2, <1>5, <1>6, HeapifyEnds
<1>8. added' \in [Values -> Nat]
  BY <1>1, <1>4
<1>9. QED
  BY <1>1, <1>2, <1>3, <1>7, <1>8 DEF PrioInv

LEMMA NextHeap == PrioInv /\ [Prio!Next]_(Prio!vars) => PrioInv'
<1> SUFFICES ASSUME PrioInv, [Prio!Next]_(Prio!vars) PROVE PrioInv'
  OBVIOUS
<1>1. CASE UNCHANGED Prio!vars
  BY <1>1 DEF PrioInv, Prio!vars
<1>2. CASE Prio!Next
  BY <1>2, PushHeap, PopHeap, AdoptHeap DEF Prio!Next
<1>3. QED
  BY <1>1, <1>2

LEMMA PrioInvHeap == PrioInv => HeapIsPriorityQueue
<1> SUFFICES ASSUME PrioInv PROVE HeapIsPriorityQueue
  OBVIOUS
<1>1. /\ held_size \in Nat \ {0} /\ held_count \in 0 .. held_size /\ data \in Memory(held_size)
      /\ Holds(data, held_count, added) /\ OrderedFrom(data, 0, held_count)
  BY DEF PrioInv
<1>2. held_count <= held_size /\ DOMAIN data = 0 .. held_size - 1
  BY <1>1 DEF Memory
<1>3. \A v \in Values : added[v] = Prio!Cardinality({i \in 0 .. held_count - 1 : data[i] = v})
  <2>1. \A v \in Values : added[v] = Cardinality(PlacesOf(data, held_count, v))
    BY <1>1 DEF Holds, CountIn
  <2>2. QED
    BY <2>1, HeapCardinality DEF PlacesOf
<1>4. \A i \in 1 .. held_count - 1 : data[Prio!Parent(i)] >= data[i]
  <2>1. \A i \in 1 .. held_count - 1 : Prio!Parent(i) \in Nat
    BY ParentOf
  <2>2. QED
    BY <1>1, <2>1 DEF OrderedFrom
<1>5. QED
  BY <1>2, <1>3, <1>4 DEF HeapIsPriorityQueue, Prio!HeapIsPriorityQueue

\* Whatever is pushed, popped and made a heap of, and however the array grows and shrinks:
\* a pop takes a greatest of the items that were pushed and not popped, and the others stay.
THEOREM HeapIsCorrect == Prio!Spec => []HeapIsPriorityQueue
BY InitHeap, NextHeap, PrioInvHeap, PTL DEF Prio!Spec

(***************************************************************************)
(* The ini file: the dictionary.  Where its calls look for a key, what they *)
(* change in the slots, and what the slots then say as a map.              *)
(***************************************************************************)
Text == Seq(DOMAIN Lower)
Slot == Text \cup {NULL}

\* A dictionary as dictionary_new makes it and dictionary_set and dictionary_unset leave it:
\* no key is in two slots, and the slots in use are counted.
DictInv(d) ==
    /\ d \in [n : Nat, key : Seq(Slot), val : Seq(Slot)]
    /\ Len(d.val) = Len(d.key) /\ Len(d.key) # 0
    /\ \A i, j \in Ini!Used(d) : d.key[i] = d.key[j] => i = j
    /\ d.n = Cardinality(Ini!Used(d))

LEMMA IniCardinality == \A S : Ini!Cardinality(S) = Cardinality(S)
BY DEF Ini!Cardinality, Cardinality

LEMMA LeastPlace ==
    ASSUME NEW S, S \subseteq Nat, S # {}
    PROVE  Ini!Min(S) \in S
<1>1. PICK least \in S : \A i \in S : least <= i
  BY LeastOf
<1>2. QED
  BY <1>1 DEF Ini!Min

LEMMA PlaceIs ==
    ASSUME NEW S, NEW s \in Seq(S), NEW x
    PROVE  /\ Ini!Place(s, x) \in 0 .. Len(s)
           /\ Ini!Place(s, x) = 0 => \A i \in 1 .. Len(s) : s[i] # x
           /\ Ini!Place(s, x) # 0 => s[Ini!Place(s, x)] = x
<1>1. PICK at : at = {i \in 1 .. Len(s) : s[i] = x}
  OBVIOUS
<1>2. Ini!Place(s, x) = IF at # {} THEN Ini!Min(at) ELSE 0
  BY <1>1 DEF Ini!Place, Ini!SelectInSeq
<1>3. Len(s) \in Nat
  BY LenProperties
<1>4. at # {} => Ini!Min(at) \in at
  <2>1. at \subseteq Nat
    BY <1>1, <1>3
  <2>2. QED
    BY <2>1, LeastPlace, Zenon
<1>5. PICK p : p = Ini!Place(s, x)
  OBVIOUS
<1>6. CASE at = {}
  <2>1. p = 0 /\ \A i \in 1 .. Len(s) : s[i] # x
    BY <1>1, <1>2, <1>5, <1>6
  <2>2. QED
    BY <1>3, <1>5, <2>1
<1>7. CASE at # {}
  <2>1. p \in at
    BY <1>2, <1>4, <1>5, <1>7
  <2>2. p \in 1 .. Len(s) /\ s[p] = x
    BY <1>1, <2>1
  <2>3. QED
    BY <1>3, <1>5, <2>2
<1>8. QED
  BY <1>6, <1>7

\* What dictionary_get finds: the value in the slot of the key.
LEMMA GetIs ==
    ASSUME NEW d, DictInv(d)
    PROVE  /\ \A i \in Ini!Used(d) : Ini!dictionary_get(d, d.key[i], NULL) = d.val[i]
           /\ \A i \in Ini!Used(d) : Ini!SlotOf(d, d.key[i]) = i
           /\ \A key : key # NULL /\ Ini!SlotOf(d, key) # 0 => Ini!SlotOf(d, key) \in Ini!Used(d) /\ d.key[Ini!SlotOf(d, key)] = key
           /\ Ini!Used(d) \subseteq 1 .. Len(d.key)
<1>1. d.key \in Seq(Slot) /\ DOMAIN d.key = 1 .. Len(d.key)
  BY LenProperties DEF DictInv
<1>2. \A i \in Ini!Used(d) : Ini!SlotOf(d, d.key[i]) = i
  <2>1. TAKE i \in Ini!Used(d)
  <2>2. i \in 1 .. Len(d.key) /\ d.key[i] # NULL
    BY <1>1 DEF Ini!Used
  <2>3. PICK j : j = Ini!Place(d.key, d.key[i])
    OBVIOUS
  <2>4. j \in 1 .. Len(d.key) /\ d.key[j] = d.key[i]
    BY <1>1, <2>2, <2>3, PlaceIs, LenProperties
  <2>5. j \in Ini!Used(d)
    BY <1>1, <2>2, <2>4 DEF Ini!Used
  <2>6. QED
    BY <2>3, <2>4, <2>5 DEF DictInv, Ini!SlotOf
<1>3. \A i \in Ini!Used(d) : i # 0
  BY <1>1 DEF Ini!Used
<1>4. ASSUME NEW key, key # NULL, Ini!SlotOf(d, key) # 0
      PROVE  Ini!SlotOf(d, key) \in Ini!Used(d) /\ d.key[Ini!SlotOf(d, key)] = key
  <2>1. PICK j : j = Ini!SlotOf(d, key)
    OBVIOUS
  <2>2. j \in 1 .. Len(d.key) /\ d.key[j] = key
    BY <1>1, <1>4, <2>1, PlaceIs, LenProperties DEF Ini!SlotOf
  <2>3. QED
    BY <1>1, <1>4, <2>1, <2>2 DEF Ini!Used
<1>5. QED
  BY <1>1, <1>2, <1>3, <1>4 DEF Ini!dictionary_get, Ini!Used

LEMMA UsedIsFinite ==
    ASSUME NEW d, DictInv(d)
    PROVE  /\ IsFiniteSet(Ini!Used(d)) /\ d.n \in 0 .. Len(d.key)
           /\ d.n < Len(d.key) => \E i \in 1 .. Len(d.key) : d.key[i] = NULL
<1>1. Ini!Used(d) \subseteq 1 .. Len(d.key) /\ Len(d.key) \in Nat
  BY GetIs, LenProperties DEF DictInv
<1>2. IsFiniteSet(1 .. Len(d.key)) /\ Cardinality(1 .. Len(d.key)) = Len(d.key)
  BY <1>1, FS_Interval
<1>3. IsFiniteSet(Ini!Used(d)) /\ Cardinality(Ini!Used(d)) \in Nat /\ Cardinality(Ini!Used(d)) <= Len(d.key)
  BY <1>1, <1>2, FS_Subset, FS_CardinalityType
<1>4. ASSUME d.n < Len(d.key) PROVE \E i \in 1 .. Len(d.key) : d.key[i] = NULL
  <2>1. Ini!Used(d) # 1 .. Len(d.key)
    BY <1>2, <1>4, <1>1 DEF DictInv
  <2>2. QED
    BY <1>1, <2>1, LenProperties DEF DictInv, Ini!Used
<1>5. QED
  BY <1>3, <1>4, <1>1 DEF DictInv

LEMMA MapIs ==
    ASSUME NEW d, DictInv(d)
    PROVE  /\ DOMAIN Ini!MapOf(d) = {d.key[i] : i \in Ini!Used(d)}
           /\ \A i \in Ini!Used(d) : Ini!MapOf(d)[d.key[i]] = d.val[i]
<1>1. Ini!Keys(d) = {d.key[i] : i \in Ini!Used(d)}
  BY DEF Ini!Keys, Ini!Used
<1>2. Ini!MapOf(d) = [key \in Ini!Keys(d) |-> Ini!dictionary_get(d, key, NULL)]
  BY DEF Ini!MapOf
<1>3. \A i \in Ini!Used(d) : Ini!dictionary_get(d, d.key[i], NULL) = d.val[i]
  BY GetIs
<1>4. QED
  BY <1>1, <1>2, <1>3

\* e is d with the value in one slot, which may be a new one.
LEMMA MapGrows ==
    ASSUME NEW d, DictInv(d), NEW e, DictInv(e), NEW slot \in Ini!Used(e),
           Ini!Used(e) = Ini!Used(d) \cup {slot},
           \A i \in Ini!Used(d) \ {slot} : e.key[i] = d.key[i] /\ e.val[i] = d.val[i],
           slot \in Ini!Used(d) => d.key[slot] = e.key[slot]
    PROVE  Ini!MapOf(e) = Ini!Put(Ini!MapOf(d), e.key[slot], e.val[slot])
<1>1. PICK m : m = Ini!MapOf(d)
  OBVIOUS
<1>2. PICK r : r = Ini!MapOf(e)
  OBVIOUS
<1>3. /\ DOMAIN m = {d.key[i] : i \in Ini!Used(d)}
      /\ \A i \in Ini!Used(d) : m[d.key[i]] = d.val[i]
  BY <1>1, MapIs
<1>4. /\ DOMAIN r = {e.key[i] : i \in Ini!Used(e)}
      /\ \A i \in Ini!Used(e) : r[e.key[i]] = e.val[i]
      /\ r = [k \in DOMAIN r |-> r[k]]
  BY <1>2, MapIs DEF Ini!MapOf
<1>5. DOMAIN r = DOMAIN m \cup {e.key[slot]}
  BY <1>3, <1>4
<1>6. \A i \in Ini!Used(d) \ {slot} : e.key[i] # e.key[slot]
  BY DEF DictInv
<1>7. \A k \in DOMAIN r : r[k] = IF k = e.key[slot] THEN e.val[slot] ELSE m[k]
  <2>1. TAKE k \in DOMAIN r
  <2>2. PICK i \in Ini!Used(e) : k = e.key[i]
    BY <1>4
  <2>3. r[k] = e.val[i]
    BY <1>4, <2>2
  <2>4. CASE i = slot
    BY <2>2, <2>3, <2>4
  <2>5. CASE i # slot
    <3>1. i \in Ini!Used(d) /\ k = d.key[i] /\ e.val[i] = d.val[i] /\ k # e.key[slot]
      BY <1>6, <2>2, <2>5
    <3>2. QED
      BY <1>3, <2>3, <3>1
  <2>6. QED
    BY <2>4, <2>5
<1>8. r = [k \in DOMAIN m \cup {e.key[slot]} |-> IF k = e.key[slot] THEN e.val[slot] ELSE m[k]]
  BY <1>4, <1>5, <1>7
<1>9. QED
  BY <1>1, <1>2, <1>8 DEF Ini!Put

LEMMA EmptyIs ==
    ASSUME NEW n \in Nat
    PROVE  Ini!Empty(n) \in Seq(Slot) /\ Len(Ini!Empty(n)) = n /\ \A i \in 1 .. n : Ini!Empty(n)[i] = NULL
<1>1. Ini!Empty(n) \in [1 .. n -> Slot]
  BY DEF Ini!Empty, Slot
<1>2. QED
  BY <1>1, FunctionIsSeq DEF Ini!Empty

LEMMA DoubleIs ==
    ASSUME NEW d, DictInv(d)
    PROVE  LET g == Ini!mem_double(d)
           IN  /\ DictInv(g) /\ g.n = d.n /\ d.n < Len(g.key) /\ Ini!Used(g) = Ini!Used(d)
               /\ \A i \in Ini!Used(d) : g.key[i] = d.key[i] /\ g.val[i] = d.val[i]
<1>1. CASE d.n # Len(d.key)
  <2>1. Ini!mem_double(d) = d /\ d.n < Len(d.key)
    BY <1>1, UsedIsFinite DEF Ini!mem_double
  <2>2. QED
    BY <2>1
<1>2. CASE d.n = Len(d.key)
  <2>1. PICK g : g = Ini!mem_double(d)
    OBVIOUS
  <2>2. PICK n, k, v, o : n = d.n /\ k = d.key /\ v = d.val /\ o = Ini!Empty(n)
    OBVIOUS
  <2>3. /\ n \in Nat \ {0} /\ k \in Seq(Slot) /\ v \in Seq(Slot) /\ Len(k) = n /\ Len(v) = n
        /\ d \in [n : Nat, key : Seq(Slot), val : Seq(Slot)]
    BY <1>2, <2>2 DEF DictInv
  <2>4. PICK kk, vv : kk = k \o o /\ vv = v \o o
    OBVIOUS
  <2>5. g = [d EXCEPT !.key = kk, !.val = vv]
    BY <1>2, <2>1, <2>2, <2>4 DEF Ini!mem_double
  <2>6. g.n = n /\ g.key = kk /\ g.val = vv /\ g = [n |-> n, key |-> kk, val |-> vv]
    BY <2>2, <2>3, <2>5
  <2>7. o \in Seq(Slot) /\ Len(o) = n /\ \A i \in 1 .. n : o[i] = NULL
    BY <2>2, <2>3, EmptyIs
  <2>8. /\ kk \in Seq(Slot) /\ Len(kk) = n + n
        /\ \A i \in 1 .. n + n : kk[i] = IF i <= n THEN k[i] ELSE o[i - n]
    <3>1. /\ kk \in Seq(Slot) /\ Len(kk) = Len(k) + Len(o)
          /\ \A i \in 1 .. Len(k) + Len(o) : kk[i] = IF i <= Len(k) THEN k[i] ELSE o[i - Len(k)]
      BY <2>3, <2>4, <2>7, ConcatProperties
    <3>2. QED
      BY <2>3, <2>7, <3>1
  <2>9. /\ vv \in Seq(Slot) /\ Len(vv) = n + n
        /\ \A i \in 1 .. n + n : vv[i] = IF i <= n THEN v[i] ELSE o[i - n]
    <3>1. /\ vv \in Seq(Slot) /\ Len(vv) = Len(v) + Len(o)
          /\ \A i \in 1 .. Len(v) + Len(o) : vv[i] = IF i <= Len(v) THEN v[i] ELSE o[i - Len(v)]
      BY <2>3, <2>4, <2>7, ConcatProperties
    <3>2. QED
      BY <2>3, <2>7, <3>1
  <2>10. \A i \in 1 .. n : kk[i] = k[i] /\ vv[i] = v[i]
    BY <2>3, <2>8, <2>9
  <2>11. \A i \in 1 .. n + n : ~ i \in 1 .. n => kk[i] = NULL
    <3>1. TAKE i \in 1 .. n + n
    <3>2. HAVE ~ i \in 1 .. n
    <3>3. ~ i <= n /\ i - n \in 1 .. n
      BY <2>3, <3>2
    <3>4. QED
      BY <2>7, <2>8, <3>3
  <2>12. DOMAIN kk = 1 .. n + n /\ DOMAIN k = 1 .. n /\ n + n \in Nat /\ n < n + n /\ n + n # 0
    BY <2>3, <2>8, LenProperties
  <2>13. Ini!Used(g) = Ini!Used(d)
    <3>1. Ini!Used(g) = {i \in 1 .. n + n : kk[i] # NULL} /\ Ini!Used(d) = {i \in 1 .. n : k[i] # NULL}
      BY <2>2, <2>6, <2>12 DEF Ini!Used
    <3>2. 1 .. n \subseteq 1 .. n + n
      BY <2>3
    <3>3. \A i \in 1 .. n + n : kk[i] # NULL => i \in 1 .. n /\ k[i] # NULL
      BY <2>10, <2>11
    <3>4. \A i \in 1 .. n : k[i] # NULL => i \in 1 .. n + n /\ kk[i] # NULL
      BY <2>10, <3>2
    <3>5. \A i : i \in Ini!Used(g) <=> i \in Ini!Used(d)
      BY <3>1, <3>3, <3>4, Zenon
    <3>6. QED
      BY <3>5, Zenon
  <2>14. \A i \in Ini!Used(d) : g.key[i] = d.key[i] /\ g.val[i] = d.val[i]
    BY <2>2, <2>6, <2>10, <2>12 DEF Ini!Used
  <2>15. g \in [n : Nat, key : Seq(Slot), val : Seq(Slot)] /\ Len(g.val) = Len(g.key) /\ Len(g.key) # 0
    BY <2>3, <2>6, <2>8, <2>9, <2>12
  <2>16. DictInv(g)
    BY <2>2, <2>6, <2>13, <2>14, <2>15 DEF DictInv
  <2>17. QED
    BY <2>1, <2>2, <2>6, <2>8, <2>12, <2>13, <2>14, <2>16
<1>3. QED
  BY <1>1, <1>2

LEMMA EmptySlotIs ==
    ASSUME NEW d, DictInv(d), d.n < Len(d.key)
    PROVE  Ini!EmptySlot(d) \in 1 .. Len(d.key) /\ d.key[Ini!EmptySlot(d)] = NULL
<1>1. PICK n, k : n = d.n /\ k = d.key
  OBVIOUS
<1>2. k \in Seq(Slot) /\ Len(k) \in Nat /\ n \in Nat /\ n < Len(k)
  BY <1>1, LenProperties DEF DictInv
<1>3. PICK r : r = SubSeq(k, n + 1, Len(k))
  OBVIOUS
<1>4. r \in Seq(Slot) /\ Len(r) = Len(k) - n /\ \A i \in 1 .. Len(k) - n : r[i] = k[n + i]
  <2>1. n + 1 \in 1 .. Len(k) + 1 /\ Len(k) \in n + 1 - 1 .. Len(k) /\ Len(k) - (n + 1) + 1 = Len(k) - n
    BY <1>2
  <2>2. /\ r \in Seq(Slot) /\ Len(r) = Len(k) - (n + 1) + 1
        /\ \A i \in 1 .. Len(k) - (n + 1) + 1 : r[i] = k[n + 1 + i - 1]
    <3>1. \A i \in n + 1 .. Len(k) : k[i] \in Slot
      BY <1>2, ElementOfSeq
    <3>2. n + 1 \in Int /\ Len(k) \in Int /\ n + 1 <= Len(k)
      BY <1>2
    <3>3. QED
      BY <1>3, <3>1, <3>2, SubSeqProperties
  <2>3. QED
    BY <1>2, <2>1, <2>2
<1>5. PICK b : b = Ini!Place(r, NULL)
  OBVIOUS
<1>6. b \in 0 .. Len(k) - n /\ (b # 0 => r[b] = NULL)
  BY <1>4, <1>5, PlaceIs
<1>7. CASE b # 0
  <2>1. Ini!EmptySlot(d) = n + b
    BY <1>1, <1>3, <1>5, <1>7 DEF Ini!EmptySlot
  <2>2. QED
    BY <1>1, <1>2, <1>4, <1>6, <1>7, <2>1
<1>8. CASE b = 0
  <2>1. Ini!EmptySlot(d) = Ini!Place(k, NULL)
    BY <1>1, <1>3, <1>5, <1>8 DEF Ini!EmptySlot, Ini!SlotOf
  <2>2. PICK p : p = Ini!Place(k, NULL)
    OBVIOUS
  <2>3. p \in 0 .. Len(k) /\ (p = 0 => \A i \in 1 .. Len(k) : k[i] # NULL) /\ (p # 0 => k[p] = NULL)
    BY <1>2, <2>2, PlaceIs
  <2>4. p # 0
    BY <1>1, <2>3, UsedIsFinite
  <2>5. QED
    BY <1>1, <1>2, <2>1, <2>2, <2>3, <2>4
<1>9. QED
  BY <1>7, <1>8

\* dictionary_set changes the value of a key or gives a new key a slot that was empty.
LEMMA SetIs ==
    ASSUME NEW d, DictInv(d), NEW key \in Text, NEW val \in Slot
    PROVE  LET e == Ini!dictionary_set(d, key, val)
           IN  DictInv(e) /\ Ini!MapOf(e) = Ini!Put(Ini!MapOf(d), key, val)
<1>1. key # NULL /\ key \in Slot
  BY IniAssumption DEF Text, Slot
<1>2. PICK e : e = Ini!dictionary_set(d, key, val)
  OBVIOUS
<1>3. CASE d.n > 0 /\ Ini!SlotOf(d, key) # 0
  <2>1. PICK s : s = Ini!SlotOf(d, key)
    OBVIOUS
  <2>2. s \in Ini!Used(d) /\ d.key[s] = key /\ Ini!Used(d) \subseteq 1 .. Len(d.key)
    BY <1>1, <1>3, <2>1, GetIs
  <2>3. PICK n, k, v : n = d.n /\ k = d.key /\ v = d.val
    OBVIOUS
  <2>4. n \in Nat /\ k \in Seq(Slot) /\ v \in Seq(Slot) /\ Len(v) = Len(k) /\ s \in 1 .. Len(v)
    BY <2>2, <2>3 DEF DictInv
  <2>5. PICK w : w = [v EXCEPT ![s] = val]
    OBVIOUS
  <2>6. w \in Seq(Slot) /\ Len(w) = Len(v) /\ w[s] = val /\ \A i \in 1 .. Len(v) : i # s => w[i] = v[i]
    BY <2>4, <2>5, ExceptSeq
  <2>7. e = [n |-> n, key |-> k, val |-> w]
    BY <1>2, <1>3, <2>1, <2>3, <2>5 DEF Ini!dictionary_set, DictInv
  <2>8. e.n = n /\ e.key = k /\ e.val = w /\ Ini!Used(e) = Ini!Used(d)
    BY <2>3, <2>7 DEF Ini!Used
  <2>9. DictInv(e)
    BY <2>3, <2>4, <2>6, <2>7, <2>8 DEF DictInv
  <2>10. \A i \in Ini!Used(d) \ {s} : e.key[i] = d.key[i] /\ e.val[i] = d.val[i]
    BY <2>2, <2>3, <2>4, <2>6, <2>8
  <2>11. Ini!MapOf(e) = Ini!Put(Ini!MapOf(d), e.key[s], e.val[s])
    BY <2>2, <2>3, <2>8, <2>9, <2>10, MapGrows
  <2>12. QED
    BY <1>2, <2>2, <2>3, <2>6, <2>8, <2>9, <2>11
<1>4. CASE ~ (d.n > 0 /\ Ini!SlotOf(d, key) # 0)
  <2>1. PICK g : g = Ini!mem_double(d)
    OBVIOUS
  <2>2. /\ DictInv(g) /\ g.n = d.n /\ d.n < Len(g.key) /\ Ini!Used(g) = Ini!Used(d)
        /\ \A i \in Ini!Used(d) : g.key[i] = d.key[i] /\ g.val[i] = d.val[i]
    BY <2>1, DoubleIs
  <2>3. PICK s : s = Ini!EmptySlot(g)
    OBVIOUS
  <2>4. s \in 1 .. Len(g.key) /\ g.key[s] = NULL
    BY <2>2, <2>3, EmptySlotIs
  <2>5. \A i \in Ini!Used(d) : d.key[i] # key
    <3>1. SUFFICES ASSUME NEW i \in Ini!Used(d), d.key[i] = key PROVE FALSE
      OBVIOUS
    <3>2. Ini!SlotOf(d, key) = i /\ i # 0
      BY <3>1, GetIs
    <3>3. d.n # 0 /\ d.n \in Nat
      BY <3>1, UsedIsFinite, FS_EmptySet DEF DictInv
    <3>4. QED
      BY <1>4, <3>2, <3>3
  <2>6. PICK n, k, v : n = g.n /\ k = g.key /\ v = g.val
    OBVIOUS
  <2>7. n \in Nat /\ k \in Seq(Slot) /\ v \in Seq(Slot) /\ Len(v) = Len(k) /\ s \in 1 .. Len(k) /\ Len(k) # 0
    BY <2>2, <2>4, <2>6 DEF DictInv
  <2>8. PICK kk, w : kk = [k EXCEPT ![s] = key] /\ w = [v EXCEPT ![s] = val]
    OBVIOUS
  <2>9. kk \in Seq(Slot) /\ Len(kk) = Len(k) /\ kk[s] = key /\ \A i \in 1 .. Len(k) : i # s => kk[i] = k[i]
    BY <1>1, <2>7, <2>8, ExceptSeq
  <2>10. w \in Seq(Slot) /\ Len(w) = Len(v) /\ w[s] = val /\ \A i \in 1 .. Len(v) : i # s => w[i] = v[i]
    BY <2>7, <2>8, ExceptSeq
  <2>11. e = [n |-> n + 1, key |-> kk, val |-> w]
    BY <1>2, <1>4, <2>1, <2>2, <2>3, <2>6, <2>8 DEF Ini!dictionary_set, DictInv
  <2>12. e.n = n + 1 /\ e.key = kk /\ e.val = w
    BY <2>11
  <2>13. DOMAIN kk = 1 .. Len(k) /\ DOMAIN k = 1 .. Len(k)
    BY <2>7, <2>9, LenProperties
  <2>14. Ini!Used(e) = Ini!Used(g) \cup {s} /\ s \notin Ini!Used(g)
    <3>1. Ini!Used(e) = {i \in 1 .. Len(k) : kk[i] # NULL} /\ Ini!Used(g) = {i \in 1 .. Len(k) : k[i] # NULL}
      BY <2>6, <2>12, <2>13 DEF Ini!Used
    <3>2. QED
      BY <1>1, <2>4, <2>6, <2>7, <2>9, <3>1
  <2>15. Cardinality(Ini!Used(e)) = Cardinality(Ini!Used(g)) + 1
    BY <2>2, <2>14, UsedIsFinite, FS_AddElement
  <2>16. \A i \in Ini!Used(g) : i \in 1 .. Len(k) /\ i # s
    BY <2>6, <2>13, <2>14 DEF Ini!Used
  <2>17. \A i \in Ini!Used(g) : e.key[i] = d.key[i] /\ e.val[i] = d.val[i]
    BY <2>2, <2>6, <2>7, <2>9, <2>10, <2>12, <2>16
  <2>18. DictInv(e)
    <3>1. \A i, j \in Ini!Used(e) : e.key[i] = e.key[j] => i = j
      <4>1. \A i, j \in Ini!Used(d) : d.key[i] = d.key[j] => i = j
        BY DEF DictInv
      <4>2. QED
        BY <2>2, <2>5, <2>9, <2>12, <2>14, <2>17, <4>1
    <3>2. e.n = Cardinality(Ini!Used(e))
      BY <2>2, <2>6, <2>12, <2>15 DEF DictInv
    <3>3. QED
      BY <2>7, <2>9, <2>10, <2>11, <2>12, <3>1, <3>2 DEF DictInv
  <2>19. Ini!MapOf(e) = Ini!Put(Ini!MapOf(d), e.key[s], e.val[s])
    BY <2>2, <2>14, <2>17, <2>18, MapGrows
  <2>20. QED
    BY <1>2, <2>9, <2>10, <2>12, <2>18, <2>19
<1>5. QED
  BY <1>3, <1>4

\* dictionary_unset frees the slot of a key.
LEMMA UnsetIs ==
    ASSUME NEW d, DictInv(d), NEW key \in Text
    PROVE  LET e == Ini!dictionary_unset(d, key)
           IN  DictInv(e) /\ Ini!MapOf(e) = Ini!Restrict(Ini!MapOf(d), DOMAIN Ini!MapOf(d) \ {key})
<1>1. key # NULL /\ NULL \in Slot
  BY IniAssumption DEF Text, Slot
<1>2. PICK e, m, r : e = Ini!dictionary_unset(d, key) /\ m = Ini!MapOf(d) /\ r = Ini!MapOf(e)
  OBVIOUS
<1>3. /\ DOMAIN m = {d.key[i] : i \in Ini!Used(d)}
      /\ \A i \in Ini!Used(d) : m[d.key[i]] = d.val[i]
      /\ m = [k \in DOMAIN m |-> m[k]]
  BY <1>2, MapIs DEF Ini!MapOf
<1>4. CASE Ini!SlotOf(d, key) = 0
  <2>1. e = d
    BY <1>2, <1>4 DEF Ini!dictionary_unset
  <2>2. \A i \in Ini!Used(d) : d.key[i] # key
    BY <1>4, GetIs
  <2>3. key \notin DOMAIN m
    BY <1>3, <2>2
  <2>4. m = [k \in DOMAIN m \ {key} |-> m[k]]
    BY <1>3, <2>3
  <2>5. QED
    BY <1>2, <2>1, <2>4 DEF Ini!Restrict
<1>5. CASE Ini!SlotOf(d, key) # 0
  <2>1. PICK s : s = Ini!SlotOf(d, key)
    OBVIOUS
  <2>2. s \in Ini!Used(d) /\ d.key[s] = key /\ Ini!Used(d) \subseteq 1 .. Len(d.key)
    BY <1>1, <1>5, <2>1, GetIs
  <2>3. PICK n, k, v : n = d.n /\ k = d.key /\ v = d.val
    OBVIOUS
  <2>4. /\ n \in Nat /\ k \in Seq(Slot) /\ v \in Seq(Slot) /\ Len(v) = Len(k) /\ s \in 1 .. Len(k)
        /\ Len(k) # 0
    BY <2>2, <2>3 DEF DictInv
  <2>5. PICK kk, w : kk = [k EXCEPT ![s] = NULL] /\ w = [v EXCEPT ![s] = NULL]
    OBVIOUS
  <2>6. kk \in Seq(Slot) /\ Len(kk) = Len(k) /\ kk[s] = NULL /\ \A i \in 1 .. Len(k) : i # s => kk[i] = k[i]
    BY <1>1, <2>4, <2>5, ExceptSeq
  <2>7. w \in Seq(Slot) /\ Len(w) = Len(v) /\ \A i \in 1 .. Len(v) : i # s => w[i] = v[i]
    BY <1>1, <2>4, <2>5, ExceptSeq
  <2>8. n = Cardinality(Ini!Used(d)) /\ IsFiniteSet(Ini!Used(d))
    BY <2>3, UsedIsFinite DEF DictInv
  <2>9. Cardinality(Ini!Used(d) \ {s}) = n - 1
    BY <2>2, <2>8, FS_RemoveElement
  <2>10. n - 1 \in Nat
    BY <2>8, <2>9, FS_CardinalityType, FS_Subset
  <2>11. e = [n |-> n - 1, key |-> kk, val |-> w]
    BY <1>2, <1>5, <2>1, <2>3, <2>5 DEF Ini!dictionary_unset, DictInv
  <2>12. e.n = n - 1 /\ e.key = kk /\ e.val = w
    BY <2>11
  <2>13. DOMAIN kk = 1 .. Len(k) /\ DOMAIN k = 1 .. Len(k)
    BY <2>4, <2>6, LenProperties
  <2>14. Ini!Used(e) = Ini!Used(d) \ {s}
    <3>1. Ini!Used(e) = {i \in 1 .. Len(k) : kk[i] # NULL} /\ Ini!Used(d) = {i \in 1 .. Len(k) : k[i] # NULL}
      BY <2>3, <2>12, <2>13 DEF Ini!Used
    <3>2. QED
      BY <2>4, <2>6, <3>1
  <2>15. \A i \in Ini!Used(e) : e.key[i] = d.key[i] /\ e.val[i] = d.val[i]
    BY <2>2, <2>3, <2>4, <2>6, <2>7, <2>12, <2>14
  <2>16. DictInv(e)
    <3>1. \A i, j \in Ini!Used(e) : e.key[i] = e.key[j] => i = j
      <4>1. \A i, j \in Ini!Used(d) : d.key[i] = d.key[j] => i = j
        BY DEF DictInv
      <4>2. QED
        BY <2>14, <2>15, <4>1
    <3>2. QED
      BY <2>4, <2>6, <2>7, <2>9, <2>10, <2>11, <2>12, <2>14, <3>1 DEF DictInv
  <2>17. /\ DOMAIN r = {e.key[i] : i \in Ini!Used(e)}
         /\ \A i \in Ini!Used(e) : r[e.key[i]] = e.val[i]
         /\ r = [q \in DOMAIN r |-> r[q]]
    BY <1>2, <2>16, MapIs DEF Ini!MapOf
  <2>18. \A i \in Ini!Used(d) : i # s => d.key[i] # key
    BY <2>2 DEF DictInv
  <2>19. DOMAIN r = DOMAIN m \ {key}
    BY <1>3, <2>2, <2>14, <2>15, <2>17, <2>18
  <2>20. \A q \in DOMAIN r : r[q] = m[q]
    BY <1>3, <2>14, <2>15, <2>17
  <2>21. r = [q \in DOMAIN m \ {key} |-> m[q]]
    BY <2>17, <2>19, <2>20
  <2>22. QED
    BY <1>2, <2>16, <2>21 DEF Ini!Restrict
<1>6. QED
  BY <1>4, <1>5

(***************************************************************************)
(* What the lines of a file mean, and what one line more changes of it.    *)
(***************************************************************************)
\* The greatest of some numbers, which is what the reading of a file asks for.
LastOf(T) == CHOOSE i \in T : \A j \in T : j <= i

LEMMA LastIs ==
    ASSUME NEW n \in Nat, NEW T, T \subseteq 1 .. n, T # {}
    PROVE  LastOf(T) \in T /\ \A j \in T : j <= LastOf(T)
<1> DEFINE far == {n - j : j \in T}
<1>1. far \in SUBSET Nat /\ far # {}
  <2>1. \A j \in T : n - j \in Nat
    OBVIOUS
  <2>2. QED
    BY <2>1
<1>2. PICK m \in far : \A k \in far : ~ (k < m)
  BY <1>1, LeastOf, Zenon
<1>3. PICK i \in T : m = n - i
  BY <1>2
<1>4. \A j \in T : j <= i
  <2>1. TAKE j \in T
  <2>2. ~ (n - j < n - i) /\ i \in 1 .. n /\ j \in 1 .. n
    BY <1>2, <1>3
  <2>3. QED
    BY <2>2
<1>5. QED
  BY <1>4 DEF LastOf

LEMMA LastAdded ==
    ASSUME NEW n \in Nat, NEW T, T \subseteq 1 .. n
    PROVE  LastOf(T \cup {n + 1}) = n + 1
<1>1. PICK U : U = T \cup {n + 1}
  OBVIOUS
<1>2. n + 1 \in Nat /\ U \subseteq 1 .. n + 1 /\ U # {} /\ n + 1 \in U
  BY <1>1
<1>3. LastOf(U) \in U /\ \A j \in U : j <= LastOf(U)
  BY <1>2, LastIs
<1>4. PICK l : l = LastOf(U)
  OBVIOUS
<1>5. l \in T \/ l = n + 1
  BY <1>1, <1>3, <1>4
<1>6. n + 1 <= l
  BY <1>2, <1>3, <1>4
<1>7. l = n + 1
  <2>1. CASE l \in T
    <3>1. l \in 1 .. n
      BY <2>1
    <3>2. QED
      BY <1>6, <3>1
  <2>2. QED
    BY <1>5, <2>1
<1>8. QED
  BY <1>1, <1>4, <1>7

\* Lines that are numbered at most n, and one more.
Numbered(lines, n) == lines = [i \in DOMAIN lines |-> lines[i]] /\ DOMAIN lines \subseteq 1 .. n
More(lines, n, x) == [i \in DOMAIN lines \cup {n + 1} |-> IF i = n + 1 THEN x ELSE lines[i]]

Named(lines, n) ==
    {j \in DOMAIN lines : j <= n /\ Ini!Status(lines[j]) = "LINE_SECTION" /\ Ini!SectionOf(lines[j]) # << >>}
Sets(lines) == {i \in DOMAIN lines : Ini!Status(lines[i]) \in {"LINE_SECTION", "LINE_VALUE"}}
SetsEntry(lines, e) == {i \in Sets(lines) : Ini!EntryAt(lines, i) = e}
Told(lines) == {i \in DOMAIN lines : Ini!Status(lines[i]) \notin {"LINE_EMPTY", "LINE_COMMENT"}}
SetTo(x) == IF Ini!Status(x) = "LINE_SECTION" THEN NULL ELSE Ini!ValueOf(x)

LEMMA ReadingIs ==
    ASSUME NEW lines
    PROVE  /\ \A n : Ini!SectionAt(lines, n) = IF Named(lines, n) = {} THEN << >>
                                               ELSE Ini!SectionOf(lines[LastOf(Named(lines, n))])
           /\ Ini!Meaning(lines) = [e \in {Ini!EntryAt(lines, i) : i \in Sets(lines)} |->
                                        SetTo(lines[LastOf(SetsEntry(lines, e))])]
           /\ Ini!EndsInError(lines) = (Told(lines) # {} /\ Ini!Status(lines[LastOf(Told(lines))]) = "LINE_ERROR")
<1>1. \A n : Ini!SectionAt(lines, n) = IF Named(lines, n) = {} THEN << >>
                                       ELSE Ini!SectionOf(lines[LastOf(Named(lines, n))])
  BY DEF Ini!SectionAt, Named, LastOf
<1>2. Ini!Meaning(lines) = [e \in {Ini!EntryAt(lines, i) : i \in Sets(lines)} |->
                                SetTo(lines[LastOf(SetsEntry(lines, e))])]
  BY DEF Ini!Meaning, Sets, SetsEntry, SetTo, LastOf
<1>3. Ini!EndsInError(lines) = (Told(lines) # {} /\ Ini!Status(lines[LastOf(Told(lines))]) = "LINE_ERROR")
  BY DEF Ini!EndsInError, Told, LastOf
<1>4. QED
  BY <1>1, <1>2, <1>3

LEMMA MoreIs ==
    ASSUME NEW n \in Nat, NEW lines, Numbered(lines, n), NEW x
    PROVE  /\ Numbered(More(lines, n, x), n + 1) /\ Numbered(lines, n + 1)
           /\ \A i \in 1 .. n : /\ i \in DOMAIN lines <=> i \in DOMAIN More(lines, n, x)
                               /\ i \in DOMAIN lines => More(lines, n, x)[i] = lines[i]
           /\ n + 1 \in DOMAIN More(lines, n, x) /\ n + 1 \notin DOMAIN lines
           /\ More(lines, n, x)[n + 1] = x /\ DOMAIN lines \subseteq DOMAIN More(lines, n, x)
           /\ \A i \in DOMAIN More(lines, n, x) : (i \in 1 .. n /\ i \in DOMAIN lines) \/ i = n + 1
<1>1. PICK m : m = More(lines, n, x)
  OBVIOUS
<1>2. m = [i \in DOMAIN lines \cup {n + 1} |-> IF i = n + 1 THEN x ELSE lines[i]]
  BY <1>1 DEF More
<1>3. DOMAIN lines \subseteq 1 .. n /\ 1 .. n \subseteq 1 .. n + 1 /\ n + 1 \in 1 .. n + 1 /\ n + 1 \notin 1 .. n
  BY DEF Numbered
<1>4. DOMAIN m = DOMAIN lines \cup {n + 1} /\ \A i \in DOMAIN m : m[i] = IF i = n + 1 THEN x ELSE lines[i]
  BY <1>2
<1>5. m = [i \in DOMAIN m |-> m[i]]
  BY <1>2, <1>4
<1>6. QED
  BY <1>1, <1>3, <1>4, <1>5 DEF Numbered

\* The section at a line is told by the lines up to it.
LEMMA SectionAtMore ==
    ASSUME NEW n \in Nat, NEW lines, Numbered(lines, n), NEW x
    PROVE  /\ \A i \in 1 .. n : Ini!SectionAt(More(lines, n, x), i) = Ini!SectionAt(lines, i)
           /\ Ini!SectionAt(lines, n + 1) = Ini!SectionAt(lines, n)
           /\ Ini!SectionAt(More(lines, n, x), n + 1) =
                  IF Ini!Status(x) = "LINE_SECTION" /\ Ini!SectionOf(x) # << >> THEN Ini!SectionOf(x)
                  ELSE Ini!SectionAt(lines, n)
<1>1. PICK m : m = More(lines, n, x)
  OBVIOUS
<1>2. /\ \A i \in 1 .. n : (i \in DOMAIN lines <=> i \in DOMAIN m) /\ (i \in DOMAIN lines => m[i] = lines[i])
      /\ n + 1 \in DOMAIN m /\ n + 1 \notin DOMAIN lines /\ m[n + 1] = x /\ DOMAIN lines \subseteq DOMAIN m
      /\ \A i \in DOMAIN m : (i \in 1 .. n /\ i \in DOMAIN lines) \/ i = n + 1
      /\ DOMAIN lines \subseteq 1 .. n
  BY <1>1, MoreIs DEF Numbered
<1>3. \A k : Named(lines, k) \subseteq 1 .. n /\ Named(lines, k) \subseteq DOMAIN lines
  BY <1>2 DEF Named
<1>4. \A k : Named(lines, k) # {} => LastOf(Named(lines, k)) \in Named(lines, k)
  BY <1>3, LastIs
<1>12. \A k : Ini!SectionAt(lines, k) = IF Named(lines, k) = {} THEN << >>
                                       ELSE Ini!SectionOf(lines[LastOf(Named(lines, k))])
  BY ReadingIs
<1>13. \A k : Ini!SectionAt(m, k) = IF Named(m, k) = {} THEN << >> ELSE Ini!SectionOf(m[LastOf(Named(m, k))])
  BY ReadingIs
<1>5. \A i \in 1 .. n : Named(m, i) = Named(lines, i)
  BY <1>2 DEF Named
<1>6. Named(lines, n + 1) = Named(lines, n)
  BY <1>2 DEF Named
<1>7. \A i \in 1 .. n : Ini!SectionAt(m, i) = Ini!SectionAt(lines, i)
  <2>1. TAKE i \in 1 .. n
  <2>2. CASE Named(lines, i) = {}
    BY <1>5, <1>12, <1>13, <2>2
  <2>3. CASE Named(lines, i) # {}
    <3>1. PICK l : l = LastOf(Named(lines, i))
      OBVIOUS
    <3>2. m[l] = lines[l]
      BY <1>2, <1>3, <1>4, <2>3, <3>1
    <3>3. QED
      BY <1>5, <1>12, <1>13, <2>3, <3>1, <3>2
  <2>4. QED
    BY <2>2, <2>3
<1>8. Ini!SectionAt(lines, n + 1) = Ini!SectionAt(lines, n)
  BY <1>6, <1>12
<1>9. CASE Ini!Status(x) = "LINE_SECTION" /\ Ini!SectionOf(x) # << >>
  <2>1. Named(m, n + 1) = Named(lines, n) \cup {n + 1}
    BY <1>2, <1>9 DEF Named
  <2>2. LastOf(Named(m, n + 1)) = n + 1 /\ Named(m, n + 1) # {}
    BY <1>3, <2>1, LastAdded
  <2>3. Ini!SectionAt(m, n + 1) = Ini!SectionOf(m[n + 1])
    BY <1>13, <2>2
  <2>4. QED
    BY <1>1, <1>2, <1>7, <1>8, <1>9, <2>3
<1>10. CASE ~ (Ini!Status(x) = "LINE_SECTION" /\ Ini!SectionOf(x) # << >>)
  <2>1. Named(m, n + 1) = Named(lines, n)
    BY <1>2, <1>10 DEF Named
  <2>2. Ini!SectionAt(m, n + 1) = Ini!SectionAt(lines, n)
    <3>1. CASE Named(lines, n) = {}
      BY <1>12, <1>13, <2>1, <3>1
    <3>2. CASE Named(lines, n) # {}
      <4>1. PICK l : l = LastOf(Named(lines, n))
        OBVIOUS
      <4>2. m[l] = lines[l]
        BY <1>2, <1>3, <1>4, <3>2, <4>1
      <4>3. QED
        BY <1>12, <1>13, <2>1, <3>2, <4>1, <4>2
    <3>3. QED
      BY <3>1, <3>2
  <2>3. QED
    BY <1>1, <1>7, <1>8, <1>10, <2>2
<1>11. QED
  BY <1>9, <1>10

EntryOf(section, x) ==
    IF Ini!Status(x) = "LINE_SECTION" THEN section ELSE section \o <<":">> \o Ini!KeyOf(x)

LEMMA EntryAtIs == \A lines, i : Ini!EntryAt(lines, i) = EntryOf(Ini!SectionAt(lines, i), lines[i])
BY DEF Ini!EntryAt, EntryOf

\* The meaning of lines and one more: its entry is set, if it sets one.
LEMMA MeaningMore ==
    ASSUME NEW n \in Nat, NEW lines, Numbered(lines, n), NEW x
    PROVE  Ini!Meaning(More(lines, n, x)) =
             IF Ini!Status(x) \in {"LINE_SECTION", "LINE_VALUE"}
             THEN Ini!Put(Ini!Meaning(lines), Ini!EntryAt(More(lines, n, x), n + 1), SetTo(x))
             ELSE Ini!Meaning(lines)
<1>1. PICK m : m = More(lines, n, x)
  OBVIOUS
<1>2. /\ \A i \in 1 .. n : (i \in DOMAIN lines <=> i \in DOMAIN m) /\ (i \in DOMAIN lines => m[i] = lines[i])
      /\ n + 1 \in DOMAIN m /\ n + 1 \notin DOMAIN lines /\ m[n + 1] = x /\ DOMAIN lines \subseteq DOMAIN m
      /\ \A i \in DOMAIN m : (i \in 1 .. n /\ i \in DOMAIN lines) \/ i = n + 1
      /\ DOMAIN lines \subseteq 1 .. n
  BY <1>1, MoreIs DEF Numbered
<1>3. \A i \in DOMAIN lines : Ini!EntryAt(m, i) = Ini!EntryAt(lines, i)
  <2>1. \A i \in 1 .. n : Ini!SectionAt(m, i) = Ini!SectionAt(lines, i)
    BY <1>1, SectionAtMore
  <2>2. QED
    BY <1>2, <2>1, EntryAtIs
<1>4. PICK f, g : f = Ini!Meaning(lines) /\ g = Ini!Meaning(m)
  OBVIOUS
<1>5. f = [e \in {Ini!EntryAt(lines, i) : i \in Sets(lines)} |-> SetTo(lines[LastOf(SetsEntry(lines, e))])]
  BY <1>4, ReadingIs
<1>6. g = [e \in {Ini!EntryAt(m, i) : i \in Sets(m)} |-> SetTo(m[LastOf(SetsEntry(m, e))])]
  BY <1>4, ReadingIs
<1>7. Sets(lines) \subseteq DOMAIN lines /\ \A e : SetsEntry(lines, e) \subseteq 1 .. n /\ SetsEntry(lines, e) \subseteq DOMAIN lines
  BY <1>2 DEF Sets, SetsEntry
<1>8. \A e \in DOMAIN f : LastOf(SetsEntry(lines, e)) \in SetsEntry(lines, e)
  <2>1. TAKE e \in DOMAIN f
  <2>2. SetsEntry(lines, e) # {}
    BY <1>5 DEF SetsEntry
  <2>3. QED
    BY <1>7, <2>2, LastIs
<1>9. CASE ~ Ini!Status(x) \in {"LINE_SECTION", "LINE_VALUE"}
  <2>1. Sets(m) = Sets(lines)
    BY <1>2, <1>9 DEF Sets
  <2>2. \A e : SetsEntry(m, e) = SetsEntry(lines, e)
    BY <1>3, <1>7, <2>1 DEF SetsEntry
  <2>3. DOMAIN f = DOMAIN g
    BY <1>3, <1>5, <1>6, <1>7, <2>1
  <2>4. \A e \in DOMAIN f : g[e] = f[e]
    <3>1. TAKE e \in DOMAIN f
    <3>2. PICK l : l = LastOf(SetsEntry(lines, e))
      OBVIOUS
    <3>3. m[l] = lines[l]
      BY <1>2, <1>7, <1>8, <3>2
    <3>4. f[e] = SetTo(lines[l]) /\ g[e] = SetTo(m[l])
      BY <1>5, <1>6, <2>2, <2>3, <3>2
    <3>5. QED
      BY <3>3, <3>4
  <2>5. f = [e \in DOMAIN f |-> f[e]] /\ g = [e \in DOMAIN g |-> g[e]]
    BY <1>5, <1>6
  <2>6. f = g
    BY <2>3, <2>4, <2>5
  <2>7. QED
    BY <1>1, <1>4, <1>9, <2>6
<1>10. CASE Ini!Status(x) \in {"LINE_SECTION", "LINE_VALUE"}
  <2>1. Sets(m) = Sets(lines) \cup {n + 1}
    BY <1>2, <1>10 DEF Sets
  <2>2. PICK new : new = Ini!EntryAt(m, n + 1)
    OBVIOUS
  <2>3. \A e : e # new => SetsEntry(m, e) = SetsEntry(lines, e)
    BY <1>3, <1>7, <2>1, <2>2 DEF SetsEntry
  <2>4. SetsEntry(m, new) = SetsEntry(lines, new) \cup {n + 1}
    BY <1>3, <1>7, <2>1, <2>2 DEF SetsEntry
  <2>5. LastOf(SetsEntry(m, new)) = n + 1
    BY <1>7, <2>4, LastAdded
  <2>6. DOMAIN g = DOMAIN f \cup {new}
    <3>1. \A e : e \in DOMAIN g <=> \E i \in Sets(m) : e = Ini!EntryAt(m, i)
      BY <1>6
    <3>2. \A e : e \in DOMAIN f <=> \E i \in Sets(lines) : e = Ini!EntryAt(lines, i)
      BY <1>5
    <3>3. \A i \in Sets(lines) : Ini!EntryAt(m, i) = Ini!EntryAt(lines, i)
      BY <1>3, <1>7
    <3>4. \A e : e \in DOMAIN g <=> e \in DOMAIN f \/ e = new
      BY <2>1, <2>2, <3>1, <3>2, <3>3
    <3>5. QED
      BY <3>4
  <2>7. \A e \in DOMAIN f : e # new => g[e] = f[e]
    <3>1. TAKE e \in DOMAIN f
    <3>2. HAVE e # new
    <3>3. PICK l : l = LastOf(SetsEntry(lines, e))
      OBVIOUS
    <3>4. m[l] = lines[l]
      BY <1>2, <1>7, <1>8, <3>3
    <3>5. f[e] = SetTo(lines[l])
      BY <1>5, <3>3
    <3>6. e \in DOMAIN g /\ SetsEntry(m, e) = SetsEntry(lines, e)
      BY <2>3, <2>6, <3>2
    <3>7. g[e] = SetTo(m[l])
      BY <1>6, <3>3, <3>6
    <3>8. QED
      BY <3>4, <3>5, <3>7
  <2>8. g[new] = SetTo(x)
    <3>1. new \in DOMAIN g
      BY <2>6
    <3>2. g[new] = SetTo(m[LastOf(SetsEntry(m, new))])
      BY <1>6, <3>1
    <3>3. QED
      BY <1>2, <2>5, <3>2
  <2>9. g = [e \in DOMAIN g |-> g[e]]
    BY <1>6
  <2>10. g = [e \in DOMAIN f \cup {new} |-> IF e = new THEN SetTo(x) ELSE f[e]]
    BY <2>6, <2>7, <2>8, <2>9
  <2>11. g = Ini!Put(f, new, SetTo(x))
    BY <2>10 DEF Ini!Put
  <2>12. QED
    BY <1>1, <1>4, <1>10, <2>2, <2>11
<1>11. QED
  BY <1>9, <1>10

LEMMA ErrorMore ==
    ASSUME NEW n \in Nat, NEW lines, Numbered(lines, n), NEW x
    PROVE  Ini!EndsInError(More(lines, n, x)) =
             IF Ini!Status(x) \in {"LINE_EMPTY", "LINE_COMMENT"} THEN Ini!EndsInError(lines)
             ELSE Ini!Status(x) = "LINE_ERROR"
<1>1. PICK m : m = More(lines, n, x)
  OBVIOUS
<1>2. /\ \A i \in 1 .. n : (i \in DOMAIN lines <=> i \in DOMAIN m) /\ (i \in DOMAIN lines => m[i] = lines[i])
      /\ n + 1 \in DOMAIN m /\ n + 1 \notin DOMAIN lines /\ m[n + 1] = x /\ DOMAIN lines \subseteq DOMAIN m
      /\ \A i \in DOMAIN m : (i \in 1 .. n /\ i \in DOMAIN lines) \/ i = n + 1
      /\ DOMAIN lines \subseteq 1 .. n
  BY <1>1, MoreIs DEF Numbered
<1>3. Ini!EndsInError(lines) = (Told(lines) # {} /\ Ini!Status(lines[LastOf(Told(lines))]) = "LINE_ERROR")
  BY ReadingIs
<1>4. Ini!EndsInError(m) = (Told(m) # {} /\ Ini!Status(m[LastOf(Told(m))]) = "LINE_ERROR")
  BY ReadingIs
<1>5. Told(lines) \subseteq DOMAIN lines /\ Told(lines) \subseteq 1 .. n
  BY <1>2 DEF Told
<1>6. CASE Ini!Status(x) \in {"LINE_EMPTY", "LINE_COMMENT"}
  <2>1. Told(m) = Told(lines)
    BY <1>2, <1>6 DEF Told
  <2>2. ASSUME Told(lines) # {} PROVE m[LastOf(Told(lines))] = lines[LastOf(Told(lines))]
    <3>1. LastOf(Told(lines)) \in Told(lines)
      BY <1>5, <2>2, LastIs
    <3>2. QED
      BY <1>2, <1>5, <3>1
  <2>3. Ini!EndsInError(m) = Ini!EndsInError(lines)
    BY <1>3, <1>4, <2>1, <2>2
  <2>4. QED
    BY <1>1, <1>6, <2>3
<1>7. CASE ~ Ini!Status(x) \in {"LINE_EMPTY", "LINE_COMMENT"}
  <2>1. Told(m) = Told(lines) \cup {n + 1}
    BY <1>2, <1>7 DEF Told
  <2>2. LastOf(Told(m)) = n + 1 /\ Told(m) # {}
    BY <1>5, <2>1, LastAdded
  <2>3. Ini!EndsInError(m) = (Ini!Status(x) = "LINE_ERROR")
    BY <1>2, <1>4, <2>2
  <2>4. QED
    BY <1>1, <1>7, <2>3
<1>8. QED
  BY <1>6, <1>7

\* What tolower, a cut and a join make of texts are texts.
LEMMA TextsIs ==
    ASSUME NEW text \in Text
    PROVE  /\ Ini!strlwc(text) \in Text
           /\ \A sign : Ini!Until(text, sign) \in Text
           /\ text # << >> => Ini!Front(text) \in Text /\ Tail(text) \in Text
           /\ \A i \in 1 .. Len(text) + 1 : SubSeq(text, i, Len(text)) \in Text
<1> DEFINE W == DOMAIN Lower
<1>1. text \in Seq(W) /\ Len(text) \in Nat /\ text \in [1 .. Len(text) -> W] /\ DOMAIN text = 1 .. Len(text)
  BY LenProperties DEF Text
<1>2. \A i \in 1 .. Len(text) : text[i] \in W
  BY <1>1
<1>3. Ini!strlwc(text) \in [1 .. Len(text) -> W]
  BY <1>1, <1>2, IniAssumption DEF Ini!strlwc
<1>4. Ini!strlwc(text) \in Text
  BY <1>1, <1>3, FunctionIsSeq DEF Text
<1>5. ASSUME NEW a \in Nat, NEW b \in Int, 1 <= a, b <= Len(text)
      PROVE  SubSeq(text, a, b) \in Seq(W)
  <2>1. \A i \in a .. b : text[i] \in W
    BY <1>1, <1>2, <1>5
  <2>2. a \in Int
    OBVIOUS
  <2>3. QED
    BY <2>1, <2>2, SubSeqProperties
<1>6. ASSUME NEW sign PROVE Ini!Until(text, sign) \in Text
  <2>1. PICK p : p = Ini!Place(text, sign)
    OBVIOUS
  <2>2. p \in 0 .. Len(text)
    BY <1>1, <2>1, PlaceIs
  <2>3. CASE p = 0
    BY <2>1, <2>3 DEF Ini!Until
  <2>4. CASE p # 0
    <3>1. 1 \in Nat /\ p - 1 \in Int /\ p - 1 <= Len(text)
      BY <1>1, <2>2
    <3>2. SubSeq(text, 1, p - 1) \in Seq(W)
      BY <1>5, <3>1
    <3>3. QED
      BY <2>1, <2>4, <3>2 DEF Ini!Until, Text
  <2>5. QED
    BY <2>3, <2>4
<1>7. ASSUME text # << >> PROVE Ini!Front(text) \in Text /\ Tail(text) \in Text
  <2>1. 1 \in Nat /\ Len(text) - 1 \in Int /\ Len(text) - 1 <= Len(text)
    BY <1>1
  <2>2. SubSeq(text, 1, Len(text) - 1) \in Seq(W)
    BY <1>5, <2>1
  <2>3. Tail(text) \in Seq(W)
    BY <1>1, <1>7
  <2>4. QED
    BY <2>2, <2>3 DEF Ini!Front, Text
<1>8. \A i \in 1 .. Len(text) + 1 : SubSeq(text, i, Len(text)) \in Text
  <2>1. TAKE i \in 1 .. Len(text) + 1
  <2>2. i \in Nat /\ 1 <= i /\ Len(text) \in Int /\ Len(text) <= Len(text)
    BY <1>1
  <2>3. QED
    BY <1>5, <2>2 DEF Text
<1>9. QED
  BY <1>4, <1>6, <1>7, <1>8

\* One line more, and what it is joined to.
Pending(f) ==
    IF f # << >> /\ Ini!Continued(Ini!JoinedSoFar(f)[Len(f)]) THEN Ini!Front(Ini!JoinedSoFar(f)[Len(f)]) ELSE << >>
JoinTo(a, text) == a \o text
JoinNext(a, text) == IF Ini!Continued(a) THEN JoinTo(Ini!Front(a), text) ELSE text
IsJoin(f, n, h) ==
    /\ h = [i \in 1 .. n |-> h[i]]
    /\ \A i \in 1 .. n : h[i] = IF i > 1 THEN JoinNext(h[i - 1], f[i]) ELSE f[i]

LEMMA JoinIs ==
    ASSUME NEW f \in Seq(Text)
    PROVE  Ini!JoinedSoFar(f) = CHOOSE h : IsJoin(f, Len(f), h)
<1>1. DOMAIN f = 1 .. Len(f)
  BY LenProperties
<1>2. ASSUME NEW h
      PROVE  IsJoin(f, Len(f), h) <=>
             h = [i \in DOMAIN f |-> IF i > 1 /\ Ini!Continued(h[i - 1]) THEN Ini!Front(h[i - 1]) \o f[i] ELSE f[i]]
  BY <1>1 DEF IsJoin, JoinNext, JoinTo
<1>3. QED
  BY <1>2, Zenon DEF Ini!JoinedSoFar

(***************************************************************************)
(* Lines that go on in the next: there is one way to join them, and what the *)
(* line that was read last does to the joined lines.                       *)
(***************************************************************************)
LEMMA JoinNextIsText ==
    ASSUME NEW a \in Text, NEW text \in Text
    PROVE  JoinNext(a, text) \in Text
<1>1. CASE Ini!Continued(a)
  <2>1. a # << >>
    BY <1>1 DEF Ini!Continued
  <2>2. PICK b : b = Ini!Front(a)
    OBVIOUS
  <2>3. b \in Text
    BY <2>1, <2>2, TextsIs
  <2>4. b \o text \in Seq(DOMAIN Lower)
    BY <2>3, ConcatProperties DEF Text
  <2>5. QED
    BY <1>1, <2>2, <2>4 DEF JoinNext, JoinTo, Text
<1>2. QED
  BY <1>1 DEF JoinNext

JoinsTo(f, n) == \E h : IsJoin(f, n, h) /\ \A i \in 1 .. n : h[i] \in Text

LEMMA JoinGoesOn ==
    ASSUME NEW f \in Seq(Text), NEW n \in Nat, n < Len(f), JoinsTo(f, n)
    PROVE  JoinsTo(f, n + 1)
<1>1. PICK h : IsJoin(f, n, h) /\ \A i \in 1 .. n : h[i] \in Text
  BY DEF JoinsTo
<1>2. PICK x : x = IF n + 1 > 1 THEN JoinNext(h[n], f[n + 1]) ELSE f[n + 1]
  OBVIOUS
<1>3. PICK g : g = [i \in 1 .. n + 1 |-> IF i = n + 1 THEN x ELSE h[i]]
  OBVIOUS
<1>4. f[n + 1] \in Text
  BY LenProperties, ElementOfSeq
<1>5. x \in Text
  BY <1>1, <1>2, <1>4, JoinNextIsText
<1>6. g[n + 1] = x /\ \A i \in 1 .. n : g[i] = h[i]
  BY <1>3
<1>7. \A i \in 1 .. n + 1 : g[i] \in Text
  BY <1>1, <1>5, <1>6
<1>8. \A i \in 1 .. n + 1 : g[i] = IF i > 1 THEN JoinNext(g[i - 1], f[i]) ELSE f[i]
  <2>1. TAKE i \in 1 .. n + 1
  <2>2. CASE i = n + 1
    <3>1. i > 1 => g[i - 1] = h[n]
      BY <1>6, <2>2
    <3>2. QED
      BY <1>2, <1>6, <2>2, <3>1
  <2>3. CASE i # n + 1
    <3>1. i \in 1 .. n /\ (i > 1 => i - 1 \in 1 .. n)
      BY <2>3
    <3>2. g[i] = h[i] /\ (i > 1 => g[i - 1] = h[i - 1])
      BY <1>6, <3>1
    <3>3. h[i] = IF i > 1 THEN JoinNext(h[i - 1], f[i]) ELSE f[i]
      BY <1>1, <3>1 DEF IsJoin
    <3>4. QED
      BY <3>2, <3>3
  <2>4. QED
    BY <2>2, <2>3
<1>9. g = [i \in 1 .. n + 1 |-> g[i]]
  BY <1>3
<1>10. QED
  BY <1>7, <1>8, <1>9 DEF JoinsTo, IsJoin

LEMMA JoinExists ==
    ASSUME NEW f \in Seq(Text)
    PROVE  JoinsTo(f, Len(f))
<1>1. Len(f) \in Nat
  BY LenProperties
<1>2. PICK bad : bad = {n \in 0 .. Len(f) : ~ JoinsTo(f, n)}
  OBVIOUS
<1>3. JoinsTo(f, 0)
  <2>1. PICK h : h = [i \in 1 .. 0 |-> i]
    OBVIOUS
  <2>2. IsJoin(f, 0, h)
    BY <2>1 DEF IsJoin
  <2>3. QED
    BY <2>2 DEF JoinsTo
<1>4. bad = {}
  <2>1. SUFFICES ASSUME bad # {} PROVE FALSE
    OBVIOUS
  <2>2. bad \in SUBSET Nat
    BY <1>1, <1>2
  <2>3. PICK n \in bad : \A m \in bad : ~ (m < n)
    BY <2>1, <2>2, LeastOf, Zenon
  <2>4. n # 0 /\ n \in 0 .. Len(f)
    BY <1>2, <1>3, <2>3
  <2>5. n - 1 \in Nat /\ n - 1 < Len(f) /\ n - 1 \in 0 .. Len(f) /\ n - 1 < n
    BY <1>1, <2>4
  <2>6. JoinsTo(f, n - 1)
    BY <1>2, <2>3, <2>5
  <2>7. JoinsTo(f, n - 1 + 1)
    BY <2>5, <2>6, JoinGoesOn
  <2>8. n - 1 + 1 = n
    BY <2>4
  <2>9. JoinsTo(f, n)
    BY <2>7, <2>8
  <2>10. QED
    BY <1>2, <2>3, <2>9
<1>5. QED
  BY <1>1, <1>2, <1>4

LEMMA JoinIsUnique ==
    ASSUME NEW f, NEW n \in Nat, NEW h, NEW g, IsJoin(f, n, h), IsJoin(f, n, g)
    PROVE  h = g
<1>1. PICK bad : bad = {i \in 1 .. n : h[i] # g[i]}
  OBVIOUS
<1>2. bad = {}
  <2>1. SUFFICES ASSUME bad # {} PROVE FALSE
    OBVIOUS
  <2>2. bad \in SUBSET Nat
    BY <1>1
  <2>3. PICK i \in bad : \A j \in bad : ~ (j < i)
    BY <2>1, <2>2, LeastOf, Zenon
  <2>4. i \in 1 .. n /\ h[i] # g[i]
    BY <1>1, <2>3
  <2>5. i > 1 => h[i - 1] = g[i - 1]
    <3>1. HAVE i > 1
    <3>2. i - 1 \in 1 .. n /\ i - 1 < i
      BY <2>4, <3>1
    <3>3. QED
      BY <1>1, <2>3, <3>2
  <2>6. h[i] = (IF i > 1 THEN JoinNext(h[i - 1], f[i]) ELSE f[i]) /\ g[i] = (IF i > 1 THEN JoinNext(g[i - 1], f[i]) ELSE f[i])
    BY <2>4 DEF IsJoin
  <2>7. QED
    BY <2>4, <2>5, <2>6
<1>3. \A i \in 1 .. n : h[i] = g[i]
  BY <1>1, <1>2
<1>4. QED
  BY <1>3 DEF IsJoin

LEMMA JoinedIs ==
    ASSUME NEW f \in Seq(Text)
    PROVE  /\ IsJoin(f, Len(f), Ini!JoinedSoFar(f))
           /\ \A i \in 1 .. Len(f) : Ini!JoinedSoFar(f)[i] \in Text
<1>1. PICK h : IsJoin(f, Len(f), h) /\ \A i \in 1 .. Len(f) : h[i] \in Text
  BY JoinExists DEF JoinsTo
<1>2. IsJoin(f, Len(f), Ini!JoinedSoFar(f))
  BY <1>1, JoinIs, Zenon
<1>3. h = Ini!JoinedSoFar(f)
  BY <1>1, <1>2, LenProperties, JoinIsUnique
<1>4. QED
  BY <1>1, <1>3

\* What one line more does to the joined lines.
LEMMA JoinedMore ==
    ASSUME NEW f \in Seq(Text), NEW text \in Text
    PROVE  LET n == Len(f)
               line == JoinTo(Pending(f), text)
           IN  /\ Append(f, text) \in Seq(Text) /\ Len(Append(f, text)) = n + 1 /\ n \in Nat
               /\ Pending(f) \in Text /\ line \in Text
               /\ Numbered(Ini!Joined(f), n)
               /\ Ini!Joined(Append(f, text)) = IF Ini!Continued(line) THEN Ini!Joined(f) ELSE More(Ini!Joined(f), n, line)
               /\ Pending(Append(f, text)) = IF Ini!Continued(line) THEN Ini!Front(line) ELSE << >>
<1>1. PICK n, g, h, k : n = Len(f) /\ g = Append(f, text) /\ h = Ini!JoinedSoFar(f) /\ k = Ini!JoinedSoFar(g)
  OBVIOUS
<1>2. PICK line : line = JoinTo(Pending(f), text)
  OBVIOUS
<1>3. n \in Nat /\ g \in Seq(Text) /\ Len(g) = n + 1 /\ \A i \in 1 .. n + 1 : g[i] = IF i = n + 1 THEN text ELSE f[i]
  BY <1>1, LenProperties, AppendProperties
<1>4. IsJoin(f, n, h) /\ \A i \in 1 .. n : h[i] \in Text
  BY <1>1, JoinedIs
<1>5. IsJoin(g, n + 1, k) /\ \A i \in 1 .. n + 1 : k[i] \in Text
  BY <1>1, <1>3, JoinedIs
<1>6. \A i \in 1 .. n : k[i] = h[i]
  <2>1. PICK r : r = [i \in 1 .. n |-> k[i]]
    OBVIOUS
  <2>2. IsJoin(f, n, r)
    <3>1. ASSUME NEW i \in 1 .. n PROVE r[i] = IF i > 1 THEN JoinNext(r[i - 1], f[i]) ELSE f[i]
      <4>1. i \in 1 .. n + 1 /\ g[i] = f[i] /\ (i > 1 => i - 1 \in 1 .. n)
        BY <1>3
      <4>2. k[i] = IF i > 1 THEN JoinNext(k[i - 1], g[i]) ELSE g[i]
        BY <1>5, <4>1 DEF IsJoin
      <4>3. r[i] = k[i] /\ (i > 1 => r[i - 1] = k[i - 1])
        BY <2>1, <4>1
      <4>4. QED
        BY <4>1, <4>2, <4>3
    <3>2. r = [i \in 1 .. n |-> r[i]]
      BY <2>1
    <3>3. QED
      BY <3>1, <3>2 DEF IsJoin
  <2>3. r = h
    BY <1>3, <1>4, <2>2, JoinIsUnique
  <2>4. QED
    BY <2>1, <2>3
<1>7. k[n + 1] = line /\ Pending(f) \in Text
  <2>1. k[n + 1] = IF n + 1 > 1 THEN JoinNext(k[n], text) ELSE text
    <3>1. PICK m : m = n + 1
      OBVIOUS
    <3>2. m \in 1 .. n + 1 /\ m - 1 = n /\ g[m] = text
      BY <1>3, <3>1
    <3>3. k[m] = IF m > 1 THEN JoinNext(k[m - 1], g[m]) ELSE g[m]
      BY <1>5, <3>2 DEF IsJoin
    <3>4. k[m] = IF m > 1 THEN JoinNext(k[n], text) ELSE text
      BY <3>2, <3>3
    <3>5. QED
      BY <3>1, <3>4
  <2>2. f # << >> <=> n # 0
    BY <1>1, EmptySeq, LenProperties
  <2>3. JoinTo(<< >>, text) = text /\ << >> \in Text
    BY ConcatEmptySeq DEF JoinTo, Text
  <2>4. CASE n = 0
    <3>1. Pending(f) = << >> /\ ~ n + 1 > 1
      BY <2>2, <2>4 DEF Pending
    <3>2. QED
      BY <1>2, <2>1, <2>3, <3>1
  <2>5. CASE n # 0
    <3>1. n + 1 > 1 /\ k[n] = h[n] /\ h[n] \in Text
      BY <1>3, <1>4, <1>6, <2>5
    <3>2. CASE Ini!Continued(h[n])
      <4>1. Pending(f) = Ini!Front(h[n])
        BY <1>1, <2>2, <2>5, <3>2 DEF Pending
      <4>2. Ini!Front(h[n]) \in Text
        BY <3>1, <3>2, TextsIs DEF Ini!Continued
      <4>3. QED
        BY <1>2, <2>1, <3>1, <3>2, <4>1, <4>2 DEF JoinNext
    <3>3. CASE ~ Ini!Continued(h[n])
      <4>1. Pending(f) = << >>
        BY <1>1, <3>3 DEF Pending
      <4>2. QED
        BY <1>2, <2>1, <2>3, <3>1, <3>3, <4>1 DEF JoinNext
    <3>4. QED
      BY <3>2, <3>3
  <2>6. QED
    BY <2>4, <2>5
<1>8. line \in Text
  BY <1>3, <1>5, <1>7
<1>9. DOMAIN f = 1 .. n /\ DOMAIN g = 1 .. n + 1
  BY <1>1, <1>3, LenProperties
<1>10. PICK a, b : a = Ini!Joined(f) /\ b = Ini!Joined(g)
  OBVIOUS
<1>11. /\ a = [i \in {j \in 1 .. n : ~ Ini!Continued(h[j])} |-> h[i]]
       /\ b = [i \in {j \in 1 .. n + 1 : ~ Ini!Continued(k[j])} |-> k[i]]
  BY <1>1, <1>9, <1>10 DEF Ini!Joined
<1>12. Numbered(a, n)
  BY <1>11 DEF Numbered
<1>13. b = IF Ini!Continued(line) THEN a ELSE More(a, n, line)
  <2>1. DOMAIN a = {j \in 1 .. n : ~ Ini!Continued(h[j])} /\ \A i \in DOMAIN a : a[i] = h[i]
    BY <1>11
  <2>2. DOMAIN b = {j \in 1 .. n + 1 : ~ Ini!Continued(k[j])} /\ \A i \in DOMAIN b : b[i] = k[i]
    BY <1>11
  <2>3. CASE Ini!Continued(line)
    <3>1. \A j : j \in DOMAIN a <=> j \in DOMAIN b
      BY <1>3, <1>6, <1>7, <2>1, <2>2, <2>3
    <3>2. DOMAIN a = DOMAIN b
      BY <3>1
    <3>3. \A i \in DOMAIN a : a[i] = b[i]
      BY <1>6, <2>1, <2>2, <3>2
    <3>4. a = [i \in DOMAIN a |-> a[i]] /\ b = [i \in DOMAIN b |-> b[i]]
      BY <1>11
    <3>5. a = b
      BY <3>2, <3>3, <3>4
    <3>6. QED
      BY <2>3, <3>5
  <2>4. CASE ~ Ini!Continued(line)
    <3>1. \A j : j \in DOMAIN b <=> j \in DOMAIN a \/ j = n + 1
      BY <1>3, <1>6, <1>7, <2>1, <2>2, <2>4
    <3>2. DOMAIN b = DOMAIN a \cup {n + 1}
      BY <3>1
    <3>3. \A i \in DOMAIN b : b[i] = IF i = n + 1 THEN line ELSE a[i]
      BY <1>3, <1>6, <1>7, <2>1, <2>2, <3>1
    <3>4. b = [i \in DOMAIN b |-> b[i]]
      BY <1>11
    <3>5. b = More(a, n, line)
      BY <3>2, <3>3, <3>4 DEF More
    <3>6. QED
      BY <2>4, <3>5
  <2>5. QED
    BY <2>3, <2>4
<1>14. Pending(g) = IF Ini!Continued(line) THEN Ini!Front(line) ELSE << >>
  <2>1. g # << >>
    BY <1>3, EmptySeq
  <2>2. QED
    BY <1>1, <1>3, <1>7, <2>1 DEF Pending
<1>15. QED
  BY <1>1, <1>2, <1>3, <1>7, <1>8, <1>10, <1>12, <1>13, <1>14

\* What iniparser_load has when it read the lines f: a dictionary, and in it the meaning of
\* the joined lines, in the section and after the errors that they tell.
ReadsWell(l, f) ==
    /\ f \in Seq(Text)
    /\ l = [dict |-> l.dict, line |-> Pending(f), section |-> Ini!SectionAt(Ini!Joined(f), Len(f)), errs |-> l.errs]
    /\ l.section \in Text /\ l.errs \in Nat /\ DictInv(l.dict)
    /\ Ini!MapOf(l.dict) = Ini!Meaning(Ini!Joined(f))
    /\ (l.errs > 0) = Ini!EndsInError(Ini!Joined(f))

LEMMA StatusIs ==
    ASSUME NEW x
    PROVE  /\ x = << >> => Ini!Status(x) = "LINE_EMPTY"
           /\ Ini!Status(x) \in {"LINE_EMPTY", "LINE_COMMENT", "LINE_SECTION", "LINE_VALUE", "LINE_ERROR"}
<1> DEFINE comment == x # << >> /\ x[1] \in Ini!Comments
           section == x # << >> /\ x[1] = "[" /\ Ini!Last(x) = "]"
           value == Ini!Place(x, "=") > 1 /\ x[1] \notin Ini!Comments /\ ~ (x[1] = "[" /\ Ini!Last(x) = "]")
<1>1. Ini!Status(x) = CASE x = << >> -> "LINE_EMPTY"
                        [] comment -> "LINE_COMMENT"
                        [] section -> "LINE_SECTION"
                        [] value -> "LINE_VALUE"
                        [] OTHER -> "LINE_ERROR"
  BY DEF Ini!Status
<1>2. x = << >> => ~ value
  <2>1. << >> \in Seq({}) /\ Len(<< >>) = 0
    BY EmptySeq
  <2>2. Ini!Place(<< >>, "=") \in 0 .. 0
    BY <2>1, PlaceIs
  <2>3. QED
    BY <2>2
<1>3. x = << >> => ~ comment /\ ~ section
  OBVIOUS
<1> HIDE DEF comment, section, value
<1>4. QED
  BY <1>1, <1>2, <1>3

LEMMA ValuesAreTexts ==
    ASSUME NEW x \in Text
    PROVE  Ini!KeyOf(x) \in Text /\ SetTo(x) \in Slot /\ (x # << >> => Ini!SectionOf(x) \in Text)
<1>1. Ini!KeyOf(x) \in Text
  <2>1. Ini!Until(x, "=") \in Text
    BY TextsIs
  <2>2. QED
    BY <2>1, TextsIs DEF Ini!KeyOf
<1>2. Ini!ValueOf(x) \in Text
  <2>1. PICK p : p = Ini!Place(x, "=")
    OBVIOUS
  <2>2. p \in 0 .. Len(x) /\ Len(x) \in Nat
    BY <2>1, PlaceIs, LenProperties DEF Text
  <2>3. p + 1 \in 1 .. Len(x) + 1
    BY <2>2
  <2>4. PICK rest : rest = SubSeq(x, p + 1, Len(x))
    OBVIOUS
  <2>5. rest \in Text
    BY <2>3, <2>4, TextsIs
  <2>6. Ini!Until(Ini!Until(rest, "#"), ";") \in Text
    BY <2>5, TextsIs
  <2>7. Len(rest) > 1 => Ini!Until(Tail(rest), rest[1]) \in Text
    <3>1. HAVE Len(rest) > 1
    <3>2. rest # << >>
      BY <3>1
    <3>3. Tail(rest) \in Text
      BY <2>5, <3>2, TextsIs
    <3>4. QED
      BY <3>3, TextsIs
  <2>8. << >> \in Text
    BY DEF Text
  <2>9. QED
    BY <2>1, <2>4, <2>6, <2>7, <2>8 DEF Ini!ValueOf
<1>3. x # << >> => Ini!SectionOf(x) \in Text
  <2>1. HAVE x # << >>
  <2>2. Tail(x) \in Text
    BY <2>1, TextsIs
  <2>3. Ini!Until(Tail(x), "]") \in Text
    BY <2>2, TextsIs
  <2>4. QED
    BY <2>3, TextsIs DEF Ini!SectionOf
<1>4. QED
  BY <1>1, <1>2, <1>3 DEF SetTo, Slot

LEMMA EntryIsText ==
    ASSUME NEW section \in Text, NEW x \in Text
    PROVE  EntryOf(section, x) \in Text
<1>1. CASE Ini!Status(x) = "LINE_SECTION"
  BY <1>1 DEF EntryOf
<1>2. CASE Ini!Status(x) # "LINE_SECTION"
  <2>1. PICK key, colon : key = Ini!KeyOf(x) /\ colon = <<":">>
    OBVIOUS
  <2>2. key \in Seq(DOMAIN Lower) /\ colon \in Seq(DOMAIN Lower) /\ section \in Seq(DOMAIN Lower)
    BY <2>1, ValuesAreTexts, IniAssumption DEF Text
  <2>3. PICK a : a = section \o colon
    OBVIOUS
  <2>4. a \in Seq(DOMAIN Lower)
    BY <2>2, <2>3, ConcatProperties
  <2>5. a \o key \in Seq(DOMAIN Lower)
    BY <2>2, <2>4, ConcatProperties
  <2>6. EntryOf(section, x) = a \o key
    BY <1>2, <2>1, <2>3 DEF EntryOf
  <2>7. QED
    BY <2>5, <2>6 DEF Text
<1>3. QED
  BY <1>1, <1>2

(***************************************************************************)
(* What the reading of a line makes of the dictionary.                     *)
(***************************************************************************)
Loading(d, p, s, e) == [dict |-> d, line |-> p, section |-> s, errs |-> e]
SectionAfter(s, x) == IF Ini!Status(x) = "LINE_SECTION" /\ Ini!SectionOf(x) # << >> THEN Ini!SectionOf(x) ELSE s
DictAfter(d, s, x) ==
    IF Ini!Status(x) \in {"LINE_SECTION", "LINE_VALUE"}
    THEN Ini!dictionary_set(d, EntryOf(SectionAfter(s, x), x), SetTo(x)) ELSE d
ErrorsAfter(e, x) ==
    IF Ini!Status(x) \in {"LINE_SECTION", "LINE_VALUE"} THEN 0
    ELSE IF Ini!Status(x) = "LINE_ERROR" THEN e + 1 ELSE e

LEMMA TakeIs ==
    ASSUME NEW d, NEW p, NEW s, NEW e, NEW x
    PROVE  Ini!Take(Loading(d, p, s, e), x) = Loading(DictAfter(d, s, x), << >>, SectionAfter(s, x), ErrorsAfter(e, x))
<1>1. PICK l, t : l = Loading(d, p, s, e) /\ t = Ini!Status(x)
  OBVIOUS
<1>2. l.dict = d /\ l.section = s /\ l.errs = e
  BY <1>1 DEF Loading
<1>3. PICK sec : sec = IF Ini!SectionOf(x) = << >> THEN s ELSE Ini!SectionOf(x)
  OBVIOUS
<1>4. PICK key : key = s \o <<":">> \o Ini!KeyOf(x)
  OBVIOUS
<1>5. PICK done : done = Loading(d, << >>, s, e)
  OBVIOUS
<1>6. done = [l EXCEPT !.line = << >>]
  BY <1>1, <1>5 DEF Loading
<1>7. t \in {"LINE_EMPTY", "LINE_COMMENT", "LINE_SECTION", "LINE_VALUE", "LINE_ERROR"}
  BY <1>1, StatusIs
<1>8. CASE t = "LINE_SECTION"
  <2>1. Ini!Take(l, x) = [done EXCEPT !.section = sec, !.errs = 0, !.dict = Ini!dictionary_set(done.dict, sec, NULL)]
    BY <1>1, <1>2, <1>3, <1>6, <1>8 DEF Ini!Take
  <2>2. Ini!Take(l, x) = Loading(Ini!dictionary_set(d, sec, NULL), << >>, sec, 0)
    BY <1>5, <2>1 DEF Loading
  <2>3. SectionAfter(s, x) = sec /\ EntryOf(sec, x) = sec /\ SetTo(x) = NULL
    BY <1>1, <1>3, <1>8 DEF SectionAfter, EntryOf, SetTo
  <2>4. QED
    BY <1>1, <1>8, <2>2, <2>3 DEF DictAfter, ErrorsAfter
<1>9. CASE t = "LINE_VALUE"
  <2>1. Ini!Take(l, x) = [done EXCEPT !.errs = 0, !.dict = Ini!dictionary_set(done.dict, key, Ini!ValueOf(x))]
    BY <1>1, <1>2, <1>4, <1>6, <1>9 DEF Ini!Take
  <2>2. Ini!Take(l, x) = Loading(Ini!dictionary_set(d, key, Ini!ValueOf(x)), << >>, s, 0)
    BY <1>5, <2>1 DEF Loading
  <2>3. SectionAfter(s, x) = s /\ EntryOf(s, x) = key /\ SetTo(x) = Ini!ValueOf(x)
    BY <1>1, <1>4, <1>9 DEF SectionAfter, EntryOf, SetTo
  <2>4. QED
    BY <1>1, <1>9, <2>2, <2>3 DEF DictAfter, ErrorsAfter
<1>10. CASE t = "LINE_ERROR"
  <2>1. Ini!Take(l, x) = [done EXCEPT !.errs = done.errs + 1]
    BY <1>1, <1>6, <1>10 DEF Ini!Take
  <2>2. Ini!Take(l, x) = Loading(d, << >>, s, e + 1)
    BY <1>5, <2>1 DEF Loading
  <2>3. QED
    BY <1>1, <1>10, <2>2 DEF SectionAfter, DictAfter, ErrorsAfter
<1>11. CASE t \in {"LINE_EMPTY", "LINE_COMMENT"}
  <2>1. Ini!Take(l, x) = done
    BY <1>1, <1>6, <1>11 DEF Ini!Take
  <2>2. QED
    BY <1>1, <1>5, <1>11, <2>1 DEF SectionAfter, DictAfter, ErrorsAfter
<1>12. QED
  BY <1>7, <1>8, <1>9, <1>10, <1>11

\* A complete line makes of the dictionary what it makes of the meaning.
LEMMA TakeReads ==
    ASSUME NEW d, DictInv(d), NEW s \in Text, NEW e \in Nat, NEW x \in Text,
           NEW n \in Nat, NEW lines, Numbered(lines, n), s = Ini!SectionAt(lines, n),
           Ini!MapOf(d) = Ini!Meaning(lines), (e > 0) = Ini!EndsInError(lines)
    PROVE  /\ DictInv(DictAfter(d, s, x)) /\ SectionAfter(s, x) \in Text /\ ErrorsAfter(e, x) \in Nat
           /\ SectionAfter(s, x) = Ini!SectionAt(More(lines, n, x), n + 1)
           /\ Ini!MapOf(DictAfter(d, s, x)) = Ini!Meaning(More(lines, n, x))
           /\ (ErrorsAfter(e, x) > 0) = Ini!EndsInError(More(lines, n, x))
<1>1. PICK m, sec, t : m = More(lines, n, x) /\ sec = SectionAfter(s, x) /\ t = Ini!Status(x)
  OBVIOUS
<1>2. t \in {"LINE_EMPTY", "LINE_COMMENT", "LINE_SECTION", "LINE_VALUE", "LINE_ERROR"} /\ (x = << >> => t = "LINE_EMPTY")
  BY <1>1, StatusIs
<1>3. sec \in Text
  BY <1>1, <1>2, ValuesAreTexts DEF SectionAfter
<1>4. sec = Ini!SectionAt(m, n + 1)
  BY <1>1, SectionAtMore DEF SectionAfter
<1>5. m[n + 1] = x
  BY <1>1, MoreIs
<1>6. Ini!EntryAt(m, n + 1) = EntryOf(sec, x)
  BY <1>4, <1>5, EntryAtIs
<1>7. DictInv(DictAfter(d, s, x)) /\ Ini!MapOf(DictAfter(d, s, x)) = Ini!Meaning(m)
  <2>1. CASE t \in {"LINE_SECTION", "LINE_VALUE"}
    <3>1. PICK key, val : key = EntryOf(sec, x) /\ val = SetTo(x)
      OBVIOUS
    <3>2. key \in Text /\ val \in Slot
      BY <1>3, <3>1, EntryIsText, ValuesAreTexts
    <3>3. DictAfter(d, s, x) = Ini!dictionary_set(d, key, val)
      BY <1>1, <2>1, <3>1 DEF DictAfter
    <3>4. Ini!Meaning(m) = Ini!Put(Ini!Meaning(lines), key, val)
      BY <1>1, <1>6, <2>1, <3>1, MeaningMore
    <3>5. QED
      BY <3>2, <3>3, <3>4, SetIs
  <2>2. CASE t \notin {"LINE_SECTION", "LINE_VALUE"}
    <3>1. DictAfter(d, s, x) = d
      BY <1>1, <2>2 DEF DictAfter
    <3>2. Ini!Meaning(m) = Ini!Meaning(lines)
      BY <1>1, <2>2, MeaningMore
    <3>3. QED
      BY <3>1, <3>2
  <2>3. QED
    BY <2>1, <2>2
<1>8. ErrorsAfter(e, x) \in Nat /\ (ErrorsAfter(e, x) > 0) = Ini!EndsInError(m)
  <2>1. Ini!EndsInError(m) = IF t \in {"LINE_EMPTY", "LINE_COMMENT"} THEN Ini!EndsInError(lines) ELSE t = "LINE_ERROR"
    BY <1>1, ErrorMore
  <2>2. ErrorsAfter(e, x) = IF t \in {"LINE_SECTION", "LINE_VALUE"} THEN 0 ELSE IF t = "LINE_ERROR" THEN e + 1 ELSE e
    BY <1>1 DEF ErrorsAfter
  <2>3. QED
    BY <1>2, <2>1, <2>2
<1>9. QED
  BY <1>1, <1>3, <1>4, <1>7, <1>8

LEMMA ReadIntoReads ==
    ASSUME NEW l, NEW f, ReadsWell(l, f), NEW text \in Text
    PROVE  ReadsWell(Ini!ReadInto(l, text), Append(f, text))
<1>1. PICK d, p, s, e, n : d = l.dict /\ p = Pending(f) /\ s = l.section /\ e = l.errs /\ n = Len(f)
  OBVIOUS
<1>2. PICK lines, g, line : lines = Ini!Joined(f) /\ g = Append(f, text) /\ line = JoinTo(p, text)
  OBVIOUS
<1>3. /\ l = Loading(d, p, s, e) /\ f \in Seq(Text) /\ s = Ini!SectionAt(lines, n)
      /\ s \in Text /\ e \in Nat /\ DictInv(d)
      /\ Ini!MapOf(d) = Ini!Meaning(lines) /\ (e > 0) = Ini!EndsInError(lines)
  BY <1>1, <1>2 DEF ReadsWell, Loading
<1>4. /\ g \in Seq(Text) /\ Len(g) = n + 1 /\ n \in Nat /\ p \in Text /\ line \in Text /\ Numbered(lines, n)
      /\ Ini!Joined(g) = IF Ini!Continued(line) THEN lines ELSE More(lines, n, line)
      /\ Pending(g) = IF Ini!Continued(line) THEN Ini!Front(line) ELSE << >>
  BY <1>1, <1>2, <1>3, JoinedMore
<1>5. PICK r : r = Ini!ReadInto(l, text)
  OBVIOUS
<1>6. r = IF line = << >> THEN l
          ELSE IF Ini!Last(line) = "\\" THEN [l EXCEPT !.line = Ini!Front(line)]
          ELSE Ini!Take(l, line)
  <2>1. l.line = p
    BY <1>3 DEF Loading
  <2>2. QED
    BY <1>2, <1>5, <2>1 DEF Ini!ReadInto, JoinTo
<1>7. CASE Ini!Continued(line)
  <2>1. r = [l EXCEPT !.line = Ini!Front(line)]
    BY <1>6, <1>7 DEF Ini!Continued
  <2>2. r = Loading(d, Ini!Front(line), s, e)
    BY <1>3, <2>1 DEF Loading
  <2>3. Ini!SectionAt(lines, n + 1) = Ini!SectionAt(lines, n)
    BY <1>4, SectionAtMore
  <2>4. r = [dict |-> d, line |-> Ini!Front(line), section |-> s, errs |-> e]
    BY <2>2 DEF Loading
  <2>5. r.dict = d /\ r.section = s /\ r.errs = e
    BY <2>4
  <2>6. ReadsWell(r, g)
    BY <1>3, <1>4, <1>7, <2>3, <2>4, <2>5 DEF ReadsWell
  <2>7. QED
    BY <1>2, <1>5, <2>6
<1>8. CASE ~ Ini!Continued(line)
  <2>1. r = Loading(DictAfter(d, s, line), << >>, SectionAfter(s, line), ErrorsAfter(e, line))
    <3>1. CASE line = << >>
      <4>1. p = << >>
        <5>1. Len(line) = Len(p) + Len(text) /\ Len(p) \in Nat /\ Len(text) \in Nat
          BY <1>2, <1>4, ConcatProperties, LenProperties DEF JoinTo, Text
        <5>2. Len(line) = 0
          BY <3>1, EmptySeq
        <5>3. Len(p) = 0
          BY <5>1, <5>2
        <5>4. QED
          BY <1>4, <5>3, EmptySeq DEF Text
      <4>2. Ini!Status(line) = "LINE_EMPTY"
        BY <3>1, StatusIs
      <4>3. SectionAfter(s, line) = s /\ DictAfter(d, s, line) = d /\ ErrorsAfter(e, line) = e
        BY <4>2 DEF SectionAfter, DictAfter, ErrorsAfter
      <4>4. QED
        BY <1>3, <1>6, <3>1, <4>1, <4>3
    <3>2. CASE line # << >>
      <4>1. r = Ini!Take(l, line)
        BY <1>6, <1>8, <3>2 DEF Ini!Continued
      <4>2. QED
        BY <1>3, <4>1, TakeIs
    <3>3. QED
      BY <3>1, <3>2
  <2>2. PICK dd, ss, ee : dd = DictAfter(d, s, line) /\ ss = SectionAfter(s, line) /\ ee = ErrorsAfter(e, line)
    OBVIOUS
  <2>3. r = [dict |-> dd, line |-> << >>, section |-> ss, errs |-> ee]
    BY <2>1, <2>2 DEF Loading
  <2>4. r.dict = dd /\ r.section = ss /\ r.errs = ee
    BY <2>3
  <2>5. PICK m : m = More(lines, n, line)
    OBVIOUS
  <2>6. /\ DictInv(dd) /\ ss \in Text /\ ee \in Nat /\ ss = Ini!SectionAt(m, n + 1)
        /\ Ini!MapOf(dd) = Ini!Meaning(m) /\ (ee > 0) = Ini!EndsInError(m)
    BY <1>3, <1>4, <2>2, <2>5, TakeReads
  <2>7. Ini!Joined(g) = m /\ Pending(g) = << >>
    BY <1>4, <1>8, <2>5
  <2>8. ReadsWell(r, g)
    BY <1>4, <2>3, <2>4, <2>6, <2>7 DEF ReadsWell
  <2>9. QED
    BY <1>2, <1>5, <2>8
<1>9. QED
  BY <1>7, <1>8

(***************************************************************************)
(* The file is read line by line, and the dictionary then set and unset.   *)
(***************************************************************************)
\* The inductive invariant: up to the end of the file what the lines mean, joined, is in the
\* dictionary, and from then on what was set and unset.
IniInv ==
    /\ load = Loading(load.dict, load.line, load.section, load.errs) /\ DictInv(load.dict)
    /\ reading \in {"loading", "last"} => ReadsWell(load, file)
    /\ reading = "loaded" => Ini!MapOf(load.dict) = means

LEMMA NewIsEmpty ==
    /\ DictInv(Ini!dictionary_new) /\ Ini!Used(Ini!dictionary_new) = {}
    /\ Ini!MapOf(Ini!dictionary_new) = [e \in {} |-> NULL]
<1>1. PICK d : d = Ini!dictionary_new
  OBVIOUS
<1>2. PICK k : k = Ini!Empty(MinSize)
  OBVIOUS
<1>3. d = [n |-> 0, key |-> k, val |-> k]
  BY <1>1, <1>2 DEF Ini!dictionary_new
<1>4. MinSize \in Nat /\ MinSize # 0
  BY IniAssumption
<1>5. k \in Seq(Slot) /\ Len(k) = MinSize /\ \A i \in 1 .. MinSize : k[i] = NULL
  BY <1>2, <1>4, EmptyIs
<1>6. DOMAIN k = 1 .. MinSize
  BY <1>5, LenProperties
<1>7. Ini!Used(d) = {}
  BY <1>3, <1>5, <1>6 DEF Ini!Used
<1>8. Cardinality({}) = 0
  BY FS_EmptySet
<1>9. DictInv(d)
  BY <1>3, <1>4, <1>5, <1>7, <1>8 DEF DictInv
<1>10. Ini!Keys(d) = {}
  BY <1>3, <1>5, <1>6 DEF Ini!Keys
<1>11. Ini!MapOf(d) = [e \in {} |-> Ini!dictionary_get(d, e, NULL)]
  BY <1>10 DEF Ini!MapOf
<1>12. Ini!MapOf(d) = [e \in {} |-> NULL]
  BY <1>11
<1>13. QED
  BY <1>1, <1>7, <1>9, <1>12

LEMMA NothingRead == ReadsWell(Ini!Start, << >>)
<1>1. PICK f, d, l : f = << >> /\ d = Ini!dictionary_new /\ l = Ini!Start
  OBVIOUS
<1>2. f \in Seq(Text) /\ Len(f) = 0 /\ << >> \in Text /\ DOMAIN f = {}
  BY <1>1, EmptySeq DEF Text
<1>3. PICK lines : lines = Ini!Joined(f)
  OBVIOUS
<1>4. DOMAIN lines = {}
  BY <1>2, <1>3 DEF Ini!Joined
<1>5. Pending(f) = << >>
  BY <1>1 DEF Pending
<1>6. Ini!SectionAt(lines, 0) = << >>
  <2>1. Named(lines, 0) = {}
    BY <1>4 DEF Named
  <2>2. QED
    BY <2>1, ReadingIs
<1>7. Ini!Meaning(lines) = [e \in {} |-> NULL]
  <2>1. Sets(lines) = {}
    BY <1>4 DEF Sets
  <2>2. PICK m : m = Ini!Meaning(lines)
    OBVIOUS
  <2>3. m = [e \in {Ini!EntryAt(lines, i) : i \in Sets(lines)} |-> SetTo(lines[LastOf(SetsEntry(lines, e))])]
    BY <2>2, ReadingIs
  <2>4. DOMAIN m = {}
    BY <2>1, <2>3
  <2>5. m = [e \in DOMAIN m |-> m[e]]
    BY <2>3
  <2>6. QED
    BY <2>2, <2>4, <2>5
<1>8. ~ Ini!EndsInError(lines)
  <2>1. Told(lines) = {}
    BY <1>4 DEF Told
  <2>2. QED
    BY <2>1, ReadingIs
<1>9. Ini!EndsInError(lines) \in BOOLEAN
  BY ReadingIs
<1>10. DictInv(d) /\ Ini!MapOf(d) = [e \in {} |-> NULL]
  BY <1>1, NewIsEmpty
<1>11. l = [dict |-> d, line |-> << >>, section |-> << >>, errs |-> 0]
  BY <1>1 DEF Ini!Start
<1>12. l.dict = d /\ l.section = << >> /\ l.errs = 0
  BY <1>11
<1>13. (0 > 0) = Ini!EndsInError(lines)
  BY <1>8, <1>9
<1>14. ReadsWell(l, f)
  BY <1>2, <1>3, <1>5, <1>6, <1>7, <1>10, <1>11, <1>12, <1>13 DEF ReadsWell
<1>15. QED
  BY <1>1, <1>14

LEMMA ReadsWellIs ==
    ASSUME NEW l, NEW f, ReadsWell(l, f)
    PROVE  l = Loading(l.dict, l.line, l.section, l.errs) /\ DictInv(l.dict)
<1>1. PICK d, p, s, e : d = l.dict /\ p = Pending(f) /\ s = Ini!SectionAt(Ini!Joined(f), Len(f)) /\ e = l.errs
  OBVIOUS
<1>2. l = [dict |-> d, line |-> p, section |-> s, errs |-> e] /\ DictInv(d)
  BY <1>1 DEF ReadsWell
<1>3. l.line = p /\ l.section = s /\ l.errs = e
  BY <1>2
<1>4. QED
  BY <1>1, <1>2, <1>3 DEF Loading

LEMMA InitIni == Ini!Init => IniInv
<1> SUFFICES ASSUME Ini!Init PROVE IniInv
  OBVIOUS
<1>1. reading = "loading" /\ load = Ini!Start /\ file = << >>
  BY DEF Ini!Init
<1>2. ReadsWell(load, file)
  BY <1>1, NothingRead
<1>3. QED
  BY <1>1, <1>2, ReadsWellIs DEF IniInv

LEMMA ReadIni == ASSUME IniInv, NEW text \in Lines, Ini!Read(text) PROVE IniInv'
<1>1. reading = "loading" /\ reading' = reading /\ ReadsWell(load, file)
  BY DEF Ini!Read, IniInv
<1>2. text \in Text
  BY IniAssumption DEF Text
<1>3. PICK l, f : l = load /\ f = file
  OBVIOUS
<1>4. ReadsWell(Ini!ReadInto(l, text), Append(f, text))
  BY <1>1, <1>2, <1>3, ReadIntoReads
<1>5. PICK r, g : r = Ini!ReadInto(l, text) /\ g = Append(f, text)
  OBVIOUS
<1>6. load' = r /\ file' = g
  BY <1>3, <1>5 DEF Ini!Read
<1>7. ReadsWell(r, g) /\ r = Loading(r.dict, r.line, r.section, r.errs) /\ DictInv(r.dict)
  BY <1>4, <1>5, ReadsWellIs
<1>8. QED
  BY <1>1, <1>6, <1>7 DEF IniInv

LEMMA ReadUnendedIni == ASSUME IniInv, NEW text, Ini!ReadUnended(text) PROVE IniInv'
<1>1. reading = "loading" /\ reading' \in {"last", "refused"} /\ load' = load /\ file' = file
  BY DEF Ini!ReadUnended
<1>2. QED
  BY <1>1 DEF IniInv

LEMMA EndIni == ASSUME IniInv, Ini!EndOfFile PROVE IniInv'
<1>1. /\ reading \in {"loading", "last"} /\ reading' \in {"refused", "loaded"}
      /\ means' = Ini!Meaning(Ini!Joined(file)) /\ load' = [Ini!Start EXCEPT !.dict = load.dict]
  BY DEF Ini!EndOfFile
<1>2. PICK d, m : d = load.dict /\ m = means'
  OBVIOUS
<1>3. DictInv(d) /\ Ini!MapOf(d) = m
  BY <1>1, <1>2 DEF IniInv, ReadsWell
<1>4. load' = [dict |-> d, line |-> << >>, section |-> << >>, errs |-> 0]
  BY <1>1, <1>2 DEF Ini!Start
<1>5. PICK r : r = [dict |-> d, line |-> << >>, section |-> << >>, errs |-> 0]
  OBVIOUS
<1>6. r.dict = d /\ r = Loading(r.dict, r.line, r.section, r.errs)
  BY <1>5 DEF Loading
<1>7. load' = r /\ means' = m
  BY <1>2, <1>4, <1>5
<1>8. QED
  BY <1>1, <1>3, <1>6, <1>7 DEF IniInv

LEMMA LowerEntry == ASSUME NEW entry \in Entries PROVE Ini!strlwc(entry) \in Text
<1>1. entry \in Text
  BY IniAssumption DEF Text
<1>2. QED
  BY <1>1, TextsIs

\* The dictionary in load after a call.
LEMMA ChangedDict ==
    ASSUME NEW l, l = Loading(l.dict, l.line, l.section, l.errs), NEW e, DictInv(e)
    PROVE  LET r == [l EXCEPT !.dict = e]
           IN  r.dict = e /\ r = Loading(r.dict, r.line, r.section, r.errs)
<1>1. PICK d, p, s, c : d = l.dict /\ p = l.line /\ s = l.section /\ c = l.errs
  OBVIOUS
<1>2. l = [dict |-> d, line |-> p, section |-> s, errs |-> c]
  BY <1>1 DEF Loading
<1>3. PICK r : r = [l EXCEPT !.dict = e]
  OBVIOUS
<1>4. r = [dict |-> e, line |-> p, section |-> s, errs |-> c]
  BY <1>2, <1>3
<1>5. r.dict = e /\ r.line = p /\ r.section = s /\ r.errs = c
  BY <1>4
<1>6. r.dict = e /\ r = Loading(r.dict, r.line, r.section, r.errs)
  BY <1>4, <1>5 DEF Loading
<1>7. QED
  BY <1>3, <1>6

LEMMA SetIni == ASSUME IniInv, NEW entry \in Entries, NEW val \in Slot, Ini!iniparser_set(entry, val) PROVE IniInv'
<1>1. PICK key, l, m : key = Ini!strlwc(entry) /\ l = load /\ m = means
  OBVIOUS
<1>2. key \in Text
  BY <1>1, LowerEntry
<1>3. PICK d, e : d = l.dict /\ e = Ini!dictionary_set(d, key, val)
  OBVIOUS
<1>4. reading = "loaded" /\ reading' = "loaded" /\ l = Loading(l.dict, l.line, l.section, l.errs) /\ DictInv(d) /\ Ini!MapOf(d) = m
  BY <1>1, <1>3 DEF IniInv, Ini!iniparser_set
<1>5. DictInv(e) /\ Ini!MapOf(e) = Ini!Put(m, key, val)
  BY <1>2, <1>3, <1>4, SetIs
<1>6. PICK r, p : r = [l EXCEPT !.dict = e] /\ p = Ini!Put(m, key, val)
  OBVIOUS
<1>7. load' = r /\ means' = p
  BY <1>1, <1>3, <1>6 DEF Ini!iniparser_set
<1>8. r.dict = e /\ r = Loading(r.dict, r.line, r.section, r.errs)
  BY <1>4, <1>5, <1>6, ChangedDict
<1>9. QED
  BY <1>4, <1>5, <1>6, <1>7, <1>8 DEF IniInv

LEMMA UnsetIni == ASSUME IniInv, NEW entry \in Entries, Ini!iniparser_unset(entry) PROVE IniInv'
<1>1. PICK key, l, m : key = Ini!strlwc(entry) /\ l = load /\ m = means
  OBVIOUS
<1>2. key \in Text
  BY <1>1, LowerEntry
<1>3. PICK d, e : d = l.dict /\ e = Ini!dictionary_unset(d, key)
  OBVIOUS
<1>4. reading = "loaded" /\ reading' = "loaded" /\ l = Loading(l.dict, l.line, l.section, l.errs) /\ DictInv(d) /\ Ini!MapOf(d) = m
  BY <1>1, <1>3 DEF IniInv, Ini!iniparser_unset
<1>5. DictInv(e) /\ Ini!MapOf(e) = Ini!Restrict(m, DOMAIN m \ {key})
  BY <1>2, <1>3, <1>4, UnsetIs
<1>6. PICK r, p : r = [l EXCEPT !.dict = e] /\ p = Ini!Restrict(m, DOMAIN m \ {key})
  OBVIOUS
<1>7. load' = r /\ means' = p
  BY <1>1, <1>3, <1>6 DEF Ini!iniparser_unset
<1>8. r.dict = e /\ r = Loading(r.dict, r.line, r.section, r.errs)
  BY <1>4, <1>5, <1>6, ChangedDict
<1>9. QED
  BY <1>4, <1>5, <1>6, <1>7, <1>8 DEF IniInv

LEMMA NextIni == IniInv /\ [Ini!Next]_(Ini!vars) => IniInv'
<1> SUFFICES ASSUME IniInv, [Ini!Next]_(Ini!vars) PROVE IniInv'
  OBVIOUS
<1>1. CASE \E text \in Lines : Ini!Read(text) \/ Ini!ReadUnended(text)
  BY <1>1, ReadIni, ReadUnendedIni
<1>2. CASE Ini!EndOfFile
  BY <1>2, EndIni
<1>3. CASE \E entry \in Entries : Ini!iniparser_unset(entry)
  BY <1>3, UnsetIni
<1>4. CASE \E entry \in Entries, val \in Texts \cup {NULL} : Ini!iniparser_set(entry, val)
  <2>1. Texts \cup {NULL} \subseteq Slot
    BY IniAssumption DEF Slot, Text
  <2>2. QED
    BY <1>4, <2>1, SetIni
<1>5. CASE UNCHANGED Ini!vars
  BY <1>5 DEF Ini!vars, IniInv
<1>6. QED
  BY <1>1, <1>2, <1>3, <1>4, <1>5 DEF Ini!Next

LEMMA IniInvReads == IniInv => LoadReadsLines /\ DictionaryIsMap
<1> SUFFICES ASSUME IniInv PROVE LoadReadsLines /\ DictionaryIsMap
  OBVIOUS
<1>1. LoadReadsLines
  BY DEF IniInv, ReadsWell, LoadReadsLines, Ini!LoadReadsLines
<1>2. PICK d : d = load.dict
  OBVIOUS
<1>3. DictInv(d)
  BY <1>2 DEF IniInv
<1>4. d.n = Ini!Cardinality(Ini!Used(d)) /\ d.n <= Len(d.key)
  BY <1>3, IniCardinality, UsedIsFinite, LenProperties DEF DictInv
<1>5. \A i, j \in Ini!Used(d) : d.key[i] = d.key[j] => i = j
  BY <1>3 DEF DictInv
<1>6. reading = "loaded" => Ini!MapOf(d) = means
  BY <1>2 DEF IniInv
<1>7. DictionaryIsMap
  BY <1>2, <1>4, <1>5, <1>6 DEF DictionaryIsMap, Ini!DictionaryIsMap
<1>8. QED
  BY <1>1, <1>7

\* The ini file: whatever its lines, joined or not, the dictionary, the section and the
\* number of errors say at every line what the lines say that iniparser_load read.
THEOREM IniFileIsRead == Ini!Spec => []LoadReadsLines
BY InitIni, NextIni, IniInvReads, PTL DEF Ini!Spec

\* The dictionary is a map: a key is in one slot, the slots in use are counted, and what
\* iniparser_set and iniparser_unset did is what a search finds, through every doubling.
THEOREM DictionaryIsCorrect == Ini!Spec => []DictionaryIsMap
BY InitIni, NextIni, IniInvReads, PTL DEF Ini!Spec

(***************************************************************************)
(* The multi-reader puffer.  Lies is what the proofs say of the ring: the  *)
(* items lie, from the slot start on, at increasing offsets, up to where   *)
(* the next one will be written.                                           *)
(***************************************************************************)
\* Going on around the ring: by steps that add up, and to another slot for every distance.
LEMMA OnwardIs ==
    ASSUME NEW i \in Multi!Slots, NEW n \in Multi!Slots
    PROVE  /\ Multi!Onward(i, n) \in Multi!Slots /\ Multi!Onward(i, 0) = i
           /\ \A m \in Multi!Slots : Multi!Onward(i, n) = Multi!Onward(i, m) => n = m
           /\ \A m \in Multi!Slots : n + m < Size => Multi!Onward(Multi!Onward(i, n), m) = Multi!Onward(i, n + m)
           /\ n + 1 = Size => Multi!Onward(Multi!Onward(i, n), 1) = i
BY SizeAssumption DEF Multi!Slots, Multi!Onward

LEMMA OnwardRound ==
    ASSUME NEW i \in Multi!Slots, NEW n \in Multi!Slots, NEW m \in Multi!Slots, ~ (n + m < Size)
    PROVE  Multi!Onward(Multi!Onward(i, n), m) = Multi!Onward(i, n + m - Size)
BY SizeAssumption DEF Multi!Slots, Multi!Onward

LEMMA OnwardReaches ==
    ASSUME NEW i \in Multi!Slots, NEW j \in Multi!Slots
    PROVE  \E n \in Multi!Slots : j = Multi!Onward(i, n)
<1>1. CASE i <= j
  <2>1. j - i \in Multi!Slots /\ j = Multi!Onward(i, j - i)
    BY <1>1, SizeAssumption DEF Multi!Slots, Multi!Onward
  <2>2. QED
    BY <2>1
<1>2. CASE j < i
  <2>1. j - i + Size \in Multi!Slots /\ j = Multi!Onward(i, j - i + Size)
    BY <1>2, SizeAssumption DEF Multi!Slots, Multi!Onward
  <2>2. QED
    BY <2>1
<1>3. QED
  BY <1>1, <1>2, SizeAssumption DEF Multi!Slots

\* The first slot of a set is as far as its first slot is, and the last one likewise.
LEMMA FirstOfIs ==
    ASSUME NEW set, NEW i \in Multi!Slots, NEW n \in Multi!Slots,
           Multi!Onward(i, n) \in set, \A m \in 0 .. n - 1 : Multi!Onward(i, m) \notin set
    PROVE  Multi!FirstOf(set, i) = Multi!Onward(i, n)
<1> DEFINE First(m) == Multi!Onward(i, m) \in set /\ \A k \in 0 .. m - 1 : Multi!Onward(i, k) \notin set
<1>1. First(n)
  OBVIOUS
<1>2. \A m \in Multi!Slots : First(m) => m = n
  <2>1. TAKE m \in Multi!Slots
  <2>2. HAVE First(m)
  <2>3. ~ (m < n) /\ ~ (n < m)
    BY <1>1, <2>2 DEF Multi!Slots
  <2>4. QED
    BY <2>3, SizeAssumption DEF Multi!Slots
<1>3. PICK m : m = CHOOSE e \in Multi!Slots : First(e)
  OBVIOUS
<1>4. m \in Multi!Slots /\ First(m)
  BY <1>1, <1>3
<1>5. m = n
  BY <1>2, <1>4
<1>6. QED
  BY <1>3, <1>5 DEF Multi!FirstOf

LEMMA NewestIs ==
    ASSUME mstart \in Multi!Slots, NEW n \in Multi!Slots, Multi!Onward(mstart, n) \in Multi!Taken,
           \A m \in n + 1 .. Size - 1 : Multi!Onward(mstart, m) \notin Multi!Taken
    PROVE  Multi!Newest = Multi!Onward(mstart, n)
<1> DEFINE Final(m) == /\ Multi!Onward(mstart, m) \in Multi!Taken
                       /\ \A k \in m + 1 .. Size - 1 : Multi!Onward(mstart, k) \notin Multi!Taken
<1>1. Final(n)
  OBVIOUS
<1>2. \A m \in Multi!Slots : Final(m) => m = n
  <2>1. TAKE m \in Multi!Slots
  <2>2. HAVE Final(m)
  <2>3. ~ (m < n) /\ ~ (n < m)
    BY <1>1, <2>2, SizeAssumption DEF Multi!Slots
  <2>4. QED
    BY <2>3, SizeAssumption DEF Multi!Slots
<1>3. PICK m : m = CHOOSE e \in Multi!Slots : Final(e)
  OBVIOUS
<1>4. m \in Multi!Slots /\ Final(m)
  BY <1>1, <1>3
<1>5. m = n
  BY <1>2, <1>4
<1>6. QED
  BY <1>3, <1>5 DEF Multi!Newest

\* The items of s are at[1], at[2] ... slots on from the slot st, the rest is empty, and the
\* slot en is o slots on, behind all of them (if o is 0, it went once around).
Lies(its, st, en, s, o, at) ==
    /\ its \in [Multi!Slots -> Items \cup {NULL}] /\ st \in Multi!Slots /\ s \in Seq(Items)
    /\ at \in [1 .. Len(s) -> Multi!Slots]
    /\ \A n, m \in 1 .. Len(s) : n < m => at[n] < at[m]
    /\ \A k \in Multi!Slots : its[Multi!Onward(st, k)] = NULL \/ \E n \in 1 .. Len(s) : k = at[n]
    /\ \A n \in 1 .. Len(s) : its[Multi!Onward(st, at[n])] = s[n]
    /\ o \in Multi!Slots /\ en = Multi!Onward(st, o)
    /\ o = 0 \/ \A n \in 1 .. Len(s) : at[n] < o

\* What lies so is in order.
LEMMA LiesIs ==
    ASSUME NEW its, NEW st, NEW en, NEW s, NEW o, NEW at, Lies(its, st, en, s, o, at)
    PROVE  /\ Len(s) \in Nat /\ en \in Multi!Slots /\ DOMAIN s = 1 .. Len(s)
           /\ \A n \in 1 .. Len(s) : at[n] \in Multi!Slots /\ s[n] \in Items /\ s[n] # NULL
           /\ \A n, m \in 1 .. Len(s) : at[n] <= at[m] => n <= m
<1>1. Len(s) \in Nat /\ DOMAIN s = 1 .. Len(s) /\ \A n \in 1 .. Len(s) : s[n] \in Items
  BY LenProperties, ElementOfSeq DEF Lies
<1>2. en \in Multi!Slots
  BY OnwardIs DEF Lies
<1>3. \A n \in 1 .. Len(s) : at[n] \in Multi!Slots
  BY DEF Lies
<1>4. \A n, m \in 1 .. Len(s) : at[n] <= at[m] => n <= m
  <2>1. TAKE n, m \in 1 .. Len(s)
  <2>2. HAVE at[n] <= at[m]
  <2>3. m < n => at[m] < at[n]
    BY DEF Lies
  <2>4. at[n] \in Int /\ at[m] \in Int
    BY <1>3 DEF Multi!Slots
  <2>5. ~ (m < n)
    BY <2>2, <2>3, <2>4
  <2>6. QED
    BY <1>1, <2>5
<1>5. QED
  BY <1>1, <1>2, <1>3, <1>4, NullAssumption

LEMMA LiesHolds ==
    ASSUME NEW o, NEW at, Lies(mitems, mstart, mend, minside, o, at)
    PROVE  Multi!Holds(minside)
<1>1. /\ Len(minside) \in Nat /\ DOMAIN minside = 1 .. Len(minside)
      /\ \A n \in 1 .. Len(minside) : at[n] \in Multi!Slots /\ minside[n] # NULL
  BY LiesIs
<1>2. at \in [DOMAIN minside -> Multi!Slots] /\ \A n, m \in DOMAIN minside : n < m => at[n] < at[m]
  BY <1>1 DEF Lies
<1>3. \A n \in DOMAIN minside : mitems[Multi!Onward(mstart, at[n])] = minside[n]
  BY <1>1 DEF Lies
<1>4. ASSUME NEW j PROVE j \in Multi!Taken <=> j \in {Multi!Onward(mstart, at[n]) : n \in DOMAIN minside}
  <2>1. ASSUME j \in Multi!Taken PROVE \E n \in DOMAIN minside : j = Multi!Onward(mstart, at[n])
    <3>1. j \in Multi!Slots /\ mitems[j] # NULL
      BY <2>1 DEF Multi!Taken
    <3>2. mstart \in Multi!Slots
      BY DEF Lies
    <3>3. PICK k \in Multi!Slots : j = Multi!Onward(mstart, k)
      BY <3>1, <3>2, OnwardReaches
    <3>4. \E n \in 1 .. Len(minside) : k = at[n]
      BY <3>1, <3>3 DEF Lies
    <3>5. QED
      BY <1>1, <3>3, <3>4
  <2>2. ASSUME NEW n \in DOMAIN minside, j = Multi!Onward(mstart, at[n]) PROVE j \in Multi!Taken
    <3>1. mstart \in Multi!Slots /\ at[n] \in Multi!Slots
      BY <1>1 DEF Lies
    <3>2. j \in Multi!Slots
      BY <2>2, <3>1, OnwardIs
    <3>3. mitems[j] # NULL
      BY <1>1, <1>3, <2>2
    <3>4. QED
      BY <3>2, <3>3 DEF Multi!Taken
  <2>3. QED
    BY <2>1, <2>2
<1>5. Multi!Taken = {Multi!Onward(mstart, at[n]) : n \in DOMAIN minside}
  BY <1>4
<1>6. QED
  BY <1>2, <1>3, <1>5 DEF Multi!Holds

\* The item goes into the slot en, o slots on.
Written(its, en, s, o, at, item, b, t, to) ==
    /\ b = [its EXCEPT ![en] = item] /\ t = Append(s, item)
    /\ to = [n \in 1 .. Len(s) + 1 |-> IF n = Len(s) + 1 THEN o ELSE at[n]]

\* A write that does not pass the slot st puts its item behind the others.
LEMMA WriteLies ==
    ASSUME NEW its, NEW st, NEW en, NEW s, NEW o, NEW at, Lies(its, st, en, s, o, at),
           NEW item \in Items, en # st \/ Len(s) = 0
    PROVE  \A b, t, to : Written(its, en, s, o, at, item, b, t, to) =>
                             \E far : Lies(b, st, Multi!After(en), t, far, to)
<1> TAKE b, t, to
<1> HAVE Written(its, en, s, o, at, item, b, t, to)
<1>1. /\ Len(s) \in Nat /\ en \in Multi!Slots
      /\ \A n \in 1 .. Len(s) : at[n] \in Multi!Slots /\ s[n] \in Items /\ s[n] # NULL
  BY LiesIs
<1>2. st \in Multi!Slots /\ o \in Multi!Slots /\ en = Multi!Onward(st, o) /\ s \in Seq(Items)
      /\ its \in [Multi!Slots -> Items \cup {NULL}]
  BY DEF Lies
<1>3. PICK c : c = Len(s)
  OBVIOUS
<1>4. t = Append(s, item)
  BY DEF Written
<1>5. t \in Seq(Items) /\ Len(t) = c + 1 /\ t[c + 1] = item /\ \A n \in 1 .. c : t[n] = s[n]
  BY <1>1, <1>2, <1>3, <1>4, AppendProperties
<1>6. to = [n \in 1 .. c + 1 |-> IF n = c + 1 THEN o ELSE at[n]]
  BY <1>3 DEF Written
<1>7. b = [its EXCEPT ![en] = item]
  BY DEF Written
<1>8. b \in [Multi!Slots -> Items \cup {NULL}] /\ b[en] = item /\ \A j \in Multi!Slots : j # en => b[j] = its[j]
  BY <1>1, <1>2, <1>7
<1>9. \A n \in 1 .. c : at[n] < o
  <2>1. CASE o = 0
    <3>1. en = st
      BY <1>2, <2>1, OnwardIs
    <3>2. c = 0
      BY <1>3, <3>1
    <3>3. QED
      BY <3>2
  <2>2. CASE o # 0
    BY <1>3, <2>2 DEF Lies
  <2>3. QED
    BY <2>1, <2>2
<1>10. c \in Nat
  BY <1>1, <1>3
<1>11. \A n \in 1 .. c + 1 : (n \in 1 .. c /\ to[n] = at[n]) \/ (n = c + 1 /\ to[n] = o)
  BY <1>6, <1>10
<1>12. to \in [1 .. c + 1 -> Multi!Slots]
  BY <1>1, <1>2, <1>3, <1>6, <1>10
<1>13. ASSUME NEW n \in 1 .. c + 1, NEW m \in 1 .. c + 1, n < m PROVE to[n] < to[m]
  <2>1. n \in 1 .. c /\ to[n] = at[n]
    BY <1>10, <1>11, <1>13
  <2>2. CASE m \in 1 .. c /\ to[m] = at[m]
    BY <1>3, <1>13, <2>1, <2>2 DEF Lies
  <2>3. CASE m = c + 1 /\ to[m] = o
    BY <1>9, <2>1, <2>3
  <2>4. QED
    BY <1>11, <2>2, <2>3
<1>14. ASSUME NEW k \in Multi!Slots PROVE b[Multi!Onward(st, k)] = NULL \/ \E n \in 1 .. c + 1 : k = to[n]
  <2>1. CASE k = o
    BY <1>6, <1>10, <2>1
  <2>2. CASE k # o
    <3>1. Multi!Onward(st, k) \in Multi!Slots /\ Multi!Onward(st, k) # en
      BY <1>2, <2>2, OnwardIs
    <3>2. b[Multi!Onward(st, k)] = its[Multi!Onward(st, k)]
      BY <1>8, <3>1
    <3>3. its[Multi!Onward(st, k)] = NULL \/ \E n \in 1 .. c : k = at[n]
      BY <1>3 DEF Lies
    <3>4. CASE \E n \in 1 .. c : k = at[n]
      <4>1. PICK n \in 1 .. c : k = at[n]
        BY <3>4
      <4>2. n \in 1 .. c + 1 /\ to[n] = at[n]
        BY <1>6, <1>10
      <4>3. QED
        BY <4>1, <4>2
    <3>5. QED
      BY <3>2, <3>3, <3>4
  <2>3. QED
    BY <2>1, <2>2
<1>15. ASSUME NEW n \in 1 .. c + 1 PROVE b[Multi!Onward(st, to[n])] = t[n]
  <2>1. CASE n = c + 1 /\ to[n] = o
    BY <1>2, <1>5, <1>8, <2>1
  <2>2. CASE n \in 1 .. c /\ to[n] = at[n]
    <3>1. at[n] \in Multi!Slots /\ at[n] # o
      <4>1. at[n] \in Multi!Slots /\ at[n] < o
        BY <1>1, <1>3, <1>9, <2>2
      <4>2. QED
        BY <1>2, <4>1 DEF Multi!Slots
    <3>2. Multi!Onward(st, at[n]) \in Multi!Slots /\ Multi!Onward(st, at[n]) # en
      BY <1>2, <3>1, OnwardIs
    <3>3. its[Multi!Onward(st, at[n])] = s[n]
      BY <1>3, <2>2 DEF Lies
    <3>4. QED
      BY <1>5, <1>8, <2>2, <3>2, <3>3
  <2>3. QED
    BY <1>11, <2>1, <2>2
<1>16. PICK far \in Multi!Slots : Multi!After(en) = Multi!Onward(st, far) /\ (far = 0 \/ far = o + 1)
  <2>1. o + 1 <= Size /\ o \in 0 .. Size - 1 /\ Size \in Nat \ {0}
    BY <1>2, SizeAssumption DEF Multi!Slots
  <2>2. CASE o + 1 = Size
    <3>1. Multi!After(en) = st
      BY <1>2, <2>2, OnwardIs DEF Multi!After
    <3>2. 0 \in Multi!Slots /\ st = Multi!Onward(st, 0)
      BY <1>2, SizeAssumption, OnwardIs DEF Multi!Slots
    <3>3. QED
      BY <3>1, <3>2
  <2>3. CASE o + 1 # Size
    <3>1. 1 \in Multi!Slots /\ o + 1 \in Multi!Slots /\ o + 1 < Size
      BY <2>1, <2>3 DEF Multi!Slots
    <3>2. Multi!After(en) = Multi!Onward(st, o + 1)
      BY <1>2, <3>1, OnwardIs DEF Multi!After
    <3>3. QED
      BY <3>1, <3>2
  <2>4. QED
    BY <2>2, <2>3
<1>17. far = 0 \/ \A n \in 1 .. c + 1 : to[n] < far
  <2>1. ASSUME far = o + 1, NEW n \in 1 .. c + 1 PROVE to[n] < far
    <3>1. o \in Int
      BY <1>2 DEF Multi!Slots
    <3>2. CASE n = c + 1 /\ to[n] = o
      BY <2>1, <3>1, <3>2
    <3>3. CASE n \in 1 .. c /\ to[n] = at[n]
      <4>1. at[n] < o /\ at[n] \in Int
        BY <1>1, <1>3, <1>9, <3>3 DEF Multi!Slots
      <4>2. QED
        BY <2>1, <3>1, <3>3, <4>1
    <3>4. QED
      BY <1>11, <3>2, <3>3
  <2>2. QED
    BY <1>16, <2>1
<1>18. Lies(b, st, Multi!After(en), t, far, to)
  BY ONLY <1>2, <1>5, <1>8, <1>12, <1>13, <1>14, <1>15, <1>16, <1>17 DEF Lies
<1>19. QED
  BY <1>18

\* The slot that the first item is in, as the start.
LEMMA StartLies ==
    ASSUME NEW its, NEW st, NEW en, NEW s, NEW o, NEW at, Lies(its, st, en, s, o, at), Len(s) # 0,
           NEW set, \A j \in Multi!Slots : j \in set <=> its[j] # NULL
    PROVE  \A sx, to :
             sx = Multi!Onward(st, at[1]) /\ to = [n \in 1 .. Len(s) |-> at[n] - at[1]]
             => Multi!FirstOf(set, st) = sx /\ \E far : Lies(its, sx, en, s, far, to)
<1> TAKE sx, to
<1> HAVE sx = Multi!Onward(st, at[1]) /\ to = [n \in 1 .. Len(s) |-> at[n] - at[1]]
<1>1. /\ Len(s) \in Nat /\ en \in Multi!Slots
      /\ \A n \in 1 .. Len(s) : at[n] \in Multi!Slots /\ s[n] \in Items /\ s[n] # NULL
      /\ \A n, m \in 1 .. Len(s) : at[n] <= at[m] => n <= m
  BY LiesIs
<1>2. st \in Multi!Slots /\ o \in Multi!Slots /\ en = Multi!Onward(st, o) /\ s \in Seq(Items)
      /\ its \in [Multi!Slots -> Items \cup {NULL}]
  BY DEF Lies
<1>3. PICK c \in Nat \ {0} : c = Len(s)
  BY <1>1
<1>4. PICK f \in Multi!Slots : f = at[1]
  BY <1>1, <1>3
<1>5. \A n \in 1 .. c : at[n] \in Multi!Slots /\ f <= at[n]
  <2>1. TAKE n \in 1 .. c
  <2>2. at[n] \in Multi!Slots
    BY <1>1, <1>3
  <2>3. CASE n = 1
    BY <1>4, <2>3 DEF Multi!Slots
  <2>4. CASE n # 1
    <3>1. at[1] < at[n]
      BY <1>3, <2>4 DEF Lies
    <3>2. QED
      BY <1>4, <2>2, <3>1 DEF Multi!Slots
  <2>5. QED
    BY <2>2, <2>3, <2>4
<1>6. \A k \in Multi!Slots : its[Multi!Onward(st, k)] = NULL \/ \E n \in 1 .. c : k = at[n]
  BY <1>3 DEF Lies
<1>7. \A n \in 1 .. c : its[Multi!Onward(st, at[n])] = s[n]
  BY <1>3 DEF Lies
<1>8. to = [n \in 1 .. c |-> at[n] - f]
  BY <1>3, <1>4
<1>9. sx = Multi!Onward(st, f)
  BY <1>4
<1>10. sx \in Multi!Slots
  BY <1>2, <1>4, <1>9, OnwardIs
<1>11. Multi!FirstOf(set, st) = sx
  <2>1. its[sx] # NULL
    BY <1>1, <1>3, <1>4, <1>7, <1>9
  <2>2. sx \in set
    BY <1>10, <2>1
  <2>3. ASSUME NEW m \in 0 .. f - 1 PROVE Multi!Onward(st, m) \notin set
    <3>1. m \in Multi!Slots /\ m < f
      BY <1>4, SizeAssumption DEF Multi!Slots
    <3>2. ~ \E n \in 1 .. c : m = at[n]
      BY <1>5, <3>1 DEF Multi!Slots
    <3>3. its[Multi!Onward(st, m)] = NULL
      BY <1>6, <3>1, <3>2
    <3>4. Multi!Onward(st, m) \in Multi!Slots
      BY <1>2, <3>1, OnwardIs
    <3>5. QED
      BY <3>3, <3>4
  <2>4. QED
    BY <1>2, <1>4, <1>9, <2>2, <2>3, FirstOfIs
<1>12. to \in [1 .. c -> Multi!Slots]
  <2>1. ASSUME NEW n \in 1 .. c PROVE at[n] - f \in Multi!Slots
    BY <1>4, <1>5, SizeAssumption DEF Multi!Slots
  <2>2. QED
    BY <1>8, <2>1
<1>13. ASSUME NEW n \in 1 .. c, NEW m \in 1 .. c, n < m PROVE to[n] < to[m]
  <2>1. at[n] < at[m]
    BY <1>3, <1>13 DEF Lies
  <2>2. at[n] \in Int /\ at[m] \in Int /\ f \in Int
    BY <1>4, <1>5 DEF Multi!Slots
  <2>3. QED
    BY <1>8, <2>1, <2>2
<1>14. \A k \in Multi!Slots : f + k < Size => Multi!Onward(sx, k) = Multi!Onward(st, f + k)
  BY <1>2, <1>4, <1>9, OnwardIs
<1>15. ASSUME NEW n \in 1 .. c PROVE its[Multi!Onward(sx, to[n])] = s[n]
  <2>1. to[n] \in Multi!Slots /\ f + to[n] = at[n] /\ f + to[n] < Size
    BY <1>4, <1>5, <1>8, <1>12, SizeAssumption DEF Multi!Slots
  <2>2. QED
    BY <1>7, <1>14, <2>1
<1>16. ASSUME NEW k \in Multi!Slots PROVE its[Multi!Onward(sx, k)] = NULL \/ \E n \in 1 .. c : k = to[n]
  <2>1. CASE f + k < Size
    <3>1. f + k \in Multi!Slots
      BY <1>4, <2>1, SizeAssumption DEF Multi!Slots
    <3>2. CASE \E n \in 1 .. c : f + k = at[n]
      <4>1. PICK n \in 1 .. c : f + k = at[n]
        BY <3>2
      <4>2. k = to[n]
        BY <1>4, <1>8, <4>1 DEF Multi!Slots
      <4>3. QED
        BY <4>2
    <3>3. QED
      BY <1>6, <1>14, <2>1, <3>1, <3>2
  <2>2. CASE ~ (f + k < Size)
    <3>1. PICK m \in Multi!Slots : m = f + k - Size
      BY <1>4, <2>2, SizeAssumption DEF Multi!Slots
    <3>2. m < f
      BY <1>4, <3>1, SizeAssumption DEF Multi!Slots
    <3>3. Multi!Onward(sx, k) = Multi!Onward(st, m)
      BY <1>2, <1>4, <1>9, <2>2, <3>1, OnwardRound
    <3>4. ~ \E n \in 1 .. c : m = at[n]
      BY <1>4, <1>5, <3>1, <3>2 DEF Multi!Slots
    <3>5. QED
      BY <1>6, <3>3, <3>4
  <2>3. QED
    BY <2>1, <2>2
<1>17. PICK far \in Multi!Slots : en = Multi!Onward(sx, far) /\ (far = 0 \/ \A n \in 1 .. c : to[n] < far)
  <2>1. CASE o = 0 /\ f = 0
    <3>1. en = sx /\ sx = st
      BY <1>2, <1>9, <2>1, OnwardIs
    <3>2. en = Multi!Onward(sx, 0) /\ 0 \in Multi!Slots
      BY <1>2, <2>1, <3>1
    <3>3. QED
      BY <3>2
  <2>2. CASE o = 0 /\ f # 0
    <3>1. Size - f \in Multi!Slots /\ f \in Int /\ Size \in Int
      BY <1>4, <2>2, SizeAssumption DEF Multi!Slots
    <3>2. en = Multi!Onward(sx, Size - f)
      BY <1>2, <1>4, <1>9, <2>2, SizeAssumption, SMTT(40) DEF Multi!Slots, Multi!Onward
    <3>3. ASSUME NEW n \in 1 .. c PROVE to[n] < Size - f
      <4>1. at[n] \in Int /\ at[n] < Size /\ to[n] = at[n] - f
        BY <1>5, <1>8, SizeAssumption DEF Multi!Slots
      <4>2. QED
        BY <3>1, <4>1
    <3>4. QED
      BY <3>1, <3>2, <3>3
  <2>3. CASE o # 0
    <3>1. \A n \in 1 .. c : at[n] < o
      BY <1>3, <2>3 DEF Lies
    <3>2. f < o
      BY <1>3, <1>4, <3>1
    <3>3. o - f \in Multi!Slots /\ f + (o - f) = o /\ f + (o - f) < Size
      BY <1>2, <1>4, <3>2, SizeAssumption DEF Multi!Slots
    <3>4. en = Multi!Onward(sx, o - f)
      BY <1>2, <1>14, <3>3
    <3>5. ASSUME NEW n \in 1 .. c PROVE to[n] < o - f
      <4>1. at[n] \in Int /\ f \in Int /\ o \in Int /\ at[n] < o /\ to[n] = at[n] - f
        BY <1>2, <1>4, <1>5, <1>8, <3>1 DEF Multi!Slots
      <4>2. QED
        BY <4>1
    <3>6. QED
      BY <3>3, <3>4, <3>5
  <2>4. QED
    BY <2>1, <2>2, <2>3
<1>18. Lies(its, sx, en, s, far, to)
  BY <1>2, <1>3, <1>10, <1>12, <1>13, <1>15, <1>16, <1>17 DEF Lies
<1>19. QED
  BY <1>11, <1>18

\* From a slot behind the items before the p-th one, up to its slot, Seek finds the p-th.
LEMMA SeekIs ==
    ASSUME NEW st, NEW s, NEW o, NEW at, Lies(mitems, st, mend, s, o, at),
           NEW p \in 1 .. Len(s), NEW r \in Multi!Slots, r # 0, r <= at[p], \A n \in 1 .. p - 1 : at[n] < r
    PROVE  Multi!Seek(Multi!Onward(st, r)) = Multi!Onward(st, at[p]) /\ Multi!Onward(st, at[p]) # mend
<1>1. /\ Len(s) \in Nat /\ mend \in Multi!Slots
      /\ \A n \in 1 .. Len(s) : at[n] \in Multi!Slots /\ s[n] \in Items /\ s[n] # NULL
      /\ \A n, m \in 1 .. Len(s) : at[n] <= at[m] => n <= m
  BY LiesIs
<1>2. st \in Multi!Slots /\ o \in Multi!Slots /\ mend = Multi!Onward(st, o)
  BY DEF Lies
<1>3. PICK q \in Multi!Slots : q = at[p]
  BY <1>1
<1>4. PICK i : i = Multi!Onward(st, r)
  OBVIOUS
<1>5. i \in Multi!Slots
  BY <1>2, <1>4, OnwardIs
<1>6. PICK d \in Multi!Slots : d = q - r
  BY <1>3, SizeAssumption DEF Multi!Slots
<1>7. \A k \in 0 .. d : k \in Multi!Slots /\ r + k \in Multi!Slots /\ Multi!Onward(i, k) = Multi!Onward(st, r + k)
  <2>1. TAKE k \in 0 .. d
  <2>2. k \in Multi!Slots /\ r + k \in Multi!Slots /\ r + k < Size
    BY <1>3, <1>6, SizeAssumption DEF Multi!Slots
  <2>3. QED
    BY <1>2, <1>4, <2>2, OnwardIs
<1>8. d \in 0 .. d /\ r + d = q
  BY <1>3, <1>6, SizeAssumption DEF Multi!Slots
<1>9. Multi!Onward(i, d) = Multi!Onward(st, q)
  BY <1>7, <1>8
<1>10. ASSUME NEW k \in Multi!Slots, r <= k, k <= q PROVE k # o
  <2>1. CASE o = 0
    BY <1>10, <2>1, SizeAssumption DEF Multi!Slots
  <2>2. CASE o # 0
    <3>1. q < o
      BY <1>3, <2>2 DEF Lies
    <3>2. QED
      BY <1>2, <1>3, <1>10, <3>1, SizeAssumption DEF Multi!Slots
  <2>3. QED
    BY <2>1, <2>2
<1>11. Multi!Onward(st, q) # mend
  <2>1. q # o
    BY <1>3, <1>10, SizeAssumption DEF Multi!Slots
  <2>2. QED
    BY <1>2, <1>3, <2>1, OnwardIs
<1>12. Multi!Onward(i, d) \in Multi!Taken \cup {mend}
  <2>1. mitems[Multi!Onward(st, q)] # NULL
    BY <1>1, <1>3 DEF Lies
  <2>2. Multi!Onward(st, q) \in Multi!Slots
    BY <1>2, <1>3, OnwardIs
  <2>3. QED
    BY <1>9, <2>1, <2>2 DEF Multi!Taken
<1>13. ASSUME NEW k \in 0 .. d - 1 PROVE Multi!Onward(i, k) \notin Multi!Taken \cup {mend}
  <2>1. k \in 0 .. d /\ r + k < q /\ r <= r + k
    BY <1>3, <1>6, SizeAssumption DEF Multi!Slots
  <2>2. PICK j \in Multi!Slots : j = r + k
    BY <1>7, <2>1
  <2>3. Multi!Onward(i, k) = Multi!Onward(st, j)
    BY <1>7, <2>1, <2>2
  <2>4. Multi!Onward(st, j) # mend
    <3>1. j # o
      BY <1>3, <1>10, <2>1, <2>2, SizeAssumption DEF Multi!Slots
    <3>2. QED
      BY <1>2, <2>2, <3>1, OnwardIs
  <2>5. ASSUME NEW n \in 1 .. Len(s), j = at[n] PROVE FALSE
    <3>1. at[n] <= at[p] /\ ~ (at[n] < r)
      BY <1>3, <2>1, <2>2, <2>5, SizeAssumption DEF Multi!Slots
    <3>2. n <= p
      BY <1>1, <3>1
    <3>3. n = p
      BY <1>1, <3>1, <3>2
    <3>4. QED
      BY <1>3, <2>1, <2>2, <2>5, <3>3, SizeAssumption DEF Multi!Slots
  <2>6. mitems[Multi!Onward(st, j)] = NULL
    BY <2>5 DEF Lies
  <2>7. QED
    BY <2>3, <2>4, <2>6 DEF Multi!Taken
<1>14. Multi!FirstOf(Multi!Taken \cup {mend}, i) = Multi!Onward(i, d)
  BY <1>5, <1>12, <1>13, FirstOfIs
<1>15. QED
  BY <1>3, <1>4, <1>9, <1>11, <1>14 DEF Multi!Seek

\* From an item on, Seek finds the next one.
LEMMA SeekNext ==
    ASSUME NEW st, NEW s, NEW o, NEW at, Lies(mitems, st, mend, s, o, at), NEW p \in 1 .. Len(s) - 1
    PROVE  /\ Multi!Seek(Multi!After(Multi!Onward(st, at[p]))) = Multi!Onward(st, at[p + 1])
           /\ Multi!Onward(st, at[p + 1]) # mend /\ Multi!Onward(st, at[p + 1]) \in Multi!Slots
<1>1. /\ Len(s) \in Nat
      /\ \A n \in 1 .. Len(s) : at[n] \in Multi!Slots
      /\ \A n, m \in 1 .. Len(s) : at[n] <= at[m] => n <= m
  BY LiesIs
<1>2. st \in Multi!Slots
  BY DEF Lies
<1>3. p \in 1 .. Len(s) /\ p + 1 \in 1 .. Len(s) /\ p < p + 1
  BY <1>1
<1>4. at[p] \in Multi!Slots /\ at[p + 1] \in Multi!Slots /\ at[p] < at[p + 1]
  BY <1>1, <1>3 DEF Lies
<1>5. PICK r \in Multi!Slots : r = at[p] + 1
  BY <1>4, SizeAssumption DEF Multi!Slots
<1>6. r # 0 /\ r <= at[p + 1]
  BY <1>4, <1>5, SizeAssumption DEF Multi!Slots
<1>7. \A n \in 1 .. (p + 1) - 1 : at[n] < r
  <2>1. TAKE n \in 1 .. (p + 1) - 1
  <2>2. n \in 1 .. Len(s) /\ (n = p \/ n < p)
    BY <1>1, <1>3
  <2>3. at[n] \in Multi!Slots
    BY <1>1, <2>2
  <2>4. n < p => at[n] < at[p]
    BY <1>3, <2>2 DEF Lies
  <2>5. QED
    BY <1>4, <1>5, <2>2, <2>3, <2>4, SizeAssumption DEF Multi!Slots
<1>8. Multi!After(Multi!Onward(st, at[p])) = Multi!Onward(st, r)
  <2>1. 1 \in Multi!Slots /\ at[p] + 1 < Size
    BY <1>4, <1>5, SizeAssumption DEF Multi!Slots
  <2>2. PICK a \in Multi!Slots : a = at[p]
    BY <1>4
  <2>3. Multi!Onward(Multi!Onward(st, a), 1) = Multi!Onward(st, a + 1)
    BY <1>2, <2>1, <2>2, OnwardIs
  <2>4. QED
    BY <1>5, <2>2, <2>3 DEF Multi!After
<1>9. Multi!Seek(Multi!Onward(st, r)) = Multi!Onward(st, at[p + 1]) /\ Multi!Onward(st, at[p + 1]) # mend
  BY <1>3, <1>6, <1>7, SeekIs
<1>10. QED
  BY <1>2, <1>4, <1>8, <1>9, OnwardIs

\* The function that Skip follows.
SkipLoop(f) ==
    f = [k \in Multi!Slots |-> [j \in Multi!Slots |->
            IF k = 0 THEN j
            ELSE IF Multi!Seek(Multi!After(j)) = mend THEN mend
            ELSE f[k - 1][Multi!Seek(Multi!After(j))]]]

\* From the first item on, Skip finds the item behind n others.
LEMMA SkipIs ==
    ASSUME NEW st, NEW s, NEW o, NEW at, Lies(mitems, st, mend, s, o, at), NEW n \in Multi!Slots, n < Len(s)
    PROVE  Multi!Skip(Multi!Onward(st, at[1]), n) = Multi!Onward(st, at[n + 1])
<1> DEFINE D == Multi!Slots
           Stop == {e \in D \X D : e[1] = 0 \/ Multi!Seek(Multi!After(e[2])) = mend}
           out == [k \in D |-> [j \in D |-> IF k = 0 THEN j ELSE mend]]
           nxt == [k \in D |-> [j \in D |-> k - 1]]
           upd == [k \in D |-> [j \in D |-> Multi!Seek(Multi!After(j))]]
           left == [k \in D |-> k]
           Good == {e \in D \X D : \E m \in 1 .. Len(s) : e[2] = Multi!Onward(st, at[m]) /\ m + e[1] = n + 1}
           Right == {Multi!Onward(st, at[n + 1])}
<1>1. Size \in Nat /\ left \in [D -> 0 .. Size] /\ 0 \in D /\ \A k \in D : k # 0 => k - 1 \in D /\ k - 1 < k
  BY SizeAssumption DEF Multi!Slots
<1>2. /\ Len(s) \in Nat
      /\ \A m \in 1 .. Len(s) : at[m] \in D
  BY LiesIs
<1>3. st \in D
  BY DEF Lies
<1>4. \A k \in D : \A j \in D :
         /\ <<k, j>> \in Stop <=> (k = 0 \/ Multi!Seek(Multi!After(j)) = mend)
         /\ out[k][j] = (IF k = 0 THEN j ELSE mend)
         /\ nxt[k][j] = k - 1 /\ upd[k][j] = Multi!Seek(Multi!After(j)) /\ left[k] = k
         /\ <<k, j>> \in Good <=> \E m \in 1 .. Len(s) : j = Multi!Onward(st, at[m]) /\ m + k = n + 1
  OBVIOUS
<1>5. \A k \in D : left[k] = k
  OBVIOUS
<1> HIDE DEF D, Stop, out, nxt, upd, left, Good, Right
<1>6. \A k \in D : \A j \in D : <<k, j>> \notin Stop => nxt[k][j] \in D /\ left[nxt[k][j]] < left[k]
  <2>1. TAKE k \in D
  <2>2. TAKE j \in D
  <2>3. HAVE <<k, j>> \notin Stop
  <2>4. nxt[k][j] = k - 1 /\ k # 0
    BY <1>4, <2>3
  <2>5. k - 1 \in D /\ left[k - 1] = k - 1 /\ left[k] = k /\ k - 1 < k
    BY <1>1, <1>5, <2>4
  <2>6. QED
    BY <2>4, <2>5
<1>7. PICK g : IsLoop(g, D, D, Stop, out, nxt, upd)
  BY <1>1, <1>6, LoopExists
<1>8. \A f : SkipLoop(f) <=> IsLoop(f, D, D, Stop, out, nxt, upd)
  <2>1. TAKE f
  <2>2. \A k \in D : \A j \in D :
           (IF k = 0 THEN j
            ELSE IF Multi!Seek(Multi!After(j)) = mend THEN mend
            ELSE f[k - 1][Multi!Seek(Multi!After(j))])
           = (IF <<k, j>> \in Stop THEN out[k][j] ELSE f[nxt[k][j]][upd[k][j]])
    BY <1>4
  <2>3. [k \in D |-> [j \in D |->
            IF k = 0 THEN j
            ELSE IF Multi!Seek(Multi!After(j)) = mend THEN mend
            ELSE f[k - 1][Multi!Seek(Multi!After(j))]]]
        = [k \in D |-> [j \in D |-> IF <<k, j>> \in Stop THEN out[k][j] ELSE f[nxt[k][j]][upd[k][j]]]]
    BY <2>2
  <2>4. QED
    BY <2>3, Zenon DEF SkipLoop, IsLoop, D
<1>9. PICK i : i = Multi!Onward(st, at[1])
  OBVIOUS
<1>10. PICK f : SkipLoop(f) /\ Multi!Skip(i, n) = f[n][i]
  <2>1. SkipLoop(CHOOSE f : SkipLoop(f))
    BY <1>7, <1>8
  <2>2. Multi!Skip(i, n) = (CHOOSE f : SkipLoop(f))[n][i]
    BY DEF Multi!Skip, SkipLoop
  <2>3. QED
    BY <2>1, <2>2
<1>11. IsLoop(f, D, D, Stop, out, nxt, upd)
  BY <1>8, <1>10
<1>12. ASSUME NEW k \in D, NEW j \in D, <<k, j>> \in Good
       PROVE  IF <<k, j>> \in Stop THEN out[k][j] \in Right
              ELSE /\ nxt[k][j] \in D /\ left[nxt[k][j]] < left[k]
                   /\ upd[k][j] \in D /\ <<nxt[k][j], upd[k][j]>> \in Good
  <2>1. PICK m \in 1 .. Len(s) : j = Multi!Onward(st, at[m]) /\ m + k = n + 1
    BY <1>4, <1>12
  <2>2. k \in Nat /\ n \in Nat
    BY DEF D, Multi!Slots
  <2>3. CASE k = 0
    <3>1. m = n + 1
      BY <2>1, <2>2, <2>3
    <3>2. <<k, j>> \in Stop /\ out[k][j] = j
      BY <1>4, <2>3
    <3>3. QED
      BY <2>1, <3>1, <3>2 DEF Right
  <2>4. CASE k # 0
    <3>1. m \in 1 .. Len(s) - 1 /\ m + 1 \in 1 .. Len(s) /\ (m + 1) + (k - 1) = n + 1
      BY <1>2, <2>1, <2>2, <2>4
    <3>2. PICK next : next = Multi!Onward(st, at[m + 1])
      OBVIOUS
    <3>3. Multi!Seek(Multi!After(j)) = next /\ next # mend /\ next \in D
      BY <2>1, <3>1, <3>2, SeekNext DEF D
    <3>4. <<k, j>> \notin Stop /\ nxt[k][j] = k - 1 /\ upd[k][j] = next
      BY <1>4, <2>4, <3>3
    <3>5. k - 1 \in D /\ left[k - 1] < left[k]
      <4>1. k - 1 \in D /\ left[k - 1] = k - 1 /\ left[k] = k /\ k - 1 < k
        BY <1>1, <1>5, <2>4
      <4>2. QED
        BY <4>1
    <3>6. <<k - 1, next>> \in Good
      BY <1>4, <3>1, <3>2, <3>3, <3>5
    <3>7. QED
      BY <3>3, <3>4, <3>5, <3>6
  <2>5. QED
    BY <2>3, <2>4
<1>13. \A k \in D : \A j \in D : <<k, j>> \in Good => f[k][j] \in Right
  <2>1. Advances(D, D, Stop, out, nxt, upd, left, Good, Right)
    BY <1>12, Zenon DEF Advances
  <2>2. QED
    BY <1>1, <1>11, <2>1, LoopReaches
<1>14. n \in D /\ 1 \in 1 .. Len(s) /\ 1 + n = n + 1
  BY <1>2 DEF D, Multi!Slots
<1>15. i \in D /\ <<n, i>> \in Good
  <2>1. i \in D
    BY <1>2, <1>3, <1>9, <1>14, OnwardIs DEF D
  <2>2. QED
    BY <1>4, <1>9, <1>14, <2>1
<1>16. f[n][i] \in Right
  BY <1>13, <1>14, <1>15
<1>17. QED
  BY <1>9, <1>10, <1>16 DEF Right

\* From the read index on the item behind the pl oldest ones is the first that is met.
Aims(st, idx, at, pl, c) ==
    /\ pl + 1 \in 1 .. c
    /\ \E r \in Multi!Slots :
          /\ Multi!Onward(st, r) = (IF idx = Size THEN 0 ELSE idx)
          /\ r <= at[pl + 1] /\ \A n \in 1 .. pl : at[n] < r

LEMMA ReachedIs ==
    ASSUME NEW o, NEW at, Lies(mitems, mstart, mend, minside, o, at), mplus \in Nat,
           Aims(mstart, mindex, at, mplus, Len(minside))
    PROVE  Multi!Reached = Multi!Onward(mstart, at[mplus + 1])
<1>1. PICK st, s, p : st = mstart /\ s = minside /\ p = mplus + 1
  OBVIOUS
<1>2. Lies(mitems, st, mend, s, o, at)
  BY <1>1
<1>3. /\ Len(s) \in Nat
      /\ \A n \in 1 .. Len(s) : at[n] \in Multi!Slots /\ s[n] # NULL
      /\ \A n, m \in 1 .. Len(s) : at[n] <= at[m] => n <= m
  BY <1>2, LiesIs
<1>4. st \in Multi!Slots
  BY <1>2 DEF Lies
<1>5. p \in 1 .. Len(s) /\ mplus = p - 1
  BY <1>1 DEF Aims
<1>6. PICK r \in Multi!Slots : /\ Multi!Onward(st, r) = (IF mindex = Size THEN 0 ELSE mindex)
                               /\ r <= at[p] /\ \A n \in 1 .. p - 1 : at[n] < r
  BY <1>1, <1>5 DEF Aims
<1>7. PICK i : i = Multi!Onward(st, r)
  OBVIOUS
<1>8. Multi!Reached = IF mitems[i] # NULL THEN i ELSE Multi!Seek(Multi!After(i))
  BY <1>6, <1>7 DEF Multi!Reached
<1>9. CASE mitems[i] # NULL
  <2>1. PICK n \in 1 .. Len(s) : r = at[n]
    BY <1>2, <1>7, <1>9 DEF Lies
  <2>2. n <= p
    BY <1>3, <1>5, <1>6, <2>1
  <2>3. r \in Int
    BY <1>6 DEF Multi!Slots
  <2>4. ~ (n \in 1 .. p - 1)
    BY <1>6, <2>1, <2>3
  <2>5. n = p
    BY <1>3, <1>5, <2>2, <2>4
  <2>6. QED
    BY <1>1, <1>7, <1>8, <1>9, <2>1, <2>5
<1>10. CASE mitems[i] = NULL
  <2>1. r # at[p]
    <3>1. mitems[Multi!Onward(st, at[p])] # NULL
      BY <1>2, <1>3, <1>5 DEF Lies
    <3>2. QED
      BY <1>7, <1>10, <3>1
  <2>2. PICK a \in Multi!Slots : a = at[p]
    BY <1>3, <1>5
  <2>3. r + 1 \in Multi!Slots /\ r + 1 < Size /\ r + 1 # 0 /\ r + 1 <= a /\ 1 \in Multi!Slots
    BY <1>6, <2>1, <2>2, SizeAssumption DEF Multi!Slots
  <2>4. PICK x \in Multi!Slots : x = r + 1
    BY <2>3
  <2>5. \A n \in 1 .. p - 1 : at[n] < x
    <3>1. TAKE n \in 1 .. p - 1
    <3>2. n \in 1 .. Len(s)
      BY <1>3, <1>5
    <3>3. at[n] \in Multi!Slots /\ at[n] < r
      BY <1>3, <1>6, <3>2
    <3>4. QED
      BY <1>6, <2>4, <3>3, SizeAssumption DEF Multi!Slots
  <2>6. Multi!After(i) = Multi!Onward(st, x)
    BY <1>4, <1>6, <1>7, <2>3, <2>4, OnwardIs DEF Multi!After
  <2>7. Multi!Seek(Multi!Onward(st, x)) = Multi!Onward(st, at[p])
    BY <1>2, <1>5, <2>2, <2>3, <2>4, <2>5, SeekIs
  <2>8. QED
    BY <1>1, <1>8, <1>10, <2>6, <2>7
<1>11. QED
  BY <1>9, <1>10

\* Without the p-th item the others lie where they were.
LEMMA ReadLies ==
    ASSUME NEW its, NEW st, NEW en, NEW s, NEW o, NEW at, Lies(its, st, en, s, o, at), NEW p \in 1 .. Len(s)
    PROVE  \A slot, b, t, to :
             /\ slot = Multi!Onward(st, at[p]) /\ b = [its EXCEPT ![slot] = NULL] /\ t = Multi!RemoveAt(s, p)
             /\ to = [n \in 1 .. Len(s) - 1 |-> IF n < p THEN at[n] ELSE at[n + 1]]
             => Lies(b, st, en, t, o, to)
<1> TAKE slot, b, t, to
<1> HAVE /\ slot = Multi!Onward(st, at[p]) /\ b = [its EXCEPT ![slot] = NULL] /\ t = Multi!RemoveAt(s, p)
         /\ to = [n \in 1 .. Len(s) - 1 |-> IF n < p THEN at[n] ELSE at[n + 1]]
<1>1. /\ Len(s) \in Nat /\ en \in Multi!Slots
      /\ \A n \in 1 .. Len(s) : at[n] \in Multi!Slots /\ s[n] \in Items /\ s[n] # NULL
      /\ \A n, m \in 1 .. Len(s) : at[n] <= at[m] => n <= m
  BY LiesIs
<1>2. st \in Multi!Slots /\ o \in Multi!Slots /\ en = Multi!Onward(st, o) /\ s \in Seq(Items)
      /\ its \in [Multi!Slots -> Items \cup {NULL}]
  BY DEF Lies
<1>3. PICK c \in Nat \ {0} : c = Len(s)
  BY <1>1
<1>4. t = Multi!RemoveAt(s, p)
  OBVIOUS
<1>5. t \in Seq(Items) /\ Len(t) = c - 1 /\ \A n \in 1 .. c - 1 : t[n] = IF n < p THEN s[n] ELSE s[n + 1]
  <2>1. Multi!RemoveAt(s, p) = Vect!RemoveAt(s, p)
    BY DEF Multi!RemoveAt, Vect!RemoveAt
  <2>2. QED
    BY <1>2, <1>3, <1>4, <2>1, RemoveItem, ZenonT(60)
<1>6. to = [n \in 1 .. c - 1 |-> IF n < p THEN at[n] ELSE at[n + 1]]
  BY <1>3
<1>7. slot = Multi!Onward(st, at[p])
  OBVIOUS
<1>8. b = [its EXCEPT ![slot] = NULL]
  OBVIOUS
<1>9. at[p] \in Multi!Slots /\ slot \in Multi!Slots
  BY <1>1, <1>2, <1>7, OnwardIs
<1>10. b \in [Multi!Slots -> Items \cup {NULL}] /\ b[slot] = NULL /\ \A j \in Multi!Slots : j # slot => b[j] = its[j]
  BY <1>2, <1>8, <1>9
<1>11. \A n \in 1 .. c - 1 : \E m \in 1 .. c : m # p /\ m = (IF n < p THEN n ELSE n + 1) /\ to[n] = at[m] /\ t[n] = s[m]
  <2>1. TAKE n \in 1 .. c - 1
  <2>2. PICK m : m = IF n < p THEN n ELSE n + 1
    OBVIOUS
  <2>3. m \in 1 .. c /\ m # p
    BY <1>3, <2>2
  <2>4. to[n] = at[m]
    BY <1>6, <2>2
  <2>5. t[n] = s[m]
    BY <1>5, <2>2
  <2>6. QED
    BY <2>2, <2>3, <2>4, <2>5
<1>12. \A n, m \in 1 .. c : n < m => at[n] < at[m]
  BY <1>3 DEF Lies
<1>13. to \in [1 .. c - 1 -> Multi!Slots]
  <2>1. \A n \in 1 .. c - 1 : (IF n < p THEN at[n] ELSE at[n + 1]) \in Multi!Slots
    BY <1>1, <1>3
  <2>2. QED
    BY <1>6, <2>1
<1>14. ASSUME NEW n \in 1 .. c - 1, NEW m \in 1 .. c - 1, n < m PROVE to[n] < to[m]
  <2>1. PICK k \in 1 .. c : k = (IF n < p THEN n ELSE n + 1) /\ to[n] = at[k]
    BY <1>11
  <2>2. PICK l \in 1 .. c : l = (IF m < p THEN m ELSE m + 1) /\ to[m] = at[l]
    BY <1>11
  <2>3. k < l
    BY <1>3, <1>14, <2>1, <2>2
  <2>4. QED
    BY <1>12, <2>1, <2>2, <2>3
<1>15. ASSUME NEW k \in Multi!Slots PROVE b[Multi!Onward(st, k)] = NULL \/ \E n \in 1 .. c - 1 : k = to[n]
  <2>1. CASE k = at[p]
    BY <1>7, <1>10, <2>1
  <2>2. CASE k # at[p] /\ its[Multi!Onward(st, k)] = NULL
    <3>1. Multi!Onward(st, k) \in Multi!Slots
      BY <1>2, OnwardIs
    <3>2. QED
      BY <1>10, <2>2, <3>1
  <2>3. CASE k # at[p] /\ its[Multi!Onward(st, k)] # NULL
    <3>1. PICK m \in 1 .. c : k = at[m]
      BY <1>3, <2>3 DEF Lies
    <3>2. m # p
      BY <2>3, <3>1
    <3>3. CASE m < p
      <4>1. m \in 1 .. c - 1 /\ to[m] = at[m]
        BY <1>3, <1>6, <3>3
      <4>2. QED
        BY <3>1, <4>1
    <3>4. CASE p < m
      <4>1. m - 1 \in 1 .. c - 1 /\ ~ (m - 1 < p) /\ (m - 1) + 1 = m
        BY <1>3, <3>4
      <4>2. to[m - 1] = at[m]
        BY <1>6, <4>1
      <4>3. QED
        BY <3>1, <4>1, <4>2
    <3>5. QED
      BY <3>2, <3>3, <3>4
  <2>4. QED
    BY <2>1, <2>2, <2>3
<1>16. ASSUME NEW n \in 1 .. c - 1 PROVE b[Multi!Onward(st, to[n])] = t[n]
  <2>1. PICK m \in 1 .. c : m # p /\ to[n] = at[m] /\ t[n] = s[m]
    BY <1>11
  <2>2. at[m] \in Multi!Slots /\ at[m] # at[p]
    <3>1. at[m] \in Multi!Slots /\ (m < p => at[m] < at[p]) /\ (p < m => at[p] < at[m])
      BY <1>1, <1>3, <1>12
    <3>2. QED
      BY <1>9, <2>1, <3>1, SizeAssumption DEF Multi!Slots
  <2>3. Multi!Onward(st, at[m]) \in Multi!Slots /\ Multi!Onward(st, at[m]) # slot
    BY <1>2, <1>7, <1>9, <2>2, OnwardIs
  <2>4. its[Multi!Onward(st, at[m])] = s[m]
    BY <1>3 DEF Lies
  <2>5. QED
    BY <1>10, <2>1, <2>3, <2>4
<1>17. o = 0 \/ \A n \in 1 .. c - 1 : to[n] < o
  <2>1. o = 0 \/ \A m \in 1 .. c : at[m] < o
    BY <1>3 DEF Lies
  <2>2. \A n \in 1 .. c - 1 : \E m \in 1 .. c : to[n] = at[m]
    BY <1>11
  <2>3. QED
    BY <2>1, <2>2
<1>18. QED
  BY ONLY <1>2, <1>5, <1>10, <1>13, <1>14, <1>15, <1>16, <1>17 DEF Lies

\* The inductive invariant: the items that are inside lie in order from the oldest one's slot
\* on, up to where the next one will be written, and the read index aims at the one behind
\* the mplus oldest.
MultiInv ==
    ~ passed =>
      /\ mread = due /\ mcount = Len(minside) /\ mplus \in Multi!Slots /\ mindex \in 0 .. Size
      /\ \E o, at : /\ Lies(mitems, mstart, mend, minside, o, at)
                    /\ aimed => Aims(mstart, mindex, at, mplus, mcount)

LEMMA MultiInvIs ==
    ASSUME MultiInv, ~ passed
    PROVE  /\ mread = due /\ mcount = Len(minside) /\ mplus \in Multi!Slots /\ mindex \in 0 .. Size
           /\ \E o, at : /\ Lies(mitems, mstart, mend, minside, o, at)
                         /\ aimed => Aims(mstart, mindex, at, mplus, mcount)
BY DEF MultiInv

\* A ring without items.
LEMMA EmptyLies ==
    ASSUME NEW st \in Multi!Slots, NEW en \in Multi!Slots
    PROVE  \E o, at : Lies([i \in Multi!Slots |-> NULL], st, en, << >>, o, at)
<1>1. PICK o \in Multi!Slots : en = Multi!Onward(st, o)
  BY OnwardReaches
<1>2. PICK at, s, b : at = [n \in 1 .. 0 |-> 0] /\ s = << >> /\ b = [i \in Multi!Slots |-> NULL]
  OBVIOUS
<1>3. s \in Seq(Items) /\ Len(s) = 0
  BY <1>2
<1>4. at \in [1 .. Len(s) -> Multi!Slots] /\ 1 .. Len(s) = {}
  BY <1>2, <1>3
<1>5. b \in [Multi!Slots -> Items \cup {NULL}] /\ \A i \in Multi!Slots : b[i] = NULL
  BY <1>2
<1>6. \A k \in Multi!Slots : b[Multi!Onward(st, k)] = NULL
  BY <1>5, OnwardIs
<1>7. Lies(b, st, en, s, o, at)
  BY <1>1, <1>3, <1>4, <1>5, <1>6 DEF Lies
<1>8. QED
  BY <1>2, <1>7

LEMMA InitMulti == Multi!Init => MultiInv
<1> SUFFICES ASSUME Multi!Init PROVE MultiInv
  OBVIOUS
<1>1. 0 \in Multi!Slots /\ 0 \in 0 .. Size
  BY SizeAssumption DEF Multi!Slots
<1>2. \E o, at : Lies([i \in Multi!Slots |-> NULL], 0, 0, << >>, o, at)
  BY <1>1, EmptyLies
<1>3. \E o, at : Lies(mitems, mstart, mend, minside, o, at)
  BY <1>2 DEF Multi!Init
<1>4. Len(<< >>) = 0
  OBVIOUS
<1>5. QED
  BY <1>1, <1>3, <1>4 DEF Multi!Init, MultiInv

LEMMA WriteMulti == ASSUME MultiInv, ~ passed, NEW item \in Items, Multi!write(item) PROVE MultiInv'
<1> SUFFICES ASSUME ~ passed' PROVE MultiInv'
  BY DEF MultiInv
<1>1. /\ mread = due /\ mcount = Len(minside) /\ mplus \in Multi!Slots /\ mindex \in 0 .. Size
      /\ \E o, at : /\ Lies(mitems, mstart, mend, minside, o, at)
                    /\ aimed => Aims(mstart, mindex, at, mplus, mcount)
  BY MultiInvIs
<1>2. PICK o, at : /\ Lies(mitems, mstart, mend, minside, o, at)
                   /\ aimed => Aims(mstart, mindex, at, mplus, mcount)
  BY <1>1
<1>3. Len(minside) \in Nat
  BY <1>2, LiesIs
<1>4. PICK c : c = mcount
  OBVIOUS
<1>5. PICK to : to = [n \in 1 .. c + 1 |-> IF n = c + 1 THEN o ELSE at[n]]
  OBVIOUS
<1>6. mend # mstart \/ Len(minside) = 0
  <2>1. ~ (mend = mstart /\ mcount > 0)
    BY DEF Multi!write
  <2>2. QED
    BY <1>1, <1>3, <2>1
<1>7. PICK far : Lies(mitems', mstart, Multi!After(mend), minside', far, to)
  <2>1. mitems' = [mitems EXCEPT ![mend] = item] /\ minside' = Append(minside, item)
    BY DEF Multi!write
  <2>2. to = [n \in 1 .. Len(minside) + 1 |-> IF n = Len(minside) + 1 THEN o ELSE at[n]]
    BY <1>1, <1>4, <1>5
  <2>3. PICK its, st, en, s, b, t : /\ its = mitems /\ st = mstart /\ en = mend /\ s = minside
                                    /\ b = mitems' /\ t = minside'
    OBVIOUS
  <2>4. Lies(its, st, en, s, o, at) /\ (en # st \/ Len(s) = 0)
    BY <1>2, <1>6, <2>3
  <2>5. Written(its, en, s, o, at, item, b, t, to)
    BY <2>1, <2>2, <2>3 DEF Written
  <2>6. \E far : Lies(b, st, Multi!After(en), t, far, to)
    BY <2>4, <2>5, WriteLies
  <2>7. QED
    BY <2>3, <2>6
<1>8. Lies(mitems', mstart', mend', minside', far, to)
  BY <1>7 DEF Multi!write
<1>9. mcount' = c + 1 /\ Len(minside') = c + 1
  <2>1. minside \in Seq(Items)
    BY <1>2 DEF Lies
  <2>2. Len(Append(minside, item)) = Len(minside) + 1
    BY <2>1, AppendProperties
  <2>3. QED
    BY <1>1, <1>4, <2>2 DEF Multi!write
<1>10. ASSUME aimed' PROVE Aims(mstart', mindex', to, mplus', mcount')
  <2>1. Aims(mstart, mindex, at, mplus, c)
    BY <1>2, <1>4, <1>10 DEF Multi!write
  <2>2. mplus \in Nat /\ c \in Nat
    BY <1>1, <1>3, <1>4 DEF Multi!Slots
  <2>3. \A n \in 1 .. mplus + 1 : to[n] = at[n]
    <3>1. mplus + 1 \in 1 .. c
      BY <2>1 DEF Aims
    <3>2. QED
      BY <1>5, <2>2, <3>1
  <2>4. Aims(mstart, mindex, to, mplus, c + 1)
    BY <2>1, <2>2, <2>3 DEF Aims
  <2>5. QED
    BY <1>9, <2>4 DEF Multi!write
<1>11. mread' = due' /\ mplus' \in Multi!Slots /\ mindex' \in 0 .. Size
  BY <1>1 DEF Multi!write
<1>12. QED
  BY <1>8, <1>9, <1>10, <1>11 DEF MultiInv

LEMMA SetMulti == ASSUME MultiInv, ~ passed, NEW n \in Multi!Slots, Multi!setreadindex(n) PROVE MultiInv'
<1>1. /\ mread = due /\ mcount = Len(minside) /\ mplus \in Multi!Slots /\ mindex \in 0 .. Size
      /\ \E o, at : /\ Lies(mitems, mstart, mend, minside, o, at)
                    /\ aimed => Aims(mstart, mindex, at, mplus, mcount)
  BY MultiInvIs
<1>2. PICK o, at : Lies(mitems, mstart, mend, minside, o, at)
  BY <1>1
<1>3. Len(minside) \in Nat /\ \A m \in 1 .. Len(minside) : at[m] \in Multi!Slots
  BY <1>2, LiesIs
<1>4. PICK c, s, st : c = mcount /\ s = minside /\ st = mstart
  OBVIOUS
<1>5. /\ mread' = due' /\ mcount' = c /\ minside' = s /\ c = Len(s) /\ mplus' = n /\ mitems' = mitems /\ mend' = mend
      /\ aimed' = (c > n) /\ n \in Nat /\ c \in Nat
  BY <1>1, <1>3, <1>4 DEF Multi!setreadindex, Multi!Slots
<1>6. CASE c = 0
  <2>1. mstart' = mstart /\ mindex' = mindex /\ ~ aimed'
    <3>1. mcount = 0 /\ ~ (mcount > n)
      BY <1>4, <1>5, <1>6
    <3>2. QED
      BY <3>1 DEF Multi!setreadindex
  <2>2. QED
    BY <1>1, <1>2, <1>4, <1>5, <2>1 DEF MultiInv
<1>7. CASE c # 0
  <2>1. PICK to : to = [m \in 1 .. c |-> at[m] - at[1]]
    OBVIOUS
  <2>2. PICK sx : sx = Multi!Onward(st, at[1])
    OBVIOUS
  <2>3. Multi!FirstOf(Multi!Taken, st) = sx /\ \E far : Lies(mitems, sx, mend, s, far, to)
    <3>1. \A j \in Multi!Slots : j \in Multi!Taken <=> mitems[j] # NULL
      BY DEF Multi!Taken
    <3>2. Lies(mitems, st, mend, s, o, at) /\ Len(s) # 0
      BY <1>2, <1>4, <1>5, <1>7
    <3>3. to = [m \in 1 .. Len(s) |-> at[m] - at[1]]
      BY <1>5, <2>1
    <3>4. QED
      BY <2>2, <3>1, <3>2, <3>3, StartLies, ZenonT(60)
  <2>4. mstart' = sx
    BY <1>4, <1>7, <2>3 DEF Multi!setreadindex
  <2>5. PICK far : Lies(mitems, sx, mend, s, far, to)
    BY <2>3
  <2>6. Lies(mitems', mstart', mend', minside', far, to)
    BY <1>5, <2>4, <2>5
  <2>7. \A m \in 1 .. c : to[m] \in Multi!Slots /\ \A k \in 1 .. c : k < m => to[k] < to[m]
    BY <1>5, <2>5 DEF Lies
  <2>8. ASSUME c > n PROVE mindex' = Multi!Onward(sx, to[n + 1])
    <3>1. n < Len(s)
      BY <1>5, <2>8
    <3>2. to[1] = 0
      BY <1>3, <1>4, <1>5, <1>7, <2>1 DEF Multi!Slots
    <3>3. sx \in Multi!Slots /\ Multi!Onward(sx, 0) = sx
      <4>1. sx \in Multi!Slots /\ 0 \in Multi!Slots
        BY <2>5, SizeAssumption DEF Lies, Multi!Slots
      <4>2. QED
        BY <4>1, OnwardIs
    <3>4. Multi!Skip(Multi!Onward(sx, to[1]), n) = Multi!Onward(sx, to[n + 1])
      BY <2>5, <3>1, SkipIs
    <3>5. Multi!Skip(sx, n) = Multi!Onward(sx, to[n + 1])
      BY <3>2, <3>3, <3>4
    <3>6. mindex' = Multi!Skip(sx, n)
      BY <1>4, <2>4, <2>8 DEF Multi!setreadindex
    <3>7. QED
      BY <3>5, <3>6
  <2>9. ASSUME aimed' PROVE Aims(mstart', mindex', to, mplus', mcount') /\ mindex' \in 0 .. Size
    <3>1. c > n /\ n + 1 \in 1 .. c
      <4>1. c > n
        BY <1>5, <2>9
      <4>2. n \in Nat /\ c \in Nat
        BY <1>5
      <4>3. QED
        BY <4>1, <4>2
    <3>2. PICK r \in Multi!Slots : r = to[n + 1]
      BY <2>7, <3>1
    <3>3. mindex' = Multi!Onward(sx, r)
      BY <2>8, <3>1, <3>2
    <3>4. sx \in Multi!Slots
      BY <2>5 DEF Lies
    <3>5. mindex' \in Multi!Slots
      BY <3>2, <3>3, <3>4, OnwardIs
    <3>6. mindex' # Size /\ mindex' \in 0 .. Size
      BY <3>5, SizeAssumption DEF Multi!Slots
    <3>7. \A k \in 1 .. n : to[k] < r
      BY <1>5, <2>7, <3>1, <3>2
    <3>8. r <= to[n + 1]
      BY <3>2, SizeAssumption DEF Multi!Slots
    <3>9. Aims(sx, mindex', to, n, c)
      BY <3>1, <3>2, <3>3, <3>6, <3>7, <3>8 DEF Aims
    <3>10. QED
      BY <1>5, <2>4, <3>6, <3>9
  <2>10. mindex' \in 0 .. Size
    <3>1. ~ aimed' => mindex' = mindex
      BY <1>4, <1>5 DEF Multi!setreadindex
    <3>2. QED
      BY <1>1, <2>9, <3>1
  <2>11. QED
    BY <1>5, <2>6, <2>9, <2>10 DEF MultiInv
<1>8. QED
  BY <1>6, <1>7

LEMMA ReadMulti == ASSUME MultiInv, ~ passed, Multi!read_one PROVE MultiInv'
<1>1. /\ mread = due /\ mcount = Len(minside) /\ mplus \in Multi!Slots /\ mindex \in 0 .. Size
      /\ \E o, at : /\ Lies(mitems, mstart, mend, minside, o, at)
                    /\ aimed => Aims(mstart, mindex, at, mplus, mcount)
  BY MultiInvIs
<1>2. PICK o, at : Lies(mitems, mstart, mend, minside, o, at) /\ Aims(mstart, mindex, at, mplus, mcount)
  BY <1>1 DEF Multi!read_one
<1>3. PICK c, s, st, p : c = mcount /\ s = minside /\ st = mstart /\ p = mplus + 1
  OBVIOUS
<1>4. /\ Len(s) \in Nat /\ c = Len(s) /\ st \in Multi!Slots
      /\ \A n \in 1 .. c : at[n] \in Multi!Slots /\ s[n] # NULL
  <2>1. Lies(mitems, st, mend, s, o, at) /\ c = Len(s)
    BY <1>1, <1>2, <1>3
  <2>2. Len(s) \in Nat /\ \A n \in 1 .. Len(s) : at[n] \in Multi!Slots /\ s[n] # NULL
    BY <2>1, LiesIs
  <2>3. st \in Multi!Slots
    BY <2>1 DEF Lies
  <2>4. QED
    BY <2>1, <2>2, <2>3
<1>5. p \in 1 .. c /\ mplus \in Nat
  BY <1>1, <1>2, <1>3 DEF Aims, Multi!Slots
<1>6. PICK slot : slot = Multi!Onward(st, at[p])
  OBVIOUS
<1>7. Multi!Reached = slot /\ slot \in Multi!Slots
  <2>1. Multi!Reached = slot
    BY <1>1, <1>2, <1>3, <1>5, <1>6, ReachedIs
  <2>2. QED
    BY <1>4, <1>5, <1>6, <2>1, OnwardIs
<1>8. mitems[slot] = s[p] /\ mitems[slot] # NULL
  BY <1>2, <1>3, <1>4, <1>5, <1>6 DEF Lies
<1>9. PICK to : to = [n \in 1 .. c - 1 |-> IF n < p THEN at[n] ELSE at[n + 1]]
  OBVIOUS
<1>10. Lies(mitems', mstart', mend', minside', o, to)
  <2>1. mitems' = [mitems EXCEPT ![slot] = NULL] /\ mstart' = st /\ mend' = mend /\ minside' = Multi!RemoveAt(s, p)
    BY <1>3, <1>7 DEF Multi!read_one
  <2>2. Lies(mitems, st, mend, s, o, at) /\ p \in 1 .. Len(s)
    BY <1>2, <1>3, <1>4, <1>5
  <2>3. to = [n \in 1 .. Len(s) - 1 |-> IF n < p THEN at[n] ELSE at[n + 1]]
    BY <1>4, <1>9
  <2>4. PICK its, en, b, t : its = mitems /\ en = mend /\ b = mitems' /\ t = minside'
    OBVIOUS
  <2>5. Lies(its, st, en, s, o, at)
    BY <2>2, <2>4
  <2>6. b = [its EXCEPT ![slot] = NULL] /\ t = Multi!RemoveAt(s, p)
    BY <2>1, <2>4
  <2>7. p \in 1 .. Len(s)
    BY <2>2
  <2>8. Lies(b, st, en, t, o, to)
    BY <1>6, <2>3, <2>5, <2>6, <2>7, ReadLies
  <2>9. QED
    BY <2>1, <2>4, <2>8
<1>11. mread' = due'
  BY <1>3, <1>7, <1>8 DEF Multi!read_one
<1>12. mcount' = c - 1 /\ Len(minside') = c - 1
  <2>1. s \in Seq(Items)
    BY <1>2, <1>3 DEF Lies
  <2>2. Len(Vect!RemoveAt(s, p)) = c - 1
    BY <1>4, <1>5, <2>1, RemoveItem
  <2>3. Multi!RemoveAt(s, p) = Vect!RemoveAt(s, p)
    BY DEF Multi!RemoveAt, Vect!RemoveAt
  <2>4. minside' = Multi!RemoveAt(s, p) /\ mcount' = c - 1
    BY <1>3 DEF Multi!read_one
  <2>5. QED
    BY <2>2, <2>3, <2>4
<1>13. mindex' = slot + 1 /\ mplus' = mplus
  BY <1>7, <1>8 DEF Multi!read_one
<1>14. mindex' \in 0 .. Size /\ mplus' \in Multi!Slots
  BY <1>1, <1>7, <1>13, SizeAssumption DEF Multi!Slots
<1>15. ASSUME aimed' PROVE Aims(mstart', mindex', to, mplus', mcount')
  <2>1. c - 1 > mplus
    BY <1>3, <1>12, <1>15 DEF Multi!read_one
  <2>2. p \in 1 .. c - 1 /\ p + 1 \in 1 .. c /\ ~ (p < p) /\ p < p + 1
    BY <1>3, <1>4, <1>5, <2>1
  <2>3. \A n, m \in 1 .. c : n < m => at[n] < at[m]
    BY <1>2, <1>3, <1>4 DEF Lies
  <2>4. at[p] < at[p + 1] /\ to[p] = at[p + 1]
    BY <1>5, <1>9, <2>2, <2>3
  <2>5. PICK a \in Multi!Slots : a = at[p]
    BY <1>4, <1>5
  <2>6. at[p + 1] \in Multi!Slots
    BY <1>4, <2>2
  <2>7. PICK r \in Multi!Slots : r = a + 1
    BY <2>4, <2>5, <2>6, SizeAssumption DEF Multi!Slots
  <2>8. r <= to[p]
    BY <2>4, <2>5, <2>6, <2>7, SizeAssumption DEF Multi!Slots
  <2>9. ASSUME NEW n \in 1 .. mplus PROVE to[n] < r
    <3>1. n \in 1 .. c /\ n < p /\ n \in 1 .. c - 1
      BY <1>3, <1>4, <1>5, <2>2
    <3>2. to[n] = at[n] /\ at[n] < at[p] /\ at[n] \in Multi!Slots
      BY <1>4, <1>5, <1>9, <2>3, <3>1
    <3>3. QED
      BY <2>5, <2>7, <3>2, SizeAssumption DEF Multi!Slots
  <2>10. Multi!Onward(st, r) = (IF slot + 1 = Size THEN 0 ELSE slot + 1)
    <3>1. slot = Multi!Onward(st, a) /\ a + 1 \in Multi!Slots
      BY <1>6, <2>5, <2>7
    <3>2. 1 \in Multi!Slots /\ a + 1 < Size /\ st \in Multi!Slots
      BY <1>4, <2>5, <3>1, SizeAssumption DEF Multi!Slots
    <3>3. Multi!Onward(slot, 1) = Multi!Onward(st, a + 1)
      BY <2>5, <3>1, <3>2, OnwardIs
    <3>4. Multi!Onward(slot, 1) = (IF slot + 1 = Size THEN 0 ELSE slot + 1)
      BY <1>7, SizeAssumption DEF Multi!Slots, Multi!Onward
    <3>5. QED
      BY <2>7, <3>3, <3>4
  <2>11. Aims(st, slot + 1, to, mplus, c - 1)
    BY <1>3, <1>5, <2>2, <2>7, <2>8, <2>9, <2>10 DEF Aims
  <2>12. mstart' = st
    BY <1>3 DEF Multi!read_one
  <2>13. QED
    BY <1>12, <1>13, <2>11, <2>12
<1>16. QED
  BY <1>10, <1>11, <1>12, <1>14, <1>15 DEF MultiInv

\* What clear reads last is the newest item.
LEMMA ReadAllMulti ==
    ASSUME MultiInv, ~ passed, Multi!ReadAll, mstart' \in Multi!Slots, mend' \in Multi!Slots, mindex' \in 0 .. Size
    PROVE  MultiInv'
<1>1. /\ mread = due /\ mcount = Len(minside) /\ mplus \in Multi!Slots /\ mindex \in 0 .. Size
      /\ \E o, at : /\ Lies(mitems, mstart, mend, minside, o, at)
                    /\ aimed => Aims(mstart, mindex, at, mplus, mcount)
  BY MultiInvIs
<1>2. PICK o, at : Lies(mitems, mstart, mend, minside, o, at)
  BY <1>1
<1>3. PICK c, s, st : c = mcount /\ s = minside /\ st = mstart
  OBVIOUS
<1>4. /\ Len(s) \in Nat /\ c = Len(s) /\ st \in Multi!Slots /\ s \in Seq(Items)
      /\ \A n \in 1 .. c : at[n] \in Multi!Slots /\ s[n] # NULL
  <2>1. Lies(mitems, st, mend, s, o, at) /\ c = Len(s)
    BY <1>1, <1>2, <1>3
  <2>2. Len(s) \in Nat /\ \A n \in 1 .. Len(s) : at[n] \in Multi!Slots /\ s[n] # NULL
    BY <2>1, LiesIs
  <2>3. st \in Multi!Slots /\ s \in Seq(Items)
    BY <2>1 DEF Lies
  <2>4. QED
    BY <2>1, <2>2, <2>3
<1>5. mread' = due'
  <2>1. CASE c = 0
    <3>1. s = << >>
      BY <1>4, <2>1, EmptySeq
    <3>2. QED
      BY <1>1, <1>3, <2>1, <3>1 DEF Multi!ReadAll
  <2>2. CASE c # 0
    <3>1. c \in 1 .. c /\ s # << >>
      BY <1>4, <2>2
    <3>2. PICK a \in Multi!Slots : a = at[c]
      BY <1>4, <3>1
    <3>3. mitems[Multi!Onward(st, a)] = s[c] /\ Multi!Onward(st, a) \in Multi!Slots
      BY <1>2, <1>3, <1>4, <3>1, <3>2, OnwardIs DEF Lies
    <3>4. Multi!Onward(st, a) \in Multi!Taken
      BY <1>4, <3>1, <3>3 DEF Multi!Taken
    <3>5. ASSUME NEW k \in a + 1 .. Size - 1 PROVE Multi!Onward(st, k) \notin Multi!Taken
      <4>1. k \in Multi!Slots /\ a < k
        BY <3>2, SizeAssumption DEF Multi!Slots
      <4>2. ASSUME NEW n \in 1 .. c, k = at[n] PROVE FALSE
        <5>1. n < c => at[n] < at[c]
          BY <1>2, <1>3, <1>4, <3>1 DEF Lies
        <5>2. n = c \/ n < c
          BY <1>4
        <5>3. QED
          BY <3>2, <4>1, <4>2, <5>1, <5>2, SizeAssumption DEF Multi!Slots
      <4>3. mitems[Multi!Onward(st, k)] = NULL
        BY <1>2, <1>3, <1>4, <4>1, <4>2 DEF Lies
      <4>4. QED
        BY <4>3 DEF Multi!Taken
    <3>6. Multi!Newest = Multi!Onward(st, a)
      BY <1>3, <1>4, <3>4, <3>5, NewestIs
    <3>7. mread' = s[c]
      BY <1>3, <2>2, <3>3, <3>6 DEF Multi!ReadAll
    <3>8. due' = s[c]
      BY <1>3, <1>4, <3>1 DEF Multi!ReadAll, Multi!Last
    <3>9. QED
      BY <3>7, <3>8
  <2>3. QED
    BY <2>1, <2>2
<1>6. \E far, to : Lies([i \in Multi!Slots |-> NULL], mstart', mend', << >>, far, to)
  BY EmptyLies
<1>7. \E far, to : Lies(mitems', mstart', mend', minside', far, to)
  BY <1>6 DEF Multi!ReadAll
<1>8. mcount' = Len(minside') /\ mplus' \in Multi!Slots /\ ~ aimed'
  <2>1. Len(<< >>) = 0 /\ 0 \in Multi!Slots
    BY SizeAssumption DEF Multi!Slots
  <2>2. QED
    BY <2>1 DEF Multi!ReadAll
<1>9. QED
  BY <1>5, <1>7, <1>8 DEF MultiInv

LEMMA NextMulti == MultiInv /\ [Multi!Next]_(Multi!vars) => MultiInv'
<1> SUFFICES ASSUME MultiInv, [Multi!Next]_(Multi!vars) PROVE MultiInv'
  OBVIOUS
<1>1. CASE ~ passed /\ Multi!Ask
  BY <1>1 DEF Multi!Ask, MultiInv
<1>2. CASE ~ passed /\ \E item \in Items : Multi!write(item)
  BY <1>2, WriteMulti
<1>3. CASE ~ passed /\ \E n \in Multi!Slots : Multi!setreadindex(n)
  BY <1>3, SetMulti
<1>4. CASE ~ passed /\ Multi!read_one
  BY <1>4, ReadMulti
<1>5. CASE ~ passed /\ (Multi!clear \/ Multi!reset)
  <2>1. PICK o, at : Lies(mitems, mstart, mend, minside, o, at) /\ mcount = Len(minside)
    BY <1>5, MultiInvIs
  <2>2. mstart \in Multi!Slots /\ mend \in Multi!Slots
    <3>1. mstart \in Multi!Slots
      BY <2>1 DEF Lies
    <3>2. mend \in Multi!Slots
      BY <2>1, LiesIs
    <3>3. QED
      BY <3>1, <3>2
  <2>3. \A i \in Multi!Slots : i \in 0 .. Size
    BY SizeAssumption DEF Multi!Slots
  <2>4. CASE Multi!clear
    <3>1. mstart' \in Multi!Slots
      <4>1. CASE mcount = 0
        BY <2>2, <2>4, <4>1 DEF Multi!clear
      <4>2. CASE mcount # 0
        <5>1. \A j \in Multi!Slots : j \in Multi!Taken <=> mitems[j] # NULL
          BY DEF Multi!Taken
        <5>2. Len(minside) # 0
          BY <2>1, <4>2
        <5>3. Multi!FirstOf(Multi!Taken, mstart) = Multi!Onward(mstart, at[1])
          <6>1. PICK to, sx : to = [n \in 1 .. Len(minside) |-> at[n] - at[1]] /\ sx = Multi!Onward(mstart, at[1])
            OBVIOUS
          <6>2. QED
            BY <2>1, <5>1, <5>2, <6>1, StartLies
        <5>4. at[1] \in Multi!Slots
          <6>1. 1 \in 1 .. Len(minside)
            BY <2>1, <5>2, LiesIs
          <6>2. QED
            BY <2>1, <6>1, LiesIs
        <5>5. Multi!Onward(mstart, at[1]) \in Multi!Slots
          BY <2>2, <5>4, OnwardIs
        <5>6. QED
          BY <2>4, <4>2, <5>3, <5>5 DEF Multi!clear
      <4>3. QED
        BY <4>1, <4>2
    <3>2. mindex' = mstart' /\ mend' = mend /\ Multi!ReadAll
      BY <2>4 DEF Multi!clear
    <3>3. QED
      BY <1>5, <2>2, <2>3, <3>1, <3>2, ReadAllMulti
  <2>5. CASE Multi!reset
    <3>1. mstart' = 0 /\ mend' = 0 /\ mindex' = 0 /\ Multi!ReadAll
      BY <2>5 DEF Multi!reset
    <3>2. 0 \in Multi!Slots
      BY SizeAssumption DEF Multi!Slots
    <3>3. QED
      BY <1>5, <2>3, <3>1, <3>2, ReadAllMulti
  <2>6. QED
    BY <1>5, <2>4, <2>5
<1>6. CASE UNCHANGED Multi!vars
  BY <1>6 DEF Multi!vars, MultiInv
<1>7. QED
  BY <1>1, <1>2, <1>3, <1>4, <1>5, <1>6 DEF Multi!Next

LEMMA MultiInvReads == MultiInv => ReadsInOrder
<1> SUFFICES ASSUME MultiInv, ~ passed PROVE mread = due /\ mcount = Len(minside) /\ Multi!Holds(minside)
  BY DEF ReadsInOrder, Multi!ReadsInOrder
<1>1. mread = due /\ mcount = Len(minside) /\ \E o, at : Lies(mitems, mstart, mend, minside, o, at)
  BY MultiInvIs
<1>2. QED
  BY <1>1, LiesHolds

\* The multi-reader puffer, for any length and any items: until a write passes the oldest
\* item, whatever reads have left of it, every read returns the item behind the mplus
\* oldest ones, no item is lost and their order is kept.
THEOREM MultiPufferReadsInOrder == Multi!Spec => []ReadsInOrder
BY InitMulti, NextMulti, MultiInvReads, PTL DEF Multi!Spec
=============================================================================
