--------------------------- MODULE RecorderProofs ---------------------------
(***************************************************************************)
(* Recorder for puffers and pools of every size.  For any number of        *)
(* listeners: the types, and the signals between relayer and filewriter.   *)
(* For one listener, the only case that the relayer's single mxrecord per  *)
(* round is right for: who owns an mxrecord, and what gets into the files. *)
(***************************************************************************)
EXTENDS Recorder, SequenceTheorems, TLAPS

\* The relayer is inside of a round, has filled its mxrecord; the filewriter has one.
Busy == relayer \in {"request", "receive", "waiting", "woken", "startled"}
Filled == relayer \in {"receive", "waiting", "woken", "startled"}
Writes == writer \in {"update", "aggregate", "recycle"}

\* Both threads are lost at once, and each has an mxrecord when its next call needs one.
Pointers ==
    /\ relayer = "lost" <=> writer = "lost"
    /\ Busy => mxrecord \in MxRecords
    /\ relayer = "demand" => mxrecord = NoRecord
    /\ writer # "lost" => (Writes <=> writing # NoRecord)

\* Is listener l ahead of the others in this round?
Ahead(l) == relayer = "sleep" \/ l < listener_id \/ (Filled /\ l = listener_id)

\* In the round r every listener was sampled r times, and once more if it is ahead.
Rounds ==
    /\ relayer \in {"demand", "sleep"} => listener_id = 0
    /\ relayer # "lost" =>
          \E r \in 0 .. MaxRounds - 1 : \A l \in Listeners :
              sampled[l] = IF Ahead(l) THEN r + 1 ELSE r

IInv == TypeOK /\ Pointers /\ Rounds /\ SignalsAreTrue

LEMMA Constants ==
    /\ ListenerNum \in Nat \ {0} /\ PufferSize \in Nat \ {0} /\ PoolSize \in Nat \ {0}
    /\ MaxRounds \in Nat \ {0} /\ Aggregating \subseteq Listeners
    /\ NoRecord \notin MxRecords /\ NoFile \notin Listeners
    /\ 0 \in Listeners /\ Listeners \subseteq Files /\ NoFile \in Files
    /\ Listeners = 0 .. ListenerNum - 1
BY ConstantsAssumption DEF Listeners, Files

\* An mxrecord as TypeOK has it.
Content == [features_output : Files, aggregation_path : Files, features : 0 .. MaxRounds,
            append_output : BOOLEAN, save_aggregations : BOOLEAN]

LEMMA CleanIsContent == Clean \in Content
BY Constants DEF Clean, Content

\* Taking the oldest item out, and putting one behind the others.
LEMMA TailKeepsType ==
    ASSUME NEW s \in Seq(MxRecords), s # << >>
    PROVE  /\ Head(s) \in MxRecords /\ Tail(s) \in Seq(MxRecords)
           /\ Len(s) \in Nat /\ Len(s) > 0 /\ Len(Tail(s)) = Len(s) - 1
           /\ Head(s) = s[1] /\ \A i \in 1 .. Len(s) - 1 : Tail(s)[i] = s[i + 1]
BY HeadTailProperties, EmptySeq, LenProperties

LEMMA AppendKeepsType ==
    ASSUME NEW S, NEW s \in Seq(S), NEW m \in S
    PROVE  /\ Append(s, m) \in Seq(S)
           /\ Len(s) \in Nat /\ Len(Append(s, m)) = Len(s) + 1
           /\ Append(s, m) # << >>
           /\ Append(s, m)[Len(s) + 1] = m
           /\ \A i \in 1 .. Len(s) : Append(s, m)[i] = s[i]
<1>1. /\ Append(s, m) \in Seq(S) /\ Len(Append(s, m)) = Len(s) + 1 /\ Len(s) \in Nat
      /\ Append(s, m)[Len(s) + 1] = m
      /\ \A i \in 1 .. Len(s) : Append(s, m)[i] = s[i]
  BY AppendProperties, LenProperties
<1>2. Append(s, m) # << >>
  BY <1>1, EmptySeq
<1>3. QED
  BY <1>1, <1>2

-----------------------------------------------------------------------------
(***************************************************************************)
(* For any number of listeners.                                            *)
(***************************************************************************)
LEMMA InitIInv == Init => IInv
<1> SUFFICES ASSUME Init PROVE IInv
  OBVIOUS
<1>1. \A S : << >> \in Seq(S) /\ Len(<< >>) = 0
  BY EmptySeq
<1>2. TypeOK
  BY <1>1, Constants, CleanIsContent DEF Init, TypeOK, Content, Files
<1>3. Pointers
  BY DEF Init, Pointers, Busy, Writes
<1>4. Rounds
  <2>1. \A l \in Listeners : sampled[l] = 0 /\ ~ Ahead(l)
    BY Constants DEF Init, Ahead, Filled
  <2>2. 0 \in 0 .. MaxRounds - 1
    BY Constants
  <2>3. QED
    BY <2>1, <2>2 DEF Init, Rounds
<1>5. SignalsAreTrue
  BY DEF Init, SignalsAreTrue
<1>6. QED
  BY <1>2, <1>3, <1>4, <1>5 DEF IInv

\* What Rounds says does not change while the relayer stays in one half of its loop.
LEMMA RoundsStay ==
    ASSUME Rounds, UNCHANGED <<listener_id, sampled>>,
           relayer' = "lost" \/ (relayer # "lost" /\ Filled' = Filled /\ (relayer' = "sleep" <=> relayer = "sleep")
                                 /\ (relayer' = "demand" <=> relayer = "demand"))
    PROVE  Rounds'
BY DEF Rounds, Ahead

LEMMA DemandIInv == ASSUME IInv, Demand PROVE IInv'
<1>1. PICK m \in MxRecords :
         /\ IF pool = << >>
            THEN heap' = heap \cup {m} /\ pool' = pool /\ content' = [content EXCEPT ![m] = Clean]
            ELSE m = Head(pool) /\ pool' = Tail(pool) /\ UNCHANGED <<heap, content>>
         /\ mxrecord' = m
  BY DEF Demand
<1>2. /\ relayer = "demand" /\ relayer' = "request"
      /\ UNCHANGED <<writer, listener_id, writing, puffer, append_output, sampled, output,
                     aggregation, rows>>
  BY DEF Demand, table, files
<1>3. pool' \in Seq(MxRecords) /\ Len(pool') <= PoolSize
  <2>1. CASE pool = << >>
    BY <1>1, <2>1 DEF IInv, TypeOK
  <2>2. CASE pool # << >>
    <3>1. pool \in Seq(MxRecords) /\ Len(pool) <= PoolSize /\ pool' = Tail(pool)
      BY <1>1, <2>2 DEF IInv, TypeOK
    <3>2. QED
      BY <2>2, <3>1, TailKeepsType, Constants
  <2>3. QED
    BY <2>1, <2>2
<1>4. content' \in [MxRecords -> Content] /\ heap' \subseteq MxRecords
  BY <1>1, CleanIsContent DEF IInv, TypeOK, Content
<1>5. TypeOK'
  BY <1>1, <1>2, <1>3, <1>4 DEF IInv, TypeOK, Content
<1>6. Pointers'
  BY <1>1, <1>2, Constants DEF IInv, Pointers, Busy, Writes
<1>7. Rounds'
  BY <1>2 DEF IInv, Rounds, Ahead, Filled
<1>8. SignalsAreTrue'
  BY <1>2 DEF IInv, SignalsAreTrue
<1>9. QED
  BY <1>5, <1>6, <1>7, <1>8 DEF IInv

LEMMA RequestIInv == ASSUME IInv, Request PROVE IInv'
<1>1. /\ relayer = "request" /\ relayer' = "receive"
      /\ sampled' = [sampled EXCEPT ![listener_id] = sampled[listener_id] + 1]
      /\ content' = [content EXCEPT ![mxrecord] =
             Sample(content[mxrecord], append_output[listener_id], listener_id \in Aggregating)]
      /\ append_output' = [append_output EXCEPT ![listener_id] = TRUE]
      /\ UNCHANGED <<writer, listener_id, mxrecord, writing, heap, pool, puffer, output,
                     aggregation, rows>>
  BY DEF Request, files
<1>2. /\ listener_id \in Listeners /\ mxrecord \in MxRecords
      /\ sampled \in [Listeners -> 0 .. MaxRounds] /\ content \in [MxRecords -> Content]
      /\ append_output \in [Listeners -> BOOLEAN]
  BY <1>1 DEF IInv, TypeOK, Pointers, Busy, Content
<1>3. PICK r \in 0 .. MaxRounds - 1 : \A l \in Listeners :
          sampled[l] = IF Ahead(l) THEN r + 1 ELSE r
  BY <1>1 DEF IInv, Rounds
<1>4. sampled[listener_id] = r
  BY <1>1, <1>2, <1>3, Constants DEF Ahead, Filled
<1>5. sampled' \in [Listeners -> 0 .. MaxRounds] /\ sampled[listener_id] + 1 \in 0 .. MaxRounds
  BY <1>1, <1>2, <1>4, Constants
<1>6. Sample(content[mxrecord], append_output[listener_id], listener_id \in Aggregating) \in Content
  BY <1>2, <1>5, Constants DEF Sample, Content
<1>7. TypeOK'
  BY <1>1, <1>2, <1>5, <1>6 DEF IInv, TypeOK, Content
<1>8. Pointers' /\ SignalsAreTrue'
  BY <1>1 DEF IInv, Pointers, Busy, Writes, SignalsAreTrue
<1>9. Rounds'
  <2>1. \A l \in Listeners : sampled'[l] = IF Ahead(l)' THEN r + 1 ELSE r
    BY <1>1, <1>2, <1>3, <1>4, Constants DEF Ahead, Filled
  <2>2. QED
    BY <1>1, <2>1 DEF Rounds
<1>10. QED
  BY <1>7, <1>8, <1>9 DEF IInv

\* A write into a puffer with room.
LEMMA PutInIInv ==
    ASSUME IInv, Filled, Len(puffer) < PufferSize, relayer # "waiting", PutIn
    PROVE  IInv'
<1>1. /\ puffer' = Append(puffer, mxrecord)
      /\ writer' = IF puffer = << >> /\ writer = "waiting" THEN "woken" ELSE writer
      /\ UNCHANGED <<mxrecord, writing, content, heap, pool, append_output, sampled, output,
                     aggregation, rows>>
  BY DEF PutIn, table, files
<1>2. \/ listener_id + 1 < ListenerNum /\ listener_id' = listener_id + 1 /\ relayer' = "request"
      \/ ~ (listener_id + 1 < ListenerNum) /\ listener_id' = 0 /\ relayer' = "sleep"
  BY DEF PutIn
<1>3. /\ listener_id \in Listeners /\ mxrecord \in MxRecords /\ puffer \in Seq(MxRecords)
      /\ relayer \notin {"lost", "sleep", "demand"}
  BY DEF IInv, TypeOK, Pointers, Busy, Filled
<1>4. /\ puffer' \in Seq(MxRecords) /\ Len(puffer') <= PufferSize /\ puffer' # << >>
      /\ Len(puffer') \in Nat /\ Len(puffer) \in Nat
  BY <1>1, <1>3, AppendKeepsType, Constants
<1>5. listener_id' \in Listeners
  BY <1>2, <1>3, Constants
<1>6. TypeOK'
  BY <1>1, <1>2, <1>4, <1>5 DEF IInv, TypeOK
<1>7. Pointers'
  BY <1>1, <1>2, <1>3 DEF IInv, Pointers, Busy, Writes
<1>8. SignalsAreTrue'
  BY <1>1, <1>2, <1>4 DEF IInv, SignalsAreTrue
<1>9. Rounds'
  <2>1. PICK r \in 0 .. MaxRounds - 1 : \A l \in Listeners :
            sampled[l] = IF Ahead(l) THEN r + 1 ELSE r
    BY <1>3 DEF IInv, Rounds
  <2>2. \A l \in Listeners : Ahead(l)' <=> Ahead(l)
    BY <1>2, <1>3, Constants DEF Ahead, Filled
  <2>3. QED
    BY <1>1, <1>2, <2>1, <2>2 DEF Rounds
<1>10. QED
  BY <1>6, <1>7, <1>8, <1>9 DEF IInv

LEMMA GetLostIInv == ASSUME IInv, GetLost PROVE IInv'
<1>1. /\ relayer' = "lost" /\ writer' = "lost"
      /\ UNCHANGED <<listener_id, mxrecord, writing, content, heap, pool, puffer,
                     append_output, sampled, output, aggregation, rows>>
  BY DEF GetLost, table, files
<1>2. TypeOK' /\ Pointers' /\ SignalsAreTrue' /\ Rounds'
  BY <1>1 DEF IInv, TypeOK, Pointers, Busy, Writes, SignalsAreTrue, Rounds
<1>3. QED
  BY <1>2 DEF IInv

LEMMA ReceiveIInv == ASSUME IInv, Receive \/ ReceiveWoken PROVE IInv'
<1>1. Len(puffer) \in Nat /\ Len(puffer) <= PufferSize
  BY LenProperties DEF IInv, TypeOK
<1>2. CASE Receive /\ Len(puffer) = PufferSize
  <2>1. /\ relayer = "receive" /\ relayer' = "waiting"
        /\ UNCHANGED <<writer, listener_id, mxrecord, writing, content, heap, pool, puffer,
                       append_output, sampled, output, aggregation, rows>>
    BY <1>2 DEF Receive, table, files
  <2>2. TypeOK' /\ Pointers' /\ SignalsAreTrue'
    BY <1>2, <2>1 DEF IInv, TypeOK, Pointers, Busy, Writes, SignalsAreTrue
  <2>3. Rounds'
    BY <2>1, RoundsStay DEF IInv, Filled
  <2>4. QED
    BY <2>2, <2>3 DEF IInv
<1>3. CASE ReceiveWoken /\ Len(puffer) = PufferSize
  BY <1>3, GetLostIInv DEF ReceiveWoken
<1>4. CASE Len(puffer) # PufferSize
  <2>1. Filled /\ relayer # "waiting" /\ PutIn
    BY <1>4 DEF Receive, ReceiveWoken, Filled
  <2>2. QED
    BY <1>1, <1>4, <2>1, PutInIInv, Constants
<1>5. QED
  BY <1>2, <1>3, <1>4

LEMMA SleepIInv == ASSUME IInv, Sleep PROVE IInv'
<1>1. /\ relayer = "sleep" /\ sampled[0] < MaxRounds /\ relayer' = "demand" /\ mxrecord' = NoRecord
      /\ UNCHANGED <<writer, listener_id, writing, content, heap, pool, puffer,
                     append_output, sampled, output, aggregation, rows>>
  BY DEF Sleep, table, files
<1>2. TypeOK' /\ Pointers' /\ SignalsAreTrue'
  BY <1>1 DEF IInv, TypeOK, Pointers, Busy, Writes, SignalsAreTrue
<1>3. Rounds'
  <2>1. PICK r \in 0 .. MaxRounds - 1 : \A l \in Listeners : sampled[l] = r + 1
    BY <1>1 DEF IInv, Rounds, Ahead
  <2>2. r + 1 \in 0 .. MaxRounds - 1
    BY <1>1, <2>1, Constants
  <2>3. listener_id' = 0 /\ \A l \in Listeners : ~ Ahead(l)'
    BY <1>1, Constants DEF IInv, Rounds, Ahead, Filled
  <2>4. QED
    BY <1>1, <2>1, <2>2, <2>3 DEF Rounds
<1>4. QED
  BY <1>2, <1>3 DEF IInv

\* A read from a puffer with an mxrecord.
LEMMA TakeOutIInv ==
    ASSUME IInv, puffer # << >>, writer \in {"take", "woken", "startled"}, TakeOut
    PROVE  IInv'
<1>1. /\ writing' = Head(puffer) /\ puffer' = Tail(puffer) /\ writer' = "update"
      /\ relayer' = IF Len(puffer) = PufferSize /\ relayer = "waiting" THEN "woken" ELSE relayer
      /\ UNCHANGED <<listener_id, mxrecord, content, heap, pool, append_output, sampled, output,
                     aggregation, rows>>
  BY DEF TakeOut, table, files
<1>2. /\ Head(puffer) \in MxRecords /\ Tail(puffer) \in Seq(MxRecords)
      /\ Len(puffer) \in Nat /\ Len(Tail(puffer)) = Len(puffer) - 1
      /\ Len(puffer) <= PufferSize /\ Len(puffer) > 0
  BY TailKeepsType DEF IInv, TypeOK
<1>2a. /\ writing' \in MxRecords /\ puffer' \in Seq(MxRecords)
      /\ Len(puffer') = Len(puffer) - 1 /\ PufferSize \in Nat
  BY <1>1, <1>2, Constants
<1>3. TypeOK'
  <2>1. Len(puffer') <= PufferSize
    BY <1>2, <1>2a
  <2>2. relayer' \in {relayer, "woken"}
    BY <1>1
  <2>3. QED
    BY <1>1, <1>2a, <2>1, <2>2 DEF IInv, TypeOK
<1>4. Pointers'
  BY <1>1, <1>2, Constants DEF IInv, TypeOK, Pointers, Busy, Writes
<1>5. SignalsAreTrue'
  <2>2. Len(puffer') < PufferSize
    BY <1>2, <1>2a
  <2>3. relayer' # "waiting" /\ writer' = "update"
    BY <1>1 DEF IInv, SignalsAreTrue
  <2>4. QED
    BY <2>2, <2>3 DEF SignalsAreTrue
<1>6. Rounds'
  <2>1. Filled' = Filled /\ relayer # "lost"
    BY <1>1 DEF Filled, IInv, Pointers
  <2>2. QED
    BY <1>1, <2>1, RoundsStay DEF IInv
<1>7. QED
  BY <1>3, <1>4, <1>5, <1>6 DEF IInv

LEMMA SupplyIInv == ASSUME IInv, Supply \/ SupplyWoken PROVE IInv'
<1>1. CASE Supply /\ puffer = << >>
  <2>1. /\ writer = "take" /\ writer' = "waiting"
        /\ UNCHANGED <<relayer, listener_id, mxrecord, writing, content, heap, pool, puffer,
                       append_output, sampled, output, aggregation, rows>>
    BY <1>1 DEF Supply, table, files
  <2>2. TypeOK' /\ Pointers' /\ SignalsAreTrue'
    BY <1>1, <2>1 DEF IInv, TypeOK, Pointers, Busy, Writes, SignalsAreTrue
  <2>3. Rounds'
    BY <2>1, RoundsStay DEF IInv, Filled, Pointers
  <2>4. QED
    BY <2>2, <2>3 DEF IInv
<1>2. CASE SupplyWoken /\ puffer = << >>
  BY <1>2, GetLostIInv DEF SupplyWoken
<1>3. CASE puffer # << >>
  <2>1. TakeOut /\ writer \in {"take", "woken", "startled"}
    BY <1>3 DEF Supply, SupplyWoken
  <2>2. QED
    BY <1>3, <2>1, TakeOutIInv
<1>4. QED
  BY <1>1, <1>2, <1>3

LEMMA WriteIInv == ASSUME IInv, Update \/ Aggregate PROVE IInv'
<1>1. /\ writer \in {"update", "aggregate"} /\ writer' \in {"aggregate", "recycle"}
      /\ UNCHANGED <<relayer, listener_id, mxrecord, writing, content, heap, pool, puffer,
                     append_output, sampled>>
  BY DEF Update, Aggregate, table
<1>2. /\ writing \in MxRecords /\ content[writing] \in Content /\ relayer # "lost"
  BY <1>1 DEF IInv, TypeOK, Pointers, Writes, Content
<1>3. /\ output' \in [Files -> Seq(0 .. MaxRounds)] /\ rows' \in [Files -> Seq(0 .. MaxRounds)]
      /\ aggregation' \in [Files -> Files \X (0 .. MaxRounds)]
  <2>1. CASE Update
    <3> DEFINE row == content[writing].features
               file == content[writing].features_output
    <3>1. row \in 0 .. MaxRounds /\ file \in Files
      BY <1>2 DEF Content
    <3>2. /\ output' = [output EXCEPT ![file] =
                 IF content[writing].append_output THEN Append(output[file], row) ELSE <<row>>]
          /\ rows' = [rows EXCEPT ![file] = Append(rows[file], row)]
          /\ aggregation' = aggregation
      BY <2>1 DEF Update
    <3> HIDE DEF row, file
    <3>3. output[file] \in Seq(0 .. MaxRounds) /\ rows[file] \in Seq(0 .. MaxRounds)
      BY <3>1 DEF IInv, TypeOK
    <3>4. /\ Append(output[file], row) \in Seq(0 .. MaxRounds) /\ <<row>> \in Seq(0 .. MaxRounds)
          /\ Append(rows[file], row) \in Seq(0 .. MaxRounds)
      BY <3>1, <3>3, AppendKeepsType
    <3>5. QED
      BY <3>1, <3>2, <3>4 DEF IInv, TypeOK
  <2>2. CASE Aggregate
    BY <1>2, <2>2 DEF Aggregate, IInv, TypeOK, Content
  <2>3. QED
    BY <2>1, <2>2
<1>4. TypeOK'
  BY <1>1, <1>3 DEF IInv, TypeOK
<1>5. Pointers' /\ SignalsAreTrue'
  BY <1>1 DEF IInv, Pointers, Busy, Writes, SignalsAreTrue
<1>6. Rounds'
  BY <1>1, <1>2, RoundsStay DEF IInv, Filled
<1>7. QED
  BY <1>4, <1>5, <1>6 DEF IInv

LEMMA RecycleIInv == ASSUME IInv, Recycle PROVE IInv'
<1>1. /\ writer = "recycle" /\ writer' = "take" /\ writing' = NoRecord
      /\ IF Len(pool) = PoolSize
         THEN heap' = heap \ {writing} /\ UNCHANGED <<pool, content>>
         ELSE /\ content' = [content EXCEPT ![writing] = Clean]
              /\ pool' = Append(pool, writing) /\ UNCHANGED heap
      /\ UNCHANGED <<relayer, listener_id, mxrecord, puffer, append_output, sampled, output,
                     aggregation, rows>>
  BY DEF Recycle, table, files
<1>2. writing \in MxRecords /\ relayer # "lost"
  BY <1>1 DEF IInv, TypeOK, Pointers, Writes
<1>3. /\ pool' \in Seq(MxRecords) /\ Len(pool') <= PoolSize /\ heap' \subseteq MxRecords
      /\ content' \in [MxRecords -> Content]
  <2>1. CASE Len(pool) = PoolSize
    BY <1>1, <2>1 DEF IInv, TypeOK, Content
  <2>2. CASE Len(pool) # PoolSize
    <3>1. pool \in Seq(MxRecords) /\ Len(pool) <= PoolSize /\ pool' = Append(pool, writing)
      BY <1>1, <2>2 DEF IInv, TypeOK
    <3>2. pool' \in Seq(MxRecords) /\ Len(pool') <= PoolSize
      BY <1>2, <2>2, <3>1, AppendKeepsType, Constants
    <3>3. QED
      BY <1>1, <2>2, <3>2, CleanIsContent DEF IInv, TypeOK, Content
  <2>3. QED
    BY <2>1, <2>2
<1>4. TypeOK'
  BY <1>1, <1>3 DEF IInv, TypeOK, Content
<1>5. Pointers' /\ SignalsAreTrue'
  BY <1>1, <1>2, Constants DEF IInv, Pointers, Busy, Writes, SignalsAreTrue
<1>6. Rounds'
  BY <1>1, <1>2, RoundsStay DEF IInv, Filled
<1>7. QED
  BY <1>4, <1>5, <1>6 DEF IInv

LEMMA SpuriousIInv == ASSUME IInv, SpuriousWakeup PROVE IInv'
<1>1. /\ \/ relayer = "waiting" /\ relayer' = "startled" /\ UNCHANGED writer
         \/ writer = "waiting" /\ writer' = "startled" /\ UNCHANGED relayer
      /\ UNCHANGED <<listener_id, mxrecord, writing, content, heap, pool, puffer,
                     append_output, sampled, output, aggregation, rows>>
  BY DEF SpuriousWakeup, table, files
<1>2. TypeOK' /\ Pointers' /\ SignalsAreTrue'
  BY <1>1 DEF IInv, TypeOK, Pointers, Busy, Writes, SignalsAreTrue
<1>3. Rounds'
  BY <1>1, RoundsStay DEF IInv, Filled, Pointers
<1>4. QED
  BY <1>2, <1>3 DEF IInv

LEMMA StutterIInv == ASSUME IInv, UNCHANGED vars PROVE IInv'
<1>1. TypeOK' /\ Pointers' /\ SignalsAreTrue'
  BY DEF vars, IInv, TypeOK, Pointers, Busy, Writes, SignalsAreTrue
<1>2. Rounds'
  BY DEF vars, IInv, Rounds, Ahead, Filled
<1>3. QED
  BY <1>1, <1>2 DEF IInv

LEMMA NextIInv == IInv /\ [Next]_vars => IInv'
BY DemandIInv, RequestIInv, ReceiveIInv, SleepIInv, SupplyIInv, WriteIInv, RecycleIInv,
   SpuriousIInv, StutterIInv
   DEF Next, RelayerStep, WriterStep, Lost, Finished

LEMMA Invariance == Spec => []IInv
BY InitIInv, NextIInv, PTL DEF Spec

\* Every field keeps its type: no sample has a number behind the last round, and
\* neither puffer grows over its ring, whatever wakes the threads up.
THEOREM TypeCorrect == Spec => []TypeOK
<1>1. IInv => TypeOK
  BY DEF IInv
<1>2. QED
  BY <1>1, Invariance, PTL

\* One signal_t for both sides of the signalled puffer is enough: a thread that was
\* signalled finds what it waited for, and none waits for what is there.
THEOREM OneSignalServesBoth == Spec => []SignalsAreTrue
<1>1. IInv => SignalsAreTrue
  BY DEF IInv
<1>2. QED
  BY <1>1, Invariance, PTL

-----------------------------------------------------------------------------
(***************************************************************************)
(* For one listener.  Has and Distinct hide the indices of a sequence.     *)
(***************************************************************************)
Has(s, m) == \E i \in 1 .. Len(s) : s[i] = m
Distinct(s) == \A i, j \in 1 .. Len(s) : s[i] = s[j] => i = j

\* The relayer has an mxrecord for itself.
Keeps(m) == mxrecord = m /\ relayer # "sleep"

\* OneOwner, with the indices hidden.
Owned ==
    /\ Distinct(pool) /\ Distinct(puffer)
    /\ \A m \in MxRecords :
         /\ ~ (Keeps(m) /\ writing = m)
         /\ ~ (Keeps(m) /\ Has(pool, m)) /\ ~ (Keeps(m) /\ Has(puffer, m))
         /\ ~ (writing = m /\ Has(pool, m)) /\ ~ (writing = m /\ Has(puffer, m))
         /\ ~ (Has(pool, m) /\ Has(puffer, m))
         /\ m \in heap <=> Keeps(m) \/ writing = m \/ Has(pool, m) \/ Has(puffer, m)

\* An mxrecord with the n-th sample of the one listener.
NthSample(n) ==
    [features_output |-> 0, aggregation_path |-> IF 0 \in Aggregating THEN 0 ELSE NoFile,
     features |-> n, append_output |-> n > 1, save_aggregations |-> 0 \in Aggregating]

\* How many rows are written once the filewriter is done with its mxrecord.
Due == Len(output[0]) + (IF writer = "update" THEN 1 ELSE 0)

\* The samples that were taken and are not yet written are on their way in order: in the
\* filewriter's hand, in the puffer, in the relayer's hand.  Mxrecords in the pool are clean.
InOrder ==
    /\ writer = "update" => content[writing] = NthSample(Len(output[0]) + 1)
    /\ writer = "aggregate" => content[writing] = NthSample(Len(output[0]))
    /\ writer = "aggregate" => 0 \in Aggregating /\ Len(output[0]) > 0
    /\ \A i \in 1 .. Len(puffer) : content[puffer[i]] = NthSample(Due + i)
    /\ Filled => content[mxrecord] = NthSample(Due + Len(puffer) + 1)
    /\ sampled[0] = Due + Len(puffer) + (IF Filled THEN 1 ELSE 0)
    /\ append_output[0] <=> sampled[0] > 0
    /\ relayer = "request" => content[mxrecord] = Clean
    /\ \A i \in 1 .. Len(pool) : content[pool[i]] = Clean

\* What is in the files, also after the program is lost.
FilesAreRight == EveryRowInItsFile /\ AggregationFollowsOutput

OneListener ==
    /\ relayer # "lost" => Owned /\ InOrder
    /\ FilesAreRight

LEMMA One == ListenerNum = 1 => Listeners = {0} /\ 0 \notin Files \ {0} /\ NoFile # 0
BY Constants

LEMMA TailHas ==
    ASSUME NEW s \in Seq(MxRecords), s # << >>, Distinct(s)
    PROVE  /\ Has(s, Head(s)) /\ Distinct(Tail(s))
           /\ \A m : Has(Tail(s), m) <=> Has(s, m) /\ m # Head(s)
<1>1. /\ Head(s) = s[1] /\ Len(s) \in Nat /\ Len(s) > 0 /\ Len(Tail(s)) = Len(s) - 1
      /\ \A i \in 1 .. Len(s) - 1 : Tail(s)[i] = s[i + 1]
  BY TailKeepsType
<1>2. Has(s, Head(s))
  BY <1>1 DEF Has
<1>3. Distinct(Tail(s))
  BY <1>1 DEF Distinct
<1>4. ASSUME NEW m PROVE Has(Tail(s), m) <=> Has(s, m) /\ m # Head(s)
  <2>1. ASSUME NEW i \in 1 .. Len(s), s[i] = m, m # Head(s)
        PROVE  Has(Tail(s), m)
    <3>1. i - 1 \in 1 .. Len(s) - 1 /\ Tail(s)[i - 1] = m
      BY <1>1, <2>1
    <3>2. QED
      BY <1>1, <3>1 DEF Has
  <2>2. ASSUME NEW i \in 1 .. Len(s) - 1, Tail(s)[i] = m
        PROVE  Has(s, m) /\ m # Head(s)
    <3>1. i + 1 \in 1 .. Len(s) /\ s[i + 1] = m
      BY <1>1, <2>2
    <3>2. QED
      BY <1>1, <3>1 DEF Has, Distinct
  <2>3. QED
    BY <1>1, <2>1, <2>2 DEF Has
<1>5. QED
  BY <1>2, <1>3, <1>4

LEMMA AppendHas ==
    ASSUME NEW s \in Seq(MxRecords), NEW x \in MxRecords, Distinct(s), ~ Has(s, x)
    PROVE  /\ Distinct(Append(s, x))
           /\ \A m : Has(Append(s, x), m) <=> Has(s, m) \/ m = x
<1>1. /\ Len(Append(s, x)) = Len(s) + 1
      /\ Append(s, x)[Len(s) + 1] = x /\ Len(s) \in Nat
      /\ \A i \in 1 .. Len(s) : Append(s, x)[i] = s[i]
  BY AppendKeepsType
<1>2. \A i \in 1 .. Len(s) + 1 : i \in 1 .. Len(s) \/ i = Len(s) + 1
  BY <1>1
<1>3. Distinct(Append(s, x))
  BY <1>1, <1>2 DEF Distinct, Has
<1>4. \A i \in 1 .. Len(s) : i \in 1 .. Len(s) + 1
  BY <1>1
<1>5. Len(s) + 1 \in 1 .. Len(s) + 1
  BY <1>1
<1>6. ASSUME NEW m PROVE Has(Append(s, x), m) <=> Has(s, m) \/ m = x
  BY <1>1, <1>2, <1>4, <1>5 DEF Has
<1>7. QED
  BY <1>3, <1>6

\* What is known of a state before a step of the one listener's recorder.
LEMMA Known ==
    ASSUME IInv, OneListener, ListenerNum = 1, relayer # "lost"
    PROVE  /\ Owned /\ InOrder /\ FilesAreRight /\ TypeOK /\ Pointers
           /\ listener_id = 0 /\ writer # "lost"
           /\ pool \in Seq(MxRecords) /\ puffer \in Seq(MxRecords)
           /\ Len(pool) \in Nat /\ Len(puffer) \in Nat /\ Len(output[0]) \in Nat
           /\ output[0] \in Seq(0 .. MaxRounds) /\ sampled[0] \in Nat /\ Due \in Nat
           /\ content \in [MxRecords -> Content]
<1>1. listener_id = 0 /\ 0 \in Files
  BY One, Constants DEF IInv, TypeOK
<1>2. pool \in Seq(MxRecords) /\ puffer \in Seq(MxRecords) /\ output[0] \in Seq(0 .. MaxRounds)
  BY <1>1 DEF IInv, TypeOK
<1>3. Len(pool) \in Nat /\ Len(puffer) \in Nat /\ Len(output[0]) \in Nat
  BY <1>2, LenProperties
<1>4. sampled[0] \in Nat /\ Due \in Nat
  BY <1>3, Constants DEF IInv, TypeOK, Due
<1>5. Owned /\ InOrder /\ FilesAreRight /\ TypeOK /\ Pointers
  BY DEF OneListener, IInv
<1>6. writer # "lost" /\ content \in [MxRecords -> Content]
  BY <1>5 DEF Pointers, TypeOK, Content
<1>7. QED
  BY <1>1, <1>2, <1>3, <1>4, <1>5, <1>6

LEMMA InitOne == Init /\ ListenerNum = 1 => OneListener
<1> SUFFICES ASSUME Init, ListenerNum = 1 PROVE OneListener
  OBVIOUS
<1>1. Len(<< >>) = 0 /\ \A m : ~ Has(<< >>, m)
  BY EmptySeq DEF Has
<1>2. Owned
  BY <1>1, Constants DEF Init, Owned, Distinct, Keeps
<1>3. output[0] = << >> /\ sampled[0] = 0 /\ append_output[0] = FALSE
  BY Constants DEF Init, Files
<1>4. InOrder
  BY <1>1, <1>3 DEF Init, InOrder, Due, Filled
<1>5. FilesAreRight
  BY <1>1, One, Constants DEF Init, FilesAreRight, EveryRowInItsFile, AggregationFollowsOutput, Files
<1>6. QED
  BY <1>2, <1>4, <1>5 DEF OneListener

\* The files are left alone, and the filewriter's aggregation is not begun.
LEMMA FilesStay ==
    ASSUME FilesAreRight, UNCHANGED files,
           writer' \in {"aggregate", "lost"} \/ writer \notin {"aggregate", "lost"}
    PROVE  FilesAreRight'
BY DEF FilesAreRight, EveryRowInItsFile, AggregationFollowsOutput, files

LEMMA DemandOne == ASSUME IInv, OneListener, ListenerNum = 1, Demand PROVE OneListener'
<1>1. PICK m \in MxRecords :
         /\ IF pool = << >>
            THEN /\ m \notin heap /\ heap' = heap \cup {m} /\ pool' = pool
                 /\ content' = [content EXCEPT ![m] = Clean]
            ELSE m = Head(pool) /\ pool' = Tail(pool) /\ UNCHANGED <<heap, content>>
         /\ mxrecord' = m
  BY DEF Demand
<1>2. /\ relayer = "demand" /\ relayer' = "request"
      /\ UNCHANGED <<writer, listener_id, writing, puffer, append_output, sampled, output,
                     aggregation, rows>>
  BY DEF Demand, table, files
<1>3. /\ Owned /\ InOrder /\ FilesAreRight /\ writer # "lost" /\ mxrecord = NoRecord
      /\ pool \in Seq(MxRecords) /\ puffer \in Seq(MxRecords) /\ content \in [MxRecords -> Content]
      /\ Len(pool) \in Nat /\ Len(puffer) \in Nat
  BY <1>2, Known DEF Pointers
<1>4. /\ \A x \in MxRecords : ~ Keeps(x)
      /\ \A x \in MxRecords : Keeps(x)' <=> x = m
  BY <1>1, <1>2, <1>3, Constants DEF Keeps
<1>5. /\ ~ Has(puffer, m) /\ writing # m /\ ~ Has(pool', m) /\ Distinct(pool') /\ heap' = heap \cup {m}
      /\ \A x \in MxRecords \ {m} : Has(pool', x) <=> Has(pool, x)
      /\ content'[m] = Clean
      /\ \A x \in MxRecords \ {m} : content'[x] = content[x]
      /\ \A i \in 1 .. Len(pool') : content'[pool'[i]] = Clean
  <2>1. CASE pool = << >>
    <3>1. ~ Has(pool, m) /\ m \notin heap /\ pool' = pool /\ heap' = heap \cup {m}
          /\ content' = [content EXCEPT ![m] = Clean]
      BY <1>1, <2>1, EmptySeq DEF Has
    <3>2. Len(pool) = 0
      BY <2>1, EmptySeq
    <3>3. \A i \in 1 .. Len(pool') : FALSE
      BY <3>1, <3>2
    <3>4. ~ Has(puffer, m) /\ writing # m
      BY <1>3, <3>1 DEF Owned
    <3>5. QED
      BY <1>3, <3>1, <3>3, <3>4 DEF Owned
  <2>2. CASE pool # << >>
    <3>1. m = Head(pool) /\ pool' = Tail(pool) /\ heap' = heap /\ content' = content
      BY <1>1, <2>2
    <3>2. /\ Has(pool, m) /\ Distinct(pool') /\ \A x : Has(pool', x) <=> Has(pool, x) /\ x # m
      BY <1>3, <2>2, <3>1, TailHas DEF Owned
    <3>3. /\ m = pool[1] /\ Len(pool') = Len(pool) - 1 /\ Len(pool) > 0
          /\ \A i \in 1 .. Len(pool) - 1 : pool'[i] = pool[i + 1]
      BY <1>3, <2>2, <3>1, TailKeepsType
    <3>4. ~ Has(puffer, m) /\ writing # m /\ m \in heap
      BY <1>3, <3>2 DEF Owned
    <3>5. \A i \in 1 .. Len(pool') : content'[pool'[i]] = Clean
      <4>1. \A i \in 1 .. Len(pool') : i + 1 \in 1 .. Len(pool) /\ pool'[i] = pool[i + 1]
        BY <1>3, <3>3
      <4>2. QED
        BY <1>3, <3>1, <4>1 DEF InOrder
    <3>6. content'[m] = Clean
      BY <1>3, <3>1, <3>3 DEF InOrder
    <3>7. QED
      BY <3>1, <3>2, <3>4, <3>5, <3>6
  <2>3. QED
    BY <2>1, <2>2
<1>6. Owned'
  BY <1>2, <1>3, <1>4, <1>5 DEF Owned
<1>7. InOrder'
  <2>1. \A i \in 1 .. Len(puffer) : puffer[i] \in MxRecords \ {m}
    BY <1>3, <1>5, LenProperties DEF Has
  <2>2. Due' = Due
    BY <1>2 DEF Due
  <2>3. writer \in {"update", "aggregate"} => writing \in MxRecords \ {m}
    BY <1>2, <1>5, Known DEF Pointers, Writes, TypeOK
  <2>4. QED
    BY <1>1, <1>2, <1>3, <1>5, <2>1, <2>2, <2>3 DEF InOrder, Filled, NthSample
<1>8. QED
  BY <1>2, <1>3, <1>6, <1>7, FilesStay DEF OneListener, files

LEMMA RequestOne == ASSUME IInv, OneListener, ListenerNum = 1, Request PROVE OneListener'
<1>1. /\ relayer = "request" /\ relayer' = "receive"
      /\ sampled' = [sampled EXCEPT ![listener_id] = sampled[listener_id] + 1]
      /\ content' = [content EXCEPT ![mxrecord] =
             Sample(content[mxrecord], append_output[listener_id], listener_id \in Aggregating)]
      /\ append_output' = [append_output EXCEPT ![listener_id] = TRUE]
      /\ UNCHANGED <<writer, listener_id, mxrecord, writing, heap, pool, puffer, output,
                     aggregation, rows>>
  BY DEF Request, files
<1>2. /\ Owned /\ InOrder /\ FilesAreRight /\ writer # "lost" /\ listener_id = 0
      /\ pool \in Seq(MxRecords) /\ puffer \in Seq(MxRecords) /\ content \in [MxRecords -> Content]
      /\ Len(pool) \in Nat /\ Len(puffer) \in Nat /\ sampled[0] \in Nat /\ Due \in Nat
      /\ mxrecord \in MxRecords
  BY <1>1, Known DEF Pointers, Busy
<1>3. /\ sampled'[0] = sampled[0] + 1 /\ append_output'[0] = TRUE
      /\ sampled[0] = Due + Len(puffer) /\ append_output[0] \in BOOLEAN
      /\ append_output[0] <=> sampled[0] > 0
  BY <1>1, <1>2, Constants DEF IInv, TypeOK, InOrder, Filled
<1>4. content'[mxrecord] = NthSample(Due + Len(puffer) + 1)
  <2>1. content[mxrecord] = Clean
    BY <1>1, <1>2 DEF InOrder
  <2>2. content'[mxrecord] = Sample(Clean, append_output[0], 0 \in Aggregating)
    BY <1>1, <1>2, <2>1
  <2>3. append_output[0] = (sampled[0] + 1 > 1)
    BY <1>2, <1>3
  <2>4. Sample(Clean, append_output[0], 0 \in Aggregating) = NthSample(sampled[0] + 1)
    BY <1>2, <2>3 DEF Sample, Clean, NthSample
  <2>5. QED
    BY <1>3, <2>2, <2>4
<1>5. Keeps(mxrecord) /\ \A m \in MxRecords : Keeps(m)' = Keeps(m)
  BY <1>1 DEF Keeps
<1>6. Owned'
  BY <1>1, <1>2, <1>5 DEF Owned
<1>7. /\ \A i \in 1 .. Len(puffer) : puffer[i] \in MxRecords \ {mxrecord}
      /\ \A i \in 1 .. Len(pool) : pool[i] \in MxRecords \ {mxrecord}
      /\ writing # mxrecord
  BY <1>2, <1>5, LenProperties DEF Owned, Has
<1>8. \A m \in MxRecords \cup {NoRecord} : m # mxrecord => content'[m] = content[m]
  BY <1>1, <1>2
<1>9. InOrder'
  <2>1. Due' = Due
    BY <1>1 DEF Due
  <2>2. writing \in MxRecords \cup {NoRecord}
    BY DEF IInv, TypeOK
  <2>3. /\ content'[writing] = content[writing]
        /\ \A i \in 1 .. Len(puffer) : content'[puffer[i]] = content[puffer[i]]
        /\ \A i \in 1 .. Len(pool) : content'[pool[i]] = content[pool[i]]
    BY <1>7, <1>8, <2>2
  <2>4. /\ Filled' /\ sampled'[0] > 0 /\ sampled'[0] = Due + Len(puffer) + 1
    BY <1>1, <1>2, <1>3 DEF Filled
  <2>5. QED
    BY <1>1, <1>2, <1>3, <1>4, <2>1, <2>3, <2>4 DEF InOrder, NthSample
<1>10. QED
  BY <1>1, <1>2, <1>6, <1>9, FilesStay DEF OneListener, files

LEMMA PutInOne ==
    ASSUME IInv, OneListener, ListenerNum = 1, Filled, PutIn
    PROVE  OneListener'
<1>1. /\ puffer' = Append(puffer, mxrecord)
      /\ writer' = IF puffer = << >> /\ writer = "waiting" THEN "woken" ELSE writer
      /\ UNCHANGED <<mxrecord, writing, content, heap, pool, append_output, sampled, output,
                     aggregation, rows>>
  BY DEF PutIn, table, files
<1>2. /\ Owned /\ InOrder /\ FilesAreRight /\ writer # "lost" /\ listener_id = 0 /\ relayer # "lost"
      /\ pool \in Seq(MxRecords) /\ puffer \in Seq(MxRecords) /\ content \in [MxRecords -> Content]
      /\ Len(pool) \in Nat /\ Len(puffer) \in Nat /\ sampled[0] \in Nat /\ Due \in Nat
      /\ mxrecord \in MxRecords /\ relayer # "sleep"
  BY Known DEF Pointers, Busy, Filled
<1>3. relayer' = "sleep"
  BY <1>2 DEF PutIn
<1>4. ~ Has(puffer, mxrecord) /\ ~ Has(pool, mxrecord) /\ writing # mxrecord /\ mxrecord \in heap
  BY <1>2 DEF Owned, Keeps
<1>5. Distinct(puffer') /\ \A m : Has(puffer', m) <=> Has(puffer, m) \/ m = mxrecord
  BY <1>1, <1>2, <1>4, AppendHas DEF Owned
<1>6. Owned'
  BY <1>1, <1>2, <1>3, <1>4, <1>5 DEF Owned, Keeps
<1>7. /\ Len(puffer') = Len(puffer) + 1 /\ puffer'[Len(puffer) + 1] = mxrecord
      /\ \A i \in 1 .. Len(puffer) : puffer'[i] = puffer[i]
  BY <1>1, <1>2, AppendKeepsType
<1>8. InOrder'
  <2>1. /\ Due' = Due
        /\ writer' = "update" <=> writer = "update"
        /\ writer' = "aggregate" <=> writer = "aggregate"
    BY <1>1 DEF Due
  <2>2. \A i \in 1 .. Len(puffer') : content[puffer'[i]] = NthSample(Due + i)
    <3>1. \A i \in 1 .. Len(puffer') : i \in 1 .. Len(puffer) \/ i = Len(puffer) + 1
      BY <1>2, <1>7
    <3>2. content[mxrecord] = NthSample(Due + Len(puffer) + 1)
      BY <1>2 DEF InOrder
    <3>3. Due + Len(puffer) + 1 = Due + (Len(puffer) + 1)
      BY <1>2
    <3>4. QED
      BY <1>2, <1>7, <3>1, <3>2, <3>3 DEF InOrder
  <2>3. sampled[0] = Due + Len(puffer')
    BY <1>2, <1>7 DEF InOrder
  <2>4. QED
    BY <1>1, <1>2, <1>3, <2>1, <2>2, <2>3 DEF InOrder, Filled, NthSample
<1>9. writer' = "aggregate" \/ writer \notin {"aggregate", "lost"}
  BY <1>1, <1>2
<1>10. QED
  BY <1>1, <1>2, <1>3, <1>6, <1>8, <1>9, FilesStay DEF OneListener, files

LEMMA GetLostOne == ASSUME OneListener, GetLost PROVE OneListener'
<1>1. relayer' = "lost" /\ writer' = "lost" /\ UNCHANGED files
  BY DEF GetLost
<1>2. QED
  BY <1>1, FilesStay DEF OneListener

\* The steps between states in which the same things are where they were.
LEMMA QuietOne ==
    ASSUME IInv, OneListener, ListenerNum = 1, relayer # "lost",
           UNCHANGED <<listener_id, mxrecord, writing, content, heap, pool, puffer, append_output,
                       sampled, files>>,
           relayer' # "lost", Filled' <=> Filled,
           relayer' = "sleep" <=> relayer = "sleep", relayer' = "request" => relayer = "request",
           \/ writer' = writer
           \/ writer \in {"take", "waiting"} /\ writer' \in {"waiting", "startled"}
    PROVE  OneListener'
<1>1. Owned /\ InOrder /\ FilesAreRight /\ writer # "lost"
  BY Known
<1>2. Owned'
  BY <1>1 DEF Owned, Keeps
<1>3. Due' = Due
  BY DEF Due, files
<1>4. InOrder'
  BY <1>1, <1>3 DEF InOrder, files, NthSample
<1>5. QED
  BY <1>1, <1>2, <1>4, FilesStay DEF OneListener

LEMMA ReceiveOne ==
    ASSUME IInv, OneListener, ListenerNum = 1, Receive \/ ReceiveWoken
    PROVE  OneListener'
<1>1. Filled /\ relayer # "lost"
  BY DEF Receive, ReceiveWoken, Filled
<1>2. CASE Receive /\ Len(puffer) = PufferSize
  BY <1>1, <1>2, QuietOne DEF Receive, table, files, Filled
<1>3. CASE ReceiveWoken /\ Len(puffer) = PufferSize
  BY <1>3, GetLostOne DEF ReceiveWoken
<1>4. CASE Len(puffer) # PufferSize
  BY <1>1, <1>4, PutInOne DEF Receive, ReceiveWoken
<1>5. QED
  BY <1>2, <1>3, <1>4

LEMMA SleepOne == ASSUME IInv, OneListener, ListenerNum = 1, Sleep PROVE OneListener'
<1>1. /\ relayer = "sleep" /\ relayer' = "demand" /\ mxrecord' = NoRecord
      /\ UNCHANGED <<writer, listener_id, writing, content, heap, pool, puffer, append_output,
                     sampled, output, aggregation, rows>>
  BY DEF Sleep, table, files
<1>2. Owned /\ InOrder /\ FilesAreRight /\ writer # "lost"
  BY <1>1, Known
<1>3. Owned'
  <2>1. \A m \in MxRecords : ~ Keeps(m) /\ ~ Keeps(m)'
    BY <1>1, Constants DEF Keeps
  <2>2. QED
    BY <1>1, <1>2, <2>1 DEF Owned
<1>4. InOrder'
  <2>1. Due' = Due
    BY <1>1 DEF Due
  <2>2. QED
    BY <1>1, <1>2, <2>1 DEF InOrder, NthSample, Filled
<1>5. QED
  BY <1>1, <1>2, <1>3, <1>4, FilesStay DEF OneListener, files

LEMMA TakeOutOne ==
    ASSUME IInv, OneListener, ListenerNum = 1, puffer # << >>,
           writer \in {"take", "woken", "startled"}, TakeOut
    PROVE  OneListener'
<1>1. /\ writing' = Head(puffer) /\ puffer' = Tail(puffer) /\ writer' = "update"
      /\ relayer' = IF Len(puffer) = PufferSize /\ relayer = "waiting" THEN "woken" ELSE relayer
      /\ UNCHANGED <<listener_id, mxrecord, content, heap, pool, append_output, sampled, output,
                     aggregation, rows>>
  BY DEF TakeOut, table, files
<1>2. relayer # "lost" /\ writing = NoRecord
  BY DEF IInv, Pointers, Writes
<1>3. /\ Owned /\ InOrder /\ FilesAreRight
      /\ pool \in Seq(MxRecords) /\ puffer \in Seq(MxRecords) /\ content \in [MxRecords -> Content]
      /\ Len(pool) \in Nat /\ Len(puffer) \in Nat /\ sampled[0] \in Nat /\ Len(output[0]) \in Nat
  BY <1>2, Known
<1>4. /\ Head(puffer) \in MxRecords /\ Len(puffer) > 0 /\ Len(puffer') = Len(puffer) - 1
      /\ Head(puffer) = puffer[1] /\ \A i \in 1 .. Len(puffer) - 1 : puffer'[i] = puffer[i + 1]
  BY <1>1, <1>3, TailKeepsType
<1>5. /\ Has(puffer, writing') /\ Distinct(puffer')
      /\ \A m : Has(puffer', m) <=> Has(puffer, m) /\ m # writing'
  BY <1>1, <1>3, TailHas DEF Owned
<1>6. \A m \in MxRecords : Keeps(m)' = Keeps(m) /\ writing # m
  BY <1>1, <1>2, Constants DEF Keeps
<1>7. Owned'
  BY <1>1, <1>3, <1>4, <1>5, <1>6 DEF Owned
<1>8. Due = Len(output[0]) + 0 /\ Due' = Len(output[0]) + 1 /\ (Filled' <=> Filled)
  BY <1>1 DEF Due, Filled
<1>9. InOrder'
  <2>1. content[writing'] = NthSample(Len(output[0]) + 1)
    BY <1>1, <1>3, <1>4, <1>8 DEF InOrder
  <2>2. \A i \in 1 .. Len(puffer') : content[puffer'[i]] = NthSample(Len(output[0]) + 1 + i)
    <3>1. \A i \in 1 .. Len(puffer') : /\ i + 1 \in 1 .. Len(puffer) /\ puffer'[i] = puffer[i + 1]
                                       /\ Len(output[0]) + 1 + i = Due + (i + 1)
      <4> DEFINE n == Len(output[0])
                 p == Len(puffer)
      <4>1. n \in Nat /\ p \in Nat /\ Len(puffer') = p - 1 /\ Due = n + 0
        BY <1>3, <1>4, <1>8
      <4>2. \A i \in 1 .. p - 1 : puffer'[i] = puffer[i + 1]
        BY <1>4
      <4> HIDE DEF n, p
      <4>3. \A i \in 1 .. p - 1 : i + 1 \in 1 .. p /\ n + 1 + i = (n + 0) + (i + 1)
        BY <4>1
      <4>4. \A i \in 1 .. p - 1 : /\ i + 1 \in 1 .. p /\ puffer'[i] = puffer[i + 1]
                                 /\ n + 1 + i = Due + (i + 1)
        BY <4>1, <4>2, <4>3
      <4>5. QED
        BY <4>1, <4>4 DEF n, p
    <3>2. QED
      BY <1>3, <3>1 DEF InOrder
  <2>3. /\ Due + Len(puffer) = Len(output[0]) + 1 + Len(puffer')
        /\ Due + Len(puffer) + 1 = Len(output[0]) + 1 + Len(puffer') + 1
    BY <1>3, <1>4, <1>8
  <2>4. /\ sampled[0] = Len(output[0]) + 1 + Len(puffer') + (IF Filled THEN 1 ELSE 0)
        /\ Filled => content[mxrecord] = NthSample(Len(output[0]) + 1 + Len(puffer') + 1)
    BY <1>3, <2>3 DEF InOrder
  <2>5. /\ append_output[0] <=> sampled[0] > 0
        /\ relayer' = "request" => content[mxrecord] = Clean
        /\ \A i \in 1 .. Len(pool) : content[pool[i]] = Clean
    BY <1>1, <1>3 DEF InOrder
  <2>6. QED
    BY <1>1, <1>8, <2>1, <2>2, <2>4, <2>5 DEF InOrder, NthSample
<1>10. QED
  BY <1>1, <1>2, <1>3, <1>7, <1>9, FilesStay DEF OneListener, files

LEMMA SupplyOne ==
    ASSUME IInv, OneListener, ListenerNum = 1, Supply \/ SupplyWoken
    PROVE  OneListener'
<1>1. relayer # "lost"
  BY DEF Supply, SupplyWoken, IInv, Pointers
<1>2. CASE Supply /\ puffer = << >>
  <2>1. writer = "take" /\ writer' = "waiting" /\ UNCHANGED relayer
    BY <1>2 DEF Supply
  <2>2. QED
    BY <1>1, <1>2, <2>1, QuietOne DEF Supply, table, files, Filled, IInv, TypeOK
<1>3. CASE SupplyWoken /\ puffer = << >>
  BY <1>3, GetLostOne DEF SupplyWoken
<1>4. CASE puffer # << >>
  BY <1>4, TakeOutOne DEF Supply, SupplyWoken
<1>5. QED
  BY <1>2, <1>3, <1>4

LEMMA SpuriousOne ==
    ASSUME IInv, OneListener, ListenerNum = 1, SpuriousWakeup
    PROVE  OneListener'
<1>1. relayer # "lost" /\ UNCHANGED <<listener_id, mxrecord, writing, content, heap, pool, puffer,
                                      append_output, sampled, output, aggregation, rows>>
  BY DEF SpuriousWakeup, IInv, Pointers, table, files
<1>2. CASE relayer = "waiting" /\ relayer' = "startled" /\ UNCHANGED writer
  BY <1>1, <1>2, QuietOne DEF files, Filled
<1>3. CASE writer = "waiting" /\ writer' = "startled" /\ UNCHANGED relayer
  BY <1>1, <1>3, QuietOne DEF files, Filled, SpuriousWakeup
<1>4. QED
  BY <1>2, <1>3 DEF SpuriousWakeup

\* The row goes into the one listener's file: the first one after a truncation of the
\* empty file, every later one behind the row before it.
LEMMA UpdateOne == ASSUME IInv, OneListener, ListenerNum = 1, Update PROVE OneListener'
<1> DEFINE k == Len(output[0])
           out == output[0]
<1>1. /\ writer = "update" /\ writer' = IF content[writing].save_aggregations THEN "aggregate" ELSE "recycle"
      /\ output' = [output EXCEPT ![content[writing].features_output] =
             IF content[writing].append_output
             THEN Append(output[content[writing].features_output], content[writing].features)
             ELSE <<content[writing].features>>]
      /\ rows' = [rows EXCEPT ![content[writing].features_output] =
             Append(rows[content[writing].features_output], content[writing].features)]
      /\ UNCHANGED <<relayer, listener_id, mxrecord, writing, content, heap, pool, puffer,
                     append_output, sampled, aggregation>>
  BY DEF Update, table
<1>2. relayer # "lost"
  BY <1>1 DEF IInv, Pointers
<1>3. /\ Owned /\ InOrder /\ FilesAreRight /\ k \in Nat /\ out \in Seq(0 .. MaxRounds)
      /\ Len(puffer) \in Nat /\ output \in [Files -> Seq(0 .. MaxRounds)]
      /\ rows \in [Files -> Seq(0 .. MaxRounds)]
  BY <1>2, Known DEF TypeOK
<1>4. /\ content[writing].features_output = 0 /\ content[writing].features = k + 1
      /\ (content[writing].append_output <=> k + 1 > 1)
      /\ (content[writing].save_aggregations <=> 0 \in Aggregating)
      /\ content[writing] = NthSample(k + 1)
  <2>1. content[writing] = NthSample(k + 1)
    BY <1>1, <1>3 DEF InOrder
  <2>2. /\ NthSample(k + 1).features_output = 0 /\ NthSample(k + 1).features = k + 1
        /\ (NthSample(k + 1).append_output <=> k + 1 > 1)
        /\ (NthSample(k + 1).save_aggregations <=> 0 \in Aggregating)
    BY DEF NthSample
  <2>3. QED
    BY <2>1, <2>2
<1>5. /\ out = rows[0] /\ output[NoFile] = << >>
      /\ \A i \in 1 .. k : out[i] = i
  BY <1>3, One DEF FilesAreRight, EveryRowInItsFile
<1>6. Append(out, k + 1) = IF k + 1 > 1 THEN Append(out, k + 1) ELSE <<k + 1>>
  <2>1. CASE k = 0
    <3>1. out = << >>
      BY <1>3, <2>1, EmptySeq
    <3>2. Append(<< >>, 1) = <<1>>
      OBVIOUS
    <3>3. QED
      BY <2>1, <3>1, <3>2
  <2>2. CASE k # 0
    <3>1. k + 1 > 1
      BY <1>3, <2>2
    <3>2. QED
      BY <3>1
  <2>3. QED
    BY <2>1, <2>2
<1>7. /\ output'[0] = Append(out, k + 1) /\ rows'[0] = Append(out, k + 1)
      /\ output'[NoFile] = << >>
  BY <1>1, <1>3, <1>4, <1>5, <1>6, One, Constants
<1>8. /\ Len(output'[0]) = k + 1 /\ output'[0][k + 1] = k + 1 /\ output'[0] # << >>
      /\ \A i \in 1 .. k : output'[0][i] = i
  <2>1. out \in Seq(Nat) /\ k + 1 \in Nat
    BY <1>3, <1>5, Constants
  <2> HIDE DEF out, k
  <2>2. /\ Len(Append(out, k + 1)) = Len(out) + 1 /\ Append(out, k + 1)[Len(out) + 1] = k + 1
        /\ Append(out, k + 1) # << >>
        /\ \A i \in 1 .. Len(out) : Append(out, k + 1)[i] = out[i]
    BY <2>1, AppendKeepsType
  <2>3. QED
    BY <1>5, <1>7, <2>2 DEF out, k
<1>9. writer' \in {"aggregate", "recycle"} /\ (writer' = "aggregate" <=> 0 \in Aggregating)
  BY <1>1, <1>4
<1>10. Due' = k + 1 /\ Due = k + 1
  BY <1>1, <1>3, <1>8, <1>9 DEF Due
<1> HIDE DEF k, out
<1>11. Owned'
  BY <1>1, <1>3 DEF Owned, Keeps
<1>12. InOrder'
  BY <1>1, <1>3, <1>4, <1>8, <1>9, <1>10 DEF InOrder, Filled, NthSample
<1>13. EveryRowInItsFile'
  <2>1. \A i \in 1 .. k + 1 : i \in 1 .. k \/ i = k + 1
    BY <1>3
  <2>2. QED
    BY <1>7, <1>8, <2>1, One DEF EveryRowInItsFile
<1>14. AggregationFollowsOutput'
  BY <1>9, One, Constants DEF AggregationFollowsOutput
<1>15. QED
  BY <1>11, <1>12, <1>13, <1>14 DEF OneListener, FilesAreRight

LEMMA AggregateOne == ASSUME IInv, OneListener, ListenerNum = 1, Aggregate PROVE OneListener'
<1>1. /\ writer = "aggregate" /\ writer' = "recycle"
      /\ aggregation' = [aggregation EXCEPT ![content[writing].aggregation_path] =
             <<content[writing].features_output, content[writing].features>>]
      /\ UNCHANGED <<relayer, listener_id, mxrecord, writing, content, heap, pool, puffer,
                     append_output, sampled, output, rows>>
  BY DEF Aggregate, table
<1>2. relayer # "lost"
  BY <1>1 DEF IInv, Pointers
<1>3. /\ Owned /\ InOrder /\ FilesAreRight /\ Len(output[0]) \in Nat
      /\ aggregation \in [Files -> Files \X (0 .. MaxRounds)]
  BY <1>2, Known DEF TypeOK
<1>4. /\ content[writing].features_output = 0 /\ content[writing].features = Len(output[0])
      /\ content[writing].aggregation_path = 0 /\ Len(output[0]) > 0
  BY <1>1, <1>3 DEF InOrder, NthSample
<1>5. aggregation'[0] = <<0, output[0][Len(output[0])]>>
  <2>1. output[0][Len(output[0])] = Len(output[0])
    BY <1>3, <1>4, One DEF FilesAreRight, EveryRowInItsFile
  <2>2. QED
    BY <1>1, <1>3, <1>4, <2>1, Constants
<1>6. Owned'
  BY <1>1, <1>3 DEF Owned, Keeps
<1>7. InOrder'
  <2>1. Due' = Due
    BY <1>1 DEF Due
  <2>2. QED
    BY <1>1, <1>3, <2>1 DEF InOrder, Filled, NthSample
<1>8. EveryRowInItsFile'
  BY <1>1, <1>3 DEF FilesAreRight, EveryRowInItsFile
<1>9. AggregationFollowsOutput'
  BY <1>1, <1>5, One, Constants DEF AggregationFollowsOutput
<1>10. QED
  BY <1>6, <1>7, <1>8, <1>9 DEF OneListener, FilesAreRight

LEMMA RecycleOne == ASSUME IInv, OneListener, ListenerNum = 1, Recycle PROVE OneListener'
<1>1. /\ writer = "recycle" /\ writer' = "take" /\ writing' = NoRecord
      /\ IF Len(pool) = PoolSize
         THEN heap' = heap \ {writing} /\ UNCHANGED <<pool, content>>
         ELSE /\ content' = [content EXCEPT ![writing] = Clean]
              /\ pool' = Append(pool, writing) /\ UNCHANGED heap
      /\ UNCHANGED <<relayer, listener_id, mxrecord, puffer, append_output, sampled, output,
                     aggregation, rows>>
  BY DEF Recycle, table, files
<1>2. relayer # "lost"
  BY <1>1 DEF IInv, Pointers
<1>3. /\ Owned /\ InOrder /\ FilesAreRight /\ writing \in MxRecords
      /\ pool \in Seq(MxRecords) /\ puffer \in Seq(MxRecords) /\ content \in [MxRecords -> Content]
      /\ Len(pool) \in Nat /\ Len(puffer) \in Nat
  BY <1>1, <1>2, Known DEF Pointers, Writes, TypeOK
<1>4. ~ Keeps(writing) /\ ~ Has(pool, writing) /\ ~ Has(puffer, writing) /\ writing \in heap
  BY <1>3 DEF Owned
<1>5. \A m \in MxRecords : Keeps(m)' = Keeps(m) /\ writing' # m
  BY <1>1, Constants DEF Keeps
<1>6. /\ \A m \in MxRecords \ {writing} : content'[m] = content[m]
      /\ \A i \in 1 .. Len(pool') : content'[pool'[i]] = Clean
      /\ Distinct(pool')
      /\ \A m \in MxRecords \ {writing} : Has(pool', m) <=> Has(pool, m)
      /\ \/ heap' = heap \ {writing} /\ ~ Has(pool', writing)
         \/ heap' = heap /\ Has(pool', writing)
  <2>1. CASE Len(pool) = PoolSize
    <3>1. heap' = heap \ {writing} /\ pool' = pool /\ content' = content
      BY <1>1, <2>1
    <3>2. QED
      BY <1>3, <1>4, <3>1 DEF Owned, InOrder
  <2>2. CASE Len(pool) # PoolSize
    <3>1. content' = [content EXCEPT ![writing] = Clean] /\ pool' = Append(pool, writing) /\ heap' = heap
      BY <1>1, <2>2
    <3>2. Distinct(pool') /\ \A m : Has(pool', m) <=> Has(pool, m) \/ m = writing
      BY <1>3, <1>4, <3>1, AppendHas DEF Owned
    <3>3. /\ content'[writing] = Clean
          /\ \A m \in MxRecords \ {writing} : content'[m] = content[m]
      BY <1>3, <3>1
    <3>4. /\ Len(pool') = Len(pool) + 1 /\ pool'[Len(pool) + 1] = writing
          /\ \A i \in 1 .. Len(pool) : pool'[i] = pool[i] /\ pool[i] \in MxRecords
      BY <1>3, <3>1, AppendKeepsType, LenProperties
    <3>5. \A i \in 1 .. Len(pool') : i \in 1 .. Len(pool) \/ i = Len(pool) + 1
      BY <1>3, <3>4
    <3>6. \A i \in 1 .. Len(pool) : content'[pool[i]] = Clean
      BY <1>3, <3>3, <3>4 DEF InOrder
    <3>7. \A i \in 1 .. Len(pool') : content'[pool'[i]] = Clean
      BY <3>3, <3>4, <3>5, <3>6
    <3>8. QED
      BY <3>1, <3>2, <3>3, <3>7
  <2>3. QED
    BY <2>1, <2>2
<1>7. Owned'
  BY <1>1, <1>3, <1>4, <1>5, <1>6 DEF Owned
<1>8. InOrder'
  <2>1. Due' = Due
    BY <1>1 DEF Due
  <2>2. \A i \in 1 .. Len(puffer) : puffer[i] \in MxRecords \ {writing}
    BY <1>3, <1>4, LenProperties DEF Has
  <2>3. Busy => mxrecord \in MxRecords \ {writing}
    BY <1>4 DEF IInv, Pointers, Keeps, Busy
  <2>4. \A i \in 1 .. Len(puffer) : content'[puffer[i]] = NthSample(Due + i)
    BY <1>3, <1>6, <2>2 DEF InOrder
  <2>5. /\ Filled => content'[mxrecord] = NthSample(Due + Len(puffer) + 1)
        /\ relayer = "request" => content'[mxrecord] = Clean
    BY <1>3, <1>6, <2>3 DEF InOrder, Filled, Busy
  <2>6. sampled[0] = Due + Len(puffer) + (IF Filled THEN 1 ELSE 0) /\ (append_output[0] <=> sampled[0] > 0)
    BY <1>3 DEF InOrder
  <2>7. QED
    BY <1>1, <1>6, <2>1, <2>4, <2>5, <2>6 DEF InOrder, Filled, NthSample
<1>9. QED
  BY <1>1, <1>3, <1>7, <1>8, FilesStay DEF OneListener, files

LEMMA StutterOne == ASSUME OneListener, UNCHANGED vars PROVE OneListener'
<1>1. UNCHANGED <<relayer, writer, listener_id, mxrecord, writing, content, heap, pool, puffer,
                  append_output, sampled, output, aggregation, rows>>
  BY DEF vars
<1>2. Owned => Owned'
  BY <1>1 DEF Owned, Keeps
<1>3. InOrder => InOrder'
  BY <1>1 DEF InOrder, Due, Filled, NthSample
<1>4. FilesAreRight'
  BY <1>1 DEF OneListener, FilesAreRight, EveryRowInItsFile, AggregationFollowsOutput
<1>5. QED
  BY <1>1, <1>2, <1>3, <1>4 DEF OneListener

LEMMA NextOne == IInv /\ OneListener /\ ListenerNum = 1 /\ [Next]_vars => OneListener'
BY DemandOne, RequestOne, ReceiveOne, SleepOne, SupplyOne, UpdateOne, AggregateOne, RecycleOne,
   SpuriousOne, StutterOne
   DEF Next, RelayerStep, WriterStep, Lost, Finished

LEMMA OneListenerInvariance == ListenerNum = 1 => (Spec => []OneListener)
<1> SUFFICES ASSUME ListenerNum = 1 PROVE Spec => []OneListener
  OBVIOUS
<1>1. Init => OneListener
  BY InitOne
<1>2. IInv /\ OneListener /\ [Next]_vars => OneListener'
  BY NextOne
<1>3. QED
  BY <1>1, <1>2, Invariance, PTL DEF Spec

\* Owned says of the places what OneOwner says of their set.
LEMMA OwnedIsOneOwner == ASSUME Owned PROVE OneOwner
<1> SUFFICES ASSUME NEW m \in MxRecords
             PROVE  IF m \in heap THEN \E p \in Held(m) : Held(m) = {p} ELSE Held(m) = {}
  BY DEF OneOwner
<1>1. CASE m \notin heap
  <2>1. ~ Keeps(m) /\ writing # m /\ ~ Has(pool, m) /\ ~ Has(puffer, m)
    BY <1>1 DEF Owned
  <2>2. QED
    BY <1>1, <2>1 DEF Held, Keeps, Has
<1>2. ASSUME m \in heap, Keeps(m) PROVE Held(m) = {<<"relayer">>}
  <2>1. writing # m /\ ~ Has(pool, m) /\ ~ Has(puffer, m)
    BY <1>2 DEF Owned
  <2>2. QED
    BY <1>2, <2>1 DEF Held, Keeps, Has
<1>3. ASSUME m \in heap, writing = m PROVE Held(m) = {<<"writer">>}
  <2>1. ~ Keeps(m) /\ ~ Has(pool, m) /\ ~ Has(puffer, m)
    BY <1>3 DEF Owned
  <2>2. QED
    BY <1>3, <2>1 DEF Held, Keeps, Has
<1>4. ASSUME m \in heap, NEW i \in 1 .. Len(pool), pool[i] = m PROVE Held(m) = {<<"pool", i>>}
  <2>1. Has(pool, m) /\ \A j \in 1 .. Len(pool) : pool[j] = m <=> j = i
    BY <1>4 DEF Owned, Has, Distinct
  <2>2. ~ Keeps(m) /\ writing # m /\ ~ Has(puffer, m)
    BY <2>1 DEF Owned
  <2>3. QED
    BY <2>1, <2>2 DEF Held, Keeps, Has
<1>5. ASSUME m \in heap, NEW i \in 1 .. Len(puffer), puffer[i] = m PROVE Held(m) = {<<"puffer", i>>}
  <2>1. Has(puffer, m) /\ \A j \in 1 .. Len(puffer) : puffer[j] = m <=> j = i
    BY <1>5 DEF Owned, Has, Distinct
  <2>2. ~ Keeps(m) /\ writing # m /\ ~ Has(pool, m)
    BY <2>1 DEF Owned
  <2>3. QED
    BY <2>1, <2>2 DEF Held, Keeps, Has
<1>6. m \in heap => \/ Keeps(m) \/ writing = m
                    \/ \E i \in 1 .. Len(pool) : pool[i] = m
                    \/ \E i \in 1 .. Len(puffer) : puffer[i] = m
  BY DEF Owned, Has
<1>7. m \in heap => \E p : Held(m) = {p}
  BY <1>2, <1>3, <1>4, <1>5, <1>6
<1>8. QED
  BY <1>1, <1>7

\* With one listener an mxrecord that is allocated has one owner and a freed one none,
\* over the ring of the puffer, the pool, the relayer's and the filewriter's pointer: no
\* mxrecord is cleaned, freed or filled while somebody else has it.  The types and signals
\* are those of any number of listeners.
THEOREM OneOwnerOfOneListener == ListenerNum = 1 => (Spec => []OwnersAndSignals)
<1> SUFFICES ASSUME ListenerNum = 1 PROVE Spec => []OwnersAndSignals
  OBVIOUS
<1>1. IInv /\ OneListener => OwnersAndSignals
  BY OwnedIsOneOwner DEF IInv, OneListener, OwnersAndSignals, OneOwner
<1>2. QED
  BY <1>1, Invariance, OneListenerInvariance, PTL

\* With one listener every sample gets into the listener's file once, in order and from
\* the first one on, whichever size the puffer and the pool have and however the two
\* threads overtake each other.
THEOREM FileOfOneListener == ListenerNum = 1 => (Spec => []EveryRowInItsFile)
<1> SUFFICES ASSUME ListenerNum = 1 PROVE Spec => []EveryRowInItsFile
  OBVIOUS
<1>1. OneListener => EveryRowInItsFile
  BY DEF OneListener, FilesAreRight
<1>2. QED
  BY <1>1, OneListenerInvariance, PTL

\* With one listener the aggregation file never shows another moment than the last row
\* of the output file.
THEOREM AggregationOfOneListener == ListenerNum = 1 => (Spec => []AggregationFollowsOutput)
<1> SUFFICES ASSUME ListenerNum = 1 PROVE Spec => []AggregationFollowsOutput
  OBVIOUS
<1>1. OneListener => AggregationFollowsOutput
  BY DEF OneListener, FilesAreRight
<1>2. QED
  BY <1>1, OneListenerInvariance, PTL
=============================================================================
