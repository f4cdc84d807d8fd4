------------------------------ MODULE Recorder ------------------------------
(***************************************************************************)
(* The recorder of NTRT (cmp/cmp_recorder.c): the records relayer thread   *)
(* samples every listener once per sampling_rate into an mxrecord and puts *)
(* it into the multiplexed records puffer; the filewriter thread takes it  *)
(* out, appends a row to the listener's output file, rewrites its          *)
(* aggregation file and gives the mxrecord back to the recycle pool.       *)
(*                                                                         *)
(* The puffer is a CMP_DEF_SGPUFFER (cmp_predefs.h): a datapuffer under    *)
(* the mutex of one signal_t, with waits under an `if'.  A call into it is *)
(* one step up to the point where the thread blocks in signal_wait; a      *)
(* woken thread goes on in a step of its own, after it got the mutex back. *)
(* pthread_cond_wait may also wake it up for no reason: if what it waited  *)
(* for has not come, it reads or writes the puffer all the same, and the   *)
(* program is lost in undefined behaviour.                                 *)
(*                                                                         *)
(* What a row contains (features, groupcounters, mapped variables) is      *)
(* abstracted to the number of the sample: the n-th of its listener.       *)
(***************************************************************************)
EXTENDS Integers, Sequences

CONSTANTS
    ListenerNum,   \* rows of the pcapls table
    Aggregating,   \* the listeners configured with save_aggregation
    MxRecords,     \* addresses malloc can give to an mxrecord_t
    NoRecord,      \* the NULL pointer
    NoFile,        \* the empty path of a clean mxrecord
    PufferSize,    \* CMP_MXRECORDSPUFFER_SIZE
    PoolSize,      \* CMP_PUFFER_RECYCLE_SIZE
    MaxRounds      \* bound: rounds of the relayer

Listeners == 0 .. ListenerNum - 1

ASSUME ConstantsAssumption ==
    /\ ListenerNum \in Nat \ {0} /\ Aggregating \subseteq Listeners
    /\ PufferSize \in Nat \ {0} /\ PoolSize \in Nat \ {0} /\ MaxRounds \in Nat \ {0}
    /\ NoRecord \notin MxRecords /\ NoFile \notin Listeners

VARIABLES
    relayer,       \* what the relayer thread does next
    writer,        \* what the filewriter thread does next
    listener_id,   \* the relayer's loop variable
    mxrecord,      \* the relayer's mxrecord
    writing,       \* the filewriter's mxrecord
    content,       \* the contents of every mxrecord_t
    heap,          \* the mxrecords that are allocated
    pool,          \* _cmp_recycle
    puffer,        \* _cmp_mxrecordspuffer, the oldest first
    append_output, \* pcap_listener->append_output of each listener
    sampled,       \* per listener: how many samples the relayer has taken
    output,        \* per output file: the rows in it
    aggregation,   \* per aggregation file: the listener and the sample in it
    rows           \* history: every row ever written to a file

vars == <<relayer, writer, listener_id, mxrecord, writing, content, heap, pool, puffer,
          append_output, sampled, output, aggregation, rows>>
table == <<append_output, sampled>>
files == <<output, aggregation, rows>>

\* An mxrecord as memset leaves it.
Clean == [features_output |-> NoFile, aggregation_path |-> NoFile, features |-> 0,
          append_output |-> FALSE, save_aggregations |-> FALSE]

Init ==
    /\ relayer = "demand"
    /\ writer = "take"
    /\ listener_id = 0
    /\ mxrecord = NoRecord
    /\ writing = NoRecord
    /\ content = [m \in MxRecords |-> Clean]
    /\ heap = {}
    /\ pool = << >>
    /\ puffer = << >>
    /\ append_output = [l \in Listeners |-> FALSE]
    /\ sampled = [l \in Listeners |-> 0]
    /\ output = [f \in Listeners \cup {NoFile} |-> << >>]
    /\ aggregation = [f \in Listeners \cup {NoFile} |-> <<NoFile, 0>>]
    /\ rows = [f \in Listeners \cup {NoFile} |-> << >>]

-----------------------------------------------------------------------------
\* Mutant of Demand: the pool's oldest mxrecord is looked at and left in the pool.
DemandPeeks ==
    /\ relayer = "demand"
    /\ \E m \in MxRecords :
         /\ IF pool = << >>
            THEN m \notin heap /\ heap' = heap \cup {m} /\ content' = [content EXCEPT ![m] = Clean]
            ELSE m = Head(pool) /\ UNCHANGED <<heap, content>>
         /\ mxrecord' = m
    /\ relayer' = "request"
    /\ UNCHANGED <<writer, listener_id, writing, pool, puffer, table, files>>

\* A round of the relayer starts with one mxrecord: the oldest of the pool, which
\* was cleaned when it went in, or a new one.
Demand ==
    /\ relayer = "demand"
    /\ \E m \in MxRecords :
         /\ IF pool = << >>
            THEN /\ m \notin heap /\ heap' = heap \cup {m} /\ pool' = pool
                 /\ content' = [content EXCEPT ![m] = Clean]
            ELSE /\ m = Head(pool) /\ pool' = Tail(pool)
                 /\ UNCHANGED <<heap, content>>
         /\ mxrecord' = m
    /\ relayer' = "request"
    /\ UNCHANGED <<writer, listener_id, writing, puffer, table, files>>

\* What the relayer makes of its mxrecord: save_aggregations and the path of the
\* aggregation file are set and never cleared, the other fields are overwritten.
Sample(mx, append, save) ==
    [features_output |-> listener_id,
     aggregation_path |-> IF save THEN listener_id ELSE mx.aggregation_path,
     features |-> sampled[listener_id] + 1,
     append_output |-> append,
     save_aggregations |-> mx.save_aggregations \/ save]

\* Mutant of Request: the aggregation file is written with the first row only.
RequestAggregatesOnce ==
    /\ relayer = "request"
    /\ sampled' = [sampled EXCEPT ![listener_id] = @ + 1]
    /\ content' = [content EXCEPT ![mxrecord] =
           Sample(@, append_output[listener_id],
                  listener_id \in Aggregating /\ ~ append_output[listener_id])]
    /\ append_output' = [append_output EXCEPT ![listener_id] = TRUE]
    /\ relayer' = "receive"
    /\ UNCHANGED <<writer, listener_id, mxrecord, writing, heap, pool, puffer, files>>

\* Mutant of Request: append_output is read and never set.
RequestTruncates ==
    /\ relayer = "request"
    /\ sampled' = [sampled EXCEPT ![listener_id] = @ + 1]
    /\ content' = [content EXCEPT ![mxrecord] =
           Sample(@, append_output[listener_id], listener_id \in Aggregating)]
    /\ relayer' = "receive"
    /\ UNCHANGED <<writer, listener_id, mxrecord, writing, heap, pool, puffer,
                   append_output, files>>

\* One listener is sampled into the mxrecord, and its next row will be appended.
Request ==
    /\ relayer = "request"
    /\ sampled' = [sampled EXCEPT ![listener_id] = @ + 1]
    /\ content' = [content EXCEPT ![mxrecord] =
           Sample(@, append_output[listener_id], listener_id \in Aggregating)]
    /\ append_output' = [append_output EXCEPT ![listener_id] = TRUE]
    /\ relayer' = "receive"
    /\ UNCHANGED <<writer, listener_id, mxrecord, writing, heap, pool, puffer, files>>

-----------------------------------------------------------------------------
\* Mutant of PutIn: the filewriter is woken when the puffer was full.
PutInSignalsFull ==
    /\ puffer' = Append(puffer, mxrecord)
    /\ writer' = IF Len(puffer) = PufferSize /\ writer = "waiting" THEN "woken" ELSE writer
    /\ IF listener_id + 1 < ListenerNum
       THEN listener_id' = listener_id + 1 /\ relayer' = "request"
       ELSE listener_id' = 0 /\ relayer' = "sleep"
    /\ UNCHANGED <<mxrecord, writing, content, heap, pool, table, files>>

\* The receiver's second half: write, and signal if the puffer was empty.  The
\* relayer's loop goes on with the next listener and the same mxrecord.
PutIn ==
    /\ puffer' = Append(puffer, mxrecord)
    /\ writer' = IF puffer = << >> /\ writer = "waiting" THEN "woken" ELSE writer
    /\ IF listener_id + 1 < ListenerNum
       THEN listener_id' = listener_id + 1 /\ relayer' = "request"
       ELSE listener_id' = 0 /\ relayer' = "sleep"
    /\ UNCHANGED <<mxrecord, writing, content, heap, pool, table, files>>

\* The receiver's first half: a full puffer blocks the relayer.
Receive ==
    /\ relayer = "receive"
    /\ IF Len(puffer) = PufferSize
       THEN /\ relayer' = "waiting"
            /\ UNCHANGED <<writer, listener_id, mxrecord, writing, content, heap, pool,
                           puffer, table, files>>
       ELSE PutIn

\* Undefined behaviour: what the program does from here on is not modelled.
GetLost ==
    /\ relayer' = "lost" /\ writer' = "lost"
    /\ UNCHANGED <<listener_id, mxrecord, writing, content, heap, pool, puffer, table, files>>

\* The woken relayer does not look again: into a puffer that is still full it writes
\* over the oldest mxrecord.
ReceiveWoken ==
    /\ relayer \in {"woken", "startled"}
    /\ IF Len(puffer) = PufferSize
       THEN GetLost
       ELSE PutIn

\* usleep(sampling_rate), and the loop's test of the thread's state.
Sleep ==
    /\ relayer = "sleep"
    /\ sampled[0] < MaxRounds
    /\ relayer' = "demand"
    /\ mxrecord' = NoRecord
    /\ UNCHANGED <<writer, listener_id, writing, content, heap, pool, puffer, table, files>>
-----------------------------------------------------------------------------
\* The supplier's second half: read, and signal if the puffer was full.
TakeOut ==
    /\ writing' = Head(puffer)
    /\ puffer' = Tail(puffer)
    /\ relayer' = IF Len(puffer) = PufferSize /\ relayer = "waiting" THEN "woken" ELSE relayer
    /\ writer' = "update"
    /\ UNCHANGED <<listener_id, mxrecord, content, heap, pool, table, files>>

\* The supplier's first half: an empty puffer blocks the filewriter.
Supply ==
    /\ writer = "take"
    /\ IF puffer = << >>
       THEN /\ writer' = "waiting"
            /\ UNCHANGED <<relayer, listener_id, mxrecord, writing, content, heap, pool,
                           puffer, table, files>>
       ELSE TakeOut

\* The woken filewriter does not look again: from an empty puffer it reads NULL.
SupplyWoken ==
    /\ writer \in {"woken", "startled"}
    /\ IF puffer = << >>
       THEN GetLost
       ELSE TakeOut

\* _update_features_file: fopen with "a+" or "w+", one row.  A row for NoFile
\* stands for fopen("") = NULL and the undefined behaviour that follows.
Update ==
    /\ writer = "update"
    /\ LET row == content[writing].features
           file == content[writing].features_output
       IN  /\ output' = [output EXCEPT ![file] =
                 IF content[writing].append_output THEN Append(@, row) ELSE <<row>>]
           /\ rows' = [rows EXCEPT ![file] = Append(@, row)]
    /\ writer' = IF content[writing].save_aggregations THEN "aggregate" ELSE "recycle"
    /\ UNCHANGED <<relayer, listener_id, mxrecord, writing, content, heap, pool, puffer,
                   table, aggregation>>

\* _aggregation_saver: the file holds the last totals only.
Aggregate ==
    /\ writer = "aggregate"
    /\ aggregation' = [aggregation EXCEPT ![content[writing].aggregation_path] =
                           <<content[writing].features_output, content[writing].features>>]
    /\ writer' = "recycle"
    /\ UNCHANGED <<relayer, listener_id, mxrecord, writing, content, heap, pool, puffer,
                   table, output, rows>>

\* The pool's receiver: clean and keep the mxrecord, or free it.
Recycle ==
    /\ writer = "recycle"
    /\ IF Len(pool) = PoolSize
       THEN heap' = heap \ {writing} /\ UNCHANGED <<pool, content>>
       ELSE /\ content' = [content EXCEPT ![writing] = Clean]
            /\ pool' = Append(pool, writing)
            /\ UNCHANGED heap
    /\ writing' = NoRecord
    /\ writer' = "take"
    /\ UNCHANGED <<relayer, listener_id, mxrecord, puffer, table, files>>

\* A wakeup that nobody sent, the environment's step.
SpuriousWakeup ==
    /\ \/ relayer = "waiting" /\ relayer' = "startled" /\ UNCHANGED writer
       \/ writer = "waiting" /\ writer' = "startled" /\ UNCHANGED relayer
    /\ UNCHANGED <<listener_id, mxrecord, writing, content, heap, pool, puffer, table, files>>

Lost == relayer = "lost" /\ UNCHANGED vars

\* The bound: after MaxRounds everything is written and the filewriter waits.
Finished ==
    /\ relayer = "sleep" /\ sampled[0] = MaxRounds
    /\ puffer = << >> /\ writer = "waiting"
    /\ UNCHANGED vars

RelayerStep == Demand \/ Request \/ Receive \/ ReceiveWoken \/ Sleep
WriterStep == Supply \/ SupplyWoken \/ Update \/ Aggregate \/ Recycle

Next ==
    \/ RelayerStep \/ WriterStep
    \/ SpuriousWakeup \/ Lost \/ Finished

\* Both are loops of their own threads that block only in signal_wait.
Spec == Init /\ [][Next]_vars /\ WF_vars(RelayerStep) /\ WF_vars(WriterStep)

-----------------------------------------------------------------------------
Files == Listeners \cup {NoFile}

\* Every field keeps its type; neither puffer grows over its ring.
TypeOK ==
    /\ relayer \in {"demand", "request", "receive", "waiting", "woken", "startled", "lost", "sleep"}
    /\ writer \in {"take", "waiting", "woken", "startled", "lost", "update", "aggregate", "recycle"}
    /\ listener_id \in Listeners
    /\ mxrecord \in MxRecords \cup {NoRecord} /\ writing \in MxRecords \cup {NoRecord}
    /\ content \in [MxRecords -> [features_output : Files, aggregation_path : Files,
                                  features : 0 .. MaxRounds,
                                  append_output : BOOLEAN, save_aggregations : BOOLEAN]]
    /\ heap \subseteq MxRecords
    /\ pool \in Seq(MxRecords) /\ Len(pool) <= PoolSize
    /\ puffer \in Seq(MxRecords) /\ Len(puffer) <= PufferSize
    /\ append_output \in [Listeners -> BOOLEAN]
    /\ sampled \in [Listeners -> 0 .. MaxRounds]
    /\ output \in [Files -> Seq(0 .. MaxRounds)] /\ rows \in [Files -> Seq(0 .. MaxRounds)]
    /\ aggregation \in [Files -> Files \X (0 .. MaxRounds)]

\* The places an mxrecord can be in.  The relayer's pointer counts until the
\* mxrecord is in the puffer.
Held(m) == (IF mxrecord = m /\ relayer # "sleep" THEN {<<"relayer">>} ELSE {})
    \cup (IF writing = m THEN {<<"writer">>} ELSE {})
    \cup {<<"pool", i>> : i \in {j \in 1 .. Len(pool) : pool[j] = m}}
    \cup {<<"puffer", i>> : i \in {j \in 1 .. Len(puffer) : puffer[j] = m}}

\* An mxrecord that is allocated is in exactly one place, a freed one in none:
\* the relayer fills none that the filewriter still has to write.
OneOwner ==
    relayer # "lost" =>
        \A m \in MxRecords : IF m \in heap THEN \E p \in Held(m) : Held(m) = {p}
                                            ELSE Held(m) = {}

\* A thread that was signalled finds what it waited for, and none that has something
\* to do is left waiting: one signal_t serves both sides, and each side signals only at
\* the boundary the other one may be blocked at.
SignalsAreTrue ==
    /\ writer = "woken" => puffer # << >>
    /\ relayer = "woken" => Len(puffer) < PufferSize
    /\ writer = "waiting" => puffer = << >>
    /\ relayer = "waiting" => Len(puffer) = PufferSize

\* Every field keeps its type; every mxrecord that is allocated has one owner, a freed one
\* none, so that nothing is cleaned, freed or filled while somebody else has it; and no
\* thread is signalled for nothing or left waiting for what is there.
OwnersAndSignals == TypeOK /\ OneOwner /\ SignalsAreTrue

\* Every file holds its own listener's samples, each once and in order, from the
\* first one on: no row is lost, repeated, written to another listener's file
\* or truncated away (README.md, What is it).
EveryRowInItsFile ==
    \A l \in Listeners : /\ \A i \in 1 .. Len(output[l]) : output[l][i] = i
                         /\ output[l] = rows[l]
                         /\ output[NoFile] = << >>

\* An aggregation file holds its own listener's totals of the moment of the last
\* row in the listener's output file: the two files never drift apart.
AggregationFollowsOutput ==
    \A l \in Aggregating : writer \notin {"aggregate", "lost"} /\ output[l] # << >> =>
        aggregation[l] = <<l, output[l][Len(output[l])]>>

\* A sample that was taken is written in the end, whatever it had to wait for, unless
\* a spurious wakeup, and no signal, let a thread go on too early.
EverySampleIsWritten ==
    \A l \in Listeners : \A n \in 1 .. MaxRounds :
        sampled[l] >= n ~> Len(output[l]) >= n \/ relayer = "lost"
=============================================================================
