-------------------------- MODULE ThreadLifeProofs --------------------------
(***************************************************************************)
(* Proofs about ThreadLife for any set of threads and any wait limit: its  *)
(* types, that a component is freed under its thread only when the stop    *)
(* gave up, and that a thread's RUN never falls on the STOP it was told.   *)
(*                                                                         *)
(* There is no lock between the two sides, so the invariant says what each *)
(* of them may conclude from the state field: before a thread has entered  *)
(* it reads STARTED, and it reads STOPPED only when the thread is gone.    *)
(***************************************************************************)
EXTENDS ThreadLife, TLAPS

\* What the field state says about where the thread is.
Born ==
    \A t \in Threads :
        /\ pc[t] = "none" => state[t] = "constructed" /\ component[t] = "none"
        /\ pc[t] = "init" => state[t] = "started"
        /\ state[t] = "stopped" => pc[t] = "ended"

\* Main stops threads only after it has started all of them, it stops one that
\* is still there, and it tells only one that has entered.
Busy ==
    /\ main # "starting" => \A t \in Threads : pc[t] # "none"
    /\ main \notin {"starting", "next"} => current \in target
    /\ main \in {"mark", "wait", "cancel"} => pc[current] \notin {"none", "init"}
    /\ main \in {"test", "mark", "wait"} => wait <= WaitLimit

\* What is not stopped yet is not freed.
Kept == \A t \in target : t \notin disposed /\ component[t] # "freed"

\* Main leaves its wait early only on an answer, and disposes of a thread
\* that is still inside only when it has a reason to give up.
Heard ==
    /\ main = "cancel" /\ wait < WaitLimit => state[current] = "stopped"
    /\ main = "dispose" /\ pc[current] \in Inside => gaveup[current] # "no"

IInv == TypeOK /\ Born /\ Busy /\ Kept /\ Heard /\ FreedUnderThread

-----------------------------------------------------------------------------
LEMMA LimitIsNat == WaitLimit \in Nat /\ WaitLimit > 0
  BY ConstantsAssumption

\* The counter's range, as the steps below need it.
LEMMA CounterIsNat ==
    ASSUME TypeOK
    PROVE  wait \in Nat /\ wait >= 0 /\ wait <= WaitLimit + 1
  <1>1. wait \in 0 .. WaitLimit + 1
    BY DEF TypeOK
  <1>. QED
    BY <1>1, LimitIsNat

LEMMA InitInv == Init => IInv
  <1>1. SUFFICES ASSUME Init PROVE IInv
    OBVIOUS
  <1>2. TypeOK
    BY <1>1, ConstantsAssumption DEF Init, TypeOK, States, Inside
  <1>3. Born /\ Busy /\ Kept /\ Heard /\ FreedUnderThread
    BY <1>1, ConstantsAssumption DEF Init, Born, Busy, Kept, Heard, FreedUnderThread, Inside
  <1>. QED
    BY <1>2, <1>3 DEF IInv

LEMMA StartInv == ASSUME IInv, NEW t \in Threads, Start(t) PROVE IInv'
  <1>. USE DEF IInv, thread, control
  <1>1. TypeOK'
    BY DEF TypeOK, Start, States, Inside
  <1>2. Born'
    BY DEF TypeOK, Start, Born
  <1>3. Busy'
    BY DEF TypeOK, Start, Busy
  <1>4. Kept'
    BY DEF TypeOK, Start, Kept
  <1>5. Heard'
    BY DEF TypeOK, Start, Heard
  <1>6. FreedUnderThread'
    BY DEF TypeOK, Start, FreedUnderThread, Inside
  <1>. QED
    BY <1>1, <1>2, <1>3, <1>4, <1>5, <1>6

\* Main's steps move no thread, so Born can only break by what is written to
\* state; the parts about main are what each step is proved for.
LEMMA PickInv == ASSUME IInv, NEW t \in Threads, Pick(t) PROVE IInv'
  <1>. USE DEF IInv, thread, control
  <1>1. TypeOK'
    <2>1. wait' \in 0 .. WaitLimit + 1
      BY LimitIsNat DEF Pick
    <2>. QED
      BY <2>1 DEF TypeOK, Pick
  <1>2. Born'
    BY DEF Pick, Born
  <1>3. Busy' /\ Heard'
    BY LimitIsNat DEF Pick, Busy, Heard
  <1>4. Kept' /\ FreedUnderThread'
    BY DEF Pick, Kept, FreedUnderThread
  <1>. QED
    BY <1>1, <1>2, <1>3, <1>4

LEMMA StopTestInv == ASSUME IInv, StopTest PROVE IInv'
  <1>. USE DEF IInv, thread, control
  <1>1. TypeOK'
    BY DEF TypeOK, StopTest
  <1>2. Born'
    BY DEF StopTest, Born
  <1>3. Busy' /\ Heard'
    BY DEF TypeOK, StopTest, Born, Busy, Heard
  <1>4. Kept' /\ FreedUnderThread'
    BY DEF TypeOK, StopTest, Kept, FreedUnderThread
  <1>. QED
    BY <1>1, <1>2, <1>3, <1>4

LEMMA StopMarkInv == ASSUME IInv, StopMark PROVE IInv'
  <1>. USE DEF IInv, thread, control
  <1>1. TypeOK'
    BY DEF TypeOK, StopMark, States
  <1>2. Born'
    BY DEF TypeOK, StopMark, Born, Busy
  <1>3. Busy' /\ Heard'
    BY DEF TypeOK, StopMark, Busy, Heard
  <1>4. Kept' /\ FreedUnderThread'
    BY DEF StopMark, Kept, FreedUnderThread
  <1>. QED
    BY <1>1, <1>2, <1>3, <1>4

LEMMA StopWaitInv == ASSUME IInv, StopWait PROVE IInv'
  <1>. USE DEF IInv, thread, control
  <1>1. TypeOK'
    <2>1. wait \in Nat /\ wait <= WaitLimit
      BY CounterIsNat DEF StopWait, Busy
    <2>2. wait' = wait \/ wait' = wait + 1
      BY DEF StopWait
    <2>3. wait' \in 0 .. WaitLimit + 1
      BY <2>1, <2>2, LimitIsNat
    <2>. QED
      BY <2>3 DEF TypeOK, StopWait
  <1>2. Born'
    BY DEF StopWait, Born
  <1>3. Busy'
    <2>0. wait \in Nat
      BY CounterIsNat
    <2>1. main' = "wait" => wait' <= WaitLimit
      BY <2>0, LimitIsNat DEF StopWait
    <2>. QED
      BY <2>1 DEF TypeOK, StopWait, Busy
  <1>4. Heard'
    <2>0. wait \in Nat
      BY CounterIsNat
    <2>1. main' = "cancel" /\ wait' < WaitLimit => state[current] = "stopped"
      BY <2>0, LimitIsNat DEF StopWait
    <2>. QED
      BY <2>1 DEF StopWait, Heard
  <1>5. Kept' /\ FreedUnderThread'
    BY DEF StopWait, Kept, FreedUnderThread
  <1>. QED
    BY <1>1, <1>2, <1>3, <1>4, <1>5

LEMMA StopCancelInv == ASSUME IInv, StopCancel PROVE IInv'
  <1>. USE DEF IInv, thread, control
  <1>1. TypeOK'
    BY DEF TypeOK, StopCancel, States
  <1>2. Born'
    BY DEF TypeOK, StopCancel, Born, Busy
  <1>3. Busy'
    BY DEF StopCancel, Busy
  <1>4. Heard'
    <2>1. CASE wait >= WaitLimit
      BY <2>1 DEF TypeOK, StopCancel, Heard
    <2>2. CASE ~(wait >= WaitLimit)
      <3>1. pc[current] = "ended"
        <4>1. wait < WaitLimit
          BY <2>2, LimitIsNat, CounterIsNat
        <4>. QED
          BY <4>1 DEF TypeOK, StopCancel, Heard, Born
      <3>. QED
        BY <3>1 DEF StopCancel, Heard, Inside
    <2>. QED
      BY <2>1, <2>2
  <1>5. Kept' /\ FreedUnderThread'
    BY DEF TypeOK, StopCancel, Kept, FreedUnderThread
  <1>. QED
    BY <1>1, <1>2, <1>3, <1>4, <1>5

\* Here a component is freed: FreedUnderThread needs what Heard knows of it.
LEMMA DisposeInv == ASSUME IInv, Dispose PROVE IInv'
  <1>. USE DEF IInv, thread, control
  <1>1. CASE current \in Chained /\ state[current] = "run"
    <2>1. TypeOK'
      <3>1. wait' \in 0 .. WaitLimit + 1
        BY <1>1, LimitIsNat DEF Dispose
      <3>. QED
        BY <1>1, <3>1 DEF TypeOK, Dispose
    <2>2. Born'
      BY <1>1 DEF Dispose, Born
    <2>3. Busy' /\ Heard'
      <3>1. wait' <= WaitLimit
        BY <1>1, LimitIsNat DEF Dispose
      <3>2. pc[current] \notin {"none", "init"}
        BY <1>1 DEF TypeOK, Born
      <3>. QED
        BY <1>1, <3>1, <3>2 DEF TypeOK, Dispose, Busy, Heard
    <2>4. Kept'
      BY <1>1 DEF Dispose, Kept
    <2>5. FreedUnderThread'
      BY <1>1 DEF TypeOK, Dispose, FreedUnderThread, Kept, Busy
    <2>. QED
      BY <2>1, <2>2, <2>3, <2>4, <2>5
  <1>2. CASE ~(current \in Chained /\ state[current] = "run")
    <2>1. TypeOK'
      BY <1>2, LimitIsNat DEF TypeOK, Dispose
    <2>2. pc[current] # "none"
      BY DEF TypeOK, Dispose, Busy
    <2>3. Born'
      BY <1>2, <2>2 DEF TypeOK, Dispose, Born
    <2>4. Busy' /\ Heard'
      BY <1>2 DEF Dispose, Busy, Heard
    <2>5. Kept'
      BY <1>2 DEF TypeOK, Dispose, Kept
    <2>6. FreedUnderThread'
      BY <1>2 DEF TypeOK, Dispose, FreedUnderThread, Heard
    <2>. QED
      BY <2>1, <2>3, <2>4, <2>5, <2>6
  <1>. QED
    BY <1>1, <1>2

-----------------------------------------------------------------------------
\* A thread that goes from one place inside to another leaves all but its locks as it is.
LEMMA MoveInv ==
    ASSUME IInv, NEW t \in Threads, NEW to \in Inside \cup {"cancelled"},
           pc[t] \in Inside \ {"init"}, to # "init", pc' = [pc EXCEPT ![t] = to],
           keeping' \subseteq Threads, UNCHANGED <<state, component, disposed, cancelled, control>>
    PROVE  IInv'
  <1>. USE DEF IInv, control
  <1>1. TypeOK'
    BY DEF TypeOK, Inside
  <1>2. Born'
    BY DEF TypeOK, Born, Inside
  <1>3. Busy'
    BY DEF TypeOK, Busy, Inside
  <1>4. Kept'
    BY DEF Kept
  <1>5. Heard'
    BY DEF TypeOK, Heard, Inside
  <1>6. FreedUnderThread'
    BY DEF TypeOK, FreedUnderThread, Inside
  <1>. QED
    BY <1>1, <1>2, <1>3, <1>4, <1>5, <1>6

LEMMA EnterInv == ASSUME IInv, NEW t \in Threads, Enter(t) PROVE IInv'
  <1>. USE DEF IInv, control, Goto, Write
  <1>1. TypeOK'
    BY DEF TypeOK, Enter, States, Inside
  <1>2. Born'
    BY DEF TypeOK, Enter, Born
  <1>3. Busy'
    BY DEF TypeOK, Enter, Busy
  <1>4. Kept'
    BY DEF Enter, Kept
  <1>5. Heard'
    BY DEF TypeOK, Enter, Heard, Born, Inside
  <1>6. FreedUnderThread'
    BY DEF TypeOK, Enter, FreedUnderThread, Inside
  <1>. QED
    BY <1>1, <1>2, <1>3, <1>4, <1>5, <1>6

LEMMA LeaveInv == ASSUME IInv, NEW t \in Threads, Leave(t) PROVE IInv'
  <1>. USE DEF IInv, control, Goto, Write
  <1>1. TypeOK'
    BY DEF TypeOK, Leave, States, Inside
  <1>2. Born'
    BY DEF TypeOK, Leave, Born
  <1>3. Busy'
    BY DEF TypeOK, Leave, Busy
  <1>4. Kept'
    BY DEF Leave, Kept
  <1>5. Heard'
    BY DEF TypeOK, Leave, Heard, Inside
  <1>6. FreedUnderThread'
    BY DEF TypeOK, Leave, FreedUnderThread, Inside
  <1>. QED
    BY <1>1, <1>2, <1>3, <1>4, <1>5, <1>6

LEMMA ThreadInv == ASSUME IInv, NEW t \in Threads, ThreadStep(t) \/ Wake(t) PROVE IInv'
  <1>1. CASE Enter(t)
    BY <1>1, EnterInv
  <1>0. keeping \subseteq Threads
    BY DEF IInv, TypeOK
  <1>2. CASE Block(t)
    BY <1>0, <1>2, MoveInv DEF Block, Goto, Inside
  <1>3. CASE Cancel(t)
    BY <1>0, <1>3, MoveInv DEF Cancel, Goto, Inside
  <1>4. CASE Finish(t)
    BY <1>0, <1>4, MoveInv DEF Finish, Goto, Inside
  <1>5. CASE Test(t)
    BY <1>0, <1>5, MoveInv DEF Test, Goto, Inside
  <1>6. CASE Leave(t)
    BY <1>6, LeaveInv
  <1>7. CASE Wake(t)
    BY <1>0, <1>7, MoveInv DEF Wake, Goto, Inside
  <1>. QED
    BY <1>1, <1>2, <1>3, <1>4, <1>5, <1>6, <1>7 DEF ThreadStep

LEMMA StutterInv == ASSUME IInv, UNCHANGED vars PROVE IInv'
  <1>1. TypeOK' /\ Born' /\ Busy'
    BY DEF IInv, TypeOK, Born, Busy, vars
  <1>2. Kept' /\ Heard' /\ FreedUnderThread'
    BY DEF IInv, Kept, Heard, FreedUnderThread, vars
  <1>. QED
    BY <1>1, <1>2 DEF IInv

LEMMA NextInv == IInv /\ [Next]_vars => IInv'
  <1>1. SUFFICES ASSUME IInv, [Next]_vars PROVE IInv'
    OBVIOUS
  <1>2. CASE MainStep
    BY <1>1, <1>2, StartInv, PickInv, StopTestInv, StopMarkInv, StopWaitInv, StopCancelInv,
       DisposeInv DEF MainStep, StopStep
  <1>3. ASSUME NEW t \in Threads, ThreadStep(t) \/ Wake(t) PROVE IInv'
    BY <1>1, <1>3, ThreadInv
  <1>4. CASE Done \/ UNCHANGED vars
    BY <1>1, <1>4, StutterInv DEF Done
  <1>. QED
    BY <1>1, <1>2, <1>3, <1>4 DEF Next

LEMMA Invariance == Spec => []IInv
  BY InitInv, NextInv, PTL DEF Spec

\* Every field keeps its type: stop_thread's counter ends at most one above its
\* limit, and only the threads of CMP_THREADS are freed on their own.
THEOREM TypeCorrect == Spec => []TypeOK
  BY Invariance, PTL DEF IInv

\* A component is freed under a thread that still works on it only if
\* stop_thread found the thread not running or waited until its limit.
THEOREM FreedOnlyAfterGivingUp == Spec => []FreedUnderThread
  BY Invariance, PTL DEF IInv

\* Only Enter writes RUN, and it finds STARTED, so it overwrites no STOP.
LEMMA StepKeepsStop ==
    ASSUME IInv, [Next]_vars, NEW t \in Threads, state[t] \in {"stop", "stopped", "ready"}
    PROVE  state'[t] # "run"
  <1>1. CASE MainStep
    BY <1>1 DEF IInv, TypeOK, MainStep, StopStep, Start, Pick, StopTest, StopMark, StopWait, StopCancel,
               Dispose
  <1>2. ASSUME NEW u \in Threads, Enter(u) PROVE state'[t] # "run"
    BY <1>2 DEF IInv, TypeOK, Born, Enter, Goto, Write
  <1>3. ASSUME NEW u \in Threads, Block(u) \/ Cancel(u) \/ Finish(u) \/ Test(u) \/ Wake(u)
        PROVE  state'[t] # "run"
    BY <1>3 DEF Block, Cancel, Finish, Test, Wake
  <1>4. ASSUME NEW u \in Threads, Leave(u) PROVE state'[t] # "run"
    BY <1>4 DEF IInv, TypeOK, Leave, Write
  <1>5. CASE Done \/ UNCHANGED vars
    BY <1>5 DEF Done, vars
  <1>. QED
    BY <1>1, <1>2, <1>3, <1>4, <1>5 DEF Next, ThreadStep

\* A thread that was told to stop is never found running again, although the
\* two sides write the field without a lock.
THEOREM StopsAreNotLost == Spec => StopIsNotLost
  <1>1. IInv /\ [Next]_vars
        => [\A t \in Threads : state[t] \in {"stop", "stopped", "ready"} => state'[t] # "run"]_vars
    BY StepKeepsStop
  <1>. QED
    BY Invariance, <1>1, PTL DEF Spec, StopIsNotLost
=============================================================================
