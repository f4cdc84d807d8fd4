------------------------------ MODULE Barrier -------------------------------
(***************************************************************************)
(* barrier_t of lib/lib_threading.c: a gate that opens when gatenum threads*)
(* wait in front of it, again and again.  The code under the mutex, from a *)
(* lock or a wakeup to the next wait or the unlock, is one step.  current  *)
(* counts those who gather or, above the flag, those who still have to     *)
(* leave.  opened and gate are history variables: how often the gate       *)
(* opened, and which of these openings each thread is there for.           *)
(***************************************************************************)
EXTENDS Naturals, FiniteSets

CONSTANTS Threads,
          Gatenum,   \* barrier_t.gatenum
          Flag,      \* BARRIER_FLAG, more than there can be threads
          MaxGates   \* bound: openings

\* A gate for one thread or more; an int32_t does not reach beyond the flag.
GatenumFits == Flag \in Nat /\ Gatenum \in 1 .. Flag /\ "destroyer" \notin Threads

VARIABLES current, place, asleep, destroyer, opened, gate

vars == <<current, place, asleep, destroyer, opened, gate>>

Init ==
    /\ current = 0
    /\ place = [t \in Threads |-> "away"]   \* or "behind" those who leave, or "inside"
    /\ asleep = {}                          \* those in pthread_cond_wait
    /\ destroyer = "none"                   \* the thread in barrier_dtor
    /\ opened = 0 /\ gate = [t \in Threads |-> 0]

\* Mutant of Occupied: a thread enters while others still leave.
NeverOccupied == FALSE

\* The gate is open for those who leave.
Occupied == current > Flag

Broadcast == asleep' = {}

\* The last one opens the gate and leaves at once.
Open(t) ==
    /\ current' = Gatenum + (Flag - 1)
    /\ Broadcast
    /\ place' = [place EXCEPT ![t] = "away"]
    /\ opened' = opened + 1

\* What barrier_wait does until it waits or returns, with n threads gathered.
Enter(t, n) ==
    /\ gate' = [gate EXCEPT ![t] = opened + 1]
    /\ IF n + 1 = Gatenum THEN Open(t)
       ELSE /\ current' = n + 1
            /\ asleep' = asleep \cup {t}
            /\ place' = [place EXCEPT ![t] = "inside"]
            /\ UNCHANGED opened

Arrive(t) ==
    \/ place[t] = "away" /\ destroyer = "none" /\ opened < MaxGates
    \/ place[t] = "behind" /\ t \notin asleep

barrier_wait(t) ==
    /\ Arrive(t)
    /\ IF Occupied
       THEN /\ place' = [place EXCEPT ![t] = "behind"] /\ asleep' = asleep \cup {t}
            /\ UNCHANGED <<current, opened, gate>>
       ELSE Enter(t, IF current = Flag THEN 0 ELSE current)
    /\ UNCHANGED destroyer

\* A thread inside woke up: it sleeps again, or it leaves, the last one with a broadcast.
Leave(t) ==
    /\ place[t] = "inside" /\ t \notin asleep
    /\ IF current < Flag
       THEN asleep' = asleep \cup {t} /\ UNCHANGED <<current, place>>
       ELSE /\ current' = current - 1
            /\ place' = [place EXCEPT ![t] = "away"]
            /\ IF current' = Flag THEN Broadcast ELSE UNCHANGED asleep
    /\ UNCHANGED <<destroyer, opened, gate>>

Inside == {t \in Threads : place[t] = "inside"}
Leaving == {t \in Inside : gate[t] <= opened}

\* barrier_dtor, called when no thread waits for the gate to open, waits until all have left.
barrier_dtor ==
    /\ \/ destroyer = "none" /\ \A t \in Threads : place[t] = "away" \/ t \in Leaving
       \/ destroyer = "waiting" /\ "destroyer" \notin asleep
    /\ IF Occupied
       THEN destroyer' = "waiting" /\ asleep' = asleep \cup {"destroyer"}
       ELSE destroyer' = "done" /\ UNCHANGED asleep
    /\ UNCHANGED <<current, place, opened, gate>>

\* pthread_cond_wait may return without a broadcast.
WakeUp(t) ==
    /\ t \in asleep
    /\ asleep' = asleep \ {t}
    /\ UNCHANGED <<current, place, destroyer, opened, gate>>

Next ==
    \/ \E t \in Threads : barrier_wait(t) \/ Leave(t)
    \/ \E t \in Threads \cup {"destroyer"} : WakeUp(t)
    \/ barrier_dtor

Spec == Init /\ [][Next]_vars

-----------------------------------------------------------------------------
\* The gate lets through those who gathered, all of them and nobody else: none leaves
\* before it opened, none is counted for another opening, and nobody sleeps on in front
\* of an open gate, or behind those who leave when all have left.
BarrierHoldsAll ==
    /\ \A t \in Inside : gate[t] \in {opened, opened + 1}
    /\ IF current >= Flag
       THEN Inside = Leaving /\ Cardinality(Leaving) = current - Flag
       ELSE Leaving = {} /\ Cardinality(Inside) = current
    /\ asleep \cap Leaving = {}
    /\ (\E t \in asleep : t = "destroyer" \/ t \notin Inside) => Leaving # {}

\* The barrier is not freed before all have left whom it let through.
FreedWhenAllLeft == destroyer = "done" => Leaving = {}
=============================================================================
