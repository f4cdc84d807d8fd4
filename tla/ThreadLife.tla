----------------------------- MODULE ThreadLife -----------------------------
(***************************************************************************)
(* How NTRT starts and stops its threads: thread_t of lib/lib_threading.c, *)
(* the entry point LIB_DEF_THREAD (lib/lib_predefs.h) and the components   *)
(* that own a thread, CMP_THREAD and CMP_THREADS (cmp/cmp_predefs.h).      *)
(*                                                                         *)
(* The main thread starts every thread with its component, later it stops  *)
(* them one after the other (_sys_stop) and frees each component.  There   *)
(* is no lock and no join between the two sides: they see each other only  *)
(* through the volatile field state, and stop_thread gives up waiting.     *)
(*                                                                         *)
(* One round of a thread's main loop is: some work, one call that may      *)
(* block and where a cancellation is delivered (usleep, pcap_next, a       *)
(* condition wait, file I/O), some work again, and the loop's test.  The   *)
(* work takes locks; of these the module only knows who has one while it   *)
(* is blocked or after it died, for whoever else needs it waits (Locks).   *)
(***************************************************************************)
EXTENDS Integers

CONSTANTS
    Threads,     \* the threads of the program
    Chained,     \* those of CMP_THREADS (the sniffers); the others are CMP_THREADs
    Finishing,   \* those whose main procedure may return by itself (the interpreter)
    WaitLimit    \* wait_limit of stop_thread

ASSUME ConstantsAssumption ==
    /\ Chained \subseteq Threads /\ Finishing \subseteq Threads
    /\ WaitLimit \in Nat \ {0}

VARIABLES
    state,      \* thread_t.state of each thread
    pc,         \* what each thread does
    component,  \* the component each thread works on
    disposed,   \* the threads whose thread_t is freed
    cancelled,  \* the threads that pthread_cancel was called for
    keeping,    \* the threads that have a lock where they are blocked, or where they died
    main,       \* what the main thread does
    target,     \* the threads not stopped yet; main works on the one it picked
    current,    \* the thread that main is starting or stopping
    wait,       \* stop_thread's counter
    gaveup      \* history: why a component is freed without the thread's consent

vars == <<state, pc, component, disposed, cancelled, keeping, main, target, current, wait, gaveup>>
thread == <<pc, component, disposed, cancelled, keeping>>
control == <<main, target, current, wait, gaveup>>

Init ==
    /\ state = [t \in Threads |-> "constructed"]
    /\ pc = [t \in Threads |-> "none"]
    /\ component = [t \in Threads |-> "none"]
    /\ disposed = {}
    /\ cancelled = {}
    /\ keeping = {}
    /\ main = "starting"
    /\ target = Threads
    /\ current \in Threads
    /\ wait = 0
    /\ gaveup = [t \in Threads |-> "no"]

-----------------------------------------------------------------------------
\* START: the component and the thread_t are made, and the thread is created.
Start(t) ==
    /\ main = "starting"
    /\ pc[t] = "none"
    /\ component' = [component EXCEPT ![t] = "alive"]
    /\ state' = [state EXCEPT ![t] = "started"]
    /\ pc' = [pc EXCEPT ![t] = "init"]
    /\ UNCHANGED <<disposed, cancelled, keeping, control>>

\* STOP: the next component's stop is called.
Pick(t) ==
    /\ main \in {"starting", "next"}
    /\ \A u \in Threads : pc[u] # "none"
    /\ t \in target
    /\ current' = t
    /\ main' = "test"
    /\ wait' = 0
    /\ UNCHANGED <<state, thread, target, gaveup>>

\* Mutant of StopTest: stop_thread does not ask whether the thread runs.
StopAnyState ==
    /\ main = "test"
    /\ main' = "mark"
    /\ UNCHANGED <<state, thread, target, current, wait, gaveup>>

\* stop_thread leaves a thread alone that is not in its main loop.
StopTest ==
    /\ main = "test"
    /\ IF state[current] = "run"
       THEN main' = "mark" /\ gaveup' = gaveup
       ELSE main' = "dispose" /\ gaveup' = [gaveup EXCEPT ![current] = "not running"]
    /\ UNCHANGED <<state, thread, target, current, wait>>

StopMark ==
    /\ main = "mark"
    /\ state' = [state EXCEPT ![current] = "stop"]
    /\ main' = "wait"
    /\ UNCHANGED <<thread, target, current, wait, gaveup>>

\* Mutant of StopWait: a mark that is still there is taken for an answer.
StopWaitHasty ==
    /\ main = "wait"
    /\ IF state[current] = "stopped" \/ wait = WaitLimit - 1
       THEN main' = "cancel" /\ wait' = wait
       ELSE /\ wait' = wait + 1
            /\ main' = IF wait < WaitLimit THEN "wait" ELSE "cancel"
    /\ UNCHANGED <<state, thread, target, current, gaveup>>

\* Mutant of StopWait: the rounds are not counted.
StopWaitForAnswer ==
    /\ main = "wait"
    /\ main' = IF state[current] = "stopped" THEN "cancel" ELSE "wait"
    /\ UNCHANGED <<state, thread, target, current, wait, gaveup>>

\* The loop `while(state != STOPPED && wait++ < wait_limit) sleep(50)'.
StopWait ==
    /\ main = "wait"
    /\ IF state[current] = "stopped"
       THEN main' = "cancel" /\ wait' = wait
       ELSE /\ wait' = wait + 1
            /\ main' = IF wait < WaitLimit THEN "wait" ELSE "cancel"
    /\ UNCHANGED <<state, thread, target, current, gaveup>>

\* Mutant of StopCancel: a thread that does not answer is not cancelled.
StopForgets ==
    /\ main = "cancel"
    /\ gaveup' = IF wait >= WaitLimit THEN [gaveup EXCEPT ![current] = "timeout"] ELSE gaveup
    /\ state' = [state EXCEPT ![current] = "ready"]
    /\ main' = "dispose"
    /\ UNCHANGED <<thread, target, current, wait>>

\* A thread that did not answer in time is cancelled; nobody waits for the
\* cancellation to be delivered.
StopCancel ==
    /\ main = "cancel"
    /\ IF wait >= WaitLimit
       THEN /\ cancelled' = cancelled \cup {current}
            /\ gaveup' = [gaveup EXCEPT ![current] = "timeout"]
       ELSE UNCHANGED <<cancelled, gaveup>>
    /\ state' = [state EXCEPT ![current] = "ready"]
    /\ main' = "dispose"
    /\ UNCHANGED <<pc, component, disposed, keeping, target, current, wait>>

\* A sniffer's thread_t goes to thread_dtor, which stops a thread that runs by
\* now, and is freed; then the component is freed.
Dispose ==
    /\ main = "dispose"
    /\ IF current \in Chained /\ state[current] = "run"
       THEN /\ main' = "mark" /\ wait' = 0
            /\ gaveup' = [gaveup EXCEPT ![current] = "no"]
            /\ UNCHANGED <<component, disposed, target>>
       ELSE /\ main' = "next"
            /\ component' = [component EXCEPT ![current] = "freed"]
            /\ disposed' = IF current \in Chained THEN disposed \cup {current} ELSE disposed
            /\ target' = target \ {current}
            /\ UNCHANGED <<wait, gaveup>>
    /\ UNCHANGED <<state, pc, cancelled, keeping, current>>

\* From its call of stop_thread on, the stop of a component takes no lock.
StopStep == StopTest \/ StopMark \/ StopWait \/ StopCancel \/ Dispose

MainStep == StopStep \/ \E t \in Threads : Start(t) \/ Pick(t)

-----------------------------------------------------------------------------
Goto(t, from, to) == pc[t] = from /\ pc' = [pc EXCEPT ![t] = to]

\* What a thread writes to its state, unless its thread_t is freed.
Write(t, value) ==
    state' = IF t \in disposed THEN state ELSE [state EXCEPT ![t] = value]

\* THR_INIT_PROC_NAME has returned: the thread says that it runs.
Enter(t) ==
    /\ Goto(t, "init", "begin")
    /\ Write(t, "run")
    /\ UNCHANGED <<component, disposed, cancelled, keeping, control>>

\* The call may be made with a lock, as the interpreter's reads are.
Block(t) ==
    /\ Goto(t, "begin", "rest")
    /\ keeping' \in {keeping, keeping \cup {t}}
    /\ UNCHANGED <<state, component, disposed, cancelled, control>>

Wake(t) ==
    /\ t \notin cancelled
    /\ Goto(t, "rest", "finish")
    /\ keeping' = keeping \ {t}
    /\ UNCHANGED <<state, component, disposed, cancelled, control>>

\* The blocking call is where a cancellation is delivered.  No lock is given back, and a
\* condition wait takes its mutex again before the thread dies.
Cancel(t) ==
    /\ t \in cancelled
    /\ Goto(t, "rest", "cancelled")
    /\ keeping' \in {keeping, keeping \cup {t}}
    /\ UNCHANGED <<state, component, disposed, cancelled, control>>

Finish(t) ==
    /\ \/ Goto(t, "finish", "test")
       \/ t \in Finishing /\ Goto(t, "finish", "left")
    /\ UNCHANGED <<state, component, disposed, cancelled, keeping, control>>

\* `while(thread->state == THREAD_STATE_RUN)'; a freed thread_t holds anything.
Test(t) ==
    /\ \/ (t \in disposed \/ state[t] = "run") /\ Goto(t, "test", "begin")
       \/ (t \in disposed \/ state[t] # "run") /\ Goto(t, "test", "left")
    /\ UNCHANGED <<state, component, disposed, cancelled, keeping, control>>

\* The thread says that it is out of its main procedure, and ends.
Leave(t) ==
    /\ Goto(t, "left", "ended")
    /\ Write(t, "stopped")
    /\ UNCHANGED <<component, disposed, cancelled, keeping, control>>

\* What a thread does unless it is blocked, and what ends its blocking.
ThreadStep(t) == Enter(t) \/ Block(t) \/ Cancel(t) \/ Finish(t) \/ Test(t) \/ Leave(t)

\* Everything is stopped; threads that were not told may run on.
Done ==
    /\ target = {}
    /\ UNCHANGED vars

Next == MainStep \/ (\E t \in Threads : ThreadStep(t) \/ Wake(t)) \/ Done

Spec == Init /\ [][Next]_vars

\* A thread goes on unless it waits for a lock that another one keeps: neither a mutex nor an
\* rwlock is a cancellation point.  A blocking call need not return.
Unhindered(t) == keeping \ {t} = {} /\ ThreadStep(t)

\* What stop_thread does needs nothing but the main thread's being scheduled; that main
\* comes to the next stop at all is not assumed.
FairSpec == Spec /\ WF_vars(StopStep) /\ \A t \in Threads : WF_vars(Unhindered(t))

-----------------------------------------------------------------------------
States == {"constructed", "started", "run", "stop", "stopped", "ready"}
Inside == {"init", "begin", "rest", "finish", "test", "left"}

\* Every field keeps its type.
TypeOK ==
    /\ state \in [Threads -> States]
    /\ pc \in [Threads -> Inside \cup {"none", "ended", "cancelled"}]
    /\ component \in [Threads -> {"none", "alive", "freed"}]
    /\ disposed \subseteq Chained /\ cancelled \subseteq Threads /\ keeping \subseteq Threads
    /\ target \subseteq Threads
    /\ main \in {"starting", "next", "test", "mark", "wait", "cancel", "dispose"}
    /\ current \in Threads
    /\ wait \in 0 .. WaitLimit + 1
    /\ gaveup \in [Threads -> {"no", "not running", "timeout"}]

\* A component is freed under a thread that still works on it only if the stop
\* came before the thread ran, or waited in vain until its limit.
FreedUnderThread ==
    \A t \in Threads : component[t] = "freed" /\ pc[t] \in Inside => gaveup[t] # "no"

\* A thread that was told to stop is never found running again: its own RUN
\* does not fall on the STOP of the main thread.
StopIsNotLost ==
    [][\A t \in Threads : state[t] \in {"stop", "stopped", "ready"} => state'[t] # "run"]_vars

\* A stop comes back, although no thread may ever answer.
StopReturns == (main = "test") ~> (main = "next")

\* A thread that was told to stop ends, by itself or cancelled, although what it is blocked in
\* may never return and its thread_t may be gone - unless another thread, blocked or dead, has a
\* lock again and again: stop_thread cancels a thread with the locks it has, and one that then
\* waits for such a lock neither hears the STOP nor can be cancelled.
ToldThreadEnds ==
    \A t \in Threads : (state[t] = "stop" ~> pc[t] \in {"ended", "cancelled"})
                        \/ []<>(keeping \ {t} # {})
=============================================================================
