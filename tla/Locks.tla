------------------------------- MODULE Locks -------------------------------
(***************************************************************************)
(* Who takes which lock of NTRT, and waits for whom, from SETUP to         *)
(* SHUTDOWN: the locks of the dmap tables (dmap/dmap_predefs.h), the mutex *)
(* of the accumulator, the signalled puffer between the relayer and the    *)
(* filewriter, and the lock of the sniffers' table (cmp/cmp_predefs.h).    *)
(*                                                                         *)
(* Every thread works through a script of the calls that its code makes    *)
(* between two waits.  A section of a lock in which nothing is waited for  *)
(* or printed is one step (Touch).  A thread that stop_thread gave up dies *)
(* where a cancellation is delivered, and its locks stay with it.          *)
(*                                                                         *)
(* Left out are the locks of which nobody can wait for more than a leaf's  *)
(* section: the spin locks of the pools, the mutex of the groupcounter,    *)
(* the table of threads, and that of the prototypes, which is only read.   *)
(***************************************************************************)
EXTENDS Integers, Sequences, SequencesExt

CONSTANTS
    Setups,       \* how the program may be set up: its listeners in their order, each with a
                  \* sniffer thread, and whether it has mapped variables, groupcounters and commands
    PufferSize    \* the size of the puffer between relayer and filewriter

Sniffers == UNION {Range(s.listeners) : s \in Setups}
Threads == {"relayer", "filewriter", "interpreter"} \cup Sniffers
Actors == {"main"} \cup Threads

\* Every listener has one sniffer, and the puffer has room.
ASSUME LocksAssumption ==
    /\ PufferSize \in Nat \ {0}
    /\ Sniffers \cap {"main", "relayer", "filewriter", "interpreter"} = {}
    /\ \A s \in Setups : /\ s.full \in BOOLEAN
                         /\ s.listeners \in Seq(Sniffers) /\ IsInjective(s.listeners)

VARIABLES
    setup,      \* the set-up of this run
    todo,       \* what each actor is to do next, up to the end of its round
    held,       \* who has which lock, for reading (r) or writing (w)
    life,       \* what has become of each thread
    state,      \* thread_t.state of each thread
    cancelled,  \* the threads whose cancellation is still to be delivered
    level,      \* how many samples are in the puffer
    asleep,     \* those who wait for the puffer's signal
    slots,      \* the sniffers in their table of threads
    current,    \* fsm_t.current
    gone,       \* SHUTDOWN has come: the tables and their locks are no more
    stops,      \* history: the contexts that carried out a STOP
    left        \* history: a stop left the relayer behind

locks == <<setup, todo, held, life, state, cancelled, level, asleep, slots, current, gone, stops, left>>
threads == <<life, state, cancelled>>
puffer == <<level, asleep>>
machine == <<setup, slots, current, gone, stops, left>>

-----------------------------------------------------------------------------
\* The calls that a script is made of.
Call(op, on) == [op |-> op, on |-> on, mode |-> "-"]
Lock(l, mode) == [op |-> "lock", on |-> l, mode |-> mode]
Touch(l, mode) == [op |-> "touch", on |-> l, mode |-> mode]
Unlock(l) == Call("unlock", l)
PrintIn(l, mode) == [op |-> "print", on |-> l, mode |-> mode]

ForAll(Script(_)) == FlattenSeq([i \in DOMAIN setup.listeners |-> Script(setup.listeners[i])])

\* What is only done with mapped variables, groupcounters or a file of commands.
IfFull(script) == IF setup.full THEN script ELSE << >>

\* con_load_from_file with conf_load and _add_mapped_var.
Load == <<Lock("sysdat", "w"), Lock("pcapls", "w")>> \o IfFull(<<Touch("mapped_var", "w")>>)
    \o <<Unlock("pcapls"), Unlock("sysdat")>>

\* _conlistener_start and _conlistener_stop.
StartSniffer(s) == <<Touch("listeners", "r"), Call("place", s), Call("start", s)>>
StopSniffer(s) == <<Call("find", s)>>

\* _sys_start: accumulator, recorder, evaluator, groupcounter, cmdexecutor, sniffers.
StartScript ==
    <<Touch("pcapls", "r"), Touch("sysdat", "w"),
      Touch("sysdat", "w"), Call("start", "relayer"), Call("start", "filewriter"),
      Touch("pcapls", "r"), Touch("sysdat", "w"),
      Lock("pcapls", "r")>> \o IfFull(<<Touch("sysdat", "w")>>) \o <<Unlock("pcapls")>>
    \o IfFull(<<Call("start", "interpreter")>>)
    \o ForAll(StartSniffer) \o <<Call("enter", "RUN")>>

\* _sys_stop: accumulator, recorder, evaluator, cmdexecutor, groupcounter, sniffers.
StopScript ==
    <<Touch("pcapls", "r"), Call("stop", "relayer"), Call("stop", "filewriter"),
      Touch("pcapls", "r")>>
    \o IfFull(<<Call("stop", "interpreter")>>) \o <<Touch("pcapls", "r")>>
    \o ForAll(StopSniffer) \o <<Call("enter", "HALT")>>

\* fsm_kill.
Kill == <<Call("fire", "STOP"), Call("fire", "SHUTDOWN")>>

\* What the relayer does for a listener: _accumulator_features_requester and the puffer.
Sample(l) == <<Touch("accumulator", "w")>> \o IfFull(<<Touch("mapped_var", "r")>>)
    \o <<Call("put", "puffer")>>

\* Mutant of RelayerRound: the table stays locked between two rounds.
RelayerKeepsTable == <<Lock("pcapls", "w")>> \o ForAll(Sample)

\* _thr_recordsrelayer_main_proc.
RelayerRound == <<Lock("pcapls", "w")>> \o ForAll(Sample)
    \o <<Unlock("pcapls")>>

\* Mutant of FilewriterRound: it asks the listeners' table for its output.
FilewriterAsksTable == <<Call("get", "puffer"), PrintIn("pcapls", "r")>>

\* _thr_filewriter_main_proc, _update_features_file and the puffer's supplier.
FilewriterRound == <<Call("get", "puffer")>> \o IfFull(<<PrintIn("mapped_var", "r")>>)

\* _thr_cmdinterpreter_main_proc and _command_interpreter_process.
InterpreterRound == <<PrintIn("mapped_var", "w")>>

\* _thr_listener_init.
SnifferInit == <<Touch("sysdat", "w"), Lock("pcapls", "r"), Call("open", "device"), Unlock("pcapls")>>

\* _thr_listener_proc_main and _accumulator_record_receiver.
SnifferRound == <<Call("capture", "device"), PrintIn("accumulator", "w")>>

Round(t) ==
    CASE t = "relayer" -> RelayerRound
      [] t = "filewriter" -> FilewriterRound
      [] t = "interpreter" -> InterpreterRound
      [] OTHER -> SnifferRound

-----------------------------------------------------------------------------
LocksInit ==
    /\ setup \in Setups
    /\ todo = [a \in Actors |-> IF a = "main" THEN Load \o StartScript ELSE << >>]
    /\ held = {}
    /\ life = [t \in Threads |-> "none"]
    /\ state = [t \in Threads |-> "ready"]
    /\ cancelled = {}
    /\ level = 0
    /\ asleep = {}
    /\ slots = {}
    /\ current = "HALT"
    /\ gone = FALSE
    /\ stops = {} /\ left = FALSE

\* The next call of a is op.
About(a, op) == Head(todo[a]).op = op

On(a) == Head(todo[a]).on
Done(a) == todo' = [todo EXCEPT ![a] = Tail(@)]

Holds(a, l, mode) == <<a, l, mode>> \in held

\* Those whose hold of l keeps a waiting: nobody's, if it is a table that a itself
\* has locked for writing, for then the call fails and a goes on without.
Blockers(a, l, mode) ==
    IF Holds(a, l, "w") THEN {}
    ELSE {h[1] : h \in {h \in held : h[2] = l /\ "w" \in {h[3], mode}}}

\* a dies where it is and keeps its locks.
Dies(a) ==
    /\ life' = [life EXCEPT ![a] = "dead"]
    /\ todo' = [todo EXCEPT ![a] = << >>]
    /\ asleep' = asleep \ {a}
    /\ cancelled' = cancelled \ {a}
    /\ UNCHANGED <<state, level, machine>>

-----------------------------------------------------------------------------
\* rwmutex_read_lock, rwmutex_write_lock, mutex_lock.
TakeLock(a) ==
    /\ About(a, "lock")
    /\ Blockers(a, On(a), Head(todo[a]).mode) = {}
    /\ held' = IF Holds(a, On(a), "w") THEN held
               ELSE held \cup {<<a, On(a), Head(todo[a]).mode>>}
    /\ Done(a)
    /\ UNCHANGED <<threads, puffer, machine>>

\* A section in which nothing is waited for.
TouchLock(a) ==
    /\ About(a, "touch") \/ About(a, "print")
    /\ Blockers(a, On(a), Head(todo[a]).mode) = {}
    /\ Done(a)
    /\ UNCHANGED <<held, threads, puffer, machine>>

\* What remains when a unlocks l.
Without(a, l) == {h \in held : h[1] # a \/ h[2] # l}

Release(a) ==
    /\ About(a, "unlock")
    /\ held' = Without(a, On(a))
    /\ Done(a)
    /\ UNCHANGED <<threads, puffer, machine>>

\* The output inside the section delivers the cancellation.
DieInSection(a) ==
    /\ About(a, "print")
    /\ Blockers(a, On(a), Head(todo[a]).mode) = {}
    /\ held' = held \cup {<<a, On(a), Head(todo[a]).mode>>}
    /\ Dies(a)

-----------------------------------------------------------------------------
SignalFree == \A h \in held : h[2] # "signal"

Full == level = PufferSize
Empty == level = 0

\* CMP_PUFFER_RECV_PROC_WAIT and CMP_PUFFER_SUPPLY_PROC_WAIT: a sample goes in or
\* out; who waits is woken when the puffer was empty or full.
PutSample ==
    /\ level' = IF Full THEN level ELSE level + 1
    /\ asleep' = IF Empty THEN {} ELSE asleep
GetSample ==
    /\ level' = IF Empty THEN level ELSE level - 1
    /\ asleep' = IF Full THEN {} ELSE asleep

UsePuffer(a) ==
    /\ \/ About(a, "put") /\ ~ Full /\ PutSample
       \/ About(a, "get") /\ ~ Empty /\ GetSample
    /\ SignalFree
    /\ Done(a)
    /\ UNCHANGED <<held, threads, machine>>

\* pthread_cond_wait: the mutex is given back meanwhile.
FallAsleep(a) ==
    /\ (About(a, "put") /\ Full) \/ (About(a, "get") /\ Empty)
    /\ SignalFree
    /\ a \notin cancelled
    /\ asleep' = asleep \cup {a}
    /\ todo' = [todo EXCEPT ![a] = <<Call("resume", On(a))>> \o Tail(@)]
    /\ UNCHANGED <<held, threads, level, machine>>

\* It has the mutex again, looks at the puffer no more, and goes on.
Resume(a) ==
    /\ About(a, "resume") /\ a \notin asleep
    /\ SignalFree
    /\ IF a = "relayer" THEN PutSample ELSE GetSample
    /\ Done(a)
    /\ UNCHANGED <<held, threads, machine>>

\* The wait delivers the cancellation, but not before it has the mutex.
DieInWait(a) ==
    /\ \/ About(a, "resume")
       \/ About(a, "put") /\ Full
       \/ About(a, "get") /\ Empty
    /\ SignalFree
    /\ held' = held \cup {<<a, "signal", "w">>}
    /\ Dies(a)

-----------------------------------------------------------------------------
\* start_thread.
StartThread(a) ==
    /\ About(a, "start")
    /\ life' = [life EXCEPT ![On(a)] = "init"]
    /\ state' = [state EXCEPT ![On(a)] = "started"]
    /\ todo' = [todo EXCEPT ![a] = Tail(@),
                            ![On(a)] = IF On(a) \in Sniffers THEN SnifferInit ELSE << >>]
    /\ UNCHANGED <<held, cancelled, puffer, machine>>

\* stop_thread: it leaves a thread alone that is not in its main loop.
StopThread(a) ==
    /\ About(a, "stop")
    /\ IF state[On(a)] = "run"
       THEN /\ state' = [state EXCEPT ![On(a)] = "stop"]
            /\ todo' = [todo EXCEPT ![a] = <<Call("await", On(a))>> \o Tail(@)]
            /\ left' = left
       ELSE /\ left' = (left \/ (On(a) = "relayer" /\ life["relayer"] \in {"init", "loop"}))
            /\ Done(a)
            /\ UNCHANGED state
    /\ UNCHANGED <<setup, held, life, cancelled, puffer, slots, current, gone, stops>>

Await(a) ==
    /\ About(a, "await")
    /\ state[On(a)] = "stopped"
    /\ state' = [state EXCEPT ![On(a)] = "ready"]
    /\ Done(a)
    /\ UNCHANGED <<held, life, cancelled, puffer, machine>>

GiveUp(a) ==
    /\ About(a, "await")
    /\ state[On(a)] # "stopped"
    /\ state' = [state EXCEPT ![On(a)] = "ready"]
    /\ cancelled' = cancelled \cup {On(a)}
    /\ left' = (left \/ On(a) = "relayer")
    /\ Done(a)
    /\ UNCHANGED <<setup, held, life, puffer, slots, current, gone, stops>>

\* Whether t goes on: a sniffer that lost its thread_t reads anything in its place.
MayGoOn(t) == state[t] = "run" \/ (t \in Sniffers \ slots /\ state[t] # "stop")
MayEnd(t) == state[t] # "run" \/ t = "interpreter" \/ t \in Sniffers \ slots

\* LIB_DEF_THREAD: the initialisation is over, or a round.
NextRound(t) ==
    /\ ~ gone /\ todo[t] = << >>
    /\ \/ /\ life[t] = "init"
          /\ state' = [state EXCEPT ![t] = "run"]
       \/ /\ life[t] = "loop" /\ MayGoOn(t)
          /\ UNCHANGED state
    /\ life' = [life EXCEPT ![t] = "loop"]
    /\ todo' = [todo EXCEPT ![t] = Round(t)]
    /\ UNCHANGED <<held, cancelled, puffer, machine>>

EndThread(t) ==
    /\ ~ gone /\ todo[t] = << >> /\ life[t] = "loop"
    /\ MayEnd(t)
    /\ life' = [life EXCEPT ![t] = "ended"]
    /\ state' = [state EXCEPT ![t] = "stopped"]
    /\ cancelled' = cancelled \ {t}
    /\ UNCHANGED <<todo, held, puffer, machine>>

-----------------------------------------------------------------------------
\* pcap_next brings a packet or its timeout, or nothing for ever.
Capture(s) ==
    /\ About(s, "capture")
    /\ Done(s)
    /\ UNCHANGED <<held, threads, puffer, machine>>

DieInCapture(s) ==
    /\ About(s, "capture")
    /\ Dies(s)
    /\ UNCHANGED held

\* The device is opened, or is not, and the sniffer calls fsm_kill with the
\* listeners' table locked.
Open(s) ==
    /\ About(s, "open")
    /\ Done(s)
    /\ UNCHANGED <<held, threads, puffer, machine>>

FailToOpen(s) ==
    /\ About(s, "open")
    /\ todo' = [todo EXCEPT ![s] = Kill \o Tail(@)]
    /\ UNCHANGED <<held, threads, puffer, machine>>

-----------------------------------------------------------------------------
\* The sniffer gets a slot in the table, which is locked meanwhile.
Place(a) ==
    /\ About(a, "place") /\ Blockers(a, "listeners", "w") = {}
    /\ slots' = slots \cup {On(a)}
    /\ Done(a)
    /\ UNCHANGED <<setup, held, threads, puffer, current, gone, stops, left>>

\* Mutant of FindSniffer: the lock is kept until the sniffer is stopped, and longer.
FindKeepsLock(a) ==
    /\ About(a, "find") /\ Blockers(a, "listeners", "w") = {}
    /\ held' = held \cup {<<a, "listeners", "w">>}
    /\ IF On(a) \in slots
       THEN todo' = [todo EXCEPT ![a] = <<Call("stop", On(a))>> \o Tail(@)]
       ELSE Done(a)
    /\ slots' = slots \ {On(a)}
    /\ UNCHANGED <<setup, threads, puffer, current, gone, stops, left>>

\* _conlistener_stop: the table is locked, the sniffer is taken out, and the table
\* is unlocked; but when the sniffer is not in it, the call returns before the unlock.
FindSniffer(a) ==
    /\ About(a, "find") /\ Blockers(a, "listeners", "w") = {}
    /\ IF On(a) \in slots
       THEN /\ held' = Without(a, "listeners")
            /\ todo' = [todo EXCEPT ![a] = <<Call("stop", On(a))>> \o Tail(@)]
       ELSE /\ held' = held \cup {<<a, "listeners", "w">>}
            /\ Done(a)
    /\ slots' = slots \ {On(a)}
    /\ UNCHANGED <<setup, threads, puffer, current, gone, stops, left>>

\* main, or the SIGINT handler on top of it, calls fsm_kill once all is started.
CallKill ==
    /\ ~ gone /\ todo["main"] = << >>
    /\ todo' = [todo EXCEPT !["main"] = Kill]
    /\ UNCHANGED <<held, threads, puffer, machine>>

\* _fsm_fire with _fsm_run_trans and _fsm_halt_trans.  What goes on after a SHUTDOWN
\* is not looked at: the tables and their locks are freed.
Fire(a) ==
    /\ About(a, "fire")
    /\ IF On(a) = "STOP" /\ current = "RUN"
       THEN /\ todo' = [todo EXCEPT ![a] = StopScript \o Tail(@)]
            /\ stops' = stops \cup {a}
            /\ UNCHANGED <<gone, held, asleep>>
       ELSE IF On(a) = "SHUTDOWN" /\ current = "HALT"
       THEN /\ gone' = TRUE
            /\ todo' = [b \in Actors |-> << >>]
            /\ held' = {} /\ asleep' = {}
            /\ UNCHANGED stops
       ELSE Done(a) /\ UNCHANGED <<gone, held, asleep, stops>>
    /\ UNCHANGED <<setup, threads, level, slots, current, left>>

\* this->current = ..., when the transition has returned.
Enter(a) ==
    /\ About(a, "enter")
    /\ current' = On(a)
    /\ Done(a)
    /\ UNCHANGED <<setup, held, threads, puffer, slots, gone, stops, left>>

-----------------------------------------------------------------------------
\* What an actor does next.
Step(a) ==
    /\ todo[a] # << >>
    /\ \/ TakeLock(a) \/ TouchLock(a) \/ Release(a)
       \/ UsePuffer(a) \/ FallAsleep(a) \/ Resume(a)
       \/ StartThread(a) \/ StopThread(a) \/ Await(a) \/ GiveUp(a)
       \/ Place(a) \/ FindSniffer(a) \/ Fire(a) \/ Enter(a)
       \/ Open(a) \/ FailToOpen(a) \/ Capture(a)

Die(t) ==
    /\ t \in cancelled /\ todo[t] # << >>
    /\ DieInSection(t) \/ DieInWait(t) \/ DieInCapture(t)

\* A relayer that STOP left behind has the listeners' table.
TableIsLost == left /\ Holds("relayer", "pcapls", "w")

\* Nothing goes on after a SHUTDOWN, and perhaps nothing without the table.
Stuck == (gone \/ TableIsLost) /\ UNCHANGED locks

LocksNext ==
    \/ \E a \in Actors : Step(a)
    \/ \E t \in Threads : NextRound(t) \/ EndThread(t) \/ Die(t)
    \/ CallKill \/ Stuck

LocksSpec == LocksInit /\ [][LocksNext]_locks

-----------------------------------------------------------------------------
\* Those that a waits for: the holders of its next lock, or whoever serves the
\* other end of the puffer that it sleeps on.
WaitsFor(a) ==
    IF todo[a] = << >> THEN {}
    ELSE IF Head(todo[a]).op \in {"lock", "touch", "print"} THEN Blockers(a, On(a), Head(todo[a]).mode)
    ELSE IF Head(todo[a]).op \in {"find", "place"} THEN Blockers(a, "listeners", "w")
    ELSE IF a \in asleep THEN {IF a = "relayer" THEN "filewriter" ELSE "relayer"}
    ELSE IF Head(todo[a]).op \in {"put", "get", "resume"}
         THEN {h[1] : h \in {h \in held : h[2] = "signal"}}
    ELSE {}

\* Nobody ever waits for a lock or a sample that only those who wait for him can
\* give: whatever the tables, the accumulator and the puffer are locked for, and
\* though SETUP takes sysdat and pcapls the other way round than START does, and a
\* sniffer that cannot open its device carries out a STOP inside its own section.
NoCircularWait ==
    \A S \in SUBSET {a \in Actors : WaitsFor(a) # {}} :
        S # {} => \E a \in S : WaitsFor(a) \cap S = {}

\* Those who may still give back what they have.
Alive == {t \in Threads : life[t] \in {"init", "loop"}} \cup {a \in {"main"} : todo[a] # << >>}

\* Who carries out a STOP waits, himself or through those he waits for, only for
\* actors that are alive, though no thread may answer, those that were cancelled
\* died with their locks, and the lock of the sniffers' table may be leaked: unless
\* a STOP left the relayer behind with the listeners' table.
StopIsServed ==
    stops = {} \/ gone \/ TableIsLost
    \/ \E S \in SUBSET Alive : stops \subseteq S /\ \A a \in S : WaitsFor(a) \subseteq S

\* Somebody has the lock of the sniffers' table outside of start and stop.
LockIsLeaked == \E a \in Actors : Holds(a, "listeners", "w")

\* The lock of the sniffers' table leaks only when two STOPs were carried out.
LeakNeedsTwoStops == LockIsLeaked => \E a, b \in stops : a # b
=============================================================================
