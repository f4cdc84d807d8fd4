------------------------------- MODULE Machine -------------------------------
(***************************************************************************)
(* The state machine of NTRT (fsm/fsm.c, fsm_halt.c, fsm_run.c) and those  *)
(* who fire its events: program_main (ntrt.c), the SIGINT handler, which   *)
(* runs on top of main, and a sniffer whose device cannot be opened.       *)
(*                                                                         *)
(* fire() takes no lock.  It looks at the state, makes the calls of the    *)
(* transition one by one, and writes the state that the transition returns *)
(* in the end, so that everybody else may come in between.  A call of a    *)
(* component is one step: what happens inside is the matter of ThreadLife, *)
(* Accumulator and FlowCounter.  What SETUP loads into the tables and      *)
(* SHUTDOWN removes from them is not part of the module.                   *)
(***************************************************************************)
EXTENDS Naturals, Sequences, FiniteSets, SequencesExt

CONSTANTS
    Main,        \* the main thread
    Handler,     \* the SIGINT handler, which interrupts main
    Sniffers,    \* the sniffer threads, one for each pcap listener
    MaxSignals   \* bound: how often SIGINT comes

\* Those who fire events.
Contexts == {Main, Handler} \cup Sniffers

Servers == {"accumulator", "recorder", "evaluator", "groupcounter", "cmdexecutor"}
Components == Servers \cup {"sniffer"}
Parts == Components \cup Sniffers

\* Those whose stop goes through stop_thread: recorder has two threads, cmdexecutor one.
Threaded == {"recorder", "cmdexecutor"} \cup Sniffers

ASSUME ConstantsAssumption ==
    /\ Main # Handler /\ Main \notin Sniffers /\ Handler \notin Sniffers
    /\ IsFiniteSet(Sniffers) /\ Sniffers \cap Components = {}
    /\ MaxSignals \in Nat

VARIABLES
    current,   \* fsm_t.current
    agenda,    \* the events each context is to fire, the one it fires now first
    doing,     \* the transition each context is in
    step,      \* the next call of that transition
    ret,       \* what the transition returns
    life,      \* what has become of each component and each sniffer thread
    opening,   \* the sniffers whose thread is in its initialisation
    timed,     \* the program was started with -t
    mainpc,    \* where program_main is
    signals,   \* how often SIGINT came
    phase,     \* history: what became of the components as a whole
    why,       \* history: reasons for a misuse
    misused,   \* history: a call found its component in a state it cannot be used in
    abandoned  \* a stop left a thread behind, which may keep what later calls wait for

vars == <<current, agenda, doing, step, ret, life, opening, timed, mainpc, signals,
          phase, why, misused, abandoned>>
history == <<phase, why, misused, abandoned>>

-----------------------------------------------------------------------------
Op(op, parts) == [i \in 1 .. Len(parts) |-> [op |-> op, on |-> parts[i]]]

\* The rows of the table of listeners in their order.
Table == SetToSeq(Sniffers)

Made == <<"sniffer", "evaluator", "recorder", "accumulator", "groupcounter", "cmdexecutor">>

\* Mutant of Started: the sniffers first.
StartedLate == Table \o <<"accumulator", "recorder", "evaluator", "groupcounter", "cmdexecutor">>

Started == <<"accumulator", "recorder", "evaluator", "groupcounter", "cmdexecutor">> \o Table
Stopped == <<"accumulator", "recorder", "evaluator", "cmdexecutor", "groupcounter">> \o Table

\* The calls that each transition makes.
Calls == [SETUP    |-> Op("build", Made),
          START    |-> Op("start", Started),
          STOP     |-> Op("stop", Stopped),
          SHUTDOWN |-> Op("free", Made),
          IGNORE   |-> << >>]

\* Mutant of Transition: a STOP is carried out in every state.
StopInAnyState(state, event) ==
    IF state = "RUN" /\ event # "STOP" THEN "IGNORE" ELSE event

\* _fsm_halt_trans and _fsm_run_trans: what is done upon an event.
Transition(state, event) ==
    IF (state = "RUN" /\ event = "STOP") \/ (state = "HALT" /\ event # "STOP")
    THEN event ELSE "IGNORE"

Result(transition) == IF transition = "START" THEN "RUN" ELSE "HALT"

\* In which state a call must find its part, and in which it leaves it.
Before == [build |-> "absent", start |-> "idle", stop |-> "started", free |-> "idle"]
After == [build |-> "idle", start |-> "started", stop |-> "idle", free |-> "freed"]

-----------------------------------------------------------------------------
Init ==
    /\ current = "HALT"
    /\ agenda = [c \in Contexts |-> IF c = Main THEN <<"SETUP", "START">> ELSE << >>]
    /\ doing = [c \in Contexts |-> "NOTHING"]
    /\ step = [c \in Contexts |-> 1]
    /\ ret = [c \in Contexts |-> "UNKNOWN"]
    /\ life = [p \in Parts |-> IF p \in Components THEN "absent" ELSE "idle"]
    /\ opening = {}
    /\ timed \in BOOLEAN
    /\ mainpc = "up"
    /\ signals = 0
    /\ phase = "new"
    /\ why = {}
    /\ misused = FALSE
    /\ abandoned = FALSE

\* Main goes on only when the handler has returned; the process ends with main.
MayRun(c) ==
    /\ mainpc # "ended"
    /\ c = Main => agenda[Handler] = << >>

InFire(c) == doing[c] # "NOTHING"

\* fire() is called and looks at the state.
Begin(c) ==
    /\ MayRun(c)
    /\ agenda[c] # << >> /\ ~ InFire(c)
    /\ LET event == Head(agenda[c])
           chosen == Transition(current, event)
           overlap == \E d \in Contexts : InFire(d)
           untimely == chosen \in {"START", "SHUTDOWN"} /\ phase # "set"
       IN /\ doing' = [doing EXCEPT ![c] = chosen]
          /\ ret' = [ret EXCEPT ![c] = IF chosen = "IGNORE" THEN "UNKNOWN" ELSE Result(chosen)]
          /\ why' = why \cup (IF overlap THEN {"overlap"} ELSE {})
                        \cup (IF untimely THEN {"untimely"} ELSE {})
    /\ step' = [step EXCEPT ![c] = 1]
    /\ UNCHANGED <<current, agenda, life, opening, timed, mainpc, signals, phase, misused, abandoned>>

\* The next call of the transition.  stop_thread leaves a thread alone that is not in its loop,
\* and cancels one that does not answer, with the locks it has (ThreadLife, Locks).
Call(c) ==
    /\ MayRun(c)
    /\ InFire(c) /\ step[c] <= Len(Calls[doing[c]])
    /\ LET op == Calls[doing[c]][step[c]].op
           p == Calls[doing[c]][step[c]].on
           itself == op = "stop" /\ p = c
           wrong == \/ life[p] # Before[op]
                    \/ p \in Sniffers /\ life["sniffer"] # "idle"
       IN /\ life' = IF op = "build" /\ wrong THEN life ELSE [life EXCEPT ![p] = After[op]]
          /\ opening' = IF op = "start" /\ p \in Sniffers THEN opening \cup {p} ELSE opening
          /\ misused' = (misused \/ itself \/ (wrong /\ op # "build"))
          /\ why' = IF itself THEN why \cup {"itself"} ELSE why
          /\ abandoned' \in IF op = "stop" /\ p \in Threaded THEN {abandoned, TRUE} ELSE {abandoned}
    /\ step' = [step EXCEPT ![c] = @ + 1]
    /\ UNCHANGED <<current, agenda, doing, ret, timed, mainpc, signals, phase>>

\* An event without a transition returns the state, which is read once more.
Read(c) ==
    /\ MayRun(c)
    /\ doing[c] = "IGNORE" /\ ret[c] = "UNKNOWN"
    /\ ret' = [ret EXCEPT ![c] = current]
    /\ UNCHANGED <<current, agenda, doing, step, life, opening, timed, mainpc, signals, history>>

\* What has become of the components as a whole when a transition is over.
Outcome(transition) ==
    IF transition = "SETUP" THEN "set" ELSE IF transition = "SHUTDOWN" THEN "shut" ELSE phase

\* Mutant of Finish: the state is not written.
FinishSilently(c) ==
    /\ MayRun(c)
    /\ InFire(c) /\ step[c] > Len(Calls[doing[c]]) /\ ret[c] # "UNKNOWN"
    /\ current' = IF ret[c] = "RUN" THEN "RUN" ELSE current
    /\ phase' = Outcome(doing[c])
    /\ doing' = [doing EXCEPT ![c] = "NOTHING"]
    /\ agenda' = [agenda EXCEPT ![c] = Tail(@)]
    /\ UNCHANGED <<step, ret, life, opening, timed, mainpc, signals, why, misused, abandoned>>

\* this->current = ..., the end of fire().
Finish(c) ==
    /\ MayRun(c)
    /\ InFire(c) /\ step[c] > Len(Calls[doing[c]]) /\ ret[c] # "UNKNOWN"
    /\ current' = ret[c]
    /\ phase' = Outcome(doing[c])
    /\ doing' = [doing EXCEPT ![c] = "NOTHING"]
    /\ agenda' = [agenda EXCEPT ![c] = Tail(@)]
    /\ UNCHANGED <<step, ret, life, opening, timed, mainpc, signals, why, misused, abandoned>>

-----------------------------------------------------------------------------
\* fsm_kill, which program_main repeats in its end.
Kill == <<"STOP", "SHUTDOWN">>

\* SIGINT: main is interrupted, between any two of its steps, and calls fsm_kill.
Interrupt ==
    /\ mainpc # "ended"
    /\ signals < MaxSignals
    /\ agenda[Handler] = << >>
    /\ signals' = signals + 1
    /\ agenda' = [agenda EXCEPT ![Handler] = Kill]
    /\ UNCHANGED <<current, doing, step, ret, life, opening, timed, mainpc, history>>

\* A sniffer opens its device and captures from now on.
OpenDevice(s) ==
    /\ mainpc # "ended"
    /\ s \in opening /\ agenda[s] = << >>
    /\ opening' = opening \ {s}
    /\ UNCHANGED <<current, agenda, doing, step, ret, life, timed, mainpc, signals, history>>

\* It cannot, and calls fsm_kill.
FailDevice(s) ==
    /\ mainpc # "ended"
    /\ s \in opening /\ agenda[s] = << >>
    /\ opening' = opening \ {s}
    /\ agenda' = [agenda EXCEPT ![s] = Kill]
    /\ UNCHANGED <<current, doing, step, ret, life, timed, mainpc, signals, history>>

\* Mutant of TimeOver: main waits for the end of its time only in RUN.
TimeOverInRun ==
    /\ mainpc = "up" /\ timed /\ current = "RUN"
    /\ agenda[Main] = << >> /\ agenda[Handler] = << >>
    /\ mainpc' = "closing"
    /\ agenda' = [agenda EXCEPT ![Main] = Kill]
    /\ UNCHANGED <<current, doing, step, ret, life, opening, timed, signals, history>>

\* The loop of program_main ends, which it does only with -t.
TimeOver ==
    /\ mainpc = "up" /\ timed
    /\ agenda[Main] = << >> /\ agenda[Handler] = << >>
    /\ mainpc' = "closing"
    /\ agenda' = [agenda EXCEPT ![Main] = Kill]
    /\ UNCHANGED <<current, doing, step, ret, life, opening, timed, signals, history>>

\* main returns.
Leave ==
    /\ mainpc = "closing"
    /\ agenda[Main] = << >> /\ agenda[Handler] = << >>
    /\ mainpc' = "ended"
    /\ UNCHANGED <<current, agenda, doing, step, ret, life, opening, timed, signals, history>>

Fire(c) == Begin(c) \/ Call(c) \/ Read(c) \/ Finish(c)

Next ==
    \/ \E c \in Contexts : Fire(c)
    \/ \E s \in Sniffers : OpenDevice(s) \/ FailDevice(s)
    \/ Interrupt \/ TimeOver \/ Leave

\* The steps that are sure to be made.  A call of a component may wait for a lock: nobody waits
\* in a circle, and a STOP only for the living (NoCircularWait and StopIsServed of Locks), until
\* a thread is left behind, which may keep the table of listeners or another lock for ever.
Sure(c) == Begin(c) \/ Read(c) \/ Finish(c) \/ (~ abandoned /\ Call(c))

\* Every thread is scheduled, and a call returns as long as no thread was left behind.
Fairness ==
    /\ WF_vars(Sure(Main) \/ TimeOver \/ Leave)
    /\ \A c \in Contexts \ {Main} : WF_vars(Sure(c))

Spec == Init /\ [][Next]_vars
FairSpec == Spec /\ Fairness

-----------------------------------------------------------------------------
States == {"HALT", "RUN"}
Events == {"SETUP", "START", "STOP", "SHUTDOWN"}

\* Every field keeps its type; a transition never runs past its calls.
TypeOK ==
    /\ current \in States
    /\ agenda \in [Contexts -> {<< >>, <<"SETUP", "START">>, <<"START">>, Kill, <<"SHUTDOWN">>}]
    /\ doing \in [Contexts -> Events \cup {"IGNORE", "NOTHING"}]
    /\ step \in [Contexts -> 1 .. 7 + Len(Table)]
    /\ ret \in [Contexts -> States \cup {"UNKNOWN"}]
    /\ life \in [Parts -> {"absent", "idle", "started", "freed"}]
    /\ opening \subseteq Sniffers
    /\ timed \in BOOLEAN
    /\ mainpc \in {"up", "closing", "ended"}
    /\ signals \in 0 .. MaxSignals
    /\ phase \in {"new", "set", "shut"}
    /\ why \subseteq {"overlap", "untimely", "itself"}
    /\ misused \in BOOLEAN
    /\ abandoned \in BOOLEAN

\* A component is never started twice, stopped unstarted, or freed while it is
\* started or already freed, unless two fires overlapped, an event that HALT
\* accepts came before SETUP or after SHUTDOWN (HALT is both), or a sniffer that
\* could not open its device stopped itself.
MisuseHasACause == misused => why # {}

\* Without an overlap or an untimely event the state tells the truth whenever
\* nobody is in fire(): in RUN everything is started, in HALT nothing is.
StateIsTrue ==
    (why \cap {"overlap", "untimely"} = {} /\ \A c \in Contexts : ~ InFire(c))
    => \A p \in Servers \cup Sniffers : life[p] = "started" <=> current = "RUN"

\* Without those two a sniffer captures only while everything that its packets
\* and the relayer's requests reach is started, but for the time of a STOP.
ServersComeFirst ==
    (why \cap {"overlap", "untimely"} = {} /\ \A c \in Contexts : doing[c] # "STOP")
    => \A s \in Sniffers : life[s] = "started" => \A p \in Servers : life[p] = "started"

\* With -t the program ends, whatever signals come between two calls and devices fail, unless
\* a component was misused (what such a call does is undefined), or a stop left a thread
\* behind: a relayer that was cancelled with the table of listeners keeps the same STOP waiting.
TimedRunEnds == timed ~> (mainpc = "ended" \/ misused \/ abandoned)

\* fsm_kill says "The program is terminated" (fsm/fsm.c): once the machine is
\* shut down, and nothing went wrong on the way, the program ends.
KillEndsProgram == (phase = "shut" /\ why = {}) ~> (mainpc = "ended" \/ why # {})
=============================================================================
