--------------------------- MODULE MachineProofs ----------------------------
(***************************************************************************)
(* Proofs about Machine for any number of sniffers and signals: its types, *)
(* that a component is misused only for a reason, that the state is true,  *)
(* and that sniffers run only while what they call is started.             *)
(*                                                                         *)
(* fire() takes no lock, so nothing holds once two of them have overlapped *)
(* or an event came untimely.  As long as neither has happened (Calm) one  *)
(* context at most is in fire, and how far it is in its transition is how  *)
(* far the life of the components is: those behind the next call have got  *)
(* what the call gives them, those before it have what the call needs.     *)
(*                                                                         *)
(* And about Program, for command lines of any length: what is read of one *)
(* is what was asked for.                                                  *)
(*                                                                         *)
(* And about Trees, for any number of nodes: that a tree is a sorted bag   *)
(* all the time.  The links of a tree are functions on memory, and a third *)
(* function D, from a node to the nodes below it, says how they hang       *)
(* together (Shape); what a call does to the links it does to D.           *)
(***************************************************************************)
EXTENDS Machine, Program, Trees, SequenceTheorems, FiniteSetTheorems, NaturalsInduction,
        WellFoundedInduction, TLAPS

-----------------------------------------------------------------------------
(***************************************************************************)
(* The calls of a transition: each part it is about comes once.            *)
(***************************************************************************)

\* A sequence that goes through the members of S, each of them once.
Enumerates(s, S) ==
    /\ s \in Seq(S)
    /\ \A i, j \in 1 .. Len(s) : s[i] = s[j] => i = j
    /\ \A x \in S : \E i \in 1 .. Len(s) : s[i] = x

LEMMA TableEnumerates == Enumerates(Table, Sniffers)
<1> DEFINE n == Cardinality(Sniffers)
<1>1. n \in Nat /\ IsFiniteSet(1 .. n) /\ Cardinality(1 .. n) = n
  BY FS_CardinalityType, FS_Interval, ConstantsAssumption
<1>2. \E f \in [1 .. n -> Sniffers] : IsInjective(f)
  <2>1. ExistsBijection(1 .. n, Sniffers)
    BY FS_CardinalityType, ConstantsAssumption
  <2>. QED
    BY <2>1 DEF ExistsBijection, Bijection, Injection
<1>3. Table \in [1 .. n -> Sniffers] /\ IsInjective(Table)
  BY <1>2 DEF Table, SetToSeq
<1>4. Table \in Surjection(1 .. n, Sniffers)
  <2>1. Table \in Injection(1 .. n, Sniffers)
    BY <1>3 DEF Injection
  <2>. QED
    BY <2>1, <1>1, FS_Injection, ConstantsAssumption
<1>5. Table \in Seq(Sniffers) /\ Len(Table) = n
  BY <1>1, <1>3, SeqDef, LenProperties
<1>. QED
  BY <1>3, <1>4, <1>5 DEF Enumerates, IsInjective, Surjection

Transitions == {"SETUP", "START", "STOP", "SHUTDOWN"}

\* What a transition does to its parts, and which these are in their order.
Deed(t) == IF t = "SETUP" THEN "build" ELSE IF t = "START" THEN "start"
           ELSE IF t = "STOP" THEN "stop" ELSE "free"
Through(t) == IF t = "START" THEN Started ELSE IF t = "STOP" THEN Stopped ELSE Made
Concerned(t) == IF t \in {"START", "STOP"} THEN Servers \cup Sniffers ELSE Components

\* Five servers in front of the table of listeners.
LEMMA ServersThenTable ==
    ASSUME NEW five \in Seq(Servers), Enumerates(five, Servers), Len(five) = 5
    PROVE  /\ Enumerates(five \o Table, Servers \cup Sniffers)
           /\ Len(five \o Table) = 5 + Len(Table)
           /\ \A i \in 1 .. 5 : (five \o Table)[i] = five[i]
<1> DEFINE s == five \o Table
<1>1. Table \in Seq(Sniffers) /\ Len(Table) \in Nat
  BY TableEnumerates, LenProperties DEF Enumerates
<1>2. five \in Seq(Servers \cup Sniffers) /\ Table \in Seq(Servers \cup Sniffers)
  BY <1>1
<1>3. /\ s \in Seq(Servers \cup Sniffers)
      /\ Len(s) = 5 + Len(Table)
      /\ \A i \in 1 .. 5 + Len(Table) : s[i] = IF i <= 5 THEN five[i] ELSE Table[i - 5]
  <2>1. /\ s \in Seq(Servers \cup Sniffers)
        /\ Len(s) = Len(five) + Len(Table)
        /\ \A i \in 1 .. Len(five) + Len(Table) :
              s[i] = IF i <= Len(five) THEN five[i] ELSE Table[i - Len(five)]
    BY <1>2, ConcatProperties, Zenon
  <2>. QED
    BY <2>1
<1> HIDE DEF s
<1>4. \A i \in 1 .. Len(s) : \/ i \in 1 .. 5 /\ s[i] = five[i] /\ s[i] \in Servers
                             \/ i - 5 \in 1 .. Len(Table) /\ s[i] = Table[i - 5] /\ s[i] \in Sniffers
  <2> SUFFICES ASSUME NEW i \in 1 .. Len(s)
               PROVE  \/ i \in 1 .. 5 /\ s[i] = five[i] /\ s[i] \in Servers
                      \/ i - 5 \in 1 .. Len(Table) /\ s[i] = Table[i - 5] /\ s[i] \in Sniffers
    OBVIOUS
  <2>1. CASE i <= 5
    <3>1. i \in 1 .. 5 /\ s[i] = five[i]
      BY <2>1, <1>1, <1>3
    <3>2. five[i] \in Servers
      BY <3>1, ElementOfSeq
    <3>. QED
      BY <3>1, <3>2
  <2>2. CASE i > 5
    <3>1. i - 5 \in 1 .. Len(Table) /\ s[i] = Table[i - 5]
      BY <2>2, <1>1, <1>3
    <3>2. Table[i - 5] \in Sniffers
      BY <3>1, <1>1, ElementOfSeq
    <3>. QED
      BY <3>1, <3>2
  <2>. QED
    BY <2>1, <2>2
<1>5. \A x : ~ (x \in Servers /\ x \in Sniffers)
  BY ConstantsAssumption DEF Components
<1>6. \A i, j \in 1 .. Len(s) : s[i] = s[j] => i = j
  <2> SUFFICES ASSUME NEW i \in 1 .. Len(s), NEW j \in 1 .. Len(s), s[i] = s[j]
               PROVE  i = j
    OBVIOUS
  <2>1. CASE i \in 1 .. 5 /\ j \in 1 .. 5 /\ five[i] = five[j]
    BY <2>1 DEF Enumerates
  <2>2. CASE /\ i - 5 \in 1 .. Len(Table) /\ j - 5 \in 1 .. Len(Table)
             /\ Table[i - 5] = Table[j - 5]
    <3>1. \A k, l \in 1 .. Len(Table) : Table[k] = Table[l] => k = l
      BY TableEnumerates DEF Enumerates
    <3>2. i - 5 = j - 5
      BY <2>2, <3>1
    <3>. QED
      BY <3>2, <1>1, <1>3
  <2>. QED
    BY <2>1, <2>2, <1>4, <1>5
<1>7. \A x \in Servers \cup Sniffers : \E i \in 1 .. Len(s) : s[i] = x
  <2> SUFFICES ASSUME NEW x \in Servers \cup Sniffers
               PROVE  \E i \in 1 .. Len(s) : s[i] = x
    OBVIOUS
  <2>1. CASE x \in Servers
    <3>1. PICK i \in 1 .. 5 : five[i] = x
      BY <2>1 DEF Enumerates
    <3>. QED
      BY <3>1, <1>1, <1>3
  <2>2. CASE x \in Sniffers
    <3>1. PICK j \in 1 .. Len(Table) : Table[j] = x
      BY <2>2, TableEnumerates DEF Enumerates
    <3>2. j + 5 \in 1 .. Len(s) /\ ~ (j + 5 <= 5) /\ (j + 5) - 5 = j
      BY <1>1, <1>3
    <3>3. s[j + 5] = Table[j]
      BY <1>1, <1>3, <3>2
    <3>. QED
      BY <3>1, <3>2, <3>3
  <2>. QED
    BY <2>1, <2>2
<1>8. Enumerates(s, Servers \cup Sniffers)
  BY <1>3, <1>6, <1>7 DEF Enumerates
<1>9. \A i \in 1 .. 5 : s[i] = five[i]
  BY <1>1, <1>3
<1>. QED
  BY <1>3, <1>8, <1>9 DEF s

StartedServers == <<"accumulator", "recorder", "evaluator", "groupcounter", "cmdexecutor">>
StoppedServers == <<"accumulator", "recorder", "evaluator", "cmdexecutor", "groupcounter">>

\* START goes through the servers first.
LEMMA StartedIsOrdered ==
    /\ Enumerates(Started, Servers \cup Sniffers)
    /\ Len(Started) \in Nat /\ Len(Started) >= 5
    /\ \A i \in 1 .. 5 : Started[i] \in Servers
    /\ \A p \in Servers : \E i \in 1 .. 5 : Started[i] = p
<1>1. Enumerates(StartedServers, Servers) /\ Len(StartedServers) = 5
  BY DEF Enumerates, StartedServers, Servers
<1>2. Len(Table) \in Nat
  BY TableEnumerates, LenProperties DEF Enumerates
<1>3. /\ Enumerates(Started, Servers \cup Sniffers) /\ Len(Started) = 5 + Len(Table)
      /\ \A i \in 1 .. 5 : Started[i] = StartedServers[i]
  BY <1>1, ServersThenTable DEF Started, StartedServers, Enumerates
<1>4. \A i \in 1 .. 5 : StartedServers[i] \in Servers
  BY DEF StartedServers, Servers
<1>5. \A p \in Servers : \E i \in 1 .. 5 : StartedServers[i] = p
  BY <1>1 DEF Enumerates
<1>. QED
  BY <1>2, <1>3, <1>4, <1>5

\* The calls of a transition are one for each of its parts.
LEMMA CallsOfTransition ==
    ASSUME NEW t \in Transitions
    PROVE  /\ Enumerates(Through(t), Concerned(t))
           /\ Len(Calls[t]) = Len(Through(t)) /\ Len(Calls[t]) \in Nat
           /\ Len(Calls[t]) <= 6 + Len(Table)
           /\ \A i \in 1 .. Len(Calls[t]) : /\ Calls[t][i].op = Deed(t)
                                            /\ Calls[t][i].on = Through(t)[i]
<1>1. /\ Enumerates(Made, Components) /\ Len(Made) = 6
      /\ Enumerates(StartedServers, Servers) /\ Len(StartedServers) = 5
      /\ Enumerates(StoppedServers, Servers) /\ Len(StoppedServers) = 5
  BY DEF Enumerates, Made, StartedServers, StoppedServers, Components, Servers
<1>2. Len(Table) \in Nat
  BY TableEnumerates, LenProperties DEF Enumerates
<1>3. /\ Enumerates(Started, Servers \cup Sniffers) /\ Len(Started) = 5 + Len(Table)
      /\ Enumerates(Stopped, Servers \cup Sniffers) /\ Len(Stopped) = 5 + Len(Table)
  BY <1>1, ServersThenTable DEF Started, Stopped, StartedServers, StoppedServers, Enumerates
<1>4. Enumerates(Through(t), Concerned(t)) /\ Len(Through(t)) \in Nat /\ Len(Through(t)) <= 6 + Len(Table)
  <2>1. CASE t = "START"
    BY <2>1, <1>2, <1>3 DEF Through, Concerned
  <2>2. CASE t = "STOP"
    BY <2>2, <1>2, <1>3 DEF Through, Concerned
  <2>3. CASE t \in {"SETUP", "SHUTDOWN"}
    BY <2>3, <1>1, <1>2 DEF Through, Concerned
  <2>. QED
    BY <2>1, <2>2, <2>3 DEF Transitions
<1>5. Calls[t] = Op(Deed(t), Through(t))
  BY DEF Calls, Deed, Through, Transitions
<1>6. Op(Deed(t), Through(t)) \in Seq([op : {Deed(t)}, on : Concerned(t)])
      /\ Len(Op(Deed(t), Through(t))) = Len(Through(t))
  BY <1>4, LenProperties, SeqDef, ElementOfSeq DEF Op, Enumerates
<1>. QED
  BY <1>4, <1>5, <1>6 DEF Op

-----------------------------------------------------------------------------
(***************************************************************************)
(* The invariant.                                                          *)
(***************************************************************************)

\* Nothing has gone wrong yet of which this code takes no care.
Calm == why \cap {"overlap", "untimely"} = {}

\* One context at most is inside fire.
Alone == \A c, d \in Contexts : InFire(c) /\ InFire(d) => c = d

\* Only main sets up, once, and nothing has been set up before.
Pending ==
    \A c \in Contexts :
        /\ agenda[c] = <<"SETUP", "START">> => c = Main /\ phase = "new"
        /\ doing[c] = "SETUP" => agenda[c] = <<"SETUP", "START">>

\* The components between two transitions.
Rests ==
    /\ phase = "new" => /\ current = "HALT"
                        /\ \A p \in Components : life[p] = "absent"
                        /\ \A s \in Sniffers : life[s] = "idle"
    /\ phase = "set" => /\ life["sniffer"] = "idle"
                        /\ \A p \in Servers \cup Sniffers :
                             life[p] = IF current = "RUN" THEN "started" ELSE "idle"
    /\ phase = "shut" => /\ current = "HALT"
                         /\ \A p \in Components : life[p] = "freed"
                         /\ \A s \in Sniffers : life[s] = "idle"

\* The components when transition t is about to make its k-th call.
Reached(t, k) ==
    /\ \A i \in 1 .. Len(Through(t)) :
         life[Through(t)[i]] = IF i < k THEN After[Deed(t)] ELSE Before[Deed(t)]
    /\ t \in {"START", "STOP"} => life["sniffer"] = "idle"
    /\ t \notin {"START", "STOP"} => \A s \in Sniffers : life[s] = "idle"

\* Where transition t sets out from.
Origin(t) == /\ phase = IF t = "SETUP" THEN "new" ELSE "set"
             /\ current = IF t = "STOP" THEN "RUN" ELSE "HALT"

\* What c has in hand.
Underway(c) ==
    /\ doing[c] \in Transitions => /\ Origin(doing[c])
                                   /\ ret[c] = Result(doing[c])
                                   /\ step[c] <= Len(Calls[doing[c]]) + 1
                                   /\ Reached(doing[c], step[c])
    /\ doing[c] = "IGNORE" => ret[c] \in {"UNKNOWN", current}

Orderly ==
    /\ Alone /\ Pending
    /\ \A c \in Contexts : Underway(c)
    /\ (\A c \in Contexts : doing[c] \notin Transitions) => Rests

\* Who is in fire has an event, the one that it fires.
Eventful == \A c \in Contexts : InFire(c) => agenda[c] # << >>

IInv == TypeOK /\ Eventful /\ MisuseHasACause /\ (Calm => Orderly)

-----------------------------------------------------------------------------
LEMMA AgendaShrinks ==
    ASSUME NEW a \in {<< >>, <<"SETUP", "START">>, <<"START">>, Kill, <<"SHUTDOWN">>}, a # << >>
    PROVE  /\ Tail(a) \in {<< >>, <<"SETUP", "START">>, <<"START">>, Kill, <<"SHUTDOWN">>}
           /\ Tail(a) # <<"SETUP", "START">>
           /\ Head(a) \in Events
           /\ Head(a) = "SETUP" => a = <<"SETUP", "START">>
<1>1. CASE a = <<"SETUP", "START">>
  <2>1. Tail(a) = <<"START">> /\ Head(a) = "SETUP"
    BY <1>1
  <2>. QED
    BY <2>1, <1>1 DEF Events
<1>2. CASE a = Kill
  <2>1. Tail(a) = <<"SHUTDOWN">> /\ Head(a) = "STOP"
    BY <1>2 DEF Kill
  <2>. QED
    BY <2>1 DEF Events
<1>3. CASE a = <<"START">>
  <2>1. Tail(a) = << >> /\ Head(a) = "START"
    BY <1>3
  <2>. QED
    BY <2>1 DEF Events
<1>4. CASE a = <<"SHUTDOWN">>
  <2>1. Tail(a) = << >> /\ Head(a) = "SHUTDOWN"
    BY <1>4
  <2>. QED
    BY <2>1 DEF Events
<1>. QED
  BY <1>1, <1>2, <1>3, <1>4

\* At the origin of a transition the components are what its calls need.
LEMMA SetsOut ==
    ASSUME NEW t \in Transitions, Rests, Origin(t)
    PROVE  Reached(t, 1)
<1>1. \A i \in 1 .. Len(Through(t)) : Through(t)[i] \in Concerned(t) /\ ~ (i < 1)
  BY CallsOfTransition, ElementOfSeq DEF Enumerates
<1>2. \A p \in Concerned(t) : life[p] = Before[Deed(t)]
  BY DEF Rests, Origin, Transitions, Concerned, Deed, Before, Components
<1>3. /\ t \in {"START", "STOP"} => life["sniffer"] = "idle"
      /\ t \notin {"START", "STOP"} => \A s \in Sniffers : life[s] = "idle"
  BY DEF Rests, Origin, Transitions
<1>. QED
  BY <1>1, <1>2, <1>3 DEF Reached

\* Behind its last call they are what the next transition starts from.
LEMMA Arrives ==
    ASSUME NEW t \in Transitions, NEW k \in Nat, Origin(t), Reached(t, k), k > Len(Calls[t]),
           current' = Result(t), phase' = Outcome(t), life' = life
    PROVE  Rests'
<1>1. \A p \in Concerned(t) : life[p] = After[Deed(t)]
  <2> SUFFICES ASSUME NEW p \in Concerned(t) PROVE life[p] = After[Deed(t)]
    OBVIOUS
  <2>1. PICK i \in 1 .. Len(Through(t)) : Through(t)[i] = p
    BY CallsOfTransition DEF Enumerates
  <2>2. i < k
    BY CallsOfTransition
  <2>. QED
    BY <2>1, <2>2 DEF Reached
<1>2. CASE t = "SETUP"
  BY <1>1, <1>2 DEF Rests, Origin, Reached, Result, Outcome, Concerned, Deed, After, Components
<1>3. CASE t = "START"
  BY <1>1, <1>3 DEF Rests, Origin, Reached, Result, Outcome, Concerned, Deed, After
<1>4. CASE t = "STOP"
  BY <1>1, <1>4 DEF Rests, Origin, Reached, Result, Outcome, Concerned, Deed, After
<1>5. CASE t = "SHUTDOWN"
  BY <1>1, <1>5 DEF Rests, Origin, Reached, Result, Outcome, Concerned, Deed, After
<1>. QED
  BY <1>2, <1>3, <1>4, <1>5 DEF Transitions

LEMMA InitInv == Init => IInv
<1> SUFFICES ASSUME Init PROVE IInv
  OBVIOUS
<1>1. Len(Table) \in Nat
  BY TableEnumerates, LenProperties DEF Enumerates
<1>2. TypeOK
  <2>1. step \in [Contexts -> 1 .. 7 + Len(Table)]
    BY <1>1 DEF Init
  <2>2. signals \in 0 .. MaxSignals
    BY ConstantsAssumption DEF Init
  <2>. QED
    BY <2>1, <2>2 DEF Init, TypeOK, States, Events, Parts
<1>3. Alone /\ Pending /\ \A c \in Contexts : Underway(c)
  <2>1. \A c \in Contexts : doing[c] = "NOTHING" /\ (agenda[c] # << >> => c = Main)
    BY DEF Init
  <2>. QED
    BY <2>1 DEF Init, Alone, Pending, Underway, InFire, Transitions
<1>4. Rests
  BY ConstantsAssumption DEF Init, Rests, Parts
<1>5. Eventful
  BY DEF Init, Eventful, InFire
<1>. QED
  BY <1>2, <1>3, <1>4, <1>5 DEF Init, IInv, Orderly, MisuseHasACause

-----------------------------------------------------------------------------
(***************************************************************************)
(* One lemma for each kind of step.                                        *)
(***************************************************************************)

\* A step outside of fire gives at most a context without events those of fsm_kill.
LEMMA OutsideInv ==
    ASSUME IInv, TypeOK',
           UNCHANGED <<current, doing, step, ret, life, phase, why, misused>>,
           \A c \in Contexts : agenda'[c] = agenda[c] \/ (agenda[c] = << >> /\ agenda'[c] = Kill)
    PROVE  IInv'
<1>1. Kill # <<"SETUP", "START">> /\ << >> # <<"SETUP", "START">> /\ Kill # << >>
  BY DEF Kill
<1>2. MisuseHasACause' /\ (Calm' <=> Calm)
  BY DEF IInv, MisuseHasACause, Calm
<1>3. ASSUME Calm PROVE Orderly'
  <2>1. Alone' /\ Pending'
    BY <1>1, <1>3 DEF IInv, Orderly, Alone, Pending, InFire
  <2>2. \A c \in Contexts : Underway(c)'
    BY <1>3 DEF IInv, Orderly, Underway, Origin, Reached
  <2>3. (\A c \in Contexts : doing'[c] \notin Transitions) => Rests'
    BY <1>3 DEF IInv, Orderly, Rests
  <2>. QED
    BY <2>1, <2>2, <2>3 DEF Orderly
<1>4. Eventful'
  BY <1>1 DEF IInv, Eventful, InFire
<1>. QED
  BY <1>2, <1>3, <1>4 DEF IInv

LEMMA BeginInv == ASSUME IInv, NEW c \in Contexts, Begin(c) PROVE IInv'
<1> DEFINE event == Head(agenda[c])
           overlap == \E d \in Contexts : InFire(d)
<1>1. PICK t : t = Transition(current, event)
  OBVIOUS
<1> DEFINE untimely == t \in {"START", "SHUTDOWN"} /\ phase # "set"
<1>2. /\ agenda[c] # << >> /\ doing[c] = "NOTHING"
      /\ doing' = [doing EXCEPT ![c] = t]
      /\ ret' = [ret EXCEPT ![c] = IF t = "IGNORE" THEN "UNKNOWN" ELSE Result(t)]
      /\ why' = why \cup (IF overlap THEN {"overlap"} ELSE {})
                    \cup (IF untimely THEN {"untimely"} ELSE {})
      /\ step' = [step EXCEPT ![c] = 1]
      /\ UNCHANGED <<current, agenda, life, opening, timed, mainpc, signals, phase, misused, abandoned>>
  BY <1>1 DEF Begin, InFire
<1>3. event \in Events /\ (event = "SETUP" => agenda[c] = <<"SETUP", "START">>)
  BY <1>2, AgendaShrinks DEF IInv, TypeOK
<1>4. /\ t \in Transitions \cup {"IGNORE"}
      /\ t \in Transitions => t = event /\ current = IF t = "STOP" THEN "RUN" ELSE "HALT"
  BY <1>1, <1>3 DEF Transition, Transitions, Events, IInv, TypeOK, States
<1>5. 1 \in 1 .. 7 + Len(Table)
  BY TableEnumerates, LenProperties DEF Enumerates
<1> HIDE DEF event
<1>6. TypeOK'
  <2>1. doing' \in [Contexts -> Events \cup {"IGNORE", "NOTHING"}]
    BY <1>2, <1>4 DEF IInv, TypeOK, Transitions, Events
  <2>2. ret' \in [Contexts -> States \cup {"UNKNOWN"}]
    BY <1>2, <1>4 DEF IInv, TypeOK, Result, States
  <2>3. why' \subseteq {"overlap", "untimely", "itself"}
    BY <1>2 DEF IInv, TypeOK
  <2>4. step' \in [Contexts -> 1 .. 7 + Len(Table)]
    BY <1>2, <1>5 DEF IInv, TypeOK
  <2>. QED
    BY <2>1, <2>2, <2>3, <2>4, <1>2 DEF IInv, TypeOK
<1>7. MisuseHasACause'
  BY <1>2 DEF IInv, MisuseHasACause
<1>8. ASSUME Calm' PROVE Orderly'
  <2>1. Calm /\ ~ overlap /\ ~ untimely
    BY <1>2, <1>8 DEF Calm
  <2>2. Orderly /\ \A d \in Contexts : doing[d] = "NOTHING"
    BY <2>1 DEF IInv, InFire
  <2>3. Rests
    BY <2>2 DEF Orderly, Transitions
  <2>4. /\ doing'[c] = t /\ step'[c] = 1
        /\ ret'[c] = IF t = "IGNORE" THEN "UNKNOWN" ELSE Result(t)
        /\ \A d \in Contexts : d # c => doing'[d] = "NOTHING"
    BY <1>2, <2>2 DEF IInv, TypeOK
  <2>5. Alone'
    BY <2>4 DEF Alone, InFire
  <2>6. Pending'
    BY <1>2, <1>3, <1>4, <2>2, <2>4 DEF Orderly, Pending, Transitions
  <2>7. ASSUME t \in Transitions PROVE Origin(t)
    <3>1. CASE t = "SETUP"
      BY <3>1, <1>3, <1>4, <2>2 DEF Orderly, Pending, Origin, Transitions
    <3>2. CASE t \in {"START", "SHUTDOWN"}
      BY <3>2, <1>4, <2>1 DEF Origin, Transitions
    <3>3. CASE t = "STOP"
      BY <3>3, <1>4, <2>3 DEF Origin, Transitions, Rests, IInv, TypeOK
    <3>. QED
      BY <2>7, <3>1, <3>2, <3>3 DEF Transitions
  <2>8. \A d \in Contexts : Underway(d)'
    <3>1. \A d \in Contexts : d # c => Underway(d)'
      BY <2>4 DEF Underway, Transitions
    <3>2. ASSUME t \in Transitions
          PROVE  Origin(t)' /\ 1 <= Len(Calls[t]) + 1 /\ Reached(t, 1)'
      <4>1. Origin(t) /\ Reached(t, 1)
        BY <3>2, <2>3, <2>7, SetsOut
      <4>2. Len(Calls[t]) \in Nat
        BY <3>2, CallsOfTransition
      <4>. QED
        BY <4>1, <4>2, <1>2 DEF Origin, Reached
    <3>3. Underway(c)'
      BY <3>2, <2>4 DEF Underway, Transitions
    <3>. QED
      BY <3>1, <3>3
  <2>9. Rests'
    BY <1>2, <2>3 DEF Rests
  <2>. QED
    BY <2>5, <2>6, <2>8, <2>9 DEF Orderly
<1>9. Eventful'
  BY <1>2 DEF IInv, TypeOK, Eventful, InFire
<1>. QED
  BY <1>6, <1>7, <1>8, <1>9 DEF IInv

LEMMA ReadInv == ASSUME IInv, NEW c \in Contexts, Read(c) PROVE IInv'
<1>1. /\ doing[c] = "IGNORE" /\ ret' = [ret EXCEPT ![c] = current]
      /\ UNCHANGED <<current, agenda, doing, step, life, opening, timed, mainpc, signals, phase, why,
                  misused, abandoned>>
  BY DEF Read, history
<1>2. TypeOK'
  BY <1>1 DEF IInv, TypeOK
<1>3. MisuseHasACause' /\ (Calm' <=> Calm)
  BY <1>1 DEF IInv, MisuseHasACause, Calm
<1>4. ASSUME Calm PROVE Orderly'
  <2>1. Alone' /\ Pending'
    BY <1>1, <1>4 DEF IInv, Orderly, Alone, Pending, InFire
  <2>2. \A d \in Contexts : Underway(d)'
    <3> SUFFICES ASSUME NEW d \in Contexts PROVE Underway(d)'
      OBVIOUS
    <3>1. Underway(d) /\ (d # c => ret'[d] = ret[d]) /\ ret'[c] = current
      BY <1>1, <1>4 DEF IInv, Orderly, TypeOK
    <3>. QED
      BY <3>1, <1>1 DEF Underway, Origin, Reached, Transitions
  <2>3. (\A d \in Contexts : doing'[d] \notin Transitions) => Rests'
    BY <1>1, <1>4 DEF IInv, Orderly, Rests
  <2>. QED
    BY <2>1, <2>2, <2>3 DEF Orderly
<1>5. Eventful'
  BY <1>1 DEF IInv, Eventful, InFire
<1>. QED
  BY <1>2, <1>3, <1>4, <1>5 DEF IInv

\* A call finds its part as it needs it, and no call of the transition is about the
\* same part once more.
LEMMA CallInv == ASSUME IInv, NEW c \in Contexts, Call(c) PROVE IInv'
<1>1. PICK t : t = doing[c]
  OBVIOUS
<1>2. PICK k : k = step[c]
  OBVIOUS
<1> DEFINE op == Calls[t][k].op
           p == Calls[t][k].on
           itself == op = "stop" /\ p = c
           wrong == life[p] # Before[op] \/ (p \in Sniffers /\ life["sniffer"] # "idle")
<1>3. /\ t # "NOTHING" /\ k <= Len(Calls[t])
      /\ life' = IF op = "build" /\ wrong THEN life ELSE [life EXCEPT ![p] = After[op]]
      /\ opening' = IF op = "start" /\ p \in Sniffers THEN opening \cup {p} ELSE opening
      /\ misused' = (misused \/ itself \/ (wrong /\ op # "build"))
      /\ why' = IF itself THEN why \cup {"itself"} ELSE why
      /\ step' = [step EXCEPT ![c] = k + 1]
      /\ abandoned' \in {abandoned, TRUE}
      /\ UNCHANGED <<current, agenda, doing, ret, timed, mainpc, signals, phase>>
  BY <1>1, <1>2 DEF Call, InFire
<1>4. Len(Table) \in Nat
  BY TableEnumerates, LenProperties DEF Enumerates
<1>5. k \in 1 .. 7 + Len(Table) /\ k \in Nat
  BY <1>2, <1>4 DEF IInv, TypeOK
<1>6. t \in Transitions
  <2>1. t \in Transitions \cup {"IGNORE"}
    BY <1>1, <1>3 DEF IInv, TypeOK, Transitions, Events
  <2>2. Len(Calls["IGNORE"]) = 0
    BY DEF Calls
  <2>. QED
    BY <2>1, <2>2, <1>3, <1>4, <1>5
<1>7. /\ k \in 1 .. Len(Calls[t]) /\ k \in 1 .. Len(Through(t)) /\ k + 1 \in 1 .. 7 + Len(Table)
      /\ op = Deed(t) /\ p = Through(t)[k] /\ p \in Concerned(t)
  <2>1. k \in 1 .. Len(Calls[t]) /\ k + 1 \in 1 .. 7 + Len(Table)
    BY <1>3, <1>4, <1>5, <1>6, CallsOfTransition
  <2>2. /\ Enumerates(Through(t), Concerned(t)) /\ k \in 1 .. Len(Through(t))
        /\ op = Deed(t) /\ p = Through(t)[k]
    BY <2>1, <1>6, CallsOfTransition
  <2>. QED
    BY <2>1, <2>2, ElementOfSeq DEF Enumerates
<1> HIDE DEF op, p
<1>8. /\ op \in {"build", "start", "stop", "free"} /\ p \in Parts
      /\ After[op] \in {"absent", "idle", "started", "freed"}
  BY <1>6, <1>7 DEF Deed, Transitions, Parts, Concerned, Components, After
<1>9. TypeOK'
  <2>1. life' \in [Parts -> {"absent", "idle", "started", "freed"}]
    BY <1>3, <1>8 DEF IInv, TypeOK
  <2>2. step' \in [Contexts -> 1 .. 7 + Len(Table)]
    BY <1>3, <1>7 DEF IInv, TypeOK
  <2>3. misused' \in BOOLEAN /\ abandoned' \in BOOLEAN
    BY <1>3 DEF IInv, TypeOK
  <2>4. opening' \subseteq Sniffers /\ why' \subseteq {"overlap", "untimely", "itself"}
    BY <1>3 DEF IInv, TypeOK
  <2>. QED
    BY <2>1, <2>2, <2>3, <2>4, <1>3 DEF IInv, TypeOK
<1>10. Calm' <=> Calm
  BY <1>3 DEF Calm
<1>11. ASSUME Calm PROVE Underway(c) /\ ~ wrong
  <2>1. Underway(c) /\ Reached(t, k)
    BY <1>1, <1>2, <1>6, <1>11 DEF IInv, Orderly, Underway
  <2>2. life[p] = Before[op]
    BY <2>1, <1>5, <1>7 DEF Reached
  <2>3. p \in Sniffers => t \in {"START", "STOP"}
    BY <1>7, ConstantsAssumption DEF Concerned
  <2>. QED
    BY <2>1, <2>2, <2>3 DEF Reached
<1>12. MisuseHasACause'
  <2>1. CASE why = {}
    BY <2>1, <1>3, <1>11 DEF IInv, MisuseHasACause, Calm
  <2>2. CASE why # {}
    BY <2>2, <1>3 DEF MisuseHasACause
  <2>. QED
    BY <2>1, <2>2
<1>13. ASSUME Calm PROVE Orderly'
  <2>1. Orderly /\ life' = [life EXCEPT ![p] = After[op]]
    BY <1>3, <1>11, <1>13 DEF IInv
  <2>2. Alone' /\ Pending'
    BY <1>3, <2>1 DEF Orderly, Alone, Pending, InFire
  <2>3. \A q \in Parts : life'[q] = IF q = p THEN After[op] ELSE life[q]
    BY <2>1 DEF IInv, TypeOK
  <2>4. Reached(t, k) /\ Origin(t) /\ ret[c] = Result(t)
    BY <1>1, <1>2, <1>6, <1>11, <1>13 DEF Underway
  <2>5. Reached(t, k + 1)'
    <3>1. ASSUME NEW i \in 1 .. Len(Through(t))
          PROVE  life'[Through(t)[i]] = IF i < k + 1 THEN After[Deed(t)] ELSE Before[Deed(t)]
      <4>1. Through(t)[i] \in Parts /\ (Through(t)[i] = p => i = k)
        <5>1. Enumerates(Through(t), Concerned(t)) /\ Concerned(t) \subseteq Parts
          BY <1>6, CallsOfTransition DEF Concerned, Parts, Components
        <5>. QED
          BY <5>1, <1>7, ElementOfSeq DEF Enumerates
      <4>2. life[Through(t)[i]] = IF i < k THEN After[Deed(t)] ELSE Before[Deed(t)]
        BY <2>4 DEF Reached
      <4>3. i \in Nat
        BY <1>6, CallsOfTransition
      <4>. QED
        BY <4>1, <4>2, <4>3, <2>3, <1>5, <1>7
    <3>2. t \in {"START", "STOP"} => life'["sniffer"] = "idle"
      <4>1. t \in {"START", "STOP"} => p # "sniffer"
        BY <1>7, ConstantsAssumption DEF Concerned, Components, Servers
      <4>. QED
        BY <4>1, <2>3, <2>4 DEF Reached, Parts, Components
    <3>3. t \notin {"START", "STOP"} => \A s \in Sniffers : life'[s] = "idle"
      <4>1. t \notin {"START", "STOP"} => p \notin Sniffers
        BY <1>7, ConstantsAssumption DEF Concerned
      <4>. QED
        BY <4>1, <2>3, <2>4 DEF Reached, Parts
    <3>. QED
      BY <3>1, <3>2, <3>3 DEF Reached
  <2>6. \A d \in Contexts : Underway(d)'
    <3>1. ASSUME NEW d \in Contexts, d # c PROVE Underway(d)'
      <4>1. doing'[d] = "NOTHING"
        BY <3>1, <1>1, <1>3, <2>1 DEF Orderly, Alone, InFire
      <4>. QED
        BY <4>1 DEF Underway, Transitions
    <3>2. Underway(c)'
      <4>1. doing'[c] = t /\ ret'[c] = Result(t) /\ step'[c] = k + 1 /\ k + 1 <= Len(Calls[t]) + 1
        BY <1>1, <1>3, <1>5, <1>6, <2>4, CallsOfTransition DEF IInv, TypeOK
      <4>2. Origin(t)'
        BY <1>3, <2>4 DEF Origin
      <4>. QED
        BY <4>1, <4>2, <2>5, <1>6 DEF Underway, Transitions
    <3>. QED
      BY <3>1, <3>2
  <2>7. ~ \A d \in Contexts : doing'[d] \notin Transitions
    BY <1>1, <1>3, <1>6
  <2>. QED
    BY <2>2, <2>6, <2>7 DEF Orderly
<1>14. Eventful'
  BY <1>3 DEF IInv, Eventful, InFire
<1>. QED
  BY <1>9, <1>10, <1>12, <1>13, <1>14 DEF IInv

LEMMA FinishInv == ASSUME IInv, NEW c \in Contexts, Finish(c) PROVE IInv'
<1>1. PICK t : t = doing[c]
  OBVIOUS
<1>2. /\ t # "NOTHING" /\ step[c] > Len(Calls[t]) /\ ret[c] # "UNKNOWN"
      /\ current' = ret[c] /\ phase' = Outcome(t)
      /\ doing' = [doing EXCEPT ![c] = "NOTHING"]
      /\ agenda' = [agenda EXCEPT ![c] = Tail(@)]
      /\ UNCHANGED <<step, ret, life, opening, timed, mainpc, signals, why, misused, abandoned>>
  BY <1>1 DEF Finish, InFire
<1>3. t \in Transitions \cup {"IGNORE"}
  BY <1>1, <1>2 DEF IInv, TypeOK, Transitions, Events
<1>4. agenda[c] # << >>
  BY <1>1, <1>2 DEF IInv, Eventful, InFire
<1>5. TypeOK'
  <2>1. Tail(agenda[c]) \in {<< >>, <<"SETUP", "START">>, <<"START">>, Kill, <<"SHUTDOWN">>}
    BY <1>4, AgendaShrinks DEF IInv, TypeOK
  <2>2. current' \in States /\ phase' \in {"new", "set", "shut"}
    BY <1>2 DEF IInv, TypeOK, Outcome
  <2>. QED
    BY <2>1, <2>2, <1>2 DEF IInv, TypeOK
<1>6. MisuseHasACause' /\ (Calm' <=> Calm)
  BY <1>2 DEF IInv, MisuseHasACause, Calm
<1>7. Eventful'
  BY <1>2 DEF IInv, TypeOK, Eventful, InFire
<1>8. ASSUME Calm PROVE Orderly'
  <2>1. Orderly
    BY <1>8 DEF IInv
  <2>2. \A d \in Contexts : doing'[d] = "NOTHING" /\ (d # c => doing[d] = "NOTHING")
    BY <1>1, <1>2, <2>1 DEF IInv, TypeOK, Orderly, Alone, InFire
  <2>3. Alone' /\ \A d \in Contexts : Underway(d)'
    BY <2>2 DEF Alone, Underway, InFire, Transitions
  <2>4. Pending'
    <3> SUFFICES ASSUME NEW d \in Contexts, agenda'[d] = <<"SETUP", "START">>
                 PROVE  d = Main /\ phase' = "new"
      BY <2>2 DEF Pending
    <3>1. d # c
      BY <1>2, <1>4, AgendaShrinks DEF IInv, TypeOK
    <3>2. d = Main /\ phase = "new" /\ agenda[c] # <<"SETUP", "START">>
      BY <1>2, <2>1, <3>1 DEF IInv, TypeOK, Orderly, Pending
    <3>3. t \in {"STOP", "START", "IGNORE"}
      BY <1>1, <1>3, <2>1, <3>2 DEF Orderly, Pending, Underway, Origin, Transitions
    <3>. QED
      BY <1>2, <3>2, <3>3 DEF Outcome
  <2>5. Rests'
    <3>1. CASE t \in Transitions
      <4>1. step[c] \in Nat
        BY TableEnumerates, LenProperties DEF IInv, TypeOK, Enumerates
      <4>2. Origin(t) /\ Reached(t, step[c]) /\ ret[c] = Result(t)
        BY <1>1, <2>1, <3>1 DEF Orderly, Underway
      <4>. QED
        BY <4>1, <4>2, <1>2, <3>1, Arrives
    <3>2. CASE t = "IGNORE"
      <4>1. current' = current /\ phase' = phase
        BY <1>1, <1>2, <2>1, <3>2 DEF Orderly, Underway, Outcome
      <4>2. Rests
        BY <1>1, <2>1, <2>2, <3>2 DEF Orderly, Transitions
      <4>. QED
        BY <4>1, <4>2, <1>2 DEF Rests
    <3>. QED
      BY <1>3, <3>1, <3>2
  <2>. QED
    BY <2>3, <2>4, <2>5 DEF Orderly
<1>. QED
  BY <1>5, <1>6, <1>7, <1>8 DEF IInv

LEMMA NextInv == IInv /\ [Next]_vars => IInv'
<1> SUFFICES ASSUME IInv, [Next]_vars PROVE IInv'
  OBVIOUS
<1> USE DEF history
<1>1. ASSUME NEW c \in Contexts, Fire(c) PROVE IInv'
  BY <1>1, BeginInv, CallInv, ReadInv, FinishInv DEF Fire
<1>2. ASSUME NEW s \in Sniffers, OpenDevice(s) PROVE IInv'
  <2>1. TypeOK'
    BY <1>2 DEF OpenDevice, IInv, TypeOK
  <2>. QED
    BY <2>1, <1>2, OutsideInv DEF OpenDevice
<1>3. ASSUME NEW s \in Sniffers, FailDevice(s) PROVE IInv'
  <2>1. TypeOK'
    BY <1>3 DEF FailDevice, IInv, TypeOK, Kill
  <2>2. \A c \in Contexts : agenda'[c] = agenda[c] \/ (agenda[c] = << >> /\ agenda'[c] = Kill)
    BY <1>3 DEF FailDevice, IInv, TypeOK
  <2>. QED
    BY <2>1, <2>2, <1>3, OutsideInv DEF FailDevice
<1>4. CASE Interrupt
  <2>1. TypeOK'
    <3>1. signals' \in 0 .. MaxSignals
      BY <1>4, ConstantsAssumption DEF Interrupt, IInv, TypeOK
    <3>. QED
      BY <3>1, <1>4 DEF Interrupt, IInv, TypeOK
  <2>2. \A c \in Contexts : agenda'[c] = agenda[c] \/ (agenda[c] = << >> /\ agenda'[c] = Kill)
    BY <1>4 DEF Interrupt, IInv, TypeOK
  <2>. QED
    BY <2>1, <2>2, <1>4, OutsideInv DEF Interrupt
<1>5. CASE TimeOver
  <2>1. TypeOK'
    BY <1>5 DEF TimeOver, IInv, TypeOK
  <2>2. \A c \in Contexts : agenda'[c] = agenda[c] \/ (agenda[c] = << >> /\ agenda'[c] = Kill)
    BY <1>5 DEF TimeOver, IInv, TypeOK
  <2>. QED
    BY <2>1, <2>2, <1>5, OutsideInv DEF TimeOver
<1>6. CASE Leave
  <2>1. TypeOK'
    BY <1>6 DEF Leave, IInv, TypeOK
  <2>. QED
    BY <2>1, <1>6, OutsideInv DEF Leave
<1>7. CASE UNCHANGED vars
  <2>1. TypeOK'
    BY <1>7 DEF vars, IInv, TypeOK
  <2>. QED
    BY <2>1, <1>7, OutsideInv DEF vars
<1>. QED
  BY <1>1, <1>2, <1>3, <1>4, <1>5, <1>6, <1>7 DEF Next

LEMMA Invariance == Spec => []IInv
  BY InitInv, NextInv, PTL DEF Spec

-----------------------------------------------------------------------------
(***************************************************************************)
(* What follows from the invariant.                                        *)
(***************************************************************************)

\* Every field keeps its type, and no transition of fire() (fsm/fsm.c) runs past its
\* calls, for any number of sniffers and signals.
THEOREM TypeCorrect == Spec => []TypeOK
<1>1. IInv => TypeOK
  BY DEF IInv
<1>. QED
  BY <1>1, Invariance, PTL

\* Whatever main, the SIGINT handler and the sniffers fire, a component is misused
\* only after fires overlapped, an event came untimely, or a sniffer stopped itself.
THEOREM MisuseIsCaused == Spec => []MisuseHasACause
<1>1. IInv => MisuseHasACause
  BY DEF IInv
<1>. QED
  BY <1>1, Invariance, PTL

\* fsm_t.current says of every server and sniffer whether it is started, as long as
\* no two fires overlapped and no event came untimely.
THEOREM StateTellsTheTruth == Spec => []StateIsTrue
<1>1. IInv => StateIsTrue
  <2> SUFFICES ASSUME IInv, Calm, \A c \in Contexts : ~ InFire(c), NEW p \in Servers \cup Sniffers
               PROVE  life[p] = "started" <=> current = "RUN"
    BY DEF StateIsTrue, Calm
  <2>1. Rests /\ phase \in {"new", "set", "shut"}
    BY DEF IInv, TypeOK, Orderly, InFire, Transitions
  <2>. QED
    BY <2>1 DEF Rests, Components
<1>. QED
  BY <1>1, Invariance, PTL

\* START (fsm/fsm_halt.c) starts every sniffer after all that its packets reach, for
\* any number of sniffers.
THEOREM SniffersAreServed == Spec => []ServersComeFirst
<1>1. IInv => ServersComeFirst
  <2> SUFFICES ASSUME IInv, Calm, \A c \in Contexts : doing[c] # "STOP",
                      NEW s \in Sniffers, life[s] = "started", NEW p \in Servers
               PROVE  life[p] = "started"
    BY DEF ServersComeFirst, Calm
  <2>1. Orderly
    BY DEF IInv
  <2>2. CASE \A c \in Contexts : doing[c] \notin Transitions
    BY <2>1, <2>2 DEF Orderly, Rests, IInv, TypeOK
  <2>3. ASSUME NEW c \in Contexts, doing[c] \in Transitions PROVE life[p] = "started"
    <3>1. Reached(doing[c], step[c]) /\ step[c] \in Nat
      BY <2>1, <2>3, TableEnumerates, LenProperties DEF Orderly, Underway, IInv, TypeOK, Enumerates
    <3>2. doing[c] = "START"
      BY <2>3, <3>1 DEF Reached, Transitions
    <3>3. \A i \in 1 .. Len(Started) : life[Started[i]] = IF i < step[c] THEN "started" ELSE "idle"
      BY <3>1, <3>2 DEF Reached, Through, Deed, After, Before
    <3>4. /\ Enumerates(Started, Servers \cup Sniffers)
          /\ \E i \in 1 .. 5 : i \in 1 .. Len(Started) /\ Started[i] = p
          /\ \A i \in 1 .. 5 : Started[i] # s
          /\ Len(Started) \in Nat
      BY StartedIsOrdered, ConstantsAssumption DEF Components
    <3>5. PICK j \in 1 .. Len(Started) : Started[j] = s
      BY <3>4 DEF Enumerates
    <3>. QED
      BY <3>1, <3>3, <3>4, <3>5
  <2>. QED
    BY <2>2, <2>3
<1>. QED
  BY <1>1, Invariance, PTL

-----------------------------------------------------------------------------
(***************************************************************************)
(* The command line: functions defined by recursion on how far they are.   *)
(***************************************************************************)

\* A set of numbers that has a member has a least one.
LEMMA LeastOf ==
    ASSUME NEW T \in SUBSET Nat, T # {}
    PROVE  \E n \in T : \A m \in T : ~ (m < n)
<1>1. PICK n \in T : \A m \in T : ~ (<<m, n>> \in OpToRel(<, Nat))
  <2>1. IsWellFoundedOn(OpToRel(<, Nat), Nat)
    BY NatLessThanWellFounded
  <2>2. QED
    BY ONLY <2>1, WFMin, T \in SUBSET Nat, T # {}
<1>2. QED
  BY <1>1 DEF OpToRel

\* g starts with z and goes on by the n steps of s, in the set A.
Follows(g, n, z, s, A) ==
    g \in [0 .. n -> A] /\ g[0] = z /\ \A i \in 1 .. n : g[i] = s[i][g[i - 1]]

\* There is such a function.
LEMMA FollowsExists ==
    ASSUME NEW n \in Nat, NEW A, NEW z \in A, NEW s \in [1 .. n -> [A -> A]]
    PROVE  \E g : Follows(g, n, z, s, A)
<1> DEFINE Wrong == {k \in 0 .. n : ~ \E g : Follows(g, k, z, s, A)}
<1>1. CASE Wrong = {}
  <2>1. n \in 0 .. n
    OBVIOUS
  <2>2. QED
    BY <1>1, <2>1
<1>2. CASE Wrong # {}
  <2>1. PICK k \in Wrong : \A m \in Wrong : ~ (m < k)
    <3>1. Wrong \in SUBSET Nat
      OBVIOUS
    <3>2. QED
      BY <1>2, <3>1, LeastOf
  <2>2. CASE k = 0
    <3>1. Follows([i \in 0 .. 0 |-> z], k, z, s, A)
      BY <2>2 DEF Follows
    <3>2. QED
      BY <2>1, <3>1
  <2>3. CASE k # 0
    <3>1. k \in Nat /\ k - 1 \in Nat /\ k - 1 < k /\ k - 1 \in 0 .. n /\ k \in 1 .. n
      BY <2>1, <2>3
    <3>2. PICK g : Follows(g, k - 1, z, s, A)
      BY <2>1, <3>1
    <3>3. g[k - 1] \in A /\ s[k] \in [A -> A]
      BY <3>1, <3>2 DEF Follows
    <3>4. PICK x \in A : x = s[k][g[k - 1]]
      BY <3>3
    <3>5. PICK h : h = [i \in 0 .. k |-> IF i = k THEN x ELSE g[i]]
      OBVIOUS
    <3>6. h \in [0 .. k -> A]
      <4>1. \A i \in 0 .. k : i # k => i \in 0 .. k - 1
        BY <3>1
      <4>2. QED
        BY <3>2, <3>4, <3>5, <4>1 DEF Follows
    <3>7. h[0] = z
      BY <2>3, <3>1, <3>2, <3>5 DEF Follows
    <3>8. ASSUME NEW i \in 1 .. k PROVE h[i] = s[i][h[i - 1]]
      <4>1. i \in 0 .. k /\ i - 1 \in 0 .. k /\ i - 1 # k /\ i - 1 \in 0 .. k - 1
        BY <3>1
      <4>2. h[i - 1] = g[i - 1]
        BY <3>5, <4>1
      <4>3. CASE i = k
        BY <3>4, <3>5, <4>1, <4>2, <4>3
      <4>4. CASE i # k
        <5>1. i \in 1 .. k - 1
          BY <3>1, <4>4
        <5>2. g[i] = s[i][g[i - 1]]
          BY <3>2, <5>1 DEF Follows
        <5>3. QED
          BY <3>5, <4>1, <4>2, <4>4, <5>2
      <4>5. QED
        BY <4>3, <4>4
    <3>9. Follows(h, k, z, s, A)
      BY <3>6, <3>7, <3>8 DEF Follows
    <3>10. QED
      BY <2>1, <3>9
  <2>4. QED
    BY <2>2, <2>3
<1>3. QED
  BY <1>1, <1>2

\* Another function that starts and goes on so is the same.
GoesOn(f, n, z, s, A) == f[0] = z /\ \A i \in 1 .. n : f[i - 1] \in A => f[i] = s[i][f[i - 1]]

LEMMA FollowsAlone ==
    ASSUME NEW n \in Nat, NEW A, NEW z, NEW s, NEW g, Follows(g, n, z, s, A),
           NEW f, GoesOn(f, n, z, s, A)
    PROVE  \A i \in 0 .. n : f[i] = g[i]
<1> DEFINE Wrong == {i \in 0 .. n : f[i] # g[i]}
<1>1. SUFFICES ASSUME Wrong # {} PROVE FALSE
  OBVIOUS
<1>2. PICK i \in Wrong : \A m \in Wrong : ~ (m < i)
  <2>1. Wrong \in SUBSET Nat
    OBVIOUS
  <2>2. QED
    BY <1>1, <2>1, LeastOf
<1>3. i \in 1 .. n /\ i - 1 \in 0 .. n /\ i - 1 < i
  BY <1>2 DEF Follows, GoesOn
<1>4. f[i - 1] = g[i - 1] /\ g[i - 1] \in A
  BY <1>2, <1>3 DEF Follows
<1>5. f[i] = s[i][f[i - 1]] /\ g[i] = s[i][g[i - 1]]
  BY <1>3, <1>4 DEF Follows, GoesOn
<1>6. QED
  BY <1>2, <1>4, <1>5

-----------------------------------------------------------------------------
(***************************************************************************)
(* Numbers.                                                                *)
(***************************************************************************)

LEMMA Products ==
    ASSUME NEW b \in Nat, NEW v \in Nat, NEW d \in Nat
    PROVE  b * v \in Nat /\ b * v + d \in Nat
<1>1. b * v \in Nat
  OBVIOUS
<1>2. PICK p \in Nat : p = b * v
  BY <1>1
<1>3. QED
  BY <1>2

Digits(d, n) == \A i \in 1 .. n : d[i] \in Nat

\* What n digits are worth, the place of a digit, and the sum of the digits at their places.
IsValue(f, d, n, base) == f = [i \in 0 .. n |-> IF i = 0 THEN 0 ELSE base * f[i - 1] + d[i]]
IsPower(f, base, n) == f = [i \in 0 .. n |-> IF i = 0 THEN 1 ELSE base * f[i - 1]]
IsSum(f, d, base, n) ==
    f = [i \in 0 .. n |-> IF i = 0 THEN 0 ELSE f[i - 1] + d[i] * Args!Weight(base, n - i)]

Reads(f, d, n, base) ==
    f \in [0 .. n -> Nat] /\ f[0] = 0 /\ \A i \in 1 .. n : f[i] = base * f[i - 1] + d[i]
Grows(f, base, n) ==
    f \in [0 .. n -> Nat] /\ f[0] = 1 /\ \A i \in 1 .. n : f[i] = base * f[i - 1]

\* What ValueOf's recursive function is: the one that reads digit by digit.
LEMMA ValueOfIs ==
    ASSUME NEW d, NEW n \in Nat, NEW base \in Nat, Digits(d, n)
    PROVE  \E f : Reads(f, d, n, base) /\ Args!ValueOf(d, n, base) = f[n]
<1>1. PICK s : s = [i \in 1 .. n |-> [v \in Nat |-> base * v + d[i]]]
  OBVIOUS
<1>2. \A i \in 1 .. n : \A v \in Nat : s[i][v] = base * v + d[i]
  BY <1>1
<1>3. s \in [1 .. n -> [Nat -> Nat]]
  <2>1. \A i \in 1 .. n : [v \in Nat |-> base * v + d[i]] \in [Nat -> Nat]
    BY Products DEF Digits
  <2>2. QED
    BY <1>1, <2>1
<1>4. PICK g : Follows(g, n, 0, s, Nat)
  BY <1>3, FollowsExists
<1>5. g[0] = 0 /\ \A i \in 1 .. n : g[i] = base * g[i - 1] + d[i]
  <2>1. \A i \in 1 .. n : i - 1 \in 0 .. n
    OBVIOUS
  <2>2. QED
    BY <1>2, <1>4, <2>1 DEF Follows
<1>6. \E f : IsValue(f, d, n, base)
  <2>1. g = [i \in 0 .. n |-> IF i = 0 THEN 0 ELSE base * g[i - 1] + d[i]]
    BY <1>4, <1>5 DEF Follows
  <2>2. QED
    BY <2>1 DEF IsValue
<1>7. PICK f : f = CHOOSE h : IsValue(h, d, n, base)
  OBVIOUS
<1>8. IsValue(f, d, n, base)
  BY <1>6, <1>7
<1>9. Args!ValueOf(d, n, base) = f[n]
  BY <1>7 DEF Args!ValueOf, IsValue
<1>10. \A i \in 0 .. n : f[i] = IF i = 0 THEN 0 ELSE base * f[i - 1] + d[i]
  BY <1>8 DEF IsValue
<1>11. GoesOn(f, n, 0, s, Nat)
  <2>1. 0 \in 0 .. n /\ \A i \in 1 .. n : i \in 0 .. n /\ i # 0
    OBVIOUS
  <2>2. QED
    BY <1>2, <1>10, <2>1 DEF GoesOn
<1>12. \A i \in 0 .. n : f[i] = g[i]
  BY <1>4, <1>11, FollowsAlone
<1>13. Args!ValueOf(d, n, base) = g[n]
  BY <1>9, <1>12
<1>14. Reads(g, d, n, base)
  BY <1>4, <1>5 DEF Follows, Reads
<1>15. QED
  BY <1>13, <1>14

\* And Weight's.
LEMMA PowerIs ==
    ASSUME NEW base \in Nat, NEW n \in Nat
    PROVE  \E f : Grows(f, base, n) /\ Args!Weight(base, n) = f[n]
<1>1. PICK s : s = [i \in 1 .. n |-> [v \in Nat |-> base * v]]
  OBVIOUS
<1>2. \A i \in 1 .. n : \A v \in Nat : s[i][v] = base * v
  BY <1>1
<1>3. s \in [1 .. n -> [Nat -> Nat]]
  <2>1. [v \in Nat |-> base * v] \in [Nat -> Nat]
    BY Products
  <2>2. QED
    BY <1>1, <2>1
<1>4. PICK g : Follows(g, n, 1, s, Nat)
  BY <1>3, FollowsExists
<1>5. g[0] = 1 /\ \A i \in 1 .. n : g[i] = base * g[i - 1]
  <2>1. \A i \in 1 .. n : i - 1 \in 0 .. n
    OBVIOUS
  <2>2. QED
    BY <1>2, <1>4, <2>1 DEF Follows
<1>6. \E f : IsPower(f, base, n)
  <2>1. g = [i \in 0 .. n |-> IF i = 0 THEN 1 ELSE base * g[i - 1]]
    BY <1>4, <1>5 DEF Follows
  <2>2. QED
    BY <2>1 DEF IsPower
<1>7. PICK f : f = CHOOSE h : IsPower(h, base, n)
  OBVIOUS
<1>8. IsPower(f, base, n)
  BY <1>6, <1>7
<1>9. Args!Weight(base, n) = f[n]
  BY <1>7 DEF Args!Weight, IsPower
<1>10. \A i \in 0 .. n : f[i] = IF i = 0 THEN 1 ELSE base * f[i - 1]
  BY <1>8 DEF IsPower
<1>11. GoesOn(f, n, 1, s, Nat)
  <2>1. 0 \in 0 .. n /\ \A i \in 1 .. n : i \in 0 .. n /\ i # 0
    OBVIOUS
  <2>2. QED
    BY <1>2, <1>10, <2>1 DEF GoesOn
<1>12. \A i \in 0 .. n : f[i] = g[i]
  BY <1>4, <1>11, FollowsAlone
<1>13. Args!Weight(base, n) = g[n]
  BY <1>9, <1>12
<1>14. Grows(g, base, n)
  BY <1>4, <1>5 DEF Follows, Grows
<1>15. QED
  BY <1>13, <1>14

\* One place further is base times as much.
LEMMA WeightIs ==
    ASSUME NEW base \in Nat
    PROVE  /\ Args!Weight(base, 0) = 1
           /\ \A n \in Nat : /\ Args!Weight(base, n) \in Nat
                              /\ Args!Weight(base, n + 1) = base * Args!Weight(base, n)
<1>1. Args!Weight(base, 0) = 1
  BY PowerIs DEF Grows
<1>2. ASSUME NEW n \in Nat
      PROVE  Args!Weight(base, n) \in Nat /\ Args!Weight(base, n + 1) = base * Args!Weight(base, n)
  <2>1. PICK g : Grows(g, base, n) /\ Args!Weight(base, n) = g[n]
    BY PowerIs
  <2>2. PICK f : Grows(f, base, n + 1) /\ Args!Weight(base, n + 1) = f[n + 1]
    <3>1. n + 1 \in Nat
      OBVIOUS
    <3>2. QED
      BY <3>1, PowerIs
  <2>3. PICK s : s = [i \in 1 .. n |-> [v \in Nat |-> base * v]]
    OBVIOUS
  <2>4. \A i \in 1 .. n : \A v \in Nat : s[i][v] = base * v
    BY <2>3
  <2>5. \A i \in 1 .. n : i - 1 \in 0 .. n /\ i - 1 \in 0 .. n + 1 /\ i \in 1 .. n + 1
    OBVIOUS
  <2>6. Follows(g, n, 1, s, Nat)
    BY <2>1, <2>4, <2>5 DEF Follows, Grows
  <2>7. GoesOn(f, n, 1, s, Nat)
    BY <2>2, <2>4, <2>5 DEF GoesOn, Grows
  <2>8. \A i \in 0 .. n : f[i] = g[i]
    BY <2>1, <2>2, <2>6, <2>7, FollowsAlone
  <2>9. f[n + 1] = base * f[n] /\ f[n] = g[n] /\ g[n] \in Nat
    <3>1. n + 1 \in 1 .. n + 1 /\ (n + 1) - 1 = n /\ n \in 0 .. n
      OBVIOUS
    <3>2. QED
      BY <2>1, <2>2, <2>8, <3>1 DEF Grows
  <2>10. QED
    BY <2>1, <2>2, <2>9
<1>3. QED
  BY <1>1, <1>2

LEMMA Distribute ==
    ASSUME NEW b \in Nat, NEW v \in Nat, NEW d \in Nat, NEW w \in Nat
    PROVE  (b * v + d) * w = v * (b * w) + d * w
OBVIOUS

\* The digits at their places: SumOf is what IntOf adds up.
SumOf(d, base, n) ==
    LET sum[i \in 0 .. n] == IF i = 0 THEN 0 ELSE sum[i - 1] + d[i] * Args!Weight(base, n - i)
    IN  sum[n]

\* Multiplying and adding digit by digit is the same as adding the digits at their places.
LEMMA SumIsValue ==
    ASSUME NEW d, NEW n \in Nat, NEW base \in Nat, Digits(d, n)
    PROVE  SumOf(d, base, n) = Args!ValueOf(d, n, base) /\ Args!ValueOf(d, n, base) \in Nat
<1>1. PICK s : s = [i \in 1 .. n |-> [v \in Nat |-> v + d[i] * Args!Weight(base, n - i)]]
  OBVIOUS
<1>2. \A i \in 1 .. n : \A v \in Nat : s[i][v] = v + d[i] * Args!Weight(base, n - i)
  BY <1>1
<1>3. \A i \in 1 .. n : d[i] * Args!Weight(base, n - i) \in Nat
  <2>1. TAKE i \in 1 .. n
  <2>2. n - i \in Nat /\ d[i] \in Nat
    BY DEF Digits
  <2>3. Args!Weight(base, n - i) \in Nat
    BY <2>2, WeightIs
  <2>4. QED
    BY <2>2, <2>3, Products
<1>4. s \in [1 .. n -> [Nat -> Nat]]
  <2>1. ASSUME NEW i \in 1 .. n
        PROVE  [v \in Nat |-> v + d[i] * Args!Weight(base, n - i)] \in [Nat -> Nat]
    <3>1. PICK p \in Nat : p = d[i] * Args!Weight(base, n - i)
      BY <1>3
    <3>2. QED
      BY <3>1
  <2>2. QED
    BY <1>1, <2>1
<1>5. PICK g : Follows(g, n, 0, s, Nat)
  BY <1>4, FollowsExists
<1>6. g[0] = 0 /\ \A i \in 1 .. n : g[i] = g[i - 1] + d[i] * Args!Weight(base, n - i)
  <2>1. \A i \in 1 .. n : i - 1 \in 0 .. n
    OBVIOUS
  <2>2. QED
    BY <1>2, <1>5, <2>1 DEF Follows
<1>7. \E f : IsSum(f, d, base, n)
  <2>1. g = [i \in 0 .. n |-> IF i = 0 THEN 0 ELSE g[i - 1] + d[i] * Args!Weight(base, n - i)]
    BY <1>5, <1>6 DEF Follows
  <2>2. QED
    BY <2>1 DEF IsSum
<1>8. PICK f : f = CHOOSE h : IsSum(h, d, base, n)
  OBVIOUS
<1>9. IsSum(f, d, base, n)
  BY <1>7, <1>8
<1>10. SumOf(d, base, n) = f[n]
  BY <1>8 DEF SumOf, IsSum
<1>11. \A i \in 0 .. n : f[i] = IF i = 0 THEN 0 ELSE f[i - 1] + d[i] * Args!Weight(base, n - i)
  BY <1>9 DEF IsSum
<1>12. PICK h : Reads(h, d, n, base) /\ Args!ValueOf(d, n, base) = h[n]
  BY ValueOfIs
<1>13. \A i \in 0 .. n : f[i] = h[i] * Args!Weight(base, n - i)
  <2> DEFINE Wrong == {i \in 0 .. n : f[i] # h[i] * Args!Weight(base, n - i)}
  <2>1. SUFFICES ASSUME Wrong # {} PROVE FALSE
    OBVIOUS
  <2>2. PICK i \in Wrong : \A m \in Wrong : ~ (m < i)
    <3>1. Wrong \in SUBSET Nat
      OBVIOUS
    <3>2. QED
      BY <2>1, <3>1, LeastOf
  <2>3. Args!Weight(base, n - i) \in Nat
    <3>1. n - i \in Nat
      BY <2>2
    <3>2. QED
      BY <3>1, WeightIs
  <2>4. i # 0
    <3>1. SUFFICES ASSUME i = 0 PROVE FALSE
      OBVIOUS
    <3>2. f[0] = 0 /\ h[0] = 0
      BY <1>11, <1>12 DEF Reads
    <3>3. 0 * Args!Weight(base, n - i) = 0
      BY <2>3
    <3>4. QED
      BY <2>2, <3>1, <3>2, <3>3
  <2>5. i \in 1 .. n /\ i - 1 \in 0 .. n /\ i - 1 < i
    BY <2>2, <2>4
  <2>6. f[i - 1] = h[i - 1] * Args!Weight(base, n - (i - 1))
    BY <2>2, <2>5
  <2>7. Args!Weight(base, n - (i - 1)) = base * Args!Weight(base, n - i)
    <3>1. n - i \in Nat /\ n - (i - 1) = (n - i) + 1
      BY <2>5
    <3>2. QED
      BY <3>1, WeightIs
  <2>8. PICK w \in Nat : w = Args!Weight(base, n - i)
    BY <2>3
  <2>9. h[i - 1] \in Nat /\ d[i] \in Nat
    BY <1>12, <2>5 DEF Digits, Reads
  <2>10. f[i] = f[i - 1] + d[i] * w
    BY <1>11, <2>5, <2>8
  <2>11. h[i] * w = h[i - 1] * (base * w) + d[i] * w
    <3>1. h[i] = base * h[i - 1] + d[i]
      BY <1>12, <2>5 DEF Reads
    <3>2. PICK v \in Nat, e \in Nat : v = h[i - 1] /\ e = d[i]
      BY <2>9
    <3>3. (base * v + e) * w = v * (base * w) + e * w
      BY <2>8, Distribute
    <3>4. QED
      BY <3>1, <3>2, <3>3
  <2>12. f[i] = h[i] * w
    BY <2>6, <2>7, <2>8, <2>10, <2>11
  <2>13. QED
    BY <2>2, <2>8, <2>12
<1>14. f[n] = h[n] /\ h[n] \in Nat
  <2>1. Args!Weight(base, n - n) = 1
    BY WeightIs
  <2>2. n \in 0 .. n
    OBVIOUS
  <2>3. h[n] \in Nat
    BY <1>12, <2>2 DEF Reads
  <2>4. f[n] = h[n] * 1
    BY <1>13, <2>1, <2>2
  <2>5. QED
    BY <2>3, <2>4
<1>15. QED
  BY <1>10, <1>12, <1>14

\* Multiplying by a factor keeps the order, both ways.
LEMMA Monotone ==
    ASSUME NEW v \in Int, NEW q \in Int, NEW f \in Nat \ {0}
    PROVE  /\ v < q <=> v * f < q * f
           /\ v * f \in Int /\ q * f \in Int
<1>1. v * f \in Int /\ q * f \in Int
  OBVIOUS
<1>2. ASSUME v < q PROVE v * f < q * f
  <2>1. PICK d \in Nat : q = v + d + 1
    <3>1. q - v - 1 \in Nat /\ q = v + (q - v - 1) + 1
      BY <1>2
    <3>2. QED
      BY <3>1
  <2>2. d * f \in Nat
    BY Products
  <2>3. (v + d + 1) * f = v * f + d * f + f
    OBVIOUS
  <2>4. QED
    BY <1>1, <2>1, <2>2, <2>3
<1>3. ASSUME ~ v < q PROVE ~ v * f < q * f
  <2>1. PICK d \in Nat : v = q + d
    <3>1. v - q \in Nat /\ v = q + (v - q)
      BY <1>3
    <3>2. QED
      BY <3>1
  <2>2. d * f \in Nat
    BY Products
  <2>3. (q + d) * f = q * f + d * f
    OBVIOUS
  <2>4. QED
    BY <1>1, <2>1, <2>2, <2>3
<1>4. QED
  BY <1>1, <1>2, <1>3

\* The quotients that scanfn_int compares with, when the factor divides IntMax + 1.
LEMMA Quotients ==
    ASSUME NEW f \in Nat \ {0}, IntMax \in Nat, (IntMax + 1) % f = 0
    PROVE  \E q \in Nat : /\ q * f = IntMax + 1 /\ IntMax \div f = q - 1
                          /\ (- IntMax - 1) \div f = - q
<1>1. PICK q \in Int : q = (IntMax + 1) \div f
  OBVIOUS
<1>2. q * f = IntMax + 1
  BY <1>1
<1>3. q \in Nat
  BY <1>1
<1>4. IntMax = f * (q - 1) + (f - 1) /\ - IntMax - 1 = f * (- q)
  BY <1>2
<1>5. IntMax \div f = q - 1
  BY <1>3, <1>4
<1>6. (- IntMax - 1) \div f = - q
  BY <1>3, <1>4
<1>7. QED
  BY <1>2, <1>3, <1>5, <1>6

\* Comparing with the quotients tells whether the product is an int.
LEMMA OutsideIs ==
    ASSUME NEW v \in Int, NEW f \in Nat \ {0}, IntMax \in Nat, (IntMax + 1) % f = 0
    PROVE  ~ Args!Outside(v, 1) /\ ~ Args!Outside(v, f) <=> - IntMax - 1 <= v * f /\ v * f <= IntMax
<1>1. PICK q \in Nat : /\ q * f = IntMax + 1 /\ IntMax \div f = q - 1
                       /\ (- IntMax - 1) \div f = - q
  BY Quotients
<1>2. ~ Args!Outside(v, f) <=> v < q /\ ~ (v < - q)
  BY <1>1 DEF Args!Outside
<1>3. v < q <=> v * f < q * f
  BY Monotone
<1>4. v < - q <=> v * f < (- q) * f
  <2>1. - q \in Int
    OBVIOUS
  <2>2. QED
    BY <2>1, Monotone
<1>5. v * f \in Int /\ (- q) * f = - (q * f)
  BY Monotone
<1>6. ~ Args!Outside(v, f) <=> - IntMax - 1 <= v * f /\ v * f <= IntMax
  BY <1>1, <1>2, <1>3, <1>4, <1>5
<1>7. q <= IntMax + 1
  <2>1. CASE f = 1
    BY <1>1, <2>1
  <2>2. CASE f # 1
    <3>1. PICK d \in Nat : f = d + 1
      <4>1. f - 1 \in Nat /\ f = (f - 1) + 1
        OBVIOUS
      <4>2. QED
        BY <4>1
    <3>2. q * d \in Nat /\ q * (d + 1) = q * d + q
      BY Products
    <3>3. QED
      BY <1>1, <3>1, <3>2
  <2>3. QED
    BY <2>1, <2>2
<1>8. v < q /\ ~ (v < - q) => ~ Args!Outside(v, 1)
  BY <1>7 DEF Args!Outside
<1>9. QED
  BY <1>2, <1>6, <1>8

\* Digits are read up to the first one that the base does not have.
LEMMA KnownIs ==
    ASSUME NEW d \in Seq(Nat), NEW base \in Nat
    PROVE  /\ Args!Known(d, base) \in 0 .. Len(d)
           /\ Args!Known(d, base) = Len(d) <=> \A i \in 1 .. Len(d) : d[i] < base
<1> DEFINE Good(n) == /\ \A i \in 1 .. n : d[i] < base
                      /\ n < Len(d) => d[n + 1] >= base
<1>1. \E n \in 0 .. Len(d) : Good(n)
  <2> DEFINE Bad == {i \in 1 .. Len(d) : d[i] >= base}
  <2>1. CASE Bad = {}
    <3>1. \A i \in 1 .. Len(d) : d[i] \in Nat
      OBVIOUS
    <3>2. Len(d) \in 0 .. Len(d) /\ Good(Len(d))
      BY <2>1, <3>1
    <3>3. QED
      BY <3>2
  <2>2. CASE Bad # {}
    <3>1. PICK i \in Bad : \A m \in Bad : ~ (m < i)
      <4>1. Bad \in SUBSET Nat
        OBVIOUS
      <4>2. QED
        BY <2>2, <4>1, LeastOf
    <3>2. \A m \in 1 .. i - 1 : m \in 1 .. Len(d) /\ m < i /\ d[m] \in Nat
      BY <3>1
    <3>3. i - 1 \in 0 .. Len(d) /\ (i - 1) + 1 = i
      BY <3>1
    <3>4. Good(i - 1)
      BY <3>1, <3>2, <3>3
    <3>5. QED
      BY <3>3, <3>4
  <2>3. QED
    BY <2>1, <2>2
<1>2. PICK n : n = CHOOSE k \in 0 .. Len(d) : Good(k)
  OBVIOUS
<1>3. n \in 0 .. Len(d) /\ Good(n)
  BY <1>1, <1>2
<1>4. Args!Known(d, base) = n
  BY <1>2 DEF Args!Known
<1>5. n = Len(d) <=> \A i \in 1 .. Len(d) : d[i] < base
  <2>1. ASSUME n # Len(d), \A i \in 1 .. Len(d) : d[i] < base PROVE FALSE
    <3>1. n + 1 \in 1 .. Len(d) /\ n < Len(d)
      BY <1>3, <2>1
    <3>2. d[n + 1] >= base /\ d[n + 1] < base /\ d[n + 1] \in Nat
      BY <1>3, <2>1, <3>1
    <3>3. QED
      BY <3>2
  <2>2. QED
    BY <1>3, <2>1
<1>6. QED
  BY <1>3, <1>4, <1>5

\* What Strtol makes of a text whose prefix is that of the base.
LEMMA StrtolIs ==
    ASSUME NEW t \in Args!ArgTexts, NEW base \in Nat
    PROVE  LET r == Args!Strtol(t, base)
               all == \A i \in 1 .. Len(t.digits) : t.digits[i] < base
           IN  /\ r.read \in BOOLEAN /\ r.val \in Int
               /\ all => /\ r.read = (t.digits # << >>) /\ r.end = t.suffix
                         /\ r.val = t.sign * Args!ValueOf(t.digits, Len(t.digits), base)
               /\ ~ all => r.end = "junk"
<1> DEFINE d == t.digits
           n == Args!Known(d, base)
<1>1. d \in Seq(Nat) /\ t.sign \in Int
  BY DEF Args!ArgTexts
<1>2. n \in 0 .. Len(d) /\ (n = Len(d) <=> \A i \in 1 .. Len(d) : d[i] < base)
  BY <1>1, KnownIs
<1>3. Digits(d, n) /\ n \in Nat
  BY <1>1, <1>2 DEF Digits
<1>4. Args!ValueOf(d, n, base) \in Nat
  BY <1>3, SumIsValue
<1>5. PICK v \in Nat : v = Args!ValueOf(d, n, base)
  BY <1>4
<1>6. t.sign * v \in Int
  BY <1>1
<1>7. PICK r : r = Args!Strtol(t, base)
  OBVIOUS
<1>8. /\ r.read = (n > 0) /\ r.val = t.sign * Args!ValueOf(d, n, base)
      /\ r.end = IF n = Len(d) THEN t.suffix ELSE "junk"
  BY <1>7 DEF Args!Strtol
<1>9. Len(d) > 0 <=> d # << >>
  BY <1>1
<1> HIDE DEF n, d
<1>10. r.read \in BOOLEAN /\ r.val \in Int
  BY <1>5, <1>6, <1>8
<1>11. n = Len(d) => /\ r.read = (d # << >>) /\ r.end = t.suffix
                     /\ r.val = t.sign * Args!ValueOf(d, Len(d), base)
  BY <1>8, <1>9
<1>12. n # Len(d) => r.end = "junk"
  BY <1>8
<1>13. QED
  BY <1>2, <1>7, <1>10, <1>11, <1>12 DEF d

BaseOf(t) == Args!Base(t.prefix)

LEMMA TextIs ==
    ASSUME NEW t \in Args!ArgTexts
    PROVE  /\ t.digits \in Seq(Nat) /\ Len(t.digits) \in Nat /\ DOMAIN t.digits = 1 .. Len(t.digits)
           /\ Digits(t.digits, Len(t.digits)) /\ BaseOf(t) \in Nat /\ t.sign \in {1, -1}
<1>1. t.digits \in Seq(Nat) /\ t.sign \in {1, -1} /\ t.prefix \in {"", "0x", "0o", "0b"}
  BY DEF Args!ArgTexts, Args!Prefixes
<1>2. PICK d \in Seq(Nat) : d = t.digits
  BY <1>1
<1>3. Len(d) \in Nat /\ DOMAIN d = 1 .. Len(d) /\ \A i \in 1 .. Len(d) : d[i] \in Nat
  OBVIOUS
<1>4. BaseOf(t) \in Nat
  BY <1>1 DEF BaseOf, Args!Base
<1>5. QED
  BY <1>1, <1>2, <1>3, <1>4 DEF Digits

\* scanfn_int tries all prefixes; a text that is no number is not read or leaves something.
LEMMA ConvertIs ==
    ASSUME NEW t \in Args!ArgTexts
    PROVE  LET r == Args!Convert(t)
           IN  /\ r.val \in Int
               /\ Args!IsInt(t) => /\ r.read /\ r.end = t.suffix
                                   /\ r.val = t.sign * Args!ValueOf(t.digits, Len(t.digits), BaseOf(t))
               /\ ~ Args!IsInt(t) => ~ (r.read /\ r.end \in DOMAIN Factor \cup {""})
<1> DEFINE base == BaseOf(t)
           all == \A i \in 1 .. Len(t.digits) : t.digits[i] < base
           ok == DOMAIN Factor \cup {""}
<1>1. PICK c : c = Args!Convert(t)
  OBVIOUS
<1>2. PICK r : r = Args!Strtol(t, base)
  OBVIOUS
<1>3. base \in Nat /\ t.prefix \in {"", "0x", "0o", "0b"} /\ t.digits \in Seq(Nat)
  BY TextIs DEF Args!ArgTexts, Args!Prefixes
<1>4. /\ r.read \in BOOLEAN /\ r.val \in Int
      /\ all => /\ r.read = (t.digits # << >>) /\ r.end = t.suffix
                /\ r.val = t.sign * Args!ValueOf(t.digits, Len(t.digits), base)
      /\ ~ all => r.end = "junk"
  BY <1>2, <1>3, StrtolIs
<1>5. \/ c = r
      \/ ~ r.read /\ c.val = 0 /\ c.end = "junk"
  <2>1. CASE t.prefix = ""
    BY <1>1, <1>2, <2>1 DEF BaseOf, Args!Base, Args!Convert, Args!strtol0X_int, Args!Decimal
  <2>2. CASE t.prefix = "0x"
    BY <1>1, <1>2, <2>2 DEF BaseOf, Args!Base, Args!Convert, Args!strtol0X_int, Args!Decimal
  <2>3. CASE t.prefix = "0o"
    BY <1>1, <1>2, <2>3 DEF BaseOf, Args!Base, Args!Convert, Args!strtol0X_int, Args!Decimal
  <2>4. CASE t.prefix = "0b"
    BY <1>1, <1>2, <2>4 DEF BaseOf, Args!Base, Args!Convert, Args!strtol0X_int, Args!Decimal
  <2>5. QED
    BY <1>3, <2>1, <2>2, <2>3, <2>4
<1>6. "junk" \notin ok
  BY ArgsAssumption DEF Args!ConstantsFit, Args!FactorsFit
<1>7. Args!IsInt(t) <=> t.digits # << >> /\ t.suffix \in ok /\ all
  <2>1. DOMAIN t.digits = 1 .. Len(t.digits)
    BY TextIs
  <2>2. QED
    BY <2>1 DEF Args!IsInt, BaseOf
<1> HIDE DEF base, all, ok
<1>8. c.val \in Int
  BY <1>4, <1>5
<1>9. Args!IsInt(t) => /\ c.read /\ c.end = t.suffix
                       /\ c.val = t.sign * Args!ValueOf(t.digits, Len(t.digits), base)
  BY <1>4, <1>5, <1>7
<1>10. ~ Args!IsInt(t) => ~ (c.read /\ c.end \in ok)
  <2>1. CASE c = r
    BY <1>4, <1>6, <1>7, <2>1
  <2>2. CASE c.end = "junk"
    BY <1>6, <2>2
  <2>3. QED
    BY <1>5, <2>1, <2>2
<1>11. QED
  BY <1>1, <1>8, <1>9, <1>10 DEF base, ok

\* The number a text says it is, by the value of its digits.
LEMMA IntOfIs ==
    ASSUME NEW t \in Args!ArgTexts
    PROVE  Args!IntOf(t) = t.sign * Args!Scale(t) * Args!ValueOf(t.digits, Len(t.digits), BaseOf(t))
<1>1. Len(t.digits) \in Nat /\ BaseOf(t) \in Nat /\ Digits(t.digits, Len(t.digits))
  BY TextIs
<1>2. Args!IntOf(t) = t.sign * Args!Scale(t) * SumOf(t.digits, BaseOf(t), Len(t.digits))
  BY DEF Args!IntOf, SumOf, BaseOf
<1>3. SumOf(t.digits, BaseOf(t), Len(t.digits)) = Args!ValueOf(t.digits, Len(t.digits), BaseOf(t))
  BY <1>1, SumIsValue
<1>4. QED
  BY <1>2, <1>3

\* A text that is an int, scaled and in range, is accepted with its number, any other refused.
LEMMA ScanIs ==
    ASSUME NEW t \in Args!ArgTexts
    PROVE  LET r == Args!scanfn_int(t)
           IN  /\ Args!Fits(t) => r.error = NONE /\ r.val = Args!IntOf(t)
               /\ ~ Args!Fits(t) => r.error \in {"EBADINT", "EOVERFLOW"}
<1>1. PICK c : c = Args!Convert(t)
  OBVIOUS
<1>2. PICK f : f = Args!FactorOf(c.end)
  OBVIOUS
<1>3. PICK r : r = Args!scanfn_int(t)
  OBVIOUS
<1>4. r = IF ~ c.read \/ c.end \notin DOMAIN Factor \cup {""} THEN [error |-> "EBADINT", val |-> 0]
          ELSE IF Args!Outside(c.val, 1) \/ Args!Outside(c.val, f) THEN [error |-> "EOVERFLOW", val |-> 0]
          ELSE [error |-> NONE, val |-> c.val * f]
  BY <1>1, <1>2, <1>3 DEF Args!scanfn_int, Args!Scaled
<1>5. PICK v : v = Args!ValueOf(t.digits, Len(t.digits), BaseOf(t))
  OBVIOUS
<1>6. /\ c.val \in Int
      /\ Args!IsInt(t) => c.read /\ c.end = t.suffix /\ c.val = t.sign * v
      /\ ~ Args!IsInt(t) => ~ (c.read /\ c.end \in DOMAIN Factor \cup {""})
  BY <1>1, <1>5, ConvertIs
<1>7. CASE ~ Args!IsInt(t)
  <2>1. ~ Args!Fits(t)
    BY <1>7 DEF Args!Fits
  <2>2. r.error = "EBADINT"
    BY <1>4, <1>6, <1>7
  <2>3. QED
    BY <1>3, <2>1, <2>2
<1>8. CASE Args!IsInt(t)
  <2>1. c.read /\ c.end = t.suffix /\ c.val = t.sign * v /\ t.suffix \in DOMAIN Factor \cup {""}
    BY <1>6, <1>8 DEF Args!IsInt
  <2>2. f = Args!Scale(t) /\ f \in Nat \ {0} /\ (IntMax + 1) % f = 0 /\ IntMax \in Nat
    <3>1. IntMax \in Nat
      BY ArgsAssumption DEF Args!ConstantsFit, Args!FactorsFit
    <3>2. \A e \in DOMAIN Factor : Factor[e] \in Nat \ {0} /\ (IntMax + 1) % Factor[e] = 0
      <4>1. Factor \in [DOMAIN Factor -> Nat \ {0}]
        BY ArgsAssumption DEF Args!ConstantsFit, Args!FactorsFit
      <4>2. \A e \in DOMAIN Factor : (IntMax + 1) % Factor[e] = 0
        BY ArgsAssumption DEF Args!ConstantsFit, Args!FactorsFit
      <4>3. QED
        BY <4>1, <4>2, Zenon
    <3>3. CASE t.suffix = ""
      <4>1. f = 1 /\ Args!Scale(t) = 1
        <5>1. "" \notin DOMAIN Factor
          BY ArgsAssumption DEF Args!ConstantsFit, Args!FactorsFit
        <5>2. QED
          BY <1>2, <2>1, <3>3, <5>1 DEF Args!Scale, Args!FactorOf
      <4>2. (IntMax + 1) % f = 0
        <5>1. \A k \in Nat : k % 1 = 0
          OBVIOUS
        <5>2. IntMax + 1 \in Nat
          BY ONLY <3>1
        <5>3. QED
          BY ONLY <4>1, <5>1, <5>2, Zenon
      <4>3. f \in Nat \ {0}
        BY <4>1
      <4>4. QED
        BY <3>1, <4>1, <4>2, <4>3, Zenon
    <3>4. CASE t.suffix # ""
      <4>1. t.suffix \in DOMAIN Factor
        BY <2>1, <3>4
      <4>2. f = Factor[t.suffix] /\ Args!Scale(t) = Factor[t.suffix]
        BY <1>2, <2>1, <3>4, <4>1 DEF Args!Scale, Args!FactorOf
      <4>3. QED
        BY <3>1, <3>2, <4>1, <4>2, Zenon
    <3>5. QED
      BY <3>3, <3>4
  <2>3. Args!IntOf(t) = c.val * f
    <3>1. Args!IntOf(t) = t.sign * f * v
      BY <1>5, <2>2, IntOfIs
    <3>2. v \in Nat
      <4>1. Len(t.digits) \in Nat /\ BaseOf(t) \in Nat /\ Digits(t.digits, Len(t.digits))
        BY TextIs
      <4>2. QED
        BY <1>5, <4>1, SumIsValue
    <3>3. t.sign = 1 \/ t.sign = -1
      BY TextIs
    <3>4. t.sign * f * v = (t.sign * v) * f
      BY <2>2, <3>2, <3>3
    <3>5. QED
      BY <2>1, <3>1, <3>4
  <2>4. Args!Fits(t) <=> - IntMax - 1 <= c.val * f /\ c.val * f <= IntMax
    BY <1>8, <2>3 DEF Args!Fits
  <2>5. Args!Fits(t) <=> ~ Args!Outside(c.val, 1) /\ ~ Args!Outside(c.val, f)
    BY <1>6, <2>2, <2>4, OutsideIs
  <2>6. Args!Fits(t) => r.error = NONE /\ r.val = c.val * f
    BY <1>4, <2>1, <2>5
  <2>7. ~ Args!Fits(t) => r.error = "EOVERFLOW"
    BY <1>4, <2>1, <2>5
  <2>8. QED
    BY <1>3, <2>3, <2>6, <2>7
<1>9. QED
  BY <1>7, <1>8

-----------------------------------------------------------------------------
(***************************************************************************)
(* Errors.                                                                 *)
(***************************************************************************)

\* What is registered: the codes, and the letters that are no options.
Errors == {"ARG_ELIMIT", "ARG_EMISSARG", "ARG_ELONGOPT", "ARG_ENOMATCH", "EBADINT", "EOVERFLOW", "EMAXCOUNT"}
          \cup UNION {{w.letters[i] : i \in 1 .. Len(w.letters)} : w \in {x \in Words : x.kind = "short"}}

\* What arg_end keeps of all errors.
Kept(f) == IF Len(f) > MaxErrors THEN Append(SubSeq(f, 1, MaxErrors - 1), "ARG_ELIMIT") ELSE f

\* What is in arg_end, place by place.
LEMMA KeptIs ==
    ASSUME NEW f \in Seq(Errors)
    PROVE  /\ Kept(f) \in Seq(Errors) /\ Len(Kept(f)) = (IF Len(f) > MaxErrors THEN MaxErrors ELSE Len(f))
           /\ \A i \in 1 .. Len(Kept(f)) :
                 Kept(f)[i] = IF Len(f) > MaxErrors /\ i = MaxErrors THEN "ARG_ELIMIT" ELSE f[i]
<1>1. MaxErrors \in Nat \ {0} /\ "ARG_ELIMIT" \in Errors
  <2>1. MaxErrors \in Nat \ {0}
    BY ArgsAssumption DEF Args!ConstantsFit
  <2>2. "ARG_ELIMIT" \in Errors
    BY DEF Errors
  <2>3. QED
    BY <2>1, <2>2
<1>2. CASE Len(f) > MaxErrors
  <2>1. PICK b : b = SubSeq(f, 1, MaxErrors - 1)
    OBVIOUS
  <2>2. /\ b \in Seq(Errors) /\ Len(b) = MaxErrors - 1
        /\ \A i \in 1 .. MaxErrors - 1 : b[i] = f[i]
    <3>1. \A i \in 1 .. MaxErrors - 1 : i \in 1 .. Len(f)
      BY <1>1, <1>2
    <3>2. QED
      BY <1>1, <1>2, <2>1, <3>1, SubSeqProperties
  <2>3. Kept(f) = Append(b, "ARG_ELIMIT")
    BY <1>2, <2>1 DEF Kept
  <2>4. QED
    BY <1>1, <1>2, <2>2, <2>3, AppendProperties
<1>3. CASE ~ Len(f) > MaxErrors
  BY <1>1, <1>3 DEF Kept
<1>4. QED
  BY <1>2, <1>3

\* One more error, when the table has room for it and when it has not.
LEMMA RegisterOne ==
    ASSUME NEW f \in Seq(Errors), NEW e \in Errors
    PROVE  Args!arg_register_error(Kept(f), e) = Kept(Append(f, e))
<1>1. MaxErrors \in Nat \ {0}
  BY ArgsAssumption DEF Args!ConstantsFit
<1>2. PICK g : g = Append(f, e)
  OBVIOUS
<1>3. /\ g \in Seq(Errors) /\ Len(g) = Len(f) + 1 /\ Len(f) \in Nat
      /\ \A i \in 1 .. Len(f) + 1 : g[i] = IF i = Len(f) + 1 THEN e ELSE f[i]
  BY <1>2, AppendProperties
<1>4. PICK k : k = Kept(f)
  OBVIOUS
<1>5. PICK h : h = Kept(g)
  OBVIOUS
<1>6. /\ k \in Seq(Errors) /\ Len(k) = (IF Len(f) > MaxErrors THEN MaxErrors ELSE Len(f))
      /\ \A i \in 1 .. Len(k) : k[i] = IF Len(f) > MaxErrors /\ i = MaxErrors THEN "ARG_ELIMIT" ELSE f[i]
  BY <1>4, KeptIs
<1>7. /\ h \in Seq(Errors) /\ Len(h) = (IF Len(g) > MaxErrors THEN MaxErrors ELSE Len(g))
      /\ \A i \in 1 .. Len(h) : h[i] = IF Len(g) > MaxErrors /\ i = MaxErrors THEN "ARG_ELIMIT" ELSE g[i]
  BY <1>3, <1>5, KeptIs
<1>8. CASE Len(f) < MaxErrors
  <2>1. k = f /\ h = g
    BY <1>1, <1>3, <1>4, <1>5, <1>8 DEF Kept
  <2>2. QED
    BY <1>2, <1>4, <1>5, <1>8, <2>1 DEF Args!arg_register_error
<1>9. CASE ~ Len(f) < MaxErrors
  <2>1. Len(k) = MaxErrors /\ Len(h) = MaxErrors
    BY <1>1, <1>3, <1>6, <1>7, <1>9
  <2>2. PICK r : r = [k EXCEPT ![MaxErrors] = "ARG_ELIMIT"]
    OBVIOUS
  <2>3. Args!arg_register_error(Kept(f), e) = r
    BY <1>1, <1>4, <2>1, <2>2 DEF Args!arg_register_error
  <2>4. DOMAIN k = 1 .. MaxErrors /\ DOMAIN h = 1 .. MaxErrors
    BY <1>6, <1>7, <2>1
  <2>5. ASSUME NEW i \in 1 .. MaxErrors PROVE r[i] = h[i]
    <3>1. i \in 1 .. Len(k) /\ i \in 1 .. Len(h) /\ i \in 1 .. Len(f) + 1 /\ Len(g) > MaxErrors
      BY <1>1, <1>3, <1>9, <2>1
    <3>2. CASE i = MaxErrors
      <4>1. r[i] = "ARG_ELIMIT"
        BY <2>2, <2>4, <3>2
      <4>2. h[i] = "ARG_ELIMIT"
        BY <1>7, <3>1, <3>2
      <4>3. QED
        BY <4>1, <4>2
    <3>3. CASE i # MaxErrors
      <4>1. r[i] = k[i]
        BY <2>2, <2>4, <3>3
      <4>2. k[i] = f[i]
        BY <1>6, <3>1, <3>3
      <4>3. h[i] = g[i]
        BY <1>7, <3>1, <3>3
      <4>4. g[i] = f[i]
        BY <1>1, <1>3, <1>9, <3>1, <3>3
      <4>5. QED
        BY <4>1, <4>2, <4>3, <4>4
    <3>4. QED
      BY <3>2, <3>3
  <2>6. r = h
    <3>1. r = [i \in 1 .. MaxErrors |-> r[i]]
      BY <2>2, <2>4
    <3>2. h = [i \in 1 .. MaxErrors |-> h[i]]
      <4>1. h = [i \in 1 .. Len(h) |-> h[i]]
        BY <1>7
      <4>2. QED
        BY <2>1, <4>1
    <3>3. QED
      BY <2>5, <3>1, <3>2
  <2>7. QED
    BY <1>2, <1>5, <2>3, <2>6
<1>10. QED
  BY <1>8, <1>9

IsRegistered(u, errs, list) ==
    u = [i \in 0 .. Len(list) |-> IF i = 0 THEN errs ELSE Args!arg_register_error(u[i - 1], list[i])]

\* Several errors at once.
LEMMA RegisteredIs ==
    ASSUME NEW f \in Seq(Errors), NEW list \in Seq(Errors)
    PROVE  Args!Registered(Kept(f), list) = Kept(f \o list)
<1> DEFINE n == Len(list)
<1>1. PICK b : b = [i \in 0 .. n |-> f \o SubSeq(list, 1, i)]
  OBVIOUS
<1>2. n \in Nat /\ 0 \in 0 .. n /\ n \in 0 .. n /\ \A i \in 1 .. n : i \in 0 .. n /\ i - 1 \in 0 .. n /\ i # 0
  OBVIOUS
<1>3. b[0] = f /\ b[n] = f \o list
  <2>1. SubSeq(list, 1, 0) = << >> /\ SubSeq(list, 1, n) = list
    BY SubSeqProperties
  <2>2. f \o << >> = f
    OBVIOUS
  <2>3. b[0] = f \o SubSeq(list, 1, 0) /\ b[n] = f \o SubSeq(list, 1, n)
    BY <1>1, <1>2
  <2>4. QED
    BY <2>1, <2>2, <2>3
<1>4. \A i \in 0 .. n : b[i] \in Seq(Errors)
  <2>1. ASSUME NEW i \in 0 .. n PROVE b[i] \in Seq(Errors)
    <3>1. PICK q : q = SubSeq(list, 1, i)
      OBVIOUS
    <3>2. q \in Seq(Errors)
      BY <3>1
    <3>3. b[i] = f \o q
      BY <1>1, <3>1
    <3>4. QED
      BY <3>2, <3>3
  <2>2. QED
    BY <2>1
<1>5. \A i \in 1 .. n : b[i] = Append(b[i - 1], list[i])
  <2>1. ASSUME NEW i \in 1 .. n PROVE b[i] = Append(b[i - 1], list[i])
    <3>1. PICK q : q = SubSeq(list, 1, i)
      OBVIOUS
    <3>2. PICK p : p = SubSeq(list, 1, i - 1)
      OBVIOUS
    <3>3. q \in Seq(Errors) /\ p \in Seq(Errors) /\ q = Append(p, list[i]) /\ list[i] \in Errors
      BY <3>1, <3>2
    <3>4. f \o Append(p, list[i]) = Append(f \o p, list[i])
      BY <3>3
    <3>5. b[i] = f \o q /\ b[i - 1] = f \o p
      BY <1>1, <1>2, <3>1, <3>2
    <3>6. QED
      BY <3>3, <3>4, <3>5
  <2>2. QED
    BY <2>1
<1>6. PICK g : g = [i \in 0 .. n |-> Kept(b[i])]
  OBVIOUS
<1>7. PICK s : s = [i \in 1 .. n |-> [v \in Seq(Errors) |-> Args!arg_register_error(v, list[i])]]
  OBVIOUS
<1>8. \A i \in 1 .. n : g[i] = Args!arg_register_error(g[i - 1], list[i]) /\ list[i] \in Errors
  <2>1. ASSUME NEW i \in 1 .. n
        PROVE  g[i] = Args!arg_register_error(g[i - 1], list[i]) /\ list[i] \in Errors
    <3>1. g[i] = Kept(b[i]) /\ g[i - 1] = Kept(b[i - 1])
      BY <1>2, <1>6
    <3>2. list[i] \in Errors /\ b[i - 1] \in Seq(Errors) /\ b[i] = Append(b[i - 1], list[i])
      BY <1>2, <1>4, <1>5
    <3>3. QED
      BY <3>1, <3>2, RegisterOne
  <2>2. QED
    BY <2>1
<1>9. \A i \in 0 .. n : g[i] \in Seq(Errors)
  BY <1>4, <1>6, KeptIs
<1>10. g[0] = Kept(f)
  BY <1>2, <1>3, <1>6
<1> HIDE DEF n
<1>11. Follows(g, n, Kept(f), s, Seq(Errors))
  <2>1. g \in [0 .. n -> Seq(Errors)]
    BY <1>6, <1>9
  <2>2. \A i \in 1 .. n : g[i] = s[i][g[i - 1]]
    BY <1>2, <1>7, <1>8, <1>9
  <2>3. QED
    BY <1>10, <2>1, <2>2 DEF Follows
<1>12. \E u : IsRegistered(u, Kept(f), list)
  <2>1. g = [i \in 0 .. n |-> IF i = 0 THEN Kept(f) ELSE Args!arg_register_error(g[i - 1], list[i])]
    <3>1. \A i \in 0 .. n : i # 0 => i \in 1 .. n
      BY <1>2
    <3>2. \A i \in 0 .. n :
             g[i] = IF i = 0 THEN Kept(f) ELSE Args!arg_register_error(g[i - 1], list[i])
      BY <1>8, <1>10, <3>1
    <3>3. g = [i \in 0 .. n |-> g[i]]
      BY <1>6
    <3>4. QED
      BY <3>2, <3>3
  <2>2. QED
    BY <2>1 DEF IsRegistered, n
<1>13. PICK u : u = CHOOSE v : IsRegistered(v, Kept(f), list)
  OBVIOUS
<1>14. IsRegistered(u, Kept(f), list)
  BY <1>12, <1>13
<1>15. Args!Registered(Kept(f), list) = u[n]
  BY <1>13 DEF Args!Registered, IsRegistered, n
<1>16. \A i \in 0 .. n : u[i] = IF i = 0 THEN Kept(f) ELSE Args!arg_register_error(u[i - 1], list[i])
  BY <1>14 DEF IsRegistered, n
<1>17. GoesOn(u, n, Kept(f), s, Seq(Errors))
  BY <1>2, <1>7, <1>16 DEF GoesOn
<1>18. u[n] = g[n]
  BY <1>2, <1>11, <1>17, FollowsAlone
<1>19. g[n] = Kept(f \o list)
  BY <1>2, <1>3, <1>6
<1>20. QED
  BY <1>15, <1>18, <1>19

-----------------------------------------------------------------------------
(***************************************************************************)
(* Options.                                                                *)
(***************************************************************************)

\* The time is the first number among what was given as such.
TimeRead(read, times) ==
    \/ read = << >> /\ \A i \in 1 .. Len(times) : ~ Args!Fits(times[i])
    \/ \E i \in 1 .. Len(times) : /\ Args!Fits(times[i]) /\ \A j \in 1 .. i - 1 : ~ Args!Fits(times[j])
                                  /\ read = <<Args!IntOf(times[i])>>

\* What is in the table is what was given, and what was lost of it is an error that was found.
Honest(tb, gv, fd) ==
    /\ tb = [o \in Args!Options |-> tb[o]] /\ gv \in [Args!Options -> Seq(Args!ArgValues)]
    /\ gv["time"] \in Seq(Args!ArgTexts) /\ fd \in Seq(Errors)
    /\ tb["config_file"] = gv["config_file"] /\ tb["command_file"] = gv["command_file"]
    /\ TimeRead(tb["time"], gv["time"])
    /\ tb["help"] = IF gv["help"] = << >> THEN << >> ELSE <<NONE>>
    /\ fd = << >> => Len(gv["time"]) <= 1 /\ \A i \in 1 .. Len(gv["time"]) : Args!Fits(gv["time"][i])

LEMMA Both ==
    ASSUME NEW S, NEW f \in Seq(S), NEW list \in Seq(S)
    PROVE  f \o list \in Seq(S) /\ (f \o list = << >> <=> f = << >> /\ list = << >>)
<1>1. PICK g : g = f \o list
  OBVIOUS
<1>2. g \in Seq(S) /\ Len(g) = Len(f) + Len(list)
  BY <1>1, ConcatProperties
<1>3. Len(f) \in Nat /\ Len(list) \in Nat
  OBVIOUS
<1>4. (g = << >> <=> Len(g) = 0) /\ (f = << >> <=> Len(f) = 0) /\ (list = << >> <=> Len(list) = 0)
  BY <1>2
<1>5. QED
  BY <1>1, <1>2, <1>3, <1>4

\* One more value for the time.
LEMMA TimeStep ==
    ASSUME NEW read, NEW times \in Seq(Args!ArgTexts), TimeRead(read, times), NEW t \in Args!ArgTexts
    PROVE  /\ read = << >> => \A i \in 1 .. Len(times) : ~ Args!Fits(times[i])
           /\ read # << >> => Len(read) = 1 /\ Len(times) > 0 /\ TimeRead(read, Append(times, t))
           /\ read = << >> /\ Args!Fits(t) => TimeRead(<<Args!IntOf(t)>>, Append(times, t))
           /\ read = << >> /\ ~ Args!Fits(t) => TimeRead(read, Append(times, t))
           /\ read = << >> \/ Len(read) = 1
<1>1. PICK h : h = Append(times, t)
  OBVIOUS
<1>2. /\ Len(h) = Len(times) + 1 /\ Len(times) \in Nat
      /\ \A i \in 1 .. Len(times) : h[i] = times[i] /\ i \in 1 .. Len(h)
      /\ h[Len(times) + 1] = t
  BY <1>1, AppendProperties
<1>3. CASE read = << >> /\ \A i \in 1 .. Len(times) : ~ Args!Fits(times[i])
  <2>1. ASSUME Args!Fits(t) PROVE TimeRead(<<Args!IntOf(t)>>, h)
    <3>1. PICK i \in 1 .. Len(h) : i = Len(times) + 1
      BY <1>2
    <3>2. Args!Fits(h[i]) /\ h[i] = t
      BY <1>2, <2>1, <3>1
    <3>3. \A j \in 1 .. i - 1 : j \in 1 .. Len(times)
      BY <1>2, <3>1
    <3>4. \A j \in 1 .. i - 1 : ~ Args!Fits(h[j])
      BY <1>2, <1>3, <3>3
    <3>5. QED
      BY <3>2, <3>4 DEF TimeRead
  <2>2. ASSUME ~ Args!Fits(t) PROVE TimeRead(read, h)
    <3>1. \A i \in 1 .. Len(h) : i \in 1 .. Len(times) \/ i = Len(times) + 1
      BY <1>2
    <3>2. \A i \in 1 .. Len(h) : ~ Args!Fits(h[i])
      BY <1>2, <1>3, <2>2, <3>1
    <3>3. QED
      BY <1>3, <3>2 DEF TimeRead
  <2>3. QED
    BY <1>1, <1>3, <2>1, <2>2
<1>4. ASSUME NEW i \in 1 .. Len(times), Args!Fits(times[i]), \A j \in 1 .. i - 1 : ~ Args!Fits(times[j]),
             read = <<Args!IntOf(times[i])>>
      PROVE  /\ read # << >> /\ Len(read) = 1 /\ Len(times) > 0 /\ TimeRead(read, h)
  <2>1. i \in 1 .. Len(h) /\ h[i] = times[i] /\ \A j \in 1 .. i - 1 : j \in 1 .. Len(times)
    BY <1>2
  <2>2. \A j \in 1 .. i - 1 : ~ Args!Fits(h[j])
    BY <1>2, <1>4, <2>1
  <2>3. TimeRead(read, h)
    BY <1>4, <2>1, <2>2 DEF TimeRead
  <2>4. read # << >> /\ Len(read) = 1 /\ Len(times) > 0
    BY <1>2, <1>4
  <2>5. QED
    BY <2>3, <2>4
<1>5. QED
  BY <1>1, <1>3, <1>4 DEF TimeRead

Files == {"config_file", "command_file"}

\* An option that is accepted keeps the table honest, whether its scan function takes it or not.
LEMMA AcceptHonest ==
    ASSUME Honest(options, given, found), errors = Kept(found),
           NEW o \in Args!Options, NEW text \in Args!ArgValues, o = "time" => text \in Args!ArgTexts,
           NEW list \in Seq(Errors), Args!Accept(o, text, list),
           Len(argv) \in Nat, o \in Files => Len(given[o]) < Len(argv) + 3
    PROVE  /\ Honest(options', given', found') /\ errors' = Kept(found')
           /\ \A f \in Files : /\ Len(given[f]) \in Nat
                              /\ Len(given'[f]) = IF f = o THEN Len(given[f]) + 1 ELSE Len(given[f])
<1> DEFINE scan == Args!Scan(o, text)
<1>1. PICK tb, gv, fd : tb = options /\ gv = given /\ fd = found
  OBVIOUS
<1>2. PICK tb2, gv2, fd2 : tb2 = options' /\ gv2 = given' /\ fd2 = found'
  OBVIOUS
<1>3. PICK r : r = scan
  OBVIOUS
<1>4. PICK more : more = IF r.error = NONE THEN << >> ELSE <<r.error>>
  OBVIOUS
<1>5. /\ tb2 = r.table /\ fd2 = fd \o (list \o more) /\ gv2 = [gv EXCEPT ![o] = Append(@, text)]
      /\ errors' = Args!Registered(errors, list \o more)
  BY <1>1, <1>2, <1>3, <1>4 DEF Args!Accept, Args!Settle, Args!Report
<1>6. Honest(tb, gv, fd)
  BY <1>1
<1>7. o \in {"help", "time", "config_file", "command_file"}
  BY DEF Args!Options
<1>8. gv \in [Args!Options -> Seq(Args!ArgValues)] /\ DOMAIN tb = Args!Options /\ fd \in Seq(Errors)
  BY <1>6 DEF Honest
<1>9. /\ gv2 \in [Args!Options -> Seq(Args!ArgValues)] /\ gv2[o] = Append(gv[o], text)
      /\ \A p \in Args!Options \ {o} : gv2[p] = gv[p]
  BY <1>5, <1>8
<1>10. NONE \notin {"EBADINT", "EOVERFLOW", "EMAXCOUNT"}
  BY ArgsAssumption DEF Args!ConstantsFit
<1>11. \A p \in Args!Options : /\ Len(gv[p]) \in Nat /\ Len(Append(gv[p], text)) = Len(gv[p]) + 1
                               /\ Append(gv[p], text) # << >>
  <2>1. ASSUME NEW p \in Args!Options
        PROVE  /\ Len(gv[p]) \in Nat /\ Len(Append(gv[p], text)) = Len(gv[p]) + 1
               /\ Append(gv[p], text) # << >>
    <3>1. PICK q \in Seq(Args!ArgValues) : q = gv[p]
      BY <1>8
    <3>2. Len(q) \in Nat /\ Len(Append(q, text)) = Len(q) + 1 /\ Append(q, text) # << >>
      BY AppendProperties
    <3>3. QED
      BY <3>1, <3>2
  <2>2. QED
    BY <2>1
\* Counted, of what is in the table.
<1>12. ASSUME NEW item, r = Args!Counted(o, item)
       PROVE  IF Len(tb[o]) = Args!maxcount(o) THEN r.error = "EMAXCOUNT" /\ r.table = tb
              ELSE r.error = NONE /\ r.table = [tb EXCEPT ![o] = Append(@, item)]
  BY <1>1, <1>12 DEF Args!Counted, Args!Refused
<1> HIDE DEF scan
<1> DEFINE Good == /\ r.error = NONE \/ r.error \in Errors
                   /\ DOMAIN tb2 = Args!Options /\ tb2 = [p \in Args!Options |-> tb2[p]]
                   /\ tb2["config_file"] = gv2["config_file"] /\ tb2["command_file"] = gv2["command_file"]
                   /\ gv2["time"] \in Seq(Args!ArgTexts) /\ TimeRead(tb2["time"], gv2["time"])
                   /\ tb2["help"] = IF gv2["help"] = << >> THEN << >> ELSE <<NONE>>
                   /\ fd = << >> /\ r.error = NONE =>
                         Len(gv2["time"]) <= 1 /\ \A i \in 1 .. Len(gv2["time"]) : Args!Fits(gv2["time"][i])
<1>13. "EMAXCOUNT" \in Errors /\ "EBADINT" \in Errors /\ "EOVERFLOW" \in Errors
  BY DEF Errors
<1>14. /\ tb = [p \in Args!Options |-> tb[p]]
       /\ tb["config_file"] = gv["config_file"] /\ tb["command_file"] = gv["command_file"]
       /\ gv["time"] \in Seq(Args!ArgTexts) /\ TimeRead(tb["time"], gv["time"])
       /\ tb["help"] = IF gv["help"] = << >> THEN << >> ELSE <<NONE>>
       /\ fd = << >> => Len(gv["time"]) <= 1 /\ \A i \in 1 .. Len(gv["time"]) : Args!Fits(gv["time"][i])
  BY <1>6 DEF Honest
<1>15. /\ "help" \in Args!Options /\ "time" \in Args!Options
       /\ "config_file" \in Args!Options /\ "command_file" \in Args!Options
  BY DEF Args!Options
<1>16. ASSUME NEW x, tb2 = [tb EXCEPT ![o] = x]
       PROVE  /\ DOMAIN tb2 = Args!Options /\ tb2 = [p \in Args!Options |-> tb2[p]] /\ tb2[o] = x
              /\ \A p \in Args!Options \ {o} : tb2[p] = tb[p]
  BY <1>8, <1>14, <1>16
<1>17. ASSUME o = "help" PROVE Good
  <2>1. r = Args!Counted(o, NONE)
    BY <1>3, <1>17 DEF scan, Args!Scan, Args!scanfn_lit
  <2>2. Args!maxcount(o) = 1
    BY <1>17 DEF Args!maxcount
  <2>3. gv2["help"] # << >>
    BY <1>9, <1>11, <1>17
  <2>4. /\ gv2["time"] = gv["time"] /\ gv2["config_file"] = gv["config_file"]
        /\ gv2["command_file"] = gv["command_file"]
    BY <1>9, <1>15, <1>17
  <2>5. CASE tb["help"] = << >>
    <3>1. Len(tb[o]) # 1 /\ Append(tb[o], NONE) = <<NONE>>
      BY <1>17, <2>5
    <3>2. r.error = NONE /\ tb2 = [tb EXCEPT ![o] = <<NONE>>]
      BY <1>5, <1>12, <2>1, <2>2, <3>1
    <3>3. /\ DOMAIN tb2 = Args!Options /\ tb2 = [p \in Args!Options |-> tb2[p]] /\ tb2["help"] = <<NONE>>
          /\ tb2["time"] = tb["time"] /\ tb2["config_file"] = tb["config_file"]
          /\ tb2["command_file"] = tb["command_file"]
      BY <1>15, <1>16, <1>17, <3>2
    <3>4. QED
      BY <1>14, <2>3, <2>4, <3>2, <3>3
  <2>6. CASE tb["help"] # << >>
    <3>1. tb[o] = <<NONE>> /\ Len(tb[o]) = 1
      BY <1>14, <1>17, <2>6
    <3>2. r.error = "EMAXCOUNT" /\ tb2 = tb
      BY <1>5, <1>12, <2>1, <2>2, <3>1
    <3>3. QED
      BY <1>8, <1>10, <1>13, <1>14, <1>17, <2>3, <2>4, <3>1, <3>2
  <2>7. QED
    BY <2>5, <2>6
<1>18. ASSUME o = "time" PROVE Good
  <2>1. PICK times \in Seq(Args!ArgTexts) : times = gv["time"]
    BY <1>14
  <2>2. gv2["time"] = Append(times, text) /\ text \in Args!ArgTexts
    BY <1>9, <1>18, <2>1
  <2>3. /\ gv2["help"] = gv["help"] /\ gv2["config_file"] = gv["config_file"]
        /\ gv2["command_file"] = gv["command_file"]
    BY <1>9, <1>15, <1>18
  <2>4. PICK read : read = tb["time"]
    OBVIOUS
  <2>5. TimeRead(read, times)
    BY <1>14, <2>1, <2>4
  <2>6. /\ read = << >> => \A i \in 1 .. Len(times) : ~ Args!Fits(times[i])
        /\ read # << >> => Len(read) = 1 /\ Len(times) > 0 /\ TimeRead(read, Append(times, text))
        /\ read = << >> /\ Args!Fits(text) => TimeRead(<<Args!IntOf(text)>>, Append(times, text))
        /\ read = << >> /\ ~ Args!Fits(text) => TimeRead(read, Append(times, text))
    BY <2>2, <2>5, TimeStep
  <2>7. PICK w : w = Args!scanfn_int(text)
    OBVIOUS
  <2>8. /\ Args!Fits(text) => w.error = NONE /\ w.val = Args!IntOf(text)
        /\ ~ Args!Fits(text) => w.error \in {"EBADINT", "EOVERFLOW"}
    BY <2>2, <2>7, ScanIs
  <2>9. r = Args!CountedInt(o, w)
    BY <1>3, <1>18, <2>7 DEF scan, Args!Scan
  <2>10. Args!maxcount(o) = 1
    BY <1>18 DEF Args!maxcount
  <2>11. gv2["time"] \in Seq(Args!ArgTexts)
    BY <2>2
  <2>12. CASE read # << >>
    <3>1. r = Args!Counted(o, w.val)
      BY <1>1, <1>18, <2>4, <2>9, <2>12 DEF Args!CountedInt
    <3>2. r.error = "EMAXCOUNT" /\ tb2 = tb
      BY <1>5, <1>12, <1>18, <2>4, <2>6, <2>10, <2>12, <3>1
    <3>3. TimeRead(tb2["time"], gv2["time"])
      BY <2>2, <2>4, <2>6, <2>12, <3>2
    <3>4. QED
      BY <1>8, <1>10, <1>13, <1>14, <2>3, <2>11, <3>2, <3>3
  <2>13. CASE read = << >> /\ ~ Args!Fits(text)
    <3>1. w.error \in {"EBADINT", "EOVERFLOW"} /\ w.error # NONE
      BY <1>10, <2>8, <2>13
    <3>2. r.error = w.error /\ r.table = tb
      BY <1>1, <1>18, <2>4, <2>9, <2>13, <3>1 DEF Args!CountedInt, Args!Refused
    <3>3. TimeRead(tb2["time"], gv2["time"]) /\ tb2 = tb
      BY <1>5, <2>2, <2>4, <2>6, <2>13, <3>2
    <3>4. r.error \in Errors /\ r.error # NONE
      BY <1>13, <3>1, <3>2
    <3>5. QED
      BY <1>8, <1>14, <2>3, <2>11, <3>3, <3>4
  <2>14. CASE read = << >> /\ Args!Fits(text)
    <3>1. w.error = NONE /\ w.val = Args!IntOf(text)
      BY <2>8, <2>14
    <3>2. r = Args!Counted(o, w.val)
      BY <2>9, <3>1 DEF Args!CountedInt
    <3>3. Len(tb[o]) # 1 /\ Append(tb[o], w.val) = <<w.val>>
      BY <1>18, <2>4, <2>14
    <3>4. r.error = NONE /\ tb2 = [tb EXCEPT ![o] = <<w.val>>]
      BY <1>5, <1>12, <2>10, <3>2, <3>3
    <3>5. /\ DOMAIN tb2 = Args!Options /\ tb2 = [p \in Args!Options |-> tb2[p]] /\ tb2["time"] = <<w.val>>
          /\ tb2["help"] = tb["help"] /\ tb2["config_file"] = tb["config_file"]
          /\ tb2["command_file"] = tb["command_file"]
      BY <1>15, <1>16, <1>18, <3>4
    <3>6. TimeRead(tb2["time"], gv2["time"])
      BY <2>2, <2>6, <2>14, <3>1, <3>5
    <3>7. ASSUME fd = << >>
          PROVE  Len(gv2["time"]) <= 1 /\ \A i \in 1 .. Len(gv2["time"]) : Args!Fits(gv2["time"][i])
      <4>1. \A i \in 1 .. Len(times) : Args!Fits(times[i]) /\ ~ Args!Fits(times[i])
        BY <1>14, <2>1, <2>6, <2>14, <3>7
      <4>2. Len(times) = 0
        <5>1. Len(times) \in Nat
          OBVIOUS
        <5>2. QED
          BY <4>1, <5>1
      <4>3. times = << >>
        BY <4>2
      <4>4. gv2["time"] = <<text>>
        BY <2>2, <4>3
      <4>5. QED
        BY <2>14, <4>4
    <3>8. QED
      BY <1>14, <2>3, <2>11, <3>4, <3>5, <3>6, <3>7
  <2>15. QED
    BY <2>12, <2>13, <2>14
<1>19. ASSUME o \in Files PROVE Good
  <2>1. r = Args!Counted(o, text)
    BY <1>3, <1>19 DEF scan, Args!Scan, Args!scanfn_file, Files
  <2>2. Args!maxcount(o) = Len(argv) + 3
    BY <1>19 DEF Args!maxcount, Files
  <2>3. tb[o] = gv[o] /\ Len(tb[o]) # Len(argv) + 3
    <3>1. tb[o] = gv[o]
      BY <1>14, <1>19 DEF Files
    <3>2. Len(given[o]) < Len(argv) + 3 /\ Len(given[o]) \in Nat
      BY <1>1, <1>11, <1>19
    <3>3. QED
      BY <1>1, <3>1, <3>2
  <2>4. r.error = NONE /\ tb2 = [tb EXCEPT ![o] = Append(tb[o], text)]
    BY <1>5, <1>12, <2>1, <2>2, <2>3
  <2>5. /\ DOMAIN tb2 = Args!Options /\ tb2 = [p \in Args!Options |-> tb2[p]]
        /\ tb2[o] = gv2[o] /\ \A p \in Args!Options \ {o} : tb2[p] = tb[p]
    BY <1>9, <1>16, <2>3, <2>4
  <2>6. /\ gv2["help"] = gv["help"] /\ gv2["time"] = gv["time"]
        /\ tb2["help"] = tb["help"] /\ tb2["time"] = tb["time"]
    BY <1>9, <1>15, <1>19, <2>5 DEF Files
  <2>7. tb2["config_file"] = gv2["config_file"] /\ tb2["command_file"] = gv2["command_file"]
    BY <1>9, <1>14, <1>15, <1>19, <2>5 DEF Files
  <2>8. QED
    BY <1>14, <2>4, <2>5, <2>6, <2>7
<1>20. Good
  BY <1>7, <1>17, <1>18, <1>19 DEF Files
<1>21. more \in Seq(Errors) /\ (more = << >> <=> r.error = NONE)
  <2>1. CASE r.error = NONE
    BY <1>4, <2>1
  <2>2. CASE r.error # NONE
    <3>1. PICK e \in Errors : e = r.error
      BY <1>20, <2>2
    <3>2. more = <<e>>
      BY <1>4, <2>2, <3>1
    <3>3. <<e>> \in Seq(Errors) /\ <<e>> # << >>
      OBVIOUS
    <3>4. QED
      BY <2>2, <3>2, <3>3
  <2>3. QED
    BY <2>1, <2>2
<1>22. PICK all : all = list \o more
  OBVIOUS
<1>23. all \in Seq(Errors) /\ (all = << >> <=> list = << >> /\ more = << >>)
  BY <1>21, <1>22, Both
<1>24. fd2 = fd \o all
  BY <1>5, <1>22
<1>25. fd2 \in Seq(Errors) /\ (fd2 = << >> <=> fd = << >> /\ all = << >>)
  BY <1>8, <1>23, <1>24, Both
<1>26. errors' = Kept(fd2)
  <2>1. errors' = Args!Registered(Kept(fd), all)
    BY <1>1, <1>5, <1>22
  <2>2. QED
    BY <1>8, <1>23, <1>24, <2>1, RegisteredIs
<1>27. fd2 = << >> => fd = << >> /\ r.error = NONE
  BY <1>21, <1>23, <1>25
<1>28. Honest(tb2, gv2, fd2)
  <2> HIDE DEF Good
  <2>1. tb2 = [p \in Args!Options |-> tb2[p]]
    BY <1>20 DEF Good
  <2>2. fd2 = << >> => /\ Len(gv2["time"]) <= 1
                       /\ \A i \in 1 .. Len(gv2["time"]) : Args!Fits(gv2["time"][i])
    BY <1>20, <1>27 DEF Good
  <2>3. /\ tb2["config_file"] = gv2["config_file"] /\ tb2["command_file"] = gv2["command_file"]
        /\ gv2["time"] \in Seq(Args!ArgTexts) /\ TimeRead(tb2["time"], gv2["time"])
        /\ tb2["help"] = IF gv2["help"] = << >> THEN << >> ELSE <<NONE>>
    BY <1>20 DEF Good
  <2>4. QED
    BY <1>9, <1>25, <2>1, <2>2, <2>3, Zenon DEF Honest
<1>29. \A f \in Files : Len(gv[f]) \in Nat /\ Len(gv2[f]) = IF f = o THEN Len(gv[f]) + 1 ELSE Len(gv[f])
  <2>1. \A f \in Files : f \in Args!Options
    BY DEF Files, Args!Options
  <2>2. QED
    BY <1>9, <1>11, <2>1
<1>30. QED
  BY <1>1, <1>2, <1>26, <1>28, <1>29

\* Errors that are reported leave what was given alone.
LEMMA ReportHonest ==
    ASSUME Honest(options, given, found), errors = Kept(found),
           NEW list \in Seq(Errors), Args!Report(list), options' = options, given' = given
    PROVE  /\ Honest(options', given', found') /\ errors' = Kept(found')
           /\ found' = << >> <=> found = << >> /\ list = << >>
<1>1. PICK tb, gv, fd : tb = options /\ gv = given /\ fd = found
  OBVIOUS
<1>2. PICK fd2 : fd2 = found'
  OBVIOUS
<1>3. Honest(tb, gv, fd)
  BY <1>1
<1>4. fd \in Seq(Errors)
  BY <1>3 DEF Honest
<1>5. fd2 = fd \o list
  BY <1>1, <1>2 DEF Args!Report
<1>6. fd2 \in Seq(Errors) /\ (fd2 = << >> <=> fd = << >> /\ list = << >>)
  BY <1>4, <1>5, Both
<1>7. errors' = Kept(fd2)
  BY <1>1, <1>4, <1>5, RegisteredIs DEF Args!Report
<1>8. Honest(tb, gv, fd2)
  BY <1>3, <1>6 DEF Honest
<1>9. QED
  BY <1>1, <1>2, <1>6, <1>7, <1>8

-----------------------------------------------------------------------------
(***************************************************************************)
(* The inductive invariant.                                                *)
(***************************************************************************)

\* Where getopt_long is: a word or after the last one, and in a word of letters a letter.
Position(p, l, av) ==
    /\ p \in Nat \ {0} /\ p <= Len(av) + 1 /\ l \in Nat \ {0}
    /\ l # 1 => p <= Len(av) /\ av[p].kind = "short" /\ l <= Len(av[p].letters)

\* What main knows when it decides.
Decided(ph, fd, gv, rs) ==
    /\ ph \notin {"tagged", "untagged"} /\ fd = << >> => rs = << >>
    /\ ph = "usage" => gv["help"] # << >>
    /\ ph = "program" => gv["help"] = << >> /\ fd = << >>
    /\ ph = "errors" => fd # << >>

\* A file takes at least a word.
FilesFit(gv, p) == \A f \in Files : Len(gv[f]) \in Nat /\ Len(gv[f]) < p

CommandLineInv ==
    /\ argv \in Seq(Words) /\ rest \in Seq(Nat)
    /\ Position(optind, letter, argv) /\ FilesFit(given, optind)
    /\ Honest(options, given, found) /\ errors = Kept(found)
    /\ Decided(parsing, found, given, rest)

LEMMA WordIs ==
    ASSUME NEW w \in Words
    PROVE  /\ w.text \in Args!ArgTexts
           /\ w.kind = "short" => /\ w.letters \in Seq(STRING) /\ w.letters # << >>
                                  /\ Len(w.letters) \in Nat \ {0}
                                  /\ w.value \in Args!ArgValues
           /\ w.kind = "long" => w.value \in Args!ArgValues
<1>1. Args!WordsAreWords
  BY ArgsAssumption DEF Args!ConstantsFit
<1>2. CASE w \in [kind : {"plain", "end"}, text : Args!ArgTexts]
  BY <1>2
<1>3. CASE w \in [kind : {"short"}, letters : Seq(STRING) \ {<< >>},
                  value : Args!ArgValues, text : Args!ArgTexts]
  <2>1. PICK ls : ls = w.letters
    OBVIOUS
  <2>2. ls \in Seq(STRING) /\ ls # << >>
    BY <1>3, <2>1
  <2>3. Len(ls) \in Nat \ {0}
    BY <2>2
  <2>4. QED
    BY <1>3, <2>1, <2>2, <2>3
<1>4. CASE w \in [kind : {"long"}, names : SUBSET Args!Options, value : Args!ArgValues, text : Args!ArgTexts]
  BY <1>4
<1>5. QED
  BY <1>1, <1>2, <1>3, <1>4 DEF Args!WordsAreWords

\* The value of an option is a text, if there is one, and takes no word that is not there.
LEMMA ValueIs ==
    ASSUME argv \in Seq(Words), optind \in Nat \ {0}, optind <= Len(argv),
           argv[optind].kind \in {"short", "long"}
    PROVE  /\ Args!Value \in Args!ArgValues /\ (Args!Value # NONE => Args!Value \in Args!ArgTexts)
           /\ Args!ValueIsNext => optind + 2 <= Len(argv) + 1
<1>1. argv[optind] \in Words /\ Len(argv) \in Nat
  <2>1. Len(argv) \in Nat
    OBVIOUS
  <2>2. optind \in 1 .. Len(argv)
    BY <2>1
  <2>3. QED
    BY <2>1, <2>2
<1>2. argv[optind].value \in Args!ArgValues
  BY <1>1, WordIs
<1>3. optind < Len(argv) => argv[optind + 1] \in Words
  BY <1>1
<1>4. optind < Len(argv) => argv[optind + 1].text \in Args!ArgTexts
  BY <1>3, WordIs
<1>5. Args!Value \in Args!ArgValues
  BY <1>2, <1>4 DEF Args!Value, Args!ValueIsNext, Args!word, Args!ArgValues
<1>6. Args!ValueIsNext => optind + 2 <= Len(argv) + 1
  BY <1>1 DEF Args!ValueIsNext
<1>7. QED
  BY <1>5, <1>6 DEF Args!ArgValues

\* arg_parse starts with nothing read.
LEMMA InitLine == Args!Init => CommandLineInv
<1>1. SUFFICES ASSUME Args!Init PROVE CommandLineInv
  OBVIOUS
<1>2. PICK n \in Nat : argv \in [1 .. n -> Words]
  <2>1. \A n \in 0 .. MaxWords : n \in Nat
    OBVIOUS
  <2>2. QED
    BY <1>1, <2>1 DEF Args!Init
<1>3. argv \in Seq(Words)
  BY <1>2
<1>4. Position(optind, letter, argv)
  <2>1. Len(argv) \in Nat /\ optind = 1 /\ letter = 1
    BY <1>1, <1>3 DEF Args!Init
  <2>2. QED
    BY <2>1 DEF Position
<1>5. given = [o \in Args!Options |-> << >>] /\ options = [o \in Args!Options |-> << >>]
  BY <1>1 DEF Args!Init
<1>6. rest \in Seq(Nat) /\ found = << >> /\ errors = << >> /\ parsing = "tagged" /\ optind = 1
  BY <1>1 DEF Args!Init
<1>7. FilesFit(given, optind)
  <2>1. \A f \in Files : given[f] = << >>
    BY <1>5 DEF Files, Args!Options
  <2>2. QED
    BY <1>6, <2>1 DEF FilesFit
<1>8. errors = Kept(found)
  <2>1. MaxErrors \in Nat \ {0} /\ Len(<< >>) = 0
    BY ArgsAssumption DEF Args!ConstantsFit
  <2>2. QED
    BY <1>6, <2>1 DEF Kept
<1>9. Honest(options, given, found)
  <2>1. /\ given["time"] = << >> /\ given["config_file"] = << >> /\ given["command_file"] = << >>
        /\ given["help"] = << >> /\ options["time"] = << >> /\ options["config_file"] = << >>
        /\ options["command_file"] = << >> /\ options["help"] = << >>
    BY <1>5 DEF Args!Options
  <2>2. TimeRead(<< >>, << >>)
    BY DEF TimeRead
  <2>3. options = [o \in Args!Options |-> options[o]]
    BY <1>5
  <2>4. << >> \in Seq(Args!ArgTexts) /\ found \in Seq(Errors) /\ given \in [Args!Options -> Seq(Args!ArgValues)]
    BY <1>5, <1>6
  <2>5. Len(<< >>) <= 1 /\ \A i \in 1 .. Len(<< >>) : FALSE
    OBVIOUS
  <2>6. QED
    BY <1>6, <2>1, <2>2, <2>3, <2>4, <2>5 DEF Honest
<1>10. Decided(parsing, found, given, rest)
  BY <1>6 DEF Decided
<1>11. QED
  BY <1>3, <1>4, <1>6, <1>7, <1>8, <1>9, <1>10 DEF CommandLineInv

LEMMA SkipPlainStep == CommandLineInv /\ Args!SkipPlain => CommandLineInv'
<1>1. SUFFICES ASSUME CommandLineInv, Args!SkipPlain PROVE CommandLineInv'
  OBVIOUS
<1>2. /\ argv \in Seq(Words) /\ rest \in Seq(Nat) /\ Position(optind, letter, argv) /\ FilesFit(given, optind)
      /\ Honest(options, given, found) /\ errors = Kept(found)
  BY <1>1 DEF CommandLineInv
<1>3. /\ parsing = "tagged" /\ optind <= Len(argv) /\ argv[optind].kind = "plain"
      /\ rest' = Append(rest, optind) /\ optind' = optind + 1 /\ parsing' = parsing /\ argv' = argv
      /\ letter' = letter /\ options' = options /\ errors' = errors /\ found' = found /\ given' = given
  BY <1>1 DEF Args!SkipPlain, Args!InWord, Args!word
<1>4. letter = 1 /\ optind \in Nat \ {0} /\ Len(argv) \in Nat
  BY <1>2, <1>3 DEF Position
<1>5. Position(optind + 1, 1, argv)
  BY <1>3, <1>4 DEF Position
<1>6. FilesFit(given, optind + 1)
  BY <1>2, <1>4 DEF FilesFit
<1>7. rest' \in Seq(Nat)
  BY <1>2, <1>3, <1>4
<1>8. QED
  BY <1>2, <1>3, <1>4, <1>5, <1>6, <1>7 DEF CommandLineInv, Decided

LEMMA EndTaggedStep == CommandLineInv /\ Args!EndTagged => CommandLineInv'
<1>1. SUFFICES ASSUME CommandLineInv, Args!EndTagged PROVE CommandLineInv'
  OBVIOUS
<1>2. /\ argv \in Seq(Words) /\ rest \in Seq(Nat) /\ Position(optind, letter, argv) /\ FilesFit(given, optind)
      /\ Honest(options, given, found) /\ errors = Kept(found)
  BY <1>1 DEF CommandLineInv
<1>3. PICK more : more = [i \in 1 .. Len(argv) - optind |-> optind + i]
  OBVIOUS
<1>4. more \in Seq(Nat)
  <2>1. optind \in Nat /\ Len(argv) \in Nat
    BY <1>2 DEF Position
  <2>2. CASE Len(argv) - optind \in Nat
    BY <1>3, <2>1, <2>2
  <2>3. CASE Len(argv) - optind \notin Nat
    <3>1. 1 .. Len(argv) - optind = 1 .. 0
      BY <2>1, <2>3
    <3>2. PICK k \in Nat : k = 0
      OBVIOUS
    <3>3. more = [i \in 1 .. k |-> optind + i]
      BY <1>3, <3>1, <3>2
    <3>4. QED
      BY <2>1, <3>3
  <2>4. QED
    BY <2>2, <2>3
<1>5. /\ parsing' = "untagged" /\ rest' = rest \o more /\ optind' = optind /\ argv' = argv
      /\ letter' = letter /\ options' = options /\ errors' = errors /\ found' = found /\ given' = given
  BY <1>1, <1>3 DEF Args!EndTagged
<1>6. rest' \in Seq(Nat)
  BY <1>2, <1>4, <1>5
<1>7. QED
  BY <1>2, <1>5, <1>6 DEF CommandLineInv, Decided

LEMMA UntaggedStep == CommandLineInv /\ Args!Untagged => CommandLineInv'
<1>1. SUFFICES ASSUME CommandLineInv, Args!Untagged PROVE CommandLineInv'
  OBVIOUS
<1>2. /\ argv \in Seq(Words) /\ rest \in Seq(Nat) /\ Position(optind, letter, argv) /\ FilesFit(given, optind)
      /\ Honest(options, given, found) /\ errors = Kept(found)
  BY <1>1 DEF CommandLineInv
<1>3. PICK list : list = [i \in DOMAIN rest |-> "ARG_ENOMATCH"]
  OBVIOUS
<1>4. "ARG_ENOMATCH" \in Errors
  BY DEF Errors
<1>5. list \in Seq(Errors) /\ (list = << >> <=> rest = << >>)
  <2>1. PICK n \in Nat : DOMAIN rest = 1 .. n /\ n = Len(rest)
    BY <1>2
  <2>2. list \in [1 .. n -> Errors]
    BY <1>3, <1>4, <2>1
  <2>3. list \in Seq(Errors) /\ Len(list) = n
    BY <2>2
  <2>4. QED
    BY <1>2, <2>1, <2>3
<1>6. /\ Args!Report(list) /\ parsing' = "parsed" /\ options' = options /\ given' = given
      /\ argv' = argv /\ optind' = optind /\ letter' = letter /\ rest' = rest
  BY <1>1, <1>3 DEF Args!Untagged
<1>7. /\ Honest(options', given', found') /\ errors' = Kept(found')
      /\ found' = << >> <=> found = << >> /\ list = << >>
  BY <1>2, <1>5, <1>6, ReportHonest
<1>8. Decided(parsing', found', given', rest')
  BY <1>5, <1>6, <1>7 DEF Decided
<1>9. QED
  BY <1>2, <1>6, <1>7, <1>8 DEF CommandLineInv

LEMMA DecideStep == CommandLineInv /\ Args!Decide => CommandLineInv'
<1>1. SUFFICES ASSUME CommandLineInv, Args!Decide PROVE CommandLineInv'
  OBVIOUS
<1>2. /\ argv \in Seq(Words) /\ rest \in Seq(Nat) /\ Position(optind, letter, argv) /\ FilesFit(given, optind)
      /\ Honest(options, given, found) /\ errors = Kept(found) /\ Decided(parsing, found, given, rest)
  BY <1>1 DEF CommandLineInv
<1>3. /\ parsing = "parsed" /\ argv' = argv /\ optind' = optind /\ letter' = letter /\ rest' = rest
      /\ options' = options /\ errors' = errors /\ found' = found /\ given' = given
      /\ parsing' = IF options["help"] # << >> THEN "usage"
                    ELSE IF Len(errors) > 0 THEN "errors" ELSE "program"
  BY <1>1 DEF Args!Decide
<1>4. options["help"] = << >> <=> given["help"] = << >>
  <2>1. <<NONE>> # << >>
    OBVIOUS
  <2>2. QED
    BY <1>2, <2>1 DEF Honest
<1>5. Len(errors) > 0 <=> found # << >>
  <2>1. MaxErrors \in Nat \ {0}
    BY ArgsAssumption DEF Args!ConstantsFit
  <2>2. PICK f \in Seq(Errors) : f = found
    BY <1>2 DEF Honest
  <2>3. Len(f) \in Nat /\ (f = << >> <=> Len(f) = 0)
    OBVIOUS
  <2>4. Len(Kept(f)) = IF Len(f) > MaxErrors THEN MaxErrors ELSE Len(f)
    BY KeptIs
  <2>5. QED
    BY <1>2, <2>1, <2>2, <2>3, <2>4
<1>6. Decided(parsing', found', given', rest')
  BY <1>2, <1>3, <1>4, <1>5 DEF Decided
<1>7. QED
  BY <1>2, <1>3, <1>6 DEF CommandLineInv

\* An option with its value, and the words that it took.
LEMMA AcceptStep ==
    ASSUME CommandLineInv, parsing = "tagged", optind <= Len(argv),
           UNCHANGED <<parsing, argv, rest>>,
           NEW o \in Args!Options, NEW text \in Args!ArgValues, o # "help" => text \in Args!ArgTexts,
           NEW list \in Seq(Errors), Args!Accept(o, text, list),
           Position(optind', letter', argv), o # "help" => optind' > optind, optind' >= optind
    PROVE  CommandLineInv'
<1>1. /\ argv \in Seq(Words) /\ rest \in Seq(Nat) /\ Position(optind, letter, argv) /\ FilesFit(given, optind)
      /\ Honest(options, given, found) /\ errors = Kept(found)
  BY DEF CommandLineInv
<1>2. Len(argv) \in Nat /\ optind \in Nat /\ optind' \in Nat
  BY <1>1 DEF Position
<1>3. o \in Files => Len(given[o]) < Len(argv) + 3
  BY <1>1, <1>2 DEF FilesFit
<1>4. /\ Honest(options', given', found') /\ errors' = Kept(found')
      /\ \A f \in Files : /\ Len(given[f]) \in Nat
                         /\ Len(given'[f]) = IF f = o THEN Len(given[f]) + 1 ELSE Len(given[f])
  BY <1>1, <1>2, <1>3, AcceptHonest
<1>5. o \in Files => o # "help"
  BY DEF Files
<1>6. FilesFit(given', optind')
  BY <1>1, <1>2, <1>4, <1>5 DEF FilesFit
<1>7. Decided(parsing', found', given', rest')
  BY DEF Decided
<1>8. QED
  BY <1>1, <1>4, <1>6, <1>7 DEF CommandLineInv

\* An error, and the words that it took.
LEMMA RefuseStep ==
    ASSUME CommandLineInv, parsing = "tagged", UNCHANGED <<parsing, argv, rest>>,
           NEW e \in Errors, Args!Refuse(e), Position(optind', letter', argv), optind' >= optind
    PROVE  CommandLineInv'
<1>1. /\ argv \in Seq(Words) /\ rest \in Seq(Nat) /\ Position(optind, letter, argv) /\ FilesFit(given, optind)
      /\ Honest(options, given, found) /\ errors = Kept(found)
  BY DEF CommandLineInv
<1>2. PICK list \in Seq(Errors) : list = <<e>>
  <2>1. PICK x \in Errors : x = e
    OBVIOUS
  <2>2. <<x>> \in Seq(Errors)
    OBVIOUS
  <2>3. QED
    BY <2>1, <2>2
<1>3. Args!Report(list) /\ options' = options /\ given' = given
  BY <1>2 DEF Args!Refuse
<1>4. Honest(options', given', found') /\ errors' = Kept(found')
  BY <1>1, <1>3, ReportHonest
<1>5. FilesFit(given', optind')
  BY <1>1, <1>3 DEF FilesFit, Position
<1>6. Decided(parsing', found', given', rest')
  BY DEF Decided
<1>7. QED
  BY <1>1, <1>4, <1>5, <1>6 DEF CommandLineInv

LEMMA NextWordIs ==
    ASSUME CommandLineInv, optind <= Len(argv), argv[optind].kind \in {"short", "long"}
    PROVE  /\ Args!NextWord => Position(optind', letter', argv) /\ optind' > optind
           /\ letter' = 1 /\ optind' = optind + 1 => Position(optind', letter', argv) /\ optind' > optind
           /\ optind \in Nat
<1>1. argv \in Seq(Words) /\ optind \in Nat \ {0} /\ Len(argv) \in Nat
  BY DEF CommandLineInv, Position
<1>2. Args!ValueIsNext => optind + 2 <= Len(argv) + 1
  BY <1>1, ValueIs
<1>3. ASSUME letter' = 1, optind' \in {optind + 1, optind + 2}, optind' <= Len(argv) + 1
      PROVE  Position(optind', letter', argv) /\ optind' > optind
  BY <1>1, <1>3 DEF Position
<1>4. QED
  BY <1>1, <1>2, <1>3 DEF Args!NextWord

\* An option letter: it is none, needs no value, lacks one, or has it.
LEMMA LetterStep == CommandLineInv /\ Args!Letter => CommandLineInv'
<1>1. SUFFICES ASSUME CommandLineInv, Args!Letter PROVE CommandLineInv'
  OBVIOUS
<1>2. argv \in Seq(Words) /\ Position(optind, letter, argv)
  BY <1>1 DEF CommandLineInv
<1>3. /\ parsing = "tagged" /\ optind <= Len(argv) /\ argv[optind].kind = "short"
      /\ UNCHANGED <<parsing, argv, rest>>
  BY <1>1 DEF Args!Letter, Args!InWord, Args!word
<1>4. PICK w \in Words : w = argv[optind]
  BY <1>2, <1>3 DEF Position
<1>5. w.letters \in Seq(STRING) /\ Len(w.letters) \in Nat \ {0} /\ w.kind = "short"
  BY <1>3, <1>4, WordIs
<1>6. letter \in 1 .. Len(w.letters) /\ optind \in Nat \ {0} /\ Len(argv) \in Nat
  BY <1>2, <1>4, <1>5 DEF Position
<1>7. PICK l : l = w.letters[letter]
  OBVIOUS
<1> DEFINE valued == l \in DOMAIN Args!Letters /\ Args!HasValue(Args!Letters[l])
<1>8. /\ IF l \notin DOMAIN Args!Letters THEN Args!Refuse(l)
         ELSE IF ~ valued THEN Args!Accept(Args!Letters[l], NONE, << >>)
         ELSE IF Args!Value = NONE THEN Args!Refuse("ARG_EMISSARG")
         ELSE Args!Accept(Args!Letters[l], Args!Value, << >>)
      /\ IF valued THEN Args!NextWord
         ELSE IF letter < Len(w.letters) THEN letter' = letter + 1 /\ UNCHANGED optind
         ELSE letter' = 1 /\ optind' = optind + 1
  BY <1>1, <1>4, <1>7 DEF Args!Letter, Args!word
<1>9. Position(optind', letter', argv) /\ optind' >= optind /\ (valued => optind' > optind)
  <2>1. /\ Args!NextWord => Position(optind', letter', argv) /\ optind' > optind
        /\ letter' = 1 /\ optind' = optind + 1 => Position(optind', letter', argv) /\ optind' > optind
    BY <1>1, <1>3, NextWordIs
  <2>2. ASSUME letter < Len(w.letters), letter' = letter + 1, optind' = optind
        PROVE  Position(optind', letter', argv)
    BY <1>3, <1>4, <1>5, <1>6, <2>2 DEF Position
  <2>3. ASSUME Position(optind', letter', argv), optind' > optind PROVE optind' >= optind
    BY <1>6, <2>3 DEF Position
  <2>4. CASE valued
    <3>1. Args!NextWord
      BY <1>8, <2>4
    <3>2. Position(optind', letter', argv) /\ optind' > optind
      BY <2>1, <3>1
    <3>3. optind' \in Nat
      BY <3>2 DEF Position
    <3>4. QED
      BY <1>6, <3>2, <3>3
  <2>5. CASE ~ valued /\ letter < Len(w.letters)
    BY <1>6, <1>8, <2>2, <2>5
  <2>6. CASE ~ valued /\ ~ letter < Len(w.letters)
    BY <1>8, <2>1, <2>3, <2>6
  <2>7. QED
    BY <2>4, <2>5, <2>6
<1>10. << >> \in Seq(Errors) /\ NONE \in Args!ArgValues
  BY DEF Args!ArgValues
<1>11. l \in Errors /\ "ARG_EMISSARG" \in Errors
  <2>1. l \in {w.letters[i] : i \in 1 .. Len(w.letters)} /\ w \in {x \in Words : x.kind = "short"}
    BY <1>5, <1>6, <1>7
  <2>2. QED
    BY <2>1 DEF Errors
<1>12. Args!Value \in Args!ArgValues /\ (Args!Value # NONE => Args!Value \in Args!ArgTexts)
  BY <1>2, <1>3, <1>6, ValueIs
<1>13. l \in DOMAIN Args!Letters => Args!Letters[l] \in Args!Options
  BY DEF Args!Letters, Args!Options
<1>14. CASE l \notin DOMAIN Args!Letters
  BY <1>1, <1>3, <1>8, <1>9, <1>11, <1>14, RefuseStep
<1>15. CASE l \in DOMAIN Args!Letters
  <2>1. PICK o \in Args!Options : o = Args!Letters[l]
    BY <1>13, <1>15
  <2>2. valued <=> o # "help"
    BY <1>15, <2>1 DEF Args!HasValue
  <2> HIDE DEF valued
  <2>3. CASE o = "help"
    <3>1. Args!Accept(o, NONE, << >>)
      BY <1>8, <1>15, <2>1, <2>2, <2>3
    <3>2. QED
      BY <1>1, <1>3, <1>9, <1>10, <2>3, <3>1, AcceptStep
  <2>4. CASE o # "help" /\ Args!Value = NONE
    <3>1. Args!Refuse("ARG_EMISSARG")
      BY <1>8, <1>15, <2>1, <2>2, <2>4
    <3>2. QED
      BY <1>1, <1>3, <1>9, <1>11, <3>1, RefuseStep
  <2>5. CASE o # "help" /\ Args!Value # NONE
    <3>1. PICK text \in Args!ArgTexts : text = Args!Value
      BY <1>12, <2>5
    <3>2. Args!Accept(o, text, << >>) /\ text \in Args!ArgValues
      BY <1>8, <1>12, <1>15, <2>1, <2>2, <2>5, <3>1
    <3>3. optind' > optind
      BY <1>9, <2>2, <2>5
    <3>4. QED
      BY <1>1, <1>3, <1>9, <1>10, <3>1, <3>2, <3>3, AcceptStep
  <2>6. QED
    BY <2>3, <2>4, <2>5
<1>16. QED
  BY <1>14, <1>15

\* A long name: it says not which option, or as with a letter.
LEMMA LongOptionStep == CommandLineInv /\ Args!LongOption => CommandLineInv'
<1>1. SUFFICES ASSUME CommandLineInv, Args!LongOption PROVE CommandLineInv'
  OBVIOUS
<1>2. argv \in Seq(Words) /\ Position(optind, letter, argv)
  BY <1>1 DEF CommandLineInv
<1>3. /\ parsing = "tagged" /\ optind <= Len(argv) /\ argv[optind].kind = "long"
      /\ UNCHANGED <<parsing, argv, rest>>
  BY <1>1 DEF Args!LongOption, Args!InWord, Args!word
<1>4. PICK w \in Words : w = argv[optind]
  BY <1>2, <1>3 DEF Position
<1>5. PICK o : o = CHOOSE n \in w.names : TRUE
  OBVIOUS
<1> DEFINE known == \E n \in Args!Options : w.names = {n}
<1>6. IF ~ known \/ (o = "help" /\ w.value # NONE)
      THEN Args!Refuse("ARG_ELONGOPT") /\ letter' = 1 /\ optind' = optind + 1
      ELSE IF o = "help" THEN Args!Accept(o, NONE, << >>) /\ letter' = 1 /\ optind' = optind + 1
      ELSE /\ Args!NextWord
           /\ IF Args!Value = NONE THEN Args!Refuse("ARG_EMISSARG")
              ELSE Args!Accept(o, Args!Value, IF Args!Empty(Args!Value) THEN <<"ARG_EMISSARG">> ELSE << >>)
  BY <1>1, <1>4, <1>5 DEF Args!LongOption, Args!word
<1>7. known => o \in Args!Options
  BY <1>5
<1> HIDE DEF known
<1>8. Position(optind', letter', argv) /\ optind' >= optind /\ optind' > optind
  <2>1. /\ Args!NextWord => Position(optind', letter', argv) /\ optind' > optind
        /\ letter' = 1 /\ optind' = optind + 1 => Position(optind', letter', argv) /\ optind' > optind
        /\ optind \in Nat
    BY <1>1, <1>3, NextWordIs
  <2>2. Position(optind', letter', argv) /\ optind' > optind
    BY <1>6, <2>1
  <2>3. optind' \in Nat
    BY <2>2 DEF Position
  <2>4. QED
    BY <2>1, <2>2, <2>3
<1>9. << >> \in Seq(Errors) /\ <<"ARG_EMISSARG">> \in Seq(Errors) /\ NONE \in Args!ArgValues
      /\ "ARG_EMISSARG" \in Errors /\ "ARG_ELONGOPT" \in Errors
  <2>1. "ARG_EMISSARG" \in Errors /\ "ARG_ELONGOPT" \in Errors
    BY DEF Errors
  <2>2. PICK e \in Errors : e = "ARG_EMISSARG"
    BY <2>1
  <2>3. <<e>> \in Seq(Errors)
    OBVIOUS
  <2>4. QED
    BY <2>1, <2>2, <2>3 DEF Args!ArgValues
<1>10. Args!Value \in Args!ArgValues /\ (Args!Value # NONE => Args!Value \in Args!ArgTexts)
  <2>1. optind \in Nat \ {0}
    BY <1>2 DEF Position
  <2>2. QED
    BY <1>2, <1>3, <2>1, ValueIs
<1>11. CASE ~ known \/ (o = "help" /\ w.value # NONE)
  BY <1>1, <1>3, <1>6, <1>8, <1>9, <1>11, RefuseStep
<1>12. CASE known /\ o = "help" /\ ~ (w.value # NONE)
  <2>1. Args!Accept(o, NONE, << >>) /\ o \in Args!Options
    BY <1>6, <1>7, <1>12
  <2>2. QED
    BY <1>1, <1>3, <1>8, <1>9, <1>12, <2>1, AcceptStep
<1>13. CASE known /\ o # "help"
  <2>1. CASE Args!Value = NONE
    BY <1>1, <1>3, <1>6, <1>8, <1>9, <1>13, <2>1, RefuseStep
  <2>2. CASE Args!Value # NONE
    <3>1. PICK text \in Args!ArgTexts : text = Args!Value
      BY <1>10, <2>2
    <3>2. PICK list \in Seq(Errors) : list = IF Args!Empty(text) THEN <<"ARG_EMISSARG">> ELSE << >>
      BY <1>9
    <3>3. Args!Accept(o, text, list) /\ o \in Args!Options /\ text \in Args!ArgValues
      BY <1>6, <1>7, <1>10, <1>13, <2>2, <3>1, <3>2
    <3>4. QED
      BY <1>1, <1>3, <1>8, <1>13, <3>3, AcceptStep
  <2>3. QED
    BY <2>1, <2>2
<1>14. QED
  BY <1>11, <1>12, <1>13

\* Every step keeps the invariant.
LEMMA LineStaysRead == CommandLineInv /\ [Args!Next]_Args!vars => CommandLineInv'
<1>1. CASE UNCHANGED Args!vars
  BY <1>1 DEF Args!vars, CommandLineInv
<1>2. CASE Args!Next
  BY <1>2, SkipPlainStep, EndTaggedStep, LetterStep, LongOptionStep, UntaggedStep, DecideStep DEF Args!Next
<1>3. QED
  BY <1>1, <1>2

\* What the invariant says about the time is what the property says with the first good one.
LEMMA InvIsHonest == CommandLineInv => CommandLineIsHonest
<1>1. SUFFICES ASSUME CommandLineInv PROVE CommandLineIsHonest
  OBVIOUS
<1>2. PICK times : times = given["time"]
  OBVIOUS
<1>3. PICK good : good = {i \in DOMAIN times : Args!Fits(times[i])}
  OBVIOUS
<1>4. PICK first : first = CHOOSE i \in good : \A j \in good : i <= j
  OBVIOUS
<1>5. /\ times \in Seq(Args!ArgTexts) /\ TimeRead(options["time"], times)
      /\ options["config_file"] = given["config_file"] /\ options["command_file"] = given["command_file"]
      /\ found = << >> => Len(times) <= 1 /\ \A i \in 1 .. Len(times) : Args!Fits(times[i])
  BY <1>1, <1>2 DEF CommandLineInv, Honest
<1>6. DOMAIN times = 1 .. Len(times) /\ Len(times) \in Nat
  BY <1>5
<1>7. options["time"] = IF good = {} THEN << >> ELSE <<Args!IntOf(times[first])>>
  <2>1. CASE options["time"] = << >> /\ \A i \in 1 .. Len(times) : ~ Args!Fits(times[i])
    <3>1. good = {}
      BY <1>3, <1>6, <2>1
    <3>2. QED
      BY <2>1, <3>1
  <2>2. ASSUME NEW i \in 1 .. Len(times), Args!Fits(times[i]), \A j \in 1 .. i - 1 : ~ Args!Fits(times[j]),
               options["time"] = <<Args!IntOf(times[i])>>
        PROVE  options["time"] = IF good = {} THEN << >> ELSE <<Args!IntOf(times[first])>>
    <3>1. i \in good
      BY <1>3, <1>6, <2>2
    <3>2. \A j \in good : j \in Nat /\ i <= j
      <4>1. ASSUME NEW j \in good, ~ i <= j PROVE FALSE
        <5>1. j \in 1 .. Len(times) /\ Args!Fits(times[j])
          BY <1>3, <1>6
        <5>2. j \in 1 .. i - 1
          BY <1>6, <4>1, <5>1
        <5>3. QED
          BY <2>2, <5>1, <5>2
      <4>2. \A j \in good : j \in Nat
        BY <1>3, <1>6
      <4>3. QED
        BY <4>1, <4>2
    <3>3. first \in good /\ \A j \in good : first <= j
      BY <1>4, <3>1, <3>2
    <3>4. first = i
      BY <3>1, <3>2, <3>3
    <3>5. QED
      BY <2>2, <3>1, <3>4
  <2>3. QED
    BY <1>5, <2>1, <2>2 DEF TimeRead
<1>8. errors = IF Len(found) > MaxErrors THEN Append(SubSeq(found, 1, MaxErrors - 1), "ARG_ELIMIT") ELSE found
  BY <1>1 DEF CommandLineInv, Kept
<1>9. Decided(parsing, found, given, rest)
  BY <1>1 DEF CommandLineInv
<1>10. parsing = "usage" => given["help"] # << >>
  BY <1>9 DEF Decided
<1>11. parsing = "errors" => found # << >>
  BY <1>9 DEF Decided
<1>12. ASSUME parsing = "program"
       PROVE  /\ rest = << >> /\ found = << >>
              /\ Len(times) <= 1 /\ good = DOMAIN times /\ given["help"] = << >>
  <2>1. rest = << >> /\ found = << >> /\ given["help"] = << >>
    BY <1>9, <1>12 DEF Decided
  <2>2. Len(times) <= 1 /\ \A i \in 1 .. Len(times) : Args!Fits(times[i])
    BY <1>5, <2>1
  <2>3. QED
    BY <1>3, <1>6, <2>1, <2>2
<1>13. QED
  BY <1>2, <1>3, <1>4, <1>5, <1>7, <1>8, <1>10, <1>11, <1>12 DEF CommandLineIsHonest, Args!CommandLineIsHonest

\* CommandLineIsHonest, of arg_parse and the decision that main makes after it, for every
\* command line of every length.
THEOREM CommandLineRead == Args!Spec => []CommandLineIsHonest
<1>1. Args!Init => CommandLineInv
  BY InitLine
<1>2. CommandLineInv /\ [Args!Next]_Args!vars => CommandLineInv'
  BY LineStaysRead
<1>3. CommandLineInv => CommandLineIsHonest
  BY InvIsHonest
<1>4. QED
  BY <1>1, <1>2, <1>3, PTL DEF Args!Spec

-----------------------------------------------------------------------------
(***************************************************************************)
(* Shapes: the nodes below a node.                                         *)
(***************************************************************************)

\* What is at a child and below it.
Under(D, x) == IF x = NIL THEN {} ELSE D[x]

\* D[n] is n and what is below it, on the left and on the right, and nothing is on both sides
\* or below itself.
Shape(l, r, D) ==
    /\ l \in [TreeNodes -> TreeNodes \cup {NIL}] /\ r \in [TreeNodes -> TreeNodes \cup {NIL}]
    /\ D \in [TreeNodes -> SUBSET TreeNodes]
    /\ \A n \in TreeNodes :
          /\ D[n] = {n} \cup Under(D, l[n]) \cup Under(D, r[n])
          /\ n \notin Under(D, l[n]) /\ n \notin Under(D, r[n])
          /\ Under(D, l[n]) \cap Under(D, r[n]) = {}

LEMMA ShapeOf ==
    ASSUME NEW l, NEW r, NEW D, Shape(l, r, D), NEW n \in TreeNodes
    PROVE  /\ l[n] \in TreeNodes \cup {NIL} /\ r[n] \in TreeNodes \cup {NIL}
           /\ D[n] \in SUBSET TreeNodes /\ n \in D[n] /\ Under(D, l[n]) \subseteq D[n]
           /\ Under(D, r[n]) \subseteq D[n]
           /\ D[n] = {n} \cup Under(D, l[n]) \cup Under(D, r[n])
           /\ n \notin Under(D, l[n]) /\ n \notin Under(D, r[n])
           /\ Under(D, l[n]) \cap Under(D, r[n]) = {}
           /\ l[n] # NIL => l[n] \in Under(D, l[n]) /\ Under(D, l[n]) = D[l[n]] /\ l[n] \in TreeNodes
           /\ r[n] # NIL => r[n] \in Under(D, r[n]) /\ Under(D, r[n]) = D[r[n]] /\ r[n] \in TreeNodes
           /\ l[n] = NIL => Under(D, l[n]) = {}
           /\ r[n] = NIL => Under(D, r[n]) = {}
<1>1. /\ l[n] \in TreeNodes \cup {NIL} /\ r[n] \in TreeNodes \cup {NIL} /\ D[n] \in SUBSET TreeNodes
      /\ D[n] = {n} \cup Under(D, l[n]) \cup Under(D, r[n])
      /\ n \notin Under(D, l[n]) /\ n \notin Under(D, r[n])
      /\ Under(D, l[n]) \cap Under(D, r[n]) = {}
  BY DEF Shape
<1>2. \A m \in TreeNodes : m \in D[m]
  BY DEF Shape
<1>3. l[n] # NIL => l[n] \in Under(D, l[n]) /\ Under(D, l[n]) = D[l[n]] /\ l[n] \in TreeNodes
  BY <1>1, <1>2 DEF Under
<1>4. r[n] # NIL => r[n] \in Under(D, r[n]) /\ Under(D, r[n]) = D[r[n]] /\ r[n] \in TreeNodes
  BY <1>1, <1>2 DEF Under
<1>5. (l[n] = NIL => Under(D, l[n]) = {}) /\ (r[n] = NIL => Under(D, r[n]) = {})
  BY DEF Under
<1>6. n \in D[n] /\ Under(D, l[n]) \subseteq D[n] /\ Under(D, r[n]) \subseteq D[n]
  BY <1>1
<1>7. QED
  BY <1>1, <1>3, <1>4, <1>5, <1>6

\* A side that is not empty is a child with what is below it.
LEMMA Child ==
    ASSUME NEW l, NEW r, NEW D, Shape(l, r, D), NEW n \in TreeNodes, NEW c \in {l[n], r[n]},
           NEW x \in Under(D, c)
    PROVE  c \in TreeNodes /\ Under(D, c) = D[c] /\ D[c] \subseteq D[n] /\ n \notin D[c] /\ x \in TreeNodes
<1>1. CASE c = l[n]
  <2>1. l[n] # NIL
    BY <1>1, ShapeOf
  <2>2. QED
    BY <1>1, <2>1, ShapeOf
<1>2. CASE c = r[n]
  <2>1. r[n] # NIL
    BY <1>2, ShapeOf
  <2>2. QED
    BY <1>2, <2>1, ShapeOf
<1>3. QED
  BY <1>1, <1>2

LEMMA Disjoint ==
    ASSUME NEW l, NEW r, NEW D, Shape(l, r, D), NEW n \in TreeNodes, NEW x \in Under(D, l[n])
    PROVE  x \notin Under(D, r[n])
BY ShapeOf

\* A set of nodes that has a member has a lowest one.
LEMMA Lowest ==
    ASSUME NEW l, NEW r, NEW D, Shape(l, r, D), NEW W \in SUBSET TreeNodes, W # {}
    PROVE  \E n \in W : l[n] \notin W /\ r[n] \notin W
<1>1. IsFiniteSet(TreeNodes)
  BY TreeAssumption
<1>2. \A n \in TreeNodes : IsFiniteSet(D[n]) /\ Cardinality(D[n]) \in Nat
  <2>1. ASSUME NEW n \in TreeNodes PROVE IsFiniteSet(D[n]) /\ Cardinality(D[n]) \in Nat
    <3>1. D[n] \subseteq TreeNodes
      BY ShapeOf
    <3>2. IsFiniteSet(D[n])
      BY <1>1, <3>1, FS_Subset
    <3>3. QED
      BY <3>2, FS_CardinalityType
  <2>2. QED
    BY <2>1
<1>3. ASSUME NEW n \in TreeNodes, NEW c \in TreeNodes, c \in {l[n], r[n]}
      PROVE  Cardinality(D[c]) < Cardinality(D[n])
  <2>1. c # NIL
    BY TreeAssumption
  <2>2. D[c] \subseteq D[n] /\ D[c] # D[n]
    BY <1>3, <2>1, ShapeOf
  <2>3. Cardinality(D[c]) <= Cardinality(D[n]) /\ (Cardinality(D[c]) = Cardinality(D[n]) => D[c] = D[n])
    BY <1>2, <2>2, FS_Subset
  <2>4. QED
    BY <1>2, <2>2, <2>3
<1> DEFINE Sizes == {Cardinality(D[n]) : n \in W}
<1>4. PICK k \in Sizes : \A m \in Sizes : ~ (m < k)
  <2>1. Sizes \in SUBSET Nat /\ Sizes # {}
    BY <1>2
  <2>2. QED
    BY <2>1, LeastOf
<1>5. PICK n \in W : k = Cardinality(D[n])
  BY <1>4
<1>6. ASSUME NEW c \in W, c \in {l[n], r[n]} PROVE FALSE
  BY <1>3, <1>4, <1>5, <1>6
<1>7. QED
  BY <1>5, <1>6

\* What is below a node that is below another one is below that, too.
LEMMA Below ==
    ASSUME NEW l, NEW r, NEW D, Shape(l, r, D), NEW n \in TreeNodes, NEW m \in D[n]
    PROVE  m \in TreeNodes /\ D[m] \subseteq D[n]
<1> DEFINE W == {x \in TreeNodes : \E y \in D[x] : ~ (D[y] \subseteq D[x])}
<1>1. W = {}
  <2>1. SUFFICES ASSUME W # {} PROVE FALSE
    OBVIOUS
  <2>2. PICK x \in W : l[x] \notin W /\ r[x] \notin W
    <3>1. W \in SUBSET TreeNodes
      OBVIOUS
    <3>2. QED
      BY <2>1, <3>1, Lowest
  <2>3. PICK y \in D[x] : ~ (D[y] \subseteq D[x])
    BY <2>2
  <2>4. x \in TreeNodes
    BY <2>2
  <2>5. y \in Under(D, l[x]) \/ y \in Under(D, r[x])
    BY <2>3, <2>4, ShapeOf
  <2>6. CASE y \in Under(D, l[x])
    <3>1. l[x] \in TreeNodes /\ Under(D, l[x]) = D[l[x]] /\ D[l[x]] \subseteq D[x]
      BY <2>4, <2>6, Child
    <3>2. D[y] \subseteq D[l[x]]
      BY <2>2, <2>6, <3>1
    <3>3. QED
      BY <2>3, <3>1, <3>2
  <2>7. CASE y \in Under(D, r[x])
    <3>1. r[x] \in TreeNodes /\ Under(D, r[x]) = D[r[x]] /\ D[r[x]] \subseteq D[x]
      BY <2>4, <2>7, Child
    <3>2. D[y] \subseteq D[r[x]]
      BY <2>2, <2>7, <3>1
    <3>3. QED
      BY <2>3, <3>1, <3>2
  <2>8. QED
    BY <2>5, <2>6, <2>7
<1>2. m \in TreeNodes
  BY ShapeOf
<1>3. QED
  BY <1>1, <1>2

\* And so is a side.
LEMMA Side ==
    ASSUME NEW l, NEW r, NEW D, Shape(l, r, D), NEW n \in TreeNodes, NEW c \in {l[n], r[n]},
           NEW x \in Under(D, c)
    PROVE  x \in TreeNodes /\ D[x] \subseteq Under(D, c)
<1>1. c \in TreeNodes /\ Under(D, c) = D[c]
  BY Child
<1>2. QED
  BY <1>1, Below

\* Two nodes are not both below the other one.
LEMMA OneAbove ==
    ASSUME NEW l, NEW r, NEW D, Shape(l, r, D), NEW n \in TreeNodes, NEW m \in D[n], n \in D[m]
    PROVE  m = n
<1>1. SUFFICES ASSUME m # n PROVE FALSE
  OBVIOUS
<1>2. m \in TreeNodes
  BY Below
<1>3. m \in Under(D, l[n]) \/ m \in Under(D, r[n])
  BY <1>1, ShapeOf
<1>4. CASE m \in Under(D, l[n])
  <2>1. l[n] \in TreeNodes /\ Under(D, l[n]) = D[l[n]]
    BY <1>4, Child
  <2>2. D[m] \subseteq D[l[n]]
    BY <1>4, <2>1, Below
  <2>3. QED
    BY <2>1, <2>2, ShapeOf
<1>5. CASE m \in Under(D, r[n])
  <2>1. r[n] \in TreeNodes /\ Under(D, r[n]) = D[r[n]]
    BY <1>5, Child
  <2>2. D[m] \subseteq D[r[n]]
    BY <1>5, <2>1, Below
  <2>3. QED
    BY <2>1, <2>2, ShapeOf
<1>6. QED
  BY <1>3, <1>4, <1>5

\* Of two nodes of a tree one is below the other, or somewhere they part.
Apart(l, r, D, p, m, n) ==
    \/ m \in Under(D, l[p]) /\ n \in Under(D, r[p])
    \/ n \in Under(D, l[p]) /\ m \in Under(D, r[p])

LEMMA Meet ==
    ASSUME NEW l, NEW r, NEW D, Shape(l, r, D), NEW root \in TreeNodes, NEW m \in D[root], NEW n \in D[root]
    PROVE  m \in D[n] \/ n \in D[m] \/ \E p \in D[root] : Apart(l, r, D, p, m, n)
<1> DEFINE W == {x \in TreeNodes : \E a, b \in D[x] :
                    /\ a \notin D[b] /\ b \notin D[a] /\ \A p \in D[x] : ~ Apart(l, r, D, p, a, b)}
<1>1. W = {}
  <2>1. SUFFICES ASSUME W # {} PROVE FALSE
    OBVIOUS
  <2>2. PICK x \in W : l[x] \notin W /\ r[x] \notin W
    <3>1. W \in SUBSET TreeNodes
      OBVIOUS
    <3>2. QED
      BY <2>1, <3>1, Lowest
  <2>3. PICK a \in D[x], b \in D[x] : /\ a \notin D[b] /\ b \notin D[a]
                                      /\ \A p \in D[x] : ~ Apart(l, r, D, p, a, b)
    BY <2>2
  <2>4. x \in TreeNodes /\ x \in D[x]
    BY <2>2, ShapeOf
  <2>5. a # x /\ b # x
    BY <2>3
  <2>6. /\ a \in Under(D, l[x]) \/ a \in Under(D, r[x])
        /\ b \in Under(D, l[x]) \/ b \in Under(D, r[x])
    BY <2>3, <2>4, <2>5, ShapeOf
  <2>7. CASE a \in Under(D, l[x]) /\ b \in Under(D, l[x])
    <3>1. l[x] # NIL
      BY <2>7 DEF Under
    <3>2. l[x] \in TreeNodes /\ Under(D, l[x]) = D[l[x]] /\ Under(D, l[x]) \subseteq D[x]
      BY <2>4, <3>1, ShapeOf
    <3>3. QED
      BY <2>2, <2>3, <2>7, <3>2
  <2>8. CASE a \in Under(D, r[x]) /\ b \in Under(D, r[x])
    <3>1. r[x] # NIL
      BY <2>8 DEF Under
    <3>2. r[x] \in TreeNodes /\ Under(D, r[x]) = D[r[x]] /\ Under(D, r[x]) \subseteq D[x]
      BY <2>4, <3>1, ShapeOf
    <3>3. QED
      BY <2>2, <2>3, <2>8, <3>2
  <2>9. QED
    BY <2>3, <2>4, <2>6, <2>7, <2>8 DEF Apart
<1>2. QED
  BY <1>1

\* A node has one parent at most, and the root has none.
LEMMA OneParent ==
    ASSUME NEW l, NEW r, NEW D, Shape(l, r, D), NEW root \in TreeNodes, NEW m \in D[root], NEW n \in D[root],
           NEW c \in TreeNodes, c \in {l[m], r[m]}
    PROVE  /\ c \in {l[n], r[n]} => m = n
           /\ c # root
           /\ c \in D[n] => c = n \/ m \in D[n]
<1>1. m \in TreeNodes /\ n \in TreeNodes /\ c # NIL
  BY Below, TreeAssumption
<1>2. c \in D[m] /\ c # m /\ c \in D[c] /\ D[c] \subseteq D[m]
  BY <1>1, ShapeOf
<1>3. c # root
  <2>1. SUFFICES ASSUME c = root PROVE FALSE
    OBVIOUS
  <2>2. c \in D[m] /\ m \in D[c]
    BY <1>2, <2>1
  <2>3. QED
    BY <1>1, <1>2, <2>2, OneAbove
<1>4. c \in D[n] => c = n \/ m \in D[n]
  <2>1. SUFFICES ASSUME c \in D[n], c # n, m \notin D[n] PROVE FALSE
    OBVIOUS
  <2>2. CASE n \in D[m]
    <3>1. n # m /\ (n \in Under(D, l[m]) \/ n \in Under(D, r[m]))
      BY <1>1, <1>2, <2>1, <2>2, ShapeOf
    <3>2. CASE n \in D[c]
      BY <1>1, <1>2, <2>1, <3>2, OneAbove
    <3>3. CASE n \notin D[c]
      <4>1. \/ c = l[m] /\ n \in Under(D, r[m]) /\ D[c] = Under(D, l[m])
            \/ c = r[m] /\ n \in Under(D, l[m]) /\ D[c] = Under(D, r[m])
        BY <1>1, <3>1, <3>3 DEF Under
      <4>2. CASE c = l[m] /\ n \in Under(D, r[m]) /\ D[c] = Under(D, l[m])
        <5>1. r[m] \in TreeNodes /\ Under(D, r[m]) = D[r[m]]
          BY <1>1, <4>2, Child
        <5>2. c \in D[r[m]]
          BY <2>1, <4>2, <5>1, Below
        <5>3. QED
          BY <1>1, <1>2, <4>2, <5>1, <5>2, Disjoint
      <4>3. CASE c = r[m] /\ n \in Under(D, l[m]) /\ D[c] = Under(D, r[m])
        <5>1. l[m] \in TreeNodes /\ Under(D, l[m]) = D[l[m]]
          BY <1>1, <4>3, Child
        <5>2. c \in D[l[m]]
          BY <2>1, <4>3, <5>1, Below
        <5>3. QED
          BY <1>1, <1>2, <4>3, <5>1, <5>2, Disjoint
      <4>4. QED
        BY <4>1, <4>2, <4>3
    <3>4. QED
      BY <3>2, <3>3
  <2>3. CASE n \notin D[m]
    <3>1. PICK p \in D[root] : Apart(l, r, D, p, m, n)
      BY <2>1, <2>3, Meet
    <3>2. p \in TreeNodes
      BY Below
    <3>3. /\ \A x \in Under(D, l[p]) : D[x] \subseteq Under(D, l[p])
          /\ \A x \in Under(D, r[p]) : D[x] \subseteq Under(D, r[p])
      BY <3>2, Side
    <3>4. c \in Under(D, l[p]) /\ c \in Under(D, r[p])
      BY <1>2, <2>1, <3>1, <3>3 DEF Apart
    <3>5. QED
      BY <3>2, <3>4, Disjoint
  <2>4. QED
    BY <2>2, <2>3
<1>5. c \in {l[n], r[n]} => m = n
  <2>1. SUFFICES ASSUME c \in {l[n], r[n]} PROVE m = n
    OBVIOUS
  <2>2. c \in D[n] /\ c # n
    BY <1>1, <2>1, ShapeOf
  <2>3. m \in D[n] 
    BY <1>4, <2>2
  <2>4. SUFFICES ASSUME m # n PROVE FALSE
    OBVIOUS
  <2>5. m \in Under(D, l[n]) \/ m \in Under(D, r[n])
    BY <1>1, <2>3, <2>4, ShapeOf
  <2>6. m \notin D[c]
    BY <1>1, <1>2, OneAbove
  <2>7. \/ c = l[n] /\ m \in Under(D, r[n]) /\ D[c] = Under(D, l[n])
        \/ c = r[n] /\ m \in Under(D, l[n]) /\ D[c] = Under(D, r[n])
    BY <1>1, <2>1, <2>5, <2>6 DEF Under
  <2>8. /\ \A x \in Under(D, l[n]) : D[x] \subseteq Under(D, l[n])
        /\ \A x \in Under(D, r[n]) : D[x] \subseteq Under(D, r[n])
    BY <1>1, Side
  <2>9. c \in Under(D, l[n]) /\ c \in Under(D, r[n])
    BY <1>2, <2>7, <2>8
  <2>10. QED
    BY <1>1, <2>9, Disjoint
<1>6. QED
  BY <1>3, <1>4, <1>5

-----------------------------------------------------------------------------
(***************************************************************************)
(* The recursive functions that follow the links.                          *)
(***************************************************************************)

\* From a node to one of its children there is less below.
LEMMA Smaller ==
    ASSUME NEW l, NEW r, NEW D, Shape(l, r, D), NEW n \in TreeNodes
    PROVE  /\ Cardinality(D[n]) \in Nat /\ Cardinality(TreeNodes) \in Nat
           /\ Cardinality(D[n]) <= Cardinality(TreeNodes)
           /\ \A c \in {l[n], r[n]} : c # NIL => c \in TreeNodes /\ Cardinality(D[c]) < Cardinality(D[n])
<1>1. IsFiniteSet(TreeNodes)
  BY TreeAssumption
<1>2. ASSUME NEW m \in TreeNodes
      PROVE  /\ IsFiniteSet(D[m]) /\ Cardinality(D[m]) \in Nat /\ Cardinality(TreeNodes) \in Nat
             /\ Cardinality(D[m]) <= Cardinality(TreeNodes)
  <2>1. D[m] \subseteq TreeNodes
    BY ShapeOf
  <2>2. IsFiniteSet(D[m]) /\ Cardinality(D[m]) <= Cardinality(TreeNodes)
    BY <1>1, <2>1, FS_Subset
  <2>3. QED
    BY <1>1, <2>2, FS_CardinalityType
<1>3. ASSUME NEW c \in {l[n], r[n]}, c # NIL
      PROVE  c \in TreeNodes /\ Cardinality(D[c]) < Cardinality(D[n])
  <2>1. c \in TreeNodes /\ D[c] \subseteq D[n] /\ D[c] # D[n]
    BY <1>3, ShapeOf
  <2>2. Cardinality(D[c]) <= Cardinality(D[n]) /\ (Cardinality(D[c]) = Cardinality(D[n]) => D[c] = D[n])
    BY <1>2, <2>1, FS_Subset
  <2>3. QED
    BY <1>2, <2>1, <2>2
<1>4. QED
  BY <1>2, <1>3

\* c goes from a node to one of its children, or ends.
Walks(c, l, r) ==
    c \in [TreeNodes -> TreeNodes \cup {NIL}] /\ \A n \in TreeNodes : c[n] \in {l[n], r[n], NIL}
Chain(g, c, b, s, A) ==
    /\ g \in [TreeNodes -> A]
    /\ \A n \in TreeNodes : g[n] = IF c[n] = NIL THEN b[n] ELSE s[n][g[c[n]]]

LEMMA ChainExists ==
    ASSUME NEW l, NEW r, NEW D, Shape(l, r, D), NEW c, Walks(c, l, r), NEW A,
           NEW b \in [TreeNodes -> A], NEW s \in [TreeNodes -> [A -> A]]
    PROVE  \E g : Chain(g, c, b, s, A)
<1> DEFINE Step(g, n) == IF c[n] = NIL THEN b[n] ELSE s[n][g[c[n]]]
           Upto(g, k) == /\ g \in [TreeNodes -> A]
                         /\ \A n \in TreeNodes : Cardinality(D[n]) <= k => g[n] = Step(g, n)
           Wrong == {k \in Nat : ~ \E g : Upto(g, k)}
<1>1. \A n \in TreeNodes : /\ Cardinality(D[n]) \in Nat /\ Cardinality(TreeNodes) \in Nat
                           /\ Cardinality(D[n]) <= Cardinality(TreeNodes)
                           /\ c[n] # NIL => c[n] \in TreeNodes /\ Cardinality(D[c[n]]) < Cardinality(D[n])
  BY Smaller DEF Walks
<1>2. CASE Wrong = {}
  <2>1. PICK k \in Nat : k = Cardinality(TreeNodes)
    BY TreeAssumption, FS_CardinalityType
  <2>2. PICK g : Upto(g, k)
    BY <1>2
  <2>3. Chain(g, c, b, s, A)
    BY <1>1, <2>1, <2>2 DEF Chain
  <2>4. QED
    BY <2>3
<1>3. CASE Wrong # {}
  <2>1. PICK k \in Wrong : \A m \in Wrong : ~ (m < k)
    <3>1. Wrong \in SUBSET Nat
      OBVIOUS
    <3>2. QED
      BY <1>3, <3>1, LeastOf
  <2>2. CASE k = 0
    <3>1. Upto(b, k)
      <4>1. \A n \in TreeNodes : ~ (Cardinality(D[n]) <= 0)
        <5>1. ASSUME NEW n \in TreeNodes, Cardinality(D[n]) <= 0 PROVE FALSE
          <6>1. Cardinality(D[n]) = 0
            BY <1>1, <5>1
          <6>2. D[n] = {}
            <7>1. IsFiniteSet(D[n])
              BY TreeAssumption, ShapeOf, FS_Subset
            <7>2. QED
              BY <6>1, <7>1, FS_EmptySet
          <6>3. QED
            BY <6>2, ShapeOf
        <5>2. QED
          BY <5>1
      <4>2. QED
        BY <2>2, <4>1
    <3>2. QED
      BY <2>1, <3>1
  <2>3. CASE k # 0
    <3>1. k \in Nat /\ k - 1 \in Nat /\ k - 1 < k
      BY <2>1, <2>3
    <3>2. PICK g : Upto(g, k - 1)
      BY <2>1, <3>1
    <3>3. PICK h : h = [n \in TreeNodes |-> IF Cardinality(D[n]) = k THEN Step(g, n) ELSE g[n]]
      OBVIOUS
    <3>4. \A n \in TreeNodes : Step(g, n) \in A
      BY <1>1, <3>2
    <3>5. h \in [TreeNodes -> A]
      BY <3>2, <3>3, <3>4
    <3>6. ASSUME NEW n \in TreeNodes, Cardinality(D[n]) <= k PROVE h[n] = Step(h, n)
      <4>1. c[n] # NIL => c[n] \in TreeNodes /\ Cardinality(D[c[n]]) # k
        BY <1>1, <3>1, <3>6
      <4>2. c[n] # NIL => h[c[n]] = g[c[n]]
        BY <3>3, <4>1
      <4>3. Step(h, n) = Step(g, n)
        BY <4>2
      <4>4. Cardinality(D[n]) # k => Cardinality(D[n]) <= k - 1
        BY <1>1, <3>1, <3>6
      <4>5. h[n] = Step(g, n)
        BY <3>2, <3>3, <4>4
      <4>6. QED
        BY <4>3, <4>5
    <3>7. Upto(h, k)
      BY <3>5, <3>6
    <3>8. QED
      BY <2>1, <3>7
  <2>4. QED
    BY <2>2, <2>3
<1>4. QED
  BY <1>2, <1>3

IsBelow(f, l, r) ==
    f = [n \in TreeNodes |-> {n} \cup (IF l[n] = NIL THEN {} ELSE f[l[n]])
                                 \cup (IF r[n] = NIL THEN {} ELSE f[r[n]])]

LEMMA ReachableIs ==
    ASSUME NEW t, NEW D, Shape(t.left, t.right, D)
    PROVE  Tree!Reachable(t) = Under(D, t.root) \/ t.root \notin TreeNodes \cup {NIL}
<1>1. PICK l, r : l = t.left /\ r = t.right
  OBVIOUS
<1>2. Shape(l, r, D)
  BY <1>1
<1>3. IsBelow(D, l, r)
  <2>1. D = [n \in TreeNodes |-> {n} \cup Under(D, l[n]) \cup Under(D, r[n])]
    BY <1>2 DEF Shape
  <2>2. QED
    BY <2>1 DEF IsBelow, Under
<1>4. PICK f : f = CHOOSE g : IsBelow(g, l, r)
  OBVIOUS
<1>5. IsBelow(f, l, r)
  BY <1>3, <1>4
<1>6. \A n \in TreeNodes : f[n] = {n} \cup Under(f, l[n]) \cup Under(f, r[n])
  BY <1>5 DEF IsBelow, Under
<1>7. Tree!Reachable(t) = IF t.root = NIL THEN {} ELSE f[t.root]
  BY <1>1, <1>4 DEF Tree!Reachable, IsBelow
<1>8. \A n \in TreeNodes : f[n] = D[n]
  <2> DEFINE W == {n \in TreeNodes : f[n] # D[n]}
  <2>1. SUFFICES ASSUME W # {} PROVE FALSE
    OBVIOUS
  <2>2. PICK n \in W : l[n] \notin W /\ r[n] \notin W
    <3>1. W \in SUBSET TreeNodes
      OBVIOUS
    <3>2. QED
      BY <1>2, <2>1, <3>1, Lowest
  <2>3. n \in TreeNodes /\ l[n] \in TreeNodes \cup {NIL} /\ r[n] \in TreeNodes \cup {NIL}
    BY <1>2, <2>2 DEF Shape
  <2>4. Under(f, l[n]) = Under(D, l[n]) /\ Under(f, r[n]) = Under(D, r[n])
    BY <2>2, <2>3 DEF Under
  <2>5. D[n] = {n} \cup Under(D, l[n]) \cup Under(D, r[n])
    BY <1>2, <2>3, ShapeOf
  <2>6. QED
    BY <1>6, <2>2, <2>3, <2>4, <2>5
<1>9. QED
  BY <1>7, <1>8 DEF Under

\* Smaller keys are to the left.
Sorted(l, r, D, K, S) ==
    \A n \in S : /\ K[n] \in Int
                 /\ \A m \in Under(D, l[n]) : K[m] < K[n]
                 /\ \A m \in Under(D, r[n]) : K[n] < K[m]

\* Going to the right ends at the greatest.
Utmost(D, K, x, n) == x \in D[n] /\ \A y \in D[n] : y = x \/ K[y] < K[x]

LEMMA RightEnd ==
    ASSUME NEW l, NEW r, NEW D, Shape(l, r, D), NEW root \in TreeNodes, NEW K, Sorted(l, r, D, K, D[root]),
           NEW f, \A m \in TreeNodes : f[m] = IF r[m] = NIL THEN m ELSE f[r[m]],
           NEW n \in D[root]
    PROVE  Utmost(D, K, f[n], n) /\ r[f[n]] = NIL
<1> DEFINE W == {x \in D[root] : ~ (Utmost(D, K, f[x], x) /\ r[f[x]] = NIL)}
<1>1. SUFFICES ASSUME W # {} PROVE FALSE
  OBVIOUS
<1>2. PICK x \in W : l[x] \notin W /\ r[x] \notin W
  <2>1. W \in SUBSET TreeNodes
    BY ShapeOf
  <2>2. QED
    BY <1>1, <2>1, Lowest
<1>3. x \in TreeNodes /\ x \in D[root] /\ D[x] \subseteq D[root] /\ x \in D[x]
  BY <1>2, Below, ShapeOf
<1>4. \A y \in D[x] : K[y] \in Int
  BY <1>3 DEF Sorted
<1>5. /\ \A m \in Under(D, l[x]) : K[m] < K[x]
      /\ \A m \in Under(D, r[x]) : K[x] < K[m]
  BY <1>3 DEF Sorted
<1>6. D[x] = {x} \cup Under(D, l[x]) \cup Under(D, r[x])
  BY <1>3, ShapeOf
<1>7. CASE r[x] = NIL
  <2>1. f[x] = x /\ Under(D, r[x]) = {}
    BY <1>3, <1>7 DEF Under
  <2>2. QED
    BY <1>2, <1>3, <1>5, <1>6, <1>7, <2>1 DEF Utmost
<1>8. CASE r[x] # NIL
  <2>1. r[x] \in TreeNodes /\ Under(D, r[x]) = D[r[x]] /\ r[x] \in D[x]
    BY <1>3, <1>8, ShapeOf
  <2>2. r[x] \in D[root] /\ f[x] = f[r[x]]
    BY <1>3, <1>8, <2>1
  <2>3. Utmost(D, K, f[x], r[x]) /\ r[f[x]] = NIL
    BY <1>2, <2>2
  <2>4. PICK e : e = f[x]
    OBVIOUS
  <2>5. e \in D[r[x]] /\ \A y \in D[r[x]] : y = e \/ K[y] < K[e]
    BY <2>3, <2>4 DEF Utmost
  <2>6. e \in D[x] /\ K[x] < K[e] /\ K[e] \in Int /\ K[x] \in Int
    BY <1>3, <1>4, <1>5, <1>6, <2>1, <2>5
  <2>7. ASSUME NEW y \in D[x] PROVE y = e \/ K[y] < K[e]
    <3>1. CASE y \in Under(D, l[x])
      <4>1. K[y] < K[x] /\ K[y] \in Int
        BY <1>4, <1>5, <3>1
      <4>2. QED
        BY <2>6, <4>1
    <3>2. QED
      BY <1>6, <2>1, <2>5, <2>6, <2>7, <3>1
  <2>8. QED
    BY <1>2, <2>3, <2>4, <2>6, <2>7 DEF Utmost
<1>9. QED
  BY <1>7, <1>8

\* The same from the other side.
LEMMA Mirror ==
    ASSUME NEW l, NEW r, NEW D, Shape(l, r, D)
    PROVE  Shape(r, l, D)
BY DEF Shape

Lowmost(D, K, x, n) == x \in D[n] /\ \A y \in D[n] : y = x \/ K[x] < K[y]

LEMMA LeftEnd ==
    ASSUME NEW l, NEW r, NEW D, Shape(l, r, D), NEW root \in TreeNodes, NEW K, Sorted(l, r, D, K, D[root]),
           NEW f, \A m \in TreeNodes : f[m] = IF l[m] = NIL THEN m ELSE f[l[m]],
           NEW n \in D[root]
    PROVE  Lowmost(D, K, f[n], n) /\ l[f[n]] = NIL
<1>1. PICK N : N = [m \in D[root] |-> - K[m]]
  OBVIOUS
<1>2. Shape(r, l, D)
  BY Mirror
<1>3. \A m \in D[root] : K[m] \in Int /\ N[m] = - K[m] /\ N[m] \in Int
  BY <1>1 DEF Sorted
<1>4. Sorted(r, l, D, N, D[root])
  <2>1. ASSUME NEW m \in D[root]
        PROVE  /\ N[m] \in Int
               /\ \A y \in Under(D, r[m]) : N[y] < N[m]
               /\ \A y \in Under(D, l[m]) : N[m] < N[y]
    <3>1. m \in TreeNodes /\ Under(D, l[m]) \subseteq D[root] /\ Under(D, r[m]) \subseteq D[root]
      BY Below, ShapeOf
    <3>2. /\ \A y \in Under(D, l[m]) : K[y] < K[m]
          /\ \A y \in Under(D, r[m]) : K[m] < K[y]
      BY DEF Sorted
    <3>3. QED
      BY <1>3, <3>1, <3>2
  <2>2. QED
    BY <2>1 DEF Sorted
<1>5. Utmost(D, N, f[n], n) /\ l[f[n]] = NIL
  BY <1>2, <1>4, RightEnd
<1>6. D[n] \subseteq D[root]
  BY Below
<1>7. QED
  BY <1>3, <1>5, <1>6 DEF Utmost, Lowmost

IsEnd(f, r) == f = [m \in TreeNodes |-> IF r[m] = NIL THEN m ELSE f[r[m]]]

LEMMA EndExists ==
    ASSUME NEW l, NEW r, NEW D, Shape(l, r, D)
    PROVE  \E f : IsEnd(f, r)
<1>1. PICK b : b = [n \in TreeNodes |-> n]
  OBVIOUS
<1>2. PICK s : s = [n \in TreeNodes |-> b]
  OBVIOUS
<1>3. b \in [TreeNodes -> TreeNodes] /\ s \in [TreeNodes -> [TreeNodes -> TreeNodes]]
  BY <1>1, <1>2
<1>4. Walks(r, l, r)
  BY DEF Shape, Walks
<1>5. PICK g : Chain(g, r, b, s, TreeNodes)
  BY <1>3, <1>4, ChainExists
<1>6. \A n \in TreeNodes : r[n] # NIL => r[n] \in TreeNodes
  BY ShapeOf
<1>7. \A n \in TreeNodes : g[n] = IF r[n] = NIL THEN n ELSE g[r[n]]
  BY <1>1, <1>2, <1>5, <1>6 DEF Chain
<1>8. IsEnd(g, r)
  BY <1>5, <1>7 DEF Chain, IsEnd
<1>9. QED
  BY <1>8

LEMMA RightestIs ==
    ASSUME NEW t, NEW D, Shape(t.left, t.right, D), NEW root \in TreeNodes,
           NEW K, Sorted(t.left, t.right, D, K, D[root]), NEW n \in D[root]
    PROVE  Utmost(D, K, Tree!Rightest(t, n), n) /\ t.right[Tree!Rightest(t, n)] = NIL
<1>1. PICK l, r : l = t.left /\ r = t.right
  OBVIOUS
<1>2. Shape(l, r, D) /\ Sorted(l, r, D, K, D[root])
  BY <1>1
<1>3. PICK f : f = CHOOSE g : IsEnd(g, r)
  OBVIOUS
<1>4. IsEnd(f, r)
  BY <1>2, <1>3, EndExists
<1>5. n # NIL /\ n \in TreeNodes
  BY <1>2, Below, TreeAssumption
<1>6. Tree!Rightest(t, n) = f[n]
  BY <1>1, <1>3, <1>5 DEF Tree!Rightest, IsEnd
<1>7. \A m \in TreeNodes : f[m] = IF r[m] = NIL THEN m ELSE f[r[m]]
  BY <1>4 DEF IsEnd
<1>8. Utmost(D, K, f[n], n) /\ r[f[n]] = NIL
  BY <1>2, <1>7, RightEnd
<1>9. QED
  BY <1>1, <1>6, <1>8

LEMMA LeftestIs ==
    ASSUME NEW t, NEW D, Shape(t.left, t.right, D), NEW root \in TreeNodes,
           NEW K, Sorted(t.left, t.right, D, K, D[root]), NEW n \in D[root]
    PROVE  Lowmost(D, K, Tree!Leftest(t, n), n) /\ t.left[Tree!Leftest(t, n)] = NIL
<1>1. PICK l, r : l = t.left /\ r = t.right
  OBVIOUS
<1>2. Shape(l, r, D) /\ Sorted(l, r, D, K, D[root])
  BY <1>1
<1>3. PICK f : f = CHOOSE g : IsEnd(g, l)
  OBVIOUS
<1>4. IsEnd(f, l)
  BY <1>2, <1>3, EndExists, Mirror
<1>5. n # NIL /\ n \in TreeNodes
  BY <1>2, Below, TreeAssumption
<1>6. Tree!Leftest(t, n) = f[n]
  BY <1>1, <1>3, <1>5 DEF Tree!Leftest, IsEnd
<1>7. \A m \in TreeNodes : f[m] = IF l[m] = NIL THEN m ELSE f[l[m]]
  BY <1>4 DEF IsEnd
<1>8. Lowmost(D, K, f[n], n) /\ l[f[n]] = NIL
  BY <1>2, <1>7, LeftEnd
<1>9. QED
  BY <1>1, <1>6, <1>8

-----------------------------------------------------------------------------
(***************************************************************************)
(* The search for a key.                                                   *)
(***************************************************************************)

Toward(l, r, K, k, n) == IF k < K[n] THEN l[n] ELSE r[n]
IsPath(f, l, r, K, k) ==
    f = [n \in TreeNodes |->
            IF K[n] = k \/ Toward(l, r, K, k, n) = NIL THEN <<n>> ELSE <<n>> \o f[Toward(l, r, K, k, n)]]

\* A path is a node and then a path from one of its children.
LEMMA FirstAndRest ==
    ASSUME NEW n \in TreeNodes, NEW q \in Seq(TreeNodes), q # << >>
    PROVE  LET p == <<n>> \o q
           IN  /\ p \in Seq(TreeNodes) /\ Len(p) = Len(q) + 1 /\ Len(q) \in Nat /\ Len(q) > 0
               /\ p[1] = n /\ p[Len(p)] = q[Len(q)] /\ p[Len(p) - 1] = IF Len(q) = 1 THEN n ELSE q[Len(q) - 1]
<1>1. PICK p : p = <<n>> \o q
  OBVIOUS
<1>2. PICK h : h = <<n>>
  OBVIOUS
<1>3. h \in Seq(TreeNodes)
  BY <1>2
<1>4. Len(h) = 1 /\ h[1] = n
  BY <1>2
<1>5. Len(q) \in Nat /\ Len(q) > 0
  OBVIOUS
<1>6. /\ p \in Seq(TreeNodes) /\ Len(p) = 1 + Len(q)
      /\ \A i \in 1 .. 1 + Len(q) : p[i] = IF i <= 1 THEN h[i] ELSE q[i - 1]
  <2>1. /\ h \o q \in Seq(TreeNodes) /\ Len(h \o q) = Len(h) + Len(q)
        /\ \A i \in 1 .. Len(h) + Len(q) : (h \o q)[i] = IF i <= Len(h) THEN h[i] ELSE q[i - Len(h)]
    BY ONLY <1>3, q \in Seq(TreeNodes), ConcatProperties
  <2>2. p = h \o q
    BY <1>1, <1>2
  <2>3. QED
    BY ONLY <1>4, <2>1, <2>2
<1>7. p[1] = n
  BY <1>5, <1>6, <1>4
<1>8. p[Len(p)] = q[Len(q)]
  BY <1>5, <1>6
<1>9. p[Len(p) - 1] = IF Len(q) = 1 THEN n ELSE q[Len(q) - 1]
  <2>1. PICK m : m = Len(q)
    OBVIOUS
  <2>2. m \in Nat /\ m > 0 /\ m \in 1 .. 1 + m /\ Len(p) - 1 = m
    BY <1>5, <1>6, <2>1
  <2>3. p[m] = IF m <= 1 THEN h[m] ELSE q[m - 1]
    BY <1>6, <2>1, <2>2
  <2>4. p[m] = IF m = 1 THEN n ELSE q[m - 1]
    BY <1>4, <2>2, <2>3
  <2>5. QED
    BY <2>1, <2>2, <2>4
<1>10. QED
  BY <1>1, <1>5, <1>6, <1>7, <1>8, <1>9

LEMMA PathExists ==
    ASSUME NEW l, NEW r, NEW D, Shape(l, r, D), NEW K, NEW k
    PROVE  \E f : IsPath(f, l, r, K, k)
<1>1. PICK c : c = [n \in TreeNodes |-> IF K[n] = k THEN NIL ELSE Toward(l, r, K, k, n)]
  OBVIOUS
<1>2. PICK b : b = [n \in TreeNodes |-> <<n>>]
  OBVIOUS
<1>3. PICK s : s = [n \in TreeNodes |-> [q \in Seq(TreeNodes) |-> <<n>> \o q]]
  OBVIOUS
<1>4. b \in [TreeNodes -> Seq(TreeNodes)]
  BY <1>2
<1>5. s \in [TreeNodes -> [Seq(TreeNodes) -> Seq(TreeNodes)]]
  <2>1. ASSUME NEW n \in TreeNodes, NEW q \in Seq(TreeNodes) PROVE <<n>> \o q \in Seq(TreeNodes)
    <3>1. <<n>> \in Seq(TreeNodes)
      OBVIOUS
    <3>2. QED
      BY <3>1, ConcatProperties
  <2>2. QED
    BY <1>3, <2>1
<1>6. Walks(c, l, r)
  BY <1>1 DEF Shape, Walks, Toward
<1>7. PICK g : Chain(g, c, b, s, Seq(TreeNodes))
  BY <1>4, <1>5, <1>6, ChainExists
<1>8. ASSUME NEW n \in TreeNodes
      PROVE  g[n] = IF K[n] = k \/ Toward(l, r, K, k, n) = NIL THEN <<n>> ELSE <<n>> \o g[Toward(l, r, K, k, n)]
  <2>1. g[n] = IF c[n] = NIL THEN b[n] ELSE s[n][g[c[n]]]
    BY <1>7 DEF Chain
  <2>2. c[n] # NIL => c[n] \in TreeNodes /\ g[c[n]] \in Seq(TreeNodes)
    BY <1>6, <1>7 DEF Walks, Chain
  <2>3. c[n] # NIL => s[n][g[c[n]]] = <<n>> \o g[c[n]]
    BY <1>3, <2>2
  <2>4. c[n] = IF K[n] = k THEN NIL ELSE Toward(l, r, K, k, n)
    BY <1>1
  <2>5. b[n] = <<n>>
    BY <1>2
  <2>6. PICK w : w = Toward(l, r, K, k, n)
    OBVIOUS
  <2>7. QED
    BY <2>1, <2>3, <2>4, <2>5, <2>6
<1>9. IsPath(g, l, r, K, k)
  BY <1>7, <1>8 DEF Chain, IsPath
<1>10. QED
  BY <1>9

\* Where the search for k that starts at n ends.
Landed(L, l, r, D, K, k, n) ==
    /\ L \in D[n]
    /\ K[L] = k \/ Toward(l, r, K, k, L) = NIL
    /\ (\E x \in D[n] : K[x] = k) => K[L] = k
    /\ \A m \in D[n] : (L \in Under(D, l[m]) => k < K[m]) /\ (L \in Under(D, r[m]) => K[m] < k)

LEMMA LandedHere ==
    ASSUME NEW l, NEW r, NEW D, Shape(l, r, D), NEW n \in TreeNodes, NEW K, Sorted(l, r, D, K, D[n]),
           NEW k \in Int, K[n] = k \/ Toward(l, r, K, k, n) = NIL
    PROVE  Landed(n, l, r, D, K, k, n)
<1>1. n \in D[n]
  BY ShapeOf
<1>2. ASSUME NEW x \in D[n], K[x] = k, K[n] # k PROVE FALSE
  <2>1. /\ K[n] \in Int
        /\ \A m \in Under(D, l[n]) : K[m] < K[n]
        /\ \A m \in Under(D, r[n]) : K[n] < K[m]
    BY <1>1 DEF Sorted
  <2>2. x \in Under(D, l[n]) \/ x \in Under(D, r[n])
    BY <1>2, ShapeOf
  <2>3. CASE k < K[n]
    <3>1. l[n] = NIL
      BY <1>2, <2>3 DEF Toward
    <3>2. x \in Under(D, r[n])
      BY <2>2, <3>1 DEF Under
    <3>3. K[n] < k
      BY <1>2, <2>1, <3>2
    <3>4. QED
      BY <2>1, <2>3, <3>3
  <2>4. CASE ~ (k < K[n])
    <3>1. r[n] = NIL
      BY <1>2, <2>4 DEF Toward
    <3>2. x \in Under(D, l[n])
      BY <2>2, <3>1 DEF Under
    <3>3. k < K[n]
      BY <1>2, <2>1, <3>2
    <3>4. QED
      BY <2>4, <3>3
  <2>5. QED
    BY <2>3, <2>4
<1>3. ASSUME NEW m \in D[n], n \in Under(D, l[m]) \/ n \in Under(D, r[m]) PROVE FALSE
  <2>1. m \in TreeNodes
    BY Below
  <2>2. n \in D[m]
    BY <1>3, <2>1, ShapeOf
  <2>3. m = n
    BY <2>2, OneAbove
  <2>4. QED
    BY <1>3, <2>3, ShapeOf
<1>4. QED
  BY <1>1, <1>2, <1>3 DEF Landed

LEMMA LandedBelow ==
    ASSUME NEW l, NEW r, NEW D, Shape(l, r, D), NEW n \in TreeNodes, NEW K, Sorted(l, r, D, K, D[n]),
           NEW k \in Int, K[n] # k, NEW c \in TreeNodes, c = Toward(l, r, K, k, n),
           NEW L, Landed(L, l, r, D, K, k, c)
    PROVE  Landed(L, l, r, D, K, k, n)
<1>1. n \in D[n] /\ c # NIL /\ c \in {l[n], r[n]}
  BY ShapeOf, TreeAssumption DEF Toward
<1>2. c \in Under(D, c) /\ Under(D, c) = D[c] /\ D[c] \subseteq D[n]
  <2>1. c \in D[c] /\ Under(D, c) = D[c]
    BY <1>1, ShapeOf DEF Under
  <2>2. QED
    BY <1>1, <2>1, Child
<1>3. /\ K[n] \in Int
      /\ \A m \in Under(D, l[n]) : K[m] < K[n]
      /\ \A m \in Under(D, r[n]) : K[n] < K[m]
  BY <1>1 DEF Sorted
<1>4. D[n] = {n} \cup Under(D, l[n]) \cup Under(D, r[n])
  BY ShapeOf
<1>5. L \in D[c] /\ L \in D[n]
  BY <1>2 DEF Landed
<1>6. \/ k < K[n] /\ c = l[n]
      \/ K[n] < k /\ c = r[n]
  BY <1>3 DEF Toward
<1>7. ASSUME NEW x \in D[n], K[x] = k PROVE K[L] = k
  <2>1. x \in D[c]
    BY <1>2, <1>3, <1>4, <1>6, <1>7
  <2>2. QED
    BY <1>7, <2>1 DEF Landed
<1>8. ASSUME NEW m \in D[n]
      PROVE  (L \in Under(D, l[m]) => k < K[m]) /\ (L \in Under(D, r[m]) => K[m] < k)
  <2>1. CASE m \in D[c]
    BY <2>1 DEF Landed
  <2>2. CASE m = n
    <3>1. CASE k < K[n] /\ c = l[n]
      <4>1. L \in Under(D, l[n])
        BY <1>2, <1>5, <3>1
      <4>2. QED
        BY <2>2, <3>1, <4>1, Disjoint
    <3>2. CASE K[n] < k /\ c = r[n]
      <4>1. L \in Under(D, r[n])
        BY <1>2, <1>5, <3>2
      <4>2. QED
        BY <2>2, <3>2, <4>1, Disjoint
    <3>3. QED
      BY <1>6, <3>1, <3>2
  <2>3. CASE m \notin D[c] /\ m # n
    <3>1. PICK e \in {l[n], r[n]} : m \in Under(D, e) /\ e # c
      BY <1>2, <1>4, <2>3
    <3>2. m \in TreeNodes /\ D[m] \subseteq Under(D, e)
      BY <3>1, Side
    <3>3. L \notin Under(D, e)
      BY <1>1, <1>2, <1>5, <3>1, Disjoint
    <3>4. Under(D, l[m]) \subseteq D[m] /\ Under(D, r[m]) \subseteq D[m]
      BY <3>2, ShapeOf
    <3>5. QED
      BY <3>2, <3>3, <3>4
  <2>4. QED
    BY <2>1, <2>2, <2>3
<1>9. K[L] = k \/ Toward(l, r, K, k, L) = NIL
  BY DEF Landed
<1>10. QED
  BY <1>5, <1>7, <1>8, <1>9 DEF Landed

\* The last two nodes of a path.
Led(p, l, r, D, n) ==
    /\ p \in Seq(TreeNodes) /\ Len(p) \in Nat /\ Len(p) > 0
    /\ Len(p) = 1 => p[Len(p)] = n
    /\ Len(p) # 1 => p[Len(p) - 1] \in D[n] /\ p[Len(p)] \in {l[p[Len(p) - 1]], r[p[Len(p) - 1]]}

LEMMA PathLeads ==
    ASSUME NEW l, NEW r, NEW D, Shape(l, r, D), NEW root \in TreeNodes, NEW K, Sorted(l, r, D, K, D[root]),
           NEW k \in Int, NEW f, IsPath(f, l, r, K, k), NEW n \in D[root]
    PROVE  Led(f[n], l, r, D, n) /\ Landed(f[n][Len(f[n])], l, r, D, K, k, n)
<1> DEFINE W == {x \in D[root] : ~ (Led(f[x], l, r, D, x) /\ Landed(f[x][Len(f[x])], l, r, D, K, k, x))}
<1>1. SUFFICES ASSUME W # {} PROVE FALSE
  OBVIOUS
<1>2. PICK x \in W : l[x] \notin W /\ r[x] \notin W
  <2>1. W \in SUBSET TreeNodes
    BY ShapeOf
  <2>2. QED
    BY <1>1, <2>1, Lowest
<1>3. x \in TreeNodes /\ x \in D[root] /\ D[x] \subseteq D[root] /\ x \in D[x]
  BY <1>2, Below, ShapeOf
<1>4. Sorted(l, r, D, K, D[x])
  BY <1>3 DEF Sorted
<1>5. PICK c : c = Toward(l, r, K, k, x)
  OBVIOUS
<1>6. f[x] = IF K[x] = k \/ c = NIL THEN <<x>> ELSE <<x>> \o f[c]
  BY <1>3, <1>5 DEF IsPath
<1>7. CASE K[x] = k \/ c = NIL
  <2>1. PICK p : p = <<x>>
    OBVIOUS
  <2>2. p \in Seq(TreeNodes) /\ Len(p) = 1 /\ p[1] = x
    BY <1>3, <2>1
  <2>3. Led(p, l, r, D, x)
    BY <2>2 DEF Led
  <2>4. Landed(x, l, r, D, K, k, x)
    BY <1>3, <1>4, <1>5, <1>7, LandedHere
  <2>5. f[x] = p
    BY <1>6, <1>7, <2>1
  <2>6. QED
    BY <1>2, <2>2, <2>3, <2>4, <2>5
<1>8. CASE ~ (K[x] = k \/ c = NIL)
  <2>1. c \in {l[x], r[x]} /\ c # NIL /\ K[x] # k
    BY <1>5, <1>8 DEF Toward
  <2>2. c \in TreeNodes /\ c \in D[x]
    BY <1>3, <2>1, ShapeOf
  <2>3. c \in D[root] /\ c \notin W
    BY <1>2, <1>3, <2>1, <2>2
  <2>4. PICK q : q = f[c]
    OBVIOUS
  <2>5. Led(q, l, r, D, c) /\ Landed(q[Len(q)], l, r, D, K, k, c)
    BY <2>3, <2>4
  <2>6. q \in Seq(TreeNodes) /\ q # << >>
    BY <2>5 DEF Led
  <2>7. PICK p : p = <<x>> \o q
    OBVIOUS
  <2>8. /\ p \in Seq(TreeNodes) /\ Len(p) = Len(q) + 1 /\ Len(q) \in Nat /\ Len(q) > 0
        /\ p[Len(p)] = q[Len(q)] /\ p[Len(p) - 1] = IF Len(q) = 1 THEN x ELSE q[Len(q) - 1]
    BY <1>3, <2>6, <2>7, FirstAndRest
  <2>9. Landed(p[Len(p)], l, r, D, K, k, x)
    BY <1>3, <1>4, <1>5, <2>1, <2>2, <2>5, <2>8, LandedBelow
  <2>10. D[c] \subseteq D[x]
    BY <1>3, <2>2, Below
  <2>11. p[Len(p) - 1] \in D[x] /\ p[Len(p)] \in {l[p[Len(p) - 1]], r[p[Len(p) - 1]]}
    BY <1>3, <2>1, <2>5, <2>8, <2>10 DEF Led
  <2>12. Led(p, l, r, D, x)
    <3>1. Len(p) \in Nat /\ Len(p) > 0 /\ Len(p) # 1
      BY ONLY <2>8
    <3>2. QED
      BY <2>8, <2>11, <3>1 DEF Led
  <2>13. f[x] = p
    BY <1>6, <1>8, <2>4, <2>7
  <2>14. QED
    BY <1>2, <2>9, <2>12, <2>13
<1>9. QED
  BY <1>7, <1>8

LEMMA PathIs ==
    ASSUME NEW t, NEW D, Shape(t.left, t.right, D), t.root \in TreeNodes,
           NEW K, Sorted(t.left, t.right, D, K, D[t.root]),
           \A n \in TreeNodes : K[n] = TreeKey[t.data[n]],
           NEW d, TreeKey[d] \in Int, NEW p, p = Tree!Path(t, TreeKey, d)
    PROVE  Led(p, t.left, t.right, D, t.root) /\ Landed(p[Len(p)], t.left, t.right, D, K, TreeKey[d], t.root)
<1>1. PICK l, r, k, root : l = t.left /\ r = t.right /\ k = TreeKey[d] /\ root = t.root
  OBVIOUS
<1>2. Shape(l, r, D) /\ Sorted(l, r, D, K, D[root]) /\ root \in TreeNodes /\ k \in Int
  BY <1>1
<1> DEFINE OfPath(f) == f = [n \in TreeNodes |->
                               IF TreeKey[t.data[n]] = k \/ (IF k < TreeKey[t.data[n]] THEN l[n] ELSE r[n]) = NIL
                               THEN <<n>>
                               ELSE <<n>> \o f[IF k < TreeKey[t.data[n]] THEN l[n] ELSE r[n]]]
<1>3. PICK f : f = CHOOSE g : OfPath(g)
  OBVIOUS
<1>4. ASSUME NEW g PROVE OfPath(g) <=> IsPath(g, l, r, K, k)
  BY DEF IsPath, Toward
<1>5. \E g : IsPath(g, l, r, K, k)
  BY <1>2, PathExists
<1>6. OfPath(f)
  BY <1>3, <1>4, <1>5
<1>7. IsPath(f, l, r, K, k)
  BY <1>4, <1>6
<1>8. root # NIL
  BY <1>2, TreeAssumption
<1>9. p = f[root]
  BY <1>1, <1>3, <1>8 DEF Tree!Path
<1>10. root \in D[root]
  BY <1>2, ShapeOf
<1>11. Led(p, l, r, D, root) /\ Landed(p[Len(p)], l, r, D, K, k, root)
  BY <1>2, <1>7, <1>9, <1>10, PathLeads
<1>12. QED
  BY <1>1, <1>11

-----------------------------------------------------------------------------
(***************************************************************************)
(* What becomes of a shape.                                                *)
(***************************************************************************)

\* Every two nodes of a sorted tree have different keys.
LEMMA KeysDiffer ==
    ASSUME NEW l, NEW r, NEW D, Shape(l, r, D), NEW root \in TreeNodes, NEW K, Sorted(l, r, D, K, D[root]),
           NEW m \in D[root], NEW n \in D[root], m # n
    PROVE  K[m] \in Int /\ K[n] \in Int /\ K[m] # K[n]
<1>1. /\ m \in TreeNodes /\ n \in TreeNodes
      /\ \A p \in D[root] : /\ K[p] \in Int
                            /\ \A x \in Under(D, l[p]) : K[x] < K[p]
                            /\ \A x \in Under(D, r[p]) : K[p] < K[x]
  BY Below DEF Sorted
<1>2. \A p \in D[root] : \A x \in Under(D, l[p]) \cup Under(D, r[p]) : K[x] \in Int
  <2>1. ASSUME NEW p \in D[root], NEW x \in Under(D, l[p]) \cup Under(D, r[p]) PROVE K[x] \in Int
    <3>1. p \in TreeNodes /\ D[p] \subseteq D[root]
      BY Below
    <3>2. x \in D[p]
      BY <2>1, <3>1, ShapeOf
    <3>3. QED
      BY <1>1, <3>1, <3>2
  <2>2. QED
    BY <2>1
<1>3. CASE m \in D[n]
  <2>1. m \in Under(D, l[n]) \/ m \in Under(D, r[n])
    BY <1>1, <1>3, ShapeOf
  <2>2. QED
    BY <1>1, <2>1
<1>4. CASE n \in D[m]
  <2>1. n \in Under(D, l[m]) \/ n \in Under(D, r[m])
    BY <1>1, <1>4, ShapeOf
  <2>2. QED
    BY <1>1, <2>1
<1>5. CASE \E p \in D[root] : Apart(l, r, D, p, m, n)
  <2>1. PICK p \in D[root] : Apart(l, r, D, p, m, n)
    BY <1>5
  <2>2. QED
    BY <1>1, <2>1 DEF Apart
<1>6. QED
  BY <1>3, <1>4, <1>5, Meet

\* Nothing is between a node and the greatest one on its left.
LEMMA NothingBefore ==
    ASSUME NEW l, NEW r, NEW D, Shape(l, r, D), NEW root \in TreeNodes, NEW K, Sorted(l, r, D, K, D[root]),
           NEW n \in D[root], l[n] # NIL, NEW x, Utmost(D, K, x, l[n])
    PROVE  /\ x \in D[root] /\ x \in Under(D, l[n]) /\ K[x] < K[n] /\ K[x] \in Int
           /\ \A y \in D[root] : y = n \/ y = x \/ K[y] < K[x] \/ K[n] < K[y]
<1>1. n \in TreeNodes /\ D[n] \subseteq D[root]
  BY Below
<1>2. /\ \A p \in D[root] : /\ K[p] \in Int
                            /\ \A y \in Under(D, l[p]) : K[y] < K[p]
                            /\ \A y \in Under(D, r[p]) : K[p] < K[y]
  BY DEF Sorted
<1>3. Under(D, l[n]) = D[l[n]] /\ Under(D, l[n]) \subseteq D[n]
  BY <1>1, ShapeOf
<1>4. x \in Under(D, l[n]) /\ \A y \in Under(D, l[n]) : y = x \/ K[y] < K[x]
  BY <1>3 DEF Utmost
<1>5. x \in D[root] /\ K[x] < K[n] /\ K[x] \in Int /\ x \in D[n]
  BY <1>1, <1>2, <1>3, <1>4
<1>6. ASSUME NEW y \in D[root], y # n, y # x PROVE K[y] < K[x] \/ K[n] < K[y]
  <2>1. y \in TreeNodes /\ K[y] \in Int /\ K[n] \in Int
    BY <1>2, Below
  <2>2. CASE y \in D[n]
    <3>1. y \in Under(D, l[n]) \/ y \in Under(D, r[n])
      BY <1>1, <1>6, <2>2, ShapeOf
    <3>2. QED
      BY <1>2, <1>4, <1>6, <3>1
  <2>3. CASE n \in D[y]
    <3>1. PICK e \in {l[y], r[y]} : n \in Under(D, e)
      BY <1>6, <2>1, <2>3, ShapeOf
    <3>2. D[n] \subseteq Under(D, e)
      BY <2>1, <3>1, Side
    <3>3. x \in Under(D, e)
      BY <1>5, <3>2
    <3>4. QED
      BY <1>2, <1>5, <2>1, <3>1, <3>3
  <2>4. CASE \E p \in D[root] : Apart(l, r, D, p, y, n)
    <3>1. PICK p \in D[root] : Apart(l, r, D, p, y, n)
      BY <2>4
    <3>2. p \in TreeNodes /\ K[p] \in Int
      BY <1>2, Below
    <3>3. \A e \in {l[p], r[p]} : n \in Under(D, e) => x \in Under(D, e)
      <4>1. ASSUME NEW e \in {l[p], r[p]}, n \in Under(D, e) PROVE x \in Under(D, e)
        <5>1. D[n] \subseteq Under(D, e)
          BY <3>2, <4>1, Side
        <5>2. QED
          BY <1>5, <5>1
      <4>2. QED
        BY <4>1
    <3>4. CASE y \in Under(D, l[p]) /\ n \in Under(D, r[p])
      BY <1>2, <1>5, <2>1, <3>2, <3>3, <3>4
    <3>5. CASE n \in Under(D, l[p]) /\ y \in Under(D, r[p])
      BY <1>2, <1>5, <2>1, <3>2, <3>3, <3>5
    <3>6. QED
      BY <3>1, <3>4, <3>5 DEF Apart
  <2>5. QED
    BY <2>2, <2>3, <2>4, Meet
<1>7. QED
  BY <1>4, <1>5, <1>6

\* And nothing between a node and the smallest one on its right.
LEMMA NothingAfter ==
    ASSUME NEW l, NEW r, NEW D, Shape(l, r, D), NEW root \in TreeNodes, NEW K, Sorted(l, r, D, K, D[root]),
           NEW n \in D[root], r[n] # NIL, NEW x, Lowmost(D, K, x, r[n])
    PROVE  /\ x \in D[root] /\ K[n] < K[x] /\ K[x] \in Int
           /\ \A y \in D[root] : y = n \/ y = x \/ K[x] < K[y] \/ K[y] < K[n]
<1>1. PICK N : N = [m \in D[root] |-> - K[m]]
  OBVIOUS
<1>2. Shape(r, l, D)
  BY Mirror
<1>3. \A m \in D[root] : K[m] \in Int /\ N[m] = - K[m] /\ N[m] \in Int
  BY <1>1 DEF Sorted
<1>4. ASSUME NEW m \in D[root]
      PROVE  m \in TreeNodes /\ Under(D, l[m]) \subseteq D[root] /\ Under(D, r[m]) \subseteq D[root]
  <2>1. m \in TreeNodes /\ D[m] \subseteq D[root]
    BY Below
  <2>2. Under(D, l[m]) \subseteq D[m] /\ Under(D, r[m]) \subseteq D[m]
    BY <2>1, ShapeOf
  <2>3. QED
    BY <2>1, <2>2
<1>5. Sorted(r, l, D, N, D[root])
  <2>1. ASSUME NEW m \in D[root]
        PROVE  /\ N[m] \in Int
               /\ \A y \in Under(D, r[m]) : N[y] < N[m]
               /\ \A y \in Under(D, l[m]) : N[m] < N[y]
    <3>1. /\ \A y \in Under(D, l[m]) : K[y] < K[m]
          /\ \A y \in Under(D, r[m]) : K[m] < K[y]
      BY DEF Sorted
    <3>2. QED
      BY <1>3, <1>4, <3>1
  <2>2. QED
    BY <2>1 DEF Sorted
<1>6. r[n] \in TreeNodes /\ D[r[n]] \subseteq D[root]
  <2>1. Under(D, r[n]) = D[r[n]] /\ r[n] \in TreeNodes
    BY <1>4, ShapeOf
  <2>2. QED
    BY <1>4, <2>1
<1>7. Utmost(D, N, x, r[n])
  BY <1>3, <1>6 DEF Utmost, Lowmost
<1>8. /\ x \in D[root] /\ N[x] < N[n] /\ N[x] \in Int
      /\ \A y \in D[root] : y = n \/ y = x \/ N[y] < N[x] \/ N[n] < N[y]
  BY <1>2, <1>5, <1>7, NothingBefore
<1>9. QED
  BY <1>3, <1>8

\* A node that has nothing below it is hung under one that has no child there.
Grown(D, L, n) == [m \in TreeNodes |-> IF L \in D[m] THEN D[m] \cup {n} ELSE D[m]]

LEMMA GrownShape ==
    ASSUME NEW l, NEW r, NEW D, Shape(l, r, D), NEW L \in TreeNodes, NEW n \in TreeNodes, n # L,
           l[n] = NIL, r[n] = NIL, \A m \in TreeNodes : m # n => n \notin D[m], l[L] = NIL
    PROVE  Shape([l EXCEPT ![L] = n], r, Grown(D, L, n))
<1>1. PICK l2, E : l2 = [l EXCEPT ![L] = n] /\ E = Grown(D, L, n)
  OBVIOUS
<1>2. l2 \in [TreeNodes -> TreeNodes \cup {NIL}] /\ l \in [TreeNodes -> TreeNodes \cup {NIL}]
  BY <1>1 DEF Shape
<1>3. r \in [TreeNodes -> TreeNodes \cup {NIL}]
  BY DEF Shape
<1>4. \A m \in TreeNodes : E[m] = IF L \in D[m] THEN D[m] \cup {n} ELSE D[m]
  BY <1>1 DEF Grown
<1>5. E \in [TreeNodes -> SUBSET TreeNodes]
  BY <1>1 DEF Grown, Shape
<1>6. D[n] = {n} /\ E[n] = {n}
  <2>1. D[n] = {n} \cup Under(D, l[n]) \cup Under(D, r[n])
    BY ShapeOf
  <2>2. D[n] = {n}
    BY <2>1 DEF Under
  <2>3. QED
    BY <1>4, <2>2
<1>7. \A x \in TreeNodes \cup {NIL} : Under(E, x) = IF L \in Under(D, x) THEN Under(D, x) \cup {n} ELSE Under(D, x)
  BY <1>4 DEF Under
<1>8. ASSUME NEW m \in TreeNodes
      PROVE  /\ E[m] = {m} \cup Under(E, l2[m]) \cup Under(E, r[m])
             /\ m \notin Under(E, l2[m]) /\ m \notin Under(E, r[m])
             /\ Under(E, l2[m]) \cap Under(E, r[m]) = {}
  <2>1. /\ D[m] = {m} \cup Under(D, l[m]) \cup Under(D, r[m])
        /\ m \notin Under(D, l[m]) /\ m \notin Under(D, r[m])
        /\ Under(D, l[m]) \cap Under(D, r[m]) = {}
        /\ l[m] \in TreeNodes \cup {NIL} /\ r[m] \in TreeNodes \cup {NIL}
    BY ShapeOf
  <2>2. CASE m = L
    <3>1. Under(E, l2[m]) = {n} /\ Under(D, l[m]) = {}
      BY <1>1, <1>2, <1>6, <2>2, TreeAssumption DEF Under
    <3>2. Under(E, r[m]) = Under(D, r[m])
      BY <1>7, <2>1, <2>2
    <3>3. n \notin D[m] /\ E[m] = D[m] \cup {n}
      BY <1>4, <2>1, <2>2
    <3>4. QED
      BY <2>1, <2>2, <3>1, <3>2, <3>3
  <2>3. CASE m # L
    <3>1. l2[m] = l[m]
      BY <1>1, <1>2, <2>3
    <3>2. PICK A, B : A = Under(D, l[m]) /\ B = Under(D, r[m])
      OBVIOUS
    <3>3. /\ Under(E, l2[m]) = IF L \in A THEN A \cup {n} ELSE A
          /\ Under(E, r[m]) = IF L \in B THEN B \cup {n} ELSE B
      BY <1>7, <2>1, <3>1, <3>2
    <3>4. n \notin A /\ n \notin B
      <4>1. CASE m = n
        BY <2>1, <3>2, <4>1
      <4>2. CASE m # n
        <5>1. n \notin D[m]
          BY <4>2
        <5>2. QED
          BY <2>1, <3>2, <5>1
      <4>3. QED
        BY <4>1, <4>2
    <3>5. L \in A \/ L \in B => m # n
      <4>1. m = n => A = {} /\ B = {}
        BY <3>2 DEF Under
      <4>2. QED
        BY <4>1
    <3>6. E[m] = IF L \in D[m] THEN D[m] \cup {n} ELSE D[m]
      BY <1>4
    <3>7. QED
      BY <2>1, <2>3, <3>2, <3>3, <3>4, <3>5, <3>6
  <2>4. QED
    BY <2>2, <2>3
<1>9. QED
  BY <1>1, <1>2, <1>3, <1>5, <1>8 DEF Shape

\* With the key between those of its neighbours the tree stays sorted.
LEMMA GrownSorted ==
    ASSUME NEW l, NEW r, NEW D, Shape(l, r, D), NEW root \in TreeNodes, NEW K, Sorted(l, r, D, K, D[root]),
           NEW n \in TreeNodes, l[n] = NIL, r[n] = NIL, \A m \in TreeNodes : m # n => n \notin D[m],
           K[n] \in Int, NEW L, Landed(L, l, r, D, K, K[n], root), n \notin D[root],
           l[L] = NIL, K[n] < K[L]
    PROVE  Sorted([l EXCEPT ![L] = n], r, Grown(D, L, n), K, D[root] \cup {n})
<1>1. PICK l2, E : l2 = [l EXCEPT ![L] = n] /\ E = Grown(D, L, n)
  OBVIOUS
<1>2. L \in D[root] /\ L \in TreeNodes /\ L # n
  <2>1. L \in D[root]
    BY DEF Landed
  <2>2. QED
    BY <2>1, Below
<1>3. l2 \in [TreeNodes -> TreeNodes \cup {NIL}] /\ l \in [TreeNodes -> TreeNodes \cup {NIL}]
  BY <1>1, <1>2 DEF Shape
<1>4. \A m \in TreeNodes : E[m] = IF L \in D[m] THEN D[m] \cup {n} ELSE D[m]
  BY <1>1 DEF Grown
<1>5. \A x \in TreeNodes \cup {NIL} : Under(E, x) \subseteq Under(D, x) \cup (IF L \in Under(D, x) THEN {n} ELSE {})
  BY <1>4 DEF Under
<1>6. D[n] = {n} /\ E[n] = {n}
  <2>1. D[n] = {n} \cup Under(D, l[n]) \cup Under(D, r[n])
    BY ShapeOf
  <2>2. D[n] = {n}
    BY <2>1 DEF Under
  <2>3. QED
    BY <1>2, <1>4, <2>2
<1>7. ASSUME NEW m \in D[root] \cup {n}
      PROVE  /\ K[m] \in Int
             /\ \A x \in Under(E, l2[m]) : K[x] < K[m]
             /\ \A x \in Under(E, r[m]) : K[m] < K[x]
  <2>1. CASE m = n
    <3>1. Under(E, l2[m]) = {} /\ Under(E, r[m]) = {}
      BY <1>1, <1>2, <1>3, <2>1 DEF Under
    <3>2. QED
      BY <2>1, <3>1
  <2>2. CASE m # n
    <3>1. m \in D[root] /\ m \in TreeNodes
      BY <2>2, Below
    <3>2. /\ K[m] \in Int
          /\ \A x \in Under(D, l[m]) : K[x] < K[m]
          /\ \A x \in Under(D, r[m]) : K[m] < K[x]
      BY <3>1 DEF Sorted
    <3>3. (L \in Under(D, l[m]) => K[n] < K[m]) /\ (L \in Under(D, r[m]) => K[m] < K[n])
      BY <3>1 DEF Landed
    <3>4. l[m] \in TreeNodes \cup {NIL} /\ r[m] \in TreeNodes \cup {NIL}
      BY <3>1, ShapeOf
    <3>5. \A x \in Under(E, r[m]) : K[m] < K[x]
      BY <1>5, <3>2, <3>3, <3>4
    <3>6. CASE m = L
      <4>1. Under(E, l2[m]) = {n}
        BY <1>1, <1>3, <1>6, <3>1, <3>6, TreeAssumption DEF Under
      <4>2. QED
        BY <3>2, <3>5, <3>6, <4>1
    <3>7. CASE m # L
      <4>1. l2[m] = l[m]
        BY <1>1, <1>3, <3>1, <3>7
      <4>2. \A x \in Under(E, l2[m]) : K[x] < K[m]
        BY <1>5, <3>2, <3>3, <3>4, <4>1
      <4>3. QED
        BY <3>2, <3>5, <4>2
    <3>8. QED
      BY <3>6, <3>7
  <2>3. QED
    BY <2>1, <2>2
<1>8. QED
  BY <1>1, <1>7 DEF Sorted

\* A node leaves, and what is below it, on one side at most, takes its place.
Lone(l, r, n) == l[n] = NIL \/ r[n] = NIL
Heir(l, r, n) == IF l[n] = NIL THEN r[n] ELSE l[n]
Instead(l, n, c) == [m \in TreeNodes |-> IF l[m] = n THEN c ELSE l[m]]
Shrunk(D, n) == [m \in TreeNodes |-> IF m = n THEN D[n] ELSE D[m] \ {n}]

LEMMA ShrunkUnder ==
    ASSUME NEW l, NEW r, NEW D, Shape(l, r, D), NEW n \in TreeNodes, Lone(l, r, n)
    PROVE  /\ Heir(l, r, n) \in TreeNodes \cup {NIL} /\ Heir(l, r, n) # n
           /\ Under(Shrunk(D, n), Heir(l, r, n)) = D[n] \ {n}
           /\ \A x \in TreeNodes \cup {NIL} : x # n => Under(Shrunk(D, n), x) = Under(D, x) \ {n}
           /\ \A m \in TreeNodes : m # n =>
                 /\ Under(Shrunk(D, n), Instead(l, n, Heir(l, r, n))[m]) = Under(D, l[m]) \ {n}
                 /\ Under(Shrunk(D, n), Instead(r, n, Heir(l, r, n))[m]) = Under(D, r[m]) \ {n}
<1>1. PICK c, E : c = Heir(l, r, n) /\ E = Shrunk(D, n)
  OBVIOUS
<1>2. /\ l[n] \in TreeNodes \cup {NIL} /\ r[n] \in TreeNodes \cup {NIL}
      /\ D[n] = {n} \cup Under(D, l[n]) \cup Under(D, r[n])
      /\ n \notin Under(D, l[n]) /\ n \notin Under(D, r[n])
      /\ l[n] # NIL => l[n] \in Under(D, l[n])
      /\ r[n] # NIL => r[n] \in Under(D, r[n])
      /\ l[n] = NIL => Under(D, l[n]) = {}
      /\ r[n] = NIL => Under(D, r[n]) = {}
  BY ShapeOf
<1>3. c \in TreeNodes \cup {NIL} /\ c # n /\ Under(D, c) = D[n] \ {n}
  <2>1. c \in TreeNodes \cup {NIL} /\ Under(D, c) = D[n] \ {n}
    BY <1>1, <1>2 DEF Heir, Lone
  <2>2. c # n
    BY <1>1, <1>2, TreeAssumption DEF Heir
  <2>3. QED
    BY <2>1, <2>2
<1>4. ASSUME NEW x \in TreeNodes \cup {NIL}, x # n PROVE Under(E, x) = Under(D, x) \ {n}
  BY <1>1, <1>4 DEF Under, Shrunk
<1>5. Under(E, c) = D[n] \ {n}
  <2>1. Under(E, c) = Under(D, c) \ {n}
    BY <1>3, <1>4
  <2>2. QED
    BY <1>3, <2>1
<1>6. Under(D, n) = D[n]
  BY TreeAssumption DEF Under
<1>7. ASSUME NEW m \in TreeNodes, m # n
      PROVE  /\ Under(E, Instead(l, n, c)[m]) = Under(D, l[m]) \ {n}
             /\ Under(E, Instead(r, n, c)[m]) = Under(D, r[m]) \ {n}
  <2>1. l[m] \in TreeNodes \cup {NIL} /\ r[m] \in TreeNodes \cup {NIL}
    BY ShapeOf
  <2>2. Instead(l, n, c)[m] = (IF l[m] = n THEN c ELSE l[m]) /\ Instead(r, n, c)[m] = (IF r[m] = n THEN c ELSE r[m])
    BY DEF Instead
  <2>3. Under(E, Instead(l, n, c)[m]) = Under(D, l[m]) \ {n}
    BY <1>4, <1>5, <1>6, <2>1, <2>2
  <2>4. Under(E, Instead(r, n, c)[m]) = Under(D, r[m]) \ {n}
    BY <1>4, <1>5, <1>6, <2>1, <2>2
  <2>5. QED
    BY <2>3, <2>4
<1>8. QED
  BY <1>1, <1>3, <1>4, <1>5, <1>7

LEMMA ShrunkShape ==
    ASSUME NEW l, NEW r, NEW D, Shape(l, r, D), NEW n \in TreeNodes, Lone(l, r, n), NEW c, c = Heir(l, r, n)
    PROVE  Shape(Instead(l, n, c), Instead(r, n, c), Shrunk(D, n))
<1>1. PICK E, l2, r2 : E = Shrunk(D, n) /\ l2 = Instead(l, n, c) /\ r2 = Instead(r, n, c)
  OBVIOUS
<1>2. /\ c \in TreeNodes \cup {NIL} /\ c # n
      /\ \A x \in TreeNodes \cup {NIL} : x # n => Under(E, x) = Under(D, x) \ {n}
      /\ \A m \in TreeNodes : m # n =>
            Under(E, l2[m]) = Under(D, l[m]) \ {n} /\ Under(E, r2[m]) = Under(D, r[m]) \ {n}
  BY <1>1, ShrunkUnder
<1>3. l2 \in [TreeNodes -> TreeNodes \cup {NIL}] /\ r2 \in [TreeNodes -> TreeNodes \cup {NIL}]
  BY <1>1, <1>2 DEF Shape, Instead
<1>4. E \in [TreeNodes -> SUBSET TreeNodes]
  BY <1>1 DEF Shape, Shrunk
<1>5. ASSUME NEW m \in TreeNodes
      PROVE  /\ E[m] = {m} \cup Under(E, l2[m]) \cup Under(E, r2[m])
             /\ m \notin Under(E, l2[m]) /\ m \notin Under(E, r2[m])
             /\ Under(E, l2[m]) \cap Under(E, r2[m]) = {}
  <2>1. /\ D[m] = {m} \cup Under(D, l[m]) \cup Under(D, r[m])
        /\ m \notin Under(D, l[m]) /\ m \notin Under(D, r[m])
        /\ Under(D, l[m]) \cap Under(D, r[m]) = {}
        /\ l[m] \in TreeNodes \cup {NIL} /\ r[m] \in TreeNodes \cup {NIL}
    BY ShapeOf
  <2>2. E[m] = IF m = n THEN D[n] ELSE D[m] \ {n}
    BY <1>1 DEF Shrunk
  <2>3. CASE m = n
    <3>1. l[m] # n /\ r[m] # n
      <4>1. /\ l[n] # NIL => l[n] \in Under(D, l[n])
            /\ r[n] # NIL => r[n] \in Under(D, r[n])
        BY ShapeOf
      <4>2. QED
        BY <2>1, <2>3, <4>1, TreeAssumption
    <3>2. l2[m] = l[m] /\ r2[m] = r[m]
      BY <1>1, <3>1 DEF Instead
    <3>3. Under(E, l2[m]) = Under(D, l[m]) /\ Under(E, r2[m]) = Under(D, r[m])
      BY <1>2, <2>1, <2>3, <3>1, <3>2
    <3>4. QED
      BY <2>1, <2>2, <2>3, <3>3
  <2>4. CASE m # n
    <3>1. Under(E, l2[m]) = Under(D, l[m]) \ {n} /\ Under(E, r2[m]) = Under(D, r[m]) \ {n}
      BY <1>2, <2>4
    <3>2. QED
      BY <2>1, <2>2, <2>4, <3>1
  <2>5. QED
    BY <2>3, <2>4
<1>6. QED
  BY <1>1, <1>3, <1>4, <1>5 DEF Shape

LEMMA ShrunkSorted ==
    ASSUME NEW l, NEW r, NEW D, Shape(l, r, D), NEW n \in TreeNodes, Lone(l, r, n), NEW c, c = Heir(l, r, n),
           NEW S \in SUBSET TreeNodes, NEW K, Sorted(l, r, D, K, S)
    PROVE  Sorted(Instead(l, n, c), Instead(r, n, c), Shrunk(D, n), K, S \ {n})
<1>1. PICK E, l2, r2 : E = Shrunk(D, n) /\ l2 = Instead(l, n, c) /\ r2 = Instead(r, n, c)
  OBVIOUS
<1>2. \A m \in TreeNodes : m # n =>
            Under(E, l2[m]) = Under(D, l[m]) \ {n} /\ Under(E, r2[m]) = Under(D, r[m]) \ {n}
  BY <1>1, ShrunkUnder
<1>3. Sorted(l2, r2, E, K, S \ {n})
  BY <1>2 DEF Sorted
<1>4. QED
  BY <1>1, <1>3

\* A node that is below no other one may let go of what is below it.
LEMMA ClearedShape ==
    ASSUME NEW l, NEW r, NEW D, Shape(l, r, D), NEW n \in TreeNodes, \A m \in TreeNodes : m # n => n \notin D[m]
    PROVE  Shape([l EXCEPT ![n] = NIL], [r EXCEPT ![n] = NIL], [D EXCEPT ![n] = {n}])
<1>1. PICK E, l2, r2 : E = [D EXCEPT ![n] = {n}] /\ l2 = [l EXCEPT ![n] = NIL] /\ r2 = [r EXCEPT ![n] = NIL]
  OBVIOUS
<1>2. /\ l2 \in [TreeNodes -> TreeNodes \cup {NIL}] /\ r2 \in [TreeNodes -> TreeNodes \cup {NIL}]
      /\ E \in [TreeNodes -> SUBSET TreeNodes]
  BY <1>1 DEF Shape
<1>3. \A m \in TreeNodes : /\ E[m] = IF m = n THEN {n} ELSE D[m]
                           /\ l2[m] = IF m = n THEN NIL ELSE l[m]
                           /\ r2[m] = IF m = n THEN NIL ELSE r[m]
  BY <1>1 DEF Shape
<1>4. ASSUME NEW m \in TreeNodes
      PROVE  /\ E[m] = {m} \cup Under(E, l2[m]) \cup Under(E, r2[m])
             /\ m \notin Under(E, l2[m]) /\ m \notin Under(E, r2[m])
             /\ Under(E, l2[m]) \cap Under(E, r2[m]) = {}
  <2>1. CASE m = n
    <3>1. Under(E, l2[m]) = {} /\ Under(E, r2[m]) = {}
      BY <1>3, <2>1 DEF Under
    <3>2. QED
      BY <1>3, <2>1, <3>1
  <2>2. CASE m # n
    <3>1. /\ D[m] = {m} \cup Under(D, l[m]) \cup Under(D, r[m])
          /\ m \notin Under(D, l[m]) /\ m \notin Under(D, r[m])
          /\ Under(D, l[m]) \cap Under(D, r[m]) = {}
          /\ l[m] \in TreeNodes \cup {NIL} /\ r[m] \in TreeNodes \cup {NIL}
          /\ l[m] # NIL => l[m] \in Under(D, l[m])
          /\ r[m] # NIL => r[m] \in Under(D, r[m])
      BY ShapeOf
    <3>2. l[m] # n /\ r[m] # n
      BY <2>2, <3>1, TreeAssumption
    <3>3. Under(E, l2[m]) = Under(D, l[m]) /\ Under(E, r2[m]) = Under(D, r[m])
      BY <1>3, <2>2, <3>1, <3>2 DEF Under
    <3>4. QED
      BY <1>3, <2>2, <3>1, <3>3
  <2>3. QED
    BY <2>1, <2>2
<1>5. QED
  BY <1>1, <1>2, <1>4 DEF Shape

LEMMA ClearedSorted ==
    ASSUME NEW l, NEW r, NEW D, Shape(l, r, D), NEW n \in TreeNodes, \A m \in TreeNodes : m # n => n \notin D[m],
           NEW S \in SUBSET TreeNodes, n \notin S, NEW K, Sorted(l, r, D, K, S)
    PROVE  Sorted([l EXCEPT ![n] = NIL], [r EXCEPT ![n] = NIL], [D EXCEPT ![n] = {n}], K, S)
<1>1. PICK E, l2, r2 : E = [D EXCEPT ![n] = {n}] /\ l2 = [l EXCEPT ![n] = NIL] /\ r2 = [r EXCEPT ![n] = NIL]
  OBVIOUS
<1>2. \A m \in TreeNodes : /\ E[m] = IF m = n THEN {n} ELSE D[m]
                           /\ l2[m] = IF m = n THEN NIL ELSE l[m]
                           /\ r2[m] = IF m = n THEN NIL ELSE r[m]
  BY <1>1 DEF Shape
<1>3. ASSUME NEW m \in S PROVE Under(E, l2[m]) = Under(D, l[m]) /\ Under(E, r2[m]) = Under(D, r[m])
  <2>1. m \in TreeNodes /\ m # n
    OBVIOUS
  <2>2. /\ l[m] \in TreeNodes \cup {NIL} /\ r[m] \in TreeNodes \cup {NIL}
        /\ D[m] = {m} \cup Under(D, l[m]) \cup Under(D, r[m])
        /\ l[m] # NIL => l[m] \in Under(D, l[m])
        /\ r[m] # NIL => r[m] \in Under(D, r[m])
    BY <2>1, ShapeOf
  <2>3. l[m] # n /\ r[m] # n
    BY <2>1, <2>2, TreeAssumption
  <2>4. QED
    BY <1>2, <2>1, <2>2, <2>3 DEF Under
<1>4. Sorted(l2, r2, E, K, S)
  BY <1>3 DEF Sorted
<1>5. QED
  BY <1>1, <1>4

-----------------------------------------------------------------------------
(***************************************************************************)
(* What holds of a tree between two calls.                                 *)
(***************************************************************************)

\* s is t but for its ends.
ButEnds(s, t) ==
    /\ s.root = t.root /\ s.nodes = t.nodes /\ s.duplicates = t.duplicates /\ s.recycle = t.recycle
    /\ s.free = t.free /\ s.data = t.data /\ s.ref = t.ref /\ s.left = t.left /\ s.right = t.right

\* A record with the names of the fields.
IsTree(t) ==
    t = [root |-> t.root, top |-> t.top, bottom |-> t.bottom, nodes |-> t.nodes, duplicates |-> t.duplicates,
         recycle |-> t.recycle, free |-> t.free, data |-> t.data, ref |-> t.ref,
         left |-> t.left, right |-> t.right]

LEMMA RefreshTopIs ==
    ASSUME NEW t, IsTree(t), NEW n, NEW s, s = Tree!RefreshTop(t, n)
    PROVE  /\ IsTree(s) /\ ButEnds(s, t) /\ s.bottom = t.bottom
           /\ s.top = IF n # t.top THEN t.top
                      ELSE Tree!Rightest(t, IF t.left[n] # NIL THEN t.left[n] ELSE t.root)
<1>1. PICK v : v = Tree!Rightest(t, IF t.left[n] # NIL THEN t.left[n] ELSE t.root)
  OBVIOUS
<1>2. s = IF n # t.top THEN t ELSE [t EXCEPT !.top = v]
  BY <1>1 DEF Tree!RefreshTop
<1>3. IsTree([t EXCEPT !.top = v]) /\ ButEnds([t EXCEPT !.top = v], t) /\ [t EXCEPT !.top = v].bottom = t.bottom
      /\ [t EXCEPT !.top = v].top = v
  <2>1. PICK u : u = [t EXCEPT !.top = v]
    OBVIOUS
  <2>2. u = [root |-> t.root, top |-> v, bottom |-> t.bottom, nodes |-> t.nodes, duplicates |-> t.duplicates,
             recycle |-> t.recycle, free |-> t.free, data |-> t.data, ref |-> t.ref,
             left |-> t.left, right |-> t.right]
    BY <2>1 DEF IsTree
  <2>3. IsTree(u) /\ ButEnds(u, t) /\ u.bottom = t.bottom /\ u.top = v
    BY <2>2 DEF IsTree, ButEnds
  <2>4. QED
    BY <2>1, <2>3
<1>4. QED
  BY <1>1, <1>2, <1>3 DEF ButEnds

LEMMA RefreshBottomIs ==
    ASSUME NEW t, IsTree(t), NEW n, NEW s, s = Tree!RefreshBottom(t, n)
    PROVE  /\ IsTree(s) /\ ButEnds(s, t) /\ s.top = t.top
           /\ s.bottom = IF n # t.bottom THEN t.bottom
                         ELSE Tree!Leftest(t, IF t.right[n] # NIL THEN t.right[n] ELSE t.root)
<1>1. PICK v : v = Tree!Leftest(t, IF t.right[n] # NIL THEN t.right[n] ELSE t.root)
  OBVIOUS
<1>2. s = IF n # t.bottom THEN t ELSE [t EXCEPT !.bottom = v]
  BY <1>1 DEF Tree!RefreshBottom
<1>3. IsTree([t EXCEPT !.bottom = v]) /\ ButEnds([t EXCEPT !.bottom = v], t) /\ [t EXCEPT !.bottom = v].top = t.top
      /\ [t EXCEPT !.bottom = v].bottom = v
  <2>1. PICK u : u = [t EXCEPT !.bottom = v]
    OBVIOUS
  <2>2. u = [root |-> t.root, top |-> t.top, bottom |-> v, nodes |-> t.nodes, duplicates |-> t.duplicates,
             recycle |-> t.recycle, free |-> t.free, data |-> t.data, ref |-> t.ref,
             left |-> t.left, right |-> t.right]
    BY <2>1 DEF IsTree
  <2>3. IsTree(u) /\ ButEnds(u, t) /\ u.top = t.top /\ u.bottom = v
    BY <2>2 DEF IsTree, ButEnds
  <2>4. QED
    BY <2>1, <2>3
<1>4. QED
  BY <1>1, <1>2, <1>3 DEF ButEnds

\* Where the ends of a tree are after n has left it: E are its nodes then.
LEMMA TopAfter ==
    ASSUME NEW l, NEW r, NEW D, Shape(l, r, D), NEW root \in TreeNodes, NEW K, Sorted(l, r, D, K, D[root]),
           NEW n \in D[root],
           NEW t, NEW E, Shape(t.left, t.right, E), t.root \in TreeNodes \cup {NIL},
           Under(E, t.root) = D[root] \ {n}, Sorted(t.left, t.right, E, K, D[root] \ {n}),
           t.left[n] = NIL \/ (t.left[n] = l[n] /\ l[n] # NIL /\ E[l[n]] = D[l[n]]),
           Utmost(D, K, t.top, root),
           NEW x, x = IF n # t.top THEN t.top ELSE Tree!Rightest(t, IF t.left[n] # NIL THEN t.left[n] ELSE t.root)
    PROVE  /\ t.root # NIL => Utmost(E, K, x, t.root)
           /\ t.root = NIL => x = NIL
<1>1. n \in TreeNodes /\ D[n] \subseteq D[root]
  BY Below
<1>2. t.root # NIL => t.root \in TreeNodes /\ E[t.root] = D[root] \ {n}
  BY DEF Under
<1>3. t.root = NIL => D[root] = {n}
  <2>1. ASSUME t.root = NIL PROVE D[root] = {n}
    <3>1. Under(E, t.root) = {}
      BY <2>1 DEF Under
    <3>2. QED
      BY <3>1
  <2>2. QED
    BY <2>1
<1>4. CASE n # t.top
  <2>1. t.top \in D[root] /\ \A y \in D[root] : y = t.top \/ K[y] < K[t.top]
    BY DEF Utmost
  <2>2. x = t.top /\ t.root # NIL
    BY <1>3, <1>4, <2>1
  <2>3. QED
    BY <1>2, <1>4, <2>1, <2>2 DEF Utmost
<1>5. CASE n = t.top
  <2>1. CASE t.left[n] = NIL
    <3>1. x = Tree!Rightest(t, t.root)
      BY <1>5, <2>1
    <3>2. CASE t.root = NIL
      <4>1. x = NIL
        BY <3>1, <3>2 DEF Tree!Rightest
      <4>2. QED
        BY <3>2, <4>1
    <3>3. CASE t.root # NIL
      <4>1. t.root \in TreeNodes /\ Sorted(t.left, t.right, E, K, E[t.root])
        BY <1>2, <3>3
      <4>2. t.root \in E[t.root]
        BY <4>1, ShapeOf
      <4>3. Utmost(E, K, Tree!Rightest(t, t.root), t.root)
        BY <4>1, <4>2, RightestIs
      <4>4. QED
        BY <3>1, <3>3, <4>3
    <3>4. QED
      BY <3>2, <3>3
  <2>2. CASE t.left[n] # NIL
    <3>1. t.left[n] = l[n] /\ l[n] # NIL /\ E[l[n]] = D[l[n]] /\ x = Tree!Rightest(t, l[n])
      BY <1>5, <2>2
    <3>2. l[n] \in D[n] /\ l[n] # n /\ l[n] \in TreeNodes
      BY <1>1, <3>1, ShapeOf
    <3>3. t.root # NIL /\ t.root \in TreeNodes /\ E[t.root] = D[root] \ {n} /\ l[n] \in E[t.root]
      BY <1>1, <1>2, <1>3, <3>2
    <3>4. Sorted(t.left, t.right, E, K, E[t.root])
      BY <3>3
    <3>5. PICK e, root2 : e = l[n] /\ root2 = t.root
      OBVIOUS
    <3>6. root2 \in TreeNodes /\ e \in E[root2] /\ Sorted(t.left, t.right, E, K, E[root2])
      BY <3>3, <3>4, <3>5
    <3>7. Utmost(E, K, Tree!Rightest(t, e), e)
      BY <3>6, RightestIs
    <3>8. Utmost(E, K, x, l[n])
      BY <3>1, <3>5, <3>7
    <3>9. Utmost(D, K, x, l[n])
      BY <3>1, <3>8 DEF Utmost
    <3>10. /\ x \in D[root] /\ x \in Under(D, l[n]) /\ K[x] < K[n] /\ K[x] \in Int
          /\ \A y \in D[root] : y = n \/ y = x \/ K[y] < K[x] \/ K[n] < K[y]
      BY <3>1, <3>9, NothingBefore
    <3>11. \A y \in D[root] : y = n \/ K[y] < K[n]
      BY <1>5 DEF Utmost
    <3>12. K[n] \in Int /\ \A y \in D[root] : K[y] \in Int
      BY DEF Sorted
    <3>13. x # n
      BY <3>10, <3>12
    <3>14. Utmost(E, K, x, t.root)
      BY <3>3, <3>10, <3>11, <3>12, <3>13 DEF Utmost
    <3>15. QED
      BY <3>3, <3>14
  <2>3. QED
    BY <2>1, <2>2
<1>6. QED
  BY <1>4, <1>5

LEMMA BottomAfter ==
    ASSUME NEW l, NEW r, NEW D, Shape(l, r, D), NEW root \in TreeNodes, NEW K, Sorted(l, r, D, K, D[root]),
           NEW n \in D[root],
           NEW t, NEW E, Shape(t.left, t.right, E), t.root \in TreeNodes \cup {NIL},
           Under(E, t.root) = D[root] \ {n}, Sorted(t.left, t.right, E, K, D[root] \ {n}),
           t.right[n] = NIL \/ (t.right[n] = r[n] /\ r[n] # NIL /\ E[r[n]] = D[r[n]]),
           Lowmost(D, K, t.bottom, root),
           NEW x, x = IF n # t.bottom THEN t.bottom
                      ELSE Tree!Leftest(t, IF t.right[n] # NIL THEN t.right[n] ELSE t.root)
    PROVE  /\ t.root # NIL => Lowmost(E, K, x, t.root)
           /\ t.root = NIL => x = NIL
<1>1. n \in TreeNodes /\ D[n] \subseteq D[root]
  BY Below
<1>2. t.root # NIL => t.root \in TreeNodes /\ E[t.root] = D[root] \ {n}
  BY DEF Under
<1>3. t.root = NIL => D[root] = {n}
  <2>1. ASSUME t.root = NIL PROVE D[root] = {n}
    <3>1. Under(E, t.root) = {}
      BY <2>1 DEF Under
    <3>2. QED
      BY <3>1
  <2>2. QED
    BY <2>1
<1>4. CASE n # t.bottom
  <2>1. t.bottom \in D[root] /\ \A y \in D[root] : y = t.bottom \/ K[t.bottom] < K[y]
    BY DEF Lowmost
  <2>2. x = t.bottom /\ t.root # NIL
    BY <1>3, <1>4, <2>1
  <2>3. QED
    BY <1>2, <1>4, <2>1, <2>2 DEF Lowmost
<1>5. CASE n = t.bottom
  <2>1. CASE t.right[n] = NIL
    <3>1. x = Tree!Leftest(t, t.root)
      BY <1>5, <2>1
    <3>2. CASE t.root = NIL
      <4>1. x = NIL
        BY <3>1, <3>2 DEF Tree!Leftest
      <4>2. QED
        BY <3>2, <4>1
    <3>3. CASE t.root # NIL
      <4>1. t.root \in TreeNodes /\ Sorted(t.left, t.right, E, K, E[t.root])
        BY <1>2, <3>3
      <4>2. t.root \in E[t.root]
        BY <4>1, ShapeOf
      <4>3. Lowmost(E, K, Tree!Leftest(t, t.root), t.root)
        BY <4>1, <4>2, LeftestIs
      <4>4. QED
        BY <3>1, <3>3, <4>3
    <3>4. QED
      BY <3>2, <3>3
  <2>2. CASE t.right[n] # NIL
    <3>1. t.right[n] = r[n] /\ r[n] # NIL /\ E[r[n]] = D[r[n]] /\ x = Tree!Leftest(t, r[n])
      BY <1>5, <2>2
    <3>2. r[n] \in D[n] /\ r[n] # n /\ r[n] \in TreeNodes
      BY <1>1, <3>1, ShapeOf
    <3>3. t.root # NIL /\ t.root \in TreeNodes /\ E[t.root] = D[root] \ {n} /\ r[n] \in E[t.root]
      BY <1>1, <1>2, <1>3, <3>2
    <3>4. Sorted(t.left, t.right, E, K, E[t.root])
      BY <3>3
    <3>5. PICK e, root2 : e = r[n] /\ root2 = t.root
      OBVIOUS
    <3>6. root2 \in TreeNodes /\ e \in E[root2] /\ Sorted(t.left, t.right, E, K, E[root2])
      BY <3>3, <3>4, <3>5
    <3>7. Lowmost(E, K, Tree!Leftest(t, e), e)
      BY <3>6, LeftestIs
    <3>8. Lowmost(E, K, x, r[n])
      BY <3>1, <3>5, <3>7
    <3>9. Lowmost(D, K, x, r[n])
      BY <3>1, <3>8 DEF Lowmost
    <3>10. /\ x \in D[root] /\ K[n] < K[x] /\ K[x] \in Int
          /\ \A y \in D[root] : y = n \/ y = x \/ K[x] < K[y] \/ K[y] < K[n]
      BY <3>1, <3>9, NothingAfter
    <3>11. \A y \in D[root] : y = n \/ K[n] < K[y]
      BY <1>5 DEF Lowmost
    <3>12. K[n] \in Int /\ \A y \in D[root] : K[y] \in Int
      BY DEF Sorted
    <3>13. x # n
      BY <3>10, <3>12
    <3>14. Lowmost(E, K, x, t.root)
      BY <3>3, <3>10, <3>11, <3>12, <3>13 DEF Lowmost
    <3>15. QED
      BY <3>3, <3>14
  <2>3. QED
    BY <2>1, <2>2
<1>6. QED
  BY <1>4, <1>5

\* Each node is at one place: in the tree, in the puffer, with the caller or free.
Puffer(q) == {q[i] : i \in 1 .. Len(q)}
Owned(S, q, h, f) ==
    /\ q \in Seq(TreeNodes) /\ \A i, j \in 1 .. Len(q) : q[i] = q[j] => i = j
    /\ S \cup Puffer(q) \cup h \cup f = TreeNodes
    /\ S \cap Puffer(q) = {} /\ S \cap h = {} /\ S \cap f = {}
    /\ Puffer(q) \cap h = {} /\ Puffer(q) \cap f = {} /\ h \cap f = {}

LEMMA OwnedMoves ==
    ASSUME NEW S, NEW q, NEW h, NEW f, Owned(S, q, h, f), NEW n
    PROVE  /\ n \in h => /\ Owned(S, q, h \ {n}, f \cup {n})
                         /\ Owned(S, Append(q, n), h \ {n}, f)
                         /\ Owned(S \cup {n}, q, h \ {n}, f)
           /\ n \in S => Owned(S \ {n}, q, h \cup {n}, f)
           /\ n \in f => Owned(S, q, h \cup {n}, f \ {n})
           /\ q # << >> /\ n = Head(q) => Owned(S, Tail(q), h \cup {n}, f)
<1>1. /\ q \in Seq(TreeNodes) /\ \A i, j \in 1 .. Len(q) : q[i] = q[j] => i = j
      /\ S \cup Puffer(q) \cup h \cup f = TreeNodes
      /\ S \cap Puffer(q) = {} /\ S \cap h = {} /\ S \cap f = {}
      /\ Puffer(q) \cap h = {} /\ Puffer(q) \cap f = {} /\ h \cap f = {}
  BY DEF Owned
<1>2. PICK P : P = Puffer(q)
  OBVIOUS
<1>3. ASSUME n \in h
      PROVE  Owned(S, q, h \ {n}, f \cup {n}) /\ Owned(S \cup {n}, q, h \ {n}, f)
  BY <1>1, <1>2, <1>3 DEF Owned
<1>4. ASSUME n \in h PROVE Owned(S, Append(q, n), h \ {n}, f)
  <2>1. n \in TreeNodes /\ n \notin P
    BY <1>1, <1>2, <1>4
  <2>2. PICK u : u = Append(q, n)
    OBVIOUS
  <2>3. /\ u \in Seq(TreeNodes) /\ Len(u) = Len(q) + 1 /\ Len(q) \in Nat
        /\ \A i \in 1 .. Len(q) : u[i] = q[i]
        /\ u[Len(q) + 1] = n
    BY <1>1, <2>1, <2>2
  <2>4. \A i \in 1 .. Len(u) : i \in 1 .. Len(q) \/ i = Len(q) + 1
    BY <2>3
  <2>5. \A i \in 1 .. Len(q) : q[i] \in P
    BY <1>2 DEF Puffer
  <2>6. ASSUME NEW i \in 1 .. Len(u), NEW j \in 1 .. Len(u), u[i] = u[j] PROVE i = j
    <3>1. CASE i \in 1 .. Len(q) /\ j \in 1 .. Len(q)
      BY <1>1, <2>3, <2>6, <3>1
    <3>2. CASE i \in 1 .. Len(q) /\ j = Len(q) + 1
      BY <2>1, <2>3, <2>5, <2>6, <3>2
    <3>3. CASE i = Len(q) + 1 /\ j \in 1 .. Len(q)
      BY <2>1, <2>3, <2>5, <2>6, <3>3
    <3>4. QED
      BY <2>4, <3>1, <3>2, <3>3
  <2>7. Puffer(u) = P \cup {n}
    <3>1. \A x \in Puffer(u) : x \in P \cup {n}
      BY <2>3, <2>4, <2>5 DEF Puffer
    <3>2. \A i \in 1 .. Len(q) : i \in 1 .. Len(u)
      BY <2>3
    <3>3. Len(q) + 1 \in 1 .. Len(u)
      BY <2>3
    <3>4. \A x \in P : x \in Puffer(u)
      BY <1>2, <2>3, <3>2 DEF Puffer
    <3>5. n \in Puffer(u)
      BY <2>3, <3>3 DEF Puffer
    <3>6. QED
      BY <3>1, <3>4, <3>5
  <2>8. Owned(S, u, h \ {n}, f)
    BY <1>1, <1>2, <1>4, <2>1, <2>3, <2>6, <2>7 DEF Owned
  <2>9. QED
    BY <2>2, <2>8
<1>5. ASSUME n \in S PROVE Owned(S \ {n}, q, h \cup {n}, f)
  BY <1>1, <1>2, <1>5 DEF Owned
<1>6. ASSUME n \in f PROVE Owned(S, q, h \cup {n}, f \ {n})
  BY <1>1, <1>2, <1>6 DEF Owned
<1>7. ASSUME q # << >>, n = Head(q) PROVE Owned(S, Tail(q), h \cup {n}, f)
  <2>1. PICK u : u = Tail(q)
    OBVIOUS
  <2>2. Len(q) \in Nat /\ Len(q) > 0 /\ n = q[1] /\ 1 \in 1 .. Len(q)
    BY <1>1, <1>7
  <2>3. u \in Seq(TreeNodes) /\ Len(u) = Len(q) - 1 /\ \A i \in 1 .. Len(u) : u[i] = q[i + 1]
    BY <1>1, <1>7, <2>1
  <2>4. \A i \in 1 .. Len(u) : i + 1 \in 1 .. Len(q) /\ i + 1 # 1
    BY <2>2, <2>3
  <2>5. \A i, j \in 1 .. Len(u) : u[i] = u[j] => i = j
    <3>1. ASSUME NEW i \in 1 .. Len(u), NEW j \in 1 .. Len(u), u[i] = u[j] PROVE i = j
      <4>1. i + 1 = j + 1
        BY <1>1, <2>3, <2>4, <3>1
      <4>2. QED
        BY <4>1
    <3>2. QED
      BY <3>1
  <2>6. Puffer(u) = P \ {n}
    <3>1. \A x \in Puffer(u) : x \in P /\ x # n
      BY <1>1, <1>2, <2>2, <2>3, <2>4 DEF Puffer
    <3>2. \A i \in 1 .. Len(q) : i = 1 \/ (i - 1 \in 1 .. Len(u) /\ i - 1 + 1 = i)
      BY <2>2, <2>3
    <3>3. ASSUME NEW i \in 1 .. Len(q) PROVE i = 1 \/ q[i] \in Puffer(u)
      <4>1. i # 1 => u[i - 1] = q[i]
        BY <2>3, <3>2
      <4>2. \A j \in 1 .. Len(u) : u[j] \in Puffer(u)
        BY DEF Puffer
      <4>3. QED
        BY <3>2, <4>1, <4>2
    <3>4. \A x \in P : x = n \/ x \in Puffer(u)
      BY <1>2, <2>2, <3>3 DEF Puffer
    <3>5. QED
      BY <3>1, <3>4
  <2>7. n \in P
    BY <1>2, <2>2 DEF Puffer
  <2>8. Owned(S, u, h \cup {n}, f)
    BY <1>1, <1>2, <2>3, <2>5, <2>6, <2>7 DEF Owned
  <2>9. QED
    BY <2>1, <2>8
<1>8. QED
  BY <1>3, <1>4, <1>5, <1>6, <1>7

LEMMA OwnedReset ==
    ASSUME NEW S, NEW q, NEW h, NEW f, Owned(S, q, h, f)
    PROVE  Owned({}, << >>, h, f \cup S \cup Puffer(q))
<1>1. << >> \in Seq(TreeNodes) /\ Len(<< >>) = 0 /\ Puffer(<< >>) = {}
  BY DEF Puffer
<1>2. PICK P : P = Puffer(q)
  OBVIOUS
<1>3. QED
  BY <1>1, <1>2 DEF Owned

\* The ends of a tree, which are in freed memory at most when it is empty.
Ended(D, K, root, top, bottom) ==
    /\ root = NIL => {top, bottom} \subseteq {NIL, Tree!Dangling}
    /\ root # NIL => Utmost(D, K, top, root) /\ Lowmost(D, K, bottom, root)

Ordered(l, r, D, K, root, top, bottom) ==
    /\ Shape(l, r, D) /\ root \in TreeNodes \cup {NIL}
    /\ Sorted(l, r, D, K, Under(D, root))
    /\ \A n \in TreeNodes \ Under(D, root) : l[n] = NIL /\ r[n] = NIL
    /\ Ended(D, K, root, top, bottom)

\* Keys may change as long as they stay in order.
LEMMA Renamed ==
    ASSUME NEW l, NEW r, NEW D, NEW K, NEW root, NEW top, NEW bottom, Ordered(l, r, D, K, root, top, bottom),
           NEW J, \A m \in Under(D, root) : J[m] \in Int,
           \A m, n \in Under(D, root) : K[m] < K[n] => J[m] < J[n]
    PROVE  Ordered(l, r, D, J, root, top, bottom)
<1>1. Sorted(l, r, D, J, Under(D, root))
  <2>1. ASSUME NEW n \in Under(D, root)
        PROVE  /\ J[n] \in Int
               /\ \A m \in Under(D, l[n]) : J[m] < J[n]
               /\ \A m \in Under(D, r[n]) : J[n] < J[m]
    <3>1. root \in TreeNodes /\ Under(D, root) = D[root]
      BY DEF Ordered, Under
    <3>2. n \in TreeNodes /\ D[n] \subseteq D[root]
      BY <3>1, Below DEF Ordered
    <3>3. Under(D, l[n]) \subseteq D[root] /\ Under(D, r[n]) \subseteq D[root]
      BY <3>2, ShapeOf DEF Ordered
    <3>4. /\ \A m \in Under(D, l[n]) : K[m] < K[n]
          /\ \A m \in Under(D, r[n]) : K[n] < K[m]
      BY DEF Ordered, Sorted
    <3>5. QED
      BY <3>1, <3>3, <3>4
  <2>2. QED
    BY <2>1 DEF Sorted
<1>2. Ended(D, J, root, top, bottom)
  <2>1. ASSUME root # NIL PROVE Utmost(D, J, top, root) /\ Lowmost(D, J, bottom, root)
    <3>1. Under(D, root) = D[root]
      BY <2>1 DEF Under
    <3>2. Utmost(D, K, top, root) /\ Lowmost(D, K, bottom, root)
      BY <2>1 DEF Ordered, Ended
    <3>3. QED
      BY <3>1, <3>2 DEF Utmost, Lowmost
  <2>2. QED
    BY <2>1 DEF Ordered, Ended
<1>3. QED
  BY <1>1, <1>2 DEF Ordered

\* What a tree's nodes have, and what that means for the bag b.
KeyAt(data) == [n \in TreeNodes |-> TreeKey[data[n]]]
Typed(t) ==
    /\ IsTree(t) /\ t.nodes \in Int /\ t.duplicates \in Int
    /\ t.data \in [TreeNodes -> Tree!Data \cup {NIL}] /\ t.ref \in [TreeNodes -> Nat]
Bagged(S, K, ref, b) ==
    /\ b \in [Tree!Keys -> Nat]
    /\ \A n \in S : ref[n] = b[K[n]]
    /\ \A k \in Tree!Keys : b[k] > 0 => \E n \in S : K[n] = k
Valued(W, data, ref) == \A n \in W : data[n] \in Tree!Data /\ ref[n] > 0

Counts(s, t, i, j) == s.nodes = t.nodes + i /\ s.duplicates = t.duplicates + j
Plus(b, k, v) == [b EXCEPT ![k] = @ + v]

\* The tree t, whose nodes are below each other as D says, has the bag b, and h is with the caller.
Tidy(t, h, b, D) ==
    /\ Typed(t)
    /\ Ordered(t.left, t.right, D, KeyAt(t.data), t.root, t.top, t.bottom)
    /\ t.nodes = Cardinality(Under(D, t.root))
    /\ Bagged(Under(D, t.root), KeyAt(t.data), t.ref, b)
    /\ Valued(Under(D, t.root) \cup h, t.data, t.ref)
    /\ Owned(Under(D, t.root), t.recycle, h, t.free)

LEMMA KeyFacts ==
    ASSUME NEW d \in Tree!Data
    PROVE  TreeKey[d] \in Tree!Keys /\ TreeKey[d] \in Nat /\ d # NIL
BY TreeAssumption DEF Tree!Keys, Tree!Data

LEMMA InsideFinite ==
    ASSUME NEW l, NEW r, NEW D, NEW K, NEW root, NEW top, NEW bottom, Ordered(l, r, D, K, root, top, bottom)
    PROVE  /\ Under(D, root) \subseteq TreeNodes /\ IsFiniteSet(Under(D, root))
           /\ Cardinality(Under(D, root)) \in Nat
           /\ root = NIL => Under(D, root) = {}
           /\ root # NIL => root \in TreeNodes /\ Under(D, root) = D[root] /\ root \in D[root]
<1>1. root = NIL => Under(D, root) = {}
  BY DEF Under
<1>2. root # NIL => root \in TreeNodes /\ Under(D, root) = D[root]
  BY DEF Ordered, Under
<1>3. root # NIL => root \in D[root] /\ D[root] \subseteq TreeNodes
  BY <1>2, ShapeOf DEF Ordered
<1>4. Under(D, root) \subseteq TreeNodes
  BY <1>1, <1>2, <1>3
<1>5. IsFiniteSet(Under(D, root))
  BY <1>4, TreeAssumption, FS_Subset
<1>6. QED
  BY <1>1, <1>2, <1>3, <1>4, <1>5, FS_CardinalityType

\* The ends of a tree that is not empty are in it, and no end of an empty one is a node.
LEMMA EndsInside ==
    ASSUME NEW l, NEW r, NEW D, NEW K, NEW root, NEW top, NEW bottom, Ordered(l, r, D, K, root, top, bottom)
    PROVE  /\ top \in Under(D, root) \/ top \in {NIL, Tree!Dangling}
           /\ bottom \in Under(D, root) \/ bottom \in {NIL, Tree!Dangling}
           /\ root # NIL => top \in D[root] /\ bottom \in D[root]
<1>1. CASE root = NIL
  BY <1>1 DEF Ordered, Ended
<1>2. CASE root # NIL
  <2>1. Under(D, root) = D[root]
    BY <1>2 DEF Under
  <2>2. top \in D[root] /\ bottom \in D[root]
    BY <1>2 DEF Ordered, Ended, Utmost, Lowmost
  <2>3. QED
    BY <2>1, <2>2
<1>3. QED
  BY <1>1, <1>2

\* Fields of nodes that are not in the tree do not matter to it.
LEMMA SameInside ==
    ASSUME NEW t, NEW h, NEW b, NEW D, Tidy(t, h, b, D), NEW s, IsTree(s), s.root = t.root,
           s.top = t.top, s.bottom = t.bottom, s.nodes = t.nodes, s.duplicates = t.duplicates,
           s.left = t.left, s.right = t.right,
           s.data \in [TreeNodes -> Tree!Data \cup {NIL}], s.ref \in [TreeNodes -> Nat],
           NEW g, Owned(Under(D, t.root), s.recycle, g, s.free),
           \A n \in Under(D, t.root) : s.data[n] = t.data[n] /\ s.ref[n] = t.ref[n],
           Valued(g, s.data, s.ref)
    PROVE  Tidy(s, g, b, D)
<1>1. PICK S, K, J : S = Under(D, t.root) /\ K = KeyAt(t.data) /\ J = KeyAt(s.data)
  OBVIOUS
<1>2. S \subseteq TreeNodes
  BY <1>1, InsideFinite DEF Tidy
<1>3. \A n \in S : J[n] = K[n]
  BY <1>1, <1>2 DEF KeyAt
<1>4. \A n \in S : K[n] \in Int
  BY <1>1 DEF Tidy, Ordered, Sorted
<1>5. Ordered(t.left, t.right, D, K, t.root, t.top, t.bottom)
  BY <1>1 DEF Tidy
<1>6. Ordered(t.left, t.right, D, J, t.root, t.top, t.bottom)
  BY <1>1, <1>3, <1>4, <1>5, Renamed
<1>7. Bagged(S, J, s.ref, b)
  <2>1. Bagged(S, K, t.ref, b)
    BY <1>1 DEF Tidy
  <2>2. QED
    BY <1>1, <1>3, <2>1 DEF Bagged
<1>8. Valued(S \cup g, s.data, s.ref)
  <2>1. Valued(S, t.data, t.ref)
    BY <1>1 DEF Tidy, Valued
  <2>2. QED
    BY <1>1, <2>1 DEF Valued
<1>9. Typed(s)
  BY DEF Tidy, Typed
<1>10. s.nodes = Cardinality(S)
  BY <1>1 DEF Tidy
<1>11. QED
  BY <1>1, <1>6, <1>7, <1>8, <1>9, <1>10 DEF Tidy

\* A node of the caller's is trashed.
LEMMA CastOff ==
    ASSUME NEW t, NEW h, NEW b, NEW D, Tidy(t, h, b, D), NEW n \in h, NEW s, IsTree(s), s.root = t.root,
           s.top = t.top, s.bottom = t.bottom, s.nodes = t.nodes, s.duplicates = t.duplicates,
           s.left = t.left, s.right = t.right,
           s.data = [t.data EXCEPT ![n] = NIL], s.ref = [t.ref EXCEPT ![n] = 0],
           \/ s.recycle = t.recycle /\ s.free = t.free \cup {n}
           \/ s.recycle = Append(t.recycle, n) /\ s.free = t.free
    PROVE  Tidy(s, h \ {n}, b, D)
<1>1. PICK S : S = Under(D, t.root)
  OBVIOUS
<1>2. Owned(S, t.recycle, h, t.free) /\ Valued(S \cup h, t.data, t.ref)
  BY <1>1 DEF Tidy
<1>3. n \in TreeNodes /\ n \notin S /\ h \subseteq TreeNodes /\ S \subseteq TreeNodes
  BY <1>2 DEF Owned
<1>4. s.data \in [TreeNodes -> Tree!Data \cup {NIL}] /\ s.ref \in [TreeNodes -> Nat]
  BY <1>3 DEF Tidy, Typed
<1>5. \A m \in TreeNodes : m # n => s.data[m] = t.data[m] /\ s.ref[m] = t.ref[m]
  BY DEF Tidy, Typed
<1>6. \A m \in S : s.data[m] = t.data[m] /\ s.ref[m] = t.ref[m]
  BY <1>3, <1>5
<1>7. Valued(h \ {n}, s.data, s.ref)
  BY <1>2, <1>3, <1>5 DEF Valued
<1>8. Owned(S, s.recycle, h \ {n}, s.free)
  <2>1. Owned(S, t.recycle, h \ {n}, t.free \cup {n}) /\ Owned(S, Append(t.recycle, n), h \ {n}, t.free)
    BY <1>2, OwnedMoves
  <2>2. QED
    BY <2>1
<1>9. QED
  BY <1>1, <1>4, <1>6, <1>7, <1>8, SameInside

\* What Trash does to the fields: u has the ends.
Trashed(s, t, n, u) ==
    /\ IsTree(s) /\ s.root = t.root /\ s.nodes = t.nodes /\ s.duplicates = t.duplicates
    /\ s.top = u.top /\ s.bottom = u.bottom
    /\ s.data = [t.data EXCEPT ![n] = NIL] /\ s.ref = [t.ref EXCEPT ![n] = 0]
    /\ s.left = [t.left EXCEPT ![n] = NIL] /\ s.right = [t.right EXCEPT ![n] = NIL]
    /\ \/ s.recycle = t.recycle /\ s.free = t.free \cup {n}
       \/ s.recycle = Append(t.recycle, n) /\ s.free = t.free

LEMMA TrashIs ==
    ASSUME NEW t, IsTree(t), NEW n, NEW s, s = Tree!Trash(t, n),
           NEW u, u = Tree!RefreshBottom(Tree!RefreshTop(t, n), n)
    PROVE  Trashed(s, t, n, u)
<1>1. PICK v : v = Tree!RefreshTop(t, n)
  OBVIOUS
<1>2. IsTree(v) /\ ButEnds(v, t)
  BY <1>1, RefreshTopIs
<1>3. IsTree(u) /\ ButEnds(u, v)
  BY <1>1, <1>2, RefreshBottomIs
<1>4. PICK w : w = [u EXCEPT !.data[n] = NIL, !.ref[n] = 0, !.left[n] = NIL, !.right[n] = NIL]
  OBVIOUS
<1>5. w = [root |-> u.root, top |-> u.top, bottom |-> u.bottom, nodes |-> u.nodes, duplicates |-> u.duplicates,
           recycle |-> u.recycle, free |-> u.free, data |-> [u.data EXCEPT ![n] = NIL],
           ref |-> [u.ref EXCEPT ![n] = 0], left |-> [u.left EXCEPT ![n] = NIL],
           right |-> [u.right EXCEPT ![n] = NIL]]
  BY <1>3, <1>4 DEF IsTree
<1>6. /\ IsTree(w) /\ w.root = t.root /\ w.nodes = t.nodes /\ w.duplicates = t.duplicates
      /\ w.top = u.top /\ w.bottom = u.bottom /\ w.recycle = t.recycle /\ w.free = t.free
      /\ w.data = [t.data EXCEPT ![n] = NIL] /\ w.ref = [t.ref EXCEPT ![n] = 0]
      /\ w.left = [t.left EXCEPT ![n] = NIL] /\ w.right = [t.right EXCEPT ![n] = NIL]
  BY <1>2, <1>3, <1>5 DEF IsTree, ButEnds
<1>7. PICK f, q : f = w.free \cup {n} /\ q = Append(w.recycle, n)
  OBVIOUS
<1>8. s = [w EXCEPT !.free = f] \/ s = [w EXCEPT !.recycle = q]
  BY <1>1, <1>4, <1>7 DEF Tree!Trash
<1>9. CASE s = [w EXCEPT !.free = f]
  <2>1. s = [root |-> w.root, top |-> w.top, bottom |-> w.bottom, nodes |-> w.nodes, duplicates |-> w.duplicates,
             recycle |-> w.recycle, free |-> f, data |-> w.data, ref |-> w.ref, left |-> w.left, right |-> w.right]
    BY <1>6, <1>9 DEF IsTree
  <2>2. QED
    BY <1>6, <1>7, <2>1 DEF IsTree, Trashed
<1>10. CASE s = [w EXCEPT !.recycle = q]
  <2>1. s = [root |-> w.root, top |-> w.top, bottom |-> w.bottom, nodes |-> w.nodes, duplicates |-> w.duplicates,
             recycle |-> q, free |-> w.free, data |-> w.data, ref |-> w.ref, left |-> w.left, right |-> w.right]
    BY <1>6, <1>10 DEF IsTree
  <2>2. QED
    BY <1>6, <1>7, <2>1 DEF IsTree, Trashed
<1>11. QED
  BY <1>8, <1>9, <1>10

LEMMA TrashKept ==
    ASSUME NEW t, NEW h, NEW b, NEW D, Tidy(t, h, b, D), NEW n \in h, NEW s, s = Tree!Trash(t, n),
           NEW g, g = h \ {n}
    PROVE  /\ Tidy(s, g, b, D) /\ Counts(s, t, 0, 0) /\ s.root = t.root
           /\ s.top = t.top /\ s.bottom = t.bottom
           /\ \A m \in TreeNodes \ {n} : s.data[m] = t.data[m] /\ s.ref[m] = t.ref[m]
<1>1. Owned(Under(D, t.root), t.recycle, h, t.free) /\ IsTree(t)
  BY DEF Tidy, Typed
<1>2. n \in TreeNodes /\ n \notin Under(D, t.root)
  BY <1>1 DEF Owned
<1>3. n # t.top /\ n # t.bottom
  BY <1>2, EndsInside, TreeAssumption DEF Tidy
<1>4. Tree!RefreshTop(t, n) = t
  BY <1>3 DEF Tree!RefreshTop
<1>5. Tree!RefreshBottom(t, n) = t
  BY <1>3 DEF Tree!RefreshBottom
<1>6. PICK u : u = Tree!RefreshBottom(Tree!RefreshTop(t, n), n)
  OBVIOUS
<1>7. Trashed(s, t, n, u)
  BY <1>1, <1>6, TrashIs
<1>8. u = t
  BY <1>4, <1>5, <1>6
<1>9. Trashed(s, t, n, t)
  BY <1>7, <1>8
<1>10. s.left = t.left /\ s.right = t.right
  <2>1. /\ t.left \in [TreeNodes -> TreeNodes \cup {NIL}] /\ t.right \in [TreeNodes -> TreeNodes \cup {NIL}]
        /\ t.left[n] = NIL /\ t.right[n] = NIL
    BY <1>2 DEF Tidy, Ordered, Shape
  <2>2. QED
    BY <1>9, <2>1 DEF Trashed
<1>11. Tidy(s, h \ {n}, b, D)
  BY <1>9, <1>10, CastOff DEF Trashed
<1>12. \A m \in TreeNodes \ {n} : s.data[m] = t.data[m] /\ s.ref[m] = t.ref[m]
  BY <1>9 DEF Tidy, Typed, Trashed
<1>13. Counts(s, t, 0, 0)
  BY <1>9 DEF Trashed, Counts, Tidy, Typed
<1>14. QED
  BY <1>9, <1>11, <1>12, <1>13 DEF Trashed

LEMMA MakeKept ==
    ASSUME NEW t, NEW h, NEW b, NEW D, Tidy(t, h, b, D), NEW d \in Tree!Data, NEW n \in Tree!Fresh(t),
           NEW s, s = Tree!Make(t, n, d), NEW g, g = h \cup {n}
    PROVE  /\ Tidy(s, g, b, D) /\ Counts(s, t, 0, 0)
           /\ s.data[n] = d /\ s.ref[n] = 1
<1>1. PICK S, q, f : S = Under(D, t.root) /\ q = t.recycle /\ f = t.free
  OBVIOUS
<1>2. Owned(S, q, h, f) /\ Valued(S \cup h, t.data, t.ref) /\ IsTree(t)
  BY <1>1 DEF Tidy, Typed
<1>3. \/ q # << >> /\ n = Head(q)
      \/ q = << >> /\ n \in f
  BY <1>1 DEF Tree!Fresh
<1>4. PICK q2, f2 : /\ q2 = IF q # << >> THEN Tail(q) ELSE q
                    /\ f2 = IF q # << >> THEN f ELSE f \ {n}
  OBVIOUS
<1>5. Owned(S, q2, h \cup {n}, f2)
  BY <1>2, <1>3, <1>4, OwnedMoves
<1>6. n \in TreeNodes /\ n \notin S /\ h \subseteq TreeNodes /\ S \subseteq TreeNodes
  <2>1. n \in h \cup {n}
    OBVIOUS
  <2>2. n \in TreeNodes /\ n \notin S /\ S \subseteq TreeNodes
    BY <1>5, <2>1 DEF Owned
  <2>3. h \subseteq TreeNodes
    BY <1>2 DEF Owned
  <2>4. QED
    BY <2>2, <2>3
<1>7. PICK w : w = IF q # << >> THEN [t EXCEPT !.recycle = Tail(@)] ELSE [t EXCEPT !.free = @ \ {n}]
  OBVIOUS
<1>8. w = [root |-> t.root, top |-> t.top, bottom |-> t.bottom, nodes |-> t.nodes, duplicates |-> t.duplicates,
           recycle |-> q2, free |-> f2, data |-> t.data, ref |-> t.ref, left |-> t.left, right |-> t.right]
  <2>1. CASE q # << >>
    <3>1. w = [t EXCEPT !.recycle = q2] /\ f2 = t.free
      BY <1>1, <1>4, <1>7, <2>1
    <3>2. QED
      BY <1>2, <3>1 DEF IsTree
  <2>2. CASE q = << >>
    <3>1. w = [t EXCEPT !.free = f2] /\ q2 = t.recycle
      BY <1>1, <1>4, <1>7, <2>2
    <3>2. QED
      BY <1>2, <3>1 DEF IsTree
  <2>3. QED
    BY <2>1, <2>2
<1>9. s = [w EXCEPT !.data[n] = d, !.ref[n] = 1]
  BY <1>1, <1>7 DEF Tree!Make
<1>10. PICK J, R : J = [t.data EXCEPT ![n] = d] /\ R = [t.ref EXCEPT ![n] = 1]
  OBVIOUS
<1>11. s = [root |-> t.root, top |-> t.top, bottom |-> t.bottom, nodes |-> t.nodes, duplicates |-> t.duplicates,
            recycle |-> q2, free |-> f2, data |-> J, ref |-> R, left |-> t.left, right |-> t.right]
  BY <1>8, <1>9, <1>10
<1>12. /\ IsTree(s) /\ s.root = t.root /\ s.top = t.top /\ s.bottom = t.bottom
       /\ s.nodes = t.nodes /\ s.duplicates = t.duplicates /\ s.left = t.left /\ s.right = t.right
       /\ s.recycle = q2 /\ s.free = f2 /\ s.data = J /\ s.ref = R
  BY <1>11 DEF IsTree
<1>13. J \in [TreeNodes -> Tree!Data \cup {NIL}] /\ R \in [TreeNodes -> Nat] /\ J[n] = d /\ R[n] = 1
  BY <1>6, <1>10 DEF Tidy, Typed
<1>14. \A m \in TreeNodes : m # n => J[m] = t.data[m] /\ R[m] = t.ref[m]
  BY <1>10 DEF Tidy, Typed
<1>15. \A m \in S : J[m] = t.data[m] /\ R[m] = t.ref[m]
  BY <1>6, <1>14
<1>16. Valued(h \cup {n}, J, R)
  BY <1>2, <1>6, <1>13, <1>14 DEF Valued
<1>17. Tidy(s, h \cup {n}, b, D)
  BY <1>1, <1>5, <1>12, <1>13, <1>15, <1>16, SameInside
<1>18. Counts(s, t, 0, 0)
  BY <1>12 DEF Counts, Tidy, Typed
<1>19. QED
  BY <1>12, <1>13, <1>17, <1>18

\* Where a search in a tree ends.
LEMMA SearchIs ==
    ASSUME NEW t, NEW h, NEW b, NEW D, Tidy(t, h, b, D), NEW d \in Tree!Data,
           NEW p, p = Tree!Path(t, TreeKey, d), NEW L, L = p[Len(p)], NEW K, K = KeyAt(t.data)
    PROVE  /\ t.root = NIL => p = << >> /\ ~ Tree!Found(t, TreeKey, d)
           /\ t.root # NIL => /\ p # << >> /\ Led(p, t.left, t.right, D, t.root) /\ L \in D[t.root]
                              /\ Landed(L, t.left, t.right, D, K, TreeKey[d], t.root)
                              /\ Tree!Found(t, TreeKey, d) <=> K[L] = TreeKey[d]
<1>1. CASE t.root = NIL
  <2>1. p = << >>
    BY <1>1 DEF Tree!Path
  <2>2. QED
    BY <1>1, <2>1 DEF Tree!Found
<1>2. CASE t.root # NIL
  <2>1. /\ Shape(t.left, t.right, D) /\ t.root \in TreeNodes /\ Under(D, t.root) = D[t.root]
        /\ Sorted(t.left, t.right, D, K, D[t.root])
    BY <1>2 DEF Tidy, Ordered, Under
  <2>2. \A n \in TreeNodes : K[n] = TreeKey[t.data[n]]
    BY DEF KeyAt
  <2>3. TreeKey[d] \in Int
    BY KeyFacts
  <2>4. Led(p, t.left, t.right, D, t.root) /\ Landed(p[Len(p)], t.left, t.right, D, K, TreeKey[d], t.root)
    BY <2>1, <2>2, <2>3, PathIs
  <2>5. p # << >>
    BY <2>4 DEF Led
  <2>6. L \in D[t.root] /\ L \in TreeNodes
    <3>1. L \in D[t.root]
      BY <2>4 DEF Landed
    <3>2. QED
      BY <2>1, <3>1, Below
  <2>7. Tree!Found(t, TreeKey, d) <=> K[L] = TreeKey[d]
    BY <2>2, <2>5, <2>6 DEF Tree!Found
  <2>8. QED
    BY <1>2, <2>4, <2>5, <2>6, <2>7
<1>3. QED
  BY <1>1, <1>2

\* A node that is in the tree moves no end.
LEMMA EndsStay ==
    ASSUME NEW t, NEW h, NEW b, NEW D, Tidy(t, h, b, D), NEW L \in Under(D, t.root)
    PROVE  Tree!Ends(t, TreeKey, L) = t
<1>1. t.root # NIL /\ t.root \in TreeNodes
  BY DEF Tidy, Ordered, Under
<1>2. PICK S, K : S = D[t.root] /\ K = KeyAt(t.data)
  OBVIOUS
<1>3. S = Under(D, t.root) /\ S \subseteq TreeNodes /\ IsFiniteSet(S) /\ t.nodes = Cardinality(S) /\ L \in S
  BY <1>1, <1>2, InsideFinite DEF Tidy
<1>4. /\ t.top \in S /\ \A y \in S : y = t.top \/ K[y] < K[t.top]
      /\ t.bottom \in S /\ \A y \in S : y = t.bottom \/ K[t.bottom] < K[y]
  BY <1>1, <1>2 DEF Tidy, Ordered, Ended, Utmost, Lowmost
<1>5. \A y \in S : K[y] = TreeKey[t.data[y]] /\ K[y] \in Int
  BY <1>1, <1>2, <1>3 DEF KeyAt, Tidy, Ordered, Sorted
<1>6. CASE t.nodes = 1
  <2>1. S = {L}
    <3>1. PICK x : S = {x}
      BY <1>3, <1>6, FS_Singleton
    <3>2. QED
      BY <1>3, <3>1
  <2>2. t.top = L /\ t.bottom = L
    BY <1>4, <2>1
  <2>3. [t EXCEPT !.top = L, !.bottom = L] = t
    BY <2>2 DEF Tidy, Typed, IsTree
  <2>4. QED
    BY <1>6, <2>3 DEF Tree!Ends
<1>7. CASE t.nodes # 1
  <2>1. ~ (TreeKey[t.data[t.top]] < TreeKey[t.data[L]]) /\ ~ (TreeKey[t.data[L]] < TreeKey[t.data[t.bottom]])
    BY <1>3, <1>4, <1>5
  <2>2. QED
    BY <1>7, <2>1 DEF Tree!Ends
<1>8. QED
  BY <1>6, <1>7

-----------------------------------------------------------------------------
(***************************************************************************)
(* Insertion.                                                              *)
(***************************************************************************)

\* A node is merged into the one that has its key.
Merged(t, n, L) == [t EXCEPT !.ref[L] = @ + t.ref[n], !.data[L] = t.data[n], !.duplicates = @ + 1]

LEMMA MergeKept ==
    ASSUME NEW t, NEW h, NEW b, NEW D, Tidy(t, h, b, D), NEW n \in h,
           NEW L \in Under(D, t.root), TreeKey[t.data[L]] = TreeKey[t.data[n]],
           NEW s, s = Tree!Trash(Merged(t, n, L), n),
           NEW g, g = h \ {n}, NEW c, c = Plus(b, TreeKey[t.data[n]], t.ref[n])
    PROVE  /\ Tidy(s, g, c, D)
           /\ Counts(s, t, 0, 1) /\ s.root = t.root
<1>1. PICK S, K, k : S = Under(D, t.root) /\ K = KeyAt(t.data) /\ k = TreeKey[t.data[n]]
  OBVIOUS
<1>2. PICK w : w = Merged(t, n, L)
  OBVIOUS
<1>3. PICK J, R : J = [t.data EXCEPT ![L] = t.data[n]] /\ R = [t.ref EXCEPT ![L] = t.ref[L] + t.ref[n]]
  OBVIOUS
<1>4. Typed(t) /\ IsTree(t) /\ Owned(S, t.recycle, h, t.free) /\ Valued(S \cup h, t.data, t.ref)
  BY <1>1 DEF Tidy, Typed
<1>5. w = [root |-> t.root, top |-> t.top, bottom |-> t.bottom, nodes |-> t.nodes,
           duplicates |-> t.duplicates + 1, recycle |-> t.recycle, free |-> t.free, data |-> J, ref |-> R,
           left |-> t.left, right |-> t.right]
  BY <1>2, <1>3, <1>4 DEF IsTree, Merged
<1>6. /\ IsTree(w) /\ w.root = t.root /\ w.top = t.top /\ w.bottom = t.bottom
      /\ w.nodes = t.nodes /\ w.duplicates = t.duplicates + 1 /\ w.left = t.left /\ w.right = t.right
      /\ w.recycle = t.recycle /\ w.free = t.free /\ w.data = J /\ w.ref = R
  BY <1>5 DEF IsTree
<1>7. S \subseteq TreeNodes /\ L \in S /\ L \in TreeNodes /\ n \in TreeNodes /\ n \notin S /\ h \subseteq TreeNodes
      /\ L \notin h
  BY <1>1, <1>4 DEF Owned
<1>8. t.data[n] \in Tree!Data /\ t.ref[n] > 0 /\ t.ref[n] \in Nat /\ t.ref[L] \in Nat /\ t.ref[L] > 0
  BY <1>4, <1>7 DEF Typed, Valued
<1>9. J \in [TreeNodes -> Tree!Data \cup {NIL}] /\ R \in [TreeNodes -> Nat]
  BY <1>3, <1>4, <1>7, <1>8 DEF Typed
<1>10. \A m \in TreeNodes : /\ m # L => J[m] = t.data[m] /\ R[m] = t.ref[m]
                            /\ J[L] = t.data[n] /\ R[L] = t.ref[L] + t.ref[n]
  BY <1>3, <1>4, <1>7 DEF Typed
<1>11. \A m \in TreeNodes : K[m] = TreeKey[t.data[m]] /\ KeyAt(J)[m] = TreeKey[J[m]]
  BY <1>1 DEF KeyAt
<1>12. \A m \in S : KeyAt(J)[m] = K[m]
  BY <1>7, <1>10, <1>11
<1>13. K[L] = k /\ k \in Tree!Keys
  BY <1>1, <1>7, <1>8, <1>11, KeyFacts
<1>14. Ordered(t.left, t.right, D, K, t.root, t.top, t.bottom)
  BY <1>1 DEF Tidy
<1>15. \A m \in S : KeyAt(J)[m] \in Int
  BY <1>1, <1>12, <1>14 DEF Ordered, Sorted
<1>16. Ordered(t.left, t.right, D, KeyAt(J), t.root, t.top, t.bottom)
  BY <1>1, <1>12, <1>14, <1>15, Renamed
<1>17. \A m \in S : m # L => K[m] # k
  <2>1. t.root \in TreeNodes /\ S = D[t.root]
    BY <1>1, <1>14 DEF Ordered, Under
  <2>2. Shape(t.left, t.right, D) /\ Sorted(t.left, t.right, D, K, D[t.root])
    BY <1>1, <1>14, <2>1 DEF Ordered
  <2>3. QED
    BY <1>7, <1>13, <2>1, <2>2, KeysDiffer
<1>18. Bagged(S, KeyAt(J), R, c)
  <2>1. Bagged(S, K, t.ref, b)
    BY <1>1 DEF Tidy
  <2>2. c \in [Tree!Keys -> Nat] /\ \A j \in Tree!Keys : c[j] = IF j = k THEN b[k] + t.ref[n] ELSE b[j]
    BY <1>1, <1>8, <1>13, <2>1 DEF Bagged, Plus
  <2>3. \A m \in S : K[m] \in Tree!Keys
    BY <1>4, <1>7, <1>11, KeyFacts DEF Valued
  <2>4. \A m \in S : R[m] = c[K[m]]
    BY <1>7, <1>10, <1>13, <1>17, <2>1, <2>2, <2>3 DEF Bagged
  <2>5. ASSUME NEW j \in Tree!Keys, c[j] > 0 PROVE \E m \in S : K[m] = j
    BY <1>7, <1>13, <2>1, <2>2, <2>5 DEF Bagged
  <2>6. QED
    BY <1>12, <2>2, <2>4, <2>5 DEF Bagged
<1>19. Valued(S \cup h, J, R)
  BY <1>4, <1>7, <1>8, <1>10 DEF Valued
<1>20. Tidy(w, h, c, D)
  <2>1. Typed(w)
    BY <1>4, <1>6, <1>9 DEF Typed
  <2>2. w.nodes = Cardinality(S)
    BY <1>1, <1>6 DEF Tidy
  <2>3. QED
    BY <1>1, <1>4, <1>6, <1>16, <1>18, <1>19, <2>1, <2>2 DEF Tidy
<1>21. Tidy(s, g, c, D) /\ Counts(s, w, 0, 0) /\ s.root = w.root
  <2>1. s = Tree!Trash(w, n)
    BY <1>2
  <2>2. QED
    BY <1>20, <2>1, TrashKept
<1>22. Counts(s, t, 0, 1)
  BY <1>4, <1>6, <1>21 DEF Counts, Typed
<1>23. QED
  BY <1>6, <1>21, <1>22

LEMMA Outside ==
    ASSUME NEW l, NEW r, NEW D, NEW K, NEW root, NEW top, NEW bottom, Ordered(l, r, D, K, root, top, bottom),
           NEW n \in TreeNodes \ Under(D, root)
    PROVE  /\ l[n] = NIL /\ r[n] = NIL /\ D[n] = {n}
           /\ \A m \in TreeNodes : m # n => n \notin D[m]
<1>1. \A m \in TreeNodes \ Under(D, root) : l[m] = NIL /\ r[m] = NIL /\ D[m] = {m}
  <2>1. ASSUME NEW m \in TreeNodes \ Under(D, root) PROVE l[m] = NIL /\ r[m] = NIL /\ D[m] = {m}
    <3>1. l[m] = NIL /\ r[m] = NIL
      BY DEF Ordered
    <3>2. D[m] = {m} \cup Under(D, l[m]) \cup Under(D, r[m])
      BY ShapeOf DEF Ordered
    <3>3. QED
      BY <3>1, <3>2 DEF Under
  <2>2. QED
    BY <2>1
<1>2. ASSUME NEW m \in TreeNodes, m # n PROVE n \notin D[m]
  <2>1. CASE m \in Under(D, root)
    <3>1. root \in TreeNodes /\ Under(D, root) = D[root]
      BY <2>1 DEF Ordered, Under
    <3>2. D[m] \subseteq D[root]
      BY <2>1, <3>1, Below DEF Ordered
    <3>3. QED
      BY <3>1, <3>2
  <2>2. CASE m \notin Under(D, root)
    BY <1>1, <1>2, <2>2
  <2>3. QED
    BY <2>1, <2>2
<1>3. QED
  BY <1>1, <1>2

\* A new node is under L, at the side that its key is at.
Hangs(l, r, E, K, root, S, n) ==
    /\ Shape(l, r, E) /\ Sorted(l, r, E, K, S \cup {n}) /\ E[root] = S \cup {n}
    /\ \A m \in TreeNodes \ (S \cup {n}) : l[m] = NIL /\ r[m] = NIL

LEMMA HangsLeft ==
    ASSUME NEW l, NEW r, NEW D, NEW K, NEW root, NEW top, NEW bottom, Ordered(l, r, D, K, root, top, bottom),
           root # NIL, NEW n \in TreeNodes \ D[root], K[n] \in Int,
           NEW L, Landed(L, l, r, D, K, K[n], root), K[n] < K[L]
    PROVE  Hangs([l EXCEPT ![L] = n], r, Grown(D, L, n), K, root, D[root], n)
<1>1. root \in TreeNodes /\ Under(D, root) = D[root] /\ D[root] \subseteq TreeNodes
  BY InsideFinite
<1>2. L \in D[root] /\ L \in TreeNodes /\ L # n /\ K[L] \in Int
  BY <1>1 DEF Landed, Ordered, Sorted
<1>3. l[n] = NIL /\ r[n] = NIL /\ \A m \in TreeNodes : m # n => n \notin D[m]
  BY <1>1, Outside
<1>4. l[L] = NIL
  BY <1>2 DEF Landed, Toward
<1>5. Shape(l, r, D) /\ Sorted(l, r, D, K, D[root])
  BY <1>1 DEF Ordered
<1>6. Shape([l EXCEPT ![L] = n], r, Grown(D, L, n))
  BY <1>2, <1>3, <1>4, <1>5, GrownShape
<1>7. Sorted([l EXCEPT ![L] = n], r, Grown(D, L, n), K, D[root] \cup {n})
  BY <1>1, <1>3, <1>4, <1>5, GrownSorted
<1>8. Grown(D, L, n)[root] = D[root] \cup {n}
  BY <1>1, <1>2 DEF Grown
<1>9. ASSUME NEW m \in TreeNodes \ (D[root] \cup {n}) PROVE [l EXCEPT ![L] = n][m] = NIL /\ r[m] = NIL
  <2>1. l[m] = NIL /\ r[m] = NIL /\ m # L /\ l \in [TreeNodes -> TreeNodes \cup {NIL}]
    BY <1>1, <1>2 DEF Ordered, Shape
  <2>2. QED
    BY <2>1
<1>10. QED
  BY <1>6, <1>7, <1>8, <1>9 DEF Hangs

LEMMA HangsRight ==
    ASSUME NEW l, NEW r, NEW D, NEW K, NEW root, NEW top, NEW bottom, Ordered(l, r, D, K, root, top, bottom),
           root # NIL, NEW n \in TreeNodes \ D[root], K[n] \in Int,
           NEW L, Landed(L, l, r, D, K, K[n], root), K[L] < K[n]
    PROVE  Hangs(l, [r EXCEPT ![L] = n], Grown(D, L, n), K, root, D[root], n)
<1>1. PICK N : N = [m \in TreeNodes |-> - K[m]]
  OBVIOUS
<1>2. root \in TreeNodes /\ Under(D, root) = D[root] /\ D[root] \subseteq TreeNodes
  BY InsideFinite
<1>3. \A m \in D[root] \cup {n} : K[m] \in Int /\ N[m] = - K[m] /\ N[m] \in Int
  BY <1>1, <1>2 DEF Ordered, Sorted
<1>4. L \in D[root] /\ L \in TreeNodes
  BY <1>2 DEF Landed
<1>5. \A m \in D[root] : Under(D, l[m]) \subseteq D[root] /\ Under(D, r[m]) \subseteq D[root]
  <2>1. ASSUME NEW m \in D[root] PROVE Under(D, l[m]) \subseteq D[root] /\ Under(D, r[m]) \subseteq D[root]
    <3>1. m \in TreeNodes /\ D[m] \subseteq D[root]
      BY <1>2, Below DEF Ordered
    <3>2. Under(D, l[m]) \subseteq D[m] /\ Under(D, r[m]) \subseteq D[m]
      BY <3>1, ShapeOf DEF Ordered
    <3>3. QED
      BY <3>1, <3>2
  <2>2. QED
    BY <2>1
<1>6. Sorted(r, l, D, N, D[root])
  <2>1. Sorted(l, r, D, K, D[root])
    BY <1>2 DEF Ordered
  <2>2. QED
    BY <1>3, <1>5, <2>1 DEF Sorted
<1>7. Ended(D, N, root, bottom, top)
  BY <1>3 DEF Ordered, Ended, Utmost, Lowmost
<1>8. Ordered(r, l, D, N, root, bottom, top)
  BY <1>2, <1>6, <1>7, Mirror DEF Ordered
<1>9. Landed(L, r, l, D, N, N[n], root)
  <2>1. N[n] < N[L] /\ N[L] # N[n]
    BY <1>3, <1>4
  <2>2. Toward(r, l, N, N[n], L) = NIL
    <3>1. Toward(l, r, K, K[n], L) = NIL
      BY <1>3, <1>4 DEF Landed
    <3>2. QED
      BY <1>3, <1>4, <2>1, <3>1 DEF Toward
  <2>3. ASSUME NEW x \in D[root], N[x] = N[n] PROVE FALSE
    <3>1. K[x] = K[n]
      BY <1>3, <2>3
    <3>2. K[L] = K[n]
      BY <3>1 DEF Landed
    <3>3. QED
      BY <1>3, <1>4, <3>2
  <2>4. \A m \in D[root] : (L \in Under(D, r[m]) => N[n] < N[m]) /\ (L \in Under(D, l[m]) => N[m] < N[n])
    BY <1>3 DEF Landed
  <2>5. QED
    BY <1>4, <2>2, <2>3, <2>4 DEF Landed
<1>10. N[n] \in Int /\ N[n] < N[L]
  BY <1>3, <1>4
<1>11. PICK r2, E, S : r2 = [r EXCEPT ![L] = n] /\ E = Grown(D, L, n) /\ S = D[root]
  OBVIOUS
<1>12. Hangs(r2, l, E, N, root, S, n)
  BY <1>8, <1>9, <1>10, <1>11, HangsLeft
<1>13. Shape(l, r2, E)
  BY <1>12, Mirror DEF Hangs
<1>14. Sorted(l, r2, E, K, S \cup {n})
  <2>1. Sorted(r2, l, E, N, S \cup {n}) /\ E[root] = S \cup {n}
    BY <1>12 DEF Hangs
  <2>2. \A m \in S \cup {n} : Under(E, l[m]) \subseteq S \cup {n} /\ Under(E, r2[m]) \subseteq S \cup {n}
    <3>1. ASSUME NEW m \in E[root] PROVE Under(E, l[m]) \subseteq E[root] /\ Under(E, r2[m]) \subseteq E[root]
      <4>1. m \in TreeNodes /\ E[m] \subseteq E[root]
        BY <1>2, <1>13, Below
      <4>2. Under(E, l[m]) \subseteq E[m] /\ Under(E, r2[m]) \subseteq E[m]
        BY <1>13, <4>1, ShapeOf
      <4>3. QED
        BY <4>1, <4>2
    <3>2. QED
      BY <2>1, <3>1
  <2>3. \A m \in S \cup {n} : K[m] \in Int /\ N[m] = - K[m]
    BY <1>3, <1>11
  <2>4. QED
    BY <2>1, <2>2, <2>3 DEF Sorted
<1>15. Hangs(l, r2, E, K, root, S, n)
  BY <1>12, <1>13, <1>14 DEF Hangs
<1>16. QED
  BY <1>11, <1>15

NewKey(K, S, n) == K[n] \in Int /\ \A y \in S : K[y] # K[n]

\* A node of the caller's is linked into the tree.
LEMMA LinkedKept ==
    ASSUME NEW t, NEW h, NEW b, NEW D, Tidy(t, h, b, D), NEW n \in h, NEW K, K = KeyAt(t.data),
           \A y \in Under(D, t.root) : K[y] # K[n],
           NEW s, NEW E, IsTree(s), Ordered(s.left, s.right, E, K, s.root, s.top, s.bottom),
           Under(E, s.root) = Under(D, t.root) \cup {n},
           s.nodes = t.nodes + 1, s.duplicates = t.duplicates, s.recycle = t.recycle, s.free = t.free,
           s.data = t.data, s.ref = t.ref,
           NEW g, g = h \ {n}, NEW c, c = Plus(b, TreeKey[t.data[n]], t.ref[n])
    PROVE  Tidy(s, g, c, E)
<1>1. PICK S, k : S = Under(D, t.root) /\ k = TreeKey[t.data[n]]
  OBVIOUS
<1>2. Typed(t) /\ Owned(S, t.recycle, h, t.free) /\ Valued(S \cup h, t.data, t.ref) /\ Bagged(S, K, t.ref, b)
  BY <1>1 DEF Tidy
<1>3. S \subseteq TreeNodes /\ n \in TreeNodes /\ n \notin S /\ IsFiniteSet(S) /\ t.nodes = Cardinality(S)
  BY <1>1, <1>2, InsideFinite DEF Tidy, Owned
<1>4. Typed(s)
  BY <1>2 DEF Typed
<1>5. s.nodes = Cardinality(S \cup {n})
  <2>1. Cardinality(S \cup {n}) = Cardinality(S) + 1
    BY <1>3, FS_AddElement
  <2>2. QED
    BY <1>3, <2>1
<1>6. t.data[n] \in Tree!Data /\ t.ref[n] \in Nat /\ t.ref[n] > 0
  BY <1>2, <1>3 DEF Valued, Typed
<1>7. K[n] = k /\ k \in Tree!Keys
  BY <1>1, <1>3, <1>6, KeyFacts DEF KeyAt
<1>8. \A m \in S : K[m] \in Tree!Keys /\ K[m] # k
  <2>1. ASSUME NEW m \in S PROVE K[m] \in Tree!Keys /\ K[m] # k
    <3>1. m \in TreeNodes /\ t.data[m] \in Tree!Data
      BY <1>2, <1>3 DEF Valued
    <3>2. K[m] = TreeKey[t.data[m]]
      BY <3>1 DEF KeyAt
    <3>3. QED
      BY <1>1, <1>7, <3>1, <3>2, KeyFacts
  <2>2. QED
    BY <2>1
<1>9. b[k] = 0
  BY <1>2, <1>7, <1>8 DEF Bagged
<1>10. Bagged(S \cup {n}, K, t.ref, c)
  <2>1. c \in [Tree!Keys -> Nat] /\ \A j \in Tree!Keys : c[j] = IF j = k THEN t.ref[n] ELSE b[j]
    BY <1>1, <1>2, <1>6, <1>7, <1>9 DEF Bagged, Plus
  <2>2. \A m \in S \cup {n} : t.ref[m] = c[K[m]]
    BY <1>2, <1>7, <1>8, <2>1 DEF Bagged
  <2>3. \A j \in Tree!Keys : c[j] > 0 => \E m \in S \cup {n} : K[m] = j
    BY <1>2, <1>7, <2>1 DEF Bagged
  <2>4. QED
    BY <2>1, <2>2, <2>3 DEF Bagged
<1>11. Valued(S \cup {n} \cup (h \ {n}), t.data, t.ref)
  BY <1>2 DEF Valued
<1>12. Owned(S \cup {n}, t.recycle, h \ {n}, t.free)
  BY <1>2, OwnedMoves
<1>13. QED
  BY <1>1, <1>4, <1>5, <1>10, <1>11, <1>12 DEF Tidy

\* The greatest and the smallest when n was added.
LEMMA EndsGrow ==
    ASSUME NEW D, NEW E, NEW K, NEW root, NEW top, NEW bottom, NEW n,
           Utmost(D, K, top, root), Lowmost(D, K, bottom, root), E[root] = D[root] \cup {n},
           \A y \in D[root] \cup {n} : K[y] \in Int, \A y \in D[root] : K[y] # K[n]
    PROVE  /\ K[top] < K[n] => Utmost(E, K, n, root) /\ Lowmost(E, K, bottom, root)
           /\ ~ (K[top] < K[n]) => Utmost(E, K, top, root)
           /\ K[n] < K[bottom] => Lowmost(E, K, n, root)
           /\ ~ (K[n] < K[bottom]) => Lowmost(E, K, bottom, root)
<1>1. /\ top \in D[root] /\ \A y \in D[root] : y = top \/ K[y] < K[top]
      /\ bottom \in D[root] /\ \A y \in D[root] : y = bottom \/ K[bottom] < K[y]
  BY DEF Utmost, Lowmost
<1>2. K[top] < K[n] => Utmost(E, K, n, root)
  BY <1>1 DEF Utmost
<1>3. ~ (K[top] < K[n]) => Utmost(E, K, top, root)
  BY <1>1 DEF Utmost
<1>4. K[n] < K[bottom] => Lowmost(E, K, n, root)
  BY <1>1 DEF Lowmost
<1>5. ~ (K[n] < K[bottom]) => Lowmost(E, K, bottom, root)
  BY <1>1 DEF Lowmost
<1>6. K[top] < K[n] => ~ (K[n] < K[bottom])
  BY <1>1
<1>7. QED
  BY <1>2, <1>3, <1>4, <1>5, <1>6

\* A record with n under L and then its ends.
Longer(u, t) ==
    /\ IsTree(u) /\ u.root = t.root /\ u.top = t.top /\ u.bottom = t.bottom
    /\ u.nodes = t.nodes + 1 /\ u.duplicates = t.duplicates /\ u.recycle = t.recycle /\ u.free = t.free
    /\ u.data = t.data /\ u.ref = t.ref

LEMMA LeafKept ==
    ASSUME NEW t, NEW h, NEW b, NEW D, Tidy(t, h, b, D), NEW n \in h, NEW K, K = KeyAt(t.data), t.root # NIL,
           NewKey(K, Under(D, t.root), n),
           NEW u, NEW E, Longer(u, t), Hangs(u.left, u.right, E, K, t.root, D[t.root], n),
           NEW s, s = Tree!Ends(u, TreeKey, n),
           NEW g, g = h \ {n}, NEW c, c = Plus(b, TreeKey[t.data[n]], t.ref[n])
    PROVE  Tidy(s, g, c, E) /\ Counts(s, t, 1, 0)
<1>1. PICK S : S = D[t.root]
  OBVIOUS
<1>2. /\ IsTree(u) /\ u.root = t.root /\ u.top = t.top /\ u.bottom = t.bottom
       /\ u.nodes = t.nodes + 1 /\ u.duplicates = t.duplicates /\ u.recycle = t.recycle /\ u.free = t.free
       /\ u.data = t.data /\ u.ref = t.ref
  BY DEF Longer
<1>3. K[n] \in Int /\ \A y \in Under(D, t.root) : K[y] # K[n]
  BY DEF NewKey
<1>4. /\ Under(D, t.root) = S /\ t.root \in S /\ t.root \in TreeNodes /\ S \subseteq TreeNodes
      /\ IsFiniteSet(S) /\ t.nodes = Cardinality(S) /\ t.nodes \in Nat
  BY <1>1, InsideFinite DEF Tidy
<1>5. t.nodes # 0
  BY <1>4, FS_EmptySet
<1>6. Owned(S, t.recycle, h, t.free)
  BY <1>4 DEF Tidy
<1>7. n \in TreeNodes /\ n \notin S
  BY <1>6 DEF Owned
<1>8. \A m \in TreeNodes : K[m] = TreeKey[t.data[m]]
  BY DEF KeyAt
<1>9. Utmost(D, K, t.top, t.root) /\ Lowmost(D, K, t.bottom, t.root) /\ Sorted(t.left, t.right, D, K, S)
  BY <1>4 DEF Tidy, Ordered, Ended
<1>10. t.top \in S /\ t.bottom \in S
  BY <1>1, <1>9 DEF Utmost, Lowmost
<1>11. /\ Shape(u.left, u.right, E) /\ Sorted(u.left, u.right, E, K, S \cup {n}) /\ E[t.root] = S \cup {n}
      /\ \A m \in TreeNodes \ (S \cup {n}) : u.left[m] = NIL /\ u.right[m] = NIL
  BY <1>1 DEF Hangs
<1>12. /\ K[t.top] < K[n] => Utmost(E, K, n, t.root) /\ Lowmost(E, K, t.bottom, t.root)
       /\ ~ (K[t.top] < K[n]) => Utmost(E, K, t.top, t.root)
       /\ K[n] < K[t.bottom] => Lowmost(E, K, n, t.root)
       /\ ~ (K[n] < K[t.bottom]) => Lowmost(E, K, t.bottom, t.root)
  <2>1. \A y \in S \cup {n} : K[y] \in Int
    BY <1>9, <1>3 DEF Sorted
  <2>2. PICK root, top, bottom : root = t.root /\ top = t.top /\ bottom = t.bottom
    OBVIOUS
  <2>3. /\ Utmost(D, K, top, root) /\ Lowmost(D, K, bottom, root) /\ E[root] = D[root] \cup {n}
        /\ \A y \in D[root] \cup {n} : K[y] \in Int
        /\ \A y \in D[root] : K[y] # K[n]
    BY <1>1, <1>4, <1>9, <1>11, <1>3, <2>1, <2>2
  <2>4. /\ K[top] < K[n] => Utmost(E, K, n, root) /\ Lowmost(E, K, bottom, root)
        /\ ~ (K[top] < K[n]) => Utmost(E, K, top, root)
        /\ K[n] < K[bottom] => Lowmost(E, K, n, root)
        /\ ~ (K[n] < K[bottom]) => Lowmost(E, K, bottom, root)
    BY <2>3, EndsGrow
  <2>5. QED
    BY <2>2, <2>4
<1>13. /\ TreeKey[t.data[t.top]] = K[t.top] /\ TreeKey[t.data[t.bottom]] = K[t.bottom]
       /\ TreeKey[t.data[n]] = K[n]
  BY <1>4, <1>7, <1>8, <1>10
<1>14. PICK top, bottom : /\ top = IF K[t.top] < K[n] THEN n ELSE t.top
                          /\ bottom = IF ~ (K[t.top] < K[n]) /\ K[n] < K[t.bottom] THEN n ELSE t.bottom
  OBVIOUS
<1>15. Utmost(E, K, top, t.root) /\ Lowmost(E, K, bottom, t.root)
  BY <1>12, <1>14
<1>16. s = [u EXCEPT !.top = top, !.bottom = bottom]
  <2>1. u.nodes # 1
    BY <1>4, <1>5, <1>2
  <2>2. s = IF K[t.top] < K[n] THEN [u EXCEPT !.top = n]
            ELSE IF K[n] < K[t.bottom] THEN [u EXCEPT !.bottom = n] ELSE u
    BY <1>13, <1>2, <2>1 DEF Tree!Ends
  <2>3. CASE K[t.top] < K[n]
    <3>1. s = [u EXCEPT !.top = top] /\ bottom = u.bottom
      BY <1>14, <1>2, <2>2, <2>3
    <3>2. QED
      BY <1>2, <3>1 DEF IsTree
  <2>4. CASE ~ (K[t.top] < K[n]) /\ K[n] < K[t.bottom]
    <3>1. s = [u EXCEPT !.bottom = bottom] /\ top = u.top
      BY <1>14, <1>2, <2>2, <2>4
    <3>2. QED
      BY <1>2, <3>1 DEF IsTree
  <2>5. CASE ~ (K[t.top] < K[n]) /\ ~ (K[n] < K[t.bottom])
    <3>1. s = u /\ top = u.top /\ bottom = u.bottom
      BY <1>14, <1>2, <2>2, <2>5
    <3>2. QED
      BY <1>2, <3>1 DEF IsTree
  <2>6. QED
    BY <2>3, <2>4, <2>5
<1>17. s = [root |-> u.root, top |-> top, bottom |-> bottom, nodes |-> u.nodes, duplicates |-> u.duplicates,
            recycle |-> u.recycle, free |-> u.free, data |-> u.data, ref |-> u.ref,
            left |-> u.left, right |-> u.right]
  BY <1>16, <1>2 DEF IsTree
<1>18. /\ IsTree(s) /\ s.root = t.root /\ s.top = top /\ s.bottom = bottom /\ s.nodes = t.nodes + 1
       /\ s.duplicates = t.duplicates /\ s.recycle = t.recycle /\ s.free = t.free /\ s.data = t.data
       /\ s.ref = t.ref /\ s.left = u.left /\ s.right = u.right
  BY <1>17, <1>2 DEF IsTree
<1>19. Under(E, t.root) = S \cup {n}
  BY <1>11 DEF Under
<1>20. Ordered(s.left, s.right, E, K, s.root, s.top, s.bottom)
  <2>1. Ended(E, K, t.root, top, bottom)
    BY <1>15 DEF Ended
  <2>2. QED
    BY <1>4, <1>11, <1>18, <1>19, <2>1 DEF Ordered
<1>21. Tidy(s, g, c, E)
  BY <1>4, <1>18, <1>19, <1>20, <1>3, LinkedKept
<1>22. Counts(s, t, 1, 0)
  BY <1>18 DEF Counts, Tidy, Typed
<1>23. QED
  BY <1>21, <1>22

LEMMA InsertKept ==
    ASSUME NEW t, NEW h, NEW b, NEW D, Tidy(t, h, b, D), NEW n \in h, NEW s, s = Tree!Insert(t, TreeKey, n),
           NEW g, g = h \ {n}, NEW c, c = Plus(b, TreeKey[t.data[n]], t.ref[n])
    PROVE  /\ \E E : Tidy(s, g, c, E)
           /\ s.nodes + s.duplicates = t.nodes + t.duplicates + 1
<1>1. PICK S, K, k : S = Under(D, t.root) /\ K = KeyAt(t.data) /\ k = TreeKey[t.data[n]]
  OBVIOUS
<1>2. /\ Typed(t) /\ IsTree(t) /\ Owned(S, t.recycle, h, t.free) /\ Valued(S \cup h, t.data, t.ref)
      /\ Ordered(t.left, t.right, D, K, t.root, t.top, t.bottom)
      /\ t.nodes \in Int /\ t.duplicates \in Int
  BY <1>1 DEF Tidy, Typed
<1>3. n \in TreeNodes /\ n \notin S /\ S \subseteq TreeNodes
  BY <1>2 DEF Owned
<1>4. t.data[n] \in Tree!Data /\ K[n] = k /\ k \in Int
  BY <1>1, <1>2, <1>3, KeyFacts DEF Valued, KeyAt
<1>5. PICK p, L : p = Tree!Path(t, TreeKey, t.data[n]) /\ L = p[Len(p)]
  OBVIOUS
<1>6. /\ t.root = NIL => p = << >> /\ ~ Tree!Found(t, TreeKey, t.data[n])
      /\ t.root # NIL => /\ p # << >> /\ L \in D[t.root]
                         /\ Landed(L, t.left, t.right, D, K, k, t.root)
                         /\ Tree!Found(t, TreeKey, t.data[n]) <=> K[L] = k
  BY <1>1, <1>4, <1>5, SearchIs
<1>7. PICK w : w = Tree!Trash(Merged(t, n, L), n)
  OBVIOUS
<1>8. PICK u : u = IF p = << >> THEN [t EXCEPT !.root = n, !.nodes = @ + 1]
                   ELSE IF TreeKey[t.data[L]] < k THEN [t EXCEPT !.right[L] = n, !.nodes = @ + 1]
                   ELSE [t EXCEPT !.left[L] = n, !.nodes = @ + 1]
  OBVIOUS
<1>9. s = IF Tree!Found(t, TreeKey, t.data[n]) THEN Tree!Ends(w, TreeKey, L) ELSE Tree!Ends(u, TreeKey, n)
  BY <1>1, <1>5, <1>7, <1>8 DEF Tree!Insert, Merged
<1>10. CASE Tree!Found(t, TreeKey, t.data[n])
  <2>1. t.root # NIL /\ L \in D[t.root] /\ K[L] = k
    BY <1>6, <1>10
  <2>2. L \in S /\ L \in TreeNodes
    BY <1>1, <1>3, <2>1 DEF Under
  <2>3. TreeKey[t.data[L]] = k
    BY <1>1, <2>1, <2>2 DEF KeyAt
  <2>4. L \in Under(D, t.root) /\ TreeKey[t.data[L]] = TreeKey[t.data[n]]
    BY <1>1, <2>2, <2>3
  <2>5. Tidy(w, g, c, D) /\ Counts(w, t, 0, 1) /\ w.root = t.root
    BY <1>7, <2>4, MergeKept
  <2>6. L \in Under(D, w.root)
    BY <1>1, <2>2, <2>5
  <2>7. Tree!Ends(w, TreeKey, L) = w
    BY <2>5, <2>6, EndsStay
  <2>8. s = w
    BY <1>9, <1>10, <2>7
  <2>9. QED
    BY <1>2, <2>5, <2>8 DEF Counts
<1>11. CASE ~ Tree!Found(t, TreeKey, t.data[n]) /\ t.root = NIL
  <2>1. u = [t EXCEPT !.root = n, !.nodes = @ + 1] /\ S = {}
    BY <1>1, <1>6, <1>8, <1>11 DEF Under
  <2>2. t.nodes = 0
    BY <1>1, <2>1, FS_EmptySet DEF Tidy
  <2>3. u = [root |-> n, top |-> t.top, bottom |-> t.bottom, nodes |-> t.nodes + 1,
             duplicates |-> t.duplicates,
             recycle |-> t.recycle, free |-> t.free, data |-> t.data, ref |-> t.ref,
             left |-> t.left, right |-> t.right]
    BY <1>2, <2>1 DEF IsTree
  <2>4. u = [root |-> n, top |-> t.top, bottom |-> t.bottom, nodes |-> 1, duplicates |-> t.duplicates,
             recycle |-> t.recycle, free |-> t.free, data |-> t.data, ref |-> t.ref,
             left |-> t.left, right |-> t.right]
    BY <2>2, <2>3
  <2>5. s = [u EXCEPT !.top = n, !.bottom = n]
    BY <1>9, <1>11, <2>4 DEF Tree!Ends
  <2>6. s = [root |-> n, top |-> n, bottom |-> n, nodes |-> 1, duplicates |-> t.duplicates,
             recycle |-> t.recycle, free |-> t.free, data |-> t.data, ref |-> t.ref,
             left |-> t.left, right |-> t.right]
    BY <2>4, <2>5
  <2>7. /\ IsTree(s) /\ s.root = n /\ s.top = n /\ s.bottom = n /\ s.nodes = t.nodes + 1
        /\ s.duplicates = t.duplicates /\ s.recycle = t.recycle /\ s.free = t.free /\ s.data = t.data
        /\ s.ref = t.ref /\ s.left = t.left /\ s.right = t.right
    BY <2>2, <2>6 DEF IsTree
  <2>8. t.left[n] = NIL /\ t.right[n] = NIL /\ D[n] = {n} /\ n # NIL
    BY <1>1, <1>2, <1>3, Outside, TreeAssumption
  <2>9. Under(D, n) = {n}
    BY <2>8 DEF Under
  <2>10. Ordered(t.left, t.right, D, K, n, n, n)
    <3>1. Sorted(t.left, t.right, D, K, {n})
      <4>1. Under(D, t.left[n]) = {} /\ Under(D, t.right[n]) = {}
        BY <2>8 DEF Under
      <4>2. QED
        BY <1>4, <4>1 DEF Sorted
    <3>2. Ended(D, K, n, n, n)
      BY <2>8 DEF Ended, Utmost, Lowmost
    <3>3. QED
      BY <1>1, <1>2, <1>3, <2>1, <2>9, <3>1, <3>2 DEF Ordered
  <2>11. Tidy(s, g, c, D)
    <3>1. \A y \in Under(D, t.root) : K[y] # K[n]
      BY <1>1, <2>1
    <3>2. Under(D, s.root) = Under(D, t.root) \cup {n}
      BY <1>1, <2>1, <2>7, <2>9
    <3>3. Ordered(s.left, s.right, D, K, s.root, s.top, s.bottom)
      BY <2>7, <2>10
    <3>4. QED
      BY <1>1, <2>7, <3>1, <3>2, <3>3, LinkedKept
  <2>12. QED
    BY <1>2, <2>7, <2>11
<1>12. CASE ~ Tree!Found(t, TreeKey, t.data[n]) /\ t.root # NIL
  <2>1. /\ p # << >> /\ L \in D[t.root] /\ Landed(L, t.left, t.right, D, K, k, t.root) /\ K[L] # k
    BY <1>6, <1>12
  <2>2. S = D[t.root] /\ L \in TreeNodes /\ L # n /\ n \in TreeNodes \ D[t.root]
    BY <1>1, <1>3, <1>12, <2>1 DEF Under
  <2>3. TreeKey[t.data[L]] = K[L] /\ K[L] \in Int
    BY <1>1, <1>2, <2>1, <2>2 DEF KeyAt, Ordered, Sorted
  <2>4. \A y \in Under(D, t.root) : K[y] # K[n]
    BY <1>1, <1>4, <2>1, <2>2 DEF Landed
  <2>5. PICK E : E = Grown(D, L, n)
    OBVIOUS
  <2>6. CASE K[L] < k
    <3>1. PICK r2 : r2 = [t.right EXCEPT ![L] = n]
      OBVIOUS
    <3>2. u = [t EXCEPT !.right = r2, !.nodes = @ + 1]
      BY <1>8, <2>1, <2>3, <2>6, <3>1
    <3>3. u = [root |-> t.root, top |-> t.top, bottom |-> t.bottom, nodes |-> t.nodes + 1,
               duplicates |-> t.duplicates, recycle |-> t.recycle, free |-> t.free, data |-> t.data,
               ref |-> t.ref, left |-> t.left, right |-> r2]
      BY <1>2, <3>2 DEF IsTree
    <3>4. Hangs(t.left, r2, E, K, t.root, D[t.root], n)
      BY <1>2, <1>4, <1>12, <2>1, <2>2, <2>5, <2>6, <3>1, HangsRight
    <3>5. /\ IsTree(u) /\ u.root = t.root /\ u.top = t.top /\ u.bottom = t.bottom /\ u.nodes = t.nodes + 1
          /\ u.duplicates = t.duplicates /\ u.recycle = t.recycle /\ u.free = t.free /\ u.data = t.data
          /\ u.ref = t.ref /\ u.left = t.left /\ u.right = r2
      BY <3>3 DEF IsTree
    <3>6. Longer(u, t)
      BY <3>5 DEF Longer
    <3>7. Hangs(u.left, u.right, E, K, t.root, D[t.root], n)
      BY <3>4, <3>5
    <3>8. s = Tree!Ends(u, TreeKey, n)
      BY <1>9, <1>12
    <3>9. K = KeyAt(t.data) /\ NewKey(K, Under(D, t.root), n) /\ t.root # NIL
      BY <1>1, <1>4, <1>12, <2>4 DEF NewKey
    <3>10. /\ Tidy(t, h, b, D) /\ n \in h /\ g = h \ {n} /\ c = Plus(b, TreeKey[t.data[n]], t.ref[n])
      OBVIOUS
    <3>11. Tidy(s, g, c, E) /\ Counts(s, t, 1, 0)
      BY ONLY <3>8, <3>6, <3>7, <3>9, <3>10, LeafKept
    <3>12. QED
      BY <1>2, <3>11 DEF Counts
  <2>7. CASE ~ (K[L] < k)
    <3>1. PICK l2 : l2 = [t.left EXCEPT ![L] = n]
      OBVIOUS
    <3>2. u = [t EXCEPT !.left = l2, !.nodes = @ + 1]
      BY <1>8, <2>1, <2>3, <2>7, <3>1
    <3>3. u = [root |-> t.root, top |-> t.top, bottom |-> t.bottom, nodes |-> t.nodes + 1,
               duplicates |-> t.duplicates, recycle |-> t.recycle, free |-> t.free, data |-> t.data,
               ref |-> t.ref, left |-> l2, right |-> t.right]
      BY <1>2, <3>2 DEF IsTree
    <3>4. k < K[L]
      BY <1>4, <2>1, <2>3, <2>7
    <3>5. Hangs(l2, t.right, E, K, t.root, D[t.root], n)
      BY <1>2, <1>4, <1>12, <2>1, <2>2, <2>5, <3>4, <3>1, HangsLeft
    <3>6. /\ IsTree(u) /\ u.root = t.root /\ u.top = t.top /\ u.bottom = t.bottom /\ u.nodes = t.nodes + 1
          /\ u.duplicates = t.duplicates /\ u.recycle = t.recycle /\ u.free = t.free /\ u.data = t.data
          /\ u.ref = t.ref /\ u.left = l2 /\ u.right = t.right
      BY <3>3 DEF IsTree
    <3>7. Longer(u, t)
      BY <3>6 DEF Longer
    <3>8. Hangs(u.left, u.right, E, K, t.root, D[t.root], n)
      BY <3>5, <3>6
    <3>9. s = Tree!Ends(u, TreeKey, n)
      BY <1>9, <1>12
    <3>10. K = KeyAt(t.data) /\ NewKey(K, Under(D, t.root), n) /\ t.root # NIL
      BY <1>1, <1>4, <1>12, <2>4 DEF NewKey
    <3>11. /\ Tidy(t, h, b, D) /\ n \in h /\ g = h \ {n} /\ c = Plus(b, TreeKey[t.data[n]], t.ref[n])
      OBVIOUS
    <3>12. Tidy(s, g, c, E) /\ Counts(s, t, 1, 0)
      BY ONLY <3>9, <3>7, <3>8, <3>10, <3>11, LeafKept
    <3>13. QED
      BY <1>2, <3>12 DEF Counts
  <2>8. QED
    BY <2>6, <2>7
<1>13. QED
  BY <1>10, <1>11, <1>12

-----------------------------------------------------------------------------
(***************************************************************************)
(* Removal.                                                                *)
(***************************************************************************)

\* u is t with c in the place of n.
RelinkedTo(u, t, n, c) ==
    /\ IsTree(u) /\ u.root = IF n = t.root THEN c ELSE t.root
    /\ u.left = Instead(t.left, n, c) /\ u.right = Instead(t.right, n, c)
    /\ u.top = t.top /\ u.bottom = t.bottom /\ u.nodes = t.nodes /\ u.duplicates = t.duplicates
    /\ u.recycle = t.recycle /\ u.free = t.free /\ u.data = t.data /\ u.ref = t.ref

LEMMA RelinkIs ==
    ASSUME NEW t, NEW D, NEW K, IsTree(t), Ordered(t.left, t.right, D, K, t.root, t.top, t.bottom), t.root # NIL,
           NEW p, Led(p, t.left, t.right, D, t.root), NEW n \in D[t.root], n = p[Len(p)],
           NEW c, NEW u, u = Tree!Relink(t, p, c)
    PROVE  RelinkedTo(u, t, n, c)
<1>1. PICK l, r, root, P : l = t.left /\ r = t.right /\ root = t.root /\ P = p[Len(p) - 1]
  OBVIOUS
<1>2. Shape(l, r, D) /\ root \in TreeNodes /\ Under(D, root) = D[root] /\ n \in D[root]
  BY <1>1 DEF Ordered, Under
<1>3. n \in TreeNodes /\ n # NIL
  BY <1>2, Below, TreeAssumption
<1>4. /\ l \in [TreeNodes -> TreeNodes \cup {NIL}] /\ r \in [TreeNodes -> TreeNodes \cup {NIL}]
  BY <1>2 DEF Shape
<1>5. \A m \in TreeNodes : n \in {l[m], r[m]} => m \in D[root] /\ n # root
  <2>1. ASSUME NEW m \in TreeNodes, n \in {l[m], r[m]} PROVE m \in D[root] /\ n # root
    <3>1. m \in D[root]
      BY <1>1, <1>2, <1>3, <2>1 DEF Ordered
    <3>2. n # root
      BY <1>2, <1>3, <2>1, <3>1, OneParent
    <3>3. QED
      BY <3>1, <3>2
  <2>2. QED
    BY <2>1
<1>6. CASE Len(p) = 1
  <2>1. n = root
    BY <1>1, <1>6 DEF Led
  <2>2. Instead(l, n, c) = l /\ Instead(r, n, c) = r
    BY <1>4, <1>5, <2>1 DEF Instead
  <2>3. u = [t EXCEPT !.root = c]
    BY <1>6 DEF Tree!Relink
  <2>4. u = [root |-> c, top |-> t.top, bottom |-> t.bottom, nodes |-> t.nodes, duplicates |-> t.duplicates,
             recycle |-> t.recycle, free |-> t.free, data |-> t.data, ref |-> t.ref,
             left |-> t.left, right |-> t.right]
    BY <2>3 DEF IsTree
  <2>5. QED
    BY <1>1, <2>1, <2>2, <2>4 DEF IsTree, RelinkedTo
<1>7. CASE Len(p) # 1
  <2>1. P \in D[root] /\ n \in {l[P], r[P]} /\ P \in TreeNodes
    <3>1. P \in D[root] /\ n \in {l[P], r[P]}
      BY <1>1, <1>7 DEF Led
    <3>2. QED
      BY <1>2, <3>1, Below
  <2>2. n # root
    BY <1>5, <2>1
  <2>3. \A m \in TreeNodes : n \in {l[m], r[m]} => m = P
    <3>1. ASSUME NEW m \in TreeNodes, n \in {l[m], r[m]} PROVE m = P
      <4>1. m \in D[root]
        BY <1>5, <3>1
      <4>2. QED
        BY <1>2, <1>3, <2>1, <3>1, <4>1, OneParent
    <3>2. QED
      BY <3>1
  <2>4. ~ (l[P] = n /\ r[P] = n)
    <3>1. /\ l[P] # NIL => l[P] \in Under(D, l[P])
          /\ r[P] # NIL => r[P] \in Under(D, r[P])
          /\ Under(D, l[P]) \cap Under(D, r[P]) = {}
      <4>1. Shape(l, r, D) /\ P \in TreeNodes
        BY <1>2, <2>1
      <4>2. QED
        BY ONLY <4>1, ShapeOf
    <3>2. QED
      BY <1>3, <3>1
  <2>5. CASE l[P] = n
    <3>1. PICK l2 : l2 = [l EXCEPT ![P] = c]
      OBVIOUS
    <3>2. Instead(l, n, c) = l2 /\ Instead(r, n, c) = r
      BY <1>4, <2>1, <2>3, <2>4, <2>5, <3>1 DEF Instead
    <3>3. u = [t EXCEPT !.left = l2]
      BY <1>1, <1>7, <2>5, <3>1 DEF Tree!Relink
    <3>4. u = [root |-> t.root, top |-> t.top, bottom |-> t.bottom, nodes |-> t.nodes,
               duplicates |-> t.duplicates, recycle |-> t.recycle, free |-> t.free, data |-> t.data,
               ref |-> t.ref, left |-> l2, right |-> t.right]
      BY <3>3 DEF IsTree
    <3>5. QED
      BY <1>1, <2>2, <3>2, <3>4 DEF IsTree, RelinkedTo
  <2>6. CASE l[P] # n
    <3>1. PICK r2 : r2 = [r EXCEPT ![P] = c]
      OBVIOUS
    <3>2. Instead(l, n, c) = l /\ Instead(r, n, c) = r2
      BY <1>4, <2>1, <2>3, <2>4, <2>6, <3>1 DEF Instead
    <3>3. u = [t EXCEPT !.right = r2]
      BY <1>1, <1>7, <2>6, <3>1 DEF Tree!Relink
    <3>4. u = [root |-> t.root, top |-> t.top, bottom |-> t.bottom, nodes |-> t.nodes,
               duplicates |-> t.duplicates, recycle |-> t.recycle, free |-> t.free, data |-> t.data,
               ref |-> t.ref, left |-> t.left, right |-> r2]
      BY <3>3 DEF IsTree
    <3>5. QED
      BY <1>1, <2>2, <3>2, <3>4 DEF IsTree, RelinkedTo
  <2>7. QED
    BY <2>5, <2>6
<1>8. QED
  BY <1>6, <1>7

\* What is under the root then.
Cut(D, n) == [Shrunk(D, n) EXCEPT ![n] = {n}]
CutLinks(l, n, c) == [Instead(l, n, c) EXCEPT ![n] = NIL]

LEMMA CutIs ==
    ASSUME NEW l, NEW r, NEW D, NEW K, NEW root, NEW top, NEW bottom, Ordered(l, r, D, K, root, top, bottom),
           root # NIL, NEW n \in D[root], Lone(l, r, n), NEW c, c = Heir(l, r, n),
           NEW x, x = IF n = root THEN c ELSE root
    PROVE  /\ x \in TreeNodes \cup {NIL} /\ x # n
           /\ Shape(Instead(l, n, c), Instead(r, n, c), Shrunk(D, n))
           /\ Under(Shrunk(D, n), x) = D[root] \ {n}
           /\ Sorted(Instead(l, n, c), Instead(r, n, c), Shrunk(D, n), K, D[root] \ {n})
           /\ Shape(CutLinks(l, n, c), CutLinks(r, n, c), Cut(D, n))
           /\ Under(Cut(D, n), x) = D[root] \ {n}
           /\ Sorted(CutLinks(l, n, c), CutLinks(r, n, c), Cut(D, n), K, D[root] \ {n})
           /\ \A m \in TreeNodes \ (D[root] \ {n}) : CutLinks(l, n, c)[m] = NIL /\ CutLinks(r, n, c)[m] = NIL
<1>1. Shape(l, r, D) /\ root \in TreeNodes /\ Under(D, root) = D[root] /\ Sorted(l, r, D, K, D[root])
  BY DEF Ordered, Under
<1>2. n \in TreeNodes /\ n # NIL /\ D[root] \in SUBSET TreeNodes
  BY <1>1, Below, TreeAssumption DEF Shape
<1>3. PICK E, l2, r2, S : E = Shrunk(D, n) /\ l2 = Instead(l, n, c) /\ r2 = Instead(r, n, c) /\ S = D[root] \ {n}
  OBVIOUS
<1>4. /\ c \in TreeNodes \cup {NIL} /\ c # n
      /\ Under(E, c) = D[n] \ {n}
      /\ \A y \in TreeNodes \cup {NIL} : y # n => Under(E, y) = Under(D, y) \ {n}
  BY <1>1, <1>2, <1>3, ShrunkUnder
<1>5. x \in TreeNodes \cup {NIL} /\ x # n
  BY <1>1, <1>4
<1>6. Under(E, x) = S
  <2>1. CASE n = root
    BY <1>3, <1>4, <2>1
  <2>2. CASE n # root
    BY <1>1, <1>3, <1>4, <2>2
  <2>3. QED
    BY <2>1, <2>2
<1>7. Shape(l2, r2, E)
  BY <1>1, <1>2, <1>3, ShrunkShape
<1>8. Sorted(l2, r2, E, K, S)
  BY <1>1, <1>2, <1>3, ShrunkSorted
<1>9. \A m \in TreeNodes : m # n => n \notin E[m]
  BY <1>3 DEF Shrunk
<1>10. PICK F, l3, r3 : F = [E EXCEPT ![n] = {n}] /\ l3 = [l2 EXCEPT ![n] = NIL] /\ r3 = [r2 EXCEPT ![n] = NIL]
  OBVIOUS
<1>11. Shape(l3, r3, F)
  BY <1>2, <1>7, <1>9, <1>10, ClearedShape
<1>12. Sorted(l3, r3, F, K, S)
  <2>1. S \in SUBSET TreeNodes /\ n \notin S
    BY <1>2, <1>3
  <2>2. QED
    BY <1>2, <1>7, <1>8, <1>9, <1>10, <2>1, ClearedSorted
<1>13. Under(F, x) = S
  <2>1. x # NIL => F[x] = E[x]
    BY <1>5, <1>7, <1>10 DEF Shape
  <2>2. QED
    BY <1>6, <2>1 DEF Under
<1>14. ASSUME NEW m \in TreeNodes \ S PROVE l3[m] = NIL /\ r3[m] = NIL
  <2>1. CASE m = n
    BY <1>2, <1>7, <1>10, <2>1 DEF Shape
  <2>2. CASE m # n
    <3>1. l[m] = NIL /\ r[m] = NIL
      BY <1>1, <1>3, <2>2 DEF Ordered
    <3>2. l2[m] = NIL /\ r2[m] = NIL
      BY <1>2, <1>3, <3>1 DEF Instead
    <3>3. QED
      BY <1>7, <1>10, <2>2, <3>2 DEF Shape
  <2>3. QED
    BY <2>1, <2>2
<1>15. QED
  BY <1>3, <1>5, <1>6, <1>7, <1>8, <1>10, <1>11, <1>12, <1>13, <1>14 DEF Cut, CutLinks

Without(b, k) == [b EXCEPT ![k] = 0]
SameNodes(s, t) == s.data = t.data /\ s.ref = t.ref
Fewer(s, t, v) == s.nodes = t.nodes - 1 /\ s.duplicates = t.duplicates + 1 - v

\* s is t without n, but for the ends.
Lacks(s, t, n, c) ==
    /\ IsTree(s) /\ s.root = (IF n = t.root THEN c ELSE t.root)
    /\ s.left = CutLinks(t.left, n, c) /\ s.right = CutLinks(t.right, n, c)
    /\ s.nodes = t.nodes - 1 /\ s.duplicates \in Int
    /\ s.recycle = t.recycle /\ s.free = t.free /\ SameNodes(s, t)

\* What is left is a tree.
CutTo(l, r, F, K, S, x) ==
    /\ x \in TreeNodes \cup {NIL} /\ Shape(l, r, F) /\ Under(F, x) = S /\ Sorted(l, r, F, K, S)
    /\ \A m \in TreeNodes \ S : l[m] = NIL /\ r[m] = NIL

LEMMA CutLeaves ==
    ASSUME NEW l, NEW r, NEW D, NEW K, NEW root, NEW top, NEW bottom, Ordered(l, r, D, K, root, top, bottom),
           root # NIL, NEW n \in D[root], Lone(l, r, n), NEW c, c = Heir(l, r, n),
           NEW x, x = (IF n = root THEN c ELSE root), NEW l2, l2 = CutLinks(l, n, c), NEW r2, r2 = CutLinks(r, n, c),
           NEW F, F = Cut(D, n), NEW S, S = D[root] \ {n}
    PROVE  CutTo(l2, r2, F, K, S, x)
BY CutIs DEF CutTo

\* t is the tree of l, r and D without n, which has lost or keeps its links; x is its end then.
Loose(x, y, D, E) == x = NIL \/ (x = y /\ y # NIL /\ E[y] = D[y])
Bare(t, l, r, D, root, E, K, n) ==
    /\ Shape(l, r, D) /\ root \in TreeNodes /\ Sorted(l, r, D, K, D[root]) /\ n \in D[root]
    /\ Shape(t.left, t.right, E) /\ t.root \in TreeNodes \cup {NIL} /\ Under(E, t.root) = D[root] \ {n}
    /\ Sorted(t.left, t.right, E, K, D[root] \ {n})
    /\ Loose(t.left[n], l[n], D, E) /\ Loose(t.right[n], r[n], D, E)
LowNow(E, K, x, root) == (root # NIL => Lowmost(E, K, x, root)) /\ (root = NIL => x = NIL)
TopNow(E, K, x, root) == (root # NIL => Utmost(E, K, x, root)) /\ (root = NIL => x = NIL)

LEMMA EndsAfter ==
    ASSUME NEW t, NEW l, NEW r, NEW D, NEW root, NEW E, NEW K, NEW n, Bare(t, l, r, D, root, E, K, n), NEW x
    PROVE  /\ Lowmost(D, K, t.bottom, root) =>
                 (x = (IF n # t.bottom THEN t.bottom
                       ELSE Tree!Leftest(t, IF t.right[n] # NIL THEN t.right[n] ELSE t.root)) =>
                     LowNow(E, K, x, t.root))
           /\ Utmost(D, K, t.top, root) =>
                 (x = (IF n # t.top THEN t.top
                       ELSE Tree!Rightest(t, IF t.left[n] # NIL THEN t.left[n] ELSE t.root)) =>
                     TopNow(E, K, x, t.root))
<1>1. /\ Shape(l, r, D) /\ root \in TreeNodes /\ Sorted(l, r, D, K, D[root]) /\ n \in D[root]
      /\ Shape(t.left, t.right, E) /\ t.root \in TreeNodes \cup {NIL} /\ Under(E, t.root) = D[root] \ {n}
      /\ Sorted(t.left, t.right, E, K, D[root] \ {n})
      /\ t.left[n] = NIL \/ (t.left[n] = l[n] /\ l[n] # NIL /\ E[l[n]] = D[l[n]])
      /\ t.right[n] = NIL \/ (t.right[n] = r[n] /\ r[n] # NIL /\ E[r[n]] = D[r[n]])
  BY DEF Bare, Loose
<1>2. ASSUME Lowmost(D, K, t.bottom, root),
             x = (IF n # t.bottom THEN t.bottom
                  ELSE Tree!Leftest(t, IF t.right[n] # NIL THEN t.right[n] ELSE t.root))
      PROVE  LowNow(E, K, x, t.root)
  BY ONLY <1>1, <1>2, BottomAfter DEF LowNow
<1>3. ASSUME Utmost(D, K, t.top, root),
             x = (IF n # t.top THEN t.top
                  ELSE Tree!Rightest(t, IF t.left[n] # NIL THEN t.left[n] ELSE t.root))
      PROVE  TopNow(E, K, x, t.root)
  BY ONLY <1>1, <1>3, TopAfter DEF TopNow
<1>4. QED
  BY <1>2, <1>3

LEMMA LeavesKept ==
    ASSUME NEW t, NEW h, NEW b, NEW D, Tidy(t, h, b, D), t.root # NIL, NEW n \in D[t.root],
           Lone(t.left, t.right, n), NEW c, c = Heir(t.left, t.right, n),
           NEW s, Lacks(s, t, n, c), Ended(Cut(D, n), KeyAt(t.data), s.root, s.top, s.bottom),
           NEW g, g = h \cup {n}, NEW z, z = Without(b, TreeKey[t.data[n]]), NEW F, F = Cut(D, n)
    PROVE  Tidy(s, g, z, F)
<1>1. PICK S, K, k : S = D[t.root] /\ K = KeyAt(t.data) /\ k = TreeKey[t.data[n]]
  OBVIOUS
<1>2. /\ Under(D, t.root) = S /\ t.root \in TreeNodes /\ S \subseteq TreeNodes /\ IsFiniteSet(S)
      /\ t.nodes = Cardinality(S) /\ n \in S /\ n \in TreeNodes
      /\ Ordered(t.left, t.right, D, K, t.root, t.top, t.bottom)
  BY <1>1, InsideFinite DEF Tidy
<1>3. Typed(t) /\ Owned(S, t.recycle, h, t.free) /\ Valued(S \cup h, t.data, t.ref) /\ Bagged(S, K, t.ref, b)
  BY <1>1, <1>2 DEF Tidy
<1>4. /\ IsTree(s) /\ s.root = (IF n = t.root THEN c ELSE t.root)
      /\ s.left = CutLinks(t.left, n, c) /\ s.right = CutLinks(t.right, n, c)
      /\ s.nodes = t.nodes - 1 /\ s.duplicates \in Int
      /\ s.recycle = t.recycle /\ s.free = t.free /\ s.data = t.data /\ s.ref = t.ref
  BY DEF Lacks, SameNodes
<1>5. Typed(s)
  BY <1>3, <1>4 DEF Typed
<1>6. PICK l2, r2 : l2 = CutLinks(t.left, n, c) /\ r2 = CutLinks(t.right, n, c)
  OBVIOUS
<1>7. /\ s.root \in TreeNodes \cup {NIL} /\ Shape(l2, r2, F) /\ Under(F, s.root) = S \ {n}
      /\ Sorted(l2, r2, F, K, S \ {n})
      /\ \A m \in TreeNodes \ (S \ {n}) : l2[m] = NIL /\ r2[m] = NIL
  <2>1. PICK l, r, root, top, bottom, x, Z :
           /\ l = t.left /\ r = t.right /\ root = t.root /\ top = t.top /\ bottom = t.bottom
           /\ x = s.root /\ Z = S \ {n}
    OBVIOUS
  <2>2. /\ Ordered(l, r, D, K, root, top, bottom) /\ root # NIL /\ n \in D[root] /\ Lone(l, r, n)
        /\ c = Heir(l, r, n) /\ x = (IF n = root THEN c ELSE root) /\ l2 = CutLinks(l, n, c)
        /\ r2 = CutLinks(r, n, c) /\ F = Cut(D, n) /\ Z = D[root] \ {n}
    BY <1>1, <1>2, <1>4, <1>6, <2>1
  <2>3. CutTo(l2, r2, F, K, Z, x)
    BY ONLY <2>2, CutLeaves
  <2>4. QED
    BY <2>1, <2>3 DEF CutTo
<1>8. Ordered(s.left, s.right, F, K, s.root, s.top, s.bottom)
  BY <1>1, <1>4, <1>6, <1>7 DEF Ordered
<1>9. s.nodes = Cardinality(S \ {n})
  <2>1. Cardinality(S \ {n}) = Cardinality(S) - 1
    BY <1>2, FS_RemoveElement
  <2>2. QED
    BY <1>2, <1>4, <2>1
<1>10. \A m \in S : m \in TreeNodes /\ K[m] = TreeKey[t.data[m]] /\ K[m] \in Tree!Keys /\ (m # n => K[m] # k)
  <2>1. ASSUME NEW m \in S PROVE K[m] = TreeKey[t.data[m]] /\ K[m] \in Tree!Keys
    <3>1. K[m] = TreeKey[t.data[m]]
      BY <1>1, <1>2 DEF KeyAt
    <3>2. t.data[m] \in Tree!Data
      BY <1>3 DEF Valued
    <3>3. QED
      BY <3>1, <3>2, KeyFacts
  <2>2. Shape(t.left, t.right, D) /\ Sorted(t.left, t.right, D, K, D[t.root])
    BY <1>1, <1>2 DEF Ordered
  <2>3. K[n] = k
    BY <1>1, <1>2, <2>1
  <2>4. \A m \in S : m # n => K[m] # K[n]
    BY <1>1, <1>2, <2>2, KeysDiffer
  <2>5. QED
    BY <1>2, <2>1, <2>3, <2>4
<1>11. Bagged(S \ {n}, K, t.ref, z)
  <2>1. k \in Tree!Keys /\ K[n] = k
    BY <1>1, <1>2, <1>10
  <2>2. z \in [Tree!Keys -> Nat] /\ \A j \in Tree!Keys : z[j] = IF j = k THEN 0 ELSE b[j]
    BY <1>1, <1>3, <2>1 DEF Bagged, Without
  <2>3. \A m \in S \ {n} : t.ref[m] = z[K[m]]
    BY <1>3, <1>10, <2>2 DEF Bagged
  <2>4. \A j \in Tree!Keys : z[j] > 0 => \E m \in S \ {n} : K[m] = j
    BY <1>3, <2>1, <2>2 DEF Bagged
  <2>5. QED
    BY <2>2, <2>3, <2>4 DEF Bagged
<1>12. Valued((S \ {n}) \cup g, t.data, t.ref)
  BY <1>2, <1>3 DEF Valued
<1>13. Owned(S \ {n}, t.recycle, g, t.free)
  BY <1>2, <1>3, OwnedMoves
<1>14. QED
  BY <1>1, <1>4, <1>5, <1>7, <1>8, <1>9, <1>11, <1>12, <1>13 DEF Tidy

\* What is left of t without one node, which has v references, is s.
Detached(s, t, h, b, D, v, S) ==
    Tidy(s, h, b, D) /\ Fewer(s, t, v) /\ SameNodes(s, t) /\ Under(D, s.root) = S

LEMMA DetachKept ==
    ASSUME NEW t, NEW h, NEW b, NEW D, Tidy(t, h, b, D), t.root # NIL,
           NEW p, Led(p, t.left, t.right, D, t.root), NEW n \in D[t.root], n = p[Len(p)],
           Lone(t.left, t.right, n), NEW s, s = Tree!Detach(t, p),
           NEW g, g = h \cup {n}, NEW z, z = Without(b, TreeKey[t.data[n]]), NEW F, F = Cut(D, n),
           NEW v0, v0 = t.ref[n], NEW S0, S0 = D[t.root] \ {n}
    PROVE  Detached(s, t, g, z, F, v0, S0)
<1>1. PICK S, K, c : S = D[t.root] /\ K = KeyAt(t.data) /\ c = Heir(t.left, t.right, n)
  OBVIOUS
<1>2. /\ Under(D, t.root) = S /\ t.root \in TreeNodes /\ S \subseteq TreeNodes /\ n \in S /\ n \in TreeNodes
      /\ Ordered(t.left, t.right, D, K, t.root, t.top, t.bottom) /\ Typed(t)
      /\ IsTree(t) /\ t.nodes \in Int /\ t.duplicates \in Int /\ t.ref[n] \in Nat
  BY <1>1, InsideFinite DEF Tidy, Typed
<1>3. Tree!OnlyChild(t, n) = c
  BY <1>1 DEF Tree!OnlyChild, Heir
<1>4. PICK u : u = Tree!Relink(t, p, c)
  OBVIOUS
<1>5. RelinkedTo(u, t, n, c)
  BY <1>2, <1>4, RelinkIs
<1>6. PICK x, l2, r2 : /\ x = (IF n = t.root THEN c ELSE t.root)
                         /\ l2 = CutLinks(t.left, n, c) /\ r2 = CutLinks(t.right, n, c)
  OBVIOUS
<1>7. PICK w : w = [u EXCEPT !.nodes = @ - 1, !.duplicates = @ - (t.ref[n] - 1), !.left[n] = NIL, !.right[n] = NIL]
  OBVIOUS
<1>8. w = [root |-> x, top |-> t.top, bottom |-> t.bottom, nodes |-> t.nodes - 1,
           duplicates |-> t.duplicates - (t.ref[n] - 1), recycle |-> t.recycle, free |-> t.free,
           data |-> t.data, ref |-> t.ref, left |-> l2, right |-> r2]
  <2>1. u = [root |-> x, top |-> t.top, bottom |-> t.bottom, nodes |-> t.nodes,
             duplicates |-> t.duplicates, recycle |-> t.recycle, free |-> t.free,
             data |-> t.data, ref |-> t.ref, left |-> Instead(t.left, n, c), right |-> Instead(t.right, n, c)]
    BY <1>5, <1>6 DEF RelinkedTo, IsTree
  <2>2. l2 = [Instead(t.left, n, c) EXCEPT ![n] = NIL] /\ r2 = [Instead(t.right, n, c) EXCEPT ![n] = NIL]
    BY <1>6 DEF CutLinks
  <2>3. QED
    BY <1>7, <2>1, <2>2
<1>9. /\ IsTree(w) /\ w.root = x /\ w.top = t.top /\ w.bottom = t.bottom /\ w.nodes = t.nodes - 1
      /\ w.duplicates = t.duplicates - (t.ref[n] - 1) /\ w.recycle = t.recycle /\ w.free = t.free
      /\ w.data = t.data /\ w.ref = t.ref /\ w.left = l2 /\ w.right = r2
  BY <1>8 DEF IsTree
<1>10. /\ x \in TreeNodes \cup {NIL} /\ Shape(l2, r2, F) /\ Under(F, x) = S \ {n}
       /\ Sorted(l2, r2, F, K, S \ {n})
       /\ \A m \in TreeNodes \ (S \ {n}) : l2[m] = NIL /\ r2[m] = NIL
  <2>1. PICK l, r, root, top, bottom, Z :
           /\ l = t.left /\ r = t.right /\ root = t.root /\ top = t.top /\ bottom = t.bottom /\ Z = S \ {n}
    OBVIOUS
  <2>2. /\ Ordered(l, r, D, K, root, top, bottom) /\ root # NIL /\ n \in D[root] /\ Lone(l, r, n)
        /\ c = Heir(l, r, n) /\ x = (IF n = root THEN c ELSE root) /\ l2 = CutLinks(l, n, c)
        /\ r2 = CutLinks(r, n, c) /\ F = Cut(D, n) /\ Z = D[root] \ {n}
    BY <1>1, <1>2, <1>6, <2>1
  <2>3. CutTo(l2, r2, F, K, Z, x)
    BY ONLY <2>2, CutLeaves
  <2>4. QED
    BY <2>1, <2>3 DEF CutTo
<1>11. PICK v : v = Tree!RefreshTop(w, n)
  OBVIOUS
<1>12. s = Tree!RefreshBottom(v, n)
  BY <1>3, <1>4, <1>7, <1>11 DEF Tree!Detach
<1>13. /\ IsTree(v) /\ ButEnds(v, w) /\ v.bottom = w.bottom
       /\ v.top = IF n # w.top THEN w.top
                  ELSE Tree!Rightest(w, IF w.left[n] # NIL THEN w.left[n] ELSE w.root)
  BY <1>9, <1>11, RefreshTopIs
<1>14. /\ IsTree(s) /\ ButEnds(s, v) /\ s.top = v.top
       /\ s.bottom = IF n # v.bottom THEN v.bottom
                     ELSE Tree!Leftest(v, IF v.right[n] # NIL THEN v.right[n] ELSE v.root)
  BY <1>12, <1>13, RefreshBottomIs
<1>15. /\ Shape(t.left, t.right, D) /\ Sorted(t.left, t.right, D, K, D[t.root])
       /\ Utmost(D, K, t.top, t.root) /\ Lowmost(D, K, t.bottom, t.root)
  BY <1>1, <1>2 DEF Ordered, Ended
<1>16. l2[n] = NIL /\ r2[n] = NIL
  BY <1>2, <1>10
<1>17. (x # NIL => Utmost(F, K, v.top, x)) /\ (x = NIL => v.top = NIL)
  <2>1. PICK l, r, root, y : l = t.left /\ r = t.right /\ root = t.root /\ y = v.top
    OBVIOUS
  <2>2. Bare(w, l, r, D, root, F, K, n)
    BY <1>1, <1>2, <1>9, <1>10, <1>15, <1>16, <2>1 DEF Bare, Loose
  <2>3. /\ Utmost(D, K, w.top, root) /\ w.root = x
        /\ y = (IF n # w.top THEN w.top ELSE Tree!Rightest(w, IF w.left[n] # NIL THEN w.left[n] ELSE w.root))
    BY <1>9, <1>13, <1>15, <2>1
  <2>4. TopNow(F, K, y, w.root)
    BY ONLY <2>2, <2>3, EndsAfter
  <2>5. QED
    BY <2>1, <2>3, <2>4 DEF TopNow
<1>18. (x # NIL => Lowmost(F, K, s.bottom, x)) /\ (x = NIL => s.bottom = NIL)
  <2>1. PICK l, r, root, y : l = t.left /\ r = t.right /\ root = t.root /\ y = s.bottom
    OBVIOUS
  <2>2. Bare(v, l, r, D, root, F, K, n)
    BY <1>1, <1>2, <1>9, <1>10, <1>13, <1>15, <1>16, <2>1 DEF ButEnds, Bare, Loose
  <2>3. /\ Lowmost(D, K, v.bottom, root) /\ v.root = x
        /\ y = (IF n # v.bottom THEN v.bottom ELSE Tree!Leftest(v, IF v.right[n] # NIL THEN v.right[n] ELSE v.root))
    BY <1>9, <1>13, <1>14, <1>15, <2>1 DEF ButEnds
  <2>4. LowNow(F, K, y, v.root)
    BY ONLY <2>2, <2>3, EndsAfter
  <2>5. QED
    BY <2>1, <2>3, <2>4 DEF LowNow
<1>19. /\ IsTree(s) /\ s.root = x /\ s.left = l2 /\ s.right = r2 /\ s.nodes = t.nodes - 1
       /\ s.duplicates = t.duplicates - (t.ref[n] - 1)
       /\ s.recycle = t.recycle /\ s.free = t.free /\ s.data = t.data /\ s.ref = t.ref
       /\ s.top = v.top
  BY <1>9, <1>13, <1>14 DEF ButEnds
<1>20. Lacks(s, t, n, c)
  BY <1>2, <1>6, <1>19 DEF Lacks, SameNodes
<1>21. Ended(Cut(D, n), KeyAt(t.data), s.root, s.top, s.bottom)
  BY <1>1, <1>17, <1>18, <1>19 DEF Ended
<1>22. Tidy(s, g, z, F)
  BY <1>1, <1>20, <1>21, LeavesKept
<1>23. Fewer(s, t, v0)
  BY <1>2, <1>19 DEF Fewer
<1>24. SameNodes(s, t) /\ Under(F, s.root) = S0
  BY <1>1, <1>10, <1>19 DEF SameNodes
<1>25. QED
  BY <1>22, <1>23, <1>24 DEF Detached

\* A node with the caller and one in the tree, next to which its key would be, change what they hold.
Neighbours(K, S, n, m) ==
    \A x \in S : x = n \/ (K[x] < K[n] /\ K[x] < K[m]) \/ (K[n] < K[x] /\ K[m] < K[x])
Traded(f, n, m) == [f EXCEPT ![n] = f[m], ![m] = f[n]]
Swapped(s, u, n, m) ==
    /\ IsTree(s) /\ s.root = u.root /\ s.top = u.top /\ s.bottom = u.bottom /\ s.nodes = u.nodes
    /\ s.duplicates = u.duplicates /\ s.recycle = u.recycle /\ s.free = u.free
    /\ s.left = u.left /\ s.right = u.right
    /\ s.data = Traded(u.data, n, m) /\ s.ref = Traded(u.ref, n, m)

LEMMA SwapKept ==
    ASSUME NEW u, NEW h, NEW b, NEW D, Tidy(u, h, b, D), NEW n \in Under(D, u.root), NEW m \in h,
           Neighbours(KeyAt(u.data), Under(D, u.root), n, m), NEW s, Swapped(s, u, n, m),
           NEW i, i = TreeKey[u.data[n]], NEW j, j = TreeKey[u.data[m]], NEW v, v = u.ref[m],
           NEW z, z = [b EXCEPT ![i] = 0, ![j] = v]
    PROVE  Tidy(s, h, z, D)
<1>1. PICK S, K, J : S = Under(D, u.root) /\ K = KeyAt(u.data) /\ J = KeyAt(s.data)
  OBVIOUS
<1>2. /\ S \subseteq TreeNodes /\ u.nodes = Cardinality(S) /\ n \in S /\ n \in TreeNodes
      /\ Ordered(u.left, u.right, D, K, u.root, u.top, u.bottom)
  BY <1>1, InsideFinite DEF Tidy
<1>3. Typed(u) /\ Owned(S, u.recycle, h, u.free) /\ Valued(S \cup h, u.data, u.ref) /\ Bagged(S, K, u.ref, b)
  BY <1>1, <1>2 DEF Tidy
<1>4. m \in TreeNodes /\ m \notin S /\ m # n
  BY <1>2, <1>3 DEF Owned
<1>5. PICK d, e, f, g : d = u.data /\ e = u.ref /\ f = s.data /\ g = s.ref
  OBVIOUS
<1>6. d \in [TreeNodes -> Tree!Data \cup {NIL}] /\ e \in [TreeNodes -> Nat]
  BY <1>3, <1>5 DEF Typed
<1>7. f = Traded(d, n, m) /\ g = Traded(e, n, m)
  BY <1>5 DEF Swapped
<1>8. /\ f \in [TreeNodes -> Tree!Data \cup {NIL}] /\ g \in [TreeNodes -> Nat]
      /\ f[n] = d[m] /\ f[m] = d[n] /\ g[n] = e[m] /\ g[m] = e[n]
      /\ \A x \in TreeNodes : x # n /\ x # m => f[x] = d[x] /\ g[x] = e[x]
  BY <1>2, <1>4, <1>6, <1>7 DEF Traded
<1>9. Typed(s)
  BY <1>3, <1>5, <1>8 DEF Typed, Swapped
<1>10. /\ \A x \in TreeNodes : K[x] = TreeKey[d[x]] /\ J[x] = TreeKey[f[x]]
       /\ K[n] = i /\ K[m] = j /\ J[n] = j
  BY <1>1, <1>2, <1>4, <1>5, <1>8 DEF KeyAt
<1>11. \A x \in S \cup h : TreeKey[d[x]] \in Tree!Keys /\ TreeKey[d[x]] \in Nat /\ d[x] \in Tree!Data /\ e[x] > 0
  BY <1>3, <1>5, KeyFacts DEF Valued
<1>12. i \in Tree!Keys /\ j \in Tree!Keys /\ i \in Nat /\ j \in Nat
  BY <1>1, <1>5, <1>11
<1>13. \A x \in S : x # n => J[x] = K[x] /\ K[x] \in Nat /\ ((K[x] < i /\ K[x] < j) \/ (i < K[x] /\ j < K[x]))
  <2>1. \A x \in S : x \in TreeNodes /\ x # m
    BY <1>2, <1>4
  <2>2. \A x \in S : x # n => (K[x] < i /\ K[x] < j) \/ (i < K[x] /\ j < K[x])
    BY <1>1, <1>10 DEF Neighbours
  <2>3. QED
    BY <1>8, <1>10, <1>11, <2>1, <2>2
<1>14. Ordered(u.left, u.right, D, J, u.root, u.top, u.bottom)
  <2>1. \A x \in S : J[x] \in Int
    BY <1>10, <1>12, <1>13
  <2>2. \A x, y \in S : K[x] < K[y] => J[x] < J[y]
    <3>1. ASSUME NEW x \in S, NEW y \in S, K[x] < K[y] PROVE J[x] < J[y]
      <4>1. CASE x = n
        BY <1>10, <1>12, <1>13, <3>1, <4>1
      <4>2. CASE x # n
        BY <1>10, <1>12, <1>13, <3>1, <4>2
      <4>3. QED
        BY <4>1, <4>2
    <3>2. QED
      BY <3>1
  <2>3. QED
    BY <1>1, <1>2, <2>1, <2>2, Renamed
<1>15. Bagged(S, J, g, z)
  <2>1. /\ b \in [Tree!Keys -> Nat] /\ \A x \in S : e[x] = b[K[x]]
        /\ \A k \in Tree!Keys : b[k] > 0 => \E x \in S : K[x] = k
    BY <1>3, <1>5 DEF Bagged
  <2>2. v \in Nat /\ v = e[m]
    BY <1>4, <1>5, <1>6
  <2>3. z \in [Tree!Keys -> Nat] /\ \A k \in Tree!Keys : z[k] = IF k = j THEN v ELSE IF k = i THEN 0 ELSE b[k]
    BY <1>12, <2>1, <2>2
  <2>4. \A x \in S : g[x] = z[J[x]]
    <3>1. ASSUME NEW x \in S PROVE g[x] = z[J[x]]
      <4>1. CASE x = n
        BY <1>8, <1>10, <1>12, <2>2, <2>3, <4>1
      <4>2. CASE x # n
        <5>1. J[x] = K[x] /\ K[x] # i /\ K[x] # j
          BY <1>12, <1>13, <4>2
        <5>2. K[x] \in Tree!Keys /\ g[x] = e[x]
          BY <1>2, <1>4, <1>8, <1>10, <1>11, <4>2
        <5>3. QED
          BY <2>1, <2>3, <5>1, <5>2
      <4>3. QED
        BY <4>1, <4>2
    <3>2. QED
      BY <3>1
  <2>5. \A k \in Tree!Keys : z[k] > 0 => \E x \in S : J[x] = k
    <3>1. ASSUME NEW k \in Tree!Keys, z[k] > 0 PROVE \E x \in S : J[x] = k
      <4>1. CASE k = j
        BY <1>2, <1>10, <4>1
      <4>2. CASE k # j
        <5>1. k # i /\ b[k] > 0
          BY <2>3, <3>1, <4>2
        <5>2. PICK x \in S : K[x] = k
          BY <2>1, <5>1
        <5>3. QED
          BY <1>10, <1>13, <5>1, <5>2
      <4>3. QED
        BY <4>1, <4>2
    <3>2. QED
      BY <3>1
  <2>6. QED
    BY <2>3, <2>4, <2>5 DEF Bagged
<1>16. Valued(S \cup h, f, g)
  <2>1. \A x \in S \cup h : x \in TreeNodes
    BY <1>2, <1>3 DEF Owned
  <2>2. QED
    BY <1>2, <1>8, <1>11, <2>1 DEF Valued
<1>17. QED
  BY <1>1, <1>2, <1>3, <1>5, <1>9, <1>14, <1>15, <1>16 DEF Tidy, Swapped

\* A value that is found is in the node that its path ends at, with its references.
LEMMA FoundIs ==
    ASSUME NEW t, NEW h, NEW b, NEW D, Tidy(t, h, b, D), NEW d \in Tree!Data, Tree!Found(t, TreeKey, d),
           NEW p, p = Tree!Path(t, TreeKey, d), NEW n, n = p[Len(p)]
    PROVE  /\ t.root # NIL /\ Led(p, t.left, t.right, D, t.root) /\ n \in D[t.root]
           /\ TreeKey[t.data[n]] = TreeKey[d] /\ t.ref[n] = b[TreeKey[d]]
<1>1. PICK K : K = KeyAt(t.data)
  OBVIOUS
<1>2. t.root # NIL /\ Led(p, t.left, t.right, D, t.root) /\ n \in D[t.root] /\ K[n] = TreeKey[d]
  BY <1>1, SearchIs
<1>3. Under(D, t.root) = D[t.root] /\ n \in TreeNodes
  BY <1>2, InsideFinite DEF Tidy
<1>4. TreeKey[t.data[n]] = TreeKey[d]
  BY <1>1, <1>2, <1>3 DEF KeyAt
<1>5. t.ref[n] = b[TreeKey[d]]
  BY <1>1, <1>2, <1>3 DEF Tidy, Bagged
<1>6. QED
  BY <1>2, <1>4, <1>5

\* And a value that is in the tree is found.
PathTo(p, t, D, m) == Led(p, t.left, t.right, D, t.root) /\ m = p[Len(p)]

LEMMA InsideIsFound ==
    ASSUME NEW t, NEW h, NEW b, NEW D, Tidy(t, h, b, D), t.root # NIL, NEW m \in D[t.root],
           NEW p, p = Tree!Path(t, TreeKey, t.data[m])
    PROVE  PathTo(p, t, D, m)
<1>1. PICK K, L, d, root : K = KeyAt(t.data) /\ L = p[Len(p)] /\ d = t.data[m] /\ root = t.root
  OBVIOUS
<1>2. /\ Under(D, root) = D[root] /\ root \in TreeNodes /\ m \in TreeNodes /\ m \in D[root]
      /\ Ordered(t.left, t.right, D, K, root, t.top, t.bottom) /\ Valued(D[root] \cup h, t.data, t.ref)
  <2>1. /\ Ordered(t.left, t.right, D, K, root, t.top, t.bottom)
        /\ Valued(Under(D, root) \cup h, t.data, t.ref) /\ root # NIL /\ m \in D[root]
    BY <1>1 DEF Tidy
  <2>2. Under(D, root) = D[root] /\ root \in TreeNodes
    BY <2>1, InsideFinite
  <2>3. m \in TreeNodes
    BY <2>1, <2>2, Below DEF Ordered
  <2>4. QED
    BY <2>1, <2>2, <2>3
<1>3. d \in Tree!Data /\ K[m] = TreeKey[d]
  BY <1>1, <1>2 DEF Valued, KeyAt
<1>4. Led(p, t.left, t.right, D, root) /\ L \in D[root] /\ Landed(L, t.left, t.right, D, K, TreeKey[d], root)
  BY <1>1, <1>3, SearchIs
<1>5. K[L] = K[m]
  BY <1>2, <1>3, <1>4 DEF Landed
<1>6. L = m
  <2>1. PICK l, r : l = t.left /\ r = t.right
    OBVIOUS
  <2>2. Shape(l, r, D) /\ Sorted(l, r, D, K, D[root])
    BY <1>2, <2>1 DEF Ordered
  <2>3. QED
    BY <1>2, <1>4, <1>5, <2>2, KeysDiffer
<1>7. QED
  BY <1>1, <1>4, <1>6 DEF PathTo

\* One field of a node is set.
SetFields(w, u, d, r) ==
    /\ IsTree(w) /\ w.root = u.root /\ w.top = u.top /\ w.bottom = u.bottom /\ w.nodes = u.nodes
    /\ w.duplicates = u.duplicates /\ w.recycle = u.recycle /\ w.free = u.free
    /\ w.left = u.left /\ w.right = u.right /\ w.data = d /\ w.ref = r

LEMMA SetData ==
    ASSUME NEW u, IsTree(u), NEW n, NEW x, NEW w, w = [u EXCEPT !.data[n] = x], NEW d, d = [u.data EXCEPT ![n] = x],
           NEW r, r = u.ref
    PROVE  SetFields(w, u, d, r)
<1>1. w = [root |-> u.root, top |-> u.top, bottom |-> u.bottom, nodes |-> u.nodes,
           duplicates |-> u.duplicates, recycle |-> u.recycle, free |-> u.free,
           data |-> d, ref |-> u.ref, left |-> u.left, right |-> u.right]
  BY DEF IsTree
<1>2. QED
  BY <1>1 DEF IsTree, SetFields

LEMMA SetRef ==
    ASSUME NEW u, IsTree(u), NEW n, NEW x, NEW w, w = [u EXCEPT !.ref[n] = x], NEW r, r = [u.ref EXCEPT ![n] = x],
           NEW d, d = u.data
    PROVE  SetFields(w, u, d, r)
<1>1. w = [root |-> u.root, top |-> u.top, bottom |-> u.bottom, nodes |-> u.nodes,
           duplicates |-> u.duplicates, recycle |-> u.recycle, free |-> u.free,
           data |-> u.data, ref |-> r, left |-> u.left, right |-> u.right]
  BY DEF IsTree
<1>2. QED
  BY <1>1 DEF IsTree, SetFields

LEMMA SwapIs ==
    ASSUME NEW u, IsTree(u), NEW n, NEW c, NEW x, x = u.data[c], NEW y, y = u.data[n], NEW v, v = u.ref[c],
           NEW w, w = u.ref[n],
           NEW s, s = [u EXCEPT !.data[n] = x, !.data[c] = y, !.ref[n] = v, !.ref[c] = w]
    PROVE  Swapped(s, u, n, c)
<1>1. PICK a, e, d, r : /\ a = [u.data EXCEPT ![n] = x] /\ d = [a EXCEPT ![c] = y]
                        /\ e = [u.ref EXCEPT ![n] = v] /\ r = [e EXCEPT ![c] = w]
  OBVIOUS
<1>2. PICK r0 : r0 = u.ref
  OBVIOUS
<1>3. d = Traded(u.data, n, c) /\ r = Traded(u.ref, n, c)
  BY <1>1 DEF Traded
<1>4. PICK u1, u2, u3 : u1 = [u EXCEPT !.data[n] = x] /\ u2 = [u1 EXCEPT !.data[c] = y] /\ u3 = [u2 EXCEPT !.ref[n] = v]
  OBVIOUS
<1>5. /\ u1 = [u EXCEPT !.data[n] = x] /\ u2 = [u1 EXCEPT !.data[c] = y] /\ u3 = [u2 EXCEPT !.ref[n] = v]
      /\ s = [u3 EXCEPT !.ref[c] = w]
  BY <1>4
<1>6. SetFields(u1, u, a, r0)
  BY <1>1, <1>4, <1>2, SetData
<1>7. u2 = [u1 EXCEPT !.data[c] = y] /\ IsTree(u1) /\ d = [u1.data EXCEPT ![c] = y] /\ r0 = u1.ref
  BY <1>1, <1>5, <1>6 DEF SetFields
<1>8. SetFields(u2, u1, d, r0)
  BY ONLY <1>7, SetData
<1>9. u3 = [u2 EXCEPT !.ref[n] = v] /\ IsTree(u2) /\ e = [u2.ref EXCEPT ![n] = v] /\ d = u2.data
  BY <1>1, <1>5, <1>6, <1>2, <1>8 DEF SetFields
<1>10. SetFields(u3, u2, d, e)
  BY ONLY <1>9, SetRef
<1>11. s = [u3 EXCEPT !.ref[c] = w] /\ IsTree(u3) /\ r = [u3.ref EXCEPT ![c] = w] /\ d = u3.data
  BY <1>1, <1>5, <1>10 DEF SetFields
<1>12. SetFields(s, u3, d, r)
  BY ONLY <1>11, SetRef
<1>13. QED
  BY <1>3, <1>6, <1>8, <1>10, <1>12 DEF SetFields, Swapped

\* Without x, in the place of c, which had v references, the tree is s.
Popped(s, t, h, b, D, v, x, c) ==
    (\E E : Tidy(s, h, b, E)) /\ Fewer(s, t, v) /\ x \in D[t.root] /\ c \in D[t.root]

LEMMA PopKept ==
    ASSUME NEW t, NEW h, NEW b, NEW D, Tidy(t, h, b, D), NEW d \in Tree!Data, Tree!Found(t, TreeKey, d),
           NEW p, p = Tree!Path(t, TreeKey, d), NEW n, n = p[Len(p)],
           NEW c, c = (IF Tree!HasBoth(t, n) THEN Tree!Rightest(t, t.left[n]) ELSE n),
           NEW q, q = Tree!Pop(t, TreeKey, d), NEW s, s = q.tree, NEW x, x = q.node,
           NEW g, g = h \cup {x}, NEW z, z = Without(b, TreeKey[d]), NEW v0, v0 = t.ref[c]
    PROVE  Popped(s, t, g, z, D, v0, x, c)
<1>1. PICK K, l, r, root : K = KeyAt(t.data) /\ l = t.left /\ r = t.right /\ root = t.root
  OBVIOUS
<1>2. /\ t.root # NIL /\ Led(p, t.left, t.right, D, t.root) /\ n \in D[t.root]
      /\ TreeKey[t.data[n]] = TreeKey[d] /\ t.ref[n] = b[TreeKey[d]]
  BY FoundIs
<1>3. /\ Under(D, root) = D[root] /\ root \in TreeNodes /\ n \in TreeNodes /\ D[root] \subseteq TreeNodes
      /\ Shape(l, r, D) /\ Sorted(l, r, D, K, D[root])
  BY <1>1, <1>2, InsideFinite DEF Tidy, Ordered
<1>4. /\ Typed(t) /\ Valued(D[root] \cup h, t.data, t.ref) /\ Bagged(D[root], K, t.ref, b)
      /\ Owned(D[root], t.recycle, h, t.free)
  BY <1>1, <1>3 DEF Tidy
<1>5. CASE ~ Tree!HasBoth(t, n)
  <2>1. q = [node |-> n, tree |-> Tree!Detach(t, p)]
    BY <1>5 DEF Tree!Pop
  <2>2. s = Tree!Detach(t, p) /\ x = n /\ c = n
    BY <1>5, <2>1
  <2>3. Lone(t.left, t.right, n)
    BY <1>5 DEF Tree!HasBoth, Lone
  <2>4. g = h \cup {n} /\ z = Without(b, TreeKey[t.data[n]])
    BY <1>2, <2>2
  <2>5. PICK F, v, S : F = Cut(D, n) /\ v = t.ref[n] /\ S = D[t.root] \ {n}
    OBVIOUS
  <2>6. /\ Tidy(t, h, b, D) /\ t.root # NIL /\ Led(p, t.left, t.right, D, t.root) /\ n \in D[t.root]
        /\ n = p[Len(p)] /\ Lone(t.left, t.right, n) /\ s = Tree!Detach(t, p) /\ g = h \cup {n}
        /\ z = Without(b, TreeKey[t.data[n]]) /\ F = Cut(D, n) /\ v = t.ref[n] /\ S = D[t.root] \ {n}
    BY <1>2, <2>2, <2>3, <2>4, <2>5
  <2>7. Detached(s, t, g, z, F, v, S)
    BY ONLY <2>6, DetachKept
  <2>8. Tidy(s, g, z, F) /\ Fewer(s, t, v)
    BY <2>7 DEF Detached
  <2>9. QED
    BY <1>2, <2>2, <2>5, <2>8 DEF Popped
<1>6. CASE Tree!HasBoth(t, n)
  <2>1. l[n] # NIL /\ r[n] # NIL /\ c = Tree!Rightest(t, l[n])
    BY <1>1, <1>6 DEF Tree!HasBoth
  <2>2. l[n] \in TreeNodes /\ l[n] \in D[root]
    <3>1. l[n] \in D[n] /\ l[n] \in TreeNodes
      BY <1>3, <2>1, ShapeOf
    <3>2. D[n] \subseteq D[root]
      BY <1>1, <1>2, <1>3, Below
    <3>3. QED
      BY <3>1, <3>2
  <2>3. Utmost(D, K, c, l[n]) /\ r[c] = NIL
    <3>1. PICK e : e = l[n]
      OBVIOUS
    <3>2. Shape(t.left, t.right, D) /\ Sorted(t.left, t.right, D, K, D[root]) /\ e \in D[root]
      BY <1>1, <1>3, <2>2, <3>1
    <3>3. Utmost(D, K, Tree!Rightest(t, e), e) /\ t.right[Tree!Rightest(t, e)] = NIL
      BY <1>3, <3>2, RightestIs
    <3>4. QED
      BY <1>1, <2>1, <3>1, <3>3
  <2>4. /\ c \in D[root] /\ K[c] < K[n] /\ K[c] \in Int
        /\ \A y \in D[root] : y = n \/ y = c \/ K[y] < K[c] \/ K[n] < K[y]
    <3>1. n \in D[root]
      BY <1>1, <1>2
    <3>2. QED
      BY <1>3, <2>1, <2>3, <3>1, NothingBefore
  <2>5. c \in TreeNodes /\ c # n /\ K[n] \in Int
    <3>1. K[n] \in Int
      BY <1>1, <1>2, <1>3 DEF Sorted
    <3>2. QED
      BY <1>3, <2>4, <3>1
  <2>6. PICK u, F, f, y, w, v, Z : /\ v = t.ref[c] /\ Z = D[t.root] \ {c}
                                   /\ w = Tree!Path(t, TreeKey, t.data[c]) /\ u = Tree!Detach(t, w)
                                   /\ F = Cut(D, c)
                                   /\ f = h \cup {c} /\ y = Without(b, TreeKey[t.data[c]])
    OBVIOUS
  <2>7. Led(w, t.left, t.right, D, t.root) /\ c = w[Len(w)] /\ Lone(t.left, t.right, c) /\ c \in D[t.root]
    <3>1. c \in D[t.root]
      BY <1>1, <2>4
    <3>2. Led(w, t.left, t.right, D, t.root) /\ c = w[Len(w)]
      <4>1. Tidy(t, h, b, D) /\ t.root # NIL /\ c \in D[t.root] /\ w = Tree!Path(t, TreeKey, t.data[c])
        BY <1>2, <2>6, <3>1
      <4>2. PathTo(w, t, D, c)
        BY ONLY <4>1, InsideIsFound
      <4>3. QED
        BY <4>2 DEF PathTo
    <3>3. Lone(t.left, t.right, c)
      BY <1>1, <2>3 DEF Lone
    <3>4. QED
      BY <3>1, <3>2, <3>3
  <2>8. Detached(u, t, f, y, F, v, Z)
    BY <1>2, <2>6, <2>7, DetachKept
  <2>9. Tidy(u, f, y, F) /\ Fewer(u, t, v) /\ SameNodes(u, t) /\ Under(F, u.root) = Z
    BY <2>8 DEF Detached
  <2>10. u.data = t.data /\ u.ref = t.ref /\ IsTree(u)
    BY <2>9 DEF SameNodes, Tidy, Typed
  <2>11. q = [node |-> c, tree |-> [u EXCEPT !.data[n] = t.data[c], !.data[c] = t.data[n],
                                            !.ref[n] = t.ref[c], !.ref[c] = t.ref[n]]]
    BY <1>1, <1>6, <2>1, <2>6 DEF Tree!Pop
  <2>12. x = c /\ s = [u EXCEPT !.data[n] = t.data[c], !.data[c] = t.data[n],
                                !.ref[n] = t.ref[c], !.ref[c] = t.ref[n]]
    <3>1. PICK w2 : w2 = [u EXCEPT !.data[n] = t.data[c], !.data[c] = t.data[n],
                                   !.ref[n] = t.ref[c], !.ref[c] = t.ref[n]]
      OBVIOUS
    <3>2. q = [node |-> c, tree |-> w2]
      BY <2>11, <3>1
    <3>3. x = c /\ s = w2
      BY <3>2
    <3>4. QED
      BY <3>1, <3>3
  <2>13. Swapped(s, u, n, c)
    <3>1. PICK x1, x2, v1, v2 : x1 = t.data[c] /\ x2 = t.data[n] /\ v1 = t.ref[c] /\ v2 = t.ref[n]
      OBVIOUS
    <3>2. /\ s = [u EXCEPT !.data[n] = x1, !.data[c] = x2, !.ref[n] = v1, !.ref[c] = v2]
          /\ x1 = u.data[c] /\ x2 = u.data[n] /\ v1 = u.ref[c] /\ v2 = u.ref[n] /\ IsTree(u)
      BY <2>10, <2>12, <3>1
    <3>3. QED
      BY ONLY <3>2, SwapIs
  <2>14. Swapped(s, u, n, c) /\ s.nodes = u.nodes /\ s.duplicates = u.duplicates
    BY <2>13 DEF Swapped
  <2>15. n \in Under(F, u.root) /\ c \in f
    BY <1>2, <2>5, <2>6, <2>9
  <2>16. Neighbours(KeyAt(u.data), Under(F, u.root), n, c)
    <3>1. \A a \in D[root] : K[a] \in Int
      BY <1>3 DEF Sorted
    <3>2. \A a \in D[root] \ {c} : a = n \/ (K[a] < K[n] /\ K[a] < K[c]) \/ (K[n] < K[a] /\ K[c] < K[a])
      BY <2>4, <2>5, <3>1
    <3>3. KeyAt(u.data) = K /\ Under(F, u.root) = D[root] \ {c}
      BY <1>1, <2>6, <2>9, <2>10
    <3>4. QED
      BY <3>2, <3>3 DEF Neighbours
  <2>17. PICK i, j : i = TreeKey[u.data[n]] /\ j = TreeKey[u.data[c]]
    OBVIOUS
  <2>18. u.ref[c] = v
    BY <2>6, <2>10
  <2>19. z = [y EXCEPT ![i] = 0, ![j] = v]
    <3>1. i = TreeKey[d] /\ j = TreeKey[t.data[c]] /\ v = t.ref[c]
      BY <1>2, <2>6, <2>10, <2>17
    <3>2. K[c] = j /\ K[n] = i
      BY <1>1, <1>2, <1>3, <2>5, <3>1 DEF KeyAt
    <3>3. i # j
      BY <2>4, <2>5, <3>2
    <3>4. t.ref[c] = b[K[c]]
      BY <1>4, <2>4 DEF Bagged
    <3>5. i # j /\ v = b[j]
      BY <3>1, <3>2, <3>3, <3>4
    <3>6. b \in [Tree!Keys -> Nat]
      BY <1>4 DEF Bagged
    <3>7. y = [b EXCEPT ![j] = 0] /\ z = [b EXCEPT ![i] = 0]
      BY <2>6, <3>1 DEF Without
    <3>8. QED
      BY <3>5, <3>6, <3>7
  <2>20. Tidy(s, f, z, F)
    BY ONLY <2>9, <2>14, <2>15, <2>16, <2>17, <2>19, <2>18, SwapKept
  <2>21. Fewer(s, t, t.ref[c])
    BY <2>6, <2>9, <2>14 DEF Fewer
  <2>22. g = f
    BY <2>6, <2>12
  <2>23. QED
    BY <2>7, <2>12, <2>20, <2>21, <2>22 DEF Popped
<1>7. QED
  BY <1>5, <1>6

\* A reference to a node that has more goes.
Referred(s, t, n, v, j) ==
    /\ IsTree(s) /\ s.root = t.root /\ s.top = t.top /\ s.bottom = t.bottom /\ s.nodes = t.nodes
    /\ s.duplicates = j /\ s.left = t.left /\ s.right = t.right /\ s.recycle = t.recycle
    /\ s.free = t.free /\ s.data = t.data /\ s.ref = [t.ref EXCEPT ![n] = v]

LEMMA RefKept ==
    ASSUME NEW t, NEW h, NEW b, NEW D, Tidy(t, h, b, D), NEW n \in Under(D, t.root),
           NEW v \in Nat, v > 0, NEW j \in Int,
           NEW s, Referred(s, t, n, v, j),
           NEW k, k = TreeKey[t.data[n]], NEW z, z = [b EXCEPT ![k] = v]
    PROVE  Tidy(s, h, z, D)
<1>1. /\ IsTree(s) /\ s.root = t.root /\ s.top = t.top /\ s.bottom = t.bottom /\ s.nodes = t.nodes
       /\ s.duplicates = j /\ s.left = t.left /\ s.right = t.right /\ s.recycle = t.recycle
       /\ s.free = t.free /\ s.data = t.data /\ s.ref = [t.ref EXCEPT ![n] = v]
  BY DEF Referred
<1>2. PICK S, K : S = Under(D, t.root) /\ K = KeyAt(t.data)
  OBVIOUS
<1>3. /\ S \subseteq TreeNodes /\ t.nodes = Cardinality(S) /\ n \in S /\ n \in TreeNodes
      /\ Ordered(t.left, t.right, D, K, t.root, t.top, t.bottom)
  BY <1>2, InsideFinite DEF Tidy
<1>4. Typed(t) /\ Owned(S, t.recycle, h, t.free) /\ Valued(S \cup h, t.data, t.ref) /\ Bagged(S, K, t.ref, b)
  BY <1>2 DEF Tidy
<1>5. PICK e, g : e = t.ref /\ g = s.ref
  OBVIOUS
<1>6. e \in [TreeNodes -> Nat] /\ g = [e EXCEPT ![n] = v]
  BY <1>4, <1>5, <1>1 DEF Typed
<1>7. g \in [TreeNodes -> Nat] /\ g[n] = v /\ \A m \in TreeNodes : m # n => g[m] = e[m]
  BY <1>3, <1>6
<1>8. Typed(s)
  BY <1>4, <1>5, <1>7, <1>1 DEF Typed
<1>9. K[n] = k /\ k \in Tree!Keys
  <2>1. t.data[n] \in Tree!Data
    BY <1>3, <1>4 DEF Valued
  <2>2. QED
    BY <1>2, <1>3, <2>1, KeyFacts DEF KeyAt
<1>10. \A m \in S : m # n => K[m] # k
  <2>1. PICK l, r, root : l = t.left /\ r = t.right /\ root = t.root
    OBVIOUS
  <2>2. Shape(l, r, D) /\ root \in TreeNodes /\ Sorted(l, r, D, K, D[root]) /\ S = D[root]
    BY <1>2, <1>3, <2>1 DEF Ordered, Under
  <2>3. ASSUME NEW m \in S, m # n PROVE K[m] # k
    <3>1. m \in D[root] /\ n \in D[root]
      BY <1>3, <2>2
    <3>2. K[m] # K[n]
      BY <2>2, <2>3, <3>1, KeysDiffer
    <3>3. QED
      BY <1>9, <3>2
  <2>4. QED
    BY <2>3
<1>11. Bagged(S, K, g, z)
  <2>1. /\ b \in [Tree!Keys -> Nat] /\ \A x \in S : e[x] = b[K[x]]
        /\ \A i \in Tree!Keys : b[i] > 0 => \E x \in S : K[x] = i
    BY <1>4, <1>5 DEF Bagged
  <2>2. z \in [Tree!Keys -> Nat] /\ \A i \in Tree!Keys : z[i] = IF i = k THEN v ELSE b[i]
    BY <1>9, <2>1
  <2>3. \A x \in S : g[x] = z[K[x]]
    <3>1. ASSUME NEW x \in S PROVE g[x] = z[K[x]]
      <4>1. CASE x = n
        BY <1>7, <1>9, <2>2, <4>1
      <4>2. CASE x # n
        <5>1. K[x] \in Tree!Keys
          <6>1. t.data[x] \in Tree!Data /\ x \in TreeNodes
            BY <1>3, <1>4 DEF Valued
          <6>2. QED
            BY <1>2, <6>1, KeyFacts DEF KeyAt
        <5>2. QED
          BY <1>3, <1>7, <1>10, <2>1, <2>2, <4>2, <5>1
      <4>3. QED
        BY <4>1, <4>2
    <3>2. QED
      BY <3>1
  <2>4. \A i \in Tree!Keys : z[i] > 0 => \E x \in S : K[x] = i
    BY <1>3, <1>9, <2>1, <2>2
  <2>5. QED
    BY <2>2, <2>3, <2>4 DEF Bagged
<1>12. Valued(S \cup h, t.data, g)
  <2>1. \A m \in S \cup h : m \in TreeNodes /\ t.data[m] \in Tree!Data /\ e[m] > 0
    BY <1>3, <1>4, <1>5 DEF Valued, Owned
  <2>2. QED
    BY <1>7, <2>1 DEF Valued
<1>13. QED
  BY <1>2, <1>3, <1>4, <1>5, <1>8, <1>11, <1>12, <1>1 DEF Tidy

\* What Delete does with a node that lacks a child.
Dropped(t, p, n) == [Tree!Trash(Tree!Relink(t, p, Tree!OnlyChild(t, n)), n) EXCEPT !.nodes = @ - 1]

LEMMA DropKept ==
    ASSUME NEW t, NEW h, NEW b, NEW D, Tidy(t, h, b, D), t.root # NIL,
           NEW p, Led(p, t.left, t.right, D, t.root), NEW n \in D[t.root], n = p[Len(p)],
           Lone(t.left, t.right, n), NEW s, s = Dropped(t, p, n),
           NEW z, z = Without(b, TreeKey[t.data[n]]), NEW F, F = Cut(D, n)
    PROVE  Tidy(s, h, z, F) /\ Counts(s, t, - 1, 0)
<1>1. PICK S, K, c : S = D[t.root] /\ K = KeyAt(t.data) /\ c = Heir(t.left, t.right, n)
  OBVIOUS
<1>2. /\ Under(D, t.root) = S /\ t.root \in TreeNodes /\ S \subseteq TreeNodes /\ n \in S /\ n \in TreeNodes
      /\ Ordered(t.left, t.right, D, K, t.root, t.top, t.bottom) /\ Typed(t)
      /\ IsTree(t) /\ t.nodes \in Int /\ t.duplicates \in Int /\ Owned(S, t.recycle, h, t.free)
  BY <1>1, InsideFinite DEF Tidy, Typed
<1>3. Tree!OnlyChild(t, n) = c
  BY <1>1 DEF Tree!OnlyChild, Heir
<1>4. PICK u : u = Tree!Relink(t, p, c)
  OBVIOUS
<1>5. RelinkedTo(u, t, n, c)
  BY <1>2, <1>4, RelinkIs
<1>6. PICK x, l2, r2, E, Z : /\ x = (IF n = t.root THEN c ELSE t.root) /\ E = Shrunk(D, n) /\ Z = S \ {n}
                             /\ l2 = Instead(t.left, n, c) /\ r2 = Instead(t.right, n, c)
  OBVIOUS
<1>7. /\ x \in TreeNodes \cup {NIL} /\ x # n /\ Shape(l2, r2, E) /\ Under(E, x) = Z /\ Sorted(l2, r2, E, K, Z)
      /\ Under(F, x) = Z
  <2>1. PICK l, r, root, top, bottom :
           /\ l = t.left /\ r = t.right /\ root = t.root /\ top = t.top /\ bottom = t.bottom
    OBVIOUS
  <2>2. /\ Ordered(l, r, D, K, root, top, bottom) /\ root # NIL /\ n \in D[root] /\ Lone(l, r, n)
        /\ c = Heir(l, r, n) /\ x = (IF n = root THEN c ELSE root)
    BY <1>1, <1>2, <1>6, <2>1
  <2>3. /\ x \in TreeNodes \cup {NIL} /\ x # n
        /\ Shape(Instead(l, n, c), Instead(r, n, c), Shrunk(D, n))
        /\ Under(Shrunk(D, n), x) = D[root] \ {n}
        /\ Sorted(Instead(l, n, c), Instead(r, n, c), Shrunk(D, n), K, D[root] \ {n})
        /\ Under(Cut(D, n), x) = D[root] \ {n}
    BY ONLY <2>2, CutIs
  <2>4. QED
    BY <1>1, <1>6, <2>1, <2>3
<1>8. /\ IsTree(u) /\ u.root = x /\ u.left = l2 /\ u.right = r2 /\ u.top = t.top /\ u.bottom = t.bottom
      /\ u.nodes = t.nodes /\ u.duplicates = t.duplicates /\ u.recycle = t.recycle /\ u.free = t.free
      /\ u.data = t.data /\ u.ref = t.ref
  BY <1>5, <1>6 DEF RelinkedTo
<1>9. PICK v, y : v = Tree!RefreshTop(u, n) /\ y = Tree!RefreshBottom(v, n)
  OBVIOUS
<1>10. /\ IsTree(v) /\ ButEnds(v, u) /\ v.bottom = u.bottom
       /\ v.top = IF n # u.top THEN u.top
                  ELSE Tree!Rightest(u, IF u.left[n] # NIL THEN u.left[n] ELSE u.root)
  BY <1>8, <1>9, RefreshTopIs
<1>11. /\ IsTree(y) /\ ButEnds(y, v) /\ y.top = v.top
       /\ y.bottom = IF n # v.bottom THEN v.bottom
                     ELSE Tree!Leftest(v, IF v.right[n] # NIL THEN v.right[n] ELSE v.root)
  BY <1>9, <1>10, RefreshBottomIs
<1>12. PICK s0 : s0 = Tree!Trash(u, n)
  OBVIOUS
<1>13. Trashed(s0, u, n, y)
  <2>1. y = Tree!RefreshBottom(Tree!RefreshTop(u, n), n) /\ IsTree(u)
    BY <1>8, <1>9
  <2>2. QED
    BY <1>12, <2>1, TrashIs
<1>14. s = [s0 EXCEPT !.nodes = @ - 1]
  BY <1>3, <1>4, <1>12 DEF Dropped
<1>15. s = [root |-> s0.root, top |-> s0.top, bottom |-> s0.bottom, nodes |-> s0.nodes - 1,
            duplicates |-> s0.duplicates, recycle |-> s0.recycle, free |-> s0.free,
            data |-> s0.data, ref |-> s0.ref, left |-> s0.left, right |-> s0.right]
  BY <1>13, <1>14 DEF Trashed, IsTree
<1>16. /\ IsTree(s) /\ s.root = s0.root /\ s.top = s0.top /\ s.bottom = s0.bottom /\ s.nodes = s0.nodes - 1
       /\ s.duplicates = s0.duplicates /\ s.recycle = s0.recycle /\ s.free = s0.free
       /\ s.data = s0.data /\ s.ref = s0.ref /\ s.left = s0.left /\ s.right = s0.right
  BY <1>15 DEF IsTree
<1>17. /\ s.root = x /\ s.top = v.top /\ s.bottom = y.bottom /\ s.nodes = t.nodes - 1
       /\ s.duplicates = t.duplicates
       /\ s.data = [t.data EXCEPT ![n] = NIL] /\ s.ref = [t.ref EXCEPT ![n] = 0]
       /\ s.left = [l2 EXCEPT ![n] = NIL] /\ s.right = [r2 EXCEPT ![n] = NIL]
       /\ \/ s.recycle = t.recycle /\ s.free = t.free \cup {n}
          \/ s.recycle = Append(t.recycle, n) /\ s.free = t.free
  BY <1>8, <1>11, <1>13, <1>16 DEF Trashed
<1>18. PICK w : w = [root |-> x, top |-> v.top, bottom |-> y.bottom, nodes |-> t.nodes - 1,
                     duplicates |-> t.duplicates, recycle |-> t.recycle, free |-> t.free,
                     data |-> t.data, ref |-> t.ref, left |-> s.left, right |-> s.right]
  OBVIOUS
<1>19. /\ IsTree(w) /\ w.root = x /\ w.top = v.top /\ w.bottom = y.bottom /\ w.nodes = t.nodes - 1
       /\ w.duplicates = t.duplicates /\ w.recycle = t.recycle /\ w.free = t.free
       /\ w.data = t.data /\ w.ref = t.ref /\ w.left = s.left /\ w.right = s.right
  BY <1>18 DEF IsTree
<1>20. Lacks(w, t, n, c)
  <2>1. s.left = CutLinks(t.left, n, c) /\ s.right = CutLinks(t.right, n, c)
    BY <1>6, <1>17 DEF CutLinks
  <2>2. QED
    BY <1>2, <1>6, <1>19, <2>1 DEF Lacks, SameNodes
<1>21. /\ Shape(t.left, t.right, D) /\ Sorted(t.left, t.right, D, K, D[t.root])
       /\ Utmost(D, K, t.top, t.root) /\ Lowmost(D, K, t.bottom, t.root)
  BY <1>1, <1>2 DEF Ordered, Ended
<1>22. PICK l, r, root, a, e : l = t.left /\ r = t.right /\ root = t.root /\ a = v.top /\ e = y.bottom
  OBVIOUS
<1>23. Loose(l2[n], l[n], D, E) /\ Loose(r2[n], r[n], D, E)
  <2>1. Shape(l, r, D)
    BY <1>21, <1>22
  <2>2. /\ l[n] \in TreeNodes \cup {NIL} /\ r[n] \in TreeNodes \cup {NIL}
        /\ n \notin Under(D, l[n]) /\ n \notin Under(D, r[n])
        /\ l[n] # NIL => l[n] \in Under(D, l[n]) /\ Under(D, l[n]) = D[l[n]] /\ l[n] \in TreeNodes
        /\ r[n] # NIL => r[n] \in Under(D, r[n]) /\ Under(D, r[n]) = D[r[n]] /\ r[n] \in TreeNodes
    BY <1>2, <2>1, ShapeOf
  <2>3. l[n] # n /\ r[n] # n
    BY <1>2, <2>2, TreeAssumption
  <2>4. l2[n] = l[n] /\ r2[n] = r[n]
    BY <1>2, <1>6, <1>22, <2>3 DEF Instead
  <2>5. \A m \in TreeNodes : m # n => E[m] = D[m] \ {n}
    BY <1>6 DEF Shrunk
  <2>6. ASSUME l[n] # NIL PROVE E[l[n]] = D[l[n]]
    <3>1. PICK m, A : m = l[n] /\ A = D[m]
      OBVIOUS
    <3>2. m \in TreeNodes /\ n \notin A /\ m # n
      BY <2>2, <2>3, <2>6, <3>1
    <3>3. E[m] = A \ {n}
      BY <2>5, <3>1, <3>2
    <3>4. A \ {n} = A
      BY <3>2
    <3>5. QED
      BY <3>1, <3>3, <3>4
  <2>7. ASSUME r[n] # NIL PROVE E[r[n]] = D[r[n]]
    <3>1. PICK m, A : m = r[n] /\ A = D[m]
      OBVIOUS
    <3>2. m \in TreeNodes /\ n \notin A /\ m # n
      BY <2>2, <2>3, <2>7, <3>1
    <3>3. E[m] = A \ {n}
      BY <2>5, <3>1, <3>2
    <3>4. A \ {n} = A
      BY <3>2
    <3>5. QED
      BY <3>1, <3>3, <3>4
  <2>8. QED
    BY <2>4, <2>6, <2>7 DEF Loose
<1>24. (x # NIL => Utmost(E, K, a, x)) /\ (x = NIL => a = NIL)
  <2>1. Bare(u, l, r, D, root, E, K, n)
    BY <1>1, <1>2, <1>6, <1>7, <1>8, <1>21, <1>22, <1>23 DEF Bare
  <2>2. /\ Utmost(D, K, u.top, root) /\ u.root = x
        /\ a = (IF n # u.top THEN u.top ELSE Tree!Rightest(u, IF u.left[n] # NIL THEN u.left[n] ELSE u.root))
    BY <1>8, <1>10, <1>21, <1>22
  <2>3. TopNow(E, K, a, u.root)
    BY ONLY <2>1, <2>2, EndsAfter
  <2>4. QED
    BY <2>2, <2>3 DEF TopNow
<1>25. (x # NIL => Lowmost(E, K, e, x)) /\ (x = NIL => e = NIL)
  <2>1. Bare(v, l, r, D, root, E, K, n)
    BY <1>1, <1>2, <1>6, <1>7, <1>8, <1>10, <1>21, <1>22, <1>23 DEF Bare, ButEnds
  <2>2. /\ Lowmost(D, K, v.bottom, root) /\ v.root = x
        /\ e = (IF n # v.bottom THEN v.bottom ELSE Tree!Leftest(v, IF v.right[n] # NIL THEN v.right[n] ELSE v.root))
    BY <1>8, <1>10, <1>11, <1>21, <1>22 DEF ButEnds
  <2>3. LowNow(E, K, e, v.root)
    BY ONLY <2>1, <2>2, EndsAfter
  <2>4. QED
    BY <2>2, <2>3 DEF LowNow
<1>26. Ended(F, K, w.root, w.top, w.bottom)
  <2>1. x # NIL => F[x] = E[x]
    BY <1>7 DEF Under
  <2>2. QED
    BY <1>19, <1>22, <1>24, <1>25, <2>1 DEF Ended, Utmost, Lowmost
<1>27. PICK g : g = h \cup {n}
  OBVIOUS
<1>28. Tidy(w, g, z, F)
  <2>1. Ended(Cut(D, n), KeyAt(t.data), w.root, w.top, w.bottom)
    BY <1>1, <1>26
  <2>2. QED
    BY <1>1, <1>20, <1>27, <2>1, LeavesKept
<1>29. n \in g /\ g \ {n} = h
  BY <1>2, <1>27 DEF Owned
<1>30. Tidy(s, g \ {n}, z, F)
  <2>1. /\ IsTree(s) /\ s.root = w.root /\ s.top = w.top /\ s.bottom = w.bottom /\ s.nodes = w.nodes
        /\ s.duplicates = w.duplicates /\ s.left = w.left /\ s.right = w.right
        /\ s.data = [w.data EXCEPT ![n] = NIL] /\ s.ref = [w.ref EXCEPT ![n] = 0]
        /\ \/ s.recycle = w.recycle /\ s.free = w.free \cup {n}
           \/ s.recycle = Append(w.recycle, n) /\ s.free = w.free
    BY <1>16, <1>17, <1>19
  <2>2. QED
    BY <1>28, <1>29, <2>1, CastOff
<1>31. Counts(s, t, - 1, 0)
  BY <1>2, <1>17 DEF Counts
<1>32. QED
  BY <1>29, <1>30, <1>31

\* A key that is in the bag is found.
LEMMA NotFound ==
    ASSUME NEW t, NEW h, NEW b, NEW D, Tidy(t, h, b, D), NEW d \in Tree!Data
    PROVE  /\ b \in [Tree!Keys -> Nat] /\ TreeKey[d] \in Tree!Keys
           /\ Tree!Found(t, TreeKey, d) => b[TreeKey[d]] > 0
           /\ ~ Tree!Found(t, TreeKey, d) => b[TreeKey[d]] = 0
<1>1. PICK S, K, k, p, L : /\ S = Under(D, t.root) /\ K = KeyAt(t.data) /\ k = TreeKey[d]
                           /\ p = Tree!Path(t, TreeKey, d) /\ L = p[Len(p)]
  OBVIOUS
<1>2. Bagged(S, K, t.ref, b) /\ k \in Tree!Keys /\ Valued(S \cup h, t.data, t.ref)
  BY <1>1, KeyFacts DEF Tidy
<1>3. b \in [Tree!Keys -> Nat] /\ (b[k] > 0 => \E m \in S : K[m] = k)
  BY <1>2 DEF Bagged
<1>4. ASSUME ~ Tree!Found(t, TreeKey, d) PROVE b[k] = 0
  <2>1. SUFFICES ASSUME b[k] # 0 PROVE FALSE
    OBVIOUS
  <2>2. PICK m \in S : K[m] = k
    BY <1>2, <1>3, <2>1
  <2>3. t.root # NIL /\ S = D[t.root]
    BY <1>1, <2>2 DEF Under
  <2>4. Landed(L, t.left, t.right, D, K, TreeKey[d], t.root) /\ K[L] # TreeKey[d]
    BY <1>1, <1>4, <2>3, SearchIs
  <2>5. QED
    BY <1>1, <2>2, <2>3, <2>4 DEF Landed
<1>5. ASSUME Tree!Found(t, TreeKey, d) PROVE b[k] > 0
  <2>1. t.root # NIL /\ L \in D[t.root] /\ t.ref[L] = b[TreeKey[d]]
    BY <1>1, <1>5, FoundIs
  <2>2. L \in S
    BY <1>1, <2>1 DEF Under
  <2>3. t.ref[L] > 0
    BY <1>2, <2>2 DEF Valued
  <2>4. QED
    BY <1>1, <2>1, <2>3
<1>6. QED
  BY <1>1, <1>2, <1>3, <1>4, <1>5

Less(b, k) == [b EXCEPT ![k] = IF @ = 0 THEN 0 ELSE @ - 1]
Deleted(s, t, v, n, c) ==
    /\ v = 0 => Counts(s, t, 0, 0)
    /\ v > 1 => Counts(s, t, 0, - 1)
    /\ v = 1 /\ Tree!HasBoth(t, n) => Fewer(s, t, t.ref[c])
    /\ v = 1 /\ ~ Tree!HasBoth(t, n) => Counts(s, t, - 1, 0)

LEMMA DeleteKept ==
    ASSUME NEW t, NEW h, NEW b, NEW D, Tidy(t, h, b, D), NEW d \in Tree!Data,
           NEW p, p = Tree!Path(t, TreeKey, d), NEW n, n = p[Len(p)],
           NEW c, c = (IF Tree!HasBoth(t, n) THEN Tree!Rightest(t, t.left[n]) ELSE n),
           NEW s, s = Tree!Delete(t, TreeKey, d), NEW z, z = Less(b, TreeKey[d])
    PROVE  (\E E : Tidy(s, h, z, E)) /\ Deleted(s, t, b[TreeKey[d]], n, c)
<1>1. PICK k, v : k = TreeKey[d] /\ v = b[k]
  OBVIOUS
<1>2. /\ b \in [Tree!Keys -> Nat] /\ k \in Tree!Keys /\ v \in Nat
      /\ (Tree!Found(t, TreeKey, d) => v > 0) /\ (~ Tree!Found(t, TreeKey, d) => v = 0)
  BY <1>1, NotFound
<1>3. z = [b EXCEPT ![k] = IF v = 0 THEN 0 ELSE v - 1]
  BY <1>1 DEF Less
<1>4. Typed(t) /\ t.nodes \in Int /\ t.duplicates \in Int /\ IsTree(t)
  BY DEF Tidy, Typed
<1>5. CASE ~ Tree!Found(t, TreeKey, d)
  <2>1. s = t /\ v = 0
    BY <1>2, <1>5 DEF Tree!Delete
  <2>2. z = b
    BY <1>1, <1>2, <1>3, <2>1
  <2>3. Deleted(s, t, v, n, c)
    BY <1>4, <2>1 DEF Deleted, Counts
  <2>4. QED
    BY <1>1, <2>1, <2>2, <2>3
<1>6. CASE Tree!Found(t, TreeKey, d)
  <2>1. /\ t.root # NIL /\ Led(p, t.left, t.right, D, t.root) /\ n \in D[t.root]
        /\ TreeKey[t.data[n]] = k /\ t.ref[n] = v
    BY <1>1, <1>6, FoundIs
  <2>2. v > 0 /\ v \in Nat
    BY <1>2, <1>6
  <2>3. CASE v > 1
    <3>1. s = [t EXCEPT !.ref[n] = @ - 1, !.duplicates = @ - 1]
      BY <1>6, <2>1, <2>3 DEF Tree!Delete
    <3>2. PICK i, j, r : i = v - 1 /\ j = t.duplicates - 1 /\ r = [t.ref EXCEPT ![n] = i]
      OBVIOUS
    <3>3. s = [root |-> t.root, top |-> t.top, bottom |-> t.bottom, nodes |-> t.nodes,
               duplicates |-> j, recycle |-> t.recycle, free |-> t.free,
               data |-> t.data, ref |-> r, left |-> t.left, right |-> t.right]
      <4>1. s = [root |-> t.root, top |-> t.top, bottom |-> t.bottom, nodes |-> t.nodes,
                 duplicates |-> t.duplicates - 1, recycle |-> t.recycle, free |-> t.free,
                 data |-> t.data, ref |-> [t.ref EXCEPT ![n] = @ - 1], left |-> t.left, right |-> t.right]
        BY <1>4, <3>1 DEF IsTree
      <4>2. r = [t.ref EXCEPT ![n] = @ - 1]
        BY <2>1, <3>2
      <4>3. QED
        BY <3>2, <4>1, <4>2
    <3>4. Referred(s, t, n, i, j) /\ s.nodes = t.nodes /\ s.duplicates = j
      BY <3>2, <3>3 DEF IsTree, Referred
    <3>5. i \in Nat /\ i > 0 /\ j \in Int
      BY <1>4, <2>2, <2>3, <3>2
    <3>6. z = [b EXCEPT ![k] = IF v = 0 THEN 0 ELSE i]
      BY <1>3, <3>2
    <3>7. v # 0
      BY <2>2
    <3>8. z = [b EXCEPT ![k] = i]
      BY <3>6, <3>7
    <3>9. n \in Under(D, t.root)
      BY <2>1 DEF Under
    <3>10. Tidy(s, h, z, D)
      <4>1. Tidy(t, h, b, D) /\ k = TreeKey[t.data[n]]
        BY <2>1
      <4>2. QED
        BY ONLY <3>4, <3>8, <3>9, <3>5, <4>1, RefKept
    <3>11. Deleted(s, t, v, n, c)
      BY <1>4, <2>3, <3>2, <3>4 DEF Deleted, Counts
    <3>12. QED
      BY <1>1, <3>10, <3>11
  <2>4. CASE v = 1 /\ Tree!HasBoth(t, n)
    <3>1. PICK q, u, x, g : /\ q = Tree!Pop(t, TreeKey, d) /\ u = q.tree /\ x = q.node /\ g = h \cup {x}
      OBVIOUS
    <3>2. s = Tree!Trash(u, x)
      <4>1. PICK w : w = q
        OBVIOUS
      <4>2. p[Len(p)] = n /\ ~ (t.ref[n] > 1)
        BY <2>1, <2>4
      <4>3. s = Tree!TrashPopped(Tree!Pop(t, TreeKey, d))
        BY <1>6, <2>4, <4>2 DEF Tree!Delete
      <4>4. QED
        BY <3>1, <4>3 DEF Tree!TrashPopped
    <3>3. z = Without(b, k)
      BY <1>3, <2>4 DEF Without
    <3>4. PICK y : y = Without(b, TreeKey[d])
      OBVIOUS
    <3>5. PICK w : w = t.ref[c]
      OBVIOUS
    <3>6. Popped(u, t, g, y, D, w, x, c)
      BY <1>6, <3>1, <3>4, <3>5, PopKept
    <3>7. (\E E : Tidy(u, g, y, E)) /\ Fewer(u, t, t.ref[c]) /\ x \in D[t.root]
      BY <3>5, <3>6 DEF Popped
    <3>8. PICK E : Tidy(u, g, y, E)
      BY <3>7
    <3>9. x \in g /\ g \ {x} = h
      <4>1. Owned(D[t.root], t.recycle, h, t.free)
        BY <2>1 DEF Tidy, Under
      <4>2. x \notin h
        BY <3>7, <4>1 DEF Owned
      <4>3. QED
        BY <3>1, <4>2
    <3>10. Tidy(s, g \ {x}, y, E) /\ Counts(s, u, 0, 0)
      <4>1. PICK f : f = g \ {x}
        OBVIOUS
      <4>2. Tidy(s, f, y, E) /\ Counts(s, u, 0, 0)
        BY <3>2, <3>8, <3>9, <4>1, TrashKept
      <4>3. QED
        BY <4>1, <4>2
    <3>11. Tidy(s, h, z, E)
      BY <1>1, <3>3, <3>4, <3>9, <3>10
    <3>12. u.nodes \in Int /\ u.duplicates \in Int
      BY <3>8 DEF Tidy, Typed
    <3>13. Deleted(s, t, v, n, c)
      BY <2>4, <3>7, <3>10, <3>12 DEF Deleted, Counts, Fewer
    <3>14. QED
      BY <1>1, <3>11, <3>13
  <2>5. CASE v = 1 /\ ~ Tree!HasBoth(t, n)
    <3>1. s = Dropped(t, p, n)
      <4>1. p[Len(p)] = n /\ ~ (t.ref[n] > 1)
        BY <2>1, <2>5
      <4>2. QED
        BY <1>6, <2>5, <4>1 DEF Tree!Delete, Dropped
    <3>2. Lone(t.left, t.right, n)
      BY <2>5 DEF Tree!HasBoth, Lone
    <3>3. PICK F : F = Cut(D, n)
      OBVIOUS
    <3>4. z = Without(b, TreeKey[t.data[n]])
      BY <1>3, <2>1, <2>5 DEF Without
    <3>5. Tidy(s, h, z, F) /\ Counts(s, t, - 1, 0)
      BY <2>1, <3>1, <3>2, <3>3, <3>4, DropKept
    <3>6. Deleted(s, t, v, n, c)
      BY <2>5, <3>5 DEF Deleted
    <3>7. QED
      BY <1>1, <3>5, <3>6
  <2>6. QED
    BY <2>2, <2>3, <2>4, <2>5
<1>7. QED
  BY <1>5, <1>6

-----------------------------------------------------------------------------
(***************************************************************************)
(* The empty tree, and a value that comes.                                 *)
(***************************************************************************)

Single == [n \in TreeNodes |-> {n}]
Nothing == [k \in Tree!Keys |-> 0]

LEMMA EmptyKept ==
    ASSUME NEW s, IsTree(s), s.root = NIL, {s.top, s.bottom} \subseteq {NIL, Tree!Dangling}, s.nodes = 0,
           s.duplicates \in Int, s.left \in [TreeNodes -> {NIL}], s.right \in [TreeNodes -> {NIL}],
           s.data \in [TreeNodes -> Tree!Data \cup {NIL}], s.ref \in [TreeNodes -> Nat],
           NEW h, Owned({}, s.recycle, h, s.free), Valued(h, s.data, s.ref),
           NEW D, D = Single, NEW b, b = Nothing
    PROVE  Tidy(s, h, b, D)
<1>1. Under(D, s.root) = {}
  BY DEF Under
<1>2. Typed(s)
  BY DEF Typed
<1>3. Shape(s.left, s.right, D)
  <2>1. D \in [TreeNodes -> SUBSET TreeNodes] /\ \A n \in TreeNodes : D[n] = {n}
    BY DEF Single
  <2>2. \A n \in TreeNodes : Under(D, s.left[n]) = {} /\ Under(D, s.right[n]) = {}
    BY DEF Under
  <2>3. QED
    BY <2>1, <2>2 DEF Shape
<1>4. Ordered(s.left, s.right, D, KeyAt(s.data), s.root, s.top, s.bottom)
  BY <1>1, <1>3 DEF Ordered, Sorted, Ended
<1>5. Bagged({}, KeyAt(s.data), s.ref, b)
  BY DEF Bagged, Nothing
<1>6. Valued({} \cup h, s.data, s.ref)
  BY DEF Valued
<1>7. QED
  BY <1>1, <1>2, <1>4, <1>5, <1>6, FS_EmptySet DEF Tidy

LEMMA InitKept ==
    ASSUME NEW s, s = Tree!EmptyTree, NEW h, h = {}, NEW b, b = Nothing
    PROVE  (\E D : Tidy(s, h, b, D)) /\ s.nodes + s.duplicates = 0
<1>1. s = [root |-> NIL, top |-> NIL, bottom |-> NIL, nodes |-> 0, duplicates |-> 0,
           recycle |-> << >>, free |-> TreeNodes,
           data |-> [a \in TreeNodes |-> NIL], ref |-> [a \in TreeNodes |-> 0],
           left |-> [a \in TreeNodes |-> NIL], right |-> [a \in TreeNodes |-> NIL]]
  BY DEF Tree!EmptyTree
<1>2. /\ IsTree(s) /\ s.root = NIL /\ s.top = NIL /\ s.bottom = NIL /\ s.nodes = 0 /\ s.duplicates = 0
      /\ s.recycle = << >> /\ s.free = TreeNodes
      /\ s.data = [a \in TreeNodes |-> NIL] /\ s.ref = [a \in TreeNodes |-> 0]
      /\ s.left = [a \in TreeNodes |-> NIL] /\ s.right = [a \in TreeNodes |-> NIL]
  BY <1>1 DEF IsTree
<1>3. Owned({}, s.recycle, h, s.free)
  <2>1. << >> \in Seq(TreeNodes) /\ Len(<< >>) = 0 /\ Puffer(<< >>) = {}
    BY DEF Puffer
  <2>2. QED
    BY <1>2, <2>1 DEF Owned
<1>4. Valued(h, s.data, s.ref)
  BY DEF Valued
<1>5. PICK D : D = Single
  OBVIOUS
<1>6. Tidy(s, h, b, D)
  BY <1>2, <1>3, <1>4, <1>5, EmptyKept
<1>7. QED
  BY <1>2, <1>6

LEMMA ResetKept ==
    ASSUME NEW t, NEW h, NEW b, NEW D, Tidy(t, h, b, D), NEW s, s = Tree!Reset(t), NEW z, z = Nothing
    PROVE  (\E E : Tidy(s, h, z, E)) /\ s.nodes = 0 /\ s.duplicates = t.duplicates
<1>1. PICK S : S = Under(D, t.root)
  OBVIOUS
<1>2. /\ Typed(t) /\ IsTree(t) /\ Owned(S, t.recycle, h, t.free) /\ Valued(S \cup h, t.data, t.ref)
      /\ Ordered(t.left, t.right, D, KeyAt(t.data), t.root, t.top, t.bottom) /\ t.duplicates \in Int
      /\ t.recycle \in Seq(TreeNodes)
  BY <1>1 DEF Tidy, Typed, Owned
<1>3. Tree!Reachable(t) = S
  <2>1. Shape(t.left, t.right, D) /\ t.root \in TreeNodes \cup {NIL}
    BY <1>2 DEF Ordered
  <2>2. QED
    BY <1>1, <2>1, ReachableIs
<1>4. PICK x, y, f, d, r, l, i :
         /\ x = (IF t.top = NIL THEN NIL ELSE Tree!Dangling) /\ y = (IF t.bottom = NIL THEN NIL ELSE Tree!Dangling)
         /\ f = t.free \cup S \cup Puffer(t.recycle)
         /\ d = [a \in TreeNodes |-> IF a \in S THEN NIL ELSE t.data[a]]
         /\ r = [a \in TreeNodes |-> IF a \in S THEN 0 ELSE t.ref[a]]
         /\ l = [a \in TreeNodes |-> IF a \in S THEN NIL ELSE t.left[a]]
         /\ i = [a \in TreeNodes |-> IF a \in S THEN NIL ELSE t.right[a]]
  OBVIOUS
<1>5. {t.recycle[j] : j \in DOMAIN t.recycle} = Puffer(t.recycle)
  <2>1. DOMAIN t.recycle = 1 .. Len(t.recycle)
    BY <1>2
  <2>2. QED
    BY <2>1 DEF Puffer
<1>6. s = [t EXCEPT !.root = NIL, !.nodes = 0, !.top = x, !.bottom = y, !.recycle = << >>, !.free = f,
                    !.data = d, !.ref = r, !.left = l, !.right = i]
  BY <1>3, <1>4, <1>5 DEF Tree!Reset
<1>7. s = [root |-> NIL, top |-> x, bottom |-> y, nodes |-> 0, duplicates |-> t.duplicates,
           recycle |-> << >>, free |-> f, data |-> d, ref |-> r, left |-> l, right |-> i]
  BY <1>2, <1>6 DEF IsTree
<1>8. /\ IsTree(s) /\ s.root = NIL /\ s.top = x /\ s.bottom = y /\ s.nodes = 0 /\ s.duplicates = t.duplicates
      /\ s.recycle = << >> /\ s.free = f /\ s.data = d /\ s.ref = r /\ s.left = l /\ s.right = i
  BY <1>7 DEF IsTree
<1>9. {s.top, s.bottom} \subseteq {NIL, Tree!Dangling}
  BY <1>4, <1>8
<1>10. \A n \in TreeNodes \ S : t.left[n] = NIL /\ t.right[n] = NIL
  BY <1>1, <1>2 DEF Ordered
<1>11. s.left \in [TreeNodes -> {NIL}] /\ s.right \in [TreeNodes -> {NIL}]
  BY <1>4, <1>8, <1>10
<1>12. s.data \in [TreeNodes -> Tree!Data \cup {NIL}] /\ s.ref \in [TreeNodes -> Nat]
  <2>1. t.data \in [TreeNodes -> Tree!Data \cup {NIL}] /\ t.ref \in [TreeNodes -> Nat]
    BY <1>2 DEF Typed
  <2>2. QED
    BY <1>4, <1>8, <2>1
<1>13. Owned({}, s.recycle, h, s.free)
  BY <1>2, <1>4, <1>8, OwnedReset
<1>14. Valued(h, s.data, s.ref)
  <2>1. \A n \in h : n \in TreeNodes /\ n \notin S
    BY <1>2 DEF Owned
  <2>2. QED
    BY <1>2, <1>4, <1>8, <2>1 DEF Valued
<1>15. PICK E : E = Single
  OBVIOUS
<1>16. Tidy(s, h, z, E)
  BY <1>2, <1>8, <1>9, <1>11, <1>12, <1>13, <1>14, <1>15, EmptyKept
<1>17. QED
  BY <1>8, <1>16

LEMMA InsertDataKept ==
    ASSUME NEW t, NEW h, NEW b, NEW D, Tidy(t, h, b, D), NEW d \in Tree!Data, NEW n \in Tree!Fresh(t),
           NEW s, s = Tree!InsertData(t, TreeKey, n, d), NEW c, c = Plus(b, TreeKey[d], 1)
    PROVE  /\ \E E : Tidy(s, h, c, E)
           /\ s.nodes + s.duplicates = t.nodes + t.duplicates + 1
<1>1. PICK u, g : u = Tree!Make(t, n, d) /\ g = h \cup {n}
  OBVIOUS
<1>2. Tidy(u, g, b, D) /\ Counts(u, t, 0, 0) /\ u.data[n] = d /\ u.ref[n] = 1
  BY <1>1, MakeKept
<1>3. n \notin h
  <2>1. Owned(Under(D, t.root), t.recycle, h, t.free)
    BY DEF Tidy
  <2>2. n \in t.free \/ n \in Puffer(t.recycle)
    <3>1. CASE t.recycle # << >>
      <4>1. t.recycle \in Seq(TreeNodes) /\ n = Head(t.recycle)
        BY <2>1, <3>1 DEF Owned, Tree!Fresh
      <4>2. 1 \in 1 .. Len(t.recycle) /\ n = t.recycle[1]
        BY <3>1, <4>1
      <4>3. QED
        BY <4>2 DEF Puffer
    <3>2. CASE t.recycle = << >>
      BY <3>2 DEF Tree!Fresh
    <3>3. QED
      BY <3>1, <3>2
  <2>3. QED
    BY <2>1, <2>2 DEF Owned
<1>4. n \in g /\ h = g \ {n}
  BY <1>1, <1>3
<1>5. s = Tree!Insert(u, TreeKey, n) /\ c = Plus(b, TreeKey[u.data[n]], u.ref[n])
  BY <1>1, <1>2 DEF Tree!InsertData
<1>6. (\E E : Tidy(s, h, c, E)) /\ s.nodes + s.duplicates = u.nodes + u.duplicates + 1
  BY <1>2, <1>4, <1>5, InsertKept
<1>7. t.nodes \in Int /\ t.duplicates \in Int
  BY DEF Tidy, Typed
<1>8. QED
  BY <1>2, <1>6, <1>7 DEF Counts

-----------------------------------------------------------------------------
(***************************************************************************)
(* The number of references in a bag.                                      *)
(***************************************************************************)

Part(b, n) == IF n \in Tree!Keys THEN b[n] ELSE 0
Sums(f, b) == f = [n \in Nat |-> IF n = 0 THEN 0 ELSE f[n - 1] + Part(b, n)]
Greatest == CHOOSE k \in Tree!Keys : \A j \in Tree!Keys : j <= k
References(b) == (CHOOSE f : Sums(f, b))[Greatest]

LEMMA KeysAre == Tree!Keys \subseteq Nat \ {0} /\ Tree!Keys # {}
BY TreeAssumption DEF Tree!Keys, Tree!Data

\* Numbers that come one after the other have a bound.
LEMMA BoundOf ==
    ASSUME NEW N \in Nat, NEW f, \A i \in 1 .. N : f[i] \in Nat
    PROVE  \E u \in Nat : \A i \in 1 .. N : f[i] <= u
<1> DEFINE Bounded(n) == \E u \in Nat : \A i \in 1 .. n : f[i] <= u
           W == {n \in Nat : n <= N /\ ~ Bounded(n)}
<1>1. CASE W = {}
  <2>1. N \notin W
    BY <1>1
  <2>2. N <= N
    OBVIOUS
  <2>3. Bounded(N)
    BY <2>2, <2>1
  <2>4. QED
    BY <2>3
<1>2. CASE W # {}
  <2>1. PICK n \in W : \A m \in W : ~ (m < n)
    <3>1. W \in SUBSET Nat
      OBVIOUS
    <3>2. QED
      BY ONLY <1>2, <3>1, LeastOf
  <2>2. n \in Nat /\ n <= N /\ ~ Bounded(n)
    BY <2>1
  <2>3. n # 0
    <3>1. Bounded(0)
      OBVIOUS
    <3>2. QED
      BY <2>2, <3>1
  <2>4. n - 1 \in Nat /\ n - 1 < n /\ n - 1 <= N
    BY <2>2, <2>3
  <2>5. Bounded(n - 1)
    BY <2>1, <2>4
  <2>6. PICK u \in Nat : \A i \in 1 .. n - 1 : f[i] <= u
    BY <2>5
  <2>7. f[n] \in Nat
    BY <2>2, <2>3
  <2>8. PICK v \in Nat : u <= v /\ f[n] <= v
    <3>1. CASE u <= f[n]
      BY <2>7, <3>1
    <3>2. CASE ~ (u <= f[n])
      BY <2>7, <3>2
    <3>3. QED
      BY <3>1, <3>2
  <2>9. \A i \in 1 .. n : i \in 1 .. n - 1 \/ i = n
    BY <2>2
  <2>10. \A i \in 1 .. n - 1 : f[i] \in Nat
    BY <2>2, <2>4
  <2>11. \A i \in 1 .. n : f[i] <= v
    <3>1. ASSUME NEW i \in 1 .. n PROVE f[i] <= v
      <4>1. CASE i \in 1 .. n - 1
        <5>1. f[i] \in Nat /\ f[i] <= u
          BY <2>6, <2>10, <4>1
        <5>2. QED
          BY <5>1, <2>8
      <4>2. CASE i = n
        BY <4>2, <2>8
      <4>3. QED
        BY <4>1, <4>2, <2>9, <3>1
    <3>2. QED
      BY <3>1
  <2>12. QED
    BY <2>2, <2>11
<1>3. QED
  BY <1>1, <1>2

LEMMA GreatestIs == Greatest \in Tree!Keys /\ Greatest \in Nat /\ \A j \in Tree!Keys : j <= Greatest
<1>1. PICK N, f : N \in Nat /\ f \in [1 .. N -> Tree!Data] /\ \A d \in Tree!Data : \E i \in 1 .. N : f[i] = d
  <2>1. ExistsBijection(1 .. Cardinality(Tree!Data), Tree!Data) /\ Cardinality(Tree!Data) \in Nat
    BY TreeAssumption, FS_CardinalityType
  <2>2. PICK N : N = Cardinality(Tree!Data)
    OBVIOUS
  <2>3. ExistsBijection(1 .. N, Tree!Data) /\ N \in Nat
    BY <2>1, <2>2
  <2>4. \E f : f \in [1 .. N -> Tree!Data] /\ \A d \in Tree!Data : \E i \in 1 .. N : f[i] = d
    BY <2>3 DEF ExistsBijection, Bijection, Surjection, Injection
  <2>5. QED
    BY <2>3, <2>4
<1>2. PICK g : g = [i \in 1 .. N |-> TreeKey[f[i]]]
  OBVIOUS
<1>3. \A i \in 1 .. N : g[i] \in Nat /\ g[i] = TreeKey[f[i]]
  <2>1. ASSUME NEW i \in 1 .. N PROVE g[i] \in Nat /\ g[i] = TreeKey[f[i]]
    <3>1. f[i] \in Tree!Data /\ g[i] = TreeKey[f[i]]
      BY <1>1, <1>2
    <3>2. QED
      BY <3>1, KeyFacts
  <2>2. QED
    BY <2>1
<1>4. PICK u \in Nat : \A i \in 1 .. N : g[i] <= u
  BY <1>1, <1>3, BoundOf
<1>5. \A k \in Tree!Keys : k <= u
  <2>1. ASSUME NEW k \in Tree!Keys PROVE k <= u
    <3>1. PICK d \in Tree!Data : k = TreeKey[d]
      BY DEF Tree!Keys
    <3>2. PICK i \in 1 .. N : f[i] = d
      BY <1>1
    <3>3. QED
      BY <1>3, <1>4, <3>1, <3>2
  <2>2. QED
    BY <2>1
<1> DEFINE W == {v \in Nat : \A k \in Tree!Keys : k <= v}
<1>6. PICK v \in W : \A m \in W : ~ (m < v)
  <2>1. W \in SUBSET Nat /\ W # {}
    BY <1>5
  <2>2. QED
    BY ONLY <2>1, LeastOf
<1>7. v \in Tree!Keys
  <2>1. SUFFICES ASSUME v \notin Tree!Keys PROVE FALSE
    OBVIOUS
  <2>2. \A k \in Tree!Keys : k \in Nat /\ k <= v /\ k # v /\ k # 0
    BY <1>6, <2>1, KeysAre
  <2>3. PICK k \in Tree!Keys : TRUE
    BY KeysAre
  <2>4. v \in Nat
    BY <1>6
  <2>5. \A j \in Tree!Keys : j <= v - 1
    BY <2>2, <2>4
  <2>6. v - 1 \in Nat
    BY <2>2, <2>3, <2>4
  <2>7. v - 1 \in W /\ v - 1 < v
    BY <2>4, <2>5, <2>6
  <2>8. QED
    BY <1>6, <2>7
<1>8. \A k \in Tree!Keys : k <= v
  BY <1>6
<1>9. Greatest \in Tree!Keys /\ \A j \in Tree!Keys : j <= Greatest
  BY <1>7, <1>8 DEF Greatest
<1>10. QED
  BY <1>9, KeysAre

LEMMA SumsExist ==
    ASSUME NEW b \in [Tree!Keys -> Nat]
    PROVE  \E f : Sums(f, b)
<1>1. PICK M : M = Greatest
  OBVIOUS
<1>2. M \in Nat /\ \A j \in Tree!Keys : j <= M
  BY <1>1, GreatestIs
<1>3. PICK e : e = [n \in Nat |-> Part(b, n)]
  OBVIOUS
<1>4. \A n \in Nat : e[n] = Part(b, n) /\ e[n] \in Nat
  BY <1>3 DEF Part
<1>5. \A n \in Nat : n > M => e[n] = 0
  BY <1>2, <1>4 DEF Part
<1> DEFINE Upto(f, k) == /\ f \in [Nat -> Nat] /\ f[0] = 0
                         /\ \A n \in Nat : n # 0 => f[n] = f[n - 1] + (IF n <= k THEN e[n] ELSE 0)
           W == {k \in Nat : ~ \E f : Upto(f, k)}
<1>6. CASE W = {}
  <2>1. PICK f : Upto(f, M)
    BY <1>2, <1>6
  <2>2. \A n \in Nat : n # 0 => f[n] = f[n - 1] + e[n]
    <3>1. ASSUME NEW n \in Nat, n # 0 PROVE f[n] = f[n - 1] + e[n]
      <4>1. f[n] = f[n - 1] + (IF n <= M THEN e[n] ELSE 0)
        BY <2>1, <3>1
      <4>2. ~ (n <= M) => e[n] = 0
        BY <1>2, <1>5
      <4>3. QED
        BY <4>1, <4>2
    <3>2. QED
      BY <3>1
  <2>3. f \in [Nat -> Nat] /\ f[0] = 0
    BY <2>1
  <2>4. \A n \in Nat : f[n] = IF n = 0 THEN 0 ELSE f[n - 1] + Part(b, n)
    BY <1>4, <2>2, <2>3
  <2>5. Sums(f, b)
    BY <2>3, <2>4 DEF Sums
  <2>6. QED
    BY <2>5
<1>7. CASE W # {}
  <2>1. PICK k \in W : \A m \in W : ~ (m < k)
    <3>1. W \in SUBSET Nat
      OBVIOUS
    <3>2. QED
      BY ONLY <1>7, <3>1, LeastOf
  <2>2. k \in Nat /\ ~ \E f : Upto(f, k)
    BY <2>1
  <2>3. CASE k = 0
    <3>1. PICK f : f = [n \in Nat |-> 0]
      OBVIOUS
    <3>2. \A n \in Nat : n # 0 => n - 1 \in Nat /\ ~ (n <= 0)
      OBVIOUS
    <3>3. Upto(f, 0)
      BY <3>1, <3>2
    <3>4. QED
      BY <2>2, <2>3, <3>3
  <2>4. CASE k # 0
    <3>1. k - 1 \in Nat /\ k - 1 < k
      BY <2>2, <2>4
    <3>2. PICK f : Upto(f, k - 1)
      BY <2>1, <3>1
    <3>3. PICK g, v : v = e[k] /\ g = [n \in Nat |-> IF n >= k THEN f[n] + v ELSE f[n]]
      OBVIOUS
    <3>4. v \in Nat /\ g \in [Nat -> Nat] /\ \A n \in Nat : g[n] = IF n >= k THEN f[n] + v ELSE f[n]
      BY <1>4, <2>2, <3>2, <3>3
    <3>5. g[0] = 0
      BY <2>2, <2>4, <3>2, <3>4
    <3>6. ASSUME NEW n \in Nat, n # 0 PROVE g[n] = g[n - 1] + (IF n <= k THEN e[n] ELSE 0)
      <4>1. n - 1 \in Nat /\ f[n] = f[n - 1] + (IF n <= k - 1 THEN e[n] ELSE 0)
        BY <3>2, <3>6
      <4>2. f[n] \in Nat /\ f[n - 1] \in Nat /\ e[n] \in Nat
        BY <1>4, <3>2, <4>1
      <4>3. CASE n < k
        BY <2>2, <3>4, <4>1, <4>2, <4>3
      <4>4. CASE n = k
        BY <2>2, <3>3, <3>4, <4>1, <4>2, <4>4
      <4>5. CASE n > k
        BY <2>2, <3>4, <4>1, <4>2, <4>5
      <4>6. QED
        BY <2>2, <4>3, <4>4, <4>5
    <3>7. Upto(g, k)
      BY <3>4, <3>5, <3>6
    <3>8. QED
      BY <2>2, <3>7
  <2>5. QED
    BY <2>3, <2>4
<1>8. QED
  BY <1>6, <1>7

LEMMA SumsAre ==
    ASSUME NEW b \in [Tree!Keys -> Nat], NEW f, Sums(f, b)
    PROVE  f[0] = 0 /\ \A n \in Nat : f[n] \in Nat /\ (n # 0 => n - 1 \in Nat /\ f[n] = f[n - 1] + Part(b, n))
<1>1. \A n \in Nat : Part(b, n) \in Nat
  BY DEF Part
<1>2. f[0] = 0
  BY DEF Sums
<1>3. \A n \in Nat : n # 0 => n - 1 \in Nat /\ f[n] = f[n - 1] + Part(b, n)
  BY DEF Sums
<1> DEFINE W == {n \in Nat : f[n] \notin Nat}
<1>4. W = {}
  <2>1. SUFFICES ASSUME W # {} PROVE FALSE
    OBVIOUS
  <2>2. PICK n \in W : \A m \in W : ~ (m < n)
    <3>1. W \in SUBSET Nat
      OBVIOUS
    <3>2. QED
      BY ONLY <2>1, <3>1, LeastOf
  <2>3. n \in Nat /\ f[n] \notin Nat
    BY <2>2
  <2>4. n # 0
    BY <1>2, <2>3
  <2>5. n - 1 \in Nat /\ n - 1 < n
    BY <2>3, <2>4
  <2>6. f[n - 1] \in Nat
    BY <2>2, <2>5
  <2>7. QED
    BY <1>1, <1>3, <2>3, <2>4, <2>6
<1>5. QED
  BY <1>2, <1>3, <1>4

\* Another number of references of one key.
LEMMA SumChanges ==
    ASSUME NEW b \in [Tree!Keys -> Nat], NEW k \in Tree!Keys, NEW v \in Nat, NEW c, c = [b EXCEPT ![k] = v]
    PROVE  References(b) \in Nat /\ References(c) = References(b) + v - b[k] /\ c \in [Tree!Keys -> Nat]
<1>1. c \in [Tree!Keys -> Nat] /\ \A j \in Tree!Keys : c[j] = IF j = k THEN v ELSE b[j]
  OBVIOUS
<1>2. PICK f, g, u : f = (CHOOSE x : Sums(x, b)) /\ g = (CHOOSE x : Sums(x, c)) /\ u = b[k]
  OBVIOUS
<1>3. Sums(f, b) /\ Sums(g, c)
  BY <1>1, <1>2, SumsExist
<1>4. /\ f[0] = 0 /\ g[0] = 0
      /\ \A n \in Nat : f[n] \in Nat /\ (n # 0 => n - 1 \in Nat /\ f[n] = f[n - 1] + Part(b, n))
      /\ \A n \in Nat : g[n] \in Nat /\ (n # 0 => n - 1 \in Nat /\ g[n] = g[n - 1] + Part(c, n))
  BY <1>1, <1>3, SumsAre
<1>5. u \in Nat /\ k \in Nat /\ k # 0
  BY <1>2, KeysAre
<1>6. \A n \in Nat : /\ Part(b, n) \in Nat /\ Part(c, n) \in Nat
                     /\ n # k => Part(c, n) = Part(b, n)
  BY <1>1 DEF Part
<1>7. Part(b, k) = u /\ Part(c, k) = v
  BY <1>1, <1>2 DEF Part
<1> DEFINE W == {n \in Nat : g[n] # IF n >= k THEN f[n] + v - u ELSE f[n]}
<1>8. W = {}
  <2>1. SUFFICES ASSUME W # {} PROVE FALSE
    OBVIOUS
  <2>2. PICK n \in W : \A m \in W : ~ (m < n)
    <3>1. W \in SUBSET Nat
      OBVIOUS
    <3>2. QED
      BY ONLY <2>1, <3>1, LeastOf
  <2>3. n \in Nat /\ g[n] # IF n >= k THEN f[n] + v - u ELSE f[n]
    BY <2>2
  <2>4. n # 0
    BY <1>4, <1>5, <2>3
  <2>5. n - 1 \in Nat /\ n - 1 < n
    BY <2>3, <2>4
  <2>6. g[n - 1] = IF n - 1 >= k THEN f[n - 1] + v - u ELSE f[n - 1]
    BY <2>2, <2>5
  <2>7. f[n] = f[n - 1] + Part(b, n) /\ g[n] = g[n - 1] + Part(c, n)
    BY <1>4, <2>3, <2>4
  <2>8. f[n - 1] \in Nat /\ Part(b, n) \in Nat
    BY <1>4, <1>6, <2>3, <2>5
  <2>9. CASE n = k
    <3>1. f[n] = f[n - 1] + u /\ g[n] = f[n - 1] + v
      BY <1>5, <1>7, <2>6, <2>7, <2>8, <2>9
    <3>2. QED
      BY <1>5, <2>3, <2>8, <2>9, <3>1
  <2>10. CASE n # k
    <3>1. g[n] = g[n - 1] + Part(b, n)
      BY <1>6, <2>3, <2>7, <2>10
    <3>2. QED
      BY <1>5, <2>3, <2>6, <2>7, <2>8, <2>10, <3>1
  <2>11. QED
    BY <2>9, <2>10
<1>9. g[Greatest] = f[Greatest] + v - u /\ f[Greatest] \in Nat
  <2>1. Greatest \in Nat /\ Greatest >= k
    BY <1>5, GreatestIs
  <2>2. QED
    BY <1>4, <1>8, <2>1
<1>10. QED
  BY <1>1, <1>2, <1>9 DEF References

LEMMA SumOfNothing == Nothing \in [Tree!Keys -> Nat] /\ References(Nothing) = 0
<1>1. PICK b : b = Nothing
  OBVIOUS
<1>2. b \in [Tree!Keys -> Nat] /\ \A n \in Nat : Part(b, n) = 0
  BY <1>1 DEF Nothing, Part
<1>3. PICK f : f = (CHOOSE x : Sums(x, b))
  OBVIOUS
<1>4. Sums(f, b)
  BY <1>2, <1>3, SumsExist
<1>5. f[0] = 0 /\ \A n \in Nat : f[n] \in Nat /\ (n # 0 => n - 1 \in Nat /\ f[n] = f[n - 1] + Part(b, n))
  BY <1>2, <1>4, SumsAre
<1> DEFINE W == {n \in Nat : f[n] # 0}
<1>6. W = {}
  <2>1. SUFFICES ASSUME W # {} PROVE FALSE
    OBVIOUS
  <2>2. PICK n \in W : \A m \in W : ~ (m < n)
    <3>1. W \in SUBSET Nat
      OBVIOUS
    <3>2. QED
      BY ONLY <2>1, <3>1, LeastOf
  <2>3. n \in Nat /\ f[n] # 0
    BY <2>2
  <2>4. n # 0
    BY <1>5, <2>3
  <2>5. n - 1 \in Nat /\ n - 1 < n
    BY <2>3, <2>4
  <2>6. f[n - 1] = 0
    BY <2>2, <2>5
  <2>7. QED
    BY <1>2, <1>5, <2>3, <2>4, <2>6
<1>7. QED
  BY <1>1, <1>2, <1>3, <1>6, GreatestIs DEF References

\* What the module calls Total.
LEMMA TotalIs == Tree!Total = References(bag) /\ Tree!Total' = References(bag')
<1>1. Tree!Total = References(bag)
  BY DEF Tree!Total, References, Sums, Part, Greatest
<1>2. Tree!Total' = References(bag')
  BY DEF Tree!Total, References, Sums, Part, Greatest
<1>3. QED
  BY <1>1, <1>2

-----------------------------------------------------------------------------
(***************************************************************************)
(* The calls keep the tree in order, and its counters.                     *)
(***************************************************************************)

\* The invariant: t is in order and has the bag b, and while e says so its counters do too.
Sound(t, h, b, e) == (\E D : Tidy(t, h, b, D)) /\ (e => t.nodes + t.duplicates = References(b))

\* When the counters still agree after a call: u is what the history variable says then.
CountsOne(u, e, t, n) == u => e /\ t.ref[n] = 1
CountsSame(u, e, t, c, n) == u => e /\ t.ref[c] = t.ref[n]
CountsLast(u, e, b, d, t, n, c) == u => e /\ (b[TreeKey[d]] = 1 /\ Tree!HasBoth(t, n) => t.ref[c] = 1)

LEMMA CountersAre ==
    ASSUME NEW t, NEW h, NEW b, NEW D, Tidy(t, h, b, D)
    PROVE  t.nodes \in Int /\ t.duplicates \in Int /\ b \in [Tree!Keys -> Nat] /\ Valued(h, t.data, t.ref)
<1>1. Typed(t) /\ Bagged(Under(D, t.root), KeyAt(t.data), t.ref, b)
      /\ Valued(Under(D, t.root) \cup h, t.data, t.ref)
  BY DEF Tidy
<1>2. Valued(h, t.data, t.ref)
  BY <1>1 DEF Valued
<1>3. QED
  BY <1>1, <1>2 DEF Typed, Bagged

LEMMA InitSound ==
    ASSUME NEW t, t = Tree!EmptyTree, NEW h, h = {}, NEW b, b = Nothing
    PROVE  Sound(t, h, b, TRUE)
BY InitKept, SumOfNothing DEF Sound

LEMMA InsertDataSound ==
    ASSUME NEW t, NEW h, NEW b, NEW e, Sound(t, h, b, e), NEW d \in Tree!Data, NEW n \in Tree!Fresh(t),
           NEW s, s = Tree!InsertData(t, TreeKey, n, d), NEW c, c = [b EXCEPT ![TreeKey[d]] = @ + 1]
    PROVE  Sound(s, h, c, e)
<1>1. PICK D : Tidy(t, h, b, D)
  BY DEF Sound
<1>2. t.nodes \in Int /\ t.duplicates \in Int /\ b \in [Tree!Keys -> Nat]
  BY <1>1, CountersAre
<1>3. c = Plus(b, TreeKey[d], 1)
  BY DEF Plus
<1>4. (\E E : Tidy(s, h, c, E)) /\ s.nodes + s.duplicates = t.nodes + t.duplicates + 1
  <2>1. /\ Tidy(t, h, b, D) /\ d \in Tree!Data /\ n \in Tree!Fresh(t)
        /\ s = Tree!InsertData(t, TreeKey, n, d) /\ c = Plus(b, TreeKey[d], 1)
    BY <1>1, <1>3
  <2>2. QED
    BY ONLY <2>1, InsertDataKept
<1>5. PICK k, v : k = TreeKey[d] /\ v = b[k] + 1
  OBVIOUS
<1>6. k \in Tree!Keys /\ v \in Nat /\ b[k] \in Nat /\ c = [b EXCEPT ![k] = v]
  BY <1>2, <1>5, KeyFacts
<1>7. References(b) \in Nat /\ References(c) = References(b) + v - b[k]
  BY <1>2, <1>6, SumChanges
<1>8. References(c) = References(b) + 1
  BY <1>5, <1>6, <1>7
<1>9. e => t.nodes + t.duplicates = References(b)
  BY DEF Sound
<1>10. QED
  BY <1>4, <1>8, <1>9 DEF Sound

LEMMA InsertSound ==
    ASSUME NEW t, NEW h, NEW b, NEW e, Sound(t, h, b, e), NEW n \in h,
           NEW s, s = Tree!Insert(t, TreeKey, n), NEW g, g = h \ {n},
           NEW c, c = [b EXCEPT ![TreeKey[t.data[n]]] = @ + t.ref[n]], NEW u, CountsOne(u, e, t, n)
    PROVE  Sound(s, g, c, u)
<1>1. PICK D : Tidy(t, h, b, D)
  BY DEF Sound
<1>2. PICK d, w : d = t.data[n] /\ w = t.ref[n]
  OBVIOUS
<1>3. /\ t.nodes \in Int /\ t.duplicates \in Int /\ b \in [Tree!Keys -> Nat]
      /\ d \in Tree!Data /\ w > 0 /\ w \in Nat
  <2>1. Typed(t) /\ Owned(Under(D, t.root), t.recycle, h, t.free)
    BY <1>1 DEF Tidy
  <2>2. n \in TreeNodes
    BY <2>1 DEF Owned
  <2>3. w \in Nat
    BY <1>2, <2>1, <2>2 DEF Typed
  <2>4. Valued(h, t.data, t.ref) /\ t.nodes \in Int /\ t.duplicates \in Int /\ b \in [Tree!Keys -> Nat]
    BY <1>1, CountersAre
  <2>5. QED
    BY <1>2, <2>3, <2>4 DEF Valued
<1>4. c = Plus(b, TreeKey[d], w)
  BY <1>2 DEF Plus
<1>5. (\E E : Tidy(s, g, c, E)) /\ s.nodes + s.duplicates = t.nodes + t.duplicates + 1
  <2>1. /\ Tidy(t, h, b, D) /\ n \in h /\ s = Tree!Insert(t, TreeKey, n) /\ g = h \ {n}
        /\ c = Plus(b, TreeKey[t.data[n]], t.ref[n])
    BY <1>1, <1>2, <1>4
  <2>2. QED
    BY ONLY <2>1, InsertKept
<1>6. PICK k, v : k = TreeKey[d] /\ v = b[k] + w
  OBVIOUS
<1>7. k \in Tree!Keys /\ v \in Nat /\ b[k] \in Nat /\ c = [b EXCEPT ![k] = v]
  BY <1>2, <1>3, <1>6, KeyFacts
<1>8. References(b) \in Nat /\ References(c) = References(b) + v - b[k]
  BY ONLY <1>3, <1>7, SumChanges
<1>9. References(c) = References(b) + w
  BY <1>3, <1>6, <1>7, <1>8
<1>10. e => t.nodes + t.duplicates = References(b)
  BY DEF Sound
<1>11. u => w = 1 /\ e
  BY <1>2 DEF CountsOne
<1>12. QED
  BY <1>3, <1>5, <1>8, <1>9, <1>10, <1>11 DEF Sound

LEMMA TrashSound ==
    ASSUME NEW t, NEW h, NEW b, NEW e, Sound(t, h, b, e), NEW n \in h, NEW s, s = Tree!Trash(t, n),
           NEW g, g = h \ {n}
    PROVE  Sound(s, g, b, e)
<1>1. PICK D : Tidy(t, h, b, D)
  BY DEF Sound
<1>2. Tidy(s, g, b, D) /\ Counts(s, t, 0, 0)
  BY <1>1, TrashKept
<1>3. t.nodes \in Int /\ t.duplicates \in Int
  BY <1>1, CountersAre
<1>4. s.nodes + s.duplicates = t.nodes + t.duplicates
  BY <1>2, <1>3 DEF Counts
<1>5. QED
  BY <1>2, <1>4 DEF Sound

LEMMA ResetSound ==
    ASSUME NEW t, NEW h, NEW b, NEW e, Sound(t, h, b, e), NEW s, s = Tree!Reset(t), NEW z, z = Nothing,
           NEW u, u => e /\ t.duplicates = 0
    PROVE  Sound(s, h, z, u)
<1>1. PICK D : Tidy(t, h, b, D)
  BY DEF Sound
<1>2. (\E E : Tidy(s, h, z, E)) /\ s.nodes = 0 /\ s.duplicates = t.duplicates
  BY <1>1, ResetKept
<1>3. References(z) = 0
  BY SumOfNothing
<1>4. u => t.duplicates = 0
  OBVIOUS
<1>5. u => s.nodes + s.duplicates = 0
  BY <1>2, <1>4
<1>6. QED
  BY <1>2, <1>3, <1>5 DEF Sound

LEMMA PopSound ==
    ASSUME NEW t, NEW h, NEW b, NEW e, Sound(t, h, b, e), NEW d \in Tree!Data, Tree!Found(t, TreeKey, d),
           NEW p, p = Tree!Path(t, TreeKey, d), NEW n, n = p[Len(p)],
           NEW c, c = (IF Tree!HasBoth(t, n) THEN Tree!Rightest(t, t.left[n]) ELSE n),
           NEW q, q = Tree!Pop(t, TreeKey, d), NEW s, s = q.tree, NEW x, x = q.node,
           NEW g, g = h \cup {x}, NEW z, z = [b EXCEPT ![TreeKey[d]] = 0],
           NEW u, CountsSame(u, e, t, c, n)
    PROVE  Sound(s, g, z, u)
<1>1. PICK D : Tidy(t, h, b, D)
  BY DEF Sound
<1>2. t.nodes \in Int /\ t.duplicates \in Int /\ b \in [Tree!Keys -> Nat]
  BY <1>1, CountersAre
<1>3. PICK k, v0 : k = TreeKey[d] /\ v0 = t.ref[c]
  OBVIOUS
<1>4. z = Without(b, TreeKey[d])
  BY DEF Without
<1>5. Popped(s, t, g, z, D, v0, x, c)
  <2>1. /\ Tidy(t, h, b, D) /\ Tree!Found(t, TreeKey, d) /\ p = Tree!Path(t, TreeKey, d) /\ n = p[Len(p)]
        /\ c = (IF Tree!HasBoth(t, n) THEN Tree!Rightest(t, t.left[n]) ELSE n)
        /\ q = Tree!Pop(t, TreeKey, d) /\ s = q.tree /\ x = q.node /\ g = h \cup {x}
        /\ z = Without(b, TreeKey[d]) /\ v0 = t.ref[c] /\ d \in Tree!Data
    BY <1>1, <1>3, <1>4
  <2>2. QED
    BY ONLY <2>1, PopKept
<1>6. (\E E : Tidy(s, g, z, E)) /\ s.nodes = t.nodes - 1 /\ s.duplicates = t.duplicates + 1 - v0
  BY <1>5 DEF Popped, Fewer
<1>7. t.ref[n] = b[k]
  <2>1. /\ Tidy(t, h, b, D) /\ Tree!Found(t, TreeKey, d) /\ p = Tree!Path(t, TreeKey, d) /\ n = p[Len(p)]
        /\ d \in Tree!Data
    BY <1>1
  <2>2. t.ref[n] = b[TreeKey[d]]
    BY ONLY <2>1, FoundIs
  <2>3. QED
    BY <1>3, <2>2
<1>8. k \in Tree!Keys /\ z = [b EXCEPT ![k] = 0] /\ b[k] \in Nat /\ 0 \in Nat
  BY <1>2, <1>3, KeyFacts
<1>9. References(b) \in Nat /\ References(z) = References(b) + 0 - b[k]
  BY ONLY <1>2, <1>8, SumChanges
<1>10. e => t.nodes + t.duplicates = References(b)
  BY DEF Sound
<1>11. u => e /\ v0 = b[k]
  BY <1>3, <1>7 DEF CountsSame
<1>12. u => s.nodes + s.duplicates = References(z)
  BY <1>2, <1>6, <1>8, <1>9, <1>10, <1>11
<1>13. QED
  BY <1>6, <1>12 DEF Sound

LEMMA DeleteSound ==
    ASSUME NEW t, NEW h, NEW b, NEW e, Sound(t, h, b, e), NEW d \in Tree!Data,
           NEW p, p = Tree!Path(t, TreeKey, d), NEW n, n = p[Len(p)],
           NEW c, c = (IF Tree!HasBoth(t, n) THEN Tree!Rightest(t, t.left[n]) ELSE n),
           NEW s, s = Tree!Delete(t, TreeKey, d),
           NEW z, z = [b EXCEPT ![TreeKey[d]] = IF @ = 0 THEN 0 ELSE @ - 1],
           NEW u, CountsLast(u, e, b, d, t, n, c)
    PROVE  Sound(s, h, z, u)
<1>1. PICK D : Tidy(t, h, b, D)
  BY DEF Sound
<1>2. t.nodes \in Int /\ t.duplicates \in Int /\ b \in [Tree!Keys -> Nat]
  BY <1>1, CountersAre
<1>3. PICK k, v : k = TreeKey[d] /\ v = b[k]
  OBVIOUS
<1>4. z = Less(b, TreeKey[d])
  BY DEF Less
<1>5. (\E E : Tidy(s, h, z, E)) /\ Deleted(s, t, b[TreeKey[d]], n, c)
  <2>1. /\ Tidy(t, h, b, D) /\ p = Tree!Path(t, TreeKey, d) /\ n = p[Len(p)]
        /\ c = (IF Tree!HasBoth(t, n) THEN Tree!Rightest(t, t.left[n]) ELSE n)
        /\ s = Tree!Delete(t, TreeKey, d) /\ z = Less(b, TreeKey[d]) /\ d \in Tree!Data
    BY <1>1, <1>4
  <2>2. QED
    BY ONLY <2>1, DeleteKept
<1>6. Deleted(s, t, v, n, c)
  BY <1>3, <1>5
<1>7. k \in Tree!Keys /\ v \in Nat
  BY <1>2, <1>3, KeyFacts
<1>8. PICK w \in Nat : w = (IF v = 0 THEN 0 ELSE v - 1)
  BY <1>7
<1>9. z = [b EXCEPT ![k] = w]
  BY <1>3, <1>8
<1>10. References(b) \in Nat /\ References(z) = References(b) + w - b[k]
  BY ONLY <1>2, <1>7, <1>9, SumChanges
<1>11. References(z) = References(b) + w - v
  BY <1>3, <1>10
<1>12. e => t.nodes + t.duplicates = References(b)
  BY DEF Sound
<1>13. u => e /\ (v = 1 /\ Tree!HasBoth(t, n) => t.ref[c] = 1)
  BY <1>3 DEF CountsLast
<1>14. ASSUME u PROVE s.nodes + s.duplicates = References(z)
  <2>1. t.nodes + t.duplicates = References(b) /\ (v = 1 /\ Tree!HasBoth(t, n) => t.ref[c] = 1)
    BY <1>12, <1>13, <1>14
  <2>2. CASE v = 0
    BY <1>2, <1>6, <1>8, <1>10, <1>11, <2>1, <2>2 DEF Deleted, Counts
  <2>3. CASE v > 1
    BY <1>2, <1>6, <1>7, <1>8, <1>10, <1>11, <2>1, <2>3 DEF Deleted, Counts
  <2>4. CASE v = 1 /\ Tree!HasBoth(t, n)
    <3>1. Fewer(s, t, t.ref[c]) /\ t.ref[c] = 1
      BY <1>6, <2>1, <2>4 DEF Deleted
    <3>2. s.nodes = t.nodes - 1 /\ s.duplicates = t.duplicates + 1 - 1
      BY <3>1 DEF Fewer
    <3>3. QED
      BY <1>2, <1>8, <1>10, <1>11, <2>1, <2>4, <3>2
  <2>5. CASE v = 1 /\ ~ Tree!HasBoth(t, n)
    <3>1. Counts(s, t, - 1, 0)
      BY <1>6, <2>5 DEF Deleted
    <3>2. s.nodes = t.nodes + (- 1) /\ s.duplicates = t.duplicates + 0
      BY <3>1 DEF Counts
    <3>3. QED
      BY <1>2, <1>8, <1>10, <1>11, <2>1, <2>5, <3>2
  <2>6. QED
    BY <1>7, <2>2, <2>3, <2>4, <2>5
<1>15. QED
  BY <1>5, <1>14 DEF Sound

\* The inductive invariant.
TreeInv == Sound(tree, held, bag, exact)

LEMMA InitTree == Tree!Init => TreeInv
<1>1. SUFFICES ASSUME Tree!Init PROVE TreeInv
  OBVIOUS
<1>2. tree = Tree!EmptyTree /\ held = {} /\ bag = Nothing /\ exact = TRUE
  BY <1>1 DEF Tree!Init, Nothing
<1>3. Sound(tree, held, bag, TRUE)
  BY <1>2, InitSound
<1>4. QED
  BY <1>2, <1>3 DEF TreeInv

LEMMA InsertDatumInv ==
    ASSUME TreeInv, NEW d \in Tree!Data, Tree!InsertDatum(d)
    PROVE  TreeInv'
<1>1. PICK t, h, b, e : t = tree /\ h = held /\ b = bag /\ e = exact
  OBVIOUS
<1>2. PICK s, c : s = tree' /\ c = bag'
  OBVIOUS
<1>3. PICK n \in Tree!Fresh(t) : s = Tree!InsertData(t, TreeKey, n, d)
  BY <1>1, <1>2 DEF Tree!InsertDatum
<1>4. c = [b EXCEPT ![TreeKey[d]] = @ + 1] /\ held' = h /\ exact' = e
  BY <1>1, <1>2 DEF Tree!InsertDatum
<1>5. Sound(t, h, b, e)
  BY <1>1 DEF TreeInv
<1>6. Sound(s, h, c, e)
  BY <1>3, <1>4, <1>5, InsertDataSound
<1>7. QED
  BY <1>2, <1>4, <1>6 DEF TreeInv

LEMMA InsertNodeInv ==
    ASSUME TreeInv, NEW n \in held, Tree!InsertNode(n)
    PROVE  TreeInv'
<1>1. PICK t, h, b, e : t = tree /\ h = held /\ b = bag /\ e = exact
  OBVIOUS
<1>2. PICK s, g, c, u : s = tree' /\ g = held' /\ c = bag' /\ u = exact'
  OBVIOUS
<1>3. /\ s = Tree!Insert(t, TreeKey, n) /\ g = h \ {n} /\ n \in h
      /\ c = [b EXCEPT ![TreeKey[t.data[n]]] = @ + t.ref[n]] /\ CountsOne(u, e, t, n)
  BY <1>1, <1>2 DEF Tree!InsertNode, Tree!KeyOf, CountsOne
<1>4. Sound(t, h, b, e)
  BY <1>1 DEF TreeInv
<1>5. Sound(s, g, c, u)
  BY ONLY <1>3, <1>4, InsertSound
<1>6. QED
  BY <1>2, <1>5 DEF TreeInv

LEMMA PopNodeInv ==
    ASSUME TreeInv, NEW d \in Tree!Data, Tree!PopNode(d)
    PROVE  TreeInv'
<1>1. PICK t, h, b, e : t = tree /\ h = held /\ b = bag /\ e = exact
  OBVIOUS
<1>2. PICK s, g, c, u : s = tree' /\ g = held' /\ c = bag' /\ u = exact'
  OBVIOUS
<1>3. PICK p, n, m, q, x : /\ p = Tree!Path(t, TreeKey, d) /\ n = p[Len(p)]
                           /\ m = (IF Tree!HasBoth(t, n) THEN Tree!Rightest(t, t.left[n]) ELSE n)
                           /\ q = Tree!Pop(t, TreeKey, d) /\ x = q.node
  OBVIOUS
<1>4. n = Tree!NodeOf(d) /\ m = Tree!Counted(d)
  BY <1>1, <1>3 DEF Tree!NodeOf, Tree!Counted
<1>5. /\ Tree!Found(t, TreeKey, d) /\ s = q.tree /\ g = h \cup {x}
      /\ c = [b EXCEPT ![TreeKey[d]] = 0]
  BY <1>1, <1>2, <1>3 DEF Tree!PopNode
<1>6. CountsSame(u, e, t, m, n)
  BY <1>1, <1>2, <1>4 DEF CountsSame, Tree!PopNode
<1>7. Sound(t, h, b, e)
  BY <1>1 DEF TreeInv
<1>8. Sound(s, g, c, u)
  <2>1. d \in Tree!Data
    OBVIOUS
  <2>2. QED
    BY ONLY <1>3, <1>5, <1>6, <1>7, <2>1, PopSound
<1>9. QED
  BY <1>2, <1>8 DEF TreeInv

LEMMA DeleteValueInv ==
    ASSUME TreeInv, NEW d \in Tree!Data, Tree!DeleteValue(d)
    PROVE  TreeInv'
<1>1. PICK t, h, b, e : t = tree /\ h = held /\ b = bag /\ e = exact
  OBVIOUS
<1>2. PICK s, c, u : s = tree' /\ c = bag' /\ u = exact'
  OBVIOUS
<1>3. PICK p, n, m : /\ p = Tree!Path(t, TreeKey, d) /\ n = p[Len(p)]
                     /\ m = (IF Tree!HasBoth(t, n) THEN Tree!Rightest(t, t.left[n]) ELSE n)
  OBVIOUS
<1>4. n = Tree!NodeOf(d) /\ m = Tree!Counted(d)
  BY <1>1, <1>3 DEF Tree!NodeOf, Tree!Counted
<1>5. /\ s = Tree!Delete(t, TreeKey, d) /\ held' = h
      /\ c = [b EXCEPT ![TreeKey[d]] = IF @ = 0 THEN 0 ELSE @ - 1]
  BY <1>1, <1>2 DEF Tree!DeleteValue
<1>6. CountsLast(u, e, b, d, t, n, m)
  BY <1>1, <1>2, <1>4 DEF CountsLast, Tree!DeleteValue
<1>7. Sound(t, h, b, e)
  BY <1>1 DEF TreeInv
<1>8. Sound(s, h, c, u)
  <2>1. d \in Tree!Data
    OBVIOUS
  <2>2. QED
    BY ONLY <1>3, <1>5, <1>6, <1>7, <2>1, DeleteSound
<1>9. QED
  BY <1>2, <1>5, <1>8 DEF TreeInv

LEMMA TrashNodeInv ==
    ASSUME TreeInv, NEW n \in held, Tree!TrashNode(n)
    PROVE  TreeInv'
<1>1. PICK t, h, b, e : t = tree /\ h = held /\ b = bag /\ e = exact
  OBVIOUS
<1>2. PICK s, g : s = tree' /\ g = held'
  OBVIOUS
<1>3. s = Tree!Trash(t, n) /\ g = h \ {n} /\ n \in h /\ bag' = b /\ exact' = e
  BY <1>1, <1>2 DEF Tree!TrashNode
<1>4. Sound(t, h, b, e)
  BY <1>1 DEF TreeInv
<1>5. Sound(s, g, b, e)
  BY <1>3, <1>4, TrashSound
<1>6. QED
  BY <1>2, <1>3, <1>5 DEF TreeInv

LEMMA ResetTreeInv ==
    ASSUME TreeInv, Tree!ResetTree
    PROVE  TreeInv'
<1>1. PICK t, h, b, e : t = tree /\ h = held /\ b = bag /\ e = exact
  OBVIOUS
<1>2. PICK s, z, u : s = tree' /\ z = bag' /\ u = exact'
  OBVIOUS
<1>3. Sound(t, h, b, e)
  BY <1>1 DEF TreeInv
<1>4. CASE broken' = TRUE /\ UNCHANGED <<tree, held, bag, exact>>
  BY <1>4 DEF TreeInv, Sound, Tidy
<1>5. CASE s = Tree!Reset(t) /\ z = Nothing /\ (u => e /\ t.duplicates = 0) /\ held' = h
  <2>1. Sound(s, h, z, u)
    BY <1>3, <1>5, ResetSound
  <2>2. QED
    BY <1>2, <1>5, <2>1 DEF TreeInv
<1>6. QED
  BY <1>1, <1>2, <1>4, <1>5 DEF Tree!ResetTree, Nothing

\* The ends of a tree that is not empty are nodes with a value.
LEMMA EndsHaveData ==
    ASSUME NEW t, NEW h, NEW b, NEW D, Tidy(t, h, b, D), NEW end \in {t.top, t.bottom},
           end \notin {NIL, Tree!Dangling}
    PROVE  t.data[end] \in Tree!Data
<1>1. PICK l, r, K, root, top, bottom : /\ l = t.left /\ r = t.right /\ K = KeyAt(t.data) /\ root = t.root
                                        /\ top = t.top /\ bottom = t.bottom
  OBVIOUS
<1>2. Ordered(l, r, D, K, root, top, bottom) /\ Valued(Under(D, root) \cup h, t.data, t.ref)
  BY <1>1 DEF Tidy
<1>3. end \in Under(D, root)
  BY <1>1, <1>2, EndsInside
<1>4. QED
  BY <1>2, <1>3 DEF Valued

LEMMA AtEndInv ==
    ASSUME TreeInv, NEW end \in {tree.top, tree.bottom}, Tree!AtEnd(end)
    PROVE  TreeInv'
<1>1. CASE broken' = TRUE /\ UNCHANGED <<tree, held, bag, exact>>
  BY <1>1 DEF TreeInv, Sound, Tidy
<1>2. CASE /\ end \notin {NIL, Tree!Dangling}
           /\ Tree!PopNode(tree.data[end]) \/ Tree!DeleteValue(tree.data[end])
  <2>1. PICK t : t = tree
    OBVIOUS
  <2>2. PICK D : Tidy(t, held, bag, D)
    BY <2>1 DEF TreeInv, Sound
  <2>3. t.data[end] \in Tree!Data
    BY <1>2, <2>1, <2>2, EndsHaveData
  <2>4. PICK d \in Tree!Data : d = tree.data[end]
    BY <2>1, <2>3
  <2>5. Tree!PopNode(d) \/ Tree!DeleteValue(d)
    BY <1>2, <2>4
  <2>6. QED
    BY <2>5, PopNodeInv, DeleteValueInv
<1>3. QED
  BY <1>1, <1>2 DEF Tree!AtEnd

LEMMA NextTree == TreeInv /\ [Tree!Next]_(Tree!vars) => TreeInv'
<1>1. SUFFICES ASSUME TreeInv, [Tree!Next]_(Tree!vars) PROVE TreeInv'
  OBVIOUS
<1>2. ASSUME NEW d \in Tree!Data, Tree!InsertDatum(d) PROVE TreeInv'
  BY <1>1, <1>2, InsertDatumInv
<1>3. ASSUME NEW d \in Tree!Data, Tree!PopNode(d) PROVE TreeInv'
  BY <1>1, <1>3, PopNodeInv
<1>4. ASSUME NEW d \in Tree!Data, Tree!DeleteValue(d) PROVE TreeInv'
  BY <1>1, <1>4, DeleteValueInv
<1>5. ASSUME NEW n \in held, Tree!InsertNode(n) PROVE TreeInv'
  BY <1>1, <1>5, InsertNodeInv
<1>6. ASSUME NEW n \in held, Tree!TrashNode(n) PROVE TreeInv'
  BY <1>1, <1>6, TrashNodeInv
<1>7. CASE Tree!ResetTree
  BY <1>1, <1>7, ResetTreeInv
<1>8. CASE Tree!AtEnd(tree.top) \/ Tree!AtEnd(tree.bottom)
  BY <1>1, <1>8, AtEndInv
<1>9. CASE UNCHANGED Tree!vars
  BY <1>1, <1>9 DEF Tree!vars, TreeInv, Sound, Tidy
<1>10. QED
  BY <1>1, <1>2, <1>3, <1>4, <1>5, <1>6, <1>7, <1>8, <1>9 DEF Tree!Next

-----------------------------------------------------------------------------
(***************************************************************************)
(* What the invariant says.                                                *)
(***************************************************************************)

\* The parts of a tree that a caller relies on.
SortedParts(t, S, K, l, r, b, top, bottom) ==
    \A n \in S : /\ t.ref[n] = b[K[n]]
                 /\ \A m \in Tree!Reachable([t EXCEPT !.root = l[n]]) : l[n] # NIL => m \in S /\ K[m] < K[n]
                 /\ \A m \in Tree!Reachable([t EXCEPT !.root = r[n]]) : r[n] # NIL => m \in S /\ K[n] < K[m]
                 /\ top \in S /\ bottom \in S /\ K[n] <= K[top] /\ K[bottom] <= K[n]

LEMMA InsideIs ==
    ASSUME NEW t, NEW h, NEW b, NEW D, Tidy(t, h, b, D), NEW S, S = Under(D, t.root)
    PROVE  /\ Tree!Reachable(t) = S /\ S \subseteq TreeNodes /\ IsFiniteSet(S)
           /\ \A x \in TreeNodes \cup {NIL} : Tree!Reachable([t EXCEPT !.root = x]) = Under(D, x)
<1>1. PICK l, r, K, root, top, bottom : /\ l = t.left /\ r = t.right /\ K = KeyAt(t.data) /\ root = t.root
                                        /\ top = t.top /\ bottom = t.bottom
  OBVIOUS
<1>2. Ordered(l, r, D, K, root, top, bottom) /\ IsTree(t)
  BY <1>1 DEF Tidy, Typed
<1>3. Shape(l, r, D) /\ root \in TreeNodes \cup {NIL}
  BY <1>2 DEF Ordered
<1>4. Tree!Reachable(t) = S
  BY <1>1, <1>3, ReachableIs
<1>5. S \subseteq TreeNodes /\ IsFiniteSet(S)
  <2>1. S = Under(D, root)
    BY <1>1
  <2>2. QED
    BY <1>2, <2>1, InsideFinite
<1>6. ASSUME NEW x \in TreeNodes \cup {NIL} PROVE Tree!Reachable([t EXCEPT !.root = x]) = Under(D, x)
  <2>1. PICK s : s = [t EXCEPT !.root = x]
    OBVIOUS
  <2>2. s.left = l /\ s.right = r /\ s.root = x
    BY <1>1, <1>2, <2>1 DEF IsTree
  <2>3. Shape(s.left, s.right, D)
    BY <1>3, <2>2
  <2>4. Tree!Reachable(s) = Under(D, s.root) \/ s.root \notin TreeNodes \cup {NIL}
    BY ONLY <2>3, ReachableIs
  <2>5. QED
    BY <2>1, <2>2, <2>4
<1>7. QED
  BY <1>4, <1>5, <1>6

LEMMA BijectionIs ==
    ASSUME NEW A, NEW B, NEW f \in [A -> B], \A x, y \in A : f[x] = f[y] => x = y,
           \A z \in B : \E x \in A : f[x] = z
    PROVE  ExistsBijection(A, B)
<1>1. f \in Injection(A, B)
  BY DEF Injection, IsInjective
<1>2. f \in Surjection(A, B)
  BY DEF Surjection
<1>3. QED
  BY <1>1, <1>2 DEF Bijection, ExistsBijection

LEMMA JoinSize ==
    ASSUME NEW A, NEW B, IsFiniteSet(A), IsFiniteSet(B), A \cap B = {}
    PROVE  IsFiniteSet(A \cup B) /\ Cardinality(A \cup B) = Cardinality(A) + Cardinality(B)
<1>1. /\ IsFiniteSet(A \cup B)
      /\ Cardinality(A \cup B) = Cardinality(A) + Cardinality(B) - Cardinality(A \cap B)
  BY FS_Union
<1>2. Cardinality(A \cap B) = 0
  <2>1. A \cap B = {} /\ Cardinality({}) = 0
    BY FS_EmptySet
  <2>2. QED
    BY <2>1
<1>3. Cardinality(A) \in Nat /\ Cardinality(B) \in Nat
  BY FS_CardinalityType
<1>4. PICK a, b, c, d : /\ a = Cardinality(A) /\ b = Cardinality(B) /\ c = Cardinality(A \cap B)
                        /\ d = Cardinality(A \cup B)
  OBVIOUS
<1>5. d = a + b
  BY <1>1, <1>2, <1>3, <1>4
<1>6. QED
  BY <1>1, <1>4, <1>5

LEMMA KeysAreNodes ==
    ASSUME NEW t, NEW h, NEW b, NEW D, Tidy(t, h, b, D), NEW S, S = Under(D, t.root),
           NEW K, K = KeyAt(t.data), NEW Q, Q = {k \in Tree!Keys : b[k] > 0}
    PROVE  {K[n] : n \in S} = Q /\ Cardinality(Q) = Cardinality(S)
<1>1. PICK l, r, root, top, bottom : l = t.left /\ r = t.right /\ root = t.root /\ top = t.top /\ bottom = t.bottom
  OBVIOUS
<1>2. /\ Ordered(l, r, D, K, root, top, bottom) /\ Valued(S \cup h, t.data, t.ref)
      /\ Bagged(S, K, t.ref, b) /\ S = Under(D, root)
  BY <1>1 DEF Tidy
<1>3. S \subseteq TreeNodes /\ IsFiniteSet(S)
  BY <1>2, InsideFinite
<1>4. ASSUME NEW n \in S PROVE K[n] \in Q
  <2>1. n \in TreeNodes /\ t.data[n] \in Tree!Data /\ t.ref[n] > 0 /\ t.ref[n] = b[K[n]]
    BY <1>2, <1>3 DEF Valued, Bagged
  <2>2. K[n] = TreeKey[t.data[n]]
    BY <2>1 DEF KeyAt
  <2>3. K[n] \in Tree!Keys
    BY <2>1, <2>2, KeyFacts
  <2>4. QED
    BY <2>1, <2>3
<1>5. \A k \in Q : \E n \in S : K[n] = k
  BY <1>2 DEF Bagged
<1>6. {K[n] : n \in S} = Q
  BY <1>4, <1>5
<1>7. ASSUME NEW m \in S, NEW n \in S, K[m] = K[n] PROVE m = n
  <2>1. SUFFICES ASSUME m # n PROVE FALSE
    OBVIOUS
  <2>2. root # NIL
    BY <1>2, <1>7 DEF Under
  <2>3. root \in TreeNodes /\ S = D[root]
    BY <1>2, <2>2, InsideFinite
  <2>4. Shape(l, r, D) /\ Sorted(l, r, D, K, D[root]) /\ root \in TreeNodes /\ m \in D[root] /\ n \in D[root] /\ m # n
    BY <1>2, <1>7, <2>1, <2>3 DEF Ordered
  <2>5. K[m] # K[n]
    BY ONLY <2>4, KeysDiffer
  <2>6. QED
    BY <1>7, <2>5
<1>8. ExistsBijection(S, Q)
  <2>1. PICK f : f = [n \in S |-> K[n]]
    OBVIOUS
  <2>2. f \in [S -> Q] /\ \A n \in S : f[n] = K[n]
    BY <1>4, <2>1
  <2>3. \A m, n \in S : f[m] = f[n] => m = n
    BY <1>7, <2>2
  <2>4. \A k \in Q : \E n \in S : f[n] = k
    BY <1>5, <2>2
  <2>5. QED
    BY ONLY <2>2, <2>3, <2>4, BijectionIs
<1>9. QED
  BY <1>3, <1>6, <1>8, FS_Bijection

LEMMA PartsAreSorted ==
    ASSUME NEW t, NEW h, NEW b, NEW D, Tidy(t, h, b, D), NEW S, S = Under(D, t.root),
           NEW K, K = KeyAt(t.data), NEW l, l = t.left, NEW r, r = t.right,
           NEW top, top = t.top, NEW bottom, bottom = t.bottom
    PROVE  /\ SortedParts(t, S, K, l, r, b, top, bottom)
           /\ S = {} => {top, bottom} \subseteq {NIL, Tree!Dangling}
<1>1. PICK root : root = t.root
  OBVIOUS
<1>2. /\ Ordered(l, r, D, K, root, top, bottom) /\ Bagged(S, K, t.ref, b) /\ S = Under(D, root)
  BY <1>1 DEF Tidy
<1>3. /\ S \subseteq TreeNodes
      /\ \A x \in TreeNodes \cup {NIL} : Tree!Reachable([t EXCEPT !.root = x]) = Under(D, x)
  BY InsideIs
<1>4. Shape(l, r, D) /\ Sorted(l, r, D, K, S) /\ Ended(D, K, root, top, bottom) /\ root \in TreeNodes \cup {NIL}
  BY <1>2 DEF Ordered
<1>5. S = {} => {top, bottom} \subseteq {NIL, Tree!Dangling}
  <2>1. ASSUME root # NIL PROVE S # {}
    <3>1. root \in D[root] /\ Under(D, root) = D[root]
      BY <1>2, <2>1, InsideFinite
    <3>2. QED
      BY <1>2, <3>1
  <2>2. QED
    BY <1>4, <2>1 DEF Ended
<1>6. ASSUME NEW n \in S
      PROVE  /\ t.ref[n] = b[K[n]]
             /\ \A m \in Tree!Reachable([t EXCEPT !.root = l[n]]) : l[n] # NIL => m \in S /\ K[m] < K[n]
             /\ \A m \in Tree!Reachable([t EXCEPT !.root = r[n]]) : r[n] # NIL => m \in S /\ K[n] < K[m]
             /\ top \in S /\ bottom \in S /\ K[n] <= K[top] /\ K[bottom] <= K[n]
  <2>1. n \in TreeNodes /\ root # NIL /\ t.ref[n] = b[K[n]]
    BY <1>2, <1>3 DEF Bagged, Under
  <2>2. S = D[root] /\ root \in TreeNodes
    BY <1>2, <2>1, InsideFinite
  <2>3. l[n] \in TreeNodes \cup {NIL} /\ r[n] \in TreeNodes \cup {NIL}
        /\ Under(D, l[n]) \subseteq D[n] /\ Under(D, r[n]) \subseteq D[n]
    BY <1>4, <2>1, ShapeOf
  <2>4. D[n] \subseteq S
    BY <1>4, <2>2, Below
  <2>5. /\ Tree!Reachable([t EXCEPT !.root = l[n]]) = Under(D, l[n])
        /\ Tree!Reachable([t EXCEPT !.root = r[n]]) = Under(D, r[n])
    BY <1>3, <2>3
  <2>6. /\ \A m \in Under(D, l[n]) : m \in S /\ K[m] < K[n]
        /\ \A m \in Under(D, r[n]) : m \in S /\ K[n] < K[m]
    BY <1>4, <2>3, <2>4 DEF Sorted
  <2>7. Utmost(D, K, top, root) /\ Lowmost(D, K, bottom, root)
    BY <1>4, <2>1 DEF Ended
  <2>8. top \in S /\ bottom \in S /\ (n = top \/ K[n] < K[top]) /\ (n = bottom \/ K[bottom] < K[n])
    BY <2>2, <2>7 DEF Utmost, Lowmost
  <2>9. K[n] \in Int /\ K[top] \in Int /\ K[bottom] \in Int
    BY <1>4, <2>8 DEF Sorted
  <2>10. K[n] <= K[top] /\ K[bottom] <= K[n]
    BY <2>8, <2>9
  <2>11. QED
    BY <2>1, <2>5, <2>6, <2>8, <2>10
<1>7. QED
  BY <1>5, <1>6 DEF SortedParts

LEMMA PufferSize ==
    ASSUME NEW q \in Seq(TreeNodes), \A i, j \in 1 .. Len(q) : q[i] = q[j] => i = j
    PROVE  IsFiniteSet(Puffer(q)) /\ Cardinality(Puffer(q)) = Len(q) /\ {q[i] : i \in DOMAIN q} = Puffer(q)
<1>1. PICK n : n = Len(q)
  OBVIOUS
<1>2. n \in Nat /\ DOMAIN q = 1 .. n
  BY <1>1, LenProperties
<1>3. IsFiniteSet(1 .. n) /\ Cardinality(1 .. n) = n
  BY <1>2, FS_Interval
<1>4. ExistsBijection(1 .. n, Puffer(q))
  <2>1. PICK f : f = [i \in 1 .. n |-> q[i]]
    OBVIOUS
  <2>2. f \in [1 .. n -> Puffer(q)] /\ \A i \in 1 .. n : f[i] = q[i]
    BY <1>1, <2>1 DEF Puffer
  <2>3. \A i, j \in 1 .. n : f[i] = f[j] => i = j
    BY <1>1, <2>2
  <2>4. PICK P, A : P = Puffer(q) /\ A = 1 .. n
    OBVIOUS
  <2>5. \A x \in P : \E i \in A : f[i] = x
    BY <1>1, <2>2, <2>4 DEF Puffer
  <2>6. f \in [A -> P] /\ \A i, j \in A : f[i] = f[j] => i = j
    BY <2>2, <2>3, <2>4
  <2>7. ExistsBijection(A, P)
    BY ONLY <2>5, <2>6, BijectionIs
  <2>8. QED
    BY <2>4, <2>7
<1>5. {q[i] : i \in DOMAIN q} = Puffer(q)
  BY <1>1, <1>2 DEF Puffer
<1>6. QED
  BY <1>1, <1>3, <1>4, <1>5, FS_Bijection

LEMMA OwnersAre ==
    ASSUME NEW S, NEW q, NEW h, NEW f, Owned(S, q, h, f)
    PROVE  /\ S \cup {q[i] : i \in DOMAIN q} \cup h \cup f = TreeNodes
           /\ Cardinality(S) + Len(q) + Cardinality(h) + Cardinality(f) = Cardinality(TreeNodes)
<1>1. PICK P : P = Puffer(q)
  OBVIOUS
<1>2. /\ S \cup P \cup h \cup f = TreeNodes /\ S \cap P = {} /\ S \cap h = {} /\ S \cap f = {}
      /\ P \cap h = {} /\ P \cap f = {} /\ h \cap f = {}
  BY <1>1 DEF Owned
<1>3. P = {q[i] : i \in DOMAIN q} /\ Cardinality(P) = Len(q)
  BY <1>1, PufferSize DEF Owned
<1>4. IsFiniteSet(S) /\ IsFiniteSet(P) /\ IsFiniteSet(h) /\ IsFiniteSet(f)
  BY <1>2, TreeAssumption, FS_Subset
<1>5. IsFiniteSet(S \cup P) /\ Cardinality(S \cup P) = Cardinality(S) + Cardinality(P)
  BY <1>2, <1>4, JoinSize
<1>6. PICK A : A = S \cup P
  OBVIOUS
<1>7. A \cap h = {} /\ A \cap f = {} /\ IsFiniteSet(A)
  BY <1>2, <1>5, <1>6
<1>8. IsFiniteSet(A \cup h) /\ Cardinality(A \cup h) = Cardinality(A) + Cardinality(h)
  BY <1>4, <1>7, JoinSize
<1>9. PICK B : B = A \cup h
  OBVIOUS
<1>10. B \cap f = {} /\ IsFiniteSet(B) /\ B \cup f = TreeNodes
  BY <1>2, <1>6, <1>7, <1>8, <1>9
<1>11. Cardinality(B \cup f) = Cardinality(B) + Cardinality(f)
  BY <1>4, <1>10, JoinSize
<1>12. QED
  BY <1>2, <1>3, <1>5, <1>6, <1>8, <1>9, <1>10, <1>11

LEMMA SizeIs == \A X : Tree!Cardinality(X) = Cardinality(X)
BY DEF Tree!Cardinality, Cardinality

LEMMA InvIsSorted == TreeInv => Tree!TreeIsSortedBag
<1>1. SUFFICES ASSUME TreeInv PROVE Tree!TreeIsSortedBag
  OBVIOUS
<1>2. PICK t, h, b, e : t = tree /\ h = held /\ b = bag /\ e = exact
  OBVIOUS
<1>3. Sound(t, h, b, e)
  BY <1>1, <1>2 DEF TreeInv
<1>4. PICK D : Tidy(t, h, b, D)
  BY <1>3 DEF Sound
<1>5. PICK S, K, l, r, top, bottom, Q : /\ S = Under(D, t.root) /\ K = KeyAt(t.data) /\ l = t.left /\ r = t.right
                                        /\ top = t.top /\ bottom = t.bottom /\ Q = {k \in Tree!Keys : b[k] > 0}
  OBVIOUS
<1>6. /\ Tree!Reachable(t) = S /\ S \subseteq TreeNodes /\ t.nodes = Cardinality(S)
  BY <1>4, <1>5, InsideIs DEF Tidy
<1>7. {K[n] : n \in S} = Q /\ Cardinality(Q) = Cardinality(S)
  BY ONLY <1>4, <1>5, KeysAreNodes
<1>8. /\ SortedParts(t, S, K, l, r, b, top, bottom)
      /\ S = {} => {top, bottom} \subseteq {NIL, Tree!Dangling}
  BY ONLY <1>4, <1>5, PartsAreSorted
<1>9. \A n \in S : Tree!KeyOf(n) = K[n]
  BY <1>2, <1>5, <1>6 DEF Tree!KeyOf, KeyAt
<1>10. Q = Tree!InBag
  BY <1>2, <1>5 DEF Tree!InBag
<1>11. Tree!Reachable(tree) = S /\ tree.top = top /\ tree.bottom = bottom /\ tree.left = l /\ tree.right = r
  BY <1>2, <1>5, <1>6
<1>12. {Tree!KeyOf(n) : n \in S} = Q
  BY <1>7, <1>9
<1>13. Tree!get_nodenum(tree) = Cardinality(S)
  BY <1>2, <1>6 DEF Tree!get_nodenum
<1>14. ASSUME NEW n \in S
       PROVE  /\ tree.ref[n] = bag[Tree!KeyOf(n)]
              /\ \A m \in (IF l[n] = NIL THEN {} ELSE Tree!Reachable([tree EXCEPT !.root = l[n]])) :
                    Tree!KeyOf(m) < Tree!KeyOf(n)
              /\ \A m \in (IF r[n] = NIL THEN {} ELSE Tree!Reachable([tree EXCEPT !.root = r[n]])) :
                    Tree!KeyOf(n) < Tree!KeyOf(m)
              /\ Tree!KeyOf(n) <= Tree!KeyOf(top) /\ Tree!KeyOf(bottom) <= Tree!KeyOf(n)
  <2>1. /\ t.ref[n] = b[K[n]]
        /\ \A m \in Tree!Reachable([t EXCEPT !.root = l[n]]) : l[n] # NIL => m \in S /\ K[m] < K[n]
        /\ \A m \in Tree!Reachable([t EXCEPT !.root = r[n]]) : r[n] # NIL => m \in S /\ K[n] < K[m]
        /\ top \in S /\ bottom \in S /\ K[n] <= K[top] /\ K[bottom] <= K[n]
    BY <1>8 DEF SortedParts
  <2>2. tree.ref[n] = bag[Tree!KeyOf(n)]
    BY <1>2, <1>9, <2>1
  <2>3. Tree!KeyOf(n) <= Tree!KeyOf(top) /\ Tree!KeyOf(bottom) <= Tree!KeyOf(n)
    BY <1>9, <2>1
  <2>4. ASSUME NEW m \in Tree!Reachable([tree EXCEPT !.root = l[n]]), l[n] # NIL PROVE Tree!KeyOf(m) < Tree!KeyOf(n)
    <3>1. m \in S /\ K[m] < K[n]
      BY <1>2, <2>1, <2>4
    <3>2. QED
      BY <1>9, <3>1
  <2>5. ASSUME NEW m \in Tree!Reachable([tree EXCEPT !.root = r[n]]), r[n] # NIL PROVE Tree!KeyOf(n) < Tree!KeyOf(m)
    <3>1. m \in S /\ K[n] < K[m]
      BY <1>2, <2>1, <2>5
    <3>2. QED
      BY <1>9, <3>1
  <2>6. QED
    BY <2>2, <2>3, <2>4, <2>5
<1>15. exact => Tree!get_refnum(tree) = Tree!Total
  <2>1. e => t.nodes + t.duplicates = References(b)
    BY <1>3 DEF Sound
  <2>2. Tree!Total = References(bag)
    BY TotalIs
  <2>3. QED
    BY <1>2, <2>1, <2>2 DEF Tree!get_refnum
<1>16. QED
  BY <1>7, <1>8, <1>10, <1>11, <1>12, <1>13, <1>14, <1>15, SizeIs DEF Tree!TreeIsSortedBag

LEMMA InvHasOwners == TreeInv => Tree!NodesHaveOneOwner
<1>1. SUFFICES ASSUME TreeInv PROVE Tree!NodesHaveOneOwner
  OBVIOUS
<1>2. PICK t, h, b : t = tree /\ h = held /\ b = bag
  OBVIOUS
<1>3. PICK D : Tidy(t, h, b, D)
  BY <1>1, <1>2 DEF TreeInv, Sound
<1>4. PICK S, q, f : S = Under(D, t.root) /\ q = t.recycle /\ f = t.free
  OBVIOUS
<1>5. Tree!Reachable(t) = S
  BY <1>3, <1>4, InsideIs
<1>6. Owned(S, q, h, f)
  BY <1>3, <1>4 DEF Tidy
<1>7. /\ S \cup {q[i] : i \in DOMAIN q} \cup h \cup f = TreeNodes
      /\ Cardinality(S) + Len(q) + Cardinality(h) + Cardinality(f) = Cardinality(TreeNodes)
  BY <1>6, OwnersAre
<1>8. QED
  BY <1>2, <1>4, <1>5, <1>7, SizeIs DEF Tree!NodesHaveOneOwner

\* A tree in the hands of one caller is the sorted bag its calls made, and every node is at one
\* place: lib_bintree.c.  Calls end with the first use of freed memory: a pop at an end that a
\* reset left, or a reset that outgrew the puffer and walks from the inner child of an end.
THEOREM TreeSorted == Tree!Spec => []TreeIsSortedBag
<1>1. Tree!Init => TreeInv
  BY InitTree
<1>2. TreeInv /\ [Tree!Next]_(Tree!vars) => TreeInv'
  BY NextTree
<1>3. TreeInv => TreeIsSortedBag
  BY InvIsSorted, InvHasOwners DEF TreeIsSortedBag
<1>4. QED
  BY <1>1, <1>2, <1>3, PTL DEF Tree!Spec
=============================================================================
