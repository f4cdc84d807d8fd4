----------------------------- MODULE FlowCounter -----------------------------
(***************************************************************************)
(* The group counters of NTRT that count flows (cmp/cmp_groupcounter.c,    *)
(* lib/lib_groupcounters.c).  The sniffer of a listener adds the port of   *)
(* every packet to the listener's list, or refreshes it there; the relayer *)
(* asks for the count, and only then the flows that timed out are freed.   *)
(* One mutex serves all listeners.                                         *)
(*                                                                         *)
(* The critical section is several steps, one for each item of the list    *)
(* that a walk comes by, and the clock goes on under the mutex.  The four  *)
(* kinds of counters (SRC_, DST_, UDP, TCP) differ in the packets they     *)
(* look at; the counters of a listener are independent, so each listener   *)
(* has one.  The module covers the time between START and STOP.            *)
(***************************************************************************)
EXTENDS Integers, Sequences

CONSTANTS
    Listeners,   \* the pcap listeners with a group counter, a sniffer thread each
    Relayer,     \* the records relayer thread
    Nobody,      \* holds an unlocked mutex
    Ports,       \* port numbers
    Other,       \* stands for the port of a packet of another protocol
    Timeout,     \* timeout_treshold: the accumulation_time
    MaxTime      \* bound: the clock stops here

Threads == Listeners \cup {Relayer}
Time == 0 .. MaxTime

ASSUME ConstantsAssumption ==
    /\ Timeout \in Nat /\ MaxTime \in Nat
    /\ Relayer \notin Listeners /\ Nobody \notin Threads /\ Other \notin Ports

VARIABLES
    now,         \* gettimeofday, in units of the timeout
    mutex,       \* the component's mutex: its holder
    pc,          \* what each thread does next
    cursor,      \* the item of the list that a thread's walk is at
    packet,      \* the port of the packet each sniffer works on
    request,     \* the listener that the relayer asks for
    flows,       \* groupcounter_t.flows of each listener
    flowcounts,  \* groupcounter_t.flowcounts
    report,      \* what the relayer was told for each listener last
    seen,        \* history: when a packet was last seen on each port
    asked        \* history: since when a request for a listener is open

vars == <<now, mutex, pc, cursor, packet, request, flows, flowcounts, report, seen, asked>>
history == <<seen, asked>>

Never == -1

Goto(t, label) == pc' = [pc EXCEPT ![t] = label]

\* diffmtime_fromnow(&flow->last_activity) < timeout_treshold
Fresh(flow) == now - flow.last_activity < Timeout

\* The list without its i-th item.
Without(list, i) == [j \in 1 .. Len(list) - 1 |-> IF j < i THEN list[j] ELSE list[j + 1]]

-----------------------------------------------------------------------------
Init ==
    /\ now = 0
    /\ mutex = Nobody
    /\ pc = [t \in Threads |-> "idle"]
    /\ cursor = [t \in Threads |-> 1]
    /\ packet = [l \in Listeners |-> Other]
    /\ request \in Listeners
    /\ flows = [l \in Listeners |-> << >>]
    /\ flowcounts = [l \in Listeners |-> 0]
    /\ report = [l \in Listeners |-> 0]
    /\ seen = [l \in Listeners |-> [p \in Ports |-> Never]]
    /\ asked = [l \in Listeners |-> Never]

Tick ==
    /\ now < MaxTime
    /\ now' = now + 1
    /\ UNCHANGED <<mutex, pc, cursor, packet, request, flows, flowcounts, report, history>>

\* Mutant of Lock: nobody looks at the mutex.
LockIgnored(t) ==
    /\ pc[t] = "lock"
    /\ mutex' = t
    /\ Goto(t, IF t = Relayer THEN "enter" ELSE "walk")
    /\ UNCHANGED <<now, cursor, packet, request, flows, flowcounts, report, history>>

Lock(t) ==
    /\ pc[t] = "lock"
    /\ mutex = Nobody
    /\ mutex' = t
    /\ Goto(t, IF t = Relayer THEN "enter" ELSE "walk")
    /\ UNCHANGED <<now, cursor, packet, request, flows, flowcounts, report, history>>

\* The thread leaves the critical section; its locals are of no use any more.
Unlock(t) ==
    /\ pc[t] = "unlock"
    /\ mutex' = Nobody
    /\ cursor' = [cursor EXCEPT ![t] = 1]
    /\ packet' = IF t = Relayer THEN packet ELSE [packet EXCEPT ![t] = Other]
    /\ Goto(t, "idle")
    /\ UNCHANGED <<now, request, flows, flowcounts, report, history>>

-----------------------------------------------------------------------------
\* A packet is captured on listener l.
Capture(l, p) ==
    /\ pc[l] = "idle"
    /\ packet' = [packet EXCEPT ![l] = p]
    /\ Goto(l, "lock")
    /\ UNCHANGED <<now, mutex, cursor, request, flows, flowcounts, report, history>>

\* The counter does not look at packets of this protocol.
Ignore(l) ==
    /\ pc[l] = "walk"
    /\ packet[l] = Other
    /\ Goto(l, "unlock")
    /\ UNCHANGED <<now, mutex, cursor, packet, request, flows, flowcounts, report, history>>

\* The item at the cursor is another port's.
Pass(l) ==
    /\ pc[l] = "walk"
    /\ packet[l] # Other
    /\ cursor[l] <= Len(flows[l])
    /\ flows[l][cursor[l]].portnum # packet[l]
    /\ cursor' = [cursor EXCEPT ![l] = @ + 1]
    /\ UNCHANGED <<now, mutex, pc, packet, request, flows, flowcounts, report, history>>

\* The port has a flow already: its last activity is now.
Refresh(l) ==
    /\ pc[l] = "walk"
    /\ cursor[l] <= Len(flows[l])
    /\ flows[l][cursor[l]].portnum = packet[l]
    /\ flows' = [flows EXCEPT ![l][cursor[l]].last_activity = now]
    /\ seen' = [seen EXCEPT ![l][packet[l]] = now]
    /\ Goto(l, "unlock")
    /\ UNCHANGED <<now, mutex, cursor, packet, request, flowcounts, report, asked>>

\* create_and_append: the walk came to the end, or the list was empty.
AppendFlow(l) ==
    /\ pc[l] = "walk"
    /\ packet[l] # Other
    /\ cursor[l] > Len(flows[l])
    /\ flows' = [flows EXCEPT ![l] = Append(@, [portnum |-> packet[l], last_activity |-> now])]
    /\ seen' = [seen EXCEPT ![l][packet[l]] = now]
    /\ Goto(l, "count")
    /\ UNCHANGED <<now, mutex, cursor, packet, request, flowcounts, report, asked>>

CountFlow(l) ==
    /\ pc[l] = "count"
    /\ flowcounts' = [flowcounts EXCEPT ![l] = @ + 1]
    /\ Goto(l, "unlock")
    /\ UNCHANGED <<now, mutex, cursor, packet, request, flows, report, history>>

-----------------------------------------------------------------------------
\* The relayer's round comes to listener l.
Request(l) ==
    /\ pc[Relayer] = "idle"
    /\ request' = l
    /\ asked' = [asked EXCEPT ![l] = now]
    /\ Goto(Relayer, "lock")
    /\ UNCHANGED <<now, mutex, cursor, packet, flows, flowcounts, report, seen>>

\* _flows_obsolate_and_get: without a list the count is zero.
Enter ==
    /\ pc[Relayer] = "enter"
    /\ IF flows[request] = << >>
       THEN /\ flowcounts' = [flowcounts EXCEPT ![request] = 0]
            /\ Goto(Relayer, "answer")
       ELSE flowcounts' = flowcounts /\ Goto(Relayer, "walk")
    /\ UNCHANGED <<now, mutex, cursor, packet, request, flows, report, history>>

\* _flow_obsolator keeps an item and goes on with the next.
Keep ==
    /\ pc[Relayer] = "walk"
    /\ cursor[Relayer] <= Len(flows[request])
    /\ Fresh(flows[request][cursor[Relayer]])
    /\ cursor' = [cursor EXCEPT ![Relayer] = @ + 1]
    /\ UNCHANGED <<now, mutex, pc, packet, request, flows, flowcounts, report, history>>

\* Mutant of Drop: the item after a freed one is skipped.
DropAndSkip ==
    /\ pc[Relayer] = "walk"
    /\ cursor[Relayer] <= Len(flows[request])
    /\ ~ Fresh(flows[request][cursor[Relayer]])
    /\ flows' = [flows EXCEPT ![request] = Without(@, cursor[Relayer])]
    /\ cursor' = [cursor EXCEPT ![Relayer] = @ + 1]
    /\ Goto(Relayer, "discount")
    /\ UNCHANGED <<now, mutex, packet, request, flowcounts, report, history>>

\* It frees an item that timed out.
Drop ==
    /\ pc[Relayer] = "walk"
    /\ cursor[Relayer] <= Len(flows[request])
    /\ ~ Fresh(flows[request][cursor[Relayer]])
    /\ flows' = [flows EXCEPT ![request] = Without(@, cursor[Relayer])]
    /\ Goto(Relayer, "discount")
    /\ UNCHANGED <<now, mutex, cursor, packet, request, flowcounts, report, history>>

Discount ==
    /\ pc[Relayer] = "discount"
    /\ flowcounts' = [flowcounts EXCEPT ![request] = @ - 1]
    /\ Goto(Relayer, "walk")
    /\ UNCHANGED <<now, mutex, cursor, packet, request, flows, report, history>>

\* The end of the list.
Return ==
    /\ pc[Relayer] = "walk"
    /\ cursor[Relayer] > Len(flows[request])
    /\ Goto(Relayer, "answer")
    /\ UNCHANGED <<now, mutex, cursor, packet, request, flows, flowcounts, report, history>>

\* result->items[i] = get_counter(groupcounter)
Answer ==
    /\ pc[Relayer] = "answer"
    /\ report' = [report EXCEPT ![request] = flowcounts[request]]
    /\ asked' = [asked EXCEPT ![request] = Never]
    /\ Goto(Relayer, "unlock")
    /\ UNCHANGED <<now, mutex, cursor, packet, request, flows, flowcounts, seen>>

Sniffer(l) ==
    \/ \E p \in Ports \cup {Other} : Capture(l, p)
    \/ Ignore(l) \/ Pass(l) \/ Refresh(l) \/ AppendFlow(l) \/ CountFlow(l)

Counting == Enter \/ Keep \/ Drop \/ Discount \/ Return \/ Answer

Next ==
    \/ Tick
    \/ \E l \in Listeners : Sniffer(l) \/ Request(l)
    \/ \E t \in Threads : Lock(t) \/ Unlock(t)
    \/ Counting

Spec == Init /\ [][Next]_vars

-----------------------------------------------------------------------------
Flow == [portnum : Ports, last_activity : Time]
Labels == {"idle", "lock", "enter", "walk", "count", "discount", "answer", "unlock"}

\* Every field keeps its type; the counter is unsigned and never taken below zero.
TypeOK ==
    /\ now \in Time
    /\ mutex \in Threads \cup {Nobody}
    /\ pc \in [Threads -> Labels]
    /\ cursor \in [Threads -> Nat \ {0}]
    /\ packet \in [Listeners -> Ports \cup {Other}]
    /\ request \in Listeners
    /\ flows \in [Listeners -> Seq(Flow)]
    /\ flowcounts \in [Listeners -> Nat]
    /\ report \in [Listeners -> Nat]
    /\ seen \in [Listeners -> [Ports -> Time \cup {Never}]]
    /\ asked \in [Listeners -> Time \cup {Never}]

\* A port has at most one flow in the list of a listener, however sniffer and
\* relayer take turns between the walk and the append.
OneFlowPerPort ==
    \A l \in Listeners : \A i, j \in 1 .. Len(flows[l]) :
        flows[l][i].portnum = flows[l][j].portnum => i = j

\* The counter, which is never recomputed, is the length of the list, but for
\* the item that the holder of the mutex has appended or freed just now.
CountIsLength ==
    \A l \in Listeners :
        flowcounts[l] = Len(flows[l])
                        - (IF pc[l] = "count" THEN 1 ELSE 0)
                        + (IF pc[Relayer] = "discount" /\ request = l THEN 1 ELSE 0)

\* The component counts active ports as ActivePorts says: every answer contains
\* the ports active when it is given and no port that was not when it was asked for.
Abstract == INSTANCE ActivePorts
CountsActivePorts == Abstract!Spec
=============================================================================
