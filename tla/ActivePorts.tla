----------------------------- MODULE ActivePorts -----------------------------
(***************************************************************************)
(* What a flow counter of NTRT promises to whoever reads the csv file: the *)
(* number of ports of a listener on which a packet was seen less than      *)
(* Timeout ago.  It takes time to count while the clock goes on, so an     *)
(* answer may leave out a port that times out between the request and the  *)
(* answer, and no other.  FlowCounter implements it with a list per        *)
(* listener that is cleaned up only when somebody asks.                    *)
(***************************************************************************)
EXTENDS Integers, FiniteSets

CONSTANTS Listeners,   \* the pcap listeners that count flows
          Ports,       \* port numbers
          Timeout,     \* timeout_treshold
          MaxTime      \* bound: the clock stops here

Never == -1

VARIABLES now,         \* the clock
          seen,        \* when a packet was last seen on each port of each listener
          asked,       \* since when a request for a listener is open
          report       \* the last answer for each listener

vars == <<now, seen, asked, report>>

\* The ports of listener l that count at time t.
Active(l, t) == {p \in Ports : seen[l][p] # Never /\ t - seen[l][p] < Timeout}

Init ==
    /\ now = 0
    /\ seen = [l \in Listeners |-> [p \in Ports |-> Never]]
    /\ asked = [l \in Listeners |-> Never]
    /\ report = [l \in Listeners |-> 0]

Tick ==
    /\ now < MaxTime
    /\ now' = now + 1
    /\ UNCHANGED <<seen, asked, report>>

See(l, p) ==
    /\ seen' = [seen EXCEPT ![l][p] = now]
    /\ UNCHANGED <<now, asked, report>>

Ask(l) ==
    /\ asked[l] = Never
    /\ asked' = [asked EXCEPT ![l] = now]
    /\ UNCHANGED <<now, seen, report>>

Answer(l) ==
    /\ asked[l] # Never
    /\ \E counted \in SUBSET Active(l, asked[l]) :
          /\ Active(l, now) \subseteq counted
          /\ report' = [report EXCEPT ![l] = Cardinality(counted)]
    /\ asked' = [asked EXCEPT ![l] = Never]
    /\ UNCHANGED <<now, seen>>

Next ==
    \/ Tick
    \/ \E l \in Listeners : Ask(l) \/ Answer(l) \/ \E p \in Ports : See(l, p)

Spec == Init /\ [][Next]_vars
=============================================================================
