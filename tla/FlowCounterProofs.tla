-------------------------- MODULE FlowCounterProofs --------------------------
(***************************************************************************)
(* For every set of listeners and ports, every timeout and every clock:    *)
(* the list of a flow counter holds each active port once, the counter is  *)
(* its length, and every answer is a count of active ports.                *)
(***************************************************************************)
EXTENDS FlowCounter, SequenceTheorems, FiniteSetTheorems, TLAPS

Inside == {"enter", "walk", "count", "discount", "answer", "unlock"}

\* Who is inside the critical section is the holder of the mutex.
MutexIsHeld == \A t \in Threads : pc[t] \in Inside <=> mutex = t

OwnLabels ==
    /\ pc[Relayer] # "count"
    /\ \A l \in Listeners : pc[l] \notin {"enter", "discount", "answer"}

WalksBeginAtOne == \A t \in Threads : pc[t] \in {"idle", "lock", "enter"} => cursor[t] = 1

\* A sniffer has not found its port before the cursor.
NotFoundYet ==
    \A l \in Listeners : pc[l] = "walk" /\ packet[l] # Other =>
        \A i \in 1 .. Len(flows[l]) : i < cursor[l] => flows[l][i].portnum # packet[l]

AppendedIsThere == \A l \in Listeners : pc[l] = "count" => Len(flows[l]) > 0

\* What the list says of a port is what was seen.
ListTellsTruth ==
    \A l \in Listeners : \A i \in 1 .. Len(flows[l]) :
        flows[l][i].last_activity = seen[l][flows[l][i].portnum]

\* A port that is active is in the list.
ActiveIsListed ==
    \A l \in Listeners : \A p \in Ports :
        seen[l][p] # Never /\ now - seen[l][p] < Timeout =>
            \E i \in 1 .. Len(flows[l]) : flows[l][i].portnum = p

\* One request is open while the relayer is at it.
RequestIsOpen ==
    \A l \in Listeners :
        IF l = request /\ pc[Relayer] \notin {"idle", "unlock"}
        THEN asked[l] \in 0 .. now
        ELSE asked[l] = Never

\* What the relayer has come by was active when it was asked.
WalkedIsActive ==
    \A i \in 1 .. Len(flows[request]) :
        \/ pc[Relayer] \in {"walk", "discount"} /\ i < cursor[Relayer]
        \/ pc[Relayer] = "answer"
        => asked[request] - flows[request][i].last_activity < Timeout

\* The inductive invariant.
IInv ==
    /\ TypeOK /\ MutexIsHeld /\ OwnLabels /\ WalksBeginAtOne
    /\ NotFoundYet /\ AppendedIsThere /\ OneFlowPerPort /\ CountIsLength
    /\ ListTellsTruth /\ ActiveIsListed /\ RequestIsOpen /\ WalkedIsActive

-----------------------------------------------------------------------------
LEMMA WithoutProperties ==
    ASSUME NEW list \in Seq(Flow), NEW i \in 1 .. Len(list)
    PROVE  /\ Without(list, i) \in Seq(Flow)
           /\ Len(Without(list, i)) = Len(list) - 1
           /\ \A j \in 1 .. Len(list) - 1 :
                 Without(list, i)[j] = IF j < i THEN list[j] ELSE list[j + 1]
BY DEF Without

LEMMA InitIInv == Init => IInv
<1> SUFFICES ASSUME Init PROVE IInv
  OBVIOUS
<1> USE ConstantsAssumption DEF Init
<1>1. TypeOK
  BY DEF TypeOK, Labels, Time, Threads, Never
<1>2. MutexIsHeld /\ OwnLabels /\ WalksBeginAtOne /\ NotFoundYet /\ AppendedIsThere
  BY DEF MutexIsHeld, OwnLabels, WalksBeginAtOne, NotFoundYet, AppendedIsThere, Inside, Threads
<1>3. OneFlowPerPort /\ CountIsLength /\ ListTellsTruth
  BY DEF OneFlowPerPort, CountIsLength, ListTellsTruth, Threads
<1>4. ActiveIsListed /\ RequestIsOpen /\ WalkedIsActive
  BY DEF ActiveIsListed, RequestIsOpen, WalkedIsActive, Never, Threads
<1> QED BY <1>1, <1>2, <1>3, <1>4 DEF IInv

-----------------------------------------------------------------------------
\* Time goes on: a port can become inactive, none becomes active.
LEMMA TickIInv == IInv /\ Tick => IInv'
<1> SUFFICES ASSUME IInv, Tick PROVE IInv'
  OBVIOUS
<1> USE ConstantsAssumption DEF IInv, Tick, history
<1>1. TypeOK'
  BY DEF TypeOK, Time
<1>2. MutexIsHeld' /\ OwnLabels' /\ WalksBeginAtOne' /\ NotFoundYet' /\ AppendedIsThere'
  BY DEF MutexIsHeld, OwnLabels, WalksBeginAtOne, NotFoundYet, AppendedIsThere
<1>3. OneFlowPerPort' /\ CountIsLength' /\ ListTellsTruth' /\ WalkedIsActive'
  BY DEF OneFlowPerPort, CountIsLength, ListTellsTruth, WalkedIsActive
<1>4. ActiveIsListed'
  <2> SUFFICES ASSUME NEW l \in Listeners, NEW p \in Ports,
                      seen'[l][p] # Never, now' - seen'[l][p] < Timeout
               PROVE  \E i \in 1 .. Len(flows'[l]) : flows'[l][i].portnum = p
    BY DEF ActiveIsListed
  <2>1. now \in Int /\ seen[l][p] \in Int
    BY DEF TypeOK, Time, Never
  <2> QED BY <2>1 DEF ActiveIsListed
<1>5. RequestIsOpen'
  BY DEF RequestIsOpen, TypeOK, Time
<1> QED BY <1>1, <1>2, <1>3, <1>4, <1>5

\* Steps that change no list, no counter and no history.
Frame == UNCHANGED <<now, request, flows, flowcounts, report, seen, asked>>

LEMMA FrameIInv ==
    IInv /\ Frame => OneFlowPerPort' /\ ListTellsTruth' /\ ActiveIsListed'
BY DEF Frame, IInv, OneFlowPerPort, ListTellsTruth, ActiveIsListed

LEMMA LockIInv == ASSUME IInv, NEW t \in Threads, Lock(t) PROVE IInv'
<1> USE ConstantsAssumption DEF IInv, Lock, Goto, history
<1>1. TypeOK'
  BY DEF TypeOK, Labels, Threads
<1>2. MutexIsHeld' /\ OwnLabels'
  BY DEF TypeOK, MutexIsHeld, OwnLabels, Inside, Threads
<1>3. WalksBeginAtOne' /\ NotFoundYet' /\ AppendedIsThere'
  BY DEF TypeOK, WalksBeginAtOne, NotFoundYet, AppendedIsThere, Threads
<1>4. CountIsLength' /\ RequestIsOpen'
  BY DEF TypeOK, CountIsLength, RequestIsOpen, Threads
<1>5. WalkedIsActive'
  BY DEF TypeOK, WalkedIsActive, Threads
<1> QED BY <1>1, <1>2, <1>3, <1>4, <1>5, FrameIInv DEF Frame

LEMMA UnlockIInv == ASSUME IInv, NEW t \in Threads, Unlock(t) PROVE IInv'
<1> USE ConstantsAssumption DEF IInv, Unlock, Goto, history
<1>1. TypeOK'
  BY DEF TypeOK, Labels, Threads
<1>2. MutexIsHeld' /\ OwnLabels'
  BY DEF TypeOK, MutexIsHeld, OwnLabels, Inside, Threads
<1>3. WalksBeginAtOne' /\ NotFoundYet' /\ AppendedIsThere'
  BY DEF TypeOK, WalksBeginAtOne, NotFoundYet, AppendedIsThere, Threads
<1>4. CountIsLength' /\ RequestIsOpen'
  BY DEF TypeOK, CountIsLength, RequestIsOpen, Threads
<1>5. WalkedIsActive'
  BY DEF TypeOK, WalkedIsActive, Threads
<1> QED BY <1>1, <1>2, <1>3, <1>4, <1>5, FrameIInv DEF Frame

-----------------------------------------------------------------------------
LEMMA CaptureIInv ==
    ASSUME IInv, NEW l \in Listeners, NEW p \in Ports \cup {Other}, Capture(l, p)
    PROVE  IInv'
<1> USE ConstantsAssumption DEF IInv, Capture, Goto, history
<1>1. TypeOK'
  BY DEF TypeOK, Labels, Threads
<1>2. MutexIsHeld' /\ OwnLabels'
  BY DEF TypeOK, MutexIsHeld, OwnLabels, Inside, Threads
<1>3. WalksBeginAtOne' /\ NotFoundYet' /\ AppendedIsThere'
  BY DEF TypeOK, WalksBeginAtOne, NotFoundYet, AppendedIsThere, Threads
<1>4. CountIsLength' /\ RequestIsOpen' /\ WalkedIsActive'
  BY DEF TypeOK, CountIsLength, RequestIsOpen, WalkedIsActive, Threads
<1> QED BY <1>1, <1>2, <1>3, <1>4, FrameIInv DEF Frame

LEMMA IgnoreIInv == ASSUME IInv, NEW l \in Listeners, Ignore(l) PROVE IInv'
<1> USE ConstantsAssumption DEF IInv, Ignore, Goto, history
<1>1. TypeOK'
  BY DEF TypeOK, Labels, Threads
<1>2. MutexIsHeld' /\ OwnLabels'
  BY DEF TypeOK, MutexIsHeld, OwnLabels, Inside, Threads
<1>3. WalksBeginAtOne' /\ NotFoundYet' /\ AppendedIsThere'
  BY DEF TypeOK, WalksBeginAtOne, NotFoundYet, AppendedIsThere, Threads
<1>4. CountIsLength' /\ RequestIsOpen' /\ WalkedIsActive'
  BY DEF TypeOK, CountIsLength, RequestIsOpen, WalkedIsActive, Threads
<1> QED BY <1>1, <1>2, <1>3, <1>4, FrameIInv DEF Frame

\* The item at the cursor was compared: the cursor may move past it.
LEMMA PassIInv == ASSUME IInv, NEW l \in Listeners, Pass(l) PROVE IInv'
<1> USE ConstantsAssumption DEF IInv, Pass, history
<1>1. TypeOK'
  BY DEF TypeOK, Threads
<1>2. MutexIsHeld' /\ OwnLabels' /\ WalksBeginAtOne' /\ AppendedIsThere'
  BY DEF TypeOK, MutexIsHeld, OwnLabels, WalksBeginAtOne, AppendedIsThere, Threads
<1>3. NotFoundYet'
  BY DEF TypeOK, NotFoundYet, Threads
<1>4. CountIsLength' /\ RequestIsOpen' /\ WalkedIsActive'
  BY DEF TypeOK, CountIsLength, RequestIsOpen, WalkedIsActive, Threads
<1> QED BY <1>1, <1>2, <1>3, <1>4, FrameIInv DEF Frame

-----------------------------------------------------------------------------
\* A sniffer that walks is the holder: the relayer is not in the critical section.
LEMMA SnifferAlone ==
    ASSUME IInv, NEW l \in Listeners, pc[l] \in {"walk", "count"}
    PROVE  /\ pc[Relayer] \notin Inside
           /\ \A k \in Listeners : pc[k] \in Inside => k = l
           /\ l # Relayer /\ l \in Threads
BY ConstantsAssumption DEF IInv, MutexIsHeld, Threads, Inside

\* The counter while the relayer has not freed a flow just now.
SnifferCount ==
    \A l \in Listeners :
        flowcounts[l] = IF pc[l] = "count" THEN Len(flows[l]) - 1 ELSE Len(flows[l])

LEMMA CountWithoutRelayer ==
    ASSUME pc[Relayer] # "discount", flows \in [Listeners -> Seq(Flow)]
    PROVE  CountIsLength <=> SnifferCount
<1>1. \A l \in Listeners : Len(flows[l]) \in Nat
  OBVIOUS
<1> QED BY <1>1 DEF CountIsLength, SnifferCount

LEMMA CountWithoutRelayerPrime ==
    ASSUME pc'[Relayer] # "discount", flows' \in [Listeners -> Seq(Flow)]
    PROVE  CountIsLength' <=> SnifferCount'
<1>1. \A l \in Listeners : Len(flows'[l]) \in Nat
  OBVIOUS
<1> QED BY <1>1 DEF CountIsLength, SnifferCount

\* What a sniffer does to its list: the ports of the other listeners' lists and
\* the relayer are not concerned.
LEMMA RefreshIInv == ASSUME IInv, NEW l \in Listeners, Refresh(l) PROVE IInv'
<1> USE ConstantsAssumption DEF IInv, Refresh, Goto
<1>0. /\ pc[Relayer] \notin Inside /\ l # Relayer /\ l \in Threads
      /\ \A k \in Listeners : pc[k] \in Inside => k = l
  BY SnifferAlone
<1> DEFINE c == cursor[l]
<1>a. /\ c \in 1 .. Len(flows[l]) /\ flows[l][c].portnum = packet[l]
      /\ flows[l] \in Seq(Flow) /\ packet[l] \in Ports /\ now \in Time
  <2>1. flows[l] \in Seq(Flow) /\ c \in Nat \ {0} /\ now \in Time
    BY <1>0 DEF TypeOK
  <2>2. c \in 1 .. Len(flows[l]) /\ flows[l][c].portnum = packet[l]
    BY <2>1
  <2>3. flows[l][c] \in Flow
    BY <2>1, <2>2, ElementOfSeq
  <2> QED BY <2>1, <2>2, <2>3 DEF Flow
<1>b. /\ flows'[l] = [flows[l] EXCEPT ![c] = [flows[l][c] EXCEPT !.last_activity = now]]
      /\ \A k \in Listeners \ {l} : flows'[k] = flows[k]
  BY DEF TypeOK
<1>c. /\ flows'[l] \in Seq(Flow) /\ Len(flows'[l]) = Len(flows[l])
      /\ \A i \in 1 .. Len(flows[l]) :
            /\ flows'[l][i].portnum = flows[l][i].portnum
            /\ flows'[l][i].last_activity = IF i = c THEN now ELSE flows[l][i].last_activity
  <2>1. \A i \in 1 .. Len(flows[l]) : flows[l][i] \in Flow
    BY <1>a, ElementOfSeq
  <2>2. [flows[l][c] EXCEPT !.last_activity = now] \in Flow
    BY <2>1, <1>a DEF Flow
  <2>3. flows'[l] \in Seq(Flow) /\ Len(flows'[l]) = Len(flows[l])
    BY <2>2, <1>a, <1>b, ExceptSeq
  <2>4. \A i \in 1 .. Len(flows[l]) :
           flows'[l][i] = IF i = c THEN [flows[l][c] EXCEPT !.last_activity = now]
                                   ELSE flows[l][i]
    <3> HIDE DEF IInv, Refresh, c
    <3>1. flows'[l] = [flows[l] EXCEPT ![c] = [flows[l][c] EXCEPT !.last_activity = now]]
      BY <1>b
    <3> QED BY <2>2, <3>1, <1>a, ExceptSeq
  <2> QED BY <2>1, <2>3, <2>4, <1>a DEF Flow
<1>d. /\ \A k \in Listeners \ {l} : seen'[k] = seen[k]
      /\ \A p \in Ports : seen'[l][p] = IF p = packet[l] THEN now ELSE seen[l][p]
      /\ seen' \in [Listeners -> [Ports -> Time \cup {Never}]]
  BY <1>a DEF TypeOK
<1>1. TypeOK'
  <2>1. flows' \in [Listeners -> Seq(Flow)]
    BY <1>b, <1>c DEF TypeOK
  <2> QED BY <2>1, <1>d DEF TypeOK, Labels, Threads
<1>2. MutexIsHeld' /\ OwnLabels' /\ WalksBeginAtOne'
  BY DEF TypeOK, MutexIsHeld, OwnLabels, WalksBeginAtOne, Inside, Threads
<1>3. NotFoundYet' /\ AppendedIsThere'
  BY <1>0, <1>b DEF TypeOK, NotFoundYet, AppendedIsThere, Inside, Threads
<1>4. OneFlowPerPort'
  BY <1>b, <1>c DEF OneFlowPerPort
<1>5. CountIsLength'
  BY <1>0, <1>b, <1>c DEF TypeOK, CountIsLength, Inside, Threads
<1>6. ListTellsTruth'
  <2>1. \A i \in 1 .. Len(flows[l]) : flows[l][i].portnum \in Ports
    <3>1. \A i \in 1 .. Len(flows[l]) : flows[l][i] \in Flow
      BY <1>a, ElementOfSeq
    <3> QED BY <3>1 DEF Flow
  <2>2. \A i \in 1 .. Len(flows[l]) : flows[l][i].portnum = packet[l] => i = c
    BY <1>a DEF OneFlowPerPort
  <2>3. \A i \in 1 .. Len(flows[l]) : flows[l][i].last_activity = seen[l][flows[l][i].portnum]
    BY DEF ListTellsTruth
  <2> HIDE DEF IInv, Refresh, c
  <2>4. \A i \in 1 .. Len(flows'[l]) :
           flows'[l][i].last_activity = seen'[l][flows'[l][i].portnum]
    <3> SUFFICES ASSUME NEW i \in 1 .. Len(flows[l])
                 PROVE  flows'[l][i].last_activity = seen'[l][flows'[l][i].portnum]
      BY <1>c
    <3>1. flows'[l][i].portnum = flows[l][i].portnum /\ flows[l][i].portnum \in Ports
      BY <2>1, <1>c
    <3>2. CASE i = c
      BY <3>1, <3>2, <1>a, <1>c, <1>d
    <3>3. CASE i # c
      BY <3>1, <3>3, <2>2, <2>3, <1>c, <1>d
    <3> QED BY <3>2, <3>3
  <2>5. \A k \in Listeners \ {l} : \A i \in 1 .. Len(flows'[k]) :
           flows'[k][i].last_activity = seen'[k][flows'[k][i].portnum]
    BY <1>b, <1>d DEF ListTellsTruth, IInv
  <2> QED BY <2>4, <2>5 DEF ListTellsTruth
<1>7. ActiveIsListed'
  <2>1. \A p \in Ports : seen'[l][p] # Never /\ now' - seen'[l][p] < Timeout =>
           \E i \in 1 .. Len(flows'[l]) : flows'[l][i].portnum = p
    BY <1>a, <1>c, <1>d DEF ActiveIsListed
  <2> QED BY <2>1, <1>b, <1>d DEF ActiveIsListed
<1>8. RequestIsOpen' /\ WalkedIsActive'
  BY <1>0 DEF TypeOK, RequestIsOpen, WalkedIsActive, Inside, Threads
<1> QED BY <1>1, <1>2, <1>3, <1>4, <1>5, <1>6, <1>7, <1>8

LEMMA AppendFlowIInv == ASSUME IInv, NEW l \in Listeners, AppendFlow(l) PROVE IInv'
<1> USE ConstantsAssumption DEF IInv, AppendFlow, Goto
<1>0. /\ pc[Relayer] \notin Inside /\ l # Relayer /\ l \in Threads
      /\ \A k \in Listeners : pc[k] \in Inside => k = l
  BY SnifferAlone
<1> DEFINE flow == [portnum |-> packet[l], last_activity |-> now]
           n == Len(flows[l])
<1>a. /\ flows[l] \in Seq(Flow) /\ n \in Nat /\ packet[l] \in Ports /\ now \in Time
      /\ flow \in Flow
      /\ \A i \in 1 .. n : flows[l][i].portnum # packet[l] /\ flows[l][i].portnum \in Ports
  <2>1. /\ flows[l] \in Seq(Flow) /\ n \in Nat /\ cursor[l] \in Nat /\ now \in Time
        /\ packet[l] \in Ports
    BY <1>0 DEF TypeOK
  <2>2. \A i \in 1 .. n : flows[l][i] \in Flow /\ flows[l][i].portnum # packet[l]
    BY <2>1, ElementOfSeq DEF NotFoundYet
  <2> QED BY <2>1, <2>2 DEF Flow
<1>b. /\ flows'[l] = Append(flows[l], flow)
      /\ \A k \in Listeners \ {l} : flows'[k] = flows[k]
  BY DEF TypeOK
<1>c. /\ flows'[l] \in Seq(Flow) /\ Len(flows'[l]) = n + 1
      /\ \A i \in 1 .. n : flows'[l][i] = flows[l][i]
      /\ flows'[l][n + 1] = flow
  BY <1>a, <1>b, AppendProperties
<1>d. /\ \A k \in Listeners \ {l} : seen'[k] = seen[k]
      /\ \A p \in Ports : seen'[l][p] = IF p = packet[l] THEN now ELSE seen[l][p]
      /\ seen' \in [Listeners -> [Ports -> Time \cup {Never}]]
  BY <1>a DEF TypeOK
<1>1. TypeOK'
  <2>1. flows' \in [Listeners -> Seq(Flow)]
    BY <1>b, <1>c DEF TypeOK
  <2> QED BY <2>1, <1>d DEF TypeOK, Labels, Threads
<1>2. MutexIsHeld' /\ OwnLabels' /\ WalksBeginAtOne'
  BY <1>0 DEF TypeOK, MutexIsHeld, OwnLabels, WalksBeginAtOne, Inside, Threads
<1>3. NotFoundYet' /\ AppendedIsThere'
  BY <1>0, <1>a, <1>b, <1>c DEF TypeOK, NotFoundYet, AppendedIsThere, Inside, Threads
<1>4. OneFlowPerPort'
  <2>1. \A i, j \in 1 .. n + 1 : flows'[l][i].portnum = flows'[l][j].portnum => i = j
    BY <1>a, <1>c DEF OneFlowPerPort
  <2> QED BY <2>1, <1>b, <1>c DEF OneFlowPerPort
<1>5. CountIsLength'
  <2>1. SnifferCount
    BY <1>0, CountWithoutRelayer DEF TypeOK, Inside
  <2>2. SnifferCount'
    BY <2>1, <1>0, <1>a, <1>b, <1>c DEF TypeOK, SnifferCount
  <2>3. pc'[Relayer] # "discount" /\ flows' \in [Listeners -> Seq(Flow)]
    BY <1>0, <1>1 DEF TypeOK, Inside
  <2> QED BY <2>2, <2>3, CountWithoutRelayerPrime
<1>6. ListTellsTruth'
  <2>1. \A i \in 1 .. n + 1 : flows'[l][i].last_activity = seen'[l][flows'[l][i].portnum]
    BY <1>a, <1>c, <1>d DEF ListTellsTruth
  <2> QED BY <2>1, <1>b, <1>c, <1>d DEF ListTellsTruth
<1>7. ActiveIsListed'
  <2>1. \A p \in Ports : seen'[l][p] # Never /\ now' - seen'[l][p] < Timeout =>
           \E i \in 1 .. n + 1 : flows'[l][i].portnum = p
    BY <1>a, <1>c, <1>d DEF ActiveIsListed
  <2> QED BY <2>1, <1>b, <1>c, <1>d DEF ActiveIsListed
<1>8. RequestIsOpen' /\ WalkedIsActive'
  BY <1>0 DEF TypeOK, RequestIsOpen, WalkedIsActive, Inside, Threads
<1> QED BY <1>1, <1>2, <1>3, <1>4, <1>5, <1>6, <1>7, <1>8

LEMMA CountFlowIInv == ASSUME IInv, NEW l \in Listeners, CountFlow(l) PROVE IInv'
<1> USE ConstantsAssumption DEF IInv, CountFlow, Goto, history
<1>0. pc[Relayer] \notin Inside /\ l # Relayer /\ l \in Threads
  BY SnifferAlone
<1>1. TypeOK'
  BY DEF TypeOK, Labels, Threads
<1>2. MutexIsHeld' /\ OwnLabels' /\ WalksBeginAtOne' /\ NotFoundYet' /\ AppendedIsThere'
  BY DEF TypeOK, MutexIsHeld, OwnLabels, WalksBeginAtOne, NotFoundYet, AppendedIsThere,
         Inside, Threads
<1>3. CountIsLength'
  <2>1. SnifferCount
    BY <1>0, CountWithoutRelayer DEF TypeOK, Inside
  <2>2. SnifferCount'
    BY <2>1, <1>0 DEF TypeOK, SnifferCount
  <2>3. pc'[Relayer] # "discount" /\ flows' \in [Listeners -> Seq(Flow)]
    BY <1>0, <1>1 DEF TypeOK, Inside
  <2> QED BY <2>2, <2>3, CountWithoutRelayerPrime
<1>4. OneFlowPerPort' /\ ListTellsTruth' /\ ActiveIsListed'
  BY DEF OneFlowPerPort, ListTellsTruth, ActiveIsListed
<1>5. RequestIsOpen' /\ WalkedIsActive'
  BY <1>0 DEF TypeOK, RequestIsOpen, WalkedIsActive, Inside, Threads
<1> QED BY <1>1, <1>2, <1>3, <1>4, <1>5

-----------------------------------------------------------------------------
\* A relayer inside the critical section is alone.
LEMMA RelayerAlone ==
    ASSUME IInv, pc[Relayer] \in Inside
    PROVE  /\ \A l \in Listeners : pc[l] \notin Inside /\ l # Relayer
           /\ Relayer \in Threads
BY ConstantsAssumption DEF IInv, MutexIsHeld, Threads

\* The counter while the relayer has freed a flow just now.
RelayerCount ==
    \A l \in Listeners :
        flowcounts[l] = IF l = request THEN Len(flows[l]) + 1 ELSE Len(flows[l])

LEMMA CountWithRelayer ==
    pc[Relayer] = "discount" /\ (\A l \in Listeners : pc[l] # "count")
    /\ flows \in [Listeners -> Seq(Flow)]
    => (CountIsLength <=> RelayerCount)
<1> SUFFICES ASSUME pc[Relayer] = "discount", flows \in [Listeners -> Seq(Flow)],
                    \A l \in Listeners : pc[l] # "count"
             PROVE  CountIsLength <=> RelayerCount
  OBVIOUS
<1>1. \A l \in Listeners :
         Len(flows[l]) - (IF pc[l] = "count" THEN 1 ELSE 0)
                       + (IF pc[Relayer] = "discount" /\ request = l THEN 1 ELSE 0)
         = IF l = request THEN Len(flows[l]) + 1 ELSE Len(flows[l])
  <2> TAKE l \in Listeners
  <2>1. Len(flows[l]) \in Nat
    OBVIOUS
  <2>2. pc[l] # "count"
    OBVIOUS
  <2> QED BY <2>1, <2>2
<1> QED BY <1>1 DEF CountIsLength, RelayerCount

LEMMA CountWithRelayerPrime ==
    pc'[Relayer] = "discount" /\ (\A l \in Listeners : pc'[l] # "count")
    /\ flows' \in [Listeners -> Seq(Flow)]
    => (CountIsLength' <=> RelayerCount')
<1> SUFFICES ASSUME pc'[Relayer] = "discount", flows' \in [Listeners -> Seq(Flow)],
                    \A l \in Listeners : pc'[l] # "count"
             PROVE  CountIsLength' <=> RelayerCount'
  OBVIOUS
<1>1. \A l \in Listeners :
         Len(flows'[l]) - (IF pc'[l] = "count" THEN 1 ELSE 0)
                       + (IF pc'[Relayer] = "discount" /\ request' = l THEN 1 ELSE 0)
         = IF l = request' THEN Len(flows'[l]) + 1 ELSE Len(flows'[l])
  <2> TAKE l \in Listeners
  <2>1. Len(flows'[l]) \in Nat
    OBVIOUS
  <2>2. pc'[l] # "count"
    OBVIOUS
  <2> QED BY <2>1, <2>2
<1> QED BY <1>1 DEF CountIsLength, RelayerCount

LEMMA RequestIInv == ASSUME IInv, NEW l \in Listeners, Request(l) PROVE IInv'
<1> USE ConstantsAssumption DEF IInv, Request, Goto
<1>0. Relayer \in Threads /\ \A k \in Listeners : k # Relayer
  BY DEF Threads
<1>1. TypeOK'
  BY <1>0 DEF TypeOK, Labels
<1>2. MutexIsHeld' /\ OwnLabels' /\ WalksBeginAtOne' /\ NotFoundYet' /\ AppendedIsThere'
  BY <1>0 DEF TypeOK, MutexIsHeld, OwnLabels, WalksBeginAtOne, NotFoundYet, AppendedIsThere,
              Inside
<1>3. CountIsLength'
  BY <1>0 DEF TypeOK, CountIsLength
<1>4. OneFlowPerPort' /\ ListTellsTruth' /\ ActiveIsListed'
  BY DEF OneFlowPerPort, ListTellsTruth, ActiveIsListed
<1>5. RequestIsOpen'
  BY <1>0 DEF TypeOK, RequestIsOpen, Time, Never
<1>6. WalkedIsActive'
  BY <1>0 DEF TypeOK, WalkedIsActive
<1> QED BY <1>1, <1>2, <1>3, <1>4, <1>5, <1>6

LEMMA EnterIInv == ASSUME IInv, Enter PROVE IInv'
<1> USE ConstantsAssumption DEF IInv, Enter, Goto, history
<1>a. /\ \E label \in {"walk", "answer"} : pc' = [pc EXCEPT ![Relayer] = label]
      /\ \/ flowcounts' = flowcounts
         \/ flows[request] = << >> /\ flowcounts' = [flowcounts EXCEPT ![request] = 0]
  OBVIOUS
<1>0. /\ Relayer \in Threads
      /\ \A l \in Listeners : pc[l] \notin Inside /\ l # Relayer /\ pc'[l] = pc[l]
      /\ cursor[Relayer] = 1 /\ pc'[Relayer] \in {"walk", "answer"}
  <2>1. Relayer \in Threads /\ \A l \in Listeners : pc[l] \notin Inside /\ l # Relayer
    BY RelayerAlone DEF Inside
  <2>2. cursor[Relayer] = 1
    BY <2>1 DEF WalksBeginAtOne
  <2> QED BY <2>1, <2>2, <1>a DEF TypeOK
<1>1. TypeOK'
  <2>1. flowcounts' \in [Listeners -> Nat]
    BY <1>a DEF TypeOK
  <2>2. pc' \in [Threads -> Labels]
    BY <1>a DEF TypeOK, Labels
  <2> QED BY <2>1, <2>2 DEF TypeOK
<1>2. MutexIsHeld' /\ OwnLabels' /\ WalksBeginAtOne' /\ NotFoundYet' /\ AppendedIsThere'
  BY <1>0 DEF TypeOK, MutexIsHeld, OwnLabels, WalksBeginAtOne, NotFoundYet, AppendedIsThere,
              Inside
<1>3. CountIsLength'
  <2>1. SnifferCount
    BY CountWithoutRelayer DEF TypeOK
  <2>2. SnifferCount'
    BY <2>1, <1>0 DEF TypeOK, SnifferCount, Inside
  <2> QED BY <2>2, <1>0, <1>1, CountWithoutRelayerPrime DEF TypeOK
<1>4. OneFlowPerPort' /\ ListTellsTruth' /\ ActiveIsListed'
  BY DEF OneFlowPerPort, ListTellsTruth, ActiveIsListed
<1>5. RequestIsOpen'
  BY <1>0 DEF TypeOK, RequestIsOpen
<1>6. WalkedIsActive'
  BY <1>0 DEF TypeOK, WalkedIsActive
<1> QED BY <1>1, <1>2, <1>3, <1>4, <1>5, <1>6

\* The item at the cursor is active now, so it was when the request was made.
LEMMA KeepIInv == ASSUME IInv, Keep PROVE IInv'
<1> USE ConstantsAssumption DEF IInv, Keep, history
<1>0. Relayer \in Threads /\ \A l \in Listeners : l # Relayer /\ cursor'[l] = cursor[l]
  BY RelayerAlone DEF Inside, TypeOK
<1>1. TypeOK'
  BY <1>0 DEF TypeOK
<1>2. MutexIsHeld' /\ OwnLabels' /\ WalksBeginAtOne' /\ NotFoundYet' /\ AppendedIsThere'
  BY <1>0 DEF TypeOK, MutexIsHeld, OwnLabels, WalksBeginAtOne, NotFoundYet, AppendedIsThere
<1>3. /\ OneFlowPerPort' /\ ListTellsTruth' /\ ActiveIsListed'
      /\ CountIsLength' /\ RequestIsOpen'
  <2>1. CountIsLength' /\ RequestIsOpen'
    BY DEF CountIsLength, RequestIsOpen
  <2> QED BY <2>1, FrameIInv DEF Frame
<1>4. WalkedIsActive'
  <2> DEFINE c == cursor[Relayer]
  <2>1. c \in Nat \ {0} /\ cursor'[Relayer] = c + 1
    BY <1>0 DEF TypeOK
  <2>2. c \in 1 .. Len(flows[request]) /\ flows[request][c].last_activity \in Int
    <3>1. c \in 1 .. Len(flows[request]) /\ flows[request] \in Seq(Flow)
      BY <2>1 DEF TypeOK
    <3>2. flows[request][c] \in Flow
      BY <3>1, ElementOfSeq
    <3> QED BY <3>1, <3>2 DEF Flow, Time
  <2>3. now \in Int /\ asked[request] \in Int /\ asked[request] <= now
    BY DEF TypeOK, RequestIsOpen, Time
  <2>4. asked[request] - flows[request][c].last_activity < Timeout
    BY <2>2, <2>3 DEF Fresh
  <2> QED BY <2>1, <2>4 DEF WalkedIsActive
<1> QED BY <1>1, <1>2, <1>3, <1>4

LEMMA DiscountIInv == ASSUME IInv, Discount PROVE IInv'
<1> USE ConstantsAssumption DEF IInv, Discount, Goto, history
<1>0. /\ Relayer \in Threads
      /\ \A l \in Listeners : pc[l] \notin Inside /\ l # Relayer /\ pc'[l] = pc[l]
      /\ pc'[Relayer] = "walk"
  BY RelayerAlone DEF Inside, TypeOK
<1>1. \A l \in Listeners : Len(flows[l]) \in Nat /\ flows[l] \in Seq(Flow)
  BY DEF TypeOK
<1>2. \A l \in Listeners : flowcounts'[l] = Len(flows[l])
  <2>1. RelayerCount
    <3>1. flows \in [Listeners -> Seq(Flow)] /\ \A l \in Listeners : pc[l] # "count"
      BY <1>0 DEF TypeOK, Inside
    <3> QED BY <3>1, CountWithRelayer
  <2> QED BY <2>1, <1>1 DEF RelayerCount, TypeOK
<1>3. TypeOK'
  BY <1>1, <1>2 DEF TypeOK, Labels
<1>4. MutexIsHeld' /\ OwnLabels' /\ WalksBeginAtOne' /\ NotFoundYet' /\ AppendedIsThere'
  BY <1>0 DEF TypeOK, MutexIsHeld, OwnLabels, WalksBeginAtOne, NotFoundYet, AppendedIsThere,
              Inside
<1>5. CountIsLength'
  <2>1. SnifferCount'
    BY <1>0, <1>2 DEF SnifferCount, Inside
  <2> QED BY <2>1, <1>0, <1>3, CountWithoutRelayerPrime DEF TypeOK
<1>6. OneFlowPerPort' /\ ListTellsTruth' /\ ActiveIsListed'
  BY DEF OneFlowPerPort, ListTellsTruth, ActiveIsListed
<1>7. RequestIsOpen' /\ WalkedIsActive'
  BY <1>0 DEF TypeOK, RequestIsOpen, WalkedIsActive
<1> QED BY <1>3, <1>4, <1>5, <1>6, <1>7

LEMMA ReturnIInv == ASSUME IInv, Return PROVE IInv'
<1> USE ConstantsAssumption DEF IInv, Return, Goto, history
<1>0. /\ Relayer \in Threads
      /\ \A l \in Listeners : l # Relayer /\ pc'[l] = pc[l]
      /\ pc'[Relayer] = "answer"
  BY RelayerAlone DEF Inside, TypeOK
<1>1. TypeOK'
  BY DEF TypeOK, Labels
<1>2. MutexIsHeld' /\ OwnLabels' /\ WalksBeginAtOne' /\ NotFoundYet' /\ AppendedIsThere'
  BY <1>0 DEF TypeOK, MutexIsHeld, OwnLabels, WalksBeginAtOne, NotFoundYet, AppendedIsThere,
              Inside
<1>3. CountIsLength' /\ RequestIsOpen'
  BY <1>0 DEF CountIsLength, RequestIsOpen
<1>4. OneFlowPerPort' /\ ListTellsTruth' /\ ActiveIsListed'
  BY DEF OneFlowPerPort, ListTellsTruth, ActiveIsListed
<1>5. WalkedIsActive'
  <2>1. \A i \in 1 .. Len(flows[request]) : i < cursor[Relayer]
    BY <1>0 DEF TypeOK
  <2> QED BY <2>1 DEF WalkedIsActive
<1> QED BY <1>1, <1>2, <1>3, <1>4, <1>5

LEMMA AnswerIInv == ASSUME IInv, Answer PROVE IInv'
<1> USE ConstantsAssumption DEF IInv, Answer, Goto
<1>0. /\ Relayer \in Threads
      /\ \A l \in Listeners : l # Relayer /\ pc'[l] = pc[l]
      /\ pc'[Relayer] = "unlock"
  BY RelayerAlone DEF Inside, TypeOK
<1>1. TypeOK'
  BY DEF TypeOK, Labels
<1>2. MutexIsHeld' /\ OwnLabels' /\ WalksBeginAtOne' /\ NotFoundYet' /\ AppendedIsThere'
  BY <1>0 DEF TypeOK, MutexIsHeld, OwnLabels, WalksBeginAtOne, NotFoundYet, AppendedIsThere,
              Inside
<1>3. CountIsLength' /\ RequestIsOpen' /\ WalkedIsActive'
  BY <1>0 DEF TypeOK, CountIsLength, RequestIsOpen, WalkedIsActive
<1>4. OneFlowPerPort' /\ ListTellsTruth' /\ ActiveIsListed'
  BY DEF OneFlowPerPort, ListTellsTruth, ActiveIsListed
<1> QED BY <1>1, <1>2, <1>3, <1>4

\* The freed item timed out; the others move up and keep their ports and times.
LEMMA DropIInv == ASSUME IInv, Drop PROVE IInv'
<1> USE ConstantsAssumption DEF IInv, Drop, Goto
<1> DEFINE c == cursor[Relayer]
           list == flows[request]
<1>0. /\ Relayer \in Threads
      /\ \A l \in Listeners : pc[l] \notin Inside /\ l # Relayer /\ pc'[l] = pc[l]
      /\ pc'[Relayer] = "discount"
  BY RelayerAlone DEF Inside, TypeOK
<1>a. /\ request \in Listeners /\ request' = request /\ cursor' = cursor
      /\ list \in Seq(Flow) /\ c \in 1 .. Len(list)
  BY <1>0 DEF TypeOK
<1>b. /\ flows'[request] = Without(list, c)
      /\ \A l \in Listeners \ {request} : flows'[l] = flows[l]
      /\ flows' \in [Listeners -> Seq(Flow)]
  BY <1>a, WithoutProperties DEF TypeOK
<1>c. /\ Len(flows'[request]) = Len(list) - 1
      /\ \A i \in 1 .. Len(list) - 1 : flows'[request][i] = IF i < c THEN list[i] ELSE list[i + 1]
  BY <1>a, <1>b, WithoutProperties
<1>d. \A i \in 1 .. Len(flows'[request]) : \E j \in 1 .. Len(list) :
         flows'[request][i] = list[j] /\ (i < c => j = i)
  BY <1>a, <1>c
<1>1. TypeOK'
  BY <1>b DEF TypeOK, Labels, history
<1>2. MutexIsHeld' /\ OwnLabels' /\ WalksBeginAtOne' /\ NotFoundYet' /\ AppendedIsThere'
  BY <1>0 DEF TypeOK, MutexIsHeld, OwnLabels, WalksBeginAtOne, NotFoundYet, AppendedIsThere,
              Inside
<1>3. OneFlowPerPort'
  <2>1. \A i, j \in 1 .. Len(list) : list[i].portnum = list[j].portnum => i = j
    BY <1>a DEF OneFlowPerPort
  <2>2. ASSUME NEW i \in 1 .. Len(flows'[request]), NEW j \in 1 .. Len(flows'[request]),
               flows'[request][i].portnum = flows'[request][j].portnum
        PROVE  i = j
    <3> DEFINE m == IF i < c THEN i ELSE i + 1
               n == IF j < c THEN j ELSE j + 1
    <3>1. /\ m \in 1 .. Len(list) /\ flows'[request][i] = list[m]
          /\ n \in 1 .. Len(list) /\ flows'[request][j] = list[n]
      BY <1>a, <1>c
    <3>2. m = n
      BY <3>1, <2>1, <2>2
    <3> QED BY <3>2, <1>a
  <2> QED BY <2>2, <1>b DEF OneFlowPerPort
<1>4. CountIsLength'
  <2>1. SnifferCount
    BY CountWithoutRelayer DEF TypeOK
  <2>2. \A l \in Listeners : Len(flows[l]) \in Nat /\ flowcounts'[l] = Len(flows[l])
    BY <2>1, <1>0 DEF SnifferCount, Inside, TypeOK, history
  <2>3. RelayerCount'
    BY <2>2, <1>a, <1>b, <1>c DEF RelayerCount
  <2>4. \A l \in Listeners : pc'[l] # "count"
    BY <1>0 DEF Inside
  <2> QED BY <2>3, <2>4, <1>0, <1>b, CountWithRelayerPrime
<1>5. ListTellsTruth'
  <2>1. \A i \in 1 .. Len(flows'[request]) :
           flows'[request][i].last_activity = seen'[request][flows'[request][i].portnum]
    <3>1. seen' = seen
      BY DEF history
    <3>2. \A j \in 1 .. Len(list) : list[j].last_activity = seen[request][list[j].portnum]
      BY <1>a DEF ListTellsTruth
    <3> HIDE DEF IInv, Drop
    <3> QED BY <3>1, <3>2, <1>d
  <2> QED BY <2>1, <1>b DEF ListTellsTruth, history
<1>6. ActiveIsListed'
  <2> SUFFICES ASSUME NEW p \in Ports,
                      seen[request][p] # Never /\ now - seen[request][p] < Timeout
               PROVE  \E i \in 1 .. Len(flows'[request]) : flows'[request][i].portnum = p
    BY <1>b DEF ActiveIsListed, history
  <2>1. PICK j \in 1 .. Len(list) : list[j].portnum = p
    BY <1>a DEF ActiveIsListed
  <2>2. j # c
    BY <2>1, <1>a DEF ListTellsTruth, Fresh
  <2>3. CASE j < c
    BY <2>1, <2>3, <1>a, <1>c
  <2>4. CASE c < j
    <3>1. j - 1 \in 1 .. Len(flows'[request]) /\ flows'[request][j - 1] = list[j]
      BY <2>4, <1>a, <1>c
    <3> QED BY <3>1, <2>1
  <2>5. c \in Int /\ j \in Int
    BY <1>a
  <2> QED BY <2>2, <2>3, <2>4, <2>5
<1>7. RequestIsOpen'
  BY <1>0 DEF RequestIsOpen, history
<1>8. WalkedIsActive'
  <2>1. \A i \in 1 .. Len(flows'[request]) :
           i < c => asked[request] - flows'[request][i].last_activity < Timeout
    BY <1>a, <1>c DEF WalkedIsActive
  <2> QED BY <2>1, <1>0, <1>a DEF WalkedIsActive, history
<1> QED BY <1>1, <1>2, <1>3, <1>4, <1>5, <1>6, <1>7, <1>8

-----------------------------------------------------------------------------
\* One step for each operation of the component.
LEMMA NextIInv == IInv /\ [Next]_vars => IInv'
<1> SUFFICES ASSUME IInv, [Next]_vars PROVE IInv'
  OBVIOUS
<1>1. CASE Tick
  BY <1>1, TickIInv
<1>2. ASSUME NEW l \in Listeners, Sniffer(l) PROVE IInv'
  BY <1>2, CaptureIInv, IgnoreIInv, PassIInv, RefreshIInv, AppendFlowIInv, CountFlowIInv
     DEF Sniffer
<1>3. ASSUME NEW l \in Listeners, Request(l) PROVE IInv'
  BY <1>3, RequestIInv
<1>4. ASSUME NEW t \in Threads, Lock(t) PROVE IInv'
  BY <1>4, LockIInv
<1>5. ASSUME NEW t \in Threads, Unlock(t) PROVE IInv'
  BY <1>5, UnlockIInv
<1>6. CASE Counting
  BY <1>6, EnterIInv, KeepIInv, DropIInv, DiscountIInv, ReturnIInv, AnswerIInv DEF Counting
<1>7. CASE UNCHANGED vars
  <2>1. Frame /\ UNCHANGED <<mutex, pc, cursor, packet>>
    BY <1>7 DEF vars, Frame
  <2>2. TypeOK' /\ MutexIsHeld' /\ OwnLabels' /\ WalksBeginAtOne' /\ NotFoundYet' /\ AppendedIsThere'
    BY <2>1 DEF Frame, IInv, TypeOK, MutexIsHeld, OwnLabels, WalksBeginAtOne, NotFoundYet,
                AppendedIsThere
  <2>3. CountIsLength' /\ RequestIsOpen' /\ WalkedIsActive'
    BY <2>1 DEF Frame, IInv, CountIsLength, RequestIsOpen, WalkedIsActive
  <2> QED BY <2>1, <2>2, <2>3, FrameIInv DEF IInv
<1> QED BY <1>1, <1>2, <1>3, <1>4, <1>5, <1>6, <1>7 DEF Next

LEMMA Invariance == Spec => []IInv
BY InitIInv, NextIInv, PTL DEF Spec

\* Every field keeps its type: flowcounts, a uint32_t, is never taken below zero.
THEOREM TypeCorrect == Spec => []TypeOK
<1>1. IInv => TypeOK
  BY DEF IInv
<1> QED BY <1>1, Invariance, PTL

\* However the sniffer's walk and the relayer's interleave over the mutex, no
\* port of a listener is counted twice.
THEOREM FlowsAreUnique == Spec => []OneFlowPerPort
<1>1. IInv => OneFlowPerPort
  BY DEF IInv
<1> QED BY <1>1, Invariance, PTL

\* The counter that is only adjusted stays the length of the list.
THEOREM CounterIsExact == Spec => []CountIsLength
<1>1. IInv => CountIsLength
  BY DEF IInv
<1> QED BY <1>1, Invariance, PTL

-----------------------------------------------------------------------------
\* A list that has each port once is as long as its set of ports is large.
LEMMA LengthIsCardinality ==
    ASSUME NEW list \in Seq(Flow),
           \A i, j \in 1 .. Len(list) : list[i].portnum = list[j].portnum => i = j
    PROVE  Cardinality({list[i].portnum : i \in 1 .. Len(list)}) = Len(list)
<1> DEFINE I == 1 .. Len(list)
           P == {list[i].portnum : i \in I}
           f == [i \in I |-> list[i].portnum]
<1>1. Len(list) \in Nat /\ IsFiniteSet(I) /\ Cardinality(I) = Len(list)
  BY FS_Interval
<1>2. f \in Bijection(I, P)
  BY DEF Bijection, Injection, Surjection, IsInjective
<1>3. Cardinality(P) = Cardinality(I)
  BY <1>1, <1>2, FS_Bijection DEF ExistsBijection
<1> QED BY <1>1, <1>3

\* Both modules count with the Cardinality of FiniteSets.
LEMMA SameCardinality == \A S : Abstract!Cardinality(S) = Cardinality(S)
BY DEF Abstract!Cardinality, Cardinality

\* The history variables are those of ActivePorts: only a packet, a request, an
\* answer and the clock are seen there.
LEMMA AnswerCountsActivePorts == IInv /\ Answer => Abstract!Answer(request)
<1> SUFFICES ASSUME IInv, Answer PROVE Abstract!Answer(request)
  OBVIOUS
<1> DEFINE list == flows[request]
           counted == {list[i].portnum : i \in 1 .. Len(list)}
<1>1. request \in Listeners /\ list \in Seq(Flow) /\ pc[Relayer] = "answer"
  BY DEF IInv, TypeOK, Answer
<1>2. \A i \in 1 .. Len(list) :
         /\ list[i].portnum \in Ports
         /\ list[i].last_activity = seen[request][list[i].portnum]
         /\ list[i].last_activity \in Time
         /\ asked[request] - list[i].last_activity < Timeout
  <2>1. \A i \in 1 .. Len(list) : list[i] \in Flow
    BY <1>1, ElementOfSeq
  <2>2. \A i \in 1 .. Len(list) : list[i].last_activity = seen[request][list[i].portnum]
    BY <1>1 DEF IInv, ListTellsTruth
  <2>3. \A i \in 1 .. Len(list) : asked[request] - list[i].last_activity < Timeout
    BY <1>1 DEF IInv, WalkedIsActive
  <2> QED BY <2>1, <2>2, <2>3 DEF Flow
<1>3. counted \subseteq Abstract!Active(request, asked[request])
  BY <1>2 DEF Abstract!Active, Abstract!Never, Time
<1>4. Abstract!Active(request, now) \subseteq counted
  BY <1>1 DEF Abstract!Active, Abstract!Never, Never, IInv, ActiveIsListed
<1>5. flowcounts[request] = Cardinality(counted)
  <2>1. flowcounts[request] = Len(list)
    <3>1. \A l \in Listeners : pc[l] # "count"
      BY <1>1, RelayerAlone DEF Inside
    <3>2. SnifferCount
      BY <1>1, CountWithoutRelayer DEF IInv, TypeOK
    <3> QED BY <1>1, <3>1, <3>2 DEF SnifferCount
  <2>2. \A i, j \in 1 .. Len(list) : list[i].portnum = list[j].portnum => i = j
    BY <1>1 DEF IInv, OneFlowPerPort
  <2> QED BY <1>1, <2>1, <2>2, LengthIsCardinality
<1>6. asked[request] # Abstract!Never
  BY <1>1, ConstantsAssumption DEF Abstract!Never, IInv, RequestIsOpen, TypeOK, Time
<1>7. /\ report' = [report EXCEPT ![request] = Cardinality(counted)]
      /\ asked' = [asked EXCEPT ![request] = Abstract!Never]
      /\ UNCHANGED <<now, seen>>
  BY <1>5 DEF Answer, Never, Abstract!Never
<1>8. counted \in SUBSET Abstract!Active(request, asked[request])
  BY <1>3
<1>9. \E c \in SUBSET Abstract!Active(request, asked[request]) :
         /\ Abstract!Active(request, now) \subseteq c
         /\ report' = [report EXCEPT ![request] = Abstract!Cardinality(c)]
  <2> HIDE DEF counted
  <2> WITNESS counted \in SUBSET Abstract!Active(request, asked[request])
  <2> QED BY <1>4, <1>7, SameCardinality
<1> QED BY <1>6, <1>7, <1>9 DEF Abstract!Answer

LEMMA StepSimulation == IInv /\ [Next]_vars => [Abstract!Next]_(Abstract!vars)
<1> SUFFICES ASSUME IInv, [Next]_vars PROVE Abstract!Next \/ UNCHANGED Abstract!vars
  OBVIOUS
<1>1. CASE Tick
  BY <1>1 DEF Tick, history, Abstract!Next, Abstract!Tick
<1>2. ASSUME NEW l \in Listeners, Refresh(l) \/ AppendFlow(l) PROVE Abstract!Next
  <2>1. packet[l] \in Ports
    <3>1. CASE AppendFlow(l)
      BY <3>1 DEF AppendFlow, IInv, TypeOK
    <3>2. CASE Refresh(l)
      <4>1. /\ flows[l] \in Seq(Flow) /\ cursor[l] \in 1 .. Len(flows[l])
            /\ flows[l][cursor[l]].portnum = packet[l]
        BY <3>2 DEF Refresh, IInv, TypeOK, Threads
      <4>2. flows[l][cursor[l]] \in Flow
        BY <4>1, ElementOfSeq
      <4> QED BY <4>1, <4>2 DEF Flow
    <3> QED BY <1>2, <3>1, <3>2
  <2>2. Abstract!See(l, packet[l])
    BY <1>2 DEF Refresh, AppendFlow, Abstract!See
  <2> QED BY <2>1, <2>2 DEF Abstract!Next
<1>3. ASSUME NEW l \in Listeners, Request(l) PROVE Abstract!Next
  <2>1. asked[l] = Abstract!Never
    BY <1>3 DEF Request, IInv, RequestIsOpen, Never, Abstract!Never
  <2> QED BY <1>3, <2>1 DEF Request, Abstract!Next, Abstract!Ask
<1>4. CASE Answer
  BY <1>4, AnswerCountsActivePorts DEF Abstract!Next, IInv, TypeOK
<1>5. ASSUME NEW l \in Listeners,
             (\E p \in Ports \cup {Other} : Capture(l, p)) \/ Ignore(l) \/ Pass(l) \/ CountFlow(l)
      PROVE  UNCHANGED Abstract!vars
  BY <1>5 DEF Capture, Ignore, Pass, CountFlow, history, Abstract!vars
<1>6. ASSUME NEW t \in Threads, Lock(t) \/ Unlock(t) PROVE UNCHANGED Abstract!vars
  BY <1>6 DEF Lock, Unlock, history, Abstract!vars
<1>7. ASSUME Enter \/ Keep \/ Drop \/ Discount \/ Return PROVE UNCHANGED Abstract!vars
  BY <1>7 DEF Enter, Keep, Drop, Discount, Return, history, Abstract!vars
<1>8. CASE UNCHANGED vars
  BY <1>8 DEF vars, Abstract!vars
<1> QED BY <1>1, <1>2, <1>3, <1>4, <1>5, <1>6, <1>7, <1>8 DEF Next, Sniffer, Counting

\* A flow counter counts active ports: every answer contains each port on which
\* a packet came less than the timeout before it, and no port that had timed out
\* when the answer was asked for.
THEOREM RefinesActivePorts == Spec => CountsActivePorts
<1>1. Init => Abstract!Init
  BY DEF Init, Abstract!Init, Never, Abstract!Never
<1> QED BY <1>1, InitIInv, NextIInv, StepSimulation, PTL DEF Spec, CountsActivePorts, Abstract!Spec
=============================================================================
