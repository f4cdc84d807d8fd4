------------------------------ MODULE Features ------------------------------
(***************************************************************************)
(* From the configuration to the columns: the features a section of the    *)
(* configuration names (sys_confs.c), the evaluators they become, the copy *)
(* of the evaluators that the sniffer threads run (cmp_evaluator.c), what  *)
(* an evaluator makes of a packet (lib_features.c) and the headers it      *)
(* finds there, which are parsed once and remembered (etc_sniffex.c).      *)
(*                                                                         *)
(* A sniffer evaluates one feature per step.  What LOST_RTP_PACKETS_X and  *)
(* its relatives do with a sequence number is module RtpLoss; here they    *)
(* count the packets they look at.                                         *)
(***************************************************************************)
EXTENDS Integers, Sequences

CONSTANTS
    ListenerNum,   \* sections [pcap_0], [pcap_1], ...
    Confs,         \* the configurations: for each section a sequence of names
    Packets,       \* packets a device can deliver
    NoSniff,       \* a sniffer has no packet
    StaleHeads,    \* may slist_cpy find an earlier copy in its variable head?
    WordSize,      \* 2^32: items are uint32_t
    MaxPackets     \* bound: packets captured in a run

Listeners == 0 .. ListenerNum - 1
Word == 0 .. WordSize - 1

\* The names of a section, with the numbers after their identifiers.
ConfNames == [feature : [proto : STRING, side : STRING, unit : STRING], args : Seq(Nat)]

ASSUME ConstantsAssumption ==
    /\ ListenerNum \in Nat \ {0} /\ WordSize \in Nat \ {0, 1} /\ MaxPackets \in Nat
    /\ StaleHeads \in BOOLEAN
    /\ \A c \in Confs : c \in [Listeners -> Seq(ConfNames)]
    /\ Packets \subseteq [ihl : BOOLEAN, off : BOOLEAN, proto : STRING, src : Nat, dst : Nat,
                            pt : Nat, from : Nat, len : Word]

\* The features of features_load, by the parts of their identifiers:
\* SRC_RTP_BYTES_X_Y is the one with side "src", proto "rtp" and unit "bytes".
Features ==
    [proto : {"ip", "tcp", "udp"}, side : {"any"}, unit : {"packets", "bytes"}]
    \cup [proto : {"ip"}, side : {"from"}, unit : {"packets"}]
    \cup [proto : {"tcp", "udp"}, side : {"src", "dst"}, unit : {"packets", "bytes"}]
    \cup [proto : {"rtp"}, side : {"any", "src", "dst"},
          unit : {"packets", "bytes", "lost packets", "lost frames"}]

VARIABLES
    conf,        \* the configuration file: the names feature_0, feature_1, ... of each section
    installed,   \* pcap_listener_t.evaluators
    loaded,      \* sections read so far
    lists,       \* the lists slist_cpy made, by their number
    evaluators,  \* cmp_evaluator_t.evaluators: the number of a list, 0 for NULL
    started,     \* listeners _evaluator_start is done with
    captured,    \* packets so far
    sniff,       \* the sniff_t of each sniffer thread
    record,      \* the items of the record each sniffer is filling
    column,      \* per listener: the sums of the features of its rows
    seen,        \* history: the packets whose record each listener has sent
    own,         \* history: slist_cpy found NULL in head for this listener
    prolonged    \* history: lists that a later copy was appended to

vars == <<conf, installed, loaded, lists, evaluators, started, captured, sniff, record,
          column, seen, own, prolonged>>

Plus(a, b) == (a + b) % WordSize
-----------------------------------------------------------------------------
\* The container of a feature that was found, as memset leaves it.
Item(f) == [feature |-> f, port_num |-> 0, payload_type |-> 0, src_ipv4 |-> 0]

\* Mutant of Fields: source and destination features read their numbers swapped.
FieldsSwapped(f) ==
    IF f.side \in {"src", "dst"}
    THEN IF f.proto = "rtp" THEN <<"payload_type", "port_num">> ELSE <<"port_num">>
    ELSE IF f.side = "from" THEN <<"src_ipv4">> ELSE << >>

\* The container fields that sscanf fills for a feature, in order; a feature
\* without any has no pattern.
Fields(f) ==
    IF f.side \in {"src", "dst"}
    THEN IF f.proto = "rtp" THEN <<"port_num", "payload_type">> ELSE <<"port_num">>
    ELSE IF f.side = "from" THEN <<"src_ipv4">>
    ELSE IF f.proto # "rtp" THEN << >>
    ELSE IF f.unit \in {"packets", "bytes"} THEN <<"port_num">> ELSE <<"payload_type">>

\* A name is an identifier and the numbers args after it; without any it is the
\* identifier as it is installed, X and Y included.  Numbers after the last one
\* that the pattern wants are ignored, a missing one makes the name unknown.
Known(name) ==
    /\ name.feature \in Features
    /\ name.args # << >> =>
          Fields(name.feature) # << >> /\ Len(Fields(name.feature)) <= Len(name.args)

\* _get_feature_by_identifier, for a known name.
GetFeature(name) ==
    LET fields == Fields(name.feature)
    IN  [field \in DOMAIN Item(name.feature) |->
            IF name.args # << >> /\ \E i \in DOMAIN fields : fields[i] = field
            THEN name.args[CHOOSE i \in DOMAIN fields : fields[i] = field]
            ELSE Item(name.feature)[field]]

\* The names of a section that have a feature.
Found(names) ==
    LET found[i \in 0 .. Len(names)] ==
            IF i = 0 THEN << >>
            ELSE IF Known(names[i]) THEN Append(found[i - 1], names[i]) ELSE found[i - 1]
    IN  found[Len(names)]
-----------------------------------------------------------------------------
(* etc_sniffex.c: each test remembers its verdict, and what it found, in the *)
(* sniff_t.  The packet's fields stand for the bytes they are parsed from:   *)
(* ihl and off say that the IP and the TCP header are 20 bytes or longer.    *)

\* _reset_sniff, with the packet.
FreshSniff(p) ==
    [packet |-> p, is_ip |-> "undefined", is_tcp |-> "undefined", is_udp |-> "undefined",
     ip_src |-> 0, ip_p |-> "none", ip_len |-> 0, port_src |-> 0, port_dst |-> 0,
     payload |-> "none"]

\* sniff_is_ip_packet: the type of the Ethernet frame is not looked at.
TestIp(s) ==
    IF s.is_ip # "undefined" THEN s
    ELSE IF ~ s.packet.ihl THEN [s EXCEPT !.is_ip = "false"]
    ELSE [s EXCEPT !.is_ip = "true", !.ip_src = s.packet.from, !.ip_p = s.packet.proto,
                   !.ip_len = s.packet.len]

\* sniff_is_tcp_packet
TestTcp(s) ==
    LET i == TestIp(s)
    IN  IF s.is_tcp # "undefined" THEN s
        ELSE IF i.is_ip = "false" \/ i.ip_p # "tcp" \/ ~ s.packet.off
        THEN [i EXCEPT !.is_tcp = "false"]
        ELSE [i EXCEPT !.is_tcp = "true", !.port_src = s.packet.src, !.port_dst = s.packet.dst,
                       !.payload = "tcp"]

\* Mutant of TestUdp: the verdict on IP is not asked for, only the protocol.
TestUdpAlone(s) ==
    IF s.is_udp # "undefined" THEN s
    ELSE IF s.packet.proto # "udp" THEN [s EXCEPT !.is_udp = "false"]
    ELSE [s EXCEPT !.is_udp = "true", !.port_src = s.packet.src, !.port_dst = s.packet.dst,
                   !.payload = "udp"]

\* sniff_is_udp_packet
TestUdp(s) ==
    LET i == TestIp(s)
    IN  IF s.is_udp # "undefined" THEN s
        ELSE IF i.is_ip = "false" \/ i.ip_p # "udp"
        THEN [i EXCEPT !.is_udp = "false"]
        ELSE [i EXCEPT !.is_udp = "true", !.port_src = s.packet.src, !.port_dst = s.packet.dst,
                       !.payload = "udp"]

\* What an RTP evaluator does first; && leaves the second test out after the
\* first one said yes.
TestRtp(s) == LET u == TestUdp(s) IN IF u.is_udp = "true" THEN u ELSE TestTcp(u)

Test(f, s) ==
    CASE f.proto = "ip" -> TestIp(s)
      [] f.proto = "tcp" -> TestTcp(s)
      [] f.proto = "udp" -> TestUdp(s)
      [] OTHER -> TestRtp(s)

\* Does an evaluator count the packet of a sniff_t its test has been at?
Counts(e, s) ==
    /\ CASE e.feature.proto = "ip" -> s.is_ip = "true"
         [] e.feature.proto = "tcp" -> s.is_tcp = "true"
         [] e.feature.proto = "udp" -> s.is_udp = "true"
         [] e.feature.proto = "rtp" -> s.is_udp = "true" \/ s.is_tcp = "true"
    /\ e.feature.side = "src" => s.port_src = e.port_num
    /\ e.feature.side = "dst" => s.port_dst = e.port_num
    /\ e.feature.side = "from" => s.ip_src = e.src_ipv4
    /\ e.feature.proto = "rtp" => s.packet.pt = e.payload_type

\* feature->evaluator
Value(e, s) ==
    IF ~ Counts(e, s) THEN 0 ELSE IF e.feature.unit = "bytes" THEN s.ip_len ELSE 1
-----------------------------------------------------------------------------
Init ==
    /\ conf \in Confs
    /\ installed = [l \in Listeners |-> << >>]
    /\ loaded = 0
    /\ lists = << >>
    /\ evaluators = [l \in Listeners |-> 0]
    /\ started = 0
    /\ captured = 0
    /\ sniff = [l \in Listeners |-> NoSniff]
    /\ record = [l \in Listeners |-> << >>]
    /\ column = [l \in Listeners |-> [i \in DOMAIN conf[l] |-> 0]]
    /\ seen = [l \in Listeners |-> << >>]
    /\ own = [l \in Listeners |-> TRUE]
    /\ prolonged = {}

\* _listener_from_conf: a name without a feature is reported and left out.
Load ==
    /\ loaded < ListenerNum
    /\ LET names == Found(conf[loaded])
       IN installed' = [installed EXCEPT ![loaded] = [i \in DOMAIN names |-> GetFeature(names[i])]]
    /\ loaded' = loaded + 1
    /\ UNCHANGED <<conf, lists, evaluators, started, captured, sniff, record, column, seen,
                   own, prolonged>>

\* slist_cpy of the evaluators of a listener, which reads its variable head
\* before it is assigned: it may hold NULL, or the list an earlier call left
\* there, and then the copy is appended to that list.  With any other value the
\* program does not get past this call.
slist_cpy(l, items) ==
    \/ /\ lists' = Append(lists, items)
       /\ evaluators' = [evaluators EXCEPT ![l] = Len(lists) + 1]
       /\ UNCHANGED <<own, prolonged>>
    \/ /\ StaleHeads
       /\ \E head \in DOMAIN lists :
             /\ lists' = [lists EXCEPT ![head] = @ \o items]
             /\ evaluators' = [evaluators EXCEPT ![l] = head]
             /\ prolonged' = prolonged \cup {head}
       /\ own' = [own EXCEPT ![l] = FALSE]

\* _evaluator_start for one listener; a copy of nothing is NULL.
Start ==
    /\ loaded = ListenerNum /\ started < ListenerNum
    /\ \/ /\ installed[started] = << >>
          /\ UNCHANGED <<lists, evaluators, own, prolonged>>
       \/ /\ installed[started] # << >>
          /\ slist_cpy(started, installed[started])
    /\ started' = started + 1
    /\ UNCHANGED <<conf, installed, loaded, captured, sniff, record, column, seen>>

\* The list a sniffer walks along.
ListOf(l) == IF evaluators[l] = 0 THEN << >> ELSE lists[evaluators[l]]

Idle(l) == started = ListenerNum /\ sniff[l] = NoSniff

\* pcap_next times out: nothing is evaluated.
Impulse(l) == Idle(l) /\ UNCHANGED vars

\* pcap_next returns a packet: the evaluator demands a clean record.
Capture(l) ==
    /\ Idle(l) /\ captured < MaxPackets
    /\ \E p \in Packets : sniff' = [sniff EXCEPT ![l] = FreshSniff(p)]
    /\ record' = [record EXCEPT ![l] = << >>]
    /\ captured' = captured + 1
    /\ UNCHANGED <<conf, installed, loaded, lists, evaluators, started, column, seen,
                   own, prolonged>>

\* The next evaluator of the list fills the next item.
Evaluate(l) ==
    /\ sniff[l] # NoSniff /\ Len(record[l]) < Len(ListOf(l))
    /\ LET e == ListOf(l)[Len(record[l]) + 1]
           s == Test(e.feature, sniff[l])
       IN  /\ sniff' = [sniff EXCEPT ![l] = s]
           /\ record' = [record EXCEPT ![l] = Append(@, Value(e, s))]
    /\ UNCHANGED <<conf, installed, loaded, lists, evaluators, started, captured, column, seen,
                   own, prolonged>>

\* The record is sent: the accumulator adds feature_num items of it, of which
\* those that no evaluator wrote are 0.
Send(l) ==
    /\ sniff[l] # NoSniff /\ Len(record[l]) = Len(ListOf(l))
    /\ column' = [column EXCEPT ![l] = [i \in DOMAIN @ |->
                     IF i \in DOMAIN record[l] THEN Plus(@[i], record[l][i]) ELSE @[i]]]
    /\ seen' = [seen EXCEPT ![l] = Append(@, sniff[l].packet)]
    /\ sniff' = [sniff EXCEPT ![l] = NoSniff]
    /\ record' = [record EXCEPT ![l] = << >>]
    /\ UNCHANGED <<conf, installed, loaded, lists, evaluators, started, captured, own, prolonged>>

Next ==
    \/ Load \/ Start
    \/ \E l \in Listeners : Impulse(l) \/ Capture(l) \/ Evaluate(l) \/ Send(l)

Spec == Init /\ [][Next]_vars
-----------------------------------------------------------------------------
Verdicts == {"undefined", "true", "false"}

\* A sniff_t with a packet.
Sniffs ==
    [packet : Packets, is_ip : Verdicts, is_tcp : Verdicts, is_udp : Verdicts, ip_src : Nat,
     ip_p : {"none"} \cup {p.proto : p \in Packets}, ip_len : Word, port_src : Nat,
     port_dst : Nat, payload : {"none", "tcp", "udp"}]

\* Every field keeps its type; sums are words.
TypeOK ==
    /\ conf \in Confs
    /\ loaded \in 0 .. ListenerNum /\ started \in 0 .. ListenerNum
    /\ captured \in 0 .. MaxPackets
    /\ \A l \in Listeners :
         /\ evaluators[l] \in 0 .. Len(lists)
         /\ Len(installed[l]) <= Len(conf[l])
         /\ sniff[l] \in Sniffs \cup {NoSniff}
         /\ record[l] \in Seq(Word)
         /\ column[l] \in [DOMAIN conf[l] -> Word]
         /\ seen[l] \in Seq(Packets)
         /\ own[l] \in BOOLEAN
    /\ prolonged \subseteq DOMAIN lists

\* The i-th number of a name; a name without numbers stands for zeros.
Number(name, i) == IF i \in DOMAIN name.args THEN name.args[i] ELSE 0

\* README.md, Available Features: the packets that a name asks for.
AsksFor(name, p) ==
    LET f == name.feature
    IN  /\ p.ihl
        /\ f.proto \in {"tcp", "udp"} => p.proto = f.proto
        /\ f.proto = "rtp" => p.proto \in {"tcp", "udp"}
        /\ f.proto # "ip" /\ p.proto = "tcp" => p.off
        /\ f.side = "src" => p.src = Number(name, 1)
        /\ f.side = "dst" => p.dst = Number(name, 1)
        /\ f.side = "from" => p.from = Number(name, 1)
        /\ f.proto = "rtp" => p.pt = Number(name, IF f.side = "any" THEN 1 ELSE 2)

\* What a packet, and the packets a listener has seen, come to under a name.
Worth(name, p) ==
    IF ~ AsksFor(name, p) THEN 0 ELSE IF name.feature.unit = "bytes" THEN p.len ELSE 1

Sum(name, packets) ==
    LET sum[i \in 0 .. Len(packets)] ==
            IF i = 0 THEN 0 ELSE Plus(sum[i - 1], Worth(name, packets[i]))
    IN  sum[Len(packets)]

\* RTP_PACKETS_X and RTP_BYTES_X: sscanf stores X where the evaluators do not
\* look for it.
Unheeded(name) ==
    /\ name.feature.proto = "rtp" /\ name.feature.side = "any"
    /\ name.feature.unit \in {"packets", "bytes"}

AsTaken(name) == IF Unheeded(name) THEN [name EXCEPT !.args = << >>] ELSE name

\* A listener's columns are, from the first one on, what the names with a
\* feature ask for, in their order and whatever the other features of the list
\* have found out about the packet; a name without a feature moves the later
\* ones to the left.  RTP_PACKETS_X and RTP_BYTES_X count payload type 0.  A
\* stale head of slist_cpy spoils the columns of the listener it was for, never
\* those of the listener whose list it is; the spare columns on the right, one
\* for every name without a feature, stay 0 unless another listener's evaluators
\* were appended to the list.
ColumnsCountWhatTheyName ==
    \A l \in Listeners : own[l] =>
        LET names == Found(conf[l])
        IN  /\ \A i \in DOMAIN names : column[l][i] = Sum(AsTaken(names[i]), seen[l])
            /\ evaluators[l] \notin prolonged =>
                 \A i \in DOMAIN conf[l] : i > Len(names) => column[l][i] = 0

\* Through loading, copying and evaluating, every list number, item and sum stays
\* in its range, and the columns of a listener are, from the first one on, what
\* the names with a feature ask for, whichever evaluators ran before them on the
\* same parsed packet and whatever list slist_cpy left behind.
TypesAndColumns == TypeOK /\ ColumnsCountWhatTheyName

\* RTP_PACKETS_X and RTP_BYTES_X track the packets with a given payload type
\* (README.md).
RtpTypeIsHeeded ==
    \A l \in Listeners : own[l] =>
        LET names == Found(conf[l])
        IN  \A i \in DOMAIN names :
                Unheeded(names[i]) => column[l][i] = Sum(names[i], seen[l])

\* In whatever order the tests are asked, what they remember is true of the
\* packet: at most one of the transports is found, its ports and payload are
\* that header's, and it is never found without an IP header.
VerdictsAgree ==
    \A l \in Listeners : sniff[l] # NoSniff =>
        LET s == sniff[l]
            p == s.packet
        IN  /\ s.is_ip = "true" => p.ihl /\ s.ip_len = p.len /\ s.ip_p = p.proto
            /\ s.is_ip = "false" => ~ p.ihl
            /\ "true" \in {s.is_tcp, s.is_udp} =>
                  s.is_ip = "true" /\ s.port_src = p.src /\ s.port_dst = p.dst
            /\ s.is_tcp = "true" => s.payload = "tcp" /\ p.proto = "tcp"
            /\ s.is_udp = "true" => s.payload = "udp" /\ p.proto = "udp"
=============================================================================
