--------------------------- MODULE FeaturesProofs ---------------------------
(***************************************************************************)
(* Features for any configuration, any packets and any list of evaluators: *)
(* what the header tests remember about a packet is true of it, in every   *)
(* order in which evaluators can ask for them, and the columns of a        *)
(* listener are what its names ask for.                                    *)
(***************************************************************************)
EXTENDS Features, SequenceTheorems, NaturalsInduction, WellFoundedInduction, TLAPS

\* VerdictsAgree, of one sniff_t, and that a transport is not missed.
Agrees(s) ==
    LET p == s.packet
    IN  /\ s.is_ip = "true" => p.ihl /\ s.ip_len = p.len /\ s.ip_p = p.proto
        /\ s.is_ip = "false" => ~ p.ihl
        /\ "true" \in {s.is_tcp, s.is_udp} =>
              s.is_ip = "true" /\ s.port_src = p.src /\ s.port_dst = p.dst
        /\ s.is_tcp = "true" => s.payload = "tcp" /\ p.proto = "tcp"
        /\ s.is_udp = "true" => s.payload = "udp" /\ p.proto = "udp"
        /\ s.is_ip = "true" => s.ip_src = p.from
        /\ s.is_tcp = "true" => p.off
        /\ s.is_tcp = "false" => ~ (p.ihl /\ p.proto = "tcp" /\ p.off)
        /\ s.is_udp = "false" => ~ (p.ihl /\ p.proto = "udp")

Inv == \A l \in Listeners : sniff[l] # NoSniff => sniff[l] \in Sniffs /\ Agrees(sniff[l])

SniffIsFunction == sniff = [l \in Listeners |-> sniff[l]]

SniffInv == Inv /\ SniffIsFunction

PacketType ==
    [ihl : BOOLEAN, off : BOOLEAN, proto : STRING, src : Nat, dst : Nat, pt : Nat, from : Nat,
     len : Word]

\* A packet that was just captured has no verdicts.
LEMMA FreshAgrees ==
    ASSUME NEW p \in Packets
    PROVE  FreshSniff(p) \in Sniffs /\ Agrees(FreshSniff(p))
<1>1. 0 \in Word /\ 0 \in Nat
  BY ConstantsAssumption DEF Word
<1>2. FreshSniff(p) \in Sniffs
  BY <1>1 DEF FreshSniff, Sniffs, Verdicts
<1>3. Agrees(FreshSniff(p))
  BY DEF FreshSniff, Agrees
<1>4. QED
  BY <1>2, <1>3

\* sniff_is_ip_packet keeps what is remembered true, and knows its own verdict
\* afterwards.
LEMMA TestIpAgrees ==
    ASSUME NEW s \in Sniffs, Agrees(s)
    PROVE  /\ TestIp(s) \in Sniffs /\ Agrees(TestIp(s))
           /\ TestIp(s).packet = s.packet
           /\ TestIp(s).is_ip # "undefined"
           /\ TestIp(s).is_tcp = s.is_tcp /\ TestIp(s).is_udp = s.is_udp
<1>1. s.packet \in PacketType
  BY ConstantsAssumption DEF Sniffs, PacketType
<1>2. QED
  BY <1>1 DEF TestIp, Sniffs, Agrees, Verdicts, PacketType

\* So do sniff_is_tcp_packet and sniff_is_udp_packet, which ask it first.
LEMMA TestTcpAgrees ==
    ASSUME NEW s \in Sniffs, Agrees(s)
    PROVE  /\ TestTcp(s) \in Sniffs /\ Agrees(TestTcp(s))
           /\ TestTcp(s).packet = s.packet /\ TestTcp(s).is_tcp # "undefined"
<1> DEFINE i == TestIp(s)
<1>1. s.packet \in PacketType
  BY ConstantsAssumption DEF Sniffs, PacketType
<1>2. /\ i \in Sniffs /\ Agrees(i) /\ i.packet = s.packet /\ i.is_ip \in {"true", "false"}
      /\ i.is_tcp = s.is_tcp
  BY TestIpAgrees DEF Sniffs, Verdicts
<1> HIDE DEF i
<1>3. TestTcp(s) = IF s.is_tcp # "undefined" THEN s
                   ELSE IF i.is_ip = "false" \/ i.ip_p # "tcp" \/ ~ s.packet.off
                   THEN [i EXCEPT !.is_tcp = "false"]
                   ELSE [i EXCEPT !.is_tcp = "true", !.port_src = s.packet.src,
                                  !.port_dst = s.packet.dst, !.payload = "tcp"]
  BY DEF TestTcp, i
<1>4. CASE s.is_tcp # "undefined"
  BY <1>3, <1>4
<1>5. ASSUME s.is_tcp = "undefined", i.is_ip = "false" \/ i.ip_p # "tcp" \/ ~ s.packet.off
      PROVE  /\ TestTcp(s) \in Sniffs /\ Agrees(TestTcp(s))
             /\ TestTcp(s).packet = s.packet /\ TestTcp(s).is_tcp # "undefined"
  <2>1. TestTcp(s) = [i EXCEPT !.is_tcp = "false"]
    BY <1>3, <1>5
  <2>2. TestTcp(s) \in Sniffs
    BY <1>2, <2>1 DEF Sniffs, Verdicts
  <2>3. Agrees(TestTcp(s))
    BY <1>2, <1>5, <2>1 DEF Sniffs, Agrees
  <2>4. TestTcp(s).packet = s.packet /\ TestTcp(s).is_tcp # "undefined"
    BY <1>2, <2>1 DEF Sniffs
  <2>5. QED
    BY <2>2, <2>3, <2>4
<1>6. ASSUME s.is_tcp = "undefined", ~ (i.is_ip = "false" \/ i.ip_p # "tcp" \/ ~ s.packet.off)
      PROVE  /\ TestTcp(s) \in Sniffs /\ Agrees(TestTcp(s))
             /\ TestTcp(s).packet = s.packet /\ TestTcp(s).is_tcp # "undefined"
  <2>1. TestTcp(s) = [i EXCEPT !.is_tcp = "true", !.port_src = s.packet.src,
                            !.port_dst = s.packet.dst, !.payload = "tcp"]
    BY <1>3, <1>6
  <2>2. i.is_ip = "true" /\ i.ip_p = "tcp" /\ s.packet.proto = "tcp"
    BY <1>2, <1>6 DEF Agrees
  <2>3. TestTcp(s) \in Sniffs
    BY <1>1, <1>2, <2>1, <2>2 DEF Sniffs, Verdicts, PacketType
  <2>4. i.is_udp # "true"
    BY <1>2, <2>2 DEF Agrees
  <2>5. Agrees(TestTcp(s))
    BY <1>2, <1>6, <2>1, <2>2, <2>4 DEF Sniffs, Agrees
  <2>6. TestTcp(s).packet = s.packet /\ TestTcp(s).is_tcp # "undefined"
    BY <1>2, <2>1 DEF Sniffs
  <2>7. QED
    BY <2>3, <2>5, <2>6
<1>7. QED
  BY <1>4, <1>5, <1>6

LEMMA TestUdpAgrees ==
    ASSUME NEW s \in Sniffs, Agrees(s)
    PROVE  /\ TestUdp(s) \in Sniffs /\ Agrees(TestUdp(s))
           /\ TestUdp(s).packet = s.packet /\ TestUdp(s).is_udp # "undefined"
<1> DEFINE i == TestIp(s)
<1>1. s.packet \in PacketType
  BY ConstantsAssumption DEF Sniffs, PacketType
<1>2. /\ i \in Sniffs /\ Agrees(i) /\ i.packet = s.packet /\ i.is_ip \in {"true", "false"}
      /\ i.is_udp = s.is_udp
  BY TestIpAgrees DEF Sniffs, Verdicts
<1> HIDE DEF i
<1>3. TestUdp(s) = IF s.is_udp # "undefined" THEN s
                   ELSE IF i.is_ip = "false" \/ i.ip_p # "udp"
                   THEN [i EXCEPT !.is_udp = "false"]
                   ELSE [i EXCEPT !.is_udp = "true", !.port_src = s.packet.src,
                                  !.port_dst = s.packet.dst, !.payload = "udp"]
  BY DEF TestUdp, i
<1>4. CASE s.is_udp # "undefined"
  BY <1>3, <1>4
<1>5. ASSUME s.is_udp = "undefined", i.is_ip = "false" \/ i.ip_p # "udp"
      PROVE  /\ TestUdp(s) \in Sniffs /\ Agrees(TestUdp(s))
             /\ TestUdp(s).packet = s.packet /\ TestUdp(s).is_udp # "undefined"
  <2>1. TestUdp(s) = [i EXCEPT !.is_udp = "false"]
    BY <1>3, <1>5
  <2>2. TestUdp(s) \in Sniffs
    BY <1>2, <2>1 DEF Sniffs, Verdicts
  <2>3. Agrees(TestUdp(s))
    BY <1>2, <1>5, <2>1 DEF Sniffs, Agrees
  <2>4. TestUdp(s).packet = s.packet /\ TestUdp(s).is_udp # "undefined"
    BY <1>2, <2>1 DEF Sniffs
  <2>5. QED
    BY <2>2, <2>3, <2>4
<1>6. ASSUME s.is_udp = "undefined", ~ (i.is_ip = "false" \/ i.ip_p # "udp")
      PROVE  /\ TestUdp(s) \in Sniffs /\ Agrees(TestUdp(s))
             /\ TestUdp(s).packet = s.packet /\ TestUdp(s).is_udp # "undefined"
  <2>1. TestUdp(s) = [i EXCEPT !.is_udp = "true", !.port_src = s.packet.src,
                            !.port_dst = s.packet.dst, !.payload = "udp"]
    BY <1>3, <1>6
  <2>2. i.is_ip = "true" /\ i.ip_p = "udp" /\ s.packet.proto = "udp"
    BY <1>2, <1>6 DEF Agrees
  <2>3. TestUdp(s) \in Sniffs
    BY <1>1, <1>2, <2>1, <2>2 DEF Sniffs, Verdicts, PacketType
  <2>4. i.is_tcp # "true"
    BY <1>2, <2>2 DEF Agrees
  <2>5. Agrees(TestUdp(s))
    BY <1>2, <1>6, <2>1, <2>2, <2>4 DEF Sniffs, Agrees
  <2>6. TestUdp(s).packet = s.packet /\ TestUdp(s).is_udp # "undefined"
    BY <1>2, <2>1 DEF Sniffs
  <2>7. QED
    BY <2>3, <2>5, <2>6
<1>7. QED
  BY <1>4, <1>5, <1>6

\* Whatever the feature, its evaluator leaves true verdicts behind.
LEMMA TestAgrees ==
    ASSUME NEW s \in Sniffs, Agrees(s), NEW f
    PROVE  /\ Test(f, s) \in Sniffs /\ Agrees(Test(f, s)) /\ Test(f, s).packet = s.packet
           /\ f.proto = "ip" => Test(f, s).is_ip # "undefined"
           /\ f.proto = "tcp" => Test(f, s).is_tcp # "undefined"
           /\ f.proto = "udp" => Test(f, s).is_udp # "undefined"
           /\ f.proto = "rtp" => \/ Test(f, s).is_udp = "true"
                                 \/ /\ Test(f, s).is_tcp # "undefined"
                                    /\ ~ (s.packet.ihl /\ s.packet.proto = "udp")
<1> DEFINE u == TestUdp(s)
<1>1. u \in Sniffs /\ Agrees(u) /\ u.packet = s.packet /\ u.is_udp # "undefined"
  BY TestUdpAgrees
<1> HIDE DEF u
<1>2. TestRtp(s) = IF u.is_udp = "true" THEN u ELSE TestTcp(u)
  BY DEF TestRtp, u
<1>3. /\ TestRtp(s) \in Sniffs /\ Agrees(TestRtp(s)) /\ TestRtp(s).packet = s.packet
      /\ \/ TestRtp(s).is_udp = "true"
         \/ TestRtp(s).is_tcp # "undefined" /\ ~ (s.packet.ihl /\ s.packet.proto = "udp")
  <2>1. CASE u.is_udp = "true"
    BY <1>1, <1>2, <2>1
  <2>2. CASE u.is_udp # "true"
    <3>1. u.is_udp = "false"
      BY <1>1, <2>2 DEF Sniffs, Verdicts
    <3>2. ~ (s.packet.ihl /\ s.packet.proto = "udp")
      BY <1>1, <3>1 DEF Agrees
    <3>3. QED
      BY <1>1, <1>2, <2>2, <3>2, TestTcpAgrees
  <2>3. QED
    BY <2>1, <2>2
<1>4. Test(f, s) = CASE f.proto = "ip" -> TestIp(s)
                     [] f.proto = "tcp" -> TestTcp(s)
                     [] f.proto = "udp" -> TestUdp(s)
                     [] OTHER -> TestRtp(s)
  BY DEF Test
<1>5. CASE f.proto = "ip"
  BY <1>4, <1>5, TestIpAgrees
<1>6. CASE f.proto = "tcp"
  BY <1>4, <1>6, TestTcpAgrees
<1>7. CASE f.proto = "udp"
  BY <1>4, <1>7, TestUdpAgrees
<1>8. CASE f.proto \notin {"ip", "tcp", "udp"}
  BY <1>3, <1>4, <1>8
<1>9. QED
  BY <1>5, <1>6, <1>7, <1>8

-----------------------------------------------------------------------------
(***************************************************************************)
(* Found and Sum go along a sequence.  What such a recursion computes is   *)
(* found by its least counterexample.                                      *)
(***************************************************************************)

LEMMA LeastOfNat ==
    ASSUME NEW T \in SUBSET Nat, T # {}
    PROVE  \E n \in T : \A m \in T : ~ (m < n)
<1>1. PICK n \in T : \A m \in T : ~ (<<m, n>> \in OpToRel(<, Nat))
  <2>1. IsWellFoundedOn(OpToRel(<, Nat), Nat)
    BY NatLessThanWellFounded
  <2>2. QED
    BY ONLY <2>1, WFMin, T \in SUBSET Nat, T # {}
<1>2. QED
  BY <1>1 DEF OpToRel

\* f starts with a, and step i of G leads from each of its values to the next one.
Iterates(f, n, a, G) == f[0] = a /\ \A i \in 1 .. n : f[i] = G[i][f[i - 1]]

LEMMA IteratesExist ==
    ASSUME NEW A, NEW a \in A, NEW n \in Nat, NEW G \in [1 .. n -> [A -> A]]
    PROVE  \E f \in [0 .. n -> A] : Iterates(f, n, a, G)
<1> DEFINE Without == {k \in 0 .. n : ~ \E f \in [0 .. k -> A] : Iterates(f, k, a, G)}
<1>1. SUFFICES ASSUME Without # {} PROVE FALSE
  OBVIOUS
<1>2. PICK k \in Without : \A m \in Without : ~ (m < k)
  <2>1. Without \in SUBSET Nat
    OBVIOUS
  <2>2. QED
    BY ONLY <1>1, <2>1, LeastOfNat
<1>3. CASE k = 0
  <2>1. Iterates([i \in 0 .. 0 |-> a], 0, a, G)
    BY DEF Iterates
  <2>2. QED
    BY <1>2, <1>3, <2>1
<1>4. CASE k # 0
  <2>1. k \in 1 .. n /\ k - 1 \in 0 .. n /\ k - 1 < k
    BY <1>2, <1>4
  <2>2. PICK f \in [0 .. k - 1 -> A] : Iterates(f, k - 1, a, G)
    BY <2>1, <1>2
  <2> DEFINE h == [i \in 0 .. k |-> IF i = k THEN G[k][f[k - 1]] ELSE f[i]]
  <2>3. h \in [0 .. k -> A]
    BY <2>1, <2>2
  <2>4. Iterates(h, k, a, G)
    BY <2>1, <2>2 DEF Iterates
  <2>5. QED
    BY <1>2, <2>3, <2>4
<1>5. QED
  BY <1>3, <1>4

\* A function that does the same as long as its values are in A has the same values.
LEMMA IteratesAgree ==
    ASSUME NEW A, NEW a \in A, NEW n \in Nat, NEW G,
           NEW g \in [0 .. n -> A], Iterates(g, n, a, G),
           NEW f, f[0] = a, \A i \in 1 .. n : f[i - 1] \in A => f[i] = G[i][f[i - 1]]
    PROVE  f[n] = g[n]
<1> DEFINE Apart == {k \in 0 .. n : f[k] # g[k]}
<1>1. ASSUME Apart # {} PROVE FALSE
  <2>1. PICK k \in Apart : \A m \in Apart : ~ (m < k)
    <3>1. Apart \in SUBSET Nat
      OBVIOUS
    <3>2. QED
      BY ONLY <1>1, <3>1, LeastOfNat
  <2>2. k # 0
    BY <2>1 DEF Iterates
  <2>3. k \in 1 .. n /\ k - 1 \in 0 .. n /\ k - 1 < k
    BY <2>1, <2>2
  <2>4. f[k - 1] = g[k - 1]
    BY <2>1, <2>3
  <2>5. QED
    BY <2>1, <2>3, <2>4 DEF Iterates
<1>2. QED
  BY <1>1

\* Sum adds one packet after the other.
Adds(name, packets) == [i \in 1 .. Len(packets) |-> [w \in Word |-> Plus(w, Worth(name, packets[i]))]]

LEMMA WorthIsWord ==
    ASSUME NEW name, NEW p \in Packets
    PROVE  Worth(name, p) \in Word /\ \A w \in Word : Plus(w, Worth(name, p)) \in Word
<1>1. p.len \in Word /\ 0 \in Word /\ 1 \in Word
  BY ConstantsAssumption DEF Word
<1>2. Worth(name, p) \in Word
  BY <1>1 DEF Worth
<1>3. QED
  BY <1>2, ConstantsAssumption DEF Word, Plus

LEMMA SumIterates ==
    ASSUME NEW name, NEW packets \in Seq(Packets)
    PROVE  \E g \in [0 .. Len(packets) -> Word] :
              /\ Iterates(g, Len(packets), 0, Adds(name, packets))
              /\ Sum(name, packets) = g[Len(packets)]
<1> DEFINE n == Len(packets)
           G == Adds(name, packets)
           Following(h) == [i \in 0 .. n |->
                               IF i = 0 THEN 0 ELSE Plus(h[i - 1], Worth(name, packets[i]))]
           sum == CHOOSE h : h = Following(h)
<1>1. n \in Nat /\ \A i \in 1 .. n : packets[i] \in Packets
  BY LenProperties, ElementOfSeq
<1>2. 0 \in Word
  BY ConstantsAssumption DEF Word
<1>3. G \in [1 .. n -> [Word -> Word]]
  BY <1>1, WorthIsWord DEF Adds
<1>4. PICK g \in [0 .. n -> Word] : Iterates(g, n, 0, G)
  BY ONLY <1>1, <1>2, <1>3, IteratesExist
<1>5. ASSUME NEW i \in 1 .. n, NEW w \in Word
      PROVE  G[i][w] = Plus(w, Worth(name, packets[i]))
  BY DEF Adds
<1> HIDE DEF G, n
<1>6. g = Following(g)
  <2>1. ASSUME NEW i \in 0 .. n
        PROVE  g[i] = IF i = 0 THEN 0 ELSE Plus(g[i - 1], Worth(name, packets[i]))
    <3>1. i = 0 \/ (i \in 1 .. n /\ i - 1 \in 0 .. n)
      BY <1>1
    <3>2. QED
      BY <3>1, <1>4, <1>5 DEF Iterates
  <2>2. QED
    BY <2>1
<1>7. sum = Following(sum)
  <2> HIDE DEF Following
  <2>1. QED
    BY ONLY <1>6, Zenon
<1>8. Sum(name, packets) = sum[n]
  BY Zenon DEF Sum, n
<1> HIDE DEF sum
<1>9. sum[0] = 0 /\ \A i \in 1 .. n : sum[i - 1] \in Word => sum[i] = G[i][sum[i - 1]]
  <2>1. 0 \in 0 .. n /\ \A i \in 1 .. n : i \in 0 .. n /\ i # 0
    BY <1>1
  <2>2. QED
    BY <1>5, <1>7, <2>1
<1>10. sum[n] = g[n]
  BY ONLY <1>1, <1>2, <1>4, <1>9, IteratesAgree
<1>11. QED
  BY <1>4, <1>8, <1>10 DEF n, G

\* Of no packets the sum is 0, and one packet more adds what it is worth.
LEMMA SumOfNone == \A name : Sum(name, << >>) = 0
<1> SUFFICES ASSUME NEW name PROVE Sum(name, << >>) = 0
  OBVIOUS
<1>1. << >> \in Seq(Packets) /\ Len(<< >>) = 0
  BY EmptySeq
<1>2. PICK g \in [0 .. 0 -> Word] : Iterates(g, 0, 0, Adds(name, << >>)) /\ Sum(name, << >>) = g[0]
  BY <1>1, SumIterates
<1>3. QED
  BY <1>2 DEF Iterates

LEMMA SumOfAppend ==
    ASSUME NEW name, NEW packets \in Seq(Packets), NEW p \in Packets
    PROVE  /\ Sum(name, packets) \in Word
           /\ Sum(name, Append(packets, p)) = Plus(Sum(name, packets), Worth(name, p))
<1> DEFINE n == Len(packets)
           more == Append(packets, p)
<1>1. /\ n \in Nat /\ more \in Seq(Packets) /\ Len(more) = n + 1 /\ more[n + 1] = p
      /\ \A i \in 1 .. n : more[i] = packets[i]
  BY AppendProperties, LenProperties
<1>2. PICK g \in [0 .. n -> Word] : /\ Iterates(g, n, 0, Adds(name, packets))
                                    /\ Sum(name, packets) = g[n]
  BY SumIterates
<1>3. PICK h \in [0 .. n + 1 -> Word] : /\ Iterates(h, n + 1, 0, Adds(name, more))
                                        /\ Sum(name, more) = h[n + 1]
  BY <1>1, SumIterates
<1> HIDE DEF n, more
<1>4. \A i \in 1 .. n : Adds(name, more)[i] = Adds(name, packets)[i]
  BY <1>1 DEF Adds, n
<1>5. h[0] = 0 /\ \A i \in 1 .. n : h[i] = Adds(name, packets)[i][h[i - 1]]
  BY <1>1, <1>3, <1>4 DEF Iterates
<1>6. h[n] = g[n]
  BY <1>1, <1>2, <1>5, IteratesAgree, 0 \in Word
<1>7. QED
  <2>1. h[n] \in Word /\ n + 1 \in 1 .. n + 1 /\ (n + 1) - 1 = n
    BY <1>1, <1>3
  <2>2. h[n + 1] = Adds(name, more)[n + 1][h[n]]
    BY <1>3, <2>1 DEF Iterates
  <2>3. Adds(name, more)[n + 1] = [w \in Word |-> Plus(w, Worth(name, p))]
    BY <1>1, <2>1 DEF Adds
  <2>4. QED
    BY <1>2, <1>3, <1>6, <2>1, <2>2, <2>3 DEF more

\* Found appends one name after the other.
KnownNames == {name \in ConfNames : Known(name)}

Filters(names) ==
    [i \in 1 .. Len(names) |-> [found \in Seq(KnownNames) |->
        IF Known(names[i]) THEN Append(found, names[i]) ELSE found]]

LEMMA FoundIterates ==
    ASSUME NEW names \in Seq(ConfNames)
    PROVE  \E g \in [0 .. Len(names) -> Seq(KnownNames)] :
              /\ Iterates(g, Len(names), << >>, Filters(names))
              /\ Found(names) = g[Len(names)]
<1> DEFINE n == Len(names)
           A == Seq(KnownNames)
           G == Filters(names)
           Following(h) == [i \in 0 .. n |->
                               IF i = 0 THEN << >>
                               ELSE IF Known(names[i]) THEN Append(h[i - 1], names[i]) ELSE h[i - 1]]
           found == CHOOSE h : h = Following(h)
<1>1. n \in Nat /\ \A i \in 1 .. n : names[i] \in ConfNames
  BY LenProperties, ElementOfSeq
<1>2. << >> \in A
  BY EmptySeq
<1>3. ASSUME NEW i \in 1 .. n, NEW s \in A
      PROVE  (IF Known(names[i]) THEN Append(s, names[i]) ELSE s) \in A
  <2>1. Known(names[i]) => names[i] \in KnownNames
    BY <1>1 DEF KnownNames
  <2>2. Known(names[i]) => Append(s, names[i]) \in A
    BY <2>1, AppendProperties
  <2>3. QED
    BY <2>2
<1>4. ASSUME NEW i \in 1 .. n, NEW s \in A
      PROVE  G[i][s] = IF Known(names[i]) THEN Append(s, names[i]) ELSE s
  BY DEF Filters
<1>5. G \in [1 .. n -> [A -> A]]
  BY <1>3 DEF Filters
<1>6. PICK g \in [0 .. n -> A] : Iterates(g, n, << >>, G)
  <2> HIDE DEF A, G, n
  <2>1. QED
    BY ONLY <1>1, <1>2, <1>5, IteratesExist
<1> HIDE DEF G, n, A
<1>7. g = Following(g)
  <2>1. ASSUME NEW i \in 0 .. n
        PROVE  g[i] = IF i = 0 THEN << >>
                      ELSE IF Known(names[i]) THEN Append(g[i - 1], names[i]) ELSE g[i - 1]
    <3>1. i = 0 \/ (i \in 1 .. n /\ i - 1 \in 0 .. n)
      BY <1>1
    <3>2. ASSUME i \in 1 .. n, i - 1 \in 0 .. n
          PROVE  g[i] = IF Known(names[i]) THEN Append(g[i - 1], names[i]) ELSE g[i - 1]
      <4>1. g[i] = G[i][g[i - 1]] /\ g[i - 1] \in A
        BY <1>6, <3>2 DEF Iterates
      <4>2. QED
        BY <1>4, <3>2, <4>1
    <3>3. QED
      BY <1>1, <3>1, <3>2, <1>6 DEF Iterates
  <2>2. QED
    BY <2>1
<1>8. found = Following(found)
  <2> HIDE DEF Following
  <2>1. QED
    BY ONLY <1>7, Zenon
<1>9. Found(names) = found[n]
  BY Zenon DEF Found, n
<1> HIDE DEF found
<1>10. found[0] = << >> /\ \A i \in 1 .. n : found[i - 1] \in A => found[i] = G[i][found[i - 1]]
  <2>1. 0 \in 0 .. n /\ \A i \in 1 .. n : i \in 0 .. n /\ i # 0
    BY <1>1
  <2>2. found[0] = << >>
    BY <1>8, <2>1
  <2>3. ASSUME NEW i \in 1 .. n, found[i - 1] \in A PROVE found[i] = G[i][found[i - 1]]
    <3>1. found[i] = IF Known(names[i]) THEN Append(found[i - 1], names[i]) ELSE found[i - 1]
      BY <1>8, <2>1
    <3>2. QED
      BY <3>1, <2>3, <1>4
  <2>4. QED
    BY <2>2, <2>3
<1>11. found[n] = g[n]
  BY ONLY <1>1, <1>2, <1>6, <1>10, IteratesAgree
<1>12. QED
  BY <1>6, <1>9, <1>11 DEF n, G, A

\* All names it finds have a feature, and there are no more of them than names.
LEMMA FoundIsKnown ==
    ASSUME NEW names \in Seq(ConfNames)
    PROVE  Found(names) \in Seq(KnownNames) /\ Len(Found(names)) <= Len(names)
<1> DEFINE n == Len(names)
<1>1. n \in Nat
  BY LenProperties
<1>2. PICK g \in [0 .. n -> Seq(KnownNames)] : /\ Iterates(g, n, << >>, Filters(names))
                                               /\ Found(names) = g[n]
  BY FoundIterates
<1> DEFINE Longer == {k \in 0 .. n : ~ Len(g[k]) <= k}
<1>3. ASSUME Longer # {} PROVE FALSE
  <2>1. PICK k \in Longer : \A m \in Longer : ~ (m < k)
    <3>1. Longer \in SUBSET Nat
      BY <1>1
    <3>2. QED
      BY ONLY <1>3, <3>1, LeastOfNat
  <2>2. k # 0
    BY <1>2, <2>1, EmptySeq DEF Iterates
  <2>3. k \in 1 .. n /\ k - 1 \in 0 .. n /\ k - 1 < k
    BY <1>1, <2>1, <2>2
  <2> DEFINE s == g[k - 1]
  <2>4. s \in Seq(KnownNames) /\ Len(s) <= k - 1 /\ g[k] = Filters(names)[k][s]
    BY <1>2, <2>1, <2>3 DEF Iterates
  <2> HIDE DEF s
  <2>5. g[k] = IF Known(names[k]) THEN Append(s, names[k]) ELSE s
    BY <2>3, <2>4 DEF Filters
  <2>6. Len(s) \in Nat /\ Known(names[k]) => Len(Append(s, names[k])) = Len(s) + 1
    <3>1. names[k] \in ConfNames
      BY <2>3, ElementOfSeq
    <3>2. Known(names[k]) => names[k] \in KnownNames
      BY <3>1 DEF KnownNames
    <3>3. QED
      BY <2>4, <3>2, AppendProperties
  <2>7. Len(g[k]) <= k
    BY <2>3, <2>4, <2>5, <2>6, LenProperties
  <2>8. QED
    BY <2>1, <2>7
<1>4. QED
  BY <1>1, <1>2, <1>3

\* What GetFeature puts into a field that the pattern of the feature names, or does not.
LEMMA NumberOfField ==
    ASSUME NEW name \in KnownNames, NEW d \in {"port_num", "payload_type", "src_ipv4"}
    PROVE  /\ \A k \in DOMAIN Fields(name.feature) :
                 (\A i \in DOMAIN Fields(name.feature) : Fields(name.feature)[i] = d <=> i = k)
                     => GetFeature(name)[d] = Number(name, k)
           /\ (\A i \in DOMAIN Fields(name.feature) : Fields(name.feature)[i] # d)
                  => GetFeature(name)[d] = 0
<1> DEFINE fields == Fields(name.feature)
<1>1. DOMAIN Item(name.feature) = {"feature", "port_num", "payload_type", "src_ipv4"} /\ Item(name.feature)[d] = 0
  BY DEF Item
<1>2. GetFeature(name)[d] = IF name.args # << >> /\ \E i \in DOMAIN fields : fields[i] = d
                            THEN name.args[CHOOSE i \in DOMAIN fields : fields[i] = d]
                            ELSE 0
  BY <1>1 DEF GetFeature
<1>3. name.args \in Seq(Nat) /\ (name.args # << >> => Len(fields) <= Len(name.args))
  BY DEF KnownNames, Known, ConfNames
<1>4. /\ DOMAIN fields = 1 .. Len(fields) /\ DOMAIN name.args = 1 .. Len(name.args)
      /\ Len(fields) \in Nat /\ Len(name.args) \in Nat
  <2>1. fields \in {<< >>, <<"port_num">>, <<"payload_type">>, <<"src_ipv4">>, <<"port_num", "payload_type">>}
    BY DEF Fields
  <2>2. DOMAIN fields = 1 .. Len(fields) /\ Len(fields) \in Nat
    BY <2>1
  <2>3. QED
    BY <1>3, <2>2, LenProperties
<1> HIDE DEF fields
<1>5. ASSUME NEW k \in DOMAIN fields, \A i \in DOMAIN fields : fields[i] = d <=> i = k
      PROVE  GetFeature(name)[d] = Number(name, k)
  <2>1. fields[k] = d /\ (CHOOSE i \in DOMAIN fields : fields[i] = d) = k
    BY <1>5
  <2>2. CASE name.args = << >>
    <3>1. k \notin DOMAIN name.args
      BY <2>2
    <3>2. QED
      BY <1>2, <2>2, <3>1 DEF Number
  <2>3. CASE name.args # << >>
    <3>1. k \in DOMAIN name.args
      BY <1>3, <1>4, <2>3
    <3>2. QED
      BY <1>2, <2>1, <2>3, <3>1 DEF Number
  <2>4. QED
    BY <2>2, <2>3
<1>6. QED
  BY <1>2, <1>5 DEF fields

\* The container of a name has the numbers of the name where its evaluator looks for
\* them, but for RTP_PACKETS_X and RTP_BYTES_X, whose evaluators find a zero.
LEMMA ContainerHasNumbers ==
    ASSUME NEW name \in KnownNames
    PROVE  LET f == name.feature
               e == GetFeature(name)
           IN  /\ f \in Features /\ e.feature = f /\ AsTaken(name).feature = f
               /\ f.side \in {"src", "dst"} => e.port_num = Number(AsTaken(name), 1)
               /\ f.side = "from" => e.src_ipv4 = Number(AsTaken(name), 1)
               /\ f.proto = "rtp" =>
                     e.payload_type = Number(AsTaken(name), IF f.side = "any" THEN 1 ELSE 2)
<1> DEFINE f == name.feature
           e == GetFeature(name)
           fields == Fields(f)
<1>1. f \in Features /\ e.feature = f
  <2>1. \A i \in DOMAIN fields : fields[i] # "feature"
    BY DEF Fields
  <2>2. DOMAIN Item(f) = {"feature", "port_num", "payload_type", "src_ipv4"} /\ Item(f)["feature"] = f
    BY DEF Item
  <2> HIDE DEF fields
  <2>3. e["feature"] = f
    BY <2>1, <2>2 DEF GetFeature, fields
  <2>4. QED
    BY <2>3 DEF KnownNames, Known
<1>2. /\ AsTaken(name).feature = f
      /\ AsTaken(name).args = IF Unheeded(name) THEN << >> ELSE name.args
  BY DEF AsTaken, KnownNames, ConfNames
<1>3. /\ ~ Unheeded(name) => \A i : Number(AsTaken(name), i) = Number(name, i)
      /\ Unheeded(name) => Number(AsTaken(name), 1) = 0
  <2>1. 1 \notin DOMAIN << >>
    OBVIOUS
  <2>2. QED
    BY <1>2, <2>1 DEF Number
<1>4. ASSUME NEW d \in {"port_num", "payload_type", "src_ipv4"}
      PROVE  /\ \A k \in DOMAIN fields : (\A i \in DOMAIN fields : fields[i] = d <=> i = k)
                     => e[d] = Number(name, k)
             /\ (\A i \in DOMAIN fields : fields[i] # d) => e[d] = 0
  BY NumberOfField
<1> HIDE DEF e
<1>5. ASSUME f.side \in {"src", "dst"} PROVE e.port_num = Number(AsTaken(name), 1)
  <2>1. ~ Unheeded(name)
    BY <1>5 DEF Unheeded
  <2>2. 1 \in DOMAIN fields /\ \A i \in DOMAIN fields : fields[i] = "port_num" <=> i = 1
    BY <1>5 DEF Fields
  <2>3. QED
    BY <1>3, <1>4, <2>1, <2>2
<1>6. ASSUME f.side = "from" PROVE e.src_ipv4 = Number(AsTaken(name), 1)
  <2>1. ~ Unheeded(name)
    BY <1>6 DEF Unheeded
  <2>2. 1 \in DOMAIN fields /\ \A i \in DOMAIN fields : fields[i] = "src_ipv4" <=> i = 1
    BY <1>6 DEF Fields
  <2>3. QED
    BY <1>3, <1>4, <2>1, <2>2
<1>7. ASSUME f.proto = "rtp", f.side # "any"
      PROVE  e.payload_type = Number(AsTaken(name), 2)
  <2>1. f.side \in {"src", "dst"} /\ ~ Unheeded(name)
    BY <1>1, <1>7 DEF Features, Unheeded
  <2>2. 2 \in DOMAIN fields /\ \A i \in DOMAIN fields : fields[i] = "payload_type" <=> i = 2
    BY <1>7, <2>1 DEF Fields
  <2>3. QED
    BY <1>3, <1>4, <2>1, <2>2
<1>8. ASSUME f.proto = "rtp", f.side = "any", ~ Unheeded(name)
      PROVE  e.payload_type = Number(AsTaken(name), 1)
  <2>1. 1 \in DOMAIN fields /\ \A i \in DOMAIN fields : fields[i] = "payload_type" <=> i = 1
    BY <1>8 DEF Fields, Unheeded
  <2>2. QED
    BY <1>3, <1>4, <1>8, <2>1
<1>9. ASSUME Unheeded(name) PROVE e.payload_type = Number(AsTaken(name), 1)
  <2>1. \A i \in DOMAIN fields : fields[i] # "payload_type"
    BY <1>9 DEF Fields, Unheeded
  <2>2. QED
    BY <1>3, <1>4, <1>9, <2>1
<1>10. QED
  BY <1>1, <1>2, <1>5, <1>6, <1>7, <1>8, <1>9 DEF e

\* After its test an evaluator finds in the sniff_t what the packet is worth under the
\* name it was installed for, whichever evaluators came before.
LEMMA ValueIsWorth ==
    ASSUME NEW name \in KnownNames, NEW s \in Sniffs, Agrees(s)
    PROVE  Value(GetFeature(name), Test(name.feature, s)) = Worth(AsTaken(name), s.packet)
<1> DEFINE f == name.feature
           e == GetFeature(name)
           t == Test(f, s)
           p == s.packet
           n == AsTaken(name)
<1>1. /\ f \in Features /\ e.feature = f /\ n.feature = f
      /\ f.side \in {"src", "dst"} => e.port_num = Number(n, 1)
      /\ f.side = "from" => e.src_ipv4 = Number(n, 1)
      /\ f.proto = "rtp" => e.payload_type = Number(n, IF f.side = "any" THEN 1 ELSE 2)
  BY ContainerHasNumbers
<1>2. /\ t \in Sniffs /\ Agrees(t) /\ t.packet = p
      /\ f.proto = "ip" => t.is_ip # "undefined"
      /\ f.proto = "tcp" => t.is_tcp # "undefined"
      /\ f.proto = "udp" => t.is_udp # "undefined"
      /\ f.proto = "rtp" => \/ t.is_udp = "true"
                            \/ t.is_tcp # "undefined" /\ ~ (p.ihl /\ p.proto = "udp")
  BY TestAgrees
<1> HIDE DEF e, t, n
<1>3. p \in PacketType
  BY ConstantsAssumption DEF Sniffs, PacketType
<1>4. f.proto \in {"ip", "tcp", "udp", "rtp"} /\ f.side \in {"any", "from", "src", "dst"}
      /\ (f.side = "from" => f.proto = "ip") /\ (f.proto = "ip" => f.side \in {"any", "from"})
  BY <1>1 DEF Features
<1>5. Counts(e, t) <=> AsksFor(n, p)
  <2>1. CASE f.proto = "ip"
    BY <1>1, <1>2, <1>3, <1>4, <2>1 DEF Counts, AsksFor, Agrees, Sniffs, Verdicts, PacketType
  <2>2. CASE f.proto = "tcp"
    BY <1>1, <1>2, <1>3, <1>4, <2>2 DEF Counts, AsksFor, Agrees, Sniffs, Verdicts, PacketType
  <2>3. CASE f.proto = "udp"
    BY <1>1, <1>2, <1>3, <1>4, <2>3 DEF Counts, AsksFor, Agrees, Sniffs, Verdicts, PacketType
  <2>4. CASE f.proto = "rtp"
    BY <1>1, <1>2, <1>3, <1>4, <2>4 DEF Counts, AsksFor, Agrees, Sniffs, Verdicts, PacketType
  <2>5. QED
    BY <1>4, <2>1, <2>2, <2>3, <2>4
<1>6. Counts(e, t) => t.ip_len = p.len
  BY <1>1, <1>2, <1>4 DEF Counts, Agrees
<1>7. QED
  BY <1>1, <1>5, <1>6 DEF Value, Worth, e, t, n
-----------------------------------------------------------------------------
(***************************************************************************)
(* The invariant: what is installed, what was copied, what was measured.   *)
(***************************************************************************)

Containers == {GetFeature(name) : name \in KnownNames}

\* The evaluators that a section with these names installs.
Items(names) == [i \in DOMAIN Found(names) |-> GetFeature(Found(names)[i])]

StartsWith(s, t) == Len(t) <= Len(s) /\ \A i \in 1 .. Len(t) : s[i] = t[i]

Configured ==
    /\ conf \in Confs
    /\ loaded \in 0 .. ListenerNum
    /\ installed = [l \in Listeners |-> IF l < loaded THEN Items(conf[l]) ELSE << >>]

\* A list that was copied for a listener starts with what is installed for it; no more
\* is behind that unless a later copy was appended.
Copied ==
    /\ started \in 0 .. ListenerNum
    /\ started > 0 => loaded = ListenerNum
    /\ lists \in Seq(Seq(Containers))
    /\ evaluators \in [Listeners -> 0 .. Len(lists)]
    /\ own \in [Listeners -> BOOLEAN]
    /\ prolonged \subseteq DOMAIN lists
    /\ \A l \in Listeners : started <= l => evaluators[l] = 0
    /\ \A l \in Listeners : l < started /\ own[l] =>
          /\ StartsWith(ListOf(l), Items(conf[l]))
          /\ evaluators[l] \notin prolonged => Len(ListOf(l)) = Len(Items(conf[l]))

\* What the record of listener l has so far is what its packet is worth.
RecordIsWorth(l) ==
    \A i \in 1 .. Len(record[l]) : i <= Len(Found(conf[l])) =>
        record[l][i] = Worth(AsTaken(Found(conf[l])[i]), sniff[l].packet)

Measured ==
    /\ captured \in 0 .. MaxPackets
    /\ record \in [Listeners -> Seq(Word)]
    /\ seen \in [Listeners -> Seq(Packets)]
    /\ column = [l \in Listeners |-> column[l]]
    /\ \A l \in Listeners : column[l] \in [DOMAIN conf[l] -> Word]
    /\ \A l \in Listeners : sniff[l] # NoSniff =>
          /\ started = ListenerNum
          /\ Len(record[l]) <= Len(ListOf(l))
          /\ own[l] => RecordIsWorth(l)
    /\ ColumnsCountWhatTheyName

IInv == SniffInv /\ Configured /\ Copied /\ Measured

LEMMA Constants ==
    /\ ListenerNum \in Nat \ {0} /\ MaxPackets \in Nat
    /\ Listeners = 0 .. ListenerNum - 1
    /\ 0 \in Word /\ 1 \in Word
    /\ \A c \in Confs : \A l \in Listeners : c[l] \in Seq(ConfNames)
BY ConstantsAssumption DEF Listeners, Word

LEMMA ItemsOfNames ==
    ASSUME NEW names \in Seq(ConfNames)
    PROVE  /\ Found(names) \in Seq(KnownNames)
           /\ Len(Found(names)) \in Nat /\ DOMAIN Found(names) = 1 .. Len(Found(names))
           /\ Len(Found(names)) <= Len(names) /\ DOMAIN names = 1 .. Len(names) /\ Len(names) \in Nat
           /\ DOMAIN Found(names) \subseteq DOMAIN names
           /\ Items(names) \in Seq(Containers) /\ Len(Items(names)) = Len(Found(names))
           /\ \A i \in DOMAIN Found(names) : /\ Found(names)[i] \in KnownNames
                                             /\ Items(names)[i] = GetFeature(Found(names)[i])
<1> DEFINE found == Found(names)
<1>1. found \in Seq(KnownNames) /\ Len(found) <= Len(names)
  BY FoundIsKnown
<1>2. /\ Len(found) \in Nat /\ DOMAIN found = 1 .. Len(found)
      /\ Len(names) \in Nat /\ DOMAIN names = 1 .. Len(names)
  BY <1>1, LenProperties
<1>3. \A i \in DOMAIN found : found[i] \in KnownNames
  BY <1>1, <1>2, ElementOfSeq
<1>4. Items(names) \in [1 .. Len(found) -> Containers]
  BY <1>2, <1>3 DEF Items, Containers
<1> HIDE DEF found
<1>5. Items(names) \in Seq(Containers) /\ Len(Items(names)) = Len(found)
  <2>1. Items(names) \in Seq(Containers)
    BY <1>2, <1>4, IsASeq
  <2>2. DOMAIN Items(names) = 1 .. Len(found) /\ DOMAIN Items(names) = 1 .. Len(Items(names)) /\ Len(Items(names)) \in Nat
    BY <1>4, <2>1, LenProperties
  <2>3. /\ Len(found) # 0 => Len(found) \in 1 .. Len(Items(names))
        /\ Len(Items(names)) # 0 => Len(Items(names)) \in 1 .. Len(found)
    BY <1>2, <2>2
  <2>4. QED
    BY <1>2, <2>1, <2>2, <2>3
<1>6. QED
  BY <1>1, <1>2, <1>3, <1>5 DEF found, Items

LEMMA InitIInv == Init => IInv
<1> SUFFICES ASSUME Init PROVE IInv
  OBVIOUS
<1>1. SniffInv
  BY DEF Init, SniffInv, Inv, SniffIsFunction
<1>2. Configured
  BY Constants DEF Init, Configured
<1>3. Copied
  <2>1. << >> \in Seq(Seq(Containers)) /\ Len(<< >>) = 0
    BY EmptySeq
  <2>2. QED
    BY <2>1, Constants DEF Init, Copied
<1>4. Measured
  <2>1. << >> \in Seq(Packets) /\ << >> \in Seq(Word)
    BY EmptySeq
  <2>2. ColumnsCountWhatTheyName
    <3> SUFFICES ASSUME NEW l \in Listeners
                 PROVE  /\ \A i \in DOMAIN Found(conf[l]) :
                              column[l][i] = Sum(AsTaken(Found(conf[l])[i]), seen[l])
                        /\ \A i \in DOMAIN conf[l] : column[l][i] = 0
      BY DEF ColumnsCountWhatTheyName
    <3>1. DOMAIN Found(conf[l]) \subseteq DOMAIN conf[l]
      BY Constants, ItemsOfNames DEF Init
    <3>2. QED
      BY <3>1, SumOfNone DEF Init
  <2>3. QED
    BY <2>1, <2>2, Constants DEF Init, Measured
<1>5. QED
  BY <1>1, <1>2, <1>3, <1>4 DEF IInv

LEMMA LoadIInv == ASSUME IInv, Load PROVE IInv'
<1>1. SniffInv'
  BY DEF IInv, SniffInv, Inv, SniffIsFunction, Load
<1>2. Configured'
  <2>1. loaded < ListenerNum /\ loaded \in Listeners /\ loaded' = loaded + 1
    BY Constants DEF IInv, Configured, Load
  <2>2. installed' = [installed EXCEPT ![loaded] = Items(conf[loaded])]
    BY DEF Load, Items
  <2>3. installed = [l \in Listeners |-> IF l < loaded THEN Items(conf[l]) ELSE << >>]
    BY DEF IInv, Configured
  <2>4. ASSUME NEW l \in Listeners
        PROVE  (IF l = loaded THEN Items(conf[loaded]) ELSE installed[l])
                   = IF l < loaded + 1 THEN Items(conf[l]) ELSE << >>
    BY <2>1, <2>3, Constants
  <2>5. installed' = [l \in Listeners |-> IF l < loaded' THEN Items(conf[l]) ELSE << >>]
    BY <2>1, <2>2, <2>3, <2>4
  <2>6. conf' = conf /\ conf \in Confs /\ loaded' \in 0 .. ListenerNum
    BY <2>1, Constants DEF IInv, Configured, Load
  <2>7. QED
    BY <2>5, <2>6 DEF Configured
<1>3. Copied'
  BY Constants DEF IInv, Configured, Copied, Load, ListOf
<1>4. Measured'
  BY DEF IInv, Measured, Load, ListOf, RecordIsWorth, ColumnsCountWhatTheyName
<1>5. QED
  BY <1>1, <1>2, <1>3, <1>4 DEF IInv

\* One list more, or a list that grew at its end: what a listener's list starts with stays.
LEMMA ListsGrow ==
    ASSUME IInv, NEW l \in Listeners, l < started, own[l], own'[l],
           evaluators'[l] = evaluators[l], prolonged \subseteq prolonged', conf' = conf,
           lists' \in Seq(Seq(Containers)), Len(lists) <= Len(lists'),
           \A k \in 1 .. Len(lists) : \/ lists'[k] = lists[k]
                                      \/ /\ k \in prolonged'
                                         /\ \E items \in Seq(Containers) : lists'[k] = lists[k] \o items
    PROVE  /\ StartsWith(ListOf(l)', Items(conf'[l]))
           /\ evaluators'[l] \notin prolonged' => Len(ListOf(l)') = Len(Items(conf'[l]))
<1> DEFINE k == evaluators[l]
           t == Items(conf[l])
<1>1. /\ k \in 0 .. Len(lists) /\ lists \in Seq(Seq(Containers)) /\ Len(lists) \in Nat
      /\ StartsWith(ListOf(l), t) /\ (k \notin prolonged => Len(ListOf(l)) = Len(t))
  BY LenProperties DEF IInv, Copied
<1>2. t \in Seq(Containers) /\ Len(t) \in Nat
  BY Constants, ItemsOfNames, LenProperties DEF IInv, Configured
<1> HIDE DEF k, t
<1>3. CASE k = 0
  <2>1. ListOf(l)' = << >> /\ ListOf(l) = << >>
    BY <1>3 DEF ListOf, k
  <2>2. QED
    BY <1>1, <2>1 DEF k, t
<1>4. CASE k # 0
  <2>1. k \in 1 .. Len(lists) /\ lists[k] \in Seq(Containers) /\ Len(lists[k]) \in Nat
    BY <1>1, <1>4, ElementOfSeq, LenProperties
  <2>2. ListOf(l) = lists[k] /\ ListOf(l)' = lists'[k]
    BY <1>4 DEF ListOf, k
  <2>3. CASE lists'[k] = lists[k]
    BY <1>1, <2>2, <2>3 DEF k, t
  <2>4. ASSUME k \in prolonged', NEW items \in Seq(Containers), lists'[k] = lists[k] \o items
        PROVE  StartsWith(ListOf(l)', t)
    <3>1. /\ Len(lists[k] \o items) = Len(lists[k]) + Len(items) /\ Len(items) \in Nat
          /\ \A i \in 1 .. Len(lists[k]) : (lists[k] \o items)[i] = lists[k][i]
      BY <2>1, ConcatProperties, LenProperties
    <3>2. QED
      BY <1>1, <1>2, <2>1, <2>2, <2>4, <3>1 DEF StartsWith
  <2>5. QED
    BY <2>1, <2>3, <2>4 DEF k, t
<1>5. QED
  BY <1>3, <1>4

\* What Start does to the lists for listener l0, for which items are installed.
Grows(l0, items) ==
    /\ lists' \in Seq(Seq(Containers)) /\ Len(lists') \in Nat /\ DOMAIN lists' = 1 .. Len(lists')
    /\ Len(lists) <= Len(lists')
    /\ \A k \in 1 .. Len(lists) : \/ lists'[k] = lists[k]
                                  \/ /\ k \in prolonged'
                                     /\ \E more \in Seq(Containers) : lists'[k] = lists[k] \o more
    /\ prolonged \subseteq prolonged' /\ prolonged' \subseteq DOMAIN lists'
    /\ evaluators' \in [Listeners -> 0 .. Len(lists')]
    /\ own' \in [Listeners -> BOOLEAN]
    /\ \A l \in Listeners : l # l0 => evaluators'[l] = evaluators[l] /\ own'[l] = own[l]
    /\ own'[l0] => /\ own[l0]
                   /\ StartsWith(ListOf(l0)', items)
                   /\ Len(ListOf(l0)') = Len(items)

LEMMA StartIInv == ASSUME IInv, Start PROVE IInv'
<1> PICK l0 : l0 = started
  OBVIOUS
<1> PICK items : items = installed[l0]
  OBVIOUS
<1>1. /\ loaded = ListenerNum /\ l0 \in Listeners /\ started' = started + 1
      /\ UNCHANGED <<conf, installed, loaded, captured, sniff, record, column, seen>>
  BY Constants DEF IInv, Copied, Start
<1>2. SniffInv' /\ Configured'
  BY <1>1 DEF IInv, SniffInv, Inv, SniffIsFunction, Configured
<1>3. /\ items = Items(conf[l0]) /\ items \in Seq(Containers) /\ Len(items) \in Nat
      /\ evaluators[l0] = 0
  BY <1>1, Constants, ItemsOfNames, LenProperties DEF IInv, Configured, Copied
<1>4. /\ started \in 0 .. ListenerNum /\ lists \in Seq(Seq(Containers)) /\ Len(lists) \in Nat
      /\ DOMAIN lists = 1 .. Len(lists)
      /\ evaluators \in [Listeners -> 0 .. Len(lists)] /\ own \in [Listeners -> BOOLEAN]
      /\ prolonged \subseteq DOMAIN lists
      /\ \A l \in Listeners : started <= l => evaluators[l] = 0
  BY LenProperties DEF IInv, Copied
<1>5. Grows(l0, items)
  <2>1. CASE items = << >> /\ UNCHANGED <<lists, evaluators, own, prolonged>>
    <3>1. ListOf(l0)' = << >> /\ Len(items) = 0
      BY <1>1, <1>3, <2>1, EmptySeq DEF ListOf
    <3>3. StartsWith(ListOf(l0)', items)
      BY <2>1, <3>1 DEF StartsWith
    <3>4. QED
      BY <1>4, <2>1, <3>1, <3>3 DEF Grows
  <2>2. CASE /\ lists' = Append(lists, items)
             /\ evaluators' = [evaluators EXCEPT ![l0] = Len(lists) + 1]
             /\ UNCHANGED <<own, prolonged>>
    <3>1. /\ lists' \in Seq(Seq(Containers)) /\ Len(lists') = Len(lists) + 1
          /\ lists'[Len(lists) + 1] = items
          /\ \A k \in 1 .. Len(lists) : lists'[k] = lists[k]
      BY <1>3, <1>4, <2>2, AppendProperties
    <3>2. DOMAIN lists' = 1 .. Len(lists')
      BY <3>1, LenProperties
    <3>3. ListOf(l0)' = items
      BY <1>1, <1>4, <2>2, <3>1 DEF ListOf
    <3>4. StartsWith(ListOf(l0)', items)
      BY <1>3, <3>3 DEF StartsWith
    <3>5. /\ evaluators' \in [Listeners -> 0 .. Len(lists')]
          /\ \A l \in Listeners : l # l0 => evaluators'[l] = evaluators[l]
      <4>1. Len(lists) + 1 \in 0 .. Len(lists') /\ evaluators \in [Listeners -> 0 .. Len(lists')]
        BY <1>4, <3>1
      <4>2. QED
        BY <2>2, <4>1
    <3>6. QED
      BY <1>4, <2>2, <3>1, <3>2, <3>3, <3>4, <3>5 DEF Grows
  <2>3. ASSUME NEW head \in DOMAIN lists,
               lists' = [lists EXCEPT ![head] = @ \o items],
               evaluators' = [evaluators EXCEPT ![l0] = head],
               prolonged' = prolonged \cup {head},
               own' = [own EXCEPT ![l0] = FALSE]
        PROVE  Grows(l0, items)
    <3>1. lists[head] \in Seq(Containers) /\ lists[head] \o items \in Seq(Containers)
      BY <1>3, <1>4, ElementOfSeq, ConcatProperties
    <3>2. lists' \in Seq(Seq(Containers)) /\ Len(lists') = Len(lists)
      BY <1>4, <2>3, <3>1, ExceptSeq
    <3>3. DOMAIN lists' = 1 .. Len(lists')
      BY <3>2, LenProperties
    <3>4. \A k \in 1 .. Len(lists) : k # head => lists'[k] = lists[k]
      BY <1>4, <2>3
    <3>5. lists'[head] = lists[head] \o items
      BY <1>4, <2>3
    <3>6. /\ own' \in [Listeners -> BOOLEAN] /\ ~ own'[l0]
          /\ \A l \in Listeners : l # l0 => own'[l] = own[l]
      BY <1>1, <1>4, <2>3
    <3>7. /\ evaluators' \in [Listeners -> 0 .. Len(lists')]
          /\ \A l \in Listeners : l # l0 => evaluators'[l] = evaluators[l]
      <4>1. head \in 0 .. Len(lists') /\ evaluators \in [Listeners -> 0 .. Len(lists')]
        BY <1>4, <2>3, <3>2
      <4>2. QED
        BY <2>3, <4>1
    <3>8. \A k \in 1 .. Len(lists) : \/ lists'[k] = lists[k]
                                     \/ /\ k \in prolonged'
                                        /\ \E more \in Seq(Containers) : lists'[k] = lists[k] \o more
      BY <1>3, <2>3, <3>4, <3>5
    <3>9. Len(lists') \in Nat /\ Len(lists) <= Len(lists') /\ prolonged \subseteq prolonged' /\ prolonged' \subseteq DOMAIN lists'
      BY <1>4, <2>3, <3>2, <3>3
    <3>10. QED
      BY <3>2, <3>3, <3>6, <3>7, <3>8, <3>9 DEF Grows
  <2>4. QED
    BY <2>1, <2>2, <2>3 DEF Start, slist_cpy
<1>6. Copied'
  <2>1. \A l \in Listeners : l # l0 => evaluators'[l] = evaluators[l] /\ own'[l] = own[l]
    BY <1>5 DEF Grows
  <2>3. started' \in 0 .. ListenerNum /\ started' > 0 /\ loaded' = ListenerNum
    BY <1>1, <1>4, Constants
  <2>4. ASSUME NEW l \in Listeners, started' <= l
        PROVE  evaluators'[l] = 0
    <3>1. l # l0 /\ started <= l
      BY <1>1, <1>4, <2>4, Constants
    <3>2. QED
      BY <1>4, <2>1, <3>1
  <2>5. ASSUME NEW l \in Listeners, l < started', own'[l]
        PROVE  /\ StartsWith(ListOf(l)', Items(conf'[l]))
               /\ evaluators'[l] \notin prolonged' => Len(ListOf(l)') = Len(Items(conf'[l]))
    <3>1. CASE l = l0
      BY <1>1, <1>3, <1>5, <2>5, <3>1 DEF Grows
    <3>2. CASE l # l0
      <4>1. l < started /\ own[l] /\ evaluators'[l] = evaluators[l] /\ conf' = conf
        BY <1>1, <1>4, <2>1, <2>5, <3>2, Constants
      <4>2. QED
        BY <1>5, <2>5, <4>1, ListsGrow DEF Grows
    <3>3. QED
      BY <3>1, <3>2
  <2>6. QED
    BY <1>5, <2>3, <2>4, <2>5 DEF Copied, Grows
<1>7. Measured'
  <2>1. \A l \in Listeners : sniff[l] = NoSniff
    BY <1>1, Constants DEF IInv, Measured
  <2>2. ColumnsCountWhatTheyName'
    <3> SUFFICES ASSUME NEW l \in Listeners, own'[l]
                 PROVE  /\ \A i \in DOMAIN Found(conf'[l]) :
                              column'[l][i] = Sum(AsTaken(Found(conf'[l])[i]), seen'[l])
                        /\ evaluators'[l] \notin prolonged' =>
                             \A i \in DOMAIN conf'[l] : i > Len(Found(conf'[l])) => column'[l][i] = 0
      BY DEF ColumnsCountWhatTheyName
    <3>1. own[l]
      BY <1>1, <1>4, <1>5 DEF Grows
    <3>2. evaluators'[l] \notin prolonged' => evaluators[l] \notin prolonged
      BY <1>1, <1>3, <1>4, <1>5 DEF Grows
    <3>3. QED
      BY <1>1, <3>1, <3>2 DEF IInv, Measured, ColumnsCountWhatTheyName
  <2>3. QED
    BY <1>1, <2>1, <2>2 DEF IInv, Measured
<1>8. QED
  BY <1>2, <1>6, <1>7 DEF IInv

\* Whoever has a packet runs after all lists were copied.
LEMMA MeasuringFacts ==
    ASSUME IInv, NEW l \in Listeners, sniff[l] # NoSniff
    PROVE  /\ sniff[l] \in Sniffs /\ Agrees(sniff[l])
           /\ record[l] \in Seq(Word) /\ Len(record[l]) \in Nat /\ DOMAIN record[l] = 1 .. Len(record[l])
           /\ ListOf(l) \in Seq(Containers) /\ Len(ListOf(l)) \in Nat
           /\ own[l] => /\ StartsWith(ListOf(l), Items(conf[l]))
                        /\ evaluators[l] \notin prolonged => Len(ListOf(l)) = Len(Items(conf[l]))
           /\ conf[l] \in Seq(ConfNames)
<1>1. sniff[l] \in Sniffs /\ Agrees(sniff[l]) /\ l < started
  BY Constants DEF IInv, SniffInv, Inv, Measured
<1>2. record[l] \in Seq(Word) /\ conf[l] \in Seq(ConfNames)
  BY Constants DEF IInv, Measured, Configured
<1>3. ListOf(l) \in Seq(Containers)
  <2>1. evaluators[l] \in 0 .. Len(lists) /\ lists \in Seq(Seq(Containers)) /\ Len(lists) \in Nat
    BY LenProperties DEF IInv, Copied
  <2>2. evaluators[l] # 0 => lists[evaluators[l]] \in Seq(Containers)
    BY <2>1, ElementOfSeq
  <2>3. QED
    BY <2>2, EmptySeq DEF ListOf
<1>4. QED
  BY <1>1, <1>2, <1>3, LenProperties DEF IInv, Copied

LEMMA CaptureIInv == ASSUME IInv, NEW l \in Listeners, Capture(l) PROVE IInv'
<1>1. PICK p \in Packets : sniff' = [sniff EXCEPT ![l] = FreshSniff(p)]
  BY DEF Capture
<1>2. SniffInv'
  BY <1>1, FreshAgrees DEF IInv, SniffInv, Inv, SniffIsFunction
<1>3. Configured' /\ Copied'
  BY DEF IInv, Configured, Copied, Capture, ListOf
<1>4. Measured'
  <2>1. << >> \in Seq(Word) /\ Len(<< >>) = 0
    BY EmptySeq
  <2>2. record' = [record EXCEPT ![l] = << >>] /\ captured' \in 0 .. MaxPackets /\ started = ListenerNum
    BY Constants DEF IInv, Measured, Capture, Idle
  <2>3. ASSUME NEW k \in Listeners, sniff'[k] # NoSniff
        PROVE  /\ started' = ListenerNum
               /\ Len(record'[k]) <= Len(ListOf(k)')
               /\ own'[k] => RecordIsWorth(k)'
    <3>1. ListOf(k)' = ListOf(k) /\ ListOf(k) \in Seq(Containers) /\ Len(ListOf(k)) \in Nat
      <4>1. evaluators[k] \in 0 .. Len(lists) /\ lists \in Seq(Seq(Containers)) /\ Len(lists) \in Nat
        BY LenProperties DEF IInv, Copied
      <4>2. evaluators[k] # 0 => lists[evaluators[k]] \in Seq(Containers)
        BY <4>1, ElementOfSeq
      <4>3. ListOf(k) \in Seq(Containers)
        BY <4>2, EmptySeq DEF ListOf
      <4>4. QED
        BY <4>3, LenProperties DEF Capture, ListOf
    <3>2. CASE k = l
      BY <2>1, <2>2, <3>1, <3>2 DEF Capture, RecordIsWorth, IInv, Measured
    <3>3. CASE k # l
      BY <1>1, <2>2, <2>3, <3>1, <3>3 DEF Capture, RecordIsWorth, IInv, Measured, SniffInv, SniffIsFunction
    <3>4. QED
      BY <3>2, <3>3
  <2>4. record' \in [Listeners -> Seq(Word)]
    BY <2>1, <2>2 DEF IInv, Measured
  <2>5. ColumnsCountWhatTheyName'
    BY DEF IInv, Measured, Capture, ColumnsCountWhatTheyName
  <2>6. QED
    BY <2>2, <2>3, <2>4, <2>5 DEF IInv, Measured, Capture
<1>5. QED
  BY <1>2, <1>3, <1>4 DEF IInv

LEMMA EvaluateIInv == ASSUME IInv, NEW l \in Listeners, Evaluate(l) PROVE IInv'
<1> DEFINE k == Len(record[l])
           e == ListOf(l)[k + 1]
           s == sniff[l]
           t == Test(e.feature, s)
<1>1. /\ s \in Sniffs /\ Agrees(s) /\ record[l] \in Seq(Word) /\ k \in Nat
      /\ ListOf(l) \in Seq(Containers) /\ Len(ListOf(l)) \in Nat /\ conf[l] \in Seq(ConfNames)
      /\ own[l] => StartsWith(ListOf(l), Items(conf[l]))
  BY MeasuringFacts DEF Evaluate
<1>2. /\ k < Len(ListOf(l)) /\ s # NoSniff /\ started = ListenerNum
      /\ sniff' = [sniff EXCEPT ![l] = t]
      /\ record' = [record EXCEPT ![l] = Append(record[l], Value(e, t))]
  BY DEF Evaluate, IInv, Measured
<1>3. t \in Sniffs /\ Agrees(t) /\ t.packet = s.packet
  BY <1>1, TestAgrees
<1>4. Value(e, t) \in Word
  BY <1>3, Constants DEF Value, Sniffs
<1> DEFINE v == Value(e, t)
<1>5. /\ Append(record[l], v) \in Seq(Word) /\ Len(Append(record[l], v)) = k + 1
      /\ Append(record[l], v)[k + 1] = v
      /\ \A i \in 1 .. k : Append(record[l], v)[i] = record[l][i]
  BY <1>1, <1>4, AppendProperties
<1>6. SniffInv'
  BY <1>2, <1>3 DEF IInv, SniffInv, Inv, SniffIsFunction
<1>7. Configured' /\ Copied'
  BY DEF IInv, Configured, Copied, Evaluate, ListOf
<1>8. ASSUME own[l], k + 1 <= Len(Found(conf[l]))
      PROVE  v = Worth(AsTaken(Found(conf[l])[k + 1]), s.packet)
  <2>1. k + 1 \in DOMAIN Found(conf[l]) /\ Len(Items(conf[l])) = Len(Found(conf[l]))
    BY <1>1, <1>8, ItemsOfNames
  <2> DEFINE name == Found(conf[l])[k + 1]
  <2>2. name \in KnownNames /\ e = GetFeature(name)
    BY <1>1, <1>8, <2>1, ItemsOfNames DEF StartsWith
  <2>3. e.feature = name.feature
    BY <2>2, ContainerHasNumbers
  <2> HIDE DEF e, name, s
  <2>4. v = Value(GetFeature(name), Test(name.feature, s))
    BY <2>2, <2>3
  <2>5. QED
    BY <1>1, <2>2, <2>4, ValueIsWorth DEF name
<1>9. Measured'
  <2> HIDE DEF v, t, e
  <2>1. ASSUME NEW m \in Listeners, sniff'[m] # NoSniff
        PROVE  /\ started' = ListenerNum
               /\ Len(record'[m]) <= Len(ListOf(m)')
               /\ own'[m] => RecordIsWorth(m)'
    <3>1. ListOf(m)' = ListOf(m)
      BY DEF Evaluate, ListOf
    <3>2. CASE m = l
      <4>1. /\ record'[l] = Append(record[l], v) /\ sniff'[l].packet = s.packet
            /\ UNCHANGED <<own, conf, started>>
        BY <1>2, <1>3 DEF IInv, Measured, SniffInv, SniffIsFunction, Evaluate, v
      <4>2. own[l] => RecordIsWorth(l)
        BY <1>2 DEF IInv, Measured
      <4>3. own[l] => RecordIsWorth(l)'
        <5> SUFFICES ASSUME own[l], NEW i \in 1 .. k + 1, i <= Len(Found(conf[l]))
                     PROVE  Append(record[l], v)[i] = Worth(AsTaken(Found(conf[l])[i]), s.packet)
          BY <1>5, <4>1 DEF RecordIsWorth
        <5>1. CASE i = k + 1
          BY <1>5, <1>8, <5>1
        <5>2. CASE i # k + 1
          BY <1>1, <1>5, <4>2, <5>2 DEF RecordIsWorth
        <5>3. QED
          BY <5>1, <5>2
      <4>4. QED
        BY <1>1, <1>2, <1>5, <3>1, <3>2, <4>1, <4>3
    <3>3. CASE m # l
      BY <1>2, <2>1, <3>1, <3>3 DEF Evaluate, RecordIsWorth, IInv, Measured, SniffInv, SniffIsFunction
    <3>4. QED
      BY <3>2, <3>3
  <2>2. record' \in [Listeners -> Seq(Word)]
    BY <1>2, <1>5 DEF IInv, Measured, v
  <2>3. ColumnsCountWhatTheyName'
    BY DEF IInv, Measured, Evaluate, ColumnsCountWhatTheyName
  <2>4. QED
    BY <2>1, <2>2, <2>3 DEF IInv, Measured, Evaluate
<1>10. QED
  BY <1>6, <1>7, <1>9 DEF IInv

LEMMA SendIInv == ASSUME IInv, NEW l \in Listeners, Send(l) PROVE IInv'
<1> DEFINE n == Len(record[l])
           p == sniff[l].packet
           add(i) == IF i \in DOMAIN record[l] THEN Plus(column[l][i], record[l][i]) ELSE column[l][i]
<1>1. /\ sniff[l] \in Sniffs /\ record[l] \in Seq(Word) /\ n \in Nat /\ DOMAIN record[l] = 1 .. n
      /\ ListOf(l) \in Seq(Containers) /\ Len(ListOf(l)) \in Nat /\ conf[l] \in Seq(ConfNames)
      /\ own[l] => /\ StartsWith(ListOf(l), Items(conf[l]))
                   /\ evaluators[l] \notin prolonged => Len(ListOf(l)) = Len(Items(conf[l]))
  BY MeasuringFacts DEF Send
<1>2. /\ p \in Packets /\ n = Len(ListOf(l))
      /\ own[l] => RecordIsWorth(l)
  BY <1>1 DEF Send, Sniffs, IInv, Measured
<1>3. column[l] \in [DOMAIN conf[l] -> Word] /\ seen[l] \in Seq(Packets)
  BY DEF IInv, Measured
<1>4. /\ column' = [column EXCEPT ![l] = [i \in DOMAIN conf[l] |-> add(i)]]
      /\ seen' = [seen EXCEPT ![l] = Append(seen[l], p)]
      /\ sniff' = [sniff EXCEPT ![l] = NoSniff]
      /\ record' = [record EXCEPT ![l] = << >>]
      /\ UNCHANGED <<conf, installed, loaded, lists, evaluators, started, captured, own, prolonged>>
  BY <1>3 DEF Send, IInv, Measured
<1>5. \A i \in DOMAIN conf[l] : add(i) \in Word
  <2>1. \A a, b \in Word : Plus(a, b) \in Word
    BY ConstantsAssumption DEF Plus, Word
  <2>2. \A i \in DOMAIN record[l] : record[l][i] \in Word
    BY <1>1, ElementOfSeq
  <2>3. QED
    BY <1>3, <2>1, <2>2
<1> HIDE DEF add
<1>6. SniffInv'
  BY <1>4 DEF IInv, SniffInv, Inv, SniffIsFunction
<1>7. Configured' /\ Copied'
  BY <1>4 DEF IInv, Configured, Copied, ListOf
<1>8. ASSUME own[l], NEW i \in DOMAIN Found(conf[l])
      PROVE  /\ i \in DOMAIN conf[l]
             /\ add(i) = Sum(AsTaken(Found(conf[l])[i]), Append(seen[l], p))
  <2>1. /\ i \in 1 .. Len(Found(conf[l])) /\ i \in DOMAIN conf[l]
        /\ Len(Items(conf[l])) = Len(Found(conf[l])) /\ Len(Found(conf[l])) \in Nat
    BY <1>1, ItemsOfNames
  <2>2. i \in 1 .. n
    BY <1>1, <1>2, <1>8, <2>1 DEF StartsWith
  <2> DEFINE name == AsTaken(Found(conf[l])[i])
  <2>3. record[l][i] = Worth(name, p)
    BY <1>2, <1>8, <2>1, <2>2 DEF RecordIsWorth
  <2>4. column[l][i] = Sum(name, seen[l])
    BY <1>8 DEF IInv, Measured, ColumnsCountWhatTheyName
  <2> HIDE DEF name
  <2>5. add(i) = Plus(Sum(name, seen[l]), Worth(name, p))
    BY <1>1, <2>2, <2>3, <2>4 DEF add
  <2>6. Sum(name, Append(seen[l], p)) = Plus(Sum(name, seen[l]), Worth(name, p))
    BY <1>2, <1>3, SumOfAppend
  <2>7. QED
    BY <2>1, <2>5, <2>6 DEF name
<1>9. ASSUME own[l], evaluators[l] \notin prolonged, NEW i \in DOMAIN conf[l], i > Len(Found(conf[l]))
      PROVE  add(i) = 0
  <2>1. Len(Items(conf[l])) = Len(Found(conf[l])) /\ Len(Found(conf[l])) \in Nat
    BY <1>1, ItemsOfNames
  <2>2. i \notin DOMAIN record[l]
    BY <1>1, <1>2, <1>9, <2>1
  <2>3. column[l][i] = 0
    BY <1>9 DEF IInv, Measured, ColumnsCountWhatTheyName
  <2>4. QED
    BY <2>2, <2>3 DEF add
<1>10. ColumnsCountWhatTheyName'
  <2> SUFFICES ASSUME NEW m \in Listeners, own[m]
               PROVE  /\ \A i \in DOMAIN Found(conf[m]) :
                            column'[m][i] = Sum(AsTaken(Found(conf[m])[i]), seen'[m])
                      /\ evaluators[m] \notin prolonged =>
                           \A i \in DOMAIN conf[m] : i > Len(Found(conf[m])) => column'[m][i] = 0
    BY <1>4 DEF ColumnsCountWhatTheyName
  <2>1. CASE m = l
    <3>1. seen'[l] = Append(seen[l], p) /\ \A i \in DOMAIN conf[l] : column'[l][i] = add(i)
      BY <1>4 DEF IInv, Measured
    <3>2. QED
      BY <1>8, <1>9, <2>1, <3>1
  <2>2. CASE m # l
    BY <1>4, <2>2 DEF IInv, Measured, ColumnsCountWhatTheyName
  <2>3. QED
    BY <2>1, <2>2
<1>11. Measured'
  <2>1. /\ record' \in [Listeners -> Seq(Word)]
        /\ seen' \in [Listeners -> Seq(Packets)]
        /\ column' = [m \in Listeners |-> column'[m]]
        /\ \A m \in Listeners : column'[m] \in [DOMAIN conf[m] -> Word]
    <3>1. << >> \in Seq(Word) /\ Append(seen[l], p) \in Seq(Packets)
      BY <1>2, <1>3, EmptySeq, AppendProperties
    <3>2. record' \in [Listeners -> Seq(Word)] /\ seen' \in [Listeners -> Seq(Packets)]
      BY <1>4, <3>1 DEF IInv, Measured
    <3>3. [i \in DOMAIN conf[l] |-> add(i)] \in [DOMAIN conf[l] -> Word]
      BY <1>5
    <3> DEFINE new == [i \in DOMAIN conf[l] |-> add(i)]
    <3> HIDE DEF new
    <3>4. column' = [m \in Listeners |-> column'[m]] /\ \A m \in Listeners : column'[m] \in [DOMAIN conf[m] -> Word]
      BY <1>4, <3>3 DEF IInv, Measured, new
    <3>5. QED
      BY <3>2, <3>4
  <2>2. ASSUME NEW m \in Listeners, sniff'[m] # NoSniff
        PROVE  /\ started' = ListenerNum
               /\ Len(record'[m]) <= Len(ListOf(m)')
               /\ own'[m] => RecordIsWorth(m)'
    <3>1. m # l
      BY <1>4, <2>2 DEF IInv, SniffInv, SniffIsFunction
    <3>2. QED
      BY <1>4, <2>2, <3>1 DEF ListOf, RecordIsWorth, IInv, Measured, SniffInv, SniffIsFunction
  <2>3. QED
    BY <1>4, <1>10, <2>1, <2>2 DEF IInv, Measured
<1>12. QED
  BY <1>6, <1>7, <1>11 DEF IInv

LEMMA NextIInv == IInv /\ [Next]_vars => IInv'
<1> SUFFICES ASSUME IInv, [Next]_vars PROVE IInv'
  OBVIOUS
<1>1. ASSUME UNCHANGED vars PROVE IInv'
  BY <1>1 DEF vars, IInv, SniffInv, Inv, SniffIsFunction, Configured, Copied, Measured, ListOf,
     RecordIsWorth, ColumnsCountWhatTheyName
<1>2. QED
  BY <1>1, LoadIInv, StartIInv, CaptureIInv, EvaluateIInv, SendIInv DEF Next, Impulse

LEMMA Invariance == Spec => []IInv
BY InitIInv, NextIInv, PTL DEF Spec

\* In every order in which evaluators can ask for the headers of a packet, what
\* sniff_t remembers is true of it: it is never both TCP and UDP, never either
\* without an IP header, and its ports and payload are those of its transport.
THEOREM VerdictsAreTrue == Spec => []VerdictsAgree
<1>1. IInv => VerdictsAgree
  BY DEF IInv, SniffInv, Inv, Agrees, VerdictsAgree
<1>2. QED
  BY <1>1, Invariance, PTL

\* For any configuration and any packets the columns of a listener are, from the first
\* one on, what its names with a feature ask for, whichever evaluators ran before and
\* whatever list slist_cpy left behind, and every field keeps its type.
THEOREM ColumnsAreWhatTheyName == Spec => []TypesAndColumns
<1>1. IInv => TypeOK
  <2> SUFFICES ASSUME IInv PROVE TypeOK
    OBVIOUS
  <2>1. ASSUME NEW l \in Listeners
        PROVE  /\ evaluators[l] \in 0 .. Len(lists)
               /\ Len(installed[l]) <= Len(conf[l])
               /\ sniff[l] \in Sniffs \cup {NoSniff}
               /\ record[l] \in Seq(Word)
               /\ column[l] \in [DOMAIN conf[l] -> Word]
               /\ seen[l] \in Seq(Packets)
               /\ own[l] \in BOOLEAN
    <3>1. conf[l] \in Seq(ConfNames)
      BY Constants DEF IInv, Configured
    <3>2. Len(installed[l]) <= Len(conf[l])
      <4>1. installed[l] = IF l < loaded THEN Items(conf[l]) ELSE << >>
        BY DEF IInv, Configured
      <4>2. Len(Items(conf[l])) <= Len(conf[l]) /\ Len(<< >>) = 0 /\ Len(conf[l]) \in Nat
        BY <3>1, ItemsOfNames, EmptySeq
      <4>3. QED
        BY <4>1, <4>2
    <3>3. QED
      BY <3>2 DEF IInv, SniffInv, Inv, Copied, Measured
  <2>2. QED
    BY <2>1 DEF IInv, Configured, Copied, Measured, TypeOK
<1>2. IInv => TypesAndColumns
  BY <1>1 DEF IInv, Measured, TypesAndColumns
<1>3. QED
  BY <1>2, Invariance, PTL
=============================================================================
