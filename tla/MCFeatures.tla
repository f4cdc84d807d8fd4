----------------------------- MODULE MCFeatures -----------------------------
(***************************************************************************)
(* Features with two sections.  The first one names any feature, with two  *)
(* numbers, with none or with one too few, and before or after it one that *)
(* finds out about the packet in another order or that does not exist; the *)
(* second section names a third, or none that exists.  The packets differ  *)
(* from the first of them in one or two of the fields a feature looks at.  *)
(***************************************************************************)
EXTENDS Features

Port == 1
Type == 2
Host == 1

UdpBytes == [feature |-> [proto |-> "udp", side |-> "dst", unit |-> "bytes"], args |-> <<Port>>]
TcpPackets == [feature |-> [proto |-> "tcp", side |-> "any", unit |-> "packets"], args |-> << >>]
Unknown == [feature |-> [proto |-> "sctp", side |-> "any", unit |-> "packets"], args |-> << >>]

Names ==
    {[feature |-> f, args |-> <<Port, Type>>] : f \in Features}
    \cup {[feature |-> f, args |-> << >>] : f \in {g \in Features : g.side = "any"}}
    \cup {[feature |-> f, args |-> <<Port>>] : f \in {g \in Features : g.side = "src"}}

Sections(first, second) == [l \in 0 .. 1 |-> IF l = 0 THEN first ELSE second]

MCConfs ==
    {Sections(<<name, UdpBytes>>, <<TcpPackets>>) : name \in Names}
    \cup {Sections(<<Unknown, name>>, <<UdpBytes>>) : name \in Names}
    \cup {Sections(<<UdpBytes, Unknown>>, <<TcpPackets>>),
          Sections(<<Unknown>>, <<UdpBytes, TcpPackets>>), Sections(<<TcpPackets>>, <<Unknown>>)}

Datagram == [ihl |-> TRUE, proto |-> "udp", off |-> TRUE, src |-> Port, dst |-> Port,
             pt |-> Type, from |-> Host, len |-> 2]

MCPackets ==
    {Datagram,
     [Datagram EXCEPT !.src = 2, !.pt = 1],
     [Datagram EXCEPT !.dst = 0, !.from = 2, !.pt = 0],
     [Datagram EXCEPT !.ihl = FALSE],
     [Datagram EXCEPT !.proto = "tcp"],
     [Datagram EXCEPT !.proto = "tcp", !.off = FALSE],
     [Datagram EXCEPT !.proto = "icmp"]}
=============================================================================
