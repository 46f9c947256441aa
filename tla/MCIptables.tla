------------------------------ MODULE MCIptables ------------------------------
(* Small instances of Iptables for TLC.                                      *)
EXTENDS Iptables

MCWords ==
  {"(", ")", "and", "or", "not", "outbound", "tcp", "icmpv6", "tcp.DstPort >= 2"}

NegationWords == {"(", ")", "and", "not", "outbound", "tcp"}

\* ICMP is IPv4's and ICMPv6 IPv6's; only IPv4 shows fragments.
MCPackets ==
  {p \in [out : BOOLEAN, loop : {FALSE}, v6 : BOOLEAN, proto : {1, 6, 17, 58},
          fragment : BOOLEAN, sport : {1}, dport : {1, 2}, src : {1}, dst : {2}] :
     /\ p.proto = 1 => ~p.v6
     /\ p.proto = 58 => p.v6
     /\ p.fragment => ~p.v6}
==============================================================================
