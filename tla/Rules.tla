--------------------------------- MODULE Rules ---------------------------------
(***************************************************************************)
(* A rule derived from a filter (IptablesRule, filterexpr.h), and which    *)
(* packets iptables finds it to hit.  Packets are those iptables shows.    *)
(***************************************************************************)
EXTENDS Integers

CONSTANT MaxRules  \* MAX_DERIVED_RULES

ASSUME RulesAssumption == MaxRules \in Nat \ {0, 1}

\* A rule keeps the fields its match string is spelled from; -1, and 0 for
\* protocol and addresses, stand for a term that is left out.
Rule ==
  [family : {"v4", "v6"}, chains : SUBSET {"OUTPUT", "INPUT"}, proto : Nat,
   dport : Int, sport : Int, src : Nat, dst : Nat]

\* Ports are there if the packet is TCP or UDP and its header is not cut off.
HasPorts(p) == p.proto \in {6, 17} /\ ~p.fragment

\* A packet one of these rules selects in its table (iptables: all terms match).
Selects(r, p) ==
  /\ r.proto = 0 \/ p.proto = r.proto
  /\ r.dport = -1 \/ (HasPorts(p) /\ p.dport = r.dport)
  /\ r.sport = -1 \/ (HasPorts(p) /\ p.sport = r.sport)
  /\ r.src = 0 \/ p.src = r.src
  /\ r.dst = 0 \/ p.dst = r.dst
================================================================================
