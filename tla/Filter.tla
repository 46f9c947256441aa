-------------------------------- MODULE Filter --------------------------------
(***************************************************************************)
(* Filter expressions (filterexpr.cpp): the recursive-descent parser, the  *)
(* evaluation for one packet and the derivation of iptables rules.         *)
(*                                                                         *)
(* Abstractions.  A lexed expression is a sequence of words; a comparison  *)
(* "field op value" is one word, as parsePrimary takes its three tokens    *)
(* together or fails.  The node array is a tree.  Packets have complete    *)
(* headers, so that extractFields() ends with valid set.                   *)
(***************************************************************************)
EXTENDS Rules, Sequences, FiniteSets, SequencesExt

CONSTANTS
  BranchLimit,  \* SPLIT_BRANCH_LIMIT
  DepthLimit    \* the depth to which splitOr() descends

ASSUME FilterAssumption ==
  BranchLimit \in Nat \ {0} /\ DepthLimit \in Nat

------------------------------------------------------------------------------
(* Words.                                                                   *)

Keyword == {"true", "false", "outbound", "inbound", "loopback", "ip", "ipv6"}

\* Comparisons; a protocol keyword is one on ip.Protocol.
Comparison ==
  ("tcp" :> [field |-> "proto", op |-> "==", value |-> 6]) @@
  ("udp" :> [field |-> "proto", op |-> "==", value |-> 17]) @@
  ("icmp" :> [field |-> "proto", op |-> "==", value |-> 1]) @@
  ("icmpv6" :> [field |-> "proto", op |-> "==", value |-> 58]) @@
  ("ip.Protocol == 0" :> [field |-> "proto", op |-> "==", value |-> 0]) @@
  ("tcp.DstPort == 1" :> [field |-> "tcpDst", op |-> "==", value |-> 1]) @@
  ("tcp.SrcPort == 1" :> [field |-> "tcpSrc", op |-> "==", value |-> 1]) @@
  ("udp.DstPort == 1" :> [field |-> "udpDst", op |-> "==", value |-> 1]) @@
  ("udp.SrcPort == 1" :> [field |-> "udpSrc", op |-> "==", value |-> 1]) @@
  ("tcp.DstPort >= 2" :> [field |-> "tcpDst", op |-> ">=", value |-> 2]) @@
  ("ip.SrcAddr == 1" :> [field |-> "src", op |-> "==", value |-> 1]) @@
  ("ip.DstAddr == 0" :> [field |-> "dst", op |-> "==", value |-> 0])

Leaf == Keyword \cup DOMAIN Comparison
Mark == {"(", ")", "and", "or", "not"}

------------------------------------------------------------------------------
(* The parser.  A result is a tree and the position after it, 0 on error.   *)

Word(w) == [k |-> "word", w |-> w]
Not(e) == [k |-> "not", l |-> e]
Binary(k, l, r) == [k |-> k, l |-> l, r |-> r]

Failed == [node |-> Word("false"), next |-> 0]
At(ts, i) == IF i \in DOMAIN ts THEN ts[i] ELSE "end"

RECURSIVE ParseOr(_, _), OrTail(_, _), ParseAnd(_, _), AndTail(_, _), ParseNot(_, _)

OrTail(ts, left) ==
  IF left.next = 0 \/ At(ts, left.next) # "or" THEN left
  ELSE LET right == ParseAnd(ts, left.next + 1)
       IN IF right.next = 0 THEN Failed
          ELSE OrTail(ts, [node |-> Binary("or", left.node, right.node), next |-> right.next])

ParseOr(ts, i) == OrTail(ts, ParseAnd(ts, i))

\* Seeded fault: the operand of "and" is a whole or-expression.
AndTailLoose(ts, left) ==
  IF left.next = 0 \/ At(ts, left.next) # "and" THEN left
  ELSE LET right == ParseOr(ts, left.next + 1)
       IN IF right.next = 0 THEN Failed
          ELSE [node |-> Binary("and", left.node, right.node), next |-> right.next]

AndTail(ts, left) ==
  IF left.next = 0 \/ At(ts, left.next) # "and" THEN left
  ELSE LET right == ParseNot(ts, left.next + 1)
       IN IF right.next = 0 THEN Failed
          ELSE AndTail(ts, [node |-> Binary("and", left.node, right.node), next |-> right.next])

ParseAnd(ts, i) == AndTail(ts, ParseNot(ts, i))

ParsePrimary(ts, i) ==
  CASE At(ts, i) = "(" ->
         LET inner == ParseOr(ts, i + 1)
         IN IF inner.next = 0 \/ At(ts, inner.next) # ")" THEN Failed
            ELSE [inner EXCEPT !.next = @ + 1]
    [] At(ts, i) \in Leaf -> [node |-> Word(ts[i]), next |-> i + 1]
    [] OTHER -> Failed

ParseNot(ts, i) ==
  IF At(ts, i) # "not" THEN ParsePrimary(ts, i)
  ELSE LET operand == ParseNot(ts, i + 1)
       IN IF operand.next = 0 THEN Failed ELSE [operand EXCEPT !.node = Not(@)]

\* filterCompile(): a blank expression matches everything, words left over are
\* an error.  The result is a set of at most one tree.
Compile(ts) ==
  IF ts = <<>> THEN {Word("true")}
  ELSE LET r == ParseOr(ts, 1)
       IN IF r.next = Len(ts) + 1 THEN {r.node} ELSE {}

------------------------------------------------------------------------------
(* Evaluation.                                                              *)

Compare(a, op, b) ==
  CASE op = "==" -> a = b [] op = "!=" -> a # b
    [] op = ">" -> a > b [] op = "<" -> a < b
    [] op = ">=" -> a >= b [] OTHER -> a <= b

EvalComparison(c, p) ==
  CASE c.field = "src" -> ~p.v6 /\ Compare(p.src, c.op, c.value)
    [] c.field = "dst" -> ~p.v6 /\ Compare(p.dst, c.op, c.value)
    [] c.field = "proto" -> Compare(p.proto, c.op, c.value)
    [] c.field = "tcpSrc" -> HasPorts(p) /\ p.proto = 6 /\ Compare(p.sport, c.op, c.value)
    [] c.field = "tcpDst" -> HasPorts(p) /\ p.proto = 6 /\ Compare(p.dport, c.op, c.value)
    [] c.field = "udpSrc" -> HasPorts(p) /\ p.proto = 17 /\ Compare(p.sport, c.op, c.value)
    [] c.field = "udpDst" -> HasPorts(p) /\ p.proto = 17 /\ Compare(p.dport, c.op, c.value)

EvalWord(w, p) ==
  CASE w = "true" -> TRUE [] w = "false" -> FALSE
    [] w = "outbound" -> p.out [] w = "inbound" -> ~p.out
    [] w = "loopback" -> p.loop
    [] w = "ip" -> ~p.v6 [] w = "ipv6" -> p.v6
    [] OTHER -> EvalComparison(Comparison[w], p)

RECURSIVE Match(_, _)
Match(e, p) ==
  CASE e.k = "and" -> Match(e.l, p) /\ Match(e.r, p)
    [] e.k = "or" -> Match(e.l, p) \/ Match(e.r, p)
    [] e.k = "not" -> ~Match(e.l, p)
    [] e.k = "word" -> EvalWord(e.w, p)

------------------------------------------------------------------------------
(* Derivation of iptables rules.                                            *)

Unconstrained ==
  [chains |-> {"OUTPUT", "INPUT"}, proto |-> 0, family |-> {"v4", "v6"},
   dport |-> -1, sport |-> -1, src |-> 0, dst |-> 0, widened |-> FALSE]

Widen(c) == [c EXCEPT !.widened = TRUE]

\* ICMP is IPv4's, ICMPv6 is IPv6's.
WithProto(c, n) ==
  [c EXCEPT !.proto = n,
            !.family = IF n = 1 THEN {"v4"} ELSE IF n = 58 THEN {"v6"} ELSE @]

CollectComparison(x, c, negated) ==
  CASE negated \/ x.op # "==" -> Widen(c)
    [] x.field = "proto" -> WithProto(c, x.value)
    [] x.field = "tcpSrc" -> [c EXCEPT !.proto = 6, !.sport = x.value]
    [] x.field = "tcpDst" -> [c EXCEPT !.proto = 6, !.dport = x.value]
    [] x.field = "udpSrc" -> [c EXCEPT !.proto = 17, !.sport = x.value]
    [] x.field = "udpDst" -> [c EXCEPT !.proto = 17, !.dport = x.value]
    [] x.field = "src" -> [c EXCEPT !.src = x.value, !.family = {"v4"}]
    [] x.field = "dst" -> [c EXCEPT !.dst = x.value, !.family = {"v4"}]

CollectWord(w, c, negated) ==
  CASE w = "true" -> c
    [] w \in {"false", "loopback"} -> Widen(c)
    [] w \in DOMAIN Comparison -> CollectComparison(Comparison[w], c, negated)
    [] negated -> c
    [] w = "outbound" -> [c EXCEPT !.chains = {"OUTPUT"}]
    [] w = "inbound" -> [c EXCEPT !.chains = {"INPUT"}]
    [] w = "ip" -> [c EXCEPT !.family = {"v4"}]
    [] w = "ipv6" -> [c EXCEPT !.family = {"v6"}]

RECURSIVE Collect(_, _, _)
Collect(e, c, negated) ==
  CASE e.k = "and" -> Collect(e.r, Collect(e.l, c, negated), negated)
    [] e.k = "not" -> Collect(e.l, Widen(c), ~negated)
    [] e.k = "or" -> Widen(c)
    [] e.k = "word" -> CollectWord(e.w, c, negated)

\* The branches of a top-level or, appended to out.
RECURSIVE SplitOr(_, _, _)
SplitOr(e, out, depth) ==
  IF Len(out) >= BranchLimit THEN out
  ELSE IF e.k = "or" /\ depth < DepthLimit
  THEN SplitOr(e.r, SplitOr(e.l, out, depth + 1), depth + 1)
  ELSE Append(out, e)

\* buildMatch(): ports are spelled with their protocol only.
RuleOf(c, family) ==
  LET ports == c.proto \in {6, 17}
  IN [family |-> family, chains |-> c.chains, proto |-> c.proto,
      dport |-> IF ports THEN c.dport ELSE -1, sport |-> IF ports THEN c.sport ELSE -1,
      src |-> c.src, dst |-> c.dst]

Families(c) == SelectSeq(<<"v4", "v6">>, LAMBDA f : f \in c.family)

EmitRules(branch) ==
  LET c == Collect(branch, Unconstrained, FALSE)
  IN [i \in DOMAIN Families(c) |-> RuleOf(c, Families(c)[i])]

DedupeRules(v) ==
  FoldLeft(LAMBDA uniq, r : IF r \in ToSet(uniq) THEN uniq ELSE Append(uniq, r), <<>>, v)

\* Seeded fault: rules for which there is no room are left out.
FittingCut(e, derived) == SubSeq(derived, 1, IF Len(derived) < MaxRules THEN Len(derived) ELSE MaxRules)

\* Too many rules: one derivation of the whole, which cannot express its or.
Fitting(e, derived) ==
  IF Len(derived) > MaxRules THEN DedupeRules(EmitRules(e)) ELSE derived

\* filterDeriveIptables()
Derive(e) ==
  LET branches == SplitOr(e, <<>>, 0)
      derived == FlattenSeq([i \in DOMAIN branches |-> EmitRules(branches[i])])
  IN Fitting(e, DedupeRules(derived))

------------------------------------------------------------------------------
(* The grammar as a reference: an expression is split at its last top-level *)
(* operator of the lowest precedence.                                       *)

Nesting(ts, i) ==
  Cardinality({j \in 1..i-1 : ts[j] = "("}) - Cardinality({j \in 1..i-1 : ts[j] = ")"})

Splits(ts, w) == {i \in DOMAIN ts : ts[i] = w /\ Nesting(ts, i) = 0}
LastOf(S) == CHOOSE i \in S : \A j \in S : j <= i

RECURSIVE Grammar(_)
Grammar(ts) ==
  LET n == Len(ts)
      Split(w) ==
        LET i == LastOf(Splits(ts, w))
        IN {Binary(w, l, r) : l \in Grammar(SubSeq(ts, 1, i - 1)),
                              r \in Grammar(SubSeq(ts, i + 1, n))}
  IN CASE n = 0 -> {}
       [] Splits(ts, "or") # {} -> Split("or")
       [] Splits(ts, "and") # {} -> Split("and")
       [] ts[1] = "not" -> {Not(e) : e \in Grammar(SubSeq(ts, 2, n))}
       [] ts[1] = "(" /\ ts[n] = ")" -> Grammar(SubSeq(ts, 2, n - 1))
       [] n = 1 /\ ts[1] \in Leaf -> {Word(ts[1])}
       [] OTHER -> {}
==============================================================================
