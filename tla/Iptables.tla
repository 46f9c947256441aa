------------------------------- MODULE Iptables -------------------------------
(***************************************************************************)
(* The rules of Chains with the filter language of Filter: Compiled is     *)
(* Compile, Derived is Derive.                                             *)
(***************************************************************************)
EXTENDS Chains, Filter

ASSUME IptablesAssumption == Words \subseteq Leaf \cup Mark

\* filterCompile() accepts exactly the expressions of the grammar and gives
\* them its meaning: "not" binds tighter than "and", "and" than "or", and both
\* associate to the left; a blank expression matches everything.
ParserAgrees ==
  pc = "down" =>
    Compile(words) = IF words = <<>> THEN {Word("true")} ELSE Grammar(words)

\* The derived rules are a superset of the filter: once divertStart() has
\* returned, the kernel hands over every packet the filter would match, whatever
\* other runs and the operator left in the chains.
SelectedIsQueued ==
  pc = "up" => \A p \in Packets, e \in prog : Match(e, p) => Verdict(p, FALSE) = "queue"
===============================================================================
