------------------------------ MODULE MCScenario ------------------------------
(* Small instances of Scenario for TLC.                                      *)
EXTENDS Scenario

O(at, when, value, repeat, times, key, set) ==
  [at |-> at, when |-> when, value |-> value, repeat |-> repeat, times |-> times,
   key |-> key, set |-> set]

Untriggered == O(-1, "none", 0, 0, 0, "lag", 1)

Samples ==
  {O(0, "none", 0, 0, 0, "lag", 1),
   O(1, "none", 0, 0, 0, "lag", 2),
   O(0, "none", 0, 1, 2, "drop", 1),              \* twice
   O(1, "captured_count", 1, 1, 0, "drop", 1),    \* when wins, forever
   O(-1, "elapsed_sec", 1, 0, 0, "lag", 2)}

MCDocuments ==
  {<<>>, <<Untriggered>>}
  \cup {<<o, p>> : o \in Samples, p \in {q \in Samples : q.set = 1 /\ q.when = "none"}}
  \cup
  {<<O(1, "none", 0, 0, 0, "lag", 1), Untriggered,
     O(0, "none", 0, 0, 0, "lag", 2), O(1, "none", 0, 0, 0, "lag", 2),
     O(0, "none", 0, 0, 0, "drop", 2)>>,
   <<O(0, "none", 0, 0, 0, "lag", 1), O(0, "none", 0, 0, 0, "lag", 2)>>}
==============================================================================
