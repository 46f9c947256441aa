------------------------------ MODULE MCProfiles ------------------------------
EXTENDS Profiles

\* "long" stands for a name of 48 characters or more with a quote and "cut" behind
\* it, of which the quote is the last of the first 47: "quoted".
MCCut == [n \in Names |-> IF n = "long" THEN "quoted" ELSE n]
MCBehind == [n \in Names |-> CASE n = "long" -> "cut" [] n = "quoted" -> "none" [] OTHER -> n]
MCModules == <<"drop", "lag">>
MCSize == [m \in {"drop", "lag"} |-> 1]
MCTiesUp == [m \in {"drop"} |-> {}]
Entry(n) == [name |-> n, params |-> <<[module |-> "drop", kind |-> "val", val |-> 10]>>]
MCFirstFiles == {<<>>, <<Entry("quoted"), Entry("a"), Entry("long")>>,
                 <<Entry("a"), Entry("long"), Entry("quoted"), Entry("cut")>>}
==============================================================================
