------------------------------- MODULE MCStats -------------------------------
(* Two buckets, and interchangeable workers, for the run of Stats.            *)
EXTENDS Stats, TLC

CONSTANTS a, b

SomeBounds == <<1>>
Symmetry == Permutations(Workers)
==============================================================================
