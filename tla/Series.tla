-------------------------------- MODULE Series --------------------------------
(* Sums and selections, in a form that can be reasoned about by induction.     *)
EXTENDS Naturals, Sequences

\* f[1] + ... + f[n].
SumTo(f, n) ==
  LET sum[i \in 0..n] == IF i = 0 THEN 0 ELSE sum[i - 1] + f[i] IN sum[n]

\* The elements of s that are in X, in their order.
Only(s, X) ==
  LET only[i \in 0..Len(s)] ==
        IF i = 0 THEN <<>>
        ELSE IF s[i] \in X THEN Append(only[i - 1], s[i]) ELSE only[i - 1]
  IN only[Len(s)]
===============================================================================
