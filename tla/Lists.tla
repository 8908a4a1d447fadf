------------------------------- MODULE Lists -------------------------------
(***************************************************************************)
(* The two loops over a list that the analysis and the planning share, as  *)
(* recursive functions.                                                    *)
(***************************************************************************)
EXTENDS Integers, Sequences

\* The members of a list that are in a set, in order.
Among(s, T) ==
  LET upto[n \in 0..Len(s)] ==
        IF n = 0 THEN <<>> ELSE IF s[n] \in T THEN Append(upto[n - 1], s[n]) ELSE upto[n - 1]
  IN upto[Len(s)]

\* What the first n members of a list come to, for each n.
RunningSum(s) ==
  LET upto[n \in 0..Len(s)] == IF n = 0 THEN 0 ELSE upto[n - 1] + s[n] IN upto
Total(s) == RunningSum(s)[Len(s)]
=============================================================================
