------------------------------ MODULE SeqSums ------------------------------
(***************************************************************************)
(* Sums over sequences of integers.  The code adds up core counts one      *)
(* request, or one run, at a time; SumTrace keeps every partial sum so     *)
(* that a loop can be compared with it iteration by iteration.             *)
(***************************************************************************)
EXTENDS Integers, Sequences

\* SumTrace(t)[k] is the sum of the first k elements of t.
SumTrace(t) ==
  LET sum[k \in 0..Len(t)] == IF k = 0 THEN 0 ELSE sum[k-1] + t[k]
  IN  sum

SumOf(t) == SumTrace(t)[Len(t)]
=============================================================================
