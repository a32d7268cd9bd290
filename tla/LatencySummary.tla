-------------------------- MODULE LatencySummary --------------------------
(***************************************************************************)
(* The percentiles run_load_test reports (src/benchmark/metrics.cpp): the  *)
(* rank of a percentile among the sorted samples, in unsigned arithmetic   *)
(* that wraps at SizeModulus, 2^64 in the code.                            *)
(***************************************************************************)
EXTENDS Integers

CONSTANTS
    MaxSamples,     \* the largest number of samples looked at
    SizeModulus     \* 2 ^ the width of std::size_t

\* (99 * 99 + 99) is the largest numerator of the rank.
ASSUME SizeAssumption ==
    /\ SizeModulus \in Nat /\ SizeModulus > 9900
    /\ MaxSamples \in Nat /\ MaxSamples < SizeModulus

Percentiles == {50, 95, 99}

Wrap(n) == n % SizeModulus

\* Mutant of Rank: the textbook formula, whose product wraps.
RankOfProduct(n, percentile) == Wrap(Wrap(n * percentile) + 99) \div 100

\* The 1-based rank nearest_rank_percentile computes for n samples.
Rank(n, percentile) ==
    LET full_hundreds == n \div 100
        remainder == n % 100
    IN  Wrap(Wrap(full_hundreds * percentile)
             + Wrap(Wrap(remainder * percentile) + 99) \div 100)

\* The rank lies among n samples, and it is the least one that has at least the
\* given percentage of them at or below it.
RanksAreNearest(n) ==
    \A p \in Percentiles :
        /\ Rank(n, p) \in 1 .. n
        /\ 100 * Rank(n, p) >= n * p
        /\ 100 * (Rank(n, p) - 1) < n * p
=============================================================================
