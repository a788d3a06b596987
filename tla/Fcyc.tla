-------------------------------- MODULE Fcyc --------------------------------
(***************************************************************************)
(* The K-best sampler that times the allocators (fcyc.c).  "samples" is    *)
(* the array the code keeps when it is built with KEEP_SAMPLES; times are  *)
(* whole numbers and the tolerance epsilon is one in a hundred.            *)
(***************************************************************************)
EXTENDS Naturals, Sequences, FiniteSets

CONSTANTS kbest, maxsamples

ASSUME SamplerAssumption == kbest \in Nat \ {0} /\ maxsamples \in Nat \ {0}

init_sampler == [values |-> <<>>, samplecount |-> 0, samples |-> <<>>]

\* The insertion sort: the value at pos moves down past the greater ones.
Sorted(values, pos) ==
    LET turn[n \in 0 .. kbest] ==
          IF n = 0 THEN [v |-> values, pos |-> pos]
          ELSE LET s == turn[n - 1] IN
               IF s.pos > 1 /\ s.v[s.pos - 1] > s.v[s.pos]
               THEN [v |-> [s.v EXCEPT ![s.pos - 1] = s.v[s.pos], ![s.pos] = s.v[s.pos - 1]],
                     pos |-> s.pos - 1]
               ELSE s
    IN  turn[kbest].v

\* A mutant: once the array is full it is not sorted again.
add_sample_unsorted(s, val) ==
    [values |-> CASE s.samplecount < kbest ->
                       Sorted(Append(s.values, val), s.samplecount + 1)
                  [] s.samplecount >= kbest /\ val < s.values[kbest] ->
                       [s.values EXCEPT ![kbest] = val]
                  [] OTHER -> s.values,
     samplecount |-> s.samplecount + 1,
     samples |-> Append(s.samples, val)]

add_sample(s, val) ==
    [values |-> CASE s.samplecount < kbest ->
                       Sorted(Append(s.values, val), s.samplecount + 1)
                  [] s.samplecount >= kbest /\ val < s.values[kbest] ->
                       Sorted([s.values EXCEPT ![kbest] = val], kbest)
                  [] OTHER -> s.values,
     samplecount |-> s.samplecount + 1,
     samples |-> Append(s.samples, val)]

has_converged(s) ==
    s.samplecount >= kbest /\ 101 * s.values[1] >= 100 * s.values[kbest]

\* The condition on which fsec and fcyc leave their loop.
Enough(s) == has_converged(s) \/ s.samplecount >= maxsamples

\* x is the n-th least of some values: fewer than n are less than x, and no
\* fewer than n are not greater.
NthLeast(values, n, x) ==
    /\ Cardinality({j \in DOMAIN values : values[j] < x}) < n
    /\ Cardinality({j \in DOMAIN values : values[j] <= x}) >= n

\* The kbest least of all the samples, in order.
HoldsBest(s) ==
    /\ Len(s.values) = IF Len(s.samples) < kbest THEN Len(s.samples) ELSE kbest
    /\ \A n \in DOMAIN s.values : NthLeast(s.samples, n, s.values[n])
=============================================================================
