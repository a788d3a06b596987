---------------------------- MODULE MCSimulator ----------------------------
(***************************************************************************)
(* All short traces for small instances of Simulator.                      *)
(***************************************************************************)
EXTENDS Simulator

CONSTANTS MaxJobs,      \* bound: lines of a trace
          MaxArrival,   \* bound: latest arrival
          Sizes         \* job times

Sorted(tr) == \A i \in 1 .. (Len(tr) - 1) : tr[i].arrival <= tr[i + 1].arrival

AllTraces ==
  {tr \in UNION {[1 .. n -> [arrival : 0 .. MaxArrival, size : Sizes]]
                   : n \in 0 .. MaxJobs} : Sorted(tr)}
=============================================================================
