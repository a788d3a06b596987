---------------------------- MODULE DriverProofs ----------------------------
(***************************************************************************)
(* The grades of the driver, for every list of traces and every moment at  *)
(* which the alarm goes off: points for performance are earned by valid    *)
(* traces, whatever the allocator does, the utilisation counts the blocks  *)
(* that are allocated, the sampler holds the best times, and the splay     *)
(* tree and the links of the range set are those of the allocated blocks.  *)
(***************************************************************************)
EXTENDS Driver, TLAPS, FiniteSetTheorems, NaturalsInduction

-----------------------------------------------------------------------------
(* Sums.  The sum that MapThenSumSet takes, over a set in the order of     *)
(* CHOOSE, is the number of tokens when every x of the set has f[x] of     *)
(* them; the order does not matter to it.                                  *)

Pick(s) == CHOOSE x \in s : TRUE

Adds(f, S, g) ==
  g = [s \in SUBSET S |-> IF s = {} THEN 0 ELSE f[Pick(s)] + g[s \ {Pick(s)}]]

Row(f, x) == {x} \X (1 .. f[x])
Tokens(f, S) == UNION {Row(f, x) : x \in S}

Summable(f, S) == IsFiniteSet(S) /\ \A x \in S : f[x] \in Nat

\* A set of numbers that is not empty has a least member.
LEMMA NatMin ==
  ASSUME NEW T \in SUBSET Nat, T # {}
  PROVE  \E x \in T : \A y \in T : x <= y
<1>1. IsWellFoundedOn(OpToRel(<, Nat), Nat)
  BY Zenon, NatLessThanWellFounded
<1>2. PICK x \in T : \A y \in T : ~ (<<y, x>> \in OpToRel(<, Nat))
  BY Zenon, <1>1, WFMin
<1>3. \A y \in T : ~ (y < x)
  BY <1>2 DEF OpToRel
<1> QED BY <1>3

LEMMA RowSize ==
  ASSUME NEW f, NEW x, f[x] \in Nat
  PROVE  IsFiniteSet(Row(f, x)) /\ Cardinality(Row(f, x)) = f[x]
<1>1. IsFiniteSet({x}) /\ Cardinality({x}) = 1
  BY FS_Singleton
<1>2. IsFiniteSet(1 .. f[x]) /\ Cardinality(1 .. f[x]) = f[x]
  BY SMTT(30), FS_Interval
<1>3. /\ IsFiniteSet({x} \X (1 .. f[x]))
      /\ Cardinality({x} \X (1 .. f[x])) = Cardinality({x}) * Cardinality(1 .. f[x])
  BY <1>1, <1>2, FS_Product
<1>4. Cardinality({x}) * Cardinality(1 .. f[x]) = f[x]
  BY <1>1, <1>2
<1> QED BY <1>3, <1>4 DEF Row

LEMMA TokensFinite ==
  ASSUME NEW f, NEW S, Summable(f, S)
  PROVE  IsFiniteSet(Tokens(f, S)) /\ Cardinality(Tokens(f, S)) \in Nat
<1> DEFINE Rows == {Row(f, x) : x \in S}
           h == [x \in S |-> Row(f, x)]
<1>1. h \in Surjection(S, Rows)
  BY DEF Surjection
<1>2. IsFiniteSet(Rows)
  <2> HIDE DEF h, Rows
  <2> QED BY <1>1, FS_Surjection DEF Summable
<1>3. \A T \in Rows : IsFiniteSet(T)
  BY RowSize DEF Summable
<1>4. IsFiniteSet(UNION Rows)
  <2> HIDE DEF Rows
  <2> QED BY <1>2, <1>3, FS_UNION
<1> QED BY <1>4, FS_CardinalityType DEF Tokens

\* One more summand.
LEMMA TokensMore ==
  ASSUME NEW f, NEW S, Summable(f, S), NEW x \in S
  PROVE  /\ Summable(f, S \ {x})
         /\ Cardinality(Tokens(f, S)) = f[x] + Cardinality(Tokens(f, S \ {x}))
<1>1. Summable(f, S \ {x}) /\ f[x] \in Nat
  BY FS_RemoveElement DEF Summable
<1>2. Tokens(f, S) = Row(f, x) \cup Tokens(f, S \ {x})
  BY DEF Tokens
<1>3. Row(f, x) \cap Tokens(f, S \ {x}) = {}
  BY DEF Tokens, Row
<1>4. /\ IsFiniteSet(Row(f, x)) /\ Cardinality(Row(f, x)) = f[x]
      /\ IsFiniteSet(Tokens(f, S \ {x})) /\ Cardinality(Tokens(f, S \ {x})) \in Nat
  BY <1>1, RowSize, TokensFinite
<1>5. Cardinality(Row(f, x) \cup Tokens(f, S \ {x}))
        = Cardinality(Row(f, x)) + Cardinality(Tokens(f, S \ {x})) - Cardinality({})
  BY <1>3, <1>4, FS_Union
<1>6. Cardinality({}) = 0
  BY FS_EmptySet
<1> QED BY <1>1, <1>2, <1>4, <1>5, <1>6

LEMMA TokensNone ==
  ASSUME NEW f, NEW S, \A x \in S : f[x] = 0
  PROVE  Cardinality(Tokens(f, S)) = 0
<1>1. Tokens(f, S) = {}
  BY DEF Tokens, Row
<1> QED BY <1>1, FS_EmptySet

LEMMA PartSummable ==
  ASSUME NEW f, NEW S, Summable(f, S), NEW s \in SUBSET S
  PROVE  Summable(f, s)
BY FS_Subset DEF Summable

\* The count of tokens adds up in whatever order,
LEMMA CountAdds ==
  ASSUME NEW f, NEW S, Summable(f, S)
  PROVE  Adds(f, S, [s \in SUBSET S |-> Cardinality(Tokens(f, s))])
<1> DEFINE z == [s \in SUBSET S |-> Cardinality(Tokens(f, s))]
<1>1. ASSUME NEW s \in SUBSET S
      PROVE  z[s] = IF s = {} THEN 0 ELSE f[Pick(s)] + z[s \ {Pick(s)}]
  <2>1. CASE s = {}
    BY <2>1, TokensNone
  <2>2. CASE s # {}
    <3>1. Pick(s) \in s
      BY <2>2 DEF Pick
    <3>2. Summable(f, s)
      BY PartSummable
    <3>3. Cardinality(Tokens(f, s)) = f[Pick(s)] + Cardinality(Tokens(f, s \ {Pick(s)}))
      BY <3>1, <3>2, TokensMore
    <3>4. s \ {Pick(s)} \in SUBSET S
      OBVIOUS
    <3> QED BY <2>2, <3>3, <3>4
  <2> QED BY <2>1, <2>2
<1> QED BY <1>1 DEF Adds

\* and whatever adds up is that count.
LEMMA AddsCount ==
  ASSUME NEW f, NEW S, Summable(f, S), NEW g, Adds(f, S, g)
  PROVE  g[S] = Cardinality(Tokens(f, S))
<1> DEFINE Wrong == {s \in SUBSET S : g[s] # Cardinality(Tokens(f, s))}
           Sizes == {Cardinality(s) : s \in Wrong}
<1>1. SUFFICES ASSUME Wrong # {} PROVE FALSE
  OBVIOUS
<1>2. \A s \in SUBSET S : IsFiniteSet(s) /\ Cardinality(s) \in Nat
  BY FS_Subset, FS_CardinalityType DEF Summable
<1>3. Sizes \in SUBSET Nat /\ Sizes # {}
  BY <1>1, <1>2
<1>4. PICK m \in Sizes : \A y \in Sizes : m <= y
  <2> HIDE DEF Sizes
  <2> QED BY <1>3, NatMin
<1>5. PICK s \in Wrong : Cardinality(s) = m
  BY <1>4
<1>6. g[s] = IF s = {} THEN 0 ELSE f[Pick(s)] + g[s \ {Pick(s)}]
  BY <1>5 DEF Adds
<1>7. CASE s = {}
  <2>1. Cardinality(Tokens(f, {})) = 0
    BY TokensNone
  <2> QED BY <1>5, <1>6, <1>7, <2>1
<1>8. CASE s # {}
  <2>1. Pick(s) \in s
    BY <1>8 DEF Pick
  <2>2. Summable(f, s)
    BY PartSummable
  <2>3. Cardinality(Tokens(f, s)) = f[Pick(s)] + Cardinality(Tokens(f, s \ {Pick(s)}))
    BY <2>1, <2>2, TokensMore
  <2>4. s \ {Pick(s)} \in SUBSET S /\ Cardinality(s \ {Pick(s)}) = Cardinality(s) - 1
    BY <1>2, <2>1, FS_RemoveElement
  <2>5. s \ {Pick(s)} \notin Wrong
    BY <1>2, <1>4, <1>5, <2>4
  <2> QED BY <1>5, <1>6, <1>8, <2>3, <2>4, <2>5
<1> QED BY <1>7, <1>8

LEMMA TotalNone ==
  ASSUME NEW ts, IsFiniteSet(ts), \A t \in ts : stats[t]["util"] = 0
  PROVE  Total(ts, "util") = 0
<1> DEFINE f == [t \in ts |-> stats[t]["util"]]
           Is(g) == g = [s \in SUBSET ts |-> IF s = {} THEN 0
                                             ELSE stats[Pick(s)]["util"] + g[s \ {Pick(s)}]]
<1>1. Summable(f, ts) /\ \A t \in ts : f[t] = 0
  BY DEF Summable
<1>2. ASSUME NEW g PROVE Is(g) <=> Adds(f, ts, g)
  <2>1. \A s \in SUBSET ts : s # {} => Pick(s) \in ts
    BY DEF Pick
  <2>2. \A s \in SUBSET ts : s # {} => f[Pick(s)] = stats[Pick(s)]["util"]
    BY <2>1
  <2> HIDE DEF f
  <2> QED BY <2>2 DEF Adds
<1>3. Total(ts, "util") = (CHOOSE g : Is(g))[ts]
  BY DEF Total, MapThenSumSet, MapThenFoldSet, Pick
<1>4. \E g : Is(g)
  <2> HIDE DEF f, Is
  <2> QED BY <1>1, <1>2, CountAdds
<1>5. Is(CHOOSE g : Is(g))
  <2> HIDE DEF f, Is
  <2> QED BY <1>4
<1>6. (CHOOSE g : Is(g))[ts] = Cardinality(Tokens(f, ts))
  <2> HIDE DEF f, Is
  <2> QED BY <1>1, <1>2, <1>5, AddsCount
<1> QED BY <1>1, <1>3, <1>6, TokensNone

-----------------------------------------------------------------------------
(* The grade.  Errors are never forgotten altogether: timeout_handler      *)
(* resets them, but to 1.  So while there are none every trace that        *)
(* run_tests has left is valid, unless it runs only once, and then no      *)
(* utilisation was measured and there are no points for performance.       *)

StatsOK(s) == s = [valid |-> s.valid, util |-> s.util, secs |-> s.secs,
                   weight |-> s.weight, ops |-> s.ops]

AtTrace == {"start", "replay", "warm", "sample", "close"}

\* Types, as far as the grade depends on them.
Shape ==
  /\ opts \in Option
  /\ i \in Nat \ {0} /\ pass \in 0 .. 3 /\ errors \in Nat
  /\ DOMAIN stats = 1 .. Files /\ stats = [t \in DOMAIN stats |-> stats[t]]
  /\ \A t \in 1 .. Files : StatsOK(stats[t])
  /\ phase \in AtTrace => i \in 1 .. Files
  /\ phase \in {"libc", "bench"} => pass = 0
  /\ phase \in {"warm", "sample"} => pass \in {0, 3}

\* With -c no trace is replayed for its utilisation.
Unmeasured == opts.onetime => pass # 3 /\ \A t \in 1 .. Files : stats[t].util = 0

\* The traces that must have been found valid if there was no error.
Passed ==
  CASE phase \in {"report", "exit"} -> 1 .. Files
    [] phase = "open" -> 1 .. (i - 1)
    [] phase = "close" \/ (phase \in {"start", "replay", "warm", "sample"} /\ pass = 3) -> 1 .. i
    [] phase \in {"start", "replay"} /\ pass # 3 -> 1 .. (i - 1)
    [] OTHER -> {}

AllPassed ==
  errors = 0 /\ ~ opts.onetime => \A t \in Passed \cap (1 .. Files) : stats[t].valid

GradeInv == Shape /\ Unmeasured /\ AllPassed /\ GradeEarned

Results == <<opts, phase, i, pass, errors, stats, sums>>

LEMMA GradeInit == Init => GradeInv
<1> SUFFICES ASSUME Init PROVE GradeInv
  OBVIOUS
<1>1. opts \in Option
  BY DriverAssumption DEF Init
<1>2. Files \in Nat
  BY <1>1 DEF Option, Files
<1>3. /\ stats = [t \in 1 .. Files |-> NoStats] /\ StatsOK(NoStats)
      /\ NoStats.util = 0 /\ phase \in {"libc", "bench"} /\ i = 1 /\ pass = 0 /\ errors = 0
  BY DEF Init, NoStats, StatsOK, Files
<1>4. Shape
  BY <1>1, <1>2, <1>3 DEF Shape, AtTrace
<1>5. Unmeasured
  BY <1>3 DEF Unmeasured
<1>6. AllPassed
  BY <1>3 DEF AllPassed, Passed
<1> QED BY <1>3, <1>4, <1>5, <1>6 DEF GradeInv, GradeEarned

\* Nothing that the grade depends on.
LEMMA GradeQuiet ==
  ASSUME GradeInv, UNCHANGED Results
  PROVE  GradeInv'
BY DEF GradeInv, Results, Shape, Files, Unmeasured, AllPassed, Passed, GradeEarned, Valid

\* The end of the program, orderly or not.
LEMMA GradeAbort ==
  ASSUME GradeInv, phase' \in {"aborted", "undefined"},
         UNCHANGED <<opts, i, pass, errors, stats, sums>>
  PROVE  GradeInv'
BY DEF GradeInv, Shape, AtTrace, Files, Unmeasured, AllPassed, Passed, GradeEarned

\* The statistics of one trace are changed.
LEMMA StatsStep ==
  ASSUME Shape, NEW t \in 1 .. Files, NEW s, StatsOK(s), opts' = opts,
         stats' = [stats EXCEPT ![t] = s]
  PROVE  /\ DOMAIN stats' = 1 .. Files' /\ stats' = [u \in DOMAIN stats' |-> stats'[u]]
         /\ \A u \in 1 .. Files : stats'[u] = IF u = t THEN s ELSE stats[u]
         /\ \A u \in 1 .. Files' : StatsOK(stats'[u])
BY DEF Shape, Files

LEMMA Judge ==
  ASSUME NEW s, StatsOK(s), NEW v
  PROVE  LET r == [s EXCEPT !.valid = v]
         IN  StatsOK(r) /\ r.util = s.util /\ r.valid = v
<1>1. PICK a, b, c, d, e : s = [valid |-> a, util |-> b, secs |-> c, weight |-> d, ops |-> e]
  BY DEF StatsOK
<1>2. [s EXCEPT !.valid = v] = [valid |-> v, util |-> b, secs |-> c, weight |-> d, ops |-> e]
  BY <1>1
<1> QED BY <1>1, <1>2 DEF StatsOK

LEMMA Measure ==
  ASSUME NEW s, StatsOK(s), NEW v
  PROVE  LET r == [s EXCEPT !.util = v] IN StatsOK(r) /\ r.valid = s.valid
<1>1. PICK a, b, c, d, e : s = [valid |-> a, util |-> b, secs |-> c, weight |-> d, ops |-> e]
  BY DEF StatsOK
<1>2. [s EXCEPT !.util = v] = [valid |-> a, util |-> v, secs |-> c, weight |-> d, ops |-> e]
  BY <1>1
<1> QED BY <1>1, <1>2 DEF StatsOK

LEMMA Clock ==
  ASSUME NEW s, StatsOK(s), NEW v
  PROVE  LET r == [s EXCEPT !.secs = v]
         IN  StatsOK(r) /\ r.valid = s.valid /\ r.util = s.util
<1>1. PICK a, b, c, d, e : s = [valid |-> a, util |-> b, secs |-> c, weight |-> d, ops |-> e]
  BY DEF StatsOK
<1>2. [s EXCEPT !.secs = v] = [valid |-> a, util |-> b, secs |-> v, weight |-> d, ops |-> e]
  BY <1>1
<1> QED BY <1>1, <1>2 DEF StatsOK

WithLine(s, w, o) == [s EXCEPT !.weight = w, !.ops = o]

LEMMA Read ==
  ASSUME NEW s, StatsOK(s), NEW w, NEW o
  PROVE  /\ StatsOK(WithLine(s, w, o))
         /\ WithLine(s, w, o).util = s.util /\ WithLine(s, w, o).valid = s.valid
<1>1. PICK a, b, c, d, e : s = [valid |-> a, util |-> b, secs |-> c, weight |-> d, ops |-> e]
  BY DEF StatsOK
<1>2. [s EXCEPT !.weight = w] = [valid |-> a, util |-> b, secs |-> c, weight |-> w, ops |-> e]
  BY <1>1
<1>3. PICK q : q = [s EXCEPT !.weight = w]
  OBVIOUS
<1>4. WithLine(s, w, o) = [q EXCEPT !.ops = o]
  BY <1>1, <1>3 DEF WithLine
<1>5. q = [valid |-> a, util |-> b, secs |-> c, weight |-> w, ops |-> e]
  BY <1>2, <1>3
<1>6. [q EXCEPT !.ops = o] = [valid |-> a, util |-> b, secs |-> c, weight |-> w, ops |-> o]
  BY <1>5
<1> QED BY <1>1, <1>4, <1>6 DEF StatsOK

LEMMA ReadStats ==
  ASSUME Shape, i \in 1 .. Files
  PROVE  /\ StatsOK(read_trace) /\ read_trace.util = stats[i].util
         /\ read_trace.valid = stats[i].valid
<1>1. StatsOK(stats[i])
  BY DEF Shape
<1>2. PICK s, w, o : s = stats[i] /\ w = Trace.weight /\ o = Len(Trace.ops)
  OBVIOUS
<1>3. read_trace = WithLine(s, w, o)
  BY <1>2 DEF read_trace, WithLine
<1> QED BY <1>1, <1>2, <1>3, Read

\* malloc_error is an error.
LEMMA GradeReject ==
  ASSUME GradeInv, phase \in {"start", "replay"}, NEW kind, NEW r, Reject(kind, r)
  PROVE  GradeInv'
<1> DEFINE s == [stats[i] EXCEPT !.valid = FALSE]
<1>1. /\ errors' = errors + 1 /\ opts' = opts /\ i' = i /\ sums' = sums /\ pass' = pass
      /\ stats' = [stats EXCEPT ![i] = s] /\ phase' \in {"report", "close"}
  BY DEF Reject, Conclude
<1>2. Shape /\ i \in 1 .. Files /\ errors \in Nat /\ Unmeasured
  BY DEF GradeInv, Shape, AtTrace
<1>3. StatsOK(s) /\ s.util = stats[i].util
  BY <1>2, Judge DEF Shape
<1>4. /\ DOMAIN stats' = 1 .. Files' /\ stats' = [u \in DOMAIN stats' |-> stats'[u]]
      /\ \A u \in 1 .. Files : stats'[u] = IF u = i THEN s ELSE stats[u]
      /\ \A u \in 1 .. Files' : StatsOK(stats'[u])
  <2> HIDE DEF s
  <2> QED BY <1>1, <1>2, <1>3, StatsStep
<1> HIDE DEF s
<1>5. Shape'
  BY <1>1, <1>2, <1>4 DEF Shape, AtTrace, Files
<1>6. Unmeasured'
  BY <1>1, <1>2, <1>3, <1>4 DEF Unmeasured, Files
<1>7. AllPassed' /\ GradeEarned'
  BY <1>1, <1>2 DEF AllPassed, GradeEarned
<1> QED BY <1>5, <1>6, <1>7 DEF GradeInv

\* A trace is read, or found valid, and phase and pass go on.
LEMMA GradeGoesOn ==
  ASSUME GradeInv, i \in 1 .. Files, NEW s, StatsOK(s),
         opts.onetime => s.util = stats[i].util /\ pass' # 3,
         stats' = [stats EXCEPT ![i] = s],
         UNCHANGED <<opts, i, errors, sums>>, pass' \in 0 .. 3,
         phase' \in {"start", "warm", "report", "close"},
         phase' = "warm" => pass' \in {0, 3},
         errors = 0 /\ ~ opts.onetime =>
           /\ \A t \in Passed' \cap (1 .. Files) : t = i \/ t \in Passed
           /\ i \in Passed' => s.valid
  PROVE  GradeInv'
<1>1. Shape /\ Unmeasured /\ AllPassed /\ Files' = Files
  BY DEF GradeInv, Files
<1>2. /\ DOMAIN stats' = 1 .. Files' /\ stats' = [u \in DOMAIN stats' |-> stats'[u]]
      /\ \A u \in 1 .. Files : stats'[u] = IF u = i THEN s ELSE stats[u]
      /\ \A u \in 1 .. Files' : StatsOK(stats'[u])
  BY <1>1, StatsStep
<1>3. Shape'
  BY <1>1, <1>2 DEF Shape, AtTrace
<1>4. Unmeasured'
  BY <1>1, <1>2 DEF Unmeasured
<1>5. AllPassed'
  BY <1>1, <1>2 DEF AllPassed
<1>6. GradeEarned'
  BY DEF GradeEarned
<1> QED BY <1>3, <1>4, <1>5, <1>6 DEF GradeInv

\* Only the phase, the trace or the pass change.
LEMMA GradeMoves ==
  ASSUME GradeInv, UNCHANGED <<opts, errors, stats, sums>>,
         i' \in Nat \ {0}, pass' \in 0 .. 3, phase' # "exit",
         phase' \in AtTrace => i' \in 1 .. Files,
         phase' \in {"libc", "bench"} => pass' = 0,
         phase' \in {"warm", "sample"} => pass' \in {0, 3},
         opts.onetime => pass' # 3,
         Passed' \cap (1 .. Files) \subseteq Passed
  PROVE  GradeInv'
<1>1. Shape /\ Unmeasured /\ AllPassed /\ Files' = Files
  BY DEF GradeInv, Files
<1>2. Shape'
  BY <1>1 DEF Shape
<1>3. Unmeasured' /\ AllPassed' /\ GradeEarned'
  BY <1>1 DEF Unmeasured, AllPassed, GradeEarned
<1> QED BY <1>2, <1>3 DEF GradeInv

\* The report.
LEMMA GradeReport ==
  ASSUME GradeInv, Report
  PROVE  GradeInv'
<1>1. Shape /\ Unmeasured /\ AllPassed /\ opts \in Option
  BY DEF GradeInv, Shape
<1>2. /\ phase = "report" /\ phase' = "exit"
      /\ UNCHANGED <<opts, i, pass, errors, stats, faults>>
      /\ Files' = Files /\ Valid' = Valid
  BY DEF Report, Files, Valid
<1>3. Shape'
  BY <1>1, <1>2 DEF Shape, AtTrace
<1>4. Unmeasured' /\ AllPassed'
  BY <1>1, <1>2 DEF Unmeasured, AllPassed, Passed
<1>5. ASSUME sums'.points[2] # 0
      PROVE  /\ Valid = 1 .. Files /\ sums'.averages = sums'.printed
             /\ sums'.points[1] = 100
  <2> DEFINE own == main_averages
  <2>1. sums' = [printed |-> IF opts.onetime THEN <<0, 0>> ELSE printresults,
                 averages |-> own, points |-> Points(own[1], own[2])]
    BY DEF Report
  <2>2. /\ errors = 0 /\ own[1] >= 30
        /\ sums'.points[1] = 3 * Cardinality(Valid) + (100 - 3 * Files)
    <3>1. Points(own[1], own[2])[2] # 0
      BY <1>5, <2>1
    <3> HIDE DEF own
    <3> QED BY <2>1, <3>1 DEF Points
  <2>3. ~ opts.onetime
    <3> SUFFICES ASSUME opts.onetime PROVE FALSE
      OBVIOUS
    <3> DEFINE ts == {t \in 1 .. Files : CountsUtil(stats[t])}
    <3>1. Files \in Nat /\ IsFiniteSet(1 .. Files)
      BY <1>1, FS_Interval DEF Files, Option
    <3>2. IsFiniteSet(ts) /\ Cardinality(ts) \in Nat
      BY <3>1, FS_Subset, FS_CardinalityType
    <3>3. \A t \in ts : stats[t]["util"] = 0
      BY <1>1 DEF Unmeasured
    <3>4. Total(ts, "util") = 0
      <4> HIDE DEF ts
      <4> QED BY <3>2, <3>3, TotalNone
    <3>5. Average(Total(ts, "util"), Cardinality(ts)) = 0
      <4> HIDE DEF ts
      <4> QED BY <3>2, <3>4 DEF Average
    <3>6. own[1] = 0
      BY <2>2, <3>5 DEF main_averages, Averages
    <3> QED BY <2>2, <3>6
  <2>4. Valid = 1 .. Files
    BY <1>1, <1>2, <2>2, <2>3 DEF AllPassed, Passed, Valid
  <2>5. sums'.averages = sums'.printed
    BY <2>1, <2>2, <2>3, <2>4 DEF main_averages, printresults
  <2>6. Files \in Nat /\ Cardinality(1 .. Files) = Files
    <3>1. Files \in Nat
      BY <1>1 DEF Files, Option
    <3> QED BY <3>1, FS_Interval
  <2> QED BY <2>2, <2>4, <2>5, <2>6
<1>6. GradeEarned'
  BY <1>2, <1>5 DEF GradeEarned
<1> QED BY <1>3, <1>4, <1>6 DEF GradeInv

LEMMA GradeValid ==
  ASSUME GradeInv, eval_mm_valid
  PROVE  GradeInv'
<1>1. phase \in {"start", "replay"}
  BY DEF eval_mm_valid, Requested
<1>2. UNCHANGED Results \/ \E kind, r : Reject(kind, r)
  <2>1. CASE Malloc
    BY <2>1 DEF Malloc, Served, Results, grading
  <2>2. CASE Realloc
    BY Zenon, <2>2 DEF Realloc, Served, Results, grading
  <2>3. CASE Free
    BY <2>3 DEF Free, Served, Results, grading
  <2> QED BY <2>1, <2>2, <2>3 DEF eval_mm_valid
<1> QED BY <1>1, <1>2, GradeQuiet, GradeReject

\* A trace is opened, for libc or for the allocator under test.
LEMMA GradeOpen ==
  ASSUME GradeInv, LibcTrace \/ OpenTrace
  PROVE  GradeInv'
<1>1. Shape /\ Unmeasured
  BY DEF GradeInv
<1>2. CASE Abort
  BY <1>2, GradeAbort DEF Abort, grading
<1>3. CASE LibcTrace /\ ~ Abort
  <2> DEFINE s == [read_trace EXCEPT !.valid = TRUE]
  <2>1. /\ phase = "libc" /\ i <= Files /\ phase' = "warm" /\ stats' = [stats EXCEPT ![i] = s]
        /\ UNCHANGED <<opts, i, pass, errors, sums>>
    BY <1>3 DEF LibcTrace, grading
  <2>2. i \in 1 .. Files /\ pass = 0 /\ Passed' = {}
    BY <1>1, <2>1 DEF Shape, Passed, Option, Files
  <2>3. StatsOK(s) /\ s.util = stats[i].util /\ s.valid
    BY <1>1, <2>2, ReadStats, Judge
  <2>4. /\ opts.onetime => s.util = stats[i].util /\ pass' # 3
        /\ pass' \in 0 .. 3 /\ phase' \in {"start", "warm", "report", "close"}
        /\ phase' = "warm" => pass' \in {0, 3}
        /\ errors = 0 /\ ~ opts.onetime =>
             /\ \A t \in Passed' \cap (1 .. Files) : t = i \/ t \in Passed
             /\ i \in Passed' => s.valid
    BY <2>1, <2>2, <2>3
  <2> HIDE DEF s
  <2> QED BY <2>1, <2>2, <2>3, <2>4, GradeGoesOn
<1>4. CASE OpenTrace /\ ~ Abort
  <2>1. /\ phase = "open" /\ i <= Files /\ phase' = "start" /\ pass' = 1
        /\ stats' = [stats EXCEPT ![i] = read_trace]
        /\ UNCHANGED <<opts, i, errors, sums>>
    BY <1>4 DEF OpenTrace
  <2>2. i \in 1 .. Files /\ Passed' = 1 .. (i - 1) /\ Passed = 1 .. (i - 1)
    BY <1>1, <2>1 DEF Shape, Passed, Option, Files
  <2>3. StatsOK(read_trace) /\ read_trace.util = stats[i].util
    BY <1>1, <2>2, ReadStats
  <2>4. /\ opts.onetime => read_trace.util = stats[i].util /\ pass' # 3
        /\ pass' \in 0 .. 3 /\ phase' \in {"start", "warm", "report", "close"}
        /\ phase' = "warm" => pass' \in {0, 3}
        /\ errors = 0 /\ ~ opts.onetime =>
             /\ \A t \in Passed' \cap (1 .. Files) : t = i \/ t \in Passed
             /\ i \in Passed' => read_trace.valid
    BY <2>1, <2>2, <2>3
  <2> QED BY <2>1, <2>2, <2>3, <2>4, GradeGoesOn
<1> QED BY <1>2, <1>3, <1>4

LEMMA GradeBenchmark ==
  ASSUME GradeInv, Benchmark
  PROVE  GradeInv'
<1>1. CASE Abort
  BY <1>1, GradeAbort DEF Abort, grading
<1>2. CASE ~ Abort
  <2>1. /\ phase = "bench" /\ phase' = "open" /\ i' = 1
        /\ stats' = [t \in 1 .. Files |-> NoStats]
        /\ UNCHANGED <<opts, pass, errors, sums>> /\ Files' = Files
    BY <1>2 DEF Benchmark, Files
  <2>2. StatsOK(NoStats) /\ NoStats.util = 0 /\ pass = 0 /\ Shape
    BY <2>1 DEF NoStats, StatsOK, GradeInv, Shape
  <2>3. Shape'
    BY <2>1, <2>2 DEF Shape, AtTrace
  <2>4. Unmeasured'
    BY <2>1, <2>2 DEF Unmeasured
  <2>5. Passed' = {}
    BY <2>1 DEF Passed
  <2>6. AllPassed' /\ GradeEarned'
    BY <2>1, <2>5 DEF AllPassed, GradeEarned
  <2> QED BY <2>3, <2>4, <2>6 DEF GradeInv
<1> QED BY <1>1, <1>2

\* The two passes of eval_mm_valid, and eval_mm_util.
LEMMA GradeStart ==
  ASSUME GradeInv, StartPass
  PROVE  GradeInv'
<1>1. phase = "start" /\ Shape /\ Unmeasured
  BY DEF StartPass, GradeInv
<1>2. CASE \E kind, r : Reject(kind, r)
  BY <1>1, <1>2, GradeReject
<1>3. CASE Abort
  BY <1>3, GradeAbort DEF Abort, grading
<1>4. CASE phase' = "replay" /\ UNCHANGED <<opts, i, pass, errors, stats, sums>>
  <2>1. Passed' = Passed
    BY <1>1, <1>4 DEF Passed
  <2> QED BY <1>1, <1>4, <2>1, GradeMoves DEF Shape, AtTrace, Unmeasured
<1> QED BY <1>2, <1>3, <1>4 DEF StartPass, grading

LEMMA GradeEndPass ==
  ASSUME GradeInv, EndPass
  PROVE  GradeInv'
<1>1. /\ phase = "replay" /\ pass < 3 /\ Shape /\ Unmeasured /\ i \in 1 .. Files
      /\ UNCHANGED <<opts, i, errors, sums>>
  BY DEF EndPass, GradeInv, Shape, AtTrace, grading
<1>2. CASE pass = 1
  <2>1. phase' = "start" /\ pass' = 2 /\ stats' = stats
    BY <1>2 DEF EndPass
  <2>2. Passed' = Passed
    BY <1>1, <1>2, <2>1 DEF Passed
  <2> QED BY <1>1, <2>1, <2>2, GradeMoves DEF Shape, AtTrace
<1>3. CASE pass # 1
  <2> DEFINE s == [stats[i] EXCEPT !.valid = TRUE]
  <2>1. /\ stats' = [stats EXCEPT ![i] = s]
        /\ phase' = IF opts.onetime THEN "report" ELSE "start"
        /\ pass' = IF opts.onetime THEN pass ELSE 3
    BY <1>3 DEF EndPass, Conclude
  <2>2. StatsOK(s) /\ s.util = stats[i].util /\ s.valid
    BY <1>1, Judge DEF Shape
  <2>3. ~ opts.onetime => \A t \in Passed' \cap (1 .. Files) : t = i \/ t \in Passed
    BY <1>1, <2>1 DEF Passed, Shape, Files
  <2>4. pass' \in 0 .. 3 /\ (opts.onetime => pass' # 3)
    BY <1>1, <2>1 DEF Shape, Unmeasured
  <2> HIDE DEF s
  <2> QED BY <1>1, <2>1, <2>2, <2>3, <2>4, GradeGoesOn
<1> QED BY <1>2, <1>3

LEMMA GradeMeasured ==
  ASSUME GradeInv, EndUtil \/ EndTiming
  PROVE  GradeInv'
<1>1. Shape /\ Unmeasured /\ i \in 1 .. Files /\ StatsOK(stats[i])
  BY DEF EndUtil, EndTiming, GradeInv, Shape, AtTrace
<1>2. CASE EndUtil
  <2> DEFINE s == [stats[i] EXCEPT !.util = (100 * acc.peak) \div acc.heap]
  <2>1. /\ phase = "replay" /\ pass = 3 /\ phase' = "warm"
        /\ stats' = [stats EXCEPT ![i] = s] /\ UNCHANGED <<opts, i, pass, errors, sums>>
    BY <1>2 DEF EndUtil, grading
  <2>2. StatsOK(s) /\ s.valid = stats[i].valid
    BY <1>1, Measure
  <2>3. ~ opts.onetime /\ Passed = 1 .. i /\ Passed' = 1 .. i
    BY <1>1, <2>1 DEF Passed, Unmeasured
  <2>4. errors = 0 => stats[i].valid
    BY <1>1, <2>3 DEF GradeInv, AllPassed
  <2>5. /\ opts.onetime => s.util = stats[i].util /\ pass' # 3
        /\ pass' \in 0 .. 3 /\ phase' \in {"start", "warm", "report", "close"}
        /\ phase' = "warm" => pass' \in {0, 3}
        /\ errors = 0 /\ ~ opts.onetime =>
             /\ \A t \in Passed' \cap (1 .. Files) : t = i \/ t \in Passed
             /\ i \in Passed' => s.valid
    BY <2>1, <2>2, <2>3, <2>4
  <2> HIDE DEF s
  <2> QED BY <1>1, <2>1, <2>2, <2>5, GradeGoesOn
<1>3. CASE EndTiming
  <2> DEFINE s == [stats[i] EXCEPT !.secs = timing.sampler.values[1]]
  <2>1. /\ phase = "sample" /\ phase' = IF pass = 0 THEN "libc" ELSE "close"
        /\ i' = IF pass = 0 THEN i + 1 ELSE i
        /\ stats' = [stats EXCEPT ![i] = s] /\ UNCHANGED <<opts, pass, errors, sums>>
    BY <1>3 DEF EndTiming, grading
  <2>2. StatsOK(s) /\ s.valid = stats[i].valid /\ s.util = stats[i].util
    BY <1>1, Clock
  <2>3. /\ DOMAIN stats' = 1 .. Files' /\ stats' = [u \in DOMAIN stats' |-> stats'[u]]
        /\ \A u \in 1 .. Files : stats'[u] = IF u = i THEN s ELSE stats[u]
        /\ \A u \in 1 .. Files' : StatsOK(stats'[u])
    <3> HIDE DEF s
    <3> QED BY <1>1, <2>1, <2>2, StatsStep
  <2> HIDE DEF s
  <2>4. pass \in {0, 3} /\ i \in Nat \ {0} /\ Files' = Files
    BY <1>1, <2>1 DEF Shape, Files
  <2>5. Shape'
    BY <1>1, <2>1, <2>3, <2>4 DEF Shape, AtTrace
  <2>6. Unmeasured'
    BY <1>1, <2>1, <2>2, <2>3, <2>4 DEF Unmeasured
  <2>7. Passed' \subseteq Passed
    BY <2>1, <2>4 DEF Passed
  <2>8. AllPassed' /\ GradeEarned'
    BY <2>1, <2>2, <2>3, <2>4, <2>7 DEF GradeInv, AllPassed, GradeEarned
  <2> QED BY <2>5, <2>6, <2>8 DEF GradeInv
<1> QED BY <1>2, <1>3

\* timeout_handler forgets the errors that were there, but leaves one.
LEMMA GradeTimeout ==
  ASSUME GradeInv, timeout_handler
  PROVE  GradeInv'
<1> DEFINE s == [stats[i] EXCEPT !.valid = FALSE]
<1>1. /\ errors' = 1 /\ opts' = opts /\ i' = i /\ sums' = sums /\ pass' = pass
      /\ stats' = [stats EXCEPT ![i] = s] /\ phase' = "close" /\ phase \in AtTrace
  BY DEF timeout_handler, AtTrace
<1>2. Shape /\ i \in 1 .. Files /\ Unmeasured /\ StatsOK(stats[i])
  BY <1>1 DEF GradeInv, Shape
<1>3. StatsOK(s) /\ s.util = stats[i].util
  BY <1>2, Judge
<1>4. /\ DOMAIN stats' = 1 .. Files' /\ stats' = [u \in DOMAIN stats' |-> stats'[u]]
      /\ \A u \in 1 .. Files : stats'[u] = IF u = i THEN s ELSE stats[u]
      /\ \A u \in 1 .. Files' : StatsOK(stats'[u])
  <2> HIDE DEF s
  <2> QED BY <1>1, <1>2, <1>3, StatsStep
<1> HIDE DEF s
<1>5. Shape'
  BY <1>1, <1>2, <1>4 DEF Shape, AtTrace, Files
<1>6. Unmeasured'
  BY <1>1, <1>2, <1>3, <1>4 DEF Unmeasured, Files
<1>7. AllPassed' /\ GradeEarned'
  BY <1>1, <1>2 DEF AllPassed, GradeEarned
<1> QED BY <1>5, <1>6, <1>7 DEF GradeInv

LEMMA GradeElse ==
  ASSUME GradeInv, LibcReport \/ WarmUp \/ CloseTrace \/ AllTested
  PROVE  GradeInv'
<1>1. Shape /\ Unmeasured
  BY DEF GradeInv
<1>2. CASE LibcReport
  <2>1. phase = "libc" /\ phase' = "bench" /\ UNCHANGED <<opts, i, pass, errors, stats, sums>>
    BY <1>2 DEF LibcReport, grading
  <2>2. Passed' = {}
    BY <2>1 DEF Passed
  <2> QED BY <1>1, <2>1, <2>2, GradeMoves DEF Shape, AtTrace, Unmeasured
<1>3. CASE WarmUp
  <2>1. /\ phase = "warm" /\ phase' \in {"warm", "sample"}
        /\ UNCHANGED <<opts, i, pass, errors, stats, sums>>
    BY <1>3 DEF WarmUp, grading
  <2>2. Passed' = Passed
    BY <2>1 DEF Passed
  <2> QED BY <1>1, <2>1, <2>2, GradeMoves DEF Shape, AtTrace, Unmeasured
<1>4. CASE CloseTrace
  <2>1. /\ phase = "close" /\ phase' = "open" /\ i' = i + 1 /\ pass' = 0
        /\ UNCHANGED <<opts, errors, stats, sums>>
    BY <1>4 DEF CloseTrace, grading
  <2>2. Passed' = Passed
    BY <1>1, <2>1 DEF Passed, Shape
  <2> QED BY <1>1, <2>1, <2>2, GradeMoves DEF Shape, AtTrace, Unmeasured
<1>5. CASE AllTested
  <2>1. /\ phase = "open" /\ i > Files /\ phase' = "report"
        /\ UNCHANGED <<opts, i, pass, errors, stats, sums>>
    BY <1>5 DEF AllTested, grading
  <2>2. Files \in Nat /\ i \in Nat
    BY <1>1 DEF Shape, Files, Option
  <2>3. Passed' \cap (1 .. Files) \subseteq Passed
    BY <2>1, <2>2 DEF Passed
  <2> QED BY <1>1, <2>1, <2>3, GradeMoves DEF Shape, AtTrace, Unmeasured
<1> QED BY <1>2, <1>3, <1>4, <1>5

LEMMA GradeStep == GradeInv /\ [Next]_vars => GradeInv'
<1> SUFFICES ASSUME GradeInv, [Next]_vars PROVE GradeInv'
  OBVIOUS
<1>1. CASE eval_libc_valid \/ eval_libc_speed \/ eval_mm_speed \/ LateAlarm
  <2>1. /\ phase' \in {"aborted", "undefined"}
        /\ UNCHANGED <<opts, i, pass, errors, stats, sums>>
    BY <1>1 DEF eval_libc_valid, eval_libc_speed, eval_mm_speed, LateAlarm, Abort, grading
  <2> QED BY <2>1, GradeAbort
<1>2. CASE eval_mm_util
  <2>1. Abort \/ UNCHANGED Results
    BY <1>2 DEF eval_mm_util, Results, grading
  <2> QED BY <2>1, GradeAbort, GradeQuiet DEF Abort, grading
<1>3. CASE Sample \/ Ended \/ UNCHANGED vars
  <2>1. UNCHANGED Results
    BY <1>3 DEF Sample, Ended, vars, Results, grading
  <2> QED BY <2>1, GradeQuiet
<1> QED BY <1>1, <1>2, <1>3, GradeOpen, GradeBenchmark, GradeStart, GradeValid, GradeEndPass,
        GradeMeasured, GradeTimeout, GradeElse, GradeReport DEF Next

\* The points are earned (main, printresults, timeout_handler), whatever the
\* allocator and the clock do: whoever gets points for performance has every
\* trace valid.
THEOREM DriverGradeEarned == Spec => []GradeEarned
<1>1. GradeInv => GradeEarned
  BY DEF GradeInv
<1> QED BY <1>1, GradeInit, GradeStep, PTL DEF Spec

-----------------------------------------------------------------------------
(* The utilisation.  The blocks that are allocated lie apart in the heap,  *)
(* so what they add up to, token by token, fits into it.                   *)

Block == [p : Nat, size : Nat, base : Nat]

Sizes(B, L) == [id \in L |-> B[id].size]
Sum(B, L) == Cardinality(Tokens(Sizes(B, L), L))

\* The blocks L of B lie apart between HeapLo and b.
Placed(B, L, b) ==
  /\ \A x \in L : B[x] \in Block /\ HeapLo <= B[x].p /\ B[x].p + B[x].size <= b
  /\ \A x, y \in L : x # y =>
       Extent(B[x].p, B[x].size) \cap Extent(B[y].p, B[y].size) = {}

LEMMA TokensAgree ==
  ASSUME NEW f, NEW g, NEW S, \A x \in S : f[x] = g[x]
  PROVE  Tokens(f, S) = Tokens(g, S)
BY DEF Tokens, Row

LEMMA SizesSummable ==
  ASSUME NEW B, NEW L, IsFiniteSet(L), \A x \in L : B[x] \in Block
  PROVE  Summable(Sizes(B, L), L) /\ Sum(B, L) \in Nat
<1>1. Summable(Sizes(B, L), L)
  BY DEF Summable, Sizes, Block
<1> QED BY <1>1, TokensFinite DEF Sum

LEMMA SumFits ==
  ASSUME NEW B, NEW L, NEW b \in Nat, HeapLo <= b, Placed(B, L, b)
  PROVE  Sum(B, L) <= b - HeapLo
<1> DEFINE T == Tokens(Sizes(B, L), L)
           H == HeapLo .. (b - 1)
           h == [q \in T |-> B[q[1]].p + q[2] - 1]
<1>1. ASSUME NEW q \in T
      PROVE  /\ q[1] \in L /\ q[2] \in 1 .. B[q[1]].size /\ q = <<q[1], q[2]>>
             /\ B[q[1]] \in Block /\ HeapLo <= B[q[1]].p /\ B[q[1]].p + B[q[1]].size <= b
  <2>1. PICK x \in L : q \in {x} \X (1 .. Sizes(B, L)[x])
    BY DEF Tokens, Row
  <2> QED BY <2>1 DEF Sizes, Placed
<1>2. ASSUME NEW q \in T
      PROVE  h[q] \in H /\ h[q] \in Extent(B[q[1]].p, B[q[1]].size)
  BY <1>1, DriverAssumption DEF Block, Extent
<1>3. ASSUME NEW q \in T, NEW r \in T, h[q] = h[r]
      PROVE  q = r
  <2>1. q[1] = r[1]
    BY <1>1, <1>2, <1>3 DEF Placed
  <2>2. q[2] = r[2]
    BY <1>1, <1>3, <2>1 DEF Block
  <2> QED BY <1>1, <2>1, <2>2
<1>4. h \in Injection(T, H)
  BY <1>2, <1>3 DEF Injection, IsInjective
<1>5. IsFiniteSet(H) /\ Cardinality(H) = b - HeapLo
  <2>1. HeapLo \in Int /\ b - 1 \in Int
    BY DriverAssumption
  <2>2. IsFiniteSet(H) /\ Cardinality(H) = IF HeapLo > b - 1 THEN 0 ELSE (b - 1) - HeapLo + 1
    BY <2>1, FS_Interval
  <2> QED BY <2>1, <2>2
<1>6. Cardinality(T) <= Cardinality(H)
  <2> HIDE DEF T, H, h
  <2> QED BY <1>4, <1>5, FS_Injection
<1> QED BY <1>5, <1>6 DEF Sum

\* C differs from B in x, and has it, with s bytes below c, beside the others.
Apart(B, C, L, x, s, c) ==
  /\ x \notin L => B[x].size = 0
  /\ \A y \in L : y # x => C[y] = B[y]
  /\ s > 0 => /\ C[x] \in Block /\ C[x].size = s
              /\ HeapLo <= C[x].p /\ C[x].p + s <= c
              /\ \A y \in L : y # x =>
                   Extent(C[x].p, s) \cap Extent(B[y].p, B[y].size) = {}

\* The blocks when x is made, given back or moved.
With(L, x, s) == IF s > 0 THEN (L \ {x}) \cup {x} ELSE L \ {x}

\* One block is made, given back or moved; of the others nothing changes.
LEMMA SumNext ==
  ASSUME NEW B, NEW C, NEW L, IsFiniteSet(L), NEW b \in Nat, NEW c \in Nat, b <= c,
         Placed(B, L, b), NEW x, NEW s \in Nat, B[x] \in Block,
         Apart(B, C, L, x, s, c), NEW M, M = With(L, x, s)
  PROVE  IsFiniteSet(M) /\ Placed(C, M, c) /\ Sum(C, M) = Sum(B, L) - B[x].size + s
<1> USE DEF Apart, With
<1> DEFINE R == L \ {x}
<1>1. /\ IsFiniteSet(R) /\ IsFiniteSet(R \cup {x}) /\ IsFiniteSet(M)
      /\ x \notin R /\ (R \cup {x}) \ {x} = R
  BY FS_RemoveElement, FS_AddElement
<1>2. Placed(C, R, c)
  <2>1. \A y \in R : y \in L /\ C[y] = B[y]
    OBVIOUS
  <2>2. ASSUME NEW y \in R
        PROVE  C[y] \in Block /\ HeapLo <= C[y].p /\ C[y].p + C[y].size <= c
    <3>1. B[y] \in Block /\ HeapLo <= B[y].p /\ B[y].p + B[y].size <= b /\ C[y] = B[y]
      BY <2>1 DEF Placed
    <3> QED BY <3>1, DriverAssumption DEF Block
  <2> HIDE DEF R
  <2> QED BY <2>1, <2>2 DEF Placed
<1>3. Placed(C, M, c)
  <2>1. CASE s > 0
    <3>1. M = R \cup {x}
      BY <2>1
    <3>2. \A y \in R : C[y] = B[y] /\ y # x /\ y \in L
      OBVIOUS
    <3>3. /\ C[x] \in Block /\ HeapLo <= C[x].p /\ C[x].p + C[x].size <= c
          /\ \A y \in R : Extent(C[x].p, C[x].size) \cap Extent(C[y].p, C[y].size) = {}
      BY <2>1, <3>2
    <3> HIDE DEF R
    <3> QED BY <1>2, <3>1, <3>3 DEF Placed
  <2>2. CASE ~ (s > 0)
    BY <1>2, <2>2
  <2> QED BY <2>1, <2>2
<1>4. Sum(B, L) = Sum(B, R) + B[x].size
  <2>1. \A y \in L : B[y] \in Block
    BY DEF Placed
  <2>2. Summable(Sizes(B, L), L) /\ Sum(B, R) \in Nat /\ B[x].size \in Nat
    BY <1>1, <2>1, SizesSummable DEF Block
  <2>3. Tokens(Sizes(B, L), R) = Tokens(Sizes(B, R), R)
    <3>1. \A y \in R : Sizes(B, L)[y] = Sizes(B, R)[y]
      BY DEF Sizes
    <3> HIDE DEF R
    <3> QED BY <3>1, TokensAgree
  <2>4. CASE x \in L
    <3>1. Cardinality(Tokens(Sizes(B, L), L))
            = Sizes(B, L)[x] + Cardinality(Tokens(Sizes(B, L), L \ {x}))
      BY <2>2, <2>4, TokensMore
    <3>2. Sizes(B, L)[x] = B[x].size
      BY <2>4 DEF Sizes
    <3> QED BY <2>2, <2>3, <3>1, <3>2 DEF Sum
  <2>5. CASE x \notin L
    <3>1. R = L /\ B[x].size = 0
      BY <2>5
    <3> QED BY <2>2, <3>1
  <2> QED BY <2>4, <2>5
<1>5. Sum(C, R) = Sum(B, R)
  <2>1. \A y \in R : Sizes(C, R)[y] = Sizes(B, R)[y]
    BY DEF Sizes
  <2> HIDE DEF R
  <2> QED BY <2>1, TokensAgree DEF Sum
<1>6. Sum(C, M) = Sum(C, R) + s
  <2>1. \A y \in R : C[y] \in Block
    BY <1>2 DEF Placed
  <2>2. Sum(C, R) \in Nat
    BY <1>1, <2>1, SizesSummable
  <2>3. CASE s > 0
    <3>1. M = R \cup {x} /\ M \ {x} = R /\ x \in M
      BY <2>3
    <3>2. \A y \in M : C[y] \in Block
      BY <2>1, <2>3, <3>1
    <3>3. Summable(Sizes(C, M), M)
      BY <1>1, <3>2, SizesSummable
    <3>4. Cardinality(Tokens(Sizes(C, M), M))
            = Sizes(C, M)[x] + Cardinality(Tokens(Sizes(C, M), M \ {x}))
      BY <3>1, <3>3, TokensMore
    <3>5. Tokens(Sizes(C, M), R) = Tokens(Sizes(C, R), R)
      <4>1. \A y \in R : Sizes(C, M)[y] = Sizes(C, R)[y]
        BY <3>1 DEF Sizes
      <4> HIDE DEF R
      <4> QED BY <4>1, TokensAgree
    <3>6. Sizes(C, M)[x] = s
      BY <2>3, <3>1 DEF Sizes
    <3>7. Sum(C, M) = s + Cardinality(Tokens(Sizes(C, M), R))
      BY <3>1, <3>4, <3>6 DEF Sum
    <3>8. Sum(C, R) = Cardinality(Tokens(Sizes(C, M), R))
      BY <3>5 DEF Sum
    <3> QED BY <2>2, <3>7, <3>8
  <2>4. CASE ~ (s > 0)
    <3>1. M = R /\ s = 0
      BY <2>4
    <3> QED BY <2>2, <3>1
  <2> QED BY <2>3, <2>4
<1>7. \A y \in R : B[y] \in Block
  BY DEF Placed
<1>8. Sum(B, R) \in Nat /\ B[x].size \in Nat
  BY <1>1, <1>7, SizesSummable DEF Block
<1> QED BY <1>1, <1>3, <1>4, <1>5, <1>6, <1>8

\* What the requests before the n-th have left.
LiveAt(tr, n) ==
  {id \in Ids(tr) :
     \E k \in 1 .. n - 1 :
        /\ tr.ops[k].index = id /\ tr.ops[k].size > 0
        /\ \A m \in k + 1 .. n - 1 : tr.ops[m].index # id}

FreedAt(tr, n, id) == \E k \in 1 .. n - 1 : tr.ops[k].type = "f" /\ tr.ops[k].index = id

LEMMA OpType ==
  ASSUME NEW tr \in TraceFile, NEW n \in DOMAIN tr.ops
  PROVE  /\ tr.ops[n].type \in STRING /\ tr.ops[n].index \in Nat \cup {-1}
         /\ tr.ops[n].size \in Nat
         /\ tr.ops[n].index # -1 => tr.ops[n].index \in Ids(tr)
<1> DEFINE O == [type : STRING, index : Nat \cup {-1}, size : Nat]
<1>1. tr.ops \in Seq(O)
  BY DEF TraceFile
<1>2. tr.ops[n] \in O
  <2> HIDE DEF O
  <2> QED BY <1>1
<1> QED BY <1>2 DEF Ids, Range

LEMMA IdsFinite ==
  ASSUME NEW tr \in TraceFile
  PROVE  IsFiniteSet(Ids(tr))
<1> DEFINE D == 1 .. Len(tr.ops)
           I == {tr.ops[k].index : k \in D}
           h == [k \in D |-> tr.ops[k].index]
<1>1. Len(tr.ops) \in Nat /\ DOMAIN tr.ops = D
  BY DEF TraceFile
<1>2. IsFiniteSet(D)
  BY <1>1, FS_Interval
<1>3. h \in Surjection(D, I)
  BY DEF Surjection
<1>4. IsFiniteSet(I)
  <2> HIDE DEF D, I, h
  <2> QED BY <1>2, <1>3, FS_Surjection
<1>5. Ids(tr) \in SUBSET I
  BY <1>1 DEF Ids, Range
<1> QED BY <1>4, <1>5, FS_Subset

LEMMA LiveNext ==
  ASSUME NEW tr \in TraceFile, NEW n \in DOMAIN tr.ops, NEW x, x = tr.ops[n].index,
         NEW s, s = tr.ops[n].size
  PROVE  /\ x = -1 => LiveAt(tr, n + 1) = LiveAt(tr, n)
         /\ x # -1 => LiveAt(tr, n + 1) = IF s > 0 THEN (LiveAt(tr, n) \ {x}) \cup {x}
                                                   ELSE LiveAt(tr, n) \ {x}
<1>1. /\ n \in Nat \ {0} /\ s \in Nat /\ -1 \notin Ids(tr)
      /\ x # -1 => x \in Ids(tr)
  BY OpType DEF TraceFile, Ids
<1>2. n \in 1 .. n /\ 1 .. (n + 1) - 1 = 1 .. n
  BY <1>1
<1>3. ASSUME NEW id \in Ids(tr), id # x
      PROVE  id \in LiveAt(tr, n + 1) <=> id \in LiveAt(tr, n)
  <2>1. ASSUME NEW k \in 1 .. n - 1
        PROVE  /\ k \in 1 .. (n + 1) - 1
               /\ (\A m \in k + 1 .. (n + 1) - 1 : tr.ops[m].index # id)
                    <=> \A m \in k + 1 .. n - 1 : tr.ops[m].index # id
    <3>1. \A m \in k + 1 .. (n + 1) - 1 : m = n \/ m \in k + 1 .. n - 1
      BY <1>1
    <3>2. \A m \in k + 1 .. n - 1 : m \in k + 1 .. (n + 1) - 1
      BY <1>1
    <3>3. k \in 1 .. (n + 1) - 1
      BY <1>1
    <3> QED BY <1>3, <3>1, <3>2, <3>3
  <2>2. \A k \in 1 .. (n + 1) - 1 : k = n \/ k \in 1 .. n - 1
    BY <1>1
  <2> QED BY <1>3, <2>1, <2>2 DEF LiveAt
<1>4. ASSUME x # -1
      PROVE  x \in LiveAt(tr, n + 1) <=> s > 0
  <2>1. \A m \in n + 1 .. (n + 1) - 1 : FALSE
    BY <1>1
  <2>2. n \in 1 .. (n + 1) - 1
    BY <1>1
  <2>3. \A k \in 1 .. (n + 1) - 1 : k = n \/ n \in k + 1 .. (n + 1) - 1
    BY <1>1
  <2> QED BY <1>1, <1>4, <2>1, <2>2, <2>3 DEF LiveAt
<1>5. LiveAt(tr, n + 1) \subseteq Ids(tr) /\ LiveAt(tr, n) \subseteq Ids(tr)
  BY DEF LiveAt
<1> QED BY <1>1, <1>3, <1>4, <1>5

\* A request for an id comes before its free, and malloc comes first.
LEMMA OrderlyRequest ==
  ASSUME NEW tr \in TraceFile, Orderly(tr), NEW n \in DOMAIN tr.ops,
         NEW x, x = tr.ops[n].index
  PROVE  /\ x # -1 => ~ FreedAt(tr, n, x)
         /\ tr.ops[n].type = "a" => x \notin LiveAt(tr, n)
<1>1. /\ n \in 1 .. Len(tr.ops) /\ Len(tr.ops) \in Nat /\ DOMAIN tr.ops = 1 .. Len(tr.ops)
  BY DEF TraceFile
<1>2. ASSUME x # -1, NEW k \in 1 .. n - 1, tr.ops[k].type = "f", tr.ops[k].index = x
      PROVE  FALSE
  <2>1. k \in DOMAIN tr.ops /\ n \in k + 1 .. Len(tr.ops)
    BY <1>1
  <2> QED BY <1>2, <2>1 DEF Orderly
<1>3. ASSUME tr.ops[n].type = "a", x \in LiveAt(tr, n)
      PROVE  FALSE
  BY <1>3 DEF Orderly, LiveAt
<1> QED BY <1>2, <1>3 DEF FreedAt

\* What eval_mm_util knows about the trace and the heap.
Freed(id) == FreedAt(Trace, op, id)

Counting ==
  /\ op \in Nat \ {0} /\ blocks \in [Ids(Trace) -> Block]
  /\ brk \in Nat /\ HeapLo <= brk /\ Placed(blocks, Live, brk)
  /\ \A id \in Ids(Trace) \ Live : Freed(id) \/ blocks[id].size = 0
  /\ acc \in [total : Int, peak : Int, heap : Int] /\ acc.total = Sum(blocks, Live)
  /\ acc.peak <= acc.heap /\ brk - HeapLo <= acc.heap

\* A trace that is being replayed was read (read_trace).
HasRead == phase \in AtTrace => Readable(Trace)

UtilInv == opts \in Options /\ HasRead /\ (phase = "replay" /\ pass = 3 => Counting)

LEMMA MaxTwo ==
  ASSUME NEW a \in Int, NEW b \in Int
  PROVE  Max({a, b}) \in {a, b} /\ a <= Max({a, b}) /\ b <= Max({a, b})
<1>1. \E x \in {a, b} : \A y \in {a, b} : x >= y
  <2>1. a >= b \/ b >= a
    OBVIOUS
  <2> QED BY <2>1
<1>2. PICK m : m = Max({a, b}) /\ m \in {a, b} /\ \A y \in {a, b} : m >= y
  BY <1>1 DEF Max
<1> QED BY <1>2

\* An answer that is not wrong is a free place in the heap.
LEMMA RightAnswer ==
  ASSUME NEW size \in Nat, NEW others, NEW a \in Answers(size, others, 0), a.kind = "none",
         brk \in Nat, HeapLo <= brk
  PROVE  /\ a.p \in Nat /\ a.brk \in Nat /\ brk <= a.brk
         /\ HeapLo <= a.p /\ a.p + size <= a.brk
         /\ Extent(a.p, size) \cap AnyOf(others) = {}
<1> DEFINE all == Places(size, others)
           right == {x \in all : x.kind = "none"}
           garbled == Garbled(right, others, 0)
<1>1. a \in all \cup garbled
  BY DEF Answers
<1>2. ASSUME NEW x \in all, NEW h
      PROVE  Damaged(x, h).kind = "garbled"
  BY DEF Places, Damaged
<1>3. a \notin garbled
  <2>1. right \subseteq all
    OBVIOUS
  <2> HIDE DEF all, right
  <2>2. ASSUME NEW x \in right, NEW h, a = Damaged(x, h)
        PROVE  FALSE
    BY <1>2, <2>1, <2>2
  <2> QED BY <2>2 DEF Garbled
<1>4. a \in all
  <2> HIDE DEF all, garbled
  <2> QED BY <1>1, <1>3
<1>5. PICK p \in {NULL} \cup 1 .. Top : \E b \in {brk, Grown(p, size)} :
        a = [p |-> p, brk |-> b, kind |-> Kind(p, b, size, others), hit |-> NULL]
  BY <1>4 DEF Places
<1>6. PICK b \in {brk, Grown(p, size)} :
        a = [p |-> p, brk |-> b, kind |-> Kind(p, b, size, others), hit |-> NULL]
  BY <1>5
<1>7. p \in Nat /\ b \in Nat /\ brk <= b
  <2>1. p \in Nat
    BY DriverAssumption DEF NULL
  <2>2. CASE b = brk
    BY <2>1, <2>2
  <2>3. CASE b = Max({brk, p + size})
    <3>1. brk \in Int /\ p + size \in Int /\ p + size \in Nat
      BY <2>1
    <3>2. b \in {brk, p + size} /\ brk <= b
      BY <2>3, <3>1, MaxTwo
    <3> QED BY <2>1, <3>1, <3>2
  <2>4. b = brk \/ b = Max({brk, p + size})
    BY <1>6 DEF Grown
  <2> QED BY <2>1, <2>2, <2>3, <2>4
<1>8. a.p = p /\ a.brk = b /\ Kind(p, b, size, others) = "none"
  BY <1>6
<1>9. ~ (p < HeapLo \/ p + size > b) /\ Extent(p, size) \cap AnyOf(others) = {}
  BY <1>7, <1>8 DEF Kind
<1> QED BY <1>7, <1>8, <1>9, DriverAssumption

Moved(B, x, p, s) == [B EXCEPT ![x].p = p, ![x].size = s]

LEMMA MovedBlock ==
  ASSUME NEW I, NEW B \in [I -> Block], NEW x \in I, NEW p \in Nat, NEW s \in Nat
  PROVE  /\ Moved(B, x, p, s) \in [I -> Block]
         /\ Moved(B, x, p, s)[x].p = p /\ Moved(B, x, p, s)[x].size = s
         /\ \A y \in I : y # x => Moved(B, x, p, s)[y] = B[y]
<1>1. PICK C : C = [B EXCEPT ![x].p = p]
  OBVIOUS
<1>2. C \in [I -> Block] /\ C[x].p = p /\ \A y \in I : y # x => C[y] = B[y]
  BY <1>1 DEF Block
<1>3. PICK D : D = [C EXCEPT ![x].size = s]
  OBVIOUS
<1>4. /\ D \in [I -> Block] /\ D[x].p = p /\ D[x].size = s
      /\ \A y \in I : y # x => D[y] = C[y]
  BY <1>2, <1>3 DEF Block
<1>5. Moved(B, x, p, s) = D
  BY <1>1, <1>3 DEF Moved, Block
<1> QED BY <1>2, <1>4, <1>5

\* The high-water marks.
LEMMA Marks ==
  ASSUME NEW m \in [total : Int, peak : Int, heap : Int], m.peak <= m.heap,
         NEW total \in Int, NEW size \in Int, total <= size,
         NEW r, r = [total |-> total, peak |-> Max({m.peak, total}),
                     heap |-> Max({m.heap, size})]
  PROVE  /\ r \in [total : Int, peak : Int, heap : Int] /\ r.total = total
         /\ r.peak <= r.heap /\ size <= r.heap
<1>1. m.peak \in Int /\ m.heap \in Int
  OBVIOUS
<1>2. PICK p, h : p = Max({m.peak, total}) /\ h = Max({m.heap, size})
  OBVIOUS
<1>3. p \in {m.peak, total} /\ h \in {m.heap, size} /\ m.heap <= h /\ size <= h
  BY <1>1, <1>2, MaxTwo
<1>4. p \in Int /\ h \in Int /\ p <= h
  BY <1>1, <1>3
<1> QED BY <1>2, <1>3, <1>4

\* One request of eval_mm_util.
LEMMA CountRequest ==
  ASSUME Counting, phase = "replay", pass = 3, Readable(Trace), Trace \in TraceFile,
         Orderly(Trace), eval_mm_util, phase' = "replay"
  PROVE  Counting'
<1> DEFINE o == Request
           x == o.index
           none == [p |-> NULL, brk |-> brk, kind |-> "none", hit |-> NULL]
<1>1. PICK tr, n : tr = Trace /\ n = op
  OBVIOUS
<1>2. /\ tr \in TraceFile /\ n \in DOMAIN tr.ops /\ n \in Nat \ {0} /\ o = tr.ops[n]
      /\ o.type \in {"a", "r", "f"} /\ Orderly(tr) /\ op' = n + 1
  BY <1>1 DEF eval_mm_util, Abort, Request, Counting, Readable, TraceFile
<1>3. UNCHANGED <<opts, i>>
  BY DEF eval_mm_util, Abort
<1>4. Trace' = tr
  BY <1>1, <1>3 DEF Trace
<1>5. Live = LiveAt(tr, n) /\ Live' = LiveAt(tr, n + 1)
  BY <1>1, <1>2, <1>4 DEF Live, LiveAt
<1>6. PICK a : /\ IF o.type = "f" \/ (o.type = "r" /\ o.size = 0) THEN a = none
                  ELSE a \in Answers(o.size, Live \ {x}, 0) /\ a.kind = "none"
               /\ blocks' = IF o.type = "f" THEN blocks
                            ELSE [blocks EXCEPT ![x].p = a.p, ![x].size = o.size]
               /\ brk' = a.brk
               /\ acc' = LET total == acc.total + Difference(o) IN
                         [total |-> total, peak |-> Max({acc.peak, total}),
                          heap |-> Max({acc.heap, a.brk - HeapLo})]
  BY DEF eval_mm_util, Abort
<1>7. /\ blocks \in [Ids(tr) -> Block] /\ brk \in Nat /\ HeapLo <= brk
      /\ Placed(blocks, LiveAt(tr, n), brk)
      /\ \A id \in Ids(tr) \ LiveAt(tr, n) : FreedAt(tr, n, id) \/ blocks[id].size = 0
      /\ acc \in [total : Int, peak : Int, heap : Int]
      /\ acc.total = Sum(blocks, LiveAt(tr, n)) /\ acc.peak <= acc.heap
  BY <1>1, <1>5 DEF Counting, Freed
<1>8. LiveAt(tr, n) \subseteq Ids(tr) /\ IsFiniteSet(LiveAt(tr, n))
  BY <1>2, IdsFinite, FS_Subset DEF LiveAt
<1>9. o.size \in Nat /\ x \in Nat \cup {-1} /\ (x # -1 => x \in Ids(tr))
  BY <1>2, OpType
<1>10. \A id : FreedAt(tr, n, id) => FreedAt(tr, n + 1, id)
  <2>1. \A k \in 1 .. n - 1 : k \in 1 .. (n + 1) - 1
    BY <1>2
  <2> QED BY <2>1 DEF FreedAt
<1> DEFINE L == LiveAt(tr, n)
           M == LiveAt(tr, n + 1)
<1>11. SUFFICES /\ blocks' \in [Ids(tr) -> Block] /\ brk' \in Nat /\ HeapLo <= brk'
                /\ Placed(blocks', M, brk') /\ IsFiniteSet(M)
                /\ \A id \in Ids(tr) \ M : FreedAt(tr, n + 1, id) \/ blocks'[id].size = 0
                /\ acc.total + Difference(o) = Sum(blocks', M)
  <2>1. Sum(blocks', M) \in Int /\ Sum(blocks', M) <= brk' - HeapLo
    <3>1. \A y \in M : blocks'[y] \in Block
      BY <1>11 DEF Placed
    <3> QED BY <1>11, <3>1, SizesSummable, SumFits
  <2>2. brk' - HeapLo \in Int /\ brk' = a.brk
    BY <1>6, <1>11, DriverAssumption
  <2>3. acc' = [total |-> Sum(blocks', M), peak |-> Max({acc.peak, Sum(blocks', M)}),
                heap |-> Max({acc.heap, brk' - HeapLo})]
    BY <1>6, <1>11, <2>2
  <2>4. /\ acc' \in [total : Int, peak : Int, heap : Int] /\ acc'.total = Sum(blocks', M)
        /\ acc'.peak <= acc'.heap /\ brk' - HeapLo <= acc'.heap
    BY <1>7, <2>1, <2>2, <2>3, Marks
  <2>5. op' \in Nat \ {0}
    BY <1>2
  <2> QED BY <1>2, <1>4, <1>5, <1>11, <2>4, <2>5 DEF Counting, Freed
<1>12. CASE x = -1
  <2>1. o.type = "f" /\ M = L
    BY <1>2, <1>12, LiveNext DEF Orderly
  <2>2. blocks' = blocks /\ brk' = brk /\ Difference(o) = 0
    BY <1>6, <1>12, <2>1 DEF Difference
  <2> HIDE DEF o
  <2> QED BY <1>7, <1>8, <1>10, <2>1, <2>2
<1>13. CASE x # -1
  <2>1. M = IF o.size > 0 THEN (L \ {x}) \cup {x} ELSE L \ {x}
    BY <1>2, <1>13, LiveNext
  <2>2. x \in Ids(tr) /\ x \in Nat /\ (x \notin L => blocks[x].size = 0) /\ ~ FreedAt(tr, n, x)
    BY <1>2, <1>7, <1>9, <1>13, OrderlyRequest
  <2>3. /\ blocks[x] \in Block /\ Difference(o) = o.size - blocks[x].size
    <3>1. blocks[x] \in Block /\ blocks[x].size \in Nat
      BY <1>7, <2>2 DEF Block
    <3>2. o.type = "a" => blocks[x].size = 0
      BY <1>2, <2>2, OrderlyRequest
    <3>3. o.type = "f" => o.size = 0
      BY <1>2 DEF Orderly
    <3> HIDE DEF o
    <3> QED BY <1>2, <1>9, <2>2, <3>1, <3>2, <3>3 DEF Difference
  <2>4. /\ a.p \in Nat /\ brk' \in Nat /\ brk <= brk' /\ HeapLo <= brk'
        /\ o.size > 0 => /\ o.type # "f" /\ HeapLo <= a.p /\ a.p + o.size <= brk'
                         /\ Extent(a.p, o.size) \cap AnyOf(L \ {x}) = {}
    <3>1. o.type = "f" => o.size = 0
      BY <1>2 DEF Orderly
    <3> HIDE DEF o
    <3>2. CASE o.type = "f" \/ (o.type = "r" /\ o.size = 0)
      BY <1>6, <1>7, <3>1, <3>2 DEF NULL
    <3>3. CASE ~ (o.type = "f" \/ (o.type = "r" /\ o.size = 0))
      <4>1. a \in Answers(o.size, L \ {x}, 0) /\ a.kind = "none" /\ brk' = a.brk
        BY <1>5, <1>6, <3>3
      <4>2. /\ a.p \in Nat /\ a.brk \in Nat /\ brk <= a.brk
            /\ HeapLo <= a.p /\ a.p + o.size <= a.brk
            /\ Extent(a.p, o.size) \cap AnyOf(L \ {x}) = {}
        <5> HIDE DEF L
        <5> QED BY <1>7, <1>9, <4>1, RightAnswer
      <4>3. HeapLo <= brk' /\ brk' \in Nat /\ brk <= brk' /\ a.p + o.size <= brk'
        BY <1>7, <4>1, <4>2, DriverAssumption
      <4>4. o.type # "f"
        BY <3>3
      <4> HIDE DEF L
      <4> QED BY <4>2, <4>3, <4>4
    <3> QED BY <3>2, <3>3
  <2>5. PICK C, c, s : C = blocks' /\ c = brk' /\ s = o.size
    OBVIOUS
  <2>6. /\ C \in [Ids(tr) -> Block] /\ \A y \in Ids(tr) : y # x => C[y] = blocks[y]
        /\ o.type # "f" => C[x].p = a.p /\ C[x].size = s
    <3>1. CASE o.type = "f"
      BY <1>6, <1>7, <2>5, <3>1
    <3>2. CASE o.type # "f"
      <4>1. C = Moved(blocks, x, a.p, s)
        BY <1>6, <2>5, <3>2 DEF Moved
      <4> QED BY <1>7, <1>9, <2>2, <2>4, <2>5, <4>1, MovedBlock
    <3> QED BY <3>1, <3>2
  <2>7. s > 0 => /\ C[x] \in Block /\ C[x].size = s
                 /\ HeapLo <= C[x].p /\ C[x].p + s <= c
                 /\ \A y \in L : y # x =>
                      Extent(C[x].p, s) \cap Extent(blocks[y].p, blocks[y].size) = {}
    <3>1. \A y \in L : y # x => Bytes(y) \subseteq AnyOf(L \ {x})
      BY DEF AnyOf
    <3>2. SUFFICES ASSUME s > 0
                   PROVE  /\ C[x].p = a.p /\ C[x].size = s /\ C[x] \in Block
                          /\ HeapLo <= a.p /\ a.p + s <= c
                          /\ Extent(a.p, s) \cap AnyOf(L \ {x}) = {}
      <4> HIDE DEF L, o
      <4> QED BY <3>1, <3>2 DEF Bytes
    <3> HIDE DEF L, o
    <3> QED BY <2>2, <2>4, <2>5, <2>6, <3>2
  <2>8. IsFiniteSet(M) /\ Placed(C, M, c) /\ Sum(C, M) = Sum(blocks, L) - blocks[x].size + s
    <3>1. \A y \in L : y # x => C[y] = blocks[y]
      BY <1>8, <2>6
    <3>2. /\ IsFiniteSet(L) /\ brk \in Nat /\ c \in Nat /\ brk <= c /\ Placed(blocks, L, brk)
          /\ s \in Nat /\ blocks[x] \in Block
      BY <1>7, <1>8, <1>9, <2>3, <2>4, <2>5
    <3>3. Apart(blocks, C, L, x, s, c) /\ M = With(L, x, s)
      BY <2>1, <2>2, <2>5, <2>7, <3>1 DEF Apart, With
    <3> HIDE DEF L, M, x
    <3> QED BY <3>2, <3>3, SumNext
  <2>9. ASSUME NEW id \in Ids(tr) \ M
        PROVE  FreedAt(tr, n + 1, id) \/ C[id].size = 0
    <3>1. CASE id = x
      <4>1. o.size = 0
        BY <1>9, <2>1, <3>1
      <4>2. CASE o.type = "f"
        <5>1. n \in 1 .. (n + 1) - 1
          BY <1>2
        <5> QED BY <1>2, <3>1, <4>2, <5>1 DEF FreedAt
      <4> QED BY <2>5, <2>6, <3>1, <4>1, <4>2
    <3>2. CASE id # x
      <4>1. id \notin L
        BY <2>1, <3>2
      <4> QED BY <1>7, <1>10, <2>6, <3>2, <4>1
    <3> QED BY <3>1, <3>2
  <2>10. acc.total + Difference(o) = Sum(C, M)
    <3>1. acc.total \in Int /\ acc.total = Sum(blocks, L) /\ blocks[x].size \in Nat /\ s \in Nat
      BY <1>7, <1>9, <2>3, <2>5 DEF Block
    <3> HIDE DEF L, M, o
    <3> QED BY <2>3, <2>5, <2>8, <3>1
  <2> HIDE DEF L, M, o
  <2> QED BY <2>4, <2>5, <2>6, <2>8, <2>9, <2>10
<1> QED BY <1>9, <1>12, <1>13

\* Every step but for those that open a trace is on the trace that is open.
LEMMA SameTrace ==
  ASSUME [Next]_vars
  PROVE  /\ opts' = opts
         /\ phase' \in AtTrace => /\ i' = i
                                  /\ phase \in AtTrace \/ Readable(Trace)
<1> USE DEF AtTrace
<1>1. CASE eval_libc_valid \/ eval_libc_speed \/ eval_mm_speed \/ LateAlarm
  BY <1>1 DEF eval_libc_valid, eval_libc_speed, eval_mm_speed, LateAlarm, Abort
<1>2. CASE LibcTrace \/ LibcReport \/ Benchmark \/ OpenTrace \/ StartPass
  BY <1>2 DEF LibcTrace, LibcReport, Benchmark, OpenTrace, StartPass, Abort, Reject
<1>3. CASE eval_mm_valid
  <2>1. phase = "replay"
    BY <1>3 DEF eval_mm_valid, Requested
  <2>2. UNCHANGED <<opts, i>>
    <3>1. CASE Malloc
      BY <3>1 DEF Malloc, Served, Reject
    <3>2. CASE Realloc
      BY Zenon, <3>2 DEF Realloc, Served, Reject
    <3>3. CASE Free
      BY <3>3 DEF Free, Served, Reject
    <3> QED BY <1>3, <3>1, <3>2, <3>3 DEF eval_mm_valid, Reject
  <2> QED BY <2>1, <2>2
<1>4. CASE eval_mm_util
  BY <1>4 DEF eval_mm_util, Abort
<1>5. CASE EndPass \/ EndUtil \/ WarmUp \/ Sample \/ EndTiming \/ CloseTrace \/ AllTested
  BY <1>5 DEF EndPass, EndUtil, WarmUp, Sample, EndTiming, CloseTrace, AllTested
<1>6. CASE timeout_handler \/ Report \/ Ended \/ UNCHANGED vars
  BY <1>6 DEF timeout_handler, Report, Ended, vars
<1> QED BY <1>1, <1>2, <1>3, <1>4, <1>5, <1>6 DEF Next

\* What may leave the driver in eval_mm_util.
LEMMA ReplaySteps ==
  ASSUME [Next]_vars, phase' = "replay", pass' = 3
  PROVE  StartPass \/ (eval_mm_util /\ phase = "replay" /\ pass = 3) \/ UNCHANGED vars
<1>1. CASE eval_libc_valid \/ eval_libc_speed \/ eval_mm_speed \/ LateAlarm
  BY <1>1 DEF eval_libc_valid, eval_libc_speed, eval_mm_speed, LateAlarm, Abort
<1>2. CASE LibcTrace \/ LibcReport \/ Benchmark \/ OpenTrace
  BY <1>2 DEF LibcTrace, LibcReport, Benchmark, OpenTrace, Abort
<1>3. CASE eval_mm_valid
  <2>1. pass < 3
    BY <1>3 DEF eval_mm_valid, Requested
  <2>2. pass' = pass \/ phase' \in {"report", "close"}
    <3>1. CASE Malloc
      BY <3>1 DEF Malloc, Served, Reject, Conclude
    <3>2. CASE Realloc
      BY Zenon, <3>2 DEF Realloc, Served, Reject, Conclude
    <3>3. CASE Free
      BY <3>3 DEF Free, Served, Reject, Conclude
    <3> QED BY <1>3, <3>1, <3>2, <3>3 DEF eval_mm_valid, Reject, Conclude
  <2> QED BY <2>1, <2>2
<1>4. CASE eval_mm_util
  BY <1>4 DEF eval_mm_util
<1>5. CASE EndPass \/ EndUtil \/ WarmUp \/ Sample \/ EndTiming \/ CloseTrace \/ AllTested
  BY <1>5 DEF EndPass, Conclude, EndUtil, WarmUp, Sample, EndTiming, CloseTrace, AllTested
<1>6. CASE timeout_handler \/ Report
  BY <1>6 DEF timeout_handler, Report
<1> QED BY <1>1, <1>2, <1>3, <1>4, <1>5, <1>6 DEF Next, Ended

LEMMA CountStart ==
  ASSUME StartPass, phase' = "replay", pass' = 3, Trace \in TraceFile
  PROVE  Counting'
<1>1. /\ op' = 1 /\ brk' = HeapLo /\ blocks' = NoBlocks(Trace) /\ Trace' = Trace
      /\ acc' = [total |-> 0, peak |-> 0, heap |-> 0]
  BY DEF StartPass, Abort, Reject, Conclude, Trace
<1>2. Live' = {}
  BY <1>1 DEF Live
<1>3. blocks' \in [Ids(Trace) -> Block] /\ \A id \in Ids(Trace) : blocks'[id].size = 0
  BY <1>1 DEF NoBlocks, Block, NULL
<1>4. \A B, b : Placed(B, {}, b)
  BY DEF Placed
<1>5. \A B : Sum(B, {}) = 0
  BY TokensNone DEF Sum
<1> QED BY <1>1, <1>2, <1>3, <1>4, <1>5, DriverAssumption DEF Counting

LEMMA UtilStep ==
  ASSUME GradeInv, UtilInv, [Next]_vars
  PROVE  UtilInv'
<1>1. /\ opts' = opts
      /\ phase' \in AtTrace => i' = i /\ (phase \in AtTrace \/ Readable(Trace))
  BY SameTrace
<1>2. opts' \in Options /\ HasRead'
  BY <1>1 DEF UtilInv, HasRead, Trace
<1>3. ASSUME phase' = "replay", pass' = 3
      PROVE  Counting'
  <2>1. CASE UNCHANGED vars
    BY <1>3, <2>1 DEF UtilInv, Counting, Freed, FreedAt, Live, Trace, Sum, vars
  <2>2. CASE StartPass \/ (eval_mm_util /\ phase = "replay" /\ pass = 3)
    <3>1. i \in 1 .. Files /\ Readable(Trace)
      BY <2>2 DEF GradeInv, Shape, AtTrace, UtilInv, HasRead, StartPass
    <3>2. Trace \in TraceFile /\ Orderly(Trace)
      <4>1. opts.files \in Seq(TraceFile) /\ i \in DOMAIN opts.files /\ opts \in Options
        BY <3>1, DriverAssumption DEF UtilInv, Option, Files
      <4> QED BY <4>1, TraceAssumption DEF Trace
    <3> QED BY <1>3, <2>2, <3>1, <3>2, CountStart, CountRequest DEF UtilInv
  <2> QED BY <1>3, <2>1, <2>2, ReplaySteps
<1> QED BY <1>2, <1>3 DEF UtilInv

\* The sum as eval_mm_util's property takes it.
LEMMA LiveSum ==
  ASSUME NEW L, IsFiniteSet(L), \A id \in L : blocks[id] \in Block
  PROVE  MapThenSumSet(LAMBDA id : blocks[id].size, L) = Sum(blocks, L)
<1> DEFINE f == Sizes(blocks, L)
           Is(g) == g = [s \in SUBSET L |-> IF s = {} THEN 0
                                            ELSE blocks[Pick(s)].size + g[s \ {Pick(s)}]]
<1>1. Summable(f, L)
  BY SizesSummable
<1>2. ASSUME NEW g PROVE Is(g) <=> Adds(f, L, g)
  <2>1. \A s \in SUBSET L : s # {} => Pick(s) \in L
    BY DEF Pick
  <2>2. \A s \in SUBSET L : s # {} => f[Pick(s)] = blocks[Pick(s)].size
    BY <2>1 DEF Sizes
  <2> HIDE DEF f
  <2> QED BY <2>2 DEF Adds
<1>3. MapThenSumSet(LAMBDA id : blocks[id].size, L) = (CHOOSE g : Is(g))[L]
  BY DEF MapThenSumSet, MapThenFoldSet, Pick
<1>4. \E g : Is(g)
  <2> HIDE DEF f, Is
  <2> QED BY <1>1, <1>2, CountAdds
<1>5. Is(CHOOSE g : Is(g))
  <2> HIDE DEF f, Is
  <2> QED BY <1>4
<1>6. (CHOOSE g : Is(g))[L] = Cardinality(Tokens(f, L))
  <2> HIDE DEF f, Is
  <2> QED BY <1>1, <1>2, <1>5, AddsCount
<1> QED BY <1>3, <1>6 DEF Sum

\* The utilisation is right (eval_mm_util), for every orderly trace and every
\* allocator whose blocks lie apart: the running total is what the blocks that
\* are allocated add up to, and its peak never exceeds that of the heap.
THEOREM DriverUtilRight == Spec => []UtilRight
<1>1. Init => UtilInv
  BY DEF Init, UtilInv, HasRead, AtTrace
<1>2. GradeInv /\ UtilInv /\ [Next]_vars => UtilInv'
  BY UtilStep
<1>3. GradeInv /\ UtilInv => UtilRight
  <2> SUFFICES ASSUME GradeInv, UtilInv, phase = "replay", pass = 3 PROVE UtilRight
    BY DEF UtilRight
  <2>1. Counting
    BY DEF UtilInv
  <2>2. i \in 1 .. Files /\ opts.files \in Seq(TraceFile)
    BY DEF GradeInv, Shape, AtTrace, Option
  <2>3. Trace \in TraceFile
    BY <2>2 DEF Trace, Files
  <2>4. Live \in SUBSET Ids(Trace) /\ IsFiniteSet(Live)
    <3>1. Live \in SUBSET Ids(Trace)
      BY DEF Live
    <3> QED BY <2>3, <3>1, IdsFinite, FS_Subset
  <2>5. \A id \in Live : blocks[id] \in Block
    BY <2>1 DEF Counting, Placed
  <2>6. MapThenSumSet(LAMBDA id : blocks[id].size, Live) = Sum(blocks, Live)
    BY <2>4, <2>5, LiveSum
  <2> QED BY <2>1, <2>6 DEF UtilRight, Counting
<1> QED BY <1>1, <1>2, <1>3, GradeInit, GradeStep, PTL DEF Spec

-----------------------------------------------------------------------------
(* The K-best sampler.                                                     *)

\* A sequence with x in place k, before what was there.
Inserted(u, x, k) ==
  [j \in 1 .. Len(u) + 1 |-> IF j < k THEN u[j] ELSE IF j = k THEN x ELSE u[j - 1]]

\* The turns of the insertion sort, and how far the last value comes in n.
Turning(z, values, pos) ==
  z = [n \in 0 .. kbest |->
         IF n = 0 THEN [v |-> values, pos |-> pos]
         ELSE LET s == z[n - 1] IN
              IF s.pos > 1 /\ s.v[s.pos - 1] > s.v[s.pos]
              THEN [v |-> [s.v EXCEPT ![s.pos - 1] = s.v[s.pos], ![s.pos] = s.v[s.pos - 1]],
                    pos |-> s.pos - 1]
              ELSE s]

Reached(u, k, n) == IF Len(u) + 1 - n >= k THEN Len(u) + 1 - n ELSE k

\* Place k of u is where x belongs.
Fits(u, x, k) ==
  /\ k \in 1 .. Len(u) + 1
  /\ \A j \in 1 .. k - 1 : u[j] <= x
  /\ \A j \in k .. Len(u) : u[j] > x

LEMMA InsertedNext ==
  ASSUME NEW u \in Seq(Nat), NEW x \in Nat, NEW p \in 2 .. Len(u) + 1,
         NEW w, w = Inserted(u, x, p)
  PROVE  [w EXCEPT ![p - 1] = w[p], ![p] = w[p - 1]] = Inserted(u, x, p - 1)
<1>1. w = [j \in 1 .. Len(u) + 1 |-> IF j < p THEN u[j] ELSE IF j = p THEN x ELSE u[j - 1]]
  BY DEF Inserted
<1>2. w[p] = x /\ w[p - 1] = u[p - 1]
  BY <1>1
<1>3. [w EXCEPT ![p - 1] = w[p], ![p] = w[p - 1]]
        = [j \in 1 .. Len(u) + 1 |->
             IF j = p THEN u[p - 1] ELSE IF j = p - 1 THEN x ELSE w[j]]
  BY <1>1, <1>2
<1>4. \A j \in 1 .. Len(u) + 1 :
        (IF j = p THEN u[p - 1] ELSE IF j = p - 1 THEN x ELSE w[j])
          = IF j < p - 1 THEN u[j] ELSE IF j = p - 1 THEN x ELSE u[j - 1]
  BY <1>1
<1> QED BY <1>3, <1>4 DEF Inserted

\* One turn of the sort.
LEMMA TurnIs ==
  ASSUME NEW u \in Seq(Nat), NEW x \in Nat, NEW k, Fits(u, x, k),
         NEW n \in Nat, n >= 1, NEW s,
         s = [v |-> Inserted(u, x, Reached(u, k, n - 1)), pos |-> Reached(u, k, n - 1)]
  PROVE  (IF s.pos > 1 /\ s.v[s.pos - 1] > s.v[s.pos]
          THEN [v |-> [s.v EXCEPT ![s.pos - 1] = s.v[s.pos], ![s.pos] = s.v[s.pos - 1]],
                pos |-> s.pos - 1]
          ELSE s)
         = [v |-> Inserted(u, x, Reached(u, k, n)), pos |-> Reached(u, k, n)]
<1>1. PICK p, w : p = s.pos /\ w = s.v
  OBVIOUS
<1>2. k \in Nat /\ k >= 1 /\ k <= Len(u) + 1 /\ Len(u) \in Nat
  BY DEF Fits
<1>3. p = Reached(u, k, n - 1) /\ p \in k .. Len(u) + 1 /\ w = Inserted(u, x, p)
  BY <1>1, <1>2 DEF Reached
<1>4. CASE p = k
  <2>1. Reached(u, k, n) = p
    <3>1. PICK l : l = Len(u)
      OBVIOUS
    <3>2. l \in Nat /\ k = IF l + 1 - (n - 1) >= k THEN l + 1 - (n - 1) ELSE k
      BY <1>3, <1>4, <3>1 DEF Reached
    <3>3. l + 1 - (n - 1) <= k
      BY <1>2, <3>2
    <3>4. ~ (l + 1 - n >= k)
      BY <1>2, <3>2, <3>3
    <3> QED BY <1>4, <3>1, <3>4 DEF Reached
  <2>2. ~ (p > 1 /\ w[p - 1] > w[p])
    <3>1. SUFFICES ASSUME p > 1 PROVE ~ (w[p - 1] > w[p])
      OBVIOUS
    <3>2. w[p - 1] = u[p - 1] /\ w[p] = x
      BY <1>2, <1>3, <3>1 DEF Inserted
    <3>3. u[p - 1] <= x /\ u[p - 1] \in Nat
      BY <1>2, <1>3, <1>4, <3>1 DEF Fits
    <3> QED BY <3>2, <3>3
  <2> QED BY <1>1, <1>3, <2>1, <2>2
<1>5. CASE p # k
  <2>1. Reached(u, k, n) = p - 1 /\ p > 1
    BY <1>2, <1>3, <1>5 DEF Reached
  <2>2. w[p - 1] > w[p]
    <3>1. w[p - 1] = u[p - 1] /\ w[p] = x
      BY <1>2, <1>3, <2>1 DEF Inserted
    <3>2. u[p - 1] > x
      BY <1>2, <1>3, <1>5 DEF Fits
    <3> QED BY <3>1, <3>2
  <2>3. [w EXCEPT ![p - 1] = w[p], ![p] = w[p - 1]] = Inserted(u, x, p - 1)
    BY <1>2, <1>3, <2>1, InsertedNext
  <2> QED BY <1>1, <1>3, <2>1, <2>2, <2>3
<1> QED BY <1>4, <1>5

\* The insertion sort inserts.
LEMMA SortedIs ==
  ASSUME NEW u \in Seq(Nat), NEW x \in Nat, NEW k, Fits(u, x, k), Len(u) < kbest,
         NEW values, values = Inserted(u, x, Len(u) + 1)
  PROVE  Sorted(values, Len(u) + 1) = Inserted(u, x, k)
<1> DEFINE At(n) == [v |-> Inserted(u, x, Reached(u, k, n)), pos |-> Reached(u, k, n)]
<1>1. kbest \in Nat /\ kbest >= 1 /\ Len(u) \in Nat
  BY SamplerAssumption
<1>2. At(0) = [v |-> values, pos |-> Len(u) + 1]
  <2>1. Reached(u, k, 0) = Len(u) + 1
    BY <1>1 DEF Reached, Fits
  <2> QED BY <2>1
<1>3. \E z : Turning(z, values, Len(u) + 1)
  <2>1. PICK z : z = [n \in 0 .. kbest |-> At(n)]
    OBVIOUS
  <2>2. \A n \in 0 .. kbest : z[n] =
         IF n = 0 THEN [v |-> values, pos |-> Len(u) + 1]
         ELSE LET s == z[n - 1] IN
              IF s.pos > 1 /\ s.v[s.pos - 1] > s.v[s.pos]
              THEN [v |-> [s.v EXCEPT ![s.pos - 1] = s.v[s.pos], ![s.pos] = s.v[s.pos - 1]],
                    pos |-> s.pos - 1]
              ELSE s
    <3> TAKE n \in 0 .. kbest
    <3>1. CASE n = 0
      BY <1>2, <2>1, <3>1
    <3>2. CASE n # 0
      <4>1. z[n - 1] = At(n - 1) /\ z[n] = At(n) /\ n \in Nat /\ n >= 1
        BY <1>1, <2>1, <3>2
      <4> QED BY SMTT(30), <3>2, <4>1, TurnIs
    <3> QED BY <3>1, <3>2
  <2> DEFINE Turned(n) ==
         IF n = 0 THEN [v |-> values, pos |-> Len(u) + 1]
         ELSE LET s == z[n - 1] IN
              IF s.pos > 1 /\ s.v[s.pos - 1] > s.v[s.pos]
              THEN [v |-> [s.v EXCEPT ![s.pos - 1] = s.v[s.pos], ![s.pos] = s.v[s.pos - 1]],
                    pos |-> s.pos - 1]
              ELSE s
  <2>3. z = [n \in 0 .. kbest |-> Turned(n)]
    <3>1. \A n \in 0 .. kbest : z[n] = Turned(n)
      BY <2>2
    <3> HIDE DEF Turned
    <3> QED BY <2>1, <3>1
  <2> QED BY <2>3 DEF Turning
<1>4. PICK z : /\ Turning(z, values, Len(u) + 1)
               /\ Sorted(values, Len(u) + 1) = z[kbest].v
  BY <1>3 DEF Sorted, Turning
<1> DEFINE Wrong == {n \in 0 .. kbest : z[n] # At(n)}
<1>5. Wrong = {}
  <2>1. SUFFICES ASSUME Wrong # {} PROVE FALSE
    OBVIOUS
  <2>2. PICK n \in Wrong : \A m \in Wrong : n <= m
    <3>1. Wrong \in SUBSET Nat
      BY <1>1
    <3> HIDE DEF Wrong
    <3> QED BY <2>1, <3>1, NatMin
  <2>3. z[n] = IF n = 0 THEN [v |-> values, pos |-> Len(u) + 1]
               ELSE LET s == z[n - 1] IN
                    IF s.pos > 1 /\ s.v[s.pos - 1] > s.v[s.pos]
                    THEN [v |-> [s.v EXCEPT ![s.pos - 1] = s.v[s.pos], ![s.pos] = s.v[s.pos - 1]],
                          pos |-> s.pos - 1]
                    ELSE s
    BY Zenon, <1>4, <2>2 DEF Turning
  <2>4. n # 0
    BY <1>2, <2>2, <2>3
  <2>5. z[n - 1] = At(n - 1)
    <3>1. n - 1 \in 0 .. kbest /\ ~ (n <= n - 1)
      BY <1>1, <2>2, <2>4
    <3> QED BY <2>2, <3>1
  <2>6. z[n] = At(n)
    BY <1>1, <2>2, <2>3, <2>4, <2>5, TurnIs
  <2> QED BY <2>2, <2>6
<1>6. z[kbest] = At(kbest)
  BY SMTT(30), <1>1, <1>5
<1>7. Reached(u, k, kbest) = k
  BY <1>1 DEF Reached, Fits
<1> QED BY <1>4, <1>6, <1>7

\* Every value has a place.
LEMMA FitsSomewhere ==
  ASSUME NEW u \in Seq(Nat), NEW x \in Nat, \A j, n \in 1 .. Len(u) : j < n => u[j] <= u[n]
  PROVE  \E k : Fits(u, x, k)
<1> DEFINE T == {j \in 1 .. Len(u) + 1 : j = Len(u) + 1 \/ u[j] > x}
<1>1. Len(u) \in Nat
  OBVIOUS
<1>2. PICK k \in T : \A j \in T : k <= j
  <2>1. T \in SUBSET Nat
    BY <1>1
  <2>2. Len(u) + 1 \in T
    BY <1>1
  <2> HIDE DEF T
  <2> QED BY <2>1, <2>2, NatMin
<1>3. \A j \in 1 .. k - 1 : u[j] <= x
  <2> TAKE j \in 1 .. k - 1
  <2>1. j \in 1 .. Len(u) /\ ~ (k <= j) /\ u[j] \in Nat
    BY <1>1, <1>2
  <2> QED BY <1>2, <2>1
<1>4. \A j \in k .. Len(u) : u[j] > x
  <2> TAKE j \in k .. Len(u)
  <2>1. k \in 1 .. Len(u) /\ j \in 1 .. Len(u) /\ u[k] \in Nat /\ u[j] \in Nat
    BY <1>1, <1>2
  <2>2. u[k] > x
    BY <1>1, <1>2, <2>1
  <2>3. k = j \/ u[k] <= u[j]
    BY <2>1
  <2> QED BY <2>1, <2>2, <2>3
<1> QED BY <1>1, <1>2, <1>3, <1>4 DEF Fits

\* v holds, in order, the samples q that p names, and no other sample is less.
Holds(v, p, q) ==
  /\ v \in Seq(Nat) /\ q \in Seq(Nat) /\ p \in [1 .. Len(v) -> 1 .. Len(q)]
  /\ \A j, n \in 1 .. Len(v) : j # n => p[j] # p[n]
  /\ \A n \in 1 .. Len(v) : v[n] = q[p[n]]
  /\ \A j, n \in 1 .. Len(v) : j < n => v[j] <= v[n]
  /\ \A j \in 1 .. Len(q) :
       (\A n \in 1 .. Len(v) : p[n] # j) => \A n \in 1 .. Len(v) : v[n] <= q[j]

LEMMA Numbers ==
  ASSUME NEW v, v \in Seq(Nat), NEW l, l = Len(v)
  PROVE  \A n \in 1 .. l : v[n] \in Nat
OBVIOUS

\* A value that is no greater than the other samples joins those that are held.
LEMMA HoldsInserted ==
  ASSUME NEW v, NEW p, NEW q, Holds(v, p, q), NEW x \in Nat, NEW k, Fits(v, x, k),
         \A j \in 1 .. Len(q) : (\A n \in 1 .. Len(v) : p[n] # j) => x <= q[j],
         NEW z, z = Len(q) + 1
  PROVE  /\ Holds(Inserted(v, x, k), Inserted(p, z, k), Append(q, x))
         /\ Len(Inserted(v, x, k)) = Len(v) + 1
<1>0. PICK w, r, t : w = Inserted(v, x, k) /\ r = Inserted(p, z, k) /\ t = Append(q, x)
  OBVIOUS
<1>1. PICK l, m : l = Len(v) /\ m = Len(q)
  OBVIOUS
<1>2. /\ l \in Nat /\ m \in Nat /\ k \in 1 .. l + 1 /\ Len(p) = l
      /\ \A n \in 1 .. l : v[n] \in Nat /\ p[n] \in 1 .. m
      /\ \A j \in 1 .. m : q[j] \in Nat
  <2>1. /\ v \in Seq(Nat) /\ q \in Seq(Nat) /\ p \in [1 .. l -> 1 .. m]
        /\ k \in 1 .. l + 1
    BY <1>1 DEF Holds, Fits
  <2>2. l \in Nat /\ m \in Nat
    BY <1>1, <2>1
  <2>3. p = [n \in 1 .. l |-> p[n]]
    BY <2>1
  <2>4. Len(p) = l
    BY <2>2, <2>3
  <2>5. (\A n \in 1 .. l : v[n] \in Nat) /\ (\A j \in 1 .. m : q[j] \in Nat)
    BY <1>1, <2>1, Numbers
  <2>6. \A n \in 1 .. l : p[n] \in 1 .. m
    BY <2>1
  <2> QED BY <2>1, <2>2, <2>4, <2>5, <2>6
<1>3. /\ t \in Seq(Nat) /\ Len(t) = m + 1 /\ t[m + 1] = x
      /\ \A j \in 1 .. m : t[j] = q[j]
  BY <1>0, <1>1 DEF Holds
<1>4. /\ w = [j \in 1 .. l + 1 |-> IF j < k THEN v[j] ELSE IF j = k THEN x ELSE v[j - 1]]
      /\ r = [j \in 1 .. l + 1 |-> IF j < k THEN p[j] ELSE IF j = k THEN m + 1 ELSE p[j - 1]]
  BY <1>0, <1>1, <1>2 DEF Inserted
<1>5. w \in Seq(Nat) /\ Len(w) = l + 1
  <2>1. \A j \in 1 .. l + 1 : w[j] \in Nat
    BY <1>2, <1>4
  <2> QED BY <1>2, <1>4, <2>1
<1>6. r \in [1 .. l + 1 -> 1 .. m + 1]
  <2>1. \A j \in 1 .. l + 1 : r[j] \in 1 .. m + 1
    <3> TAKE j \in 1 .. l + 1
    <3>1. CASE j < k
      <4>1. j \in 1 .. l /\ r[j] = p[j]
        BY <1>2, <1>4, <3>1
      <4> QED BY <1>2, <4>1
    <3>2. CASE j = k
      BY <1>2, <1>4, <3>2
    <3>3. CASE j > k
      <4>1. j - 1 \in 1 .. l /\ r[j] = p[j - 1]
        BY <1>2, <1>4, <3>3
      <4> QED BY <1>2, <4>1
    <3> QED BY <1>2, <3>1, <3>2, <3>3
  <2> QED BY <1>4, <2>1
<1>7. \A j, n \in 1 .. l + 1 : j # n => r[j] # r[n]
  <2>1. \A j, n \in 1 .. l : j # n => p[j] # p[n]
    BY <1>1 DEF Holds
  <2>2. \A j, n \in 1 .. l + 1 : j < n => r[j] # r[n]
    <3> SUFFICES ASSUME NEW j \in 1 .. l + 1, NEW n \in 1 .. l + 1, j < n PROVE r[j] # r[n]
      OBVIOUS
    <3> DEFINE o(a) == IF a < k THEN a ELSE a - 1
    <3>1. \A a \in 1 .. l + 1 : a # k => o(a) \in 1 .. l /\ r[a] = p[o(a)]
      <4> TAKE a \in 1 .. l + 1
      <4> QED BY <1>2, <1>4
    <3>4. j # k /\ n # k => o(j) # o(n)
      BY <1>2
    <3>2. \A a \in 1 .. l + 1 : a # k => r[a] # m + 1
      <4> HIDE DEF o
      <4> QED BY <1>2, <3>1
    <3>3. r[k] = m + 1
      BY <1>2, <1>4
    <3> HIDE DEF o
    <3> QED BY <2>1, <3>1, <3>2, <3>3, <3>4
  <2> TAKE j, n \in 1 .. l + 1
  <2>3. j # n => j < n \/ n < j
    BY <1>2
  <2> QED BY <2>2, <2>3
<1>8. \A n \in 1 .. l + 1 : w[n] = t[r[n]]
  <2>1. \A n \in 1 .. l : v[n] = t[p[n]]
    BY <1>1, <1>2, <1>3 DEF Holds
  <2> QED BY <1>2, <1>3, <1>4, <2>1
<1>9. \A j, n \in 1 .. l + 1 : j < n => w[j] <= w[n]
  <2> TAKE j, n \in 1 .. l + 1
  <2>1. /\ \A a, b \in 1 .. l : a < b => v[a] <= v[b]
        /\ \A a \in 1 .. k - 1 : v[a] <= x
        /\ \A a \in k .. l : v[a] > x
    BY <1>1 DEF Holds, Fits
  <2> SUFFICES ASSUME j < n PROVE w[j] <= w[n]
    OBVIOUS
  <2>2. CASE n < k
    <3>1. j \in 1 .. l /\ n \in 1 .. l /\ w[j] = v[j] /\ w[n] = v[n]
      BY <1>2, <1>4, <2>2
    <3> QED BY <2>1, <3>1
  <2>3. CASE n = k
    <3>1. j \in 1 .. k - 1 /\ w[j] = v[j] /\ w[n] = x
      BY <1>2, <1>4, <2>3
    <3> QED BY <2>1, <3>1
  <2>4. CASE n > k
    <3>1. n - 1 \in k .. l /\ n - 1 \in 1 .. l /\ w[n] = v[n - 1]
      BY <1>2, <1>4, <2>4
    <3>2. v[n - 1] > x /\ v[n - 1] \in Nat
      BY <1>2, <2>1, <3>1
    <3>3. CASE j < k
      <4>1. j \in 1 .. l /\ w[j] = v[j] /\ j < n - 1
        BY <1>2, <1>4, <2>4, <3>3
      <4> QED BY <2>1, <3>1, <4>1
    <3>4. CASE j = k
      BY <1>2, <1>4, <3>1, <3>2, <3>4
    <3>5. CASE j > k
      <4>1. j - 1 \in 1 .. l /\ w[j] = v[j - 1] /\ j - 1 < n - 1
        BY <1>2, <1>4, <2>4, <3>5
      <4> QED BY <2>1, <3>1, <4>1
    <3> QED BY <1>2, <3>3, <3>4, <3>5
  <2> QED BY <1>2, <2>2, <2>3, <2>4
<1>10. ASSUME NEW j \in 1 .. m + 1, \A n \in 1 .. l + 1 : r[n] # j,
              NEW n \in 1 .. l + 1
       PROVE  w[n] <= t[j]
  <2>1. r[k] = m + 1
    BY <1>2, <1>4
  <2>2. j \in 1 .. m /\ t[j] = q[j]
    BY <1>2, <1>3, <1>10, <2>1
  <2>3. \A a \in 1 .. l : p[a] # j
    <3> TAKE a \in 1 .. l
    <3>1. a \in 1 .. l + 1 /\ a + 1 \in 1 .. l + 1
      BY <1>2
    <3>2. p[a] = r[a] \/ p[a] = r[a + 1]
      BY <1>2, <1>4, <3>1
    <3> QED BY <1>10, <3>1, <3>2
  <2>4. x <= q[j] /\ \A a \in 1 .. l : v[a] <= q[j]
    BY <1>1, <2>2, <2>3 DEF Holds
  <2> QED BY <1>2, <1>4, <2>2, <2>4
<1>11. Holds(w, r, t)
  BY <1>1, <1>3, <1>5, <1>6, <1>7, <1>8, <1>9, <1>10 DEF Holds
<1> QED BY <1>0, <1>1, <1>5, <1>11

Cut(u, l) == [n \in 1 .. l |-> u[n]]

\* All but the last of the values that are held.
LEMMA HoldsShorter ==
  ASSUME NEW v, NEW p, NEW q, Holds(v, p, q), NEW l \in Nat, Len(v) = l + 1,
         NEW z, z = v[l + 1]
  PROVE  /\ Holds(Cut(v, l), Cut(p, l), q) /\ Len(Cut(v, l)) = l
         /\ \A j \in 1 .. Len(q) : (\A n \in 1 .. l : Cut(p, l)[n] # j) => z <= q[j]
<1> PICK u, r : u = Cut(v, l) /\ r = Cut(p, l)
  OBVIOUS
<1>9. u = [n \in 1 .. l |-> v[n]] /\ r = [n \in 1 .. l |-> p[n]]
  BY DEF Cut
<1>0. /\ v \in Seq(Nat) /\ q \in Seq(Nat) /\ \A n \in 1 .. l + 1 : v[n] \in Nat
      /\ p \in [1 .. l + 1 -> 1 .. Len(q)]
      /\ \A j, n \in 1 .. l + 1 : j # n => p[j] # p[n]
      /\ \A n \in 1 .. l + 1 : v[n] = q[p[n]]
      /\ \A j, n \in 1 .. l + 1 : j < n => v[j] <= v[n]
      /\ \A j \in 1 .. Len(q) :
           (\A n \in 1 .. l + 1 : p[n] # j) => \A n \in 1 .. l + 1 : v[n] <= q[j]
  <2>1. v \in Seq(Nat) /\ 1 .. Len(v) = 1 .. l + 1
    BY DEF Holds
  <2>2. \A n \in 1 .. Len(v) : v[n] \in Nat
    BY <2>1
  <2> QED BY <2>1, <2>2 DEF Holds
<1>1. u \in Seq(Nat) /\ Len(u) = l
  <2>1. \A n \in 1 .. l : v[n] \in Nat
    BY <1>0
  <2> QED BY <1>9, <2>1
<1>2. /\ r \in [1 .. l -> 1 .. Len(q)]
      /\ \A j, n \in 1 .. l : j # n => r[j] # r[n]
      /\ \A n \in 1 .. l : u[n] = q[r[n]]
      /\ \A j, n \in 1 .. l : j < n => u[j] <= u[n]
  <2>1. \A n \in 1 .. l : n \in 1 .. l + 1 /\ u[n] = v[n] /\ r[n] = p[n]
    BY <1>9
  <2>2. \A n \in 1 .. l : r[n] \in 1 .. Len(q)
    BY <1>0, <2>1
  <2>3. r \in [1 .. l -> 1 .. Len(q)]
    BY <1>9, <2>2
  <2>4. \A j, n \in 1 .. l : j # n => r[j] # r[n]
    BY <1>0, <2>1
  <2>5. \A n \in 1 .. l : u[n] = q[r[n]]
    BY <1>0, <2>1
  <2>6. \A j, n \in 1 .. l : j < n => u[j] <= u[n]
    BY <1>0, <2>1
  <2> QED BY <2>3, <2>4, <2>5, <2>6
<1>3. ASSUME NEW j \in 1 .. Len(q), \A n \in 1 .. l : r[n] # j
      PROVE  v[l + 1] <= q[j] /\ \A n \in 1 .. l : u[n] <= q[j]
  <2>2. \A n \in 1 .. l : u[n] = v[n] /\ v[n] <= v[l + 1] /\ v[n] \in Nat
    <3> TAKE n \in 1 .. l
    <3>1. n \in 1 .. l + 1 /\ l + 1 \in 1 .. l + 1 /\ n < l + 1 /\ u[n] = v[n]
      BY <1>9
    <3> QED BY <1>0, <3>1
  <2>1. v[l + 1] \in Nat
    BY <1>0
  <2>3. CASE p[l + 1] = j
    <3>1. v[l + 1] = q[j]
      BY <1>0, <2>3
    <3> QED BY <2>1, <2>2, <3>1
  <2>4. CASE p[l + 1] # j
    <3>1. \A n \in 1 .. l + 1 : p[n] # j
      <4> TAKE n \in 1 .. l + 1
      <4>1. CASE n \in 1 .. l
        BY <1>3, <1>9, <4>1
      <4>2. CASE n = l + 1
        BY <2>4, <4>2
      <4> QED BY <4>1, <4>2
    <3>2. \A n \in 1 .. l + 1 : v[n] <= q[j]
      BY <1>0, <3>1
    <3> QED BY <2>2, <3>2
  <2> QED BY <2>3, <2>4
<1>4. \A j \in 1 .. Len(q) :
        (\A n \in 1 .. l : r[n] # j) => \A n \in 1 .. l : u[n] <= q[j]
  BY <1>3
<1>5. Holds(u, r, q)
  BY <1>0, <1>1, <1>2, <1>4 DEF Holds
<1> QED BY <1>1, <1>3, <1>5

\* What a sampler remembers.
Sampled(s) ==
  /\ s = [values |-> s.values, samplecount |-> s.samplecount, samples |-> s.samples]
  /\ s.samplecount = Len(s.samples)
  /\ Len(s.values) <= kbest
  /\ \E p : /\ Holds(s.values, p, s.samples)
            /\ Len(s.values) < kbest =>
                 \A j \in 1 .. Len(s.samples) : \E n \in 1 .. Len(s.values) : p[n] = j

\* Values that are all held are as many as the samples.
LEMMA AllHeld ==
  ASSUME NEW v, NEW p, NEW q, Holds(v, p, q)
  PROVE  /\ Len(v) <= Len(q)
         /\ (\A j \in 1 .. Len(q) : \E n \in 1 .. Len(v) : p[n] = j) => Len(v) = Len(q)
<1>1. PICK l, m : l = Len(v) /\ m = Len(q)
  OBVIOUS
<1>2. l \in Nat /\ m \in Nat
  BY <1>1 DEF Holds
<1>3. /\ IsFiniteSet(1 .. l) /\ Cardinality(1 .. l) = l
      /\ IsFiniteSet(1 .. m) /\ Cardinality(1 .. m) = m
  BY <1>2, FS_Interval
<1>4. p \in [1 .. l -> 1 .. m] /\ \A j, n \in 1 .. l : j # n => p[j] # p[n]
  BY <1>1 DEF Holds
<1>5. l <= m
  <2>1. p \in Injection(1 .. l, 1 .. m)
    <3>1. \A j, n \in 1 .. l : p[j] = p[n] => j = n
      BY <1>4
    <3> QED BY <1>4, <3>1 DEF Injection, IsInjective
  <2> QED BY <1>3, <2>1, FS_Injection
<1>6. ASSUME \A j \in 1 .. m : \E n \in 1 .. l : p[n] = j
      PROVE  l = m
  <2>1. p \in Surjection(1 .. l, 1 .. m)
    BY <1>4, <1>6 DEF Surjection
  <2>2. m <= l
    BY <1>3, <2>1, FS_Surjection
  <2> QED BY <1>2, <1>5, <2>2
<1> QED BY <1>1, <1>5, <1>6

\* A sample that comes to the sampler.
LEMMA SampledStep ==
  ASSUME NEW s, Sampled(s), NEW x \in Nat
  PROVE  Sampled(add_sample(s, x))
<1>1. PICK v, q, p : /\ v = s.values /\ q = s.samples /\ Holds(v, p, q)
                     /\ Len(v) < kbest =>
                          \A j \in 1 .. Len(q) : \E n \in 1 .. Len(v) : p[n] = j
  BY DEF Sampled
<1>2. PICK l, m, t : l = Len(v) /\ m = Len(q) /\ t = Append(q, x)
  OBVIOUS
<1>3. /\ l \in Nat /\ m \in Nat /\ l <= kbest /\ kbest \in Nat /\ kbest >= 1
      /\ s.samplecount = m /\ v \in Seq(Nat) /\ q \in Seq(Nat)
      /\ \A j, n \in 1 .. l : j < n => v[j] <= v[n]
  BY <1>1, <1>2, SamplerAssumption DEF Holds, Sampled
<1>4. t \in Seq(Nat) /\ Len(t) = m + 1 /\ t[m + 1] = x /\ \A j \in 1 .. m : t[j] = q[j]
  BY <1>2, <1>3
<1>5. l <= m /\ (l < kbest => l = m)
  BY <1>1, <1>2, AllHeld
<1>6. PICK a : a = add_sample(s, x)
  OBVIOUS
<1>7. /\ a = [values |-> a.values, samplecount |-> a.samplecount, samples |-> a.samples]
      /\ a.samplecount = m + 1 /\ a.samples = t
      /\ m < kbest => a.values = Sorted(Append(v, x), m + 1)
      /\ m >= kbest /\ x < v[kbest] => a.values = Sorted([v EXCEPT ![kbest] = x], kbest)
      /\ m >= kbest /\ ~ (x < v[kbest]) => a.values = v
  BY <1>1, <1>2, <1>3, <1>6 DEF add_sample
<1>8. ASSUME NEW w, NEW r, a.values = w, Len(w) <= kbest, Holds(w, r, t),
             Len(w) < kbest =>
               \A j \in 1 .. m + 1 : \E n \in 1 .. Len(w) : r[n] = j
      PROVE  Sampled(add_sample(s, x))
  <2>1. a.samplecount = Len(a.samples) /\ a.samples = t
    BY <1>4, <1>7
  <2>2. Holds(a.values, r, a.samples) /\ Len(a.values) <= kbest
    BY <1>4, <1>8, <2>1
  <2>3. Len(a.values) < kbest =>
          \A j \in 1 .. Len(a.samples) : \E n \in 1 .. Len(a.values) : r[n] = j
    BY <1>4, <1>8, <2>1
  <2>4. Sampled(a)
    BY <1>7, <2>1, <2>2, <2>3 DEF Sampled
  <2> QED BY <1>6, <2>4
<1>9. CASE m < kbest
  <2>1. l = m /\ l < kbest
    BY <1>3, <1>5, <1>9
  <2>2. PICK k : Fits(v, x, k)
    BY <1>2, <1>3, FitsSomewhere
  <2>3. PICK w, r : w = Inserted(v, x, k) /\ r = Inserted(p, m + 1, k)
    OBVIOUS
  <2>0. PICK z : z = m + 1
    OBVIOUS
  <2>4. \A j \in 1 .. m : \E n \in 1 .. l : p[n] = j
    BY <1>1, <1>2, <2>1
  <2>5. Holds(w, r, t) /\ Len(w) = l + 1
    <3>1. \A j \in 1 .. Len(q) : (\A n \in 1 .. Len(v) : p[n] # j) => x <= q[j]
      BY <1>2, <2>4
    <3>2. Holds(v, p, q) /\ z = Len(q) + 1
      BY <1>1, <1>2, <2>0
    <3>3. /\ Holds(Inserted(v, x, k), Inserted(p, z, k), Append(q, x))
          /\ Len(Inserted(v, x, k)) = Len(v) + 1
      BY <2>2, <3>1, <3>2, HoldsInserted
    <3> QED BY <1>2, <2>0, <2>3, <3>3
  <2>6. Append(v, x) = Inserted(v, x, l + 1)
    <3>1. PICK f : f = Append(v, x)
      OBVIOUS
    <3>2. /\ f \in Seq(Nat) /\ Len(f) = l + 1 /\ f[l + 1] = x
          /\ \A j \in 1 .. l : f[j] = v[j]
      BY <1>2, <1>3, <3>1
    <3>3. f = [j \in 1 .. l + 1 |-> f[j]]
      BY <3>2
    <3>4. PICK g : g = Inserted(v, x, l + 1)
      OBVIOUS
    <3>5. /\ g = [j \in 1 .. l + 1 |-> g[j]] /\ g[l + 1] = x
          /\ \A j \in 1 .. l : g[j] = v[j]
      BY <1>2, <1>3, <3>4 DEF Inserted
    <3>6. \A j \in 1 .. l + 1 : f[j] = g[j]
      <4> TAKE j \in 1 .. l + 1
      <4>1. j = l + 1 \/ j \in 1 .. l
        BY <1>3
      <4> QED BY <3>2, <3>5, <4>1
    <3>7. f = g
      BY <3>3, <3>5, <3>6
    <3> QED BY <3>1, <3>4, <3>7
  <2>7. a.values = w
    <3>1. Append(v, x) = Inserted(v, x, Len(v) + 1) /\ Len(v) < kbest
      BY <1>2, <2>1, <2>6
    <3>2. Sorted(Append(v, x), Len(v) + 1) = Inserted(v, x, k)
      BY <1>3, <2>2, <3>1, SortedIs
    <3>3. Len(v) + 1 = m + 1
      BY <1>2, <2>1
    <3> QED BY <1>7, <1>9, <2>3, <3>2, <3>3
  <2>8. \A j \in 1 .. m + 1 : \E n \in 1 .. l + 1 : r[n] = j
    <3> TAKE j \in 1 .. m + 1
    <3>1. k \in 1 .. l + 1
      BY <1>2, <2>2 DEF Fits
    <3>2. Len(p) = l
      <4>1. p \in [1 .. l -> 1 .. m]
        BY <1>1, <1>2 DEF Holds
      <4>2. p = [n \in 1 .. l |-> p[n]]
        BY <4>1
      <4> QED BY <1>3, <4>2
    <3>3. r = [n \in 1 .. l + 1 |-> IF n < k THEN p[n] ELSE IF n = k THEN m + 1 ELSE p[n - 1]]
      BY <2>3, <3>2 DEF Inserted
    <3>4. CASE j = m + 1
      BY <3>1, <3>3, <3>4
    <3>5. CASE j # m + 1
      <4>1. PICK n \in 1 .. l : p[n] = j
        BY <1>3, <2>4, <3>5
      <4>2. n \in 1 .. l + 1 /\ n + 1 \in 1 .. l + 1
        BY <1>3
      <4>3. r[n] = p[n] \/ r[n + 1] = p[n]
        BY <1>3, <3>1, <3>3, <4>2
      <4> QED BY <4>1, <4>2, <4>3
    <3> QED BY <3>4, <3>5
  <2>9. Len(w) <= kbest
    BY <1>3, <2>1, <2>5
  <2>10. \A j \in 1 .. m + 1 : \E n \in 1 .. Len(w) : r[n] = j
    <3>1. 1 .. Len(w) = 1 .. l + 1
      BY <2>5
    <3> QED BY <2>8, <3>1
  <2>11. Holds(w, r, t)
    BY <2>5
  <2> QED BY <1>8, <2>7, <2>9, <2>10, <2>11
<1>10. CASE m >= kbest /\ x < v[kbest]
  <2>1. l = kbest
    BY <1>3, <1>5, <1>10
  <2>2. PICK n0 \in Nat : l = n0 + 1
    <3>1. l - 1 \in Nat /\ l = (l - 1) + 1
      BY <1>3, <2>1
    <3> QED BY <3>1
  <2>3. PICK u, b : u = Cut(v, n0) /\ b = Cut(p, n0)
    OBVIOUS
  <2>4. /\ Holds(u, b, q) /\ Len(u) = n0
        /\ \A j \in 1 .. Len(q) : (\A n \in 1 .. n0 : b[n] # j) => v[n0 + 1] <= q[j]
    <3>1. Len(v) = n0 + 1
      BY <1>2, <2>2
    <3>2. Holds(v, p, q)
      BY <1>1
    <3>3. PICK z : z = v[n0 + 1]
      OBVIOUS
    <3>4. /\ Holds(Cut(v, n0), Cut(p, n0), q) /\ Len(Cut(v, n0)) = n0
          /\ \A j \in 1 .. Len(q) : (\A n \in 1 .. n0 : Cut(p, n0)[n] # j) => z <= q[j]
      BY <3>1, <3>2, <3>3, HoldsShorter
    <3> QED BY <2>3, <3>3, <3>4
  <2>5. u \in Seq(Nat) /\ \A j, n \in 1 .. n0 : j < n => u[j] <= u[n]
    BY <2>4 DEF Holds
  <2>6. PICK k : Fits(u, x, k)
    BY <2>4, <2>5, FitsSomewhere
  <2>7. PICK w, r : w = Inserted(u, x, k) /\ r = Inserted(b, m + 1, k)
    OBVIOUS
  <2>8. Holds(w, r, t) /\ Len(w) = n0 + 1
    <3>1. \A j \in 1 .. Len(q) : (\A n \in 1 .. Len(u) : b[n] # j) => x <= q[j]
      <4> SUFFICES ASSUME NEW j \in 1 .. Len(q), \A n \in 1 .. n0 : b[n] # j
                   PROVE  x <= q[j]
        BY <2>4
      <4>1. v[n0 + 1] <= q[j]
        BY <2>4
      <4>2. kbest = n0 + 1 /\ x < v[n0 + 1]
        BY <1>10, <2>1, <2>2
      <4>3. n0 + 1 \in 1 .. Len(v) /\ j \in 1 .. Len(q)
        BY <1>2, <2>2
      <4>4. q[j] \in Nat /\ v[n0 + 1] \in Nat
        BY <1>3, <4>3
      <4> QED BY <4>1, <4>2, <4>4
    <3>2. PICK z : z = Len(q) + 1
      OBVIOUS
    <3>3. Holds(u, b, q)
      BY <2>4
    <3>4. /\ Holds(Inserted(u, x, k), Inserted(b, z, k), Append(q, x))
          /\ Len(Inserted(u, x, k)) = Len(u) + 1
      BY <2>6, <3>1, <3>2, <3>3, HoldsInserted
    <3> QED BY <1>2, <2>4, <2>7, <3>2, <3>4
  <2>9. [v EXCEPT ![kbest] = x] = Inserted(u, x, n0 + 1)
    <3>1. PICK f : f = [v EXCEPT ![kbest] = x]
      OBVIOUS
    <3>2. v = [j \in 1 .. n0 + 1 |-> v[j]]
      <4>1. v = [j \in 1 .. Len(v) |-> v[j]]
        BY <1>3
      <4> QED BY <1>2, <2>2, <4>1
    <3>3. /\ f = [j \in 1 .. n0 + 1 |-> f[j]] /\ f[n0 + 1] = x
          /\ \A j \in 1 .. n0 : f[j] = v[j]
      <4>1. f = [j \in 1 .. n0 + 1 |-> IF j = n0 + 1 THEN x ELSE v[j]]
        <5>1. kbest = n0 + 1
          BY <2>1, <2>2
        <5> QED BY <3>1, <3>2, <5>1
      <4> QED BY <4>1
    <3>4. PICK g : g = Inserted(u, x, n0 + 1)
      OBVIOUS
    <3>5. /\ g = [j \in 1 .. n0 + 1 |-> g[j]] /\ g[n0 + 1] = x
          /\ \A j \in 1 .. n0 : g[j] = v[j]
      BY <2>3, <2>4, <3>4 DEF Inserted, Cut
    <3>6. \A j \in 1 .. n0 + 1 : f[j] = g[j]
      <4> TAKE j \in 1 .. n0 + 1
      <4>1. j = n0 + 1 \/ j \in 1 .. n0
        OBVIOUS
      <4> QED BY <3>3, <3>5, <4>1
    <3>7. f = g
      BY <3>3, <3>5, <3>6
    <3> QED BY <3>1, <3>4, <3>7
  <2>10. a.values = w
    <3>1. Len(u) < kbest /\ Len(u) + 1 = kbest
      BY <2>1, <2>2, <2>4
    <3>2. [v EXCEPT ![kbest] = x] = Inserted(u, x, Len(u) + 1)
      BY <2>4, <2>9
    <3>3. Sorted([v EXCEPT ![kbest] = x], Len(u) + 1) = w
      BY <2>5, <2>6, <2>7, <3>1, <3>2, SortedIs
    <3> QED BY <1>7, <1>10, <3>1, <3>3
  <2> QED BY <1>3, <1>8, <2>1, <2>2, <2>8, <2>10
<1>11. CASE m >= kbest /\ ~ (x < v[kbest])
  <2>1. l = kbest /\ v[l] \in Nat /\ v[l] <= x
    <3>1. l = kbest
      BY <1>3, <1>5, <1>11
    <3>2. l \in 1 .. Len(v)
      BY <1>2, <1>3, <3>1
    <3>3. v[l] \in Nat
      BY <1>3, <3>2
    <3> QED BY <1>11, <3>1, <3>3
  <2>2. \A n \in 1 .. l : v[n] \in Nat /\ v[n] <= x
    <3> TAKE n \in 1 .. l
    <3>1. v[n] \in Nat
      BY <1>2, <1>3
    <3>2. n = l \/ (n < l /\ l \in 1 .. l)
      BY <1>3
    <3>3. v[n] <= v[l]
      BY <1>3, <2>1, <3>1, <3>2
    <3> QED BY <2>1, <3>1, <3>3
  <2>3. Holds(v, p, t)
    <3>1. p \in [1 .. l -> 1 .. m] /\ \A n \in 1 .. l : p[n] \in 1 .. m
      BY <1>1, <1>2 DEF Holds
    <3>2. p \in [1 .. l -> 1 .. m + 1]
      <4>1. 1 .. m \subseteq 1 .. m + 1
        BY <1>3
      <4> QED BY <3>1, <4>1
    <3>3. \A n \in 1 .. l : v[n] = t[p[n]]
      BY <1>1, <1>2, <1>4, <3>1 DEF Holds
    <3>4. ASSUME NEW j \in 1 .. m + 1, \A n \in 1 .. l : p[n] # j
          PROVE  \A n \in 1 .. l : v[n] <= t[j]
      <4>1. CASE j = m + 1
        BY <1>4, <2>2, <4>1
      <4>2. CASE j # m + 1
        <5>1. j \in 1 .. m /\ t[j] = q[j]
          BY <1>3, <1>4, <4>2
        <5> QED BY <1>1, <1>2, <3>4, <5>1 DEF Holds
      <4> QED BY <4>1, <4>2
    <3>5. \A j, n \in 1 .. l : j # n => p[j] # p[n]
      BY <1>1, <1>2 DEF Holds
    <3> QED BY <1>2, <1>3, <1>4, <3>2, <3>3, <3>4, <3>5 DEF Holds
  <2>4. a.values = v /\ Len(v) = kbest
    BY <1>2, <1>7, <1>11, <2>1
  <2> QED BY <1>3, <1>8, <2>3, <2>4
<1>12. m < kbest \/ m >= kbest
  BY <1>3
<1> QED BY <1>9, <1>10, <1>11, <1>12

\* What is held in order are the least.
LEMMA SampledBest ==
  ASSUME NEW s, Sampled(s)
  PROVE  HoldsBest(s)
<1>1. PICK v, q, p : /\ v = s.values /\ q = s.samples /\ Holds(v, p, q)
                     /\ Len(v) <= kbest
                     /\ Len(v) < kbest =>
                          \A j \in 1 .. Len(q) : \E n \in 1 .. Len(v) : p[n] = j
  BY DEF Sampled
<1>2. PICK l, m : l = Len(v) /\ m = Len(q)
  OBVIOUS
<1>3. /\ l \in Nat /\ m \in Nat /\ l <= kbest /\ kbest \in Nat
      /\ v \in Seq(Nat) /\ q \in Seq(Nat) /\ DOMAIN v = 1 .. l /\ DOMAIN q = 1 .. m
      /\ p \in [1 .. l -> 1 .. m]
      /\ \A j, n \in 1 .. l : j # n => p[j] # p[n]
      /\ \A n \in 1 .. l : v[n] = q[p[n]] /\ p[n] \in 1 .. m
      /\ \A j, n \in 1 .. l : j < n => v[j] <= v[n]
      /\ \A j \in 1 .. m :
           (\A n \in 1 .. l : p[n] # j) => \A n \in 1 .. l : v[n] <= q[j]
  <2>1. v \in Seq(Nat) /\ q \in Seq(Nat) /\ l \in Nat /\ m \in Nat /\ l <= kbest /\ kbest \in Nat
    BY <1>1, <1>2, SamplerAssumption DEF Holds
  <2>2. DOMAIN v = 1 .. l /\ DOMAIN q = 1 .. m
    BY <1>2, <2>1
  <2>3. /\ p \in [1 .. l -> 1 .. m]
        /\ \A j, n \in 1 .. l : j # n => p[j] # p[n]
        /\ \A n \in 1 .. l : v[n] = q[p[n]]
        /\ \A j, n \in 1 .. l : j < n => v[j] <= v[n]
        /\ \A j \in 1 .. m :
             (\A n \in 1 .. l : p[n] # j) => \A n \in 1 .. l : v[n] <= q[j]
    BY <1>1, <1>2 DEF Holds
  <2> QED BY <2>1, <2>2, <2>3
<1>4. (\A n \in 1 .. l : v[n] \in Nat) /\ (\A j \in 1 .. m : q[j] \in Nat)
  BY <1>2, <1>3
<1>5. l = IF m < kbest THEN m ELSE kbest
  <2>1. l <= m /\ (l < kbest => l = m)
    BY <1>1, <1>2, AllHeld
  <2> QED BY <1>3, <2>1
<1>6. ASSUME NEW n \in 1 .. l PROVE NthLeast(q, n, v[n])
  <2> DEFINE Less == {j \in 1 .. m : q[j] < v[n]}
             Most == {j \in 1 .. m : q[j] <= v[n]}
  <2>0. n \in Nat /\ n >= 1 /\ n <= l /\ v[n] \in Nat
    BY <1>3, <1>4
  <2>1. /\ IsFiniteSet(Less) /\ Cardinality(Less) \in Nat
        /\ IsFiniteSet(Most) /\ Cardinality(Most) \in Nat
    <3>1. IsFiniteSet(1 .. m)
      BY <1>3, FS_Interval
    <3>2. IsFiniteSet(Less) /\ IsFiniteSet(Most)
      BY <3>1, FS_Subset
    <3> QED BY <3>2, FS_CardinalityType
  <2>2. Cardinality(Less) <= n - 1
    <3>1. PICK g : g = [k \in 1 .. n - 1 |-> p[k]]
      OBVIOUS
    <3>2. \A j \in Less : \E k \in 1 .. n - 1 : p[k] = j
      <4> TAKE j \in Less
      <4>1. PICK k \in 1 .. l : p[k] = j
        <5>1. j \in 1 .. m /\ ~ (v[n] <= q[j])
          BY <1>4, <2>0
        <5> QED BY <1>3, <5>1
      <4>2. ~ (v[n] <= v[k]) /\ v[k] \in Nat
        BY <1>3, <1>4, <2>0, <4>1
      <4>3. ~ (n < k) /\ k # n
        BY <1>3, <2>0, <4>2
      <4>4. k \in 1 .. n - 1
        BY <2>0, <4>3
      <4> QED BY <4>1, <4>4
    <3>3. PICK T : T = {p[k] : k \in 1 .. n - 1}
      OBVIOUS
    <3>4. g \in Surjection(1 .. n - 1, T)
      BY <3>1, <3>3 DEF Surjection
    <3>5. IsFiniteSet(1 .. n - 1) /\ Cardinality(1 .. n - 1) = n - 1
      <4>1. n - 1 \in Int /\ n - 1 >= 0
        BY <2>0
      <4>2. PICK c : c = n - 1
        OBVIOUS
      <4>3. IsFiniteSet(1 .. c) /\ Cardinality(1 .. c) = c
        BY <4>1, <4>2, FS_Interval
      <4> QED BY <4>2, <4>3
    <3>6. IsFiniteSet(T) /\ Cardinality(T) <= n - 1
      BY <3>4, <3>5, FS_Surjection
    <3>7. Less \subseteq T
      BY <3>2, <3>3
    <3>8. Cardinality(Less) <= Cardinality(T) /\ Cardinality(T) \in Nat
      BY <3>6, <3>7, FS_Subset, FS_CardinalityType
    <3> HIDE DEF Less
    <3> QED BY <2>0, <2>1, <3>6, <3>8
  <2>3. Cardinality(Most) >= n
    <3>1. PICK g : g = [k \in 1 .. n |-> p[k]]
      OBVIOUS
    <3>2. \A k \in 1 .. n : k \in 1 .. l /\ p[k] \in Most
      <4> TAKE k \in 1 .. n
      <4>1. k \in 1 .. l /\ (k = n \/ k < n)
        BY <1>3, <2>0
      <4>2. v[k] <= v[n]
        BY <1>3, <1>4, <2>0, <4>1
      <4> QED BY <1>3, <4>1, <4>2
    <3>3. \A j, k \in 1 .. n : p[j] = p[k] => j = k
      BY <1>3, <3>2
    <3>4. g \in [1 .. n -> Most]
      <4> HIDE DEF Most
      <4> QED BY <3>1, <3>2
    <3>5. g \in Injection(1 .. n, Most)
      BY <3>1, <3>3, <3>4 DEF Injection, IsInjective
    <3>6. Cardinality(1 .. n) <= Cardinality(Most)
      <4> HIDE DEF Most
      <4> QED BY <2>1, <3>5, FS_Injection
    <3>7. Cardinality(1 .. n) = n
      BY <2>0, FS_Interval
    <3> HIDE DEF Most
    <3> QED BY <2>0, <2>1, <3>6, <3>7
  <2>4. /\ Less = {j \in DOMAIN q : q[j] < v[n]}
        /\ Most = {j \in DOMAIN q : q[j] <= v[n]}
    BY <1>3
  <2> HIDE DEF Less, Most
  <2>5. Cardinality(Less) < n
    BY <2>0, <2>1, <2>2
  <2> QED BY <2>3, <2>4, <2>5 DEF NthLeast
<1> QED BY <1>1, <1>2, <1>3, <1>5, <1>6 DEF HoldsBest

Timed ==
  /\ timing = [sampler |-> timing.sampler, reps |-> timing.reps]
  /\ Sampled(timing.sampler)

LEMMA SampledFirst == Sampled(init_sampler)
<1>1. Holds(<<>>, <<>>, <<>>)
  BY DEF Holds
<1>2. /\ init_sampler.values = <<>> /\ init_sampler.samples = <<>>
      /\ init_sampler.samplecount = 0 /\ Len(<<>>) = 0 /\ kbest \in Nat
  BY SamplerAssumption DEF init_sampler
<1>3. init_sampler = [values |-> init_sampler.values, samplecount |-> init_sampler.samplecount,
                      samples |-> init_sampler.samples]
  BY DEF init_sampler
<1>4. \A j \in 1 .. Len(<<>>) : \E n \in 1 .. Len(<<>>) : <<>>[n] = j
  BY <1>2
<1> QED BY <1>1, <1>2, <1>3, <1>4 DEF Sampled

LEMMA TimedStep == Timed /\ [Next]_vars => Timed'
<1> SUFFICES ASSUME Timed, [Next]_vars PROVE Timed'
  OBVIOUS
<1>1. CASE UNCHANGED timing
  BY <1>1 DEF Timed
<1>2. ASSUME NEW t \in Times, t > 0, timing' = [timing EXCEPT !.sampler = add_sample(@, t)]
      PROVE  Timed'
  <2>1. t \in Nat
    BY <1>2, DriverAssumption
  <2>2. Sampled(add_sample(timing.sampler, t))
    BY <2>1, SampledStep DEF Timed
  <2>3. PICK f : f = add_sample(timing.sampler, t)
    OBVIOUS
  <2>4. timing' = [sampler |-> f, reps |-> timing.reps]
    BY <1>2, <2>3 DEF Timed
  <2> QED BY <2>2, <2>3, <2>4 DEF Timed
<1>3. CASE \E n : timing' = [sampler |-> init_sampler, reps |-> n]
  <2>1. PICK n : timing' = [sampler |-> init_sampler, reps |-> n]
    BY <1>3
  <2> QED BY <2>1, SampledFirst DEF Timed
<1>4. CASE \E n : timing' = [timing EXCEPT !.reps = n]
  <2>1. PICK n : timing' = [timing EXCEPT !.reps = n]
    BY <1>4
  <2>2. PICK f : f = timing.sampler
    OBVIOUS
  <2>3. timing' = [sampler |-> f, reps |-> n]
    BY <2>1, <2>2 DEF Timed
  <2> QED BY <2>2, <2>3 DEF Timed
<1>5. CASE WarmUp
  <2>1. CASE timing' = [timing EXCEPT !.reps = 2 * @]
    BY <1>4, <2>1
  <2>2. CASE timing' = [timing EXCEPT !.sampler = init_sampler]
    <3>1. timing' = [sampler |-> init_sampler, reps |-> timing.reps]
      BY <2>2 DEF Timed
    <3> QED BY <1>3, <3>1
  <2> QED BY <1>5, <2>1, <2>2 DEF WarmUp
<1>6. CASE Sample
  BY <1>1, <1>2, <1>6 DEF Sample
<1>7. CASE EndTiming
  BY <1>3, <1>7 DEF EndTiming
<1>8. CASE timeout_handler
  BY <1>3, <1>8 DEF timeout_handler
<1>9. CASE LibcTrace \/ eval_libc_valid \/ eval_libc_speed \/ LibcReport \/ Benchmark
           \/ OpenTrace \/ EndPass \/ EndUtil \/ eval_mm_speed \/ CloseTrace \/ AllTested
           \/ LateAlarm \/ Report \/ Ended \/ UNCHANGED vars
  BY <1>1, <1>9 DEF LibcTrace, eval_libc_valid, eval_libc_speed, LibcReport, Benchmark,
     OpenTrace, EndPass, EndUtil, eval_mm_speed, CloseTrace, AllTested, LateAlarm, Report,
     Ended, vars, Abort
<1>10. CASE StartPass
  BY <1>1, <1>10 DEF StartPass, Abort, Reject
<1>11. CASE eval_mm_util
  BY <1>1, <1>11 DEF eval_mm_util, Abort
<1>12. CASE eval_mm_valid
  BY Zenon, <1>1, <1>12 DEF eval_mm_valid, Malloc, Realloc, Free, Served, Reject
<1> QED BY <1>5, <1>6, <1>7, <1>8, <1>9, <1>10, <1>11, <1>12 DEF Next

\* KBest: the array of the sampler holds the kbest least of all the samples, in
\* order, whatever the clock showed (add_sample).
THEOREM DriverKBest == Spec => []KBest
<1>1. Init => Timed
  BY SampledFirst DEF Init, Timed
<1>2. Timed /\ [Next]_vars => Timed'
  BY TimedStep
<1>3. Timed => KBest
  BY SampledBest DEF Timed, KBest
<1> QED BY <1>1, <1>2, <1>3, PTL DEF Spec

-----------------------------------------------------------------------------
(* The splay tree.  D[x] is the set of keys in the subtree of node x.      *)

Fields == {"parent", "left", "right"}
Dir == {"left", "right"}

\* Pointers of a tree with the nodes S.
Form(t, S) ==
  /\ t = [root |-> t.root, node_count |-> t.node_count, node |-> t.node]
  /\ t.node \in [S -> [Fields -> S \cup {NULL}]]
  /\ t.root \in S \cup {NULL}

Before(side, a, b) == IF side = "left" THEN a < b ELSE b < a
Under(D, c) == IF c = NULL THEN {} ELSE D[c]

Tree(t, S, D) ==
  /\ Form(t, S)
  /\ S \in SUBSET (Nat \ {0}) /\ IsFiniteSet(S)
  /\ D \in [S -> SUBSET S]
  /\ t.root = NULL => S = {}
  /\ t.root # NULL => D[t.root] = S
  /\ \A x \in S : t.node[x]["parent"] = NULL <=> x = t.root
  /\ \A x \in S : t.node[x]["parent"] # NULL =>
       \E d \in Dir : t.node[t.node[x]["parent"]][d] = x
  /\ \A x \in S, d \in Dir : t.node[x][d] # NULL => t.node[t.node[x][d]]["parent"] = x
  /\ \A x \in S : D[x] = {x} \cup Under(D, t.node[x]["left"]) \cup Under(D, t.node[x]["right"])
  /\ \A x \in S, d \in Dir : \A y \in Under(D, t.node[x][d]) : Before(d, y, x)

\* The sides of a node.
LEMMA Sides == \A d \in Dir : d \in Fields /\ d # "parent"
BY DEF Dir, Fields

\* A node and a child.
LEMMA Child ==
  ASSUME NEW t, NEW S, NEW D, Tree(t, S, D), NEW x \in S, NEW d \in Dir,
         NEW c, c = t.node[x][d], c # NULL
  PROVE  /\ c \in S /\ t.node[c]["parent"] = x /\ c # t.root
         /\ D[c] \subseteq D[x] /\ c \in D[c] /\ x \notin D[c] /\ x # c /\ x \in D[x]
         /\ \A y \in D[c] : Before(d, y, x)
<1>1. c \in S
  BY Sides DEF Tree, Form
<1>2. t.node[c]["parent"] = x /\ \A y \in D[c] : Before(d, y, x)
  BY DEF Tree, Under
<1>3. x \in Nat /\ c \in Nat /\ x # NULL
  BY <1>1 DEF Tree, NULL
<1>4. c \in D[c] /\ x \in D[x]
  BY <1>1 DEF Tree
<1>5. D[c] \subseteq D[x]
  <2>1. D[x] = {x} \cup Under(D, t.node[x]["left"]) \cup Under(D, t.node[x]["right"])
    BY DEF Tree
  <2>2. Under(D, c) = D[c]
    BY DEF Under
  <2> QED BY <2>1, <2>2 DEF Dir
<1>6. x \notin D[c]
  BY <1>2, <1>3 DEF Before
<1>7. c # t.root
  BY <1>1, <1>2, <1>3 DEF Tree
<1> QED BY <1>1, <1>2, <1>4, <1>5, <1>6, <1>7

\* Where in the subtree of a node another node is.
LEMMA Member ==
  ASSUME NEW t, NEW S, NEW D, Tree(t, S, D), NEW x \in S, NEW y \in D[x], y # x,
         NEW d \in Dir, Before(d, y, x), NEW c, c = t.node[x][d]
  PROVE  c # NULL /\ c \in S /\ y \in D[c]
<1>1. D[x] = {x} \cup Under(D, t.node[x]["left"]) \cup Under(D, t.node[x]["right"])
  BY DEF Tree
<1>2. PICK e \in Dir : y \in Under(D, t.node[x][e])
  BY <1>1 DEF Dir
<1>3. Before(e, y, x)
  BY <1>2 DEF Tree
<1>4. x \in Nat /\ y \in Nat
  <2>1. y \in S
    BY DEF Tree
  <2> QED BY <2>1 DEF Tree
<1>5. e = d
  BY <1>3, <1>4 DEF Before, Dir
<1>6. y \in Under(D, c)
  BY <1>2, <1>5
<1>7. c # NULL /\ y \in D[c]
  BY <1>6 DEF Under
<1>8. c \in S
  BY <1>7, Sides DEF Tree, Form
<1> QED BY <1>7, <1>8

\* Children have one parent, and a subtree lies on one side of it.
LEMMA SidesApart ==
  ASSUME NEW t, NEW S, NEW D, Tree(t, S, D), NEW x \in S, NEW d \in Dir, NEW e \in Dir,
         d # e, t.node[x][d] # NULL
  PROVE  t.node[x][d] # t.node[x][e] /\ D[t.node[x][d]] \cap Under(D, t.node[x][e]) = {}
<1>1. PICK c, b : c = t.node[x][d] /\ b = t.node[x][e]
  OBVIOUS
<1>2. /\ c \in S /\ c \in D[c] /\ D[c] \in SUBSET S /\ \A y \in D[c] : Before(d, y, x)
  <2>1. c \in S /\ c \in D[c] /\ \A y \in D[c] : Before(d, y, x)
    BY <1>1, Child
  <2> QED BY <2>1 DEF Tree
<1>3. \A y \in Under(D, b) : Before(e, y, x)
  BY <1>1 DEF Tree
<1>4. \A y \in D[c] : y \in Nat /\ x \in Nat
  BY <1>2 DEF Tree
<1>5. D[c] \cap Under(D, b) = {}
  BY <1>2, <1>3, <1>4 DEF Before, Dir
<1>6. c # b
  <2>1. c = b => c \in Under(D, b)
    BY <1>1, <1>2 DEF Under
  <2> QED BY <1>2, <1>5, <2>1
<1> QED BY <1>1, <1>5, <1>6

-----------------------------------------------------------------------------
(* What the primitives do to the pointers.                                 *)

\* r is t with x below p,
GivenParent(r, t, S, x, p) ==
  /\ Form(r, S) /\ r.root = t.root /\ r.node_count = t.node_count
  /\ \A u \in S : r.node[u]["parent"] = IF u = x THEN p ELSE t.node[u]["parent"]
  /\ \A u \in S, d \in Dir : r.node[u][d] = t.node[u][d]

\* with c on the side s of x,
GivenChild(r, t, S, x, s, c) ==
  /\ Form(r, S) /\ r.root = t.root /\ r.node_count = t.node_count
  /\ \A u \in S : r.node[u]["parent"] = t.node[u]["parent"]
  /\ \A u \in S, d \in Dir : r.node[u][d] = IF u = x /\ d = s THEN c ELSE t.node[u][d]

\* with v where x hung below q.
Hooked(r, t, S, x, v, q) ==
  /\ Form(r, S) /\ r.node_count = t.node_count
  /\ r.root = IF q = NULL THEN v ELSE t.root
  /\ \A u \in S : r.node[u]["parent"] = t.node[u]["parent"]
  /\ \A u \in S, d \in Dir :
       r.node[u][d] = IF u = q /\ t.node[u][d] = x THEN v ELSE t.node[u][d]

LEMMA SetParentIs ==
  ASSUME NEW t, NEW S, Form(t, S), NULL \notin S, NEW x, x \in S \cup {NULL},
         NEW p, p \in S \cup {NULL}
  PROVE  GivenParent(SetParent(t, x, p), t, S, x, p)
<1> PICK r : r = SetParent(t, x, p)
  OBVIOUS
<1> SUFFICES GivenParent(r, t, S, x, p)
  OBVIOUS
<1>1. CASE x = NULL
  BY <1>1 DEF SetParent, GivenParent
<1>2. CASE x # NULL
  <2>1. r = [t EXCEPT !.node[x].parent = p]
    BY <1>2 DEF SetParent
  <2>2. x \in S
    BY <1>2
  <2>3. /\ r = [root |-> r.root, node_count |-> r.node_count, node |-> r.node]
        /\ r.root = t.root /\ r.node_count = t.node_count
        /\ r.node \in [S -> [Fields -> S \cup {NULL}]]
        /\ \A u \in S, f \in Fields :
             r.node[u][f] = IF u = x /\ f = "parent" THEN p ELSE t.node[u][f]
    BY <2>1, <2>2 DEF Form, Fields
  <2>4. r.root \in S \cup {NULL}
    BY <2>3 DEF Form
  <2>5. \A u \in S : r.node[u]["parent"] = IF u = x THEN p ELSE t.node[u]["parent"]
    BY <2>3 DEF Fields
  <2>6. \A u \in S, d \in Dir : r.node[u][d] = t.node[u][d]
    BY <2>3, Sides
  <2> QED BY <2>3, <2>4, <2>5, <2>6 DEF Form, GivenParent
<1> QED BY <1>1, <1>2

LEMMA SetChildIs ==
  ASSUME NEW t, NEW S, Form(t, S), NEW x, x \in S, NEW c, c \in S \cup {NULL}, NEW s, s \in Dir
  PROVE  GivenChild([t EXCEPT !.node[x][s] = c], t, S, x, s, c)
<1> PICK r : r = [t EXCEPT !.node[x][s] = c]
  OBVIOUS
<1> SUFFICES GivenChild(r, t, S, x, s, c)
  OBVIOUS
<1>1. /\ r = [root |-> r.root, node_count |-> r.node_count, node |-> r.node]
      /\ r.root = t.root /\ r.node_count = t.node_count
      /\ r.node \in [S -> [Fields -> S \cup {NULL}]]
      /\ \A u \in S, f \in Fields :
           r.node[u][f] = IF u = x /\ f = s THEN c ELSE t.node[u][f]
  BY DEF Form, Fields, Dir
<1>2. \A u \in S : r.node[u]["parent"] = t.node[u]["parent"]
  BY <1>1, Sides DEF Fields
<1>3. \A u \in S, d \in Dir : r.node[u][d] = IF u = x /\ d = s THEN c ELSE t.node[u][d]
  BY <1>1, Sides
<1>4. r.root \in S \cup {NULL}
  BY <1>1 DEF Form
<1> QED BY <1>1, <1>2, <1>3, <1>4 DEF Form, GivenChild

LEMMA HookIs ==
  ASSUME NEW t, NEW S, Form(t, S), NULL \notin S, NEW x, x \in S, NEW v, v \in S \cup {NULL},
         NEW q, q = t.node[x]["parent"],
         q # NULL => \E d \in Dir : t.node[q][d] = x,
         q # NULL => t.node[q]["left"] # t.node[q]["right"]
  PROVE  Hooked(Hook(t, x, v), t, S, x, v, q)
<1> PICK r : r = Hook(t, x, v)
  OBVIOUS
<1> SUFFICES Hooked(r, t, S, x, v, q)
  OBVIOUS
<1>1. q \in S \cup {NULL} /\ q = t.node[x].parent
  BY DEF Form, Fields
<1>2. CASE q = NULL
  <2>1. r = [t EXCEPT !.root = v]
    BY <1>1, <1>2 DEF Hook
  <2>2. /\ r = [root |-> v, node_count |-> t.node_count, node |-> t.node]
    BY <2>1 DEF Form
  <2>3. \A u \in S : u # q
    BY <1>2
  <2> QED BY <1>2, <2>2, <2>3 DEF Form, Hooked
<1>3. CASE q # NULL
  <2>1. PICK s : s = IF t.node[q].left = x THEN "left" ELSE "right"
    OBVIOUS
  <2>2. s \in Dir /\ t.node[q][s] = x /\ \A d \in Dir : t.node[q][d] = x => d = s
    BY <1>3, <2>1 DEF Dir
  <2>3. r = [t EXCEPT !.node[q][s] = v]
    BY <1>1, <1>3, <2>1 DEF Hook
  <2>4. q \in S
    BY <1>1, <1>3
  <2>5. GivenChild(r, t, S, q, s, v)
    BY <2>2, <2>3, <2>4, SetChildIs
  <2>6. \A u \in S, d \in Dir :
          (u = q /\ d = s) <=> (u = q /\ t.node[u][d] = x)
    BY SMTT(30), <2>2
  <2> QED BY <1>3, <2>5, <2>6 DEF GivenChild, Hooked
<1> QED BY <1>2, <1>3

\* The neighbourhood of a rotation: x, its child y, the subtree b that changes
\* sides, and the parent q of x are different nodes.
LEMMA Around ==
  ASSUME NEW t, NEW S, NEW D, Tree(t, S, D), NEW x \in S, NEW up \in Dir, NEW down \in Dir,
         up # down, NEW y, y = t.node[x][up], y # NULL, NEW b, b = t.node[y][down],
         NEW q, q = t.node[x]["parent"]
  PROVE  /\ y \in S /\ b \in S \cup {NULL} /\ q \in S \cup {NULL} /\ NULL \notin S
         /\ x # y /\ q # x /\ q # y /\ b # x /\ b # y
         /\ b # NULL => b # q
         /\ q # NULL => /\ \E d \in Dir : t.node[q][d] = x
                       /\ t.node[q]["left"] # t.node[q]["right"]
         /\ t.node[y]["parent"] = x /\ (b # NULL => t.node[b]["parent"] = y)
         /\ y # t.root /\ b # t.root
<1>1. /\ y \in S /\ t.node[y]["parent"] = x /\ y # t.root /\ D[y] \subseteq D[x]
      /\ y \in D[y] /\ x \notin D[y] /\ x # y
  BY Child
<1>2. NULL \notin S
  BY DEF Tree, NULL
<1>3. b \in S \cup {NULL} /\ q \in S \cup {NULL}
  BY <1>1, Sides DEF Tree, Form, Fields
<1>4. b # NULL => /\ b \in S /\ t.node[b]["parent"] = y /\ b # t.root /\ D[b] \subseteq D[y]
                  /\ b \in D[b] /\ b # y
  BY <1>1, Child
<1>5. q # NULL => /\ q \in S /\ q \notin D[x] /\ \E d \in Dir : t.node[q][d] = x
  <2>1. SUFFICES ASSUME q # NULL PROVE q \in S /\ q \notin D[x] /\ \E d \in Dir : t.node[q][d] = x
    OBVIOUS
  <2>2. PICK d \in Dir : t.node[q][d] = x
    BY <2>1 DEF Tree
  <2>3. q \in S
    BY <1>3, <2>1
  <2>4. x # NULL
    BY <1>2
  <2> QED BY <2>2, <2>3, <2>4, Child
<1>6. q # NULL => t.node[q]["left"] # t.node[q]["right"]
  <2>1. SUFFICES ASSUME q # NULL PROVE t.node[q]["left"] # t.node[q]["right"]
    OBVIOUS
  <2>2. PICK d \in Dir : t.node[q][d] = x
    BY <1>5, <2>1
  <2>3. PICK e \in Dir : e # d
    BY DEF Dir
  <2>4. x # NULL
    BY <1>2
  <2>5. t.node[q][d] # t.node[q][e]
    BY <1>5, <2>1, <2>2, <2>3, <2>4, SidesApart
  <2> QED BY <2>3, <2>5 DEF Dir
<1>7. x \in D[x]
  BY DEF Tree
<1>8. q # x /\ q # y /\ b # x /\ (b # NULL => b # q)
  BY <1>1, <1>2, <1>4, <1>5, <1>7
<1>9. b # t.root
  <2>1. CASE b = NULL
    <3>1. t.root # NULL
      BY DEF Tree
    <3> QED BY <2>1, <3>1
  <2> QED BY <1>4, <2>1
<1>10. b # y
  BY <1>1, <1>2, <1>4
<1> QED BY <1>1, <1>2, <1>3, <1>4, <1>5, <1>6, <1>8, <1>9, <1>10

\* r is t after a rotation.
Rotated(r, t, S, x, up, down, y, b, q) ==
  /\ Form(r, S) /\ r.node_count = t.node_count
  /\ r.root = IF q = NULL THEN y ELSE t.root
  /\ \A u \in S : r.node[u]["parent"] =
       IF u = y THEN q ELSE IF u = x THEN y ELSE IF u = b THEN x ELSE t.node[u]["parent"]
  /\ \A u \in S, d \in Dir : r.node[u][d] =
       IF u = x /\ d = up THEN b ELSE IF u = y /\ d = down THEN x
       ELSE IF u = q /\ t.node[u][d] = x THEN y ELSE t.node[u][d]

LEMMA RotateIs ==
  ASSUME NEW t, NEW S, NEW D, Tree(t, S, D), NEW x \in S, NEW up \in Dir, NEW down \in Dir,
         up # down, NEW y, y = t.node[x][up], y # NULL, NEW b, b = t.node[y][down],
         NEW q, q = t.node[x]["parent"]
  PROVE  Rotated(Rotate(t, x, up, down), t, S, x, up, down, y, b, q)
<1> PICK r : r = Rotate(t, x, up, down)
  OBVIOUS
<1> SUFFICES Rotated(r, t, S, x, up, down, y, b, q)
  OBVIOUS
<1>1. /\ y \in S /\ b \in S \cup {NULL} /\ q \in S \cup {NULL} /\ NULL \notin S
      /\ x # y /\ q # x /\ q # y /\ b # x /\ b # y
      /\ b # NULL => b # q
      /\ q # NULL => /\ \E d \in Dir : t.node[q][d] = x
                    /\ t.node[q]["left"] # t.node[q]["right"]
  BY Around
<1>0. /\ x \in S \cup {NULL} /\ y \in S \cup {NULL} /\ y \in S /\ NULL \notin S
      /\ b \in S \cup {NULL} /\ q \in S \cup {NULL}
  BY <1>1
<1>2. Form(t, S) /\ q = t.node[x].parent
  BY DEF Tree
<1>3. PICK t1 : t1 = [t EXCEPT !.node[x][up] = b]
  OBVIOUS
<1>4. GivenChild(t1, t, S, x, up, b)
  BY <1>0, <1>2, <1>3, SetChildIs
<1>5. PICK t2 : t2 = SetParent(t1, b, x)
  OBVIOUS
<1>6. GivenParent(t2, t1, S, b, x)
  BY <1>0, <1>4, <1>5, SetParentIs DEF GivenChild
<1>7. PICK t3 : t3 = SetParent(t2, y, q)
  OBVIOUS
<1>8. GivenParent(t3, t2, S, y, q)
  <2>1. Form(t2, S)
    BY <1>6 DEF GivenParent
  <2> QED BY <1>0, <1>7, <2>1, SetParentIs
<1>9. /\ t3.node_count = t.node_count /\ t3.root = t.root
      /\ \A u \in S : t3.node[u]["parent"] =
           IF u = y THEN q ELSE IF u = b THEN x ELSE t.node[u]["parent"]
      /\ \A u \in S, d \in Dir : t3.node[u][d] = IF u = x /\ d = up THEN b ELSE t.node[u][d]
  BY <1>4, <1>6, <1>8 DEF GivenChild, GivenParent
<1>10. PICK t4 : t4 = Hook(t3, x, y)
  OBVIOUS
<1>11. /\ q = t3.node[x]["parent"]
       /\ q # NULL => \E d \in Dir : t3.node[q][d] = x
       /\ q # NULL => t3.node[q]["left"] # t3.node[q]["right"]
  <2>1. q = t3.node[x]["parent"]
    BY <1>1, <1>2, <1>9
  <2>2. q # NULL => \A d \in Dir : t3.node[q][d] = t.node[q][d]
    BY <1>1, <1>9
  <2>3. "left" \in Dir /\ "right" \in Dir
    BY DEF Dir
  <2> QED BY <1>1, <2>1, <2>2, <2>3
<1>12. Hooked(t4, t3, S, x, y, q)
  BY <1>0, <1>8, <1>10, <1>11, HookIs DEF GivenParent
<1>13. PICK t5 : t5 = [t4 EXCEPT !.node[y][down] = x]
  OBVIOUS
<1>14. GivenChild(t5, t4, S, y, down, x)
  BY <1>0, <1>12, <1>13, SetChildIs DEF Hooked
<1>15. r = SetParent(t5, x, y)
  BY Zenon, <1>2, <1>3, <1>5, <1>7, <1>10, <1>13 DEF Rotate
<1>16. GivenParent(r, t5, S, x, y)
  BY <1>0, <1>14, <1>15, SetParentIs DEF GivenChild
<1>17. ASSUME NEW u \in S
       PROVE  r.node[u]["parent"] =
                IF u = y THEN q ELSE IF u = x THEN y ELSE IF u = b THEN x ELSE t.node[u]["parent"]
  BY <1>1, <1>9, <1>12, <1>14, <1>16 DEF GivenChild, GivenParent, Hooked
<1>18. ASSUME NEW u \in S, NEW d \in Dir
       PROVE  r.node[u][d] =
                IF u = x /\ d = up THEN b ELSE IF u = y /\ d = down THEN x
                ELSE IF u = q /\ t.node[u][d] = x THEN y ELSE t.node[u][d]
  BY <1>1, <1>9, <1>12, <1>14, <1>16 DEF GivenChild, GivenParent, Hooked
<1>19. /\ Form(r, S) /\ r.node_count = t.node_count
       /\ r.root = IF q = NULL THEN y ELSE t.root
  BY <1>9, <1>12, <1>14, <1>16 DEF GivenChild, GivenParent, Hooked
<1> QED BY <1>17, <1>18, <1>19 DEF Rotated

\* r is t with the child y of x in its place.
Turned(r, t, S, D, x, y, down) ==
  /\ r.node_count = t.node_count
  /\ r.node[y]["parent"] = t.node[x]["parent"]
  /\ \A u \in S : u # x /\ u # y /\ u # t.node[y][down] =>
       r.node[u]["parent"] = t.node[u]["parent"]
  /\ \E E : /\ Tree(r, S, E) /\ E[y] = D[x]
            /\ \A u \in S : u # x => D[u] \subseteq E[u]

\* A rotation at x of its child y.
LEMMA RotateTree ==
  ASSUME NEW t, NEW S, NEW D, Tree(t, S, D), NEW x \in S, NEW up \in Dir, NEW down \in Dir,
         up # down, NEW y, y = t.node[x][up], y # NULL
  PROVE  Turned(Rotate(t, x, up, down), t, S, D, x, y, down)
<1>1. PICK b, q, k, r : /\ b = t.node[y][down] /\ q = t.node[x]["parent"]
                        /\ k = t.node[x][down] /\ r = Rotate(t, x, up, down)
  OBVIOUS
<1>2. /\ y \in S /\ b \in S \cup {NULL} /\ q \in S \cup {NULL} /\ NULL \notin S
      /\ x # y /\ q # x /\ q # y /\ b # x /\ b # y
      /\ b # NULL => b # q
      /\ q # NULL => /\ \E d \in Dir : t.node[q][d] = x
                    /\ t.node[q]["left"] # t.node[q]["right"]
      /\ t.node[y]["parent"] = x /\ (b # NULL => t.node[b]["parent"] = y)
      /\ y # t.root /\ b # t.root
  BY <1>1, Around
<1>3. Rotated(r, t, S, x, up, down, y, b, q)
  BY <1>1, RotateIs
<1>4. /\ Form(r, S) /\ r.node_count = t.node_count
      /\ r.root = IF q = NULL THEN y ELSE t.root
      /\ \A u \in S : r.node[u]["parent"] =
           IF u = y THEN q ELSE IF u = x THEN y ELSE IF u = b THEN x ELSE t.node[u]["parent"]
      /\ \A u \in S, d \in Dir : r.node[u][d] =
           IF u = x /\ d = up THEN b ELSE IF u = y /\ d = down THEN x
           ELSE IF u = q /\ t.node[u][d] = x THEN y ELSE t.node[u][d]
  BY <1>3 DEF Rotated
<1>5. \A d \in Dir : d = up \/ d = down
  BY DEF Dir
<1>6. PICK E : E = [u \in S |-> IF u = y THEN D[x]
                               ELSE IF u = x THEN {x} \cup Under(D, b) \cup Under(D, k)
                               ELSE D[u]]
  OBVIOUS
<1>7. /\ S \in SUBSET (Nat \ {0}) /\ IsFiniteSet(S) /\ D \in [S -> SUBSET S]
      /\ t.root = NULL => S = {}
      /\ t.root # NULL => D[t.root] = S
      /\ t.root \in S \cup {NULL}
      /\ \A u \in S : t.node[u]["parent"] = NULL <=> u = t.root
      /\ \A u \in S, d \in Dir : t.node[u][d] # NULL => t.node[t.node[u][d]]["parent"] = u
      /\ \A u \in S, d \in Dir : t.node[u][d] \in S \cup {NULL}
  <2>1. \A u \in S, d \in Dir : t.node[u][d] \in S \cup {NULL}
    BY Sides DEF Tree, Form
  <2> QED BY <2>1 DEF Tree, Form
<1>8. D[x] = {x} \cup D[y] \cup Under(D, k)
  <2>1. D[x] = {x} \cup Under(D, t.node[x]["left"]) \cup Under(D, t.node[x]["right"])
    BY DEF Tree
  <2>2. D[x] = {x} \cup Under(D, t.node[x][up]) \cup Under(D, t.node[x][down])
    BY <2>1 DEF Dir
  <2> QED BY <1>1, <2>2 DEF Under
<1>9. PICK a : a = t.node[y][up]
  OBVIOUS
<1>10. D[y] = {y} \cup Under(D, a) \cup Under(D, b)
  <2>1. D[y] = {y} \cup Under(D, t.node[y]["left"]) \cup Under(D, t.node[y]["right"])
    BY <1>2 DEF Tree
  <2>2. D[y] = {y} \cup Under(D, t.node[y][up]) \cup Under(D, t.node[y][down])
    BY <2>1 DEF Dir
  <2> QED BY <1>1, <1>9, <2>2
<1>11. E \in [S -> SUBSET S]
  <2>1. \A c \in S \cup {NULL} : Under(D, c) \subseteq S
    BY <1>7 DEF Under
  <2>2. k \in S \cup {NULL}
    BY <1>1, <1>7
  <2> QED BY <1>2, <1>6, <1>7, <2>1, <2>2
\* Who may be a child of whom.
<1>12. /\ \A u \in S, d \in Dir : t.node[u][d] = y => u = x /\ d = up
       /\ \A u \in S, d \in Dir : t.node[u][d] = b /\ b # NULL => u = y /\ d = down
       /\ \A u \in S, d \in Dir : t.node[u][d] = x => u = q
       /\ a # NULL => a # x /\ a # y /\ a # b
       /\ k # NULL => k # x /\ k # y /\ k # b
  <2>1. \A u \in S, d \in Dir : t.node[u][d] = y => u = x
    BY <1>2, <1>7
  <2>2. \A u \in S, d \in Dir : t.node[u][d] = b /\ b # NULL => u = y
    BY <1>2, <1>7
  <2>3. \A u \in S, d \in Dir : t.node[u][d] = x => u = q
    BY <1>1, <1>2, <1>7
  <2>4. t.node[x][down] # y
    <3>1. t.node[x][up] # t.node[x][down]
      BY SidesApart
    <3> QED BY <3>1
  <2>5. b # NULL => t.node[y][up] # b
    <3>1. b # NULL => t.node[y][down] # t.node[y][up]
      BY <1>1, <1>2, SidesApart
    <3> QED BY <1>1, <3>1
  <2>6. a # NULL => a # x /\ a # y
    BY <1>2, <1>9, <2>1, <2>3
  <2>7. k # NULL => k # x /\ k # b
    BY <1>1, <1>2, <2>2, <2>3
  <2> QED BY <1>1, <1>5, <1>9, <2>1, <2>2, <2>3, <2>4, <2>5, <2>6, <2>7
\* The subtrees below each node.
<1>13. \A c \in S : c # x /\ c # y => Under(E, c) = Under(D, c)
  BY <1>2, <1>6 DEF Under
<1>14. /\ Under(E, b) = Under(D, b) /\ Under(E, a) = Under(D, a) /\ Under(E, k) = Under(D, k)
       /\ Under(E, x) = {x} \cup Under(D, b) \cup Under(D, k) /\ Under(E, y) = D[x]
  <2>1. /\ b \in S \cup {NULL} /\ a \in S \cup {NULL} /\ k \in S \cup {NULL}
        /\ (b # NULL => b # x /\ b # y)
    BY <1>1, <1>2, <1>7, <1>9
  <2>2. Under(E, NULL) = Under(D, NULL)
    BY DEF Under
  <2>3. x # NULL /\ y # NULL
    BY SMTT(30), <1>2
  <2> QED BY <1>2, <1>6, <1>12, <1>13, <2>1, <2>2, <2>3 DEF Under
<1>15. /\ r.node[x][up] = b /\ r.node[x][down] = k
       /\ r.node[y][down] = x /\ r.node[y][up] = a
       /\ \A u \in S, d \in Dir : u # x /\ u # y =>
            r.node[u][d] = IF t.node[u][d] = x THEN y ELSE t.node[u][d]
  <2>1. q # y /\ t.node[x][down] # x
    BY <1>2, <1>12
  <2> QED BY <1>1, <1>2, <1>4, <1>5, <1>9, <1>12, <2>1
\* The subtrees in order.
<1>16. ASSUME NEW u \in S, u # x, u # y, NEW d \in Dir
       PROVE  Under(E, r.node[u][d]) = Under(D, t.node[u][d])
  <2>1. CASE t.node[u][d] = x
    <3>1. r.node[u][d] = y
      BY <1>15, <1>16, <2>1
    <3> QED BY <1>2, <1>14, <2>1, <3>1 DEF Under
  <2>2. CASE t.node[u][d] # x
    <3>1. r.node[u][d] = t.node[u][d] /\ t.node[u][d] # y
      BY <1>12, <1>15, <1>16, <2>2
    <3>2. t.node[u][d] \in S \cup {NULL}
      BY <1>7
    <3>3. Under(E, NULL) = Under(D, NULL)
      BY DEF Under
    <3> QED BY <1>13, <2>2, <3>1, <3>2, <3>3
  <2> QED BY <2>1, <2>2
<1>17. ASSUME NEW u \in S
       PROVE  E[u] = {u} \cup Under(E, r.node[u]["left"]) \cup Under(E, r.node[u]["right"])
  <2>1. SUFFICES E[u] = {u} \cup Under(E, r.node[u][up]) \cup Under(E, r.node[u][down])
    BY DEF Dir
  <2>2. CASE u = x
    BY <1>2, <1>6, <1>14, <1>15, <2>2
  <2>3. CASE u = y
    BY <1>2, <1>6, <1>8, <1>10, <1>14, <1>15, <2>3
  <2>4. CASE u # x /\ u # y
    <3>1. E[u] = D[u]
      BY <1>6, <2>4
    <3>2. D[u] = {u} \cup Under(D, t.node[u]["left"]) \cup Under(D, t.node[u]["right"])
      BY DEF Tree
    <3>3. D[u] = {u} \cup Under(D, t.node[u][up]) \cup Under(D, t.node[u][down])
      BY <3>2 DEF Dir
    <3> QED BY <1>16, <2>4, <3>1, <3>3
  <2> QED BY <2>2, <2>3, <2>4
<1>18. \A u \in S, d \in Dir : \A v \in Under(D, t.node[u][d]) : Before(d, v, u)
  BY DEF Tree
<1>19. ASSUME NEW u \in S, NEW d \in Dir, NEW v \in Under(E, r.node[u][d])
       PROVE  Before(d, v, u)
  <2>1. CASE u = x /\ d = up
    <3>1. v \in Under(D, b)
      BY <1>14, <1>15, <1>19, <2>1
    <3>2. v \in D[y]
      BY <1>10, <3>1
    <3>3. v \in Under(D, t.node[x][up])
      BY <1>2, <3>2 DEF Under
    <3> QED BY <1>18, <2>1, <3>3
  <2>2. CASE u = x /\ d = down
    <3>1. v \in Under(D, t.node[x][down])
      BY <1>1, <1>14, <1>15, <1>19, <2>2
    <3> QED BY <1>18, <2>2, <3>1
  <2>3. CASE u = y /\ d = up
    <3>1. v \in Under(D, t.node[y][up])
      BY <1>9, <1>14, <1>15, <1>19, <2>3
    <3> QED BY <1>2, <1>18, <2>3, <3>1
  <2>4. CASE u = y /\ d = down
    <3>1. v \in {x} \cup Under(D, b) \cup Under(D, k)
      BY <1>14, <1>15, <1>19, <2>4
    <3>2. Before(up, y, x)
      <4>1. y \in Under(D, t.node[x][up])
        BY <1>2, <1>10 DEF Under
      <4> QED BY <1>18, <4>1
    <3>3. x \in Nat /\ y \in Nat
      BY <1>2, <1>7
    <3>4. Before(down, x, y)
      BY <3>2, <3>3 DEF Before, Dir
    <3>5. v \in Under(D, b) => Before(down, v, y)
      BY <1>1, <1>2, <1>18
    <3>6. v \in Under(D, k) => Before(down, v, y)
      <4>1. SUFFICES ASSUME v \in Under(D, k) PROVE Before(down, v, y)
        OBVIOUS
      <4>2. Before(down, v, x)
        BY <1>1, <1>18, <4>1
      <4>3. v \in S
        BY <1>8, <4>1, <1>7
      <4>4. v \in Nat
        BY <1>7, <4>3
      <4> QED BY <3>3, <3>4, <4>2, <4>4 DEF Before
    <3> QED BY <2>4, <3>1, <3>4, <3>5, <3>6
  <2>5. CASE u # x /\ u # y
    BY <1>16, <1>18, <1>19, <2>5
  <2> QED BY <1>5, <2>1, <2>2, <2>3, <2>4, <2>5
\* Parents and children.
<1>20. ASSUME NEW u \in S
       PROVE  r.node[u]["parent"] = NULL <=> u = r.root
  <2>1. CASE u = y
    BY SMTT(30), <1>2, <1>4, <2>1
  <2>2. CASE u = x
    BY SMTT(30), <1>1, <1>2, <1>4, <1>7, <2>2
  <2>3. CASE u = b
    BY <1>1, <1>2, <1>4, <1>7, <2>3
  <2>4. CASE u # x /\ u # y /\ u # b
    <3>1. r.node[u]["parent"] = t.node[u]["parent"]
      BY <1>4, <2>4
    <3>2. q = NULL => t.root = x
      BY <1>1, <1>7
    <3> QED BY <1>4, <1>7, <2>4, <3>1, <3>2
  <2> QED BY <2>1, <2>2, <2>3, <2>4
<1>21. ASSUME NEW u \in S, r.node[u]["parent"] # NULL
       PROVE  \E d \in Dir : r.node[r.node[u]["parent"]][d] = u
  <2>1. CASE u = y
    <3>1. r.node[u]["parent"] = q /\ q \in S
      BY <1>2, <1>4, <1>21, <2>1
    <3>2. PICK d \in Dir : t.node[q][d] = x
      BY <1>2, <1>21, <3>1
    <3>3. r.node[q][d] = y
      BY <1>2, <1>4, <3>1, <3>2
    <3> QED BY <2>1, <3>1, <3>3
  <2>2. CASE u = x
    BY <1>2, <1>4, <1>15, <2>2
  <2>3. CASE u = b
    BY <1>2, <1>4, <1>15, <2>3
  <2>4. CASE u # x /\ u # y /\ u # b
    <3>1. r.node[u]["parent"] = t.node[u]["parent"] /\ t.node[u]["parent"] # NULL
      BY <1>4, <1>21, <2>4
    <3>7. PICK p : p = t.node[u]["parent"]
      OBVIOUS
    <3>8. PICK d \in Dir : t.node[p][d] = u
      BY <3>1, <3>7 DEF Tree
    <3>2. p = t.node[u]["parent"] /\ t.node[p][d] = u
      BY <3>7, <3>8
    <3>3. p \in S
      <4>1. t.node[u]["parent"] \in S \cup {NULL}
        BY DEF Tree, Form, Fields
      <4> QED BY <3>1, <3>2, <4>1
    <3>4. CASE p = x
      <4>1. d = down
        BY <1>5, <2>4, <3>2, <3>4
      <4> QED BY <1>1, <1>15, <3>1, <3>2, <3>4, <4>1
    <3>5. CASE p = y
      <4>1. d = up
        BY <1>1, <1>5, <2>4, <3>2, <3>5
      <4> QED BY <1>9, <1>15, <3>1, <3>2, <3>5, <4>1
    <3>6. CASE p # x /\ p # y
      <4>1. r.node[p][d] = u
        BY <1>15, <2>4, <3>2, <3>3, <3>6
      <4> QED BY <3>1, <3>2, <4>1
    <3> QED BY <3>4, <3>5, <3>6
  <2> QED BY <2>1, <2>2, <2>3, <2>4
<1>22. ASSUME NEW u \in S, NEW d \in Dir, r.node[u][d] # NULL
       PROVE  r.node[r.node[u][d]]["parent"] = u
  <2>1. CASE u = x /\ d = up
    BY <1>2, <1>4, <1>15, <1>22, <2>1
  <2>2. CASE u = x /\ d = down
    <3>1. k \in S /\ t.node[k]["parent"] = x /\ k # x /\ k # y /\ k # b
      BY <1>1, <1>7, <1>12, <1>15, <1>22, <2>2
    <3> QED BY <1>4, <1>15, <2>2, <3>1
  <2>3. CASE u = y /\ d = up
    <3>1. a \in S /\ t.node[a]["parent"] = y /\ a # x /\ a # y /\ a # b
      BY <1>2, <1>7, <1>9, <1>12, <1>15, <1>22, <2>3
    <3> QED BY <1>4, <1>15, <2>3, <3>1
  <2>4. CASE u = y /\ d = down
    BY <1>2, <1>4, <1>15, <2>4
  <2>5. CASE u # x /\ u # y
    <3>1. CASE t.node[u][d] = x
      <4>1. r.node[u][d] = y /\ u = q
        BY <1>12, <1>15, <2>5, <3>1
      <4> QED BY <1>2, <1>4, <4>1
    <3>2. CASE t.node[u][d] # x
      <4>1. PICK c : c = t.node[u][d]
        OBVIOUS
      <4>2. r.node[u][d] = c /\ c # NULL /\ c \in S
        BY <1>7, <1>15, <1>22, <2>5, <3>2, <4>1
      <4>3. t.node[c]["parent"] = u
        BY <1>7, <4>1, <4>2
      <4>4. c # x /\ c # y /\ c # b
        BY <1>12, <2>5, <3>2, <4>1, <4>2
      <4> QED BY <1>4, <4>2, <4>3, <4>4
    <3> QED BY <3>1, <3>2
  <2> QED BY <1>5, <2>1, <2>2, <2>3, <2>4, <2>5
<1>23. /\ r.root = NULL => S = {}
       /\ r.root # NULL => E[r.root] = S
  <2>1. CASE q = NULL
    <3>1. t.root = x /\ D[x] = S
      BY <1>1, <1>2, <1>7, <2>1
    <3> QED BY <1>2, <1>4, <1>6, <2>1, <3>1
  <2>2. CASE q # NULL
    <3>1. t.root # x /\ t.root # y
      BY <1>1, <1>2, <1>7, <2>2
    <3>2. r.root = t.root
      BY <1>4, <2>2
    <3> QED BY <1>6, <1>7, <3>1, <3>2
  <2> QED BY <2>1, <2>2
<1>24. Tree(r, S, E)
  BY <1>4, <1>7, <1>11, <1>17, <1>19, <1>20, <1>21, <1>22, <1>23 DEF Tree
<1>25. E[y] = D[x] /\ \A u \in S : u # x => D[u] \subseteq E[u]
  BY <1>2, <1>6, <1>8
<1>26. ASSUME NEW u \in S, u # x, u # y, u # t.node[y][down]
       PROVE  r.node[u]["parent"] = t.node[u]["parent"]
  BY <1>1, <1>4, <1>26
<1>27. r.node[y]["parent"] = q
  BY <1>2, <1>4
<1> QED BY <1>1, <1>4, <1>24, <1>25, <1>26, <1>27 DEF Turned

-----------------------------------------------------------------------------
(* Splaying.                                                               *)

Opposite(d) == IF d = "left" THEN "right" ELSE "left"

LEMMA Raise ==
  ASSUME NEW t, NEW S, NEW D, Tree(t, S, D), NEW x \in S,
         NEW p, p = t.node[x]["parent"], p # NULL, NEW s, s = Side(t, x)
  PROVE  /\ p \in S /\ s \in Dir /\ t.node[p][s] = x
         /\ Turned(RaiseOver(t, p, s), t, S, D, p, x, Opposite(s))
<1>1. PICK d \in Dir : t.node[p][d] = x
  BY DEF Tree
<1>2. p \in S /\ x # NULL
  <2>1. t.node[x]["parent"] \in S \cup {NULL}
    BY DEF Tree, Form, Fields
  <2>2. x \in Nat \ {0}
    BY DEF Tree
  <2> QED BY <2>1, <2>2 DEF NULL
<1>3. s = IF t.node[p]["left"] = x THEN "left" ELSE "right"
  BY DEF Side
<1>4. s \in Dir /\ t.node[p][s] = x
  BY <1>1, <1>3 DEF Dir
<1>5. Opposite(s) \in Dir /\ s # Opposite(s)
  BY <1>4 DEF Opposite, Dir
<1>6. RaiseOver(t, p, s) = Rotate(t, p, s, Opposite(s))
  BY <1>4 DEF RaiseOver, right_rotate, left_rotate, Opposite, Dir
<1>7. Turned(Rotate(t, p, s, Opposite(s)), t, S, D, p, x, Opposite(s))
  BY <1>2, <1>4, <1>5, RotateTree
<1> QED BY <1>2, <1>4, <1>6, <1>7

\* r is t after a turn: more nodes are below x.
Climbed(r, t, S, D, x) ==
  /\ r.node_count = t.node_count
  /\ \E E : Tree(r, S, E) /\ D[x] \subseteq E[x] /\ (x # t.root => D[x] # E[x])

LEMMA SplayTurnIs ==
  ASSUME NEW t, NEW S, NEW D, Tree(t, S, D), NEW x \in S
  PROVE  Climbed(SplayTurn(t, x), t, S, D, x) /\ (x = t.root => SplayTurn(t, x) = t)
<1>1. PICK p, g, s, r : p = t.node[x]["parent"] /\ g = t.node[p]["parent"] /\ s = Side(t, x)
                        /\ r = SplayTurn(t, x)
  OBVIOUS
<1>2. x = t.root <=> p = NULL
  BY <1>1 DEF Tree
<1>3. CASE p = NULL
  <2>1. r = t
    BY <1>1, <1>3 DEF SplayTurn
  <2> QED BY <1>1, <1>2, <1>3, <2>1 DEF Climbed
<1>4. ASSUME p # NULL
      PROVE  /\ p \in S /\ s \in Dir /\ t.node[p][s] = x /\ x # NULL
             /\ D[x] \subseteq D[p] /\ p \in D[p] /\ p \notin D[x] /\ p # x
  <2>1. p \in S /\ s \in Dir /\ t.node[p][s] = x
    BY <1>1, <1>4, Raise
  <2>2. x # NULL
    BY DEF Tree, NULL
  <2> QED BY <2>1, <2>2, Child
<1>5. CASE p # NULL /\ g = NULL
  <2>1. r = RaiseOver(t, p, s)
    BY <1>1, <1>5 DEF SplayTurn
  <2>2. Turned(RaiseOver(t, p, s), t, S, D, p, x, Opposite(s))
    BY <1>1, <1>5, Raise
  <2>3. Turned(r, t, S, D, p, x, Opposite(s))
    BY <2>1, <2>2
  <2>4. PICK E : Tree(r, S, E) /\ E[x] = D[p]
    BY <2>3 DEF Turned
  <2> QED BY <1>1, <1>2, <1>4, <1>5, <2>3, <2>4 DEF Climbed, Turned
<1>6. CASE p # NULL /\ g # NULL
  <2>1. PICK z : z = Side(t, p)
    OBVIOUS
  <2>2. /\ g \in S /\ z \in Dir /\ t.node[g][z] = p /\ p # NULL
        /\ D[p] \subseteq D[g] /\ p # g /\ g \notin D[p]
    <3>1. g \in S /\ z \in Dir /\ t.node[g][z] = p
      BY <1>1, <1>4, <1>6, <2>1, Raise
    <3> QED BY <1>4, <1>6, <3>1, Child
  <2>3. x \in D[x]
    BY DEF Tree
  <2>4. x # g
    BY <1>4, <1>6, <2>2, <2>3
  <2>5. PICK first, once : /\ first = (IF s = z THEN g ELSE p)
                           /\ once = RaiseOver(t, first, s)
    BY SMTT(30)
  <2>6. r = RaiseOver(once, once.node[x]["parent"], Side(once, x))
    BY <1>1, <1>6, <2>1, <2>5 DEF SplayTurn
  <2>7. CASE s = z
    <3>1. Turned(RaiseOver(t, g, z), t, S, D, g, p, Opposite(z))
      BY <1>1, <1>4, <1>6, <2>1, Raise
    <3>2. Turned(once, t, S, D, g, p, Opposite(z))
      BY <2>5, <2>7, <3>1
    <3>3. x # t.node[p][Opposite(z)]
      <4>1. Opposite(z) \in Dir /\ Opposite(z) # s
        BY <2>2, <2>7 DEF Opposite, Dir
      <4>2. t.node[p][s] # t.node[p][Opposite(z)]
        BY SMTT(30), <1>4, <1>6, <4>1, SidesApart
      <4> QED BY <1>4, <1>6, <4>2
    <3>4. once.node[x]["parent"] = p
      BY <1>1, <1>4, <1>6, <2>4, <3>2, <3>3 DEF Turned
    <3>5. PICK E : Tree(once, S, E) /\ E[p] = D[g]
      BY <3>2 DEF Turned
    <3>6. PICK q, y : q = p /\ y = Side(once, x)
      OBVIOUS
    <3>7. Turned(RaiseOver(once, q, y), once, S, E, q, x, Opposite(y))
      BY <1>6, <3>4, <3>5, <3>6, Raise
    <3>8. Turned(r, once, S, E, p, x, Opposite(y))
      BY <2>6, <3>4, <3>6, <3>7
    <3>9. PICK F : Tree(r, S, F) /\ F[x] = E[p]
      BY <3>8 DEF Turned
    <3>10. D[x] \subseteq F[x] /\ D[x] # F[x]
      BY <1>4, <1>6, <2>2, <3>5, <3>9
    <3>11. r.node_count = t.node_count
      BY <3>2, <3>8 DEF Turned
    <3> QED BY <1>1, <1>2, <1>6, <3>9, <3>10, <3>11 DEF Climbed
  <2>8. CASE s # z
    <3>1. Turned(RaiseOver(t, p, s), t, S, D, p, x, Opposite(s))
      BY <1>1, <1>6, Raise
    <3>2. Turned(once, t, S, D, p, x, Opposite(s))
      BY <2>5, <2>8, <3>1
    <3>3. once.node[x]["parent"] = g
      BY <1>1, <3>2 DEF Turned
    <3>4. PICK E : Tree(once, S, E) /\ E[x] = D[p]
      BY <3>2 DEF Turned
    <3>5. PICK q, y : q = g /\ y = Side(once, x)
      OBVIOUS
    <3>6. Turned(RaiseOver(once, q, y), once, S, E, q, x, Opposite(y))
      BY <1>6, <3>3, <3>4, <3>5, Raise
    <3>7. Turned(r, once, S, E, g, x, Opposite(y))
      BY <2>6, <3>3, <3>5, <3>6
    <3>8. PICK F : Tree(r, S, F) /\ F[x] = E[g] /\ \A u \in S : u # g => E[u] \subseteq F[u]
      BY <3>7 DEF Turned
    <3>9. D[x] \subseteq F[x] /\ D[x] # F[x]
      BY <1>4, <1>6, <2>4, <3>4, <3>8
    <3>10. r.node_count = t.node_count
      BY <3>2, <3>7 DEF Turned
    <3> QED BY <1>1, <1>2, <1>6, <3>8, <3>9, <3>10 DEF Climbed
  <2> QED BY <2>7, <2>8
<1> QED BY <1>3, <1>5, <1>6

\* The turns exist.
Splaying(f, t, x, n) ==
  f = [k \in 0 .. n |-> IF k = 0 THEN t ELSE SplayTurn(f[k - 1], x)]

LEMMA SplayingExists ==
  ASSUME NEW t, NEW x, NEW n \in Nat
  PROVE  \E f : Splaying(f, t, x, n)
<1> PICK T : T = {k \in Nat : ~ \E f : Splaying(f, t, x, k)}
  OBVIOUS
<1>1. SUFFICES ASSUME T # {} PROVE FALSE
  OBVIOUS
<1>2. PICK m \in T : \A y \in T : m <= y
  BY <1>1, NatMin
<1>3. m \in Nat /\ ~ \E f : Splaying(f, t, x, m)
  OBVIOUS
<1>4. CASE m = 0
  <2>1. PICK f : f = [k \in 0 .. 0 |-> t]
    OBVIOUS
  <2>2. Splaying(f, t, x, 0)
    BY <2>1 DEF Splaying
  <2> QED BY <1>3, <1>4, <2>2
<1>5. CASE m > 0
  <2>1. m - 1 \in Nat /\ m - 1 \notin T
    BY <1>2, <1>3, <1>5
  <2>2. PICK f : Splaying(f, t, x, m - 1)
    BY <2>1
  <2>3. PICK g : g = [k \in 0 .. m |-> IF k = m THEN SplayTurn(f[m - 1], x) ELSE f[k]]
    OBVIOUS
  <2>4. \A k \in 0 .. m : g[k] = IF k = 0 THEN t ELSE SplayTurn(g[k - 1], x)
    <3> TAKE k \in 0 .. m
    <3>1. CASE k = m
      <4>1. m - 1 \in 0 .. m /\ m - 1 # m
        BY <1>3, <1>5
      <4> QED BY <1>5, <2>3, <3>1, <4>1
    <3>2. CASE k # m
      <4>1. k \in 0 .. m - 1
        BY <1>3, <3>2
      <4>2. f[k] = IF k = 0 THEN t ELSE SplayTurn(f[k - 1], x)
        BY <2>2, <4>1 DEF Splaying
      <4>3. k # 0 => k - 1 \in 0 .. m /\ k - 1 # m
        BY <1>3, <4>1
      <4> QED BY <2>3, <3>2, <4>2, <4>3
    <3> QED BY <3>1, <3>2
  <2>5. Splaying(g, t, x, m)
    BY <2>3, <2>4 DEF Splaying
  <2> QED BY <1>3, <2>5
<1> QED BY <1>3, <1>4, <1>5

\* splay ends with x at the root.
Splayed(r, t, S, x) ==
  r.node_count = t.node_count /\ r.root = x /\ \E E : Tree(r, S, E)

LEMMA SplayIs ==
  ASSUME NEW t, NEW S, NEW D, Tree(t, S, D), NEW x \in S
  PROVE  Splayed(splay(t, x), t, S, x)
<1>1. PICK N : N = Cardinality(S)
  OBVIOUS
<1>2. N \in Nat /\ Nodes(t) = S /\ Turns(t) = 0 .. N
  BY <1>1, FS_CardinalityType DEF Tree, Form, Nodes, Turns
<1>3. PICK s : /\ s = (CHOOSE f : Splaying(f, t, x, N)) /\ splay(t, x) = s[N]
  BY <1>1, <1>2 DEF splay, Splaying
<1>4. Splaying(s, t, x, N)
  BY <1>2, <1>3, SplayingExists
<1>5. s[0] = t /\ \A k \in 0 .. N : k # 0 => s[k] = SplayTurn(s[k - 1], x)
  BY <1>2, <1>4 DEF Splaying
<1> DEFINE Good(k) == /\ s[k].node_count = t.node_count
                      /\ \E E : /\ Tree(s[k], S, E)
                                /\ s[k].root # x => Cardinality(E[x]) > k
<1> HIDE DEF Good
<1>6. \A k \in 0 .. N : Good(k)
  <2> PICK T : T = {k \in 0 .. N : ~ Good(k)}
    OBVIOUS
  <2>1. SUFFICES ASSUME T # {} PROVE FALSE
    OBVIOUS
  <2>2. PICK m \in T : \A y \in T : m <= y
    <3>1. T \in SUBSET Nat
      BY <1>2
    <3> QED BY <2>1, <3>1, NatMin
  <2>3. m \in 0 .. N /\ ~ Good(m)
    OBVIOUS
  <2>4. m # 0
    <3>1. D[x] \in SUBSET S /\ IsFiniteSet(S) /\ x \in D[x]
      BY DEF Tree
    <3>2. IsFiniteSet(D[x])
      BY <3>1, FS_Subset
    <3>3. Cardinality(D[x]) > 0
      <4>1. Cardinality(D[x]) \in Nat /\ Cardinality(D[x]) # 0
        BY <3>1, <3>2, FS_CardinalityType, FS_EmptySet
      <4> QED BY <4>1
    <3>4. Good(0)
      BY <1>5, <3>3 DEF Good
    <3> QED BY <2>3, <3>4
  <2>5. PICK k : k = m - 1
    OBVIOUS
  <2>6. k \in 0 .. N /\ k \notin T /\ k \in Nat /\ m = k + 1
    BY <1>2, <2>2, <2>3, <2>4, <2>5
  <2>7. PICK a, E : /\ a = s[k] /\ a.node_count = t.node_count /\ Tree(a, S, E)
                    /\ a.root # x => Cardinality(E[x]) > k
    BY <2>6 DEF Good
  <2>8. s[m] = SplayTurn(a, x)
    BY <1>5, <2>3, <2>4, <2>5, <2>7
  <2>9. Climbed(s[m], a, S, E, x) /\ (x = a.root => s[m] = a)
    BY <2>7, <2>8, SplayTurnIs
  <2>10. PICK F : Tree(s[m], S, F) /\ E[x] \subseteq F[x] /\ (x # a.root => E[x] # F[x])
    BY <2>9 DEF Climbed
  <2>11. CASE x = a.root
    <3>1. s[m].root = x
      BY <2>9, <2>11
    <3> QED BY <2>3, <2>7, <2>9, <2>10, <3>1 DEF Climbed, Good
  <2>12. CASE x # a.root
    <3>1. E[x] \in SUBSET S /\ F[x] \in SUBSET S /\ IsFiniteSet(S)
      BY <2>7, <2>10 DEF Tree
    <3>2. IsFiniteSet(E[x]) /\ IsFiniteSet(F[x])
      BY <3>1, FS_Subset
    <3>3. /\ Cardinality(E[x]) \in Nat /\ Cardinality(F[x]) \in Nat
          /\ Cardinality(E[x]) < Cardinality(F[x])
      <4>1. /\ Cardinality(E[x]) <= Cardinality(F[x])
            /\ Cardinality(E[x]) = Cardinality(F[x]) => E[x] = F[x]
        BY <2>10, <3>2, FS_Subset
      <4>2. Cardinality(E[x]) \in Nat /\ Cardinality(F[x]) \in Nat
        BY <3>2, FS_CardinalityType
      <4> QED BY <2>10, <2>12, <4>1, <4>2
    <3>4. Cardinality(F[x]) > m
      BY <2>6, <2>7, <2>12, <3>3
    <3> QED BY <2>3, <2>7, <2>9, <2>10, <3>4 DEF Climbed, Good
  <2> QED BY <2>11, <2>12
<1>7. Good(N)
  BY <1>2, <1>6
<1>8. PICK E : /\ Tree(s[N], S, E) /\ s[N].node_count = t.node_count
               /\ s[N].root # x => Cardinality(E[x]) > N
  BY <1>7 DEF Good
<1>9. s[N].root = x
  <2>1. E[x] \in SUBSET S /\ IsFiniteSet(S)
    BY <1>8 DEF Tree
  <2>2. Cardinality(E[x]) <= N /\ Cardinality(E[x]) \in Nat
    BY <1>1, <2>1, FS_Subset, FS_CardinalityType
  <2> QED BY <1>2, <1>8, <2>2
<1> QED BY <1>3, <1>8, <1>9 DEF Splayed

-----------------------------------------------------------------------------
(* Searching.                                                              *)

Toward(key, z) == IF key > z THEN "right" ELSE "left"

Search(f, t, key, n) ==
  f = [k \in 0 .. n |->
         IF k = 0 THEN t.root
         ELSE CASE f[k - 1] \in {NULL, key} -> f[k - 1]
                [] OTHER -> t.node[f[k - 1]][IF key > f[k - 1] THEN "right" ELSE "left"]]

LEMMA SearchExists ==
  ASSUME NEW t, NEW key, NEW n \in Nat
  PROVE  \E f : Search(f, t, key, n)
<1> DEFINE Step(z) == CASE z \in {NULL, key} -> z
                        [] OTHER -> t.node[z][IF key > z THEN "right" ELSE "left"]
<1> HIDE DEF Step
<1>0. \A f, m : Search(f, t, key, m) <=>
        f = [k \in 0 .. m |-> IF k = 0 THEN t.root ELSE Step(f[k - 1])]
  BY DEF Search, Step
<1> PICK T : T = {k \in Nat : ~ \E f : Search(f, t, key, k)}
  OBVIOUS
<1>1. SUFFICES ASSUME T # {} PROVE FALSE
  OBVIOUS
<1>2. PICK m \in T : \A y \in T : m <= y
  BY <1>1, NatMin
<1>3. m \in Nat /\ ~ \E f : Search(f, t, key, m)
  OBVIOUS
<1>4. CASE m = 0
  <2>1. PICK f : f = [k \in 0 .. 0 |-> t.root]
    OBVIOUS
  <2>2. f = [k \in 0 .. 0 |-> IF k = 0 THEN t.root ELSE Step(f[k - 1])]
    BY <2>1
  <2>3. Search(f, t, key, 0)
    BY <1>0, <2>2
  <2> QED BY <1>3, <1>4, <2>3
<1>5. CASE m > 0
  <2>1. m - 1 \in Nat /\ m - 1 \notin T
    BY <1>2, <1>3, <1>5
  <2>2. PICK f : Search(f, t, key, m - 1)
    BY <2>1
  <2>6. f = [k \in 0 .. m - 1 |-> IF k = 0 THEN t.root ELSE Step(f[k - 1])]
    BY <1>0, <2>2
  <2>3. PICK g : g = [k \in 0 .. m |-> IF k = m THEN Step(f[m - 1]) ELSE f[k]]
    OBVIOUS
  <2>4. \A k \in 0 .. m : g[k] = IF k = 0 THEN t.root ELSE Step(g[k - 1])
    <3> TAKE k \in 0 .. m
    <3>1. CASE k = m
      <4>1. m - 1 \in 0 .. m /\ m - 1 # m
        BY <1>3, <1>5
      <4> QED BY <1>5, <2>3, <3>1, <4>1
    <3>2. CASE k # m
      <4>1. k \in 0 .. m - 1
        BY <1>3, <3>2
      <4>2. f[k] = IF k = 0 THEN t.root ELSE Step(f[k - 1])
        BY <2>6, <4>1
      <4>3. k # 0 => k - 1 \in 0 .. m /\ k - 1 # m
        BY <1>3, <4>1
      <4> QED BY <2>3, <3>2, <4>2, <4>3
    <3> QED BY <3>1, <3>2
  <2>5. g = [k \in 0 .. m |-> IF k = 0 THEN t.root ELSE Step(g[k - 1])]
    BY <2>3, <2>4
  <2>7. Search(g, t, key, m)
    BY <1>0, <2>5
  <2> QED BY <1>3, <2>7
<1> QED BY <1>3, <1>4, <1>5

\* The nodes of a search: P begins at the root, goes to the child on the side
\* of the key, and has one end.
Trail(P, t, S, D, key) ==
  /\ P \in SUBSET S
  /\ t.root # NULL => t.root \in P
  /\ \A c \in P : c # key => t.node[c][Toward(key, c)] \in P \cup {NULL}
  /\ \A c \in P : c # t.root =>
       /\ t.node[c]["parent"] \in P /\ t.node[c]["parent"] # key
       /\ t.node[t.node[c]["parent"]][Toward(key, t.node[c]["parent"])] = c
  /\ \A c, e \in P : c # key /\ e # key /\ c # e =>
       t.node[c][Toward(key, c)] # NULL \/ t.node[e][Toward(key, e)] # NULL

LEMMA TowardSide ==
  ASSUME NEW key \in Nat, NEW z \in Nat
  PROVE  Toward(key, z) \in Dir /\ (key # z => Before(Toward(key, z), key, z))
BY DEF Toward, Dir, Before

\* The steps of a search.
LEMMA SearchTrail ==
  ASSUME NEW t, NEW S, NEW D, Tree(t, S, D), NEW key \in Nat,
         NEW N, N = Cardinality(S), NEW z, Search(z, t, key, N)
  PROVE  Trail({z[n] : n \in 0 .. N} \ {NULL}, t, S, D, key)
<1>1. N \in Nat /\ IsFiniteSet(S) /\ S \in SUBSET (Nat \ {0}) /\ NULL \notin S /\ S \subseteq Nat
  BY FS_CardinalityType DEF Tree, NULL
<1>2. /\ z[0] = t.root
      /\ \A n \in 0 .. N : n # 0 =>
           z[n] = IF z[n - 1] \in {NULL, key} THEN z[n - 1]
                  ELSE t.node[z[n - 1]][Toward(key, z[n - 1])]
  <2>1. \A n \in 0 .. N :
          z[n] = IF n = 0 THEN t.root
                 ELSE CASE z[n - 1] \in {NULL, key} -> z[n - 1]
                        [] OTHER -> t.node[z[n - 1]][IF key > z[n - 1] THEN "right" ELSE "left"]
    BY Zenon DEF Search
  <2>2. 0 \in 0 .. N
    BY <1>1
  <2>3. z[0] = t.root
    BY <2>1, <2>2
  <2>4. ASSUME NEW n \in 0 .. N, n # 0
        PROVE  z[n] = IF z[n - 1] \in {NULL, key} THEN z[n - 1]
                      ELSE t.node[z[n - 1]][Toward(key, z[n - 1])]
    <3>1. PICK c : c = z[n - 1]
      OBVIOUS
    <3>2. z[n] = CASE c \in {NULL, key} -> c
                   [] OTHER -> t.node[c][IF key > c THEN "right" ELSE "left"]
      BY <2>1, <2>4, <3>1
    <3> QED BY <3>1, <3>2 DEF Toward
  <2> QED BY <2>3, <2>4
<1>3. \A c \in S, d \in Dir : t.node[c][d] \in S \cup {NULL}
  BY Sides DEF Tree, Form
<1>4. \A c \in S : Toward(key, c) \in Dir
  BY <1>1, TowardSide
<1>5. \A c \in S : IsFiniteSet(D[c]) /\ Cardinality(D[c]) \in Nat /\ D[c] \in SUBSET S
                   /\ Cardinality(D[c]) <= N /\ c \in D[c]
  <2> TAKE c \in S
  <2>1. D[c] \in SUBSET S /\ c \in D[c]
    BY DEF Tree
  <2> QED BY <1>1, <2>1, FS_Subset, FS_CardinalityType
<1>6. ASSUME NEW c \in S, NEW d \in Dir, t.node[c][d] # NULL
      PROVE  Cardinality(D[t.node[c][d]]) < Cardinality(D[c])
  <2>1. PICK e : e = t.node[c][d]
    OBVIOUS
  <2>2. e \in S /\ D[e] \subseteq D[c] /\ c \notin D[e]
    BY <1>6, <2>1, Child
  <2>3. Cardinality(D[e]) <= Cardinality(D[c]) /\ Cardinality(D[e]) # Cardinality(D[c])
    <3>1. D[e] # D[c]
      BY <1>5, <2>2
    <3> QED BY <1>5, <2>2, <3>1, FS_Subset
  <2> QED BY <1>5, <2>1, <2>2, <2>3
\* Where the search is after n turns.
<1> DEFINE At(n) == /\ z[n] \in S \cup {NULL}
                    /\ z[n] # NULL /\ z[n] # key => Cardinality(D[z[n]]) + n <= N
<1>7. \A n \in 0 .. N : At(n)
  <2> PICK T : T = {k \in 0 .. N : ~ At(k)}
    OBVIOUS
  <2>1. SUFFICES ASSUME T # {} PROVE FALSE
    OBVIOUS
  <2>2. PICK m \in T : \A y \in T : m <= y
    <3>1. T \in SUBSET Nat
      BY <1>1
    <3> QED BY <2>1, <3>1, NatMin
  <2>3. m \in 0 .. N /\ ~ At(m)
    OBVIOUS
  <2>4. m # 0
    <3>1. t.root \in S \cup {NULL}
      BY DEF Tree, Form
    <3>2. At(0)
      BY <1>1, <1>2, <1>5, <3>1
    <3> QED BY <2>3, <3>2
  <2>5. PICK k, c : k = m - 1 /\ c = z[k]
    OBVIOUS
  <2>6. k \in 0 .. N /\ k \in Nat /\ m = k + 1 /\ At(k)
    BY <1>1, <2>2, <2>3, <2>4, <2>5
  <2>7. z[m] = IF c \in {NULL, key} THEN c ELSE t.node[c][Toward(key, c)]
    BY <1>2, <2>3, <2>4, <2>5
  <2>8. CASE c \in {NULL, key}
    <3>1. At(m)
      BY <2>5, <2>6, <2>7, <2>8
    <3> QED BY <2>3, <3>1
  <2>9. CASE c \notin {NULL, key}
    <3>1. c \in S /\ Cardinality(D[c]) + k <= N
      BY <2>5, <2>6, <2>9
    <3>2. PICK e : e = t.node[c][Toward(key, c)]
      OBVIOUS
    <3>3. e \in S \cup {NULL} /\ z[m] = e
      BY <1>3, <1>4, <2>7, <2>9, <3>1, <3>2
    <3>4. e # NULL => Cardinality(D[e]) < Cardinality(D[c]) /\ Cardinality(D[e]) \in Nat
      BY <1>4, <1>5, <1>6, <3>1, <3>2, <3>3
    <3>5. Cardinality(D[c]) \in Nat
      BY <1>5, <3>1
    <3>6. At(m)
      BY <1>1, <2>6, <3>1, <3>3, <3>4, <3>5
    <3> QED BY <2>3, <3>6
  <2> QED BY <2>8, <2>9
<1>8. PICK P : P = {z[n] : n \in 0 .. N} \ {NULL}
  OBVIOUS
<1>9. P \in SUBSET S
  BY <1>7, <1>8
<1>10. t.root # NULL => t.root \in P
  BY <1>1, <1>2, <1>8
<1>11. ASSUME NEW c \in P, c # key
       PROVE  t.node[c][Toward(key, c)] \in P \cup {NULL}
  <2>1. PICK n \in 0 .. N : c = z[n] /\ c # NULL
    BY <1>8
  <2>2. PICK e : e = t.node[c][Toward(key, c)]
    OBVIOUS
  <2>3. CASE n = N
    <3>1. Cardinality(D[c]) + N <= N /\ Cardinality(D[c]) \in Nat /\ c \in D[c] /\ IsFiniteSet(D[c])
      BY <1>5, <1>7, <1>9, <1>11, <2>1, <2>3
    <3>2. Cardinality(D[c]) # 0
      BY <3>1, FS_EmptySet
    <3> QED BY <1>1, <3>1, <3>2
  <2>4. CASE n # N
    <3>1. n + 1 \in 0 .. N /\ n + 1 # 0 /\ (n + 1) - 1 = n
      BY <1>1, <2>4
    <3>2. z[n + 1] = e
      BY <1>2, <1>11, <2>1, <2>2, <3>1
    <3> QED BY <1>8, <2>2, <3>1, <3>2
  <2> QED BY <2>3, <2>4
<1>12. ASSUME NEW c \in P, c # t.root
       PROVE  /\ t.node[c]["parent"] \in P /\ t.node[c]["parent"] # key
              /\ t.node[t.node[c]["parent"]][Toward(key, t.node[c]["parent"])] = c
  <2> PICK T : T = {k \in 0 .. N : z[k] = c}
    OBVIOUS
  <2>1. T # {} /\ T \in SUBSET Nat
    BY <1>1, <1>8
  <2>2. PICK m \in T : \A y \in T : m <= y
    BY <2>1, NatMin
  <2>3. m \in 0 .. N /\ z[m] = c /\ c # NULL
    BY <1>8
  <2>4. m # 0
    BY <1>2, <1>12, <2>3
  <2>5. PICK k, p : k = m - 1 /\ p = z[k]
    OBVIOUS
  <2>6. k \in 0 .. N /\ k \notin T
    BY <1>1, <2>2, <2>3, <2>4, <2>5
  <2>7. p # c
    BY <2>5, <2>6
  <2>8. p \notin {NULL, key} /\ c = t.node[p][Toward(key, p)]
    BY <1>2, <2>3, <2>4, <2>5, <2>7
  <2>9. p \in P
    BY <1>8, <2>5, <2>6, <2>8
  <2>10. t.node[c]["parent"] = p
    <3>1. p \in S /\ Toward(key, p) \in Dir
      BY <1>4, <1>9, <2>9
    <3> QED BY <2>3, <2>8, <3>1, Child
  <2> QED BY <2>8, <2>9, <2>10
\* After the end comes nothing.
<1>13. ASSUME NEW n \in 0 .. N, z[n] # key, z[n] # NULL, t.node[z[n]][Toward(key, z[n])] = NULL
       PROVE  \A m \in 0 .. N : n < m => z[m] = NULL
  <2> PICK T : T = {k \in 0 .. N : n < k /\ z[k] # NULL}
    OBVIOUS
  <2>1. SUFFICES ASSUME T # {} PROVE FALSE
    OBVIOUS
  <2>2. PICK m \in T : \A y \in T : m <= y
    <3>1. T \in SUBSET Nat
      BY <1>1
    <3> QED BY <2>1, <3>1, NatMin
  <2>3. m \in 0 .. N /\ n < m /\ z[m] # NULL /\ m # 0
    BY <1>1
  <2>4. PICK k : k = m - 1
    OBVIOUS
  <2>5. k \in 0 .. N /\ k \notin T /\ (k = n \/ n < k)
    BY <1>1, <2>2, <2>3, <2>4
  <2>6. CASE k = n
    BY <1>2, <1>13, <2>3, <2>4, <2>6
  <2>7. CASE n < k
    <3>1. z[k] = NULL
      BY <2>5, <2>7
    <3> QED BY <1>2, <2>3, <2>4, <3>1
  <2> QED BY <2>5, <2>6, <2>7
<1>14. ASSUME NEW c \in P, NEW e \in P, c # key, e # key, c # e,
              t.node[c][Toward(key, c)] = NULL, t.node[e][Toward(key, e)] = NULL
       PROVE  FALSE
  <2>1. PICK n \in 0 .. N : c = z[n] /\ c # NULL
    BY <1>8
  <2>2. PICK m \in 0 .. N : e = z[m] /\ e # NULL
    BY <1>8
  <2>3. n < m \/ m < n
    BY <1>1, <1>14, <2>1, <2>2
  <2> QED BY <1>13, <1>14, <2>1, <2>2, <2>3
<1> QED BY <1>8, <1>9, <1>10, <1>11, <1>12, <1>14 DEF Trail

LEMMA PathTrail ==
  ASSUME NEW t, NEW S, NEW D, Tree(t, S, D), NEW key \in Nat
  PROVE  Trail(Path(t, key), t, S, D, key)
<1>1. PICK N : N = Cardinality(S)
  OBVIOUS
<1>2. N \in Nat /\ Nodes(t) = S /\ Turns(t) = 0 .. N
  BY <1>1, FS_CardinalityType DEF Tree, Form, Nodes, Turns
<1>3. PICK z : /\ z = (CHOOSE f : Search(f, t, key, N)) /\ Path(t, key) = Range(z) \ {NULL}
  BY <1>1, <1>2 DEF Path, Search
<1>4. Search(z, t, key, N)
  BY <1>2, <1>3, SearchExists
<1>5. Trail({z[n] : n \in 0 .. N} \ {NULL}, t, S, D, key)
  BY <1>1, <1>4, SearchTrail
<1>6. Range(z) = {z[n] : n \in 0 .. N}
  <2>1. DOMAIN z = 0 .. N
    BY <1>4 DEF Search
  <2> QED BY <2>1 DEF Range
<1> QED BY <1>3, <1>5, <1>6

\* The last node of the search whose subtree holds y.
LEMMA Lowest ==
  ASSUME NEW t, NEW S, NEW D, Tree(t, S, D), NEW key, NEW P, Trail(P, t, S, D, key),
         NEW y \in S
  PROVE  \E c \in P : y \in D[c] /\ \A e \in P : y \in D[e] => ~ (D[e] \subseteq D[c] /\ D[e] # D[c])
<1>1. PICK W : W = {Cardinality(D[c]) : c \in {e \in P : y \in D[e]}}
  OBVIOUS
<1>2. \A c \in P : IsFiniteSet(D[c]) /\ Cardinality(D[c]) \in Nat
  <2> TAKE c \in P
  <2>1. D[c] \in SUBSET S /\ IsFiniteSet(S)
    BY DEF Tree, Trail
  <2> QED BY <2>1, FS_Subset, FS_CardinalityType
<1>3. W # {}
  <2>1. t.root \in P /\ y \in D[t.root]
    BY DEF Tree, Trail
  <2> QED BY <1>1, <2>1
<1>4. PICK w \in W : \A x \in W : w <= x
  <2>1. W \in SUBSET Nat
    BY <1>1, <1>2
  <2> QED BY <1>3, <2>1, NatMin
<1>5. PICK c \in P : y \in D[c] /\ w = Cardinality(D[c])
  BY <1>1
<1>6. ASSUME NEW e \in P, y \in D[e], D[e] \subseteq D[c], D[e] # D[c]
      PROVE  FALSE
  <2>1. Cardinality(D[c]) <= Cardinality(D[e])
    BY <1>1, <1>4, <1>5, <1>6
  <2>2. Cardinality(D[e]) <= Cardinality(D[c]) /\ Cardinality(D[e]) # Cardinality(D[c])
    BY <1>2, <1>6, FS_Subset
  <2> QED BY <1>2, <2>1, <2>2
<1> QED BY <1>5, <1>6

\* A search finds what is there, and else ends where the key belongs.
LEMMA PathFinds ==
  ASSUME NEW t, NEW S, NEW D, Tree(t, S, D), NEW key \in Nat, NEW P, P = Path(t, key)
  PROVE  /\ Trail(P, t, S, D, key)
         /\ key \in S <=> key \in P
         /\ \A y \in S : y <= key => \E c \in P : y <= c /\ c <= key
         /\ key \notin S /\ S # {} =>
              \E c \in P : t.node[c][Toward(key, c)] = NULL
<1>1. Trail(P, t, S, D, key)
  BY PathTrail
<1>2. P \subseteq S /\ S \subseteq Nat /\ NULL \notin S
  BY <1>1 DEF Trail, Tree, NULL
<1>3. \A c \in P : Toward(key, c) \in Dir /\ (key # c => Before(Toward(key, c), key, c))
  BY <1>2, TowardSide
<1>4. ASSUME NEW c \in P, c # key, t.node[c][Toward(key, c)] # NULL, NEW e,
             e = t.node[c][Toward(key, c)]
      PROVE  e \in P /\ D[e] \subseteq D[c] /\ D[e] # D[c]
  <2>1. e \in P
    BY <1>1, <1>4 DEF Trail
  <2>2. c \in S /\ Toward(key, c) \in Dir
    BY <1>2, <1>3
  <2>3. D[e] \subseteq D[c] /\ c \notin D[e] /\ c \in D[c]
    BY <1>4, <2>2, Child
  <2> QED BY <2>1, <2>3
<1>5. ASSUME key \in S PROVE key \in P
  <2>1. PICK c \in P : key \in D[c] /\ \A e \in P : key \in D[e] => ~ (D[e] \subseteq D[c] /\ D[e] # D[c])
    BY <1>1, <1>5, Lowest
  <2>2. SUFFICES ASSUME c # key PROVE FALSE
    BY <2>1
  <2>3. PICK e : e = t.node[c][Toward(key, c)]
    OBVIOUS
  <2>4. e # NULL /\ key \in D[e]
    <3>1. c \in S /\ Toward(key, c) \in Dir /\ Before(Toward(key, c), key, c)
      BY <1>2, <1>3, <2>2
    <3> QED BY <2>1, <2>2, <2>3, <3>1, Member
  <2> QED BY <1>4, <2>1, <2>2, <2>3, <2>4
<1>6. ASSUME NEW y \in S, y <= key
      PROVE  \E c \in P : y <= c /\ c <= key
  <2>1. PICK c \in P : y \in D[c] /\ \A e \in P : y \in D[e] => ~ (D[e] \subseteq D[c] /\ D[e] # D[c])
    BY <1>1, Lowest
  <2>2. c \in S /\ c \in Nat /\ y \in Nat
    BY <1>2
  <2>3. SUFFICES ASSUME ~ (y <= c /\ c <= key) PROVE FALSE
    OBVIOUS
  <2>4. c # key /\ y # c /\ Before(Toward(key, c), y, c)
    BY <1>6, <2>2, <2>3 DEF Toward, Before
  <2>5. PICK e : e = t.node[c][Toward(key, c)]
    OBVIOUS
  <2>6. e # NULL /\ y \in D[e]
    <3>1. Toward(key, c) \in Dir
      BY <1>3
    <3> QED BY <2>1, <2>2, <2>4, <2>5, <3>1, Member
  <2> QED BY <1>4, <2>1, <2>4, <2>5, <2>6
<1>7. ASSUME key \notin S, S # {}
      PROVE  \E c \in P : t.node[c][Toward(key, c)] = NULL
  <2>1. PICK y \in S : y = t.root
    BY <1>7 DEF Tree, Form
  <2>2. PICK W : W = {Cardinality(D[c]) : c \in P}
    OBVIOUS
  <2>3. \A c \in P : IsFiniteSet(D[c]) /\ Cardinality(D[c]) \in Nat
    <3> TAKE c \in P
    <3>1. D[c] \in SUBSET S /\ IsFiniteSet(S)
      BY <1>2 DEF Tree
    <3> QED BY <3>1, FS_Subset, FS_CardinalityType
  <2>4. y \in P
    BY <1>1, <1>2, <2>1 DEF Trail
  <2>5. PICK w \in W : \A x \in W : w <= x
    <3>1. W \in SUBSET Nat /\ W # {}
      BY <2>2, <2>3, <2>4
    <3> QED BY <3>1, NatMin
  <2>6. PICK c \in P : w = Cardinality(D[c])
    BY <2>2
  <2>7. SUFFICES ASSUME t.node[c][Toward(key, c)] # NULL PROVE FALSE
    BY <2>6
  <2>8. PICK e : e = t.node[c][Toward(key, c)]
    OBVIOUS
  <2>9. c # key
    BY <1>2, <1>7
  <2>10. e \in P /\ D[e] \subseteq D[c] /\ D[e] # D[c]
    BY <1>4, <2>7, <2>8, <2>9
  <2>11. Cardinality(D[e]) <= Cardinality(D[c]) /\ Cardinality(D[e]) # Cardinality(D[c])
    BY <2>3, <2>10, FS_Subset
  <2>12. Cardinality(D[c]) <= Cardinality(D[e])
    BY <2>2, <2>5, <2>6, <2>10
  <2> QED BY <2>3, <2>10, <2>11, <2>12
<1> QED BY <1>1, <1>2, <1>5, <1>6, <1>7

\* What tree_find_nearest answers.
NearestOf(prev, S, key) ==
  /\ prev = NULL => \A y \in S : key < y
  /\ prev # NULL => prev \in S /\ prev <= key /\ \A y \in S : y <= key => y <= prev

LEMMA NearestIs ==
  ASSUME NEW t, NEW S, NEW D, Tree(t, S, D), NEW key \in Nat
  PROVE  NearestOf(tree_find_nearest(t, key), S, key)
<1>1. PICK P, below, prev : /\ P = Path(t, key) /\ below = {z \in P : z <= key}
                            /\ prev = tree_find_nearest(t, key)
  OBVIOUS
<1>2. /\ Trail(P, t, S, D, key)
      /\ \A y \in S : y <= key => \E c \in P : y <= c /\ c <= key
  BY <1>1, PathFinds
<1>3. P \subseteq S /\ S \subseteq Nat /\ NULL \notin S
  BY <1>2 DEF Trail, Tree, NULL
<1>4. CASE below = {}
  <2>1. prev = NULL
    BY <1>1, <1>4 DEF tree_find_nearest
  <2>2. \A y \in S : key < y
    <3> TAKE y \in S
    <3>1. ~ (y <= key)
      BY <1>1, <1>2, <1>4
    <3>2. y \in Nat
      BY <1>3
    <3> QED BY <3>1, <3>2
  <2> QED BY <1>1, <2>1, <2>2 DEF NearestOf
<1>5. CASE below # {}
  <2>1. prev = CHOOSE x \in below : \A y \in below : x >= y
    BY <1>1, <1>5 DEF tree_find_nearest, Max
  <2>2. below \subseteq Nat /\ \A c \in below : c <= key
    BY <1>1, <1>3
  <2>3. \E x \in below : \A y \in below : x >= y
    <3>1. PICK T : T = {key - c : c \in below}
      OBVIOUS
    <3>2. T \in SUBSET Nat /\ T # {}
      <4>1. \A c \in below : key - c \in Nat
        <5> TAKE c \in below
        <5>1. c \in Nat /\ c <= key
          BY <2>2
        <5> QED BY <5>1
      <4> QED BY <1>5, <3>1, <4>1
    <3>3. PICK m \in T : \A x \in T : m <= x
      BY <3>2, NatMin
    <3>4. PICK x \in below : m = key - x
      BY <3>1
    <3>5. \A y \in below : key - x <= key - y
      BY <3>1, <3>3, <3>4
    <3>6. \A y \in below : x >= y
      <4> TAKE y \in below
      <4>1. x \in Nat /\ y \in Nat /\ key - x <= key - y
        BY <2>2, <3>5
      <4> QED BY <4>1
    <3> QED BY <3>6
  <2>4. prev \in below /\ \A y \in below : prev >= y
    BY <2>1, <2>3
  <2>5. prev \in S /\ prev <= key /\ prev # NULL /\ prev \in Nat
    BY <1>1, <1>3, <2>4
  <2>6. ASSUME NEW y \in S, y <= key PROVE y <= prev
    <3>1. PICK c \in P : y <= c /\ c <= key
      BY <1>2, <2>6
    <3>2. c \in below /\ c \in Nat /\ y \in Nat
      BY <1>1, <1>3, <3>1
    <3>3. prev >= c
      BY <2>4, <3>2
    <3> QED BY <2>5, <3>1, <3>2, <3>3
  <2> QED BY <1>1, <2>5, <2>6 DEF NearestOf
<1> QED BY <1>4, <1>5

\* A tree that counts its nodes is well formed.
LEMMA TreeWellFormed ==
  ASSUME NEW t, NEW S, NEW D, Tree(t, S, D), t.node_count = Cardinality(S)
  PROVE  WellFormed(t) /\ Nodes(t) = S
<1>1. Nodes(t) = S
  BY DEF Tree, Form, Nodes
<1>2. t.root = NULL <=> S = {}
  <2>1. S = {} => t.root = NULL
    BY DEF Tree, Form
  <2> QED BY <2>1 DEF Tree
<1>3. ASSUME NEW x \in S
      PROVE  /\ t.node[x].parent = NULL <=> x = t.root
             /\ \A side \in {"left", "right"} :
                  t.node[x][side] # NULL =>
                    t.node[x][side] \in S /\ t.node[t.node[x][side]].parent = x
             /\ x \in Path(t, x)
  <2>1. t.node[x].parent = NULL <=> x = t.root
    BY DEF Tree
  <2>2. \A side \in Dir : t.node[x][side] # NULL =>
          t.node[x][side] \in S /\ t.node[t.node[x][side]].parent = x
    BY Child
  <2>3. x \in Path(t, x)
    <3>1. x \in Nat
      BY DEF Tree
    <3> QED BY <3>1, PathFinds
  <2> QED BY <2>1, <2>2, <2>3 DEF Dir
<1> QED BY <1>1, <1>2, <1>3 DEF WellFormed

-----------------------------------------------------------------------------
(* Inserting.                                                              *)

\* h is t with the leaf "key" below p.
Leafed(h, t, S, key, p) ==
  /\ Form(h, S \cup {key}) /\ h.node_count = t.node_count
  /\ h.root = IF p = NULL THEN key ELSE t.root
  /\ h.node[key]["parent"] = p /\ \A d \in Dir : h.node[key][d] = NULL
  /\ \A u \in S : h.node[u]["parent"] = t.node[u]["parent"]
  /\ \A u \in S, d \in Dir :
       h.node[u][d] = IF u = p /\ d = Toward(key, p) THEN key ELSE t.node[u][d]

Grow(t, key, p) ==
  [t EXCEPT !.node = [z \in DOMAIN @ \cup {key} |->
     IF z = key THEN [parent |-> p, left |-> NULL, right |-> NULL] ELSE @[z]]]

Hang(grown, key, p) ==
  IF p = NULL THEN [grown EXCEPT !.root = key]
  ELSE [grown EXCEPT !.node[p][IF p < key THEN "right" ELSE "left"] = key]

LEMMA LeafedIs ==
  ASSUME NEW t, NEW S, Form(t, S), NULL \notin S, S \subseteq Nat, NEW key \in Nat,
         key \notin S, key # NULL, NEW p, p \in S \cup {NULL}, p = NULL => S = {}
  PROVE  Leafed(Hang(Grow(t, key, p), key, p), t, S, key, p)
<1>0. PICK grown : grown = Grow(t, key, p)
  OBVIOUS
<1>9. PICK h : h = Hang(grown, key, p)
  OBVIOUS
<1> SUFFICES Leafed(h, t, S, key, p)
  BY <1>0, <1>9
<1>1. PICK R, leaf : /\ R = S \cup {key}
                     /\ leaf = [parent |-> p, left |-> NULL, right |-> NULL]
  OBVIOUS
<1>2. leaf \in [Fields -> R \cup {NULL}] /\ leaf["parent"] = p /\ \A d \in Dir : leaf[d] = NULL
  BY <1>1 DEF Fields, Dir
<1>3. DOMAIN t.node = S
  BY DEF Form
<1>4. PICK m : m = [z \in R |-> IF z = key THEN leaf ELSE t.node[z]]
  OBVIOUS
<1>5. grown = [root |-> t.root, node_count |-> t.node_count, node |-> m]
  BY <1>0, <1>1, <1>3, <1>4 DEF Form, Grow
<1>6. m \in [R -> [Fields -> R \cup {NULL}]]
  <2>1. \A z \in S : t.node[z] \in [Fields -> R \cup {NULL}]
    <3>1. \A z \in S : t.node[z] \in [Fields -> S \cup {NULL}]
      BY DEF Form
    <3>2. S \cup {NULL} \subseteq R \cup {NULL}
      BY <1>1
    <3> QED BY <3>1, <3>2
  <2> QED BY <1>1, <1>2, <1>4, <2>1
<1>7. CASE p = NULL
  <2>1. h = [root |-> key, node_count |-> t.node_count, node |-> m]
    BY <1>5, <1>7, <1>9 DEF Hang
  <2>2. h.root \in R \cup {NULL}
    BY <1>1, <2>1
  <2>3. Form(h, R)
    BY <1>6, <2>1, <2>2 DEF Form
  <2>4. S = {}
    BY <1>7
  <2> QED BY <1>1, <1>2, <1>4, <1>7, <2>1, <2>3, <2>4 DEF Leafed
<1>8. CASE p # NULL
  <2>1. p \in S /\ p \in R /\ p # key
    BY <1>1, <1>8
  <2>2. Form(grown, R)
    <3>1. grown.root \in R \cup {NULL}
      BY <1>1, <1>5 DEF Form
    <3> QED BY <1>5, <1>6, <3>1 DEF Form
  <2>3. Toward(key, p) \in Dir
    BY DEF Toward, Dir
  <2>4. PICK s, c : s = Toward(key, p) /\ c = key
    OBVIOUS
  <2>5. GivenChild([grown EXCEPT !.node[p][s] = c], grown, R, p, s, c)
    BY <1>1, <2>1, <2>2, <2>3, <2>4, SetChildIs
  <2>6. GivenChild(h, grown, R, p, s, key)
    <3>1. s = IF p < key THEN "right" ELSE "left"
      BY <2>1, <2>4 DEF Toward
    <3> QED BY <1>8, <1>9, <2>4, <2>5, <3>1 DEF Hang
  <2>7. /\ Form(h, R) /\ h.root = t.root /\ h.node_count = t.node_count
        /\ \A u \in R : h.node[u]["parent"] = m[u]["parent"]
        /\ \A u \in R, d \in Dir : h.node[u][d] = IF u = p /\ d = s THEN key ELSE m[u][d]
    BY <1>5, <2>6 DEF GivenChild
  <2>8. m[key] = leaf /\ \A u \in S : m[u] = t.node[u]
    BY <1>1, <1>4
  <2>9. key \in R /\ S \subseteq R
    BY <1>1
  <2>10. h.node[key]["parent"] = p /\ \A d \in Dir : h.node[key][d] = NULL
    BY <1>2, <2>1, <2>7, <2>8, <2>9
  <2>11. \A u \in S : h.node[u]["parent"] = t.node[u]["parent"]
    BY <2>7, <2>8, <2>9
  <2>12. \A u \in S, d \in Dir :
           h.node[u][d] = IF u = p /\ d = Toward(key, p) THEN key ELSE t.node[u][d]
    BY <2>4, <2>7, <2>8, <2>9
  <2> QED BY <1>1, <1>8, <2>7, <2>10, <2>11, <2>12 DEF Leafed
<1> QED BY <1>7, <1>8

\* A leaf at the end of the search is in order.
LEMMA LeafedTree ==
  ASSUME NEW t, NEW S, NEW D, Tree(t, S, D), NEW key \in Nat \ {0}, key \notin S,
         NEW P, Trail(P, t, S, D, key), NEW p,
         IF S = {} THEN p = NULL ELSE p \in P /\ t.node[p][Toward(key, p)] = NULL,
         NEW h, Leafed(h, t, S, key, p)
  PROVE  \E E : Tree(h, S \cup {key}, E)
<1>1. PICK R : R = S \cup {key}
  OBVIOUS
<1>2. PICK E : E = [u \in R |-> IF u = key THEN {key} ELSE IF u \in P THEN D[u] \cup {key} ELSE D[u]]
  OBVIOUS
<1>3. /\ Form(h, R)
      /\ h.root = IF p = NULL THEN key ELSE t.root
      /\ h.node[key]["parent"] = p /\ \A d \in Dir : h.node[key][d] = NULL
      /\ \A u \in S : h.node[u]["parent"] = t.node[u]["parent"]
      /\ \A u \in S, d \in Dir :
           h.node[u][d] = IF u = p /\ d = Toward(key, p) THEN key ELSE t.node[u][d]
  BY <1>1 DEF Leafed
<1>4. /\ S \in SUBSET (Nat \ {0}) /\ IsFiniteSet(S) /\ D \in [S -> SUBSET S]
      /\ P \subseteq S /\ NULL \notin S /\ key # NULL /\ NULL \notin R
      /\ \A u \in S, d \in Dir : t.node[u][d] \in S \cup {NULL}
      /\ \A u \in S : t.node[u]["parent"] \in S \cup {NULL}
  <2>1. \A u \in S, d \in Dir : t.node[u][d] \in S \cup {NULL}
    BY Sides DEF Tree, Form
  <2>2. \A u \in S : t.node[u]["parent"] \in S \cup {NULL}
    BY DEF Tree, Form, Fields
  <2> QED BY <1>1, <2>1, <2>2 DEF Tree, Trail, NULL
<1>5. \A u \in S : Toward(key, u) \in Dir /\ u # key /\ Before(Toward(key, u), key, u)
  BY <1>4, TowardSide
<1>6. R \in SUBSET (Nat \ {0}) /\ IsFiniteSet(R)
  <2>1. IsFiniteSet(S \cup {key})
    BY <1>4, FS_AddElement
  <2> QED BY <1>1, <1>4, <2>1
<1>7. E \in [R -> SUBSET R]
  BY <1>1, <1>2, <1>4
<1>8. S # {} => p \in P /\ p \in S /\ p # NULL /\ t.node[p][Toward(key, p)] = NULL
  BY <1>4
<1>9. p = NULL <=> S = {}
  BY <1>8
<1>10. h.root \in R /\ h.root # NULL /\ E[h.root] = R
  <2>1. CASE S = {}
    BY <1>1, <1>2, <1>3, <1>4, <1>9, <2>1
  <2>2. CASE S # {}
    <3>1. t.root \in S /\ D[t.root] = S /\ t.root \in P
      BY <1>4, <2>2 DEF Tree, Trail, Form
    <3> QED BY ZenonT(60), <1>1, <1>2, <1>3, <1>4, <1>9, <2>2, <3>1
  <2> QED BY <2>1, <2>2
<1>11. ASSUME NEW u \in R PROVE h.node[u]["parent"] = NULL <=> u = h.root
  <2>1. CASE u = key
    <3>1. S # {} => t.root \in S
      BY DEF Tree, Form
    <3> QED BY <1>3, <1>9, <2>1, <3>1
  <2>2. CASE u # key
    <3>1. u \in S
      BY <1>1, <2>2
    <3>2. h.node[u]["parent"] = t.node[u]["parent"] /\ h.root = t.root
      BY <1>3, <1>9, <3>1
    <3> QED BY <3>1, <3>2 DEF Tree
  <2> QED BY <2>1, <2>2
<1>12. ASSUME NEW u \in R, h.node[u]["parent"] # NULL
       PROVE  \E d \in Dir : h.node[h.node[u]["parent"]][d] = u
  <2>1. CASE u = key
    <3>1. p \in S
      BY <1>3, <1>8, <1>9, <1>12, <2>1
    <3>2. h.node[p][Toward(key, p)] = key
      BY <1>3, <1>5, <3>1
    <3> QED BY <1>3, <1>5, <2>1, <3>1, <3>2
  <2>2. CASE u # key
    <3>1. u \in S
      BY <1>1, <2>2
    <3>2. PICK q : q = t.node[u]["parent"]
      OBVIOUS
    <3>3. h.node[u]["parent"] = q /\ q \in S
      BY <1>3, <1>4, <1>12, <3>1, <3>2
    <3>4. PICK d \in Dir : t.node[q][d] = u
      BY <1>4, <3>1, <3>2, <3>3 DEF Tree
    <3>5. h.node[q][d] = u
      BY <1>3, <1>4, <1>8, <3>1, <3>3, <3>4
    <3> QED BY <3>3, <3>5
  <2> QED BY <2>1, <2>2
<1>13. ASSUME NEW u \in R, NEW d \in Dir, h.node[u][d] # NULL
       PROVE  h.node[h.node[u][d]]["parent"] = u
  <2>1. u \in S
    BY <1>1, <1>3, <1>13
  <2>2. CASE u = p /\ d = Toward(key, p)
    BY <1>3, <2>1, <2>2
  <2>3. CASE ~ (u = p /\ d = Toward(key, p))
    <3>1. PICK c : c = t.node[u][d]
      OBVIOUS
    <3>2. h.node[u][d] = c /\ c \in S
      <4>1. h.node[u][d] = c
        BY <1>3, <2>1, <2>3, <3>1
      <4>2. c # NULL
        BY <1>13, <4>1
      <4> QED BY <1>4, <2>1, <3>1, <4>1, <4>2
    <3>3. t.node[c]["parent"] = u
      BY <1>4, <2>1, <3>1, <3>2, Child
    <3>4. h.node[c]["parent"] = t.node[c]["parent"]
      BY <1>3, <3>2
    <3> QED BY <3>2, <3>3, <3>4
  <2> QED BY <2>2, <2>3
\* What is below the sides of a node.
<1>14. Under(E, NULL) = {} /\ Under(E, key) = {key} /\ \A c \in S : Under(E, c) = E[c] /\ Under(D, c) = D[c]
  BY <1>1, <1>2, <1>4 DEF Under
<1>15. ASSUME NEW u \in S, NEW d \in Dir
       PROVE  Under(E, h.node[u][d]) =
                IF u \in P /\ d = Toward(key, u) THEN Under(D, t.node[u][d]) \cup {key}
                ELSE Under(D, t.node[u][d])
  <2>1. PICK c : c = t.node[u][d]
    OBVIOUS
  <2>2. c \in S \cup {NULL} /\ Under(D, NULL) = {}
    BY <1>4, <2>1 DEF Under
  <2>3. CASE u = p /\ d = Toward(key, p)
    <3>1. h.node[u][d] = key /\ c = NULL /\ u \in P
      BY <1>3, <1>8, <2>1, <2>3
    <3> QED BY <1>14, <2>1, <2>2, <2>3, <3>1
  <2>4. CASE ~ (u = p /\ d = Toward(key, p))
    <3>1. h.node[u][d] = c
      BY <1>3, <2>1, <2>4
    <3>2. CASE u \in P /\ d = Toward(key, u)
      <4>1. u # p
        BY <2>4, <3>2
      <4>2. p \in P /\ t.node[p][Toward(key, p)] = NULL
        BY <1>8
      <4>3. c \in P \cup {NULL}
        BY <1>5, <2>1, <3>2 DEF Trail
      <4>4. c # NULL
        BY <1>4, <1>5, <2>1, <3>2, <4>1, <4>2 DEF Trail
      <4>5. c \in S /\ c \in P /\ c # key
        BY <1>4, <4>3, <4>4
      <4>6. E[c] = D[c] \cup {key}
        BY <1>1, <1>2, <4>5
      <4> QED BY <1>14, <2>1, <3>1, <3>2, <4>5, <4>6
    <3>3. CASE ~ (u \in P /\ d = Toward(key, u))
      <4>1. CASE c = NULL
        BY <1>14, <2>1, <2>2, <3>1, <3>3, <4>1
      <4>2. CASE c # NULL
        <5>1. c \in S /\ t.node[c]["parent"] = u /\ c # t.root
          BY <1>4, <2>1, <4>2, Child
        <5>2. c \notin P
          <6>1. SUFFICES ASSUME c \in P PROVE FALSE
            OBVIOUS
          <6>2. u \in P /\ t.node[u][Toward(key, u)] = c
            BY <5>1, <6>1 DEF Trail
          <6>3. d # Toward(key, u) /\ Toward(key, u) \in Dir
            BY <1>5, <3>3, <6>2
          <6>4. t.node[u][d] # t.node[u][Toward(key, u)]
            BY <2>1, <4>2, <6>3, SidesApart
          <6> QED BY <2>1, <6>2, <6>4
        <5>3. E[c] = D[c]
          BY <1>1, <1>2, <5>1, <5>2
        <5> QED BY <1>14, <2>1, <3>1, <3>3, <5>1, <5>3
      <4> QED BY <4>1, <4>2
    <3> QED BY <3>2, <3>3
  <2> QED BY <2>3, <2>4
<1>16. ASSUME NEW u \in R
       PROVE  E[u] = {u} \cup Under(E, h.node[u]["left"]) \cup Under(E, h.node[u]["right"])
  <2>1. "left" \in Dir /\ "right" \in Dir /\ \A d \in Dir : d = "left" \/ d = "right"
    BY DEF Dir
  <2>2. CASE u = key
    BY <1>1, <1>2, <1>3, <1>14, <2>1, <2>2
  <2>3. CASE u # key
    <3>1. u \in S
      BY <1>1, <2>3
    <3>2. D[u] = {u} \cup Under(D, t.node[u]["left"]) \cup Under(D, t.node[u]["right"])
      BY <3>1 DEF Tree
    <3>3. E[u] = IF u \in P THEN D[u] \cup {key} ELSE D[u]
      BY <1>1, <1>2, <2>3
    <3>4. CASE u \in P
      <4>1. Toward(key, u) = "left" \/ Toward(key, u) = "right"
        BY <1>5, <2>1, <3>1
      <4> QED BY <1>15, <2>1, <3>1, <3>2, <3>3, <3>4, <4>1
    <3>5. CASE u \notin P
      BY <1>15, <2>1, <3>1, <3>2, <3>3, <3>5
    <3> QED BY <3>4, <3>5
  <2> QED BY <2>2, <2>3
<1>17. ASSUME NEW u \in R, NEW d \in Dir, NEW v \in Under(E, h.node[u][d])
       PROVE  Before(d, v, u)
  <2>1. u \in S
    <3>1. u = key => Under(E, h.node[u][d]) = {}
      BY <1>3, <1>14
    <3> QED BY <1>1, <1>17, <3>1
  <2>2. v \in Under(D, t.node[u][d]) \/ (v = key /\ d = Toward(key, u))
    BY <1>15, <1>17, <2>1
  <2>3. v \in Under(D, t.node[u][d]) => Before(d, v, u)
    BY <2>1 DEF Tree
  <2> QED BY <1>5, <2>1, <2>2, <2>3
<1>18. Tree(h, R, E)
  BY <1>3, <1>6, <1>7, <1>10, <1>11, <1>12, <1>13, <1>16, <1>17 DEF Tree
<1> QED BY <1>1, <1>18

Grew(r, t, S, key) ==
  r.node_count = t.node_count + 1 /\ \E E : Tree(r, S \cup {key}, E)

LEMMA InsertIs ==
  ASSUME NEW t, NEW S, NEW D, Tree(t, S, D), NEW key \in Nat \ {0}, key \notin S
  PROVE  Grew(tree_insert(t, key), t, S, key)
<1>1. PICK P : P = Path(t, key)
  OBVIOUS
<1>2. /\ Trail(P, t, S, D, key) /\ key \notin P
      /\ S # {} => \E c \in P : t.node[c][Toward(key, c)] = NULL
  BY <1>1, PathFinds
<1>3. PICK p : p = IF P = {} THEN NULL
                   ELSE CHOOSE z \in P : t.node[z][IF z < key THEN "right" ELSE "left"] = NULL
  OBVIOUS
<1>4. P \subseteq S /\ S \subseteq Nat /\ NULL \notin S /\ key # NULL /\ Form(t, S)
  BY <1>2 DEF Trail, Tree, NULL
<1>5. IF S = {} THEN p = NULL ELSE p \in P /\ t.node[p][Toward(key, p)] = NULL
  <2>1. CASE S = {}
    BY <1>3, <1>4, <2>1
  <2>2. CASE S # {}
    <3>1. \A z \in P : Toward(key, z) = IF z < key THEN "right" ELSE "left"
      BY <1>4 DEF Toward
    <3>2. PICK c \in P : t.node[c][IF c < key THEN "right" ELSE "left"] = NULL
      BY <1>2, <2>2, <3>1
    <3>3. p \in P /\ t.node[p][IF p < key THEN "right" ELSE "left"] = NULL
      BY <1>3, <3>2
    <3> QED BY <2>2, <3>1, <3>3
  <2> QED BY <2>1, <2>2
<1>6. PICK h : h = Hang(Grow(t, key, p), key, p)
  OBVIOUS
<1>7. p # NULL => p \in S /\ Toward(key, p) = IF p < key THEN "right" ELSE "left"
  BY <1>4, <1>5 DEF Toward
<1>8. p \in S \cup {NULL} /\ (p = NULL => S = {})
  BY <1>4, <1>5, <1>7
<1>10. Leafed(h, t, S, key, p)
  BY <1>4, <1>6, <1>8, LeafedIs
<1>11. PICK E : Tree(h, S \cup {key}, E)
  BY SMTT(30), <1>2, <1>5, <1>10, LeafedTree
<1>12. tree_insert(t, key) = [splay(h, key) EXCEPT !.node_count = @ + 1]
  BY <1>1, <1>2, <1>3, <1>6 DEF tree_insert, Hang, Grow
<1>13. PICK R, s : R = S \cup {key} /\ s = splay(h, key)
  OBVIOUS
<1>14. Splayed(splay(h, key), h, R, key)
  BY <1>11, <1>13, SplayIs
<1>15. PICK F : Tree(s, R, F) /\ s.node_count = h.node_count
  BY <1>13, <1>14 DEF Splayed
<1>16. PICK r : r = [s EXCEPT !.node_count = @ + 1]
  OBVIOUS
<1>17. r = [root |-> s.root, node_count |-> s.node_count + 1, node |-> s.node]
  BY <1>15, <1>16 DEF Tree, Form
<1>18. r.root = s.root /\ r.node = s.node
  BY <1>17
<1>19. Tree(r, R, F)
  <2>1. Form(r, R)
    BY <1>15, <1>17, <1>18 DEF Tree, Form
  <2> QED BY <1>15, <1>18, <2>1 DEF Tree
<1> QED BY <1>10, <1>12, <1>13, <1>15, <1>16, <1>17, <1>19 DEF Grew, Leafed

-----------------------------------------------------------------------------
(* Removing.                                                               *)

\* A subtree is smaller than the one it is part of.
LEMMA Smaller ==
  ASSUME NEW t, NEW S, NEW D, Tree(t, S, D), NEW x \in S, NEW d \in Dir,
         NEW c, c = t.node[x][d], c # NULL
  PROVE  /\ Cardinality(D[c]) \in Nat /\ Cardinality(D[x]) \in Nat
         /\ Cardinality(D[c]) < Cardinality(D[x])
<1>1. c \in S /\ D[c] \subseteq D[x] /\ x \notin D[c] /\ x \in D[x]
  BY Child
<1>2. D[x] \in SUBSET S /\ IsFiniteSet(S)
  BY DEF Tree
<1>3. IsFiniteSet(D[x])
  BY <1>2, FS_Subset
<1>4. /\ IsFiniteSet(D[c]) /\ Cardinality(D[c]) <= Cardinality(D[x])
      /\ Cardinality(D[c]) = Cardinality(D[x]) => D[c] = D[x]
  BY <1>1, <1>3, FS_Subset
<1>5. D[c] # D[x]
  BY <1>1
<1>6. Cardinality(D[c]) \in Nat /\ Cardinality(D[x]) \in Nat
  BY <1>3, <1>4, FS_CardinalityType
<1> QED BY <1>4, <1>5, <1>6

LEMMA Nested ==
  ASSUME NEW t, NEW S, NEW D, Tree(t, S, D), NEW u \in S, NEW x \in D[u]
  PROVE  x \in S /\ D[x] \subseteq D[u]
<1> PICK C : C = {c \in D[u] : x \in D[c] /\ D[c] \subseteq D[u]}
  OBVIOUS
<1> PICK W : W = {Cardinality(D[c]) : c \in C}
  OBVIOUS
<1>1. D[u] \in SUBSET S /\ IsFiniteSet(S) /\ S \subseteq Nat
  BY DEF Tree
<1>2. u \in C
  BY DEF Tree
<1>3. W \in SUBSET Nat /\ W # {}
  <2>1. \A c \in C : Cardinality(D[c]) \in Nat
    <3> TAKE c \in C
    <3>1. D[c] \in SUBSET S
      BY <1>1
    <3> QED BY <1>1, <3>1, FS_Subset, FS_CardinalityType
  <2> QED BY <1>2, <2>1
<1>4. PICK w \in W : \A y \in W : w <= y
  BY <1>3, NatMin
<1>5. PICK c \in C : w = Cardinality(D[c])
  OBVIOUS
<1>6. SUFFICES ASSUME c # x PROVE FALSE
  BY <1>1, <1>5
<1>7. c \in S /\ x \in S /\ x \in D[c] /\ D[c] \subseteq D[u]
  BY <1>1
<1>8. PICK d \in Dir : Before(d, x, c)
  <2>1. x \in Nat /\ c \in Nat
    BY <1>1, <1>7
  <2>2. Before("left", x, c) \/ Before("right", x, c)
    BY <1>6, <2>1 DEF Before
  <2> QED BY <2>2 DEF Dir
<1>9. PICK e : e = t.node[c][d]
  OBVIOUS
<1>10. e # NULL /\ e \in S /\ x \in D[e]
  BY <1>6, <1>7, <1>8, <1>9, Member
<1>11. D[e] \subseteq D[c] /\ e \in D[e]
  BY <1>7, <1>9, <1>10, Child
<1>12. e \in C
  BY <1>7, <1>10, <1>11
<1>13. /\ Cardinality(D[e]) \in Nat /\ Cardinality(D[c]) \in Nat
       /\ Cardinality(D[e]) < Cardinality(D[c])
  BY <1>7, <1>9, <1>10, Smaller
<1>14. Cardinality(D[c]) <= Cardinality(D[e])
  BY <1>4, <1>5, <1>12
<1> QED BY <1>13, <1>14

\* The root is below nobody.
LEMMA RootAlone ==
  ASSUME NEW t, NEW S, NEW D, Tree(t, S, D), NEW z \in S, z = t.root, NEW u \in S, u # z
  PROVE  z \notin D[u]
<1>1. D[z] = S /\ z # NULL /\ S \subseteq Nat
  BY DEF Tree, NULL
<1>2. PICK d \in Dir : Before(d, u, z)
  <2>1. Before("left", u, z) \/ Before("right", u, z)
    BY <1>1 DEF Before
  <2> QED BY <2>1 DEF Dir
<1>3. PICK c : c = t.node[z][d]
  OBVIOUS
<1>4. c # NULL /\ c \in S /\ u \in D[c]
  BY <1>1, <1>2, <1>3, Member
<1>5. z \notin D[c]
  BY <1>3, <1>4, Child
<1>6. D[u] \subseteq D[c]
  BY <1>4, Nested
<1> QED BY <1>5, <1>6

Descent(f, t, u, n) ==
  f = [k \in 0 .. n |->
         IF k = 0 THEN u
         ELSE IF t.node[f[k - 1]].left = NULL THEN f[k - 1] ELSE t.node[f[k - 1]].left]

LEMMA DescentExists ==
  ASSUME NEW t, NEW u, NEW n \in Nat
  PROVE  \E f : Descent(f, t, u, n)
<1> DEFINE Step(z) == IF t.node[z].left = NULL THEN z ELSE t.node[z].left
<1> HIDE DEF Step
<1>0. \A f, m : Descent(f, t, u, m) <=>
        f = [k \in 0 .. m |-> IF k = 0 THEN u ELSE Step(f[k - 1])]
  BY DEF Descent, Step
<1> PICK T : T = {k \in Nat : ~ \E f : Descent(f, t, u, k)}
  OBVIOUS
<1>1. SUFFICES ASSUME T # {} PROVE FALSE
  OBVIOUS
<1>2. PICK m \in T : \A y \in T : m <= y
  BY <1>1, NatMin
<1>3. m \in Nat /\ ~ \E f : Descent(f, t, u, m)
  OBVIOUS
<1>4. CASE m = 0
  <2>1. PICK f : f = [k \in 0 .. 0 |-> u]
    OBVIOUS
  <2>2. f = [k \in 0 .. 0 |-> IF k = 0 THEN u ELSE Step(f[k - 1])]
    BY <2>1
  <2>3. Descent(f, t, u, 0)
    BY <1>0, <2>2
  <2> QED BY <1>3, <1>4, <2>3
<1>5. CASE m > 0
  <2>1. m - 1 \in Nat /\ m - 1 \notin T
    BY <1>2, <1>3, <1>5
  <2>2. PICK f : Descent(f, t, u, m - 1)
    BY <2>1
  <2>3. f = [k \in 0 .. m - 1 |-> IF k = 0 THEN u ELSE Step(f[k - 1])]
    BY <1>0, <2>2
  <2>4. PICK g : g = [k \in 0 .. m |-> IF k = m THEN Step(f[m - 1]) ELSE f[k]]
    OBVIOUS
  <2>5. \A k \in 0 .. m : g[k] = IF k = 0 THEN u ELSE Step(g[k - 1])
    <3> TAKE k \in 0 .. m
    <3>1. CASE k = m
      <4>1. m - 1 \in 0 .. m /\ m - 1 # m
        BY <1>3, <1>5
      <4> QED BY <1>5, <2>4, <3>1, <4>1
    <3>2. CASE k # m
      <4>1. k \in 0 .. m - 1
        BY <1>3, <3>2
      <4>2. f[k] = IF k = 0 THEN u ELSE Step(f[k - 1])
        BY <2>3, <4>1
      <4>3. k # 0 => k - 1 \in 0 .. m /\ k - 1 # m
        BY <1>3, <4>1
      <4> QED BY <2>4, <3>2, <4>2, <4>3
    <3> QED BY <3>1, <3>2
  <2>6. g = [k \in 0 .. m |-> IF k = 0 THEN u ELSE Step(g[k - 1])]
    BY <2>4, <2>5
  <2>7. Descent(g, t, u, m)
    BY <1>0, <2>6
  <2> QED BY <1>3, <2>7
<1> QED BY <1>3, <1>4, <1>5

LEMMA MinimumIs ==
  ASSUME NEW t, NEW S, NEW D, Tree(t, S, D), NEW u \in S, NEW y, y = subtree_minimum(t, u)
  PROVE  y \in D[u] /\ y \in S /\ t.node[y]["left"] = NULL /\ \A v \in D[u] : y <= v
<1>1. PICK N : N = Cardinality(S)
  OBVIOUS
<1>2. /\ N \in Nat /\ Nodes(t) = S /\ Turns(t) = 0 .. N /\ IsFiniteSet(S)
      /\ S \subseteq Nat /\ NULL \notin S
  BY <1>1, FS_CardinalityType DEF Tree, Form, Nodes, Turns, NULL
<1>3. PICK m : /\ m = (CHOOSE f : Descent(f, t, u, N)) /\ y = m[N]
  BY <1>1, <1>2 DEF subtree_minimum, Descent
<1>4. Descent(m, t, u, N)
  BY <1>2, <1>3, DescentExists
<1>5. /\ m[0] = u
      /\ \A k \in 0 .. N : k # 0 =>
           m[k] = IF t.node[m[k - 1]]["left"] = NULL THEN m[k - 1] ELSE t.node[m[k - 1]]["left"]
  <2>1. \A k \in 0 .. N :
          m[k] = IF k = 0 THEN u
                 ELSE IF t.node[m[k - 1]]["left"] = NULL THEN m[k - 1] ELSE t.node[m[k - 1]]["left"]
    BY Zenon, <1>4 DEF Descent
  <2>2. 0 \in 0 .. N
    BY <1>2
  <2> QED BY <2>1, <2>2
<1>6. \A c \in S : /\ D[c] \in SUBSET S /\ c \in D[c] /\ Cardinality(D[c]) \in Nat
                   /\ Cardinality(D[c]) <= N /\ Cardinality(D[c]) > 0
  <2> TAKE c \in S
  <2>1. D[c] \in SUBSET S /\ c \in D[c]
    BY DEF Tree
  <2>2. /\ IsFiniteSet(D[c]) /\ Cardinality(D[c]) <= N /\ Cardinality(D[c]) \in Nat
    BY <1>1, <1>2, <2>1, FS_Subset, FS_CardinalityType
  <2>3. Cardinality(D[c]) # 0
    BY <2>1, <2>2, FS_EmptySet
  <2> QED BY <2>1, <2>2, <2>3
<1> DEFINE At(k) == /\ m[k] \in S /\ m[k] \in D[u]
                    /\ t.node[m[k]]["left"] # NULL => Cardinality(D[m[k]]) + k <= N
                    /\ \A v \in D[u] : v \in D[m[k]] \/ m[k] < v
<1>7. \A k \in 0 .. N : At(k)
  <2> PICK T : T = {k \in 0 .. N : ~ At(k)}
    OBVIOUS
  <2>1. SUFFICES ASSUME T # {} PROVE FALSE
    OBVIOUS
  <2>2. PICK n \in T : \A x \in T : n <= x
    <3>1. T \in SUBSET Nat
      BY <1>2
    <3> QED BY <2>1, <3>1, NatMin
  <2>3. n \in 0 .. N /\ ~ At(n)
    OBVIOUS
  <2>4. n # 0
    <3>1. At(0)
      BY <1>2, <1>5, <1>6
    <3> QED BY <2>3, <3>1
  <2>5. PICK k, c : k = n - 1 /\ c = m[k]
    OBVIOUS
  <2>6. k \in 0 .. N /\ k \in Nat /\ n = k + 1 /\ At(k)
    BY <1>2, <2>2, <2>3, <2>4, <2>5
  <2>7. /\ c \in S /\ c \in D[u]
        /\ t.node[c]["left"] # NULL => Cardinality(D[c]) + k <= N
        /\ \A v \in D[u] : v \in D[c] \/ c < v
    BY <2>5, <2>6
  <2>8. PICK e : e = t.node[c]["left"]
    OBVIOUS
  <2>9. m[n] = IF e = NULL THEN c ELSE e
    BY <1>5, <2>3, <2>4, <2>5, <2>8
  <2>10. CASE e = NULL
    <3>1. At(n)
      BY <2>7, <2>8, <2>9, <2>10
    <3> QED BY <2>3, <3>1
  <2>11. CASE e # NULL
    <3>1. "left" \in Dir
      BY DEF Dir
    <3>2. e \in S /\ e \in D[e] /\ D[e] \subseteq D[c] /\ \A v \in D[e] : Before("left", v, c)
      BY <2>7, <2>8, <2>11, <3>1, Child
    <3>3. e < c /\ e \in Nat /\ c \in Nat
      BY <1>2, <2>7, <3>2 DEF Before
    <3>4. D[c] \subseteq D[u]
      BY <2>7, Nested
    <3>5. ASSUME NEW v \in D[u] PROVE v \in D[e] \/ e < v
      <4>1. v \in Nat
        BY <1>2, <1>6
      <4>2. CASE v \in D[c]
        <5>1. v < c => v \in D[e]
          <6>1. v < c => Before("left", v, c) /\ v # c
            BY <3>3, <4>1 DEF Before
          <6> QED BY <2>7, <2>8, <3>1, <4>2, <6>1, Member
        <5> QED BY <3>3, <4>1, <5>1
      <4>3. CASE v \notin D[c]
        BY <2>7, <3>3, <4>1, <4>3
      <4> QED BY <4>2, <4>3
    <3>6. Cardinality(D[e]) < Cardinality(D[c])
      BY <2>7, <2>8, <2>11, <3>1, Smaller
    <3>7. Cardinality(D[e]) + n <= N
      BY <1>2, <1>6, <2>6, <2>7, <2>8, <2>11, <3>2, <3>6
    <3>8. At(n)
      BY <2>9, <2>11, <3>2, <3>4, <3>5, <3>7
    <3> QED BY <2>3, <3>8
  <2> QED BY <2>10, <2>11
<1>8. At(N)
  BY <1>2, <1>7
<1>9. y \in S /\ y \in D[u] /\ \A v \in D[u] : v \in D[y] \/ y < v
  BY <1>3, <1>8
<1>10. t.node[y]["left"] = NULL
  <2>1. PICK n : n = Cardinality(D[y])
    OBVIOUS
  <2>2. n \in Nat /\ n > 0
    BY <1>6, <1>9, <2>1
  <2>3. t.node[y]["left"] # NULL => n + N <= N
    BY <1>3, <1>8, <2>1
  <2> QED BY <1>2, <2>2, <2>3
<1>11. ASSUME NEW v \in D[u] PROVE y <= v
  <2>1. v \in Nat /\ y \in Nat
    BY <1>2, <1>6, <1>9
  <2>2. ASSUME v \in D[y], v < y PROVE FALSE
    <3>1. Before("left", v, y) /\ v # y /\ "left" \in Dir
      BY <2>1, <2>2 DEF Before, Dir
    <3> QED BY <1>9, <1>10, <2>2, <3>1, Member
  <2> QED BY <1>9, <2>1, <2>2
<1> QED BY <1>9, <1>10, <1>11

\* r is t with v in the place of u, which hung below q.
Replaced(r, t, S, u, v, q) ==
  /\ Form(r, S) /\ r.node_count = t.node_count
  /\ r.root = IF q = NULL THEN v ELSE t.root
  /\ \A w \in S : r.node[w]["parent"] = IF w = v THEN q ELSE t.node[w]["parent"]
  /\ \A w \in S, d \in Dir :
       r.node[w][d] = IF w = q /\ t.node[w][d] = u THEN v ELSE t.node[w][d]

LEMMA ReplaceIs ==
  ASSUME NEW t, NEW S, Form(t, S), NULL \notin S, NEW u, u \in S, NEW v, v \in S \cup {NULL},
         NEW q, q = t.node[u]["parent"],
         q # NULL => \E d \in Dir : t.node[q][d] = u,
         q # NULL => t.node[q]["left"] # t.node[q]["right"]
  PROVE  Replaced(replace(t, u, v), t, S, u, v, q)
<1>1. q \in S \cup {NULL}
  BY DEF Form, Fields
<1>2. PICK h : h = Hook(t, u, v)
  OBVIOUS
<1>3. Hooked(Hook(t, u, v), t, S, u, v, q)
  BY HookIs
<1>4. Hooked(h, t, S, u, v, q)
  BY <1>2, <1>3
<1>5. Form(h, S)
  BY <1>4 DEF Hooked
<1>6. PICK r : r = SetParent(h, v, q)
  OBVIOUS
<1>7. GivenParent(SetParent(h, v, q), h, S, v, q)
  BY <1>1, <1>5, SetParentIs
<1>8. GivenParent(r, h, S, v, q)
  BY <1>6, <1>7
<1>9. replace(t, u, v) = r
  BY <1>2, <1>6 DEF replace
<1>10. Replaced(r, t, S, u, v, q)
  BY <1>4, <1>8 DEF Replaced, Hooked, GivenParent
<1> QED BY <1>9, <1>10

\* r is t with the subtree c on the side s of y.
Adopted(r, t, S, y, s, c) ==
  /\ Form(r, S) /\ r.root = t.root /\ r.node_count = t.node_count
  /\ \A w \in S : r.node[w]["parent"] = IF w = c THEN y ELSE t.node[w]["parent"]
  /\ \A w \in S, d \in Dir : r.node[w][d] = IF w = y /\ d = s THEN c ELSE t.node[w][d]

LEMMA AdoptIs ==
  ASSUME NEW t, NEW S, Form(t, S), NULL \notin S, NEW z, z \in S, NEW y, y \in S,
         NEW s, s \in Dir, NEW c, c = t.node[z][s]
  PROVE  Adopted(Adopt(t, z, y, s), t, S, y, s, c)
<1>1. c \in S \cup {NULL} /\ y \in S \cup {NULL}
  BY Sides DEF Form
<1>2. PICK a : a = [t EXCEPT !.node[y][s] = c]
  OBVIOUS
<1>3. GivenChild(a, t, S, y, s, c)
  BY <1>1, <1>2, SetChildIs
<1>4. Form(a, S)
  BY <1>3 DEF GivenChild
<1>5. PICK r : r = SetParent(a, c, y)
  OBVIOUS
<1>6. GivenParent(SetParent(a, c, y), a, S, c, y)
  BY <1>1, <1>4, SetParentIs
<1>7. GivenParent(r, a, S, c, y)
  BY <1>5, <1>6
<1>8. Adopt(t, z, y, s) = r
  BY <1>2, <1>5 DEF Adopt
<1>9. Adopted(r, t, S, y, s, c)
  BY <1>3, <1>7 DEF Adopted, GivenChild, GivenParent
<1> QED BY <1>8, <1>9

\* r is t without its root z, whose child c is the root of r.
Shortened(r, t, S, c) ==
  /\ Form(r, S) /\ r.root = c /\ r.node_count = t.node_count
  /\ \A u \in S : r.node[u]["parent"] = IF u = c THEN NULL ELSE t.node[u]["parent"]
  /\ \A u \in S, d \in Dir : r.node[u][d] = t.node[u][d]

\* r is t without its root z, for which y, once a child of q and the parent of
\* c, is the root of r, with the children l and w.
Lifted(r, t, S, z, y, l, w, c, q) ==
  /\ Form(r, S) /\ r.root = y /\ r.node_count = t.node_count
  /\ \A u \in S \ {z} : r.node[u]["parent"] =
       IF u = y THEN NULL ELSE IF u = l \/ u = w THEN y ELSE IF u = c THEN q
       ELSE t.node[u]["parent"]
  /\ \A u \in S \ {z}, d \in Dir : r.node[u][d] =
       IF u = y THEN (IF d = "left" THEN l ELSE w)
       ELSE IF u = q /\ t.node[u][d] = y THEN c ELSE t.node[u][d]

\* Who is who when the root has two children.
Family(t, S, D, z, y, l, w, c, q) ==
  /\ z \in S /\ z = t.root /\ l = t.node[z]["left"] /\ w = t.node[z]["right"]
  /\ l \in S /\ w \in S /\ l # w /\ l # z /\ w # z /\ D[l] \cap D[w] = {}
  /\ y \in D[w] /\ y \in S /\ y # z /\ y # l /\ \A v \in D[w] : y <= v
  /\ t.node[y]["left"] = NULL /\ c = t.node[y]["right"] /\ c \in S \cup {NULL}
  /\ q = t.node[y]["parent"] /\ q \in S /\ q # y
  /\ c # NULL => t.node[c]["parent"] = y /\ c # y /\ c # z
  /\ t.node[l]["parent"] = z /\ t.node[w]["parent"] = z
  /\ y = w <=> q = z
  /\ t.node[z]["parent"] = NULL /\ NULL \notin S

LEMMA FamilyIs ==
  ASSUME NEW t, NEW S, NEW D, Tree(t, S, D), NEW z \in S, z = t.root,
         NEW l, l = t.node[z]["left"], l # NULL, NEW w, w = t.node[z]["right"], w # NULL,
         NEW y, y = subtree_minimum(t, w), NEW c, c = t.node[y]["right"],
         NEW q, q = t.node[y]["parent"]
  PROVE  Family(t, S, D, z, y, l, w, c, q)
<1>1. "left" \in Dir /\ "right" \in Dir
  BY DEF Dir
<1>2. /\ l \in S /\ t.node[l]["parent"] = z /\ l # z /\ z \notin D[l] /\ l \in D[l]
      /\ w \in S /\ t.node[w]["parent"] = z /\ w # z /\ z \notin D[w]
  BY <1>1, Child
<1>3. y \in D[w] /\ y \in S /\ t.node[y]["left"] = NULL /\ \A v \in D[w] : y <= v
  BY <1>2, MinimumIs
<1>4. l # w /\ D[l] \cap D[w] = {}
  <2>1. t.node[z]["left"] # t.node[z]["right"]
        /\ D[t.node[z]["left"]] \cap Under(D, t.node[z]["right"]) = {}
    BY SMTT(30), <1>1, SidesApart
  <2> QED BY <2>1 DEF Under
<1>5. y # z /\ y # l
  BY <1>2, <1>3, <1>4
<1>6. NULL \notin S /\ t.node[z]["parent"] = NULL /\ t.node[y]["parent"] # NULL
  BY <1>3, <1>5 DEF Tree, NULL
<1>7. c \in S \cup {NULL} /\ q \in S
  BY <1>3, <1>6, Sides DEF Tree, Form, Fields
<1>8. q # y
  <2>1. PICK d \in Dir : t.node[q][d] = y
    BY ZenonT(60), <1>3, <1>6 DEF Tree
  <2>2. y # NULL
    BY <1>3, <1>6
  <2> QED BY <1>7, <2>1, <2>2, Child
<1>9. c # NULL => t.node[c]["parent"] = y /\ c # y /\ c # z
  BY <1>1, <1>3, Child
<1>10. q = z => y = w
  <2>1. SUFFICES ASSUME q = z PROVE y = w
    OBVIOUS
  <2>2. PICK d \in Dir : t.node[q][d] = y
    BY <1>3, <1>6 DEF Tree
  <2> QED BY <1>5, <2>1, <2>2 DEF Dir
<1> QED BY Zenon, <1>2, <1>3, <1>4, <1>5, <1>6, <1>7, <1>8, <1>9, <1>10 DEF Family

\* What Unlinked does, up to the node that is freed.
LEMMA ShortenedIs ==
  ASSUME NEW t, NEW S, NEW D, Tree(t, S, D), NEW z \in S, z = t.root,
         NEW c, c = IF t.node[z]["left"] = NULL THEN t.node[z]["right"] ELSE t.node[z]["left"],
         t.node[z]["left"] = NULL \/ t.node[z]["right"] = NULL
  PROVE  Shortened(Unlinked(t, z), t, S, c)
<1>1. Form(t, S) /\ NULL \notin S /\ t.node[z]["parent"] = NULL
  BY DEF Tree, NULL
<1>2. c \in S \cup {NULL}
  BY <1>1, Sides DEF Form, Dir
<1>3. Unlinked(t, z) = replace(t, z, c)
  BY DEF Unlinked
<1>4. PICK q : q = NULL
  OBVIOUS
<1>5. Replaced(replace(t, z, c), t, S, z, c, q)
  BY <1>1, <1>2, <1>4, ReplaceIs
<1>6. PICK r : r = replace(t, z, c)
  OBVIOUS
<1>7. Replaced(r, t, S, z, c, q)
  BY <1>5, <1>6
<1>8. Shortened(r, t, S, c)
  BY <1>1, <1>4, <1>7 DEF Replaced, Shortened
<1> QED BY <1>3, <1>6, <1>8

LEMMA LiftedIs ==
  ASSUME NEW t, NEW S, NEW D, Tree(t, S, D), NEW z \in S, z = t.root,
         NEW l, l = t.node[z]["left"], l # NULL, NEW w, w = t.node[z]["right"], w # NULL,
         NEW y, y = subtree_minimum(t, w), NEW c, c = t.node[y]["right"],
         NEW q, q = t.node[y]["parent"]
  PROVE  Lifted(Unlinked(t, z), t, S, z, y, l, IF w = y THEN c ELSE w, c, q)
<1>1. Family(t, S, D, z, y, l, w, c, q)
  BY FamilyIs
<1>2. Form(t, S) /\ NULL \notin S /\ "left" \in Dir /\ "right" \in Dir
      /\ \A d \in Dir : d = "left" \/ d = "right"
  BY DEF Tree, NULL, Dir
<1>3. PICK free : free = IF q = z THEN t ELSE Adopt(replace(t, y, c), z, y, "right")
  OBVIOUS
<1>4. PICK a : a = replace(free, z, y)
  OBVIOUS
<1>5. PICK r : r = Adopt(a, z, y, "left")
  OBVIOUS
<1>6. Unlinked(t, z) = r
  BY Zenon, <1>3, <1>4, <1>5 DEF Unlinked
\* The rest of the work, once y is free.
<1>7. ASSUME Form(free, S), free.node[z]["parent"] = NULL
      PROVE  /\ Form(r, S) /\ r.root = y /\ r.node_count = free.node_count
             /\ \A u \in S : r.node[u]["parent"] =
                  IF u = free.node[z]["left"] THEN y ELSE IF u = y THEN NULL
                  ELSE free.node[u]["parent"]
             /\ \A u \in S, d \in Dir : r.node[u][d] =
                  IF u = y /\ d = "left" THEN free.node[z]["left"] ELSE free.node[u][d]
  <2>1. z \in S /\ y \in S /\ y \in S \cup {NULL}
    BY <1>1 DEF Family
  <2>2. PICK p : p = NULL
    OBVIOUS
  <2>3. Replaced(replace(free, z, y), free, S, z, y, p)
    BY <1>2, <1>7, <2>1, <2>2, ReplaceIs
  <2>4. Replaced(a, free, S, z, y, p)
    BY <1>4, <2>3
  <2>5. PICK s, e : s = "left" /\ e = a.node[z]["left"]
    OBVIOUS
  <2>6. Adopted(Adopt(a, z, y, s), a, S, y, s, e)
    BY <1>2, <2>1, <2>4, <2>5, AdoptIs DEF Replaced
  <2>7. Adopted(r, a, S, y, s, e)
    BY <1>5, <2>5, <2>6
  <2>8. /\ \A u \in S : u # p
        /\ \A u \in S : a.node[u]["parent"] = IF u = y THEN p ELSE free.node[u]["parent"]
        /\ \A u \in S, d \in Dir : a.node[u][d] = free.node[u][d]
    BY <1>2, <2>2, <2>4 DEF Replaced
  <2>9. e = free.node[z]["left"]
    BY <1>2, <2>1, <2>5, <2>8
  <2>10. Form(r, S) /\ r.root = y /\ r.node_count = free.node_count
    BY SMTT(30), <2>2, <2>4, <2>7 DEF Replaced, Adopted
  <2> QED BY SMTT(30), <2>2, <2>5, <2>7, <2>8, <2>9, <2>10 DEF Adopted
<1>8. CASE q = z
  <2>1. free = t /\ w = y
    BY <1>1, <1>3, <1>8 DEF Family
  <2>2. Form(free, S) /\ free.node[z]["parent"] = NULL /\ free.node[z]["left"] = l
    BY Zenon, <1>1, <1>2, <2>1 DEF Family
  <2>3. /\ Form(r, S) /\ r.root = y /\ r.node_count = t.node_count
        /\ \A u \in S : r.node[u]["parent"] =
             IF u = l THEN y ELSE IF u = y THEN NULL ELSE t.node[u]["parent"]
        /\ \A u \in S, d \in Dir : r.node[u][d] =
             IF u = y /\ d = "left" THEN l ELSE t.node[u][d]
    BY <1>7, <2>1, <2>2
  <2>4. /\ l # y /\ t.node[y]["right"] = c
        /\ \A u \in S : u = c => t.node[u]["parent"] = y
    BY Zenon, <1>1, <1>2 DEF Family
  <2>5. ASSUME NEW u \in S \ {z}
        PROVE  r.node[u]["parent"] =
                 IF u = y THEN NULL ELSE IF u = l \/ u = c THEN y ELSE IF u = c THEN q
                 ELSE t.node[u]["parent"]
    BY <2>3, <2>4
  <2>6. ASSUME NEW u \in S \ {z}, NEW d \in Dir
        PROVE  r.node[u][d] = IF u = y THEN (IF d = "left" THEN l ELSE c)
                              ELSE IF u = q /\ t.node[u][d] = y THEN c ELSE t.node[u][d]
    <3>1. d = "left" \/ d = "right"
      BY <1>2
    <3>2. r.node[u][d] = IF u = y /\ d = "left" THEN l ELSE t.node[u][d]
      BY SMTT(30), <2>3
    <3> QED BY <1>8, <2>4, <3>1, <3>2
  <2>7. Lifted(r, t, S, z, y, l, c, c, q)
    BY SMTT(30), <2>3, <2>5, <2>6 DEF Lifted
  <2> QED BY ZenonT(60), <1>6, <2>1, <2>7
<1>9. CASE q # z
  <2>1. w # y
    BY Zenon, <1>1, <1>9 DEF Family
  <2>2. PICK b : b = replace(t, y, c)
    OBVIOUS
  <2>3. /\ y \in S /\ c \in S \cup {NULL} /\ q # NULL /\ q \in S /\ z \in S
        /\ \E d \in Dir : t.node[q][d] = y
        /\ t.node[q]["left"] # t.node[q]["right"]
    <3>1. y \in S /\ c \in S \cup {NULL} /\ q \in S /\ q # NULL /\ z \in S /\ y # NULL
      BY Zenon, <1>1 DEF Family
    <3>2. PICK d \in Dir : t.node[q][d] = y
      BY <3>1 DEF Tree
    <3>3. PICK e \in Dir : e # d
      BY SMTT(30), <1>2
    <3>4. t.node[q][d] # t.node[q][e]
      BY <3>1, <3>2, <3>3, SidesApart
    <3> QED BY ZenonT(60), <3>1, <3>2, <3>3, <3>4 DEF Dir
  <2>4. Replaced(replace(t, y, c), t, S, y, c, q)
    BY ZenonT(60), <1>2, <2>3, ReplaceIs
  <2>5. Replaced(b, t, S, y, c, q)
    BY Zenon, <2>2, <2>4
  <2>6. PICK s, e : s = "right" /\ e = b.node[z]["right"]
    OBVIOUS
  <2>7. Adopted(Adopt(b, z, y, s), b, S, y, s, e)
    BY Zenon, <1>2, <2>3, <2>5, <2>6, AdoptIs DEF Replaced
  <2>8. Adopted(free, b, S, y, s, e)
    BY Zenon, <1>3, <1>9, <2>2, <2>6, <2>7
  <2>9. e = w
    BY ZenonT(60), <1>1, <1>2, <1>9, <2>3, <2>5, <2>6 DEF Replaced, Family
  <2>10. /\ Form(free, S) /\ free.node_count = t.node_count
         /\ \A u \in S : free.node[u]["parent"] =
              IF u = w THEN y ELSE IF u = c THEN q ELSE t.node[u]["parent"]
         /\ \A u \in S, d \in Dir : free.node[u][d] =
              IF u = y /\ d = "right" THEN w
              ELSE IF u = q /\ t.node[u][d] = y THEN c ELSE t.node[u][d]
    <3>1. /\ b.node_count = t.node_count
          /\ \A u \in S : b.node[u]["parent"] = IF u = c THEN q ELSE t.node[u]["parent"]
          /\ \A u \in S, d \in Dir :
               b.node[u][d] = IF u = q /\ t.node[u][d] = y THEN c ELSE t.node[u][d]
      BY Zenon, <2>5 DEF Replaced
    <3>2. /\ Form(free, S) /\ free.node_count = b.node_count
          /\ \A u \in S : free.node[u]["parent"] = IF u = w THEN y ELSE b.node[u]["parent"]
          /\ \A u \in S, d \in Dir :
               free.node[u][d] = IF u = y /\ d = "right" THEN w ELSE b.node[u][d]
      BY <2>6, <2>8, <2>9 DEF Adopted
    <3> QED BY <3>1, <3>2
  <2>11. free.node[z]["parent"] = NULL /\ free.node[z]["left"] = l
    <3>1. z # w /\ z # c /\ z # y /\ z # q /\ t.node[z]["parent"] = NULL
      BY Zenon, <1>1, <1>2, <1>9, <2>3 DEF Family
    <3> QED BY ZenonT(60), <1>2, <2>3, <2>10, <3>1
  <2>12. /\ Form(r, S) /\ r.root = y /\ r.node_count = t.node_count
         /\ \A u \in S : r.node[u]["parent"] =
              IF u = l THEN y ELSE IF u = y THEN NULL ELSE free.node[u]["parent"]
         /\ \A u \in S, d \in Dir : r.node[u][d] =
              IF u = y /\ d = "left" THEN l ELSE free.node[u][d]
    BY <1>7, <2>10, <2>11
  <2>13. q # y /\ l # y
    BY ZenonT(60), <1>1 DEF Family
  <2>14. \A u \in S : r.node[u]["parent"] =
           IF u = y THEN NULL ELSE IF u = l \/ u = w THEN y ELSE IF u = c THEN q
           ELSE t.node[u]["parent"]
    BY SMTT(30), <2>10, <2>12, <2>13
  <2>15. t.node[y]["left"] = NULL
    BY <1>1 DEF Family
  <2>16. ASSUME NEW u \in S, NEW d \in Dir
         PROVE r.node[u][d] = IF u = y THEN (IF d = "left" THEN l ELSE w)
                              ELSE IF u = q /\ t.node[u][d] = y THEN c ELSE t.node[u][d]
    <3>1. d = "left" \/ d = "right"
      BY SMTT(30), <1>2
    <3> QED BY <2>10, <2>12, <3>1
  <2>17. Lifted(r, t, S, z, y, l, w, c, q)
    BY <2>12, <2>14, <2>16 DEF Lifted
  <2> QED BY SMTT(30), <1>6, <2>1, <2>17
<1> QED BY <1>8, <1>9

Without(r, z) == [r EXCEPT !.node_count = @ - 1, !.node = Restrict(@, DOMAIN @ \ {z})]

\* g is r once z is freed.
Pruned(g, r, S, z) ==
  /\ Form(g, S \ {z}) /\ g.root = r.root /\ g.node_count = r.node_count - 1
  /\ \A u \in S \ {z} : g.node[u] = r.node[u]

LEMMA PrunedIs ==
  ASSUME NEW r, NEW S, Form(r, S), NEW z \in S, NULL \notin S, r.root # z,
         \A u \in S \ {z} : r.node[u]["parent"] # z,
         \A u \in S \ {z}, d \in Dir : r.node[u][d] # z,
         NEW g, g = Without(r, z)
  PROVE  Pruned(g, r, S, z)
<1>1. PICK R, m : R = S \ {z} /\ m = [u \in R |-> r.node[u]]
  OBVIOUS
<1>2. DOMAIN r.node = S
  BY DEF Form
<1>3. Restrict(r.node, DOMAIN r.node \ {z}) = m
  BY <1>1, <1>2 DEF Restrict
<1>4. g = [root |-> r.root, node_count |-> r.node_count - 1, node |-> m]
  BY <1>3 DEF Form, Without
<1>5. m \in [R -> [Fields -> R \cup {NULL}]]
  <2>1. ASSUME NEW u \in R PROVE m[u] \in [Fields -> R \cup {NULL}]
    <3>1. m[u] \in [Fields -> S \cup {NULL}]
      BY <1>1 DEF Form
    <3>2. \A f \in Fields : m[u][f] # z
      BY <1>1 DEF Fields, Dir
    <3>3. PICK k : k = m[u]
      OBVIOUS
    <3>4. k \in [Fields -> S \cup {NULL}] /\ \A f \in Fields : k[f] # z
      BY <3>1, <3>2, <3>3
    <3>5. k \in [Fields -> R \cup {NULL}]
      BY <1>1, <3>4
    <3> QED BY <3>3, <3>5
  <2> QED BY <1>1, <2>1
<1>6. r.root \in R \cup {NULL}
  BY <1>1 DEF Form
<1>7. Form(g, R)
  BY <1>4, <1>5, <1>6 DEF Form
<1> QED BY <1>1, <1>4, <1>7 DEF Pruned

\* r is t without the key.
Shrank(r, t, S, key) ==
  r.node_count = t.node_count - 1 /\ \E E : Tree(r, S \ {key}, E)

LEMMA ShortenedTree ==
  ASSUME NEW t, NEW S, NEW D, Tree(t, S, D), NEW z \in S, z = t.root,
         NEW c, c = IF t.node[z]["left"] = NULL THEN t.node[z]["right"] ELSE t.node[z]["left"],
         t.node[z]["left"] = NULL \/ t.node[z]["right"] = NULL,
         NEW r, Shortened(r, t, S, c),
         NEW g, g = Without(r, z)
  PROVE  Shrank(g, t, S, z)
<1>1. PICK R : R = S \ {z}
  OBVIOUS
<1>2. /\ S \in SUBSET (Nat \ {0}) /\ IsFiniteSet(S) /\ D \in [S -> SUBSET S] /\ NULL \notin S
      /\ \A u \in S, d \in Dir : t.node[u][d] \in S \cup {NULL}
      /\ \A u \in S : t.node[u]["parent"] \in S \cup {NULL}
      /\ D[z] = S /\ \A u \in R : z \notin D[u]
      /\ \A u \in S, d \in Dir : t.node[u][d] # z
  <2>1. /\ S \in SUBSET (Nat \ {0}) /\ IsFiniteSet(S) /\ D \in [S -> SUBSET S] /\ NULL \notin S
    BY DEF Tree, NULL
  <2>2. \A u \in S, d \in Dir : t.node[u][d] \in S \cup {NULL}
    BY Sides DEF Tree, Form
  <2>3. \A u \in S : t.node[u]["parent"] \in S \cup {NULL}
    BY DEF Tree, Form, Fields
  <2>4. D[z] = S
    BY <2>1 DEF Tree
  <2>5. \A u \in R : z \notin D[u]
    BY <1>1, RootAlone
  <2>6. ASSUME NEW u \in S, NEW d \in Dir, t.node[u][d] = z PROVE FALSE
    BY <2>1, <2>6, Child
  <2> QED BY <2>1, <2>2, <2>3, <2>4, <2>5, <2>6
<1>3. /\ Form(r, S) /\ r.root = c /\ r.node_count = t.node_count
      /\ \A u \in S : r.node[u]["parent"] = IF u = c THEN NULL ELSE t.node[u]["parent"]
      /\ \A u \in S, d \in Dir : r.node[u][d] = t.node[u][d]
  BY DEF Shortened
<1>4. PICK s \in Dir : c = t.node[z][s] /\ \A d \in Dir : d # s => t.node[z][d] = NULL
  BY DEF Dir
<1>5. c # z /\ c \in S \cup {NULL}
  BY <1>2, <1>4
<1>6. \A u \in R : t.node[u]["parent"] = z => u = c
  <2> SUFFICES ASSUME NEW u \in R, t.node[u]["parent"] = z PROVE u = c
    OBVIOUS
  <2>1. PICK p : p = t.node[u]["parent"]
    OBVIOUS
  <2>2. u \in S /\ p = z /\ z # NULL /\ u # NULL
    BY <1>1, <1>2, <2>1
  <2>3. PICK d \in Dir : t.node[p][d] = u
    BY <2>1, <2>2 DEF Tree
  <2> QED BY <1>4, <2>2, <2>3
<1>7. Pruned(g, r, S, z)
  <2>1. r.root # z
    BY <1>3, <1>5
  <2>2. \A u \in S \ {z} : r.node[u]["parent"] # z
    BY <1>1, <1>2, <1>3, <1>6
  <2>3. \A u \in S \ {z}, d \in Dir : r.node[u][d] # z
    BY <1>2, <1>3
  <2> QED BY <1>2, <1>3, <2>1, <2>2, <2>3, PrunedIs
<1>8. /\ Form(g, R) /\ g.root = c /\ g.node_count = t.node_count - 1
      /\ \A u \in R : g.node[u]["parent"] = IF u = c THEN NULL ELSE t.node[u]["parent"]
      /\ \A u \in R, d \in Dir : g.node[u][d] = t.node[u][d]
  BY <1>1, <1>3, <1>7 DEF Pruned
<1>9. PICK E : E = [u \in R |-> D[u]]
  OBVIOUS
<1>10. R \in SUBSET (Nat \ {0}) /\ IsFiniteSet(R) /\ E \in [R -> SUBSET R]
  <2>1. IsFiniteSet(R)
    BY SMTT(30), <1>1, <1>2, FS_Subset
  <2> QED BY <1>1, <1>2, <1>9, <2>1
<1>11. R = Under(D, c)
  <2>1. D[z] = {z} \cup Under(D, t.node[z]["left"]) \cup Under(D, t.node[z]["right"])
    BY DEF Tree
  <2>2. Under(D, NULL) = {}
    BY DEF Under
  <2>3. D[z] = {z} \cup Under(D, c)
    BY <1>4, <2>1, <2>2 DEF Dir
  <2>4. z \notin Under(D, c)
    BY <1>1, <1>2, <1>5 DEF Under
  <2>5. PICK U : U = Under(D, c)
    OBVIOUS
  <2>6. S = {z} \cup U /\ z \notin U /\ R = S \ {z}
    BY Zenon, <1>1, <1>2, <2>3, <2>4, <2>5
  <2> QED BY <2>5, <2>6
<1>12. (g.root = NULL => R = {}) /\ (g.root # NULL => E[g.root] = R)
  <2>1. c = NULL => R = {}
    BY <1>11 DEF Under
  <2>2. c # NULL => c \in R /\ D[c] = R
    BY <1>1, <1>5, <1>11 DEF Under
  <2> QED BY <1>8, <1>9, <2>1, <2>2
<1>13. ASSUME NEW u \in R PROVE g.node[u]["parent"] = NULL <=> u = g.root
  <2>1. u # z /\ u \in S
    BY <1>1
  <2>2. t.node[u]["parent"] # NULL
    BY <2>1 DEF Tree
  <2> QED BY <1>8, <2>2
<1>14. ASSUME NEW u \in R, g.node[u]["parent"] # NULL
       PROVE  \E d \in Dir : g.node[g.node[u]["parent"]][d] = u
  <2>1. PICK p : p = t.node[u]["parent"]
    OBVIOUS
  <2>2. u # c /\ g.node[u]["parent"] = p /\ p # NULL /\ u \in S
    BY <1>1, <1>8, <1>14, <2>1
  <2>3. PICK d \in Dir : t.node[p][d] = u
    BY <2>1, <2>2 DEF Tree
  <2>4. p \in R
    BY <1>1, <1>2, <1>6, <2>1, <2>2
  <2> QED BY <1>8, <2>2, <2>3, <2>4
<1>15. ASSUME NEW u \in R, NEW d \in Dir, g.node[u][d] # NULL
       PROVE  g.node[g.node[u][d]]["parent"] = u
  <2>1. PICK e : e = t.node[u][d]
    OBVIOUS
  <2>2. u \in S /\ u # z /\ g.node[u][d] = e /\ e # NULL
    BY <1>1, <1>8, <1>15, <2>1
  <2>3. e \in S /\ t.node[e]["parent"] = u /\ e # z
    BY <1>2, <2>1, <2>2, Child
  <2>4. e # c
    <3>1. c # NULL => t.node[c]["parent"] = z
      BY <1>4, Child
    <3> QED BY <2>2, <2>3, <3>1
  <2> QED BY <1>1, <1>8, <2>2, <2>3, <2>4
<1>16. ASSUME NEW u \in R, NEW d \in Dir
       PROVE  Under(E, g.node[u][d]) = Under(D, t.node[u][d])
  <2>1. PICK e : e = t.node[u][d]
    OBVIOUS
  <2>2. e \in R \cup {NULL} /\ g.node[u][d] = e
    BY <1>1, <1>2, <1>8, <2>1
  <2>3. Under(E, e) = Under(D, e)
    BY <1>9, <2>2 DEF Under
  <2> QED BY <2>1, <2>2, <2>3
<1>17. ASSUME NEW u \in R
       PROVE  E[u] = {u} \cup Under(E, g.node[u]["left"]) \cup Under(E, g.node[u]["right"])
  <2>1. u \in S /\ "left" \in Dir /\ "right" \in Dir
    BY <1>1 DEF Dir
  <2>2. D[u] = {u} \cup Under(D, t.node[u]["left"]) \cup Under(D, t.node[u]["right"])
    BY <2>1 DEF Tree
  <2> QED BY <1>9, <1>16, <2>1, <2>2
<1>18. ASSUME NEW u \in R, NEW d \in Dir, NEW v \in Under(E, g.node[u][d])
       PROVE  Before(d, v, u)
  <2>1. u \in S /\ v \in Under(D, t.node[u][d])
    BY <1>1, <1>16, <1>18
  <2> QED BY <2>1 DEF Tree
<1>19. Tree(g, R, E)
  BY Zenon, <1>8, <1>10, <1>12, <1>13, <1>14, <1>15, <1>17, <1>18 DEF Tree
<1> QED BY <1>1, <1>8, <1>19 DEF Shrank

LEMMA LiftedTree ==
  ASSUME NEW t, NEW S, NEW D, Tree(t, S, D), NEW z, NEW y, NEW l, NEW w, NEW c, NEW q,
         Family(t, S, D, z, y, l, w, c, q), NEW h, w = y => h = c, w # y => h = w,
         NEW r, Lifted(r, t, S, z, y, l, h, c, q),
         NEW g, g = Without(r, z)
  PROVE  Shrank(g, t, S, z)
<1>1. PICK R : R = S \ {z}
  OBVIOUS
<1>2. /\ S \in SUBSET (Nat \ {0}) /\ IsFiniteSet(S) /\ D \in [S -> SUBSET S] /\ NULL \notin S
      /\ \A u \in S, d \in Dir : t.node[u][d] \in S \cup {NULL}
      /\ \A u \in S : t.node[u]["parent"] \in S \cup {NULL}
      /\ z \in S /\ D[z] = S /\ \A u \in R : z \notin D[u]
      /\ \A u \in S, d \in Dir : t.node[u][d] # z
  <2>1. /\ S \in SUBSET (Nat \ {0}) /\ IsFiniteSet(S) /\ D \in [S -> SUBSET S] /\ NULL \notin S
    BY DEF Tree, NULL
  <2>2. \A u \in S, d \in Dir : t.node[u][d] \in S \cup {NULL}
    BY Sides DEF Tree, Form
  <2>3. \A u \in S : t.node[u]["parent"] \in S \cup {NULL}
    BY DEF Tree, Form, Fields
  <2>4. z \in S /\ z = t.root
    BY DEF Family
  <2>5. D[z] = S
    BY <2>1, <2>4 DEF Tree
  <2>6. \A u \in R : z \notin D[u]
    BY <1>1, <2>4, RootAlone
  <2>7. ASSUME NEW u \in S, NEW d \in Dir, t.node[u][d] = z PROVE FALSE
    BY SMTT(30), <2>1, <2>4, <2>7, Child
  <2> QED BY <2>1, <2>2, <2>3, <2>4, <2>5, <2>6, <2>7
<1>3. /\ l = t.node[z]["left"] /\ w = t.node[z]["right"]
      /\ l \in R /\ w \in R /\ l # w /\ D[l] \cap D[w] = {}
      /\ y \in D[w] /\ y \in R /\ y # l /\ \A v \in D[w] : y <= v
      /\ t.node[y]["left"] = NULL /\ c = t.node[y]["right"] /\ c \in R \cup {NULL}
      /\ q = t.node[y]["parent"] /\ q \in S /\ q # y
      /\ c # NULL => t.node[c]["parent"] = y /\ c # y
      /\ t.node[l]["parent"] = z /\ t.node[w]["parent"] = z
      /\ y = w <=> q = z
  BY <1>1, <1>2 DEF Family
<1>4. /\ Form(r, S) /\ r.root = y /\ r.node_count = t.node_count
      /\ \A u \in R : r.node[u]["parent"] =
           IF u = y THEN NULL ELSE IF u = l \/ u = h THEN y ELSE IF u = c THEN q
           ELSE t.node[u]["parent"]
      /\ \A u \in R, d \in Dir : r.node[u][d] =
           IF u = y THEN (IF d = "left" THEN l ELSE h)
           ELSE IF u = q /\ t.node[u][d] = y THEN c ELSE t.node[u][d]
  BY <1>1 DEF Lifted
<1>5. "left" \in Dir /\ "right" \in Dir /\ \A d \in Dir : d = "left" \/ d = "right"
  BY DEF Dir
<1>6. h \in R \cup {NULL} /\ h # y /\ (c # NULL /\ c # h => q \in R)
  <2>1. h \in R \cup {NULL} /\ h # y
    <3>1. y # NULL /\ c # y
      BY <1>1, <1>2, <1>3
    <3> QED BY <1>3, <3>1
  <2>2. c # NULL /\ c # h => q # z
    BY <1>3
  <2> QED BY <1>1, <1>3, <2>1, <2>2
\* A node other than l and h that has a parent has the one it had.
<1>7. ASSUME NEW u \in R, u # y, u # l, u # h, u # c
      PROVE  t.node[u]["parent"] \in R /\ t.node[u]["parent"] # y
  <2>1. PICK p : p = t.node[u]["parent"]
    OBVIOUS
  <2>2. p \in S /\ u \in S
    <3>1. u \in S /\ u # t.root
      BY <1>1 DEF Family
    <3>2. p # NULL
      BY <2>1, <3>1 DEF Tree
    <3> QED BY <1>2, <2>1, <3>1, <3>2
  <2>3. PICK d \in Dir : t.node[p][d] = u
    BY <1>2, <2>1, <2>2 DEF Tree
  <2>4. p # z
    <3>1. p = z => u = l \/ u = w
      BY <1>3, <1>5, <2>3
    <3> QED BY <1>7, <3>1
  <2>5. p # y
    <3>1. p = y => u = NULL \/ u = c
      BY <1>3, <1>5, <2>3
    <3> QED BY <1>2, <1>7, <2>2, <3>1
  <2> QED BY <1>1, <2>1, <2>2, <2>4, <2>5
<1>8. Pruned(g, r, S, z)
  <2>1. r.root # z
    BY <1>1, <1>3, <1>4
  <2>2. ASSUME NEW u \in R PROVE r.node[u]["parent"] # z
    <3>1. z # NULL /\ z # y /\ (u = c /\ u # h => q # z)
      BY <1>1, <1>2, <1>3, <1>6
    <3> QED BY <1>1, <1>4, <1>7, <3>1
  <2>3. ASSUME NEW u \in R, NEW d \in Dir PROVE r.node[u][d] # z
    BY <1>1, <1>2, <1>3, <1>4, <1>6
  <2> QED BY <1>1, <1>2, <1>4, <2>1, <2>2, <2>3, PrunedIs
<1>9. /\ Form(g, R) /\ g.root = y /\ g.node_count = t.node_count - 1
      /\ \A u \in R : g.node[u]["parent"] =
           IF u = y THEN NULL ELSE IF u = l \/ u = h THEN y ELSE IF u = c THEN q
           ELSE t.node[u]["parent"]
      /\ \A u \in R, d \in Dir : g.node[u][d] =
           IF u = y THEN (IF d = "left" THEN l ELSE h)
           ELSE IF u = q /\ t.node[u][d] = y THEN c ELSE t.node[u][d]
  BY <1>1, <1>4, <1>8 DEF Pruned
<1>10. PICK E : E = [u \in R |-> IF u = y THEN R ELSE D[u] \ {y}]
  OBVIOUS
<1>11. R \in SUBSET (Nat \ {0}) /\ IsFiniteSet(R) /\ E \in [R -> SUBSET R]
  <2>1. IsFiniteSet(R)
    BY <1>1, <1>2, FS_Subset
  <2> QED BY <1>1, <1>2, <1>10, <2>1
<1>12. g.root # NULL /\ E[g.root] = R
  BY <1>2, <1>1, <1>3, <1>9, <1>10
<1>13. ASSUME NEW u \in R PROVE g.node[u]["parent"] = NULL <=> u = g.root
  <2>1. y # NULL /\ q # NULL
    BY <1>1, <1>2, <1>3
  <2>2. u # y /\ u # l /\ u # h /\ u # c => t.node[u]["parent"] # NULL
    BY <1>1, <1>2, <1>7
  <2> QED BY <1>9, <2>1, <2>2
<1>14. ASSUME NEW u \in R, g.node[u]["parent"] # NULL
       PROVE  \E d \in Dir : g.node[g.node[u]["parent"]][d] = u
  <2>1. u # y
    BY <1>9, <1>14
  <2>2. CASE u = l \/ u = h
    <3>1. g.node[u]["parent"] = y
      BY <1>9, <2>1, <2>2
    <3>2. g.node[y]["left"] = l /\ g.node[y]["right"] = h
      BY <1>3, <1>5, <1>9
    <3> QED BY <1>5, <2>2, <3>1, <3>2
  <2>3. CASE u # l /\ u # h /\ u = c
    <3>1. g.node[u]["parent"] = q /\ q \in R /\ q # y
      BY <1>1, <1>2, <1>3, <1>6, <1>9, <2>1, <2>3
    <3>2. PICK d \in Dir : t.node[q][d] = y
      <4>1. y \in S /\ q # NULL
        BY <1>1, <1>2, <1>3
      <4> QED BY <1>3, <4>1 DEF Tree
    <3>3. g.node[q][d] = c
      BY <1>9, <3>1, <3>2
    <3> QED BY <2>3, <3>1, <3>3
  <2>4. CASE u # l /\ u # h /\ u # c
    <3>1. PICK p : p = t.node[u]["parent"]
      OBVIOUS
    <3>2. g.node[u]["parent"] = p /\ p \in R /\ p # y
      BY <1>7, <1>9, <2>1, <2>4, <3>1
    <3>3. PICK d \in Dir : t.node[p][d] = u
      <4>1. u \in S /\ p # NULL
        BY <1>1, <1>2, <3>2
      <4> QED BY <3>1, <4>1 DEF Tree
    <3>4. g.node[p][d] = u
      BY <1>9, <2>1, <3>2, <3>3
    <3> QED BY <3>2, <3>4
  <2> QED BY <2>2, <2>3, <2>4
<1>15. ASSUME NEW u \in R, NEW d \in Dir, g.node[u][d] # NULL
       PROVE  g.node[g.node[u][d]]["parent"] = u
  <2>1. CASE u = y
    <3>1. g.node[u][d] = l \/ g.node[u][d] = h
      BY <1>9, <2>1
    <3>2. g.node[u][d] \in R /\ g.node[u][d] # y
      BY <1>3, <1>6, <1>15, <3>1
    <3> QED BY <1>9, <2>1, <3>1, <3>2
  <2>2. CASE u # y /\ u = q /\ t.node[u][d] = y
    <3>1. g.node[u][d] = c /\ c \in R /\ c # y
      BY <1>3, <1>9, <1>15, <2>2
    <3>2. c # l /\ h = w /\ c # w
      BY <1>1, <1>2, <1>3, <2>2, <3>1
    <3>3. g.node[c]["parent"] = q
      BY <1>9, <3>1, <3>2
    <3> QED BY <2>2, <3>1, <3>3
  <2>3. CASE u # y /\ ~ (u = q /\ t.node[u][d] = y)
    <3>1. PICK e : e = t.node[u][d]
      OBVIOUS
    <3>2. g.node[u][d] = e /\ e # NULL /\ u \in S /\ u # z
      BY <1>1, <1>9, <1>15, <2>3, <3>1
    <3>3. e \in S /\ t.node[e]["parent"] = u /\ e # z
      BY <1>2, <3>1, <3>2, Child
    <3>4. e # y /\ e # l /\ e # w /\ e # c
      BY <1>3, <2>3, <3>1, <3>2, <3>3
    <3>5. e \in R /\ e # h
      BY <1>1, <3>3, <3>4
    <3> QED BY <1>9, <3>2, <3>3, <3>4, <3>5
  <2> QED BY <2>1, <2>2, <2>3
\* The subtrees.
<1>16. /\ Under(D, NULL) = {} /\ Under(E, NULL) = {}
       /\ \A e \in R : e # y => Under(E, e) = D[e] \ {y}
       /\ \A e \in R : Under(D, e) = D[e]
  BY <1>1, <1>2, <1>10 DEF Under
<1>17. D[y] = {y} \cup Under(D, c) /\ y \notin Under(D, c)
  <2>1. y \in S
    BY <1>1, <1>3
  <2>2. D[y] = {y} \cup Under(D, t.node[y]["left"]) \cup Under(D, t.node[y]["right"])
    BY <2>1 DEF Tree
  <2>3. c # NULL => y \notin D[c]
    BY <1>3, <1>5, <2>1, Child
  <2> QED BY <1>3, <1>16, <2>2, <2>3 DEF Under
<1>18. Under(E, c) = Under(D, c)
  <2>1. CASE c = NULL
    BY <1>16, <2>1
  <2>2. CASE c # NULL
    <3>1. c \in R /\ c # y
      BY <1>3, <2>2
    <3>2. Under(E, c) = D[c] \ {y} /\ Under(D, c) = D[c]
      BY <1>16, <3>1
    <3> QED BY <1>17, <3>2
  <2> QED BY <2>1, <2>2
<1>19. ASSUME NEW u \in R, u # y, NEW d \in Dir
       PROVE  Under(E, g.node[u][d]) = Under(D, t.node[u][d]) \ {y}
  <2>1. PICK e : e = t.node[u][d]
    OBVIOUS
  <2>2. e \in R \cup {NULL} /\ u \in S
    BY <1>1, <1>2, <2>1
  <2>3. CASE e = y
    <3>1. u = q
      <4>1. y # NULL /\ t.node[u][d] = y
        BY <1>1, <1>2, <1>3, <2>1, <2>3
      <4>2. t.node[y]["parent"] = u
        BY <2>2, <4>1 DEF Tree
      <4> QED BY <1>3, <4>2
    <3>2. g.node[u][d] = c
      BY <1>9, <1>19, <2>1, <2>3, <3>1
    <3>3. Under(D, e) = D[y]
      BY <1>3, <1>16, <2>3
    <3> QED BY <1>17, <1>18, <2>1, <3>2, <3>3
  <2>4. CASE e # y
    <3>1. g.node[u][d] = e
      BY SMTT(30), <1>9, <1>19, <2>1, <2>4
    <3> QED BY <1>16, <2>1, <2>2, <2>4, <3>1
  <2> QED BY <2>3, <2>4
<1>20. D[z] = {z} \cup D[l] \cup D[w] /\ z \notin D[l] /\ z \notin D[w]
  <2>1. D[z] = {z} \cup Under(D, t.node[z]["left"]) \cup Under(D, t.node[z]["right"])
    BY <1>2 DEF Tree
  <2> QED BY <1>2, <1>3, <1>16, <2>1
<1>21. Under(E, l) = D[l] /\ Under(E, h) = D[w] \ {y}
  <2>1. Under(E, l) = D[l]
    <3>1. Under(E, l) = D[l] \ {y} /\ y \notin D[l]
      BY <1>3, <1>16
    <3> QED BY <3>1
  <2>2. CASE w = y
    <3>1. h = c /\ D[w] = {y} \cup Under(D, c)
      BY <1>17, <2>2
    <3> QED BY <1>17, <1>18, <2>1, <3>1
  <2>3. CASE w # y
    <3>1. h = w /\ w \in R
      BY <1>3, <2>3
    <3> QED BY <1>16, <2>1, <2>3, <3>1
  <2> QED BY <2>1, <2>2, <2>3
<1>22. ASSUME NEW u \in R
       PROVE  E[u] = {u} \cup Under(E, g.node[u]["left"]) \cup Under(E, g.node[u]["right"])
  <2>1. CASE u = y
    <3>1. g.node[u]["left"] = l /\ g.node[u]["right"] = h /\ E[u] = R
      BY <1>5, <1>9, <1>10, <2>1
    <3>2. R = D[l] \cup D[w]
      BY <1>1, <1>2, <1>20
    <3> QED BY <1>3, <1>21, <2>1, <3>1, <3>2
  <2>2. CASE u # y
    <3>1. u \in S
      BY <1>1
    <3>2. D[u] = {u} \cup Under(D, t.node[u]["left"]) \cup Under(D, t.node[u]["right"])
      BY <3>1 DEF Tree
    <3>3. E[u] = D[u] \ {y}
      BY <1>10, <2>2
    <3> QED BY <1>5, <1>19, <2>2, <3>2, <3>3
  <2> QED BY SMTT(30), <2>1, <2>2
<1>23. ASSUME NEW u \in R, NEW d \in Dir, NEW v \in Under(E, g.node[u][d])
       PROVE  Before(d, v, u)
  <2>0. \A x \in S, e \in Dir : \A b \in Under(D, t.node[x][e]) : Before(e, b, x)
    BY DEF Tree
  <2>1. CASE u = y /\ d = "left"
    <3>1. v \in D[l] /\ v \in S /\ y \in S
      BY <1>1, <1>2, <1>3, <1>5, <1>9, <1>21, <1>23, <2>1
    <3>2. Before("left", v, z)
      <4>1. v \in Under(D, t.node[z]["left"])
        BY <1>3, <1>16, <3>1
      <4> QED BY <1>2, <1>5, <2>0, <4>1
    <3>3. Before("right", y, z)
      <4>1. y \in Under(D, t.node[z]["right"])
        BY <1>3, <1>16
      <4> QED BY <1>2, <1>5, <2>0, <4>1
    <3>4. v \in Nat /\ y \in Nat /\ z \in Nat
      BY <1>2, <3>1
    <3> QED BY <2>1, <3>2, <3>3, <3>4 DEF Before
  <2>2. CASE u = y /\ d = "right"
    <3>1. v \in D[w] /\ v # y
      BY <1>5, <1>9, <1>21, <1>23, <2>2
    <3>2. v \in Nat /\ y \in Nat /\ y <= v
      BY <1>1, <1>2, <1>3, <3>1
    <3> QED BY <2>2, <3>1, <3>2 DEF Before
  <2>3. CASE u # y
    <3>1. v \in Under(D, t.node[u][d]) /\ u \in S
      BY <1>1, <1>19, <1>23, <2>3
    <3> QED BY <2>0, <3>1
  <2> QED BY <1>5, <2>1, <2>2, <2>3
<1>24. Tree(g, R, E)
  BY <1>9, <1>11, <1>12, <1>13, <1>14, <1>15, <1>22, <1>23 DEF Tree
<1> QED BY <1>1, <1>9, <1>24 DEF Shrank

LEMMA RemoveIs ==
  ASSUME NEW t, NEW S, NEW D, Tree(t, S, D), NEW key \in S
  PROVE  Shrank(tree_remove(t, key), t, S, key)
<1>1. key \in Nat
  BY DEF Tree
<1>2. key \in Path(t, key)
  BY <1>1, PathFinds
<1>3. PICK s : s = splay(t, key)
  OBVIOUS
<1>4. Splayed(splay(t, key), t, S, key)
  BY SplayIs
<1>5. PICK F : Tree(s, S, F) /\ s.root = key /\ s.node_count = t.node_count
  BY <1>3, <1>4 DEF Splayed
<1>6. PICK r : r = Unlinked(s, key)
  OBVIOUS
<1>7. PICK g : g = Without(r, key)
  OBVIOUS
<1>8. tree_remove(t, key) = g
  BY <1>2, <1>3, <1>6, <1>7 DEF tree_remove, Without
<1>9. CASE s.node[key]["left"] = NULL \/ s.node[key]["right"] = NULL
  <2>1. PICK c : c = IF s.node[key]["left"] = NULL THEN s.node[key]["right"]
                     ELSE s.node[key]["left"]
    OBVIOUS
  <2>2. Shortened(Unlinked(s, key), s, S, c)
    BY <1>5, <1>9, <2>1, ShortenedIs
  <2>3. Shortened(r, s, S, c)
    BY <1>6, <2>2
  <2>4. Shrank(g, s, S, key)
    BY <1>5, <1>7, <1>9, <2>1, <2>3, ShortenedTree
  <2> QED BY <1>5, <1>8, <2>4 DEF Shrank
<1>10. CASE s.node[key]["left"] # NULL /\ s.node[key]["right"] # NULL
  <2>1. PICK l : l = s.node[key]["left"]
    OBVIOUS
  <2>2. PICK w : w = s.node[key]["right"]
    OBVIOUS
  <2>3. PICK y : y = subtree_minimum(s, w)
    OBVIOUS
  <2>4. PICK c : c = s.node[y]["right"]
    OBVIOUS
  <2>5. PICK q : q = s.node[y]["parent"]
    OBVIOUS
  <2>6. Family(s, S, F, key, y, l, w, c, q)
    BY <1>5, <1>10, <2>1, <2>2, <2>3, <2>4, <2>5, FamilyIs
  <2>7. PICK h : h = (IF w = y THEN c ELSE w)
    OBVIOUS
  <2>8. Lifted(Unlinked(s, key), s, S, key, y, l, IF w = y THEN c ELSE w, c, q)
    BY <1>5, <1>10, <2>1, <2>2, <2>3, <2>4, <2>5, LiftedIs
  <2>9. Lifted(r, s, S, key, y, l, h, c, q) /\ (w = y => h = c) /\ (w # y => h = w)
    BY <1>6, <2>7, <2>8
  <2>10. Shrank(g, s, S, key)
    BY <1>5, <1>7, <2>6, <2>9, LiftedTree
  <2> QED BY <1>5, <1>8, <2>10 DEF Shrank
<1> QED BY <1>9, <1>10

-----------------------------------------------------------------------------
(* The splay tree as its callers see it: a set of keys.                    *)

IsTree(t, S) == t.node_count = Cardinality(S) /\ \E D : Tree(t, S, D)

LEMMA IsEmptyTree == IsTree(tree_new, {})
<1>1. PICK D : D \in [{} -> SUBSET {}]
  <2>1. [x \in {} |-> {}] \in [{} -> SUBSET {}]
    OBVIOUS
  <2> QED BY <2>1
<1>2. PICK t : t = tree_new
  OBVIOUS
<1>3. t.node \in [{} -> [Fields -> {} \cup {NULL}]]
  BY <1>2 DEF tree_new
<1>4. Form(t, {})
  BY <1>2, <1>3 DEF Form, tree_new
<1>5. IsFiniteSet({}) /\ Cardinality({}) = 0
  BY FS_EmptySet
<1>6. Tree(t, {}, D)
  BY <1>1, <1>2, <1>4, <1>5 DEF Tree, tree_new
<1>7. t.node_count = 0
  BY <1>2 DEF tree_new
<1> QED BY <1>2, <1>5, <1>6, <1>7 DEF IsTree

LEMMA IsTreeKeys ==
  ASSUME NEW t, NEW S, IsTree(t, S)
  PROVE  /\ S \in SUBSET (Nat \ {0}) /\ IsFiniteSet(S) /\ NULL \notin S
         /\ WellFormed(t) /\ Nodes(t) = S
<1>1. PICK D : Tree(t, S, D)
  BY DEF IsTree
<1>2. S \in SUBSET (Nat \ {0}) /\ IsFiniteSet(S)
  BY <1>1 DEF Tree
<1>3. WellFormed(t) /\ Nodes(t) = S
  BY <1>1, TreeWellFormed DEF IsTree
<1> QED BY <1>2, <1>3 DEF NULL

LEMMA IsTreeInsert ==
  ASSUME NEW t, NEW S, IsTree(t, S), NEW key \in Nat \ {0}, key \notin S
  PROVE  IsTree(tree_insert(t, key), S \cup {key})
<1>1. PICK D : Tree(t, S, D)
  BY DEF IsTree
<1>2. Grew(tree_insert(t, key), t, S, key)
  BY <1>1, InsertIs
<1>3. Cardinality(S \cup {key}) = Cardinality(S) + 1
  BY IsTreeKeys, FS_AddElement
<1> QED BY <1>2, <1>3 DEF Grew, IsTree

LEMMA IsTreeRemove ==
  ASSUME NEW t, NEW S, IsTree(t, S), NEW key \in S
  PROVE  IsTree(tree_remove(t, key), S \ {key})
<1>1. PICK D : Tree(t, S, D)
  BY DEF IsTree
<1>2. Shrank(tree_remove(t, key), t, S, key)
  BY <1>1, RemoveIs
<1>3. Cardinality(S \ {key}) = Cardinality(S) - 1
  BY IsTreeKeys, FS_RemoveElement
<1> QED BY <1>2, <1>3 DEF Shrank, IsTree

LEMMA IsTreeNearest ==
  ASSUME NEW t, NEW S, IsTree(t, S), NEW key \in Nat
  PROVE  NearestOf(tree_find_nearest(t, key), S, key)
<1>1. PICK D : Tree(t, S, D)
  BY DEF IsTree
<1> QED BY <1>1, NearestIs

\* The splay tree is a set of keys (stree.c), however often it was splayed:
\* what is inserted is in it and what is removed is not, every node is still
\* found, and the nearest key is the greatest that is no greater.
THEOREM SplayTreeOperations ==
  ASSUME NEW t, NEW S, IsTree(t, S), NEW key \in Nat \ {0}
  PROVE  /\ WellFormed(t) /\ Nodes(t) = S
         /\ IsTree(tree_new, {})
         /\ IsTree(tree_insert(t, key), S \cup {key})
         /\ IsTree(tree_remove(t, key), S \ {key})
         /\ NearestOf(tree_find_nearest(t, key), S, key)
<1>1. PICK D : Tree(t, S, D)
  BY DEF IsTree
<1>2. PICK P : P = Path(t, key)
  OBVIOUS
<1>3. key \in S <=> key \in P
  BY <1>1, <1>2, PathFinds
<1>4. IsTree(tree_insert(t, key), S \cup {key})
  <2>1. CASE key \in S
    <3>1. tree_insert(t, key) = t
      BY Zenon, <1>2, <1>3, <2>1 DEF tree_insert
    <3>2. S \cup {key} = S
      BY <2>1
    <3> QED BY SMTT(30), <3>1, <3>2
  <2> QED BY <2>1, IsTreeInsert
<1>5. IsTree(tree_remove(t, key), S \ {key})
  <2>1. CASE key \notin S
    <3>1. tree_remove(t, key) = t
      BY <1>2, <1>3, <2>1 DEF tree_remove
    <3>2. S \ {key} = S
      BY <2>1
    <3> QED BY <3>1, <3>2
  <2> QED BY <2>1, IsTreeRemove
<1> QED BY <1>4, <1>5, IsEmptyTree, IsTreeKeys, IsTreeNearest

-----------------------------------------------------------------------------
(* The ranges: records that name each other, found by the tree.            *)

Records(S) == [hi : Int, index : Int, prev : S \cup {NULL}, next : S \cup {NULL}]

\* A range_set_t with the records S.
Chained(r, S) ==
  /\ r = [list |-> r.list, range |-> r.range, lo_tree |-> r.lo_tree]
  /\ r.range \in [S -> Records(S)]
  /\ r.list \in S \cup {NULL}

\* Links are inverse and ascending, and the list begins where nothing precedes.
Linked(r, S) ==
  /\ r.list # NULL => r.range[r.list].prev = NULL
  /\ \A x \in S : x <= r.range[x].hi
  /\ \A x \in S : r.range[x].next # NULL =>
       x < r.range[x].next /\ r.range[r.range[x].next].prev = x
  /\ \A x \in S : r.range[x].prev # NULL =>
       r.range[x].prev < x /\ r.range[r.range[x].prev].next = x

RangeSet(r, S) == Chained(r, S) /\ IsTree(r.lo_tree, S) /\ Linked(r, S)

\* q is r with another successor of x,
NextSet(q, r, S, x, y) ==
  /\ Chained(q, S) /\ q.lo_tree = r.lo_tree
  /\ q.list = IF x = NULL THEN y ELSE r.list
  /\ \A u \in S : /\ q.range[u].hi = r.range[u].hi /\ q.range[u].prev = r.range[u].prev
                  /\ q.range[u].next = IF u = x THEN y ELSE r.range[u].next

\* or another predecessor.
PrevSet(q, r, S, x, y) ==
  /\ Chained(q, S) /\ q.lo_tree = r.lo_tree /\ q.list = r.list
  /\ \A u \in S : /\ q.range[u].hi = r.range[u].hi /\ q.range[u].next = r.range[u].next
                  /\ q.range[u].prev = IF u = x THEN y ELSE r.range[u].prev

LEMMA SetNextIs ==
  ASSUME NEW r, NEW S, Chained(r, S), NULL \notin S,
         NEW x \in S \cup {NULL}, NEW y \in S \cup {NULL}
  PROVE  NextSet(SetNext(r, x, y), r, S, x, y)
<1>1. PICK q : q = SetNext(r, x, y)
  OBVIOUS
<1>2. PICK f, l, o : f = r.range /\ l = r.list /\ o = r.lo_tree
  OBVIOUS
<1>3. f \in [S -> Records(S)] /\ r = [list |-> l, range |-> f, lo_tree |-> o] /\ l \in S \cup {NULL}
  BY <1>2 DEF Chained
<1>4. CASE x = NULL
  <2>1. q = [list |-> y, range |-> f, lo_tree |-> o]
    BY <1>1, <1>3, <1>4 DEF SetNext
  <2> QED BY <1>1, <1>2, <1>3, <1>4, <2>1 DEF NextSet, Chained
<1>5. CASE x # NULL
  <2>1. PICK g : g = [f EXCEPT ![x].next = y]
    OBVIOUS
  <2>2. q = [list |-> l, range |-> g, lo_tree |-> o]
    BY <1>1, <1>3, <1>5, <2>1 DEF SetNext
  <2>3. /\ g \in [S -> Records(S)]
        /\ \A u \in S : /\ g[u].hi = f[u].hi /\ g[u].prev = f[u].prev
                        /\ g[u].next = IF u = x THEN y ELSE f[u].next
    BY <1>3, <1>5, <2>1 DEF Records
  <2>4. Chained(q, S) /\ q.lo_tree = o /\ q.list = l /\ q.range = g
    BY <1>3, <2>2, <2>3 DEF Chained
  <2> QED BY <1>1, <1>2, <1>5, <2>3, <2>4 DEF NextSet
<1> QED BY <1>4, <1>5

LEMMA SetPrevIs ==
  ASSUME NEW r, NEW S, Chained(r, S), NULL \notin S,
         NEW x \in S \cup {NULL}, NEW y \in S \cup {NULL}
  PROVE  PrevSet(SetPrev(r, x, y), r, S, x, y)
<1>1. PICK q : q = SetPrev(r, x, y)
  OBVIOUS
<1>2. PICK f, l, o : f = r.range /\ l = r.list /\ o = r.lo_tree
  OBVIOUS
<1>3. f \in [S -> Records(S)] /\ r = [list |-> l, range |-> f, lo_tree |-> o] /\ l \in S \cup {NULL}
  BY <1>2 DEF Chained
<1>4. CASE x = NULL
  <2>1. q = r
    BY <1>1, <1>4 DEF SetPrev
  <2> QED BY <1>1, <1>4, <2>1 DEF PrevSet
<1>5. CASE x # NULL
  <2>1. PICK g : g = [f EXCEPT ![x].prev = y]
    OBVIOUS
  <2>2. q = [list |-> l, range |-> g, lo_tree |-> o]
    BY <1>1, <1>3, <1>5, <2>1 DEF SetPrev
  <2>3. /\ g \in [S -> Records(S)]
        /\ \A u \in S : /\ g[u].hi = f[u].hi /\ g[u].next = f[u].next
                        /\ g[u].prev = IF u = x THEN y ELSE f[u].prev
    BY <1>3, <1>5, <2>1 DEF Records
  <2>4. Chained(q, S) /\ q.lo_tree = o /\ q.list = l /\ q.range = g
    BY <1>3, <2>2, <2>3 DEF Chained
  <2> QED BY <1>1, <1>2, <1>5, <2>3, <2>4 DEF PrevSet
<1> QED BY <1>4, <1>5

LEMMA NewRanges == RangeSet(new_range_set, {})
<1>1. PICK r : r = new_range_set
  OBVIOUS
<1>2. r = [list |-> NULL, range |-> <<>>, lo_tree |-> tree_new]
  BY <1>1 DEF new_range_set
<1>3. r.range \in [{} -> Records({})]
  BY <1>2
<1>4. Chained(r, {}) /\ r.list = NULL /\ r.lo_tree = tree_new
  BY <1>2, <1>3 DEF Chained
<1> QED BY <1>1, <1>4, IsEmptyTree DEF RangeSet, Linked

\* x between prev and next.
PutBetween(q, r, S, x, prev, next) ==
  /\ q.list = IF prev = NULL THEN x ELSE r.list
  /\ x <= q.range[x].hi /\ q.range[x].prev = prev /\ q.range[x].next = next
  /\ \A u \in S : /\ q.range[u].hi = r.range[u].hi
                  /\ q.range[u].prev = IF u = next THEN x ELSE r.range[u].prev
                  /\ q.range[u].next = IF u = prev THEN x ELSE r.range[u].next

LEMMA PutLinks ==
  ASSUME NEW r, NEW S, Chained(r, S), Linked(r, S), S \in SUBSET (Nat \ {0}),
         NEW x \in Nat \ {0}, x \notin S,
         NEW prev \in S \cup {NULL}, prev # NULL => prev < x,
         NEW next \in S \cup {NULL}, next # NULL => x < next,
         next = IF prev = NULL THEN NULL ELSE r.range[prev].next,
         NEW q, PutBetween(q, r, S, x, prev, next)
  PROVE  Linked(q, S \cup {x})
<1>1. /\ NULL \notin S /\ x # NULL /\ next # x /\ prev # x
      /\ next # NULL => prev # NULL /\ r.range[prev].next = next
      /\ next # NULL => r.range[next].prev = prev
  BY DEF NULL, Linked
<1>2. \A u \in S : r.range[u].prev \in S \cup {NULL} /\ r.range[u].next \in S \cup {NULL}
  BY DEF Chained, Records
<1>3. q.list # NULL => q.range[q.list].prev = NULL
  <2>1. CASE prev = NULL
    BY <2>1 DEF PutBetween
  <2>2. CASE prev # NULL /\ r.list # NULL
    <3>1. r.list \in S /\ r.range[r.list].prev = NULL
      BY <2>2 DEF Chained, Linked
    <3>2. r.list # next
      BY <1>1, <2>2, <3>1
    <3> QED BY <2>2, <3>1, <3>2 DEF PutBetween
  <2> QED BY <2>1, <2>2 DEF PutBetween
<1>4. \A u \in S \cup {x} : u <= q.range[u].hi
  BY DEF PutBetween, Linked
<1>5. ASSUME NEW u \in S \cup {x}, NEW v, v = q.range[u].next, v # NULL
      PROVE  u < v /\ q.range[v].prev = u
  <2>1. CASE u = x
    BY <1>1, <1>5, <2>1 DEF PutBetween
  <2>2. CASE u # x /\ u = prev
    BY <1>1, <1>5, <2>2 DEF PutBetween
  <2>3. CASE u # x /\ u # prev
    <3>1. v = r.range[u].next /\ v \in S
      BY <1>2, <1>5, <2>3 DEF PutBetween
    <3>2. u < v /\ r.range[v].prev = u
      BY <1>5, <2>3, <3>1 DEF Linked
    <3>3. v # next
      BY <1>1, <2>3, <3>2, <1>5
    <3> QED BY <3>1, <3>2, <3>3 DEF PutBetween
  <2> QED BY <2>1, <2>2, <2>3
<1>6. ASSUME NEW u \in S \cup {x}, NEW v, v = q.range[u].prev, v # NULL
      PROVE  v < u /\ q.range[v].next = u
  <2>1. CASE u = x
    BY <1>1, <1>6, <2>1 DEF PutBetween
  <2>2. CASE u # x /\ u = next
    BY <1>1, <1>6, <2>2 DEF PutBetween
  <2>3. CASE u # x /\ u # next
    <3>1. v = r.range[u].prev /\ v \in S
      BY <1>2, <1>6, <2>3 DEF PutBetween
    <3>2. v < u /\ r.range[v].next = u
      BY <1>6, <2>3, <3>1 DEF Linked
    <3>3. v # prev
      BY <1>1, <1>6, <2>3, <3>2
    <3> QED BY <3>1, <3>2, <3>3 DEF PutBetween
  <2> QED BY <2>1, <2>2, <2>3
<1> QED BY <1>3, <1>4, <1>5, <1>6 DEF Linked

Widened(r, lo, p) ==
  [r EXCEPT !.range = [z \in DOMAIN @ \cup {lo} |-> IF z = lo THEN p ELSE @[z]],
            !.lo_tree = tree_insert(@, lo)]

\* A block that add_range accepts is a new one, and is linked.
LEMMA AddedIs ==
  ASSUME NEW r, NEW S, RangeSet(r, S), ~ DBG_NONE, NEW lo \in Nat \ {0}, NEW size \in Nat \ {0},
         NEW index \in Int, NEW top, ~ Refused(r, lo, size, top)
  PROVE  lo \notin S /\ RangeSet(Added(r, lo, size, index), S \cup {lo})
<1>1. /\ Chained(r, S) /\ IsTree(r.lo_tree, S) /\ Linked(r, S)
      /\ S \in SUBSET (Nat \ {0}) /\ NULL \notin S
  BY IsTreeKeys DEF RangeSet
<1>2. PICK prev : prev = tree_find_nearest(r.lo_tree, lo)
  OBVIOUS
<1>3. PICK next : next = IF prev = NULL THEN NULL ELSE r.range[prev].next
  OBVIOUS
<1>4. /\ prev = NULL => \A y \in S : lo < y
      /\ prev # NULL => prev \in S /\ prev <= lo /\ \A y \in S : y <= lo => y <= prev
  BY <1>1, <1>2, IsTreeNearest DEF NearestOf
<1>5. /\ prev # NULL => ~ (lo <= r.range[prev].hi)
      /\ next # NULL => ~ (lo + size - 1 >= next)
  BY <1>2, <1>3 DEF Refused
<1>6. /\ prev \in S \cup {NULL} /\ next \in S \cup {NULL}
      /\ \A u \in S : r.range[u].hi \in Int /\ r.range[u].next \in S \cup {NULL}
  BY <1>1, <1>3, <1>4 DEF Chained, Records
<1>7. lo \notin S
  <2> SUFFICES ASSUME lo \in S PROVE FALSE
    OBVIOUS
  <2>1. prev # NULL
    <3>1. lo \in Nat /\ ~ (lo < lo)
      OBVIOUS
    <3> QED BY <1>4, <3>1
  <2>2. prev \in S /\ prev \in Nat /\ prev <= lo /\ lo <= prev
    <3>1. lo <= lo
      OBVIOUS
    <3>2. prev \in S /\ prev <= lo /\ lo <= prev
      BY <1>4, <2>1, <3>1
    <3> QED BY <1>1, <3>2
  <2>3. prev = lo
    BY <2>2
  <2> QED BY <1>1, <1>5, <2>1, <2>3 DEF Linked
<1>8. (prev # NULL => prev < lo) /\ (next # NULL => lo < next)
  <2>1. prev # NULL => prev \in Nat /\ prev # lo
    BY <1>1, <1>6, <1>7
  <2>2. next # NULL => next \in Nat
    BY <1>1, <1>6
  <2> QED BY <1>4, <1>5, <2>1, <2>2
<1>9. PICK T : T = S \cup {lo}
  OBVIOUS
<1>10. PICK p : p = [hi |-> lo + size - 1, index |-> index, prev |-> prev, next |-> next]
  OBVIOUS
<1>11. PICK f, l, o : f = r.range /\ l = r.list /\ o = r.lo_tree
  OBVIOUS
<1>12. PICK g : g = [z \in DOMAIN f \cup {lo} |-> IF z = lo THEN p ELSE f[z]]
  OBVIOUS
<1>13. /\ f \in [S -> Records(S)] /\ l \in S \cup {NULL}
       /\ r = [list |-> l, range |-> f, lo_tree |-> o]
  BY <1>1, <1>11 DEF Chained
<1>14. g \in [T -> Records(T)] /\ g[lo] = p /\ \A u \in S : g[u] = f[u]
  <2>1. p \in Records(T)
    BY <1>6, <1>9, <1>10 DEF Records
  <2>2. \A u \in S : f[u] \in Records(T)
    BY <1>9, <1>13 DEF Records
  <2>3. DOMAIN f = S
    BY <1>13
  <2> QED BY <1>7, <1>9, <1>12, <2>1, <2>2, <2>3
<1>15. PICK made : made = Widened(r, lo, p)
  OBVIOUS
<1>16. /\ Chained(made, T) /\ made.range = g /\ made.list = l
       /\ made.lo_tree = tree_insert(o, lo)
  <2>1. made = [list |-> l, range |-> g, lo_tree |-> tree_insert(o, lo)]
    BY <1>11, <1>12, <1>13, <1>15 DEF Widened
  <2> QED BY <1>9, <1>13, <1>14, <2>1 DEF Chained
<1>17. PICK m : m = SetNext(made, prev, lo)
  OBVIOUS
<1>18. /\ NULL \notin T /\ lo \in T \cup {NULL} /\ prev \in T \cup {NULL} /\ next \in T \cup {NULL}
  BY <1>1, <1>6, <1>9 DEF NULL
<1>19. NextSet(SetNext(made, prev, lo), made, T, prev, lo)
  BY <1>16, <1>18, SetNextIs
<1>20. NextSet(m, made, T, prev, lo)
  BY <1>17, <1>19
<1>21. PICK q : q = SetPrev(m, next, lo)
  OBVIOUS
<1>22. PrevSet(SetPrev(m, next, lo), m, T, next, lo)
  BY <1>18, <1>20, SetPrevIs DEF NextSet
<1>23. PrevSet(q, m, T, next, lo)
  BY <1>21, <1>22
<1>24. q = Added(r, lo, size, index)
  BY Zenon, <1>2, <1>3, <1>10, <1>15, <1>17, <1>21 DEF Added, Widened
<1>25. Chained(q, T) /\ q.lo_tree = tree_insert(r.lo_tree, lo)
  BY <1>11, <1>16, <1>20, <1>23 DEF NextSet, PrevSet
<1>26. IsTree(q.lo_tree, T)
  BY <1>1, <1>7, <1>9, <1>25, IsTreeInsert
<1>27. PutBetween(q, r, S, lo, prev, next)
  <2>1. /\ q.list = m.list /\ m.list = IF prev = NULL THEN lo ELSE l
    BY <1>16, <1>20, <1>23 DEF NextSet, PrevSet
  <2>2. ASSUME NEW u \in T
        PROVE  /\ q.range[u].hi = g[u].hi
               /\ q.range[u].prev = IF u = next THEN lo ELSE g[u].prev
               /\ q.range[u].next = IF u = prev THEN lo ELSE g[u].next
    BY <1>16, <1>20, <1>23 DEF NextSet, PrevSet
  <2>3. lo \in T /\ S \subseteq T /\ lo # prev /\ lo # next
    BY <1>1, <1>7, <1>6, <1>9, <1>18 DEF NULL
  <2>4. g[lo].hi = lo + size - 1 /\ g[lo].prev = prev /\ g[lo].next = next /\ lo <= lo + size - 1
    BY <1>10, <1>14
  <2>5. /\ lo <= q.range[lo].hi /\ q.range[lo].prev = prev /\ q.range[lo].next = next
    BY <2>2, <2>3, <2>4
  <2>6. \A u \in S : /\ q.range[u].hi = r.range[u].hi
                     /\ q.range[u].prev = IF u = next THEN lo ELSE r.range[u].prev
                     /\ q.range[u].next = IF u = prev THEN lo ELSE r.range[u].next
    BY <1>11, <1>14, <2>2, <2>3
  <2> QED BY <1>11, <2>1, <2>5, <2>6 DEF PutBetween
<1>28. Linked(q, T)
  BY <1>1, <1>3, <1>6, <1>7, <1>8, <1>9, <1>27, PutLinks
<1> QED BY <1>7, <1>9, <1>24, <1>25, <1>26, <1>28 DEF RangeSet

\* x is gone from between prev and next.
TakenOut(q, r, S, x, prev, next) ==
  /\ q.list = IF prev = NULL THEN next ELSE r.list
  /\ \A u \in S \ {x} : /\ q.range[u].hi = r.range[u].hi
                        /\ q.range[u].prev = IF u = next THEN prev ELSE r.range[u].prev
                        /\ q.range[u].next = IF u = prev THEN next ELSE r.range[u].next

StillLinked(q, R) ==
  /\ Linked(q, R) /\ q.list \in R \cup {NULL}
  /\ \A u \in R : q.range[u].prev \in R \cup {NULL} /\ q.range[u].next \in R \cup {NULL}

LEMMA TakenLinks ==
  ASSUME NEW r, NEW S, Chained(r, S), Linked(r, S), S \in SUBSET (Nat \ {0}),
         NEW x \in S, NEW prev, prev = r.range[x].prev, NEW next, next = r.range[x].next,
         NEW q, TakenOut(q, r, S, x, prev, next)
  PROVE  StillLinked(q, S \ {x})
<1>1. \A u \in S : r.range[u].prev \in S \cup {NULL} /\ r.range[u].next \in S \cup {NULL}
  BY DEF Chained, Records
<1>2. /\ prev \in S \cup {NULL} /\ next \in S \cup {NULL} /\ NULL \notin S /\ x \in Nat
      /\ prev # NULL => prev < x /\ r.range[prev].next = x
      /\ next # NULL => x < next /\ r.range[next].prev = x
  <2>1. prev \in S \cup {NULL} /\ next \in S \cup {NULL}
    BY <1>1
  <2>2. NULL \notin S /\ x \in Nat
    BY DEF NULL
  <2>3. /\ prev # NULL => prev < x /\ r.range[prev].next = x
        /\ next # NULL => x < next /\ r.range[next].prev = x
    BY DEF Linked
  <2> QED BY <2>1, <2>2, <2>3
<1>3. /\ prev # NULL => prev \in S \ {x} /\ prev \in Nat
      /\ next # NULL => next \in S \ {x} /\ next \in Nat
  <2>1. \A u \in S : u \in Nat /\ ~ (u < u)
    OBVIOUS
  <2> QED BY <1>2, <2>1
<1>4. q.list \in (S \ {x}) \cup {NULL} /\ (q.list # NULL => q.range[q.list].prev = NULL)
  <2>1. CASE prev = NULL
    BY <1>3, <2>1 DEF TakenOut
  <2>2. CASE prev # NULL
    <3>1. q.list = r.list /\ r.list \in S \cup {NULL} /\ (r.list # NULL => r.range[r.list].prev = NULL)
      BY <2>2 DEF TakenOut, Chained, Linked
    <3>2. r.list # x
      BY <1>2, <2>2, <3>1
    <3>3. r.list # NULL => r.list # next
      BY <1>2, <3>1
    <3> QED BY <3>1, <3>2, <3>3 DEF TakenOut
  <2> QED BY <2>1, <2>2
<1>5. \A u \in S \ {x} : u <= q.range[u].hi
  BY DEF TakenOut, Linked
<1>6. ASSUME NEW u \in S \ {x}, NEW v, v = q.range[u].next, v # NULL
      PROVE  v \in S \ {x} /\ u < v /\ q.range[v].prev = u
  <2>1. CASE u = prev
    <3>1. v = next /\ next \in S \ {x} /\ prev < x /\ x < next /\ prev \in Nat
      BY <1>2, <1>3, <1>6, <2>1 DEF TakenOut
    <3>2. q.range[next].prev = prev
      BY <3>1 DEF TakenOut
    <3> QED BY <1>2, <1>3, <2>1, <3>1, <3>2
  <2>2. CASE u # prev
    <3>1. v = r.range[u].next /\ v \in S
      BY <1>1, <1>6, <2>2 DEF TakenOut
    <3>2. u < v /\ r.range[v].prev = u
      BY <1>6, <3>1 DEF Linked
    <3>3. v # x /\ v # next
      BY <1>2, <1>6, <2>2, <3>2
    <3> QED BY <3>1, <3>2, <3>3 DEF TakenOut
  <2> QED BY <2>1, <2>2
<1>7. ASSUME NEW u \in S \ {x}, NEW v, v = q.range[u].prev, v # NULL
      PROVE  v \in S \ {x} /\ v < u /\ q.range[v].next = u
  <2>1. CASE u = next
    <3>1. v = prev /\ prev \in S \ {x} /\ prev < x /\ x < next /\ next \in Nat
      BY <1>2, <1>3, <1>7, <2>1 DEF TakenOut
    <3>2. q.range[prev].next = next
      BY <3>1 DEF TakenOut
    <3> QED BY <1>2, <1>3, <2>1, <3>1, <3>2
  <2>2. CASE u # next
    <3>1. v = r.range[u].prev /\ v \in S
      BY <1>1, <1>7, <2>2 DEF TakenOut
    <3>2. v < u /\ r.range[v].next = u
      BY <1>7, <3>1 DEF Linked
    <3>3. v # x /\ v # prev
      BY <1>2, <1>7, <2>2, <3>2
    <3> QED BY <3>1, <3>2, <3>3 DEF TakenOut
  <2> QED BY <2>1, <2>2
<1>8. Linked(q, S \ {x})
  BY <1>4, <1>5, <1>6, <1>7 DEF Linked
<1> QED BY <1>4, <1>6, <1>7, <1>8 DEF StillLinked

Narrowed(r, lo) ==
  [r EXCEPT !.lo_tree = tree_remove(@, lo), !.range = Restrict(@, DOMAIN @ \ {lo})]

\* remove_range takes a block out of the list and the tree, if it is there.
LEMMA RemovedIs ==
  ASSUME NEW r, NEW S, RangeSet(r, S), NEW lo \in Nat
  PROVE  RangeSet(remove_range(r, lo), S \ {lo})
<1>1. /\ Chained(r, S) /\ IsTree(r.lo_tree, S) /\ Linked(r, S) /\ Nodes(r.lo_tree) = S
      /\ S \in SUBSET (Nat \ {0}) /\ NULL \notin S
  BY IsTreeKeys DEF RangeSet
<1>2. CASE lo \notin S
  <2>1. remove_range(r, lo) = r /\ S \ {lo} = S
    BY <1>1, <1>2 DEF remove_range
  <2> QED BY <2>1
<1>3. CASE lo \in S
  <2>1. PICK prev, next : prev = r.range[lo].prev /\ next = r.range[lo].next
    OBVIOUS
  <2>2. prev \in S \cup {NULL} /\ next \in S \cup {NULL}
    BY <1>1, <1>3, <2>1 DEF Chained, Records
  <2>3. PICK m : m = SetNext(r, prev, next)
    OBVIOUS
  <2>4. NextSet(SetNext(r, prev, next), r, S, prev, next)
    BY <1>1, <2>2, SetNextIs
  <2>5. NextSet(m, r, S, prev, next)
    BY <2>3, <2>4
  <2>6. PICK cut : cut = SetPrev(m, next, prev)
    OBVIOUS
  <2>7. PrevSet(SetPrev(m, next, prev), m, S, next, prev)
    BY <1>1, <2>2, <2>5, SetPrevIs DEF NextSet
  <2>8. PrevSet(cut, m, S, next, prev)
    BY <2>6, <2>7
  <2>9. PICK q : q = Narrowed(cut, lo)
    OBVIOUS
  <2>10. q = remove_range(r, lo)
    BY Zenon, <1>1, <1>3, <2>1, <2>3, <2>6, <2>9 DEF remove_range, Narrowed
  <2>11. PICK R : R = S \ {lo}
    OBVIOUS
  <2>12. PICK f, l, o : f = cut.range /\ l = cut.list /\ o = cut.lo_tree
    OBVIOUS
  <2>13. /\ f \in [S -> Records(S)] /\ l \in S \cup {NULL}
         /\ cut = [list |-> l, range |-> f, lo_tree |-> o]
    BY <2>8, <2>12 DEF PrevSet, Chained
  <2>14. PICK g : g = [u \in R |-> f[u]]
    OBVIOUS
  <2>15. Restrict(f, DOMAIN f \ {lo}) = g
    <3>1. DOMAIN f = S
      BY <2>13
    <3> QED BY <2>11, <2>14, <3>1 DEF Restrict
  <2>16. q = [list |-> l, range |-> g, lo_tree |-> tree_remove(o, lo)]
    BY <2>9, <2>12, <2>13, <2>15 DEF Narrowed
  <2>17. o = r.lo_tree
    BY <2>5, <2>8, <2>12 DEF NextSet, PrevSet
  <2>18. IsTree(q.lo_tree, R)
    <3>1. q.lo_tree = tree_remove(r.lo_tree, lo)
      BY <2>16, <2>17
    <3> QED BY <1>1, <1>3, <2>11, <3>1, IsTreeRemove
  <2>19. TakenOut(q, r, S, lo, prev, next)
    <3>1. q.list = IF prev = NULL THEN next ELSE r.list
      BY <2>5, <2>8, <2>12, <2>16 DEF NextSet, PrevSet
    <3>2. \A u \in S : /\ f[u].hi = r.range[u].hi
                       /\ f[u].prev = IF u = next THEN prev ELSE r.range[u].prev
                       /\ f[u].next = IF u = prev THEN next ELSE r.range[u].next
      BY <2>5, <2>8, <2>12 DEF NextSet, PrevSet
    <3>3. \A u \in S \ {lo} : q.range[u] = f[u]
      BY <2>11, <2>14, <2>16
    <3> QED BY <3>1, <3>2, <3>3 DEF TakenOut
  <2>20. /\ Linked(q, R) /\ q.list \in R \cup {NULL}
         /\ \A u \in R : q.range[u].prev \in R \cup {NULL} /\ q.range[u].next \in R \cup {NULL}
    <3>1. StillLinked(q, S \ {lo})
      BY <1>1, <1>3, <2>1, <2>19, TakenLinks
    <3> QED BY <2>11, <3>1 DEF StillLinked
  <2>21. q.range \in [R -> Records(R)]
    <3>1. ASSUME NEW u \in R PROVE g[u] \in Records(R)
      <4>1. g[u] = f[u] /\ f[u] \in Records(S) /\ q.range[u] = g[u]
        BY <2>11, <2>13, <2>14, <2>16
      <4> QED BY <2>20, <4>1 DEF Records
    <3> QED BY <2>14, <2>16, <3>1
  <2>22. Chained(q, R)
    BY <2>16, <2>20, <2>21 DEF Chained
  <2> QED BY <2>10, <2>11, <2>18, <2>20, <2>22 DEF RangeSet
<1> QED BY <1>2, <1>3

LEMMA RangeSetExact ==
  ASSUME NEW r, NEW S, RangeSet(r, S)
  PROVE  /\ WellFormed(r.lo_tree) /\ Nodes(r.lo_tree) = S /\ DOMAIN r.range = S
         /\ r.list \in {NULL} \cup S
         /\ \A lo \in S :
              /\ r.range[lo].next # NULL =>
                   r.range[lo].next > lo /\ r.range[r.range[lo].next].prev = lo
              /\ r.range[lo].prev # NULL =>
                   r.range[lo].prev < lo /\ r.range[r.range[lo].prev].next = lo
<1>1. Chained(r, S) /\ IsTree(r.lo_tree, S) /\ Linked(r, S)
  BY DEF RangeSet
<1>2. WellFormed(r.lo_tree) /\ Nodes(r.lo_tree) = S /\ S \in SUBSET (Nat \ {0})
  BY <1>1, IsTreeKeys
<1>3. DOMAIN r.range = S /\ r.list \in {NULL} \cup S
  BY <1>1 DEF Chained
<1>4. \A lo \in S : r.range[lo].next \in S \cup {NULL}
  BY <1>1 DEF Chained, Records
<1> QED BY <1>1, <1>2, <1>3, <1>4 DEF Linked

-----------------------------------------------------------------------------
(* The blocks and the ranges.  Every live block has a place of its own, and *)
(* the places are the keys of the range set, unless nothing is debugged.   *)

Held(B, L, S) ==
  /\ S = {B[id].p : id \in L}
  /\ \A x, y \in L : x # y => B[x].p # B[y].p

Known(r, B, L) == \E S : RangeSet(r, S) /\ IF DBG_NONE THEN S = {} ELSE Held(B, L, S)

\* A block is removed, which may not be there,
LEMMA KnownWithout ==
  ASSUME NEW r, NEW B, NEW L, Known(r, B, L), NEW x, NEW lo \in Nat, lo = B[x].p,
         x \notin L => lo = NULL, NEW C, \A y \in L : y # x => C[y] = B[y]
  PROVE  Known(remove_range(r, lo), C, L \ {x})
<1>1. PICK S : RangeSet(r, S) /\ IF DBG_NONE THEN S = {} ELSE Held(B, L, S)
  BY DEF Known
<1>2. RangeSet(remove_range(r, lo), S \ {lo})
  BY <1>1, RemovedIs
<1>3. CASE DBG_NONE
  <2>1. S \ {lo} = {}
    BY <1>1, <1>3
  <2> QED BY <1>2, <1>3, <2>1 DEF Known
<1>4. CASE ~ DBG_NONE
  <2>1. NULL \notin S
    BY <1>1, IsTreeKeys DEF RangeSet
  <2>2. Held(B, L, S)
    BY <1>1, <1>4
  <2>3. x \in L => \A y \in L \ {x} : B[y].p # lo
    BY <2>2 DEF Held
  <2>4. S \ {lo} = {B[y].p : y \in L \ {x}}
    BY <2>1, <2>2, <2>3 DEF Held
  <2>5. \A y \in L \ {x} : C[y] = B[y]
    OBVIOUS
  <2>6. {B[y].p : y \in L \ {x}} = {C[y].p : y \in L \ {x}}
    BY <2>5
  <2>7. Held(C, L \ {x}, S \ {lo})
    BY <2>2, <2>4, <2>5, <2>6 DEF Held
  <2> QED BY <1>2, <1>4, <2>7 DEF Known
<1> QED BY <1>3, <1>4

\* or was not there,
LEMMA KnownElse ==
  ASSUME NEW r, NEW B, NEW L, Known(r, B, L), NEW x, x \notin L,
         NEW C, \A y \in L : y # x => C[y] = B[y]
  PROVE  Known(r, C, L \ {x})
<1>1. PICK S : RangeSet(r, S) /\ IF DBG_NONE THEN S = {} ELSE Held(B, L, S)
  BY DEF Known
<1>2. L \ {x} = L /\ \A y \in L : C[y] = B[y]
  OBVIOUS
<1>3. {B[y].p : y \in L} = {C[y].p : y \in L}
  BY <1>2
<1>4. Held(B, L, S) => Held(C, L, S)
  BY <1>2, <1>3 DEF Held
<1> QED BY <1>1, <1>2, <1>4 DEF Known

\* and a block is added, which add_range accepts.
LEMMA KnownWith ==
  ASSUME NEW r, NEW C, NEW M, NEW x, Known(r, C, M), x \notin M,
         NEW lo \in Nat \ {0}, lo = C[x].p, NEW size \in Nat \ {0}, NEW index \in Int,
         NEW top, ~ Refused(r, lo, size, top)
  PROVE  Known(Added(r, lo, size, index), C, M \cup {x})
<1>1. PICK S : RangeSet(r, S) /\ IF DBG_NONE THEN S = {} ELSE Held(C, M, S)
  BY DEF Known
<1>2. CASE DBG_NONE
  <2>1. Added(r, lo, size, index) = r
    BY <1>2 DEF Added
  <2> QED BY <1>1, <1>2, <2>1 DEF Known
<1>3. CASE ~ DBG_NONE
  <2>1. lo \notin S /\ RangeSet(Added(r, lo, size, index), S \cup {lo})
    BY <1>1, <1>3, AddedIs
  <2>2. Held(C, M, S)
    BY <1>1, <1>3
  <2>3. S \cup {lo} = {C[y].p : y \in M \cup {x}}
    BY <2>2 DEF Held
  <2>4. ASSUME NEW y \in M \cup {x}, NEW z \in M \cup {x}, y # z PROVE C[y].p # C[z].p
    BY <2>1, <2>2, <2>4 DEF Held
  <2>5. Held(C, M \cup {x}, S \cup {lo})
    BY <2>3, <2>4 DEF Held
  <2> QED BY <1>3, <2>1, <2>5 DEF Known
<1> QED BY <1>2, <1>3

\* What eval_mm_valid knows about its blocks and ranges.
Tracking ==
  /\ op \in Nat \ {0}
  /\ blocks \in [Ids(Trace) -> Block]
  /\ Known(ranges, blocks, Live)
  /\ \A id \in Ids(Trace) \ Live : Freed(id) \/ blocks[id].p = NULL

RangesInv == phase = "replay" /\ pass < 3 => Tracking

\* What a request does to the blocks and the ranges.
Tracked(C, r, x, s) ==
  /\ C \in [Ids(Trace) -> Block] /\ \A y \in Ids(Trace) : y # x => C[y] = blocks[y]
  /\ Known(r, C, With(Live, x, s))
  /\ s = 0 => Request.type = "f" \/ C[x].p = NULL

LEMMA TrackNext ==
  ASSUME Tracking, Trace \in TraceFile, op \in DOMAIN Trace.ops, op' = op + 1,
         UNCHANGED <<opts, i>>, NEW x, x = Request.index, NEW s, s = Request.size,
         IF x = -1 THEN blocks' = blocks /\ ranges' = ranges
         ELSE Tracked(blocks', ranges', x, s)
  PROVE  Tracking'
<1>1. PICK tr, n : tr = Trace /\ n = op
  OBVIOUS
<1>2. tr \in TraceFile /\ n \in DOMAIN tr.ops /\ n \in Nat \ {0} /\ op' = n + 1
  BY <1>1 DEF Tracking
<1>3. Trace' = tr /\ (DBG_NONE' <=> DBG_NONE)
  BY <1>1 DEF Trace, DBG_NONE
<1>4. Live = LiveAt(tr, n) /\ Live' = LiveAt(tr, n + 1)
  BY <1>1, <1>2, <1>3 DEF Live, LiveAt
<1>5. \A id : FreedAt(tr, n, id) => FreedAt(tr, n + 1, id)
  <2>1. \A k \in 1 .. n - 1 : k \in 1 .. (n + 1) - 1
    BY <1>2
  <2> QED BY <2>1 DEF FreedAt
<1>6. x = tr.ops[n].index /\ s = tr.ops[n].size /\ s \in Nat
  <2>1. x = tr.ops[n].index /\ s = tr.ops[n].size
    BY <1>1 DEF Request
  <2> QED BY <1>2, <2>1, OpType
<1>7. PICK L, M : L = LiveAt(tr, n) /\ M = LiveAt(tr, n + 1)
  OBVIOUS
<1>8. \A id \in Ids(tr) \ L : FreedAt(tr, n, id) \/ blocks[id].p = NULL
  BY <1>1, <1>4, <1>7 DEF Tracking, Freed
<1>9. op' \in Nat \ {0}
  BY <1>2
<1>10. PICK C, r : C = blocks' /\ r = ranges'
  OBVIOUS
<1>11. SUFFICES /\ C \in [Ids(tr) -> Block] /\ Known(r, C, M)
                /\ \A id \in Ids(tr) \ M : FreedAt(tr, n + 1, id) \/ C[id].p = NULL
  <2>1. Known(ranges, blocks, Live)' <=> Known(r, C, M)
    BY <1>3, <1>4, <1>7, <1>10 DEF Known, RangeSet, Held
  <2> QED BY <1>2, <1>3, <1>4, <1>7, <1>9, <1>10, <1>11, <2>1 DEF Tracking, Freed
<1>12. CASE x = -1
  <2>1. M = L
    BY ZenonT(60), <1>2, <1>6, <1>7, <1>12, LiveNext
  <2>2. C = blocks /\ r = ranges
    BY <1>10, <1>12
  <2> QED BY <1>1, <1>4, <1>5, <1>7, <1>8, <2>1, <2>2 DEF Tracking
<1>13. CASE x # -1
  <2>1. Tracked(C, r, x, s)
    BY <1>10, <1>13
  <2>2. M = With(L, x, s)
    BY <1>2, <1>6, <1>7, <1>13, LiveNext DEF With
  <2>3. C \in [Ids(tr) -> Block] /\ Known(r, C, M) /\ \A y \in Ids(tr) : y # x => C[y] = blocks[y]
    BY <1>1, <1>4, <1>7, <2>1, <2>2 DEF Tracked
  <2>4. ASSUME NEW id \in Ids(tr) \ M
        PROVE  FreedAt(tr, n + 1, id) \/ C[id].p = NULL
    <3>1. CASE id # x
      <4>1. id \in Ids(tr) \ L
        BY <2>2, <2>4, <3>1 DEF With
      <4> QED BY <1>5, <1>8, <2>3, <3>1, <4>1
    <3>2. CASE id = x
      <4>1. s = 0
        BY <1>6, <2>2, <2>4, <3>2 DEF With
      <4>2. tr.ops[n].type = "f" \/ C[x].p = NULL
        BY <1>1, <2>1, <4>1 DEF Tracked, Request
      <4>3. tr.ops[n].type = "f" => FreedAt(tr, n + 1, x)
        <5>1. n \in 1 .. (n + 1) - 1
          BY <1>2
        <5> QED BY <1>6, <5>1 DEF FreedAt
      <4> QED BY <3>2, <4>2, <4>3
    <3> QED BY <3>1, <3>2
  <2> QED BY <2>3, <2>4
<1> QED BY <1>12, <1>13

\* Wherever the allocator answers, it answers with an address.
LEMMA AnswerPlace ==
  ASSUME NEW size, NEW others, NEW copied, NEW a \in Answers(size, others, copied)
  PROVE  a.p \in Nat
<1> DEFINE all == Places(size, others)
           right == {x \in all : x.kind = "none"}
<1>1. a \in all \cup Garbled(right, others, copied)
  BY DEF Answers
<1>2. \A x \in all : x.p \in Nat /\ \A h : Damaged(x, h).p = x.p
  <2>1. ASSUME NEW p \in {NULL} \cup 1 .. Top PROVE p \in Nat
    BY DriverAssumption DEF NULL
  <2> QED BY <2>1 DEF Places, Damaged
<1>3. right \subseteq all
  OBVIOUS
<1> HIDE DEF all, right
<1> QED BY <1>1, <1>2, <1>3 DEF Garbled

\* An answer of realloc to a size of 0.
LEMMA NothingPlace ==
  ASSUME NEW a \in ToNothing
  PROVE  a.p \in Nat
BY DriverAssumption DEF ToNothing, NULL

LEMMA RejectEnds ==
  ASSUME NEW kind, NEW r, Reject(kind, r)
  PROVE  phase' # "replay"
BY DEF Reject, Conclude

\* The request that is next, in an orderly trace.
AtRequest(x, s) ==
  /\ Trace \in TraceFile /\ op \in DOMAIN Trace.ops
  /\ x = Request.index /\ s = Request.size /\ s \in Nat
  /\ x # -1 => /\ x \in Ids(Trace) /\ x \in Nat
               /\ x \notin Live => blocks[x].p = NULL
  /\ Request.type # "f" => x # -1
  /\ Request.type = "a" => x \notin Live /\ s > 0
  /\ Request.type = "f" => s = 0

LEMMA AtRequestIs ==
  ASSUME Tracking, Trace \in TraceFile, Orderly(Trace), op \in DOMAIN Trace.ops,
         Request.type = "a" => Request.size > 0
  PROVE  AtRequest(Request.index, Request.size)
<1>1. PICK tr, n : tr = Trace /\ n = op
  OBVIOUS
<1>2. PICK x, s, o : x = Request.index /\ s = Request.size /\ o = Request
  OBVIOUS
<1>3. x = tr.ops[n].index /\ s = tr.ops[n].size /\ o = tr.ops[n] /\ n \in DOMAIN tr.ops
  BY <1>1, <1>2 DEF Request
<1>4. s \in Nat /\ x \in Nat \cup {-1} /\ (x # -1 => x \in Ids(tr))
  BY <1>1, <1>3, OpType
<1>5. /\ x # -1 => ~ FreedAt(tr, n, x)
      /\ o.type = "a" => x \notin LiveAt(tr, n)
  BY <1>1, <1>3, OrderlyRequest
<1>6. Live = LiveAt(tr, n)
  BY <1>1 DEF Live, LiveAt
<1>7. x # -1 => /\ x \in Ids(tr) /\ x \in Nat
                /\ x \notin Live => blocks[x].p = NULL
  BY <1>1, <1>4, <1>5 DEF Tracking, Freed
<1>8. (o.type # "f" => x # -1) /\ (o.type = "f" => s = 0)
  BY <1>1, <1>3 DEF Orderly
<1> QED BY <1>1, <1>2, <1>3, <1>4, <1>5, <1>6, <1>7, <1>8 DEF AtRequest

LEMMA TrackMalloc ==
  ASSUME Tracking, Malloc, phase' = "replay", Request.type = "a",
         NEW x, NEW s, AtRequest(x, s)
  PROVE  Tracking'
<1>1. /\ Trace \in TraceFile /\ op \in DOMAIN Trace.ops /\ x = Request.index /\ s = Request.size
      /\ x # -1 /\ x \in Ids(Trace) /\ x \in Nat /\ x \notin Live /\ s \in Nat \ {0}
  BY DEF AtRequest
<1>2. PICK a \in Answers(s, Live, 0) :
        /\ ~ (a.p = NULL \/ Refused(ranges, a.p, s, a.brk))
        /\ Served(x, [p |-> a.p, size |-> s, base |-> op], Added(ranges, a.p, s, x),
                  randomize_block(Hit(mem, a.hit), a.p, s, op), a)
  <2>1. PICK a \in Answers(s, Live, 0) :
          IF a.p = NULL \/ Refused(ranges, a.p, s, a.brk) THEN Reject(a.kind, ranges)
          ELSE Served(x, [p |-> a.p, size |-> s, base |-> op], Added(ranges, a.p, s, x),
                      randomize_block(Hit(mem, a.hit), a.p, s, op), a)
    BY Zenon, <1>1 DEF Malloc
  <2>2. ~ Reject(a.kind, ranges)
    BY RejectEnds
  <2> QED BY Zenon, <2>1, <2>2
<1>3. /\ blocks' = [blocks EXCEPT ![x] = [p |-> a.p, size |-> s, base |-> op]]
      /\ ranges' = Added(ranges, a.p, s, x) /\ op' = op + 1 /\ UNCHANGED <<opts, i>>
  BY <1>1, <1>2 DEF Served
<1>4. PICK lo, top : lo = a.p /\ top = a.brk
  OBVIOUS
<1>5. lo \in Nat \ {0} /\ ~ Refused(ranges, lo, s, top)
  BY <1>2, <1>4, AnswerPlace DEF NULL
<1>6. PICK C : C = blocks'
  OBVIOUS
<1>7. C \in [Ids(Trace) -> Block] /\ C[x].p = lo /\ \A y \in Ids(Trace) : y # x => C[y] = blocks[y]
  <2>1. blocks \in [Ids(Trace) -> Block] /\ op \in Nat /\ s \in Nat /\ lo \in Nat
    BY <1>1, <1>5 DEF Tracking
  <2>2. PICK k : k = [p |-> lo, size |-> s, base |-> op]
    OBVIOUS
  <2>3. k \in Block /\ k.p = lo
    BY <2>1, <2>2 DEF Block
  <2>4. C = [blocks EXCEPT ![x] = k]
    BY <1>3, <1>4, <1>6, <2>2
  <2> QED BY <1>1, <2>1, <2>3, <2>4
<1>8. Live \subseteq Ids(Trace)
  BY DEF Live
<1>9. Known(ranges, C, Live \ {x})
  BY <1>1, <1>7, <1>8, KnownElse DEF Tracking
<1>10. Known(Added(ranges, lo, s, x), C, (Live \ {x}) \cup {x})
  <2>1. PICK M : M = Live \ {x}
    OBVIOUS
  <2>2. Known(ranges, C, M) /\ x \notin M /\ x \in Int
    BY <1>1, <1>9, <2>1
  <2>3. Known(Added(ranges, lo, s, x), C, M \cup {x})
    BY <1>1, <1>5, <1>7, <2>2, KnownWith
  <2> QED BY <2>1, <2>3
<1>11. With(Live, x, s) = (Live \ {x}) \cup {x}
  BY <1>1 DEF With
<1>12. Tracked(blocks', ranges', x, s)
  BY <1>1, <1>3, <1>4, <1>6, <1>7, <1>10, <1>11 DEF Tracked
<1> QED BY <1>1, <1>3, <1>12, TrackNext

\* The answer of realloc, where nothing is found wrong.
Reallocated(id, size, old, n, removed) ==
  \E a \in IF size = 0 THEN ToNothing
           ELSE Answers(size, Live \ {id}, IF DBG_NONE THEN 0 ELSE Min({n, maxfill})) :
    \E m : /\ ~ ((a.p = NULL) # (size = 0))
          /\ ~ (a.p # NULL /\ size > 0 /\ Refused(removed, a.p, size, a.brk))
          /\ Served(id, [p |-> a.p, size |-> size, base |-> op],
                    IF size > 0 THEN Added(removed, a.p, size, id) ELSE removed, m, a)

LEMMA TrackRealloc ==
  ASSUME Tracking, Realloc, phase' = "replay", Request.type = "r",
         NEW x, NEW s, AtRequest(x, s)
  PROVE  Tracking'
<1>1. /\ Trace \in TraceFile /\ op \in DOMAIN Trace.ops /\ x = Request.index /\ s = Request.size
      /\ x # -1 /\ x \in Ids(Trace) /\ x \in Nat /\ s \in Nat
      /\ x \notin Live => blocks[x].p = NULL
  BY DEF AtRequest
<1>2. PICK old, removed, m : /\ old = blocks[x] /\ removed = remove_range(ranges, old.p)
                             /\ m = IF DBG_NONE THEN 0 ELSE Min({Min({s, old.size}), maxfill})
  OBVIOUS
<1>3. PICK a, mem2 :
        /\ a \in IF s = 0 THEN ToNothing ELSE Answers(s, Live \ {x}, m)
        /\ a.p = NULL <=> s = 0
        /\ ~ (a.p # NULL /\ s > 0 /\ Refused(removed, a.p, s, a.brk))
        /\ Served(x, [p |-> a.p, size |-> s, base |-> op],
                  IF s > 0 THEN Added(removed, a.p, s, x) ELSE removed, mem2, a)
  <2>1. PICK n : n = Min({s, old.size})
    OBVIOUS
  <2>2. Reallocated(x, s, old, n, removed)
    BY ZenonT(60), <1>1, <1>2, <2>1, RejectEnds DEF Realloc, Reallocated
  <2> QED BY Zenon, <1>2, <2>1, <2>2, RejectEnds DEF Reallocated
<1>4. PICK lo, top : lo = a.p /\ top = a.brk
  OBVIOUS
<1>5. /\ blocks' = [blocks EXCEPT ![x] = [p |-> lo, size |-> s, base |-> op]]
      /\ ranges' = IF s > 0 THEN Added(removed, lo, s, x) ELSE removed
      /\ op' = op + 1 /\ UNCHANGED <<opts, i>>
  BY <1>1, <1>3, <1>4 DEF Served
<1>6. lo \in Nat
  BY <1>3, <1>4, AnswerPlace, NothingPlace
<1>7. PICK C : C = blocks'
  OBVIOUS
<1>8. C \in [Ids(Trace) -> Block] /\ C[x].p = lo /\ \A y \in Ids(Trace) : y # x => C[y] = blocks[y]
  <2>1. blocks \in [Ids(Trace) -> Block] /\ op \in Nat
    BY DEF Tracking
  <2>2. PICK k : k = [p |-> lo, size |-> s, base |-> op]
    OBVIOUS
  <2>3. k \in Block /\ k.p = lo
    BY <1>1, <1>6, <2>1, <2>2 DEF Block
  <2>4. C = [blocks EXCEPT ![x] = k]
    BY <1>5, <1>7, <2>2
  <2> QED BY <1>1, <2>1, <2>3, <2>4
<1>9. Live \subseteq Ids(Trace)
  BY DEF Live
<1>10. PICK q : q = old.p
  OBVIOUS
<1>11. q \in Nat /\ q = blocks[x].p /\ (x \notin Live => q = NULL)
  BY <1>1, <1>2, <1>10 DEF Tracking, Block
<1>12. Known(removed, C, Live \ {x})
  <2>1. Known(remove_range(ranges, q), C, Live \ {x})
    BY <1>8, <1>9, <1>11, KnownWithout DEF Tracking
  <2> QED BY <1>2, <1>10, <2>1
<1>13. Tracked(blocks', ranges', x, s)
  <2>1. CASE s = 0
    <3>1. ranges' = removed /\ With(Live, x, s) = Live \ {x} /\ lo = NULL
      BY <1>3, <1>4, <1>5, <2>1 DEF With
    <3> QED BY <1>7, <1>8, <1>12, <3>1 DEF Tracked
  <2>2. CASE s # 0
    <3>1. s \in Nat \ {0} /\ s > 0 /\ lo \in Nat \ {0} /\ ~ Refused(removed, lo, s, top)
      BY <1>1, <1>3, <1>4, <1>6, <2>2 DEF NULL
    <3>2. Known(Added(removed, lo, s, x), C, (Live \ {x}) \cup {x})
      <4>1. PICK M : M = Live \ {x}
        OBVIOUS
      <4>2. Known(removed, C, M) /\ x \notin M /\ x \in Int
        BY <1>1, <1>12, <4>1
      <4>3. Known(Added(removed, lo, s, x), C, M \cup {x})
        BY <1>8, <3>1, <4>2, KnownWith
      <4> QED BY <4>1, <4>3
    <3>3. ranges' = Added(removed, lo, s, x) /\ With(Live, x, s) = (Live \ {x}) \cup {x}
      BY <1>5, <3>1 DEF With
    <3> QED BY <1>7, <1>8, <2>2, <3>2, <3>3 DEF Tracked
  <2> QED BY <2>1, <2>2
<1> QED BY <1>1, <1>5, <1>13, TrackNext

LEMMA TrackFree ==
  ASSUME Tracking, Free, phase' = "replay", Request.type = "f",
         NEW x, NEW s, AtRequest(x, s)
  PROVE  Tracking'
<1>1. /\ Trace \in TraceFile /\ op \in DOMAIN Trace.ops /\ x = Request.index /\ s = Request.size
      /\ s = 0
      /\ x # -1 => x \in Ids(Trace) /\ x \in Nat /\ (x \notin Live => blocks[x].p = NULL)
  BY DEF AtRequest
<1>2. PICK a, mem2 : IF x = -1 THEN Served(x, NULL, ranges, mem2, a)
                     ELSE Served(x, blocks[x], remove_range(ranges, blocks[x].p), mem2, a)
  BY <1>1, RejectEnds DEF Free
<1>3. CASE x = -1
  <2>1. blocks' = blocks /\ ranges' = ranges /\ op' = op + 1 /\ UNCHANGED <<opts, i>>
    BY <1>2, <1>3 DEF Served
  <2> QED BY <1>1, <1>3, <2>1, TrackNext
<1>4. CASE x # -1
  <2>1. PICK q : q = blocks[x].p
    OBVIOUS
  <2>2. blocks \in [Ids(Trace) -> Block] /\ q \in Nat /\ (x \notin Live => q = NULL)
    BY <1>1, <1>4, <2>1 DEF Tracking, Block
  <2>3. /\ blocks' = blocks /\ ranges' = remove_range(ranges, q) /\ op' = op + 1
        /\ UNCHANGED <<opts, i>>
    BY <1>1, <1>2, <1>4, <2>1, <2>2 DEF Served
  <2>4. Known(remove_range(ranges, q), blocks, Live \ {x})
    BY <2>1, <2>2, KnownWithout DEF Tracking
  <2>5. With(Live, x, s) = Live \ {x}
    BY <1>1 DEF With
  <2>6. Tracked(blocks', ranges', x, s)
    BY <2>2, <2>3, <2>4, <2>5 DEF Tracked
  <2> QED BY <1>1, <1>4, <2>3, <2>6, TrackNext
<1> QED BY <1>3, <1>4

LEMMA TrackStart ==
  ASSUME StartPass, phase' = "replay", pass' < 3, Trace \in TraceFile
  PROVE  Tracking'
<1>1. /\ op' = 1 /\ blocks' = NoBlocks(Trace) /\ ranges' = new_range_set
      /\ Trace' = Trace /\ UNCHANGED opts
  BY DEF StartPass, Abort, Reject, Conclude, Trace
<1>2. Live' = {}
  BY <1>1 DEF Live
<1>3. blocks' \in [Ids(Trace) -> Block] /\ \A id \in Ids(Trace) : blocks'[id].p = NULL
  BY <1>1 DEF NoBlocks, Block, NULL
<1>4. PICK B : B = blocks'
  OBVIOUS
<1>5. Held(B, {}, {})
  BY DEF Held
<1>6. Known(new_range_set, B, {})
  BY <1>5, NewRanges DEF Known
<1>7. Known(ranges, blocks, Live)' <=> Known(new_range_set, B, {})
  BY <1>1, <1>2, <1>4 DEF Known, RangeSet, Held, DBG_NONE
<1> QED BY <1>1, <1>2, <1>3, <1>6, <1>7 DEF Tracking

\* What may leave the driver in eval_mm_valid.
LEMMA ValidSteps ==
  ASSUME [Next]_vars, phase' = "replay", pass' < 3
  PROVE  \/ StartPass \/ UNCHANGED vars
         \/ /\ phase = "replay" /\ pass < 3 /\ op <= Len(Trace.ops)
            /\ \/ Request.type = "a" /\ Malloc
               \/ Request.type = "r" /\ Realloc
               \/ Request.type = "f" /\ Free
<1>1. CASE eval_libc_valid \/ eval_libc_speed \/ eval_mm_speed \/ LateAlarm
  BY <1>1 DEF eval_libc_valid, eval_libc_speed, eval_mm_speed, LateAlarm, Abort
<1>2. CASE LibcTrace \/ LibcReport \/ Benchmark \/ OpenTrace
  BY <1>2 DEF LibcTrace, LibcReport, Benchmark, OpenTrace, Abort
<1>3. CASE eval_mm_valid
  <2>1. ASSUME NEW r PROVE ~ Reject("none", r) /\ ~ Reject("check", r)
    BY RejectEnds
  <2> QED BY <1>3, <2>1 DEF eval_mm_valid, Requested
<1>4. CASE eval_mm_util
  BY <1>4 DEF eval_mm_util, Abort
<1>5. CASE EndPass \/ EndUtil \/ WarmUp \/ Sample \/ EndTiming \/ CloseTrace \/ AllTested
  BY <1>5 DEF EndPass, Conclude, EndUtil, WarmUp, Sample, EndTiming, CloseTrace, AllTested
<1>6. CASE timeout_handler \/ Report
  BY <1>6 DEF timeout_handler, Report
<1> QED BY <1>1, <1>2, <1>3, <1>4, <1>5, <1>6 DEF Next, Ended

LEMMA RangesStep ==
  ASSUME GradeInv, UtilInv, RangesInv, [Next]_vars
  PROVE  RangesInv'
<1> SUFFICES ASSUME phase' = "replay", pass' < 3 PROVE Tracking'
  BY SMTT(30) DEF RangesInv
<1>1. CASE UNCHANGED vars
  <2>1. Tracking
    BY <1>1 DEF RangesInv, vars
  <2> QED BY <1>1, <2>1 DEF Tracking, Known, RangeSet, Held, DBG_NONE, Freed, FreedAt, Live, Trace, vars
<1>2. CASE ~ UNCHANGED vars
  <2>1. i \in 1 .. Files /\ Readable(Trace)
    BY <1>2, ValidSteps DEF GradeInv, Shape, AtTrace, UtilInv, HasRead, StartPass
  <2>2. Trace \in TraceFile /\ Orderly(Trace)
    <3>1. opts.files \in Seq(TraceFile) /\ i \in DOMAIN opts.files /\ opts \in Options
      BY <2>1, DriverAssumption DEF UtilInv, Option, Files
    <3> QED BY <3>1, TraceAssumption DEF Trace
  <2>3. CASE StartPass
    BY <2>2, <2>3, TrackStart
  <2>4. CASE ~ StartPass
    <3>1. /\ phase = "replay" /\ pass < 3 /\ op <= Len(Trace.ops)
          /\ \/ Request.type = "a" /\ Malloc
             \/ Request.type = "r" /\ Realloc
             \/ Request.type = "f" /\ Free
      BY <1>2, <2>4, ValidSteps
    <3>2. Tracking
      BY <3>1 DEF RangesInv
    <3>3. op \in DOMAIN Trace.ops
      <4>1. op \in Nat \ {0} /\ Len(Trace.ops) \in Nat /\ DOMAIN Trace.ops = 1 .. Len(Trace.ops)
        BY <2>2, <3>2 DEF Tracking, TraceFile
      <4> QED BY <3>1, <4>1
    <3>4. Request.type = "a" => Request.size > 0
      <4>1. opts \in Options /\ i \in DOMAIN opts.files
        BY <2>1, DriverAssumption DEF UtilInv, Option, Files
      <4> QED BY <3>3, <4>1, BlockAssumption DEF Request, Trace
    <3>5. AtRequest(Request.index, Request.size)
      BY <2>2, <3>2, <3>3, <3>4, AtRequestIs
    <3> QED BY <3>1, <3>2, <3>5, TrackMalloc, TrackRealloc, TrackFree
  <2> QED BY <2>3, <2>4
<1> QED BY <1>1, <1>2

\* The range set is right (add_range, remove_range, the rotations of stree.c),
\* for every orderly trace, every allocator and however many blocks: the tree
\* is a search tree of just the blocks that are allocated, the links of the
\* list are inverse and ascending and never lead to a record that was freed.
THEOREM DriverRangesExact == Spec => []RangesExact
<1>1. Init => UtilInv /\ RangesInv
  BY DEF Init, UtilInv, HasRead, AtTrace, RangesInv
<1>2. GradeInv /\ UtilInv /\ [Next]_vars => UtilInv'
  BY UtilStep
<1>3. GradeInv /\ UtilInv /\ RangesInv /\ [Next]_vars => RangesInv'
  BY RangesStep
<1>4. RangesInv => RangesExact
  <2> SUFFICES ASSUME RangesInv, phase = "replay", pass < 3 PROVE RangesExact
    BY DEF RangesExact
  <2>1. PICK S : RangeSet(ranges, S) /\ IF DBG_NONE THEN S = {} ELSE Held(blocks, Live, S)
    BY DEF RangesInv, Tracking, Known
  <2>2. ~ DBG_NONE => S = {blocks[id].p : id \in Live}
    BY <2>1 DEF Held
  <2> QED BY <2>1, <2>2, RangeSetExact DEF RangesExact
<1> QED BY <1>1, <1>2, <1>3, <1>4, GradeInit, GradeStep, PTL DEF Spec

=============================================================================
