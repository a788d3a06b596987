-------------------------- MODULE SimulatorProofs --------------------------
(***************************************************************************)
(* Type correctness of the simulator and its schedulers, that simulated    *)
(* time never goes back, and what the schedulers promise, for every set of *)
(* traces, every number of levels and every width of the timestamps: no    *)
(* job is lost or served twice, the server is busy exactly while there is  *)
(* work and wastes none, FCFS, LCFS and SJF keep their order and MLFQ runs *)
(* the highest level.                                                      *)
(***************************************************************************)
EXTENDS Simulator, WellFoundedInduction, NaturalsInduction, FiniteSetTheorems, TLAPS

Time == 0 .. (TimeRange - 1)

SimType == [queue : SUBSET Event, simTime : Time, id : Nat,
            completionEvent : Nat \cup {NoEvent}, failed : BOOLEAN]

\* No event of the simulator lies in its past.
NoPast(s) == \A e \in s.queue : e.time >= s.simTime

\* What every function of simulator.c and scheduler.c preserves.
Sound(s) == s \in SimType /\ NoPast(s)

\* The part of the inductive invariant about the simulator and the trace.
TimeInv ==
  /\ Sound(sim)
  /\ trace \in Traces
  /\ policy \in Policies
  /\ read \in 0 .. Len(trace)
  /\ read \in Jobs \/ sim.queue = {}
  /\ output \in Seq([job : Jobs, time : Time])

\* The part about the schedulers.
SchedInv ==
  /\ jobQueue \in Seq(Jobs)
  /\ running \in Jobs \cup {NoJob}
  /\ queues \in [Levels -> Seq(Jobs)]
  /\ level \in [Jobs -> Levels]
  /\ lastTime \in Time /\ lastTime <= sim.simTime
  /\ rem \in [Jobs -> Time]
  /\ enteredAt \in [Jobs -> Time]

\* s1 is a later state of the simulator s in the same callback.
Follows(s1, s) == Sound(s1) /\ s1.simTime = s.simTime

-----------------------------------------------------------------------------
\* simulatorSchedule keeps the queue free of past events: its assert does.
LEMMA ScheduleFollows ==
  ASSUME NEW s, Sound(s), NEW t \in Time, NEW ty \in {"COMPLETION", "ARRIVAL"}
  PROVE  /\ Follows(simulatorSchedule(s, t, ty), s)
         /\ simulatorSchedule(s, t, ty).completionEvent = s.completionEvent
<1> DEFINE e == [time |-> t, type |-> ty, id |-> s.id]
<1>1. e \in Event /\ e.time = t
  BY DEF Sound, SimType, Event, Time
<1>2. CASE t >= s.simTime
  <2> DEFINE r1 == [s EXCEPT !.queue = @ \cup {e}]
             r  == [r1 EXCEPT !.id = s.id + 1]
  <2>1. simulatorSchedule(s, t, ty) = r
    BY <1>2 DEF simulatorSchedule
  <2>2. /\ r1 \in SimType /\ r1.queue = s.queue \cup {e}
        /\ r1.simTime = s.simTime /\ r1.completionEvent = s.completionEvent
        /\ s.id \in Nat
    <3> HIDE DEF e
    <3> QED BY <1>1 DEF Sound, SimType
  <2>3. /\ r \in SimType /\ r.queue = r1.queue
        /\ r.simTime = r1.simTime /\ r.completionEvent = r1.completionEvent
    <3> HIDE DEF r1
    <3> QED BY <2>2 DEF SimType
  <2> HIDE DEF r, r1, e
  <2> QED BY <1>1, <1>2, <2>1, <2>2, <2>3 DEF Follows, Sound, NoPast
<1>3. CASE ~ (t >= s.simTime)
  BY <1>3 DEF simulatorSchedule, Follows, Sound, SimType, NoPast
<1> QED BY <1>2, <1>3

\* simulatorRemoveEvent only takes events away.
LEMMA RemoveFollows ==
  ASSUME NEW s, Sound(s), NEW i
  PROVE  Follows(simulatorRemoveEvent(s, i), s)
BY DEF simulatorRemoveEvent, Follows, Sound, SimType, NoPast

LEMMA NextCompletionFollows ==
  ASSUME NEW s, Sound(s), NEW t \in Time
  PROVE  Follows(schedulerScheduleNextCompletion(s, t), s)
<1>1. CASE s.completionEvent # NoEvent
  BY <1>1 DEF schedulerScheduleNextCompletion, Follows
<1>2. CASE s.completionEvent = NoEvent
  <2> DEFINE r == simulatorSchedule(s, t, "COMPLETION")
  <2>1. Follows(r, s) BY ScheduleFollows
  <2>2. schedulerScheduleNextCompletion(s, t) = [r EXCEPT !.completionEvent = s.id]
    BY <1>2 DEF schedulerScheduleNextCompletion
  <2>3. s.id \in Nat BY DEF Sound, SimType
  <2> HIDE DEF r
  <2> QED BY <2>1, <2>2, <2>3 DEF Follows, Sound, SimType, NoPast
<1> QED BY <1>1, <1>2

LEMMA CancelFollows ==
  ASSUME NEW s, Sound(s)
  PROVE  Follows(schedulerCancelNextCompletion(s), s)
<1> DEFINE r == simulatorRemoveEvent(s, s.completionEvent)
<1>1. Follows(r, s) BY RemoveFollows
<1>2. schedulerCancelNextCompletion(s) = [r EXCEPT !.completionEvent = NoEvent]
  BY DEF schedulerCancelNextCompletion
<1> HIDE DEF r
<1> QED BY <1>1, <1>2 DEF Follows, Sound, SimType, NoPast

\* uint64_t addition stays in range.
LEMMA PlusInRange ==
  ASSUME NEW a \in Nat, NEW b \in Nat
  PROVE  Plus(a, b) \in Time
BY SimulatorAssumption DEF Plus, Time

\* A line of a trace has times in range.
LEMMA LineInRange ==
  ASSUME NEW tr \in Traces, NEW j \in 1 .. Len(tr)
  PROVE  tr[j].arrival \in Time /\ tr[j].size \in Time
<1> DEFINE Line == [arrival : 0 .. (TimeRange - 1), size : 0 .. (TimeRange - 1)]
<1>1. tr \in Seq(Line)
  BY SimulatorAssumption
<1>2. tr[j] \in Line
  <2> HIDE DEF Line
  <2> QED BY <1>1
<1> QED BY <1>2 DEF Time

LEMMA NextArrivalFollows ==
  ASSUME NEW s, Sound(s), trace \in Traces, read \in 0 .. Len(trace)
  PROVE  Follows(traceScheduleNextArrival(s), s)
<1>1. CASE read < Len(trace)
  <2>1. read + 1 \in 1 .. Len(trace)
    BY <1>1, SimulatorAssumption
  <2>2. trace[read + 1].arrival \in Time
    BY <2>1, LineInRange
  <2> QED BY <1>1, <2>2, ScheduleFollows DEF traceScheduleNextArrival
<1>2. CASE ~ (read < Len(trace))
  BY <1>2 DEF traceScheduleNextArrival, Follows
<1> QED BY <1>1, <1>2

\* The callback of the first event finds no event in the past: all the others
\* come after it.
LEMMA EnteredSound ==
  ASSUME TimeInv, NEW e \in sim.queue, First(e)
  PROVE  /\ Sound(Entered(e)) /\ Entered(e).simTime = e.time
         /\ e.time \in Time /\ e.time >= sim.simTime
         /\ Sound(Forgotten(e)) /\ Forgotten(e).simTime = e.time
<1>1. e \in Event /\ e.time \in Time
  BY DEF TimeInv, Sound, SimType, Event, Time
<1>2. \A f \in sim.queue : f.time >= e.time
  BY <1>1 DEF TimeInv, Sound, SimType, Event, Time, First, simulatorEventCompare
<1>3. Sound(Entered(e)) /\ Entered(e).simTime = e.time
  BY <1>1, <1>2 DEF Entered, TimeInv, Sound, SimType, NoPast
<1>4. Sound(Forgotten(e)) /\ Forgotten(e).simTime = e.time
  BY <1>3 DEF Forgotten, Sound, SimType, NoPast
<1> QED BY <1>1, <1>3, <1>4 DEF TimeInv, Sound, NoPast

-----------------------------------------------------------------------------
\* The simulator after an arrival callback is what the scheduler left, with
\* one more arrival and without the event.
LEMMA ArrivedStep ==
  ASSUME TimeInv, NEW e \in sim.queue, First(e),
         NEW s, Follows(s, Entered(e)), Arrived(s, e)
  PROVE  /\ TimeInv' /\ sim'.simTime >= sim.simTime /\ trace' = trace
         /\ sim'.simTime = e.time
<1>1. Entered(e).simTime = e.time /\ e.time >= sim.simTime /\ e.time \in Time
  BY EnteredSound
<1> DEFINE s1 == traceScheduleNextArrival(s)
<1>2. Follows(s1, s)
  BY NextArrivalFollows DEF Follows, TimeInv
<1>3. Follows(simulatorRemoveEvent(s1, e.id), s1)
  <2> HIDE DEF s1
  <2> QED BY <1>2, RemoveFollows DEF Follows
<1>4. Sound(sim') /\ sim'.simTime = e.time
  BY <1>1, <1>2, <1>3 DEF Follows, Arrived
<1>5. read' \in 1 .. Len(trace)
  <2>1. Len(trace) \in Nat
    BY SimulatorAssumption DEF TimeInv
  <2>2. read \in 1 .. Len(trace)
    BY DEF TimeInv, Jobs
  <2> QED BY <2>1, <2>2 DEF Arrived
<1>6. UNCHANGED <<trace, policy, output>>
  BY DEF Arrived
<1>7. TimeInv'
  BY <1>4, <1>5, <1>6 DEF TimeInv, Sound, NoPast, Jobs
<1> QED BY <1>1, <1>4, <1>6, <1>7

\* The same for a completion callback that returns job j.
LEMMA CompletedStep ==
  ASSUME TimeInv, NEW e \in sim.queue, First(e),
         NEW s, Follows(s, Forgotten(e)),
         NEW j \in Jobs \cup {NoJob}, Completed(s, e, j)
  PROVE  /\ TimeInv' /\ sim'.simTime >= sim.simTime /\ trace' = trace
         /\ sim'.simTime = e.time
<1>1. Forgotten(e).simTime = e.time /\ e.time >= sim.simTime /\ e.time \in Time
  BY EnteredSound
<1>2. Follows(simulatorRemoveEvent(s, e.id), s)
  BY RemoveFollows DEF Follows
<1>3. Sound(sim') /\ sim'.simTime = e.time
  BY <1>1, <1>2 DEF Follows, Completed
<1>4. UNCHANGED <<trace, policy, read>>
  BY DEF Completed
<1>5. output' \in Seq([job : Jobs, time : Time])
  <2>1. CASE j = NoJob
    BY <2>1 DEF Completed, TimeInv
  <2>2. CASE j # NoJob
    <3>1. [job |-> j, time |-> e.time] \in [job : Jobs, time : Time]
      BY <2>2, <1>1
    <3>2. output' = Append(output, [job |-> j, time |-> e.time])
      BY <2>2 DEF Completed
    <3> DEFINE R == [job : Jobs, time : Time]
    <3>3. output \in Seq(R)
      BY DEF TimeInv
    <3> HIDE DEF R
    <3> QED BY <3>1, <3>2, <3>3 DEF R
  <2> QED BY <2>1, <2>2
<1>6. read \in Jobs
  BY DEF TimeInv
<1>7. TimeInv'
  BY <1>3, <1>4, <1>5, <1>6 DEF TimeInv, Sound, NoPast, Jobs
<1> QED BY <1>1, <1>3, <1>4, <1>7

-----------------------------------------------------------------------------
\* A set of numbers that is not empty has a least member.
LEMMA NatMin ==
  ASSUME NEW T \in SUBSET Nat, T # {}
  PROVE  \E x \in T : \A y \in T : x <= y
<1>1. IsWellFoundedOn(OpToRel(<, Nat), Nat)
  BY NatLessThanWellFounded
<1>2. PICK x \in T : \A y \in T : ~ (<<y, x>> \in OpToRel(<, Nat))
  BY <1>1, WFMin
<1>3. \A y \in T : ~ (y < x)
  BY <1>2 DEF OpToRel
<1> QED BY <1>3

\* list_remove returns a list of the same jobs.
LEMMA RemoveSeq ==
  ASSUME NEW S, NEW q \in Seq(S), NEW p
  PROVE  list_remove(q, p) \in Seq(S)
<1>1. CASE p = 0 \/ q = <<>>
  BY <1>1 DEF list_remove
<1>2. CASE p # 0 /\ q # <<>>
  <2>1. Len(q) - 1 \in Nat
    BY <1>2
  <2>2. \A i \in 1 .. (Len(q) - 1) : q[i] \in S /\ q[i + 1] \in S
    BY <2>1
  <2>3. list_remove(q, p) =
          [i \in 1 .. (Len(q) - 1) |-> IF i < p THEN q[i] ELSE q[i + 1]]
    BY <1>2 DEF list_remove
  <2> DEFINE n == Len(q) - 1
  <2>4. list_remove(q, p) \in [1 .. n -> S]
    BY <2>2, <2>3
  <2> HIDE DEF n
  <2> QED BY <2>1, <2>4 DEF n
<1> QED BY <1>1, <1>2

\* The job that SJF chooses is one of the queue, and the least of it.
LEMMA ShortestInQueue ==
  ASSUME trace \in Traces, NEW q \in Seq(Jobs), q # <<>>
  PROVE  /\ Shortest(q) \in Jobs /\ \E i \in DOMAIN q : q[i] = Shortest(q)
         /\ \A i \in DOMAIN q :
              \/ Size(Shortest(q)) < Size(q[i])
              \/ Size(Shortest(q)) = Size(q[i]) /\ Shortest(q) <= q[i]
<1> DEFINE Q == {q[i] : i \in DOMAIN q}
           Sizes == {Size(j) : j \in Q}
<1>1. Q # {} /\ Q \subseteq Jobs /\ Jobs \subseteq Nat
  <2>1. Jobs \subseteq Nat
    BY DEF Jobs
  <2>2. 1 \in DOMAIN q /\ \A i \in DOMAIN q : q[i] \in Jobs
    OBVIOUS
  <2> QED BY <2>1, <2>2
<1>2. \A j \in Jobs : Size(j) \in Nat
  BY LineInRange DEF Jobs, Size, Time
<1>3. Sizes \in SUBSET Nat /\ Sizes # {}
  BY <1>1, <1>2
<1>4. PICK m \in Sizes : \A y \in Sizes : m <= y
  BY <1>3, NatMin
<1> DEFINE Best == {j \in Q : Size(j) = m}
<1>5. Best \in SUBSET Nat /\ Best # {}
  BY <1>1, <1>4
<1>6. PICK b \in Best : \A y \in Best : b <= y
  BY <1>5, NatMin
<1>7. \A i \in DOMAIN q : \/ Size(b) < Size(q[i])
                          \/ Size(b) = Size(q[i]) /\ b <= q[i]
  <2> SUFFICES ASSUME NEW i \in DOMAIN q
               PROVE  \/ Size(b) < Size(q[i])
                      \/ Size(b) = Size(q[i]) /\ b <= q[i]
    OBVIOUS
  <2>1. q[i] \in Q /\ Size(q[i]) \in Sizes /\ Size(q[i]) \in Nat
    BY <1>1, <1>2
  <2>2. Size(b) = m /\ m <= Size(q[i])
    BY <1>4, <2>1
  <2>3. CASE Size(q[i]) = m
    BY <2>1, <2>2, <2>3, <1>6
  <2>4. CASE Size(q[i]) # m
    <3>1. m \in Nat
      BY <1>3, <1>4
    <3>2. m < Size(q[i])
      <4> HIDE DEF Sizes, Q, Best
      <4> QED BY <2>1, <2>2, <2>4, <3>1
    <3> QED BY <2>2, <3>2
  <2> QED BY <2>3, <2>4
<1>8. /\ Shortest(q) \in Q
      /\ \A i \in DOMAIN q :
           \/ Size(Shortest(q)) < Size(q[i])
           \/ Size(Shortest(q)) = Size(q[i]) /\ Shortest(q) <= q[i]
  BY <1>6, <1>7 DEF Shortest
<1> QED BY <1>1, <1>8

\* The highest level that has a job is a level with a job, and those above it
\* are empty.
LEMMA TopHasJob ==
  ASSUME NEW qs \in [Levels -> Seq(Jobs)], ~ Idle(qs)
  PROVE  /\ Top(qs) \in Levels /\ qs[Top(qs)] # <<>>
         /\ \A k \in 0 .. (Top(qs) - 1) : qs[k] = <<>>
<1> DEFINE B == {l \in Levels : qs[l] # <<>>}
<1>1. B \in SUBSET Nat /\ B # {}
  <2>1. B # {}
    BY DEF Idle
  <2>2. Levels \subseteq Nat
    BY DEF Levels
  <2> QED BY <2>1, <2>2
<1>2. PICK m \in B : \A y \in B : m <= y
  BY <1>1, NatMin
<1>3. \A k \in 0 .. (m - 1) : qs[k] = <<>>
  BY <1>1, <1>2, SimulatorAssumption DEF Levels
<1>4. m \in Levels /\ qs[m] # <<>> /\ \A k \in 0 .. (m - 1) : qs[k] = <<>>
  BY <1>2, <1>3
<1> QED BY <1>4 DEF Top

\* schedule_next keeps the types of what it changes ...
LEMMA ScheduleNextTyped ==
  ASSUME NEW qs \in [Levels -> Seq(Jobs)], NEW now \in Time,
         schedule_next(qs, now)
  PROVE  /\ running' \in Jobs \cup {NoJob}
         /\ queues' \in [Levels -> Seq(Jobs)]
         /\ lastTime' \in {lastTime, now}
<1>1. CASE Idle(qs)
  BY <1>1 DEF schedule_next
<1>2. CASE ~ Idle(qs)
  <2>1. Top(qs) \in Levels /\ qs[Top(qs)] # <<>>
    BY <1>2, TopHasJob
  <2>2. qs[Top(qs)] \in Seq(Jobs)
    BY <2>1
  <2>3. Head(qs[Top(qs)]) \in Jobs /\ Tail(qs[Top(qs)]) \in Seq(Jobs)
    BY <2>1, <2>2
  <2>4. /\ running' = Head(qs[Top(qs)]) /\ lastTime' = now
        /\ queues' = [qs EXCEPT ![Top(qs)] = Tail(qs[Top(qs)])]
    BY <1>2 DEF schedule_next
  <2> QED BY <2>1, <2>3, <2>4
<1> QED BY <1>1, <1>2

\* ... and leaves the simulator sound.
LEMMA NextSliceFollows ==
  ASSUME NEW s, Sound(s), NEW qs \in [Levels -> Seq(Jobs)],
         NEW left \in [Jobs -> Time], NEW now \in Time
  PROVE  Follows(NextSlice(s, qs, left, now), s)
<1>1. CASE Idle(qs)
  BY <1>1 DEF NextSlice, Follows
<1>2. CASE ~ Idle(qs)
  <2> DEFINE next == Head(qs[Top(qs)])
             run  == IF left[next] < 1 THEN left[next] ELSE 1
  <2>1. Top(qs) \in Levels /\ qs[Top(qs)] # <<>>
    BY <1>2, TopHasJob
  <2>2. qs[Top(qs)] \in Seq(Jobs)
    BY <2>1
  <2>3. next \in Jobs
    BY <2>1, <2>2
  <2>4. run \in Nat /\ now \in Nat
    BY <2>3 DEF Time
  <2>5. NextSlice(s, qs, left, now) =
          schedulerScheduleNextCompletion(s, Plus(now, run))
    BY <1>2 DEF NextSlice
  <2> HIDE DEF run
  <2>6. Plus(now, run) \in Time
    BY <2>4, PlusInRange
  <2> QED BY <2>5, <2>6, NextCompletionFollows
<1> QED BY <1>1, <1>2

\* An appended queue is a queue.
LEMMA AppendedQueue ==
  ASSUME NEW qs \in [Levels -> Seq(Jobs)], NEW l \in Levels, NEW j \in Jobs
  PROVE  [qs EXCEPT ![l] = Append(@, j)] \in [Levels -> Seq(Jobs)]
<1>1. Append(qs[l], j) \in Seq(Jobs)
  OBVIOUS
<1> QED BY <1>1

\* Levels are numbers from 0, and the next lower one is a level.
LEMMA LowerIsLevel ==
  0 \in Levels /\ \A l \in Levels : Lower(l) \in Levels
BY SimulatorAssumption DEF Levels, Lower

\* A slice never begins in the future.
LEMMA SliceKept ==
  ASSUME TimeInv, SchedInv, TimeInv', sim'.simTime >= sim.simTime,
         lastTime' \in {lastTime, sim'.simTime}
  PROVE  lastTime' \in Time /\ lastTime' <= sim'.simTime
<1>1. /\ sim.simTime \in Time /\ sim'.simTime \in Time
      /\ lastTime \in Time /\ lastTime <= sim.simTime
  BY DEF TimeInv, SchedInv, Sound, SimType
<1> QED BY <1>1 DEF Time

\* What a step of a callback preserves.
Preserved == TimeInv' /\ SchedInv' /\ sim'.simTime >= sim.simTime

-----------------------------------------------------------------------------
(* The handlers of the policies.                                           *)

LEMMA ArrivalFacts ==
  ASSUME TimeInv, NEW e \in sim.queue, First(e)
  PROVE  /\ read \in Jobs /\ Size(read) \in Time
         /\ Follows(Entered(e), Entered(e)) /\ Follows(Forgotten(e), Forgotten(e))
         /\ e.time \in Time /\ e.time \in Nat
         /\ \A b \in Time :
              /\ Follows(schedulerScheduleNextCompletion(Entered(e), Plus(e.time, b)),
                         Entered(e))
              /\ Follows(schedulerScheduleNextCompletion(Forgotten(e), Plus(e.time, b)),
                         Forgotten(e))
<1>1. read \in Jobs
  BY DEF TimeInv
<1>2. Size(read) \in Time
  BY <1>1, LineInRange DEF TimeInv, Jobs, Size
<1>3. Sound(Entered(e)) /\ Sound(Forgotten(e)) /\ e.time \in Time
  BY EnteredSound
<1>4. Time \subseteq Nat
  BY DEF Time
<1>5. \A b \in Time : Plus(e.time, b) \in Time
  BY <1>3, <1>4, PlusInRange
<1>6. \A b \in Time :
        /\ Follows(schedulerScheduleNextCompletion(Entered(e), Plus(e.time, b)),
                   Entered(e))
        /\ Follows(schedulerScheduleNextCompletion(Forgotten(e), Plus(e.time, b)),
                   Forgotten(e))
  BY <1>3, <1>5, NextCompletionFollows
<1> QED BY <1>1, <1>2, <1>3, <1>4, <1>6 DEF Follows

LEMMA FCFSSchedule ==
  ASSUME TimeInv, SchedInv, NEW e \in sim.queue, First(e),
         schedulerFCFSScheduleJob(e)
  PROVE  Preserved
<1> DEFINE s == IF jobQueue = <<>>
                THEN schedulerScheduleNextCompletion(Entered(e),
                                                     Plus(e.time, Size(read)))
                ELSE Entered(e)
<1>1. read \in Jobs /\ Follows(s, Entered(e))
  BY ArrivalFacts
<1>2. Arrived(s, e) /\ jobQueue' = <<read>> \o jobQueue
  BY DEF schedulerFCFSScheduleJob, list_insert
<1>3. TimeInv' /\ sim'.simTime >= sim.simTime /\ trace' = trace
  <2> HIDE DEF s
  <2> QED BY <1>1, <1>2, ArrivedStep
<1>4. jobQueue' \in Seq(Jobs)
  BY <1>1, <1>2 DEF SchedInv
<1>5. UNCHANGED <<running, queues, level, lastTime, rem, enteredAt>>
  BY DEF schedulerFCFSScheduleJob
<1> QED BY <1>3, <1>4, <1>5, SliceKept DEF Preserved, SchedInv, Jobs

LEMMA FCFSComplete ==
  ASSUME TimeInv, SchedInv, NEW e \in sim.queue, First(e),
         schedulerFCFSCompleteJob(e)
  PROVE  Preserved
<1> DEFINE n == Len(jobQueue)
           s == IF n > 1
                THEN schedulerScheduleNextCompletion(
                       Forgotten(e), Plus(e.time, rem[jobQueue[n - 1]]))
                ELSE Forgotten(e)
<1>1. UNCHANGED <<running, queues, level, lastTime, rem, enteredAt>>
  BY DEF schedulerFCFSCompleteJob
<1>2. CASE n = 0
  <2>1. Completed(Forgotten(e), e, NoJob) /\ jobQueue' = jobQueue
    BY <1>2 DEF schedulerFCFSCompleteJob
  <2>2. TimeInv' /\ sim'.simTime >= sim.simTime /\ trace' = trace
    BY <2>1, ArrivalFacts, CompletedStep
  <2> QED BY <1>1, <2>1, <2>2, SliceKept DEF Preserved, SchedInv, Jobs
<1>3. CASE n # 0
  <2>1. n \in Nat /\ jobQueue \in Seq(Jobs)
    BY DEF SchedInv
  <2>2. jobQueue[n] \in Jobs /\ (n > 1 => jobQueue[n - 1] \in Jobs)
    BY <1>3, <2>1
  <2>3. Follows(s, Forgotten(e))
    <3>1. CASE n > 1
      <4>1. rem[jobQueue[n - 1]] \in Time
        BY <2>2, <3>1 DEF SchedInv
      <4> QED BY <3>1, <4>1, ArrivalFacts
    <3>2. CASE ~ (n > 1)
      BY <3>2, ArrivalFacts
    <3> QED BY <3>1, <3>2
  <2>4. Completed(s, e, jobQueue[n]) /\ jobQueue' = list_remove(jobQueue, n)
    BY <1>3 DEF schedulerFCFSCompleteJob
  <2>5. TimeInv' /\ sim'.simTime >= sim.simTime /\ trace' = trace
    <3> HIDE DEF s
    <3> QED BY <2>2, <2>3, <2>4, CompletedStep
  <2>6. jobQueue' \in Seq(Jobs)
    BY <2>1, <2>4, RemoveSeq
  <2> QED BY <1>1, <2>5, <2>6, SliceKept DEF Preserved, SchedInv, Jobs
<1> QED BY <1>2, <1>3

LEMMA LCFSSchedule ==
  ASSUME TimeInv, SchedInv, NEW e \in sim.queue, First(e),
         schedulerLCFSScheduleJob(e)
  PROVE  Preserved
<1> DEFINE s == IF jobQueue = <<>>
                THEN schedulerScheduleNextCompletion(Entered(e),
                                                     Plus(e.time, Size(read)))
                ELSE Entered(e)
<1>1. read \in Jobs /\ Follows(s, Entered(e))
  BY ArrivalFacts
<1>2. Arrived(s, e) /\ jobQueue' = <<read>> \o jobQueue
  BY DEF schedulerLCFSScheduleJob, list_insert
<1>3. TimeInv' /\ sim'.simTime >= sim.simTime /\ trace' = trace
  <2> HIDE DEF s
  <2> QED BY <1>1, <1>2, ArrivedStep
<1>4. jobQueue' \in Seq(Jobs)
  BY <1>1, <1>2 DEF SchedInv
<1>5. running' \in Jobs \cup {NoJob}
  BY <1>1 DEF schedulerLCFSScheduleJob, SchedInv
<1>6. UNCHANGED <<queues, level, lastTime, rem, enteredAt>>
  BY DEF schedulerLCFSScheduleJob
<1> QED BY <1>3, <1>4, <1>5, <1>6, SliceKept DEF Preserved, SchedInv, Jobs

\* A queue after the running job has left it, and its first job.
LEMMA LeftQueue ==
  ASSUME TimeInv, SchedInv,
         NEW q, q = list_remove(jobQueue, list_find(jobQueue, running))
  PROVE  /\ q \in Seq(Jobs)
         /\ q # <<>> => /\ Head(q) \in Jobs /\ Size(Head(q)) \in Time
                        /\ Shortest(q) \in Jobs /\ Size(Shortest(q)) \in Time
<1>1. q \in Seq(Jobs)
  BY RemoveSeq DEF SchedInv
<1>2. \A j \in Jobs : Size(j) \in Time
  BY LineInRange DEF TimeInv, Jobs, Size
<1>3. q # <<>> => Head(q) \in Jobs
  BY <1>1
<1>4. q # <<>> => Shortest(q) \in Jobs
  BY <1>1, ShortestInQueue DEF TimeInv
<1> QED BY <1>1, <1>2, <1>3, <1>4

LEMMA LCFSComplete ==
  ASSUME TimeInv, SchedInv, NEW e \in sim.queue, First(e),
         schedulerLCFSCompleteJob(e)
  PROVE  Preserved
<1>1. UNCHANGED <<queues, level, lastTime, rem, enteredAt>>
  BY DEF schedulerLCFSCompleteJob
<1>2. CASE running = NoJob
  <2>1. Completed(Forgotten(e), e, NoJob) /\ UNCHANGED <<jobQueue, running>>
    BY <1>2 DEF schedulerLCFSCompleteJob
  <2>2. TimeInv' /\ sim'.simTime >= sim.simTime /\ trace' = trace
    BY <2>1, ArrivalFacts, CompletedStep
  <2> QED BY <1>1, <2>1, <2>2, SliceKept DEF Preserved, SchedInv, Jobs
<1>3. CASE running # NoJob
  <2> DEFINE q == list_remove(jobQueue, list_find(jobQueue, running))
             s == IF q = <<>> THEN Forgotten(e)
                  ELSE schedulerScheduleNextCompletion(
                         Forgotten(e), Plus(e.time, Size(Head(q))))
  <2>1. /\ Completed(s, e, running) /\ jobQueue' = q
        /\ running' = IF q = <<>> THEN NoJob ELSE Head(q)
    BY <1>3 DEF schedulerLCFSCompleteJob
  <2>2. q \in Seq(Jobs) /\ (q # <<>> => Head(q) \in Jobs /\ Size(Head(q)) \in Time)
    BY LeftQueue
  <2> HIDE DEF q
  <2>3. Follows(s, Forgotten(e))
    BY <2>2, ArrivalFacts
  <2>4. running \in Jobs \cup {NoJob}
    BY DEF SchedInv
  <2> HIDE DEF s
  <2>5. TimeInv' /\ sim'.simTime >= sim.simTime /\ trace' = trace
    BY <2>1, <2>3, <2>4, CompletedStep
  <2> QED BY <1>1, <2>1, <2>2, <2>5, SliceKept DEF Preserved, SchedInv, Jobs
<1> QED BY <1>2, <1>3

LEMMA SJFSchedule ==
  ASSUME TimeInv, SchedInv, NEW e \in sim.queue, First(e),
         schedulerSJFScheduleJob(e)
  PROVE  Preserved
<1> DEFINE s == IF running = NoJob
                THEN schedulerScheduleNextCompletion(Entered(e),
                                                     Plus(e.time, Size(read)))
                ELSE Entered(e)
<1>1. read \in Jobs /\ Follows(s, Entered(e))
  BY ArrivalFacts
<1>2. Arrived(s, e) /\ jobQueue' = <<read>> \o jobQueue
  BY DEF schedulerSJFScheduleJob, list_insert
<1>3. TimeInv' /\ sim'.simTime >= sim.simTime /\ trace' = trace
  <2> HIDE DEF s
  <2> QED BY <1>1, <1>2, ArrivedStep
<1>4. jobQueue' \in Seq(Jobs)
  BY <1>1, <1>2 DEF SchedInv
<1>5. running' \in Jobs \cup {NoJob}
  BY <1>1 DEF schedulerSJFScheduleJob, SchedInv
<1>6. UNCHANGED <<queues, level, lastTime, rem, enteredAt>>
  BY DEF schedulerSJFScheduleJob
<1> QED BY <1>3, <1>4, <1>5, <1>6, SliceKept DEF Preserved, SchedInv, Jobs

LEMMA SJFComplete ==
  ASSUME TimeInv, SchedInv, NEW e \in sim.queue, First(e),
         schedulerSJFCompleteJob(e)
  PROVE  Preserved
<1> DEFINE q == list_remove(jobQueue, list_find(jobQueue, running))
           s == IF q = <<>> THEN Forgotten(e)
                ELSE schedulerScheduleNextCompletion(
                       Forgotten(e), Plus(e.time, Size(Shortest(q))))
<1>1. /\ Completed(s, e, running) /\ jobQueue' = q
      /\ running' = IF q = <<>> THEN NoJob ELSE Shortest(q)
      /\ UNCHANGED <<queues, level, lastTime, rem, enteredAt>>
  BY DEF schedulerSJFCompleteJob
<1>2. /\ q \in Seq(Jobs)
      /\ q # <<>> => Shortest(q) \in Jobs /\ Size(Shortest(q)) \in Time
  BY LeftQueue
<1> HIDE DEF q
<1>3. Follows(s, Forgotten(e))
  BY <1>2, ArrivalFacts
<1>4. running \in Jobs \cup {NoJob}
  BY DEF SchedInv
<1> HIDE DEF s
<1>5. TimeInv' /\ sim'.simTime >= sim.simTime /\ trace' = trace
  BY <1>1, <1>3, <1>4, CompletedStep
<1> QED BY <1>1, <1>2, <1>5, SliceKept DEF Preserved, SchedInv, Jobs

LEMMA MLFQSchedule ==
  ASSUME TimeInv, SchedInv, NEW e \in sim.queue, First(e),
         schedulerMLFQScheduleJob(e)
  PROVE  Preserved
<1> DEFINE qs == [queues EXCEPT ![0] = Append(@, read)]
<1>1. read \in Jobs /\ e.time \in Time /\ Sound(Entered(e))
  BY ArrivalFacts, EnteredSound
<1>2. qs \in [Levels -> Seq(Jobs)]
  BY <1>1, AppendedQueue, LowerIsLevel DEF SchedInv
<1>3. [enteredAt EXCEPT ![read] = e.time] \in [Jobs -> Time]
  BY <1>1 DEF SchedInv
<1>4. jobQueue' = jobQueue
  BY DEF schedulerMLFQScheduleJob
<1>5. CASE running = NoJob
  <2> DEFINE s == NextSlice(Entered(e), qs, rem, e.time)
  <2>1. /\ schedule_next(qs, e.time) /\ Arrived(s, e) /\ UNCHANGED <<rem, level>>
        /\ enteredAt' = [enteredAt EXCEPT ![read] = e.time]
    BY <1>5 DEF schedulerMLFQScheduleJob
  <2> HIDE DEF qs
  <2>2. Follows(s, Entered(e))
    BY <1>1, <1>2, NextSliceFollows DEF SchedInv
  <2>3. /\ TimeInv' /\ sim'.simTime >= sim.simTime /\ trace' = trace
        /\ sim'.simTime = e.time
    <3> HIDE DEF s
    <3> QED BY <2>1, <2>2, ArrivedStep
  <2>4. /\ running' \in Jobs \cup {NoJob} /\ queues' \in [Levels -> Seq(Jobs)]
        /\ lastTime' \in {lastTime, e.time}
    BY <1>1, <1>2, <2>1, ScheduleNextTyped DEF SchedInv
  <2> QED BY <1>3, <1>4, <2>1, <2>3, <2>4, SliceKept DEF Preserved, SchedInv, Jobs
<1>6. CASE running # NoJob /\ level[running] = 0
  <2>1. /\ Arrived(Entered(e), e) /\ queues' = qs
        /\ enteredAt' = [enteredAt EXCEPT ![read] = e.time]
        /\ UNCHANGED <<running, lastTime, rem, level>>
    BY <1>6 DEF schedulerMLFQScheduleJob
  <2>2. /\ TimeInv' /\ sim'.simTime >= sim.simTime /\ trace' = trace
        /\ sim'.simTime = e.time
    BY <2>1, ArrivalFacts, ArrivedStep
  <2> HIDE DEF qs
  <2> QED BY <1>2, <1>3, <1>4, <2>1, <2>2, SliceKept DEF Preserved, SchedInv, Jobs
<1>7. CASE running # NoJob /\ level[running] > 0
  <2> DEFINE ran  == IF e.time - lastTime > rem[running] THEN rem[running]
                                                         ELSE e.time - lastTime
             lvl  == IF ran > 0 THEN Lower(level[running]) ELSE level[running]
             left == [rem EXCEPT ![running] = @ - ran]
             qs1  == [qs EXCEPT ![lvl] = Append(@, running)]
             s0   == schedulerCancelNextCompletion(Entered(e))
             s    == NextSlice(s0, qs1, left, e.time)
  <2>1. Preempt(e, qs)
    BY <1>7, SimulatorAssumption DEF schedulerMLFQScheduleJob, SchedInv, Levels
  <2>2. /\ rem' = left /\ level' = [level EXCEPT ![running] = lvl]
        /\ enteredAt' = [j \in Jobs |-> IF j = read \/ (j = running /\ ran > 0)
                                        THEN e.time ELSE enteredAt[j]]
        /\ schedule_next(qs1, e.time) /\ Arrived(s, e)
    BY <2>1 DEF Preempt
  <2>3. running \in Jobs
    BY <1>7 DEF SchedInv
  <2>4. lvl \in Levels
    BY <2>3, LowerIsLevel DEF SchedInv
  <2> HIDE DEF qs
  <2>5. qs1 \in [Levels -> Seq(Jobs)]
    <3> HIDE DEF lvl
    <3> QED BY <1>2, <2>3, <2>4, AppendedQueue
  <2>6. ran \in Nat /\ ran <= rem[running] /\ rem[running] \in Time
    <3>1. sim.simTime \in Time /\ lastTime \in Time /\ lastTime <= sim.simTime
      BY DEF TimeInv, SchedInv, Sound, SimType
    <3>2. e.time >= lastTime
      BY <1>1, <3>1, EnteredSound DEF Time
    <3>3. rem[running] \in Time
      BY <2>3 DEF SchedInv
    <3> QED BY <1>1, <3>1, <3>2, <3>3 DEF Time
  <2>7. left \in [Jobs -> Time]
    <3>1. rem[running] - ran \in Time
      <4> HIDE DEF ran
      <4>1. TimeRange \in Int /\ rem[running] \in Int /\ rem[running] < TimeRange
        BY <2>6, SimulatorAssumption DEF Time
      <4>2. rem[running] - ran \in Int /\ 0 <= rem[running] - ran
            /\ rem[running] - ran <= TimeRange - 1
        BY <2>6, <4>1
      <4> QED BY <4>1, <4>2 DEF Time
    <3> QED BY <2>3, <3>1 DEF SchedInv
  <2>8. Sound(s0) /\ s0.simTime = Entered(e).simTime
    BY <1>1, CancelFollows DEF Follows
  <2> HIDE DEF ran, lvl, left, qs1, s0
  <2>9. Follows(s, Entered(e))
    <3>1. Follows(s, s0)
      BY <1>1, <2>5, <2>7, <2>8, NextSliceFollows
    <3> QED BY <2>8, <3>1 DEF Follows
  <2> HIDE DEF s
  <2>10. /\ TimeInv' /\ sim'.simTime >= sim.simTime /\ trace' = trace
         /\ sim'.simTime = e.time
    BY <2>2, <2>9, ArrivedStep
  <2>11. /\ running' \in Jobs \cup {NoJob} /\ queues' \in [Levels -> Seq(Jobs)]
         /\ lastTime' \in {lastTime, e.time}
    BY <1>1, <2>2, <2>5, ScheduleNextTyped
  <2>12. level' \in [Jobs -> Levels]
    BY <2>2, <2>3, <2>4 DEF SchedInv
  <2>13. enteredAt' \in [Jobs -> Time]
    BY <1>1, <2>2 DEF SchedInv
  <2> QED BY <1>4, <2>2, <2>7, <2>10, <2>11, <2>12, <2>13, SliceKept
          DEF Preserved, SchedInv, Jobs
<1>8. running # NoJob => level[running] = 0 \/ level[running] > 0
  BY SimulatorAssumption DEF SchedInv, Levels
<1> QED BY <1>5, <1>6, <1>7, <1>8

LEMMA MLFQComplete ==
  ASSUME TimeInv, SchedInv, NEW e \in sim.queue, First(e),
         schedulerMLFQCompleteJob(e)
  PROVE  Preserved
<1>1. e.time \in Time /\ Sound(Forgotten(e))
  BY EnteredSound
<1>2. jobQueue' = jobQueue
  BY DEF schedulerMLFQCompleteJob
<1>3. CASE running = NoJob
  <2> DEFINE s == NextSlice(Forgotten(e), queues, rem, e.time)
  <2>1. /\ schedule_next(queues, e.time) /\ Completed(s, e, NoJob)
        /\ UNCHANGED <<rem, level, enteredAt>>
    BY <1>3 DEF schedulerMLFQCompleteJob
  <2>2. Follows(s, Forgotten(e))
    BY <1>1, NextSliceFollows DEF SchedInv
  <2> HIDE DEF s
  <2>3. /\ TimeInv' /\ sim'.simTime >= sim.simTime /\ trace' = trace
        /\ sim'.simTime = e.time
    BY <2>1, <2>2, CompletedStep
  <2>4. /\ running' \in Jobs \cup {NoJob} /\ queues' \in [Levels -> Seq(Jobs)]
        /\ lastTime' \in {lastTime, e.time}
    BY <1>1, <2>1, ScheduleNextTyped DEF SchedInv
  <2> QED BY <1>2, <2>1, <2>3, <2>4, SliceKept DEF Preserved, SchedInv, Jobs
<1>4. CASE running # NoJob
  <2> DEFINE job  == running
             over == rem[job] > 1
             lvl  == IF over THEN Lower(level[job]) ELSE level[job]
             left == [rem EXCEPT ![job] = IF over THEN @ - 1 ELSE 0]
             qs   == IF over THEN [queues EXCEPT ![lvl] = Append(@, job)] ELSE queues
             s    == NextSlice(Forgotten(e), qs, left, e.time)
             done == IF over THEN NoJob ELSE job
  <2>1. /\ rem' = left /\ level' = [level EXCEPT ![job] = lvl]
        /\ enteredAt' = [enteredAt EXCEPT ![job] = IF over THEN e.time ELSE @]
        /\ schedule_next(qs, e.time) /\ Completed(s, e, done)
    BY <1>4 DEF schedulerMLFQCompleteJob
  <2>2. job \in Jobs /\ done \in Jobs \cup {NoJob}
    BY <1>4 DEF SchedInv
  <2>3. lvl \in Levels
    BY <2>2, LowerIsLevel DEF SchedInv
  <2>4. left \in [Jobs -> Time]
    <3>1. rem[job] \in Time
      BY <2>2 DEF SchedInv
    <3>2. (IF over THEN rem[job] - 1 ELSE 0) \in Time
      <4> DEFINE r == rem[job]
      <4> HIDE DEF r
      <4>1. r \in Time /\ TimeRange \in Nat \ {0}
        BY <3>1, SimulatorAssumption DEF r
      <4>2. (IF r > 1 THEN r - 1 ELSE 0) \in Time
        BY <4>1 DEF Time
      <4> QED BY <4>2 DEF r
    <3> QED BY <2>2, <3>2 DEF SchedInv
  <2>5. qs \in [Levels -> Seq(Jobs)]
    <3> HIDE DEF lvl
    <3> QED BY <2>2, <2>3, AppendedQueue DEF SchedInv
  <2>6. level' \in [Jobs -> Levels] /\ enteredAt' \in [Jobs -> Time]
    BY <1>1, <2>1, <2>2, <2>3 DEF SchedInv
  <2> HIDE DEF qs, left, lvl, done
  <2>7. Follows(s, Forgotten(e))
    BY <1>1, <2>4, <2>5, NextSliceFollows
  <2> HIDE DEF s
  <2>8. /\ TimeInv' /\ sim'.simTime >= sim.simTime /\ trace' = trace
        /\ sim'.simTime = e.time
    BY <2>1, <2>2, <2>7, CompletedStep
  <2>9. /\ running' \in Jobs \cup {NoJob} /\ queues' \in [Levels -> Seq(Jobs)]
        /\ lastTime' \in {lastTime, e.time}
    BY <1>1, <2>1, <2>5, ScheduleNextTyped
  <2> QED BY <1>2, <2>1, <2>4, <2>6, <2>8, <2>9, SliceKept
          DEF Preserved, SchedInv, Jobs
<1> QED BY <1>3, <1>4

-----------------------------------------------------------------------------
LEMMA InitInv == Init => TimeInv /\ SchedInv
<1> SUFFICES ASSUME Init PROVE TimeInv /\ SchedInv
  OBVIOUS
<1> DEFINE s == [queue |-> {}, simTime |-> 0, id |-> 0,
                 completionEvent |-> NoEvent, failed |-> FALSE]
<1>1. trace \in Traces /\ policy \in Policies /\ 0 \in Time /\ Len(trace) \in Nat
  BY SimulatorAssumption DEF Init, Time
<1>2. Sound(s) /\ s.simTime = 0
  BY <1>1 DEF Sound, SimType, NoPast
<1>3. sim = IF trace = <<>> THEN s
            ELSE simulatorSchedule(s, trace[1].arrival, "ARRIVAL")
  BY DEF Init
<1>4. Sound(sim) /\ sim.simTime = 0 /\ (trace = <<>> => sim.queue = {})
  <2>1. CASE trace = <<>>
    BY <1>2, <1>3, <2>1
  <2>2. CASE trace # <<>>
    <3>1. trace[1].arrival \in Time
      <4>1. 1 \in 1 .. Len(trace)
        BY <1>1, <2>2, SimulatorAssumption
      <4> QED BY <1>1, <4>1, LineInRange
    <3> HIDE DEF s
    <3> QED BY <1>2, <1>3, <2>2, <3>1, ScheduleFollows DEF Follows
  <2> QED BY <2>1, <2>2
<1>5. /\ read \in 0 .. Len(trace)
      /\ read \in Jobs \/ sim.queue = {}
      /\ output \in Seq([job : Jobs, time : Time])
  BY <1>1, <1>4, SimulatorAssumption DEF Init, Jobs
<1>6. rem \in [Jobs -> Time]
  BY <1>1, LineInRange DEF Init, Jobs
<1>7. SchedInv
  <2>1. 0 \in Levels
    BY SimulatorAssumption DEF Levels
  <2>2. jobQueue \in Seq(Jobs) /\ running \in Jobs \cup {NoJob}
    BY DEF Init
  <2>3. queues \in [Levels -> Seq(Jobs)]
    BY DEF Init
  <2>4. level \in [Jobs -> Levels] /\ enteredAt \in [Jobs -> Time]
    BY <1>1, <2>1 DEF Init
  <2>5. lastTime \in Time /\ lastTime <= sim.simTime
    BY <1>1, <1>4 DEF Init
  <2> QED BY <1>6, <2>2, <2>3, <2>4, <2>5 DEF SchedInv
<1> QED BY <1>1, <1>4, <1>5, <1>7 DEF TimeInv

\* A callback preserves the invariant and does not turn time back.
LEMMA NextPreserves ==
  ASSUME TimeInv, SchedInv, Next
  PROVE  Preserved
<1>1. CASE Arrival
  BY <1>1, FCFSSchedule, LCFSSchedule, SJFSchedule, MLFQSchedule DEF Arrival
<1>2. CASE Completion
  BY <1>2, FCFSComplete, LCFSComplete, SJFComplete, MLFQComplete DEF Completion
<1> QED BY <1>1, <1>2 DEF Next

LEMMA SimulatorInvariant == Spec => [](TimeInv /\ SchedInv)
<1>1. (TimeInv /\ SchedInv) /\ [Next]_vars => (TimeInv /\ SchedInv)'
  <2> SUFFICES ASSUME TimeInv, SchedInv, [Next]_vars
               PROVE  (TimeInv /\ SchedInv)'
    OBVIOUS
  <2>1. CASE Next
    BY <2>1, NextPreserves DEF Preserved
  <2>2. CASE UNCHANGED vars
    BY <2>2 DEF vars, TimeInv, SchedInv, Sound, NoPast, Jobs
  <2> QED BY <2>1, <2>2
<1> QED BY <1>1, InitInv, PTL DEF Spec

\* Type correctness of the simulator and of the four policies: event times,
\* levels and remaining times stay in range and every queue holds jobs of the
\* trace, for all traces, any number of levels and any width of timestamps.
THEOREM SimulatorTypeCorrect == Spec => []TypeOK
<1>1. TimeInv /\ SchedInv => TypeOK
  BY DEF TimeInv, SchedInv, Sound, SimType, TypeOK, Time
<1> QED BY <1>1, SimulatorInvariant, PTL

\* Simulated time never goes back: the assert of simulatorSchedule together
\* with the order of the event queue is enough, even where the sums of times
\* wrap around.
THEOREM SimulatorTimeMonotone == Spec => TimeMonotone
<1>1. TimeInv /\ SchedInv /\ [Next]_vars => [sim'.simTime >= sim.simTime]_vars
  BY NextPreserves DEF Preserved
<1> QED BY <1>1, SimulatorInvariant, PTL DEF Spec, TimeMonotone

-----------------------------------------------------------------------------
(* Lists of jobs.  list_insert puts the newest job, which has the largest  *)
(* number, at the head: the list falls, whatever is removed from it.       *)

Falling(q) == \A i, k \in DOMAIN q : i < k => q[i] > q[k]

Members(q) == {q[i] : i \in DOMAIN q}

NoDup(q) == \A i, k \in DOMAIN q : q[i] = q[k] => i = k

LEMMA FallingNoDup ==
  ASSUME NEW q \in Seq(Nat), Falling(q)
  PROVE  NoDup(q)
<1>1. \A i \in DOMAIN q : i \in Nat /\ q[i] \in Nat
  OBVIOUS
<1>2. \A i, k \in Nat : i # k => i < k \/ k < i
  OBVIOUS
<1> QED BY <1>1, <1>2 DEF Falling, NoDup

LEMMA InsertFalling ==
  ASSUME NEW q \in Seq(Nat), Falling(q), NEW j \in Nat, \A i \in DOMAIN q : q[i] < j
  PROVE  /\ list_insert(q, j) \in Seq(Nat) /\ Falling(list_insert(q, j))
         /\ Members(list_insert(q, j)) = Members(q) \cup {j}
         /\ list_insert(q, j) # <<>>
<1> DEFINE r == <<j>> \o q
<1>1. r \in Seq(Nat) /\ Len(r) = Len(q) + 1 /\ DOMAIN r = 1 .. (Len(q) + 1)
      /\ DOMAIN q = 1 .. Len(q) /\ Len(q) \in Nat
  OBVIOUS
<1>2. r[1] = j /\ \A i \in 1 .. Len(q) : r[i + 1] = q[i]
  OBVIOUS
<1>3. \A i \in DOMAIN r : i = 1 \/ (i - 1 \in DOMAIN q /\ r[i] = q[i - 1])
  BY <1>1, <1>2
<1>4. \A i \in DOMAIN q : i + 1 \in DOMAIN r
  BY <1>1
<1> HIDE DEF r
<1>5. Falling(r)
  <2> SUFFICES ASSUME NEW i \in DOMAIN r, NEW k \in DOMAIN r, i < k PROVE r[i] > r[k]
    BY DEF Falling
  <2>1. k - 1 \in DOMAIN q /\ r[k] = q[k - 1]
    BY <1>1, <1>3
  <2>2. q[k - 1] \in Nat
    BY <2>1
  <2>3. CASE i = 1
    BY <1>2, <2>1, <2>2, <2>3
  <2>4. CASE i # 1
    <3>1. i - 1 \in DOMAIN q /\ r[i] = q[i - 1] /\ i - 1 < k - 1
      BY <1>1, <1>3, <2>4
    <3> QED BY <2>1, <3>1 DEF Falling
  <2> QED BY <2>3, <2>4
<1>6. Members(r) = Members(q) \cup {j}
  <2>1. 1 \in DOMAIN r
    BY <1>1
  <2>2. \A i \in DOMAIN r : r[i] \in Members(q) \cup {j}
    BY <1>2, <1>3 DEF Members
  <2>3. \A i \in DOMAIN q : q[i] \in Members(r)
    BY <1>1, <1>2, <1>4 DEF Members
  <2>4. j \in Members(r)
    BY <1>2, <2>1 DEF Members
  <2> QED BY <2>2, <2>3, <2>4 DEF Members
<1>7. r # <<>>
  BY <1>1
<1>8. list_insert(q, j) = r
  BY DEF list_insert, r
<1> QED BY <1>1, <1>5, <1>6, <1>7, <1>8

LEMMA FindInList ==
  ASSUME NEW q \in Seq(Nat), Falling(q), NEW j \in Members(q)
  PROVE  list_find(q, j) \in DOMAIN q /\ q[list_find(q, j)] = j
<1>1. PICK p \in DOMAIN q : q[p] = j
  BY DEF Members
<1>2. \A i \in 1 .. (p - 1) : q[i] # j
  <2> SUFFICES ASSUME NEW i \in 1 .. (p - 1) PROVE q[i] # j
    OBVIOUS
  <2>1. i \in DOMAIN q /\ i < p /\ q[i] \in Nat /\ q[p] \in Nat
    OBVIOUS
  <2> QED BY <1>1, <2>1 DEF Falling
<1>3. \E pp \in DOMAIN q : q[pp] = j /\ \A i \in 1 .. (pp - 1) : q[i] # j
  BY <1>1, <1>2
<1> QED BY <1>1, <1>3 DEF list_find

LEMMA RemoveFromList ==
  ASSUME NEW q \in Seq(Nat), Falling(q), NEW p \in DOMAIN q
  PROVE  /\ list_remove(q, p) \in Seq(Nat) /\ Falling(list_remove(q, p))
         /\ Members(list_remove(q, p)) = Members(q) \ {q[p]}
         /\ Len(list_remove(q, p)) = Len(q) - 1
<1> DEFINE n == Len(q) - 1
           r == [i \in 1 .. n |-> IF i < p THEN q[i] ELSE q[i + 1]]
<1>1. n \in Nat /\ DOMAIN q = 1 .. (n + 1) /\ p \in 1 .. (n + 1) /\ p # 0
      /\ Len(q) - 1 = n
  OBVIOUS
<1>2. list_remove(q, p) = r
  BY <1>1 DEF list_remove
<1>3. \A i \in 1 .. n : i \in DOMAIN q /\ i + 1 \in DOMAIN q /\ q[i] \in Nat /\ q[i + 1] \in Nat
  BY <1>1
<1> HIDE DEF n
<1>4. r \in [1 .. n -> Nat]
  BY <1>3
<1>5. r \in Seq(Nat) /\ Len(r) = n /\ DOMAIN r = 1 .. n
  BY <1>1, <1>4
<1>6. \A i \in 1 .. n : r[i] = IF i < p THEN q[i] ELSE q[i + 1]
  OBVIOUS
<1> HIDE DEF r
<1>7. Falling(r)
  <2> SUFFICES ASSUME NEW i \in 1 .. n, NEW k \in 1 .. n, i < k PROVE r[i] > r[k]
    BY <1>5 DEF Falling
  <2>1. CASE i < p /\ k < p
    BY <1>3, <1>6, <2>1 DEF Falling
  <2>2. CASE i < p /\ ~ (k < p)
    <3>1. r[i] = q[i] /\ r[k] = q[k + 1] /\ i < k + 1
      BY <1>6, <2>2
    <3> QED BY <1>3, <3>1 DEF Falling
  <2>3. CASE ~ (i < p)
    <3>1. r[i] = q[i + 1] /\ r[k] = q[k + 1] /\ i + 1 < k + 1
      BY <1>1, <1>6, <2>3
    <3> QED BY <1>3, <3>1 DEF Falling
  <2> QED BY <2>1, <2>2, <2>3
<1>8. Members(r) = Members(q) \ {q[p]}
  <2>1. NoDup(q)
    BY FallingNoDup
  <2>2. ASSUME NEW i \in 1 .. n PROVE r[i] \in Members(q) \ {q[p]}
    <3>1. CASE i < p
      BY <1>3, <1>6, <2>1, <3>1 DEF Members, NoDup
    <3>2. CASE ~ (i < p)
      <4>1. r[i] = q[i + 1] /\ i + 1 # p /\ i + 1 \in DOMAIN q
        BY <1>1, <1>3, <1>6, <3>2
      <4> QED BY <2>1, <4>1 DEF Members, NoDup
    <3> QED BY <3>1, <3>2
  <2>3. ASSUME NEW k \in DOMAIN q, k # p PROVE q[k] \in Members(r)
    <3>1. CASE k < p
      <4>1. k \in 1 .. n /\ r[k] = q[k]
        BY <1>1, <1>6, <3>1
      <4> QED BY <1>5, <4>1 DEF Members
    <3>2. CASE ~ (k < p)
      <4>1. k - 1 \in 1 .. n /\ ~ (k - 1 < p) /\ (k - 1) + 1 = k
        BY <1>1, <2>3, <3>2
      <4>2. r[k - 1] = q[k]
        BY <1>6, <4>1
      <4> QED BY <1>5, <4>1, <4>2 DEF Members
    <3> QED BY <3>1, <3>2
  <2>4. \A x \in Members(q) \ {q[p]} : x \in Members(r)
    BY <2>3 DEF Members
  <2>5. \A x \in Members(r) : x \in Members(q) \ {q[p]}
    BY <1>5, <2>2 DEF Members
  <2> QED BY <2>4, <2>5
<1> QED BY <1>1, <1>2, <1>5, <1>7, <1>8

-----------------------------------------------------------------------------
(* The queues of MLFQ.  A job waits in the queue of its level, so no two   *)
(* queues share a job.                                                     *)

In(qs, j) == \E l \in Levels : \E i \in DOMAIN qs[l] : qs[l][i] = j

QueuesOK(qs, lv) ==
  \A l \in Levels : NoDup(qs[l]) /\ \A i \in DOMAIN qs[l] : lv[qs[l][i]] = l

LEMMA AppendNoDup ==
  ASSUME NEW S, NEW q \in Seq(S), NoDup(q), NEW j \in S, \A i \in DOMAIN q : q[i] # j
  PROVE  /\ NoDup(Append(q, j)) /\ Append(q, j) # <<>>
         /\ \A i \in DOMAIN Append(q, j) : (i \in DOMAIN q /\ Append(q, j)[i] = q[i])
                                           \/ Append(q, j)[i] = j
         /\ \A i \in DOMAIN q : i \in DOMAIN Append(q, j) /\ Append(q, j)[i] = q[i]
         /\ \E i \in DOMAIN Append(q, j) : Append(q, j)[i] = j
<1> DEFINE r == Append(q, j)
<1>1. /\ Len(q) \in Nat /\ DOMAIN q = 1 .. Len(q) /\ r \in Seq(S)
      /\ Len(r) = Len(q) + 1 /\ DOMAIN r = 1 .. (Len(q) + 1)
  OBVIOUS
<1>2. r[Len(q) + 1] = j /\ \A i \in 1 .. Len(q) : r[i] = q[i]
  OBVIOUS
<1> HIDE DEF r
<1>3. \A i \in DOMAIN r : i \in DOMAIN q \/ i = Len(q) + 1
  BY <1>1
<1>4. NoDup(r)
  BY <1>1, <1>2, <1>3 DEF NoDup
<1>5. /\ \A i \in DOMAIN r : (i \in DOMAIN q /\ r[i] = q[i]) \/ r[i] = j
      /\ \A i \in DOMAIN q : i \in DOMAIN r /\ r[i] = q[i]
      /\ Len(q) + 1 \in DOMAIN r
  BY <1>1, <1>2, <1>3
<1>6. r # <<>>
  BY <1>1
<1> QED BY <1>2, <1>4, <1>5, <1>6 DEF r

\* Job j at the end of the queue of level l.
WithLast(qs, l, j) == [qs EXCEPT ![l] = Append(@, j)]

Moved(lv, j, l) == [lv EXCEPT ![j] = l]

\* Queues that hold the jobs of the trace, each on its level.
Filed(qs, lv) ==
  qs \in [Levels -> Seq(Jobs)] /\ lv \in [Jobs -> Levels] /\ QueuesOK(qs, lv)

\* A job goes to the end of the queue of its (new) level.
LEMMA PutBack ==
  ASSUME NEW qs, NEW lv, Filed(qs, lv), NEW j, j \in Jobs, ~ In(qs, j), NEW l, l \in Levels,
         NEW r, r = WithLast(qs, l, j), NEW lv1, lv1 = Moved(lv, j, l)
  PROVE  Filed(r, lv1) /\ ~ Idle(r) /\ \A x : In(r, x) <=> In(qs, x) \/ x = j
<1> DEFINE J == Jobs
<1>0. qs \in [Levels -> Seq(J)] /\ lv \in [J -> Levels] /\ QueuesOK(qs, lv) /\ j \in J
  BY DEF Filed
<1> HIDE DEF J
<1>1. qs[l] \in Seq(J) /\ NoDup(qs[l]) /\ \A i \in DOMAIN qs[l] : qs[l][i] # j
  BY <1>0 DEF QueuesOK, In
<1>2. r[l] = Append(qs[l], j) /\ \A k \in Levels \ {l} : r[k] = qs[k]
  BY <1>0 DEF WithLast
<1>3. lv1[j] = l /\ \A x \in J : x # j => lv1[x] = lv[x]
  BY <1>0 DEF Moved
<1>4. \A k \in Levels : \A i \in DOMAIN qs[k] : qs[k][i] \in J /\ qs[k][i] # j
  BY <1>0 DEF In
<1>5. /\ NoDup(r[l]) /\ r[l] # <<>>
      /\ \A i \in DOMAIN r[l] : (i \in DOMAIN qs[l] /\ r[l][i] = qs[l][i]) \/ r[l][i] = j
      /\ \A i \in DOMAIN qs[l] : i \in DOMAIN r[l] /\ r[l][i] = qs[l][i]
      /\ \E i \in DOMAIN r[l] : r[l][i] = j
  BY <1>0, <1>1, <1>2, AppendNoDup
<1>6. QueuesOK(r, lv1)
  <2> SUFFICES ASSUME NEW k \in Levels
               PROVE  NoDup(r[k]) /\ \A i \in DOMAIN r[k] : lv1[r[k][i]] = k
    BY DEF QueuesOK
  <2>1. NoDup(qs[k]) /\ \A i \in DOMAIN qs[k] : lv[qs[k][i]] = k /\ lv1[qs[k][i]] = k
    BY <1>0, <1>3, <1>4 DEF QueuesOK
  <2>2. CASE k # l
    BY <1>2, <2>1, <2>2
  <2>3. \A i \in DOMAIN r[l] : lv1[r[l][i]] = l
    <3> SUFFICES ASSUME NEW i \in DOMAIN r[l] PROVE lv1[r[l][i]] = l
      OBVIOUS
    <3>1. CASE r[l][i] = j
      BY <1>3, <3>1
    <3>2. CASE i \in DOMAIN qs[l] /\ r[l][i] = qs[l][i]
      <4>1. lv1[qs[l][i]] = lv[qs[l][i]]
        BY <1>3, <1>4, <3>2
      <4> QED BY <1>0, <3>2, <4>1 DEF QueuesOK
    <3> QED BY <1>5, <3>1, <3>2
  <2> QED BY <1>5, <2>2, <2>3
<1>7. ASSUME NEW x PROVE In(r, x) <=> In(qs, x) \/ x = j
  <2>1. ASSUME NEW k \in Levels, NEW i \in DOMAIN r[k], r[k][i] = x PROVE In(qs, x) \/ x = j
    BY <1>2, <1>5, <2>1 DEF In
  <2>2. ASSUME NEW k \in Levels, NEW i \in DOMAIN qs[k], qs[k][i] = x PROVE In(r, x)
    BY <1>2, <1>5, <2>2 DEF In
  <2>3. In(r, j)
    BY <1>5 DEF In
  <2> QED BY <2>1, <2>2, <2>3 DEF In
<1>8. ~ Idle(r)
  BY <1>5 DEF Idle
<1>9. r \in [Levels -> Seq(J)] /\ lv1 \in [J -> Levels]
  <2>1. Append(qs[l], j) \in Seq(J)
    BY <1>0, <1>1
  <2> QED BY <1>0, <2>1 DEF WithLast, Moved
<1> QED BY <1>6, <1>7, <1>8, <1>9 DEF Filed, J

LEMMA TailNoDup ==
  ASSUME NEW S, NEW q \in Seq(S), NoDup(q), q # <<>>
  PROVE  /\ NoDup(Tail(q)) /\ Tail(q) \in Seq(S) /\ 1 \in DOMAIN q /\ Head(q) = q[1]
         /\ \A i \in DOMAIN Tail(q) : /\ i + 1 \in DOMAIN q /\ i + 1 # 1
                                      /\ Tail(q)[i] = q[i + 1]
         /\ \A i \in DOMAIN q : i # 1 => i - 1 \in DOMAIN Tail(q) /\ Tail(q)[i - 1] = q[i]
<1>1. /\ Tail(q) \in Seq(S) /\ Len(q) \in Nat \ {0} /\ Len(Tail(q)) = Len(q) - 1
      /\ DOMAIN Tail(q) = 1 .. (Len(q) - 1) /\ DOMAIN q = 1 .. Len(q)
  OBVIOUS
<1>2. \A i \in 1 .. (Len(q) - 1) : Tail(q)[i] = q[i + 1]
  OBVIOUS
<1>3. \A i \in DOMAIN Tail(q) : i + 1 \in DOMAIN q /\ i + 1 # 1 /\ Tail(q)[i] = q[i + 1]
  BY <1>1, <1>2
<1>4. \A i \in DOMAIN q : i # 1 => i - 1 \in DOMAIN Tail(q) /\ (i - 1) + 1 = i
  BY <1>1
<1>5. NoDup(Tail(q))
  <2> SUFFICES ASSUME NEW i \in DOMAIN Tail(q), NEW k \in DOMAIN Tail(q),
                      Tail(q)[i] = Tail(q)[k]
               PROVE  i = k
    BY DEF NoDup
  <2>1. i + 1 = k + 1
    BY <1>3 DEF NoDup
  <2>2. i \in Int /\ k \in Int
    BY <1>1
  <2> QED BY <2>1, <2>2
<1>6. Head(q) = q[1] /\ 1 \in DOMAIN q
  BY <1>1
<1> QED BY <1>1, <1>3, <1>4, <1>5, <1>6

\* The queues without the job that schedule_next takes.
WithoutNext(qs) == [qs EXCEPT ![Top(qs)] = Tail(@)]

NextJob(qs) == Head(qs[Top(qs)])

\* The job that schedule_next takes, and what is left.
LEMMA TakeNext ==
  ASSUME NEW qs, NEW lv, Filed(qs, lv), ~ Idle(qs), NEW r, r = WithoutNext(qs),
         NEW j, j = NextJob(qs)
  PROVE  /\ j \in Jobs /\ In(qs, j) /\ QueuesOK(r, lv) /\ lv[j] \in Levels
         /\ \A x : In(r, x) <=> In(qs, x) /\ x # j
         /\ \A k \in 0 .. (lv[j] - 1) : r[k] = <<>>
<1>0. qs \in [Levels -> Seq(Jobs)] /\ QueuesOK(qs, lv)
  BY DEF Filed
<1>1. PICK l \in Levels : /\ l = Top(qs) /\ qs[l] # <<>>
                          /\ \A k \in 0 .. (l - 1) : qs[k] = <<>>
  BY <1>0, TopHasJob
<1>2. qs[l] \in Seq(Jobs) /\ NoDup(qs[l]) /\ \A i \in DOMAIN qs[l] : lv[qs[l][i]] = l
  BY <1>0 DEF QueuesOK
<1>3. /\ NoDup(Tail(qs[l])) /\ 1 \in DOMAIN qs[l] /\ Head(qs[l]) = qs[l][1]
      /\ \A i \in DOMAIN Tail(qs[l]) : /\ i + 1 \in DOMAIN qs[l] /\ i + 1 # 1
                                       /\ Tail(qs[l])[i] = qs[l][i + 1]
      /\ \A i \in DOMAIN qs[l] : i # 1 => /\ i - 1 \in DOMAIN Tail(qs[l])
                                          /\ Tail(qs[l])[i - 1] = qs[l][i]
  BY <1>1, <1>2, TailNoDup
<1>4. /\ r[l] = Tail(qs[l]) /\ \A k \in Levels \ {l} : r[k] = qs[k]
      /\ j = qs[l][1]
  BY <1>0, <1>1, <1>3 DEF WithoutNext, NextJob
<1>5. j \in Jobs /\ In(qs, j) /\ lv[j] = l
  BY <1>2, <1>3, <1>4 DEF In
<1>6. QueuesOK(r, lv)
  <2> SUFFICES ASSUME NEW k \in Levels
               PROVE  NoDup(r[k]) /\ \A i \in DOMAIN r[k] : lv[r[k][i]] = k
    BY DEF QueuesOK
  <2>1. CASE k # l
    <3>1. r[k] = qs[k]
      BY <1>4, <2>1
    <3> QED BY <1>0, <3>1 DEF QueuesOK
  <2>2. NoDup(r[l])
    BY <1>3, <1>4
  <2>3. \A i \in DOMAIN r[l] : lv[r[l][i]] = l
    <3>1. \A i \in DOMAIN r[l] : i + 1 \in DOMAIN qs[l] /\ r[l][i] = qs[l][i + 1]
      BY <1>3, <1>4
    <3> QED BY <1>2, <3>1
  <2> QED BY <2>1, <2>2, <2>3
<1>7. ASSUME NEW x PROVE In(r, x) <=> In(qs, x) /\ x # j
  <2>1. ASSUME NEW k \in Levels, NEW i \in DOMAIN r[k], r[k][i] = x
        PROVE  In(qs, x) /\ x # j
    <3>1. CASE k # l
      <4>1. r[k] = qs[k] /\ lv[x] = k
        BY <1>0, <1>4, <2>1, <3>1 DEF QueuesOK
      <4> QED BY <1>5, <2>1, <3>1, <4>1 DEF In
    <3>2. CASE k = l
      <4>1. i \in DOMAIN r[l] /\ r[l][i] = x
        BY <2>1, <3>2
      <4>2. i + 1 \in DOMAIN qs[l] /\ i + 1 # 1 /\ qs[l][i + 1] = x
        BY <1>3, <1>4, <4>1
      <4>3. x # j
        BY <1>2, <1>3, <1>4, <4>2 DEF NoDup
      <4> QED BY <4>2, <4>3 DEF In
    <3> QED BY <3>1, <3>2
  <2>2. ASSUME NEW k \in Levels, NEW i \in DOMAIN qs[k], qs[k][i] = x, x # j
        PROVE  In(r, x)
    <3>1. CASE k # l
      BY <1>4, <2>2, <3>1 DEF In
    <3>2. CASE k = l
      <4>1. i - 1 \in DOMAIN r[l] /\ r[l][i - 1] = x
        BY <1>3, <1>4, <2>2, <3>2
      <4> QED BY <4>1 DEF In
    <3> QED BY <3>1, <3>2
  <2> QED BY <2>1, <2>2 DEF In
<1>8. \A k \in 0 .. (l - 1) : k \in Levels /\ k # l
  BY SimulatorAssumption DEF Levels
<1> QED BY <1>1, <1>4, <1>5, <1>6, <1>7, <1>8

-----------------------------------------------------------------------------
(* Work.  The sums that Work and Drain take over the lines of a trace.     *)

\* Induction up to n, for a set.
LEMMA UpTo ==
  ASSUME NEW n \in Nat, NEW P, 0 \in P, \A k \in 1 .. n : k - 1 \in P => k \in P
  PROVE  \A k \in 0 .. n : k \in P
<1> DEFINE Bad == {m \in 0 .. n : m \notin P}
<1>1. SUFFICES ASSUME Bad # {} PROVE FALSE
  OBVIOUS
<1>2. PICK m \in Bad : \A y \in Bad : m <= y
  <2>1. Bad \in SUBSET Nat
    OBVIOUS
  <2> HIDE DEF Bad
  <2> QED BY <1>1, <2>1, NatMin
<1>3. m \in 1 .. n /\ m \notin P /\ m - 1 \in 0 .. n /\ ~ (m <= m - 1)
  OBVIOUS
<1>4. m - 1 \in P
  BY <1>2, <1>3
<1> QED BY <1>3, <1>4

\* A function that is defined by recursion from 0 to n exists.
LEMMA Recursion ==
  ASSUME NEW n \in Nat, NEW F \in [(1 .. n) \X Nat -> Nat]
  PROVE  \E w \in [0 .. n -> Nat] : w[0] = 0 /\ \A k \in 1 .. n : w[k] = F[<<k, w[k - 1]>>]
<1> DEFINE Good(m, w) == /\ w \in [0 .. m -> Nat] /\ w[0] = 0
                         /\ \A k \in 1 .. m : w[k] = F[<<k, w[k - 1]>>]
           P == {m \in 0 .. n : \E w : Good(m, w)}
<1>1. 0 \in P
  <2> DEFINE z == [k \in 0 .. 0 |-> 0]
  <2>1. z \in [0 .. 0 -> Nat] /\ z[0] = 0
    OBVIOUS
  <2>2. ASSUME NEW k \in 1 .. 0 PROVE FALSE
    OBVIOUS
  <2> HIDE DEF z
  <2>3. Good(0, z)
    BY <2>1, <2>2
  <2>4. 0 \in 0 .. n
    OBVIOUS
  <2> HIDE DEF Good
  <2> QED BY <2>3, <2>4
<1>2. ASSUME NEW m \in 1 .. n, m - 1 \in P PROVE m \in P
  <2>1. m \in 0 .. n /\ m - 1 \in Nat /\ m \in Nat
    OBVIOUS
  <2>2. PICK v : Good(m - 1, v)
    BY <1>2
  <2>3. v[m - 1] \in Nat
    BY <2>1, <2>2
  <2>4. PICK x \in Nat : x = F[<<m, v[m - 1]>>]
    BY <2>1, <2>3
  <2> DEFINE u == [k \in 0 .. m |-> IF k < m THEN v[k] ELSE x]
  <2>5. \A k \in 0 .. m : k < m => k \in 0 .. (m - 1)
    BY <2>1
  <2>6. u \in [0 .. m -> Nat]
    BY <2>2, <2>4, <2>5
  <2>7. u[0] = 0
    BY <2>1, <2>2
  <2>8. ASSUME NEW k \in 1 .. m PROVE u[k] = F[<<k, u[k - 1]>>]
    <3>1. k - 1 \in 0 .. m /\ k - 1 < m /\ k \in 0 .. m
      BY <2>1
    <3>2. u[k - 1] = v[k - 1] /\ u[k] = IF k < m THEN v[k] ELSE x
      BY <3>1
    <3> HIDE DEF u
    <3>3. CASE k < m
      <4>1. k \in 1 .. (m - 1)
        BY <2>1, <3>3
      <4> QED BY <2>2, <3>2, <3>3, <4>1
    <3>4. CASE ~ (k < m)
      <4>1. k = m
        BY <2>1, <3>4
      <4> QED BY <2>4, <3>2, <3>4, <4>1
    <3> QED BY <3>3, <3>4
  <2> HIDE DEF u
  <2>9. Good(m, u)
    BY <2>6, <2>7, <2>8
  <2> QED BY <2>1, <2>9
<1>3. n \in P
  <2> HIDE DEF P
  <2>1. \A k \in 0 .. n : k \in P
    BY <1>1, <1>2, UpTo
  <2> QED BY <2>1
<1> QED BY <1>3

\* The remaining times of the jobs in S, added up from the first on.
Sums(n, r, S, w) ==
  /\ w \in [0 .. n -> Nat] /\ w[0] = 0
  /\ \A k \in 1 .. n : w[k] = w[k - 1] + (IF k \in S THEN r[k] ELSE 0)

\* What job k adds to them.
Term(r, S, k) == IF k \in S THEN r[k] ELSE 0

\* Work, as a function of the trace and of what is left of its jobs.
WorkOf(tr, r, S) ==
  LET w[k \in 0 .. Len(tr)] ==
        IF k = 0 THEN 0 ELSE w[k - 1] + (IF k \in S THEN r[k] ELSE 0)
  IN  w[Len(tr)]

\* A trace of n jobs, with what is left of them.
Timed(tr, n, r) == n \in Nat /\ Len(tr) = n /\ r \in [1 .. n -> Nat]

LEMMA WorkIs ==
  ASSUME NEW tr, NEW n, NEW r, Timed(tr, n, r), NEW S
  PROVE  \E w : Sums(n, r, S, w) /\ WorkOf(tr, r, S) = w[n]
<1> USE DEF Timed
<1> DEFINE F == [p \in (1 .. n) \X Nat |-> p[2] + (IF p[1] \in S THEN r[p[1]] ELSE 0)]
           Is(w) == w = [k \in 0 .. n |-> IF k = 0 THEN 0
                                          ELSE w[k - 1] + (IF k \in S THEN r[k] ELSE 0)]
<1>1. F \in [(1 .. n) \X Nat -> Nat]
  OBVIOUS
<1>2. PICK w \in [0 .. n -> Nat] : w[0] = 0 /\ \A k \in 1 .. n : w[k] = F[<<k, w[k - 1]>>]
  <2> HIDE DEF F
  <2> QED BY <1>1, Recursion
<1>3. \A k \in 1 .. n : k - 1 \in 0 .. n /\ k \in 0 .. n /\ k # 0 /\ w[k - 1] \in Nat
  OBVIOUS
<1>4. \A k \in 1 .. n : w[k] = w[k - 1] + (IF k \in S THEN r[k] ELSE 0)
  BY <1>2, <1>3
<1>5. Is(w)
  <2>1. \A k \in 0 .. n : k = 0 \/ k \in 1 .. n
    OBVIOUS
  <2> QED BY <1>2, <1>4, <2>1
<1>6. PICK v : v = CHOOSE x : Is(x)
  OBVIOUS
<1>7. Is(v)
  BY <1>5, <1>6
<1>8. WorkOf(tr, r, S) = v[n]
  BY <1>6 DEF WorkOf
<1>9. v[0] = 0 /\ \A k \in 1 .. n : v[k] = v[k - 1] + (IF k \in S THEN r[k] ELSE 0)
  <2>1. \A k \in 0 .. n : v[k] = IF k = 0 THEN 0 ELSE v[k - 1] + (IF k \in S THEN r[k] ELSE 0)
    BY <1>7
  <2>2. 0 \in 0 .. n
    OBVIOUS
  <2> HIDE DEF Is
  <2> QED BY <1>3, <2>1, <2>2
<1>10. \A k \in 0 .. n : k \in {x \in 0 .. n : v[x] = w[x]}
  <2> HIDE DEF Is, F
  <2> DEFINE P == {x \in 0 .. n : v[x] = w[x]}
  <2>1. 0 \in P
    BY <1>2, <1>9
  <2>2. \A k \in 1 .. n : k - 1 \in P => k \in P
    BY <1>3, <1>4, <1>9
  <2> HIDE DEF P
  <2>3. \A k \in 0 .. n : k \in P
    BY <2>1, <2>2, UpTo
  <2> QED BY <2>3 DEF P
<1>11. v[n] = w[n]
  BY <1>10
<1> QED BY <1>2, <1>4, <1>8, <1>11 DEF Sums

\* The terms are the same, but d is added for job x.
Differ(n, r, S, r2, S2, x, d) ==
  \A k \in 1 .. n : Term(r2, S2, k) = Term(r, S, k) + (IF k = x THEN d ELSE 0)

\* Two sums that differ in one place.
LEMMA SumsDiffer ==
  ASSUME NEW n \in Nat, NEW r \in [1 .. n -> Nat], NEW S, NEW w, Sums(n, r, S, w),
         NEW r2 \in [1 .. n -> Nat], NEW S2, NEW w2, Sums(n, r2, S2, w2),
         NEW x \in 1 .. n, NEW d \in Nat, Differ(n, r, S, r2, S2, x, d)
  PROVE  w2[n] = w[n] + d
<1> DEFINE P == {k \in 0 .. n : w2[k] = w[k] + (IF k < x THEN 0 ELSE d)}
<1>1. 0 \in P
  BY DEF Sums
<1>2. ASSUME NEW k \in 1 .. n, k - 1 \in P PROVE k \in P
  <2>1. PICK a \in Nat, b \in Nat, a2 \in Nat, b2 \in Nat :
          /\ a = w[k - 1] /\ a2 = w2[k - 1]
          /\ b = (IF k \in S THEN r[k] ELSE 0) /\ b2 = (IF k \in S2 THEN r2[k] ELSE 0)
    <3>1. k - 1 \in 0 .. n
      OBVIOUS
    <3> QED BY <3>1 DEF Sums
  <2>2. w[k] = a + b /\ w2[k] = a2 + b2 /\ b2 = b + (IF k = x THEN d ELSE 0)
    BY <2>1 DEF Sums, Term, Differ
  <2>3. a2 = a + (IF k - 1 < x THEN 0 ELSE d)
    BY <1>2, <2>1
  <2>4. k \in Nat /\ x \in Nat /\ k \in 0 .. n
    OBVIOUS
  <2>5. w2[k] = w[k] + (IF k < x THEN 0 ELSE d)
    <3> HIDE DEF P
    <3> QED BY <2>2, <2>3, <2>4
  <2> QED BY <2>4, <2>5
<1> HIDE DEF P
<1>3. n \in P
  <2>1. \A k \in 0 .. n : k \in P
    BY <1>1, <1>2, UpTo
  <2> QED BY <2>1
<1>4. w2[n] = w[n] + (IF n < x THEN 0 ELSE d)
  BY <1>3 DEF P
<1> QED BY <1>4

\* No work.
LEMMA WorkOfNobody ==
  ASSUME NEW tr, NEW n, NEW r, Timed(tr, n, r)
  PROVE  WorkOf(tr, r, {}) = 0
<1>0. n \in Nat
  BY DEF Timed
<1>1. PICK w : Sums(n, r, {}, w) /\ WorkOf(tr, r, {}) = w[n]
  BY WorkIs
<1> DEFINE P == {k \in 0 .. n : w[k] = 0}
<1>2. 0 \in P
  BY <1>0, <1>1 DEF Sums
<1>3. \A k \in 1 .. n : k - 1 \in P => k \in P
  BY <1>1 DEF Sums
<1> HIDE DEF P
<1>4. n \in P
  <2>1. \A k \in 0 .. n : k \in P
    BY <1>0, <1>2, <1>3, UpTo
  <2> QED BY <1>0, <2>1
<1> QED BY <1>1, <1>4 DEF P

Joins(x, S, S2) == x \notin S /\ S2 = S \cup {x}

\* One more job, with what is left of it.
LEMMA WorkOfOneMore ==
  ASSUME NEW tr, NEW n, NEW r, Timed(tr, n, r),
         NEW S, NEW x \in 1 .. n, NEW S2, Joins(x, S, S2)
  PROVE  /\ WorkOf(tr, r, S) \in Nat /\ WorkOf(tr, r, S2) = WorkOf(tr, r, S) + r[x]
<1>0. n \in Nat /\ r \in [1 .. n -> Nat]
  BY DEF Timed
<1>1. PICK w : Sums(n, r, S, w) /\ WorkOf(tr, r, S) = w[n]
  BY WorkIs
<1>2. PICK w2 : Sums(n, r, S2, w2) /\ WorkOf(tr, r, S2) = w2[n]
  BY WorkIs
<1>3. PICK d \in Nat : d = r[x]
  BY <1>0
<1>4. Differ(n, r, S, r, S2, x, d)
  <2> SUFFICES ASSUME NEW k \in 1 .. n
               PROVE  Term(r, S2, k) = Term(r, S, k) + (IF k = x THEN d ELSE 0)
    BY DEF Differ
  <2>1. r[k] \in Nat /\ d \in Nat
    BY <1>0
  <2>2. CASE k = x
    BY <1>3, <2>1, <2>2 DEF Term, Joins
  <2>3. CASE k # x
    BY <2>1, <2>3 DEF Term, Joins
  <2> QED BY <2>2, <2>3
<1>5. w2[n] = w[n] + d
  <2>1. Sums(n, r, S, w) /\ Sums(n, r, S2, w2)
    BY <1>1, <1>2
  <2> QED BY <1>0, <1>4, <2>1, SumsDiffer
<1>6. w[n] \in Nat
  BY <1>0, <1>1 DEF Sums
<1> QED BY <1>1, <1>2, <1>3, <1>5, <1>6

Agree(n, r, r2, S) == \A k \in 1 .. n : k \in S => r2[k] = r[k]

\* What is not in S does not matter.
LEMMA WorkOfAgreed ==
  ASSUME NEW tr, NEW n, NEW r, Timed(tr, n, r),
         NEW r2, Timed(tr, n, r2), NEW S, Agree(n, r, r2, S)
  PROVE  WorkOf(tr, r2, S) = WorkOf(tr, r, S)
<1>0. n \in Nat
  BY DEF Timed
<1>1. PICK w : Sums(n, r, S, w) /\ WorkOf(tr, r, S) = w[n]
  BY WorkIs
<1>2. PICK w2 : Sums(n, r2, S, w2) /\ WorkOf(tr, r2, S) = w2[n]
  BY WorkIs
<1> DEFINE P == {k \in 0 .. n : w2[k] = w[k]}
<1>3. 0 \in P
  BY <1>0, <1>1, <1>2 DEF Sums
<1>4. ASSUME NEW k \in 1 .. n, k - 1 \in P PROVE k \in P
  <2>1. k \in 0 .. n /\ w2[k - 1] = w[k - 1]
    BY <1>4
  <2>2. w[k] = w[k - 1] + Term(r, S, k) /\ w2[k] = w2[k - 1] + Term(r2, S, k)
    BY <1>1, <1>2 DEF Sums, Term
  <2>3. Term(r, S, k) = Term(r2, S, k)
    BY DEF Term, Agree
  <2> QED BY <2>1, <2>2, <2>3
<1> HIDE DEF P
<1>5. n \in P
  <2>1. \A k \in 0 .. n : k \in P
    BY <1>0, <1>3, <1>4, UpTo
  <2> QED BY <1>0, <2>1
<1> QED BY <1>1, <1>2, <1>5 DEF P

\* Drain, as a function of the trace.
DrainOf(tr) ==
  LET d[k \in 0 .. Len(tr)] ==
        IF k = 0 THEN 0
        ELSE (IF d[k - 1] > tr[k].arrival THEN d[k - 1] ELSE tr[k].arrival) + tr[k].size
  IN  d

\* When a job of size c is done that comes at time a, if the others are at time d.
After(d, a, c) == (IF d > a THEN d ELSE a) + c

LEMMA DrainIs ==
  ASSUME NEW tr \in Traces
  PROVE  /\ DrainOf(tr) \in [0 .. Len(tr) -> Nat] /\ DrainOf(tr)[0] = 0
         /\ \A k \in 1 .. Len(tr) :
              DrainOf(tr)[k] = After(DrainOf(tr)[k - 1], tr[k].arrival, tr[k].size)
<1>1. PICK n \in Nat : n = Len(tr)
  BY SimulatorAssumption
<1> DEFINE F == [p \in (1 .. n) \X Nat |-> After(p[2], tr[p[1]].arrival, tr[p[1]].size)]
           Is(d) == d = [k \in 0 .. n |->
                           IF k = 0 THEN 0
                           ELSE (IF d[k - 1] > tr[k].arrival THEN d[k - 1] ELSE tr[k].arrival)
                                + tr[k].size]
<1>2. \A k \in 1 .. n : tr[k].arrival \in Nat /\ tr[k].size \in Nat
  BY <1>1, LineInRange DEF Time
<1>3. F \in [(1 .. n) \X Nat -> Nat]
  BY <1>2 DEF After
<1>4. PICK w \in [0 .. n -> Nat] : w[0] = 0 /\ \A k \in 1 .. n : w[k] = F[<<k, w[k - 1]>>]
  <2> HIDE DEF F
  <2> QED BY <1>3, Recursion
<1>5. \A k \in 1 .. n : k - 1 \in 0 .. n /\ k \in 0 .. n /\ k # 0 /\ w[k - 1] \in Nat
  OBVIOUS
<1>6. \A k \in 1 .. n : w[k] = After(w[k - 1], tr[k].arrival, tr[k].size)
  BY <1>4, <1>5
<1> HIDE DEF F
<1>7. Is(w)
  <2>1. \A k \in 0 .. n : k = 0 \/ k \in 1 .. n
    OBVIOUS
  <2> QED BY <1>4, <1>6, <2>1 DEF After
<1>8. PICK v : v = CHOOSE x : Is(x)
  OBVIOUS
<1>9. Is(v)
  BY <1>7, <1>8
<1>10. DrainOf(tr) = v
  BY <1>1, <1>8 DEF DrainOf
<1>11. v[0] = 0 /\ \A k \in 1 .. n : v[k] = After(v[k - 1], tr[k].arrival, tr[k].size)
  <2>1. \A k \in 0 .. n : v[k] = IF k = 0 THEN 0
                                 ELSE (IF v[k - 1] > tr[k].arrival THEN v[k - 1] ELSE tr[k].arrival)
                                      + tr[k].size
    BY <1>9
  <2>2. 0 \in 0 .. n
    OBVIOUS
  <2> HIDE DEF Is
  <2> QED BY <1>5, <2>1, <2>2 DEF After
<1>12. DOMAIN v = 0 .. n
  BY <1>9
<1> HIDE DEF Is
<1> DEFINE P == {x \in 0 .. n : v[x] = w[x]}
<1>13. 0 \in P
  BY <1>4, <1>11
<1>14. ASSUME NEW k \in 1 .. n, k - 1 \in P PROVE k \in P
  <2>1. v[k - 1] = w[k - 1] /\ k \in 0 .. n
    BY <1>5, <1>14
  <2> QED BY <1>6, <1>11, <2>1
<1>15. \A k \in 0 .. n : k \in P
  <2> HIDE DEF P
  <2> QED BY <1>13, <1>14, UpTo
<1>16. \A k \in 0 .. n : v[k] \in Nat
  BY <1>15
<1>17. v \in [0 .. n -> Nat]
  <2>1. v = [k \in 0 .. n |-> v[k]]
    BY <1>9 DEF Is
  <2> QED BY <1>16, <2>1
<1> QED BY <1>1, <1>10, <1>11, <1>17

\* The work of one more job: it ends later by its size if the others are not
\* done before it comes.
LEMMA DrainNext ==
  ASSUME NEW tr \in Traces, NEW k \in 1 .. Len(tr), NEW d, d = DrainOf(tr)[k - 1],
         NEW a, a = tr[k].arrival, NEW c, c = tr[k].size, NEW d1, d1 = DrainOf(tr)[k]
  PROVE  /\ d \in Nat /\ a \in Nat /\ c \in Nat /\ d1 \in Nat
         /\ d <= a => d1 = a + c
         /\ d >= a => d1 = d + c
<1>1. Len(tr) \in Nat
  BY SimulatorAssumption
<1>2. k - 1 \in 0 .. Len(tr) /\ k \in 0 .. Len(tr)
  BY <1>1
<1>3. d \in Nat /\ d1 \in Nat /\ d1 = After(d, a, c)
  BY <1>2, DrainIs
<1>4. a \in Nat /\ c \in Nat
  BY LineInRange DEF Time
<1> QED BY <1>3, <1>4 DEF After

\* The work in the system is what is left of the job served and of the others.
LEMMA WorkOfServed ==
  ASSUME NEW tr, NEW n, NEW r, Timed(tr, n, r),
         NEW S, NEW x \in 1 .. n, x \in S, NEW R, R = S \ {x}
  PROVE  WorkOf(tr, r, R) \in Nat /\ WorkOf(tr, r, S) = r[x] + WorkOf(tr, r, R)
<1>1. Joins(x, R, S)
  BY DEF Joins
<1>2. WorkOf(tr, r, R) \in Nat /\ WorkOf(tr, r, S) = WorkOf(tr, r, R) + r[x]
  BY <1>1, WorkOfOneMore
<1>3. r[x] \in Nat
  BY DEF Timed
<1> QED BY <1>2, <1>3

-----------------------------------------------------------------------------
(* The event queue.  During a callback the event that is being served is   *)
(* still in the queue: what holds between callbacks holds of the others.   *)

IdsOK(s) ==
  /\ \A f \in s.queue : f.id < s.id
  /\ \A f, g \in s.queue : f.id = g.id => f = g

\* The events in Q have one completion if c is its id, none if c is NULL.
Pending(Q, c) ==
  /\ \A f \in Q : f.type = "COMPLETION" => f.id = c
  /\ c # NoEvent => \E f \in Q : f.type = "COMPLETION" /\ f.id = c

\* The simulator s in the callback of event e.
During(s, e) ==
  s \in SimType /\ e \in s.queue /\ IdsOK(s) /\ Pending(s.queue \ {e}, s.completionEvent)

\* Two states of the simulator have the same events of a type, e aside.
Same(s, r, e, ty) ==
  \A f : f.type = ty => (f \in r.queue \ {e} <=> f \in s.queue \ {e})

\* What simulatorSchedule has done if its assert held.
LEMMA Scheduled ==
  ASSUME NEW s \in SimType, NEW t \in Time, NEW ty \in {"COMPLETION", "ARRIVAL"},
         ~ simulatorSchedule(s, t, ty).failed
  PROVE  LET r == simulatorSchedule(s, t, ty)
             n == [time |-> t, type |-> ty, id |-> s.id]
         IN  /\ r \in SimType /\ r.queue = s.queue \cup {n} /\ r.id = s.id + 1
             /\ r.simTime = s.simTime /\ r.completionEvent = s.completionEvent
             /\ ~ s.failed /\ t >= s.simTime
<1> DEFINE e == [time |-> t, type |-> ty, id |-> s.id]
<1>1. e \in Event
  BY DEF SimType, Event, Time
<1>2. t >= s.simTime
  BY DEF simulatorSchedule, SimType
<1> DEFINE r1 == [s EXCEPT !.queue = @ \cup {e}]
           r  == [r1 EXCEPT !.id = s.id + 1]
<1>3. simulatorSchedule(s, t, ty) = r
  BY <1>2 DEF simulatorSchedule
<1>4. /\ r1 \in SimType /\ r1.queue = s.queue \cup {e} /\ r1.failed = s.failed
      /\ r1.simTime = s.simTime /\ r1.completionEvent = s.completionEvent
      /\ s.id \in Nat
  <2> HIDE DEF e
  <2> QED BY <1>1 DEF SimType
<1>5. /\ r \in SimType /\ r.queue = r1.queue /\ r.id = s.id + 1 /\ r.failed = r1.failed
      /\ r.simTime = r1.simTime /\ r.completionEvent = r1.completionEvent
  <2> HIDE DEF r1
  <2> QED BY <1>4 DEF SimType
<1> HIDE DEF r, r1
<1> QED BY <1>2, <1>3, <1>4, <1>5

\* schedulerScheduleNextCompletion when no completion is pending.
LEMMA CompletionScheduled ==
  ASSUME NEW s, NEW e, During(s, e), NEW t \in Time, s.completionEvent = NoEvent,
         NEW r, r = schedulerScheduleNextCompletion(s, t), ~ r.failed
  PROVE  /\ During(r, e) /\ r.completionEvent # NoEvent /\ r.simTime = s.simTime
         /\ ~ s.failed /\ t >= s.simTime /\ Same(s, r, e, "ARRIVAL")
         /\ \A f \in r.queue \ {e} : f.type = "COMPLETION" => f.time = t
<1>1. /\ s \in SimType /\ s.id \in Nat /\ e \in s.queue /\ IdsOK(s) /\ s.queue \subseteq Event
      /\ \A f \in s.queue \ {e} : f.type # "COMPLETION"
  BY DEF During, SimType, Pending, Event, NoEvent
<1> DEFINE r0 == simulatorSchedule(s, t, "COMPLETION")
           n  == [time |-> t, type |-> "COMPLETION", id |-> s.id]
<1>2. r = [r0 EXCEPT !.completionEvent = s.id]
  BY DEF schedulerScheduleNextCompletion
<1>3. ~ r0.failed
  <2>1. DOMAIN r0 = DOMAIN s
    BY <1>1 DEF simulatorSchedule, SimType
  <2>2. DOMAIN s = {"queue", "simTime", "id", "completionEvent", "failed"}
    BY <1>1 DEF SimType
  <2> HIDE DEF r0
  <2> QED BY <1>2, <2>1, <2>2
<1>4. /\ r0 \in SimType /\ r0.queue = s.queue \cup {n} /\ r0.id = s.id + 1
      /\ r0.simTime = s.simTime /\ ~ s.failed /\ t >= s.simTime
  BY <1>1, <1>3, Scheduled
<1> HIDE DEF r0
<1>5. /\ r \in SimType /\ r.queue = s.queue \cup {n} /\ r.id = s.id + 1
      /\ r.simTime = s.simTime /\ r.completionEvent = s.id
  BY <1>1, <1>2, <1>4 DEF SimType
<1>6. n.type = "COMPLETION" /\ n.id = s.id /\ n.time = t /\ \A f \in s.queue : f # n
  BY <1>1 DEF IdsOK
<1> HIDE DEF n
<1>7. IdsOK(r)
  <2>1. \A f \in s.queue : f.id \in Nat /\ f.id < s.id
    BY <1>1 DEF IdsOK, Event
  <2> QED BY <1>1, <1>5, <1>6, <2>1 DEF IdsOK
<1>8. Pending(r.queue \ {e}, r.completionEvent)
  BY <1>1, <1>5, <1>6 DEF Pending
<1> QED BY <1>1, <1>4, <1>5, <1>6, <1>7, <1>8 DEF During, Same, NoEvent

\* The next line of the trace has been added to the events of s.
Announced(s, r) ==
  \E n : /\ n.type = "ARRIVAL" /\ n.time = trace[read + 1].arrival
         /\ n \notin s.queue /\ r.queue = s.queue \cup {n}

\* traceScheduleNextArrival.
LEMMA ArrivalScheduled ==
  ASSUME NEW s, NEW e, During(s, e), trace \in Traces, read \in Jobs,
         NEW r, r = traceScheduleNextArrival(s), ~ r.failed
  PROVE  /\ During(r, e) /\ r.completionEvent = s.completionEvent
         /\ r.simTime = s.simTime /\ ~ s.failed /\ Same(s, r, e, "COMPLETION")
         /\ read = Len(trace) => r = s
         /\ read < Len(trace) => Announced(s, r)
<1>1. CASE ~ (read < Len(trace))
  BY <1>1 DEF traceScheduleNextArrival, Same, Jobs
<1>2. CASE read < Len(trace)
  <2>1. read + 1 \in 1 .. Len(trace)
    <3>1. Len(trace) \in Nat
      BY SimulatorAssumption
    <3> QED BY <1>2, <3>1 DEF Jobs
  <2>2. trace[read + 1].arrival \in Time
    BY <2>1, LineInRange
  <2>3. PICK t \in Time : t = trace[read + 1].arrival
    BY <2>2
  <2> DEFINE n == [time |-> t, type |-> "ARRIVAL", id |-> s.id]
  <2>4. r = simulatorSchedule(s, t, "ARRIVAL")
    BY <1>2, <2>3 DEF traceScheduleNextArrival
  <2>5. s \in SimType /\ e \in s.queue /\ IdsOK(s) /\ s.id \in Nat /\ s.queue \subseteq Event
    BY DEF During, SimType
  <2>6. /\ r \in SimType /\ r.queue = s.queue \cup {n} /\ r.id = s.id + 1
        /\ r.simTime = s.simTime /\ r.completionEvent = s.completionEvent /\ ~ s.failed
    BY <2>4, <2>5, Scheduled
  <2>7. n.type = "ARRIVAL" /\ n.id = s.id /\ n.time = t /\ n \notin s.queue
    BY <2>5 DEF IdsOK
  <2> HIDE DEF n
  <2>8. IdsOK(r)
    <3>1. \A f \in s.queue : f.id \in Nat /\ f.id < s.id
      BY <2>5 DEF IdsOK, Event
    <3> QED BY <2>5, <2>6, <2>7, <3>1 DEF IdsOK
  <2>9. Pending(r.queue \ {e}, r.completionEvent)
    BY <2>5, <2>6, <2>7 DEF During, Pending
  <2>10. read # Len(trace)
    BY <1>2 DEF Jobs
  <2> QED BY <2>3, <2>5, <2>6, <2>7, <2>8, <2>9, <2>10 DEF During, Same, Announced
<1> QED BY <1>1, <1>2

\* schedulerCancelNextCompletion in the callback of an arrival.
LEMMA CompletionCancelled ==
  ASSUME NEW s, NEW e, During(s, e), e.type = "ARRIVAL",
         NEW r, r = schedulerCancelNextCompletion(s)
  PROVE  /\ During(r, e) /\ r.completionEvent = NoEvent /\ r.simTime = s.simTime
         /\ r.failed = s.failed /\ Same(s, r, e, "ARRIVAL")
<1>1. /\ s \in SimType /\ e \in s.queue /\ IdsOK(s) /\ s.queue \subseteq Event
      /\ Pending(s.queue \ {e}, s.completionEvent)
  BY DEF During, SimType
<1> DEFINE Q == {f \in s.queue : f.id # s.completionEvent}
           r0 == [s EXCEPT !.queue = Q]
<1>2. r = [r0 EXCEPT !.completionEvent = NoEvent]
  BY DEF schedulerCancelNextCompletion, simulatorRemoveEvent
<1>3. /\ r0 \in SimType /\ r0.queue = Q /\ r0.id = s.id
      /\ r0.simTime = s.simTime /\ r0.failed = s.failed
  BY <1>1 DEF SimType
<1>4. /\ r \in SimType /\ r.queue = Q /\ r.id = s.id /\ r.completionEvent = NoEvent
      /\ r.simTime = s.simTime /\ r.failed = s.failed
  <2> HIDE DEF r0, Q
  <2> QED BY <1>2, <1>3 DEF SimType
<1>5. \A f \in s.queue : f.type = "ARRIVAL" => f \in Q
  <2> SUFFICES ASSUME NEW f \in s.queue, f.type = "ARRIVAL", f.id = s.completionEvent
               PROVE  FALSE
    OBVIOUS
  <2>1. s.completionEvent # NoEvent
    BY <1>1 DEF Event, NoEvent
  <2>2. PICK g \in s.queue : g.type = "COMPLETION" /\ g.id = s.completionEvent
    BY <1>1, <2>1 DEF Pending
  <2> QED BY <1>1, <2>2 DEF IdsOK
<1>6. \A f \in Q : f # e => f.type # "COMPLETION"
  BY <1>1 DEF Pending
<1>7. Q \subseteq s.queue
  OBVIOUS
<1> HIDE DEF Q
<1> QED BY <1>1, <1>4, <1>5, <1>6, <1>7 DEF During, IdsOK, Pending, Same

\* simulatorRun removes the event whose callback has returned.
LEMMA EventRemoved ==
  ASSUME NEW s, NEW e, During(s, e), NEW r, r = simulatorRemoveEvent(s, e.id)
  PROVE  /\ r \in SimType /\ r.queue = s.queue \ {e} /\ IdsOK(r)
         /\ Pending(r.queue, r.completionEvent) /\ r.completionEvent = s.completionEvent
         /\ r.failed = s.failed /\ r.simTime = s.simTime
<1>1. /\ s \in SimType /\ e \in s.queue /\ IdsOK(s) /\ s.queue \subseteq Event
      /\ Pending(s.queue \ {e}, s.completionEvent)
  BY DEF During, SimType
<1> DEFINE Q == {f \in s.queue : f.id # e.id}
<1>2. Q = s.queue \ {e}
  BY <1>1 DEF IdsOK
<1>3. r = [s EXCEPT !.queue = Q]
  BY DEF simulatorRemoveEvent
<1> HIDE DEF Q
<1>4. /\ r \in SimType /\ r.queue = Q /\ r.id = s.id /\ r.completionEvent = s.completionEvent
      /\ r.failed = s.failed /\ r.simTime = s.simTime
  BY <1>1, <1>2, <1>3 DEF SimType
<1> QED BY <1>1, <1>2, <1>4 DEF IdsOK

-----------------------------------------------------------------------------
(* Between callbacks.                                                      *)

\* The next job of the trace, and only that, is on its way.
EventInv ==
  /\ IdsOK(sim) /\ Pending(sim.queue, sim.completionEvent)
  /\ \A f, g \in sim.queue : f.type = "ARRIVAL" /\ g.type = "ARRIVAL" => f = g
  /\ \A f \in sim.queue : f.type = "ARRIVAL" => f.time = trace[read].arrival
  /\ (\A f \in sim.queue : f.type # "ARRIVAL") => read = Len(trace)

LEMMA ArrivalBegins ==
  ASSUME TimeInv, EventInv, NEW e \in sim.queue, First(e), e.type = "ARRIVAL"
  PROVE  /\ During(Entered(e), e) /\ Entered(e).queue = sim.queue
         /\ Entered(e).completionEvent = sim.completionEvent
         /\ Entered(e).simTime = e.time /\ Entered(e).failed = FALSE
         /\ e.time = trace[read].arrival /\ read \in Jobs
         /\ Submitted = {j \in Jobs : j < read}
         /\ \A f \in sim.queue : f.type = "COMPLETION" => e.time < f.time
<1>1. sim \in SimType /\ sim.queue \subseteq Event /\ e.time \in Time /\ sim.failed = FALSE
  BY DEF TimeInv, Sound, SimType, First, Event, Time
<1>2. /\ Entered(e) \in SimType /\ Entered(e).queue = sim.queue /\ Entered(e).id = sim.id
      /\ Entered(e).completionEvent = sim.completionEvent
      /\ Entered(e).simTime = e.time /\ Entered(e).failed = FALSE
  BY <1>1 DEF Entered, SimType
<1>3. Pending(sim.queue \ {e}, sim.completionEvent)
  BY DEF EventInv, Pending
<1>4. During(Entered(e), e)
  BY <1>2, <1>3 DEF During, EventInv, IdsOK
<1>5. Submitted = {j \in Jobs : j < read}
  BY DEF Submitted
<1>6. \A f \in sim.queue : f.type = "COMPLETION" => e.time < f.time
  BY <1>1 DEF First, simulatorEventCompare, Event
<1> QED BY <1>2, <1>4, <1>5, <1>6 DEF EventInv, TimeInv

LEMMA CompletionBegins ==
  ASSUME TimeInv, EventInv, NEW e \in sim.queue, First(e), e.type = "COMPLETION"
  PROVE  /\ During(Forgotten(e), e) /\ Forgotten(e).queue = sim.queue
         /\ Forgotten(e).completionEvent = NoEvent /\ sim.completionEvent # NoEvent
         /\ Forgotten(e).simTime = e.time /\ Forgotten(e).failed = FALSE
         /\ \A f \in sim.queue \ {e} : f.type # "COMPLETION"
         /\ \A i \in Jobs \ Submitted : e.time <= trace[i].arrival
<1>1. sim \in SimType /\ sim.queue \subseteq Event /\ e.time \in Time /\ sim.failed = FALSE
  BY DEF TimeInv, Sound, SimType, First, Event, Time
<1>2. /\ Entered(e) \in SimType /\ Entered(e).queue = sim.queue /\ Entered(e).id = sim.id
      /\ Entered(e).simTime = e.time /\ Entered(e).failed = FALSE
  BY <1>1 DEF Entered, SimType
<1>3. /\ Forgotten(e) \in SimType /\ Forgotten(e).queue = sim.queue /\ Forgotten(e).id = sim.id
      /\ Forgotten(e).completionEvent = NoEvent
      /\ Forgotten(e).simTime = e.time /\ Forgotten(e).failed = FALSE
  BY <1>2 DEF Forgotten, SimType
<1>4. /\ \A f \in sim.queue \ {e} : f.type # "COMPLETION"
      /\ sim.completionEvent = e.id /\ e.id \in Nat
  BY <1>1 DEF EventInv, IdsOK, Pending, Event
<1>5. During(Forgotten(e), e)
  BY <1>3, <1>4 DEF During, EventInv, IdsOK, Pending
<1>6. ASSUME NEW i \in Jobs \ Submitted PROVE e.time <= trace[i].arrival
  <2>1. PICK f \in sim.queue : f.type = "ARRIVAL"
    BY <1>6 DEF Submitted, EventInv, Jobs
  <2>2. f.time \in Time /\ e.time <= f.time
    BY <1>1, <2>1 DEF First, simulatorEventCompare, Event, Time
  <2>3. f.time = trace[read].arrival /\ read \in Jobs
    BY <2>1 DEF EventInv, TimeInv
  <2>4. ~ (i < read) /\ i \in Jobs
    BY <1>6 DEF Submitted
  <2>5. trace[read].arrival \in Time /\ trace[i].arrival \in Time
    BY <2>3, <2>4, LineInRange DEF TimeInv, Jobs
  <2>6. DOMAIN trace = Jobs
    BY SimulatorAssumption DEF TimeInv, Jobs
  <2>7. trace[read].arrival <= trace[i].arrival
    <3>1. CASE i = read
      BY <2>5, <3>1 DEF Time
    <3>2. CASE i # read
      <4>1. read < i
        BY <2>3, <2>4, <3>2 DEF Jobs
      <4> QED BY <2>3, <2>4, <2>6, <4>1, SimulatorAssumption DEF TimeInv
    <3> QED BY <3>1, <3>2
  <2> QED BY <1>1, <2>2, <2>3, <2>5, <2>7 DEF Time
<1> QED BY <1>3, <1>4, <1>5, <1>6 DEF NoEvent

\* The end of an arrival callback: the job has been submitted and the next one
\* is on its way.
LEMMA ArrivalEnds ==
  ASSUME TimeInv, EventInv, NEW e \in sim.queue, First(e), e.type = "ARRIVAL",
         NEW s, During(s, e), Same(sim, s, e, "ARRIVAL"), Arrived(s, e), ~ sim'.failed
  PROVE  /\ EventInv' /\ ~ s.failed /\ sim'.completionEvent = s.completionEvent
         /\ \A f : f.type = "COMPLETION" => (f \in sim'.queue <=> f \in s.queue)
         /\ Submitted' = Submitted \cup {read} /\ read \notin Submitted
         /\ Finished' = Finished /\ UNCHANGED <<trace, policy, output>>
<1>1. /\ read \in Jobs /\ trace \in Traces /\ Len(trace) \in Nat
      /\ Submitted = {j \in Jobs : j < read}
  <2>1. trace \in Traces
    BY DEF TimeInv
  <2>2. Len(trace) \in Nat
    BY <2>1, SimulatorAssumption
  <2> QED BY <2>1, <2>2, ArrivalBegins
<1>2. UNCHANGED <<trace, policy, output>> /\ Jobs' = Jobs
  BY DEF Arrived, Jobs
<1>3. PICK s1 : s1 = traceScheduleNextArrival(s) /\ sim' = simulatorRemoveEvent(s1, e.id)
  BY DEF Arrived
<1>4. ~ s1.failed
  <2>1. s \in SimType
    BY DEF During
  <2>2. DOMAIN s1 = DOMAIN s /\ DOMAIN s = {"queue", "simTime", "id", "completionEvent", "failed"}
    BY <1>3, <2>1 DEF SimType, traceScheduleNextArrival, simulatorSchedule
  <2> QED BY <1>3, <2>2 DEF simulatorRemoveEvent
<1>5. /\ During(s1, e) /\ s1.completionEvent = s.completionEvent
      /\ ~ s.failed /\ Same(s, s1, e, "COMPLETION")
      /\ read = Len(trace) => s1 = s
      /\ read < Len(trace) => Announced(s, s1)
  BY <1>1, <1>3, <1>4, ArrivalScheduled
<1>6. /\ sim'.queue = s1.queue \ {e} /\ IdsOK(sim')
      /\ Pending(sim'.queue, sim'.completionEvent)
      /\ sim'.completionEvent = s1.completionEvent
  <2>1. PICK r : r = sim'
    OBVIOUS
  <2>2. /\ r.queue = s1.queue \ {e} /\ IdsOK(r)
        /\ Pending(r.queue, r.completionEvent) /\ r.completionEvent = s1.completionEvent
    BY <1>3, <1>5, <2>1, EventRemoved
  <2> QED BY <2>1, <2>2
<1>7. \A f \in s.queue \ {e} : f.type # "ARRIVAL"
  BY DEF Same, EventInv
<1>8. CASE read = Len(trace)
  <2>1. read' = read /\ s1 = s
    BY <1>1, <1>5, <1>8 DEF Arrived
  <2>2. \A f \in sim'.queue : f.type # "ARRIVAL"
    BY <1>6, <1>7, <2>1
  <2>3. EventInv'
    BY <1>2, <1>6, <1>8, <2>1, <2>2 DEF EventInv
  <2>4. Submitted' = Submitted \cup {read} /\ read \notin Submitted
    BY <1>1, <1>2, <2>1, <2>2 DEF Submitted, Jobs
  <2> QED BY <1>2, <1>5, <1>6, <2>3, <2>4 DEF Same, Finished
<1>9. CASE read < Len(trace)
  <2>1. read' = read + 1
    BY <1>9 DEF Arrived
  <2>2. PICK n : /\ n.type = "ARRIVAL" /\ n.time = trace[read + 1].arrival
                 /\ n \notin s.queue /\ s1.queue = s.queue \cup {n}
    BY <1>5, <1>9 DEF Announced
  <2>3. n \in sim'.queue /\ \A f \in sim'.queue : f.type = "ARRIVAL" => f = n
    BY <1>6, <1>7, <2>2 DEF During
  <2>4. EventInv'
    BY <1>2, <1>6, <2>1, <2>2, <2>3 DEF EventInv
  <2>5. Submitted' = Submitted \cup {read} /\ read \notin Submitted
    BY <1>1, <1>2, <2>1, <2>2, <2>3 DEF Submitted, Jobs
  <2> QED BY <1>2, <1>5, <1>6, <2>4, <2>5 DEF Same, Finished
<1> QED BY <1>1, <1>8, <1>9 DEF Jobs

\* The end of a completion callback that wrote job j to the output, or none.
LEMMA CompletionEnds ==
  ASSUME TimeInv, EventInv, NEW e \in sim.queue, First(e), e.type = "COMPLETION",
         NEW s, During(s, e), Same(sim, s, e, "ARRIVAL"),
         NEW j \in Jobs \cup {NoJob}, Completed(s, e, j)
  PROVE  /\ EventInv' /\ s.failed = sim'.failed /\ sim'.completionEvent = s.completionEvent
         /\ sim'.queue = s.queue \ {e} /\ sim'.simTime = s.simTime
         /\ Submitted' = Submitted /\ Finished' = Finished \cup ({j} \ {NoJob})
         /\ UNCHANGED <<trace, policy, read>>
<1>1. UNCHANGED <<trace, policy, read>> /\ Jobs' = Jobs
  BY DEF Completed, Jobs
<1>2. /\ sim'.queue = s.queue \ {e} /\ IdsOK(sim') /\ Pending(sim'.queue, sim'.completionEvent)
      /\ sim'.completionEvent = s.completionEvent /\ s.failed = sim'.failed
      /\ sim'.simTime = s.simTime
  <2>1. PICK r : r = sim'
    OBVIOUS
  <2>2. /\ r.queue = s.queue \ {e} /\ IdsOK(r) /\ r.failed = s.failed /\ r.simTime = s.simTime
        /\ Pending(r.queue, r.completionEvent) /\ r.completionEvent = s.completionEvent
    BY <2>1, EventRemoved DEF Completed
  <2> QED BY <2>1, <2>2
<1>3. \A f : f.type = "ARRIVAL" => (f \in sim'.queue <=> f \in sim.queue)
  BY <1>2 DEF Same
<1>4. EventInv'
  BY <1>1, <1>2, <1>3 DEF EventInv
<1>5. Submitted' = Submitted
  BY <1>1, <1>3 DEF Submitted
<1>6. Finished' = Finished \cup ({j} \ {NoJob})
  <2>1. CASE j = NoJob
    BY <2>1 DEF Completed, Finished
  <2>2. CASE j # NoJob
    <3>1. PICK o : o = [job |-> j, time |-> e.time]
      OBVIOUS
    <3>2. PICK S : output \in Seq(S) /\ o \in S
      <4>1. e.time \in Time
        BY EnteredSound
      <4> QED BY <2>2, <3>1, <4>1 DEF TimeInv
    <3>3. output' = Append(output, o) /\ o.job = j
      BY <2>2, <3>1 DEF Completed
    <3>4. /\ DOMAIN output' = 1 .. (Len(output) + 1) /\ DOMAIN output = 1 .. Len(output)
          /\ Len(output) \in Nat /\ output'[Len(output) + 1] = o
          /\ \A i \in 1 .. Len(output) : output'[i] = output[i]
      BY <3>2, <3>3
    <3>5. \A i \in DOMAIN output' : i \in DOMAIN output \/ i = Len(output) + 1
      BY <3>4
    <3>6. \A i \in DOMAIN output : i \in DOMAIN output'
      BY <3>4
    <3>7. Len(output) + 1 \in DOMAIN output'
      BY <3>4
    <3> QED BY <2>2, <3>3, <3>4, <3>5, <3>6, <3>7 DEF Finished
  <2> QED BY <2>1, <2>2
<1> QED BY <1>1, <1>2, <1>4, <1>5, <1>6

-----------------------------------------------------------------------------
(* The jobs.                                                               *)

\* Job j, whose service ends at time t, was rightly preferred to those that
\* were there when it began.
Rightly(j, t) ==
  \A i \in Jobs \ Finished : i # j /\ trace[i].arrival < t - Size(j) => Preferred(j, i)

\* FCFS, LCFS and SJF keep exactly the jobs in the system in their list and
\* serve one of them.
ListInv ==
  policy # "MLFQ" =>
    /\ Falling(jobQueue) /\ Members(jobQueue) = InSystem
    /\ IF jobQueue = <<>> THEN policy # "FCFS" => running = NoJob
                          ELSE Serving \in Members(jobQueue)
    /\ \A j \in Jobs : rem[j] = Size(j)
    /\ \A f \in sim.queue : f.type = "COMPLETION" => Rightly(Serving, f.time)

\* The slice of a job of which so much is left.
Slice(left) == IF left < 1 THEN left ELSE 1

\* The completion in Q ends a slice that began at time t.
SliceEnds(Q, t, left) == \A f \in Q : f.type = "COMPLETION" => f.time = t + Slice(left)

\* A job that has run for n slices is on level n, or on the lowest one.
Charged(j, left, l) ==
  /\ left <= Size(j)
  /\ l = IF Size(j) - left < MAX_MLFQ_LEVELS THEN Size(j) - left ELSE MAX_MLFQ_LEVELS - 1

\* MLFQ keeps the jobs in the system in its queues, the one that runs aside,
\* and lets it run for no more than one unit of time.
LevelInv ==
  policy = "MLFQ" =>
    /\ QueuesOK(queues, level) /\ ~ In(queues, running)
    /\ \A j \in Jobs : In(queues, j) \/ j = running <=> j \in InSystem
    /\ running = NoJob => Idle(queues)
    /\ running # NoJob => \A l \in 0 .. (level[running] - 1) : queues[l] = <<>>
    /\ \A j \in Jobs \ Finished : Charged(j, rem[j], level[j])
    /\ \A j \in Jobs \ Submitted : rem[j] = Size(j)
    /\ SliceEnds(sim.queue, lastTime, rem[running])

\* When the submitted work is done if no time is wasted.
End == DrainOf(trace)[Cardinality(Submitted)]

\* The pending completion and what is left after it end just then.
WorkInv ==
  /\ InSystem = {} => End <= sim.simTime /\ (output # <<>> => output[Len(output)].time = End)
  /\ \A f \in sim.queue : f.type = "COMPLETION" =>
       f.time + LeftAfter(Serving) + WorkOf(trace, rem, InSystem \ {Serving}) = End

\* Every job is written at most once, and only when it was submitted.
OutputInv ==
  /\ Finished \subseteq Submitted
  /\ \A i, k \in DOMAIN output : output[i].job = output[k].job => i = k

BusyInv == sim.completionEvent = NoEvent <=> InSystem = {}

\* The inductive invariant, as long as no assert has stopped the simulation.
JobInv == EventInv /\ OutputInv /\ BusyInv /\ WorkInv /\ ListInv /\ LevelInv

LEMMA PlusAtMost ==
  ASSUME NEW a \in Nat, NEW b \in Nat
  PROVE  Plus(a, b) \in Nat /\ Plus(a, b) <= a + b
BY SimulatorAssumption DEF Plus

LEMMA PlusTime ==
  ASSUME NEW a \in Time, NEW b \in Time
  PROVE  Plus(a, b) \in Time
<1>1. a \in Nat /\ b \in Nat
  BY DEF Time
<1> QED BY <1>1, PlusInRange

\* A sum that does not lie in the past has not wrapped around.
LEMMA NoWrap ==
  ASSUME NEW a \in Time, NEW b \in Time, Plus(a, b) >= a
  PROVE  Plus(a, b) = a + b
<1>1. TimeRange \in Nat \ {0} /\ a \in Nat /\ b \in Nat /\ a < TimeRange /\ b < TimeRange
  BY SimulatorAssumption DEF Time
<1>2. CASE a + b < TimeRange
  BY <1>1, <1>2 DEF Plus
<1>3. CASE ~ (a + b < TimeRange)
  <2>1. (a + b) % TimeRange = a + b - TimeRange
    BY <1>1, <1>3
  <2> QED BY <1>1, <2>1 DEF Plus
<1> QED BY <1>2, <1>3

-----------------------------------------------------------------------------
(* Work is conserved.                                                      *)

\* Submitted jobs are the first ones of the trace.
LEMMA HowMany ==
  ASSUME trace \in Traces, read \in Jobs, Submitted = {j \in Jobs : j < read}
  PROVE  Cardinality(Submitted) = read - 1 /\ Cardinality(Submitted \cup {read}) = read
<1>1. Len(trace) \in Nat
  BY SimulatorAssumption
<1>2. ASSUME NEW n \in Nat PROVE Cardinality(1 .. n) = n
  <2>1. Cardinality(1 .. n) = IF 1 > n THEN 0 ELSE n - 1 + 1
    BY FS_Interval
  <2> QED BY <2>1
<1>3. read - 1 \in Nat /\ read \in Nat
  BY <1>1 DEF Jobs
<1>4. Submitted = 1 .. (read - 1) /\ Submitted \cup {read} = 1 .. read
  BY <1>1, <1>3 DEF Jobs
<1> QED BY <1>2, <1>3, <1>4

\* An arrival puts the end off by the size of the job, or starts afresh.
LEMMA EndArrival ==
  ASSUME TimeInv, EventInv, NEW e \in sim.queue, First(e), e.type = "ARRIVAL",
         trace' = trace, Submitted' = Submitted \cup {read}
  PROVE  /\ End \in Nat /\ End' \in Nat /\ e.time \in Nat /\ Size(read) \in Nat
         /\ End <= e.time => End' = e.time + Size(read)
         /\ End >= e.time => End' = End + Size(read)
<1>1. /\ trace \in Traces /\ read \in Jobs /\ Submitted = {j \in Jobs : j < read}
      /\ e.time = trace[read].arrival
  BY ArrivalBegins DEF TimeInv
<1>2. PICK d : d = DrainOf(trace)[read - 1]
  OBVIOUS
<1>3. PICK d1 : d1 = DrainOf(trace)[read]
  OBVIOUS
<1>4. End = d /\ End' = d1
  BY <1>1, <1>2, <1>3, HowMany DEF End
<1>5. PICK a, c : a = trace[read].arrival /\ c = trace[read].size
  OBVIOUS
<1>6. read \in 1 .. Len(trace)
  BY <1>1 DEF Jobs
<1>7. /\ d \in Nat /\ a \in Nat /\ c \in Nat /\ d1 \in Nat
      /\ d <= a => d1 = a + c
      /\ d >= a => d1 = d + c
  BY <1>1, <1>2, <1>3, <1>5, <1>6, DrainNext
<1> QED BY <1>1, <1>4, <1>5, <1>7 DEF Size

\* The remaining times as numbers.
LEMMA Remaining ==
  ASSUME TimeInv, NEW r, r \in [Jobs -> Time]
  PROVE  /\ Timed(trace, Len(trace), r) /\ Jobs = 1 .. Len(trace)
         /\ \A x \in Jobs : r[x] \in Nat
<1>1. Len(trace) \in Nat /\ Time \subseteq Nat
  BY SimulatorAssumption DEF TimeInv, Time
<1> QED BY <1>1 DEF Jobs, Timed

\* What is left of the jobs in S is done at time d if they are served from t on.
Ends(t, r, S, d) == t + WorkOf(trace, r, S) = d

\* One of them is served first.
LEMMA WorkBegins ==
  ASSUME TimeInv, NEW r, r \in [Jobs -> Time], NEW S, NEW x, x \in Jobs, x \in S,
         NEW t, t \in Nat, NEW d, Ends(t, r, S, d),
         NEW y, y = t + r[x], NEW R, R = S \ {x}
  PROVE  Ends(y, r, R, d)
<1>1. PICK tr, n : tr = trace /\ n = Len(trace)
  OBVIOUS
<1>2. Timed(tr, n, r) /\ x \in 1 .. n /\ r[x] \in Nat
  BY <1>1, Remaining
<1>3. WorkOf(tr, r, R) \in Nat /\ WorkOf(tr, r, S) = r[x] + WorkOf(tr, r, R)
  BY <1>2, WorkOfServed
<1>4. PICK u, v \in Nat : u = WorkOf(tr, r, S) /\ v = WorkOf(tr, r, R) /\ u = r[x] + v
  BY <1>2, <1>3
<1> QED BY <1>1, <1>2, <1>4 DEF Ends

\* What is served from the arrival on is all there is.
LEMMA WorkWhole ==
  ASSUME TimeInv, SchedInv, EventInv, WorkInv, NEW e \in sim.queue, First(e), e.type = "ARRIVAL",
         trace' = trace, Submitted' = Submitted \cup {read}, InSystem \subseteq Submitted,
         rem[read] = Size(read),
         NEW S, S = InSystem \cup {read},
         InSystem = {} \/ e.time + WorkOf(trace, rem, InSystem) = End
  PROVE  e.time + WorkOf(trace, rem, S) = End'
<1>1. PICK tr, n, r : tr = trace /\ n = Len(trace) /\ r = rem
  OBVIOUS
<1>2. /\ Timed(tr, n, r) /\ read \in 1 .. n /\ r[read] \in Nat
      /\ Submitted = {j \in Jobs : j < read}
  BY <1>1, Remaining, ArrivalBegins DEF SchedInv
<1>3. PICK I : I = InSystem
  OBVIOUS
<1>4. Joins(read, I, S)
  <2>1. read \notin Submitted
    BY <1>2
  <2> QED BY <1>3, <2>1 DEF Joins
<1>5. WorkOf(tr, r, I) \in Nat /\ WorkOf(tr, r, S) = WorkOf(tr, r, I) + r[read]
  BY <1>2, <1>4, WorkOfOneMore
<1>6. /\ End \in Nat /\ End' \in Nat /\ e.time \in Nat /\ Size(read) \in Nat
      /\ End <= e.time => End' = e.time + Size(read)
      /\ End >= e.time => End' = End + Size(read)
  BY EndArrival
<1>7. PICK u, v \in Nat : u = WorkOf(tr, r, S) /\ v = WorkOf(tr, r, I) /\ u = v + r[read]
  BY <1>2, <1>5
<1>8. CASE I = {}
  <2>1. v = 0
    BY <1>2, <1>7, <1>8, WorkOfNobody
  <2>2. End <= sim.simTime /\ sim.simTime <= e.time /\ sim.simTime \in Nat
    BY <1>3, <1>8, EnteredSound DEF WorkInv, TimeInv, Sound, SimType, Time
  <2> QED BY <1>1, <1>2, <1>6, <1>7, <2>1, <2>2
<1>9. CASE I # {}
  <2>1. e.time + v = End
    BY <1>1, <1>3, <1>7, <1>9
  <2>2. End' = End + Size(read)
    BY <1>6, <1>7, <2>1
  <2>3. u = v + Size(read)
    BY <1>1, <1>7
  <2>4. e.time + u = End'
    BY <1>6, <1>7, <2>1, <2>2, <2>3
  <2> QED BY <1>1, <1>7, <2>4
<1> QED BY <1>8, <1>9

\* A job joins others that wait.
LEMMA WorkWaits ==
  ASSUME TimeInv, SchedInv, EventInv, WorkInv, NEW e \in sim.queue, First(e), e.type = "ARRIVAL",
         trace' = trace, Submitted' = Submitted \cup {read}, InSystem \subseteq Submitted,
         rem[read] = Size(read),
         NEW S, S = (InSystem \cup {read}) \ {Serving}, Serving \in InSystem,
         NEW l \in Nat, l = LeftAfter(Serving),
         NEW f \in sim.queue, f.type = "COMPLETION"
  PROVE  f.time + l + WorkOf(trace, rem, S) = End'
<1>1. PICK tr, n, r : tr = trace /\ n = Len(trace) /\ r = rem
  OBVIOUS
<1>2. /\ Timed(tr, n, r) /\ read \in 1 .. n /\ r[read] \in Nat
      /\ Submitted = {j \in Jobs : j < read} /\ e.time < f.time
  BY <1>1, Remaining, ArrivalBegins DEF SchedInv
<1>3. PICK I : I = InSystem \ {Serving}
  OBVIOUS
<1>4. Joins(read, I, S)
  <2>1. read \notin Submitted
    BY <1>2
  <2> QED BY <1>3, <2>1 DEF Joins
<1>5. WorkOf(tr, r, I) \in Nat /\ WorkOf(tr, r, S) = WorkOf(tr, r, I) + r[read]
  BY <1>2, <1>4, WorkOfOneMore
<1>6. /\ End \in Nat /\ End' \in Nat /\ e.time \in Nat /\ Size(read) \in Nat
      /\ End <= e.time => End' = e.time + Size(read)
      /\ End >= e.time => End' = End + Size(read)
  BY EndArrival
<1>7. PICK u, v \in Nat : u = WorkOf(tr, r, S) /\ v = WorkOf(tr, r, I) /\ u = v + r[read]
  BY <1>2, <1>5
<1>8. f.time + l + v = End /\ f.time \in Nat
  <2>1. f.time \in Nat
    BY DEF TimeInv, Sound, SimType, Event
  <2>2. f.time + l + v = End
    BY <1>1, <1>3, <1>7 DEF WorkInv
  <2> QED BY <2>1, <2>2
<1>9. End >= e.time
  BY <1>2, <1>6, <1>7, <1>8
<1>10. End' = End + Size(read) /\ u = v + Size(read)
  BY <1>1, <1>6, <1>7, <1>9
<1>11. f.time + l + u = End'
  BY <1>6, <1>7, <1>8, <1>10
<1> QED BY <1>1, <1>7, <1>11

\* The job j that was served is done, or has had its slice.
Served(j, r, S) ==
  \/ LeftAfter(j) = 0 /\ S = InSystem \ {j}
  \/ LeftAfter(j) = r[j] /\ S = InSystem

LEMMA WorkLeft ==
  ASSUME TimeInv, SchedInv, WorkInv, NEW f \in sim.queue, f.type = "COMPLETION",
         NEW j \in Jobs, j = Serving, j \in InSystem, NEW r, r \in [Jobs -> Time],
         \A x \in Jobs \ {j} : r[x] = rem[x], NEW S, Served(j, r, S)
  PROVE  f.time + WorkOf(trace, r, S) = End
<1>1. PICK tr, n, r0 : tr = trace /\ n = Len(trace) /\ r0 = rem
  OBVIOUS
<1>2. Timed(tr, n, r) /\ j \in 1 .. n /\ r[j] \in Nat
  BY <1>1, Remaining
<1>3. Timed(tr, n, r0)
  BY <1>1, Remaining DEF SchedInv
<1>4. f.time \in Nat
  BY DEF TimeInv, Sound, SimType, Event
<1>5. PICK R, I : R = I \ {j} /\ I = InSystem
  OBVIOUS
<1>6. Agree(n, r0, r, R)
  BY <1>1, <1>5 DEF Agree, Jobs
<1>7. WorkOf(tr, r, R) = WorkOf(tr, r0, R)
  BY <1>2, <1>3, <1>6, WorkOfAgreed
<1>8. f.time + LeftAfter(j) + WorkOf(tr, r0, R) = End
  BY <1>1, <1>5 DEF WorkInv
<1>9. WorkOf(tr, r, R) \in Nat /\ WorkOf(tr, r, I) = r[j] + WorkOf(tr, r, R)
  <2>1. j \in I
    BY <1>5
  <2> QED BY <1>2, <1>5, <2>1, WorkOfServed
<1>10. PICK u, v \in Nat : u = WorkOf(tr, r, I) /\ v = WorkOf(tr, r, R) /\ u = r[j] + v
  BY <1>2, <1>9
<1>11. f.time + LeftAfter(j) + v = End
  BY <1>7, <1>8, <1>10
<1>12. CASE LeftAfter(j) = 0 /\ S = InSystem \ {j}
  <2>1. WorkOf(trace, r, S) = v
    BY <1>1, <1>5, <1>10, <1>12
  <2> QED BY <1>4, <1>10, <1>11, <1>12, <2>1
<1>13. CASE LeftAfter(j) = r[j] /\ S = InSystem
  <2>1. WorkOf(trace, r, S) = u
    BY <1>1, <1>5, <1>10, <1>13
  <2> QED BY <1>2, <1>4, <1>10, <1>11, <1>13, <2>1
<1> QED BY <1>12, <1>13 DEF Served

\* The jobs in S are left at time t; job x, of which l is left after its slice,
\* is served first.
Resumes(t, r, S, x, l) ==
  /\ S = {} => sim'.simTime = t /\ (output' # <<>> => output'[Len(output')].time = t)
  /\ S # {} => x \in S /\ x \in Jobs /\ Serving' = x /\ LeftAfter(x)' = l
  /\ \A f \in sim'.queue : f.type = "COMPLETION" => S # {} /\ f.time + l = t + r[x]

LEMMA WorkNext ==
  ASSUME TimeInv, trace' = trace, NEW r, r \in [Jobs -> Time], rem' = r,
         NEW S, InSystem' = S, NEW d, End' = d, NEW t, t \in Nat, Ends(t, r, S, d),
         NEW x, NEW l, Resumes(t, r, S, x, l)
  PROVE  WorkInv'
<1> USE DEF Resumes
<1>1. CASE S = {}
  <2>1. PICK tr, n : tr = trace /\ n = Len(trace)
    OBVIOUS
  <2>2. Timed(tr, n, r)
    BY <2>1, Remaining
  <2>3. WorkOf(tr, r, {}) = 0
    BY <2>2, WorkOfNobody
  <2>4. t = d
    BY <1>1, <2>1, <2>3 DEF Ends
  <2> QED BY <1>1, <2>4 DEF WorkInv
<1>2. CASE S # {}
  <2>1. PICK y, R : y = t + r[x] /\ R = S \ {x}
    OBVIOUS
  <2>2. Ends(y, r, R, d)
    BY <1>2, <2>1, WorkBegins
  <2>3. y + WorkOf(trace, r, R) = d
    BY <2>2 DEF Ends
  <2>4. \A f \in sim'.queue : f.type = "COMPLETION" => f.time + l + WorkOf(trace, r, R) = d
    BY <2>1, <2>3
  <2>5. LeftAfter(Serving)' = l
    BY <1>2 DEF LeftAfter
  <2> QED BY <1>2, <2>1, <2>4, <2>5 DEF WorkInv
<1> QED BY <1>1, <1>2

-----------------------------------------------------------------------------
(* FCFS, LCFS and SJF.                                                     *)

\* An assert that has failed stays failed.
LEMMA ArrivalFails ==
  ASSUME NEW s \in SimType, NEW e, Arrived(s, e), ~ sim'.failed
  PROVE  ~ s.failed
<1>1. PICK s1 : s1 = traceScheduleNextArrival(s) /\ sim' = simulatorRemoveEvent(s1, e.id)
  BY DEF Arrived
<1>2. /\ DOMAIN s1 = DOMAIN s /\ DOMAIN s = {"queue", "simTime", "id", "completionEvent", "failed"}
      /\ s.failed => s1.failed
  BY <1>1 DEF SimType, traceScheduleNextArrival, simulatorSchedule
<1> QED BY <1>1, <1>2 DEF simulatorRemoveEvent

LEMMA CompletionFails ==
  ASSUME NEW s \in SimType, NEW e, NEW j, Completed(s, e, j)
  PROVE  sim'.failed = s.failed
<1>1. DOMAIN s = {"queue", "simTime", "id", "completionEvent", "failed"}
  BY DEF SimType
<1> QED BY <1>1 DEF Completed, simulatorRemoveEvent

LEMMA RightlyNext ==
  ASSUME UNCHANGED <<trace, policy>>, NEW n, Serving' = n, NEW t,
         \A i \in Jobs \ Finished' : i # n /\ trace[i].arrival < t - Size(n) => Preferred(n, i)
  PROVE  Rightly(Serving, t)'
BY DEF Rightly, Preferred, Size, Jobs

LEMMA SeqInLarger ==
  ASSUME NEW S, NEW T, S \subseteq T, NEW q \in Seq(S)
  PROVE  q \in Seq(T)
<1>1. Len(q) \in Nat /\ DOMAIN q = 1 .. Len(q) /\ \A i \in 1 .. Len(q) : q[i] \in T
  OBVIOUS
<1>2. q = [i \in 1 .. Len(q) |-> q[i]]
  OBVIOUS
<1>3. q \in [1 .. Len(q) -> T]
  BY <1>1, <1>2
<1> QED BY <1>1, <1>3

\* The jobs of the trace are numbers.
LEMMA JobsAreNumbers ==
  ASSUME TimeInv, SchedInv
  PROVE  jobQueue \in Seq(Nat) /\ Jobs \subseteq Nat \ {0} /\ Members(jobQueue) \subseteq Jobs
<1>1. Jobs \subseteq Nat \ {0} /\ jobQueue \in Seq(Jobs)
  BY DEF Jobs, SchedInv
<1>2. jobQueue \in Seq(Nat)
  <2>1. Jobs \subseteq Nat
    BY <1>1
  <2> QED BY <1>1, <2>1, SeqInLarger
<1> QED BY <1>1, <1>2 DEF Members

\* A list with no members is empty.
LEMMA EmptyList ==
  ASSUME NEW S, NEW q \in Seq(S)
  PROVE  Members(q) = {} <=> q = <<>>
<1>1. q # <<>> => 1 \in DOMAIN q
  OBVIOUS
<1> QED BY <1>1 DEF Members

\* The arrival of a job: it is served if nobody else is.
LEMMA ListArrival ==
  ASSUME TimeInv, SchedInv, JobInv, policy # "MLFQ",
         NEW e \in sim.queue, First(e), e.type = "ARRIVAL",
         NEW s, s = IF jobQueue = <<>>
                    THEN schedulerScheduleNextCompletion(Entered(e), Plus(e.time, Size(read)))
                    ELSE Entered(e),
         Arrived(s, e), jobQueue' = list_insert(jobQueue, read), rem' = rem, ~ sim'.failed,
         NEW n, Serving' = n, n = IF jobQueue = <<>> THEN read ELSE Serving
  PROVE  JobInv'
<1>1. /\ During(Entered(e), e) /\ Entered(e).queue = sim.queue
      /\ Entered(e).completionEvent = sim.completionEvent
      /\ Entered(e).simTime = e.time /\ Entered(e).failed = FALSE
      /\ e.time = trace[read].arrival /\ read \in Jobs
      /\ Submitted = {j \in Jobs : j < read}
      /\ e.time \in Time /\ Size(read) \in Time
  BY ArrivalBegins, ArrivalFacts DEF JobInv
<1>2. /\ EventInv /\ OutputInv /\ BusyInv /\ WorkInv
      /\ Falling(jobQueue) /\ Members(jobQueue) = InSystem
      /\ jobQueue # <<>> => Serving \in Members(jobQueue)
      /\ \A j \in Jobs : rem[j] = Size(j)
      /\ \A f \in sim.queue : f.type = "COMPLETION" => Rightly(Serving, f.time)
  BY DEF JobInv, ListInv
<1>3. /\ jobQueue \in Seq(Nat) /\ Jobs \subseteq Nat \ {0} /\ Members(jobQueue) \subseteq Jobs
      /\ Members(jobQueue) = {} <=> jobQueue = <<>>
  BY JobsAreNumbers, EmptyList
<1>4. ~ s.failed
  <2>1. s \in SimType
    BY <1>1, ArrivalFacts DEF Follows, Sound
  <2> QED BY <2>1, ArrivalFails
<1>5. /\ During(s, e) /\ Same(sim, s, e, "ARRIVAL") /\ s.completionEvent # NoEvent
      /\ jobQueue = <<>> => \A f \in s.queue \ {e} : f.type = "COMPLETION" =>
                              f.time \in Nat /\ f.time = e.time + Size(read)
  <2>1. CASE jobQueue # <<>>
    BY <1>1, <1>2, <1>3, <2>1 DEF BusyInv, Same
  <2>2. CASE jobQueue = <<>>
    <3>1. sim.completionEvent = NoEvent
      BY <1>2, <1>3, <2>2 DEF BusyInv
    <3>2. PICK t \in Time : t = Plus(e.time, Size(read))
      BY <1>1, PlusTime
    <3>3. /\ During(s, e) /\ s.completionEvent # NoEvent /\ Same(Entered(e), s, e, "ARRIVAL")
          /\ t >= e.time /\ \A f \in s.queue \ {e} : f.type = "COMPLETION" => f.time = t
      BY <1>1, <1>4, <2>2, <3>1, <3>2, CompletionScheduled
    <3>4. t = e.time + Size(read) /\ t \in Nat
      BY <1>1, <3>2, <3>3, NoWrap DEF Time
    <3> QED BY <1>1, <3>3, <3>4 DEF Same
  <2> QED BY <2>1, <2>2
<1>6. /\ EventInv' /\ sim'.completionEvent = s.completionEvent
      /\ \A f : f.type = "COMPLETION" => (f \in sim'.queue <=> f \in s.queue)
      /\ Submitted' = Submitted \cup {read} /\ read \notin Submitted
      /\ Finished' = Finished /\ UNCHANGED <<trace, policy, output>>
  BY <1>2, <1>5, ArrivalEnds
<1>7. InSystem' = InSystem \cup {read} /\ OutputInv'
  BY <1>2, <1>6 DEF InSystem, OutputInv
<1>8. BusyInv'
  BY <1>5, <1>6, <1>7 DEF BusyInv
<1>9. /\ Falling(jobQueue') /\ Members(jobQueue') = InSystem' /\ jobQueue' # <<>>
      /\ n \in Members(jobQueue')
  <2>1. \A i \in DOMAIN jobQueue : jobQueue[i] < read
    <3>1. \A j \in Members(jobQueue) : j < read
      BY <1>1, <1>2 DEF InSystem
    <3> QED BY <3>1 DEF Members
  <2>2. /\ Falling(list_insert(jobQueue, read)) /\ list_insert(jobQueue, read) # <<>>
        /\ Members(list_insert(jobQueue, read)) = Members(jobQueue) \cup {read}
    BY <1>1, <1>2, <1>3, <2>1, InsertFalling
  <2> QED BY <1>2, <1>7, <2>2
<1>10. ASSUME NEW f \in sim'.queue, f.type = "COMPLETION" PROVE Rightly(Serving, f.time)'
  <2>1. f \in s.queue /\ f # e
    BY <1>6, <1>10
  <2> SUFFICES ASSUME NEW i \in Jobs \ Finished, i # n, trace[i].arrival < f.time - Size(n)
               PROVE  Preferred(n, i)
    BY <1>6, RightlyNext
  <2>2. CASE jobQueue # <<>>
    BY <1>1, <1>2, <1>10, <2>1, <2>2 DEF Rightly
  <2>3. CASE jobQueue = <<>>
    <3>1. sim.completionEvent = NoEvent /\ InSystem = {}
      BY <1>2, <1>3, <2>3 DEF BusyInv
    <3>4. f.time - Size(n) = e.time
      BY <1>1, <1>5, <1>10, <2>1, <2>3 DEF Time
    <3>5. i \in Jobs /\ ~ (i < read) /\ i # read
      BY <1>1, <2>3, <3>1 DEF InSystem
    <3>6. trace[read].arrival <= trace[i].arrival
      <4>1. DOMAIN trace = Jobs
        BY SimulatorAssumption DEF TimeInv, Jobs
      <4>2. read < i
        BY <1>1, <1>3, <3>5
      <4> QED BY <1>1, <3>5, <4>1, <4>2, SimulatorAssumption DEF TimeInv
    <3>7. trace[read].arrival \in Time /\ trace[i].arrival \in Time
      BY <1>1, <3>5, LineInRange DEF TimeInv, Jobs
    <3> QED BY <1>1, <3>4, <3>6, <3>7 DEF Time
  <2> QED BY <2>2, <2>3
<1>11. ListInv'
  <2>1. \A j \in Jobs' : rem'[j] = Size(j)'
    BY <1>2, <1>6 DEF Jobs, Size
  <2> QED BY <1>9, <1>10, <2>1 DEF ListInv
<1>12. LevelInv'
  BY <1>6 DEF LevelInv
<1>13. WorkInv'
  <2>1. rem[read] = Size(read) /\ InSystem \subseteq Submitted /\ InSystem' # {}
    BY <1>1, <1>2, <1>7 DEF InSystem
  <2>2. PICK S : S = InSystem \cup {read}
    OBVIOUS
  <2>3. InSystem' = S /\ LeftAfter(n)' = 0 /\ LeftAfter(Serving) = 0
    BY <1>6, <1>7, <2>2 DEF LeftAfter
  <2>4. PICK R : R = S \ {n}
    OBVIOUS
  <2>5. ASSUME NEW f \in sim'.queue, f.type = "COMPLETION"
        PROVE  f.time + 0 + WorkOf(trace, rem, R) = End'
    <3>1. CASE jobQueue = <<>>
      <4>1. InSystem = {}
        BY <1>2, <1>3, <3>1
      <4>2. e.time + WorkOf(trace, rem, S) = End'
        BY <1>2, <1>6, <2>1, <2>2, <4>1, WorkWhole
      <4>3. f.time \in Nat /\ f.time = e.time + rem[n] /\ n = read
        BY <1>1, <1>5, <1>6, <2>1, <2>5, <3>1
      <4>4. PICK r, y, t, d : r = rem /\ y = f.time /\ t = e.time /\ d = End'
        OBVIOUS
      <4>5. /\ r \in [Jobs -> Time] /\ n \in Jobs /\ n \in S /\ y = t + r[n]
            /\ t \in Nat /\ Ends(t, r, S, d)
        BY <1>1, <2>2, <4>2, <4>3, <4>4 DEF SchedInv, Time, Ends
      <4>6. Ends(y, r, R, d)
        BY <2>4, <4>5, WorkBegins
      <4> QED BY <4>3, <4>4, <4>6 DEF Ends
    <3>2. CASE jobQueue # <<>>
      <4>1. n = Serving /\ n \in InSystem /\ f \in sim.queue
        BY <1>1, <1>2, <1>6, <2>5, <3>2
      <4>2. R = (InSystem \cup {read}) \ {Serving}
        BY <2>2, <2>4, <4>1
      <4> QED BY <1>2, <1>6, <2>1, <2>3, <2>5, <4>1, <4>2, WorkWaits
    <3> QED BY <3>1, <3>2
  <2>6. \A f \in sim'.queue : f.type = "COMPLETION" =>
          f.time + LeftAfter(Serving)' + WorkOf(trace', rem', InSystem' \ {Serving'}) = End'
    BY <1>6, <2>3, <2>4, <2>5
  <2> QED BY <2>1, <2>6 DEF WorkInv
<1> QED BY <1>6, <1>7, <1>8, <1>11, <1>12, <1>13 DEF JobInv

\* The output after a completion.
LEMMA OutputAppended ==
  ASSUME TimeInv, NEW e \in sim.queue, First(e), NEW s, NEW j \in Jobs, Completed(s, e, j)
  PROVE  /\ Len(output) \in Nat /\ DOMAIN output = 1 .. Len(output)
         /\ DOMAIN output' = 1 .. (Len(output) + 1) /\ Len(output') = Len(output) + 1
         /\ output'[Len(output) + 1] = [job |-> j, time |-> e.time]
         /\ \A i \in 1 .. Len(output) : output'[i] = output[i]
<1>1. PICK o : o = [job |-> j, time |-> e.time]
  OBVIOUS
<1>2. PICK S : output \in Seq(S) /\ o \in S
  <2>1. e.time \in Time
    BY EnteredSound
  <2> QED BY <1>1, <2>1 DEF TimeInv
<1>3. output' = Append(output, o)
  BY <1>1 DEF Completed, NoJob, Jobs
<1> QED BY <1>1, <1>2, <1>3

LEMMA OutputNext ==
  ASSUME TimeInv, OutputInv, NEW e \in sim.queue, First(e), NEW s,
         NEW j \in Jobs \cup {NoJob}, j # NoJob => j \in InSystem, Completed(s, e, j),
         Submitted' = Submitted, Finished' = Finished \cup ({j} \ {NoJob})
  PROVE  OutputInv'
<1>1. Finished' \subseteq Submitted'
  BY DEF OutputInv, InSystem
<1>2. CASE j = NoJob
  BY <1>1, <1>2 DEF OutputInv, Completed
<1>3. CASE j # NoJob
  <2>1. /\ Len(output) \in Nat /\ DOMAIN output = 1 .. Len(output)
        /\ DOMAIN output' = 1 .. (Len(output) + 1) /\ output'[Len(output) + 1].job = j
        /\ \A i \in 1 .. Len(output) : output'[i] = output[i]
    <3>1. j \in Jobs
      BY <1>3
    <3>2. /\ Len(output) \in Nat /\ DOMAIN output = 1 .. Len(output)
          /\ DOMAIN output' = 1 .. (Len(output) + 1)
          /\ output'[Len(output) + 1] = [job |-> j, time |-> e.time]
          /\ \A i \in 1 .. Len(output) : output'[i] = output[i]
      BY <3>1, OutputAppended
    <3> QED BY <3>2
  <2>2. \A i \in 1 .. Len(output) : output[i].job # j
    BY <1>3, <2>1 DEF InSystem, Finished
  <2>3. \A i \in DOMAIN output' : i \in 1 .. Len(output) \/ i = Len(output) + 1
    BY <2>1
  <2>4. \A i, k \in DOMAIN output' : output'[i].job = output'[k].job => i = k
    BY <2>1, <2>2, <2>3 DEF OutputInv
  <2> QED BY <1>1, <2>4 DEF OutputInv
<1> QED BY <1>2, <1>3

\* The end of a service: the next job is the one that the policy prefers.
LEMMA ListCompletion ==
  ASSUME TimeInv, SchedInv, JobInv, policy # "MLFQ",
         NEW e \in sim.queue, First(e), e.type = "COMPLETION",
         NEW p \in DOMAIN jobQueue, jobQueue[p] = Serving,
         NEW q, q = list_remove(jobQueue, p), jobQueue' = q, rem' = rem,
         q = <<>> /\ policy # "FCFS" => running' = NoJob,
         NEW n, q # <<>> => /\ Serving' = n /\ n \in Members(q)
                            /\ \A i \in Members(q) \ {n} : Preferred(n, i),
         NEW s, s = IF q = <<>> THEN Forgotten(e)
                    ELSE schedulerScheduleNextCompletion(Forgotten(e), Plus(e.time, Size(n))),
         NEW j, j = Serving, Completed(s, e, j), ~ sim'.failed
  PROVE  JobInv'
<1>1. /\ During(Forgotten(e), e) /\ Forgotten(e).queue = sim.queue
      /\ Forgotten(e).completionEvent = NoEvent /\ Forgotten(e).simTime = e.time
      /\ \A f \in sim.queue \ {e} : f.type # "COMPLETION"
      /\ \A i \in Jobs \ Submitted : e.time <= trace[i].arrival
      /\ e.time \in Time
  BY CompletionBegins, ArrivalFacts DEF JobInv
<1>2. /\ EventInv /\ OutputInv /\ BusyInv /\ WorkInv
      /\ Falling(jobQueue) /\ Members(jobQueue) = InSystem
      /\ \A x \in Jobs : rem[x] = Size(x)
  BY DEF JobInv, ListInv
<1>3. jobQueue \in Seq(Nat) /\ Jobs \subseteq Nat \ {0} /\ Members(jobQueue) \subseteq Jobs
  BY JobsAreNumbers
<1>4. /\ q \in Seq(Nat) /\ Falling(q) /\ Members(q) = InSystem \ {j}
      /\ Members(q) = {} <=> q = <<>>
  <2>1. q \in Seq(Nat) /\ Falling(q) /\ Members(q) = Members(jobQueue) \ {jobQueue[p]}
    BY <1>2, <1>3, RemoveFromList
  <2> QED BY <1>2, <2>1, EmptyList
<1>5. j \in InSystem /\ j \in Jobs /\ j # NoJob
  BY <1>2, <1>3 DEF Members, NoJob
<1>6. q # <<>> => n \in Jobs /\ Size(n) \in Time
  <2>1. q # <<>> => n \in Jobs
    BY <1>2, <1>3, <1>4
  <2> QED BY <2>1, LineInRange DEF TimeInv, Jobs, Size
<1>7. ~ s.failed
  <2>1. s \in SimType
    BY <1>6, ArrivalFacts DEF Follows, Sound
  <2> QED BY <2>1, CompletionFails
<1>8. /\ During(s, e) /\ Same(sim, s, e, "ARRIVAL") /\ (s.completionEvent = NoEvent <=> q = <<>>)
      /\ s.simTime = e.time
      /\ \A f \in s.queue \ {e} : f.type = "COMPLETION" =>
           q # <<>> /\ f.time - Size(n) = e.time /\ f.time = e.time + Size(n)
  <2>1. CASE q = <<>>
    BY <1>1, <2>1 DEF Same
  <2>2. CASE q # <<>>
    <3>1. PICK t \in Time : t = Plus(e.time, Size(n))
      BY <1>1, <1>6, <2>2, PlusTime
    <3>2. /\ During(s, e) /\ s.completionEvent # NoEvent /\ Same(Forgotten(e), s, e, "ARRIVAL")
          /\ t >= e.time /\ \A f \in s.queue \ {e} : f.type = "COMPLETION" => f.time = t
          /\ s.simTime = e.time
      BY <1>1, <1>7, <2>2, <3>1, CompletionScheduled
    <3>3. t - Size(n) = e.time /\ t = e.time + Size(n)
      BY <1>1, <1>6, <2>2, <3>1, <3>2, NoWrap DEF Time
    <3> QED BY <1>1, <2>2, <3>2, <3>3 DEF Same
  <2> QED BY <2>1, <2>2
<1>9. /\ EventInv' /\ sim'.completionEvent = s.completionEvent /\ sim'.queue = s.queue \ {e}
      /\ sim'.simTime = s.simTime
      /\ Submitted' = Submitted /\ Finished' = Finished \cup {j}
      /\ UNCHANGED <<trace, policy, read>>
  BY <1>2, <1>5, <1>8, CompletionEnds
<1>10. InSystem' = InSystem \ {j} /\ OutputInv'
  BY <1>2, <1>5, <1>9, OutputNext DEF InSystem
<1>11. BusyInv'
  BY <1>4, <1>8, <1>9, <1>10 DEF BusyInv
<1>12. ASSUME NEW f \in sim'.queue, f.type = "COMPLETION" PROVE Rightly(Serving, f.time)'
  <2>1. q # <<>> /\ f.time - Size(n) = e.time
    BY <1>8, <1>9, <1>12
  <2> SUFFICES ASSUME NEW i \in Jobs \ Finished', i # n, trace[i].arrival < f.time - Size(n)
               PROVE  Preferred(n, i)
    BY <1>9, <2>1, RightlyNext
  <2>2. trace[i].arrival \in Time
    BY LineInRange DEF TimeInv, Jobs
  <2>3. i \in Submitted
    BY <1>1, <2>1, <2>2 DEF Time
  <2>4. i \in Members(q)
    BY <1>4, <1>9, <2>3 DEF InSystem
  <2> QED BY <2>1, <2>4
<1>13. ListInv'
  <2>1. \A x \in Jobs' : rem'[x] = Size(x)'
    BY <1>2, <1>9 DEF Jobs, Size
  <2> QED BY <1>4, <1>9, <1>10, <1>12, <2>1 DEF ListInv
<1>14. LevelInv'
  BY <1>9 DEF LevelInv
<1>15. WorkInv'
  <2>1. PICK r, S, t, d : r = rem /\ S = InSystem \ {j} /\ t = e.time /\ d = End
    OBVIOUS
  <2>2. LeftAfter(j) = 0 /\ (q # <<>> => LeftAfter(n)' = 0)
    BY <1>9 DEF LeftAfter
  <2>3. Served(j, r, S)
    BY <2>1, <2>2 DEF Served
  <2>4. r \in [Jobs -> Time] /\ \A x \in Jobs \ {j} : r[x] = rem[x]
    BY <2>1 DEF SchedInv
  <2>5. e.time + WorkOf(trace, r, S) = End
    BY <1>2, <1>5, <2>3, <2>4, WorkLeft
  <2>6. End' = d /\ trace' = trace /\ rem' = r /\ InSystem' = S /\ t \in Nat /\ Ends(t, r, S, d)
    BY <1>1, <1>9, <1>10, <2>1, <2>5 DEF End, Ends, Time
  <2>7. sim'.simTime = t /\ output'[Len(output')].time = t
    <3>1. /\ Len(output') = Len(output) + 1
          /\ output'[Len(output) + 1] = [job |-> j, time |-> e.time]
      BY <1>5, OutputAppended
    <3>2. output'[Len(output')].time = e.time
      BY <3>1
    <3> QED BY <1>8, <1>9, <2>1, <3>2
  <2>8. PICK l : l = 0
    OBVIOUS
  <2>9. S # {} => n \in S /\ n \in Jobs /\ Serving' = n /\ LeftAfter(n)' = l
    BY <1>4, <1>6, <2>1, <2>2, <2>8
  <2>10. ASSUME NEW f \in sim'.queue, f.type = "COMPLETION" PROVE S # {} /\ f.time + l = t + r[n]
    <3>1. q # <<>> /\ f.time = e.time + Size(n)
      BY <1>8, <1>9, <2>10
    <3>2. e.time \in Nat /\ Size(n) \in Nat /\ rem[n] = Size(n)
      BY <1>1, <1>2, <1>6, <3>1 DEF Time
    <3> QED BY <1>4, <2>1, <2>8, <3>1, <3>2
  <2>11. Resumes(t, r, S, n, l)
    BY <2>7, <2>9, <2>10 DEF Resumes
  <2> QED BY <2>4, <2>6, <2>11, WorkNext
<1> QED BY <1>9, <1>10, <1>11, <1>13, <1>14, <1>15 DEF JobInv

\* A job that is written has been preferred to whatever waited for it.
LEMMA RespectedNext ==
  ASSUME TimeInv, JobInv, PolicyRespected, policy # "MLFQ",
         NEW e \in sim.queue, First(e), e.type = "COMPLETION",
         NEW s, NEW j \in Jobs, j = Serving, Completed(s, e, j)
  PROVE  PolicyRespected'
<1>1. UNCHANGED <<trace, policy>>
  BY DEF Completed
<1>2. Rightly(j, e.time)
  BY DEF JobInv, ListInv
<1>3. /\ Len(output) \in Nat /\ DOMAIN output = 1 .. Len(output)
      /\ DOMAIN output' = 1 .. (Len(output) + 1)
      /\ output'[Len(output) + 1] = [job |-> j, time |-> e.time]
      /\ \A i \in 1 .. Len(output) : output'[i] = output[i]
  BY OutputAppended
<1> SUFFICES ASSUME NEW p \in DOMAIN output', NEW i \in Jobs,
                    \A k \in 1 .. p : i # output'[k].job,
                    trace[i].arrival < output'[p].time - Size(output'[p].job)
             PROVE  Preferred(output'[p].job, i)
  BY <1>1 DEF PolicyRespected, Preferred, Size, Jobs
<1>4. CASE p = Len(output) + 1
  <2>1. \A k \in DOMAIN output : i # output[k].job
    BY <1>3, <1>4
  <2>2. i # j /\ i \in Jobs \ Finished
    BY <1>3, <1>4, <2>1 DEF Finished
  <2> QED BY <1>2, <1>3, <1>4, <2>2 DEF Rightly
<1>5. CASE p # Len(output) + 1
  <2>1. p \in 1 .. Len(output)
    BY <1>3, <1>5
  <2>2. \A k \in 1 .. p : k \in 1 .. Len(output)
    BY <1>3, <2>1
  <2>3. output'[p] = output[p] /\ \A k \in 1 .. p : i # output[k].job
    BY <1>3, <2>1, <2>2
  <2>4. i \notin {output[k].job : k \in 1 .. p}
    BY <2>3
  <2> QED BY <1>3, <2>1, <2>3, <2>4 DEF PolicyRespected
<1> QED BY <1>4, <1>5

\* What a step of the simulation keeps.
Kept == (~ sim'.failed => JobInv') /\ PolicyRespected'

\* An arrival writes nothing.
LEMMA RespectedArrival ==
  ASSUME PolicyRespected, NEW s, NEW e, Arrived(s, e)
  PROVE  PolicyRespected'
BY DEF PolicyRespected, Arrived, Preferred, Size, Jobs

\* Somebody is in the system when a service ends.
LEMMA ListServing ==
  ASSUME TimeInv, SchedInv, JobInv, policy # "MLFQ",
         NEW e \in sim.queue, First(e), e.type = "COMPLETION"
  PROVE  /\ jobQueue # <<>> /\ Serving \in Members(jobQueue) /\ Serving \in Jobs
         /\ Serving # NoJob
<1>1. sim.completionEvent # NoEvent
  BY CompletionBegins DEF JobInv
<1>2. Members(jobQueue) # {}
  BY <1>1 DEF JobInv, BusyInv, ListInv
<1>3. jobQueue # <<>>
  BY <1>2, EmptyList DEF SchedInv
<1>4. Serving \in Members(jobQueue)
  BY <1>3 DEF JobInv, ListInv
<1> QED BY <1>3, <1>4, JobsAreNumbers DEF NoJob

LEMMA FCFSArrives ==
  ASSUME TimeInv, SchedInv, JobInv, PolicyRespected,
         NEW e \in sim.queue, First(e), e.type = "ARRIVAL", schedulerFCFSScheduleJob(e)
  PROVE  Kept
<1>1. PICK s : s = IF jobQueue = <<>>
                   THEN schedulerScheduleNextCompletion(Entered(e), Plus(e.time, Size(read)))
                   ELSE Entered(e)
  OBVIOUS
<1>2. /\ policy = "FCFS" /\ Arrived(s, e) /\ jobQueue' = list_insert(jobQueue, read)
      /\ rem' = rem
  BY <1>1 DEF schedulerFCFSScheduleJob
<1>3. PICK n : n = IF jobQueue = <<>> THEN read ELSE Serving
  OBVIOUS
<1>4. Serving' = n
  <2>1. PICK S : jobQueue \in Seq(S) /\ read \in S
    BY ArrivalFacts DEF SchedInv
  <2>2. policy' = "FCFS" /\ jobQueue' = <<read>> \o jobQueue
    BY <1>2 DEF Arrived, list_insert
  <2>3. /\ Len(jobQueue') = Len(jobQueue) + 1 /\ Len(jobQueue) \in Nat
        /\ jobQueue'[1] = read /\ \A i \in 1 .. Len(jobQueue) : jobQueue'[i + 1] = jobQueue[i]
    BY <2>1, <2>2
  <2>4. CASE jobQueue = <<>>
    BY <1>3, <2>2, <2>3, <2>4 DEF Serving
  <2>5. CASE jobQueue # <<>>
    <3>1. Len(jobQueue) \in 1 .. Len(jobQueue)
      BY <2>1, <2>5
    <3>2. jobQueue'[Len(jobQueue')] = jobQueue[Len(jobQueue)]
      BY <2>3, <3>1
    <3> QED BY <1>2, <1>3, <2>2, <2>5, <3>2 DEF Serving
  <2> QED BY <2>4, <2>5
<1> QED BY <1>1, <1>2, <1>3, <1>4, ListArrival, RespectedArrival DEF Kept

LEMMA LCFSArrives ==
  ASSUME TimeInv, SchedInv, JobInv, PolicyRespected,
         NEW e \in sim.queue, First(e), e.type = "ARRIVAL",
         schedulerLCFSScheduleJob(e) \/ schedulerSJFScheduleJob(e)
  PROVE  Kept
<1>1. policy \in {"LCFS", "SJF"} /\ (policy = "SJF" => (running = NoJob <=> jobQueue = <<>>))
  <2>1. policy \in {"LCFS", "SJF"}
    BY DEF schedulerLCFSScheduleJob, schedulerSJFScheduleJob
  <2>2. CASE jobQueue = <<>>
    BY <2>1, <2>2 DEF JobInv, ListInv
  <2>3. CASE jobQueue # <<>>
    <3>1. Serving \in Members(jobQueue) /\ Serving = running
      BY <2>1, <2>3 DEF JobInv, ListInv, Serving
    <3> QED BY <2>1, <2>3, <3>1, JobsAreNumbers DEF NoJob
  <2> QED BY <2>1, <2>2, <2>3
<1>2. PICK s : s = IF jobQueue = <<>>
                   THEN schedulerScheduleNextCompletion(Entered(e), Plus(e.time, Size(read)))
                   ELSE Entered(e)
  OBVIOUS
<1>3. /\ Arrived(s, e) /\ jobQueue' = list_insert(jobQueue, read) /\ rem' = rem
      /\ running' = IF jobQueue = <<>> THEN read ELSE running
  BY <1>1, <1>2 DEF schedulerLCFSScheduleJob, schedulerSJFScheduleJob
<1>4. PICK n : n = IF jobQueue = <<>> THEN read ELSE Serving
  OBVIOUS
<1>5. Serving' = n
  BY <1>1, <1>3, <1>4 DEF Serving, Arrived
<1> QED BY <1>1, <1>2, <1>3, <1>4, <1>5, ListArrival, RespectedArrival DEF Kept

LEMMA FCFSCompletes ==
  ASSUME TimeInv, SchedInv, JobInv, PolicyRespected,
         NEW e \in sim.queue, First(e), e.type = "COMPLETION", schedulerFCFSCompleteJob(e)
  PROVE  Kept
<1>1. policy = "FCFS"
  BY DEF schedulerFCFSCompleteJob
<1>2. jobQueue # <<>> /\ Serving \in Jobs /\ jobQueue \in Seq(Nat) /\ Falling(jobQueue)
  BY <1>1, ListServing, JobsAreNumbers DEF JobInv, ListInv
<1>3. PICK p \in DOMAIN jobQueue : p = Len(jobQueue)
  BY <1>2
<1>4. PICK q : q = list_remove(jobQueue, p)
  OBVIOUS
<1>5. /\ q \in Seq(Nat) /\ Falling(q) /\ Len(q) = p - 1 /\ p \in Nat \ {0}
      /\ \A i \in 1 .. (p - 1) : q[i] = jobQueue[i]
  <2>1. q \in Seq(Nat) /\ Falling(q) /\ Len(q) = Len(jobQueue) - 1
    BY <1>2, <1>3, <1>4, RemoveFromList
  <2>2. p \in Nat \ {0}
    BY <1>2, <1>3
  <2>3. \A i \in 1 .. (p - 1) : q[i] = jobQueue[i]
    BY <1>3, <1>4, <2>2 DEF list_remove
  <2> QED BY <1>3, <2>1, <2>2, <2>3
<1>6. PICK n : n = jobQueue[p - 1]
  OBVIOUS
<1>7. q # <<>> <=> p > 1
  BY <1>5
<1>8. q # <<>> => n \in Members(q) /\ q[Len(q)] = n /\ \A i \in Members(q) \ {n} : Preferred(n, i)
  <2> SUFFICES ASSUME q # <<>>
               PROVE  n \in Members(q) /\ q[Len(q)] = n /\ \A i \in Members(q) \ {n} : n < i
    BY <1>1 DEF Preferred
  <2>1. Len(q) \in DOMAIN q /\ q[Len(q)] = n
    BY <1>5, <1>6, <1>7
  <2>2. ASSUME NEW k \in DOMAIN q, q[k] # n PROVE n < q[k]
    <3>1. k < Len(q)
      BY <1>5, <2>1, <2>2
    <3> QED BY <1>5, <2>1, <3>1 DEF Falling
  <2> QED BY <2>1, <2>2 DEF Members
<1>9. PICK s : s = IF q = <<>> THEN Forgotten(e)
                   ELSE schedulerScheduleNextCompletion(Forgotten(e), Plus(e.time, Size(n)))
  OBVIOUS
<1>10. PICK j \in Jobs : j = Serving
  BY <1>2
<1>11. q # <<>> => rem[n] = Size(n)
  <2>1. q # <<>> => p - 1 \in DOMAIN jobQueue
    BY <1>2, <1>3, <1>5, <1>7
  <2>2. q # <<>> => n \in Jobs
    BY <1>6, <2>1 DEF SchedInv
  <2> QED BY <1>1, <2>2 DEF JobInv, ListInv
<1>12. jobQueue[p] = Serving /\ jobQueue' = q /\ rem' = rem /\ Completed(s, e, j)
  BY <1>1, <1>3, <1>4, <1>5, <1>6, <1>7, <1>9, <1>10, <1>11 DEF schedulerFCFSCompleteJob, Serving
<1>13. q # <<>> => Serving' = n
  BY <1>1, <1>8, <1>12 DEF Serving, Completed
<1>14. ~ sim'.failed => JobInv'
  BY <1>1, <1>4, <1>8, <1>9, <1>10, <1>12, <1>13, ListCompletion
<1> QED BY <1>1, <1>10, <1>12, <1>14, RespectedNext DEF Kept

LEMMA LCFSCompletes ==
  ASSUME TimeInv, SchedInv, JobInv, PolicyRespected,
         NEW e \in sim.queue, First(e), e.type = "COMPLETION",
         schedulerLCFSCompleteJob(e) \/ schedulerSJFCompleteJob(e)
  PROVE  Kept
<1>1. policy \in {"LCFS", "SJF"} /\ policy # "MLFQ" /\ policy # "FCFS"
  BY DEF schedulerLCFSCompleteJob, schedulerSJFCompleteJob
<1>2. /\ running \in Members(jobQueue) /\ running \in Jobs /\ running # NoJob
      /\ jobQueue \in Seq(Nat) /\ Falling(jobQueue) /\ jobQueue \in Seq(Jobs)
  BY <1>1, ListServing, JobsAreNumbers DEF JobInv, ListInv, SchedInv, Serving
<1>3. PICK p \in DOMAIN jobQueue : p = list_find(jobQueue, running) /\ jobQueue[p] = running
  BY <1>2, FindInList
<1>4. PICK q : q = list_remove(jobQueue, p)
  OBVIOUS
<1>5. q \in Seq(Nat) /\ Falling(q) /\ q \in Seq(Jobs)
  BY <1>2, <1>4, RemoveFromList, RemoveSeq
<1>6. PICK n : n = IF policy = "LCFS" THEN Head(q) ELSE Shortest(q)
  OBVIOUS
<1>7. q # <<>> => n \in Members(q) /\ \A i \in Members(q) \ {n} : Preferred(n, i)
  <2> SUFFICES ASSUME q # <<>>
               PROVE  n \in Members(q) /\ \A i \in Members(q) \ {n} : Preferred(n, i)
    OBVIOUS
  <2>1. CASE policy = "LCFS"
    <3>1. 1 \in DOMAIN q /\ n = q[1]
      BY <1>5, <1>6, <2>1
    <3>2. ASSUME NEW k \in DOMAIN q, q[k] # n PROVE n > q[k]
      <4>1. 1 < k
        BY <1>5, <3>1, <3>2
      <4> QED BY <1>5, <3>1, <3>2, <4>1 DEF Falling
    <3> QED BY <2>1, <3>1, <3>2 DEF Members, Preferred
  <2>2. CASE policy = "SJF"
    <3>1. n = Shortest(q) /\ trace \in Traces
      BY <1>6, <2>2 DEF TimeInv
    <3>2. /\ n \in Members(q) /\ n \in Jobs
          /\ \A i \in DOMAIN q : \/ Size(n) < Size(q[i])
                                 \/ Size(n) = Size(q[i]) /\ n <= q[i]
      BY <1>5, <3>1, ShortestInQueue DEF Members
    <3>3. ASSUME NEW k \in DOMAIN q, q[k] # n PROVE Preferred(n, q[k])
      <4>1. q[k] \in Nat /\ n \in Nat
        BY <1>5, <3>2 DEF Jobs
      <4>2. Size(n) < Size(q[k]) \/ (Size(n) = Size(q[k]) /\ n < q[k])
        BY <3>2, <3>3, <4>1
      <4> QED BY <2>2, <4>2 DEF Preferred
    <3> QED BY <3>2, <3>3 DEF Members
  <2> QED BY <1>1, <2>1, <2>2
<1>8. PICK s : s = IF q = <<>> THEN Forgotten(e)
                   ELSE schedulerScheduleNextCompletion(Forgotten(e), Plus(e.time, Size(n)))
  OBVIOUS
<1>9. PICK j \in Jobs : j = running
  BY <1>2
<1>10. /\ jobQueue' = q /\ rem' = rem /\ Completed(s, e, j)
       /\ running' = IF q = <<>> THEN NoJob ELSE n
  BY <1>1, <1>2, <1>3, <1>4, <1>6, <1>8, <1>9
     DEF schedulerLCFSCompleteJob, schedulerSJFCompleteJob
<1>11. (q # <<>> => Serving' = n) /\ Serving = j
  BY <1>1, <1>9, <1>10 DEF Serving, Completed
<1>12. ~ sim'.failed => JobInv'
  BY <1>1, <1>3, <1>4, <1>7, <1>8, <1>9, <1>10, <1>11, ListCompletion
<1> QED BY <1>1, <1>9, <1>10, <1>11, <1>12, RespectedNext DEF Kept

-----------------------------------------------------------------------------
(* MLFQ.                                                                   *)

\* Nobody waits in queues that are idle.
LEMMA IdleEmpty ==
  ASSUME NEW J, NEW qs \in [Levels -> Seq(J)]
  PROVE  Idle(qs) <=> \A x : ~ In(qs, x)
<1>1. ASSUME ~ Idle(qs) PROVE \E x : In(qs, x)
  <2>1. PICK l \in Levels : qs[l] # <<>>
    BY <1>1 DEF Idle
  <2>2. qs[l] \in Seq(J)
    OBVIOUS
  <2>3. 1 \in DOMAIN qs[l]
    BY <2>1, <2>2
  <2> QED BY <2>3 DEF In
<1>2. ASSUME Idle(qs), NEW x PROVE ~ In(qs, x)
  BY <1>2 DEF Idle, In
<1> QED BY <1>1, <1>2

\* schedule_next: with a job to run there is a slice, which is at most 1 long.
LEMMA NextServed ==
  ASSUME NEW qs, NEW lv, Filed(qs, lv),
         NEW left, left \in [Jobs -> Time], NEW now, now \in Time, schedule_next(qs, now),
         NEW s, NEW e, During(s, e), s.completionEvent = NoEvent, s.simTime = now,
         NEW r, r = NextSlice(s, qs, left, now), ~ r.failed
  PROVE  /\ During(r, e) /\ Same(s, r, e, "ARRIVAL") /\ r.simTime = now
         /\ r.completionEvent = NoEvent <=> Idle(qs)
         /\ SliceEnds(r.queue \ {e}, lastTime', left[running'])
         /\ ~ Idle(qs) => lastTime' = now /\ running' = NextJob(qs) /\ running' \in Jobs
<1>1. CASE Idle(qs)
  <2>1. r = s
    BY <1>1 DEF NextSlice
  <2>2. \A f \in r.queue \ {e} : f.type # "COMPLETION"
    BY <2>1 DEF During, Pending, SimType, Event, NoEvent
  <2> QED BY <1>1, <2>1, <2>2 DEF Same, SliceEnds
<1>2. CASE ~ Idle(qs)
  <2>1. PICK j : j = NextJob(qs) /\ running' = j /\ lastTime' = now
    BY <1>2 DEF schedule_next, NextJob
  <2>2. j \in Jobs
    <3>1. PICK q : q = WithoutNext(qs)
      OBVIOUS
    <3> QED BY <1>2, <2>1, <3>1, TakeNext
  <2>3. PICK b \in Time : b = Slice(left[j])
    <3>1. left[j] \in Time
      BY <2>2
    <3> QED BY <3>1, SimulatorAssumption DEF Slice, Time
  <2>4. PICK t \in Time : t = Plus(now, b)
    BY PlusTime
  <2>5. r = schedulerScheduleNextCompletion(s, t)
    BY <1>2, <2>1, <2>3, <2>4 DEF NextSlice, NextJob, Slice
  <2>6. /\ During(r, e) /\ r.completionEvent # NoEvent /\ Same(s, r, e, "ARRIVAL")
        /\ r.simTime = now /\ t >= now
        /\ \A f \in r.queue \ {e} : f.type = "COMPLETION" => f.time = t
    BY <2>4, <2>5, CompletionScheduled
  <2>7. t = now + b
    BY <2>4, <2>6, NoWrap
  <2>8. SliceEnds(r.queue \ {e}, lastTime', left[running'])
    BY <2>1, <2>3, <2>6, <2>7 DEF SliceEnds
  <2> QED BY <1>2, <2>1, <2>2, <2>6, <2>8
<1> QED BY <1>1, <1>2

\* schedule_next: the first job of the highest level runs.
LEMMA NextChosen ==
  ASSUME NEW qs, NEW lv, Filed(qs, lv), NEW now, schedule_next(qs, now)
  PROVE  /\ QueuesOK(queues', lv) /\ ~ In(queues', running')
         /\ \A x \in Jobs : In(queues', x) \/ x = running' <=> In(qs, x)
         /\ running' = NoJob => Idle(queues')
         /\ running' # NoJob =>
              running' \in Jobs /\ \A l \in 0 .. (lv[running'] - 1) : queues'[l] = <<>>
<1>0. qs \in [Levels -> Seq(Jobs)] /\ QueuesOK(qs, lv)
  BY DEF Filed
<1>1. CASE Idle(qs)
  <2>1. running' = NoJob /\ queues' = qs
    BY <1>1 DEF schedule_next
  <2>2. \A x : ~ In(qs, x)
    BY <1>0, <1>1, IdleEmpty
  <2>3. \A x \in Jobs : x # NoJob
    BY DEF Jobs, NoJob
  <2> QED BY <1>0, <1>1, <2>1, <2>2, <2>3
<1>2. CASE ~ Idle(qs)
  <2>1. PICK j, q : /\ j = NextJob(qs) /\ q = WithoutNext(qs)
                    /\ running' = j /\ queues' = q
    BY <1>2 DEF schedule_next, WithoutNext, NextJob
  <2>2. /\ j \in Jobs /\ In(qs, j) /\ QueuesOK(q, lv)
        /\ \A x : In(q, x) <=> In(qs, x) /\ x # j
        /\ \A k \in 0 .. (lv[j] - 1) : q[k] = <<>>
    BY <1>2, <2>1, TakeNext
  <2>3. j # NoJob
    BY <2>2 DEF Jobs, NoJob
  <2> QED BY <1>2, <2>1, <2>2, <2>3
<1> QED BY <1>1, <1>2

\* A job that was never served is charged nothing.
LEMMA NotCharged ==
  ASSUME NEW j, Size(j) \in Nat, NEW l, Charged(j, Size(j), l)
  PROVE  l = 0
BY SimulatorAssumption DEF Charged

\* One more slice, one level down.
LEMMA ChargedSlice ==
  ASSUME NEW j, Size(j) \in Nat, NEW left \in Nat, left > 1, NEW l \in Levels,
         Charged(j, left, l)
  PROVE  Charged(j, left - 1, Lower(l))
BY SimulatorAssumption DEF Charged, Lower, Levels

LEMMA LevelFacts ==
  ASSUME TimeInv, SchedInv, JobInv, policy = "MLFQ"
  PROVE  /\ EventInv /\ OutputInv /\ BusyInv
         /\ queues \in [Levels -> Seq(Jobs)] /\ level \in [Jobs -> Levels]
         /\ rem \in [Jobs -> Time] /\ running \in Jobs \cup {NoJob}
         /\ QueuesOK(queues, level) /\ ~ In(queues, running)
         /\ \A j \in Jobs : In(queues, j) \/ j = running <=> j \in InSystem
         /\ running = NoJob => Idle(queues)
         /\ running # NoJob => \A l \in 0 .. (level[running] - 1) : queues[l] = <<>>
         /\ \A j \in Jobs \ Finished : Charged(j, rem[j], level[j])
         /\ \A j \in Jobs \ Submitted : rem[j] = Size(j)
         /\ SliceEnds(sim.queue, lastTime, rem[running])
         /\ running = NoJob <=> sim.completionEvent = NoEvent
         /\ \A j \in Jobs : j # NoJob /\ Size(j) \in Nat
<1>1. /\ EventInv /\ OutputInv /\ BusyInv
      /\ queues \in [Levels -> Seq(Jobs)] /\ level \in [Jobs -> Levels]
      /\ rem \in [Jobs -> Time] /\ running \in Jobs \cup {NoJob}
      /\ QueuesOK(queues, level) /\ ~ In(queues, running)
      /\ \A j \in Jobs : In(queues, j) \/ j = running <=> j \in InSystem
      /\ running = NoJob => Idle(queues)
      /\ running # NoJob => \A l \in 0 .. (level[running] - 1) : queues[l] = <<>>
      /\ \A j \in Jobs \ Finished : Charged(j, rem[j], level[j])
      /\ \A j \in Jobs \ Submitted : rem[j] = Size(j)
      /\ SliceEnds(sim.queue, lastTime, rem[running])
  BY DEF JobInv, LevelInv, SchedInv
<1>2. \A j \in Jobs : j # NoJob /\ Size(j) \in Nat
  BY LineInRange DEF TimeInv, Jobs, NoJob, Size, Time
<1>3. InSystem \subseteq Jobs
  BY DEF InSystem, Submitted
<1>4. running = NoJob <=> InSystem = {}
  <2>1. running = NoJob => \A x : ~ In(queues, x)
    BY <1>1, IdleEmpty
  <2> QED BY <1>1, <1>2, <1>3, <2>1
<1> QED BY <1>1, <1>2, <1>4 DEF BusyInv

\* The running job has only just begun when an arrival preempts it: its slice
\* is no longer than 1, and a completion at the time of the arrival comes first.
LEMMA JustBegun ==
  ASSUME TimeInv, SchedInv, JobInv, policy = "MLFQ",
         NEW e \in sim.queue, First(e), e.type = "ARRIVAL", running # NoJob
  PROVE  e.time = lastTime
<1>1. /\ sim.completionEvent # NoEvent /\ EventInv /\ rem \in [Jobs -> Time]
      /\ running \in Jobs
      /\ SliceEnds(sim.queue, lastTime, rem[running])
  BY LevelFacts
<1>2. PICK f \in sim.queue : f.type = "COMPLETION"
  BY <1>1 DEF EventInv, Pending
<1>3. e.time < f.time /\ f.time = lastTime + Slice(rem[running])
  BY <1>1, <1>2, ArrivalBegins DEF SliceEnds
<1>4. /\ e.time \in Time /\ f.time \in Time /\ lastTime \in Time /\ sim.simTime \in Time
      /\ lastTime <= sim.simTime
  BY DEF TimeInv, Sound, SimType, Event, Time, SchedInv
<1>5. Slice(rem[running]) \in Nat /\ Slice(rem[running]) <= 1
  BY <1>1 DEF Slice, Time
<1>6. e.time >= sim.simTime
  BY EnteredSound
<1> QED BY <1>3, <1>4, <1>5, <1>6 DEF Time

\* A slice and what is left after it.
LEMMA SliceLeft ==
  ASSUME policy = "MLFQ", NEW x, rem[x] \in Nat
  PROVE  /\ LeftAfter(x) \in Nat /\ Slice(rem[x]) \in Nat
         /\ Slice(rem[x]) + LeftAfter(x) = rem[x]
BY DEF Slice, LeftAfter

\* All that is left, counted from the beginning of the slice, ends in time.
LEMMA WorkRunning ==
  ASSUME TimeInv, SchedInv, JobInv, policy = "MLFQ", running # NoJob
  PROVE  lastTime + WorkOf(trace, rem, InSystem) = End
<1>1. /\ sim.completionEvent # NoEvent /\ EventInv /\ rem \in [Jobs -> Time]
      /\ running \in Jobs /\ running \in InSystem
      /\ SliceEnds(sim.queue, lastTime, rem[running])
  BY LevelFacts
<1>2. PICK f \in sim.queue : f.type = "COMPLETION"
  BY <1>1 DEF EventInv, Pending
<1>3. PICK tr, n, r, I, x : /\ tr = trace /\ n = Len(trace) /\ r = rem /\ I = InSystem
                            /\ x = running
  OBVIOUS
<1> DEFINE R == I \ {x}
<1>4. Timed(tr, n, r) /\ x \in 1 .. n /\ r[x] \in Nat /\ x \in I
  BY <1>1, <1>3, Remaining
<1>5. WorkOf(tr, r, R) \in Nat /\ WorkOf(tr, r, I) = r[x] + WorkOf(tr, r, R)
  BY <1>3, <1>4, WorkOfServed
<1>6. PICK u, v \in Nat : u = WorkOf(tr, r, I) /\ v = WorkOf(tr, r, R) /\ u = r[x] + v
  BY <1>4, <1>5
<1>7. f.time + LeftAfter(x) + v = End
  BY <1>2, <1>3, <1>6 DEF JobInv, WorkInv, Serving
<1>8. f.time = lastTime + Slice(r[x])
  BY <1>1, <1>2, <1>3 DEF SliceEnds
<1>9. /\ LeftAfter(x) \in Nat /\ Slice(r[x]) \in Nat
      /\ Slice(r[x]) + LeftAfter(x) = r[x] /\ lastTime \in Nat
  BY <1>3, <1>4, SliceLeft DEF SchedInv, Time
<1>10. lastTime + u = End
  BY <1>4, <1>6, <1>7, <1>8, <1>9
<1> QED BY <1>3, <1>6, <1>10

\* An arrival leaves levels and remaining times alone: what is preempted has
\* only just begun.
LEMMA LevelArrival ==
  ASSUME TimeInv, SchedInv, JobInv, PolicyRespected, policy = "MLFQ",
         NEW e \in sim.queue, First(e), e.type = "ARRIVAL",
         NEW s, During(s, e), Same(sim, s, e, "ARRIVAL"), Arrived(s, e), ~ sim'.failed,
         s.completionEvent # NoEvent,
         SliceEnds(s.queue \ {e}, lastTime', rem[running']),
         level' = level, rem' = rem,
         QueuesOK(queues', level), ~ In(queues', running'),
         \A x \in Jobs : In(queues', x) \/ x = running' <=> x \in InSystem \/ x = read,
         running' = NoJob => Idle(queues'),
         running' # NoJob => \A l \in 0 .. (level[running'] - 1) : queues'[l] = <<>>,
         lastTime' = e.time, running' \in Jobs
  PROVE  JobInv'
<1>1. /\ EventInv /\ OutputInv /\ WorkInv /\ InSystem \subseteq Submitted
      /\ \A j \in Jobs \ Finished : Charged(j, rem[j], level[j])
      /\ \A j \in Jobs \ Submitted : rem[j] = Size(j)
      /\ \A j \in Jobs : j = running => running # NoJob
  BY LevelFacts DEF JobInv, InSystem
<1>2. /\ EventInv' /\ ~ s.failed /\ sim'.completionEvent = s.completionEvent
      /\ \A f : f.type = "COMPLETION" => (f \in sim'.queue <=> f \in s.queue)
      /\ Submitted' = Submitted \cup {read} /\ read \notin Submitted
      /\ Finished' = Finished /\ UNCHANGED <<trace, policy, output>>
  BY <1>1, ArrivalEnds
<1>3. Jobs' = Jobs /\ InSystem' = InSystem \cup {read}
  BY <1>1, <1>2 DEF Jobs, InSystem, OutputInv
<1>4. OutputInv'
  BY <1>1, <1>2 DEF OutputInv
<1>5. BusyInv'
  BY <1>2, <1>3 DEF BusyInv
<1>6. ListInv'
  BY <1>2 DEF ListInv
<1>7. LevelInv'
  <2>1. QueuesOK(queues, level)' /\ ~ In(queues, running)'
    BY DEF QueuesOK, In
  <2>2. \A j \in Jobs : In(queues', j) \/ j = running' <=> j \in InSystem'
    BY <1>3
  <2>4. \A j \in Jobs \ Finished' : Charged(j, rem[j], level[j])'
    BY <1>1, <1>2 DEF Charged, Size
  <2>5. \A j \in Jobs \ Submitted' : rem'[j] = Size(j)'
    BY <1>1, <1>2 DEF Size
  <2>6. SliceEnds(sim'.queue, lastTime', rem[running'])
    <3>1. \A f \in sim'.queue : f.type = "COMPLETION" => f \in s.queue \ {e}
      BY <1>2
    <3> QED BY <3>1 DEF SliceEnds
  <2> QED BY <1>2, <1>3, <2>1, <2>2, <2>4, <2>5, <2>6 DEF LevelInv, Idle, In, QueuesOK
<1>8. WorkInv'
  <2>1. PICK r, S, t, d, x : /\ r = rem /\ S = InSystem \cup {read} /\ t = e.time
                             /\ d = End' /\ x = running'
    OBVIOUS
  <2>2. read \in Jobs /\ rem[read] = Size(read)
    BY <1>1, <1>2, ArrivalBegins
  <2>3. InSystem = {} \/ e.time + WorkOf(trace, rem, InSystem) = End
    <3>1. CASE running = NoJob
      BY <3>1, LevelFacts DEF BusyInv
    <3>2. CASE running # NoJob
      BY <3>2, JustBegun, WorkRunning
    <3> QED BY <3>1, <3>2
  <2>4. e.time + WorkOf(trace, rem, S) = End'
    BY <1>1, <1>2, <2>1, <2>2, <2>3, WorkWhole
  <2>5. /\ r \in [Jobs -> Time] /\ rem' = r /\ trace' = trace /\ InSystem' = S /\ S # {}
        /\ End' = d /\ t \in Nat /\ Ends(t, r, S, d) /\ x \in S /\ x \in Jobs
    <3>1. x \in S /\ x \in Jobs
      BY <2>1
    <3>2. t \in Nat
      BY <2>1, EnteredSound DEF Time
    <3> QED BY <1>2, <1>3, <2>1, <2>4, <3>1, <3>2 DEF SchedInv, Ends
  <2>6. r[x] \in Nat /\ policy' = "MLFQ"
    BY <1>2, <2>5 DEF Time
  <2>7. PICK l \in Nat : LeftAfter(x)' = l /\ Slice(r[x]) + l = r[x] /\ Slice(r[x]) \in Nat
    BY <2>5, <2>6 DEF LeftAfter, Slice
  <2>8. Serving' = x
    BY <2>1, <2>6 DEF Serving
  <2>9. ASSUME NEW f \in sim'.queue, f.type = "COMPLETION" PROVE f.time + l = t + r[x]
    <3>1. f \in s.queue \ {e}
      BY <1>2, <2>9
    <3>2. f.time = t + Slice(r[x])
      BY <2>1, <2>9, <3>1 DEF SliceEnds
    <3> QED BY <2>5, <2>6, <2>7, <3>2
  <2>10. Resumes(t, r, S, x, l)
    BY <2>5, <2>7, <2>8, <2>9 DEF Resumes
  <2> QED BY <2>5, <2>10, WorkNext
<1> QED BY <1>2, <1>4, <1>5, <1>6, <1>7, <1>8 DEF JobInv

\* What an arrival finds: the job is new, and goes to the end of the first queue.
LEMMA NewJobQueued ==
  ASSUME TimeInv, SchedInv, JobInv, policy = "MLFQ",
         NEW e \in sim.queue, First(e), e.type = "ARRIVAL",
         NEW qs, qs = WithLast(queues, 0, read)
  PROVE  /\ read \in Jobs /\ read # running
         /\ Filed(qs, level) /\ ~ Idle(qs)
         /\ \A x : In(qs, x) <=> In(queues, x) \/ x = read
<1>1. read \in Jobs /\ Submitted = {j \in Jobs : j < read}
  BY ArrivalBegins DEF JobInv
<1>2. /\ queues \in [Levels -> Seq(Jobs)] /\ level \in [Jobs -> Levels]
      /\ QueuesOK(queues, level) /\ OutputInv
      /\ \A j \in Jobs : In(queues, j) \/ j = running <=> j \in InSystem
      /\ \A j \in Jobs \ Finished : Charged(j, rem[j], level[j])
      /\ \A j \in Jobs \ Submitted : rem[j] = Size(j)
      /\ \A j \in Jobs : j # NoJob /\ Size(j) \in Nat
  BY LevelFacts
<1>3. read \notin Submitted
  BY <1>1 DEF Jobs
<1>4. read \notin Finished /\ read \notin InSystem
  BY <1>2, <1>3 DEF OutputInv, InSystem
<1>5. ~ In(queues, read) /\ read # running
  BY <1>1, <1>2, <1>4
<1>6. level[read] = 0
  <2>1. Charged(read, Size(read), level[read])
    BY <1>1, <1>2, <1>3, <1>4
  <2> QED BY <1>1, <1>2, <2>1, NotCharged
<1>7. level = Moved(level, read, 0)
  BY <1>2, <1>6 DEF Moved
<1>8. 0 \in Levels
  BY LowerIsLevel
<1>9. Filed(queues, level)
  BY <1>2 DEF Filed
<1> QED BY <1>1, <1>5, <1>7, <1>8, <1>9, PutBack

LEMMA MLFQArrivesIdle ==
  ASSUME TimeInv, SchedInv, JobInv, PolicyRespected, policy = "MLFQ",
         NEW e \in sim.queue, First(e), e.type = "ARRIVAL",
         schedulerMLFQScheduleJob(e), running = NoJob
  PROVE  Kept
<1>1. PICK qs : qs = WithLast(queues, 0, read)
  OBVIOUS
<1>2. PICK s0, now, s : s0 = Entered(e) /\ now = e.time /\ s = NextSlice(s0, qs, rem, now)
  OBVIOUS
<1>3. schedule_next(qs, now) /\ Arrived(s, e) /\ UNCHANGED <<rem, level>>
  BY <1>1, <1>2 DEF schedulerMLFQScheduleJob, WithLast
<1>4. /\ read \in Jobs /\ Filed(qs, level) /\ ~ Idle(qs)
      /\ \A x : In(qs, x) <=> In(queues, x) \/ x = read
  BY <1>1, NewJobQueued
<1>5. /\ level \in [Jobs -> Levels] /\ rem \in [Jobs -> Time]
      /\ \A j \in Jobs : In(queues, j) \/ j = running <=> j \in InSystem
      /\ sim.completionEvent = NoEvent /\ \A j \in Jobs : j # NoJob
  BY LevelFacts
<1>6. /\ During(s0, e) /\ s0.queue = sim.queue
      /\ s0.completionEvent = NoEvent /\ s0.simTime = now
      /\ Sound(s0) /\ now \in Time
  BY <1>2, <1>5, ArrivalBegins, EnteredSound DEF JobInv
<1>7. ASSUME ~ sim'.failed PROVE JobInv'
  <2>1. ~ s.failed
    <3>1. s \in SimType
      BY <1>2, <1>4, <1>5, <1>6, NextSliceFollows DEF Follows, Sound, Filed
    <3> QED BY <1>3, <1>7, <3>1, ArrivalFails
  <2>3. /\ During(s, e) /\ Same(s0, s, e, "ARRIVAL") /\ s.completionEvent # NoEvent
        /\ SliceEnds(s.queue \ {e}, lastTime', rem[running'])
        /\ QueuesOK(queues', level) /\ ~ In(queues', running')
        /\ \A x \in Jobs : In(queues', x) \/ x = running' <=> In(qs, x)
        /\ running' = NoJob => Idle(queues')
        /\ running' # NoJob => \A l \in 0 .. (level[running'] - 1) : queues'[l] = <<>>
        /\ lastTime' = e.time /\ running' \in Jobs
    <3>1. /\ Filed(qs, level) /\ rem \in [Jobs -> Time] /\ now \in Time
          /\ schedule_next(qs, now) /\ During(s0, e) /\ s0.completionEvent = NoEvent
          /\ s0.simTime = now /\ s = NextSlice(s0, qs, rem, now) /\ ~ s.failed
      BY <1>2, <1>3, <1>4, <1>5, <1>6, <2>1
    <3>2. /\ During(s, e) /\ Same(s0, s, e, "ARRIVAL") /\ (s.completionEvent = NoEvent <=> Idle(qs))
          /\ SliceEnds(s.queue \ {e}, lastTime', rem[running']) /\ s.simTime = now
          /\ (~ Idle(qs) => lastTime' = now /\ running' \in Jobs)
      BY <3>1, NextServed
    <3>3. /\ QueuesOK(queues', level) /\ ~ In(queues', running')
          /\ \A x \in Jobs : In(queues', x) \/ x = running' <=> In(qs, x)
          /\ running' = NoJob => Idle(queues')
          /\ running' # NoJob => \A l \in 0 .. (level[running'] - 1) : queues'[l] = <<>>
      BY <3>1, NextChosen
    <3> QED BY <1>2, <1>4, <3>2, <3>3
  <2>4. Same(sim, s, e, "ARRIVAL")
    BY <1>6, <2>3 DEF Same
  <2>5. \A x \in Jobs : In(queues', x) \/ x = running' <=> x \in InSystem \/ x = read
    BY <1>4, <1>5, <2>3
  <2> QED BY <1>3, <1>7, <2>3, <2>4, <2>5, LevelArrival
<1> QED BY <1>3, <1>7, RespectedArrival DEF Kept

LEMMA MLFQArrivesWaiting ==
  ASSUME TimeInv, SchedInv, JobInv, PolicyRespected, policy = "MLFQ",
         NEW e \in sim.queue, First(e), e.type = "ARRIVAL",
         schedulerMLFQScheduleJob(e), running # NoJob, level[running] = 0
  PROVE  Kept
<1>1. PICK qs : qs = WithLast(queues, 0, read)
  OBVIOUS
<1>2. /\ queues' = qs /\ Arrived(Entered(e), e)
      /\ UNCHANGED <<running, lastTime, rem, level>>
  BY <1>1 DEF schedulerMLFQScheduleJob, WithLast
<1>3. /\ read \in Jobs /\ read # running /\ QueuesOK(qs, level)
      /\ \A x : In(qs, x) <=> In(queues, x) \/ x = read
  BY <1>1, NewJobQueued DEF Filed
<1>4. /\ ~ In(queues, running) /\ sim.completionEvent # NoEvent
      /\ \A j \in Jobs : In(queues, j) \/ j = running <=> j \in InSystem
      /\ SliceEnds(sim.queue, lastTime, rem[running])
  BY LevelFacts
<1>5. PICK s : s = Entered(e)
  OBVIOUS
<1>6. /\ During(s, e) /\ s.queue = sim.queue /\ s.completionEvent = sim.completionEvent
  BY <1>5, ArrivalBegins DEF JobInv
<1>7. /\ QueuesOK(queues', level) /\ ~ In(queues', running')
      /\ \A x \in Jobs : In(queues', x) \/ x = running' <=> x \in InSystem \/ x = read
      /\ \A l \in 0 .. (level[running'] - 1) : queues'[l] = <<>>
      /\ SliceEnds(s.queue \ {e}, lastTime', rem[running'])
  BY <1>2, <1>3, <1>4, <1>6 DEF SliceEnds
<1>8. Same(sim, s, e, "ARRIVAL")
  BY <1>6 DEF Same
<1>9. lastTime' = e.time /\ running' \in Jobs
  BY <1>2, JustBegun, LevelFacts
<1>10. ~ sim'.failed => JobInv'
  BY <1>2, <1>4, <1>5, <1>6, <1>7, <1>8, <1>9, LevelArrival
<1> QED BY <1>2, <1>10, RespectedArrival DEF Kept

LEMMA MLFQArrivesAbove ==
  ASSUME TimeInv, SchedInv, JobInv, PolicyRespected, policy = "MLFQ",
         NEW e \in sim.queue, First(e), e.type = "ARRIVAL",
         schedulerMLFQScheduleJob(e), running # NoJob, level[running] > 0
  PROVE  Kept
<1>1. PICK qs : qs = WithLast(queues, 0, read)
  OBVIOUS
<1>2. Preempt(e, qs)
  BY <1>1, SimulatorAssumption DEF schedulerMLFQScheduleJob, WithLast
<1>3. /\ read \in Jobs /\ read # running /\ Filed(qs, level)
      /\ \A x : In(qs, x) <=> In(queues, x) \/ x = read
  BY <1>1, NewJobQueued
<1>4. /\ level \in [Jobs -> Levels] /\ rem \in [Jobs -> Time] /\ running \in Jobs
      /\ ~ In(queues, running) /\ sim.completionEvent # NoEvent
      /\ \A j \in Jobs : In(queues, j) \/ j = running <=> j \in InSystem
  BY LevelFacts
<1>5. PICK l \in Levels : l = level[running]
  BY <1>4
<1>6. PICK qs1 : qs1 = WithLast(qs, l, running)
  OBVIOUS
<1>7. PICK s0, s1, now, s : /\ s0 = Entered(e) /\ s1 = schedulerCancelNextCompletion(s0)
                            /\ now = e.time /\ s = NextSlice(s1, qs1, rem, now)
  OBVIOUS
<1>8. schedule_next(qs1, now) /\ Arrived(s, e) /\ UNCHANGED <<rem, level>>
  <2>1. PICK ran : ran = IF e.time - lastTime > rem[running] THEN rem[running]
                                                             ELSE e.time - lastTime
    OBVIOUS
  <2>2. ran = 0
    <3>1. lastTime \in Nat /\ rem[running] \in Nat
      BY <1>4 DEF SchedInv, Time
    <3> QED BY <2>1, <3>1, JustBegun
  <2>3. [rem EXCEPT ![running] = @ - 0] = rem /\ [level EXCEPT ![running] = l] = level
    <3>1. rem[running] - 0 = rem[running]
      BY <1>4 DEF Time
    <3> QED BY <1>4, <1>5, <3>1
  <2>4. ~ (0 > 0)
    OBVIOUS
  <2> QED BY <1>2, <1>5, <1>6, <1>7, <2>1, <2>2, <2>3, <2>4 DEF Preempt, WithLast
<1>9. /\ Filed(qs1, level) /\ ~ Idle(qs1) /\ \A x : In(qs1, x) <=> In(qs, x) \/ x = running
  <2>1. level = Moved(level, running, l)
    BY <1>4, <1>5 DEF Moved
  <2>2. ~ In(qs, running)
    BY <1>3, <1>4
  <2> QED BY <1>3, <1>4, <1>5, <1>6, <2>1, <2>2, PutBack
<1>10. /\ During(s0, e) /\ s0.queue = sim.queue /\ s0.simTime = now
       /\ Sound(s0) /\ now \in Time
  BY <1>7, ArrivalBegins, EnteredSound DEF JobInv
<1>11. /\ During(s1, e) /\ s1.completionEvent = NoEvent /\ s1.simTime = now
       /\ Same(s0, s1, e, "ARRIVAL")
  BY <1>7, <1>10, CompletionCancelled
<1>12. Sound(s1)
  BY <1>7, <1>10, CancelFollows DEF Follows
<1>13. ASSUME ~ sim'.failed PROVE JobInv'
  <2>1. ~ s.failed
    <3>1. s \in SimType
      BY <1>4, <1>7, <1>9, <1>10, <1>12, NextSliceFollows DEF Follows, Sound, Filed
    <3> QED BY <1>8, <1>13, <3>1, ArrivalFails
  <2>2. /\ During(s, e) /\ Same(s1, s, e, "ARRIVAL") /\ s.completionEvent # NoEvent
        /\ SliceEnds(s.queue \ {e}, lastTime', rem[running'])
        /\ QueuesOK(queues', level) /\ ~ In(queues', running')
        /\ \A x \in Jobs : In(queues', x) \/ x = running' <=> In(qs1, x)
        /\ running' = NoJob => Idle(queues')
        /\ running' # NoJob => \A k \in 0 .. (level[running'] - 1) : queues'[k] = <<>>
        /\ lastTime' = e.time /\ running' \in Jobs
    <3>1. /\ Filed(qs1, level) /\ rem \in [Jobs -> Time] /\ now \in Time
          /\ schedule_next(qs1, now) /\ During(s1, e) /\ s1.completionEvent = NoEvent
          /\ s1.simTime = now /\ s = NextSlice(s1, qs1, rem, now) /\ ~ s.failed
      BY <1>4, <1>7, <1>8, <1>9, <1>10, <1>11, <2>1
    <3>2. /\ During(s, e) /\ Same(s1, s, e, "ARRIVAL")
          /\ (s.completionEvent = NoEvent <=> Idle(qs1))
          /\ SliceEnds(s.queue \ {e}, lastTime', rem[running']) /\ s.simTime = now
          /\ (~ Idle(qs1) => lastTime' = now /\ running' \in Jobs)
      BY <3>1, NextServed
    <3>3. /\ QueuesOK(queues', level) /\ ~ In(queues', running')
          /\ \A x \in Jobs : In(queues', x) \/ x = running' <=> In(qs1, x)
          /\ running' = NoJob => Idle(queues')
          /\ running' # NoJob => \A k \in 0 .. (level[running'] - 1) : queues'[k] = <<>>
      BY <3>1, NextChosen
    <3> QED BY <1>7, <1>9, <3>2, <3>3
  <2>3. Same(sim, s, e, "ARRIVAL")
    BY <1>10, <1>11, <2>2 DEF Same
  <2>4. \A x \in Jobs : In(queues', x) \/ x = running' <=> x \in InSystem \/ x = read
    BY <1>3, <1>4, <1>9, <2>2
  <2> QED BY <1>8, <1>13, <2>2, <2>3, <2>4, LevelArrival
<1> QED BY <1>8, <1>13, RespectedArrival DEF Kept

LEMMA MLFQArrives ==
  ASSUME TimeInv, SchedInv, JobInv, PolicyRespected,
         NEW e \in sim.queue, First(e), e.type = "ARRIVAL", schedulerMLFQScheduleJob(e)
  PROVE  Kept
<1>1. policy = "MLFQ"
  BY DEF schedulerMLFQScheduleJob
<1>2. running # NoJob => level[running] = 0 \/ level[running] > 0
  BY SimulatorAssumption DEF SchedInv, Levels
<1> QED BY <1>1, <1>2, MLFQArrivesIdle, MLFQArrivesWaiting, MLFQArrivesAbove

\* The end of a slice: job j, if it is one, is over and the others are queued.
LEMMA LevelCompletion ==
  ASSUME TimeInv, SchedInv, JobInv, policy = "MLFQ",
         NEW e \in sim.queue, First(e), e.type = "COMPLETION",
         NEW qs, NEW lv, Filed(qs, lv), NEW left, left \in [Jobs -> Time],
         NEW now, now = e.time, schedule_next(qs, now),
         NEW s, s = NextSlice(Forgotten(e), qs, left, now),
         NEW j, j \in Jobs \cup {NoJob}, j # NoJob => j \in InSystem, Completed(s, e, j),
         rem' = left, level' = lv,
         \A x \in Jobs : In(qs, x) <=> x \in InSystem /\ x # j,
         \A x \in Jobs \ Finished : x # j => Charged(x, left[x], lv[x]),
         \A x \in Jobs \ Submitted : left[x] = rem[x],
         NEW S, S = InSystem \ {j}, Ends(now, left, S, End)
  PROVE  Kept
<1>1. /\ EventInv /\ OutputInv /\ \A x \in Jobs \ Submitted : rem[x] = Size(x)
      /\ \A x \in Jobs : x # NoJob
  BY LevelFacts
<1>2. PICK s0 : s0 = Forgotten(e)
  OBVIOUS
<1>3. /\ During(s0, e) /\ s0.queue = sim.queue /\ s0.completionEvent = NoEvent
      /\ s0.simTime = now /\ Sound(s0) /\ now \in Time /\ s = NextSlice(s0, qs, left, now)
  BY <1>1, <1>2, CompletionBegins, EnteredSound
<1>4. UNCHANGED <<trace, policy>>
  BY DEF Completed
<1>5. PolicyRespected'
  BY <1>4 DEF PolicyRespected, Preferred
<1>6. ASSUME ~ sim'.failed PROVE JobInv'
  <2>1. ~ s.failed
    <3>1. s \in SimType
      <4>1. qs \in [Levels -> Seq(Jobs)]
        BY DEF Filed
      <4>2. Follows(s, s0)
        BY <1>3, <4>1, NextSliceFollows
      <4> QED BY <4>2 DEF Follows, Sound
    <3> QED BY <1>6, <3>1, CompletionFails
  <2>2. /\ During(s, e) /\ Same(s0, s, e, "ARRIVAL") /\ (s.completionEvent = NoEvent <=> Idle(qs))
        /\ SliceEnds(s.queue \ {e}, lastTime', left[running'])
        /\ QueuesOK(queues', lv) /\ ~ In(queues', running')
        /\ \A x \in Jobs : In(queues', x) \/ x = running' <=> In(qs, x)
        /\ running' = NoJob => Idle(queues')
        /\ running' # NoJob => \A l \in 0 .. (lv[running'] - 1) : queues'[l] = <<>>
        /\ s.simTime = now /\ (~ Idle(qs) => lastTime' = now /\ running' \in Jobs)
    <3>1. /\ Filed(qs, lv) /\ left \in [Jobs -> Time] /\ now \in Time
          /\ schedule_next(qs, now) /\ During(s0, e) /\ s0.completionEvent = NoEvent
          /\ s0.simTime = now /\ s = NextSlice(s0, qs, left, now) /\ ~ s.failed
      BY <1>3, <2>1
    <3>2. /\ During(s, e) /\ Same(s0, s, e, "ARRIVAL") /\ (s.completionEvent = NoEvent <=> Idle(qs))
          /\ SliceEnds(s.queue \ {e}, lastTime', left[running']) /\ s.simTime = now
          /\ (~ Idle(qs) => lastTime' = now /\ running' \in Jobs)
      BY <3>1, NextServed
    <3>3. /\ QueuesOK(queues', lv) /\ ~ In(queues', running')
          /\ \A x \in Jobs : In(queues', x) \/ x = running' <=> In(qs, x)
          /\ running' = NoJob => Idle(queues')
          /\ running' # NoJob => \A l \in 0 .. (lv[running'] - 1) : queues'[l] = <<>>
      BY <3>1, NextChosen
    <3> QED BY <3>2, <3>3
  <2>3. Same(sim, s, e, "ARRIVAL")
    BY <1>3, <2>2 DEF Same
  <2>4. /\ EventInv' /\ sim'.completionEvent = s.completionEvent
        /\ sim'.queue = s.queue \ {e} /\ sim'.simTime = s.simTime
        /\ Submitted' = Submitted /\ Finished' = Finished \cup ({j} \ {NoJob})
        /\ UNCHANGED <<trace, policy, read>>
    BY <1>1, <2>2, <2>3, CompletionEnds
  <2>5. Jobs' = Jobs /\ InSystem' = InSystem \ {j} /\ InSystem \subseteq Jobs
    BY <1>1, <2>4 DEF Jobs, InSystem, Submitted
  <2>6. OutputInv'
    BY <1>1, <2>4, OutputNext
  <2>7. Idle(qs) <=> InSystem' = {}
    <3>1. \A x : In(qs, x) => x \in Jobs
      BY DEF In, Filed
    <3>2. Idle(qs) <=> \A x : ~ In(qs, x)
      BY IdleEmpty DEF Filed
    <3> QED BY <2>5, <3>1, <3>2
  <2>8. BusyInv'
    BY <2>2, <2>4, <2>7 DEF BusyInv
  <2>9. ListInv'
    BY <2>4 DEF ListInv
  <2>10. LevelInv'
    <3>1. \A x \in Jobs : In(queues', x) \/ x = running' <=> x \in InSystem'
      BY <2>2, <2>5
    <3>2. \A x \in Jobs \ Finished' : Charged(x, rem[x], level[x])'
      <4>1. \A x \in Jobs \ Finished' : x \in Jobs \ Finished /\ x # j
        BY <1>1, <2>4
      <4> QED BY <2>4, <4>1 DEF Charged, Size
    <3>3. \A x \in Jobs \ Submitted' : rem'[x] = Size(x)'
      BY <1>1, <2>4 DEF Size
    <3>4. SliceEnds(sim'.queue, lastTime', left[running'])
      BY <2>2, <2>4
    <3> QED BY <2>2, <2>4, <2>5, <3>1, <3>2, <3>3, <3>4 DEF LevelInv, Idle, In, QueuesOK
  <2>11. WorkInv'
    <3>1. PICK x, d : x = running' /\ d = End
      OBVIOUS
    <3>2. /\ rem' = left /\ trace' = trace /\ InSystem' = S /\ End' = d /\ Ends(now, left, S, d)
          /\ now \in Nat /\ policy' = "MLFQ"
      BY <1>3, <2>4, <2>5, <3>1 DEF End, Time
    <3>3. S # {} => x \in S /\ x \in Jobs /\ Serving' = x /\ left[x] \in Nat /\ lastTime' = now
      <4>1. S # {} => x \in Jobs /\ lastTime' = now
        BY <2>2, <2>5, <2>7, <3>1
      <4>2. S # {} => In(qs, x)
        BY <2>2, <3>1, <4>1
      <4> QED BY <2>5, <3>1, <3>2, <4>1, <4>2 DEF Serving, Time
    <3>4. PICK l : l = LeftAfter(x)'
      OBVIOUS
    <3>5. S # {} => l \in Nat /\ Slice(left[x]) + l = left[x] /\ Slice(left[x]) \in Nat
      BY <3>2, <3>3, <3>4 DEF LeftAfter, Slice
    <3>6. ASSUME NEW f \in sim'.queue, f.type = "COMPLETION"
          PROVE  S # {} /\ f.time + l = now + left[x]
      <4>1. S # {}
        <5>1. s \in SimType /\ Pending(s.queue \ {e}, s.completionEvent) /\ f \in s.queue \ {e}
          BY <2>2, <2>4, <3>6 DEF During
        <5>2. f.id \in Nat /\ f.id = s.completionEvent
          BY <3>6, <5>1 DEF SimType, Event, Pending
        <5>3. s.completionEvent # NoEvent
          BY <5>2 DEF NoEvent
        <5> QED BY <2>2, <2>5, <2>7, <5>3
      <4>2. f.time = now + Slice(left[x])
        BY <2>2, <2>4, <3>1, <3>3, <3>6, <4>1 DEF SliceEnds
      <4> QED BY <3>2, <3>3, <3>5, <4>1, <4>2
    <3>7. S = {} => sim'.simTime = now /\ (output' # <<>> => output'[Len(output')].time = now)
      <4> SUFFICES ASSUME S = {} PROVE sim'.simTime = now /\ output'[Len(output')].time = now
        OBVIOUS
      <4>1. InSystem # {}
        BY <1>1, CompletionBegins DEF JobInv, BusyInv
      <4>2. j \in Jobs
        BY <4>1, <2>5
      <4>3. /\ Len(output') = Len(output) + 1
            /\ output'[Len(output) + 1] = [job |-> j, time |-> e.time]
        BY <4>2, OutputAppended
      <4>4. output'[Len(output')].time = e.time
        BY <4>3
      <4> QED BY <2>2, <2>4, <4>4
    <3>8. S # {} => x \in S /\ x \in Jobs /\ Serving' = x /\ LeftAfter(x)' = l
      BY <3>3, <3>4
    <3>9. Resumes(now, left, S, x, l)
      BY <3>6, <3>7, <3>8 DEF Resumes
    <3> QED BY <3>2, <3>9, WorkNext
  <2> QED BY <2>4, <2>6, <2>8, <2>9, <2>10, <2>11 DEF JobInv
<1> QED BY <1>5, <1>6 DEF Kept

LEMMA MLFQCompletes ==
  ASSUME TimeInv, SchedInv, JobInv,
         NEW e \in sim.queue, First(e), e.type = "COMPLETION", schedulerMLFQCompleteJob(e)
  PROVE  Kept
<1>1. policy = "MLFQ"
  BY DEF schedulerMLFQCompleteJob
<1>2. /\ level \in [Jobs -> Levels] /\ rem \in [Jobs -> Time]
      /\ running \in Jobs \cup {NoJob} /\ ~ In(queues, running) /\ OutputInv /\ EventInv
      /\ \A x \in Jobs : In(queues, x) \/ x = running <=> x \in InSystem
      /\ \A x \in Jobs \ Finished : Charged(x, rem[x], level[x])
      /\ running = NoJob <=> sim.completionEvent = NoEvent
      /\ \A x \in Jobs : x # NoJob /\ Size(x) \in Nat
  BY <1>1, LevelFacts
<1>3. Filed(queues, level)
  BY <1>1, LevelFacts DEF Filed
<1>4. running # NoJob
  BY <1>2, CompletionBegins
<1>5. PICK job \in Jobs : job = running
  BY <1>2, <1>4
<1>6. job \in InSystem /\ job \notin Finished /\ job \in Submitted
  BY <1>2, <1>5 DEF InSystem
<1>7. PICK n \in Nat : n = rem[job] /\ n \in Time
  BY <1>2 DEF Time
<1>8. PICK l \in Levels : l = level[job]
  BY <1>2
<1>9. PICK now : now = e.time
  OBVIOUS
<1>10. CASE n > 1
  <2>1. PICK k \in Levels : k = Lower(l)
    BY LowerIsLevel
  <2>2. PICK qs, lv, left : /\ qs = WithLast(queues, k, job) /\ lv = Moved(level, job, k)
                            /\ left = [rem EXCEPT ![job] = n - 1]
    OBVIOUS
  <2>3. PICK s : s = NextSlice(Forgotten(e), qs, left, now)
    OBVIOUS
  <2>4. /\ schedule_next(qs, now) /\ Completed(s, e, NoJob) /\ rem' = left /\ level' = lv
    BY <1>4, <1>5, <1>7, <1>8, <1>9, <1>10, <2>1, <2>2, <2>3
       DEF schedulerMLFQCompleteJob, WithLast, Moved
  <2>5. Filed(qs, lv) /\ \A x : In(qs, x) <=> In(queues, x) \/ x = job
    BY <1>2, <1>3, <1>5, <2>1, <2>2, PutBack
  <2>6. n - 1 \in Time
    BY <1>7, <1>10, SimulatorAssumption DEF Time
  <2>7. left \in [Jobs -> Time] /\ left[job] = n - 1 /\ \A x \in Jobs \ {job} : left[x] = rem[x]
    BY <1>2, <2>2, <2>6
  <2>8. lv[job] = k /\ \A x \in Jobs \ {job} : lv[x] = level[x]
    BY <1>2, <2>2 DEF Moved
  <2>9. Charged(job, n - 1, k)
    BY <1>2, <1>6, <1>7, <1>8, <1>10, <2>1, ChargedSlice
  <2>10. \A x \in Jobs \ Finished : Charged(x, left[x], lv[x])
    BY <1>2, <2>7, <2>8, <2>9
  <2>11. \A x \in Jobs : In(qs, x) <=> x \in InSystem /\ x # NoJob
    BY <1>2, <1>5, <2>5
  <2>12. \A x \in Jobs \ Submitted : left[x] = rem[x]
    BY <1>6, <2>7
  <2>13. PICK j : j = NoJob
    OBVIOUS
  <2>14. PICK S : S = InSystem \ {j}
    OBVIOUS
  <2>15. Served(job, left, S)
    <3>1. LeftAfter(job) = n - 1
      BY <1>1, <1>7, <1>10 DEF LeftAfter
    <3>2. S = InSystem
      BY <1>2, <2>13, <2>14 DEF InSystem, Submitted
    <3> QED BY <2>7, <3>1, <3>2 DEF Served
  <2>16. Ends(now, left, S, End)
    BY <1>1, <1>5, <1>6, <1>9, <2>7, <2>15, WorkLeft DEF Ends, JobInv, Serving
  <2> QED BY <1>1, <1>9, <2>3, <2>4, <2>5, <2>7, <2>10, <2>11, <2>12, <2>13, <2>14, <2>16,
             LevelCompletion
<1>11. CASE ~ (n > 1)
  <2>1. PICK left : left = [rem EXCEPT ![job] = 0]
    OBVIOUS
  <2>2. PICK s : s = NextSlice(Forgotten(e), queues, left, now)
    OBVIOUS
  <2>3. /\ schedule_next(queues, now) /\ Completed(s, e, job) /\ rem' = left
        /\ level' = [level EXCEPT ![job] = level[job]]
    BY <1>4, <1>5, <1>7, <1>9, <1>11, <2>1, <2>2 DEF schedulerMLFQCompleteJob
  <2>4. level' = level
    BY <1>2, <2>3
  <2>5. 0 \in Time
    BY SimulatorAssumption DEF Time
  <2>6. left \in [Jobs -> Time] /\ \A x \in Jobs \ {job} : left[x] = rem[x]
    BY <1>2, <2>1, <2>5
  <2>7. \A x \in Jobs \ Finished : x # job => Charged(x, left[x], level[x])
    BY <1>2, <2>6
  <2>8. \A x \in Jobs : In(queues, x) <=> x \in InSystem /\ x # job
    BY <1>2, <1>5
  <2>9. \A x \in Jobs \ Submitted : left[x] = rem[x]
    BY <1>6, <2>6
  <2>10. PICK S : S = InSystem \ {job}
    OBVIOUS
  <2>11. Served(job, left, S)
    <3>1. LeftAfter(job) = 0
      BY <1>1, <1>7, <1>11 DEF LeftAfter
    <3> QED BY <2>10, <3>1 DEF Served
  <2>12. Ends(now, left, S, End)
    BY <1>1, <1>5, <1>6, <1>9, <2>6, <2>11, WorkLeft DEF Ends, JobInv, Serving
  <2> QED BY <1>1, <1>3, <1>6, <1>9, <2>2, <2>3, <2>4, <2>6, <2>7, <2>8, <2>9, <2>10, <2>12,
             LevelCompletion
<1> QED BY <1>10, <1>11

-----------------------------------------------------------------------------
(* The simulation.                                                         *)

\* Until an assert stops the simulation the jobs are where they should be, and
\* whatever has been written was served in the right order.
SchedulerInv == (~ sim.failed => JobInv) /\ PolicyRespected

LEMMA SchedulerInit ==
  ASSUME Init
  PROVE  SchedulerInv
<1> DEFINE s == [queue |-> {}, simTime |-> 0, id |-> 0,
                 completionEvent |-> NoEvent, failed |-> FALSE]
<1>1. /\ trace \in Traces /\ Len(trace) \in Nat /\ output = <<>> /\ jobQueue = <<>>
      /\ running = NoJob /\ level = [j \in Jobs |-> 0] /\ rem = [j \in Jobs |-> trace[j].size]
      /\ queues = [l \in Levels |-> <<>>] /\ read = IF trace = <<>> THEN 0 ELSE 1
      /\ sim = IF trace = <<>> THEN s
               ELSE simulatorSchedule(s, trace[1].arrival, "ARRIVAL")
  BY SimulatorAssumption DEF Init
<1>2. \A j \in Jobs : Size(j) \in Nat
  BY <1>1, LineInRange DEF Jobs, Size, Time
<1>3. /\ EventInv /\ sim.completionEvent = NoEvent
      /\ \A f \in sim.queue : f.type # "COMPLETION"
      /\ read = 0 \/ \E f \in sim.queue : f.type = "ARRIVAL"
  <2>1. CASE trace = <<>>
    <3>1. Len(trace) = 0
      BY <2>1
    <3> QED BY <1>1, <2>1, <3>1 DEF EventInv, IdsOK, Pending
  <2>2. CASE trace # <<>>
    <3>1. trace[1].arrival \in Time /\ read = 1
      <4>1. 1 \in 1 .. Len(trace)
        BY <1>1, <2>2, SimulatorAssumption
      <4> QED BY <1>1, <2>2, <4>1, LineInRange
    <3> DEFINE n == [time |-> trace[1].arrival, type |-> "ARRIVAL", id |-> 0]
    <3>2. sim.queue = {n} /\ sim.id = 1 /\ sim.completionEvent = NoEvent
      <4>1. trace[1].arrival >= 0
        BY <3>1 DEF Time
      <4> QED BY <1>1, <2>2, <4>1 DEF simulatorSchedule
    <3>3. n.type = "ARRIVAL" /\ n.id = 0 /\ n.time = trace[read].arrival
      BY <3>1
    <3> HIDE DEF n
    <3> QED BY <3>2, <3>3 DEF EventInv, IdsOK, Pending
  <2> QED BY <2>1, <2>2
<1>4. Finished = {} /\ DOMAIN output = {}
  BY <1>1 DEF Finished
<1>5. Submitted = {} /\ InSystem = {}
  <2>1. \A j \in Jobs : ~ (j < read) /\ j # 0
    BY <1>1 DEF Jobs
  <2>2. Submitted = {}
    BY <1>1, <1>3, <2>1 DEF Submitted
  <2> QED BY <2>2 DEF InSystem
<1>6. OutputInv /\ BusyInv
  BY <1>3, <1>4, <1>5 DEF OutputInv, BusyInv
<1>7. ListInv
  <2>1. Falling(jobQueue) /\ Members(jobQueue) = {}
    BY <1>1 DEF Falling, Members
  <2>2. \A j \in Jobs : rem[j] = Size(j)
    BY <1>1 DEF Size
  <2> QED BY <1>1, <1>3, <1>5, <2>1, <2>2 DEF ListInv
<1>8. LevelInv
  <2>1. Idle(queues) /\ QueuesOK(queues, level) /\ \A x : ~ In(queues, x)
    BY <1>1 DEF Idle, QueuesOK, In, NoDup
  <2>2. \A j \in Jobs : rem[j] = Size(j) /\ level[j] = 0 /\ j # NoJob
    BY <1>1 DEF Size, Jobs, NoJob
  <2>3. \A j \in Jobs : Charged(j, rem[j], level[j])
    BY <1>2, <2>2, SimulatorAssumption DEF Charged
  <2>4. SliceEnds(sim.queue, lastTime, rem[running])
    BY <1>3 DEF SliceEnds
  <2> QED BY <1>1, <1>3, <1>5, <2>1, <2>2, <2>3, <2>4 DEF LevelInv
<1>9. PolicyRespected
  BY <1>4 DEF PolicyRespected
<1>10. WorkInv
  <2>1. Cardinality(Submitted) = 0 /\ DrainOf(trace)[0] = 0
    BY <1>1, <1>5, FS_EmptySet, DrainIs
  <2>2. sim.simTime = 0
    BY <1>1 DEF simulatorSchedule
  <2>3. End = 0 /\ End <= sim.simTime
    BY <2>1, <2>2 DEF End
  <2> QED BY <1>1, <1>3, <2>3 DEF WorkInv
<1> QED BY <1>3, <1>6, <1>7, <1>8, <1>9, <1>10 DEF SchedulerInv, JobInv

LEMMA SchedulerStep ==
  ASSUME TimeInv, SchedInv, SchedulerInv, Next
  PROVE  SchedulerInv'
<1>1. CASE Arrival
  <2>1. PICK e \in sim.queue : /\ First(e) /\ e.type = "ARRIVAL"
                               /\ \/ schedulerFCFSScheduleJob(e)
                                  \/ schedulerLCFSScheduleJob(e)
                                  \/ schedulerSJFScheduleJob(e)
                                  \/ schedulerMLFQScheduleJob(e)
    BY <1>1 DEF Arrival
  <2>2. JobInv /\ PolicyRespected
    BY <2>1 DEF SchedulerInv, First
  <2>3. Kept
    BY <2>1, <2>2, FCFSArrives, LCFSArrives, MLFQArrives
  <2> QED BY <2>3 DEF Kept, SchedulerInv
<1>2. CASE Completion
  <2>1. PICK e \in sim.queue : /\ First(e) /\ e.type = "COMPLETION"
                               /\ \/ schedulerFCFSCompleteJob(e)
                                  \/ schedulerLCFSCompleteJob(e)
                                  \/ schedulerSJFCompleteJob(e)
                                  \/ schedulerMLFQCompleteJob(e)
    BY <1>2 DEF Completion
  <2>2. JobInv /\ PolicyRespected
    BY <2>1 DEF SchedulerInv, First
  <2>3. Kept
    BY <2>1, <2>2, FCFSCompletes, LCFSCompletes, MLFQCompletes
  <2> QED BY <2>3 DEF Kept, SchedulerInv
<1> QED BY <1>1, <1>2 DEF Next

LEMMA SchedulerInvariant == Spec => []SchedulerInv
<1>1. TimeInv /\ SchedInv /\ SchedulerInv /\ [Next]_vars => SchedulerInv'
  <2> SUFFICES ASSUME TimeInv, SchedInv, SchedulerInv, [Next]_vars
               PROVE  SchedulerInv'
    OBVIOUS
  <2>1. CASE Next
    BY <2>1, SchedulerStep
  <2>2. CASE UNCHANGED vars
    BY <2>2 DEF vars, SchedulerInv, PolicyRespected, JobInv, EventInv, OutputInv, BusyInv,
       WorkInv, End, LeftAfter, ListInv, LevelInv, IdsOK, Pending, Finished, Submitted,
       InSystem, Serving, Rightly, Preferred, Charged, Size, Jobs
  <2> QED BY <2>1, <2>2
<1>2. Init => SchedulerInv
  BY SchedulerInit
<1> QED BY <1>1, <1>2, SimulatorInvariant, PTL DEF Spec

-----------------------------------------------------------------------------
(* Theorems.                                                               *)

\* A set with no two members.
LEMMA AtMostOne ==
  ASSUME NEW S, \A x, y \in S : x = y
  PROVE  Cardinality(S) = IF S = {} THEN 0 ELSE 1
<1>1. CASE S = {}
  BY <1>1, FS_EmptySet
<1>2. CASE S # {}
  <2>1. PICK x \in S : TRUE
    BY <1>2
  <2>2. S = {x}
    BY <2>1
  <2> QED BY <1>2, <2>2, FS_Singleton
<1> QED BY <1>1, <1>2

\* A list of jobs without duplicates is no longer than the trace.
LEMMA ShortList ==
  ASSUME trace \in Traces, NEW q \in Seq(Jobs), NoDup(q)
  PROVE  DOMAIN q \subseteq Jobs
<1>1. /\ Len(trace) \in Nat /\ Len(q) \in Nat /\ DOMAIN q = 1 .. Len(q)
      /\ q \in [DOMAIN q -> Jobs]
  BY SimulatorAssumption
<1>2. q \in Injection(DOMAIN q, Jobs)
  BY <1>1 DEF NoDup, Injection, IsInjective
<1>3. IsFiniteSet(Jobs) /\ Cardinality(Jobs) = Len(trace) /\ Cardinality(1 .. Len(q)) = Len(q)
  <2>1. ASSUME NEW n \in Nat PROVE IsFiniteSet(1 .. n) /\ Cardinality(1 .. n) = n
    <3>1. /\ IsFiniteSet(1 .. n)
          /\ Cardinality(1 .. n) = IF 1 > n THEN 0 ELSE n - 1 + 1
      BY FS_Interval
    <3> QED BY <3>1
  <2> QED BY <1>1, <2>1 DEF Jobs
<1>4. Len(q) <= Len(trace)
  <2>1. Cardinality(DOMAIN q) <= Cardinality(Jobs)
    BY <1>2, <1>3, FS_Injection
  <2> QED BY <1>1, <1>3, <2>1
<1> QED BY <1>1, <1>4 DEF Jobs

\* The server is busy exactly while a job is in the system: one completion is
\* pending then, the one that completionEvent refers to, and none otherwise
\* (schedulerScheduleNextCompletion, schedulerCancelNextCompletion and
\* schedulerCompleteJob under every policy).
THEOREM SchedulerBusyServer == Spec => []BusyServer
<1>1. TimeInv /\ SchedulerInv => BusyServer
  <2> SUFFICES ASSUME TimeInv, JobInv
               PROVE  /\ {e.id : e \in Completions} = {sim.completionEvent} \ {NoEvent}
                      /\ Cardinality(Completions) = IF InSystem = {} THEN 0 ELSE 1
    BY DEF BusyServer, SchedulerInv
  <2>1. \A f \in sim.queue : f.id \in Nat /\ f.id # NoEvent
    BY DEF TimeInv, Sound, SimType, Event, NoEvent
  <2>2. /\ \A f \in Completions : f.id = sim.completionEvent
        /\ sim.completionEvent # NoEvent => \E f \in Completions : f.id = sim.completionEvent
    BY DEF JobInv, EventInv, Pending, Completions
  <2>3. Completions \subseteq sim.queue
    BY DEF Completions
  <2>4. \A f, g \in Completions : f = g
    BY <2>2, <2>3 DEF JobInv, EventInv, IdsOK
  <2>5. Completions = {} <=> InSystem = {}
    BY <2>1, <2>2, <2>3 DEF JobInv, BusyInv
  <2>6. Cardinality(Completions) = IF Completions = {} THEN 0 ELSE 1
    BY <2>4, AtMostOne
  <2> QED BY <2>1, <2>2, <2>3, <2>5, <2>6
<1> QED BY <1>1, SimulatorInvariant, SchedulerInvariant, PTL

\* FCFS, LCFS and SJF keep their word: a job that ran while another one was
\* waiting since before its start was preferred to it (schedulerFCFSCompleteJob,
\* schedulerLCFSCompleteJob, schedulerSJFCompleteJob).
THEOREM SchedulerPolicyRespected == Spec => []PolicyRespected
<1>1. SchedulerInv => PolicyRespected
  BY DEF SchedulerInv
<1> QED BY <1>1, SchedulerInvariant, PTL

\* MLFQ runs a job of the highest level there is, and the level of a job is the
\* number of slices it has had, up to the lowest level (schedulerMLFQScheduleJob
\* and schedulerMLFQCompleteJob).
THEOREM SchedulerHighestLevelRuns == Spec => []HighestLevelRuns
<1>1. SchedulerInv => HighestLevelRuns
  <2> SUFFICES ASSUME JobInv, policy = "MLFQ" PROVE HighestLevelRuns
    BY DEF SchedulerInv, HighestLevelRuns
  <2>1. InSystem \subseteq Jobs \ Finished
    BY DEF InSystem, Submitted
  <2>2. \A j \in InSystem : Charged(j, rem[j], level[j])
    BY <2>1 DEF JobInv, LevelInv
  <2>3. running # NoJob => \A l \in 0 .. (level[running] - 1) : queues[l] = <<>>
    BY DEF JobInv, LevelInv
  <2> QED BY <2>2, <2>3 DEF HighestLevelRuns, Charged
<1> QED BY <1>1, SchedulerInvariant, PTL

\* No job is lost, served twice or used after jobDestroy: once submitted it is
\* held exactly once, in the list or in one of the queues or as the running job,
\* until it is written, and it is written at most once.
THEOREM SchedulerEachJobOnce == Spec => []EachJobOnce
<1>1. TimeInv /\ SchedInv /\ SchedulerInv => EachJobOnce
  <2> SUFFICES ASSUME TimeInv, SchedInv, JobInv, NEW j \in Jobs
               PROVE  /\ Held(j) = IF j \in InSystem THEN 1 ELSE 0
                      /\ Cardinality({i \in DOMAIN output : output[i].job = j}) <= 1
    BY DEF EachJobOnce, SchedulerInv
  <2>1. Cardinality({i \in DOMAIN output : output[i].job = j}) <= 1
    <3> DEFINE S == {i \in DOMAIN output : output[i].job = j}
    <3>1. \A x, y \in S : x = y
      BY DEF JobInv, OutputInv
    <3> HIDE DEF S
    <3>2. Cardinality(S) = IF S = {} THEN 0 ELSE 1
      BY <3>1, AtMostOne
    <3>3. Cardinality(S) <= 1
      BY <3>2
    <3> QED BY <3>3 DEF S
  <2>2. CASE policy # "MLFQ"
    <3> DEFINE S == {i \in DOMAIN jobQueue : jobQueue[i] = j}
    <3>1. Falling(jobQueue) /\ Members(jobQueue) = InSystem
      BY <2>2 DEF JobInv, ListInv
    <3>2. NoDup(jobQueue)
      BY <3>1, JobsAreNumbers, FallingNoDup
    <3>3. \A x, y \in S : x = y
      BY <3>2 DEF NoDup
    <3>4. S = {} <=> j \notin InSystem
      BY <3>1 DEF Members
    <3>5. Held(j) = Cardinality(S)
      BY <2>2 DEF Held, Times
    <3> HIDE DEF S
    <3>6. Cardinality(S) = IF S = {} THEN 0 ELSE 1
      BY <3>3, AtMostOne
    <3> QED BY <2>1, <3>4, <3>5, <3>6
  <2>3. CASE policy = "MLFQ"
    <3> DEFINE S == {p \in Levels \X Jobs : /\ p[2] \in DOMAIN queues[p[1]]
                                            /\ queues[p[1]][p[2]] = j}
    <3>1. /\ queues \in [Levels -> Seq(Jobs)] /\ QueuesOK(queues, level)
          /\ ~ In(queues, running) /\ (In(queues, j) \/ j = running <=> j \in InSystem)
      BY <2>3, LevelFacts
    <3>2. ASSUME NEW x \in S, NEW y \in S PROVE x = y
      <4>1. /\ x \in Levels \X Jobs /\ y \in Levels \X Jobs
            /\ x[2] \in DOMAIN queues[x[1]] /\ queues[x[1]][x[2]] = j
            /\ y[2] \in DOMAIN queues[y[1]] /\ queues[y[1]][y[2]] = j
        OBVIOUS
      <4>2. level[j] = x[1] /\ level[j] = y[1]
        BY <3>1, <4>1 DEF QueuesOK
      <4>3. x[2] = y[2]
        BY <3>1, <4>1, <4>2 DEF QueuesOK, NoDup
      <4>4. x = <<x[1], x[2]>> /\ y = <<y[1], y[2]>>
        BY <4>1
      <4> QED BY <4>2, <4>3, <4>4
    <3>3. S # {} <=> In(queues, j)
      <4>1. ASSUME NEW l \in Levels, NEW i \in DOMAIN queues[l], queues[l][i] = j
            PROVE  <<l, i>> \in S
        <5>1. queues[l] \in Seq(Jobs) /\ NoDup(queues[l])
          BY <3>1 DEF QueuesOK
        <5>2. i \in Jobs
          BY <5>1, ShortList DEF TimeInv
        <5> QED BY <4>1, <5>2
      <4>2. ASSUME NEW p \in S PROVE In(queues, j)
        BY <4>2 DEF In
      <4> QED BY <4>1, <4>2 DEF In
    <3>4. Held(j) = Cardinality(S) + (IF running = j THEN 1 ELSE 0)
      BY <2>3 DEF Held
    <3> HIDE DEF S
    <3>5. Cardinality(S) = IF S = {} THEN 0 ELSE 1
      BY <3>2, AtMostOne
    <3>6. Cardinality(S) = IF In(queues, j) THEN 1 ELSE 0
      BY <3>3, <3>5
    <3>7. CASE running = j
      BY <2>1, <3>1, <3>4, <3>6, <3>7
    <3>8. CASE running # j
      BY <2>1, <3>1, <3>4, <3>6, <3>8
    <3> QED BY <3>7, <3>8
  <2> QED BY <2>2, <2>3
<1> QED BY <1>1, SimulatorInvariant, SchedulerInvariant, PTL

\* Work is conserved under every policy, preemption included: the pending
\* completion and what is left after it end exactly when the submitted work
\* would end on a server that never idles and repeats nothing
\* (schedulerScheduleNextCompletion as the policies call it).
THEOREM SchedulerWorkConserved == Spec => []WorkConserved
<1>1. SchedulerInv => WorkConserved
  <2> SUFFICES ASSUME JobInv, ~ sim.failed PROVE WorkConserved
    BY DEF SchedulerInv, WorkConserved
  <2>1. Drain = DrainOf(trace)
    BY DEF Drain, DrainOf, Size
  <2>2. Work(InSystem \ {Serving}) = WorkOf(trace, rem, InSystem \ {Serving})
    BY DEF Work, WorkOf
  <2>3. WorkInv
    BY DEF JobInv
  <2> QED BY <2>1, <2>2, <2>3 DEF WorkConserved, WorkInv, End, Completions
<1> QED BY <1>1, SchedulerInvariant, PTL
=============================================================================
