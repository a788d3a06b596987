----------------------------- MODULE Simulator -----------------------------
(***************************************************************************)
(* simulatorlab: the discrete event simulator (simulator.c), the scheduler *)
(* framework (scheduler.c), the reader of traces (trace.c) and the four    *)
(* policies (schedulerFCFS.c, schedulerLCFS.c, schedulerSJF.c,             *)
(* schedulerMLFQ.c).  One step is one pass of the loop of simulatorRun:    *)
(* the callback of the first event with everything that it calls.          *)
(*                                                                         *)
(* A job is the number of its line in the trace; ids increase from line to *)
(* line, so the order of the numbers is that of the ids.  The event queue, *)
(* a list that list_insert keeps sorted by simulatorEventCompare, is the   *)
(* set of its events: ids differ, so the order is total and the head of    *)
(* the list is the least event.                                            *)
(***************************************************************************)
EXTENDS Integers, Sequences, FiniteSets

CONSTANTS Traces,           \* the traces: sequences of arrival and job times
          Policies,         \* the values of the argument "scheduler"
          MAX_MLFQ_LEVELS,
          TimeRange         \* 2^64: timestamps are counted modulo this

ASSUME SimulatorAssumption ==
  /\ MAX_MLFQ_LEVELS \in Nat \ {0}
  /\ TimeRange \in Nat \ {0}
  /\ Policies \subseteq {"FCFS", "LCFS", "SJF", "MLFQ"}
  /\ Traces \subseteq Seq([arrival : 0 .. (TimeRange - 1),
                           size : 0 .. (TimeRange - 1)])
  /\ \A tr \in Traces : \A i, j \in DOMAIN tr :
       i < j => tr[i].arrival <= tr[j].arrival

VARIABLES
  trace,      \* the trace file
  policy,     \* the scheduler
  read,       \* lines read; the last one is trace->currentJob
  sim,        \* simulator_t, and scheduler_t's completionEvent
  jobQueue,   \* of FCFS, LCFS and SJF: jobs, head of the list first
  running,    \* currentJob of LCFS and SJF, running of MLFQ
  queues,     \* of MLFQ: [0 .. MAX_MLFQ_LEVELS - 1 -> jobs, head first]
  level,      \* [Jobs -> priority level in MLFQ]
  lastTime,   \* last_time of MLFQ
  rem,        \* [Jobs -> remainingTime]
  output,     \* the output file: jobs and their completion times
  enteredAt   \* [Jobs -> when the job entered its level].  A history
              \* variable: the code has no such field.

vars == <<trace, policy, read, sim, jobQueue, running, queues, level, lastTime,
          rem, output, enteredAt>>

Jobs   == 1 .. Len(trace)
Levels == 0 .. (MAX_MLFQ_LEVELS - 1)

NoJob   == 0     \* NULL
NoEvent == -1    \* NULL

Size(j) == trace[j].size

Event == [time : 0 .. (TimeRange - 1), type : {"COMPLETION", "ARRIVAL"}, id : Nat]

TypeOK ==
  /\ trace \in Traces
  /\ policy \in Policies
  /\ read \in 0 .. Len(trace)
  /\ sim \in [queue : SUBSET Event, simTime : 0 .. (TimeRange - 1), id : Nat,
              completionEvent : Nat \cup {NoEvent}, failed : BOOLEAN]
  /\ jobQueue \in Seq(Jobs)
  /\ running \in Jobs \cup {NoJob}
  /\ queues \in [Levels -> Seq(Jobs)]
  /\ level \in [Jobs -> Levels]
  /\ lastTime \in 0 .. (TimeRange - 1)
  /\ rem \in [Jobs -> 0 .. (TimeRange - 1)]
  /\ output \in Seq([job : Jobs, time : 0 .. (TimeRange - 1)])
  /\ enteredAt \in [Jobs -> 0 .. (TimeRange - 1)]

-----------------------------------------------------------------------------
(* Lists of jobs (linked_list.c).  Without a compare function list_insert  *)
(* puts a job at the head; always_less makes it append.                    *)

list_insert(q, j) == <<j>> \o q

\* The position of the first node that holds j; 0 is NULL.
list_find(q, j) ==
  IF \A i \in DOMAIN q : q[i] # j THEN 0
  ELSE CHOOSE p \in DOMAIN q : q[p] = j /\ \A i \in 1 .. (p - 1) : q[i] # j

list_remove(q, p) ==
  IF p = 0 THEN q
  ELSE [i \in 1 .. (Len(q) - 1) |-> IF i < p THEN q[i] ELSE q[i + 1]]

-----------------------------------------------------------------------------
(* simulator.c                                                             *)

\* Events are ordered by time, type and id.
simulatorEventCompare(e, f) ==
  \/ e.time < f.time
  \/ e.time = f.time /\ e.type = "COMPLETION" /\ f.type = "ARRIVAL"
  \/ e.time = f.time /\ e.type = f.type /\ e.id < f.id

\* uint64_t addition
Plus(a, b) == (a + b) % TimeRange

\* Mutant: nothing keeps an event from being scheduled in the past.
simulatorScheduleUnchecked(s, time, type) ==
  [s EXCEPT !.queue = @ \cup {[time |-> time, type |-> type, id |-> s.id]},
            !.id = @ + 1]

\* The assert stops the program when the event would lie in the past, which
\* happens when the sum that gave its time has wrapped around.
simulatorSchedule(s, time, type) ==
  IF time >= s.simTime
  THEN [s EXCEPT !.queue = @ \cup {[time |-> time, type |-> type, id |-> s.id]},
                 !.id = @ + 1]
  ELSE [s EXCEPT !.failed = TRUE]

simulatorRemoveEvent(s, id) ==
  [s EXCEPT !.queue = {f \in @ : f.id # id}]

-----------------------------------------------------------------------------
(* scheduler.c                                                             *)

\* Nothing happens if a completion is scheduled already.
schedulerScheduleNextCompletion(s, time) ==
  IF s.completionEvent # NoEvent
  THEN s
  ELSE [simulatorSchedule(s, time, "COMPLETION") EXCEPT !.completionEvent = s.id]

schedulerCancelNextCompletion(s) ==
  [simulatorRemoveEvent(s, s.completionEvent) EXCEPT !.completionEvent = NoEvent]

-----------------------------------------------------------------------------
(* trace.c                                                                 *)

\* Mutant: the last line is not read.
traceScheduleNextArrivalEarly(s) ==
  IF read + 1 < Len(trace)
  THEN simulatorSchedule(s, trace[read + 1].arrival, "ARRIVAL")
  ELSE s

\* Read a line, if there is one left, and schedule the arrival of its job.
traceScheduleNextArrival(s) ==
  IF read < Len(trace)
  THEN simulatorSchedule(s, trace[read + 1].arrival, "ARRIVAL")
  ELSE s

\* traceRun, up to the call of simulatorRun.
Init ==
  /\ trace \in Traces
  /\ policy \in Policies
  /\ read = IF trace = <<>> THEN 0 ELSE 1
  /\ sim = LET s == [queue |-> {}, simTime |-> 0, id |-> 0,
                     completionEvent |-> NoEvent, failed |-> FALSE]
           IN  IF trace = <<>> THEN s
               ELSE simulatorSchedule(s, trace[1].arrival, "ARRIVAL")
  /\ jobQueue = <<>>
  /\ running = NoJob
  /\ queues = [l \in Levels |-> <<>>]
  /\ level = [j \in Jobs |-> 0]
  /\ lastTime = 0
  /\ rem = [j \in Jobs |-> trace[j].size]
  /\ output = <<>>
  /\ enteredAt = [j \in Jobs |-> 0]

\* The first event of the queue, which simulatorRun takes next.
First(e) ==
  /\ ~ sim.failed
  /\ e \in sim.queue
  /\ \A f \in sim.queue \ {e} : simulatorEventCompare(e, f)

\* Every callback sees the simulator like this: the time is that of the event,
\* and the event is still in the queue.
Entered(e) == [sim EXCEPT !.simTime = e.time]

\* The rest of traceArrivalCallback, after the scheduler has left the
\* simulator as s; simulatorRun then removes the event.
Arrived(s, e) ==
  /\ sim' = simulatorRemoveEvent(traceScheduleNextArrival(s), e.id)
  /\ read' = IF read < Len(trace) THEN read + 1 ELSE read
  /\ UNCHANGED <<trace, policy, output>>

\* The rest of schedulerCompleteJob with traceCompletionCallback, after
\* completeJob has returned job and left the simulator as s.
Completed(s, e, job) ==
  /\ sim' = simulatorRemoveEvent(s, e.id)
  /\ output' = IF job = NoJob THEN output
               ELSE Append(output, [job |-> job, time |-> e.time])
  /\ UNCHANGED <<trace, policy, read>>

\* Mutant: completionEvent is not reset.
Remembered(e) == Entered(e)

\* schedulerCompleteJob forgets the event before it calls completeJob.
Forgotten(e) == [Entered(e) EXCEPT !.completionEvent = NoEvent]

-----------------------------------------------------------------------------
(* schedulerFCFS.c: the job at the tail of the queue is the one served.    *)

schedulerFCFSScheduleJob(e) ==
  /\ policy = "FCFS"
  /\ jobQueue' = list_insert(jobQueue, read)
  /\ Arrived(IF jobQueue = <<>>
             THEN schedulerScheduleNextCompletion(Entered(e),
                                                  Plus(e.time, Size(read)))
             ELSE Entered(e), e)
  /\ UNCHANGED <<running, queues, level, lastTime, rem, enteredAt>>

schedulerFCFSCompleteJob(e) ==
  LET n == Len(jobQueue)
  IN  /\ policy = "FCFS"
      /\ IF n = 0
         THEN UNCHANGED jobQueue /\ Completed(Forgotten(e), e, NoJob)
         ELSE /\ jobQueue' = list_remove(jobQueue, n)
              /\ Completed(IF n > 1
                           THEN schedulerScheduleNextCompletion(
                                  Forgotten(e), Plus(e.time, rem[jobQueue[n - 1]]))
                           ELSE Forgotten(e), e, jobQueue[n])
      /\ UNCHANGED <<running, queues, level, lastTime, rem, enteredAt>>

-----------------------------------------------------------------------------
(* schedulerLCFS.c: the job at the head of the queue is served next.       *)

schedulerLCFSScheduleJob(e) ==
  /\ policy = "LCFS"
  /\ jobQueue' = list_insert(jobQueue, read)
  /\ running' = IF jobQueue = <<>> THEN read ELSE running
  /\ Arrived(IF jobQueue = <<>>
             THEN schedulerScheduleNextCompletion(Entered(e),
                                                  Plus(e.time, Size(read)))
             ELSE Entered(e), e)
  /\ UNCHANGED <<queues, level, lastTime, rem, enteredAt>>

schedulerLCFSCompleteJob(e) ==
  /\ policy = "LCFS"
  /\ IF running = NoJob
     THEN UNCHANGED <<jobQueue, running>> /\ Completed(Forgotten(e), e, NoJob)
     ELSE LET q == list_remove(jobQueue, list_find(jobQueue, running))
          IN  /\ jobQueue' = q
              /\ running' = IF q = <<>> THEN NoJob ELSE Head(q)
              /\ Completed(IF q = <<>> THEN Forgotten(e)
                           ELSE schedulerScheduleNextCompletion(
                                  Forgotten(e), Plus(e.time, Size(Head(q)))),
                           e, running)
  /\ UNCHANGED <<queues, level, lastTime, rem, enteredAt>>

-----------------------------------------------------------------------------
(* schedulerSJF.c                                                          *)

schedulerSJFScheduleJob(e) ==
  /\ policy = "SJF"
  /\ jobQueue' = list_insert(jobQueue, read)
  /\ running' = IF running = NoJob THEN read ELSE running
  /\ Arrived(IF running = NoJob
             THEN schedulerScheduleNextCompletion(Entered(e),
                                                  Plus(e.time, Size(read)))
             ELSE Entered(e), e)
  /\ UNCHANGED <<queues, level, lastTime, rem, enteredAt>>

\* Mutant: ties go to the larger id.
ShortestLast(q) ==
  CHOOSE j \in {q[i] : i \in DOMAIN q} : \A i \in DOMAIN q :
    \/ Size(j) < Size(q[i])
    \/ Size(j) = Size(q[i]) /\ j >= q[i]

\* The loop over the queue: least job time, then least id.
Shortest(q) ==
  CHOOSE j \in {q[i] : i \in DOMAIN q} : \A i \in DOMAIN q :
    \/ Size(j) < Size(q[i])
    \/ Size(j) = Size(q[i]) /\ j <= q[i]

schedulerSJFCompleteJob(e) ==
  LET q == list_remove(jobQueue, list_find(jobQueue, running))
  IN  /\ policy = "SJF"
      /\ jobQueue' = q
      /\ running' = IF q = <<>> THEN NoJob ELSE Shortest(q)
      /\ Completed(IF q = <<>> THEN Forgotten(e)
                   ELSE schedulerScheduleNextCompletion(
                          Forgotten(e), Plus(e.time, Size(Shortest(q)))),
                   e, running)
      /\ UNCHANGED <<queues, level, lastTime, rem, enteredAt>>

-----------------------------------------------------------------------------
(* schedulerMLFQ.c                                                         *)

\* The highest level that has a job.
Top(qs) == CHOOSE l \in Levels : qs[l] # <<>> /\ \A k \in 0 .. (l - 1) : qs[k] = <<>>

Idle(qs) == \A l \in Levels : qs[l] = <<>>

\* Mutant: the job that runs stays in its queue.
schedule_next_keeping(qs, now) ==
  IF Idle(qs)
  THEN running' = NoJob /\ queues' = qs /\ UNCHANGED lastTime
  ELSE running' = Head(qs[Top(qs)]) /\ queues' = qs /\ lastTime' = now

\* schedule_next: what becomes of the queues and of running ...
schedule_next(qs, now) ==
  IF Idle(qs)
  THEN running' = NoJob /\ queues' = qs /\ UNCHANGED lastTime
  ELSE /\ running' = Head(qs[Top(qs)])
       /\ queues' = [qs EXCEPT ![Top(qs)] = Tail(@)]
       /\ lastTime' = now

\* Mutant: every slice is 1 long.
NextSliceWhole(s, qs, left, now) ==
  IF Idle(qs) THEN s ELSE schedulerScheduleNextCompletion(s, Plus(now, 1))

\* ... and of the simulator: a slice of 1 or what is left of the job.
NextSlice(s, qs, left, now) ==
  IF Idle(qs) THEN s
  ELSE LET next == Head(qs[Top(qs)])
       IN  schedulerScheduleNextCompletion(
             s, Plus(now, IF left[next] < 1 THEN left[next] ELSE 1))

\* Mutant: there is always a lower level.
LowerAlways(l) == l + 1

Lower(l) == IF l < MAX_MLFQ_LEVELS - 1 THEN l + 1 ELSE l

\* A job that runs below level 0 is preempted by the new one.  What it has run
\* of its slice is charged to it and it goes to the end of its queue.
Preempt(e, qs) ==
  LET ran  == IF e.time - lastTime > rem[running] THEN rem[running]
                                                   ELSE e.time - lastTime
      lvl  == IF ran > 0 THEN Lower(level[running]) ELSE level[running]
      left == [rem EXCEPT ![running] = @ - ran]
      qs1  == [qs EXCEPT ![lvl] = Append(@, running)]
  IN  /\ rem' = left
      /\ level' = [level EXCEPT ![running] = lvl]
      /\ enteredAt' = [j \in Jobs |-> IF j = read \/ (j = running /\ ran > 0)
                                      THEN e.time ELSE enteredAt[j]]
      /\ schedule_next(qs1, e.time)
      /\ Arrived(NextSlice(schedulerCancelNextCompletion(Entered(e)), qs1, left,
                           e.time), e)

schedulerMLFQScheduleJob(e) ==
  LET qs == [queues EXCEPT ![0] = Append(@, read)]
  IN  /\ policy = "MLFQ"
      /\ \/ /\ running = NoJob
            /\ schedule_next(qs, e.time)
            /\ enteredAt' = [enteredAt EXCEPT ![read] = e.time]
            /\ Arrived(NextSlice(Entered(e), qs, rem, e.time), e)
            /\ UNCHANGED <<rem, level>>
         \/ running # NoJob /\ level[running] > 0 /\ Preempt(e, qs)
         \/ /\ running # NoJob /\ level[running] = 0
            /\ queues' = qs
            /\ enteredAt' = [enteredAt EXCEPT ![read] = e.time]
            /\ Arrived(Entered(e), e)
            /\ UNCHANGED <<running, lastTime, rem, level>>
      /\ UNCHANGED jobQueue

\* Mutant: a job whose slice is over keeps its level.
schedulerMLFQCompleteSameLevel(e) ==
  LET job  == running
      over == rem[job] > 1
      left == [rem EXCEPT ![job] = IF over THEN @ - 1 ELSE 0]
      qs   == IF over THEN [queues EXCEPT ![level[job]] = Append(@, job)]
                      ELSE queues
  IN  /\ policy = "MLFQ"
      /\ rem' = left
      /\ enteredAt' = [enteredAt EXCEPT ![job] = IF over THEN e.time ELSE @]
      /\ schedule_next(qs, e.time)
      /\ Completed(NextSlice(Forgotten(e), qs, left, e.time), e,
                   IF over THEN NoJob ELSE job)
      /\ UNCHANGED <<jobQueue, level>>

\* The slice of the running job is over, and the job too unless more than the
\* slice was left of it.
schedulerMLFQCompleteJob(e) ==
  LET job  == running
      over == rem[job] > 1
      lvl  == IF over THEN Lower(level[job]) ELSE level[job]
      left == [rem EXCEPT ![job] = IF over THEN @ - 1 ELSE 0]
      qs   == IF over THEN [queues EXCEPT ![lvl] = Append(@, job)] ELSE queues
  IN  /\ policy = "MLFQ"
      /\ IF job = NoJob
         THEN /\ schedule_next(queues, e.time)
              /\ Completed(NextSlice(Forgotten(e), queues, rem, e.time), e, NoJob)
              /\ UNCHANGED <<rem, level, enteredAt>>
         ELSE /\ rem' = left
              /\ level' = [level EXCEPT ![job] = lvl]
              /\ enteredAt' = [enteredAt EXCEPT ![job] = IF over THEN e.time ELSE @]
              /\ schedule_next(qs, e.time)
              /\ Completed(NextSlice(Forgotten(e), qs, left, e.time), e,
                           IF over THEN NoJob ELSE job)
      /\ UNCHANGED jobQueue

-----------------------------------------------------------------------------
\* traceArrivalCallback and schedulerScheduleJob
Arrival ==
  \E e \in sim.queue :
    /\ First(e)
    /\ e.type = "ARRIVAL"
    /\ \/ schedulerFCFSScheduleJob(e)
       \/ schedulerLCFSScheduleJob(e)
       \/ schedulerSJFScheduleJob(e)
       \/ schedulerMLFQScheduleJob(e)

\* schedulerCompleteJob and traceCompletionCallback
Completion ==
  \E e \in sim.queue :
    /\ First(e)
    /\ e.type = "COMPLETION"
    /\ \/ schedulerFCFSCompleteJob(e)
       \/ schedulerLCFSCompleteJob(e)
       \/ schedulerSJFCompleteJob(e)
       \/ schedulerMLFQCompleteJob(e)

\* simulatorRun
Next == Arrival \/ Completion

Spec == Init /\ [][Next]_vars

\* The loop of simulatorRun goes on as long as there are events.
FairSpec == Spec /\ WF_vars(Next)

-----------------------------------------------------------------------------
(* Correctness.                                                            *)

Completions == {e \in sim.queue : e.type = "COMPLETION"}

\* The jobs that the scheduler has been given.
Submitted == {j \in Jobs : j < read} \cup
             (IF \E e \in sim.queue : e.type = "ARRIVAL" THEN {} ELSE {read} \cap Jobs)

Finished == {output[i].job : i \in DOMAIN output}

InSystem == Submitted \ Finished

\* How often a job occurs in the structures of the scheduler and the output.
Times(q, j) == Cardinality({i \in DOMAIN q : q[i] = j})

Held(j) ==
  IF policy = "MLFQ"
  THEN Cardinality({p \in Levels \X Jobs : /\ p[2] \in DOMAIN queues[p[1]]
                                           /\ queues[p[1]][p[2]] = j})
       + (IF running = j THEN 1 ELSE 0)
  ELSE Times(jobQueue, j)

\* No job is lost, served twice or used after jobDestroy: once submitted it is
\* held by the scheduler exactly once until it is written to the output, and
\* it is written exactly once.
EachJobOnce ==
  ~ sim.failed =>
    \A j \in Jobs :
      /\ Held(j) = IF j \in InSystem THEN 1 ELSE 0
      /\ Cardinality({i \in DOMAIN output : output[i].job = j}) <= 1

\* The server is busy exactly when there is work: there is one completion
\* event, the one completionEvent refers to, if some job is in the system, and
\* none otherwise.
BusyServer ==
  ~ sim.failed =>
    /\ {e.id : e \in Completions} = {sim.completionEvent} \ {NoEvent}
    /\ Cardinality(Completions) = IF InSystem = {} THEN 0 ELSE 1

\* The job that the pending completion is about, and what is left of it then.
Serving == IF policy = "FCFS" THEN jobQueue[Len(jobQueue)] ELSE running

LeftAfter(j) == IF policy = "MLFQ" /\ rem[j] > 1 THEN rem[j] - 1 ELSE 0

\* When the work of the first k jobs is done if no time is wasted.
Drain ==
  LET d[k \in 0 .. Len(trace)] ==
        IF k = 0 THEN 0
        ELSE (IF d[k - 1] > trace[k].arrival THEN d[k - 1] ELSE trace[k].arrival)
             + Size(k)
  IN  d

\* Remaining time of the jobs in S.
Work(S) ==
  LET w[k \in 0 .. Len(trace)] ==
        IF k = 0 THEN 0 ELSE w[k - 1] + (IF k \in S THEN rem[k] ELSE 0)
  IN  w[Len(trace)]

\* Work is conserved under every policy, preemption included: the pending
\* completion and what is left after it end exactly when the submitted work
\* would end on a server that never idles and repeats nothing.
WorkConserved ==
  ~ sim.failed =>
    IF InSystem # {}
    THEN \A e \in Completions :
           e.time + LeftAfter(Serving) + Work(InSystem \ {Serving})
             = Drain[Cardinality(Submitted)]
    ELSE output # <<>> =>
           output[Len(output)].time = Drain[Cardinality(Submitted)]

\* The order in which a policy without preemption prefers jobs.
Preferred(j, i) ==
  CASE policy = "FCFS" -> j < i
    [] policy = "LCFS" -> j > i
    [] policy = "SJF"  -> Size(j) < Size(i) \/ (Size(j) = Size(i) /\ j < i)
    [] OTHER           -> TRUE

\* FCFS, LCFS and SJF keep their word: a job that ran while another one was
\* waiting since before its start was preferred to it.
PolicyRespected ==
  \A p \in DOMAIN output :
    LET o == output[p] IN
      \A i \in Jobs :
        /\ i \notin {output[q].job : q \in 1 .. p}
        /\ trace[i].arrival < o.time - Size(o.job)
        => Preferred(o.job, i)

\* MLFQ: the running job is of the highest level there is, and the level of a
\* job is the number of slices it has had, up to the lowest level.
HighestLevelRuns ==
  policy = "MLFQ" /\ ~ sim.failed =>
    /\ running # NoJob => \A l \in 0 .. (level[running] - 1) : queues[l] = <<>>
    /\ \A j \in InSystem :
         LET slices == Size(j) - rem[j]
         IN  level[j] = IF slices < MAX_MLFQ_LEVELS THEN slices
                                                     ELSE MAX_MLFQ_LEVELS - 1

\* Simulated time never goes back, whatever sums wrap around.
TimeMonotone == [][sim'.simTime >= sim.simTime]_vars

\* The simulation ends, and unless an assert stopped it every job of the trace
\* has been completed.
AllComplete == <>[](sim.failed \/ (sim.queue = {} /\ Finished = Jobs))

\* simulatorlab/README.md says of MLFQ "round robin order is determined by the
\* time when a job enters a priority level": the jobs of one level wait in the
\* order in which they entered it.
RoundRobin ==
  \A l \in Levels : \A p, q \in DOMAIN queues[l] :
    p < q => enteredAt[queues[l][p]] <= enteredAt[queues[l][q]]
=============================================================================
