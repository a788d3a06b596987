# Specifications for the CMPSC-473 operating-systems projects

The repository holds five independent C programs.  This directory models their
core logic in TLA+, checks it with TLC on small instances and proves part of it
with TLAPS for every value of the constants.  `PROJECT.json` maps every
definition to the lines it models.

## Inventory

### 1. Channels (`concurrency-project-FreezeKickerz`)

| part | state | operations | who touches it |
|---|---|---|---|
| ring buffer, `buffer.c` | `data`, `size`, `next`, `capacity` | `buffer_create`, `buffer_add`, `buffer_remove` | the channel, under `chan_mutex` |
| channel, `channel.c` | `closed_flag`, buffer, two selector lists, rendezvous state (`unbuf_stage`, `active_unbuf_op`, `unbuf_data`, `waiting_senders`, `waiting_receivers`), two mutexes, four condition variables | `channel_send`, `channel_receive`, `channel_non_blocking_send`, `channel_non_blocking_receive`, `channel_select`, `channel_close`, `channel_create`, `channel_destroy` | any number of threads at once |
| selector list, `linked_list.c` | nodes that point to semaphores | insert, find, remove, walk, count | `channel_select` and everyone who posts |
| router program, `stress.c` | per router four distance vectors, a list of sends still to do, `changed`; one channel per router, `completed_channel`, `done_channel` | `router`, `check_done`, `run_stress` | one thread per router and main; vectors are passed by pointer |

Hard here: signals sent after the mutex was released, posts that race with
`sem_wait`, `channel_close` racing with threads that go to sleep, pointers into
the frames of other threads' calls, spurious wakeups; in the router program a
vector read through a pointer while its owner goes on, and a test for
convergence that races with what it tests.  Correct means: no lost
wakeup, no value lost, invented or delivered twice, FIFO order, `channel_close`
releases everybody, a select reports the entry it performed; routers stop with
the shortest distances, and not before.

### 2. Scheduling simulator (`simulatorlab-FreezeKickerz`)

| part | state | operations |
|---|---|---|
| event loop, `simulator.c` | event queue ordered by time, type and id; simulated time; next id | `simulatorSchedule`, `simulatorRemoveEvent`, `simulatorRun` |
| framework, `scheduler.c` | the one completion event, output file | schedule and cancel the next completion, the two callbacks |
| trace reader, `trace.c` | position in the trace, current job | `traceScheduleNextArrival` |
| policies, `schedulerFCFS.c`, `LCFS`, `SJF`, `MLFQ` | job queue, running job, levels, time of the last accounting | `ScheduleJob`, `CompleteJob` |

Sequential, but every event runs a chain of callbacks that cancel and
schedule other events.  Hard here: ties between completions and arrivals,
preemption, jobs of length 0, 64-bit sums that wrap.  Correct means: each job is
in exactly one place and completes once, the server never idles while there is
work, the work done equals the time that passed, each policy serves in its order.

### 3. Allocator (`assignment-2-malloclab-FreezeKickerz`)

`mm.c` keeps a heap of blocks with boundary tags and an explicit doubly linked
free list whose links live in the free payloads; `memlib.c` gives it memory up
to a limit.  Operations: `mm_init`, `malloc`, `free`, `realloc`, `calloc`.
Hard here: flags that are toggled, not set, words that are a footer or the
client's data depending on a flag elsewhere, coalescing at the end of the heap,
a heap at its limit.  Correct means: blocks tile the heap, do not overlap and are
aligned; the list holds exactly the free blocks; the client's data survive.

`mdriver.c` grades such an allocator.  It replays traces of requests, keeps the
extent of every block in a list and in a splay tree (`stree.c`), fills blocks
with random bytes that it looks for later, measures the peak use of the heap,
takes the best of several times (`fcyc.c`) and turns all this into points, with
an alarm that jumps out of whatever is going on.  Hard here: an allocator that
is wrong in one of many ways at one of many moments, pointer surgery in the tree
and the list, blocks filled only in part, statistics of a trace that was broken
off.  Correct means: a trace is valid if and only if the allocator did nothing
wrong, and only an allocator with no wrong trace earns points for performance.

### 4. Shell (`mini-shell-project-FreezeKickerz`)

`cmd.c` executes parse trees with `fork`, `exec`, `pipe`, `dup2` and `waitpid`;
`main.c` reads lines.  The state is that of the processes: call stacks,
descriptors, directory, environment.  Hard here: children that run in any
order, copies of pipe ends that keep a reader waiting, builtins in subshells,
exit codes of 8 bits, a `fork` that fails half-way.  Correct means: a line has
the status and side effects its operators give it, children are reaped, the
prompt comes back.

### 5. Homework 1 (`homework-1-FreezeKickerz`)

A doubly linked list of integers, kobjects with reference counts that only go
up, zero-length arrays and integers of several widths.  Sequential and small.

## Modules

| module | models | what a step is |
|---|---|---|
| `RingBuffer`, `Buffer` | `buffer.c` as operators on a `buffer_t`; the buffer alone with an arbitrary caller | one call |
| `BoundedFifo` | abstract: a bounded queue | one call |
| `ChannelTypes` | calls, entries, statuses shared by both kinds of channel | |
| `BufferedChannel` | `channel.c` for size > 0, over `RingBuffer` | one critical section, or one signal, broadcast or walk over a selector list outside of one |
| `ChannelSpec` | abstract: each call is one atomic operation on a queue | |
| `UnbufferedChannel` | `channel.c` for size 0: `unbuffered_sync` and its callers | as above |
| `RendezvousSpec` | abstract: a sender and a receiver meet in one step | |
| `Routers` | `stress.c`: the router threads and main, over the atomic channels of `ChannelSpec` | one channel operation, or the code up to the next one |
| `Simulator` | `simulator.c`, `scheduler.c`, `trace.c` and the four policies | one pass of `simulatorRun`'s loop, callbacks included |
| `Allocator` | `mm.c` and the part of `memlib.c` it uses, with a client | one call |
| `SplayTree` | `stree.c`, pointer by pointer, as operators | |
| `Fcyc` | the K-best sampler of `fcyc.c`, as operators | |
| `Driver` | `mdriver.c` and `fsec`, over `SplayTree` and `Fcyc`, with an allocator (external) that may answer wrongly | one request, one sample, or one phase of `main` and `run_tests` |
| `Shell` | `cmd.c`, `start_shell`, and the kernel as they use it (external) | one system call of one process |
| `ChannelPrograms`, `MC*` | small programs, traces and command lines for TLC | |
| `BufferProofs`, `BufferedChannelProofs`, `UnbufferedChannelProofs`, `RoutersProofs`, `SimulatorProofs`, `AllocatorProofs`, `DriverProofs`, `ShellProofs` | theorems | |

How state corresponds to code, where it is not one variable per field:

- **Program counters.**  In the channel modules `pc[t]` is where thread `t` is
  between two steps, `call[t]` its arguments and `idx[t]` the entry a select
  looks at.  A blocked thread is `"blocked"`; `pthread_cond_signal` moves one
  of them to `"woken"`, a broadcast all, and `SpuriousWakeup` any.
- **Selector lists** are, for each direction and channel, how often each
  thread's semaphore is in the list: `channel.c` only inserts, removes the first
  node with a given semaphore and walks over all of them.
- **`unbuf_data`** is represented by `owner`, the thread whose call it points
  into, and `StageTruth` says that this call is not over.
- **Event queue**: the set of its events.  Ids differ, so the order of
  `simulatorEventCompare` is total and the head is the least event.
- **Heap**: words of 8 bytes that hold headers, links, footers or data alike.
  Pointers are word indices, and 0 is also NULL.  What the allocator misreads in
  the program it misreads in the model.
- **Routers**: a pointer to a vector is `<<owner, buffer>>`.  The roles of the four
  buffers follow from `curr`, because rotating them keeps their order.
  `unsent[r]` is the part of the select list that swapping with the last entry
  has not removed.  The program uses channels only through their interface, so
  each operation is one step, as `RefinesChannelSpec` allows.
- **Driver**: `phase`, `i`, `pass` and `op` say where `main` is; `ranges` is the
  `range_set_t`, a record per range with its links, and the tree.  A random byte
  is a token that names the request that wrote it and its place in the random
  data.  `faults` is a ghost that records what the allocator did wrong; only the
  properties read it, apart from the bound on it.
- **Shell**: `procs[p].stack` holds the calls of `parse_command` in progress,
  `in` and `out` the pipe that is standard input or output (0: something else),
  `held` the pipe ends in other descriptors.  `line`, `start` and `failed` are
  history variables for the properties; `enteredAt` in `Simulator` is another.

## Runs

| run | instance | shows |
|---|---|---|
| `MCBuffer` | capacity 3, two values | the ring refines a bounded FIFO queue, unwritten slots stay inside |
| `BufferedSelecting` | 2 channels of capacities 1 and 2, two selecting threads, a third one that sends, receives, closes | a select loses no post, leaves no registration behind, reports the entry it performed; every call is atomic (`RefinesChannelSpec`) |
| `BufferedSleeping` | 3 threads, capacity 1, fair | no wakeup is lost, a close reaches everyone who sleeps; sleepers and selects are served, `channel_close` releases all |
| `UnbufferedAnything` | 3 threads, every call, spurious wakeups | stage, owner and counters stay consistent; nobody sleeps through a chance to meet |
| `UnbufferedMeeting` | 2 open channels, fair | every SUCCESS is one meeting (`RefinesRendezvous`), partners meet, a select in `sem_wait` is woken |
| `Routing` | 3 networks of 3 routers, channels of one slot, fair | no vector is read while it is rewritten (`VectorsStable`); `check_done` is right (`VerdictRight`) and says yes at last (`Converges`) |
| `Simulations` | all sorted traces of up to 4 jobs, arrivals 0..2, sizes 0, 1, 4, four policies, 3 levels, times modulo 10, fair | no job lost, server busy, work conserved, policy order kept, time monotone, everything completes |
| `LargeBlocks` | first block of 128 bytes, heap of 272, requests 0, 41, 82, three blocks held | blocks tile the heap, tags and flags are right, the list holds exactly the free blocks, no two of them are neighbours, the client's data survive |
| `Grading` | 5 short traces, 3 debug modes, with libc, once, with an alarm, an allocator that is wrong at most once | the verdict is right (`VerdictExact`), tree and list agree with the blocks (`RangesExact`), the utilisation, the best times and the points are right |
| `ShellLines` | 9 scripts over 30 commands, pipes of one item, one failing `fork`, 8 processes, fair | status and side effects, no child left, the prompt returns |
| `RoundRobins` | MLFQ, 3 jobs, 10 levels | **violated**: see findings |
| `SmallBlocks` | first block of 32 bytes, requests 24 and 48 | **violated** |

Every property of a passing run has a mutant in `PROJECT.json`: a plausible
error in one definition that makes TLC report that property.

### Bounds, and why they are enough

- *Channels.*  Three threads are what it takes for a third thread to take what
  two others were woken for; two calls each let a thread find what its first
  call left behind.  A select with a missing argument (`CheckArguments`,
  "misuse" in `ChannelTypes`) is one of the calls of every channel run: it returns
  GENERIC_ERROR and touches nothing.  In `c1`, of capacity 1, "not empty" and "full" coincide, so
  every call waits for another; `c2`, of capacity 2, tells FIFO from other
  orders.  Symmetry over threads is used only where the program is the same for
  all and no liveness is checked.  Threads stop after `MaxCalls`, so deadlock is
  not an error there; the liveness properties and `NoSleepingPartner`
  say who may not be left waiting.
- *Simulator.*  Four jobs put two in a queue while one runs and one arrives;
  sizes 0, 1 and 4 give empty jobs, ties and jobs that sink through all levels;
  `TimeRange` 10 lets sums wrap.  The simulation ends, so deadlock is not an
  error; `AllComplete` says how it must end.
- *Allocator.*  128 bytes instead of 4096 for the first block, 272 for the heap:
  three blocks of 64 or 96 bytes split it, use it up exactly, make it grow, and hit
  the limit.  Size 0 and NULL results are included.  `LargeBlocks` keeps to
  requests of more than 40 bytes, blocks of at least 64: below that the error
  shown by `SmallBlocks` destroys every property.
- *Routers.*  Channels have one slot: `test.c` calls `run_stress` with that size, and
  `stress.c:304` allows no larger one.
  Three routers give a triangle with a detour that is shorter than the direct link
  (a second round of broadcasts), a line (a router in the middle that both others
  wait for) and a router that cannot be reached; with one more the state space is
  out of reach.  `Inf` is 9, larger than every sum of links.  The program ends,
  and the model stutters then, so deadlock is checked.
- *Driver.*  Alignment 2, a heap of 12 addresses, `maxfill` 2: blocks of 1, 2, 3
  and 5 bytes are below, at, between and above once and twice `maxfill`.
  Four blocks make every case of `tree_remove` and the zig-zig and zig-zag turns
  happen.  One wrong answer of the allocator (`MaxFaults`), of any kind, at any
  request: a second one comes after the verdict, or is as good as the first.
  An allocator without room answers NULL.  `kbest` 2 and `maxsamples` 3 let a
  sample replace another; `MaxReps` bounds the doubling of the warm-up.
  The readable traces free all their blocks, as 23 of the 24 in the repository do:
  a block that is left at the end (`syn-example-short.rep`) is not looked at again,
  and damage to it would go unseen.
- *Shell.*  Pipes of capacity 1 block a writer of two items; the lines cover
  every operator, nested pipes, builtins and `exit` in subshells, assignments
  without a name and without a value in the shell and in its children, a pipe that
  nobody reads, redirection to a file and from one that is missing.

### Fairness

Channels: weak fairness of each thread's steps, because the operating system
runs every thread that can run.  No fairness for starting calls, for spurious
wakeups or among the threads waiting on one condition variable.  Simulator: weak
fairness of the loop, a sequential program that goes on.  Routers: weak fairness of
every router and of main, and strong fairness of a router's sends.  Without it main could
fill a router's channel with a new probe in every moment in which a neighbour wants to
send; `check_done` is called again only after `usleep(1000)` (`stress.c:330`), and a
`channel_select` that waits is posted by every receive on that channel.  Shell: weak fairness of
each process; none for reading lines.

## What is proved

All proofs are in modules of their own and are checked by TLAPS with the SMT,
Zenon and PTL back ends.  Assumptions on constants are the `ASSUME`s of the
modules: positive capacities, finitely many threads, programs that are
well-formed calls; traces sorted by arrival with times in range, at least one
level; for the driver, traces in which an id names one block (`TraceAssumption`)
and no request makes a block without bytes (`BlockAssumption`), see below; for the
shell, parse trees in which a command has a larger number than the commands below
it, and programs whose exit status fits into 8 bits.  The
parts of every inductive invariant were checked as invariants of the run of its
module before they were proved.

- **Ring buffer** (`BufferProofs`; any capacity, any values):
  `BufferTypeCorrect`, `BufferNoJunk`, `BufferRefinesFifo`.  The lemmas say what
  `buffer_add` and `buffer_remove` do to the sequence of values that a ring
  represents, and settle the wrap of the index; `BufferedChannelProofs`, which
  cannot extend a module about another system, begins with the same lemmas.
  `NoJunk` is inductive together with `TypeOK`.
- **Buffered channels** (`BufferedChannelProofs`; any number of threads and
  channels, any capacities, any program, selects included).
  - `ChannelTypeCorrect`.  `TypeOK` is not inductive: it does not say that the
    index of a select stays inside its list, so `Cur(t)` could be undefined.
    `Shape` adds that (`Indices`).
  - `ChannelNoLostWakeup`: if a thread sleeps on a condition variable, then the
    slots or values it could use are no more than the threads already
    woken for them and the signals on their way.  Inductive relative to
    `Shape`.  The heart is counting: `WakeupTransfer` (a transfer takes a slot
    and owes a signal), `WakeupSignal` (a signal wakes one sleeper), and
    `WakeupNothing` (a woken thread gives up only if nothing is there).
  - `ChannelCloseReachesSleepers`: a thread asleep on a closed channel has a
    broadcast of `channel_close` still to come, because `closed_flag` is read
    under the mutex with which the thread goes to sleep.
  - `ChannelRefinesSpec`: every step is a step of `ChannelSpec` or leaves what it
    shows alone, so calls are atomic.  `CallFacts` says which kind of call can be
    where and that a select has no result before it performed an entry; with
    `Shape` it is enough, one lemma per abstract action.
  - `ChannelSelectorsExact`: the nodes of a thread in a selector list are the
    entries of its select that were visited.  Proved entry by entry (`Exact`),
    with `Shape` and `CallFacts`: together they are `CallInv`.
  - `ChannelNoLostPost`: on top of `CallInv`, whoever makes a channel ready has
    to walk over the selector list (`Posted`), and meets every select that was
    registered before it looked (`Served`).
- **Unbuffered channels** (`UnbufferedChannelProofs`; any number of threads and
  channels, any program, closes and spurious wakeups included).
  - `UnbufferedStageTruth` and `UnbufferedNoSleepingPartner`.  They are inductive
    together, with `Shape`: the broadcast at the end of a rendezvous wakes
    everybody only because the stage tells truly that it has ended.
  - `UnbufferedWaitingExact`: the counters are cardinalities of sets of threads.
  - `UnbufferedRefinesRendezvous`, for programs that never close and without
    spurious wakeups.  The hypotheses are needed: see the initiators that return
    SUCCESS alone, below.
- **Routers** (`RoutersProofs`; every network): `RoutersVectorsStable`.  The
  invariant `LinkInv` follows one link: the vectors a router has sent to a
  neighbour are in the one slot of its channel, in its hands, or done with, and
  none of those still in use is three behind `curr`, which in a cycle of four is
  the one to be rewritten.  That the channels have one slot is used.
- **Simulator** (`SimulatorProofs`; all sorted traces, policies, numbers of
  levels and widths of timestamps): `SimulatorTypeCorrect` and
  `SimulatorTimeMonotone`.  The inductive invariant is `TimeInv /\ SchedInv`: no
  event in the queue is older than the current time, because the assert in
  `simulatorSchedule` stops the program when a sum has wrapped; an event in the
  queue means that a line of the trace has been read, so an arrival has a job;
  the queues hold jobs of the trace and MLFQ's `last_time` is never in the
  future, so the time it charges does not wrap.
- **Schedulers** (also `SimulatorProofs`, same generality): `SchedulerEachJobOnce`,
  `SchedulerBusyServer`, `SchedulerPolicyRespected`, `SchedulerHighestLevelRuns`,
  `SchedulerWorkConserved`.  One invariant carries all five, as long as no assert
  has failed; its parts need each other:
  - `EventInv`: at most one arrival and one completion are pending, and they are
    the ones that `read` and `completionEvent` refer to;
  - `ListInv`: the list of FCFS, LCFS and SJF falls, since `list_insert` puts the
    newest job first, and holds just the jobs in the system;
  - `LevelInv`: a job of MLFQ is in the queue of its level, which counts its
    slices, and the pending completion ends a slice that began at `last_time`.
    Slices last at most 1 and completions come before arrivals of the same
    instant, so a preemption never has time to charge for;
  - `WorkInv`: the pending completion and what is left after it end when all the
    submitted work would, without idling.  `WorkConserved` follows at once, but
    needs the others to be inductive.
  The sums are recursive functions over the lines of the trace.  That these
  functions exist and what they add up to is proved by taking the least line at
  which it fails (`UpTo`, `Recursion`), which needs no induction scheme.
- **Allocator** (`AllocatorProofs`; any heap, any size of the first block, any
  number of blocks in use): `AllocatorBlocksTile`, `AllocatorTagsRight`,
  `AllocatorFreeListExact`, `AllocatorCoalesced`, `AllocatorContentsKept` and
  `AllocatorNoOverlap`, all under one hypothesis, `LargeRequests`: a request is 0,
  or more than 40 bytes and so small that rounding it up does not wrap.  The first
  part is the border that finding 2 draws (`SmallBlocks` breaks `NoOverlap` without
  it); `LargeBlocks` runs under the same hypothesis.  The invariant `AllocInv` says
  that there are a set of blocks, their lengths, and the set of those allocated,
  such that
  - `Layout`: the blocks tile the heap, at odd words and in even lengths;
  - `Tags`: headers, previous-block flags and footers are those of the blocks;
  - `Chain`: some sequence lists the free blocks, and the links of the words
    in memory are its neighbours;
  - `Merged` and `Large`: no two free blocks touch, and a block at the end of the
    heap that `coalesce` would overlook has at least eight words, or is the first
    one.  This is where `LargeRequests` is needed;
  - `LiveOk` and `Claims`: the allocated blocks are the client's, and hold its
    data.

  Headers, footers, links and data share one memory, so most of the work is to
  show which words a store reaches: a tag is not a link, a link is not a tag, and
  neither lies in a block in use (`TagWords`, `LinkWords`, `Kept`).  `free` is
  proved from one state to the next inside the call: it first makes the freed
  block a member of the list like any other, where only `Merged` may fail, and
  each removal and the final insertion keep the rest.  `realloc` is followed with a
  claim about the beginning of the new block (`Start`) between the copy and the
  client's own store.  The walk over the headers and the free list are recursive
  functions; that they exist, and where they lead, is proved by taking the least
  number at which it fails (`NatMin`, `Iterates`).
- **Driver** (`DriverProofs`; every list of traces, every option, any limits).
  - `DriverGradeEarned`, whatever the allocator does and whenever the alarm goes
    off.  `GradeInv` says that as long as there are no errors every trace that
    `run_tests` has left is valid; `timeout_handler` overwrites the count of
    errors, but never with 0.  With `-c` traces may be left out, and then no
    utilisation was measured (`Unmeasured`) and the average is below every
    threshold.
  - `DriverUtilRight`: `Counting` adds to the property that the blocks that are
    allocated lie apart below the break and that an id without a block has size
    0 unless it was freed.  `TraceAssumption` is used here: an id names one
    block, made once and not used after its free.  `traces/README` says so, all
    traces of the repository obey it, and `read_trace` does not check it.
  - `DriverKBest`: `Sampled` names for every place of the array the sample it
    came from, no sample twice, in ascending order, and a sample without a place
    is not less than any that has one.  `add_sample` puts a sample last and sorts
    it in, which is `Inserted` at some place (`SortedIs`, `HoldsInserted`); the
    n-th of such an array is the n-th least of all (`SampledBest`).
  - `DriverRangesExact`, whatever the allocator answers: an overlap may go
    unseen, but an address that is taken is always found and refused.
    `RangesInv` (inductive together with `GradeInv` and `UtilInv`) says that while
    the driver checks validity the live blocks have different addresses, that
    these are the keys of the tree and of the records (`Held`; with debugging off
    there are none), and that the links of the records are inverse and
    ascending (`RangeSet`, `Linked`).  Linked records need not be one
    list, since a block below all others gets no successor (findings); what
    `RangesExact` promises does not need it.  `Freed` is in the invariant
    because `realloc` and `free` look for the old address of a block, which has to
    be in the tree or NULL.  `BlockAssumption` is `assert(size > 0)` in `add_range`
    (`mdriver.c:709`): the driver stops at such a trace, and none in the
    repository has one.
  - `SplayTreeOperations` is the lemma about `stree.c` that this rests on, for
    every tree: `insert`, `remove` and `find_nearest` are what they are for a set
    of keys, and every node is still found.  `Tree(t, S, D)` names the set
    `D[x]` of the keys under each node, so that "is a descendant of" needs no
    induction.  A rotation changes two of these sets (`RotateTree`), each of zig,
    zig-zig and zig-zag puts the splayed node over more keys than before
    (`SplayTurnIs`), so that it is the root when the loop ends (`SplayIs`); a
    search stays with the subtree in which the key belongs (`SearchTrail`); the
    minimum of the right subtree has no left child and may take the place of
    the removed node (`MinimumIs`, `LiftedTree`).
  - Sums over sets are counted in tokens: if every `x` has `f[x]` tokens, the
    sum is the number of tokens, in whatever order it is taken (`AddsCount`), and
    blocks that lie apart inject their tokens into the heap (`SumFits`).
- **Shell** (`ShellProofs`; all parse trees and scripts, any number of processes
  and of failing forks, pipes of any capacity, every schedule): `ShellAllReaped`
  and `ShellResultRight`.  The invariant `ShellInv` has three parts (`Kept`):
  - `Struct`: the stack of a process is a path down the parse tree, of which
    only the innermost call may be in the middle of forking and waiting, and the
    children that this call will wait for (`Reg`) exist and are its own;
  - `Clean`, while no fork has failed: every process but the shell is one that
    its parent will wait for, whoever follows the parents comes to the shell
    (`Rooted`: parents form no cycle), and a process holds the ends of a pipe
    only between `pipe` and `close`.  At the prompt nobody is left;
  - `Results`, while no fork of this line has failed: there is a set of
    processes, the shell among them, of each of which we know the command that it
    executes and the directory and variable it began with, and each is on the way
    to the outcome of that command (`OnWay`, `Right`): what the innermost call
    and the calls below it still have to do gives that outcome.  The processes
    whose status is ignored (the first of a pipe, for example) are not in the
    set, and so may be killed by a broken pipe or redirected.
  `Outcome` and `Executed` are recursive functions over the parse trees; that
  they exist is proved by taking the least command at which they fail.

Only model-checked:

- every liveness property: fairness and ENABLED are beyond the prover;
- `VerdictRight` of the routers.  Its invariant would have to follow a whole round
  of answers through every router, and for other networks the property rests on
  the time main waits: two answers that are four vectors apart point to the same
  buffer (see below);
- `VerdictExact` of the driver, which relates what the allocator did wrong in the
  whole trace to the verdict.  Its invariant would need the contents of the heap
  block by block, on top of `RangesInv`.  It holds for traces that free all their
  blocks and allocators that are wrong once: with several unseen overlaps, a
  copy may put back bytes that were damaged;
- that `NoOverlap` fails for small requests: a counterexample is for TLC.

## Findings

1. `RoundRobins`.  `simulatorlab/README.md:52` wants round robin by the time a
   job entered its level.  A job whose slice begins in the instant in which
   another job arrives is preempted before it ran and put at the end of its
   level (`schedulerMLFQ.c:104`).  `traces/MLFQ_5.csv.expected` differs from the
   program's output for this reason.
2. `SmallBlocks`.  `coalesce` compares with `(size_t *) mm_heap_hi() - 7`, seven
   words and not seven bytes (`mm.c:256`), so a last block of 32 or 48 bytes is
   not joined with a free neighbour.  After the heap has grown, `mm.c:266` and the
   toggles at `mm.c:141` and `mm.c:155` leave a wrong flag, and `free` joins
   blocks by what the client's data happen to say.  `malloc` finally returns
   memory outside of the heap.

Read in the code while modelling, without a run of their own:

- `channel.c:322` says that `channel_close` makes all blocking calls return.  On an
  unbuffered channel a sender queued behind a rendezvous is woken by the
  broadcast, goes back to `stage0` without looking at `closed_flag`
  (`channel.c:131`), becomes the initiator of a new rendezvous and sleeps after
  the last broadcast.
- A sender blocked on a full buffer can still succeed after the close
  (`channel.c:182` against the comment at `:323`); `ChannelSpec` allows it.
- An initiator woken by `channel_close`, or spuriously, returns SUCCESS without
  having met anybody (`channel.c:112`, `:118`).  `RefinesRendezvous` is therefore
  checked on open channels without spurious wakeups.
- Two selects that face each other on an unbuffered channel can both commit and
  wait for ever (`channel.c:430`).
- A select that finds an unbuffered channel closed does not report its index
  (`channel.c:424`, `:463`).
- A non-blocking call on an unbuffered channel can wait for ever
  (`channel.c:250`).
- `check_done` keeps a pointer to the first answer of a router and compares the
  epoch found through it with that of the second answer (`stress.c:284`).  A router
  that has gone through all four of its vectors in between answers with the same
  buffer, so the two epochs are one number and the change is not noticed.
- `realloc` frees the old block when `malloc` failed (`mm.c:203`), where that of
  libc would keep it.  `Allocator` does the same and takes the block from its
  client, so no property speaks of the loss; `size + 8` and
  `size * nmemb` can wrap (`mm.c:126`, `:214`).
- If the second `fork` of a pipe fails, the call returns 0, nobody waits for
  the first child, and the shell keeps both ends of the pipe (`cmd.c:178`).
- An assignment without a value, `a=`, makes `setenv` read through NULL, and a
  signal ends the process (`cmd.c:214`), which may be the shell itself.
  `Assign` and `ResultRight` say so; a word without a name, `==1`, only has
  status -1.
- `shell_cd` takes the first parameter and ignores the others (`cmd.c:271`), so
  `cd a b` changes to `a`.  The shell's `README.md:44` says that `cd` with more
  than one argument leaves the directory alone.  The `arg` of a `cd` in the model
  is this first parameter; with none, `chdir` fails and the directory stays.
- In the shell `bool` is an enumeration, so `run_on_pipe` and `shell_cd` return
  the whole number and not 0 or 1.
- `add_range` gives a block below all others no successor (`mdriver.c:733`) and
  so cuts off the list, against the comments at `mdriver.c:139` and `:1116`.  An
  overlap with the block above it is then noticed only by its random bytes, and
  not at all if blocks are larger than `2 * MAXFILL` or in debug mode 0:
  `VerdictExact` makes this exception.
- The alarm of a trace is never cancelled (`mdriver.c:269`).  If it goes off after
  the last trace, or while a trace is being freed, it jumps into a dead frame or to
  freed data; the model stops there (`LateAlarm`).
- `timeout_handler` sets `errors` to 1 and forgets earlier ones (`mdriver.c:237`).
  With `-c`, `run_tests` returns only from the normal path (`mdriver.c:280`),
  so after a timeout it goes on with the next trace.
- `MIN_SPACE` and `MAX_SPACE` are both 0.50, so the final score of a utilisation of
  exactly one half is 0/0 (`mdriver.c:315`).
- `main` averages over all traces, `printresults` over the valid ones; they agree
  only because any error makes both 0, which is what `GradeEarned` checks.
- `fsec` does not count samples of 0 (`fcyc.c:190`), so a clock that stands still
  keeps it in its loop.

## Not modelled

- `channel_create` is part of `Init`; `channel_destroy` (`channel.c:357`) frees
  what `channel_close` may still use, and its callers are told to wait.
- Pointers of the linked lists; lists are sequences, sets or counts.
- Failures of `malloc` outside of the allocator, of `pipe`, and of the mutex
  functions.
- Standard error, append mode and the contents of files in the shell; the words
  and arguments of `utils.c`; the generated parser; `read_line`.
- In the driver: the parsing of options, trace files and the table of reference
  throughputs (choices of their outcome), printing, reading the clock.
- Test programs and graders: `stress_send_recv.c` passes messages round a ring
  with calls that `ChannelPrograms` covers, `test.c` consists of fixed scripts.
- The list of `homework-1`: planned, see below.
- `kobject.c`, `zla.c`, `polymorphic_ints.c`: no life cycle to check.

## Plan

Done, in this order: ring buffer and channels (the most concurrent part), the
simulator, the allocator, the shell, the router program, the driver with its tree
and its timing; the proofs named under "What is proved".

1. Prove: `VerdictExact` of the driver, on top of `RangesInv`.
2. Model: the linked lists node by node (channels, simulator, homework 1), as
   a refinement of a sequence; `channel_destroy` after a close; a failing `pipe`
   in the shell.
