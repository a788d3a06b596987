------------------------------- MODULE Driver -------------------------------
(***************************************************************************)
(* The driver that grades an allocator (mdriver.c): it replays traces of   *)
(* requests, tracks the extent of every block in a list and a splay tree,  *)
(* fills blocks with random bytes and looks for them again, measures the   *)
(* use of the heap and the time, and adds up the points, with an alarm     *)
(* that may go off at any moment.                                          *)
(*                                                                         *)
(* The allocator under test is external and may be wrong: its answers are  *)
(* chosen freely, and the ghost "faults" records for each trace what was   *)
(* wrong with them.  A random byte is a token that names the request that  *)
(* wrote it and its place in the random data, so two of them never agree   *)
(* by chance.  Utilisations are percents, times whole numbers.             *)
(***************************************************************************)
EXTENDS SplayTree, Fcyc, Integers

CONSTANTS
    Options,      \* what main may be called with
    Align,        \* ALIGNMENT
    HeapLo, Top,  \* the heap may use the addresses HeapLo .. Top - 1
    maxfill,      \* bytes of random data at either end of a block
    Times,        \* what the clock may show for one sample
    Refs,         \* throughputs of the reference allocator
    MaxFaults,    \* bound: wrong answers of the allocator in one execution
    MaxReps       \* bound: repetitions that the warm-up of fsec may reach

\* What a trace file says, and the options with the traces they name.
TraceFile == [weight : Int, ops : Seq([type : STRING, index : Nat \cup {-1}, size : Nat])]
Option == [debug : Int, onetime : BOOLEAN, timeout : BOOLEAN, libc : BOOLEAN,
           files : Seq(TraceFile)]

ASSUME DriverAssumption ==
    /\ {Align, maxfill, MaxReps} \subseteq Nat \ {0}
    /\ HeapLo \in Nat \ {0} /\ Top \in Nat /\ HeapLo < Top
    /\ Options \subseteq Option
    /\ Times \subseteq Int

\* An id names one block (traces/README): malloc makes it and nothing comes
\* after its free, which has no size.  Only a free may be of NULL, id -1.
Orderly(trace) ==
    \A k \in DOMAIN trace.ops :
      LET o == trace.ops[k] IN
      /\ o.type # "f" => o.index # -1
      /\ o.type = "a" => \A n \in 1 .. k - 1 : trace.ops[n].index # o.index
      /\ o.type = "f" => /\ o.size = 0
                         /\ o.index # -1 =>
                              \A n \in k + 1 .. Len(trace.ops) : trace.ops[n].index # o.index

ASSUME TraceAssumption == \A o \in Options : \A k \in DOMAIN o.files : Orderly(o.files[k])

\* add_range asserts that a block has bytes: no trace asks malloc for none.
ASSUME BlockAssumption ==
    \A o \in Options : \A k \in DOMAIN o.files : \A n \in DOMAIN o.files[k].ops :
      o.files[k].ops[n].type = "a" => o.files[k].ops[n].size > 0

VARIABLES
    opts,     \* debug_mode, onetime_flag, set_timeout, run_libc, the tracefiles
    phase,    \* where main is
    i,        \* the trace
    pass,     \* which of the two calls of eval_mm_valid
    op,       \* the request
    errors,
    stats,    \* mm_stats
    blocks,   \* blocks, block_sizes and block_rand_base of the trace
    ranges,   \* the range_set_t: list, the range_t's, lo_tree
    brk, mem, \* the memory system
    acc,      \* locals of eval_mm_util: total_size, max_total_size, max_heap_size
    timing,   \* the sampler of fcyc.c and the repetitions
    alarm,    \* whether an alarm is pending
    ref,      \* ref_throughput
    sums,     \* what printresults and main computed
    faults    \* ghost: <<kind, trace>> of every wrong answer and timeout

vars == <<opts, phase, i, pass, op, errors, stats, blocks, ranges, brk, mem, acc,
          timing, alarm, ref, sums, faults>>

WNONE == 0
WALL == 1
WUTIL == 2
WPERF == 3
CountsPerf(s) == s.weight \in {WALL, WPERF}
CountsUtil(s) == s.weight \in {WALL, WUTIL}

Junk == <<0, 0>>
Files == Len(opts.files)
Trace == opts.files[i]
Request == Trace.ops[op]
Ids(trace) == {o.index : o \in Range(trace.ops)} \ {-1}
DBG_NONE == opts.debug = 0
DBG_EXPENSIVE == opts.debug = 2

\* The ids whose blocks the requests so far have left allocated.
Live ==
    {id \in Ids(Trace) :
       \E k \in 1 .. op - 1 :
          /\ Trace.ops[k].index = id /\ Trace.ops[k].size > 0
          /\ \A n \in k + 1 .. op - 1 : Trace.ops[n].index # id}

Extent(p, size) == p .. p + size - 1
Bytes(id) == Extent(blocks[id].p, blocks[id].size)
AnyOf(ids) == UNION {Bytes(id) : id \in ids}

-----------------------------------------------------------------------------
\* The random data.

\* How many bytes are filled at the end of a block.
FillEnd(size) == CASE size <= maxfill -> 0
                   [] size > 2 * maxfill -> maxfill
                   [] OTHER -> size - maxfill

\* The tokens that belong into a block: from its start, and from its last
\* "end" bytes on.
Pattern(size, base, end) ==
    LET first == Min({size, maxfill})
    IN  [o \in (0 .. first - 1) \cup (size - end .. size - 1) |->
           <<base, IF o < first THEN o ELSE o - (size - end)>>]

\* Memory after randomize_block of a block at p, by request "base".
randomize_block(m, p, size, base) ==
    LET pattern == Pattern(size, base, FillEnd(size))
    IN  IF DBG_NONE \/ size = 0 THEN m
        ELSE [a \in DOMAIN m |-> IF a - p \in DOMAIN pattern THEN pattern[a - p] ELSE m[a]]

\* A mutant: the end of a block is never looked at.
check_start(m, block, moved) ==
    LET pattern == Pattern(block.size, block.base, 0)
    IN  \/ DBG_NONE \/ block.size = 0
        \/ \A o \in DOMAIN pattern : m[block.p + o] = pattern[o]

\* check_index: the block still holds its tokens; after a realloc ("moved")
\* its end is not looked at.
check_index(m, block, moved) ==
    LET pattern == Pattern(block.size, block.base,
                           IF moved THEN 0 ELSE FillEnd(block.size))
    IN  \/ DBG_NONE \/ block.size = 0
        \/ \A o \in DOMAIN pattern : m[block.p + o] = pattern[o]

-----------------------------------------------------------------------------
\* The set of ranges.

new_range_set == [list |-> NULL, range |-> <<>>, lo_tree |-> tree_new]

SetNext(r, x, y) == IF x = NULL THEN [r EXCEPT !.list = y]
                    ELSE [r EXCEPT !.range[x].next = y]
SetPrev(r, x, y) == IF x = NULL THEN r ELSE [r EXCEPT !.range[x].prev = y]

\* Why add_range refuses a block, if it does.
Refused(r, lo, size, top) ==
    LET hi == lo + size - 1
        prev == tree_find_nearest(r.lo_tree, lo)
        next == IF prev = NULL THEN NULL ELSE r.range[prev].next
    IN  \/ lo % Align # 0
        \/ lo < HeapLo \/ hi > top - 1
        \/ /\ ~DBG_NONE
           /\ \/ prev # NULL /\ lo <= r.range[prev].hi
              \/ next # NULL /\ hi >= next

\* The ranges with one more.  A block below all others becomes the list, and
\* the list that was there is no longer linked to it.
Added(r, lo, size, index) ==
    LET prev == tree_find_nearest(r.lo_tree, lo)
        next == IF prev = NULL THEN NULL ELSE r.range[prev].next
        p == [hi |-> lo + size - 1, index |-> index, prev |-> prev, next |-> next]
        made == [r EXCEPT !.range = [z \in DOMAIN @ \cup {lo} |-> IF z = lo THEN p ELSE @[z]],
                          !.lo_tree = tree_insert(@, lo)]
    IN  IF DBG_NONE THEN r ELSE SetPrev(SetNext(made, prev, lo), next, lo)

remove_range(r, lo) ==
    IF lo \notin Nodes(r.lo_tree) THEN r
    ELSE LET p == r.range[lo]
             cut == SetPrev(SetNext(r, p.prev, p.next), p.next, p.prev)
         IN  [cut EXCEPT !.lo_tree = tree_remove(@, lo),
                         !.range = Restrict(@, DOMAIN @ \ {lo})]

\* The ranges that a walk from the head of the list comes to.
Listed(r) ==
    LET z[n \in Turns(r.lo_tree)] ==
          IF n = 0 THEN r.list
          ELSE IF z[n - 1] = NULL THEN NULL ELSE r.range[z[n - 1]].next
    IN  Range(z) \ {NULL}

-----------------------------------------------------------------------------
\* The allocator under test.

MayFail == Cardinality(faults) < MaxFaults
Blame(kind) == IF kind = "none" THEN faults ELSE faults \cup {<<kind, i>>}

\* What is wrong with a block at p, in a heap up to b, beside the other blocks.
Kind(p, b, size, others) ==
    CASE p = NULL -> "null"
      [] p # NULL /\ p % Align # 0 -> "unaligned"
      [] p # NULL /\ p % Align = 0 /\ (p < HeapLo \/ p + size > b) -> "outside"
      [] OTHER -> IF Extent(p, size) \cap AnyOf(others) # {} THEN "overlap" ELSE "none"

\* The filled bytes of blocks, which the driver will look for.
Filled(ids) ==
    UNION {{blocks[id].p + o :
              o \in DOMAIN Pattern(blocks[id].size, 0, FillEnd(blocks[id].size))} :
           id \in IF DBG_NONE THEN {} ELSE ids}

\* The break when the heap has grown to hold a block at p, if it may.
Grown(p, size) == IF p = NULL \/ p + size > Top THEN brk ELSE Max({brk, p + size})

\* Any place at all for a block beside the others, and what is wrong with it.
Places(size, others) ==
    UNION {{[p |-> p, brk |-> b, kind |-> Kind(p, b, size, others), hit |-> NULL] :
              b \in {brk, Grown(p, size)}} : p \in {NULL} \cup 1 .. Top}

\* A right answer that hits a byte of another block or of what was copied.
Damaged(a, h) == [a EXCEPT !.kind = "garbled", !.hit = h]
Garbled(right, others, copied) ==
    {Damaged(a, h) : a \in right, h \in Filled(others)}
    \cup {Damaged(a, a.p + o) : a \in right, o \in 0 .. copied - 1}

\* The answers to a request for a block beside the others into which the
\* start of an old block is copied: an address, the new break, what is wrong,
\* and the byte that was hit if one was.  One that has no room answers NULL.
Answers(size, others, copied) ==
    LET all == Places(size, others)
        right == {a \in all : a.kind = "none"}
    IN  CASE MayFail -> all \cup Garbled(right, others, copied)
          [] ~MayFail /\ right = {} -> {a \in all : a.kind = "null"}
          [] OTHER -> right

\* Memory when a byte of it was hit.
Hit(m, a) == IF a = NULL THEN m ELSE [m EXCEPT ![a] = Junk]

\* Memory when a block was given back, and its first n bytes copied to p.
Released(id, p, n) ==
    [a \in DOMAIN mem |->
       CASE a \in Extent(p, n) -> mem[blocks[id].p + (a - p)]
         [] a \in (Bytes(id) \ AnyOf(Live \ {id})) \ Extent(p, n) -> Junk
         [] OTHER -> mem[a]]

-----------------------------------------------------------------------------
\* main, from the options to the call of run_tests.

NoStats == [valid |-> FALSE, util |-> 0, secs |-> 0, weight |-> WNONE, ops |-> 0]
NoBlocks(trace) == [id \in Ids(trace) |-> [p |-> NULL, size |-> 0, base |-> 0]]
CleanMem == [a \in 1 .. Top |-> Junk]
NoSums == [printed |-> <<0, 0>>, averages |-> <<0, 0>>, points |-> <<0, 0, 0>>]

Init ==
    /\ opts \in Options
    /\ phase = IF opts.libc THEN "libc" ELSE "bench"
    /\ i = 1 /\ pass = 0 /\ op = 1 /\ errors = 0
    /\ stats = [t \in 1 .. Len(opts.files) |-> NoStats]
    /\ blocks = <<>> /\ ranges = new_range_set
    /\ brk = HeapLo /\ mem = CleanMem
    /\ acc = [total |-> 0, peak |-> 0, heap |-> 0]
    /\ timing = [sampler |-> init_sampler, reps |-> 1]
    /\ alarm = FALSE /\ ref = 0 /\ sums = NoSums /\ faults = {}

heap == <<blocks, ranges, brk, mem>>
grading == <<errors, ref, sums, alarm>>

\* read_trace gives up on a weight or a request that does not exist.
Readable(trace) ==
    /\ trace.weight \in WNONE .. WPERF
    /\ \A k \in DOMAIN trace.ops : trace.ops[k].type \in {"a", "r", "f"}

read_trace == [stats[i] EXCEPT !.weight = Trace.weight, !.ops = Len(Trace.ops)]

\* app_error, unix_error and the other ends with exit(1).
Abort ==
    /\ phase' = "aborted"
    /\ UNCHANGED <<opts, i, pass, op, stats, heap, acc, timing, grading, faults>>

\* A trace for libc's malloc, which is valid or ends the program.
eval_libc_valid == phase = "libc" /\ i <= Files /\ Readable(Trace) /\ MayFail /\ Abort

LibcTrace ==
    /\ phase = "libc" /\ i <= Files
    /\ \/ /\ Readable(Trace)
          /\ stats' = [stats EXCEPT ![i] = [read_trace EXCEPT !.valid = TRUE]]
          /\ phase' = "warm"
          /\ UNCHANGED <<opts, i, pass, op, heap, acc, timing, grading, faults>>
       \/ ~Readable(Trace) /\ Abort

\* The table of libc's results, of which main keeps only the summary.
LibcReport ==
    /\ phase = "libc" /\ i > Files
    /\ phase' = "bench"
    /\ UNCHANGED <<opts, i, pass, op, stats, heap, acc, timing, grading, faults>>

\* measure_ref_throughput, then a fresh mm_stats and run_tests.
Benchmark ==
    /\ phase = "bench"
    /\ \/ /\ ref' \in Refs
          /\ phase' = "open" /\ i' = 1
          /\ stats' = [t \in 1 .. Files |-> NoStats]
          /\ UNCHANGED <<opts, pass, op, heap, acc, timing, errors, sums, alarm, faults>>
       \/ MayFail /\ Abort

-----------------------------------------------------------------------------
\* run_tests.

OpenTrace ==
    /\ phase = "open" /\ i <= Files
    /\ \/ /\ Readable(Trace)
          /\ stats' = [stats EXCEPT ![i] = read_trace]
          /\ phase' = "start" /\ pass' = 1
          /\ alarm' = (alarm \/ opts.timeout)
          /\ UNCHANGED <<opts, i, op, heap, acc, timing, errors, ref, sums, faults>>
       \/ ~Readable(Trace) /\ Abort

\* The verdict of eval_mm_valid on this trace.
Conclude(valid) ==
    /\ stats' = [stats EXCEPT ![i].valid = valid]
    /\ phase' = IF opts.onetime THEN "report" ELSE IF valid THEN "start" ELSE "close"
    /\ pass' = IF opts.onetime \/ ~valid THEN pass ELSE 3

\* malloc_error, and eval_mm_valid returns false with these ranges.
Reject(kind, r) ==
    /\ errors' = errors + 1
    /\ faults' = Blame(kind)
    /\ ranges' = r
    /\ Conclude(FALSE)
    /\ UNCHANGED <<opts, i, op, blocks, brk, mem, acc, timing, ref, sums, alarm>>

\* The start of eval_mm_valid (passes 1 and 2) and of eval_mm_util (3).
StartPass ==
    /\ phase = "start"
    /\ \/ /\ phase' = "replay" /\ op' = 1
          /\ brk' = HeapLo /\ mem' = CleanMem
          /\ blocks' = NoBlocks(Trace)
          /\ ranges' = IF pass = 3 THEN ranges ELSE new_range_set
          /\ acc' = [total |-> 0, peak |-> 0, heap |-> 0]
          /\ UNCHANGED <<opts, i, pass, stats, timing, grading, faults>>
       \/ MayFail /\ pass < 3 /\ Reject("init", new_range_set)
       \/ MayFail /\ pass = 3 /\ Abort

\* A request was served: the block and the ranges are these now.
Served(id, block, r, m, a) ==
    /\ blocks' = IF id = -1 THEN blocks ELSE [blocks EXCEPT ![id] = block]
    /\ ranges' = r
    /\ mem' = m
    /\ brk' = a.brk
    /\ faults' = Blame(a.kind)
    /\ op' = op + 1
    /\ UNCHANGED <<opts, phase, i, pass, stats, acc, timing, grading>>

Malloc ==
    LET id == Request.index  size == Request.size IN
    \E a \in Answers(size, Live, 0) :
       IF a.p = NULL \/ Refused(ranges, a.p, size, a.brk) THEN Reject(a.kind, ranges)
       ELSE Served(id, [p |-> a.p, size |-> size, base |-> op],
                   Added(ranges, a.p, size, id),
                   randomize_block(Hit(mem, a.hit), a.p, size, op), a)

\* realloc to size 0 must return NULL; a wrong one returns something else.
ToNothing ==
    {[p |-> NULL, brk |-> brk, kind |-> "none", hit |-> NULL]} \cup
    (IF MayFail THEN {[p |-> HeapLo, brk |-> brk, kind |-> "zero", hit |-> NULL]} ELSE {})

Realloc ==
    LET id == Request.index
        size == Request.size
        old == blocks[id]
        n == Min({size, old.size})
        removed == remove_range(ranges, old.p)
    IN  IF ~check_index(mem, old, FALSE) THEN Reject("none", ranges)
        ELSE \E a \in IF size = 0 THEN ToNothing
                      ELSE Answers(size, Live \ {id}, IF DBG_NONE THEN 0 ELSE Min({n, maxfill})) :
               LET m == Hit(Released(id, a.p, n), a.hit)
                   added == IF size > 0 THEN Added(removed, a.p, size, id) ELSE removed
               IN  CASE (a.p = NULL) # (size = 0) -> Reject(a.kind, ranges)
                     [] a.p # NULL /\ size > 0 /\ Refused(removed, a.p, size, a.brk) ->
                          Reject(a.kind, removed)
                     [] OTHER ->
                          IF ~check_index(m, [old EXCEPT !.p = a.p, !.size = n], TRUE)
                          THEN Reject(a.kind, added)
                          ELSE Served(id, [p |-> a.p, size |-> size, base |-> op], added,
                                      randomize_block(m, a.p, size, op), a)

Free ==
    LET id == Request.index
        hits == {NULL} \cup (IF MayFail THEN Filled(Live \ {id}) ELSE {})
    IN  IF id # -1 /\ ~check_index(mem, blocks[id], FALSE) THEN Reject("none", ranges)
        ELSE \E h \in hits :
               LET a == [brk |-> brk, kind |-> IF h = NULL THEN "none" ELSE "garbled"]
               IN  IF id = -1 THEN Served(id, NULL, ranges, Hit(mem, h), a)
                   ELSE Served(id, blocks[id], remove_range(ranges, blocks[id].p),
                               Hit(Released(id, NULL, 0), h), a)

Requested(type) == phase = "replay" /\ pass < 3 /\ op <= Len(Trace.ops) /\ Request.type = type

\* With DBG_EXPENSIVE every listed block is checked before every request.
Intact == DBG_EXPENSIVE =>
    \A lo \in Listed(ranges) : check_index(mem, blocks[ranges.range[lo].index], FALSE)

eval_mm_valid ==
    \/ Requested("a") /\ Intact /\ Malloc
    \/ Requested("r") /\ Intact /\ Realloc
    \/ Requested("f") /\ Intact /\ Free
    \/ \E type \in {"a", "r", "f"} : Requested(type) /\ ~Intact /\ Reject("none", ranges)
    \/ \E type \in {"a", "r", "f"} :
         Requested(type) /\ DBG_EXPENSIVE /\ MayFail /\ Reject("check", ranges)

EndPass ==
    /\ phase = "replay" /\ pass < 3 /\ op > Len(Trace.ops)
    /\ IF pass = 1 THEN phase' = "start" /\ pass' = 2 /\ stats' = stats ELSE Conclude(TRUE)
    /\ UNCHANGED <<opts, i, op, heap, acc, timing, grading, faults>>

\* A mutant: what a realloc gives back is not taken off.
DifferenceGross(o) ==
    CASE o.type \in {"a", "r"} -> o.size
      [] OTHER -> IF o.index < 0 THEN 0 ELSE -blocks[o.index].size

\* By how much a request changes the total size.
Difference(o) ==
    CASE o.type = "a" -> o.size
      [] o.type = "r" -> o.size - blocks[o.index].size
      [] OTHER -> IF o.index < 0 THEN 0 ELSE -blocks[o.index].size

\* One request of eval_mm_util, which notices only NULL.
eval_mm_util ==
    /\ phase = "replay" /\ pass = 3 /\ op <= Len(Trace.ops)
    /\ LET o == Request
           none == [p |-> NULL, brk |-> brk, kind |-> "none", hit |-> NULL]
       IN  \E a \in IF o.type = "f" \/ (o.type = "r" /\ o.size = 0) THEN {none}
                    ELSE {b \in Answers(o.size, Live \ {o.index}, 0) : b.kind \in {"none", "null"}} :
             IF a.kind = "null" THEN Abort
             ELSE /\ blocks' = IF o.type = "f" THEN blocks
                               ELSE [blocks EXCEPT ![o.index].p = a.p, ![o.index].size = o.size]
                  /\ brk' = a.brk
                  /\ acc' = LET total == acc.total + Difference(o) IN
                            [total |-> total, peak |-> Max({acc.peak, total}),
                             heap |-> Max({acc.heap, a.brk - HeapLo})]
                  /\ op' = op + 1
                  /\ UNCHANGED <<opts, phase, i, pass, stats, ranges, mem, timing, grading, faults>>

EndUtil ==
    /\ phase = "replay" /\ pass = 3 /\ op > Len(Trace.ops)
    /\ stats' = [stats EXCEPT ![i].util = (100 * acc.peak) \div acc.heap]
    /\ phase' = "warm"
    /\ UNCHANGED <<opts, i, pass, op, heap, acc, timing, grading, faults>>

-----------------------------------------------------------------------------
\* fsec, on eval_libc_speed (pass 0) or eval_mm_speed (pass 3).

WarmUp ==
    /\ phase = "warm"
    /\ \/ /\ timing.reps < MaxReps
          /\ timing' = [timing EXCEPT !.reps = 2 * @]
          /\ phase' = phase
       \/ /\ timing' = [timing EXCEPT !.sampler = init_sampler]
          /\ phase' = "sample"
    /\ UNCHANGED <<opts, i, pass, op, stats, heap, acc, grading, faults>>

\* One turn of the loop; a sample of 0 is thrown away.
Sample ==
    /\ phase = "sample" /\ ~Enough(timing.sampler)
    /\ \E t \in Times :
         timing' = IF t > 0 THEN [timing EXCEPT !.sampler = add_sample(@, t)] ELSE timing
    /\ UNCHANGED <<opts, phase, i, pass, op, stats, heap, acc, grading, faults>>

EndTiming ==
    /\ phase = "sample" /\ Enough(timing.sampler)
    /\ stats' = [stats EXCEPT ![i].secs = timing.sampler.values[1]]
    /\ timing' = [sampler |-> init_sampler, reps |-> 1]
    /\ phase' = IF pass = 0 THEN "libc" ELSE "close"
    /\ i' = IF pass = 0 THEN i + 1 ELSE i
    /\ UNCHANGED <<opts, pass, op, heap, acc, grading, faults>>

\* What is timed replays the trace once more.  It only sees NULL, and gives up
\* on it; the blocks that it leaves behind are never looked at.
eval_mm_speed == phase \in {"warm", "sample"} /\ pass = 3 /\ MayFail /\ Abort
eval_libc_speed == phase \in {"warm", "sample"} /\ pass = 0 /\ MayFail /\ Abort

\* free_trace, free_range_set, mem_deinit, and the next turn of the loop.
CloseTrace ==
    /\ phase = "close"
    /\ phase' = "open" /\ i' = i + 1
    /\ pass' = 0 /\ op' = 1
    /\ blocks' = <<>> /\ ranges' = new_range_set
    /\ brk' = HeapLo /\ mem' = CleanMem
    /\ acc' = [total |-> 0, peak |-> 0, heap |-> 0]
    /\ UNCHANGED <<opts, stats, timing, grading, faults>>

AllTested ==
    /\ phase = "open" /\ i > Files
    /\ phase' = "report"
    /\ UNCHANGED <<opts, i, pass, op, stats, heap, acc, timing, grading, faults>>

-----------------------------------------------------------------------------
\* The alarm.  It is never cancelled.  Before run_tests has set its jump
\* again, after it has begun to free, and once it has returned, the jump
\* leads into freed memory or a dead frame and nothing is known any more.

\* A mutant: the time-out is not counted as an error.
timeout_uncounted ==
    /\ alarm /\ phase \in {"start", "replay", "warm", "sample", "close"}
    /\ alarm' = FALSE
    /\ stats' = [stats EXCEPT ![i].valid = FALSE]
    /\ phase' = "close"
    /\ timing' = [sampler |-> init_sampler, reps |-> 1]
    /\ faults' = faults \cup {<<"timeout", i>>}
    /\ UNCHANGED <<opts, i, pass, op, errors, heap, acc, ref, sums>>

timeout_handler ==
    /\ alarm /\ phase \in {"start", "replay", "warm", "sample", "close"}
    /\ alarm' = FALSE /\ errors' = 1
    /\ stats' = [stats EXCEPT ![i].valid = FALSE]
    /\ phase' = "close"
    /\ timing' = [sampler |-> init_sampler, reps |-> 1]
    /\ faults' = faults \cup {<<"timeout", i>>}
    /\ UNCHANGED <<opts, i, pass, op, heap, acc, ref, sums>>

LateAlarm ==
    /\ alarm /\ phase \in {"open", "close", "report"}
    /\ phase' = "undefined" /\ alarm' = FALSE
    /\ UNCHANGED <<opts, i, pass, op, errors, stats, heap, acc, timing, ref, sums, faults>>

-----------------------------------------------------------------------------
\* The results.

Total(ts, field) == MapThenSumSet(LAMBDA t : stats[t][field], ts)
Average(sum, n) == IF n = 0 THEN 0 ELSE sum \div n
Throughput(ops, secs) == IF secs = 0 THEN 0 ELSE (1000 * ops) \div secs

\* Average utilisation and throughput over some of the traces, by weight.
Averages(ts) ==
    LET perf == {t \in ts : CountsPerf(stats[t])}
        util == {t \in ts : CountsUtil(stats[t])}
    IN  <<Average(Total(util, "util"), Cardinality(util)),
          Throughput(Total(perf, "ops"), Total(perf, "secs"))>>

Valid == {t \in 1 .. Files : stats[t].valid}

\* printresults adds up the valid traces, main all of them.
printresults == IF errors = 0 THEN Averages(Valid) ELSE <<0, 0>>
main_averages == IF errors = 0 THEN Averages(1 .. Files) ELSE <<0, 0>>

\* score_component in percent; 0 / 0 is not a number.
NaN == -1
score_component(perf, min, max) ==
    CASE perf < min -> 0
      [] perf >= min /\ perf > max -> 100
      [] OTHER -> IF min = max THEN NaN ELSE (100 * (perf - min)) \div (max - min)

Index(u, t) == IF NaN \in {u, t} THEN NaN ELSE (60 * u + 40 * t) \div 100

\* Checkpoint 1, checkpoint 2 and final, with the thresholds of config.h.
Points(util, tput) ==
    LET percent(n) == (ref * n) \div 100
        reached == errors = 0 /\ util >= 30
    IN  <<3 * Cardinality(Valid) + (IF reached THEN 100 - 3 * Files ELSE 0),
          IF reached
          THEN Index(score_component(util, 40, 42), score_component(tput, 0, percent(5))) ELSE 0,
          IF errors = 0 /\ util >= 40 /\ tput >= percent(1)
          THEN Index(score_component(util, 50, 50), score_component(tput, percent(30), percent(90)))
          ELSE 0>>

Report ==
    /\ phase = "report"
    /\ phase' = "exit"
    /\ LET own == main_averages IN
       sums' = [printed |-> IF opts.onetime THEN <<0, 0>> ELSE printresults,
                averages |-> own, points |-> Points(own[1], own[2])]
    /\ UNCHANGED <<opts, i, pass, op, stats, heap, acc, timing, errors, ref, alarm, faults>>

Ended == phase \in {"exit", "aborted", "undefined"} /\ UNCHANGED vars

Next ==
    \/ LibcTrace \/ eval_libc_valid \/ eval_libc_speed \/ LibcReport \/ Benchmark
    \/ OpenTrace \/ StartPass \/ eval_mm_valid \/ EndPass
    \/ eval_mm_util \/ EndUtil \/ WarmUp \/ Sample \/ EndTiming \/ eval_mm_speed
    \/ CloseTrace \/ AllTested
    \/ timeout_handler \/ LateAlarm
    \/ Report \/ Ended

Spec == Init /\ [][Next]_vars

-----------------------------------------------------------------------------
\* The traces on which run_tests has come to its verdict.
Judged == CASE phase \in {"report", "exit"} -> 1 .. Min({i, Files})
            [] phase \in {"open", "start", "replay", "close"} -> 1 .. i - 1
            [] OTHER -> {}

\* Whether a trace asks for blocks whose middle is not filled.
HasLarge(trace) == \E o \in Range(trace.ops) : o.size > 2 * maxfill

\* The verdict is right (run_tests, eval_mm_valid): a trace is called invalid
\* only if the allocator did something wrong or the time was over, and valid
\* only if it did nothing wrong, except that an overlap goes unseen without
\* random data, or between blocks too large to be filled.
VerdictExact ==
    \A t \in Judged :
      LET wrong == {f \in faults : f[2] = t}
          seen == {f \in wrong : f[1] # "overlap" \/ ~(DBG_NONE \/ HasLarge(opts.files[t]))}
      IN  /\ stats[t].valid => seen = {}
          /\ ~stats[t].valid => wrong # {}

\* The range set is right (add_range, remove_range, the rotations of stree.c):
\* the tree is a search tree whose keys are just the blocks that are
\* allocated, and the links of the list are inverse, ascending and never lead
\* to a record that was freed.
RangesExact ==
    phase = "replay" /\ pass < 3 =>
      LET r == ranges.range IN
      /\ WellFormed(ranges.lo_tree)
      /\ Nodes(ranges.lo_tree) = DOMAIN r
      /\ ~DBG_NONE => DOMAIN r = {blocks[id].p : id \in Live}
      /\ ranges.list \in {NULL} \cup DOMAIN r
      /\ \A lo \in DOMAIN r :
           /\ r[lo].next # NULL => r[lo].next > lo /\ r[r[lo].next].prev = lo
           /\ r[lo].prev # NULL => r[lo].prev < lo /\ r[r[lo].prev].next = lo

\* The utilisation is right (eval_mm_util): the running total is what the
\* blocks that are allocated add up to, and since they lie apart in the heap
\* the high-water mark never exceeds it.
UtilRight ==
    phase = "replay" /\ pass = 3 =>
      /\ acc.total = MapThenSumSet(LAMBDA id : blocks[id].size, Live)
      /\ acc.peak <= acc.heap

\* The time is right (add_sample): the array holds the kbest least of all the
\* samples so far, in order, whatever order they came in.
KBest == HoldsBest(timing.sampler)

\* The points are earned (main, printresults): whoever gets points for
\* performance has every trace valid, so that main's averages over all traces
\* are those of the table over the valid ones.
GradeEarned ==
    phase = "exit" /\ sums.points[2] # 0 =>
      /\ Valid = 1 .. Files
      /\ sums.averages = sums.printed
      /\ sums.points[1] = 100
=============================================================================
