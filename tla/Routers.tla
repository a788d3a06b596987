------------------------------ MODULE Routers ------------------------------
(***************************************************************************)
(* stress.c: one thread per router of a network finds the distances to all *)
(* others by exchanging distance vectors over channels, while the main     *)
(* thread probes for convergence (check_done), compares the result with    *)
(* Floyd-Warshall, closes done_channel and joins the routers.              *)
(*                                                                         *)
(* Vectors are passed by pointer.  A router owns four of them and rotates  *)
(* their roles, so whoever holds a pointer relies on the owner not coming  *)
(* round to that vector again.                                             *)
(*                                                                         *)
(* The channels are those of channel.c with a buffer, used through the     *)
(* atomic operations that BufferedChannel implements (ChannelSpec): a      *)
(* channel_select performs any entry that is possible.                     *)
(***************************************************************************)
EXTENDS Integers, Sequences, FiniteSets

CONSTANTS
  NumChannel,   \* num_channel: the number of routers
  Inf,          \* inf_distance; twice as much still fits into a distance_t
  Topologies    \* the graphs of the topology files

Routers == 1 .. NumChannel
Distances == 0 .. Inf

Linked(g, r, s) == r # s /\ g[r][s] # Inf

\* Links have a distance in each direction, and no router is far from itself.
ASSUME TopologyAssumption ==
  /\ NumChannel \in Nat \ {0} /\ Inf \in Nat \ {0}
  /\ Topologies \subseteq [Routers -> [Routers -> Distances]]
  /\ \A g \in Topologies : \A r, s \in Routers :
       g[r][r] = 0 /\ (Linked(g, r, s) <=> Linked(g, s, r))

\* main_buffer_size and secondary_buffer_size, which "only support up to a
\* buffer size of 1".
main_buffer_size == 1
secondary_buffer_size == 1

\* The message that is not a pointer, and the pointers to vectors of routers.
Null == <<>>
VARIABLES
  topology,   \* topology: the distances of the links
  channels,   \* [Routers -> the pointers in the router's channel]
  completed_channel, \* the answers to main, oldest first
  done,       \* done_channel is closed
  vectors,    \* [Routers -> [0 .. 3 -> its distance_vector_t's]]
  curr,       \* [Routers -> which of them is curr_state]
  unsent,     \* [Routers -> the neighbours still in its select_list]
  changed,    \* [Routers -> changed]
  pc,         \* [Routers -> where the router is]
  data,       \* [Routers -> the pointer it received last]
  main        \* the main thread: where it is, the wave of check_done, the
              \* router or answer it is at, valid and completed

vars == <<topology, channels, completed_channel, done, vectors, curr, unsent,
          changed, pc, data, main>>

-----------------------------------------------------------------------------
(* The solution                                                            *)

\* One round of the outermost loop.  (The inner loops update in place, but
\* no update touches the row or the column of the intermediate router.)
ThroughOne(k, d) ==
  [src \in Routers |-> [dst \in Routers |->
     IF d[src][k] + d[k][dst] < d[src][dst] THEN d[src][k] + d[k][dst]
                                            ELSE d[src][dst]]]

floyd_warshall(g) ==
  LET solution[k \in 0 .. NumChannel] ==
        IF k = 0 THEN g ELSE ThroughOne(k, solution[k - 1])
  IN solution[NumChannel]

-----------------------------------------------------------------------------
(* Routers                                                                 *)

Neighbours(r) == {s \in Routers : Linked(topology, r, s)}

\* next_state, prev_prev_state and prev_state: cycling the buffers keeps
\* their order, so that the role of each follows from curr_state.
AheadOfTwo(b, n) == 2 + ((b + n) % 2)

Ahead(b, n) == (b + n) % 4
NextState(r) == Ahead(curr[r], 1)

\* The main thread when check_done is called (again).
CheckDone(at) ==
  [at |-> at, wave |-> 1, i |-> 1, valid |-> TRUE,
   completed |-> [r \in Routers |-> Null]]

Init ==
  /\ topology \in Topologies
  /\ channels = [r \in Routers |-> <<>>]
  /\ completed_channel = <<>>
  /\ done = FALSE
  /\ vectors = [r \in Routers |-> [b \in 0 .. 3 |->
                  [epoch |-> b, dist |-> topology[r]]]]
  /\ curr = [r \in Routers |-> 2]
  /\ unsent = [r \in Routers |-> Neighbours(r)]
  /\ changed = [r \in Routers |-> FALSE]
  /\ pc = [r \in Routers |-> "select"]
  /\ data = [r \in Routers |-> Null]
  /\ main = CheckDone("probe")

\* The buffers rotate: the oldest becomes next_state, a copy of the new
\* curr_state with the following epoch.
Cycled(r, dist) ==
  LET new == Ahead(curr[r], 1)
      old == Ahead(curr[r], 2) IN
  [vectors[r] EXCEPT ![new].dist = dist,
                     ![old] = [epoch |-> vectors[r][new].epoch + 1, dist |-> dist]]

IterateForEver(r, left, now, dist) ==
  LET again == left = {} /\ now IN
  /\ unsent' = [unsent EXCEPT ![r] = IF again THEN Neighbours(r) ELSE left]
  /\ changed' = [changed EXCEPT ![r] = now]
  /\ UNCHANGED curr
  /\ vectors' = [vectors EXCEPT ![r][NextState(r)].dist = dist]

\* The end of an iteration: left are the neighbours still to be sent to, now
\* whether next_state differs from curr_state, dist the distances in next_state.
\* A router that has sent to everyone and has news broadcasts again.
Iterate(r, left, now, dist) ==
  LET again == left = {} /\ now IN
  /\ unsent' = [unsent EXCEPT ![r] = IF again THEN Neighbours(r) ELSE left]
  /\ changed' = [changed EXCEPT ![r] = now /\ ~ again]
  /\ curr' = [curr EXCEPT ![r] = IF again THEN NextState(r) ELSE @]
  /\ vectors' = [vectors EXCEPT ![r] = IF again THEN Cycled(r, dist)
                                       ELSE [@ EXCEPT ![NextState(r)].dist = dist]]

NextDist(r) == vectors[r][NextState(r)].dist

\* channel_select performs entry 1, the router's own channel.
Receive(r) ==
  /\ pc[r] = "select"
  /\ channels[r] # <<>>
  /\ data' = [data EXCEPT ![r] = Head(channels[r])]
  /\ channels' = [channels EXCEPT ![r] = Tail(@)]
  /\ pc' = [pc EXCEPT ![r] = IF Head(channels[r]) = Null THEN "answer" ELSE "update"]
  /\ UNCHANGED <<topology, completed_channel, done, vectors, curr, unsent,
                 changed, main>>

\* The vector of a neighbour is read through the pointer.
Update(r) ==
  LET src == data[r][1]
      theirs == vectors[src][data[r][2]].dist
      ours == NextDist(r)
      new == [i \in Routers |-> IF topology[r][src] + theirs[i] < ours[i]
                                THEN topology[r][src] + theirs[i] ELSE ours[i]] IN
  /\ pc[r] = "update"
  /\ Iterate(r, unsent[r], changed[r] \/ new # ours, new)
  /\ data' = [data EXCEPT ![r] = Null]
  /\ pc' = [pc EXCEPT ![r] = "select"]
  /\ UNCHANGED <<topology, channels, completed_channel, done, main>>

\* The answer to a probe: curr_state if the router has nothing left to send.
Converged(r) == unsent[r] = {} /\ ~ changed[r]

Answer(r) ==
  /\ pc[r] = "answer"
  /\ Len(completed_channel) < secondary_buffer_size
  /\ completed_channel' =
       Append(completed_channel, IF Converged(r) THEN <<r, curr[r]>> ELSE Null)
  /\ Iterate(r, unsent[r], changed[r], NextDist(r))
  /\ pc' = [pc EXCEPT ![r] = "select"]
  /\ UNCHANGED <<topology, channels, done, data, main>>

\* channel_select performs an entry that sends curr_state to a neighbour.
\* Swapping it with the last entry removes the neighbour from the list.
Send(r, s) ==
  /\ pc[r] = "select"
  /\ s \in unsent[r]
  /\ Len(channels[s]) < main_buffer_size
  /\ channels' = [channels EXCEPT ![s] = Append(@, <<r, curr[r]>>)]
  /\ Iterate(r, unsent[r] \ {s}, changed[r], NextDist(r))
  /\ UNCHANGED <<topology, completed_channel, done, pc, data, main>>

\* channel_select finds done_channel closed; the router frees its vectors.
Stop(r) ==
  /\ pc[r] = "select"
  /\ done
  /\ pc' = [pc EXCEPT ![r] = "ended"]
  /\ UNCHANGED <<topology, channels, completed_channel, done, vectors, curr,
                 unsent, changed, data, main>>

router(r) ==
  \/ Receive(r) \/ Update(r) \/ Answer(r) \/ Stop(r)
  \/ \E s \in Routers : Send(r, s)

-----------------------------------------------------------------------------
(* The main thread                                                         *)

\* check_done sends NULL to the routers, one after the other.
Probe ==
  /\ main.at = "probe"
  /\ Len(channels[main.i]) < main_buffer_size
  /\ channels' = [channels EXCEPT ![main.i] = Append(@, Null)]
  /\ main' = IF main.i < NumChannel THEN [main EXCEPT !.i = @ + 1]
                                    ELSE [main EXCEPT !.at = "collect", !.i = 1]
  /\ UNCHANGED <<topology, completed_channel, done, vectors, curr, unsent,
                 changed, pc, data>>

\* What check_done makes of an answer: in the first wave it keeps the pointer,
\* in the second one it compares epochs, read through both pointers now.
Judged(answer) ==
  IF answer = Null THEN [main EXCEPT !.valid = FALSE]
  ELSE IF main.wave = 1 THEN [main EXCEPT !.completed[answer[1]] = answer]
  ELSE [main EXCEPT !.valid = @ /\ vectors[answer[1]][main.completed[answer[1]][2]].epoch
                                   = vectors[answer[1]][answer[2]].epoch]

\* After the last answer check_done returns false, starts the second wave, or
\* returns true.
ConcludedAtOnce(m) == IF m.valid THEN [m EXCEPT !.at = "close"] ELSE CheckDone("sleep")

Concluded(m) ==
  CASE ~ m.valid -> CheckDone("sleep")
    [] m.valid /\ m.wave = 1 -> [m EXCEPT !.at = "probe", !.wave = 2, !.i = 1]
    [] OTHER -> [m EXCEPT !.at = "close"]

Collect ==
  /\ main.at = "collect"
  /\ completed_channel # <<>>
  /\ completed_channel' = Tail(completed_channel)
  /\ LET m == Judged(Head(completed_channel)) IN
     main' = IF main.i < NumChannel THEN [m EXCEPT !.i = @ + 1] ELSE Concluded(m)
  /\ UNCHANGED <<topology, channels, done, vectors, curr, unsent, changed, pc,
                 data>>

\* usleep returns and check_done is called again.
Retry ==
  /\ main.at = "sleep"
  /\ main' = CheckDone("probe")
  /\ UNCHANGED <<topology, channels, completed_channel, done, vectors, curr,
                 unsent, changed, pc, data>>

\* channel_close(done_channel)
Finish ==
  /\ main.at = "close"
  /\ done' = TRUE
  /\ main' = [main EXCEPT !.at = "join"]
  /\ UNCHANGED <<topology, channels, completed_channel, vectors, curr, unsent,
                 changed, pc, data>>

\* The last pthread_join returns and the channels are destroyed.
Join ==
  /\ main.at = "join"
  /\ \A r \in Routers : pc[r] = "ended"
  /\ main' = [main EXCEPT !.at = "end"]
  /\ UNCHANGED <<topology, channels, completed_channel, done, vectors, curr,
                 unsent, changed, pc, data>>

run_stress == Probe \/ Collect \/ Retry \/ Finish \/ Join

Ended == main.at = "end" /\ UNCHANGED vars

Next == run_stress \/ (\E r \in Routers : router(r)) \/ Ended

Spec == Init /\ [][Next]_vars

\* The operating system runs every thread that can run.  Strong fairness of a
\* send: check_done sleeps for a millisecond between its calls, so a router
\* is not kept from sending by probes alone.
FairSpec ==
  /\ Spec /\ WF_vars(run_stress)
  /\ \A r \in Routers :
       WF_vars(router(r)) /\ SF_vars(\E s \in Routers : Send(r, s))

-----------------------------------------------------------------------------
(* Properties                                                              *)

Elements(s) == {s[i] : i \in DOMAIN s}

\* The vectors that a router may still read: their pointers are in a channel
\* or held by a router that is about to follow them.
VectorsInUse ==
  ((UNION {Elements(channels[r]) : r \in Routers}) \cup Elements(data)) \ {Null}

\* No router has, or will receive, a pointer to the vector that its owner is
\* writing (next_state): with channels of one slot, an owner that has sent its
\* vector to everyone and goes on cannot come round to one that is still unread.
VectorsStable == \A p \in VectorsInUse : p[2] # NextState(p[1])

\* On networks where no router has news four times between its two answers:
\* when check_done returns true no vector is on its way (so none is read after
\* its owner has freed it), no router has anything left to say (its assertion
\* that changed is false), and the distances that check_done has just read and
\* asserts to be the solution are the final ones of every router.
VerdictRight ==
  main.at \in {"close", "join", "end"} =>
    /\ VectorsInUse = {}
    /\ \A r \in Routers :
         /\ Converged(r)
         /\ main.completed[r] = <<r, curr[r]>>
         /\ vectors[r][curr[r]].dist = floyd_warshall(topology)[r]

\* check_done returns true at last, and all routers end.
Converges == <>(main.at = "end")
=============================================================================
