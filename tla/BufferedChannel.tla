-------------------------- MODULE BufferedChannel --------------------------
(***************************************************************************)
(* Buffered channels of concurrency-project/channel.c: the threads of a    *)
(* program call channel_send, channel_receive, their non-blocking forms,   *)
(* channel_select and channel_close on channels of positive capacity.      *)
(*                                                                         *)
(* Granularity.  A critical section of chan_mutex or of select_list_mutex  *)
(* is one step: a thread that holds a mutex never waits for another one.   *)
(* What the code does after it released chan_mutex is a step of its own:   *)
(* the posts to the registered selectors, the pthread_cond_signal, and     *)
(* each of the broadcasts of channel_close.  A thread in pthread_cond_wait *)
(* has pc "blocked" until a signal, a broadcast or a spurious wakeup makes *)
(* it "woken"; it then competes for the mutex with everyone else.          *)
(***************************************************************************)
EXTENDS RingBuffer, ChannelTypes

CONSTANT Capacity   \* [Channels -> the size given to channel_create]

ASSUME CapacityAssumption == Capacity \in [Channels -> Nat \ {0}]

PC == {"idle",                          \* outside channel.c
       "start", "blocked", "woken",     \* the operations on one channel
       "notify", "signal", "return",
       "register", "scan", "semwait", "cleanup",         \* channel_select
       "close", "closeRecvSel", "closeSendSel",          \* channel_close
       "closeNotEmpty", "closeNotFull"}

VARIABLES
  buffer,     \* [Channels -> buffer_t]
  closed,     \* [Channels -> closed_flag]
  selectors,  \* [Dir -> [Channels -> [Threads -> how many nodes of
              \* send_selectors / recv_selectors hold the thread's sem]]]
  sem,        \* [Threads -> value of the local_sem of its channel_select]
  pc,         \* [Threads -> where the thread is]
  call,       \* [Threads -> the call it is in]
  idx,        \* [Threads -> loop index of channel_select, from 1]
  selIdx,     \* [Threads -> what its channel_select stored in *sel_idx]
  status,     \* [Threads -> what its call returns]
  value,      \* [Threads -> what its call received]
  calls       \* [Threads -> number of calls made]

chanVars   == <<buffer, closed>>
selVars    == <<selectors, sem>>
resultVars == <<selIdx, status, value>>
vars == <<buffer, closed, selectors, sem, pc, call, idx, selIdx, status,
          value, calls>>

-----------------------------------------------------------------------------
\* The entry a thread works on, and the channel and direction of it.
Cur(t) == call[t].entries[idx[t]]

\* buffer_add (buffer_remove) would return BUFFER_SUCCESS.
Ready(c, d) == IF d = "SEND" THEN ~ Full(buffer[c]) ELSE ~ Empty(buffer[c])

\* The threads in pthread_cond_wait on cond_not_full (SEND) or cond_not_empty
\* (RECV) of channel c.
Waiting(c, d) ==
  {t \in Threads : pc[t] = "blocked" /\ Cur(t).chan = c /\ Cur(t).dir = d}

InSelect(t) == call[t].kind = "select"

TypeOK ==
  /\ buffer \in [Channels -> UNION {BufferType(Capacity[c], Data \cup {Junk})
                                       : c \in Channels}]
  /\ \A c \in Channels :
       buffer[c] \in BufferType(Capacity[c], Data \cup {Junk})
  /\ closed \in [Channels -> BOOLEAN]
  /\ selectors \in [Dir -> [Channels -> [Threads -> Nat]]]
  /\ sem \in [Threads -> Nat]
  /\ pc \in [Threads -> PC]
  /\ call \in [Threads -> Call]
  /\ idx \in [Threads -> Nat \ {0}]
  /\ selIdx \in [Threads -> Nat]
  /\ status \in [Threads -> Status]
  /\ value \in [Threads -> Data \cup {Junk}]
  /\ calls \in [Threads -> 0 .. MaxCalls]

-----------------------------------------------------------------------------
\* channel_create, for every channel of the program.
Init ==
  /\ buffer = [c \in Channels |-> buffer_create(Capacity[c], Junk)]
  /\ closed = [c \in Channels |-> FALSE]
  /\ selectors = [d \in Dir |-> [c \in Channels |-> [t \in Threads |-> 0]]]
  /\ sem = [t \in Threads |-> 0]
  /\ pc = [t \in Threads |-> "idle"]
  /\ call = [t \in Threads |-> NoCall]
  /\ idx = [t \in Threads |-> 1]
  /\ selIdx = [t \in Threads |-> 0]
  /\ status = [t \in Threads |-> "none"]
  /\ value = [t \in Threads |-> Junk]
  /\ calls = [t \in Threads |-> 0]

\* A thread of the program enters one of its calls.  sem_init gives the
\* semaphore of a channel_select the value 0.
Invoke(t) ==
  /\ pc[t] = "idle"
  /\ calls[t] < MaxCalls
  /\ \E k \in Program[t] :
       /\ call' = [call EXCEPT ![t] = k]
       /\ pc' = [pc EXCEPT ![t] = CASE k.kind = "select" -> "register"
                                    [] k.kind = "close"  -> "close"
                                    [] OTHER             -> "start"]
  /\ sem' = [sem EXCEPT ![t] = 0]
  /\ calls' = [calls EXCEPT ![t] = @ + 1]
  /\ UNCHANGED <<chanVars, selectors, idx, resultVars>>

\* Back in the program, which forgets the results before its next call; the
\* semaphore of channel_select is gone.
Return(t) ==
  /\ pc[t] = "return"
  /\ pc' = [pc EXCEPT ![t] = "idle"]
  /\ call' = [call EXCEPT ![t] = NoCall]
  /\ idx' = [idx EXCEPT ![t] = 1]
  /\ selIdx' = [selIdx EXCEPT ![t] = 0]
  /\ status' = [status EXCEPT ![t] = "none"]
  /\ value' = [value EXCEPT ![t] = Junk]
  /\ sem' = [sem EXCEPT ![t] = 0]
  /\ UNCHANGED <<chanVars, selectors, calls>>

-----------------------------------------------------------------------------
(* The critical section of the operations on one channel.                  *)

\* buffer_add succeeds; the mutex is released and the posts are due.
AddData(t) ==
  /\ ~ Full(buffer[Cur(t).chan])
  /\ buffer' = [buffer EXCEPT ![Cur(t).chan] = buffer_add(@, Cur(t).data)]
  /\ pc' = [pc EXCEPT ![t] = "notify"]
  /\ status' = [status EXCEPT ![t] = "SUCCESS"]
  /\ UNCHANGED <<closed, selVars, call, idx, selIdx, value, calls>>

\* buffer_remove succeeds.
RemoveData(t) ==
  /\ ~ Empty(buffer[Cur(t).chan])
  /\ value' = [value EXCEPT ![t] = buffer_front(buffer[Cur(t).chan])]
  /\ buffer' = [buffer EXCEPT ![Cur(t).chan] = buffer_remove(@)]
  /\ pc' = [pc EXCEPT ![t] = "notify"]
  /\ status' = [status EXCEPT ![t] = "SUCCESS"]
  /\ UNCHANGED <<closed, selVars, call, idx, selIdx, calls>>

\* The call unlocks and returns without having touched the buffer.
GiveUp(t, st) ==
  /\ pc' = [pc EXCEPT ![t] = "return"]
  /\ status' = [status EXCEPT ![t] = st]
  /\ UNCHANGED <<chanVars, selVars, call, idx, selIdx, value, calls>>

\* pthread_cond_wait: release the mutex and sleep.
Block(t) ==
  /\ pc' = [pc EXCEPT ![t] = "blocked"]
  /\ UNCHANGED <<chanVars, selVars, call, idx, resultVars, calls>>

\* Mutant: the loop of channel_send forgets closed_flag.
SendLoopUnchecked(t) ==
  AddData(t) \/ (Full(buffer[Cur(t).chan]) /\ Block(t))

\* The loops of channel_send and channel_receive: closed_flag is looked at
\* only after the buffer operation has failed.
SendLoop(t) ==
  \/ AddData(t)
  \/ Full(buffer[Cur(t).chan]) /\ closed[Cur(t).chan] /\ GiveUp(t, "CLOSED_ERROR")
  \/ Full(buffer[Cur(t).chan]) /\ ~ closed[Cur(t).chan] /\ Block(t)

ReceiveLoop(t) ==
  \/ RemoveData(t)
  \/ Empty(buffer[Cur(t).chan]) /\ closed[Cur(t).chan] /\ GiveUp(t, "CLOSED_ERROR")
  \/ Empty(buffer[Cur(t).chan]) /\ ~ closed[Cur(t).chan] /\ Block(t)

\* The thread is at a point of a call of this kind and direction.
At(t, where, kind, d) ==
  pc[t] = where /\ call[t].kind = kind /\ Cur(t).dir = d

\* Up to the release of the mutex; PostAndSignal is the rest.
channel_send(t) ==
  \/ /\ At(t, "start", "blocking", "SEND")
     /\ closed[Cur(t).chan]
     /\ GiveUp(t, "CLOSED_ERROR")
  \/ /\ At(t, "start", "blocking", "SEND")
     /\ ~ closed[Cur(t).chan]
     /\ SendLoop(t)
  \/ At(t, "woken", "blocking", "SEND") /\ SendLoop(t)

channel_receive(t) ==
  \/ /\ At(t, "start", "blocking", "RECV")
     /\ closed[Cur(t).chan]
     /\ GiveUp(t, "CLOSED_ERROR")
  \/ /\ At(t, "start", "blocking", "RECV")
     /\ ~ closed[Cur(t).chan]
     /\ ReceiveLoop(t)
  \/ At(t, "woken", "blocking", "RECV") /\ ReceiveLoop(t)

channel_non_blocking_send(t) ==
  /\ At(t, "start", "nonblocking", "SEND")
  /\ \/ closed[Cur(t).chan] /\ GiveUp(t, "CLOSED_ERROR")
     \/ ~ closed[Cur(t).chan] /\ AddData(t)
     \/ /\ ~ closed[Cur(t).chan]
        /\ Full(buffer[Cur(t).chan])
        /\ GiveUp(t, "CHANNEL_FULL")

channel_non_blocking_receive(t) ==
  /\ At(t, "start", "nonblocking", "RECV")
  /\ \/ closed[Cur(t).chan] /\ GiveUp(t, "CLOSED_ERROR")
     \/ ~ closed[Cur(t).chan] /\ RemoveData(t)
     \/ /\ ~ closed[Cur(t).chan]
        /\ Empty(buffer[Cur(t).chan])
        /\ GiveUp(t, "CHANNEL_EMPTY")

-----------------------------------------------------------------------------
(* What follows the release of the mutex.                                  *)

\* One sem_post for every node of a selector list.
Post(d, c) == sem' = [s \in Threads |-> sem[s] + selectors[d][c][s]]

notify_select_senders(c) == Post("SEND", c)

notify_select_receivers(c) == Post("RECV", c)

\* Mutant: the selectors of the wrong direction are posted.
NotifyOwnSide(t) ==
  /\ pc[t] = "notify"
  /\ Post(Cur(t).dir, Cur(t).chan)
  /\ pc' = [pc EXCEPT ![t] = "signal"]
  /\ UNCHANGED <<chanVars, selectors, call, idx, resultVars, calls>>

Notify(t) ==
  /\ pc[t] = "notify"
  /\ IF Cur(t).dir = "SEND" THEN notify_select_receivers(Cur(t).chan)
                            ELSE notify_select_senders(Cur(t).chan)
  /\ pc' = [pc EXCEPT ![t] = "signal"]
  /\ UNCHANGED <<chanVars, selectors, call, idx, resultVars, calls>>

\* Mutant: the signal goes to the condition variable of the wrong side.
SignalOwnSide(t) ==
  LET after == IF InSelect(t) THEN "cleanup" ELSE "return"
      waiting == Waiting(Cur(t).chan, Cur(t).dir)
  IN  /\ pc[t] = "signal"
      /\ \/ waiting = {} /\ pc' = [pc EXCEPT ![t] = after]
         \/ \E w \in waiting :
              pc' = [pc EXCEPT ![t] = after, ![w] = "woken"]
      /\ selIdx' = [selIdx EXCEPT ![t] = IF InSelect(t) THEN idx[t] ELSE 0]
      /\ idx' = [idx EXCEPT ![t] = 1]
      /\ UNCHANGED <<chanVars, selVars, call, status, value, calls>>

\* pthread_cond_signal on cond_not_empty (after an addition) or cond_not_full
\* (after a removal): one waiting thread is woken if there is any.  Within
\* channel_select, *sel_idx is set next and the clean-up begins.
Signal(t) ==
  LET after == IF InSelect(t) THEN "cleanup" ELSE "return"
      waiting == Waiting(Cur(t).chan, Opposite(Cur(t).dir))
  IN  /\ pc[t] = "signal"
      /\ \/ waiting = {} /\ pc' = [pc EXCEPT ![t] = after]
         \/ \E w \in waiting :
              pc' = [pc EXCEPT ![t] = after, ![w] = "woken"]
      /\ selIdx' = [selIdx EXCEPT ![t] = IF InSelect(t) THEN idx[t] ELSE 0]
      /\ idx' = [idx EXCEPT ![t] = 1]
      /\ UNCHANGED <<chanVars, selVars, call, status, value, calls>>

\* POSIX allows pthread_cond_wait to return without a signal.
SpuriousWakeup(t) ==
  /\ pc[t] = "blocked"
  /\ pc' = [pc EXCEPT ![t] = "woken"]
  /\ UNCHANGED <<chanVars, selVars, call, idx, resultVars, calls>>

-----------------------------------------------------------------------------
(* channel_close: each step after the first runs without the mutex.  The   *)
(* broadcasts on rendezvous_wait_cv and rendezvous_complete_cv are left    *)
(* out: nobody waits there on a buffered channel.                          *)

SetClosed(t) ==
  /\ pc[t] = "close"
  /\ \/ closed[Cur(t).chan] /\ GiveUp(t, "CLOSED_ERROR")
     \/ /\ ~ closed[Cur(t).chan]
        /\ closed' = [closed EXCEPT ![Cur(t).chan] = TRUE]
        /\ status' = [status EXCEPT ![t] = "SUCCESS"]
        /\ pc' = [pc EXCEPT ![t] = "closeRecvSel"]
        /\ UNCHANGED <<buffer, selVars, call, idx, selIdx, value, calls>>

\* Mutant: the receivers are posted and the senders forgotten.
CloseNotifyReceivers(t) ==
  /\ \/ /\ pc[t] = "closeRecvSel"
        /\ notify_select_receivers(Cur(t).chan)
        /\ pc' = [pc EXCEPT ![t] = "closeSendSel"]
     \/ /\ pc[t] = "closeSendSel"
        /\ pc' = [pc EXCEPT ![t] = "closeNotEmpty"]
        /\ UNCHANGED sem
  /\ UNCHANGED <<chanVars, selectors, call, idx, resultVars, calls>>

CloseNotify(t) ==
  /\ \/ /\ pc[t] = "closeRecvSel"
        /\ notify_select_receivers(Cur(t).chan)
        /\ pc' = [pc EXCEPT ![t] = "closeSendSel"]
     \/ /\ pc[t] = "closeSendSel"
        /\ notify_select_senders(Cur(t).chan)
        /\ pc' = [pc EXCEPT ![t] = "closeNotEmpty"]
  /\ UNCHANGED <<chanVars, selectors, call, idx, resultVars, calls>>

\* pthread_cond_broadcast by t, which then moves on.
Broadcast(t, d, next) ==
  pc' = [s \in Threads |->
           IF s = t THEN next
           ELSE IF s \in Waiting(Cur(t).chan, d) THEN "woken" ELSE pc[s]]

CloseBroadcast(t) ==
  /\ \/ pc[t] = "closeNotEmpty" /\ Broadcast(t, "RECV", "closeNotFull")
     \/ pc[t] = "closeNotFull" /\ Broadcast(t, "SEND", "return")
  /\ UNCHANGED <<chanVars, selVars, call, idx, resultVars, calls>>

channel_close(t) == SetClosed(t) \/ CloseNotify(t) \/ CloseBroadcast(t)

-----------------------------------------------------------------------------
(* channel_select: register with every channel, try the entries in order,  *)
(* wait on the semaphore, try again.                                       *)

\* Step to the next pass of a loop over the entries, or out of the loop.
Advance(t, out) ==
  /\ idx' = [idx EXCEPT ![t] = IF @ < Len(call[t].entries) THEN @ + 1 ELSE 1]
  /\ pc' = [pc EXCEPT ![t] = IF idx[t] < Len(call[t].entries) THEN @ ELSE out]

\* One pass of init_select: add_select_sender or add_select_receiver.
init_select(t) ==
  /\ pc[t] = "register"
  /\ selectors' = [selectors EXCEPT ![Cur(t).dir][Cur(t).chan][t] = @ + 1]
  /\ Advance(t, "scan")
  /\ UNCHANGED <<chanVars, sem, call, resultVars, calls>>

\* Mutant: *sel_idx names the entry after the one whose channel is closed.
TryEntryOffByOne(t) ==
  /\ pc[t] = "scan"
  /\ \/ /\ closed[Cur(t).chan]
        /\ status' = [status EXCEPT ![t] = "CLOSED_ERROR"]
        /\ selIdx' = [selIdx EXCEPT ![t] = idx[t] + 1]
        /\ idx' = [idx EXCEPT ![t] = 1]
        /\ pc' = [pc EXCEPT ![t] = "cleanup"]
        /\ UNCHANGED <<chanVars, selVars, call, value, calls>>
     \/ ~ closed[Cur(t).chan] /\ Cur(t).dir = "SEND" /\ AddData(t)
     \/ ~ closed[Cur(t).chan] /\ Cur(t).dir = "RECV" /\ RemoveData(t)
     \/ /\ ~ closed[Cur(t).chan]
        /\ ~ Ready(Cur(t).chan, Cur(t).dir)
        /\ Advance(t, "semwait")
        /\ UNCHANGED <<chanVars, selVars, call, resultVars, calls>>

\* One pass of the loop that tries the entries.  The non-blocking operation
\* it calls continues with Notify and Signal when it succeeds.
TryEntry(t) ==
  /\ pc[t] = "scan"
  /\ \/ /\ closed[Cur(t).chan]
        /\ status' = [status EXCEPT ![t] = "CLOSED_ERROR"]
        /\ selIdx' = [selIdx EXCEPT ![t] = idx[t]]
        /\ idx' = [idx EXCEPT ![t] = 1]
        /\ pc' = [pc EXCEPT ![t] = "cleanup"]
        /\ UNCHANGED <<chanVars, selVars, call, value, calls>>
     \/ ~ closed[Cur(t).chan] /\ Cur(t).dir = "SEND" /\ AddData(t)
     \/ ~ closed[Cur(t).chan] /\ Cur(t).dir = "RECV" /\ RemoveData(t)
     \/ /\ ~ closed[Cur(t).chan]
        /\ ~ Ready(Cur(t).chan, Cur(t).dir)
        /\ Advance(t, "semwait")
        /\ UNCHANGED <<chanVars, selVars, call, resultVars, calls>>

\* sem_wait
SemWait(t) ==
  /\ pc[t] = "semwait"
  /\ sem[t] > 0
  /\ sem' = [sem EXCEPT ![t] = @ - 1]
  /\ pc' = [pc EXCEPT ![t] = "scan"]
  /\ UNCHANGED <<chanVars, selectors, call, idx, resultVars, calls>>

\* Mutant: the clean-up ends after the first entry.
cleanup_select_first(t) ==
  /\ pc[t] = "cleanup"
  /\ selectors' = [selectors EXCEPT ![Cur(t).dir][Cur(t).chan][t] =
                                       IF @ > 0 THEN @ - 1 ELSE 0]
  /\ pc' = [pc EXCEPT ![t] = "return"]
  /\ UNCHANGED <<chanVars, sem, call, idx, resultVars, calls>>

\* One pass of cleanup_select: the first node that holds the semaphore goes.
cleanup_select(t) ==
  /\ pc[t] = "cleanup"
  /\ selectors' = [selectors EXCEPT ![Cur(t).dir][Cur(t).chan][t] =
                                       IF @ > 0 THEN @ - 1 ELSE 0]
  /\ Advance(t, "return")
  /\ UNCHANGED <<chanVars, sem, call, resultVars, calls>>

\* A count of 0 or a NULL pointer is all that is looked at.
CheckArguments(t) ==
  /\ pc[t] = "start" /\ call[t].kind = "misuse"
  /\ GiveUp(t, "GENERIC_ERROR")

channel_select(t) ==
  \/ CheckArguments(t)
  \/ init_select(t) \/ TryEntry(t) \/ SemWait(t) \/ cleanup_select(t)

-----------------------------------------------------------------------------
\* The steps that a thread inside channel.c takes by itself.
Step(t) ==
  \/ channel_send(t) \/ channel_receive(t)
  \/ channel_non_blocking_send(t) \/ channel_non_blocking_receive(t)
  \/ Notify(t) \/ Signal(t)
  \/ channel_close(t) \/ channel_select(t)
  \/ Return(t)

Next == \E t \in Threads : Invoke(t) \/ Step(t) \/ SpuriousWakeup(t)

Spec == Init /\ [][Next]_vars

\* The operating system runs every thread that is not asleep.  Nothing says
\* that a program makes another call or that a spurious wakeup happens.
Fairness == \A t \in Threads : WF_vars(Step(t))

FairSpec == Spec /\ Fairness

-----------------------------------------------------------------------------
(* Correctness.                                                            *)

\* Refinement mapping: notify, signal and clean-up come after the instant
\* at which the call took effect.
Phase(t) ==
  CASE pc[t] = "idle" -> "idle"
    [] pc[t] \in {"start", "register", "scan", "semwait", "close"} -> "pending"
    [] pc[t] \in {"blocked", "woken"} -> "waiting"
    [] OTHER -> "done"

Abstract == INSTANCE ChannelSpec WITH
  queue <- [c \in Channels |-> Contents(buffer[c])],
  phase <- [t \in Threads |-> Phase(t)],
  index <- [t \in Threads |->
              IF InSelect(t) /\ pc[t] \in {"notify", "signal"}
              THEN idx[t] ELSE selIdx[t]]

\* channel.c implements ChannelSpec: with its steps interleaved in any order,
\* every call takes effect atomically, exactly once, on the entry it reports.
RefinesChannelSpec == Abstract!Spec

\* Woken from pthread_cond_wait and about to look at the buffer again.
Retrying(c, d) ==
  {t \in Threads : pc[t] = "woken" /\ Cur(t).chan = c /\ Cur(t).dir = d}

\* Owes a pthread_cond_signal to the threads in Waiting(c, d).
Signalling(c, d) ==
  {t \in Threads : /\ pc[t] \in {"notify", "signal"}
                   /\ Cur(t).chan = c /\ Cur(t).dir = Opposite(d)}

\* How many operations of direction d the buffer allows now.
Room(c, d) ==
  IF d = "SEND" THEN Capacity[c] - buffer[c].size ELSE buffer[c].size

\* No lost wakeup: while somebody sleeps on cond_not_full (cond_not_empty),
\* each free slot (each value) is matched by a thread that is already awake
\* for it or by a pthread_cond_signal still to come.  One signal per transfer,
\* sent after the mutex was released, is therefore enough.
NoLostWakeup ==
  \A c \in Channels, d \in Dir :
    Waiting(c, d) # {} =>
      Room(c, d) <= Cardinality(Retrying(c, d)) + Cardinality(Signalling(c, d))

\* t has still to broadcast to the threads in Waiting(c, d).
ClosingFor(t, c, d) ==
  /\ pc[t] \in {"closeRecvSel", "closeSendSel", "closeNotEmpty"}
                 \cup (IF d = "SEND" THEN {"closeNotFull"} ELSE {})
  /\ Cur(t).chan = c

\* channel_close leaves nobody behind: a thread asleep on a closed channel has
\* a broadcast on its way, although channel_close broadcasts after it
\* released the mutex and other threads may start to wait until then.
CloseReachesSleepers ==
  \A c \in Channels, d \in Dir :
    closed[c] /\ Waiting(c, d) # {} =>
      \E t \in Threads : ClosingFor(t, c, d)

\* s has still to post the semaphores registered with channel c to do d.
PostDue(s, c, d) ==
  /\ \/ pc[s] = "notify" /\ Cur(s).dir = Opposite(d)
     \/ pc[s] = "closeRecvSel"
     \/ pc[s] = "closeSendSel" /\ d = "SEND"
  /\ Cur(s).chan = c

\* A channel_select never sleeps through its chance: when it is in sem_wait
\* with nothing posted and one of its channels can serve it or is closed, the
\* thread that made it so has its posts still to do.
NoLostPost ==
  \A t \in Threads :
    pc[t] = "semwait" /\ sem[t] = 0 =>
      \A i \in 1 .. Len(call[t].entries) :
        LET e == call[t].entries[i] IN
          Ready(e.chan, e.dir) \/ closed[e.chan] =>
            \E s \in Threads : PostDue(s, e.chan, e.dir)

\* The entries of t whose channel holds t's semaphore.
Registered(t) ==
  CASE pc[t] = "register" -> 1 .. (idx[t] - 1)
    [] pc[t] = "cleanup"  -> idx[t] .. Len(call[t].entries)
    [] InSelect(t) /\ pc[t] \in {"scan", "semwait", "notify", "signal"} ->
         1 .. Len(call[t].entries)
    [] OTHER -> {}

\* The selector lists hold the semaphore of a channel_select exactly as often
\* as its entries have registered it, and never once it has returned: nobody
\* posts a semaphore on the stack of a call that is over.
SelectorsExact ==
  \A t \in Threads, c \in Channels, d \in Dir :
    selectors[d][c][t] =
      Cardinality({i \in Registered(t) : /\ call[t].entries[i].chan = c
                                         /\ call[t].entries[i].dir = d})

\* After channel_close every send, receive and select that uses the channel
\* returns, wherever it was.
CloseReleases ==
  \A t \in Threads, c \in Channels :
    (closed[c] /\ pc[t] # "idle" /\
       \E i \in 1 .. Len(call[t].entries) : call[t].entries[i].chan = c)
    ~> (pc[t] = "idle")

\* A value (a free slot) and a sleeping receiver (sender) do not stay together
\* for ever: one of the two is taken care of.
SleepersServed ==
  \A c \in Channels, d \in Dir :
    (Waiting(c, d) # {} /\ Ready(c, d)) ~> (Waiting(c, d) = {} \/ ~ Ready(c, d))

\* A channel_select in sem_wait with an entry that can be served does not stay
\* there for ever unless somebody else takes the chance first.
SelectServed ==
  \A t \in Threads, c \in Channels, d \in Dir :
    (/\ pc[t] = "semwait" /\ Ready(c, d)
     /\ \E i \in 1 .. Len(call[t].entries) :
          call[t].entries[i].chan = c /\ call[t].entries[i].dir = d)
    ~> (pc[t] # "semwait" \/ ~ Ready(c, d))
=============================================================================
