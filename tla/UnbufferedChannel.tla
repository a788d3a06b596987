------------------------- MODULE UnbufferedChannel -------------------------
(***************************************************************************)
(* Unbuffered channels of concurrency-project/channel.c: a sender and a    *)
(* receiver meet in unbuffered_sync.  The first to come (the initiator)    *)
(* sets unbuf_stage to 1 and sleeps on rendezvous_complete_cv; one of the  *)
(* other direction moves the value, sets the stage to 2 and wakes it;      *)
(* the initiator sets the stage back to 0.  Everyone else sleeps on        *)
(* rendezvous_wait_cv and starts over when woken.                          *)
(*                                                                         *)
(* A critical section of chan_mutex is one step (the posts of              *)
(* notify_select_*, made under it, included), and so is one of             *)
(* select_list_mutex; the steps of channel_close after the unlock are      *)
(* separate.  list_count reads a selector list without its mutex: a single *)
(* word, which is the number of nodes at that moment.                      *)
(***************************************************************************)
EXTENDS ChannelTypes

CONSTANT SpuriousWakeups  \* may pthread_cond_wait return without a signal?

ASSUME SpuriousAssumption == SpuriousWakeups \in BOOLEAN

PC == {"idle", "start", "return",
       "complete", "completed",   \* on rendezvous_complete_cv; woken from it
       "queued", "requeued",      \* on rendezvous_wait_cv; woken from it
       "nbwait", "nbwoken",       \* non-blocking call in pthread_cond_wait
       "register", "scan", "semwait", "cleanup",         \* channel_select
       "close", "closeRecvSel", "closeSendSel",          \* channel_close
       "closeNotEmpty", "closeNotFull", "closeWait", "closeComplete"}

VARIABLES
  closed,     \* [Channels -> closed_flag]
  stage,      \* [Channels -> unbuf_stage]
  active,     \* [Channels -> active_unbuf_op]
  owner,      \* [Channels -> the thread whose data unbuf_data points to]
  waiting,    \* [Dir -> [Channels -> waiting_senders / waiting_receivers]]
  selectors, sem, pc, call, idx, selIdx, status, value, calls
              \* as in BufferedChannel

chanVars   == <<closed, stage, active, owner, waiting>>
selVars    == <<selectors, sem>>
resultVars == <<selIdx, status, value>>
vars == <<closed, stage, active, owner, waiting, selectors, sem, pc, call, idx,
          selIdx, status, value, calls>>

-----------------------------------------------------------------------------
\* The entry a thread works on.
Cur(t) == call[t].entries[idx[t]]

InSelect(t) == call[t].kind = "select"

\* The threads at one point of the code, for one channel.
On(c, where) == {t \in Threads : pc[t] = where /\ Cur(t).chan = c}

\* list_count of send_selectors or recv_selectors is not 0.
Registered(d, c) == \E t \in Threads : selectors[d][c][t] > 0

\* Where a thread goes when its operation on one channel returns.
After(t) == IF InSelect(t) THEN "cleanup" ELSE "return"

-----------------------------------------------------------------------------
\* channel_create with size 0, for every channel of the program.
Init ==
  /\ closed = [c \in Channels |-> FALSE]
  /\ stage = [c \in Channels |-> 0]
  /\ active = [c \in Channels |-> "none"]
  /\ owner = [c \in Channels |-> Junk]
  /\ waiting = [d \in Dir |-> [c \in Channels |-> 0]]
  /\ selectors = [d \in Dir |-> [c \in Channels |-> [t \in Threads |-> 0]]]
  /\ sem = [t \in Threads |-> 0]
  /\ pc = [t \in Threads |-> "idle"]
  /\ call = [t \in Threads |-> NoCall]
  /\ idx = [t \in Threads |-> 1]
  /\ selIdx = [t \in Threads |-> 0]
  /\ status = [t \in Threads |-> "none"]
  /\ value = [t \in Threads |-> Junk]
  /\ calls = [t \in Threads |-> 0]

\* A thread of the program enters one of its calls.
Invoke(t) ==
  /\ pc[t] = "idle"
  /\ calls[t] < MaxCalls
  /\ \E k \in Program[t] :
       /\ call' = [call EXCEPT ![t] = k]
       /\ pc' = [pc EXCEPT ![t] = CASE k.kind = "select" -> "register"
                                    [] k.kind = "close"  -> "close"
                                    [] OTHER             -> "start"]
  /\ sem' = [sem EXCEPT ![t] = 0]
  /\ calls' = [calls EXCEPT ![t] = @ + 1]
  /\ UNCHANGED <<chanVars, selectors, idx, resultVars>>

\* Back in the program, which forgets the results before its next call.
Return(t) ==
  /\ pc[t] = "return"
  /\ pc' = [pc EXCEPT ![t] = "idle"]
  /\ call' = [call EXCEPT ![t] = NoCall]
  /\ idx' = [idx EXCEPT ![t] = 1]
  /\ selIdx' = [selIdx EXCEPT ![t] = 0]
  /\ status' = [status EXCEPT ![t] = "none"]
  /\ value' = [value EXCEPT ![t] = Junk]
  /\ sem' = [sem EXCEPT ![t] = 0]
  /\ UNCHANGED <<chanVars, selectors, calls>>

\* A call of one operation unlocks and returns st.
GiveUp(t, st) ==
  /\ pc' = [pc EXCEPT ![t] = "return"]
  /\ status' = [status EXCEPT ![t] = st]
  /\ UNCHANGED <<chanVars, selVars, call, idx, selIdx, value, calls>>

-----------------------------------------------------------------------------
(* unbuffered_sync, called with the mutex held.                            *)

\* Mutant: the count is not taken back.
StillQueued(t) == waiting

\* waiting_senders and waiting_receivers after t has left the queue it was
\* woken from, if any: t decrements before it goes back to stage0.
Dequeued(t) ==
  IF pc[t] = "requeued"
  THEN [waiting EXCEPT ![Cur(t).dir][Cur(t).chan] = @ - 1]
  ELSE waiting

\* Mutant: the initiator does not post the selectors.
InitiateQuietly(t) ==
  LET c == Cur(t).chan
      d == Cur(t).dir
  IN  /\ stage[c] = 0
      /\ stage' = [stage EXCEPT ![c] = 1]
      /\ active' = [active EXCEPT ![c] = d]
      /\ owner' = [owner EXCEPT ![c] = t]
      /\ waiting' = Dequeued(t)
      /\ pc' = [s \in Threads |->
                  IF s = t THEN "complete"
                  ELSE IF s \in On(c, "nbwait") /\ Cur(s).dir = d THEN "nbwoken"
                  ELSE pc[s]]
      /\ UNCHANGED <<closed, selVars, call, idx, resultVars, calls>>

\* Stage 0: t becomes the initiator.  It posts the selectors of the other
\* direction; a sender broadcasts cond_not_empty, where non-blocking senders
\* wait, and a receiver cond_not_full, where non-blocking receivers wait.
Initiate(t) ==
  LET c == Cur(t).chan
      d == Cur(t).dir
  IN  /\ stage[c] = 0
      /\ stage' = [stage EXCEPT ![c] = 1]
      /\ active' = [active EXCEPT ![c] = d]
      /\ owner' = [owner EXCEPT ![c] = t]
      /\ waiting' = Dequeued(t)
      /\ sem' = [s \in Threads |-> sem[s] + selectors[Opposite(d)][c][s]]
      /\ pc' = [s \in Threads |->
                  IF s = t THEN "complete"
                  ELSE IF s \in On(c, "nbwait") /\ Cur(s).dir = d THEN "nbwoken"
                  ELSE pc[s]]
      /\ UNCHANGED <<closed, selectors, call, idx, resultVars, calls>>

\* Stage 1 with t's own operation active, or stage 2: sleep on
\* rendezvous_wait_cv.
Enqueue(t) ==
  LET c == Cur(t).chan
      d == Cur(t).dir
      w == Dequeued(t)
  IN  /\ stage[c] = 2 \/ (stage[c] = 1 /\ active[c] = d)
      /\ waiting' = [w EXCEPT ![d][c] = @ + 1]
      /\ pc' = [pc EXCEPT ![t] = "queued"]
      /\ UNCHANGED <<closed, stage, active, owner, selVars, call, idx,
                     resultVars, calls>>

\* Mutant: the value moves but stage 2 is never entered.
CompleteStageless(t) ==
  LET c == Cur(t).chan
      o == owner[c]
  IN  /\ stage[c] = 1 /\ active[c] # Cur(t).dir
      /\ value' = IF Cur(t).dir = "RECV"
                  THEN [value EXCEPT ![t] = Cur(o).data]
                  ELSE [value EXCEPT ![o] = Cur(t).data]
      /\ stage' = [stage EXCEPT ![c] = 0]
      /\ waiting' = Dequeued(t)
      /\ pc' = [s \in Threads |->
                  IF s = t THEN After(t)
                  ELSE IF s \in On(c, "complete") THEN "completed"
                  ELSE pc[s]]
      /\ status' = [status EXCEPT ![t] = "SUCCESS"]
      /\ selIdx' = [selIdx EXCEPT ![t] = IF InSelect(t) THEN idx[t] ELSE 0]
      /\ idx' = [idx EXCEPT ![t] = 1]
      /\ UNCHANGED <<closed, active, owner, selVars, call, calls>>

\* Stage 1 with the other operation active: move the value from or to the
\* place unbuf_data points to and signal rendezvous_complete_cv.  Within
\* channel_select, *sel_idx is set next and the clean-up begins.
Complete(t) ==
  LET c == Cur(t).chan
      o == owner[c]
  IN  /\ stage[c] = 1 /\ active[c] # Cur(t).dir
      /\ value' = IF Cur(t).dir = "RECV"
                  THEN [value EXCEPT ![t] = Cur(o).data]
                  ELSE [value EXCEPT ![o] = Cur(t).data]
      /\ stage' = [stage EXCEPT ![c] = 2]
      /\ waiting' = Dequeued(t)
      /\ pc' = [s \in Threads |->
                  IF s = t THEN After(t)
                  ELSE IF s \in On(c, "complete") THEN "completed"
                  ELSE pc[s]]
      /\ status' = [status EXCEPT ![t] = "SUCCESS"]
      /\ selIdx' = [selIdx EXCEPT ![t] = IF InSelect(t) THEN idx[t] ELSE 0]
      /\ idx' = [idx EXCEPT ![t] = 1]
      /\ UNCHANGED <<closed, active, owner, selVars, call, calls>>

unbuffered_sync(t) == Initiate(t) \/ Enqueue(t) \/ Complete(t)

\* Woken from rendezvous_wait_cv: back to stage0, whatever closed_flag says.
Requeued(t) == pc[t] = "requeued" /\ unbuffered_sync(t)

\* Mutant: pthread_cond_signal where the code has pthread_cond_broadcast.
FinishSignal(t) ==
  LET c == Cur(t).chan
  IN  /\ pc[t] = "completed"
      /\ stage' = [stage EXCEPT ![c] = 0]
      /\ \E w \in On(c, "queued") \cup {t} :
           /\ w = t => On(c, "queued") = {}
           /\ pc' = [s \in Threads |->
                       IF s = t THEN After(t)
                       ELSE IF s = w THEN "requeued" ELSE pc[s]]
      /\ status' = [status EXCEPT ![t] = "SUCCESS"]
      /\ selIdx' = [selIdx EXCEPT ![t] = IF InSelect(t) THEN idx[t] ELSE 0]
      /\ idx' = [idx EXCEPT ![t] = 1]
      /\ UNCHANGED <<closed, active, owner, waiting, selVars, call, value, calls>>

\* The initiator is woken from rendezvous_complete_cv.  It does not look at
\* the stage: it resets it, wakes the queue and returns SUCCESS.
Finish(t) ==
  LET c == Cur(t).chan
  IN  /\ pc[t] = "completed"
      /\ stage' = [stage EXCEPT ![c] = 0]
      /\ pc' = [s \in Threads |->
                  IF s = t THEN After(t)
                  ELSE IF s \in On(c, "queued") THEN "requeued"
                  ELSE pc[s]]
      /\ status' = [status EXCEPT ![t] = "SUCCESS"]
      /\ selIdx' = [selIdx EXCEPT ![t] = IF InSelect(t) THEN idx[t] ELSE 0]
      /\ idx' = [idx EXCEPT ![t] = 1]
      /\ UNCHANGED <<closed, active, owner, waiting, selVars, call, value, calls>>

-----------------------------------------------------------------------------
(* The operations on one channel, up to the call of unbuffered_sync.       *)

At(t, where, kind, d) ==
  pc[t] = where /\ call[t].kind = kind /\ Cur(t).dir = d

channel_send(t) ==
  /\ At(t, "start", "blocking", "SEND")
  /\ \/ closed[Cur(t).chan] /\ GiveUp(t, "CLOSED_ERROR")
     \/ ~ closed[Cur(t).chan] /\ unbuffered_sync(t)

channel_receive(t) ==
  /\ At(t, "start", "blocking", "RECV")
  /\ \/ closed[Cur(t).chan] /\ GiveUp(t, "CLOSED_ERROR")
     \/ ~ closed[Cur(t).chan] /\ unbuffered_sync(t)

\* Somebody of the other direction is there for t: the initiator, or a
\* channel_select that has registered.
PartnerSeen(t) ==
  LET c == Cur(t).chan
      other == Opposite(Cur(t).dir)
  IN  (stage[c] = 1 /\ active[c] = other) \/ Registered(other, c)

\* The loop of the non-blocking operations waits while there are threads on
\* their way from the queue but no initiator yet, and then decides.
NonBlockingLoop(t, refusal) ==
  LET c == Cur(t).chan
      other == Opposite(Cur(t).dir)
      hold == waiting[other][c] > 0 /\ stage[c] = 0 /\ ~ Registered(other, c)
  IN  \/ /\ hold
         /\ pc' = [pc EXCEPT ![t] = "nbwait"]
         /\ UNCHANGED <<chanVars, selVars, call, idx, resultVars, calls>>
      \/ ~ hold /\ PartnerSeen(t) /\ unbuffered_sync(t)
      \/ ~ hold /\ ~ PartnerSeen(t) /\ GiveUp(t, refusal)

channel_non_blocking_send(t) ==
  \/ /\ At(t, "start", "nonblocking", "SEND")
     /\ closed[Cur(t).chan]
     /\ GiveUp(t, "CLOSED_ERROR")
  \/ /\ At(t, "start", "nonblocking", "SEND")
     /\ ~ closed[Cur(t).chan]
     /\ NonBlockingLoop(t, "CHANNEL_FULL")
  \/ /\ At(t, "nbwoken", "nonblocking", "SEND")
     /\ NonBlockingLoop(t, "CHANNEL_FULL")

channel_non_blocking_receive(t) ==
  \/ /\ At(t, "start", "nonblocking", "RECV")
     /\ closed[Cur(t).chan]
     /\ GiveUp(t, "CLOSED_ERROR")
  \/ /\ At(t, "start", "nonblocking", "RECV")
     /\ ~ closed[Cur(t).chan]
     /\ NonBlockingLoop(t, "CHANNEL_EMPTY")
  \/ /\ At(t, "nbwoken", "nonblocking", "RECV")
     /\ NonBlockingLoop(t, "CHANNEL_EMPTY")

\* POSIX allows pthread_cond_wait to return without a signal.
SpuriousWakeup(t) ==
  /\ SpuriousWakeups
  /\ \/ pc[t] = "complete" /\ pc' = [pc EXCEPT ![t] = "completed"]
     \/ pc[t] = "queued" /\ pc' = [pc EXCEPT ![t] = "requeued"]
     \/ pc[t] = "nbwait" /\ pc' = [pc EXCEPT ![t] = "nbwoken"]
  /\ UNCHANGED <<chanVars, selVars, call, idx, resultVars, calls>>

-----------------------------------------------------------------------------
(* channel_close: each step after the first runs without the mutex.        *)

SetClosed(t) ==
  /\ pc[t] = "close"
  /\ \/ closed[Cur(t).chan] /\ GiveUp(t, "CLOSED_ERROR")
     \/ /\ ~ closed[Cur(t).chan]
        /\ closed' = [closed EXCEPT ![Cur(t).chan] = TRUE]
        /\ status' = [status EXCEPT ![t] = "SUCCESS"]
        /\ pc' = [pc EXCEPT ![t] = "closeRecvSel"]
        /\ UNCHANGED <<stage, active, owner, waiting, selVars, call, idx,
                       selIdx, value, calls>>

\* notify_select_receivers, then notify_select_senders
CloseNotify(t) ==
  LET Post(d) == sem' = [s \in Threads |->
                           sem[s] + selectors[d][Cur(t).chan][s]]
  IN  /\ \/ /\ pc[t] = "closeRecvSel" /\ Post("RECV")
            /\ pc' = [pc EXCEPT ![t] = "closeSendSel"]
         \/ /\ pc[t] = "closeSendSel" /\ Post("SEND")
            /\ pc' = [pc EXCEPT ![t] = "closeNotEmpty"]
      /\ UNCHANGED <<chanVars, selectors, call, idx, resultVars, calls>>

\* pthread_cond_broadcast by t to the threads in S, which move to woken.
Broadcast(t, S, woken, next) ==
  pc' = [s \in Threads |->
           IF s = t THEN next ELSE IF s \in S THEN woken ELSE pc[s]]

CloseBroadcast(t) ==
  LET c == Cur(t).chan
      nb(d) == {s \in On(c, "nbwait") : Cur(s).dir = d}
  IN  /\ \/ /\ pc[t] = "closeNotEmpty"
            /\ Broadcast(t, nb("SEND"), "nbwoken", "closeNotFull")
         \/ /\ pc[t] = "closeNotFull"
            /\ Broadcast(t, nb("RECV"), "nbwoken", "closeWait")
         \/ /\ pc[t] = "closeWait"
            /\ Broadcast(t, On(c, "queued"), "requeued", "closeComplete")
         \/ /\ pc[t] = "closeComplete"
            /\ Broadcast(t, On(c, "complete"), "completed", "return")
      /\ UNCHANGED <<chanVars, selVars, call, idx, resultVars, calls>>

channel_close(t) == SetClosed(t) \/ CloseNotify(t) \/ CloseBroadcast(t)

-----------------------------------------------------------------------------
(* channel_select                                                          *)

\* Step to the next pass of a loop over the entries, or out of the loop.
Advance(t, out) ==
  /\ idx' = [idx EXCEPT ![t] = IF @ < Len(call[t].entries) THEN @ + 1 ELSE 1]
  /\ pc' = [pc EXCEPT ![t] = IF idx[t] < Len(call[t].entries) THEN @ ELSE out]

\* One pass of init_select.
init_select(t) ==
  /\ pc[t] = "register"
  /\ selectors' = [selectors EXCEPT ![Cur(t).dir][Cur(t).chan][t] = @ + 1]
  /\ Advance(t, "scan")
  /\ UNCHANGED <<chanVars, sem, call, resultVars, calls>>

\* One pass of the loop that tries the entries.  A closed channel ends the
\* call without a store to *sel_idx.
TryEntry(t) ==
  /\ pc[t] = "scan"
  /\ \/ /\ closed[Cur(t).chan]
        /\ status' = [status EXCEPT ![t] = "CLOSED_ERROR"]
        /\ idx' = [idx EXCEPT ![t] = 1]
        /\ pc' = [pc EXCEPT ![t] = "cleanup"]
        /\ UNCHANGED <<chanVars, selVars, call, selIdx, value, calls>>
     \/ ~ closed[Cur(t).chan] /\ PartnerSeen(t) /\ unbuffered_sync(t)
     \/ /\ ~ closed[Cur(t).chan] /\ ~ PartnerSeen(t)
        /\ Advance(t, "semwait")
        /\ UNCHANGED <<chanVars, selVars, call, resultVars, calls>>

\* sem_wait
SemWait(t) ==
  /\ pc[t] = "semwait"
  /\ sem[t] > 0
  /\ sem' = [sem EXCEPT ![t] = @ - 1]
  /\ pc' = [pc EXCEPT ![t] = "scan"]
  /\ UNCHANGED <<chanVars, selectors, call, idx, resultVars, calls>>

\* One pass of cleanup_select.
cleanup_select(t) ==
  /\ pc[t] = "cleanup"
  /\ selectors' = [selectors EXCEPT ![Cur(t).dir][Cur(t).chan][t] =
                                       IF @ > 0 THEN @ - 1 ELSE 0]
  /\ Advance(t, "return")
  /\ UNCHANGED <<chanVars, sem, call, resultVars, calls>>

\* A count of 0 or a NULL pointer is all that is looked at.
CheckArguments(t) ==
  /\ pc[t] = "start" /\ call[t].kind = "misuse"
  /\ GiveUp(t, "GENERIC_ERROR")

channel_select(t) ==
  \/ CheckArguments(t)
  \/ init_select(t) \/ TryEntry(t) \/ SemWait(t) \/ cleanup_select(t)

-----------------------------------------------------------------------------
Step(t) ==
  \/ channel_send(t) \/ channel_receive(t)
  \/ channel_non_blocking_send(t) \/ channel_non_blocking_receive(t)
  \/ Requeued(t) \/ Finish(t)
  \/ channel_close(t) \/ channel_select(t)
  \/ Return(t)

Next == \E t \in Threads : Invoke(t) \/ Step(t) \/ SpuriousWakeup(t)

Spec == Init /\ [][Next]_vars

\* The operating system runs every thread that is not asleep.
Fairness == \A t \in Threads : WF_vars(Step(t))

FairSpec == Spec /\ Fairness

-----------------------------------------------------------------------------
(* Correctness.                                                            *)

\* The initiator of a rendezvous in progress on c, asleep or woken.
Initiators(c) == On(c, "complete") \cup On(c, "completed")

\* The stage of a channel tells the truth about its initiator: there is one
\* exactly in stages 1 and 2, it is still inside the call whose data
\* unbuf_data points to, and it does not sleep once stage 2 is reached.  So
\* the value of a rendezvous is never read from or written to a call that is
\* over, not even when the initiator is woken by channel_close or spuriously.
StageTruth ==
  \A c \in Channels :
    /\ Initiators(c) = IF stage[c] = 0 THEN {} ELSE {owner[c]}
    /\ stage[c] # 0 => Cur(owner[c]).dir = active[c]
    /\ stage[c] = 2 => On(c, "complete") = {}

\* waiting_senders and waiting_receivers, which the non-blocking calls read,
\* count the threads between the two halves of unbuffered_sync's wait.
WaitingExact ==
  \A c \in Channels, d \in Dir :
    waiting[d][c] = Cardinality({t \in On(c, "queued") \cup On(c, "requeued") :
                                   Cur(t).dir = d})

\* Nobody sleeps on rendezvous_wait_cv through a chance to meet: not while no
\* rendezvous is in progress, nor while one waits for somebody like it.
NoSleepingPartner ==
  \A c \in Channels : \A t \in On(c, "queued") :
    stage[c] # 0 /\ (stage[c] = 1 => active[c] = Cur(t).dir)

\* Refinement mapping: the initiator's call is decided when its partner sets
\* stage 2, though it learns of it later.
Met(t) == pc[t] \in {"complete", "completed"} /\ stage[Cur(t).chan] = 2

Rendezvous == INSTANCE RendezvousSpec WITH
  phase <- [t \in Threads |->
              IF pc[t] = "idle" THEN "idle"
              ELSE IF pc[t] \in {"return", "cleanup"} \/ Met(t) THEN "done"
              ELSE "pending"],
  status <- [t \in Threads |-> IF Met(t) THEN "SUCCESS" ELSE status[t]],
  index <- [t \in Threads |-> IF Met(t) /\ InSelect(t) THEN idx[t]
                                                       ELSE selIdx[t]]

\* As long as no channel is closed and pthread_cond_wait returns only when it
\* is signalled, every SUCCESS stands for one meeting of a sender and a
\* receiver, and the receiver has the value of that sender.
RefinesRendezvous == Rendezvous!Spec

\* Inside unbuffered_sync.
InSync(t, c, d) ==
  /\ pc[t] \in {"complete", "completed", "queued", "requeued"}
  /\ Cur(t).chan = c /\ Cur(t).dir = d

\* A sender and a receiver that are both inside unbuffered_sync of one channel
\* do not wait for ever: one of them gets away.
PartnersMeet ==
  \A s, r \in Threads, c \in Channels :
    (InSync(s, c, "SEND") /\ InSync(r, c, "RECV"))
    ~> (~ InSync(s, c, "SEND") \/ ~ InSync(r, c, "RECV"))

\* A channel_select in sem_wait while an initiator of the other direction
\* waits on one of its channels gets to try again, unless somebody else
\* completes that rendezvous.
SelectServed ==
  \A t \in Threads, c \in Channels, d \in Dir :
    (/\ pc[t] = "semwait" /\ stage[c] = 1 /\ active[c] = Opposite(d)
     /\ \E i \in 1 .. Len(call[t].entries) :
          call[t].entries[i].chan = c /\ call[t].entries[i].dir = d)
    ~> (pc[t] # "semwait" \/ stage[c] # 1)
=============================================================================
