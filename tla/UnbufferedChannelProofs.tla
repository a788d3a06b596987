---------------------- MODULE UnbufferedChannelProofs ----------------------
(***************************************************************************)
(* Unbuffered channels, for every number of threads and channels, every    *)
(* program and with or without spurious wakeups.                           *)
(***************************************************************************)
EXTENDS UnbufferedChannel, TLAPS, FiniteSetTheorems

\* The part of a thread's way through unbuffered_sync in which it waits.
Sync == {"complete", "completed", "queued", "requeued"}

\* Where a thread is when it enters unbuffered_sync or starts it over.
Entering == {"start", "nbwoken", "scan", "requeued"}

\* The loop index of a call in progress names one of its entries.
Indices ==
  \A t \in Threads :
    /\ pc[t] = "idle" => idx[t] = 1
    /\ pc[t] # "idle" => idx[t] \in 1 .. Len(call[t].entries)

\* The types of what a rendezvous depends on.  The counters are numbers; that
\* they are never negative follows from WaitingExact.
Shape ==
  /\ pc \in [Threads -> PC] /\ call \in [Threads -> Call]
  /\ idx \in [Threads -> Nat \ {0}]
  /\ stage \in [Channels -> 0 .. 2]
  /\ active \in [Channels -> Dir \cup {"none"}]
  /\ owner \in [Channels -> Threads \cup {Junk}]
  /\ waiting \in [Dir -> [Channels -> Int]]
  /\ Indices

\* The entry a thread in a call works on is an entry.
LEMMA CurEntry ==
  ASSUME Shape, NEW t \in Threads, pc[t] # "idle"
  PROVE  /\ Cur(t).chan \in Channels /\ Cur(t).dir \in Dir
         /\ idx[t] \in 1 .. Len(call[t].entries)
         /\ call[t] \in Call /\ Len(call[t].entries) \in Nat
  <1>1. call[t] \in Call /\ call[t].entries \in Seq(Entry)
    BY DEF Shape, Call
  <1>2. idx[t] \in 1 .. Len(call[t].entries)
    BY DEF Shape, Indices
  <1>3. Cur(t) \in Entry
    BY <1>1, <1>2 DEF Cur
  <1> QED BY <1>1, <1>2, <1>3 DEF Entry

\* The counters after a thread has left the queue it was woken from.
LEMMA DequeuedType ==
  ASSUME Shape, NEW t \in Threads, pc[t] # "idle"
  PROVE  Dequeued(t) \in [Dir -> [Channels -> Int]]
  <1>1. /\ Cur(t).chan \in Channels /\ Cur(t).dir \in Dir
        /\ waiting \in [Dir -> [Channels -> Int]]
        /\ waiting[Cur(t).dir] \in [Channels -> Int]
        /\ waiting[Cur(t).dir][Cur(t).chan] \in Int
    BY CurEntry DEF Shape
  <1>2. [waiting[Cur(t).dir] EXCEPT ![Cur(t).chan] = @ - 1] \in [Channels -> Int]
    BY <1>1
  <1> QED BY <1>1, <1>2 DEF Dequeued

\* The entries of the other threads stay what they are.
Still(t) ==
  \A s \in Threads \ {t} : call'[s] = call[s] /\ idx'[s] = idx[s]

\* A step of t outside the waits of unbuffered_sync: at most threads on
\* cond_not_empty or cond_not_full are woken.
Quiet(t) ==
  /\ pc[t] \notin Sync /\ pc'[t] \notin Sync
  /\ \A s \in Threads \ {t} : pc'[s] = pc[s] \/ (pc[s] = "nbwait" /\ pc'[s] = "nbwoken")
  /\ Still(t)
  /\ UNCHANGED <<stage, active, owner, waiting>>

\* Threads asleep in unbuffered_sync are woken, by channel_close of t or
\* spuriously; nothing else happens.
Waking(t) ==
  /\ \A s \in Threads :
       \/ pc'[s] = pc[s]
       \/ pc[s] = "complete" /\ pc'[s] = "completed"
       \/ pc[s] = "queued" /\ pc'[s] = "requeued"
       \/ s = t /\ pc[s] \notin Sync /\ pc'[s] \notin Sync
  /\ UNCHANGED <<stage, active, owner, waiting, call, idx>>

-----------------------------------------------------------------------------
(* What the steps do.                                                      *)

\* A step of a loop over the entries leaves the index inside the array.
LEMMA AdvanceShape ==
  ASSUME Shape, NEW t \in Threads, pc[t] # "idle", pc[t] \notin Sync,
         NEW out \in PC \ ({"idle"} \cup Sync), Advance(t, out),
         UNCHANGED <<chanVars, call>>
  PROVE  Shape' /\ Quiet(t)
  <1>1. idx[t] \in 1 .. Len(call[t].entries) /\ Len(call[t].entries) \in Nat
    BY CurEntry
  <1>2. /\ pc' = [pc EXCEPT ![t] = IF idx[t] < Len(call[t].entries) THEN pc[t] ELSE out]
        /\ idx' = [idx EXCEPT ![t] = IF idx[t] < Len(call[t].entries)
                                     THEN idx[t] + 1 ELSE 1]
    BY DEF Advance
  <1>3. pc' \in [Threads -> PC] /\ idx' \in [Threads -> Nat \ {0}]
    BY <1>1, <1>2 DEF Shape
  <1>4. Indices'
    <2> SUFFICES ASSUME NEW s \in Threads
                 PROVE  /\ pc'[s] = "idle" => idx'[s] = 1
                        /\ pc'[s] # "idle" => idx'[s] \in 1 .. Len(call'[s].entries)
      BY DEF Indices
    <2>1. CASE s = t
      BY <1>1, <1>2, <2>1 DEF Shape
    <2>2. CASE s # t
      BY <1>2, <2>2 DEF Shape, Indices
    <2> QED BY <2>1, <2>2
  <1>5. Quiet(t)
    BY <1>2 DEF Quiet, Still, Shape, chanVars
  <1> QED BY <1>3, <1>4, <1>5 DEF Shape, chanVars

\* Steps that change only where threads are.
LEMMA MoveShape ==
  ASSUME Shape, NEW t \in Threads, pc' \in [Threads -> PC],
         \A s \in Threads : pc'[s] = "idle" <=> pc[s] = "idle",
         UNCHANGED <<stage, active, owner, waiting, call, idx>>
  PROVE  Shape'
  BY DEF Shape, Indices

\* Entering and leaving channel.c.
LEMMA InvokeReturn ==
  ASSUME Shape, NEW t \in Threads, Invoke(t) \/ Return(t)
  PROVE  Shape' /\ Quiet(t)
  <1>1. CASE Invoke(t)
    <2>1. PICK k \in Program[t] :
            /\ call' = [call EXCEPT ![t] = k]
            /\ pc' = [pc EXCEPT ![t] = CASE k.kind = "select" -> "register"
                                         [] k.kind = "close"  -> "close"
                                         [] OTHER             -> "start"]
      BY <1>1 DEF Invoke
    <2>2. k \in Call /\ Len(k.entries) \in Nat \ {0}
      <3>1. k \in Call /\ Len(k.entries) > 0
        BY ProgramAssumption
      <3>2. k.entries \in Seq(Entry)
        BY <3>1 DEF Call
      <3> QED BY <3>1, <3>2
    <2>3. PICK q \in {"register", "close", "start"} : pc' = [pc EXCEPT ![t] = q]
      BY <2>1
    <2>4. pc[t] = "idle" /\ idx[t] = 1 /\ UNCHANGED <<chanVars, idx>>
      BY <1>1 DEF Invoke, Shape, Indices
    <2>5. Indices'
      <3> SUFFICES ASSUME NEW s \in Threads
                   PROVE  /\ pc'[s] = "idle" => idx'[s] = 1
                          /\ pc'[s] # "idle" => idx'[s] \in 1 .. Len(call'[s].entries)
        BY DEF Indices
      <3>1. CASE s = t
        BY <2>1, <2>2, <2>3, <2>4, <3>1 DEF Shape
      <3>2. CASE s # t
        BY <2>1, <2>3, <2>4, <3>2 DEF Shape, Indices
      <3> QED BY <3>1, <3>2
    <2>6. call' \in [Threads -> Call] /\ pc' \in [Threads -> PC]
      BY <2>1, <2>2, <2>3 DEF Shape, PC
    <2>7. Quiet(t)
      BY <2>1, <2>3, <2>4 DEF Quiet, Still, Shape, chanVars, Sync
    <2> QED BY <2>4, <2>5, <2>6, <2>7 DEF Shape, chanVars
  <1>2. CASE Return(t)
    <2>1. NoCall \in Call
      BY DEF NoCall, Call
    <2>2. Indices'
      BY <1>2 DEF Return, Shape, Indices
    <2>3. /\ pc' \in [Threads -> PC] /\ call' \in [Threads -> Call]
          /\ idx' \in [Threads -> Nat \ {0}]
      BY <1>2, <2>1 DEF Return, Shape, PC
    <2>4. Quiet(t)
      BY <1>2 DEF Return, Quiet, Still, Shape, chanVars, Sync
    <2> QED BY <1>2, <2>2, <2>3, <2>4 DEF Return, Shape, chanVars
  <1> QED BY <1>1, <1>2

\* A call that gives up.
LEMMA GiveUpQuiet ==
  ASSUME Shape, NEW t \in Threads, pc[t] \notin Sync \cup {"idle"},
         NEW st, GiveUp(t, st)
  PROVE  Shape' /\ Quiet(t)
  BY DEF GiveUp, Shape, Indices, Quiet, Still, chanVars, PC, Sync

\* Becoming the initiator, queueing, completing and finishing a rendezvous.
LEMMA SyncShape ==
  ASSUME Shape, NEW t \in Threads,
         (pc[t] \in Entering /\ unbuffered_sync(t)) \/ Finish(t)
  PROVE  Shape' /\ Still(t)
  <1>1. /\ pc[t] # "idle" /\ Cur(t).chan \in Channels /\ Cur(t).dir \in Dir
        /\ idx[t] \in 1 .. Len(call[t].entries) /\ Len(call[t].entries) \in Nat
        /\ Dequeued(t) \in [Dir -> [Channels -> Int]]
    <2>1. pc[t] # "idle"
      BY DEF Entering, Finish
    <2> QED BY <2>1, CurEntry, DequeuedType
  <1>2. CASE Initiate(t)
    <2>1. pc' \in [Threads -> PC] /\ \A s \in Threads : pc'[s] = "idle" <=> pc[s] = "idle"
      BY <1>1, <1>2 DEF Initiate, Shape, PC, On
    <2>2. /\ stage' \in [Channels -> 0 .. 2] /\ active' \in [Channels -> Dir \cup {"none"}]
          /\ owner' \in [Channels -> Threads \cup {Junk}]
          /\ waiting' \in [Dir -> [Channels -> Int]] /\ UNCHANGED <<call, idx>>
      BY <1>1, <1>2 DEF Initiate, Shape
    <2> QED BY <2>1, <2>2 DEF Shape, Indices, Still
  <1>3. CASE Enqueue(t)
    <2>1. pc' \in [Threads -> PC] /\ \A s \in Threads : pc'[s] = "idle" <=> pc[s] = "idle"
      BY <1>1, <1>3 DEF Enqueue, Shape, PC
    <2>2. waiting' \in [Dir -> [Channels -> Int]]
      <3> DEFINE w == Dequeued(t)
      <3>1. w \in [Dir -> [Channels -> Int]]
        BY <1>1
      <3> HIDE DEF w
      <3>2. /\ w[Cur(t).dir] \in [Channels -> Int] /\ w[Cur(t).dir][Cur(t).chan] \in Int
        BY <1>1, <3>1
      <3>3. [w[Cur(t).dir] EXCEPT ![Cur(t).chan] = @ + 1] \in [Channels -> Int]
        BY <1>1, <3>2
      <3>4. waiting' = [w EXCEPT ![Cur(t).dir][Cur(t).chan] = @ + 1]
        BY <1>3 DEF Enqueue, w
      <3> QED BY <1>1, <3>1, <3>3, <3>4
    <2> QED BY <1>3, <2>1, <2>2 DEF Enqueue, Shape, Indices, Still
  <1>4. CASE Complete(t)
    <2>1. pc' \in [Threads -> PC] /\ \A s \in Threads : pc'[s] = "idle" <=> pc[s] = "idle"
      BY <1>1, <1>4 DEF Complete, Shape, PC, On, After
    <2>2. /\ stage' \in [Channels -> 0 .. 2] /\ waiting' \in [Dir -> [Channels -> Int]]
          /\ idx' = [idx EXCEPT ![t] = 1] /\ UNCHANGED <<active, owner, call>>
      BY <1>1, <1>4 DEF Complete, Shape
    <2>3. Indices'
      BY <1>1, <2>1, <2>2 DEF Shape, Indices
    <2> QED BY <2>1, <2>2, <2>3 DEF Shape, Still
  <1>5. CASE Finish(t)
    <2>1. pc' \in [Threads -> PC] /\ \A s \in Threads : pc'[s] = "idle" <=> pc[s] = "idle"
      BY <1>1, <1>5 DEF Finish, Shape, PC, On, After
    <2>2. /\ stage' \in [Channels -> 0 .. 2]
          /\ idx' = [idx EXCEPT ![t] = 1] /\ UNCHANGED <<active, owner, waiting, call>>
      BY <1>1, <1>5 DEF Finish, Shape
    <2>3. Indices'
      BY <1>1, <2>1, <2>2 DEF Shape, Indices
    <2> QED BY <2>1, <2>2, <2>3 DEF Shape, Still
  <1> QED BY <1>2, <1>3, <1>4, <1>5 DEF unbuffered_sync

\* channel_close.
LEMMA CloseCases ==
  ASSUME Shape, NEW t \in Threads, channel_close(t)
  PROVE  Shape' /\ (Quiet(t) \/ Waking(t))
  <1>1. CASE SetClosed(t)
    <2>1. CASE GiveUp(t, "CLOSED_ERROR")
      BY <1>1, <2>1, GiveUpQuiet DEF SetClosed, Sync
    <2>2. CASE ~ GiveUp(t, "CLOSED_ERROR")
      <3>1. pc[t] = "close" /\ pc' = [pc EXCEPT ![t] = "closeRecvSel"]
            /\ UNCHANGED <<stage, active, owner, waiting, call, idx>>
        BY <1>1, <2>2 DEF SetClosed
      <3> QED BY <3>1, MoveShape DEF Quiet, Still, Shape, Sync, PC
    <2> QED BY <2>1, <2>2
  <1>2. CASE CloseNotify(t)
    <2>1. /\ pc[t] \in {"closeRecvSel", "closeSendSel"}
          /\ \E q \in {"closeSendSel", "closeNotEmpty"} : pc' = [pc EXCEPT ![t] = q]
          /\ UNCHANGED <<stage, active, owner, waiting, call, idx>>
      BY <1>2 DEF CloseNotify, chanVars
    <2> QED BY <2>1, MoveShape DEF Quiet, Still, Shape, Sync, PC
  <1>3. CASE CloseBroadcast(t)
    <2>1. UNCHANGED <<stage, active, owner, waiting, call, idx>>
      BY <1>3 DEF CloseBroadcast, chanVars
    <2>2. PICK S, from, woken, next :
            /\ \/ from = "nbwait" /\ woken = "nbwoken"
               \/ from = "queued" /\ woken = "requeued"
               \/ from = "complete" /\ woken = "completed"
            /\ next \in {"closeNotFull", "closeWait", "closeComplete", "return"}
            /\ pc[t] \in {"closeNotEmpty", "closeNotFull", "closeWait", "closeComplete"}
            /\ \A s \in S : pc[s] = from
            /\ Broadcast(t, S, woken, next)
      BY <1>3 DEF CloseBroadcast, On
    <2>3. /\ pc' \in [Threads -> PC]
          /\ \A s \in Threads : pc'[s] = "idle" <=> pc[s] = "idle"
      BY <2>2 DEF Broadcast, Shape, PC
    <2>4. Quiet(t) \/ Waking(t)
      BY <2>1, <2>2 DEF Broadcast, Quiet, Waking, Still, Shape, Sync
    <2> QED BY <2>1, <2>3, <2>4, MoveShape
  <1> QED BY <1>1, <1>2, <1>3 DEF channel_close

\* channel_select.
LEMMA SelectCases ==
  ASSUME Shape, NEW t \in Threads, channel_select(t)
  PROVE  \/ Shape' /\ Quiet(t)
         \/ pc[t] \in Entering /\ unbuffered_sync(t)
  <1>1. CASE init_select(t)
    BY <1>1, AdvanceShape DEF init_select, Sync, PC
  <1>2. CASE TryEntry(t)
    <2>1. CASE unbuffered_sync(t)
      BY <1>2, <2>1 DEF TryEntry, Entering
    <2>2. CASE /\ idx' = [idx EXCEPT ![t] = 1] /\ pc' = [pc EXCEPT ![t] = "cleanup"]
               /\ UNCHANGED <<chanVars, call>>
      <3>1. pc[t] = "scan" /\ idx[t] \in 1 .. Len(call[t].entries)
            /\ Len(call[t].entries) \in Nat
        BY <1>2, CurEntry DEF TryEntry
      <3>2. Indices'
        BY <2>2, <3>1 DEF Shape, Indices
      <3>3. Quiet(t)
        BY <2>2, <3>1 DEF Quiet, Still, Shape, chanVars, Sync
      <3> QED BY <2>2, <3>2, <3>3 DEF Shape, chanVars, PC
    <2>3. CASE Advance(t, "semwait") /\ UNCHANGED <<chanVars, call>>
      BY <1>2, <2>3, AdvanceShape DEF TryEntry, Sync, PC
    <2> QED BY <1>2, <2>1, <2>2, <2>3 DEF TryEntry
  <1>3. CASE SemWait(t)
    <2>1. /\ pc[t] = "semwait" /\ pc' = [pc EXCEPT ![t] = "scan"]
          /\ UNCHANGED <<stage, active, owner, waiting, call, idx>>
      BY <1>3 DEF SemWait, chanVars
    <2> QED BY <2>1, MoveShape DEF Quiet, Still, Shape, Sync, PC
  <1>4. CASE cleanup_select(t)
    BY <1>4, AdvanceShape DEF cleanup_select, Sync, PC
  <1>5. CASE CheckArguments(t)
    BY <1>5, GiveUpQuiet DEF CheckArguments, Sync
  <1> QED BY <1>1, <1>2, <1>3, <1>4, <1>5 DEF channel_select

\* The blocking and non-blocking operations.
LEMMA OperationCases ==
  ASSUME Shape, NEW t \in Threads,
         \/ channel_send(t) \/ channel_receive(t)
         \/ channel_non_blocking_send(t) \/ channel_non_blocking_receive(t)
  PROVE  \/ Shape' /\ Quiet(t)
         \/ pc[t] \in Entering /\ unbuffered_sync(t)
  <1>1. /\ pc[t] \in {"start", "nbwoken"}
        /\ \/ unbuffered_sync(t)
           \/ \E st : GiveUp(t, st)
           \/ /\ pc' = [pc EXCEPT ![t] = "nbwait"]
              /\ UNCHANGED <<chanVars, call, idx>>
    BY DEF channel_send, channel_receive, channel_non_blocking_send,
           channel_non_blocking_receive, NonBlockingLoop, At
  <1>2. CASE \E st : GiveUp(t, st)
    BY <1>1, <1>2, GiveUpQuiet DEF Sync
  <1>3. CASE pc' = [pc EXCEPT ![t] = "nbwait"] /\ UNCHANGED <<chanVars, call, idx>>
    BY <1>1, <1>3, MoveShape DEF Quiet, Still, Shape, Sync, PC, chanVars
  <1> QED BY <1>1, <1>2, <1>3 DEF Entering

LEMMA SpuriousCases ==
  ASSUME Shape, NEW t \in Threads, SpuriousWakeup(t)
  PROVE  Shape' /\ (Quiet(t) \/ Waking(t))
  <1>1. /\ UNCHANGED <<stage, active, owner, waiting, call, idx>>
        /\ \/ pc[t] = "complete" /\ pc' = [pc EXCEPT ![t] = "completed"]
           \/ pc[t] = "queued" /\ pc' = [pc EXCEPT ![t] = "requeued"]
           \/ pc[t] = "nbwait" /\ pc' = [pc EXCEPT ![t] = "nbwoken"]
    BY DEF SpuriousWakeup, chanVars
  <1> QED BY <1>1, MoveShape DEF Quiet, Waking, Still, Shape, Sync, PC

\* Every step keeps the shape and is quiet, wakes threads, enters
\* unbuffered_sync or finishes a rendezvous.
LEMMA StepCases ==
  ASSUME Shape, Next
  PROVE  /\ Shape'
         /\ \E t \in Threads : \/ Quiet(t) \/ Waking(t) \/ Finish(t)
                               \/ pc[t] \in Entering /\ unbuffered_sync(t)
  <1>1. PICK t \in Threads : Invoke(t) \/ Step(t) \/ SpuriousWakeup(t)
    BY DEF Next
  <1>2. CASE Requeued(t)
    BY <1>2, SyncShape DEF Requeued, Entering
  <1> QED BY <1>1, <1>2, InvokeReturn, SpuriousCases, OperationCases, SelectCases,
             CloseCases, SyncShape DEF Step

-----------------------------------------------------------------------------
(* The stage and the initiator.                                            *)

\* StageTruth, thread by thread.
Initiating(s, c) == pc[s] \in {"complete", "completed"} /\ Cur(s).chan = c

StageFacts ==
  \A c \in Channels :
    /\ \A s \in Threads : Initiating(s, c) <=> stage[c] # 0 /\ owner[c] = s
    /\ stage[c] # 0 => owner[c] \in Threads
    /\ \A s \in Threads : Initiating(s, c) => Cur(s).dir = active[c]
    /\ stage[c] = 2 => \A s \in Threads : Initiating(s, c) => pc[s] # "complete"

LEMMA StageFactsTruth == StageFacts <=> StageTruth
  <1>1. ASSUME StageFacts PROVE StageTruth
    <2> SUFFICES ASSUME NEW c \in Channels
                 PROVE  /\ Initiators(c) = IF stage[c] = 0 THEN {} ELSE {owner[c]}
                        /\ stage[c] # 0 => Cur(owner[c]).dir = active[c]
                        /\ stage[c] = 2 => On(c, "complete") = {}
      BY DEF StageTruth
    <2> QED BY <1>1 DEF StageFacts, Initiators, On, Initiating
  <1>2. ASSUME StageTruth PROVE StageFacts
    <2> SUFFICES ASSUME NEW c \in Channels
                 PROVE  /\ \A s \in Threads : Initiating(s, c) <=> stage[c] # 0 /\ owner[c] = s
                        /\ stage[c] # 0 => owner[c] \in Threads
                        /\ \A s \in Threads : Initiating(s, c) => Cur(s).dir = active[c]
                        /\ stage[c] = 2 => \A s \in Threads : Initiating(s, c) => pc[s] # "complete"
      BY DEF StageFacts
    <2>1. /\ Initiators(c) = IF stage[c] = 0 THEN {} ELSE {owner[c]}
          /\ stage[c] # 0 => Cur(owner[c]).dir = active[c]
          /\ stage[c] = 2 => On(c, "complete") = {}
      BY <1>2 DEF StageTruth
    <2>2. Initiators(c) = {s \in Threads : Initiating(s, c)}
      BY DEF Initiators, On, Initiating
    <2> QED BY <2>1, <2>2 DEF On, Initiating
  <1> QED BY <1>1, <1>2

\* Nobody sleeps through a chance to meet, thread by thread.
Queued(s, c) == pc[s] = "queued" /\ Cur(s).chan = c

QueueFacts ==
  \A c \in Channels : \A s \in Threads :
    Queued(s, c) => stage[c] # 0 /\ (stage[c] = 1 => active[c] = Cur(s).dir)

LEMMA QueueFactsPartner == QueueFacts <=> NoSleepingPartner
  BY DEF QueueFacts, NoSleepingPartner, Queued, On

\* The entry of a thread that does not move is the same.
LEMMA StillCur ==
  ASSUME NEW t \in Threads, Still(t), NEW s \in Threads, s # t
  PROVE  Cur(s)' = Cur(s)
  BY DEF Still, Cur

\* Steps outside the waits, and wakeups.
LEMMA StageAside ==
  ASSUME Shape, StageFacts, QueueFacts, NEW t \in Threads, Quiet(t) \/ Waking(t)
  PROVE  StageFacts' /\ QueueFacts'
  <1>1. UNCHANGED <<stage, active, owner>>
    BY DEF Quiet, Waking
  <1>2. ASSUME NEW s \in Threads
        PROVE  /\ pc'[s] \in {"complete", "completed"} <=> pc[s] \in {"complete", "completed"}
               /\ pc'[s] = "complete" => pc[s] = "complete"
               /\ pc'[s] = "queued" => pc[s] = "queued"
               /\ pc[s] \in Sync => Cur(s)' = Cur(s)
    <2>1. CASE Quiet(t)
      <3>1. CASE s = t
        BY <2>1, <3>1 DEF Quiet, Sync
      <3>2. CASE s # t
        BY <2>1, <3>2, StillCur DEF Quiet, Sync
      <3> QED BY <3>1, <3>2
    <2>2. CASE Waking(t)
      BY <2>2 DEF Waking, Sync, Cur
    <2> QED BY <2>1, <2>2
  <1>3. \A s \in Threads, c \in Channels :
          /\ Initiating(s, c)' <=> Initiating(s, c)
          /\ Queued(s, c)' => Queued(s, c)
    BY <1>2 DEF Initiating, Queued, Sync
  <1>4. StageFacts'
    BY <1>1, <1>2, <1>3 DEF StageFacts, Initiating, Sync
  <1>5. QueueFacts'
    BY <1>1, <1>2, <1>3 DEF QueueFacts, Queued, Sync
  <1> QED BY <1>4, <1>5

\* A thread becomes the initiator only of a channel that has none, on which
\* therefore nobody is queued.
LEMMA StageInitiate ==
  ASSUME Shape, StageFacts, QueueFacts, NEW t \in Threads,
         pc[t] \in Entering, Initiate(t)
  PROVE  StageFacts' /\ QueueFacts'
  <1> DEFINE d == Cur(t).chan
  <1>1. d \in Channels /\ Cur(t).dir \in Dir
    BY CurEntry DEF Entering
  <1>2. /\ stage[d] = 0
        /\ stage' = [stage EXCEPT ![d] = 1] /\ active' = [active EXCEPT ![d] = Cur(t).dir]
        /\ owner' = [owner EXCEPT ![d] = t] /\ UNCHANGED <<call, idx>>
        /\ pc'[t] = "complete"
        /\ \A s \in Threads \ {t} : pc'[s] = pc[s] \/ (pc[s] = "nbwait" /\ pc'[s] = "nbwoken")
    BY DEF Initiate, On
  <1>3. \A s \in Threads : Cur(s)' = Cur(s)
    BY <1>2 DEF Cur
  <1>4. \A s \in Threads, c \in Channels :
          /\ Initiating(s, c)' <=> (IF s = t THEN c = d ELSE Initiating(s, c))
          /\ Queued(s, c)' => Queued(s, c)
    BY <1>2, <1>3 DEF Initiating, Queued, Entering
  <1>5. ~ \E c \in Channels : Initiating(t, c)
    BY DEF Initiating, Entering
  <1>6. StageFacts'
    <2> SUFFICES ASSUME NEW c \in Channels
                 PROVE  /\ \A s \in Threads : Initiating(s, c)' <=> stage'[c] # 0 /\ owner'[c] = s
                        /\ stage'[c] # 0 => owner'[c] \in Threads
                        /\ \A s \in Threads : Initiating(s, c)' => Cur(s)'.dir = active'[c]
                        /\ stage'[c] = 2 => \A s \in Threads : Initiating(s, c)' => pc'[s] # "complete"
      BY DEF StageFacts
    <2>1. CASE c = d
      BY <1>1, <1>2, <1>3, <1>4, <2>1 DEF StageFacts, Shape
    <2>2. CASE c # d
      <3>1. stage'[c] = stage[c] /\ active'[c] = active[c] /\ owner'[c] = owner[c]
        BY <1>2, <2>2 DEF Shape
      <3> QED BY <1>2, <1>3, <1>4, <1>5, <2>2, <3>1 DEF StageFacts, Initiating
    <2> QED BY <2>1, <2>2
  <1>7. QueueFacts'
    BY <1>1, <1>2, <1>3, <1>4 DEF QueueFacts, Shape
  <1> QED BY <1>6, <1>7

\* A thread queues only behind an initiator it cannot meet.
LEMMA StageEnqueue ==
  ASSUME Shape, StageFacts, QueueFacts, NEW t \in Threads,
         pc[t] \in Entering, Enqueue(t)
  PROVE  StageFacts' /\ QueueFacts'
  <1>1. Cur(t).chan \in Channels /\ Cur(t).dir \in Dir
    BY CurEntry DEF Entering
  <1>2. /\ UNCHANGED <<stage, active, owner, call, idx>>
        /\ pc' = [pc EXCEPT ![t] = "queued"]
        /\ \/ stage[Cur(t).chan] = 2
           \/ stage[Cur(t).chan] = 1 /\ active[Cur(t).chan] = Cur(t).dir
    BY DEF Enqueue
  <1>3. \A s \in Threads : Cur(s)' = Cur(s)
    BY <1>2 DEF Cur
  <1>4. \A s \in Threads, c \in Channels :
          /\ Initiating(s, c)' <=> Initiating(s, c)
          /\ Queued(s, c)' => Queued(s, c) \/ (s = t /\ c = Cur(t).chan)
    BY <1>2, <1>3 DEF Initiating, Queued, Entering, Shape
  <1>5. StageFacts'
    BY <1>2, <1>3, <1>4 DEF StageFacts, Initiating, Shape
  <1>6. QueueFacts'
    BY <1>1, <1>2, <1>3, <1>4 DEF QueueFacts
  <1> QED BY <1>5, <1>6

\* The partner of an initiator wakes it and leaves.
LEMMA StageComplete ==
  ASSUME Shape, StageFacts, QueueFacts, NEW t \in Threads,
         pc[t] \in Entering, Complete(t)
  PROVE  StageFacts' /\ QueueFacts'
  <1> DEFINE d == Cur(t).chan
  <1>1. d \in Channels /\ Cur(t).dir \in Dir
    BY CurEntry DEF Entering
  <1>2. /\ stage[d] = 1
        /\ stage' = [stage EXCEPT ![d] = 2] /\ UNCHANGED <<active, owner>>
        /\ pc'[t] \in {"cleanup", "return"}
        /\ \A s \in Threads \ {t} :
             pc'[s] = IF Initiating(s, d) THEN "completed" ELSE pc[s]
    BY DEF Complete, On, After, Initiating
  <1>3. \A s \in Threads \ {t} : Cur(s)' = Cur(s)
    BY SyncShape, StillCur DEF unbuffered_sync
  <1>4. /\ \A c \in Channels : ~ Initiating(t, c) /\ ~ Initiating(t, c)' /\ ~ Queued(t, c)'
        /\ \A s \in Threads \ {t}, c \in Channels :
             /\ Initiating(s, c)' <=> Initiating(s, c)
             /\ Queued(s, c)' => Queued(s, c)
    BY <1>2, <1>3 DEF Initiating, Queued, Entering
  <1>5. StageFacts'
    <2> SUFFICES ASSUME NEW c \in Channels
                 PROVE  /\ \A s \in Threads : Initiating(s, c)' <=> stage'[c] # 0 /\ owner'[c] = s
                        /\ stage'[c] # 0 => owner'[c] \in Threads
                        /\ \A s \in Threads : Initiating(s, c)' => Cur(s)'.dir = active'[c]
                        /\ stage'[c] = 2 => \A s \in Threads : Initiating(s, c)' => pc'[s] # "complete"
      BY DEF StageFacts
    <2>1. /\ stage'[c] # 0 <=> stage[c] # 0
          /\ owner'[c] = owner[c] /\ active'[c] = active[c]
          /\ stage'[c] = 2 => stage[c] = 2 \/ c = d
      BY <1>1, <1>2 DEF Shape
    <2>2. stage[c] # 0 => owner[c] # t
      BY <1>4 DEF StageFacts
    <2> QED BY <1>2, <1>3, <1>4, <2>1, <2>2 DEF StageFacts, Initiating
  <1>6. QueueFacts'
    <2> SUFFICES ASSUME NEW c \in Channels, NEW s \in Threads, Queued(s, c)'
                 PROVE  stage'[c] # 0 /\ (stage'[c] = 1 => active'[c] = Cur(s)'.dir)
      BY DEF QueueFacts
    <2>1. s # t /\ Queued(s, c) /\ Cur(s)' = Cur(s)
      BY <1>3, <1>4
    <2> QED BY <1>1, <1>2, <2>1 DEF QueueFacts, Shape
  <1> QED BY <1>5, <1>6

\* The initiator resets the stage, and everybody queued starts over.
LEMMA StageFinish ==
  ASSUME Shape, StageFacts, QueueFacts, NEW t \in Threads, Finish(t)
  PROVE  StageFacts' /\ QueueFacts'
  <1> DEFINE d == Cur(t).chan
  <1>1. d \in Channels /\ pc[t] = "completed"
    BY CurEntry DEF Finish
  <1>2. /\ stage' = [stage EXCEPT ![d] = 0] /\ UNCHANGED <<active, owner>>
        /\ pc'[t] \in {"cleanup", "return"}
        /\ \A s \in Threads \ {t} :
             pc'[s] = IF Queued(s, d) THEN "requeued" ELSE pc[s]
    BY DEF Finish, On, After, Queued
  <1>3. \A s \in Threads \ {t} : Cur(s)' = Cur(s)
    BY SyncShape, StillCur
  <1>4. /\ \A c \in Channels : ~ Initiating(t, c)' /\ ~ Queued(t, c)'
        /\ Initiating(t, d) /\ \A c \in Channels \ {d} : ~ Initiating(t, c)
        /\ \A s \in Threads \ {t}, c \in Channels :
             /\ Initiating(s, c)' <=> Initiating(s, c)
             /\ Queued(s, c)' => Queued(s, c) /\ c # d
    BY <1>1, <1>2, <1>3 DEF Initiating, Queued
  <1>5. stage[d] # 0 /\ owner[d] = t /\ \A s \in Threads \ {t} : ~ Initiating(s, d)
    BY <1>1, <1>4 DEF StageFacts
  <1>6. StageFacts'
    <2> SUFFICES ASSUME NEW c \in Channels
                 PROVE  /\ \A s \in Threads : Initiating(s, c)' <=> stage'[c] # 0 /\ owner'[c] = s
                        /\ stage'[c] # 0 => owner'[c] \in Threads
                        /\ \A s \in Threads : Initiating(s, c)' => Cur(s)'.dir = active'[c]
                        /\ stage'[c] = 2 => \A s \in Threads : Initiating(s, c)' => pc'[s] # "complete"
      BY DEF StageFacts
    <2>1. CASE c = d
      BY <1>1, <1>2, <1>4, <1>5, <2>1 DEF Shape
    <2>2. CASE c # d
      <3>1. stage'[c] = stage[c] /\ active'[c] = active[c] /\ owner'[c] = owner[c]
        BY <1>2, <2>2 DEF Shape
      <3>2. stage[c] # 0 => owner[c] # t
        BY <1>4, <2>2 DEF StageFacts
      <3> QED BY <1>2, <1>3, <1>4, <2>2, <3>1, <3>2 DEF StageFacts, Initiating
    <2> QED BY <2>1, <2>2
  <1>7. QueueFacts'
    <2> SUFFICES ASSUME NEW c \in Channels, NEW s \in Threads, Queued(s, c)'
                 PROVE  stage'[c] # 0 /\ (stage'[c] = 1 => active'[c] = Cur(s)'.dir)
      BY DEF QueueFacts
    <2>1. s # t /\ Queued(s, c) /\ c # d /\ Cur(s)' = Cur(s)
      BY <1>3, <1>4
    <2> QED BY <1>2, <2>1 DEF QueueFacts, Shape
  <1> QED BY <1>6, <1>7

\* The inductive invariant of the stage: it holds at first, and every step
\* keeps it.
RendezvousInv == Shape /\ StageFacts /\ QueueFacts

LEMMA RendezvousInit == Init => RendezvousInv
  <1> SUFFICES ASSUME Init PROVE RendezvousInv
    OBVIOUS
  <1>1. NoCall \in Call
    BY DEF NoCall, Call
  <1>2. Shape
    BY <1>1 DEF Init, Shape, Indices, PC
  <1>3. StageFacts /\ QueueFacts
    BY DEF Init, StageFacts, QueueFacts, Initiating, Queued
  <1> QED BY <1>2, <1>3 DEF RendezvousInv

LEMMA RendezvousStep == RendezvousInv /\ [Next]_vars => RendezvousInv'
  <1> SUFFICES ASSUME RendezvousInv, [Next]_vars PROVE RendezvousInv'
    OBVIOUS
  <1> USE DEF RendezvousInv
  <1>1. CASE Next
    <2>1. Shape' /\ \E t \in Threads : \/ Quiet(t) \/ Waking(t) \/ Finish(t)
                                       \/ pc[t] \in Entering /\ unbuffered_sync(t)
      BY <1>1, StepCases
    <2> QED BY <2>1, StageAside, StageFinish, StageInitiate, StageEnqueue, StageComplete
            DEF unbuffered_sync
  <1>2. CASE UNCHANGED vars
    BY <1>2 DEF vars, Shape, Indices, StageFacts, QueueFacts, Initiating, Queued, Cur
  <1> QED BY <1>1, <1>2

LEMMA RendezvousInvariant == Spec => []RendezvousInv
  BY RendezvousInit, RendezvousStep, PTL DEF Spec

\* The stage of a channel tells the truth about its initiator (unbuf_stage,
\* unbuf_data of channel.c), whoever wakes it: a rendezvous never reads or
\* writes the data of a call that is over.
THEOREM UnbufferedStageTruth == Spec => []StageTruth
  <1>1. RendezvousInv => StageTruth
    BY StageFactsTruth DEF RendezvousInv
  <1> QED BY <1>1, RendezvousInvariant, PTL

\* No thread sleeps on rendezvous_wait_cv through a chance to meet a partner.
THEOREM UnbufferedNoSleepingPartner == Spec => []NoSleepingPartner
  <1>1. RendezvousInv => NoSleepingPartner
    BY QueueFactsPartner DEF RendezvousInv
  <1> QED BY <1>1, RendezvousInvariant, PTL

-----------------------------------------------------------------------------
(* waiting_senders and waiting_receivers.                                  *)

\* Whether a thread is between the two halves of the wait, and who is.
Counted(s, d, c) == pc[s] \in {"queued", "requeued"} /\ Cur(s).chan = c /\ Cur(s).dir = d
Line(d, c) == {s \in Threads : Counted(s, d, c)}

CountFacts == \A c \in Channels, d \in Dir : waiting[d][c] = Cardinality(Line(d, c))

LEMMA CountFactsExact == CountFacts <=> WaitingExact
  <1>1. ASSUME NEW c \in Channels, NEW d \in Dir
        PROVE  Line(d, c) = {t \in On(c, "queued") \cup On(c, "requeued") : Cur(t).dir = d}
    BY DEF Line, Counted, On
  <1> QED BY <1>1 DEF CountFacts, WaitingExact

LEMMA LineFinite ==
  ASSUME NEW c \in Channels, NEW d \in Dir
  PROVE  IsFiniteSet(Line(d, c)) /\ Cardinality(Line(d, c)) \in Nat
  <1>1. Line(d, c) \subseteq Threads
    BY DEF Line
  <1> QED BY <1>1, ProgramAssumption, FS_Subset, FS_CardinalityType

\* As long as the same threads are in line, the counters are right.
LEMMA CountSame ==
  ASSUME CountFacts, UNCHANGED waiting,
         \A s \in Threads, c \in Channels, d \in Dir : Counted(s, d, c)' <=> Counted(s, d, c)
  PROVE  CountFacts'
  <1>1. \A c \in Channels, d \in Dir : Line(d, c)' = Line(d, c)
    BY DEF Line
  <1> QED BY <1>1 DEF CountFacts

\* Leaving the line for unbuffered_sync's next stage.
LEMMA CountLeave ==
  ASSUME Shape, CountFacts, NEW t \in Threads, pc[t] \in Entering,
         waiting' = Dequeued(t), pc'[t] \notin {"queued", "requeued"}, Still(t),
         \A s \in Threads \ {t} : pc'[s] \in {"queued", "requeued"}
                                  <=> pc[s] \in {"queued", "requeued"}
  PROVE  CountFacts'
  <1>1. \A s \in Threads \ {t} : Cur(s)' = Cur(s)
    BY StillCur
  <1>2. \A s \in Threads, c \in Channels, d \in Dir :
          Counted(s, d, c)' <=> Counted(s, d, c) /\ s # t
    BY <1>1 DEF Counted
  <1>3. CASE pc[t] # "requeued"
    BY <1>2, <1>3, CountSame DEF Counted, Dequeued, Entering
  <1>4. CASE pc[t] = "requeued"
    <2> DEFINE e == Cur(t).chan
               f == Cur(t).dir
    <2>1. e \in Channels /\ f \in Dir
      BY CurEntry DEF Entering
    <2> SUFFICES ASSUME NEW c \in Channels, NEW d \in Dir
                 PROVE  waiting'[d][c] = Cardinality(Line(d, c))'
      BY DEF CountFacts
    <2>2. Line(d, c)' = Line(d, c) \ {t}
      BY <1>2 DEF Line
    <2>3. t \in Line(d, c) <=> (c = e /\ d = f)
      BY <1>4 DEF Line, Counted
    <2>4. waiting' = [waiting EXCEPT ![f][e] = @ - 1]
      BY <1>4 DEF Dequeued
    <2>5. CASE c = e /\ d = f
      <3>1. waiting'[d][c] = waiting[d][c] - 1
        BY <2>1, <2>4, <2>5 DEF Shape
      <3>2. Cardinality(Line(d, c) \ {t}) = Cardinality(Line(d, c)) - 1
        BY <2>3, <2>5, LineFinite, FS_RemoveElement
      <3> QED BY <2>2, <3>1, <3>2 DEF CountFacts
    <2>6. CASE ~ (c = e /\ d = f)
      <3>1. waiting'[d][c] = waiting[d][c]
        BY <2>1, <2>4, <2>6 DEF Shape
      <3>2. Line(d, c)' = Line(d, c)
        BY <2>2, <2>3, <2>6
      <3> QED BY <3>1, <3>2 DEF CountFacts
    <2> QED BY <2>5, <2>6
  <1> QED BY <1>3, <1>4

\* Getting in line, for the first time or again.
LEMMA CountEnqueue ==
  ASSUME Shape, CountFacts, NEW t \in Threads, pc[t] \in Entering, Enqueue(t)
  PROVE  CountFacts'
  <1> DEFINE e == Cur(t).chan
             f == Cur(t).dir
             w == Dequeued(t)
  <1>1. e \in Channels /\ f \in Dir /\ w \in [Dir -> [Channels -> Int]]
    BY CurEntry, DequeuedType DEF Entering
  <1>2. /\ waiting' = [w EXCEPT ![f][e] = @ + 1] /\ UNCHANGED <<call, idx>>
        /\ pc' = [pc EXCEPT ![t] = "queued"]
    BY DEF Enqueue
  <1>3. \A s \in Threads : Cur(s)' = Cur(s)
    BY <1>2 DEF Cur
  <1>4. \A s \in Threads, c \in Channels, d \in Dir :
          Counted(s, d, c)' <=> Counted(s, d, c) \/ (s = t /\ c = e /\ d = f)
    BY <1>2, <1>3 DEF Counted, Shape
  <1> SUFFICES ASSUME NEW c \in Channels, NEW d \in Dir
               PROVE  waiting'[d][c] = Cardinality(Line(d, c))'
    BY DEF CountFacts
  <1>5. waiting[d][c] = Cardinality(Line(d, c)) /\ waiting[d][c] \in Int
    BY DEF CountFacts, Shape
  <1>6. w[d][c] = IF pc[t] = "requeued" /\ c = e /\ d = f THEN waiting[d][c] - 1
                                                        ELSE waiting[d][c]
    BY <1>1 DEF Dequeued, Shape
  <1> HIDE DEF w
  <1>7. waiting'[d][c] = IF c = e /\ d = f THEN w[d][c] + 1 ELSE w[d][c]
    BY <1>1, <1>2
  <1>8. CASE c = e /\ d = f /\ pc[t] # "requeued"
    <2>1. Line(d, c)' = Line(d, c) \cup {t} /\ t \notin Line(d, c)
      BY <1>4, <1>8 DEF Line, Counted, Entering
    <2>2. Cardinality(Line(d, c) \cup {t}) = Cardinality(Line(d, c)) + 1
      BY <2>1, LineFinite, FS_AddElement
    <2> QED BY <1>5, <1>6, <1>7, <1>8, <2>1, <2>2
  <1>9. CASE ~ (c = e /\ d = f /\ pc[t] # "requeued")
    <2>1. Line(d, c)' = Line(d, c)
      BY <1>4, <1>9 DEF Line, Counted
    <2> QED BY <1>5, <1>6, <1>7, <1>9, <2>1
  <1> QED BY <1>8, <1>9

LEMMA CountStep ==
  ASSUME Shape, CountFacts, [Next]_vars
  PROVE  CountFacts'
  <1>1. ASSUME NEW t \in Threads, Quiet(t) \/ Waking(t) PROVE CountFacts'
    <2>1. ASSUME NEW s \in Threads
          PROVE  /\ pc'[s] \in {"queued", "requeued"} <=> pc[s] \in {"queued", "requeued"}
                 /\ pc[s] \in Sync => Cur(s)' = Cur(s)
      <3>1. CASE Quiet(t)
        <4>1. CASE s = t
          BY <3>1, <4>1 DEF Quiet, Sync
        <4>2. CASE s # t
          BY <3>1, <4>2, StillCur DEF Quiet, Sync
        <4> QED BY <4>1, <4>2
      <3>2. CASE Waking(t)
        BY <3>2 DEF Waking, Sync, Cur
      <3> QED BY <1>1, <3>1, <3>2
    <2> QED BY <1>1, <2>1, CountSame DEF Quiet, Waking, Counted, Sync
  <1>2. ASSUME NEW t \in Threads, Finish(t) PROVE CountFacts'
    <2>1. \A s \in Threads \ {t} : Cur(s)' = Cur(s)
      BY <1>2, SyncShape, StillCur
    <2>2. /\ pc[t] = "completed" /\ pc'[t] \in {"cleanup", "return"} /\ UNCHANGED waiting
          /\ \A s \in Threads \ {t} : pc'[s] \in {"queued", "requeued"}
                                      <=> pc[s] \in {"queued", "requeued"}
      BY <1>2 DEF Finish, On, After
    <2> QED BY <2>1, <2>2, CountSame DEF Counted
  <1>3. ASSUME NEW t \in Threads, pc[t] \in Entering, Initiate(t) PROVE CountFacts'
    <2>1. /\ waiting' = Dequeued(t) /\ pc'[t] = "complete"
          /\ \A s \in Threads \ {t} : pc'[s] \in {"queued", "requeued"}
                                      <=> pc[s] \in {"queued", "requeued"}
      BY <1>3 DEF Initiate, On
    <2> QED BY <1>3, <2>1, SyncShape, CountLeave DEF unbuffered_sync
  <1>4. ASSUME NEW t \in Threads, pc[t] \in Entering, Complete(t) PROVE CountFacts'
    <2>1. /\ waiting' = Dequeued(t) /\ pc'[t] \in {"cleanup", "return"}
          /\ \A s \in Threads \ {t} : pc'[s] \in {"queued", "requeued"}
                                      <=> pc[s] \in {"queued", "requeued"}
      BY <1>4 DEF Complete, On, After
    <2> QED BY <1>4, <2>1, SyncShape, CountLeave DEF unbuffered_sync
  <1>5. CASE UNCHANGED vars
    BY <1>5, CountSame DEF vars, Counted, Cur
  <1> QED BY <1>1, <1>2, <1>3, <1>4, <1>5, StepCases, CountEnqueue DEF unbuffered_sync

\* waiting_senders and waiting_receivers are exactly the numbers of threads in
\* the wait of unbuffered_sync, so in particular they never wrap below 0.
THEOREM UnbufferedWaitingExact == Spec => []WaitingExact
  <1>1. Init => CountFacts
    <2> SUFFICES ASSUME Init, NEW c \in Channels, NEW d \in Dir
                 PROVE  waiting[d][c] = Cardinality(Line(d, c))
      BY DEF CountFacts
    <2>1. Line(d, c) = {}
      BY DEF Init, Line, Counted
    <2> QED BY <2>1, FS_EmptySet DEF Init
  <1>2. Shape /\ CountFacts /\ [Next]_vars => CountFacts'
    BY CountStep
  <1>3. RendezvousInv => Shape
    BY DEF RendezvousInv
  <1>4. CountFacts => WaitingExact
    BY CountFactsExact
  <1> QED BY <1>1, <1>2, <1>3, <1>4, RendezvousInvariant, PTL DEF Spec

-----------------------------------------------------------------------------
(* The refinement of RendezvousSpec: no call closes a channel, and         *)
(* pthread_cond_wait returns only when it is signalled.                    *)

NeverClosing == \A t \in Threads : \A k \in Program[t] : k.kind # "close"

Decided == {"return", "cleanup"}
Pending == {"start", "nbwait", "nbwoken", "register", "scan", "semwait"}

\* What holds on open channels besides: calls are those of the program, an
\* initiator is woken only in stage 2, results are set at the end, and a
\* channel_select without its arguments does nothing else.
OpenFacts ==
  /\ closed = [c \in Channels |-> FALSE]
  /\ DOMAIN status = Threads /\ DOMAIN selIdx = Threads
  /\ \A t \in Threads :
       /\ pc[t] \in {"idle"} \cup Pending \cup Sync \cup Decided
       /\ pc[t] # "idle" => call[t] \in Program[t]
       /\ pc[t] = "completed" => stage[Cur(t).chan] = 2
       /\ pc[t] \notin Decided => selIdx[t] = 0
       /\ call[t].kind = "misuse" => pc[t] \in {"idle", "start", "return"}

\* A thread goes on without deciding, or cleans up after it has.
Onward(t) ==
  /\ call[t].kind # "misuse"
  /\ \/ pc[t] \in Pending /\ pc'[t] \in Pending
     \/ pc[t] = "cleanup" /\ pc'[t] \in Decided
  /\ \A s \in Threads \ {t} : pc'[s] = pc[s]
  /\ Still(t)
  /\ UNCHANGED <<closed, stage, active, owner, call, status, selIdx, value>>

\* A non-blocking call finds nobody.
Refused(t) ==
  /\ pc[t] \in {"start", "nbwoken"} /\ call[t].kind = "nonblocking"
  /\ GiveUp(t, IF Cur(t).dir = "SEND" THEN "CHANNEL_FULL" ELSE "CHANNEL_EMPTY")

\* A call on its way into unbuffered_sync.
Entrant(t) == pc[t] \in Entering /\ call[t].kind # "misuse"

LEMMA OpenCases ==
  ASSUME ~ SpuriousWakeups, NeverClosing, Shape, OpenFacts, Next
  PROVE  \E t \in Threads :
           \/ Invoke(t) \/ Return(t) \/ Refused(t) \/ CheckArguments(t)
           \/ Onward(t) \/ Finish(t)
           \/ Entrant(t) /\ unbuffered_sync(t)
  <1>1. PICK t \in Threads : Invoke(t) \/ Step(t) \/ SpuriousWakeup(t)
    BY DEF Next
  <1>2. ~ SpuriousWakeup(t) /\ ~ channel_close(t)
    BY DEF SpuriousWakeup, channel_close, SetClosed, CloseNotify, CloseBroadcast,
           OpenFacts, Pending, Sync, Decided
  <1>3. pc[t] # "idle" => ~ closed[Cur(t).chan]
    BY CurEntry DEF OpenFacts
  <1>4. CASE \/ channel_send(t) \/ channel_receive(t)
             \/ channel_non_blocking_send(t) \/ channel_non_blocking_receive(t)
    <2>1. /\ pc[t] \in {"start", "nbwoken"} /\ call[t].kind # "misuse"
          /\ \/ unbuffered_sync(t)
             \/ Refused(t)
             \/ /\ pc' = [pc EXCEPT ![t] = "nbwait"]
                /\ UNCHANGED <<chanVars, call, idx, resultVars>>
      BY <1>3, <1>4 DEF channel_send, channel_receive, channel_non_blocking_send,
         channel_non_blocking_receive, NonBlockingLoop, At, Refused
    <2> QED BY <2>1 DEF Entrant, Entering, Onward, Pending, Still, Shape, chanVars, resultVars
  <1>5. CASE channel_select(t) /\ ~ CheckArguments(t)
    <2>0. pc[t] \in {"register", "scan", "semwait", "cleanup"} /\ call[t].kind # "misuse"
      BY <1>5 DEF channel_select, init_select, TryEntry, SemWait, cleanup_select, OpenFacts
    <2>1. CASE TryEntry(t) /\ unbuffered_sync(t)
      BY <2>0, <2>1 DEF TryEntry, Entrant, Entering
    <2>2. CASE init_select(t)
      BY <2>0, <2>2 DEF init_select, Advance, Onward, Still, Shape, Pending, chanVars, resultVars
    <2>3. CASE TryEntry(t) /\ ~ unbuffered_sync(t)
      <3>1. pc[t] = "scan" /\ Advance(t, "semwait") /\ UNCHANGED <<chanVars, call, resultVars>>
        BY <1>3, <2>3 DEF TryEntry
      <3> QED BY <2>0, <3>1 DEF Advance, Onward, Still, Shape, Pending, chanVars, resultVars
    <2>4. CASE SemWait(t)
      BY <2>0, <2>4 DEF SemWait, Onward, Still, Shape, Pending, chanVars, resultVars
    <2>5. CASE cleanup_select(t)
      BY <2>0, <2>5 DEF cleanup_select, Advance, Onward, Still, Shape, Decided, chanVars, resultVars
    <2> QED BY <1>5, <2>1, <2>2, <2>3, <2>4, <2>5 DEF channel_select
  <1>6. CASE Requeued(t)
    BY <1>6 DEF Requeued, Entrant, Entering, OpenFacts
  <1> QED BY <1>1, <1>2, <1>4, <1>5, <1>6 DEF Step

LEMMA OpenStep ==
  ASSUME ~ SpuriousWakeups, NeverClosing, Shape, StageFacts, OpenFacts, [Next]_vars
  PROVE  OpenFacts'
  <1>1. CASE UNCHANGED vars
    BY <1>1 DEF vars, OpenFacts, Cur
  <1>2. ASSUME NEW t \in Threads, Invoke(t) PROVE OpenFacts'
    <2>1. PICK k \in Program[t] :
            /\ call' = [call EXCEPT ![t] = k]
            /\ pc' = [pc EXCEPT ![t] = CASE k.kind = "select" -> "register"
                                         [] k.kind = "close"  -> "close"
                                         [] OTHER             -> "start"]
      BY <1>2 DEF Invoke
    <2>2. PICK q \in {"register", "start"} : pc' = [pc EXCEPT ![t] = q]
      BY <2>1 DEF NeverClosing
    <2>3. \A s \in Threads \ {t} : Cur(s)' = Cur(s)
      BY <1>2, <2>1 DEF Invoke, Cur, Shape
    <2> QED BY <1>2, <2>1, <2>2, <2>3
            DEF Invoke, OpenFacts, Shape, chanVars, resultVars, Pending, Decided
  <1>3. ASSUME NEW t \in Threads, Return(t) PROVE OpenFacts'
    <2>1. \A s \in Threads \ {t} : Cur(s)' = Cur(s)
      BY <1>3 DEF Return, Cur, Shape
    <2> QED BY <1>3, <2>1 DEF Return, OpenFacts, Shape, chanVars, Decided
  <1>4. ASSUME NEW t \in Threads, Refused(t) \/ CheckArguments(t) PROVE OpenFacts'
    BY <1>4 DEF Refused, CheckArguments, GiveUp, OpenFacts, Shape, Cur, chanVars, Decided
  <1>5. ASSUME NEW t \in Threads, Onward(t) PROVE OpenFacts'
    <2>1. \A s \in Threads \ {t} : Cur(s)' = Cur(s)
      BY <1>5, StillCur DEF Onward
    <2> QED BY <1>5, <2>1 DEF Onward, OpenFacts, Pending, Decided
  <1>6. ASSUME NEW t \in Threads, Finish(t) PROVE OpenFacts'
    <2>1. \A s \in Threads \ {t} : Cur(s)' = Cur(s)
      BY <1>6, SyncShape, StillCur
    <2>2. /\ Cur(t).chan \in Channels /\ Initiating(t, Cur(t).chan)
          /\ \A s \in Threads : pc[s] # "idle" => Cur(s).chan \in Channels
      BY <1>6, CurEntry DEF Finish, Initiating
    <2>3. \A s \in Threads \ {t} : ~ Initiating(s, Cur(t).chan)
      BY <2>2 DEF StageFacts
    <2>4. /\ stage' = [stage EXCEPT ![Cur(t).chan] = 0] /\ UNCHANGED <<closed, call>>
          /\ pc[t] = "completed" /\ pc'[t] \in Decided
          /\ \A s \in Threads \ {t} : pc'[s] = pc[s] \/ (pc[s] = "queued" /\ pc'[s] = "requeued")
          /\ DOMAIN status' = DOMAIN status /\ DOMAIN selIdx' = DOMAIN selIdx
          /\ \A s \in Threads \ {t} : selIdx'[s] = selIdx[s]
      BY <1>6 DEF Finish, On, After, Decided, OpenFacts
    <2>5. \A s \in Threads \ {t} : pc'[s] = "completed" => stage'[Cur(s)'.chan] = 2
      BY <2>1, <2>2, <2>3, <2>4 DEF OpenFacts, Initiating, Shape
    <2> QED BY <2>4, <2>5 DEF OpenFacts, Decided, Sync
  <1>7. ASSUME NEW t \in Threads, Entrant(t), Initiate(t) PROVE OpenFacts'
    <2>1. \A s \in Threads : Cur(s)' = Cur(s)
      BY <1>7 DEF Initiate, Cur
    <2>2. /\ Cur(t).chan \in Channels
          /\ \A s \in Threads : pc[s] # "idle" => Cur(s).chan \in Channels
      BY <1>7, CurEntry DEF Entrant, Entering
    <2>3. \A s \in Threads : ~ Initiating(s, Cur(t).chan)
      BY <1>7, <2>2 DEF StageFacts, Initiate
    <2>4. /\ stage' = [stage EXCEPT ![Cur(t).chan] = 1]
          /\ UNCHANGED <<closed, call, status, selIdx>>
          /\ pc'[t] = "complete"
          /\ \A s \in Threads \ {t} : pc'[s] = pc[s] \/ (pc[s] = "nbwait" /\ pc'[s] = "nbwoken")
      BY <1>7 DEF Initiate, On, resultVars
    <2>5. \A s \in Threads : pc'[s] = "completed" => stage'[Cur(s)'.chan] = 2
      BY <2>1, <2>2, <2>3, <2>4 DEF OpenFacts, Initiating, Shape
    <2> QED BY <1>7, <2>4, <2>5 DEF OpenFacts, Decided, Sync, Entrant, Entering, Pending
  <1>8. ASSUME NEW t \in Threads, Entrant(t), Enqueue(t) PROVE OpenFacts'
    <2>1. \A s \in Threads : Cur(s)' = Cur(s)
      BY <1>8 DEF Enqueue, Cur
    <2> QED BY <1>8, <2>1 DEF Enqueue, OpenFacts, Shape, Decided, Sync, Entrant, Entering, resultVars
  <1>9. ASSUME NEW t \in Threads, Entrant(t), Complete(t) PROVE OpenFacts'
    <2>1. \A s \in Threads \ {t} : Cur(s)' = Cur(s)
      BY <1>9, SyncShape, StillCur DEF unbuffered_sync, Entrant
    <2>2. /\ Cur(t).chan \in Channels
          /\ \A s \in Threads : pc[s] # "idle" => Cur(s).chan \in Channels
      BY <1>9, CurEntry DEF Entrant, Entering
    <2>4. /\ stage' = [stage EXCEPT ![Cur(t).chan] = 2]
          /\ UNCHANGED <<closed, call>>
          /\ pc'[t] \in Decided
          /\ \A s \in Threads \ {t} :
               pc'[s] = IF pc[s] = "complete" /\ Cur(s).chan = Cur(t).chan
                        THEN "completed" ELSE pc[s]
          /\ DOMAIN status' = DOMAIN status /\ DOMAIN selIdx' = DOMAIN selIdx
          /\ \A s \in Threads \ {t} : selIdx'[s] = selIdx[s]
      BY <1>9 DEF Complete, On, After, Decided, OpenFacts
    <2>5. \A s \in Threads \ {t} : pc'[s] = "completed" => stage'[Cur(s)'.chan] = 2
      BY <2>1, <2>2, <2>4 DEF OpenFacts, Shape
    <2> QED BY <1>9, <2>4, <2>5 DEF OpenFacts, Decided, Sync, Entrant, Entering
  <1> QED BY <1>1, <1>2, <1>3, <1>4, <1>5, <1>6, <1>7, <1>8, <1>9, OpenCases
          DEF unbuffered_sync

\* The refinement mapping, thread by thread.
PhaseOf(s) == IF pc[s] = "idle" THEN "idle"
              ELSE IF pc[s] \in Decided \/ Met(s) THEN "done" ELSE "pending"
StatusOf(s) == IF Met(s) THEN "SUCCESS" ELSE status[s]
IndexOf(s) == IF Met(s) /\ InSelect(s) THEN idx[s] ELSE selIdx[s]

\* Thread s looks the same from outside.
SameOutside(s) ==
  PhaseOf(s)' = PhaseOf(s) /\ StatusOf(s)' = StatusOf(s) /\ IndexOf(s)' = IndexOf(s)

LEMMA OutsideStutter ==
  ASSUME \A s \in Threads : SameOutside(s), UNCHANGED <<call, value>>
  PROVE  UNCHANGED Rendezvous!vars
  BY DEF SameOutside, PhaseOf, StatusOf, IndexOf, Rendezvous!vars, Decided

\* A step that leaves stage, entry and results of a thread alone, and keeps it
\* on the same side of its decision, does not show.
LEMMA OutsideSame ==
  ASSUME NEW s \in Threads, status'[s] = status[s], selIdx'[s] = selIdx[s],
         pc'[s] = "idle" <=> pc[s] = "idle", pc'[s] \in Decided <=> pc[s] \in Decided,
         Met(s)' <=> Met(s), Met(s) => idx'[s] = idx[s] /\ call'[s] = call[s]
  PROVE  SameOutside(s)
  BY DEF SameOutside, PhaseOf, StatusOf, IndexOf, InSelect

LEMMA RefineAside ==
  ASSUME Shape, StageFacts, OpenFacts, NEW t \in Threads, Onward(t)
  PROVE  UNCHANGED Rendezvous!vars
  <1>1. \A s \in Threads \ {t} : Cur(s)' = Cur(s)
    BY StillCur DEF Onward
  <1>2. ASSUME NEW s \in Threads PROVE SameOutside(s)
    <2>1. CASE s = t
      BY <2>1, OutsideSame DEF Onward, Met, Pending, Decided
    <2>2. CASE s # t
      <3>1. Met(s)' <=> Met(s)
        BY <1>1, <2>2 DEF Onward, Met
      <3> QED BY <2>2, <3>1, OutsideSame DEF Onward, Still
    <2> QED BY <2>1, <2>2
  <1> QED BY <1>2, OutsideStutter DEF Onward

LEMMA RefineInitiate ==
  ASSUME Shape, StageFacts, OpenFacts, NEW t \in Threads, pc[t] \in Entering,
         Initiate(t) \/ Enqueue(t)
  PROVE  UNCHANGED Rendezvous!vars
  <1>1. /\ \A s \in Threads : Cur(s)' = Cur(s)
        /\ UNCHANGED <<call, idx, status, selIdx, value>>
    BY DEF Initiate, Enqueue, Cur, resultVars
  <1>2. /\ Cur(t).chan \in Channels
        /\ \A s \in Threads : pc[s] # "idle" => Cur(s).chan \in Channels
    BY CurEntry DEF Entering
  <1>3. /\ pc'[t] \in {"complete", "queued"}
        /\ \A s \in Threads \ {t} : pc'[s] = pc[s] \/ (pc[s] = "nbwait" /\ pc'[s] = "nbwoken")
    BY DEF Initiate, Enqueue, Shape, On
  <1>4. \/ UNCHANGED stage /\ pc'[t] = "queued"
        \/ /\ stage[Cur(t).chan] = 0 /\ stage' = [stage EXCEPT ![Cur(t).chan] = 1]
    BY DEF Initiate, Enqueue, Shape
  <1>5. \A s \in Threads : Met(s)' <=> Met(s)
    <2> SUFFICES ASSUME NEW s \in Threads PROVE Met(s)' <=> Met(s)
      OBVIOUS
    <2>1. CASE s = t
      BY <1>1, <1>2, <1>3, <1>4, <2>1 DEF Met, Entering, Shape
    <2>2. CASE s # t
      BY <1>1, <1>2, <1>3, <1>4, <2>2 DEF Met, Shape
    <2> QED BY <2>1, <2>2
  <1>6. \A s \in Threads : SameOutside(s)
    BY <1>1, <1>3, <1>5, OutsideSame DEF Entering, Decided
  <1> QED BY <1>1, <1>6, OutsideStutter

LEMMA RefineFinish ==
  ASSUME Shape, StageFacts, OpenFacts, NEW t \in Threads, Finish(t)
  PROVE  UNCHANGED Rendezvous!vars
  <1>1. \A s \in Threads \ {t} : Cur(s)' = Cur(s) /\ idx'[s] = idx[s]
    BY SyncShape, StillCur DEF Still
  <1>2. /\ Cur(t).chan \in Channels /\ Initiating(t, Cur(t).chan)
        /\ \A s \in Threads : pc[s] # "idle" => Cur(s).chan \in Channels
    BY CurEntry DEF Finish, Initiating
  <1>3. \A s \in Threads \ {t} : ~ Initiating(s, Cur(t).chan)
    BY <1>2 DEF StageFacts
  <1>4. /\ pc[t] = "completed" /\ stage[Cur(t).chan] = 2
        /\ stage' = [stage EXCEPT ![Cur(t).chan] = 0]
        /\ pc'[t] \in Decided
        /\ \A s \in Threads \ {t} : pc'[s] = pc[s] \/ (pc[s] = "queued" /\ pc'[s] = "requeued")
        /\ status' = [status EXCEPT ![t] = "SUCCESS"]
        /\ selIdx' = [selIdx EXCEPT ![t] = IF InSelect(t) THEN idx[t] ELSE 0]
        /\ UNCHANGED <<call, value>>
    BY DEF Finish, On, After, Decided, OpenFacts
  <1>5. SameOutside(t)
    BY <1>4 DEF SameOutside, PhaseOf, StatusOf, IndexOf, Met, Decided, OpenFacts
  <1>6. ASSUME NEW s \in Threads \ {t} PROVE SameOutside(s)
    <2>1. Met(s)' <=> Met(s)
      BY <1>1, <1>2, <1>3, <1>4 DEF Met, Initiating, Shape
    <2>2. status'[s] = status[s] /\ selIdx'[s] = selIdx[s]
      BY <1>4 DEF OpenFacts
    <2> QED BY <1>1, <1>4, <2>1, <2>2, OutsideSame DEF Decided
  <1> QED BY <1>4, <1>5, <1>6, OutsideStutter

\* The instant of the meeting: the partner completes the rendezvous.
LEMMA RefineComplete ==
  ASSUME Shape, StageFacts, OpenFacts, NEW t \in Threads, Entrant(t), Complete(t)
  PROVE  Rendezvous!Next
  <1> USE DEF Entrant
  <1>0. PICK c \in Channels : c = Cur(t).chan
    BY CurEntry DEF Entering
  <1>1. /\ Cur(t).dir \in Dir /\ idx[t] \in 1 .. Len(call[t].entries)
        /\ \A s \in Threads : pc[s] # "idle" => Cur(s).chan \in Channels
    BY CurEntry DEF Entering
  <1>2. /\ stage[c] = 1 /\ active[c] # Cur(t).dir
        /\ stage' = [stage EXCEPT ![c] = 2] /\ UNCHANGED <<active, owner, call>>
        /\ pc'[t] \in Decided
        /\ \A s \in Threads \ {t} :
             pc'[s] = IF pc[s] = "complete" /\ Cur(s).chan = c THEN "completed" ELSE pc[s]
        /\ status' = [status EXCEPT ![t] = "SUCCESS"]
        /\ selIdx' = [selIdx EXCEPT ![t] = IF InSelect(t) THEN idx[t] ELSE 0]
    BY <1>0 DEF Complete, On, After, Decided
  <1>3. \A s \in Threads \ {t} : Cur(s)' = Cur(s) /\ idx'[s] = idx[s]
    BY SyncShape, StillCur DEF unbuffered_sync, Still
  <1>3a. PICK o \in Threads : o = owner[c]
    BY <1>2 DEF StageFacts
  <1>4. /\ Initiating(o, c) /\ o # t
        /\ Cur(o).dir = active[c] /\ Cur(o).dir \in Dir
        /\ idx[o] \in 1 .. Len(call[o].entries)
        /\ \A s \in Threads \ {o} : ~ Initiating(s, c)
    <2>1. Initiating(o, c) /\ \A s \in Threads \ {o} : ~ Initiating(s, c)
      BY <1>3a, <1>2 DEF StageFacts
    <2> QED BY <1>1, <2>1, CurEntry DEF StageFacts, Initiating, Entering
  <1>5. /\ Met(o)' /\ ~ Met(o) /\ ~ Met(t) /\ ~ Met(t)'
        /\ \A s \in Threads \ {t, o} : Met(s)' <=> Met(s)
    <2>1. Met(o)' /\ ~ Met(o) /\ ~ Met(t) /\ ~ Met(t)'
      BY <1>1, <1>2, <1>3, <1>4 DEF Met, Initiating, Entering, Decided, Shape
    <2>2. ASSUME NEW s \in Threads \ {t, o} PROVE Met(s)' <=> Met(s)
      BY <1>1, <1>2, <1>3, <1>4 DEF Met, Initiating, Shape
    <2> QED BY <2>1, <2>2
  <1>6. ASSUME NEW s \in Threads \ {t, o} PROVE SameOutside(s)
    <2>1. status'[s] = status[s] /\ selIdx'[s] = selIdx[s]
      BY <1>2 DEF OpenFacts
    <2> QED BY <1>2, <1>3, <1>5, <2>1, OutsideSame DEF Decided
  <1>7. /\ PhaseOf(t) = "pending" /\ PhaseOf(t)' = "done"
        /\ StatusOf(t)' = "SUCCESS"
        /\ IndexOf(t)' = IF call[t].kind = "select" THEN idx[t] ELSE 0
    BY <1>2, <1>5 DEF PhaseOf, StatusOf, IndexOf, InSelect, Entering, Decided, OpenFacts
  <1>8. /\ PhaseOf(o) = "pending" /\ PhaseOf(o)' = "done"
        /\ StatusOf(o)' = "SUCCESS"
        /\ IndexOf(o)' = IF call[o].kind = "select" THEN idx[o] ELSE 0
    BY <1>2, <1>3, <1>4, <1>5 DEF PhaseOf, StatusOf, IndexOf, InSelect, Initiating,
                                  Decided, OpenFacts, Met
  <1>9. PICK a \in Threads, b \in Threads :
          /\ {a, b} = {t, o} /\ a # b
          /\ Cur(a).dir = "SEND" /\ Cur(b).dir = "RECV"
          /\ value' = [value EXCEPT ![b] = Cur(a).data]
    <2>1. CASE Cur(t).dir = "RECV"
      <3>1. Cur(o).dir = "SEND" /\ value' = [value EXCEPT ![t] = Cur(o).data]
        BY <1>0, <1>3a, <1>2, <1>4, <2>1 DEF Complete, Dir
      <3> QED BY <1>4, <2>1, <3>1
    <2>2. CASE Cur(t).dir = "SEND"
      <3>1. Cur(o).dir = "RECV" /\ value' = [value EXCEPT ![o] = Cur(t).data]
        BY <1>0, <1>3a, <1>2, <1>4, <2>2 DEF Complete, Dir
      <3> QED BY <1>4, <2>2, <3>1
    <2> QED BY <1>1, <2>1, <2>2 DEF Dir
  <1>10. /\ PhaseOf(a) = "pending" /\ PhaseOf(b) = "pending"
         /\ Cur(a).chan = c /\ Cur(b).chan = c
         /\ idx[a] \in 1 .. Len(call[a].entries) /\ idx[b] \in 1 .. Len(call[b].entries)
         /\ call[a].kind # "misuse" /\ call[b].kind # "misuse"
    BY <1>0, <1>1, <1>4, <1>7, <1>8, <1>9 DEF Initiating, OpenFacts
  <1>11. [s \in Threads |-> PhaseOf(s)'] =
           [[s \in Threads |-> PhaseOf(s)] EXCEPT ![a] = "done", ![b] = "done"]
    BY <1>6, <1>7, <1>8, <1>9 DEF SameOutside
  <1>12. [s \in Threads |-> StatusOf(s)'] =
           [[s \in Threads |-> StatusOf(s)] EXCEPT ![a] = "SUCCESS", ![b] = "SUCCESS"]
    BY <1>6, <1>7, <1>8, <1>9 DEF SameOutside
  <1>13. [s \in Threads |-> IndexOf(s)'] =
           [[s \in Threads |-> IndexOf(s)] EXCEPT
              ![a] = IF call[a].kind = "select" THEN idx[a] ELSE 0,
              ![b] = IF call[b].kind = "select" THEN idx[b] ELSE 0]
    BY <1>6, <1>7, <1>8, <1>9 DEF SameOutside
  <1>14. PICK i \in 1 .. Len(call[a].entries), j \in 1 .. Len(call[b].entries) :
           i = idx[a] /\ j = idx[b]
    BY <1>10
  <1>15. Rendezvous!Exchange(a, i, b, j)
    BY <1>2, <1>9, <1>10, <1>11, <1>12, <1>13, <1>14
       DEF Rendezvous!Exchange, Rendezvous!Named, PhaseOf, StatusOf, IndexOf, Cur, Decided
  <1>16. \E s, r \in Threads :
           \E m \in 1 .. Len(call[s].entries), n \in 1 .. Len(call[r].entries) :
             Rendezvous!Exchange(s, m, r, n)
    <2> WITNESS a \in Threads, b \in Threads
    <2> WITNESS i \in 1 .. Len(call[a].entries), j \in 1 .. Len(call[b].entries)
    <2> QED BY <1>15
  <1> QED BY <1>16 DEF Rendezvous!Next

LEMMA RefineInvoke ==
  ASSUME NeverClosing, Shape, OpenFacts, NEW t \in Threads, Invoke(t)
  PROVE  Rendezvous!Next
  <1>1. PICK k \in Program[t] :
          /\ call' = [call EXCEPT ![t] = k]
          /\ pc' = [pc EXCEPT ![t] = CASE k.kind = "select" -> "register"
                                       [] k.kind = "close"  -> "close"
                                       [] OTHER             -> "start"]
    BY DEF Invoke
  <1>2. /\ pc[t] = "idle" /\ pc'[t] \in {"register", "start"}
        /\ UNCHANGED <<stage, idx, status, selIdx, value>>
        /\ \A s \in Threads \ {t} : pc'[s] = pc[s] /\ call'[s] = call[s]
    BY <1>1 DEF Invoke, NeverClosing, Shape, chanVars, resultVars
  <1>3. ~ Met(t) /\ ~ Met(t)'
    BY <1>2 DEF Met
  <1>4. \A s \in Threads \ {t} : SameOutside(s)
    BY <1>2, OutsideSame DEF Met, Cur
  <1>5. [s \in Threads |-> PhaseOf(s)'] = [[s \in Threads |-> PhaseOf(s)] EXCEPT ![t] = "pending"]
    BY <1>2, <1>3, <1>4 DEF SameOutside, PhaseOf, Decided
  <1>6. PhaseOf(t) = "idle" /\ \A s \in Threads : StatusOf(s)' = StatusOf(s) /\ IndexOf(s)' = IndexOf(s)
    BY <1>2, <1>3, <1>4 DEF SameOutside, PhaseOf, StatusOf, IndexOf
  <1>7. Rendezvous!Invoke(t)
    BY <1>1, <1>2, <1>5, <1>6 DEF Rendezvous!Invoke, PhaseOf, StatusOf, IndexOf, Decided
  <1> QED BY <1>7 DEF Rendezvous!Next

LEMMA RefineReturn ==
  ASSUME Shape, OpenFacts, NEW t \in Threads, Return(t)
  PROVE  Rendezvous!Next
  <1>1. /\ pc[t] = "return" /\ pc'[t] = "idle" /\ stage' = stage
        /\ call' = [call EXCEPT ![t] = NoCall] /\ value' = [value EXCEPT ![t] = Junk]
        /\ status'[t] = "none" /\ selIdx'[t] = 0
        /\ \A s \in Threads \ {t} : /\ pc'[s] = pc[s] /\ call'[s] = call[s]
                                     /\ idx'[s] = idx[s] /\ status'[s] = status[s]
                                     /\ selIdx'[s] = selIdx[s]
    BY DEF Return, Shape, OpenFacts, chanVars
  <1>2. ~ Met(t) /\ ~ Met(t)'
    BY <1>1 DEF Met
  <1>3. \A s \in Threads \ {t} : SameOutside(s)
    BY <1>1, OutsideSame DEF Met, Cur
  <1>4. /\ PhaseOf(t) = "done" /\ PhaseOf(t)' = "idle"
        /\ StatusOf(t)' = "none" /\ IndexOf(t)' = 0
    BY <1>1, <1>2 DEF PhaseOf, StatusOf, IndexOf, Decided
  <1>5. /\ [s \in Threads |-> PhaseOf(s)'] = [[s \in Threads |-> PhaseOf(s)] EXCEPT ![t] = "idle"]
        /\ [s \in Threads |-> StatusOf(s)'] = [[s \in Threads |-> StatusOf(s)] EXCEPT ![t] = "none"]
        /\ [s \in Threads |-> IndexOf(s)'] = [[s \in Threads |-> IndexOf(s)] EXCEPT ![t] = 0]
    BY <1>3, <1>4 DEF SameOutside
  <1>6. Rendezvous!Return(t)
    BY <1>1, <1>4, <1>5 DEF Rendezvous!Return, PhaseOf, StatusOf, IndexOf, Decided
  <1> QED BY <1>6 DEF Rendezvous!Next

LEMMA RefineRefused ==
  ASSUME Shape, OpenFacts, NEW t \in Threads, Refused(t)
  PROVE  Rendezvous!Next
  <1>1. /\ pc[t] \in {"start", "nbwoken"} /\ pc'[t] = "return"
        /\ call[t].kind = "nonblocking"
        /\ status'[t] = IF Cur(t).dir = "SEND" THEN "CHANNEL_FULL" ELSE "CHANNEL_EMPTY"
        /\ UNCHANGED <<stage, call, idx, selIdx, value>>
        /\ \A s \in Threads \ {t} : pc'[s] = pc[s] /\ status'[s] = status[s]
    BY DEF Refused, GiveUp, Shape, OpenFacts, chanVars
  <1>2. idx[t] = 1
    <2>1. idx[t] \in 1 .. Len(call[t].entries) /\ call[t] \in Program[t]
      BY <1>1, CurEntry DEF OpenFacts
    <2>2. Len(call[t].entries) = 1
      BY <1>1, <2>1, ProgramAssumption
    <2> QED BY <2>1, <2>2
  <1>3. ~ Met(t) /\ ~ Met(t)'
    BY <1>1 DEF Met
  <1>4. \A s \in Threads \ {t} : SameOutside(s)
    BY <1>1, OutsideSame DEF Met, Cur
  <1>5. /\ PhaseOf(t) = "pending" /\ PhaseOf(t)' = "done" /\ IndexOf(t)' = IndexOf(t)
        /\ StatusOf(t)' = IF call[t].entries[1].dir = "SEND" THEN "CHANNEL_FULL"
                                                             ELSE "CHANNEL_EMPTY"
    BY <1>1, <1>2, <1>3 DEF PhaseOf, StatusOf, IndexOf, Decided, Cur
  <1>6. /\ [s \in Threads |-> PhaseOf(s)'] = [[s \in Threads |-> PhaseOf(s)] EXCEPT ![t] = "done"]
        /\ [s \in Threads |-> StatusOf(s)'] =
             [[s \in Threads |-> StatusOf(s)] EXCEPT
                ![t] = IF call[t].entries[1].dir = "SEND" THEN "CHANNEL_FULL" ELSE "CHANNEL_EMPTY"]
        /\ \A s \in Threads : IndexOf(s)' = IndexOf(s)
    BY <1>4, <1>5 DEF SameOutside
  <1>7. Rendezvous!Refuse(t)
    BY <1>1, <1>5, <1>6 DEF Rendezvous!Refuse, PhaseOf, StatusOf, IndexOf, Decided
  <1> QED BY <1>7 DEF Rendezvous!Next

LEMMA RefineRejected ==
  ASSUME Shape, OpenFacts, NEW t \in Threads, CheckArguments(t)
  PROVE  Rendezvous!Next
  <1>1. /\ pc[t] = "start" /\ pc'[t] = "return" /\ call[t].kind = "misuse"
        /\ status'[t] = "GENERIC_ERROR"
        /\ UNCHANGED <<stage, call, idx, selIdx, value>>
        /\ \A s \in Threads \ {t} : pc'[s] = pc[s] /\ status'[s] = status[s]
    BY DEF CheckArguments, GiveUp, Shape, OpenFacts, chanVars
  <1>2. ~ Met(t) /\ ~ Met(t)'
    BY <1>1 DEF Met
  <1>3. \A s \in Threads \ {t} : SameOutside(s)
    BY <1>1, OutsideSame DEF Met, Cur
  <1>4. /\ PhaseOf(t) = "pending" /\ PhaseOf(t)' = "done" /\ IndexOf(t)' = IndexOf(t)
        /\ StatusOf(t)' = "GENERIC_ERROR"
    BY <1>1, <1>2 DEF PhaseOf, StatusOf, IndexOf, Decided
  <1>5. /\ [s \in Threads |-> PhaseOf(s)'] = [[s \in Threads |-> PhaseOf(s)] EXCEPT ![t] = "done"]
        /\ [s \in Threads |-> StatusOf(s)'] =
             [[s \in Threads |-> StatusOf(s)] EXCEPT ![t] = "GENERIC_ERROR"]
        /\ \A s \in Threads : IndexOf(s)' = IndexOf(s)
    BY <1>3, <1>4 DEF SameOutside
  <1>6. Rendezvous!Reject(t)
    BY <1>1, <1>4, <1>5 DEF Rendezvous!Reject, PhaseOf, StatusOf, IndexOf, Decided
  <1> QED BY <1>6 DEF Rendezvous!Next

\* Without channel_close and without spurious wake-ups, for every program: a
\* SUCCESS of the code is one meeting of a sender with a receiver, at the
\* instant at which stage 2 is set, and the receiver has that sender's value.
THEOREM UnbufferedRefinesRendezvous ==
  ASSUME ~ SpuriousWakeups, NeverClosing
  PROVE  Spec => RefinesRendezvous
  <1>1. Init => Rendezvous!Init
    BY DEF Init, Rendezvous!Init, Met
  <1>2. Init => OpenFacts
    BY DEF Init, OpenFacts, Decided, Pending, Sync
  <1>3. RendezvousInv /\ OpenFacts /\ [Next]_vars => OpenFacts'
    BY OpenStep DEF RendezvousInv
  <1>4. RendezvousInv /\ OpenFacts /\ [Next]_vars => [Rendezvous!Next]_(Rendezvous!vars)
    <2> SUFFICES ASSUME RendezvousInv, OpenFacts, [Next]_vars
                 PROVE  Rendezvous!Next \/ UNCHANGED Rendezvous!vars
      OBVIOUS
    <2>1. CASE UNCHANGED vars
      BY <2>1 DEF vars, Rendezvous!vars, Met, Cur, InSelect
    <2>2. CASE Next
      BY <2>2, OpenCases, RefineInvoke, RefineReturn, RefineRefused, RefineRejected,
         RefineAside, RefineFinish, RefineInitiate, RefineComplete
         DEF unbuffered_sync, RendezvousInv, Entrant
    <2> QED BY <2>1, <2>2
  <1> QED BY <1>1, <1>2, <1>3, <1>4, RendezvousInvariant, PTL
          DEF Spec, RefinesRendezvous, Rendezvous!Spec
=============================================================================
