----------------------- MODULE BufferedChannelProofs -----------------------
(***************************************************************************)
(* Buffered channels, for every number of threads, channels and slots and  *)
(* for every program: no wakeup is lost, a call takes effect in one        *)
(* instant (ChannelSpec), and while it selects it is registered with its   *)
(* channels and posted by them.                                            *)
(***************************************************************************)
EXTENDS BufferedChannel, SequenceTheorems, FiniteSetTheorems, TLAPS

-----------------------------------------------------------------------------
(* The buffers of the channels; the same lemmas as in BufferProofs, where   *)
(* the buffer is the only one.                                             *)

\* buffer_create yields an empty buffer of the capacity it was asked for.
LEMMA CreateBuffer ==
  ASSUME NEW cap \in Nat \ {0}, NEW V, NEW junk \in V
  PROVE  /\ buffer_create(cap, junk) \in BufferType(cap, V)
         /\ Contents(buffer_create(cap, junk)) = <<>>
  <1>1. buffer_create(cap, junk) \in BufferType(cap, V)
    BY DEF buffer_create, BufferType
  <1>2. buffer_create(cap, junk).size = 0
    BY DEF buffer_create
  <1>3. Contents(buffer_create(cap, junk)) = <<>>
    BY <1>2 DEF Contents
  <1> QED BY <1>1, <1>3

\* An index less than the capacity past next wraps at most once.
LEMMA WrapRange ==
  ASSUME NEW cap \in Nat \ {0}, NEW V, NEW b \in BufferType(cap, V),
         NEW k \in 0 .. (cap - 1)
  PROVE  Wrap(b, b.next + k) \in 0 .. (cap - 1)
  BY DEF BufferType, Wrap

\* Contents is the sequence of the live slots.
LEMMA ContentsSeq ==
  ASSUME NEW cap \in Nat \ {0}, NEW V, NEW b \in BufferType(cap, V)
  PROVE  /\ Contents(b) \in Seq(V)
         /\ Len(Contents(b)) = b.size
         /\ \A i \in 1 .. b.size :
              Contents(b)[i] = b.data[Wrap(b, b.next + i - 1)]
  <1>1. b.size \in 0 .. cap
    BY DEF BufferType
  <1>2. ASSUME NEW i \in 1 .. b.size
        PROVE  b.data[Wrap(b, b.next + i - 1)] \in V
    <2>1. i - 1 \in 0 .. cap /\ i - 1 < cap
      BY <1>1
    <2>2. Wrap(b, b.next + (i - 1)) \in 0 .. (cap - 1)
      BY <2>1, WrapRange
    <2>3. b.next + (i - 1) = b.next + i - 1
      BY <1>1 DEF BufferType
    <2> QED BY <2>2, <2>3 DEF BufferType
  <1>3. Contents(b) \in [1 .. b.size -> V]
    BY <1>2 DEF Contents
  <1>4. b.size \in Nat
    BY <1>1
  <1>5. Contents(b) \in Seq(V)
    BY <1>3, <1>4
  <1>6. Len(Contents(b)) = b.size
    BY <1>3, <1>4, <1>5
  <1> QED BY <1>5, <1>6 DEF Contents

\* buffer_add on a buffer with room appends to the contents.
LEMMA AddAppends ==
  ASSUME NEW cap \in Nat \ {0}, NEW V, NEW b \in BufferType(cap, V),
         NEW v \in V, ~ Full(b)
  PROVE  /\ buffer_add(b, v) \in BufferType(cap, V)
         /\ buffer_add(b, v).size = b.size + 1
         /\ Contents(buffer_add(b, v)) = Append(Contents(b), v)
  <1> DEFINE p == Wrap(b, b.next + b.size)
             a == buffer_add(b, v)
  <1>1. /\ b.size \in 0 .. (cap - 1) /\ b.capacity = cap
        /\ b.next \in 0 .. (cap - 1) /\ b.data \in [0 .. (cap - 1) -> V]
    BY DEF BufferType, Full
  <1>2. p \in 0 .. (cap - 1)
    BY <1>1 DEF Wrap
  <1>3. /\ a.data = [b.data EXCEPT ![p] = v] /\ a.size = b.size + 1
        /\ a.next = b.next /\ a.capacity = b.capacity
    BY DEF buffer_add, BufferType
  <1>4. a \in BufferType(cap, V)
    <2>1. [b.data EXCEPT ![p] = v] \in [0 .. (cap - 1) -> V]
      BY <1>1, <1>2
    <2>2. a = [data |-> [b.data EXCEPT ![p] = v], size |-> b.size + 1,
               next |-> b.next, capacity |-> b.capacity]
      BY DEF buffer_add
    <2>3. b.size + 1 \in 0 .. cap
      BY <1>1
    <2> HIDE DEF a, p
    <2> QED BY <1>1, <2>1, <2>2, <2>3 DEF BufferType
  <1>5. /\ Contents(a) \in Seq(V) /\ Len(Contents(a)) = b.size + 1
        /\ \A i \in 1 .. (b.size + 1) :
             Contents(a)[i] = a.data[Wrap(a, a.next + i - 1)]
    BY <1>3, <1>4, ContentsSeq
  <1>6. /\ Contents(b) \in Seq(V) /\ Len(Contents(b)) = b.size
        /\ \A i \in 1 .. b.size :
             Contents(b)[i] = b.data[Wrap(b, b.next + i - 1)]
    BY ContentsSeq
  <1>7. ASSUME NEW i \in 1 .. (b.size + 1)
        PROVE  Contents(a)[i] = Append(Contents(b), v)[i]
    <2>1. Contents(a)[i] = a.data[Wrap(b, b.next + (i - 1))]
      BY <1>1, <1>3, <1>5 DEF Wrap
    <2>2. CASE i = b.size + 1
      BY <1>1, <1>2, <1>3, <1>6, <2>1, <2>2
    <2>3. CASE i # b.size + 1
      <3>1. i \in 1 .. b.size
        BY <1>1, <2>3
      <3>2. Wrap(b, b.next + (i - 1)) # p
        BY <1>1, <3>1 DEF Wrap
      <3>3. Wrap(b, b.next + (i - 1)) \in 0 .. (cap - 1)
        BY <1>1, <3>1 DEF Wrap
      <3>4. a.data[Wrap(b, b.next + (i - 1))] = b.data[Wrap(b, b.next + (i - 1))]
        BY <1>1, <1>3, <3>2, <3>3
      <3>5. b.next + (i - 1) = b.next + i - 1
        BY <1>1
      <3>6. Append(Contents(b), v)[i] = Contents(b)[i]
        BY <1>6, <3>1
      <3> QED BY <1>6, <2>1, <3>1, <3>4, <3>5, <3>6
    <2> QED BY <2>2, <2>3
  <1>8. Append(Contents(b), v) \in Seq(V) /\ Len(Append(Contents(b), v)) = b.size + 1
    BY <1>6, AppendProperties
  <1>9. Contents(a) = Append(Contents(b), v)
    <2> HIDE DEF a, p
    <2> QED BY <1>5, <1>7, <1>8, SeqEqual
  <1> QED BY <1>3, <1>4, <1>9

\* buffer_remove on a buffer with a value hands out the oldest value and
\* drops it from the contents.
LEMMA RemoveTakesHead ==
  ASSUME NEW cap \in Nat \ {0}, NEW V, NEW b \in BufferType(cap, V),
         ~ Empty(b)
  PROVE  /\ buffer_remove(b) \in BufferType(cap, V)
         /\ buffer_remove(b).size = b.size - 1
         /\ Contents(b) # <<>>
         /\ buffer_front(b) = Head(Contents(b))
         /\ buffer_front(b) \in V
         /\ Contents(buffer_remove(b)) = Tail(Contents(b))
  <1> DEFINE a == buffer_remove(b)
  <1>1. /\ b.size \in 1 .. cap /\ b.capacity = cap
        /\ b.next \in 0 .. (cap - 1) /\ b.data \in [0 .. (cap - 1) -> V]
    BY DEF BufferType, Empty
  <1>2. /\ a.data = b.data /\ a.size = b.size - 1
        /\ a.next = Wrap(b, b.next + 1) /\ a.capacity = b.capacity
    BY DEF buffer_remove, BufferType
  <1>3. a \in BufferType(cap, V)
    <2>1. Wrap(b, b.next + 1) \in 0 .. (cap - 1)
      BY <1>1 DEF Wrap
    <2>2. a = [data |-> b.data, size |-> b.size - 1,
               next |-> Wrap(b, b.next + 1), capacity |-> b.capacity]
      BY DEF buffer_remove
    <2>3. b.size - 1 \in 0 .. cap
      BY <1>1
    <2> HIDE DEF a
    <2> QED BY <1>1, <2>1, <2>2, <2>3 DEF BufferType
  <1>4. /\ Contents(a) \in Seq(V) /\ Len(Contents(a)) = b.size - 1
        /\ \A i \in 1 .. (b.size - 1) :
             Contents(a)[i] = a.data[Wrap(a, a.next + i - 1)]
    BY <1>2, <1>3, ContentsSeq
  <1>5. /\ Contents(b) \in Seq(V) /\ Len(Contents(b)) = b.size
        /\ \A i \in 1 .. b.size :
             Contents(b)[i] = b.data[Wrap(b, b.next + i - 1)]
    BY ContentsSeq
  <1>6. Contents(b) # <<>>
    BY <1>1, <1>5
  <1>7. buffer_front(b) = Head(Contents(b)) /\ buffer_front(b) \in V
    BY <1>1, <1>5, <1>6 DEF buffer_front, Wrap
  <1>8. /\ Tail(Contents(b)) \in Seq(V) /\ Len(Tail(Contents(b))) = b.size - 1
        /\ \A i \in 1 .. (b.size - 1) : Tail(Contents(b))[i] = Contents(b)[i + 1]
    BY <1>1, <1>5, <1>6
  <1>9. ASSUME NEW i \in 1 .. (b.size - 1)
        PROVE  Contents(a)[i] = Tail(Contents(b))[i]
    <2>1. Wrap(a, a.next + i - 1) = Wrap(b, b.next + (i + 1) - 1)
      BY <1>1, <1>2 DEF Wrap
    <2>2. i + 1 \in 1 .. b.size
      BY <1>1
    <2> QED BY <1>2, <1>4, <1>5, <1>8, <2>1, <2>2
  <1>10. Contents(a) = Tail(Contents(b))
    <2> HIDE DEF a
    <2> QED BY <1>4, <1>8, <1>9, SeqEqual
  <1> QED BY <1>2, <1>3, <1>6, <1>7, <1>10

-----------------------------------------------------------------------------
V == Data \cup {Junk}

\* The loop index of a call in progress names one of its entries.
Indices ==
  \A t \in Threads :
    /\ pc[t] = "idle" => idx[t] = 1
    /\ pc[t] # "idle" => idx[t] \in 1 .. Len(call[t].entries)

Shape == TypeOK /\ Indices

\* The entry a thread in a call works on is an entry.
LEMMA CurEntry ==
  ASSUME Shape, NEW t \in Threads, pc[t] # "idle"
  PROVE  /\ Cur(t) \in Entry
         /\ Cur(t).chan \in Channels /\ Cur(t).dir \in Dir /\ Cur(t).data \in Data
         /\ idx[t] \in 1 .. Len(call[t].entries)
         /\ call[t] \in Call /\ Len(call[t].entries) \in Nat
  <1>1. call[t] \in Call /\ call[t].entries \in Seq(Entry)
    BY DEF Shape, TypeOK, Call
  <1>2. idx[t] \in 1 .. Len(call[t].entries)
    BY DEF Shape, Indices
  <1>3. Cur(t) \in Entry
    BY <1>1, <1>2 DEF Cur
  <1> QED BY <1>1, <1>2, <1>3 DEF Entry

\* The initial state has the shape.
LEMMA ShapeInit == Init => Shape
  <1> SUFFICES ASSUME Init PROVE Shape
    OBVIOUS
  <1>1. ASSUME NEW c \in Channels
        PROVE  buffer_create(Capacity[c], Junk) \in BufferType(Capacity[c], V)
    BY CreateBuffer, CapacityAssumption DEF V
  <1>2. \A c \in Channels : buffer[c] \in BufferType(Capacity[c], V)
    BY <1>1 DEF Init
  <1>3. buffer \in [Channels -> UNION {BufferType(Capacity[c], V) : c \in Channels}]
    BY <1>2 DEF Init
  <1>4. NoCall \in Call
    BY DEF NoCall, Call
  <1>5. /\ closed \in [Channels -> BOOLEAN]
        /\ selectors \in [Dir -> [Channels -> [Threads -> Nat]]]
        /\ sem \in [Threads -> Nat] /\ pc \in [Threads -> PC]
        /\ idx \in [Threads -> Nat \ {0}] /\ selIdx \in [Threads -> Nat]
        /\ status \in [Threads -> Status] /\ value \in [Threads -> V]
        /\ calls \in [Threads -> 0 .. MaxCalls]
    BY ProgramAssumption DEF Init, PC, Status, V
  <1>6. call \in [Threads -> Call]
    BY <1>4 DEF Init
  <1>7. Indices
    BY DEF Init, Indices
  <1> QED BY <1>2, <1>3, <1>5, <1>6, <1>7 DEF Shape, TypeOK, V

\* A transfer keeps every buffer a buffer of its capacity.
LEMMA TransferBuffer ==
  ASSUME Shape, NEW c \in Channels, NEW b \in BufferType(Capacity[c], V),
         buffer' = [buffer EXCEPT ![c] = b]
  PROVE  /\ buffer' \in [Channels -> UNION {BufferType(Capacity[x], V) : x \in Channels}]
         /\ \A x \in Channels : buffer'[x] \in BufferType(Capacity[x], V)
  <1>1. /\ buffer \in [Channels -> UNION {BufferType(Capacity[x], V) : x \in Channels}]
        /\ \A x \in Channels : buffer[x] \in BufferType(Capacity[x], V)
    BY DEF Shape, TypeOK, V
  <1>2. b \in UNION {BufferType(Capacity[x], V) : x \in Channels}
    OBVIOUS
  <1> QED BY <1>1, <1>2

\* What AddData and RemoveData do to the buffer and to the result.
LEMMA TransferShape ==
  ASSUME Shape, NEW t \in Threads, pc[t] # "idle", AddData(t) \/ RemoveData(t)
  PROVE  Shape'
  <1>1. /\ Cur(t).chan \in Channels /\ Cur(t).data \in Data
        /\ buffer[Cur(t).chan] \in BufferType(Capacity[Cur(t).chan], V)
        /\ Capacity[Cur(t).chan] \in Nat \ {0}
    BY CurEntry, CapacityAssumption DEF Shape, TypeOK, V
  <1>2. /\ buffer' \in [Channels -> UNION {BufferType(Capacity[x], V) : x \in Channels}]
        /\ \A x \in Channels : buffer'[x] \in BufferType(Capacity[x], V)
        /\ value' \in [Threads -> V]
    <2>1. CASE AddData(t)
      <3>1. buffer_add(buffer[Cur(t).chan], Cur(t).data)
              \in BufferType(Capacity[Cur(t).chan], V)
        BY <1>1, <2>1, AddAppends DEF AddData, V
      <3>2. buffer' = [buffer EXCEPT ![Cur(t).chan] =
                         buffer_add(buffer[Cur(t).chan], Cur(t).data)]
        BY <2>1 DEF AddData
      <3> QED BY <1>1, <2>1, <3>1, <3>2, TransferBuffer DEF AddData, Shape, TypeOK, V
    <2>2. CASE RemoveData(t)
      <3>1. /\ buffer_remove(buffer[Cur(t).chan])
                 \in BufferType(Capacity[Cur(t).chan], V)
            /\ buffer_front(buffer[Cur(t).chan]) \in V
        BY <1>1, <2>2, RemoveTakesHead DEF RemoveData
      <3>2. buffer' = [buffer EXCEPT ![Cur(t).chan] =
                         buffer_remove(buffer[Cur(t).chan])]
        BY <2>2 DEF RemoveData
      <3> QED BY <1>1, <2>2, <3>1, <3>2, TransferBuffer DEF RemoveData, Shape, TypeOK, V
    <2> QED BY <2>1, <2>2
  <1>3. /\ pc' = [pc EXCEPT ![t] = "notify"]
        /\ status' = [status EXCEPT ![t] = "SUCCESS"]
        /\ UNCHANGED <<closed, selectors, sem, call, idx, selIdx, calls>>
    BY DEF AddData, RemoveData, selVars
  <1>4. Indices'
    BY <1>3 DEF Shape, Indices, TypeOK
  <1> QED BY <1>2, <1>3, <1>4 DEF Shape, TypeOK, V, PC, Status

\* The steps that only move threads along: they leave the buffers, the results
\* and the arguments alone.
LEMMA MoveShape ==
  ASSUME Shape, NEW t \in Threads, pc[t] # "idle",
         pc' \in [Threads -> PC],
         \A s \in Threads : pc'[s] = "idle" <=> pc[s] = "idle",
         UNCHANGED <<chanVars, call, idx, resultVars, calls>>,
         selectors' \in [Dir -> [Channels -> [Threads -> Nat]]],
         sem' \in [Threads -> Nat]
  PROVE  Shape'
  BY DEF Shape, TypeOK, Indices, chanVars, resultVars

\* A call that gives up keeps the shape.
LEMMA GiveUpShape ==
  ASSUME Shape, NEW t \in Threads, pc[t] # "idle", NEW st \in Status, GiveUp(t, st)
  PROVE  Shape'
  BY DEF GiveUp, Shape, TypeOK, Indices, chanVars, selVars, PC

\* A call that goes to sleep keeps the shape.
LEMMA BlockShape ==
  ASSUME Shape, NEW t \in Threads, pc[t] # "idle", Block(t)
  PROVE  Shape'
  BY DEF Block, Shape, TypeOK, Indices, chanVars, selVars, resultVars, PC

\* Semaphore values stay natural numbers when they are posted.
LEMMA PostType ==
  ASSUME Shape, NEW c \in Channels, NEW d \in Dir, Post(d, c)
  PROVE  sem' \in [Threads -> Nat]
  <1>1. /\ selectors[d][c] \in [Threads -> Nat] /\ sem \in [Threads -> Nat]
    BY DEF Shape, TypeOK
  <1> QED BY <1>1 DEF Post

\* A step of a loop over the entries leaves the index inside the array.
LEMMA AdvanceShape ==
  ASSUME Shape, NEW t \in Threads, pc[t] # "idle",
         NEW out \in PC \ {"idle"}, Advance(t, out)
  PROVE  /\ pc' \in [Threads -> PC] /\ idx' \in [Threads -> Nat \ {0}]
         /\ call' = call => Indices'
  <1>1. idx[t] \in 1 .. Len(call[t].entries) /\ Len(call[t].entries) \in Nat
    BY CurEntry
  <1>2. pc \in [Threads -> PC] /\ idx \in [Threads -> Nat \ {0}] /\ Indices
    BY DEF Shape, TypeOK
  <1>3. /\ pc' = [pc EXCEPT ![t] = IF idx[t] < Len(call[t].entries) THEN pc[t] ELSE out]
        /\ idx' = [idx EXCEPT ![t] = IF idx[t] < Len(call[t].entries)
                                     THEN idx[t] + 1 ELSE 1]
    BY DEF Advance
  <1>4. pc' \in [Threads -> PC] /\ idx' \in [Threads -> Nat \ {0}]
    BY <1>1, <1>2, <1>3
  <1>5. ASSUME call' = call, NEW s \in Threads
        PROVE  /\ pc'[s] = "idle" => idx'[s] = 1
               /\ pc'[s] # "idle" => idx'[s] \in 1 .. Len(call'[s].entries)
    <2>1. CASE s = t
      BY <1>1, <1>2, <1>3, <1>5, <2>1
    <2>2. CASE s # t
      BY <1>2, <1>3, <1>5, <2>2 DEF Indices
    <2> QED BY <2>1, <2>2
  <1> QED BY <1>4, <1>5 DEF Indices

\* One more or one less node of a selector list is still a number of nodes.
LEMMA SelectorsType ==
  ASSUME Shape, NEW c \in Channels, NEW d \in Dir, NEW t \in Threads, NEW n \in Nat
  PROVE  [selectors EXCEPT ![d] = [selectors[d] EXCEPT ![c] =
            [selectors[d][c] EXCEPT ![t] = n]]]
           \in [Dir -> [Channels -> [Threads -> Nat]]]
  <1>1. /\ selectors \in [Dir -> [Channels -> [Threads -> Nat]]]
        /\ selectors[d] \in [Channels -> [Threads -> Nat]]
        /\ selectors[d][c] \in [Threads -> Nat]
    BY DEF Shape, TypeOK
  <1>2. [selectors[d][c] EXCEPT ![t] = n] \in [Threads -> Nat]
    BY <1>1
  <1>3. [selectors[d] EXCEPT ![c] = [selectors[d][c] EXCEPT ![t] = n]]
          \in [Channels -> [Threads -> Nat]]
    BY <1>1, <1>2
  <1> QED BY <1>1, <1>3

\* The result of a select on a closed channel.
LEMMA SelectClosedShape ==
  ASSUME Shape, NEW t \in Threads, pc[t] = "scan",
         status' = [status EXCEPT ![t] = "CLOSED_ERROR"],
         selIdx' = [selIdx EXCEPT ![t] = idx[t]],
         idx' = [idx EXCEPT ![t] = 1],
         pc' = [pc EXCEPT ![t] = "cleanup"],
         UNCHANGED <<chanVars, selVars, call, value, calls>>
  PROVE  Shape'
  <1>1. idx[t] \in 1 .. Len(call[t].entries) /\ Len(call[t].entries) \in Nat
    BY CurEntry
  <1>2. Indices'
    BY <1>1 DEF Shape, Indices, TypeOK
  <1>3. selIdx' \in [Threads -> Nat]
    BY <1>1 DEF Shape, TypeOK
  <1>4. /\ idx' \in [Threads -> Nat \ {0}] /\ pc' \in [Threads -> PC]
        /\ status' \in [Threads -> Status]
    BY DEF Shape, TypeOK, PC, Status
  <1> QED BY <1>2, <1>3, <1>4 DEF Shape, TypeOK, chanVars, selVars

\* Entering and leaving channel.c.
LEMMA InvokeShape ==
  ASSUME Shape, NEW t \in Threads, Invoke(t)
  PROVE  Shape'
  <1>1. PICK k \in Program[t] :
          /\ call' = [call EXCEPT ![t] = k]
          /\ pc' = [pc EXCEPT ![t] = CASE k.kind = "select" -> "register"
                                       [] k.kind = "close"  -> "close"
                                       [] OTHER             -> "start"]
    BY DEF Invoke
  <1>2. k \in Call /\ Len(k.entries) \in Nat \ {0}
    <2>1. k \in Call /\ Len(k.entries) > 0
      BY ProgramAssumption
    <2>2. k.entries \in Seq(Entry)
      BY <2>1 DEF Call
    <2> QED BY <2>1, <2>2
  <1>3. PICK q \in {"register", "close", "start"} : pc' = [pc EXCEPT ![t] = q]
    BY <1>1
  <1>4. pc[t] = "idle" /\ idx[t] = 1
    BY DEF Invoke, Shape, Indices
  <1>5. Indices'
    <2> SUFFICES ASSUME NEW s \in Threads
                 PROVE  /\ pc'[s] = "idle" => idx'[s] = 1
                        /\ pc'[s] # "idle" => idx'[s] \in 1 .. Len(call'[s].entries)
      BY DEF Indices
    <2>1. CASE s = t
      BY <1>1, <1>2, <1>3, <1>4, <2>1 DEF Invoke, Shape, TypeOK
    <2>2. CASE s # t
      BY <1>1, <1>3, <2>2 DEF Invoke, Shape, TypeOK, Indices
    <2> QED BY <2>1, <2>2
  <1>6. /\ call' \in [Threads -> Call] /\ pc' \in [Threads -> PC]
        /\ sem' \in [Threads -> Nat] /\ calls' \in [Threads -> 0 .. MaxCalls]
    BY <1>1, <1>2, <1>3, ProgramAssumption DEF Invoke, Shape, TypeOK, PC
  <1> QED BY <1>5, <1>6 DEF Invoke, Shape, TypeOK, chanVars, resultVars

LEMMA ReturnShape ==
  ASSUME Shape, NEW t \in Threads, Return(t)
  PROVE  Shape'
  <1>1. NoCall \in Call
    BY DEF NoCall, Call
  <1>2. Indices'
    BY DEF Return, Shape, TypeOK, Indices
  <1>3. /\ pc' \in [Threads -> PC] /\ call' \in [Threads -> Call]
        /\ idx' \in [Threads -> Nat \ {0}] /\ selIdx' \in [Threads -> Nat]
        /\ status' \in [Threads -> Status] /\ value' \in [Threads -> Data \cup {Junk}]
        /\ sem' \in [Threads -> Nat]
    BY <1>1 DEF Return, Shape, TypeOK, PC, Status
  <1> QED BY <1>2, <1>3 DEF Return, Shape, TypeOK, chanVars

\* pthread_cond_signal, and the return into channel_select.
LEMMA SignalShape ==
  ASSUME Shape, NEW t \in Threads, Signal(t)
  PROVE  Shape'
  <1>1. idx[t] \in 1 .. Len(call[t].entries) /\ Len(call[t].entries) \in Nat
    BY CurEntry DEF Signal
  <1>2. /\ pc[t] = "signal"
        /\ selIdx' = [selIdx EXCEPT ![t] = IF InSelect(t) THEN idx[t] ELSE 0]
        /\ idx' = [idx EXCEPT ![t] = 1]
        /\ UNCHANGED <<chanVars, selVars, call, status, value, calls>>
    BY DEF Signal
  <1>3. PICK q \in {"cleanup", "return"} :
          \/ pc' = [pc EXCEPT ![t] = q]
          \/ \E w \in Threads : pc[w] = "blocked" /\
                pc' = [pc EXCEPT ![t] = q, ![w] = "woken"]
    BY DEF Signal, Waiting
  <1>4. /\ pc' \in [Threads -> PC]
        /\ \A s \in Threads : pc'[s] = "idle" <=> pc[s] = "idle"
    BY <1>2, <1>3 DEF Shape, TypeOK, PC
  <1>5. Indices'
    BY <1>1, <1>2, <1>4 DEF Shape, TypeOK, Indices
  <1>6. idx' \in [Threads -> Nat \ {0}] /\ selIdx' \in [Threads -> Nat]
    BY <1>1, <1>2 DEF Shape, TypeOK
  <1> QED BY <1>2, <1>4, <1>5, <1>6 DEF Shape, TypeOK, chanVars, selVars

\* The first step of channel_close.
LEMMA SetClosedShape ==
  ASSUME Shape, NEW t \in Threads, SetClosed(t)
  PROVE  Shape'
  <1>1. CASE GiveUp(t, "CLOSED_ERROR")
    BY <1>1, GiveUpShape DEF SetClosed, Status
  <1>2. CASE ~ GiveUp(t, "CLOSED_ERROR")
    <2>1. /\ pc' \in [Threads -> PC] /\ status' \in [Threads -> Status]
          /\ closed' \in [Channels -> BOOLEAN]
          /\ \A s \in Threads : pc'[s] = "idle" <=> pc[s] = "idle"
      BY <1>2 DEF SetClosed, Shape, TypeOK, PC, Status
    <2> QED BY <1>2, <2>1 DEF SetClosed, Shape, TypeOK, Indices, selVars
  <1> QED BY <1>1, <1>2

\* The posts of the operations and of channel_close.
LEMMA NotifyShape ==
  ASSUME Shape, NEW t \in Threads, Notify(t) \/ CloseNotify(t)
  PROVE  Shape'
  <1>1. pc[t] # "idle" /\ Cur(t).chan \in Channels
    BY CurEntry DEF Notify, CloseNotify
  <1>2. sem' \in [Threads -> Nat]
    BY <1>1, PostType DEF Notify, CloseNotify, notify_select_senders,
                          notify_select_receivers, Dir
  <1>3. /\ pc' \in [Threads -> PC]
        /\ \A s \in Threads : pc'[s] = "idle" <=> pc[s] = "idle"
    BY DEF Notify, CloseNotify, Shape, TypeOK, PC
  <1> QED BY <1>1, <1>2, <1>3, MoveShape
          DEF Notify, CloseNotify, Shape, TypeOK

\* The broadcasts of channel_close and spurious wakeups.
LEMMA WakeShape ==
  ASSUME Shape, NEW t \in Threads, CloseBroadcast(t) \/ SpuriousWakeup(t)
  PROVE  Shape'
  <1>1. pc[t] # "idle"
    BY DEF CloseBroadcast, SpuriousWakeup
  <1>2. /\ pc' \in [Threads -> PC]
        /\ \A s \in Threads : pc'[s] = "idle" <=> pc[s] = "idle"
    BY DEF CloseBroadcast, SpuriousWakeup, Broadcast, Waiting, Shape, TypeOK, PC
  <1> QED BY <1>1, <1>2, MoveShape
          DEF CloseBroadcast, SpuriousWakeup, Shape, TypeOK, selVars

\* channel_select.
LEMMA SelectShape ==
  ASSUME Shape, NEW t \in Threads, channel_select(t)
  PROVE  Shape'
  <1>1. pc[t] # "idle" /\ Cur(t).chan \in Channels /\ Cur(t).dir \in Dir
    BY CurEntry DEF channel_select, CheckArguments, init_select, TryEntry, SemWait,
                    cleanup_select
  <1>2. selectors[Cur(t).dir][Cur(t).chan][t] \in Nat
    BY <1>1 DEF Shape, TypeOK
  <1>3. CASE init_select(t)
    <2>1. selectors' \in [Dir -> [Channels -> [Threads -> Nat]]]
      <3> DEFINE d == Cur(t).dir
                 c == Cur(t).chan
                 n == selectors[d][c][t] + 1
      <3>1. selectors' = [selectors EXCEPT ![d] = [selectors[d] EXCEPT ![c] =
                           [selectors[d][c] EXCEPT ![t] = n]]]
        BY <1>3 DEF init_select
      <3>2. n \in Nat /\ d \in Dir /\ c \in Channels
        BY <1>1, <1>2
      <3> HIDE DEF c, d, n
      <3> QED BY <3>1, <3>2, SelectorsType
    <2>2. /\ pc' \in [Threads -> PC] /\ idx' \in [Threads -> Nat \ {0}] /\ Indices'
      BY <1>1, <1>3, AdvanceShape DEF init_select, PC
    <2> QED BY <1>3, <2>1, <2>2 DEF init_select, Shape, TypeOK, chanVars, resultVars
  <1>4. CASE cleanup_select(t)
    <2>1. selectors' \in [Dir -> [Channels -> [Threads -> Nat]]]
      <3> DEFINE d == Cur(t).dir
                 c == Cur(t).chan
                 n == IF selectors[d][c][t] > 0 THEN selectors[d][c][t] - 1 ELSE 0
      <3>1. selectors' = [selectors EXCEPT ![d] = [selectors[d] EXCEPT ![c] =
                           [selectors[d][c] EXCEPT ![t] = n]]]
        BY <1>4 DEF cleanup_select
      <3>2. n \in Nat /\ d \in Dir /\ c \in Channels
        BY <1>1, <1>2
      <3> HIDE DEF c, d, n
      <3> QED BY <3>1, <3>2, SelectorsType
    <2>2. /\ pc' \in [Threads -> PC] /\ idx' \in [Threads -> Nat \ {0}] /\ Indices'
      BY <1>1, <1>4, AdvanceShape DEF cleanup_select, PC
    <2> QED BY <1>4, <2>1, <2>2 DEF cleanup_select, Shape, TypeOK, chanVars, resultVars
  <1>5. CASE SemWait(t)
    <2>1. /\ pc' \in [Threads -> PC] /\ sem' \in [Threads -> Nat]
          /\ \A s \in Threads : pc'[s] = "idle" <=> pc[s] = "idle"
      BY <1>5 DEF SemWait, Shape, TypeOK, PC
    <2> QED BY <1>1, <1>5, <2>1, MoveShape DEF SemWait, Shape, TypeOK
  <1>6. CASE TryEntry(t)
    <2>1. CASE AddData(t) \/ RemoveData(t)
      BY <1>1, <2>1, TransferShape
    <2>2. CASE /\ Advance(t, "semwait")
               /\ UNCHANGED <<chanVars, selVars, call, resultVars, calls>>
      <3>1. /\ pc' \in [Threads -> PC] /\ idx' \in [Threads -> Nat \ {0}] /\ Indices'
        BY <1>1, <2>2, AdvanceShape DEF PC
      <3> QED BY <2>2, <3>1 DEF Shape, TypeOK, chanVars, selVars, resultVars
    <2>3. CASE /\ status' = [status EXCEPT ![t] = "CLOSED_ERROR"]
               /\ selIdx' = [selIdx EXCEPT ![t] = idx[t]]
               /\ idx' = [idx EXCEPT ![t] = 1]
               /\ pc' = [pc EXCEPT ![t] = "cleanup"]
               /\ UNCHANGED <<chanVars, selVars, call, value, calls>>
      BY <1>6, <2>3, SelectClosedShape DEF TryEntry
    <2> QED BY <1>6, <2>1, <2>2, <2>3 DEF TryEntry
  <1>7. CASE CheckArguments(t)
    BY <1>1, <1>7, GiveUpShape DEF CheckArguments, Status
  <1> QED BY <1>3, <1>4, <1>5, <1>6, <1>7 DEF channel_select

\* What a thread does under the mutex of one channel: it moves a value, gives
\* up, or goes to sleep.
LEMMA OperationCases ==
  ASSUME NEW t \in Threads,
         \/ channel_send(t) \/ channel_receive(t)
         \/ channel_non_blocking_send(t) \/ channel_non_blocking_receive(t)
  PROVE  /\ pc[t] \in {"start", "woken"}
         /\ \/ AddData(t) /\ Cur(t).dir = "SEND"
            \/ RemoveData(t) /\ Cur(t).dir = "RECV"
            \/ /\ \E st \in Status : GiveUp(t, st)
               /\ pc[t] = "woken" => ~ Ready(Cur(t).chan, Cur(t).dir)
            \/ /\ Block(t)
               /\ ~ closed[Cur(t).chan] /\ ~ Ready(Cur(t).chan, Cur(t).dir)
  <1>1. CASE channel_send(t)
    BY <1>1 DEF channel_send, SendLoop, At, Status, Ready
  <1>2. CASE channel_receive(t)
    BY <1>2 DEF channel_receive, ReceiveLoop, At, Status, Ready
  <1>3. CASE channel_non_blocking_send(t)
    BY <1>3 DEF channel_non_blocking_send, At, Status
  <1>4. CASE channel_non_blocking_receive(t)
    BY <1>4 DEF channel_non_blocking_receive, At, Status
  <1> QED BY <1>1, <1>2, <1>3, <1>4

\* Every step keeps the shape.
LEMMA ShapeStep == Shape /\ [Next]_vars => Shape'
  <1> SUFFICES ASSUME Shape, [Next]_vars PROVE Shape'
    OBVIOUS
  <1>1. ASSUME NEW t \in Threads,
               \/ channel_send(t) \/ channel_receive(t)
               \/ channel_non_blocking_send(t) \/ channel_non_blocking_receive(t)
        PROVE  Shape'
    <2>1. pc[t] # "idle"
      BY <1>1, OperationCases
    <2> QED BY <1>1, <2>1, OperationCases, TransferShape, GiveUpShape, BlockShape
  <1>2. CASE UNCHANGED vars
    BY <1>2 DEF vars, Shape, TypeOK, Indices
  <1> QED BY <1>1, <1>2, InvokeShape, ReturnShape, SignalShape, SetClosedShape,
             NotifyShape, WakeShape, SelectShape DEF Next, Step, channel_close

\* Every variable of channel.c keeps its type: in particular the buffers keep
\* their capacity, and a channel_select never leaves its array of entries.
THEOREM ChannelTypeCorrect == Spec => []TypeOK
  <1>1. Spec => []Shape
    BY ShapeInit, ShapeStep, PTL DEF Spec
  <1>2. Shape => TypeOK
    BY DEF Shape
  <1> QED BY <1>1, <1>2, PTL

-----------------------------------------------------------------------------
(* No lost wakeup.  The invariant is inductive relative to Shape: the proof *)
(* follows the sets Waiting, Retrying and Signalling through every step.   *)

Wakeup(c, d) ==
  Waiting(c, d) # {} =>
    Room(c, d) <= Cardinality(Retrying(c, d)) + Cardinality(Signalling(c, d))

\* The three sets are finite and Room counts slots or values.
LEMMA WakeupTypes ==
  ASSUME Shape, NEW c \in Channels, NEW d \in Dir
  PROVE  /\ IsFiniteSet(Retrying(c, d)) /\ IsFiniteSet(Signalling(c, d))
         /\ Cardinality(Retrying(c, d)) \in Nat
         /\ Cardinality(Signalling(c, d)) \in Nat
         /\ Room(c, d) \in 0 .. Capacity[c]
         /\ ~ Ready(c, d) => Room(c, d) = 0
  <1>1. IsFiniteSet(Retrying(c, d)) /\ IsFiniteSet(Signalling(c, d))
    BY ProgramAssumption, FS_Subset DEF Retrying, Signalling
  <1>2. /\ buffer[c].size \in 0 .. Capacity[c] /\ buffer[c].capacity = Capacity[c]
        /\ Capacity[c] \in Nat
    BY CapacityAssumption DEF Shape, TypeOK, BufferType
  <1> QED BY <1>1, <1>2, FS_CardinalityType DEF Room, Ready, Full, Empty

\* A step that leaves the room and the three sets of c and d alone.
LEMMA WakeupSame ==
  ASSUME NEW c \in Channels, NEW d \in Dir, Wakeup(c, d),
         Waiting(c, d)' = Waiting(c, d), Retrying(c, d)' = Retrying(c, d),
         Signalling(c, d)' = Signalling(c, d), Room(c, d)' = Room(c, d)
  PROVE  Wakeup(c, d)'
  BY DEF Wakeup

\* A thread outside the sets moves to another point outside them.
LEMMA WakeupAside ==
  ASSUME Shape, NEW c \in Channels, NEW d \in Dir, Wakeup(c, d),
         NEW t \in Threads,
         pc[t] \notin {"blocked", "woken", "notify", "signal"},
         pc'[t] \notin {"blocked", "woken", "notify", "signal"},
         \A s \in Threads \ {t} : pc'[s] = pc[s] /\ call'[s] = call[s] /\ idx'[s] = idx[s],
         buffer' = buffer
  PROVE  Wakeup(c, d)'
  <1>1. Waiting(c, d)' = Waiting(c, d)
    BY DEF Waiting, Cur
  <1>2. Retrying(c, d)' = Retrying(c, d)
    BY DEF Retrying, Cur
  <1>3. Signalling(c, d)' = Signalling(c, d)
    BY DEF Signalling, Cur
  <1> QED BY <1>1, <1>2, <1>3, WakeupSame DEF Room

\* A value moves: one more thread owes a signal to the other side.
LEMMA WakeupTransfer ==
  ASSUME Shape, NEW c \in Channels, NEW d \in Dir, Wakeup(c, d),
         NEW t \in Threads, pc[t] \notin {"idle", "blocked", "notify", "signal"},
         \/ AddData(t) /\ Cur(t).dir = "SEND"
         \/ RemoveData(t) /\ Cur(t).dir = "RECV"
  PROVE  Wakeup(c, d)'
  <1>1. /\ pc' = [pc EXCEPT ![t] = "notify"] /\ call' = call /\ idx' = idx
        /\ pc \in [Threads -> PC]
    BY DEF AddData, RemoveData, Shape, TypeOK
  <1>2. Waiting(c, d)' = Waiting(c, d)
    BY <1>1 DEF Waiting, Cur
  <1>3. Retrying(c, d)' = Retrying(c, d) \ {t}
    BY <1>1 DEF Retrying, Cur
  <1>4. Signalling(c, d)' =
          IF Cur(t).chan = c /\ Cur(t).dir = Opposite(d)
          THEN Signalling(c, d) \cup {t} ELSE Signalling(c, d)
    BY <1>1 DEF Signalling, Cur
  <1>5. t \notin Signalling(c, d)
    BY DEF Signalling
  <1>6. /\ Cur(t).chan \in Channels /\ Cur(t).data \in V
        /\ \A x \in Channels : /\ buffer[x] \in BufferType(Capacity[x], V)
                               /\ buffer[x].size \in 0 .. Capacity[x]
                               /\ Capacity[x] \in Nat \ {0}
        /\ buffer \in [Channels -> UNION {BufferType(Capacity[x], V) : x \in Channels}]
    BY CurEntry, CapacityAssumption DEF Shape, TypeOK, V, BufferType
  <1>7. Room(c, d)' =
          IF Cur(t).chan # c THEN Room(c, d)
          ELSE IF Cur(t).dir = d THEN Room(c, d) - 1 ELSE Room(c, d) + 1
    <2>1. CASE AddData(t) /\ Cur(t).dir = "SEND"
      <3>1. buffer_add(buffer[Cur(t).chan], Cur(t).data).size
              = buffer[Cur(t).chan].size + 1
        BY DEF buffer_add
      <3>2. buffer' = [buffer EXCEPT ![Cur(t).chan] =
                         buffer_add(buffer[Cur(t).chan], Cur(t).data)]
        BY <2>1 DEF AddData
      <3> QED BY <1>6, <2>1, <3>1, <3>2 DEF Room, Dir
    <2>2. CASE RemoveData(t) /\ Cur(t).dir = "RECV"
      <3>1. buffer_remove(buffer[Cur(t).chan]).size
              = buffer[Cur(t).chan].size - 1
        BY DEF buffer_remove
      <3>2. buffer' = [buffer EXCEPT ![Cur(t).chan] =
                         buffer_remove(buffer[Cur(t).chan])]
        BY <2>2 DEF RemoveData
      <3> QED BY <1>6, <2>2, <3>1, <3>2 DEF Room, Dir
    <2> QED BY <2>1, <2>2
  <1>8. /\ Cardinality(Retrying(c, d) \ {t}) =
             IF t \in Retrying(c, d) THEN Cardinality(Retrying(c, d)) - 1
                                     ELSE Cardinality(Retrying(c, d))
        /\ Cardinality(Signalling(c, d) \cup {t}) = Cardinality(Signalling(c, d)) + 1
    BY <1>5, WakeupTypes, FS_AddElement, FS_RemoveElement
  <1>9. t \in Retrying(c, d) => Cur(t).chan = c /\ Cur(t).dir = d
    BY DEF Retrying
  <1>10. Cur(t).dir = d \/ Cur(t).dir = Opposite(d)
    BY DEF Dir, Opposite
  <1>11. Opposite(d) # d
    BY DEF Dir, Opposite
  <1> QED BY <1>2, <1>3, <1>4, <1>7, <1>8, <1>9, <1>10, <1>11, WakeupTypes DEF Wakeup

\* A woken thread finds nothing to do: it goes away or back to sleep.
LEMMA WakeupNothing ==
  ASSUME Shape, NEW c \in Channels, NEW d \in Dir, Wakeup(c, d),
         NEW t \in Threads, pc[t] \in {"start", "woken"},
         \/ /\ \E st \in Status : GiveUp(t, st)
            /\ pc[t] = "woken" => ~ Ready(Cur(t).chan, Cur(t).dir)
         \/ Block(t) /\ ~ Ready(Cur(t).chan, Cur(t).dir)
  PROVE  Wakeup(c, d)'
  <1>1. PICK q \in {"return", "blocked"} :
          /\ pc' = [pc EXCEPT ![t] = q] /\ call' = call /\ idx' = idx
          /\ buffer' = buffer
          /\ pc[t] = "woken" \/ q = "blocked" => ~ Ready(Cur(t).chan, Cur(t).dir)
    BY DEF GiveUp, Block, chanVars
  <1>2. pc \in [Threads -> PC]
    BY DEF Shape, TypeOK
  <1>3. Room(c, d)' = Room(c, d)
    BY <1>1 DEF Room
  <1>4. Signalling(c, d)' = Signalling(c, d)
    BY <1>1, <1>2 DEF Signalling, Cur
  <1>5. CASE Cur(t).chan = c /\ Cur(t).dir = d /\ ~ Ready(c, d)
    <2>1. Room(c, d)' = 0
      BY <1>3, <1>5, WakeupTypes
    <2>2. Retrying(c, d)' = Retrying(c, d) \ {t}
      BY <1>1, <1>2 DEF Retrying, Cur
    <2>3. Cardinality(Retrying(c, d)') \in Nat /\ Cardinality(Signalling(c, d)') \in Nat
      BY <1>4, <2>2, WakeupTypes, FS_RemoveElement, FS_CardinalityType
    <2> QED BY <2>1, <2>3 DEF Wakeup
  <1>6. CASE ~ (Cur(t).chan = c /\ Cur(t).dir = d /\ ~ Ready(c, d))
    <2>1. Waiting(c, d)' = Waiting(c, d)
      BY <1>1, <1>2, <1>6 DEF Waiting, Cur
    <2>2. Retrying(c, d)' = Retrying(c, d)
      BY <1>1, <1>2, <1>6 DEF Retrying, Cur
    <2> QED BY <1>3, <1>4, <2>1, <2>2, WakeupSame
  <1> QED BY <1>5, <1>6

\* pthread_cond_signal: one owed signal less, one thread awake more.
LEMMA WakeupSignal ==
  ASSUME Shape, NEW c \in Channels, NEW d \in Dir, Wakeup(c, d),
         NEW t \in Threads, Signal(t)
  PROVE  Wakeup(c, d)'
  <1> DEFINE served == Cur(t).chan = c /\ Cur(t).dir = Opposite(d)
  <1>1. /\ pc[t] = "signal" /\ pc \in [Threads -> PC] /\ call' = call
        /\ idx \in [Threads -> Nat \ {0}] /\ idx' = [idx EXCEPT ![t] = 1]
        /\ buffer' = buffer
    BY DEF Signal, Shape, TypeOK, chanVars
  <1>2. Room(c, d)' = Room(c, d)
    BY <1>1 DEF Room
  <1>3. Cur(t).dir \in Dir /\ Cur(t).chan \in Channels
    BY <1>1, CurEntry
  <1>4. served <=> Cur(t).chan = c /\ Opposite(Cur(t).dir) = d
    BY <1>3 DEF Opposite, Dir
  <1>5. t \in Signalling(c, d) <=> served
    BY <1>1 DEF Signalling
  <1>6. Cardinality(Signalling(c, d) \ {t}) =
          IF served THEN Cardinality(Signalling(c, d)) - 1
                    ELSE Cardinality(Signalling(c, d))
    BY <1>5, WakeupTypes, FS_RemoveElement
  <1>7. PICK q \in {"cleanup", "return"} :
          \/ /\ Waiting(Cur(t).chan, Opposite(Cur(t).dir)) = {}
             /\ pc' = [pc EXCEPT ![t] = q]
          \/ \E w \in Waiting(Cur(t).chan, Opposite(Cur(t).dir)) :
               pc' = [pc EXCEPT ![t] = q, ![w] = "woken"]
    BY DEF Signal
  <1>8. CASE /\ Waiting(Cur(t).chan, Opposite(Cur(t).dir)) = {}
             /\ pc' = [pc EXCEPT ![t] = q]
    <2>1. Waiting(c, d)' = Waiting(c, d)
      BY <1>1, <1>8 DEF Waiting, Cur
    <2>2. Retrying(c, d)' = Retrying(c, d)
      BY <1>1, <1>8 DEF Retrying, Cur
    <2>3. Signalling(c, d)' = Signalling(c, d) \ {t}
      BY <1>1, <1>8 DEF Signalling, Cur
    <2>4. served => Waiting(c, d) = {}
      BY <1>4, <1>8
    <2> QED BY <1>2, <1>6, <2>1, <2>2, <2>3, <2>4 DEF Wakeup
  <1>9. ASSUME NEW w \in Waiting(Cur(t).chan, Opposite(Cur(t).dir)),
               pc' = [pc EXCEPT ![t] = q, ![w] = "woken"]
        PROVE  Wakeup(c, d)'
    <2>1. /\ w \in Threads /\ pc[w] = "blocked" /\ w # t
          /\ Cur(w).chan = Cur(t).chan /\ Cur(w).dir = Opposite(Cur(t).dir)
      BY <1>1 DEF Waiting
    <2>2. served <=> Cur(w).chan = c /\ Cur(w).dir = d
      BY <1>4, <2>1
    <2>3. Waiting(c, d)' = Waiting(c, d) \ {w}
      BY <1>1, <1>9, <2>1 DEF Waiting, Cur
    <2>4. Retrying(c, d)' = IF served THEN Retrying(c, d) \cup {w} ELSE Retrying(c, d)
      BY <1>1, <1>9, <2>1, <2>2 DEF Retrying, Cur
    <2>5. Signalling(c, d)' = Signalling(c, d) \ {t}
      BY <1>1, <1>9, <2>1 DEF Signalling, Cur
    <2>6. w \notin Retrying(c, d)
      BY <2>1 DEF Retrying
    <2>7. Cardinality(Retrying(c, d) \cup {w}) = Cardinality(Retrying(c, d)) + 1
      BY <2>6, WakeupTypes, FS_AddElement
    <2> QED BY <1>2, <1>6, <2>3, <2>4, <2>5, <2>7, WakeupTypes DEF Wakeup
  <1> QED BY <1>7, <1>8, <1>9

\* A spurious wakeup makes one thread awake more.
LEMMA WakeupSpurious ==
  ASSUME Shape, NEW c \in Channels, NEW d \in Dir, Wakeup(c, d),
         NEW t \in Threads, SpuriousWakeup(t)
  PROVE  Wakeup(c, d)'
  <1>1. /\ pc[t] = "blocked" /\ pc \in [Threads -> PC] /\ call' = call /\ idx' = idx
        /\ pc' = [pc EXCEPT ![t] = "woken"] /\ buffer' = buffer
    BY DEF SpuriousWakeup, Shape, TypeOK, chanVars
  <1>2. Room(c, d)' = Room(c, d)
    BY <1>1 DEF Room
  <1>3. Waiting(c, d)' = Waiting(c, d) \ {t}
    BY <1>1 DEF Waiting, Cur
  <1>4. Retrying(c, d)' = IF t \in Waiting(c, d) THEN Retrying(c, d) \cup {t}
                                                 ELSE Retrying(c, d)
    BY <1>1 DEF Waiting, Retrying, Cur
  <1>5. Signalling(c, d)' = Signalling(c, d)
    BY <1>1 DEF Signalling, Cur
  <1>6. t \notin Retrying(c, d)
    BY <1>1 DEF Retrying
  <1>7. Cardinality(Retrying(c, d) \cup {t}) = Cardinality(Retrying(c, d)) + 1
    BY <1>6, WakeupTypes, FS_AddElement
  <1> QED BY <1>2, <1>3, <1>4, <1>5, <1>7, WakeupTypes DEF Wakeup

\* A broadcast leaves nobody asleep on its condition variable, and does not
\* concern the others.
LEMMA WakeupBroadcast ==
  ASSUME Shape, NEW c \in Channels, NEW d \in Dir, Wakeup(c, d),
         NEW t \in Threads, CloseBroadcast(t)
  PROVE  Wakeup(c, d)'
  <1>1. /\ call' = call /\ idx' = idx /\ buffer' = buffer
        /\ pc[t] \in {"closeNotEmpty", "closeNotFull"}
    BY DEF CloseBroadcast, chanVars
  <1>2. PICK e \in Dir, q \in {"closeNotFull", "return"} :
          pc' = [s \in Threads |->
                   IF s = t THEN q
                   ELSE IF s \in Waiting(Cur(t).chan, e) THEN "woken" ELSE pc[s]]
    BY DEF CloseBroadcast, Broadcast, Dir
  <1>3. CASE Cur(t).chan = c /\ e = d
    <2>1. Waiting(c, d)' = {}
      BY <1>1, <1>2, <1>3 DEF Waiting, Cur
    <2> QED BY <2>1 DEF Wakeup
  <1>4. CASE ~ (Cur(t).chan = c /\ e = d)
    <2>1. Waiting(c, d)' = Waiting(c, d)
      BY <1>1, <1>2, <1>4 DEF Waiting, Cur
    <2>2. Retrying(c, d)' = Retrying(c, d)
      BY <1>1, <1>2, <1>4 DEF Waiting, Retrying, Cur
    <2>3. Signalling(c, d)' = Signalling(c, d)
      BY <1>1, <1>2, <1>4 DEF Waiting, Signalling, Cur
    <2> QED BY <1>1, <2>1, <2>2, <2>3, WakeupSame DEF Room
  <1> QED BY <1>3, <1>4

\* The posts to the selectors do not concern the sleepers.
LEMMA WakeupNotify ==
  ASSUME Shape, NEW c \in Channels, NEW d \in Dir, Wakeup(c, d),
         NEW t \in Threads, Notify(t)
  PROVE  Wakeup(c, d)'
  <1>1. /\ pc[t] = "notify" /\ pc \in [Threads -> PC] /\ call' = call /\ idx' = idx
        /\ pc' = [pc EXCEPT ![t] = "signal"] /\ buffer' = buffer
    BY DEF Notify, Shape, TypeOK, chanVars
  <1>2. Waiting(c, d)' = Waiting(c, d)
    BY <1>1 DEF Waiting, Cur
  <1>3. Retrying(c, d)' = Retrying(c, d)
    BY <1>1 DEF Retrying, Cur
  <1>4. Signalling(c, d)' = Signalling(c, d)
    BY <1>1 DEF Signalling, Cur
  <1> QED BY <1>1, <1>2, <1>3, <1>4, WakeupSame DEF Room

\* The steps of threads that neither sleep nor wake anybody.
LEMMA WakeupOther ==
  ASSUME Shape, NEW c \in Channels, NEW d \in Dir, Wakeup(c, d), NEW t \in Threads,
         \/ Invoke(t) \/ Return(t) \/ SetClosed(t) \/ CloseNotify(t)
         \/ /\ channel_select(t)
            /\ ~ (AddData(t) /\ Cur(t).dir = "SEND")
            /\ ~ (RemoveData(t) /\ Cur(t).dir = "RECV")
  PROVE  Wakeup(c, d)'
  <1>1. /\ pc \in [Threads -> PC] /\ call \in [Threads -> Call]
        /\ idx \in [Threads -> Nat \ {0}]
    BY DEF Shape, TypeOK
  <1>2. CASE Invoke(t)
    BY <1>1, <1>2, WakeupAside DEF Invoke, chanVars
  <1>3. CASE Return(t)
    BY <1>1, <1>3, WakeupAside DEF Return, chanVars
  <1>4. CASE SetClosed(t)
    BY <1>1, <1>4, WakeupAside DEF SetClosed, GiveUp, chanVars
  <1>5. CASE CloseNotify(t)
    BY <1>1, <1>5, WakeupAside DEF CloseNotify, chanVars
  <1>6. CASE init_select(t)
    BY <1>1, <1>6, WakeupAside DEF init_select, Advance, chanVars
  <1>7. CASE SemWait(t)
    BY <1>1, <1>7, WakeupAside DEF SemWait, chanVars
  <1>8. CASE cleanup_select(t)
    BY <1>1, <1>8, WakeupAside DEF cleanup_select, Advance, chanVars
  <1>9. CASE /\ TryEntry(t)
             /\ ~ (AddData(t) /\ Cur(t).dir = "SEND")
             /\ ~ (RemoveData(t) /\ Cur(t).dir = "RECV")
    BY <1>1, <1>9, WakeupAside DEF TryEntry, Advance, chanVars
  <1>10. CASE CheckArguments(t)
    BY <1>1, <1>10, WakeupAside DEF CheckArguments, GiveUp, chanVars
  <1> QED BY <1>2, <1>3, <1>4, <1>5, <1>6, <1>7, <1>8, <1>9, <1>10 DEF channel_select

\* channel.c loses no wakeup, for any number of threads and slots: sending the
\* signal after the mutex was released, once per transfer, is enough.
THEOREM ChannelNoLostWakeup == Spec => []NoLostWakeup
  <1>1. Init => NoLostWakeup
    BY DEF Init, NoLostWakeup, Waiting
  <1>2. Shape /\ NoLostWakeup /\ [Next]_vars => NoLostWakeup'
    <2> SUFFICES ASSUME Shape, NoLostWakeup, [Next]_vars,
                        NEW c \in Channels, NEW d \in Dir
                 PROVE  Wakeup(c, d)'
      BY DEF NoLostWakeup, Wakeup
    <2>0. Wakeup(c, d)
      BY DEF NoLostWakeup, Wakeup
    <2>1. ASSUME NEW t \in Threads,
                 \/ channel_send(t) \/ channel_receive(t)
                 \/ channel_non_blocking_send(t) \/ channel_non_blocking_receive(t)
          PROVE  Wakeup(c, d)'
      BY <2>0, <2>1, OperationCases, WakeupTransfer, WakeupNothing
    <2>2. ASSUME NEW t \in Threads, channel_select(t) PROVE Wakeup(c, d)'
      <3>1. pc[t] \in {"start", "register", "scan", "semwait", "cleanup"}
        BY <2>2 DEF channel_select, CheckArguments, init_select, TryEntry, SemWait,
                    cleanup_select
      <3>2. CASE \/ AddData(t) /\ Cur(t).dir = "SEND"
                 \/ RemoveData(t) /\ Cur(t).dir = "RECV"
        BY <2>0, <3>1, <3>2, WakeupTransfer
      <3> QED BY <2>0, <2>2, <3>2, WakeupOther
    <2>3. CASE UNCHANGED vars
      BY <2>0, <2>3 DEF vars, Wakeup, Waiting, Retrying, Signalling, Room, Cur
    <2> QED BY <2>0, <2>1, <2>2, <2>3, WakeupOther, WakeupNotify, WakeupSignal,
               WakeupSpurious, WakeupBroadcast DEF Next, Step, channel_close
  <1> QED BY <1>1, <1>2, ShapeInit, ShapeStep, PTL DEF Spec

-----------------------------------------------------------------------------
(* channel_close and the sleepers.                                         *)

Reached(c, d) ==
  closed[c] /\ Waiting(c, d) # {} => \E t \in Threads : ClosingFor(t, c, d)

\* A step that closes nothing, puts nobody to sleep on a closed channel and
\* leaves every thread that is closing where it is.
LEMMA ReachedAside ==
  ASSUME Shape, NEW c \in Channels, NEW d \in Dir, Reached(c, d),
         NEW t \in Threads, closed'[c] = closed[c],
         pc[t] \notin {"closeRecvSel", "closeSendSel", "closeNotEmpty", "closeNotFull"},
         pc'[t] # "blocked" \/ ~ closed[c] \/ Cur(t)'.chan # c,
         \A s \in Threads \ {t} :
           /\ pc'[s] = pc[s] \/ (pc[s] = "blocked" /\ pc'[s] = "woken")
           /\ call'[s] = call[s] /\ idx'[s] = idx[s]
  PROVE  Reached(c, d)'
  <1>1. closed'[c] => Waiting(c, d)' \subseteq Waiting(c, d)
    BY DEF Waiting, Cur
  <1>2. ASSUME NEW s \in Threads, ClosingFor(s, c, d) PROVE ClosingFor(s, c, d)'
    <2>1. s # t /\ pc'[s] = pc[s]
      BY <1>2 DEF ClosingFor
    <2> QED BY <1>2, <2>1 DEF ClosingFor, Cur
  <1> QED BY <1>1, <1>2 DEF Reached

\* The steps of an operation on one channel.
LEMMA ReachedOperation ==
  ASSUME Shape, NEW c \in Channels, NEW d \in Dir, Reached(c, d), NEW t \in Threads,
         \/ channel_send(t) \/ channel_receive(t)
         \/ channel_non_blocking_send(t) \/ channel_non_blocking_receive(t)
  PROVE  Reached(c, d)'
  <1>1. pc[t] \in {"start", "woken"} /\ pc \in [Threads -> PC]
    BY OperationCases DEF Shape, TypeOK
  <1>2. PICK q \in {"notify", "return", "blocked"} :
          /\ pc' = [pc EXCEPT ![t] = q] /\ call' = call /\ idx' = idx
          /\ closed' = closed
          /\ q = "blocked" => ~ closed[Cur(t).chan]
    BY OperationCases DEF AddData, RemoveData, GiveUp, Block, chanVars
  <1>3. Cur(t)' = Cur(t)
    BY <1>2 DEF Cur
  <1>4. /\ pc'[t] = q
        /\ \A s \in Threads \ {t} : /\ pc'[s] = pc[s]
                                    /\ call'[s] = call[s] /\ idx'[s] = idx[s]
    BY <1>1, <1>2
  <1> QED BY <1>1, <1>2, <1>3, <1>4, ReachedAside

\* The steps of channel_close.
LEMMA ReachedClose ==
  ASSUME Shape, NEW c \in Channels, NEW d \in Dir, Reached(c, d),
         NEW t \in Threads, channel_close(t)
  PROVE  Reached(c, d)'
  <1>1. pc \in [Threads -> PC] /\ closed \in [Channels -> BOOLEAN]
    BY DEF Shape, TypeOK
  <1>2. call' = call /\ idx' = idx
    BY DEF channel_close, SetClosed, GiveUp, CloseNotify, CloseBroadcast
  <1>3. CASE SetClosed(t)
    <2>1. CASE GiveUp(t, "CLOSED_ERROR")
      BY <1>1, <1>2, <1>3, <2>1, ReachedAside DEF SetClosed, GiveUp, chanVars
    <2>2. CASE ~ GiveUp(t, "CLOSED_ERROR") /\ Cur(t).chan = c
      <3>1. ClosingFor(t, c, d)'
        BY <1>1, <1>2, <1>3, <2>2 DEF SetClosed, ClosingFor, Cur
      <3> QED BY <3>1 DEF Reached
    <2>3. CASE ~ GiveUp(t, "CLOSED_ERROR") /\ Cur(t).chan # c
      <3>1. closed'[c] = closed[c]
        BY <1>1, <1>3, <2>3 DEF SetClosed
      <3>2. /\ pc[t] = "close" /\ pc' = [pc EXCEPT ![t] = "closeRecvSel"]
        BY <1>3, <2>3 DEF SetClosed
      <3> QED BY <1>1, <1>2, <3>1, <3>2, ReachedAside
    <2> QED BY <2>1, <2>2, <2>3
  <1>4. CASE CloseNotify(t)
    <2>1. PICK q \in {"closeSendSel", "closeNotEmpty"} :
            /\ pc' = [pc EXCEPT ![t] = q] /\ closed' = closed
            /\ pc[t] \in {"closeRecvSel", "closeSendSel"}
      BY <1>4 DEF CloseNotify, chanVars
    <2>2. Waiting(c, d)' = Waiting(c, d)
      BY <1>1, <1>2, <2>1 DEF Waiting, Cur
    <2>3. ASSUME NEW s \in Threads, ClosingFor(s, c, d) PROVE ClosingFor(s, c, d)'
      BY <1>1, <1>2, <2>1, <2>3 DEF ClosingFor, Cur
    <2> QED BY <2>1, <2>2, <2>3 DEF Reached
  <1>5. CASE CloseBroadcast(t)
    <2>1. PICK e \in Dir, q \in {"closeNotFull", "return"} :
            /\ pc' = [s \in Threads |->
                       IF s = t THEN q
                       ELSE IF s \in Waiting(Cur(t).chan, e) THEN "woken" ELSE pc[s]]
            /\ \/ pc[t] = "closeNotEmpty" /\ e = "RECV" /\ q = "closeNotFull"
               \/ pc[t] = "closeNotFull" /\ e = "SEND" /\ q = "return"
            /\ closed' = closed
      BY <1>5 DEF CloseBroadcast, Broadcast, Dir, chanVars
    <2>2. Waiting(c, d)' \subseteq Waiting(c, d)
      BY <1>2, <2>1 DEF Waiting, Cur
    <2>3. CASE Cur(t).chan = c /\ e = d
      <3>1. Waiting(c, d)' = {}
        BY <1>2, <2>1, <2>3 DEF Waiting, Cur
      <3> QED BY <3>1 DEF Reached
    <2>4. CASE ~ (Cur(t).chan = c /\ e = d)
      <3>1. ASSUME NEW s \in Threads, ClosingFor(s, c, d) PROVE ClosingFor(s, c, d)'
        <4>1. CASE s = t
          <5>1. pc[t] = "closeNotEmpty" /\ d = "SEND" /\ pc'[t] = "closeNotFull"
            BY <2>1, <2>4, <3>1, <4>1 DEF ClosingFor, Dir
          <5> QED BY <1>2, <3>1, <4>1, <5>1 DEF ClosingFor, Cur
        <4>2. CASE s # t
          <5>1. pc'[s] = pc[s]
            BY <2>1, <3>1, <4>2 DEF Waiting, ClosingFor
          <5> QED BY <1>2, <3>1, <5>1 DEF ClosingFor, Cur
        <4> QED BY <4>1, <4>2
      <3> QED BY <2>1, <2>2, <3>1 DEF Reached
    <2> QED BY <2>3, <2>4
  <1> QED BY <1>3, <1>4, <1>5 DEF channel_close

\* Every other step.
LEMMA ReachedOther ==
  ASSUME Shape, NEW c \in Channels, NEW d \in Dir, Reached(c, d), NEW t \in Threads,
         \/ Invoke(t) \/ Return(t) \/ Notify(t) \/ Signal(t) \/ SpuriousWakeup(t)
         \/ channel_select(t)
  PROVE  Reached(c, d)'
  <1>1. /\ pc \in [Threads -> PC] /\ call \in [Threads -> Call]
        /\ idx \in [Threads -> Nat \ {0}]
    BY DEF Shape, TypeOK
  <1>2. CASE Invoke(t)
    BY <1>1, <1>2, ReachedAside DEF Invoke, chanVars
  <1>3. CASE Return(t)
    BY <1>1, <1>3, ReachedAside DEF Return, chanVars
  <1>4. CASE Notify(t)
    BY <1>1, <1>4, ReachedAside DEF Notify, chanVars
  <1>5. CASE SpuriousWakeup(t)
    BY <1>1, <1>5, ReachedAside DEF SpuriousWakeup, chanVars
  <1>6. CASE Signal(t)
    <2>1. PICK q \in {"cleanup", "return"} :
            \/ pc' = [pc EXCEPT ![t] = q]
            \/ \E w \in Threads : pc[w] = "blocked" /\
                  pc' = [pc EXCEPT ![t] = q, ![w] = "woken"]
      BY <1>6 DEF Signal, Waiting
    <2>2. /\ pc[t] = "signal" /\ closed' = closed /\ call' = call
          /\ idx' = [idx EXCEPT ![t] = 1]
      BY <1>6 DEF Signal, chanVars
    <2>3. /\ pc'[t] # "blocked"
          /\ \A s \in Threads \ {t} :
               /\ pc'[s] = pc[s] \/ (pc[s] = "blocked" /\ pc'[s] = "woken")
               /\ call'[s] = call[s] /\ idx'[s] = idx[s]
      BY <1>1, <2>1, <2>2
    <2> QED BY <2>2, <2>3, ReachedAside
  <1>7. CASE channel_select(t)
    <2>1. /\ pc[t] \in {"start", "register", "scan", "semwait", "cleanup"}
          /\ closed' = closed /\ call' = call
      BY <1>7 DEF channel_select, CheckArguments, init_select, TryEntry, SemWait,
                  cleanup_select, GiveUp, AddData, RemoveData, chanVars
    <2>2. PICK q \in PC \ {"blocked"} : pc' = [pc EXCEPT ![t] = q]
      BY <1>1, <1>7, <2>1 DEF channel_select, CheckArguments, init_select, TryEntry, SemWait,
                  cleanup_select, GiveUp, AddData, RemoveData, Advance, PC
    <2>3. \A s \in Threads \ {t} : idx'[s] = idx[s]
      BY <1>1, <1>7 DEF channel_select, CheckArguments, init_select, TryEntry, SemWait,
                  cleanup_select, GiveUp, AddData, RemoveData, Advance
    <2> QED BY <1>1, <2>1, <2>2, <2>3, ReachedAside
  <1> QED BY <1>2, <1>3, <1>4, <1>5, <1>6, <1>7

\* Whoever sleeps on a closed channel has a broadcast of channel_close on its
\* way, for any number of threads that send, receive and close.
THEOREM ChannelCloseReachesSleepers == Spec => []CloseReachesSleepers
  <1>1. Init => CloseReachesSleepers
    BY DEF Init, CloseReachesSleepers
  <1>2. Shape /\ CloseReachesSleepers /\ [Next]_vars => CloseReachesSleepers'
    <2> SUFFICES ASSUME Shape, CloseReachesSleepers, [Next]_vars,
                        NEW c \in Channels, NEW d \in Dir
                 PROVE  Reached(c, d)'
      BY DEF CloseReachesSleepers, Reached
    <2>1. Reached(c, d)
      BY DEF CloseReachesSleepers, Reached
    <2>2. CASE UNCHANGED vars
      BY <2>1, <2>2 DEF vars, Reached, Waiting, ClosingFor, Cur
    <2> QED BY <2>1, <2>2, ReachedOperation, ReachedClose, ReachedOther DEF Next, Step
  <1> QED BY <1>1, <1>2, ShapeInit, ShapeStep, PTL DEF Spec

-----------------------------------------------------------------------------
(* The refinement of ChannelSpec.                                          *)

\* Where a call of a kind can be, and when it has a result to report.
CallFact(t) ==
  /\ pc[t] \in {"blocked", "woken"} => call[t].kind = "blocking"
  /\ pc[t] \in {"register", "scan", "semwait", "cleanup"} => call[t].kind = "select"
  /\ pc[t] \in {"close", "closeRecvSel", "closeSendSel", "closeNotEmpty", "closeNotFull"}
       => call[t].kind = "close"
  /\ pc[t] \in {"start", "notify", "signal"} => call[t].kind # "close"
  /\ pc[t] \notin {"cleanup", "return"} => selIdx[t] = 0

CallFacts == \A t \in Threads : CallFact(t)

\* What a thread does under the mutex of one channel, and why.
LEMMA OperationKinds ==
  ASSUME NEW t \in Threads,
         \/ channel_send(t) \/ channel_receive(t)
         \/ channel_non_blocking_send(t) \/ channel_non_blocking_receive(t)
  PROVE  /\ pc[t] \in {"start", "woken"} /\ call[t].kind \in {"blocking", "nonblocking"}
         /\ \/ AddData(t) /\ Cur(t).dir = "SEND" /\ (pc[t] = "start" => ~ closed[Cur(t).chan])
            \/ RemoveData(t) /\ Cur(t).dir = "RECV" /\ (pc[t] = "start" => ~ closed[Cur(t).chan])
            \/ /\ GiveUp(t, "CLOSED_ERROR") /\ closed[Cur(t).chan]
               /\ pc[t] = "woken" => ~ Ready(Cur(t).chan, Cur(t).dir)
            \/ /\ GiveUp(t, IF Cur(t).dir = "SEND" THEN "CHANNEL_FULL" ELSE "CHANNEL_EMPTY")
               /\ pc[t] = "start" /\ call[t].kind = "nonblocking"
               /\ ~ closed[Cur(t).chan] /\ ~ Ready(Cur(t).chan, Cur(t).dir)
            \/ /\ Block(t) /\ call[t].kind = "blocking"
               /\ ~ closed[Cur(t).chan] /\ ~ Ready(Cur(t).chan, Cur(t).dir)
  <1>1. CASE channel_send(t)
    BY <1>1 DEF channel_send, SendLoop, At, Ready
  <1>2. CASE channel_receive(t)
    BY <1>2 DEF channel_receive, ReceiveLoop, At, Ready
  <1>3. CASE channel_non_blocking_send(t)
    BY <1>3 DEF channel_non_blocking_send, At, Ready
  <1>4. CASE channel_non_blocking_receive(t)
    BY <1>4 DEF channel_non_blocking_receive, At, Ready
  <1> QED BY <1>1, <1>2, <1>3, <1>4

\* What a step leaves of another thread.
Aside(t) ==
  \A s \in Threads \ {t} :
    /\ pc'[s] = pc[s] \/ (pc[s] = "blocked" /\ pc'[s] = "woken")
    /\ call'[s] = call[s] /\ idx'[s] = idx[s] /\ selIdx'[s] = selIdx[s]

LEMMA CallFactAside ==
  ASSUME CallFacts, NEW t \in Threads, Aside(t), CallFact(t)'
  PROVE  CallFacts'
  BY DEF CallFacts, CallFact, Aside

LEMMA StepAside ==
  ASSUME Shape, NEW t \in Threads, Invoke(t) \/ Step(t) \/ SpuriousWakeup(t)
  PROVE  Aside(t)
  <1>1. /\ pc \in [Threads -> PC] /\ call \in [Threads -> Call]
        /\ idx \in [Threads -> Nat \ {0}] /\ selIdx \in [Threads -> Nat]
    BY DEF Shape, TypeOK
  <1>2. CASE \/ channel_send(t) \/ channel_receive(t)
             \/ channel_non_blocking_send(t) \/ channel_non_blocking_receive(t)
    BY <1>1, <1>2, OperationKinds DEF AddData, RemoveData, GiveUp, Block, Aside, resultVars
  <1>3. CASE Invoke(t)
    BY <1>1, <1>3 DEF Invoke, Aside, resultVars
  <1>4. CASE Return(t)
    BY <1>1, <1>4 DEF Return, Aside
  <1>5. CASE Notify(t) \/ SpuriousWakeup(t)
    BY <1>1, <1>5 DEF Notify, SpuriousWakeup, Aside, resultVars
  <1>6. CASE Signal(t)
    <2>1. PICK q \in {"cleanup", "return"} :
            \/ pc' = [pc EXCEPT ![t] = q]
            \/ \E w \in Threads : pc[w] = "blocked" /\
                  pc' = [pc EXCEPT ![t] = q, ![w] = "woken"]
      BY <1>6 DEF Signal, Waiting
    <2> QED BY <1>1, <1>6, <2>1 DEF Signal, Aside
  <1>7. CASE channel_close(t)
    <2>1. CASE SetClosed(t) \/ CloseNotify(t)
      BY <1>1, <2>1 DEF SetClosed, GiveUp, CloseNotify, Aside, resultVars
    <2>2. CASE CloseBroadcast(t)
      BY <1>1, <2>2 DEF CloseBroadcast, Broadcast, Waiting, Aside, resultVars
    <2> QED BY <1>7, <2>1, <2>2 DEF channel_close
  <1>8. CASE channel_select(t)
    BY <1>1, <1>8 DEF channel_select, CheckArguments, init_select, TryEntry, SemWait,
                      cleanup_select, GiveUp, AddData, RemoveData, Advance, Aside, resultVars
  <1> QED BY <1>2, <1>3, <1>4, <1>5, <1>6, <1>7, <1>8 DEF Step

LEMMA CallFactsStep == Shape /\ CallFacts /\ [Next]_vars => CallFacts'
  <1> SUFFICES ASSUME Shape, CallFacts, [Next]_vars PROVE CallFacts'
    OBVIOUS
  <1>1. /\ pc \in [Threads -> PC] /\ call \in [Threads -> Call]
        /\ idx \in [Threads -> Nat \ {0}] /\ selIdx \in [Threads -> Nat]
    BY DEF Shape, TypeOK
  <1>2. CASE UNCHANGED vars
    BY <1>2 DEF vars, CallFacts, CallFact
  <1>3. ASSUME NEW t \in Threads, Invoke(t) \/ Step(t) \/ SpuriousWakeup(t)
        PROVE  CallFact(t)'
    <2>1. CallFact(t)
      BY DEF CallFacts
    <2>2. CASE \/ channel_send(t) \/ channel_receive(t)
               \/ channel_non_blocking_send(t) \/ channel_non_blocking_receive(t)
      BY <1>1, <2>1, <2>2, OperationKinds DEF AddData, RemoveData, GiveUp, Block, CallFact, resultVars
    <2>3. CASE Invoke(t)
      <3>1. PICK k \in Program[t] :
              /\ call' = [call EXCEPT ![t] = k]
              /\ pc' = [pc EXCEPT ![t] = CASE k.kind = "select" -> "register"
                                           [] k.kind = "close"  -> "close"
                                           [] OTHER             -> "start"]
        BY <2>3 DEF Invoke
      <3>2. /\ call'[t] = k /\ pc[t] = "idle" /\ selIdx' = selIdx
            /\ pc'[t] = CASE k.kind = "select" -> "register"
                          [] k.kind = "close"  -> "close"
                          [] OTHER             -> "start"
        BY <1>1, <2>3, <3>1 DEF Invoke, resultVars
      <3> QED BY <2>1, <3>2 DEF CallFact
    <2>4. CASE Return(t)
      BY <1>1, <2>4 DEF Return, CallFact
    <2>5. CASE Notify(t) \/ SpuriousWakeup(t)
      BY <1>1, <2>1, <2>5 DEF Notify, SpuriousWakeup, CallFact, resultVars
    <2>6. CASE Signal(t)
      <3>1. /\ pc[t] = "signal" /\ call' = call
            /\ pc'[t] = IF InSelect(t) THEN "cleanup" ELSE "return"
        BY <1>1, <2>6 DEF Signal, Waiting
      <3> QED BY <3>1 DEF CallFact, InSelect
    <2>7. CASE channel_close(t)
      BY <1>1, <2>1, <2>7 DEF channel_close, SetClosed, GiveUp, CloseNotify, CloseBroadcast,
                              Broadcast, CallFact, resultVars
    <2>8. CASE channel_select(t)
      BY <1>1, <2>1, <2>8 DEF channel_select, CheckArguments, init_select, TryEntry, SemWait,
                      cleanup_select, GiveUp, AddData, RemoveData, Advance, CallFact, resultVars
    <2> QED BY <1>3, <2>2, <2>3, <2>4, <2>5, <2>6, <2>7, <2>8 DEF Step
  <1> QED BY <1>2, <1>3, StepAside, CallFactAside DEF Next

\* The refinement mapping, thread by thread.
IndexOf(s) == IF InSelect(s) /\ pc[s] \in {"notify", "signal"} THEN idx[s] ELSE selIdx[s]

SameSight(s) == Phase(s)' = Phase(s) /\ IndexOf(s)' = IndexOf(s)

LEMMA AsideSight ==
  ASSUME NEW t \in Threads, Aside(t)
  PROVE  \A s \in Threads \ {t} : SameSight(s)
  BY DEF Aside, SameSight, Phase, IndexOf, InSelect

LEMMA SightStutter ==
  ASSUME \A s \in Threads : SameSight(s), UNCHANGED <<buffer, closed, call, status, value>>
  PROVE  UNCHANGED Abstract!vars
  BY DEF SameSight, IndexOf, Abstract!vars

\* A call is decided.
LEMMA SightDecide ==
  ASSUME NEW t \in Threads, Aside(t), NEW i, NEW st,
         Phase(t)' = "done", IndexOf(t)' = IF call[t].kind = "select" THEN i ELSE 0,
         status' = [status EXCEPT ![t] = st], UNCHANGED call
  PROVE  Abstract!Decide(t, i, st)
  <1>1. \A s \in Threads \ {t} : SameSight(s)
    BY AsideSight
  <1>2. [s \in Threads |-> Phase(s)'] = [[s \in Threads |-> Phase(s)] EXCEPT ![t] = "done"]
    BY <1>1 DEF SameSight
  <1>3. [s \in Threads |-> IndexOf(s)'] =
          [[s \in Threads |-> IndexOf(s)] EXCEPT ![t] = IF call[t].kind = "select" THEN i ELSE 0]
    BY <1>1 DEF SameSight
  <1> QED BY <1>2, <1>3 DEF Abstract!Decide, Abstract!Named, IndexOf

\* The buffer has room, or a value, when the queue it stands for has.
LEMMA PossibleReady ==
  ASSUME Shape, NEW c \in Channels
  PROVE  /\ Len(Contents(buffer[c])) < Capacity[c] <=> ~ Full(buffer[c])
         /\ Contents(buffer[c]) # <<>> <=> ~ Empty(buffer[c])
  <1>1. buffer[c] \in BufferType(Capacity[c], V) /\ Capacity[c] \in Nat \ {0}
    BY CapacityAssumption DEF Shape, TypeOK, V
  <1>2. /\ Contents(buffer[c]) \in Seq(V) /\ Len(Contents(buffer[c])) = buffer[c].size
        /\ buffer[c].size \in 0 .. Capacity[c] /\ buffer[c].capacity = Capacity[c]
    BY <1>1, ContentsSeq DEF BufferType
  <1>3. Contents(buffer[c]) = <<>> <=> buffer[c].size = 0
    <2>1. \A q \in Seq(V) : q = <<>> <=> Len(q) = 0
      OBVIOUS
    <2> QED BY <1>2, <2>1
  <1>4. /\ Full(buffer[c]) <=> buffer[c].size >= Capacity[c]
        /\ Empty(buffer[c]) <=> ~ (buffer[c].size > 0)
    BY <1>2 DEF Full, Empty
  <1>5. Len(Contents(buffer[c])) < Capacity[c] <=> ~ Full(buffer[c])
    BY <1>1, <1>2, <1>4
  <1>6. Contents(buffer[c]) # <<>> <=> ~ Empty(buffer[c])
    BY <1>2, <1>3, <1>4
  <1> QED BY <1>5, <1>6

\* The step at which a send, a receive or a select moves a value.
LEMMA RefineTransfer ==
  ASSUME Shape, CallFacts, NEW t \in Threads, pc[t] \in {"start", "woken", "scan"},
         Aside(t), call[t].kind # "misuse",
         pc[t] # "woken" => ~ closed[Cur(t).chan],
         \/ AddData(t) /\ Cur(t).dir = "SEND"
         \/ RemoveData(t) /\ Cur(t).dir = "RECV"
  PROVE  Abstract!Next
  <1>1. PICK c \in Channels, v \in Data, i \in 1 .. Len(call[t].entries) :
          c = Cur(t).chan /\ v = Cur(t).data /\ i = idx[t]
    BY CurEntry
  <1>2. /\ buffer[c] \in BufferType(Capacity[c], V) /\ Capacity[c] \in Nat \ {0}
        /\ pc \in [Threads -> PC] /\ DOMAIN buffer = Channels /\ v \in V
    BY CapacityAssumption DEF Shape, TypeOK, V
  <1>3. /\ pc' = [pc EXCEPT ![t] = "notify"] /\ status' = [status EXCEPT ![t] = "SUCCESS"]
        /\ UNCHANGED <<call, idx, selIdx, closed>>
    BY DEF AddData, RemoveData
  <1>4. Abstract!Decide(t, i, "SUCCESS")
    <2>1. Phase(t)' = "done"
      BY <1>2, <1>3 DEF Phase
    <2>2. IndexOf(t)' = IF call[t].kind = "select" THEN i ELSE 0
      BY <1>1, <1>2, <1>3 DEF IndexOf, InSelect, CallFacts, CallFact
    <2> QED BY <1>3, <2>1, <2>2, SightDecide
  <1>5. /\ call[t].kind \notin {"close", "misuse"}
        /\ \/ Phase(t) = "pending" /\ ~ closed[c]
           \/ Phase(t) = "waiting"
    BY <1>1 DEF CallFacts, CallFact, Phase
  <1>6. Abstract!Perform(t, i)
    <2>1. CASE AddData(t) /\ Cur(t).dir = "SEND"
      <3>1. /\ buffer' = [buffer EXCEPT ![c] = buffer_add(buffer[c], v)] /\ value' = value
            /\ ~ Full(buffer[c])
        BY <1>1, <2>1 DEF AddData
      <3>2. Contents(buffer_add(buffer[c], v)) = Append(Contents(buffer[c]), v)
        BY <1>2, <3>1, AddAppends
      <3>3. [x \in Channels |-> Contents(buffer'[x])] =
              [[x \in Channels |-> Contents(buffer[x])] EXCEPT ![c] = Append(@, v)]
        BY <1>2, <3>1, <3>2
      <3>4. Len(Contents(buffer[c])) < Capacity[c]
        BY <3>1, PossibleReady
      <3> QED BY <1>1, <1>3, <1>4, <1>5, <2>1, <3>1, <3>3, <3>4
              DEF Abstract!Perform, Abstract!Possible, Cur
    <2>2. CASE RemoveData(t) /\ Cur(t).dir = "RECV"
      <3>1. /\ buffer' = [buffer EXCEPT ![c] = buffer_remove(buffer[c])]
            /\ value' = [value EXCEPT ![t] = buffer_front(buffer[c])]
            /\ ~ Empty(buffer[c])
        BY <1>1, <2>2 DEF RemoveData
      <3>2. /\ Contents(buffer_remove(buffer[c])) = Tail(Contents(buffer[c]))
            /\ buffer_front(buffer[c]) = Head(Contents(buffer[c]))
        BY <1>2, <3>1, RemoveTakesHead
      <3>3. [x \in Channels |-> Contents(buffer'[x])] =
              [[x \in Channels |-> Contents(buffer[x])] EXCEPT ![c] = Tail(@)]
        BY <1>2, <3>1, <3>2
      <3>4. Contents(buffer[c]) # <<>>
        BY <3>1, PossibleReady
      <3> QED BY <1>1, <1>3, <1>4, <1>5, <2>2, <3>1, <3>2, <3>3, <3>4
              DEF Abstract!Perform, Abstract!Possible, Cur
    <2> QED BY <2>1, <2>2
  <1> QED BY <1>6 DEF Abstract!Next

\* The steps at which a call is refused.
LEMMA RefineRefuse ==
  ASSUME Shape, CallFacts, NEW t \in Threads, Aside(t),
         call[t].kind \notin {"close", "misuse"}, NEW st,
         UNCHANGED <<buffer, closed, call, value>>,
         status' = [status EXCEPT ![t] = st],
         Phase(t)' = "done",
         IndexOf(t)' = IF call[t].kind = "select" THEN idx[t] ELSE 0,
         \/ /\ Phase(t) = "pending" /\ closed[Cur(t).chan] /\ st = "CLOSED_ERROR"
         \/ /\ Phase(t) = "waiting" /\ closed[Cur(t).chan] /\ st = "CLOSED_ERROR"
            /\ ~ Ready(Cur(t).chan, Cur(t).dir)
         \/ /\ Phase(t) = "pending" /\ call[t].kind = "nonblocking"
            /\ ~ closed[Cur(t).chan] /\ ~ Ready(Cur(t).chan, Cur(t).dir)
            /\ st = IF Cur(t).dir = "SEND" THEN "CHANNEL_FULL" ELSE "CHANNEL_EMPTY"
  PROVE  Abstract!Next
  <1>0. pc[t] # "idle"
    BY DEF Phase
  <1>1. PICK c \in Channels, i \in 1 .. Len(call[t].entries) :
          c = Cur(t).chan /\ i = idx[t]
    BY <1>0, CurEntry
  <1>2. Abstract!Decide(t, i, st)
    BY <1>1, SightDecide
  <1>3. ~ Ready(c, Cur(t).dir) =>
          IF Cur(t).dir = "SEND" THEN ~ (Len(Contents(buffer[c])) < Capacity[c])
                                 ELSE Contents(buffer[c]) = <<>>
    BY PossibleReady DEF Ready
  <1>4. Abstract!Refuse(t, i)
    <2>1. CASE Phase(t) = "pending" /\ closed[Cur(t).chan] /\ st = "CLOSED_ERROR"
      BY <1>1, <1>2, <2>1 DEF Abstract!Refuse, Cur
    <2>2. CASE /\ Phase(t) = "waiting" /\ closed[Cur(t).chan] /\ st = "CLOSED_ERROR"
               /\ ~ Ready(Cur(t).chan, Cur(t).dir)
      BY <1>1, <1>2, <1>3, <2>2 DEF Abstract!Refuse, Abstract!Possible, Cur
    <2>3. CASE /\ Phase(t) = "pending" /\ call[t].kind = "nonblocking"
               /\ ~ closed[Cur(t).chan] /\ ~ Ready(Cur(t).chan, Cur(t).dir)
               /\ st = IF Cur(t).dir = "SEND" THEN "CHANNEL_FULL" ELSE "CHANNEL_EMPTY"
      BY <1>1, <1>2, <1>3, <2>3
         DEF Abstract!Refuse, Abstract!Decide, Abstract!Possible, Cur
    <2> QED BY <2>1, <2>2, <2>3
  <1> QED BY <1>4 DEF Abstract!Next

\* The step at which channel_select finds an argument missing.
LEMMA RefineReject ==
  ASSUME Shape, CallFacts, NEW t \in Threads, Aside(t), CheckArguments(t)
  PROVE  Abstract!Next
  <1>1. PICK i \in 1 .. Len(call[t].entries) : i = idx[t]
    BY CurEntry DEF CheckArguments
  <1>2. /\ pc[t] = "start" /\ pc'[t] = "return" /\ selIdx[t] = 0
        /\ call[t].kind = "misuse"
        /\ status' = [status EXCEPT ![t] = "GENERIC_ERROR"]
        /\ UNCHANGED <<buffer, closed, call, selIdx, value>>
    BY DEF CheckArguments, GiveUp, CallFacts, CallFact, Shape, TypeOK, chanVars
  <1>3. Phase(t) = "pending" /\ Phase(t)' = "done" /\ IndexOf(t)' = 0
    BY <1>2 DEF Phase, IndexOf, InSelect
  <1>4. Abstract!Decide(t, i, "GENERIC_ERROR")
    BY <1>2, <1>3, SightDecide
  <1>5. Abstract!Reject(t, i)
    BY <1>2, <1>3, <1>4 DEF Abstract!Reject
  <1> QED BY <1>1, <1>5 DEF Abstract!Next

LEMMA RefineClose ==
  ASSUME Shape, CallFacts, NEW t \in Threads, Aside(t), SetClosed(t)
  PROVE  Abstract!Next
  <1>1. PICK c \in Channels, i \in 1 .. Len(call[t].entries) :
          c = Cur(t).chan /\ i = idx[t]
    BY CurEntry DEF SetClosed
  <1>2. pc[t] = "close" /\ call[t].kind = "close" /\ selIdx[t] = 0
    BY DEF SetClosed, CallFacts, CallFact
  <1>3. PICK st : st = IF closed[c] THEN "CLOSED_ERROR" ELSE "SUCCESS"
    OBVIOUS
  <1>4. /\ pc'[t] \in {"return", "closeRecvSel"}
        /\ UNCHANGED <<buffer, call, selIdx, value>>
        /\ status' = [status EXCEPT ![t] = st]
        /\ closed' = [closed EXCEPT ![c] = TRUE]
    <2>1. CASE closed[c]
      <3>1. GiveUp(t, st) /\ closed[c] = TRUE /\ closed \in [Channels -> BOOLEAN]
        BY <1>1, <1>3, <2>1 DEF SetClosed, Shape, TypeOK
      <3> QED BY <3>1 DEF GiveUp, Shape, TypeOK, chanVars
    <2>2. CASE ~ closed[c]
      BY <1>1, <1>3, <2>2 DEF SetClosed, Shape, TypeOK
    <2> QED BY <2>1, <2>2
  <1>5. Abstract!Decide(t, i, st)
    <2>1. Phase(t)' = "done" /\ IndexOf(t)' = 0
      BY <1>2, <1>4 DEF Phase, IndexOf, InSelect
    <2> QED BY <1>2, <1>4, <2>1, SightDecide
  <1>6. Abstract!Close(t, i)
    BY <1>1, <1>2, <1>3, <1>4, <1>5 DEF Abstract!Close, Abstract!Decide, Phase, Cur
  <1> QED BY <1>6 DEF Abstract!Next

LEMMA RefineWait ==
  ASSUME Shape, CallFacts, NEW t \in Threads, Aside(t), pc[t] = "start", Block(t),
         call[t].kind = "blocking", ~ closed[Cur(t).chan], ~ Ready(Cur(t).chan, Cur(t).dir)
  PROVE  Abstract!Next
  <1>1. PICK c \in Channels, i \in 1 .. Len(call[t].entries) :
          c = Cur(t).chan /\ i = idx[t]
    BY CurEntry
  <1>2. /\ pc'[t] = "blocked"
        /\ UNCHANGED <<buffer, closed, call, idx, selIdx, status, value>>
    BY DEF Block, Shape, TypeOK, chanVars, resultVars
  <1>3. ~ (IF Cur(t).dir = "SEND" THEN Len(Contents(buffer[c])) < Capacity[c]
                                  ELSE Contents(buffer[c]) # <<>>)
    BY <1>1, PossibleReady DEF Ready
  <1>4. /\ [s \in Threads |-> Phase(s)'] = [[s \in Threads |-> Phase(s)] EXCEPT ![t] = "waiting"]
        /\ \A s \in Threads : IndexOf(s)' = IndexOf(s)
        /\ Phase(t) = "pending"
    <2>1. Phase(t)' = "waiting" /\ IndexOf(t)' = IndexOf(t) /\ Phase(t) = "pending"
      BY <1>2 DEF Phase, IndexOf, InSelect
    <2> QED BY <2>1, AsideSight DEF SameSight
  <1>5. Abstract!Wait(t, i)
    BY <1>1, <1>2, <1>3, <1>4 DEF Abstract!Wait, Abstract!Possible, Cur, IndexOf
  <1> QED BY <1>5 DEF Abstract!Next

LEMMA RefineInvoke ==
  ASSUME Shape, NEW t \in Threads, Aside(t), Invoke(t)
  PROVE  Abstract!Next
  <1>1. PICK k \in Program[t] :
          /\ call' = [call EXCEPT ![t] = k]
          /\ pc' = [pc EXCEPT ![t] = CASE k.kind = "select" -> "register"
                                       [] k.kind = "close"  -> "close"
                                       [] OTHER             -> "start"]
    BY DEF Invoke
  <1>2. /\ pc[t] = "idle" /\ pc'[t] \in {"register", "close", "start"}
        /\ UNCHANGED <<buffer, closed, selIdx, status, value>>
    BY <1>1 DEF Invoke, Shape, TypeOK, chanVars, resultVars
  <1>3. /\ [s \in Threads |-> Phase(s)'] = [[s \in Threads |-> Phase(s)] EXCEPT ![t] = "pending"]
        /\ \A s \in Threads : IndexOf(s)' = IndexOf(s)
        /\ Phase(t) = "idle"
    <2>1. Phase(t)' = "pending" /\ IndexOf(t)' = IndexOf(t) /\ Phase(t) = "idle"
      BY <1>2 DEF Phase, IndexOf
    <2> QED BY <2>1, AsideSight DEF SameSight
  <1>4. Abstract!Invoke(t)
    BY <1>1, <1>2, <1>3 DEF Abstract!Invoke, IndexOf
  <1> QED BY <1>4 DEF Abstract!Next

LEMMA RefineReturn ==
  ASSUME Shape, NEW t \in Threads, Aside(t), Return(t)
  PROVE  Abstract!Next
  <1>1. /\ pc[t] = "return" /\ pc'[t] = "idle" /\ selIdx'[t] = 0
        /\ UNCHANGED <<buffer, closed>>
    BY DEF Return, Shape, TypeOK, chanVars
  <1>2. /\ [s \in Threads |-> Phase(s)'] = [[s \in Threads |-> Phase(s)] EXCEPT ![t] = "idle"]
        /\ [s \in Threads |-> IndexOf(s)'] = [[s \in Threads |-> IndexOf(s)] EXCEPT ![t] = 0]
        /\ Phase(t) = "done"
    <2>1. Phase(t)' = "idle" /\ IndexOf(t)' = 0 /\ Phase(t) = "done"
      BY <1>1 DEF Phase, IndexOf
    <2> QED BY <2>1, AsideSight DEF SameSight
  <1>3. Abstract!Return(t)
    BY <1>1, <1>2 DEF Abstract!Return, Return, IndexOf
  <1> QED BY <1>3 DEF Abstract!Next

\* The steps that no caller can see.
LEMMA RefineStutter ==
  ASSUME Shape, CallFacts, NEW t \in Threads, Aside(t),
         \/ pc[t] = "woken" /\ Block(t)
         \/ Notify(t) \/ Signal(t) \/ SpuriousWakeup(t)
         \/ CloseNotify(t) \/ CloseBroadcast(t)
         \/ init_select(t) \/ SemWait(t) \/ cleanup_select(t)
         \/ /\ pc[t] = "scan" /\ Advance(t, "semwait")
            /\ UNCHANGED <<chanVars, call, resultVars>>
  PROVE  UNCHANGED Abstract!vars
  <1>1. /\ pc \in [Threads -> PC] /\ selIdx \in [Threads -> Nat] /\ CallFact(t)
    BY DEF Shape, TypeOK, CallFacts
  <1>2. UNCHANGED <<buffer, closed, call, status, value>>
    BY DEF Block, Notify, Signal, SpuriousWakeup, CloseNotify, CloseBroadcast,
           init_select, SemWait, cleanup_select, chanVars, resultVars
  <1>3. SameSight(t)
    <2>1. CASE Signal(t)
      <3>1. /\ pc[t] = "signal" /\ pc'[t] \in {"cleanup", "return"}
            /\ selIdx'[t] = IF InSelect(t) THEN idx[t] ELSE 0
        BY <1>1, <2>1 DEF Signal, Waiting
      <3> QED BY <1>1, <1>2, <3>1 DEF SameSight, Phase, IndexOf, InSelect, CallFact
    <2>2. CASE Notify(t) \/ CloseNotify(t) \/ CloseBroadcast(t)
      <3>1. /\ pc[t] \notin {"idle", "start", "register", "scan", "semwait", "close", "blocked", "woken"}
            /\ pc'[t] \notin {"idle", "start", "register", "scan", "semwait", "close", "blocked", "woken"}
            /\ pc[t] \in {"notify", "signal"} <=> pc'[t] \in {"notify", "signal"}
            /\ UNCHANGED <<idx, selIdx>>
        BY <1>1, <2>2 DEF Notify, CloseNotify, CloseBroadcast, Broadcast, resultVars
      <3> QED BY <1>2, <3>1 DEF SameSight, Phase, IndexOf, InSelect
    <2>3. CASE ~ Signal(t) /\ ~ Notify(t) /\ ~ CloseNotify(t) /\ ~ CloseBroadcast(t)
      <3>1. /\ UNCHANGED selIdx
            /\ \/ {pc[t], pc'[t]} \subseteq {"blocked", "woken"}
               \/ {pc[t], pc'[t]} \subseteq {"register", "scan", "semwait"}
               \/ {pc[t], pc'[t]} \subseteq {"cleanup", "return"}
        BY <1>1, <2>3 DEF Block, SpuriousWakeup, init_select, SemWait, cleanup_select, Advance, resultVars
      <3> QED BY <3>1 DEF SameSight, Phase, IndexOf
    <2> QED BY <2>1, <2>2, <2>3
  <1> QED BY <1>2, <1>3, AsideSight, SightStutter

\* channel.c implements ChannelSpec, whatever the threads, the channels, their
\* capacities and the calls: every call takes effect in one instant, exactly
\* once, on the entry it reports, in FIFO order.
THEOREM ChannelRefinesSpec == Spec => RefinesChannelSpec
  <1>1. Init => Abstract!Init
    <2> SUFFICES ASSUME Init PROVE Abstract!Init
      OBVIOUS
    <2>1. \A c \in Channels : Contents(buffer[c]) = <<>>
      BY CreateBuffer, CapacityAssumption DEF Init
    <2> QED BY <2>1 DEF Init, Abstract!Init, Phase, InSelect, NoCall
  <1>2. Init => CallFacts
    BY DEF Init, CallFacts, CallFact
  <1>3. Shape /\ CallFacts /\ [Next]_vars => [Abstract!Next]_(Abstract!vars)
    <2> SUFFICES ASSUME Shape, CallFacts, [Next]_vars
                 PROVE  Abstract!Next \/ UNCHANGED Abstract!vars
      OBVIOUS
    <2>1. CASE UNCHANGED vars
      BY <2>1 DEF vars, Abstract!vars, Phase, InSelect
    <2>2. ASSUME NEW t \in Threads, Invoke(t) \/ Step(t) \/ SpuriousWakeup(t)
          PROVE  Abstract!Next \/ UNCHANGED Abstract!vars
      <3>1. Aside(t) /\ pc \in [Threads -> PC] /\ CallFact(t) /\ status \in [Threads -> Status]
        BY <2>2, StepAside DEF Shape, TypeOK, CallFacts
      <3>2. CASE \/ channel_send(t) \/ channel_receive(t)
                 \/ channel_non_blocking_send(t) \/ channel_non_blocking_receive(t)
        <4>1. ASSUME NEW st, GiveUp(t, st), pc[t] \in {"start", "woken"},
                     call[t].kind \in {"blocking", "nonblocking"}
              PROVE  /\ Phase(t)' = "done" /\ IndexOf(t)' = 0
                     /\ UNCHANGED <<buffer, closed, call, value>>
                     /\ status' = [status EXCEPT ![t] = st]
          BY <3>1, <4>1 DEF GiveUp, Phase, IndexOf, InSelect, CallFact, chanVars
        <4>2. CASE GiveUp(t, "CLOSED_ERROR") /\ closed[Cur(t).chan]
                   /\ (pc[t] = "woken" => ~ Ready(Cur(t).chan, Cur(t).dir))
          BY <3>1, <3>2, <4>1, <4>2, OperationKinds, RefineRefuse DEF Phase
        <4>3. CASE /\ GiveUp(t, IF Cur(t).dir = "SEND" THEN "CHANNEL_FULL" ELSE "CHANNEL_EMPTY")
                   /\ pc[t] = "start" /\ call[t].kind = "nonblocking"
                   /\ ~ closed[Cur(t).chan] /\ ~ Ready(Cur(t).chan, Cur(t).dir)
          BY <3>1, <3>2, <4>1, <4>3, OperationKinds, RefineRefuse DEF Phase
        <4> QED BY <3>1, <3>2, <4>2, <4>3, OperationKinds, RefineTransfer, RefineWait, RefineStutter
      <3>3. CASE TryEntry(t)
        <4>1. CASE closed[Cur(t).chan]
          <5>1. /\ pc[t] = "scan" /\ call[t].kind = "select"
                /\ status' = [status EXCEPT ![t] = "CLOSED_ERROR"]
                /\ selIdx'[t] = idx[t] /\ pc'[t] = "cleanup"
                /\ UNCHANGED <<buffer, closed, call, value>>
            BY <3>1, <3>3, <4>1 DEF TryEntry, CallFact, Shape, TypeOK, chanVars
          <5> QED BY <3>1, <4>1, <5>1, RefineRefuse DEF Phase, IndexOf
        <4>2. CASE ~ closed[Cur(t).chan]
          BY <3>1, <3>3, <4>2, RefineTransfer, RefineStutter DEF TryEntry, CallFact
        <4> QED BY <4>1, <4>2
      <3> QED BY <2>2, <3>1, <3>2, <3>3, RefineInvoke, RefineReturn, RefineClose, RefineReject,
                 RefineStutter
              DEF Step, channel_close, channel_select
    <2> QED BY <2>1, <2>2 DEF Next
  <1> QED BY <1>1, <1>2, <1>3, CallFactsStep, ShapeInit, ShapeStep, PTL
          DEF Spec, Abstract!Spec, RefinesChannelSpec

-----------------------------------------------------------------------------
(* The selector lists.                                                     *)

\* The entries of t's channel_select that have put its semaphore into one list.
Marked(t, c, d) ==
  {i \in Registered(t) : call[t].entries[i].chan = c /\ call[t].entries[i].dir = d}

Exact(t) ==
  \A c \in Channels, d \in Dir : selectors[d][c][t] = Cardinality(Marked(t, c, d))

LEMMA ExactSelectors == SelectorsExact <=> \A t \in Threads : Exact(t)
  BY DEF SelectorsExact, Exact, Marked

LEMMA MarkedFinite ==
  ASSUME Shape, NEW t \in Threads
  PROVE  /\ Registered(t) \subseteq 1 .. Len(call[t].entries)
         /\ \A c, d : IsFiniteSet(Marked(t, c, d))
  <1>1. Len(call[t].entries) \in Nat /\ idx[t] \in Nat \ {0}
    BY DEF Shape, TypeOK, Call
  <1>2. pc[t] # "idle" => idx[t] \in 1 .. Len(call[t].entries)
    BY DEF Shape, Indices
  <1>3. Registered(t) \subseteq 1 .. Len(call[t].entries)
    BY <1>1, <1>2 DEF Registered
  <1>4. IsFiniteSet(1 .. Len(call[t].entries))
    <2>1. \A n \in Nat : IsFiniteSet(1 .. n)
      BY FS_Interval
    <2> QED BY <1>1, <2>1
  <1> QED BY <1>3, <1>4, FS_Subset DEF Marked

\* A thread whose nodes and entries stay.
LEMMA ExactKept ==
  ASSUME NEW t \in Threads, Exact(t), Registered(t)' = Registered(t),
         Registered(t) = {} \/ call'[t] = call[t],
         \A c \in Channels, d \in Dir : selectors'[d][c][t] = selectors[d][c][t]
  PROVE  Exact(t)'
  <1> SUFFICES ASSUME NEW c \in Channels, NEW d \in Dir
               PROVE  selectors'[d][c][t] = Cardinality(Marked(t, c, d)')
    BY DEF Exact
  <1>1. Marked(t, c, d)' = Marked(t, c, d)
    BY DEF Marked
  <1> QED BY <1>1 DEF Exact

\* A thread that another one does not serve keeps what it has registered.
LEMMA RegisteredAside ==
  ASSUME NEW t \in Threads, Aside(t)
  PROVE  \A s \in Threads \ {t} : Registered(s)' = Registered(s)
  BY DEF Aside, Registered, InSelect

\* The number of t's nodes in one list becomes n.
SetNodes(e, b, t, n) == selectors' = [selectors EXCEPT ![e][b][t] = n]

LEMMA NodesOf ==
  ASSUME Shape, NEW e \in Dir, NEW b \in Channels, NEW t \in Threads, NEW n,
         SetNodes(e, b, t, n)
  PROVE  \A d \in Dir, c \in Channels, s \in Threads :
           selectors'[d][c][s] = IF d = e /\ c = b /\ s = t THEN n ELSE selectors[d][c][s]
  <1>1. /\ DOMAIN selectors = Dir
        /\ \A d \in Dir : DOMAIN selectors[d] = Channels
        /\ \A d \in Dir, c \in Channels : DOMAIN selectors[d][c] = Threads
    BY DEF Shape, TypeOK
  <1>2. selectors'[e] = [selectors[e] EXCEPT ![b] = [@ EXCEPT ![t] = n]]
    BY <1>1 DEF SetNodes
  <1>3. \A d \in Dir \ {e} : selectors'[d] = selectors[d]
    BY <1>1 DEF SetNodes
  <1>4. selectors'[e][b] = [selectors[e][b] EXCEPT ![t] = n]
    BY <1>1, <1>2
  <1>5. \A c \in Channels \ {b} : selectors'[e][c] = selectors[e][c]
    BY <1>1, <1>2
  <1> QED BY <1>1, <1>3, <1>4, <1>5

\* One pass of init_select adds one node.
LEMMA ExactRegister ==
  ASSUME Shape, CallFacts, NEW t \in Threads, Exact(t), init_select(t)
  PROVE  Exact(t)'
  <1>1. PICK e \in Dir, b \in Channels, i \in 1 .. Len(call[t].entries) :
          e = Cur(t).dir /\ b = Cur(t).chan /\ i = idx[t]
    BY CurEntry DEF init_select
  <1>2. /\ pc[t] = "register" /\ call' = call /\ InSelect(t)
        /\ selectors' = [selectors EXCEPT ![e][b][t] = @ + 1]
        /\ idx' = [idx EXCEPT ![t] = IF i < Len(call[t].entries) THEN i + 1 ELSE 1]
        /\ pc' = [pc EXCEPT ![t] = IF i < Len(call[t].entries) THEN @ ELSE "scan"]
    BY <1>1 DEF init_select, Advance, CallFacts, CallFact, InSelect
  <1>3. Len(call[t].entries) \in Nat
    BY DEF Shape, TypeOK, Call
  <1>4. Registered(t) = 1 .. (i - 1) /\ Registered(t)' = 1 .. i
    <2>1. Registered(t) = 1 .. (i - 1)
      BY <1>1, <1>2 DEF Registered
    <2>2. CASE i < Len(call[t].entries)
      <3>1. pc'[t] = "register" /\ idx'[t] = i + 1
        BY <1>2, <2>2 DEF Shape, TypeOK
      <3>2. (i + 1) - 1 = i
        OBVIOUS
      <3> QED BY <2>1, <3>1, <3>2 DEF Registered
    <2>3. CASE ~ (i < Len(call[t].entries))
      <3>1. pc'[t] = "scan" /\ InSelect(t)' /\ i = Len(call[t].entries)
        BY <1>2, <1>3, <2>3 DEF InSelect, Shape, TypeOK
      <3> QED BY <1>2, <2>1, <3>1 DEF Registered
    <2> QED BY <2>2, <2>3
  <1> SUFFICES ASSUME NEW c \in Channels, NEW d \in Dir
               PROVE  selectors'[d][c][t] = Cardinality(Marked(t, c, d)')
    BY DEF Exact
  <1>5. Marked(t, c, d)' = IF c = b /\ d = e THEN Marked(t, c, d) \cup {i} ELSE Marked(t, c, d)
    <2>1. call[t].entries[i].chan = b /\ call[t].entries[i].dir = e
      BY <1>1 DEF Cur
    <2> QED BY <1>2, <1>4, <2>1 DEF Marked
  <1>6. i \notin Marked(t, c, d)
    BY <1>4 DEF Marked
  <1>7. Cardinality(Marked(t, c, d) \cup {i}) = Cardinality(Marked(t, c, d)) + 1
    BY <1>6, MarkedFinite, FS_AddElement
  <1>8. selectors'[d][c][t] = IF c = b /\ d = e THEN selectors[d][c][t] + 1 ELSE selectors[d][c][t]
    <2>1. PICK n : n = selectors[e][b][t] + 1
      OBVIOUS
    <2>2. SetNodes(e, b, t, n)
      BY <1>2, <2>1 DEF SetNodes
    <2>3. \A dd \in Dir, cc \in Channels, s \in Threads :
            selectors'[dd][cc][s] =
              IF dd = e /\ cc = b /\ s = t THEN n ELSE selectors[dd][cc][s]
      BY <2>2, NodesOf
    <2>4. selectors'[d][c][t] = IF d = e /\ c = b THEN n ELSE selectors[d][c][t]
      BY <2>3
    <2> QED BY <2>1, <2>4
  <1> QED BY <1>5, <1>7, <1>8 DEF Exact

\* One pass of cleanup_select removes one node, which is there.
LEMMA ExactCleanup ==
  ASSUME Shape, CallFacts, NEW t \in Threads, Exact(t), cleanup_select(t)
  PROVE  Exact(t)'
  <1>1. PICK e \in Dir, b \in Channels, i \in 1 .. Len(call[t].entries) :
          e = Cur(t).dir /\ b = Cur(t).chan /\ i = idx[t]
    BY CurEntry DEF cleanup_select
  <1>2. /\ pc[t] = "cleanup" /\ call' = call
        /\ selectors' = [selectors EXCEPT ![e][b][t] = IF @ > 0 THEN @ - 1 ELSE 0]
        /\ idx' = [idx EXCEPT ![t] = IF i < Len(call[t].entries) THEN i + 1 ELSE 1]
        /\ pc' = [pc EXCEPT ![t] = IF i < Len(call[t].entries) THEN @ ELSE "return"]
    BY <1>1 DEF cleanup_select, Advance
  <1>3. Len(call[t].entries) \in Nat
    BY DEF Shape, TypeOK, Call
  <1>4. /\ Registered(t) = i .. Len(call[t].entries)
        /\ Registered(t)' = Registered(t) \ {i}
    <2>1. Registered(t) = i .. Len(call[t].entries)
      BY <1>1, <1>2 DEF Registered
    <2>2. CASE i < Len(call[t].entries)
      <3>1. Registered(t)' = (i + 1) .. Len(call[t].entries)
        BY <1>2, <1>3, <2>2 DEF Registered, Shape, TypeOK
      <3> QED BY <1>3, <2>1, <3>1
    <2>3. CASE ~ (i < Len(call[t].entries))
      <3>1. Registered(t)' = {}
        BY <1>2, <1>3, <2>3 DEF Registered, Shape, TypeOK
      <3> QED BY <1>3, <2>1, <2>3, <3>1
    <2> QED BY <2>1, <2>2, <2>3
  <1> SUFFICES ASSUME NEW c \in Channels, NEW d \in Dir
               PROVE  selectors'[d][c][t] = Cardinality(Marked(t, c, d)')
    BY DEF Exact
  <1>5. /\ c = b /\ d = e => i \in Marked(t, c, d)
        /\ Marked(t, c, d)' = IF c = b /\ d = e THEN Marked(t, c, d) \ {i} ELSE Marked(t, c, d)
    <2>1. call[t].entries[i].chan = b /\ call[t].entries[i].dir = e
      BY <1>1 DEF Cur
    <2>2. i \in Registered(t)
      BY <1>3, <1>4
    <2> QED BY <1>2, <1>4, <2>1, <2>2 DEF Marked
  <1>6. i \in Marked(t, c, d) =>
          /\ Cardinality(Marked(t, c, d)) \in Nat \ {0}
          /\ Cardinality(Marked(t, c, d) \ {i}) = Cardinality(Marked(t, c, d)) - 1
    <2>1. IsFiniteSet(Marked(t, c, d))
      BY MarkedFinite
    <2> QED BY <2>1, FS_RemoveElement, FS_EmptySet, FS_CardinalityType
  <1>7. selectors'[d][c][t] =
          IF c = b /\ d = e
          THEN IF selectors[d][c][t] > 0 THEN selectors[d][c][t] - 1 ELSE 0
          ELSE selectors[d][c][t]
    <2>1. PICK n : n = IF selectors[e][b][t] > 0 THEN selectors[e][b][t] - 1 ELSE 0
      OBVIOUS
    <2>2. SetNodes(e, b, t, n)
      BY <1>2, <2>1 DEF SetNodes
    <2>3. \A dd \in Dir, cc \in Channels, s \in Threads :
            selectors'[dd][cc][s] =
              IF dd = e /\ cc = b /\ s = t THEN n ELSE selectors[dd][cc][s]
      BY <2>2, NodesOf
    <2>4. selectors'[d][c][t] = IF d = e /\ c = b THEN n ELSE selectors[d][c][t]
      BY <2>3
    <2> QED BY <2>1, <2>4
  <1> QED BY <1>5, <1>6, <1>7 DEF Exact

\* The steps that leave the selector lists alone.
LEMMA ExactElse ==
  ASSUME Shape, CallFacts, NEW t \in Threads, Exact(t),
         Invoke(t) \/ Step(t) \/ SpuriousWakeup(t), ~ init_select(t), ~ cleanup_select(t)
  PROVE  Exact(t)' /\ UNCHANGED selectors
  <1>1. /\ pc \in [Threads -> PC] /\ call \in [Threads -> Call]
        /\ idx \in [Threads -> Nat \ {0}] /\ CallFact(t)
    BY DEF Shape, TypeOK, CallFacts
  <1>2. CASE \/ channel_send(t) \/ channel_receive(t)
             \/ channel_non_blocking_send(t) \/ channel_non_blocking_receive(t)
    <2>1. /\ pc[t] \in {"start", "woken"} /\ pc'[t] \in {"notify", "return", "blocked"}
          /\ call[t].kind # "select" /\ UNCHANGED <<call, selectors>>
      BY <1>1, <1>2, OperationKinds DEF AddData, RemoveData, GiveUp, Block, selVars
    <2>2. Registered(t) = {} /\ Registered(t)' = {}
      BY <2>1 DEF Registered, InSelect
    <2> QED BY <2>1, <2>2, ExactKept
  <1>3. CASE Invoke(t)
    <2>1. PICK k \in Program[t] :
            pc' = [pc EXCEPT ![t] = CASE k.kind = "select" -> "register"
                                      [] k.kind = "close"  -> "close"
                                      [] OTHER             -> "start"]
      BY <1>3 DEF Invoke
    <2>2. /\ pc[t] = "idle" /\ pc'[t] \in {"register", "close", "start"}
          /\ UNCHANGED <<selectors, idx>> /\ idx[t] = 1
      BY <1>1, <1>3, <2>1 DEF Invoke, Shape, Indices
    <2>3. Registered(t) = {} /\ Registered(t)' = {}
      BY <2>2 DEF Registered
    <2> QED BY <2>2, <2>3, ExactKept
  <1>4. CASE Return(t) \/ channel_close(t) \/ SpuriousWakeup(t) \/ CheckArguments(t)
    <2>1. /\ pc[t] \notin {"register", "scan", "semwait", "cleanup", "notify", "signal"}
          /\ pc'[t] \notin {"register", "scan", "semwait", "cleanup", "notify", "signal"}
          /\ UNCHANGED selectors
      BY <1>1, <1>4 DEF Return, channel_close, SetClosed, GiveUp, CloseNotify, CloseBroadcast,
                        Broadcast, SpuriousWakeup, CheckArguments, selVars
    <2>2. Registered(t) = {} /\ Registered(t)' = {}
      BY <2>1 DEF Registered
    <2> QED BY <2>1, <2>2, ExactKept
  <1>5. CASE Notify(t) \/ Signal(t) \/ SemWait(t) \/ TryEntry(t)
    <2>1. /\ UNCHANGED <<call, selectors>>
          /\ pc[t] \in {"scan", "semwait", "notify", "signal"}
          /\ InSelect(t) => (pc'[t] \in {"scan", "semwait", "notify", "signal"}
                               \/ (pc'[t] = "cleanup" /\ idx'[t] = 1))
          /\ ~ InSelect(t) => pc'[t] \in {"signal", "return"}
      <3>1. CASE Notify(t) \/ SemWait(t)
        BY <1>1, <3>1 DEF Notify, SemWait, CallFact, InSelect
      <3>2. CASE Signal(t)
        BY <1>1, <3>2 DEF Signal, Waiting, selVars, InSelect
      <3>3. CASE TryEntry(t)
        BY <1>1, <3>3 DEF TryEntry, AddData, RemoveData, Advance, CallFact, InSelect, selVars
      <3> QED BY <1>5, <3>1, <3>2, <3>3
    <2>2. Registered(t)' = Registered(t)
      <3>1. CASE InSelect(t)
        BY <2>1, <3>1 DEF Registered, InSelect
      <3>2. CASE ~ InSelect(t)
        BY <2>1, <3>2 DEF Registered, InSelect
      <3> QED BY <3>1, <3>2
    <2> QED BY <2>1, <2>2, ExactKept
  <1> QED BY <1>2, <1>3, <1>4, <1>5 DEF Step, channel_select

LEMMA ExactStep ==
  ASSUME Shape, CallFacts, \A t \in Threads : Exact(t), [Next]_vars
  PROVE  \A t \in Threads : Exact(t)'
  <1>1. CASE UNCHANGED vars
    <2>1. ASSUME NEW t \in Threads PROVE Exact(t)'
      <3>1. Registered(t)' = Registered(t)
        BY <1>1 DEF vars, Registered, InSelect
      <3> QED BY <1>1, <3>1, ExactKept DEF vars
    <2> QED BY <2>1
  <1>2. ASSUME NEW t \in Threads, Invoke(t) \/ Step(t) \/ SpuriousWakeup(t), NEW s \in Threads
        PROVE  Exact(s)'
    <2>1. Exact(t)' /\ \A d \in Dir, c \in Channels, u \in Threads \ {t} :
                          selectors'[d][c][u] = selectors[d][c][u]
      <3>1. CASE init_select(t) \/ cleanup_select(t)
        <4>1. PICK e \in Dir, b \in Channels : e = Cur(t).dir /\ b = Cur(t).chan
          BY <3>1, CurEntry DEF init_select, cleanup_select
        <4>2. PICK n : SetNodes(e, b, t, n)
          BY <3>1, <4>1 DEF SetNodes, init_select, cleanup_select
        <4> QED BY <3>1, <4>2, NodesOf, ExactRegister, ExactCleanup
      <3>2. CASE ~ init_select(t) /\ ~ cleanup_select(t)
        BY <1>2, <3>2, ExactElse
      <3> QED BY <3>1, <3>2
    <2>2. CASE s # t
      <3>1. Aside(t)
        BY <1>2, StepAside
      <3>2. Registered(s)' = Registered(s) /\ call'[s] = call[s]
        BY <2>2, <3>1, RegisteredAside DEF Aside
      <3> QED BY <2>1, <2>2, <3>2, ExactKept
    <2> QED BY <2>1, <2>2
  <1> QED BY <1>1, <1>2 DEF Next

\* The invariant of the theorems below.
CallInv == Shape /\ CallFacts /\ SelectorsExact

LEMMA CallInvariant == Spec => []CallInv
  <1>1. Init => SelectorsExact
    <2> SUFFICES ASSUME Init, NEW t \in Threads, NEW c \in Channels, NEW d \in Dir
                 PROVE  selectors[d][c][t] = Cardinality(Marked(t, c, d))
      BY ExactSelectors DEF Exact
    <2>1. Marked(t, c, d) = {}
      BY DEF Init, Marked, Registered
    <2> QED BY <2>1, FS_EmptySet DEF Init
  <1>2. Init => CallFacts
    BY DEF Init, CallFacts, CallFact
  <1>3. CallInv /\ [Next]_vars => SelectorsExact'
    <2>1. (SelectorsExact <=> \A t \in Threads : Exact(t))'
      BY ExactSelectors, PTL
    <2> QED BY <2>1, ExactSelectors, ExactStep DEF CallInv
  <1>4. Init => CallInv
    BY <1>1, <1>2, ShapeInit DEF CallInv
  <1>5. CallInv /\ [Next]_vars => CallInv'
    BY <1>3, CallFactsStep, ShapeStep DEF CallInv
  <1> QED BY <1>4, <1>5, PTL DEF Spec

\* For every program the selector lists hold the semaphore of a channel_select
\* exactly as often as its entries have registered it, and never after it has
\* returned: nobody posts a semaphore on the stack of a call that is over.
THEOREM ChannelSelectorsExact == Spec => []SelectorsExact
  <1>1. CallInv => SelectorsExact
    BY DEF CallInv
  <1> QED BY <1>1, CallInvariant, PTL

-----------------------------------------------------------------------------
(* The posts.  The chance of an entry is the same for everybody who selects *)
(* it: the thread that made it posts the list before it goes on.           *)

\* Whoever made channel c ready to do d, or closed it, has still to post.
Posted(c, d) ==
  Ready(c, d) \/ closed[c] => \E s \in Threads : PostDue(s, c, d)

\* A channel_select that has nothing posted has looked at an entry since, or
\* will be posted for it.  It looks at its entries from the first one.
Served(t) ==
  /\ pc[t] = "semwait" => idx[t] = 1
  /\ pc[t] \in {"scan", "semwait"} /\ sem[t] = 0 =>
       \A i \in 1 .. Len(call[t].entries) :
         pc[t] = "semwait" \/ i < idx[t] =>
           Posted(call[t].entries[i].chan, call[t].entries[i].dir)

\* A thread with posts to do keeps them while the others move.
LEMMA DueAside ==
  ASSUME NEW t \in Threads, Aside(t), NEW c \in Channels, NEW d \in Dir,
         NEW s \in Threads, s # t, PostDue(s, c, d)
  PROVE  PostDue(s, c, d)'
  BY DEF Aside, PostDue, Cur

\* A step that neither makes a chance nor posts.
LEMMA PostedAside ==
  ASSUME NEW t \in Threads, Aside(t), NEW c \in Channels, NEW d \in Dir, Posted(c, d),
         pc[t] \notin {"notify", "closeRecvSel", "closeSendSel"},
         Ready(c, d)' => Ready(c, d), closed'[c] => closed[c]
  PROVE  Posted(c, d)'
  <1> SUFFICES ASSUME Ready(c, d) \/ closed[c] PROVE \E s \in Threads : PostDue(s, c, d)'
    BY DEF Posted
  <1>1. PICK s \in Threads : PostDue(s, c, d)
    BY DEF Posted
  <1>2. s # t
    BY <1>1 DEF PostDue
  <1> QED BY <1>1, <1>2, DueAside

\* A transfer makes a chance for the other direction only, and owes its post.
LEMMA PostedTransfer ==
  ASSUME Shape, NEW t \in Threads, Aside(t), NEW c \in Channels, NEW d \in Dir, Posted(c, d),
         pc[t] \in {"start", "woken", "scan"},
         \/ AddData(t) /\ Cur(t).dir = "SEND"
         \/ RemoveData(t) /\ Cur(t).dir = "RECV"
  PROVE  Posted(c, d)'
  <1>1. PICK b \in Channels, e \in Dir : b = Cur(t).chan /\ e = Cur(t).dir
    BY CurEntry
  <1>2. /\ closed' = closed /\ call' = call /\ idx' = idx
        /\ \A x \in Channels : x # b => buffer'[x] = buffer[x]
        /\ \/ /\ e = "SEND" /\ ~ Full(buffer[b])
              /\ buffer'[b].size = buffer[b].size + 1 /\ buffer'[b].capacity = buffer[b].capacity
           \/ /\ e = "RECV" /\ ~ Empty(buffer[b])
              /\ buffer'[b].size = buffer[b].size - 1 /\ buffer'[b].capacity = buffer[b].capacity
    BY <1>1 DEF AddData, RemoveData, buffer_add, buffer_remove, Shape, TypeOK
  <1>3. pc'[t] = "notify"
    BY DEF AddData, RemoveData, Shape, TypeOK
  <1>4. CASE c = b /\ d = Opposite(e)
    <2>1. Cur(t)' = Cur(t)
      BY <1>2 DEF Cur
    <2>2. PostDue(t, c, d)'
      BY <1>1, <1>3, <1>4, <2>1 DEF PostDue, Opposite, Dir
    <2> QED BY <2>2 DEF Posted
  <1>5. CASE ~ (c = b /\ d = Opposite(e))
    <2>1. Ready(c, d)' => Ready(c, d)
      <3>1. CASE c # b
        BY <1>2, <3>1 DEF Ready
      <3>2. CASE c = b /\ d = e
        <4>1. buffer[b] \in BufferType(Capacity[b], V) /\ Capacity[b] \in Nat
          BY CapacityAssumption DEF Shape, TypeOK, V
        <4>2. buffer[b].size \in Nat /\ buffer[b].capacity \in Nat
          BY <4>1 DEF BufferType
        <4> QED BY <1>2, <3>2, <4>2 DEF Ready, Full, Empty
      <3> QED BY <1>5, <3>1, <3>2 DEF Opposite, Dir
    <2> QED BY <1>2, <2>1, PostedAside
  <1> QED BY <1>4, <1>5

\* A step of notify_select_senders or notify_select_receivers.
LEMMA PostedNotify ==
  ASSUME Shape, NEW t \in Threads, Aside(t), NEW c \in Channels, NEW d \in Dir, Posted(c, d),
         Notify(t) \/ CloseNotify(t)
  PROVE  Posted(c, d)' \/ Post(d, c)
  <1>1. PICK b \in Channels, e \in Dir : b = Cur(t).chan /\ e = Cur(t).dir
    BY CurEntry DEF Notify, CloseNotify
  <1>2. buffer' = buffer /\ closed' = closed /\ call' = call /\ idx' = idx
    BY DEF Notify, CloseNotify, chanVars
  <1> SUFFICES ASSUME Ready(c, d) \/ closed[c]
               PROVE  (\E s \in Threads : PostDue(s, c, d)') \/ Post(d, c)
    BY <1>2 DEF Posted, Ready
  <1>3. PICK s \in Threads : PostDue(s, c, d)
    BY DEF Posted
  <1>4. CASE s # t
    BY <1>3, <1>4, DueAside
  <1>5. CASE s = t
    <2>1. c = b /\ Cur(t)' = Cur(t)
      BY <1>1, <1>2, <1>3, <1>5 DEF PostDue, Cur
    <2>2. CASE Notify(t)
      BY <1>1, <1>3, <1>5, <2>1, <2>2
         DEF Notify, PostDue, Opposite, Dir, notify_select_senders, notify_select_receivers
    <2>3. CASE pc[t] = "closeRecvSel" /\ CloseNotify(t)
      <3>1. pc'[t] = "closeSendSel" /\ Post("RECV", b)
        BY <1>1, <2>3 DEF CloseNotify, notify_select_receivers, Shape, TypeOK
      <3>2. d = "SEND" => PostDue(t, c, d)'
        BY <1>1, <2>1, <3>1 DEF PostDue
      <3> QED BY <2>1, <3>1, <3>2 DEF Dir
    <2>4. CASE pc[t] = "closeSendSel" /\ CloseNotify(t)
      BY <1>1, <1>3, <1>5, <2>1, <2>4 DEF CloseNotify, notify_select_senders, PostDue
    <2> QED BY <2>2, <2>3, <2>4 DEF CloseNotify
  <1> QED BY <1>4, <1>5

\* channel_close owes both lists a post.
LEMMA PostedClose ==
  ASSUME Shape, NEW t \in Threads, Aside(t), NEW c \in Channels, NEW d \in Dir, Posted(c, d),
         SetClosed(t)
  PROVE  Posted(c, d)'
  <1>1. PICK b \in Channels : b = Cur(t).chan
    BY CurEntry DEF SetClosed
  <1>2. buffer' = buffer /\ call' = call /\ idx' = idx /\ pc[t] = "close"
    BY DEF SetClosed, GiveUp, chanVars
  <1>3. \/ closed' = closed
        \/ closed' = [closed EXCEPT ![b] = TRUE] /\ pc'[t] = "closeRecvSel"
    BY <1>1 DEF SetClosed, GiveUp, chanVars, Shape, TypeOK
  <1>4. CASE closed'[c] => closed[c]
    BY <1>2, <1>4, PostedAside DEF Ready
  <1>5. CASE c = b /\ pc'[t] = "closeRecvSel"
    <2>1. PostDue(t, c, d)'
      BY <1>1, <1>2, <1>5 DEF PostDue, Cur
    <2> QED BY <2>1 DEF Posted
  <1> QED BY <1>3, <1>4, <1>5 DEF Shape, TypeOK

LEMMA PostedStep ==
  ASSUME Shape, NEW t \in Threads, Invoke(t) \/ Step(t) \/ SpuriousWakeup(t),
         NEW c \in Channels, NEW d \in Dir, Posted(c, d)
  PROVE  Posted(c, d)' \/ Post(d, c)
  <1>1. Aside(t)
    BY StepAside
  <1>2. CASE UNCHANGED <<buffer, closed>> /\ pc[t] \notin {"notify", "closeRecvSel", "closeSendSel"}
    BY <1>1, <1>2, PostedAside DEF Ready
  <1>3. CASE \/ channel_send(t) \/ channel_receive(t)
             \/ channel_non_blocking_send(t) \/ channel_non_blocking_receive(t)
    BY <1>1, <1>2, <1>3, OperationKinds, PostedTransfer DEF GiveUp, Block, chanVars
  <1>4. CASE Invoke(t) \/ Return(t) \/ Signal(t) \/ SpuriousWakeup(t) \/ CloseBroadcast(t)
    BY <1>2, <1>4 DEF Invoke, Return, Signal, SpuriousWakeup, CloseBroadcast, chanVars
  <1>5. CASE channel_select(t)
    <2>1. CASE TryEntry(t)
      BY <1>1, <1>2, <2>1, PostedTransfer DEF TryEntry, chanVars
    <2>2. CASE CheckArguments(t) \/ init_select(t) \/ SemWait(t) \/ cleanup_select(t)
      BY <1>2, <2>2 DEF CheckArguments, GiveUp, init_select, SemWait, cleanup_select, chanVars
    <2> QED BY <1>5, <2>1, <2>2 DEF channel_select
  <1> QED BY <1>1, <1>3, <1>4, <1>5, PostedNotify, PostedClose DEF Step, channel_close

\* While a channel_select waits or tries its entries, each of them has its
\* semaphore in a list.
LEMMA NodeThere ==
  ASSUME Shape, CallFacts, SelectorsExact, NEW t \in Threads, pc[t] \in {"scan", "semwait"},
         NEW i \in 1 .. Len(call[t].entries), NEW c \in Channels, NEW d \in Dir,
         call[t].entries[i].chan = c, call[t].entries[i].dir = d
  PROVE  selectors[d][c][t] \in Nat \ {0}
  <1>1. i \in Marked(t, c, d)
    BY DEF Marked, Registered, InSelect, CallFacts, CallFact
  <1>2. IsFiniteSet(Marked(t, c, d))
    BY MarkedFinite
  <1>3. Cardinality(Marked(t, c, d)) \in Nat /\ Cardinality(Marked(t, c, d)) # 0
    BY <1>1, <1>2, FS_CardinalityType, FS_EmptySet
  <1>4. selectors[d][c][t] = Cardinality(Marked(t, c, d))
    BY ExactSelectors DEF Exact
  <1> QED BY <1>3, <1>4

\* Only its own sem_wait takes a post away from a channel_select.
LEMMA SemGrows ==
  ASSUME Shape, NEW t \in Threads, Invoke(t) \/ Step(t) \/ SpuriousWakeup(t),
         NEW s \in Threads \ {t}
  PROVE  sem'[s] \in Nat /\ sem'[s] >= sem[s]
  <1>1. sem \in [Threads -> Nat] /\ sem[s] \in Nat
    BY DEF Shape, TypeOK
  <1>2. CASE Notify(t) \/ CloseNotify(t)
    <2>1. PICK c \in Channels, d \in Dir : Post(d, c)
      BY <1>2, CurEntry DEF Notify, CloseNotify, notify_select_senders,
                            notify_select_receivers, Dir
    <2>2. selectors[d][c][s] \in Nat
      BY DEF Shape, TypeOK
    <2> QED BY <1>1, <2>1, <2>2 DEF Post
  <1>3. CASE \/ channel_send(t) \/ channel_receive(t)
             \/ channel_non_blocking_send(t) \/ channel_non_blocking_receive(t)
    BY <1>1, <1>3, OperationKinds DEF AddData, RemoveData, GiveUp, Block, selVars
  <1>4. CASE \/ Invoke(t) \/ Return(t) \/ Signal(t) \/ SpuriousWakeup(t)
             \/ CloseBroadcast(t) \/ SetClosed(t)
    BY <1>1, <1>4 DEF Invoke, Return, Signal, SpuriousWakeup, CloseBroadcast, SetClosed,
                      GiveUp, selVars
  <1>5. CASE channel_select(t)
    BY <1>1, <1>5 DEF channel_select, CheckArguments, init_select, TryEntry, SemWait,
                      cleanup_select, GiveUp, AddData, RemoveData, selVars
  <1> QED BY <1>2, <1>3, <1>4, <1>5 DEF Step, channel_close

LEMMA EntryOf ==
  ASSUME Shape, NEW t \in Threads, NEW i \in 1 .. Len(call[t].entries)
  PROVE  call[t].entries[i].chan \in Channels /\ call[t].entries[i].dir \in Dir
  <1>1. call[t].entries \in Seq(Entry)
    BY DEF Shape, TypeOK, Call
  <1>2. call[t].entries[i] \in Entry
    BY <1>1
  <1> QED BY <1>2 DEF Entry

\* A step of another thread.
LEMMA ServedAside ==
  ASSUME CallInv, NEW t \in Threads, Invoke(t) \/ Step(t) \/ SpuriousWakeup(t),
         NEW s \in Threads \ {t}, Served(s)
  PROVE  Served(s)'
  <1>1. Shape /\ CallFacts /\ SelectorsExact /\ Aside(t)
    BY StepAside DEF CallInv
  <1>2. /\ call'[s] = call[s] /\ idx'[s] = idx[s]
        /\ pc'[s] = pc[s] \/ (pc[s] = "blocked" /\ pc'[s] = "woken")
    BY <1>1 DEF Aside
  <1> SUFFICES ASSUME pc[s] \in {"scan", "semwait"}, pc'[s] = pc[s], sem'[s] = 0,
                      NEW i \in 1 .. Len(call[s].entries),
                      pc[s] = "semwait" \/ i < idx[s]
               PROVE  Posted(call[s].entries[i].chan, call[s].entries[i].dir)'
    BY <1>2 DEF Served
  <1>3. PICK c \in Channels, d \in Dir :
          c = call[s].entries[i].chan /\ d = call[s].entries[i].dir
    BY <1>1, EntryOf
  <1>4. sem[s] \in Nat /\ sem[s] = 0
    <2>1. sem[s] \in Nat
      BY <1>1 DEF Shape, TypeOK
    <2>2. sem'[s] \in Nat /\ sem'[s] >= sem[s]
      BY <1>1, SemGrows
    <2> QED BY <2>1, <2>2
  <1>5. Posted(c, d)
    BY <1>3, <1>4 DEF Served
  <1>6. ~ Post(d, c)
    <2>1. selectors[d][c][s] \in Nat \ {0}
      BY <1>1, <1>3, NodeThere
    <2> QED BY <1>4, <2>1 DEF Post
  <1>7. Posted(c, d)'
    BY <1>1, <1>5, <1>6, PostedStep
  <1> QED BY <1>2, <1>3, <1>7

\* A step of the channel_select itself.
LEMMA ServedSelf ==
  ASSUME CallInv, NEW t \in Threads, Invoke(t) \/ Step(t) \/ SpuriousWakeup(t), Served(t)
  PROVE  Served(t)'
  <1>1. /\ Shape /\ Aside(t) /\ pc \in [Threads -> PC] /\ idx \in [Threads -> Nat \ {0}]
        /\ CallFact(t)
    BY StepAside DEF CallInv, CallFacts, Shape, TypeOK
  <1>2. CASE pc'[t] \notin {"scan", "semwait"}
    BY <1>2 DEF Served
  <1>3. CASE TryEntry(t) /\ pc'[t] \in {"scan", "semwait"}
    <2>1. PICK b \in Channels, e \in Dir, j \in 1 .. Len(call[t].entries) :
            b = Cur(t).chan /\ e = Cur(t).dir /\ j = idx[t]
      BY <1>1, <1>3, CurEntry DEF TryEntry
    <2>2. /\ ~ closed[b] /\ ~ Ready(b, e) /\ buffer' = buffer /\ closed' = closed
          /\ sem' = sem /\ call' = call /\ pc[t] = "scan"
          /\ idx'[t] = IF j < Len(call[t].entries) THEN j + 1 ELSE 1
          /\ pc'[t] = IF j < Len(call[t].entries) THEN "scan" ELSE "semwait"
      BY <1>1, <1>3, <2>1 DEF TryEntry, AddData, RemoveData, Advance, chanVars, selVars
    <2>3. Len(call[t].entries) \in Nat
      BY <1>1 DEF Shape, TypeOK, Call
    <2>4. ASSUME sem[t] = 0, NEW i \in 1 .. Len(call[t].entries), i <= j
          PROVE  Posted(call[t].entries[i].chan, call[t].entries[i].dir)'
      <3>1. PICK c \in Channels, d \in Dir :
              c = call[t].entries[i].chan /\ d = call[t].entries[i].dir
        BY <1>1, EntryOf
      <3>2. Posted(c, d)
        <4>1. CASE i = j
          BY <2>1, <2>2, <3>1, <4>1 DEF Posted, Cur
        <4>2. CASE i < j
          BY <2>1, <2>2, <2>4, <3>1, <4>2 DEF Served
        <4> QED BY <2>4, <4>1, <4>2
      <3>3. Posted(c, d)'
        BY <1>1, <2>2, <3>2, PostedAside DEF Ready
      <3> QED BY <2>2, <3>1, <3>3
    <2>5. ASSUME NEW i \in 1 .. Len(call[t].entries), pc'[t] = "semwait" \/ i < idx'[t]
          PROVE  i <= j
      BY <2>2, <2>3, <2>5
    <2> QED BY <2>2, <2>4, <2>5 DEF Served
  <1>4. CASE (init_select(t) \/ SemWait(t)) /\ pc'[t] \in {"scan", "semwait"}
    <2>1. pc'[t] = "scan" /\ idx'[t] = 1
      BY <1>1, <1>4 DEF init_select, SemWait, Advance, Served
    <2> QED BY <2>1 DEF Served
  <1>5. CASE ~ TryEntry(t) /\ ~ init_select(t) /\ ~ SemWait(t)
    <2>1. CASE \/ channel_send(t) \/ channel_receive(t)
               \/ channel_non_blocking_send(t) \/ channel_non_blocking_receive(t)
      BY <1>1, <1>2, <2>1, OperationKinds DEF AddData, RemoveData, GiveUp, Block
    <2>2. CASE Invoke(t)
      <3>1. pc'[t] \in {"register", "close", "start"}
        BY <1>1, <2>2 DEF Invoke
      <3> QED BY <1>2, <3>1
    <2>3. CASE \/ Return(t) \/ SpuriousWakeup(t) \/ Notify(t) \/ channel_close(t)
      BY <1>1, <1>2, <2>3 DEF Return, SpuriousWakeup, Notify, channel_close, SetClosed,
                              GiveUp, CloseNotify, CloseBroadcast, Broadcast
    <2>4. CASE Signal(t)
      <3>1. pc'[t] \in {"cleanup", "return"}
        BY <1>1, <2>4 DEF Signal, Waiting
      <3> QED BY <1>2, <3>1
    <2>5. CASE cleanup_select(t)
      BY <1>1, <1>2, <2>5 DEF cleanup_select, Advance
    <2>6. CASE CheckArguments(t)
      BY <1>1, <1>2, <2>6 DEF CheckArguments, GiveUp
    <2> QED BY <1>5, <2>1, <2>2, <2>3, <2>4, <2>5, <2>6 DEF Step, channel_select
  <1> QED BY <1>2, <1>3, <1>4, <1>5

LEMMA ServedStep ==
  ASSUME CallInv, \A t \in Threads : Served(t), [Next]_vars
  PROVE  \A t \in Threads : Served(t)'
  <1>1. CASE UNCHANGED vars
    <2>1. \A c, d : Posted(c, d)' <=> Posted(c, d)
      BY <1>1 DEF vars, Posted, Ready, PostDue, Cur
    <2> QED BY <1>1, <2>1 DEF vars, Served
  <1>2. ASSUME NEW t \in Threads, Invoke(t) \/ Step(t) \/ SpuriousWakeup(t)
        PROVE  \A s \in Threads : Served(s)'
    BY <1>2, ServedAside, ServedSelf
  <1> QED BY <1>1, <1>2 DEF Next

\* For every program a channel_select in sem_wait with nothing posted is not
\* left behind: a channel that could serve it, or is closed, has a thread that
\* will post it.  The posts come after chan_mutex is released, so the select
\* may have registered, tried its entries and gone to sleep in between.
THEOREM ChannelNoLostPost == Spec => []NoLostPost
  <1>1. Init => \A t \in Threads : Served(t)
    BY DEF Init, Served
  <1>2. Spec => [](\A t \in Threads : Served(t))
    <2>1. CallInv /\ (\A t \in Threads : Served(t)) /\ [Next]_vars
            => (\A t \in Threads : Served(t))'
      BY ServedStep
    <2> QED BY <1>1, <2>1, CallInvariant, PTL DEF Spec
  <1>3. (\A t \in Threads : Served(t)) => NoLostPost
    BY DEF Served, Posted, NoLostPost
  <1> QED BY <1>2, <1>3, PTL
=============================================================================
