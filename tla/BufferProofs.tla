---------------------------- MODULE BufferProofs ----------------------------
(***************************************************************************)
(* buffer.c implements a bounded FIFO queue, for every capacity.           *)
(***************************************************************************)
EXTENDS Buffer, SequenceTheorems, TLAPS

-----------------------------------------------------------------------------
(* What the operations do to the contents, for every position of next.     *)

\* buffer_create yields an empty buffer of the capacity it was asked for.
LEMMA CreateBuffer ==
  ASSUME NEW cap \in Nat \ {0}, NEW V, NEW junk \in V
  PROVE  /\ buffer_create(cap, junk) \in BufferType(cap, V)
         /\ Contents(buffer_create(cap, junk)) = <<>>
  <1>1. buffer_create(cap, junk) \in BufferType(cap, V)
    BY DEF buffer_create, BufferType
  <1>2. buffer_create(cap, junk).size = 0
    BY DEF buffer_create
  <1>3. Contents(buffer_create(cap, junk)) = <<>>
    BY <1>2 DEF Contents
  <1> QED BY <1>1, <1>3

\* An index less than the capacity past next wraps at most once.
LEMMA WrapRange ==
  ASSUME NEW cap \in Nat \ {0}, NEW V, NEW b \in BufferType(cap, V),
         NEW k \in 0 .. (cap - 1)
  PROVE  Wrap(b, b.next + k) \in 0 .. (cap - 1)
  BY DEF BufferType, Wrap

\* Contents is the sequence of the live slots.
LEMMA ContentsSeq ==
  ASSUME NEW cap \in Nat \ {0}, NEW V, NEW b \in BufferType(cap, V)
  PROVE  /\ Contents(b) \in Seq(V)
         /\ Len(Contents(b)) = b.size
         /\ \A i \in 1 .. b.size :
              Contents(b)[i] = b.data[Wrap(b, b.next + i - 1)]
  <1>1. b.size \in 0 .. cap
    BY DEF BufferType
  <1>2. ASSUME NEW i \in 1 .. b.size
        PROVE  b.data[Wrap(b, b.next + i - 1)] \in V
    <2>1. i - 1 \in 0 .. cap /\ i - 1 < cap
      BY <1>1
    <2>2. Wrap(b, b.next + (i - 1)) \in 0 .. (cap - 1)
      BY <2>1, WrapRange
    <2>3. b.next + (i - 1) = b.next + i - 1
      BY <1>1 DEF BufferType
    <2> QED BY <2>2, <2>3 DEF BufferType
  <1>3. Contents(b) \in [1 .. b.size -> V]
    BY <1>2 DEF Contents
  <1>4. b.size \in Nat
    BY <1>1
  <1>5. Contents(b) \in Seq(V)
    BY <1>3, <1>4
  <1>6. Len(Contents(b)) = b.size
    BY <1>3, <1>4, <1>5
  <1> QED BY <1>5, <1>6 DEF Contents

\* buffer_add on a buffer with room appends to the contents.
LEMMA AddAppends ==
  ASSUME NEW cap \in Nat \ {0}, NEW V, NEW b \in BufferType(cap, V),
         NEW v \in V, ~ Full(b)
  PROVE  /\ buffer_add(b, v) \in BufferType(cap, V)
         /\ buffer_add(b, v).size = b.size + 1
         /\ Contents(buffer_add(b, v)) = Append(Contents(b), v)
  <1> DEFINE p == Wrap(b, b.next + b.size)
             a == buffer_add(b, v)
  <1>1. /\ b.size \in 0 .. (cap - 1) /\ b.capacity = cap
        /\ b.next \in 0 .. (cap - 1) /\ b.data \in [0 .. (cap - 1) -> V]
    BY DEF BufferType, Full
  <1>2. p \in 0 .. (cap - 1)
    BY <1>1 DEF Wrap
  <1>3. /\ a.data = [b.data EXCEPT ![p] = v] /\ a.size = b.size + 1
        /\ a.next = b.next /\ a.capacity = b.capacity
    BY DEF buffer_add, BufferType
  <1>4. a \in BufferType(cap, V)
    <2>1. [b.data EXCEPT ![p] = v] \in [0 .. (cap - 1) -> V]
      BY <1>1, <1>2
    <2>2. a = [data |-> [b.data EXCEPT ![p] = v], size |-> b.size + 1,
               next |-> b.next, capacity |-> b.capacity]
      BY DEF buffer_add
    <2>3. b.size + 1 \in 0 .. cap
      BY <1>1
    <2> HIDE DEF a, p
    <2> QED BY <1>1, <2>1, <2>2, <2>3 DEF BufferType
  <1>5. /\ Contents(a) \in Seq(V) /\ Len(Contents(a)) = b.size + 1
        /\ \A i \in 1 .. (b.size + 1) :
             Contents(a)[i] = a.data[Wrap(a, a.next + i - 1)]
    BY <1>3, <1>4, ContentsSeq
  <1>6. /\ Contents(b) \in Seq(V) /\ Len(Contents(b)) = b.size
        /\ \A i \in 1 .. b.size :
             Contents(b)[i] = b.data[Wrap(b, b.next + i - 1)]
    BY ContentsSeq
  <1>7. ASSUME NEW i \in 1 .. (b.size + 1)
        PROVE  Contents(a)[i] = Append(Contents(b), v)[i]
    <2>1. Contents(a)[i] = a.data[Wrap(b, b.next + (i - 1))]
      BY <1>1, <1>3, <1>5 DEF Wrap
    <2>2. CASE i = b.size + 1
      BY <1>1, <1>2, <1>3, <1>6, <2>1, <2>2
    <2>3. CASE i # b.size + 1
      <3>1. i \in 1 .. b.size
        BY <1>1, <2>3
      <3>2. Wrap(b, b.next + (i - 1)) # p
        BY <1>1, <3>1 DEF Wrap
      <3>3. Wrap(b, b.next + (i - 1)) \in 0 .. (cap - 1)
        BY <1>1, <3>1 DEF Wrap
      <3>4. a.data[Wrap(b, b.next + (i - 1))] = b.data[Wrap(b, b.next + (i - 1))]
        BY <1>1, <1>3, <3>2, <3>3
      <3>5. b.next + (i - 1) = b.next + i - 1
        BY <1>1
      <3>6. Append(Contents(b), v)[i] = Contents(b)[i]
        BY <1>6, <3>1
      <3> QED BY <1>6, <2>1, <3>1, <3>4, <3>5, <3>6
    <2> QED BY <2>2, <2>3
  <1>8. Append(Contents(b), v) \in Seq(V) /\ Len(Append(Contents(b), v)) = b.size + 1
    BY <1>6, AppendProperties
  <1>9. Contents(a) = Append(Contents(b), v)
    <2> HIDE DEF a, p
    <2> QED BY <1>5, <1>7, <1>8, SeqEqual
  <1> QED BY <1>3, <1>4, <1>9

\* buffer_remove on a buffer with a value hands out the oldest value and
\* drops it from the contents.
LEMMA RemoveTakesHead ==
  ASSUME NEW cap \in Nat \ {0}, NEW V, NEW b \in BufferType(cap, V),
         ~ Empty(b)
  PROVE  /\ buffer_remove(b) \in BufferType(cap, V)
         /\ buffer_remove(b).size = b.size - 1
         /\ Contents(b) # <<>>
         /\ buffer_front(b) = Head(Contents(b))
         /\ buffer_front(b) \in V
         /\ Contents(buffer_remove(b)) = Tail(Contents(b))
  <1> DEFINE a == buffer_remove(b)
  <1>1. /\ b.size \in 1 .. cap /\ b.capacity = cap
        /\ b.next \in 0 .. (cap - 1) /\ b.data \in [0 .. (cap - 1) -> V]
    BY DEF BufferType, Empty
  <1>2. /\ a.data = b.data /\ a.size = b.size - 1
        /\ a.next = Wrap(b, b.next + 1) /\ a.capacity = b.capacity
    BY DEF buffer_remove, BufferType
  <1>3. a \in BufferType(cap, V)
    <2>1. Wrap(b, b.next + 1) \in 0 .. (cap - 1)
      BY <1>1 DEF Wrap
    <2>2. a = [data |-> b.data, size |-> b.size - 1,
               next |-> Wrap(b, b.next + 1), capacity |-> b.capacity]
      BY DEF buffer_remove
    <2>3. b.size - 1 \in 0 .. cap
      BY <1>1
    <2> HIDE DEF a
    <2> QED BY <1>1, <2>1, <2>2, <2>3 DEF BufferType
  <1>4. /\ Contents(a) \in Seq(V) /\ Len(Contents(a)) = b.size - 1
        /\ \A i \in 1 .. (b.size - 1) :
             Contents(a)[i] = a.data[Wrap(a, a.next + i - 1)]
    BY <1>2, <1>3, ContentsSeq
  <1>5. /\ Contents(b) \in Seq(V) /\ Len(Contents(b)) = b.size
        /\ \A i \in 1 .. b.size :
             Contents(b)[i] = b.data[Wrap(b, b.next + i - 1)]
    BY ContentsSeq
  <1>6. Contents(b) # <<>>
    BY <1>1, <1>5
  <1>7. buffer_front(b) = Head(Contents(b)) /\ buffer_front(b) \in V
    BY <1>1, <1>5, <1>6 DEF buffer_front, Wrap
  <1>8. /\ Tail(Contents(b)) \in Seq(V) /\ Len(Tail(Contents(b))) = b.size - 1
        /\ \A i \in 1 .. (b.size - 1) : Tail(Contents(b))[i] = Contents(b)[i + 1]
    BY <1>1, <1>5, <1>6
  <1>9. ASSUME NEW i \in 1 .. (b.size - 1)
        PROVE  Contents(a)[i] = Tail(Contents(b))[i]
    <2>1. Wrap(a, a.next + i - 1) = Wrap(b, b.next + (i + 1) - 1)
      BY <1>1, <1>2 DEF Wrap
    <2>2. i + 1 \in 1 .. b.size
      BY <1>1
    <2> QED BY <1>2, <1>4, <1>5, <1>8, <2>1, <2>2
  <1>10. Contents(a) = Tail(Contents(b))
    <2> HIDE DEF a
    <2> QED BY <1>4, <1>8, <1>9, SeqEqual
  <1> QED BY <1>2, <1>3, <1>6, <1>7, <1>10

-----------------------------------------------------------------------------
(* The theorems.                                                           *)

\* Every index buffer.c computes stays inside the array and the size inside
\* 0 .. capacity, whatever the order of the calls.
THEOREM BufferTypeCorrect == Spec => []TypeOK
  <1> USE BufferAssumption
  <1>1. Init => TypeOK
    <2> SUFFICES ASSUME Init PROVE TypeOK
      OBVIOUS
    <2>1. buffer_create(Capacity, Junk) \in BufferType(Capacity, Data \cup {Junk})
      BY CreateBuffer
    <2> QED BY <2>1 DEF Init, TypeOK, Status
  <1>2. TypeOK /\ [Next]_vars => TypeOK'
    <2> SUFFICES ASSUME TypeOK, [Next]_vars PROVE TypeOK'
      OBVIOUS
    <2>1. ASSUME NEW v \in Data, Add(v) PROVE TypeOK'
      <3>1. ~ Full(buffer) =>
              buffer_add(buffer, v) \in BufferType(Capacity, Data \cup {Junk})
        BY AddAppends DEF TypeOK
      <3> QED BY <2>1, <3>1 DEF Add, TypeOK, Status
    <2>2. CASE Remove
      <3>1. ~ Empty(buffer) =>
              /\ buffer_remove(buffer) \in BufferType(Capacity, Data \cup {Junk})
              /\ buffer_front(buffer) \in Data \cup {Junk}
        BY RemoveTakesHead DEF TypeOK
      <3> QED BY <2>2, <3>1 DEF Remove, TypeOK, Status
    <2>3. CASE UNCHANGED vars
      BY <2>3 DEF vars, TypeOK
    <2> QED BY <2>1, <2>2, <2>3 DEF Next
  <1> QED BY <1>1, <1>2, PTL DEF Spec

\* buffer_remove never hands out a word of the uninitialised array.
THEOREM BufferNoJunk == Spec => []NoJunk
  <1> USE BufferAssumption
  <1>1. Init => NoJunk
    <2>1. Contents(buffer_create(Capacity, Junk)) = <<>>
      BY CreateBuffer
    <2>2. <<>> \in Seq(Data)
      OBVIOUS
    <2> QED BY <2>1, <2>2 DEF Init, NoJunk
  <1>2. TypeOK /\ NoJunk /\ [Next]_vars => NoJunk'
    <2> SUFFICES ASSUME TypeOK, NoJunk, [Next]_vars PROVE NoJunk'
      OBVIOUS
    <2>1. ASSUME NEW v \in Data, Add(v) PROVE NoJunk'
      <3>1. ~ Full(buffer) =>
              Contents(buffer_add(buffer, v)) = Append(Contents(buffer), v)
        BY AddAppends DEF TypeOK
      <3>2. Append(Contents(buffer), v) \in Seq(Data)
        BY AppendProperties DEF NoJunk
      <3> QED BY <2>1, <3>1, <3>2 DEF Add, NoJunk
    <2>2. CASE Remove
      <3>1. ~ Empty(buffer) =>
              /\ Contents(buffer) # <<>>
              /\ Contents(buffer_remove(buffer)) = Tail(Contents(buffer))
        BY RemoveTakesHead DEF TypeOK
      <3>2. Contents(buffer) # <<>> => Tail(Contents(buffer)) \in Seq(Data)
        BY HeadTailProperties DEF NoJunk
      <3> QED BY <2>2, <3>1, <3>2 DEF Remove, NoJunk
    <2>3. CASE UNCHANGED vars
      BY <2>3 DEF vars, NoJunk, Contents
    <2> QED BY <2>1, <2>2, <2>3 DEF Next
  <1> QED BY <1>1, <1>2, BufferTypeCorrect, PTL DEF Spec

\* The mapping from the ring of slots to its contents is a refinement of
\* BoundedFifo: buffer_add is Append, buffer_remove is Head and Tail, and each
\* fails exactly when the queue is full or empty.
THEOREM BufferRefinesFifo == Spec => RefinesBoundedFifo
  <1> USE BufferAssumption
  <1>1. Init => Fifo!Init
    BY CreateBuffer DEF Init, Fifo!Init
  <1>2. TypeOK /\ [Next]_vars => [Fifo!Next]_(Fifo!vars)
    <2> SUFFICES ASSUME TypeOK, [Next]_vars
                 PROVE  [Fifo!Next]_(Fifo!vars)
      OBVIOUS
    <2>0. /\ buffer \in BufferType(Capacity, Data \cup {Junk})
          /\ Len(Contents(buffer)) = buffer.size
          /\ buffer.size \in 0 .. Capacity /\ buffer.capacity = Capacity
      BY ContentsSeq DEF TypeOK, BufferType
    <2>1. ASSUME NEW v \in Data, Add(v) PROVE Fifo!Add(v)
      <3>1. CASE ~ Full(buffer)
        <4>1. Contents(buffer_add(buffer, v)) = Append(Contents(buffer), v)
          BY <2>0, <3>1, AddAppends
        <4>2. Len(Contents(buffer)) < Capacity
          BY <2>0, <3>1 DEF Full
        <4> QED BY <2>1, <3>1, <4>1, <4>2 DEF Add, Fifo!Add
      <3>2. CASE Full(buffer)
        <4>1. Len(Contents(buffer)) = Capacity
          BY <2>0, <3>2 DEF Full
        <4> QED BY <2>1, <3>2, <4>1 DEF Add, Fifo!Add
      <3> QED BY <3>1, <3>2
    <2>2. CASE Remove
      <3>1. CASE ~ Empty(buffer)
        <4>1. /\ Contents(buffer) # <<>>
              /\ buffer_front(buffer) = Head(Contents(buffer))
              /\ Contents(buffer_remove(buffer)) = Tail(Contents(buffer))
          BY <2>0, <3>1, RemoveTakesHead
        <4> QED BY <2>2, <3>1, <4>1 DEF Remove, Fifo!Remove, Fifo!Next
      <3>2. CASE Empty(buffer)
        <4>1. Contents(buffer) = <<>>
          BY <2>0, <3>2 DEF Empty, Contents
        <4> QED BY <2>2, <3>2, <4>1 DEF Remove, Fifo!Remove, Fifo!Next
      <3> QED BY <3>1, <3>2
    <2>3. CASE UNCHANGED vars
      BY <2>3 DEF vars, Fifo!vars, Contents
    <2> QED BY <2>1, <2>2, <2>3 DEF Next, Fifo!Next
  <1> QED BY <1>1, <1>2, BufferTypeCorrect, PTL DEF Spec, Fifo!Spec, RefinesBoundedFifo
=============================================================================
