--------------------------- MODULE RoutersProofs ---------------------------
(***************************************************************************)
(* The vectors that routers pass by pointer, proved for every network: no  *)
(* pointer that a router may still follow leads to the vector that its     *)
(* owner is writing.                                                       *)
(*                                                                         *)
(* The argument follows one link from s to t.  Per value of curr_state, s  *)
(* sends to t once, and it moves on only when it has sent to everyone.  A  *)
(* send needs the one slot of t's channel to be empty, so of the vectors   *)
(* sent to t at most the last may be in the channel and the one before it  *)
(* in t's hands.  Both are at most two behind curr_state, and next_state,  *)
(* three behind in the cycle of four, is neither.                          *)
(***************************************************************************)
EXTENDS Routers, TLAPS

Pointers == Routers \X (0 .. 3)
Messages == {Null} \cup Pointers

\* The vector that s has sent to t last, or would have.
Last(s, t) == IF t \in unsent[s] THEN Ahead(curr[s], 3) ELSE curr[s]

Slots ==
  /\ channels \in [Routers -> Seq(Messages)]
  /\ \A t \in Routers : Len(channels[t]) <= main_buffer_size
  /\ data \in [Routers -> Messages]
  /\ curr \in [Routers -> 0 .. 3]
  /\ unsent \in [Routers -> SUBSET Routers]
  /\ DOMAIN pc = Routers
  /\ \A r \in Routers : /\ unsent[r] \subseteq Neighbours(r)
                        /\ data[r] # Null => pc[r] = "update"

\* The pointer to vector b of s in t's channel and in t's hands.
Link(s, t, b) ==
  /\ channels[t] = << <<s, b>> >> => t \in Neighbours(s) /\ b = Last(s, t)
  /\ data[t] = <<s, b>> =>
       /\ t \in Neighbours(s)
       /\ \/ b = Last(s, t)
          \/ b = Ahead(Last(s, t), 3) /\ channels[t] = << <<s, Last(s, t)>> >>

Links == \A s, t \in Routers, b \in 0 .. 3 : Link(s, t, b)

LinkInv == Slots /\ Links

LEMMA AheadValue ==
  \A b \in 0 .. 3 : /\ Ahead(b, 1) = IF b = 3 THEN 0 ELSE b + 1
                    /\ Ahead(b, 3) = IF b = 0 THEN 3 ELSE b - 1
  BY DEF Ahead

\* A channel has one slot.
LEMMA EmptySlot ==
  ASSUME NEW q \in Seq(Messages), Len(q) < main_buffer_size
  PROVE  q = <<>> /\ \A m : Append(q, m) = <<m>>
  <1>1. Len(q) \in Nat /\ Len(q) = 0
    BY DEF main_buffer_size
  <1>2. q = <<>>
    BY <1>1
  <1> QED BY <1>2

LEMMA FullSlot ==
  ASSUME NEW q \in Seq(Messages), Len(q) <= main_buffer_size
  PROVE  \A i \in DOMAIN q : i = 1 /\ q[i] \in Messages /\ q = <<q[i]>>
  <1> SUFFICES ASSUME NEW i \in DOMAIN q PROVE i = 1 /\ q[i] \in Messages /\ q = <<q[i]>>
    OBVIOUS
  <1>1. Len(q) \in Nat /\ DOMAIN q = 1 .. Len(q) /\ Len(q) <= 1
    BY DEF main_buffer_size
  <1>2. i = 1 /\ Len(q) = 1
    BY <1>1
  <1>3. q[1] \in Messages
    BY <1>1, <1>2
  <1> QED BY <1>1, <1>2, <1>3

LEMMA SlotType ==
  ASSUME NEW m \in Messages
  PROVE  <<m>> \in Seq(Messages) /\ Len(<<m>>) <= main_buffer_size
  BY DEF main_buffer_size

LEMMA LastType ==
  ASSUME Slots, NEW s \in Routers, NEW t \in Routers
  PROVE  Last(s, t) \in 0 .. 3
  BY AheadValue DEF Slots, Last

\* An iteration of s that leaves its list of unsent neighbours alone may move
\* curr_state on, but not what it has sent last.
LEMMA IterateLast ==
  ASSUME Slots, NEW r \in Routers, NEW left, left \subseteq unsent[r],
         NEW now, NEW dist, Iterate(r, left, now, dist), UNCHANGED topology
  PROVE  /\ curr' \in [Routers -> 0 .. 3]
         /\ unsent' \in [Routers -> SUBSET Routers]
         /\ unsent'[r] \subseteq Neighbours(r)'
         /\ \A s \in Routers \ {r} : unsent'[s] = unsent[s] /\ curr'[s] = curr[s]
         /\ \A t \in Neighbours(r) : t \in left \/ t \notin unsent[r] => Last(r, t)' = Last(r, t)
         /\ \A t \in unsent[r] \ left : Last(r, t)' = curr[r]
         /\ Neighbours(r) \subseteq Routers
  <1>1. Neighbours(r)' = Neighbours(r) /\ Neighbours(r) \subseteq Routers
    BY DEF Neighbours
  <1>2. CASE left = {} /\ now
    <2>1. /\ curr' = [curr EXCEPT ![r] = Ahead(curr[r], 1)]
          /\ unsent' = [unsent EXCEPT ![r] = Neighbours(r)]
      BY <1>2 DEF Iterate, NextState
    <2>2. Ahead(Ahead(curr[r], 1), 3) = curr[r] /\ Ahead(curr[r], 1) \in 0 .. 3
      BY AheadValue DEF Slots
    <2> QED BY <1>1, <1>2, <2>1, <2>2 DEF Slots, Last
  <1>3. CASE ~ (left = {} /\ now)
    <2>1. curr' = curr /\ unsent' = [unsent EXCEPT ![r] = left]
      BY <1>3 DEF Iterate, Slots
    <2> QED BY <1>1, <2>1 DEF Slots, Last
  <1> QED BY <1>2, <1>3

LEMMA LinkReceive ==
  ASSUME LinkInv, NEW r \in Routers, Receive(r)
  PROVE  LinkInv'
  <1>1. PICK m \in Messages : channels[r] = <<m>>
    BY DEF LinkInv, Slots, Receive, main_buffer_size
  <1>2. /\ channels' = [channels EXCEPT ![r] = <<>>] /\ data' = [data EXCEPT ![r] = m]
        /\ data[r] = Null /\ pc[r] = "select"
        /\ pc' = [pc EXCEPT ![r] = IF m = Null THEN "answer" ELSE "update"]
        /\ UNCHANGED <<topology, curr, unsent>>
    BY <1>1 DEF LinkInv, Slots, Receive
  <1>3. Slots'
    BY <1>2 DEF LinkInv, Slots, main_buffer_size, Neighbours
  <1>4. ASSUME NEW s \in Routers, NEW t \in Routers, NEW b \in 0 .. 3
        PROVE  Link(s, t, b)'
    <2>1. Neighbours(s)' = Neighbours(s) /\ Last(s, t)' = Last(s, t) /\ Link(s, t, b)
      BY <1>2 DEF Neighbours, Last, LinkInv, Links
    <2>2. CASE t = r
      <3>1. channels'[t] # << <<s, b>> >>
        BY <1>2, <2>2 DEF LinkInv, Slots
      <3>2. data'[t] = <<s, b>> => channels[t] = << <<s, b>> >>
        BY <1>1, <1>2, <2>2 DEF LinkInv, Slots
      <3> QED BY <2>1, <3>1, <3>2 DEF Link
    <2>3. CASE t # r
      <3>1. channels'[t] = channels[t] /\ data'[t] = data[t]
        BY <1>2, <2>3 DEF LinkInv, Slots
      <3> QED BY <2>1, <3>1 DEF Link, Ahead
    <2> QED BY <2>2, <2>3
  <1> QED BY <1>3, <1>4 DEF LinkInv, Links

\* A step that writes no pointer: what r has in its hands may be dropped, and
\* r may start another round.
LEMMA LinkKept ==
  ASSUME LinkInv, NEW r \in Routers, NEW now, NEW dist,
         Iterate(r, unsent[r], now, dist), UNCHANGED <<topology, channels>>,
         data' = data \/ data' = [data EXCEPT ![r] = Null],
         \A t \in Routers : data'[t] # Null => pc'[t] = "update", DOMAIN pc' = Routers
  PROVE  LinkInv'
  <1>1. /\ curr' \in [Routers -> 0 .. 3]
        /\ unsent' \in [Routers -> SUBSET Routers]
        /\ \A s \in Routers : unsent'[s] \subseteq Neighbours(s)'
        /\ \A s \in Routers : Neighbours(s)' = Neighbours(s)
        /\ \A s \in Routers : \A t \in Neighbours(s) : Last(s, t)' = Last(s, t)
    <2>1. \A s \in Routers : Neighbours(s)' = Neighbours(s)
      BY DEF Neighbours
    <2>2. Slots
      BY DEF LinkInv
    <2>3. /\ curr' \in [Routers -> 0 .. 3]
          /\ unsent' \in [Routers -> SUBSET Routers]
          /\ unsent'[r] \subseteq Neighbours(r)'
          /\ \A s \in Routers \ {r} : unsent'[s] = unsent[s] /\ curr'[s] = curr[s]
          /\ \A t \in Neighbours(r) : Last(r, t)' = Last(r, t)
      BY <2>2, IterateLast
    <2>4. ASSUME NEW s \in Routers
          PROVE  /\ unsent'[s] \subseteq Neighbours(s)'
                 /\ \A t \in Neighbours(s) : Last(s, t)' = Last(s, t)
      <3>1. CASE s = r
        BY <2>3, <3>1
      <3>2. CASE s # r
        <4>1. unsent'[s] = unsent[s] /\ curr'[s] = curr[s]
          BY <2>3, <3>2
        <4> QED BY <2>1, <2>2, <4>1 DEF Slots, Last
      <3> QED BY <3>1, <3>2
    <2> QED BY <2>1, <2>3, <2>4
  <1>2. Slots'
    <2>1. data' \in [Routers -> Messages]
      BY DEF LinkInv, Slots, Messages
    <2> QED BY <1>1, <2>1 DEF LinkInv, Slots
  <1>3. ASSUME NEW s \in Routers, NEW t \in Routers, NEW b \in 0 .. 3
        PROVE  Link(s, t, b)'
    <2>1. Link(s, t, b) /\ (data'[t] = <<s, b>> => data[t] = <<s, b>>)
      <3>1. <<s, b>> # Null
        BY DEF Null
      <3>2. data'[t] = data[t] \/ data'[t] = Null
        BY DEF LinkInv, Slots
      <3> QED BY <3>1, <3>2 DEF LinkInv, Links
    <2> QED BY <1>1, <2>1 DEF Link, Ahead
  <1> QED BY <1>2, <1>3 DEF LinkInv, Links

LEMMA LinkSend ==
  ASSUME LinkInv, NEW r \in Routers, NEW q \in Routers, Send(r, q)
  PROVE  LinkInv'
  <1>1. /\ channels[q] = <<>> /\ q \in unsent[r] /\ q \in Neighbours(r) /\ pc[r] = "select"
        /\ channels' = [channels EXCEPT ![q] = << <<r, curr[r]>> >>]
        /\ UNCHANGED <<topology, pc, data>>
    <2>1. channels[q] \in Seq(Messages) /\ Len(channels[q]) < main_buffer_size
      BY DEF LinkInv, Slots, Send
    <2>2. channels[q] = <<>> /\ Append(channels[q], <<r, curr[r]>>) = << <<r, curr[r]>> >>
      BY <2>1, EmptySlot
    <2> QED BY <2>2 DEF LinkInv, Slots, Send
  <1>2. /\ curr' \in [Routers -> 0 .. 3]
        /\ unsent' \in [Routers -> SUBSET Routers]
        /\ unsent'[r] \subseteq Neighbours(r)'
        /\ \A s \in Routers \ {r} : unsent'[s] = unsent[s] /\ curr'[s] = curr[s]
        /\ \A t \in Neighbours(r) \ {q} : Last(r, t)' = Last(r, t)
        /\ Last(r, q)' = curr[r]
    <2>1. Slots /\ Iterate(r, unsent[r] \ {q}, changed[r], NextDist(r))
      BY DEF Send, LinkInv
    <2>2. /\ curr' \in [Routers -> 0 .. 3]
          /\ unsent' \in [Routers -> SUBSET Routers]
          /\ unsent'[r] \subseteq Neighbours(r)'
          /\ \A s \in Routers \ {r} : unsent'[s] = unsent[s] /\ curr'[s] = curr[s]
          /\ \A t \in Neighbours(r) :
               t \in unsent[r] \ {q} \/ t \notin unsent[r] => Last(r, t)' = Last(r, t)
          /\ \A t \in unsent[r] \ (unsent[r] \ {q}) : Last(r, t)' = curr[r]
      BY <1>1, <2>1, IterateLast
    <2> QED BY <1>1, <2>2
  <1>3. \A s \in Routers : Neighbours(s)' = Neighbours(s)
    BY <1>1 DEF Neighbours
  <1>4. Slots'
    <2>1. << <<r, curr[r]>> >> \in Seq(Messages) /\ Len(<< <<r, curr[r]>> >>) <= main_buffer_size
      BY SlotType DEF LinkInv, Slots, Messages, Pointers
    <2>2. /\ channels' \in [Routers -> Seq(Messages)]
          /\ \A t \in Routers : Len(channels'[t]) <= main_buffer_size
      BY <1>1, <2>1 DEF LinkInv, Slots
    <2>3. \A s \in Routers : unsent'[s] \subseteq Neighbours(s)'
      <3> SUFFICES ASSUME NEW s \in Routers PROVE unsent'[s] \subseteq Neighbours(s)'
        OBVIOUS
      <3>1. CASE s = r
        BY <1>2, <3>1
      <3>2. CASE s # r
        BY <1>2, <1>3, <3>2 DEF LinkInv, Slots
      <3> QED BY <3>1, <3>2
    <2> QED BY <1>1, <1>2, <2>2, <2>3 DEF LinkInv, Slots
  <1>5. ASSUME NEW s \in Routers, NEW t \in Routers, NEW b \in 0 .. 3
        PROVE  Link(s, t, b)'
    <2>1. Link(s, t, b) /\ data'[t] = data[t]
      BY <1>1 DEF LinkInv, Links
    <2>2. CASE t # q
      <3>1. channels'[t] = channels[t] /\ (t \in Neighbours(s) => Last(s, t)' = Last(s, t))
        BY <1>1, <1>2, <2>2 DEF LinkInv, Slots, Last
      <3> QED BY <1>3, <2>1, <3>1 DEF Link, Ahead
    <2>3. CASE t = q /\ s # r
      <3>1. Last(s, t)' = Last(s, t)
        BY <1>2, <2>3 DEF Last
      <3>2. channels[t] = <<>> /\ channels'[t] # << <<s, b>> >>
        BY <1>1, <2>3 DEF LinkInv, Slots
      <3> QED BY <1>3, <2>1, <3>1, <3>2 DEF Link
    <2>4. CASE t = q /\ s = r
      <3>1. Last(s, t)' = curr[s] /\ Last(s, t) = Ahead(curr[s], 3) /\ curr[s] \in 0 .. 3
        BY <1>1, <1>2, <2>4 DEF Last, LinkInv, Slots
      <3>2. channels[t] = <<>> /\ channels'[t] = << <<s, curr[s]>> >>
        BY <1>1, <2>4 DEF LinkInv, Slots
      <3> QED BY <1>1, <1>3, <2>1, <2>4, <3>1, <3>2 DEF Link, Ahead
    <2> QED BY <2>2, <2>3, <2>4
  <1> QED BY <1>4, <1>5 DEF LinkInv, Links

LEMMA LinkAside ==
  ASSUME LinkInv, UNCHANGED <<topology, curr, unsent, data>>,
         \/ UNCHANGED channels
         \/ \E r \in Routers : channels[r] = <<>> /\ channels' = [channels EXCEPT ![r] = <<Null>>],
         \A t \in Routers : data[t] # Null => pc'[t] = pc[t], DOMAIN pc' = Routers
  PROVE  LinkInv'
  <1>1. \A s, t \in Routers : Neighbours(s)' = Neighbours(s) /\ Last(s, t)' = Last(s, t)
    BY DEF Neighbours, Last
  <1>2. Slots'
    <2>1. <<Null>> \in Seq(Messages) /\ Len(<<Null>>) <= main_buffer_size
      BY SlotType DEF Messages
    <2>2. /\ channels' \in [Routers -> Seq(Messages)]
          /\ \A t \in Routers : Len(channels'[t]) <= main_buffer_size
      BY <2>1 DEF LinkInv, Slots
    <2> QED BY <1>1, <2>2 DEF LinkInv, Slots
  <1>3. ASSUME NEW s \in Routers, NEW t \in Routers, NEW b \in 0 .. 3
        PROVE  Link(s, t, b)'
    <2>1. Link(s, t, b) /\ data'[t] = data[t]
      BY DEF LinkInv, Links
    <2>2. channels'[t] = channels[t] \/ (channels[t] = <<>> /\ channels'[t] = <<Null>>)
      BY DEF LinkInv, Slots
    <2> QED BY <1>1, <2>1, <2>2 DEF Link, Ahead, Null
  <1> QED BY <1>2, <1>3 DEF LinkInv, Links

LEMMA LinkStep == LinkInv /\ [Next]_vars => LinkInv'
  <1> SUFFICES ASSUME LinkInv, [Next]_vars PROVE LinkInv'
    OBVIOUS
  <1>1. CASE UNCHANGED vars
    BY <1>1, LinkAside DEF vars, LinkInv, Slots
  <1>2. CASE run_stress \/ Ended
    <2>1. UNCHANGED <<topology, curr, unsent, data, pc>>
      BY <1>2 DEF run_stress, Ended, Probe, Collect, Retry, Finish, Join, vars
    <2>2. CASE Probe
      <3>1. PICK i : i = main.i
        OBVIOUS
      <3>2. CASE i \in Routers
        <4>1. channels[i] = <<>> /\ channels' = [channels EXCEPT ![i] = <<Null>>]
          <5>1. channels[i] \in Seq(Messages) /\ Len(channels[i]) < main_buffer_size
            BY <2>2, <3>1, <3>2 DEF Probe, LinkInv, Slots
          <5> QED BY <2>2, <3>1, <5>1, EmptySlot DEF Probe
        <4> QED BY <2>1, <3>2, <4>1, LinkAside DEF LinkInv, Slots
      <3>3. CASE i \notin Routers
        <4>1. channels' = channels
          BY <2>2, <3>1, <3>3 DEF Probe, LinkInv, Slots
        <4> QED BY <2>1, <4>1, LinkAside DEF LinkInv, Slots
      <3> QED BY <3>2, <3>3
    <2>3. CASE ~ Probe
      <3>1. UNCHANGED channels
        BY <1>2, <2>3 DEF run_stress, Ended, Collect, Retry, Finish, Join, vars
      <3> QED BY <2>1, <3>1, LinkAside DEF LinkInv, Slots
    <2> QED BY <2>2, <2>3
  <1>3. ASSUME NEW r \in Routers, router(r) PROVE LinkInv'
    <2>1. CASE Receive(r)
      BY <2>1, LinkReceive
    <2>2. CASE Update(r)
      <3>1. PICK now, dist : Iterate(r, unsent[r], now, dist)
        BY <2>2 DEF Update
      <3>2. /\ UNCHANGED <<topology, channels>> /\ data' = [data EXCEPT ![r] = Null]
            /\ pc' = [pc EXCEPT ![r] = "select"]
        BY <2>2 DEF Update
      <3>3. DOMAIN pc' = Routers /\ \A t \in Routers : data'[t] # Null => pc'[t] = "update"
        BY <3>2 DEF LinkInv, Slots
      <3> QED BY <3>1, <3>2, <3>3, LinkKept
    <2>3. CASE Answer(r)
      <3>1. PICK now, dist : Iterate(r, unsent[r], now, dist)
        BY <2>3 DEF Answer
      <3>2. /\ UNCHANGED <<topology, channels, data>> /\ pc[r] = "answer"
            /\ pc' = [pc EXCEPT ![r] = "select"]
        BY <2>3 DEF Answer
      <3>3. DOMAIN pc' = Routers /\ \A t \in Routers : data'[t] # Null => pc'[t] = "update"
        BY <3>2 DEF LinkInv, Slots
      <3> QED BY <3>1, <3>2, <3>3, LinkKept
    <2>4. CASE Stop(r)
      <3>1. /\ UNCHANGED <<topology, curr, unsent, data, channels>>
            /\ pc[r] = "select" /\ pc' = [pc EXCEPT ![r] = "ended"]
        BY <2>4 DEF Stop
      <3> QED BY <3>1, LinkAside DEF LinkInv, Slots
    <2>5. CASE \E q \in Routers : Send(r, q)
      BY <2>5, LinkSend
    <2> QED BY <1>3, <2>1, <2>2, <2>3, <2>4, <2>5 DEF router
  <1> QED BY <1>1, <1>2, <1>3 DEF Next

LEMMA LinkInit == Init => LinkInv
  <1> SUFFICES ASSUME Init PROVE LinkInv
    OBVIOUS
  <1>1. Slots
    BY DEF Init, Slots, main_buffer_size, Messages, Neighbours
  <1>2. Links
    BY DEF Init, Links, Link, Null
  <1> QED BY <1>1, <1>2 DEF LinkInv

\* Whoever holds a pointer may follow it: its owner writes another vector.
LEMMA LinkStable == LinkInv => VectorsStable
  <1> SUFFICES ASSUME LinkInv, NEW p \in VectorsInUse PROVE p[2] # NextState(p[1])
    BY DEF VectorsStable
  <1>1. p # Null /\ \E t \in Routers : p \in Elements(channels[t]) \/ p = data[t]
    <2>1. ASSUME p \in UNION {Elements(channels[r]) : r \in Routers}
          PROVE  \E t \in Routers : p \in Elements(channels[t])
      BY <2>1, Zenon
    <2>2. ASSUME p \in Elements(data) PROVE \E t \in Routers : p = data[t]
      BY <2>2 DEF Elements, LinkInv, Slots
    <2>3. p # Null /\ (p \in UNION {Elements(channels[r]) : r \in Routers} \/ p \in Elements(data))
      BY Zenon DEF VectorsInUse
    <2> QED BY <2>1, <2>2, <2>3
  <1>2. PICK t \in Routers : p \in Elements(channels[t]) \/ p = data[t]
    BY <1>1
  <1>3. p \in Messages /\ (p = data[t] \/ channels[t] = <<p>>)
    <2>1. CASE p = data[t]
      BY <2>1 DEF LinkInv, Slots
    <2>2. CASE p \in Elements(channels[t])
      <3>1. PICK i \in DOMAIN channels[t] : p = channels[t][i]
        BY <2>2 DEF Elements
      <3> QED BY <3>1, FullSlot DEF LinkInv, Slots
    <2> QED BY <1>2, <2>1, <2>2
  <1>4. PICK s \in Routers, b \in 0 .. 3 : p = <<s, b>>
    BY <1>1, <1>3 DEF Messages, Pointers
  <1>5. Link(s, t, b)
    BY DEF LinkInv, Links
  <1>6. b = Last(s, t) \/ b = Ahead(Last(s, t), 3)
    BY <1>3, <1>4, <1>5 DEF Link
  <1>7. curr[s] \in 0 .. 3 /\ (b = curr[s] \/ b = Ahead(curr[s], 3)
                              \/ b = Ahead(Ahead(curr[s], 3), 3))
    BY <1>6 DEF Last, LinkInv, Slots
  <1>8. b # Ahead(curr[s], 1)
    BY <1>7, AheadValue
  <1> QED BY <1>4, <1>8 DEF NextState

\* For every network: no router has, or will receive, a pointer to the vector
\* that its owner is writing.
THEOREM RoutersVectorsStable == Spec => []VectorsStable
  BY LinkInit, LinkStep, LinkStable, PTL DEF Spec
=============================================================================
