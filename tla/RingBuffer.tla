----------------------------- MODULE RingBuffer -----------------------------
(***************************************************************************)
(* The circular buffer of concurrency-project/buffer.c as operators on a   *)
(* record with the fields of buffer_t.  Slots are numbered from 0 as in C. *)
(* buffer_remove leaves the old pointer in its slot, and so does this      *)
(* model: only size and next say which slots are live.                     *)
(***************************************************************************)
EXTENDS Integers, Sequences

\* The states of a buffer_t of the given capacity; V holds whatever a slot
\* may hold, the uninitialised contents of the malloc'ed array included.
BufferType(capacity, V) ==
  [ data : [0 .. (capacity - 1) -> V], size : 0 .. capacity,
    next : 0 .. (capacity - 1), capacity : {capacity} ]

buffer_create(capacity, junk) ==
  [ data |-> [i \in 0 .. (capacity - 1) |-> junk], size |-> 0, next |-> 0,
    capacity |-> capacity ]

Full(b) == b.size >= b.capacity

Empty(b) == ~ (b.size > 0)

\* Index arithmetic of both functions: one conditional subtraction, no modulo.
Wrap(b, pos) == IF pos >= b.capacity THEN pos - b.capacity ELSE pos

\* Mutant: the value lands one slot too far.
buffer_add_past(b, v) ==
  [ data |-> [b.data EXCEPT ![(b.next + b.size + 1) % b.capacity] = v],
    size |-> b.size + 1, next |-> b.next, capacity |-> b.capacity ]

\* buffer_add when it returns BUFFER_SUCCESS; it is used under ~Full(b).
buffer_add(b, v) ==
  [ data |-> [b.data EXCEPT ![Wrap(b, b.next + b.size)] = v],
    size |-> b.size + 1, next |-> b.next, capacity |-> b.capacity ]

\* Mutant: the size shrinks and next stays.
buffer_remove_last(b) ==
  [ data |-> b.data, size |-> b.size - 1, next |-> b.next,
    capacity |-> b.capacity ]

\* buffer_remove when it returns BUFFER_SUCCESS: the new buffer, and the
\* value stored through the out parameter.  Both are used under ~Empty(b).
buffer_remove(b) ==
  [ data |-> b.data, size |-> b.size - 1, next |-> Wrap(b, b.next + 1),
    capacity |-> b.capacity ]

buffer_front(b) == b.data[b.next]

\* What the buffer holds, oldest first.
Contents(b) == [i \in 1 .. b.size |-> b.data[Wrap(b, b.next + i - 1)]]
=============================================================================
