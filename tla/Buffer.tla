------------------------------- MODULE Buffer -------------------------------
(***************************************************************************)
(* buffer.c used by one caller: every call of buffer_add and buffer_remove *)
(* on one buffer_t, with the status it returns.                            *)
(***************************************************************************)
EXTENDS RingBuffer

CONSTANTS Capacity, Data, Junk

ASSUME BufferAssumption ==
  /\ Capacity \in Nat \ {0}
  /\ Junk \notin Data

VARIABLES buffer, out, status

vars == <<buffer, out, status>>

Status == {"BUFFER_SUCCESS", "BUFFER_ERROR"}

Init ==
  /\ buffer = buffer_create(Capacity, Junk)
  /\ out = Junk
  /\ status = "BUFFER_SUCCESS"

\* buffer_add
Add(v) ==
  \/ /\ ~ Full(buffer)
     /\ buffer' = buffer_add(buffer, v)
     /\ status' = "BUFFER_SUCCESS"
     /\ UNCHANGED out
  \/ /\ Full(buffer)
     /\ status' = "BUFFER_ERROR"
     /\ UNCHANGED <<buffer, out>>

\* buffer_remove
Remove ==
  \/ /\ ~ Empty(buffer)
     /\ out' = buffer_front(buffer)
     /\ buffer' = buffer_remove(buffer)
     /\ status' = "BUFFER_SUCCESS"
  \/ /\ Empty(buffer)
     /\ status' = "BUFFER_ERROR"
     /\ UNCHANGED <<buffer, out>>

Next == Remove \/ \E v \in Data : Add(v)

Spec == Init /\ [][Next]_vars

-----------------------------------------------------------------------------
\* Every field of the buffer_t stays in range: buffer.c never indexes the
\* array outside 0 .. capacity - 1 and never counts past its capacity.
TypeOK ==
  /\ buffer \in BufferType(Capacity, Data \cup {Junk})
  /\ out \in Data \cup {Junk}
  /\ status \in Status

\* Only slots that buffer_add has written are live: buffer_remove never hands
\* out a word of the uninitialised array of buffer_create.
NoJunk == Contents(buffer) \in Seq(Data)

Fifo == INSTANCE BoundedFifo WITH queue <- Contents(buffer)

\* The ring of slots with its two counters behaves as a bounded FIFO queue:
\* every buffer_add and buffer_remove of buffer.c is an addition or removal
\* of the abstract queue with the same result and the same value delivered.
RefinesBoundedFifo == Fifo!Spec
=============================================================================
