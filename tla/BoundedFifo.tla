---------------------------- MODULE BoundedFifo ----------------------------
(***************************************************************************)
(* What buffer.h promises: a first-in first-out queue of at most Capacity  *)
(* values.  An addition fails exactly when the queue is full, a removal    *)
(* exactly when it is empty, and a failed call changes nothing.            *)
(***************************************************************************)
EXTENDS Integers, Sequences

CONSTANTS Capacity, Data

VARIABLES queue,   \* the values held, oldest first
          out,     \* what the last successful removal stored
          status   \* result of the last call

vars == <<queue, out, status>>

Init ==
  /\ queue = <<>>
  /\ out \notin Data
  /\ status = "BUFFER_SUCCESS"

Add(v) ==
  \/ /\ Len(queue) < Capacity
     /\ queue' = Append(queue, v)
     /\ status' = "BUFFER_SUCCESS"
     /\ UNCHANGED out
  \/ /\ Len(queue) = Capacity
     /\ status' = "BUFFER_ERROR"
     /\ UNCHANGED <<queue, out>>

Remove ==
  \/ /\ queue # <<>>
     /\ out' = Head(queue)
     /\ queue' = Tail(queue)
     /\ status' = "BUFFER_SUCCESS"
  \/ /\ queue = <<>>
     /\ status' = "BUFFER_ERROR"
     /\ UNCHANGED <<queue, out>>

Next == Remove \/ \E v \in Data : Add(v)

Spec == Init /\ [][Next]_vars
=============================================================================
