---------------------------- MODULE ChannelSpec ----------------------------
(***************************************************************************)
(* What the comments of channel.h promise the callers of buffered          *)
(* channels, with no mutex, condition variable or semaphore: every call    *)
(* takes effect in one instant between its invocation and its return.      *)
(*   - A call that returns SUCCESS has moved exactly one value, on the     *)
(*     entry that *sel_idx names if it is channel_select, in FIFO order.   *)
(*   - A call that returns anything else has changed nothing.              *)
(*   - CLOSED_ERROR means that a channel of the call is closed,            *)
(*     CHANNEL_FULL and CHANNEL_EMPTY that the channel was full or empty,  *)
(*     GENERIC_ERROR that an argument of channel_select was missing.       *)
(*   - A call that meets a closed channel moves no value, with the one     *)
(*     exception of a send or receive that was already waiting when the    *)
(*     channel was closed and then found room or a value.                  *)
(***************************************************************************)
EXTENDS Integers, Sequences

CONSTANTS Threads, Channels, Junk, Capacity, Program, NoCall

VARIABLES queue,   \* [Channels -> values held, oldest first]
          closed,  \* [Channels -> BOOLEAN]
          phase,   \* [Threads -> "idle", "pending", "waiting" or "done"]
          call,    \* [Threads -> the call it is in]
          status, index, value    \* [Threads -> its results]

vars == <<queue, closed, phase, call, status, index, value>>

Init ==
  /\ queue = [c \in Channels |-> <<>>]
  /\ closed = [c \in Channels |-> FALSE]
  /\ phase = [t \in Threads |-> "idle"]
  /\ call = [t \in Threads |-> NoCall]
  /\ status = [t \in Threads |-> "none"]
  /\ index = [t \in Threads |-> 0]
  /\ value = [t \in Threads |-> Junk]

Invoke(t) ==
  /\ phase[t] = "idle"
  /\ \E k \in Program[t] : call' = [call EXCEPT ![t] = k]
  /\ phase' = [phase EXCEPT ![t] = "pending"]
  /\ UNCHANGED <<queue, closed, status, index, value>>

\* The operation of an entry can move a value now.
Possible(e) ==
  IF e.dir = "SEND" THEN Len(queue[e.chan]) < Capacity[e.chan]
                    ELSE queue[e.chan] # <<>>

\* *sel_idx is an out parameter of channel_select alone.
Named(t, i) == IF call[t].kind = "select" THEN i ELSE 0

Decide(t, i, st) ==
  /\ phase' = [phase EXCEPT ![t] = "done"]
  /\ status' = [status EXCEPT ![t] = st]
  /\ index' = [index EXCEPT ![t] = Named(t, i)]
  /\ UNCHANGED call

Perform(t, i) ==
  LET e == call[t].entries[i] IN
  /\ call[t].kind \notin {"close", "misuse"}
  /\ \/ phase[t] = "pending" /\ ~ closed[e.chan]
     \/ phase[t] = "waiting"
  /\ Possible(e)
  /\ IF e.dir = "SEND"
     THEN /\ queue' = [queue EXCEPT ![e.chan] = Append(@, e.data)]
          /\ UNCHANGED value
     ELSE /\ value' = [value EXCEPT ![t] = Head(queue[e.chan])]
          /\ queue' = [queue EXCEPT ![e.chan] = Tail(@)]
  /\ Decide(t, i, "SUCCESS")
  /\ UNCHANGED closed

Refuse(t, i) ==
  LET e == call[t].entries[i] IN
  /\ call[t].kind \notin {"close", "misuse"}
  /\ \/ /\ phase[t] = "pending"
        /\ closed[e.chan]
        /\ Decide(t, i, "CLOSED_ERROR")
     \/ /\ phase[t] = "waiting"
        /\ closed[e.chan] /\ ~ Possible(e)
        /\ Decide(t, i, "CLOSED_ERROR")
     \/ /\ phase[t] = "pending" /\ call[t].kind = "nonblocking"
        /\ ~ closed[e.chan] /\ ~ Possible(e)
        /\ Decide(t, i, IF e.dir = "SEND" THEN "CHANNEL_FULL"
                                          ELSE "CHANNEL_EMPTY")
  /\ UNCHANGED <<queue, closed, value>>

Reject(t, i) ==
  /\ call[t].kind = "misuse"
  /\ phase[t] = "pending"
  /\ Decide(t, i, "GENERIC_ERROR")
  /\ UNCHANGED <<queue, closed, value>>

Wait(t, i) ==
  LET e == call[t].entries[i] IN
  /\ call[t].kind = "blocking"
  /\ phase[t] = "pending"
  /\ ~ closed[e.chan] /\ ~ Possible(e)
  /\ phase' = [phase EXCEPT ![t] = "waiting"]
  /\ UNCHANGED <<queue, closed, call, status, index, value>>

Close(t, i) ==
  LET c == call[t].entries[i].chan IN
  /\ call[t].kind = "close"
  /\ phase[t] = "pending"
  /\ Decide(t, i, IF closed[c] THEN "CLOSED_ERROR" ELSE "SUCCESS")
  /\ closed' = [closed EXCEPT ![c] = TRUE]
  /\ UNCHANGED <<queue, value>>

Return(t) ==
  /\ phase[t] = "done"
  /\ phase' = [phase EXCEPT ![t] = "idle"]
  /\ call' = [call EXCEPT ![t] = NoCall]
  /\ status' = [status EXCEPT ![t] = "none"]
  /\ index' = [index EXCEPT ![t] = 0]
  /\ value' = [value EXCEPT ![t] = Junk]
  /\ UNCHANGED <<queue, closed>>

Next ==
  \E t \in Threads :
    \/ Invoke(t)
    \/ \E i \in 1 .. Len(call[t].entries) :
         \/ Perform(t, i) \/ Refuse(t, i) \/ Reject(t, i)
         \/ Wait(t, i) \/ Close(t, i)
    \/ Return(t)

Spec == Init /\ [][Next]_vars
=============================================================================
