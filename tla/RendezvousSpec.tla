--------------------------- MODULE RendezvousSpec ---------------------------
(***************************************************************************)
(* What channel.h promises the callers of unbuffered channels while nobody *)
(* closes them: a value goes from one call that sends to one call that     *)
(* receives, in one instant at which both are in progress.                 *)
(*   - A call that returns SUCCESS has met exactly one call of the other   *)
(*     direction on the entry that *sel_idx names.                         *)
(*   - CHANNEL_FULL and CHANNEL_EMPTY come from non-blocking calls that    *)
(*     have met nobody, GENERIC_ERROR from a channel_select that got no    *)
(*     entries or no sel_idx.                                              *)
(***************************************************************************)
EXTENDS Integers, Sequences

CONSTANTS Threads, Junk, Program, NoCall

VARIABLES phase,   \* [Threads -> "idle", "pending" or "done"]
          call,    \* [Threads -> the call it is in]
          status, index, value    \* [Threads -> its results]

vars == <<phase, call, status, index, value>>

Init ==
  /\ phase = [t \in Threads |-> "idle"]
  /\ call = [t \in Threads |-> NoCall]
  /\ status = [t \in Threads |-> "none"]
  /\ index = [t \in Threads |-> 0]
  /\ value = [t \in Threads |-> Junk]

Invoke(t) ==
  /\ phase[t] = "idle"
  /\ \E k \in Program[t] : call' = [call EXCEPT ![t] = k]
  /\ phase' = [phase EXCEPT ![t] = "pending"]
  /\ UNCHANGED <<status, index, value>>

Named(t, i) == IF call[t].kind = "select" THEN i ELSE 0

\* Entry i of the call of s sends to entry j of the call of r.
Exchange(s, i, r, j) ==
  LET out == call[s].entries[i]
      in  == call[r].entries[j]
  IN  /\ s # r
      /\ phase[s] = "pending" /\ phase[r] = "pending"
      /\ call[s].kind # "misuse" /\ call[r].kind # "misuse"
      /\ out.dir = "SEND" /\ in.dir = "RECV" /\ out.chan = in.chan
      /\ value' = [value EXCEPT ![r] = out.data]
      /\ phase' = [phase EXCEPT ![s] = "done", ![r] = "done"]
      /\ status' = [status EXCEPT ![s] = "SUCCESS", ![r] = "SUCCESS"]
      /\ index' = [index EXCEPT ![s] = Named(s, i), ![r] = Named(r, j)]
      /\ UNCHANGED call

Refuse(t) ==
  /\ phase[t] = "pending"
  /\ call[t].kind = "nonblocking"
  /\ phase' = [phase EXCEPT ![t] = "done"]
  /\ status' = [status EXCEPT ![t] = IF call[t].entries[1].dir = "SEND"
                                     THEN "CHANNEL_FULL" ELSE "CHANNEL_EMPTY"]
  /\ UNCHANGED <<call, index, value>>

Reject(t) ==
  /\ phase[t] = "pending"
  /\ call[t].kind = "misuse"
  /\ phase' = [phase EXCEPT ![t] = "done"]
  /\ status' = [status EXCEPT ![t] = "GENERIC_ERROR"]
  /\ UNCHANGED <<call, index, value>>

Return(t) ==
  /\ phase[t] = "done"
  /\ phase' = [phase EXCEPT ![t] = "idle"]
  /\ call' = [call EXCEPT ![t] = NoCall]
  /\ status' = [status EXCEPT ![t] = "none"]
  /\ index' = [index EXCEPT ![t] = 0]
  /\ value' = [value EXCEPT ![t] = Junk]

Next ==
  \/ \E t \in Threads : Invoke(t) \/ Refuse(t) \/ Reject(t) \/ Return(t)
  \/ \E s, r \in Threads :
       \E i \in 1 .. Len(call[s].entries), j \in 1 .. Len(call[r].entries) :
         Exchange(s, i, r, j)

Spec == Init /\ [][Next]_vars
=============================================================================
