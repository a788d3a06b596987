---------------------------- MODULE ChannelTypes ----------------------------
(***************************************************************************)
(* The types of channel.h, and the calls that a program makes.             *)
(***************************************************************************)
EXTENDS Integers, Sequences, FiniteSets

CONSTANTS Threads, Channels, Data,
          Junk,       \* memory nobody has written, a result nobody has set
          Program,    \* [Threads -> the calls that thread may make]
          MaxCalls    \* bound: calls made by one thread

\* enum direction
Dir == {"SEND", "RECV"}

Opposite(d) == IF d = "SEND" THEN "RECV" ELSE "SEND"

\* An element of the array given to channel_select (select_t).  The data
\* field of a RECV entry is an out parameter and is not read.
Entry == [chan : Channels, dir : Dir, data : Data]

\* A call with its arguments.  send, receive and close have one entry.  A
\* "misuse" is a channel_select with a count of 0 or a NULL pointer; nothing
\* looks at its entry.
Call == [kind : {"blocking", "nonblocking", "select", "close", "misuse"},
         entries : Seq(Entry)]

\* The argument record that a thread outside channel.c is left with.
NoCall == [kind |-> "close", entries |-> <<>>]

\* enum channel_status, and "none" for a call that has not decided yet.
Status == {"none", "SUCCESS", "CHANNEL_FULL", "CHANNEL_EMPTY", "CLOSED_ERROR",
           "GENERIC_ERROR"}

ASSUME ProgramAssumption ==
  /\ IsFiniteSet(Threads)
  /\ Junk \notin Data
  /\ MaxCalls \in Nat
  /\ \A t \in Threads : Program[t] \subseteq Call
  /\ \A t \in Threads : \A k \in Program[t] :
       /\ Len(k.entries) > 0
       /\ k.kind # "select" => Len(k.entries) = 1
=============================================================================
