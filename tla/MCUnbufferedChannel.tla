------------------------ MODULE MCUnbufferedChannel ------------------------
(***************************************************************************)
(* Programs for small instances of UnbufferedChannel.                      *)
(***************************************************************************)
EXTENDS UnbufferedChannel, ChannelPrograms

\* One channel: any thread may do anything.
Anything ==
  [t \in Threads |-> Blockings(c1) \cup NonBlockings(c1) \cup
     {Close(c1), Select(<<Snd(c1, d1)>>), Select(<<Rcv(c1)>>), Misuse(c1)}]

\* Two channels: receivers that select or block, and a sender.
Meeting ==
  [t \in Threads |->
     CASE t = t1 -> {Select(<<Rcv(c1), Rcv(c2)>>), Blocking(Rcv(c2))}
       [] t = t2 -> {Select(<<Rcv(c2), Rcv(c1)>>), NonBlocking(Rcv(c1)),
                     Blocking(Rcv(c2)), Misuse(c1)}
       [] OTHER  -> {Blocking(Snd(c1, d1)), Blocking(Snd(c2, d2)),
                     NonBlocking(Snd(c1, d2))}]
=============================================================================
