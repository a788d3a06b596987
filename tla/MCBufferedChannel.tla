------------------------- MODULE MCBufferedChannel -------------------------
(***************************************************************************)
(* Programs for small instances of BufferedChannel.                        *)
(***************************************************************************)
EXTENDS BufferedChannel, ChannelPrograms

\* c2 has room for two values, which must keep their order.
Slots == [c \in Channels |-> IF c = c1 THEN 1 ELSE 2]

\* Two channels: two threads select over both, one of them also names a
\* channel twice; a third one sends, receives and closes c1.
Selecting ==
  [t \in Threads |->
     CASE t = t1 -> {Select(<<Snd(c1, d1), Rcv(c2)>>), Select(<<Rcv(c1), Rcv(c1)>>)}
       [] t = t2 -> {Select(<<Snd(c2, d2), Rcv(c1)>>), NonBlocking(Rcv(c2)),
                   Misuse(c1)}
       [] OTHER  -> {NonBlocking(Snd(c1, d2)), Blocking(Rcv(c1)),
                     Blocking(Snd(c2, d1)), Close(c1)}]

\* One channel: a thread that selects, one that blocks, and one that serves
\* both and closes.
Sleeping ==
  [t \in Threads |->
     CASE t = t1 -> {Select(<<Rcv(c1)>>), Select(<<Snd(c1, d1)>>)}
       [] t = t2 -> {Blocking(Snd(c1, d1)), Blocking(Rcv(c1)), Misuse(c1)}
       [] OTHER  -> {Blocking(Snd(c1, d1)), NonBlocking(Rcv(c1)), Close(c1)}]
=============================================================================
