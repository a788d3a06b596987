-------------------------- MODULE ChannelPrograms --------------------------
(***************************************************************************)
(* Names for the calls that small programs are made of.                    *)
(***************************************************************************)
EXTENDS ChannelTypes, TLC

CONSTANTS c1, c2, d1, d2, t1, t2, t3

Snd(c, v) == [chan |-> c, dir |-> "SEND", data |-> v]

\* The value of a RECV entry is not read.
Rcv(c) == [chan |-> c, dir |-> "RECV", data |-> d1]

Blocking(e)    == [kind |-> "blocking", entries |-> <<e>>]
NonBlocking(e) == [kind |-> "nonblocking", entries |-> <<e>>]
Select(es)     == [kind |-> "select", entries |-> es]
Close(c)       == [kind |-> "close", entries |-> <<Snd(c, d1)>>]
Misuse(c)      == [kind |-> "misuse", entries |-> <<Snd(c, d1)>>]

\* Every call of one operation on channel c, and closing it.
Blockings(c)    == {Blocking(Snd(c, d1)), Blocking(Snd(c, d2)), Blocking(Rcv(c))}
NonBlockings(c) == {NonBlocking(Snd(c, d1)), NonBlocking(Snd(c, d2)),
                    NonBlocking(Rcv(c))}

Sym == Permutations(Threads)
=============================================================================
