------------------------------ MODULE MCDriver ------------------------------
(***************************************************************************)
(* Traces for the driver, and what main is called with.                    *)
(***************************************************************************)
EXTENDS Driver

Request4(type, index, size) == [type |-> type, index |-> index, size |-> size]
A(index, size) == Request4("a", index, size)
R(index, size) == Request4("r", index, size)
F(index) == Request4("f", index, 0)

\* Blocks that move and grow, one between two others, a free of NULL.
Moving == [weight |-> WALL, ops |-> <<A(0, 1), A(1, 2), R(0, 3), F(-1), F(1), F(0)>>]
Between == [weight |-> WNONE, ops |-> <<A(0, 1), A(1, 1), A(2, 3), A(3, 1), F(0), F(1), F(2), F(3)>>]
\* A large block, with a middle that is not filled.
Wide == [weight |-> WPERF, ops |-> <<A(0, 1), A(1, 1), A(2, 5), F(0), F(2), F(1)>>]
\* A block that realloc frees, and one that it makes.
Vanishing == [weight |-> WUTIL, ops |-> <<A(0, 3), R(0, 0), R(1, 2), R(1, 1), F(1), F(0)>>]
\* A file that read_trace does not accept.
Bogus == [weight |-> 4, ops |-> <<A(0, 1)>>]

Call(debug, onetime, timeout, libc, files) ==
    [debug |-> debug, onetime |-> onetime, timeout |-> timeout, libc |-> libc, files |-> files]

MCOptions ==
    {Call(debug, FALSE, FALSE, FALSE, <<f>>) : debug \in 0 .. 2, f \in {Moving, Between, Wide, Vanishing}}
    \cup {Call(1, onetime, TRUE, FALSE, <<Vanishing, Moving>>) : onetime \in BOOLEAN}
    \cup {Call(0, FALSE, FALSE, TRUE, <<Vanishing>>), Call(0, FALSE, FALSE, TRUE, <<Vanishing, Bogus>>)}
=============================================================================
