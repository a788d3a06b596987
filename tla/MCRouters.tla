----------------------------- MODULE MCRouters -----------------------------
(***************************************************************************)
(* Networks of three routers: a triangle in which the way over another     *)
(* router is shorter than a direct link, a line, and two that cannot       *)
(* reach the third.                                                        *)
(***************************************************************************)
EXTENDS Routers

Graph(ab, bc, ac) == <<<<0, ab, ac>>, <<ab, 0, bc>>, <<ac, bc, 0>>>>

Networks == {Graph(1, 1, 5), Graph(1, 1, Inf), Graph(2, Inf, Inf)}
=============================================================================
