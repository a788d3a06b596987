------------------------------ MODULE MCBuffer ------------------------------
(* The ring buffer on a capacity that wraps several times. *)
EXTENDS Buffer
=============================================================================
