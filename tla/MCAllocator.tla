---------------------------- MODULE MCAllocator ----------------------------
(***************************************************************************)
(* Small heaps for Allocator.  With InitialSize 128 instead of 4096 a few  *)
(* requests split, exhaust, extend and fill the heap.                      *)
(***************************************************************************)
EXTENDS Allocator
=============================================================================
