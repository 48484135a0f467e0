----------------------------- MODULE MCStreams -----------------------------
(***************************************************************************)
(* Streams on a small instance.  Two identifiers of the same sender and    *)
(* receiver are interchangeable: no handler compares identifiers, and the  *)
(* index order is part of the state that is permuted with them.            *)
(***************************************************************************)
EXTENDS Streams, TLC

StreamSymmetry == Permutations(StreamIds)
=============================================================================
