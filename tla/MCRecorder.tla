----------------------------- MODULE MCRecorder -----------------------------
(***************************************************************************)
(* TLC instances of Recorder: two threads are interchangeable, so are the  *)
(* two contents.                                                           *)
(***************************************************************************)
EXTENDS Recorder, TLC

Symmetry == Permutations(Threads) \cup Permutations(Contents)
=============================================================================
