----------------------------- MODULE PoolThreads -----------------------------
(* The threads that share the memory pools. *)
EXTENDS Integers, Sequences, FiniteSets

CONSTANT Threads
ASSUME ThreadAssumption == IsFiniteSet(Threads)
=============================================================================
