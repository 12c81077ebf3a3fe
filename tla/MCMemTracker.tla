---------------------------- MODULE MCMemTracker ----------------------------
(* Instances of MemTracker for TLC.                                        *)
EXTENDS MemTracker, TLC

\* Threads are interchangeable.
Symmetry == Permutations(Threads)

=============================================================================
