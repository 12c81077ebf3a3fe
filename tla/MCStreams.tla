----------------------------- MODULE MCStreams -----------------------------
(* Instance of Streams for TLC.                                            *)
EXTENDS Streams, TLC

\* The threads but the first are interchangeable.
Symmetry == Permutations(Threads \ {Main})

=============================================================================
