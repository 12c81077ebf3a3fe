----------------------------- MODULE MCSummary -----------------------------
(* Instance of Summary: one lock of each kind, one instruction that writes *)
(* two variables, and one variable that two instructions write.            *)
EXTENDS Summary, TLC

MCStores == {[ip |-> "i1", var |-> 11], [ip |-> "i2", var |-> 11],
             [ip |-> "i2", var |-> 12]}

MCSymmetry == Permutations(Threads)

=============================================================================
