--------------------------- MODULE MCThreadModel ---------------------------
(* Instance of ThreadModel and ThreadFeatures for TLC: one instruction     *)
(* that writes two variables, and one variable that two write.             *)
EXTENDS ThreadFeatures

MCStores == {[ip |-> "i1", var |-> 11], [ip |-> "i2", var |-> 11],
             [ip |-> "i2", var |-> 12]}

=============================================================================
