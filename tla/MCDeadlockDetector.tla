------------------------ MODULE MCDeadlockDetector ------------------------
(* Instances of DeadlockDetector for TLC: locks of one kind, and semaphores *)
(* together with a mutex.                                                   *)
EXTENDS DeadlockDetector

AllMutex == [m \in Locks |-> "mutex"]
AllRW == [m \in Locks |-> "rwlock"]
Mixed == [m \in Locks |-> IF m = 12 THEN "mutex" ELSE "semaphore"]

=============================================================================
