----------------------------- MODULE LockTrace -----------------------------
(***************************************************************************)
(* What the DataTrace README promises of a trace, for locks with one owner *)
(* (README.md:22-48): the events are listed in time order, and the SYNC    *)
(* attribute of an event is the set of locks that the executing thread     *)
(* holds when it executes the traced instruction.                          *)
(*                                                                         *)
(* MemTracker.tla implements this specification until records are printed  *)
(* at the same time, Streams.tla in each thread's file (see HonestTrace    *)
(* and HonestStreams there for what the code does not promise).            *)
(***************************************************************************)
EXTENDS Sequences

CONSTANTS
  Threads,  \* threads of the traced program
  Locks,    \* its locks, each with at most one owner
  Instrs    \* its traced instructions

VARIABLES
  owned,    \* owned[t]: the locks thread t holds
  log       \* the events of the trace, oldest first

absVars == <<owned, log>>

Events == [thread : Threads, ins : Instrs, locks : SUBSET Locks]

Init ==
  /\ owned = [t \in Threads |-> {}]
  /\ log = << >>

Take(t, l) ==
  /\ \A u \in Threads : l \notin owned[u]
  /\ owned' = [owned EXCEPT ![t] = @ \cup {l}]
  /\ UNCHANGED log

Give(t, l) ==
  /\ l \in owned[t]
  /\ owned' = [owned EXCEPT ![t] = @ \ {l}]
  /\ UNCHANGED log

\* One event, emitted whole, that names exactly the locks its thread holds.
Access(t, i) ==
  /\ log' = Append(log, [thread |-> t, ins |-> i, locks |-> owned[t]])
  /\ UNCHANGED owned

Next ==
  \E t \in Threads :
    \/ \E l \in Locks : Take(t, l) \/ Give(t, l)
    \/ \E i \in Instrs : Access(t, i)

Spec == Init /\ [][Next]_absVars

=============================================================================
