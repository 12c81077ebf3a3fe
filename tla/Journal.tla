------------------------------ MODULE Journal ------------------------------
(***************************************************************************)
(* What Fini of source/tools/u0.cpp takes accessmap for, and the modules   *)
(* Summary and ThreadModel with it: the history of the program.  A call of *)
(* a thread gets its place in the history in one go, while it runs, and no *)
(* other call gets that place; later it is noted there, once, and nothing  *)
(* that is noted changes.  So calls that do not overlap are in the order   *)
(* they were made in.                                                      *)
(*                                                                         *)
(* Recorder.tla is shown to implement this specification for as long as no *)
(* two threads are between load and store of the counter.                  *)
(***************************************************************************)
EXTENDS Naturals

CONSTANT Threads

VARIABLES
  next,  \* the first place that is free
  place, \* thread -> the place of its call, from the calls that are not noted
  log,   \* place -> which call of which thread
  done   \* done[t]: how many calls of t are noted

absVars == <<next, place, log, done>>

Init ==
  /\ next = 0
  /\ place = [t \in {} |-> 0]
  /\ log = [k \in {} |-> 0]
  /\ done = [t \in Threads |-> 0]

\* A call of t gets its place.
Begin(t) ==
  /\ t \notin DOMAIN place
  /\ place' = [u \in DOMAIN place \cup {t} |-> IF u = t THEN next ELSE place[u]]
  /\ next' = next + 1
  /\ UNCHANGED <<log, done>>

\* It is noted.
Note(t) ==
  /\ t \in DOMAIN place
  /\ done' = [done EXCEPT ![t] = @ + 1]
  /\ log' = [k \in DOMAIN log \cup {place[t]} |->
               IF k = place[t] THEN [tid |-> t, n |-> done[t] + 1] ELSE log[k]]
  /\ place' = [u \in DOMAIN place \ {t} |-> place[u]]
  /\ UNCHANGED next

Next == \E t \in Threads : Begin(t) \/ Note(t)

Spec == Init /\ [][Next]_absVars

=============================================================================
