---------------------------- MODULE MCRecorder ----------------------------
(***************************************************************************)
(* Instance of Recorder: three threads.  The main thread and the last can  *)
(* make a call, which may be a creation or a join, and end; the second has *)
(* one callback after its start.                                           *)
(***************************************************************************)
EXTENDS Recorder

MCMaxEvents == [t \in 0..LastThread |-> IF t = 1 THEN 2 ELSE 3]

=============================================================================
