---------------------------- MODULE ThreadModel ----------------------------
(***************************************************************************)
(* What Fini of source/tools/u0.cpp makes of creations, joins, condition   *)
(* variables and shared variables: the tables createmap, condmap,          *)
(* signalmap, globalinmap, the maps startmap and joinmap that callbacks    *)
(* fill themselves, and the decision which threading model the program     *)
(* has.  A step is the next event of the traced program together with the  *)
(* branch of Fini's loop that reads it; the history is complete and in     *)
(* order, and what overlapping callbacks do to it is in module Recorder.   *)
(*                                                                         *)
(* A thread is its THREADID, which Pin gives to a later thread when it     *)
(* ended.  A record that names another thread (tr) is made from the        *)
(* records before it: that of a wait names thread 0, that of a signal      *)
(* copies the last one with its condition variable, and is uninitialised   *)
(* where there is none.                                                    *)
(*                                                                         *)
(* Left out are tables that only the text and the graphs of the report     *)
(* read (createseqmap, signalseqmap, exitmap, checkmap).                   *)
(***************************************************************************)
EXTENDS Naturals, Sequences, FiniteSets

CONSTANTS
  LastId,     \* THREADIDs are 0..LastId: threads at a time (bound)
  Conds,      \* condition variables
  Stores,     \* [ip, var]: the program's instructions and what they write
  Uninit,     \* threadregion::tid before its first assignment
  MaxEvents   \* length of the history (bound)

Ids == 0..LastId

ASSUME ThreadModelAssumption ==
  /\ LastId \in Nat /\ MaxEvents \in Nat
  /\ Stores \subseteq [ip : STRING, var : Nat]
  /\ Conds \cap {"fresh", "run"} = {}
  /\ Uninit \notin Nat

VARIABLES
  n,           \* the number of events so far
  thlist,      \* the ids of the threads that Pin started, in order
  startmap,    \* id -> start_counter when it started, in tenths
  starts,      \* start_counter, in tenths
  joinmap,     \* id -> [join, exit]
  createmap,   \* id -> the names of the threads it created
  condmap,     \* id -> the condition variables it waited for
  signalmap,   \* id -> the names of the threads it signalled
  lastrec,     \* condition variable -> tid of the last record that has it
  globalinmap, \* ip -> the ids that wrote by it, in order
  td,          \* the number of creations
  exits,       \* exit_counter, in tenths
  alive,       \* ids in use: "fresh", "run" or a condition variable (external)
  pending,     \* creations whose thread is not there yet (external)
  reused,      \* history: an id was given again
  made,        \* history: calls so far, by kind and id
  wrote,       \* history: the writes
  signals      \* history: what was reported of each signal, and what it did

vars == <<n, thlist, startmap, starts, joinmap, createmap, condmap, signalmap, lastrec,
          globalinmap, td, exits, alive, pending, reused, made, wrote, signals>>

Ips   == {s.ip : s \in Stores}
Calls == {"create", "join", "wait", "signal"}
None  == [x \in {} |-> 0]

\* The thread is past its start and does not wait: it can make a call.
Running(t) == t \in DOMAIN alive /\ alive[t] = "run"

Waiting(c) == {t \in DOMAIN alive : alive[t] = c}

\* Pin takes the first id that is free (external).
Fresh(d) == d \notin DOMAIN alive /\ 0..(d - 1) \subseteq DOMAIN alive

-----------------------------------------------------------------------------

\* std::map operator[] and the find / insert / push_back of the callbacks.
Put(f, x, v) == [y \in DOMAIN f \cup {x} |-> IF y = x THEN v ELSE f[y]]
Push(f, x, v) == Put(f, x, IF x \in DOMAIN f THEN Append(f[x], v) ELSE <<v>>)

\* Another event is in the history.
Event == n < MaxEvents /\ n' = n + 1

\* t makes a call of this kind.
Makes(t, call) ==
  /\ Running(t)
  /\ Event
  /\ made' = [made EXCEPT ![call][t] = @ + 1]

\* The main thread is in start.
Init ==
  /\ n = 0
  /\ thlist = <<0>>
  /\ startmap = [t \in {0} |-> 1]
  /\ starts = 1
  /\ joinmap = None
  /\ createmap = None
  /\ condmap = None
  /\ signalmap = None
  /\ lastrec = [c \in Conds |-> Uninit]
  /\ globalinmap = [ip \in Ips |-> << >>]
  /\ td = 0
  /\ exits = 0
  /\ alive = [t \in {0} |-> "run"]
  /\ pending = 0
  /\ reused = FALSE
  /\ made = [call \in Calls |-> [t \in Ids |-> 0]]
  /\ wrote = {}
  /\ signals = << >>

-----------------------------------------------------------------------------
(* Threads                                                                 *)

\* Mutant: a creator that is in createmap gets no second entry.
CreateOnce(t) ==
  /\ Makes(t, "create")
  /\ td' = td + 1
  /\ createmap' = IF t \in DOMAIN createmap THEN createmap ELSE Push(createmap, t, td + 1)
  /\ \/ pending' = pending + 1 \/ UNCHANGED pending
  /\ UNCHANGED <<thlist, startmap, starts, joinmap, condmap, signalmap, lastrec, globalinmap,
                 exits, alive, reused, wrote, signals>>

\* pthread_create, which may fail, is called.
Create(t) ==
  /\ Makes(t, "create")
  /\ td' = td + 1
  /\ createmap' = Push(createmap, t, td + 1)
  /\ \/ pending' = pending + 1 \/ UNCHANGED pending
  /\ UNCHANGED <<thlist, startmap, starts, joinmap, condmap, signalmap, lastrec, globalinmap,
                 exits, alive, reused, wrote, signals>>

\* ThreadStart of a new thread.
ThreadStart ==
  \E d \in Ids :
    /\ Fresh(d)
    /\ pending > 0
    /\ pending' = pending - 1
    /\ thlist' = Append(thlist, d)
    /\ alive' = Put(alive, d, "fresh")
    /\ reused' = (reused \/ \E i \in DOMAIN thlist : thlist[i] = d)
    /\ UNCHANGED <<n, startmap, starts, joinmap, createmap, condmap, signalmap, lastrec,
                   globalinmap, td, exits, made, wrote, signals>>

\* Mutant: start_counter is read and not counted up.
ChildStartStill(t) ==
  /\ t \in DOMAIN alive /\ alive[t] = "fresh"
  /\ Event
  /\ alive' = [alive EXCEPT ![t] = "run"]
  /\ startmap' = IF t \in DOMAIN startmap THEN startmap ELSE Put(startmap, t, starts + 1)
  /\ UNCHANGED <<thlist, starts, joinmap, createmap, condmap, signalmap, lastrec,
                 globalinmap, td, exits, pending, reused, made, wrote, signals>>

\* start and child_start: startmap.insert keeps the entry of an earlier thread.
ChildStart(t) ==
  /\ t \in DOMAIN alive /\ alive[t] = "fresh"
  /\ Event
  /\ alive' = [alive EXCEPT ![t] = "run"]
  /\ starts' = starts + 1
  /\ startmap' = IF t \in DOMAIN startmap THEN startmap ELSE Put(startmap, t, starts + 1)
  /\ UNCHANGED <<thlist, joinmap, createmap, condmap, signalmap, lastrec, globalinmap,
                 td, exits, pending, reused, made, wrote, signals>>

\* pthread_join is called.
Join(t) ==
  /\ Makes(t, "join")
  /\ joinmap' = Put(joinmap, t,
                    IF t \in DOMAIN joinmap
                    THEN [join |-> joinmap[t].join + 1, exit |-> joinmap[t].exit]
                    ELSE [join |-> 1, exit |-> 0])
  /\ UNCHANGED <<thlist, startmap, starts, createmap, condmap, signalmap, lastrec,
                 globalinmap, td, exits, alive, pending, reused, wrote, signals>>

\* Mutant: the entry is made anew.
ThreadFiniAnew(t) ==
  /\ Running(t)
  /\ Event
  /\ exits' = exits + 1
  /\ joinmap' = Put(joinmap, t, [join |-> 0, exit |-> exits + 1])
  /\ alive' = [u \in DOMAIN alive \ {t} |-> alive[u]]
  /\ UNCHANGED <<thlist, startmap, starts, createmap, condmap, signalmap, lastrec,
                 globalinmap, td, pending, reused, made, wrote, signals>>

\* A thread ends.
ThreadFini(t) ==
  /\ Running(t)
  /\ Event
  /\ exits' = exits + 1
  /\ joinmap' = Put(joinmap, t,
                    [join |-> IF t \in DOMAIN joinmap THEN joinmap[t].join ELSE 0,
                     exit |-> exits + 1])
  /\ alive' = [u \in DOMAIN alive \ {t} |-> alive[u]]
  /\ UNCHANGED <<thlist, startmap, starts, createmap, condmap, signalmap, lastrec,
                 globalinmap, td, pending, reused, made, wrote, signals>>

-----------------------------------------------------------------------------
(* Condition variables                                                     *)

\* Mutant: the record of a wait names the thread that waits.
CondWaitNamed(t, c) ==
  /\ Makes(t, "wait")
  /\ condmap' = Push(condmap, t, c)
  /\ lastrec' = [lastrec EXCEPT ![c] = t]
  /\ alive' = [alive EXCEPT ![t] = c]
  /\ UNCHANGED <<thlist, startmap, starts, joinmap, createmap, signalmap, globalinmap,
                 td, exits, pending, reused, wrote, signals>>

\* pthread_cond_wait is called: tr.tid=0.
CondWait(t, c) ==
  /\ Makes(t, "wait")
  /\ condmap' = Push(condmap, t, c)
  /\ lastrec' = [lastrec EXCEPT ![c] = 0]
  /\ alive' = [alive EXCEPT ![t] = c]
  /\ UNCHANGED <<thlist, startmap, starts, joinmap, createmap, signalmap, globalinmap,
                 td, exits, pending, reused, wrote, signals>>

\* Who wakes: at least one thread, when there is one (external).
Wakes(c, woken) == woken \subseteq Waiting(c) /\ (woken = {} => Waiting(c) = {})

Wake(woken) == alive' = [t \in DOMAIN alive |-> IF t \in woken THEN "run" ELSE alive[t]]

\* pthread_cond_signal is called: tr.tid is that of the last record with c.
CondSignal(t, c, woken) ==
  /\ Makes(t, "signal")
  /\ Wakes(c, woken) /\ Cardinality(woken) <= 1
  /\ Wake(woken)
  /\ signalmap' = Push(signalmap, t, lastrec[c])
  /\ signals' = Append(signals, [named |-> lastrec[c], woken |-> woken,
                                 waited |-> \E u \in DOMAIN condmap :
                                   \E i \in DOMAIN condmap[u] : condmap[u][i] = c])
  /\ UNCHANGED <<thlist, startmap, starts, joinmap, createmap, condmap, lastrec,
                 globalinmap, td, exits, pending, reused, wrote>>

\* pthread_cond_broadcast, a timeout or a spurious wakeup: no callback.
WakeUnseen(c, woken) ==
  /\ woken # {} /\ woken \subseteq Waiting(c)
  /\ Wake(woken)
  /\ UNCHANGED <<n, thlist, startmap, starts, joinmap, createmap, condmap, signalmap,
                 lastrec, globalinmap, td, exits, pending, reused, made, wrote, signals>>

-----------------------------------------------------------------------------

\* RecordMemWrite stores the address of the instruction, not of the variable.
Write(t, s) ==
  /\ Running(t)
  /\ Event
  /\ globalinmap' = [globalinmap EXCEPT ![s.ip] = Append(@, t)]
  /\ wrote' = wrote \cup {[tid |-> t, ip |-> s.ip, var |-> s.var]}
  /\ UNCHANGED <<thlist, startmap, starts, joinmap, createmap, condmap, signalmap,
                 lastrec, td, exits, alive, pending, reused, made, signals>>

Next ==
  \/ ThreadStart
  \/ \E t \in Ids :
       \/ Create(t) \/ ChildStart(t) \/ Join(t) \/ ThreadFini(t)
       \/ \E c \in Conds :
            \/ CondWait(t, c)
            \/ \E woken \in SUBSET Ids : CondSignal(t, c, woken)
       \/ \E s \in Stores : Write(t, s)
  \/ \E c \in Conds, woken \in SUBSET Ids : WakeUnseen(c, woken)

Spec == Init /\ [][Next]_vars

-----------------------------------------------------------------------------
(* The decision                                                            *)

\* glist: written by two ids, one after the other.
glist ==
  {ip \in Ips : \E i \in 1..(Len(globalinmap[ip]) - 1) :
     globalinmap[ip][i] # globalinmap[ip][i + 1]}

\* manyP: two threads are in createmap.
ManyParents == \E t, u \in DOMAIN createmap : t # u

\* is_join: a JOINS event is in the history.
IsJoin == \E t \in DOMAIN joinmap : joinmap[t].join > 0

\* Mutant: any writer will do.
DoesUpdateAny == glist # {}

\* does_update: a thread that is in createmap wrote to something in glist.
DoesUpdate ==
  \E t \in DOMAIN createmap : \E ip \in glist :
    \E i \in DOMAIN globalinmap[ip] : globalinmap[ip][i] = t

Verdict ==
  CASE ManyParents /\ DoesUpdate /\ IsJoin   -> "Hybrid"
    [] ManyParents /\ DoesUpdate /\ ~IsJoin  -> "Pipeline"
    [] ~DoesUpdate /\ IsJoin                 -> "Boss_Worker"
    [] ~DoesUpdate /\ ~IsJoin                -> "Hybrid"
    [] ~ManyParents /\ DoesUpdate            -> "Peer to Peer"

\* data_access: how the writes to what is in glist are found to be spread.
DataAccess ==
  CASE glist = {} -> "Only local variables"
    [] \E ip \in glist : Len(globalinmap[ip]) >= 2 -> "Overlapped access"
    [] OTHER -> "Partitioned access"

-----------------------------------------------------------------------------
(* Properties                                                              *)

Named == Nat \cup {Uninit}

\* The tables have the types of the tool's globals.
TypeOK ==
  /\ n \in 0..MaxEvents
  /\ thlist \in Seq(Ids)
  /\ starts \in Nat /\ exits \in Nat /\ td \in Nat /\ pending \in Nat
  /\ DOMAIN startmap \subseteq Ids /\ \A t \in DOMAIN startmap : startmap[t] \in 1..starts
  /\ DOMAIN joinmap \subseteq Ids
  /\ \A t \in DOMAIN joinmap : joinmap[t] \in [join : Nat, exit : 0..exits]
  /\ DOMAIN createmap \subseteq Ids
  /\ \A t \in DOMAIN createmap : createmap[t] \in Seq(1..td) \ {<< >>}
  /\ DOMAIN condmap \subseteq Ids
  /\ \A t \in DOMAIN condmap : condmap[t] \in Seq(Conds)
  /\ DOMAIN signalmap \subseteq Ids
  /\ \A t \in DOMAIN signalmap : signalmap[t] \in Seq(Named)
  /\ lastrec \in [Conds -> Named]
  /\ globalinmap \in [Ips -> Seq(Ids)]
  /\ DOMAIN alive \subseteq Ids
  /\ \A t \in DOMAIN alive : alive[t] \in {"fresh", "run"} \cup Conds
  /\ reused \in BOOLEAN
  /\ made \in [Calls -> [Ids -> Nat]]
  /\ wrote \subseteq [tid : Ids, ip : Ips, var : Nat]
  /\ signals \in Seq([named : Named, woken : SUBSET Ids, waited : BOOLEAN])

\* "Thread i signals Thread j" of the report: whatever thread a signal wakes,
\* it names the main thread, once a wait for the condition variable has been
\* recorded, and an uninitialised thread until then.  So no signal that wakes
\* a thread is reported with it, unless that is the main thread.
SignalsNameMain ==
  \A i \in DOMAIN signals :
    /\ signals[i].named = IF signals[i].waited THEN 0 ELSE Uninit
    /\ signals[i].woken # {} => signals[i].waited

\* Each variable is written by one instruction that writes no other.
OneToOne == \A v, w \in wrote : v.var = w.var <=> v.ip = w.ip

\* A thread that creates threads wrote to a variable another thread wrote to.
ParentShares ==
  \E v, w \in wrote : v.var = w.var /\ v.tid # w.tid /\ made["create"][v.tid] > 0

\* Two threads wrote to one variable.
SomeShared == \E v, w \in wrote : v.var = w.var /\ v.tid # w.tid

SomeJoin == \E t \in Ids : made["join"][t] > 0

\* The models tell programs apart by what they are named for: in Peer to Peer
\* and Pipeline a parent shares a variable with another thread, and in Pipeline
\* no thread joins; in Boss_Worker some thread joins and no parent shares, and
\* in Hybrid a parent shares or no thread joins.  The accesses are found to
\* overlap exactly when two threads wrote to a variable, and never to be
\* partitioned.  That is as long as each variable has its instruction; threads
\* with one id count as one thread.
VerdictFits ==
  OneToOne =>
    /\ Verdict \in {"Peer to Peer", "Pipeline"} => ParentShares
    /\ Verdict = "Boss_Worker" => ~ParentShares /\ SomeJoin
    /\ Verdict = "Pipeline" => ~SomeJoin
    /\ Verdict = "Hybrid" => ParentShares \/ ~SomeJoin
    /\ DataAccess = IF SomeShared THEN "Overlapped access" ELSE "Only local variables"

=============================================================================
