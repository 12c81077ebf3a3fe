----------------------------- MODULE Recorder -----------------------------
(***************************************************************************)
(* The event recorder of source/tools/u0.cpp.  Every callback takes the    *)
(* next key from counter, then locks `lock`, inserts its event under that  *)
(* key in accessmap, and unlocks.  Fini reads accessmap in key order as    *)
(* the history of the program.                                             *)
(*                                                                         *)
(* The key is taken outside the lock; map::insert keeps the entry that is  *)
(* there; child_start releases the lock in each round of a loop and once   *)
(* more after it, and ThreadFini releases it twice.  All the callbacks not *)
(* named here have the same frame and differ in what they store.           *)
(*                                                                         *)
(* `counter1=counter; counter++;` is a load and a store in the -O3 build   *)
(* of the kit's makefiles.  Two threads in one std::map or std::list at    *)
(* the same time are undefined behaviour: `ub` names the container, and    *)
(* the behaviour ends.                                                     *)
(***************************************************************************)
EXTENDS Naturals, Sequences, FiniteSets, Functions

CONSTANTS
  LastThread,  \* THREADIDs are 0..LastThread (bound)
  MaxEvents    \* MaxEvents[t]: callbacks of t that take a key (bound)

Threads == 0..LastThread

ASSUME RecorderAssumption == LastThread \in Nat /\ MaxEvents \in [Threads -> Nat \ {0}]

VARIABLES
  pc,        \* where each thread is, see Labels
  kind,      \* the callback it is in
  counter,   \* the global counter
  counter1,  \* counter1[t]: the key that the callback of t loaded
  accessmap, \* key -> event
  lock,      \* PIN_LOCK lock: who took it, or Free
  td,        \* the THREADID create() gave the last created thread
  born,      \* the number of threads so far: Pin's next THREADID (external)
  ub,        \* containers that two threads were in
  keys,      \* history: keys[t], the keys of t's callbacks that are done
  raced,     \* history: two threads were between load and store
  seized,    \* history: the lock of another thread was released
  given,     \* given[t]: the THREADID that t's last creation recorded
  named,     \* history: new thread -> the THREADID its creator recorded
  crossed    \* history: a creation failed or two creations overlapped

vars == <<pc, kind, counter, counter1, accessmap, lock, td, born, ub, keys,
          raced, seized, given, named, crossed>>

Free == LastThread + 1

Labels == {"unborn", "fresh", "idle", "loaded", "beside", "waiting", "in", "scan",
           "scanning", "releasing", "again", "creating", "ended"}

\* "new": ThreadStart; "start": start and child_start; "exit": ThreadFini;
\* "event": every callback that is not another kind.
Kinds == {"new", "start", "event", "join", "create", "exit"}

-----------------------------------------------------------------------------
(* Containers and who is in them.                                          *)

Containers == {"accessmap", "thlist", "startmap", "joinmap"}

\* The container that a thread at this place in this callback is in.
Container(label, k) ==
  CASE label = "in" /\ k = "new"          -> "thlist"
    [] label = "in" /\ k # "new"          -> "accessmap"
    [] label \in {"scan", "scanning"}     -> "accessmap"
    [] label = "beside" /\ k = "start"    -> "startmap"
    [] label = "beside" /\ k # "start"    -> "joinmap"
    [] OTHER                              -> "none"

\* t goes on in its callback.
Step(t, from, to) ==
  /\ ub = {}
  /\ pc[t] = from
  /\ pc' = [pc EXCEPT ![t] = to]
  /\ ub' = {Container(pc[u], kind[u]) : u \in Threads \ {t}}
              \cap ({Container(to, kind[t])} \ {"none"})

-----------------------------------------------------------------------------

\* The main thread is in ThreadStart.
Init ==
  /\ pc = [t \in Threads |-> IF t = 0 THEN "waiting" ELSE "unborn"]
  /\ kind = [t \in Threads |-> "new"]
  /\ counter = 0
  /\ counter1 = [t \in Threads |-> 0]
  /\ accessmap = [k \in {} |-> 0]
  /\ lock = Free
  /\ td = 0
  /\ born = 1
  /\ ub = {}
  /\ keys = [t \in Threads |-> <<>>]
  /\ raced = FALSE
  /\ seized = FALSE
  /\ given = [t \in Threads |-> 0]
  /\ named = [t \in Threads |-> t]
  /\ crossed = FALSE

\* The threads that are in create and have not recorded it yet.
Announced == {u \in Threads : kind[u] = "create" /\ pc[u] \in {"loaded", "waiting", "in"}}

\* The callbacks a thread can be in next: its first is start or child_start.
\* There are as many creations as there are threads.
NextKinds(t) ==
  IF pc[t] = "fresh" THEN {"start"}
  ELSE IF Len(keys[t]) = MaxEvents[t] THEN {}
  ELSE IF td + Cardinality(Announced) < LastThread
       THEN {"event", "join", "create", "exit"}
       ELSE {"event", "join", "exit"}

\* counter1=counter.
Load(t, k) ==
  /\ ub = {}
  /\ pc[t] \in {"fresh", "idle"}
  /\ k \in NextKinds(t)
  /\ pc' = [pc EXCEPT ![t] = "loaded"]
  /\ kind' = [kind EXCEPT ![t] = k]
  /\ counter1' = [counter1 EXCEPT ![t] = counter]
  /\ raced' = (raced \/ \E u \in Threads \ {t} : pc[u] = "loaded")
  /\ UNCHANGED <<counter, accessmap, lock, td, born, ub, keys, seized, given,
                 named, crossed>>

\* Where a callback is after counter++: start and child_start go on to
\* startmap, join and ThreadFini to joinmap, without the lock.
AfterStore(t) == IF kind[t] \in {"start", "join", "exit"} THEN "beside" ELSE "waiting"

\* Mutant: counter++ after a key of zero only.
StoreOnce(t) ==
  /\ Step(t, "loaded", AfterStore(t))
  /\ counter' = IF counter1[t] = 0 THEN 1 ELSE counter
  /\ UNCHANGED <<kind, counter1, accessmap, lock, td, born, keys, raced, seized,
                 given, named, crossed>>

\* counter++.
Store(t) ==
  /\ Step(t, "loaded", AfterStore(t))
  /\ counter' = counter1[t] + 1
  /\ UNCHANGED <<kind, counter1, accessmap, lock, td, born, keys, raced, seized,
                 given, named, crossed>>

\* The end of the update of startmap or joinmap.
Beside(t) ==
  /\ Step(t, "beside", "waiting")
  /\ UNCHANGED <<kind, counter, counter1, accessmap, lock, td, born, keys, raced,
                 seized, given, named, crossed>>

\* Mutant: create does not take the lock.
EnterFreely(t) ==
  /\ Step(t, "waiting", "in")
  /\ lock = Free \/ kind[t] = "create"
  /\ lock' = IF kind[t] = "create" THEN lock ELSE t
  /\ UNCHANGED <<kind, counter, counter1, accessmap, td, born, keys, raced, seized,
                 given, named, crossed>>

\* PIN_GetLock(&lock, tid+1).
Enter(t) ==
  /\ Step(t, "waiting", "in")
  /\ lock = Free
  /\ lock' = t
  /\ UNCHANGED <<kind, counter, counter1, accessmap, td, born, keys, raced, seized,
                 given, named, crossed>>

\* accessmap.insert: an entry that is there stays.
Inserting(k, e) ==
  [j \in DOMAIN accessmap \cup {k} |-> IF j \in DOMAIN accessmap THEN accessmap[j] ELSE e]

\* u has recorded a creation, and the new thread does not run yet.
Creating(u) == kind[u] = "create" /\ pc[u] \in {"releasing", "creating"}

\* The body of a callback under the lock; a creation stores `child`, and
\* `count` is the new td.
Record(t, child, count) ==
  /\ kind[t] # "new"
  /\ Step(t, "in", IF kind[t] = "start" /\ t # 0 THEN "scan" ELSE "releasing")
  /\ accessmap' = Inserting(counter1[t],
                            [tid |-> t, n |-> Len(keys[t]) + 1, child |-> child])
  /\ keys' = [keys EXCEPT ![t] = Append(@, counter1[t])]
  /\ td' = count
  /\ given' = [given EXCEPT ![t] = child]
  /\ crossed' = (crossed \/ (kind[t] = "create" /\ \E u \in Threads \ {t} : Creating(u)))
  /\ UNCHANGED <<kind, counter, counter1, lock, born, raced, seized, named>>

\* Mutant: child_start also counts td up.
InsertCounting(t) ==
  LET child == IF kind[t] = "create" THEN td + 1 ELSE 0
  IN  Record(t, child, IF kind[t] \in {"create", "start"} THEN td + 1 ELSE td)

\* Mutant: tr1.tid=td++.
InsertPostfix(t) ==
  LET child == IF kind[t] = "create" THEN td ELSE 0
  IN  Record(t, child, IF kind[t] = "create" THEN td + 1 ELSE td)

\* The callbacks that record an event; create gives the new thread ++td.
Insert(t) ==
  IF kind[t] = "create" THEN Record(t, td + 1, td + 1) ELSE Record(t, 0, td)

\* ThreadStart under the lock: thlist.push_back.
Enlist(t) ==
  /\ kind[t] = "new"
  /\ Step(t, "in", "releasing")
  /\ UNCHANGED <<kind, counter, counter1, accessmap, lock, td, born, keys, raced,
                 seized, given, named, crossed>>

\* PIN_ReleaseLock(&lock): whoever took it (the Pin lock is external).
Unlock(t) ==
  /\ lock' = Free
  /\ seized' = (seized \/ lock \notin {Free, t})

\* The loop of child_start releases the lock in its first round and goes on.
ScanFirst(t) ==
  /\ Step(t, "scan", "scanning")
  /\ Unlock(t)
  /\ UNCHANGED <<kind, counter, counter1, accessmap, td, born, keys, raced, given,
                 named, crossed>>

\* A later round of the loop, when it is seen: another thread has the lock.
ScanOn(t) ==
  /\ ub = {}
  /\ pc[t] = "scanning"
  /\ Cardinality(DOMAIN accessmap) > 1
  /\ lock # Free
  /\ Unlock(t)
  /\ UNCHANGED <<pc, kind, counter, counter1, accessmap, td, born, ub, keys, raced,
                 given, named, crossed>>

\* Mutant: the iterator is set back to the begin.
ScanEndBack(t) ==
  /\ Step(t, "scanning", "scan")
  /\ UNCHANGED <<kind, counter, counter1, accessmap, lock, td, born, keys, raced,
                 seized, given, named, crossed>>

\* The iterator is at the end of accessmap.
ScanEnd(t) ==
  /\ Step(t, "scanning", "releasing")
  /\ UNCHANGED <<kind, counter, counter1, accessmap, lock, td, born, keys, raced,
                 seized, given, named, crossed>>

AfterRelease(t) ==
  CASE kind[t] = "new"    -> "fresh"
    [] kind[t] = "create" -> "creating"
    [] kind[t] = "exit"   -> "again"
    [] OTHER              -> "idle"

\* Mutant: no PIN_ReleaseLock at the end of create.
ReleaseLess(t) ==
  /\ Step(t, "releasing", AfterRelease(t))
  /\ IF kind[t] = "create" THEN UNCHANGED <<lock, seized>> ELSE Unlock(t)
  /\ UNCHANGED <<kind, counter, counter1, accessmap, td, born, keys, raced, given,
                 named, crossed>>

\* The release at the end of a callback.
Release(t) ==
  /\ Step(t, "releasing", AfterRelease(t))
  /\ Unlock(t)
  /\ UNCHANGED <<kind, counter, counter1, accessmap, td, born, keys, raced, given,
                 named, crossed>>

\* The second release of ThreadFini; the thread is gone.
ReleaseAgain(t) ==
  /\ Step(t, "again", "ended")
  /\ Unlock(t)
  /\ UNCHANGED <<kind, counter, counter1, accessmap, td, born, keys, raced, given,
                 named, crossed>>

\* pthread_create starts a thread (external).
Spawn(t) ==
  /\ ub = {}
  /\ pc[t] = "creating"
  /\ pc' = [pc EXCEPT ![t] = "idle", ![born] = "waiting"]
  /\ born' = born + 1
  /\ named' = [named EXCEPT ![born] = given[t]]
  /\ UNCHANGED <<kind, counter, counter1, accessmap, lock, td, ub, keys, raced,
                 seized, given, crossed>>

\* pthread_create fails (external).
SpawnFail(t) ==
  /\ Step(t, "creating", "idle")
  /\ crossed' = TRUE
  /\ UNCHANGED <<kind, counter, counter1, accessmap, lock, td, born, keys, raced,
                 seized, given, named>>

Next ==
  \E t \in Threads :
    \/ \E k \in Kinds : Load(t, k)
    \/ Store(t) \/ Beside(t) \/ Enter(t) \/ Insert(t) \/ Enlist(t)
    \/ ScanFirst(t) \/ ScanOn(t) \/ ScanEnd(t)
    \/ Release(t) \/ ReleaseAgain(t)
    \/ Spawn(t) \/ SpawnFail(t)

Spec == Init /\ [][Next]_vars

\* A thread goes on in its callback.  Which callback it enters, and whether a
\* thread is created, is up to the program.
Progress(t) ==
  \/ Store(t) \/ Beside(t) \/ Enter(t) \/ Insert(t) \/ Enlist(t)
  \/ ScanFirst(t) \/ ScanEnd(t) \/ Release(t) \/ ReleaseAgain(t)

\* The operating system runs every thread that can go on.  Of the Pin lock
\* only this is assumed: a thread that waits gets it when it stays free, not
\* when it is free again and again.
FairSpec == Spec /\ \A t \in Threads : WF_vars(Progress(t))

-----------------------------------------------------------------------------
(* Properties                                                              *)

\* The variables have the types of the tool's globals.
TypeOK ==
  /\ pc \in [Threads -> Labels]
  /\ kind \in [Threads -> Kinds]
  /\ counter \in Nat
  /\ counter1 \in [Threads -> Nat]
  /\ DOMAIN accessmap \subseteq Nat
  /\ \A k \in DOMAIN accessmap :
       accessmap[k] \in [tid : Threads, n : Nat, child : Threads]
  /\ lock \in Threads \cup {Free}
  /\ td \in Threads
  /\ born \in 1..(LastThread + 1)
  /\ ub \subseteq Containers
  /\ keys \in [Threads -> Seq(Nat)]
  /\ given \in [Threads -> Threads]
  /\ named \in [Threads -> Threads]
  /\ raced \in BOOLEAN /\ seized \in BOOLEAN /\ crossed \in BOOLEAN

\* Until two threads are between load and store of counter, the callbacks that
\* are done are all recorded, those of a thread in the order it made them.
RecordedInOrder ==
  ~raced =>
    \A t \in Threads : \A i \in 1..Len(keys[t]) :
      /\ keys[t][i] \in DOMAIN accessmap
      /\ accessmap[keys[t][i]].tid = t /\ accessmap[keys[t][i]].n = i
      /\ i > 1 => keys[t][i - 1] < keys[t][i]

\* Until then what is recorded is behind the counter, so a callback that begins
\* after another is done comes after it in accessmap, whatever their threads.
CounterIsAhead == ~raced => \A k \in DOMAIN accessmap : k < counter

\* The lock protects accessmap and thlist until a callback releases the lock of
\* another thread or child_start goes on in its loop.
LockProtects ==
  ub \cap {"accessmap", "thlist"} # {} =>
    seized \/ \E t \in Threads : pc[t] = "scanning"

\* A thread that the lock was last given to is on its way to release it: no
\* path through a callback leaves the lock taken.
LockIsReleased == lock # Free => pc[lock] \in {"in", "scan", "releasing"}

InCallback == {"loaded", "beside", "waiting", "in", "scan", "scanning", "releasing", "again"}

\* Every callback ends, so that a thread is outside again and again, or for
\* good: one that took a key is not kept from recording its event, nor from
\* going on in the program, by the threads that take the lock before it, release
\* it for it or walk over accessmap.
CallbacksEnd ==
  \A t \in Threads : []<>(pc[t] \notin InCallback \/ ub # {})

\* The places of a callback in the order of its path, the last first.
Rank == [ended |-> 0, again |-> 1, in |-> 2, waiting |-> 3, beside |-> 4, loaded |-> 5,
         idle |-> 6, fresh |-> 6, creating |-> 7, releasing |-> 8, scanning |-> 9,
         scan |-> 10, unborn |-> 11]

\* The callbacks that t has not got through under the lock.
CallsLeft(t) ==
  MaxEvents[t] - Len(keys[t])
    + (IF kind[t] = "new" /\ pc[t] \in {"unborn", "waiting", "in"} THEN 1 ELSE 0)

\* What is left to do for t; to have the lock is half a step.
StepsLeft(t) ==
  2 * (12 * CallsLeft(t) + Rank[pc[t]]) + (IF lock = t THEN 1 ELSE 0)

WorkLeft == SumFunction([t \in Threads |-> StepsLeft(t)])

\* t is in a callback and does not wait for another thread: while there is no
\* undefined behaviour, it can go on.
GoesOn(t) == pc[t] \in InCallback /\ (pc[t] = "waiting" => lock = Free)

\* The threads in callbacks never all wait for the lock that one of them has,
\* and no step, not even the release of a lock by a thread that does not have
\* it, has other threads do again what they did: each leaves less to do.
CallbacksAdvance ==
  /\ [](WorkLeft \in Nat)
  /\ []((\E t \in Threads : pc[t] \in InCallback) => \E t \in Threads : GoesOn(t))
  /\ [][WorkLeft' < WorkLeft]_vars

\* The callback of t has a key and no event yet.
Pending(t) == kind[t] # "new" /\ pc[t] \in {"beside", "waiting", "in"}

Places == [t \in {u \in Threads : Pending(u)} |-> counter1[t]]
Noted  == [k \in DOMAIN accessmap |-> [tid |-> accessmap[k].tid, n |-> accessmap[k].n]]
Done   == [t \in Threads |-> Len(keys[t])]

History == INSTANCE Journal WITH next <- counter, place <- Places, log <- Noted, done <- Done

\* accessmap is the history of the program until two threads are between load
\* and store of counter: its keys are as good as given out in one go.
HonestHistory == History!Init /\ [][~raced => [History!Next]_(History!absVars)]_vars

\* A creation names the thread that it creates, unless an earlier one failed or
\* two of them overlapped.
ChildIsNamed == ~crossed => \A c \in 1..(born - 1) : named[c] = c

=============================================================================
