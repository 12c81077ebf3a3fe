------------------------- MODULE DeadlockDetector -------------------------
(***************************************************************************)
(* The deadlock detector source/tools/Exp/threads/pmS.cpp: a matrix with   *)
(* one row per lock and one entry per thread (0 waiting, 1 holding, 2      *)
(* neither), updated by callbacks around the lock routines, and a walk     *)
(* over "waits for a lock held by" at each contended lock call.            *)
(*                                                                         *)
(* lock, slock and wlock are the same code over three maps (mutexes,       *)
(* semaphores, read-write locks) with common allThreads and threadCount;   *)
(* so are unlock, sunlock and wunlock.  One matrix holds the three maps:   *)
(* the rows of one map are those of one kind of lock.                      *)
(*                                                                         *)
(* The callbacks use the maps and global iterators without a lock, so two  *)
(* that overlap are undefined behaviour.  The model is of the executions   *)
(* where they do not: a callback is one action.  The lock routine itself   *)
(* runs after the callback (or, for unlock and sunlock, before it), and    *)
(* other threads act in between.                                           *)
(*                                                                         *)
(* unlock and sunlock are hooked at the return of their routines but read  *)
(* the first argument, which Pin documents for the entry only: the address *)
(* they get need not be the lock's.  They do not check that the row they   *)
(* look up exists: `ub` says that one did not, and the behaviour ends.     *)
(* `odd` remembers which unusual calls there have been, so that the        *)
(* properties can say under which of them they hold.                       *)
(***************************************************************************)
EXTENDS Naturals, FiniteSets

CONSTANTS
  Threads,  \* THREADIDs of the threads that use locks
  Locks,    \* lock addresses, truncated to int as the maps' keys are
  Kind,     \* Kind[m]: "mutex" (not recursive), "semaphore" (binary) or "rwlock"
  Stray,    \* an address that is no lock
  MaxOdd    \* bound: kinds of unusual calls in one execution

ASSUME DetectorAssumption ==
  /\ Threads \subseteq Nat /\ IsFiniteSet(Threads)
  /\ Locks \subseteq Nat \ {2}
  /\ Kind \in [Locks -> {"mutex", "semaphore", "rwlock"}]
  /\ Stray \notin Locks
  /\ MaxOdd \in Nat

VARIABLES
  pc,          \* where each thread is, see Labels
  want,        \* want[t]: the call t is in: a lock, and whether it is shared
  held,        \* held[t]: lock -> held in read mode? (external)
  unposted,    \* the semaphores that began at 0 and are still there (external)
  matrix,      \* accessmap, saccessmap and waccessmap: lock -> tid -> status
  allThreads,  \* the threads seen so far, by any kind of lock
  threadCount, \* how often a thread was added
  reported,    \* "DEADLOCK detected!!" was printed and the process exited
  ub,          \* an unlock callback used the row of a lock that has none
  handover,    \* history: a thread got a lock its row has it waiting for
  odd          \* history: kinds of unusual calls so far, see OddKinds

tool == <<matrix, allThreads, threadCount, reported, ub>>
vars == <<pc, want, held, unposted, tool, handover, odd>>

Labels == {"run", "acquiring", "unhooked", "releasing", "cond_waiting"}

\* "unseen": a lock was acquired without a callback: by a trylock;
\* "failed": a lock routine returned without the lock: a sem_wait interrupted;
\* "stray":  an unlock callback read another address than the lock's;
\* "missed": an unlock callback was not called: Pin did not find the return;
\* "posted": a semaphore was posted by a thread that does not hold it.
OddKinds == {"unseen", "failed", "stray", "missed", "posted"}

Waiting == 0
Holding == 1
Neither == 2

\* isLocked and isWaiting return 2 for "nobody" and "no lock"; varthread, the
\* holder of a lock, starts as 2.
Nobody == 2

-----------------------------------------------------------------------------
(* The locks themselves (external).                                        *)

NoCall == [lock |-> Nobody, shared |-> FALSE]

Calls == {c \in [lock : Locks, shared : BOOLEAN] : c.shared => Kind[c.lock] = "rwlock"}

\* u holds what the call c needs.
Blocks(u, c) ==
  c.lock \in DOMAIN held[u] /\ ~(c.shared /\ held[u][c.lock])

\* A lock routine that t is in can give it the lock of the call c.
Available(t, c) ==
  c.lock \notin unposted /\ \A u \in Threads \ {t} : ~Blocks(u, c)

Put(f, x, v) == [y \in DOMAIN f \cup {x} |-> IF y = x THEN v ELSE f[y]]
Remove(f, x) == [y \in DOMAIN f \ {x} |-> f[y]]
Empty == [m \in {} |-> Neither]

-----------------------------------------------------------------------------
(* The matrix.                                                             *)

Status(mx, m, t) == IF t \in DOMAIN mx[m] THEN mx[m][t] ELSE Neither

\* Mutant: a thread that waits passes for the holder.
IsLockedAny(mx, m) ==
  IF \E t \in DOMAIN mx[m] : mx[m][t] # Neither
  THEN CHOOSE t \in DOMAIN mx[m] : mx[m][t] # Neither
  ELSE Nobody

\* isLocked(mute), and the loop that sets varthread in lock().
IsLocked(mx, m) ==
  IF \E t \in DOMAIN mx[m] : mx[m][t] = Holding
  THEN CHOOSE t \in DOMAIN mx[m] : mx[m][t] = Holding
  ELSE Nobody

\* isWaiting(thread): the first lock, in the order of the map, it waits for.
IsWaiting(mx, k, t) ==
  LET awaited == {m \in DOMAIN mx : Kind[m] = k /\ Status(mx, m, t) = Waiting}
  IN  IF awaited = {} THEN Nobody
      ELSE CHOOSE m \in awaited : \A n \in awaited : m <= n

\* Mutant: the walk stops after its first round.
CycleOnce(mx, k, t, from, rounds) ==
  LET a == IsWaiting(mx, k, from)
  IN  a # Nobody /\ IsLocked(mx, a) = t

\* The walk of lock(): from the thread `from`, along "waits for a lock held by",
\* to t, in at most `rounds` rounds.
Cycle(mx, k, t, from, rounds) ==
  LET reached[n \in 0..rounds] ==
        IF n = 0 THEN from ELSE IsLocked(mx, IsWaiting(mx, k, reached[n - 1]))
  IN  \E n \in 1..rounds :
        /\ \A i \in 0..(n - 1) : IsWaiting(mx, k, reached[i]) # Nobody
        /\ reached[n] = t

\* Thread t gets status s in the row of m.  A thread that is new to the row is
\* also added to the other rows of the kind and to allThreads.
Entered(t, m, s) ==
  LET k == Kind[m]
      row == IF m \in DOMAIN matrix THEN matrix[m]
             ELSE [u \in allThreads |-> Neither]
  IN  [n \in DOMAIN matrix \cup {m} |->
         IF n = m THEN Put(row, t, s)
         ELSE IF t \in DOMAIN row \/ Kind[n] # k \/ t \in DOMAIN matrix[n]
              THEN matrix[n]
              ELSE Put(matrix[n], t, Neither)]

IsNew(t, m) ==
  IF m \in DOMAIN matrix THEN t \notin DOMAIN matrix[m] ELSE t \notin allThreads

\* Mutant: the push_back to allThreads is missing.
CountRowOnly(t, m) ==
  /\ UNCHANGED allThreads
  /\ threadCount' = IF IsNew(t, m) THEN threadCount + 1 ELSE threadCount

Count(t, m) ==
  /\ allThreads' = allThreads \cup {t}
  /\ threadCount' = IF IsNew(t, m) THEN threadCount + 1 ELSE threadCount

-----------------------------------------------------------------------------

Init ==
  /\ pc = [t \in Threads |-> "run"]
  /\ want = [t \in Threads |-> NoCall]
  /\ held = [t \in Threads |-> Empty]
  /\ unposted \in SUBSET {m \in Locks : Kind[m] = "semaphore"}
  /\ matrix = Empty
  /\ allThreads = {}
  /\ threadCount = 0
  /\ reported = FALSE
  /\ ub = FALSE
  /\ handover = FALSE
  /\ odd = {}

\* t goes on, in the call c.
Step(t, from, to, c) ==
  /\ ~reported /\ ~ub
  /\ pc[t] = from
  /\ pc' = [pc EXCEPT ![t] = to]
  /\ want' = [want EXCEPT ![t] = c]

\* An unusual call of this kind.
Odd(k) ==
  /\ odd' = odd \cup {k}
  /\ Cardinality(odd') <= MaxOdd

\* A lock call that the program makes: of a lock the thread does not hold.
Calling(t, c) ==
  /\ c.lock \notin DOMAIN held[t]
  /\ Step(t, "run", "acquiring", c)
  /\ UNCHANGED <<held, unposted, ub, handover, odd>>

\* lock(), first call for this lock: a new row in which t holds it.
LockNew(t, c) ==
  /\ Calling(t, c)
  /\ c.lock \notin DOMAIN matrix
  /\ matrix' = Entered(t, c.lock, Holding)
  /\ Count(t, c.lock)
  /\ UNCHANGED reported

\* Mutant: alreadyLocked is never set.
LockKnownFree(t, c) ==
  LET m == c.lock
      varthread == IsLocked(matrix, m)
      updated == Entered(t, m, Holding)
  IN  /\ Calling(t, c)
      /\ m \in DOMAIN matrix
      /\ varthread # t
      /\ matrix' = updated
      /\ Count(t, m)
      /\ reported' = Cycle(updated, Kind[m], t, varthread, threadCount' + 1)

\* lock(), the lock has a row: t waits if some thread holds it, else it holds
\* it; either way the walk starts at varthread.
LockKnown(t, c) ==
  LET m == c.lock
      varthread == IsLocked(matrix, m)
      locked == \E u \in DOMAIN matrix[m] : matrix[m][u] = Holding
      updated == Entered(t, m, IF locked THEN Waiting ELSE Holding)
  IN  /\ Calling(t, c)
      /\ m \in DOMAIN matrix
      /\ varthread # t
      /\ matrix' = updated
      /\ Count(t, m)
      /\ reported' = Cycle(updated, Kind[m], t, varthread, threadCount' + 1)

\* lock(), varthread equals the caller: nothing is recorded.
LockOwn(t, c) ==
  /\ Calling(t, c)
  /\ c.lock \in DOMAIN matrix
  /\ IsLocked(matrix, c.lock) = t
  /\ UNCHANGED <<matrix, allThreads, threadCount, reported>>

\* The lock routine returns with the lock.
Acquire(t) ==
  /\ Available(t, want[t])
  /\ Step(t, "acquiring", "run", NoCall)
  /\ held' = [held EXCEPT ![t] = Put(@, want[t].lock, want[t].shared)]
  /\ handover' = (handover \/ Status(matrix, want[t].lock, t) = Waiting)
  /\ UNCHANGED <<unposted, tool, odd>>

\* The lock routine returns without the lock; nothing is hooked there.
AcquireFails(t) ==
  /\ Step(t, "acquiring", "run", NoCall)
  /\ Odd("failed")
  /\ UNCHANGED <<held, unposted, tool, handover>>

\* pthread_mutex_trylock and the like, which are not hooked.
AcquireUnseen(t, c) ==
  /\ c.lock \notin DOMAIN held[t] /\ Available(t, c)
  /\ Step(t, "run", "run", NoCall)
  /\ held' = [held EXCEPT ![t] = Put(@, c.lock, c.shared)]
  /\ Odd("unseen")
  /\ UNCHANGED <<unposted, tool, handover>>

\* Mutant: the status of the thread is not reset.
ForgetNothing(t, k, m) == UNCHANGED <<matrix, ub>>

\* Mutant: the status of the thread is reset in every row.
ForgetEverywhere(t, k, m) ==
  /\ matrix' = [n \in DOMAIN matrix |->
                  [u \in DOMAIN matrix[n] |-> IF u = t THEN Neither ELSE matrix[n][u]]]
  /\ UNCHANGED ub

\* Mutant: sunlock looks the lock up in accessmap, the mutexes.
ForgetMutex(t, k, m) ==
  /\ ub' = ~(m \in DOMAIN matrix /\ Kind[m] = "mutex")
  /\ matrix' = IF ~ub' /\ t \in DOMAIN matrix[m] THEN [matrix EXCEPT ![m][t] = Neither]
               ELSE matrix

\* Lookup of m in the map of the kind k, and the loop over its row.
Forget(t, k, m) ==
  /\ ub' = ~(m \in DOMAIN matrix /\ Kind[m] = k)
  /\ matrix' = IF ~ub' /\ t \in DOMAIN matrix[m] THEN [matrix EXCEPT ![m][t] = Neither]
               ELSE matrix

\* pthread_mutex_unlock or sem_post returns; its callback comes after it.
Unlock(t, m) ==
  /\ m \in DOMAIN held[t] /\ Kind[m] # "rwlock"
  /\ Step(t, "run", "unhooked", [lock |-> m, shared |-> FALSE])
  /\ held' = [held EXCEPT ![t] = Remove(@, m)]
  /\ UNCHANGED <<unposted, tool, handover, odd>>

\* sem_post as a signal: of a semaphore that is 0, because it began so or
\* another thread has it.
Post(t, m) ==
  /\ Kind[m] = "semaphore" /\ m \notin DOMAIN held[t]
  /\ m \in unposted \/ \E u \in Threads : m \in DOMAIN held[u]
  /\ Step(t, "run", "unhooked", [lock |-> m, shared |-> FALSE])
  /\ held' = [u \in Threads |-> Remove(held[u], m)]
  /\ unposted' = unposted \ {m}
  /\ Odd("posted")
  /\ UNCHANGED <<tool, handover>>

\* unlock() and sunlock(), IPOINT_AFTER, with the address a that is now in the
\* first argument's place.
UnlockAfter(t, a) ==
  /\ Step(t, "unhooked", "run", NoCall)
  /\ Forget(t, Kind[want[t].lock], a)
  /\ IF a # want[t].lock THEN Odd("stray") ELSE UNCHANGED odd
  /\ UNCHANGED <<held, unposted, allThreads, threadCount, reported, handover>>

\* The return of the routine that Pin did not find.
UnlockMissed(t) ==
  /\ Step(t, "unhooked", "run", NoCall)
  /\ Odd("missed")
  /\ UNCHANGED <<held, unposted, tool, handover>>

\* wunlock(), IPOINT_BEFORE.
RWUnlockBefore(t, m) ==
  /\ m \in DOMAIN held[t] /\ Kind[m] = "rwlock"
  /\ Step(t, "run", "releasing", [lock |-> m, shared |-> held[t][m]])
  /\ Forget(t, "rwlock", m)
  /\ UNCHANGED <<held, unposted, allThreads, threadCount, reported, handover, odd>>

\* pthread_rwlock_unlock returns.
RWUnlock(t) ==
  /\ Step(t, "releasing", "run", NoCall)
  /\ held' = [held EXCEPT ![t] = Remove(@, want[t].lock)]
  /\ UNCHANGED <<unposted, tool, handover, odd>>

\* pthread_cond_wait unlocks and locks its mutex inside libpthread, by
\* routines that are not hooked.
CondWait(t, m) ==
  /\ m \in DOMAIN held[t] /\ Kind[m] = "mutex"
  /\ Step(t, "run", "cond_waiting", [lock |-> m, shared |-> FALSE])
  /\ held' = [held EXCEPT ![t] = Remove(@, m)]
  /\ UNCHANGED <<unposted, tool, handover, odd>>

CondWake(t) ==
  /\ Available(t, want[t])
  /\ Step(t, "cond_waiting", "run", NoCall)
  /\ held' = [held EXCEPT ![t] = Put(@, want[t].lock, FALSE)]
  /\ UNCHANGED <<unposted, tool, handover, odd>>

Next ==
  \E t \in Threads :
    \/ \E c \in Calls :
         LockNew(t, c) \/ LockKnown(t, c) \/ LockOwn(t, c) \/ AcquireUnseen(t, c)
    \/ Acquire(t) \/ AcquireFails(t)
    \/ \E m \in Locks : Unlock(t, m) \/ Post(t, m) \/ RWUnlockBefore(t, m)
    \/ \E a \in Locks \cup {Stray} : UnlockAfter(t, a)
    \/ UnlockMissed(t)
    \/ RWUnlock(t)
    \/ \E m \in Locks : CondWait(t, m)
    \/ CondWake(t)

Spec == Init /\ [][Next]_vars

-----------------------------------------------------------------------------
(* Properties                                                              *)

\* The variables have the shape of the tool's globals: rows know only threads
\* that allThreads knows, and a lock that is being waited for has a row.
TypeOK ==
  /\ pc \in [Threads -> Labels]
  /\ want \in [Threads -> Calls \cup {NoCall}]
  /\ \A t \in Threads :
       /\ pc[t] # "run" => want[t] \in Calls
       /\ pc[t] = "acquiring" => want[t].lock \in DOMAIN matrix
  /\ DOMAIN held = Threads
  /\ \A t \in Threads : \A m \in DOMAIN held[t] :
       [lock |-> m, shared |-> held[t][m]] \in Calls
  /\ unposted \subseteq Locks
  /\ DOMAIN matrix \subseteq Locks
  /\ allThreads \subseteq Threads
  /\ \A m \in DOMAIN matrix :
       /\ DOMAIN matrix[m] \subseteq allThreads
       /\ \A t \in DOMAIN matrix[m] : matrix[m][t] \in {Waiting, Holding, Neither}
  /\ threadCount \in Nat
  /\ reported \in BOOLEAN
  /\ ub \in BOOLEAN
  /\ handover \in BOOLEAN
  /\ odd \subseteq OddKinds

\* A row never has two holders, although unlocks are recorded late, in another
\* row or not at all, readers share locks and waiters are never promoted.
OneHolder ==
  \A m \in DOMAIN matrix : \A t, u \in DOMAIN matrix[m] :
    matrix[m][t] = Holding /\ matrix[m][u] = Holding => t = u

\* The row that an unlock callback uses without a check (pmS.cpp:822-824) is
\* there, unless a lock was acquired unseen, an address was misread, or a thread
\* posted a semaphore it did not wait for.
RowIsFound == ub => odd \cap {"unseen", "stray", "posted"} # {}

\* As long as no thread was handed a lock, the row of every lock that a thread
\* holds says so, unless it is the thread whose id stands for nobody, a lock was
\* acquired unseen or an address was misread.  Lock calls that fail, releases
\* that are missed, semaphores that are posted and waits on conditions do not
\* change that.
HeldIsRecorded ==
  ~handover /\ odd \cap {"unseen", "stray"} = {} =>
    \A t \in Threads \ {Nobody} : \A m \in DOMAIN held[t] :
      \/ pc[t] = "releasing" /\ want[t].lock = m
      \/ Status(matrix, m, t) = Holding

\* A set of threads each of which waits for a lock another of them holds.
Deadlocked(D) ==
  /\ D # {}
  /\ \A t \in D : pc[t] = "acquiring" /\ \E u \in D \ {t} : Blocks(u, want[t])

Deadlock == \E D \in SUBSET Threads : Deadlocked(D)
DeadlockOf(k) ==
  \E D \in SUBSET Threads : Deadlocked(D) /\ \A t \in D : Kind[want[t].lock] = k

\* pmS.cpp:865 "This Pintool detects deadlock", up to the first hand-over: when
\* a cycle over locks of one kind closes, the call that closes it reports it,
\* unless a lock was acquired unseen, a lock call failed (and has its thread
\* waiting on) or an address was misread.  Not with a thread 2: it is not
\* recorded when it takes a lock that is free.
DetectsFirstDeadlock ==
  ~handover /\ odd \cap {"unseen", "failed", "stray"} = {} =>
    \A k \in {"mutex", "semaphore", "rwlock"} : DeadlockOf(k) => reported

\* Thread 2 waits, and a thread that is in a lock call itself is recorded as the
\* holder of what it waits for.
NobodyWaits ==
  /\ Nobody \in Threads /\ pc[Nobody] = "acquiring"
  /\ \E t \in Threads \ {Nobody} :
       pc[t] = "acquiring" /\ Status(matrix, want[Nobody].lock, t) = Holding

\* A reader waits for a lock, by its row, that a reader holds: it will get it.
ReaderWaits ==
  \E t, u \in Threads :
    /\ t # u /\ pc[t] = "acquiring" /\ want[t].shared
    /\ Status(matrix, want[t].lock, t) = Waiting
    /\ want[t].lock \in DOMAIN held[u] /\ held[u][want[t].lock]

\* pmS.cpp:435, 606 and 775 up to the first hand-over: what is reported is a
\* deadlock, or the caller took a free lock, whose holder is "nobody", and
\* thread 2 of that number waits for the caller, or a reader is recorded as
\* waiting for a reader.  Without a thread 2 and readers it is a deadlock,
\* unless a row kept a holder: a lock call failed, the release was recorded in
\* another row or missed, or a semaphore was posted by another thread.
ReportsOnlyDeadlock ==
  /\ ~handover /\ odd \cap {"failed", "stray", "missed", "posted"} = {}
  /\ reported
  => Deadlock \/ NobodyWaits \/ ReaderWaits

\* pmS.cpp:865 without conditions: a deadlock among mutexes is reported.
DetectsDeadlock == DeadlockOf("mutex") => reported

\* pmS.cpp:775 "DEADLOCK detected!!" without conditions: what is reported is one.
ReportIsDeadlock == reported => Deadlock

=============================================================================
