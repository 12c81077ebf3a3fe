------------------------ MODULE DetectorWalk_proofs ------------------------
(***************************************************************************)
(* Proofs about the walk of DeadlockDetector, for any set of threads,      *)
(* locks and kinds: what it reports, and that it finds the deadlock.       *)
(***************************************************************************)
EXTENDS DeadlockDetector_proofs, FiniteInduction

-----------------------------------------------------------------------------
(* The walk.                                                               *)

\* A step of the walk: the holder of the lock that x waits for.
Hop(mx, k, x) == IsLocked(mx, IsWaiting(mx, k, x))

\* The recursive function in Cycle exists for any number of rounds.
LEMMA WalkExists ==
  ASSUME NEW mx, NEW k, NEW from, NEW rounds \in Nat
  PROVE  \E g : g = [n \in 0..rounds |-> IF n = 0 THEN from ELSE Hop(mx, k, g[n - 1])]
  <1> DEFINE Walks(r) ==
        \E g : g = [n \in 0..r |-> IF n = 0 THEN from ELSE Hop(mx, k, g[n - 1])]
      S == {r \in Nat : ~Walks(r)}
  <1>1. SUFFICES ASSUME S # {} PROVE FALSE
    BY DEF S
  <1>2. PICK r \in S : \A i \in S : r <= i
    <2> HIDE DEF S
    <2> QED
      BY <1>1, LeastNumber, S \subseteq Nat DEF S
  <1>3. r # 0
    <2>1. Walks(0)
      <3> DEFINE g == [n \in 0..0 |-> from]
      <3>1. g = [n \in 0..0 |-> IF n = 0 THEN from ELSE Hop(mx, k, g[n - 1])]
        OBVIOUS
      <3> QED
        BY <3>1
    <2> QED
      BY <2>1
  <1>4. r - 1 \in Nat /\ Walks(r - 1)
    <2>1. r - 1 \in Nat /\ ~(r <= r - 1)
      BY <1>3
    <2> QED
      BY <1>2, <2>1
  <1>5. PICK g : g = [n \in 0..(r - 1) |-> IF n = 0 THEN from ELSE Hop(mx, k, g[n - 1])]
    BY <1>4
  <1> DEFINE h == [n \in 0..r |-> IF n = r THEN Hop(mx, k, g[r - 1]) ELSE g[n]]
  <1>6. ASSUME NEW n \in 0..r
        PROVE  h[n] = IF n = 0 THEN from ELSE Hop(mx, k, h[n - 1])
    <2>1. CASE n = 0
      BY <1>3, <1>4, <1>5, <2>1
    <2>2. CASE n # 0 /\ n # r
      <3>1. n \in 0..(r - 1) /\ n - 1 \in 0..r /\ n - 1 # r
        BY <2>2
      <3> QED
        BY <1>5, <2>2, <3>1
    <2>3. CASE n # 0 /\ n = r
      <3>1. r - 1 \in 0..r /\ r - 1 # r
        BY <1>4
      <3> QED
        BY <2>3, <3>1
    <2> QED
      BY <2>1, <2>2, <2>3
  <1>7. h = [n \in 0..r |-> IF n = 0 THEN from ELSE Hop(mx, k, h[n - 1])]
    BY <1>6
  <1> QED
    BY <1>2, <1>7

\* What Cycle says of the threads that the walk comes to.
LEMMA CycleWalk ==
  ASSUME NEW mx, NEW k, NEW t, NEW from, NEW rounds \in Nat
  PROVE  \E g :
           /\ g[0] = from
           /\ \A n \in 1..rounds : g[n] = Hop(mx, k, g[n - 1])
           /\ Cycle(mx, k, t, from, rounds) <=>
                \E n \in 1..rounds :
                  /\ \A i \in 0..(n - 1) : IsWaiting(mx, k, g[i]) # Nobody
                  /\ g[n] = t
  <1> DEFINE g == CHOOSE f :
               f = [n \in 0..rounds |-> IF n = 0 THEN from ELSE Hop(mx, k, f[n - 1])]
  <1>1. g = [n \in 0..rounds |-> IF n = 0 THEN from ELSE Hop(mx, k, g[n - 1])]
    BY WalkExists
  <1>2. Cycle(mx, k, t, from, rounds) <=>
          \E n \in 1..rounds :
            /\ \A i \in 0..(n - 1) : IsWaiting(mx, k, g[i]) # Nobody
            /\ g[n] = t
    BY DEF Cycle, Hop
  <1> HIDE DEF g
  <1>3. g[0] = from /\ \A n \in 1..rounds : g[n] = Hop(mx, k, g[n - 1])
    BY <1>1
  <1> QED
    BY <1>2, <1>3

-----------------------------------------------------------------------------
(* What the rows say.                                                      *)

\* The row of a lock has a thread waiting only while the thread is in the call
\* for it.
Waits(x) ==
  \A m \in DOMAIN matrix :
    Status(matrix, m, x) = Waiting => pc[x] = "acquiring" /\ want[x].lock = m

\* The row of a lock has a thread holding only while the thread has it, is to
\* get it, or has just released it.
Holds(x) ==
  \A m \in DOMAIN matrix :
    Status(matrix, m, x) = Holding =>
      \/ m \in DOMAIN held[x] /\ ~(pc[x] = "releasing" /\ want[x].lock = m)
      \/ pc[x] \in {"acquiring", "unhooked", "cond_waiting"} /\ want[x].lock = m

\* The calls after which a row can keep a holder.
KeepsHolder == {"failed", "stray", "missed", "posted"}

StatusInv ==
  /\ ~handover /\ "failed" \notin odd => \A x \in Threads : Waits(x)
  /\ ~handover /\ odd \cap KeepsHolder = {} => \A x \in Threads : Holds(x)

\* A lock call enters t in the row of its lock, and nothing else.
LEMMA EnteringStatus ==
  ASSUME NEW t, NEW l, NEW s, matrix' = Entered(t, l, s),
         NEW m \in DOMAIN matrix', NEW x, x # t \/ m # l
  PROVE  \/ m \in DOMAIN matrix /\ Status(matrix', m, x) = Status(matrix, m, x)
         \/ Status(matrix', m, x) = Neither
  <1>1. m \in DOMAIN matrix \cup {l}
    BY EnteredDomain
  <1>2. CASE m \in DOMAIN matrix
    BY <1>2, EnteredStatus
  <1>3. CASE m \notin DOMAIN matrix
    BY <1>1, <1>3, EnteredFacts DEF Status
  <1> QED
    BY <1>2, <1>3

\* No row has a thread waiting or holding that it did not have so before.
LEMMA ForgettingStatus ==
  ASSUME NEW t, NEW k, NEW m, Forget(t, k, m), NEW n \in DOMAIN matrix', NEW x
  PROVE  /\ n \in DOMAIN matrix
         /\ \/ Status(matrix', n, x) = Status(matrix, n, x)
            \/ Status(matrix', n, x) = Neither
         /\ x = t /\ n = m /\ Kind[m] = k => Status(matrix', n, x) = Neither
  <1>1. n \in DOMAIN matrix
    BY ForgetRows
  <1>2. CASE x = t /\ n = m
    BY <1>1, <1>2, ForgetFacts DEF Status, Forget
  <1>3. CASE x # t \/ n # m
    BY <1>1, <1>3, ForgetStatus
  <1> QED
    BY <1>1, <1>2, <1>3

\* A step that has nobody wait, of a thread that its lock's row does not have
\* waiting.
LEMMA QuietWaits ==
  ASSUME \A x \in Threads : Waits(x), NEW t \in Threads,
         pc[t] = "acquiring" => Status(matrix, want[t].lock, t) # Waiting,
         \A x \in Threads \ {t} : pc'[x] = pc[x] /\ want'[x] = want[x],
         \A m \in DOMAIN matrix', x \in Threads :
           Status(matrix', m, x) = Waiting =>
             m \in DOMAIN matrix /\ Status(matrix, m, x) = Waiting
  PROVE  \A x \in Threads : Waits(x)'
  BY DEF Waits

LEMMA NextWaits ==
  ASSUME TypeOK, \A x \in Threads : Waits(x), [Next]_vars, ~handover', "failed" \notin odd'
  PROVE  \A x \in Threads : Waits(x)'
  <1>1. ASSUME NEW t \in Threads, NEW c \in Calls, LockNew(t, c) \/ LockKnown(t, c)
        PROVE  \A x \in Threads : Waits(x)'
    <2>1. PICK s \in {Waiting, Holding} : matrix' = Entered(t, c.lock, s)
      BY <1>1 DEF LockNew, LockKnown
    <2>2. Calling(t, c)
      BY <1>1 DEF LockNew, LockKnown
    <2>3. /\ pc[t] = "run" /\ pc'[t] = "acquiring" /\ want'[t] = c
          /\ \A x \in Threads \ {t} : pc'[x] = pc[x] /\ want'[x] = want[x]
      BY <2>2 DEF Calling, Step, TypeOK
    <2> SUFFICES ASSUME NEW x \in Threads, NEW m \in DOMAIN matrix',
                        Status(matrix', m, x) = Waiting
                 PROVE  pc'[x] = "acquiring" /\ want'[x].lock = m
      BY DEF Waits
    <2>4. CASE x = t /\ m = c.lock
      BY <2>3, <2>4
    <2>5. CASE x # t \/ m # c.lock
      <3>1. m \in DOMAIN matrix /\ Status(matrix, m, x) = Waiting
        BY <2>1, <2>5, EnteringStatus DEF Waiting, Neither
      <3> QED
        BY <2>3, <3>1 DEF Waits
    <2> QED
      BY <2>4, <2>5
  <1>2. ASSUME NEW t \in Threads, NEW c \in Calls, LockOwn(t, c)
        PROVE  \A x \in Threads : Waits(x)'
    <2>1. Calling(t, c) /\ UNCHANGED matrix
      BY <1>2 DEF LockOwn
    <2> QED
      BY <2>1, QuietWaits DEF Calling, Step, TypeOK
  <1>3. ASSUME NEW t \in Threads, Acquire(t)
        PROVE  \A x \in Threads : Waits(x)'
    <2>1. Status(matrix, want[t].lock, t) # Waiting
      BY <1>3 DEF Acquire
    <2>2. UNCHANGED matrix /\ \A x \in Threads \ {t} : pc'[x] = pc[x] /\ want'[x] = want[x]
      BY <1>3 DEF Acquire, Step, TypeOK, tool
    <2> QED
      BY <2>1, <2>2, QuietWaits
  <1>4. ASSUME NEW t \in Threads,
               \/ UnlockMissed(t) \/ RWUnlock(t) \/ CondWake(t)
               \/ \E c \in Calls : AcquireUnseen(t, c)
               \/ \E m \in Locks : Unlock(t, m) \/ Post(t, m) \/ CondWait(t, m)
        PROVE  \A x \in Threads : Waits(x)'
    <2>1. /\ pc[t] # "acquiring" /\ UNCHANGED matrix
          /\ \A x \in Threads \ {t} : pc'[x] = pc[x] /\ want'[x] = want[x]
      BY <1>4 DEF UnlockMissed, RWUnlock, CondWake, AcquireUnseen, Unlock, Post,
                  CondWait, Step, TypeOK, tool
    <2> QED
      BY <2>1, QuietWaits
  <1>5. ASSUME NEW t \in Threads, NEW k, NEW m, Forget(t, k, m), pc[t] # "acquiring",
               \A x \in Threads \ {t} : pc'[x] = pc[x] /\ want'[x] = want[x]
        PROVE  \A x \in Threads : Waits(x)'
    <2>1. \A n \in DOMAIN matrix', x \in Threads :
            Status(matrix', n, x) = Waiting =>
              n \in DOMAIN matrix /\ Status(matrix, n, x) = Waiting
      BY <1>5, ForgettingStatus DEF Waiting, Neither
    <2> QED
      BY <1>5, <2>1, QuietWaits
  <1>6. ASSUME NEW t \in Threads, NEW a, UnlockAfter(t, a)
        PROVE  \A x \in Threads : Waits(x)'
    BY <1>5, <1>6 DEF UnlockAfter, Step, TypeOK
  <1>7. ASSUME NEW t \in Threads, NEW m \in Locks, RWUnlockBefore(t, m)
        PROVE  \A x \in Threads : Waits(x)'
    BY <1>5, <1>7 DEF RWUnlockBefore, Step, TypeOK
  <1>8. ASSUME NEW t \in Threads, AcquireFails(t)
        PROVE  FALSE
    BY <1>8 DEF AcquireFails, Odd
  <1>9. CASE UNCHANGED vars
    BY <1>9 DEF vars, tool, Waits
  <1> QED
    BY <1>1, <1>2, <1>3, <1>4, <1>6, <1>7, <1>8, <1>9, NextCases

\* A step of t by which it is not done with a lock that a row has it holding.
LEMMA QuietHolds ==
  ASSUME \A x \in Threads : Holds(x), NEW t \in Threads, UNCHANGED matrix,
         \A x \in Threads \ {t} : pc'[x] = pc[x] /\ want'[x] = want[x] /\ held'[x] = held[x],
         \A m \in DOMAIN matrix :
           \/ m \in DOMAIN held[t] /\ ~(pc[t] = "releasing" /\ want[t].lock = m)
           \/ pc[t] \in {"acquiring", "unhooked", "cond_waiting"} /\ want[t].lock = m
           => \/ m \in DOMAIN held'[t] /\ ~(pc'[t] = "releasing" /\ want'[t].lock = m)
              \/ pc'[t] \in {"acquiring", "unhooked", "cond_waiting"} /\ want'[t].lock = m
  PROVE  \A x \in Threads : Holds(x)'
  BY DEF Holds

\* An unlock callback of t for m: t is done with it, or about to be.
LEMMA ForgettingHolds ==
  ASSUME TypeOK, \A x \in Threads : Holds(x),
         NEW t \in Threads, NEW m, Forget(t, Kind[m], m), UNCHANGED held,
         pc[t] = "run" \/ (pc[t] = "unhooked" /\ want[t].lock = m),
         pc'[t] = "run" \/ (pc'[t] = "releasing" /\ want'[t].lock = m),
         \A u \in Threads \ {t} : pc'[u] = pc[u] /\ want'[u] = want[u]
  PROVE  \A x \in Threads : Holds(x)'
  <1> SUFFICES ASSUME NEW x \in Threads, NEW n \in DOMAIN matrix',
                      Status(matrix', n, x) = Holding
               PROVE  \/ /\ n \in DOMAIN held'[x]
                         /\ ~(pc'[x] = "releasing" /\ want'[x].lock = n)
                      \/ /\ pc'[x] \in {"acquiring", "unhooked", "cond_waiting"}
                         /\ want'[x].lock = n
    BY DEF Holds
  <1>1. n \in DOMAIN matrix /\ Status(matrix, n, x) = Holding /\ ~(x = t /\ n = m)
    BY ForgettingStatus DEF Holding, Neither
  <1>2. \/ n \in DOMAIN held[x] /\ ~(pc[x] = "releasing" /\ want[x].lock = n)
        \/ pc[x] \in {"acquiring", "unhooked", "cond_waiting"} /\ want[x].lock = n
    BY <1>1 DEF Holds
  <1>3. CASE x = t
    BY <1>1, <1>2, <1>3
  <1>4. CASE x # t
    BY <1>2, <1>4
  <1> QED
    BY <1>3, <1>4

LEMMA NextHolds ==
  ASSUME TypeOK, \A x \in Threads : Holds(x), [Next]_vars,
         ~handover', odd' \cap KeepsHolder = {}, ~handover => \A x \in Threads : Waits(x)
  PROVE  \A x \in Threads : Holds(x)'
  <1>1. ASSUME NEW t \in Threads, NEW c \in Calls, LockNew(t, c) \/ LockKnown(t, c)
        PROVE  \A x \in Threads : Holds(x)'
    <2>1. PICK s \in {Waiting, Holding} : matrix' = Entered(t, c.lock, s)
      BY <1>1 DEF LockNew, LockKnown
    <2>2. Calling(t, c)
      BY <1>1 DEF LockNew, LockKnown
    <2>3. /\ pc[t] = "run" /\ pc'[t] = "acquiring" /\ want'[t] = c /\ UNCHANGED held
          /\ \A x \in Threads \ {t} : pc'[x] = pc[x] /\ want'[x] = want[x]
      BY <2>2 DEF Calling, Step, TypeOK
    <2> SUFFICES ASSUME NEW x \in Threads, NEW m \in DOMAIN matrix',
                        Status(matrix', m, x) = Holding
                 PROVE  \/ /\ m \in DOMAIN held'[x]
                           /\ ~(pc'[x] = "releasing" /\ want'[x].lock = m)
                        \/ /\ pc'[x] \in {"acquiring", "unhooked", "cond_waiting"}
                           /\ want'[x].lock = m
      BY DEF Holds
    <2>4. CASE x = t /\ m = c.lock
      BY <2>3, <2>4
    <2>5. CASE x # t \/ m # c.lock
      <3>1. m \in DOMAIN matrix /\ Status(matrix, m, x) = Holding
        BY <2>1, <2>5, EnteringStatus DEF Holding, Neither
      <3>2. \/ m \in DOMAIN held[x] /\ ~(pc[x] = "releasing" /\ want[x].lock = m)
            \/ pc[x] \in {"acquiring", "unhooked", "cond_waiting"} /\ want[x].lock = m
        BY <3>1 DEF Holds
      <3> QED
        BY <2>3, <3>2
    <2> QED
      BY <2>4, <2>5
  <1>2. ASSUME NEW t \in Threads, NEW c \in Calls, LockOwn(t, c)
        PROVE  \A x \in Threads : Holds(x)'
    <2>1. Calling(t, c) /\ UNCHANGED matrix
      BY <1>2 DEF LockOwn
    <2> QED
      BY <2>1, QuietHolds DEF Calling, Step, TypeOK
  <1>3. ASSUME NEW t \in Threads,
               Acquire(t) \/ CondWake(t) \/ \E c \in Calls : AcquireUnseen(t, c)
        PROVE  \A x \in Threads : Holds(x)'
    <2>1. /\ pc'[t] = "run" /\ pc[t] \in {"acquiring", "cond_waiting", "run"}
          /\ UNCHANGED matrix
          /\ \A x \in Threads \ {t} : pc'[x] = pc[x] /\ want'[x] = want[x]
      BY <1>3 DEF Acquire, CondWake, AcquireUnseen, Step, TypeOK, tool
    <2>2. PICK l, v : /\ held' = [held EXCEPT ![t] = Put(@, l, v)]
                      /\ pc[t] # "run" => l = want[t].lock
      <3>1. CASE Acquire(t)
        BY <3>1 DEF Acquire
      <3>2. CASE CondWake(t)
        BY <3>2 DEF CondWake
      <3>3. ASSUME NEW c \in Calls, AcquireUnseen(t, c)
            PROVE  \E l, v : /\ held' = [held EXCEPT ![t] = Put(@, l, v)]
                             /\ pc[t] # "run" => l = want[t].lock
        BY <3>3 DEF AcquireUnseen, Step
      <3> QED
        BY <1>3, <3>1, <3>2, <3>3
    <2>3. DOMAIN held'[t] = DOMAIN held[t] \cup {l}
      BY <2>2 DEF Put, TypeOK
    <2>4. \A x \in Threads \ {t} : held'[x] = held[x]
      BY <2>2 DEF TypeOK
    <2> QED
      BY <2>1, <2>2, <2>3, <2>4, QuietHolds
  <1>4. ASSUME NEW t \in Threads, NEW m \in Locks, Unlock(t, m) \/ CondWait(t, m)
        PROVE  \A x \in Threads : Holds(x)'
    <2>1. /\ UNCHANGED matrix /\ pc[t] = "run"
          /\ pc'[t] \in {"unhooked", "cond_waiting"} /\ want'[t].lock = m
          /\ \A x \in Threads \ {t} : pc'[x] = pc[x] /\ want'[x] = want[x]
      BY <1>4 DEF Unlock, CondWait, Step, TypeOK, tool
    <2>2. held' = [held EXCEPT ![t] = Remove(@, m)]
      BY <1>4 DEF Unlock, CondWait
    <2>3. /\ DOMAIN held'[t] = DOMAIN held[t] \ {m}
          /\ \A x \in Threads \ {t} : held'[x] = held[x]
      BY <2>2 DEF Remove, TypeOK
    <2> QED
      BY <2>1, <2>3, QuietHolds
  <1>5. ASSUME NEW t \in Threads, NEW a, UnlockAfter(t, a)
        PROVE  \A x \in Threads : Holds(x)'
    <2>1. a = want[t].lock
      BY <1>5 DEF UnlockAfter, Odd, KeepsHolder
    <2>2. Forget(t, Kind[a], a) /\ UNCHANGED held
      BY <1>5, <2>1 DEF UnlockAfter
    <2>3. /\ pc[t] = "unhooked" /\ pc'[t] = "run"
          /\ \A u \in Threads \ {t} : pc'[u] = pc[u] /\ want'[u] = want[u]
      BY <1>5 DEF UnlockAfter, Step, TypeOK
    <2> QED
      BY <2>1, <2>2, <2>3, ForgettingHolds
  <1>6. ASSUME NEW t \in Threads, NEW m \in Locks, RWUnlockBefore(t, m)
        PROVE  \A x \in Threads : Holds(x)'
    <2>1. Forget(t, Kind[m], m) /\ UNCHANGED held
      BY <1>6 DEF RWUnlockBefore
    <2>2. /\ pc[t] = "run" /\ pc'[t] = "releasing" /\ want'[t].lock = m
          /\ \A u \in Threads \ {t} : pc'[u] = pc[u] /\ want'[u] = want[u]
      BY <1>6 DEF RWUnlockBefore, Step, TypeOK
    <2> QED
      BY <2>1, <2>2, ForgettingHolds
  <1>7. ASSUME NEW t \in Threads, RWUnlock(t)
        PROVE  \A x \in Threads : Holds(x)'
    <2>1. /\ UNCHANGED matrix /\ pc[t] = "releasing" /\ pc'[t] = "run"
          /\ \A x \in Threads \ {t} : pc'[x] = pc[x] /\ want'[x] = want[x]
      BY <1>7 DEF RWUnlock, Step, TypeOK, tool
    <2>2. /\ DOMAIN held'[t] = DOMAIN held[t] \ {want[t].lock}
          /\ \A x \in Threads \ {t} : held'[x] = held[x]
      BY <1>7 DEF RWUnlock, Remove, TypeOK
    <2> QED
      BY <2>1, <2>2, QuietHolds
  <1>8. ASSUME NEW t \in Threads,
               AcquireFails(t) \/ UnlockMissed(t) \/ \E m \in Locks : Post(t, m)
        PROVE  FALSE
    BY <1>8 DEF AcquireFails, UnlockMissed, Post, Odd, KeepsHolder
  <1>9. CASE UNCHANGED vars
    BY <1>9 DEF vars, tool, Holds
  <1> QED
    BY <1>1, <1>2, <1>3, <1>4, <1>5, <1>6, <1>7, <1>8, <1>9, NextCases

LEMMA NextStatus == TypeOK /\ StatusInv /\ [Next]_vars => StatusInv'
  <1> SUFFICES ASSUME TypeOK, StatusInv, [Next]_vars PROVE StatusInv'
    OBVIOUS
  <1>1. odd \subseteq odd' /\ (handover => handover')
    BY HistoryGrows
  <1>2. ~handover' /\ "failed" \notin odd' => \A x \in Threads : Waits(x)'
    BY <1>1, NextWaits DEF StatusInv
  <1>3. ~handover' /\ odd' \cap KeepsHolder = {} => \A x \in Threads : Holds(x)'
    BY <1>1, NextHolds DEF StatusInv, KeepsHolder
  <1> QED
    BY <1>2, <1>3 DEF StatusInv

LEMMA AlwaysHonest == Spec => []StatusInv
  <1>1. Init => StatusInv
    BY DEF Init, StatusInv, Waits, Holds, Empty
  <1> QED
    BY <1>1, NextStatus, TypeCorrect, PTL DEF Spec

-----------------------------------------------------------------------------
(* What is reported.                                                       *)

\* The call that ended the program: the walk came to its thread, and began at
\* the holder of its lock or, when there was none, at "nobody".
ReportInv ==
  reported =>
    \E t \in Threads, from \in Nat, rounds \in Nat :
      /\ pc[t] = "acquiring"
      /\ from # t
      /\ Cycle(matrix, Kind[want[t].lock], t, from, rounds)
      /\ \/ from = Nobody
         \/ Status(matrix, want[t].lock, t) = Waiting
            /\ Status(matrix, want[t].lock, from) = Holding

LEMMA LockedByHolder ==
  ASSUME NEW mx, NEW m, IsLocked(mx, m) # Nobody
  PROVE  IsLocked(mx, m) \in DOMAIN mx[m] /\ Status(mx, m, IsLocked(mx, m)) = Holding
  BY DEF IsLocked, Status

LEMMA NextReport == TypeOK /\ ReportInv /\ [Next]_vars => ReportInv'
  <1> SUFFICES ASSUME TypeOK, ReportInv, [Next]_vars, reported' PROVE ReportInv'
    BY DEF ReportInv
  <1>1. CASE UNCHANGED vars
    BY <1>1 DEF vars, tool, ReportInv
  <1>2. ASSUME NEW t \in Threads, NEW c \in Calls, LockKnown(t, c)
        PROVE  ReportInv'
    <2> DEFINE m == c.lock
               from == IsLocked(matrix, m)
    <2>1. /\ pc'[t] = "acquiring" /\ want'[t] = c /\ m \in DOMAIN matrix
          /\ from # t
          /\ reported' = Cycle(matrix', Kind[m], t, from, threadCount' + 1)
      BY <1>2 DEF LockKnown, Calling, Step, TypeOK
    <2>2. threadCount' + 1 \in Nat
      BY <1>2 DEF LockKnown, Count, TypeOK
    <2>3. from \in Nat /\ (from # Nobody => from \in DOMAIN matrix[m])
      <3>1. DOMAIN matrix[m] \subseteq Nat
        BY <2>1, DetectorAssumption DEF TypeOK
      <3> QED
        BY <3>1, LockedByHolder DEF Nobody
    <2>4. ASSUME from # Nobody
          PROVE  Status(matrix', m, t) = Waiting /\ Status(matrix', m, from) = Holding
      <3>1. from \in DOMAIN matrix[m] /\ matrix[m][from] = Holding
        BY <2>4, LockedByHolder DEF Status
      <3>2. matrix' = Entered(t, m, Waiting)
        BY <1>2, <3>1 DEF LockKnown
      <3>3. Status(matrix', m, from) = Status(matrix, m, from)
        BY <2>1, <3>2, EnteredStatus
      <3> QED
        BY <3>1, <3>2, <3>3, EnteredOwnStatus DEF Status
    <2> HIDE DEF from
    <2> QED
      BY <2>1, <2>2, <2>3, <2>4 DEF ReportInv
  <1>3. ASSUME NEW t \in Threads, NEW c \in Calls, LockNew(t, c) \/ LockOwn(t, c)
        PROVE  FALSE
    BY <1>3 DEF LockNew, LockOwn, Calling, Step
  <1>4. ASSUME NEW t \in Threads,
               \/ Acquire(t) \/ AcquireFails(t) \/ UnlockMissed(t) \/ RWUnlock(t) \/ CondWake(t)
               \/ \E c \in Calls : AcquireUnseen(t, c)
        PROVE  FALSE
    BY <1>4 DEF Acquire, AcquireFails, UnlockMissed, RWUnlock, CondWake, AcquireUnseen,
                Step, tool
  <1>5. ASSUME NEW t \in Threads,
               \/ \E a : UnlockAfter(t, a)
               \/ \E m : Unlock(t, m) \/ Post(t, m) \/ CondWait(t, m) \/ RWUnlockBefore(t, m)
        PROVE  FALSE
    BY <1>5 DEF UnlockAfter, Unlock, Post, CondWait, RWUnlockBefore, Step, tool
  <1> QED
    BY <1>1, <1>2, <1>3, <1>4, <1>5, NextCases

LEMMA AlwaysReport == Spec => []ReportInv
  <1>1. Init => ReportInv
    BY DEF Init, ReportInv
  <1> QED
    BY <1>1, NextReport, TypeCorrect, PTL DEF Spec

\* A thread that the walk goes on from is in the call for a lock that has it
\* waiting.
LEMMA WaitsForWanted ==
  ASSUME TypeOK, StatusInv, ~handover, "failed" \notin odd, NEW k, NEW x,
         IsWaiting(matrix, k, x) # Nobody
  PROVE  /\ x \in Threads /\ pc[x] = "acquiring"
         /\ IsWaiting(matrix, k, x) = want[x].lock
         /\ Status(matrix, want[x].lock, x) = Waiting
  <1> DEFINE awaited == {m \in DOMAIN matrix : Kind[m] = k /\ Status(matrix, m, x) = Waiting}
  <1>1. awaited # {}
    BY DEF IsWaiting
  <1>2. PICK m \in awaited : TRUE
    BY <1>1
  <1>3. x \in Threads
    BY <1>2 DEF Status, Waiting, Neither, TypeOK
  <1>4. \A n \in awaited : pc[x] = "acquiring" /\ want[x].lock = n
    BY <1>3 DEF StatusInv, Waits
  <1>5. awaited = {want[x].lock} /\ pc[x] = "acquiring"
    BY <1>2, <1>4
  <1>6. want[x].lock \in Nat
    BY <1>5, DetectorAssumption DEF TypeOK
  <1>7. IsWaiting(matrix, k, x) = want[x].lock
    BY <1>5, <1>6 DEF IsWaiting
  <1> QED
    BY <1>3, <1>5, <1>7

LEMMA ReportedIsDeadlock ==
  ASSUME TypeOK, StatusInv, ReportInv, ~handover, odd \cap KeepsHolder = {},
         reported, ~NobodyWaits, ~ReaderWaits
  PROVE  Deadlock
  <1>1. PICK t \in Threads, from \in Nat, rounds \in Nat :
          /\ pc[t] = "acquiring"
          /\ from # t
          /\ Cycle(matrix, Kind[want[t].lock], t, from, rounds)
          /\ \/ from = Nobody
             \/ Status(matrix, want[t].lock, t) = Waiting
                /\ Status(matrix, want[t].lock, from) = Holding
    BY DEF ReportInv
  <1> DEFINE k == Kind[want[t].lock]
             Awaited(x) == IsWaiting(matrix, k, x)
  <1>2. PICK g :
          /\ g[0] = from
          /\ \A i \in 1..rounds : g[i] = Hop(matrix, k, g[i - 1])
          /\ \E n \in 1..rounds :
               /\ \A i \in 0..(n - 1) : Awaited(g[i]) # Nobody
               /\ g[n] = t
    BY <1>1, CycleWalk
  <1>3. PICK n \in 1..rounds :
          /\ \A i \in 0..(n - 1) : Awaited(g[i]) # Nobody
          /\ g[n] = t
    BY <1>2
  <1>4. ASSUME NEW i \in 0..(n - 1)
        PROVE  /\ g[i] \in Threads /\ pc[g[i]] = "acquiring"
               /\ Awaited(g[i]) = want[g[i]].lock
               /\ Status(matrix, want[g[i]].lock, g[i]) = Waiting
               /\ g[i + 1] = IsLocked(matrix, want[g[i]].lock)
    <2>1. Awaited(g[i]) # Nobody
      BY <1>3
    <2>2. i + 1 \in 1..rounds /\ (i + 1) - 1 = i
      BY <1>3
    <2>3. g[i + 1] = IsLocked(matrix, Awaited(g[i]))
      BY <1>2, <2>2 DEF Hop
    <2>4. "failed" \notin odd
      BY DEF KeepsHolder
    <2> QED
      BY <2>1, <2>3, <2>4, WaitsForWanted
  <1> HIDE DEF Awaited
  \* "Nobody" is not among them.
  <1>5. t # Nobody
    <2> SUFFICES ASSUME t = Nobody PROVE FALSE
      OBVIOUS
    <2>1. Status(matrix, want[t].lock, from) = Holding
      BY <1>1
    <2>2. from \in Threads /\ pc[from] = "acquiring"
      BY <1>2, <1>3, <1>4
    <2> QED
      BY <1>1, <2>1, <2>2 DEF NobodyWaits
  <1>6. ASSUME NEW i \in 0..(n - 1) PROVE g[i] # Nobody
    <2> SUFFICES ASSUME g[i] = Nobody PROVE FALSE
      OBVIOUS
    <2> DEFINE S == {j \in i..n : g[j] # Nobody}
    <2>1. n \in S
      BY <1>3, <1>5
    <2>2. PICK j \in S : \A l \in S : j <= l
      <3>1. S \subseteq Nat
        OBVIOUS
      <3> HIDE DEF S
      <3> QED
        BY <2>1, <3>1, LeastNumber
    <2>3. j # i /\ j - 1 \in i..n /\ j - 1 \in 0..(n - 1) /\ (j - 1) + 1 = j
      BY <2>2
    <2>4. g[j - 1] = Nobody
      BY <2>2, <2>3
    <2>5. /\ Nobody \in Threads /\ pc[Nobody] = "acquiring"
          /\ g[j] = IsLocked(matrix, want[Nobody].lock)
      BY <1>4, <2>3, <2>4
    <2>6. g[j] # Nobody
      BY <2>2
    <2>7. Status(matrix, want[Nobody].lock, g[j]) = Holding
      BY <2>5, <2>6, LockedByHolder
    <2>8. g[j] \in Threads /\ pc[g[j]] = "acquiring"
      <3>1. CASE j = n
        BY <1>1, <1>3, <3>1
      <3>2. CASE j # n
        <4>1. j \in 0..(n - 1)
          BY <2>2, <3>2
        <4> QED
          BY <1>4, <4>1
      <3> QED
        BY <3>1, <3>2
    <2> QED
      BY <2>5, <2>6, <2>7, <2>8 DEF NobodyWaits
  \* Each waits for a lock that another one holds.
  <1> DEFINE D == {g[i] : i \in 0..n}
  <1>7. from = g[0] /\ t = g[n] /\ from # Nobody
    BY <1>2, <1>3, <1>6
  <1>8. ASSUME NEW x \in D
        PROVE  /\ x \in Threads /\ pc[x] = "acquiring"
               /\ Status(matrix, want[x].lock, x) = Waiting
               /\ \E y \in D : Status(matrix, want[x].lock, y) = Holding
    <2>1. PICK i \in 0..n : x = g[i]
      OBVIOUS
    <2>2. CASE i = n
      <3>1. from \in D
        BY <1>7
      <3> QED
        BY <1>1, <1>7, <2>1, <2>2, <3>1
    <2>3. CASE i # n
      <3>1. i \in 0..(n - 1) /\ i + 1 \in 0..n
        BY <2>3
      <3>2. g[i + 1] # Nobody
        <4>1. CASE i + 1 = n
          BY <1>5, <1>7, <4>1
        <4>2. CASE i + 1 # n
          BY <1>6, <3>1, <4>2
        <4> QED
          BY <4>1, <4>2
      <3>3. Status(matrix, want[x].lock, g[i + 1]) = Holding
        BY <1>4, <2>1, <3>1, <3>2, LockedByHolder
      <3>4. g[i + 1] \in D
        BY <3>1
      <3> QED
        BY <1>4, <2>1, <3>1, <3>3, <3>4
    <2> QED
      BY <2>2, <2>3
  <1> HIDE DEF D
  <1>9. ASSUME NEW x \in D
        PROVE  \E y \in D \ {x} : Blocks(y, want[x])
    <2>1. PICK y \in D : Status(matrix, want[x].lock, y) = Holding
      BY <1>8
    <2>2. y # x
      BY <1>8, <2>1 DEF Waiting, Holding
    <2>3. want[x].lock \in DOMAIN matrix /\ want[y].lock # want[x].lock
      BY <1>8, <2>1 DEF Waiting, Holding, TypeOK
    <2>4. want[x].lock \in DOMAIN held[y]
      BY <1>8, <2>1, <2>3 DEF StatusInv, Holds
    <2>5. ~(want[x].shared /\ held[y][want[x].lock])
      BY <1>8, <2>2, <2>4 DEF ReaderWaits
    <2> QED
      BY <2>2, <2>4, <2>5 DEF Blocks
  <1>10. D \in SUBSET Threads /\ D # {}
    <2>1. t \in D
      BY <1>7 DEF D
    <2> QED
      BY <1>8, <2>1
  <1> QED
    BY <1>8, <1>9, <1>10 DEF Deadlock, Deadlocked

\* Before the first hand-over and any call that can leave a holder in a row, a
\* reported deadlock is one, but for thread 2 and for readers.
THEOREM ReportsAreDeadlocks == Spec => []ReportsOnlyDeadlock
  <1>1. TypeOK /\ StatusInv /\ ReportInv => ReportsOnlyDeadlock
    BY ReportedIsDeadlock DEF ReportsOnlyDeadlock, KeepsHolder
  <1> QED
    BY <1>1, TypeCorrect, AlwaysHonest, AlwaysReport, PTL

-----------------------------------------------------------------------------
(* What is detected.                                                       *)

\* Every part of D without t has a member that h leads out of the part.
Leaves(D, t, h) ==
  \A S \in SUBSET (D \ {t}) : S # {} => \E x \in S : h[x] \notin S

\* g follows h for as long as it is in D.
Follows(D, h, g, rounds) ==
  \A n \in 1..rounds : g[n - 1] \in D => g[n] = h[g[n - 1]]

\* g stays in D and comes to t.
ComesTo(D, t, g, rounds) ==
  (\A n \in 0..rounds : g[n] \in D) /\ (\E n \in 0..rounds : g[n] = t)

\* The walk stays among threads that each wait for another, D, when no part of
\* D without t is closed under that relation: so it comes to t, and in no more
\* rounds than D has threads.
LEMMA WalkComesBack ==
  ASSUME NEW D, IsFiniteSet(D), NEW t \in D, NEW h \in [D -> D],
         NEW rounds \in Nat, Cardinality(D) <= rounds,
         NEW g, g[0] \in D, Follows(D, h, g, rounds), Leaves(D, t, h)
  PROVE  ComesTo(D, t, g, rounds)
  <1> USE DEF Follows, Leaves
  <1>1. ASSUME NEW n \in 0..rounds PROVE g[n] \in D
    <2> SUFFICES ASSUME g[n] \notin D PROVE FALSE
      OBVIOUS
    <2> DEFINE S == {i \in 0..rounds : g[i] \notin D}
    <2>1. PICK i \in S : \A j \in S : i <= j
      <3>1. S \subseteq Nat /\ n \in S
        OBVIOUS
      <3> HIDE DEF S
      <3> QED
        BY <3>1, LeastNumber
    <2>2. i # 0 /\ i \in 1..rounds /\ i - 1 \in 0..rounds /\ i - 1 \notin S
      BY <2>1
    <2>3. g[i - 1] \in D
      BY <2>2
    <2> QED
      BY <2>1, <2>2, <2>3
  <1>2. ASSUME \A n \in 0..rounds : g[n] # t PROVE FALSE
    <2> DEFINE f == [n \in 0..rounds |-> g[n]]
    <2>1. IsFiniteSet(0..rounds) /\ Cardinality(0..rounds) = rounds + 1
      BY FS_Interval
    <2>2. Cardinality(D) < Cardinality(0..rounds)
      BY <2>1, FS_CardinalityType
    <2>3. f \in [0..rounds -> D]
      BY <1>1
    <2> HIDE DEF f
    <2>4. PICK i, j \in 0..rounds : i # j /\ f[i] = f[j]
      BY <2>1, <2>2, <2>3, FS_PigeonHole
    <2>5. PICK a \in 0..rounds, b \in 0..rounds : a < b /\ g[a] = g[b]
      BY <2>4 DEF f
    <2> DEFINE S == {g[n] : n \in a..b}
    <2>6. S \in SUBSET (D \ {t}) /\ S # {}
      BY <1>1, <1>2, <2>5
    <2>7. ASSUME NEW x \in S PROVE h[x] \in S
      <3>1. PICK n \in a..b : x = g[n]
        OBVIOUS
      <3>2. PICK l \in a..b : x = g[l] /\ l < b
        BY <2>5, <3>1
      <3>3. l + 1 \in a..b /\ l + 1 \in 1..rounds /\ (l + 1) - 1 = l
        BY <2>5, <3>2
      <3>4. g[l] \in D
        BY <1>1, <3>3
      <3>5. g[l + 1] = h[x]
        BY <3>2, <3>3, <3>4
      <3> QED
        BY <3>3, <3>5
    <2> HIDE DEF S
    <2> QED
      BY <2>6, <2>7
  <1> QED
    BY <1>1, <1>2 DEF ComesTo

\* Before the first hand-over the rows of deadlocked threads lead the walk from
\* each to another one that blocks it.
LeadsOn(D, k) ==
  \A x \in D :
    /\ x \in allThreads
    /\ IsWaiting(matrix, k, x) = want[x].lock
    /\ IsLocked(matrix, want[x].lock) \in D \ {x}
    /\ Status(matrix, want[x].lock, IsLocked(matrix, want[x].lock)) = Holding
    /\ Blocks(IsLocked(matrix, want[x].lock), want[x])

OfKind(D, k) == \A x \in D : Kind[want[x].lock] = k

\* The calls that take a deadlock out of the rows.
HidesDeadlock == {"unseen", "failed", "stray"}

WalkInv ==
  ~handover /\ odd \cap HidesDeadlock = {} =>
    \A D \in SUBSET Threads, k \in {"mutex", "semaphore", "rwlock"} :
      Deadlocked(D) /\ OfKind(D, k) => LeadsOn(D, k)

LEMMA HolderIsLocked ==
  ASSUME TypeOK, OneHolder, NEW m \in DOMAIN matrix, NEW u,
         Status(matrix, m, u) = Holding
  PROVE  IsLocked(matrix, m) = u
  <1>1. u \in DOMAIN matrix[m] /\ matrix[m][u] = Holding
    BY DEF Status, Holding, Neither
  <1> QED
    BY <1>1 DEF IsLocked, OneHolder

LEMMA DeadlockLeadsOn ==
  ASSUME Nobody \notin Threads, TypeOK, OneHolder, RecordedInv, StatusInv
  PROVE  WalkInv
  <1> SUFFICES ASSUME ~handover, odd \cap HidesDeadlock = {}, NEW D \in SUBSET Threads,
                      NEW k \in {"mutex", "semaphore", "rwlock"},
                      Deadlocked(D), OfKind(D, k), NEW x \in D
               PROVE  /\ x \in allThreads
                      /\ IsWaiting(matrix, k, x) = want[x].lock
                      /\ IsLocked(matrix, want[x].lock) \in D \ {x}
                      /\ Status(matrix, want[x].lock, IsLocked(matrix, want[x].lock)) = Holding
                      /\ Blocks(IsLocked(matrix, want[x].lock), want[x])
    BY DEF WalkInv, LeadsOn
  <1> DEFINE m == want[x].lock
  <1>0. "failed" \notin odd /\ odd \cap {"unseen", "stray"} = {}
    BY DEF HidesDeadlock
  <1>1. /\ pc[x] = "acquiring" /\ m \in DOMAIN matrix /\ m \in Nat /\ m # Nobody
        /\ x # Nobody
    BY DetectorAssumption DEF Deadlocked, TypeOK, Nobody
  <1>2. PICK u \in D \ {x} : Blocks(u, want[x])
    BY DEF Deadlocked
  <1>3. pc[u] = "acquiring" /\ m \in DOMAIN held[u] /\ u # Nobody
    BY <1>2 DEF Deadlocked, Blocks
  <1>4. Status(matrix, m, u) = Holding
    BY <1>0, <1>3 DEF RecordedInv, HeldIsRecorded
  <1>5. IsLocked(matrix, m) = u
    BY <1>1, <1>4, HolderIsLocked
  <1>6. Status(matrix, m, x) = Waiting
    <2>1. Status(matrix, m, x) \in {Waiting, Holding}
      BY <1>0, <1>1 DEF RecordedInv
    <2>2. Status(matrix, m, x) # Holding
      BY <1>1, <1>2, <1>5, HolderIsLocked
    <2> QED
      BY <2>1, <2>2
  <1>7. IsWaiting(matrix, k, x) = m
    <2> DEFINE awaited == {n \in DOMAIN matrix : Kind[n] = k /\ Status(matrix, n, x) = Waiting}
    <2>1. m \in awaited
      BY <1>1, <1>6 DEF OfKind
    <2>2. \A n \in awaited : n = m
      BY <1>0 DEF StatusInv, Waits
    <2>3. awaited = {m}
      BY <2>1, <2>2
    <2> QED
      BY <1>1, <2>3 DEF IsWaiting
  <1>8. x \in allThreads
    BY <1>1, <1>6 DEF Status, Waiting, Neither, TypeOK
  <1> QED
    BY <1>2, <1>4, <1>5, <1>7, <1>8

\* threadCount is at least the number of threads in allThreads.
CountInv == IsFiniteSet(allThreads) /\ Cardinality(allThreads) <= threadCount

LEMMA NextCount == TypeOK /\ CountInv /\ [Next]_vars => CountInv'
  <1> SUFFICES ASSUME TypeOK, CountInv, [Next]_vars PROVE CountInv'
    OBVIOUS
  <1>1. ASSUME NEW t, NEW m, Count(t, m) PROVE CountInv'
    <2>1. IsFiniteSet(allThreads') /\
            Cardinality(allThreads') = IF t \in allThreads THEN Cardinality(allThreads)
                                       ELSE Cardinality(allThreads) + 1
      BY <1>1, FS_AddElement DEF Count, CountInv
    <2>2. Cardinality(allThreads) \in Nat
      BY FS_CardinalityType DEF CountInv
    <2>3. t \notin allThreads => IsNew(t, m)
      BY DEF IsNew, TypeOK
    <2> QED
      BY <1>1, <2>1, <2>2, <2>3 DEF Count, CountInv, TypeOK
  <1>2. ASSUME UNCHANGED <<allThreads, threadCount>> PROVE CountInv'
    BY <1>2 DEF CountInv
  <1>3. ASSUME NEW t \in Threads, NEW c \in Calls,
               LockNew(t, c) \/ LockKnown(t, c) \/ LockOwn(t, c)
        PROVE  CountInv'
    <2>1. Count(t, c.lock) \/ UNCHANGED <<allThreads, threadCount>>
      BY <1>3 DEF LockNew, LockKnown, LockOwn
    <2> QED
      BY <1>1, <1>2, <2>1
  <1>4. ASSUME NEW t \in Threads,
               \/ Acquire(t) \/ AcquireFails(t) \/ UnlockMissed(t) \/ RWUnlock(t) \/ CondWake(t)
               \/ \E c \in Calls : AcquireUnseen(t, c)
        PROVE  CountInv'
    BY <1>2, <1>4 DEF Acquire, AcquireFails, UnlockMissed, RWUnlock, CondWake, AcquireUnseen, tool
  <1>5. ASSUME NEW t \in Threads,
               \/ \E a : UnlockAfter(t, a)
               \/ \E m : Unlock(t, m) \/ Post(t, m) \/ CondWait(t, m) \/ RWUnlockBefore(t, m)
        PROVE  CountInv'
    BY <1>2, <1>5 DEF UnlockAfter, Unlock, Post, CondWait, RWUnlockBefore, tool
  <1>6. CASE UNCHANGED vars
    BY <1>2, <1>6 DEF vars, tool
  <1> QED
    BY <1>3, <1>4, <1>5, <1>6, NextCases

LEMMA AlwaysCounted == Spec => []CountInv
  <1>1. Init => CountInv
    BY FS_EmptySet DEF Init, CountInv
  <1> QED
    BY <1>1, NextCount, TypeCorrect, PTL DEF Spec

\* A deadlock that a step leaves alone was there before it.
LEMMA DeadlockWasThere ==
  ASSUME DetectsFirstDeadlock, ~handover, odd \cap HidesDeadlock = {},
         NEW D \in SUBSET Threads, NEW k,
         k \in {"mutex", "semaphore", "rwlock"},
         Deadlocked(D), OfKind(D, k)
  PROVE  reported
  BY DEF DetectsFirstDeadlock, DeadlockOf, OfKind, HidesDeadlock

\* The call that closes a deadlock reports it.
LEMMA ClosingCallReports ==
  ASSUME TypeOK, TypeOK', DetectsFirstDeadlock, OneHolder', CountInv', ~handover,
         odd \cap HidesDeadlock = {},
         NEW t \in Threads, NEW c \in Calls, LockKnown(t, c),
         NEW k \in {"mutex", "semaphore", "rwlock"},
         NEW D \in SUBSET Threads, t \in D, Deadlocked(D)', OfKind(D, k)', LeadsOn(D, k)'
  PROVE  reported'
  <1> DEFINE m == c.lock
             rounds == threadCount' + 1
             h == [x \in D |-> Hop(matrix', k, x)]
  <1>1. /\ ~reported /\ held' = held /\ m \in DOMAIN matrix
        /\ pc'[t] = "acquiring" /\ want'[t] = c
        /\ \A x \in D \ {t} : pc'[x] = pc[x] /\ want'[x] = want[x]
        /\ IsLocked(matrix, m) # t
        /\ reported' = Cycle(matrix', Kind[m], t, IsLocked(matrix, m), rounds)
    BY DEF LockKnown, Calling, Step, TypeOK
  <1>2. Kind[m] = k
    BY <1>1 DEF OfKind
  <1>3. ASSUME NEW x \in D
        PROVE  /\ IsWaiting(matrix', k, x) = want'[x].lock
               /\ IsLocked(matrix', want'[x].lock) \in D \ {x}
               /\ Status(matrix', want'[x].lock, IsLocked(matrix', want'[x].lock)) = Holding
               /\ want'[x].lock \in DOMAIN held[IsLocked(matrix', want'[x].lock)]
               /\ ~(want'[x].shared /\ held[IsLocked(matrix', want'[x].lock)][want'[x].lock])
               /\ x \in allThreads'
    BY <1>1 DEF LeadsOn, Blocks
  <1>4. h \in [D -> D] /\ \A x \in D : h[x] = IsLocked(matrix', want'[x].lock)
    BY <1>3 DEF Hop
  \* The walk begins at the thread that blocks t.
  <1>5. IsLocked(matrix, m) = h[t]
    <2>1. h[t] # t /\ Status(matrix', m, h[t]) = Holding
      BY <1>1, <1>3, <1>4
    <2>2. PICK s : matrix' = Entered(t, m, s)
      BY DEF LockKnown
    <2>3. ASSUME NEW u, u # t PROVE Status(matrix', m, u) = Status(matrix, m, u)
      BY <1>1, <2>2, <2>3, EnteredStatus
    <2>4. h[t] \in DOMAIN matrix[m] /\ matrix[m][h[t]] = Holding
      BY <2>1, <2>3 DEF Status, Holding, Neither
    <2>5. Status(matrix, m, IsLocked(matrix, m)) = Holding
      BY <2>4 DEF IsLocked, Status
    <2>6. Status(matrix', m, IsLocked(matrix, m)) = Holding
      BY <1>1, <2>3, <2>5
    <2>7. /\ h[t] \in DOMAIN matrix'[m] /\ matrix'[m][h[t]] = Holding
          /\ IsLocked(matrix, m) \in DOMAIN matrix'[m]
          /\ matrix'[m][IsLocked(matrix, m)] = Holding
      BY <2>1, <2>6 DEF Status, Holding, Neither
    <2>8. m \in DOMAIN matrix'
      <3>1. DOMAIN Entered(t, m, s) = DOMAIN matrix \cup {m}
        BY EnteredDomain
      <3> HIDE DEF m
      <3> QED
        BY <2>2, <3>1
    <2> QED
      BY <2>7, <2>8 DEF OneHolder
  \* A part of D without t that is closed was a deadlock before.
  <1>6. ASSUME NEW S \in SUBSET (D \ {t}), S # {}, \A x \in S : h[x] \in S
        PROVE  FALSE
    <2>1. ASSUME NEW x \in S
          PROVE  /\ pc[x] = "acquiring" /\ Kind[want[x].lock] = k
                 /\ \E u \in S \ {x} : Blocks(u, want[x])
      <3>1. x \in D /\ x # t /\ pc'[x] = "acquiring" /\ Kind[want'[x].lock] = k
        BY DEF Deadlocked, OfKind
      <3>2. want'[x] = want[x] /\ pc'[x] = pc[x]
        BY <1>1, <3>1
      <3>3. h[x] \in S \ {x} /\ Blocks(h[x], want[x])
        BY <1>3, <1>4, <1>6, <3>1, <3>2 DEF Blocks
      <3> QED
        BY <3>1, <3>2, <3>3
    <2>2. S \in SUBSET Threads /\ Deadlocked(S) /\ OfKind(S, k)
      BY <1>6, <2>1 DEF Deadlocked, OfKind
    <2> QED
      BY <1>1, <2>2, DeadlockWasThere
  <1>7. rounds \in Nat /\ IsFiniteSet(D) /\ Cardinality(D) <= rounds
    <2> HIDE DEF m, h
    <2>1. D \subseteq allThreads'
      BY <1>3
    <2>2. IsFiniteSet(D) /\ Cardinality(D) <= Cardinality(allThreads')
      BY <2>1, FS_Subset DEF CountInv
    <2>3. Cardinality(D) \in Nat /\ Cardinality(allThreads') \in Nat
      BY <2>2, FS_CardinalityType DEF CountInv
    <2>4. threadCount' \in Nat
      BY DEF TypeOK
    <2>5. Cardinality(allThreads') <= threadCount'
      BY DEF CountInv
    <2>6. Cardinality(D) <= threadCount' + 1
      <3> HIDE DEF rounds, h
      <3> QED
        BY <2>2, <2>3, <2>4, <2>5
    <2>7. rounds \in Nat
      <3>1. \A i \in Nat : i + 1 \in Nat
        OBVIOUS
      <3>2. threadCount' + 1 \in Nat
        BY <2>4, <3>1, Zenon
      <3> QED
        BY <3>2, Zenon DEF rounds
    <2>8. Cardinality(D) <= rounds
      BY <2>6 DEF rounds
    <2> QED
      BY <2>2, <2>7, <2>8
  <1> HIDE DEF rounds, h
  <1>8. PICK g :
          /\ g[0] = h[t]
          /\ \A n \in 1..rounds : g[n] = Hop(matrix', k, g[n - 1])
          /\ reported' <=>
               \E n \in 1..rounds :
                 /\ \A i \in 0..(n - 1) : IsWaiting(matrix', k, g[i]) # Nobody
                 /\ g[n] = t
    BY <1>1, <1>2, <1>5, <1>7, CycleWalk
  <1>9. \A n \in 1..rounds : g[n - 1] \in D => g[n] = h[g[n - 1]]
    BY <1>8 DEF h
  <1>10. (\A n \in 0..rounds : g[n] \in D) /\ (\E n \in 0..rounds : g[n] = t)
    <2>1. g[0] \in D
      BY <1>4, <1>8
    <2>2. Leaves(D, t, h)
      BY <1>6 DEF Leaves
    <2>3. Follows(D, h, g, rounds)
      BY <1>9 DEF Follows
    <2>4. ComesTo(D, t, g, rounds)
      BY <1>4, <1>7, <2>1, <2>2, <2>3, WalkComesBack
    <2> QED
      BY <2>4 DEF ComesTo
  <1>11. PICK n \in 0..rounds : g[n] = t
    BY <1>10
  <1>12. n # 0
    BY <1>3, <1>4, <1>8, <1>11
  <1>13. \A x \in D : IsWaiting(matrix', k, x) # Nobody
    BY <1>3, DetectorAssumption DEF TypeOK, Deadlocked, Nobody
  <1>14. n \in 1..rounds /\ \A i \in 0..(n - 1) : i \in 0..rounds
    BY <1>7, <1>11, <1>12
  <1>15. \A i \in 0..(n - 1) : IsWaiting(matrix', k, g[i]) # Nobody
    BY <1>10, <1>13, <1>14
  <1> QED
    BY <1>8, <1>11, <1>14, <1>15

LEMMA NextDetects ==
  ASSUME TypeOK, TypeOK', DetectsFirstDeadlock, OneHolder', CountInv', WalkInv', [Next]_vars
  PROVE  DetectsFirstDeadlock'
  <1> SUFFICES ASSUME ~handover', odd' \cap HidesDeadlock = {},
                      NEW k \in {"mutex", "semaphore", "rwlock"},
                      NEW D \in SUBSET Threads, Deadlocked(D)', OfKind(D, k)'
               PROVE  reported'
    BY DEF DetectsFirstDeadlock, DeadlockOf, OfKind, HidesDeadlock
  <1>1. ~handover /\ odd \cap HidesDeadlock = {}
    BY HistoryGrows
  <1>2. LeadsOn(D, k)'
    BY DEF WalkInv
  <1>3. ASSUME NEW t \in Threads, t \notin D,
               \A x \in Threads \ {t} :
                 pc'[x] = pc[x] /\ want'[x] = want[x] /\ Within(held'[x], held[x])
        PROVE  reported
    <2>1. ASSUME NEW x \in D
          PROVE  /\ pc[x] = "acquiring" /\ Kind[want[x].lock] = k
                 /\ \E u \in D \ {x} : Blocks(u, want[x])
      <3>1. /\ pc'[x] = pc[x] /\ want'[x] = want[x]
            /\ pc'[x] = "acquiring" /\ Kind[want'[x].lock] = k
        BY <1>3 DEF Deadlocked, OfKind
      <3>2. PICK u \in D \ {x} :
              want'[x].lock \in DOMAIN held'[u] /\ ~(want'[x].shared /\ held'[u][want'[x].lock])
        BY DEF Deadlocked, Blocks
      <3>3. Within(held'[u], held[u])
        BY <1>3
      <3> QED
        BY <3>1, <3>2, <3>3 DEF Blocks, Within
    <2>2. D # {}
      BY DEF Deadlocked
    <2>3. Deadlocked(D) /\ OfKind(D, k)
      BY <2>1, <2>2 DEF Deadlocked, OfKind
    <2> QED
      BY <1>1, <2>3, DeadlockWasThere
  <1>4. CASE UNCHANGED vars
    <2>1. Deadlocked(D) /\ OfKind(D, k)
      BY <1>4 DEF vars, Deadlocked, OfKind, Blocks
    <2>2. reported' = reported
      BY <1>4 DEF vars, tool
    <2> QED
      BY <1>1, <2>1, <2>2, DeadlockWasThere
  <1>5. ASSUME NEW t \in Threads, NEW c \in Calls, LockNew(t, c) \/ LockKnown(t, c) \/ LockOwn(t, c)
        PROVE  reported'
    <2>1. /\ ~reported
          /\ \A x \in Threads \ {t} :
               pc'[x] = pc[x] /\ want'[x] = want[x] /\ Within(held'[x], held[x])
          /\ want'[t] = c
      <3>1. Calling(t, c)
        BY <1>5 DEF LockNew, LockKnown, LockOwn
      <3> QED
        BY <3>1 DEF Calling, Step, TypeOK, Within
    <2>2. t \in D
      BY <1>3, <2>1
    <2>3. /\ IsLocked(matrix', c.lock) \in D \ {t}
          /\ Status(matrix', c.lock, IsLocked(matrix', c.lock)) = Holding
      BY <1>2, <2>1, <2>2 DEF LeadsOn
    <2>4. CASE LockNew(t, c)
      <3>1. matrix' = Entered(t, c.lock, Holding) /\ c.lock \notin DOMAIN matrix
        BY <2>4 DEF LockNew
      <3>2. \A u \in DOMAIN matrix'[c.lock] \ {t} : matrix'[c.lock][u] = Neither
        BY <3>1, EnteredFacts
      <3> QED
        BY <2>3, <3>2 DEF Status, Holding, Neither
    <2>5. CASE LockOwn(t, c)
      BY <2>3, <2>5 DEF LockOwn
    <2>6. CASE LockKnown(t, c)
      BY <1>1, <1>2, <2>2, <2>6, ClosingCallReports
    <2> QED
      BY <1>5, <2>4, <2>5, <2>6
  <1>6. ASSUME NEW t \in Threads, ~reported, pc'[t] # "acquiring",
               \A x \in Threads \ {t} :
                 pc'[x] = pc[x] /\ want'[x] = want[x] /\ Within(held'[x], held[x])
        PROVE  reported'
    <2>1. t \notin D
      BY <1>6 DEF Deadlocked
    <2> QED
      BY <1>3, <1>6, <2>1
  <1>7. ASSUME NEW t \in Threads,
               \/ Acquire(t) \/ CondWake(t) \/ \E c \in Calls : AcquireUnseen(t, c)
               \/ \E a : UnlockAfter(t, a)
               \/ \E m : RWUnlockBefore(t, m)
        PROVE  reported'
    <2>1. /\ ~reported /\ pc'[t] # "acquiring"
          /\ \A x \in Threads \ {t} :
               pc'[x] = pc[x] /\ want'[x] = want[x] /\ held'[x] = held[x]
      BY <1>7 DEF Acquire, CondWake, AcquireUnseen, UnlockAfter, RWUnlockBefore, Step, TypeOK
    <2> QED
      BY <1>6, <2>1 DEF Within
  <1>8. ASSUME NEW t \in Threads,
               \/ AcquireFails(t) \/ UnlockMissed(t) \/ RWUnlock(t)
               \/ \E m \in Locks : Unlock(t, m) \/ Post(t, m) \/ CondWait(t, m)
        PROVE  reported'
    <2>1. \A x \in Threads : Within(held'[x], held[x])
      BY <1>8, HeldShrinks
    <2>2. /\ ~reported /\ pc'[t] # "acquiring"
          /\ \A x \in Threads \ {t} : pc'[x] = pc[x] /\ want'[x] = want[x]
      BY <1>8 DEF AcquireFails, UnlockMissed, RWUnlock, Unlock, Post, CondWait, Step, TypeOK
    <2> QED
      BY <1>6, <2>1, <2>2
  <1> QED
    BY <1>4, <1>5, <1>7, <1>8, NextCases

\* Before the first hand-over the call that closes a cycle of any length reports
\* it, in a program whose threads do not include 2, as long as no lock is
\* acquired unseen, no lock call fails and no address is misread.
THEOREM FirstDeadlockIsDetected ==
  ASSUME Nobody \notin Threads
  PROVE  Spec => []DetectsFirstDeadlock
  <1>1. Init => DetectsFirstDeadlock
    BY DEF Init, DetectsFirstDeadlock, DeadlockOf, Deadlocked
  <1>2. TypeOK /\ OneHolder /\ RecordedInv /\ StatusInv => WalkInv
    BY DeadlockLeadsOn
  <1>3. /\ TypeOK /\ TypeOK' /\ OneHolder' /\ CountInv' /\ WalkInv'
        /\ DetectsFirstDeadlock /\ [Next]_vars
        => DetectsFirstDeadlock'
    BY NextDetects
  <1> QED
    BY <1>1, <1>2, <1>3, TypeCorrect, OneHolderOnly, AlwaysRecorded, AlwaysHonest,
       AlwaysCounted, PTL DEF Spec

=============================================================================
