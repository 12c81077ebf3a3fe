---------------------- MODULE DeadlockDetector_proofs ----------------------
(***************************************************************************)
(* Proofs about DeadlockDetector, for any set of threads, locks and kinds. *)
(***************************************************************************)
EXTENDS DeadlockDetector, TLAPS

\* The rows are well formed over the set ts of threads.
RowsOver(mx, ts) ==
  /\ DOMAIN mx \subseteq Locks
  /\ \A m \in DOMAIN mx :
       /\ DOMAIN mx[m] \subseteq ts
       /\ \A t \in DOMAIN mx[m] : mx[m][t] \in {Waiting, Holding, Neither}

\* The rest of TypeOK.
ShapeOK ==
  /\ pc \in [Threads -> Labels]
  /\ want \in [Threads -> Calls \cup {NoCall}]
  /\ \A t \in Threads : pc[t] # "run" => want[t] \in Calls
  /\ DOMAIN held = Threads
  /\ \A t \in Threads : \A m \in DOMAIN held[t] :
       [lock |-> m, shared |-> held[t][m]] \in Calls
  /\ unposted \subseteq Locks
  /\ allThreads \subseteq Threads
  /\ threadCount \in Nat
  /\ reported \in BOOLEAN
  /\ ub \in BOOLEAN
  /\ handover \in BOOLEAN
  /\ odd \subseteq OddKinds

\* The locks that are being waited for have rows.
HaveRows ==
  \A t \in Threads : pc[t] = "acquiring" => want[t].lock \in DOMAIN matrix

LEMMA TypeParts ==
  TypeOK <=> ShapeOK /\ HaveRows /\ RowsOver(matrix, allThreads)
  BY DEF TypeOK, ShapeOK, HaveRows, RowsOver

-----------------------------------------------------------------------------
(* The operators on the matrix.                                            *)

LEMMA CallFacts ==
  ASSUME NEW c \in Calls
  PROVE  /\ c.lock \in Locks /\ c.shared \in BOOLEAN
         /\ c = [lock |-> c.lock, shared |-> c.shared]
  BY DEF Calls

\* What Entered does to a row: t gets status s in the row of m; any other entry
\* keeps its status.
LEMMA EnteredDomain ==
  ASSUME NEW t, NEW m, NEW s
  PROVE  DOMAIN Entered(t, m, s) = DOMAIN matrix \cup {m}
  BY DEF Entered

LEMMA EnteredFacts ==
  ASSUME NEW t, NEW m, NEW s, NEW n \in DOMAIN matrix \cup {m}
  PROVE  /\ t \in DOMAIN Entered(t, m, s)[m] /\ Entered(t, m, s)[m][t] = s
         /\ n \in DOMAIN matrix =>
              /\ DOMAIN matrix[n] \subseteq DOMAIN Entered(t, m, s)[n]
              /\ DOMAIN Entered(t, m, s)[n] \subseteq DOMAIN matrix[n] \cup {t}
         /\ n \notin DOMAIN matrix => DOMAIN Entered(t, m, s)[n] = allThreads \cup {t}
         /\ \A u \in DOMAIN Entered(t, m, s)[n] \ {t} :
              IF n \in DOMAIN matrix
              THEN u \in DOMAIN matrix[n] /\ Entered(t, m, s)[n][u] = matrix[n][u]
              ELSE Entered(t, m, s)[n][u] = Neither
         /\ t \in DOMAIN Entered(t, m, s)[n] /\ n # m =>
              IF t \in DOMAIN matrix[n]
              THEN Entered(t, m, s)[n][t] = matrix[n][t]
              ELSE Entered(t, m, s)[n][t] = Neither
  BY DEF Entered, Put

\* A lock callback keeps the rows well formed.
LEMMA EnteredRows ==
  ASSUME RowsOver(matrix, allThreads), NEW t, NEW m \in Locks,
         NEW s \in {Waiting, Holding, Neither}
  PROVE  RowsOver(Entered(t, m, s), allThreads \cup {t})
  <1> DEFINE new == Entered(t, m, s)
  <1>1. DOMAIN new = DOMAIN matrix \cup {m}
    BY EnteredDomain
  <1>2. ASSUME NEW n \in DOMAIN new
        PROVE  /\ DOMAIN new[n] \subseteq allThreads \cup {t}
               /\ \A u \in DOMAIN new[n] : new[n][u] \in {Waiting, Holding, Neither}
    <2>1. n \in DOMAIN matrix \cup {m}
      BY <1>1
    <2>2. DOMAIN new[n] \subseteq allThreads \cup {t}
      BY <2>1, EnteredFacts DEF RowsOver
    <2>3. ASSUME NEW u \in DOMAIN new[n] PROVE new[n][u] \in {Waiting, Holding, Neither}
      <3>1. CASE u = t /\ n = m
        BY <3>1, <2>1, EnteredFacts
      <3>2. CASE u = t /\ n # m
        BY <3>2, <2>1, <2>3, EnteredFacts DEF RowsOver
      <3>3. CASE u # t
        BY <3>3, <2>1, <2>3, EnteredFacts DEF RowsOver
      <3> QED
        BY <3>1, <3>2, <3>3
    <2> QED
      BY <2>2, <2>3
  <1> QED
    BY <1>1, <1>2 DEF RowsOver

\* An unlock callback at most resets the status of its thread, in the row it is
\* told, if there is one.
LEMMA ForgetFacts ==
  ASSUME NEW t, NEW k, NEW m, Forget(t, k, m), NEW n \in DOMAIN matrix
  PROVE  /\ DOMAIN matrix' = DOMAIN matrix
         /\ DOMAIN matrix'[n] = DOMAIN matrix[n]
         /\ \A u \in DOMAIN matrix[n] :
              matrix'[n][u] = IF ~ub' /\ n = m /\ u = t THEN Neither ELSE matrix[n][u]
  BY DEF Forget

LEMMA ForgetRows ==
  ASSUME NEW t, NEW k, NEW m, Forget(t, k, m)
  PROVE  DOMAIN matrix' = DOMAIN matrix /\ ub' \in BOOLEAN
  BY DEF Forget

-----------------------------------------------------------------------------
(* Type correctness.                                                       *)

\* What f holds is held in g too.
Within(f, g) == DOMAIN f \subseteq DOMAIN g /\ \A m \in DOMAIN f : f[m] = g[m]

\* No thread gets a lock in these steps.
LEMMA HeldShrinks ==
  ASSUME TypeOK, NEW t \in Threads,
         \/ AcquireFails(t) \/ UnlockMissed(t) \/ RWUnlock(t)
         \/ \E m \in Locks : Unlock(t, m) \/ Post(t, m) \/ CondWait(t, m)
  PROVE  DOMAIN held' = Threads /\ \A u \in Threads : Within(held'[u], held[u])
  <1>1. CASE UNCHANGED held
    BY <1>1 DEF TypeOK, Within
  <1>2. ASSUME NEW m, held' = [held EXCEPT ![t] = Remove(@, m)]
        PROVE  DOMAIN held' = Threads /\ \A u \in Threads : Within(held'[u], held[u])
    BY <1>2 DEF TypeOK, Remove, Within
  <1>3. ASSUME NEW m, held' = [u \in Threads |-> Remove(held[u], m)]
        PROVE  DOMAIN held' = Threads /\ \A u \in Threads : Within(held'[u], held[u])
    BY <1>3 DEF Remove, Within
  <1> QED
    BY <1>1, <1>2, <1>3 DEF AcquireFails, UnlockMissed, RWUnlock, Unlock, Post, CondWait

\* A step that leaves the matrix alone and calls no lock.
LEMMA ShapeKeepsType ==
  ASSUME TypeOK, ShapeOK', UNCHANGED <<matrix, allThreads>>, NEW t \in Threads,
         pc'[t] # "acquiring",
         \A u \in Threads \ {t} : pc'[u] = pc[u] /\ want'[u] = want[u]
  PROVE  TypeOK'
  <1>1. HaveRows'
    BY DEF HaveRows, TypeOK
  <1> QED
    BY <1>1, TypeParts DEF TypeOK, ShapeOK, HaveRows, RowsOver

LEMMA NextTypeOK == TypeOK /\ [Next]_vars => TypeOK'
  <1> SUFFICES ASSUME TypeOK, [Next]_vars PROVE TypeOK'
    OBVIOUS
  <1>0. ShapeOK /\ HaveRows /\ RowsOver(matrix, allThreads)
    BY TypeParts
  <1>1. ASSUME NEW t \in Threads, NEW c \in Calls, NEW s \in {Waiting, Holding},
               Calling(t, c), matrix' = Entered(t, c.lock, s), Count(t, c.lock),
               reported' \in BOOLEAN
        PROVE  TypeOK'
    <2>1. c.lock \in Locks
      BY CallFacts
    <2>2. RowsOver(matrix', allThreads')
      BY <1>0, <1>1, <2>1, EnteredRows DEF Count
    <2>3. DOMAIN matrix' = DOMAIN matrix \cup {c.lock}
      BY <1>1, EnteredDomain
    <2>4. ShapeOK'
      BY <1>0, <1>1 DEF ShapeOK, Calling, Step, Count, Labels
    <2>5. HaveRows'
      BY <1>0, <1>1, <2>3 DEF HaveRows, ShapeOK, Calling, Step
    <2> QED
      BY <2>2, <2>4, <2>5 DEF TypeOK, ShapeOK, HaveRows, RowsOver
  <1>2. ASSUME NEW t \in Threads, NEW c \in Calls, LockOwn(t, c)
        PROVE  TypeOK'
    <2>1. ShapeOK'
      BY <1>0, <1>2 DEF LockOwn, Calling, Step, ShapeOK, Labels
    <2>2. HaveRows'
      BY <1>0, <1>2 DEF LockOwn, Calling, Step, HaveRows, ShapeOK
    <2> QED
      BY <1>0, <1>2, <2>1, <2>2 DEF LockOwn, TypeOK, ShapeOK, HaveRows, RowsOver
  <1>3. ASSUME NEW t \in Threads, NEW c \in Calls, NEW p \in Labels,
               Step(t, p, "run", NoCall), odd' \subseteq OddKinds, handover' \in BOOLEAN,
               held' = [held EXCEPT ![t] = Put(@, c.lock, c.shared)],
               UNCHANGED <<unposted, tool>>
        PROVE  TypeOK'
    <2>1. c = [lock |-> c.lock, shared |-> c.shared]
      BY CallFacts
    <2>2. \A u \in Threads : \A m \in DOMAIN held'[u] :
            [lock |-> m, shared |-> held'[u][m]] \in Calls
      <3>1. held'[t] = Put(held[t], c.lock, c.shared)
        BY <1>3 DEF TypeOK
      <3>2. \A m \in DOMAIN held'[t] : [lock |-> m, shared |-> held'[t][m]] \in Calls
        BY <2>1, <3>1 DEF TypeOK, Put
      <3>3. \A u \in Threads \ {t} : held'[u] = held[u]
        BY <1>3 DEF TypeOK
      <3> QED
        BY <3>2, <3>3 DEF TypeOK
    <2>3. ShapeOK'
      BY <1>0, <1>3, <2>2 DEF ShapeOK, Step, Labels, tool
    <2> QED
      BY <1>3, <2>3, ShapeKeepsType DEF Step, TypeOK, tool
  <1>4. ASSUME NEW t \in Threads,
               \/ Acquire(t) \/ CondWake(t)
               \/ \E c \in Calls : AcquireUnseen(t, c)
        PROVE  TypeOK'
    <2>1. CASE Acquire(t)
      <3>1. want[t] \in Calls
        BY <2>1 DEF Acquire, Step, TypeOK
      <3> QED
        BY <1>3, <2>1, <3>1 DEF Acquire, Labels, TypeOK
    <2>2. CASE CondWake(t)
      <3>1. want[t].lock \in Locks
        BY <2>2, CallFacts DEF CondWake, Step, TypeOK
      <3>2. PICK c \in Calls : c = [lock |-> want[t].lock, shared |-> FALSE]
        BY <3>1 DEF Calls
      <3> QED
        BY <1>3, <2>2, <3>2 DEF CondWake, Labels, TypeOK
    <2>3. ASSUME NEW c \in Calls, AcquireUnseen(t, c) PROVE TypeOK'
      BY <1>3, <2>3 DEF AcquireUnseen, Labels, TypeOK, Odd, OddKinds
    <2> QED
      BY <1>4, <2>1, <2>2, <2>3
  <1>5. ASSUME NEW t \in Threads, AcquireFails(t) \/ UnlockMissed(t) \/ RWUnlock(t)
        PROVE  TypeOK'
    <2>1. \A u \in Threads : \A m \in DOMAIN held'[u] :
            [lock |-> m, shared |-> held'[u][m]] \in Calls
      BY <1>5, HeldShrinks DEF Within, TypeOK
    <2>2. DOMAIN held' = Threads
      BY <1>5, HeldShrinks
    <2>3. Step(t, pc[t], "run", NoCall) /\ UNCHANGED <<unposted, tool, handover>>
      BY <1>5 DEF AcquireFails, UnlockMissed, RWUnlock, Step
    <2>4. odd' \subseteq OddKinds
      BY <1>5 DEF AcquireFails, UnlockMissed, RWUnlock, Odd, OddKinds, TypeOK
    <2>5. ShapeOK'
      BY <1>0, <2>1, <2>2, <2>3, <2>4 DEF ShapeOK, Step, Labels, tool
    <2> QED
      BY <2>3, <2>5, ShapeKeepsType DEF Step, TypeOK, tool
  <1>6. ASSUME NEW t \in Threads, NEW m \in Locks, Unlock(t, m) \/ Post(t, m) \/ CondWait(t, m)
        PROVE  TypeOK'
    <2>1. PICK c \in Calls : c = [lock |-> m, shared |-> FALSE]
      BY DEF Calls
    <2>2. \A u \in Threads : \A n \in DOMAIN held'[u] :
            [lock |-> n, shared |-> held'[u][n]] \in Calls
      BY <1>6, HeldShrinks DEF Within, TypeOK
    <2>3. DOMAIN held' = Threads /\ unposted' \subseteq unposted
      BY <1>6, HeldShrinks DEF Unlock, Post, CondWait
    <2>4. PICK p \in {"unhooked", "cond_waiting"} :
            Step(t, "run", p, c) /\ UNCHANGED <<tool, handover>>
      BY <1>6, <2>1 DEF Unlock, Post, CondWait
    <2>5. odd' \subseteq OddKinds
      BY <1>6 DEF Unlock, Post, CondWait, Odd, OddKinds, TypeOK
    <2>6. ShapeOK'
      BY <1>0, <2>1, <2>2, <2>3, <2>4, <2>5 DEF ShapeOK, Step, Labels, tool
    <2> QED
      BY <2>4, <2>6, ShapeKeepsType DEF Step, TypeOK, tool
  <1>7. ASSUME NEW t \in Threads, NEW k, NEW m, Forget(t, k, m), pc'[t] # "acquiring",
               \A u \in Threads \ {t} : pc'[u] = pc[u] /\ want'[u] = want[u],
               ShapeOK', UNCHANGED allThreads
        PROVE  TypeOK'
    <2>1. RowsOver(matrix', allThreads')
      BY <1>0, <1>7, ForgetFacts, ForgetRows DEF RowsOver
    <2>2. HaveRows'
      BY <1>0, <1>7, ForgetRows DEF HaveRows
    <2> QED
      BY <1>7, <2>1, <2>2 DEF TypeOK, ShapeOK, HaveRows, RowsOver
  <1>8. ASSUME NEW t \in Threads, NEW a, UnlockAfter(t, a)
        PROVE  TypeOK'
    <2>1. ub' \in BOOLEAN /\ odd' \subseteq OddKinds
      BY <1>8, ForgetRows DEF UnlockAfter, Odd, OddKinds, TypeOK
    <2>2. ShapeOK'
      BY <1>0, <1>8, <2>1 DEF UnlockAfter, Step, ShapeOK, Labels
    <2> QED
      BY <1>7, <1>8, <2>2 DEF UnlockAfter, Step, TypeOK
  <1>9. ASSUME NEW t \in Threads, NEW m \in Locks, RWUnlockBefore(t, m)
        PROVE  TypeOK'
    <2>1. [lock |-> m, shared |-> held[t][m]] \in Calls
      BY <1>9 DEF RWUnlockBefore, TypeOK
    <2>2. ub' \in BOOLEAN
      BY <1>9, ForgetRows DEF RWUnlockBefore
    <2>3. ShapeOK'
      BY <1>0, <1>9, <2>1, <2>2 DEF RWUnlockBefore, Step, ShapeOK, Labels
    <2> QED
      BY <1>7, <1>9, <2>3 DEF RWUnlockBefore, Step, TypeOK
  <1>10. CASE UNCHANGED vars
    BY <1>10 DEF TypeOK, vars, tool
  <1>11. ASSUME NEW t \in Threads, NEW c \in Calls, LockNew(t, c)
         PROVE  TypeOK'
    BY <1>1, <1>11 DEF LockNew, TypeOK
  <1>12. ASSUME NEW t \in Threads, NEW c \in Calls, LockKnown(t, c)
         PROVE  TypeOK'
    <2>1. \E s \in {Waiting, Holding} : matrix' = Entered(t, c.lock, s)
      BY <1>12 DEF LockKnown
    <2>2. reported' \in BOOLEAN
      BY <1>12 DEF LockKnown, Cycle
    <2> QED
      BY <1>1, <1>12, <2>1, <2>2 DEF LockKnown
  <1> QED
    BY <1>2, <1>4, <1>5, <1>6, <1>8, <1>9, <1>10, <1>11, <1>12 DEF Next

\* The tool's globals keep their shape, whatever unusual calls there are.
THEOREM TypeCorrect == Spec => []TypeOK
  <1>1. Init => TypeOK
    <2> SUFFICES ASSUME Init PROVE TypeOK
      OBVIOUS
    <2>1. DOMAIN Empty = {}
      BY DEF Empty
    <2>2. /\ \A t \in Threads : pc[t] = "run" /\ DOMAIN held[t] = {}
          /\ DOMAIN matrix = {}
      BY <2>1 DEF Init
    <2>3. /\ pc \in [Threads -> Labels]
          /\ want \in [Threads -> Calls \cup {NoCall}]
      BY DEF Init, Labels
    <2>4. DOMAIN held = Threads /\ allThreads = {} /\ threadCount \in Nat
      BY DEF Init
    <2> QED
      BY <2>2, <2>3, <2>4 DEF Init, TypeOK
  <1> QED
    BY <1>1, NextTypeOK, PTL DEF Spec

-----------------------------------------------------------------------------
(* The rows that unlock callbacks use.                                     *)

\* A step of t is one of these.
LEMMA NextCases ==
  ASSUME Next
  PROVE  \E t \in Threads :
           \/ \E c \in Calls : LockNew(t, c) \/ LockKnown(t, c) \/ LockOwn(t, c)
           \/ \E c \in Calls : AcquireUnseen(t, c)
           \/ Acquire(t) \/ AcquireFails(t)
           \/ \E m \in Locks : Unlock(t, m) \/ Post(t, m) \/ CondWait(t, m)
           \/ \E a \in Locks \cup {Stray} : UnlockAfter(t, a)
           \/ UnlockMissed(t)
           \/ \E m \in Locks : RWUnlockBefore(t, m)
           \/ RWUnlock(t) \/ CondWake(t)
  BY DEF Next

\* What happened is remembered.
LEMMA HistoryGrows ==
  ASSUME [Next]_vars
  PROVE  odd \subseteq odd' /\ (handover => handover')
  <1> DEFINE OddStep == UNCHANGED odd \/ \E k : Odd(k)
             HandoverStep == UNCHANGED handover
                               \/ \E t : handover' = (handover \/ Status(matrix, want[t].lock, t) = Waiting)
  <1>1. CASE UNCHANGED vars
    BY <1>1 DEF vars
  <1>2. ASSUME NEW t \in Threads, NEW c \in Calls,
               LockNew(t, c) \/ LockKnown(t, c) \/ LockOwn(t, c)
        PROVE  UNCHANGED <<odd, handover>>
    BY <1>2 DEF LockNew, LockKnown, LockOwn, Calling
  <1>3. ASSUME NEW t \in Threads, Acquire(t) PROVE OddStep /\ HandoverStep
    BY <1>3, Zenon DEF Acquire
  <1>4. ASSUME NEW t \in Threads,
               AcquireFails(t) \/ UnlockMissed(t) \/ RWUnlock(t) \/ CondWake(t)
        PROVE  OddStep /\ HandoverStep
    BY <1>4 DEF AcquireFails, UnlockMissed, RWUnlock, CondWake
  <1>5. ASSUME NEW t \in Threads, NEW c, AcquireUnseen(t, c) PROVE OddStep /\ HandoverStep
    BY <1>5 DEF AcquireUnseen
  <1>6. ASSUME NEW t \in Threads, NEW m,
               Unlock(t, m) \/ Post(t, m) \/ CondWait(t, m) \/ RWUnlockBefore(t, m)
        PROVE  OddStep /\ HandoverStep
    BY <1>6 DEF Unlock, Post, CondWait, RWUnlockBefore
  <1>7. ASSUME NEW t \in Threads, NEW a, UnlockAfter(t, a) PROVE OddStep /\ HandoverStep
    BY <1>7 DEF UnlockAfter
  <1>8. ASSUME OddStep, HandoverStep PROVE odd \subseteq odd' /\ (handover => handover')
    <2>1. odd \subseteq odd'
      BY <1>8 DEF Odd
    <2>2. handover => handover'
      BY <1>8, Zenon
    <2> QED
      BY <2>1, <2>2
  <1> HIDE DEF OddStep, HandoverStep
  <1>9. ASSUME NEW t \in Threads, NEW c \in Calls,
               LockNew(t, c) \/ LockKnown(t, c) \/ LockOwn(t, c)
        PROVE  odd \subseteq odd' /\ (handover => handover')
    BY <1>2, <1>9
  <1>10. CASE Next
    BY <1>3, <1>4, <1>5, <1>6, <1>7, <1>8, <1>9, <1>10, NextCases
  <1> QED
    BY <1>1, <1>10

\* RowIsFound with what makes it inductive: the locks that a thread holds, is to
\* get back or has just released have rows.
RowsInv ==
  /\ RowIsFound
  /\ "unseen" \notin odd =>
       \A t \in Threads :
         /\ DOMAIN held[t] \subseteq DOMAIN matrix
         /\ pc[t] = "cond_waiting" => want[t].lock \in DOMAIN matrix
         /\ pc[t] = "unhooked" /\ "posted" \notin odd => want[t].lock \in DOMAIN matrix

LEMMA NextRows == TypeOK /\ RowsInv /\ [Next]_vars => RowsInv'
  <1> SUFFICES ASSUME TypeOK, RowsInv, [Next]_vars PROVE RowsInv'
    OBVIOUS
  <1>1. ASSUME ub' = ub, DOMAIN matrix \subseteq DOMAIN matrix', odd \subseteq odd',
               "unseen" \notin odd' =>
                 \A t \in Threads :
                   /\ DOMAIN held'[t] \subseteq DOMAIN matrix
                   /\ pc'[t] = "cond_waiting" => want'[t].lock \in DOMAIN matrix
                   /\ pc'[t] = "unhooked" /\ "posted" \notin odd' => want'[t].lock \in DOMAIN matrix
        PROVE  RowsInv'
    BY <1>1 DEF RowsInv, RowIsFound
  <1>2. odd \subseteq odd'
    BY HistoryGrows
  <1>3. CASE UNCHANGED vars
    BY <1>3 DEF RowsInv, RowIsFound, vars, tool
  <1>4. ASSUME NEW t \in Threads, NEW c \in Calls,
               LockNew(t, c) \/ LockKnown(t, c) \/ LockOwn(t, c)
        PROVE  RowsInv'
    <2>1. DOMAIN matrix \subseteq DOMAIN matrix'
      <3>1. ASSUME LockNew(t, c) \/ LockKnown(t, c)
            PROVE  \E s \in {Waiting, Holding} : matrix' = Entered(t, c.lock, s)
        BY <3>1 DEF LockNew, LockKnown
      <3>2. LockOwn(t, c) => UNCHANGED matrix
        BY DEF LockOwn
      <3>3. \A s : DOMAIN Entered(t, c.lock, s) = DOMAIN matrix \cup {c.lock}
        BY EnteredDomain
      <3> QED
        BY <1>4, <3>1, <3>2, <3>3
    <2>2. Calling(t, c)
      BY <1>4 DEF LockNew, LockKnown, LockOwn
    <2> QED
      BY <1>1, <2>1, <2>2 DEF Calling, Step, TypeOK, RowsInv
  <1>5. ASSUME NEW t \in Threads,
               Acquire(t) \/ AcquireFails(t) \/ UnlockMissed(t) \/ RWUnlock(t) \/ CondWake(t)
        PROVE  RowsInv'
    <2>1. "unseen" \notin odd => \A u \in Threads : DOMAIN held'[u] \subseteq DOMAIN matrix
      <3>1. CASE AcquireFails(t) \/ UnlockMissed(t) \/ RWUnlock(t)
        BY <3>1, HeldShrinks DEF Within, RowsInv
      <3>2. CASE Acquire(t) \/ CondWake(t)
        <4>1. \A u \in Threads : DOMAIN held'[u] \subseteq DOMAIN held[u] \cup {want[t].lock}
          <5>1. \E x : held' = [held EXCEPT ![t] = Put(@, want[t].lock, x)]
            BY <3>2, Zenon DEF Acquire, CondWake
          <5> QED
            BY <5>1 DEF Put, TypeOK
        <4>2. "unseen" \notin odd => want[t].lock \in DOMAIN matrix
          BY <3>2 DEF Acquire, CondWake, Step, TypeOK, RowsInv
        <4> QED
          BY <4>1, <4>2 DEF RowsInv
      <3> QED
        BY <1>5, <3>1, <3>2
    <2>4. Step(t, pc[t], "run", NoCall) /\ UNCHANGED tool
      BY <1>5 DEF Acquire, AcquireFails, UnlockMissed, RWUnlock, CondWake, Step
    <2>5. /\ pc'[t] = "run"
          /\ \A u \in Threads \ {t} : pc'[u] = pc[u] /\ want'[u] = want[u]
      BY <2>4 DEF Step, TypeOK
    <2> QED
      BY <1>1, <1>2, <2>1, <2>4, <2>5 DEF RowsInv, tool
  <1>6. ASSUME NEW t \in Threads, NEW c \in Calls, AcquireUnseen(t, c)
        PROVE  RowsInv'
    <2>1. "unseen" \in odd' /\ UNCHANGED tool
      BY <1>6 DEF AcquireUnseen, Odd
    <2> QED
      BY <1>1, <1>2, <2>1 DEF tool
  <1>7. ASSUME NEW t \in Threads, NEW m \in Locks, Unlock(t, m) \/ Post(t, m) \/ CondWait(t, m)
        PROVE  RowsInv'
    <2>1. \A u \in Threads : DOMAIN held'[u] \subseteq DOMAIN held[u]
      BY <1>7, HeldShrinks DEF Within
    <2>2. want'[t].lock = m /\ UNCHANGED tool
      BY <1>7 DEF Unlock, Post, CondWait, Step, TypeOK
    <2>3. m \in DOMAIN held[t] \/ (pc'[t] = "unhooked" /\ "posted" \in odd')
      BY <1>7 DEF Unlock, Post, CondWait, Step, TypeOK, Odd
    <2>4. \A u \in Threads \ {t} : pc'[u] = pc[u] /\ want'[u] = want[u]
      BY <1>7 DEF Unlock, Post, CondWait, Step, TypeOK
    <2> QED
      BY <1>1, <1>2, <2>1, <2>2, <2>3, <2>4 DEF RowsInv, tool
  <1>8. ASSUME NEW t \in Threads, NEW k, NEW m, Forget(t, k, m), UNCHANGED held,
               pc'[t] \in {"run", "releasing"},
               \A u \in Threads \ {t} : pc'[u] = pc[u] /\ want'[u] = want[u],
               ub' => odd' \cap {"unseen", "stray", "posted"} # {}
        PROVE  RowsInv'
    <2>1. DOMAIN matrix' = DOMAIN matrix
      BY <1>8, ForgetRows
    <2>2. "unseen" \notin odd' =>
            \A u \in Threads :
              /\ DOMAIN held'[u] \subseteq DOMAIN matrix'
              /\ pc'[u] = "cond_waiting" => want'[u].lock \in DOMAIN matrix'
              /\ pc'[u] = "unhooked" /\ "posted" \notin odd' => want'[u].lock \in DOMAIN matrix'
      BY <1>2, <1>8, <2>1 DEF RowsInv
    <2> QED
      BY <1>8, <2>2 DEF RowsInv, RowIsFound
  <1>9. ASSUME NEW t \in Threads, NEW a, UnlockAfter(t, a)
        PROVE  RowsInv'
    <2>1. PICK k : k = Kind[want[t].lock] /\ Forget(t, k, a)
      BY <1>9 DEF UnlockAfter
    <2>2. ub' => odd' \cap {"unseen", "stray", "posted"} # {}
      <3>1. CASE a # want[t].lock
        BY <1>9, <3>1 DEF UnlockAfter, Odd
      <3>2. CASE a = want[t].lock /\ odd \cap {"unseen", "posted"} = {}
        <4>1. a \in DOMAIN matrix
          BY <1>9, <3>2 DEF UnlockAfter, Step, RowsInv
        <4> QED
          BY <2>1, <3>2, <4>1 DEF Forget
      <3> QED
        BY <1>2, <3>1, <3>2
    <2>3. pc'[t] \in {"run", "releasing"} /\ UNCHANGED held /\
            \A u \in Threads \ {t} : pc'[u] = pc[u] /\ want'[u] = want[u]
      BY <1>9 DEF UnlockAfter, Step, TypeOK
    <2> QED
      BY <1>8, <2>1, <2>2, <2>3
  <1>10. ASSUME NEW t \in Threads, NEW m \in Locks, RWUnlockBefore(t, m)
         PROVE  RowsInv'
    <2>1. Forget(t, "rwlock", m) /\ UNCHANGED held
      BY <1>10 DEF RWUnlockBefore
    <2>2. ub' => "unseen" \in odd'
      <3>1. m \in DOMAIN held[t] /\ Kind[m] = "rwlock"
        BY <1>10 DEF RWUnlockBefore
      <3> QED
        BY <1>2, <2>1, <3>1 DEF Forget, RowsInv
    <2>3. pc'[t] \in {"run", "releasing"} /\
            \A u \in Threads \ {t} : pc'[u] = pc[u] /\ want'[u] = want[u]
      BY <1>10 DEF RWUnlockBefore, Step, TypeOK
    <2> QED
      BY <1>8, <2>1, <2>2, <2>3
  <1> QED
    BY <1>3, <1>4, <1>5, <1>6, <1>7, <1>9, <1>10, NextCases

LEMMA AlwaysRows == Spec => []RowsInv
  <1>1. Init => RowsInv
    BY DEF Init, RowsInv, RowIsFound, Empty
  <1> QED
    BY <1>1, NextRows, TypeCorrect, PTL DEF Spec

\* An unlock callback uses the row of a lock that has none only after a lock was
\* acquired unseen, an address was misread or a semaphore was posted as a signal.
THEOREM RowsAreFound == Spec => []RowIsFound
  <1>1. RowsInv => RowIsFound
    BY DEF RowsInv
  <1> QED
    BY <1>1, AlwaysRows, PTL

-----------------------------------------------------------------------------
(* One holder.                                                             *)

LEMMA EnteredOneHolder ==
  ASSUME OneHolder, NEW t, NEW m,
         NEW s, s = Holding /\ m \in DOMAIN matrix =>
                  \A u \in DOMAIN matrix[m] : matrix[m][u] # Holding,
         matrix' = Entered(t, m, s)
  PROVE  OneHolder'
  <1> SUFFICES ASSUME NEW n \in DOMAIN matrix',
                      NEW u \in DOMAIN matrix'[n], NEW v \in DOMAIN matrix'[n],
                      matrix'[n][u] = Holding, matrix'[n][v] = Holding, u # v
               PROVE  FALSE
    BY DEF OneHolder
  <1>1. n \in DOMAIN matrix \cup {m}
    BY EnteredDomain
  <1>2. ASSUME NEW w \in {u, v}, w # t \/ n # m
        PROVE  n \in DOMAIN matrix /\ w \in DOMAIN matrix[n] /\ matrix[n][w] = Holding
    <2>1. w \in DOMAIN matrix'[n] /\ matrix'[n][w] = Holding
      OBVIOUS
    <2>2. CASE w # t
      BY <1>1, <2>1, <2>2, EnteredFacts DEF Holding, Neither
    <2>3. CASE w = t /\ n # m
      BY <1>1, <2>1, <2>3, EnteredFacts DEF Holding, Neither
    <2> QED
      BY <1>2, <2>2, <2>3
  <1>3. CASE n # m \/ (u # t /\ v # t)
    BY <1>2, <1>3 DEF OneHolder
  <1>4. CASE n = m /\ (u = t \/ v = t)
    <2>1. s = Holding
      BY <1>4, EnteredFacts
    <2>2. PICK w \in {u, v} : w # t
      BY <1>4
    <2> QED
      BY <1>2, <1>4, <2>1, <2>2
  <1> QED
    BY <1>3, <1>4

\* A row never has two holders.
THEOREM OneHolderOnly == Spec => []OneHolder
  <1>1. Init => OneHolder
    BY DEF Init, OneHolder, Empty
  <1>2. TypeOK /\ OneHolder /\ [Next]_vars => OneHolder'
    <2> SUFFICES ASSUME TypeOK, OneHolder, [Next]_vars PROVE OneHolder'
      OBVIOUS
    <2>1. ASSUME NEW t \in Threads, NEW c \in Calls, LockNew(t, c)
          PROVE  OneHolder'
      BY <2>1, EnteredOneHolder DEF LockNew
    <2>2. ASSUME NEW t \in Threads, NEW c \in Calls, LockKnown(t, c)
          PROVE  OneHolder'
      <3>1. PICK s : /\ matrix' = Entered(t, c.lock, s)
                     /\ s = IF \E u \in DOMAIN matrix[c.lock] : matrix[c.lock][u] = Holding
                            THEN Waiting ELSE Holding
        BY <2>2 DEF LockKnown
      <3>2. s = Holding => \A u \in DOMAIN matrix[c.lock] : matrix[c.lock][u] # Holding
        BY <3>1 DEF Waiting, Holding
      <3> QED
        BY <3>1, <3>2, EnteredOneHolder
    <2>3. ASSUME NEW t \in Threads, NEW k, NEW m, Forget(t, k, m)
          PROVE  OneHolder'
      BY <2>3, ForgetFacts, ForgetRows DEF OneHolder, Holding, Neither
    <2>4. ASSUME NEW t \in Threads, NEW a, UnlockAfter(t, a)
          PROVE  OneHolder'
      BY <2>3, <2>4 DEF UnlockAfter
    <2>5. ASSUME NEW t \in Threads, NEW m \in Locks, RWUnlockBefore(t, m)
          PROVE  OneHolder'
      BY <2>3, <2>5 DEF RWUnlockBefore
    <2>6. ASSUME UNCHANGED matrix
          PROVE  OneHolder'
      BY <2>6 DEF OneHolder
    <2> QED
      BY <2>1, <2>2, <2>4, <2>5, <2>6
         DEF Next, vars, tool, LockOwn, Acquire, AcquireFails, AcquireUnseen, Unlock,
             Post, UnlockMissed, RWUnlock, CondWait, CondWake
  <1> QED
    BY <1>1, <1>2, TypeCorrect, PTL DEF Spec

-----------------------------------------------------------------------------
(* What is held is recorded.                                               *)

\* A lock callback gives its thread the status it computed, and has no effect on
\* the status of other threads or locks, for locks that have a row.
LEMMA EnteredOwnStatus ==
  ASSUME NEW t, NEW m, NEW s
  PROVE  Status(Entered(t, m, s), m, t) = s
  BY EnteredFacts DEF Status

LEMMA EnteredStatus ==
  ASSUME NEW t, NEW m, NEW s, NEW n \in DOMAIN matrix, NEW u, u # t \/ n # m
  PROVE  Status(Entered(t, m, s), n, u) = Status(matrix, n, u)
  <1>1. ASSUME u # t
        PROVE  Status(Entered(t, m, s), n, u) = Status(matrix, n, u)
    BY <1>1, EnteredFacts DEF Status
  <1>2. ASSUME u = t, n # m
        PROVE  Status(Entered(t, m, s), n, u) = Status(matrix, n, u)
    BY <1>2, EnteredFacts DEF Status
  <1> QED
    BY <1>1, <1>2

LEMMA ForgetStatus ==
  ASSUME NEW t, NEW k, NEW m, Forget(t, k, m), NEW n \in DOMAIN matrix,
         NEW u, u # t \/ n # m
  PROVE  Status(matrix', n, u) = Status(matrix, n, u)
  BY ForgetFacts DEF Status

\* HeldIsRecorded with what makes it inductive: a caller is in the row of the
\* lock it waits for, and a lock that its thread is to get back, or has released
\* and not yet reported, is not held.
RecordedInv ==
  /\ HeldIsRecorded
  /\ ~handover /\ odd \cap {"unseen", "stray"} = {} =>
       \A t \in Threads \ {Nobody} :
         /\ pc[t] = "acquiring" => Status(matrix, want[t].lock, t) \in {Waiting, Holding}
         /\ pc[t] = "cond_waiting" => Status(matrix, want[t].lock, t) = Holding
  /\ \A t \in Threads :
       pc[t] \in {"unhooked", "cond_waiting"} => want[t].lock \notin DOMAIN held[t]

\* The conjuncts of RecordedInv for one thread, under its assumptions.
Recorded(t) ==
  /\ \A m \in DOMAIN held[t] :
       \/ pc[t] = "releasing" /\ want[t].lock = m
       \/ Status(matrix, m, t) = Holding
  /\ pc[t] = "acquiring" => Status(matrix, want[t].lock, t) \in {Waiting, Holding}
  /\ pc[t] = "cond_waiting" => Status(matrix, want[t].lock, t) = Holding

Released ==
  \A t \in Threads :
    pc[t] \in {"unhooked", "cond_waiting"} => want[t].lock \notin DOMAIN held[t]

LEMMA RecordedByThread ==
  RecordedInv <=>
    /\ ~handover /\ odd \cap {"unseen", "stray"} = {} =>
         \A t \in Threads \ {Nobody} : Recorded(t)
    /\ Released
  BY DEF RecordedInv, HeldIsRecorded, Recorded, Released

\* The threads' rows, for a program that acquires no lock unseen.
RowsFor(t) ==
  /\ DOMAIN held[t] \subseteq DOMAIN matrix
  /\ pc[t] \in {"acquiring", "cond_waiting"} => want[t].lock \in DOMAIN matrix

\* A lock call that enters t in the row of its lock.
LEMMA EnteringRecords ==
  ASSUME TypeOK, \A u \in Threads : RowsFor(u), \A u \in Threads \ {Nobody} : Recorded(u),
         NEW t \in Threads, NEW c \in Calls, NEW s \in {Waiting, Holding},
         Calling(t, c), matrix' = Entered(t, c.lock, s)
  PROVE  \A u \in Threads \ {Nobody} : Recorded(u)'
  <1> SUFFICES ASSUME NEW u \in Threads \ {Nobody} PROVE Recorded(u)'
    OBVIOUS
  <1>1. CASE u = t
    <2>1. pc'[t] = "acquiring" /\ want'[t] = c /\ held'[t] = held[t]
      BY DEF Calling, Step, TypeOK
    <2>2. Status(matrix', c.lock, t) = s
      BY EnteredOwnStatus
    <2>3. ASSUME NEW m \in DOMAIN held[t] PROVE Status(matrix', m, t) = Holding
      <3>1. m # c.lock /\ m \in DOMAIN matrix /\ Status(matrix, m, t) = Holding
        <4>1. pc[t] = "run" /\ m # c.lock
          BY DEF Calling, Step
        <4>2. t \in Threads \ {Nobody} /\ DOMAIN held[t] \subseteq DOMAIN matrix
          BY <1>1 DEF RowsFor
        <4>3. Status(matrix, m, t) = Holding
          BY <4>1, <4>2 DEF Recorded
        <4> QED
          BY <4>1, <4>2, <4>3
      <3> QED
        BY <3>1, EnteredStatus
    <2> QED
      BY <1>1, <2>1, <2>2, <2>3 DEF Recorded
  <1>2. CASE u # t
    <2>1. pc'[u] = pc[u] /\ want'[u] = want[u] /\ held'[u] = held[u]
      BY <1>2 DEF Calling, Step, TypeOK
    <2>2. ASSUME NEW m \in DOMAIN matrix
          PROVE  Status(matrix', m, u) = Status(matrix, m, u)
      BY <1>2, EnteredStatus
    <2>3. RowsFor(u)
      OBVIOUS
    <2> QED
      BY <2>1, <2>2, <2>3 DEF Recorded, RowsFor
  <1> QED
    BY <1>1, <1>2

\* An unlock callback for a lock that the thread is done with.
LEMMA ForgettingRecords ==
  ASSUME TypeOK, \A u \in Threads : RowsFor(u), \A u \in Threads \ {Nobody} : Recorded(u),
         NEW t \in Threads, NEW k, NEW m, Forget(t, k, m), UNCHANGED held,
         pc[t] # "releasing", pc'[t] \in {"run", "releasing"},
         m \in DOMAIN held[t] => pc'[t] = "releasing" /\ want'[t].lock = m,
         \A u \in Threads \ {t} : pc'[u] = pc[u] /\ want'[u] = want[u]
  PROVE  \A u \in Threads \ {Nobody} : Recorded(u)'
  <1> SUFFICES ASSUME NEW u \in Threads \ {Nobody} PROVE Recorded(u)'
    OBVIOUS
  <1>1. DOMAIN held[u] \subseteq DOMAIN matrix /\ held'[u] = held[u]
    BY DEF RowsFor
  <1>2. CASE u = t
    <2>1. ASSUME NEW n \in DOMAIN held[t]
          PROVE  \/ pc'[t] = "releasing" /\ want'[t].lock = n
                 \/ Status(matrix', n, t) = Holding
      <3>1. CASE n = m
        BY <2>1, <3>1
      <3>2. CASE n # m
        BY <1>1, <1>2, <3>2, ForgetStatus DEF Recorded
      <3> QED
        BY <3>1, <3>2
    <2> QED
      BY <1>1, <1>2, <2>1 DEF Recorded
  <1>3. CASE u # t
    <2>1. pc'[u] = pc[u] /\ want'[u] = want[u]
      BY <1>3
    <2>2. ASSUME NEW n \in DOMAIN matrix
          PROVE  Status(matrix', n, u) = Status(matrix, n, u)
      BY <1>3, ForgetStatus
    <2>3. RowsFor(u)
      OBVIOUS
    <2> QED
      BY <1>1, <2>1, <2>2, <2>3 DEF Recorded, RowsFor
  <1> QED
    BY <1>2, <1>3

\* A step that leaves the matrix alone and only takes locks from threads.
LEMMA ReleasingRecords ==
  ASSUME \A u \in Threads \ {Nobody} : Recorded(u), NEW t \in Threads, UNCHANGED matrix,
         \A u \in Threads : Within(held'[u], held[u]),
         \A u \in Threads \ {t} : pc'[u] = pc[u] /\ want'[u] = want[u],
         pc'[t] # "acquiring",
         pc[t] = "releasing" => want[t].lock \notin DOMAIN held'[t],
         pc'[t] = "cond_waiting" => pc[t] = "run" /\ want'[t].lock \in DOMAIN held[t]
  PROVE  \A u \in Threads \ {Nobody} : Recorded(u)'
  BY DEF Recorded, Within

\* A step in which t gets a lock that it is recorded to hold.
LEMMA AcquiringRecords ==
  ASSUME TypeOK, \A u \in Threads \ {Nobody} : Recorded(u), NEW t \in Threads, NEW x,
         t # Nobody => Status(matrix, want[t].lock, t) = Holding,
         pc[t] # "releasing",
         Step(t, pc[t], "run", NoCall), UNCHANGED matrix,
         held' = [held EXCEPT ![t] = Put(@, want[t].lock, x)]
  PROVE  \A u \in Threads \ {Nobody} : Recorded(u)'
  <1>1. \A u \in Threads \ {t} : pc'[u] = pc[u] /\ want'[u] = want[u] /\ held'[u] = held[u]
    BY DEF Step, TypeOK
  <1>2. pc'[t] = "run" /\ DOMAIN held'[t] = DOMAIN held[t] \cup {want[t].lock}
    BY DEF Step, TypeOK, Put
  <1>3. t # Nobody => \A m \in DOMAIN held[t] : Status(matrix, m, t) = Holding
    BY DEF Recorded
  <1>4. t # Nobody => Recorded(t)'
    BY <1>2, <1>3 DEF Recorded
  <1>5. ASSUME NEW u \in Threads \ {Nobody}, u # t PROVE Recorded(u)'
    BY <1>1, <1>5 DEF Recorded
  <1> QED
    BY <1>4, <1>5

LEMMA NextReleased ==
  ASSUME TypeOK, [Next]_vars, Released
  PROVE  Released'
  <1>1. ASSUME NEW t \in Threads, pc'[t] \notin {"unhooked", "cond_waiting"},
               \A u \in Threads \ {t} :
                 pc'[u] = pc[u] /\ want'[u] = want[u] /\ DOMAIN held'[u] \subseteq DOMAIN held[u]
        PROVE  Released'
    BY <1>1 DEF Released
  <1>2. ASSUME NEW t \in Threads, NEW m \in Locks, Unlock(t, m) \/ Post(t, m) \/ CondWait(t, m)
        PROVE  Released'
    <2>1. want'[t].lock = m /\ \A u \in Threads \ {t} : pc'[u] = pc[u] /\ want'[u] = want[u]
      BY <1>2 DEF Unlock, Post, CondWait, Step, TypeOK
    <2>2. m \notin DOMAIN held'[t]
      <3>1. held'[t] = Remove(held[t], m)
        BY <1>2 DEF Unlock, Post, CondWait, TypeOK
      <3> QED
        BY <3>1 DEF Remove
    <2>3. \A u \in Threads : DOMAIN held'[u] \subseteq DOMAIN held[u]
      BY <1>2, HeldShrinks DEF Within
    <2> QED
      BY <2>1, <2>2, <2>3 DEF Released
  <1>3. ASSUME NEW t \in Threads, NEW c \in Calls,
               LockNew(t, c) \/ LockKnown(t, c) \/ LockOwn(t, c)
        PROVE  Released'
    <2>1. Calling(t, c)
      BY <1>3 DEF LockNew, LockKnown, LockOwn
    <2> QED
      BY <1>1, <2>1 DEF Calling, Step, TypeOK
  <1>4. ASSUME NEW t \in Threads,
               \/ AcquireFails(t) \/ UnlockMissed(t) \/ RWUnlock(t)
               \/ Acquire(t) \/ CondWake(t) \/ \E c \in Calls : AcquireUnseen(t, c)
        PROVE  Released'
    <2>1. Step(t, pc[t], "run", NoCall) /\ \A u \in Threads \ {t} : held'[u] = held[u]
      BY <1>4 DEF AcquireFails, UnlockMissed, RWUnlock, Acquire, CondWake, AcquireUnseen,
                  Step, TypeOK
    <2>2. pc'[t] = "run" /\ \A u \in Threads \ {t} : pc'[u] = pc[u] /\ want'[u] = want[u]
      BY <2>1 DEF Step, TypeOK
    <2> QED
      BY <1>1, <2>1, <2>2
  <1>5. ASSUME NEW t \in Threads, NEW a, UnlockAfter(t, a)
        PROVE  Released'
    BY <1>1, <1>5 DEF UnlockAfter, Step, TypeOK
  <1>6. ASSUME NEW t \in Threads, NEW m \in Locks, RWUnlockBefore(t, m)
        PROVE  Released'
    BY <1>1, <1>6 DEF RWUnlockBefore, Step, TypeOK
  <1>7. CASE UNCHANGED vars
    BY <1>7 DEF vars, Released
  <1> QED
    BY <1>2, <1>3, <1>4, <1>5, <1>6, <1>7, NextCases

LEMMA NextRecorded ==
  ASSUME TypeOK, RowsInv, RecordedInv, [Next]_vars,
         ~handover', odd' \cap {"unseen", "stray"} = {}
  PROVE  \A t \in Threads \ {Nobody} : Recorded(t)'
  <1>1. ~handover /\ odd \cap {"unseen", "stray"} = {}
    BY HistoryGrows
  <1>2. (\A t \in Threads \ {Nobody} : Recorded(t)) /\ Released
    BY <1>1, RecordedByThread
  <1>0. \A t \in Threads : RowsFor(t)
    BY <1>1 DEF RowsInv, RowsFor, TypeOK
  <1>3. ASSUME NEW t \in Threads, NEW c \in Calls, LockNew(t, c) \/ LockKnown(t, c)
        PROVE  \A u \in Threads \ {Nobody} : Recorded(u)'
    <2>1. \E s \in {Waiting, Holding} : matrix' = Entered(t, c.lock, s)
      BY <1>3 DEF LockNew, LockKnown
    <2>2. Calling(t, c)
      BY <1>3 DEF LockNew, LockKnown
    <2> QED
      BY <1>0, <1>2, <2>1, <2>2, EnteringRecords
  <1>4. ASSUME NEW t \in Threads, NEW c \in Calls, LockOwn(t, c)
        PROVE  \A u \in Threads \ {Nobody} : Recorded(u)'
    <2>1. t # Nobody => t \in DOMAIN matrix[c.lock] /\ matrix[c.lock][t] = Holding
      BY <1>4 DEF LockOwn, IsLocked
    <2> QED
      BY <1>2, <1>4, <2>1 DEF LockOwn, Calling, Step, Recorded, Status, TypeOK
  <1>5. ASSUME NEW t \in Threads, Acquire(t)
        PROVE  \A u \in Threads \ {Nobody} : Recorded(u)'
    <2>1. t # Nobody => Status(matrix, want[t].lock, t) = Holding
      BY <1>2, <1>5 DEF Acquire, Step, Recorded
    <2>2. pc[t] # "releasing" /\ Step(t, pc[t], "run", NoCall) /\ UNCHANGED matrix
      BY <1>5 DEF Acquire, Step, tool
    <2>3. held' = [held EXCEPT ![t] = Put(@, want[t].lock, want[t].shared)]
      BY <1>5 DEF Acquire
    <2> QED
      BY <1>2, <2>1, <2>2, <2>3, AcquiringRecords
  <1>6. ASSUME NEW t \in Threads, CondWake(t)
        PROVE  \A u \in Threads \ {Nobody} : Recorded(u)'
    <2>1. t # Nobody => Status(matrix, want[t].lock, t) = Holding
      BY <1>2, <1>6 DEF CondWake, Step, Recorded
    <2>2. pc[t] # "releasing" /\ Step(t, pc[t], "run", NoCall) /\ UNCHANGED matrix
      BY <1>6 DEF CondWake, Step, tool
    <2>3. held' = [held EXCEPT ![t] = Put(@, want[t].lock, FALSE)]
      BY <1>6 DEF CondWake
    <2> QED
      BY <1>2, <2>1, <2>2, <2>3, AcquiringRecords
  <1>7. ASSUME NEW t \in Threads,
               \/ AcquireFails(t) \/ UnlockMissed(t) \/ RWUnlock(t)
               \/ \E m \in Locks : Unlock(t, m) \/ Post(t, m) \/ CondWait(t, m)
        PROVE  \A u \in Threads \ {Nobody} : Recorded(u)'
    <2>1. \A u \in Threads : Within(held'[u], held[u])
      BY <1>7, HeldShrinks
    <2>2. UNCHANGED matrix
      BY <1>7 DEF AcquireFails, UnlockMissed, RWUnlock, Unlock, Post, CondWait, tool
    <2>3. \A u \in Threads \ {t} : pc'[u] = pc[u] /\ want'[u] = want[u]
      BY <1>7 DEF AcquireFails, UnlockMissed, RWUnlock, Unlock, Post, CondWait, Step, TypeOK
    <2>4. pc'[t] \in {"run", "unhooked", "cond_waiting"}
      BY <1>7 DEF AcquireFails, UnlockMissed, RWUnlock, Unlock, Post, CondWait, Step, TypeOK
    <2>5. pc[t] = "releasing" => want[t].lock \notin DOMAIN held'[t]
      <3>1. pc[t] = "releasing" => RWUnlock(t)
        BY <1>7 DEF AcquireFails, UnlockMissed, Unlock, Post, CondWait, Step
      <3>2. RWUnlock(t) => want[t].lock \notin DOMAIN held'[t]
        BY DEF RWUnlock, Remove, TypeOK
      <3> QED
        BY <3>1, <3>2
    <2>6. pc'[t] = "cond_waiting" => pc[t] = "run" /\ want'[t].lock \in DOMAIN held[t]
      BY <1>7 DEF AcquireFails, UnlockMissed, RWUnlock, Unlock, Post, CondWait, Step, TypeOK
    <2> QED
      BY <1>2, <2>1, <2>2, <2>3, <2>4, <2>5, <2>6, ReleasingRecords
  <1>8. ASSUME NEW t \in Threads, NEW a, UnlockAfter(t, a)
        PROVE  \A u \in Threads \ {Nobody} : Recorded(u)'
    <2>1. PICK k : Forget(t, k, a)
      BY <1>8 DEF UnlockAfter
    <2>2. a = want[t].lock
      BY <1>8 DEF UnlockAfter, Odd
    <2>3. a \notin DOMAIN held[t] /\ UNCHANGED held
      BY <1>2, <1>8, <2>2 DEF UnlockAfter, Step, Released
    <2>4. /\ pc[t] # "releasing" /\ pc'[t] \in {"run", "releasing"}
          /\ \A u \in Threads \ {t} : pc'[u] = pc[u] /\ want'[u] = want[u]
      BY <1>8 DEF UnlockAfter, Step, TypeOK
    <2> QED
      BY <1>0, <1>2, <2>1, <2>3, <2>4, ForgettingRecords
  <1>9. ASSUME NEW t \in Threads, NEW m \in Locks, RWUnlockBefore(t, m)
        PROVE  \A u \in Threads \ {Nobody} : Recorded(u)'
    <2>1. Forget(t, "rwlock", m) /\ UNCHANGED held
      BY <1>9 DEF RWUnlockBefore
    <2>2. /\ pc[t] # "releasing" /\ pc'[t] = "releasing" /\ want'[t].lock = m
          /\ \A u \in Threads \ {t} : pc'[u] = pc[u] /\ want'[u] = want[u]
      BY <1>9 DEF RWUnlockBefore, Step, TypeOK
    <2> QED
      BY <1>0, <1>2, <2>1, <2>2, ForgettingRecords
  <1>10. ASSUME NEW t \in Threads, NEW c \in Calls, AcquireUnseen(t, c)
         PROVE  FALSE
    BY <1>10 DEF AcquireUnseen, Odd
  <1>11. CASE UNCHANGED vars
    BY <1>2, <1>11 DEF vars, tool, Recorded
  <1> QED
    BY <1>3, <1>4, <1>5, <1>6, <1>7, <1>8, <1>9, <1>10, <1>11, NextCases

LEMMA AlwaysRecorded == Spec => []RecordedInv
  <1>1. Init => RecordedInv
    BY DEF Init, RecordedInv, HeldIsRecorded, Empty
  <1>2. TypeOK /\ RowsInv /\ RecordedInv /\ [Next]_vars => RecordedInv'
    <2> SUFFICES ASSUME TypeOK, RowsInv, RecordedInv, [Next]_vars PROVE RecordedInv'
      OBVIOUS
    <2>1. Released'
      BY NextReleased, RecordedByThread
    <2>2. ~handover' /\ odd' \cap {"unseen", "stray"} = {} =>
            \A t \in Threads \ {Nobody} : Recorded(t)'
      BY NextRecorded
    <2> QED
      BY <2>1, <2>2 DEF RecordedInv, HeldIsRecorded, Recorded, Released
  <1> QED
    BY <1>1, <1>2, TypeCorrect, AlwaysRows, PTL DEF Spec

\* Before the first hand-over the row of a lock that a thread other than 2 holds
\* says so, until a lock is acquired unseen or an address is misread.
THEOREM HoldersRecorded == Spec => []HeldIsRecorded
  <1>1. RecordedInv => HeldIsRecorded
    BY DEF RecordedInv
  <1> QED
    BY <1>1, AlwaysRecorded, PTL

=============================================================================
