------------------------- MODULE MemTracker_proofs -------------------------
(***************************************************************************)
(* Proofs about MemTracker, for every set of threads, locks, instructions  *)
(* and addresses.                                                          *)
(***************************************************************************)
EXTENDS MemTracker, SequenceTheorems, TLAPS

(***************************************************************************)
(* The maps                                                                *)
(***************************************************************************)

\* What syncs[t] says agrees with what t holds on every lock but l.
AgreeBut(t, l) ==
  /\ \A k \in DOMAIN held[t] \ {l} : k \in Listed(t) /\ syncs[t][k] = held[t][k]
  /\ (Listed(t) \cap Exclusive) \ {l} \subseteq DOMAIN held[t]

\* The strengthening of HeldIsListed and ListedIsHeld, by the place t is at.
\* A callback runs before its lock routine, so between the two the record is
\* ahead of the program by the lock in want[t] (noting and acquiring, unnoting
\* and releasing, and the two places where the outer map changes); inside
\* pthread_cond_wait it still lists the mutex that was given up.
Agree(t) ==
  /\ pc[t] \in Tracing \cup {"recording", "removing"} =>
       /\ \A k \in DOMAIN held[t] : k \in Listed(t) /\ syncs[t][k] = held[t][k]
       /\ Listed(t) \cap Exclusive \subseteq DOMAIN held[t]
  /\ pc[t] = "recording" => want[t].lock \notin DOMAIN held[t]
  /\ pc[t] = "removing" =>
       want[t].lock \in DOMAIN held[t] /\ want[t].type = held[t][want[t].lock]
  /\ pc[t] = "inserting" => t \notin DOMAIN syncs /\ DOMAIN held[t] = {}
  /\ pc[t] \in {"noting", "acquiring", "cond_waiting"} =>
       /\ want[t].lock \notin DOMAIN held[t]
       /\ want[t].lock \in Listed(t)
       /\ syncs[t][want[t].lock] = want[t].type
       /\ AgreeBut(t, want[t].lock)
  /\ pc[t] \in {"unnoting", "releasing"} =>
       want[t].lock \notin Listed(t) /\ AgreeBut(t, want[t].lock)
  /\ pc[t] = "erasing" =>
       t \in DOMAIN syncs /\ Listed(t) = {} /\ DOMAIN held[t] \subseteq {want[t].lock}
  /\ t \in DOMAIN syncs /\ pc[t] # "erasing" => Listed(t) # {}

\* A lock with one owner has one owner.
OneOwner ==
  \A t, u \in Threads :
    t # u => DOMAIN held[t] \cap DOMAIN held[u] \cap Exclusive = {}

\* An INSINFO is made once, before the instruction first runs.
OneInstrumenter ==
  /\ \A t, u \in Threads :
       pc[t] = "instrumenting" /\ pc[u] = "instrumenting" => t = u
  /\ \A t \in Threads :
       pc[t] = "instrumenting" => cur[t].ins \notin DOMAIN inslist

Printable ==
  \A t \in Threads :
    /\ pc[t] = "printing" => inslist[cur[t].ins] \in Operands(cur[t].ins)
    /\ pc[t] = "syncing" => cur[t].shown \in Operands(cur[t].ins)

AgreeInv == ~ub => \A t \in Threads : Agree(t)
PrintInv == OneInstrumenter /\ Printable /\ PrintedWasAccessed

-----------------------------------------------------------------------------
(* Lemmas about the maps and the lock calls.                               *)

\* A request names a lock of the program, with a type of the lock's kind; only
\* read-write locks have readers.
LEMMA RequestFacts ==
  ASSUME NEW r \in Requests
  PROVE  /\ r.lock \in Locks
         /\ r = [lock |-> r.lock, type |-> r.type]
         /\ r.lock \in Mutexes => r.type = "mutex"
         /\ r.lock \in Exclusive => r.type # "reader lock"
  BY MemTrackerAssumption DEF Requests, Locks, Exclusive

\* Assigning a requested lock keeps a map well formed.
LEMMA PutMap ==
  ASSUME NEW f, IsLockMap(f), NEW r \in Requests
  PROVE  IsLockMap(Put(f, r.lock, r.type))
  BY RequestFacts DEF IsLockMap, Put

\* Erasing a lock keeps a map well formed.
LEMMA RemoveMap ==
  ASSUME NEW f, IsLockMap(f), NEW l
  PROVE  IsLockMap(Remove(f, l))
  BY DEF IsLockMap, Remove

LEMMA EmptyMap == IsLockMap(Empty) /\ DOMAIN Empty = {}
  BY DEF IsLockMap, Empty

-----------------------------------------------------------------------------
(* Type correctness.                                                       *)

LEMMA InitTypeOK == Init => TypeOK
  <1> SUFFICES ASSUME Init PROVE TypeOK
    OBVIOUS
  <1>1. \A t \in Threads : pc[t] = "run" /\ held[t] = Empty
    BY DEF Init
  <1>2. trace \in Seq(Lines)
    BY DEF Init
  <1>3. cur \in [Threads -> [ins : Instrs \cup {"none"}, ea : Values, shown : Values]]
    BY DEF Init, NoAccess, Values
  <1> QED
    BY <1>1, <1>2, <1>3, EmptyMap
    DEF Init, TypeOK, Labels, Calling, InRecord, InNotice, Empty

LEMMA NextTypeOK == TypeOK /\ [Next]_vars => TypeOK'
  <1> SUFFICES ASSUME TypeOK, [Next]_vars PROVE TypeOK'
    OBVIOUS
  <1> USE DEF TypeOK, Goto, Labels, Calling, InRecord, InNotice
  <1>1. ASSUME NEW t \in Threads, NEW i \in Instrs, InstructionBegin(t, i)
        PROVE  TypeOK'
    BY <1>1 DEF InstructionBegin, NoAccess, Values
  <1>2. ASSUME NEW t \in Threads, InstructionEnd(t)
        PROVE  TypeOK'
    BY <1>2 DEF InstructionEnd, NoAccess, Values, Put
  <1>3. ASSUME NEW t \in Threads, NEW i \in Instrs, NEW ea \in Operands(i),
               AccessWrite(t, i, ea)
        PROVE  TypeOK'
    BY <1>3 DEF AccessWrite, Values, Operands, InslistBusy, Others
  <1>4. ASSUME NEW t \in Threads, AccessPrint(t)
        PROVE  TypeOK'
    <2>1. inslist[cur[t].ins] \in Values /\ cur[t].ins \in Instrs
      BY <1>4 DEF AccessPrint
    <2>2. trace' \in Seq(Lines)
      BY <1>4, <2>1 DEF AccessPrint, Lines
    <2> QED
      BY <1>4, <2>1, <2>2 DEF AccessPrint, InslistBusy
  <1>5. ASSUME NEW t \in Threads, AccessSync(t)
        PROVE  TypeOK'
    <2>1. Listed(t) \in SUBSET Locks
      BY DEF Listed, IsLockMap
    <2>2. trace' \in Seq(Lines)
      BY <1>5, <2>1 DEF AccessSync, Lines
    <2> QED
      BY <1>5, <2>2 DEF AccessSync, NoAccess, Values, SyncsBusy
  <1>6. ASSUME NEW t \in Threads, LockBefore(t)
        PROVE  TypeOK'
    <2>1. t \in DOMAIN syncs => IsLockMap(Put(syncs[t], want[t].lock, want[t].type))
      BY <1>6, PutMap DEF LockBefore
    <2> QED
      BY <1>6, <2>1 DEF LockBefore, SyncsBusy
  <1>7. ASSUME NEW t \in Threads, LockInsert(t)
        PROVE  TypeOK'
    <2>1. IsLockMap(Put(Empty, want[t].lock, want[t].type))
      BY <1>7, PutMap, EmptyMap DEF LockInsert
    <2> QED
      BY <1>7, <2>1 DEF LockInsert, Put
  <1>8. ASSUME NEW t \in Threads, Acquire(t) \/ CondWake(t)
        PROVE  TypeOK'
    <2>1. IsLockMap(Put(held[t], want[t].lock, want[t].type))
      BY <1>8, PutMap DEF Acquire, CondWake
    <2> QED
      BY <1>8, <2>1 DEF Acquire, CondWake
  <1>9. ASSUME NEW t \in Threads, UnlockBefore(t)
        PROVE  TypeOK'
    <2>1. want[t].lock \in Listed(t) =>
            t \in DOMAIN syncs /\ IsLockMap(Remove(syncs[t], want[t].lock))
      BY RemoveMap DEF Listed
    <2> QED
      BY <1>9, <2>1 DEF UnlockBefore, SyncsBusy
  <1>10. ASSUME NEW t \in Threads, UnlockErase(t)
         PROVE  TypeOK'
    BY <1>10 DEF UnlockErase, Remove
  <1>11. ASSUME NEW t \in Threads, Release(t)
         PROVE  TypeOK'
    BY <1>11, RemoveMap DEF Release
  <1>12. ASSUME NEW t \in Threads, NEW l \in Locks, UnlockUnseen(t, l)
         PROVE  TypeOK'
    BY <1>12, RemoveMap DEF UnlockUnseen
  <1>13. ASSUME NEW t \in Threads, NEW m \in Mutexes, CondWait(t, m)
         PROVE  TypeOK'
    <2>1. [lock |-> m, type |-> "mutex"] \in Requests
      BY DEF Requests
    <2> QED
      BY <1>13, <2>1, RemoveMap DEF CondWait
  <1>14. ASSUME NEW t \in Threads, NEW r \in Requests, LockCall(t, r)
         PROVE  TypeOK'
    BY <1>14 DEF LockCall, Others
  <1>15. ASSUME NEW t \in Threads, NEW l \in Locks, UnlockCall(t, l)
         PROVE  TypeOK'
    <2>1. [lock |-> l, type |-> held[t][l]] \in Requests
      BY <1>15 DEF UnlockCall, IsLockMap
    <2> QED
      BY <1>15, <2>1 DEF UnlockCall, Others
  <1>16. ASSUME NEW t \in Threads, LockNoted(t) \/ UnlockNoted(t)
         PROVE  TypeOK'
    BY <1>16 DEF LockNoted, UnlockNoted
  <1>17. CASE UNCHANGED vars
    BY <1>17 DEF vars, Listed
  <1> QED
    BY <1>1, <1>2, <1>3, <1>4, <1>5, <1>6, <1>7, <1>8, <1>9, <1>10, <1>11, <1>12,
       <1>13, <1>14, <1>15, <1>16, <1>17 DEF Next, ThreadStep, Instrs

\* The variables always have the shape of the tool's globals.
THEOREM TypeCorrect == Spec => []TypeOK
  BY InitTypeOK, NextTypeOK, PTL DEF Spec

-----------------------------------------------------------------------------
(* One owner for each mutex and semaphore.                                 *)

LEMMA NextOneOwner == TypeOK /\ OneOwner /\ [Next]_vars => OneOwner'
  <1> SUFFICES ASSUME TypeOK, OneOwner, [Next]_vars PROVE OneOwner'
    OBVIOUS
  <1>1. ASSUME NEW t \in Threads, Acquire(t) \/ CondWake(t)
        PROVE  OneOwner'
    <2>1. want[t] \in Requests
      BY <1>1 DEF TypeOK, Acquire, CondWake, Calling
    <2>2. want[t].lock \in Exclusive =>
            \A u \in Threads \ {t} : want[t].lock \notin DOMAIN held[u]
      BY <1>1, <2>1, RequestFacts DEF Acquire, CondWake, Available
    <2>3. DOMAIN held'[t] = DOMAIN held[t] \cup {want[t].lock}
      BY <1>1 DEF Acquire, CondWake, Put, TypeOK
    <2>4. \A u \in Threads \ {t} : held'[u] = held[u]
      BY <1>1 DEF Acquire, CondWake, TypeOK
    <2> QED
      BY <2>2, <2>3, <2>4 DEF OneOwner
  <1>2. ASSUME \A u \in Threads : DOMAIN held'[u] \subseteq DOMAIN held[u]
        PROVE  OneOwner'
    BY <1>2 DEF OneOwner
  <1>3. ASSUME NEW t \in Threads, NEW l, held' = [held EXCEPT ![t] = Remove(@, l)]
        PROVE  OneOwner'
    BY <1>2, <1>3 DEF Remove, TypeOK
  <1>4. ASSUME UNCHANGED held
        PROVE  OneOwner'
    BY <1>4 DEF OneOwner
  <1> QED
    <2>1. ASSUME NEW t \in Threads, ThreadStep(t)
          PROVE  OneOwner'
      BY <2>1, <1>1, <1>3, <1>4
      DEF ThreadStep, InstructionBegin, InstructionEnd, AccessWrite, AccessPrint,
          AccessSync, LockCall, LockBefore, LockInsert, LockNoted, UnlockCall,
          UnlockBefore, UnlockErase, UnlockNoted, Release, UnlockUnseen, CondWait
    <2> QED
      BY <2>1, <1>4 DEF Next, vars

LEMMA AlwaysOneOwner == Spec => []OneOwner
  <1>1. Init => OneOwner
    BY EmptyMap DEF Init, OneOwner
  <1> QED
    BY <1>1, NextOneOwner, TypeCorrect, PTL DEF Spec

-----------------------------------------------------------------------------
(* The record agrees with the locks held.                                  *)

\* Agree(u) depends on u's own part of the state only.
LEMMA AgreeFrame ==
  ASSUME NEW u \in Threads, Agree(u),
         pc'[u] = pc[u], want'[u] = want[u], held'[u] = held[u],
         u \in DOMAIN syncs' <=> u \in DOMAIN syncs,
         u \in DOMAIN syncs => syncs'[u] = syncs[u]
  PROVE  Agree(u)'
  BY DEF Agree, AgreeBut, Listed

\* A step of another thread is such a step for u.
LEMMA AgreeOthers ==
  ASSUME TypeOK, NEW t \in Threads, ThreadStep(t), NEW u \in Threads \ {t}, Agree(u)
  PROVE  Agree(u)'
  <1>1. pc'[u] = pc[u] /\ want'[u] = want[u] /\ held'[u] = held[u]
    BY DEF TypeOK, ThreadStep, InstructionBegin, InstructionEnd, AccessWrite,
           AccessPrint, AccessSync, LockCall, LockBefore, LockInsert, LockNoted, Acquire,
           UnlockCall, UnlockBefore, UnlockErase, UnlockNoted, Release, UnlockUnseen,
           CondWait, CondWake, Goto
  <1>2. /\ u \in DOMAIN syncs' <=> u \in DOMAIN syncs
        /\ u \in DOMAIN syncs => syncs'[u] = syncs[u]
    BY DEF ThreadStep, InstructionBegin, InstructionEnd, AccessWrite,
           AccessPrint, AccessSync, LockCall, LockBefore, LockInsert, LockNoted, Acquire,
           UnlockCall, UnlockBefore, UnlockErase, UnlockNoted, Release, UnlockUnseen,
           CondWait, CondWake, Put, Remove
  <1> QED
    BY <1>1, <1>2, AgreeFrame

\* The step of t itself, action by action.
LEMMA AgreeOwn ==
  ASSUME TypeOK, ~ub, NEW t \in Threads, ThreadStep(t), Agree(t)
  PROVE  Agree(t)'
  <1> USE DEF TypeOK, Goto
  <1>1. ASSUME UNCHANGED <<want, held, syncs>>, pc[t] \in Tracing, pc'[t] \in Tracing
        PROVE  Agree(t)'
    BY <1>1 DEF Agree, Tracing, Listed
  <1>2. ASSUME LockBefore(t)
        PROVE  Agree(t)'
    <2>1. /\ pc[t] = "recording" /\ want[t].lock \notin DOMAIN held[t]
          /\ want' = want /\ held' = held
      BY <1>2 DEF LockBefore, Agree
    <2>2. CASE t \in DOMAIN syncs
      <3>1. /\ pc'[t] = "noting"
            /\ t \in DOMAIN syncs'
            /\ syncs'[t] = Put(syncs[t], want[t].lock, want[t].type)
        BY <1>2, <2>2 DEF LockBefore
      <3> QED
        BY <2>1, <2>2, <3>1 DEF Agree, AgreeBut, Tracing, InRecord, Listed, Put
    <2>3. CASE t \notin DOMAIN syncs
      BY <1>2, <2>1, <2>3 DEF LockBefore, Agree, Tracing, Listed
    <2> QED
      BY <2>2, <2>3
  <1>3. ASSUME LockInsert(t)
        PROVE  Agree(t)'
    <2>1. /\ pc[t] = "inserting" /\ pc'[t] = "noting"
          /\ t \in DOMAIN syncs'
          /\ syncs'[t] = Put(Empty, want[t].lock, want[t].type)
          /\ want' = want /\ held' = held
      BY <1>3 DEF LockInsert, Put
    <2> QED
      BY <2>1, EmptyMap DEF Agree, AgreeBut, Tracing, Listed, Put
  <1>4. ASSUME Acquire(t) \/ CondWake(t)
        PROVE  Agree(t)'
    <2>1. /\ pc[t] \in {"acquiring", "cond_waiting"} /\ pc'[t] = "run"
          /\ held'[t] = Put(held[t], want[t].lock, want[t].type)
          /\ syncs' = syncs
      BY <1>4 DEF Acquire, CondWake
    <2> QED
      BY <2>1 DEF Agree, AgreeBut, Tracing, Listed, Put
  <1>5. ASSUME UnlockBefore(t)
        PROVE  Agree(t)'
    <2> DEFINE l == want[t].lock
    <2>1. pc[t] = "removing" /\ l \in DOMAIN held[t] /\ want' = want /\ held' = held
      BY <1>5 DEF UnlockBefore, Agree
    <2>2. t \in DOMAIN syncs /\ l \in DOMAIN syncs[t]
      BY <2>1 DEF Agree, Tracing, Listed
    <2>3. /\ t \in DOMAIN syncs' /\ syncs'[t] = Remove(syncs[t], l)
          /\ pc'[t] = IF DOMAIN syncs[t] = {l} THEN "erasing" ELSE "unnoting"
      BY <1>5, <2>2 DEF UnlockBefore, Listed
    <2>4. /\ \A k \in DOMAIN held[t] : k \in DOMAIN syncs[t] /\ syncs[t][k] = held[t][k]
          /\ DOMAIN syncs[t] \cap Exclusive \subseteq DOMAIN held[t]
      BY <2>1, <2>2 DEF Agree, Tracing, Listed
    <2>5. DOMAIN syncs'[t] = DOMAIN syncs[t] \ {l}
      BY <2>3 DEF Remove
    <2>6. CASE DOMAIN syncs[t] = {l}
      BY <2>1, <2>3, <2>4, <2>5, <2>6 DEF Agree, Tracing, InRecord, Listed
    <2>7. CASE DOMAIN syncs[t] # {l}
      <3>1. pc'[t] = "unnoting" /\ DOMAIN syncs'[t] # {}
        BY <2>2, <2>3, <2>5, <2>7
      <3>2. AgreeBut(t, l)'
        BY <2>1, <2>3, <2>4, <2>5 DEF AgreeBut, Listed, Remove
      <3>3. want'[t].lock = l /\ Listed(t)' = DOMAIN syncs'[t]
        BY <2>1, <2>3 DEF Listed
      <3> QED
        BY <2>5, <3>1, <3>2, <3>3 DEF Agree, Tracing, InRecord, AgreeBut
    <2> QED
      BY <2>6, <2>7
  <1>6. ASSUME UnlockErase(t)
        PROVE  Agree(t)'
    <2>1. /\ pc[t] = "erasing" /\ pc'[t] = "unnoting"
          /\ t \notin DOMAIN syncs' /\ want' = want /\ held' = held
      BY <1>6 DEF UnlockErase, Remove
    <2> QED
      BY <2>1 DEF Agree, AgreeBut, Tracing, InRecord, Listed
  <1>7. ASSUME Release(t)
        PROVE  Agree(t)'
    <2>1. /\ pc[t] = "releasing" /\ pc'[t] = "run"
          /\ held'[t] = Remove(held[t], want[t].lock) /\ syncs' = syncs
      BY <1>7 DEF Release
    <2> QED
      BY <2>1 DEF Agree, AgreeBut, Tracing, Listed, Remove
  <1>8. ASSUME NEW l \in Locks, UnlockUnseen(t, l)
        PROVE  Agree(t)'
    <2>1. l \notin Exclusive
      BY <1>8, MemTrackerAssumption
      DEF UnlockUnseen, HookedUnlocks, IsLockMap, Requests, Exclusive
    <2>2. /\ pc[t] = "run" /\ pc' = pc
          /\ held'[t] = Remove(held[t], l) /\ syncs' = syncs
      BY <1>8 DEF UnlockUnseen
    <2> QED
      BY <2>1, <2>2 DEF Agree, Tracing, Listed, Remove
  <1>9. ASSUME NEW m \in Mutexes, CondWait(t, m)
        PROVE  Agree(t)'
    <2>1. /\ pc[t] = "run" /\ pc'[t] = "cond_waiting" /\ m \in DOMAIN held[t]
          /\ held'[t] = Remove(held[t], m) /\ syncs' = syncs
          /\ want'[t] = [lock |-> m, type |-> "mutex"]
      BY <1>9 DEF CondWait
    <2>2. held[t][m] = "mutex"
      BY <2>1, RequestFacts DEF IsLockMap
    <2> QED
      BY <2>1, <2>2 DEF Agree, AgreeBut, Tracing, Listed, Remove
  <1>10. ASSUME NEW r \in Requests, LockCall(t, r)
         PROVE  Agree(t)'
    <2>1. /\ pc[t] = "run" /\ pc'[t] = "recording" /\ r.lock \notin DOMAIN held[t]
          /\ want'[t] = r /\ held' = held /\ syncs' = syncs
      BY <1>10 DEF LockCall
    <2> QED
      BY <2>1 DEF Agree, Tracing, InRecord, Listed
  <1>11. ASSUME NEW l \in Locks, UnlockCall(t, l)
         PROVE  Agree(t)'
    <2>1. /\ pc[t] = "run" /\ pc'[t] = "removing" /\ l \in DOMAIN held[t]
          /\ want'[t] = [lock |-> l, type |-> held[t][l]]
          /\ held' = held /\ syncs' = syncs
      BY <1>11 DEF UnlockCall
    <2> QED
      BY <2>1 DEF Agree, Tracing, InRecord, Listed
  <1>12. ASSUME LockNoted(t) \/ UnlockNoted(t)
         PROVE  Agree(t)'
    <2>1. /\ \/ pc[t] = "noting" /\ pc'[t] = "acquiring"
             \/ pc[t] = "unnoting" /\ pc'[t] = "releasing"
          /\ want' = want /\ held' = held /\ syncs' = syncs
      BY <1>12 DEF LockNoted, UnlockNoted
    <2> QED
      BY <2>1 DEF Agree, AgreeBut, Tracing, InRecord, Listed
  <1> QED
    BY <1>1, <1>2, <1>3, <1>4, <1>5, <1>6, <1>7, <1>8, <1>9, <1>10, <1>11, <1>12
    DEF ThreadStep, InstructionBegin, InstructionEnd, AccessWrite, AccessPrint,
        AccessSync, Tracing, InRecord

LEMMA NextAgree == TypeOK /\ AgreeInv /\ [Next]_vars => AgreeInv'
  <1> SUFFICES ASSUME TypeOK, AgreeInv, [Next]_vars, ~ub', NEW u \in Threads
               PROVE  Agree(u)'
    BY DEF AgreeInv
  <1>1. ~ub /\ \A t \in Threads : Agree(t)
    BY DEF AgreeInv, Next, vars
  <1>2. CASE Next
    BY <1>1, <1>2, AgreeOwn, AgreeOthers DEF Next
  <1>3. CASE UNCHANGED vars
    BY <1>1, <1>3, AgreeFrame DEF vars
  <1> QED
    BY <1>2, <1>3

LEMMA AlwaysAgree == Spec => []AgreeInv
  <1>1. Init => AgreeInv
    BY EmptyMap DEF Init, AgreeInv, Agree, Tracing, Listed, Empty
  <1> QED
    BY <1>1, NextAgree, TypeCorrect, PTL DEF Spec

\* Every lock a thread holds is in the records of its accesses, with its type.
THEOREM RecordIsComplete == Spec => []HeldIsListed
  <1>1. AgreeInv => HeldIsListed
    BY DEF AgreeInv, Agree, HeldIsListed
  <1> QED
    BY <1>1, AlwaysAgree, PTL

\* Every mutex or semaphore in the records of a thread's accesses is held.
THEOREM RecordIsSound == Spec => []ListedIsHeld
  <1>1. AgreeInv => ListedIsHeld
    BY DEF AgreeInv, Agree, ListedIsHeld
  <1> QED
    BY <1>1, AlwaysAgree, PTL

\* Accesses recorded at the same time have no mutex or semaphore in common.
THEOREM LocksetsExclude == Spec => []TraceExclusion
  <1>1. AgreeInv /\ OneOwner => TraceExclusion
    BY DEF AgreeInv, Agree, OneOwner, TraceExclusion, Tracing, InRecord
  <1> QED
    BY <1>1, AlwaysAgree, AlwaysOneOwner, PTL

\* A record that says "synchronous access" names at least one lock.
THEOREM SynchronousIsMeant == Spec => []SynchronousHasLocks
  <1>1. TypeOK /\ AgreeInv => SynchronousHasLocks
    BY DEF TypeOK, AgreeInv, Agree, SynchronousHasLocks, Tracing
  <1> QED
    BY <1>1, AlwaysAgree, TypeCorrect, PTL

\* Only overlapping callbacks lead a program that unlocks what it holds to
\* undefined behaviour: unlock_func never erases end().
THEOREM UndefinedByOverlap == Spec => OnlyOverlapIsUndefined
  <1> DEFINE Overlap == \E t \in Threads : SyncsBusy(t) \/ InslistBusy(t)
  <1>1. AgreeInv /\ [Next]_vars => [ub' => Overlap]_vars
    <2> SUFFICES ASSUME AgreeInv, ~ub, ub', NEW t \in Threads, ThreadStep(t)
                 PROVE  Overlap
      BY DEF Next
    <2>1. CASE UnlockBefore(t)
      <3>1. t \in DOMAIN syncs => want[t].lock \in DOMAIN syncs[t]
        BY <2>1 DEF AgreeInv, Agree, Listed, UnlockBefore
      <3> QED
        BY <2>1, <3>1 DEF UnlockBefore
    <2>2. ub' = ub \/ ub' = SyncsBusy(t) \/ ub' = InslistBusy(t) \/ UnlockBefore(t)
      BY DEF ThreadStep, InstructionBegin, InstructionEnd, AccessWrite, AccessPrint,
             AccessSync, LockCall, LockBefore, LockInsert, LockNoted, Acquire,
             UnlockCall, UnlockErase, UnlockNoted, Release, UnlockUnseen, CondWait,
             CondWake
    <2> QED
      BY <2>1, <2>2
  <1> QED
    BY <1>1, AlwaysAgree, PTL DEF Spec, OnlyOverlapIsUndefined

-----------------------------------------------------------------------------
(* The addresses printed.                                                  *)

LEMMA NextPrint == TypeOK /\ PrintInv /\ [Next]_vars => PrintInv'
  <1> SUFFICES ASSUME TypeOK, PrintInv, [Next]_vars PROVE PrintInv'
    OBVIOUS
  <1> USE DEF PrintInv, OneInstrumenter, Printable, PrintedWasAccessed, TypeOK, Goto
  <1>1. ASSUME NEW t \in Threads, NEW i \in Instrs, InstructionBegin(t, i)
        PROVE  PrintInv'
    <2>1. OneInstrumenter'
      BY <1>1 DEF InstructionBegin, InslistBusy
    <2>2. Printable' /\ PrintedWasAccessed'
      BY <1>1 DEF InstructionBegin
    <2> QED
      BY <2>1, <2>2
  <1>2. ASSUME NEW t \in Threads, InstructionEnd(t)
        PROVE  PrintInv'
    <2>1. \A u \in Threads : pc'[u] # "instrumenting"
      BY <1>2 DEF InstructionEnd
    <2>2. \A i \in DOMAIN inslist : inslist'[i] = inslist[i]
      BY <1>2 DEF InstructionEnd, Put
    <2>3. Printable' /\ PrintedWasAccessed'
      BY <1>2, <2>2 DEF InstructionEnd
    <2> QED
      BY <2>1, <2>3
  <1>3. ASSUME NEW t \in Threads, NEW i \in Instrs, NEW ea \in Operands(i),
               AccessWrite(t, i, ea)
        PROVE  PrintInv'
    <2>1. OneInstrumenter' /\ PrintedWasAccessed'
      BY <1>3 DEF AccessWrite
    <2>2. Printable'
      BY <1>3 DEF AccessWrite
    <2> QED
      BY <2>1, <2>2
  <1>4. ASSUME NEW t \in Threads, AccessPrint(t)
        PROVE  PrintInv'
    <2>1. OneInstrumenter' /\ Printable'
      BY <1>4 DEF AccessPrint
    <2>2. ASSUME NEW k \in DOMAIN trace', trace'[k].part = "event"
          PROVE  trace'[k].memOp \in Operands(trace'[k].ins)
      BY <1>4, <2>2 DEF AccessPrint, Operands
    <2> QED
      BY <2>1, <2>2 DEF Operands
  <1>5. ASSUME NEW t \in Threads, AccessSync(t)
        PROVE  PrintInv'
    <2>1. OneInstrumenter' /\ Printable'
      BY <1>5 DEF AccessSync
    <2>2. ASSUME NEW k \in DOMAIN trace', trace'[k].part = "event"
          PROVE  trace'[k].memOp \in Operands(trace'[k].ins)
      BY <1>5, <2>2 DEF AccessSync, Operands
    <2> QED
      BY <2>1, <2>2 DEF Operands
  <1>6. ASSUME NEW t \in Threads, UNCHANGED <<cur, inslist, trace>>,
               pc' = pc \/ \E x \in Labels \ {"instrumenting", "printing", "syncing"} :
                             pc' = [pc EXCEPT ![t] = x]
        PROVE  PrintInv'
    BY <1>6
  <1>7. CASE UNCHANGED vars
    BY <1>7 DEF vars
  <1> QED
    <2>1. ASSUME NEW t \in Threads, ThreadStep(t)
          PROVE  PrintInv'
      <3>1. CASE \/ LockBefore(t) \/ LockInsert(t) \/ LockNoted(t) \/ Acquire(t)
                 \/ UnlockBefore(t) \/ UnlockErase(t) \/ UnlockNoted(t) \/ Release(t)
                 \/ CondWake(t) \/ (\E m \in Mutexes : CondWait(t, m))
                 \/ (\E r \in Requests : LockCall(t, r))
                 \/ (\E l \in Locks : UnlockCall(t, l) \/ UnlockUnseen(t, l))
        BY <3>1, <1>6
        DEF LockCall, LockBefore, LockInsert, LockNoted, Acquire, UnlockCall,
            UnlockBefore, UnlockErase, UnlockNoted, Release, UnlockUnseen, CondWait,
            CondWake, Labels, InRecord, InNotice
      <3> QED
        BY <2>1, <1>1, <1>2, <1>3, <1>4, <1>5, <3>1 DEF ThreadStep
    <2> QED
      BY <2>1, <1>7 DEF Next

\* A memory access is printed with an address its instruction did access, any
\* other instruction with -1; no uninitialised memOp is ever printed.
THEOREM PrintedIsAccessed == Spec => []PrintedWasAccessed
  <1>1. Init => PrintInv
    BY DEF Init, PrintInv, OneInstrumenter, Printable, PrintedWasAccessed
  <1>2. PrintInv => PrintedWasAccessed
    BY DEF PrintInv
  <1> QED
    BY <1>1, <1>2, NextPrint, TypeCorrect, PTL DEF Spec

-----------------------------------------------------------------------------
(* The parts of the records on std::cout.                                  *)

\* Until records are mixed, one thread at a time is in one ...
OneRecorder ==
  ~mixed => \A t, u \in Threads : pc[t] \in InRecord /\ pc[u] \in InRecord => t = u

\* ... and the trace has its event alone, after whole records.
Whole ==
  /\ (\A t \in Threads : pc[t] # "syncing") => \E n \in Nat : Len(trace) = 2 * n
  /\ \A t \in Threads : pc[t] = "syncing" =>
       \E n \in Nat : /\ Len(trace) = 2 * n + 1
                      /\ trace[2 * n + 1].thread = t
                      /\ trace[2 * n + 1].ins = cur[t].ins

WholeInv == OneRecorder /\ (~mixed => Whole)

\* A step by which nobody enters or leaves dataman, or prints.
LEMMA WholeFrame ==
  ASSUME WholeInv, mixed' = mixed, trace' = trace,
         \A u \in Threads : /\ pc'[u] \in InRecord <=> pc[u] \in InRecord
                            /\ pc'[u] = "syncing" <=> pc[u] = "syncing"
                            /\ pc[u] = "syncing" => cur'[u].ins = cur[u].ins
  PROVE  WholeInv'
  <1>1. OneRecorder'
    BY DEF WholeInv, OneRecorder
  <1>2. ASSUME ~mixed
        PROVE  Whole'
    <2>1. (\A t \in Threads : pc'[t] # "syncing") => \E n \in Nat : Len(trace') = 2 * n
      BY <1>2 DEF WholeInv, Whole
    <2>2. ASSUME NEW t \in Threads, pc'[t] = "syncing"
          PROVE  \E n \in Nat : /\ Len(trace') = 2 * n + 1
                               /\ trace'[2 * n + 1].thread = t
                               /\ trace'[2 * n + 1].ins = cur'[t].ins
      <3>1. cur'[t].ins = cur[t].ins /\ pc[t] = "syncing"
        BY <2>2
      <3> QED
        BY <1>2, <3>1 DEF WholeInv, Whole
    <2> QED
      BY <2>1, <2>2 DEF Whole
  <1> QED
    BY <1>1, <1>2 DEF WholeInv

LEMMA NextWhole == TypeOK /\ WholeInv /\ [Next]_vars => WholeInv'
  <1> SUFFICES ASSUME TypeOK, WholeInv, [Next]_vars PROVE WholeInv'
    OBVIOUS
  <1> USE DEF TypeOK, Goto
  <1>1. ASSUME NEW t \in Threads, NEW i \in Instrs, NEW ea \in Operands(i),
               AccessWrite(t, i, ea)
        PROVE  WholeInv'
    <2>1. /\ pc[t] = "run" /\ pc' = [pc EXCEPT ![t] = "printing"] /\ trace' = trace
          /\ \A u \in Threads \ {t} : cur'[u] = cur[u]
          /\ mixed' = (mixed \/ Others(t, InRecord \cup InNotice))
      BY <1>1 DEF AccessWrite
    <2>2. OneRecorder'
      BY <2>1 DEF WholeInv, OneRecorder, InRecord, Others
    <2>3. ~mixed' => Whole'
      BY <2>1 DEF WholeInv, Whole
    <2> QED
      BY <2>2, <2>3 DEF WholeInv
  <1>2. ASSUME NEW t \in Threads, AccessPrint(t)
        PROVE  WholeInv'
    <2> DEFINE e == [part |-> "event", thread |-> t, ins |-> cur[t].ins,
                     memOp |-> inslist[cur[t].ins]]
    <2>1. /\ pc[t] = "printing" /\ pc' = [pc EXCEPT ![t] = "syncing"]
          /\ trace' = Append(trace, e) /\ mixed' = mixed
          /\ cur'[t].ins = cur[t].ins
      BY <1>2 DEF AccessPrint
    <2>2. OneRecorder'
      BY <2>1 DEF WholeInv, OneRecorder, InRecord
    <2>3. ASSUME ~mixed
          PROVE  Whole'
      <3>1. \A u \in Threads : pc[u] # "syncing"
        BY <2>1, <2>3 DEF WholeInv, OneRecorder, InRecord
      <3>2. PICK n \in Nat : Len(trace) = 2 * n
        BY <2>3, <3>1 DEF WholeInv, Whole
      <3>3. e.thread = t /\ e.ins = cur[t].ins
        OBVIOUS
      <3>4. Len(trace') = 2 * n + 1 /\ trace'[2 * n + 1] = e
        <4> HIDE DEF e
        <4> QED
          BY <2>1, <3>2
      <3>5. \A u \in Threads : pc'[u] = "syncing" <=> u = t
        BY <2>1, <3>1
      <3> HIDE DEF e
      <3> QED
        BY <2>1, <3>3, <3>4, <3>5 DEF Whole
    <2> QED
      BY <2>1, <2>2, <2>3 DEF WholeInv
  <1>3. ASSUME NEW t \in Threads, AccessSync(t)
        PROVE  WholeInv'
    <2> DEFINE e == [part |-> "sync", locks |-> Listed(t)]
    <2>1. /\ pc[t] = "syncing" /\ pc' = [pc EXCEPT ![t] = "run"]
          /\ trace' = Append(trace, e) /\ mixed' = mixed
      BY <1>3 DEF AccessSync
    <2> HIDE DEF e
    <2>2. OneRecorder'
      BY <2>1 DEF WholeInv, OneRecorder, InRecord
    <2>3. ASSUME ~mixed
          PROVE  Whole'
      <3>1. PICK n \in Nat : Len(trace) = 2 * n + 1
        BY <2>1, <2>3 DEF WholeInv, Whole
      <3>2. Len(trace') = 2 * (n + 1)
        BY <2>1, <3>1
      <3>3. \A u \in Threads : pc'[u] # "syncing"
        BY <2>1, <2>3 DEF WholeInv, OneRecorder, InRecord
      <3>4. \E k \in Nat : Len(trace') = 2 * k
        <4>1. n + 1 \in Nat
          OBVIOUS
        <4> WITNESS n + 1 \in Nat
        <4> QED
          BY <3>2
      <3> QED
        BY <3>3, <3>4 DEF Whole
    <2> QED
      BY <2>1, <2>2, <2>3 DEF WholeInv
  <1>4. ASSUME NEW t \in Threads,
               \/ \E r \in Requests : LockCall(t, r)
               \/ \E l \in Locks : UnlockCall(t, l)
        PROVE  WholeInv'
    <2>1. /\ \E x \in InNotice : pc' = [pc EXCEPT ![t] = x]
          /\ pc[t] = "run" /\ trace' = trace /\ cur' = cur
          /\ mixed' = (mixed \/ Others(t, InRecord))
      BY <1>4 DEF LockCall, UnlockCall, InNotice
    <2>2. \A u \in Threads : /\ pc'[u] \in InRecord <=> pc[u] \in InRecord
                             /\ pc'[u] = "syncing" <=> pc[u] = "syncing"
      BY <2>1 DEF InRecord, InNotice
    <2> QED
      BY <2>1, <2>2 DEF WholeInv, OneRecorder, Whole
  <1>5. ASSUME NEW t \in Threads,
               \/ \E i \in Instrs : InstructionBegin(t, i)
               \/ InstructionEnd(t)
               \/ LockBefore(t) \/ LockInsert(t) \/ LockNoted(t) \/ Acquire(t)
               \/ UnlockBefore(t) \/ UnlockErase(t) \/ UnlockNoted(t) \/ Release(t)
               \/ \E l \in Locks : UnlockUnseen(t, l)
               \/ \E m \in Mutexes : CondWait(t, m)
               \/ CondWake(t)
        PROVE  WholeInv'
    <2>1. /\ pc[t] \notin InRecord
          /\ pc' = pc \/ \E x \in Labels \ InRecord : pc' = [pc EXCEPT ![t] = x]
          /\ trace' = trace /\ mixed' = mixed
          /\ \A u \in Threads \ {t} : cur'[u] = cur[u]
      BY <1>5
      DEF InstructionBegin, InstructionEnd, LockBefore, LockInsert, LockNoted, Acquire,
          UnlockBefore, UnlockErase, UnlockNoted, Release, UnlockUnseen, CondWait,
          CondWake, Labels, InRecord, InNotice
    <2> QED
      BY <2>1, WholeFrame DEF InRecord
  <1>6. CASE UNCHANGED vars
    BY <1>6, WholeFrame DEF vars
  <1> QED
    BY <1>1, <1>2, <1>3, <1>4, <1>5, <1>6 DEF Next, ThreadStep

LEMMA AlwaysWhole == Spec => []WholeInv
  <1>1. Init => WholeInv
    <2> SUFFICES ASSUME Init PROVE WholeInv
      OBVIOUS
    <2>1. Len(trace) = 2 * 0 /\ \A t \in Threads : pc[t] = "run"
      BY DEF Init
    <2> QED
      BY <2>1 DEF WholeInv, OneRecorder, Whole, InRecord
  <1> QED
    BY <1>1, NextWhole, TypeCorrect, PTL DEF Spec

-----------------------------------------------------------------------------
(* MemTracker implements LockTrace.                                        *)

\* The refinement mapping.
Owned == [t \in Threads |-> DOMAIN held[t] \cap Exclusive]
RecordAt(w, k) ==
  [thread |-> w[2 * k - 1].thread, ins |-> w[2 * k - 1].ins,
   locks |-> w[2 * k].locks \cap Exclusive]
RecordsOf(w) == [k \in 1..(Len(w) \div 2) |-> RecordAt(w, k)]

\* The first line of a record adds none.
LEMMA FirstLine ==
  ASSUME NEW w \in Seq(Lines), NEW n \in Nat, Len(w) = 2 * n, NEW e \in Lines
  PROVE  RecordsOf(Append(w, e)) = RecordsOf(w)
  <1>1. Len(Append(w, e)) = 2 * n + 1 /\ \A k \in 1..(2 * n) : Append(w, e)[k] = w[k]
    BY AppendProperties
  <1>2. (2 * n + 1) \div 2 = n /\ (2 * n) \div 2 = n
    OBVIOUS
  <1>3. ASSUME NEW k \in 1..n
        PROVE  RecordAt(Append(w, e), k) = RecordAt(w, k)
    <2>1. 2 * k - 1 \in 1..(2 * n) /\ 2 * k \in 1..(2 * n)
      OBVIOUS
    <2>2. Append(w, e)[2 * k - 1] = w[2 * k - 1] /\ Append(w, e)[2 * k] = w[2 * k]
      BY <1>1, <2>1
    <2> QED
      BY <2>2 DEF RecordAt
  <1> QED
    BY <1>1, <1>2, <1>3 DEF RecordsOf

\* The second completes it.
LEMMA SecondLine ==
  ASSUME NEW w \in Seq(Lines), NEW n \in Nat, Len(w) = 2 * n + 1, NEW e \in Lines
  PROVE  RecordsOf(Append(w, e)) =
           Append(RecordsOf(w), [thread |-> w[2 * n + 1].thread, ins |-> w[2 * n + 1].ins,
                                 locks |-> e.locks \cap Exclusive])
  <1> DEFINE more == Append(w, e)
             new == [thread |-> w[2 * n + 1].thread, ins |-> w[2 * n + 1].ins,
                     locks |-> e.locks \cap Exclusive]
             S == {RecordAt(w, k) : k \in 1..n} \cup {new}
             longer == Append(RecordsOf(w), new)
  <1>1. /\ Len(more) = 2 * n + 2 /\ more[2 * n + 2] = e
        /\ \A k \in 1..(2 * n + 1) : more[k] = w[k]
    BY AppendProperties
  <1>2. (2 * n + 1) \div 2 = n /\ (2 * n + 2) \div 2 = n + 1
    OBVIOUS
  <1>3. RecordsOf(w) \in Seq(S) /\ Len(RecordsOf(w)) = n
        /\ \A k \in 1..n : RecordsOf(w)[k] = RecordAt(w, k)
    BY <1>2 DEF RecordsOf
  <1>4. /\ longer \in Seq(S) /\ Len(longer) = n + 1
        /\ \A k \in 1..n : longer[k] = RecordsOf(w)[k]
        /\ longer[n + 1] = new
    <2>1. new \in S
      OBVIOUS
    <2> HIDE DEF S, new
    <2> QED
      BY <1>3, <2>1, AppendProperties
  <1>5. longer = [k \in 1..(n + 1) |-> longer[k]]
    <2> HIDE DEF S, longer
    <2> QED
      BY <1>4
  <1>6. RecordsOf(more) = [k \in 1..(n + 1) |-> RecordAt(more, k)]
    <2> HIDE DEF more
    <2> QED
      BY <1>1, <1>2 DEF RecordsOf
  <1>7. ASSUME NEW k \in 1..(n + 1)
        PROVE  RecordAt(more, k) = longer[k]
    <2>1. CASE k \in 1..n
      <3>1. 2 * k - 1 \in 1..(2 * n + 1) /\ 2 * k \in 1..(2 * n + 1)
        BY <2>1
      <3>2. more[2 * k - 1] = w[2 * k - 1] /\ more[2 * k] = w[2 * k]
        BY <1>1, <3>1
      <3>3. RecordAt(more, k) = RecordAt(w, k)
        BY <3>2 DEF RecordAt
      <3> HIDE DEF more, longer
      <3> QED
        BY <1>3, <1>4, <2>1, <3>3
    <2>2. CASE k = n + 1
      <3>1. 2 * k - 1 = 2 * n + 1 /\ 2 * k = 2 * n + 2
        BY <2>2
      <3>2. more[2 * k - 1] = w[2 * n + 1] /\ more[2 * k] = e
        BY <1>1, <3>1
      <3>3. RecordAt(more, k) = new
        BY <3>2 DEF RecordAt
      <3> HIDE DEF more, longer, new
      <3> QED
        BY <1>4, <2>2, <3>3
    <2>3. k \in 1..n \/ k = n + 1
      OBVIOUS
    <2> HIDE DEF more, longer
    <2> QED
      BY <2>1, <2>2, <2>3
  <1> HIDE DEF more, longer, S
  <1>8. RecordsOf(more) = longer
    BY <1>5, <1>6, <1>7
  <1> QED
    BY <1>8 DEF more, longer

\* Gaining a lock nobody owns is Take; losing one is Give; a read-write lock
\* is neither.
LEMMA GainIsTake ==
  ASSUME TypeOK, NEW t \in Threads, Acquire(t) \/ CondWake(t), Agree(t)
  PROVE  \/ \E l \in Exclusive : Honest!Take(t, l)
         \/ UNCHANGED <<Owned, Records>>
  <1>1. /\ want[t] \in Requests /\ Available(t, want[t])
        /\ want[t].lock \notin DOMAIN held[t]
        /\ held' = [held EXCEPT ![t] = Put(@, want[t].lock, want[t].type)]
        /\ trace' = trace
    BY DEF TypeOK, Calling, Acquire, CondWake, Agree
  <1>2. /\ DOMAIN held'[t] = DOMAIN held[t] \cup {want[t].lock}
        /\ \A u \in Threads \ {t} : held'[u] = held[u]
    BY <1>1 DEF TypeOK, Put
  <1>3. Records' = Records
    BY <1>1 DEF Records
  <1>4. CASE want[t].lock \in Exclusive
    <2>1. \A u \in Threads : want[t].lock \notin Owned[u]
      BY <1>1, <1>4, RequestFacts DEF Available, Owned
    <2>2. Owned' = [Owned EXCEPT ![t] = @ \cup {want[t].lock}]
      BY <1>2, <1>4 DEF Owned
    <2> QED
      BY <1>3, <1>4, <2>1, <2>2 DEF Honest!Take, Owned
  <1>5. CASE want[t].lock \notin Exclusive
    BY <1>2, <1>3, <1>5 DEF Owned
  <1> QED
    BY <1>4, <1>5

LEMMA LossIsGive ==
  ASSUME TypeOK, NEW t \in Threads, NEW l,
         held' = [held EXCEPT ![t] = Remove(@, l)], trace' = trace
  PROVE  \/ \E k \in Exclusive : Honest!Give(t, k)
         \/ UNCHANGED <<Owned, Records>>
  <1>1. /\ DOMAIN held'[t] = DOMAIN held[t] \ {l}
        /\ \A u \in Threads \ {t} : held'[u] = held[u]
    BY DEF TypeOK, Remove
  <1>2. Owned' = [Owned EXCEPT ![t] = @ \ {l}]
    BY <1>1 DEF Owned
  <1>3. Records' = Records
    BY DEF Records
  <1>4. CASE l \in Owned[t]
    BY <1>2, <1>3, <1>4 DEF Honest!Give, Owned
  <1>5. CASE l \notin Owned[t]
    BY <1>1, <1>3, <1>5 DEF Owned
  <1> QED
    BY <1>4, <1>5

\* Printing the SYNC attribute completes the record: it is the event.
LEMMA SyncIsAccess ==
  ASSUME TypeOK, Whole, NEW t \in Threads, AccessSync(t), Agree(t)
  PROVE  \E i \in Instrs : Honest!Access(t, i)
  <1> DEFINE e == [part |-> "sync", locks |-> Listed(t)]
  <1>1. /\ pc[t] = "syncing" /\ held' = held /\ trace' = Append(trace, e)
        /\ trace \in Seq(Lines)
    BY DEF AccessSync, TypeOK
  <1>2. e \in Lines
    BY DEF Lines, Listed, TypeOK, IsLockMap
  <1>3. PICK n \in Nat : /\ Len(trace) = 2 * n + 1
                         /\ trace[2 * n + 1].thread = t
                         /\ trace[2 * n + 1].ins = cur[t].ins
    BY <1>1 DEF Whole
  <1>4. PICK i \in Instrs : i = cur[t].ins
    BY <1>1 DEF TypeOK
  <1>5. e.locks \cap Exclusive = Owned[t]
    BY <1>1 DEF Agree, Tracing, InRecord, Owned
  <1> HIDE DEF e
  <1>6. RecordsOf(Append(trace, e)) =
          Append(RecordsOf(trace), [thread |-> trace[2 * n + 1].thread,
                                    ins |-> trace[2 * n + 1].ins,
                                    locks |-> e.locks \cap Exclusive])
    BY <1>1, <1>2, <1>3, SecondLine
  <1>7. Records' = Append(Records, [thread |-> t, ins |-> i, locks |-> Owned[t]])
    BY <1>1, <1>3, <1>4, <1>5, <1>6 DEF Records, RecordsOf, RecordAt
  <1>8. Owned' = Owned
    BY <1>1 DEF Owned
  <1>9. Honest!Access(t, i)
    BY <1>7, <1>8 DEF Honest!Access, Owned
  <1> QED
    BY <1>9

\* Printing the event completes none.
LEMMA PrintIsStutter ==
  ASSUME TypeOK, OneRecorder, Whole, ~mixed, NEW t \in Threads, AccessPrint(t)
  PROVE  UNCHANGED <<Owned, Records>>
  <1> DEFINE e == [part |-> "event", thread |-> t, ins |-> cur[t].ins,
                   memOp |-> inslist[cur[t].ins]]
  <1>1. /\ pc[t] = "printing" /\ held' = held /\ trace' = Append(trace, e)
        /\ trace \in Seq(Lines)
    BY DEF AccessPrint, TypeOK
  <1>2. e \in Lines
    BY <1>1 DEF Lines, TypeOK
  <1>3. \A u \in Threads : pc[u] # "syncing"
    BY <1>1 DEF OneRecorder, InRecord
  <1>4. PICK n \in Nat : Len(trace) = 2 * n
    BY <1>3 DEF Whole
  <1> HIDE DEF e
  <1>5. RecordsOf(Append(trace, e)) = RecordsOf(trace)
    BY <1>1, <1>2, <1>4, FirstLine
  <1> QED
    BY <1>1, <1>5 DEF Owned, Records, RecordsOf, RecordAt

LEMMA HonestStep ==
  TypeOK /\ AgreeInv /\ WholeInv /\ ~mixed /\ [Next]_vars
    => [Honest!Next]_<<Owned, Records>>
  <1> SUFFICES ASSUME TypeOK, AgreeInv, WholeInv, ~mixed, [Next]_vars
               PROVE  Honest!Next \/ UNCHANGED <<Owned, Records>>
    OBVIOUS
  <1>1. ASSUME UNCHANGED <<held, trace>>
        PROVE  UNCHANGED <<Owned, Records>>
    BY <1>1 DEF Owned, Records
  <1>2. ASSUME ~ub, NEW t \in Threads, ThreadStep(t)
        PROVE  Honest!Next \/ UNCHANGED <<Owned, Records>>
    <2>1. Agree(t) /\ OneRecorder /\ Whole
      BY <1>2 DEF AgreeInv, WholeInv
    <2>2. CASE Acquire(t) \/ CondWake(t)
      BY <2>1, <2>2, GainIsTake DEF Honest!Next
    <2>3. CASE \/ Release(t)
               \/ \E l \in Locks : UnlockUnseen(t, l)
               \/ \E m \in Mutexes : CondWait(t, m)
      <3>1. trace' = trace /\ \E l : held' = [held EXCEPT ![t] = Remove(@, l)]
        BY <2>3 DEF Release, UnlockUnseen, CondWait
      <3> QED
        BY <3>1, LossIsGive DEF Honest!Next
    <2>4. CASE AccessSync(t)
      BY <2>1, <2>4, SyncIsAccess DEF Honest!Next
    <2>5. CASE AccessPrint(t)
      BY <2>1, <2>5, PrintIsStutter
    <2> QED
      BY <1>1, <1>2, <2>2, <2>3, <2>4, <2>5
      DEF ThreadStep, InstructionBegin, InstructionEnd, AccessWrite, LockCall,
          LockBefore, LockInsert, LockNoted, UnlockCall, UnlockBefore, UnlockErase,
          UnlockNoted
  <1>3. CASE UNCHANGED vars
    BY <1>1, <1>3 DEF vars
  <1> QED
    BY <1>2, <1>3 DEF Next

\* Until dataman overlaps another callback that prints, the trace a reader finds
\* is, for mutexes and semaphores, the one README.md describes: whole events in
\* order, each with exactly the locks its thread holds.
THEOREM ImplementsLockTrace == Spec => HonestTrace
  <1>1. Init => Honest!Init
    BY EmptyMap DEF Init, Honest!Init, Records
  <1>2. [Honest!Next]_<<Owned, Records>> => [Honest!Next]_(Honest!absVars)
    BY DEF Honest!absVars, Owned
  <1>3. TypeOK /\ AgreeInv /\ WholeInv /\ [Next]_vars
        => [~mixed => [Honest!Next]_(Honest!absVars)]_vars
    BY <1>2, HonestStep
  <1> QED
    BY <1>1, <1>3, TypeCorrect, AlwaysAgree, AlwaysWhole, PTL DEF Spec, HonestTrace

=============================================================================
