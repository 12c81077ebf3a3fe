-------------------------- MODULE Recorder_proofs --------------------------
(***************************************************************************)
(* Proofs about Recorder, for any number of threads and callbacks.         *)
(***************************************************************************)
EXTENDS Recorder, FiniteInduction

\* Which callbacks have which labels; threads to come are where they began.
Path ==
  \A t \in Threads :
    /\ pc[t] = "beside" => kind[t] \in {"start", "join", "exit"}
    /\ pc[t] \in {"scan", "scanning"} => kind[t] = "start"
    /\ pc[t] = "creating" => kind[t] = "create"
    /\ t >= born => pc[t] = "unborn" /\ kind[t] = "new"

\* The creations that are recorded and not over.
Underway == {u \in Threads : Creating(u)}

\* td and born stay among the threads: each creation to come has a place.
Counts ==
  /\ td + Cardinality(Announced) <= LastThread
  /\ born - 1 + Cardinality(Underway) <= td

TypeInv == TypeOK /\ Path /\ Counts

-----------------------------------------------------------------------------
(* Finite sets of threads.                                                 *)

LEMMA CardFacts ==
  ASSUME NEW S \in SUBSET Threads, NEW t \in Threads
  PROVE  /\ Cardinality(S) \in Nat
         /\ t \notin S => Cardinality(S \cup {t}) = Cardinality(S) + 1
         /\ t \in S => /\ Cardinality(S) >= 1
                       /\ Cardinality(S \ {t}) = Cardinality(S) - 1
  <1>1. IsFiniteSet(Threads)
    BY FS_Interval, RecorderAssumption DEF Threads
  <1>2. IsFiniteSet(S)
    BY <1>1, FS_Subset
  <1>3. Cardinality(S) \in Nat
    BY <1>2, FS_CardinalityType
  <1>4. ASSUME t \notin S PROVE Cardinality(S \cup {t}) = Cardinality(S) + 1
    BY <1>2, <1>4, FS_AddElement
  <1>5. ASSUME t \in S
        PROVE  Cardinality(S) >= 1 /\ Cardinality(S \ {t}) = Cardinality(S) - 1
    <2>1. Cardinality(S \ {t}) = Cardinality(S) - 1
      BY <1>2, <1>5, FS_RemoveElement
    <2>2. Cardinality(S) # 0
      BY <1>2, <1>5, FS_EmptySet
    <2> QED
      BY <2>1, <2>2, <1>3
  <1> QED
    BY <1>3, <1>4, <1>5

LEMMA Announcing == Announced \in SUBSET Threads /\ Underway \in SUBSET Threads
  BY DEF Announced, Underway

\* td and born are threads while there is a place.
LEMMA InRange ==
  ASSUME TypeOK, Counts
  PROVE  /\ LastThread \in Nat /\ td \in Nat /\ born \in Nat
         /\ Cardinality(Announced) \in Nat /\ Cardinality(Underway) \in Nat
         /\ \A t \in Announced : td + 1 \in Threads
         /\ \A t \in Underway : born \in Threads
  <1>1. LastThread \in Nat /\ td \in Nat /\ born \in Nat
    BY RecorderAssumption DEF TypeOK, Threads
  <1>2. 0 \in Threads
    BY <1>1 DEF Threads
  <1>3. Cardinality(Announced) \in Nat /\ Cardinality(Underway) \in Nat
    BY <1>2, Announcing, CardFacts
  <1>4. ASSUME NEW t \in Announced PROVE td + 1 \in Threads
    <2>1. Cardinality(Announced) >= 1
      BY Announcing, CardFacts
    <2> QED
      BY <1>1, <1>3, <2>1 DEF Counts, Threads
  <1>5. ASSUME NEW t \in Underway PROVE born \in Threads
    <2>1. Cardinality(Underway) >= 1
      BY Announcing, CardFacts
    <2> QED
      BY <1>1, <1>3, <2>1 DEF Counts, Threads
  <1> QED
    BY <1>1, <1>3, <1>4, <1>5

-----------------------------------------------------------------------------
(* Type correctness.                                                       *)

LEMMA ContainerType ==
  ASSUME NEW label, NEW k
  PROVE  Container(label, k) \in Containers \cup {"none"}
  BY DEF Container, Containers

\* What Step does.
LEMMA StepFacts ==
  ASSUME TypeOK, NEW t \in Threads, NEW from, NEW to \in Labels, Step(t, from, to)
  PROVE  /\ ub = {} /\ pc[t] = from
         /\ pc' \in [Threads -> Labels]
         /\ pc'[t] = to
         /\ \A u \in Threads \ {t} : pc'[u] = pc[u]
         /\ ub' \subseteq Containers
         /\ Container(to, kind[t]) \notin {Container(pc[u], kind[u]) : u \in Threads \ {t}}
              => ub' = {}
         /\ ub' \subseteq {Container(to, kind[t])}
  <1>1. ub' \subseteq Containers
    BY ContainerType DEF Step
  <1> QED
    BY <1>1 DEF Step, TypeOK

\* A step that leaves kind, td and born and keeps t in the sets it is in.
LEMMA StepKeeps ==
  ASSUME TypeInv, NEW t \in Threads, NEW from, NEW to \in Labels, Step(t, from, to),
         UNCHANGED <<kind, td, born>>, from # "unborn",
         kind[t] = "create" =>
           /\ from \in {"loaded", "waiting", "in"} <=> to \in {"loaded", "waiting", "in"}
           /\ from \in {"releasing", "creating"} <=> to \in {"releasing", "creating"},
         to = "beside" => kind[t] \in {"start", "join", "exit"},
         to \in {"scan", "scanning"} => kind[t] = "start",
         to = "creating" => kind[t] = "create"
  PROVE  Path' /\ Counts'
  <1>1. TypeOK /\ Path /\ Counts
    BY DEF TypeInv
  <1>2. pc[t] = from /\ pc'[t] = to /\ \A u \in Threads \ {t} : pc'[u] = pc[u]
    BY <1>1, StepFacts
  <1>3. Announced' = Announced
    BY <1>2 DEF Announced
  <1>4. Underway' = Underway
    BY <1>2 DEF Underway, Creating
  <1>5. Path'
    BY <1>1, <1>2 DEF Path
  <1> QED
    BY <1>1, <1>3, <1>4, <1>5 DEF Counts

LEMMA InitType == Init => TypeInv
  <1> SUFFICES ASSUME Init PROVE TypeInv
    OBVIOUS
  <1>1. LastThread \in Nat /\ 0 \in Threads
    BY RecorderAssumption DEF Threads
  <1>2. TypeOK
    <2>1. /\ pc \in [Threads -> Labels] /\ kind \in [Threads -> Kinds]
          /\ counter \in Nat /\ counter1 \in [Threads -> Nat]
          /\ lock \in Threads \cup {Free} /\ td \in Threads /\ ub \subseteq Containers
      BY <1>1 DEF Init, Labels, Kinds
    <2>2. keys \in [Threads -> Seq(Nat)]
      BY DEF Init
    <2>3. DOMAIN accessmap = {}
      BY DEF Init
    <2>4. born \in 1..(LastThread + 1)
      BY <1>1 DEF Init
    <2>5. given \in [Threads -> Threads] /\ named \in [Threads -> Threads]
      BY <1>1 DEF Init
    <2>6. raced \in BOOLEAN /\ seized \in BOOLEAN /\ crossed \in BOOLEAN
      BY DEF Init
    <2> QED
      BY <2>1, <2>2, <2>3, <2>4, <2>5, <2>6 DEF TypeOK
  <1>3. Path
    BY <1>1 DEF Init, Path, Threads
  <1>4. Announced = {} /\ Underway = {}
    BY DEF Init, Announced, Underway, Creating
  <1>5. Cardinality({}) = 0
    BY FS_EmptySet
  <1>6. Counts
    BY <1>1, <1>4, <1>5 DEF Init, Counts
  <1> QED
    BY <1>2, <1>3, <1>6 DEF TypeInv

LEMMA LoadType ==
  ASSUME TypeInv, NEW t \in Threads, NEW k \in Kinds, Load(t, k)
  PROVE  TypeInv'
  <1>1. TypeOK /\ Path /\ Counts
    BY DEF TypeInv
  <1>2. TypeOK'
    BY <1>1 DEF Load, TypeOK, Labels
  <1>3. k \notin {"new"} /\ pc[t] \in {"fresh", "idle"}
        /\ pc'[t] = "loaded" /\ kind'[t] = k
        /\ \A u \in Threads \ {t} : pc'[u] = pc[u] /\ kind'[u] = kind[u]
    BY <1>1 DEF Load, NextKinds, TypeOK
  <1>4. Path'
    BY <1>1, <1>3 DEF Path, Load
  <1>5. Underway' = Underway
    BY <1>3 DEF Underway, Creating
  <1>6. t \notin Announced
    BY <1>3 DEF Announced
  <1>7. td' = td /\ born' = born
    BY DEF Load
  <1>8. CASE k = "create"
    <2>1. Announced' = Announced \cup {t}
      BY <1>3, <1>8 DEF Announced
    <2>2. td + Cardinality(Announced) < LastThread
      BY <1>8 DEF Load, NextKinds
    <2>3. Cardinality(Announced') = Cardinality(Announced) + 1
      BY <2>1, <1>6, CardFacts, Announcing
    <2> QED
      BY <1>1, <1>2, <1>4, <1>5, <1>7, <2>2, <2>3, InRange DEF TypeInv, Counts
  <1>9. CASE k # "create"
    <2>1. Announced' = Announced
      BY <1>3, <1>9 DEF Announced
    <2> QED
      BY <1>1, <1>2, <1>4, <1>5, <1>7, <2>1 DEF TypeInv, Counts
  <1> QED
    BY <1>8, <1>9

LEMMA RecordType ==
  ASSUME TypeInv, NEW t \in Threads, Insert(t)
  PROVE  TypeInv'
  <1> DEFINE creates == kind[t] = "create"
             child == IF creates THEN td + 1 ELSE 0
             to == IF kind[t] = "start" /\ t # 0 THEN "scan" ELSE "releasing"
             e == [tid |-> t, n |-> Len(keys[t]) + 1, child |-> child]
  <1>1. TypeOK /\ Path /\ Counts
    BY DEF TypeInv
  <1>2. /\ kind[t] # "new" /\ Step(t, "in", to)
        /\ accessmap' = Inserting(counter1[t], e)
        /\ keys' = [keys EXCEPT ![t] = Append(@, counter1[t])]
        /\ td' = IF creates THEN td + 1 ELSE td
        /\ given' = [given EXCEPT ![t] = child]
        /\ crossed' \in BOOLEAN
        /\ UNCHANGED <<kind, counter, counter1, lock, born, raced, seized, named>>
    BY DEF Insert, Record
  <1>3. to \in Labels
    BY DEF Labels
  <1>4. /\ pc[t] = "in" /\ pc'[t] = to
        /\ pc' \in [Threads -> Labels] /\ ub' \subseteq Containers
        /\ \A u \in Threads \ {t} : pc'[u] = pc[u]
    BY <1>1, <1>2, <1>3, StepFacts
  <1>5. creates => t \in Announced
    BY <1>4 DEF Announced
  <1>6. child \in Threads /\ td' \in Threads
    <2>1. 0 \in Threads
      BY RecorderAssumption DEF Threads
    <2> QED
      BY <2>1, <1>1, <1>2, <1>5, InRange DEF TypeOK
  <1>7. TypeOK'
    <2>1. counter1[t] \in Nat /\ keys[t] \in Seq(Nat)
      BY <1>1 DEF TypeOK
    <2>2. Append(keys[t], counter1[t]) \in Seq(Nat) /\ Len(keys[t]) + 1 \in Nat
      BY <2>1
    <2>3. keys' \in [Threads -> Seq(Nat)]
      BY <2>2, <1>1, <1>2 DEF TypeOK
    <2>4. given' \in [Threads -> Threads]
      BY <1>1, <1>2, <1>6 DEF TypeOK
    <2>5. e \in [tid : Threads, n : Nat, child : Threads]
      BY <2>2, <1>6
    <2>6. DOMAIN accessmap' = DOMAIN accessmap \cup {counter1[t]}
      BY <1>2 DEF Inserting
    <2>7. \A k \in DOMAIN accessmap' : accessmap'[k] \in [tid : Threads, n : Nat, child : Threads]
      BY <2>5, <1>1, <1>2 DEF Inserting, TypeOK
    <2>8. DOMAIN accessmap' \subseteq Nat
      BY <2>1, <2>6, <1>1 DEF TypeOK
    <2> QED
      BY <2>3, <2>4, <2>7, <2>8, <1>1, <1>2, <1>4, <1>6 DEF TypeOK
  <1>8. Path'
    BY <1>1, <1>2, <1>4 DEF Path
  <1>9. Counts'
    <2>1. CASE creates
      <3>1. Announced' = Announced \ {t}
        BY <2>1, <1>2, <1>4 DEF Announced
      <3>2. Underway' = Underway \cup {t} /\ t \notin Underway
        BY <2>1, <1>2, <1>4 DEF Underway, Creating
      <3>3. Cardinality(Announced') = Cardinality(Announced) - 1
        BY <3>1, <1>5, <2>1, CardFacts, Announcing
      <3>4. Cardinality(Underway') = Cardinality(Underway) + 1
        BY <3>2, CardFacts, Announcing
      <3> QED
        BY <3>3, <3>4, <2>1, <1>1, <1>2, InRange DEF Counts
    <2>2. CASE ~creates
      <3>1. Announced' = Announced /\ Underway' = Underway
        BY <2>2, <1>2, <1>4 DEF Announced, Underway, Creating
      <3> QED
        BY <3>1, <2>2, <1>1, <1>2 DEF Counts
    <2> QED
      BY <2>1, <2>2
  <1> QED
    BY <1>7, <1>8, <1>9 DEF TypeInv

LEMMA SpawnType ==
  ASSUME TypeInv, NEW t \in Threads, Spawn(t)
  PROVE  TypeInv'
  <1>1. TypeOK /\ Path /\ Counts
    BY DEF TypeInv
  <1>2. pc[t] = "creating" /\ kind[t] = "create" /\ t \in Underway
    BY <1>1 DEF Spawn, Path, Underway, Creating
  <1>3. born \in Threads
    BY <1>1, <1>2, InRange
  <1>4. pc[born] = "unborn" /\ kind[born] = "new"
    BY <1>1, <1>3, InRange DEF Path
  <1>5. /\ pc'[t] = "idle" /\ pc'[born] = "waiting"
        /\ \A u \in Threads \ {t, born} : pc'[u] = pc[u]
        /\ pc' \in [Threads -> Labels]
    BY <1>1, <1>2, <1>3, <1>4 DEF Spawn, TypeOK, Labels
  <1>6. born' = born + 1 /\ kind' = kind /\ td' = td
    BY DEF Spawn
  <1>7. TypeOK'
    <2>1. named' \in [Threads -> Threads]
      BY <1>1, <1>3 DEF Spawn, TypeOK
    <2>2. born' \in 1..(LastThread + 1)
      BY <1>1, <1>3, <1>6, InRange DEF TypeOK, Threads
    <2> QED
      BY <2>1, <2>2, <1>1, <1>5 DEF Spawn, TypeOK
  <1>8. Path'
    BY <1>1, <1>2, <1>3, <1>4, <1>5, <1>6, InRange DEF Path, Threads
  <1>9. Announced' = Announced /\ Underway' = Underway \ {t}
    BY <1>2, <1>4, <1>5, <1>6 DEF Announced, Underway, Creating
  <1>10. Cardinality(Underway') = Cardinality(Underway) - 1
    BY <1>2, <1>9, CardFacts, Announcing
  <1>11. Counts'
    BY <1>1, <1>6, <1>9, <1>10, InRange DEF Counts
  <1> QED
    BY <1>7, <1>8, <1>11 DEF TypeInv

LEMMA SpawnFailType ==
  ASSUME TypeInv, NEW t \in Threads, SpawnFail(t)
  PROVE  TypeInv'
  <1>1. TypeOK /\ Path /\ Counts
    BY DEF TypeInv
  <1>2. "idle" \in Labels /\ Step(t, "creating", "idle")
    BY DEF SpawnFail, Labels
  <1>3. /\ pc[t] = "creating" /\ pc'[t] = "idle"
        /\ pc' \in [Threads -> Labels] /\ ub' \subseteq Containers
        /\ \A u \in Threads \ {t} : pc'[u] = pc[u]
    BY <1>1, <1>2, StepFacts
  <1>4. kind[t] = "create" /\ t \in Underway
    BY <1>1, <1>3 DEF Path, Underway, Creating
  <1>5. TypeOK'
    BY <1>1, <1>3 DEF SpawnFail, TypeOK
  <1>6. Path'
    BY <1>1, <1>3 DEF SpawnFail, Path
  <1>7. Announced' = Announced /\ Underway' = Underway \ {t}
    BY <1>3 DEF SpawnFail, Announced, Underway, Creating
  <1>8. Cardinality(Underway') = Cardinality(Underway) - 1
    BY <1>4, <1>7, CardFacts, Announcing
  <1>9. Counts'
    BY <1>1, <1>7, <1>8, InRange DEF SpawnFail, Counts
  <1> QED
    BY <1>5, <1>6, <1>9 DEF TypeInv

\* The actions that move t in its callback and change the counter or the lock.
LEMMA MoveType ==
  ASSUME TypeInv, NEW t \in Threads, NEW from, NEW to \in Labels, Step(t, from, to),
         from # "unborn",
         kind[t] = "create" =>
           /\ from \in {"loaded", "waiting", "in"} <=> to \in {"loaded", "waiting", "in"}
           /\ from \in {"releasing", "creating"} <=> to \in {"releasing", "creating"},
         to = "beside" => kind[t] \in {"start", "join", "exit"},
         to \in {"scan", "scanning"} => kind[t] = "start",
         to = "creating" => kind[t] = "create",
         counter' \in Nat, lock' \in Threads \cup {Free}, seized' \in BOOLEAN,
         UNCHANGED <<kind, counter1, accessmap, td, born, keys, raced, given, named, crossed>>
  PROVE  TypeInv'
  <1>1. Path' /\ Counts'
    BY StepKeeps
  <1>2. pc' \in [Threads -> Labels] /\ ub' \subseteq Containers
    BY StepFacts DEF TypeInv
  <1>3. TypeOK'
    BY <1>2 DEF TypeInv, TypeOK
  <1> QED
    BY <1>1, <1>3 DEF TypeInv

LEMMA UnlockType ==
  ASSUME TypeOK, NEW t, Unlock(t)
  PROVE  lock' = Free /\ lock' \in Threads \cup {Free} /\ seized' \in BOOLEAN
  BY DEF Unlock, TypeOK

LEMMA NextType == TypeInv /\ [Next]_vars => TypeInv'
  <1> SUFFICES ASSUME TypeInv, [Next]_vars PROVE TypeInv'
    OBVIOUS
  <1>0. TypeOK /\ Path /\ Counts
    BY DEF TypeInv
  <1> USE DEF Labels
  <1>1. ASSUME NEW t \in Threads, NEW k \in Kinds, Load(t, k) PROVE TypeInv'
    BY <1>1, LoadType
  <1>2. ASSUME NEW t \in Threads, Store(t) PROVE TypeInv'
    <2>1. counter' \in Nat
      BY <1>0, <1>2 DEF Store, TypeOK
    <2>2. AfterStore(t) \in Labels
      BY DEF AfterStore
    <2>3. TypeOK /\ lock' = lock /\ seized' = seized
      BY <1>0, <1>2 DEF Store
    <2>4. lock' \in Threads \cup {Free} /\ seized' \in BOOLEAN
      BY <2>3 DEF TypeOK
    <2> QED
      BY <1>2, <2>1, <2>2, <2>4, MoveType DEF Store, AfterStore
  <1>3. ASSUME NEW t \in Threads, Beside(t) PROVE TypeInv'
    <2>1. counter' \in Nat /\ lock' \in Threads \cup {Free} /\ seized' \in BOOLEAN
      BY <1>0, <1>3 DEF Beside, TypeOK
    <2>2. pc[t] = "beside"
      BY <1>3 DEF Beside, Step
    <2>3. kind[t] # "create"
      BY <1>0, <2>2 DEF Path
    <2> QED
      BY <1>3, <2>1, <2>3, MoveType DEF Beside
  <1>4. ASSUME NEW t \in Threads, Enter(t) PROVE TypeInv'
    <2>1. counter' \in Nat /\ lock' \in Threads \cup {Free} /\ seized' \in BOOLEAN
      BY <1>0, <1>4 DEF Enter, TypeOK
    <2> QED
      BY <1>4, <2>1, MoveType DEF Enter
  <1>5. ASSUME NEW t \in Threads, Insert(t) PROVE TypeInv'
    BY <1>5, RecordType
  <1>6. ASSUME NEW t \in Threads, Enlist(t) PROVE TypeInv'
    <2>1. counter' \in Nat /\ lock' \in Threads \cup {Free} /\ seized' \in BOOLEAN
      BY <1>0, <1>6 DEF Enlist, TypeOK
    <2> QED
      BY <1>6, <2>1, MoveType DEF Enlist
  <1>7. ASSUME NEW t \in Threads, ScanFirst(t) PROVE TypeInv'
    <2>1. counter' \in Nat /\ lock' \in Threads \cup {Free} /\ seized' \in BOOLEAN
      BY <1>0, <1>7, UnlockType DEF ScanFirst, TypeOK
    <2>2. pc[t] = "scan"
      BY <1>7 DEF ScanFirst, Step
    <2>3. kind[t] = "start"
      BY <1>0, <2>2 DEF Path
    <2> QED
      BY <1>7, <2>1, <2>3, MoveType DEF ScanFirst
  <1>8. ASSUME NEW t \in Threads, ScanOn(t) PROVE TypeInv'
    <2>1. lock' \in Threads \cup {Free} /\ seized' \in BOOLEAN
      BY <1>0, <1>8, UnlockType DEF ScanOn
    <2>2. TypeOK'
      BY <1>0, <1>8, <2>1 DEF ScanOn, TypeOK
    <2>3. Path'
      BY <1>0, <1>8 DEF ScanOn, Path
    <2>4. Announced' = Announced /\ Underway' = Underway
      BY <1>8 DEF ScanOn, Announced, Underway, Creating
    <2>5. Counts'
      BY <1>0, <1>8, <2>4 DEF ScanOn, Counts
    <2> QED
      BY <2>2, <2>3, <2>5 DEF TypeInv
  <1>9. ASSUME NEW t \in Threads, ScanEnd(t) PROVE TypeInv'
    <2>1. counter' \in Nat /\ lock' \in Threads \cup {Free} /\ seized' \in BOOLEAN
      BY <1>0, <1>9 DEF ScanEnd, TypeOK
    <2>2. pc[t] = "scanning"
      BY <1>9 DEF ScanEnd, Step
    <2>3. kind[t] = "start"
      BY <1>0, <2>2 DEF Path
    <2> QED
      BY <1>9, <2>1, <2>3, MoveType DEF ScanEnd
  <1>10. ASSUME NEW t \in Threads, Release(t) PROVE TypeInv'
    <2>1. counter' \in Nat /\ lock' \in Threads \cup {Free} /\ seized' \in BOOLEAN
      BY <1>0, <1>10, UnlockType DEF Release, TypeOK
    <2>2. AfterRelease(t) \in Labels
      BY DEF AfterRelease
    <2> QED
      BY <1>10, <2>1, <2>2, MoveType DEF Release, AfterRelease
  <1>11. ASSUME NEW t \in Threads, ReleaseAgain(t) PROVE TypeInv'
    <2>1. counter' \in Nat /\ lock' \in Threads \cup {Free} /\ seized' \in BOOLEAN
      BY <1>0, <1>11, UnlockType DEF ReleaseAgain, TypeOK
    <2> QED
      BY <1>11, <2>1, MoveType DEF ReleaseAgain
  <1>12. ASSUME NEW t \in Threads, Spawn(t) PROVE TypeInv'
    BY <1>12, SpawnType
  <1>13. ASSUME NEW t \in Threads, SpawnFail(t) PROVE TypeInv'
    BY <1>13, SpawnFailType
  <1>14. CASE UNCHANGED vars
    <2>1. TypeOK'
      BY <1>0, <1>14 DEF vars, TypeOK
    <2>2. Path'
      BY <1>0, <1>14 DEF vars, Path
    <2>3. Announced' = Announced /\ Underway' = Underway
      BY <1>14 DEF vars, Announced, Underway, Creating
    <2>4. Counts'
      BY <1>0, <1>14, <2>3 DEF vars, Counts
    <2> QED
      BY <2>1, <2>2, <2>4 DEF TypeInv
  <1> QED
    BY <1>1, <1>2, <1>3, <1>4, <1>5, <1>6, <1>7, <1>8, <1>9, <1>10, <1>11, <1>12,
       <1>13, <1>14 DEF Next

\* The recorder keeps its types; the callbacks, their paths and counts.
THEOREM TypeInvariant == Spec => []TypeInv
  <1>1. Init => TypeInv
    BY InitType
  <1>2. TypeInv /\ [Next]_vars => TypeInv'
    BY NextType
  <1> QED
    BY <1>1, <1>2, PTL DEF Spec

\* The recorder's variables keep their types: no creation names a thread that
\* cannot exist, since td and Pin's count of threads stay in step.
THEOREM TypeCorrect == Spec => []TypeOK
  <1>1. TypeInv => TypeOK
    BY DEF TypeInv
  <1> QED
    BY <1>1, TypeInvariant, PTL

-----------------------------------------------------------------------------
(* The lock.                                                               *)

\* Until a lock is seized, a thread under the lock has it.
UnderLock ==
  ub = {} /\ ~seized => \A t \in Threads : pc[t] \in {"in", "scan"} => lock = t

LockInv == LockIsReleased /\ UnderLock /\ LockProtects

\* How a step of t leaves the places of the others.
LEMMA StepOthers ==
  ASSUME TypeInv, NEW t \in Threads, NEW from, NEW to \in Labels, Step(t, from, to)
  PROVE  /\ ub = {} /\ pc[t] = from /\ pc'[t] = to
         /\ \A u \in Threads \ {t} : pc'[u] = pc[u]
  BY StepFacts DEF TypeInv

\* A step that overlaps in a container of the lock has another thread there.
LEMMA StepOverlap ==
  ASSUME TypeInv, NEW t \in Threads, NEW from, NEW to \in Labels, Step(t, from, to),
         ub' \cap {"accessmap", "thlist"} # {}
  PROVE  /\ to \in {"in", "scan", "scanning"}
         /\ \E u \in Threads \ {t} : pc[u] \in {"in", "scan", "scanning"}
  <1>1. PICK c \in ub' : c \in {"accessmap", "thlist"}
    OBVIOUS
  <1>2. c = Container(to, kind[t])
    BY <1>1 DEF Step
  <1>3. PICK u \in Threads \ {t} : c = Container(pc[u], kind[u])
    BY <1>1 DEF Step
  <1> QED
    BY <1>1, <1>2, <1>3 DEF Container

\* A move that leaves the lock and stays out of what it protects.
LEMMA OutsideLock ==
  ASSUME TypeInv, LockInv, NEW t \in Threads, NEW from, NEW to \in Labels,
         Step(t, from, to), UNCHANGED <<lock, seized>>,
         from \notin {"in", "scan", "releasing"}, to \notin {"in", "scan", "scanning"}
  PROVE  LockInv'
  <1>1. /\ ub = {} /\ pc[t] = from /\ pc'[t] = to
        /\ \A u \in Threads \ {t} : pc'[u] = pc[u]
    BY StepOthers
  <1>2. lock \in Threads \cup {Free}
    BY DEF TypeInv, TypeOK
  <1>3. LockIsReleased'
    BY <1>1, <1>2 DEF LockInv, LockIsReleased, Free
  <1>4. UnderLock'
    BY <1>1 DEF LockInv, UnderLock
  <1>5. LockProtects'
    BY StepOverlap DEF LockProtects
  <1> QED
    BY <1>3, <1>4, <1>5 DEF LockInv

\* A move under the lock.
LEMMA InsideLock ==
  ASSUME TypeInv, LockInv, NEW t \in Threads, NEW to \in {"scan", "releasing"},
         Step(t, "in", to), UNCHANGED <<lock, seized>>
  PROVE  LockInv'
  <1>1. to \in Labels
    BY DEF Labels
  <1>2. /\ ub = {} /\ pc[t] = "in" /\ pc'[t] = to
        /\ \A u \in Threads \ {t} : pc'[u] = pc[u]
    BY <1>1, StepOthers
  <1>3. lock \in Threads \cup {Free}
    BY DEF TypeInv, TypeOK
  <1>4. LockIsReleased'
    BY <1>2, <1>3 DEF LockInv, LockIsReleased, Free
  <1>5. UnderLock'
    BY <1>2 DEF LockInv, UnderLock
  <1>6. LockProtects'
    <2>1. SUFFICES ASSUME ub' \cap {"accessmap", "thlist"} # {}, ~seized
                   PROVE  \E u \in Threads : pc'[u] = "scanning"
      BY DEF LockProtects
    <2>2. PICK u \in Threads \ {t} : pc[u] \in {"in", "scan", "scanning"}
      BY <1>1, <2>1, StepOverlap
    <2>3. lock = t
      BY <1>2, <2>1 DEF LockInv, UnderLock
    <2>4. pc[u] = "scanning"
      BY <1>2, <2>1, <2>2, <2>3 DEF LockInv, UnderLock
    <2> QED
      BY <1>2, <2>4
  <1> QED
    BY <1>4, <1>5, <1>6 DEF LockInv

\* A move that releases the lock, or whosever it is.
LEMMA ReleaseLock ==
  ASSUME TypeInv, LockInv, NEW t \in Threads, NEW from, NEW to \in Labels \ {"in", "scan"},
         Step(t, from, to), Unlock(t)
  PROVE  LockInv'
  <1>1. /\ ub = {} /\ pc[t] = from /\ pc'[t] = to
        /\ \A u \in Threads \ {t} : pc'[u] = pc[u]
    BY StepOthers
  <1>2. t # Free
    BY RecorderAssumption DEF Threads, Free
  <1>3. LockIsReleased'
    BY DEF Unlock, LockIsReleased, Free
  <1>4. UnderLock'
    <2>1. SUFFICES ASSUME ~seized', NEW u \in Threads, pc'[u] \in {"in", "scan"}
                   PROVE  FALSE
      BY DEF UnderLock
    <2>2. u # t /\ pc[u] \in {"in", "scan"} /\ ~seized
      BY <1>1, <2>1 DEF Unlock
    <2>3. lock = u
      BY <1>1, <2>2 DEF LockInv, UnderLock
    <2>4. u # Free
      BY RecorderAssumption DEF Threads, Free
    <2> QED
      BY <2>1, <2>2, <2>3, <2>4 DEF Unlock
  <1>5. LockProtects'
    <2>1. CASE to = "scanning"
      BY <2>1, <1>1 DEF LockProtects
    <2>2. CASE to # "scanning"
      BY <2>2, StepOverlap DEF LockProtects
    <2> QED
      BY <2>1, <2>2
  <1> QED
    BY <1>3, <1>4, <1>5 DEF LockInv

LEMMA NextLock == TypeInv /\ LockInv /\ [Next]_vars => LockInv'
  <1> SUFFICES ASSUME TypeInv, LockInv, [Next]_vars PROVE LockInv'
    OBVIOUS
  <1>0. TypeOK /\ Path /\ lock \in Threads \cup {Free}
    BY DEF TypeInv, TypeOK
  <1> USE DEF Labels
  <1>1. ASSUME NEW t \in Threads, NEW k \in Kinds, Load(t, k) PROVE LockInv'
    <2>1. /\ ub = {} /\ ub' = {} /\ lock' = lock /\ seized' = seized
          /\ pc[t] \in {"fresh", "idle"} /\ pc'[t] = "loaded"
          /\ \A u \in Threads \ {t} : pc'[u] = pc[u]
      BY <1>0, <1>1 DEF Load, TypeOK
    <2>2. LockIsReleased'
      BY <1>0, <2>1 DEF LockInv, LockIsReleased, Free
    <2>3. UnderLock'
      BY <2>1 DEF LockInv, UnderLock
    <2>4. LockProtects'
      BY <2>1 DEF LockProtects
    <2> QED
      BY <2>2, <2>3, <2>4 DEF LockInv
  <1>2. ASSUME NEW t \in Threads, Store(t) PROVE LockInv'
    BY <1>2, OutsideLock DEF Store, AfterStore
  <1>3. ASSUME NEW t \in Threads, Beside(t) PROVE LockInv'
    BY <1>3, OutsideLock DEF Beside
  <1>4. ASSUME NEW t \in Threads, Enter(t) PROVE LockInv'
    <2>1. /\ ub = {} /\ pc[t] = "waiting" /\ pc'[t] = "in"
          /\ \A u \in Threads \ {t} : pc'[u] = pc[u]
      BY <1>4, StepOthers DEF Enter
    <2>2. lock = Free /\ lock' = t /\ seized' = seized
      BY <1>4 DEF Enter
    <2>3. \A u \in Threads : u # Free
      BY RecorderAssumption DEF Threads, Free
    <2>4. LockIsReleased'
      BY <2>1, <2>2 DEF LockIsReleased
    <2>5. UnderLock'
      BY <2>1, <2>2, <2>3 DEF LockInv, UnderLock
    <2>6. LockProtects'
      <3>1. SUFFICES ASSUME ub' \cap {"accessmap", "thlist"} # {}, ~seized
                     PROVE  \E u \in Threads : pc'[u] = "scanning"
        BY <2>2 DEF LockProtects
      <3>2. PICK u \in Threads \ {t} : pc[u] \in {"in", "scan", "scanning"}
        BY <1>4, <3>1, StepOverlap DEF Enter
      <3>3. pc[u] = "scanning"
        BY <2>1, <2>2, <2>3, <3>1, <3>2 DEF LockInv, UnderLock
      <3> QED
        BY <2>1, <3>3
    <2> QED
      BY <2>4, <2>5, <2>6 DEF LockInv
  <1>5. ASSUME NEW t \in Threads, Insert(t) PROVE LockInv'
    <2>1. PICK to \in {"scan", "releasing"} : Step(t, "in", to)
      BY <1>5 DEF Insert, Record
    <2>2. lock' = lock /\ seized' = seized
      BY <1>5 DEF Insert, Record
    <2> QED
      BY <2>1, <2>2, InsideLock
  <1>6. ASSUME NEW t \in Threads, Enlist(t) PROVE LockInv'
    BY <1>6, InsideLock DEF Enlist
  <1>7. ASSUME NEW t \in Threads, ScanFirst(t) PROVE LockInv'
    BY <1>7, ReleaseLock DEF ScanFirst
  <1>8. ASSUME NEW t \in Threads, ScanOn(t) PROVE LockInv'
    <2>1. ub = {} /\ ub' = {} /\ pc' = pc /\ pc[t] = "scanning" /\ Unlock(t)
      BY <1>8 DEF ScanOn
    <2>2. LockIsReleased'
      BY <2>1 DEF Unlock, LockIsReleased, Free
    <2>3. UnderLock'
      <3>1. SUFFICES ASSUME ~seized', NEW u \in Threads, pc[u] \in {"in", "scan"}
                     PROVE  FALSE
        BY <2>1 DEF UnderLock
      <3>2. lock = u /\ u # t
        BY <2>1, <3>1 DEF LockInv, UnderLock, Unlock
      <3>3. u # Free
        BY RecorderAssumption DEF Threads, Free
      <3> QED
        BY <2>1, <3>1, <3>2, <3>3 DEF Unlock
    <2>4. LockProtects'
      BY <2>1 DEF LockProtects
    <2> QED
      BY <2>2, <2>3, <2>4 DEF LockInv
  <1>9. ASSUME NEW t \in Threads, ScanEnd(t) PROVE LockInv'
    BY <1>9, OutsideLock DEF ScanEnd
  <1>10. ASSUME NEW t \in Threads, Release(t) PROVE LockInv'
    BY <1>10, ReleaseLock DEF Release, AfterRelease
  <1>11. ASSUME NEW t \in Threads, ReleaseAgain(t) PROVE LockInv'
    BY <1>11, ReleaseLock DEF ReleaseAgain
  <1>12. ASSUME NEW t \in Threads, Spawn(t) PROVE LockInv'
    <2>1. /\ ub = {} /\ ub' = {} /\ lock' = lock /\ seized' = seized
          /\ pc[t] = "creating" /\ kind[t] = "create"
          /\ pc' = [pc EXCEPT ![t] = "idle", ![born] = "waiting"]
      BY <1>0, <1>12 DEF Spawn, Path
    <2>2. \A u \in Threads : pc'[u] = pc[u] \/ (pc'[u] \in {"idle", "waiting"}
                                               /\ pc[u] \in {"creating", "unborn"})
      BY <1>0, <2>1, InRange DEF TypeOK, Path, TypeInv, Threads
    <2>3. LockIsReleased'
      BY <1>0, <2>1, <2>2 DEF LockInv, LockIsReleased, Free
    <2>4. UnderLock'
      BY <2>1, <2>2 DEF LockInv, UnderLock
    <2>5. LockProtects'
      BY <2>1 DEF LockProtects
    <2> QED
      BY <2>3, <2>4, <2>5 DEF LockInv
  <1>13. ASSUME NEW t \in Threads, SpawnFail(t) PROVE LockInv'
    BY <1>13, OutsideLock DEF SpawnFail
  <1>14. CASE UNCHANGED vars
    BY <1>14 DEF vars, LockInv, LockIsReleased, UnderLock, LockProtects, Free
  <1> QED
    BY <1>1, <1>2, <1>3, <1>4, <1>5, <1>6, <1>7, <1>8, <1>9, <1>10, <1>11, <1>12,
       <1>13, <1>14 DEF Next

LEMMA InitLock == Init => LockInv
  BY DEF Init, LockInv, LockIsReleased, UnderLock, LockProtects

\* The lock keeps threads apart in accessmap and thlist until a double release
\* or the loop of child_start gives it away.
THEOREM LockProtectsUntilSeized == Spec => []LockProtects
  <1>1. TypeInv /\ LockInv /\ [Next]_vars => LockInv'
    BY NextLock
  <1>2. LockInv => LockProtects
    BY DEF LockInv
  <1> QED
    BY <1>1, <1>2, InitLock, TypeInvariant, PTL DEF Spec

\* A thread that has the lock is on its way to release it.
THEOREM LockIsAlwaysReleased == Spec => []LockIsReleased
  <1>1. TypeInv /\ LockInv /\ [Next]_vars => LockInv'
    BY NextLock
  <1>2. LockInv => LockIsReleased
    BY DEF LockInv
  <1> QED
    BY <1>1, <1>2, InitLock, TypeInvariant, PTL DEF Spec

-----------------------------------------------------------------------------
(* The keys.                                                               *)

OneLoaded == \A t, u \in Threads : pc[t] = "loaded" /\ pc[u] = "loaded" => t = u

LoadedIsCounter == \A t \in Threads : pc[t] = "loaded" => counter1[t] = counter

\* A pending key is new, and after the keys that its thread used.
PendingIsNew ==
  \A t \in Threads : Pending(t) =>
    /\ counter1[t] < counter
    /\ counter1[t] \notin DOMAIN accessmap
    /\ \A u \in Threads : Pending(u) /\ u # t => counter1[u] # counter1[t]
    /\ \A i \in 1..Len(keys[t]) : keys[t][i] < counter1[t]

CounterAhead == \A k \in DOMAIN accessmap : k < counter

KeysInOrder ==
  \A t \in Threads : \A i \in 1..Len(keys[t]) :
    /\ keys[t][i] \in DOMAIN accessmap
    /\ accessmap[keys[t][i]].tid = t /\ accessmap[keys[t][i]].n = i
    /\ i > 1 => keys[t][i - 1] < keys[t][i]

KeysInv ==
  ~raced => /\ OneLoaded /\ LoadedIsCounter /\ PendingIsNew
            /\ CounterAhead /\ KeysInOrder

LEMMA InitKeys == Init => KeysInv
  BY DEF Init, KeysInv, OneLoaded, LoadedIsCounter, PendingIsNew, Pending, CounterAhead,
         KeysInOrder

\* A step that takes no key, uses none, and starts no wait for the lock.
LEMMA SameKeys ==
  ASSUME KeysInv, UNCHANGED <<counter, counter1, accessmap, keys, raced>>,
         \A u \in Threads : Pending(u)' => Pending(u),
         \A u \in Threads : pc'[u] = "loaded" => pc[u] = "loaded"
  PROVE  KeysInv'
  <1>1. SUFFICES ASSUME ~raced
                 PROVE  /\ OneLoaded' /\ LoadedIsCounter' /\ PendingIsNew'
                        /\ CounterAhead' /\ KeysInOrder'
    BY DEF KeysInv
  <1>2. OneLoaded /\ LoadedIsCounter /\ PendingIsNew /\ CounterAhead /\ KeysInOrder
    BY <1>1 DEF KeysInv
  <1>3. OneLoaded' /\ LoadedIsCounter'
    BY <1>2 DEF OneLoaded, LoadedIsCounter
  <1>4. PendingIsNew'
    BY <1>2 DEF PendingIsNew
  <1>5. CounterAhead' /\ KeysInOrder'
    BY <1>2 DEF CounterAhead, KeysInOrder
  <1> QED
    BY <1>3, <1>4, <1>5

\* SameKeys for the moves of t in a callback.
LEMMA MoveKeys ==
  ASSUME TypeInv, KeysInv, NEW t \in Threads, NEW from, NEW to \in Labels, Step(t, from, to),
         UNCHANGED <<kind, counter, counter1, accessmap, keys, raced>>, to # "loaded",
         kind[t] # "new" /\ to \in {"beside", "waiting", "in"}
           => from \in {"beside", "waiting", "in"}
  PROVE  KeysInv'
  <1>1. /\ pc[t] = from /\ pc'[t] = to
        /\ \A u \in Threads \ {t} : pc'[u] = pc[u]
    BY StepOthers
  <1> QED
    BY <1>1, SameKeys DEF Pending

LEMMA LoadKeys ==
  ASSUME TypeInv, KeysInv, NEW t \in Threads, NEW k \in Kinds, Load(t, k)
  PROVE  KeysInv'
  <1>1. SUFFICES ASSUME ~raced, \A u \in Threads \ {t} : pc[u] # "loaded"
                 PROVE  /\ OneLoaded' /\ LoadedIsCounter' /\ PendingIsNew'
                        /\ CounterAhead' /\ KeysInOrder'
    BY DEF KeysInv, Load
  <1>2. OneLoaded /\ LoadedIsCounter /\ PendingIsNew /\ CounterAhead /\ KeysInOrder
    BY <1>1 DEF KeysInv
  <1>3. /\ pc'[t] = "loaded" /\ counter1'[t] = counter
        /\ \A u \in Threads \ {t} : /\ pc'[u] = pc[u] /\ kind'[u] = kind[u]
                                    /\ counter1'[u] = counter1[u]
        /\ UNCHANGED <<counter, accessmap, keys>>
    BY DEF Load, TypeInv, TypeOK
  <1>4. OneLoaded' /\ LoadedIsCounter'
    BY <1>1, <1>2, <1>3 DEF OneLoaded, LoadedIsCounter
  <1>5. PendingIsNew'
    BY <1>2, <1>3 DEF PendingIsNew, Pending
  <1>6. CounterAhead' /\ KeysInOrder'
    BY <1>2, <1>3 DEF CounterAhead, KeysInOrder
  <1> QED
    BY <1>4, <1>5, <1>6

LEMMA StoreKeys ==
  ASSUME TypeInv, KeysInv, NEW t \in Threads, Store(t)
  PROVE  KeysInv'
  <1>1. SUFFICES ASSUME ~raced
                 PROVE  /\ OneLoaded' /\ LoadedIsCounter' /\ PendingIsNew'
                        /\ CounterAhead' /\ KeysInOrder'
    BY DEF KeysInv, Store
  <1>2. OneLoaded /\ LoadedIsCounter /\ PendingIsNew /\ CounterAhead /\ KeysInOrder
    BY <1>1 DEF KeysInv
  <1>3. /\ pc[t] = "loaded" /\ pc'[t] = AfterStore(t)
        /\ \A u \in Threads \ {t} : pc'[u] = pc[u]
    BY StepOthers DEF Store, AfterStore, Labels
  <1>4. /\ counter' = counter + 1 /\ counter1[t] = counter
        /\ UNCHANGED <<kind, counter1, accessmap, keys>>
    BY <1>2, <1>3 DEF Store, LoadedIsCounter
  <1>5. \A u \in Threads : pc'[u] # "loaded"
    BY <1>2, <1>3 DEF OneLoaded, AfterStore
  <1>6. counter \in Nat /\ DOMAIN accessmap \subseteq Nat /\ counter1 \in [Threads -> Nat]
    BY DEF TypeInv, TypeOK
  <1>7. PendingIsNew'
    <2>1. SUFFICES ASSUME NEW u \in Threads, Pending(u)'
                   PROVE  /\ counter1[u] < counter + 1
                          /\ counter1[u] \notin DOMAIN accessmap
                          /\ \A w \in Threads : Pending(w)' /\ w # u => counter1[w] # counter1[u]
                          /\ \A i \in 1..Len(keys[u]) : keys[u][i] < counter1[u]
      BY <1>4 DEF PendingIsNew
    <2>2. \A w \in Threads \ {t} : Pending(w)' => Pending(w)
      BY <1>3, <1>4 DEF Pending
    <2>3. \A w \in Threads \ {t} : Pending(w)' => counter1[w] < counter
      BY <2>2, <1>2 DEF PendingIsNew
    <2>4. CASE u = t
      <3>1. \A i \in 1..Len(keys[t]) : keys[t][i] < counter
        BY <1>2 DEF KeysInOrder, CounterAhead
      <3>2. \A w \in Threads : Pending(w)' /\ w # t => counter1[w] # counter1[t]
        BY <2>3, <1>4, <1>6
      <3>3. counter \notin DOMAIN accessmap
        BY <1>2, <1>6 DEF CounterAhead
      <3> QED
        BY <2>4, <3>1, <3>2, <3>3, <1>4, <1>6
    <2>5. CASE u # t
      <3>1. Pending(u)
        BY <2>1, <2>2, <2>5
      <3>2. \A w \in Threads : Pending(w)' /\ w # u => counter1[w] # counter1[u]
        BY <2>2, <2>3, <2>5, <3>1, <1>2, <1>4, <1>6 DEF PendingIsNew
      <3> QED
        BY <3>1, <3>2, <1>2, <1>6 DEF PendingIsNew
    <2> QED
      BY <2>4, <2>5
  <1>8. CounterAhead'
    BY <1>2, <1>4, <1>6 DEF CounterAhead
  <1>9. KeysInOrder'
    BY <1>2, <1>4 DEF KeysInOrder
  <1> QED
    BY <1>5, <1>7, <1>8, <1>9 DEF OneLoaded, LoadedIsCounter

LEMMA InsertKeys ==
  ASSUME TypeInv, KeysInv, NEW t \in Threads, Insert(t)
  PROVE  KeysInv'
  <1> DEFINE key == counter1[t]
             size == Len(keys[t])
  <1>1. SUFFICES ASSUME ~raced
                 PROVE  /\ OneLoaded' /\ LoadedIsCounter' /\ PendingIsNew'
                        /\ CounterAhead' /\ KeysInOrder'
    BY DEF KeysInv, Insert, Record
  <1>2. OneLoaded /\ LoadedIsCounter /\ PendingIsNew /\ CounterAhead /\ KeysInOrder
    BY <1>1 DEF KeysInv
  <1>3. PICK to \in {"scan", "releasing"} : Step(t, "in", to)
    BY DEF Insert, Record
  <1>4. PICK child : accessmap' = Inserting(key, [tid |-> t, n |-> size + 1, child |-> child])
    BY DEF Insert, Record
  <1>5. /\ pc[t] = "in" /\ pc'[t] = to
        /\ \A u \in Threads \ {t} : pc'[u] = pc[u]
    BY <1>3, StepOthers DEF Labels
  <1>6. /\ kind[t] # "new" /\ UNCHANGED <<kind, counter, counter1>>
        /\ keys' = [keys EXCEPT ![t] = Append(@, key)]
    BY DEF Insert, Record
  <1>7. /\ keys[t] \in Seq(Nat) /\ key \in Nat /\ size \in Nat
        /\ \A u \in Threads \ {t} : keys'[u] = keys[u]
        /\ keys'[t] = Append(keys[t], key)
    BY <1>6 DEF TypeInv, TypeOK
  <1>8. /\ Len(keys'[t]) = size + 1 /\ keys'[t][size + 1] = key
        /\ \A i \in 1..size : keys'[t][i] = keys[t][i]
    BY <1>7
  <1>9. /\ Pending(t) /\ key < counter /\ key \notin DOMAIN accessmap
        /\ \A i \in 1..size : keys[t][i] < key
    BY <1>2, <1>5, <1>6 DEF PendingIsNew, Pending
  <1>10. /\ DOMAIN accessmap' = DOMAIN accessmap \cup {key}
         /\ accessmap'[key].tid = t /\ accessmap'[key].n = size + 1
         /\ \A k \in DOMAIN accessmap : accessmap'[k] = accessmap[k]
    BY <1>4, <1>9 DEF Inserting
  <1>11. OneLoaded' /\ LoadedIsCounter'
    BY <1>2, <1>3, <1>5, <1>6 DEF OneLoaded, LoadedIsCounter
  <1>12. PendingIsNew'
    <2>1. SUFFICES ASSUME NEW u \in Threads, Pending(u)'
                   PROVE  /\ counter1[u] < counter
                          /\ counter1[u] \notin DOMAIN accessmap'
                          /\ \A w \in Threads : Pending(w)' /\ w # u => counter1[w] # counter1[u]
                          /\ \A i \in 1..Len(keys'[u]) : keys'[u][i] < counter1[u]
      BY <1>6 DEF PendingIsNew
    <2>2. \A w \in Threads : Pending(w)' => Pending(w) /\ w # t
      BY <1>3, <1>5, <1>6 DEF Pending
    <2>3. Pending(u) /\ u # t /\ keys'[u] = keys[u]
      BY <2>1, <2>2, <1>7
    <2> QED
      BY <2>2, <2>3, <1>2, <1>9, <1>10 DEF PendingIsNew
  <1>13. CounterAhead'
    BY <1>2, <1>6, <1>9, <1>10 DEF CounterAhead
  <1>14. KeysInOrder'
    <2>1. SUFFICES ASSUME NEW u \in Threads, NEW i \in 1..Len(keys'[u])
                   PROVE  /\ keys'[u][i] \in DOMAIN accessmap'
                          /\ accessmap'[keys'[u][i]].tid = u /\ accessmap'[keys'[u][i]].n = i
                          /\ i > 1 => keys'[u][i - 1] < keys'[u][i]
      BY DEF KeysInOrder
    <2>2. CASE u # t
      BY <2>1, <2>2, <1>2, <1>7, <1>10 DEF KeysInOrder
    <2>3. CASE u = t /\ i = size + 1
      <3>1. i > 1 => i - 1 \in 1..size
        BY <2>3, <1>7
      <3> QED
        BY <2>3, <3>1, <1>8, <1>9, <1>10
    <2>4. CASE u = t /\ i # size + 1
      <3>1. i \in 1..size /\ (i > 1 => i - 1 \in 1..size)
        BY <2>1, <2>4, <1>7, <1>8
      <3>2. keys'[t][i] = keys[t][i] /\ (i > 1 => keys'[t][i - 1] = keys[t][i - 1])
        BY <3>1, <1>8
      <3> QED
        BY <2>4, <3>1, <3>2, <1>2, <1>10 DEF KeysInOrder
    <2> QED
      BY <2>2, <2>3, <2>4
  <1> QED
    BY <1>11, <1>12, <1>13, <1>14

LEMMA NextKeys == TypeInv /\ KeysInv /\ [Next]_vars => KeysInv'
  <1> SUFFICES ASSUME TypeInv, KeysInv, [Next]_vars PROVE KeysInv'
    OBVIOUS
  <1> USE DEF Labels
  <1>1. ASSUME NEW t \in Threads, NEW k \in Kinds, Load(t, k) PROVE KeysInv'
    BY <1>1, LoadKeys
  <1>2. ASSUME NEW t \in Threads, Store(t) PROVE KeysInv'
    BY <1>2, StoreKeys
  <1>3. ASSUME NEW t \in Threads, Beside(t) PROVE KeysInv'
    BY <1>3, MoveKeys DEF Beside
  <1>4. ASSUME NEW t \in Threads, Enter(t) PROVE KeysInv'
    BY <1>4, MoveKeys DEF Enter
  <1>5. ASSUME NEW t \in Threads, Insert(t) PROVE KeysInv'
    BY <1>5, InsertKeys
  <1>6. ASSUME NEW t \in Threads, Enlist(t) PROVE KeysInv'
    BY <1>6, MoveKeys DEF Enlist
  <1>7. ASSUME NEW t \in Threads, ScanFirst(t) PROVE KeysInv'
    BY <1>7, MoveKeys DEF ScanFirst
  <1>8. ASSUME NEW t \in Threads, ScanOn(t) PROVE KeysInv'
    BY <1>8, SameKeys DEF ScanOn, Pending
  <1>9. ASSUME NEW t \in Threads, ScanEnd(t) PROVE KeysInv'
    BY <1>9, MoveKeys DEF ScanEnd
  <1>10. ASSUME NEW t \in Threads, Release(t) PROVE KeysInv'
    BY <1>10, MoveKeys DEF Release, AfterRelease
  <1>11. ASSUME NEW t \in Threads, ReleaseAgain(t) PROVE KeysInv'
    BY <1>11, MoveKeys DEF ReleaseAgain
  <1>12. ASSUME NEW t \in Threads, Spawn(t) PROVE KeysInv'
    <2>1. pc' = [pc EXCEPT ![t] = "idle", ![born] = "waiting"] /\ kind' = kind
      BY <1>12 DEF Spawn
    <2>2. \A u \in Threads : u = born => kind[u] = "new"
      BY InRange DEF TypeInv, Path, Threads
    <2>3. \A u \in Threads : /\ Pending(u)' => Pending(u)
                             /\ pc'[u] = "loaded" => pc[u] = "loaded"
      BY <2>1, <2>2 DEF Pending, TypeInv, TypeOK
    <2> QED
      BY <1>12, <2>3, SameKeys DEF Spawn
  <1>13. ASSUME NEW t \in Threads, SpawnFail(t) PROVE KeysInv'
    BY <1>13, MoveKeys DEF SpawnFail
  <1>14. CASE UNCHANGED vars
    BY <1>14, SameKeys DEF vars, Pending
  <1> QED
    BY <1>1, <1>2, <1>3, <1>4, <1>5, <1>6, <1>7, <1>8, <1>9, <1>10, <1>11, <1>12,
       <1>13, <1>14 DEF Next

\* While no two threads take the counter at once, no event is lost, and the
\* history has each thread's events in the order of its calls.
THEOREM HistoryIsComplete == Spec => []RecordedInOrder
  <1>1. TypeInv /\ KeysInv /\ [Next]_vars => KeysInv'
    BY NextKeys
  <1>2. KeysInv => RecordedInOrder
    BY DEF KeysInv, RecordedInOrder, KeysInOrder
  <1> QED
    BY <1>1, <1>2, InitKeys, TypeInvariant, PTL DEF Spec

\* Until then a callback comes in the history after all that are done.
THEOREM HistoryIsBehindCounter == Spec => []CounterIsAhead
  <1>1. TypeInv /\ KeysInv /\ [Next]_vars => KeysInv'
    BY NextKeys
  <1>2. KeysInv => CounterIsAhead
    BY DEF KeysInv, CounterIsAhead, CounterAhead
  <1> QED
    BY <1>1, <1>2, InitKeys, TypeInvariant, PTL DEF Spec

-----------------------------------------------------------------------------
(* The names of new threads.                                               *)

\* One creation at a time is underway; td and Pin's count of threads differ
\* by it, and it names the next thread.
NamesInv ==
  ~crossed =>
    /\ \A t, u \in Underway : t = u
    /\ Underway = {} => td = born - 1
    /\ \A t \in Underway : given[t] = td /\ td = born
    /\ \A c \in 1..(born - 1) : named[c] = c

LEMMA InitNames == Init => NamesInv
  <1> SUFFICES ASSUME Init PROVE NamesInv
    OBVIOUS
  <1>1. Underway = {}
    BY DEF Init, Underway, Creating
  <1>2. td = 0 /\ born = 1
    BY DEF Init
  <1> QED
    BY <1>1, <1>2 DEF NamesInv

\* A step that begins and ends no creation.
LEMMA SameNames ==
  ASSUME TypeInv, NamesInv, UNCHANGED <<td, born, named, crossed>>, Underway' = Underway,
         \A u \in Underway : given'[u] = given[u]
  PROVE  NamesInv'
  BY DEF NamesInv

\* SameNames for the moves of t in a callback.
LEMMA MoveNames ==
  ASSUME TypeInv, NamesInv, NEW t \in Threads, NEW from, NEW to \in Labels, Step(t, from, to),
         UNCHANGED <<kind, td, born, given, named, crossed>>,
         kind[t] = "create" =>
           (from \in {"releasing", "creating"} <=> to \in {"releasing", "creating"})
  PROVE  NamesInv'
  <1>1. /\ pc[t] = from /\ pc'[t] = to
        /\ \A u \in Threads \ {t} : pc'[u] = pc[u]
    BY StepOthers
  <1>2. Underway' = Underway
    BY <1>1 DEF Underway, Creating
  <1> QED
    BY <1>2, SameNames

LEMMA InsertNames ==
  ASSUME TypeInv, NamesInv, NEW t \in Threads, Insert(t)
  PROVE  NamesInv'
  <1>1. PICK to \in {"scan", "releasing"} : Step(t, "in", to)
    BY DEF Insert, Record
  <1>2. /\ pc[t] = "in" /\ pc'[t] = to
        /\ \A u \in Threads \ {t} : pc'[u] = pc[u]
    BY <1>1, StepOthers DEF Labels
  <1>3. t \notin Underway /\ UNCHANGED <<kind, born, named>>
    BY <1>2 DEF Underway, Creating, Insert, Record
  <1>4. CASE kind[t] = "create"
    <2>1. SUFFICES ASSUME ~crossed, \A u \in Threads \ {t} : ~Creating(u)
                   PROVE  NamesInv'
      BY <1>4 DEF Insert, Record, NamesInv
    <2>2. Underway = {}
      BY <1>3, <2>1 DEF Underway
    <2>3. to = "releasing"
      BY <1>1, <1>2, <1>4, StepOthers DEF Insert, Record, Labels
    <2>4. Underway' = {t}
      BY <1>2, <1>3, <1>4, <2>2, <2>3 DEF Underway, Creating
    <2>5. td' = td + 1 /\ given'[t] = td + 1
      BY <1>4 DEF Insert, Record, TypeInv, TypeOK
    <2>6. td + 1 = born
      BY <2>1, <2>2, InRange DEF NamesInv, TypeInv
    <2> QED
      BY <1>3, <2>1, <2>4, <2>5, <2>6 DEF NamesInv
  <1>5. CASE kind[t] # "create"
    <2>1. Underway' = Underway
      BY <1>2, <1>3, <1>5 DEF Underway, Creating
    <2>2. td' = td /\ crossed' = crossed /\ given' = [given EXCEPT ![t] = 0]
      BY <1>5 DEF Insert, Record, TypeInv, TypeOK
    <2>3. \A u \in Underway : given'[u] = given[u]
      BY <2>2, <1>3 DEF TypeInv, TypeOK, Underway
    <2> QED
      BY <1>3, <2>1, <2>2, <2>3, SameNames
  <1> QED
    BY <1>4, <1>5

LEMMA SpawnNames ==
  ASSUME TypeInv, NamesInv, NEW t \in Threads, Spawn(t)
  PROVE  NamesInv'
  <1>1. SUFFICES ASSUME ~crossed PROVE NamesInv'
    BY DEF NamesInv, Spawn
  <1>2. TypeOK /\ Path /\ Counts
    BY DEF TypeInv
  <1>3. t \in Underway
    BY <1>2 DEF Spawn, Path, Underway, Creating
  <1>4. born \in Threads /\ born \in Nat
    BY <1>2, <1>3, InRange
  <1>5. given[t] = born /\ td = born /\ Underway = {t}
    BY <1>1, <1>3 DEF NamesInv
  <1>6. pc[born] = "unborn" /\ pc[t] = "creating"
    BY <1>2, <1>4 DEF Path, Spawn
  <1>7. Underway' = {}
    <2>1. \A u \in Threads \ {t} : ~Creating(u)
      BY <1>5 DEF Underway
    <2>2. \A u \in Threads : Creating(u)' => Creating(u) /\ u # t
      BY <1>2, <1>6 DEF Spawn, Creating, TypeOK
    <2> QED
      BY <2>1, <2>2 DEF Underway
  <1>8. /\ td' = td /\ born' = born + 1 /\ crossed' = crossed
        /\ named' = [named EXCEPT ![born] = born]
    BY <1>5 DEF Spawn
  <1>9. \A c \in 1..(born' - 1) : named'[c] = c
    <2>1. \A c \in 1..(born - 1) : named[c] = c
      BY <1>1 DEF NamesInv
    <2> QED
      BY <2>1, <1>2, <1>4, <1>8 DEF TypeOK
  <1> QED
    BY <1>4, <1>5, <1>7, <1>8, <1>9 DEF NamesInv

LEMMA NextNames == TypeInv /\ NamesInv /\ [Next]_vars => NamesInv'
  <1> SUFFICES ASSUME TypeInv, NamesInv, [Next]_vars PROVE NamesInv'
    OBVIOUS
  <1> USE DEF Labels
  <1>1. ASSUME NEW t \in Threads, NEW k \in Kinds, Load(t, k) PROVE NamesInv'
    <2>1. Underway' = Underway
      BY <1>1 DEF Load, TypeInv, TypeOK, Underway, Creating
    <2> QED
      BY <1>1, <2>1, SameNames DEF Load
  <1>2. ASSUME NEW t \in Threads, Store(t) PROVE NamesInv'
    BY <1>2, MoveNames DEF Store, AfterStore
  <1>3. ASSUME NEW t \in Threads, Beside(t) PROVE NamesInv'
    BY <1>3, MoveNames DEF Beside
  <1>4. ASSUME NEW t \in Threads, Enter(t) PROVE NamesInv'
    BY <1>4, MoveNames DEF Enter
  <1>5. ASSUME NEW t \in Threads, Insert(t) PROVE NamesInv'
    BY <1>5, InsertNames
  <1>6. ASSUME NEW t \in Threads, Enlist(t) PROVE NamesInv'
    BY <1>6, MoveNames DEF Enlist
  <1>7. ASSUME NEW t \in Threads, ScanFirst(t) PROVE NamesInv'
    BY <1>7, MoveNames DEF ScanFirst
  <1>8. ASSUME NEW t \in Threads, ScanOn(t) PROVE NamesInv'
    BY <1>8, SameNames DEF ScanOn, Underway, Creating
  <1>9. ASSUME NEW t \in Threads, ScanEnd(t) PROVE NamesInv'
    <2>1. kind[t] = "start"
      BY <1>9 DEF ScanEnd, Step, TypeInv, Path
    <2> QED
      BY <1>9, <2>1, MoveNames DEF ScanEnd
  <1>10. ASSUME NEW t \in Threads, Release(t) PROVE NamesInv'
    BY <1>10, MoveNames DEF Release, AfterRelease
  <1>11. ASSUME NEW t \in Threads, ReleaseAgain(t) PROVE NamesInv'
    BY <1>11, MoveNames DEF ReleaseAgain
  <1>12. ASSUME NEW t \in Threads, Spawn(t) PROVE NamesInv'
    BY <1>12, SpawnNames
  <1>13. ASSUME NEW t \in Threads, SpawnFail(t) PROVE NamesInv'
    BY <1>13 DEF SpawnFail, NamesInv
  <1>14. CASE UNCHANGED vars
    BY <1>14, SameNames DEF vars, Underway, Creating
  <1> QED
    BY <1>1, <1>2, <1>3, <1>4, <1>5, <1>6, <1>7, <1>8, <1>9, <1>10, <1>11, <1>12,
       <1>13, <1>14 DEF Next

\* While creations succeed and do not overlap, each names the thread it creates.
THEOREM CreationsAreNamed == Spec => []ChildIsNamed
  <1>1. TypeInv /\ NamesInv /\ [Next]_vars => NamesInv'
    BY NextNames
  <1>2. NamesInv => ChildIsNamed
    BY DEF NamesInv, ChildIsNamed
  <1> QED
    BY <1>1, <1>2, InitNames, TypeInvariant, PTL DEF Spec

-----------------------------------------------------------------------------
(* The callbacks of a thread.                                              *)

\* The callback of t has a key, or is about to count it, and no event yet.
HasKey(t) == kind[t] # "new" /\ pc[t] \in {"loaded", "beside", "waiting", "in"}

\* A thread has a place for the event of its callback.
Reserved(t) == IF HasKey(t) THEN 1 ELSE 0

CallsInv ==
  \A t \in Threads :
    /\ kind[t] = "new" => Len(keys[t]) = 0 /\ pc[t] # "loaded"
    /\ pc[t] = "fresh" => kind[t] = "new"
    /\ Len(keys[t]) + Reserved(t) <= MaxEvents[t]

LEMMA InitCalls == Init => CallsInv
  BY RecorderAssumption DEF Init, CallsInv, Reserved, HasKey

\* Moves of t that record nothing.
LEMMA MoveCalls ==
  ASSUME TypeInv, CallsInv, NEW t \in Threads, NEW from, NEW to \in Labels, Step(t, from, to),
         UNCHANGED <<kind, keys>>,
         to # "loaded", to = "fresh" => kind[t] = "new",
         kind[t] # "new" /\ to \in {"beside", "waiting", "in"}
           => from \in {"loaded", "beside", "waiting", "in"}
  PROVE  CallsInv'
  <1>1. /\ pc[t] = from /\ pc'[t] = to
        /\ \A u \in Threads \ {t} : pc'[u] = pc[u]
    BY StepOthers
  <1>2. \A u \in Threads : Len(keys[u]) \in Nat /\ MaxEvents[u] \in Nat
    BY RecorderAssumption DEF TypeInv, TypeOK
  <1>3. \A u \in Threads : HasKey(u)' => HasKey(u)
    BY <1>1 DEF HasKey
  <1>4. ASSUME NEW u \in Threads PROVE Len(keys'[u]) + Reserved(u)' <= MaxEvents[u]
    <2>1. Len(keys[u]) + Reserved(u) <= MaxEvents[u]
      BY DEF CallsInv
    <2>2. Reserved(u) \in Nat /\ Reserved(u)' \in Nat /\ Reserved(u)' <= Reserved(u)
      BY <1>3 DEF Reserved, HasKey
    <2> QED
      BY <1>2, <2>1, <2>2
  <1>5. ASSUME NEW u \in Threads
        PROVE  /\ kind'[u] = "new" => Len(keys'[u]) = 0 /\ pc'[u] # "loaded"
               /\ pc'[u] = "fresh" => kind'[u] = "new"
    BY <1>1 DEF CallsInv
  <1> QED
    BY <1>4, <1>5 DEF CallsInv

LEMMA LoadCalls ==
  ASSUME TypeInv, CallsInv, NEW t \in Threads, NEW k \in Kinds, Load(t, k)
  PROVE  CallsInv'
  <1>1. /\ pc[t] \in {"fresh", "idle"} /\ pc'[t] = "loaded" /\ kind'[t] = k /\ keys' = keys
        /\ \A u \in Threads \ {t} : pc'[u] = pc[u] /\ kind'[u] = kind[u]
    BY DEF Load, TypeInv, TypeOK
  <1>2. /\ Len(keys[t]) \in Nat /\ MaxEvents[t] \in Nat \ {0}
        /\ Len(keys[t]) + Reserved(t) <= MaxEvents[t]
    BY RecorderAssumption DEF TypeInv, TypeOK, CallsInv
  <1>3. k # "new" /\ Len(keys[t]) + 1 <= MaxEvents[t]
    <2>1. CASE pc[t] = "fresh"
      <3>1. k = "start" /\ Len(keys[t]) = 0
        BY <2>1 DEF Load, NextKinds, CallsInv
      <3> QED
        BY <1>2, <3>1
    <2>2. CASE pc[t] = "idle"
      <3>1. Reserved(t) = 0 /\ Len(keys[t]) <= MaxEvents[t]
        BY <1>2, <2>2 DEF Reserved, HasKey
      <3>2. k # "new" /\ Len(keys[t]) # MaxEvents[t]
        BY <2>2 DEF Load, NextKinds
      <3> QED
        BY <1>2, <3>1, <3>2
    <2> QED
      BY <1>1, <2>1, <2>2
  <1>4. \A u \in Threads : Len(keys'[u]) + Reserved(u)' <= MaxEvents[u]
    <2>1. Len(keys'[t]) + Reserved(t)' <= MaxEvents[t]
      <3>1. Reserved(t)' = 1
        BY <1>1, <1>3 DEF Reserved, HasKey
      <3> QED
        BY <1>1, <1>3, <3>1
    <2>2. ASSUME NEW u \in Threads \ {t} PROVE Len(keys'[u]) + Reserved(u)' <= MaxEvents[u]
      BY <1>1 DEF CallsInv, Reserved, HasKey
    <2> QED
      BY <2>1, <2>2
  <1> QED
    BY <1>1, <1>3, <1>4 DEF CallsInv

LEMMA InsertCalls ==
  ASSUME TypeInv, CallsInv, NEW t \in Threads, Insert(t)
  PROVE  /\ CallsInv'
         /\ Len(keys'[t]) = Len(keys[t]) + 1
         /\ \A u \in Threads \ {t} : keys'[u] = keys[u]
  <1> DEFINE to == IF kind[t] = "start" /\ t # 0 THEN "scan" ELSE "releasing"
  <1>1. /\ kind[t] # "new" /\ Step(t, "in", to) /\ kind' = kind
        /\ keys' = [keys EXCEPT ![t] = Append(@, counter1[t])]
    BY DEF Insert, Record
  <1>2. /\ pc[t] = "in" /\ pc'[t] = to
        /\ \A u \in Threads \ {t} : pc'[u] = pc[u]
    <2>1. to \in Labels
      BY DEF Labels
    <2> QED
      BY <1>1, <2>1, StepOthers
  <1>3. Len(keys'[t]) = Len(keys[t]) + 1 /\ \A u \in Threads \ {t} : keys'[u] = keys[u]
    <2>1. keys[t] \in Seq(Nat) /\ counter1[t] \in Nat
      BY DEF TypeInv, TypeOK
    <2>2. Len(Append(keys[t], counter1[t])) = Len(keys[t]) + 1
      BY <2>1
    <2> QED
      BY <1>1, <2>2 DEF TypeInv, TypeOK
  <1>4. /\ Len(keys[t]) \in Nat /\ MaxEvents[t] \in Nat
        /\ Len(keys[t]) + Reserved(t) <= MaxEvents[t]
    BY RecorderAssumption DEF TypeInv, TypeOK, CallsInv
  <1>5. \A u \in Threads : Len(keys'[u]) + Reserved(u)' <= MaxEvents[u]
    <2>1. HasKey(t) /\ ~HasKey(t)'
      BY <1>1, <1>2 DEF HasKey
    <2>2. Len(keys'[t]) + Reserved(t)' <= MaxEvents[t]
      <3>1. Reserved(t) \in Nat /\ Reserved(t)' \in Nat /\ Reserved(t)' + 1 = Reserved(t)
        BY <1>1, <2>1 DEF Reserved, HasKey
      <3> QED
        BY <1>3, <1>4, <3>1
    <2>3. ASSUME NEW u \in Threads \ {t} PROVE Len(keys'[u]) + Reserved(u)' <= MaxEvents[u]
      BY <1>1, <1>2, <1>3 DEF CallsInv, Reserved, HasKey
    <2> QED
      BY <2>2, <2>3
  <1>6. CallsInv'
    BY <1>1, <1>2, <1>3, <1>5 DEF CallsInv
  <1> QED
    BY <1>3, <1>6

LEMMA SpawnCalls ==
  ASSUME TypeInv, CallsInv, NEW t \in Threads, Spawn(t)
  PROVE  /\ CallsInv'
         /\ born \in Threads /\ pc[born] = "unborn" /\ kind[born] = "new"
         /\ pc'[born] = "waiting" /\ pc[t] = "creating" /\ pc'[t] = "idle"
         /\ \A u \in Threads \ {t, born} : pc'[u] = pc[u]
  <1>1. TypeOK /\ Path /\ Counts
    BY DEF TypeInv
  <1>2. pc[t] = "creating" /\ kind[t] = "create" /\ kind' = kind /\ keys' = keys
    BY <1>1 DEF Spawn, Path
  <1>3. born \in Threads
    BY <1>1, <1>2, InRange DEF Underway, Creating
  <1>4. pc[born] = "unborn" /\ kind[born] = "new"
    BY <1>1, <1>3 DEF Path, Threads
  <1>5. /\ pc'[t] = "idle" /\ pc'[born] = "waiting"
        /\ \A u \in Threads \ {t, born} : pc'[u] = pc[u]
    BY <1>1, <1>2, <1>3, <1>4 DEF Spawn, TypeOK
  <1>6. \A u \in Threads : HasKey(u)' <=> HasKey(u)
    BY <1>2, <1>4, <1>5 DEF HasKey
  <1>7. \A u \in Threads : Reserved(u)' = Reserved(u)
    BY <1>2, <1>6 DEF Reserved
  <1>8. CallsInv'
    BY <1>2, <1>4, <1>5, <1>7 DEF CallsInv
  <1> QED
    BY <1>2, <1>3, <1>4, <1>5, <1>8

LEMMA NextCalls == TypeInv /\ CallsInv /\ [Next]_vars => CallsInv'
  <1> SUFFICES ASSUME TypeInv, CallsInv, [Next]_vars PROVE CallsInv'
    OBVIOUS
  <1> USE DEF Labels
  <1>1. ASSUME NEW t \in Threads, NEW k \in Kinds, Load(t, k) PROVE CallsInv'
    BY <1>1, LoadCalls
  <1>2. ASSUME NEW t \in Threads, Store(t) PROVE CallsInv'
    BY <1>2, MoveCalls DEF Store, AfterStore
  <1>3. ASSUME NEW t \in Threads, Beside(t) PROVE CallsInv'
    BY <1>3, MoveCalls DEF Beside
  <1>4. ASSUME NEW t \in Threads, Enter(t) PROVE CallsInv'
    BY <1>4, MoveCalls DEF Enter
  <1>5. ASSUME NEW t \in Threads, Insert(t) PROVE CallsInv'
    BY <1>5, InsertCalls
  <1>6. ASSUME NEW t \in Threads, Enlist(t) PROVE CallsInv'
    BY <1>6, MoveCalls DEF Enlist
  <1>7. ASSUME NEW t \in Threads, ScanFirst(t) PROVE CallsInv'
    BY <1>7, MoveCalls DEF ScanFirst
  <1>8. ASSUME NEW t \in Threads, ScanEnd(t) PROVE CallsInv'
    BY <1>8, MoveCalls DEF ScanEnd
  <1>9. ASSUME NEW t \in Threads, Release(t) PROVE CallsInv'
    BY <1>9, MoveCalls DEF Release, AfterRelease
  <1>10. ASSUME NEW t \in Threads, ReleaseAgain(t) PROVE CallsInv'
    BY <1>10, MoveCalls DEF ReleaseAgain
  <1>11. ASSUME NEW t \in Threads, Spawn(t) PROVE CallsInv'
    BY <1>11, SpawnCalls
  <1>12. ASSUME NEW t \in Threads, SpawnFail(t) PROVE CallsInv'
    <2>1. kind[t] = "create"
      BY <1>12 DEF SpawnFail, Step, TypeInv, Path
    <2> QED
      BY <1>12, <2>1, MoveCalls DEF SpawnFail
  <1>13. CASE (\E t \in Threads : ScanOn(t)) \/ UNCHANGED vars
    BY <1>13 DEF ScanOn, vars, CallsInv, Reserved, HasKey
  <1> QED
    BY <1>1, <1>2, <1>3, <1>4, <1>5, <1>6, <1>7, <1>8, <1>9, <1>10, <1>11, <1>12,
       <1>13 DEF Next

-----------------------------------------------------------------------------
(* The history.                                                            *)

\* A step that begins and notes no call.
LEMMA SameHistory ==
  ASSUME UNCHANGED <<counter, accessmap, keys>>,
         \A u \in Threads : Pending(u)' <=> Pending(u),
         \A u \in Threads : Pending(u) => counter1'[u] = counter1[u]
  PROVE  UNCHANGED <<counter, Places, Noted, Done>>
  <1>1. {u \in Threads : Pending(u)'} = {u \in Threads : Pending(u)}
    OBVIOUS
  <1>2. Places' = Places
    BY <1>1 DEF Places
  <1> QED
    BY <1>2 DEF Noted, Done

\* SameHistory for the moves of t in a callback.
LEMMA MoveHistory ==
  ASSUME TypeInv, NEW t \in Threads, NEW from, NEW to \in Labels, Step(t, from, to),
         UNCHANGED <<kind, counter, counter1, accessmap, keys>>,
         kind[t] # "new" =>
           (from \in {"beside", "waiting", "in"} <=> to \in {"beside", "waiting", "in"})
  PROVE  UNCHANGED <<counter, Places, Noted, Done>>
  <1>1. /\ pc[t] = from /\ pc'[t] = to
        /\ \A u \in Threads \ {t} : pc'[u] = pc[u]
    BY StepOthers
  <1>2. \A u \in Threads : Pending(u)' <=> Pending(u)
    BY <1>1 DEF Pending
  <1> QED
    BY <1>2, SameHistory

\* Until then the store gives a call its place: nobody counted since its load.
LEMMA StoreBegins ==
  ASSUME TypeInv, CallsInv, KeysInv, ~raced, NEW t \in Threads, Store(t)
  PROVE  History!Begin(t)
  <1>1. LoadedIsCounter
    BY DEF KeysInv
  <1>2. /\ pc[t] = "loaded" /\ pc'[t] \in {"beside", "waiting"}
        /\ \A u \in Threads \ {t} : pc'[u] = pc[u]
    BY StepOthers DEF Store, AfterStore, Labels
  <1>3. kind[t] # "new"
    BY <1>2 DEF CallsInv
  <1>4. /\ counter1[t] = counter /\ counter' = counter + 1
        /\ UNCHANGED <<kind, counter1, accessmap, keys>>
    BY <1>1, <1>2 DEF Store, LoadedIsCounter
  <1>5. {u \in Threads : Pending(u)'} = {u \in Threads : Pending(u)} \cup {t}
        /\ ~Pending(t)
    BY <1>2, <1>3, <1>4 DEF Pending
  <1>6. DOMAIN Places = {u \in Threads : Pending(u)}
    BY DEF Places
  <1>7. Places' = [u \in DOMAIN Places \cup {t} |-> IF u = t THEN counter ELSE Places[u]]
    BY <1>4, <1>5 DEF Places
  <1>8. t \notin DOMAIN Places
    BY <1>5, <1>6
  <1>9. Noted' = Noted /\ Done' = Done
    BY <1>4 DEF Noted, Done
  <1> QED
    BY <1>4, <1>7, <1>8, <1>9 DEF History!Begin

\* The insertion notes it, since no event has its key.
LEMMA InsertNotes ==
  ASSUME TypeInv, CallsInv, KeysInv, ~raced, NEW t \in Threads, Insert(t)
  PROVE  History!Note(t)
  <1> DEFINE key == counter1[t]
             size == Len(keys[t])
  <1>1. PendingIsNew
    BY DEF KeysInv
  <1>2. PICK to \in {"scan", "releasing"} : Step(t, "in", to)
    BY DEF Insert, Record
  <1>3. PICK child : accessmap' = Inserting(key, [tid |-> t, n |-> size + 1, child |-> child])
    BY DEF Insert, Record
  <1>4. /\ pc[t] = "in" /\ pc'[t] = to
        /\ \A u \in Threads \ {t} : pc'[u] = pc[u]
    BY <1>2, StepOthers DEF Labels
  <1>5. kind[t] # "new" /\ UNCHANGED <<kind, counter, counter1>>
    BY DEF Insert, Record
  <1>6. Pending(t) /\ key \notin DOMAIN accessmap
    BY <1>1, <1>4, <1>5 DEF PendingIsNew, Pending
  <1>7. {u \in Threads : Pending(u)'} = {u \in Threads : Pending(u)} \ {t}
    BY <1>4, <1>5 DEF Pending
  <1>8. DOMAIN Places = {u \in Threads : Pending(u)} /\ t \in DOMAIN Places /\ Places[t] = key
    BY <1>6 DEF Places
  <1>9. Places' = [u \in DOMAIN Places \ {t} |-> Places[u]]
    BY <1>5, <1>7, <1>8 DEF Places
  <1>10. Done' = [Done EXCEPT ![t] = @ + 1] /\ Done[t] = size
    BY InsertCalls DEF Done
  <1>11. Noted' = [k \in DOMAIN Noted \cup {Places[t]} |->
                    IF k = Places[t] THEN [tid |-> t, n |-> Done[t] + 1] ELSE Noted[k]]
    <2>1. /\ DOMAIN accessmap' = DOMAIN accessmap \cup {key}
          /\ accessmap'[key].tid = t /\ accessmap'[key].n = size + 1
          /\ \A k \in DOMAIN accessmap : accessmap'[k] = accessmap[k] /\ k # key
      BY <1>3, <1>6 DEF Inserting
    <2> HIDE DEF key, size
    <2>2. Noted' = [k \in DOMAIN accessmap \cup {key} |->
                     IF k = key THEN [tid |-> t, n |-> size + 1] ELSE Noted[k]]
      BY <2>1 DEF Noted
    <2>3. DOMAIN Noted = DOMAIN accessmap
      BY DEF Noted
    <2> QED
      BY <2>2, <2>3, <1>8, <1>10
  <1> QED
    BY <1>5, <1>8, <1>9, <1>10, <1>11 DEF History!Note

LEMMA HistoryStep ==
  TypeInv /\ CallsInv /\ KeysInv /\ ~raced /\ [Next]_vars
    => History!Next \/ UNCHANGED <<counter, Places, Noted, Done>>
  <1> SUFFICES ASSUME TypeInv, CallsInv, KeysInv, ~raced, [Next]_vars
               PROVE  History!Next \/ UNCHANGED <<counter, Places, Noted, Done>>
    OBVIOUS
  <1> USE DEF Labels
  <1>1. ASSUME NEW t \in Threads, NEW k \in Kinds, Load(t, k)
        PROVE  UNCHANGED <<counter, Places, Noted, Done>>
    <2>1. /\ pc[t] \in {"fresh", "idle"} /\ pc'[t] = "loaded"
          /\ \A u \in Threads \ {t} : /\ pc'[u] = pc[u] /\ kind'[u] = kind[u]
                                      /\ counter1'[u] = counter1[u]
          /\ UNCHANGED <<counter, accessmap, keys>>
      BY <1>1 DEF Load, TypeInv, TypeOK
    <2>2. \A u \in Threads : /\ Pending(u)' <=> Pending(u)
                             /\ Pending(u) => counter1'[u] = counter1[u]
      BY <2>1 DEF Pending
    <2> QED
      BY <2>1, <2>2, SameHistory
  <1>2. ASSUME NEW t \in Threads, Store(t) PROVE History!Next
    BY <1>2, StoreBegins DEF History!Next
  <1>3. ASSUME NEW t \in Threads, Insert(t) PROVE History!Next
    BY <1>3, InsertNotes DEF History!Next
  <1>4. ASSUME NEW t \in Threads, Beside(t)
        PROVE  UNCHANGED <<counter, Places, Noted, Done>>
    BY <1>4, MoveHistory DEF Beside
  <1>5. ASSUME NEW t \in Threads, Enter(t)
        PROVE  UNCHANGED <<counter, Places, Noted, Done>>
    BY <1>5, MoveHistory DEF Enter
  <1>6. ASSUME NEW t \in Threads, Enlist(t)
        PROVE  UNCHANGED <<counter, Places, Noted, Done>>
    BY <1>6, MoveHistory DEF Enlist
  <1>7. ASSUME NEW t \in Threads, ScanFirst(t)
        PROVE  UNCHANGED <<counter, Places, Noted, Done>>
    BY <1>7, MoveHistory DEF ScanFirst
  <1>8. ASSUME NEW t \in Threads, ScanEnd(t)
        PROVE  UNCHANGED <<counter, Places, Noted, Done>>
    BY <1>8, MoveHistory DEF ScanEnd
  <1>9. ASSUME NEW t \in Threads, Release(t)
        PROVE  UNCHANGED <<counter, Places, Noted, Done>>
    BY <1>9, MoveHistory DEF Release, AfterRelease
  <1>10. ASSUME NEW t \in Threads, ReleaseAgain(t)
         PROVE  UNCHANGED <<counter, Places, Noted, Done>>
    BY <1>10, MoveHistory DEF ReleaseAgain
  <1>11. ASSUME NEW t \in Threads, Spawn(t)
         PROVE  UNCHANGED <<counter, Places, Noted, Done>>
    <2>1. \A u \in Threads : Pending(u)' <=> Pending(u)
      BY <1>11, SpawnCalls DEF Spawn, Pending
    <2> QED
      BY <1>11, <2>1, SameHistory DEF Spawn
  <1>12. ASSUME NEW t \in Threads, SpawnFail(t)
         PROVE  UNCHANGED <<counter, Places, Noted, Done>>
    BY <1>12, MoveHistory DEF SpawnFail
  <1>13. CASE (\E t \in Threads : ScanOn(t)) \/ UNCHANGED vars
    <2>1. UNCHANGED <<pc, kind, counter, counter1, accessmap, keys>>
      BY <1>13 DEF ScanOn, vars
    <2>2. \A u \in Threads : Pending(u)' <=> Pending(u)
      BY <2>1 DEF Pending
    <2> QED
      BY <2>1, <2>2, SameHistory
  <1> QED
    BY <1>1, <1>2, <1>3, <1>4, <1>5, <1>6, <1>7, <1>8, <1>9, <1>10, <1>11, <1>12,
       <1>13 DEF Next

\* Until two threads are between load and store of the counter, the recorder
\* implements Journal, which gives out places in one go and notes each call
\* once: every step is one of Journal or leaves its state alone.
THEOREM HistoryIsJournal == Spec => HonestHistory
  <1>1. Init => History!Init
    <2> SUFFICES ASSUME Init PROVE History!Init
      OBVIOUS
    <2>1. {u \in Threads : Pending(u)} = {} /\ DOMAIN accessmap = {} /\ counter = 0
      BY DEF Init, Pending
    <2>2. Done = [t \in Threads |-> 0]
      BY DEF Init, Done
    <2>3. Places = [t \in {} |-> 0]
      BY <2>1 DEF Places
    <2>4. Noted = [k \in {} |-> 0]
      BY <2>1 DEF Noted
    <2> QED
      BY <2>1, <2>2, <2>3, <2>4 DEF History!Init
  <1>2. TypeInv /\ CallsInv /\ KeysInv /\ [Next]_vars
          => [~raced => [History!Next]_(History!absVars)]_vars
    BY HistoryStep DEF History!absVars
  <1> QED
    BY <1>1, <1>2, InitCalls, NextCalls, InitKeys, NextKeys, TypeInvariant, PTL
       DEF Spec, HonestHistory

-----------------------------------------------------------------------------
(* What is left to do.                                                     *)

LEMMA RankType == \A label \in Labels : Rank[label] \in Nat
  BY DEF Rank, Labels

LEMMA StepsType ==
  ASSUME TypeOK, CallsInv, NEW t \in Threads
  PROVE  CallsLeft(t) \in Nat /\ Rank[pc[t]] \in Nat /\ StepsLeft(t) \in Nat
  <1>1. /\ Len(keys[t]) \in Nat /\ MaxEvents[t] \in Nat
        /\ Len(keys[t]) + Reserved(t) <= MaxEvents[t]
    BY RecorderAssumption DEF TypeOK, CallsInv
  <1>2. Reserved(t) \in Nat
    BY DEF Reserved, HasKey
  <1>3. MaxEvents[t] - Len(keys[t]) \in Nat
    BY <1>1, <1>2
  <1>4. CallsLeft(t) \in Nat
    BY <1>3 DEF CallsLeft
  <1>5. Rank[pc[t]] \in Nat
    BY RankType DEF TypeOK
  <1> QED
    BY <1>4, <1>5 DEF StepsLeft

LEMMA AllStepsType ==
  TypeOK /\ CallsInv =>
    \A t \in Threads : CallsLeft(t) \in Nat /\ Rank[pc[t]] \in Nat /\ StepsLeft(t) \in Nat
  BY StepsType

\* And after a step.
LEMMA NextStepsType ==
  TypeOK' /\ CallsInv' =>
    \A t \in Threads :
      CallsLeft(t)' \in Nat /\ Rank[pc'[t]] \in Nat /\ StepsLeft(t)' \in Nat
  <1>1. (TypeOK /\ CallsInv =>
           \A t \in Threads :
             CallsLeft(t) \in Nat /\ Rank[pc[t]] \in Nat /\ StepsLeft(t) \in Nat)'
    BY AllStepsType, PTL
  <1> QED
    BY <1>1

LEMMA ThreadsFinite == IsFiniteSet(Threads)
  BY FS_Interval, RecorderAssumption DEF Threads

LEMMA WorkType == TypeOK /\ CallsInv => WorkLeft \in Nat
  <1> SUFFICES ASSUME TypeOK, CallsInv PROVE WorkLeft \in Nat
    OBVIOUS
  <1> DEFINE f == [t \in Threads |-> StepsLeft(t)]
  <1>1. \A t \in Threads : f[t] \in Nat
    BY StepsType
  <1>2. WorkLeft = SumFunctionOnSet(f, Threads)
    BY DEF WorkLeft, SumFunction
  <1> HIDE DEF f
  <1> QED
    BY <1>1, <1>2, ThreadsFinite, SumType

\* One thread does a step, and no thread is set back.
LEMMA WorkDrops ==
  ASSUME TypeOK, CallsInv, TypeOK', CallsInv', NEW t \in Threads,
         StepsLeft(t)' < StepsLeft(t),
         \A u \in Threads \ {t} : StepsLeft(u)' <= StepsLeft(u)
  PROVE  WorkLeft' < WorkLeft
  <1> DEFINE f == [u \in Threads |-> StepsLeft(u)]
             g == [u \in Threads |-> StepsLeft(u)']
  <1>1. \A u \in Threads : f[u] \in Nat
    BY StepsType
  <1>2. \A u \in Threads : g[u] \in Nat
    BY NextStepsType
  <1>3. (\A u \in Threads : g[u] <= f[u]) /\ g[t] < f[t]
    BY <1>1, <1>2
  <1>4. WorkLeft = SumFunctionOnSet(f, Threads) /\ WorkLeft' = SumFunctionOnSet(g, Threads)
    BY DEF WorkLeft, SumFunction
  <1> HIDE DEF f, g
  <1> QED
    BY <1>1, <1>2, <1>3, <1>4, ThreadsFinite, SumSmaller

\* A move of t takes it on; whatever it does to the lock weighs less.
LEMMA MoveDrops ==
  ASSUME TypeOK, CallsInv, TypeOK', CallsInv', NEW t \in Threads,
         lock' \in {lock, Free, t},
         12 * CallsLeft(t)' + Rank[pc'[t]] < 12 * CallsLeft(t) + Rank[pc[t]],
         \A u \in Threads \ {t} :
           pc'[u] = pc[u] /\ kind'[u] = kind[u] /\ Len(keys'[u]) = Len(keys[u])
  PROVE  WorkLeft' < WorkLeft
  <1>1. \A u \in Threads : u # Free
    BY RecorderAssumption DEF Threads, Free
  <1>2. StepsLeft(t)' < StepsLeft(t)
    <2> DEFINE a == 12 * CallsLeft(t) + Rank[pc[t]]
               b == 12 * CallsLeft(t)' + Rank[pc'[t]]
    <2>1. a \in Nat
      BY StepsType
    <2>2. b \in Nat
      BY NextStepsType
    <2>3. /\ StepsLeft(t) = 2 * a + (IF lock = t THEN 1 ELSE 0)
          /\ StepsLeft(t)' = 2 * b + (IF lock' = t THEN 1 ELSE 0)
      BY DEF StepsLeft
    <2>4. b < a
      OBVIOUS
    <2> HIDE DEF a, b
    <2> QED
      BY <2>1, <2>2, <2>3, <2>4
  <1>3. ASSUME NEW u \in Threads \ {t} PROVE StepsLeft(u)' <= StepsLeft(u)
    <2>1. lock' = u => lock = u
      BY <1>1
    <2>2. CallsLeft(u)' = CallsLeft(u)
      BY DEF CallsLeft
    <2>3. CallsLeft(u) \in Nat /\ Rank[pc[u]] \in Nat
      BY StepsType
    <2> DEFINE a == 2 * (12 * CallsLeft(u) + Rank[pc[u]])
    <2>4. /\ StepsLeft(u) = a + (IF lock = u THEN 1 ELSE 0)
          /\ StepsLeft(u)' = a + (IF lock' = u THEN 1 ELSE 0)
      BY <2>2 DEF StepsLeft
    <2>5. a \in Nat
      BY <2>3
    <2> HIDE DEF a
    <2> QED
      BY <2>1, <2>4, <2>5
  <1> QED
    BY <1>2, <1>3, WorkDrops

\* MoveDrops for the moves of t in a callback that record nothing.
LEMMA CallbackDrops ==
  ASSUME TypeInv, CallsInv, TypeOK', CallsInv',
         NEW t \in Threads, NEW from \in Labels, NEW to \in Labels, Step(t, from, to),
         UNCHANGED <<kind, keys>>, lock' \in {lock, Free, t},
         \/ /\ Rank[to] < Rank[from]
            /\ kind[t] = "new" /\ to \in {"unborn", "waiting", "in"}
                 => from \in {"unborn", "waiting", "in"}
         \/ kind[t] = "new" /\ from = "in" /\ to = "releasing"
  PROVE  WorkLeft' < WorkLeft
  <1>1. /\ pc[t] = from /\ pc'[t] = to
        /\ \A u \in Threads \ {t} : pc'[u] = pc[u]
    BY StepOthers
  <1>2. /\ CallsLeft(t) \in Nat /\ CallsLeft(t)' \in Nat
        /\ Rank[from] \in Nat /\ Rank[to] \in Nat
    BY <1>1, StepsType, NextStepsType, RankType DEF TypeInv
  <1>3. /\ MaxEvents[t] - Len(keys[t]) \in Int
        /\ MaxEvents[t] - Len(keys'[t]) = MaxEvents[t] - Len(keys[t])
    BY RecorderAssumption DEF TypeInv, TypeOK
  <1>4. 12 * CallsLeft(t)' + Rank[to] < 12 * CallsLeft(t) + Rank[from]
    <2>1. CASE /\ Rank[to] < Rank[from]
               /\ kind[t] = "new" /\ to \in {"unborn", "waiting", "in"}
                    => from \in {"unborn", "waiting", "in"}
      <3>1. CallsLeft(t)' <= CallsLeft(t)
        BY <1>1, <1>3, <2>1 DEF CallsLeft
      <3> QED
        BY <1>2, <2>1, <3>1
    <2>2. CASE kind[t] = "new" /\ from = "in" /\ to = "releasing"
      <3>1. CallsLeft(t)' + 1 = CallsLeft(t)
        BY <1>1, <1>3, <2>2 DEF CallsLeft
      <3>2. Rank[from] = 2 /\ Rank[to] = 8
        BY <2>2 DEF Rank
      <3> QED
        BY <1>2, <3>1, <3>2
    <2> QED
      BY <2>1, <2>2
  <1> QED
    BY <1>1, <1>4, MoveDrops DEF TypeInv

LEMMA LoadDrops ==
  ASSUME TypeInv, CallsInv, TypeOK', CallsInv', NEW t \in Threads, NEW k \in Kinds, Load(t, k)
  PROVE  WorkLeft' < WorkLeft
  <1>1. /\ pc[t] \in {"fresh", "idle"} /\ pc'[t] = "loaded" /\ keys' = keys /\ lock' = lock
        /\ \A u \in Threads \ {t} : pc'[u] = pc[u] /\ kind'[u] = kind[u]
    BY DEF Load, TypeInv, TypeOK
  <1>2. CallsLeft(t)' = CallsLeft(t)
    BY <1>1 DEF CallsLeft
  <1>3. Rank[pc[t]] = 6 /\ Rank[pc'[t]] = 5
    BY <1>1 DEF Rank
  <1>4. CallsLeft(t) \in Nat
    BY StepsType DEF TypeInv
  <1>5. 12 * CallsLeft(t)' + Rank[pc'[t]] < 12 * CallsLeft(t) + Rank[pc[t]]
    BY <1>2, <1>3, <1>4
  <1> QED
    BY <1>1, <1>5, MoveDrops DEF TypeInv

LEMMA InsertDrops ==
  ASSUME TypeInv, CallsInv, TypeOK', CallsInv', NEW t \in Threads, Insert(t)
  PROVE  WorkLeft' < WorkLeft
  <1> DEFINE to == IF kind[t] = "start" /\ t # 0 THEN "scan" ELSE "releasing"
  <1>1. /\ kind[t] # "new" /\ Step(t, "in", to) /\ kind' = kind /\ lock' = lock
    BY DEF Insert, Record
  <1>2. /\ pc[t] = "in" /\ pc'[t] = to
        /\ \A u \in Threads \ {t} : pc'[u] = pc[u]
    <2>1. to \in Labels
      BY DEF Labels
    <2> QED
      BY <1>1, <2>1, StepOthers
  <1>3. Len(keys'[t]) = Len(keys[t]) + 1 /\ \A u \in Threads \ {t} : keys'[u] = keys[u]
    BY InsertCalls
  <1>4. CallsLeft(t)' + 1 = CallsLeft(t) /\ CallsLeft(t)' \in Nat
    <2>1. MaxEvents[t] \in Nat /\ Len(keys[t]) \in Nat
      BY RecorderAssumption DEF TypeInv, TypeOK
    <2>2. CallsLeft(t) = MaxEvents[t] - Len(keys[t])
          /\ CallsLeft(t)' = MaxEvents[t] - Len(keys'[t])
      BY <1>1, <1>3, <2>1 DEF CallsLeft
    <2> QED
      BY <1>3, <2>1, <2>2, NextStepsType
  <1>5. Rank[pc[t]] = 2 /\ Rank[pc'[t]] \in {8, 10}
    BY <1>2 DEF Rank
  <1>6. 12 * CallsLeft(t)' + Rank[pc'[t]] < 12 * CallsLeft(t) + Rank[pc[t]]
    BY <1>4, <1>5
  <1> QED
    BY <1>1, <1>2, <1>3, <1>6, MoveDrops DEF TypeInv

\* A later round of the loop does nothing but release the lock of a thread.
LEMMA ScanDrops ==
  ASSUME TypeInv, CallsInv, TypeOK', CallsInv', NEW t \in Threads, ScanOn(t)
  PROVE  WorkLeft' < WorkLeft
  <1>1. /\ lock # Free /\ lock' = Free /\ lock \in Threads
        /\ pc' = pc /\ kind' = kind /\ keys' = keys
    BY DEF ScanOn, Unlock, TypeInv, TypeOK
  <1>2. \A u \in Threads : u # Free
    BY RecorderAssumption DEF Threads, Free
  <1>3. ASSUME NEW u \in Threads
        PROVE  StepsLeft(u)' + (IF lock = u THEN 1 ELSE 0) = StepsLeft(u)
    <2>1. CallsLeft(u)' = CallsLeft(u)
      BY <1>1 DEF CallsLeft
    <2>2. CallsLeft(u) \in Nat /\ Rank[pc[u]] \in Nat
      BY StepsType DEF TypeInv
    <2> DEFINE a == 2 * (12 * CallsLeft(u) + Rank[pc[u]])
    <2>3. StepsLeft(u) = a + (IF lock = u THEN 1 ELSE 0) /\ StepsLeft(u)' = a + 0
      BY <1>1, <1>2, <2>1 DEF StepsLeft
    <2>4. a \in Nat
      BY <2>2
    <2> HIDE DEF a
    <2> QED
      BY <2>3, <2>4
  <1>4. \A u \in Threads : StepsLeft(u) \in Nat /\ StepsLeft(u)' \in Nat
    BY StepsType, NextStepsType DEF TypeInv
  <1>5. \A u \in Threads : StepsLeft(u)' <= StepsLeft(u)
    BY <1>3, <1>4
  <1>6. PICK u \in Threads : u = lock
    BY <1>1
  <1>7. StepsLeft(u)' < StepsLeft(u)
    BY <1>3, <1>4, <1>6
  <1> QED
    BY <1>5, <1>7, WorkDrops DEF TypeInv

\* A creation that succeeds: the creator goes on, and so does the new thread.
LEMMA SpawnDrops ==
  ASSUME TypeInv, CallsInv, TypeOK', CallsInv', NEW t \in Threads, Spawn(t)
  PROVE  WorkLeft' < WorkLeft
  <1>1. kind' = kind /\ keys' = keys /\ lock' = lock
    BY DEF Spawn
  <1>2. /\ born \in Threads /\ pc[born] = "unborn" /\ kind[born] = "new"
        /\ pc'[born] = "waiting" /\ pc[t] = "creating" /\ pc'[t] = "idle"
        /\ \A u \in Threads \ {t, born} : pc'[u] = pc[u]
    BY SpawnCalls
  <1>3. kind[t] = "create"
    BY <1>2 DEF TypeInv, Path
  <1>4. \A u \in Threads : CallsLeft(u)' = CallsLeft(u)
    BY <1>1, <1>2, <1>3 DEF CallsLeft
  <1>5. \A u \in Threads : Rank[pc'[u]] <= Rank[pc[u]]
    <2>1. ASSUME NEW u \in Threads \ {t, born} PROVE Rank[pc'[u]] = Rank[pc[u]]
      BY <1>2
    <2>2. /\ Rank[pc[t]] = 7 /\ Rank[pc'[t]] = 6
          /\ Rank[pc[born]] = 11 /\ Rank[pc'[born]] = 3
      BY <1>2 DEF Rank
    <2>3. \A u \in Threads : Rank[pc[u]] \in Nat
      BY StepsType DEF TypeInv
    <2> QED
      BY <1>2, <2>1, <2>2, <2>3
  <1>6. Rank[pc[t]] = 7 /\ Rank[pc'[t]] = 6
    BY <1>2 DEF Rank
  <1>7. ASSUME NEW u \in Threads
        PROVE  /\ StepsLeft(u)' <= StepsLeft(u)
               /\ u = t => StepsLeft(u)' < StepsLeft(u)
    <2> DEFINE c == CallsLeft(u)
               b == IF lock = u THEN 1 ELSE 0
    <2>1. /\ StepsLeft(u) = 2 * (12 * c + Rank[pc[u]]) + b
          /\ StepsLeft(u)' = 2 * (12 * c + Rank[pc'[u]]) + b
      BY <1>1, <1>4 DEF StepsLeft
    <2>2. c \in Nat /\ b \in Nat /\ Rank[pc[u]] \in Nat /\ Rank[pc'[u]] \in Nat
      BY StepsType, NextStepsType DEF TypeInv
    <2> HIDE DEF c, b
    <2> QED
      BY <1>5, <1>6, <2>1, <2>2
  <1> QED
    BY <1>7, WorkDrops DEF TypeInv

LEMMA NextDrops ==
  TypeInv /\ CallsInv /\ TypeOK' /\ CallsInv' /\ Next => WorkLeft' < WorkLeft
  <1> SUFFICES ASSUME TypeInv, CallsInv, TypeOK', CallsInv', Next PROVE WorkLeft' < WorkLeft
    OBVIOUS
  <1>0. \A t \in Threads : pc[t] = "beside" => kind[t] # "new"
    BY DEF TypeInv, Path
  <1> USE DEF Labels
  <1>1. ASSUME NEW t \in Threads, NEW k \in Kinds, Load(t, k) PROVE WorkLeft' < WorkLeft
    BY <1>1, LoadDrops
  <1>2. ASSUME NEW t \in Threads, Store(t) PROVE WorkLeft' < WorkLeft
    <2>1. Rank["waiting"] < Rank["loaded"] /\ Rank["beside"] < Rank["loaded"]
      BY DEF Rank
    <2>2. kind[t] # "new"
      BY <1>2 DEF Store, Step, CallsInv
    <2> QED
      BY <1>2, <2>1, <2>2, CallbackDrops DEF Store, AfterStore
  <1>3. ASSUME NEW t \in Threads, Beside(t) PROVE WorkLeft' < WorkLeft
    <2>1. Rank["waiting"] < Rank["beside"]
      BY DEF Rank
    <2>2. kind[t] # "new"
      BY <1>0, <1>3 DEF Beside, Step
    <2> QED
      BY <1>3, <2>1, <2>2, CallbackDrops DEF Beside
  <1>4. ASSUME NEW t \in Threads, Enter(t) PROVE WorkLeft' < WorkLeft
    <2>1. Rank["in"] < Rank["waiting"]
      BY DEF Rank
    <2> QED
      BY <1>4, <2>1, CallbackDrops DEF Enter
  <1>5. ASSUME NEW t \in Threads, Insert(t) PROVE WorkLeft' < WorkLeft
    BY <1>5, InsertDrops
  <1>6. ASSUME NEW t \in Threads, Enlist(t) PROVE WorkLeft' < WorkLeft
    BY <1>6, CallbackDrops DEF Enlist
  <1>7. ASSUME NEW t \in Threads, ScanFirst(t) PROVE WorkLeft' < WorkLeft
    <2>1. Rank["scanning"] < Rank["scan"]
      BY DEF Rank
    <2> QED
      BY <1>7, <2>1, CallbackDrops DEF ScanFirst, Unlock
  <1>8. ASSUME NEW t \in Threads, ScanOn(t) PROVE WorkLeft' < WorkLeft
    BY <1>8, ScanDrops
  <1>9. ASSUME NEW t \in Threads, ScanEnd(t) PROVE WorkLeft' < WorkLeft
    <2>1. Rank["releasing"] < Rank["scanning"]
      BY DEF Rank
    <2> QED
      BY <1>9, <2>1, CallbackDrops DEF ScanEnd
  <1>10. ASSUME NEW t \in Threads, Release(t) PROVE WorkLeft' < WorkLeft
    <2>1. /\ Rank["fresh"] < Rank["releasing"] /\ Rank["creating"] < Rank["releasing"]
          /\ Rank["again"] < Rank["releasing"] /\ Rank["idle"] < Rank["releasing"]
      BY DEF Rank
    <2> QED
      BY <1>10, <2>1, CallbackDrops DEF Release, AfterRelease, Unlock
  <1>11. ASSUME NEW t \in Threads, ReleaseAgain(t) PROVE WorkLeft' < WorkLeft
    <2>1. Rank["ended"] < Rank["again"]
      BY DEF Rank
    <2> QED
      BY <1>11, <2>1, CallbackDrops DEF ReleaseAgain, Unlock
  <1>12. ASSUME NEW t \in Threads, Spawn(t) PROVE WorkLeft' < WorkLeft
    BY <1>12, SpawnDrops
  <1>13. ASSUME NEW t \in Threads, SpawnFail(t) PROVE WorkLeft' < WorkLeft
    <2>1. Rank["idle"] < Rank["creating"]
      BY DEF Rank
    <2> QED
      BY <1>13, <2>1, CallbackDrops DEF SpawnFail
  <1> QED
    BY <1>1, <1>2, <1>3, <1>4, <1>5, <1>6, <1>7, <1>8, <1>9, <1>10, <1>11, <1>12,
       <1>13 DEF Next

\* The one that has the lock does not wait.
LEMMA SomeoneGoesOn ==
  ASSUME TypeInv, LockInv, NEW t \in Threads, pc[t] \in InCallback
  PROVE  \E u \in Threads : GoesOn(u)
  <1>1. CASE lock = Free
    BY <1>1 DEF GoesOn
  <1>2. CASE lock # Free
    <2>1. lock \in Threads /\ pc[lock] \in {"in", "scan", "releasing"}
      BY <1>2 DEF TypeInv, TypeOK, LockInv, LockIsReleased
    <2>2. GoesOn(lock)
      BY <2>1 DEF GoesOn, InCallback
    <2> QED
      BY <2>1, <2>2
  <1> QED
    BY <1>1, <1>2

\* For any number of threads and callbacks, the callbacks are never all waiting
\* for one another, and every step leaves less to do: the releases of a lock
\* that another thread has, and the walk over accessmap that goes on without
\* it, set no thread back.
THEOREM CallbacksLeaveLess == Spec => CallbacksAdvance
  <1>1. TypeInv /\ CallsInv => WorkLeft \in Nat
    BY WorkType DEF TypeInv
  <1>2. TypeInv /\ LockInv =>
          ((\E t \in Threads : pc[t] \in InCallback) => \E t \in Threads : GoesOn(t))
    BY SomeoneGoesOn
  <1>3. TypeInv /\ TypeInv' /\ CallsInv /\ CallsInv' /\ [Next]_vars
          => [WorkLeft' < WorkLeft]_vars
    BY NextDrops DEF TypeInv
  <1> QED
    BY <1>1, <1>2, <1>3, InitCalls, NextCalls, InitLock, NextLock, TypeInvariant, PTL
       DEF Spec, CallbacksAdvance

=============================================================================
