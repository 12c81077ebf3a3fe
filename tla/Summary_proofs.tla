-------------------------- MODULE Summary_proofs --------------------------
(***************************************************************************)
(* Proofs about Summary, for any threads, locks and lengths of history.    *)
(***************************************************************************)
EXTENDS Summary, FiniteSetTheorems, SequenceTheorems, TLAPS

FlagSet == {0, 1, 2, 7, 9, 11}
Entries == [addr : Locks \cup Barriers, tid : Threads, flag : FlagSet]
Requests == [thid : Threads, start : 0..MaxEvents, end : 0..MaxEvents, tFlag : {0, 1}]
Records == [tid : Threads, sync : Syncs]

Asking == {"lock", "trylock"}

\* Each routine has a lock of its kind; each request has a place in timeList.
Shape ==
  /\ \A t \in Threads :
       /\ within[t].rtn \in {"lock", "trylock", "unlock"} => within[t].addr \in Mutexes
       /\ within[t].rtn = "wait" => within[t].addr \in Semaphores
       /\ within[t].rtn \in {"requesting", "rwlock"} => within[t].addr \in RWLocks
       /\ within[t].rtn \in Asking =>
            /\ within[t].request \in DOMAIN timeList
            /\ timeList[within[t].request].thid = t
  /\ Len(answers) = Len(timeList)

TypeInv == TypeOK /\ Shape

-----------------------------------------------------------------------------
(* The table of locks.                                                     *)

LEMMA SameEntry ==
  \A t, u, a, b, f, g : Entry(t, a, f) = Entry(u, b, g) <=> t = u /\ a = b /\ f = g
  BY DEF Entry

\* What is in the table after the flags of one lock of one thread changed.
LEMMA Reflagging ==
  ASSUME NEW t, NEW a, NEW from, NEW to, from # to
  PROVE  \A e : e \in Reflag(t, a, from, to) <=>
           \/ e \in globalmutmap /\ e # Entry(t, a, from)
           \/ Entry(t, a, from) \in globalmutmap /\ e = Entry(t, a, to)
  BY DEF Reflag

LEMMA EntryType ==
  ASSUME NEW t \in Threads, NEW a \in Locks \cup Barriers, NEW f \in FlagSet
  PROVE  Entry(t, a, f) \in Entries
  BY DEF Entry, Entries

LEMMA ReflagType ==
  ASSUME globalmutmap \subseteq Entries, NEW t \in Threads, NEW a \in Locks \cup Barriers,
         NEW from \in FlagSet, NEW to \in FlagSet, from # to
  PROVE  Reflag(t, a, from, to) \subseteq Entries
  BY Reflagging, EntryType

LEMMA FlagValues ==
  /\ Flags.free = 0 /\ Flags.acquired = 1 /\ Flags.requested = 2
  /\ Flags.rwlock = 7 /\ Flags.barrier = 9 /\ Flags.semaphore = 11
  BY DEF Flags

LEMMA LockTypes ==
  /\ Mutexes \subseteq Locks /\ Semaphores \subseteq Locks /\ RWLocks \subseteq Locks
  /\ Locks \subseteq Nat /\ Barriers \subseteq Nat
  /\ Stores \subseteq [ip : STRING \ Routines, var : Nat]
  /\ \A s \in Stores : s.ip \in Ips /\ s.var \in Nat
  /\ Routines \subseteq Ips
  BY SummaryAssumption DEF Locks, Ips

-----------------------------------------------------------------------------
(* Types.                                                                  *)

LEMMA TypeParts ==
  TypeOK <=>
    /\ n \in 0..MaxEvents
    /\ globalmutmap \subseteq Entries
    /\ timeList \in Seq(Requests)
    /\ globalinmap \in [Ips -> Seq(Records)]
    /\ within \in [Threads -> [rtn : Routines \cup {"none", "requesting"},
                               addr : Locks \cup {0}, request : Nat]]
    /\ held \in [Threads -> SUBSET Locks]
    /\ missed \in BOOLEAN /\ released \in BOOLEAN
    /\ wrote \subseteq [tid : Threads, ip : Ips, var : Nat,
                        under : {"routine", "other", "mutex", "none"}]
    /\ answers \in Seq(0..MaxEvents)
  BY DEF TypeOK, Entries, FlagSet, Requests, Records

LEMMA InitType == Init => TypeInv
  <1> SUFFICES ASSUME Init PROVE TypeInv
    OBVIOUS
  <1>1. TypeOK
    <2>1. timeList \in Seq(Requests) /\ answers \in Seq(0..MaxEvents)
      BY DEF Init
    <2>2. globalinmap \in [Ips -> Seq(Records)]
      BY DEF Init
    <2>3. Outside \in [rtn : Routines \cup {"none", "requesting"}, addr : Locks \cup {0},
                      request : Nat]
      BY DEF Outside
    <2>4. within \in [Threads -> [rtn : Routines \cup {"none", "requesting"},
                                 addr : Locks \cup {0}, request : Nat]]
      BY <2>3 DEF Init
    <2>5. held \in [Threads -> SUBSET Locks] /\ n \in 0..MaxEvents
      BY SummaryAssumption DEF Init
    <2> QED
      BY <2>1, <2>2, <2>4, <2>5, TypeParts DEF Init
  <1>2. Shape
    BY DEF Init, Shape, Outside, Asking
  <1> QED
    BY <1>1, <1>2 DEF TypeInv

LEMMA EventType == ASSUME TypeOK, Event PROVE n \in 0..(MaxEvents - 1) /\ n' \in 0..MaxEvents
  BY SummaryAssumption DEF TypeOK, Event

LEMMA Tagwords == \A sync \in {"MUTEX", "SEMAPHORE", "RW_LOCK", "BARRIER"} : sync # Untagged
  BY Zenon DEF Untagged

LEMMA Tagged == \A f : SyncOf(f) # Untagged <=> f \in {2, 7, 9, 11}
  BY Tagwords, FlagValues DEF SyncOf

LEMMA TagTypes == \A f : SyncOf(f) \in Syncs
  BY Zenon DEF SyncOf, Syncs

LEMMA TagsType == ASSUME NEW t \in Threads PROVE Tags(t) \subseteq Syncs
  BY TagTypes DEF Tags, Syncs

\* The loop that ends a request leaves the length and the rest of the entries.
LEMMA EndRequestFacts ==
  ASSUME TypeOK, n \in 0..MaxEvents, NEW t \in Threads
  PROVE  /\ EndRequest(t) \in Seq(Requests)
         /\ Len(EndRequest(t)) = Len(timeList)
         /\ DOMAIN EndRequest(t) = DOMAIN timeList
         /\ \A i \in DOMAIN timeList :
              /\ EndRequest(t)[i].thid = timeList[i].thid
              /\ EndRequest(t)[i].start = timeList[i].start
              /\ EndRequest(t)[i].tFlag = timeList[i].tFlag
              /\ EndRequest(t)[i].end =
                   IF timeList[i].thid = t /\ \A j \in 1..(i - 1) : timeList[j].thid # t
                   THEN n ELSE timeList[i].end
  <1>1. timeList \in Seq(Requests)
    BY TypeParts
  <1>2. DOMAIN timeList = 1..Len(timeList) /\ Len(timeList) \in Nat
    BY <1>1
  <1>3. \A i \in DOMAIN timeList : timeList[i] \in Requests
    BY <1>1
  <1>4. \A i \in DOMAIN timeList :
          EndRequest(t)[i] =
            IF timeList[i].thid = t /\ \A j \in 1..(i - 1) : timeList[j].thid # t
            THEN [timeList[i] EXCEPT !.end = n] ELSE timeList[i]
    BY DEF EndRequest
  <1>5. \A i \in DOMAIN timeList : EndRequest(t)[i] \in Requests
    BY <1>3, <1>4 DEF Requests
  <1>6. DOMAIN EndRequest(t) = DOMAIN timeList
    BY DEF EndRequest
  <1>7. EndRequest(t) \in [1..Len(timeList) -> Requests]
    BY <1>2, <1>5, <1>6 DEF EndRequest
  <1>8. EndRequest(t) \in Seq(Requests) /\ Len(EndRequest(t)) = Len(timeList)
    BY <1>2, <1>7
  <1> QED
    BY <1>3, <1>4, <1>6, <1>8 DEF Requests

LEMMA SyncType == \A x \in Syncs, t \in Threads : [tid |-> t, sync |-> x] \in Records
  BY DEF Records

\* Events that leave timeList, answers, globalinmap and wrote alone.
LEMMA LockType ==
  ASSUME TypeInv, NEW t \in Threads, NEW w, NEW h \in SUBSET Locks,
         w \in [rtn : Routines \cup {"none", "requesting"}, addr : Locks \cup {0}, request : Nat],
         w.rtn \notin Asking,
         w.rtn = "unlock" => w.addr \in Mutexes,
         w.rtn = "wait" => w.addr \in Semaphores,
         w.rtn \in {"requesting", "rwlock"} => w.addr \in RWLocks,
         within' = [within EXCEPT ![t] = w],
         held' = [held EXCEPT ![t] = h],
         globalmutmap' \subseteq Entries,
         n' \in 0..MaxEvents, missed' \in BOOLEAN, released' \in BOOLEAN,
         UNCHANGED <<timeList, globalinmap, wrote, answers>>
  PROVE  TypeInv'
  <1>1. TypeOK'
    BY TypeParts DEF TypeInv, TypeOK, Entries, FlagSet, Requests, Records
  <1>2. Shape'
    BY TypeParts DEF TypeInv, Shape, Asking
  <1> QED
    BY <1>1, <1>2 DEF TypeInv

LEMMA OutsideType ==
  /\ Outside \in [rtn : Routines \cup {"none", "requesting"}, addr : Locks \cup {0}, request : Nat]
  /\ Outside.rtn = "none"
  BY DEF Outside

LEMMA RequestType ==
  ASSUME TypeInv, NEW t \in Threads, NEW m \in Mutexes, NEW rtn \in Asking,
         RequestMutex(t, m, rtn)
  PROVE  TypeInv'
  <1> DEFINE r == [thid |-> t, start |-> n, end |-> Unset,
                   tFlag |-> IF rtn = "trylock" THEN 1 ELSE 0]
  <1>1. n \in 0..MaxEvents /\ n' \in 0..MaxEvents /\ Unset \in 0..MaxEvents
    BY EventType, SummaryAssumption DEF RequestMutex, TypeInv, Unset
  <1>2. r \in Requests
    BY <1>1 DEF Requests
  <1>3. /\ timeList \in Seq(Requests) /\ answers \in Seq(0..MaxEvents)
        /\ Len(answers) = Len(timeList)
    BY TypeParts DEF TypeInv, Shape
  <1>4. timeList' = Append(timeList, r) /\ answers' = Append(answers, Unset)
    BY DEF RequestMutex
  <1> HIDE DEF r
  <1>5. /\ timeList' \in Seq(Requests) /\ answers' \in Seq(0..MaxEvents)
        /\ Len(answers') = Len(timeList')
        /\ Len(timeList') = Len(timeList) + 1
        /\ timeList'[Len(timeList) + 1] = r
        /\ \A i \in DOMAIN timeList : i \in DOMAIN timeList' /\ timeList'[i] = timeList[i]
        /\ Len(timeList) + 1 \in DOMAIN timeList'
    BY <1>1, <1>2, <1>3, <1>4
  <1>6. within' = [within EXCEPT ![t] = [rtn |-> rtn, addr |-> m, request |-> Len(timeList) + 1]]
    BY DEF RequestMutex, Calls
  <1>7. globalmutmap' \subseteq Entries
    BY EntryType, FlagValues, LockTypes, TypeParts DEF RequestMutex, TypeInv, FlagSet
  <1>8. UNCHANGED <<globalinmap, held, missed, released, wrote>>
    BY DEF RequestMutex
  <1>9. [rtn |-> rtn, addr |-> m, request |-> Len(timeList) + 1] \in
          [rtn : Routines \cup {"none", "requesting"}, addr : Locks \cup {0}, request : Nat]
    BY <1>3, LockTypes DEF Routines, Asking
  <1>10. TypeOK'
    BY <1>1, <1>5, <1>6, <1>7, <1>8, <1>9, TypeParts
       DEF TypeInv, TypeOK, Entries, FlagSet, Requests, Records
  <1>11. r.thid = t
    BY DEF r
  <1>12. Shape'
    BY <1>5, <1>6, <1>11, TypeParts DEF TypeInv, Shape, Asking
  <1> QED
    BY <1>10, <1>12 DEF TypeInv

LEMMA AcquireType ==
  ASSUME TypeInv, NEW t \in Threads, AcquireMutex(t)
  PROVE  TypeInv'
  <1>1. n \in 0..MaxEvents /\ n' \in 0..MaxEvents
    BY EventType, SummaryAssumption DEF AcquireMutex, TypeInv
  <1>2. /\ timeList' \in Seq(Requests) /\ Len(timeList') = Len(timeList)
        /\ DOMAIN timeList' = DOMAIN timeList
        /\ \A i \in DOMAIN timeList : timeList'[i].thid = timeList[i].thid
    BY <1>1, EndRequestFacts DEF AcquireMutex, TypeInv
  <1>3. answers' \in Seq(0..MaxEvents) /\ Len(answers') = Len(answers)
    <2>1. answers \in Seq(0..MaxEvents)
      BY TypeParts DEF TypeInv
    <2>2. answers' = [answers EXCEPT ![within[t].request] = n]
      BY DEF AcquireMutex
    <2>3. within[t].request \in 1..Len(answers)
      BY TypeParts DEF TypeInv, Shape, AcquireMutex, Asking
    <2> QED
      BY <1>1, <2>1, <2>2, <2>3, ExceptSeq
  <1>4. within[t].addr \in Mutexes
    BY DEF AcquireMutex, TypeInv, Shape
  <1>5. globalmutmap' \subseteq Entries
    <2>1. globalmutmap' = Reflag(t, within[t].addr, 2, 1)
      BY FlagValues DEF AcquireMutex
    <2> QED
      <3>1. globalmutmap \subseteq Entries /\ within[t].addr \in Locks \cup Barriers
        BY <1>4, LockTypes, TypeParts DEF TypeInv
      <3>2. 2 \in FlagSet /\ 1 \in FlagSet /\ 2 # 1
        BY DEF FlagSet
      <3> QED
        BY <2>1, <3>1, <3>2, ReflagType
  <1>6. held' \in [Threads -> SUBSET Locks] /\ missed' \in BOOLEAN
    BY <1>4, LockTypes, TypeParts DEF AcquireMutex, TypeInv
  <1>7. within' = [within EXCEPT ![t] = Outside]
    BY DEF AcquireMutex, Returns
  <1>8. UNCHANGED <<globalinmap, released, wrote>>
    BY DEF AcquireMutex
  <1>9. TypeOK'
    BY <1>1, <1>2, <1>3, <1>5, <1>6, <1>7, <1>8, OutsideType, TypeParts
       DEF TypeInv, TypeOK, Entries, FlagSet, Requests, Records
  <1>10. Shape'
    BY <1>2, <1>3, <1>7, OutsideType, TypeParts DEF TypeInv, Shape, Asking
  <1> QED
    BY <1>9, <1>10 DEF TypeInv

LEMMA BarrierType ==
  ASSUME TypeInv, NEW t \in Threads, NEW b \in Barriers, WaitBarrier(t, b)
  PROVE  TypeInv'
  <1>1. n' \in 0..MaxEvents
    BY EventType DEF WaitBarrier, TypeInv
  <1>2. globalmutmap' \subseteq Entries
    BY EntryType, FlagValues, TypeParts DEF WaitBarrier, TypeInv, FlagSet
  <1>3. globalinmap' \in [Ips -> Seq(Records)]
    <2>1. ASSUME NEW ip \in Ips PROVE globalinmap'[ip] \in Seq(Records)
      <3>1. globalinmap[ip] \in Seq(Records)
        BY TypeParts DEF TypeInv
      <3>2. \A i \in DOMAIN globalinmap[ip] : globalinmap[ip][i] \in Records
        BY <3>1
      <3>3. globalinmap'[ip] =
              [i \in DOMAIN globalinmap[ip] |->
                 IF globalinmap[ip][i].tid = t
                 THEN [globalinmap[ip][i] EXCEPT !.sync = "BARRIER"] ELSE globalinmap[ip][i]]
        BY DEF WaitBarrier
      <3>4. DOMAIN globalinmap[ip] = 1..Len(globalinmap[ip]) /\ Len(globalinmap[ip]) \in Nat
        BY <3>1
      <3>5. \A i \in DOMAIN globalinmap[ip] : globalinmap'[ip][i] \in Records
        <4>1. \A x \in Records : [x EXCEPT !.sync = "BARRIER"] \in Records
          BY DEF Records, Syncs
        <4> QED
          BY <3>2, <3>3, <4>1
      <3>6. globalinmap'[ip] \in [1..Len(globalinmap[ip]) -> Records]
        BY <3>3, <3>4, <3>5
      <3> QED
        BY <3>4, <3>6
    <2>2. globalinmap' = [ip \in Ips |-> globalinmap'[ip]]
      BY DEF WaitBarrier
    <2> QED
      BY <2>1, <2>2
  <1>4. UNCHANGED <<timeList, within, held, missed, released, wrote, answers>>
    BY DEF WaitBarrier
  <1>5. TypeOK'
    BY <1>1, <1>2, <1>3, <1>4, TypeParts DEF TypeInv, TypeOK, Entries, FlagSet, Requests, Records
  <1>6. Shape'
    BY <1>4, TypeParts DEF TypeInv, Shape
  <1> QED
    BY <1>5, <1>6 DEF TypeInv

LEMMA WriteType ==
  ASSUME TypeInv, NEW t \in Threads, NEW ip \in Ips, NEW var \in Nat,
         RecordMemWrite(t, ip, var)
  PROVE  TypeInv'
  <1>1. n' \in 0..MaxEvents
    BY EventType DEF RecordMemWrite, TypeInv
  <1>2. globalinmap' \in [Ips -> Seq(Records)]
    BY TagsType, SyncType, TypeParts DEF RecordMemWrite, TypeInv
  <1>3. Under(t) \in {"routine", "other", "mutex", "none"}
    BY DEF Under
  <1>4. UNCHANGED <<globalmutmap, timeList, within, held, missed, released, answers>>
    BY DEF RecordMemWrite
  <1>5. wrote' \subseteq [tid : Threads, ip : Ips, var : Nat,
                         under : {"routine", "other", "mutex", "none"}]
    BY <1>3, TypeParts DEF RecordMemWrite, TypeInv
  <1>6. TypeOK'
    BY <1>1, <1>2, <1>4, <1>5, TypeParts
       DEF TypeInv, TypeOK, Entries, FlagSet, Requests, Records
  <1>7. Shape'
    BY <1>4, TypeParts DEF TypeInv, Shape
  <1> QED
    BY <1>6, <1>7 DEF TypeInv

\* The writes of lock routines have an instruction and a variable of their own.
LEMMA WriteLockTypes ==
  ASSUME TypeInv, NEW t \in Threads, WriteLock(t)
  PROVE  within[t].rtn \in Ips /\ within[t].addr \in Nat
  <1>1. within[t].rtn \in Routines
    BY DEF WriteLock
  <1>2. within[t].addr \in Locks \cup {0}
    BY TypeParts DEF TypeInv
  <1>3. Routines \subseteq Ips /\ Locks \subseteq Nat
    BY LockTypes
  <1>4. 0 \in Nat
    OBVIOUS
  <1>5. Locks \cup {0} \subseteq Nat
    BY <1>3, <1>4, Zenon
  <1> QED
    BY <1>1, <1>2, <1>3, <1>5, Zenon

LEMMA NextType == TypeInv /\ [Next]_vars => TypeInv'
  <1> SUFFICES ASSUME TypeInv, [Next]_vars PROVE TypeInv'
    OBVIOUS
  <1> DEFINE Within == [rtn : Routines \cup {"none", "requesting"}, addr : Locks \cup {0},
                        request : Nat]
  <1>0. /\ globalmutmap \subseteq Entries
        /\ n \in 0..MaxEvents /\ missed \in BOOLEAN /\ released \in BOOLEAN
        /\ held \in [Threads -> SUBSET Locks] /\ within \in [Threads -> Within]
        /\ Event => n' \in 0..MaxEvents
        /\ \A f \in {0, 1, 2, 7, 9, 11} : f \in FlagSet
        /\ Outside \in Within /\ Outside.rtn = "none"
    BY TypeParts, EventType, OutsideType DEF TypeInv, FlagSet
  <1> HIDE DEF Within
  <1>1. ASSUME NEW t \in Threads, NEW m \in Mutexes, NEW rtn \in Asking, RequestMutex(t, m, rtn)
        PROVE  TypeInv'
    BY <1>1, RequestType
  <1>2. ASSUME NEW t \in Threads, AcquireMutex(t) PROVE TypeInv'
    BY <1>2, AcquireType
  <1>3. ASSUME NEW t \in Threads, NEW m \in Mutexes, UnlockMutex(t, m) PROVE TypeInv'
    <2> DEFINE w == [rtn |-> "unlock", addr |-> m, request |-> 0]
    <2>1. w \in Within /\ w.rtn = "unlock" /\ w.addr = m
      BY LockTypes DEF Within, Routines
    <2>2. globalmutmap' \subseteq Entries
      BY <1>0, <1>3, ReflagType, FlagValues, LockTypes DEF UnlockMutex
    <2>3. within' = [within EXCEPT ![t] = w]
      BY <1>3 DEF UnlockMutex, Calls
    <2>4. held' = [held EXCEPT ![t] = held[t] \ {m}] /\ held[t] \ {m} \in SUBSET Locks
      BY <1>0, <1>3 DEF UnlockMutex
    <2>5. /\ n' \in 0..MaxEvents
          /\ UNCHANGED <<timeList, globalinmap, missed, released, wrote, answers>>
      BY <1>0, <1>3 DEF UnlockMutex
    <2> HIDE DEF w
    <2> QED
      BY <1>0, <2>1, <2>2, <2>3, <2>4, <2>5, LockType DEF Asking, Within
  <1>4. ASSUME NEW t \in Threads, UnlockReturns(t) PROVE TypeInv'
    <2>1. /\ within' = [within EXCEPT ![t] = Outside]
          /\ held' = [held EXCEPT ![t] = held[t]] /\ held[t] \in SUBSET Locks
          /\ UNCHANGED <<n, globalmutmap, timeList, globalinmap, missed, released, wrote, answers>>
      BY <1>0, <1>4 DEF UnlockReturns, Returns
    <2> QED
      BY <1>0, <2>1, LockType DEF Asking, Within
  <1>5. ASSUME NEW t \in Threads, NEW s \in Semaphores, RequestSemaphore(t, s) PROVE TypeInv'
    <2> DEFINE w == [rtn |-> "wait", addr |-> s, request |-> 0]
    <2>1. w \in Within /\ w.rtn = "wait" /\ w.addr = s
      BY LockTypes DEF Within, Routines
    <2>2. globalmutmap' \subseteq Entries
      BY <1>0, <1>5, EntryType, FlagValues, LockTypes DEF RequestSemaphore
    <2>3. within' = [within EXCEPT ![t] = w]
      BY <1>5 DEF RequestSemaphore, Calls
    <2>4. /\ held' = [held EXCEPT ![t] = held[t]] /\ held[t] \in SUBSET Locks
          /\ n' \in 0..MaxEvents
          /\ UNCHANGED <<timeList, globalinmap, missed, released, wrote, answers>>
      BY <1>0, <1>5 DEF RequestSemaphore
    <2> HIDE DEF w
    <2> QED
      BY <1>0, <2>1, <2>2, <2>3, <2>4, LockType DEF Asking, Within
  <1>6. ASSUME NEW t \in Threads, AcquireSemaphore(t) PROVE TypeInv'
    <2>1. within[t].addr \in Semaphores
      BY <1>6 DEF AcquireSemaphore, TypeInv, Shape
    <2>2. globalmutmap' \subseteq Entries
      <3>1. globalmutmap' = Reflag(t, within[t].addr, 2, 11)
        BY <1>6, FlagValues DEF AcquireSemaphore
      <3>2. within[t].addr \in Locks \cup Barriers
        BY <2>1, LockTypes
      <3> QED
        BY <1>0, <3>1, <3>2, ReflagType
    <2>3. /\ within' = [within EXCEPT ![t] = Outside]
          /\ held' = [held EXCEPT ![t] = held[t] \cup {within[t].addr}]
          /\ held[t] \cup {within[t].addr} \in SUBSET Locks
          /\ n' \in 0..MaxEvents
          /\ UNCHANGED <<timeList, globalinmap, missed, released, wrote, answers>>
      BY <1>0, <1>6, <2>1, LockTypes DEF AcquireSemaphore, Returns
    <2> QED
      BY <1>0, <2>2, <2>3, LockType DEF Asking, Within
  <1>7. ASSUME NEW t \in Threads, NEW s \in Semaphores, PostSemaphore(t, s) PROVE TypeInv'
    <2>1. /\ within' = [within EXCEPT ![t] = Outside]
          /\ held' = [held EXCEPT ![t] = held[t] \ {s}] /\ held[t] \ {s} \in SUBSET Locks
          /\ released' \in BOOLEAN
          /\ UNCHANGED <<n, globalmutmap, timeList, globalinmap, missed, wrote, answers>>
      BY <1>0, <1>7 DEF PostSemaphore
    <2> QED
      BY <1>0, <2>1, LockType DEF Asking, Within
  <1>8. ASSUME NEW t \in Threads, NEW r \in RWLocks, RequestRWLock(t, r) PROVE TypeInv'
    <2> DEFINE w == [rtn |-> "requesting", addr |-> r, request |-> 0]
    <2>1. w \in Within /\ w.rtn = "requesting" /\ w.addr = r
      BY LockTypes DEF Within
    <2>2. globalmutmap' \subseteq Entries
      BY <1>0, <1>8, EntryType, FlagValues, LockTypes DEF RequestRWLock
    <2>3. within' = [within EXCEPT ![t] = w]
      BY <1>8 DEF RequestRWLock, Calls
    <2>4. /\ held' = [held EXCEPT ![t] = held[t]] /\ held[t] \in SUBSET Locks
          /\ n' \in 0..MaxEvents
          /\ UNCHANGED <<timeList, globalinmap, missed, released, wrote, answers>>
      BY <1>0, <1>8 DEF RequestRWLock
    <2> HIDE DEF w
    <2> QED
      BY <1>0, <2>1, <2>2, <2>3, <2>4, LockType DEF Asking, Within
  <1>9. ASSUME NEW t \in Threads, AcquireRWLock(t) PROVE TypeInv'
    <2> DEFINE w == [within[t] EXCEPT !.rtn = "rwlock"]
    <2>1. within[t].addr \in RWLocks
      BY <1>9 DEF AcquireRWLock, TypeInv, Shape
    <2>2. w \in Within /\ w.rtn = "rwlock" /\ w.addr = within[t].addr
      BY <1>0 DEF Within, Routines
    <2>3. globalmutmap' \subseteq Entries
      <3>1. globalmutmap' = Reflag(t, within[t].addr, 2, 7)
        BY <1>9, FlagValues DEF AcquireRWLock
      <3>2. within[t].addr \in Locks \cup Barriers
        BY <2>1, LockTypes
      <3> QED
        BY <1>0, <3>1, <3>2, ReflagType
    <2>4. /\ within' = [within EXCEPT ![t] = w]
          /\ held' = [held EXCEPT ![t] = held[t]] /\ held[t] \in SUBSET Locks
          /\ n' \in 0..MaxEvents
          /\ UNCHANGED <<timeList, globalinmap, missed, released, wrote, answers>>
      BY <1>0, <1>9 DEF AcquireRWLock
    <2> HIDE DEF w
    <2> QED
      BY <1>0, <2>1, <2>2, <2>3, <2>4, LockType DEF Asking, Within
  <1>10. ASSUME NEW t \in Threads, RWLockReturns(t) PROVE TypeInv'
    <2>1. within[t].addr \in RWLocks
      BY <1>10 DEF RWLockReturns, TypeInv, Shape
    <2>2. /\ within' = [within EXCEPT ![t] = Outside]
          /\ held' = [held EXCEPT ![t] = held[t] \cup {within[t].addr}]
          /\ held[t] \cup {within[t].addr} \in SUBSET Locks
          /\ UNCHANGED <<n, globalmutmap, timeList, globalinmap, missed, released, wrote, answers>>
      BY <1>0, <1>10, <2>1, LockTypes DEF RWLockReturns, Returns
    <2> QED
      BY <1>0, <2>2, LockType DEF Asking, Within
  <1>11. ASSUME NEW t \in Threads, NEW r \in RWLocks, UnlockRWLock(t, r) PROVE TypeInv'
    <2>1. globalmutmap' \subseteq Entries
      BY <1>0, <1>11, ReflagType, FlagValues, LockTypes DEF UnlockRWLock
    <2>2. /\ within' = [within EXCEPT ![t] = Outside]
          /\ held' = [held EXCEPT ![t] = held[t] \ {r}] /\ held[t] \ {r} \in SUBSET Locks
          /\ n' \in 0..MaxEvents /\ released' \in BOOLEAN
          /\ UNCHANGED <<timeList, globalinmap, missed, wrote, answers>>
      BY <1>0, <1>11 DEF UnlockRWLock
    <2> QED
      BY <1>0, <2>1, <2>2, LockType DEF Asking, Within
  <1>12. ASSUME NEW t \in Threads, NEW b \in Barriers, WaitBarrier(t, b) PROVE TypeInv'
    BY <1>12, BarrierType
  <1>13. ASSUME NEW t \in Threads, NEW s \in Stores, Write(t, s) PROVE TypeInv'
    BY <1>13, WriteType, LockTypes DEF Write
  <1>14. ASSUME NEW t \in Threads, WriteLock(t) PROVE TypeInv'
    <2>1. within[t].rtn \in Ips /\ within[t].addr \in Nat
      BY <1>14, WriteLockTypes
    <2> QED
      BY <1>14, <2>1, WriteType DEF WriteLock
  <1>15. ASSUME NEW t \in Threads, OtherEvent(t) PROVE TypeInv'
    BY <1>0, <1>15, TypeParts
       DEF OtherEvent, TypeInv, TypeOK, Shape, Entries, FlagSet, Requests, Records
  <1>16. CASE UNCHANGED vars
    BY <1>16 DEF vars, TypeInv, TypeOK, Shape
  <1> QED
    BY <1>1, <1>2, <1>3, <1>4, <1>5, <1>6, <1>7, <1>8, <1>9, <1>10, <1>11, <1>12,
       <1>13, <1>14, <1>15, <1>16 DEF Next, Asking

\* The tables keep their types, and requests their places in timeList.
THEOREM TypeInvariant == Spec => []TypeInv
  BY InitType, NextType, PTL DEF Spec

\* The variables have the types that TypeOK states.
THEOREM TypeCorrect == Spec => []TypeOK
  <1>1. TypeInv => TypeOK
    BY DEF TypeInv
  <1> QED
    BY <1>1, TypeInvariant, PTL

-----------------------------------------------------------------------------
(* The table and the locks.                                                *)

Pending == {"lock", "trylock", "wait", "requesting"}

\* The table has a request exactly for the routine that a thread waits in.
RequestsInv ==
  \A t \in Threads : \A a :
    Entry(t, a, 2) \in globalmutmap <=> within[t].rtn \in Pending /\ within[t].addr = a

\* Mutexes exclude each other, and the table knows who has them.
MutexInv ==
  /\ \A t, u \in Threads : t # u => held[t] \cap held[u] \cap Mutexes = {}
  /\ ~missed => \A t \in Threads : \A m \in Mutexes :
                  Entry(t, m, 1) \in globalmutmap <=> m \in held[t]

\* The table knows every semaphore and read-write lock that a thread has.
TakenInv ==
  \A t \in Threads :
    /\ \A s \in Semaphores : s \in held[t] => Entry(t, s, 11) \in globalmutmap
    /\ \A r \in RWLocks :
         r \in held[t] \/ (within[t].rtn = "rwlock" /\ within[t].addr = r)
           => Entry(t, r, 7) \in globalmutmap

\* Flags go with the kind of lock.
KindInv ==
  \A t \in Threads : \A a :
    /\ Entry(t, a, 11) \in globalmutmap => a \in Semaphores
    /\ Entry(t, a, 7) \in globalmutmap => a \in RWLocks

\* While none is released, a thread has all that the table has for it.
KeptInv ==
  ~released => \A t \in Threads : \A a :
    /\ Entry(t, a, 11) \in globalmutmap => a \in held[t]
    /\ Entry(t, a, 7) \in globalmutmap =>
         a \in held[t] \/ (within[t].rtn = "rwlock" /\ within[t].addr = a)

LockInv == RequestsInv /\ MutexInv /\ TakenInv /\ KindInv /\ KeptInv

LEMMA Disjoint ==
  \A a : /\ ~(a \in Mutexes /\ a \in Semaphores)
         /\ ~(a \in RWLocks /\ (a \in Mutexes \/ a \in Semaphores))
         /\ ~(a \in Barriers /\ (a \in Mutexes \/ a \in Semaphores \/ a \in RWLocks))
  BY SummaryAssumption DEF Locks

LEMMA Changes ==
  ASSUME NEW t, NEW a, NEW from, NEW to, from # to, globalmutmap' = Reflag(t, a, from, to)
  PROVE  \A u, b, f : Entry(u, b, f) \in globalmutmap' <=>
           \/ Entry(u, b, f) \in globalmutmap /\ ~(u = t /\ b = a /\ f = from)
           \/ Entry(t, a, from) \in globalmutmap /\ u = t /\ b = a /\ f = to
  BY Reflagging, SameEntry

LEMMA Adds ==
  ASSUME NEW t, NEW a, NEW g, globalmutmap' = globalmutmap \cup {Entry(t, a, g)}
  PROVE  \A u, b, f : Entry(u, b, f) \in globalmutmap' <=>
           Entry(u, b, f) \in globalmutmap \/ (u = t /\ b = a /\ f = g)
  BY SameEntry

LEMMA InitLock == Init => LockInv
  BY DEF Init, LockInv, RequestsInv, MutexInv, TakenInv, KindInv, KeptInv, Outside, Pending

LEMMA NextLock == TypeInv /\ LockInv /\ [Next]_vars => LockInv'
  <1> SUFFICES ASSUME TypeInv, LockInv, [Next]_vars PROVE LockInv'
    OBVIOUS
  <1>0. /\ DOMAIN within = Threads /\ DOMAIN held = Threads
        /\ Outside.rtn = "none"
        /\ "none" \notin Pending /\ "unlock" \notin Pending /\ "rwlock" \notin Pending
        /\ \A x \in {"lock", "trylock", "wait", "requesting"} : x \in Pending
    BY TypeParts, OutsideType DEF TypeInv, Pending
  <1>1. ASSUME NEW t \in Threads, NEW m \in Mutexes, NEW rtn \in Asking, RequestMutex(t, m, rtn)
        PROVE  LockInv'
    <2>1. globalmutmap' = globalmutmap \cup {Entry(t, m, 2)}
      BY <1>1, FlagValues DEF RequestMutex
    <2>2. /\ within[t] = Outside
          /\ within' = [within EXCEPT ![t] = [rtn |-> rtn, addr |-> m, request |-> Len(timeList) + 1]]
          /\ rtn \in Pending /\ rtn # "rwlock"
          /\ UNCHANGED <<held, missed, released>>
      BY <1>1 DEF RequestMutex, Calls, Asking, Pending
    <2>3. RequestsInv'
      BY <1>0, <2>1, <2>2, Adds DEF LockInv, RequestsInv
    <2>4. MutexInv' /\ TakenInv' /\ KindInv' /\ KeptInv'
      BY <1>0, <2>1, <2>2, Adds DEF LockInv, MutexInv, TakenInv, KindInv, KeptInv
    <2> QED
      BY <2>3, <2>4 DEF LockInv
  <1>2. ASSUME NEW t \in Threads, AcquireMutex(t) PROVE LockInv'
    <2> DEFINE m == within[t].addr
    <2>1. globalmutmap' = Reflag(t, m, 2, 1)
      BY <1>2, FlagValues DEF AcquireMutex
    <2>2. /\ within[t].rtn \in Pending /\ within[t].rtn # "rwlock" /\ m \in Mutexes
          /\ within' = [within EXCEPT ![t] = Outside]
          /\ UNCHANGED released
      BY <1>2 DEF AcquireMutex, Returns, Pending, TypeInv, Shape
    <2>3. \/ IsFree(m) /\ held' = [held EXCEPT ![t] = @ \cup {m}] /\ UNCHANGED missed
          \/ missed' = TRUE /\ UNCHANGED held
      BY <1>2 DEF AcquireMutex
    <2>4. Entry(t, m, 2) \in globalmutmap
      BY <2>2 DEF LockInv, RequestsInv
    <2> HIDE DEF m
    <2>5. RequestsInv'
      BY <1>0, <2>1, <2>2, Changes DEF LockInv, RequestsInv, m
    <2>6. MutexInv'
      BY <1>0, <2>1, <2>2, <2>3, <2>4, Changes DEF LockInv, MutexInv, IsFree
    <2>7. \A u \in Threads : \A b :
            /\ b \in held[u] => b \in held'[u]
            /\ b \notin Mutexes /\ b \in held'[u] => b \in held[u]
      BY <1>0, <2>2, <2>3
    <2>8. \A u \in Threads : within'[u].rtn = "rwlock" <=> within[u].rtn = "rwlock"
      BY <1>0, <2>2
    <2>9. \A u \in Threads : within'[u].rtn = "rwlock" => within'[u] = within[u]
      BY <1>0, <2>2
    <2>10. \A u, b : \A f \in {7, 11} : Entry(u, b, f) \in globalmutmap' <=> Entry(u, b, f) \in globalmutmap
      BY <2>1, Changes
    <2>11. TakenInv'
      BY <2>7, <2>8, <2>9, <2>10, Disjoint DEF LockInv, TakenInv
    <2>12. KindInv' /\ KeptInv'
      BY <2>2, <2>7, <2>8, <2>9, <2>10 DEF LockInv, KindInv, KeptInv
    <2> QED
      BY <2>5, <2>6, <2>11, <2>12 DEF LockInv
  <1>3. ASSUME NEW t \in Threads, NEW m \in Mutexes, UnlockMutex(t, m) PROVE LockInv'
    <2>1. globalmutmap' = Reflag(t, m, 1, 0)
      BY <1>3, FlagValues DEF UnlockMutex
    <2>2. /\ within[t] = Outside /\ UNCHANGED <<missed, released>>
          /\ within' = [within EXCEPT ![t] = [rtn |-> "unlock", addr |-> m, request |-> 0]]
          /\ held' = [held EXCEPT ![t] = @ \ {m}]
      BY <1>3 DEF UnlockMutex, Calls
    <2>3. RequestsInv'
      BY <1>0, <2>1, <2>2, Changes DEF LockInv, RequestsInv
    <2>4. MutexInv'
      BY <1>0, <2>1, <2>2, Changes DEF LockInv, MutexInv
    <2>6. \A u, b : \A f \in {7, 11} : Entry(u, b, f) \in globalmutmap' <=> Entry(u, b, f) \in globalmutmap
      BY <2>1, Changes
    <2>7. \A u \in Threads : \A b :
            /\ b \in held'[u] => b \in held[u]
            /\ b \notin Mutexes /\ b \in held[u] => b \in held'[u]
      BY <1>0, <2>2
    <2>8. \A u \in Threads : \A b :
            within'[u].rtn = "rwlock" /\ within'[u].addr = b
              <=> within[u].rtn = "rwlock" /\ within[u].addr = b
      BY <1>0, <2>2
    <2>9. TakenInv'
      BY <2>6, <2>7, <2>8, Disjoint DEF LockInv, TakenInv
    <2>10. KindInv'
      BY <2>6 DEF LockInv, KindInv
    <2>11. released' = released
      BY <2>2
    <2>12. \A u \in Threads : \A b : Entry(u, b, 11) \in globalmutmap \/ Entry(u, b, 7) \in globalmutmap
             => b \notin Mutexes
      BY Disjoint DEF LockInv, KindInv
    <2>13. KeptInv'
      BY <2>6, <2>7, <2>8, <2>11, <2>12 DEF LockInv, KeptInv
    <2>5. TakenInv' /\ KindInv' /\ KeptInv'
      BY <2>9, <2>10, <2>13
    <2> QED
      BY <2>3, <2>4, <2>5 DEF LockInv
  <1>4. ASSUME NEW t \in Threads, UnlockReturns(t) PROVE LockInv'
    <2>1. /\ within' = [within EXCEPT ![t] = Outside] /\ within[t].rtn = "unlock"
          /\ UNCHANGED <<globalmutmap, held, missed, released>>
      BY <1>4 DEF UnlockReturns, Returns
    <2> QED
      BY <1>0, <2>1 DEF LockInv, RequestsInv, MutexInv, TakenInv, KindInv, KeptInv, Entry
  <1>5. ASSUME NEW t \in Threads, NEW s \in Semaphores, RequestSemaphore(t, s) PROVE LockInv'
    <2>1. globalmutmap' = globalmutmap \cup {Entry(t, s, 2)}
      BY <1>5, FlagValues DEF RequestSemaphore
    <2>2. /\ within[t] = Outside /\ UNCHANGED <<held, missed, released>>
          /\ within' = [within EXCEPT ![t] = [rtn |-> "wait", addr |-> s, request |-> 0]]
      BY <1>5 DEF RequestSemaphore, Calls
    <2>3. RequestsInv'
      BY <1>0, <2>1, <2>2, Adds DEF LockInv, RequestsInv
    <2>4. MutexInv' /\ TakenInv' /\ KindInv' /\ KeptInv'
      BY <1>0, <2>1, <2>2, Adds DEF LockInv, MutexInv, TakenInv, KindInv, KeptInv
    <2> QED
      BY <2>3, <2>4 DEF LockInv
  <1>6. ASSUME NEW t \in Threads, AcquireSemaphore(t) PROVE LockInv'
    <2> DEFINE s == within[t].addr
    <2>1. globalmutmap' = Reflag(t, s, 2, 11)
      BY <1>6, FlagValues DEF AcquireSemaphore
    <2>2. /\ within[t].rtn \in Pending /\ within[t].rtn # "rwlock" /\ s \in Semaphores
          /\ within' = [within EXCEPT ![t] = Outside]
          /\ held' = [held EXCEPT ![t] = @ \cup {s}]
          /\ UNCHANGED <<missed, released>>
      BY <1>6 DEF AcquireSemaphore, Returns, Pending, TypeInv, Shape
    <2>4. Entry(t, s, 2) \in globalmutmap
      BY <2>2 DEF LockInv, RequestsInv
    <2> HIDE DEF s
    <2>5. RequestsInv'
      BY <1>0, <2>1, <2>2, Changes DEF LockInv, RequestsInv, s
    <2>6. MutexInv'
      BY <1>0, <2>1, <2>2, Changes, Disjoint DEF LockInv, MutexInv
    <2>7. TakenInv' /\ KindInv' /\ KeptInv'
      BY <1>0, <2>1, <2>2, <2>4, Changes, Disjoint DEF LockInv, TakenInv, KindInv, KeptInv
    <2> QED
      BY <2>5, <2>6, <2>7 DEF LockInv
  <1>7. ASSUME NEW t \in Threads, NEW s \in Semaphores, PostSemaphore(t, s) PROVE LockInv'
    <2>1. /\ UNCHANGED <<globalmutmap, within, missed>> /\ released' = TRUE
          /\ held' = [held EXCEPT ![t] = @ \ {s}]
      BY <1>7 DEF PostSemaphore
    <2> QED
      BY <1>0, <2>1, Disjoint DEF LockInv, RequestsInv, MutexInv, TakenInv, KindInv, KeptInv, Entry
  <1>8. ASSUME NEW t \in Threads, NEW r \in RWLocks, RequestRWLock(t, r) PROVE LockInv'
    <2>1. globalmutmap' = globalmutmap \cup {Entry(t, r, 2)}
      BY <1>8, FlagValues DEF RequestRWLock
    <2>2. /\ within[t] = Outside /\ UNCHANGED <<held, missed, released>>
          /\ within' = [within EXCEPT ![t] = [rtn |-> "requesting", addr |-> r, request |-> 0]]
      BY <1>8 DEF RequestRWLock, Calls
    <2>3. RequestsInv'
      BY <1>0, <2>1, <2>2, Adds DEF LockInv, RequestsInv
    <2>4. MutexInv' /\ TakenInv' /\ KindInv' /\ KeptInv'
      BY <1>0, <2>1, <2>2, Adds DEF LockInv, MutexInv, TakenInv, KindInv, KeptInv
    <2> QED
      BY <2>3, <2>4 DEF LockInv
  <1>9. ASSUME NEW t \in Threads, AcquireRWLock(t) PROVE LockInv'
    <2> DEFINE r == within[t].addr
    <2>1. globalmutmap' = Reflag(t, r, 2, 7)
      BY <1>9, FlagValues DEF AcquireRWLock
    <2>2. /\ within[t].rtn \in Pending /\ within[t].rtn # "rwlock" /\ r \in RWLocks
          /\ UNCHANGED <<held, missed, released>>
      BY <1>9 DEF AcquireRWLock, Pending, TypeInv, Shape
    <2>3. /\ DOMAIN within' = Threads
          /\ within'[t].rtn = "rwlock" /\ within'[t].addr = r
          /\ \A u \in Threads \ {t} : within'[u] = within[u]
      <3>1. within' = [within EXCEPT ![t].rtn = "rwlock"]
        BY <1>9 DEF AcquireRWLock
      <3>2. within[t] \in [rtn : Routines \cup {"none", "requesting"}, addr : Locks \cup {0}, request : Nat]
        BY TypeParts DEF TypeInv
      <3> QED
        BY <1>0, <3>1, <3>2
    <2>4. Entry(t, r, 2) \in globalmutmap
      BY <2>2 DEF LockInv, RequestsInv
    <2> HIDE DEF r
    <2>5. RequestsInv'
      BY <1>0, <2>1, <2>2, <2>3, Changes DEF LockInv, RequestsInv, r
    <2>6. MutexInv'
      BY <1>0, <2>1, <2>2, Changes, Disjoint DEF LockInv, MutexInv
    <2>7. TakenInv' /\ KindInv' /\ KeptInv'
      BY <1>0, <2>1, <2>2, <2>3, <2>4, Changes, Disjoint DEF LockInv, TakenInv, KindInv, KeptInv
    <2> QED
      BY <2>5, <2>6, <2>7 DEF LockInv
  <1>10. ASSUME NEW t \in Threads, RWLockReturns(t) PROVE LockInv'
    <2>1. /\ within[t].rtn = "rwlock" /\ within[t].addr \in RWLocks
          /\ within' = [within EXCEPT ![t] = Outside]
          /\ held' = [held EXCEPT ![t] = @ \cup {within[t].addr}]
          /\ UNCHANGED <<globalmutmap, missed, released>>
      BY <1>10 DEF RWLockReturns, Returns, TypeInv, Shape
    <2> QED
      BY <1>0, <2>1, Disjoint DEF LockInv, RequestsInv, MutexInv, TakenInv, KindInv, KeptInv, Entry
  <1>11. ASSUME NEW t \in Threads, NEW r \in RWLocks, UnlockRWLock(t, r) PROVE LockInv'
    <2>1. globalmutmap' = Reflag(t, r, 1, 0)
      BY <1>11, FlagValues DEF UnlockRWLock
    <2>2. /\ UNCHANGED <<within, missed>> /\ released' = TRUE
          /\ held' = [held EXCEPT ![t] = @ \ {r}]
      BY <1>11 DEF UnlockRWLock
    <2>3. RequestsInv'
      BY <1>0, <2>1, <2>2, Changes DEF LockInv, RequestsInv
    <2>4. MutexInv' /\ TakenInv' /\ KindInv' /\ KeptInv'
      BY <1>0, <2>1, <2>2, Changes, Disjoint DEF LockInv, MutexInv, TakenInv, KindInv, KeptInv
    <2> QED
      BY <2>3, <2>4 DEF LockInv
  <1>12. ASSUME NEW t \in Threads, NEW b \in Barriers, WaitBarrier(t, b) PROVE LockInv'
    <2>1. /\ globalmutmap' = globalmutmap \cup {Entry(t, b, 9)}
          /\ UNCHANGED <<within, held, missed, released>>
      BY <1>12, FlagValues DEF WaitBarrier
    <2> QED
      BY <2>1, Adds DEF LockInv, RequestsInv, MutexInv, TakenInv, KindInv, KeptInv
  <1>13. ASSUME UNCHANGED <<globalmutmap, within, held, missed, released>> PROVE LockInv'
    BY <1>13 DEF LockInv, RequestsInv, MutexInv, TakenInv, KindInv, KeptInv, Entry
  <1>14. ASSUME NEW t \in Threads, \/ \E s \in Stores : Write(t, s)
                                  \/ WriteLock(t)
                                  \/ OtherEvent(t)
         PROVE  LockInv'
    BY <1>13, <1>14 DEF Write, WriteLock, RecordMemWrite, OtherEvent
  <1> QED
    BY <1>1, <1>2, <1>3, <1>4, <1>5, <1>6, <1>7, <1>8, <1>9, <1>10, <1>11, <1>12,
       <1>13, <1>14 DEF Next, Asking, vars

\* The table of Fini is about the requests and the locks of the program.
THEOREM LockInvariant == Spec => []LockInv
  BY InitLock, NextLock, TypeInvariant, PTL DEF Spec

\* Until a trylock fails, Fini's table marks as acquired exactly the mutexes
\* that the threads have.
THEOREM TableIsRight == Spec => []TableAgrees
  <1>1. LockInv => TableAgrees
    BY FlagValues DEF LockInv, MutexInv, TableAgrees
  <1> QED
    BY <1>1, LockInvariant, PTL

-----------------------------------------------------------------------------
(* The records of writes.                                                  *)

\* A step records one write, or tags writes at a barrier, or does neither.
WriteStep ==
  \/ \E t \in Threads : \E ip \in Ips : \E var \in Nat : RecordMemWrite(t, ip, var)
  \/ \E t \in Threads : \E b \in Barriers : WaitBarrier(t, b)
  \/ UNCHANGED <<globalinmap, wrote>>

LEMMA NextWrite == TypeInv /\ [Next]_vars => WriteStep
  <1> SUFFICES ASSUME TypeInv, [Next]_vars PROVE WriteStep
    OBVIOUS
  <1>1. ASSUME NEW t \in Threads, NEW s \in Stores, Write(t, s) PROVE WriteStep
    BY <1>1, LockTypes DEF Write, WriteStep
  <1>2. ASSUME NEW t \in Threads, WriteLock(t) PROVE WriteStep
    <2>2. within[t].addr \in Nat /\ within[t].rtn \in Ips
      BY <1>2, WriteLockTypes
    <2> QED
      BY <1>2, <2>2 DEF WriteLock, WriteStep
  <1>3. ASSUME NEW t \in Threads, NEW b \in Barriers, WaitBarrier(t, b) PROVE WriteStep
    BY <1>3 DEF WriteStep
  <1>4. ASSUME NEW t \in Threads,
               \/ \E m \in Mutexes : \/ \E rtn \in {"lock", "trylock"} : RequestMutex(t, m, rtn)
                                     \/ UnlockMutex(t, m)
               \/ AcquireMutex(t) \/ UnlockReturns(t)
               \/ \E s \in Semaphores : RequestSemaphore(t, s) \/ PostSemaphore(t, s)
               \/ AcquireSemaphore(t)
               \/ \E r \in RWLocks : RequestRWLock(t, r) \/ UnlockRWLock(t, r)
               \/ AcquireRWLock(t) \/ RWLockReturns(t)
               \/ OtherEvent(t)
        PROVE  WriteStep
    BY <1>4 DEF WriteStep, RequestMutex, UnlockMutex, AcquireMutex, UnlockReturns,
         RequestSemaphore, PostSemaphore, AcquireSemaphore, RequestRWLock, UnlockRWLock,
         AcquireRWLock, RWLockReturns, OtherEvent
  <1> QED
    BY <1>1, <1>2, <1>3, <1>4 DEF Next, vars, WriteStep

\* Barriers stay in the table, and a release is not forgotten.
LEMMA NextBarrier ==
  [Next]_vars => /\ HasBarrier => HasBarrier'
                 /\ released => released'
  <1> SUFFICES ASSUME [Next]_vars
               PROVE  (HasBarrier => HasBarrier') /\ (released => released')
    OBVIOUS
  <1>1. ASSUME UNCHANGED globalmutmap PROVE HasBarrier => HasBarrier'
    BY <1>1 DEF HasBarrier
  <1>2. ASSUME NEW e, globalmutmap' = globalmutmap \cup {e} PROVE HasBarrier => HasBarrier'
    BY <1>2 DEF HasBarrier
  <1>3. ASSUME NEW t, NEW a, NEW from, NEW to, from # to, from # 9,
               globalmutmap' = Reflag(t, a, from, to)
        PROVE  HasBarrier => HasBarrier'
    <2> SUFFICES ASSUME NEW e \in globalmutmap, e.flag = 9
                 PROVE  e \in globalmutmap'
      BY FlagValues DEF HasBarrier
    <2>1. e # Entry(t, a, from)
      BY <1>3 DEF Entry
    <2> QED
      BY <1>3, <2>1, Reflagging
  <1>4. ASSUME Next PROVE released => released'
    BY <1>4 DEF Next, WriteLock, Write, RecordMemWrite, RequestMutex, UnlockMutex, AcquireMutex,
         UnlockReturns, RequestSemaphore, PostSemaphore, AcquireSemaphore, RequestRWLock,
         UnlockRWLock, AcquireRWLock, RWLockReturns, WaitBarrier, OtherEvent
  <1>5. ASSUME NEW t \in Threads, NEW a,
               RequestMutex(t, a, "lock") \/ RequestMutex(t, a, "trylock")
               \/ RequestSemaphore(t, a) \/ RequestRWLock(t, a) \/ WaitBarrier(t, a)
        PROVE  HasBarrier => HasBarrier'
    BY <1>2, <1>5 DEF RequestMutex, RequestSemaphore, RequestRWLock, WaitBarrier
  <1>6. ASSUME NEW t \in Threads,
               AcquireMutex(t) \/ AcquireSemaphore(t) \/ AcquireRWLock(t)
               \/ \E a : UnlockMutex(t, a) \/ UnlockRWLock(t, a)
        PROVE  HasBarrier => HasBarrier'
    BY <1>3, <1>6, FlagValues
       DEF AcquireMutex, AcquireSemaphore, AcquireRWLock, UnlockMutex, UnlockRWLock
  <1>7. ASSUME NEW t \in Threads,
               \/ UnlockReturns(t) \/ RWLockReturns(t) \/ WriteLock(t) \/ OtherEvent(t)
               \/ \E a : PostSemaphore(t, a) \/ Write(t, a)
        PROVE  HasBarrier => HasBarrier'
    BY <1>1, <1>7 DEF UnlockReturns, RWLockReturns, WriteLock, OtherEvent, PostSemaphore,
         Write, RecordMemWrite
  <1> QED
    BY <1>1, <1>4, <1>5, <1>6, <1>7 DEF Next, vars

\* A write with a semaphore or read-write lock was tagged; a write without a
\* lock was not, as long as nothing stays in the table after its release.
TagsInv ==
  \A w \in wrote :
    LET records == globalinmap[w.ip]
    IN  /\ w.under = "other" => \E i \in DOMAIN records : records[i].sync # Untagged
        /\ ~released /\ ~HasBarrier /\ w.under = "none" =>
             \E i \in DOMAIN records : records[i].sync = Untagged

LEMMA GlobalTags ==
  ASSUME NEW ip \in glist, NEW i \in DOMAIN globalinmap[ip]
  PROVE  globalinmap[ip][i].sync \in GlobalSyncs
  <1>1. globalinmap[ip][i].sync \in {globalinmap[ip][j].sync : j \in DOMAIN globalinmap[ip]}
    OBVIOUS
  <1> QED
    BY <1>1, Zenon DEF GlobalSyncs

LEMMA TagsOfLocked ==
  ASSUME LockInv, NEW t \in Threads, Under(t) = "other", NEW sync \in Tags(t)
  PROVE  sync # Untagged
  <1>1. PICK a : a \in held[t] /\ a \in Semaphores \cup RWLocks
    BY DEF Under
  <1>2. Entry(t, a, 11) \in globalmutmap \/ Entry(t, a, 7) \in globalmutmap
    BY <1>1 DEF LockInv, TakenInv
  <1>3. SyncOf(11) # Untagged /\ SyncOf(7) # Untagged
    BY Tagged
  <1>4. Tagging(t) # {}
    BY <1>2, <1>3 DEF Tagging, Entry
  <1> QED
    BY <1>4 DEF Tags, Last, Tagging

LEMMA TagsOfBare ==
  ASSUME TypeInv, LockInv, ~released, ~HasBarrier, NEW t \in Threads, Under(t) = "none",
         NEW sync \in Tags(t)
  PROVE  sync = Untagged
  <1>1. within[t] = Outside /\ held[t] = {}
    <2>1. held[t] \subseteq Locks
      BY TypeParts DEF TypeInv
    <2> QED
      BY <2>1 DEF Under, Locks
  <1>2. ASSUME NEW e \in Tagging(t) PROVE FALSE
    <2>1. e \in Entries /\ e \in globalmutmap /\ e.tid = t /\ SyncOf(e.flag) # Untagged
      BY TypeParts DEF TypeInv, Tagging
    <2>2. e = Entry(t, e.addr, e.flag)
      BY <2>1 DEF Entries, Entry
    <2>3. e.flag \in {2, 7, 9, 11}
      BY <2>1, Tagged
    <2>4. e.flag # 9
      BY <2>1, FlagValues DEF HasBarrier
    <2>5. e.flag # 2
      BY <1>1, <2>1, <2>2 DEF LockInv, RequestsInv, Pending, Outside
    <2>6. e.flag # 11 /\ e.flag # 7
      BY <1>1, <2>1, <2>2 DEF LockInv, KeptInv, Outside
    <2> QED
      BY <2>3, <2>4, <2>5, <2>6
  <1> QED
    BY <1>2 DEF Tags

LEMMA NextTags == TypeInv /\ LockInv /\ TagsInv /\ [Next]_vars => TagsInv'
  <1> SUFFICES ASSUME TypeInv, LockInv, TagsInv, [Next]_vars PROVE TagsInv'
    OBVIOUS
  <1>0. globalinmap \in [Ips -> Seq(Records)] /\ \A w \in wrote : w.ip \in Ips
    BY TypeParts DEF TypeInv
  <1>1. ASSUME NEW t \in Threads, NEW ip \in Ips, NEW var \in Nat, RecordMemWrite(t, ip, var)
        PROVE  TagsInv'
    <2>1. PICK sync \in Tags(t) :
            globalinmap' = [globalinmap EXCEPT ![ip] = Append(@, [tid |-> t, sync |-> sync])]
      BY <1>1 DEF RecordMemWrite
    <2> DEFINE new == [tid |-> t, ip |-> ip, var |-> var, under |-> Under(t)]
    <2>2. wrote' = wrote \cup {new} /\ UNCHANGED <<released, globalmutmap>>
      BY <1>1 DEF RecordMemWrite
    <2>3. \A p \in Ips : \A i \in DOMAIN globalinmap[p] :
            /\ i \in DOMAIN globalinmap'[p] /\ globalinmap'[p][i] = globalinmap[p][i]
      BY <1>0, <2>1
    <2>4. /\ Len(globalinmap[ip]) + 1 \in DOMAIN globalinmap'[ip]
          /\ globalinmap'[ip][Len(globalinmap[ip]) + 1].sync = sync
      BY <1>0, <2>1
    <2>5. HasBarrier' = HasBarrier
      BY <2>2 DEF HasBarrier
    <2>6. Under(t) = "other" => sync # Untagged
      BY TagsOfLocked
    <2>7. Under(t) = "none" /\ ~released /\ ~HasBarrier => sync = Untagged
      BY TagsOfBare
    <2>8. ASSUME NEW w \in wrote
          PROVE  LET records == globalinmap'[w.ip]
                 IN  /\ w.under = "other" => \E i \in DOMAIN records : records[i].sync # Untagged
                     /\ ~released' /\ ~HasBarrier' /\ w.under = "none" =>
                          \E i \in DOMAIN records : records[i].sync = Untagged
      BY <1>0, <2>2, <2>3, <2>5 DEF TagsInv
    <2>9. LET records == globalinmap'[new.ip]
          IN  /\ new.under = "other" => \E i \in DOMAIN records : records[i].sync # Untagged
              /\ ~released' /\ ~HasBarrier' /\ new.under = "none" =>
                   \E i \in DOMAIN records : records[i].sync = Untagged
      BY <2>2, <2>4, <2>5, <2>6, <2>7
    <2> HIDE DEF new
    <2> QED
      BY <2>2, <2>8, <2>9 DEF TagsInv
  <1>2. ASSUME NEW t \in Threads, NEW b \in Barriers, WaitBarrier(t, b) PROVE TagsInv'
    <2>1. /\ wrote' = wrote
          /\ \A p \in Ips : DOMAIN globalinmap'[p] = DOMAIN globalinmap[p]
          /\ \A p \in Ips : \A i \in DOMAIN globalinmap[p] :
               globalinmap[p][i].sync # Untagged => globalinmap'[p][i].sync # Untagged
      <3>1. ASSUME NEW p \in Ips, NEW i \in DOMAIN globalinmap[p]
            PROVE  globalinmap[p][i].sync # Untagged => globalinmap'[p][i].sync # Untagged
        <4>1. globalinmap[p][i] \in Records
          BY <1>0
        <4>2. globalinmap'[p][i] = IF globalinmap[p][i].tid = t
                THEN [globalinmap[p][i] EXCEPT !.sync = "BARRIER"] ELSE globalinmap[p][i]
          BY <1>2 DEF WaitBarrier
        <4> QED
          BY <4>1, <4>2, Tagwords DEF Records
      <3>2. \A p \in Ips : DOMAIN globalinmap'[p] = DOMAIN globalinmap[p]
        BY <1>2 DEF WaitBarrier
      <3>3. wrote' = wrote
        BY <1>2 DEF WaitBarrier
      <3> QED
        BY <3>1, <3>2, <3>3
    <2>2. HasBarrier'
      <3>1. Entry(t, b, 9) \in globalmutmap' /\ Entry(t, b, 9).flag = 9
        BY <1>2, FlagValues DEF WaitBarrier, Entry
      <3> QED
        BY <3>1, FlagValues DEF HasBarrier
    <2> QED
      BY <1>0, <2>1, <2>2 DEF TagsInv
  <1>3. CASE UNCHANGED <<globalinmap, wrote>>
    BY <1>3, NextBarrier DEF TagsInv
  <1> QED
    BY <1>1, <1>2, <1>3, NextWrite DEF WriteStep

\* Fini tags what was written with a lock of the last two kinds, and not what was
\* written bare.
THEOREM TagsInvariant == Spec => []TagsInv
  <1>1. Init => TagsInv
    BY DEF Init, TagsInv
  <1> QED
    BY <1>1, NextTags, TypeInvariant, LockInvariant, PTL DEF Spec

\* A program that Fini finds totally unsafe made no write to a global variable
\* with a semaphore or a read-write lock.
THEOREM UnsafeIsUnlocked == Spec => []UnsafeIsBare
  <1>1. TypeInv /\ TagsInv => UnsafeIsBare
    <2> SUFFICES ASSUME TypeInv, TagsInv, SafetyDecider = 1,
                        NEW w \in GlobalWrites, w.under = "other"
                 PROVE  FALSE
      BY DEF UnsafeIsBare
    <2>1. GlobalSyncs = {Untagged}
      BY DEF SafetyDecider
    <2>2. w \in wrote /\ w.ip \in glist
      BY DEF GlobalWrites
    <2>3. PICK i \in DOMAIN globalinmap[w.ip] : globalinmap[w.ip][i].sync # Untagged
      BY <2>2 DEF TagsInv
    <2> QED
      BY <2>1, <2>2, <2>3, GlobalTags
  <1> QED
    BY <1>1, TypeInvariant, TagsInvariant, PTL

\* A program that Fini finds totally safe made no write to a global variable
\* without a lock, if no semaphore or read-write lock was released and no
\* barrier used.
THEOREM SafeIsLocked == Spec => []SafeIsSafe
  <1>1. TypeInv /\ TagsInv => SafeIsSafe
    <2> SUFFICES ASSUME TypeInv, TagsInv, SafetyDecider = 3, ~released, ~HasBarrier,
                        NEW w \in GlobalWrites, w.under = "none"
                 PROVE  FALSE
      BY DEF SafeIsSafe
    <2>1. Untagged \notin GlobalSyncs
      BY DEF SafetyDecider
    <2>2. w \in wrote /\ w.ip \in glist
      BY DEF GlobalWrites
    <2>3. PICK i \in DOMAIN globalinmap[w.ip] : globalinmap[w.ip][i].sync = Untagged
      BY <2>2 DEF TagsInv
    <2> QED
      BY <2>1, <2>2, <2>3, GlobalTags
  <1> QED
    BY <1>1, TypeInvariant, TagsInvariant, PTL

-----------------------------------------------------------------------------
(* The writers of a record list.                                           *)

\* Every write has a record, every record a write; and records that do not
\* change thread from one to the next are all of one thread.
WritersInv ==
  /\ \A w \in wrote : \E i \in DOMAIN globalinmap[w.ip] : globalinmap[w.ip][i].tid = w.tid
  /\ \A ip \in Ips : \A i \in DOMAIN globalinmap[ip] :
       \E w \in wrote : w.ip = ip /\ w.tid = globalinmap[ip][i].tid
  /\ \A ip \in Ips \ glist : \A i, j \in DOMAIN globalinmap[ip] :
       globalinmap[ip][i].tid = globalinmap[ip][j].tid

LEMMA NextWriters == TypeInv /\ WritersInv /\ [Next]_vars => WritersInv'
  <1> SUFFICES ASSUME TypeInv, WritersInv, [Next]_vars PROVE WritersInv'
    OBVIOUS
  <1>0. globalinmap \in [Ips -> Seq(Records)] /\ \A w \in wrote : w.ip \in Ips
    BY TypeParts DEF TypeInv
  <1>1. ASSUME NEW t \in Threads, NEW ip \in Ips, NEW var \in Nat, RecordMemWrite(t, ip, var)
        PROVE  WritersInv'
    <2>1. PICK sync :
            globalinmap' = [globalinmap EXCEPT ![ip] = Append(@, [tid |-> t, sync |-> sync])]
      BY <1>1 DEF RecordMemWrite
    <2> DEFINE new == [tid |-> t, ip |-> ip, var |-> var, under |-> Under(t)]
               last == Len(globalinmap[ip]) + 1
    <2>2. wrote' = wrote \cup {new} /\ new.ip = ip /\ new.tid = t
      BY <1>1 DEF RecordMemWrite
    <2>3. /\ \A p \in Ips \ {ip} : globalinmap'[p] = globalinmap[p]
          /\ DOMAIN globalinmap'[ip] = DOMAIN globalinmap[ip] \cup {last}
          /\ Len(globalinmap'[ip]) = last /\ last \in Nat \ {0}
          /\ DOMAIN globalinmap[ip] = 1..(last - 1)
          /\ \A i \in DOMAIN globalinmap[ip] : globalinmap'[ip][i] = globalinmap[ip][i]
          /\ globalinmap'[ip][last].tid = t
      BY <1>0, <2>1
    <2>7. \A p \in Ips : \A i \in DOMAIN globalinmap[p] :
            i \in DOMAIN globalinmap'[p] /\ globalinmap'[p][i] = globalinmap[p][i]
      BY <1>0, <2>1
    <2> HIDE DEF new, last
    <2>4. \A w \in wrote' : \E i \in DOMAIN globalinmap'[w.ip] : globalinmap'[w.ip][i].tid = w.tid
      <3> SUFFICES ASSUME NEW w \in wrote'
                   PROVE  \E i \in DOMAIN globalinmap'[w.ip] : globalinmap'[w.ip][i].tid = w.tid
        OBVIOUS
      <3>1. CASE w = new
        BY <2>2, <2>3, <3>1
      <3>2. CASE w \in wrote
        <4>1. PICK i \in DOMAIN globalinmap[w.ip] : globalinmap[w.ip][i].tid = w.tid
          BY <3>2 DEF WritersInv
        <4>2. i \in DOMAIN globalinmap'[w.ip] /\ globalinmap'[w.ip][i] = globalinmap[w.ip][i]
          BY <1>0, <2>7, <3>2
        <4> QED
          BY <4>1, <4>2
      <3> QED
        BY <2>2, <3>1, <3>2
    <2>5. \A p \in Ips : \A i \in DOMAIN globalinmap'[p] :
            \E w \in wrote' : w.ip = p /\ w.tid = globalinmap'[p][i].tid
      <3> SUFFICES ASSUME NEW p \in Ips, NEW i \in DOMAIN globalinmap'[p]
                   PROVE  \E w \in wrote' : w.ip = p /\ w.tid = globalinmap'[p][i].tid
        OBVIOUS
      <3>1. CASE p = ip /\ i = last
        BY <2>2, <2>3, <3>1
      <3>2. CASE ~(p = ip /\ i = last)
        BY <2>2, <2>3, <3>2 DEF WritersInv
      <3> QED
        BY <3>1, <3>2
    <2>6. \A p \in Ips \ glist' : \A i, j \in DOMAIN globalinmap'[p] :
            globalinmap'[p][i].tid = globalinmap'[p][j].tid
      <3> SUFFICES ASSUME NEW p \in Ips \ glist'
                   PROVE  \A i, j \in DOMAIN globalinmap'[p] :
                            globalinmap'[p][i].tid = globalinmap'[p][j].tid
        OBVIOUS
      <3>1. CASE p # ip
        <4>1. globalinmap'[p] = globalinmap[p]
          BY <2>3, <3>1
        <4>2. p \notin glist
          BY <4>1 DEF glist
        <4> QED
          BY <4>1, <4>2 DEF WritersInv
      <3>2. CASE p = ip
        <4>1. \A i \in 1..(last - 1) : globalinmap'[ip][i].tid = globalinmap'[ip][i + 1].tid
          BY <2>3, <3>2 DEF glist
        <4>2. \A i \in 1..(last - 2) : globalinmap[ip][i].tid = globalinmap[ip][i + 1].tid
          <5> SUFFICES ASSUME NEW i \in 1..(last - 2)
                       PROVE  globalinmap[ip][i].tid = globalinmap[ip][i + 1].tid
            OBVIOUS
          <5>1. i \in 1..(last - 1) /\ i + 1 \in 1..(last - 1) /\ last \in Nat
            BY <2>3
          <5>2. globalinmap'[ip][i].tid = globalinmap'[ip][i + 1].tid
            BY <4>1, <5>1
          <5>3. /\ globalinmap'[ip][i] = globalinmap[ip][i]
                /\ globalinmap'[ip][i + 1] = globalinmap[ip][i + 1]
            BY <2>3, <5>1
          <5> QED
            BY <5>2, <5>3
        <4>3. ip \notin glist
          BY <1>0, <2>3, <4>2 DEF glist, last
        <4>4. \A i, j \in 1..(last - 1) : globalinmap[ip][i].tid = globalinmap[ip][j].tid
          BY <2>3, <4>3 DEF WritersInv
        <4>5. \A i \in 1..(last - 1) : globalinmap'[ip][i].tid = globalinmap'[ip][last].tid
          <5>1. CASE last = 1
            BY <5>1
          <5>2. CASE last > 1
            <6>1. last - 1 \in 1..(last - 1) /\ (last - 1) + 1 = last
              BY <2>3, <5>2
            <6>2. globalinmap'[ip][last - 1].tid = globalinmap'[ip][last].tid
              BY <4>1, <6>1
            <6> QED
              <7> SUFFICES ASSUME NEW i \in 1..(last - 1)
                           PROVE  globalinmap'[ip][i].tid = globalinmap'[ip][last].tid
                OBVIOUS
              <7>1. globalinmap[ip][i].tid = globalinmap[ip][last - 1].tid
                BY <4>4, <6>1
              <7>2. /\ globalinmap'[ip][i] = globalinmap[ip][i]
                    /\ globalinmap'[ip][last - 1] = globalinmap[ip][last - 1]
                BY <2>3, <6>1
              <7> QED
                BY <6>2, <7>1, <7>2
          <5> QED
            BY <2>3, <5>1, <5>2
        <4> QED
          BY <2>3, <3>2, <4>4, <4>5
      <3> QED
        BY <3>1, <3>2
    <2> QED
      BY <2>4, <2>5, <2>6 DEF WritersInv
  <1>2. ASSUME NEW t \in Threads, NEW b \in Barriers, WaitBarrier(t, b) PROVE WritersInv'
    <2>1. \A p \in Ips : DOMAIN globalinmap'[p] = DOMAIN globalinmap[p]
      BY <1>2 DEF WaitBarrier
    <2>2. \A p \in Ips : Len(globalinmap'[p]) = Len(globalinmap[p])
      BY <1>0, <1>2 DEF WaitBarrier
    <2>3. \A p \in Ips : \A i \in DOMAIN globalinmap[p] : globalinmap'[p][i].tid = globalinmap[p][i].tid
      <3>1. ASSUME NEW p \in Ips, NEW i \in DOMAIN globalinmap[p]
            PROVE  globalinmap'[p][i].tid = globalinmap[p][i].tid
        <4>1. globalinmap[p][i] \in Records
          BY <1>0
        <4>2. globalinmap'[p][i] = IF globalinmap[p][i].tid = t
                THEN [globalinmap[p][i] EXCEPT !.sync = "BARRIER"] ELSE globalinmap[p][i]
          BY <1>2 DEF WaitBarrier
        <4> QED
          BY <4>1, <4>2 DEF Records
      <3> QED
        BY <3>1
    <2>4. wrote' = wrote
      BY <1>2 DEF WaitBarrier
    <2>5. glist' = glist
      <3>1. \A p \in Ips : DOMAIN globalinmap[p] = 1..Len(globalinmap[p]) /\ Len(globalinmap[p]) \in Nat
        BY <1>0
      <3>2. ASSUME NEW p \in Ips, NEW i \in 1..(Len(globalinmap[p]) - 1)
            PROVE  globalinmap'[p][i].tid # globalinmap'[p][i + 1].tid
                     <=> globalinmap[p][i].tid # globalinmap[p][i + 1].tid
        <4>1. i \in DOMAIN globalinmap[p] /\ i + 1 \in DOMAIN globalinmap[p]
          BY <3>1
        <4> QED
          BY <2>3, <4>1
      <3> QED
        BY <2>2, <3>2 DEF glist
    <2>6. \A w \in wrote : \E i \in DOMAIN globalinmap'[w.ip] : globalinmap'[w.ip][i].tid = w.tid
      <3> SUFFICES ASSUME NEW w \in wrote
                   PROVE  \E i \in DOMAIN globalinmap'[w.ip] : globalinmap'[w.ip][i].tid = w.tid
        OBVIOUS
      <3>1. PICK i \in DOMAIN globalinmap[w.ip] : globalinmap[w.ip][i].tid = w.tid
        BY DEF WritersInv
      <3>2. i \in DOMAIN globalinmap'[w.ip] /\ globalinmap'[w.ip][i].tid = globalinmap[w.ip][i].tid
        BY <1>0, <2>1, <2>3
      <3> QED
        BY <3>1, <3>2
    <2>7. \A ip \in Ips : \A i \in DOMAIN globalinmap'[ip] :
            \E w \in wrote : w.ip = ip /\ w.tid = globalinmap'[ip][i].tid
      BY <2>1, <2>3 DEF WritersInv
    <2>8. \A ip \in Ips \ glist : \A i, j \in DOMAIN globalinmap'[ip] :
            globalinmap'[ip][i].tid = globalinmap'[ip][j].tid
      BY <2>1, <2>3 DEF WritersInv
    <2> QED
      BY <2>4, <2>5, <2>6, <2>7, <2>8 DEF WritersInv
  <1>3. CASE UNCHANGED <<globalinmap, wrote>>
    BY <1>3 DEF WritersInv, glist
  <1> QED
    BY <1>1, <1>2, <1>3, NextWrite DEF WriteStep

\* The records of an instruction name the threads that wrote through it.
THEOREM WritersInvariant == Spec => []WritersInv
  <1>1. Init => WritersInv
    BY DEF Init, WritersInv
  <1> QED
    BY <1>1, NextWriters, TypeInvariant, PTL DEF Spec

\* Where instructions and variables are one to one, the report has global
\* variables exactly when two threads wrote to one variable.
THEOREM SharedIsReported == Spec => []SharedIsFound
  <1>1. TypeInv /\ WritersInv => SharedIsFound
    <2> SUFFICES ASSUME TypeInv, WritersInv, OneToOne
                 PROVE  GlobalPresent <=> SomeShared
      BY DEF SharedIsFound
    <2>0. globalinmap \in [Ips -> Seq(Records)] /\ \A w \in wrote : w.ip \in Ips
      BY TypeParts DEF TypeInv
    <2>1. ASSUME GlobalPresent PROVE SomeShared
      <3>1. PICK ip \in Ips : \E i \in 1..(Len(globalinmap[ip]) - 1) :
               globalinmap[ip][i].tid # globalinmap[ip][i + 1].tid
        BY <2>1 DEF GlobalPresent, glist
      <3>2. PICK i \in 1..(Len(globalinmap[ip]) - 1) :
               globalinmap[ip][i].tid # globalinmap[ip][i + 1].tid
        BY <3>1
      <3>3. i \in DOMAIN globalinmap[ip] /\ i + 1 \in DOMAIN globalinmap[ip]
        BY <2>0
      <3>4. \E v, w \in wrote : v.ip = ip /\ w.ip = ip /\ v.tid # w.tid
        BY <3>2, <3>3 DEF WritersInv
      <3> QED
        BY <3>4 DEF OneToOne, SomeShared
    <2>2. ASSUME SomeShared PROVE GlobalPresent
      <3>1. PICK v, w \in wrote : v.var = w.var /\ v.tid # w.tid
        BY <2>2 DEF SomeShared
      <3>2. v.ip = w.ip
        BY <3>1 DEF OneToOne
      <3>3. v.ip \in glist
        BY <2>0, <3>1, <3>2 DEF WritersInv
      <3> QED
        BY <3>3 DEF GlobalPresent
    <2> QED
      BY <2>1, <2>2
  <1> QED
    BY <1>1, TypeInvariant, WritersInvariant, PTL

-----------------------------------------------------------------------------
(* The times of the requests.                                              *)

\* The only request of a thread in timeList ends when it was answered.
TimesInv ==
  \A i \in DOMAIN timeList :
    (\A j \in DOMAIN timeList : timeList[j].thid = timeList[i].thid => j = i) =>
      timeList[i].end = answers[i]

\* Only a request for a mutex and its answer change the times.
LEMMA NextTimes == TypeInv /\ TimesInv /\ [Next]_vars => TimesInv'
  <1> SUFFICES ASSUME TypeInv, TimesInv, [Next]_vars PROVE TimesInv'
    OBVIOUS
  <1>0. /\ timeList \in Seq(Requests) /\ answers \in Seq(0..MaxEvents)
        /\ Len(answers) = Len(timeList) /\ n \in 0..MaxEvents
        /\ DOMAIN timeList = 1..Len(timeList) /\ DOMAIN answers = 1..Len(timeList)
        /\ Len(timeList) \in Nat
    <2>1. /\ timeList \in Seq(Requests) /\ answers \in Seq(0..MaxEvents)
          /\ Len(answers) = Len(timeList) /\ n \in 0..MaxEvents
      BY TypeParts DEF TypeInv, Shape
    <2> QED
      BY <2>1
  <1>1. ASSUME NEW t \in Threads, NEW m \in Mutexes, NEW rtn \in Asking, RequestMutex(t, m, rtn)
        PROVE  TimesInv'
    <2> DEFINE last == Len(timeList) + 1
    <2>1. PICK req : timeList' = Append(timeList, req) /\ req.end = Unset
      BY <1>1 DEF RequestMutex
    <2>2. answers' = Append(answers, Unset)
      BY <1>1 DEF RequestMutex
    <2>3. /\ DOMAIN timeList' = 1..last
          /\ \A i \in 1..Len(timeList) : timeList'[i] = timeList[i] /\ answers'[i] = answers[i]
          /\ timeList'[last] = req /\ answers'[last] = Unset
      BY <1>0, <2>1, <2>2
    <2> SUFFICES ASSUME NEW i \in 1..last,
                        \A j \in 1..last : timeList'[j].thid = timeList'[i].thid => j = i
                 PROVE  timeList'[i].end = answers'[i]
      BY <2>3 DEF TimesInv
    <2>4. CASE i = last
      BY <2>1, <2>3, <2>4
    <2>5. CASE i \in 1..Len(timeList)
      <3>1. \A j \in 1..Len(timeList) : timeList[j].thid = timeList[i].thid => j = i
        BY <1>0, <2>3, <2>5
      <3> QED
        BY <1>0, <2>3, <2>5, <3>1 DEF TimesInv
    <2> QED
      BY <1>0, <2>4, <2>5
  <1>2. ASSUME NEW t \in Threads, AcquireMutex(t) PROVE TimesInv'
    <2> DEFINE r == within[t].request
    <2>1. /\ timeList' = EndRequest(t)
          /\ answers' = [answers EXCEPT ![r] = n]
          /\ r \in DOMAIN timeList /\ timeList[r].thid = t
      BY <1>2 DEF AcquireMutex, TypeInv, Shape, Asking
    <2> HIDE DEF r
    <2>2. /\ DOMAIN timeList' = DOMAIN timeList
          /\ \A i \in DOMAIN timeList :
               /\ timeList'[i].thid = timeList[i].thid
               /\ timeList'[i].end =
                    IF timeList[i].thid = t /\ \A j \in 1..(i - 1) : timeList[j].thid # t
                    THEN n ELSE timeList[i].end
      BY <1>0, <2>1, EndRequestFacts DEF TypeInv
    <2> SUFFICES ASSUME NEW i \in DOMAIN timeList,
                        \A j \in DOMAIN timeList : timeList[j].thid = timeList[i].thid => j = i
                 PROVE  timeList'[i].end = answers'[i]
      BY <2>2 DEF TimesInv
    <2>3. CASE timeList[i].thid = t
      <3>1. r = i
        BY <2>1, <2>3
      <3>2. \A j \in 1..(i - 1) : j \in DOMAIN timeList /\ j # i
        BY <1>0
      <3>3. \A j \in 1..(i - 1) : timeList[j].thid # t
        BY <2>3, <3>2
      <3> QED
        BY <1>0, <2>1, <2>2, <2>3, <3>1, <3>3
    <2>4. CASE timeList[i].thid # t
      <3>1. r # i /\ timeList'[i].end = timeList[i].end
        BY <2>1, <2>2, <2>4
      <3> QED
        BY <1>0, <2>1, <3>1 DEF TimesInv
    <2> QED
      BY <2>3, <2>4
  <1>3. ASSUME UNCHANGED <<timeList, answers>> PROVE TimesInv'
    BY <1>3 DEF TimesInv
  <1>4. ASSUME NEW t \in Threads,
               \/ UnlockReturns(t) \/ AcquireSemaphore(t) \/ AcquireRWLock(t)
               \/ RWLockReturns(t) \/ WriteLock(t) \/ OtherEvent(t)
               \/ \E a : \/ UnlockMutex(t, a) \/ RequestSemaphore(t, a) \/ PostSemaphore(t, a)
                         \/ RequestRWLock(t, a) \/ UnlockRWLock(t, a) \/ WaitBarrier(t, a)
                         \/ Write(t, a)
        PROVE  TimesInv'
    BY <1>3, <1>4 DEF UnlockMutex, UnlockReturns, RequestSemaphore, PostSemaphore,
         AcquireSemaphore, RequestRWLock, UnlockRWLock, AcquireRWLock, RWLockReturns,
         WaitBarrier, OtherEvent, Write, WriteLock, RecordMemWrite
  <1> QED
    BY <1>1, <1>2, <1>3, <1>4 DEF Next, Asking, vars

\* The one request of a thread in timeList ends at the key of its answer.
THEOREM TimesInvariant == Spec => []TimesInv
  <1>1. Init => TimesInv
    BY DEF Init, TimesInv
  <1> QED
    BY <1>1, NextTimes, TypeInvariant, PTL DEF Spec

\* As long as no thread asks for a mutex twice, and once all have their answer,
\* both verdicts on waiting are defined, and are about waits longer than Limit.
THEOREM VerdictsOnWaiting == Spec => []WaitsAreJudged
  <1>1. TypeInv /\ TimesInv => WaitsAreJudged
    <2> DEFINE once == \A i, j \in DOMAIN timeList : timeList[i].thid = timeList[j].thid => i = j
               long == {i \in DOMAIN timeList : answers[i] > timeList[i].start + Limit}
               tries == {i \in DOMAIN timeList : timeList[i].tFlag = 1}
    <2> SUFFICES ASSUME TypeInv, TimesInv, once, \A i \in DOMAIN answers : answers[i] # Unset
                 PROVE  /\ 2 \in StarvationDecider <=> long = {}
                        /\ 1 \in LiveLockDecider <=> long \cap tries # {}
                        /\ Cardinality(StarvationDecider) = 1
                        /\ Cardinality(LiveLockDecider) = 1
      BY DEF WaitsAreJudged
    <2>1. DOMAIN timeList = 1..Len(timeList) /\ Len(timeList) \in Nat
          /\ DOMAIN answers = DOMAIN timeList
      <3>1. timeList \in Seq(Requests) /\ answers \in Seq(0..MaxEvents)
            /\ Len(answers) = Len(timeList)
        BY TypeParts DEF TypeInv, Shape
      <3> QED
        BY <3>1
    <2>2. \A i \in DOMAIN timeList : timeList[i].end = answers[i] /\ answers[i] # Unset
      BY <2>1 DEF TimesInv
    <2>3. Undefined = {} /\ Starved = long
      BY <2>2 DEF Undefined, Starved
    <2>4. IsFiniteSet(long)
      <3>1. IsFiniteSet(1..Len(timeList)) /\ long \in SUBSET (1..Len(timeList))
        BY <2>1, FS_Interval
      <3> QED
        BY <3>1, FS_Subset
    <2> HIDE DEF long, tries
    <2>5. SUBSET Undefined = {{}} /\ Starved \cup {} = long
      BY <2>3
    <2>6. StarvationDecider = {Judge(Cardinality(long))}
      BY <2>5 DEF StarvationDecider
    <2>7. LiveLockDecider = {IF long \cap tries # {} THEN 1 ELSE 0}
      BY <2>5 DEF LiveLockDecider, tries
    <2>8. Judge(Cardinality(long)) = 2 <=> long = {}
      BY <2>4, FS_EmptySet, FS_CardinalityType DEF Judge
    <2>9. Cardinality(StarvationDecider) = 1 /\ Cardinality(LiveLockDecider) = 1
      BY <2>6, <2>7, FS_Singleton
    <2>10. 2 \in StarvationDecider <=> long = {}
      BY <2>6, <2>8
    <2>11. 1 \in LiveLockDecider <=> long \cap tries # {}
      BY <2>7
    <2> QED
      BY <2>9, <2>10, <2>11
  <1> QED
    BY <1>1, TypeInvariant, TimesInvariant, PTL

=============================================================================
