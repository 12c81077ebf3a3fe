--------------------------- MODULE Streams_proofs ---------------------------
(***************************************************************************)
(* Proofs about Streams, for every set of threads, locks, instructions and *)
(* addresses, any number of streams and any mix of unusual calls.          *)
(***************************************************************************)
EXTENDS Streams, FiniteSetTheorems, SequenceTheorems, TLAPS

(***************************************************************************)
(* Invariants                                                              *)
(***************************************************************************)

\* An INSINFO is made once, before the instruction first runs, and assigned
\* before it is printed.
OneInstrumenter ==
  /\ \A t, u \in Threads :
       pc[t] = "instrumenting" /\ pc[u] = "instrumenting" => t = u
  /\ \A t \in Threads :
       pc[t] = "instrumenting" => cur[t].ins \in Instrs \ DOMAIN inslist

Printable ==
  \A t \in Threads :
    /\ pc[t] \in {"storing", "printing"} => cur[t].ins \in DOMAIN inslist
    /\ pc[t] = "storing" => cur[t].ea \in Addrs
    /\ pc[t] = "printing" => inslist[cur[t].ins] \in Addrs
    /\ pc[t] = "syncing" => cur[t].ins \in Instrs

TypeInv == TypeOK /\ OneInstrumenter /\ Printable

\* The threads that run have an id each; as long as none was used again, so have
\* those that ended.
IdsInv ==
  /\ IsFiniteSet(Alive)
  /\ \A t, u \in Alive : t # u => id[t] # id[u]
  /\ "reused" \notin odd =>
       \A t, u \in Threads :
         pc[t] # "unborn" /\ pc[u] # "unborn" /\ t # u => id[t] # id[u]
  /\ \A t \in Threads : pc[t] # "unborn" => id[t] \in DOMAIN files
  /\ \A t \in Threads : pc[t] = "unborn" => held[t] = Empty /\ written[t] = << >>

\* A lock with one owner has one owner.
OneOwner ==
  \A t, u \in Threads :
    t # u => DOMAIN held[t] \cap DOMAIN held[u] \cap Exclusive = {}

\* The strengthening of HeldIsListed, by the place t is at: between the routine
\* and lock_func_af, and between unlock_func and the routine, one lock of t may
\* not be listed.  A lock that is asked for is not held.
Complete(t) ==
  /\ pc[t] = "locking" => want[t].lock \notin DOMAIN held[t]
  /\ \A k \in DOMAIN held[t] :
       \/ pc[t] \in {"recording", "unlocking"} /\ k = want[t].lock
       \/ k \in Listed(t) /\ syncs[id[t]][k] = held[t][k]
  /\ pc[t] = "recording" /\ want[t].lock \in DOMAIN held[t] =>
       held[t][want[t].lock] = want[t].type
  /\ pc[t] = "waiting" =>
       want[t].lock \in Listed(t) /\ syncs[id[t]][want[t].lock] = want[t].type

\* The strengthening of ListedIsHeld: a thread that waits for a condition still
\* lists the mutex it gave up, and one whose unlock_func has run does not list
\* the lock it still holds.
Sound(t) ==
  /\ \A k \in Listed(t) : k \in DOMAIN held[t] \/ (pc[t] = "waiting" /\ k = want[t].lock)
  /\ pc[t] \in {"recording", "removing", "unlocking"} => want[t].lock \in DOMAIN held[t]
  /\ pc[t] = "unlocking" => want[t].lock \notin Listed(t)

\* In addition the entry of t in syncs is not empty.
Tidy(t) == Sound(t) /\ (id[t] \in DOMAIN syncs => DOMAIN syncs[id[t]] # {})

CompleteInv == odd \cap {"unseen", "stray"} = {} => \A t \in Alive : Complete(t)

SoundInv ==
  odd \cap {"failed", "stray", "posted", "left"} = {} =>
    /\ \A t \in Alive : Sound(t)
    /\ \A d \in DOMAIN syncs : DOMAIN syncs[d] # {} /\ d \in Ids

-----------------------------------------------------------------------------
(* Lemmas about the maps, the lock calls and the places.                   *)

\* A request names a lock of the program, with a type of the lock's kind; only
\* read-write locks have readers.
LEMMA RequestFacts ==
  ASSUME NEW r \in Requests
  PROVE  /\ r.lock \in Locks
         /\ r.type \in Types
         /\ r = [lock |-> r.lock, type |-> r.type]
         /\ r.lock \in Mutexes => r.type = "mutex"
         /\ r.lock \in Exclusive => r.type # "reader lock"
  BY StreamsAssumption DEF Requests, Locks, Exclusive, Types

LEMMA PutMap ==
  ASSUME NEW f, IsLockMap(f), NEW r \in Requests
  PROVE  IsLockMap(Put(f, r.lock, r.type))
  BY RequestFacts DEF IsLockMap, Put

LEMMA RemoveMap ==
  ASSUME NEW f, IsLockMap(f), NEW l
  PROVE  IsLockMap(Remove(f, l))
  BY DEF IsLockMap, Remove

LEMMA EmptyMap == IsLockMap(Empty) /\ DOMAIN Empty = {}
  BY DEF IsLockMap, Empty

\* Callbacks that overlap do so on one of the two maps.
LEMMA OverlapMaps ==
  ASSUME NEW t, NEW label, NEW r
  PROVE  Overlap(t, label, r) \subseteq {"inslist", "syncs"}
  BY DEF Overlap

\* The names of the lines.
LEMMA EventLine ==
  ASSUME NEW t \in Threads, NEW i \in Instrs, NEW ea \in Addrs
  PROVE  [part |-> "event", thread |-> t, ins |-> i, memOp |-> ea] \in Lines
  BY DEF Lines

LEMMA SyncLine ==
  ASSUME NEW ls \in SUBSET (Locks \cup {Stray})
  PROVE  [part |-> "sync", locks |-> ls] \in Lines
  BY DEF Lines

-----------------------------------------------------------------------------
(* Type correctness.                                                       *)

\* What ThreadStart and Write do to the files.
LEMMA WriteTypes ==
  ASSUME TypeOK, NEW t \in Threads, NEW line \in Lines, Write(t, line)
  PROVE  /\ DOMAIN files' = DOMAIN files
         /\ \A d \in DOMAIN files' : files'[d] \in Seq(Lines)
         /\ written' \in [Threads -> Seq(Lines)]
  <1>1. \A d \in DOMAIN files : files[d] \in Seq(Lines) /\ Append(files[d], line) \in Seq(Lines)
    BY DEF TypeOK
  <1>2. \A u \in Threads : written[u] \in Seq(Lines) /\ Append(written[u], line) \in Seq(Lines)
    BY DEF TypeOK
  <1>3. written \in [Threads -> Seq(Lines)]
    BY DEF TypeOK
  <1> QED
    BY <1>1, <1>2, <1>3 DEF Write

LEMMA InitTypeInv == Init => TypeInv
  <1> SUFFICES ASSUME Init PROVE TypeInv
    OBVIOUS
  <1>1. \A t \in Threads :
          /\ pc[t] \in {"run", "unborn"} /\ held[t] = Empty /\ want[t] = NoRequest
          /\ cur[t] = NoAccess /\ id[t] = 0 /\ written[t] = << >>
    BY DEF Init
  <1>2. cur \in [Threads -> [ins : Instrs \cup {"none"}, ea : Values]]
    BY DEF Init, NoAccess, Values
  <1>3. written \in [Threads -> Seq(Lines)] /\ id \in [Threads -> Nat]
    BY DEF Init
  <1>4. pc \in [Threads -> Labels] /\ want \in [Threads -> Requests \cup {NoRequest}]
    BY DEF Init, Labels
  <1>5. DOMAIN files = {0} /\ files[0] = << >> /\ << >> \in Seq(Lines)
    BY DEF Init
  <1>6. inslist = Empty /\ syncs = Empty /\ ub = {} /\ odd = {} /\ DOMAIN held = Threads
    BY DEF Init
  <1>7. TypeOK
    <2>1. \A t \in Threads : IsLockMap(held[t])
      BY <1>1, EmptyMap
    <2>2. \A t \in Threads : pc[t] \notin Calling
      BY <1>1 DEF Calling
    <2>3. DOMAIN inslist = {} /\ DOMAIN syncs = {}
      BY <1>6, EmptyMap
    <2>4. DOMAIN files \subseteq Nat /\ \A d \in DOMAIN files : files[d] \in Seq(Lines)
      BY <1>5
    <2>5. ub \subseteq {"inslist", "syncs", "end", "outp"} /\ odd \subseteq OddKinds
      BY <1>6
    <2>6. \A t \in Threads : pc[t] \in Calling => want[t] \in Requests
      BY <2>2
    <2> QED
      BY <1>2, <1>3, <1>4, <1>6, <2>1, <2>3, <2>4, <2>5, <2>6 DEF TypeOK
  <1> QED
    BY <1>1, <1>7 DEF TypeInv, OneInstrumenter, Printable

LEMMA NextTypeOK ==
  ASSUME TypeInv, NEW t \in Threads, ThreadStep(t)
  PROVE  TypeOK'
  <1> USE DEF TypeInv, TypeOK, Step, Labels, Calling
  <1>0. \A label, r : Overlap(t, label, r) \subseteq {"inslist", "syncs", "end", "outp"}
    BY OverlapMaps
  <1>1. ASSUME ThreadStart(t)
        PROVE  TypeOK'
    <2>1. PICK d \in 0..Cardinality(Alive) : ThreadStart(t)!(d)
      BY <1>1 DEF ThreadStart
    <2>2. d \in Nat
      BY <2>1
    <2>3. << >> \in Seq(Lines)
      OBVIOUS
    <2>4. DOMAIN files' = DOMAIN files \cup {d} /\ \A e \in DOMAIN files' : files'[e] \in Seq(Lines)
      BY <2>1, <2>3 DEF Put
    <2>5. odd' \subseteq OddKinds
      BY <2>1 DEF Odd, OddKinds
    <2> QED
      BY <2>1, <2>2, <2>4, <2>5
  <1>2. ASSUME ThreadFini(t)
        PROVE  TypeOK'
    <2>1. odd' \subseteq OddKinds
      BY <1>2 DEF ThreadFini, Odd, OddKinds
    <2> QED
      BY <1>0, <1>2, <2>1 DEF ThreadFini
  <1>3. ASSUME NEW i \in Instrs, InstructionBegin(t, i)
        PROVE  TypeOK'
    BY <1>0, <1>3 DEF InstructionBegin, NoAccess, Values
  <1>4. ASSUME InstructionEnd(t)
        PROVE  TypeOK'
    <2>1. DOMAIN inslist' \subseteq Instrs /\ \A i \in DOMAIN inslist' : inslist'[i] \in Values
      BY <1>4 DEF InstructionEnd, OneInstrumenter, Put, Values
    <2> QED
      BY <1>0, <1>4, <2>1 DEF InstructionEnd, NoAccess, Values
  <1>5. ASSUME NEW i \in Instrs, NEW ea \in Addrs, Access(t, i, ea)
        PROVE  TypeOK'
    BY <1>0, <1>5 DEF Access, Values
  <1>6. ASSUME StoreMemOp(t)
        PROVE  TypeOK'
    BY <1>0, <1>6 DEF StoreMemOp
  <1>7. ASSUME PrintEvent(t)
        PROVE  TypeOK'
    <2>1. [part |-> "event", thread |-> t, ins |-> cur[t].ins,
           memOp |-> inslist[cur[t].ins]] \in Lines
      BY <1>7, EventLine DEF PrintEvent, Printable
    <2>2. /\ DOMAIN files' = DOMAIN files
          /\ \A d \in DOMAIN files' : files'[d] \in Seq(Lines)
          /\ written' \in [Threads -> Seq(Lines)]
      BY <1>7, <2>1, WriteTypes DEF PrintEvent
    <2> QED
      BY <1>0, <1>7, <2>2 DEF PrintEvent
  <1>8. ASSUME PrintSync(t)
        PROVE  TypeOK'
    <2>1. [part |-> "sync", locks |-> Listed(t)] \in Lines
      BY SyncLine DEF Listed
    <2>2. /\ DOMAIN files' = DOMAIN files
          /\ \A d \in DOMAIN files' : files'[d] \in Seq(Lines)
          /\ written' \in [Threads -> Seq(Lines)]
      BY <1>8, <2>1, WriteTypes DEF PrintSync
    <2> QED
      BY <1>0, <1>8, <2>2 DEF PrintSync, NoAccess, Values
  <1>9. ASSUME NEW r \in Requests, LockCall(t, r)
        PROVE  TypeOK'
    BY <1>0, <1>9 DEF LockCall
  <1>10. ASSUME Acquire(t) \/ CondWake(t)
         PROVE  TypeOK'
    <2>1. IsLockMap(Put(held[t], want[t].lock, want[t].type))
      BY <1>10, PutMap DEF Acquire, CondWake
    <2> QED
      BY <1>0, <1>10, <2>1 DEF Acquire, CondWake
  <1>11. ASSUME NEW a \in Locks \cup {Stray}, LockFuncAf(t, a)
         PROVE  TypeOK'
    <2>1. want[t].type \in Types
      BY <1>11, RequestFacts DEF LockFuncAf
    <2>2. odd' \subseteq OddKinds
      BY <1>11 DEF LockFuncAf, Odd, OddKinds
    <2>3. /\ DOMAIN syncs' \subseteq Nat
          /\ \A d \in DOMAIN syncs' :
               /\ DOMAIN syncs'[d] \subseteq Locks \cup {Stray}
               /\ \A l \in DOMAIN syncs'[d] : syncs'[d][l] \in Types
      BY <1>11, <2>1, EmptyMap DEF LockFuncAf, Put
    <2> QED
      BY <1>0, <1>11, <2>2, <2>3 DEF LockFuncAf
  <1>12. ASSUME NEW r \in Requests, AcquireUnseen(t, r)
         PROVE  TypeOK'
    <2>1. odd' \subseteq OddKinds
      BY <1>12 DEF AcquireUnseen, Odd, OddKinds
    <2>2. IsLockMap(Put(held[t], r.lock, r.type))
      BY PutMap
    <2> QED
      BY <1>0, <1>12, <2>1, <2>2 DEF AcquireUnseen
  <1>13. ASSUME NEW l \in Locks, UnlockCall(t, l)
         PROVE  TypeOK'
    <2>1. [lock |-> l, type |-> held[t][l]] \in Requests
      BY <1>13 DEF UnlockCall, IsLockMap
    <2> QED
      BY <1>0, <1>13, <2>1 DEF UnlockCall
  <1>14. ASSUME NEW s \in Sems, PostCall(t, s)
         PROVE  TypeOK'
    <2>1. odd' \subseteq OddKinds
      BY <1>14 DEF PostCall, Odd, OddKinds
    <2>2. [lock |-> s, type |-> "semaphore"] \in Requests
      BY DEF Requests
    <2> QED
      BY <1>0, <1>14, <2>1, <2>2 DEF PostCall
  <1>15. ASSUME UnlockFunc(t)
         PROVE  TypeOK'
    <2>1. /\ DOMAIN syncs' \subseteq Nat
          /\ \A d \in DOMAIN syncs' :
               /\ DOMAIN syncs'[d] \subseteq Locks \cup {Stray}
               /\ \A l \in DOMAIN syncs'[d] : syncs'[d][l] \in Types
      BY <1>15 DEF UnlockFunc, Remove
    <2> QED
      BY <1>15, <2>1 DEF UnlockFunc
  <1>16. ASSUME Release(t)
         PROVE  TypeOK'
    BY <1>0, <1>16, RemoveMap DEF Release
  <1>17. ASSUME NEW m \in Mutexes, CondWait(t, m)
         PROVE  TypeOK'
    <2>1. [lock |-> m, type |-> "mutex"] \in Requests
      BY DEF Requests
    <2> QED
      BY <1>0, <1>17, <2>1, RemoveMap DEF CondWait
  <1>18. ASSUME AcquireFails(t)
         PROVE  TypeOK'
    <2>1. odd' \subseteq OddKinds
      BY <1>18 DEF AcquireFails, Odd, OddKinds
    <2> QED
      BY <1>0, <1>18, <2>1 DEF AcquireFails
  <1> QED
    BY <1>1, <1>2, <1>3, <1>4, <1>5, <1>6, <1>7, <1>8, <1>9, <1>10, <1>11, <1>12,
       <1>13, <1>14, <1>15, <1>16, <1>17, <1>18 DEF ThreadStep

LEMMA NextPrint ==
  ASSUME TypeInv, NEW t \in Threads, ThreadStep(t)
  PROVE  OneInstrumenter' /\ Printable'
  <1> USE DEF TypeInv, TypeOK, OneInstrumenter, Printable, Step, Labels
  <1>1. ASSUME NEW i \in Instrs, InstructionBegin(t, i)
        PROVE  OneInstrumenter' /\ Printable'
    BY <1>1 DEF InstructionBegin, NoAccess
  <1>2. ASSUME InstructionEnd(t)
        PROVE  OneInstrumenter' /\ Printable'
    <2>1. /\ \A u \in Threads : pc'[u] # "instrumenting"
          /\ \A u \in Threads \ {t} : pc'[u] = pc[u] /\ cur'[u] = cur[u]
          /\ pc'[t] = "run"
      BY <1>2 DEF InstructionEnd
    <2>2. \A i \in DOMAIN inslist : i \in DOMAIN inslist' /\ inslist'[i] = inslist[i]
      BY <1>2 DEF InstructionEnd, Put
    <2>3. OneInstrumenter'
      BY <2>1
    <2>4. Printable'
      <3> SUFFICES ASSUME NEW u \in Threads,
                          pc'[u] \in {"storing", "printing", "syncing"}
                   PROVE  /\ pc'[u] \in {"storing", "printing"} => cur'[u].ins \in DOMAIN inslist'
                          /\ pc'[u] = "storing" => cur'[u].ea \in Addrs
                          /\ pc'[u] = "printing" => inslist'[cur'[u].ins] \in Addrs
                          /\ pc'[u] = "syncing" => cur'[u].ins \in Instrs
        OBVIOUS
      <3>1. u # t /\ pc'[u] = pc[u] /\ cur'[u] = cur[u]
        BY <2>1
      <3> QED
        BY <2>2, <3>1
    <2> QED
      BY <2>3, <2>4
  <1>3. ASSUME NEW i \in Instrs, NEW ea \in Addrs, Access(t, i, ea)
        PROVE  OneInstrumenter' /\ Printable'
    BY <1>3 DEF Access
  <1>4. ASSUME StoreMemOp(t)
        PROVE  OneInstrumenter' /\ Printable'
    BY <1>4 DEF StoreMemOp
  <1>5. ASSUME PrintEvent(t) \/ PrintSync(t)
        PROVE  OneInstrumenter' /\ Printable'
    <2>1. /\ \A u \in Threads \ {t} : pc'[u] = pc[u] /\ cur'[u] = cur[u]
          /\ inslist' = inslist
      BY <1>5 DEF PrintEvent, PrintSync
    <2>2. \/ pc'[t] = "run"
          \/ pc'[t] = "syncing" /\ cur[t].ins \in Instrs /\ cur'[t] = cur[t]
      BY <1>5 DEF PrintEvent, PrintSync
    <2> QED
      BY <2>1, <2>2
  <1>6. ASSUME UNCHANGED <<cur, inslist>>,
               \A u \in Threads \ {t} : pc'[u] = pc[u],
               pc'[t] \notin {"instrumenting", "storing", "printing", "syncing"}
        PROVE  OneInstrumenter' /\ Printable'
    BY <1>6
  <1>7. CASE ThreadStart(t)
    <2>1. PICK d \in 0..Cardinality(Alive) : ThreadStart(t)!(d)
      BY <1>7 DEF ThreadStart
    <2> QED
      BY <1>6, <2>1
  <1>8. CASE \/ ThreadFini(t) \/ Acquire(t) \/ AcquireFails(t) \/ UnlockFunc(t)
             \/ Release(t) \/ CondWake(t)
             \/ \E r \in Requests : LockCall(t, r) \/ AcquireUnseen(t, r)
             \/ \E a \in Locks \cup {Stray} : LockFuncAf(t, a)
             \/ \E l \in Locks : UnlockCall(t, l)
             \/ \E s \in Sems : PostCall(t, s)
             \/ \E m \in Mutexes : CondWait(t, m)
    <2>1. /\ UNCHANGED <<cur, inslist>>
          /\ \E x \in {"ended", "recording", "unlocking", "run", "locking", "removing", "waiting"} :
               pc' = [pc EXCEPT ![t] = x]
      BY <1>8
      DEF ThreadFini, Acquire, AcquireFails, UnlockFunc, Release, CondWake, LockCall,
          AcquireUnseen, LockFuncAf, UnlockCall, PostCall, CondWait
    <2> QED
      BY <1>6, <2>1
  <1> QED
    BY <1>1, <1>2, <1>3, <1>4, <1>5, <1>7, <1>8 DEF ThreadStep

LEMMA AlwaysTyped == Spec => []TypeInv
  <1>1. TypeInv /\ [Next]_vars => TypeInv'
    <2> SUFFICES ASSUME TypeInv, [Next]_vars PROVE TypeInv'
      OBVIOUS
    <2>1. CASE Next
      BY <2>1, NextTypeOK, NextPrint DEF Next, TypeInv
    <2>2. CASE UNCHANGED vars
      BY <2>2 DEF vars, TypeInv, TypeOK, OneInstrumenter, Printable
    <2> QED
      BY <2>1, <2>2
  <1> QED
    BY <1>1, InitTypeInv, PTL DEF Spec

\* The variables always have the shape of the tool's globals, and no INSINFO is
\* printed before its memOp was assigned.
THEOREM TypeCorrect == Spec => []TypeOK
  <1>1. TypeInv => TypeOK
    BY DEF TypeInv
  <1> QED
    BY <1>1, AlwaysTyped, PTL

-----------------------------------------------------------------------------
(* What a step leaves alone.                                               *)

\* The step of a thread changes another thread only by posting its semaphore.
LEMMA OtherThreads ==
  ASSUME TypeOK, NEW t \in Threads, ThreadStep(t), NEW u \in Threads \ {t}
  PROVE  /\ pc'[u] = pc[u] /\ id'[u] = id[u] /\ want'[u] = want[u]
         /\ written'[u] = written[u]
         /\ \/ held'[u] = held[u]
            \/ /\ Release(t) /\ want[t].lock \in Sems
               /\ held'[u] = Remove(held[u], want[t].lock)
  <1> USE DEF TypeOK, Step
  <1>1. CASE ThreadStart(t)
    <2>1. PICK d \in 0..Cardinality(Alive) : ThreadStart(t)!(d)
      BY <1>1 DEF ThreadStart
    <2> QED
      BY <2>1
  <1>2. CASE Release(t)
    BY <1>2 DEF Release
  <1>3. CASE PrintEvent(t) \/ PrintSync(t)
    BY <1>3 DEF PrintEvent, PrintSync, Write
  <1> QED
    BY <1>1, <1>2, <1>3
    DEF ThreadStep, ThreadFini, InstructionBegin, InstructionEnd, Access, StoreMemOp,
        LockCall, AcquireUnseen, Acquire, AcquireFails, LockFuncAf, UnlockCall,
        PostCall, UnlockFunc, CondWait, CondWake

\* A thread that was born keeps its id, and nobody but a new thread changes what
\* is in files for an id that is not its own.
LEMMA IdKept ==
  ASSUME TypeOK, NEW t \in Threads, ThreadStep(t)
  PROVE  /\ ub = {}
         /\ odd \subseteq odd'
         /\ pc[t] # "unborn" => id' = id
         /\ pc[t] = "unborn" <=> ThreadStart(t)
         /\ pc[t] # "ended" /\ pc'[t] # "unborn"
         /\ pc'[t] = "ended" <=> ThreadFini(t)
  <1> USE DEF TypeOK, Step
  <1>1. CASE ThreadStart(t)
    <2>1. PICK d \in 0..Cardinality(Alive) : ThreadStart(t)!(d)
      BY <1>1 DEF ThreadStart
    <2> QED
      BY <1>1, <2>1 DEF Odd, ThreadFini
  <1>2. CASE PrintEvent(t) \/ PrintSync(t) \/ Access(t, cur'[t].ins, cur'[t].ea)
    BY <1>2 DEF PrintEvent, PrintSync, Write, ThreadStart, ThreadFini, Access
  <1>3. CASE ThreadFini(t)
    BY <1>3 DEF ThreadFini, Odd, ThreadStart
  <1> QED
    BY <1>1, <1>2, <1>3
    DEF ThreadStep, ThreadStart, ThreadFini, InstructionBegin, InstructionEnd, Access,
        StoreMemOp, LockCall, AcquireUnseen, Acquire, AcquireFails, LockFuncAf,
        UnlockCall, PostCall, UnlockFunc, Release, CondWait, CondWake, Odd

\* A thread changes its own entry of syncs.
LEMMA OtherEntries ==
  ASSUME TypeOK, NEW t \in Threads, ThreadStep(t), NEW d, d # id[t]
  PROVE  /\ d \in DOMAIN syncs' <=> d \in DOMAIN syncs
         /\ d \in DOMAIN syncs => syncs'[d] = syncs[d]
  <1> USE DEF TypeOK, Step
  <1>1. CASE \E a \in Locks \cup {Stray} : LockFuncAf(t, a)
    BY <1>1 DEF LockFuncAf, Put
  <1>2. CASE UnlockFunc(t)
    BY <1>2 DEF UnlockFunc, Remove
  <1>3. CASE syncs' = syncs
    BY <1>3
  <1>4. CASE ThreadStart(t)
    BY <1>3, <1>4 DEF ThreadStart
  <1> QED
    BY <1>1, <1>2, <1>3, <1>4
    DEF ThreadStep, ThreadFini, InstructionBegin, InstructionEnd, Access, StoreMemOp,
        PrintEvent, PrintSync, LockCall, AcquireUnseen, Acquire, AcquireFails,
        UnlockCall, PostCall, Release, CondWait, CondWake

-----------------------------------------------------------------------------
(* Ids and streams.                                                        *)

\* A new thread gets a free id.
LEMMA StartIds ==
  ASSUME TypeOK, IdsInv, NEW t \in Threads, ThreadStart(t)
  PROVE  IdsInv'
  <1>1. PICK d \in 0..Cardinality(Alive) : ThreadStart(t)!(d)
    BY DEF ThreadStart
  <1>2. /\ pc[t] = "unborn" /\ pc'[t] = "run" /\ id'[t] = d
        /\ \A u \in Threads \ {t} : pc'[u] = pc[u] /\ id'[u] = id[u]
        /\ held' = held /\ written' = written
    BY <1>1 DEF TypeOK
  <1>3. Alive' = Alive \cup {t} /\ t \notin Alive
    BY <1>2 DEF Alive
  <1>4. IsFiniteSet(Alive')
    BY <1>3, FS_AddElement DEF IdsInv
  <1>5. \A u \in Alive : id[u] # d /\ id'[u] = id[u]
    BY <1>1, <1>2, <1>3 DEF Fresh, Ids, Alive
  <1>6. \A u, v \in Alive' : u # v => id'[u] # id'[v]
    BY <1>2, <1>3, <1>5 DEF IdsInv
  <1>7. DOMAIN files' = DOMAIN files \cup {d}
    BY <1>1 DEF Put
  <1>8. ASSUME "reused" \notin odd', NEW u \in Threads, NEW v \in Threads,
               pc'[u] # "unborn", pc'[v] # "unborn", u # v
        PROVE  id'[u] # id'[v]
    <2>1. "reused" \notin odd /\ d \notin DOMAIN files
      BY <1>1, <1>8 DEF Odd
    <2>2. \A w \in Threads \ {t} : pc'[w] # "unborn" => id'[w] # d
      BY <1>2, <2>1 DEF IdsInv
    <2> QED
      BY <1>2, <1>8, <2>1, <2>2 DEF IdsInv
  <1>9. \A u \in Threads : pc'[u] # "unborn" => id'[u] \in DOMAIN files'
    BY <1>2, <1>7 DEF IdsInv
  <1>10. \A u \in Threads : pc'[u] = "unborn" => held'[u] = Empty /\ written'[u] = << >>
    BY <1>2 DEF IdsInv
  <1> QED
    BY <1>4, <1>6, <1>8, <1>9, <1>10 DEF IdsInv, Empty

LEMMA OtherIds ==
  ASSUME TypeOK, IdsInv, NEW t \in Threads, ThreadStep(t), ~ThreadStart(t)
  PROVE  IdsInv'
  <1>1. /\ id' = id /\ odd \subseteq odd' /\ pc[t] # "unborn" /\ pc'[t] # "unborn"
        /\ pc[t] # "ended"
    BY IdKept
  <1>2. \A u \in Threads \ {t} : pc'[u] = pc[u] /\ written'[u] = written[u]
    BY OtherThreads
  <1>3. Alive' \subseteq Alive
    BY <1>1, <1>2 DEF Alive
  <1>4. IsFiniteSet(Alive')
    BY <1>3, FS_Subset DEF IdsInv
  <1>5. DOMAIN files' = DOMAIN files
    <2>1. files' = files \/ PrintEvent(t) \/ PrintSync(t)
      BY DEF ThreadStep, ThreadFini, InstructionBegin, InstructionEnd, Access,
             StoreMemOp, LockCall, AcquireUnseen, Acquire, AcquireFails, LockFuncAf,
             UnlockCall, PostCall, UnlockFunc, Release, CondWait, CondWake
    <2> QED
      BY <2>1 DEF PrintEvent, PrintSync, Write
  <1>6. ASSUME NEW u \in Threads, pc'[u] = "unborn"
        PROVE  held'[u] = Empty /\ written'[u] = << >>
    <2>1. u # t /\ pc[u] = "unborn" /\ held[u] = Empty /\ written[u] = << >>
      BY <1>1, <1>2, <1>6 DEF IdsInv
    <2>2. \A l : Remove(Empty, l) = Empty
      BY DEF Remove, Empty
    <2> QED
      BY <1>2, <2>1, <2>2, OtherThreads
  <1>7. \A u \in Threads : pc'[u] # "unborn" <=> pc[u] # "unborn"
    BY <1>1, <1>2
  <1> QED
    BY <1>1, <1>3, <1>4, <1>5, <1>6, <1>7 DEF IdsInv, Empty

LEMMA AlwaysIds == Spec => []IdsInv
  <1>1. Init => IdsInv
    <2> SUFFICES ASSUME Init PROVE IdsInv
      OBVIOUS
    <2>1. Alive = {Main} /\ DOMAIN files = {0} /\ odd = {}
      BY StreamsAssumption DEF Init, Alive
    <2>2. \A t \in Threads : (pc[t] = "unborn" <=> t # Main) /\ id[t] = 0
      BY StreamsAssumption DEF Init
    <2>3. \A t \in Threads : held[t] = Empty /\ written[t] = << >>
      BY DEF Init
    <2>4. IsFiniteSet(Alive)
      BY <2>1, FS_Singleton
    <2> QED
      BY <2>1, <2>2, <2>3, <2>4 DEF IdsInv
  <1>2. TypeOK /\ IdsInv /\ [Next]_vars => IdsInv'
    <2>1. CASE UNCHANGED vars
      BY <2>1 DEF vars, IdsInv, Alive, Empty
    <2> QED
      BY <2>1, StartIds, OtherIds DEF Next
  <1> QED
    BY <1>1, <1>2, TypeCorrect, PTL DEF Spec

-----------------------------------------------------------------------------
(* One owner for each mutex and semaphore.                                 *)

LEMMA NextOneOwner == TypeOK /\ OneOwner /\ [Next]_vars => OneOwner'
  <1> SUFFICES ASSUME TypeOK, OneOwner, [Next]_vars PROVE OneOwner'
    OBVIOUS
  <1>1. ASSUME NEW t \in Threads, NEW r \in Requests, Available(t, r),
               held' = [held EXCEPT ![t] = Put(@, r.lock, r.type)]
        PROVE  OneOwner'
    <2>1. r.lock \in Exclusive => \A u \in Threads \ {t} : r.lock \notin DOMAIN held[u]
      BY <1>1, RequestFacts DEF Available
    <2>2. DOMAIN held'[t] = DOMAIN held[t] \cup {r.lock}
      BY <1>1 DEF Put, TypeOK
    <2>3. \A u \in Threads \ {t} : held'[u] = held[u]
      BY <1>1 DEF TypeOK
    <2> QED
      BY <2>1, <2>2, <2>3 DEF OneOwner
  <1>2. ASSUME \A u \in Threads : DOMAIN held'[u] \subseteq DOMAIN held[u]
        PROVE  OneOwner'
    BY <1>2 DEF OneOwner
  <1>3. ASSUME NEW t \in Threads, ThreadStep(t)
        PROVE  OneOwner'
    <2>1. CASE Acquire(t) \/ CondWake(t)
      <3>1. want[t] \in Requests
        BY <2>1 DEF TypeOK, Acquire, CondWake, Step, Calling
      <3> QED
        BY <2>1, <3>1, <1>1 DEF Acquire, CondWake
    <2>2. CASE \E r \in Requests : AcquireUnseen(t, r)
      BY <2>2, <1>1 DEF AcquireUnseen
    <2>3. CASE Release(t)
      BY <2>3, <1>2 DEF Release, Remove, TypeOK
    <2>4. CASE \E m \in Mutexes : CondWait(t, m)
      BY <2>4, <1>2 DEF CondWait, Remove, TypeOK
    <2>5. CASE held' = held
      BY <2>5, <1>2
    <2>6. CASE ThreadStart(t)
      BY <2>5, <2>6 DEF ThreadStart
    <2> QED
      BY <1>3, <2>1, <2>2, <2>3, <2>4, <2>5, <2>6
      DEF ThreadStep, ThreadFini, InstructionBegin, InstructionEnd, Access, StoreMemOp,
          PrintEvent, PrintSync, LockCall, AcquireFails, LockFuncAf, UnlockCall,
          PostCall, UnlockFunc
  <1> QED
    BY <1>2, <1>3 DEF Next, vars

LEMMA AlwaysOneOwner == Spec => []OneOwner
  <1>1. Init => OneOwner
    BY EmptyMap DEF Init, OneOwner
  <1> QED
    BY <1>1, NextOneOwner, TypeCorrect, PTL DEF Spec

-----------------------------------------------------------------------------
(* Every lock held is listed.                                              *)

\* What other threads list does not change, and what they hold gets less.
LEMMA CompleteOthers ==
  ASSUME TypeOK, IdsInv, NEW t \in Threads, ThreadStep(t),
         NEW u \in Alive \ {t}, Complete(u)
  PROVE  Complete(u)'
  <1>1. /\ pc'[u] = pc[u] /\ id'[u] = id[u] /\ want'[u] = want[u]
        /\ DOMAIN held'[u] \subseteq DOMAIN held[u]
        /\ \A k \in DOMAIN held'[u] : held'[u][k] = held[u][k]
    <2>1. u \in Threads \ {t}
      BY DEF Alive
    <2>2. held'[u] = held[u] \/ \E l : held'[u] = Remove(held[u], l)
      BY <2>1, OtherThreads
    <2>3. \A l : /\ DOMAIN Remove(held[u], l) \subseteq DOMAIN held[u]
                 /\ \A k \in DOMAIN Remove(held[u], l) : Remove(held[u], l)[k] = held[u][k]
      BY DEF Remove
    <2> QED
      BY <2>1, <2>2, <2>3, OtherThreads
  <1>2. /\ id[u] \in DOMAIN syncs' <=> id[u] \in DOMAIN syncs
        /\ id[u] \in DOMAIN syncs => syncs'[id[u]] = syncs[id[u]]
    <2>1. CASE ThreadStart(t)
      BY <2>1 DEF ThreadStart
    <2>2. CASE ~ThreadStart(t)
      <3>1. t \in Alive
        BY <2>2, IdKept DEF Alive
      <3> QED
        BY <3>1, OtherEntries DEF IdsInv
    <2> QED
      BY <2>1, <2>2
  <1>3. Listed(u)' = Listed(u)
    BY <1>1, <1>2 DEF Listed
  <1> QED
    BY <1>1, <1>2, <1>3 DEF Complete, Listed

\* The step of t itself, action by action.
LEMMA CompleteOwn ==
  ASSUME TypeOK, IdsInv, NEW t \in Threads, ThreadStep(t), t \in Alive', t \in Alive => Complete(t),
         odd' \cap {"unseen", "stray"} = {}
  PROVE  Complete(t)'
  <1> USE DEF TypeOK, Step
  <1>1. CASE ThreadStart(t)
    <2>1. held'[t] = Empty /\ pc'[t] = "run"
      BY <1>1 DEF ThreadStart, IdsInv
    <2> QED
      BY <2>1, EmptyMap DEF Complete
  <1>2. ASSUME UNCHANGED <<id, held, syncs>>, t \in Alive,
               pc[t] \notin {"recording", "unlocking"}, pc'[t] \notin {"recording", "waiting"},
               pc'[t] = "locking" => want'[t].lock \notin DOMAIN held[t]
        PROVE  Complete(t)'
    BY <1>2 DEF Complete, Listed
  <1>3. CASE ThreadFini(t)
    BY <1>3 DEF ThreadFini, Alive
  <1>4. CASE \/ InstructionEnd(t) \/ StoreMemOp(t) \/ PrintEvent(t) \/ PrintSync(t)
             \/ \E i \in Instrs : InstructionBegin(t, i)
             \/ \E i \in Instrs, ea \in Addrs : Access(t, i, ea)
             \/ \E r \in Requests : LockCall(t, r)
             \/ \E l \in Locks : UnlockCall(t, l)
             \/ \E s \in Sems : PostCall(t, s)
    BY <1>2, <1>4
    DEF InstructionEnd, StoreMemOp, PrintEvent, PrintSync, InstructionBegin, Access,
        LockCall, UnlockCall, PostCall, Alive
  <1>5. CASE Acquire(t)
    <2>1. /\ pc[t] = "locking" /\ pc'[t] = "recording" /\ want'[t] = want[t]
          /\ held'[t] = Put(held[t], want[t].lock, want[t].type)
          /\ id' = id /\ syncs' = syncs /\ t \in Alive
      BY <1>5 DEF Acquire, Alive
    <2> QED
      BY <2>1 DEF Complete, Listed, Put
  <1>6. ASSUME NEW a \in Locks \cup {Stray}, LockFuncAf(t, a)
        PROVE  Complete(t)'
    <2>1. a = want[t].lock
      BY <1>6 DEF LockFuncAf, Odd
    <2>2. /\ pc[t] = "recording" /\ pc'[t] = "run" /\ held' = held /\ id' = id
          /\ t \in Alive
      BY <1>6 DEF LockFuncAf, Alive
    <2>3. /\ id[t] \in DOMAIN syncs'
          /\ DOMAIN syncs'[id[t]] = Listed(t) \cup {a}
          /\ \A k \in DOMAIN syncs'[id[t]] :
               syncs'[id[t]][k] = IF k = a THEN want[t].type ELSE syncs[id[t]][k]
      BY <1>6, EmptyMap DEF LockFuncAf, Listed, Put
    <2>4. Listed(t)' = Listed(t) \cup {a}
      BY <2>2, <2>3 DEF Listed
    <2> QED
      BY <2>1, <2>2, <2>3, <2>4 DEF Complete
  <1>7. CASE \E r \in Requests : AcquireUnseen(t, r)
    BY <1>7 DEF AcquireUnseen, Odd
  <1>8. CASE UnlockFunc(t)
    <2>1. /\ pc[t] = "removing" /\ pc'[t] = "unlocking" /\ held' = held /\ id' = id
          /\ want' = want /\ t \in Alive
      BY <1>8 DEF UnlockFunc, Alive
    <2>2. ASSUME NEW k \in Listed(t), k # want[t].lock
          PROVE  k \in Listed(t)' /\ syncs'[id[t]][k] = syncs[id[t]][k]
      <3>1. CASE want[t].lock \notin Listed(t)
        BY <1>8, <2>1, <2>2, <3>1 DEF UnlockFunc, Listed
      <3>2. CASE want[t].lock \in Listed(t)
        <4>1. id[t] \in DOMAIN syncs /\ Listed(t) = DOMAIN syncs[id[t]]
          BY <3>2 DEF Listed
        <4>2. syncs' = [syncs EXCEPT ![id[t]] = Remove(@, want[t].lock)]
          BY <1>8, <2>2, <3>2 DEF UnlockFunc
        <4>3. id[t] \in DOMAIN syncs' /\ syncs'[id[t]] = Remove(syncs[id[t]], want[t].lock)
          BY <4>1, <4>2
        <4> QED
          BY <2>1, <2>2, <4>1, <4>3 DEF Listed, Remove
      <3> QED
        BY <3>1, <3>2
    <2> QED
      BY <2>1, <2>2 DEF Complete
  <1>9. CASE Release(t)
    <2>1. /\ pc[t] = "unlocking" /\ pc'[t] = "run" /\ id' = id /\ syncs' = syncs
          /\ held'[t] = Remove(held[t], want[t].lock) /\ t \in Alive
      BY <1>9 DEF Release, Alive
    <2> QED
      BY <2>1 DEF Complete, Listed, Remove
  <1>10. ASSUME NEW m \in Mutexes, CondWait(t, m)
         PROVE  Complete(t)'
    <2>1. /\ pc[t] = "run" /\ pc'[t] = "waiting" /\ id' = id /\ syncs' = syncs
          /\ m \in DOMAIN held[t] /\ held'[t] = Remove(held[t], m)
          /\ want'[t] = [lock |-> m, type |-> "mutex"] /\ t \in Alive
      BY <1>10 DEF CondWait, Alive
    <2>2. held[t][m] = "mutex"
      <3>1. [lock |-> m, type |-> held[t][m]] \in Requests
        BY <2>1 DEF IsLockMap
      <3> QED
        BY <3>1, RequestFacts
    <2> QED
      BY <2>1, <2>2 DEF Complete, Listed, Remove
  <1>11. CASE CondWake(t)
    <2>1. /\ pc[t] = "waiting" /\ pc'[t] = "run" /\ id' = id /\ syncs' = syncs
          /\ held'[t] = Put(held[t], want[t].lock, want[t].type) /\ t \in Alive
      BY <1>11 DEF CondWake, Alive
    <2> QED
      BY <2>1 DEF Complete, Listed, Put
  <1>12. CASE AcquireFails(t)
    <2>1. /\ pc[t] = "locking" /\ pc'[t] = "recording" /\ want'[t] = want[t]
          /\ held' = held /\ id' = id /\ syncs' = syncs /\ t \in Alive
      BY <1>12 DEF AcquireFails, Alive
    <2> QED
      BY <2>1 DEF Complete, Listed
  <1> QED
    BY <1>1, <1>3, <1>4, <1>5, <1>6, <1>7, <1>8, <1>9, <1>10, <1>11, <1>12 DEF ThreadStep

LEMMA AlwaysComplete == Spec => []CompleteInv
  <1>1. Init => CompleteInv
    BY EmptyMap DEF Init, CompleteInv, Complete, Alive
  <1>2. TypeOK /\ IdsInv /\ CompleteInv /\ [Next]_vars => CompleteInv'
    <2> SUFFICES ASSUME TypeOK, IdsInv, CompleteInv, [Next]_vars,
                        odd' \cap {"unseen", "stray"} = {}, NEW u \in Alive'
                 PROVE  Complete(u)'
      BY DEF CompleteInv
    <2>1. ASSUME NEW t \in Threads, ThreadStep(t)
          PROVE  Complete(u)'
      <3>1. odd \cap {"unseen", "stray"} = {}
        BY <2>1, IdKept
      <3>2. CASE u = t
        BY <2>1, <3>1, <3>2, CompleteOwn DEF CompleteInv, Alive
      <3>3. CASE u # t
        <4>1. u \in Alive
          BY <2>1, <3>3, OtherThreads DEF Alive
        <4> QED
          BY <2>1, <3>1, <3>3, <4>1, CompleteOthers DEF CompleteInv
      <3> QED
        BY <3>2, <3>3
    <2>2. CASE UNCHANGED vars
      BY <2>2 DEF vars, CompleteInv, Complete, Alive, Listed
    <2> QED
      BY <2>1, <2>2 DEF Next
  <1> QED
    BY <1>1, <1>2, TypeCorrect, AlwaysIds, PTL DEF Spec

\* Every lock a thread holds is in the records of its accesses, with its type,
\* unless some lock was acquired that lock_func_af was not told of.
THEOREM RecordIsComplete == Spec => []HeldIsListed
  <1>1. TypeOK /\ CompleteInv => HeldIsListed
    BY DEF CompleteInv, Complete, HeldIsListed, Tracing, Alive
  <1> QED
    BY <1>1, TypeCorrect, AlwaysComplete, PTL

-----------------------------------------------------------------------------
(* Every lock listed is held.                                              *)

LEMMA SoundOthers ==
  ASSUME TypeOK, IdsInv, OneOwner, NEW t \in Threads, ThreadStep(t), t \in Alive => Sound(t),
         NEW u \in Alive \ {t}, Sound(u)
  PROVE  Sound(u)'
  <1>1. u \in Threads \ {t}
    BY DEF Alive
  <1>2. /\ pc'[u] = pc[u] /\ id'[u] = id[u] /\ want'[u] = want[u]
    BY <1>1, OtherThreads
  <1>3. DOMAIN held'[u] = DOMAIN held[u]
    <2>1. CASE held'[u] = held[u]
      BY <2>1
    <2>2. CASE /\ Release(t) /\ want[t].lock \in Sems
               /\ held'[u] = Remove(held[u], want[t].lock)
      <3>1. t \in Alive /\ pc[t] = "unlocking"
        BY <2>2 DEF Release, Step, Alive
      <3>2. want[t].lock \in DOMAIN held[t] \cap Exclusive
        BY <2>2, <3>1 DEF Sound, Exclusive
      <3>3. want[t].lock \notin DOMAIN held[u]
        BY <1>1, <3>2 DEF OneOwner
      <3> QED
        BY <2>2, <3>3 DEF Remove
    <2> QED
      BY <1>1, <2>1, <2>2, OtherThreads
  <1>4. /\ id[u] \in DOMAIN syncs' <=> id[u] \in DOMAIN syncs
        /\ id[u] \in DOMAIN syncs => syncs'[id[u]] = syncs[id[u]]
    <2>1. CASE ThreadStart(t)
      BY <2>1 DEF ThreadStart
    <2>2. CASE ~ThreadStart(t)
      <3>1. t \in Alive
        BY <2>2, IdKept DEF Alive
      <3> QED
        BY <3>1, OtherEntries DEF IdsInv
    <2> QED
      BY <2>1, <2>2
  <1>5. Listed(u)' = Listed(u)
    BY <1>2, <1>4 DEF Listed
  <1> QED
    BY <1>2, <1>3, <1>5 DEF Sound

\* What unlock_func does to the entry.
LEMMA UnlockFuncListed ==
  ASSUME TypeOK, NEW t \in Threads, UnlockFunc(t),
         id[t] \in DOMAIN syncs => DOMAIN syncs[id[t]] # {}
  PROVE  /\ id' = id
         /\ Listed(t)' = Listed(t) \ {want[t].lock}
         /\ id[t] \in DOMAIN syncs' => DOMAIN syncs'[id[t]] # {}
  <1> DEFINE l == want[t].lock
  <1>1. id' = id
    BY DEF UnlockFunc
  <1>2. CASE l \notin Listed(t)
    <2>1. syncs' = syncs
      BY <1>2 DEF UnlockFunc
    <2> QED
      BY <1>1, <1>2, <2>1 DEF Listed
  <1>3. CASE Listed(t) = {l}
    <2>1. syncs' = Remove(syncs, id[t])
      BY <1>3 DEF UnlockFunc
    <2> QED
      BY <1>1, <1>3, <2>1 DEF Listed, Remove
  <1>4. CASE l \in Listed(t) /\ Listed(t) # {l}
    <2>1. id[t] \in DOMAIN syncs /\ Listed(t) = DOMAIN syncs[id[t]]
      BY <1>4 DEF Listed
    <2>2. syncs' = [syncs EXCEPT ![id[t]] = Remove(@, l)]
      BY <1>4 DEF UnlockFunc
    <2>3. id[t] \in DOMAIN syncs' /\ syncs'[id[t]] = Remove(syncs[id[t]], l)
      BY <2>1, <2>2
    <2>4. DOMAIN syncs'[id[t]] = Listed(t) \ {l}
      BY <2>1, <2>3 DEF Remove
    <2> QED
      BY <1>1, <1>4, <2>3, <2>4 DEF Listed
  <1> QED
    BY <1>2, <1>3, <1>4

LEMMA SoundOwn ==
  ASSUME TypeOK, IdsInv, NEW t \in Threads, ThreadStep(t), t \in Alive', t \in Alive => Sound(t),
         \A d \in DOMAIN syncs : DOMAIN syncs[d] # {} /\ d \in Ids,
         odd' \cap {"failed", "stray", "posted", "left"} = {}
  PROVE  Tidy(t)'
  <1>1. CASE ThreadStart(t)
    <2>1. PICK d \in 0..Cardinality(Alive) : ThreadStart(t)!(d)
      BY <1>1 DEF ThreadStart
    <2>2. /\ d \notin DOMAIN syncs /\ syncs' = syncs /\ id'[t] = d /\ pc'[t] = "run"
      BY <2>1 DEF Fresh, TypeOK
    <2>3. Listed(t)' = {}
      BY <2>2 DEF Listed
    <2>4. Sound(t)'
      BY <2>2, <2>3 DEF Sound
    <2> QED
      BY <2>2, <2>4 DEF Tidy
  <1>2. ASSUME id' = id, syncs' = syncs, t \in Alive,
               pc[t] = "waiting" => want[t].lock \in DOMAIN held'[t],
               pc[t] # "unlocking", DOMAIN held[t] \subseteq DOMAIN held'[t],
               pc'[t] \in {"recording", "removing"} => want'[t].lock \in DOMAIN held'[t],
               pc'[t] # "unlocking"
        PROVE  Tidy(t)'
    <2>1. Listed(t)' = Listed(t)
      BY <1>2 DEF Listed
    <2>2. Listed(t) \subseteq DOMAIN held'[t]
      BY <1>2 DEF Sound
    <2>3. Sound(t)'
      BY <1>2, <2>1, <2>2 DEF Sound
    <2> QED
      BY <1>2, <2>3 DEF Tidy
  <1>3. CASE ThreadFini(t)
    BY <1>3 DEF ThreadFini, Alive, Step, TypeOK
  <1>4. CASE \/ InstructionEnd(t) \/ StoreMemOp(t) \/ PrintEvent(t) \/ PrintSync(t)
             \/ \E i \in Instrs : InstructionBegin(t, i)
             \/ \E i \in Instrs, ea \in Addrs : Access(t, i, ea)
             \/ \E r \in Requests : LockCall(t, r)
             \/ \E l \in Locks : UnlockCall(t, l)
    <2>1. /\ id' = id /\ syncs' = syncs /\ held' = held
          /\ pc[t] \notin {"unborn", "ended", "waiting", "unlocking"}
          /\ pc'[t] \notin {"recording", "unlocking"}
      BY <1>4
      DEF InstructionEnd, StoreMemOp, PrintEvent, PrintSync, InstructionBegin, Access,
          LockCall, UnlockCall, Step, TypeOK
    <2>2. pc'[t] = "removing" => want'[t].lock \in DOMAIN held[t]
      <3>1. CASE \E l \in Locks : UnlockCall(t, l)
        BY <3>1 DEF UnlockCall, Step, TypeOK
      <3> QED
        BY <1>4, <3>1
        DEF InstructionEnd, StoreMemOp, PrintEvent, PrintSync, InstructionBegin, Access,
            LockCall, Step, TypeOK
    <2>3. t \in Alive
      BY <2>1 DEF Alive
    <2> QED
      BY <1>2, <2>1, <2>2, <2>3
  <1>5. CASE \E s \in Sems : PostCall(t, s)
    BY <1>5 DEF PostCall, Odd
  <1>6. CASE Acquire(t)
    <2>1. /\ pc[t] = "locking" /\ pc'[t] = "recording" /\ want'[t] = want[t]
          /\ DOMAIN held'[t] = DOMAIN held[t] \cup {want[t].lock}
          /\ id' = id /\ syncs' = syncs /\ t \in Alive
      BY <1>6 DEF Acquire, Alive, Put, Step, TypeOK
    <2> QED
      BY <1>2, <2>1
  <1>7. ASSUME NEW a \in Locks \cup {Stray}, LockFuncAf(t, a)
        PROVE  Tidy(t)'
    <2>1. a = want[t].lock
      BY <1>7 DEF LockFuncAf, Odd
    <2>2. /\ pc[t] = "recording" /\ pc'[t] = "run" /\ held' = held /\ id' = id
          /\ t \in Alive
      BY <1>7 DEF LockFuncAf, Alive, Step, TypeOK
    <2>3. id[t] \in DOMAIN syncs' /\ DOMAIN syncs'[id[t]] = Listed(t) \cup {a}
      BY <1>7, EmptyMap DEF LockFuncAf, Listed, Put
    <2>4. Listed(t)' = Listed(t) \cup {a}
      BY <2>2, <2>3 DEF Listed
    <2>5. \A k \in Listed(t) : k \in DOMAIN held[t]
      BY <2>2 DEF Sound
    <2>6. a \in DOMAIN held[t]
      BY <2>1, <2>2 DEF Sound
    <2>7. Sound(t)'
      BY <2>2, <2>4, <2>5, <2>6 DEF Sound
    <2> QED
      BY <2>2, <2>3, <2>7 DEF Tidy
  <1>8. CASE \E r \in Requests : AcquireUnseen(t, r)
    <2>1. /\ pc[t] = "run" /\ pc'[t] = "run" /\ id' = id /\ syncs' = syncs /\ t \in Alive
          /\ DOMAIN held[t] \subseteq DOMAIN held'[t]
      BY <1>8 DEF AcquireUnseen, Alive, Put, Step, TypeOK
    <2> QED
      BY <1>2, <2>1
  <1>9. CASE UnlockFunc(t)
    <2>1. /\ pc[t] = "removing" /\ pc'[t] = "unlocking" /\ held' = held
          /\ want' = want /\ t \in Alive
      BY <1>9 DEF UnlockFunc, Alive, TypeOK
    <2>2. /\ id' = id
          /\ Listed(t)' = Listed(t) \ {want[t].lock}
          /\ id[t] \in DOMAIN syncs' => DOMAIN syncs'[id[t]] # {}
      BY <1>9, UnlockFuncListed
    <2>3. Listed(t) \subseteq DOMAIN held[t] /\ want[t].lock \in DOMAIN held[t]
      BY <2>1 DEF Sound
    <2>4. Sound(t)'
      BY <2>1, <2>2, <2>3 DEF Sound
    <2> QED
      BY <2>2, <2>4 DEF Tidy
  <1>10. CASE Release(t)
    <2>1. /\ pc[t] = "unlocking" /\ pc'[t] = "run" /\ id' = id /\ syncs' = syncs
          /\ DOMAIN held'[t] = DOMAIN held[t] \ {want[t].lock} /\ t \in Alive
      BY <1>10 DEF Release, Alive, Remove, Step, TypeOK
    <2>2. Listed(t)' = Listed(t)
      BY <2>1 DEF Listed
    <2>3. Listed(t) \subseteq DOMAIN held'[t]
      BY <2>1 DEF Sound
    <2>4. Sound(t)'
      BY <2>1, <2>2, <2>3 DEF Sound
    <2> QED
      BY <2>1, <2>4 DEF Tidy
  <1>11. ASSUME NEW m \in Mutexes, CondWait(t, m)
         PROVE  Tidy(t)'
    <2>1. /\ pc[t] = "run" /\ pc'[t] = "waiting" /\ id' = id /\ syncs' = syncs
          /\ DOMAIN held'[t] = DOMAIN held[t] \ {m}
          /\ want'[t].lock = m /\ t \in Alive
      BY <1>11 DEF CondWait, Alive, Remove, Step, TypeOK
    <2>2. Listed(t)' = Listed(t)
      BY <2>1 DEF Listed
    <2>3. Listed(t) \subseteq DOMAIN held[t]
      BY <2>1 DEF Sound
    <2>4. Sound(t)'
      BY <2>1, <2>2, <2>3 DEF Sound
    <2> QED
      BY <2>1, <2>4 DEF Tidy
  <1>12. CASE CondWake(t)
    <2>1. /\ pc[t] = "waiting" /\ pc'[t] = "run" /\ id' = id /\ syncs' = syncs
          /\ DOMAIN held'[t] = DOMAIN held[t] \cup {want[t].lock} /\ t \in Alive
      BY <1>12 DEF CondWake, Alive, Put, Step, TypeOK
    <2> QED
      BY <1>2, <2>1
  <1>13. CASE AcquireFails(t)
    BY <1>13 DEF AcquireFails, Odd
  <1> QED
    BY <1>1, <1>3, <1>4, <1>5, <1>6, <1>7, <1>8, <1>9, <1>10, <1>11, <1>12, <1>13
    DEF ThreadStep

\* Nothing stays in syncs for a thread that ended.
LEMMA EntriesOwned ==
  ASSUME TypeOK, IdsInv, SoundInv, NEW t \in Threads, ThreadStep(t),
         odd' \cap {"failed", "stray", "posted", "left"} = {}, NEW d \in DOMAIN syncs'
  PROVE  d \in Ids' /\ (d # id'[t] => DOMAIN syncs'[d] # {})
  <1>1. odd \cap {"failed", "stray", "posted", "left"} = {}
    BY IdKept
  <1>2. /\ \A u \in Alive : Sound(u)
        /\ \A e \in DOMAIN syncs : DOMAIN syncs[e] # {} /\ e \in Ids
    BY <1>1 DEF SoundInv
  <1>3. ASSUME d \in DOMAIN syncs, syncs'[d] = syncs[d], d # id[t] \/ ThreadStart(t)
        PROVE  d \in Ids' /\ DOMAIN syncs'[d] # {}
    <2>1. PICK u \in Alive : d = id[u]
      BY <1>2, <1>3 DEF Ids
    <2>2. u # t /\ u \in Threads
      BY <1>3, <2>1, IdKept DEF Alive
    <2>3. u \in Alive' /\ id'[u] = d
      BY <2>1, <2>2, OtherThreads DEF Alive
    <2> QED
      BY <1>2, <1>3, <2>3 DEF Ids
  <1>4. CASE ThreadStart(t)
    <2>1. syncs' = syncs
      BY <1>4 DEF ThreadStart
    <2> QED
      BY <1>3, <1>4, <2>1
  <1>5. CASE ~ThreadStart(t) /\ d # id[t]
    BY <1>3, <1>5, OtherEntries
  <1>6. CASE ~ThreadStart(t) /\ d = id[t]
    <2>1. id' = id /\ pc[t] # "unborn" /\ pc[t] # "ended" /\ pc'[t] # "unborn"
      BY <1>6, IdKept
    <2>2. t \in Alive
      BY <2>1 DEF Alive
    <2>3. ~ThreadFini(t)
      <3>1. SUFFICES ASSUME ThreadFini(t) PROVE FALSE
        OBVIOUS
      <3>2. DOMAIN held[t] = {} /\ syncs' = syncs /\ pc[t] = "run"
        BY <3>1 DEF ThreadFini, Odd, Step
      <3>3. Listed(t) = {}
        BY <1>2, <2>2, <3>2 DEF Sound
      <3> QED
        BY <1>2, <1>6, <3>2, <3>3 DEF Listed
    <2>4. t \in Alive'
      BY <2>1, <2>3, IdKept DEF Alive
    <2> QED
      BY <1>6, <2>1, <2>4 DEF Ids
  <1> QED
    BY <1>4, <1>5, <1>6

LEMMA AlwaysSound == Spec => []SoundInv
  <1>1. Init => SoundInv
    <2> SUFFICES ASSUME Init PROVE SoundInv
      OBVIOUS
    <2>1. DOMAIN syncs = {} /\ \A u \in Alive : pc[u] = "run"
      BY EmptyMap DEF Init, Alive
    <2>2. \A u \in Alive : Sound(u)
      BY <2>1 DEF Sound, Listed
    <2> QED
      BY <2>1, <2>2 DEF SoundInv
  <1>2. TypeOK /\ IdsInv /\ OneOwner /\ SoundInv /\ [Next]_vars => SoundInv'
    <2> SUFFICES ASSUME TypeOK, IdsInv, OneOwner, SoundInv, [Next]_vars PROVE SoundInv'
      OBVIOUS
    <2>1. ASSUME NEW t \in Threads, ThreadStep(t),
                 odd' \cap {"failed", "stray", "posted", "left"} = {}
          PROVE  /\ \A u \in Alive' : Sound(u)'
                 /\ \A d \in DOMAIN syncs' : DOMAIN syncs'[d] # {} /\ d \in Ids'
      <3>1. odd \cap {"failed", "stray", "posted", "left"} = {}
        BY <2>1, IdKept
      <3>2. /\ \A u \in Alive : Sound(u)
            /\ \A d \in DOMAIN syncs : DOMAIN syncs[d] # {} /\ d \in Ids
        BY <3>1 DEF SoundInv
      <3>3. t \in Alive' => Sound(t)' /\ (id'[t] \in DOMAIN syncs' => DOMAIN syncs'[id'[t]] # {})
        BY <2>1, <3>2, SoundOwn DEF Tidy
      <3>4. ASSUME NEW u \in Alive', u # t
            PROVE  Sound(u)'
        <4>1. u \in Alive
          BY <2>1, <3>4, OtherThreads DEF Alive
        <4> QED
          BY <2>1, <3>2, <3>4, <4>1, SoundOthers
      <3>5. ASSUME NEW d \in DOMAIN syncs'
            PROVE  DOMAIN syncs'[d] # {} /\ d \in Ids'
        <4>1. d \in Ids' /\ (d # id'[t] => DOMAIN syncs'[d] # {})
          BY <2>1, <3>5, EntriesOwned
        <4>2. CASE d = id'[t]
          <5>1. CASE t \in Alive'
            <6>1. id'[t] \in DOMAIN syncs' => DOMAIN syncs'[id'[t]] # {}
              BY <3>3, <5>1
            <6>2. id'[t] \in DOMAIN syncs' /\ DOMAIN syncs'[id'[t]] = DOMAIN syncs'[d]
              BY <3>5, <4>2
            <6> QED
              BY <4>1, <6>1, <6>2
          <5>2. CASE t \notin Alive'
            <6>1. ThreadFini(t) /\ id' = id
              BY <2>1, <5>2, IdKept DEF Alive, ThreadFini
            <6>2. syncs' = syncs
              BY <6>1 DEF ThreadFini
            <6>3. d \in DOMAIN syncs /\ DOMAIN syncs'[d] = DOMAIN syncs[d]
              BY <3>5, <6>2
            <6> QED
              BY <3>2, <4>1, <6>3
          <5> QED
            BY <5>1, <5>2
        <4> QED
          BY <4>1, <4>2
      <3> QED
        BY <3>3, <3>4, <3>5
    <2>2. CASE UNCHANGED vars
      BY <2>2 DEF vars, SoundInv, Sound, Alive, Listed, Ids
    <2> QED
      BY <2>1, <2>2 DEF Next, SoundInv
  <1> QED
    BY <1>1, <1>2, TypeCorrect, AlwaysIds, AlwaysOneOwner, PTL DEF Spec

\* Every lock in the records of a thread is held, unless a lock call failed, an
\* address was misread, a semaphore used as a signal or a lock never released.
THEOREM RecordIsSound == Spec => []ListedIsHeld
  <1>1. SoundInv => ListedIsHeld
    BY DEF SoundInv, Sound, ListedIsHeld
  <1> QED
    BY <1>1, AlwaysSound, PTL

\* A thread that gets the id of an earlier one starts with nothing listed.
THEOREM NewThreadsAreAsynchronous == Spec => []NewIsAsynchronous
  <1>1. SoundInv => NewIsAsynchronous
    BY DEF SoundInv, NewIsAsynchronous
  <1> QED
    BY <1>1, AlwaysSound, PTL

-----------------------------------------------------------------------------
(* erase(end()).                                                           *)

\* Until a semaphore is posted as a signal, who releases a lock holds it.
ReleasesOwn ==
  "posted" \notin odd =>
    \A t \in Threads :
      pc[t] \in {"removing", "unlocking"} => want[t].lock \in DOMAIN held[t]

\* Only unlock_func erases end().
LEMMA WhoErasesEnd ==
  ASSUME TypeOK, NEW t \in Threads, ThreadStep(t), "end" \in ub'
  PROVE  UnlockFunc(t) /\ id[t] \in DOMAIN syncs /\ want[t].lock \notin Listed(t)
  <1>1. ASSUME NEW from, NEW to, NEW r, Step(t, from, to, r) PROVE FALSE
    BY <1>1, OverlapMaps DEF Step
  <1>2. CASE ThreadStart(t)
    BY <1>2 DEF ThreadStart
  <1>3. CASE UnlockFunc(t)
    BY <1>3 DEF UnlockFunc
  <1> QED
    BY <1>1, <1>2, <1>3
    DEF ThreadStep, ThreadFini, InstructionBegin, InstructionEnd, Access, StoreMemOp,
        PrintEvent, PrintSync, LockCall, AcquireUnseen, Acquire, AcquireFails,
        LockFuncAf, UnlockCall, PostCall, Release, CondWait, CondWake

LEMMA NextReleasesOwn == TypeOK /\ OneOwner /\ ReleasesOwn /\ [Next]_vars => ReleasesOwn'
  <1> SUFFICES ASSUME TypeOK, OneOwner, ReleasesOwn, [Next]_vars, "posted" \notin odd',
                      NEW u \in Threads, pc'[u] \in {"removing", "unlocking"}
               PROVE  want'[u].lock \in DOMAIN held'[u]
    BY DEF ReleasesOwn
  <1>1. ASSUME NEW t \in Threads, ThreadStep(t), "posted" \notin odd
        PROVE  want'[u].lock \in DOMAIN held'[u]
    <2>1. ASSUME u # t
          PROVE  want'[u].lock \in DOMAIN held'[u]
      <3>1. pc'[u] = pc[u] /\ want'[u] = want[u] /\ want[u].lock \in DOMAIN held[u]
        BY <1>1, <2>1, OtherThreads DEF ReleasesOwn
      <3>2. CASE held'[u] = held[u]
        BY <3>1, <3>2
      <3>3. CASE Release(t) /\ want[t].lock \in Sems /\ held'[u] = Remove(held[u], want[t].lock)
        <4>1. want[t].lock \in DOMAIN held[t] \cap Exclusive
          BY <1>1, <3>3 DEF Release, Step, ReleasesOwn, Exclusive
        <4>2. want[t].lock \notin DOMAIN held[u]
          BY <2>1, <4>1 DEF OneOwner
        <4> QED
          BY <3>1, <3>3, <4>2 DEF Remove
      <3> QED
        BY <1>1, <2>1, <3>2, <3>3, OtherThreads
    <2>2. CASE u = t /\ UnlockFunc(t)
      BY <1>1, <2>2 DEF UnlockFunc, ReleasesOwn
    <2>3. CASE u = t /\ \E l \in Locks : UnlockCall(t, l)
      BY <2>3 DEF UnlockCall, Step, TypeOK
    <2>4. CASE u = t /\ ThreadStart(t)
      <3>1. PICK d \in 0..Cardinality(Alive) : ThreadStart(t)!(d)
        BY <2>4 DEF ThreadStart
      <3> QED
        BY <2>4, <3>1 DEF TypeOK
    <2>5. CASE u = t /\ \E s \in Sems : PostCall(t, s)
      BY <2>5 DEF PostCall, Odd
    <2> QED
      BY <1>1, <2>1, <2>2, <2>3, <2>4, <2>5
      DEF ThreadStep, ThreadFini, InstructionBegin, InstructionEnd, Access, StoreMemOp,
          PrintEvent, PrintSync, LockCall, AcquireUnseen, Acquire, AcquireFails,
          LockFuncAf, Release, CondWait, CondWake, Step, TypeOK
  <1>2. CASE UNCHANGED vars
    BY <1>2 DEF vars, ReleasesOwn
  <1> QED
    BY <1>1, <1>2, IdKept DEF Next

LEMMA AlwaysReleasesOwn == Spec => []ReleasesOwn
  <1>1. Init => ReleasesOwn
    BY DEF Init, ReleasesOwn
  <1> QED
    BY <1>1, NextReleasesOwn, TypeCorrect, AlwaysOneOwner, PTL DEF Spec

\* erase(end()) needs a lock acquired unseen, a misread address or a semaphore
\* used as a signal: threads that end with a lock and ids used again never lead
\* to it.
THEOREM EndNeedsUnusualCall == Spec => []EndIsErased
  <1>1. Init => EndIsErased
    BY DEF Init, EndIsErased
  <1>2. TypeOK /\ CompleteInv /\ ReleasesOwn /\ EndIsErased /\ [Next]_vars => EndIsErased'
    <2> SUFFICES ASSUME TypeOK, CompleteInv, ReleasesOwn, EndIsErased, [Next]_vars,
                        "end" \in ub', odd' \cap {"unseen", "stray", "posted"} = {}
                 PROVE  FALSE
      BY DEF EndIsErased
    <2>1. CASE UNCHANGED vars
      BY <2>1 DEF vars, EndIsErased
    <2>2. ASSUME NEW t \in Threads, ThreadStep(t)
          PROVE  FALSE
      <3>1. UnlockFunc(t) /\ id[t] \in DOMAIN syncs /\ want[t].lock \notin Listed(t)
        BY <2>2, WhoErasesEnd
      <3>2. odd \cap {"unseen", "stray"} = {} /\ "posted" \notin odd
        BY <2>2, IdKept
      <3>3. pc[t] = "removing" /\ t \in Alive
        BY <3>1 DEF UnlockFunc, Alive
      <3>4. want[t].lock \in DOMAIN held[t] /\ Complete(t)
        BY <3>2, <3>3 DEF ReleasesOwn, CompleteInv
      <3> QED
        BY <3>1, <3>3, <3>4 DEF Complete
    <2> QED
      BY <2>1, <2>2 DEF Next
  <1> QED
    BY <1>1, <1>2, TypeCorrect, AlwaysComplete, AlwaysReleasesOwn, PTL DEF Spec

-----------------------------------------------------------------------------
(* The streams.                                                            *)

\* The file of a thread is what it wrote.
Own(t) ==
  t \in Alive \/ (pc[t] = "ended" /\ "reused" \notin odd) => files[id[t]] = written[t]

StreamInv == \A t \in Threads : Own(t)

\* Who writes, and to which file.
LEMMA WhoWrites ==
  ASSUME TypeOK, NEW t \in Threads, ThreadStep(t), ~ThreadStart(t)
  PROVE  \/ UNCHANGED <<files, written>>
         \/ \E line : Write(t, line) /\ pc[t] \in {"printing", "syncing"}
  <1>1. CASE PrintEvent(t) \/ PrintSync(t)
    BY <1>1 DEF PrintEvent, PrintSync, Step
  <1> QED
    BY <1>1
    DEF ThreadStep, ThreadFini, InstructionBegin, InstructionEnd, Access, StoreMemOp,
        LockCall, AcquireUnseen, Acquire, AcquireFails, LockFuncAf, UnlockCall,
        PostCall, UnlockFunc, Release, CondWait, CondWake


LEMMA NextStreams == TypeOK /\ IdsInv /\ StreamInv /\ [Next]_vars => StreamInv'
  <1> SUFFICES ASSUME TypeOK, IdsInv, StreamInv, [Next]_vars, NEW u \in Threads
               PROVE  Own(u)'
    BY DEF StreamInv
  <1>1. ASSUME NEW t \in Threads, ThreadStep(t), ~ThreadStart(t)
        PROVE  Own(u)'
    <2>1. /\ id' = id /\ odd \subseteq odd' /\ pc[t] \notin {"unborn", "ended"}
          /\ pc'[t] # "unborn"
      BY <1>1, IdKept
    <2>2. u # t => pc'[u] = pc[u]
      BY <1>1, OtherThreads
    <2>3. /\ u \in Alive' => u \in Alive
          /\ pc'[u] = "ended" => pc[u] = "ended" \/ u \in Alive
      BY <2>1, <2>2 DEF Alive
    <2>4. CASE UNCHANGED <<files, written>>
      BY <2>1, <2>3, <2>4 DEF StreamInv, Own
    <2>5. ASSUME NEW line, Write(t, line), pc[t] \in {"printing", "syncing"}
          PROVE  Own(u)'
      <3>1. t \in Alive /\ id[t] \in DOMAIN files
        BY <2>1, <2>5 DEF Alive, IdsInv
      <3>2. CASE u = t
        <4>1. /\ files'[id[t]] = Append(files[id[t]], line)
              /\ written'[t] = Append(written[t], line)
          BY <2>5, <3>1 DEF Write, TypeOK
        <4>2. files[id[t]] = written[t]
          BY <3>1 DEF StreamInv, Own
        <4> QED
          BY <2>1, <3>2, <4>1, <4>2 DEF Own
      <3>3. ASSUME u # t, u \in Alive' \/ (pc'[u] = "ended" /\ "reused" \notin odd')
            PROVE  files'[id[u]] = written'[u]
        <4>1. u \in Alive \/ (pc[u] = "ended" /\ "reused" \notin odd)
          BY <2>1, <2>2, <2>3, <3>3 DEF Alive
        <4>2. id[u] # id[t] /\ id[u] \in DOMAIN files
          BY <2>1, <3>1, <3>3, <4>1 DEF IdsInv, Alive
        <4>3. files'[id[u]] = files[id[u]] /\ written'[u] = written[u]
          BY <2>5, <3>3, <4>2 DEF Write, TypeOK
        <4> QED
          BY <4>1, <4>3 DEF StreamInv, Own
      <3> QED
        BY <2>1, <3>2, <3>3 DEF Own
    <2> QED
      BY <1>1, <2>4, <2>5, WhoWrites
  <1>2. ASSUME NEW t \in Threads, ThreadStart(t),
               u \in Alive' \/ (pc'[u] = "ended" /\ "reused" \notin odd')
        PROVE  files'[id'[u]] = written'[u]
    <2>1. PICK d \in 0..Cardinality(Alive) : ThreadStart(t)!(d)
      BY <1>2 DEF ThreadStart
    <2>2. /\ pc[t] = "unborn" /\ pc'[t] = "run" /\ id'[t] = d /\ written' = written
          /\ files'[d] = << >>
          /\ \A e \in DOMAIN files \ {d} : files'[e] = files[e]
      BY <2>1 DEF TypeOK, Put
    <2>3. CASE u = t
      BY <2>2, <2>3 DEF IdsInv
    <2>4. CASE u # t
      <3>1. pc'[u] = pc[u] /\ id'[u] = id[u]
        BY <2>1, <2>4 DEF TypeOK
      <3>2. CASE u \in Alive
        <4>1. id[u] # d /\ id[u] \in DOMAIN files
          BY <2>1, <3>2 DEF Fresh, Ids, IdsInv, Alive
        <4> QED
          BY <2>2, <3>1, <3>2, <4>1 DEF StreamInv, Own
      <3>3. CASE u \notin Alive
        <4>1. pc[u] = "ended" /\ "reused" \notin odd'
          BY <1>2, <3>1, <3>3 DEF Alive
        <4>2. "reused" \notin odd /\ d \notin DOMAIN files
          BY <2>1, <4>1 DEF Odd
        <4>3. id[u] \in DOMAIN files
          BY <4>1 DEF IdsInv
        <4> QED
          BY <2>2, <3>1, <4>1, <4>2, <4>3 DEF StreamInv, Own
      <3> QED
        BY <3>2, <3>3
    <2> QED
      BY <2>3, <2>4
  <1>3. CASE UNCHANGED vars
    BY <1>3 DEF vars, StreamInv, Own, Alive
  <1> QED
    BY <1>1, <1>2, <1>3 DEF Next, Own

LEMMA AlwaysStreams == Spec => []StreamInv
  <1>1. Init => StreamInv
    BY DEF Init, StreamInv, Own, Alive
  <1> QED
    BY <1>1, NextStreams, TypeCorrect, AlwaysIds, PTL DEF Spec

\* No line of a thread is lost, moved or put in another's file while the thread
\* runs; nor later, until its id is used again.
THEOREM StreamsAreOwn == Spec => []StreamIsOwn
  <1>1. StreamInv => StreamIsOwn
    BY DEF StreamInv, Own, StreamIsOwn
  <1> QED
    BY <1>1, AlwaysStreams, PTL

\* Only ThreadStart leaves outp.
LEMMA WhoOverflows ==
  ASSUME TypeOK, NEW t \in Threads, ThreadStep(t), "outp" \in ub'
  PROVE  ThreadStart(t)
  <1>1. ASSUME NEW from, NEW to, NEW r, Step(t, from, to, r) PROVE FALSE
    BY <1>1, OverlapMaps DEF Step
  <1>2. ~UnlockFunc(t)
    BY DEF UnlockFunc
  <1> QED
    BY <1>1, <1>2
    DEF ThreadStep, ThreadFini, InstructionBegin, InstructionEnd, Access, StoreMemOp,
        PrintEvent, PrintSync, LockCall, AcquireUnseen, Acquire, AcquireFails,
        LockFuncAf, UnlockCall, PostCall, Release, CondWait, CondWake

\* However many threads there have been, outp is only left when more of them run
\* at once than it has streams.
THEOREM OverflowIsAtOnce == Spec => []OverflowNeedsThreads
  <1>1. Init => OverflowNeedsThreads
    BY DEF Init, OverflowNeedsThreads
  <1>2. TypeOK /\ IdsInv /\ OverflowNeedsThreads /\ [Next]_vars => OverflowNeedsThreads'
    <2> SUFFICES ASSUME TypeOK, IdsInv, OverflowNeedsThreads, [Next]_vars, "outp" \in ub'
                 PROVE  Cardinality(Alive') > Capacity
      BY DEF OverflowNeedsThreads
    <2>1. CASE UNCHANGED vars
      BY <2>1 DEF vars, OverflowNeedsThreads, Alive
    <2>2. ASSUME NEW t \in Threads, ThreadStart(t)
          PROVE  Cardinality(Alive') > Capacity
      <3>1. PICK d \in 0..Cardinality(Alive) : ThreadStart(t)!(d)
        BY <2>2 DEF ThreadStart
      <3>2. IsFiniteSet(Alive) /\ Cardinality(Alive) \in Nat
        BY FS_CardinalityType DEF IdsInv
      <3>3. d \in Nat /\ d >= Capacity /\ 0..(d - 1) \subseteq Ids
        BY <3>1, <3>2, StreamsAssumption DEF Fresh
      <3>4. IsFiniteSet(Ids) /\ Cardinality(Ids) <= Cardinality(Alive)
        <4> DEFINE f == [u \in Alive |-> id[u]]
        <4>1. f \in Surjection(Alive, Ids)
          BY DEF Surjection, Ids
        <4> QED
          BY <3>2, <4>1, FS_Surjection
      <3>5. Cardinality(0..(d - 1)) = d
        BY <3>3, FS_Interval
      <3>6. d <= Cardinality(Ids) /\ Cardinality(Ids) \in Nat
        BY <3>3, <3>4, <3>5, FS_Subset, FS_CardinalityType
      <3>7. Alive' = Alive \cup {t} /\ t \notin Alive
        BY <3>1 DEF Alive, TypeOK
      <3>8. Cardinality(Alive') = Cardinality(Alive) + 1
        BY <3>2, <3>7, FS_AddElement
      <3> QED
        BY <3>2, <3>3, <3>4, <3>6, <3>8, StreamsAssumption
    <2> QED
      BY <2>1, <2>2, WhoOverflows DEF Next
  <1> QED
    BY <1>1, <1>2, TypeCorrect, AlwaysIds, PTL DEF Spec

-----------------------------------------------------------------------------
(* The file of each thread implements LockTrace.                           *)

\* The refinement mapping, of the lines a thread wrote.
Owned == [u \in Threads |-> DOMAIN held[u] \cap Exclusive]
RecordAt(w, k) ==
  [thread |-> w[2 * k - 1].thread, ins |-> w[2 * k - 1].ins,
   locks |-> w[2 * k].locks \cap Exclusive]
RecordsOf(w) == [k \in 1..(Len(w) \div 2) |-> RecordAt(w, k)]

\* A thread writes its lines two by two.
Paired(t) ==
  /\ pc[t] # "syncing" => \E n \in Nat : Len(written[t]) = 2 * n
  /\ pc[t] = "syncing" =>
       \E n \in Nat : /\ Len(written[t]) = 2 * n + 1
                      /\ written[t][2 * n + 1].thread = t
                      /\ written[t][2 * n + 1].ins = cur[t].ins

PairedInv == \A t \in Threads : Paired(t)

\* The first line of a record adds none.
LEMMA FirstLine ==
  ASSUME NEW w \in Seq(Lines), NEW n \in Nat, Len(w) = 2 * n, NEW e \in Lines
  PROVE  RecordsOf(Append(w, e)) = RecordsOf(w)
  <1>1. Len(Append(w, e)) = 2 * n + 1 /\ \A k \in 1..(2 * n) : Append(w, e)[k] = w[k]
    BY AppendProperties
  <1>2. (2 * n + 1) \div 2 = n /\ (2 * n) \div 2 = n
    OBVIOUS
  <1>3. ASSUME NEW k \in 1..n
        PROVE  RecordAt(Append(w, e), k) = RecordAt(w, k)
    <2>1. 2 * k - 1 \in 1..(2 * n) /\ 2 * k \in 1..(2 * n)
      OBVIOUS
    <2>2. Append(w, e)[2 * k - 1] = w[2 * k - 1] /\ Append(w, e)[2 * k] = w[2 * k]
      BY <1>1, <2>1
    <2> QED
      BY <2>2 DEF RecordAt
  <1> QED
    BY <1>1, <1>2, <1>3 DEF RecordsOf

\* The second completes it.
LEMMA SecondLine ==
  ASSUME NEW w \in Seq(Lines), NEW n \in Nat, Len(w) = 2 * n + 1, NEW e \in Lines
  PROVE  RecordsOf(Append(w, e)) =
           Append(RecordsOf(w), [thread |-> w[2 * n + 1].thread, ins |-> w[2 * n + 1].ins,
                                 locks |-> e.locks \cap Exclusive])
  <1> DEFINE more == Append(w, e)
             new == [thread |-> w[2 * n + 1].thread, ins |-> w[2 * n + 1].ins,
                     locks |-> e.locks \cap Exclusive]
             S == {RecordAt(w, k) : k \in 1..n} \cup {new}
             longer == Append(RecordsOf(w), new)
  <1>1. /\ Len(more) = 2 * n + 2 /\ more[2 * n + 2] = e
        /\ \A k \in 1..(2 * n + 1) : more[k] = w[k]
    BY AppendProperties
  <1>2. (2 * n + 1) \div 2 = n /\ (2 * n + 2) \div 2 = n + 1
    OBVIOUS
  <1>3. RecordsOf(w) \in Seq(S) /\ Len(RecordsOf(w)) = n
        /\ \A k \in 1..n : RecordsOf(w)[k] = RecordAt(w, k)
    BY <1>2 DEF RecordsOf
  <1>4. /\ longer \in Seq(S) /\ Len(longer) = n + 1
        /\ \A k \in 1..n : longer[k] = RecordsOf(w)[k]
        /\ longer[n + 1] = new
    <2>1. new \in S
      OBVIOUS
    <2> HIDE DEF S, new
    <2> QED
      BY <1>3, <2>1, AppendProperties
  <1>5. longer = [k \in 1..(n + 1) |-> longer[k]]
    <2> HIDE DEF S, longer
    <2> QED
      BY <1>4
  <1>6. RecordsOf(more) = [k \in 1..(n + 1) |-> RecordAt(more, k)]
    <2> HIDE DEF more
    <2> QED
      BY <1>1, <1>2 DEF RecordsOf
  <1>7. ASSUME NEW k \in 1..(n + 1)
        PROVE  RecordAt(more, k) = longer[k]
    <2>1. CASE k \in 1..n
      <3>1. 2 * k - 1 \in 1..(2 * n + 1) /\ 2 * k \in 1..(2 * n + 1)
        BY <2>1
      <3>2. more[2 * k - 1] = w[2 * k - 1] /\ more[2 * k] = w[2 * k]
        BY <1>1, <3>1
      <3>3. RecordAt(more, k) = RecordAt(w, k)
        BY <3>2 DEF RecordAt
      <3> HIDE DEF more, longer
      <3> QED
        BY <1>3, <1>4, <2>1, <3>3
    <2>2. CASE k = n + 1
      <3>1. 2 * k - 1 = 2 * n + 1 /\ 2 * k = 2 * n + 2
        BY <2>2
      <3>2. more[2 * k - 1] = w[2 * n + 1] /\ more[2 * k] = e
        BY <1>1, <3>1
      <3>3. RecordAt(more, k) = new
        BY <3>2 DEF RecordAt
      <3> HIDE DEF more, longer, new
      <3> QED
        BY <1>4, <2>2, <3>3
    <2>3. k \in 1..n \/ k = n + 1
      OBVIOUS
    <2> HIDE DEF more, longer
    <2> QED
      BY <2>1, <2>2, <2>3
  <1> HIDE DEF more, longer, S
  <1>8. RecordsOf(more) = longer
    BY <1>5, <1>6, <1>7
  <1> QED
    BY <1>8 DEF more, longer

LEMMA NextPaired == TypeInv /\ IdsInv /\ PairedInv /\ [Next]_vars => PairedInv'
  <1> SUFFICES ASSUME TypeInv, IdsInv, PairedInv, [Next]_vars, NEW u \in Threads
               PROVE  Paired(u)'
    BY DEF PairedInv
  <1> USE DEF TypeInv
  <1>1. ASSUME pc'[u] = "syncing" <=> pc[u] = "syncing", written'[u] = written[u],
               pc[u] = "syncing" => cur'[u].ins = cur[u].ins
        PROVE  Paired(u)'
    BY <1>1 DEF PairedInv, Paired
  <1>2. ASSUME NEW t \in Threads, ThreadStep(t), u # t
        PROVE  Paired(u)'
    <2>1. pc'[u] = pc[u] /\ written'[u] = written[u]
      BY <1>2, OtherThreads
    <2>2. cur'[u] = cur[u]
      BY <1>2
      DEF TypeOK, ThreadStep, ThreadStart, ThreadFini, InstructionBegin, InstructionEnd,
          Access, StoreMemOp, PrintEvent, PrintSync, LockCall, AcquireUnseen, Acquire,
          AcquireFails, LockFuncAf, UnlockCall, PostCall, UnlockFunc, Release,
          CondWait, CondWake
    <2> QED
      BY <1>1, <2>1, <2>2
  <1>3. CASE PrintEvent(u)
    <2> DEFINE line == [part |-> "event", thread |-> u, ins |-> cur[u].ins,
                        memOp |-> inslist[cur[u].ins]]
    <2>1. /\ pc[u] = "printing" /\ pc'[u] = "syncing" /\ cur' = cur
          /\ written'[u] = Append(written[u], line)
      BY <1>3 DEF PrintEvent, Write, Step, TypeOK
    <2>2. line \in Lines
      BY <2>1, EventLine DEF Printable, TypeOK
    <2>3. PICK n \in Nat : Len(written[u]) = 2 * n
      BY <2>1 DEF PairedInv, Paired
    <2>4. written[u] \in Seq(Lines)
      BY DEF TypeOK
    <2>5. line.thread = u /\ line.ins = cur[u].ins
      OBVIOUS
    <2> HIDE DEF line
    <2>6. Len(written'[u]) = 2 * n + 1 /\ written'[u][2 * n + 1] = line
      BY <2>1, <2>2, <2>3, <2>4, AppendProperties
    <2> QED
      BY <2>1, <2>5, <2>6 DEF Paired
  <1>4. CASE PrintSync(u)
    <2> DEFINE line == [part |-> "sync", locks |-> Listed(u)]
    <2>1. /\ pc[u] = "syncing" /\ pc'[u] = "run"
          /\ written'[u] = Append(written[u], line)
      BY <1>4 DEF PrintSync, Write, Step, TypeOK
    <2>2. line \in Lines
      BY SyncLine DEF Listed, TypeOK
    <2>3. PICK n \in Nat : Len(written[u]) = 2 * n + 1
      BY <2>1 DEF PairedInv, Paired
    <2>4. written[u] \in Seq(Lines)
      BY DEF TypeOK
    <2> HIDE DEF line
    <2>5. Len(written'[u]) = 2 * (n + 1)
      BY <2>1, <2>2, <2>3, <2>4, AppendProperties
    <2> QED
      BY <2>1, <2>5 DEF Paired
  <1>5. CASE ThreadStart(u)
    <2>1. PICK d \in 0..Cardinality(Alive) : ThreadStart(u)!(d)
      BY <1>5 DEF ThreadStart
    <2> QED
      BY <1>1, <2>1 DEF TypeOK
  <1>6. ASSUME ThreadStep(u), ~PrintEvent(u), ~PrintSync(u), ~ThreadStart(u)
        PROVE  Paired(u)'
    <2>1. pc[u] # "syncing" /\ pc'[u] # "syncing" /\ written' = written
      BY <1>6
      DEF TypeOK, Step, ThreadStep, ThreadFini, InstructionBegin, InstructionEnd,
          Access, StoreMemOp, LockCall, AcquireUnseen, Acquire, AcquireFails,
          LockFuncAf, UnlockCall, PostCall, UnlockFunc, Release, CondWait, CondWake
    <2> QED
      BY <1>1, <2>1
  <1>7. CASE UNCHANGED vars
    BY <1>1, <1>7 DEF vars
  <1> QED
    BY <1>2, <1>3, <1>4, <1>5, <1>6, <1>7 DEF Next

LEMMA AlwaysPaired == Spec => []PairedInv
  <1>1. Init => PairedInv
    <2> SUFFICES ASSUME Init, NEW u \in Threads PROVE Paired(u)
      BY DEF PairedInv
    <2>1. pc[u] # "syncing" /\ Len(written[u]) = 2 * 0
      BY DEF Init
    <2> QED
      BY <2>1 DEF Paired
  <1> QED
    BY <1>1, NextPaired, AlwaysTyped, AlwaysIds, PTL DEF Spec

\* Until an id is used again, the file of a thread is what it wrote.
LEMMA StreamWritten ==
  ASSUME TypeOK, IdsInv, StreamInv, "reused" \notin odd, NEW t \in Threads
  PROVE  Records(t) = RecordsOf(written[t])
  <1>1. Stream(t) = written[t]
    BY DEF Stream, IdsInv, StreamInv, Own, Alive
  <1> QED
    BY <1>1 DEF Records, RecordsOf, RecordAt

RecordsInv == "reused" \notin odd => \A t \in Threads : Records(t) = RecordsOf(written[t])

LEMMA AlwaysRecords == Spec => []RecordsInv
  <1>1. TypeOK /\ IdsInv /\ StreamInv => RecordsInv
    BY StreamWritten DEF RecordsInv
  <1> QED
    BY <1>1, TypeCorrect, AlwaysIds, AlwaysStreams, PTL

\* Gaining a lock nobody owns is Take; losing one is Give; a read-write lock is
\* neither.
LEMMA GainIsTake ==
  ASSUME TypeOK, NEW a \in Threads, Acquire(a) \/ CondWake(a), NEW t \in Threads,
         Records(t)' = Records(t)
  PROVE  \/ \E l \in Exclusive : ThreadTrace(t)!Take(a, l)
         \/ UNCHANGED <<Owned, Records(t)>>
  <1>1. /\ want[a] \in Requests /\ Available(a, want[a])
        /\ held' = [held EXCEPT ![a] = Put(@, want[a].lock, want[a].type)]
    BY DEF TypeOK, Calling, Acquire, CondWake, Step
  <1>2. /\ DOMAIN held'[a] = DOMAIN held[a] \cup {want[a].lock}
        /\ \A u \in Threads \ {a} : held'[u] = held[u]
    BY <1>1 DEF TypeOK, Put
  <1>3. CASE want[a].lock \in Exclusive /\ want[a].lock \notin DOMAIN held[a]
    <2>1. \A u \in Threads : want[a].lock \notin Owned[u]
      BY <1>1, <1>3, RequestFacts DEF Available, Owned
    <2>2. Owned' = [Owned EXCEPT ![a] = @ \cup {want[a].lock}]
      BY <1>2, <1>3 DEF Owned
    <2> QED
      BY <1>3, <2>1, <2>2 DEF ThreadTrace!Take, Owned
  <1>4. CASE want[a].lock \notin Exclusive \/ want[a].lock \in DOMAIN held[a]
    BY <1>2, <1>4 DEF Owned
  <1> QED
    BY <1>3, <1>4

LEMMA LossIsGive ==
  ASSUME TypeOK, NEW a \in Threads, NEW l, NEW t \in Threads,
         \A u \in Threads :
           DOMAIN held'[u] = IF u = a THEN DOMAIN held[u] \ {l} ELSE DOMAIN held[u],
         Records(t)' = Records(t)
  PROVE  \/ \E k \in Exclusive : ThreadTrace(t)!Give(a, k)
         \/ UNCHANGED <<Owned, Records(t)>>
  <1>1. Owned' = [Owned EXCEPT ![a] = @ \ {l}]
    BY DEF Owned
  <1>2. CASE l \in Owned[a]
    <2>1. l \in Exclusive
      BY <1>2 DEF Owned
    <2>2. ThreadTrace(t)!Give(a, l)
      BY <1>1, <1>2 DEF ThreadTrace!Give, Owned
    <2> QED
      BY <2>1, <2>2
  <1>3. CASE l \notin Owned[a]
    <2>1. \A u \in Threads : DOMAIN held'[u] \cap Exclusive = DOMAIN held[u] \cap Exclusive
      BY <1>3 DEF Owned
    <2>2. Owned' = Owned
      BY <2>1 DEF Owned
    <2> QED
      BY <2>2
  <1> QED
    BY <1>2, <1>3

\* The second line of a record is the event.
LEMMA SyncIsAccess ==
  ASSUME TypeInv, PairedInv, NEW t \in Threads, PrintSync(t), Complete(t), Sound(t),
         Records(t) = RecordsOf(written[t]), Records(t)' = RecordsOf(written'[t])
  PROVE  \E i \in Instrs : ThreadTrace(t)!Access(t, i)
  <1> USE DEF TypeInv
  <1> DEFINE line == [part |-> "sync", locks |-> Listed(t)]
  <1>1. /\ pc[t] = "syncing" /\ held' = held
        /\ written'[t] = Append(written[t], line)
    BY DEF PrintSync, Write, Step, TypeOK
  <1>2. line \in Lines /\ written[t] \in Seq(Lines)
    BY SyncLine DEF Listed, TypeOK
  <1>3. PICK n \in Nat : /\ Len(written[t]) = 2 * n + 1
                         /\ written[t][2 * n + 1].thread = t
                         /\ written[t][2 * n + 1].ins = cur[t].ins
    BY <1>1 DEF PairedInv, Paired
  <1>4. PICK i \in Instrs : i = cur[t].ins
    BY <1>1 DEF Printable
  <1>5. Listed(t) \cap Exclusive = Owned[t]
    BY <1>1 DEF Complete, Sound, Owned
  <1>6. line.locks = Listed(t)
    OBVIOUS
  <1> HIDE DEF line
  <1>7. RecordsOf(Append(written[t], line)) =
          Append(RecordsOf(written[t]), [thread |-> written[t][2 * n + 1].thread,
                                         ins |-> written[t][2 * n + 1].ins,
                                         locks |-> line.locks \cap Exclusive])
    BY <1>2, <1>3, SecondLine
  <1>8. Records(t)' = Append(Records(t), [thread |-> t, ins |-> i, locks |-> Owned[t]])
    BY <1>1, <1>3, <1>4, <1>5, <1>6, <1>7
  <1>9. Owned' = Owned
    BY <1>1 DEF Owned
  <1> QED
    BY <1>8, <1>9 DEF ThreadTrace!Access, Owned

\* A step that is not unusual.
LEMMA HonestStep ==
  ASSUME TypeInv, IdsInv, OneOwner, ReleasesOwn, CompleteInv, SoundInv, PairedInv,
         RecordsInv, RecordsInv', NEW a \in Threads, ThreadStep(a), odd' = {},
         NEW t \in Threads
  PROVE  ThreadTrace(t)!Next \/ UNCHANGED <<Owned, Records(t)>>
  <1> USE DEF TypeInv
  <1>1. odd = {}
    BY IdKept
  <1>2. Records(t) = RecordsOf(written[t]) /\ Records(t)' = RecordsOf(written'[t])
    BY <1>1 DEF RecordsInv
  <1>3. CASE PrintSync(a)
    <2>1. held' = held /\ a \in Alive
      BY <1>3 DEF PrintSync, Step, Alive
    <2>2. CASE t = a
      <3>1. Complete(a) /\ Sound(a)
        BY <1>1, <2>1 DEF CompleteInv, SoundInv
      <3> QED
        BY <1>2, <1>3, <2>2, <3>1, SyncIsAccess DEF ThreadTrace!Next
    <2>3. CASE t # a
      <3>1. written'[t] = written[t]
        BY <2>3, OtherThreads
      <3> QED
        BY <1>2, <2>1, <3>1 DEF Owned
    <2> QED
      BY <2>2, <2>3
  <1>4. CASE PrintEvent(a)
    <2>1. held' = held
      BY <1>4 DEF PrintEvent
    <2>2. Owned' = Owned
      BY <2>1 DEF Owned
    <2>3. CASE t = a
      <3> DEFINE line == [part |-> "event", thread |-> t, ins |-> cur[t].ins,
                          memOp |-> inslist[cur[t].ins]]
      <3>1. /\ pc[t] = "printing"
            /\ written'[t] = Append(written[t], line)
        BY <1>4, <2>3 DEF PrintEvent, Write, Step, TypeOK
      <3>2. line \in Lines /\ written[t] \in Seq(Lines)
        BY <3>1, EventLine DEF Printable, TypeOK
      <3>3. PICK n \in Nat : Len(written[t]) = 2 * n
        BY <3>1 DEF PairedInv, Paired
      <3> HIDE DEF line
      <3> QED
        BY <1>2, <2>2, <3>1, <3>2, <3>3, FirstLine
    <2>4. CASE t # a
      <3>1. written'[t] = written[t]
        BY <2>4, OtherThreads
      <3> QED
        BY <1>2, <2>2, <3>1
    <2> QED
      BY <2>3, <2>4
  <1>5. ASSUME written' = written PROVE Records(t)' = Records(t)
    BY <1>2, <1>5
  <1>6. CASE Acquire(a) \/ CondWake(a)
    <2>1. written' = written
      BY <1>6 DEF Acquire, CondWake
    <2> QED
      BY <1>5, <1>6, <2>1, GainIsTake DEF ThreadTrace!Next
  <1>7. CASE Release(a)
    <2>1. pc[a] = "unlocking" /\ written' = written /\ want[a].lock \in DOMAIN held[a]
      BY <1>1, <1>7 DEF Release, Step, ReleasesOwn
    <2>2. \A u \in Threads :
            DOMAIN held'[u] = IF u = a THEN DOMAIN held[u] \ {want[a].lock}
                              ELSE DOMAIN held[u]
      <3>1. ASSUME NEW u \in Threads, u # a, want[a].lock \in Sems
            PROVE  want[a].lock \notin DOMAIN held[u]
        BY <2>1, <3>1 DEF OneOwner, Exclusive
      <3> QED
        BY <1>7, <3>1 DEF Release, Remove
    <2> QED
      BY <1>5, <2>1, <2>2, LossIsGive DEF ThreadTrace!Next
  <1>8. ASSUME NEW m \in Mutexes, CondWait(a, m)
        PROVE  ThreadTrace(t)!Next \/ UNCHANGED <<Owned, Records(t)>>
    <2>1. written' = written
      BY <1>8 DEF CondWait
    <2>2. \A u \in Threads :
            DOMAIN held'[u] = IF u = a THEN DOMAIN held[u] \ {m} ELSE DOMAIN held[u]
      BY <1>8 DEF CondWait, Remove, TypeOK
    <2> QED
      BY <1>5, <2>1, <2>2, LossIsGive DEF ThreadTrace!Next
  <1>9. ASSUME held' = held, written' = written
        PROVE  UNCHANGED <<Owned, Records(t)>>
    BY <1>5, <1>9 DEF Owned
  <1>10. /\ ~(\E r \in Requests : AcquireUnseen(a, r)) /\ ~AcquireFails(a)
         /\ ~(\E s \in Sems : PostCall(a, s))
    BY DEF AcquireUnseen, AcquireFails, PostCall, Odd
  <1>11. CASE ThreadStart(a)
    BY <1>9, <1>11 DEF ThreadStart
  <1> QED
    BY <1>3, <1>4, <1>6, <1>7, <1>8, <1>9, <1>10, <1>11
    DEF ThreadStep, ThreadFini, InstructionBegin, InstructionEnd, Access, StoreMemOp,
        LockCall, LockFuncAf, UnlockCall, UnlockFunc

\* As long as no call is unusual, the file of each thread, whatever the others
\* do, is a trace that LockTrace allows.
THEOREM EachStreamIsATrace == Spec => HonestStreams
  <1>1. ASSUME Init, NEW t \in Threads
        PROVE  ThreadTrace(t)!Init
    <2>1. \A u \in Threads : DOMAIN held[u] = {}
      BY <1>1, EmptyMap DEF Init
    <2>2. files[id[t]] = << >>
      BY <1>1 DEF Init
    <2>3. Stream(t) = << >>
      BY <2>2 DEF Stream
    <2>4. Records(t) = << >>
      <3>1. Len(Stream(t)) \div 2 = 0
        BY <2>3
      <3> QED
        BY <3>1 DEF Records
    <2> QED
      BY <2>1, <2>4 DEF ThreadTrace!Init
  <1> DEFINE Inv == /\ TypeInv /\ IdsInv /\ OneOwner /\ ReleasesOwn /\ CompleteInv
                    /\ SoundInv /\ PairedInv /\ RecordsInv
             Honest == ub' = {} /\ odd' = {} =>
                         \A t \in Threads :
                           [ThreadTrace(t)!Next]_(ThreadTrace(t)!absVars)
  <1>2. Inv /\ Inv' /\ [Next]_vars => [Honest]_vars
    <2> SUFFICES ASSUME Inv, Inv', Next, odd' = {}, NEW t \in Threads
                 PROVE  [ThreadTrace(t)!Next]_(ThreadTrace(t)!absVars)
      OBVIOUS
    <2>1. PICK a \in Threads : ThreadStep(a)
      BY DEF Next
    <2> QED
      BY <2>1, HonestStep DEF ThreadTrace!absVars, Owned
  <1>3. Spec => []Inv
    BY AlwaysTyped, AlwaysIds, AlwaysOneOwner, AlwaysReleasesOwn, AlwaysComplete,
       AlwaysSound, AlwaysPaired, AlwaysRecords, PTL
  <1>4. Init => \A t \in Threads : ThreadTrace(t)!Init
    BY <1>1
  <1> QED
    BY <1>2, <1>3, <1>4, PTL DEF Spec, HonestStreams

=============================================================================
