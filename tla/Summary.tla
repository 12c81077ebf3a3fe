------------------------------ MODULE Summary ------------------------------
(***************************************************************************)
(* The replay of the history by Fini of source/tools/u0.cpp, and the       *)
(* verdicts that it draws: safety_decider, starvation_decider and          *)
(* live_lock_decider.  A step is the next event of the traced program,     *)
(* together with the branch of Fini's loop that reads it, so every state   *)
(* is one in which the program can end and the verdicts can be drawn.      *)
(* The history is complete and in order: what module Recorder shows as     *)
(* long as no two threads take the counter at once.                        *)
(*                                                                         *)
(* The traced program (external) uses semaphores as locks, does not lock a *)
(* mutex twice, and does not wait on condition variables.  The callbacks   *)
(* of IPOINT_AFTER see the argument of the call they are after.            *)
(*                                                                         *)
(* The lists of globalmutmap are a set: all entries that agree in address, *)
(* thread and flag are read and changed alike, and the order of a list     *)
(* shows only in Tags. Left out are the tables that only the text of the   *)
(* report reads: gglobalmutmap, globalmap, cglobalinmap, exitmap and the   *)
(* maps of creations, conditions and signals.                              *)
(***************************************************************************)
EXTENDS Naturals, Sequences, FiniteSets

CONSTANTS
  Threads,
  Mutexes, Semaphores, RWLocks, Barriers,  \* addresses
  Stores,     \* [ip, var]: the program's instructions and what they write
  Limit,      \* #define limit
  MaxEvents   \* length of the history (bound)

Locks == Mutexes \cup Semaphores \cup RWLocks

\* The routines that a thread can be in.  Each writes to the lock.
Routines == {"lock", "trylock", "unlock", "wait", "rwlock"}

ASSUME SummaryAssumption ==
  /\ Locks \cup Barriers \subseteq Nat \ {0}
  /\ Mutexes \cap Semaphores = {} /\ Locks \cap Barriers = {}
  /\ RWLocks \cap (Mutexes \cup Semaphores) = {}
  /\ Stores \subseteq [ip : STRING \ Routines, var : Nat]
  /\ Limit \in Nat /\ MaxEvents \in Nat

VARIABLES
  n,            \* the key of the next event
  globalmutmap, \* the entries [addr, tid, flag]
  timeList,     \* the requests for mutexes
  globalinmap,  \* ip -> the writes recorded for it, in order
  within,       \* the lock routine each thread is in, or Outside (external)
  held,         \* held[t]: the locks t has (external)
  missed,       \* history: a trylock failed
  released,     \* history: a semaphore or read-write lock was released
  wrote,        \* history: the writes, and what they were made under
  answers       \* history: the key at which each request was answered

vars == <<n, globalmutmap, timeList, globalinmap, within, held, missed, released,
          wrote, answers>>

Flags == [free |-> 0, acquired |-> 1, requested |-> 2, rwlock |-> 7,
          barrier |-> 9, semaphore |-> 11]

\* The keys are below MaxEvents.
Unset == MaxEvents

Outside == [rtn |-> "none", addr |-> 0, request |-> 0]

Ips == {s.ip : s \in Stores} \cup Routines

-----------------------------------------------------------------------------

Init ==
  /\ n = 0
  /\ globalmutmap = {}
  /\ timeList = <<>>
  /\ globalinmap = [ip \in Ips |-> <<>>]
  /\ within = [t \in Threads |-> Outside]
  /\ held = [t \in Threads |-> {}]
  /\ missed = FALSE
  /\ released = FALSE
  /\ wrote = {}
  /\ answers = <<>>

\* Another event is in the history.
Event == n < MaxEvents /\ n' = n + 1

Entry(t, a, flag) == [addr |-> a, tid |-> t, flag |-> flag]

\* The loop over globalmutmap that gives the entries of t for a a new flag.
Reflag(t, a, from, to) ==
  {IF e = Entry(t, a, from) THEN Entry(t, a, to) ELSE e : e \in globalmutmap}

\* No thread has the lock or is still on its way out of unlock.
IsFree(a) ==
  \A u \in Threads : a \notin held[u] /\ ~(within[u].rtn = "unlock" /\ within[u].addr = a)

\* t is outside and calls rtn.
Calls(t, rtn, a, request) ==
  /\ within[t] = Outside
  /\ within' = [within EXCEPT ![t] = [rtn |-> rtn, addr |-> a, request |-> request]]

Returns(t) == within' = [within EXCEPT ![t] = Outside]

\* pthread_mutex_lock or trylock is called: a request in timeList.
RequestMutex(t, m, rtn) ==
  /\ Event
  /\ rtn = "lock" => m \notin held[t]
  /\ Calls(t, rtn, m, Len(timeList) + 1)
  /\ timeList' = Append(timeList, [thid |-> t, start |-> n, end |-> Unset,
                                   tFlag |-> IF rtn = "trylock" THEN 1 ELSE 0])
  /\ answers' = Append(answers, Unset)
  /\ globalmutmap' = globalmutmap \cup {Entry(t, m, Flags.requested)}
  /\ UNCHANGED <<globalinmap, held, missed, released, wrote>>

\* Mutant: only the first thread's requests are ended.
EndUnended(t) ==
  [i \in DOMAIN timeList |->
     IF timeList[i].thid = t /\ i = 1
     THEN [timeList[i] EXCEPT !.end = n] ELSE timeList[i]]

\* The loop over timeList that sets `end`: it stops at the first request of t.
EndRequest(t) ==
  [i \in DOMAIN timeList |->
     IF timeList[i].thid = t /\ \A j \in 1..(i - 1) : timeList[j].thid # t
     THEN [timeList[i] EXCEPT !.end = n] ELSE timeList[i]]

\* pthread_mutex_lock or trylock returns; a trylock that failed is recorded too.
AcquireMutex(t) ==
  LET m == within[t].addr
  IN  /\ Event
      /\ within[t].rtn \in {"lock", "trylock"}
      /\ \/ IsFree(m) /\ held' = [held EXCEPT ![t] = @ \cup {m}] /\ UNCHANGED missed
         \/ ~IsFree(m) /\ within[t].rtn = "trylock" /\ missed' = TRUE /\ UNCHANGED held
      /\ Returns(t)
      /\ timeList' = EndRequest(t)
      /\ answers' = [answers EXCEPT ![within[t].request] = n]
      /\ globalmutmap' = Reflag(t, m, Flags.requested, Flags.acquired)
      /\ UNCHANGED <<globalinmap, released, wrote>>

\* Mutant: the request is reset, not the acquisition.
UnlockMutexLess(t, m) ==
  /\ Event
  /\ m \in held[t]
  /\ Calls(t, "unlock", m, 0)
  /\ held' = [held EXCEPT ![t] = @ \ {m}]
  /\ globalmutmap' = Reflag(t, m, Flags.requested, Flags.free)
  /\ UNCHANGED <<timeList, globalinmap, missed, released, wrote, answers>>

\* pthread_mutex_unlock is called.
UnlockMutex(t, m) ==
  /\ Event
  /\ m \in held[t]
  /\ Calls(t, "unlock", m, 0)
  /\ held' = [held EXCEPT ![t] = @ \ {m}]
  /\ globalmutmap' = Reflag(t, m, Flags.acquired, Flags.free)
  /\ UNCHANGED <<timeList, globalinmap, missed, released, wrote, answers>>

\* pthread_mutex_unlock returns, which no callback records.
UnlockReturns(t) ==
  /\ within[t].rtn = "unlock"
  /\ Returns(t)
  /\ UNCHANGED <<n, globalmutmap, timeList, globalinmap, held, missed, released,
                 wrote, answers>>

\* sem_wait is called.
RequestSemaphore(t, s) ==
  /\ Event
  /\ s \notin held[t]
  /\ Calls(t, "wait", s, 0)
  /\ globalmutmap' = globalmutmap \cup {Entry(t, s, Flags.requested)}
  /\ UNCHANGED <<timeList, globalinmap, held, missed, released, wrote, answers>>

\* sem_wait returns.
AcquireSemaphore(t) ==
  LET s == within[t].addr
  IN  /\ Event
      /\ within[t].rtn = "wait"
      /\ IsFree(s)
      /\ held' = [held EXCEPT ![t] = @ \cup {s}]
      /\ Returns(t)
      /\ globalmutmap' = Reflag(t, s, Flags.requested, Flags.semaphore)
      /\ UNCHANGED <<timeList, globalinmap, missed, released, wrote, answers>>

\* sem_post: the tool looks for "sem-post", and records nothing.
PostSemaphore(t, s) ==
  /\ within[t] = Outside
  /\ s \in held[t]
  /\ held' = [held EXCEPT ![t] = @ \ {s}]
  /\ released' = TRUE
  /\ UNCHANGED <<n, globalmutmap, timeList, globalinmap, within, missed, wrote, answers>>

\* A rdlock or wrlock routine is called, first callback.
RequestRWLock(t, r) ==
  /\ Event
  /\ r \notin held[t]
  /\ Calls(t, "requesting", r, 0)
  /\ globalmutmap' = globalmutmap \cup {Entry(t, r, Flags.requested)}
  /\ UNCHANGED <<timeList, globalinmap, held, missed, released, wrote, answers>>

\* The second callback, which is IPOINT_BEFORE too: before the lock is taken.
AcquireRWLock(t) ==
  LET r == within[t].addr
  IN  /\ Event
      /\ within[t].rtn = "requesting"
      /\ within' = [within EXCEPT ![t].rtn = "rwlock"]
      /\ globalmutmap' = Reflag(t, r, Flags.requested, Flags.rwlock)
      /\ UNCHANGED <<timeList, globalinmap, held, missed, released, wrote, answers>>

\* The routine returns; other readers may have the lock.
RWLockReturns(t) ==
  /\ within[t].rtn = "rwlock"
  /\ Returns(t)
  /\ held' = [held EXCEPT ![t] = @ \cup {within[t].addr}]
  /\ UNCHANGED <<n, globalmutmap, timeList, globalinmap, missed, released, wrote, answers>>

\* The unlock of a read-write lock looks for a flag that such a lock never has.
UnlockRWLock(t, r) ==
  /\ Event
  /\ within[t] = Outside
  /\ r \in held[t]
  /\ held' = [held EXCEPT ![t] = @ \ {r}]
  /\ released' = TRUE
  /\ globalmutmap' = Reflag(t, r, Flags.acquired, Flags.free)
  /\ UNCHANGED <<timeList, globalinmap, within, missed, wrote, answers>>

\* Mutant: the new tag is the type.
WaitBarrierTyped(t, b) ==
  /\ Event
  /\ within[t] = Outside
  /\ globalmutmap' = globalmutmap \cup {Entry(t, b, Flags.barrier)}
  /\ globalinmap' = [ip \in Ips |->
       [i \in DOMAIN globalinmap[ip] |->
          IF globalinmap[ip][i].tid = t
          THEN [globalinmap[ip][i] EXCEPT !.sync = "BEFORE"] ELSE globalinmap[ip][i]]]
  /\ UNCHANGED <<timeList, within, held, missed, released, wrote, answers>>

\* pthread_barrier_wait is called: all that t wrote before is retagged.
WaitBarrier(t, b) ==
  /\ Event
  /\ within[t] = Outside
  /\ globalmutmap' = globalmutmap \cup {Entry(t, b, Flags.barrier)}
  /\ globalinmap' = [ip \in Ips |->
       [i \in DOMAIN globalinmap[ip] |->
          IF globalinmap[ip][i].tid = t
          THEN [globalinmap[ip][i] EXCEPT !.sync = "BARRIER"] ELSE globalinmap[ip][i]]]
  /\ UNCHANGED <<timeList, within, held, missed, released, wrote, answers>>

-----------------------------------------------------------------------------
(* Writes                                                                  *)

\* The tag of a record that no entry of the table tags.
Untagged == " "

SyncOf(flag) ==
  CASE flag = Flags.requested -> "MUTEX"
    [] flag = Flags.semaphore -> "SEMAPHORE"
    [] flag = Flags.rwlock    -> "RW_LOCK"
    [] flag = Flags.barrier   -> "BARRIER"
    [] OTHER                  -> Untagged

\* Entries in the order of the map; in a list, the request is the last.
Follows(e, d) == e.addr > d.addr \/ (e.addr = d.addr /\ e.flag = Flags.requested)

\* The entries of t, and those of them that no other comes after.
Tagging(t) == {e \in globalmutmap : e.tid = t /\ SyncOf(e.flag) # Untagged}

Last(entries) == {e \in entries : \A d \in entries : d = e \/ Follows(e, d)}

\* Mutant: the flags of semaphores are not looked at.
TagsLess(t) ==
  LET tagging == {e \in Tagging(t) : e.flag # 11}
  IN  IF tagging = {} THEN {Untagged} ELSE {SyncOf(e.flag) : e \in Last(tagging)}

\* Mutant: the flag of acquired mutexes is looked at.
TagsAcquired(t) ==
  IF Tagging(t) = {} /\ \E e \in globalmutmap : e.tid = t /\ e.flag = 1
  THEN {"MUTEX"}
  ELSE IF Tagging(t) = {} THEN {Untagged} ELSE {SyncOf(e.flag) : e \in Last(Tagging(t))}

\* The one tag that the last entry of t leaves in sync.
Tags(t) == IF Tagging(t) = {} THEN {Untagged} ELSE {SyncOf(e.flag) : e \in Last(Tagging(t))}

\* What a write of t is made under.
Under(t) ==
  CASE within[t] # Outside                         -> "routine"
    [] held[t] \cap (Semaphores \cup RWLocks) # {} -> "other"
    [] held[t] \subseteq Mutexes /\ held[t] # {}   -> "mutex"
    [] OTHER                                       -> "none"

\* RecordMemWrite stores the address of the instruction, not of the variable.
RecordMemWrite(t, ip, var) ==
  /\ Event
  /\ \E sync \in Tags(t) :
       globalinmap' = [globalinmap EXCEPT ![ip] = Append(@, [tid |-> t, sync |-> sync])]
  /\ wrote' = wrote \cup {[tid |-> t, ip |-> ip, var |-> var, under |-> Under(t)]}
  /\ UNCHANGED <<globalmutmap, timeList, within, held, missed, released, answers>>

\* The program writes to a global variable.
Write(t, s) == within[t] = Outside /\ RecordMemWrite(t, s.ip, s.var)

\* A lock routine writes to its lock, a global variable as well.
WriteLock(t) ==
  within[t].rtn \in Routines /\ RecordMemWrite(t, within[t].rtn, within[t].addr)

\* An event that changes none of these tables: it only takes a key.
OtherEvent(t) ==
  /\ Event
  /\ UNCHANGED <<globalmutmap, timeList, globalinmap, within, held, missed, released,
                 wrote, answers>>

Next ==
  \E t \in Threads :
    \/ \E m \in Mutexes :
         \/ \E rtn \in {"lock", "trylock"} : RequestMutex(t, m, rtn)
         \/ UnlockMutex(t, m)
    \/ AcquireMutex(t) \/ UnlockReturns(t)
    \/ \E s \in Semaphores : RequestSemaphore(t, s) \/ PostSemaphore(t, s)
    \/ AcquireSemaphore(t)
    \/ \E r \in RWLocks : RequestRWLock(t, r) \/ UnlockRWLock(t, r)
    \/ AcquireRWLock(t) \/ RWLockReturns(t)
    \/ \E b \in Barriers : WaitBarrier(t, b)
    \/ \E s \in Stores : Write(t, s)
    \/ WriteLock(t)
    \/ OtherEvent(t)

Spec == Init /\ [][Next]_vars

-----------------------------------------------------------------------------
(* Verdicts                                                                *)

\* Mutant: only the first and the last write are compared.
glistEnds ==
  {ip \in Ips : LET w == globalinmap[ip]
                IN  w # <<>> /\ w[1].tid # w[Len(w)].tid}

\* glist: written by two threads, one after the other.
glist ==
  {ip \in Ips : \E i \in 1..(Len(globalinmap[ip]) - 1) :
     globalinmap[ip][i].tid # globalinmap[ip][i + 1].tid}

GlobalPresent == glist # {}

\* The tags of the writes to what is in glist.
GlobalSyncs ==
  UNION {{globalinmap[ip][i].sync : i \in DOMAIN globalinmap[ip]} : ip \in glist}

\* 0: no global variables, 1: totally unsafe, 2: partially, 3: totally safe.
SafetyDecider ==
  IF ~GlobalPresent THEN 0
  ELSE IF Untagged \notin GlobalSyncs THEN 3
  ELSE IF GlobalSyncs # {Untagged} THEN 2 ELSE 1

\* `end` is read whether it was set or not: the requests that are certain and
\* those that can be found to have waited for more than Limit events.
Starved == {i \in DOMAIN timeList : timeList[i].end # Unset
                                      /\ timeList[i].end > timeList[i].start + Limit}
Undefined == {i \in DOMAIN timeList : timeList[i].end = Unset}

Judge(count) == IF count > 2 THEN 1 ELSE IF count = 0 THEN 2 ELSE 0

\* What starvation_decider can return.
StarvationDecider ==
  {Judge(Cardinality(Starved \cup u)) : u \in SUBSET Undefined}

\* What live_lock_decider can return.
LiveLockDecider ==
  LET tries == {i \in DOMAIN timeList : timeList[i].tFlag = 1}
  IN  {IF (Starved \cup u) \cap tries # {} THEN 1 ELSE 0 : u \in SUBSET Undefined}

-----------------------------------------------------------------------------
(* Properties                                                              *)

Syncs == {Untagged, "MUTEX", "SEMAPHORE", "RW_LOCK", "BARRIER"}

\* The tables of Fini have the types of their structs.
TypeOK ==
  /\ n \in 0..MaxEvents
  /\ globalmutmap \subseteq
       [addr : Locks \cup Barriers, tid : Threads, flag : {0, 1, 2, 7, 9, 11}]
  /\ timeList \in Seq([thid : Threads, start : 0..MaxEvents, end : 0..MaxEvents,
                       tFlag : {0, 1}])
  /\ globalinmap \in [Ips -> Seq([tid : Threads, sync : Syncs])]
  /\ within \in [Threads -> [rtn : Routines \cup {"none", "requesting"},
                             addr : Locks \cup {0}, request : Nat]]
  /\ held \in [Threads -> SUBSET Locks]
  /\ missed \in BOOLEAN /\ released \in BOOLEAN
  /\ wrote \subseteq [tid : Threads, ip : Ips, var : Nat,
                      under : {"routine", "other", "mutex", "none"}]
  /\ answers \in Seq(0..MaxEvents)

\* Until a trylock fails, the table marks as acquired exactly the mutexes that
\* the threads have, so never one mutex for two threads.
TableAgrees ==
  ~missed =>
    \A t \in Threads : \A m \in Mutexes :
      /\ Entry(t, m, Flags.acquired) \in globalmutmap <=> m \in held[t]
      /\ \A u \in Threads \ {t} :
           Entry(t, m, Flags.acquired) \in globalmutmap =>
             Entry(u, m, Flags.acquired) \notin globalmutmap

\* Two threads wrote to one variable.
SomeShared == \E v, w \in wrote : v.var = w.var /\ v.tid # w.tid

\* Each variable is written by one instruction that writes no other.
OneToOne == \A v, w \in wrote : v.var = w.var <=> v.ip = w.ip

\* Where instructions and variables are one to one, the report has global
\* variables exactly when two threads wrote to one.
SharedIsFound == OneToOne => (GlobalPresent <=> SomeShared)

\* As long as no thread asks for a mutex twice, and once all have their answer,
\* both verdicts on waiting are defined, and are about waits longer than Limit.
WaitsAreJudged ==
  LET once     == \A i, j \in DOMAIN timeList : timeList[i].thid = timeList[j].thid => i = j
      answered == \A i \in DOMAIN answers : answers[i] # Unset
      long     == {i \in DOMAIN timeList : answers[i] > timeList[i].start + Limit}
  IN  once /\ answered =>
        /\ 2 \in StarvationDecider <=> long = {}
        /\ 1 \in LiveLockDecider <=> \E i \in long : timeList[i].tFlag = 1
        /\ Cardinality(StarvationDecider) = 1 /\ Cardinality(LiveLockDecider) = 1

GlobalWrites == {w \in wrote : w.ip \in glist}

HasBarrier == \E e \in globalmutmap : e.flag = Flags.barrier

\* A program found totally safe made no write to a global variable without a
\* lock, if it released no semaphore or read-write lock and used no barrier.
SafeIsSafe ==
  SafetyDecider = 3 /\ ~released /\ ~HasBarrier =>
    \A w \in GlobalWrites : w.under # "none"

\* A program found totally unsafe made no write to a global variable with a
\* semaphore or a read-write lock.  Of mutexes this is not so.
UnsafeIsBare == SafetyDecider = 1 => \A w \in GlobalWrites : w.under # "other"

=============================================================================
