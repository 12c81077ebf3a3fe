---------------------------- MODULE MemTracker ----------------------------
(***************************************************************************)
(* The DataTrace pintool (source/tools/Exp/memtracker.{h,cpp}) together    *)
(* with the threads of the program it traces.                              *)
(*                                                                         *)
(* Pin runs the tool's callbacks on the application threads themselves,    *)
(* at the instructions where they were inserted and with no lock held, so  *)
(* callbacks of different threads interleave.  memtracker.cpp takes no     *)
(* lock around its maps.  A callback is one action when it touches the     *)
(* shared maps once, and several when another thread can get in between:   *)
(*                                                                         *)
(*   dataman       AccessWrite ; AccessPrint ; AccessSync                  *)
(*   lock_func_bf  LockCall ; LockBefore [; LockInsert] ; LockNoted        *)
(*   unlock_func   UnlockCall ; UnlockBefore [; UnlockErase] ; UnlockNoted *)
(*   Instruction   InstructionBegin ; InstructionEnd                       *)
(*                                                                         *)
(* The real lock or unlock routine runs after its callback.                *)
(*                                                                         *)
(* Inserting a key in, or erasing one from, the outer std::map of `syncs`  *)
(* or `inslist` is a window of two steps: any other access to the same map *)
(* inside it is a data race: the C++ program is undefined from then on,    *)
(* which `ub` records, and the behaviour ends.                             *)
(*                                                                         *)
(* The output has no lock either.  dataman writes a record to std::cout by *)
(* several statements, and lock_func_bf and unlock_func write lines of     *)
(* their own at both ends: what other threads print meanwhile comes in     *)
(* between.  `trace` holds the two parts of each record where they fall,   *)
(* and `mixed` says that some record was overlapped by another callback    *)
(* that prints.                                                            *)
(***************************************************************************)
EXTENDS Naturals, Sequences

CONSTANTS
  Threads,     \* application threads (THREADID)
  Mutexes,     \* pthread mutexes, not recursive
  Sems,        \* binary semaphores used as locks: posted by their holder
  RWLocks,     \* pthread read-write locks
  MemInstrs,   \* instructions with debug information and flag 'r' or 'w'
  PlainInstrs, \* instructions with debug information and flag 'n'
  Addrs,       \* effective addresses
  NoAddr,      \* the -1 that Instruction passes for flag 'n'
  Uninit,      \* INSINFO::memOp before its first assignment
  MaxEvents    \* bound: no record is begun once the trace has this many
               \* (records under way may be finished)

Exclusive == Mutexes \cup Sems
Locks     == Exclusive \cup RWLocks
Instrs    == MemInstrs \cup PlainInstrs

\* What Instruction makes Pin pass to dataman: IARG_MEMORYOP_EA, or -1.
Operands(i) == IF i \in MemInstrs THEN Addrs ELSE {NoAddr}

\* The constants are the sets the source distinguishes; a lock has one kind
\* and an instruction one flag.
ASSUME MemTrackerAssumption ==
  /\ Mutexes \cap Sems = {}
  /\ Exclusive \cap RWLocks = {}
  /\ MemInstrs \cap PlainInstrs = {}
  /\ NoAddr \notin Addrs
  /\ Uninit \notin Addrs \cup {NoAddr}
  /\ MaxEvents \in Nat

VARIABLES
  pc,       \* pc[t]: where thread t is in the application or in a callback
  want,     \* want[t]: the lock and type of the (un)lock call t is in
  cur,      \* cur[t]: the access dataman is recording for t
  held,     \* held[t]: the locks t really holds, with their type (external)
  inslist,  \* instruction -> INSINFO.memOp
  syncs,    \* tid -> (lock address -> type)
  trace,    \* the parts of records printed on std::cout
  ub,       \* TRUE once the tool has executed undefined behaviour
  mixed     \* history: TRUE once a record was overlapped by other output

vars == <<pc, want, cur, held, inslist, syncs, trace, ub, mixed>>

-----------------------------------------------------------------------------
(* Helpers: std::map assignment and erasure.                               *)

Put(f, x, v) == [y \in DOMAIN f \cup {x} |-> IF y = x THEN v ELSE f[y]]
Remove(f, x) == [y \in DOMAIN f \ {x} |-> f[y]]
Empty == [l \in {} |-> "none"]

(* The maps `locks` and `unlocks` of init() are inverse of each other, so  *)
(* a type is its name.                                                     *)
Types == {"mutex", "semaphore", "reader lock", "writer lock"}

\* The lock calls a program can make that Routine recognises by name.
Requests ==
  [lock : Mutexes, type : {"mutex"}]
    \cup [lock : Sems, type : {"semaphore"}]
    \cup [lock : RWLocks, type : {"reader lock", "writer lock"}]

\* Mutant: the name of the mutex routine is misspelt as well.
HookedUnlocksSemaphoreOnly == {"semaphore"}

\* The types whose unlock routine has one of the three names Routine tests.
\* "thread_rwlock_unlock" is no routine of libpthread (it is named
\* __pthread_rwlock_unlock), so releasing a read-write lock calls nothing.
HookedUnlocks == {"mutex", "semaphore"}

NoRequest == [lock |-> "none", type |-> "none"]
NoAccess  == [ins |-> "none", ea |-> Uninit, shown |-> Uninit]

Listed(t) == IF t \in DOMAIN syncs THEN DOMAIN syncs[t] ELSE {}

\* Another thread is changing the structure of the map.
SyncsBusy(t)   == \E u \in Threads \ {t} : pc[u] \in {"inserting", "erasing"}
InslistBusy(t) == \E u \in Threads \ {t} : pc[u] = "instrumenting"

\* Where dataman, and where the callbacks of lock routines, are under way.
InRecord == {"printing", "syncing"}
InNotice == {"recording", "inserting", "noting", "removing", "erasing", "unnoting"}

\* Another thread is in a callback of these, so its output can fall in t's.
Others(t, places) == \E u \in Threads \ {t} : pc[u] \in places

Goto(t, label) == pc' = [pc EXCEPT ![t] = label]

Init ==
  /\ pc = [t \in Threads |-> "run"]
  /\ want = [t \in Threads |-> NoRequest]
  /\ cur = [t \in Threads |-> NoAccess]
  /\ held = [t \in Threads |-> Empty]
  /\ inslist = Empty
  /\ syncs = Empty
  /\ trace = << >>
  /\ ub = FALSE
  /\ mixed = FALSE

-----------------------------------------------------------------------------
(* Instruction: instrumentation of an instruction that has a source line.  *)
(* Pin serialises instrumentation callbacks, not the analysis callbacks    *)
(* that other threads run meanwhile.                                       *)

\* Mutant: an instruction instrumented again gets a fresh INSINFO.
InstructionBeginAgain(t, i) ==
  /\ pc[t] = "run"
  /\ ~InslistBusy(t)
  /\ cur' = [cur EXCEPT ![t] = [NoAccess EXCEPT !.ins = i]]
  /\ Goto(t, "instrumenting")
  /\ UNCHANGED <<want, held, inslist, syncs, trace, ub, mixed>>

InstructionBegin(t, i) ==
  /\ pc[t] = "run"
  /\ ~InslistBusy(t)
  /\ i \notin DOMAIN inslist
  /\ cur' = [cur EXCEPT ![t] = [NoAccess EXCEPT !.ins = i]]
  /\ Goto(t, "instrumenting")
  /\ UNCHANGED <<want, held, inslist, syncs, trace, ub, mixed>>

InstructionEnd(t) ==
  /\ pc[t] = "instrumenting"
  /\ inslist' = Put(inslist, cur[t].ins, Uninit)
  /\ cur' = [cur EXCEPT ![t] = NoAccess]
  /\ Goto(t, "run")
  /\ UNCHANGED <<want, held, syncs, trace, ub, mixed>>

-----------------------------------------------------------------------------
(* dataman: the record of one executed instruction, in two parts.          *)

AccessWrite(t, i, ea) ==
  /\ pc[t] = "run"
  /\ i \in DOMAIN inslist
  /\ Len(trace) < 2 * MaxEvents
  /\ inslist' = [inslist EXCEPT ![i] = ea]
  /\ cur' = [cur EXCEPT ![t] = [ins |-> i, ea |-> ea, shown |-> Uninit]]
  /\ ub' = InslistBusy(t)
  /\ mixed' = (mixed \/ Others(t, InRecord \cup InNotice))
  /\ Goto(t, "printing")
  /\ UNCHANGED <<want, held, syncs, trace>>

\* THREADID and INSINFO::print, which shows the memOp found in the shared entry.
AccessPrint(t) ==
  /\ pc[t] = "printing"
  /\ cur' = [cur EXCEPT ![t].shown = inslist[cur[t].ins]]
  /\ trace' = Append(trace, [part |-> "event", thread |-> t, ins |-> cur[t].ins,
                             memOp |-> inslist[cur[t].ins]])
  /\ ub' = InslistBusy(t)
  /\ Goto(t, "syncing")
  /\ UNCHANGED <<want, held, inslist, syncs, mixed>>

\* The SYNC attribute, which does not say again whose it is.
AccessSync(t) ==
  /\ pc[t] = "syncing"
  /\ trace' = Append(trace, [part |-> "sync", locks |-> Listed(t)])
  /\ ub' = SyncsBusy(t)
  /\ cur' = [cur EXCEPT ![t] = NoAccess]
  /\ Goto(t, "run")
  /\ UNCHANGED <<want, held, inslist, syncs, mixed>>

-----------------------------------------------------------------------------
(* lock_func_bf, inserted before the lock routine, then the routine.       *)

\* The callback is called and prints.
LockCall(t, r) ==
  /\ pc[t] = "run"
  /\ r.lock \notin DOMAIN held[t]
  /\ want' = [want EXCEPT ![t] = r]
  /\ mixed' = (mixed \/ Others(t, InRecord))
  /\ Goto(t, "recording")
  /\ UNCHANGED <<cur, held, inslist, syncs, trace, ub>>

\* Mutant: map::insert in place of assignment, which keeps an old type.
LockBeforeKeep(t) ==
  /\ pc[t] = "recording"
  /\ ub' = SyncsBusy(t)
  /\ \/ /\ t \in DOMAIN syncs
        /\ syncs' = IF want[t].lock \in DOMAIN syncs[t] THEN syncs
                    ELSE [syncs EXCEPT ![t] = Put(@, want[t].lock, want[t].type)]
        /\ Goto(t, "noting")
     \/ /\ t \notin DOMAIN syncs
        /\ Goto(t, "inserting")
        /\ UNCHANGED syncs
  /\ UNCHANGED <<want, cur, held, inslist, trace, mixed>>

\* Mutant: only the first lock of a thread is recorded.
LockBeforeFirst(t) ==
  /\ pc[t] = "recording"
  /\ ub' = SyncsBusy(t)
  /\ Goto(t, IF t \in DOMAIN syncs THEN "noting" ELSE "inserting")
  /\ UNCHANGED <<want, cur, held, inslist, syncs, trace, mixed>>

\* syncs[tid][addr] = type, at once when the thread has an entry.
LockBefore(t) ==
  /\ pc[t] = "recording"
  /\ ub' = SyncsBusy(t)
  /\ \/ /\ t \in DOMAIN syncs
        /\ syncs' = [syncs EXCEPT ![t] = Put(@, want[t].lock, want[t].type)]
        /\ Goto(t, "noting")
     \/ /\ t \notin DOMAIN syncs
        /\ Goto(t, "inserting")
        /\ UNCHANGED syncs
  /\ UNCHANGED <<want, cur, held, inslist, trace, mixed>>

\* Mutant: the lock's name is missing from `locks`, whose default is no type.
LockInsertUntyped(t) ==
  /\ pc[t] = "inserting"
  /\ syncs' = Put(syncs, t, Put(Empty, want[t].lock, "none"))
  /\ Goto(t, "noting")
  /\ UNCHANGED <<want, cur, held, inslist, trace, ub, mixed>>

LockInsert(t) ==
  /\ pc[t] = "inserting"
  /\ syncs' = Put(syncs, t, Put(Empty, want[t].lock, want[t].type))
  /\ Goto(t, "noting")
  /\ UNCHANGED <<want, cur, held, inslist, trace, ub, mixed>>

\* "setting syncs" is printed and the callback returns.
LockNoted(t) ==
  /\ pc[t] = "noting"
  /\ Goto(t, "acquiring")
  /\ UNCHANGED <<want, cur, held, inslist, syncs, trace, ub, mixed>>

\* The lock routine returns: nobody else holds the lock, but for readers.
Available(t, r) ==
  \A u \in Threads \ {t} :
    r.lock \in DOMAIN held[u] =>
      r.type = "reader lock" /\ held[u][r.lock] = "reader lock"

Acquire(t) ==
  /\ pc[t] = "acquiring"
  /\ Available(t, want[t])
  /\ held' = [held EXCEPT ![t] = Put(@, want[t].lock, want[t].type)]
  /\ want' = [want EXCEPT ![t] = NoRequest]
  /\ Goto(t, "run")
  /\ UNCHANGED <<cur, inslist, syncs, trace, ub, mixed>>

-----------------------------------------------------------------------------
(* unlock_func, inserted before the unlock routine, then the routine.      *)

\* The callback is called and prints.
UnlockCall(t, l) ==
  /\ pc[t] = "run"
  /\ l \in DOMAIN held[t]
  /\ held[t][l] \in HookedUnlocks
  /\ want' = [want EXCEPT ![t] = [lock |-> l, type |-> held[t][l]]]
  /\ mixed' = (mixed \/ Others(t, InRecord))
  /\ Goto(t, "removing")
  /\ UNCHANGED <<cur, held, inslist, syncs, trace, ub>>

\* Mutant: a lock is removed only with the whole entry.
UnlockBeforeLast(t) ==
  /\ pc[t] = "removing"
  /\ Goto(t, IF Listed(t) = {want[t].lock} THEN "erasing" ELSE "unnoting")
  /\ UNCHANGED <<want, cur, held, inslist, syncs, trace, ub, mixed>>

\* syncs[tid].find(addr) is not checked: erasing end() is undefined.
UnlockBefore(t) ==
  LET l == want[t].lock
  IN  /\ pc[t] = "removing"
      /\ ub' = (SyncsBusy(t) \/ (t \in DOMAIN syncs /\ l \notin DOMAIN syncs[t]))
      /\ \/ /\ l \in Listed(t)
            /\ syncs' = [syncs EXCEPT ![t] = Remove(@, l)]
            /\ Goto(t, IF Listed(t) = {l} THEN "erasing" ELSE "unnoting")
         \/ /\ l \notin Listed(t)
            /\ Goto(t, "unnoting")
            /\ UNCHANGED syncs
      /\ UNCHANGED <<want, cur, held, inslist, trace, mixed>>

UnlockErase(t) ==
  /\ pc[t] = "erasing"
  /\ syncs' = Remove(syncs, t)
  /\ Goto(t, "unnoting")
  /\ UNCHANGED <<want, cur, held, inslist, trace, ub, mixed>>

\* "unsetting syncs", or "DAFUQ!!", is printed and the callback returns.
UnlockNoted(t) ==
  /\ pc[t] = "unnoting"
  /\ Goto(t, "releasing")
  /\ UNCHANGED <<want, cur, held, inslist, syncs, trace, ub, mixed>>

Release(t) ==
  /\ pc[t] = "releasing"
  /\ held' = [held EXCEPT ![t] = Remove(@, want[t].lock)]
  /\ want' = [want EXCEPT ![t] = NoRequest]
  /\ Goto(t, "run")
  /\ UNCHANGED <<cur, inslist, syncs, trace, ub, mixed>>

\* An unlock routine Routine does not recognise runs without a callback.
UnlockUnseen(t, l) ==
  /\ pc[t] = "run"
  /\ l \in DOMAIN held[t]
  /\ held[t][l] \notin HookedUnlocks
  /\ held' = [held EXCEPT ![t] = Remove(@, l)]
  /\ UNCHANGED <<pc, want, cur, inslist, syncs, trace, ub, mixed>>

-----------------------------------------------------------------------------
(* pthread_cond_wait unlocks and locks its mutex inside libpthread, where  *)
(* no PLT stub runs and nothing is traced.                                 *)

CondWait(t, m) ==
  /\ pc[t] = "run"
  /\ m \in Mutexes \cap DOMAIN held[t]
  /\ held' = [held EXCEPT ![t] = Remove(@, m)]
  /\ want' = [want EXCEPT ![t] = [lock |-> m, type |-> "mutex"]]
  /\ Goto(t, "cond_waiting")
  /\ UNCHANGED <<cur, inslist, syncs, trace, ub, mixed>>

CondWake(t) ==
  /\ pc[t] = "cond_waiting"
  /\ Available(t, want[t])
  /\ held' = [held EXCEPT ![t] = Put(@, want[t].lock, want[t].type)]
  /\ want' = [want EXCEPT ![t] = NoRequest]
  /\ Goto(t, "run")
  /\ UNCHANGED <<cur, inslist, syncs, trace, ub, mixed>>

-----------------------------------------------------------------------------

ThreadStep(t) ==
  \/ \E i \in Instrs : InstructionBegin(t, i)
  \/ InstructionEnd(t)
  \/ \E i \in Instrs : \E ea \in Operands(i) : AccessWrite(t, i, ea)
  \/ AccessPrint(t)
  \/ AccessSync(t)
  \/ \E r \in Requests : LockCall(t, r)
  \/ LockBefore(t) \/ LockInsert(t) \/ LockNoted(t)
  \/ Acquire(t)
  \/ \E l \in Locks : UnlockCall(t, l) \/ UnlockUnseen(t, l)
  \/ UnlockBefore(t) \/ UnlockErase(t) \/ UnlockNoted(t)
  \/ Release(t)
  \/ \E m \in Mutexes : CondWait(t, m)
  \/ CondWake(t)

Next == ~ub /\ \E t \in Threads : ThreadStep(t)

Spec == Init /\ [][Next]_vars

-----------------------------------------------------------------------------
(* Properties                                                              *)

Labels == {"run", "instrumenting", "acquiring", "releasing", "cond_waiting"}
            \cup InRecord \cup InNotice

\* Application code or dataman: the states in which t's records are written.
Tracing == {"run", "instrumenting", "printing", "syncing"}

\* Callbacks and calls that are about the lock want[t].
Calling == InNotice \cup {"acquiring", "releasing", "cond_waiting"}

\* A map from lock addresses to types, each lock with a type of its kind.
IsLockMap(f) ==
  /\ DOMAIN f \subseteq Locks
  /\ \A l \in DOMAIN f : [lock |-> l, type |-> f[l]] \in Requests

Values == Addrs \cup {NoAddr, Uninit}

\* The two parts of a record.
Lines ==
  [part : {"event"}, thread : Threads, ins : Instrs, memOp : Values]
    \cup [part : {"sync"}, locks : SUBSET Locks]

\* The variables have the shape of the tool's globals.
TypeOK ==
  /\ pc \in [Threads -> Labels]
  /\ want \in [Threads -> Requests \cup {NoRequest}]
  /\ \A t \in Threads : pc[t] \in Calling => want[t] \in Requests
  /\ cur \in [Threads -> [ins : Instrs \cup {"none"}, ea : Values, shown : Values]]
  /\ \A t \in Threads : pc[t] \in {"instrumenting", "printing", "syncing"}
                           => cur[t].ins \in Instrs
  /\ \A t \in Threads : pc[t] = "printing" => cur[t].ins \in DOMAIN inslist
  /\ DOMAIN held = Threads
  /\ \A t \in Threads : IsLockMap(held[t])
  /\ DOMAIN inslist \subseteq Instrs
  /\ \A i \in DOMAIN inslist : inslist[i] \in Values
  /\ DOMAIN syncs \subseteq Threads
  /\ \A t \in DOMAIN syncs : IsLockMap(syncs[t])
  /\ trace \in Seq(Lines)
  /\ ub \in BOOLEAN
  /\ mixed \in BOOLEAN

\* README.md:45: no record of a thread leaves out a lock the thread holds, nor
\* gives it the wrong type.  It must survive the callback running before the
\* lock is granted, pthread_cond_wait, and a read-write lock locked in one
\* mode after the other.
HeldIsListed ==
  ~ub => \A t \in Threads : pc[t] \in Tracing =>
           \A l \in DOMAIN held[t] :
             l \in Listed(t) /\ syncs[t][l] = held[t][l]

\* README.md:45: no record of a thread lists a mutex, or a semaphore used as a
\* lock, that the thread does not hold: neither one it still waits for nor one
\* it has released.
ListedIsHeld ==
  ~ub => \A t \in Threads : pc[t] \in Tracing =>
           Listed(t) \cap Exclusive \subseteq DOMAIN held[t]

\* Two accesses being recorded at the same time never list a common mutex or
\* semaphore: a reader of the trace may take locksets for mutual exclusion.
TraceExclusion ==
  ~ub => \A t, u \in Threads :
           /\ t # u
           /\ pc[t] \in InRecord
           /\ pc[u] \in InRecord
           => Listed(t) \cap Listed(u) \cap Exclusive = {}

\* dataman prints "synchronous access" when syncs has an entry for the thread:
\* such an entry then lists at least one lock (unlock_func erases empty ones).
SynchronousHasLocks ==
  ~ub => \A t \in DOMAIN syncs : pc[t] \in Tracing => Listed(t) # {}

\* A program that unlocks only what it holds drives the tool into undefined
\* behaviour by overlapping callbacks alone: unlock_func never erases end().
OnlyOverlapIsUndefined ==
  [][ub' => \E t \in Threads : SyncsBusy(t) \/ InslistBusy(t)]_vars

\* The record of a memory access shows an address that was passed to dataman,
\* never the memOp that the INSINFO constructor leaves uninitialised, although
\* the entry is shared and instrumentation may run in between.
PrintedWasAccessed ==
  \A k \in DOMAIN trace :
    trace[k].part = "event" => trace[k].memOp \in Operands(trace[k].ins)

\* memtracker.h:39 calls memOp the "actual memory reference": the address in a
\* record is the one its own access used.
PrintedIsOwn ==
  \A t \in Threads : pc[t] = "syncing" => cur[t].shown = cur[t].ea

\* README.md:45-48 with "RW locks": a listed read-write lock is held.
RWListedIsHeld ==
  ~ub => \A t \in Threads : pc[t] = "syncing" =>
           Listed(t) \cap RWLocks \subseteq DOMAIN held[t]

-----------------------------------------------------------------------------
(* Refinement: for mutexes and semaphores the trace is the one LockTrace   *)
(* promises.                                                               *)

\* The records that a reader finds in the trace: two parts each.
Records ==
  [k \in 1..(Len(trace) \div 2) |->
     [thread |-> trace[2 * k - 1].thread, ins |-> trace[2 * k - 1].ins,
      locks |-> trace[2 * k].locks \cap Exclusive]]

Honest == INSTANCE LockTrace WITH
  Locks <- Exclusive,
  owned <- [t \in Threads |-> DOMAIN held[t] \cap Exclusive],
  log   <- Records

\* An execution is one of LockTrace until dataman overlaps another callback that
\* prints (or a callback overlaps a structural change of a map it uses, where the
\* behaviour ends): until then records are whole, in the order of the accesses,
\* and name exactly the locks held.
HonestTrace ==
  Honest!Init /\ [][~mixed => [Honest!Next]_(Honest!absVars)]_vars

=============================================================================
