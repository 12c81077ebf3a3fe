------------------------------ MODULE Streams ------------------------------
(***************************************************************************)
(* memtracker2 (source/tools/Exp/memtracker2.cpp, with memtracker.h): the  *)
(* tracer that writes one file per thread, together with the threads of    *)
(* the program it traces.                                                  *)
(*                                                                         *)
(* It differs from memtracker in three ways.  A lock is recorded when the  *)
(* lock routine returns (IPOINT_AFTER), with the address that Pin then     *)
(* finds in the first argument's place; Pin documents that argument for    *)
(* the entry of a routine only.  The release of a read-write lock is       *)
(* hooked by its real name.  And a record goes to outp[tid], a stream that *)
(* ThreadStart opens and ThreadFini closes; Pin gives the id of a thread   *)
(* that ended to a later one.                                              *)
(*                                                                         *)
(* A label of pc is a place: `Place` says which map a thread is in there   *)
(* and whether it changes the structure of the map.  Two threads in one    *)
(* std::map, one of them changing it, are undefined behaviour, and so are  *)
(* erase(end()) and outp[tid] past the array: `ub` names what happened,    *)
(* and the behaviour ends.                                                 *)
(***************************************************************************)
EXTENDS Naturals, Sequences, FiniteSets

CONSTANTS
  Threads,    \* threads that the program ever has, one after the other
  Main,       \* the first one
  Mutexes,    \* pthread mutexes, not recursive
  Sems,       \* binary semaphores
  RWLocks,    \* read-write locks
  Instrs,     \* instructions with debug information
  Addrs,      \* the addresses dataman is called with (-1 for flag 'n')
  Stray,      \* an address that is no lock
  Uninit,     \* INSINFO::memOp before its first assignment
  Capacity,   \* the length of outp (10 in the source)
  MaxRecords, \* bound: records of one thread
  MaxOdd      \* bound: kinds of unusual calls in one execution

Exclusive == Mutexes \cup Sems
Locks     == Exclusive \cup RWLocks

\* A lock has one kind, and the addresses are told apart.
ASSUME StreamsAssumption ==
  /\ Main \in Threads
  /\ Mutexes \cap Sems = {}
  /\ Exclusive \cap RWLocks = {}
  /\ Stray \notin Locks
  /\ Uninit \notin Addrs
  /\ Capacity \in Nat \ {0}
  /\ MaxRecords \in Nat
  /\ MaxOdd \in Nat

VARIABLES
  pc,      \* where each thread is, see Labels
  id,      \* id[t]: its THREADID
  want,    \* want[t]: the lock and type of the (un)lock call t is in
  cur,     \* cur[t]: the access dataman is recording for t
  held,    \* held[t]: the locks t really holds, with their type (external)
  inslist, \* instruction -> INSINFO.memOp
  syncs,   \* THREADID -> (lock address -> type)
  files,   \* THREADID -> the lines of "Thread<tid>.dump"
  ub,      \* what undefined behaviour there was
  written, \* history: written[t], the lines thread t wrote
  odd      \* history: kinds of unusual calls so far, see OddKinds

vars == <<pc, id, want, cur, held, inslist, syncs, files, ub, written, odd>>

Labels == {"unborn", "run", "instrumenting", "storing", "printing", "syncing",
           "locking", "recording", "removing", "unlocking", "waiting", "ended"}

\* "unseen":  a lock was acquired and lock_func_af not called: by a trylock,
\*            or by a return that Pin did not find in the routine;
\* "stray":   at the return the argument's place held something else;
\* "posted":  a semaphore was posted by a thread that does not hold it;
\* "left":    a thread ended with a lock held;
\* "reused":  a thread got the id of one that ended.
OddKinds == {"unseen", "failed", "stray", "posted", "left", "reused"}

-----------------------------------------------------------------------------
(* std::map assignment and erasure.                                        *)

Put(f, x, v) == [y \in DOMAIN f \cup {x} |-> IF y = x THEN v ELSE f[y]]
Remove(f, x) == [y \in DOMAIN f \ {x} |-> f[y]]
Empty == [l \in {} |-> "none"]

\* The maps `locks` and `unlocks` are inverse of each other: a type is its name.
Types == {"mutex", "semaphore", "reader lock", "writer lock"}

\* The lock calls that Routine recognises; it hooks the unlock of all of them.
Requests ==
  [lock : Mutexes, type : {"mutex"}]
    \cup [lock : Sems, type : {"semaphore"}]
    \cup [lock : RWLocks, type : {"reader lock", "writer lock"}]

NoRequest == [lock |-> "none", type |-> "none"]
NoAccess  == [ins |-> "none", ea |-> Uninit]

Listed(t) == IF id[t] \in DOMAIN syncs THEN DOMAIN syncs[id[t]] ELSE {}

Alive == {t \in Threads : pc[t] \notin {"unborn", "ended"}}
Ids   == {id[t] : t \in Alive}

-----------------------------------------------------------------------------
(* Places.                                                                 *)

\* Which map a thread is in, and whether it changes its structure there.
\* Given an entry of its own in syncs, a thread only looks that entry up.
Place(t, label, r) ==
  CASE label = "instrumenting" -> [map |-> "inslist", changes |-> TRUE]
    [] label \in {"storing", "printing"} -> [map |-> "inslist", changes |-> FALSE]
    [] label = "syncing"   -> [map |-> "syncs", changes |-> FALSE]
    [] label = "recording" -> [map |-> "syncs", changes |-> id[t] \notin DOMAIN syncs]
    [] label = "removing"  -> [map |-> "syncs", changes |-> Listed(t) = {r.lock}]
    [] OTHER -> [map |-> "none", changes |-> FALSE]

\* The map that t would share with a thread in it, when it went to `label`.
Overlap(t, label, r) ==
  LET here == Place(t, label, r)
  IN  {here.map} \cap
        {m \in {"inslist", "syncs"} : \E u \in Threads \ {t} :
           LET there == Place(u, pc[u], want[u])
           IN  there.map = m /\ (here.changes \/ there.changes)}

\* t goes on, about the request r.
Step(t, from, to, r) ==
  /\ ub = {}
  /\ pc[t] = from
  /\ pc' = [pc EXCEPT ![t] = to]
  /\ want' = [want EXCEPT ![t] = r]
  /\ ub' = Overlap(t, to, r)

\* An unusual call of this kind.
Odd(k) ==
  /\ odd' = odd \cup {k}
  /\ Cardinality(odd') <= MaxOdd

-----------------------------------------------------------------------------

\* The main thread has started, with THREADID 0.
Init ==
  /\ pc = [t \in Threads |-> IF t = Main THEN "run" ELSE "unborn"]
  /\ id = [t \in Threads |-> 0]
  /\ want = [t \in Threads |-> NoRequest]
  /\ cur = [t \in Threads |-> NoAccess]
  /\ held = [t \in Threads |-> Empty]
  /\ inslist = Empty
  /\ syncs = Empty
  /\ files = [d \in {0} |-> << >>]
  /\ ub = {}
  /\ written = [t \in Threads |-> << >>]
  /\ odd = {}

(* Threads.                                                                *)

\* Pin takes the first id that is free, so it gives an id again when its thread
\* ended (external).
Fresh(d) == d \notin Ids /\ 0..(d - 1) \subseteq Ids

\* Mutant: a stream less than there are ids.
ThreadStartShort(t) ==
  \E d \in 0..Cardinality(Alive) :
    /\ ub = {} /\ pc[t] = "unborn" /\ Alive # {}
    /\ Fresh(d)
    /\ id' = [id EXCEPT ![t] = d]
    /\ pc' = [pc EXCEPT ![t] = "run"]
    /\ files' = Put(files, d, << >>)
    /\ ub' = IF d + 1 < Capacity THEN {} ELSE {"outp"}
    /\ IF d \in DOMAIN files THEN Odd("reused") ELSE UNCHANGED odd
    /\ UNCHANGED <<want, cur, held, inslist, syncs, written>>

\* A new thread; opening its stream empties the file of an earlier thread.
ThreadStart(t) ==
  \E d \in 0..Cardinality(Alive) :
    /\ ub = {} /\ pc[t] = "unborn" /\ Alive # {}
    /\ Fresh(d)
    /\ id' = [id EXCEPT ![t] = d]
    /\ pc' = [pc EXCEPT ![t] = "run"]
    /\ files' = Put(files, d, << >>)
    /\ ub' = IF d < Capacity THEN {} ELSE {"outp"}
    /\ IF d \in DOMAIN files THEN Odd("reused") ELSE UNCHANGED odd
    /\ UNCHANGED <<want, cur, held, inslist, syncs, written>>

\* The end of a thread; the file stays, and so does its entry in syncs.
ThreadFini(t) ==
  /\ Step(t, "run", "ended", NoRequest)
  /\ IF DOMAIN held[t] # {} THEN Odd("left") ELSE UNCHANGED odd
  /\ UNCHANGED <<id, cur, held, inslist, syncs, files, written>>

-----------------------------------------------------------------------------
(* Instruction and dataman.                                                *)

\* Instrumentation of an instruction with a source line; Pin serialises it.
InstructionBegin(t, i) ==
  /\ i \notin DOMAIN inslist
  /\ \A u \in Threads : pc[u] # "instrumenting"
  /\ Step(t, "run", "instrumenting", NoRequest)
  /\ cur' = [cur EXCEPT ![t] = [NoAccess EXCEPT !.ins = i]]
  /\ UNCHANGED <<id, held, inslist, syncs, files, written, odd>>

InstructionEnd(t) ==
  /\ Step(t, "instrumenting", "run", NoRequest)
  /\ inslist' = Put(inslist, cur[t].ins, Uninit)
  /\ cur' = [cur EXCEPT ![t] = NoAccess]
  /\ UNCHANGED <<id, held, syncs, files, written, odd>>

\* The thread executes an instruction that has been instrumented.
Access(t, i, ea) ==
  /\ i \in DOMAIN inslist
  /\ Len(written[t]) < 2 * MaxRecords
  /\ Step(t, "run", "storing", NoRequest)
  /\ cur' = [cur EXCEPT ![t] = [ins |-> i, ea |-> ea]]
  /\ UNCHANGED <<id, held, inslist, syncs, files, written, odd>>

StoreMemOp(t) ==
  /\ Step(t, "storing", "printing", NoRequest)
  /\ inslist' = [inslist EXCEPT ![cur[t].ins] = cur[t].ea]
  /\ UNCHANGED <<id, cur, held, syncs, files, written, odd>>

\* Mutant: every thread writes to one stream, as memtracker does.
WriteShared(t, line) ==
  /\ files' = [files EXCEPT ![0] = Append(@, line)]
  /\ written' = [written EXCEPT ![t] = Append(@, line)]

\* outp[tid] << line.
Write(t, line) ==
  /\ files' = [files EXCEPT ![id[t]] = Append(@, line)]
  /\ written' = [written EXCEPT ![t] = Append(@, line)]

\* The lines up to SYNC, with the memOp found in the shared entry.
PrintEvent(t) ==
  /\ Step(t, "printing", "syncing", NoRequest)
  /\ Write(t, [part |-> "event", thread |-> t, ins |-> cur[t].ins,
               memOp |-> inslist[cur[t].ins]])
  /\ UNCHANGED <<id, cur, held, inslist, syncs, odd>>

\* The SYNC lines.
PrintSync(t) ==
  /\ Step(t, "syncing", "run", NoRequest)
  /\ Write(t, [part |-> "sync", locks |-> Listed(t)])
  /\ cur' = [cur EXCEPT ![t] = NoAccess]
  /\ UNCHANGED <<id, held, inslist, syncs, odd>>

-----------------------------------------------------------------------------
(* Lock routines and lock_func_af.                                         *)

\* A lock routine can return: nobody else holds the lock, but for readers
\* (external).
Available(t, r) ==
  \A u \in Threads \ {t} :
    r.lock \in DOMAIN held[u] =>
      r.type = "reader lock" /\ held[u][r.lock] = "reader lock"

LockCall(t, r) ==
  /\ r.lock \notin DOMAIN held[t]
  /\ Step(t, "run", "locking", r)
  /\ UNCHANGED <<id, cur, held, inslist, syncs, files, written, odd>>

\* The routine has the lock and returns.
Acquire(t) ==
  /\ Available(t, want[t])
  /\ Step(t, "locking", "recording", want[t])
  /\ held' = [held EXCEPT ![t] = Put(@, want[t].lock, want[t].type)]
  /\ UNCHANGED <<id, cur, inslist, syncs, files, written, odd>>

\* The routine returns without the lock, as an interrupted sem_wait does: the
\* callback at its return does not look at what it returned.
AcquireFails(t) ==
  /\ Step(t, "locking", "recording", want[t])
  /\ Odd("failed")
  /\ UNCHANGED <<id, cur, held, inslist, syncs, files, written>>

\* Mutant: the first lock of a thread creates its entry and is forgotten.
LockFuncAfFirst(t, a) ==
  /\ Step(t, "recording", "run", NoRequest)
  /\ syncs' = Put(syncs, id[t], IF id[t] \in DOMAIN syncs
                                THEN Put(syncs[id[t]], a, want[t].type) ELSE Empty)
  /\ IF a # want[t].lock THEN Odd("stray") ELSE UNCHANGED odd
  /\ UNCHANGED <<id, cur, held, inslist, files, written>>

\* Mutant: the lock's name is missing from `locks`, whose default is no type.
LockFuncAfUntyped(t, a) ==
  LET mine == IF id[t] \in DOMAIN syncs THEN syncs[id[t]] ELSE Empty
  IN  /\ Step(t, "recording", "run", NoRequest)
      /\ syncs' = Put(syncs, id[t], Put(mine, a, "none"))
      /\ IF a # want[t].lock THEN Odd("stray") ELSE UNCHANGED odd
      /\ UNCHANGED <<id, cur, held, inslist, files, written>>

\* syncs[tid][addr]=type, for the address a found in the argument's place.
LockFuncAf(t, a) ==
  LET mine == IF id[t] \in DOMAIN syncs THEN syncs[id[t]] ELSE Empty
  IN  /\ Step(t, "recording", "run", NoRequest)
      /\ syncs' = Put(syncs, id[t], Put(mine, a, want[t].type))
      /\ IF a # want[t].lock THEN Odd("stray") ELSE UNCHANGED odd
      /\ UNCHANGED <<id, cur, held, inslist, files, written>>

\* A lock acquired without a call of lock_func_af: pthread_mutex_trylock and
\* the like are not hooked, and Pin may miss a return of those that are.
AcquireUnseen(t, r) ==
  /\ r.lock \notin DOMAIN held[t] /\ Available(t, r)
  /\ Step(t, "run", "run", NoRequest)
  /\ held' = [held EXCEPT ![t] = Put(@, r.lock, r.type)]
  /\ Odd("unseen")
  /\ UNCHANGED <<id, cur, inslist, syncs, files, written>>

-----------------------------------------------------------------------------
(* unlock_func, before the unlock routine, and the routine.                *)

UnlockCall(t, l) ==
  /\ l \in DOMAIN held[t]
  /\ Step(t, "run", "removing", [lock |-> l, type |-> held[t][l]])
  /\ UNCHANGED <<id, cur, held, inslist, syncs, files, written, odd>>

\* sem_post by a thread that does not hold the semaphore: a signal.
PostCall(t, s) ==
  /\ s \notin DOMAIN held[t]
  /\ \E u \in Threads : s \in DOMAIN held[u]
  /\ Step(t, "run", "removing", [lock |-> s, type |-> "semaphore"])
  /\ Odd("posted")
  /\ UNCHANGED <<id, cur, held, inslist, syncs, files, written>>

\* Mutant: the entry that became empty stays in syncs (lines 85-86 dropped).
UnlockFuncNoErase(t) ==
  /\ Step(t, "removing", "unlocking", want[t])
  /\ syncs' = IF want[t].lock \in Listed(t)
              THEN [syncs EXCEPT ![id[t]] = Remove(@, want[t].lock)] ELSE syncs
  /\ UNCHANGED <<id, cur, held, inslist, files, written, odd>>

\* Mutant: a lock is removed only with the whole entry.
UnlockFuncLast(t) ==
  LET l == want[t].lock
  IN  /\ ub = {} /\ pc[t] = "removing"
      /\ pc' = [pc EXCEPT ![t] = "unlocking"]
      /\ ub' = IF id[t] \in DOMAIN syncs /\ l \notin Listed(t) THEN {"end"} ELSE {}
      /\ syncs' = IF Listed(t) = {l} THEN Remove(syncs, id[t]) ELSE syncs
      /\ UNCHANGED <<id, want, cur, held, inslist, files, written, odd>>

\* Mutant: the first unlock erases all that the thread has in syncs.
UnlockFuncWhole(t) ==
  /\ ub = {} /\ pc[t] = "removing"
  /\ pc' = [pc EXCEPT ![t] = "unlocking"]
  /\ ub' = {}
  /\ syncs' = Remove(syncs, id[t])
  /\ UNCHANGED <<id, want, cur, held, inslist, files, written, odd>>

\* An entry that is not there: "DAFUQ!!" when the thread has none, and
\* erase(end()) when it has others.
UnlockFunc(t) ==
  LET l == want[t].lock
  IN  /\ ub = {} /\ pc[t] = "removing"
      /\ pc' = [pc EXCEPT ![t] = "unlocking"]
      /\ ub' = IF id[t] \in DOMAIN syncs /\ l \notin Listed(t) THEN {"end"} ELSE {}
      /\ syncs' = CASE Listed(t) = {l} -> Remove(syncs, id[t])
                    [] l \in Listed(t) /\ Listed(t) # {l}
                         -> [syncs EXCEPT ![id[t]] = Remove(@, l)]
                    [] l \notin Listed(t) -> syncs
      /\ UNCHANGED <<id, want, cur, held, inslist, files, written, odd>>

\* The routine: a semaphore is posted for whoever holds it (its count is at
\* most one here), another lock is released by its holder.
Release(t) ==
  LET l == want[t].lock
  IN  /\ Step(t, "unlocking", "run", NoRequest)
      /\ held' = [u \in Threads |-> IF u = t \/ l \in Sems THEN Remove(held[u], l)
                                    ELSE held[u]]
      /\ UNCHANGED <<id, cur, inslist, syncs, files, written, odd>>

\* pthread_cond_wait unlocks and locks its mutex inside libpthread, by
\* routines that are not hooked.
CondWait(t, m) ==
  /\ m \in DOMAIN held[t]
  /\ Step(t, "run", "waiting", [lock |-> m, type |-> "mutex"])
  /\ held' = [held EXCEPT ![t] = Remove(@, m)]
  /\ UNCHANGED <<id, cur, inslist, syncs, files, written, odd>>

CondWake(t) ==
  /\ Available(t, want[t])
  /\ Step(t, "waiting", "run", NoRequest)
  /\ held' = [held EXCEPT ![t] = Put(@, want[t].lock, want[t].type)]
  /\ UNCHANGED <<id, cur, inslist, syncs, files, written, odd>>

-----------------------------------------------------------------------------

ThreadStep(t) ==
  \/ ThreadStart(t) \/ ThreadFini(t)
  \/ \E i \in Instrs : InstructionBegin(t, i)
  \/ InstructionEnd(t)
  \/ \E i \in Instrs, ea \in Addrs : Access(t, i, ea)
  \/ StoreMemOp(t) \/ PrintEvent(t) \/ PrintSync(t)
  \/ \E r \in Requests : LockCall(t, r) \/ AcquireUnseen(t, r)
  \/ Acquire(t) \/ AcquireFails(t)
  \/ \E a \in Locks \cup {Stray} : LockFuncAf(t, a)
  \/ \E l \in Locks : UnlockCall(t, l)
  \/ \E s \in Sems : PostCall(t, s)
  \/ UnlockFunc(t) \/ Release(t)
  \/ \E m \in Mutexes : CondWait(t, m)
  \/ CondWake(t)

Next == \E t \in Threads : ThreadStep(t)

Spec == Init /\ [][Next]_vars

-----------------------------------------------------------------------------
(* Properties                                                              *)

Values == Addrs \cup {Uninit}

IsLockMap(f) ==
  /\ DOMAIN f \subseteq Locks
  /\ \A l \in DOMAIN f : [lock |-> l, type |-> f[l]] \in Requests

\* A dataman was only ever called with an address: no line shows Uninit.
Lines ==
  [part : {"event"}, thread : Threads, ins : Instrs, memOp : Addrs]
    \cup [part : {"sync"}, locks : SUBSET (Locks \cup {Stray})]

Calling == {"locking", "recording", "removing", "unlocking", "waiting"}

\* The variables have the types of the tool's globals; in particular an entry
\* of inslist has been assigned before it is printed.
TypeOK ==
  /\ pc \in [Threads -> Labels]
  /\ id \in [Threads -> Nat]
  /\ want \in [Threads -> Requests \cup {NoRequest}]
  /\ \A t \in Threads : pc[t] \in Calling => want[t] \in Requests
  /\ cur \in [Threads -> [ins : Instrs \cup {"none"}, ea : Values]]
  /\ DOMAIN held = Threads
  /\ \A t \in Threads : IsLockMap(held[t])
  /\ DOMAIN inslist \subseteq Instrs
  /\ \A i \in DOMAIN inslist : inslist[i] \in Values
  /\ DOMAIN syncs \subseteq Nat
  /\ \A d \in DOMAIN syncs :
       /\ DOMAIN syncs[d] \subseteq Locks \cup {Stray}
       /\ \A l \in DOMAIN syncs[d] : syncs[d][l] \in Types
  /\ DOMAIN files \subseteq Nat
  /\ \A d \in DOMAIN files : files[d] \in Seq(Lines)
  /\ written \in [Threads -> Seq(Lines)]
  /\ ub \subseteq {"inslist", "syncs", "end", "outp"}
  /\ odd \subseteq OddKinds

\* Application code or dataman: the states in which t's records are written.
Tracing == {"run", "instrumenting", "storing", "printing", "syncing"}

\* README.md:45: no record leaves out a lock its thread holds or gives it the
\* wrong type, unless a lock was acquired that lock_func_af was not called for
\* or was told another address of.  Lock calls that fail, signalling semaphores,
\* threads that end with a lock and ids used again do not change that.
HeldIsListed ==
  odd \cap {"unseen", "stray"} = {} =>
    \A t \in Threads : pc[t] \in Tracing =>
      \A l \in DOMAIN held[t] : l \in Listed(t) /\ syncs[id[t]][l] = held[t][l]

\* README.md:45: no record lists a lock, of any kind, that its thread does not
\* hold, even while it waits for one, unless a lock call failed, an address was
\* misread, a thread posted another's semaphore or ended with a lock held.
ListedIsHeld ==
  odd \cap {"failed", "stray", "posted", "left"} = {} =>
    \A t \in Alive : pc[t] # "waiting" => Listed(t) \subseteq DOMAIN held[t]

\* Until then an entry of syncs lists a lock and belongs to a thread that runs:
\* a thread that gets the id of another begins asynchronous.
NewIsAsynchronous ==
  odd \cap {"failed", "stray", "posted", "left"} = {} =>
    \A d \in DOMAIN syncs : DOMAIN syncs[d] # {} /\ d \in Ids

\* unlock_func erases end() only in a program that acquired a lock unseen,
\* whose address was misread, or that signals with a semaphore.
EndIsErased == "end" \in ub => odd \cap {"unseen", "stray", "posted"} # {}

\* The file of a thread holds the lines it wrote, all, in order and no others,
\* as long as the thread runs, and until ids are used again also after it.
StreamIsOwn ==
  ub = {} =>
    \A t \in Threads :
      t \in Alive \/ (pc[t] = "ended" /\ "reused" \notin odd) =>
        files[id[t]] = written[t]

\* outp is left only when more threads run at once than it has streams, however
\* many threads there have been.
OverflowNeedsThreads == "outp" \in ub => Cardinality(Alive) > Capacity

-----------------------------------------------------------------------------
(* Refinement: the file of each thread, read by itself, is a trace that    *)
(* LockTrace allows.                                                       *)

Stream(t) == IF pc[t] = "unborn" THEN << >> ELSE files[id[t]]

\* The records that a reader finds in the file of t: two lines each.
Records(t) ==
  [k \in 1..(Len(Stream(t)) \div 2) |->
     [thread |-> Stream(t)[2 * k - 1].thread, ins |-> Stream(t)[2 * k - 1].ins,
      locks |-> Stream(t)[2 * k].locks \cap Exclusive]]

ThreadTrace(t) == INSTANCE LockTrace WITH
  Locks <- Exclusive,
  owned <- [u \in Threads |-> DOMAIN held[u] \cap Exclusive],
  log   <- Records(t)

\* While no call is unusual, every step is one of LockTrace for each thread's
\* file, or leaves that file's records and the owners alone.
HonestStreams ==
  /\ \A t \in Threads : ThreadTrace(t)!Init
  /\ [][ub' = {} /\ odd' = {} =>
          \A t \in Threads : [ThreadTrace(t)!Next]_(ThreadTrace(t)!absVars)]_vars

=============================================================================
