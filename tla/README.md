# Verification of the DataTrace tools

DataTrace is a set of tools for Intel Pin.  They run inside a multithreaded
program, record what it does with memory, locks and threads, and draw
conclusions from the record.  This project models the four tools with logic of
their own about threads and locks, checks the models with TLC, and proves with
TLAPS what it can for any number of threads, locks and events.

In all four, the same two questions are asked.  Is the tool's record of the
program's locks and events *right*?  And do the tool's callbacks, which run on
the program's own threads in any order, keep the shared containers *whole*?

Paths below are relative to `src/PIN/source/tools/`.

## 1. Inventory

The repository is a `README.md` and the Pin kit with the tools added to it.  The
directory `Work` and the scripts that turn a trace into features, which the
README mentions, are not in it.

| Component | Code | Here |
|---|---|---|
| memtracker: access tracer with lock records | `Exp/memtracker.{h,cpp}` | `MemTracker`, `LockTrace` |
| pmS: deadlock detector | `Exp/threads/pmS.cpp` | `DeadlockDetector` |
| u0: event recorder | `u0.cpp:1-3660` | `Recorder`, `Journal` |
| u0: `Fini` and its deciders | `u0.cpp:3661-8070` | `Summary` |
| u0: threading model and features | `u0.cpp:3220-3830, 4440-8070` | `ThreadModel`, `ThreadFeatures` |
| memtracker2: a stream per thread | `Exp/memtracker2.cpp` | `Streams`, `LockTrace` |
| data_raceD: data race detector | `Exp/threads/data_raceD.cpp` | not modelled, section 5 |
| thread_data_access1, thread_conc1 | `Exp/threads/` | the recorder of u0, other reports |
| earlier versions of memtracker | `Exp/`, `Exp_Saved/` | copies of stages, left aside |
| Array_Detect: data structure heuristics | `Fupload/` | sequential, left aside |
| the Pin kit, its samples and tests | `src/PIN` | vendored, external |

**How they interact.**  Each tool is one shared library in one traced process;
the tools do not talk to each other.  A tool interacts with three parties.
Pin calls `Instruction` and `Routine` when it meets code for the first time (one
thread at a time, under Pin's own lock), `ThreadStart` and `ThreadFini` around
each thread, and `Fini` at the end.  The callbacks that were inserted run on the
thread that executes the instruction, `IPOINT_BEFORE` or `IPOINT_AFTER` it, with
no lock held.  The program's threads call `pthread_*` and `sem_*`; between a
callback and the routine it stands for, any other thread may run.

### memtracker

*State*: `inslist`, from instruction to an `INSINFO` with the last address
accessed; `syncs`, from thread to a map of lock addresses and types; the records
on `std::cout`.
*Operations*: `Instruction` adds to `inslist`; `dataman` stores the address,
prints the instruction and prints the locks in `syncs`; `lock_func_bf` and
`unlock_func` add to and remove from `syncs`, before the routine runs.
*Hard*: no lock protects any map, and none the output, to which a record goes in
several statements; a lock is recorded before it is granted and removed before it
is given back; `pthread_cond_wait` releases and takes the mutex
without a callback; read-write locks are released under a name that `Routine`
does not look for.
*Correct when*: a record lists exactly the locks of its thread and the address of
its own access, records are whole, and no callback leaves a map broken.

### memtracker2

*State*: `inslist` and `syncs` as in memtracker; `outp`, ten files, one for each
THREADID.
*Operations*: `ThreadStart` opens a file and `ThreadFini` closes it; `dataman`
writes its record there; `lock_func_af` adds to `syncs` when the lock routine
returns, `unlock_func` removes before the unlock routine runs.
*Hard*: `outp` is indexed without a check, and Pin gives the id of a thread that
ended to a new one, which then finds what is left in `syncs` and empties the
file; the address of the lock is read from the place of an argument that Pin
promises at the entry of a routine only; `trylock` is not hooked, and a semaphore
is posted by any thread; the maps are shared without a lock.
*Correct when*: each file is the trace of its thread, with the locks it holds,
and where it is not, one of these things happened.

### pmS

*State*: a matrix per kind of lock (`accessmap`, `saccessmap`, `waccessmap`:
lock, thread, 0 waiting / 1 holding / 2 neither), `allThreads`, `threadCount`.
*Operations*: `lock`, `slock`, `wlock` before a lock routine enter the caller as
holder or waiter and walk from the holder along "waits for a lock held by"; if
the walk comes to the caller, "DEADLOCK detected!!" is printed and the program
ended.  `unlock`, `sunlock` after the routine and `wunlock` before it reset the
entry.
*Hard*: a row is stale between the routine and its callback; `unlock` and
`sunlock` read the lock's address at the return of the routine, from the place of
an argument that Pin promises at the entry only, and use its row unchecked;
`trylock`, results of calls and posts by other threads are not seen; waiters are
never made holders; threads join the rows of a kind of lock late; 2 is a status, a
sentinel for "nobody" and a thread.
*Correct when*: the matrix says who holds what, every deadlock is reported, and
only deadlocks are.

### u0: recorder

*State*: `counter`, `accessmap` (key to event), `thlist`, `startmap`, `joinmap`,
`td`, and one Pin lock, `lock`.
*Operations*: some forty callbacks with one frame: take a key from `counter`,
lock, insert the event, unlock.
*Hard*: the key is taken outside the lock by a load and a store; `child_start`
releases the lock inside a loop, `ThreadFini` twice; `map::insert` does not
overwrite; `create` names a thread before it exists.
*Correct when*: the history is complete and in order, the lock protects what is
accessed under it and is always released, and threads have their own names.

### u0: Fini

*State*: tables built by one pass over the history: `globalmutmap` (lock, thread,
flag), `timeList` (requests for mutexes with start and end), `globalinmap` (the
writes of each address, with thread and tag).
*Operations*: a branch per type of event; then `safety_decider`,
`starvation_decider`, `live_lock_decider` and the thread hierarchy deciders.
*Hard*: requests and acquisitions are matched by search, flags are matched by
value, and each kind of lock has flags of its own; fields are read that were
never set.
*Correct when*: the tables agree with what the threads held and waited for, and
the verdicts with what they did.

### u0: threading model and features

*State*: `startmap` and `joinmap`, filled by the callbacks; `createmap`, `condmap`,
`signalmap` and the list of global variables, filled by `Fini`'s loop; `dataarray`.
*Operations*: a branch for each of creation, join, wait and signal; then
`does_update` and the decision between *Boss_Worker*, *Peer to Peer*, *Pipeline* and
*Hybrid*, `data_access`, and a row of counts for each thread.
*Hard*: creations are counted when they are called, and may fail; ids are used
again; a record that names another thread takes the name from the records before
it; `dataarray` has ten rows.
*Correct when*: the model that is reported fits what the program did, a signal
names the thread it wakes, and the rows account for every call once.

The hazards of each component, at their lines and with the properties that
cover them, are listed in `PROJECT.json`; those without a property say why.

## 2. Modules

    LockTrace            what the README promises of a trace
      ^ refines   ^ refines, once for each file
    MemTracker    Streams        memtracker and memtracker2, with their threads
      MemTracker_proofs, MCMemTracker; Streams_proofs, MCStreams

    DeadlockDetector     pmS with the threads it watches
      DeadlockDetector_proofs    types, and the rows of the matrix
      DetectorWalk_proofs        the walk: what is detected and reported
      MCDeadlockDetector

    Journal              what Fini takes the history for
      ^ refines
    Recorder             u0: the callbacks and the history
      Recorder_proofs, MCRecorder
    Summary              u0: Fini on locks and writes, and its verdicts
      Summary_proofs, MCSummary
    ThreadModel          u0: Fini on threads, signals, and the threading model
      ThreadFeatures     the rows of dataarray, computed from ThreadModel
      ThreadModel_proofs, MCThreadModel

    FiniteInduction      lemmas of several proofs: least numbers, induction over
                         finite sets, sums

Each component's module holds its state, its actions, its properties, and
variants of definitions marked "Mutant": plausible mistakes in the code, each of
which makes one of the properties fail.  The `_proofs` modules hold the proofs,
the `MC` modules the values of constants.  `PROJECT.json` gives for each
definition the lines it models.

`Recorder` on the one hand, `Summary` and `ThreadModel` on the other are the
halves of one tool. They meet in `Journal`: a call gets its place in the
history in one go, and is noted there once. `Recorder` implements it for as
long as no two threads take the counter at once (`HonestHistory`), and
`Summary` and `ThreadModel` start from such a history.

### MemTracker

A callback is a step for each of its accesses to the shared maps and, where it
prints, one for its first and one for its last line: `dataman` is `AccessWrite`
(the address goes into the shared entry), `AccessPrint` (it is read back and
printed) and `AccessSync` (the locks are read and printed).  `lock_func_bf` is
`LockCall`, `LockBefore` with, when the thread is not yet in `syncs`,
`LockInsert`, and `LockNoted`; then `Acquire` is the routine itself.
`unlock_func` is `UnlockCall`, `UnlockBefore`, with `UnlockErase` when the last
entry goes, and `UnlockNoted`, then `Release`.

`trace` is what is on `std::cout`: two parts for each record, the lines up to
`INS` with the address, which name the thread, and the `SYNC` lines, which do
not.  Each lies where it was printed, so the parts of records that two threads
print at once come apart.  `mixed` becomes true when `dataman` and another
callback that prints overlap; from then on nothing is claimed of the trace as a
text (`HonestTrace`), while what a record *shows* is still what the other
properties say.  Inside one part other output can fall as well: that is the same
overlap.

Inserting into or erasing from the outer `std::map` is a window of two steps.
Any other access to that map in the window is a data race: `ub` becomes true,
and an overlapped insertion may be lost.  The properties either hold
while `~ub`, or are about how `ub` can come about.

Assumed of the program (external): it releases what it holds; mutexes are not
recursive; semaphores are posted by the thread that waited; a lock routine that
is called gets the lock; `trylock` is not used.  It may wait on conditions and
use read-write locks in both modes.  What `trylock`, lock routines that fail and
posts by other threads do to `syncs` is in `Streams`.

### Streams

Places in the callbacks are labels, and `Place` says which map a thread is in at
each and whether it changes its structure there; `Overlap` then makes two
threads in one map undefined behaviour. `ub` also names the two other kinds:
`outp` past its end and `erase(end())`. A behaviour ends with the first.

`dataman` is `Access`, `StoreMemOp`, `PrintEvent` and `PrintSync`; a lock call is
`LockCall`, `Acquire` (the routine) and `LockFuncAf`; an unlock is `UnlockCall`,
`UnlockFunc` and `Release` (the routine).  `CondWait` and `CondWake` are what
`pthread_cond_wait` does without a callback.
`odd` collects the unusual things that a program, or Pin, may do: a lock acquired
without a call of `lock_func_af` (`AcquireUnseen`), a lock routine that returns
without the lock (`AcquireFails`: `lock_func_af` does not look), another value in the argument's
place at the return, a semaphore posted by a thread that does not have it, a thread
that ends with a lock, an id used again.  Each property says
which of these it cannot stand; the others leave it intact.  `files` is what is on
disk, `written` what the threads wrote, in their own order.

### DeadlockDetector

A callback is one action: the model is of executions in which callbacks do not
overlap, because the walks use global iterators and nothing at all is defined
otherwise.  What does interleave is callback and routine: `LockNew`,
`LockKnown` and `LockOwn` are the callback by its cases, `Acquire` the routine that
returns later; `Unlock` is the routine and `UnlockAfter` its callback; for
read-write locks `RWUnlockBefore` is the callback and `RWUnlock` the routine.
`CondWait` and `CondWake` are what `pthread_cond_wait` does to its mutex, which
no callback sees.

`UnlockAfter` takes the address that is found in the argument's place: any
lock's, or one that is no lock (`Stray`).  `Forget` looks it up in the map of the
callback's own kind; where there is no row, `find` returned `end()` and is
dereferenced, which is `ub` and ends the behaviour.  As in `Streams`, `odd`
collects what is unusual: a lock acquired by `trylock` ("unseen",
`AcquireUnseen`), a lock routine that returns without the lock ("failed",
`AcquireFails`), another address than the lock's ("stray"), a return that Pin
did not find, so that the callback is not called ("missed", `UnlockMissed`), and
a semaphore posted by a thread that does not have it, as a signal ("posted",
`Post`; `unposted` are the semaphores that begin at 0).  Each property names the
kinds it cannot stand, and the others leave it intact:

| | unseen | failed | stray | missed | posted |
|---|---|---|---|---|---|
| `RowIsFound`: no row is used that is not there | breaks | | breaks | | breaks |
| `HeldIsRecorded`: who holds a lock is in its row | breaks | | breaks | | |
| `DetectsFirstDeadlock` | breaks | breaks | breaks | | |
| `ReportsOnlyDeadlock` | | breaks | breaks | breaks | breaks |

Assumed of the program (external): mutexes are not recursive, semaphores are
binary, and it releases what it holds.

The three maps are one `matrix`, with `Kind` telling them apart: the code of the
three callbacks is the same text over three maps.  Lock addresses are the `int`
keys the maps have.

### Recorder

All callbacks share the frame `Load`, `Store` (the two halves of
`counter1=counter; counter++`), `Enter`, `Insert`, `Release`; the kinds differ
where the code does: `start` and `child_start` touch `startmap`, `join` and
`ThreadFini` touch `joinmap`, outside the lock (`Beside`); `child_start` has its
loop (`ScanFirst`, `ScanOn`, `ScanEnd`); `ThreadFini` its second release; `create`
its `++td`, followed by `Spawn` or `SpawnFail`, the routine.  The Pin lock can be
released by whoever calls, as Pin's is.  Two threads in one container are
undefined behaviour: `ub` names the container and the behaviour ends, so
`LockProtects` is about the first time.

`Journal` is what the rest of the tool takes all this for: `Begin` gives a call
its place, `Note` notes it. A call has its place from `Store` to `Insert`
(`Pending`), and its place is the key (`Places`); `Noted` is `accessmap`, which
call of which thread is at each key.

### Summary

A step is an event of the program together with the branch of `Fini`'s loop that
reads it.  Since `Fini` reads events in order and the branches use nothing but the
tables, the state after each step is the one that `Fini` has at its end if the
program ends there, and the verdicts are operators over that state.  `within` and
`held` are the program (external): what its threads really do between the events.
`wrote` and `answers` are history variables that remember what the program did,
for the properties to compare the verdicts with.

An unset `end` of a request is undefined, and a verdict that reads it is the set
of what it may return.  The lists of `globalmutmap` are sets of entries: entries
that agree are read and changed alike, and the order shows only in which tag
comes last (`Last`).  `Stores` are the pairs of instruction and variable whose writes
the tool records; which they are depends on addresses.  Lock routines write to
their locks, which are global variables too (`WriteLock`).

Assumed of the program: semaphores are used as locks, a mutex is not locked
twice, there are no condition variables; a barrier does not block (it matters to
no table).

### ThreadModel and ThreadFeatures

A step is, again, an event with its branch in `Fini`; `startmap` and `joinmap` are
filled by the callbacks when the event happens.  A thread is its THREADID, and
`ThreadStart` takes the first that is free, so an id can come again.  `Create` may
or may not be followed by a thread.  `lastrec` stands for the search that
`cond_signal_func` makes in the history for the last record with its condition
variable.  `WakeUnseen` is a broadcast, a timeout or a spurious wakeup, which no
callback sees.  `made`, `wrote` and `signals` are histories of what the program did.

`Verdict` and `DataAccess` are the decisions of the report as operators over the
tables.  `ThreadFeatures` adds the rows of `dataarray`, in hundredths because the
code puts 0.15 and 0.35 in the place of zero.

## 3. Runs

All are exhaustive.  None checks for deadlock: in every model the program may
stop, because its threads end or wait for each other, or because the history
has its bounded length.

| Run | Instance | What it shows |
|---|---|---|
| `tracker` | 2 threads, a mutex and a read-write lock, 2 instructions, 1 record (628,000 states) | While callbacks do not overlap on a map, a record lists all locks held, with their types, and no mutex or semaphore not held; concurrent records have disjoint locks; nothing uninitialised is printed; only overlap leads to undefined behaviour. Until a record is overlapped by other output, too, the trace implements `LockTrace`. |
| `tracker_rwlock` | with a read-write lock | **Violation**: a released read-write lock is still listed. |
| `tracker_address` | 1 instruction, 2 addresses | **Violation**: a record shows another thread's address. |
| `streams` | 3 threads one after the other or at once, 2 files, a mutex and a semaphore, 1 record each, at most 1 kind of unusual call (766,000 states) | Which unusual calls break which promise: what is held is listed, what is listed is held, a new thread starts without locks, `erase(end())`, lines in the wrong file, `outp` past its end.  Without any, each file implements `LockTrace`. |
| `detector` | threads 0, 1, 3 and 3 mutexes, no unusual calls (378,000 states) | Until a lock is handed to a waiter, every cycle is reported when it closes, whatever its length. |
| `detector_odd` | threads 0, 1, 2 semaphores and a mutex, at most 1 kind of unusual call (1,209,000 states) | Which unusual calls break which promise: an unlock callback finds its row, holders are recorded, the first deadlock is reported, only deadlocks are. |
| `detector_readers` | threads 0, 1, 2 and 2 read-write locks | With readers, and with 2 as a thread, what is reported is a deadlock, or one of two named things: thread 2 waits for the caller, or a reader is recorded as waiting behind a reader. |
| `detector_missed` | 2 threads, 2 mutexes | **Violation**: after a hand-over a deadlock goes unreported. |
| `detector_false` | 2 threads, 2 read-write locks | **Violation**: a wait behind a reader, which blocks nobody, is reported as deadlock. |
| `recorder` | 3 threads with 3, 2 and 3 events at most (100,000 states) | While no two threads take a key at once, the history is complete and in order, and `accessmap` implements `Journal`; the lock protects until it is released for another thread; no path keeps it; creations are named right. Every callback ends, whatever the other threads do with the lock; each step leaves less to do, and someone in a callback never waits. |
| `summary` | 2 threads, a lock of each kind and a barrier, 2 instructions, 2 variables, 7 events | The table of locks, the list of global variables and the three verdicts. |
| `thread_model` | 3 ids, 1 condition variable, 2 instructions and 2 variables that they share, 7 events, 3 rows | What is said of signals, of the threading model and of each thread's calls. |

**Why these bounds are enough.** *tracker*: every race in the tool is between
two threads and one map, and no record depends on an earlier one but through
`syncs`, so one record of each thread, from every reachable `syncs`, meets the
cases: no record is begun after one is printed, and those begun end in either
order. Two instructions, one that accesses memory and one that does not, are
needed for a thread to insert into `inslist` while another one reads there.
Mutex and semaphore are told apart by the names that `Routine` looks for and by
nothing else, so the run has no semaphore (with one it takes longer than five
minutes); the proofs have. *detector*: three threads and three
mutexes are the least with a cycle longer than two and with a walk that ends in
a cycle the caller is not in. *detector_odd*: two locks of a kind, for a cycle,
and one of another, so that an address can be misread as one that the callback's
own map does not have, and threads come late to the rows of a kind. One kind of
unusual call in an execution, any number of times, is what the properties tell
apart. Each exception in the table of section 2 but one is needed there: without
it TLC finds the property violated. The one is "failed" for
`DetectsFirstDeadlock`, which takes three semaphores: a thread whose call failed
stays recorded as waiting, and the walk follows that wait, from a lower address,
instead of the one the thread is in. In `detector`, thread 2 is left out so that its
collision with the sentinel does not hide what else may be wrong;
`detector_readers` has it, with two locks, since two readers in a cycle need no
third; each of the two exceptions it names, and a real deadlock, is met there.
Semaphores and mutexes meet in `detector_odd`; read-write locks beside other
kinds, and unusual calls in the presence of thread 2, are left to the proofs.
*streams*: two threads at once fill `outp`, and a third one overflows it
or takes an id again; one kind of unusual call in an execution is what the
properties tell apart, and a read-write lock besides would only add states, as
`lock_func_af` and `unlock_func` treat all locks alike (with one, the run takes
longer than five minutes); the proofs have no such bounds. The third thread may
also start after one that wrote its record and ended, which is when a file is
emptied. There is one instruction, so an insertion into `inslist` beside a read
of it is met in `tracker` and, for memtracker2, only in the proofs. *recorder*:
three threads, because a lock can be released for a thread by a second one while
a third one enters. Three events are a start, a call and an end, or two
creations, after which the second thread can be in the loop of `child_start`
when the third one has the lock; with two events, a start and a call, the second
thread can create one while the main thread does. *summary*: seven events are a lock, a
write under it, an unlock and a write of the other thread with one to spare;
`Limit` is 2 for the code's 5, so that a wait can be long in such a history.
*thread_model*: two creations by two threads, the start between them, a write of
each and a join are six events, so each of the models is reached, with one to
spare. Symmetry is used where threads are only compared (`tracker`, `streams`,
`summary`); the properties of these runs are safety properties and a refinement
without fairness, and symmetric in the threads.

**The violations** are listed under "findings" with the lines that they
contradict.  None says that a tool is useless: each is the exact place where
what the text of the tool says stops being what it does, and the passing runs
show what remains true around it, for instance that the detector is exact until
the first hand-over.

**What the verdicts of u0 mean** is worth spelling out, because it is not what
their words suggest, and the properties state it as it is. A write is tagged
`MUTEX` while its thread *waits* for a mutex, not while it has one, so "totally
unsafe" excludes writes under semaphores and read-write locks only
(`UnsafeIsBare`). Semaphores and read-write locks never leave the table, and
barriers tag for ever, so "totally safe" excludes bare writes only if none was
released or used (`SafeIsSafe`). Starvation and livelock are judged right for
histories in which each thread asks for a mutex once (`WaitsAreJudged`), because
an acquisition ends the first request of its thread, whatever it answers.

**What the threading model means** is closer to its words (`VerdictFits`), for
programs in which each variable has its own instruction: *Peer to Peer* and
*Pipeline* are reported for parents that share a variable only, *Boss_Worker*
for joins without it. "Partitioned access" is never reported, since a variable
is in the list only with two writes. A signal never names the thread it wakes,
but the main thread, or an uninitialised one (`SignalsNameMain`): the record of
a wait has 0 in the place of its thread. The rows add up unless an id is used
again or there are more threads than rows, and then `Fini` writes past the array
(`RowsAddUp`).

**Known and left as conditions.** An insertion into `syncs` that another
callback overlaps can be lost, and a lock with it; that is undefined behaviour
and stands as `~ub` in the properties of `MemTracker` and `Streams`. Records
that are printed at once get mixed on `std::cout`, and which `SYNC` lines are
whose is then lost; that stands as `~mixed` in `HonestTrace`. Thread 2
has the number that pmS uses for "nobody": its holds go unrecorded where the
lock was free (`LockOwn`), and a walk from a free lock begins at it
(`NobodyWaits`). u0 records a write under the address of its instruction, so
`SharedIsFound` and `VerdictFits` are about programs in which instructions and
variables go together (`OneToOne`).

**Fairness and liveness.** `CallbacksEnd` is the one liveness property: who is
in a callback of u0 comes out of it. `FairSpec` asks for weak fairness of
`Progress(t)`, the steps of thread `t` inside a callback, for each thread. The
code justifies it: a callback is straight code and one loop over a finite map,
on a thread the operating system runs. The one step that can wait is the Pin
lock's, and weak fairness promises it only to a thread for which the lock
*stays* free; that threads cannot keep each other from it for ever rests on each
making finitely many calls (`MaxEvents`). That this is what it rests on is said
by `CallbacksAdvance`, which needs no fairness: a step, of any thread, leaves
less to do (`WorkLeft`), so there is a last one, and as long as anyone is in a
callback someone there does not wait for the lock (`GoesOn`), whom weak fairness
then lets go on. The measure counts for each thread the callbacks it may still
make, its place in the one it is in, and half a step for having the lock: that
makes up for the rounds of `child_start`'s loop, each of which takes the lock
from someone and changes nothing else. The program owes nothing: it may stay
outside of callbacks, or in a creation, for ever. Of the other tools nothing of
the kind is claimed: their callbacks wait for nothing.

## 4. Proofs

Each theorem is for all values of the constants under the module's `ASSUME`.
Every property of a passing run has a theorem, but for one, at the end.

**MemTracker.** `TypeCorrect`. The invariant behind the rest is `AgreeInv`:
while `~ub`, `syncs[t]` is `held[t]`, corrected by the call that `t` is in
(`Agree`), and nothing else: ahead of the program by the lock of the call, and
behind it inside `pthread_cond_wait`. `OneOwner`, the locks' own exclusion, is
added for two records. From it follow `RecordIsComplete`, `RecordIsSound`,
`LocksetsExclude`, `SynchronousIsMeant` (a thread listed as synchronous has a
lock, which no run asks for) and, as an action property, `UndefinedByOverlap`. `PrintInv` (one thread instruments at a time; an entry
being printed has been written) gives `PrintedIsAccessed`. `ImplementsLockTrace`
is the refinement, until records are mixed: by `WholeInv` one thread at a time
is in a record, and the trace is whole records with its event, if it has printed
that, at the end. So printing the event is a stutter (`PrintIsStutter`), and
printing the locks is `Access` (`SyncIsAccess`), with a complete and sound list by
`AgreeInv`; gaining and losing a lock are `Take` and `Give`.

**Streams.** `TypeInv` adds to the types that one thread instruments at a time
and that an entry being printed was written. `IdsInv`: threads that run have ids
of their own, the ids in use reach no further than their number, and each has a
file. `OneOwner` is the locks' own exclusion, and `OtherThreads`, `OtherEntries`
and `IdKept` say what a step leaves alone, so that an invariant about each
thread need only be shown for the one that moves. `CompleteInv` (held is listed,
corrected by the call the thread is in) and `SoundInv` (listed is held, and no
entry is left for an id that is free) are two invariants because different calls
break them: the first needs that no lock was acquired unseen and no address
misread, the second is kept by a lock acquired unseen and broken by one that a
thread leaves or another posts, and by a call that fails. `ReleasesOwn` gives `EndIsErased`, `StreamInv`
gives `StreamIsOwn`. `EachStreamIsATrace` is the refinement: the sequence of
records in the files, two lines each (`PairedInv`), with the locks held maps to
`LockTrace`.

**DeadlockDetector.**  `TypeCorrect` is about types alone.  That the unlock
callbacks use no row that is not there, but for the unusual calls named, is
`RowsAreFound`, by `RowsInv`: the locks that a thread holds, is to get back or has
just released have rows, unless it got one by `trylock` or released one that is
not its own.  `OneHolderOnly` (a row has one holder at most, which no run asks
for) holds whatever is called.  `HoldersRecorded` needs `RecordedInv`: before the
first hand-over, and while no lock was acquired unseen and no address misread, a
thread that calls for a lock is in its row as waiting or holding, and a lock whose
unlock callback is still due is no longer held.  A misread address is an exception
there because it resets another lock's row; a missed callback is none, because it
leaves too much in the matrix and not too little.

The walk is a path of any length, up to `threadCount + 1`, and what it finds needs an
argument by induction.  `LeastNumber` (module `FiniteInduction`), that a set of numbers has a least one,
takes its place: the first step of the walk that leaves what is claimed has a step
before it that does not.  `CycleWalk` turns the recursive function in `Cycle` into
a sequence `g` with `g[n] = Hop(g[n - 1])`.

*Only deadlocks are reported* (`ReportsAreDeadlocks`): `StatusInv` says what a
status means before the first hand-over and, here, before a call that fails, a
misread address, a missed release or a post by another thread, each of which
leaves a stale row (waiting: the thread is in that call;
holding: it has the lock, is getting it, or its unlock is not recorded yet).
`ReportInv` says that a report is of a walk from the holder of what the caller
wants, or from "nobody", back to the caller. In `ReportedIsDeadlock` the threads
of that walk make a set as `Deadlocked` asks: each is recorded as waiting for a
lock that the next one holds, and so is blocked by it, unless both are readers
or thread 2 stands for nobody.

*Deadlocks are reported* (`FirstDeadlockIsDetected`, for programs without a
thread 2 and until a lock is acquired unseen, a call fails or an address is
misread; with a thread 2 it is false, since it leaves no record of a lock it
finds free): `WalkInv` says that the rows of deadlocked threads lead from each
to another one of them that blocks it (`DeadlockLeadsOn`). When a call closes a
deadlock `D`, no part of `D` without the caller was closed before it, since that
would have been a deadlock, reported (`DeadlockWasThere`). So the walk, which
stays in `D`, can come back to no thread twice without passing the caller, and
by the pigeonhole principle comes to it within as many rounds as `D` has threads
(`WalkComesBack`). `CountInv`, that `threadCount` is at least the number of
threads known, makes the bound of the loop enough.

**Recorder.** `TypeInv` adds to the types `Path` (which callbacks can be where)
and `Counts` (creations made and under way never outnumber threads). `LockInv`
gives `LockProtectsUntilSeized` and `LockIsAlwaysReleased`: until a seizure,
whoever is under the lock is who the lock names. `KeysInv` gives
`HistoryIsComplete` and `HistoryIsBehindCounter` (a call that begins after
another is done comes after it): while nobody races, one thread
at most is between load and store, with the counter in hand, so a key that is
pending is new. `HistoryIsJournal` is the refinement, by the same invariant: the
store is `Begin`, since nobody counted since the load, the insertion is `Note`,
since no event has its key, and every other step is a stutter. `NamesInv` gives `CreationsAreNamed`: while creations do not
cross, `td` and Pin's numbering go together.

`CallbacksLeaveLess` is the part of "every callback ends" that is in reach, for
any number of threads and callbacks. `CallsInv` says that a thread has a place
for each event it is yet to record, so that the measure is a natural number;
`MoveDrops` that whatever a move of a thread does to the lock weighs less than
the move; and `SumSmaller` takes this from the threads to their sum. `LockInv`
has the rest: who has the lock does not wait for it.

**Summary.** All six properties. `LockInv` relates the table with the locks: a
request for each thread that waits (`RequestsInv`), an acquisition for each
mutex that is held (`MutexInv`), an entry for every semaphore and read-write
lock (`TakenInv`, `KindInv`) and, until a release, no more (`KeptInv`). It gives
`TableIsRight` and, through `TagsInv` about the tags of past writes,
`UnsafeIsUnlocked` and `SafeIsLocked`. `WritersInv` (each write has its record,
each record its write, and a list without a change of thread has one thread)
gives `SharedIsReported`; that third part is what makes comparing neighbours, as
the code does, enough. `TimesInv` gives `VerdictsOnWaiting`.

**ThreadModel.** `TypeCorrect`; `SignalInv`, that the last record of a condition
variable has thread 0 once there was a wait, gives `SignalsNameMain`. `TableInv`
relates `createmap` and `joinmap` to the calls made, and `WriteInv` the lists of
writes to the writes. For `VerdictFits` the part that matters is the last of
`WriteInv`: a list in which no two neighbours differ has one thread, so that
comparing neighbours, as the code does, finds every shared variable.

`RowsAccountForCalls` is about sums over threads, list places and instructions.
`ListedInv` says that who calls or writes is in `thlist`, once unless the id was
given again, and `CountedInv` that the tables a row is computed from count the
calls; so a column, summed over the places of `thlist`, is the sum over the ids
(`ColumnTotal`). The column of updates is counted per id and instruction, and is
summed the other way round (`GlobalTotal`).

**FiniteInduction.** The library's induction theorems take an operator, which no
prover here can instantiate. `SetInduction` takes a set instead, the finite sets
for which the claim holds. The community modules define a sum by recursion over
subsets; `SumTableExists` shows that there is such a function, and `SumRemove`
that the order in which it takes the elements does not matter. From these come
`SumReindexed` (the sum over a list without repetitions is that over its
elements), `SumSwapped` (a table adds up to the same by rows as by columns),
`CountedByValue` and `SumSmaller`.

**Model-checked only**: `CallbacksEnd`, since liveness under fairness and
`ENABLED` are out of the prover's reach. That a thread that `GoesOn` has a step
of `Progress` enabled is read off the actions.

## 5. Not modelled

* Parsing of options, output formats, disassembly, symbols and source lines: no
  property is about them.
* memtracker: recursive mutexes; the text of the lines that the lock callbacks
  print themselves (a memOp that was never set) and what the traced program
  prints on the same stream; where within a part of a record other output falls.
* pmS: callbacks that overlap (undefined from the first access to the global
  iterators), recursive locks, the `.dot` output. A cycle through locks of two
  kinds is in the model and is reported by no walk, as the three maps never
  meet; no property says so, because it holds by the shape of the code.
* u0: the text in `rtnlist`, the maps for the report only (`createseqmap`,
  `signalseqmap`, `exitmap`, `checkmap`), reads (`RecordMemRead` asks for an
  address below one bound and above a greater one, so none is recorded).
  `startmap` and `joinmap` are updated outside the lock: `Recorder` ends a
  behaviour in which two threads are in one of them, and nothing in the
  repository claims anything of it.
* data_raceD: the callbacks for reads and writes keep an address that
  is `<= lowSec && >= highSec`, where `lowSec` is the start of `.bss` and `highSec` the
  end of the image. No address passes, so the rules about locks behind it are
  never run; a model of them would be of a program that is not there.
* thread_data_access1, thread_conc1 and the earlier versions of memtracker are
  copies of u0 and memtracker at other stages, several of each under `Exp`,
  `Exp_Saved` and `pintool`; Array_Detect is sequential.
* The Pin kit, with its headers, stock tools and tests, is vendored; it and the
  copies are nearly all of the lines in `src/`.

## 6. State of the plan

The modules planned are written: memtracker2 as `Streams`, with `trylock` and posts
by other threads; creations, condition variables and the threading model as
`ThreadModel`; the theorems on the walk and on the sums; the history as a
refinement.  What is left would be new work:

1. THREADIDs that are used again in `Recorder`, as `ThreadModel` has them.
2. `Summary` and `ThreadModel` over one history, with condition variables that
   release a mutex.
3. `MemTracker` with the unusual calls that `Streams` and `DeadlockDetector` have.
4. Callbacks of pmS that overlap, up to the first use of a global iterator by two
   of them.
