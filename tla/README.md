# nanovm in TLA+

Specifications of the parts of nanovm that are implemented, the TLC runs that
check small instances of them, and TLAPS proofs of what holds for all instances.
Paths below are relative to the repository (`src/util.c` is `src/src/util.c` in
`PROJECT.json`).

    tlc -workers 2 -config heap_shared.cfg MCNvmHeap.tla
    tlapm NvmHeapProofs.tla

`PROJECT.json` lists the components, the runs, the lines of code each definition
stands for, the hazards, and for every checked property a mutant of the model
that violates it. Definitions commented `Mutant:` exist for that purpose only and
occur in no specification. Variables commented `history` are read by properties
only: no guard depends on them.

## 1. The system

nanovm is the beginning of a small Java-like virtual machine in C. Locks, memory,
stacks and threads are written; the interpreter, the class loader, native methods
and the start of the VM are stubs that log and return.

| component | state | operations | what makes it correct |
|---|---|---|---|
| lock, `util.c` 9-43 | `lock->tid`, `lock->cnt` | `NanoVM_init_lock`, `NanoVM_try_lock` (the body of the spin in `NanoVM_lock`), `NanoVM_unlock` | mutual exclusion, re-entrance counted to the depth, given back by the outermost unlock, somebody gets in |
| random ids, `util.c` 45-52 | `rand_init_flag`, the C library's stream | `NanoVM_rand_int` | two ids come from different places of the stream; an id is never 0 |
| log and error texts, `util.c` 54-101 | a block while a line is written | `NanoVM_write_log`, `NanoVM_strerror` | the block goes back |
| memory manager, `memory.c`, `memory.prm.c` | `heap_used`, `mem_used` with their caps, the null object, a zero for each primitive type, `mgr->lock` | create, release, `NanoVM_alloc`, `NanoVM_free`, `NanoVM_alloc_heap(_arr)`, `_get_null`, `_get_prm_0` | accounts are exact and bounded, each singleton is made once, nothing is lost or freed twice where memory is refused |
| reference counting, `memory.c` | `o->cnt`, `o->lock`, the fields and elements | `NanoVM_ref`, `NanoVM_unref` with the cascade of `_free_obj`, `put_field`, `get_field`, `set_array`, `get_array` | a count is the number of references; what is referred to is not freed, what is not is |
| primitive values, `memory.c` | the bits of a value, the fields of an object and of its parents | `_init_object`, `_init_field`, `NanoVM_mem_set_prm_*`, `NanoVM_mem_get_prm`, `NanoVM_get_prm_type_size` | each field holds what fits its type and reads as what was put in it; a number that fits its type is read back |
| stack manager, `stack.c` | the manager, `insn_handles`, `stack->frames`, each frame's locals and operand stack | create and release the manager and stacks, `NanoVM_create_frame`, `NanoVM_frame_pop`, `NanoVM_op_push`, `NanoVM_op_pop`, get and set locals | references balance, blocks go back on every error path, arguments are where bytecode looks for them |
| thread manager, `thread.c` | `mgr->threads`, `mgr->lock`, each thread's `state`, `idx`, `lock` | create, interrupt and release threads, create and release the manager | the table lists the threads, nothing is freed that is in use, references to the runnable balance |
| allocator, `zmalloc.c`, `atomicvar.h` | `used_memory`, `used_memory_mutex` | `zmalloc`, `zcalloc`, `zrealloc`, `zfree`, `zstrdup`, `zmalloc_size`, `zmalloc_used_memory` | the total is that of the blocks there are, in each way that it can be built |
| code manager, native manager, VM life cycle: `code.c`, `native.c`, `nanovm.c`, `main.c` | none yet | stubs | nothing yet |

How they interact. All state is shared memory; there are no messages and nothing
is persisted. Every allocation goes through the memory manager and its lock. An
object has a lock of its own, taken for an update of its count. A frame's locals
and operands and a thread's runnable are the counted roots of the heap;
`stack.c` and `thread.c` call `NanoVM_ref` and `NanoVM_unref` for them. The
thread manager has its own lock for the search of a free slot; a thread has one
for changes of its state. All of these are `nvm_lock_t`. All the VMs of a process
share the allocator's total, the table of instruction handles and the id
generator, and none of these is guarded by an `nvm_lock_t`.

What is hard here: steps of two threads in an order nobody wrote a test for
(tests call everything from one thread), tests made before a lock is taken and
used after, cascades that reach shared objects, and error paths in the middle of
a construction. Time-outs, messages and restarts do not occur. `hazards` in
`PROJECT.json` lists each at its line.

## 2. The modules

| module | code | state and steps |
|---|---|---|
| `ReentrantLock` | what callers of `nvm_lock_t` rely on | how many calls each thread has not undone |
| `NvmLock` | `util.c` 9-43 | the two ints of the lock; each read and each write of them is a step |
| `ManagedHeap` | what callers of `NanoVM_ref` and `NanoVM_unref` rely on | the objects, their fields, the variables: an object goes in one step, when nothing refers to it |
| `NvmHeap` | `memory.c` 141-167, 230-302, 380-411; `stack.c` 238-251; the runnable of `thread.c` | counts, fields, object locks, and for each thread its roots, the call it makes, and its stack of activations of `NanoVM_unref`; a step is what happens between two accesses to shared memory |
| `NvmMemMgr` | `memory.c` 8-46, 72-228, 304-306; `memory.prm.c` | the blocks with their accounts, the singletons, the manager's lock, and for each thread its way through `_init_object`, `_get_null`, `_get_prm_0` |
| `NvmStack` | `stack.c` 23-251 | the manager and its stack, frames, the frame being made, the blocks taken, counts; one thread (a stack belongs to one), one step for each allocation and each argument of a new frame, one step for any other call |
| `NvmThread` | `thread.c` | the table, the manager's lock, each thread's fields, and for each user its way through a call |
| `NvmValues` | `memory.c` 72-113, 153-167, 308-406; `memory.prm.c` 44-92; the types of `code.h` | the type, bits and fields of the object at each place, the shared zeros, the object that is being made; one thread, one step for each field and any other call |
| `NvmProcess` | `zmalloc.c` 48-203, `atomicvar.h`, `util.c` 45-78, `stack.c` 9-21 | the total and its mutex, the blocks, the handle table, the generator; each access to them is a step |
| `MC*` | | instances for TLC: constants, symmetry |
| `Nvm*Proofs` | | theorems and proofs about the seven modules of the same names |
| `NvmHeapRefsProofs` | | theorems about the references of `NvmHeap`: it extends `NvmHeapProofs` |

`NvmHeap`, `NvmMemMgr` and `NvmThread` take a lock in one step that excludes.
`NvmLock` is where that is questioned: it shows under which schedules the code
gives that lock. `NvmStack` keeps `NanoVM_ref` and `NanoVM_unref` as operators
of one step, as `NvmHeap` shows them to be for one thread. `NvmValues` takes from
`ManagedHeap` that a block goes when nothing refers to it, and from `NvmMemMgr`
that a zero is made once. `NvmProcess` is below all of these: what `Take` and
`Put` of `NvmMemMgr` do in one step are its calls of `zmalloc` and `zfree`.

`NvmHeap` implements `ManagedHeap` (`AbstractSpec`). An object is gone, in the
abstract heap, from the step that finds its last reference and starts the
cascade: `live` maps to the objects that are not being freed, and the fields of
all others to empty ones. A variable has its new value from the moment that
`NanoVM_set_local` unrefs the old one. Counts, locks and activations are not
mapped: they are how the promise is kept. `FieldsSeen` and `RootsSeen` are these
two mappings.

The sums of `size_t` in `memory.c` are words of `WordSize` values in `NvmMemMgr`.
A byte is scaled in `NvmValues`: it holds `Byte` numbers, and two, four and eight
of them the square, the fourth and the eighth power. `meant` and `shown` of
`NvmValues` are history: the number that the program set, and the value that a
field showed when it was put there. How `zmalloc.c` is compiled (atomic operations
or a mutex, with or without a size in front of each block) is a choice of the
initial state of `NvmProcess`. A draw of an id is identified by its place: what
`rand()` was seeded with, and how many numbers it has given since.

Data that no property tells apart is left out: the bytecode, names, the text of
log lines, and the values of primitives except in `NvmValues`. Null, the
primitive zeros and an unset reference are one value in `NvmHeap`, because
`_is_null_or_prm_0` makes all of them uncounted. In `NvmStack` they are told apart
(`Uncounted`, `Wide`): `stack.c` 140-145 gives a long or double zero two locals like
any other long or double.
A freed object of `NvmHeap` keeps its contents until its memory is used again,
as it does in the program, so that a use after free is followed and not masked.
A place of memory is free to be used again as soon as it is freed.

In `NvmMemMgr`, a request that is refused and changes nothing else is not a step
(`Alloc`, `AllocHeap`); one that has something to undo is an action
(`AllocTypeFails`, `AllocNullFails`, `AllocZeroFails`, `InitFails`), and so is
`AllocHeapArrFails`, because the code writes through the NULL that it got.

In `NvmHeap` the tests of `NanoVM_unref` are two steps (`UnrefIsOne`,
`UnrefIsZero`, the two reads of `memory.c` 294), and what follows them another
(`UnrefLast`, line 295); so are the two reads of `thread.c` 117 in `NvmThread`
(`NotDead`, `NotInit`).

In `NvmThread` one thread makes the manager, before there is one: that is the
start of the VM, which is not written. Its two allocations and the lock's
initialisation each may fail (`MgrFails`); `mgrBlocks` counts what was allocated.

In `NvmStack`, `lost` has no counterpart in memory: it counts the references of
the arguments of a frame that could not be made (`stack.c` 160 frees the locals
and does not unref what they hold), so that `CountsExact` can say that these,
and no others, are left behind.

The places that refer to an object, the bytes of an account and of the total, and
what slots lead to are sets, not sums and searches: `CountsExact` and `UsedExact`
compare a number of the code with the cardinality of a set (`Bytes` has a pair for
each byte of each block; `Part` of `NvmProcess` is how many of a block's bytes the
total has been told of while a call runs), and `LeadsTo` of `NvmHeap` and `Above`
of `NvmValues` are the least sets that are closed under following a slot or a
parent. `UnrefAll` of `NvmStack`, the loop that unrefs a frame's locals and
operands, takes from each count the number of positions that hold the object;
`UnrefAllInOrder`, which TLC evaluates in `stack_calls`, says that this is what
unref'ing one value after the other comes to.

`NanoVM_start_thread` is a stub. `Start` and `End` of `NvmThread` are what
`thread.h` says of the states, marked external in the map, and `Starts = FALSE`
is the program as it is today.

## 3. Disciplines that the code leaves to its callers

Some properties hold only under a condition that the code does not enforce. Each
is a named formula, and restricts the next-state relation where the property is
checked (`SerialNext`, `SyncNext`, `TurnsNext`). Where the repository promises the
property without it, a run without it shows what happens.

| formula | what it says | without it |
|---|---|---|
| `OneClaimant` (`NvmLock`) | no two threads are at once between the test at `util.c` 20 and the write at 21 | `lock_race` |
| `DistinctTids` (`NvmLock`) | threads pass different ids; the ids come from `NanoVM_rand_int` | not run: two threads of one id are one thread to the lock. `NvmProcess` shows how far the ids keep to it |
| `FieldsExclusive` (`NvmHeap`) | no two threads work on the fields of one object at once: what a program with its own synchronisation does | no run: an object is unref'd with count 0 when two threads put the same field, and the code promises nothing of such a program |
| `TakeTurns` (`NvmThread`) | users take turns on each thread, and while one of them releases the manager no other creates a thread or releases the manager | `thread_intr` |
| `SeededAlone` (`NvmProcess`) | nobody asks for an id while another thread seeds the generator: the first thread has its id before it starts others | no run: two threads that seed in the same second both draw the first number |

What happens without them is a hazard that no property covers: `PROJECT.json` says
so at each (`util.c` 17, 36 and 47, `memory.c` 384 and 404, `thread.c` 117). With
`Spec` in the place of the restricted specification, TLC finds `CountIsDepth`,
`FreeWhenUnused`, `DrawsDiffer`, `UnrefCounted` and `NoDangling` violated.
`WordAssumption` of `NvmMemMgr` likewise leaves out arrays of negative length, whose
size wraps (`memory.c` 169-170).

In `NvmHeap` a caller stores what it gets before it gets something else, so that
the model does not blame memory.c for a pointer that the program lost. In
`NvmStack` the program gives up exactly the references that it was given. In
`NvmValues` the program sets a number before it puts the value in a field (a zero
is in the fields of others), with the setter of the value's own type, and puts in
a field what fits the field's type, which memory.c does not test.

## 4. The runs

Passing runs.

| run | instance | properties |
|---|---|---|
| `lock_serial` | 3 threads, depth 2, acquisitions that do not overlap, fair | `TypeOK`, `MutualExclusion`, `CountIsDepth`, `FreeWhenUnused`; `AbstractSpec` (implements `ReentrantLock`); `LockFreedom` |
| `heap_shared` | 2 threads, 3 objects of 1 slot, 1 local each, `FieldsExclusive` | `TypeOK`; `CountsExact`: counts are the numbers of references when no call is running; `NoDangling`: nothing that is freed or being freed is referred to, nor freed again by another thread or activation; `UnrefCounted`; `NoHoldAndWait`; `AbstractSpec` (implements `ManagedHeap`) |
| `heap_single` | 1 thread, 3 objects of 2 slots or none, 1 local, fair | `GarbageFreed`: what no root leads to is gone unless some of it is on a cycle; `Returns`: every call returns, and so every cascade ends |
| `mem_shared` | 2 threads, 5 places, null and two primitives, objects of size 2, singletons of size 1, prefix 1, caps 9 (heap) and 3 (other), words of 13 values | `TypeOK`, `UsedExact`, `UsageBounded`, `OneZero`, `BlocksOwned`, `GotUnlessRefused`, `LockHeld` |
| `stack_calls` | 2 frames, 2 objects (one wide), a wide zero, methods of 1 local and no operand and of 3 locals and 1 operand, 2 arguments | `TypeOK`, `CountsExact`, `NoDangling`, `BlocksBalance`, `ArgsPlaced` |
| `thread_turns` | 2 users, a table of 2, 3 pieces of memory, `TakeTurns` | `TypeOK`, `TableExact`, `RunningAllocated`; `Balanced`: references to the runnable, and the manager's blocks; `MgrUnused`: nobody has a use for a manager that is freed; `MgrLockHeld` |
| `process` | 2 threads, 3 places, all four builds, 2 ids, `SeededAlone` | `TypeOK` (an id is never 0); `UsedExact`: the total is that of the blocks there are, less what calls have yet to do; `BlocksOwned`; `DrawsDiffer`: no two ids are from the same place |
| `values` | 4 places, a class and one below it, BYTE, SHORT and CHAR of 4 numbers a byte | `TypeOK`; `FieldsTyped`; `ReadsAsPut`: no other field that shares the zero, and no other use of the place, changes what a field shows; `ValuesKept`: a number in the range of its type is read back |

Runs that show a disagreement. Each stops at a violation of one property that the
repository states; `findings` in `PROJECT.json` quotes the line.

| run | violated | what happens |
|---|---|---|
| `lock_race` | `MutualExclusion` | two threads find the lock free, both write their id, each reads its own back: both are inside |
| `heap_leak` | `NoLeak` | two threads unref one object, both find its count at 2 before either locks it: the count is 0 and the object stays |
| `mem_array` | `FailsWithNull` | an array does not fit: its length is written through NULL |
| `thread_intr` | `DeadStaysDead` | two users interrupt a thread that was not started: it is dead, then marked as interrupted, and can never be released |

Further disagreements that were met while modelling and that have no run of
their own: after two overlapping acquisitions the unlock of the thread that lost
its id returns -1 and the lock stays taken; in `NanoVM_unref` an object can be
freed by another thread between the decrement (`memory.c` 300) and the unlock
(301); the caps are tested without zmalloc's prefix and the accounts kept with
it, so that an account passes its cap (by no more than `UsageBounded` says);
`_release_null` keeps the null object's type (`BlocksOwned` counts it as owned by
nobody else); the construction of a frame that refuses an argument keeps the
references of those before it (`lost`); two threads that put the same field without
synchronisation both unref its old value (`UnrefCounted` is violated under `Spec`).

### Bounds, and why they are enough

- Locks. Three threads let one hold, one claim and one wait; depth 2 is the
  smallest that nests, and nothing in the code looks at a greater one.
- Heap. Three objects are an owner, what it holds and what that holds: a cascade
  in a cascade, and cycles of one, two and three. Two slots let an object hold
  another one twice and make a cascade continue after it came back; with two
  threads one slot is enough for the interleavings, as each thread does one
  operation at a time. One local next to the runnable is enough to have two roots.
- Memory. The heap has room for two objects and two zeros, and so for a zero
  made twice if the code did that; three objects fill it. Other memory has room
  for the null object and its type, and one block of a caller's refuses either.
  Each request of `_get_null`, `_get_prm_0` and `_init_object` is refused in some
  behaviour; five places are all that the caps let in at once. Two primitives
  and null are two kinds of one account and one of the other.
- Stack. The methods are chosen at the edge: room for one narrow argument or for
  a wide one that starts at the last local, and room for a wide and another one.
  The one value that is not counted is a wide zero: it differs from the others
  in both respects, while null differs from it in width alone. The proofs are for
  any set of such values.
  `MaxHeld` and `MaxCount` bound the references that the program keeps; counts
  reach 4 in the run.
- Process. Two threads are one that updates the total or draws and one that does
  so in between; three places are the handle table, a block and the one that it
  is moved to, or a line of the log. Ids are below 4, so that 0 and the maximum
  are next to the range; two draws are the least that can be the same.
- Values. Four places are an object, two zeros and a value of its own. Of the
  numbers that are set, -2 fits a BYTE and a SHORT, 5 a SHORT and a CHAR only.
- Threads. A table of two has a first and a last slot; a third piece of memory is
  needed because a thread that is released leaves its slot before its memory.

Symmetry is used in runs without liveness only, and over sets whose members start
alike: threads or users, objects other than `Root`, places, pieces of memory.

`CHECK_DEADLOCK FALSE` is used where the system may stop: every thread of
`NvmHeap` may have released its runnable, managers and stacks are released, a
crash ends the process, and in `NvmValues` the heap may be full of zeros and of
objects that are garbage on a cycle, which nothing frees. `lock_serial`,
`lock_race` and `process` check deadlock: in every state of these, some call can
be made or go on.

### Fairness

`LockFreedom` assumes that a thread inside `util.c` keeps running, and nothing of
callers: a thread that holds the lock may keep it. It says that somebody is in,
not who: the spin does not queue, and a waiting thread may starve. `Returns`
assumes that a thread in a call keeps running. Neither needs strong fairness.

## 5. The proofs

All theorems are about any sets of threads, places and objects that the modules'
assumptions allow, and about any bounds.

| theorem | statement |
|---|---|
| `LockTypeOK`, `LockExcludes`, `LockCountsDepth`, `LockIsGivenBack` | `DistinctTids => (SerialSpec => []TypeOK)`, and the same for `MutualExclusion`, `CountIsDepth`, `FreeWhenUnused` |
| `LockRefines` | `DistinctTids => (SerialSpec => AbstractSpec)` |
| `HeapTypeOK`, `HeapNoHoldAndWait` | `Spec => []TypeOK`, `Spec => []NoHoldAndWait`, without `FieldsExclusive`: races on fields included |
| `HeapCountsExact`, `HeapNoDangling`, `HeapUnrefCounted` | `SyncSpec => []...`: any threads, any heap, cascades of any depth |
| `HeapRefines` | `SyncSpec => AbstractSpec` |
| `HeapNoLeakAlone`, `HeapGarbageFreed` | `Spec => []NoLeak` and `Spec => []GarbageFreed` if there is one thread: with two, `heap_leak` |
| `MemTypeOK`, `MemUsageBounded`, `MemOneZero`, `MemGotUnlessRefused`, `MemLockHeld`, `MemBlocksOwned`, `MemUsedExact` | `Spec => []...` of the properties of these names |
| `StackTypeOK`, `StackBlocksBalance`, `StackArgsPlaced`, `StackCountsExact`, `StackNoDangling` | `Spec => []...`: every error path, any methods, any number of frames and arguments |
| `ThreadTypeOK`, `ThreadMgrLockHeld` | `Spec => []...`: any users, taking turns or not |
| `ThreadTableExact`, `ThreadRunningAllocated`, `ThreadBalanced`, `ThreadMgrUnused` | `TurnsSpec => []...` |
| `ProcessTypeOK`, `ProcessNoLostUpdate`, `ProcessBlocksOwned`, `ProcessUsedExact` | `Spec => []...`: any threads, every build; `NoLostUpdate` says that the total a thread has read is still the total when it writes the sum |
| `ProcessDrawsDiffer` | `SyncSpec => []DrawsDiffer` |
| `ValuesTypeOK`, `ValuesReadsAsPut`, `ValuesFieldsTyped`, `ValuesAreKept` | `Spec => []...`: any classes, fields, types and numbers |

Every invariant that a passing run checks is proved. `heap_shared` and
`heap_single` checked the invariants of the heap before they were proved (`RInv`
and `Sole` hold there), and the instance of `stack_calls` those of the stack.

`NvmLockProofs`. The two ints alone do not say who is inside. The inductive
invariant adds, for each step of a thread, what the lock word is there: a thread
past `take` finds its own id, and while it is in its own code and holds the lock
the count is its depth. `OneClaimant` is what makes the step from the test to the
write keep it, and it is used nowhere else. The abstract steps are `IncStore`
(`Acquire`), `DecStore` when the count stays positive and `Clear` (`Release`);
every other step stutters.

`NvmHeapProofs`. `NoHoldAndWait` needs to know that a thread which unlocks is
looking at the object that it locked: the invariant ties each step of a thread to
the shape of its stack of activations (only the innermost runs, all the others
wait in `free` at a slot) and of its job.

`NvmHeapRefsProofs`. `CountsExact` is about the moments when no call runs and is
not inductive: in between, an assignment has written a slot and not ref'd the
value, or has ref'd it and not dropped the old one, and a cascade is in the middle
of an object. So every counted reference gets a holder at every step: a root
(`RootHas`), a slot that nobody is at work on (`SlotHas`), or the hand of a thread
between the two halves of an assignment (`HandHas`). `Held(o)` is the number of
holders of `o`, and a step moves a reference from one holder to another, or adds
or drops one together with the count; a handful of lemmas (`SlotToHand`,
`RootToHand`, `RefToHand`, `HandDrops`, `LastInHand` and so on) say what each of
these does to the counts, and each action is one of them. The inductive
invariant `RInv` has `Counted` (the count of an object that stays is `Held`),
`Valid` (a holder has nothing that is being freed or gone), `Once` (activations
free different objects), `VarOK` (a pointer that is not stored yet is to a new
object that nobody else knows, or to one that a root of the thread or a field
that it is at work on keeps), and what the step of a call says of its job and
activations. `FieldsExclusive` is needed by `VarOK` and by the slots: who read
a field finds it as it was.

`HeapNoDangling`, `HeapUnrefCounted` and `HeapCountsExact` follow from `RInv`. For
`HeapRefines`, `UnrefLast` is `Free` (all holders but the hand of the thread are
ruled out, because the count was 1), `AllocHeap` is `Alloc`, `GetLocal` and
`GetField` are `Load`, `StoreField` is `Put`, the step that unrefs the old value of
a local is `Keep`, the end of a call is `Drop`, and all the others stutter.

That what the unlocked tests of `NanoVM_unref` found is still so when it is used is
no part of `Spec`: another thread may have changed the count. `RInv` has that a
thread which found the count at 1 is the only holder (`Alone`), so that nobody
else could.

`HeapGarbageFreed` has two halves. With one thread a count is 0 only while the
object is new, because nothing comes between the test and the decrement (`Sole`).
And counts that are 0 for new objects alone leave only cycles (`NoLeakFrees`):
an object that no root leads to is then in a slot of another such object, which
leads to it and to more. Among finitely many there is one that leads to the most:
it is in a slot of none of them, unless slots lead from it back to itself.

`NvmMemMgrProofs`. `OneZero` rests on `Unmade`: a thread between its locked test
and the publication holds the lock, and so the kind that it found unmade stays
unmade. The unlocked test and the unlocked read after are then right for the
reason that a singleton, once made, stays until the manager is released, which
waits until no thread is in a call (`Idle`). `UsageBounded` is inductive with the
types alone. `BlocksOwned` is proved place by place (`Owned`), together with
`TypeMade` (the null object's type is there only with the null object or with the
thread that makes it), `NoObj` and `ZeroBlocks`. `UsedExact` adds that the
bytes of an account are finitely many: a block that comes or goes adds or takes the
bytes of a place that had none, or that nobody else has.

`NvmStackProofs`. `BlocksBalance` and `ArgsPlaced` are not about objects' counts,
and the invariant `IInv` leaves these out: `Shapes` types the frames and the one that is
being made, `Stage` ties the step to what was got for it, and `AtNext` and
`NextInArgs` say where the next argument goes. The index of an argument is one
more than the cardinality of a set of those before it; lemmas show how that set
grows with each.
`CountsExact` and `NoDangling` rest on `RInv`: `Counts` (the count of an object,
live or not, is what the frames, the frame that is made, the program and `lost`
have of it), `Live` (an object is allocated if its count is positive or it was
just made), `HandNew`, and `ArgsLive` (the arguments that are still to be stored
are not freed by the call that takes them off the operands). The lemmas
`RefEffect`, `UnrefEffect` and `UnrefAllEffect` say what the calls of `NanoVM_ref`
and `NanoVM_unref` do to counts and to what is live. `TypeOK` needs `Fits`:
no frame and no operand past its capacity.

`NvmThreadProofs`. Two invariants. `AInv` (`TypeOK`, `ArgsSet`, `MgrLockHeld`, and
`MgrPhase`: one user makes the manager, and only a manager that was made is used)
holds for any users. `TInv` adds, under `TakeTurns`: `Listed` (what the table lists, and
at which index), `Phases` (what each step of a user implies for the thread it
works on), `Runs` (a running thread is allocated, and nobody is about to free
it), `Refs`, `MgrEmpty` (the table is empty before the manager is made and after
it is freed) and `MgrMade` (it has its blocks, and is there for whoever creates a
thread or scans the table). `TakeTurns` is itself a conjunct: each step of one
user leaves the `Phases` of the others alone because they work on other threads.

`NvmProcessProofs`. `NoLostUpdate` rests on `MutexHeld`: who has read the total to
add to it holds the mutex, and in the other builds nobody reads it; `HasBlock`
says that a call that still has an update to make has its block. `DrawsDiffer`
rests on `SeedInv`: under `SeededAlone` the stream is seeded once, before the
first draw, and every draw so far is from an earlier place of it. `BlocksOwned`
rests on `PInv`, which says who has each block at each step (`CallsOwn`,
`TableOwned`, `TakenOwned`) and what a call has yet to tell the total (`LeftKnown`:
the updates of `zmalloc`, `zfree` and the two of `zrealloc`). `UsedExact` rests on
`CInv` on top of it: there is a number of bytes for each block, the block's own
or the `Part` of the call that has it, and the total is their union's cardinality.

`NvmValuesProofs`. `ReadsAsPut` rests on five parts: `ZerosShared` (a zero is
allocated, is 0 and is nobody's to set), `FieldsAlive` and `HeldAlive` (what a
field or the program refers to is not a free place), `MakingTyped` and `Cleared`
(the object that is made has only fields that were set since, whatever its place
held before). `FieldsTyped` is not inductive while an object is made:
`FieldsFit` exempts the fields that are `Pending`, those left of the class that
`_init_object` is at and those of the classes above it, and needs `Above` only as
a least closed set. `ValuesKept` is `ReadBack` of every value: what remains of
a number modulo the size of its type reads as the number, if it was in the range.

Only model-checked: liveness (`LockFreedom`, `Returns`), which is out of the
prover's reach. That a loop over a sequence does what `UnrefAll` says is checked
for sequences up to four (`UnrefAllInOrder`): what a fold computes for every
sequence would need induction over data. The properties of the runs that expect a
violation are false and have no theorem, but for `NoLeak` with one thread.

## 6. Not modelled

- The text of log lines and `NanoVM_strerror`; of `NanoVM_write_log` the block is
  modelled.
- `NanoVM_get_mem_usage` and its like: they read one field.
- Of `zmalloc.c`: what reads `/proc` or the allocator's statistics, the variants for
  defragmentation, the handler for short memory (never set: the process aborts).
- What `rand()` returns: that numbers of different places differ is the C
  library's. `DistinctTids` says what the lock needs of them.
- That two living threads have different ids: `thread.c` does not compare them.
- The stubs: `code.c`, `native.c`, `nanovm.c`, `main.c`, `NanoVM_frame_start`
  and the instruction handles of `stack.c`, `NanoVM_start_thread`.
- Weak memory: each module takes accesses to shared memory to be sequentially
  consistent. The plain ints of `nvm_lock_t` are a data race in C; a weaker
  memory adds behaviours to `lock_race` and does not repair it.

## 7. Plan

Done, in this order, the most important first: the lock, which all the others
rely on; reference counting; the memory manager; the stack; threads; the abstract
heap and that `NvmHeap` implements it; widths of the accounts; primitive values
and the initialisation of objects; what the VMs of a process share, with the ids;
proofs of every invariant that the passing runs check and of both refinements.

To do:

1. Composition: the critical sections of `NvmMemMgr` and `NvmThread` over the
   steps of `NvmLock`, to find which properties survive an overlapping
   acquisition; the stack of a thread with the release of that thread.
2. Proofs: what `ManagedHeap` promises by itself (nothing in reach is freed), and
   through `HeapRefines` of `NvmHeap`; that `NvmStack`'s use of counts implements
   a heap of that kind.
3. The interpreter, the class loader and the start of the VM, once they are
   written.
