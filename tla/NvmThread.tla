----------------------------- MODULE NvmThread -----------------------------
(***************************************************************************)
(* The thread manager, src/src/thread.c: a table of thread_cap slots, and  *)
(* the calls that create, interrupt and release threads.  Creation holds   *)
(* the manager's lock while it looks for a slot and fills it; slots are    *)
(* emptied, and looked at by the release of the manager, without it.       *)
(*                                                                         *)
(* A user is a thread that calls the API.  A step is one access to memory  *)
(* that users share, or one that may fail.  The locks are taken to exclude *)
(* (module NvmLock).                                                       *)
(***************************************************************************)
EXTENDS Integers, FiniteSets

CONSTANTS
  Users,      \* threads that call the API
  Handles,    \* pieces of memory a nvm_thread_t can be in
  Cap,        \* mgr->thread_cap
  Starts,     \* whether threads are started (NanoVM_start_thread is a stub)
  None        \* NULL, and the holder of a free lock

ASSUME CapAssumption == Cap \in Nat \ {0}
ASSUME StartsAssumption == Starts \in BOOLEAN
ASSUME NoneAssumption == None \notin Users \cup Handles

VARIABLES
  mgr,      \* ctx->vm->thread_mgr: none yet, in the making, ready or freed
  mgrBlocks, \* blocks allocated for the manager and its table
  slot,     \* slot[i]: mgr->threads[i]
  mlock,    \* the user holding mgr->lock, or None
  alive,    \* handles that are allocated
  shared,   \* handles that NanoVM_create_thread returned
  idx,      \* idx[h]: thread->idx
  state,    \* state[h]: thread->state
  tlock,    \* tlock[h]: the user holding thread->lock, or None
  running,  \* handles whose pthread runs
  refs,     \* references that threads hold to the runnable
  pc,       \* pc[u]: the next step of u
  arg,      \* arg[u]: the thread that u's call is about, or None
  at        \* at[u]: the slot that u's loop is at

manager == <<mgr, mgrBlocks>>
table == <<manager, slot, mlock>>
memory == <<alive, shared, running, refs>>
fields == <<idx, state, tlock>>
threads == <<memory, fields>>
vars == <<table, threads, pc, arg, at>>

SlotIds == 0 .. Cap - 1
States == {"INIT", "RUN", "INTR", "DEAD"}

\* No manager and no thread was created yet.
Init ==
  /\ mgr = "none" /\ mgrBlocks = 0
  /\ slot = [i \in SlotIds |-> None] /\ mlock = None
  /\ alive = {} /\ shared = {} /\ running = {} /\ refs = 0
  /\ idx = [h \in Handles |-> 0]
  /\ state = [h \in Handles |-> "INIT"]
  /\ tlock = [h \in Handles |-> None]
  /\ pc = [u \in Users |-> "caller"]
  /\ arg = [u \in Users |-> None]
  /\ at = [u \in Users |-> 0]

Goto(u, from, to) == pc[u] = from /\ pc' = [pc EXCEPT ![u] = to]

\* A call about thread h; a call that returns has no argument any more.
Call(u, h, to) ==
  /\ h \in shared /\ Goto(u, "caller", to)
  /\ arg' = [arg EXCEPT ![u] = h]
  /\ UNCHANGED <<table, threads, at>>

Return(u) ==
  /\ pc' = [pc EXCEPT ![u] = "caller"]
  /\ arg' = [arg EXCEPT ![u] = None]

-----------------------------------------------------------------------------
(* NanoVM_create_thread_mgr: one thread makes the manager, and nobody has  *)
(* it until it is stored in the VM.                                        *)

CallCreateMgr(u) ==
  /\ mgr = "none" /\ Goto(u, "caller", "allocMgr")
  /\ mgr' = "making"
  /\ UNCHANGED <<mgrBlocks, slot, mlock, threads, arg, at>>

AllocMgr(u) ==
  /\ Goto(u, "allocMgr", "initMgr")
  /\ mgrBlocks' = mgrBlocks + 1
  /\ UNCHANGED <<mgr, slot, mlock, threads, arg, at>>

InitMgrLock(u) ==
  /\ Goto(u, "initMgr", "allocTable")
  /\ mlock' = None
  /\ UNCHANGED <<manager, slot, threads, arg, at>>

\* The table is there and cleared, and the manager is the VM's.
AllocTable(u) ==
  /\ pc[u] = "allocTable" /\ Return(u)
  /\ mgrBlocks' = mgrBlocks + 1
  /\ slot' = [i \in SlotIds |-> None]
  /\ mgr' = "ready"
  /\ UNCHANGED <<mlock, threads, at>>

Making(u) == pc[u] \in {"allocMgr", "initMgr", "allocTable"}

\* One of the three fails: what there is goes back.
MgrFails(u) ==
  /\ Making(u) /\ Return(u)
  /\ mgrBlocks' = IF pc[u] = "allocMgr" THEN mgrBlocks ELSE mgrBlocks - 1
  /\ mgr' = "none"
  /\ UNCHANGED <<slot, mlock, threads, at>>

-----------------------------------------------------------------------------
(* NanoVM_create_thread *)

CallCreate(u) ==
  /\ mgr = "ready" /\ Goto(u, "caller", "lockMgr")
  /\ UNCHANGED <<table, threads, arg, at>>

EnterMgr(u) ==
  /\ Goto(u, "lockMgr", "scan")
  /\ mlock' = u /\ at' = [at EXCEPT ![u] = 0]
  /\ UNCHANGED <<manager, slot, threads, arg>>

\* Mutant: creation does not wait for the manager's lock.
LockMgrIgnored(u) == EnterMgr(u)

LockMgr(u) == mlock = None /\ EnterMgr(u)

\* The first slot that is seen empty is taken.
ScanEmpty(u) ==
  /\ at[u] < Cap /\ slot[at[u]] = None /\ Goto(u, "scan", "reserve")
  /\ UNCHANGED <<table, threads, arg, at>>

ScanUsed(u) ==
  /\ pc[u] = "scan" /\ at[u] < Cap /\ slot[at[u]] # None
  /\ at' = [at EXCEPT ![u] = @ + 1]
  /\ UNCHANGED <<table, threads, pc, arg>>

\* Mutant: the error path keeps the lock.
TooManyLocked(u) ==
  /\ pc[u] = "scan" /\ at[u] = Cap /\ Return(u)
  /\ UNCHANGED <<table, threads, at>>

\* "too many threads"
TooMany(u) ==
  /\ pc[u] = "scan" /\ at[u] = Cap /\ Return(u)
  /\ mlock' = None
  /\ UNCHANGED <<manager, slot, threads, at>>

Reserve(u) ==
  /\ Goto(u, "reserve", "build")
  /\ \E h \in Handles \ alive :
       /\ alive' = alive \cup {h}
       /\ slot' = [slot EXCEPT ![at[u]] = h]
       /\ arg' = [arg EXCEPT ![u] = h]
  /\ mlock' = None
  /\ UNCHANGED <<manager, shared, running, refs, fields, at>>

\* NanoVM_alloc fails: "allocate thread failed".
ReserveFails(u) ==
  /\ pc[u] = "reserve" /\ Return(u)
  /\ mlock' = None
  /\ UNCHANGED <<manager, slot, threads, at>>

Filled(u, h, i) ==
  /\ pc[u] = "build" /\ Return(u)
  /\ idx' = [idx EXCEPT ![h] = i]
  /\ state' = [state EXCEPT ![h] = "INIT"]
  /\ tlock' = [tlock EXCEPT ![h] = None]
  /\ refs' = refs + 1 /\ shared' = shared \cup {h}
  /\ UNCHANGED <<table, alive, running, at>>

\* Mutant: the slots are numbered from 1.
BuildOffByOne(u) == Filled(u, arg[u], at[u] + 1)

\* The thread is filled in, outside the lock, and returned.
Build(u) == Filled(u, arg[u], at[u])

\* NanoVM_create_stack fails: finalize.
BuildFails(u) ==
  /\ pc[u] = "build" /\ Return(u)
  /\ slot' = [slot EXCEPT ![at[u]] = None]
  /\ alive' = alive \ {arg[u]}
  /\ UNCHANGED <<manager, mlock, shared, running, refs, fields, at>>

-----------------------------------------------------------------------------
(* What NanoVM_start_thread is to do, and the pthread it is to start: the  *)
(* states of thread.h are all that src/ says of them.                      *)

CallStart(u, h) == Starts /\ Call(u, h, "start")

Start(u) ==
  LET h == arg[u] IN
  /\ pc[u] = "start" /\ Return(u)
  /\ IF state[h] = "INIT"
     THEN state' = [state EXCEPT ![h] = "RUN"] /\ running' = running \cup {h}
     ELSE UNCHANGED <<state, running>>
  /\ UNCHANGED <<table, alive, shared, idx, tlock, refs, at>>

End(h) ==
  /\ h \in running /\ running' = running \ {h}
  /\ state' = [state EXCEPT ![h] = "DEAD"]
  /\ UNCHANGED <<table, alive, shared, idx, tlock, refs, pc, arg, at>>

-----------------------------------------------------------------------------
(* NanoVM_intr_thread *)

CallIntr(u, h) == Call(u, h, "isDead")

\* What u does next depends on the state of its thread.
Test(u, from, S, to) ==
  /\ pc[u] = from
  /\ IF state[arg[u]] \in S THEN Return(u)
                            ELSE Goto(u, from, to) /\ UNCHANGED arg
  /\ UNCHANGED <<table, threads, at>>

IsDead(u) == Test(u, "isDead", {"DEAD"}, "isIntr")
IsIntr(u) == Test(u, "isIntr", {"INTR"}, "lockThread")

LockThread(u) ==
  /\ Goto(u, "lockThread", "isInit") /\ tlock[arg[u]] = None
  /\ tlock' = [tlock EXCEPT ![arg[u]] = u]
  /\ UNCHANGED <<table, memory, idx, state, arg, at>>

\* Only INIT is looked for again, under the lock.
IsInit(u) ==
  /\ Goto(u, "isInit", IF state[arg[u]] = "INIT" THEN "setDead" ELSE "setIntr")
  /\ UNCHANGED <<table, threads, arg, at>>

\* The state is written, the lock given back.
SetState(u) ==
  LET h == arg[u] IN
  /\ pc[u] \in {"setDead", "setIntr"} /\ Return(u)
  /\ state' = [state EXCEPT ![h] = IF pc[u] = "setDead" THEN "DEAD" ELSE "INTR"]
  /\ tlock' = [tlock EXCEPT ![h] = None]
  /\ UNCHANGED <<table, memory, idx, at>>

-----------------------------------------------------------------------------
(* NanoVM_release_thread *)

CallRelease(u, h) == Call(u, h, "notDead")

\* thread->state != DEAD && thread->state != INIT: two reads, without the lock.
NotDead(u) ==
  /\ Goto(u, "notDead", IF state[arg[u]] = "DEAD" THEN "clear" ELSE "notInit")
  /\ UNCHANGED <<table, threads, arg, at>>

\* Mutant: only the state RUN is refused.
NotInitIntr(u) == Test(u, "notInit", {"RUN"}, "clear")

\* "thread still running"
NotInit(u) == Test(u, "notInit", States \ {"INIT"}, "clear")

\* mgr->threads[thread->idx] = NULL, without the manager's lock.
ClearSlot(u) ==
  /\ Goto(u, "clear", "free")
  /\ slot' = [slot EXCEPT ![idx[arg[u]]] = None]
  /\ UNCHANGED <<manager, mlock, threads, arg, at>>

\* Mutant: the runnable is not unref'd.
FreeThreadOnly(u) ==
  /\ pc[u] = "free" /\ Return(u)
  /\ alive' = alive \ {arg[u]} /\ shared' = shared \ {arg[u]}
  /\ UNCHANGED <<table, fields, running, refs, at>>

\* The stack, the reference to the runnable and the thread go.
FreeThread(u) ==
  /\ pc[u] = "free" /\ Return(u)
  /\ alive' = alive \ {arg[u]} /\ shared' = shared \ {arg[u]}
  /\ refs' = refs - 1
  /\ UNCHANGED <<table, fields, running, at>>

-----------------------------------------------------------------------------
(* NanoVM_release_thread_mgr *)

CallReleaseMgr(u) ==
  /\ mgr = "ready" /\ Goto(u, "caller", "mgrScan")
  /\ at' = [at EXCEPT ![u] = 0]
  /\ UNCHANGED <<table, threads, arg>>

\* A slot in use fails the call; past the last slot the manager goes.
MgrScanTo(u, n) ==
  LET Empty == at[u] < n /\ slot[at[u]] = None IN
  /\ pc[u] = "mgrScan"
  /\ IF Empty THEN UNCHANGED <<pc, arg>> ELSE Return(u)
  /\ at' = IF Empty THEN [at EXCEPT ![u] = @ + 1] ELSE at
  /\ mgr' = IF at[u] < n THEN mgr ELSE "freed"
  /\ mgrBlocks' = IF at[u] < n THEN mgrBlocks ELSE mgrBlocks - 2
  /\ UNCHANGED <<slot, mlock, threads>>

\* Mutant: the last slot is not looked at.
MgrScanShort(u) == MgrScanTo(u, Cap - 1)

MgrScan(u) == MgrScanTo(u, Cap)

-----------------------------------------------------------------------------
\* What a user does once it has called.
Step(u) ==
  \/ AllocMgr(u) \/ InitMgrLock(u) \/ AllocTable(u) \/ MgrFails(u)
  \/ LockMgr(u) \/ ScanEmpty(u) \/ ScanUsed(u) \/ TooMany(u)
  \/ Reserve(u) \/ ReserveFails(u) \/ Build(u) \/ BuildFails(u)
  \/ Start(u)
  \/ IsDead(u) \/ IsIntr(u) \/ LockThread(u) \/ IsInit(u) \/ SetState(u)
  \/ NotDead(u) \/ NotInit(u) \/ ClearSlot(u) \/ FreeThread(u) \/ MgrScan(u)

Calls(u) ==
  \/ CallCreateMgr(u) \/ CallCreate(u) \/ CallReleaseMgr(u)
  \/ \E h \in Handles : CallStart(u, h) \/ CallIntr(u, h) \/ CallRelease(u, h)

Next ==
  \/ \E u \in Users : Calls(u) \/ Step(u)
  \/ \E h \in Handles : End(h)

Spec == Init /\ [][Next]_vars

(***************************************************************************)
(* Users that take turns on each thread, and that neither create threads   *)
(* nor release the manager while one of them releases it.  thread.c leaves *)
(* both to them: the release of the manager takes no lock.                 *)
(***************************************************************************)
Creating(u) == pc[u] \in {"lockMgr", "scan", "reserve", "build"}

TakeTurns ==
  /\ \A u, v \in Users : arg[u] = arg[v] /\ arg[u] # None => u = v
  /\ \A u, v \in Users :
       u # v /\ pc[u] = "mgrScan" => pc[v] # "mgrScan" /\ ~Creating(v)

TurnsNext == Next /\ TakeTurns'

TurnsSpec == Init /\ [][TurnsNext]_vars

-----------------------------------------------------------------------------
(* Properties *)

\* Every variable has its type.
TypeOK ==
  /\ mgr \in {"none", "making", "ready", "freed"}
  /\ mgrBlocks \in Int
  /\ slot \in [SlotIds -> Handles \cup {None}]
  /\ mlock \in Users \cup {None}
  /\ alive \subseteq Handles
  /\ shared \subseteq Handles
  /\ idx \in [Handles -> SlotIds]
  /\ state \in [Handles -> States]
  /\ tlock \in [Handles -> Users \cup {None}]
  /\ running \subseteq Handles
  /\ refs \in Int
  /\ pc \in [Users -> {"caller", "allocMgr", "initMgr", "allocTable", "lockMgr",
                      "scan", "reserve", "build", "start", "isDead", "isIntr",
                      "lockThread", "isInit", "setDead", "setIntr", "notDead",
                      "notInit", "clear", "free", "mgrScan"}]
  /\ arg \in [Users -> Handles \cup {None}]
  /\ at \in [Users -> 0 .. Cap]

\* A thread on its way out: its slot is free for another one already.
Leaving(h) == \E u \in Users : pc[u] = "free" /\ arg[u] = h

\* The table lists the threads there are: a slot holds an allocated thread,
\* and a thread that was returned is in the slot it names, from its creation
\* to its release, whatever other users create and release meanwhile.
TableExact ==
  /\ \A i \in SlotIds : slot[i] # None => slot[i] \in alive
  /\ \A h \in shared : ~Leaving(h) => slot[idx[h]] = h

\* No thread's memory is freed while its pthread runs.
RunningAllocated == running \subseteq alive

\* The blocks of a manager in each state of its life.
MgrNeeds ==
  IF mgr = "ready" THEN 2
  ELSE IF \E u \in Users : pc[u] \in {"initMgr", "allocTable"} THEN 1 ELSE 0

\* On every path through creation and release, the error paths too, the
\* runnable is referred to once by each thread, and the manager's two blocks
\* are there while the VM has it and given back when not.
Balanced == refs = Cardinality(shared) /\ mgrBlocks = MgrNeeds

\* When NanoVM_release_thread_mgr frees the manager, there is no thread it
\* would be needed for, and nobody is about to touch its table or its lock:
\* no user is creating a thread, about to empty the slot of one, or scanning
\* the table for another release.
MgrUnused ==
  mgr = "freed" =>
    /\ \A h \in shared : Leaving(h)
    /\ \A u \in Users : ~Creating(u) /\ pc[u] \notin {"clear", "mgrScan"}

\* One user at a time looks for a slot and fills it, with the manager's lock;
\* every way out of creation gives it back.
MgrLockHeld == \A u \in Users : mlock = u <=> pc[u] \in {"scan", "reserve"}

\* "dead means the thread has finished" (thread.h:14): a dead thread has no
\* other state until its memory is released.
DeadStaysDead ==
  [][\A h \in shared \cap shared' :
       state[h] = "DEAD" => state'[h] = "DEAD"]_vars
=============================================================================
