------------------------------ MODULE NvmLock ------------------------------
(***************************************************************************)
(* nvm_lock_t (src/src/util.c): a spin lock made of two plain ints, the    *)
(* holder's VM thread id and a nesting count.  Every read and every write  *)
(* of the two ints is a step of its own, so that threads interleave        *)
(* between them as they do in the build; memory is sequentially            *)
(* consistent, and a weaker one only adds behaviours.                      *)
(*                                                                         *)
(* A thread's counter `pc' says what it does next:                         *)
(*   "caller"             it runs code outside util.c                      *)
(*   "own" "vacant" "take" "recheck"           inside NanoVM_try_lock      *)
(*   "incLoad" "incStore"                      ++lock->cnt                 *)
(*   "mine" "decLoad" "decStore" "clear"       inside NanoVM_unlock        *)
(***************************************************************************)
EXTENDS Integers

CONSTANTS
  Threads,    \* the operating system's threads that share the lock
  Tid,        \* Tid[t]: the ctx->tid that thread t passes
  MaxDepth    \* bound: NanoVM_lock calls one thread nests

ASSUME TidAssumption == Tid \in [Threads -> Nat \ {0}]
ASSUME DepthAssumption == MaxDepth \in Nat \ {0}

VARIABLES
  tid,    \* lock->tid, 0 when the lock is free
  cnt,    \* lock->cnt
  pc,     \* pc[t]: the next step of thread t
  reg,    \* reg[t]: the value of lock->cnt that t loaded
  held    \* held[t]: the caller's view, lock calls not yet undone

vars == <<tid, cnt, pc, reg, held>>

Goto(t, from, to) ==
  /\ pc[t] = from
  /\ pc' = [pc EXCEPT ![t] = to]

\* NanoVM_init_lock; every thread is in its own code.
Init ==
  /\ tid = 0
  /\ cnt = 0
  /\ pc = [t \in Threads |-> "caller"]
  /\ reg = [t \in Threads |-> 0]
  /\ held = [t \in Threads |-> 0]

-----------------------------------------------------------------------------
(* NanoVM_lock: NanoVM_try_lock until it returns 0 *)

Lock(t) ==
  /\ held[t] < MaxDepth
  /\ Goto(t, "caller", "own")
  /\ UNCHANGED <<tid, cnt, reg, held>>

\* if (lock->tid == tid): the calling thread holds the lock already.
TestOwn(t) ==
  /\ Goto(t, "own", IF tid = Tid[t] THEN "incLoad" ELSE "vacant")
  /\ UNCHANGED <<tid, cnt, reg, held>>

\* Mutant: the lock is taken whoever holds it.
TestVacantIgnored(t) ==
  /\ Goto(t, "vacant", "take")
  /\ UNCHANGED <<tid, cnt, reg, held>>

\* if (!lock->tid); otherwise return -1, and NanoVM_lock tries again.
TestVacant(t) ==
  /\ Goto(t, "vacant", IF tid = 0 THEN "take" ELSE "own")
  /\ UNCHANGED <<tid, cnt, reg, held>>

\* Mutant: the id is the operating system's, and not the VM's.
TakeSystemId(t) ==
  /\ Goto(t, "take", "recheck")
  /\ tid' = t
  /\ UNCHANGED <<cnt, reg, held>>

\* lock->tid = tid
Take(t) ==
  /\ Goto(t, "take", "recheck")
  /\ tid' = Tid[t]
  /\ UNCHANGED <<cnt, reg, held>>

\* if (lock->tid == tid) after the write; otherwise return -1.
Recheck(t) ==
  /\ Goto(t, "recheck", IF tid = Tid[t] THEN "incLoad" ELSE "own")
  /\ UNCHANGED <<tid, cnt, reg, held>>

\* ++lock->cnt is a load and a store; then NanoVM_lock returns.
IncLoad(t) ==
  /\ Goto(t, "incLoad", "incStore")
  /\ reg' = [reg EXCEPT ![t] = cnt]
  /\ UNCHANGED <<tid, cnt, held>>

\* Mutant: the count is reset by a nested call.
IncStoreReset(t) ==
  /\ Goto(t, "incStore", "caller")
  /\ cnt' = 1
  /\ held' = [held EXCEPT ![t] = @ + 1]
  /\ UNCHANGED <<tid, reg>>

IncStore(t) ==
  /\ Goto(t, "incStore", "caller")
  /\ cnt' = reg[t] + 1
  /\ held' = [held EXCEPT ![t] = @ + 1]
  /\ UNCHANGED <<tid, reg>>

-----------------------------------------------------------------------------
(* NanoVM_unlock *)

Unlock(t) ==
  /\ held[t] > 0
  /\ Goto(t, "caller", "mine")
  /\ UNCHANGED <<tid, cnt, reg, held>>

\* if (lock->tid != tid) return -1.  Every caller in src/ ignores the result
\* and goes on as if it had let go of the lock.
TestMine(t) ==
  /\ Goto(t, "mine", IF tid = Tid[t] THEN "decLoad" ELSE "caller")
  /\ held' = [held EXCEPT ![t] = IF tid = Tid[t] THEN @ ELSE @ - 1]
  /\ UNCHANGED <<tid, cnt, reg>>

\* --lock->cnt is a load and a store.
DecLoad(t) ==
  /\ Goto(t, "decLoad", "decStore")
  /\ reg' = [reg EXCEPT ![t] = cnt]
  /\ UNCHANGED <<tid, cnt, held>>

\* Mutants: the lock is freed at every level of nesting, or the count is
\* tested before it is decremented.
DecStoreClearing(t) ==
  /\ Goto(t, "decStore", "clear")
  /\ cnt' = reg[t] - 1
  /\ UNCHANGED <<tid, reg, held>>

DecStorePost(t) ==
  /\ Goto(t, "decStore", IF reg[t] = 0 THEN "clear" ELSE "caller")
  /\ cnt' = reg[t] - 1
  /\ held' = [held EXCEPT ![t] = IF reg[t] = 0 THEN @ ELSE @ - 1]
  /\ UNCHANGED <<tid, reg>>

DecStore(t) ==
  /\ Goto(t, "decStore", IF reg[t] = 1 THEN "clear" ELSE "caller")
  /\ cnt' = reg[t] - 1
  /\ held' = [held EXCEPT ![t] = IF reg[t] = 1 THEN @ ELSE @ - 1]
  /\ UNCHANGED <<tid, reg>>

\* The count reached 0: lock->tid = 0.
Clear(t) ==
  /\ Goto(t, "clear", "caller")
  /\ tid' = 0
  /\ held' = [held EXCEPT ![t] = @ - 1]
  /\ UNCHANGED <<cnt, reg>>

-----------------------------------------------------------------------------
\* What a thread does inside util.c, once it has called.
Step(t) ==
  \/ TestOwn(t) \/ TestVacant(t) \/ Take(t) \/ Recheck(t)
  \/ IncLoad(t) \/ IncStore(t)
  \/ TestMine(t) \/ DecLoad(t) \/ DecStore(t) \/ Clear(t)

Next == \E t \in Threads : Lock(t) \/ Unlock(t) \/ Step(t)

Spec == Init /\ [][Next]_vars

(***************************************************************************)
(* The schedules in which no two threads are at once between the test that *)
(* finds the lock free and the write that takes it (lines 20 and 21 of     *)
(* util.c): what an atomic test-and-set would enforce and the code leaves  *)
(* to luck.                                                                *)
(***************************************************************************)
OneClaimant == \A t, u \in Threads : pc[t] = "take" /\ pc[u] = "take" => t = u

SerialNext == Next /\ OneClaimant'

SerialSpec == Init /\ [][SerialNext]_vars

\* A thread that is inside util.c keeps running.  A caller owes nothing: it
\* may stop, or stay outside for ever.
FairSerialSpec ==
  SerialSpec /\ \A t \in Threads : WF_vars(Step(t) /\ OneClaimant')

DistinctTids == \A t, u \in Threads : Tid[t] = Tid[u] => t = u

-----------------------------------------------------------------------------
(* Properties *)

\* Every variable has its type.
TypeOK ==
  /\ tid \in {0} \cup {Tid[t] : t \in Threads}
  /\ cnt \in Int
  /\ pc \in [Threads -> {"caller", "own", "vacant", "take", "recheck",
                        "incLoad", "incStore",
                        "mine", "decLoad", "decStore", "clear"}]
  /\ reg \in [Threads -> Int]
  /\ held \in [Threads -> Int]

\* Two threads are never both between a NanoVM_lock that returned and the
\* NanoVM_unlock that undoes it.
MutualExclusion ==
  \A t, u \in Threads : held[t] > 0 /\ held[u] > 0 => t = u

\* A thread in its own code that holds the lock finds its id and its own
\* nesting depth in the lock word, whatever other threads are doing: the
\* next NanoVM_unlock of the outermost level, and no earlier one, frees it.
CountIsDepth ==
  \A t \in Threads :
    pc[t] = "caller" /\ held[t] > 0 => tid = Tid[t] /\ cnt = held[t]

\* When every lock call has been undone, the lock word is back to what
\* NanoVM_init_lock left there.
FreeWhenUnused ==
  (\A t \in Threads : pc[t] = "caller" /\ held[t] = 0) => tid = 0 /\ cnt = 0

\* Callers see a re-entrant mutual-exclusion lock.
Abstract == INSTANCE ReentrantLock WITH Threads <- Threads, held <- held
AbstractSpec == Abstract!Spec

\* While a thread waits in NanoVM_lock, some thread gets in: the lock never
\* stays out of everybody's reach.  (The spin is not fair: which thread gets
\* in is not said.)
Waiting(t) == pc[t] \in {"own", "vacant", "take", "recheck"}

LockFreedom ==
  (\E t \in Threads : Waiting(t)) ~> (\E t \in Threads : held[t] > 0)
=============================================================================
