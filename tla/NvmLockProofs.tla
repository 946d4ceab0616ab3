--------------------------- MODULE NvmLockProofs ---------------------------
(***************************************************************************)
(* For any set of threads with distinct ids and any nesting depth, the     *)
(* lock of util.c is a re-entrant mutual-exclusion lock in every schedule  *)
(* in which acquisitions do not overlap between line 20 and line 21.       *)
(***************************************************************************)
EXTENDS NvmLock, TLAPS

\* t is past the write that takes the lock and before the write that frees it.
Owns(t) == held[t] > 0 \/ pc[t] \in {"recheck", "incLoad", "incStore"}

\* The counters stay natural numbers when the lock works.
CountersOK ==
  /\ cnt \in Nat
  /\ reg \in [Threads -> Nat]
  /\ held \in [Threads -> Nat]

\* Owning the lock and having one's id in it are the same thing.
OwnerInv ==
  /\ \A t \in Threads : Owns(t) => tid = Tid[t]
  /\ tid # 0 => \E t \in Threads : Owns(t)
  /\ tid = 0 => cnt = 0

\* What is known of thread t from the step it is about to take.
StepInv(t) ==
  /\ pc[t] = "take" => tid = 0
  /\ pc[t] \in {"vacant", "take"} => held[t] = 0
  /\ pc[t] \in {"mine", "decLoad", "decStore", "clear"} => held[t] > 0
  /\ pc[t] \in {"incStore", "decStore"} => reg[t] = cnt
  /\ Owns(t) /\ pc[t] # "clear" => cnt = held[t]
  /\ pc[t] = "clear" => cnt = 0 /\ held[t] = 1

IInv ==
  /\ TypeOK
  /\ CountersOK
  /\ OneClaimant
  /\ OwnerInv
  /\ \A t \in Threads : StepInv(t)

-----------------------------------------------------------------------------
LEMMA InitIInv == Init => IInv
  BY TidAssumption
  DEF Init, IInv, TypeOK, CountersOK, OneClaimant, OwnerInv, StepInv, Owns

LEMMA NextIInv ==
  ASSUME DistinctTids, IInv, [SerialNext]_vars
  PROVE  IInv'
<1> USE TidAssumption
    DEF DistinctTids, IInv, TypeOK, CountersOK, OneClaimant, OwnerInv, StepInv,
        Owns, Goto
<1>1. CASE UNCHANGED vars
  BY <1>1 DEF vars
<1>2. ASSUME NEW t \in Threads, Lock(t), OneClaimant'
      PROVE  IInv'
  BY <1>2 DEF Lock
<1>3. ASSUME NEW t \in Threads, TestOwn(t), OneClaimant'
      PROVE  IInv'
  BY <1>3 DEF TestOwn
<1>4. ASSUME NEW t \in Threads, TestVacant(t), OneClaimant'
      PROVE  IInv'
  BY <1>4 DEF TestVacant
<1>5. ASSUME NEW t \in Threads, Take(t), OneClaimant'
      PROVE  IInv'
  BY <1>5 DEF Take
<1>6. ASSUME NEW t \in Threads, Recheck(t), OneClaimant'
      PROVE  IInv'
  BY <1>6 DEF Recheck
<1>7. ASSUME NEW t \in Threads, IncLoad(t), OneClaimant'
      PROVE  IInv'
  BY <1>7 DEF IncLoad
<1>8. ASSUME NEW t \in Threads, IncStore(t), OneClaimant'
      PROVE  IInv'
  BY <1>8 DEF IncStore
<1>9. ASSUME NEW t \in Threads, Unlock(t), OneClaimant'
      PROVE  IInv'
  BY <1>9 DEF Unlock
<1>10. ASSUME NEW t \in Threads, TestMine(t), OneClaimant'
       PROVE  IInv'
  BY <1>10 DEF TestMine
<1>11. ASSUME NEW t \in Threads, DecLoad(t), OneClaimant'
       PROVE  IInv'
  BY <1>11 DEF DecLoad
<1>12. ASSUME NEW t \in Threads, DecStore(t), OneClaimant'
       PROVE  IInv'
  BY <1>12 DEF DecStore
<1>13. ASSUME NEW t \in Threads, Clear(t), OneClaimant'
       PROVE  IInv'
  BY <1>13 DEF Clear
<1> QED
  BY <1>1, <1>2, <1>3, <1>4, <1>5, <1>6, <1>7, <1>8, <1>9, <1>10, <1>11,
     <1>12, <1>13 DEF SerialNext, Next, Step

LEMMA AlwaysIInv == DistinctTids => (SerialSpec => []IInv)
<1> SUFFICES ASSUME DistinctTids
             PROVE  SerialSpec => []IInv
  OBVIOUS
<1>1. IInv /\ [SerialNext]_vars => IInv'
  BY NextIInv
<1> QED
  BY InitIInv, <1>1, PTL DEF SerialSpec

-----------------------------------------------------------------------------
\* The lock word and the threads' views of it stay within their types, with
\* any number of threads and any nesting depth.
THEOREM LockTypeOK == DistinctTids => (SerialSpec => []TypeOK)
<1>1. IInv => TypeOK
  BY DEF IInv
<1> QED
  BY AlwaysIInv, <1>1, PTL

\* NanoVM_lock excludes: two threads are never both between a NanoVM_lock
\* that returned and the NanoVM_unlock that undoes it.
THEOREM LockExcludes == DistinctTids => (SerialSpec => []MutualExclusion)
<1> SUFFICES ASSUME DistinctTids
             PROVE  SerialSpec => []MutualExclusion
  OBVIOUS
<1>1. IInv => MutualExclusion
  BY DEF DistinctTids, IInv, OwnerInv, Owns, MutualExclusion
<1> QED
  BY AlwaysIInv, <1>1, PTL

\* The count of the lock word is the nesting depth of the thread that holds
\* it, so that NanoVM_unlock frees the lock at the outermost level only.
THEOREM LockCountsDepth == DistinctTids => (SerialSpec => []CountIsDepth)
<1>1. IInv => CountIsDepth
  BY DEF IInv, OwnerInv, StepInv, Owns, CountIsDepth
<1> QED
  BY AlwaysIInv, <1>1, PTL

\* A lock nobody uses is as NanoVM_init_lock left it: it can be taken again.
THEOREM LockIsGivenBack == DistinctTids => (SerialSpec => []FreeWhenUnused)
<1>1. IInv => FreeWhenUnused
  BY DEF IInv, OwnerInv, Owns, FreeWhenUnused
<1> QED
  BY AlwaysIInv, <1>1, PTL

-----------------------------------------------------------------------------
\* A thread whose step changes what its caller holds acquires or releases.
LEMMA StepRefines ==
  ASSUME DistinctTids, IInv, [SerialNext]_vars
  PROVE  [Abstract!Next]_held
<1> USE TidAssumption
    DEF DistinctTids, IInv, TypeOK, CountersOK, OwnerInv, StepInv, Owns, Goto,
        Abstract!Next, Abstract!Acquire, Abstract!Release
<1>1. ASSUME NEW t \in Threads, IncStore(t)
      PROVE  Abstract!Acquire(t)
  BY <1>1 DEF IncStore
<1>2. ASSUME NEW t \in Threads, DecStore(t)
      PROVE  Abstract!Release(t) \/ UNCHANGED held
  BY <1>2 DEF DecStore
<1>3. ASSUME NEW t \in Threads, Clear(t)
      PROVE  Abstract!Release(t)
  BY <1>3 DEF Clear
<1>4. ASSUME NEW t \in Threads, TestMine(t)
      PROVE  UNCHANGED held
  BY <1>4 DEF TestMine
<1> QED
  BY <1>1, <1>2, <1>3, <1>4
  DEF SerialNext, Next, Step, vars, Lock, Unlock, TestOwn, TestVacant, Take,
      Recheck, IncLoad, DecLoad

\* The two ints of nvm_lock_t implement the re-entrant lock that their
\* callers rely on: every call that returns is an Acquire or a Release.
THEOREM LockRefines == DistinctTids => (SerialSpec => AbstractSpec)
<1> SUFFICES ASSUME DistinctTids
             PROVE  SerialSpec => AbstractSpec
  OBVIOUS
<1>1. Init => Abstract!Init
  BY DEF Init, Abstract!Init
<1>2. IInv /\ [SerialNext]_vars => [Abstract!Next]_held
  BY StepRefines
<1> QED
  BY AlwaysIInv, <1>1, <1>2, PTL DEF SerialSpec, AbstractSpec, Abstract!Spec
=============================================================================
