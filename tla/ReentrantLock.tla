--------------------------- MODULE ReentrantLock ---------------------------
(***************************************************************************)
(* What nvm_lock_t promises its callers: a mutual-exclusion lock that the  *)
(* thread holding it may take again.  The state is what the callers can    *)
(* see: how many of its NanoVM_lock calls each thread has not undone yet.  *)
(***************************************************************************)
EXTENDS Naturals

CONSTANT Threads

VARIABLE held   \* held[t]: calls of NanoVM_lock by t not yet undone

Init == held = [t \in Threads |-> 0]

\* NanoVM_lock returns: nobody else may be inside.
Acquire(t) ==
  /\ \A u \in Threads \ {t} : held[u] = 0
  /\ held' = [held EXCEPT ![t] = @ + 1]

\* A NanoVM_unlock that undoes one NanoVM_lock.
Release(t) ==
  /\ held[t] > 0
  /\ held' = [held EXCEPT ![t] = @ - 1]

Next == \E t \in Threads : Acquire(t) \/ Release(t)

Spec == Init /\ [][Next]_held
=============================================================================
