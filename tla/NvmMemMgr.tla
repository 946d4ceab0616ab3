----------------------------- MODULE NvmMemMgr -----------------------------
(***************************************************************************)
(* The memory manager (src/src/memory.c, src/src/memory.prm.c): the two    *)
(* accounts of used memory with their caps, and the objects that are made  *)
(* once, on first use: the null object and a zero for each primitive type. *)
(*                                                                         *)
(* The singletons are tested without the manager's lock and again with it. *)
(* Everything else is touched with the lock held; a critical section that  *)
(* reads nothing outside is one step.  A thread that holds the lock may    *)
(* enter it again (_get_null calls NanoVM_alloc).  The lock is taken to    *)
(* exclude (module NvmLock says when it does).                             *)
(***************************************************************************)
EXTENDS Integers, FiniteSets

CONSTANTS
  Threads,    \* threads that call the manager
  Places,     \* places that zmalloc can return
  Prims,      \* primitive types
  Null,       \* the null object's kind
  None,       \* NULL
  Cap,        \* Cap[a]: mgr->heap_cap and mgr->mem_cap
  Sizes,      \* sizes that are asked for
  Small,      \* size of the null object, of its type, and of a zero
  Prefix,     \* what zmalloc adds to a block
  WordSize    \* how many values a size_t has

Areas == {"heap", "mem"}
Kinds == Prims \cup {Null}

ASSUME PlacesAssumption == IsFiniteSet(Places)
ASSUME KindsAssumption == IsFiniteSet(Prims) /\ Null \notin Prims
ASSUME NoneAssumption == None \notin Threads \cup Places \cup Kinds
ASSUME CapAssumption == Cap \in [Areas -> Nat]
ASSUME SizesAssumption ==
  Sizes \subseteq Nat /\ Small \in Nat /\ Prefix \in Nat

\* The caps of a configuration are longs (nanovm.h:9) and an array's length
\* an int: a full account and one more block are far from the width, unless the
\* length is negative, which is left out.
ASSUME WordAssumption ==
  /\ WordSize \in Nat \ {0}
  /\ \A a \in Areas, n \in Sizes \cup {Small} : Cap[a] + Prefix + n < WordSize

VARIABLES
  area,      \* area[p]: the account that place p is on, or "free"
  size,      \* size[p]: what was asked for
  used,      \* used[a]: mgr->heap_used and mgr->mem_used
  zero,      \* zero[k]: the singleton of kind k, or None
  nullType,  \* the type of the null object, or None
  mlock,     \* the thread holding mgr->lock, or None
  released,  \* whether NanoVM_release_mem_mgr has been called
  given,     \* blocks that callers were given and have not given back
  default,   \* default[p]: initial values of object p, with their kinds
  pc,        \* pc[t]: the next step of t
  obj,       \* obj[t]: the object that t initialises, or None
  want,      \* want[t]: the kinds of initial value that obj[t] still needs
  kind,      \* kind[t]: the kind that t is getting, or None
  res,       \* res[t]: what the last _get_null or _get_prm_0 of t returned
  oom        \* oom[t]: whether an allocation of t's call was refused

account == <<area, size, used>>
mgr == <<zero, nullType, released>>
blocks == <<given, default>>
call == <<obj, want, kind, res, oom>>
vars == <<account, mgr, mlock, blocks, pc, call>>

Goto(t, from, to) == pc[t] = from /\ pc' = [pc EXCEPT ![t] = to]

\* NanoVM_create_mem_mgr
Init ==
  /\ area = [p \in Places |-> "free"]
  /\ size = [p \in Places |-> 0]
  /\ used = [a \in Areas |-> 0]
  /\ zero = [k \in Kinds |-> None]
  /\ nullType = None
  /\ mlock = None
  /\ released = FALSE
  /\ given = {}
  /\ default = [p \in Places |-> {}]
  /\ pc = [t \in Threads |-> "caller"]
  /\ obj = [t \in Threads |-> None]
  /\ want = [t \in Threads |-> {}]
  /\ kind = [t \in Threads |-> None]
  /\ res = [t \in Threads |-> None]
  /\ oom = [t \in Threads |-> FALSE]

-----------------------------------------------------------------------------
(* The accounts *)

\* zmalloc_size: the build without HAVE_MALLOC_SIZE, that of Linux and libc.
ZmallocSize(n) == n + Prefix

\* Sums of sizes are size_t.
Wrap(x) == x % WordSize

\* Mutant: the account is on the other side, where it may exceed the cap.
FitsRest(a, n) == n <= Wrap(Cap[a] - used[a])

Fits(a, n) == Wrap(used[a] + n) <= Cap[a]

\* zmalloc gives any place that is free; it aborts rather than return NULL.
Take(a, n, p) ==
  /\ area[p] = "free"
  /\ area' = [area EXCEPT ![p] = a]
  /\ size' = [size EXCEPT ![p] = n]
  /\ used' = [used EXCEPT ![a] = Wrap(@ + ZmallocSize(n))]

\* Mutant: the account gets back what was asked for.
PutAsked(p) ==
  /\ used' = [used EXCEPT ![area[p]] = @ - size[p]]
  /\ area' = [area EXCEPT ![p] = "free"]
  /\ UNCHANGED size

\* The difference does not wrap: the block is in the sum (UsedExact).
Put(p) ==
  /\ used' = [used EXCEPT ![area[p]] = @ - ZmallocSize(size[p])]
  /\ area' = [area EXCEPT ![p] = "free"]
  /\ UNCHANGED size

-----------------------------------------------------------------------------
(* What a thread calls *)

Ready(t) == pc[t] = "caller" /\ ~released

\* NanoVM_alloc; when the cap is reached it changes nothing.
Alloc(t) ==
  /\ Ready(t) /\ mlock = None
  /\ \E n \in Sizes, p \in Places :
       /\ Fits("mem", n) /\ Take("mem", n, p)
       /\ given' = given \cup {p}
  /\ UNCHANGED <<mgr, mlock, default, pc, call>>

\* NanoVM_free, and _free_heap of an object whose last reference goes.
Free(t) ==
  /\ Ready(t) /\ mlock = None
  /\ \E p \in given :
       /\ Put(p)
       /\ given' = given \ {p}
       /\ default' = [default EXCEPT ![p] = {}]
  /\ UNCHANGED <<mgr, mlock, pc, call>>

\* Space on the heap; when the cap is reached nothing changes.
Create(t, Defaults) ==
  /\ Ready(t) /\ mlock = None /\ Goto(t, "caller", "init")
  /\ \E n \in Sizes, p \in Places, ks \in Defaults :
       /\ Fits("heap", n) /\ Take("heap", n, p)
       /\ obj' = [obj EXCEPT ![t] = p]
       /\ want' = [want EXCEPT ![t] = ks]
  /\ UNCHANGED <<mgr, mlock, blocks, kind, res, oom>>

\* NanoVM_alloc_heap: fields of some kinds, or a primitive, which has none.
AllocHeap(t) == Create(t, SUBSET Kinds)

\* NanoVM_alloc_heap_arr: all elements begin as the same value ...
AllocHeapArr(t) == Create(t, {{k} : k \in Kinds})

\* ... and ret->len is written whether or not there was space.
AllocHeapArrFails(t) ==
  /\ Ready(t) /\ mlock = None /\ Goto(t, "caller", "crashed")
  /\ \E n \in Sizes : ~Fits("heap", n)
  /\ UNCHANGED <<account, mgr, mlock, blocks, call>>

\* NanoVM_get_null
GetNull(t) ==
  /\ Ready(t) /\ Goto(t, "caller", "get")
  /\ kind' = [kind EXCEPT ![t] = Null]
  /\ UNCHANGED <<account, mgr, mlock, blocks, obj, want, res, oom>>

\* The call returns to the program.
Return(t) ==
  /\ pc' = [pc EXCEPT ![t] = "caller"]
  /\ obj' = [obj EXCEPT ![t] = None]
  /\ want' = [want EXCEPT ![t] = {}]
  /\ kind' = [kind EXCEPT ![t] = None]
  /\ res' = [res EXCEPT ![t] = None]
  /\ oom' = [oom EXCEPT ![t] = FALSE]

-----------------------------------------------------------------------------
(* _init_object, and the body of NanoVM_alloc_heap_arr *)

InitField(t) ==
  /\ Goto(t, "init", "get")
  /\ \E k \in want[t] :
       /\ kind' = [kind EXCEPT ![t] = k]
       /\ want' = [want EXCEPT ![t] = @ \ {k}]
  /\ UNCHANGED <<account, mgr, mlock, blocks, obj, res, oom>>

InitDone(t) ==
  /\ pc[t] = "init" /\ want[t] = {} /\ Return(t)
  /\ given' = given \cup {obj[t]}
  /\ UNCHANGED <<account, mgr, mlock, default>>

SetField(t) ==
  /\ Goto(t, "got", "init")
  /\ obj[t] # None /\ res[t] # None
  /\ default' = [default EXCEPT ![obj[t]] = @ \cup {<<kind[t], res[t]>>}]
  /\ UNCHANGED <<account, mgr, mlock, given, call>>

\* Mutant: the object that could not be initialised is forgotten.
InitFailsLeaking(t) ==
  /\ pc[t] = "got" /\ obj[t] # None /\ res[t] = None /\ Return(t)
  /\ UNCHANGED <<account, mgr, mlock, blocks>>

\* The object goes back to the heap: _free_heap.
InitFails(t) ==
  /\ pc[t] = "got" /\ obj[t] # None /\ res[t] = None /\ Return(t)
  /\ mlock = None /\ Put(obj[t])
  /\ default' = [default EXCEPT ![obj[t]] = {}]
  /\ UNCHANGED <<mgr, mlock, given>>

\* Mutant: the block at hand is given to the caller, as by the other calls.
GotNullGiven(t) ==
  /\ pc[t] = "got" /\ obj[t] = None /\ Return(t)
  /\ given' = given \cup {obj[t]}
  /\ UNCHANGED <<account, mgr, mlock, default>>

GotNull(t) ==
  /\ pc[t] = "got" /\ obj[t] = None /\ Return(t)
  /\ UNCHANGED <<account, mgr, mlock, blocks>>

-----------------------------------------------------------------------------
(* _get_null and _get_prm_0 *)

TestUnlocked(t) ==
  LET z == zero[kind[t]] IN
  /\ Goto(t, "get", IF z # None THEN "got" ELSE "lock")
  /\ res' = [res EXCEPT ![t] = z]
  /\ UNCHANGED <<account, mgr, mlock, blocks, obj, want, kind, oom>>

LockMgr(t) ==
  /\ Goto(t, "lock", "test") /\ mlock = None
  /\ mlock' = t
  /\ UNCHANGED <<account, mgr, blocks, call>>

\* Mutant: the second test is left out.
TestLockedIgnored(t) ==
  /\ Goto(t, "test", IF kind[t] = Null THEN "type" ELSE "value")
  /\ UNCHANGED <<account, mgr, mlock, blocks, call>>

TestLocked(t) ==
  LET z == zero[kind[t]] IN
  /\ Goto(t, "test", CASE z # None -> "read"
                       [] z = None /\ kind[t] = Null -> "type"
                       [] OTHER -> "value")
  /\ mlock' = IF z # None THEN None ELSE mlock
  /\ UNCHANGED <<account, mgr, blocks, call>>

\* The null object's type; NanoVM_alloc enters the lock again.
AllocType(t) ==
  /\ Goto(t, "type", "value") /\ Fits("mem", Small)
  /\ \E p \in Places : Take("mem", Small, p) /\ nullType' = p
  /\ UNCHANGED <<zero, released, mlock, blocks, call>>

\* Mutant: the lock is not given back.
AllocTypeFailsLocked(t) ==
  /\ Goto(t, "type", "got") /\ ~Fits("mem", Small)
  /\ oom' = [oom EXCEPT ![t] = TRUE]
  /\ UNCHANGED <<account, mgr, mlock, blocks, obj, want, kind, res>>

AllocTypeFails(t) ==
  /\ Goto(t, "type", "got") /\ ~Fits("mem", Small)
  /\ mlock' = None
  /\ oom' = [oom EXCEPT ![t] = TRUE]
  /\ UNCHANGED <<account, mgr, blocks, obj, want, kind, res>>

\* The null object is on the account of other memory, a zero on the heap's.
ValueArea(k) == IF k = Null THEN "mem" ELSE "heap"

\* Mutant: the value is returned and not kept.
AllocValueUnkept(t) ==
  /\ Goto(t, "value", "read") /\ Fits(ValueArea(kind[t]), Small)
  /\ \E p \in Places : Take(ValueArea(kind[t]), Small, p)
  /\ mlock' = None
  /\ UNCHANGED <<mgr, blocks, call>>

\* The singleton is made and published, and the lock given back.
AllocValue(t) ==
  /\ Goto(t, "value", "read") /\ Fits(ValueArea(kind[t]), Small)
  /\ \E p \in Places :
       /\ Take(ValueArea(kind[t]), Small, p)
       /\ zero' = [zero EXCEPT ![kind[t]] = p]
  /\ mlock' = None
  /\ UNCHANGED <<nullType, released, blocks, call>>

\* The null object's type goes again, and mgr->_null_val is returned.
AllocNullFails(t) ==
  /\ Goto(t, "value", "read") /\ kind[t] = Null /\ ~Fits("mem", Small)
  /\ Put(nullType) /\ nullType' = None
  /\ mlock' = None
  /\ oom' = [oom EXCEPT ![t] = TRUE]
  /\ UNCHANGED <<zero, released, blocks, obj, want, kind, res>>

AllocZeroFails(t) ==
  /\ Goto(t, "value", "got") /\ kind[t] # Null /\ ~Fits("heap", Small)
  /\ mlock' = None
  /\ oom' = [oom EXCEPT ![t] = TRUE]
  /\ UNCHANGED <<account, mgr, blocks, obj, want, kind, res>>

\* After the unlock, the pointer is read once more.
ReadUnlocked(t) ==
  /\ Goto(t, "read", "got")
  /\ res' = [res EXCEPT ![t] = zero[kind[t]]]
  /\ UNCHANGED <<account, mgr, mlock, blocks, obj, want, kind, oom>>

-----------------------------------------------------------------------------
(* NanoVM_release_mem_mgr *)

Made == {k \in Kinds : zero[k] # None}

\* _release_null and _release_prm_0 give back the singletons that were made;
\* the null object's type stays.
ReleaseMade ==
  LET Total(a) == Cardinality({k \in Made : ValueArea(k) = a})
                    * ZmallocSize(Small)
  IN
  /\ area' = [p \in Places |-> IF \E k \in Made : zero[k] = p THEN "free"
                                                           ELSE area[p]]
  /\ used' = [a \in Areas |-> used[a] - Total(a)]
  /\ zero' = [k \in Kinds |-> None]
  /\ UNCHANGED <<size, nullType>>

\* No thread is in a call when the manager goes.
Release ==
  /\ ~released /\ \A t \in Threads : pc[t] = "caller"
  /\ released' = TRUE
  /\ ReleaseMade
  /\ UNCHANGED <<mlock, blocks, pc, call>>

Call(t) ==
  \/ Alloc(t) \/ Free(t) \/ AllocHeap(t) \/ AllocHeapArr(t)
  \/ AllocHeapArrFails(t) \/ GetNull(t)

Step(t) ==
  \/ InitField(t) \/ InitDone(t) \/ SetField(t) \/ InitFails(t) \/ GotNull(t)
  \/ TestUnlocked(t) \/ LockMgr(t) \/ TestLocked(t)
  \/ AllocType(t) \/ AllocTypeFails(t)
  \/ AllocValue(t) \/ AllocNullFails(t) \/ AllocZeroFails(t) \/ ReadUnlocked(t)

\* A crash ends all the threads of the process.
Running == \A t \in Threads : pc[t] # "crashed"

Next == Running /\ (Release \/ \E t \in Threads : Call(t) \/ Step(t))

Spec == Init /\ [][Next]_vars

-----------------------------------------------------------------------------
(* Properties *)

\* Every variable has its type.
TypeOK ==
  /\ area \in [Places -> Areas \cup {"free"}]
  /\ size \in [Places -> Nat]
  /\ used \in [Areas -> Int]
  /\ zero \in [Kinds -> Places \cup {None}]
  /\ nullType \in Places \cup {None}
  /\ mlock \in Threads \cup {None}
  /\ released \in BOOLEAN
  /\ given \subseteq Places
  /\ default \in [Places -> SUBSET (Kinds \X Places)]
  /\ pc \in [Threads -> {"caller", "crashed", "init", "get", "lock", "test",
                        "type", "value", "read", "got"}]
  /\ obj \in [Threads -> Places \cup {None}]
  /\ want \in [Threads -> SUBSET Kinds]
  /\ kind \in [Threads -> Kinds \cup {None}]
  /\ res \in [Threads -> Places \cup {None}]
  /\ oom \in [Threads -> BOOLEAN]

\* The bytes of the blocks that zmalloc gave for an account.
Bytes(a) ==
  UNION {{p} \X (1 .. ZmallocSize(size[p])) : p \in {q \in Places : area[q] = a}}

\* Each account is the size of its blocks (test.memory.c:56 and :182), on
\* every path through every call.
UsedExact == \A a \in Areas : used[a] = Cardinality(Bytes(a))

\* However many threads allocate, an account passes its cap by no more than
\* what zmalloc adds to one block.
UsageBounded == \A a \in Areas : used[a] <= Cap[a] + Prefix

\* "all null values should be the same" (test.memory.c:148) and "all
\* primitive initial 0 values should be the same" (:159): what _get_null and
\* _get_prm_0 return, and the initial values of all objects, are the one
\* object that _is_null_or_prm_0 knows as uncounted.
OneZero ==
  ~released =>
    /\ \A p \in Places : \A d \in default[p] : d[2] = zero[d[1]]
    /\ \A t \in Threads :
         pc[t] = "got" /\ res[t] # None => res[t] = zero[kind[t]]

\* Every block on an account has an owner that can still free it (or is the
\* null object's type), and no two owners: a singleton, a caller, or the call
\* that is initialising it.  No error path forgets a block or frees it twice.
BlocksOwned ==
  LET Zeros == {zero[k] : k \in Kinds} \ {None}
      Making == {obj[t] : t \in Threads} \ {None}
      Type == {nullType} \ {None}
  IN
  /\ {p \in Places : area[p] # "free"} = given \cup Zeros \cup Making \cup Type
  /\ given \cap (Zeros \cup Making \cup Type) = {}
  /\ Zeros \cap (Making \cup Type) = {} /\ Making \cap Type = {}
  /\ \A k, l \in Kinds : zero[k] = zero[l] /\ zero[k] # None => k = l
  /\ \A t, u \in Threads : obj[t] = obj[u] /\ obj[t] # None => t = u

\* A singleton is NULL only for a caller that was refused memory itself.
GotUnlessRefused ==
  \A t \in Threads : pc[t] = "got" /\ res[t] = None => oom[t]

\* One thread at a time is between the tests and the making of a singleton,
\* and it has the manager's lock; every way out of there gives it back, also
\* where memory is refused.
Locked == {"test", "type", "value"}

LockHeld == \A t \in Threads : mlock = t <=> pc[t] \in Locked

\* "NULL" is how a call that creates something fails (arch/api.md:47).
FailsWithNull == Running
=============================================================================
