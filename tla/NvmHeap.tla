------------------------------ MODULE NvmHeap ------------------------------
(***************************************************************************)
(* Reference counting on the heap of the VM: memory.c (NanoVM_alloc_heap,  *)
(* NanoVM_ref, NanoVM_unref and the cascade of _free_obj, put_field and    *)
(* get_field), with NanoVM_set_local of stack.c and the runnable of        *)
(* thread.c as the counted roots.                                          *)
(*                                                                         *)
(* A step is what a thread does between two accesses to memory it shares:  *)
(* each read of ref->cnt outside the object's lock and the write of 0, the *)
(* locked update, the unlock, the read and the write of a field.  (The     *)
(* first read, at line 288, decides only whether an error is logged.)  The *)
(* object's lock is taken to exclude (module NvmLock says when it does).   *)
(* Null stands for the null object, the primitive zeros and an unset       *)
(* local, which are not counted (_is_null_or_prm_0).  A freed object keeps *)
(* its contents until its memory is allocated again.                       *)
(***************************************************************************)
EXTENDS Integers, Sequences, FiniteSets

CONSTANTS
  Threads,    \* VM threads
  Objs,       \* places of the heap an object can be in
  Root,       \* the object all the threads were created with
  Null,       \* not an object
  Nobody,     \* not a thread
  MaxLocals,  \* bound: local variables of a thread's frames
  MaxSlots,   \* bound: fields of an object or elements of an array
  Arities     \* how many fields the types of the program have

ASSUME RootAssumption == Root \in Objs
ASSUME ObjsAssumption == IsFiniteSet(Objs)
ASSUME NullAssumption == Null \notin Objs
ASSUME NobodyAssumption == Nobody \notin Threads
ASSUME ThreadsAssumption == IsFiniteSet(Threads) /\ Threads # {}
ASSUME LocalsAssumption == MaxLocals \in Nat
ASSUME SlotsAssumption == MaxSlots \in Nat \ {0}
ASSUME AritiesAssumption == Arities \subseteq 0 .. MaxSlots

Slots == 1 .. MaxSlots
Ref == Objs \cup {Null}

\* A thread's roots: its runnable and the local variables of its frames.
Runnable == 0
Locals == 1 .. MaxLocals
Roots == {Runnable} \cup Locals

VARIABLES
  live,    \* objects that are allocated
  cnt,     \* cnt[o]: o->cnt
  arity,   \* arity[o]: how many references o holds (0: a primitive)
  field,   \* field[o][s]: the reference in slot s of o
  olock,   \* olock[o]: the thread holding o->lock, or Nobody
  root,    \* root[t][r]: thread t's local variable r, or its runnable
  var,     \* var[t]: the pointer a caller got and has not stored yet
  uses,    \* uses[t]: objects whose fields t's operation reads or writes
  pc,      \* pc[t]: the next step of t
  job,     \* job[t]: the call t makes
  calls    \* calls[t]: activations of NanoVM_unref, the innermost first

contents == <<live, arity, field>>
heap == <<contents, cnt, olock>>
thread == <<root, var, uses, job>>
vars == <<heap, thread, pc, calls>>

Labels == {"caller", "store", "ref", "refUnlock", "unref", "isZero", "last",
           "dec", "decUnlock", "free"}

Jobs == [kind : {"none", "local", "field"}, at : Roots \cup Slots,
         obj : Ref, old : Ref]

Activations == [ref : Ref, next : 0 .. MaxSlots + 1]

NoJob == [kind |-> "none", at |-> 0, obj |-> Null, old |-> Null]

Goto(t, from, to) == pc[t] = from /\ pc' = [pc EXCEPT ![t] = to]

\* Every thread was created with Root as its runnable (thread.c:83) and has
\* an empty frame.
Init ==
  /\ live = {Root}
  /\ cnt = [o \in Objs |-> IF o = Root THEN Cardinality(Threads) ELSE 0]
  /\ arity = [o \in Objs |-> IF o = Root THEN MaxSlots ELSE 0]
  /\ field = [o \in Objs |-> [s \in Slots |-> Null]]
  /\ olock = [o \in Objs |-> Nobody]
  /\ root = [t \in Threads |-> [r \in Roots |-> IF r = Runnable THEN Root
                                                                ELSE Null]]
  /\ var = [t \in Threads |-> Null]
  /\ uses = [t \in Threads |-> {}]
  /\ pc = [t \in Threads |-> "caller"]
  /\ job = [t \in Threads |-> NoJob]
  /\ calls = [t \in Threads |-> <<>>]

\* NanoVM_unref is called.
Call(o) == [ref |-> o, next |-> 0]

-----------------------------------------------------------------------------
(* What a running thread calls.  It gets a pointer, then stores it: no     *)
(* fresh object is forgotten.                                              *)

Ready(t) == pc[t] = "caller" /\ root[t][Runnable] # Null

\* NanoVM_alloc_heap and NanoVM_alloc_heap_arr: the count is 0, the
\* references are null (_init_object).
AllocHeap(t) ==
  /\ Ready(t) /\ var[t] = Null
  /\ \E o \in Objs \ live, n \in Arities :
       /\ live' = live \cup {o}
       /\ cnt' = [cnt EXCEPT ![o] = 0]
       /\ arity' = [arity EXCEPT ![o] = n]
       /\ field' = [field EXCEPT ![o] = [s \in Slots |-> Null]]
       /\ olock' = [olock EXCEPT ![o] = Nobody]
       /\ var' = [var EXCEPT ![t] = o]
  /\ UNCHANGED <<root, uses, pc, job, calls>>

\* NanoVM_get_local
GetLocal(t) ==
  /\ Ready(t) /\ var[t] = Null
  /\ \E r \in Roots : var' = [var EXCEPT ![t] = root[t][r]]
  /\ UNCHANGED <<heap, root, uses, pc, job, calls>>

\* NanoVM_mem_get_field and NanoVM_mem_get_array: a bare pointer.
GetField(t) ==
  /\ Ready(t) /\ var[t] = Null
  /\ \E r \in Roots :
       LET o == root[t][r] IN
       /\ o # Null
       /\ \E s \in 1 .. arity[o] :
            /\ field[o][s] # Null
            /\ var' = [var EXCEPT ![t] = field[o][s]]
            /\ uses' = [uses EXCEPT ![t] = {o}]
  /\ UNCHANGED <<heap, root, pc, job, calls>>

\* NanoVM_set_local refs the value first.
SetLocal(t) ==
  /\ Ready(t) /\ Goto(t, "caller", "ref")
  /\ \E l \in Locals :
       job' = [job EXCEPT ![t] = [NoJob EXCEPT !.kind = "local", !.at = l]]
  /\ UNCHANGED <<heap, root, var, uses, calls>>

\* NanoVM_mem_put_field and NanoVM_mem_set_array read the old value ...
PutField(t) ==
  /\ Ready(t) /\ Goto(t, "caller", "store")
  /\ \E r \in Roots :
       LET o == root[t][r] IN
       /\ o # Null
       /\ uses' = [uses EXCEPT ![t] = @ \cup {o}]
       /\ \E s \in 1 .. arity[o] :
            job' = [job EXCEPT ![t] = [kind |-> "field", at |-> s,
                                       obj |-> o, old |-> field[o][s]]]
  /\ UNCHANGED <<heap, root, var, calls>>

\* ... and write the new one before they ref it.
StoreField(t) ==
  /\ Goto(t, "store", "ref")
  /\ field' = [field EXCEPT ![job[t].obj][job[t].at] = var[t]]
  /\ UNCHANGED <<live, cnt, arity, olock, thread, calls>>

\* NanoVM_release_thread: the frames are gone, the runnable is unref'd.
ReleaseThread(t) ==
  /\ Ready(t) /\ Goto(t, "caller", "unref") /\ var[t] = Null
  /\ \A l \in Locals : root[t][l] = Null
  /\ job' = [job EXCEPT ![t] = [NoJob EXCEPT !.kind = "local",
                                             !.at = Runnable]]
  /\ calls' = [calls EXCEPT ![t] = <<Call(root[t][Runnable])>>]
  /\ UNCHANGED <<heap, root, var, uses>>

-----------------------------------------------------------------------------
(* NanoVM_ref(var[t]) *)

\* Once the value is ref'd, NanoVM_unref is called for what it replaces.
UnrefOld(t) ==
  LET old == IF job[t].kind = "local" THEN root[t][job[t].at] ELSE job[t].old
  IN calls' = [calls EXCEPT ![t] = <<Call(old)>>]

RefNull(t) ==
  /\ Goto(t, "ref", "unref") /\ var[t] = Null
  /\ UnrefOld(t)
  /\ UNCHANGED <<heap, thread>>

\* The object's lock is taken, and its count becomes n.
SetCount(o, t, n) ==
  /\ olock[o] \in {Nobody, t}
  /\ olock' = [olock EXCEPT ![o] = t]
  /\ cnt' = [cnt EXCEPT ![o] = n]

\* Mutant: the count is computed and not stored.
RefIncDropped(t) ==
  /\ Goto(t, "ref", "refUnlock") /\ var[t] # Null
  /\ SetCount(var[t], t, cnt[var[t]])
  /\ UNCHANGED <<contents, thread, calls>>

RefInc(t) ==
  /\ Goto(t, "ref", "refUnlock") /\ var[t] # Null
  /\ SetCount(var[t], t, cnt[var[t]] + 1)
  /\ UNCHANGED <<contents, thread, calls>>

\* NanoVM_unlock leaves a lock alone that is not t's (util.c:36).
Released(o, t) == IF olock[o] = t THEN [olock EXCEPT ![o] = Nobody] ELSE olock

\* Mutant: the object stays locked.
RefUnlockForgotten(t) ==
  /\ Goto(t, "refUnlock", "unref")
  /\ UnrefOld(t)
  /\ UNCHANGED <<heap, thread>>

RefUnlock(t) ==
  /\ Goto(t, "refUnlock", "unref")
  /\ olock' = Released(var[t], t)
  /\ UnrefOld(t)
  /\ UNCHANGED <<contents, cnt, thread>>

-----------------------------------------------------------------------------
(* NanoVM_unref and _free_obj *)

Active(t) == Head(calls[t])

\* NanoVM_set_local stores the value last; a released thread's runnable is
\* gone with it.
Finish(t) ==
  /\ root' = IF job[t].kind = "local"
             THEN [root EXCEPT ![t][job[t].at] = var[t]]
             ELSE root
  /\ var' = [var EXCEPT ![t] = Null]
  /\ uses' = [uses EXCEPT ![t] = {}]
  /\ job' = [job EXCEPT ![t] = NoJob]

\* The activation of NanoVM_unref returns, to _free_obj of the object that
\* held the reference or to the operation, which is then done.
ReturnStepping(t, n) ==
  LET rest == Tail(calls[t]) IN
  IF rest = <<>>
  THEN /\ calls' = [calls EXCEPT ![t] = <<>>]
       /\ pc' = [pc EXCEPT ![t] = "caller"]
       /\ Finish(t)
  ELSE /\ calls' = [calls EXCEPT ![t] = [rest EXCEPT ![1].next = @ + n]]
       /\ pc' = [pc EXCEPT ![t] = "free"]
       /\ UNCHANGED thread

\* Mutants: _free_obj's loop does not step on, or steps twice.
ReturnStuck(t) == ReturnStepping(t, 0)
ReturnSkipping(t) == ReturnStepping(t, 2)

Return(t) == ReturnStepping(t, 1)

UnrefNull(t) ==
  /\ pc[t] = "unref" /\ Active(t).ref = Null /\ Return(t)
  /\ UNCHANGED heap

\* Mutant: an off-by-one.
IsOneEarly(o) == cnt[o] \in {1, 2}

IsOne(o) == cnt[o] = 1

\* ref->cnt == 1 || ref->cnt == 0: two reads, both without the lock.
UnrefIsOne(t) ==
  LET o == Active(t).ref IN
  /\ pc[t] = "unref" /\ o # Null
  /\ Goto(t, "unref", IF IsOne(o) THEN "last" ELSE "isZero")
  /\ UNCHANGED <<heap, thread, calls>>

UnrefIsZero(t) ==
  /\ Goto(t, "isZero", IF cnt[Active(t).ref] = 0 THEN "last" ELSE "dec")
  /\ UNCHANGED <<heap, thread, calls>>

\* ref->cnt = 0, without the lock: the object goes, its slots from s on.
FreeFrom(t, s) ==
  /\ Goto(t, "last", "free")
  /\ cnt' = [cnt EXCEPT ![Active(t).ref] = 0]
  /\ calls' = [calls EXCEPT ![t][1].next = s]
  /\ UNCHANGED <<contents, olock, thread>>

\* Mutant: the object is freed and what it refers to is forgotten.
UnrefLastShallow(t) == FreeFrom(t, MaxSlots + 1)

UnrefLast(t) == FreeFrom(t, 1)

UnrefDec(t) ==
  /\ Goto(t, "dec", "decUnlock")
  /\ SetCount(Active(t).ref, t, cnt[Active(t).ref] - 1)
  /\ UNCHANGED <<contents, thread, calls>>

UnrefUnlock(t) ==
  /\ pc[t] = "decUnlock" /\ Return(t)
  /\ olock' = Released(Active(t).ref, t)
  /\ UNCHANGED <<contents, cnt>>

\* _free_obj and _unref_dep: the next reference that the object holds.
FreeDep(t) ==
  LET o == Active(t).ref
      i == Active(t).next
  IN
  /\ Goto(t, "free", "unref") /\ i <= arity[o]
  /\ calls' = [calls EXCEPT ![t] = <<Call(field[o][i])>> \o @]
  /\ UNCHANGED <<heap, thread>>

\* _free_heap, once every reference was unref'd.
FreeHeap(t) ==
  LET o == Active(t).ref IN
  /\ pc[t] = "free" /\ Active(t).next > arity[o] /\ Return(t)
  /\ live' = live \ {o}
  /\ UNCHANGED <<arity, field, cnt, olock>>

-----------------------------------------------------------------------------
\* What a thread does once it has called.
Step(t) ==
  \/ StoreField(t) \/ RefNull(t) \/ RefInc(t) \/ RefUnlock(t)
  \/ UnrefNull(t) \/ UnrefIsOne(t) \/ UnrefIsZero(t) \/ UnrefLast(t)
  \/ UnrefDec(t) \/ UnrefUnlock(t) \/ FreeDep(t) \/ FreeHeap(t)

Start(t) ==
  \/ AllocHeap(t) \/ GetLocal(t) \/ GetField(t)
  \/ SetLocal(t) \/ PutField(t) \/ ReleaseThread(t)

Next == \E t \in Threads : Start(t) \/ Step(t)

Spec == Init /\ [][Next]_vars

FairSpec == Spec /\ \A t \in Threads : WF_vars(Step(t))

(***************************************************************************)
(* The program that runs on the VM takes care that no two threads work on  *)
(* the fields of one object at once, from the read of a field to the store *)
(* of what was read.  memory.c does nothing of the kind.                   *)
(***************************************************************************)
FieldsExclusive ==
  \A t, u \in Threads : t # u => uses[t] \cap uses[u] = {}

SyncNext == Next /\ FieldsExclusive'

SyncSpec == Init /\ [][SyncNext]_vars

-----------------------------------------------------------------------------
(* Properties *)

\* Every variable has its type.
TypeOK ==
  /\ live \subseteq Objs
  /\ cnt \in [Objs -> Int]
  /\ arity \in [Objs -> 0 .. MaxSlots]
  /\ field \in [Objs -> [Slots -> Ref]]
  /\ olock \in [Objs -> Threads \cup {Nobody}]
  /\ root \in [Threads -> [Roots -> Ref]]
  /\ var \in [Threads -> Ref]
  /\ uses \in [Threads -> SUBSET Objs]
  /\ pc \in [Threads -> Labels]
  /\ job \in [Threads -> Jobs]
  /\ calls \in [Threads -> Seq(Activations)]

Quiet == \A t \in Threads : pc[t] = "caller"

\* The places that refer to o: locals, runnables, and slots of live objects.
RootRefs(o) == {p \in Threads \X Roots : root[p[1]][p[2]] = o}
SlotRefs(o) ==
  {p \in live \X Slots : p[2] <= arity[p[1]] /\ field[p[1]][p[2]] = o}

\* Between calls, the count of every object is the number of places that
\* refer to it: ref and unref of all the threads, and of all the cascades,
\* balance.
CountsExact ==
  Quiet => \A o \in live :
             cnt[o] = Cardinality(RootRefs(o)) + Cardinality(SlotRefs(o))

Freeing(t) ==
  {calls[t][i].ref : i \in {j \in DOMAIN calls[t] : calls[t][j].next > 0}}

Dying == UNION {Freeing(t) : t \in Threads}

\* The objects that are allocated and not being freed.
Staying == live \ Dying

\* No object is freed twice, by two threads or by two activations of one.
FreedOnce ==
  \A t, u \in Threads : \A i \in DOMAIN calls[t], j \in DOMAIN calls[u] :
    /\ calls[t][i].next > 0 => calls[t][i].ref \in live
    /\ /\ calls[t][i].next > 0 /\ calls[u][j].next > 0
       /\ calls[t][i].ref = calls[u][j].ref
       => t = u /\ i = j

\* An object that is being freed, or that was freed, is referred to by no
\* slot of an object that stays and by no root, except the one local
\* variable that the freeing NanoVM_set_local is about to overwrite; and no
\* caller has got a pointer to it that it has yet to store and to ref. So
\* nobody comes to it again, and no cascade frees it a second time.
NoDangling ==
  LET gone == (Objs \ live) \cup Dying IN
  /\ FreedOnce
  /\ \A t \in Threads, r \in Roots :
       root[t][r] \in gone => pc[t] # "caller" /\ job[t].at = r
  /\ \A o \in live \ gone : \A s \in 1 .. arity[o] : field[o][s] \notin gone
  /\ \A t \in Threads : var[t] \notin gone

\* NanoVM_set_local has stored its value as far as the program can tell when
\* the old one is unref'd: nobody reads the variable until the call returns.
Stored(t) ==
  /\ job[t].kind = "local"
  /\ pc[t] \in {"unref", "isZero", "last", "dec", "decUnlock", "free"}

\* What the program sees: the fields of the objects that stay, and the local
\* variables as they are once NanoVM_set_local has returned.
FieldsSeen ==
  LET stay == Staying
  IN [o \in Objs |-> IF o \in stay THEN field[o] ELSE [s \in Slots |-> Null]]

RootsSeen ==
  [t \in Threads |->
     [r \in Roots |-> IF Stored(t) /\ job[t].at = r THEN var[t] ELSE root[t][r]]]

Managed == INSTANCE ManagedHeap WITH
  live <- Staying, field <- FieldsSeen, root <- RootsSeen, var <- var

\* Counts, locks and cascades implement the managed heap: an object goes in
\* the step that clears its count, when no variable, no pointer in
\* hand and no object that stays refers to it, and what it held is gone
\* with it while the cascade still runs.
AbstractSpec == Managed!Spec

\* "reference count should not be 0 when unreferenced" (memory.c:289)
UnrefCounted ==
  \A t \in Threads :
    pc[t] = "unref" /\ Active(t).ref # Null => cnt[Active(t).ref] > 0

\* "0 is invalid state" (memory.c:293): between calls, an object whose count
\* is 0 is one that a caller has just allocated.
NoLeak ==
  Quiet => \A o \in live : cnt[o] = 0 => \E t \in Threads : var[t] = o

\* A thread that waits for an object's lock holds no other: no two threads
\* wait for each other, whatever they do to the heap.
NoHoldAndWait ==
  \A t \in Threads, o \in Objs :
    olock[o] = t =>
      \/ pc[t] = "refUnlock" /\ var[t] = o
      \/ pc[t] = "decUnlock" /\ Active(t).ref = o

\* What the slots of the objects of S lead to, S included.
LeadsTo(S) ==
  {o \in Ref : \A T \in SUBSET Ref :
     /\ S \subseteq T
     /\ \A p \in T \cap Objs, s \in Slots : field[p][s] \in T
     => o \in T}

Reach ==
  LeadsTo({root[t][r] : t \in Threads, r \in Roots} \cup {var[t] : t \in Threads})

\* Following slots from o leads back to o.
OnCycle(o) == o \in LeadsTo({field[o][s] : s \in Slots})

\* Between calls, what no root leads to is gone, unless some of it is on a
\* cycle: the cascade of _free_obj reaches everything the last reference
\* kept alive.
GarbageFreed ==
  Quiet /\ (\A o \in live : ~OnCycle(o)) => live \subseteq Reach

\* Every call returns: the cascade comes to an end, and a lock is never
\* waited for in vain.
Returns == \A t \in Threads : pc[t] # "caller" ~> pc[t] = "caller"
=============================================================================
