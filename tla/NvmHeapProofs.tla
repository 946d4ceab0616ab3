-------------------------- MODULE NvmHeapProofs ---------------------------
(***************************************************************************)
(* What holds of the heap in every interleaving of any number of threads,  *)
(* fields shared as they may be: the state keeps its type (an activation   *)
(* of _free_obj never indexes past the fields of its object), and object   *)
(* locks cannot deadlock.                                                  *)
(***************************************************************************)
EXTENDS NvmHeap, FiniteSetTheorems, SequenceTheorems, TLAPS

\* An activation that is freeing its object.
Frees(a) == a.ref \in Objs /\ a.next >= 1

\* All activations but the innermost are freeing, each at a slot.
Waiting(s) == \A i \in 2 .. Len(s) : Frees(s[i]) /\ s[i].next \in Slots

InUnref == {"unref", "isZero", "last", "dec", "decUnlock", "free"}

\* NanoVM_unref is active where t is said to be in it; only the innermost
\* activation may be past the last reference of its object.
CallsOK(t) ==
  /\ pc[t] \in InUnref => calls[t] # <<>>
  /\ pc[t] \in {"isZero", "last"} => calls[t][1].ref \in Objs
  /\ pc[t] = "free" => Frees(calls[t][1])
  /\ Waiting(calls[t])

\* A call that replaces a root names one.
JobOK(t) == job[t].kind = "local" => job[t].at \in Roots

IInv ==
  /\ TypeOK
  /\ NoHoldAndWait
  /\ \A t \in Threads : CallsOK(t) /\ JobOK(t)

-----------------------------------------------------------------------------
LEMMA InitIInv == Init => IInv
<1> SUFFICES ASSUME Init
             PROVE  IInv
  OBVIOUS
<1> USE RootAssumption, NullAssumption, NobodyAssumption, LocalsAssumption,
        SlotsAssumption
<1>1. Cardinality(Threads) \in Int
  BY ThreadsAssumption, FS_CardinalityType
<1>2. TypeOK
  BY <1>1, EmptySeq DEF Init, TypeOK, Ref, Roots, Slots, Runnable, Locals,
                        NoJob, Labels, Jobs
<1>3. NoHoldAndWait
  BY DEF Init, NoHoldAndWait
<1>4. \A t \in Threads : CallsOK(t) /\ JobOK(t)
  BY DEF Init, CallsOK, JobOK, NoJob, InUnref, Waiting
<1> QED
  BY <1>2, <1>3, <1>4 DEF IInv

-----------------------------------------------------------------------------
(* The sequences of activations that the steps of NanoVM_unref build. *)

\* An activation returns to the one that called it, which goes on.
LEMMA StepOn ==
  ASSUME NEW s \in Seq(Activations), s # <<>>, Waiting(s), Tail(s) # <<>>
  PROVE  LET new == [Tail(s) EXCEPT ![1].next = @ + 1] IN
         new \in Seq(Activations) /\ new # <<>> /\ Waiting(new)
         /\ Frees(new[1])
<1> DEFINE rest == Tail(s)
           a == [rest[1] EXCEPT !.next = @ + 1]
           new == [rest EXCEPT ![1] = a]
<1>1. /\ rest \in Seq(Activations) /\ Len(rest) = Len(s) - 1
      /\ \A i \in 1 .. Len(rest) : rest[i] = s[i + 1]
  BY HeadTailProperties
<1>2. Len(rest) \in Nat \ {0} /\ Len(s) \in Nat
  BY <1>1, EmptySeq, LenProperties
<1>3. rest[1] \in Activations /\ rest[1].next \in Slots /\ Frees(rest[1])
  <2>1. rest[1] = s[2] /\ 2 \in 2 .. Len(s)
    BY <1>1, <1>2
  <2> QED
    BY <1>1, <1>2, <2>1, ElementOfSeq, SlotsAssumption DEF Waiting
<1>4. a \in Activations /\ a.next = rest[1].next + 1 /\ a.ref = rest[1].ref
  <2>1. \A x \in Activations : x.next \in Slots =>
          LET y == [x EXCEPT !.next = x.next + 1] IN
          /\ y = [ref |-> x.ref, next |-> x.next + 1]
          /\ x.next + 1 \in 0 .. MaxSlots + 1
    BY SlotsAssumption DEF Activations, Slots
  <2>2. \A x \in Activations : x.ref \in Ref
    BY DEF Activations
  <2> HIDE DEF rest
  <2> QED
    BY <1>3, <2>1, <2>2 DEF Activations
<1>5. /\ new \in Seq(Activations) /\ Len(new) = Len(rest)
      /\ \A i \in 1 .. Len(rest) : new[i] = IF i = 1 THEN a ELSE rest[i]
  <2> HIDE DEF rest, a
  <2> QED
    BY <1>1, <1>2, <1>4, ExceptSeq
<1>6. Waiting(new)
  <2> SUFFICES ASSUME NEW i \in 2 .. Len(new)
               PROVE  Frees(new[i]) /\ new[i].next \in Slots
    BY DEF Waiting
  <2>1. new[i] = s[i + 1] /\ i + 1 \in 2 .. Len(s)
    BY <1>1, <1>2, <1>5
  <2> QED
    BY <2>1 DEF Waiting
<1>7. new # <<>> /\ Frees(new[1])
  <2>1. 1 \in 1 .. Len(rest)
    BY <1>2
  <2>2. new[1] = a /\ Len(new) # 0
    BY <1>2, <1>5, <2>1
  <2>3. rest[1].next \in Nat
    BY <1>3, SlotsAssumption DEF Slots
  <2> HIDE DEF rest, a, new
  <2> QED
    BY <1>3, <1>4, <1>5, <2>2, <2>3 DEF Frees
<1> QED
  BY <1>5, <1>6, <1>7

\* _free_obj unrefs a reference of its object.
LEMMA CallDep ==
  ASSUME NEW s \in Seq(Activations), s # <<>>, Waiting(s),
         Frees(s[1]), s[1].next \in Slots, NEW o \in Ref
  PROVE  LET new == <<Call(o)>> \o s IN
         new \in Seq(Activations) /\ new # <<>> /\ Waiting(new)
<1> DEFINE c == <<Call(o)>>
           new == c \o s
<1>1. c \in Seq(Activations) /\ Len(c) = 1
  BY SlotsAssumption DEF Activations, Call
<1>2. Len(s) \in Nat \ {0}
  BY EmptySeq
<1>3. /\ new \in Seq(Activations) /\ Len(new) = 1 + Len(s)
      /\ \A i \in 2 .. Len(new) : new[i] = s[i - 1]
  <2>1. /\ c \o s \in Seq(Activations) /\ Len(c \o s) = Len(c) + Len(s)
        /\ \A i \in 1 .. Len(c) + Len(s) :
             (c \o s)[i] = IF i <= Len(c) THEN c[i] ELSE s[i - Len(c)]
    BY <1>1, ConcatProperties
  <2> HIDE DEF c
  <2> QED
    BY <1>1, <1>2, <2>1
<1>4. Waiting(new)
  BY <1>2, <1>3 DEF Waiting
<1> QED
  BY <1>2, <1>3, <1>4

\* The last reference to an object is given up: its slots come next.
LEMMA CallFree ==
  ASSUME NEW s \in Seq(Activations), s # <<>>, Waiting(s), s[1].ref \in Objs
  PROVE  LET new == [s EXCEPT ![1].next = 1] IN
         new \in Seq(Activations) /\ new # <<>> /\ Waiting(new)
         /\ Frees(new[1])
<1> DEFINE a == [s[1] EXCEPT !.next = 1]
           new == [s EXCEPT ![1] = a]
<1>1. Len(s) \in Nat \ {0}
  BY EmptySeq
<1>2. s[1] \in Activations
  BY <1>1, ElementOfSeq
<1>3. a \in Activations /\ a.next = 1 /\ a.ref = s[1].ref
  BY <1>2, SlotsAssumption DEF Activations
<1>4. /\ new \in Seq(Activations) /\ Len(new) = Len(s)
      /\ \A i \in 1 .. Len(s) : new[i] = IF i = 1 THEN a ELSE s[i]
  <2> HIDE DEF a
  <2> QED
    BY <1>1, <1>3, ExceptSeq
<1> QED
  BY <1>1, <1>3, <1>4 DEF Waiting, Frees

\* NanoVM_unref is called for what a value replaces.
LEMMA UnrefOldOK ==
  ASSUME NEW t \in Threads, IInv, UnrefOld(t)
  PROVE  \E s \in Seq(Activations) :
           calls' = [calls EXCEPT ![t] = s] /\ s # <<>> /\ Waiting(s)
<1> DEFINE old == IF job[t].kind = "local" THEN root[t][job[t].at]
                                          ELSE job[t].old
           s == <<Call(old)>>
<1>1. old \in Ref
  BY DEF IInv, TypeOK, Jobs, JobOK
<1>2. Call(old) \in Activations
  BY <1>1, SlotsAssumption DEF Activations, Call
<1>3. s \in Seq(Activations) /\ s # <<>> /\ Waiting(s)
  BY <1>2 DEF Waiting
<1> QED
  BY <1>3 DEF UnrefOld

LEMMA NoJobOK == NoJob \in Jobs /\ NoJob.kind # "local"
  BY DEF NoJob, Jobs, Ref, Roots, Runnable

\* A call is done.
LEMMA FinishOK ==
  ASSUME NEW t \in Threads, IInv, Finish(t)
  PROVE  /\ root' \in [Threads -> [Roots -> Ref]]
         /\ var' \in [Threads -> Ref]
         /\ uses' \in [Threads -> SUBSET Objs]
         /\ job' \in [Threads -> Jobs]
         /\ \A u \in Threads : JobOK(u)'
         /\ \A u \in Threads : u # t => var'[u] = var[u]
<1> USE DEF IInv, TypeOK
<1>1. root' \in [Threads -> [Roots -> Ref]]
  BY DEF Finish, JobOK
<1>2. var' \in [Threads -> Ref] /\ uses' \in [Threads -> SUBSET Objs]
  BY DEF Finish, Ref
<1>3. job' \in [Threads -> Jobs] /\ \A u \in Threads : JobOK(u)'
  BY NoJobOK DEF Finish, JobOK
<1>4. \A u \in Threads : u # t => var'[u] = var[u]
  BY DEF Finish
<1> QED
  BY <1>1, <1>2, <1>3, <1>4

\* An activation of NanoVM_unref returns.
LEMMA ReturnOK ==
  ASSUME NEW t \in Threads, IInv, pc[t] \in InUnref, Return(t)
  PROVE  /\ \E q \in {"caller", "free"}, s \in Seq(Activations) :
              /\ pc' = [pc EXCEPT ![t] = q]
              /\ calls' = [calls EXCEPT ![t] = s]
              /\ q = "free" => s # <<>> /\ Frees(s[1])
              /\ Waiting(s)
         /\ root' \in [Threads -> [Roots -> Ref]]
         /\ var' \in [Threads -> Ref]
         /\ uses' \in [Threads -> SUBSET Objs]
         /\ job' \in [Threads -> Jobs]
         /\ \A u \in Threads : JobOK(u)'
         /\ \A u \in Threads : u # t => var'[u] = var[u]
<1>1. /\ calls[t] \in Seq(Activations) /\ calls[t] # <<>> /\ Waiting(calls[t])
  BY DEF IInv, TypeOK, CallsOK, Activations
<1>2. CASE Tail(calls[t]) = <<>>
  <2>1. /\ calls' = [calls EXCEPT ![t] = <<>>]
        /\ pc' = [pc EXCEPT ![t] = "caller"]
        /\ Finish(t)
    BY <1>2 DEF Return, ReturnStepping
  <2>2. <<>> \in Seq(Activations) /\ Waiting(<<>>)
    BY EmptySeq DEF Waiting
  <2> QED
    BY <2>1, <2>2, FinishOK
<1>3. CASE Tail(calls[t]) # <<>>
  <2> DEFINE s == [Tail(calls[t]) EXCEPT ![1].next = @ + 1]
  <2>1. s \in Seq(Activations) /\ s # <<>> /\ Waiting(s) /\ Frees(s[1])
    BY <1>1, <1>3, StepOn
  <2>2. /\ calls' = [calls EXCEPT ![t] = s]
        /\ pc' = [pc EXCEPT ![t] = "free"]
        /\ UNCHANGED <<root, var, uses, job>>
    BY <1>3 DEF Return, ReturnStepping, thread
  <2> HIDE DEF s
  <2>3. \A u \in Threads : JobOK(u)'
    BY <2>2 DEF IInv, JobOK
  <2> QED
    BY <2>1, <2>2, <2>3 DEF IInv, TypeOK
<1> QED
  BY <1>2, <1>3

\* A step that moves thread t and its activations keeps them in order.
LEMMA MoveOK ==
  ASSUME NEW t \in Threads, IInv,
         NEW q \in Labels, NEW s \in Seq(Activations),
         pc' = [pc EXCEPT ![t] = q],
         calls' = [calls EXCEPT ![t] = s],
         q \in InUnref => s # <<>>,
         q \in {"isZero", "last"} => s[1].ref \in Objs,
         q = "free" => Frees(s[1]),
         Waiting(s)
  PROVE  /\ pc' \in [Threads -> Labels]
         /\ calls' \in [Threads -> Seq(Activations)]
         /\ \A u \in Threads : CallsOK(u)'
  BY DEF IInv, TypeOK, CallsOK

\* The innermost activation is one.
LEMMA ActiveOK ==
  ASSUME NEW t \in Threads, IInv, pc[t] \in InUnref
  PROVE  /\ calls[t] \in Seq(Activations) /\ calls[t] # <<>>
         /\ Waiting(calls[t])
         /\ Active(t) = calls[t][1]
         /\ Active(t).ref \in Ref
         /\ Active(t).next \in 0 .. MaxSlots + 1
<1>1. /\ calls[t] \in Seq(Activations) /\ calls[t] # <<>> /\ Waiting(calls[t])
  BY DEF IInv, TypeOK, CallsOK
<1>2. Active(t) = calls[t][1] /\ Active(t) \in Activations
  BY <1>1, HeadTailProperties DEF Active
<1> QED
  BY <1>1, <1>2 DEF Activations

\* The jobs that the calls set up.
LEMMA LocalJob ==
  ASSUME NEW r \in Roots
  PROVE  LET j == [NoJob EXCEPT !.kind = "local", !.at = r] IN
         j \in Jobs /\ j.kind = "local" /\ j.at = r
  BY DEF NoJob, Jobs, Ref

LEMMA FieldJob ==
  ASSUME NEW s \in Slots, NEW o \in Ref, NEW v \in Ref
  PROVE  LET j == [kind |-> "field", at |-> s, obj |-> o, old |-> v] IN
         j \in Jobs /\ j.kind # "local"
  BY DEF Jobs

LEMMA NextIInv ==
  ASSUME IInv, [Next]_vars
  PROVE  IInv'
<1> USE SlotsAssumption, NullAssumption, NobodyAssumption
    DEF IInv, TypeOK, NoHoldAndWait, Goto, contents, heap, thread
<1>1. CASE UNCHANGED vars
  BY <1>1 DEF vars, CallsOK, JobOK, Active
<1>2. ASSUME NEW t \in Threads, AllocHeap(t)
      PROVE  IInv'
  <2>1. TypeOK'
    BY <1>2, AritiesAssumption DEF AllocHeap, Ready, Ref, Slots
  <2>2. NoHoldAndWait'
    BY <1>2 DEF AllocHeap, Ready, Active
  <2>3. \A u \in Threads : CallsOK(u)' /\ JobOK(u)'
    BY <1>2 DEF AllocHeap, Ready, CallsOK, InUnref, JobOK
  <2> QED
    BY <2>1, <2>2, <2>3
<1>3. ASSUME NEW t \in Threads, GetLocal(t)
      PROVE  IInv'
  <2>1. TypeOK'
    BY <1>3 DEF GetLocal, Ready, Ref
  <2>2. NoHoldAndWait'
    BY <1>3 DEF GetLocal, Ready, Active
  <2>3. \A u \in Threads : CallsOK(u)' /\ JobOK(u)'
    BY <1>3 DEF GetLocal, Ready, CallsOK, InUnref, JobOK
  <2> QED
    BY <2>1, <2>2, <2>3
<1>4. ASSUME NEW t \in Threads, GetField(t)
      PROVE  IInv'
  <2>1. TypeOK'
    BY <1>4 DEF GetField, Ready, Slots, Ref
  <2>2. NoHoldAndWait'
    BY <1>4 DEF GetField, Ready, Active
  <2>3. \A u \in Threads : CallsOK(u)' /\ JobOK(u)'
    BY <1>4 DEF GetField, Ready, CallsOK, InUnref, Slots, JobOK
  <2> QED
    BY <2>1, <2>2, <2>3
<1>5. ASSUME NEW t \in Threads, SetLocal(t)
      PROVE  IInv'
  <2>0. PICK j \in Jobs : /\ j.kind = "local" => j.at \in Roots
                          /\ job' = [job EXCEPT ![t] = j]
    <3>1. PICK l \in Locals :
            job' = [job EXCEPT ![t] = [NoJob EXCEPT !.kind = "local", !.at = l]]
      BY <1>5 DEF SetLocal
    <3> DEFINE j == [NoJob EXCEPT !.kind = "local", !.at = l]
    <3>2. l \in Roots
      BY DEF Roots
    <3>3. j \in Jobs /\ j.at \in Roots
      BY <3>2, LocalJob
    <3> QED
      BY <3>1, <3>3
  <2>1. TypeOK'
    BY <1>5, <2>0 DEF SetLocal, Ready, Labels
  <2>2. NoHoldAndWait'
    BY <1>5 DEF SetLocal, Ready, Active
  <2>3. \A u \in Threads : CallsOK(u)' /\ JobOK(u)'
    <3>1. \A u \in Threads : CallsOK(u)'
      BY <1>5 DEF SetLocal, Ready, CallsOK, InUnref
    <3> QED
      BY <1>5, <2>0, <3>1 DEF SetLocal, JobOK
  <2> QED
    BY <2>1, <2>2, <2>3
<1>6. ASSUME NEW t \in Threads, PutField(t)
      PROVE  IInv'
  <2> PICK r \in Roots, n \in Nat :
        LET o == root[t][r] IN
        /\ o # Null
        /\ n \in 1 .. arity[o]
        /\ uses' = [uses EXCEPT ![t] = @ \cup {o}]
        /\ job' = [job EXCEPT ![t] = [kind |-> "field", at |-> n,
                                    obj |-> o, old |-> field[o][n]]]
    <3>1. PICK r \in Roots : LET o == root[t][r] IN
            /\ o # Null
            /\ uses' = [uses EXCEPT ![t] = @ \cup {o}]
            /\ \E n \in 1 .. arity[o] :
                 job' = [job EXCEPT ![t] = [kind |-> "field", at |-> n,
                                         obj |-> o, old |-> field[o][n]]]
      BY <1>6 DEF PutField
    <3>2. root[t][r] \in Objs
      BY <3>1 DEF Ref
    <3>3. 1 .. arity[root[t][r]] \subseteq Nat
      BY <3>2
    <3> QED
      BY <3>1, <3>3
  <2> DEFINE o == root[t][r]
             j == [kind |-> "field", at |-> n, obj |-> o, old |-> field[o][n]]
  <2>0. o \in Objs /\ j \in Jobs /\ j.kind # "local"
    <3>1. o \in Objs
      BY DEF Ref
    <3>2. n \in Slots /\ field[o][n] \in Ref
      BY <3>1 DEF Slots
    <3> QED
      BY <3>1, <3>2, FieldJob DEF Ref
  <2>4. job' = [job EXCEPT ![t] = j]
    OBVIOUS
  <2>1. TypeOK'
    BY <1>6, <2>0 DEF PutField, Labels
  <2>2. NoHoldAndWait'
    BY <1>6 DEF PutField, Ready, Active
  <2>5. \A u \in Threads : JobOK(u)'
    <3> HIDE DEF j
    <3> QED
      BY <2>0, <2>4 DEF JobOK
  <2>6. \A u \in Threads : CallsOK(u)'
    BY <1>6 DEF PutField, Ready, CallsOK, InUnref
  <2>3. \A u \in Threads : CallsOK(u)' /\ JobOK(u)'
    BY <2>5, <2>6
  <2> QED
    BY <2>1, <2>2, <2>3
<1>7. ASSUME NEW t \in Threads, ReleaseThread(t)
      PROVE  IInv'
  <2>0. PICK j \in Jobs : /\ j.kind = "local" => j.at \in Roots
                          /\ job' = [job EXCEPT ![t] = j]
    BY <1>7, LocalJob DEF ReleaseThread, Roots
  <2> DEFINE s == <<Call(root[t][Runnable])>>
  <2>4. s \in Seq(Activations) /\ s # <<>> /\ Waiting(s)
    BY DEF Roots, Activations, Call, Waiting
  <2>5. /\ pc' \in [Threads -> Labels]
        /\ calls' \in [Threads -> Seq(Activations)]
        /\ \A u \in Threads : CallsOK(u)'
    BY <1>7, <2>4, MoveOK DEF ReleaseThread, Labels
  <2>1. TypeOK'
    BY <1>7, <2>0, <2>5 DEF ReleaseThread
  <2>2. NoHoldAndWait'
    BY <1>7 DEF ReleaseThread, Ready, Active
  <2>3. \A u \in Threads : JobOK(u)'
    BY <2>0 DEF JobOK
  <2> QED
    BY <2>1, <2>2, <2>3, <2>5
<1>8. ASSUME NEW t \in Threads, StoreField(t)
      PROVE  IInv'
  <2>1. TypeOK'
    BY <1>8 DEF StoreField, Labels
  <2>2. NoHoldAndWait'
    BY <1>8 DEF StoreField, Active
  <2>3. \A u \in Threads : CallsOK(u)' /\ JobOK(u)'
    BY <1>8 DEF StoreField, CallsOK, InUnref, JobOK
  <2> QED
    BY <2>1, <2>2, <2>3
<1>9. ASSUME NEW t \in Threads, RefNull(t)
      PROVE  IInv'
  <2>3. /\ pc' \in [Threads -> Labels]
        /\ calls' \in [Threads -> Seq(Activations)]
        /\ \A u \in Threads : CallsOK(u)' /\ JobOK(u)'
    BY <1>9, UnrefOldOK, MoveOK DEF RefNull, Labels, JobOK
  <2>1. TypeOK'
    BY <1>9, <2>3 DEF RefNull
  <2>2. NoHoldAndWait'
    BY <1>9 DEF RefNull, UnrefOld, Active
  <2> QED
    BY <2>1, <2>2, <2>3
<1>10. ASSUME NEW t \in Threads, RefInc(t)
       PROVE  IInv'
  <2>1. TypeOK'
    BY <1>10 DEF RefInc, SetCount, Labels, Ref
  <2>2. NoHoldAndWait'
    BY <1>10 DEF RefInc, SetCount, Active
  <2>3. \A u \in Threads : CallsOK(u)' /\ JobOK(u)'
    BY <1>10 DEF RefInc, SetCount, CallsOK, InUnref, JobOK
  <2> QED
    BY <2>1, <2>2, <2>3
<1>11. ASSUME NEW t \in Threads, RefUnlock(t)
       PROVE  IInv'
  <2>3. /\ pc' \in [Threads -> Labels]
        /\ calls' \in [Threads -> Seq(Activations)]
        /\ \A u \in Threads : CallsOK(u)' /\ JobOK(u)'
    BY <1>11, UnrefOldOK, MoveOK DEF RefUnlock, Labels, JobOK
  <2>1. TypeOK'
    BY <1>11, <2>3 DEF RefUnlock, Released
  <2>2. NoHoldAndWait'
    BY <1>11 DEF RefUnlock, Released, UnrefOld, Active
  <2> QED
    BY <2>1, <2>2, <2>3
<1>12. ASSUME NEW t \in Threads, UnrefNull(t)
       PROVE  IInv'
  <2>0. pc[t] \in InUnref /\ Return(t)
    BY <1>12 DEF UnrefNull, InUnref
  <2>4. PICK q \in {"caller", "free"}, s \in Seq(Activations) :
           /\ pc' = [pc EXCEPT ![t] = q]
           /\ calls' = [calls EXCEPT ![t] = s]
           /\ q = "free" => s # <<>> /\ Frees(s[1])
           /\ Waiting(s)
    BY <2>0, ReturnOK
  <2>5. /\ pc' \in [Threads -> Labels]
        /\ calls' \in [Threads -> Seq(Activations)]
        /\ \A u \in Threads : CallsOK(u)'
    BY <2>4, MoveOK DEF InUnref, Labels
  <2>6. /\ root' \in [Threads -> [Roots -> Ref]]
        /\ var' \in [Threads -> Ref]
        /\ uses' \in [Threads -> SUBSET Objs]
        /\ job' \in [Threads -> Jobs]
        /\ \A u \in Threads : JobOK(u)'
        /\ \A u \in Threads : u # t => var'[u] = var[u]
    BY <2>0, ReturnOK
  <2>1. TypeOK'
    BY <1>12, <2>5, <2>6 DEF UnrefNull
  <2>2. NoHoldAndWait'
    BY <1>12, <2>4, <2>6 DEF UnrefNull, Active
  <2> QED
    BY <2>1, <2>2, <2>5, <2>6
<1>13. ASSUME NEW t \in Threads, UnrefLast(t)
       PROVE  IInv'
  <2>0. /\ calls[t] \in Seq(Activations) /\ calls[t] # <<>> /\ Waiting(calls[t])
        /\ calls[t][1].ref \in Objs
    BY <1>13, ActiveOK DEF UnrefLast, FreeFrom, InUnref, CallsOK
  <2> DEFINE s == [calls[t] EXCEPT ![1].next = 1]
  <2>4. s \in Seq(Activations) /\ s # <<>> /\ Waiting(s) /\ Frees(s[1])
    BY <2>0, CallFree
  <2>5. pc' = [pc EXCEPT ![t] = "free"] /\ calls' = [calls EXCEPT ![t] = s]
    BY <1>13 DEF UnrefLast, FreeFrom
  <2>6. UNCHANGED <<root, var, uses, job>>
    BY <1>13 DEF UnrefLast, FreeFrom
  <2>3. /\ pc' \in [Threads -> Labels]
        /\ calls' \in [Threads -> Seq(Activations)]
        /\ \A u \in Threads : CallsOK(u)' /\ JobOK(u)'
    <3> HIDE DEF s
    <3> QED
      BY <2>4, <2>5, <2>6, MoveOK DEF InUnref, Labels, JobOK
  <2>7. cnt' \in [Objs -> Int]
    <3> DEFINE o == Active(t).ref
    <3>1. cnt' = [cnt EXCEPT ![o] = 0]
      BY <1>13 DEF UnrefLast, FreeFrom
    <3> HIDE DEF o
    <3>2. CASE o \in Objs
      BY <3>1, <3>2
    <3>3. CASE o \notin Objs
      BY <3>1, <3>3
    <3> QED
      BY <3>2, <3>3
  <2>1. TypeOK'
    BY <1>13, <2>3, <2>7 DEF UnrefLast, FreeFrom
  <2>2. NoHoldAndWait'
    BY <1>13 DEF UnrefLast, FreeFrom, Active
  <2> QED
    BY <2>1, <2>2, <2>3
<1>14. ASSUME NEW t \in Threads, UnrefIsOne(t) \/ UnrefIsZero(t)
       PROVE  IInv'
  <2>0. calls[t] # <<>> /\ calls[t][1].ref \in Objs
    BY <1>14, ActiveOK DEF UnrefIsOne, UnrefIsZero, InUnref, Ref, CallsOK
  <2>4. /\ \E q \in {"isZero", "last", "dec"} : pc' = [pc EXCEPT ![t] = q]
        /\ pc[t] \in {"unref", "isZero"} /\ UNCHANGED <<heap, thread, calls>>
    BY <1>14 DEF UnrefIsOne, UnrefIsZero
  <2>1. TypeOK'
    BY <2>4 DEF Labels
  <2>2. NoHoldAndWait'
    BY <2>4 DEF Active
  <2>3. \A u \in Threads : CallsOK(u)' /\ JobOK(u)'
    BY <2>0, <2>4 DEF CallsOK, InUnref, JobOK
  <2> QED
    BY <2>1, <2>2, <2>3
<1>15. ASSUME NEW t \in Threads, UnrefDec(t)
       PROVE  IInv'
  <2>0. cnt' \in [Objs -> Int]
    <3> DEFINE o == Active(t).ref
    <3>1. cnt' = [cnt EXCEPT ![o] = cnt[o] - 1]
      BY <1>15 DEF UnrefDec, SetCount
    <3> HIDE DEF o
    <3>2. CASE o \in Objs
      BY <3>1, <3>2
    <3>3. CASE o \notin Objs
      BY <3>1, <3>3
    <3> QED
      BY <3>2, <3>3
  <2>4. olock' \in [Objs -> Threads \cup {Nobody}]
    BY <1>15 DEF UnrefDec, SetCount
  <2>1. TypeOK'
    BY <1>15, <2>0, <2>4 DEF UnrefDec, SetCount, Labels
  <2>2. NoHoldAndWait'
    BY <1>15 DEF UnrefDec, SetCount, Active
  <2>3. \A u \in Threads : CallsOK(u)' /\ JobOK(u)'
    BY <1>15 DEF UnrefDec, SetCount, CallsOK, InUnref, JobOK
  <2> QED
    BY <2>1, <2>2, <2>3
<1>16. ASSUME NEW t \in Threads, UnrefUnlock(t)
       PROVE  IInv'
  <2>0. pc[t] \in InUnref /\ Return(t)
    BY <1>16 DEF UnrefUnlock, InUnref
  <2>4. PICK q \in {"caller", "free"}, s \in Seq(Activations) :
           /\ pc' = [pc EXCEPT ![t] = q]
           /\ calls' = [calls EXCEPT ![t] = s]
           /\ q = "free" => s # <<>> /\ Frees(s[1])
           /\ Waiting(s)
    BY <2>0, ReturnOK
  <2>5. /\ pc' \in [Threads -> Labels]
        /\ calls' \in [Threads -> Seq(Activations)]
        /\ \A u \in Threads : CallsOK(u)'
    BY <2>4, MoveOK DEF InUnref, Labels
  <2>6. /\ root' \in [Threads -> [Roots -> Ref]]
        /\ var' \in [Threads -> Ref]
        /\ uses' \in [Threads -> SUBSET Objs]
        /\ job' \in [Threads -> Jobs]
        /\ \A u \in Threads : JobOK(u)'
        /\ \A u \in Threads : u # t => var'[u] = var[u]
    BY <2>0, ReturnOK
  <2>1. TypeOK'
    BY <1>16, <2>5, <2>6 DEF UnrefUnlock, Released
  <2>2. NoHoldAndWait'
    BY <1>16, <2>4, <2>6 DEF UnrefUnlock, Released, Active
  <2> QED
    BY <2>1, <2>2, <2>5, <2>6
<1>17. ASSUME NEW t \in Threads, FreeDep(t)
       PROVE  IInv'
  <2> DEFINE o == Active(t).ref
             i == Active(t).next
  <2>0. /\ calls[t] \in Seq(Activations) /\ calls[t] # <<>> /\ Waiting(calls[t])
        /\ Frees(calls[t][1]) /\ calls[t][1].next \in Slots
        /\ field[o][i] \in Ref
    <3>1. o \in Objs /\ i >= 1 /\ i \in 0 .. MaxSlots + 1 /\ Frees(calls[t][1])
      BY <1>17, ActiveOK DEF FreeDep, CallsOK, InUnref, Frees
    <3>2. i \in Slots
      BY <1>17, <3>1 DEF FreeDep, Slots
    <3>3. field[o][i] \in Ref
      <4> HIDE DEF o, i
      <4> QED
        BY <3>1, <3>2
    <3>4. pc[t] = "free"
      BY <1>17 DEF FreeDep
    <3> QED
      BY <3>1, <3>2, <3>3, <3>4, ActiveOK DEF InUnref
  <2> DEFINE s == <<Call(field[o][i])>> \o calls[t]
  <2>4. s \in Seq(Activations) /\ s # <<>> /\ Waiting(s)
    BY <2>0, CallDep
  <2>5. /\ pc' = [pc EXCEPT ![t] = "unref"] /\ calls' = [calls EXCEPT ![t] = s]
        /\ UNCHANGED <<root, var, uses, job>>
    BY <1>17 DEF FreeDep
  <2>3. /\ pc' \in [Threads -> Labels]
        /\ calls' \in [Threads -> Seq(Activations)]
        /\ \A u \in Threads : CallsOK(u)' /\ JobOK(u)'
    <3> HIDE DEF s
    <3> QED
      BY <2>4, <2>5, MoveOK DEF InUnref, Labels, JobOK
  <2>1. TypeOK'
    BY <1>17, <2>3 DEF FreeDep
  <2>2. NoHoldAndWait'
    BY <1>17 DEF FreeDep, Active
  <2> QED
    BY <2>1, <2>2, <2>3
<1>18. ASSUME NEW t \in Threads, FreeHeap(t)
       PROVE  IInv'
  <2>0. pc[t] \in InUnref /\ Return(t)
    BY <1>18 DEF FreeHeap, InUnref
  <2>4. PICK q \in {"caller", "free"}, s \in Seq(Activations) :
           /\ pc' = [pc EXCEPT ![t] = q]
           /\ calls' = [calls EXCEPT ![t] = s]
           /\ q = "free" => s # <<>> /\ Frees(s[1])
           /\ Waiting(s)
    BY <2>0, ReturnOK
  <2>5. /\ pc' \in [Threads -> Labels]
        /\ calls' \in [Threads -> Seq(Activations)]
        /\ \A u \in Threads : CallsOK(u)'
    BY <2>4, MoveOK DEF InUnref, Labels
  <2>6. /\ root' \in [Threads -> [Roots -> Ref]]
        /\ var' \in [Threads -> Ref]
        /\ uses' \in [Threads -> SUBSET Objs]
        /\ job' \in [Threads -> Jobs]
        /\ \A u \in Threads : JobOK(u)'
        /\ \A u \in Threads : u # t => var'[u] = var[u]
    BY <2>0, ReturnOK
  <2>1. TypeOK'
    BY <1>18, <2>5, <2>6 DEF FreeHeap
  <2>2. NoHoldAndWait'
    BY <1>18, <2>4, <2>6 DEF FreeHeap, Active
  <2> QED
    BY <2>1, <2>2, <2>5, <2>6
<1> QED
  BY <1>1, <1>2, <1>3, <1>4, <1>5, <1>6, <1>7, <1>8, <1>9, <1>10, <1>11,
     <1>12, <1>13, <1>14, <1>15, <1>16, <1>17, <1>18
  DEF Next, Start, Step

-----------------------------------------------------------------------------
\* Whatever the threads call and however they interleave, the state keeps its
\* type: the loops of _unref_dep and _free_obj stay within the fields of the
\* objects they free.
THEOREM HeapTypeOK == Spec => []TypeOK
<1>1. IInv => TypeOK
  BY DEF IInv
<1> QED
  BY InitIInv, NextIInv, <1>1, PTL DEF Spec

\* Whatever the threads call and however they interleave, NanoVM_ref and
\* NanoVM_unref never wait for an object's lock while they hold another: the
\* object locks cannot deadlock, the cascades included.
THEOREM HeapNoHoldAndWait == Spec => []NoHoldAndWait
<1>1. IInv => NoHoldAndWait
  BY DEF IInv
<1> QED
  BY InitIInv, NextIInv, <1>1, PTL DEF Spec
=============================================================================
