------------------------- MODULE NvmHeapRefsProofs -------------------------
(***************************************************************************)
(* What holds of the references of the heap when no two threads work on    *)
(* the fields of one object at once (SyncSpec): counts are exact, nothing  *)
(* dangles, nothing is freed twice, and counts and cascades implement the  *)
(* managed heap of ManagedHeap.                                            *)
(*                                                                         *)
(* The proof gives every reference one holder at every moment: a root, a   *)
(* slot, or the hand of a thread that is between the two halves of an      *)
(* assignment.  A step moves a reference from holder to holder, or adds or *)
(* drops one with the count of the object.  Of a program with one thread   *)
(* it follows that everything unreachable is freed, cycles apart.          *)
(***************************************************************************)
EXTENDS NvmHeapProofs

\* The assignment of a field has the old value in hand from the store on,
\* and the assignment of a local variable the new one between ref and unref.
OldInHand(t) == job[t].kind = "field" /\ pc[t] \in {"ref", "refUnlock"}
NewInHand(t) == job[t].kind = "local" /\ pc[t] = "refUnlock"

\* NanoVM_unref has not given up the reference yet.
ToUnref == {"unref", "isZero", "last", "dec"}

USE DEF ToUnref

HandHas ==
  [t \in Threads |-> IF pc[t] \in ToUnref THEN Active(t).ref
                     ELSE IF OldInHand(t) THEN job[t].old
                     ELSE IF NewInHand(t) THEN var[t]
                     ELSE Null]

\* A local variable holds its new value from the unref of the old one on.
RootHas ==
  [x \in Threads \X Roots |->
     IF Stored(x[1]) /\ job[x[1]].at = x[2] THEN var[x[1]]
                                            ELSE root[x[1]][x[2]]]

\* The slot that was written and whose new value is not ref'd yet.
Written(t) == IF pc[t] = "ref" /\ job[t].kind = "field"
              THEN {<<job[t].obj, job[t].at>>} ELSE {}

\* The slots that activations which free their objects have come past.
Past(s) ==
  {x \in Objs \X Slots :
     \E i \in DOMAIN s : /\ s[i].next > 0 /\ s[i].ref = x[1]
                         /\ x[2] < s[i].next + (IF i = 1 THEN 0 ELSE 1)}

\* A thread is at work on these slots: they hold nothing that is counted.
Open(t) == Written(t) \cup Past(calls[t])

SlotHas ==
  [x \in Objs \X Slots |->
     IF x[1] \in live /\ \A t \in Threads : x \notin Open(t)
     THEN field[x[1]][x[2]] ELSE Null]

At(f, o) == {x \in DOMAIN f : f[x] = o}

Held(o) == Cardinality(At(RootHas, o)) + Cardinality(At(SlotHas, o))
             + Cardinality(At(HandHas, o))

-----------------------------------------------------------------------------
(* The parts of the inductive invariant. *)

Kept == Staying \cup {Null}

\* Every holder has an object that stays, or nothing.
Valid ==
  /\ \A x \in Threads \X Roots : RootHas[x] \in Kept
  /\ \A x \in Objs \X Slots : SlotHas[x] \in Kept
  /\ \A t \in Threads : HandHas[t] \in Kept

\* A count is the number of holders.
Counted == \A o \in Staying : cnt[o] = Held(o)

PastNull == \A o \in Objs : \A s \in Slots : s > arity[o] => field[o][s] = Null

Pending(t) == pc[t] \in {"caller", "store", "ref"}

\* What holders and other threads' pointers refer to.
Others(t) ==
  {RootHas[x] : x \in Threads \X Roots} \cup {SlotHas[x] : x \in Objs \X Slots}
    \cup {HandHas[u] : u \in Threads} \cup {var[u] : u \in Threads \ {t}}

\* A pointer that is not stored is to a new object that only t knows ...
Fresh(t) == var[t] \in Staying /\ var[t] \notin Others(t)

\* ... or to one that a root of t has, or a field that t is at work on.
Guarded(t) ==
  \/ \E r \in Roots : RootHas[<<t, r>>] = var[t]
  \/ HandHas[t] = var[t]
  \/ \E r \in Roots, s \in Slots :
       /\ RootHas[<<t, r>>] \in uses[t]
       /\ SlotHas[<<RootHas[<<t, r>>], s>>] = var[t]

VarOK(t) == Pending(t) /\ var[t] # Null => Fresh(t) \/ Guarded(t)

\* Activations that free their objects free different ones.
OnceIn(s) ==
  \A i, j \in DOMAIN s :
    s[i].next > 0 /\ s[j].next > 0 /\ s[i].ref = s[j].ref => i = j

Once ==
  /\ \A t \in Threads : OnceIn(calls[t]) /\ Freeing(t) \subseteq live
  /\ \A t, u \in Threads : t # u => Freeing(t) \cap Freeing(u) = {}

\* The assignment of a field is to one of an object that a root of t has.
FieldJobOK(t) ==
  job[t].kind = "field" =>
    /\ job[t].at \in Slots /\ job[t].at <= arity[job[t].obj]
    /\ job[t].obj \in uses[t] \cap {root[t][r] : r \in Roots}
    /\ field[job[t].obj][job[t].at] = IF pc[t] = "store" THEN job[t].old
                                                         ELSE var[t]

\* Nobody else has or knows the object that t is about to unref.
Alone(t) ==
  LET o == Active(t).ref IN
  /\ \A x \in Threads \X Roots : RootHas[x] # o
  /\ \A x \in Objs \X Slots : SlotHas[x] # o
  /\ \A u \in Threads : u # t => HandHas[u] # o /\ var[u] # o

\* What t's place in its call says of its activations, its object and its job.
Phase(t) ==
  /\ pc[t] \notin InUnref => calls[t] = <<>>
  /\ pc[t] \in ToUnref \cup {"decUnlock"} => Active(t).next = 0
  /\ pc[t] \in {"isZero", "last", "dec", "decUnlock"} => Active(t).ref # Null
  /\ pc[t] = "last" => Alone(t)
  /\ pc[t] = "caller" <=> job[t].kind = "none"
  /\ pc[t] = "store" => job[t].kind = "field"

RInv ==
  /\ IInv
  /\ FieldsExclusive
  /\ Valid
  /\ Counted
  /\ PastNull
  /\ Once
  /\ \A t \in Threads : VarOK(t) /\ FieldJobOK(t) /\ Phase(t)

-----------------------------------------------------------------------------
(* Counting the holders of an object. *)

LEMMA RootsFinite == IsFiniteSet(Roots) /\ IsFiniteSet(Slots)
<1>1. IsFiniteSet(Locals) /\ IsFiniteSet(Slots)
  BY LocalsAssumption, SlotsAssumption, FS_Interval DEF Locals, Slots
<1>2. IsFiniteSet({Runnable})
  BY FS_Singleton
<1> QED
  BY <1>1, <1>2, FS_Union DEF Roots

LEMMA HoldersFinite ==
  /\ IsFiniteSet(Threads)
  /\ IsFiniteSet(Threads \X Roots)
  /\ IsFiniteSet(Objs \X Slots)
  BY RootsFinite, ThreadsAssumption, ObjsAssumption, FS_Product

LEMMA HoldersDomains ==
  /\ DOMAIN HandHas = Threads
  /\ DOMAIN RootHas = Threads \X Roots
  /\ DOMAIN SlotHas = Objs \X Slots
  BY DEF HandHas, RootHas, SlotHas

\* 1 for what is o.
One(v, o) == IF v = o THEN 1 ELSE 0

LEMMA AtType ==
  ASSUME NEW f, IsFiniteSet(DOMAIN f), NEW o
  PROVE  /\ IsFiniteSet(At(f, o))
         /\ Cardinality(At(f, o)) \in Nat
<1>1. At(f, o) \subseteq DOMAIN f
  BY DEF At
<1> QED
  BY <1>1, FS_Subset, FS_CardinalityType

\* One holder changes.
LEMMA AtExcept ==
  ASSUME NEW f, NEW g, IsFiniteSet(DOMAIN f), DOMAIN g = DOMAIN f,
         NEW x \in DOMAIN f, \A y \in DOMAIN f : y # x => g[y] = f[y],
         NEW o
  PROVE  Cardinality(At(g, o)) =
           Cardinality(At(f, o)) + One(g[x], o) - One(f[x], o)
<1>1. IsFiniteSet(At(f, o)) /\ Cardinality(At(f, o)) \in Nat
  BY AtType
<1>2. CASE g[x] = o /\ f[x] # o
  <2>1. At(g, o) = At(f, o) \cup {x} /\ x \notin At(f, o)
    BY <1>2 DEF At
  <2>2. Cardinality(At(g, o)) = Cardinality(At(f, o)) + 1
    BY <1>1, <2>1, FS_AddElement
  <2> QED
    BY <1>1, <1>2, <2>2 DEF One
<1>3. CASE g[x] # o /\ f[x] = o
  <2>1. At(g, o) = At(f, o) \ {x} /\ x \in At(f, o)
    BY <1>3 DEF At
  <2>2. Cardinality(At(g, o)) = Cardinality(At(f, o)) - 1
    BY <1>1, <2>1, FS_RemoveElement
  <2> QED
    BY <1>1, <1>3, <2>2 DEF One
<1>4. CASE (g[x] = o) = (f[x] = o)
  <2>1. At(g, o) = At(f, o)
    BY <1>4 DEF At
  <2> QED
    BY <1>1, <1>4, <2>1 DEF One
<1> QED
  BY <1>2, <1>3, <1>4

\* f, but for x.
Update(f, x, v) == [f EXCEPT ![x] = v]

LEMMA AtUpdate ==
  ASSUME NEW f, IsFiniteSet(DOMAIN f), NEW x \in DOMAIN f, NEW v, NEW o
  PROVE  Cardinality(At(Update(f, x, v), o)) =
           Cardinality(At(f, o)) + One(v, o) - One(f[x], o)
<1> DEFINE g == Update(f, x, v)
<1>1. /\ DOMAIN g = DOMAIN f /\ g[x] = v
      /\ \A y \in DOMAIN f : y # x => g[y] = f[y]
  BY DEF Update
<1> HIDE DEF g
<1>2. Cardinality(At(g, o)) = Cardinality(At(f, o)) + One(g[x], o) - One(f[x], o)
  BY <1>1, AtExcept
<1>3. Cardinality(At(g, o)) = Cardinality(At(f, o)) + One(v, o) - One(f[x], o)
  BY <1>1, <1>2
<1> QED
  BY <1>3 DEF g

LEMMA UpdateHas ==
  ASSUME NEW f, NEW x \in DOMAIN f, NEW v
  PROVE  /\ DOMAIN Update(f, x, v) = DOMAIN f
         /\ \A y \in DOMAIN f : Update(f, x, v)[y] = IF y = x THEN v ELSE f[y]
  BY DEF Update

\* What one holder has is counted.
LEMMA AtHas ==
  ASSUME NEW f, IsFiniteSet(DOMAIN f), NEW x \in DOMAIN f
  PROVE  Cardinality(At(f, f[x])) >= 1
<1>1. IsFiniteSet(At(f, f[x])) /\ x \in At(f, f[x])
  BY AtType DEF At
<1>2. IsFiniteSet({x}) /\ Cardinality({x}) = 1
  BY FS_Singleton
<1>3. {x} \subseteq At(f, f[x])
  BY <1>1
<1> QED
  BY <1>1, <1>2, <1>3, FS_Subset, FS_CardinalityType

\* No holder has what is not counted.
LEMMA AtNone ==
  ASSUME NEW f, IsFiniteSet(DOMAIN f), NEW o, Cardinality(At(f, o)) = 0
  PROVE  \A x \in DOMAIN f : f[x] # o
  BY AtHas

LEMMA HeldType ==
  ASSUME NEW o
  PROVE  /\ Cardinality(At(RootHas, o)) \in Nat
         /\ Cardinality(At(SlotHas, o)) \in Nat
         /\ Cardinality(At(HandHas, o)) \in Nat
         /\ Held(o) \in Nat
<1>1. /\ Cardinality(At(RootHas, o)) \in Nat
      /\ Cardinality(At(SlotHas, o)) \in Nat
      /\ Cardinality(At(HandHas, o)) \in Nat
  BY HoldersFinite, HoldersDomains, AtType
<1> QED
  BY <1>1 DEF Held

-----------------------------------------------------------------------------
(* How references move from holder to holder. *)

\* No holder changes.
LEMMA StillHeld ==
  ASSUME Valid, Counted, UNCHANGED <<RootHas, SlotHas, HandHas>>,
         Staying' = Staying, \A o \in Staying : cnt'[o] = cnt[o]
  PROVE  Valid' /\ Counted'
<1>1. Valid'
  BY DEF Valid, Kept
<1>2. ASSUME NEW o PROVE Held(o)' = Held(o)
  BY DEF Held
<1>3. Counted'
  BY <1>2 DEF Counted
<1> QED
  BY <1>1, <1>3

\* A thread takes a reference out of a slot.
LEMMA SlotToHand ==
  ASSUME Valid, Counted, NEW t \in Threads, NEW x \in Objs \X Slots,
         HandHas[t] = Null,
         HandHas' = Update(HandHas, t, SlotHas[x]),
         SlotHas' = Update(SlotHas, x, Null),
         RootHas' = RootHas, Staying' = Staying, cnt' = cnt
  PROVE  Valid' /\ Counted'
<1>1. Valid'
  BY HoldersDomains, UpdateHas DEF Valid, Kept
<1>2. ASSUME NEW o \in Staying PROVE Held(o)' = Held(o)
  <2>1. Cardinality(At(HandHas', o)) = Cardinality(At(HandHas, o))
           + One(SlotHas[x], o) - One(Null, o)
    BY HoldersFinite, HoldersDomains, AtUpdate
  <2>2. Cardinality(At(SlotHas', o)) = Cardinality(At(SlotHas, o))
           + One(Null, o) - One(SlotHas[x], o)
    BY HoldersFinite, HoldersDomains, AtUpdate
  <2>3. Held(o)' = Cardinality(At(RootHas, o)) + Cardinality(At(SlotHas', o))
                     + Cardinality(At(HandHas', o))
    BY DEF Held
  <2> QED
    BY <2>1, <2>2, <2>3, HeldType DEF Held, One
<1>3. Counted'
  BY <1>2 DEF Counted
<1> QED
  BY <1>1, <1>3

\* A thread puts what it has in hand in a root and takes the old value.
LEMMA RootToHand ==
  ASSUME Valid, Counted, NEW t \in Threads, NEW x \in Threads \X Roots,
         HandHas' = Update(HandHas, t, RootHas[x]),
         RootHas' = Update(RootHas, x, HandHas[t]),
         SlotHas' = SlotHas, Staying' = Staying, cnt' = cnt
  PROVE  Valid' /\ Counted'
<1>1. Valid'
  BY HoldersDomains, UpdateHas DEF Valid, Kept
<1>2. ASSUME NEW o \in Staying PROVE Held(o)' = Held(o)
  <2>1. Cardinality(At(HandHas', o)) = Cardinality(At(HandHas, o))
           + One(RootHas[x], o) - One(HandHas[t], o)
    BY HoldersFinite, HoldersDomains, AtUpdate
  <2>2. Cardinality(At(RootHas', o)) = Cardinality(At(RootHas, o))
           + One(HandHas[t], o) - One(RootHas[x], o)
    BY HoldersFinite, HoldersDomains, AtUpdate
  <2>3. Held(o)' = Cardinality(At(RootHas', o)) + Cardinality(At(SlotHas, o))
                     + Cardinality(At(HandHas', o))
    BY DEF Held
  <2> QED
    BY <2>1, <2>2, <2>3, HeldType DEF Held, One
<1>3. Counted'
  BY <1>2 DEF Counted
<1> QED
  BY <1>1, <1>3

\* A thread takes a new reference in hand, counted.
LEMMA RefToHand ==
  ASSUME IInv, Valid, Counted, NEW t \in Threads, NEW v \in Staying,
         HandHas[t] = Null,
         HandHas' = Update(HandHas, t, v),
         RootHas' = RootHas, SlotHas' = SlotHas, Staying' = Staying,
         cnt' = [cnt EXCEPT ![v] = cnt[v] + 1]
  PROVE  Valid' /\ Counted'
<1>1. Valid'
  BY HoldersDomains, UpdateHas DEF Valid, Kept
<1>2. ASSUME NEW o \in Staying PROVE cnt'[o] = Held(o)'
  <2>1. Cardinality(At(HandHas', o)) = Cardinality(At(HandHas, o))
           + One(v, o) - One(Null, o)
    BY HoldersFinite, HoldersDomains, AtUpdate
  <2>2. Held(o)' = Cardinality(At(RootHas, o)) + Cardinality(At(SlotHas, o))
                     + Cardinality(At(HandHas', o))
    BY DEF Held
  <2>3. o \in Objs /\ v \in Objs /\ o # Null /\ cnt \in [Objs -> Int]
    BY NullAssumption DEF IInv, TypeOK, Staying
  <2>4. cnt'[o] = cnt[o] + One(v, o)
    BY <2>3 DEF One
  <2>5. cnt[o] = Held(o)
    BY DEF Counted
  <2> QED
    BY <2>1, <2>2, <2>3, <2>4, <2>5, HeldType DEF Held, One
<1>3. Counted'
  BY <1>2 DEF Counted
<1> QED
  BY <1>1, <1>3

\* A reference is stored in a slot, counted.
LEMMA RefToSlot ==
  ASSUME IInv, Valid, Counted, NEW x \in Objs \X Slots, NEW v \in Staying,
         SlotHas[x] = Null,
         SlotHas' = Update(SlotHas, x, v),
         RootHas' = RootHas, HandHas' = HandHas, Staying' = Staying,
         cnt' = [cnt EXCEPT ![v] = cnt[v] + 1]
  PROVE  Valid' /\ Counted'
<1>1. Valid'
  BY HoldersDomains, UpdateHas DEF Valid, Kept
<1>2. ASSUME NEW o \in Staying PROVE cnt'[o] = Held(o)'
  <2>1. Cardinality(At(SlotHas', o)) = Cardinality(At(SlotHas, o))
           + One(v, o) - One(Null, o)
    BY HoldersFinite, HoldersDomains, AtUpdate
  <2>2. Held(o)' = Cardinality(At(RootHas, o)) + Cardinality(At(SlotHas', o))
                     + Cardinality(At(HandHas, o))
    BY DEF Held
  <2>3. o \in Objs /\ v \in Objs /\ o # Null /\ cnt \in [Objs -> Int]
    BY NullAssumption DEF IInv, TypeOK, Staying
  <2>4. cnt'[o] = cnt[o] + One(v, o)
    BY <2>3 DEF One
  <2>5. cnt[o] = Held(o)
    BY DEF Counted
  <2> QED
    BY <2>1, <2>2, <2>3, <2>4, <2>5, HeldType DEF Held, One
<1>3. Counted'
  BY <1>2 DEF Counted
<1> QED
  BY <1>1, <1>3

\* A thread drops what it has in hand, and counts it off.
LEMMA HandDrops ==
  ASSUME IInv, Valid, Counted, NEW t \in Threads, HandHas[t] # Null,
         HandHas' = Update(HandHas, t, Null),
         RootHas' = RootHas, SlotHas' = SlotHas, Staying' = Staying,
         cnt' = [cnt EXCEPT ![HandHas[t]] = cnt[HandHas[t]] - 1]
  PROVE  Valid' /\ Counted'
<1> DEFINE v == HandHas[t]
<1>1. Valid'
  BY HoldersDomains, UpdateHas DEF Valid, Kept
<1>2. ASSUME NEW o \in Staying PROVE cnt'[o] = Held(o)'
  <2>1. Cardinality(At(HandHas', o)) = Cardinality(At(HandHas, o))
           + One(Null, o) - One(v, o)
    BY HoldersFinite, HoldersDomains, AtUpdate
  <2>2. Held(o)' = Cardinality(At(RootHas, o)) + Cardinality(At(SlotHas, o))
                     + Cardinality(At(HandHas', o))
    BY DEF Held
  <2>3. o \in Objs /\ v \in Objs /\ o # Null /\ cnt \in [Objs -> Int]
    BY NullAssumption DEF IInv, TypeOK, Staying, Valid, Kept
  <2>4. cnt'[o] = cnt[o] - One(v, o)
    BY <2>3 DEF One
  <2>5. cnt[o] = Held(o)
    BY DEF Counted
  <2> QED
    BY <2>1, <2>2, <2>3, <2>4, <2>5, HeldType DEF Held, One
<1>3. Counted'
  BY <1>2 DEF Counted
<1> QED
  BY <1>1, <1>3

\* When the count is down to one, what a thread has in hand is all there is.
LEMMA LastInHand ==
  ASSUME Valid, Counted, NEW t \in Threads, HandHas[t] # Null,
         cnt[HandHas[t]] \in {0, 1}
  PROVE  /\ cnt[HandHas[t]] = 1
         /\ \A x \in Threads \X Roots : RootHas[x] # HandHas[t]
         /\ \A x \in Objs \X Slots : SlotHas[x] # HandHas[t]
         /\ \A u \in Threads : u # t => HandHas[u] # HandHas[t]
<1> DEFINE v == HandHas[t]
<1>1. v \in Staying /\ cnt[v] = Held(v)
  BY DEF Valid, Kept, Counted
<1>2. Cardinality(At(HandHas, v)) >= 1
  BY HoldersFinite, HoldersDomains, AtHas
<1>3. /\ Cardinality(At(RootHas, v)) = 0
      /\ Cardinality(At(SlotHas, v)) = 0
      /\ Cardinality(At(HandHas, v)) = 1
      /\ cnt[v] = 1
  <2>1. Held(v) \in {0, 1}
    BY <1>1
  <2> QED
    BY <1>1, <1>2, <2>1, HeldType DEF Held
<1>4. \A x \in Threads \X Roots : RootHas[x] # v
  BY <1>3, HoldersFinite, HoldersDomains, AtNone
<1>5. \A x \in Objs \X Slots : SlotHas[x] # v
  BY <1>3, HoldersFinite, HoldersDomains, AtNone
<1>6. \A u \in Threads : u # t => HandHas[u] # v
  <2> DEFINE h == Update(HandHas, t, Null)
  <2>1. Cardinality(At(h, v)) = 0
    <3>1. Cardinality(At(h, v))
            = Cardinality(At(HandHas, v)) + One(Null, v) - One(v, v)
      BY HoldersFinite, HoldersDomains, AtUpdate
    <3> QED
      BY <1>3, <3>1 DEF One
  <2>2. /\ DOMAIN h = Threads
        /\ \A u \in Threads : u # t => h[u] = HandHas[u]
    BY HoldersDomains, UpdateHas
  <2> HIDE DEF h
  <2>3. \A u \in Threads : h[u] # v
    BY <2>1, <2>2, HoldersFinite, AtNone
  <2> QED
    BY <2>2, <2>3
<1> QED
  BY <1>3, <1>4, <1>5, <1>6

-----------------------------------------------------------------------------
(* What the steps of NanoVM_unref do to the slots that are past. *)

\* The objects that the activations of s free.
Freed(s) == {s[i].ref : i \in {j \in DOMAIN s : s[j].next > 0}}

LEMMA FreeingIsFreed == \A t \in Threads : Freeing(t) = Freed(calls[t])
  BY DEF Freeing, Freed

LEMMA ActivationTypes ==
  ASSUME NEW s \in Seq(Activations), NEW i \in 1 .. Len(s)
  PROVE  /\ s[i].ref \in Ref /\ s[i].next \in Nat /\ DOMAIN s = 1 .. Len(s)
         /\ Len(s) \in Nat
<1>1. s[i] \in Activations
  BY ElementOfSeq
<1> QED
  BY <1>1, SlotsAssumption, LenProperties DEF Activations

LEMMA PastNothing == Past(<<>>) = {} /\ Freed(<<>>) = {} /\ OnceIn(<<>>)
  BY DEF Past, Freed, OnceIn

\* NanoVM_unref begins.
LEMMA PastCall ==
  ASSUME NEW o
  PROVE  /\ Past(<<Call(o)>>) = {} /\ Freed(<<Call(o)>>) = {}
         /\ OnceIn(<<Call(o)>>)
<1> DEFINE s == <<Call(o)>>
<1>1. DOMAIN s = {1} /\ s[1].next = 0
  BY DEF Call
<1> HIDE DEF s
<1> QED
  BY <1>1 DEF Past, Freed, OnceIn, s

\* What becomes of the activations when the innermost returns.
Returned(s) == IF Tail(s) = <<>> THEN <<>> ELSE [Tail(s) EXCEPT ![1].next = @ + 1]

LEMMA ReturnedSeq ==
  ASSUME NEW s \in Seq(Activations), s # <<>>, Waiting(s)
  PROVE  /\ DOMAIN Returned(s) = 1 .. (Len(s) - 1)
         /\ DOMAIN s = 1 .. Len(s) /\ Len(s) \in Nat \ {0}
         /\ \A i \in 1 .. (Len(s) - 1) :
              /\ Returned(s)[i].ref = s[i + 1].ref
              /\ Returned(s)[i].next = s[i + 1].next + (IF i = 1 THEN 1 ELSE 0)
              /\ s[i + 1].next \in Nat /\ s[i + 1].next > 0
<1> DEFINE rest == Tail(s)
<1>1. /\ rest \in Seq(Activations) /\ Len(rest) = Len(s) - 1
      /\ \A i \in 1 .. Len(rest) : rest[i] = s[i + 1]
  BY HeadTailProperties
<1>2. /\ Len(rest) \in Nat /\ Len(s) \in Nat \ {0} /\ DOMAIN s = 1 .. Len(s)
      /\ DOMAIN rest = 1 .. Len(rest)
  BY <1>1, EmptySeq, LenProperties
<1>3. \A i \in 1 .. Len(rest) : /\ s[i + 1] \in Activations
                                /\ s[i + 1].next \in Nat /\ s[i + 1].next > 0
  <2>1. \A i \in 1 .. Len(rest) : i + 1 \in 2 .. Len(s)
    BY <1>1, <1>2
  <2> QED
    BY <1>1, <1>2, <2>1, ElementOfSeq, SlotsAssumption
    DEF Waiting, Slots
<1>4. CASE rest = <<>>
  BY <1>1, <1>2, <1>4 DEF Returned
<1>5. CASE rest # <<>>
  <2> DEFINE new == [rest EXCEPT ![1].next = @ + 1]
  <2>1. \A i \in 1 .. Len(rest) :
          new[i] = IF i = 1 THEN [rest[1] EXCEPT !.next = rest[1].next + 1]
                            ELSE rest[i]
    BY <1>2
  <2>2. \A a \in Activations : /\ [a EXCEPT !.next = a.next + 1].ref = a.ref
                               /\ [a EXCEPT !.next = a.next + 1].next = a.next + 1
    BY DEF Activations
  <2>3. Returned(s) = new /\ DOMAIN new = DOMAIN rest
    BY <1>5 DEF Returned
  <2> HIDE DEF new, rest
  <2>4. \A i \in 1 .. Len(rest) :
          /\ new[i].ref = rest[i].ref
          /\ new[i].next = rest[i].next + (IF i = 1 THEN 1 ELSE 0)
    <3> TAKE i \in 1 .. Len(rest)
    <3>1. rest[i] \in Activations /\ rest[i].next \in Nat
      BY <1>1, <1>3
    <3>2. CASE i = 1
      BY <2>1, <2>2, <3>1, <3>2
    <3>3. CASE i # 1
      BY <2>1, <3>1, <3>3
    <3> QED
      BY <3>2, <3>3
  <2> QED
    BY <1>1, <1>2, <1>3, <2>3, <2>4
<1> QED
  BY <1>4, <1>5

\* An activation that freed nothing returns: the slot that it unref'd is past.
LEMMA PastReturn ==
  ASSUME NEW s \in Seq(Activations), s # <<>>, Waiting(s), s[1].next = 0
  PROVE  /\ Past(Returned(s)) = Past(s) /\ Freed(Returned(s)) = Freed(s)
         /\ OnceIn(s) => OnceIn(Returned(s))
<1> DEFINE n == Len(s)
           new == Returned(s)
<1> HIDE DEF n, new
<1>1. /\ DOMAIN new = 1 .. (n - 1) /\ DOMAIN s = 1 .. n /\ n \in Nat \ {0}
      /\ \A i \in 1 .. (n - 1) :
           /\ new[i].ref = s[i + 1].ref
           /\ new[i].next = s[i + 1].next + (IF i = 1 THEN 1 ELSE 0)
           /\ s[i + 1].next \in Nat /\ s[i + 1].next > 0
  BY ReturnedSeq DEF n, new
<1>2. \A i \in 2 .. n : i - 1 \in 1 .. (n - 1) /\ i = (i - 1) + 1
  BY <1>1
<1>3. Past(new) = Past(s)
  <2>1. ASSUME NEW x \in Past(new) PROVE x \in Past(s)
    <3>1. PICK i \in 1 .. (n - 1) :
            /\ new[i].next > 0 /\ new[i].ref = x[1]
            /\ x[2] < new[i].next + (IF i = 1 THEN 0 ELSE 1)
      BY <1>1 DEF Past
    <3>2. /\ i + 1 \in 1 .. n /\ s[i + 1].next > 0 /\ s[i + 1].ref = x[1]
          /\ i + 1 # 1 /\ x[2] < s[i + 1].next + 1
      BY <1>1, <3>1
    <3> QED
      BY <1>1, <3>2 DEF Past
  <2>2. ASSUME NEW x \in Past(s) PROVE x \in Past(new)
    <3>1. PICK i \in 1 .. n :
            /\ s[i].next > 0 /\ s[i].ref = x[1]
            /\ x[2] < s[i].next + (IF i = 1 THEN 0 ELSE 1)
      BY <1>1 DEF Past
    <3>2. i \in 2 .. n
      BY <1>1, <3>1
    <3> DEFINE j == i - 1
    <3>3. j \in 1 .. (n - 1) /\ j + 1 = i
      BY <1>2, <3>2
    <3> HIDE DEF j
    <3>4. /\ new[j].next > 0 /\ new[j].ref = x[1]
          /\ x[2] < new[j].next + (IF j = 1 THEN 0 ELSE 1)
      BY <1>1, <3>1, <3>2, <3>3
    <3> QED
      BY <1>1, <3>3, <3>4 DEF Past
  <2>3. Past(new) \subseteq Past(s) /\ Past(s) \subseteq Past(new)
    BY <2>1, <2>2
  <2> QED
    BY <2>3
<1>4. Freed(new) = Freed(s)
  <2>1. ASSUME NEW i \in 1 .. (n - 1) PROVE new[i].ref \in Freed(s)
    <3>1. i + 1 \in DOMAIN s /\ s[i + 1].next > 0 /\ new[i].ref = s[i + 1].ref
      BY <1>1
    <3> QED
      BY <3>1 DEF Freed
  <2>2. ASSUME NEW i \in 1 .. n, s[i].next > 0 PROVE s[i].ref \in Freed(new)
    <3>1. i \in 2 .. n
      BY <1>1, <2>2
    <3>2. PICK j \in 1 .. (n - 1) : i = j + 1
      BY <1>2, <3>1
    <3>3. j \in DOMAIN new /\ new[j].next > 0 /\ new[j].ref = s[i].ref
      BY <1>1, <3>2
    <3> QED
      BY <3>3 DEF Freed
  <2>3. Freed(new) \subseteq Freed(s)
    BY <1>1, <2>1 DEF Freed
  <2>4. Freed(s) \subseteq Freed(new)
    BY <1>1, <2>2 DEF Freed
  <2> QED
    BY <2>3, <2>4
<1>5. ASSUME OnceIn(s), NEW i \in 1 .. (n - 1), NEW j \in 1 .. (n - 1),
             new[i].ref = new[j].ref
      PROVE  i = j
  <2>1. /\ i + 1 \in 1 .. n /\ j + 1 \in 1 .. n
        /\ s[i + 1].next > 0 /\ s[j + 1].next > 0
        /\ s[i + 1].ref = s[j + 1].ref
    BY <1>1, <1>5
  <2>2. i + 1 = j + 1
    BY <1>1, <1>5, <2>1 DEF OnceIn
  <2> QED
    BY <2>2
<1>6. OnceIn(s) => OnceIn(new)
  BY <1>1, <1>5 DEF OnceIn
<1> QED
  BY <1>3, <1>4, <1>6 DEF new

\* An activation that freed its object returns.
LEMMA PastFreed ==
  ASSUME NEW s \in Seq(Activations), s # <<>>, Waiting(s), s[1].next > 0,
         OnceIn(s)
  PROVE  /\ Past(Returned(s)) = {x \in Past(s) : x[1] # s[1].ref}
         /\ Freed(Returned(s)) = Freed(s) \ {s[1].ref}
         /\ OnceIn(Returned(s))
<1> DEFINE n == Len(s)
           new == Returned(s)
<1> HIDE DEF n, new
<1>1. /\ DOMAIN new = 1 .. (n - 1) /\ DOMAIN s = 1 .. n /\ n \in Nat \ {0}
      /\ \A i \in 1 .. (n - 1) :
           /\ new[i].ref = s[i + 1].ref
           /\ new[i].next = s[i + 1].next + (IF i = 1 THEN 1 ELSE 0)
           /\ s[i + 1].next \in Nat /\ s[i + 1].next > 0
  BY ReturnedSeq DEF n, new
<1>2. \A i \in 2 .. n : i - 1 \in 1 .. (n - 1) /\ i = (i - 1) + 1
  BY <1>1
<1>3. \A i \in 1 .. (n - 1) : s[i + 1].ref # s[1].ref
  <2> TAKE i \in 1 .. (n - 1)
  <2>1. i + 1 \in 1 .. n /\ 1 \in 1 .. n /\ i + 1 # 1
    BY <1>1
  <2> QED
    BY <1>1, <2>1 DEF OnceIn
<1>4. Past(new) = {x \in Past(s) : x[1] # s[1].ref}
  <2>1. ASSUME NEW x \in Past(new) PROVE x \in Past(s) /\ x[1] # s[1].ref
    <3>1. PICK i \in 1 .. (n - 1) :
            /\ new[i].next > 0 /\ new[i].ref = x[1]
            /\ x[2] < new[i].next + (IF i = 1 THEN 0 ELSE 1)
      BY <1>1 DEF Past
    <3>2. /\ i + 1 \in 1 .. n /\ s[i + 1].next > 0 /\ s[i + 1].ref = x[1]
          /\ i + 1 # 1 /\ x[2] < s[i + 1].next + 1
      BY <1>1, <3>1
    <3> QED
      BY <1>1, <1>3, <3>2 DEF Past
  <2>2. ASSUME NEW x \in Past(s), x[1] # s[1].ref PROVE x \in Past(new)
    <3>1. PICK i \in 1 .. n :
            /\ s[i].next > 0 /\ s[i].ref = x[1]
            /\ x[2] < s[i].next + (IF i = 1 THEN 0 ELSE 1)
      BY <1>1 DEF Past
    <3>2. i \in 2 .. n
      BY <1>1, <2>2, <3>1
    <3>3. PICK j \in 1 .. (n - 1) : i = j + 1
      BY <1>2, <3>2
    <3>4. /\ new[j].next > 0 /\ new[j].ref = x[1]
          /\ x[2] < new[j].next + (IF j = 1 THEN 0 ELSE 1)
      BY <1>1, <3>1, <3>2, <3>3
    <3> QED
      BY <1>1, <3>3, <3>4 DEF Past
  <2>3. /\ Past(new) \subseteq {x \in Past(s) : x[1] # s[1].ref}
        /\ {x \in Past(s) : x[1] # s[1].ref} \subseteq Past(new)
    BY <2>1, <2>2
  <2> QED
    BY <2>3
<1>5. Freed(new) = Freed(s) \ {s[1].ref}
  <2>1. ASSUME NEW i \in 1 .. (n - 1)
        PROVE  new[i].ref \in Freed(s) \ {s[1].ref}
    <3>1. i + 1 \in DOMAIN s /\ s[i + 1].next > 0 /\ new[i].ref = s[i + 1].ref
      BY <1>1
    <3> QED
      BY <1>3, <3>1 DEF Freed
  <2>2. ASSUME NEW i \in 1 .. n, s[i].ref # s[1].ref
        PROVE  s[i].ref \in Freed(new)
    <3>1. i \in 2 .. n
      BY <1>1, <2>2
    <3>2. PICK j \in 1 .. (n - 1) : i = j + 1
      BY <1>2, <3>1
    <3>3. j \in DOMAIN new /\ new[j].next > 0 /\ new[j].ref = s[i].ref
      BY <1>1, <3>2
    <3> QED
      BY <3>3 DEF Freed
  <2>3. Freed(new) \subseteq Freed(s) \ {s[1].ref}
    BY <1>1, <2>1 DEF Freed
  <2>4. Freed(s) \ {s[1].ref} \subseteq Freed(new)
    <3> SUFFICES ASSUME NEW o \in Freed(s), o # s[1].ref
                 PROVE  o \in Freed(new)
      OBVIOUS
    <3>1. PICK i \in 1 .. n : o = s[i].ref
      BY <1>1 DEF Freed
    <3> QED
      BY <2>2, <3>1
  <2> QED
    BY <2>3, <2>4
<1>6. ASSUME NEW i \in 1 .. (n - 1), NEW j \in 1 .. (n - 1),
             new[i].ref = new[j].ref
      PROVE  i = j
  <2>1. /\ i + 1 \in 1 .. n /\ j + 1 \in 1 .. n
        /\ s[i + 1].next > 0 /\ s[j + 1].next > 0
        /\ s[i + 1].ref = s[j + 1].ref
    BY <1>1, <1>6
  <2>2. i + 1 = j + 1
    BY <1>1, <2>1 DEF OnceIn
  <2> QED
    BY <2>2
<1>7. OnceIn(new)
  BY <1>1, <1>6 DEF OnceIn
<1> QED
  BY <1>4, <1>5, <1>7 DEF new

\* _free_obj comes to the next slot of its object.
LEMMA PastDep ==
  ASSUME NEW s \in Seq(Activations), s # <<>>, Waiting(s), s[1].next > 0,
         s[1].ref \in Objs, s[1].next \in Slots, NEW o \in Ref
  PROVE  LET new == <<Call(o)>> \o s IN
         /\ Past(new) = Past(s) \cup {<<s[1].ref, s[1].next>>}
         /\ Freed(new) = Freed(s)
         /\ OnceIn(s) => OnceIn(new)
<1> DEFINE n == Len(s)
           c == <<Call(o)>>
           new == c \o s
<1>1. /\ DOMAIN new = 1 .. (n + 1) /\ DOMAIN s = 1 .. n /\ n \in Nat \ {0}
      /\ new[1].next = 0
      /\ \A i \in 1 .. n : new[i + 1] = s[i] /\ s[i].next \in Nat
  <2>1. c \in Seq(Activations) /\ Len(c) = 1
    BY SlotsAssumption DEF Activations, Call
  <2>2. n \in Nat \ {0} /\ DOMAIN s = 1 .. n
    BY EmptySeq, LenProperties
  <2>3. /\ new \in Seq(Activations) /\ Len(new) = 1 + n
        /\ \A i \in 1 .. 1 + n : new[i] = IF i <= 1 THEN c[i] ELSE s[i - 1]
    <3>1. /\ c \o s \in Seq(Activations) /\ Len(c \o s) = Len(c) + Len(s)
          /\ \A i \in 1 .. Len(c) + Len(s) :
               (c \o s)[i] = IF i <= Len(c) THEN c[i] ELSE s[i - Len(c)]
      BY <2>1, ConcatProperties
    <3> HIDE DEF c
    <3> QED
      BY <2>1, <2>2, <3>1
  <2>4. c[1].next = 0
    BY DEF Call
  <2>5. DOMAIN new = 1 .. (n + 1)
    <3> HIDE DEF new
    <3> QED
      BY <2>2, <2>3, LenProperties
  <2>6. \A i \in 1 .. n : s[i].next \in Nat
    BY ActivationTypes
  <2> HIDE DEF c, new, n
  <2> QED
    BY <2>2, <2>3, <2>4, <2>5, <2>6
<1> HIDE DEF n, new, c
<1>2. \A i \in 2 .. (n + 1) : \E j \in 1 .. n : i = j + 1
  <2> TAKE i \in 2 .. (n + 1)
  <2>1. i - 1 \in 1 .. n /\ i = (i - 1) + 1
    BY <1>1
  <2> QED
    BY <2>1
<1>3. Past(new) = Past(s) \cup {<<s[1].ref, s[1].next>>}
  <2>1. ASSUME NEW x \in Past(new)
        PROVE  x \in Past(s) \cup {<<s[1].ref, s[1].next>>}
    <3>1. PICK i \in 1 .. (n + 1) :
            /\ new[i].next > 0 /\ new[i].ref = x[1]
            /\ x[2] < new[i].next + (IF i = 1 THEN 0 ELSE 1)
      BY <1>1 DEF Past
    <3>2. i \in 2 .. (n + 1)
      BY <1>1, <3>1
    <3>3. PICK j \in 1 .. n : i = j + 1
      BY <1>2, <3>2
    <3>4. s[j].next > 0 /\ s[j].ref = x[1] /\ x[2] < s[j].next + 1
      BY <1>1, <3>1, <3>2, <3>3
    <3>5. x \in Objs \X Slots
      BY DEF Past
    <3>6. CASE j # 1 \/ x[2] < s[j].next
      <4>1. x[2] < s[j].next + (IF j = 1 THEN 0 ELSE 1)
        BY <1>1, <3>4, <3>5, <3>6
      <4> QED
        BY <1>1, <3>4, <3>5, <4>1 DEF Past
    <3>7. CASE j = 1 /\ ~(x[2] < s[j].next)
      <4>1. x[2] = s[1].next /\ x[1] = s[1].ref
        BY <1>1, <3>4, <3>5, <3>7, SlotsAssumption DEF Slots
      <4> QED
        BY <3>5, <4>1
    <3> QED
      BY <3>6, <3>7
  <2>2. ASSUME NEW x \in Past(s) PROVE x \in Past(new)
    <3>1. PICK i \in 1 .. n :
            /\ s[i].next > 0 /\ s[i].ref = x[1]
            /\ x[2] < s[i].next + (IF i = 1 THEN 0 ELSE 1)
      BY <1>1 DEF Past
    <3>2. x \in Objs \X Slots
      BY DEF Past
    <3>3. /\ i + 1 \in DOMAIN new /\ new[i + 1] = s[i] /\ i + 1 # 1
          /\ x[2] < s[i].next + 1
      BY <1>1, <3>1, <3>2, SlotsAssumption DEF Slots
    <3> QED
      BY <3>1, <3>2, <3>3 DEF Past
  <2>3. <<s[1].ref, s[1].next>> \in Past(new)
    <3>1. /\ 2 \in DOMAIN new /\ new[2] = s[1] /\ s[1].next < s[1].next + 1
      <4>1. 1 \in 1 .. n /\ 1 + 1 = 2
        BY <1>1
      <4> QED
        BY <1>1, <4>1
    <3> QED
      BY <3>1 DEF Past
  <2>4. /\ Past(new) \subseteq Past(s) \cup {<<s[1].ref, s[1].next>>}
        /\ Past(s) \cup {<<s[1].ref, s[1].next>>} \subseteq Past(new)
    BY <2>1, <2>2, <2>3
  <2> QED
    BY <2>4
<1>4. Freed(new) = Freed(s)
  <2>1. ASSUME NEW i \in 1 .. n, s[i].next > 0 PROVE s[i].ref \in Freed(new)
    <3>1. i + 1 \in DOMAIN new /\ new[i + 1] = s[i]
      BY <1>1
    <3> QED
      BY <2>1, <3>1 DEF Freed
  <2>2. ASSUME NEW i \in 1 .. (n + 1), new[i].next > 0
        PROVE  new[i].ref \in Freed(s)
    <3>1. i \in 2 .. (n + 1)
      BY <1>1, <2>2
    <3>2. PICK j \in 1 .. n : i = j + 1
      BY <1>2, <3>1
    <3>3. j \in DOMAIN s /\ s[j].next > 0 /\ s[j].ref = new[i].ref
      BY <1>1, <2>2, <3>2
    <3> QED
      BY <3>3 DEF Freed
  <2>3. Freed(s) \subseteq Freed(new)
    BY <1>1, <2>1 DEF Freed
  <2>4. Freed(new) \subseteq Freed(s)
    BY <1>1, <2>2 DEF Freed
  <2> QED
    BY <2>3, <2>4
<1>5. ASSUME OnceIn(s), NEW i \in 1 .. (n + 1), NEW j \in 1 .. (n + 1),
             new[i].next > 0, new[j].next > 0, new[i].ref = new[j].ref
      PROVE  i = j
  <2>1. i \in 2 .. (n + 1) /\ j \in 2 .. (n + 1)
    BY <1>1, <1>5
  <2>2. PICK a \in 1 .. n : i = a + 1
    BY <1>2, <2>1
  <2>3. PICK b \in 1 .. n : j = b + 1
    BY <1>2, <2>1
  <2>4. s[a].next > 0 /\ s[b].next > 0 /\ s[a].ref = s[b].ref
    BY <1>1, <1>5, <2>2, <2>3
  <2>5. a = b
    BY <1>1, <1>5, <2>4 DEF OnceIn
  <2> QED
    BY <2>2, <2>3, <2>5
<1>6. OnceIn(s) => OnceIn(new)
  BY <1>1, <1>5 DEF OnceIn
<1> QED
  BY <1>3, <1>4, <1>6 DEF new, c

\* The last reference of an object is found: none of its slots is past yet.
LEMMA PastFirst ==
  ASSUME NEW s \in Seq(Activations), s # <<>>, s[1].next = 0,
         s[1].ref \notin Freed(s)
  PROVE  LET new == [s EXCEPT ![1].next = 1] IN
         /\ Past(new) = Past(s) /\ Freed(new) = Freed(s) \cup {s[1].ref}
         /\ OnceIn(s) => OnceIn(new)
<1> DEFINE n == Len(s)
           new == [s EXCEPT ![1].next = 1]
<1>1. /\ DOMAIN new = 1 .. n /\ DOMAIN s = 1 .. n /\ n \in Nat \ {0}
      /\ new[1].next = 1 /\ new[1].ref = s[1].ref
      /\ \A i \in 1 .. n : i # 1 => new[i] = s[i]
  <2>1. DOMAIN s = 1 .. n /\ n \in Nat \ {0}
    BY EmptySeq, LenProperties
  <2>2. s[1] \in Activations
    BY <2>1, ElementOfSeq
  <2> QED
    BY <2>1, <2>2 DEF Activations
<1> HIDE DEF n, new
<1>2. Past(new) = Past(s)
  <2>1. ASSUME NEW x \in Objs \X Slots, NEW i \in 1 .. n
        PROVE  (/\ new[i].next > 0 /\ new[i].ref = x[1]
                /\ x[2] < new[i].next + (IF i = 1 THEN 0 ELSE 1))
           <=> (/\ s[i].next > 0 /\ s[i].ref = x[1]
                /\ x[2] < s[i].next + (IF i = 1 THEN 0 ELSE 1))
    <3>1. x[2] \in Nat /\ x[2] >= 1
      BY SlotsAssumption DEF Slots
    <3>2. CASE i = 1
      BY <1>1, <3>1, <3>2
    <3>3. CASE i # 1
      BY <1>1, <3>3
    <3> QED
      BY <3>2, <3>3
  <2> QED
    BY <1>1, <2>1 DEF Past
<1>3. Freed(new) = Freed(s) \cup {s[1].ref}
  <2>1. s[1].ref \in Freed(new)
    BY <1>1 DEF Freed
  <2>2. ASSUME NEW i \in 1 .. n, s[i].next > 0 PROVE s[i].ref \in Freed(new)
    BY <1>1, <2>2 DEF Freed
  <2>3. ASSUME NEW i \in 1 .. n, new[i].next > 0
        PROVE  new[i].ref \in Freed(s) \cup {s[1].ref}
    BY <1>1, <2>3 DEF Freed
  <2>4. Freed(s) \cup {s[1].ref} \subseteq Freed(new)
    BY <1>1, <2>1, <2>2 DEF Freed
  <2>5. Freed(new) \subseteq Freed(s) \cup {s[1].ref}
    BY <1>1, <2>3 DEF Freed
  <2> QED
    BY <2>4, <2>5
<1>4. ASSUME OnceIn(s), NEW i \in 1 .. n, NEW j \in 1 .. n,
             new[i].next > 0, new[j].next > 0, new[i].ref = new[j].ref
      PROVE  i = j
  <2>1. \A k \in 1 .. n : k # 1 /\ new[k].next > 0 => new[k].ref # s[1].ref
    BY <1>1 DEF Freed
  <2> QED
    BY <1>1, <1>4, <2>1 DEF OnceIn
<1>5. OnceIn(s) => OnceIn(new)
  BY <1>1, <1>4 DEF OnceIn
<1> QED
  BY <1>2, <1>3, <1>5 DEF new

-----------------------------------------------------------------------------
(* What the invariant says of one state. *)

LEMMA StayingFacts ==
  /\ Staying \subseteq live
  /\ \A o : o \in Staying <=> o \in live /\ \A t \in Threads : o \notin Freed(calls[t])
  /\ IInv => Null \notin Staying /\ Staying \subseteq Objs
<1>1. Dying = UNION {Freed(calls[t]) : t \in Threads}
  BY FreeingIsFreed DEF Dying
<1> QED
  BY <1>1, NullAssumption DEF Staying, IInv, TypeOK

\* An object that is past a slot of its own is being freed.
LEMMA PastIsFreed ==
  ASSUME NEW s, NEW x \in Past(s)
  PROVE  x[1] \in Freed(s) /\ x \in Objs \X Slots
  BY DEF Past, Freed

LEMMA HandIs ==
  \A t \in Threads :
    HandHas[t] = IF pc[t] \in ToUnref THEN Active(t).ref
                 ELSE IF OldInHand(t) THEN job[t].old
                 ELSE IF NewInHand(t) THEN var[t]
                 ELSE Null
  BY DEF HandHas

LEMMA RootIs ==
  \A t \in Threads, r \in Roots :
    RootHas[<<t, r>>] = IF Stored(t) /\ job[t].at = r THEN var[t]
                                                      ELSE root[t][r]
  BY DEF RootHas

LEMMA SlotIs ==
  \A x \in Objs \X Slots :
    SlotHas[x] = IF x[1] \in live /\ \A t \in Threads : x \notin Open(t)
                 THEN field[x[1]][x[2]] ELSE Null
  BY DEF SlotHas

\* The object of a field assignment stays, and its slot is the thread's own.
LEMMA FieldJobSlot ==
  ASSUME RInv, NEW t \in Threads, job[t].kind = "field"
  PROVE  /\ job[t].obj \in Staying
         /\ \E r \in Roots : RootHas[<<t, r>>] = job[t].obj
         /\ <<job[t].obj, job[t].at>> \in Objs \X Slots
         /\ \A u \in Threads : <<job[t].obj, job[t].at>> \notin Past(calls[u])
         /\ \A u \in Threads : u # t => <<job[t].obj, job[t].at>> \notin Open(u)
<1> DEFINE o == job[t].obj
           x == <<o, job[t].at>>
<1>1. PICK r \in Roots : root[t][r] = o
  BY DEF RInv, FieldJobOK
<1>2. RootHas[<<t, r>>] = o
  BY <1>1, RootIs DEF Stored
<1>3. o \in uses[t] /\ o \in Objs /\ job[t].at \in Slots
  BY DEF RInv, FieldJobOK, IInv, TypeOK
<1>4. o \in Staying
  BY <1>2, <1>3, NullAssumption DEF RInv, Valid, Kept
<1>5. \A u \in Threads : x \notin Past(calls[u])
  BY <1>4, PastIsFreed, StayingFacts
<1>6. \A u \in Threads : u # t => x \notin Written(u)
  BY <1>3 DEF RInv, FieldsExclusive, FieldJobOK, Written
<1> QED
  BY <1>1, <1>2, <1>3, <1>4, <1>5, <1>6 DEF Open

\* A value that was stored is where it was stored.
LEMMA LateVar ==
  ASSUME RInv, NEW t \in Threads, ~Pending(t)
  PROVE  \/ \E r \in Roots : RootHas[<<t, r>>] = var[t]
         \/ pc[t] = "refUnlock" /\ HandHas[t] = var[t]
         \/ \E x \in Objs \X Slots : SlotHas[x] = var[t]
<1>1. pc[t] \in {"refUnlock", "unref", "isZero", "last", "dec", "decUnlock",
                 "free"}
  BY DEF RInv, IInv, TypeOK, Labels, Pending
<1>2. job[t].kind \in {"local", "field"}
  BY <1>1 DEF RInv, IInv, TypeOK, Jobs, Phase
<1>3. CASE job[t].kind = "local" /\ pc[t] = "refUnlock"
  BY <1>3, HandIs DEF NewInHand, OldInHand
<1>4. CASE job[t].kind = "local" /\ pc[t] # "refUnlock"
  BY <1>1, <1>4, RootIs DEF Stored, RInv, IInv, JobOK
<1>5. CASE job[t].kind = "field"
  <2> DEFINE x == <<job[t].obj, job[t].at>>
  <2>1. /\ job[t].obj \in live /\ x \in Objs \X Slots
        /\ \A u \in Threads : x \notin Open(u)
    BY <1>1, <1>5, FieldJobSlot, StayingFacts DEF Open, Written
  <2>2. SlotHas[x] = field[job[t].obj][job[t].at]
    BY <2>1, SlotIs
  <2>3. field[job[t].obj][job[t].at] = var[t]
    BY <1>1, <1>5 DEF RInv, FieldJobOK
  <2> QED
    BY <2>1, <2>2, <2>3
<1> QED
  BY <1>2, <1>3, <1>4, <1>5

\* What a pointer refers to stays.
LEMMA VarValid ==
  ASSUME RInv, NEW t \in Threads
  PROVE  var[t] \in Kept
<1>1. CASE Pending(t)
  <2>1. CASE Fresh(t)
    BY <2>1 DEF Fresh, Kept
  <2>2. ASSUME NEW r \in Roots, RootHas[<<t, r>>] = var[t]
        PROVE  var[t] \in Kept
    BY <2>2 DEF RInv, Valid
  <2>3. CASE HandHas[t] = var[t]
    BY <2>3 DEF RInv, Valid
  <2>4. ASSUME NEW r \in Roots, NEW s \in Slots, RootHas[<<t, r>>] \in uses[t],
               SlotHas[<<RootHas[<<t, r>>], s>>] = var[t]
        PROVE  var[t] \in Kept
    <3>1. RootHas[<<t, r>>] \in Objs
      BY <2>4 DEF RInv, IInv, TypeOK
    <3> QED
      BY <2>4, <3>1 DEF RInv, Valid
  <2> QED
    BY <1>1, <2>1, <2>2, <2>3, <2>4 DEF RInv, VarOK, Guarded, Kept
<1>2. CASE ~Pending(t)
  BY <1>2, LateVar DEF RInv, Valid
<1> QED
  BY <1>1, <1>2

-----------------------------------------------------------------------------
(* What a step of t leaves to the others. *)

Elsewhere(t) ==
  \A u \in Threads : u # t =>
    /\ pc'[u] = pc[u] /\ job'[u] = job[u] /\ calls'[u] = calls[u]
    /\ var'[u] = var[u] /\ uses'[u] = uses[u] /\ root'[u] = root[u]

\* A step of t changes no other thread's variables.
LEMMA StepElsewhere ==
  ASSUME RInv, NEW t \in Threads, Start(t) \/ Step(t)
  PROVE  Elsewhere(t)
<1> USE DEF RInv, IInv, TypeOK, Elsewhere, Goto, heap, contents, thread
<1>1. CASE Start(t)
  BY <1>1
  DEF Start, AllocHeap, GetLocal, GetField, SetLocal, PutField, ReleaseThread,
      Ready
<1>2. CASE StoreField(t) \/ RefInc(t) \/ UnrefIsOne(t) \/ UnrefIsZero(t)
             \/ UnrefDec(t)
  BY <1>2 DEF StoreField, RefInc, UnrefIsOne, UnrefIsZero, UnrefDec
<1>3. CASE RefNull(t) \/ RefUnlock(t)
  BY <1>3 DEF RefNull, RefUnlock, UnrefOld
<1>4. CASE UnrefLast(t) \/ FreeDep(t)
  BY <1>4 DEF UnrefLast, FreeFrom, FreeDep
<1>5. CASE Return(t)
  BY <1>5 DEF Return, ReturnStepping, Finish
<1> QED
  BY <1>1, <1>2, <1>3, <1>4, <1>5 DEF Step, UnrefNull, UnrefUnlock, FreeHeap

LEMMA HandFrame ==
  ASSUME NEW t \in Threads, Elsewhere(t)
  PROVE  \A u \in Threads : u # t => HandHas'[u] = HandHas[u]
<1> SUFFICES ASSUME NEW u \in Threads, u # t
             PROVE  HandHas'[u] = HandHas[u]
  OBVIOUS
<1>1. /\ HandHas'[u] = IF pc'[u] \in ToUnref THEN Active(u)'.ref
                       ELSE IF OldInHand(u)' THEN job'[u].old
                       ELSE IF NewInHand(u)' THEN var'[u]
                       ELSE Null
      /\ HandHas[u] = IF pc[u] \in ToUnref THEN Active(u).ref
                      ELSE IF OldInHand(u) THEN job[u].old
                      ELSE IF NewInHand(u) THEN var[u]
                      ELSE Null
  BY DEF HandHas
<1> QED
  BY <1>1 DEF Elsewhere, Active, OldInHand, NewInHand

LEMMA HandSame ==
  ASSUME NEW t \in Threads, Elsewhere(t), HandHas'[t] = HandHas[t]
  PROVE  HandHas' = HandHas
<1>1. \A u \in Threads : HandHas'[u] = HandHas[u]
  BY HandFrame
<1>2. HandHas = [u \in Threads |-> HandHas[u]]
  BY DEF HandHas
<1>3. HandHas' = [u \in Threads |-> HandHas'[u]]
  BY DEF HandHas
<1> QED
  BY <1>1, <1>2, <1>3

LEMMA HandUpdate ==
  ASSUME NEW t \in Threads, Elsewhere(t), NEW v, HandHas'[t] = v
  PROVE  HandHas' = Update(HandHas, t, v)
<1>1. \A u \in Threads : HandHas'[u] = Update(HandHas, t, v)[u]
  BY HandFrame, HoldersDomains, UpdateHas
<1>2. HandHas' = [u \in Threads |-> HandHas'[u]]
  BY DEF HandHas
<1>3. Update(HandHas, t, v) = [u \in Threads |-> Update(HandHas, t, v)[u]]
  BY DEF Update, HandHas
<1> QED
  BY <1>1, <1>2, <1>3

LEMMA RootFrame ==
  ASSUME NEW t \in Threads, Elsewhere(t)
  PROVE  \A u \in Threads, r \in Roots :
           u # t => RootHas'[<<u, r>>] = RootHas[<<u, r>>]
<1> SUFFICES ASSUME NEW u \in Threads, NEW r \in Roots, u # t
             PROVE  RootHas'[<<u, r>>] = RootHas[<<u, r>>]
  OBVIOUS
<1>1. /\ RootHas'[<<u, r>>] = IF Stored(u)' /\ job'[u].at = r THEN var'[u]
                              ELSE root'[u][r]
      /\ RootHas[<<u, r>>] = IF Stored(u) /\ job[u].at = r THEN var[u]
                             ELSE root[u][r]
  BY DEF RootHas
<1> QED
  BY <1>1 DEF Elsewhere, Stored

LEMMA RootSame ==
  ASSUME NEW t \in Threads, Elsewhere(t),
         \A r \in Roots : RootHas'[<<t, r>>] = RootHas[<<t, r>>]
  PROVE  RootHas' = RootHas
<1>1. \A x \in Threads \X Roots : RootHas'[x] = RootHas[x]
  BY RootFrame
<1>2. RootHas = [x \in Threads \X Roots |-> RootHas[x]]
  BY DEF RootHas
<1>3. RootHas' = [x \in Threads \X Roots |-> RootHas'[x]]
  BY DEF RootHas
<1> QED
  BY <1>1, <1>2, <1>3

LEMMA RootUpdate ==
  ASSUME NEW t \in Threads, Elsewhere(t), NEW p \in Roots, NEW v,
         RootHas'[<<t, p>>] = v,
         \A r \in Roots : r # p => RootHas'[<<t, r>>] = RootHas[<<t, r>>]
  PROVE  RootHas' = Update(RootHas, <<t, p>>, v)
<1>1. \A x \in Threads \X Roots :
        RootHas'[x] = Update(RootHas, <<t, p>>, v)[x]
  <2> SUFFICES ASSUME NEW u \in Threads, NEW r \in Roots
               PROVE  RootHas'[<<u, r>>] = Update(RootHas, <<t, p>>, v)[<<u, r>>]
    OBVIOUS
  <2>1. Update(RootHas, <<t, p>>, v)[<<u, r>>] =
          IF <<u, r>> = <<t, p>> THEN v ELSE RootHas[<<u, r>>]
    BY HoldersDomains DEF Update
  <2>2. CASE u # t
    BY <2>1, <2>2, RootFrame
  <2>3. CASE u = t
    BY <2>1, <2>3
  <2> QED
    BY <2>2, <2>3
<1>2. RootHas' = [x \in Threads \X Roots |-> RootHas'[x]]
  BY DEF RootHas
<1>3. Update(RootHas, <<t, p>>, v)
        = [x \in Threads \X Roots |-> Update(RootHas, <<t, p>>, v)[x]]
  BY DEF Update, RootHas
<1> QED
  BY <1>1, <1>2, <1>3

LEMMA OpenFrame ==
  ASSUME NEW t \in Threads, Elsewhere(t)
  PROVE  \A u \in Threads : u # t => Open(u)' = Open(u)
  BY DEF Elsewhere, Open, Written

LEMMA SlotSame ==
  ASSUME NEW t \in Threads, Elsewhere(t), Open(t)' = Open(t),
         live' = live, field' = field
  PROVE  SlotHas' = SlotHas
<1>1. \A u \in Threads : Open(u)' = Open(u)
  BY OpenFrame
<1> QED
  BY <1>1 DEF SlotHas

\* Slots that a thread opens or closes, one at a time.
LEMMA SlotUpdate ==
  ASSUME NEW t \in Threads, Elsewhere(t), live' = live,
         NEW x \in Objs \X Slots, NEW v, SlotHas'[x] = v,
         \A y \in Objs \X Slots : y # x =>
           /\ y \in Open(t)' <=> y \in Open(t)
           /\ field'[y[1]][y[2]] = field[y[1]][y[2]]
  PROVE  SlotHas' = Update(SlotHas, x, v)
<1>1. \A y \in Objs \X Slots : SlotHas'[y] = Update(SlotHas, x, v)[y]
  <2> SUFFICES ASSUME NEW y \in Objs \X Slots, y # x
               PROVE  SlotHas'[y] = SlotHas[y]
    <3>1. \A y \in Objs \X Slots :
            Update(SlotHas, x, v)[y] = IF y = x THEN v ELSE SlotHas[y]
      BY HoldersDomains DEF Update
    <3> QED
      BY <3>1
  <2>1. \A u \in Threads : y \in Open(u)' <=> y \in Open(u)
    BY OpenFrame
  <2>2. /\ SlotHas'[y] = IF y[1] \in live' /\ \A u \in Threads : y \notin Open(u)'
                         THEN field'[y[1]][y[2]] ELSE Null
        /\ SlotHas[y] = IF y[1] \in live /\ \A u \in Threads : y \notin Open(u)
                        THEN field[y[1]][y[2]] ELSE Null
    BY DEF SlotHas
  <2> QED
    BY <2>1, <2>2
<1>2. SlotHas' = [y \in Objs \X Slots |-> SlotHas'[y]]
  BY DEF SlotHas
<1>3. Update(SlotHas, x, v)
        = [y \in Objs \X Slots |-> Update(SlotHas, x, v)[y]]
  BY DEF Update, SlotHas
<1> QED
  BY <1>1, <1>2, <1>3

\* The objects that the others free are freed by them alone.
LEMMA OnceKept ==
  ASSUME RInv, NEW t \in Threads, Elsewhere(t), OnceIn(calls'[t]),
         Freed(calls'[t]) \subseteq Freed(calls[t]) \cup Staying,
         Freed(calls'[t]) \subseteq live',
         \A u \in Threads : u # t => Freed(calls[u]) \subseteq live'
  PROVE  Once'
<1>1. \A u \in Threads : u # t => calls'[u] = calls[u]
  BY DEF Elsewhere
<1>2. /\ \A u \in Threads : OnceIn(calls[u])
      /\ \A u, w \in Threads : u # w => Freed(calls[u]) \cap Freed(calls[w]) = {}
  BY FreeingIsFreed DEF RInv, Once
<1>3. \A u \in Threads : OnceIn(calls'[u]) /\ Freed(calls'[u]) \subseteq live'
  BY <1>1, <1>2
<1>4. \A u, w \in Threads : u # w => Freed(calls'[u]) \cap Freed(calls'[w]) = {}
  <2>1. \A u \in Threads : Staying \cap Freed(calls[u]) = {}
    BY StayingFacts
  <2> QED
    BY <1>1, <1>2, <2>1
<1>5. \A u \in Threads : Freeing(u)' = Freed(calls'[u])
  BY DEF Freeing, Freed
<1> QED
  BY <1>3, <1>4, <1>5 DEF Once

\* What stays when t frees what it freed.
LEMMA StayingKept ==
  ASSUME RInv, NEW t \in Threads, Elsewhere(t), OnceIn(calls'[t]),
         Freed(calls'[t]) = Freed(calls[t]), live' = live
  PROVE  Staying' = Staying /\ Once'
<1>1. \A u \in Threads : Freeing(u)' = Freeing(u)
  <2>1. \A u \in Threads : Freeing(u)' = Freed(calls'[u])
    BY DEF Freeing, Freed
  <2> QED
    BY <2>1, FreeingIsFreed DEF Elsewhere
<1>2. Staying' = Staying
  BY <1>1 DEF Staying, Dying
<1>3. \A u \in Threads : Freed(calls[u]) \subseteq live
  BY FreeingIsFreed DEF RInv, Once
<1>4. Once'
  BY <1>3, OnceKept
<1> QED
  BY <1>2, <1>4

-----------------------------------------------------------------------------
(* Where a step finds what it puts anywhere. *)

Seen(t) ==
  {RootHas[x] : x \in Threads \X Roots} \cup {SlotHas[x] : x \in Objs \X Slots}
    \cup {HandHas[t], var[t], Null} \cup (Objs \ live)

\* A thread's new object stays its own while others go on.
LEMMA FreshKept ==
  ASSUME RInv, NEW t \in Threads, Elsewhere(t), NEW u \in Threads, u # t,
         Fresh(u), var[u] \in Staying',
         \A x \in Threads \X Roots : RootHas'[x] \in Seen(t),
         \A x \in Objs \X Slots : SlotHas'[x] \in Seen(t),
         HandHas'[t] \in Seen(t), var'[t] \in Seen(t)
  PROVE  Fresh(u)'
<1>1. var[u] \notin Seen(t)
  BY StayingFacts DEF RInv, Fresh, Others, Seen
<1>2. /\ \A x \in Threads \X Roots : RootHas'[x] # var[u]
      /\ \A x \in Objs \X Slots : SlotHas'[x] # var[u]
  BY <1>1
<1>3. \A w \in Threads : HandHas'[w] # var[u]
  <2>1. \A w \in Threads : HandHas[w] # var[u]
    BY DEF Fresh, Others
  <2> QED
    BY <1>1, <2>1, HandFrame
<1>4. \A w \in Threads \ {u} : var'[w] # var[u]
  <2>1. \A w \in Threads \ {u} : var[w] # var[u]
    BY DEF Fresh, Others
  <2> QED
    BY <1>1, <2>1 DEF Elsewhere
<1>5. var'[u] = var[u]
  BY DEF Elsewhere
<1> QED
  BY <1>2, <1>3, <1>4, <1>5 DEF Fresh, Others

\* What a root of another thread has, or a field it is at work on, is still
\* there.
LEMMA GuardKept ==
  ASSUME RInv, NEW t \in Threads, Elsewhere(t), NEW u \in Threads, u # t,
         Guarded(u),
         \A x \in Objs \X Slots :
           x[1] \in Staying \ uses[t] => SlotHas'[x] = SlotHas[x]
  PROVE  Guarded(u)'
<1>1. /\ var'[u] = var[u] /\ uses'[u] = uses[u] /\ HandHas'[u] = HandHas[u]
      /\ \A r \in Roots : RootHas'[<<u, r>>] = RootHas[<<u, r>>]
  BY HandFrame, RootFrame DEF Elsewhere
<1>2. \A r \in Roots : RootHas[<<u, r>>] \in uses[u] =>
        RootHas[<<u, r>>] \in Staying \ uses[t] /\ RootHas[<<u, r>>] \in Objs
  <2> SUFFICES ASSUME NEW r \in Roots, RootHas[<<u, r>>] \in uses[u]
               PROVE  RootHas[<<u, r>>] \in Staying \ uses[t]
                      /\ RootHas[<<u, r>>] \in Objs
    OBVIOUS
  <2>1. RootHas[<<u, r>>] \in Objs /\ RootHas[<<u, r>>] \notin uses[t]
    BY DEF RInv, IInv, TypeOK, FieldsExclusive
  <2> QED
    BY <2>1, NullAssumption DEF RInv, Valid, Kept
<1>3. ASSUME NEW r \in Roots, NEW s \in Slots, RootHas[<<u, r>>] \in uses[u],
             SlotHas[<<RootHas[<<u, r>>], s>>] = var[u]
      PROVE  SlotHas'[<<RootHas'[<<u, r>>], s>>] = var'[u]
             /\ RootHas'[<<u, r>>] \in uses'[u]
  <2> DEFINE x == <<RootHas[<<u, r>>], s>>
  <2>1. x \in Objs \X Slots /\ x[1] \in Staying \ uses[t]
    BY <1>2, <1>3
  <2>2. SlotHas'[x] = SlotHas[x]
    BY <2>1
  <2> QED
    BY <1>1, <1>3, <2>2
<1> QED
  BY <1>1, <1>3 DEF Guarded

LEMMA FieldJobKept ==
  ASSUME RInv, NEW t \in Threads, Elsewhere(t), NEW u \in Threads, u # t,
         \A o \in Staying \ uses[t] : field'[o] = field[o] /\ arity'[o] = arity[o]
  PROVE  FieldJobOK(u)'
<1>1. job'[u].kind = "field" => job[u].kind = "field"
  BY DEF Elsewhere
<1>2. job[u].kind = "field" => job[u].obj \in Staying \ uses[t]
  BY FieldJobSlot DEF RInv, FieldJobOK, FieldsExclusive
<1>3. FieldJobOK(u)
  BY DEF RInv
<1> QED
  BY <1>1, <1>2, <1>3 DEF FieldJobOK, Elsewhere

\* Who is alone with an object stays alone: nobody finds it anywhere.
LEMMA AloneKept ==
  ASSUME RInv, NEW t \in Threads, Elsewhere(t), NEW u \in Threads, u # t,
         pc[u] = "last", Alone(u),
         \A x \in Threads \X Roots : RootHas'[x] \in Seen(t),
         \A x \in Objs \X Slots : SlotHas'[x] \in Seen(t),
         HandHas'[t] \in Seen(t), var'[t] \in Seen(t)
  PROVE  Alone(u)'
<1> DEFINE o == Active(u).ref
<1>1. HandHas[u] = o /\ o # Null
  BY HandIs DEF ToUnref, RInv, Phase
<1>2. o \in live
  BY <1>1, StayingFacts DEF RInv, Valid, Kept
<1>3. o \notin Seen(t)
  BY <1>1, <1>2 DEF Alone, Seen
<1>4. Active(u)' = Active(u)
  BY DEF Elsewhere, Active
<1>5. \A w \in Threads : w # u => HandHas'[w] # o /\ var'[w] # o
  BY <1>3, HandFrame DEF Alone, Elsewhere
<1> QED
  BY <1>3, <1>4, <1>5 DEF Alone

LEMMA PhaseKept ==
  ASSUME RInv, NEW t \in Threads, Elsewhere(t), NEW u \in Threads, u # t,
         \A x \in Threads \X Roots : RootHas'[x] \in Seen(t),
         \A x \in Objs \X Slots : SlotHas'[x] \in Seen(t),
         HandHas'[t] \in Seen(t), var'[t] \in Seen(t)
  PROVE  Phase(u)'
<1>1. pc'[u] = "last" => Alone(u)'
  BY AloneKept DEF RInv, Phase, Elsewhere
<1> QED
  BY <1>1 DEF RInv, Phase, Elsewhere, Active

\* All that a step of t has to keep.
LEMMA StepKeeps ==
  ASSUME RInv, NEW t \in Threads, Elsewhere(t), IInv', FieldsExclusive',
         Valid' /\ Counted' /\ PastNull' /\ Once',
         VarOK(t)', FieldJobOK(t)', Phase(t)',
         \A u \in Threads : u # t /\ Fresh(u) => var[u] \in Staying',
         \A x \in Threads \X Roots : RootHas'[x] \in Seen(t),
         \A x \in Objs \X Slots : SlotHas'[x] \in Seen(t),
         HandHas'[t] \in Seen(t), var'[t] \in Seen(t),
         \A x \in Objs \X Slots :
           x[1] \in Staying \ uses[t] => SlotHas'[x] = SlotHas[x],
         \A o \in Staying \ uses[t] : field'[o] = field[o] /\ arity'[o] = arity[o]
  PROVE  RInv'
<1>1. ASSUME NEW u \in Threads, u # t
      PROVE  VarOK(u)' /\ FieldJobOK(u)' /\ Phase(u)'
  <2>1. VarOK(u)'
    <3> SUFFICES ASSUME Pending(u)', var'[u] # Null
                 PROVE  Fresh(u)' \/ Guarded(u)'
      BY DEF VarOK
    <3>1. Pending(u) /\ var[u] # Null
      BY <1>1 DEF Pending, Elsewhere
    <3>2. CASE Fresh(u)
      BY <1>1, <3>2, FreshKept
    <3>3. CASE Guarded(u)
      BY <1>1, <3>3, GuardKept
    <3> QED
      BY <3>1, <3>2, <3>3 DEF RInv, VarOK
  <2>2. FieldJobOK(u)'
    BY <1>1, FieldJobKept
  <2>3. Phase(u)'
    BY <1>1, PhaseKept
  <2> QED
    BY <2>1, <2>2, <2>3
<1> QED
  BY <1>1 DEF RInv

\* The same for a step that changes no holder and no object.
LEMMA StillKeeps ==
  ASSUME RInv, NEW t \in Threads, Elsewhere(t), IInv', FieldsExclusive',
         UNCHANGED <<RootHas, HandHas, live, arity, field, cnt>>,
         Open(t)' = Open(t),
         OnceIn(calls'[t]), Freed(calls'[t]) = Freed(calls[t]),
         VarOK(t)', FieldJobOK(t)', Phase(t)', var'[t] \in Seen(t)
  PROVE  RInv' /\ Staying' = Staying
<1>1. SlotHas' = SlotHas
  BY SlotSame
<1>2. Staying' = Staying /\ Once'
  BY StayingKept
<1>3. Valid' /\ Counted'
  BY <1>1, <1>2, StillHeld DEF RInv
<1>4. PastNull'
  BY DEF RInv, PastNull
<1>5. /\ \A x \in Threads \X Roots : RootHas'[x] \in Seen(t)
      /\ \A x \in Objs \X Slots : SlotHas'[x] \in Seen(t)
      /\ HandHas'[t] \in Seen(t)
  BY <1>1 DEF Seen
<1>6. \A u \in Threads : u # t /\ Fresh(u) => var[u] \in Staying'
  BY <1>2 DEF Fresh
<1> QED
  BY <1>1, <1>2, <1>3, <1>4, <1>5, <1>6, StepKeeps

-----------------------------------------------------------------------------
(* What a running thread calls. *)

LEMMA AllocHeapKeeps ==
  ASSUME RInv, NEW t \in Threads, Elsewhere(t), IInv', FieldsExclusive',
         AllocHeap(t)
  PROVE  /\ RInv' /\ RootHas' = RootHas
         /\ \A o \in Objs \ live : live' = live \cup {o} =>
              Staying' = Staying \cup {o} /\ o \notin Staying
<1>1. PICK o \in Objs \ live, n \in Arities :
        /\ live' = live \cup {o}
        /\ cnt' = [cnt EXCEPT ![o] = 0]
        /\ arity' = [arity EXCEPT ![o] = n]
        /\ field' = [field EXCEPT ![o] = [s \in Slots |-> Null]]
        /\ var' = [var EXCEPT ![t] = o]
  BY DEF AllocHeap
<1>2. /\ pc[t] = "caller" /\ calls' = calls /\ pc' = pc /\ job' = job
      /\ root' = root /\ uses' = uses /\ job[t].kind = "none"
  BY DEF AllocHeap, Ready, RInv, Phase
<1>3. /\ cnt \in [Objs -> Int] /\ arity \in [Objs -> 0 .. MaxSlots]
      /\ field \in [Objs -> [Slots -> Ref]] /\ var \in [Threads -> Ref]
      /\ live \subseteq Objs
  BY DEF RInv, IInv, TypeOK
<1>4. HandHas' = HandHas
  <2>1. HandHas'[t] = Null /\ HandHas[t] = Null
    BY <1>2 DEF HandHas, OldInHand, NewInHand
  <2> QED
    BY <2>1, HandSame
<1>5. RootHas' = RootHas
  <2>1. \A r \in Roots : RootHas'[<<t, r>>] = RootHas[<<t, r>>]
    BY <1>2 DEF RootHas, Stored
  <2> QED
    BY <2>1, RootSame
<1>6. SlotHas' = SlotHas
  <2>1. \A u \in Threads : Open(u)' = Open(u)
    BY <1>2 DEF Open, Written
  <2>2. ASSUME NEW x \in Objs \X Slots PROVE SlotHas'[x] = SlotHas[x]
    <3>1. SlotHas'[x] = IF x[1] \in live' /\ \A u \in Threads : x \notin Open(u)'
                        THEN field'[x[1]][x[2]] ELSE Null
      BY DEF SlotHas
    <3>2. SlotHas[x] = IF x[1] \in live /\ \A u \in Threads : x \notin Open(u)
                       THEN field[x[1]][x[2]] ELSE Null
      BY DEF SlotHas
    <3>3. CASE x[1] = o
      BY <1>1, <1>3, <3>1, <3>2, <3>3
    <3>4. CASE x[1] # o
      BY <1>1, <1>3, <2>1, <3>1, <3>2, <3>4
    <3> QED
      BY <3>3, <3>4
  <2>3. SlotHas' = [x \in Objs \X Slots |-> SlotHas'[x]]
        /\ SlotHas = [x \in Objs \X Slots |-> SlotHas[x]]
    BY DEF SlotHas
  <2> QED
    BY <2>2, <2>3
<1>7. Staying' = Staying \cup {o} /\ o \notin Staying /\ Dying' = Dying
  <2>1. Dying' = Dying /\ Dying \subseteq live
    BY <1>2 DEF Dying, Freeing, RInv, Once
  <2> QED
    BY <1>1, <2>1, StayingFacts DEF Staying
<1>8. /\ \A x \in Threads \X Roots : RootHas[x] # o
      /\ \A x \in Objs \X Slots : SlotHas[x] # o
      /\ \A u \in Threads : HandHas[u] # o
      /\ \A u \in Threads : var[u] # o
  <2>1. o \notin Kept
    BY <1>3, <1>7, NullAssumption DEF Kept
  <2> QED
    BY <2>1, VarValid DEF RInv, Valid
<1>9. Valid'
  BY <1>4, <1>5, <1>6, <1>7 DEF RInv, Valid, Kept
<1>10. Counted'
  <2>1. ASSUME NEW p PROVE Held(p)' = Held(p)
    BY <1>4, <1>5, <1>6 DEF Held
  <2>2. Held(o) = 0
    <3>1. At(RootHas, o) = {} /\ At(SlotHas, o) = {} /\ At(HandHas, o) = {}
      BY <1>8, HoldersDomains DEF At
    <3> QED
      BY <3>1, FS_EmptySet DEF Held
  <2>3. \A p \in Staying : cnt'[p] = cnt[p]
    BY <1>1, <1>3, <1>7, StayingFacts
  <2>4. cnt'[o] = 0
    BY <1>1, <1>3
  <2> QED
    BY <1>7, <2>1, <2>2, <2>3, <2>4 DEF RInv, Counted
<1>11. PastNull'
  BY <1>1, <1>3 DEF RInv, PastNull
<1>12. Once'
  <2>1. \A u \in Threads : Freeing(u)' = Freeing(u)
    BY <1>2 DEF Freeing
  <2>2. live \subseteq live'
    BY <1>1
  <2> QED
    BY <1>2, <2>1, <2>2 DEF RInv, Once
<1>13. VarOK(t)'
  <2>1. var'[t] = o
    BY <1>1, <1>3
  <2>2. \A u \in Threads \ {t} : var'[u] # o
    BY <1>8 DEF Elsewhere
  <2>3. Fresh(t)'
    BY <1>4, <1>5, <1>6, <1>7, <1>8, <2>1, <2>2 DEF Fresh, Others
  <2> QED
    BY <2>3 DEF VarOK
<1>14. FieldJobOK(t)' /\ Phase(t)'
  BY <1>2 DEF RInv, Phase, FieldJobOK, Active
<1>15. /\ \A x \in Threads \X Roots : RootHas'[x] \in Seen(t)
       /\ \A x \in Objs \X Slots : SlotHas'[x] \in Seen(t)
       /\ HandHas'[t] \in Seen(t) /\ var'[t] \in Seen(t)
  BY <1>1, <1>3, <1>4, <1>5, <1>6 DEF Seen
<1>16. \A p \in Staying : field'[p] = field[p] /\ arity'[p] = arity[p]
  BY <1>1, <1>3, <1>7, StayingFacts
<1>17. \A u \in Threads : u # t /\ Fresh(u) => var[u] \in Staying'
  BY <1>7 DEF Fresh
<1>18. \A p \in Objs \ live : live' = live \cup {p} =>
         Staying' = Staying \cup {p} /\ p \notin Staying
  BY <1>1, <1>7
<1> QED
  BY <1>5, <1>18, <1>6, <1>9, <1>10, <1>11, <1>12, <1>13, <1>14, <1>15, <1>16, <1>17,
     StepKeeps

\* A thread that runs has nothing in hand and opens no slot.
LEMMA CallerHas ==
  ASSUME RInv, NEW t \in Threads, pc[t] = "caller"
  PROVE  /\ HandHas[t] = Null /\ Open(t) = {} /\ Freed(calls[t]) = {}
         /\ calls[t] = <<>> /\ job[t].kind = "none" /\ ~Stored(t)
         /\ \A r \in Roots : RootHas[<<t, r>>] = root[t][r]
<1>1. calls[t] = <<>> /\ job[t].kind = "none" /\ ~Stored(t)
  BY DEF RInv, Phase, InUnref, Stored
<1> QED
  BY <1>1, HandIs, RootIs, PastNothing
  DEF OldInHand, NewInHand, Open, Written

LEMMA GetLocalKeeps ==
  ASSUME RInv, NEW t \in Threads, Elsewhere(t), IInv', FieldsExclusive',
         GetLocal(t)
  PROVE  RInv' /\ Staying' = Staying /\ RootHas' = RootHas
<1>1. PICK r \in Roots : var' = [var EXCEPT ![t] = root[t][r]]
  BY DEF GetLocal
<1>2. /\ pc[t] = "caller" /\ calls' = calls /\ pc' = pc /\ job' = job
      /\ root' = root /\ uses' = uses
      /\ UNCHANGED <<live, arity, field, cnt>>
  BY DEF GetLocal, Ready, heap, contents
<1>3. var'[t] = RootHas[<<t, r>>]
  BY <1>1, <1>2, CallerHas DEF RInv, IInv, TypeOK
<1>4. HandHas' = HandHas
  <2>1. HandHas'[t] = HandHas[t]
    BY <1>2, CallerHas DEF HandHas, OldInHand, NewInHand
  <2> QED
    BY <2>1, HandSame
<1>5. RootHas' = RootHas
  <2>1. \A p \in Roots : RootHas'[<<t, p>>] = RootHas[<<t, p>>]
    BY <1>2 DEF RootHas, Stored
  <2> QED
    BY <2>1, RootSame
<1>6. Open(t)' = Open(t) /\ OnceIn(calls'[t]) /\ Freed(calls'[t]) = Freed(calls[t])
  BY <1>2 DEF Open, Written, RInv, Once
<1>7. VarOK(t)'
  BY <1>3, <1>5 DEF VarOK, Guarded
<1>8. FieldJobOK(t)' /\ Phase(t)'
  BY <1>2, CallerHas DEF RInv, Phase, FieldJobOK, Active
<1>9. var'[t] \in Seen(t)
  BY <1>3 DEF Seen
<1> QED
  BY <1>2, <1>4, <1>5, <1>6, <1>7, <1>8, <1>9, StillKeeps

\* The fields of an object are among its slots.
LEMMA ArityBound ==
  ASSUME RInv, NEW o \in Objs
  PROVE  \A s \in 1 .. arity[o] : s \in Slots /\ s <= arity[o]
<1>1. arity[o] \in 0 .. MaxSlots
  BY DEF RInv, IInv, TypeOK
<1> QED
  BY <1>1, SlotsAssumption DEF Slots

LEMMA GetFieldKeeps ==
  ASSUME RInv, NEW t \in Threads, Elsewhere(t), IInv', FieldsExclusive',
         GetField(t)
  PROVE  RInv' /\ Staying' = Staying /\ RootHas' = RootHas
<1> DEFINE o(r) == root[t][r]
<1>1. PICK r \in Roots : \E s \in 1 .. arity[o(r)] :
        /\ o(r) # Null /\ field[o(r)][s] # Null
        /\ var' = [var EXCEPT ![t] = field[o(r)][s]]
        /\ uses' = [uses EXCEPT ![t] = {o(r)}]
  BY DEF GetField
<1>2. o(r) \in Objs
  BY <1>1 DEF RInv, IInv, TypeOK, Ref
<1>3. 1 .. arity[o(r)] \subseteq Slots
  BY <1>2, ArityBound
<1>4. PICK s \in Slots :
        /\ field[o(r)][s] # Null
        /\ var' = [var EXCEPT ![t] = field[o(r)][s]]
        /\ uses' = [uses EXCEPT ![t] = {o(r)}]
  BY <1>1, <1>3
<1>5. /\ pc[t] = "caller" /\ calls' = calls /\ pc' = pc /\ job' = job
      /\ root' = root /\ UNCHANGED <<live, arity, field, cnt>>
  BY DEF GetField, Ready, heap, contents
<1> DEFINE x == <<o(r), s>>
<1>6. RootHas[<<t, r>>] = o(r) /\ o(r) \in Staying
  BY <1>2, <1>5, CallerHas, NullAssumption DEF RInv, Valid, Kept
<1>7. SlotHas[x] = field[o(r)][s]
  <2>1. \A u \in Threads : x \notin Past(calls[u])
    BY <1>6, PastIsFreed, StayingFacts
  <2>2. \A u \in Threads : x \notin Written(u)
    <3>1. \A u \in Threads : u # t /\ job[u].kind = "field" => job[u].obj # o(r)
      <4>1. uses'[t] = {o(r)} /\ \A u \in Threads : u # t => uses'[u] = uses[u]
        BY <1>4 DEF Elsewhere, RInv, IInv, TypeOK
      <4>2. \A u \in Threads : u # t => o(r) \notin uses[u]
        BY <4>1 DEF FieldsExclusive
      <4> QED
        BY <4>2 DEF RInv, FieldJobOK
    <3> QED
      BY <1>5, <3>1 DEF Written
  <2>3. x \in Objs \X Slots /\ o(r) \in live
    BY <1>2, <1>6, StayingFacts
  <2> QED
    BY <2>1, <2>2, <2>3, SlotIs DEF Open
<1>8. var'[t] = SlotHas[x] /\ uses'[t] = {o(r)}
  BY <1>4, <1>7 DEF RInv, IInv, TypeOK
<1>9. HandHas' = HandHas
  <2>1. HandHas'[t] = HandHas[t]
    BY <1>5, CallerHas DEF HandHas, OldInHand, NewInHand
  <2> QED
    BY <2>1, HandSame
<1>10. RootHas' = RootHas
  <2>1. \A p \in Roots : RootHas'[<<t, p>>] = RootHas[<<t, p>>]
    BY <1>5 DEF RootHas, Stored
  <2> QED
    BY <2>1, RootSame
<1>11. /\ Open(t)' = Open(t) /\ OnceIn(calls'[t])
       /\ Freed(calls'[t]) = Freed(calls[t])
  BY <1>5 DEF Open, Written, RInv, Once
<1>12. VarOK(t)'
  <2>1. SlotHas' = SlotHas
    BY <1>5, <1>11, SlotSame
  <2>2. Guarded(t)'
    BY <1>6, <1>8, <1>10, <2>1 DEF Guarded
  <2> QED
    BY <2>2 DEF VarOK
<1>13. FieldJobOK(t)' /\ Phase(t)'
  BY <1>5, CallerHas DEF RInv, Phase, FieldJobOK, Active
<1>14. var'[t] \in Seen(t)
  <2>1. x \in Objs \X Slots
    BY <1>2
  <2> QED
    BY <1>8, <2>1 DEF Seen
<1> QED
  BY <1>5, <1>9, <1>10, <1>11, <1>12, <1>13, <1>14, StillKeeps

LEMMA SetLocalKeeps ==
  ASSUME RInv, NEW t \in Threads, Elsewhere(t), IInv', FieldsExclusive',
         SetLocal(t)
  PROVE  RInv' /\ Staying' = Staying /\ RootHas' = RootHas
<1>1. /\ pc[t] = "caller" /\ pc'[t] = "ref" /\ calls' = calls
      /\ UNCHANGED <<root, var, uses, live, arity, field, cnt>>
  BY DEF SetLocal, Ready, Goto, heap, contents, RInv, IInv, TypeOK
<1>2. job'[t].kind = "local"
  <2>1. PICK l \in Locals :
          job' = [job EXCEPT ![t] = [NoJob EXCEPT !.kind = "local", !.at = l]]
    BY DEF SetLocal
  <2> QED
    BY <2>1 DEF NoJob, RInv, IInv, TypeOK
<1>3. HandHas' = HandHas
  <2>1. HandHas'[t] = Null
    BY <1>1, <1>2 DEF HandHas, OldInHand, NewInHand
  <2> QED
    BY <1>1, <2>1, CallerHas, HandSame
<1>4. RootHas' = RootHas
  <2>1. \A r \in Roots : RootHas'[<<t, r>>] = root[t][r]
    BY <1>1 DEF RootHas, Stored
  <2> QED
    BY <1>1, <2>1, CallerHas, RootSame
<1>5. /\ Open(t)' = Open(t) /\ OnceIn(calls'[t])
      /\ Freed(calls'[t]) = Freed(calls[t])
  BY <1>1, <1>2 DEF Open, Written, RInv, Once
<1>6. VarOK(t)'
  <2>1. SlotHas' = SlotHas
    BY <1>1, <1>5, SlotSame
  <2>2. Staying' = Staying
    BY <1>1, <1>5, StayingKept
  <2>3. Fresh(t) => Fresh(t)'
    BY <1>1, <1>3, <1>4, <2>1, <2>2 DEF Fresh, Others
  <2>4. Guarded(t) => Guarded(t)'
    BY <1>1, <1>3, <1>4, <2>1 DEF Guarded
  <2>5. Pending(t)
    BY <1>1 DEF Pending
  <2> QED
    BY <1>1, <2>3, <2>4, <2>5 DEF RInv, VarOK
<1>7. FieldJobOK(t)' /\ Phase(t)'
  BY <1>1, <1>2, CallerHas DEF Phase, FieldJobOK
<1>8. var'[t] \in Seen(t)
  BY <1>1 DEF Seen
<1> QED
  BY <1>1, <1>3, <1>4, <1>5, <1>6, <1>7, <1>8, StillKeeps

LEMMA PutFieldKeeps ==
  ASSUME RInv, NEW t \in Threads, Elsewhere(t), IInv', FieldsExclusive',
         PutField(t)
  PROVE  RInv' /\ Staying' = Staying /\ RootHas' = RootHas
<1> DEFINE o(r) == root[t][r]
<1>1. PICK r \in Roots :
        /\ o(r) # Null
        /\ uses' = [uses EXCEPT ![t] = @ \cup {o(r)}]
        /\ \E s \in 1 .. arity[o(r)] :
             job' = [job EXCEPT ![t] = [kind |-> "field", at |-> s,
                                        obj |-> o(r), old |-> field[o(r)][s]]]
  BY DEF PutField
<1>2. o(r) \in Objs
  BY <1>1 DEF RInv, IInv, TypeOK, Ref
<1>3. \A s \in 1 .. arity[o(r)] : s \in Slots /\ s <= arity[o(r)]
  BY <1>2, ArityBound
<1>4. PICK s \in Slots :
        /\ s <= arity[o(r)]
        /\ job' = [job EXCEPT ![t] = [kind |-> "field", at |-> s,
                                      obj |-> o(r), old |-> field[o(r)][s]]]
  BY <1>1, <1>3
<1>5. /\ pc[t] = "caller" /\ pc'[t] = "store" /\ calls' = calls
      /\ UNCHANGED <<root, var, live, arity, field, cnt>>
  BY DEF PutField, Ready, Goto, heap, contents, RInv, IInv, TypeOK
<1>6. /\ job'[t].kind = "field" /\ job'[t].at = s /\ job'[t].obj = o(r)
      /\ job'[t].old = field[o(r)][s]
      /\ uses'[t] = uses[t] \cup {o(r)}
  BY <1>1, <1>4 DEF RInv, IInv, TypeOK
<1>7. HandHas' = HandHas
  <2>1. HandHas'[t] = Null
    BY <1>5 DEF HandHas, OldInHand, NewInHand
  <2> QED
    BY <1>5, <2>1, CallerHas, HandSame
<1>8. RootHas' = RootHas
  <2>1. \A p \in Roots : RootHas'[<<t, p>>] = root[t][p]
    BY <1>5 DEF RootHas, Stored
  <2> QED
    BY <1>5, <2>1, CallerHas, RootSame
<1>9. /\ Open(t)' = Open(t) /\ OnceIn(calls'[t])
      /\ Freed(calls'[t]) = Freed(calls[t])
  BY <1>5 DEF Open, Written, RInv, Once
<1>10. VarOK(t)'
  <2>1. SlotHas' = SlotHas
    BY <1>5, <1>9, SlotSame
  <2>2. Staying' = Staying
    BY <1>5, <1>9, StayingKept
  <2>3. Fresh(t) => Fresh(t)'
    BY <1>5, <1>7, <1>8, <2>1, <2>2 DEF Fresh, Others
  <2>4. Guarded(t) => Guarded(t)'
    BY <1>5, <1>6, <1>7, <1>8, <2>1 DEF Guarded
  <2>5. Pending(t)
    BY <1>5 DEF Pending
  <2> QED
    BY <1>5, <2>3, <2>4, <2>5 DEF RInv, VarOK
<1>11. FieldJobOK(t)' /\ Phase(t)'
  <2>1. o(r) \in {root[t][p] : p \in Roots}
    OBVIOUS
  <2>2. FieldJobOK(t)'
    BY <1>4, <1>5, <1>6, <2>1 DEF FieldJobOK
  <2>3. calls[t] = <<>>
    BY <1>5, CallerHas
  <2>4. Phase(t)'
    BY <1>5, <1>6, <2>3 DEF Phase
  <2> QED
    BY <2>2, <2>4
<1>12. var'[t] \in Seen(t)
  BY <1>5 DEF Seen
<1> QED
  BY <1>5, <1>7, <1>8, <1>9, <1>10, <1>11, <1>12, StillKeeps

LEMMA StoreFieldKeeps ==
  ASSUME RInv, NEW t \in Threads, Elsewhere(t), IInv', FieldsExclusive',
         StoreField(t)
  PROVE  RInv' /\ Staying' = Staying /\ RootHas' = RootHas
<1> DEFINE o == job[t].obj
           s == job[t].at
           x == <<o, s>>
<1>1. /\ pc[t] = "store" /\ pc'[t] = "ref" /\ calls' = calls
      /\ UNCHANGED <<root, var, uses, job, live, arity, cnt>>
      /\ field' = [field EXCEPT ![o][s] = var[t]]
  BY DEF StoreField, Goto, thread, RInv, IInv, TypeOK
<1>2. /\ calls[t] = <<>> /\ job[t].kind = "field"
  BY <1>1 DEF RInv, Phase, InUnref
<1>3. /\ o \in Staying /\ o \in uses[t] /\ o \in Objs /\ s \in Slots
      /\ o \in live /\ s <= arity[o] /\ x \in Objs \X Slots
      /\ \A u \in Threads : x \notin Open(u)
      /\ field[o][s] = job[t].old
  BY <1>1, <1>2, FieldJobSlot, StayingFacts
  DEF RInv, FieldJobOK, Open, Written
<1>4. /\ field'[o][s] = var[t]
      /\ \A p \in Objs, i \in Slots : <<p, i>> # x => field'[p][i] = field[p][i]
      /\ \A p \in Objs : p # o => field'[p] = field[p]
  BY <1>1, <1>3 DEF RInv, IInv, TypeOK
<1>5. SlotHas[x] = job[t].old
  BY <1>3, SlotIs
<1>6. HandHas[t] = Null /\ HandHas' = Update(HandHas, t, SlotHas[x])
  <2>1. HandHas[t] = Null /\ HandHas'[t] = job[t].old
    BY <1>1, <1>2 DEF HandHas, OldInHand, NewInHand
  <2> QED
    BY <1>5, <2>1, HandUpdate
<1>7. RootHas' = RootHas
  <2>1. \A r \in Roots : RootHas'[<<t, r>>] = RootHas[<<t, r>>]
    BY <1>1 DEF RootHas, Stored
  <2> QED
    BY <2>1, RootSame
<1>8. Open(t)' = {x} /\ Open(t) = {}
  BY <1>1, <1>2, PastNothing DEF Open, Written
<1>9. SlotHas' = Update(SlotHas, x, Null)
  <2>1. SlotHas'[x] = Null
    BY <1>3, <1>8 DEF SlotHas
  <2>2. \A y \in Objs \X Slots : y # x =>
          /\ y \in Open(t)' <=> y \in Open(t)
          /\ field'[y[1]][y[2]] = field[y[1]][y[2]]
    BY <1>4, <1>8
  <2> QED
    BY <1>1, <1>3, <2>1, <2>2, SlotUpdate
<1>10. Staying' = Staying /\ Once'
  <2>1. OnceIn(calls'[t])
    BY <1>1, <1>2, PastNothing
  <2> QED
    BY <1>1, <2>1, StayingKept
<1>11. Valid' /\ Counted'
  BY <1>1, <1>3, <1>6, <1>7, <1>9, <1>10, SlotToHand DEF RInv
<1>12. PastNull'
  BY <1>1, <1>3, <1>4 DEF RInv, PastNull, IInv, TypeOK, Slots
<1>13. /\ \A y \in Threads \X Roots : RootHas'[y] = RootHas[y]
       /\ \A y \in Objs \X Slots : SlotHas'[y] = IF y = x THEN Null ELSE SlotHas[y]
       /\ \A u \in Threads : HandHas'[u] = IF u = t THEN SlotHas[x] ELSE HandHas[u]
  <2>1. \A y \in Objs \X Slots :
          Update(SlotHas, x, Null)[y] = IF y = x THEN Null ELSE SlotHas[y]
    BY <1>3, HoldersDomains DEF Update
  <2>2. \A u \in Threads :
          Update(HandHas, t, SlotHas[x])[u] = IF u = t THEN SlotHas[x]
                                                       ELSE HandHas[u]
    BY HoldersDomains, UpdateHas
  <2> QED
    BY <1>6, <1>7, <1>9, <2>1, <2>2
<1>14. VarOK(t)'
  <2>1. Fresh(t) /\ var[t] # Null => Fresh(t)'
    <3> SUFFICES ASSUME Fresh(t), var[t] # Null PROVE Fresh(t)'
      OBVIOUS
    <3>1. /\ \A y \in Threads \X Roots : RootHas'[y] # var[t]
          /\ \A y \in Objs \X Slots : SlotHas'[y] # var[t]
          /\ \A u \in Threads : HandHas'[u] # var[t]
      BY <1>3, <1>13 DEF Fresh, Others
    <3> QED
      BY <1>1, <1>10, <3>1 DEF Fresh, Others
  <2>2. Guarded(t) => Guarded(t)' \/ var[t] = Null
    <3>1. ASSUME NEW r \in Roots, RootHas[<<t, r>>] = var[t]
          PROVE  Guarded(t)'
      BY <1>1, <1>7, <3>1 DEF Guarded
    <3>2. ASSUME NEW r \in Roots, NEW i \in Slots, RootHas[<<t, r>>] \in uses[t],
                 SlotHas[<<RootHas[<<t, r>>], i>>] = var[t]
          PROVE  Guarded(t)'
      <4> DEFINE y == <<RootHas[<<t, r>>], i>>
      <4>1. y \in Objs \X Slots
        BY <3>2 DEF RInv, IInv, TypeOK
      <4>2. CASE y = x
        <5>1. HandHas'[t] = var'[t]
          BY <1>1, <1>13, <3>2, <4>2
        <5> QED
          BY <5>1 DEF Guarded
      <4>3. CASE y # x
        <5>1. SlotHas'[y] = var'[t]
          BY <1>1, <1>13, <3>2, <4>1, <4>3
        <5> QED
          BY <1>1, <1>7, <3>2, <5>1 DEF Guarded
      <4> QED
        BY <4>2, <4>3
    <3> QED
      BY <1>6, <3>1, <3>2 DEF Guarded
  <2>3. Pending(t)
    BY <1>1 DEF Pending
  <2> QED
    BY <1>1, <2>1, <2>2, <2>3 DEF RInv, VarOK
<1>15. FieldJobOK(t)' /\ Phase(t)'
  BY <1>1, <1>2, <1>3, <1>4 DEF RInv, FieldJobOK, Phase
<1>16. /\ \A y \in Threads \X Roots : RootHas'[y] \in Seen(t)
       /\ \A y \in Objs \X Slots : SlotHas'[y] \in Seen(t)
       /\ HandHas'[t] \in Seen(t) /\ var'[t] \in Seen(t)
  BY <1>1, <1>3, <1>13 DEF Seen
<1>17. /\ \A y \in Objs \X Slots :
            y[1] \in Staying \ uses[t] => SlotHas'[y] = SlotHas[y]
       /\ \A p \in Staying \ uses[t] : field'[p] = field[p] /\ arity'[p] = arity[p]
  BY <1>1, <1>3, <1>4, <1>13, StayingFacts DEF RInv
<1>18. \A u \in Threads : u # t /\ Fresh(u) => var[u] \in Staying'
  BY <1>10 DEF Fresh
<1> QED
  BY <1>7, <1>10, <1>11, <1>12, <1>14, <1>15, <1>16, <1>17, <1>18, StepKeeps

LEMMA ReleaseThreadKeeps ==
  ASSUME RInv, NEW t \in Threads, Elsewhere(t), IInv', FieldsExclusive',
         ReleaseThread(t)
  PROVE  /\ RInv' /\ Staying' = Staying
         /\ RootHas' = Update(RootHas, <<t, Runnable>>, Null)
<1> DEFINE x == <<t, Runnable>>
           s == <<Call(root[t][Runnable])>>
<1>1. /\ pc[t] = "caller" /\ pc'[t] = "unref" /\ var[t] = Null
      /\ calls'[t] = s
      /\ UNCHANGED <<root, var, uses, live, arity, field, cnt>>
      /\ job' = [job EXCEPT ![t] = [NoJob EXCEPT !.kind = "local",
                                                 !.at = Runnable]]
  BY DEF ReleaseThread, Ready, Goto, heap, contents, RInv, IInv, TypeOK
<1>2. job'[t].kind = "local" /\ job'[t].at = Runnable
  BY <1>1 DEF NoJob, RInv, IInv, TypeOK
<1>3. x \in Threads \X Roots /\ Runnable \in Roots
  BY DEF Roots
<1>4. /\ RootHas[x] = root[t][Runnable] /\ HandHas[t] = Null
      /\ Open(t) = {} /\ Freed(calls[t]) = {}
  BY <1>1, <1>3, CallerHas
<1>5. Past(s) = {} /\ Freed(s) = {} /\ OnceIn(s) /\ Head(s).ref = root[t][Runnable]
      /\ Head(s).next = 0
  BY PastCall DEF Call
<1> HIDE DEF s
<1>6. HandHas' = Update(HandHas, t, RootHas[x])
  <2>1. HandHas'[t] = RootHas[x]
    BY <1>1, <1>4, <1>5 DEF HandHas, Active
  <2> QED
    BY <2>1, HandUpdate
<1>7. RootHas' = Update(RootHas, x, Null)
  <2>1. RootHas'[x] = Null
    BY <1>1, <1>2, <1>3 DEF RootHas, Stored
  <2>2. \A r \in Roots : r # Runnable => RootHas'[<<t, r>>] = root[t][r]
    BY <1>1, <1>2 DEF RootHas, Stored
  <2>3. \A r \in Roots : RootHas[<<t, r>>] = root[t][r]
    BY <1>1, CallerHas
  <2> QED
    BY <1>3, <2>1, <2>2, <2>3, RootUpdate
<1>8. Open(t)' = Open(t)
  BY <1>1, <1>4, <1>5 DEF Open, Written
<1>9. SlotHas' = SlotHas
  BY <1>1, <1>8, SlotSame
<1>10. Staying' = Staying /\ Once'
  BY <1>1, <1>4, <1>5, StayingKept
<1>11. Valid' /\ Counted'
  BY <1>1, <1>3, <1>4, <1>6, <1>7, <1>9, <1>10, RootToHand DEF RInv
<1>12. PastNull'
  BY <1>1 DEF RInv, PastNull
<1>13. VarOK(t)' /\ FieldJobOK(t)' /\ Phase(t)'
  BY <1>1, <1>2, <1>5 DEF VarOK, FieldJobOK, Phase, InUnref, Active
<1>14. /\ \A y \in Threads \X Roots : RootHas'[y] \in {RootHas[y], Null}
       /\ HandHas'[t] = RootHas[x]
  <2>1. \A y \in Threads \X Roots :
          Update(RootHas, x, Null)[y] = IF y = x THEN Null ELSE RootHas[y]
    BY <1>3, HoldersDomains DEF Update
  <2>2. Update(HandHas, t, RootHas[x])[t] = RootHas[x]
    BY HoldersDomains DEF Update
  <2> QED
    BY <1>6, <1>7, <2>1, <2>2
<1>15. /\ \A y \in Threads \X Roots : RootHas'[y] \in Seen(t)
       /\ \A y \in Objs \X Slots : SlotHas'[y] \in Seen(t)
       /\ HandHas'[t] \in Seen(t) /\ var'[t] \in Seen(t)
  BY <1>1, <1>3, <1>9, <1>14 DEF Seen
<1>16. \A u \in Threads : u # t /\ Fresh(u) => var[u] \in Staying'
  BY <1>10 DEF Fresh
<1> QED
  BY <1>7, <1>1, <1>9, <1>10, <1>11, <1>12, <1>13, <1>15, <1>16, StepKeeps

-----------------------------------------------------------------------------
(* NanoVM_ref, and what NanoVM_unref is called for after it. *)

\* After the ref of a local variable's new value, the old value is in hand.
LEMMA UnrefLocalKeeps ==
  ASSUME RInv, NEW t \in Threads, Elsewhere(t), IInv', FieldsExclusive',
         job[t].kind = "local", pc[t] \in {"ref", "refUnlock"},
         pc'[t] = "unref", UnrefOld(t), HandHas[t] = var[t],
         UNCHANGED <<root, var, uses, job, live, arity, field, cnt>>
  PROVE  /\ RInv' /\ Staying' = Staying
         /\ RootHas' = Update(RootHas, <<t, job[t].at>>, var[t])
<1> DEFINE p == job[t].at
           x == <<t, p>>
           s == <<Call(root[t][p])>>
<1>1. calls'[t] = s /\ calls[t] = <<>>
  BY DEF UnrefOld, RInv, IInv, TypeOK, Phase, InUnref
<1>2. p \in Roots /\ x \in Threads \X Roots
  BY DEF RInv, IInv, JobOK
<1>3. RootHas[x] = root[t][p]
  BY <1>2, RootIs DEF Stored
<1>4. Past(s) = {} /\ Freed(s) = {} /\ OnceIn(s) /\ Head(s).ref = root[t][p]
      /\ Head(s).next = 0
  BY PastCall DEF Call
<1> HIDE DEF s
<1>5. HandHas' = Update(HandHas, t, RootHas[x])
  <2>1. HandHas'[t] = RootHas[x]
    BY <1>1, <1>3, <1>4 DEF HandHas, Active
  <2> QED
    BY <2>1, HandUpdate
<1>6. RootHas' = Update(RootHas, x, HandHas[t])
  <2>1. RootHas'[x] = HandHas[t]
    BY <1>2 DEF RootHas, Stored
  <2>2. \A r \in Roots : r # p => RootHas'[<<t, r>>] = root[t][r]
    BY DEF RootHas, Stored
  <2>3. \A r \in Roots : RootHas[<<t, r>>] = root[t][r]
    BY RootIs DEF Stored
  <2> QED
    BY <1>2, <2>1, <2>2, <2>3, RootUpdate
<1>7. Open(t)' = Open(t)
  BY <1>1, <1>4, PastNothing DEF Open, Written
<1>8. SlotHas' = SlotHas
  BY <1>7, SlotSame
<1>9. Staying' = Staying /\ Once'
  BY <1>1, <1>4, PastNothing, StayingKept
<1>10. Valid' /\ Counted'
  BY <1>2, <1>5, <1>6, <1>8, <1>9, RootToHand DEF RInv
<1>11. PastNull'
  BY DEF RInv, PastNull
<1>12. VarOK(t)' /\ FieldJobOK(t)' /\ Phase(t)'
  BY <1>1, <1>4 DEF VarOK, Pending, FieldJobOK, Phase, InUnref, Active
<1>13. /\ \A y \in Threads \X Roots : RootHas'[y] \in {RootHas[y], HandHas[t]}
       /\ HandHas'[t] = RootHas[x]
  <2>1. \A y \in Threads \X Roots :
          Update(RootHas, x, HandHas[t])[y] = IF y = x THEN HandHas[t]
                                                       ELSE RootHas[y]
    BY <1>2, HoldersDomains DEF Update
  <2>2. Update(HandHas, t, RootHas[x])[t] = RootHas[x]
    BY HoldersDomains DEF Update
  <2> QED
    BY <1>5, <1>6, <2>1, <2>2
<1>14. /\ \A y \in Threads \X Roots : RootHas'[y] \in Seen(t)
       /\ \A y \in Objs \X Slots : SlotHas'[y] \in Seen(t)
       /\ HandHas'[t] \in Seen(t) /\ var'[t] \in Seen(t)
  BY <1>2, <1>8, <1>13 DEF Seen
<1>15. \A u \in Threads : u # t /\ Fresh(u) => var[u] \in Staying'
  BY <1>9 DEF Fresh
<1> QED
  BY <1>6, <1>8, <1>9, <1>10, <1>11, <1>12, <1>14, <1>15, StepKeeps

\* After the ref of a field's new value, the old value is in hand still.
LEMMA UnrefFieldKeeps ==
  ASSUME RInv, NEW t \in Threads, Elsewhere(t), IInv', FieldsExclusive',
         job[t].kind = "field", pc[t] \in {"ref", "refUnlock"},
         pc[t] = "ref" => var[t] = Null,
         pc'[t] = "unref", UnrefOld(t),
         UNCHANGED <<root, var, uses, job, live, arity, field, cnt>>
  PROVE  RInv' /\ Staying' = Staying /\ RootHas' = RootHas
<1> DEFINE s == <<Call(job[t].old)>>
           x == <<job[t].obj, job[t].at>>
<1>1. calls'[t] = s /\ calls[t] = <<>>
  BY DEF UnrefOld, RInv, IInv, TypeOK, Phase, InUnref
<1>2. Past(s) = {} /\ Freed(s) = {} /\ OnceIn(s) /\ Head(s).ref = job[t].old
      /\ Head(s).next = 0
  BY PastCall DEF Call
<1> HIDE DEF s
<1>3. HandHas' = HandHas
  <2>1. HandHas'[t] = job[t].old
    BY <1>1, <1>2 DEF HandHas, Active
  <2>2. HandHas[t] = job[t].old
    BY HandIs DEF OldInHand
  <2> QED
    BY <2>1, <2>2, HandSame
<1>4. RootHas' = RootHas
  <2>1. \A r \in Roots : RootHas'[<<t, r>>] = root[t][r]
    BY DEF RootHas, Stored
  <2>2. \A r \in Roots : RootHas[<<t, r>>] = root[t][r]
    BY RootIs DEF Stored
  <2> QED
    BY <2>1, <2>2, RootSame
<1>5. Past(calls[t]) = {} /\ Past(calls'[t]) = {} /\ Written(t)' = {}
  BY <1>1, <1>2, PastNothing DEF Written
<1>6. /\ x \in Objs \X Slots
      /\ pc[t] = "ref" => field[job[t].obj][job[t].at] = Null
  BY FieldJobSlot DEF RInv, FieldJobOK
<1>7. SlotHas' = SlotHas
  <2>1. SlotHas'[x] = SlotHas[x]
    <3>1. CASE pc[t] = "ref"
      BY <1>6, <3>1 DEF SlotHas
    <3>2. CASE pc[t] = "refUnlock"
      <4>1. Open(t)' = Open(t)
        BY <1>5, <3>2 DEF Open, Written
      <4> QED
        BY <4>1, SlotSame
    <3> QED
      BY <3>1, <3>2
  <2>2. \A y \in Objs \X Slots : y # x => (y \in Open(t)' <=> y \in Open(t))
    BY <1>5 DEF Open, Written
  <2>3. SlotHas' = Update(SlotHas, x, SlotHas[x])
    BY <1>6, <2>1, <2>2, SlotUpdate
  <2> QED
    BY <2>3 DEF Update, SlotHas
<1>8. Staying' = Staying /\ Once'
  BY <1>1, <1>2, PastNothing, StayingKept
<1>9. Valid' /\ Counted'
  BY <1>3, <1>4, <1>7, <1>8, StillHeld DEF RInv
<1>10. PastNull'
  BY DEF RInv, PastNull
<1>11. VarOK(t)' /\ FieldJobOK(t)' /\ Phase(t)'
  BY <1>1, <1>2 DEF VarOK, Pending, RInv, FieldJobOK, Phase, InUnref, Active
<1>12. /\ \A y \in Threads \X Roots : RootHas'[y] \in Seen(t)
       /\ \A y \in Objs \X Slots : SlotHas'[y] \in Seen(t)
       /\ HandHas'[t] \in Seen(t) /\ var'[t] \in Seen(t)
  BY <1>3, <1>4, <1>7 DEF Seen
<1>13. \A u \in Threads : u # t /\ Fresh(u) => var[u] \in Staying'
  BY <1>8 DEF Fresh
<1> QED
  BY <1>4, <1>7, <1>8, <1>9, <1>10, <1>11, <1>12, <1>13, StepKeeps

LEMMA RefNullKeeps ==
  ASSUME RInv, NEW t \in Threads, Elsewhere(t), IInv', FieldsExclusive',
         RefNull(t)
  PROVE  /\ RInv' /\ Staying' = Staying
         /\ \/ RootHas' = RootHas
            \/ \E r \in Roots : RootHas' = Update(RootHas, <<t, r>>, var[t])
<1>1. /\ pc[t] = "ref" /\ pc'[t] = "unref" /\ var[t] = Null /\ UnrefOld(t)
      /\ UNCHANGED <<root, var, uses, job, live, arity, field, cnt>>
  BY DEF RefNull, Goto, heap, contents, thread, RInv, IInv, TypeOK
<1>2. job[t].kind \in {"local", "field"}
  BY <1>1 DEF RInv, IInv, TypeOK, Jobs, Phase
<1>3. job[t].kind = "local" => HandHas[t] = var[t]
  BY <1>1, HandIs DEF OldInHand, NewInHand
<1>4. job[t].kind = "local" => job[t].at \in Roots
  BY DEF RInv, IInv, JobOK
<1> QED
  BY <1>4, <1>1, <1>2, <1>3, UnrefLocalKeeps, UnrefFieldKeeps

LEMMA RefUnlockKeeps ==
  ASSUME RInv, NEW t \in Threads, Elsewhere(t), IInv', FieldsExclusive',
         RefUnlock(t)
  PROVE  /\ RInv' /\ Staying' = Staying
         /\ \/ RootHas' = RootHas
            \/ \E r \in Roots : RootHas' = Update(RootHas, <<t, r>>, var[t])
<1>1. /\ pc[t] = "refUnlock" /\ pc'[t] = "unref" /\ UnrefOld(t)
      /\ UNCHANGED <<root, var, uses, job, live, arity, field, cnt>>
  BY DEF RefUnlock, Goto, contents, thread, RInv, IInv, TypeOK
<1>2. job[t].kind \in {"local", "field"}
  BY <1>1 DEF RInv, IInv, TypeOK, Jobs, Phase
<1>3. job[t].kind = "local" => HandHas[t] = var[t]
  BY <1>1, HandIs DEF OldInHand, NewInHand
<1>4. job[t].kind = "local" => job[t].at \in Roots
  BY DEF RInv, IInv, JobOK
<1> QED
  BY <1>4, <1>1, <1>2, <1>3, UnrefLocalKeeps, UnrefFieldKeeps

LEMMA RefLocalKeeps ==
  ASSUME RInv, NEW t \in Threads, Elsewhere(t), IInv', FieldsExclusive',
         RefInc(t), job[t].kind = "local"
  PROVE  RInv' /\ Staying' = Staying /\ RootHas' = RootHas
<1>1. /\ pc[t] = "ref" /\ pc'[t] = "refUnlock" /\ var[t] # Null
      /\ cnt' = [cnt EXCEPT ![var[t]] = cnt[var[t]] + 1]
      /\ UNCHANGED <<root, var, uses, job, live, arity, field, calls>>
  BY DEF RefInc, SetCount, Goto, contents, thread, RInv, IInv, TypeOK
<1>2. var[t] \in Staying
  BY <1>1, VarValid DEF Kept
<1>3. HandHas[t] = Null /\ HandHas' = Update(HandHas, t, var[t])
  <2>1. HandHas[t] = Null /\ HandHas'[t] = var[t]
    BY <1>1 DEF HandHas, OldInHand, NewInHand
  <2> QED
    BY <2>1, HandUpdate
<1>4. RootHas' = RootHas
  <2>1. \A r \in Roots : RootHas'[<<t, r>>] = RootHas[<<t, r>>]
    BY <1>1 DEF RootHas, Stored
  <2> QED
    BY <2>1, RootSame
<1>5. Open(t)' = Open(t)
  BY <1>1 DEF Open, Written
<1>6. SlotHas' = SlotHas
  BY <1>1, <1>5, SlotSame
<1>7. Staying' = Staying /\ Once'
  BY <1>1, StayingKept DEF RInv, Once
<1>8. Valid' /\ Counted'
  BY <1>1, <1>2, <1>3, <1>4, <1>6, <1>7, RefToHand DEF RInv
<1>9. PastNull'
  BY <1>1 DEF RInv, PastNull
<1>10. VarOK(t)' /\ FieldJobOK(t)' /\ Phase(t)'
  BY <1>1 DEF VarOK, Pending, FieldJobOK, RInv, Phase, InUnref
<1>11. HandHas'[t] = var[t]
  <2>1. Update(HandHas, t, var[t])[t] = var[t]
    BY HoldersDomains DEF Update
  <2> QED
    BY <1>3, <2>1
<1>12. /\ \A y \in Threads \X Roots : RootHas'[y] \in Seen(t)
       /\ \A y \in Objs \X Slots : SlotHas'[y] \in Seen(t)
       /\ HandHas'[t] \in Seen(t) /\ var'[t] \in Seen(t)
  BY <1>1, <1>4, <1>6, <1>11 DEF Seen
<1>13. \A u \in Threads : u # t /\ Fresh(u) => var[u] \in Staying'
  BY <1>7 DEF Fresh
<1> QED
  BY <1>4, <1>1, <1>6, <1>7, <1>8, <1>9, <1>10, <1>12, <1>13, StepKeeps

LEMMA RefFieldKeeps ==
  ASSUME RInv, NEW t \in Threads, Elsewhere(t), IInv', FieldsExclusive',
         RefInc(t), job[t].kind = "field"
  PROVE  RInv' /\ Staying' = Staying /\ RootHas' = RootHas
<1> DEFINE o == job[t].obj
           x == <<o, job[t].at>>
<1>1. /\ pc[t] = "ref" /\ pc'[t] = "refUnlock" /\ var[t] # Null
      /\ cnt' = [cnt EXCEPT ![var[t]] = cnt[var[t]] + 1]
      /\ UNCHANGED <<root, var, uses, job, live, arity, field, calls>>
  BY DEF RefInc, SetCount, Goto, contents, thread, RInv, IInv, TypeOK
<1>2. var[t] \in Staying
  BY <1>1, VarValid DEF Kept
<1>3. HandHas' = HandHas
  <2>1. HandHas'[t] = HandHas[t]
    BY <1>1 DEF HandHas, OldInHand
  <2> QED
    BY <2>1, HandSame
<1>4. RootHas' = RootHas
  <2>1. \A r \in Roots : RootHas'[<<t, r>>] = RootHas[<<t, r>>]
    BY <1>1 DEF RootHas, Stored
  <2> QED
    BY <2>1, RootSame
<1>5. /\ o \in live /\ o \in uses[t] /\ x \in Objs \X Slots
      /\ \A u \in Threads : u # t => x \notin Open(u)
      /\ field[o][job[t].at] = var[t]
  BY <1>1, FieldJobSlot, StayingFacts DEF RInv, FieldJobOK
<1>6. calls[t] = <<>> /\ Open(t) = {x} /\ Open(t)' = {}
  BY <1>1, PastNothing DEF RInv, Phase, InUnref, Open, Written
<1>7. SlotHas[x] = Null /\ SlotHas'[x] = var[t]
  <2>1. \A u \in Threads : x \notin Open(u)'
    BY <1>5, <1>6, OpenFrame
  <2>2. SlotHas'[x] = field'[x[1]][x[2]]
    BY <1>1, <1>5, <2>1 DEF SlotHas
  <2> QED
    BY <1>1, <1>5, <1>6, <2>2, SlotIs
<1>8. SlotHas' = Update(SlotHas, x, var[t])
  <2>1. \A y \in Objs \X Slots : y # x => (y \in Open(t)' <=> y \in Open(t))
    BY <1>6
  <2> QED
    BY <1>1, <1>5, <1>7, <2>1, SlotUpdate
<1>9. Staying' = Staying /\ Once'
  BY <1>1, StayingKept DEF RInv, Once
<1>10. Valid' /\ Counted'
  BY <1>1, <1>2, <1>3, <1>4, <1>5, <1>7, <1>8, <1>9, RefToSlot DEF RInv
<1>11. PastNull'
  BY <1>1 DEF RInv, PastNull
<1>12. VarOK(t)' /\ FieldJobOK(t)' /\ Phase(t)'
  BY <1>1 DEF VarOK, Pending, FieldJobOK, RInv, Phase, InUnref
<1>13. \A y \in Objs \X Slots : SlotHas'[y] = IF y = x THEN var[t] ELSE SlotHas[y]
  <2>1. \A y \in Objs \X Slots :
          Update(SlotHas, x, var[t])[y] = IF y = x THEN var[t] ELSE SlotHas[y]
    BY <1>5, HoldersDomains DEF Update
  <2> QED
    BY <1>8, <2>1
<1>14. /\ \A y \in Threads \X Roots : RootHas'[y] \in Seen(t)
       /\ \A y \in Objs \X Slots : SlotHas'[y] \in Seen(t)
       /\ HandHas'[t] \in Seen(t) /\ var'[t] \in Seen(t)
  BY <1>1, <1>3, <1>4, <1>13 DEF Seen
<1>15. \A y \in Objs \X Slots :
         y[1] \in Staying \ uses[t] => SlotHas'[y] = SlotHas[y]
  BY <1>5, <1>13
<1>16. \A u \in Threads : u # t /\ Fresh(u) => var[u] \in Staying'
  BY <1>9 DEF Fresh
<1> QED
  BY <1>4, <1>1, <1>9, <1>10, <1>11, <1>12, <1>14, <1>15, <1>16, StepKeeps

LEMMA RefIncKeeps ==
  ASSUME RInv, NEW t \in Threads, Elsewhere(t), IInv', FieldsExclusive',
         RefInc(t)
  PROVE  RInv' /\ Staying' = Staying /\ RootHas' = RootHas
<1>1. pc[t] = "ref"
  BY DEF RefInc, Goto
<1>2. job[t].kind \in {"local", "field"}
  BY <1>1 DEF RInv, IInv, TypeOK, Jobs, Phase
<1> QED
  BY <1>2, RefLocalKeeps, RefFieldKeeps

-----------------------------------------------------------------------------
(* NanoVM_unref and _free_obj *)

\* A call of NanoVM_unref keeps the roots and the job of its thread.
LEMMA UnrefRoots ==
  ASSUME RInv, NEW t \in Threads, Elsewhere(t),
         pc[t] \in InUnref, pc'[t] \in InUnref,
         UNCHANGED <<root, var, uses, job>>
  PROVE  RootHas' = RootHas /\ Written(t) = {} /\ Written(t)' = {} /\ VarOK(t)'
<1>1. \A r \in Roots : RootHas'[<<t, r>>] = RootHas[<<t, r>>]
  BY DEF RootHas, Stored, InUnref
<1> QED
  BY <1>1, RootSame DEF Written, InUnref, VarOK, Pending

LEMMA UnrefJob ==
  ASSUME RInv, NEW t \in Threads,
         pc[t] \in InUnref, pc'[t] \in InUnref,
         UNCHANGED <<root, var, uses, job, arity, field>>
  PROVE  FieldJobOK(t)'
  BY DEF RInv, FieldJobOK, InUnref

\* The thread that finds the last reference has it in hand: nobody else has
\* one, nor a pointer that somebody has to guard.
LEMMA FoundAlone ==
  ASSUME RInv, NEW t \in Threads, pc[t] \in {"unref", "isZero"},
         Active(t).ref # Null, cnt[Active(t).ref] \in {0, 1}
  PROVE  Alone(t)
<1> DEFINE o == Active(t).ref
<1>1. HandHas[t] = o /\ o \in Staying
  BY HandIs DEF ToUnref, RInv, Valid, Kept
<1>2. /\ \A x \in Threads \X Roots : RootHas[x] # o
      /\ \A x \in Objs \X Slots : SlotHas[x] # o
      /\ \A u \in Threads : u # t => HandHas[u] # o
  BY <1>1, LastInHand DEF RInv
<1>3. ASSUME NEW u \in Threads, u # t, var[u] = o
      PROVE  FALSE
  <2>1. CASE Pending(u)
    <3>1. ~Fresh(u)
      BY <1>1, <1>3 DEF Fresh, Others
    <3>2. Guarded(u)
      BY <1>3, <2>1, <3>1 DEF RInv, VarOK
    <3>3. uses[u] \subseteq Objs
      BY DEF RInv, IInv, TypeOK
    <3> QED
      BY <1>2, <1>3, <3>2, <3>3 DEF Guarded
  <2>2. CASE ~Pending(u)
    BY <1>2, <1>3, <2>2, LateVar
  <2> QED
    BY <2>1, <2>2
<1> QED
  BY <1>2, <1>3 DEF Alone

LEMMA UnrefTestKeeps ==
  ASSUME RInv, NEW t \in Threads, Elsewhere(t), IInv', FieldsExclusive',
         UnrefIsOne(t) \/ UnrefIsZero(t)
  PROVE  RInv' /\ Staying' = Staying /\ RootHas' = RootHas
<1>1. /\ pc[t] \in {"unref", "isZero"} /\ pc'[t] \in {"isZero", "last", "dec"}
      /\ Active(t).ref # Null
      /\ pc'[t] = "last" => cnt[Active(t).ref] \in {0, 1}
      /\ UNCHANGED <<root, var, uses, job, calls, live, arity, field, cnt>>
  BY DEF UnrefIsOne, UnrefIsZero, IsOne, Goto, heap, contents, thread, RInv,
         IInv, TypeOK, Phase
<1>2. HandHas' = HandHas
  <2>1. HandHas'[t] = HandHas[t]
    BY <1>1 DEF HandHas, Active, ToUnref
  <2> QED
    BY <2>1, HandSame
<1>3. RootHas' = RootHas /\ Open(t)' = Open(t) /\ VarOK(t)' /\ FieldJobOK(t)'
  BY <1>1, UnrefRoots, UnrefJob DEF InUnref, Open
<1>4. SlotHas' = SlotHas
  BY <1>1, <1>3, SlotSame
<1>5. pc'[t] = "last" => Alone(t)'
  <2>1. pc'[t] = "last" => Alone(t)
    BY <1>1, FoundAlone
  <2>2. Active(t)' = Active(t)
    BY <1>1 DEF Active
  <2> QED
    BY <1>1, <1>2, <1>3, <1>4, <2>1, <2>2 DEF Alone
<1>6. Phase(t)'
  BY <1>1, <1>5 DEF RInv, Phase, InUnref, Active, ToUnref
<1>7. OnceIn(calls'[t]) /\ Freed(calls'[t]) = Freed(calls[t])
  BY <1>1 DEF RInv, Once
<1>8. var'[t] \in Seen(t)
  BY <1>1 DEF Seen
<1> QED
  BY <1>1, <1>2, <1>3, <1>6, <1>7, <1>8, StillKeeps

LEMMA UnrefDecKeeps ==
  ASSUME RInv, NEW t \in Threads, Elsewhere(t), IInv', FieldsExclusive',
         UnrefDec(t)
  PROVE  RInv' /\ Staying' = Staying /\ RootHas' = RootHas
<1>1. /\ pc[t] = "dec" /\ pc'[t] = "decUnlock" /\ Active(t).ref # Null
      /\ cnt' = [cnt EXCEPT ![Active(t).ref] = cnt[Active(t).ref] - 1]
      /\ UNCHANGED <<root, var, uses, job, calls, live, arity, field>>
  BY DEF UnrefDec, SetCount, Goto, contents, thread, RInv, IInv, TypeOK, Phase
<1>2. HandHas[t] = Active(t).ref /\ HandHas' = Update(HandHas, t, Null)
  <2>1. HandHas[t] = Active(t).ref /\ HandHas'[t] = Null
    BY <1>1 DEF HandHas, OldInHand, NewInHand
  <2> QED
    BY <2>1, HandUpdate
<1>3. /\ RootHas' = RootHas /\ Open(t)' = Open(t) /\ VarOK(t)' /\ FieldJobOK(t)'
      /\ SlotHas' = SlotHas
  <2>1. RootHas' = RootHas /\ Open(t)' = Open(t) /\ VarOK(t)' /\ FieldJobOK(t)'
    BY <1>1, UnrefRoots, UnrefJob DEF InUnref, Open
  <2> QED
    BY <1>1, <2>1, SlotSame
<1>4. Phase(t)'
  BY <1>1 DEF RInv, Phase, InUnref, Active
<1>5. Staying' = Staying /\ Once'
  BY <1>1, StayingKept DEF RInv, Once
<1>6. Valid' /\ Counted'
  BY <1>1, <1>2, <1>3, <1>5, HandDrops DEF RInv
<1>7. PastNull'
  BY <1>1 DEF RInv, PastNull
<1>8. HandHas'[t] = Null
  <2>1. Update(HandHas, t, Null)[t] = Null
    BY HoldersDomains DEF Update
  <2> QED
    BY <1>2, <2>1
<1>9. /\ \A y \in Threads \X Roots : RootHas'[y] \in Seen(t)
      /\ \A y \in Objs \X Slots : SlotHas'[y] \in Seen(t)
      /\ HandHas'[t] \in Seen(t) /\ var'[t] \in Seen(t)
  BY <1>1, <1>3, <1>8 DEF Seen
<1>10. \A u \in Threads : u # t /\ Fresh(u) => var[u] \in Staying'
  BY <1>5 DEF Fresh
<1> QED
  BY <1>1, <1>3, <1>4, <1>5, <1>6, <1>7, <1>9, <1>10, StepKeeps

\* The object of the last reference goes, and nobody had another.
LEMMA UnrefLastKeeps ==
  ASSUME RInv, NEW t \in Threads, Elsewhere(t), IInv', FieldsExclusive',
         UnrefLast(t)
  PROVE  LET o == Active(t).ref IN
         /\ RInv' /\ RootHas' = RootHas
         /\ o \in Staying /\ Staying' = Staying \ {o} /\ HandHas[t] = o
         /\ \A x \in Threads \X Roots : RootHas[x] # o
         /\ \A x \in Objs \X Slots : SlotHas[x] # o
         /\ \A u \in Threads : u # t => HandHas[u] # o
<1> DEFINE o == Active(t).ref
           s == [calls[t] EXCEPT ![1].next = 1]
<1>1. /\ pc[t] = "last" /\ pc'[t] = "free" /\ o # Null /\ Alone(t)
      /\ cnt' = [cnt EXCEPT ![o] = 0] /\ calls'[t] = s
      /\ UNCHANGED <<root, var, uses, job, live, arity, field>>
  BY DEF UnrefLast, FreeFrom, Goto, contents, thread, RInv, IInv, TypeOK, Phase
<1>2. /\ calls[t] \in Seq(Activations) /\ calls[t] # <<>>
      /\ Active(t) = calls[t][1] /\ calls[t][1].next = 0
  BY <1>1, ActiveOK DEF RInv, InUnref, Phase
<1>3. HandHas[t] = o /\ o \in Staying
  BY <1>1, HandIs DEF RInv, Valid, Kept
<1>4. /\ Past(s) = Past(calls[t]) /\ Freed(s) = Freed(calls[t]) \cup {o}
      /\ OnceIn(s)
  BY <1>2, <1>3, PastFirst, StayingFacts DEF RInv, Once
<1> HIDE DEF s
<1>5. /\ RootHas' = RootHas /\ Open(t)' = Open(t) /\ VarOK(t)' /\ FieldJobOK(t)'
      /\ SlotHas' = SlotHas
  <2>1. RootHas' = RootHas /\ Open(t)' = Open(t) /\ VarOK(t)' /\ FieldJobOK(t)'
    BY <1>1, <1>4, UnrefRoots, UnrefJob DEF InUnref, Open
  <2> QED
    BY <1>1, <2>1, SlotSame
<1>6. HandHas' = Update(HandHas, t, Null)
  <2>1. HandHas'[t] = Null
    BY <1>1 DEF HandHas, OldInHand, NewInHand
  <2> QED
    BY <2>1, HandUpdate
<1>7. \A u \in Threads : HandHas'[u] = IF u = t THEN Null ELSE HandHas[u]
  <2>1. \A u \in Threads :
          Update(HandHas, t, Null)[u] = IF u = t THEN Null ELSE HandHas[u]
    BY HoldersDomains DEF Update
  <2> QED
    BY <1>6, <2>1
<1>8. /\ \A x \in Threads \X Roots : RootHas[x] # o
      /\ \A x \in Objs \X Slots : SlotHas[x] # o
      /\ \A u \in Threads : u # t => HandHas[u] # o
  BY <1>1 DEF Alone
<1>9. Staying' = Staying \ {o}
  <2>1. \A u \in Threads : Freeing(u)' = IF u = t THEN Freeing(t) \cup {o}
                                                  ELSE Freeing(u)
    <3>1. \A u \in Threads : Freeing(u)' = Freed(calls'[u])
      BY DEF Freeing, Freed
    <3> QED
      BY <1>1, <1>4, <3>1, FreeingIsFreed DEF Elsewhere
  <2> QED
    BY <1>1, <2>1 DEF Staying, Dying
<1>10. Once'
  <2>1. \A u \in Threads : Freed(calls[u]) \subseteq live
    BY FreeingIsFreed DEF RInv, Once
  <2>2. o \in live
    BY <1>3, StayingFacts
  <2> QED
    BY <1>1, <1>3, <1>4, <2>1, <2>2, OnceKept
<1>11. Valid'
  BY <1>5, <1>7, <1>8, <1>9 DEF RInv, Valid, Kept
<1>12. Counted'
  <2>1. ASSUME NEW p \in Staying \ {o} PROVE cnt'[p] = Held(p)'
    <3>1. At(HandHas', p) = At(HandHas, p)
      <4>1. p # Null /\ DOMAIN HandHas' = Threads /\ DOMAIN HandHas = Threads
        BY StayingFacts, HoldersDomains DEF RInv, HandHas
      <4> QED
        BY <1>3, <1>7, <2>1, <4>1 DEF At
    <3>2. Held(p)' = Held(p)
      BY <1>5, <3>1 DEF Held
    <3>3. cnt'[p] = cnt[p]
      BY <1>1, <2>1, StayingFacts DEF RInv, IInv, TypeOK
    <3> QED
      BY <2>1, <3>2, <3>3 DEF RInv, Counted
  <2> QED
    BY <1>9, <2>1 DEF Counted
<1>13. PastNull'
  BY <1>1 DEF RInv, PastNull
<1>14. Phase(t)'
  BY <1>1 DEF RInv, Phase, InUnref
<1>15. /\ \A y \in Threads \X Roots : RootHas'[y] \in Seen(t)
       /\ \A y \in Objs \X Slots : SlotHas'[y] \in Seen(t)
       /\ HandHas'[t] \in Seen(t) /\ var'[t] \in Seen(t)
  BY <1>1, <1>5, <1>7 DEF Seen
<1>16. \A u \in Threads : u # t /\ Fresh(u) => var[u] \in Staying'
  <2>1. \A u \in Threads : Fresh(u) => var[u] # o
    BY <1>3 DEF Fresh, Others
  <2> QED
    BY <1>9, <2>1 DEF Fresh
<1> QED
  BY <1>3, <1>8, <1>9, <1>1, <1>5, <1>10, <1>11, <1>12, <1>13, <1>14, <1>15, <1>16, StepKeeps

LEMMA FreeDepKeeps ==
  ASSUME RInv, NEW t \in Threads, Elsewhere(t), IInv', FieldsExclusive',
         FreeDep(t)
  PROVE  RInv' /\ Staying' = Staying /\ RootHas' = RootHas
<1> DEFINE o == Active(t).ref
           i == Active(t).next
           x == <<o, i>>
           s == <<Call(field[o][i])>> \o calls[t]
<1>1. /\ pc[t] = "free" /\ pc'[t] = "unref" /\ i <= arity[o] /\ calls'[t] = s
      /\ UNCHANGED <<root, var, uses, job, live, arity, field, cnt>>
  BY DEF FreeDep, Goto, heap, contents, thread, RInv, IInv, TypeOK
<1>2. /\ calls[t] \in Seq(Activations) /\ calls[t] # <<>>
      /\ Waiting(calls[t]) /\ Active(t) = calls[t][1]
  BY <1>1, ActiveOK DEF RInv, InUnref
<1>3. o \in Objs /\ i > 0 /\ i \in Slots
  <2>1. Frees(calls[t][1])
    BY <1>1 DEF RInv, IInv, CallsOK
  <2>2. o \in Objs /\ i \in Nat /\ i >= 1
    <3>1. i \in 0 .. MaxSlots + 1
      BY <1>1, ActiveOK DEF RInv, InUnref
    <3> QED
      BY <1>2, <2>1, <3>1, SlotsAssumption DEF Frees
  <2>3. arity[o] \in 0 .. MaxSlots
    BY <2>2 DEF RInv, IInv, TypeOK
  <2> QED
    BY <1>1, <2>2, <2>3, SlotsAssumption DEF Slots
<1>4. field[o][i] \in Ref
  BY <1>3 DEF RInv, IInv, TypeOK
<1>5. /\ Past(s) = Past(calls[t]) \cup {x} /\ Freed(s) = Freed(calls[t])
      /\ OnceIn(s)
  BY <1>2, <1>3, <1>4, PastDep DEF RInv, Once
<1>6. Head(s).ref = field[o][i] /\ Head(s).next = 0
  <2> DEFINE c == <<Call(field[o][i])>>
  <2>1. c \in Seq(Activations) /\ Len(c) = 1 /\ c[1] = Call(field[o][i])
    BY <1>4, SlotsAssumption DEF Activations, Call
  <2>2. Head(s) = c[1]
    <3>1. s \in Seq(Activations) /\ Len(s) = 1 + Len(calls[t]) /\ s[1] = c[1]
      <4>1. Len(calls[t]) \in Nat
        BY <1>2, LenProperties
      <4> HIDE DEF c
      <4>2. /\ c \o calls[t] \in Seq(Activations)
            /\ Len(c \o calls[t]) = Len(c) + Len(calls[t])
            /\ \A k \in 1 .. Len(c) + Len(calls[t]) :
                 (c \o calls[t])[k] = IF k <= Len(c) THEN c[k]
                                      ELSE calls[t][k - Len(c)]
        BY <1>2, <2>1, ConcatProperties
      <4> QED
        BY <2>1, <4>1, <4>2 DEF c
    <3> HIDE DEF s, c
    <3> QED
      BY <3>1, <1>2, EmptySeq, LenProperties, HeadTailProperties
  <2> QED
    BY <2>1, <2>2 DEF Call
<1> HIDE DEF s
<1>7. o \in Freed(calls[t])
  BY <1>2, <1>3, EmptySeq, LenProperties DEF Freed
<1>8. o \in live /\ o \notin Staying /\ x \in Objs \X Slots
  BY <1>3, <1>7, StayingFacts, FreeingIsFreed DEF RInv, Once
<1>9. \A u \in Threads : x \notin Open(u)
  <2>1. \A u \in Threads : x \notin Written(u)
    BY <1>8, FieldJobSlot DEF Written
  <2>2. \A u \in Threads : u # t => x \notin Past(calls[u])
    <3>1. \A u \in Threads : u # t => o \notin Freed(calls[u])
      BY <1>7, FreeingIsFreed DEF RInv, Once
    <3> QED
      BY <3>1, PastIsFreed
  <2>3. x \notin Past(calls[t])
    <3> SUFFICES ASSUME NEW k \in DOMAIN calls[t],
                        calls[t][k].next > 0, calls[t][k].ref = o,
                        i < calls[t][k].next + (IF k = 1 THEN 0 ELSE 1)
                 PROVE  FALSE
      BY DEF Past
    <3>1. 1 \in DOMAIN calls[t] /\ calls[t][1].next > 0
      BY <1>2, <1>3, EmptySeq, LenProperties
    <3>2. k = 1
      BY <1>2, <3>1 DEF RInv, Once, OnceIn
    <3> QED
      BY <1>2, <1>3, <3>2, SlotsAssumption DEF Slots
  <2> QED
    BY <2>1, <2>2, <2>3 DEF Open
<1>10. SlotHas[x] = field[o][i]
  BY <1>8, <1>9, SlotIs
<1>11. HandHas[t] = Null /\ HandHas' = Update(HandHas, t, SlotHas[x])
  <2>1. HandHas[t] = Null /\ HandHas'[t] = field[o][i]
    BY <1>1, <1>6 DEF HandHas, OldInHand, NewInHand, Active
  <2> QED
    BY <1>10, <2>1, HandUpdate
<1>12. /\ RootHas' = RootHas /\ VarOK(t)' /\ FieldJobOK(t)'
       /\ Open(t)' = Open(t) \cup {x}
  BY <1>1, <1>5, UnrefRoots, UnrefJob DEF InUnref, Open
<1>13. SlotHas' = Update(SlotHas, x, Null)
  <2>1. SlotHas'[x] = Null
    BY <1>8, <1>12 DEF SlotHas
  <2>2. \A y \in Objs \X Slots : y # x => (y \in Open(t)' <=> y \in Open(t))
    BY <1>12
  <2> QED
    BY <1>1, <1>8, <2>1, <2>2, SlotUpdate
<1>14. Staying' = Staying /\ Once'
  BY <1>1, <1>5, StayingKept
<1>15. Valid' /\ Counted'
  BY <1>1, <1>8, <1>11, <1>12, <1>13, <1>14, SlotToHand DEF RInv
<1>16. PastNull'
  BY <1>1 DEF RInv, PastNull
<1>17. Phase(t)'
  BY <1>1, <1>6 DEF RInv, Phase, InUnref, Active
<1>18. /\ \A y \in Objs \X Slots : SlotHas'[y] = IF y = x THEN Null ELSE SlotHas[y]
       /\ HandHas'[t] = SlotHas[x]
  <2>1. \A y \in Objs \X Slots :
          Update(SlotHas, x, Null)[y] = IF y = x THEN Null ELSE SlotHas[y]
    BY <1>8, HoldersDomains DEF Update
  <2>2. Update(HandHas, t, SlotHas[x])[t] = SlotHas[x]
    BY HoldersDomains DEF Update
  <2> QED
    BY <1>11, <1>13, <2>1, <2>2
<1>19. /\ \A y \in Threads \X Roots : RootHas'[y] \in Seen(t)
       /\ \A y \in Objs \X Slots : SlotHas'[y] \in Seen(t)
       /\ HandHas'[t] \in Seen(t) /\ var'[t] \in Seen(t)
  BY <1>1, <1>8, <1>12, <1>18 DEF Seen
<1>20. \A y \in Objs \X Slots :
         y[1] \in Staying \ uses[t] => SlotHas'[y] = SlotHas[y]
  BY <1>8, <1>18
<1>21. \A u \in Threads : u # t /\ Fresh(u) => var[u] \in Staying'
  BY <1>14 DEF Fresh
<1> QED
  BY <1>1, <1>12, <1>14, <1>15, <1>16, <1>17, <1>19, <1>20, <1>21, StepKeeps

\* What an activation of NanoVM_unref leaves when it returns.
LEMMA ReturnLeaves ==
  ASSUME RInv, NEW t \in Threads, Elsewhere(t), pc[t] \in InUnref, Return(t),
         UNCHANGED <<arity, field>>
  PROVE  /\ calls'[t] = Returned(calls[t])
         /\ RootHas' = RootHas /\ HandHas'[t] = Null
         /\ Written(t) = {} /\ Written(t)' = {}
         /\ VarOK(t)' /\ FieldJobOK(t)' /\ Phase(t)'
         /\ var'[t] \in {var[t], Null}
<1>1. Written(t) = {}
  BY DEF Written, InUnref
<1>2. CASE Tail(calls[t]) = <<>>
  <2>1. calls'[t] = <<>> /\ pc'[t] = "caller" /\ Finish(t)
    BY <1>2 DEF Return, ReturnStepping, RInv, IInv, TypeOK
  <2>2. /\ job'[t] = NoJob /\ var'[t] = Null
        /\ root' = IF job[t].kind = "local"
                   THEN [root EXCEPT ![t][job[t].at] = var[t]] ELSE root
    BY <2>1 DEF Finish, RInv, IInv, TypeOK
  <2>3. RootHas' = RootHas
    <3>1. \A r \in Roots : RootHas'[<<t, r>>] = root'[t][r]
      BY <2>1 DEF RootHas, Stored
    <3>2. \A r \in Roots : root'[t][r] = RootHas[<<t, r>>]
      BY <2>2, RootIs DEF Stored, InUnref, RInv, IInv, TypeOK
    <3> QED
      BY <3>1, <3>2, RootSame
  <2>4. HandHas'[t] = Null /\ Written(t)' = {}
    BY <2>1 DEF HandHas, OldInHand, NewInHand, Written
  <2>5. VarOK(t)' /\ FieldJobOK(t)' /\ Phase(t)'
    BY <2>1, <2>2 DEF VarOK, FieldJobOK, Phase, InUnref, NoJob
  <2> QED
    BY <1>1, <1>2, <2>1, <2>2, <2>3, <2>4, <2>5 DEF Returned
<1>3. CASE Tail(calls[t]) # <<>>
  <2>1. /\ calls'[t] = Returned(calls[t]) /\ pc'[t] = "free"
        /\ UNCHANGED <<root, var, uses, job>>
    BY <1>3 DEF Return, ReturnStepping, Returned, RInv, IInv, TypeOK, thread
  <2>2. /\ RootHas' = RootHas /\ VarOK(t)' /\ FieldJobOK(t)'
        /\ Written(t)' = {}
    BY <2>1, UnrefRoots, UnrefJob DEF InUnref
  <2>3. HandHas'[t] = Null
    BY <2>1 DEF HandHas, OldInHand, NewInHand
  <2>4. Phase(t)'
    BY <2>1 DEF RInv, Phase, InUnref
  <2> QED
    BY <1>1, <2>1, <2>2, <2>3, <2>4
<1> QED
  BY <1>2, <1>3

\* An activation that freed nothing returns.
LEMMA ReturnKeeps ==
  ASSUME RInv, NEW t \in Threads, Elsewhere(t), IInv', FieldsExclusive',
         pc[t] \in {"unref", "decUnlock"}, HandHas[t] = Null, Return(t),
         UNCHANGED <<live, arity, field, cnt>>
  PROVE  RInv' /\ Staying' = Staying /\ RootHas' = RootHas
<1>1. /\ calls[t] \in Seq(Activations) /\ calls[t] # <<>>
      /\ Waiting(calls[t]) /\ calls[t][1].next = 0
  BY ActiveOK DEF RInv, InUnref, Phase
<1>2. /\ Past(Returned(calls[t])) = Past(calls[t])
      /\ Freed(Returned(calls[t])) = Freed(calls[t])
      /\ OnceIn(Returned(calls[t]))
  BY <1>1, PastReturn DEF RInv, Once
<1>3. /\ calls'[t] = Returned(calls[t])
      /\ RootHas' = RootHas /\ HandHas'[t] = Null
      /\ Written(t) = {} /\ Written(t)' = {}
      /\ VarOK(t)' /\ FieldJobOK(t)' /\ Phase(t)'
      /\ var'[t] \in {var[t], Null}
  BY ReturnLeaves DEF InUnref
<1>4. HandHas' = HandHas
  BY <1>3, HandSame
<1>5. Open(t)' = Open(t)
  BY <1>2, <1>3 DEF Open
<1>6. var'[t] \in Seen(t)
  BY <1>3 DEF Seen
<1> QED
  BY <1>2, <1>3, <1>4, <1>5, <1>6, StillKeeps

LEMMA UnrefNullKeeps ==
  ASSUME RInv, NEW t \in Threads, Elsewhere(t), IInv', FieldsExclusive',
         UnrefNull(t)
  PROVE  RInv' /\ Staying' = Staying /\ RootHas' = RootHas
<1>1. /\ pc[t] = "unref" /\ Active(t).ref = Null /\ Return(t)
      /\ UNCHANGED <<live, arity, field, cnt>>
  BY DEF UnrefNull, heap, contents
<1>2. HandHas[t] = Null
  BY <1>1, HandIs
<1> QED
  BY <1>1, <1>2, ReturnKeeps

LEMMA UnrefUnlockKeeps ==
  ASSUME RInv, NEW t \in Threads, Elsewhere(t), IInv', FieldsExclusive',
         UnrefUnlock(t)
  PROVE  RInv' /\ Staying' = Staying /\ RootHas' = RootHas
<1>1. /\ pc[t] = "decUnlock" /\ Return(t) /\ UNCHANGED <<live, arity, field, cnt>>
  BY DEF UnrefUnlock, contents
<1>2. HandHas[t] = Null
  BY <1>1, HandIs DEF OldInHand, NewInHand
<1> QED
  BY <1>1, <1>2, ReturnKeeps

\* The memory of an object is given back when all it held was unref'd.
LEMMA FreeHeapKeeps ==
  ASSUME RInv, NEW t \in Threads, Elsewhere(t), IInv', FieldsExclusive',
         FreeHeap(t)
  PROVE  RInv' /\ Staying' = Staying /\ RootHas' = RootHas
<1> DEFINE o == Active(t).ref
           n == Active(t).next
           s == calls[t]
<1>1. /\ pc[t] = "free" /\ n > arity[o] /\ Return(t) /\ live' = live \ {o}
      /\ UNCHANGED <<arity, field, cnt>>
  BY DEF FreeHeap
<1>2. /\ s \in Seq(Activations) /\ s # <<>> /\ Waiting(s) /\ Active(t) = s[1]
      /\ o \in Objs /\ n \in Nat /\ n > 0 /\ OnceIn(s)
  <2>1. /\ s \in Seq(Activations) /\ s # <<>> /\ Waiting(s) /\ Active(t) = s[1]
        /\ n \in 0 .. MaxSlots + 1
    BY <1>1, ActiveOK DEF RInv, InUnref
  <2>2. o \in Objs /\ n >= 1
    BY <1>1, <2>1 DEF RInv, IInv, CallsOK, Frees
  <2> QED
    BY <2>1, <2>2, SlotsAssumption DEF RInv, Once
<1>3. /\ Past(Returned(s)) = {x \in Past(s) : x[1] # o}
      /\ Freed(Returned(s)) = Freed(s) \ {o}
      /\ OnceIn(Returned(s))
  BY <1>2, PastFreed
<1>4. /\ calls'[t] = Returned(s)
      /\ RootHas' = RootHas /\ HandHas'[t] = Null
      /\ Written(t) = {} /\ Written(t)' = {}
      /\ VarOK(t)' /\ FieldJobOK(t)' /\ Phase(t)'
      /\ var'[t] \in {var[t], Null}
  BY <1>1, ReturnLeaves DEF InUnref
<1>5. HandHas' = HandHas
  BY <1>1, <1>4, HandSame, HandIs DEF OldInHand, NewInHand
<1>6. o \in Freed(s)
  BY <1>2, EmptySeq, LenProperties DEF Freed
<1>7. \A u \in Threads : u # t => o \notin Freed(calls[u])
  BY <1>6, FreeingIsFreed DEF RInv, Once
<1>8. SlotHas' = SlotHas
  <2>1. ASSUME NEW x \in Objs \X Slots PROVE SlotHas'[x] = SlotHas[x]
    <3>1. SlotHas'[x] = IF x[1] \in live' /\ \A u \in Threads : x \notin Open(u)'
                        THEN field[x[1]][x[2]] ELSE Null
      BY <1>1 DEF SlotHas
    <3>2. SlotHas[x] = IF x[1] \in live /\ \A u \in Threads : x \notin Open(u)
                       THEN field[x[1]][x[2]] ELSE Null
      BY DEF SlotHas
    <3>3. CASE x[1] # o
      <4>1. x \in Open(t)' <=> x \in Open(t)
        BY <1>3, <1>4, <3>3 DEF Open
      <4>2. \A u \in Threads : x \in Open(u)' <=> x \in Open(u)
        BY <4>1, OpenFrame
      <4> QED
        BY <1>1, <3>1, <3>2, <3>3, <4>2
    <3>4. CASE x[1] = o /\ x[2] < n
      <4>1. x \in Past(s)
        BY <1>2, <3>4, EmptySeq, LenProperties DEF Past
      <4> QED
        BY <1>1, <3>1, <3>2, <3>4, <4>1 DEF Open
    <3>5. CASE x[1] = o /\ ~(x[2] < n)
      <4>1. arity[o] \in Nat /\ x[2] \in Nat /\ x[2] \in Slots
        BY <1>2, SlotsAssumption DEF RInv, IInv, TypeOK, Slots
      <4>2. x[2] > arity[o]
        BY <1>1, <1>2, <3>5, <4>1
      <4>3. field[x[1]][x[2]] = Null
        BY <1>2, <3>5, <4>1, <4>2 DEF RInv, PastNull
      <4> QED
        BY <3>1, <3>2, <4>3
    <3> QED
      BY <3>3, <3>4, <3>5
  <2>2. SlotHas' = [x \in Objs \X Slots |-> SlotHas'[x]]
        /\ SlotHas = [x \in Objs \X Slots |-> SlotHas[x]]
    BY DEF SlotHas
  <2> QED
    BY <2>1, <2>2
<1>9. Staying' = Staying
  <2>1. \A u \in Threads : Freeing(u)' = IF u = t THEN Freeing(t) \ {o}
                                                  ELSE Freeing(u)
    <3>1. \A u \in Threads : Freeing(u)' = Freed(calls'[u])
      BY DEF Freeing, Freed
    <3> QED
      BY <1>3, <1>4, <3>1, FreeingIsFreed DEF Elsewhere
  <2>2. Dying' = Dying \ {o}
    <3>1. \A u \in Threads : u # t => o \notin Freeing(u)
      BY <1>7, FreeingIsFreed
    <3> QED
      BY <2>1, <3>1 DEF Dying
  <2>3. o \in Dying
    BY <1>6, FreeingIsFreed DEF Dying
  <2> QED
    BY <1>1, <2>2, <2>3 DEF Staying
<1>10. Once'
  <2>1. \A u \in Threads : Freed(calls[u]) \subseteq live
    BY FreeingIsFreed DEF RInv, Once
  <2> QED
    BY <1>1, <1>3, <1>4, <1>7, <2>1, OnceKept
<1>11. Valid' /\ Counted'
  BY <1>1, <1>4, <1>5, <1>8, <1>9, StillHeld DEF RInv
<1>12. PastNull'
  BY <1>1 DEF RInv, PastNull
<1>13. /\ \A y \in Threads \X Roots : RootHas'[y] \in Seen(t)
       /\ \A y \in Objs \X Slots : SlotHas'[y] \in Seen(t)
       /\ HandHas'[t] \in Seen(t) /\ var'[t] \in Seen(t)
  BY <1>4, <1>5, <1>8 DEF Seen
<1>14. \A u \in Threads : u # t /\ Fresh(u) => var[u] \in Staying'
  BY <1>9 DEF Fresh
<1> QED
  BY <1>9, <1>1, <1>4, <1>8, <1>10, <1>11, <1>12, <1>13, <1>14, StepKeeps

-----------------------------------------------------------------------------
LEMMA InitRInv == Init => RInv
<1> SUFFICES ASSUME Init
             PROVE  RInv
  OBVIOUS
<1> USE NullAssumption, RootAssumption
<1>1. IInv
  BY InitIInv
<1>2. /\ \A t \in Threads : /\ pc[t] = "caller" /\ calls[t] = <<>>
                            /\ job[t] = NoJob /\ var[t] = Null /\ uses[t] = {}
      /\ \A t \in Threads, r \in Roots :
           root[t][r] = IF r = Runnable THEN Root ELSE Null
      /\ \A o \in Objs, s \in Slots : field[o][s] = Null
      /\ live = {Root}
      /\ cnt[Root] = Cardinality(Threads)
  BY DEF Init
<1>3. /\ \A t \in Threads, r \in Roots :
           RootHas[<<t, r>>] = IF r = Runnable THEN Root ELSE Null
      /\ \A x \in Objs \X Slots : SlotHas[x] = Null
      /\ \A t \in Threads : HandHas[t] = Null
  BY <1>2 DEF RootHas, SlotHas, HandHas, Stored, OldInHand, NewInHand
<1>4. Staying = {Root} /\ \A t \in Threads : Freeing(t) = {} /\ OnceIn(calls[t])
  <2>1. \A t \in Threads : Freeing(t) = {} /\ OnceIn(calls[t])
    BY <1>2, FreeingIsFreed, PastNothing
  <2> QED
    BY <1>2, <2>1 DEF Staying, Dying
<1>5. Valid
  BY <1>3, <1>4 DEF Valid, Kept
<1>6. Counted
  <2>1. At(HandHas, Root) = {} /\ At(SlotHas, Root) = {}
    BY <1>3, HoldersDomains DEF At
  <2>2. At(RootHas, Root) = Threads \X {Runnable}
    BY <1>3, HoldersDomains DEF At, Roots
  <2>3. Cardinality(At(RootHas, Root)) = Cardinality(Threads)
    <3>1. IsFiniteSet({Runnable}) /\ Cardinality({Runnable}) = 1
      BY FS_Singleton
    <3>2. Cardinality(Threads \X {Runnable})
            = Cardinality(Threads) * Cardinality({Runnable})
      BY <3>1, ThreadsAssumption, FS_Product
    <3>3. Cardinality(Threads) \in Nat
      BY ThreadsAssumption, FS_CardinalityType
    <3> QED
      BY <2>2, <3>1, <3>2, <3>3
  <2>4. Held(Root) = cnt[Root]
    <3>1. Cardinality(Threads) \in Nat
      BY ThreadsAssumption, FS_CardinalityType
    <3> QED
      BY <1>2, <2>1, <2>3, <3>1, FS_EmptySet DEF Held
  <2> QED
    BY <1>4, <2>4 DEF Counted
<1>7. FieldsExclusive /\ PastNull /\ Once
  BY <1>2, <1>4 DEF FieldsExclusive, PastNull, Once
<1>8. \A t \in Threads : VarOK(t) /\ FieldJobOK(t) /\ Phase(t)
  BY <1>2 DEF VarOK, FieldJobOK, Phase, NoJob
<1> QED
  BY <1>1, <1>5, <1>6, <1>7, <1>8 DEF RInv

LEMMA NextRInv ==
  ASSUME RInv, [SyncNext]_vars
  PROVE  RInv'
<1>1. IInv'
  BY NextIInv DEF RInv, SyncNext
<1>2. ASSUME NEW t \in Threads, Start(t) \/ Step(t), FieldsExclusive'
      PROVE  RInv'
  <2>1. Elsewhere(t)
    BY <1>2, StepElsewhere
  <2>2. CASE Start(t)
    BY <1>1, <1>2, <2>1, <2>2, AllocHeapKeeps, GetLocalKeeps, GetFieldKeeps,
       SetLocalKeeps, PutFieldKeeps, ReleaseThreadKeeps
    DEF Start
  <2>3. CASE StoreField(t) \/ RefNull(t) \/ RefInc(t) \/ RefUnlock(t)
    BY <1>1, <1>2, <2>1, <2>3, StoreFieldKeeps, RefNullKeeps, RefIncKeeps,
       RefUnlockKeeps
  <2>4. CASE UnrefNull(t) \/ UnrefIsOne(t) \/ UnrefIsZero(t) \/ UnrefLast(t)
               \/ UnrefDec(t) \/ UnrefUnlock(t)
    BY <1>1, <1>2, <2>1, <2>4, UnrefNullKeeps, UnrefTestKeeps, UnrefLastKeeps,
       UnrefDecKeeps, UnrefUnlockKeeps
  <2>5. CASE FreeDep(t) \/ FreeHeap(t)
    BY <1>1, <1>2, <2>1, <2>5, FreeDepKeeps, FreeHeapKeeps
  <2> QED
    BY <1>2, <2>2, <2>3, <2>4, <2>5 DEF Step
<1>3. CASE UNCHANGED vars
  <2>1. UNCHANGED <<live, cnt, arity, field, root, var, uses, pc, job, calls>>
    BY <1>3 DEF vars, heap, contents, thread
  <2>2. \A t \in Threads : Active(t)' = Active(t) /\ Freeing(t)' = Freeing(t)
    BY <2>1 DEF Active, Freeing
  <2>3. PICK t \in Threads : TRUE
    BY ThreadsAssumption
  <2>4. Elsewhere(t) /\ Open(t)' = Open(t)
    BY <2>1 DEF Elsewhere, Open, Written
  <2>5. RootHas' = RootHas /\ HandHas' = HandHas
    BY <2>1, <2>2 DEF RootHas, HandHas, Stored, OldInHand, NewInHand
  <2>6. SlotHas' = SlotHas
    BY <2>1, <2>4, SlotSame
  <2>7. Staying' = Staying
    BY <2>1, <2>2 DEF Staying, Dying
  <2>8. Valid' /\ Counted'
    BY <2>1, <2>5, <2>6, <2>7, StillHeld DEF RInv
  <2>9. FieldsExclusive' /\ PastNull' /\ Once'
    BY <2>1, <2>2 DEF RInv, FieldsExclusive, PastNull, Once
  <2>10. \A u \in Threads : VarOK(u)'
    <3> SUFFICES ASSUME NEW u \in Threads PROVE VarOK(u)'
      OBVIOUS
    <3>1. Others(u)' = Others(u)
      BY <2>1, <2>5, <2>6 DEF Others
    <3>2. Fresh(u)' <=> Fresh(u)
      BY <2>1, <2>7, <3>1 DEF Fresh
    <3>3. Guarded(u)' <=> Guarded(u)
      BY <2>1, <2>5, <2>6 DEF Guarded
    <3> QED
      BY <2>1, <3>2, <3>3 DEF RInv, VarOK, Pending
  <2>11. \A u \in Threads : FieldJobOK(u)' /\ Phase(u)'
    <3>1. \A u \in Threads : Alone(u)' <=> Alone(u)
      BY <2>1, <2>2, <2>5, <2>6 DEF Alone
    <3> QED
      BY <2>1, <2>2, <3>1 DEF RInv, FieldJobOK, Phase
  <2> QED
    BY <1>1, <2>8, <2>9, <2>10, <2>11 DEF RInv
<1> QED
  BY <1>2, <1>3 DEF SyncNext, Next

LEMMA AlwaysRInv == SyncSpec => []RInv
  BY InitRInv, NextRInv, PTL DEF SyncSpec

-----------------------------------------------------------------------------
\* Between calls the holders are the places.
LEMMA QuietCounts ==
  ASSUME RInv
  PROVE  CountsExact
<1> SUFFICES ASSUME Quiet, NEW o \in live
             PROVE  cnt[o] = Cardinality(RootRefs(o)) + Cardinality(SlotRefs(o))
  BY DEF CountsExact
<1>1. \A t \in Threads : /\ HandHas[t] = Null /\ Open(t) = {}
                         /\ Freed(calls[t]) = {}
                         /\ \A r \in Roots : RootHas[<<t, r>>] = root[t][r]
  BY CallerHas DEF Quiet
<1>2. o \in Staying /\ o \in Objs /\ o # Null
  BY <1>1, StayingFacts, NullAssumption DEF RInv, IInv, TypeOK
<1>3. At(RootHas, o) = RootRefs(o)
  BY <1>1, HoldersDomains DEF At, RootRefs
<1>4. At(SlotHas, o) = SlotRefs(o)
  <2>1. \A x \in Objs \X Slots :
          SlotHas[x] = IF x[1] \in live THEN field[x[1]][x[2]] ELSE Null
    BY <1>1, SlotIs
  <2>2. \A x \in Objs \X Slots : x[2] > arity[x[1]] => field[x[1]][x[2]] = Null
    BY DEF RInv, PastNull
  <2>3. \A x \in Objs \X Slots : x[2] > arity[x[1]] \/ x[2] <= arity[x[1]]
    BY SlotsAssumption DEF RInv, IInv, TypeOK, Slots
  <2>4. live \subseteq Objs
    BY DEF RInv, IInv, TypeOK
  <2>5. ASSUME NEW x \in At(SlotHas, o) PROVE x \in SlotRefs(o)
    BY <1>2, <2>1, <2>2, <2>3, HoldersDomains DEF At, SlotRefs
  <2>6. ASSUME NEW x \in SlotRefs(o) PROVE x \in At(SlotHas, o)
    BY <2>1, <2>4, HoldersDomains DEF At, SlotRefs
  <2>7. At(SlotHas, o) \subseteq SlotRefs(o) /\ SlotRefs(o) \subseteq At(SlotHas, o)
    BY <2>5, <2>6
  <2> QED
    BY <2>7
<1>5. Cardinality(At(HandHas, o)) = 0
  <2>1. At(HandHas, o) = {}
    BY <1>1, <1>2, HoldersDomains DEF At
  <2> QED
    BY <2>1, FS_EmptySet
<1>6. cnt[o] = Held(o)
  BY <1>2 DEF RInv, Counted
<1> QED
  BY <1>3, <1>4, <1>5, <1>6, HeldType DEF Held

\* Whatever any number of threads do, once no call is under way the count of
\* every object is the number of places that refer to it: NanoVM_ref and
\* NanoVM_unref balance, cascades included.
THEOREM HeapCountsExact == SyncSpec => []CountsExact
<1>1. RInv => CountsExact
  BY QuietCounts
<1> QED
  BY AlwaysRInv, <1>1, PTL

\* An object is freed once, and what is being freed or is gone is referred to
\* by no root, no field of an object that stays, and no pointer in hand: no
\* thread comes to it again.
THEOREM HeapNoDangling == SyncSpec => []NoDangling
<1>1. RInv => NoDangling
  <2> SUFFICES ASSUME RInv
               PROVE  NoDangling
    OBVIOUS
  <2> DEFINE gone == (Objs \ live) \cup Dying
  <2>0. Kept \cap gone = {} /\ live \ gone \subseteq Staying
    BY StayingFacts, NullAssumption DEF Kept, Staying, RInv, Once, Dying, IInv,
       TypeOK
  <2>1. FreedOnce
    <3> SUFFICES ASSUME NEW t \in Threads, NEW u \in Threads,
                        NEW i \in DOMAIN calls[t], NEW j \in DOMAIN calls[u],
                        calls[t][i].next > 0
                 PROVE  /\ calls[t][i].ref \in live
                        /\ /\ calls[u][j].next > 0
                           /\ calls[t][i].ref = calls[u][j].ref
                           => t = u /\ i = j
      BY DEF FreedOnce
    <3>1. calls[t][i].ref \in Freeing(t)
      BY DEF Freeing
    <3>2. calls[u][j].next > 0 => calls[u][j].ref \in Freeing(u)
      BY DEF Freeing
    <3> QED
      BY <3>1, <3>2 DEF RInv, Once, OnceIn
  <2>2. \A t \in Threads, r \in Roots :
          root[t][r] \in gone => pc[t] # "caller" /\ job[t].at = r
    BY <2>0, RootIs DEF RInv, Valid, Stored
  <2>3. \A o \in live \ gone : \A s \in 1 .. arity[o] : field[o][s] \notin gone
    <3> SUFFICES ASSUME NEW o \in Staying, NEW s \in 1 .. arity[o]
                 PROVE  field[o][s] \in Kept
      BY <2>0
    <3> DEFINE x == <<o, s>>
    <3>1. o \in live /\ o \in Objs /\ s \in Slots /\ x \in Objs \X Slots
      BY StayingFacts, ArityBound DEF RInv
    <3>2. CASE \E t \in Threads : x \in Written(t)
      <4>1. PICK t \in Threads : /\ pc[t] = "ref" /\ job[t].kind = "field"
                                 /\ job[t].obj = o /\ job[t].at = s
        BY <3>2 DEF Written
      <4>2. field[o][s] = var[t]
        BY <4>1 DEF RInv, FieldJobOK
      <4> QED
        BY <4>2, VarValid
    <3>3. CASE \A t \in Threads : x \notin Written(t)
      <4>1. \A t \in Threads : x \notin Past(calls[t])
        BY PastIsFreed, StayingFacts
      <4>2. SlotHas[x] = field[o][s]
        BY <3>1, <3>3, <4>1, SlotIs DEF Open
      <4> QED
        BY <3>1, <4>2 DEF RInv, Valid
    <3> QED
      BY <3>2, <3>3
  <2>4. \A t \in Threads : var[t] \notin gone
    BY <2>0, VarValid
  <2> QED
    BY <2>1, <2>2, <2>3, <2>4 DEF NoDangling
<1> QED
  BY AlwaysRInv, <1>1, PTL

\* "reference count should not be 0 when unreferenced": NanoVM_unref never
\* finds the count of its object at 0.
THEOREM HeapUnrefCounted == SyncSpec => []UnrefCounted
<1>1. RInv => UnrefCounted
  <2> SUFFICES ASSUME RInv, NEW t \in Threads, pc[t] = "unref",
                      Active(t).ref # Null
               PROVE  cnt[Active(t).ref] > 0
    BY DEF UnrefCounted
  <2> DEFINE o == Active(t).ref
  <2>1. HandHas[t] = o
    BY HandIs DEF ToUnref
  <2>2. cnt[o] = Held(o)
    BY <2>1 DEF RInv, Valid, Kept, Counted
  <2>3. Cardinality(At(HandHas, o)) >= 1
    BY <2>1, HoldersFinite, HoldersDomains, AtHas
  <2> QED
    BY <2>2, <2>3, HeldType DEF Held
<1> QED
  BY AlwaysRInv, <1>1, PTL

-----------------------------------------------------------------------------
(* The heap implements the managed heap. *)

SameSeen == FieldsSeen' = FieldsSeen /\ RootsSeen' = RootsSeen

LEMMA SeenIs ==
  /\ RootsSeen = [t \in Threads |-> [r \in Roots |-> RootHas[<<t, r>>]]]
  /\ FieldsSeen = [o \in Objs |-> IF o \in Staying THEN field[o]
                                  ELSE [s \in Slots |-> Null]]
  /\ RootsSeen' = [t \in Threads |-> [r \in Roots |-> RootHas'[<<t, r>>]]]
  /\ FieldsSeen' = [o \in Objs |-> IF o \in Staying' THEN field'[o]
                                   ELSE [s \in Slots |-> Null]]
<1>1. \A t \in Threads, r \in Roots :
        RootHas'[<<t, r>>] = IF Stored(t)' /\ job'[t].at = r THEN var'[t]
                                                            ELSE root'[t][r]
  BY DEF RootHas
<1>2. /\ RootsSeen = [t \in Threads |-> [r \in Roots |-> RootHas[<<t, r>>]]]
      /\ RootsSeen' = [t \in Threads |-> [r \in Roots |-> RootHas'[<<t, r>>]]]
  BY <1>1, RootIs DEF RootsSeen
<1> QED
  BY <1>2 DEF FieldsSeen

LEMMA SeenSame ==
  ASSUME Staying' = Staying, RootHas' = RootHas, field' = field
  PROVE  SameSeen
  BY SeenIs DEF SameSeen

\* A local variable is seen to change.
LEMMA RootSeen ==
  ASSUME NEW t \in Threads, NEW r \in Roots, NEW v,
         RootHas' = Update(RootHas, <<t, r>>, v)
  PROVE  RootsSeen' = [RootsSeen EXCEPT ![t][r] = v]
<1>1. \A y \in Threads \X Roots :
        Update(RootHas, <<t, r>>, v)[y] = IF y = <<t, r>> THEN v ELSE RootHas[y]
  <2>1. <<t, r>> \in DOMAIN RootHas /\ DOMAIN RootHas = Threads \X Roots
    BY HoldersDomains
  <2> QED
    BY <2>1 DEF Update
<1>2. \A u \in Threads, p \in Roots :
        RootHas'[<<u, p>>] = IF u = t /\ p = r THEN v ELSE RootHas[<<u, p>>]
  BY <1>1
<1>3. \A u \in Threads : RootsSeen[u] = [p \in Roots |-> RootHas[<<u, p>>]]
  BY SeenIs
<1>4. DOMAIN RootsSeen = Threads /\ \A u \in Threads : DOMAIN RootsSeen[u] = Roots
  BY SeenIs
<1>5. \A u \in Threads :
        [p \in Roots |-> RootHas'[<<u, p>>]]
          = IF u = t THEN [RootsSeen[t] EXCEPT ![r] = v] ELSE RootsSeen[u]
  <2> SUFFICES ASSUME NEW u \in Threads
               PROVE  [p \in Roots |-> RootHas'[<<u, p>>]]
                        = IF u = t THEN [RootsSeen[t] EXCEPT ![r] = v]
                                   ELSE RootsSeen[u]
    OBVIOUS
  <2>1. CASE u = t
    <3>1. [RootsSeen[t] EXCEPT ![r] = v]
            = [p \in Roots |-> IF p = r THEN v ELSE RootsSeen[t][p]]
      BY <1>4
    <3>2. \A p \in Roots : RootsSeen[t][p] = RootHas[<<t, p>>]
      BY <1>3
    <3>3. \A p \in Roots : RootHas'[<<t, p>>] = IF p = r THEN v ELSE RootsSeen[t][p]
      BY <1>2, <3>2
    <3> QED
      BY <2>1, <3>1, <3>3
  <2>2. CASE u # t
    BY <1>2, <1>3, <2>2
  <2> QED
    BY <2>1, <2>2
<1>6. RootsSeen' = [u \in Threads |-> IF u = t THEN [RootsSeen[t] EXCEPT ![r] = v]
                                             ELSE RootsSeen[u]]
  BY <1>5, SeenIs
<1> QED
  BY <1>4, <1>6, SeenIs

\* The step that gives up the last reference to an object frees it.
LEMMA LastUnseen ==
  ASSUME RInv, NEW t \in Threads, Elsewhere(t), IInv', FieldsExclusive',
         UnrefLast(t)
  PROVE  Managed!Free(Active(t).ref)
<1> DEFINE o == Active(t).ref
<1>1. /\ pc[t] = "last" /\ o # Null
      /\ UNCHANGED <<root, var, uses, job, live, arity, field>>
  BY DEF UnrefLast, FreeFrom, Goto, contents, thread, RInv, IInv, TypeOK, Phase
<1>2. /\ RootHas' = RootHas /\ HandHas[t] = o
      /\ o \in Staying /\ Staying' = Staying \ {o}
      /\ \A x \in Threads \X Roots : RootHas[x] # o
      /\ \A x \in Objs \X Slots : SlotHas[x] # o
      /\ \A u \in Threads : u # t => HandHas[u] # o
  BY UnrefLastKeeps
<1>3. \A u \in Threads : var[u] # o
  <2>1. \A u \in Threads : u # t => var[u] # o
    BY <1>1 DEF RInv, Phase, Alone
  <2>2. var[t] # o
    BY <1>1, <1>2, LateVar DEF Pending
  <2> QED
    BY <2>1, <2>2
<1>4. \A p \in Staying, s \in Slots : field[p][s] # o
  <2> SUFFICES ASSUME NEW p \in Staying, NEW s \in Slots
               PROVE  field[p][s] # o
    OBVIOUS
  <2> DEFINE x == <<p, s>>
  <2>1. p \in live /\ x \in Objs \X Slots
    BY StayingFacts DEF RInv
  <2>2. CASE \E u \in Threads : x \in Written(u)
    <3>1. PICK u \in Threads : /\ pc[u] = "ref" /\ job[u].kind = "field"
                               /\ job[u].obj = p /\ job[u].at = s
      BY <2>2 DEF Written
    <3>2. field[p][s] = var[u]
      BY <3>1 DEF RInv, FieldJobOK
    <3> QED
      BY <1>3, <3>2
  <2>3. CASE \A u \in Threads : x \notin Written(u)
    <3>1. \A u \in Threads : x \notin Past(calls[u])
      BY PastIsFreed, StayingFacts
    <3>2. SlotHas[x] = field[p][s]
      BY <2>1, <2>3, <3>1, SlotIs DEF Open
    <3> QED
      BY <1>2, <2>1, <3>2
  <2> QED
    BY <2>2, <2>3
<1>5. \A p \in Staying, s \in Slots : FieldsSeen[p][s] # o
  BY <1>4, SeenIs, StayingFacts DEF RInv
<1>6. \A u \in Threads, r \in Roots : RootsSeen[u][r] # o
  BY <1>2, SeenIs
<1>7. ~Managed!Referred(o)
  BY <1>3, <1>5, <1>6 DEF Managed!Referred
<1>8. RootsSeen' = RootsSeen
  BY <1>2, SeenIs
<1>9. FieldsSeen' = [FieldsSeen EXCEPT ![o] = Managed!NoFields]
  <2>1. o \in Objs
    BY <1>2, StayingFacts DEF RInv
  <2>2. \A p \in Objs : (IF p \in Staying' THEN field'[p] ELSE [s \in Slots |-> Null])
                     = IF p = o THEN Managed!NoFields ELSE FieldsSeen[p]
    BY <1>1, <1>2, SeenIs DEF Managed!NoFields
  <2> QED
    BY <2>1, <2>2, SeenIs
<1> QED
  BY <1>1, <1>2, <1>7, <1>8, <1>9 DEF Managed!Free

\* A new object is where none was.
LEMMA AllocSeen ==
  ASSUME RInv, NEW t \in Threads, Elsewhere(t), IInv', FieldsExclusive',
         AllocHeap(t)
  PROVE  Managed!Alloc(t)
<1>1. PICK o \in Objs \ live, n \in Arities :
        /\ live' = live \cup {o}
        /\ field' = [field EXCEPT ![o] = [s \in Slots |-> Null]]
        /\ var' = [var EXCEPT ![t] = o]
  BY DEF AllocHeap
<1>2. RootHas' = RootHas /\ Staying' = Staying \cup {o} /\ o \notin Staying
  BY <1>1, AllocHeapKeeps
<1>3. var[t] = Null
  BY DEF AllocHeap
<1>4. RootsSeen' = RootsSeen
  BY <1>2, SeenIs
<1>5. FieldsSeen' = FieldsSeen
  <2>1. \A p \in Objs : field'[p] = IF p = o THEN [s \in Slots |-> Null]
                                             ELSE field[p]
    BY <1>1 DEF RInv, IInv, TypeOK
  <2>2. \A p \in Objs : (IF p \in Staying' THEN field'[p] ELSE [s \in Slots |-> Null])
                     = IF p \in Staying THEN field[p] ELSE [s \in Slots |-> Null]
    BY <1>2, <2>1
  <2> QED
    BY <2>2, SeenIs
<1> QED
  BY <1>1, <1>2, <1>3, <1>4, <1>5 DEF Managed!Alloc

LEMMA GetLocalSeen ==
  ASSUME RInv, NEW t \in Threads, Elsewhere(t), IInv', FieldsExclusive',
         GetLocal(t)
  PROVE  Managed!Load(t)
<1>1. PICK r \in Roots : var' = [var EXCEPT ![t] = root[t][r]]
  BY DEF GetLocal
<1>2. pc[t] = "caller" /\ var[t] = Null /\ field' = field
  BY DEF GetLocal, Ready, heap, contents
<1>3. RootsSeen[t][r] = root[t][r]
  BY <1>2, CallerHas, SeenIs
<1>4. Staying' = Staying /\ SameSeen
  BY <1>2, GetLocalKeeps, SeenSame
<1> QED
  BY <1>1, <1>2, <1>3, <1>4 DEF SameSeen, Managed!Load

LEMMA GetFieldSeen ==
  ASSUME RInv, NEW t \in Threads, Elsewhere(t), IInv', FieldsExclusive',
         GetField(t)
  PROVE  Managed!Load(t)
<1>1. PICK r \in Roots : \E s \in 1 .. arity[root[t][r]] :
        /\ root[t][r] # Null
        /\ var' = [var EXCEPT ![t] = field[root[t][r]][s]]
  BY DEF GetField
<1> DEFINE o == root[t][r]
<1>2. pc[t] = "caller" /\ var[t] = Null /\ field' = field
  BY DEF GetField, Ready, heap, contents
<1>3. RootsSeen[t][r] = o /\ o \in Staying /\ o \in Objs
  <2>1. RootHas[<<t, r>>] = o
    BY <1>2, CallerHas
  <2>2. o \in Staying
    BY <1>1, <2>1 DEF RInv, Valid, Kept
  <2> QED
    BY <2>1, <2>2, SeenIs, StayingFacts DEF RInv
<1>4. PICK s \in Slots : var' = [var EXCEPT ![t] = field[o][s]]
  BY <1>1, <1>3, ArityBound
<1>5. FieldsSeen[o][s] = field[o][s]
  BY <1>3, SeenIs
<1>6. Staying' = Staying /\ SameSeen
  BY <1>2, GetFieldKeeps, SeenSame
<1>7. o \in Managed!InReach(t)
  BY <1>3 DEF Managed!InReach
<1> QED
  BY <1>2, <1>4, <1>5, <1>6, <1>7 DEF SameSeen, Managed!Load

LEMMA StoreSeen ==
  ASSUME RInv, NEW t \in Threads, Elsewhere(t), IInv', FieldsExclusive',
         StoreField(t)
  PROVE  Managed!Put(t)
<1> DEFINE o == job[t].obj
           s == job[t].at
<1>1. /\ pc[t] = "store" /\ var' = var
      /\ field' = [field EXCEPT ![o][s] = var[t]]
  BY DEF StoreField, Goto, thread
<1>2. job[t].kind = "field"
  BY <1>1 DEF RInv, Phase
<1>3. PICK r \in Roots : RootHas[<<t, r>>] = o
  BY <1>2, FieldJobSlot
<1>4. o \in Staying /\ o \in Objs /\ s \in Slots
  BY <1>2, FieldJobSlot
<1>5. o \in Managed!InReach(t)
  BY <1>3, <1>4, SeenIs DEF Managed!InReach
<1>6. Staying' = Staying /\ RootHas' = RootHas
  BY StoreFieldKeeps
<1>7. RootsSeen' = RootsSeen
  BY <1>6, SeenIs
<1>8. FieldsSeen' = [FieldsSeen EXCEPT ![o][s] = var[t]]
  <2>1. /\ FieldsSeen[o] = field[o] /\ DOMAIN FieldsSeen = Objs
        /\ \A p \in Objs : FieldsSeen[p] = IF p \in Staying THEN field[p]
                                           ELSE [i \in Slots |-> Null]
    BY <1>4, SeenIs
  <2>2. \A p \in Objs : field'[p] = IF p = o THEN [field[o] EXCEPT ![s] = var[t]]
                                             ELSE field[p]
    BY <1>1, <1>4 DEF RInv, IInv, TypeOK
  <2>3. \A p \in Objs : (IF p \in Staying' THEN field'[p] ELSE [i \in Slots |-> Null])
          = IF p = o THEN [FieldsSeen[o] EXCEPT ![s] = var[t]] ELSE FieldsSeen[p]
    BY <1>4, <1>6, <2>1, <2>2
  <2>4. FieldsSeen' = [p \in Objs |-> IF p = o THEN [FieldsSeen[o] EXCEPT ![s] = var[t]]
                                               ELSE FieldsSeen[p]]
    BY <2>3, SeenIs
  <2> QED
    BY <1>4, <2>1, <2>4
<1> QED
  BY <1>1, <1>4, <1>5, <1>6, <1>7, <1>8 DEF Managed!Put

\* A local variable is stored, as far as the program sees, when the unref of
\* what it had begins.
LEMMA KeepSeen ==
  ASSUME RInv, NEW t \in Threads, Staying' = Staying, var' = var, field' = field,
         \/ RootHas' = RootHas
         \/ \E r \in Roots : RootHas' = Update(RootHas, <<t, r>>, var[t])
  PROVE  Managed!Keep(t) \/ UNCHANGED Managed!vars
<1>1. CASE RootHas' = RootHas
  BY <1>1, SeenSame DEF SameSeen, Managed!vars
<1>2. ASSUME NEW r \in Roots, RootHas' = Update(RootHas, <<t, r>>, var[t])
      PROVE  Managed!Keep(t)
  <2>1. RootsSeen' = [RootsSeen EXCEPT ![t][r] = var[t]]
    BY <1>2, RootSeen
  <2>2. FieldsSeen' = FieldsSeen
    BY SeenIs
  <2> QED
    BY <2>1, <2>2 DEF Managed!Keep
<1> QED
  BY <1>1, <1>2

\* A call that is done forgets its value, one that goes on changes nothing.
LEMMA DropSeen ==
  ASSUME RInv, NEW t \in Threads, Staying' = Staying, RootHas' = RootHas,
         field' = field, var' = var \/ var' = [var EXCEPT ![t] = Null]
  PROVE  Managed!Drop(t) \/ UNCHANGED Managed!vars
  BY SeenSame DEF SameSeen, Managed!Drop, Managed!vars

LEMMA StepSeen ==
  ASSUME RInv, NEW t \in Threads, Start(t) \/ Step(t), IInv', FieldsExclusive'
  PROVE  Managed!Next \/ UNCHANGED Managed!vars
<1> USE DEF heap, contents, thread
<1>1. Elsewhere(t)
  BY StepElsewhere
<1>2. CASE AllocHeap(t)
  BY <1>1, <1>2, AllocSeen DEF Managed!Next
<1>3. CASE GetLocal(t) \/ GetField(t)
  BY <1>1, <1>3, GetLocalSeen, GetFieldSeen DEF Managed!Next
<1>4. CASE SetLocal(t) \/ PutField(t)
  <2>1. Staying' = Staying /\ RootHas' = RootHas
    BY <1>1, <1>4, SetLocalKeeps, PutFieldKeeps
  <2>2. var' = var /\ field' = field
    BY <1>4 DEF SetLocal, PutField
  <2> QED
    BY <2>1, <2>2, DropSeen DEF Managed!Next
<1>5. CASE ReleaseThread(t)
  <2>1. Staying' = Staying /\ RootHas' = Update(RootHas, <<t, Runnable>>, Null)
    BY <1>1, <1>5, ReleaseThreadKeeps
  <2>2. var[t] = Null /\ var' = var /\ field' = field /\ Runnable \in Roots
    BY <1>5 DEF ReleaseThread, Roots
  <2> QED
    BY <2>1, <2>2, KeepSeen DEF Managed!Next
<1>6. CASE StoreField(t)
  BY <1>1, <1>6, StoreSeen DEF Managed!Next
<1>7. CASE RefNull(t) \/ RefUnlock(t)
  <2>1. /\ Staying' = Staying
        /\ \/ RootHas' = RootHas
           \/ \E r \in Roots : RootHas' = Update(RootHas, <<t, r>>, var[t])
    BY <1>1, <1>7, RefNullKeeps, RefUnlockKeeps
  <2>2. var' = var /\ field' = field
    BY <1>7 DEF RefNull, RefUnlock
  <2> QED
    BY <2>1, <2>2, KeepSeen DEF Managed!Next
<1>8. CASE RefInc(t) \/ UnrefIsOne(t) \/ UnrefIsZero(t) \/ UnrefDec(t)
             \/ FreeDep(t)
  <2>1. Staying' = Staying /\ RootHas' = RootHas
    BY <1>1, <1>8, RefIncKeeps, UnrefTestKeeps, UnrefDecKeeps, FreeDepKeeps
  <2>2. var' = var /\ field' = field
    BY <1>8 DEF RefInc, UnrefIsOne, UnrefIsZero, UnrefDec, FreeDep
  <2> QED
    BY <2>1, <2>2, DropSeen DEF Managed!Next
<1>9. CASE UnrefNull(t) \/ UnrefUnlock(t) \/ FreeHeap(t)
  <2>1. Staying' = Staying /\ RootHas' = RootHas
    BY <1>1, <1>9, UnrefNullKeeps, UnrefUnlockKeeps, FreeHeapKeeps
  <2>2. Return(t) /\ field' = field
    BY <1>9 DEF UnrefNull, UnrefUnlock, FreeHeap
  <2>3. var' = var \/ var' = [var EXCEPT ![t] = Null]
    BY <2>2 DEF Return, ReturnStepping, Finish
  <2> QED
    BY <2>1, <2>2, <2>3, DropSeen DEF Managed!Next
<1>10. CASE UnrefLast(t)
  <2>1. Managed!Free(Active(t).ref)
    BY <1>1, <1>10, LastUnseen
  <2>2. Active(t).ref \in Objs
    BY <1>1, <1>10, UnrefLastKeeps, StayingFacts DEF RInv
  <2> QED
    BY <2>1, <2>2 DEF Managed!Next
<1> QED
  BY <1>2, <1>3, <1>4, <1>5, <1>6, <1>7, <1>8, <1>9, <1>10 DEF Start, Step

LEMMA InitSeen == Init => Managed!Init
<1> SUFFICES ASSUME Init
             PROVE  Managed!Init
  OBVIOUS
<1>1. \A t \in Threads : ~Stored(t) /\ Freeing(t) = {}
  BY DEF Init, Stored, Freeing
<1>2. Staying = {Root}
  BY <1>1 DEF Staying, Dying, Init
<1>3. RootsSeen = [t \in Threads |-> [r \in Roots |-> IF r = Runnable THEN Root
                                                                  ELSE Null]]
  BY <1>1 DEF Init, RootsSeen
<1>4. FieldsSeen = [o \in Objs |-> [s \in Slots |-> Null]]
  BY SeenIs DEF Init
<1> QED
  BY <1>2, <1>3, <1>4 DEF Init, Managed!Init, Managed!NoFields

\* Counts, the test of the count outside the lock, and cascades that run while
\* other threads go on implement the managed heap: an object goes in one step,
\* the one that clears its count, when nothing refers to it.
THEOREM HeapRefines == SyncSpec => AbstractSpec
<1>1. RInv /\ RInv' /\ [SyncNext]_vars => [Managed!Next]_(Managed!vars)
  <2> SUFFICES ASSUME RInv, RInv', [SyncNext]_vars
               PROVE  Managed!Next \/ UNCHANGED Managed!vars
    OBVIOUS
  <2>1. CASE UNCHANGED vars
    <3>1. UNCHANGED <<live, field, root, var, pc, job, calls>>
      BY <2>1 DEF vars, heap, contents, thread
    <3>2. \A t \in Threads : Freeing(t)' = Freeing(t)
      BY <3>1 DEF Freeing
    <3>3. Staying' = Staying
      BY <3>1, <3>2 DEF Staying, Dying
    <3>4. RootHas' = RootHas
      BY <3>1 DEF RootHas, Stored
    <3> QED
      BY <3>1, <3>3, <3>4, SeenSame DEF SameSeen, Managed!vars
  <2>2. CASE SyncNext
    BY <2>2, StepSeen DEF SyncNext, Next, RInv
  <2> QED
    BY <2>1, <2>2
<1> QED
  BY AlwaysRInv, InitSeen, <1>1, PTL DEF SyncSpec, AbstractSpec, Managed!Spec

-----------------------------------------------------------------------------
(* What no root leads to. *)

\* Among sets of members of a finite set, one contains no other.
LEMMA Smallest ==
  ASSUME NEW S, IsFiniteSet(S), NEW T, T \subseteq SUBSET S, T # {}
  PROVE  \E x \in T : \A y \in T : y \subseteq x => y = x
<1>1. FiniteSubsetsOf(S) = SUBSET S
  BY FS_FiniteSubsetsOfFinite
<1>2. IsWellFoundedOn(StrictSubsetOrdering(S), SUBSET S)
  BY <1>1, FS_StrictSubsetOrderingWellFounded
<1>3. PICK x \in T : \A y \in T : <<y, x>> \notin StrictSubsetOrdering(S)
  BY <1>2, WFMin
<1>4. ASSUME NEW y \in T, y \subseteq x, y # x
      PROVE  FALSE
  <2>1. <<y, x>> \in (SUBSET S) \X (SUBSET S)
    OBVIOUS
  <2>2. <<y, x>> \in StrictSubsetOrdering(S)
    BY <1>4, <2>1 DEF StrictSubsetOrdering
  <2> QED
    BY <1>3, <2>2
<1> QED
  BY <1>4

\* What a set leads to is the least set that contains it and is closed under
\* following slots.
LEMMA LeadsToIs ==
  ASSUME IInv, NEW S, S \subseteq Ref
  PROVE  /\ LeadsTo(S) \subseteq Ref /\ S \subseteq LeadsTo(S)
         /\ \A p \in LeadsTo(S) \cap Objs, s \in Slots : field[p][s] \in LeadsTo(S)
         /\ \A T \in SUBSET Ref :
              /\ S \subseteq T
              /\ \A p \in T \cap Objs, s \in Slots : field[p][s] \in T
              => LeadsTo(S) \subseteq T
<1>1. \A p \in Objs, s \in Slots : field[p][s] \in Ref
  BY DEF IInv, TypeOK
<1> QED
  BY <1>1 DEF LeadsTo

\* What the slots of o lead to.
Below(o) == LeadsTo({field[o][s] : s \in Slots})

LEMMA BelowIs ==
  ASSUME IInv, NEW o \in Objs
  PROVE  /\ Below(o) \subseteq Ref
         /\ \A s \in Slots : field[o][s] \in Below(o)
         /\ \A q \in Below(o) \cap Objs : Below(q) \subseteq Below(o)
<1>1. \A p \in Objs : {field[p][s] : s \in Slots} \subseteq Ref
  BY DEF IInv, TypeOK
<1>2. /\ Below(o) \subseteq Ref /\ {field[o][s] : s \in Slots} \subseteq Below(o)
      /\ \A p \in Below(o) \cap Objs, s \in Slots : field[p][s] \in Below(o)
  BY <1>1, LeadsToIs DEF Below
<1>3. ASSUME NEW q \in Below(o) \cap Objs
      PROVE  Below(q) \subseteq Below(o)
  <2>1. {field[q][s] : s \in Slots} \subseteq Below(o)
    BY <1>2
  <2>2. {field[q][s] : s \in Slots} \subseteq Ref
    BY <1>1
  <2> HIDE DEF Below
  <2>3. LeadsTo({field[q][s] : s \in Slots}) \subseteq Below(o)
    BY <1>2, <2>1, <2>2, LeadsToIs
  <2> QED
    BY <2>3 DEF Below
<1> QED
  BY <1>2, <1>3

\* Between calls, an object that no root leads to and whose count is not 0 is
\* in a slot of another such object.
LEMMA GarbageHeld ==
  ASSUME RInv, Quiet, NEW o \in live \ Reach, cnt[o] # 0
  PROVE  \E p \in live \ Reach, s \in Slots : field[p][s] = o
<1> DEFINE S == {root[t][r] : t \in Threads, r \in Roots}
                  \cup {var[t] : t \in Threads}
<1>1. IInv /\ S \subseteq Ref /\ live \subseteq Objs
  BY DEF RInv, IInv, TypeOK
<1>2. /\ S \subseteq Reach
      /\ \A p \in Reach \cap Objs, s \in Slots : field[p][s] \in Reach
  BY <1>1, LeadsToIs DEF Reach
<1>3. RootRefs(o) = {}
  BY <1>2 DEF RootRefs
<1>4. cnt[o] = Cardinality(RootRefs(o)) + Cardinality(SlotRefs(o))
  BY QuietCounts DEF CountsExact
<1>5. SlotRefs(o) # {}
  BY <1>3, <1>4, FS_EmptySet
<1>6. PICK p \in live, s \in Slots : field[p][s] = o
  BY <1>5 DEF SlotRefs
<1>7. p \notin Reach
  BY <1>1, <1>2, <1>6
<1> QED
  BY <1>6, <1>7

\* Counts that are 0 for new objects alone leave only cycles behind: the holder
\* of an object that no root leads to is one too, and leads to more, which
\* comes to an end.
LEMMA NoLeakFrees ==
  ASSUME RInv, NoLeak
  PROVE  GarbageFreed
<1> SUFFICES ASSUME Quiet, \A o \in live : ~OnCycle(o), live \ Reach # {}
             PROVE  FALSE
  BY DEF GarbageFreed
<1>1. IInv /\ live \subseteq Objs
  BY DEF RInv, IInv, TypeOK
<1>2. ASSUME NEW o \in live \ Reach
      PROVE  \E p \in live \ Reach : /\ o \in Below(p) /\ o \notin Below(o)
                                     /\ Below(o) \subseteq Below(p)
  <2>1. \A t \in Threads : var[t] # o
    <3>1. {root[t][r] : t \in Threads, r \in Roots} \cup {var[t] : t \in Threads}
            \subseteq Ref
      BY DEF RInv, IInv, TypeOK
    <3> QED
      BY <1>1, <3>1, LeadsToIs DEF Reach
  <2>2. cnt[o] # 0
    BY <2>1 DEF NoLeak
  <2>3. PICK p \in live \ Reach, s \in Slots : field[p][s] = o
    BY <2>2, GarbageHeld
  <2>4. o \in Below(p) /\ Below(o) \subseteq Below(p)
    BY <1>1, <2>3, BelowIs
  <2>5. o \notin Below(o)
    BY DEF OnCycle, Below
  <2> QED
    BY <2>4, <2>5
<1> DEFINE Rest(o) == Ref \ Below(o)
           T == {Rest(o) : o \in live \ Reach}
<1>3. IsFiniteSet(Ref)
  BY ObjsAssumption, FS_AddElement DEF Ref
<1>4. T \subseteq SUBSET Ref /\ T # {}
  OBVIOUS
<1> HIDE DEF T
<1>5. PICK x \in T : \A y \in T : y \subseteq x => y = x
  BY <1>3, <1>4, Smallest
<1> USE DEF T
<1>6. PICK o \in live \ Reach : x = Rest(o)
  BY <1>5
<1>7. PICK p \in live \ Reach : /\ o \in Below(p) /\ o \notin Below(o)
                                /\ Below(o) \subseteq Below(p)
  BY <1>2
<1>8. Rest(p) \subseteq Rest(o) /\ Rest(p) # Rest(o)
  BY <1>1, <1>7 DEF Ref
<1> QED
  BY <1>5, <1>6, <1>8

-----------------------------------------------------------------------------
(* One thread. *)

\* A count is 0 while the object is new, and an object whose count the thread
\* found above 1 is decremented from there.
Sole(t) ==
  /\ \A o \in Staying : cnt[o] >= 1 \/ (var[t] = o /\ Pending(t))
  /\ pc[t] \in {"isZero", "dec"} => cnt[Active(t).ref] > 1

LEMMA OneThread ==
  ASSUME NEW t, Threads = {t}, RInv, [Next]_vars
  PROVE  RInv'
<1>1. FieldsExclusive'
  BY DEF FieldsExclusive
<1> QED
  BY <1>1, NextRInv DEF SyncNext

\* Counts of objects that stay are not negative.
LEMMA CountType ==
  ASSUME RInv, NEW o \in Staying
  PROVE  o \in Objs /\ cnt[o] \in Nat
  BY HeldType, StayingFacts DEF RInv, Counted

\* While no pointer waits to be stored, nothing that stays has count 0.
LEMMA SoleNull ==
  ASSUME RInv, NEW t \in Threads, Sole(t), var[t] = Null \/ ~Pending(t)
  PROVE  \A o \in Staying : cnt[o] >= 1
  BY CountType, NullAssumption DEF Sole

LEMMA SoleStart ==
  ASSUME NEW t \in Threads, Start(t), RInv, RInv', Sole(t), Elsewhere(t)
  PROVE  Sole(t)'
<1> USE DEF heap, contents, thread
<1>1. IInv' /\ FieldsExclusive' /\ pc[t] = "caller"
      /\ pc'[t] \notin {"isZero", "dec"}
  BY DEF Start, AllocHeap, GetLocal, GetField, SetLocal, PutField,
         ReleaseThread, Ready, Goto, RInv, IInv, TypeOK
<1>2. CASE AllocHeap(t)
  <2>1. PICK o \in Objs \ live :
          /\ live' = live \cup {o} /\ cnt' = [cnt EXCEPT ![o] = 0]
          /\ var' = [var EXCEPT ![t] = o] /\ pc' = pc /\ var[t] = Null
    BY <1>2 DEF AllocHeap
  <2>2. Staying' = Staying \cup {o} /\ o \notin Staying
    BY <1>1, <1>2, <2>1, AllocHeapKeeps
  <2>3. var'[t] = o /\ \A p \in Staying : cnt'[p] = cnt[p]
    BY <2>1, <2>2 DEF RInv, IInv, TypeOK
  <2>4. \A p \in Staying : cnt[p] >= 1
    BY <2>1, SoleNull
  <2> QED
    BY <1>1, <2>1, <2>2, <2>3, <2>4 DEF Sole, Pending
<1>3. CASE GetLocal(t) \/ GetField(t) \/ ReleaseThread(t)
  <2>1. cnt' = cnt /\ var[t] = Null
    BY <1>3 DEF GetLocal, GetField, ReleaseThread
  <2>2. Staying' = Staying
    BY <1>1, <1>3, GetLocalKeeps, GetFieldKeeps, ReleaseThreadKeeps
  <2>3. \A o \in Staying : cnt[o] >= 1
    BY <2>1, SoleNull
  <2> QED
    BY <1>1, <2>1, <2>2, <2>3 DEF Sole
<1>4. CASE SetLocal(t) \/ PutField(t)
  <2>1. cnt' = cnt /\ var' = var /\ Pending(t)'
    BY <1>4 DEF SetLocal, PutField, Goto, Pending, RInv, IInv, TypeOK
  <2>2. Staying' = Staying
    BY <1>1, <1>4, SetLocalKeeps, PutFieldKeeps
  <2> QED
    BY <1>1, <2>1, <2>2 DEF Sole
<1> QED
  BY <1>2, <1>3, <1>4 DEF Start

LEMMA SoleStep ==
  ASSUME NEW t \in Threads, Step(t), RInv, RInv', Sole(t), Elsewhere(t)
  PROVE  Sole(t)'
<1> USE DEF heap, contents, thread
<1>1. IInv' /\ FieldsExclusive'
  BY DEF RInv
<1>2. CASE StoreField(t)
  <2>1. cnt' = cnt /\ var' = var /\ pc'[t] = "ref"
    BY <1>2 DEF StoreField, Goto, RInv, IInv, TypeOK
  <2>2. Staying' = Staying
    BY <1>1, <1>2, StoreFieldKeeps
  <2> QED
    BY <2>1, <2>2 DEF Sole, Pending
<1>3. CASE RefNull(t) \/ RefUnlock(t)
  <2>1. cnt' = cnt /\ pc'[t] = "unref" /\ (var[t] = Null \/ ~Pending(t))
    BY <1>3 DEF RefNull, RefUnlock, Goto, Pending, RInv, IInv, TypeOK
  <2>2. Staying' = Staying
    BY <1>1, <1>3, RefNullKeeps, RefUnlockKeeps
  <2> QED
    BY <2>1, <2>2, SoleNull DEF Sole
<1>4. CASE RefInc(t)
  <2>1. /\ pc[t] = "ref" /\ pc'[t] = "refUnlock"
        /\ cnt' = [cnt EXCEPT ![var[t]] = cnt[var[t]] + 1]
    BY <1>4 DEF RefInc, SetCount, Goto, RInv, IInv, TypeOK
  <2>2. Staying' = Staying
    BY <1>1, <1>4, RefIncKeeps
  <2>3. ASSUME NEW o \in Staying
        PROVE  cnt'[o] >= 1
    <3>1. o \in Objs /\ cnt[o] \in Nat
      BY CountType
    <3>2. cnt'[o] = IF o = var[t] THEN cnt[o] + 1 ELSE cnt[o]
      BY <2>1, <3>1 DEF RInv, IInv, TypeOK
    <3> QED
      BY <3>1, <3>2 DEF Sole
  <2> QED
    BY <2>1, <2>2, <2>3 DEF Sole
<1>5. CASE UnrefIsOne(t) \/ UnrefIsZero(t)
  <2>1. /\ pc[t] \in {"unref", "isZero"} /\ calls' = calls /\ cnt' = cnt
        /\ Active(t).ref # Null
        /\ pc'[t] \in {"isZero", "dec"} =>
             pc[t] = "isZero" \/ cnt[Active(t).ref] # 1
    BY <1>5
    DEF UnrefIsOne, UnrefIsZero, IsOne, Goto, RInv, IInv, TypeOK, Phase
  <2>2. Staying' = Staying
    BY <1>1, <1>5, UnrefTestKeeps
  <2>3. Active(t).ref \in Staying
    BY <2>1, HandIs DEF RInv, Valid, Kept, ToUnref
  <2>4. \A o \in Staying : cnt[o] >= 1
    BY <2>1, SoleNull DEF Pending
  <2>5. pc'[t] \in {"isZero", "dec"} => cnt[Active(t).ref] > 1
    BY <2>1, <2>3, <2>4, CountType DEF Sole
  <2>6. Active(t)' = Active(t)
    BY <2>1 DEF Active
  <2> QED
    BY <2>1, <2>2, <2>4, <2>5, <2>6 DEF Sole
<1>6. CASE UnrefDec(t)
  <2>1. /\ pc[t] = "dec" /\ pc'[t] = "decUnlock"
        /\ cnt' = [cnt EXCEPT ![Active(t).ref] = cnt[Active(t).ref] - 1]
    BY <1>6 DEF UnrefDec, SetCount, Goto, RInv, IInv, TypeOK
  <2>2. Staying' = Staying
    BY <1>1, <1>6, UnrefDecKeeps
  <2>3. \A o \in Staying : cnt[o] >= 1
    BY <2>1, SoleNull DEF Pending
  <2>4. ASSUME NEW o \in Staying
        PROVE  cnt'[o] >= 1
    <3>1. o \in Objs /\ cnt[o] \in Nat
      BY CountType
    <3>2. cnt'[o] = IF o = Active(t).ref THEN cnt[o] - 1 ELSE cnt[o]
      BY <2>1, <3>1 DEF RInv, IInv, TypeOK
    <3>3. o = Active(t).ref => cnt[o] > 1
      BY <2>1 DEF Sole
    <3> QED
      BY <2>3, <3>1, <3>2, <3>3
  <2> QED
    BY <2>1, <2>2, <2>4 DEF Sole
<1>7. CASE UnrefLast(t)
  <2>1. /\ pc[t] = "last" /\ pc'[t] = "free"
        /\ cnt' = [cnt EXCEPT ![Active(t).ref] = 0]
    BY <1>7 DEF UnrefLast, FreeFrom, Goto, RInv, IInv, TypeOK
  <2>2. Staying' = Staying \ {Active(t).ref}
    BY <1>1, <1>7, UnrefLastKeeps
  <2>3. \A o \in Staying' : cnt'[o] = cnt[o]
    BY <2>1, <2>2 DEF RInv, IInv, TypeOK
  <2>4. \A o \in Staying : cnt[o] >= 1
    BY <2>1, SoleNull DEF Pending
  <2> QED
    BY <2>1, <2>2, <2>3, <2>4 DEF Sole
<1>8. CASE FreeDep(t)
  <2>1. pc[t] = "free" /\ pc'[t] = "unref" /\ cnt' = cnt
    BY <1>8 DEF FreeDep, Goto, RInv, IInv, TypeOK
  <2>2. Staying' = Staying
    BY <1>1, <1>8, FreeDepKeeps
  <2> QED
    BY <2>1, <2>2, SoleNull DEF Sole, Pending
<1>9. CASE UnrefNull(t) \/ UnrefUnlock(t) \/ FreeHeap(t)
  <2>1. /\ pc[t] \in {"unref", "decUnlock", "free"} /\ Return(t) /\ cnt' = cnt
    BY <1>9 DEF UnrefNull, UnrefUnlock, FreeHeap
  <2>2. pc'[t] \in {"caller", "free"}
    BY <2>1 DEF Return, ReturnStepping, RInv, IInv, TypeOK
  <2>3. Staying' = Staying
    BY <1>1, <1>9, UnrefNullKeeps, UnrefUnlockKeeps, FreeHeapKeeps
  <2> QED
    BY <2>1, <2>2, <2>3, SoleNull DEF Sole, Pending
<1> QED
  BY <1>2, <1>3, <1>4, <1>5, <1>6, <1>7, <1>8, <1>9 DEF Step

LEMMA AlwaysSole ==
  ASSUME NEW t, Threads = {t}
  PROVE  Spec => [](RInv /\ Sole(t))
<1> DEFINE Inv == RInv /\ Sole(t)
<1>1. Init => Inv
  <2> SUFFICES ASSUME Init PROVE Inv
    OBVIOUS
  <2>1. RInv
    BY InitRInv
  <2>2. Staying \subseteq {Root} /\ pc[t] = "caller"
    BY DEF Init, Staying
  <2>3. cnt[Root] = 1
    BY RootAssumption, FS_Singleton DEF Init
  <2> QED
    BY <2>1, <2>2, <2>3 DEF Sole
<1>2. Inv /\ [Next]_vars => Inv'
  <2> SUFFICES ASSUME RInv, Sole(t), [Next]_vars PROVE Inv'
    OBVIOUS
  <2>1. RInv'
    BY OneThread
  <2>2. CASE UNCHANGED vars
    <3>1. UNCHANGED <<live, cnt, var, pc, calls>>
      BY <2>2 DEF vars, heap, contents, thread
    <3>2. Staying' = Staying /\ Active(t)' = Active(t)
      BY <3>1 DEF Staying, Dying, Freeing, Active
    <3> QED
      BY <2>1, <3>1, <3>2 DEF Sole, Pending
  <2>3. CASE Next
    <3>1. Start(t) \/ Step(t)
      BY <2>3 DEF Next
    <3>2. Elsewhere(t)
      BY <3>1, StepElsewhere DEF RInv
    <3> QED
      BY <2>1, <3>1, <3>2, SoleStart, SoleStep
  <2> QED
    BY <2>2, <2>3
<1> QED
  BY <1>1, <1>2, PTL DEF Spec

LEMMA SoleNoLeak ==
  ASSUME NEW t, Threads = {t}, RInv, Sole(t)
  PROVE  NoLeak
<1> SUFFICES ASSUME Quiet, NEW o \in live, cnt[o] = 0
             PROVE  var[t] = o
  BY DEF NoLeak
<1>1. o \in Staying
  BY CallerHas, StayingFacts DEF Quiet
<1> QED
  BY <1>1 DEF Sole

\* "0 is invalid state" (memory.c:293): with one thread the count of an object
\* is 0 between calls only while the object is new. With two, heap_leak shows
\* a count that two threads brought down to 0 without either freeing.
THEOREM HeapNoLeakAlone ==
  ASSUME NEW t, Threads = {t}
  PROVE  Spec => []NoLeak
<1>1. RInv /\ Sole(t) => NoLeak
  BY SoleNoLeak
<1> QED
  BY AlwaysSole, <1>1, PTL

\* With one thread nothing but cycles outlives its last reference: the cascade
\* of _free_obj reaches everything that the reference kept alive.
THEOREM HeapGarbageFreed ==
  ASSUME NEW t, Threads = {t}
  PROVE  Spec => []GarbageFreed
<1>1. RInv /\ Sole(t) => GarbageFreed
  BY SoleNoLeak, NoLeakFrees
<1> QED
  BY AlwaysSole, <1>1, PTL
=============================================================================
