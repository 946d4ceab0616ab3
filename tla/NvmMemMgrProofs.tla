-------------------------- MODULE NvmMemMgrProofs --------------------------
(***************************************************************************)
(* Proofs about NvmMemMgr: type correctness, the bound on the accounts,    *)
(* the manager's lock, the singletons that are made once, and the blocks,  *)
(* each with one owner, that the accounts are the sums of.                 *)
(*                                                                         *)
(* The argument: a thread between its locked test and its unlock holds the *)
(* manager's lock, so a kind that it found unmade stays unmade until it    *)
(* makes it (Unmade); and a singleton that is made stays what it is until  *)
(* the manager is released, when no thread is in a call (Idle).            *)
(***************************************************************************)
EXTENDS NvmMemMgr, FiniteSetTheorems, TLAPS

Getting == {"get", "lock", "test", "type", "value", "read", "got"}

\* What a thread has at hand.
HasKind == \A t \in Threads : pc[t] \in Getting => kind[t] \in Kinds
HasObj == \A t \in Threads : pc[t] = "init" => obj[t] \in Places
HasType ==
  \A t \in Threads :
    /\ pc[t] = "type" => kind[t] = Null
    /\ pc[t] = "value" /\ kind[t] = Null => nullType \in Places

\* A kind is unmade until the thread that found it so makes it; a thread
\* that reads it again finds it, or was refused memory.
Unmade ==
  \A t \in Threads : pc[t] \in {"type", "value"} => zero[kind[t]] = None
ReadMade ==
  \A t \in Threads : pc[t] = "read" => zero[kind[t]] # None \/ oom[t]

\* What the unlocked test found is kept until the call has something better.
NoResult ==
  \A t \in Threads : pc[t] \in Locked \cup {"lock"} => res[t] = None

Idle == released => \A t \in Threads : pc[t] = "caller"

Control ==
  /\ LockHeld /\ HasKind /\ HasObj /\ HasType
  /\ Unmade /\ ReadMade /\ NoResult /\ Idle

IInv == TypeOK /\ UsageBounded /\ Control /\ OneZero /\ GotUnlessRefused

USE DEF Areas, Kinds, account, mgr, blocks, call

\* The two halves of the type invariant: a step of a call either moves a
\* block on or off an account, or leaves the accounts alone.
Accounts ==
  /\ area \in [Places -> Areas \cup {"free"}]
  /\ size \in [Places -> Nat]
  /\ used \in [Areas -> Int]

Others ==
  /\ zero \in [Kinds -> Places \cup {None}]
  /\ nullType \in Places \cup {None}
  /\ mlock \in Threads \cup {None}
  /\ released \in BOOLEAN
  /\ given \subseteq Places
  /\ default \in [Places -> SUBSET (Kinds \X Places)]
  /\ pc \in [Threads -> {"caller", "crashed", "init", "get", "lock", "test",
                        "type", "value", "read", "got"}]
  /\ obj \in [Threads -> Places \cup {None}]
  /\ want \in [Threads -> SUBSET Kinds]
  /\ kind \in [Threads -> Kinds \cup {None}]
  /\ res \in [Threads -> Places \cup {None}]
  /\ oom \in [Threads -> BOOLEAN]

LEMMA TypeParts == TypeOK <=> Accounts /\ Others
BY DEF TypeOK, Accounts, Others

\* The invariant holds of a manager that was just created.
LEMMA InitIInv == Init => IInv
<1> SUFFICES ASSUME Init PROVE IInv
  OBVIOUS
<1> USE NoneAssumption, CapAssumption, SizesAssumption DEF Init
<1>1. TypeOK
  <2>1. Accounts
    BY DEF Accounts
  <2>2. default \in [Places -> SUBSET (Kinds \X Places)]
    OBVIOUS
  <2>3. want \in [Threads -> SUBSET Kinds]
    OBVIOUS
  <2>4. Others
    BY <2>2, <2>3 DEF Others
  <2> QED
    BY <2>1, <2>4, TypeParts
<1>2. UsageBounded
  BY DEF UsageBounded
<1>3. Control
  BY DEF Control, LockHeld, HasKind, HasObj, HasType, Unmade, ReadMade,
       NoResult, Idle,
         Locked, Getting
<1>4. OneZero /\ GotUnlessRefused
  BY DEF OneZero, GotUnlessRefused
<1> QED
  BY <1>1, <1>2, <1>3, <1>4 DEF IInv

\* What was added to a sum that did not wrap can be added to the result.
LEMMA WrapSum ==
  ASSUME NEW x \in Int, NEW y \in Nat, Wrap(x) + y < WordSize
  PROVE  Wrap(x + y) = Wrap(x) + y
<1> USE WordAssumption
<1> DEFINE q == x \div WordSize
           k == (x + y) \div WordSize
           r == Wrap(x) + y
<1>1. q \in Int /\ k \in Int
  OBVIOUS
<1>2. Wrap(x) \in 0 .. WordSize - 1 /\ Wrap(x + y) \in 0 .. WordSize - 1
  BY DEF Wrap
<1>3. x = WordSize * q + Wrap(x) /\ x + y = WordSize * k + Wrap(x + y)
  BY DEF Wrap
<1>4. r \in 0 .. WordSize - 1
  BY <1>2
<1> HIDE DEF q, k
<1>5. WordSize * (q - k) = Wrap(x + y) - r
  BY <1>1, <1>2, <1>3
<1> HIDE DEF r
<1>6. q - k = 0
  <2>1. CASE q - k >= 1
    <3>1. WordSize * (q - k) >= WordSize
      BY <1>1, <2>1
    <3> QED
      BY <1>2, <1>4, <1>5, <3>1
  <2>2. CASE q - k <= -1
    <3>1. WordSize * (q - k) <= -WordSize
      BY <1>1, <2>2
    <3> QED
      BY <1>2, <1>4, <1>5, <3>1
  <2> QED
    BY <1>1, <2>1, <2>2
<1> QED
  BY <1>2, <1>4, <1>5, <1>6 DEF r

\* No account grows past its cap by more than the prefix: what is taken fits,
\* and what is put back makes it smaller.
LEMMA TakeBounded ==
  ASSUME TypeOK, UsageBounded, NEW a \in Areas, NEW n \in Sizes \cup {Small},
         NEW p \in Places, Fits(a, n), Take(a, n, p)
  PROVE  /\ area' \in [Places -> Areas \cup {"free"}]
         /\ size' \in [Places -> Nat]
         /\ used' \in [Areas -> Int]
         /\ UsageBounded'
<1> USE CapAssumption, SizesAssumption, WordAssumption
<1>1. used[a] + n \in Int /\ n \in Nat /\ Prefix \in Nat
  BY DEF TypeOK
<1>2. Wrap(used[a] + n) <= Cap[a]
  BY DEF Fits
<1>3. Wrap(used[a] + n) + Prefix < WordSize /\ Wrap(used[a] + n) \in Int
  BY <1>1, <1>2 DEF Wrap
<1>4. Wrap(used[a] + n + Prefix) = Wrap(used[a] + n) + Prefix
  BY <1>1, <1>3, WrapSum
<1>5. used[a] + ZmallocSize(n) = used[a] + n + Prefix
  BY <1>1 DEF ZmallocSize, TypeOK
<1>6. used' = [used EXCEPT ![a] = Wrap(used[a] + n) + Prefix]
  BY <1>4, <1>5 DEF Take
<1>7. used' \in [Areas -> Int] /\ UsageBounded'
  BY <1>1, <1>2, <1>3, <1>6 DEF UsageBounded, TypeOK
<1> QED
  BY <1>1, <1>7 DEF TypeOK, Take

LEMMA PutBounded ==
  ASSUME TypeOK, UsageBounded, NEW p \in Places, Put(p)
  PROVE  /\ area' \in [Places -> Areas \cup {"free"}]
         /\ size' \in [Places -> Nat]
         /\ used' \in [Areas -> Int]
         /\ UsageBounded'
<1>1. ZmallocSize(size[p]) \in Nat
  BY SizesAssumption DEF TypeOK, ZmallocSize
<1>2. used' \in [Areas -> Int]
  <2>1. \A a \in Areas : used[a] - ZmallocSize(size[p]) \in Int
    BY <1>1 DEF TypeOK
  <2>2. used' = [a \in Areas |-> IF a = area[p]
                                THEN used[a] - ZmallocSize(size[p])
                                ELSE used[a]]
    BY DEF TypeOK, Put
  <2> QED
    BY <2>1, <2>2 DEF TypeOK
<1>3. \A a \in Areas : used'[a] <= used[a]
  BY <1>1 DEF TypeOK, Put
<1>4. UsageBounded'
  BY <1>2, <1>3, CapAssumption, SizesAssumption DEF UsageBounded, TypeOK
<1> QED
  BY <1>2, <1>4 DEF TypeOK, Put

\* A step that is not about an account leaves its part of the invariant alone.
LEMMA SameBounded ==
  ASSUME TypeOK, UsageBounded, UNCHANGED account
  PROVE  /\ area' \in [Places -> Areas \cup {"free"}]
         /\ size' \in [Places -> Nat]
         /\ used' \in [Areas -> Int]
         /\ UsageBounded'
BY DEF TypeOK, UsageBounded

\* A step of a thread preserves the invariant.
LEMMA StepIInv ==
  ASSUME IInv, NEW t \in Threads, Running, Call(t) \/ Step(t)
  PROVE  IInv'
<1> USE NoneAssumption, KindsAssumption, SizesAssumption
<1>0. TypeOK /\ UsageBounded /\ Control /\ OneZero /\ GotUnlessRefused /\ Others
  BY TypeParts DEF IInv
<1>1. CASE Alloc(t)
  <2>0. PICK n \in Sizes, p \in Places : Fits("mem", n) /\ Take("mem", n, p)
    BY <1>1 DEF Alloc
  <2>1. Accounts' /\ UsageBounded'
    BY <1>0, <2>0, TakeBounded DEF Accounts
  <2>2. Others'
    BY <1>0, <1>1 DEF Others, Alloc, Ready
  <2>3. Control'
    BY <1>0, <1>1 DEF Others, Control, LockHeld, HasKind, HasObj, HasType,
       Unmade, ReadMade, NoResult, Idle, Locked, Getting, Alloc, Ready
  <2>4. OneZero'
    BY <1>0, <1>1 DEF Others, OneZero, Control, Unmade, HasKind, Getting,
       Alloc, Ready
  <2>5. GotUnlessRefused'
    BY <1>0, <1>1 DEF Others, GotUnlessRefused, Control, ReadMade, Alloc, Ready
  <2> QED
    BY <2>1, <2>2, <2>3, <2>4, <2>5, TypeParts DEF IInv, Accounts, Others,
       TypeOK
<1>2. CASE Free(t)
  <2>0. PICK p \in given : Put(p)
    BY <1>0, <1>2 DEF Free
  <2>1. Accounts' /\ UsageBounded'
    BY <1>0, <2>0, PutBounded DEF Accounts, Others
  <2>2. Others'
    BY <1>0, <1>2 DEF Others, Free, Ready
  <2>3. Control'
    BY <1>0, <1>2 DEF Others, Control, LockHeld, HasKind, HasObj, HasType,
       Unmade, ReadMade, NoResult, Idle, Locked, Getting, Free, Ready
  <2>4. OneZero'
    BY <1>0, <1>2 DEF Others, OneZero, Control, Unmade, HasKind, Getting,
       Free, Ready
  <2>5. GotUnlessRefused'
    BY <1>0, <1>2 DEF Others, GotUnlessRefused, Control, ReadMade, Free, Ready
  <2> QED
    BY <2>1, <2>2, <2>3, <2>4, <2>5, TypeParts DEF IInv, Accounts, Others,
       TypeOK
<1>3. CASE AllocHeap(t)
  <2>0. PICK n \in Sizes, p \in Places : Fits("heap", n) /\ Take("heap", n, p)
    BY <1>3 DEF AllocHeap, Create
  <2>1. Accounts' /\ UsageBounded'
    BY <1>0, <2>0, TakeBounded DEF Accounts
  <2>2. Others'
    BY <1>0, <1>3 DEF Others, AllocHeap, Create, Goto, Ready
  <2>3. Control'
    BY <1>0, <1>3 DEF Others, Control, LockHeld, HasKind, HasObj, HasType,
       Unmade, ReadMade, NoResult, Idle, Locked, Getting, AllocHeap, Create,
       Goto, Ready
  <2>4. OneZero'
    BY <1>0, <1>3 DEF Others, OneZero, Control, Unmade, HasKind, Getting,
       AllocHeap, Create, Goto, Ready
  <2>5. GotUnlessRefused'
    BY <1>0, <1>3 DEF Others, GotUnlessRefused, Control, ReadMade, AllocHeap,
       Create, Goto, Ready
  <2> QED
    BY <2>1, <2>2, <2>3, <2>4, <2>5, TypeParts DEF IInv, Accounts, Others,
       TypeOK
<1>4. CASE AllocHeapArr(t)
  <2>0. PICK n \in Sizes, p \in Places : Fits("heap", n) /\ Take("heap", n, p)
    BY <1>4 DEF AllocHeapArr, Create
  <2>1. Accounts' /\ UsageBounded'
    BY <1>0, <2>0, TakeBounded DEF Accounts
  <2>2. Others'
    BY <1>0, <1>4 DEF Others, AllocHeapArr, Create, Goto, Ready
  <2>3. Control'
    BY <1>0, <1>4 DEF Others, Control, LockHeld, HasKind, HasObj, HasType,
       Unmade, ReadMade, NoResult, Idle, Locked, Getting, AllocHeapArr,
       Create, Goto, Ready
  <2>4. OneZero'
    BY <1>0, <1>4 DEF Others, OneZero, Control, Unmade, HasKind, Getting,
       AllocHeapArr, Create, Goto, Ready
  <2>5. GotUnlessRefused'
    BY <1>0, <1>4 DEF Others, GotUnlessRefused, Control, ReadMade,
       AllocHeapArr, Create, Goto, Ready
  <2> QED
    BY <2>1, <2>2, <2>3, <2>4, <2>5, TypeParts DEF IInv, Accounts, Others,
       TypeOK
<1>5. CASE AllocHeapArrFails(t)
  <2>1. Accounts' /\ UsageBounded'
    BY <1>0, <1>5, SameBounded DEF Accounts, AllocHeapArrFails
  <2>2. Others'
    BY <1>0, <1>5 DEF Others, AllocHeapArrFails, Goto, Ready
  <2>3. Control'
    BY <1>0, <1>5 DEF Others, Control, LockHeld, HasKind, HasObj, HasType,
       Unmade, ReadMade, NoResult, Idle, Locked, Getting, AllocHeapArrFails,
       Goto, Ready
  <2>4. OneZero'
    BY <1>0, <1>5 DEF Others, OneZero, Control, Unmade, HasKind, Getting,
       AllocHeapArrFails, Goto, Ready
  <2>5. GotUnlessRefused'
    BY <1>0, <1>5 DEF Others, GotUnlessRefused, Control, ReadMade,
       AllocHeapArrFails, Goto, Ready
  <2> QED
    BY <2>1, <2>2, <2>3, <2>4, <2>5, TypeParts DEF IInv, Accounts, Others,
       TypeOK
<1>6. CASE GetNull(t)
  <2>1. Accounts' /\ UsageBounded'
    BY <1>0, <1>6, SameBounded DEF Accounts, GetNull
  <2>2. Others'
    BY <1>0, <1>6 DEF Others, GetNull, Goto, Ready
  <2>3. Control'
    BY <1>0, <1>6 DEF Others, Control, LockHeld, HasKind, HasObj, HasType,
       Unmade, ReadMade, NoResult, Idle, Locked, Getting, GetNull, Goto, Ready
  <2>4. OneZero'
    BY <1>0, <1>6 DEF Others, OneZero, Control, Unmade, HasKind, Getting,
       GetNull, Goto, Ready
  <2>5. GotUnlessRefused'
    BY <1>0, <1>6 DEF Others, GotUnlessRefused, Control, ReadMade, GetNull,
       Goto, Ready
  <2> QED
    BY <2>1, <2>2, <2>3, <2>4, <2>5, TypeParts DEF IInv, Accounts, Others,
       TypeOK
<1>7. CASE InitField(t)
  <2>1. Accounts' /\ UsageBounded'
    BY <1>0, <1>7, SameBounded DEF Accounts, InitField
  <2>2. Others'
    BY <1>0, <1>7 DEF Others, InitField, Goto
  <2>3. Control'
    BY <1>0, <1>7 DEF Others, Control, LockHeld, HasKind, HasObj, HasType,
       Unmade, ReadMade, NoResult, Idle, Locked, Getting, InitField, Goto
  <2>4. OneZero'
    BY <1>0, <1>7 DEF Others, OneZero, Control, Unmade, HasKind, Getting,
       InitField, Goto
  <2>5. GotUnlessRefused'
    BY <1>0, <1>7 DEF Others, GotUnlessRefused, Control, ReadMade, InitField,
       Goto
  <2> QED
    BY <2>1, <2>2, <2>3, <2>4, <2>5, TypeParts DEF IInv, Accounts, Others,
       TypeOK
<1>8. CASE InitDone(t)
  <2>1. Accounts' /\ UsageBounded'
    BY <1>0, <1>8, SameBounded DEF Accounts, InitDone
  <2>2. Others'
    BY <1>0, <1>8 DEF Others, Control, HasKind, HasObj, Getting,
       InitDone, Return
  <2>3. Control'
    BY <1>0, <1>8 DEF Others, Control, LockHeld, HasKind, HasObj, HasType,
       Unmade, ReadMade, NoResult, Idle, Locked, Getting, InitDone, Return
  <2>4. OneZero'
    BY <1>0, <1>8 DEF Others, OneZero, Control, Unmade, HasKind, Getting,
       InitDone, Return
  <2>5. GotUnlessRefused'
    BY <1>0, <1>8 DEF Others, GotUnlessRefused, Control, ReadMade, InitDone,
       Return
  <2> QED
    BY <2>1, <2>2, <2>3, <2>4, <2>5, TypeParts DEF IInv, Accounts, Others,
       TypeOK
<1>9. CASE SetField(t)
  <2>1. Accounts' /\ UsageBounded'
    BY <1>0, <1>9, SameBounded DEF Accounts, SetField
  <2>2. Others'
    BY <1>0, <1>9 DEF Others, Control, HasKind, HasObj, Getting,
       SetField, Goto
  <2>3. Control'
    BY <1>0, <1>9 DEF Others, Control, LockHeld, HasKind, HasObj, HasType,
       Unmade, ReadMade, NoResult, Idle, Locked, Getting, SetField, Goto
  <2>4. OneZero'
    BY <1>0, <1>9 DEF Others, OneZero, Control, Unmade, HasKind, Getting,
       SetField, Goto
  <2>5. GotUnlessRefused'
    BY <1>0, <1>9 DEF Others, GotUnlessRefused, Control, ReadMade, SetField,
       Goto
  <2> QED
    BY <2>1, <2>2, <2>3, <2>4, <2>5, TypeParts DEF IInv, Accounts, Others,
       TypeOK
<1>10. CASE InitFails(t)
  <2>0. obj[t] \in Places /\ Put(obj[t])
    BY <1>0, <1>10 DEF InitFails, Others
  <2>1. Accounts' /\ UsageBounded'
    BY <1>0, <2>0, PutBounded DEF Accounts
  <2>2. Others'
    BY <1>0, <1>10 DEF Others, InitFails, Return
  <2>3. Control'
    BY <1>0, <1>10 DEF Others, Control, LockHeld, HasKind, HasObj, HasType,
       Unmade, ReadMade, NoResult, Idle, Locked, Getting, InitFails, Return
  <2>4. OneZero'
    BY <1>0, <1>10 DEF Others, OneZero, Control, Unmade, HasKind, Getting,
       InitFails, Return
  <2>5. GotUnlessRefused'
    BY <1>0, <1>10 DEF Others, GotUnlessRefused, Control, ReadMade,
       InitFails, Return
  <2> QED
    BY <2>1, <2>2, <2>3, <2>4, <2>5, TypeParts DEF IInv, Accounts, Others,
       TypeOK
<1>11. CASE GotNull(t)
  <2>1. Accounts' /\ UsageBounded'
    BY <1>0, <1>11, SameBounded DEF Accounts, GotNull
  <2>2. Others'
    BY <1>0, <1>11 DEF Others, GotNull, Return
  <2>3. Control'
    BY <1>0, <1>11 DEF Others, Control, LockHeld, HasKind, HasObj, HasType,
       Unmade, ReadMade, NoResult, Idle, Locked, Getting, GotNull, Return
  <2>4. OneZero'
    BY <1>0, <1>11 DEF Others, OneZero, Control, Unmade, HasKind, Getting,
       GotNull, Return
  <2>5. GotUnlessRefused'
    BY <1>0, <1>11 DEF Others, GotUnlessRefused, Control, ReadMade, GotNull,
       Return
  <2> QED
    BY <2>1, <2>2, <2>3, <2>4, <2>5, TypeParts DEF IInv, Accounts, Others,
       TypeOK
<1>12. CASE TestUnlocked(t)
  <2>1. Accounts' /\ UsageBounded'
    BY <1>0, <1>12, SameBounded DEF Accounts, TestUnlocked
  <2>2. Others'
    BY <1>0, <1>12 DEF Others, Control, HasKind, HasObj, Getting,
       TestUnlocked, Goto
  <2>3. Control'
    BY <1>0, <1>12 DEF Others, Control, LockHeld, HasKind, HasObj, HasType,
       Unmade, ReadMade, NoResult, Idle, Locked, Getting, TestUnlocked, Goto
  <2>4. OneZero'
    BY <1>0, <1>12 DEF Others, OneZero, Control, Unmade, HasKind, Getting,
       TestUnlocked, Goto
  <2>5. GotUnlessRefused'
    BY <1>0, <1>12 DEF Others, GotUnlessRefused, Control, ReadMade,
       TestUnlocked, Goto
  <2> QED
    BY <2>1, <2>2, <2>3, <2>4, <2>5, TypeParts DEF IInv, Accounts, Others,
       TypeOK
<1>13. CASE LockMgr(t)
  <2>1. Accounts' /\ UsageBounded'
    BY <1>0, <1>13, SameBounded DEF Accounts, LockMgr
  <2>2. Others'
    BY <1>0, <1>13 DEF Others, LockMgr, Goto
  <2>3. Control'
    BY <1>0, <1>13 DEF Others, Control, LockHeld, HasKind, HasObj, HasType,
       Unmade, ReadMade, NoResult, Idle, Locked, Getting, LockMgr, Goto
  <2>4. OneZero'
    BY <1>0, <1>13 DEF Others, OneZero, Control, Unmade, HasKind, Getting,
       LockMgr, Goto
  <2>5. GotUnlessRefused'
    BY <1>0, <1>13 DEF Others, GotUnlessRefused, Control, ReadMade, LockMgr,
       Goto
  <2> QED
    BY <2>1, <2>2, <2>3, <2>4, <2>5, TypeParts DEF IInv, Accounts, Others,
       TypeOK
<1>14. CASE TestLocked(t)
  <2>1. Accounts' /\ UsageBounded'
    BY <1>0, <1>14, SameBounded DEF Accounts, TestLocked
  <2>2. Others'
    BY <1>0, <1>14 DEF Others, TestLocked, Goto
  <2>3. Control'
    BY <1>0, <1>14 DEF Others, Control, LockHeld, HasKind, HasObj, HasType,
       Unmade, ReadMade, NoResult, Idle, Locked, Getting, TestLocked, Goto
  <2>4. OneZero'
    BY <1>0, <1>14 DEF Others, OneZero, Control, Unmade, HasKind, Getting,
       TestLocked, Goto
  <2>5. GotUnlessRefused'
    BY <1>0, <1>14 DEF Others, GotUnlessRefused, Control, ReadMade,
       TestLocked, Goto
  <2> QED
    BY <2>1, <2>2, <2>3, <2>4, <2>5, TypeParts DEF IInv, Accounts, Others,
       TypeOK
<1>15. CASE AllocType(t)
  <2>0. PICK p \in Places : Fits("mem", Small) /\ Take("mem", Small, p)
    BY <1>15 DEF AllocType
  <2>1. Accounts' /\ UsageBounded'
    BY <1>0, <2>0, TakeBounded DEF Accounts
  <2>2. Others'
    BY <1>0, <1>15 DEF Others, AllocType, Goto
  <2>3. Control'
    BY <1>0, <1>15 DEF Others, Control, LockHeld, HasKind, HasObj, HasType,
       Unmade, ReadMade, NoResult, Idle, Locked, Getting, AllocType, Goto
  <2>4. OneZero'
    BY <1>0, <1>15 DEF Others, OneZero, Control, Unmade, HasKind, Getting,
       AllocType, Goto
  <2>5. GotUnlessRefused'
    BY <1>0, <1>15 DEF Others, GotUnlessRefused, Control, ReadMade,
       AllocType, Goto
  <2> QED
    BY <2>1, <2>2, <2>3, <2>4, <2>5, TypeParts DEF IInv, Accounts, Others,
       TypeOK
<1>16. CASE AllocTypeFails(t)
  <2>1. Accounts' /\ UsageBounded'
    BY <1>0, <1>16, SameBounded DEF Accounts, AllocTypeFails
  <2>2. Others'
    BY <1>0, <1>16 DEF Others, AllocTypeFails, Goto
  <2>3. Control'
    BY <1>0, <1>16 DEF Others, Control, LockHeld, HasKind, HasObj, HasType,
       Unmade, ReadMade, NoResult, Idle, Locked, Getting, AllocTypeFails, Goto
  <2>4. OneZero'
    BY <1>0, <1>16 DEF Others, OneZero, Control, Unmade, HasKind, Getting,
       NoResult, Locked, AllocTypeFails, Goto
  <2>5. GotUnlessRefused'
    BY <1>0, <1>16 DEF Others, GotUnlessRefused, Control, ReadMade,
       AllocTypeFails, Goto
  <2> QED
    BY <2>1, <2>2, <2>3, <2>4, <2>5, TypeParts DEF IInv, Accounts, Others,
       TypeOK
<1>17. CASE AllocValue(t)
  <2>0. PICK p \in Places : Fits(ValueArea(kind[t]),
       Small) /\ Take(ValueArea(kind[t]), Small, p)
    BY <1>17 DEF AllocValue
  <2>1. Accounts' /\ UsageBounded'
    BY <1>0, <2>0, TakeBounded DEF Accounts, ValueArea
  <2>2. Others'
    BY <1>0, <1>17 DEF Others, Control, HasKind, HasObj, Getting,
       AllocValue, Goto
  <2>3. Control'
    BY <1>0, <1>17 DEF Others, Control, LockHeld, HasKind, HasObj, HasType,
       Unmade, ReadMade, NoResult, Idle, Locked, Getting, AllocValue, Goto
  <2>4. OneZero'
    BY <1>0, <1>17 DEF Others, OneZero, Control, Unmade, HasKind, Getting,
       AllocValue, Goto
  <2>5. GotUnlessRefused'
    BY <1>0, <1>17 DEF Others, GotUnlessRefused, Control, ReadMade,
       AllocValue, Goto
  <2> QED
    BY <2>1, <2>2, <2>3, <2>4, <2>5, TypeParts DEF IInv, Accounts, Others,
       TypeOK
<1>18. CASE AllocNullFails(t)
  <2>0. nullType \in Places /\ Put(nullType)
    BY <1>0, <1>18 DEF AllocNullFails, Control, HasType, Goto
  <2>1. Accounts' /\ UsageBounded'
    BY <1>0, <2>0, PutBounded DEF Accounts
  <2>2. Others'
    BY <1>0, <1>18 DEF Others, AllocNullFails, Goto
  <2>3. Control'
    BY <1>0, <1>18 DEF Others, Control, LockHeld, HasKind, HasObj, HasType,
       Unmade, ReadMade, NoResult, Idle, Locked, Getting, AllocNullFails, Goto
  <2>4. OneZero'
    BY <1>0, <1>18 DEF Others, OneZero, Control, Unmade, HasKind, Getting,
       AllocNullFails, Goto
  <2>5. GotUnlessRefused'
    BY <1>0, <1>18 DEF Others, GotUnlessRefused, Control, ReadMade,
       AllocNullFails, Goto
  <2> QED
    BY <2>1, <2>2, <2>3, <2>4, <2>5, TypeParts DEF IInv, Accounts, Others,
       TypeOK
<1>19. CASE AllocZeroFails(t)
  <2>1. Accounts' /\ UsageBounded'
    BY <1>0, <1>19, SameBounded DEF Accounts, AllocZeroFails
  <2>2. Others'
    BY <1>0, <1>19 DEF Others, AllocZeroFails, Goto
  <2>3. Control'
    BY <1>0, <1>19 DEF Others, Control, LockHeld, HasKind, HasObj, HasType,
       Unmade, ReadMade, NoResult, Idle, Locked, Getting, AllocZeroFails, Goto
  <2>4. OneZero'
    BY <1>0, <1>19 DEF Others, OneZero, Control, Unmade, HasKind, Getting,
       NoResult, Locked, AllocZeroFails, Goto
  <2>5. GotUnlessRefused'
    BY <1>0, <1>19 DEF Others, GotUnlessRefused, Control, ReadMade,
       AllocZeroFails, Goto
  <2> QED
    BY <2>1, <2>2, <2>3, <2>4, <2>5, TypeParts DEF IInv, Accounts, Others,
       TypeOK
<1>20. CASE ReadUnlocked(t)
  <2>1. Accounts' /\ UsageBounded'
    BY <1>0, <1>20, SameBounded DEF Accounts, ReadUnlocked
  <2>2. Others'
    BY <1>0, <1>20 DEF Others, Control, HasKind, HasObj, Getting,
       ReadUnlocked, Goto
  <2>3. Control'
    BY <1>0, <1>20 DEF Others, Control, LockHeld, HasKind, HasObj, HasType,
       Unmade, ReadMade, NoResult, Idle, Locked, Getting, ReadUnlocked, Goto
  <2>4. OneZero'
    BY <1>0, <1>20 DEF Others, OneZero, Control, Unmade, HasKind, Getting,
       ReadUnlocked, Goto
  <2>5. GotUnlessRefused'
    BY <1>0, <1>20 DEF Others, GotUnlessRefused, Control, ReadMade,
       ReadUnlocked, Goto
  <2> QED
    BY <2>1, <2>2, <2>3, <2>4, <2>5, TypeParts DEF IInv, Accounts, Others,
       TypeOK
<1> QED
  BY <1>1, <1>2, <1>3, <1>4, <1>5, <1>6, <1>7, <1>8, <1>9, <1>10, <1>11,
       <1>12, <1>13, <1>14, <1>15, <1>16, <1>17, <1>18, <1>19,
       <1>20 DEF Call, Step

\* The release of the manager preserves the invariant.
LEMMA ReleaseIInv ==
  ASSUME IInv, Release
  PROVE  IInv'
<1> USE NoneAssumption, KindsAssumption, SizesAssumption
<1>0. TypeOK /\ UsageBounded /\ Control /\ OneZero /\ GotUnlessRefused
  BY DEF IInv
<1> DEFINE Of(a) == {k \in Made : ValueArea(k) = a}
           Total(a) == Cardinality(Of(a)) * ZmallocSize(Small)
<1>1. \A a \in Areas : Total(a) \in Nat
  <2> SUFFICES ASSUME NEW a \in Areas PROVE Total(a) \in Nat
    OBVIOUS
  <2>1. IsFiniteSet(Kinds)
    BY FS_Singleton, FS_Union
  <2>2. Of(a) \subseteq Kinds
    BY DEF Made
  <2>3. Cardinality(Of(a)) \in Nat
    BY <2>1, <2>2, FS_Subset, FS_CardinalityType
  <2>4. ZmallocSize(Small) \in Nat
    BY DEF ZmallocSize
  <2> QED
    BY <2>3, <2>4
<1>2. used' = [a \in Areas |-> used[a] - Total(a)]
  BY DEF Release, ReleaseMade
<1> HIDE DEF Total
<1>3. used' \in [Areas -> Int] /\ \A a \in Areas : used'[a] <= used[a]
  BY <1>0, <1>1, <1>2 DEF TypeOK
<1>4. UsageBounded'
  BY <1>0, <1>3, CapAssumption DEF UsageBounded, TypeOK
<1>5. TypeOK'
  BY <1>0, <1>3 DEF TypeOK, Release, ReleaseMade
<1>6. Control'
  BY <1>0 DEF Control, LockHeld, HasKind, HasObj, HasType, Unmade, ReadMade,
              NoResult, Idle, Locked, Getting, Release, ReleaseMade
<1>7. OneZero' /\ GotUnlessRefused'
  BY <1>0 DEF OneZero, GotUnlessRefused, Release, ReleaseMade
<1> QED
  BY <1>4, <1>5, <1>6, <1>7 DEF IInv

LEMMA NextIInv == IInv /\ [Next]_vars => IInv'
<1> SUFFICES ASSUME IInv, [Next]_vars PROVE IInv'
  OBVIOUS
<1>1. CASE Next
  BY <1>1, StepIInv, ReleaseIInv DEF Next
<1>2. CASE UNCHANGED vars
  BY <1>2 DEF vars, IInv, TypeOK, UsageBounded, Control, LockHeld, HasKind,
              HasObj, HasType, Unmade, ReadMade, NoResult, Idle, OneZero,
              GotUnlessRefused
<1> QED
  BY <1>1, <1>2

LEMMA AlwaysIInv == Spec => []IInv
BY InitIInv, NextIInv, PTL DEF Spec

\* Every variable has its type, for any threads, places, types and caps.
THEOREM MemTypeOK == Spec => []TypeOK
<1>1. IInv => TypeOK
  BY DEF IInv
<1> QED
  BY <1>1, AlwaysIInv, PTL

\* However many threads allocate and free, and whatever the sizes, an account
\* passes its cap by no more than the prefix of one block.
THEOREM MemUsageBounded == Spec => []UsageBounded
<1>1. IInv => UsageBounded
  BY DEF IInv
<1> QED
  BY <1>1, AlwaysIInv, PTL

\* The null object and each zero are made once: what all threads are returned
\* and what all objects are initialised with is the one that is not counted.
THEOREM MemOneZero == Spec => []OneZero
<1>1. IInv => OneZero
  BY DEF IInv
<1> QED
  BY <1>1, AlwaysIInv, PTL

\* _get_null and _get_prm_0 return NULL only to a thread that was refused
\* memory in this call.
THEOREM MemGotUnlessRefused == Spec => []GotUnlessRefused
<1>1. IInv => GotUnlessRefused
  BY DEF IInv
<1> QED
  BY <1>1, AlwaysIInv, PTL

\* A thread holds the manager's lock exactly while it is between the locked
\* test and the unlock, whichever allocations are refused.
THEOREM MemLockHeld == Spec => []LockHeld
<1>1. IInv => LockHeld
  BY DEF IInv, Control
<1> QED
  BY <1>1, AlwaysIInv, PTL

-----------------------------------------------------------------------------
(* Who has which block, and what the blocks of an account add up to. *)

\* BlocksOwned, place by place.
Owned ==
  /\ \A p \in Places :
       area[p] # "free" <=> \/ p \in given \/ nullType = p
                            \/ \E k \in Kinds : zero[k] = p
                            \/ \E t \in Threads : obj[t] = p
  /\ \A p \in given : /\ nullType # p
                      /\ \A k \in Kinds : zero[k] # p
                      /\ \A t \in Threads : obj[t] # p
  /\ \A k \in Kinds : zero[k] # None =>
       /\ zero[k] # nullType
       /\ \A t \in Threads : zero[k] # obj[t]
       /\ \A l \in Kinds : zero[k] = zero[l] => k = l
  /\ \A t \in Threads : obj[t] # None =>
       /\ obj[t] # nullType
       /\ \A u \in Threads : obj[t] = obj[u] => t = u

\* The type of the null object is made with it, or is its maker's to free.
TypeMade ==
  ~released /\ nullType # None =>
    \/ zero[Null] # None
    \/ \E t \in Threads : pc[t] = "value" /\ kind[t] = Null

\* A thread that is in no call initialises nothing.
NoObj == \A t \in Threads : pc[t] \in {"caller", "crashed"} => obj[t] = None

\* What a singleton takes of which account.
ZeroBlocks ==
  \A k \in Kinds :
    zero[k] # None => area[zero[k]] = ValueArea(k) /\ size[zero[k]] = Small

OInv == Owned /\ TypeMade /\ NoObj /\ ZeroBlocks

LEMMA OwnedIs ==
  ASSUME IInv, Owned
  PROVE  BlocksOwned
<1> USE NoneAssumption
<1> DEFINE Zeros == {zero[k] : k \in Kinds} \ {None}
           Making == {obj[t] : t \in Threads} \ {None}
           Type == {nullType} \ {None}
<1>1. given \subseteq Places /\ Zeros \subseteq Places /\ Making \subseteq Places
      /\ Type \subseteq Places
  BY DEF IInv, TypeOK
<1>2. \A p \in Places : area[p] # "free" <=> p \in given \cup Zeros \cup Making \cup Type
  BY DEF Owned
<1>3. {p \in Places : area[p] # "free"} = given \cup Zeros \cup Making \cup Type
  BY <1>1, <1>2
<1>4. given \cap (Zeros \cup Making \cup Type) = {}
  BY DEF Owned
<1>5. Zeros \cap (Making \cup Type) = {} /\ Making \cap Type = {}
  BY DEF Owned
<1>6. /\ \A k, l \in Kinds : zero[k] = zero[l] /\ zero[k] # None => k = l
      /\ \A t, u \in Threads : obj[t] = obj[u] /\ obj[t] # None => t = u
  BY DEF Owned
<1> QED
  BY <1>3, <1>4, <1>5, <1>6 DEF BlocksOwned

LEMMA InitOInv == Init => OInv
  BY NoneAssumption
  DEF Init, OInv, Owned, TypeMade, NoObj, ZeroBlocks

\* A step that moves no block.
LEMMA StillOwned ==
  ASSUME OInv, UNCHANGED <<area, size, given, zero, nullType, obj>>
  PROVE  Owned' /\ ZeroBlocks'
  BY DEF OInv, Owned, ZeroBlocks

\* A block is taken by a caller, a call, or for the null object's type.
LEMMA TakeOwned ==
  ASSUME IInv, OInv, NEW a \in Areas, NEW n \in Nat, NEW p \in Places, Take(a, n, p)
  PROVE  /\ p \notin given /\ nullType # p
         /\ \A k \in Kinds : zero[k] # p
         /\ \A t \in Threads : obj[t] # p
         /\ area'[p] = a /\ size'[p] = n
         /\ \A q \in Places : q # p => area'[q] = area[q] /\ size'[q] = size[q]
         /\ a # "free"
  BY DEF IInv, TypeOK, OInv, Owned, Take

LEMMA PutOwned ==
  ASSUME IInv, OInv, NEW p \in Places, Put(p)
  PROVE  /\ area'[p] = "free" /\ size' = size
         /\ \A q \in Places : q # p => area'[q] = area[q]
  BY DEF IInv, TypeOK, Put

LEMMA StepOwned ==
  ASSUME IInv, OInv, NEW t \in Threads, Running, Call(t) \/ Step(t)
  PROVE  OInv'
<1> USE NoneAssumption, KindsAssumption, SizesAssumption
<1>0. TypeOK /\ Others /\ Control /\ OInv
  BY TypeParts DEF IInv
<1>1. CASE AllocHeapArrFails(t) \/ GetNull(t) \/ InitField(t) \/ SetField(t)
             \/ GotNull(t)
  <2>1. UNCHANGED <<area, size, given, zero, nullType, released>>
    BY <1>1 DEF AllocHeapArrFails, GetNull, InitField, SetField, GotNull
  <2>2. obj' = obj
    BY <1>0, <1>1 DEF Others, AllocHeapArrFails, GetNull, InitField, SetField,
       GotNull, Return
  <2>3. NoObj'
    BY <1>0, <1>1, <2>2 DEF Others, OInv, NoObj, AllocHeapArrFails, GetNull,
       InitField, SetField, GotNull, Return, Goto, Ready
  <2>4. TypeMade'
    BY <1>0, <1>1, <2>1 DEF Others, OInv, TypeMade, AllocHeapArrFails, GetNull,
       InitField, SetField, GotNull, Return, Goto, Ready
  <2> QED
    BY <2>1, <2>2, <2>3, <2>4, StillOwned DEF OInv
<1>2. CASE TestUnlocked(t) \/ LockMgr(t) \/ TestLocked(t) \/ AllocTypeFails(t)
             \/ AllocZeroFails(t) \/ ReadUnlocked(t)
  <2>1. UNCHANGED <<area, size, given, zero, nullType, released, obj, kind>>
    BY <1>2 DEF TestUnlocked, LockMgr, TestLocked, AllocTypeFails,
       AllocZeroFails, ReadUnlocked
  <2>2. NoObj'
    BY <1>0, <1>2, <2>1 DEF Others, OInv, NoObj, TestUnlocked, LockMgr,
       TestLocked, AllocTypeFails, AllocZeroFails, ReadUnlocked, Goto
  <2>3. TypeMade'
    BY <1>0, <1>2, <2>1 DEF Others, OInv, TypeMade, TestUnlocked, LockMgr,
       TestLocked, AllocTypeFails, AllocZeroFails, ReadUnlocked, Goto
  <2> QED
    BY <2>1, <2>2, <2>3, StillOwned DEF OInv
<1>3. CASE Alloc(t)
  <2>1. PICK n \in Sizes, p \in Places : Take("mem", n, p) /\ given' = given \cup {p}
    BY <1>3 DEF Alloc
  <2>2. UNCHANGED <<zero, nullType, released, pc, obj, kind>>
    BY <1>3 DEF Alloc
  <2>3. n \in Nat
    OBVIOUS
  <2>4. Owned' /\ ZeroBlocks'
    BY <1>0, <2>1, <2>2, <2>3, TakeOwned DEF OInv, Owned, ZeroBlocks, Others
  <2> QED
    BY <2>2, <2>4 DEF OInv, TypeMade, NoObj
<1>4. CASE Free(t)
  <2>1. PICK p \in given : Put(p) /\ given' = given \ {p}
    BY <1>4 DEF Free
  <2>2. UNCHANGED <<zero, nullType, released, pc, obj, kind>>
    BY <1>4 DEF Free
  <2>3. Owned' /\ ZeroBlocks'
    BY <1>0, <2>1, <2>2, PutOwned DEF OInv, Owned, ZeroBlocks, Others
  <2> QED
    BY <2>2, <2>3 DEF OInv, TypeMade, NoObj
<1>5. CASE AllocHeap(t) \/ AllocHeapArr(t)
  <2>1. PICK n \in Sizes, p \in Places :
          Take("heap", n, p) /\ obj' = [obj EXCEPT ![t] = p]
    BY <1>5 DEF AllocHeap, AllocHeapArr, Create
  <2>2. /\ UNCHANGED <<zero, nullType, released, given, kind>>
        /\ pc[t] = "caller" /\ pc' = [pc EXCEPT ![t] = "init"]
    BY <1>5 DEF AllocHeap, AllocHeapArr, Create, Goto
  <2>3. n \in Nat /\ obj[t] = None
    BY <2>2 DEF OInv, NoObj
  <2>4. Owned' /\ ZeroBlocks'
    BY <1>0, <2>1, <2>2, <2>3, TakeOwned DEF OInv, Owned, ZeroBlocks, Others
  <2>5. TypeMade' /\ NoObj'
    BY <1>0, <2>1, <2>2 DEF OInv, TypeMade, NoObj, Others
  <2> QED
    BY <2>4, <2>5 DEF OInv
<1>6. CASE InitDone(t)
  <2>1. /\ UNCHANGED <<area, size, zero, nullType, released>>
        /\ given' = given \cup {obj[t]} /\ obj' = [obj EXCEPT ![t] = None]
        /\ pc[t] = "init" /\ pc' = [pc EXCEPT ![t] = "caller"]
        /\ kind' = [kind EXCEPT ![t] = None]
    BY <1>6 DEF InitDone, Return
  <2>2. obj[t] \in Places
    BY <1>0, <2>1 DEF Control, HasObj
  <2>3. Owned' /\ ZeroBlocks'
    BY <1>0, <2>1, <2>2 DEF OInv, Owned, ZeroBlocks, Others
  <2>4. TypeMade' /\ NoObj'
    BY <1>0, <2>1 DEF OInv, TypeMade, NoObj, Others
  <2> QED
    BY <2>3, <2>4 DEF OInv
<1>7. CASE InitFails(t)
  <2>1. /\ Put(obj[t]) /\ obj[t] \in Places
        /\ UNCHANGED <<zero, nullType, released, given>>
        /\ obj' = [obj EXCEPT ![t] = None]
        /\ pc[t] = "got" /\ pc' = [pc EXCEPT ![t] = "caller"]
        /\ kind' = [kind EXCEPT ![t] = None]
    BY <1>0, <1>7 DEF InitFails, Return, Others
  <2>2. Owned' /\ ZeroBlocks'
    BY <1>0, <2>1, PutOwned DEF OInv, Owned, ZeroBlocks, Others
  <2>3. TypeMade' /\ NoObj'
    BY <1>0, <2>1 DEF OInv, TypeMade, NoObj, Others
  <2> QED
    BY <2>2, <2>3 DEF OInv
<1>8. CASE AllocType(t)
  <2>1. PICK p \in Places : Take("mem", Small, p) /\ nullType' = p
    BY <1>8 DEF AllocType
  <2>2. /\ UNCHANGED <<zero, released, given, obj, kind>>
        /\ pc[t] = "type" /\ pc' = [pc EXCEPT ![t] = "value"]
    BY <1>8 DEF AllocType, Goto
  <2>3. nullType = None
    <3>1. ~released /\ zero[Null] = None
      BY <2>2 DEF IInv, Control, Idle, Unmade, HasType
    <3>2. \A u \in Threads : pc[u] # "value"
      BY <1>0, <2>2 DEF Control, LockHeld, Locked
    <3> QED
      BY <3>1, <3>2 DEF OInv, TypeMade
  <2>4. Owned' /\ ZeroBlocks'
    BY <1>0, <2>1, <2>2, <2>3, TakeOwned DEF OInv, Owned, ZeroBlocks, Others
  <2>5. kind[t] = Null
    BY <2>2 DEF IInv, Control, HasType
  <2>6. TypeMade' /\ NoObj'
    BY <1>0, <2>1, <2>2, <2>5 DEF OInv, TypeMade, NoObj, Others
  <2> QED
    BY <2>4, <2>6 DEF OInv
<1>9. CASE AllocValue(t)
  <2>1. PICK p \in Places : /\ Take(ValueArea(kind[t]), Small, p)
                            /\ zero' = [zero EXCEPT ![kind[t]] = p]
    BY <1>9 DEF AllocValue
  <2>2. /\ UNCHANGED <<nullType, released, given, obj, kind>>
        /\ pc[t] = "value" /\ pc' = [pc EXCEPT ![t] = "read"]
    BY <1>9 DEF AllocValue, Goto
  <2>3. kind[t] \in Kinds /\ zero[kind[t]] = None /\ ValueArea(kind[t]) \in Areas
    BY <2>2 DEF IInv, Control, HasKind, Getting, Unmade, ValueArea
  <2>4. Owned' /\ ZeroBlocks'
    BY <1>0, <2>1, <2>2, <2>3, TakeOwned DEF OInv, Owned, ZeroBlocks, Others
  <2>5. NoObj'
    BY <1>0, <2>2 DEF OInv, NoObj, Others
  <2>6. TypeMade'
    <3>1. \A u \in Threads : pc[u] = "value" => u = t
      BY <1>0, <2>2 DEF Control, LockHeld, Locked
    <3> QED
      BY <1>0, <2>1, <2>2, <2>3, <3>1 DEF OInv, TypeMade, Others
  <2> QED
    BY <2>4, <2>5, <2>6 DEF OInv
<1>10. CASE AllocNullFails(t)
  <2>1. /\ Put(nullType) /\ nullType' = None
        /\ UNCHANGED <<zero, released, given, obj, kind>>
        /\ pc[t] = "value" /\ pc' = [pc EXCEPT ![t] = "read"] /\ kind[t] = Null
    BY <1>10 DEF AllocNullFails, Goto
  <2>2. nullType \in Places
    BY <2>1 DEF IInv, Control, HasType
  <2>3. Owned' /\ ZeroBlocks'
    BY <1>0, <2>1, <2>2, PutOwned DEF OInv, Owned, ZeroBlocks, Others
  <2>4. TypeMade' /\ NoObj'
    BY <1>0, <2>1 DEF OInv, TypeMade, NoObj, Others
  <2> QED
    BY <2>3, <2>4 DEF OInv
<1> QED
  BY <1>1, <1>2, <1>3, <1>4, <1>5, <1>6, <1>7, <1>8, <1>9, <1>10
  DEF Call, Step

LEMMA ReleaseOwned ==
  ASSUME IInv, OInv, Release
  PROVE  OInv'
<1> USE NoneAssumption, KindsAssumption
<1>1. /\ zero' = [k \in Kinds |-> None]
      /\ UNCHANGED <<size, nullType, given, pc, obj>> /\ released'
      /\ area' = [p \in Places |-> IF \E k \in Made : zero[k] = p THEN "free"
                                                               ELSE area[p]]
  BY DEF Release, ReleaseMade
<1>2. \A p \in Places : (\E k \in Made : zero[k] = p) <=> \E k \in Kinds : zero[k] = p
  BY DEF Made
<1>3. Owned'
  BY <1>1, <1>2 DEF OInv, Owned, IInv, TypeOK
<1>4. TypeMade' /\ NoObj' /\ ZeroBlocks'
  BY <1>1 DEF OInv, TypeMade, NoObj, ZeroBlocks
<1> QED
  BY <1>3, <1>4 DEF OInv

\* The accounts are exact, and their blocks are finite.
BInv == \A a \in Areas : IsFiniteSet(Bytes(a)) /\ used[a] = Cardinality(Bytes(a))

\* The bytes of a block of size n at p.
Block(p, n) == {p} \X (1 .. ZmallocSize(n))

LEMMA BlockCard ==
  ASSUME NEW p, NEW n \in Nat
  PROVE  IsFiniteSet(Block(p, n)) /\ Cardinality(Block(p, n)) = ZmallocSize(n)
<1> DEFINE z == ZmallocSize(n)
<1>1. z \in Nat
  BY SizesAssumption DEF ZmallocSize
<1>2. IsFiniteSet({p}) /\ Cardinality({p}) = 1
  BY FS_Singleton
<1> HIDE DEF z
<1>3. IsFiniteSet(1 .. z) /\ Cardinality(1 .. z) = z
  <2>1. Cardinality(1 .. z) = IF 1 > z THEN 0 ELSE z - 1 + 1
    BY <1>1, FS_Interval
  <2> QED
    BY <1>1, <2>1, FS_Interval
<1>4. /\ IsFiniteSet({p} \X (1 .. z))
      /\ Cardinality({p} \X (1 .. z)) = Cardinality({p}) * Cardinality(1 .. z)
  BY <1>2, <1>3, FS_Product
<1> QED
  BY <1>1, <1>2, <1>3, <1>4 DEF Block, z

LEMMA BytesIs ==
  /\ \A a \in Areas : \A b : b \in Bytes(a) <=>
       \E p \in Places : area[p] = a /\ b \in Block(p, size[p])
  /\ \A a \in Areas : \A b : b \in Bytes(a)' <=>
       \E p \in Places : area'[p] = a /\ b \in Block(p, size'[p])
  BY DEF Bytes, Block, ZmallocSize

LEMMA BlocksApart ==
  ASSUME NEW p, NEW q, NEW n, NEW m, NEW b \in Block(p, n), b \in Block(q, m)
  PROVE  p = q
  BY DEF Block

LEMMA TakeExact ==
  ASSUME IInv, BInv, NEW a \in Areas, NEW n \in Sizes \cup {Small},
         NEW p \in Places, Fits(a, n), Take(a, n, p)
  PROVE  BInv'
<1> USE CapAssumption, SizesAssumption, WordAssumption
<1>1. /\ area[p] = "free" /\ a # "free" /\ n \in Nat
      /\ area' = [area EXCEPT ![p] = a] /\ size' = [size EXCEPT ![p] = n]
      /\ area \in [Places -> Areas \cup {"free"}] /\ size \in [Places -> Nat]
      /\ used \in [Areas -> Int]
  BY DEF Take, IInv, TypeOK
<1>2. /\ area'[p] = a /\ size'[p] = n
      /\ \A q \in Places : q # p => area'[q] = area[q] /\ size'[q] = size[q]
  BY <1>1
<1>3. Bytes(a)' = Bytes(a) \cup Block(p, n)
  <2>1. \A b : b \in Bytes(a)' <=> b \in Bytes(a) \cup Block(p, n)
    BY <1>1, <1>2, BytesIs
  <2> QED
    BY <2>1
<1>4. Bytes(a) \cap Block(p, n) = {}
  BY <1>1, BytesIs, BlocksApart
<1>5. \A c \in Areas : c # a => Bytes(c)' = Bytes(c)
  <2> SUFFICES ASSUME NEW c \in Areas, c # a PROVE Bytes(c)' = Bytes(c)
    OBVIOUS
  <2>1. \A b : b \in Bytes(c)' <=> b \in Bytes(c)
    BY <1>1, <1>2, BytesIs
  <2> QED
    BY <2>1
<1>6. /\ IsFiniteSet(Bytes(a)')
      /\ Cardinality(Bytes(a)') = Cardinality(Bytes(a)) + ZmallocSize(n)
  <2>1. IsFiniteSet(Block(p, n)) /\ Cardinality(Block(p, n)) = ZmallocSize(n)
    BY <1>1, BlockCard
  <2>2. IsFiniteSet(Bytes(a))
    BY DEF BInv
  <2>3. Cardinality(Bytes(a)) \in Nat /\ ZmallocSize(n) \in Nat
    BY <1>1, <2>2, FS_CardinalityType DEF ZmallocSize
  <2>4. /\ IsFiniteSet(Bytes(a) \cup Block(p, n))
        /\ Cardinality(Bytes(a) \cup Block(p, n))
             = Cardinality(Bytes(a)) + Cardinality(Block(p, n))
                 - Cardinality(Bytes(a) \cap Block(p, n))
    BY <2>1, <2>2, FS_Union
  <2> QED
    BY <1>3, <1>4, <2>1, <2>3, <2>4, FS_EmptySet
<1>7. used'[a] = used[a] + ZmallocSize(n)
  <2>1. used[a] \in Nat
    BY FS_CardinalityType DEF BInv
  <2>2. used[a] <= Cap[a] + Prefix /\ Cap[a] \in Nat
    BY DEF IInv, UsageBounded
  <2>3. Cap[a] + Prefix + n < WordSize
    OBVIOUS
  <2>4. Wrap(used[a] + n) <= Cap[a]
    BY DEF Fits
  <2>5. used[a] + n \in Nat /\ WordSize \in Nat \ {0}
    BY <1>1, <2>1
  <2>6. Wrap(used[a] + n) \in Nat /\ Wrap(used[a] + n) + Prefix < WordSize
    BY <1>1, <2>2, <2>3, <2>4, <2>5 DEF Wrap
  <2>7. Wrap(used[a] + n + Prefix) = Wrap(used[a] + n) + Prefix
    BY <1>1, <2>5, <2>6, WrapSum
  <2>8. Wrap(used[a] + n) = used[a] + n
    <3>1. Wrap(0) = 0
      BY <2>5 DEF Wrap
    <3> QED
      BY <1>1, <2>1, <2>2, <2>3, <2>4, <2>5 DEF Wrap
  <2>9. used'[a] = Wrap(used[a] + n + Prefix)
    BY <1>1, <2>1 DEF Take, ZmallocSize
  <2> QED
    BY <1>1, <2>1, <2>7, <2>8, <2>9 DEF ZmallocSize
<1>8. \A c \in Areas : c # a => used'[c] = used[c]
  BY <1>1 DEF Take
<1> QED
  BY <1>5, <1>6, <1>7, <1>8 DEF BInv

LEMMA PutExact ==
  ASSUME IInv, BInv, NEW p \in Places, area[p] # "free", Put(p)
  PROVE  BInv'
<1>0. PICK a \in Areas, n \in Nat : a = area[p] /\ n = size[p]
  BY DEF IInv, TypeOK
<1>1. /\ size' = size
      /\ area' = [area EXCEPT ![p] = "free"]
      /\ used' = [used EXCEPT ![a] = used[a] - ZmallocSize(n)]
      /\ area \in [Places -> Areas \cup {"free"}] /\ used \in [Areas -> Int]
  BY <1>0 DEF Put, IInv, TypeOK
<1>2. area'[p] = "free" /\ \A q \in Places : q # p => area'[q] = area[q]
  BY <1>1
<1>3. Bytes(a)' = Bytes(a) \ Block(p, n)
  <2>1. ASSUME NEW b \in Bytes(a)' PROVE b \in Bytes(a) \ Block(p, n)
    <3>1. PICK q \in Places : area'[q] = a /\ b \in Block(q, size'[q])
      BY <1>1, BytesIs
    <3>2. q # p /\ area[q] = a
      BY <1>1, <1>2, <3>1
    <3> QED
      BY <1>1, <3>1, <3>2, BytesIs, BlocksApart
  <2>2. ASSUME NEW b \in Bytes(a) \ Block(p, n) PROVE b \in Bytes(a)'
    <3>1. PICK q \in Places : area[q] = a /\ b \in Block(q, size[q])
      BY <1>1, BytesIs
    <3>2. q # p
      BY <1>0, <3>1
    <3> QED
      BY <1>1, <1>2, <3>1, <3>2, BytesIs
  <2> QED
    BY <2>1, <2>2
<1>4. Block(p, n) \subseteq Bytes(a)
  BY <1>0, BytesIs
<1>5. \A c \in Areas : c # a => Bytes(c)' = Bytes(c)
  <2> SUFFICES ASSUME NEW c \in Areas, c # a PROVE Bytes(c)' = Bytes(c)
    OBVIOUS
  <2>1. \A b : b \in Bytes(c)' <=> b \in Bytes(c)
    BY <1>0, <1>1, <1>2, BytesIs
  <2> QED
    BY <2>1
<1>6. /\ IsFiniteSet(Bytes(a)')
      /\ Cardinality(Bytes(a)') = Cardinality(Bytes(a)) - ZmallocSize(n)
  <2>1. Cardinality(Block(p, n)) = ZmallocSize(n)
    BY BlockCard
  <2>2. IsFiniteSet(Bytes(a))
    BY DEF BInv
  <2>3. /\ IsFiniteSet(Bytes(a) \ Block(p, n))
        /\ Cardinality(Bytes(a) \ Block(p, n))
             = Cardinality(Bytes(a)) - Cardinality(Bytes(a) \cap Block(p, n))
    BY <2>2, FS_Difference
  <2>4. Bytes(a) \cap Block(p, n) = Block(p, n)
    BY <1>4
  <2> QED
    BY <1>3, <2>1, <2>3, <2>4
<1>7. \A c \in Areas : used'[c] = IF c = a THEN used[a] - ZmallocSize(n) ELSE used[c]
  BY <1>1
<1> QED
  BY <1>1, <1>5, <1>6, <1>7 DEF BInv

LEMMA SameExact ==
  ASSUME BInv, UNCHANGED account
  PROVE  BInv'
<1>1. \A a \in Areas : Bytes(a)' = Bytes(a)
  BY DEF Bytes, ZmallocSize, account
<1>2. used' = used
  BY DEF account
<1> SUFFICES ASSUME NEW a \in Areas
             PROVE  IsFiniteSet(Bytes(a)') /\ used'[a] = Cardinality(Bytes(a)')
  BY DEF BInv
<1>3. IsFiniteSet(Bytes(a)) /\ used[a] = Cardinality(Bytes(a))
  BY DEF BInv
<1>4. Bytes(a)' = Bytes(a)
  BY <1>1
<1> QED
  BY <1>2, <1>3, <1>4

\* A step of a thread keeps the accounts exact.
LEMMA StepExact ==
  ASSUME IInv, OInv, BInv, NEW t \in Threads, Call(t) \/ Step(t)
  PROVE  BInv'
<1>0. TypeOK /\ Others /\ Control /\ Owned
  BY TypeParts DEF IInv, OInv
<1>1. CASE Alloc(t) \/ AllocHeap(t) \/ AllocHeapArr(t) \/ AllocType(t)
  <2>1. \E a \in Areas, n \in Sizes \cup {Small}, p \in Places :
          Fits(a, n) /\ Take(a, n, p)
    BY <1>1 DEF Alloc, AllocHeap, AllocHeapArr, Create, AllocType
  <2> QED
    BY <2>1, TakeExact
<1>2. CASE AllocValue(t)
  <2>1. PICK p \in Places : /\ Fits(ValueArea(kind[t]), Small)
                            /\ Take(ValueArea(kind[t]), Small, p)
    BY <1>2 DEF AllocValue
  <2>2. ValueArea(kind[t]) \in Areas
    BY DEF ValueArea
  <2> QED
    BY <2>1, <2>2, TakeExact
<1>3. CASE Free(t) \/ InitFails(t) \/ AllocNullFails(t)
  <2>1. PICK p : /\ Put(p)
                 /\ \/ p \in given
                    \/ p = obj[t] /\ p # None /\ pc[t] = "got"
                    \/ p = nullType /\ pc[t] = "value" /\ kind[t] = Null
    BY <1>3 DEF Free, InitFails, AllocNullFails, Goto
  <2>2. p \in Places
    BY <1>0, <2>1 DEF Others, Control, HasType, HasObj
  <2>3. area[p] # "free"
    BY <1>0, <2>1, <2>2 DEF Owned
  <2> QED
    BY <2>1, <2>2, <2>3, PutExact
<1>4. CASE UNCHANGED account
  BY <1>4, SameExact
<1> QED
  BY <1>1, <1>2, <1>3, <1>4
  DEF Call, Step, AllocHeapArrFails, GetNull, InitField, InitDone, SetField,
      GotNull, TestUnlocked, LockMgr, TestLocked, AllocTypeFails,
      AllocZeroFails, ReadUnlocked

\* What the release gives back is what the singletons took.
LEMMA ReleaseExact ==
  ASSUME IInv, OInv, BInv, Release
  PROVE  BInv'
<1> USE NoneAssumption, KindsAssumption, SizesAssumption
<1> DEFINE Of(a) == {k \in Made : ValueArea(k) = a}
           At(a) == {zero[k] : k \in Of(a)}
           z == ZmallocSize(Small)
           Back(a) == At(a) \X (1 .. z)
<1>1. /\ size' = size
      /\ area' = [p \in Places |-> IF \E k \in Made : zero[k] = p THEN "free"
                                                               ELSE area[p]]
      /\ used' = [a \in Areas |-> used[a] - Cardinality(Of(a)) * z]
  BY DEF Release, ReleaseMade
<1>2. z \in Nat
  BY DEF ZmallocSize
<1> SUFFICES ASSUME NEW a \in Areas
             PROVE  /\ IsFiniteSet(Bytes(a)')
                    /\ used'[a] = Cardinality(Bytes(a)')
  BY DEF BInv
<1>3. \A k \in Made : /\ zero[k] \in Places /\ zero[k] # None
                      /\ area[zero[k]] = ValueArea(k) /\ size[zero[k]] = Small
                      /\ \A l \in Made : zero[k] = zero[l] => k = l
  BY DEF Made, IInv, TypeOK, OInv, ZeroBlocks, Owned
<1>4. \A p : p \in At(a) <=> \E k \in Made : zero[k] = p /\ ValueArea(k) = a
  OBVIOUS
<1>5. IsFiniteSet(At(a)) /\ Cardinality(At(a)) = Cardinality(Of(a))
      /\ Cardinality(Of(a)) \in Nat
  <2>1. IsFiniteSet(Of(a))
    <3>1. IsFiniteSet(Kinds)
      BY FS_Singleton, FS_Union
    <3>2. Of(a) \subseteq Kinds
      BY DEF Made
    <3> QED
      BY <3>1, <3>2, FS_Subset
  <2> DEFINE f == [k \in Of(a) |-> zero[k]]
  <2>2. f \in Bijection(Of(a), At(a))
    <3>1. \A k \in Of(a) : f[k] = zero[k] /\ zero[k] \in At(a)
      OBVIOUS
    <3>2. f \in [Of(a) -> At(a)]
      OBVIOUS
    <3>3. \A k, l \in Of(a) : f[k] = f[l] => k = l
      BY <1>3
    <3>4. \A p \in At(a) : \E k \in Of(a) : f[k] = p
      OBVIOUS
    <3> HIDE DEF f, Of, At
    <3> QED
      BY <3>2, <3>3, <3>4 DEF Bijection, Injection, Surjection, IsInjective
  <2>3. ExistsBijection(Of(a), At(a))
    BY <2>2 DEF ExistsBijection
  <2> HIDE DEF Of, At, f
  <2> QED
    BY <2>1, <2>3, FS_Bijection, FS_CardinalityType
<1>6. IsFiniteSet(Back(a)) /\ Cardinality(Back(a)) = Cardinality(Of(a)) * z
  <2> HIDE DEF At, Of, z
  <2>1. IsFiniteSet(1 .. z)
    BY <1>2, FS_Interval
  <2>2. Cardinality(1 .. z) = IF 1 > z THEN 0 ELSE z - 1 + 1
    BY <1>2, FS_Interval
  <2>3. Cardinality(1 .. z) = z
    BY <1>2, <2>2
  <2>4. /\ IsFiniteSet(At(a) \X (1 .. z))
        /\ Cardinality(At(a) \X (1 .. z))
             = Cardinality(At(a)) * Cardinality(1 .. z)
    BY <1>5, <2>1, FS_Product
  <2> QED
    BY <1>5, <2>3, <2>4
<1>7. Back(a) \subseteq Bytes(a)
  <2> SUFFICES ASSUME NEW b \in Back(a) PROVE b \in Bytes(a)
    OBVIOUS
  <2>1. PICK k \in Made : b[1] = zero[k] /\ ValueArea(k) = a
    OBVIOUS
  <2>2. b \in Block(zero[k], Small)
    BY <2>1 DEF Block
  <2> QED
    BY <1>3, <2>1, <2>2, BytesIs
<1>8. Bytes(a)' = Bytes(a) \ Back(a)
  <2>1. ASSUME NEW b \in Bytes(a)' PROVE b \in Bytes(a) \ Back(a)
    <3>1. PICK p \in Places : area'[p] = a /\ b \in Block(p, size'[p])
      BY BytesIs
    <3>2. area[p] = a /\ \A k \in Made : zero[k] # p
      BY <1>1, <3>1
    <3>3. b[1] = p
      BY <3>1 DEF Block
    <3> QED
      BY <1>1, <3>1, <3>2, <3>3, BytesIs
  <2>2. ASSUME NEW b \in Bytes(a) \ Back(a) PROVE b \in Bytes(a)'
    <3>1. PICK p \in Places : area[p] = a /\ b \in Block(p, size[p])
      BY BytesIs
    <3>2. ASSUME NEW k \in Made, zero[k] = p PROVE FALSE
      <4>1. ValueArea(k) = a /\ size[p] = Small
        BY <1>3, <3>1, <3>2
      <4>2. b \in Back(a)
        BY <3>1, <3>2, <4>1 DEF Block
      <4> QED
        BY <4>2
    <3>3. area'[p] = a
      BY <1>1, <3>1, <3>2
    <3> QED
      BY <1>1, <3>1, <3>3, BytesIs
  <2> QED
    BY <2>1, <2>2
<1> HIDE DEF Back, At, Of, z
<1>9. /\ IsFiniteSet(Bytes(a)')
      /\ Cardinality(Bytes(a)') = Cardinality(Bytes(a)) - Cardinality(Back(a))
  <2>1. Bytes(a) \cap Back(a) = Back(a)
    BY <1>7
  <2>2. IsFiniteSet(Bytes(a))
    BY DEF BInv
  <2>3. /\ IsFiniteSet(Bytes(a) \ Back(a))
        /\ Cardinality(Bytes(a) \ Back(a))
             = Cardinality(Bytes(a)) - Cardinality(Bytes(a) \cap Back(a))
    BY <2>2, FS_Difference
  <2> QED
    BY <1>8, <2>1, <2>3
<1> QED
  BY <1>1, <1>6, <1>9 DEF BInv

LEMMA InitBInv == Init => BInv
<1> SUFFICES ASSUME Init, NEW a \in Areas
             PROVE  IsFiniteSet(Bytes(a)) /\ used[a] = Cardinality(Bytes(a))
  BY DEF BInv
<1>1. Bytes(a) = {}
  BY DEF Init, Bytes
<1> QED
  BY <1>1, FS_EmptySet DEF Init

LEMMA NextOwnedExact == IInv /\ OInv /\ BInv /\ [Next]_vars => OInv' /\ BInv'
<1> SUFFICES ASSUME IInv, OInv, BInv, [Next]_vars
             PROVE  OInv' /\ BInv'
  OBVIOUS
<1>1. CASE UNCHANGED vars
  <2>1. OInv'
    BY <1>1 DEF vars, OInv, Owned, TypeMade, NoObj, ZeroBlocks
  <2> QED
    BY <1>1, <2>1, SameExact DEF vars
<1>2. CASE Next
  BY <1>2, StepOwned, ReleaseOwned, StepExact, ReleaseExact DEF Next
<1> QED
  BY <1>1, <1>2

LEMMA AlwaysOwnedExact == Spec => [](IInv /\ OInv /\ BInv)
BY InitIInv, NextIInv, InitOInv, InitBInv, NextOwnedExact, PTL DEF Spec

\* No path through any call, and no two threads, make a block lost or owned
\* twice: every block on an account is a caller's, a call's, a singleton or the
\* type of the null object, and one of them only.
THEOREM MemBlocksOwned == Spec => []BlocksOwned
<1>1. IInv /\ OInv => BlocksOwned
  BY OwnedIs DEF OInv
<1> QED
  BY <1>1, AlwaysOwnedExact, PTL

\* Each account is the bytes of its blocks, whatever the sizes, on every path
\* through every call.
THEOREM MemUsedExact == Spec => []UsedExact
<1>1. BInv => UsedExact
  BY DEF BInv, UsedExact
<1> QED
  BY <1>1, AlwaysOwnedExact, PTL
=============================================================================
