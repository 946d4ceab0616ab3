-------------------------- MODULE NvmThreadProofs --------------------------
(***************************************************************************)
(* Proofs about NvmThread, for any users, handles and capacity: types and  *)
(* the manager's lock on every behaviour, and, if users take turns on each *)
(* thread, the table, the memory of running threads, the references to the *)
(* runnable and the release of the manager.                                *)
(***************************************************************************)
EXTENDS NvmThread, FiniteSetTheorems, TLAPS

USE DEF manager, table, memory, fields, threads

-----------------------------------------------------------------------------
(* On every behaviour *)

\* What a call needs has been set before: a slot of the table to fill, and
\* the thread that the call is about.
ArgsSet ==
  \A u \in Users :
    /\ pc[u] \in {"reserve", "build"} => at[u] < Cap
    /\ pc[u] \in {"caller", "allocMgr", "initMgr", "allocTable", "lockMgr",
                  "scan", "reserve", "mgrScan"} <=> arg[u] = None

\* One user makes the manager, and only a manager that is made is used.
MgrPhase ==
  /\ mgr = "making" <=> \E u \in Users : Making(u)
  /\ \A u, v \in Users : Making(u) /\ Making(v) => u = v
  /\ \A u \in Users :
       Creating(u) \/ pc[u] = "mgrScan" => mgr \in {"ready", "freed"}

AInv == TypeOK /\ ArgsSet /\ MgrLockHeld /\ MgrPhase

LEMMA InitAInv == Init => AInv
<1> SUFFICES ASSUME Init PROVE AInv
  OBVIOUS
<1>1. TypeOK
  BY CapAssumption DEF Init, TypeOK, SlotIds, States
<1> QED
  BY <1>1, NoneAssumption
     DEF Init, AInv, ArgsSet, MgrLockHeld, MgrPhase, Making, Creating

\* A step of u that neither makes nor frees the manager.
LEMMA MovePhase ==
  ASSUME AInv, NEW u \in Users, UNCHANGED mgr,
         \A v \in Users \ {u} : pc'[v] = pc[v],
         ~Making(u), ~Making(u)',
         Creating(u)' \/ pc'[u] = "mgrScan" => mgr \in {"ready", "freed"}
  PROVE  MgrPhase'
BY DEF AInv, MgrPhase, Making, Creating

LEMMA StepTyped ==
  ASSUME TypeOK, ArgsSet, MgrLockHeld, MgrPhase,
         NEW u \in Users, Calls(u) \/ Step(u)
  PROVE  TypeOK' /\ ArgsSet' /\ MgrLockHeld'
<1> USE NoneAssumption, CapAssumption
      DEF TypeOK, ArgsSet, MgrLockHeld, Goto, Return, SlotIds, States
<1>1. CASE CallCreate(u)
  BY <1>1 DEF CallCreate
<1>2. CASE CallReleaseMgr(u)
  BY <1>2 DEF CallReleaseMgr
<1>3. CASE LockMgr(u)
  BY <1>3 DEF LockMgr, EnterMgr
<1>4. CASE ScanEmpty(u)
  BY <1>4 DEF ScanEmpty
<1>5. CASE ScanUsed(u)
  BY <1>5 DEF ScanUsed
<1>6. CASE TooMany(u)
  BY <1>6 DEF TooMany
<1>7. CASE Reserve(u)
  BY <1>7 DEF Reserve
<1>8. CASE ReserveFails(u)
  BY <1>8 DEF ReserveFails
<1>9. CASE Build(u)
  <2>1. arg[u] \in Handles /\ at[u] \in SlotIds
    <3>1. arg[u] # None /\ at[u] < Cap
      BY <1>9 DEF Build, Filled
    <3> QED
      BY <3>1
  <2>2. TypeOK'
    BY <1>9, <2>1 DEF Build, Filled
  <2>3. ArgsSet' /\ MgrLockHeld'
    BY <1>9 DEF Build, Filled
  <2> QED
    BY <2>2, <2>3
<1>10. CASE BuildFails(u)
  BY <1>10 DEF BuildFails
<1>11. CASE Start(u)
  <2>1. /\ arg[u] \in Handles /\ pc[u] = "start"
        /\ pc' = [pc EXCEPT ![u] = "caller"]
        /\ arg' = [arg EXCEPT ![u] = None]
        /\ UNCHANGED <<table, alive, shared, idx, tlock, refs, at>>
    BY <1>11 DEF Start
  <2>2. state' \in [Handles -> States] /\ running' \subseteq Handles
    <3>1. state \in [Handles -> States] /\ running \subseteq Handles
      OBVIOUS
    <3>2. \/ /\ state' = [state EXCEPT ![arg[u]] = "RUN"]
             /\ running' = running \cup {arg[u]}
          \/ UNCHANGED <<state, running>>
      BY <1>11 DEF Start
    <3>3. CASE UNCHANGED <<state, running>>
      BY <3>1, <3>3
    <3>4. CASE /\ state' = [state EXCEPT ![arg[u]] = "RUN"]
               /\ running' = running \cup {arg[u]}
      BY <2>1, <3>1, <3>4
    <3> QED
      BY <3>2, <3>3, <3>4
  <2>3. TypeOK'
    BY <2>1, <2>2
  <2>4. ArgsSet' /\ MgrLockHeld'
    BY <2>1
  <2> QED
    BY <2>3, <2>4
<1>12. CASE IsDead(u)
  <2>1. /\ UNCHANGED <<table, threads, at>> /\ arg[u] # None
        /\ \/ /\ pc' = [pc EXCEPT ![u] = "caller"]
              /\ arg' = [arg EXCEPT ![u] = None]
           \/ pc' = [pc EXCEPT ![u] = "isIntr"] /\ UNCHANGED arg
        /\ pc[u] \notin {"scan", "reserve"}
    BY <1>12 DEF IsDead, Test
  <2>2. TypeOK'
    BY <2>1
  <2>3. ArgsSet'
    BY <2>1
  <2>4. MgrLockHeld'
    BY <2>1
  <2> QED
    BY <2>2, <2>3, <2>4
<1>13. CASE IsIntr(u)
  <2>1. /\ UNCHANGED <<table, threads, at>> /\ arg[u] # None
        /\ \/ /\ pc' = [pc EXCEPT ![u] = "caller"]
              /\ arg' = [arg EXCEPT ![u] = None]
           \/ pc' = [pc EXCEPT ![u] = "lockThread"] /\ UNCHANGED arg
        /\ pc[u] \notin {"scan", "reserve"}
    BY <1>13 DEF IsIntr, Test
  <2>2. TypeOK'
    BY <2>1
  <2>3. ArgsSet'
    BY <2>1
  <2>4. MgrLockHeld'
    BY <2>1
  <2> QED
    BY <2>2, <2>3, <2>4
<1>14. CASE LockThread(u)
  BY <1>14 DEF LockThread
<1>15. CASE IsInit(u)
  BY <1>15 DEF IsInit
<1>16. CASE SetState(u)
  BY <1>16 DEF SetState
<1>17. CASE NotInit(u)
  <2>1. /\ UNCHANGED <<table, threads, at>> /\ arg[u] # None
        /\ \/ /\ pc' = [pc EXCEPT ![u] = "caller"]
              /\ arg' = [arg EXCEPT ![u] = None]
           \/ pc' = [pc EXCEPT ![u] = "clear"] /\ UNCHANGED arg
        /\ pc[u] \notin {"scan", "reserve"}
    BY <1>17 DEF NotInit, Test
  <2>2. TypeOK'
    BY <2>1
  <2>3. ArgsSet'
    BY <2>1
  <2>4. MgrLockHeld'
    BY <2>1
  <2> QED
    BY <2>2, <2>3, <2>4
<1>18. CASE ClearSlot(u)
  BY <1>18 DEF ClearSlot
<1>19. CASE FreeThread(u)
  BY <1>19 DEF FreeThread
<1>20. CASE MgrScan(u)
  <2>1. \/ pc' = pc /\ arg' = arg
        \/ /\ pc' = [pc EXCEPT ![u] = "caller"]
           /\ arg' = [arg EXCEPT ![u] = None]
    BY <1>20 DEF MgrScan, MgrScanTo
  <2>2. /\ at' \in [Users -> 0 .. Cap] /\ mgrBlocks' \in Int
        /\ mgr' \in {"none", "making", "ready", "freed"}
    BY <1>20 DEF MgrScan, MgrScanTo
  <2>3. /\ \A v \in Users \ {u} : at'[v] = at[v]
        /\ pc[u] = "mgrScan" /\ UNCHANGED <<slot, mlock, threads>>
    BY <1>20 DEF MgrScan, MgrScanTo
  <2>4. TypeOK'
    BY <2>1, <2>2, <2>3
  <2>5. ArgsSet'
    BY <2>1, <2>3
  <2>6. MgrLockHeld'
    BY <2>1, <2>3
  <2> QED
    BY <2>4, <2>5, <2>6
<1>21. ASSUME NEW h \in Handles,
              CallStart(u, h) \/ CallIntr(u, h) \/ CallRelease(u, h)
      PROVE  TypeOK' /\ ArgsSet' /\ MgrLockHeld'
  <2>1. /\ UNCHANGED <<table, threads, at>> /\ pc[u] = "caller"
        /\ arg' = [arg EXCEPT ![u] = h] /\ h # None
        /\ \E l \in {"start", "isDead", "notDead"} :
             pc' = [pc EXCEPT ![u] = l]
    BY <1>21 DEF CallStart, CallIntr, CallRelease, Call
  <2>2. TypeOK'
    BY <2>1
  <2>3. ArgsSet'
    BY <2>1
  <2>4. MgrLockHeld'
    BY <2>1
  <2> QED
    BY <2>2, <2>3, <2>4
<1>22. CASE CallCreateMgr(u)
  BY <1>22 DEF CallCreateMgr
<1>23. CASE AllocMgr(u)
  BY <1>23 DEF AllocMgr
<1>24. CASE InitMgrLock(u)
  <2>1. /\ pc[u] = "initMgr" /\ pc' = [pc EXCEPT ![u] = "allocTable"]
        /\ mlock' = None /\ UNCHANGED <<manager, slot, threads, arg, at>>
    BY <1>24 DEF InitMgrLock
  <2>2. \A v \in Users : pc[v] \notin {"scan", "reserve"}
    BY <2>1 DEF MgrPhase, Making, Creating
  <2> QED
    BY <2>1, <2>2
<1>25. CASE AllocTable(u)
  BY <1>25 DEF AllocTable
<1>26. CASE MgrFails(u)
  BY <1>26 DEF MgrFails, Making
<1>27. CASE NotDead(u)
  BY <1>27 DEF NotDead
<1> QED
  BY <1>1, <1>2, <1>3, <1>4, <1>5, <1>6, <1>7, <1>8, <1>9, <1>10, <1>11, <1>12,
     <1>13, <1>14, <1>15, <1>16, <1>17, <1>18, <1>19, <1>20, <1>21, <1>22,
     <1>23, <1>24, <1>25, <1>26, <1>27 DEF Calls, Step

LEMMA StepPhase ==
  ASSUME AInv, NEW u \in Users, Calls(u) \/ Step(u)
  PROVE  MgrPhase'
<1> USE DEF Goto, Return
<1>0. pc = [v \in Users |-> pc[v]]
  BY DEF AInv, TypeOK
<1>1. CASE \/ CallCreate(u) \/ CallReleaseMgr(u) \/ LockMgr(u) \/ ScanEmpty(u)
           \/ ScanUsed(u) \/ TooMany(u) \/ Reserve(u) \/ ReserveFails(u)
           \/ Build(u) \/ BuildFails(u)
  BY <1>0, <1>1, MovePhase
     DEF CallCreate, CallReleaseMgr, LockMgr, EnterMgr, ScanEmpty, ScanUsed,
         TooMany, Reserve, ReserveFails, Build, Filled, BuildFails, Making,
         Creating, AInv, MgrPhase
<1>2. CASE \/ Start(u) \/ IsDead(u) \/ IsIntr(u) \/ LockThread(u) \/ IsInit(u)
           \/ SetState(u) \/ NotDead(u) \/ NotInit(u) \/ ClearSlot(u)
           \/ FreeThread(u)
           \/ \E h \in Handles :
                CallStart(u, h) \/ CallIntr(u, h) \/ CallRelease(u, h)
  BY <1>0, <1>2, MovePhase
     DEF Start, IsDead, IsIntr, LockThread, IsInit, SetState, NotDead, NotInit,
         Test, ClearSlot, FreeThread, CallStart, CallIntr, CallRelease, Call,
         Making, Creating
<1>3. CASE CallCreateMgr(u)
  BY <1>0, <1>3 DEF CallCreateMgr, AInv, MgrPhase, Making, Creating
<1>4. CASE AllocMgr(u) \/ InitMgrLock(u)
  BY <1>0, <1>4 DEF AllocMgr, InitMgrLock, AInv, MgrPhase, Making, Creating
<1>5. CASE AllocTable(u) \/ MgrFails(u)
  BY <1>0, <1>5 DEF AllocTable, MgrFails, AInv, MgrPhase, Making, Creating
<1>6. CASE MgrScan(u)
  <2>1. /\ pc[u] = "mgrScan" /\ (pc' = pc \/ pc' = [pc EXCEPT ![u] = "caller"])
        /\ mgr' = IF at[u] < Cap THEN mgr ELSE "freed"
    BY <1>6 DEF MgrScan, MgrScanTo
  <2>2. mgr \in {"ready", "freed"} /\ mgr' \in {"ready", "freed"}
    BY <2>1 DEF AInv, MgrPhase
  <2> QED
    BY <1>0, <2>1, <2>2 DEF AInv, MgrPhase, Making, Creating
<1> QED
  BY <1>1, <1>2, <1>3, <1>4, <1>5, <1>6 DEF Calls, Step

LEMMA NextAInv == AInv /\ [Next]_vars => AInv'
<1> SUFFICES ASSUME AInv, [Next]_vars PROVE AInv'
  OBVIOUS
<1>1. CASE \E u \in Users : Calls(u) \/ Step(u)
  BY <1>1, StepTyped, StepPhase DEF AInv
<1>2. CASE \E h \in Handles : End(h)
  BY <1>2 DEF End, AInv, TypeOK, ArgsSet, MgrLockHeld, MgrPhase, Making,
              Creating, States
<1>3. CASE UNCHANGED vars
  BY <1>3 DEF vars, AInv, TypeOK, ArgsSet, MgrLockHeld, MgrPhase, Making,
              Creating
<1> QED
  BY <1>1, <1>2, <1>3 DEF Next

LEMMA AlwaysAInv == Spec => []AInv
BY InitAInv, NextAInv, PTL DEF Spec

\* The manager, its threads and its callers keep their types.
THEOREM ThreadTypeOK == Spec => []TypeOK
<1>1. AInv => TypeOK
  BY DEF AInv
<1> QED
  BY <1>1, AlwaysAInv, PTL

\* Whoever looks for a slot has the manager's lock, and alone.
THEOREM ThreadMgrLockHeld == Spec => []MgrLockHeld
<1>1. AInv => MgrLockHeld
  BY DEF AInv
<1> QED
  BY <1>1, AlwaysAInv, PTL

-----------------------------------------------------------------------------
(* If users take turns *)

\* The table has each allocated thread at most once, and a thread that was
\* returned in the slot it names.
Listed ==
  /\ TableExact
  /\ \A i, j \in SlotIds : slot[i] # None /\ slot[i] = slot[j] => i = j
  /\ shared \subseteq alive

\* What the calls under way have found or made.
Phases ==
  \A u \in Users :
    /\ pc[u] = "reserve" => slot[at[u]] = None
    /\ pc[u] = "build" => /\ arg[u] \in alive \ shared
                          /\ slot[at[u]] = arg[u]
    /\ arg[u] # None /\ pc[u] # "build" => arg[u] \in shared
    /\ pc[u] = "free" => \A i \in SlotIds : slot[i] # arg[u]
    /\ pc[u] = "mgrScan" => \A i \in SlotIds : i < at[u] => slot[i] = None

\* A thread that runs was returned, is in a state to run, and nobody is about
\* to free it or to set it to DEAD.
Runs ==
  /\ running \subseteq shared
  /\ \A h \in running : state[h] \in {"RUN", "INTR"}
  /\ \A u \in Users :
       pc[u] \in {"clear", "free", "setDead"} => arg[u] \notin running

Refs == IsFiniteSet(shared) /\ refs = Cardinality(shared)

MgrEmpty == mgr # "ready" => \A i \in SlotIds : slot[i] = None

\* The manager has its blocks, and is there for those who use it.
MgrMade ==
  /\ mgrBlocks = MgrNeeds
  /\ \A u \in Users : Creating(u) \/ pc[u] = "mgrScan" => mgr = "ready"

TInv == TakeTurns /\ Listed /\ Phases /\ Runs /\ Refs /\ MgrEmpty /\ MgrMade

LEMMA InitTInv == Init => TInv
BY NoneAssumption, FS_EmptySet
   DEF Init, TInv, TakeTurns, Creating, Listed, TableExact, Phases, Runs, Refs,
       MgrEmpty, MgrMade, MgrNeeds

\* A step of u that neither makes nor frees the manager.
LEMMA MoveMade ==
  ASSUME AInv, TInv, NEW u \in Users, UNCHANGED manager,
         \A v \in Users \ {u} : pc'[v] = pc[v],
         ~Making(u), ~Making(u)',
         Creating(u)' \/ pc'[u] = "mgrScan" => mgr = "ready"
  PROVE  MgrMade'
<1>1. MgrNeeds' = MgrNeeds
  BY DEF MgrNeeds, Making
<1> QED
  BY <1>1 DEF TInv, MgrMade, Creating

\* A step of u that leaves the table and the threads alone.
LEMMA OtherTInv ==
  ASSUME AInv, TInv, TakeTurns', NEW u \in Users,
         UNCHANGED <<slot, memory, idx, state>>,
         \A v \in Users \ {u} : /\ pc'[v] = pc[v] /\ arg'[v] = arg[v]
                                /\ at'[v] = at[v],
         pc[u] \notin {"build", "free"},
         pc'[u] \notin {"build", "free"},
         pc'[u] = "reserve" => slot[at'[u]] = None,
         arg'[u] # None => arg'[u] \in shared,
         pc'[u] \in {"clear", "setDead"} => arg'[u] \notin running,
         pc'[u] = "mgrScan" => \A i \in SlotIds : i < at'[u] => slot[i] = None,
         MgrMade', MgrEmpty'
  PROVE  TInv'
<1>1. Listed'
  BY DEF TInv, Listed, TableExact, Leaving
<1>2. Phases'
  BY DEF TInv, Phases
<1>3. Runs'
  BY DEF TInv, Runs
<1> QED
  BY <1>1, <1>2, <1>3 DEF TInv, Refs

\* A step that changes nothing but where u is in its call.
LEMMA MoveTInv ==
  ASSUME AInv, TInv, TakeTurns', NEW u \in Users,
         UNCHANGED <<manager, slot, memory, idx, state>>,
         \A v \in Users \ {u} : /\ pc'[v] = pc[v] /\ arg'[v] = arg[v]
                                /\ at'[v] = at[v],
         pc[u] \notin {"build", "free"},
         pc'[u] \notin {"build", "free"},
         ~Making(u), ~Making(u)',
         Creating(u)' \/ pc'[u] = "mgrScan" => mgr = "ready",
         pc'[u] = "reserve" => slot[at'[u]] = None,
         arg'[u] # None => arg'[u] \in shared,
         pc'[u] \in {"clear", "setDead"} => arg'[u] \notin running,
         pc'[u] = "mgrScan" => \A i \in SlotIds : i < at'[u] => slot[i] = None
  PROVE  TInv'
<1>1. MgrMade'
  BY MoveMade
<1>2. MgrEmpty'
  BY DEF TInv, MgrEmpty
<1> QED
  BY <1>1, <1>2, OtherTInv

LEMMA StepTInv ==
  ASSUME AInv, TInv, TakeTurns', AInv', NEW u \in Users, Calls(u) \/ Step(u)
  PROVE  TInv'
<1> USE NoneAssumption, CapAssumption DEF Goto, Return
<1>0. /\ slot \in [SlotIds -> Handles \cup {None}]
      /\ idx \in [Handles -> SlotIds] /\ at \in [Users -> 0 .. Cap]
      /\ state \in [Handles -> States]
      /\ pc = [v \in Users |-> pc[v]] /\ arg \in [Users -> Handles \cup {None}]
      /\ shared \subseteq Handles /\ alive \subseteq Handles
  BY DEF AInv, TypeOK
<1>1. CASE CallCreate(u)
  BY <1>1, <1>0, MoveTInv
     DEF CallCreate, AInv, ArgsSet, TInv, Phases, Runs,
         Making, Creating, MgrMade
<1>2. CASE CallReleaseMgr(u)
  <2>1. /\ UNCHANGED <<table, threads>> /\ mgr = "ready"
        /\ pc[u] = "caller" /\ pc'[u] = "mgrScan" /\ at'[u] = 0
        /\ \A v \in Users \ {u} : pc'[v] = pc[v] /\ at'[v] = at[v]
        /\ arg[u] = None /\ arg' = arg
    BY <1>2, <1>0 DEF CallReleaseMgr, AInv, ArgsSet
  <2> QED
    BY <2>1, MoveTInv DEF SlotIds, Making, Creating
<1>3. CASE LockMgr(u)
  BY <1>3, <1>0, MoveTInv
     DEF LockMgr, EnterMgr, AInv, ArgsSet, TInv, Phases, Runs,
         Making, Creating, MgrMade
<1>4. CASE ScanEmpty(u)
  BY <1>4, <1>0, MoveTInv
     DEF ScanEmpty, AInv, ArgsSet, TInv, Phases, Runs,
         Making, Creating, MgrMade
<1>5. CASE ScanUsed(u)
  BY <1>5, <1>0, MoveTInv
     DEF ScanUsed, AInv, ArgsSet, TInv, Phases, Runs,
         Making, Creating, MgrMade
<1>6. CASE TooMany(u)
  BY <1>6, <1>0, MoveTInv
     DEF TooMany, AInv, ArgsSet, TInv, Phases, Runs,
         Making, Creating, MgrMade
<1>7. CASE ReserveFails(u)
  BY <1>7, <1>0, MoveTInv
     DEF ReserveFails, AInv, ArgsSet, TInv, Phases, Runs,
         Making, Creating, MgrMade
<1>8. CASE IsDead(u)
  BY <1>8, <1>0, MoveTInv
     DEF IsDead, Test, AInv, ArgsSet, TInv, Phases, Runs,
         Making, Creating, MgrMade
<1>9. CASE IsIntr(u)
  BY <1>9, <1>0, MoveTInv
     DEF IsIntr, Test, AInv, ArgsSet, TInv, Phases, Runs,
         Making, Creating, MgrMade
<1>10. CASE LockThread(u)
  BY <1>10, <1>0, MoveTInv
     DEF LockThread, AInv, ArgsSet, TInv, Phases, Runs,
         Making, Creating, MgrMade
<1>11. CASE IsInit(u)
  BY <1>11, <1>0, MoveTInv
     DEF IsInit, AInv, ArgsSet, TInv, Phases, Runs,
         Making, Creating, MgrMade
<1>12. CASE NotInit(u)
  BY <1>12, <1>0, MoveTInv
     DEF NotInit, Test, AInv, ArgsSet, TInv, Phases, Runs,
         Making, Creating, MgrMade
<1>13. ASSUME NEW h \in Handles,
              CallStart(u, h) \/ CallIntr(u, h) \/ CallRelease(u, h)
      PROVE  TInv'
  BY <1>13, <1>0, MoveTInv
     DEF CallStart, CallIntr, CallRelease, Call, Making, Creating
<1>14. CASE Reserve(u)
  <2>1. PICK h \in Handles \ alive :
          /\ alive' = alive \cup {h} /\ slot' = [slot EXCEPT ![at[u]] = h]
          /\ arg' = [arg EXCEPT ![u] = h]
    BY <1>14 DEF Reserve
  <2>2. /\ at[u] \in SlotIds /\ slot[at[u]] = None /\ h # None
        /\ \A i \in SlotIds : slot[i] # h
        /\ h \notin shared /\ h \notin running
    BY <1>14, <1>0 DEF Reserve, AInv, ArgsSet, SlotIds, TInv, Phases, Listed,
                   TableExact, Runs
  <2>3. /\ slot'[at[u]] = h /\ \A i \in SlotIds \ {at[u]} : slot'[i] = slot[i]
        /\ arg'[u] = h /\ \A v \in Users \ {u} : arg'[v] = arg[v]
        /\ pc[u] = "reserve" /\ pc'[u] = "build"
        /\ \A v \in Users \ {u} : pc'[v] = pc[v]
        /\ UNCHANGED <<mgr, shared, running, refs, fields, at>>
    BY <1>14, <1>0, <2>1, <2>2 DEF Reserve
  <2>4. \A g \in shared : Leaving(g)' <=> Leaving(g)
    BY <2>2, <2>3 DEF Leaving
  <2>5. Listed'
    <3>1. \A i \in SlotIds : slot'[i] # None => slot'[i] \in alive'
      BY <2>1, <2>2, <2>3 DEF TInv, Listed, TableExact
    <3>2. \A g \in shared' : ~Leaving(g)' => slot'[idx'[g]] = g
      <4> SUFFICES ASSUME NEW g \in shared, ~Leaving(g)
                   PROVE  slot'[idx[g]] = g
        BY <2>3, <2>4
      <4>1. slot[idx[g]] = g /\ idx[g] \in SlotIds /\ g # None
        BY <1>0 DEF TInv, Listed, TableExact
      <4> QED
        BY <4>1, <2>2, <2>3
    <3>3. \A i, j \in SlotIds : slot'[i] # None /\ slot'[i] = slot'[j] => i = j
      BY <2>2, <2>3 DEF TInv, Listed
    <3>4. shared' \subseteq alive'
      BY <2>1, <2>3 DEF TInv, Listed
    <3> QED
      BY <3>1, <3>2, <3>3, <3>4 DEF Listed, TableExact
  <2>6. Phases'
    <3> SUFFICES ASSUME NEW v \in Users
                 PROVE  /\ pc'[v] = "reserve" => slot'[at'[v]] = None
                        /\ pc'[v] = "build" => /\ arg'[v] \in alive' \ shared'
                                               /\ slot'[at'[v]] = arg'[v]
                        /\ arg'[v] # None /\ pc'[v] # "build" => arg'[v] \in shared'
                        /\ pc'[v] = "free" => \A i \in SlotIds : slot'[i] # arg'[v]
                        /\ pc'[v] = "mgrScan" =>
                             \A i \in SlotIds : i < at'[v] => slot'[i] = None
      BY DEF Phases
    <3>1. CASE v = u
      BY <2>1, <2>2, <2>3, <3>1
    <3>2. CASE v # u
      <4>1. pc[v] # "reserve" /\ pc[v] # "mgrScan"
        BY <2>3, <3>2 DEF AInv, MgrLockHeld, TInv, TakeTurns, Creating
      <4>2. pc[v] = "build" => at[v] \in SlotIds /\ at[v] # at[u]
        BY <1>0, <2>2, <3>2 DEF TInv, Phases, AInv, ArgsSet, SlotIds
      <4>3. arg[v] # None /\ pc[v] # "build" => arg[v] \in shared /\ arg[v] # h
        BY <2>2 DEF TInv, Phases
      <4> QED
        BY <2>1, <2>2, <2>3, <3>2, <4>1, <4>2, <4>3
           DEF TInv, Phases, AInv, ArgsSet
    <3> QED
      BY <3>1, <3>2
  <2>7. Runs'
    BY <2>2, <2>3 DEF TInv, Runs
  <2>8. Refs'
    BY <2>3 DEF TInv, Refs
  <2>9. MgrEmpty'
    BY <2>3 DEF TInv, MgrEmpty, MgrMade, Creating
  <2>10. MgrMade'
    BY <1>14, <1>0, MoveMade DEF Reserve, Making, Creating, TInv, MgrMade
  <2> QED
    BY <2>5, <2>6, <2>7, <2>8, <2>9, <2>10 DEF TInv
<1>15. CASE Build(u)
  <2>1. Listed'
    <3>1. /\ arg[u] \in alive \ shared /\ slot[at[u]] = arg[u]
          /\ arg[u] \in Handles /\ pc[u] = "build"
      BY <1>15, <1>0 DEF Build, Filled, TInv, Phases, AInv, ArgsSet
    <3>2. /\ idx' = [idx EXCEPT ![arg[u]] = at[u]]
          /\ shared' = shared \cup {arg[u]} /\ UNCHANGED <<slot, alive>>
      BY <1>15 DEF Build, Filled
    <3>3. \A g \in shared : Leaving(g)' <=> Leaving(g)
      BY <1>15, <1>0, <3>1 DEF Build, Filled, Leaving
    <3>4. \A g \in shared' : ~Leaving(g)' => slot'[idx'[g]] = g
      BY <1>0, <3>1, <3>2, <3>3 DEF TInv, Listed, TableExact
    <3> QED
      BY <3>1, <3>2, <3>4 DEF TInv, Listed, TableExact
  <2>2. Phases'
    BY <1>15, <1>0
       DEF Build, Filled, AInv, ArgsSet, TInv, Phases, Listed, TableExact,
           TakeTurns, Creating
  <2>3. Runs'
    BY <1>15, <1>0
       DEF Build, Filled, AInv, ArgsSet, TInv, Runs, Phases, TakeTurns
  <2>4. Refs'
    <3>1. arg[u] \notin shared
      BY <1>15 DEF Build, Filled, TInv, Phases
    <3>2. /\ IsFiniteSet(shared \cup {arg[u]})
          /\ Cardinality(shared \cup {arg[u]}) = Cardinality(shared) + 1
      BY <3>1, FS_AddElement DEF TInv, Refs
    <3> QED
      BY <1>15, <3>2 DEF Build, Filled, TInv, Refs
  <2>5. MgrEmpty'
    BY <1>15, <1>0
       DEF Build, Filled, AInv, ArgsSet, TInv, MgrEmpty, TakeTurns, Creating
  <2>6. MgrMade'
    BY <1>15, <1>0, MoveMade DEF Build, Filled, Making, Creating, TInv, MgrMade
  <2> QED
    BY <2>1, <2>2, <2>3, <2>4, <2>5, <2>6 DEF TInv
<1>16. CASE BuildFails(u)
  <2>1. Listed'
    <3>1. /\ arg[u] \in alive \ shared /\ slot[at[u]] = arg[u]
          /\ at[u] \in SlotIds /\ arg[u] # None /\ pc[u] = "build"
      BY <1>16, <1>0 DEF BuildFails, TInv, Phases, AInv, ArgsSet, SlotIds
    <3>2. /\ slot'[at[u]] = None
          /\ \A i \in SlotIds \ {at[u]} : slot'[i] = slot[i]
          /\ alive' = alive \ {arg[u]} /\ UNCHANGED <<shared, idx>>
      BY <1>16, <1>0, <3>1 DEF BuildFails
    <3>3. \A g \in shared : Leaving(g)' <=> Leaving(g)
      BY <1>16, <1>0, <3>1 DEF BuildFails, Leaving
    <3>4. \A g \in shared' : ~Leaving(g)' => slot'[idx'[g]] = g
      BY <1>0, <3>1, <3>2, <3>3 DEF TInv, Listed, TableExact
    <3>5. \A i \in SlotIds \ {at[u]} : slot[i] # arg[u]
      BY <3>1 DEF TInv, Listed
    <3> QED
      BY <3>1, <3>2, <3>4, <3>5 DEF TInv, Listed, TableExact
  <2>2. Phases'
    BY <1>16, <1>0
       DEF BuildFails, AInv, ArgsSet, TInv, Phases, Listed, TableExact,
           TakeTurns, Creating
  <2>3. Runs'
    BY <1>16, <1>0 DEF BuildFails, AInv, ArgsSet, TInv, Runs, Phases, TakeTurns
  <2>4. Refs'
    BY <1>16 DEF BuildFails, TInv, Refs
  <2>5. MgrEmpty'
    BY <1>16, <1>0
       DEF BuildFails, AInv, ArgsSet, TInv, MgrEmpty, TakeTurns, Creating
  <2>6. MgrMade'
    BY <1>16, <1>0, MoveMade DEF BuildFails, Making, Creating, TInv, MgrMade
  <2> QED
    BY <2>1, <2>2, <2>3, <2>4, <2>5, <2>6 DEF TInv
<1>17. CASE Start(u)
  <2>1. Listed'
    BY <1>17, <1>0 DEF Start, AInv, ArgsSet, TInv, Listed, TableExact, Leaving
  <2>2. Phases'
    BY <1>17, <1>0
       DEF Start, AInv, ArgsSet, TInv, Phases, Listed, TableExact, TakeTurns,
           Creating
  <2>3. Runs'
    BY <1>17, <1>0 DEF Start, AInv, ArgsSet, TInv, Runs, Phases, TakeTurns
  <2>4. Refs'
    BY <1>17, <1>0 DEF Start, AInv, ArgsSet, TInv, Refs
  <2>5. MgrEmpty'
    BY <1>17, <1>0 DEF Start, AInv, ArgsSet, TInv, MgrEmpty, TakeTurns, Creating
  <2>6. MgrMade'
    BY <1>17, <1>0, MoveMade DEF Start, Making, Creating, TInv, MgrMade
  <2> QED
    BY <2>1, <2>2, <2>3, <2>4, <2>5, <2>6 DEF TInv
<1>18. CASE SetState(u)
  <2>1. Listed'
    BY <1>18, <1>0
       DEF SetState, AInv, ArgsSet, TInv, Listed, TableExact, Leaving
  <2>2. Phases'
    BY <1>18, <1>0
       DEF SetState, AInv, ArgsSet, TInv, Phases, Listed, TableExact,
           TakeTurns, Creating
  <2>3. Runs'
    BY <1>18, <1>0 DEF SetState, AInv, ArgsSet, TInv, Runs, Phases, TakeTurns
  <2>4. Refs'
    BY <1>18, <1>0 DEF SetState, AInv, ArgsSet, TInv, Refs
  <2>5. MgrEmpty'
    BY <1>18, <1>0
       DEF SetState, AInv, ArgsSet, TInv, MgrEmpty, TakeTurns, Creating
  <2>6. MgrMade'
    BY <1>18, <1>0, MoveMade DEF SetState, Making, Creating, TInv, MgrMade
  <2> QED
    BY <2>1, <2>2, <2>3, <2>4, <2>5, <2>6 DEF TInv
<1>19. CASE ClearSlot(u)
  <2>1. Listed'
    <3>1. /\ arg[u] \in shared /\ arg[u] \in Handles /\ arg[u] # None
          /\ pc[u] = "clear" /\ idx[arg[u]] \in SlotIds
      BY <1>19, <1>0 DEF ClearSlot, TInv, Phases, AInv, ArgsSet
    <3>2. /\ \A i \in SlotIds : slot'[i] = None \/ slot'[i] = slot[i]
          /\ \A i \in SlotIds \ {idx[arg[u]]} : slot'[i] = slot[i]
          /\ UNCHANGED <<shared, alive, idx, arg>>
          /\ pc' = [pc EXCEPT ![u] = "free"]
      BY <1>19, <1>0, <3>1 DEF ClearSlot
    <3>3. ~Leaving(arg[u])
      BY <3>1 DEF Leaving, TInv, TakeTurns
    <3>4. \A g \in shared : g = arg[u] \/ Leaving(g) => Leaving(g)'
      BY <1>0, <3>1, <3>2 DEF Leaving
    <3>5. \A g \in shared' : ~Leaving(g)' => slot'[idx'[g]] = g
      <4> SUFFICES ASSUME NEW g \in shared, ~Leaving(g)'
                   PROVE  slot'[idx[g]] = g
        BY <3>2
      <4>1. g # arg[u] /\ slot[idx[g]] = g /\ idx[g] \in SlotIds
        <5>1. g # arg[u] /\ ~Leaving(g) /\ g \in Handles
          BY <1>0, <3>4
        <5> QED
          BY <1>0, <5>1 DEF TInv, Listed, TableExact
      <4>2. slot[idx[arg[u]]] = arg[u]
        BY <3>1, <3>3 DEF TInv, Listed, TableExact
      <4> QED
        BY <3>2, <4>1, <4>2
    <3> QED
      BY <3>2, <3>5 DEF TInv, Listed, TableExact
  <2>2. Phases'
    <3>1. /\ arg[u] \in shared /\ arg[u] \in Handles /\ arg[u] # None
          /\ pc[u] = "clear" /\ idx[arg[u]] \in SlotIds
      BY <1>19, <1>0 DEF ClearSlot, TInv, Phases, AInv, ArgsSet
    <3>2. slot[idx[arg[u]]] = arg[u]
      BY <3>1 DEF Leaving, TInv, TakeTurns, Listed, TableExact
    <3>3. /\ slot'[idx[arg[u]]] = None
          /\ \A i \in SlotIds \ {idx[arg[u]]} : slot'[i] = slot[i]
          /\ UNCHANGED <<shared, alive, arg, at>>
          /\ pc'[u] = "free" /\ \A v \in Users \ {u} : pc'[v] = pc[v]
      BY <1>19, <1>0, <3>1 DEF ClearSlot
    <3>4. \A i \in SlotIds : slot'[i] # arg[u]
      BY <3>1, <3>2, <3>3 DEF TInv, Listed
    <3>5. \A v \in Users : pc[v] = "build" =>
            at[v] \in SlotIds /\ at[v] # idx[arg[u]]
      BY <1>0, <3>1, <3>2 DEF TInv, Phases, AInv, ArgsSet, SlotIds
    <3>6. \A v \in Users : pc[v] = "reserve" => at[v] \in SlotIds
      BY <1>0 DEF AInv, ArgsSet, SlotIds
    <3>7. \A i \in SlotIds : slot'[i] = None \/ slot'[i] = slot[i]
      BY <3>3
    <3>8. \A v \in Users \ {u} : pc[v] = "build" => slot'[at[v]] = arg[v]
      BY <3>3, <3>5 DEF TInv, Phases
    <3>9. \A v \in Users \ {u} : pc[v] = "reserve" => slot'[at[v]] = None
      BY <3>6, <3>7 DEF TInv, Phases
    <3>10. \A v \in Users \ {u} : pc[v] = "free" =>
             \A i \in SlotIds : slot'[i] # arg[v]
      <4> SUFFICES ASSUME NEW v \in Users \ {u}, pc[v] = "free", NEW i \in SlotIds
                   PROVE  slot'[i] # arg[v]
        OBVIOUS
      <4>1. arg[v] # None /\ slot[i] # arg[v]
        BY DEF TInv, Phases, AInv, ArgsSet
      <4> QED
        BY <3>7, <4>1
    <3> QED
      BY <3>1, <3>3, <3>4, <3>7, <3>8, <3>9, <3>10 DEF TInv, Phases
  <2>3. Runs'
    BY <1>19, <1>0 DEF ClearSlot, AInv, ArgsSet, TInv, Runs, Phases, TakeTurns
  <2>4. Refs'
    BY <1>19, <1>0 DEF ClearSlot, AInv, ArgsSet, TInv, Refs
  <2>5. MgrEmpty'
    BY <1>19, <1>0
       DEF ClearSlot, AInv, ArgsSet, TInv, MgrEmpty, TakeTurns, Creating
  <2>6. MgrMade'
    BY <1>19, <1>0, MoveMade DEF ClearSlot, Making, Creating, TInv, MgrMade
  <2> QED
    BY <2>1, <2>2, <2>3, <2>4, <2>5, <2>6 DEF TInv
<1>20. CASE FreeThread(u)
  <2>1. Listed'
    <3>1. /\ arg[u] # None /\ pc[u] = "free"
          /\ \A i \in SlotIds : slot[i] # arg[u]
      BY <1>20 DEF FreeThread, TInv, Phases, AInv, ArgsSet
    <3>2. /\ UNCHANGED <<slot, idx>> /\ alive' = alive \ {arg[u]}
          /\ shared' = shared \ {arg[u]}
      BY <1>20 DEF FreeThread
    <3>3. \A g \in shared' : Leaving(g)' <=> Leaving(g)
      BY <1>20, <1>0, <3>1, <3>2 DEF FreeThread, Leaving
    <3>4. \A g \in shared' : ~Leaving(g)' => slot'[idx'[g]] = g
      BY <3>2, <3>3 DEF TInv, Listed, TableExact
    <3> QED
      BY <3>1, <3>2, <3>4 DEF TInv, Listed, TableExact
  <2>2. Phases'
    BY <1>20, <1>0
       DEF FreeThread, AInv, ArgsSet, TInv, Phases, Listed, TableExact,
           TakeTurns, Creating
  <2>3. Runs'
    BY <1>20, <1>0 DEF FreeThread, AInv, ArgsSet, TInv, Runs, Phases, TakeTurns
  <2>4. Refs'
    <3>1. arg[u] \in shared
      BY <1>20 DEF FreeThread, TInv, Phases, AInv, ArgsSet
    <3>2. /\ IsFiniteSet(shared \ {arg[u]})
          /\ Cardinality(shared \ {arg[u]}) = Cardinality(shared) - 1
      BY <3>1, FS_RemoveElement DEF TInv, Refs
    <3> QED
      BY <1>20, <3>2 DEF FreeThread, TInv, Refs
  <2>5. MgrEmpty'
    BY <1>20, <1>0
       DEF FreeThread, AInv, ArgsSet, TInv, MgrEmpty, TakeTurns, Creating
  <2>6. MgrMade'
    BY <1>20, <1>0, MoveMade DEF FreeThread, Making, Creating, TInv, MgrMade
  <2> QED
    BY <2>1, <2>2, <2>3, <2>4, <2>5, <2>6 DEF TInv
<1>21. CASE MgrScan(u)
  <2>0. /\ pc[u] = "mgrScan" /\ UNCHANGED <<slot, mlock, threads>>
        /\ mgr' = (IF at[u] < Cap THEN mgr ELSE "freed")
        /\ mgrBlocks' = (IF at[u] < Cap THEN mgrBlocks ELSE mgrBlocks - 2)
        /\ arg[u] = None
        /\ \/ /\ at[u] < Cap /\ slot[at[u]] = None
              /\ at' = [at EXCEPT ![u] = @ + 1] /\ UNCHANGED <<pc, arg>>
           \/ /\ ~(at[u] < Cap /\ slot[at[u]] = None) /\ at' = at
              /\ pc' = [pc EXCEPT ![u] = "caller"]
              /\ arg' = [arg EXCEPT ![u] = None]
    BY <1>21 DEF MgrScan, MgrScanTo, AInv, ArgsSet
  <2>1. Listed'
    BY <1>0, <2>0 DEF TInv, Listed, TableExact, Leaving
  <2>2. Phases'
    <3>1. \A i \in SlotIds : i < at[u] => slot[i] = None
      BY <2>0 DEF TInv, Phases
    <3>2. at[u] < Cap /\ slot[at[u]] = None
            => \A i \in SlotIds : i < at[u] + 1 => slot[i] = None
      BY <1>0, <3>1 DEF SlotIds
    <3> QED
      BY <1>0, <2>0, <3>2 DEF TInv, Phases
  <2>3. Runs'
    BY <1>0, <2>0 DEF TInv, Runs
  <2>4. Refs'
    BY <2>0 DEF TInv, Refs
  <2>5. MgrEmpty'
    <3>1. ~(at[u] < Cap) => \A i \in SlotIds : slot[i] = None
      BY <1>0, <2>0 DEF TInv, Phases, SlotIds
    <3> QED
      BY <2>0, <3>1 DEF TInv, MgrEmpty
  <2>6. MgrMade'
    <3>1. mgr = "ready" /\ mgrBlocks = 2 /\ \A v \in Users : ~Making(v)
      BY <2>0 DEF TInv, MgrMade, MgrNeeds, AInv, MgrPhase
    <3>2. \A v \in Users : pc'[v] = pc[v] \/ pc'[v] = "caller"
      BY <1>0, <2>0
    <3>3. \A v \in Users \ {u} : ~Creating(v) /\ pc[v] # "mgrScan"
      BY <2>0 DEF TInv, TakeTurns
    <3>4. CASE at[u] < Cap
      BY <2>0, <3>1, <3>2, <3>4 DEF TInv, MgrMade, MgrNeeds, Creating
    <3>5. CASE ~(at[u] < Cap)
      BY <1>0, <2>0, <3>1, <3>2, <3>3, <3>5
         DEF MgrMade, MgrNeeds, Making, Creating
    <3> QED
      BY <3>4, <3>5
  <2> QED
    BY <2>1, <2>2, <2>3, <2>4, <2>5, <2>6 DEF TInv
<1>22. CASE NotDead(u)
  BY <1>22, <1>0, MoveTInv
     DEF NotDead, AInv, ArgsSet, TInv, Phases, Runs, Making, Creating
<1>23. CASE CallCreateMgr(u) \/ AllocMgr(u) \/ InitMgrLock(u)
  <2>1. /\ UNCHANGED <<slot, threads, arg, at>> /\ arg[u] = None
        /\ pc[u] \in {"caller", "allocMgr", "initMgr"}
        /\ pc'[u] \in {"allocMgr", "initMgr", "allocTable"}
        /\ \A v \in Users \ {u} : pc'[v] = pc[v]
        /\ mgr # "ready" /\ mgr' # "ready"
    BY <1>0, <1>23 DEF CallCreateMgr, AllocMgr, InitMgrLock, AInv, ArgsSet,
                   MgrPhase, Making
  <2>2. \A v \in Users \ {u} : ~Making(v) /\ ~Creating(v) /\ pc[v] # "mgrScan"
    BY <1>23, <2>1 DEF CallCreateMgr, AllocMgr, InitMgrLock, AInv, MgrPhase,
                   Making, TInv, MgrMade
  <2>3. MgrMade'
    BY <1>0, <1>23, <2>1, <2>2
       DEF CallCreateMgr, AllocMgr, InitMgrLock, TInv, MgrMade, MgrNeeds,
           Making, Creating
  <2>4. MgrEmpty'
    BY <2>1 DEF TInv, MgrEmpty
  <2> QED
    BY <2>1, <2>3, <2>4, OtherTInv
<1>24. CASE AllocTable(u) \/ MgrFails(u)
  <2>1. /\ UNCHANGED <<threads, at>> /\ arg[u] = None /\ arg' = arg
        /\ Making(u) /\ pc'[u] = "caller"
        /\ \A v \in Users \ {u} : pc'[v] = pc[v]
        /\ mgr = "making"
    BY <1>0, <1>24 DEF AllocTable, MgrFails, AInv, ArgsSet, MgrPhase, Making
  <2>2. \A v \in Users \ {u} : ~Making(v) /\ ~Creating(v) /\ pc[v] # "mgrScan"
    BY <2>1 DEF AInv, MgrPhase, TInv, MgrMade
  <2>3. slot' = slot
    <3>1. \A i \in SlotIds : slot[i] = None
      BY <2>1 DEF TInv, MgrEmpty
    <3> QED
      BY <1>0, <1>24, <3>1 DEF AllocTable, MgrFails
  <2>4. MgrMade'
    BY <1>0, <1>24, <2>1, <2>2
       DEF AllocTable, MgrFails, TInv, MgrMade, MgrNeeds, Making, Creating
  <2>5. MgrEmpty'
    BY <2>1, <2>3 DEF TInv, MgrEmpty
  <2> QED
    BY <2>1, <2>3, <2>4, <2>5, OtherTInv DEF Making
<1> QED
  BY <1>1, <1>2, <1>3, <1>4, <1>5, <1>6, <1>7, <1>8, <1>9, <1>10, <1>11, <1>12,
     <1>13, <1>14, <1>15, <1>16, <1>17, <1>18, <1>19, <1>20, <1>21, <1>22,
     <1>23, <1>24 DEF Calls, Step

LEMMA NextTInv == AInv /\ TInv /\ [TurnsNext]_vars => TInv'
<1> SUFFICES ASSUME AInv, TInv, [TurnsNext]_vars PROVE TInv'
  OBVIOUS
<1>1. AInv'
  BY NextAInv DEF TurnsNext
<1>2. CASE UNCHANGED vars
  BY <1>2 DEF vars, TInv, TakeTurns, Creating, Listed, TableExact, Leaving,
              Phases, Runs, Refs, MgrEmpty, MgrMade, MgrNeeds
<1>3. ASSUME NEW u \in Users, Calls(u) \/ Step(u), TakeTurns'
      PROVE  TInv'
  BY <1>1, <1>3, StepTInv
<1>4. ASSUME NEW h \in Handles, End(h), TakeTurns'
      PROVE  TInv'
  <2>1. /\ UNCHANGED <<table, alive, shared, idx, tlock, refs, pc, arg, at>>
        /\ running' = running \ {h}
        /\ \A g \in Handles \ {h} : state'[g] = state[g]
    BY <1>4 DEF End, AInv, TypeOK
  <2>2. Runs'
    BY <2>1 DEF TInv, Runs, AInv, TypeOK
  <2> QED
    BY <1>4, <2>1, <2>2 DEF TInv, Listed, TableExact, Leaving, Phases, Refs,
                            MgrEmpty, MgrMade, MgrNeeds, Creating
<1> QED
  BY <1>2, <1>3, <1>4 DEF TurnsNext, Next

LEMMA AlwaysTInv == TurnsSpec => []TInv
<1>1. Init => AInv /\ TInv
  BY InitAInv, InitTInv
<1>2. (AInv /\ TInv) /\ [TurnsNext]_vars => (AInv /\ TInv)'
  BY NextAInv, NextTInv DEF TurnsNext
<1> QED
  BY <1>1, <1>2, PTL DEF TurnsSpec

\* The table lists the threads there are, for any capacity, and any number of
\* users that take turns.
THEOREM ThreadTableExact == TurnsSpec => []TableExact
<1>1. TInv => TableExact
  BY DEF TInv, Listed
<1> QED
  BY <1>1, AlwaysTInv, PTL

\* A thread is not freed while it runs.
THEOREM ThreadRunningAllocated == TurnsSpec => []RunningAllocated
<1>1. TInv => RunningAllocated
  BY DEF TInv, Listed, Runs, RunningAllocated
<1> QED
  BY <1>1, AlwaysTInv, PTL

\* On every path each thread that was returned has one reference to the
\* runnable, and the manager its blocks, for any users and capacity.
THEOREM ThreadBalanced == TurnsSpec => []Balanced
<1>1. TInv => Balanced
  BY DEF TInv, Refs, MgrMade, Balanced
<1> QED
  BY <1>1, AlwaysTInv, PTL

\* When the manager is freed no thread needs it, and no user is creating a
\* thread, about to empty a slot or scanning the table.
THEOREM ThreadMgrUnused == TurnsSpec => []MgrUnused
<1>1. ASSUME AInv, TInv, mgr = "freed"
      PROVE  /\ \A h \in shared : Leaving(h)
             /\ \A u \in Users :
                  ~Creating(u) /\ pc[u] \notin {"clear", "mgrScan"}
  <2>1. \A h \in shared : Leaving(h)
    <3> SUFFICES ASSUME NEW h \in shared, ~Leaving(h) PROVE FALSE
      OBVIOUS
    <3>1. h \in Handles /\ idx \in [Handles -> SlotIds] /\ h # None
      BY <1>1, NoneAssumption DEF AInv, TypeOK
    <3>2. slot[idx[h]] = h
      BY <1>1 DEF TInv, Listed, TableExact
    <3> QED
      BY <1>1, <3>1, <3>2 DEF TInv, MgrEmpty
  <2>2. \A u \in Users : pc[u] = "clear" => arg[u] \in shared /\ ~Leaving(arg[u])
    <3> SUFFICES ASSUME NEW u \in Users, pc[u] = "clear"
                 PROVE  arg[u] \in shared /\ ~Leaving(arg[u])
      OBVIOUS
    <3>1. arg[u] # None
      BY <1>1 DEF AInv, ArgsSet
    <3>2. arg[u] \in shared
      BY <1>1, <3>1 DEF TInv, Phases
    <3>3. ~Leaving(arg[u])
      BY <1>1, <3>1 DEF TInv, TakeTurns, Leaving
    <3> QED
      BY <3>2, <3>3
  <2> QED
    BY <1>1, <2>1, <2>2 DEF TInv, MgrMade
<1>2. AInv /\ TInv => MgrUnused
  BY <1>1 DEF MgrUnused
<1>3. TurnsSpec => Spec
  BY PTL DEF TurnsSpec, TurnsNext, Spec
<1> QED
  BY <1>2, <1>3, AlwaysAInv, AlwaysTInv, PTL
=============================================================================
