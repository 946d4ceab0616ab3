-------------------------- MODULE NvmProcessProofs -------------------------
(***************************************************************************)
(* Proofs about NvmProcess, for any threads, places, sizes and numbers     *)
(* that rand() returns: type correctness, no lost update of the total in   *)
(* any build, ids that are usable, and, if the first is drawn alone, ids   *)
(* from different places of one stream; every block with one owner, and a  *)
(* total that is exact but for what running calls have yet to tell it.     *)
(***************************************************************************)
EXTENDS NvmProcess, SequenceTheorems, FiniteSetTheorems, TLAPS

\* A thread in the middle of an update has the mutex, in a build with one.
MutexHeld ==
  \A t \in Threads :
    pc[t] \in {"load", "store"} => build.mutex /\ mutex = t

\* A thread that updates the total has a block, and while it reads and writes
\* the total, an update to make.
HasBlock ==
  \A t \in Threads :
    /\ pc[t] \in {"stat", "load", "store"} => call[t].at \in Places
    /\ pc[t] \in {"load", "store"} => todo[t] # <<>>

IInv == TypeOK /\ MutexHeld /\ HasBlock /\ NoLostUpdate

USE DEF memory, total, rand

\* What a place of a stream of rand() is.
LEMMA StreamType ==
  /\ \A s \in Seconds \cup {-1}, n \in Nat : [seed |-> s, next |-> n] \in Streams
  /\ \A p \in Streams : p.seed \in Seconds \cup {-1} /\ p.next \in Nat
BY DEF Streams

LEMMA InitIInv == Init => IInv
<1> SUFFICES ASSUME Init PROVE IInv
  OBVIOUS
<1>1. TypeOK
  <2>1. /\ \A t \in Threads : <<>> \in Seq(Int)
        /\ draws \in Seq([from : Streams, id : Ids])
    BY EmptySeq DEF Init
  <2>2. stream \in Streams
    BY StreamType DEF Init, Unseeded
  <2>3. call \in [Threads -> [kind : {"none", "alloc", "free", "log", "init",
                                     "drop"},
                             at : Places \cup {None}]]
    BY DEF Init, NoCall
  <2>4. /\ build \in Builds
        /\ now \in Seconds /\ size \in [Places -> Nat]
        /\ pc \in [Threads -> Labels] /\ reg \in [Threads -> Int]
        /\ todo \in [Threads -> Seq(Int)]
    BY <2>1 DEF Init, Labels
  <2>5. used \in Int
    BY DEF Init
  <2>6. seeded \in BOOLEAN
    BY Zenon DEF Init
  <2>7. /\ mutex \in Threads \cup {None} /\ handles \in Places \cup {None}
        /\ taken \subseteq Places /\ given \subseteq Places
    BY Zenon DEF Init
  <2> QED
    BY <2>1, <2>2, <2>3, <2>4, <2>5, <2>6, <2>7 DEF TypeOK
<1>2. MutexHeld /\ HasBlock /\ NoLostUpdate
  BY DEF Init, MutexHeld, HasBlock, NoLostUpdate
<1> QED
  BY <1>1, <1>2 DEF IInv

\* Sizes are numbers.
LEMMA SizeNat ==
  ASSUME TypeOK
  PROVE  /\ Prefix \in Nat
         /\ \A p \in Places : ZmallocSize(p) \in Nat
         /\ \A n \in Sizes : SizesOf(n) \subseteq Nat
BY SizesAssumption DEF TypeOK, Prefix, ZmallocSize, SizesOf

\* An id is usable, whatever rand() returns.
LEMMA IdRange == \A r \in Rands : ToId(r) \in Ids
BY RandAssumption DEF ToId, Ids

\* A step of the calls of zmalloc.
LEMMA ObtainIInv ==
  ASSUME IInv, NEW t \in Threads, NEW p \in Places, NEW n \in Sizes,
         NEW s \in SizesOf(n), NEW k \in {"alloc", "log", "init"},
         Obtain(t, k, p, s)
  PROVE  IInv'
<1>1. s \in Nat /\ s + Prefix \in Int
  BY SizeNat DEF IInv
<1>2. <<s + Prefix>> \in Seq(Int)
  BY <1>1
<1>3. TypeOK'
  BY <1>1, <1>2 DEF IInv, TypeOK, Obtain, Goto, Labels
<1> QED
  BY <1>3 DEF IInv, TypeOK, Obtain, Goto, MutexHeld, HasBlock, NoLostUpdate

\* Draw leaves the ids that were drawn alone and adds a usable one.
LEMMA DrawIds ==
  ASSUME IInv, NEW r \in Rands,
         draws' = Append(draws, [from |-> stream, id |-> ToId(r)])
  PROVE  draws' \in Seq([from : Streams, id : Ids])
<1> DEFINE new == [from |-> stream, id |-> ToId(r)]
<1>1. new \in [from : Streams, id : Ids]
  BY IdRange DEF IInv, TypeOK
<1>2. draws \in Seq([from : Streams, id : Ids])
  BY DEF IInv, TypeOK
<1> HIDE DEF new
<1> QED
  BY <1>1, <1>2, AppendProperties DEF new

LEMMA StepIInv ==
  ASSUME IInv, NEW t \in Threads, Call(t) \/ Step(t)
  PROVE  IInv'
<1> USE DEF IInv
<1>1. CASE Zmalloc(t)
  BY <1>1, ObtainIInv DEF Zmalloc
<1>2. CASE WriteLog(t)
  BY <1>2, ObtainIInv DEF WriteLog
<1>3. CASE Zrealloc(t)
  <2> DEFINE Moved(p, q, s) ==
          /\ size' = [size EXCEPT ![q] = s]
          /\ todo' = [todo EXCEPT ![t] = Resized(p, s)]
          /\ taken' = (taken \ {p}) \cup {q}
          /\ given' = given \ {p}
          /\ call' = [call EXCEPT ![t] = [kind |-> "alloc", at |-> q]]
  <2>0. PICK p \in given, n \in Sizes, q \in Places :
          \E s \in SizesOf(n) : Moved(p, q, s)
    BY <1>3 DEF Zrealloc
  <2>1. PICK s \in SizesOf(n) : Moved(p, q, s)
    BY <2>0
  <2>2. s \in Nat /\ p \in Places
    BY SizeNat DEF TypeOK
  <2>3. Resized(p, s) \in Seq(Int)
    BY <2>2 DEF TypeOK, Resized
  <2>4. TypeOK'
    BY <1>3, <2>1, <2>2, <2>3 DEF TypeOK, Zrealloc, Goto, Labels
  <2> QED
    BY <1>3, <2>1, <2>4 DEF Zrealloc, Goto, TypeOK, MutexHeld, HasBlock,
                            NoLostUpdate
<1>4. CASE Zfree(t)
  <2>1. PICK p \in given : given' = given \ {p} /\ Releasing(t, "free", p)
    BY <1>4 DEF Zfree
  <2>2. p \in Places /\ <<-ZmallocSize(p)>> \in Seq(Int)
    BY SizeNat DEF TypeOK
  <2>3. TypeOK'
    BY <1>4, <2>1, <2>2 DEF TypeOK, Zfree, Releasing, Goto, Labels
  <2> QED
    BY <1>4, <2>1, <2>2, <2>3 DEF Zfree, Releasing, Goto, TypeOK, MutexHeld,
                                  HasBlock, NoLostUpdate
<1>5. CASE RandInt(t)
  BY <1>5 DEF RandInt, Goto, TypeOK, Labels, MutexHeld, HasBlock, NoLostUpdate
<1>6. CASE ZmallocReturns(t) \/ InitReturns(t) \/ ZfreeReturns(t)
  <2>1. call[t].at \in Places /\ Returned(t)
    BY <1>6 DEF ZmallocReturns, InitReturns, ZfreeReturns, Returned, Goto,
                HasBlock
  <2>2. /\ given' \subseteq Places /\ taken' \subseteq Places
        /\ handles' \in Places \cup {None}
    BY <1>6, <2>1 DEF ZmallocReturns, InitReturns, ZfreeReturns, TypeOK
  <2>3. /\ call' \in [Threads -> [kind : {"none", "alloc", "free", "log",
                                          "init", "drop"},
                                  at : Places \cup {None}]]
        /\ pc' \in [Threads -> Labels]
    BY <2>1 DEF Returned, NoCall, Goto, TypeOK, Labels
  <2>4. TypeOK'
    BY <2>1, <2>2, <2>3 DEF Returned, TypeOK
  <2> QED
    BY <2>1, <2>4 DEF Returned, Goto, TypeOK, MutexHeld, HasBlock,
                      NoLostUpdate
<1>7. CASE LogWritten(t)
  <2>1. call[t].at \in Places /\ <<-ZmallocSize(call[t].at)>> \in Seq(Int)
    BY <1>7, SizeNat DEF LogWritten, HasBlock
  <2>2. TypeOK'
    BY <1>7, <2>1 DEF LogWritten, Releasing, TypeOK
  <2> QED
    BY <1>7, <2>1, <2>2 DEF LogWritten, Releasing, TypeOK, MutexHeld, HasBlock,
                            NoLostUpdate
<1>8. CASE Update(t)
  <2>1. Head(todo[t]) \in Int /\ Tail(todo[t]) \in Seq(Int)
    BY <1>8, HeadTailProperties DEF Update, TypeOK
  <2>2. TypeOK'
    BY <1>8, <2>1 DEF Update, TypeOK
  <2> QED
    BY <1>8, <2>2 DEF Update, TypeOK, MutexHeld, HasBlock, NoLostUpdate
<1>9. CASE Acquire(t)
  <2>1. TypeOK'
    BY <1>9 DEF Acquire, Goto, TypeOK, Labels
  <2> QED
    BY <1>9, <2>1, ThreadsAssumption DEF Acquire, Goto, TypeOK, MutexHeld,
                                         HasBlock, NoLostUpdate
<1>10. CASE Load(t)
  <2>1. TypeOK'
    BY <1>10 DEF Load, Goto, TypeOK, Labels
  <2> QED
    BY <1>10, <2>1 DEF Load, Goto, TypeOK, MutexHeld, HasBlock, NoLostUpdate
<1>11. CASE Store(t)
  <2>1. Head(todo[t]) \in Int /\ Tail(todo[t]) \in Seq(Int)
    BY <1>11, HeadTailProperties DEF Store, Goto, TypeOK, HasBlock
  <2>2. TypeOK'
    BY <1>11, <2>1 DEF Store, Goto, TypeOK, Labels
  <2> QED
    BY <1>11, <2>2, ThreadsAssumption DEF Store, Goto, TypeOK, MutexHeld,
                                          HasBlock, NoLostUpdate
<1>12. CASE Seed(t) \/ SetFlag(t)
  <2>1. /\ stream' = [seed |-> now, next |-> 0] \/ stream' = stream
        /\ seeded' \in BOOLEAN /\ UNCHANGED draws
    BY <1>12 DEF Seed, SetFlag, TypeOK
  <2>0. stream' \in Streams
    BY <2>1, StreamType DEF TypeOK
  <2>2. TypeOK'
    BY <1>12, <2>1, <2>0 DEF Seed, SetFlag, Goto, TypeOK, Labels
  <2> QED
    BY <1>12, <2>1, <2>2 DEF Seed, SetFlag, Goto, TypeOK, MutexHeld, HasBlock,
                             NoLostUpdate
<1>13. CASE Draw(t)
  <2>1. PICK r \in Rands :
          draws' = Append(draws, [from |-> stream, id |-> ToId(r)])
    BY <1>13 DEF Draw
  <2>2. draws' \in Seq([from : Streams, id : Ids])
    BY <2>1, DrawIds
  <2>3. stream' \in Streams
    <3>1. stream.next \in Nat
      BY StreamType DEF TypeOK
    <3>2. stream = [seed |-> stream.seed, next |-> stream.next]
      BY DEF TypeOK, Streams
    <3>3. stream' = [seed |-> stream.seed, next |-> stream.next + 1]
      BY <1>13, <3>2 DEF Draw
    <3>4. stream.seed \in Seconds \cup {-1} /\ stream.next + 1 \in Nat
      BY <3>1, StreamType DEF TypeOK
    <3> QED
      BY <3>1, <3>3, <3>4, StreamType
  <2>4. TypeOK'
    BY <1>13, <2>2, <2>3 DEF Draw, Goto, TypeOK, Labels
  <2> QED
    BY <1>13, <2>2, <2>4 DEF Draw, Goto, TypeOK, MutexHeld, HasBlock,
                             NoLostUpdate
<1> QED
  BY <1>1, <1>2, <1>3, <1>4, <1>5, <1>6, <1>7, <1>8, <1>9, <1>10, <1>11, <1>12,
     <1>13 DEF Call, Step

LEMMA NextIInv == IInv /\ [Next]_vars => IInv'
<1> SUFFICES ASSUME IInv, [Next]_vars PROVE IInv'
  OBVIOUS
<1>1. CASE InitStack
  BY <1>1, ObtainIInv, ThreadsAssumption DEF InitStack
<1>2. CASE FreeStack
  <2>1. handles \in Places /\ <<-ZmallocSize(handles)>> \in Seq(Int)
    BY <1>2, SizeNat DEF FreeStack, IInv, TypeOK
  <2>2. TypeOK'
    BY <1>2, <2>1 DEF FreeStack, Releasing, Goto, IInv, TypeOK, Labels
  <2> QED
    BY <1>2, <2>1, <2>2, ThreadsAssumption
       DEF FreeStack, Releasing, Goto, IInv, TypeOK, MutexHeld, HasBlock,
           NoLostUpdate
<1>3. CASE Tick
  BY <1>3 DEF Tick, IInv, TypeOK, MutexHeld, HasBlock, NoLostUpdate
<1>4. CASE \E t \in Threads : Call(t) \/ Step(t)
  BY <1>4, StepIInv
<1>5. CASE UNCHANGED vars
  BY <1>5 DEF vars, IInv, TypeOK, MutexHeld, HasBlock, NoLostUpdate
<1> QED
  BY <1>1, <1>2, <1>3, <1>4, <1>5 DEF Next

LEMMA AlwaysIInv == Spec => []IInv
BY InitIInv, NextIInv, PTL DEF Spec

-----------------------------------------------------------------------------
\* The shared state of the process keeps its type in every build.
THEOREM ProcessTypeOK == Spec => []TypeOK
<1>1. IInv => TypeOK
  BY DEF IInv
<1> QED
  BY <1>1, AlwaysIInv, PTL

\* No update of used_memory is lost, however many threads allocate and free.
THEOREM ProcessNoLostUpdate == Spec => []NoLostUpdate
<1>1. IInv => NoLostUpdate
  BY DEF IInv
<1> QED
  BY <1>1, AlwaysIInv, PTL

-----------------------------------------------------------------------------
(* If the generator is seeded alone, nobody draws before it is seeded, and *)
(* nobody seeds it after.                                                  *)

SeedInv ==
  /\ SeededAlone
  /\ \A t \in Threads : pc[t] \in {"seed", "flag"} => ~seeded
  /\ \A t \in Threads : pc[t] = "draw" => seeded
  /\ ~seeded => draws = <<>>
  /\ \A i \in DOMAIN draws : draws[i].from.next < stream.next

DInv == TypeOK /\ SeedInv /\ DrawsDiffer

LEMMA InitDInv == Init => DInv
BY InitIInv DEF IInv, Init, DInv, SeedInv, SeededAlone, DrawsDiffer

\* Neither the calls of zmalloc nor the clock do anything to the generator.
LEMMA OtherDInv ==
  ASSUME DInv, TypeOK', UNCHANGED <<seeded, stream, draws>>,
         \A t \in Threads :
           \/ pc'[t] = pc[t]
           \/ pc'[t] \notin {"seed", "flag", "draw"}
  PROVE  DInv'
BY DEF DInv, SeedInv, SeededAlone, DrawsDiffer

LEMMA NextDInv ==
  ASSUME IInv, DInv, [Next /\ SeededAlone']_vars
  PROVE  DInv'
<1>1. TypeOK'
  BY NextIInv DEF IInv
<1> USE DEF DInv
<1>2. CASE InitStack \/ FreeStack \/ Tick \/ UNCHANGED vars
  BY <1>1, <1>2, OtherDInv DEF InitStack, Obtain, FreeStack, Tick, vars, Goto,
                               TypeOK
<1>3. ASSUME NEW t \in Threads, Call(t) \/ Step(t), SeededAlone'
      PROVE  DInv'
  <2>1. CASE \/ Zmalloc(t) \/ Zrealloc(t) \/ Zfree(t) \/ WriteLog(t)
             \/ ZmallocReturns(t) \/ InitReturns(t) \/ ZfreeReturns(t)
             \/ LogWritten(t)
             \/ Update(t) \/ Acquire(t) \/ Load(t) \/ Store(t)
    <3>1. UNCHANGED <<seeded, stream, draws>>
      BY <2>1 DEF Zmalloc, Obtain, Zrealloc, Zfree, WriteLog, ZmallocReturns,
           InitReturns, ZfreeReturns, Returned, LogWritten, Update, Acquire,
           Load, Store
    <3>2. pc' = pc \/ \E l \in {"stat", "load", "store", "caller"} :
                        pc' = [pc EXCEPT ![t] = l]
      BY <2>1 DEF Zmalloc, Obtain, Zrealloc, Zfree, WriteLog, ZmallocReturns,
           InitReturns, ZfreeReturns, Returned, LogWritten, Update, Acquire,
           Load, Store, Goto
    <3> QED
      BY <1>1, <3>1, <3>2, OtherDInv DEF TypeOK
  <2>2. CASE RandInt(t)
    BY <1>1, <1>3, <2>2 DEF RandInt, Goto, TypeOK, SeedInv, DrawsDiffer
  <2>3. CASE Seed(t)
    BY <1>1, <1>3, <2>3 DEF Seed, Goto, TypeOK, SeedInv, DrawsDiffer
  <2>4. CASE SetFlag(t)
    <3>1. \A u \in Threads \ {t} : pc[u] \notin {"seed", "flag", "draw"}
      BY <2>4 DEF SetFlag, Goto, SeedInv, SeededAlone
    <3> QED
      BY <1>1, <1>3, <2>4, <3>1 DEF SetFlag, Goto, TypeOK, SeedInv, DrawsDiffer
  <2>5. CASE Draw(t)
    <3>1. PICK r \in Rands :
            draws' = Append(draws, [from |-> stream, id |-> ToId(r)])
      BY <2>5 DEF Draw
    <3> DEFINE new == [from |-> stream, id |-> ToId(r)]
    <3>2. stream.next \in Nat /\ new \in [from : Streams, id : Ids]
      BY IdRange DEF TypeOK, Streams
    <3>3. stream'.next = stream.next + 1
      BY <2>5 DEF Draw, TypeOK, Streams
    <3>4. new.from = stream
      OBVIOUS
    <3> HIDE DEF new
    <3>5. /\ DOMAIN draws' = 1 .. Len(draws) + 1
          /\ DOMAIN draws = 1 .. Len(draws)
          /\ Len(draws) \in Nat
          /\ \A i \in 1 .. Len(draws) : draws'[i] = draws[i]
          /\ draws'[Len(draws) + 1] = new
      BY <3>1, <3>2, AppendProperties DEF new, TypeOK
    <3>6. \A i \in DOMAIN draws : draws[i].from.next \in Nat
      <4>1. \A i \in DOMAIN draws : draws[i] \in [from : Streams, id : Ids]
        BY <3>5, ElementOfSeq DEF TypeOK
      <4> QED
        BY <4>1, StreamType
    <3>7. \A i \in DOMAIN draws' : draws'[i].from.next < stream'.next
      BY <3>2, <3>3, <3>4, <3>5, <3>6 DEF SeedInv
    <3>8. DrawsDiffer'
      BY <3>2, <3>4, <3>5, <3>6 DEF DrawsDiffer, SeedInv
    <3>9. seeded /\ UNCHANGED seeded /\ pc' = [pc EXCEPT ![t] = "caller"]
      BY <2>5 DEF Draw, Goto, SeedInv
    <3> QED
      BY <1>1, <1>3, <3>7, <3>8, <3>9 DEF SeedInv, TypeOK
  <2> QED
    BY <1>3, <2>1, <2>2, <2>3, <2>4, <2>5 DEF Call, Step
<1> QED
  BY <1>2, <1>3 DEF Next

\* Threads that draw their ids after the generator was seeded, and seed it
\* alone, never share a place of its stream.
THEOREM ProcessDrawsDiffer == SyncSpec => []DrawsDiffer
<1>1. Init => IInv /\ DInv
  BY InitIInv, InitDInv
<1>2. (IInv /\ DInv) /\ [Next /\ SeededAlone']_vars => (IInv /\ DInv)'
  BY NextIInv, NextDInv
<1>3. DInv => DrawsDiffer
  BY DEF DInv
<1> QED
  BY <1>1, <1>2, <1>3, PTL DEF SyncSpec

-----------------------------------------------------------------------------
(* Whose each block is, and how much of it the total has been told.        *)

\* A thread in a call of zmalloc is at one of its steps.
CallsRun ==
  \A t \in Threads : pc[t] \in {"stat", "load", "store"} <=> t \in Calling

\* A call has a block that no other call and no caller has.
CallsOwn ==
  /\ \A t \in Calling : call[t].at \in taken \ given
  /\ \A t, u \in Calling : call[t].at = call[u].at => t = u

\* The table of handles is got and dropped by one thread.
TableOwned ==
  /\ handles # None => handles \in taken \ given
  /\ \A t \in Calling :
       /\ call[t].kind = "drop" => t = Main
       /\ call[t].kind = "init" => t = Main /\ handles = None
       /\ call[t].kind = "drop" <=> call[t].at = handles

\* Every block is somebody's.
TakenOwned ==
  /\ given \subseteq taken
  /\ \A p \in taken :
       p \in given \/ p = handles \/ \E t \in Calling : call[t].at = p

\* What a call has yet to tell the total.
Told(t) ==
  /\ t \notin Calling => todo[t] = <<>>
  /\ t \in Calling =>
       LET n == size[call[t].at] IN
       IF call[t].kind \in {"free", "drop"}
         THEN todo[t] = <<>> \/ todo[t] = <<-(n + Prefix)>>
         ELSE \/ todo[t] = <<>> \/ todo[t] = <<n>> \/ todo[t] = <<n + Prefix>>
              \/ \E o \in Nat : todo[t] = <<-o, n>>

LeftKnown == \A t \in Threads : Told(t)

PInv == CallsRun /\ CallsOwn /\ TableOwned /\ TakenOwned /\ LeftKnown

LEMMA InitPInv == Init => PInv
<1> SUFFICES ASSUME Init PROVE PInv
  OBVIOUS
<1>1. Calling = {} /\ \A t \in Threads : pc[t] = "caller"
  BY DEF Init, Calling, NoCall
<1> QED
  BY <1>1 DEF Init, PInv, CallsRun, CallsOwn, TableOwned, TakenOwned, LeftKnown,
              Told

\* A call that another thread's step leaves alone is left where it was.
LEMMA ToldKept ==
  ASSUME NEW u \in Threads, Told(u), build' = build,
         call'[u] = call[u], todo'[u] = todo[u],
         u \in Calling => size'[call[u].at] = size[call[u].at]
  PROVE  Told(u)'
<1>1. Prefix' = Prefix /\ (u \in Calling' <=> u \in Calling)
  BY DEF Prefix, Calling
<1> QED
  BY <1>1 DEF Told

\* A block that is in nobody's hands goes to a call.
LEMMA ObtainPInv ==
  ASSUME IInv, PInv, NEW t \in Threads, NEW p \in Places, NEW n \in Sizes,
         NEW s \in SizesOf(n), NEW k \in {"alloc", "log", "init"},
         Obtain(t, k, p, s), k = "init" => t = Main /\ handles = None
  PROVE  PInv'
<1> USE ThreadsAssumption
<1>1. /\ pc[t] = "caller" /\ pc' = [pc EXCEPT ![t] = "stat"]
      /\ p \notin taken /\ taken' = taken \cup {p}
      /\ size' = [size EXCEPT ![p] = s]
      /\ call' = [call EXCEPT ![t] = [kind |-> k, at |-> p]]
      /\ todo' = [todo EXCEPT ![t] = <<s + Prefix>>]
      /\ given' = given /\ handles' = handles /\ build' = build
  BY DEF Obtain, Goto
<1>2. t \notin Calling /\ TypeOK
  BY <1>1 DEF PInv, CallsRun, IInv
<1>3. /\ call'[t].kind = k /\ call'[t].at = p
      /\ \A u \in Threads : u # t => call'[u] = call[u] /\ todo'[u] = todo[u]
  BY <1>1, <1>2 DEF TypeOK
<1>4. Calling' = Calling \cup {t} /\ Prefix' = Prefix
  BY <1>1, <1>3 DEF Calling, Prefix
<1> HIDE DEF Calling
<1>5. CallsRun'
  BY <1>1, <1>2, <1>4 DEF PInv, CallsRun, TypeOK
<1>6. CallsOwn'
  <2>1. \A u \in Calling : u \in Threads /\ u # t /\ call[u].at # p
    BY <1>1, <1>2 DEF PInv, CallsOwn, Calling
  <2>2. p \notin given
    BY <1>1 DEF PInv, TakenOwned
  <2> QED
    BY <1>1, <1>3, <1>4, <2>1, <2>2 DEF PInv, CallsOwn
<1>7. TableOwned'
  <2>1. \A u \in Calling : u \in Threads /\ u # t
    BY <1>2 DEF Calling
  <2>2. p # handles
    BY <1>1 DEF PInv, TableOwned
  <2> QED
    BY <1>1, <1>3, <1>4, <2>1, <2>2 DEF PInv, TableOwned
<1>8. TakenOwned'
  <2>1. \A u \in Calling : u \in Threads /\ u # t
    BY <1>2 DEF Calling
  <2> QED
    BY <1>1, <1>3, <1>4, <2>1 DEF PInv, TakenOwned
<1>9. LeftKnown'
  <2>1. Told(t)'
    BY <1>1, <1>2, <1>3, <1>4 DEF Told, TypeOK
  <2>2. ASSUME NEW u \in Threads, u # t PROVE Told(u)'
    <3>1. u \in Calling => size'[call[u].at] = size[call[u].at]
      BY <1>1, <1>2 DEF TypeOK, PInv, CallsOwn
    <3> QED
      BY <1>1, <1>3, <2>2, <3>1, ToldKept DEF PInv, LeftKnown
  <2> QED
    BY <2>1, <2>2 DEF LeftKnown
<1> QED
  BY <1>5, <1>6, <1>7, <1>8, <1>9 DEF PInv

\* A block moves, from a caller to the call that resizes it.
LEMMA ResizePInv ==
  ASSUME IInv, PInv, NEW t \in Threads, NEW p \in given, NEW q \in Places,
         NEW n \in Nat, q \notin taken \ {p}, Goto(t, "caller", "stat"),
         size' = [size EXCEPT ![q] = n],
         todo' = [todo EXCEPT ![t] = Resized(p, n)],
         taken' = (taken \ {p}) \cup {q}, given' = given \ {p},
         call' = [call EXCEPT ![t] = [kind |-> "alloc", at |-> q]],
         UNCHANGED <<build, handles>>
  PROVE  PInv'
<1> USE ThreadsAssumption
<1>2. t \notin Calling /\ TypeOK /\ p \in Places /\ size[p] \in Nat
  BY DEF PInv, CallsRun, IInv, Goto, TypeOK
<1>3. /\ call'[t].kind = "alloc" /\ call'[t].at = q
      /\ \A u \in Threads : u # t => call'[u] = call[u] /\ todo'[u] = todo[u]
  BY <1>2 DEF TypeOK
<1>4. Calling' = Calling \cup {t} /\ Prefix' = Prefix
  BY <1>3 DEF Calling, Prefix
<1>5. CallsRun'
  BY <1>2, <1>4 DEF PInv, CallsRun, TypeOK, Goto
<1>6. \A u \in Calling : /\ u \in Threads /\ u # t
                         /\ call[u].at # p /\ call[u].at # q
  BY <1>2 DEF PInv, CallsOwn, Calling, TakenOwned
<1>7. p # handles /\ p \in taken /\ q \notin given \ {p} /\ q # handles
  BY <1>2 DEF PInv, TableOwned, TakenOwned
<1> HIDE DEF Calling
<1>8. CallsOwn'
  BY <1>3, <1>4, <1>6, <1>7 DEF PInv, CallsOwn
<1>9. TableOwned'
  BY <1>3, <1>4, <1>6, <1>7 DEF PInv, TableOwned
<1>10. TakenOwned'
  BY <1>3, <1>4, <1>6, <1>7 DEF PInv, TakenOwned
<1>11. LeftKnown'
  <2>1. Told(t)'
    <3>1. todo'[t] = <<-size[p], n>> /\ size'[q] = n
      BY <1>2 DEF TypeOK, Resized
    <3> QED
      BY <1>2, <1>3, <1>4, <3>1 DEF Told
  <2>2. ASSUME NEW u \in Threads, u # t PROVE Told(u)'
    <3>1. u \in Calling => size'[call[u].at] = size[call[u].at]
      BY <1>2, <1>6 DEF TypeOK
    <3> QED
      BY <1>3, <2>2, <3>1, ToldKept DEF PInv, LeftKnown
  <2> QED
    BY <2>1, <2>2 DEF LeftKnown
<1> QED
  BY <1>5, <1>8, <1>9, <1>10, <1>11 DEF PInv

\* A caller's block goes to the call that frees it.
LEMMA ZfreePInv ==
  ASSUME IInv, PInv, NEW t \in Threads, Zfree(t)
  PROVE  PInv'
<1> USE ThreadsAssumption
<1>1. PICK p \in given : given' = given \ {p} /\ Releasing(t, "free", p)
  BY DEF Zfree
<1>2. /\ pc[t] = "caller" /\ pc' = [pc EXCEPT ![t] = "stat"]
      /\ call' = [call EXCEPT ![t] = [kind |-> "free", at |-> p]]
      /\ todo' = [todo EXCEPT ![t] = <<-(size[p] + Prefix)>>]
      /\ UNCHANGED <<build, taken, size, handles>>
  BY <1>1 DEF Zfree, Goto, Releasing, ZmallocSize
<1>3. t \notin Calling /\ TypeOK /\ p \in Places
  BY <1>2 DEF PInv, CallsRun, IInv, TypeOK
<1>4. /\ call'[t].kind = "free" /\ call'[t].at = p
      /\ \A u \in Threads : u # t => call'[u] = call[u] /\ todo'[u] = todo[u]
  BY <1>2, <1>3 DEF TypeOK
<1>5. Calling' = Calling \cup {t} /\ Prefix' = Prefix
  BY <1>2, <1>4 DEF Calling, Prefix
<1>6. CallsRun'
  BY <1>2, <1>3, <1>5 DEF PInv, CallsRun, TypeOK
<1>7. \A u \in Calling : u \in Threads /\ u # t /\ call[u].at # p
  BY <1>3 DEF PInv, CallsOwn, Calling
<1>8. p # handles /\ p \in taken
  BY <1>3 DEF PInv, TableOwned, TakenOwned
<1> HIDE DEF Calling
<1>9. CallsOwn'
  BY <1>1, <1>2, <1>4, <1>5, <1>7, <1>8 DEF PInv, CallsOwn
<1>10. TableOwned'
  BY <1>1, <1>2, <1>4, <1>5, <1>7, <1>8 DEF PInv, TableOwned
<1>11. TakenOwned'
  BY <1>1, <1>2, <1>4, <1>5, <1>7, <1>8 DEF PInv, TakenOwned
<1>12. LeftKnown'
  <2>1. Told(t)'
    BY <1>2, <1>3, <1>4, <1>5 DEF Told, TypeOK
  <2>2. ASSUME NEW u \in Threads, u # t PROVE Told(u)'
    BY <1>2, <1>4, <2>2, ToldKept DEF PInv, LeftKnown
  <2> QED
    BY <2>1, <2>2 DEF LeftKnown
<1> QED
  BY <1>6, <1>9, <1>10, <1>11, <1>12 DEF PInv

\* The table's block is freed by a call of the thread that got it.
LEMMA FreeStackPInv ==
  ASSUME IInv, PInv, FreeStack
  PROVE  PInv'
<1> USE ThreadsAssumption
<1> DEFINE p == handles
<1>2. /\ pc[Main] = "caller" /\ pc' = [pc EXCEPT ![Main] = "stat"]
      /\ call' = [call EXCEPT ![Main] = [kind |-> "drop", at |-> p]]
      /\ todo' = [todo EXCEPT ![Main] = <<-(size[p] + Prefix)>>]
      /\ UNCHANGED <<build, taken, size, given, handles>> /\ p # None
  BY DEF FreeStack, Goto, Releasing, ZmallocSize
<1>3. Main \notin Calling /\ TypeOK /\ p \in Places /\ p \in taken \ given
  BY <1>2 DEF PInv, CallsRun, IInv, TypeOK, TableOwned
<1>4. /\ call'[Main].kind = "drop" /\ call'[Main].at = p
      /\ \A u \in Threads : u # Main => call'[u] = call[u] /\ todo'[u] = todo[u]
  BY <1>2, <1>3 DEF TypeOK
<1>5. Calling' = Calling \cup {Main} /\ Prefix' = Prefix
  BY <1>2, <1>4 DEF Calling, Prefix
<1>6. CallsRun'
  BY <1>2, <1>3, <1>5 DEF PInv, CallsRun, TypeOK
<1>7. \A u \in Calling : /\ u \in Threads /\ u # Main /\ call[u].at # p
                         /\ call[u].kind # "drop"
  BY <1>3 DEF PInv, TableOwned, Calling
<1> HIDE DEF Calling
<1>9. CallsOwn'
  BY <1>2, <1>3, <1>4, <1>5, <1>7 DEF PInv, CallsOwn
<1>10. TableOwned'
  BY <1>2, <1>3, <1>4, <1>5, <1>7 DEF PInv, TableOwned
<1>11. TakenOwned'
  BY <1>2, <1>4, <1>5, <1>7 DEF PInv, TakenOwned
<1>12. LeftKnown'
  <2>1. Told(Main)'
    BY <1>2, <1>3, <1>4, <1>5 DEF Told, TypeOK
  <2>2. ASSUME NEW u \in Threads, u # Main PROVE Told(u)'
    BY <1>2, <1>4, <2>2, ToldKept DEF PInv, LeftKnown
  <2> QED
    BY <2>1, <2>2 DEF LeftKnown
<1> QED
  BY <1>6, <1>9, <1>10, <1>11, <1>12 DEF PInv

\* The call that logged a line frees the line's block.
LEMMA LogPInv ==
  ASSUME IInv, PInv, NEW t \in Threads, LogWritten(t)
  PROVE  PInv'
<1> USE ThreadsAssumption
<1> DEFINE p == call[t].at
<1>2. /\ call[t].kind = "log" /\ pc' = pc
      /\ call' = [call EXCEPT ![t] = [kind |-> "free", at |-> p]]
      /\ todo' = [todo EXCEPT ![t] = <<-(size[p] + Prefix)>>]
      /\ UNCHANGED <<build, taken, size, given, handles>>
  BY DEF LogWritten, Releasing, ZmallocSize
<1>3. t \in Calling /\ TypeOK
  BY <1>2 DEF Calling, IInv
<1>4. /\ call'[t].kind = "free" /\ call'[t].at = p
      /\ \A u \in Threads : u # t => call'[u] = call[u] /\ todo'[u] = todo[u]
  BY <1>2, <1>3 DEF TypeOK
<1>5. Calling' = Calling /\ Prefix' = Prefix
  BY <1>2, <1>3, <1>4 DEF Calling, Prefix
<1>6. CallsRun'
  BY <1>2, <1>5 DEF PInv, CallsRun
<1>7. \A u \in Calling : u \in Threads /\ call'[u].at = call[u].at
  BY <1>4 DEF Calling
<1> HIDE DEF Calling
<1>9. CallsOwn'
  BY <1>2, <1>5, <1>7 DEF PInv, CallsOwn
<1>10. TableOwned'
  BY <1>2, <1>3, <1>4, <1>5, <1>7 DEF PInv, TableOwned
<1>11. TakenOwned'
  BY <1>2, <1>5, <1>7 DEF PInv, TakenOwned
<1>12. LeftKnown'
  <2>1. Told(t)'
    BY <1>2, <1>3, <1>4, <1>5 DEF Told, TypeOK
  <2>2. ASSUME NEW u \in Threads, u # t PROVE Told(u)'
    BY <1>2, <1>4, <2>2, ToldKept DEF PInv, LeftKnown
  <2> QED
    BY <2>1, <2>2 DEF LeftKnown
<1> QED
  BY <1>6, <1>9, <1>10, <1>11, <1>12 DEF PInv

\* A call gives its block to whom it got it for, or to malloc.
LEMMA ReturnPInv ==
  ASSUME IInv, PInv, NEW t \in Threads,
         ZmallocReturns(t) \/ InitReturns(t) \/ ZfreeReturns(t)
  PROVE  PInv'
<1> USE ThreadsAssumption
<1> DEFINE p == call[t].at
<1>2. /\ pc[t] = "stat" /\ pc' = [pc EXCEPT ![t] = "caller"]
      /\ todo[t] = <<>> /\ todo' = todo
      /\ call' = [call EXCEPT ![t] = NoCall]
      /\ UNCHANGED <<build, size>>
  BY DEF ZmallocReturns, InitReturns, ZfreeReturns, Returned, Goto
<1>3. /\ t \in Calling /\ TypeOK /\ p \in Places /\ p \in taken \ given
      /\ p # None
  BY <1>2 DEF PInv, CallsRun, IInv, HasBlock, CallsOwn
<1>4. /\ call'[t].kind = "none"
      /\ \A u \in Threads : u # t => call'[u] = call[u] /\ todo'[u] = todo[u]
  BY <1>2, <1>3 DEF TypeOK, NoCall
<1>5. Calling' = Calling \ {t}
  BY <1>4 DEF Calling
<1>6. CallsRun'
  BY <1>2, <1>3, <1>5 DEF PInv, CallsRun, TypeOK
<1>7. \A u \in Calling \ {t} :
        u \in Threads /\ call[u].at # p /\ call'[u] = call[u]
  BY <1>3, <1>4 DEF Calling, PInv, CallsOwn
<1>8. LeftKnown'
  <2>1. Told(t)'
    BY <1>2, <1>5 DEF Told
  <2>2. ASSUME NEW u \in Threads, u # t PROVE Told(u)'
    BY <1>2, <1>4, <2>2, ToldKept DEF PInv, LeftKnown
  <2> QED
    BY <2>1, <2>2 DEF LeftKnown
<1> HIDE DEF Calling, p
<1>9. CASE ZmallocReturns(t)
  <2>1. /\ given' = given \cup {p} /\ UNCHANGED <<taken, handles>>
        /\ p # handles
    BY <1>3, <1>9 DEF ZmallocReturns, PInv, TableOwned, p
  <2>2. CallsOwn'
    BY <1>5, <1>7, <2>1 DEF PInv, CallsOwn
  <2>3. TableOwned'
    BY <1>5, <1>7, <2>1 DEF PInv, TableOwned
  <2>4. TakenOwned'
    BY <1>3, <1>5, <1>7, <2>1 DEF PInv, TakenOwned, p
  <2> QED
    BY <1>6, <1>8, <2>2, <2>3, <2>4 DEF PInv
<1>10. CASE InitReturns(t)
  <2>1. /\ handles' = p /\ UNCHANGED <<taken, given>>
        /\ handles = None /\ t = Main
    BY <1>3, <1>10 DEF InitReturns, PInv, TableOwned, p
  <2>2. CallsOwn'
    BY <1>5, <1>7, <2>1 DEF PInv, CallsOwn
  <2>3. TableOwned'
    <3>1. \A u \in Calling \ {t} : call[u].at # None
      BY <1>3, <2>1 DEF PInv, CallsOwn, TypeOK
    <3> QED
      BY <1>3, <1>5, <1>7, <2>1, <3>1 DEF PInv, TableOwned
  <2>4. TakenOwned'
    <3>1. None \notin taken
      BY <1>3 DEF TypeOK
    <3> QED
      BY <1>3, <1>5, <1>7, <2>1, <3>1 DEF PInv, TakenOwned, p
  <2> QED
    BY <1>6, <1>8, <2>2, <2>3, <2>4 DEF PInv
<1>11. CASE ZfreeReturns(t)
  <2>1. /\ taken' = taken \ {p} /\ given' = given
        /\ handles' = IF handles = p THEN None ELSE handles
    BY <1>3, <1>11 DEF ZfreeReturns, PInv, TableOwned, p
  <2>2. CallsOwn'
    BY <1>5, <1>7, <2>1 DEF PInv, CallsOwn
  <2>3. TableOwned'
    <3>1. \A u \in Calling \ {t} : call[u].at # None
      BY <1>3 DEF PInv, CallsOwn, TypeOK
    <3>2. handles = p => t = Main
      BY <1>3 DEF PInv, TableOwned, p
    <3> QED
      BY <1>3, <1>5, <1>7, <2>1, <3>1, <3>2 DEF PInv, TableOwned
  <2>4. TakenOwned'
    BY <1>3, <1>5, <1>7, <2>1 DEF PInv, TakenOwned, p
  <2> QED
    BY <1>6, <1>8, <2>2, <2>3, <2>4 DEF PInv
<1> QED
  BY <1>9, <1>10, <1>11

\* An update is one update less to make.
LEMMA ToldPInv ==
  ASSUME IInv, PInv, NEW t \in Threads, Update(t) \/ Store(t)
  PROVE  PInv'
<1>1. /\ pc[t] \in {"stat", "store"} /\ todo[t] # <<>>
      /\ todo' = [todo EXCEPT ![t] = Tail(@)]
      /\ UNCHANGED <<build, taken, size, given, handles, call>>
  BY DEF Update, Store, Goto, IInv, HasBlock
<1>2. pc' = pc \/ pc' = [pc EXCEPT ![t] = "stat"]
  BY DEF Update, Store, Goto
<1>3. t \in Calling /\ Calling' = Calling /\ Prefix' = Prefix /\ TypeOK
  BY <1>1 DEF PInv, CallsRun, Calling, Prefix, IInv
<1>4. CallsRun'
  BY <1>1, <1>2, <1>3 DEF PInv, CallsRun, TypeOK
<1>5. CallsOwn' /\ TableOwned' /\ TakenOwned'
  BY <1>1, <1>3 DEF PInv, CallsOwn, TableOwned, TakenOwned
<1>6. LeftKnown'
  <2>1. Told(t)'
    <3>1. todo'[t] = Tail(todo[t])
      BY <1>1, <1>3 DEF TypeOK
    <3>2. \A o : Tail(<<o>>) = <<>>
      OBVIOUS
    <3>3. \A o, n : Tail(<<o, n>>) = <<n>>
      OBVIOUS
    <3> DEFINE n == size[call[t].at]
    <3>4. CASE call[t].kind \in {"free", "drop"}
      <4>1. todo[t] = <<-(n + Prefix)>>
        BY <1>1, <1>3, <3>4 DEF Told, PInv, LeftKnown
      <4>2. todo'[t] = <<>>
        BY <3>1, <3>2, <4>1
      <4> QED
        BY <1>1, <1>3, <3>4, <4>2 DEF Told
    <3>5. CASE call[t].kind \notin {"free", "drop"}
      <4>1. \/ todo[t] = <<n>> \/ todo[t] = <<n + Prefix>>
            \/ \E o \in Nat : todo[t] = <<-o, n>>
        BY <1>1, <1>3, <3>5 DEF Told, PInv, LeftKnown
      <4>2. todo'[t] = <<>> \/ todo'[t] = <<n>>
        BY <3>1, <3>2, <3>3, <4>1
      <4> QED
        BY <1>1, <1>3, <3>5, <4>2 DEF Told
    <3> QED
      BY <3>4, <3>5
  <2>2. ASSUME NEW u \in Threads, u # t PROVE Told(u)'
    <3>1. todo'[u] = todo[u] /\ call'[u] = call[u]
      BY <1>1, <1>3, <2>2 DEF TypeOK
    <3> QED
      BY <1>1, <3>1, ToldKept DEF PInv, LeftKnown
  <2> QED
    BY <2>1, <2>2 DEF LeftKnown
<1> QED
  BY <1>4, <1>5, <1>6 DEF PInv

\* The other steps touch no block.
LEMMA OtherPInv ==
  ASSUME IInv, PInv, UNCHANGED <<build, memory, call, todo>>,
         \A t \in Threads :
           pc'[t] \in {"stat", "load", "store"} <=>
             pc[t] \in {"stat", "load", "store"}
  PROVE  PInv'
<1>1. Calling' = Calling /\ Prefix' = Prefix
  BY DEF Calling, Prefix
<1>2. CallsRun' /\ CallsOwn' /\ TableOwned' /\ TakenOwned'
  BY <1>1 DEF PInv, CallsRun, CallsOwn, TableOwned, TakenOwned
<1>3. LeftKnown'
  BY ToldKept DEF PInv, LeftKnown
<1> QED
  BY <1>2, <1>3 DEF PInv

LEMMA NextPInv ==
  ASSUME IInv, PInv, [Next]_vars
  PROVE  PInv'
<1>0. TypeOK
  BY DEF IInv
<1>1. CASE InitStack
  BY <1>1, ObtainPInv, ThreadsAssumption DEF InitStack
<1>2. CASE FreeStack
  BY <1>2, FreeStackPInv
<1>3. CASE Tick \/ UNCHANGED vars
  BY <1>3, OtherPInv DEF Tick, vars
<1>4. ASSUME NEW t \in Threads, Call(t) \/ Step(t)
      PROVE  PInv'
  <2>1. CASE Zmalloc(t)
    BY <2>1, ObtainPInv DEF Zmalloc
  <2>2. CASE WriteLog(t)
    BY <2>2, ObtainPInv DEF WriteLog
  <2>3. CASE Zrealloc(t)
    <3>1. PICK p \in given, n \in Sizes, q \in Places :
            /\ q \notin taken \ {p}
            /\ \E s \in SizesOf(n) :
                 /\ size' = [size EXCEPT ![q] = s]
                 /\ todo' = [todo EXCEPT ![t] = Resized(p, s)]
            /\ taken' = (taken \ {p}) \cup {q}
            /\ given' = given \ {p}
            /\ call' = [call EXCEPT ![t] = [kind |-> "alloc", at |-> q]]
      BY <2>3 DEF Zrealloc
    <3>2. PICK s \in SizesOf(n) :
                 /\ size' = [size EXCEPT ![q] = s]
                 /\ todo' = [todo EXCEPT ![t] = Resized(p, s)]
      BY <3>1
    <3>3. s \in Nat
      BY <1>0, SizeNat
    <3> QED
      BY <2>3, <3>1, <3>2, <3>3, ResizePInv DEF Zrealloc
  <2>4. CASE Zfree(t)
    BY <2>4, ZfreePInv
  <2>5. CASE ZmallocReturns(t) \/ InitReturns(t) \/ ZfreeReturns(t)
    BY <2>5, ReturnPInv
  <2>6. CASE LogWritten(t)
    BY <2>6, LogPInv
  <2>7. CASE Update(t) \/ Store(t)
    BY <2>7, ToldPInv
  <2>8. CASE \/ RandInt(t) \/ Acquire(t) \/ Load(t) \/ Seed(t) \/ SetFlag(t)
             \/ Draw(t)
    <3>1. UNCHANGED <<build, memory, call, todo>>
      BY <2>8 DEF RandInt, Acquire, Load, Seed, SetFlag, Draw
    <3>2. \E l, m \in Labels :
            /\ pc[t] = l /\ pc' = [pc EXCEPT ![t] = m]
            /\ m \in {"stat", "load", "store"} <=> l \in {"stat", "load", "store"}
      BY <2>8 DEF RandInt, Acquire, Load, Seed, SetFlag, Draw, Goto, Labels
    <3> QED
      BY <1>0, <3>1, <3>2, OtherPInv DEF TypeOK
  <2> QED
    BY <1>4, <2>1, <2>2, <2>3, <2>4, <2>5, <2>6, <2>7, <2>8 DEF Call, Step
<1> QED
  BY <1>1, <1>2, <1>3, <1>4 DEF Next

LEMMA AlwaysPInv == Spec => [](IInv /\ PInv)
<1>1. Init => IInv /\ PInv
  BY InitIInv, InitPInv
<1>2. (IInv /\ PInv) /\ [Next]_vars => (IInv /\ PInv)'
  BY NextIInv, NextPInv
<1> QED
  BY <1>1, <1>2, PTL DEF Spec

\* Every block of the process has one owner at any time: blocks are never
\* leaked, by a log line or by the table, nor had by two.
THEOREM ProcessBlocksOwned == Spec => []BlocksOwned
<1>1. IInv /\ PInv => BlocksOwned
  <2> SUFFICES ASSUME IInv, PInv PROVE BlocksOwned
    OBVIOUS
  <2> DEFINE In == {t \in Threads :
                      call[t].kind \in {"alloc", "free", "log", "init"}}
  <2>1. \A t \in In : t \in Calling /\ call[t].kind # "drop"
    BY DEF Calling
  <2>2. \A t \in Calling : t \in In \/ call[t].kind = "drop"
    BY DEF Calling, IInv, TypeOK
  <2>3. None \notin taken
    BY ThreadsAssumption DEF IInv, TypeOK
  <2>4. taken = given \cup {call[t].at : t \in In} \cup ({handles} \ {None})
    BY <2>1, <2>2, <2>3 DEF PInv, CallsOwn, TableOwned, TakenOwned
  <2>5. \A t \in In : call[t].at \notin given /\ call[t].at # handles
    BY <2>1 DEF PInv, CallsOwn, TableOwned
  <2>6. handles \notin given
    BY <2>3 DEF PInv, TableOwned, TakenOwned
  <2>7. \A t, u \in In : t # u => call[t].at # call[u].at
    BY <2>1 DEF PInv, CallsOwn
  <2> HIDE DEF In
  <2> QED
    BY <2>4, <2>5, <2>6, <2>7 DEF BlocksOwned, In
<1> QED
  BY <1>1, AlwaysPInv, PTL

-----------------------------------------------------------------------------
(* How many bytes of each block the total has.                             *)

Counted(A) == UNION {{p} \X (1 .. A[p]) : p \in Places}

\* A[p] bytes of the block at p are what the total should have of it.
Counts(A) ==
  /\ \A p \in Places : p \notin taken => A[p] = 0
  /\ \A p \in taken : (\A t \in Calling : call[t].at # p) =>
                        A[p] = ZmallocSize(p)
  /\ \A t \in Calling : A[call[t].at] = Part(t)

CInv ==
  \E A \in [Places -> Nat] :
    /\ Counts(A)
    /\ IsFiniteSet(Counted(A)) /\ used = Cardinality(Counted(A))

\* The bytes of n at p.
LEMMA BlockCard ==
  ASSUME NEW p, NEW n \in Nat
  PROVE  /\ IsFiniteSet({p} \X (1 .. n))
         /\ Cardinality({p} \X (1 .. n)) = n
<1>1. IsFiniteSet({p}) /\ Cardinality({p}) = 1
  BY FS_Singleton
<1>2. IsFiniteSet(1 .. n) /\ Cardinality(1 .. n) = n
  <2>1. Cardinality(1 .. n) = IF 1 > n THEN 0 ELSE n - 1 + 1
    BY FS_Interval
  <2> QED
    BY <2>1, FS_Interval
<1>3. /\ IsFiniteSet({p} \X (1 .. n))
      /\ Cardinality({p} \X (1 .. n)) = Cardinality({p}) * Cardinality(1 .. n)
  BY <1>1, <1>2, FS_Product
<1> QED
  BY <1>1, <1>2, <1>3

\* When the count of one place changes, so does the number of bytes.
LEMMA CountOne ==
  ASSUME NEW A \in [Places -> Nat], IsFiniteSet(Counted(A)),
         NEW p \in Places, NEW n \in Nat
  PROVE  /\ IsFiniteSet(Counted([A EXCEPT ![p] = n]))
         /\ Cardinality(Counted([A EXCEPT ![p] = n]))
              = Cardinality(Counted(A)) - A[p] + n
<1> DEFINE B == [A EXCEPT ![p] = n]
           R == UNION {{q} \X (1 .. A[q]) : q \in Places \ {p}}
           X(m) == {p} \X (1 .. m)
<1>1. Counted(A) = R \cup X(A[p])
  BY DEF Counted
<1>2. B[p] = n /\ \A q \in Places \ {p} : B[q] = A[q]
  OBVIOUS
<1>3. Counted(B) = R \cup X(n)
  <2> HIDE DEF B
  <2>1. Counted(B) = (UNION {{q} \X (1 .. B[q]) : q \in Places \ {p}})
                       \cup X(B[p])
    BY DEF Counted
  <2>2. R = UNION {{q} \X (1 .. B[q]) : q \in Places \ {p}}
    BY <1>2
  <2> QED
    BY <1>2, <2>1, <2>2
<1>4. \A m \in Nat : R \cap X(m) = {}
  OBVIOUS
<1>5. \A m \in Nat : IsFiniteSet(X(m)) /\ Cardinality(X(m)) = m
  BY BlockCard
<1>6. A[p] \in Nat
  OBVIOUS
<1> HIDE DEF B, R, X
<1>7. IsFiniteSet(R)
  BY <1>1, FS_Subset
<1>8. \A m \in Nat : /\ IsFiniteSet(R \cup X(m))
                     /\ Cardinality(R \cup X(m)) = Cardinality(R) + m
  <2> SUFFICES ASSUME NEW m \in Nat
               PROVE  /\ IsFiniteSet(R \cup X(m))
                      /\ Cardinality(R \cup X(m)) = Cardinality(R) + m
    OBVIOUS
  <2>1. /\ IsFiniteSet(R \cup X(m))
        /\ Cardinality(R \cup X(m))
             = Cardinality(R) + Cardinality(X(m)) - Cardinality(R \cap X(m))
    BY <1>5, <1>7, FS_Union
  <2>2. Cardinality(R) \in Nat
    BY <1>7, FS_CardinalityType
  <2>3. R \cap X(m) = {} /\ Cardinality(X(m)) = m
    BY <1>4, <1>5
  <2>4. Cardinality(R \cap X(m)) = 0
    BY <2>3, FS_EmptySet
  <2> QED
    BY <2>1, <2>2, <2>3, <2>4
<1>9. Cardinality(R) \in Nat
  BY <1>7, FS_CardinalityType
<1> QED
  <2>1. Cardinality(Counted(A)) = Cardinality(R) + A[p]
    BY <1>1, <1>6, <1>8
  <2>2. IsFiniteSet(Counted(B)) /\ Cardinality(Counted(B)) = Cardinality(R) + n
    BY <1>3, <1>8
  <2>3. Cardinality(Counted(B)) = Cardinality(Counted(A)) - A[p] + n
    BY <1>6, <1>9, <2>1, <2>2
  <2> QED
    BY <2>2, <2>3 DEF B

\* The updates that a call has yet to make, once they are known.
LEMMA LeftIs ==
  ASSUME NEW t
  PROVE  /\ todo[t] = <<>> => Left(t) = 0
         /\ \A x : todo[t] = <<x>> => Left(t) = x
         /\ \A x, y : todo[t] = <<x, y>> => Left(t) = x + y
<1>1. \A x : <<x>> # <<>> /\ Len(<<x>>) = 1 /\ <<x>>[1] = x
  OBVIOUS
<1>2. \A x, y : /\ <<x, y>> # <<>> /\ Len(<<x, y>>) = 2
                /\ <<x, y>>[1] = x /\ <<x, y>>[2] = y
  OBVIOUS
<1>3. todo[t] = <<>> => Left(t) = 0
  BY DEF Left
<1>4. ASSUME NEW x, todo[t] = <<x>> PROVE Left(t) = x
  BY <1>1, <1>4 DEF Left
<1>5. ASSUME NEW x, NEW y, todo[t] = <<x, y>> PROVE Left(t) = x + y
  BY <1>2, <1>5 DEF Left
<1> QED
  BY <1>3, <1>4, <1>5

\* What the total has of a call's block is a part of it.
LEMMA PartNat ==
  ASSUME TypeOK, PInv, NEW t \in Calling
  PROVE  Part(t) \in Nat
<1> DEFINE n == size[call[t].at]
<1>1. n \in Nat /\ Prefix \in Nat /\ ZmallocSize(call[t].at) = n + Prefix
      /\ t \in Threads
  BY SizeNat DEF PInv, CallsOwn, TypeOK, ZmallocSize, Calling
<1>2. CASE call[t].kind \in {"free", "drop"}
  <2>1. todo[t] = <<>> \/ todo[t] = <<-(n + Prefix)>>
    BY <1>1, <1>2 DEF PInv, LeftKnown, Told
  <2>2. Left(t) = 0 \/ Left(t) = -(n + Prefix)
    BY <2>1, LeftIs
  <2> QED
    BY <1>1, <1>2, <2>2 DEF Part
<1>3. CASE call[t].kind \notin {"free", "drop"}
  <2>1. \/ todo[t] = <<>> \/ todo[t] = <<n>> \/ todo[t] = <<n + Prefix>>
        \/ \E o \in Nat : todo[t] = <<-o, n>>
    BY <1>1, <1>3 DEF PInv, LeftKnown, Told
  <2>2. \/ Left(t) = 0 \/ Left(t) = n \/ Left(t) = n + Prefix
        \/ \E o \in Nat : Left(t) = -o + n
    BY <2>1, LeftIs
  <2> HIDE DEF n
  <2> QED
    BY <1>1, <1>3, <2>2 DEF Part
<1> QED
  BY <1>2, <1>3

PartsInNat == \A t \in Calling : Part(t) \in Nat

LEMMA PartsNat == TypeOK /\ PInv => PartsInNat
BY PartNat DEF PartsInNat

\* A call that is left alone has told the total what it had.
LEMMA PartKept ==
  ASSUME NEW u, build' = build, call'[u] = call[u], todo'[u] = todo[u],
         size'[call[u].at] = size[call[u].at]
  PROVE  Part(u)' = Part(u)
BY DEF Part, Left, ZmallocSize, Prefix

\* The counts stay what they are when a call begins or ends.
LEMMA CountsKept ==
  ASSUME CInv, used' = used, \A A \in [Places -> Nat] : Counts(A) => Counts(A)'
  PROVE  CInv'
<1>1. PICK A \in [Places -> Nat] :
        /\ Counts(A)
        /\ IsFiniteSet(Counted(A)) /\ used = Cardinality(Counted(A))
  BY DEF CInv
<1>2. Counts(A)' /\ used' = Cardinality(Counted(A))
  BY <1>1
<1> QED
  BY <1>1, <1>2 DEF CInv, Counted

\* Nothing of a new block is in the total.
LEMMA ObtainCInv ==
  ASSUME IInv, PInv, CInv, NEW t \in Threads, NEW p \in Places, NEW n \in Sizes,
         NEW s \in SizesOf(n), NEW k \in {"alloc", "log", "init"},
         Obtain(t, k, p, s)
  PROVE  CInv'
<1>1. /\ pc[t] = "caller" /\ p \notin taken /\ taken' = taken \cup {p}
      /\ size' = [size EXCEPT ![p] = s]
      /\ call' = [call EXCEPT ![t] = [kind |-> k, at |-> p]]
      /\ todo' = [todo EXCEPT ![t] = <<s + Prefix>>]
      /\ used' = used /\ build' = build
  BY DEF Obtain, Goto
<1>2. t \notin Calling /\ TypeOK /\ s \in Nat /\ Prefix \in Nat
  BY <1>1, SizeNat DEF PInv, CallsRun, IInv
<1>3. /\ call'[t].kind = k /\ call'[t].at = p
      /\ \A u \in Threads : u # t => call'[u] = call[u] /\ todo'[u] = todo[u]
  BY <1>1, <1>2 DEF TypeOK
<1>4. Calling' = Calling \cup {t} /\ Prefix' = Prefix
  BY <1>1, <1>3 DEF Calling, Prefix
<1>5. \A u \in Calling : /\ u \in Threads /\ u # t /\ call[u].at # p
                         /\ call[u].at \in taken
  BY <1>1, <1>2 DEF PInv, CallsOwn, Calling
<1>6. Part(t)' = 0
  <2>1. todo'[t] = <<s + Prefix>> /\ size'[p] = s
    BY <1>1, <1>2 DEF TypeOK
  <2>2. Left(t)' = s + Prefix
    BY <2>1, LeftIs DEF Left
  <2> QED
    BY <1>2, <1>3, <1>4, <2>1, <2>2 DEF Part, ZmallocSize
<1>7. \A u \in Calling : Part(u)' = Part(u)
  BY <1>1, <1>2, <1>3, <1>5, PartKept DEF TypeOK
<1>8. \A q \in taken : q # p /\ ZmallocSize(q)' = ZmallocSize(q)
  BY <1>1, <1>2, <1>4 DEF TypeOK, ZmallocSize
<1> HIDE DEF Calling
<1>9. ASSUME NEW A \in [Places -> Nat], Counts(A) PROVE Counts(A)'
  <2>1. \A q \in Places : q \notin taken' => A[q] = 0
    BY <1>1, <1>9 DEF Counts
  <2>2. \A q \in taken' : (\A u \in Calling' : call'[u].at # q) =>
                            A[q] = ZmallocSize(q)'
    BY <1>1, <1>3, <1>4, <1>5, <1>8, <1>9 DEF Counts
  <2>3. \A u \in Calling' : A[call'[u].at] = Part(u)'
    BY <1>1, <1>3, <1>4, <1>5, <1>6, <1>7, <1>9 DEF Counts
  <2> QED
    BY <2>1, <2>2, <2>3 DEF Counts
<1> QED
  BY <1>1, <1>9, CountsKept

\* All of a block that begins to go is in the total.
LEMMA ReleasingCInv ==
  ASSUME IInv, PInv, CInv, NEW t \in Threads, NEW p \in taken,
         NEW k \in {"free", "drop"}, Releasing(t, k, p),
         \/ t \notin Calling /\ \A u \in Calling : call[u].at # p
         \/ t \in Calling /\ call[t].at = p /\ call[t].kind = "log"
            /\ todo[t] = <<>>,
         UNCHANGED <<build, taken, size, used>>
  PROVE  CInv'
<1>1. /\ call' = [call EXCEPT ![t] = [kind |-> k, at |-> p]]
      /\ todo' = [todo EXCEPT ![t] = <<-ZmallocSize(p)>>]
  BY DEF Releasing
<1>2. TypeOK /\ p \in Places /\ ZmallocSize(p) \in Nat /\ Prefix' = Prefix
  BY SizeNat DEF IInv, TypeOK, Prefix
<1>3. /\ call'[t].kind = k /\ call'[t].at = p /\ todo'[t] = <<-ZmallocSize(p)>>
      /\ \A u \in Threads : u # t => call'[u] = call[u] /\ todo'[u] = todo[u]
  BY <1>1, <1>2 DEF TypeOK
<1>4. Calling' = Calling \cup {t}
  BY <1>3 DEF Calling
<1>5. Part(t)' = ZmallocSize(p)
  <2>1. Left(t)' = -ZmallocSize(p)
    BY <1>3, LeftIs DEF Left
  <2> QED
    BY <1>2, <1>3, <2>1 DEF Part
<1>6. \A u \in Calling \ {t} :
        u \in Threads /\ call'[u] = call[u] /\ call[u].at # p /\ Part(u)' = Part(u)
  BY <1>3, PartKept DEF Calling, PInv, CallsOwn
<1>7. \A q \in taken : ZmallocSize(q)' = ZmallocSize(q)
  BY <1>2 DEF ZmallocSize
<1> HIDE DEF Calling
<1>8. ASSUME NEW A \in [Places -> Nat], Counts(A) PROVE Counts(A)'
  <2>1. \A q \in Places : q \notin taken' => A[q] = 0
    BY <1>8 DEF Counts
  <2>2. \A q \in taken' : (\A u \in Calling' : call'[u].at # q) =>
                            A[q] = ZmallocSize(q)'
    BY <1>3, <1>4, <1>6, <1>7, <1>8 DEF Counts
  <2>3. A[p] = ZmallocSize(p)
    <3>1. CASE \A u \in Calling : call[u].at # p
      BY <1>8, <3>1 DEF Counts
    <3>2. CASE t \in Calling /\ call[t].at = p /\ call[t].kind = "log"
               /\ todo[t] = <<>>
      <4>1. A[p] = Part(t)
        BY <1>8, <3>2 DEF Counts
      <4>2. Left(t) = 0
        BY <3>2, LeftIs
      <4> QED
        BY <1>2, <3>2, <4>1, <4>2 DEF Part
    <3> QED
      BY <3>1, <3>2
  <2>4. \A u \in Calling' : A[call'[u].at] = Part(u)'
    BY <1>3, <1>4, <1>5, <1>6, <1>8, <2>3 DEF Counts
  <2> QED
    BY <2>1, <2>2, <2>4 DEF Counts
<1> QED
  BY <1>8, CountsKept

\* What the total had of the block that moves it has of it where it is now,
\* with the difference of the sizes due.
LEMMA ResizeCInv ==
  ASSUME IInv, PInv, CInv, NEW t \in Threads, NEW p \in given, NEW q \in Places,
         NEW n \in Nat, q \notin taken \ {p}, Goto(t, "caller", "stat"),
         size' = [size EXCEPT ![q] = n],
         todo' = [todo EXCEPT ![t] = Resized(p, n)],
         taken' = (taken \ {p}) \cup {q},
         call' = [call EXCEPT ![t] = [kind |-> "alloc", at |-> q]],
         UNCHANGED <<build, used>>
  PROVE  CInv'
<1>1. /\ t \notin Calling /\ TypeOK /\ p \in Places /\ size[p] \in Nat
      /\ Prefix \in Nat /\ p \in taken
  BY SizeNat DEF PInv, CallsRun, IInv, Goto, TypeOK, TakenOwned
<1>2. /\ call'[t].kind = "alloc" /\ call'[t].at = q
      /\ todo'[t] = <<-size[p], n>> /\ size'[q] = n
      /\ \A u \in Threads : u # t => call'[u] = call[u] /\ todo'[u] = todo[u]
  BY <1>1 DEF TypeOK, Resized
<1>3. Calling' = Calling \cup {t} /\ Prefix' = Prefix
  BY <1>2 DEF Calling, Prefix
<1>4. \A u \in Calling : /\ u \in Threads /\ u # t /\ call[u].at \in taken
                         /\ call[u].at # p /\ call[u].at # q
  BY <1>1 DEF PInv, CallsOwn, Calling
<1>5. Part(t)' = ZmallocSize(p)
  <2>1. Left(t)' = -size[p] + n
    BY <1>2, LeftIs DEF Left
  <2> QED
    BY <1>1, <1>2, <1>3, <2>1 DEF Part, ZmallocSize
<1>6. \A u \in Calling : Part(u)' = Part(u)
  BY <1>1, <1>2, <1>4, PartKept DEF TypeOK
<1>7. \A r \in taken \ {p} : r # q /\ ZmallocSize(r)' = ZmallocSize(r)
  BY <1>1, <1>3 DEF TypeOK, ZmallocSize
<1>8. PICK A \in [Places -> Nat] :
        /\ Counts(A)
        /\ IsFiniteSet(Counted(A)) /\ used = Cardinality(Counted(A))
  BY DEF CInv
<1>9. A[p] = ZmallocSize(p)
  BY <1>1, <1>4, <1>8 DEF Counts
<1> HIDE DEF Calling
<1>10. PICK B \in [Places -> Nat] :
         /\ IsFiniteSet(Counted(B)) /\ used = Cardinality(Counted(B))
         /\ B[q] = A[p] /\ (p # q => B[p] = 0)
         /\ \A r \in Places : r # p /\ r # q => B[r] = A[r]
  <2>1. CASE p = q
    BY <1>8, <2>1
  <2>2. CASE p # q
    <3> DEFINE C == [A EXCEPT ![p] = 0]
               B == [C EXCEPT ![q] = A[p]]
    <3>1. C \in [Places -> Nat] /\ C[q] = 0 /\ A[p] \in Nat
      <4>1. A[q] = 0
        BY <1>8, <2>2 DEF Counts
      <4> QED
        BY <1>1, <2>2, <4>1
    <3>2. IsFiniteSet(Counted(C)) /\ Cardinality(Counted(C)) = used - A[p]
      <4>1. /\ IsFiniteSet(Counted(C))
            /\ Cardinality(Counted(C)) = Cardinality(Counted(A)) - A[p] + 0
        BY <1>1, <1>8, CountOne
      <4>2. used \in Int
        BY <1>1 DEF TypeOK
      <4> HIDE DEF C
      <4> QED
        BY <1>8, <3>1, <4>1, <4>2
    <3>3. /\ B \in [Places -> Nat] /\ B[q] = A[p] /\ B[p] = 0
          /\ \A r \in Places : r # p /\ r # q => B[r] = A[r]
      BY <1>1, <2>2, <3>1
    <3> HIDE DEF C
    <3>4. /\ IsFiniteSet(Counted(B))
          /\ Cardinality(Counted(B)) = Cardinality(Counted(C)) - C[q] + A[p]
      BY <3>1, <3>2, CountOne
    <3>5. used \in Int
      BY <1>1 DEF TypeOK
    <3> HIDE DEF B
    <3>6. used = Cardinality(Counted(B))
      BY <3>1, <3>2, <3>4, <3>5
    <3> QED
      BY <3>3, <3>4, <3>6
  <2> QED
    BY <2>1, <2>2
<1>11. Counts(B)'
  <2>1. \A r \in Places : r \notin taken' => B[r] = 0
    BY <1>8, <1>10 DEF Counts
  <2>2. \A r \in taken' : (\A u \in Calling' : call'[u].at # r) =>
                            B[r] = ZmallocSize(r)'
    <3> SUFFICES ASSUME NEW r \in taken', \A u \in Calling' : call'[u].at # r
                 PROVE  B[r] = ZmallocSize(r)'
      OBVIOUS
    <3>1. r # q /\ r \in taken \ {p} /\ r \in Places
      BY <1>1, <1>2, <1>3 DEF TypeOK
    <3>2. \A u \in Calling : call[u].at # r
      BY <1>2, <1>3, <1>4
    <3> QED
      BY <1>7, <1>8, <1>10, <3>1, <3>2 DEF Counts
  <2>3. \A u \in Calling' : B[call'[u].at] = Part(u)'
    <3>1. B[call'[t].at] = Part(t)'
      BY <1>2, <1>5, <1>9, <1>10
    <3>2. ASSUME NEW u \in Calling PROVE B[call'[u].at] = Part(u)'
      <4>1. call'[u] = call[u] /\ call[u].at \in Places
        BY <1>1, <1>2, <1>4 DEF TypeOK
      <4> QED
        BY <1>4, <1>6, <1>8, <1>10, <4>1 DEF Counts
    <3> QED
      BY <1>3, <3>1, <3>2
  <2> QED
    BY <2>1, <2>2, <2>3 DEF Counts
<1> QED
  BY <1>8, <1>10, <1>11 DEF CInv, Counted

\* A call that ends has told the total all.
LEMMA ReturnCInv ==
  ASSUME IInv, PInv, CInv, NEW t \in Threads,
         ZmallocReturns(t) \/ InitReturns(t) \/ ZfreeReturns(t)
  PROVE  CInv'
<1> DEFINE p == call[t].at
<1>1. /\ pc[t] = "stat" /\ todo[t] = <<>> /\ todo' = todo
      /\ call' = [call EXCEPT ![t] = NoCall]
      /\ UNCHANGED <<build, size, used>>
  BY DEF ZmallocReturns, InitReturns, ZfreeReturns, Returned, Goto
<1>2. /\ taken' = IF call[t].kind \in {"free", "drop"} THEN taken \ {p}
                                                       ELSE taken
  BY DEF ZmallocReturns, InitReturns, ZfreeReturns
<1>3. /\ t \in Calling /\ TypeOK /\ p \in Places /\ p \in taken
      /\ ZmallocSize(p) \in Nat
  BY <1>1, SizeNat DEF PInv, CallsRun, IInv, HasBlock, CallsOwn
<1>4. /\ call'[t].kind = "none"
      /\ \A u \in Threads : u # t => call'[u] = call[u] /\ todo'[u] = todo[u]
  BY <1>1, <1>3 DEF TypeOK, NoCall
<1>5. Calling' = Calling \ {t} /\ \A q : ZmallocSize(q)' = ZmallocSize(q)
  BY <1>1, <1>4 DEF Calling, ZmallocSize, Prefix
<1>6. \A u \in Calling \ {t} :
        /\ u \in Threads /\ call[u].at # p /\ call'[u] = call[u]
        /\ Part(u)' = Part(u)
  BY <1>1, <1>3, <1>4, PartKept DEF Calling, PInv, CallsOwn
<1>7. Part(t) = IF call[t].kind \in {"free", "drop"} THEN 0 ELSE ZmallocSize(p)
  BY <1>1, <1>3, LeftIs DEF Part
<1> HIDE DEF Calling, p
<1>8. ASSUME NEW A \in [Places -> Nat], Counts(A) PROVE Counts(A)'
  <2>1. A[p] = Part(t)
    BY <1>3, <1>8 DEF Counts, p
  <2>2. \A q \in Places : q \notin taken' => A[q] = 0
    BY <1>2, <1>7, <1>8, <2>1 DEF Counts
  <2>3. \A q \in taken' : (\A u \in Calling' : call'[u].at # q) =>
                            A[q] = ZmallocSize(q)'
    <3> SUFFICES ASSUME NEW q \in taken', \A u \in Calling' : call'[u].at # q
                 PROVE  A[q] = ZmallocSize(q)
      BY <1>5
    <3>1. CASE q = p
      BY <1>2, <1>7, <2>1, <3>1
    <3>2. CASE q # p
      <4>1. \A u \in Calling : call[u].at # q
        BY <1>5, <1>6, <3>2 DEF p
      <4> QED
        BY <1>2, <1>8, <4>1 DEF Counts
    <3> QED
      BY <3>1, <3>2
  <2>4. \A u \in Calling' : A[call'[u].at] = Part(u)'
    BY <1>5, <1>6, <1>8 DEF Counts
  <2> QED
    BY <2>2, <2>3, <2>4 DEF Counts
<1> QED
  BY <1>1, <1>8, CountsKept

\* An update adds to the total what the call has then told it.
LEMMA ToldCInv ==
  ASSUME IInv, PInv, PInv', CInv, NEW t \in Threads, Update(t) \/ Store(t)
  PROVE  CInv'
<1>1. /\ pc[t] \in {"stat", "store"} /\ todo[t] # <<>>
      /\ todo' = [todo EXCEPT ![t] = Tail(@)]
      /\ used' = used + Head(todo[t])
      /\ UNCHANGED <<build, taken, size, given, handles, call>>
  BY DEF Update, Store, Goto, IInv, HasBlock, NoLostUpdate
<1>2. /\ t \in Calling /\ Calling' = Calling /\ TypeOK
      /\ \A q : ZmallocSize(q)' = ZmallocSize(q)
  BY <1>1 DEF PInv, CallsRun, Calling, ZmallocSize, Prefix, IInv
<1>3. TypeOK'
  <2>1. Call(t) \/ Step(t)
    BY DEF Step
  <2> QED
    BY <2>1, StepIInv DEF IInv
<1>4. PICK p \in Places : p = call[t].at
  BY <1>2 DEF PInv, CallsOwn, TypeOK
<1>5. PICK n \in Nat : n = Part(t)'
  <2>1. (TypeOK /\ PInv)' => PartsInNat'
    BY PartsNat, PTL
  <2> QED
    BY <1>2, <1>3, <2>1 DEF PartsInNat
<1>6. Part(t) + Head(todo[t]) = n /\ Part(t) \in Nat /\ Head(todo[t]) \in Int
  <2>1. Left(t) = Head(todo[t]) + Left(t)' /\ Left(t)' \in Int /\ Head(todo[t]) \in Int
    <3>0. todo'[t] = Tail(todo[t]) /\ size[call[t].at] \in Nat /\ Prefix \in Nat
      BY <1>1, <1>2, <1>4, SizeNat DEF TypeOK
    <3>1. PICK x, y \in Int : todo[t] = <<x>> \/ todo[t] = <<x, y>>
      BY <1>1, <1>2, <3>0 DEF PInv, LeftKnown, Told, Calling
    <3>2. CASE todo[t] = <<x>>
      <4>1. Head(todo[t]) = x /\ todo'[t] = <<>>
        BY <3>0, <3>2
      <4>2. Left(t) = x /\ Left(t)' = 0
        BY <3>2, <4>1, LeftIs DEF Left
      <4> QED
        BY <4>1, <4>2
    <3>3. CASE todo[t] = <<x, y>>
      <4>1. Head(todo[t]) = x /\ todo'[t] = <<y>>
        BY <3>0, <3>3
      <4>2. Left(t) = x + y /\ Left(t)' = y
        BY <3>3, <4>1, LeftIs DEF Left
      <4> QED
        BY <4>1, <4>2
    <3> QED
      BY <3>1, <3>2, <3>3
  <2>2. Part(t) \in Nat
    BY <1>2, PartNat
  <2>3. /\ Part(t)' = (IF call[t].kind \in {"free", "drop"} THEN 0
                         ELSE ZmallocSize(call[t].at)) - Left(t)'
        /\ Part(t) = (IF call[t].kind \in {"free", "drop"} THEN 0
                        ELSE ZmallocSize(call[t].at)) - Left(t)
    BY <1>1, <1>2 DEF Part
  <2>4. ZmallocSize(call[t].at) \in Nat
    BY <1>2, <1>4, SizeNat
  <2> QED
    BY <1>5, <2>1, <2>2, <2>3, <2>4
<1>7. PICK A \in [Places -> Nat] :
        /\ Counts(A)
        /\ IsFiniteSet(Counted(A)) /\ used = Cardinality(Counted(A))
  BY DEF CInv
<1> DEFINE B == [A EXCEPT ![p] = n]
<1>8. A[p] = Part(t)
  BY <1>2, <1>4, <1>7 DEF Counts
<1>9. /\ B \in [Places -> Nat] /\ B[p] = n
      /\ \A q \in Places : q # p => B[q] = A[q]
  OBVIOUS
<1>10. IsFiniteSet(Counted(B)) /\ used' = Cardinality(Counted(B))
  <2>1. /\ IsFiniteSet(Counted(B))
        /\ Cardinality(Counted(B)) = used - A[p] + n
    BY <1>7, CountOne
  <2>2. used \in Int
    BY <1>2 DEF TypeOK
  <2> HIDE DEF B
  <2> QED
    BY <1>1, <1>6, <1>8, <2>1, <2>2
<1> HIDE DEF B
<1>11. Counts(B)'
  <2>1. \A q \in Places : q \notin taken' => B[q] = 0
    <3>1. p \in taken
      BY <1>2, <1>4 DEF PInv, CallsOwn
    <3> QED
      BY <1>1, <1>7, <1>9, <3>1 DEF Counts
  <2>2. \A q \in taken' : (\A u \in Calling' : call'[u].at # q) =>
                            B[q] = ZmallocSize(q)'
    BY <1>1, <1>2, <1>4, <1>7, <1>9 DEF Counts, TypeOK
  <2>3. ASSUME NEW u \in Calling PROVE B[call'[u].at] = Part(u)'
    <3>1. CASE u = t
      BY <1>1, <1>4, <1>5, <1>9, <3>1
    <3>2. CASE u # t
      <4>1. u \in Threads /\ call[u].at \in Places /\ call[u].at # p
        BY <1>2, <1>4, <3>2 DEF PInv, CallsOwn, Calling, TypeOK
      <4>2. Part(u)' = Part(u)
        BY <1>1, <1>2, <3>2, <4>1, PartKept DEF TypeOK
      <4> QED
        BY <1>1, <1>7, <1>9, <4>1, <4>2 DEF Counts
    <3> QED
      BY <3>1, <3>2
  <2> QED
    BY <1>2, <2>1, <2>2, <2>3 DEF Counts
<1> QED
  BY <1>9, <1>10, <1>11 DEF CInv, Counted

\* The other steps leave the total and the blocks alone.
LEMMA OtherCInv ==
  ASSUME CInv, UNCHANGED <<build, memory, call, todo, used>>
  PROVE  CInv'
<1>1. Calling' = Calling /\ \A p : ZmallocSize(p)' = ZmallocSize(p)
  BY DEF Calling, ZmallocSize, Prefix
<1>2. \A t : Part(t)' = Part(t)
  BY PartKept
<1>3. \A A \in [Places -> Nat] : Counts(A) => Counts(A)'
  BY <1>1, <1>2 DEF Counts
<1> QED
  BY <1>3, CountsKept

LEMMA InitCInv == Init => CInv
<1> SUFFICES ASSUME Init PROVE CInv
  OBVIOUS
<1> DEFINE A == [p \in Places |-> 0]
<1>1. Calling = {} /\ taken = {}
  BY DEF Init, Calling, NoCall
<1>2. Counts(A)
  BY <1>1 DEF Counts
<1>3. Counted(A) = {}
  BY DEF Counted
<1>4. A \in [Places -> Nat]
  OBVIOUS
<1> HIDE DEF A
<1>5. IsFiniteSet(Counted(A)) /\ used = Cardinality(Counted(A))
  BY <1>3, FS_EmptySet DEF Init
<1> QED
  BY <1>2, <1>4, <1>5 DEF CInv

LEMMA NextCInv ==
  ASSUME IInv, PInv, CInv, [Next]_vars
  PROVE  CInv'
<1>0. TypeOK /\ PInv'
  BY NextPInv DEF IInv
<1>1. CASE InitStack
  BY <1>1, ObtainCInv, ThreadsAssumption DEF InitStack
<1>2. CASE FreeStack
  <2>1. /\ Main \notin Calling /\ handles \in taken
        /\ \A u \in Calling : call[u].at # handles
    BY <1>2, ThreadsAssumption DEF FreeStack, Goto, PInv, CallsRun, TableOwned,
                                   Calling
  <2>2. Releasing(Main, "drop", handles) /\ UNCHANGED <<build, taken, size, used>>
    BY <1>2 DEF FreeStack
  <2> QED
    BY <2>1, <2>2, ReleasingCInv, ThreadsAssumption
<1>3. CASE Tick \/ UNCHANGED vars
  BY <1>3, OtherCInv DEF Tick, vars
<1>4. ASSUME NEW t \in Threads, Call(t) \/ Step(t)
      PROVE  CInv'
  <2>1. CASE Zmalloc(t)
    BY <2>1, ObtainCInv DEF Zmalloc
  <2>2. CASE WriteLog(t)
    BY <2>2, ObtainCInv DEF WriteLog
  <2>3. CASE Zrealloc(t)
    <3>1. PICK p \in given, n \in Sizes, q \in Places :
            /\ q \notin taken \ {p}
            /\ \E s \in SizesOf(n) :
                 /\ size' = [size EXCEPT ![q] = s]
                 /\ todo' = [todo EXCEPT ![t] = Resized(p, s)]
            /\ taken' = (taken \ {p}) \cup {q}
            /\ call' = [call EXCEPT ![t] = [kind |-> "alloc", at |-> q]]
      BY <2>3 DEF Zrealloc
    <3>2. PICK s \in SizesOf(n) :
                 /\ size' = [size EXCEPT ![q] = s]
                 /\ todo' = [todo EXCEPT ![t] = Resized(p, s)]
      BY <3>1
    <3>3. s \in Nat
      BY <1>0, SizeNat
    <3>4. Goto(t, "caller", "stat") /\ UNCHANGED <<build, used>>
      BY <2>3 DEF Zrealloc
    <3> QED
      BY <3>1, <3>2, <3>3, <3>4, ResizeCInv
  <2>4. CASE Zfree(t)
    <3>1. PICK p \in given : Releasing(t, "free", p)
      BY <2>4 DEF Zfree
    <3>2. p \in taken /\ \A u \in Calling : call[u].at # p
      BY DEF PInv, CallsOwn, TakenOwned
    <3>3. t \notin Calling /\ UNCHANGED <<build, taken, size, used>>
      BY <2>4 DEF Zfree, Goto, PInv, CallsRun
    <3> QED
      BY <3>1, <3>2, <3>3, ReleasingCInv
  <2>5. CASE ZmallocReturns(t) \/ InitReturns(t) \/ ZfreeReturns(t)
    BY <2>5, ReturnCInv
  <2>6. CASE LogWritten(t)
    <3>1. /\ call[t].kind = "log" /\ todo[t] = <<>>
          /\ Releasing(t, "free", call[t].at)
          /\ UNCHANGED <<build, taken, size, used>>
      BY <2>6 DEF LogWritten
    <3>2. t \in Calling /\ call[t].at \in taken
      BY <3>1 DEF Calling, PInv, CallsOwn
    <3> QED
      BY <3>1, <3>2, ReleasingCInv
  <2>7. CASE Update(t) \/ Store(t)
    BY <1>0, <2>7, ToldCInv
  <2>8. CASE \/ RandInt(t) \/ Acquire(t) \/ Load(t) \/ Seed(t) \/ SetFlag(t)
             \/ Draw(t)
    BY <2>8, OtherCInv DEF RandInt, Acquire, Load, Seed, SetFlag, Draw
  <2> QED
    BY <1>4, <2>1, <2>2, <2>3, <2>4, <2>5, <2>6, <2>7, <2>8 DEF Call, Step
<1> QED
  BY <1>1, <1>2, <1>3, <1>4 DEF Next

\* The total is exact, up to what calls under way have yet to tell it, in
\* every build and for any number of threads.
THEOREM ProcessUsedExact == Spec => []UsedExact
<1>1. Init => IInv /\ PInv /\ CInv
  BY InitIInv, InitPInv, InitCInv
<1>2. (IInv /\ PInv /\ CInv) /\ [Next]_vars => (IInv /\ PInv /\ CInv)'
  BY NextIInv, NextPInv, NextCInv
<1>3. IInv /\ PInv /\ CInv => UsedExact
  <2> SUFFICES ASSUME IInv, PInv, CInv PROVE UsedExact
    OBVIOUS
  <2>0. TypeOK /\ \A t \in Calling : call[t].at \in taken
    BY DEF IInv, PInv, CallsOwn
  <2>1. PICK A \in [Places -> Nat] :
          Counts(A) /\ used = Cardinality(Counted(A))
    BY DEF CInv
  <2>2. \A t \in Calling : Part(t) >= 0
    BY <2>0, PartNat
  <2> DEFINE Settled == taken \ {call[t].at : t \in Calling}
  <2>3. Bytes = (UNION {{p} \X (1 .. ZmallocSize(p)) : p \in Settled})
                  \cup (UNION {{call[t].at} \X (1 .. Part(t)) : t \in Calling})
    BY DEF Bytes
  <2>4. /\ \A p \in Settled : p \in Places /\ A[p] = ZmallocSize(p)
        /\ \A t \in Calling : call[t].at \in Places /\ A[call[t].at] = Part(t)
    BY <2>0, <2>1 DEF Counts, TypeOK
  <2>5. \A p \in Places : \/ p \in Settled \/ A[p] = 0
                          \/ \E t \in Calling : p = call[t].at
    BY <2>1 DEF Counts
  <2> HIDE DEF Settled
  <2>6. ASSUME NEW b \in Bytes PROVE b \in Counted(A)
    BY <2>3, <2>4 DEF Counted
  <2>7. ASSUME NEW b \in Counted(A) PROVE b \in Bytes
    <3>1. PICK p \in Places : b \in {p} \X (1 .. A[p])
      BY DEF Counted
    <3>2. A[p] # 0
      BY <3>1
    <3> QED
      BY <2>3, <2>4, <2>5, <3>1, <3>2
  <2> QED
    BY <2>1, <2>2, <2>6, <2>7 DEF UsedExact
<1> QED
  BY <1>1, <1>2, <1>3, PTL DEF Spec
=============================================================================
